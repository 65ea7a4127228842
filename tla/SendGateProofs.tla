--------------------------- MODULE SendGateProofs ---------------------------
(***************************************************************************)
(* Theorems about SendGate, for any finite number of folders, any mark and *)
(* any number of messages and waits given up.                              *)
(***************************************************************************)
EXTENDS SendGate, FiniteSetTheorems, TLAPS

-----------------------------------------------------------------------------
(* Types.                                                                  *)

\* Each variable of the gate, the connection and the threads keeps to its type.
THEOREM TypeCorrect == Spec => []TypeOK
<1> USE GateAssumption DEF Thread, Waiting, Locked
<1>1. Init => TypeOK
  <2> SUFFICES ASSUME Init PROVE TypeOK
    OBVIOUS
  <2>1. 0 \in 0..MaxTimeouts /\ 0 \in 0..MaxSends
    OBVIOUS
  <2> QED BY <2>1 DEF Init, TypeOK
<1>2. TypeOK /\ [Next]_vars => TypeOK'
  <2> SUFFICES ASSUME TypeOK, [Next]_vars PROVE TypeOK'
    OBVIOUS
  <2> USE DEF TypeOK, queue, sender, others
  <2>1. ASSUME NEW f \in Folder, Send(f) PROVE TypeOK'
    BY <2>1 DEF Send, Goes
  <2>2. ASSUME NEW f \in Folder, Enter(f) PROVE TypeOK'
    BY <2>2 DEF Enter, Goes, Reads
  <2>3. ASSUME NEW f \in Folder, Wake(f) PROVE TypeOK'
    BY <2>3 DEF Wake, Goes
  <2>4. ASSUME NEW f \in Folder, Decide(f) PROVE TypeOK'
    BY <2>4 DEF Decide, Goes, Reads
  <2>5. ASSUME NEW f \in Folder, Check(f) PROVE TypeOK'
    BY <2>5 DEF Check, Goes, Reads
  <2>6. ASSUME NEW f \in Folder, FallAsleep(f) PROVE TypeOK'
    BY <2>6 DEF FallAsleep, Goes
  <2>7. ASSUME NEW f \in Folder, Return(f) PROVE TypeOK'
    BY <2>7 DEF Return, Goes
  <2>8. ASSUME NEW f \in Folder, GiveUp(f) PROVE TypeOK'
    BY <2>8 DEF GiveUp, Goes, Reads
  <2>9. ASSUME NEW f \in Folder, Poll(f) PROVE TypeOK'
    BY <2>9 DEF Poll, Goes
  <2>10. CASE Take
    <3>1. handed' \in Nat /\ queued' \in Nat
      BY <2>10 DEF Take
    <3>2. full' \in BOOLEAN
      <4>1. full \in BOOLEAN /\ (queued' >= Mark) \in BOOLEAN
        OBVIOUS
      <4> QED BY <4>1, <2>10, Zenon DEF Take
    <3> QED BY <3>1, <3>2, <2>10 DEF Take
  <2>11. CASE Drain
    BY <2>11 DEF Drain, Drains
  <2>12. CASE DrainAndWake
    <3>1. queued' \in Nat
      BY <2>12 DEF DrainAndWake
    <3>2. moved' \in [Folder -> BOOLEAN]
      BY <2>12 DEF DrainAndWake, Bump
    <3> QED BY <3>1, <3>2, <2>12 DEF DrainAndWake, Moves
  <2>13. CASE Disconnect
    BY <2>13 DEF Disconnect, Moves, Bump
  <2>14. CASE Shutdown
    BY <2>14 DEF Shutdown, Moves, Bump
  <2>15. ASSUME NEW t \in Thread, Notify(t) PROVE TypeOK'
    BY <2>15 DEF Notify, Moves
  <2>16. ASSUME NEW t \in Thread, NEW f \in Folder, StopSession(t, f) PROVE TypeOK'
    BY <2>16 DEF StopSession, Moves
  <2>17. ASSUME NEW t \in Thread, WakeSenders(t) PROVE TypeOK'
    BY <2>17 DEF WakeSenders, Moves, Bump
  <2>18. ASSUME NEW t \in Thread, Join(t) PROVE TypeOK'
    BY <2>18 DEF Join, Moves
  <2>19. ASSUME NEW t \in Thread, TornDown(t) PROVE TypeOK'
    BY <2>19 DEF TornDown, Moves
  <2>20. CASE UNCHANGED vars
    BY <2>20 DEF vars
  <2>21. QED
    BY <2>1, <2>2, <2>3, <2>4, <2>5, <2>6, <2>7, <2>8, <2>9, <2>10, <2>11, <2>12, <2>13,
       <2>14, <2>15, <2>16, <2>17, <2>18, <2>19, <2>20
       DEF Next, Acquires, Runs, Serves, Tears
<1>3. QED
  BY <1>1, <1>2, PTL DEF Spec

-----------------------------------------------------------------------------
(* The queue.                                                              *)

\* The folders that send no more before there is room, or at all.
Held == {f \in Folder : pc[f] \in Waiting \/ ~running[f]}

\* What is out above the mark was sent by folders that are held, or by one whose wait
\* was given up.
QueueInv == stopped \/ handed + queued < Mark + Cardinality(Held) + timeouts

LEMMA PartsAreFinite ==
    ASSUME NEW S \in SUBSET Folder
    PROVE  /\ IsFiniteSet(S) /\ Cardinality(S) \in Nat
           /\ Cardinality(S) <= Cardinality(Folder) /\ Cardinality(Folder) \in Nat
BY GateAssumption, FS_Subset, FS_CardinalityType

\* While no held folder is let go and nothing is added, the bound stays.
LEMMA BoundStays ==
    ASSUME NEW S \in SUBSET Folder, NEW T \in SUBSET Folder, S \subseteq T,
           NEW m \in Nat, NEW n \in Nat, n <= m, NEW t \in Nat, m < Mark + Cardinality(S) + t
    PROVE  n < Mark + Cardinality(T) + t
<1>1. Cardinality(S) <= Cardinality(T) /\ Cardinality(S) \in Nat /\ Cardinality(T) \in Nat
  BY PartsAreFinite, FS_Subset
<1> QED BY <1>1, GateAssumption

\* Room is room, whoever is held.
LEMMA RoomIsBelow ==
    ASSUME NEW S \in SUBSET Folder, NEW n \in Nat, NEW t \in Nat, n < Mark
    PROVE  n < Mark + Cardinality(S) + t
<1>1. Cardinality(S) \in Nat
  BY PartsAreFinite
<1> QED BY <1>1, GateAssumption

\* What is out, when a message is taken up and when one is sent.
LEMMA Parts ==
    ASSUME NEW m \in Nat, NEW n \in Nat
    PROVE  /\ m + n \in Nat
           /\ (m - 1) + (n + 1) = m + n
           /\ m + (n - 1) <= m + n
           /\ m + n <= m + n
OBVIOUS

\* SendGate keeps the queue near its mark, whatever the folders send, give up or
\* lose: above the mark there is at most a message of each, and one for each wait
\* given up.
THEOREM QueueHolds == Spec => []QueueBounded
<1> USE GateAssumption
<1>1. Init => QueueInv
  <2> SUFFICES ASSUME Init PROVE QueueInv
    OBVIOUS
  <2>1. Held \in SUBSET Folder
    BY DEF Held
  <2>2. Cardinality(Held) \in Nat
    BY <2>1, PartsAreFinite
  <2> QED BY <2>2 DEF Init, QueueInv
<1>2. TypeOK /\ TypeOK' /\ QueueInv /\ [Next]_vars => QueueInv'
  <2> SUFFICES ASSUME TypeOK, TypeOK', QueueInv, [Next]_vars PROVE QueueInv'
    OBVIOUS
  <2> USE DEF queue, sender, others
  <2>0. /\ handed \in Nat /\ queued \in Nat /\ Mark \in Nat /\ timeouts \in Nat
        /\ handed' \in Nat /\ queued' \in Nat /\ timeouts' \in Nat
        /\ handed + queued \in Nat /\ handed' + queued' \in Nat
        /\ handed + queued <= handed + queued
        /\ Held \in SUBSET Folder /\ Held' \in SUBSET Folder
    <3>1. /\ handed \in Nat /\ queued \in Nat /\ Mark \in Nat /\ timeouts \in Nat
          /\ handed' \in Nat /\ queued' \in Nat /\ timeouts' \in Nat
      BY DEF TypeOK
    <3>2. handed + queued \in Nat /\ handed + queued <= handed + queued
      BY <3>1, Parts
    <3>4. handed' + queued' \in Nat
      BY <3>1, Parts
    <3>3. Held \in SUBSET Folder /\ Held' \in SUBSET Folder
      BY DEF Held
    <3> QED BY <3>1, <3>2, <3>3, <3>4
  <2>a. ASSUME handed' + queued' < Mark PROVE QueueInv'
    <3>1. handed' + queued' < Mark + Cardinality(Held') + timeouts'
      BY <2>a, <2>0, RoomIsBelow
    <3> QED BY <3>1 DEF QueueInv
  <2>b. ASSUME stopped' = stopped, Held \subseteq Held', timeouts' = timeouts,
               handed' + queued' <= handed + queued
        PROVE  QueueInv'
    <3>1. CASE stopped
      BY <3>1, <2>b DEF QueueInv
    <3>2. CASE handed + queued < Mark + Cardinality(Held) + timeouts
      <4>1. handed' + queued' < Mark + Cardinality(Held') + timeouts
        BY <3>2, <2>b, <2>0, BoundStays
      <4> QED BY <4>1, <2>b DEF QueueInv
    <3> QED BY <3>1, <3>2 DEF QueueInv
  <2>1. ASSUME NEW f \in Folder, Send(f) PROVE QueueInv'
    <3>1. CASE stopped
      BY <2>1, <3>1 DEF Send, Goes, QueueInv
    <3>2. CASE Writable(handed', queued)
      BY <2>1, <3>2, <2>a, <2>0 DEF Send, Writable
    <3>3. CASE ~stopped /\ ~Writable(handed', queued)
      <4>1. /\ f \notin Held /\ Held' = Held \union {f}
        <5>1. /\ pc[f] = "work" /\ running[f] /\ running' = running
              /\ pc' = [pc EXCEPT ![f] = "enter"] /\ pc \in [Folder -> Waiting \union {"work", "done"}]
          BY <2>1, <3>3 DEF Send, Goes, TypeOK
        <5>2. f \notin Held
          BY <5>1 DEF Held, Waiting, Locked
        <5>3. f \in Held'
          BY <5>1 DEF Held, Waiting
        <5>4. \A g \in Folder \ {f} : pc'[g] = pc[g]
          BY <5>1
        <5> QED BY <5>1, <5>2, <5>3, <5>4 DEF Held
      <4>2. Held \in SUBSET Folder
        BY DEF Held
      <4>3. Cardinality(Held') = Cardinality(Held) + 1 /\ Cardinality(Held) \in Nat
        BY <4>1, <4>2, PartsAreFinite, FS_AddElement
      <4>4. /\ handed' <= handed + 1 /\ queued' = queued /\ timeouts' = timeouts
            /\ stopped' = stopped
        BY <2>1, <2>0 DEF Send, Goes
      <4> QED BY <4>3, <4>4, <3>3 DEF QueueInv, TypeOK
    <3> QED BY <3>1, <3>2, <3>3
  <2>2. ASSUME NEW f \in Folder, Decide(f) PROVE QueueInv'
    <3>1. /\ handed' = handed /\ queued' = queued /\ stopped' = stopped /\ running' = running
          /\ timeouts' = timeouts
      BY <2>2 DEF Decide, Goes
    <3>2. CASE stopped
      BY <3>1, <3>2 DEF QueueInv
    <3>3. CASE Writable(handed, queued)
      BY <3>1, <3>3, <2>a DEF Writable
    <3>4. CASE ~stopped /\ ~Writable(handed, queued)
      <4>1. ~running[f] \/ pc' = [pc EXCEPT ![f] = "check"]
        BY <2>2, <3>4 DEF Decide, NoNeed, Goes
      <4>2. \A g \in Folder \ {f} : pc'[g] = pc[g]
        BY <2>2 DEF Decide, Goes, TypeOK
      <4>3. ~running[f] \/ pc'[f] = "check"
        BY <4>1 DEF TypeOK
      <4>4. Held \subseteq Held'
        BY <3>1, <4>2, <4>3 DEF Held, Waiting, Locked
      <4> QED BY <3>1, <4>4, <2>0, <2>b
    <3> QED BY <3>2, <3>3, <3>4
  <2>3. ASSUME NEW f \in Folder, GiveUp(f) PROVE QueueInv'
    <3>1. /\ handed' = handed /\ queued' = queued /\ stopped' = stopped /\ running' = running
          /\ timeouts' = timeouts + 1 /\ pc' = [pc EXCEPT ![f] = "work"]
      BY <2>3 DEF GiveUp, Goes
    <3>2. Held \subseteq Held' \union {f}
      BY <3>1 DEF Held, TypeOK
    <3>3. Held \in SUBSET Folder /\ Held' \in SUBSET Folder /\ Held' \union {f} \in SUBSET Folder
      BY DEF Held
    <3>4. Cardinality(Held' \union {f}) <= Cardinality(Held') + 1 /\ Cardinality(Held') \in Nat
      BY <3>3, PartsAreFinite, FS_AddElement
    <3>5. Cardinality(Held) <= Cardinality(Held' \union {f}) /\ Cardinality(Held) \in Nat
          /\ Cardinality(Held' \union {f}) \in Nat
      BY <3>2, <3>3, PartsAreFinite, FS_Subset
    <3> QED BY <3>1, <3>4, <3>5 DEF QueueInv, TypeOK
  <2>4. ASSUME NEW f \in Folder, Enter(f) \/ Wake(f) \/ Check(f) \/ FallAsleep(f) \/ Return(f) \/ Poll(f)
        PROVE QueueInv'
    <3>1. /\ handed' = handed /\ queued' = queued /\ stopped' = stopped /\ running' = running
          /\ timeouts' = timeouts
      BY <2>4 DEF Enter, Wake, Check, FallAsleep, Return, Poll, Goes
    <3>2. \A g \in Folder \ {f} : pc'[g] = pc[g]
      BY <2>4 DEF Enter, Wake, Check, FallAsleep, Return, Poll, Goes, TypeOK
    <3>3. ~running[f] \/ pc'[f] \in Waiting
      BY <2>4 DEF Enter, Wake, Check, FallAsleep, Return, Poll, Goes, TypeOK, Waiting, Locked
    <3>4. Held \subseteq Held'
      BY <3>1, <3>2, <3>3 DEF Held
    <3> QED BY <3>1, <3>4, <2>0, <2>b
  <2>5. CASE Take \/ Drain \/ DrainAndWake
    <3>1. stopped' = stopped /\ running' = running /\ timeouts' = timeouts /\ pc' = pc
      BY <2>5 DEF Take, Drain, DrainAndWake
    <3>2. \/ handed' = handed - 1 /\ queued' = queued + 1
          \/ handed' = handed /\ queued' = queued - 1
      BY <2>5, Zenon DEF Take, Drain, DrainAndWake
    <3>3. handed' + queued' <= handed + queued
      <4>1. CASE handed' = handed - 1 /\ queued' = queued + 1
        <5>1. handed' + queued' = (handed - 1) + (queued + 1)
          BY <4>1, Zenon
        <5>2. (handed - 1) + (queued + 1) = handed + queued /\ handed + queued <= handed + queued
          BY <2>0, Parts
        <5> QED BY <5>1, <5>2, Zenon
      <4>2. CASE handed' = handed /\ queued' = queued - 1
        <5>1. handed' + queued' = handed + (queued - 1)
          BY <4>2, Zenon
        <5>2. handed + (queued - 1) <= handed + queued
          BY <2>0, Parts
        <5> QED BY <5>1, <5>2, Zenon
      <4> QED BY <3>2, <4>1, <4>2
    <3>4. Held \subseteq Held'
      BY <3>1 DEF Held
    <3> QED BY <3>1, <3>3, <3>4, <2>0, <2>b
  <2>6. CASE Disconnect
    BY <2>6, <2>a, <2>0 DEF Disconnect
  <2>7. CASE Shutdown
    BY <2>7 DEF Shutdown, QueueInv
  <2>8. ASSUME NEW t \in Thread, Notify(t) PROVE QueueInv'
    <3>1. /\ handed' = handed /\ queued' = queued /\ stopped' = stopped /\ running' = running
          /\ timeouts' = timeouts
          /\ pc' = [f \in Folder |-> IF pc[f] = "asleep" THEN "woken" ELSE pc[f]]
      BY <2>8 DEF Notify
    <3>2. Held \subseteq Held'
      BY <3>1 DEF Held, Waiting
    <3> QED BY <3>1, <3>2, <2>0, <2>b
  <2>9. ASSUME NEW t \in Thread, NEW f \in Folder, StopSession(t, f) PROVE QueueInv'
    <3>1. /\ handed' = handed /\ queued' = queued /\ stopped' = stopped /\ pc' = pc
          /\ timeouts' = timeouts /\ running' = [running EXCEPT ![f] = FALSE]
      BY <2>9 DEF StopSession
    <3>2. Held \subseteq Held'
      BY <3>1 DEF Held, TypeOK
    <3> QED BY <3>1, <3>2, <2>0, <2>b
  <2>10. ASSUME NEW t \in Thread, WakeSenders(t) \/ Join(t) \/ TornDown(t) PROVE QueueInv'
    <3>1. /\ handed' = handed /\ queued' = queued /\ stopped' = stopped /\ pc' = pc
          /\ timeouts' = timeouts /\ running' = running
      BY <2>10 DEF WakeSenders, Join, TornDown
    <3> QED BY <3>1, <2>0, <2>b DEF Held
  <2>11. CASE UNCHANGED vars
    BY <2>11, <2>0, <2>b DEF vars, Held
  <2> QED
    BY <2>1, <2>2, <2>3, <2>4, <2>5, <2>6, <2>7, <2>8, <2>9, <2>10, <2>11
       DEF Next, Acquires, Runs, Serves, Tears
<1>3. TypeOK /\ QueueInv => QueueBounded
  <2>1. Held \in SUBSET Folder
    BY DEF Held
  <2> QED BY <2>1, PartsAreFinite DEF QueueInv, QueueBounded, TypeOK
<1> QED BY <1>1, <1>2, <1>3, TypeCorrect, PTL DEF Spec
=============================================================================
