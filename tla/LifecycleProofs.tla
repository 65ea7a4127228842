--------------------------- MODULE LifecycleProofs ---------------------------
(***************************************************************************)
(* Theorems about Lifecycle, for any set of configurations and any number  *)
(* of connections, files asked for and changes.                            *)
(*                                                                         *)
(* The invariant has a part for each node (where its session may be while  *)
(* the reactor and the main thread are where they are, whose threads are   *)
(* joined, what is in the temporary directory) and one for the pair: what  *)
(* two nodes that fit, that do not fit, and of which one is not allowed    *)
(* may have told each other.                                               *)
(***************************************************************************)
EXTENDS Lifecycle, TLAPS

-----------------------------------------------------------------------------
(* The parts of a node.                                                    *)

SessionState == [at : {"none", "table", "loose"}, running : BOOLEAN, threads : BOOLEAN,
                 inert : BOOLEAN, told : BOOLEAN, known : BOOLEAN,
                 incoming : BOOLEAN, serves : Nat]
ReactorState == [at : {"idle", "start", "spawn", "handle", "create", "register",
                       "move", "prune", "leave", "join"},
                 op : Op \union {"none"}]
MainState == {"run", "call", "speak", "stale", "flag", "join", "clean", "left", "ended"}

\* Everything an action of a node n does, but for the end of the program.
Acts(n) == Reacts(n) \/ Serve(n) \/ Notify(n) \/ Tells(n) \/ Shutdown(n)
           \/ StopFlag(n) \/ StopJoin(n) \/ Clean(n)

LEMMA Types ==
    ASSUME TypeOK
    PROVE  /\ ses \in [Node -> SessionState] /\ reactor \in [Node -> ReactorState]
           /\ main \in [Node -> MainState] /\ temp \in [Node -> {"none", "empty", "part"}]
           /\ news \in [Node -> {"none", "up", "down"}] /\ chan \in [Node -> Seq(Op)]
           /\ linked \in BOOLEAN /\ late \in BOOLEAN /\ overlapped \in BOOLEAN
           /\ hurried \in BOOLEAN /\ unjoined \in BOOLEAN
           /\ cfg \in Agreements /\ file \in {"old", "new", "gone"}
           /\ connects \in 0..MaxConnects /\ pulls \in 0..MaxPulls /\ changes \in 0..MaxChanges
BY DEF TypeOK, SessionState, ReactorState, MainState, ghosts

LEMMA Others ==
    /\ \A n \in Node : Other(n) \in Node /\ Other(n) # n /\ Other(Other(n)) = n
    /\ \A n \in Node, k \in Node : k = n \/ k = Other(n)
BY LifecycleAssumption DEF Node, Other

\* What is sent goes to the other node.
LEMMA SendsTypes ==
    ASSUME TypeOK, NEW n \in Node, NEW ms \in Seq(Op), Sends(n, ms)
    PROVE  chan' \in [Node -> Seq(Op)] /\ chan'[n] = chan[n]
<1>1. chan \in [Node -> Seq(Op)] /\ Other(n) \in Node /\ Other(n) # n
  BY Types, Others
<1>2. chan[Other(n)] \o ms \in Seq(Op)
  BY <1>1
<1>3. chan' = IF linked THEN [chan EXCEPT ![Other(n)] = chan[Other(n)] \o ms] ELSE chan
  BY DEF Sends
<1> QED BY <1>1, <1>2, <1>3

Monotone == /\ late => late'
            /\ overlapped => overlapped'
            /\ hurried => hurried'

\* What an action of n leaves alone.
LEMMA ActsLocally ==
    ASSUME TypeOK, NEW n \in Node, Acts(n)
    PROVE  /\ cfg' = cfg /\ linked' = linked /\ connects' = connects /\ Monotone
           /\ \A k \in Node \ {n} : /\ ses'[k] = ses[k] /\ reactor'[k] = reactor[k]
                                    /\ main'[k] = main[k] /\ temp'[k] = temp[k]
                                    /\ news'[k] = news[k]
<1> USE Types DEF Monotone, network, counts, ghosts, Session, Steps, MainTo, Pruned, Unreceived, Sends,
        Destroyed
<1>1. CASE Greet(n) \/ Ignore(n) \/ Take(n) \/ Start(n) \/ Spawn(n)
  <2>1. CASE Greet(n)
    BY <2>1 DEF Greet
  <2>2. CASE Ignore(n)
    BY <2>2 DEF Ignore, Arrives
  <2>3. CASE Take(n)
    BY <2>3 DEF Take, Takes, Arrives
  <2>4. CASE Start(n) \/ Spawn(n)
    BY <2>4 DEF Start, Spawn
  <2> QED BY <1>1, <2>1, <2>2, <2>3, <2>4
<1>2. CASE Handle(n)
  <2>1. CASE Inert(n)
    BY <2>1 DEF Inert
  <2>2. CASE HandleHello(n)
    BY <2>2 DEF HandleHello, Describe, Refuse
  <2>3. CASE HandleSimple(n)
    BY <2>3 DEF HandleSimple
  <2>4. CASE HandleFileStart(n) \/ HandleFileEnd(n)
    BY <2>4 DEF HandleFileStart, HandleFileEnd
  <2> QED BY <1>2, <2>1, <2>2, <2>3, <2>4 DEF Handle
<1>3. CASE CreatePart(n) \/ Register(n) \/ Move(n) \/ Prune(n)
  BY <1>3 DEF CreatePart, Register, Move, Prune
<1>4. CASE Leave(n)
  BY <1>4 DEF Leave
<1>5. CASE Erase(n) \/ Stopped(n)
  BY <1>5 DEF Erase, Stopped
<1>6. CASE Serve(n) \/ Notify(n) \/ Tells(n) \/ Shutdown(n)
  <2>1. CASE Serve(n) \/ Notify(n)
    BY <2>1 DEF Serve, Notify
  <2>2. CASE Tells(n)
    BY <2>2 DEF Tells, LocalChanged, Speak, LateChanged
  <2>3. CASE Shutdown(n)
    BY <2>3 DEF Shutdown
  <2> QED BY <1>6, <2>1, <2>2, <2>3
<1>7. CASE StopFlag(n) \/ StopJoin(n) \/ Clean(n)
  BY <1>7 DEF StopFlag, StopJoin, Clean
<1> QED BY <1>1, <1>2, <1>3, <1>4, <1>5, <1>6, <1>7 DEF Acts, Reacts

-----------------------------------------------------------------------------
(* What becomes of a session.                                              *)

Place(s, t)    == t.at = s.at /\ t.running = s.running /\ t.threads = s.threads
Dealings(s, t) == t.inert = s.inert /\ t.told = s.told /\ t.known = s.known
Files(s, t)    == t.incoming = s.incoming /\ t.serves = s.serves

LEMMA SessionFresh ==
    ASSUME TypeOK, NEW n \in Node, NEW s \in SessionState, Session(n, s)
    PROVE  ses' \in [Node -> SessionState] /\ ses'[n] = s
BY Types DEF Session

LEMMA SessionBecomes ==
    ASSUME TypeOK, NEW n \in Node
    PROVE  /\ Session(n, [ses[n] EXCEPT !.at = "loose", !.running = FALSE]) =>
                   /\ ses' \in [Node -> SessionState]
                   /\ ses'[n].at = "loose" /\ ~ses'[n].running /\ ses'[n].threads = ses[n].threads
                   /\ Dealings(ses[n], ses'[n]) /\ Files(ses[n], ses'[n])
           /\ Session(n, [ses[n] EXCEPT !.at = "loose"]) =>
                   /\ ses' \in [Node -> SessionState]
                   /\ ses'[n].at = "loose" /\ ses'[n].running = ses[n].running /\ ses'[n].threads = ses[n].threads
                   /\ Dealings(ses[n], ses'[n]) /\ Files(ses[n], ses'[n])
           /\ Session(n, [ses[n] EXCEPT !.running = TRUE]) =>
                   /\ ses' \in [Node -> SessionState]
                   /\ ses'[n].at = ses[n].at /\ ses'[n].running /\ ses'[n].threads = ses[n].threads
                   /\ Dealings(ses[n], ses'[n]) /\ Files(ses[n], ses'[n])
           /\ Session(n, [ses[n] EXCEPT !.running = FALSE]) =>
                   /\ ses' \in [Node -> SessionState]
                   /\ ses'[n].at = ses[n].at /\ ~ses'[n].running /\ ses'[n].threads = ses[n].threads
                   /\ Dealings(ses[n], ses'[n]) /\ Files(ses[n], ses'[n])
           /\ Session(n, [ses[n] EXCEPT !.threads = TRUE]) =>
                   /\ ses' \in [Node -> SessionState]
                   /\ ses'[n].at = ses[n].at /\ ses'[n].running = ses[n].running /\ ses'[n].threads
                   /\ Dealings(ses[n], ses'[n]) /\ Files(ses[n], ses'[n])
           /\ Session(n, [ses[n] EXCEPT !.threads = FALSE]) =>
                   /\ ses' \in [Node -> SessionState]
                   /\ ses'[n].at = ses[n].at /\ ses'[n].running = ses[n].running /\ ~ses'[n].threads
                   /\ Dealings(ses[n], ses'[n]) /\ Files(ses[n], ses'[n])
           /\ Session(n, [ses[n] EXCEPT !.incoming = FALSE, !.threads = FALSE]) =>
                   /\ ses' \in [Node -> SessionState]
                   /\ ses'[n].at = ses[n].at /\ ses'[n].running = ses[n].running /\ ~ses'[n].threads
                   /\ Dealings(ses[n], ses'[n]) /\ ~ses'[n].incoming /\ ses'[n].serves = ses[n].serves
           /\ Session(n, [ses[n] EXCEPT !.told = TRUE]) =>
                   /\ ses' \in [Node -> SessionState]
                   /\ Place(ses[n], ses'[n]) /\ Files(ses[n], ses'[n])
                   /\ ses'[n].told /\ ses'[n].inert = ses[n].inert /\ ses'[n].known = ses[n].known
           /\ Session(n, [ses[n] EXCEPT !.inert = TRUE]) =>
                   /\ ses' \in [Node -> SessionState]
                   /\ Place(ses[n], ses'[n]) /\ Files(ses[n], ses'[n])
                   /\ ses'[n].inert /\ ses'[n].told = ses[n].told /\ ses'[n].known = ses[n].known
           /\ Session(n, [ses[n] EXCEPT !.known = TRUE]) =>
                   /\ ses' \in [Node -> SessionState]
                   /\ Place(ses[n], ses'[n]) /\ Files(ses[n], ses'[n])
                   /\ ses'[n].known /\ ses'[n].inert = ses[n].inert /\ ses'[n].told = ses[n].told
           /\ Session(n, [ses[n] EXCEPT !.serves = @ + 1]) =>
                   /\ ses' \in [Node -> SessionState]
                   /\ Place(ses[n], ses'[n]) /\ Dealings(ses[n], ses'[n])
                   /\ ses'[n].incoming = ses[n].incoming /\ ses'[n].serves = ses[n].serves + 1
           /\ ses[n].serves > 0 /\ Session(n, [ses[n] EXCEPT !.serves = @ - 1]) =>
                   /\ ses' \in [Node -> SessionState]
                   /\ Place(ses[n], ses'[n]) /\ Dealings(ses[n], ses'[n])
                   /\ ses'[n].incoming = ses[n].incoming /\ ses'[n].serves = ses[n].serves - 1
           /\ Session(n, [ses[n] EXCEPT !.incoming = TRUE]) =>
                   /\ ses' \in [Node -> SessionState]
                   /\ Place(ses[n], ses'[n]) /\ Dealings(ses[n], ses'[n])
                   /\ ses'[n].incoming /\ ses'[n].serves = ses[n].serves
           /\ Session(n, [ses[n] EXCEPT !.incoming = FALSE]) =>
                   /\ ses' \in [Node -> SessionState]
                   /\ Place(ses[n], ses'[n]) /\ Dealings(ses[n], ses'[n])
                   /\ ~ses'[n].incoming /\ ses'[n].serves = ses[n].serves
<1>0. ses[n] \in SessionState
  BY Types
<1>1. ASSUME Session(n, [ses[n] EXCEPT !.at = "loose", !.running = FALSE])
      PROVE  /\ ses' \in [Node -> SessionState]
             /\ ses'[n].at = "loose" /\ ~ses'[n].running /\ ses'[n].threads = ses[n].threads
             /\ Dealings(ses[n], ses'[n]) /\ Files(ses[n], ses'[n])
  <2> DEFINE s == [ses[n] EXCEPT !.at = "loose", !.running = FALSE]
  <2>1. Session(n, s)
    BY <1>1
  <2>2. /\ s \in SessionState
        /\ s.at = "loose" /\ ~s.running /\ s.threads = ses[n].threads
        /\ Dealings(ses[n], s) /\ Files(ses[n], s)
    BY <1>0 DEF SessionState, Place, Dealings, Files
  <2> HIDE DEF s
  <2>3. ses' \in [Node -> SessionState] /\ ses'[n] = s
    BY <2>1, <2>2, SessionFresh
  <2> QED BY <2>2, <2>3
<1>2. ASSUME Session(n, [ses[n] EXCEPT !.at = "loose"])
      PROVE  /\ ses' \in [Node -> SessionState]
             /\ ses'[n].at = "loose" /\ ses'[n].running = ses[n].running /\ ses'[n].threads = ses[n].threads
             /\ Dealings(ses[n], ses'[n]) /\ Files(ses[n], ses'[n])
  <2> DEFINE s == [ses[n] EXCEPT !.at = "loose"]
  <2>1. Session(n, s)
    BY <1>2
  <2>2. /\ s \in SessionState
        /\ s.at = "loose" /\ s.running = ses[n].running /\ s.threads = ses[n].threads
        /\ Dealings(ses[n], s) /\ Files(ses[n], s)
    BY <1>0 DEF SessionState, Place, Dealings, Files
  <2> HIDE DEF s
  <2>3. ses' \in [Node -> SessionState] /\ ses'[n] = s
    BY <2>1, <2>2, SessionFresh
  <2> QED BY <2>2, <2>3
<1>3. ASSUME Session(n, [ses[n] EXCEPT !.running = TRUE])
      PROVE  /\ ses' \in [Node -> SessionState]
             /\ ses'[n].at = ses[n].at /\ ses'[n].running /\ ses'[n].threads = ses[n].threads
             /\ Dealings(ses[n], ses'[n]) /\ Files(ses[n], ses'[n])
  <2> DEFINE s == [ses[n] EXCEPT !.running = TRUE]
  <2>1. Session(n, s)
    BY <1>3
  <2>2. /\ s \in SessionState
        /\ s.at = ses[n].at /\ s.running /\ s.threads = ses[n].threads
        /\ Dealings(ses[n], s) /\ Files(ses[n], s)
    BY <1>0 DEF SessionState, Place, Dealings, Files
  <2> HIDE DEF s
  <2>3. ses' \in [Node -> SessionState] /\ ses'[n] = s
    BY <2>1, <2>2, SessionFresh
  <2> QED BY <2>2, <2>3
<1>4. ASSUME Session(n, [ses[n] EXCEPT !.running = FALSE])
      PROVE  /\ ses' \in [Node -> SessionState]
             /\ ses'[n].at = ses[n].at /\ ~ses'[n].running /\ ses'[n].threads = ses[n].threads
             /\ Dealings(ses[n], ses'[n]) /\ Files(ses[n], ses'[n])
  <2> DEFINE s == [ses[n] EXCEPT !.running = FALSE]
  <2>1. Session(n, s)
    BY <1>4
  <2>2. /\ s \in SessionState
        /\ s.at = ses[n].at /\ ~s.running /\ s.threads = ses[n].threads
        /\ Dealings(ses[n], s) /\ Files(ses[n], s)
    BY <1>0 DEF SessionState, Place, Dealings, Files
  <2> HIDE DEF s
  <2>3. ses' \in [Node -> SessionState] /\ ses'[n] = s
    BY <2>1, <2>2, SessionFresh
  <2> QED BY <2>2, <2>3
<1>5. ASSUME Session(n, [ses[n] EXCEPT !.threads = TRUE])
      PROVE  /\ ses' \in [Node -> SessionState]
             /\ ses'[n].at = ses[n].at /\ ses'[n].running = ses[n].running /\ ses'[n].threads
             /\ Dealings(ses[n], ses'[n]) /\ Files(ses[n], ses'[n])
  <2> DEFINE s == [ses[n] EXCEPT !.threads = TRUE]
  <2>1. Session(n, s)
    BY <1>5
  <2>2. /\ s \in SessionState
        /\ s.at = ses[n].at /\ s.running = ses[n].running /\ s.threads
        /\ Dealings(ses[n], s) /\ Files(ses[n], s)
    BY <1>0 DEF SessionState, Place, Dealings, Files
  <2> HIDE DEF s
  <2>3. ses' \in [Node -> SessionState] /\ ses'[n] = s
    BY <2>1, <2>2, SessionFresh
  <2> QED BY <2>2, <2>3
<1>6. ASSUME Session(n, [ses[n] EXCEPT !.threads = FALSE])
      PROVE  /\ ses' \in [Node -> SessionState]
             /\ ses'[n].at = ses[n].at /\ ses'[n].running = ses[n].running /\ ~ses'[n].threads
             /\ Dealings(ses[n], ses'[n]) /\ Files(ses[n], ses'[n])
  <2> DEFINE s == [ses[n] EXCEPT !.threads = FALSE]
  <2>1. Session(n, s)
    BY <1>6
  <2>2. /\ s \in SessionState
        /\ s.at = ses[n].at /\ s.running = ses[n].running /\ ~s.threads
        /\ Dealings(ses[n], s) /\ Files(ses[n], s)
    BY <1>0 DEF SessionState, Place, Dealings, Files
  <2> HIDE DEF s
  <2>3. ses' \in [Node -> SessionState] /\ ses'[n] = s
    BY <2>1, <2>2, SessionFresh
  <2> QED BY <2>2, <2>3
<1>7. ASSUME Session(n, [ses[n] EXCEPT !.incoming = FALSE, !.threads = FALSE])
      PROVE  /\ ses' \in [Node -> SessionState]
             /\ ses'[n].at = ses[n].at /\ ses'[n].running = ses[n].running /\ ~ses'[n].threads
             /\ Dealings(ses[n], ses'[n]) /\ ~ses'[n].incoming /\ ses'[n].serves = ses[n].serves
  <2> DEFINE s == [ses[n] EXCEPT !.incoming = FALSE, !.threads = FALSE]
  <2>1. Session(n, s)
    BY <1>7
  <2>2. /\ s \in SessionState
        /\ s.at = ses[n].at /\ s.running = ses[n].running /\ ~s.threads
        /\ Dealings(ses[n], s) /\ ~s.incoming /\ s.serves = ses[n].serves
    BY <1>0 DEF SessionState, Place, Dealings, Files
  <2> HIDE DEF s
  <2>3. ses' \in [Node -> SessionState] /\ ses'[n] = s
    BY <2>1, <2>2, SessionFresh
  <2> QED BY <2>2, <2>3
<1>8. ASSUME Session(n, [ses[n] EXCEPT !.told = TRUE])
      PROVE  /\ ses' \in [Node -> SessionState]
             /\ Place(ses[n], ses'[n]) /\ Files(ses[n], ses'[n])
             /\ ses'[n].told /\ ses'[n].inert = ses[n].inert /\ ses'[n].known = ses[n].known
  <2> DEFINE s == [ses[n] EXCEPT !.told = TRUE]
  <2>1. Session(n, s)
    BY <1>8
  <2>2. /\ s \in SessionState
        /\ Place(ses[n], s) /\ Files(ses[n], s)
        /\ s.told /\ s.inert = ses[n].inert /\ s.known = ses[n].known
    BY <1>0 DEF SessionState, Place, Dealings, Files
  <2> HIDE DEF s
  <2>3. ses' \in [Node -> SessionState] /\ ses'[n] = s
    BY <2>1, <2>2, SessionFresh
  <2> QED BY <2>2, <2>3
<1>9. ASSUME Session(n, [ses[n] EXCEPT !.inert = TRUE])
      PROVE  /\ ses' \in [Node -> SessionState]
             /\ Place(ses[n], ses'[n]) /\ Files(ses[n], ses'[n])
             /\ ses'[n].inert /\ ses'[n].told = ses[n].told /\ ses'[n].known = ses[n].known
  <2> DEFINE s == [ses[n] EXCEPT !.inert = TRUE]
  <2>1. Session(n, s)
    BY <1>9
  <2>2. /\ s \in SessionState
        /\ Place(ses[n], s) /\ Files(ses[n], s)
        /\ s.inert /\ s.told = ses[n].told /\ s.known = ses[n].known
    BY <1>0 DEF SessionState, Place, Dealings, Files
  <2> HIDE DEF s
  <2>3. ses' \in [Node -> SessionState] /\ ses'[n] = s
    BY <2>1, <2>2, SessionFresh
  <2> QED BY <2>2, <2>3
<1>10. ASSUME Session(n, [ses[n] EXCEPT !.known = TRUE])
      PROVE  /\ ses' \in [Node -> SessionState]
             /\ Place(ses[n], ses'[n]) /\ Files(ses[n], ses'[n])
             /\ ses'[n].known /\ ses'[n].inert = ses[n].inert /\ ses'[n].told = ses[n].told
  <2> DEFINE s == [ses[n] EXCEPT !.known = TRUE]
  <2>1. Session(n, s)
    BY <1>10
  <2>2. /\ s \in SessionState
        /\ Place(ses[n], s) /\ Files(ses[n], s)
        /\ s.known /\ s.inert = ses[n].inert /\ s.told = ses[n].told
    BY <1>0 DEF SessionState, Place, Dealings, Files
  <2> HIDE DEF s
  <2>3. ses' \in [Node -> SessionState] /\ ses'[n] = s
    BY <2>1, <2>2, SessionFresh
  <2> QED BY <2>2, <2>3
<1>11. ASSUME Session(n, [ses[n] EXCEPT !.serves = @ + 1])
      PROVE  /\ ses' \in [Node -> SessionState]
             /\ Place(ses[n], ses'[n]) /\ Dealings(ses[n], ses'[n])
             /\ ses'[n].incoming = ses[n].incoming /\ ses'[n].serves = ses[n].serves + 1
  <2> DEFINE k == ses[n].serves + 1
             s == [ses[n] EXCEPT !.serves = k]
  <2>1. k \in Nat
    BY <1>0 DEF SessionState
  <2>2. Session(n, s)
    BY <1>11
  <2> HIDE DEF k
  <2>3. /\ s \in SessionState
        /\ Place(ses[n], s) /\ Dealings(ses[n], s)
        /\ s.incoming = ses[n].incoming /\ s.serves = k
    BY <1>0, <2>1 DEF SessionState, Place, Dealings, Files
  <2> HIDE DEF s
  <2>4. ses' \in [Node -> SessionState] /\ ses'[n] = s
    BY <2>2, <2>3, SessionFresh
  <2> QED BY <2>3, <2>4 DEF k
<1>12. ASSUME ses[n].serves > 0 /\ Session(n, [ses[n] EXCEPT !.serves = @ - 1])
      PROVE  /\ ses' \in [Node -> SessionState]
             /\ Place(ses[n], ses'[n]) /\ Dealings(ses[n], ses'[n])
             /\ ses'[n].incoming = ses[n].incoming /\ ses'[n].serves = ses[n].serves - 1
  <2> DEFINE k == ses[n].serves - 1
             s == [ses[n] EXCEPT !.serves = k]
  <2>1. k \in Nat
    BY <1>0, <1>12 DEF SessionState
  <2>2. Session(n, s)
    BY <1>12
  <2> HIDE DEF k
  <2>3. /\ s \in SessionState
        /\ Place(ses[n], s) /\ Dealings(ses[n], s)
        /\ s.incoming = ses[n].incoming /\ s.serves = k
    BY <1>0, <2>1 DEF SessionState, Place, Dealings, Files
  <2> HIDE DEF s
  <2>4. ses' \in [Node -> SessionState] /\ ses'[n] = s
    BY <2>2, <2>3, SessionFresh
  <2> QED BY <2>3, <2>4 DEF k
<1>13. ASSUME Session(n, [ses[n] EXCEPT !.incoming = TRUE])
      PROVE  /\ ses' \in [Node -> SessionState]
             /\ Place(ses[n], ses'[n]) /\ Dealings(ses[n], ses'[n])
             /\ ses'[n].incoming /\ ses'[n].serves = ses[n].serves
  <2> DEFINE s == [ses[n] EXCEPT !.incoming = TRUE]
  <2>1. Session(n, s)
    BY <1>13
  <2>2. /\ s \in SessionState
        /\ Place(ses[n], s) /\ Dealings(ses[n], s)
        /\ s.incoming /\ s.serves = ses[n].serves
    BY <1>0 DEF SessionState, Place, Dealings, Files
  <2> HIDE DEF s
  <2>3. ses' \in [Node -> SessionState] /\ ses'[n] = s
    BY <2>1, <2>2, SessionFresh
  <2> QED BY <2>2, <2>3
<1>14. ASSUME Session(n, [ses[n] EXCEPT !.incoming = FALSE])
      PROVE  /\ ses' \in [Node -> SessionState]
             /\ Place(ses[n], ses'[n]) /\ Dealings(ses[n], ses'[n])
             /\ ~ses'[n].incoming /\ ses'[n].serves = ses[n].serves
  <2> DEFINE s == [ses[n] EXCEPT !.incoming = FALSE]
  <2>1. Session(n, s)
    BY <1>14
  <2>2. /\ s \in SessionState
        /\ Place(ses[n], s) /\ Dealings(ses[n], s)
        /\ ~s.incoming /\ s.serves = ses[n].serves
    BY <1>0 DEF SessionState, Place, Dealings, Files
  <2> HIDE DEF s
  <2>3. ses' \in [Node -> SessionState] /\ ses'[n] = s
    BY <2>1, <2>2, SessionFresh
  <2> QED BY <2>2, <2>3
<1> QED BY <1>1, <1>2, <1>3, <1>4, <1>5, <1>6, <1>7, <1>8, <1>9, <1>10, <1>11, <1>12, <1>13, <1>14

LEMMA FreshSessions ==
    /\ NewSession \in SessionState /\ NewSession.at = "table" /\ ~NewSession.running
    /\ ~NewSession.threads /\ ~NewSession.inert /\ ~NewSession.told /\ ~NewSession.known
    /\ ~NewSession.incoming /\ NewSession.serves = 0
    /\ NoSession \in SessionState /\ NoSession.at = "none" /\ ~NoSession.running
    /\ ~NoSession.threads /\ ~NoSession.inert /\ ~NoSession.told /\ ~NoSession.known
    /\ ~NoSession.incoming /\ NoSession.serves = 0
BY DEF NewSession, NoSession, SessionState

LEMMA StepsTo ==
    ASSUME TypeOK, NEW n \in Node, NEW to, Steps(n, to)
    PROVE  /\ reactor'[n].at = to /\ reactor'[n].op = reactor[n].op
           /\ to \in {"start", "spawn", "handle", "create", "register", "move", "prune", "leave", "join"}
                  => reactor' \in [Node -> ReactorState]
BY Types DEF Steps, ReactorState

LEMMA MainSteps ==
    ASSUME TypeOK, NEW n \in Node, NEW to \in MainState, MainTo(n, to)
    PROVE  main'[n] = to /\ main' \in [Node -> MainState]
<1>1. main \in [Node -> MainState]
  BY Types
<1> QED BY <1>1 DEF MainTo

LEMMA IdleParts == Idle \in ReactorState /\ Idle.at = "idle" /\ Idle.op = "none"
BY DEF Idle, ReactorState

-----------------------------------------------------------------------------
(* What each action does to the node.                                      *)

LEMMA TakeDoes ==
    ASSUME TypeOK, NEW n \in Node, Take(n)
    PROVE  /\ reactor[n] = Idle /\ news[n] = "none" /\ chan[n] # <<>> /\ Serving(n) /\ cfg[n].allows
           /\ chan' = [chan EXCEPT ![n] = Tail(@)]
           /\ reactor' \in [Node -> ReactorState] /\ ses' \in [Node -> SessionState]
           /\ reactor'[n].at = (IF ses[n].at = "table" THEN "handle" ELSE "start")
           /\ reactor'[n].op = Head(chan[n])
           /\ ses'[n] = (IF ses[n].at = "table" THEN ses[n] ELSE NewSession)
           /\ UNCHANGED <<news, main, temp, overlapped, hurried, unjoined, file, pulls, changes, late>>
<1>1. /\ reactor[n] = Idle /\ news[n] = "none" /\ chan[n] # <<>> /\ Serving(n) /\ cfg[n].allows
      /\ chan' = [chan EXCEPT ![n] = Tail(@)]
      /\ UNCHANGED <<news, main, temp, overlapped, hurried, unjoined, file, pulls, changes, late>>
  BY DEF Take, Arrives, Takes, Ignored, counts, ghosts
<1>2. /\ reactor' = [reactor EXCEPT ![n] = [at |-> IF ses[n].at = "table" THEN "handle" ELSE "start",
                                            op |-> Head(chan[n])]]
      /\ Session(n, IF ses[n].at = "table" THEN ses[n] ELSE NewSession)
  BY DEF Take, Takes
<1>3. Head(chan[n]) \in Op
  BY <1>1, Types
<1>4. /\ reactor' \in [Node -> ReactorState]
      /\ reactor'[n].at = (IF ses[n].at = "table" THEN "handle" ELSE "start")
      /\ reactor'[n].op = Head(chan[n])
  BY <1>2, <1>3, Types DEF ReactorState
<1>5. /\ ses'[n] = (IF ses[n].at = "table" THEN ses[n] ELSE NewSession)
      /\ ses' \in [Node -> SessionState]
  BY <1>2, SessionFresh, FreshSessions, Types
<1> QED BY <1>1, <1>4, <1>5

LEMMA StartDoes ==
    ASSUME TypeOK, NEW n \in Node, Start(n)
    PROVE  /\ reactor[n].at = "start" /\ reactor'[n].at = "spawn" /\ reactor'[n].op = reactor[n].op
           /\ reactor' \in [Node -> ReactorState] /\ ses' \in [Node -> SessionState]
           /\ ses'[n].at = ses[n].at /\ ses'[n].running /\ ses'[n].threads = ses[n].threads
           /\ Dealings(ses[n], ses'[n]) /\ Files(ses[n], ses'[n])
           /\ UNCHANGED <<chan, news, main, temp, overlapped, hurried, unjoined, file, pulls, changes, late>>
<1>1. /\ reactor[n].at = "start" /\ Session(n, [ses[n] EXCEPT !.running = TRUE]) /\ Steps(n, "spawn")
      /\ UNCHANGED <<chan, news, main, temp, overlapped, hurried, unjoined, file, pulls, changes, late>>
  BY DEF Start, network, counts, ghosts
<1>2. /\ ses' \in [Node -> SessionState]
      /\ ses'[n].at = ses[n].at /\ ses'[n].running /\ ses'[n].threads = ses[n].threads
      /\ Dealings(ses[n], ses'[n]) /\ Files(ses[n], ses'[n])
  BY <1>1, SessionBecomes
<1>3. reactor'[n].at = "spawn" /\ reactor'[n].op = reactor[n].op /\ reactor' \in [Node -> ReactorState]
  BY <1>1, StepsTo
<1> QED BY <1>1, <1>2, <1>3

LEMMA SpawnDoes ==
    ASSUME TypeOK, NEW n \in Node, Spawn(n)
    PROVE  /\ reactor[n].at = "spawn" /\ reactor'[n].at = "handle" /\ reactor'[n].op = reactor[n].op
           /\ reactor' \in [Node -> ReactorState] /\ ses' \in [Node -> SessionState]
           /\ ses'[n].at = ses[n].at /\ ses'[n].running = ses[n].running /\ ses'[n].threads
           /\ Dealings(ses[n], ses'[n]) /\ Files(ses[n], ses'[n])
           /\ UNCHANGED <<chan, news, main, temp, overlapped, hurried, unjoined, file, pulls, changes, late>>
<1>1. /\ reactor[n].at = "spawn" /\ Session(n, [ses[n] EXCEPT !.threads = TRUE]) /\ Steps(n, "handle")
      /\ UNCHANGED <<chan, news, main, temp, overlapped, hurried, unjoined, file, pulls, changes, late>>
  BY DEF Spawn, network, counts, ghosts
<1>2. /\ ses' \in [Node -> SessionState]
      /\ ses'[n].at = ses[n].at /\ ses'[n].running = ses[n].running /\ ses'[n].threads
      /\ Dealings(ses[n], ses'[n]) /\ Files(ses[n], ses'[n])
  BY <1>1, SessionBecomes
<1>3. reactor'[n].at = "handle" /\ reactor'[n].op = reactor[n].op /\ reactor' \in [Node -> ReactorState]
  BY <1>1, StepsTo
<1> QED BY <1>1, <1>2, <1>3

LEMMA InertDoes ==
    ASSUME TypeOK, NEW n \in Node, Inert(n)
    PROVE  /\ reactor[n].at = "handle" /\ reactor'[n].at = "leave" /\ reactor'[n].op = reactor[n].op
           /\ reactor' \in [Node -> ReactorState] /\ ses[n].inert
           /\ UNCHANGED <<ses, chan, news, main, temp, overlapped, hurried, unjoined, file, pulls, changes, late>>
BY StepsTo DEF Inert, network, counts, ghosts

\* A Hello is answered once with the tree, or with a refusal.
LEMMA HelloDoes ==
    ASSUME TypeOK, NEW n \in Node, HandleHello(n)
    PROVE  /\ reactor[n].at = "handle" /\ reactor[n].op = "Hello"
           /\ reactor'[n].at = "leave" /\ reactor'[n].op = reactor[n].op
           /\ reactor' \in [Node -> ReactorState] /\ ses' \in [Node -> SessionState]
           /\ Place(ses[n], ses'[n]) /\ Files(ses[n], ses'[n]) /\ ses'[n].known = ses[n].known
           /\ ~ses[n].inert
           /\ IF Fits(cfg[n], cfg[Other(n)])
              THEN ses'[n].told /\ ~ses'[n].inert
                   /\ Sends(n, IF ses[n].told THEN <<>> ELSE <<"ManifestUpdate">>)
              ELSE ses'[n].inert /\ ses'[n].told = ses[n].told /\ Sends(n, <<"Bye">>)
           /\ UNCHANGED <<news, main, temp, overlapped, hurried, unjoined, file, pulls, changes, late>>
<1>1. /\ reactor[n].at = "handle" /\ reactor[n].op = "Hello"
      /\ reactor'[n].at = "leave" /\ reactor'[n].op = reactor[n].op
      /\ reactor' \in [Node -> ReactorState] /\ ~ses[n].inert
      /\ UNCHANGED <<news, main, temp, overlapped, hurried, unjoined, file, pulls, changes, late>>
  BY StepsTo DEF HandleHello, Handles, counts, ghosts
<1>2. CASE Fits(cfg[n], cfg[Other(n)])
  <2>1. Describe(n)
    BY <1>2 DEF HandleHello
  <2> QED BY <1>1, <1>2, <2>1, SessionBecomes, Types DEF Describe
<1>3. CASE ~Fits(cfg[n], cfg[Other(n)])
  <2>1. Refuse(n)
    BY <1>3 DEF HandleHello
  <2> QED BY <1>1, <1>3, <2>1, SessionBecomes, Types DEF Refuse
<1> QED BY <1>2, <1>3

LEMMA SimpleDoes ==
    ASSUME TypeOK, NEW n \in Node, HandleSimple(n)
    PROVE  /\ reactor[n].at = "handle" /\ reactor'[n].at = "leave" /\ reactor'[n].op = reactor[n].op
           /\ reactor' \in [Node -> ReactorState] /\ ses' \in [Node -> SessionState]
           /\ Place(ses[n], ses'[n]) /\ ses'[n].told = ses[n].told /\ ses'[n].incoming = ses[n].incoming
           /\ ~ses[n].inert
           /\ \/ /\ reactor[n].op = "ManifestUpdate" /\ ses'[n].known
                 /\ ses'[n].inert = ses[n].inert /\ ses'[n].serves = ses[n].serves
              \/ /\ reactor[n].op = "Request" /\ ses'[n].known = ses[n].known
                 /\ ses'[n].inert = ses[n].inert
              \/ /\ reactor[n].op = "Bye" /\ ses'[n].known = ses[n].known
                 /\ ses'[n].inert /\ ses'[n].serves = ses[n].serves
           /\ UNCHANGED <<chan, news, main, temp, overlapped, hurried, unjoined, file, pulls, changes, late>>
<1>1. /\ reactor[n].at = "handle" /\ reactor'[n].at = "leave" /\ reactor'[n].op = reactor[n].op
      /\ reactor' \in [Node -> ReactorState] /\ ~ses[n].inert
      /\ UNCHANGED <<chan, news, main, temp, overlapped, hurried, unjoined, file, pulls, changes, late>>
  BY StepsTo DEF HandleSimple, Handles, network, counts, ghosts
<1>2. CASE reactor[n].op = "ManifestUpdate"
  <2>1. Session(n, [ses[n] EXCEPT !.known = TRUE])
    BY <1>2 DEF HandleSimple, Handles
  <2> QED BY <1>1, <1>2, <2>1, SessionBecomes, Types DEF Files
<1>3. CASE reactor[n].op = "Request"
  <2>1. Session(n, [ses[n] EXCEPT !.serves = @ + 1])
    BY <1>3 DEF HandleSimple, Handles
  <2> QED BY <1>1, <1>3, <2>1, SessionBecomes, Types DEF Dealings
<1>4. CASE reactor[n].op = "Bye"
  <2>1. Session(n, [ses[n] EXCEPT !.inert = TRUE])
    BY <1>4 DEF HandleSimple, Handles
  <2> QED BY <1>1, <1>4, <2>1, SessionBecomes, Types DEF Files
<1> QED BY <1>2, <1>3, <1>4 DEF HandleSimple, Handles

LEMMA FileStartDoes ==
    ASSUME TypeOK, NEW n \in Node, HandleFileStart(n)
    PROVE  /\ reactor[n].at = "handle" /\ reactor'[n].at = "create" /\ reactor'[n].op = reactor[n].op
           /\ reactor[n].op = "FileStart"
           /\ reactor' \in [Node -> ReactorState] /\ temp' \in [Node -> {"none", "empty", "part"}]
           /\ temp'[n] = (IF temp[n] = "none" THEN "empty" ELSE temp[n])
           /\ UNCHANGED <<ses, chan, news, main, overlapped, hurried, unjoined, file, pulls, changes, late>>
<1>1. /\ reactor[n].at = "handle" /\ reactor[n].op = "FileStart" /\ Steps(n, "create")
      /\ temp' = [temp EXCEPT ![n] = IF @ = "none" THEN "empty" ELSE @]
      /\ UNCHANGED <<ses, chan, news, main, overlapped, hurried, unjoined, file, pulls, changes, late>>
  BY DEF HandleFileStart, Handles, network, counts, ghosts
<1>2. reactor'[n].at = "create" /\ reactor'[n].op = reactor[n].op /\ reactor' \in [Node -> ReactorState]
  BY <1>1, StepsTo
<1>3. temp \in [Node -> {"none", "empty", "part"}]
  BY Types
<1>4. /\ temp' \in [Node -> {"none", "empty", "part"}]
      /\ temp'[n] = (IF temp[n] = "none" THEN "empty" ELSE temp[n])
  BY <1>1, <1>3
<1> QED BY <1>1, <1>2, <1>4

LEMMA CreatePartDoes ==
    ASSUME TypeOK, NEW n \in Node, CreatePart(n)
    PROVE  /\ reactor[n].at = "create" /\ reactor'[n].op = reactor[n].op
           /\ reactor' \in [Node -> ReactorState] /\ temp' \in [Node -> {"none", "empty", "part"}]
           /\ IF temp[n] = "none" THEN reactor'[n].at = "leave" /\ temp'[n] = "none"
                                  ELSE reactor'[n].at = "register" /\ temp'[n] = "part"
           /\ UNCHANGED <<ses, chan, news, main, overlapped, hurried, unjoined, file, pulls, changes, late>>
BY StepsTo, Types DEF CreatePart, network, counts, ghosts

LEMMA RegisterDoes ==
    ASSUME TypeOK, NEW n \in Node, Register(n)
    PROVE  /\ reactor[n].at = "register" /\ reactor'[n].at = "leave" /\ reactor'[n].op = reactor[n].op
           /\ reactor' \in [Node -> ReactorState] /\ ses' \in [Node -> SessionState]
           /\ Place(ses[n], ses'[n]) /\ Dealings(ses[n], ses'[n])
           /\ ses'[n].incoming /\ ses'[n].serves = ses[n].serves
           /\ UNCHANGED <<chan, news, main, temp, overlapped, hurried, unjoined, file, pulls, changes, late>>
<1>1. /\ reactor[n].at = "register" /\ Session(n, [ses[n] EXCEPT !.incoming = TRUE]) /\ Steps(n, "leave")
      /\ UNCHANGED <<chan, news, main, temp, overlapped, hurried, unjoined, file, pulls, changes, late>>
  BY DEF Register, network, counts, ghosts
<1>2. /\ ses' \in [Node -> SessionState]
      /\ Place(ses[n], ses'[n]) /\ Dealings(ses[n], ses'[n])
      /\ ses'[n].incoming /\ ses'[n].serves = ses[n].serves
  BY <1>1, SessionBecomes
<1>3. reactor'[n].at = "leave" /\ reactor'[n].op = reactor[n].op /\ reactor' \in [Node -> ReactorState]
  BY <1>1, StepsTo
<1> QED BY <1>1, <1>2, <1>3

LEMMA FileEndDoes ==
    ASSUME TypeOK, NEW n \in Node, HandleFileEnd(n)
    PROVE  /\ reactor[n].at = "handle" /\ reactor[n].op = "FileEnd" /\ reactor'[n].op = reactor[n].op
           /\ reactor'[n].at = (IF ses[n].incoming THEN "move" ELSE "leave")
           /\ reactor' \in [Node -> ReactorState]
           /\ UNCHANGED <<ses, chan, news, main, temp, overlapped, hurried, unjoined, file, pulls, changes, late>>
BY StepsTo DEF HandleFileEnd, Handles, network, counts, ghosts

LEMMA MoveDoes ==
    ASSUME TypeOK, NEW n \in Node, Move(n)
    PROVE  /\ reactor[n].at = "move" /\ reactor'[n].op = reactor[n].op
           /\ reactor' \in [Node -> ReactorState] /\ ses' \in [Node -> SessionState]
           /\ temp' \in [Node -> {"none", "empty", "part"}] /\ file' \in {"old", "new", "gone"}
           /\ Place(ses[n], ses'[n]) /\ Dealings(ses[n], ses'[n])
           /\ ~ses'[n].incoming /\ ses'[n].serves = ses[n].serves
           /\ IF temp[n] = "part"
              THEN file' = "new" /\ temp'[n] = "empty" /\ reactor'[n].at = "prune"
              ELSE file' = "gone" /\ temp'[n] = temp[n] /\ reactor'[n].at = "leave"
           /\ UNCHANGED <<chan, news, main, overlapped, hurried, unjoined, pulls, changes, late>>
<1>1. /\ reactor[n].at = "move" /\ Session(n, [ses[n] EXCEPT !.incoming = FALSE])
      /\ UNCHANGED <<chan, news, main, overlapped, hurried, unjoined, pulls, changes, late>>
  BY DEF Move, network, counts, ghosts
<1>2. /\ ses' \in [Node -> SessionState] /\ Place(ses[n], ses'[n]) /\ Dealings(ses[n], ses'[n])
      /\ ~ses'[n].incoming /\ ses'[n].serves = ses[n].serves
  BY <1>1, SessionBecomes
<1>3. CASE temp[n] = "part"
  <2>1. file' = "new" /\ temp' = [temp EXCEPT ![n] = "empty"] /\ Steps(n, "prune")
    BY <1>3 DEF Move
  <2> QED BY <1>1, <1>2, <1>3, <2>1, StepsTo, Types
<1>4. CASE temp[n] # "part"
  <2>1. file' = "gone" /\ temp' = temp /\ Steps(n, "leave")
    BY <1>4 DEF Move
  <2> QED BY <1>1, <1>2, <1>4, <2>1, StepsTo, Types
<1> QED BY <1>3, <1>4

LEMMA PruneDoes ==
    ASSUME TypeOK, NEW n \in Node, Prune(n)
    PROVE  /\ reactor[n].at = "prune" /\ reactor'[n].at = "leave" /\ reactor'[n].op = reactor[n].op
           /\ reactor' \in [Node -> ReactorState] /\ temp' \in [Node -> {"none", "empty", "part"}]
           /\ temp'[n] = (IF temp[n] = "empty" THEN "none" ELSE temp[n])
           /\ UNCHANGED <<ses, chan, news, main, overlapped, hurried, unjoined, file, pulls, changes, late>>
BY StepsTo, Types DEF Prune, network, counts, ghosts

LEMMA LeaveDoes ==
    ASSUME TypeOK, NEW n \in Node, Leave(n)
    PROVE  /\ reactor[n].at = "leave" /\ reactor'[n] = Idle
           /\ reactor' \in [Node -> ReactorState] /\ ses' \in [Node -> SessionState]
           /\ temp' \in [Node -> {"none", "empty", "part"}] /\ unjoined' \in BOOLEAN
           /\ IF ses[n].at = "loose" /\ main[n] \notin {"flag", "join", "clean"}
              THEN /\ ses'[n] = NoSession
                   /\ unjoined' = (unjoined \/ (ses[n].threads /\ ~ses[n].running))
                   /\ temp'[n] = IF ses[n].running THEN "none"
                                 ELSE IF temp[n] = "part" THEN "empty" ELSE temp[n]
              ELSE ses' = ses /\ temp' = temp /\ unjoined' = unjoined
           /\ UNCHANGED <<chan, news, main, overlapped, hurried, file, pulls, changes, late>>
<1>1. /\ reactor[n].at = "leave" /\ reactor' = [reactor EXCEPT ![n] = Idle]
      /\ UNCHANGED <<chan, news, main, overlapped, hurried, file, pulls, changes, late>>
  BY DEF Leave, network, counts
<1>2. reactor'[n] = Idle /\ reactor' \in [Node -> ReactorState]
  BY <1>1, IdleParts, Types
<1>3. CASE ses[n].at = "loose" /\ ~Stopping(n)
  <2>1. /\ Session(n, NoSession)
        /\ unjoined' = (unjoined \/ (ses[n].threads /\ ~ses[n].running))
        /\ IF ses[n].running THEN Pruned(n) ELSE Unreceived(n)
    BY <1>3, Zenon DEF Leave, Destroyed
  <2>2. ses'[n] = NoSession /\ ses' \in [Node -> SessionState]
    BY <2>1, SessionFresh, FreshSessions
  <2>3. /\ temp' \in [Node -> {"none", "empty", "part"}]
        /\ temp'[n] = IF ses[n].running THEN "none" ELSE IF temp[n] = "part" THEN "empty" ELSE temp[n]
    BY <2>1, Types DEF Pruned, Unreceived
  <2>4. unjoined' \in BOOLEAN
    BY <2>1
  <2> QED BY <1>1, <1>2, <1>3, <2>1, <2>2, <2>3, <2>4 DEF Stopping
<1>4. CASE ~(ses[n].at = "loose" /\ ~Stopping(n))
  <2>1. ses' = ses /\ temp' = temp /\ unjoined' = unjoined
    BY <1>4 DEF Leave
  <2> QED BY <1>1, <1>2, <1>4, <2>1, Types DEF Stopping
<1> QED BY <1>3, <1>4

LEMMA EraseDoes ==
    ASSUME TypeOK, NEW n \in Node, Erase(n)
    PROVE  /\ news[n] = "down" /\ reactor[n] = Idle /\ news'[n] = "none"
           /\ news' \in [Node -> {"none", "up", "down"}]
           /\ reactor' \in [Node -> ReactorState] /\ ses' \in [Node -> SessionState]
           /\ IF ses[n].at = "table"
              THEN /\ ses'[n].at = "loose" /\ ~ses'[n].running /\ ses'[n].threads = ses[n].threads
                   /\ Dealings(ses[n], ses'[n]) /\ Files(ses[n], ses'[n])
                   /\ reactor'[n].at = "join" /\ reactor'[n].op = "none"
              ELSE ses' = ses /\ reactor' = reactor
           /\ main' \in [Node -> MainState]
           /\ main'[n] = (IF main[n] = "call" /\ ses[n].inert THEN "run"
                          ELSE IF main[n] \in {"call", "speak"} THEN "stale" ELSE main[n])
           /\ UNCHANGED <<chan, temp, overlapped, hurried, unjoined, file, pulls, changes, late>>
<1>1. /\ news[n] = "down" /\ reactor[n] = Idle /\ news'[n] = "none"
      /\ news' \in [Node -> {"none", "up", "down"}]
      /\ UNCHANGED <<chan, temp, overlapped, hurried, unjoined, file, pulls, changes, late>>
  BY Types DEF Erase, counts, ghosts
<1>2. /\ main' \in [Node -> MainState]
      /\ main'[n] = (IF main[n] = "call" /\ ses[n].inert THEN "run"
                     ELSE IF main[n] \in {"call", "speak"} THEN "stale" ELSE main[n])
  BY Types DEF Erase, MainState
<1>3. CASE ses[n].at = "table"
  <2>1. Session(n, [ses[n] EXCEPT !.at = "loose", !.running = FALSE]) /\ Steps(n, "join")
    BY <1>3 DEF Erase
  <2>2. reactor'[n].at = "join" /\ reactor'[n].op = "none" /\ reactor' \in [Node -> ReactorState]
    BY <1>1, <2>1, StepsTo, IdleParts
  <2> QED BY <1>1, <1>2, <1>3, <2>1, <2>2, SessionBecomes
<1>4. CASE ses[n].at # "table"
  <2>1. ses' = ses /\ reactor' = reactor
    BY <1>4 DEF Erase
  <2> QED BY <1>1, <1>2, <1>4, <2>1, Types
<1> QED BY <1>3, <1>4

LEMMA StoppedDoes ==
    ASSUME TypeOK, NEW n \in Node, Stopped(n)
    PROVE  /\ reactor[n].at = "join" /\ reactor'[n] = Idle
           /\ reactor' \in [Node -> ReactorState] /\ ses' \in [Node -> SessionState]
           /\ temp' \in [Node -> {"none", "empty", "part"}]
           /\ ses'[n] = NoSession /\ temp'[n] = "none"
           /\ UNCHANGED <<chan, news, main, overlapped, hurried, unjoined, file, pulls, changes, late>>
BY SessionFresh, FreshSessions, IdleParts, Types DEF Stopped, Pruned, network, counts, ghosts

LEMMA GreetDoes ==
    ASSUME TypeOK, NEW n \in Node, Greet(n)
    PROVE  /\ news[n] = "up" /\ reactor[n] = Idle /\ news'[n] = "none"
           /\ news' \in [Node -> {"none", "up", "down"}]
           /\ Sends(n, IF Ignored(n) THEN <<>> ELSE <<"Hello">>)
           /\ UNCHANGED <<ses, reactor, main, temp, overlapped, hurried, unjoined, file, pulls, changes, late>>
BY Types DEF Greet, counts, ghosts

LEMMA IgnoreDoes ==
    ASSUME TypeOK, NEW n \in Node, Ignore(n)
    PROVE  /\ reactor[n] = Idle /\ news[n] = "none" /\ chan[n] # <<>> /\ Ignored(n)
           /\ chan' = [chan EXCEPT ![n] = Tail(@)]
           /\ UNCHANGED <<ses, reactor, news, main, temp, overlapped, hurried, unjoined, file, pulls, changes, late>>
BY DEF Ignore, Arrives, counts, ghosts

LEMMA ServeDoes ==
    ASSUME TypeOK, NEW n \in Node, Serve(n)
    PROVE  /\ ses[n].serves > 0
           /\ ses' \in [Node -> SessionState] /\ Place(ses[n], ses'[n]) /\ Dealings(ses[n], ses'[n])
           /\ ses'[n].incoming = ses[n].incoming
           /\ Sends(n, IF ses[n].running THEN <<"FileStart", "FileEnd">> ELSE <<"FileStart">>)
           /\ UNCHANGED <<reactor, news, main, temp, overlapped, hurried, unjoined, file, pulls, changes, late>>
BY SessionBecomes DEF Serve, counts, ghosts

LEMMA NotifyDoes ==
    ASSUME TypeOK, NEW n \in Node, Notify(n)
    PROVE  /\ main[n] = "run" /\ ses[n].at = "table" /\ main'[n] = "call" /\ main' \in [Node -> MainState]
           /\ changes' = changes + 1 /\ changes' \in 0..MaxChanges
           /\ UNCHANGED <<ses, reactor, chan, news, temp, overlapped, hurried, unjoined, file, pulls, late>>
BY MainSteps, Types, LifecycleAssumption DEF Notify, network, ghosts, MainState

LEMMA LocalChangedDoes ==
    ASSUME TypeOK, NEW n \in Node, LocalChanged(n)
    PROVE  /\ main[n] = "call" /\ main'[n] \in {"run", "speak"} /\ main' \in [Node -> MainState]
           /\ UNCHANGED <<ses, reactor, chan, news, temp, overlapped, hurried, unjoined, file, pulls,
                          changes, late>>
<1>1. (IF ses[n].inert THEN "run" ELSE "speak") \in MainState
  BY DEF MainState
<1> QED BY <1>1, MainSteps DEF LocalChanged, network, counts, ghosts

LEMMA SpeakDoes ==
    ASSUME TypeOK, NEW n \in Node, Speak(n)
    PROVE  /\ main[n] = "speak" /\ main'[n] = "run" /\ main' \in [Node -> MainState]
           /\ ses' \in [Node -> SessionState] /\ Place(ses[n], ses'[n]) /\ Files(ses[n], ses'[n])
           /\ ses'[n].told /\ ses'[n].inert = ses[n].inert /\ ses'[n].known = ses[n].known
           /\ Sends(n, <<"ManifestUpdate">>)
           /\ UNCHANGED <<reactor, news, temp, overlapped, hurried, unjoined, file, pulls, changes, late>>
<1>1. "run" \in MainState
  BY DEF MainState
<1> QED BY <1>1, MainSteps, SessionBecomes DEF Speak, counts, ghosts

LEMMA LateChangedDoes ==
    ASSUME TypeOK, NEW n \in Node, LateChanged(n)
    PROVE  /\ main[n] = "stale" /\ main'[n] = "run" /\ main' \in [Node -> MainState]
           /\ Sends(n, <<"ManifestUpdate">>)
           /\ late' = (late \/ linked) /\ late' \in BOOLEAN
           /\ UNCHANGED <<ses, reactor, news, temp, overlapped, hurried, unjoined, file, pulls, changes>>
<1>1. "run" \in MainState
  BY DEF MainState
<1>2. late' = (late \/ linked) /\ late' \in BOOLEAN
  BY DEF LateChanged
<1> QED BY <1>1, <1>2, MainSteps DEF LateChanged, counts

LEMMA ShutdownDoes ==
    ASSUME TypeOK, NEW n \in Node, Shutdown(n)
    PROVE  /\ main[n] = "run" /\ main' \in [Node -> MainState] /\ ses' \in [Node -> SessionState]
           /\ IF ses[n].at = "table"
              THEN /\ ses'[n].at = "loose" /\ ses'[n].running = ses[n].running
                   /\ ses'[n].threads = ses[n].threads
                   /\ Dealings(ses[n], ses'[n]) /\ Files(ses[n], ses'[n]) /\ main'[n] = "flag"
              ELSE ses' = ses /\ main'[n] = "clean"
           /\ UNCHANGED <<reactor, chan, news, temp, overlapped, hurried, unjoined, file, pulls, changes, late>>
<1>1. "flag" \in MainState /\ "clean" \in MainState
  BY DEF MainState
<1>2. main[n] = "run" /\ UNCHANGED <<reactor, chan, news, temp, overlapped, hurried, unjoined, file, pulls,
                                     changes, late>>
  BY DEF Shutdown, network, counts, ghosts
<1>3. CASE ses[n].at = "table"
  <2>1. Session(n, [ses[n] EXCEPT !.at = "loose"]) /\ MainTo(n, "flag")
    BY <1>3 DEF Shutdown
  <2>2. /\ ses' \in [Node -> SessionState]
        /\ ses'[n].at = "loose" /\ ses'[n].running = ses[n].running
        /\ ses'[n].threads = ses[n].threads
        /\ Dealings(ses[n], ses'[n]) /\ Files(ses[n], ses'[n])
    BY <2>1, SessionBecomes
  <2>3. main'[n] = "flag" /\ main' \in [Node -> MainState]
    BY <1>1, <2>1, MainSteps
  <2> QED BY <1>2, <1>3, <2>2, <2>3
<1>4. CASE ses[n].at # "table"
  <2>1. ses' = ses /\ MainTo(n, "clean")
    BY <1>4 DEF Shutdown
  <2> QED BY <1>1, <1>2, <1>4, <2>1, MainSteps, Types
<1> QED BY <1>3, <1>4

LEMMA StopFlagDoes ==
    ASSUME TypeOK, NEW n \in Node, StopFlag(n)
    PROVE  /\ main[n] = "flag" /\ main' \in [Node -> MainState] /\ ses' \in [Node -> SessionState]
           /\ main'[n] = (IF ses[n].running THEN "join" ELSE "clean")
           /\ ses'[n].at = ses[n].at /\ ~ses'[n].running /\ ses'[n].threads = ses[n].threads
           /\ Dealings(ses[n], ses'[n]) /\ Files(ses[n], ses'[n])
           /\ UNCHANGED <<reactor, chan, news, temp, overlapped, hurried, unjoined, file, pulls, changes, late>>
<1>1. (IF ses[n].running THEN "join" ELSE "clean") \in MainState
  BY DEF MainState
<1>2. /\ main[n] = "flag" /\ Session(n, [ses[n] EXCEPT !.running = FALSE])
      /\ MainTo(n, IF ses[n].running THEN "join" ELSE "clean")
      /\ UNCHANGED <<reactor, chan, news, temp, overlapped, hurried, unjoined, file, pulls, changes, late>>
  BY DEF StopFlag, network, counts, ghosts
<1>3. main'[n] = (IF ses[n].running THEN "join" ELSE "clean") /\ main' \in [Node -> MainState]
  BY <1>1, <1>2, MainSteps
<1>4. /\ ses' \in [Node -> SessionState]
      /\ ses'[n].at = ses[n].at /\ ~ses'[n].running /\ ses'[n].threads = ses[n].threads
      /\ Dealings(ses[n], ses'[n]) /\ Files(ses[n], ses'[n])
  BY <1>2, SessionBecomes
<1> QED BY <1>2, <1>3, <1>4

LEMMA StopJoinDoes ==
    ASSUME TypeOK, NEW n \in Node, StopJoin(n)
    PROVE  /\ main[n] = "join" /\ main'[n] = "clean" /\ main' \in [Node -> MainState]
           /\ ses' \in [Node -> SessionState] /\ temp' \in [Node -> {"none", "empty", "part"}]
           /\ ses'[n].at = ses[n].at /\ ses'[n].running = ses[n].running /\ ~ses'[n].threads
           /\ Dealings(ses[n], ses'[n]) /\ ses'[n].serves = ses[n].serves
           /\ IF ses[n].incoming /\ reactor[n].at # "move"
              THEN ~ses'[n].incoming /\ temp'[n] = "none"
              ELSE /\ ses'[n].incoming = ses[n].incoming
                   /\ temp'[n] = IF temp[n] = "empty" THEN "none" ELSE temp[n]
           /\ hurried' = (hurried \/ reactor[n].at = "spawn") /\ hurried' \in BOOLEAN
           /\ UNCHANGED <<reactor, chan, news, overlapped, unjoined, file, pulls, changes, late>>
<1>1. "clean" \in MainState
  BY DEF MainState
<1>2. hurried' = (hurried \/ reactor[n].at = "spawn") /\ hurried' \in BOOLEAN
  BY DEF StopJoin
<1>3. /\ main[n] = "join" /\ MainTo(n, "clean")
      /\ UNCHANGED <<reactor, chan, news, overlapped, unjoined, file, pulls, changes, late>>
  BY DEF StopJoin, network, counts
<1>4. main'[n] = "clean" /\ main' \in [Node -> MainState]
  BY <1>1, <1>3, MainSteps
<1>5. CASE ses[n].incoming /\ reactor[n].at # "move"
  <2>1. Session(n, [ses[n] EXCEPT !.incoming = FALSE, !.threads = FALSE]) /\ Pruned(n)
    BY <1>5 DEF StopJoin
  <2> QED BY <1>2, <1>3, <1>4, <1>5, <2>1, SessionBecomes, Types DEF Pruned
<1>6. CASE ~(ses[n].incoming /\ reactor[n].at # "move")
  <2>1. /\ Session(n, [ses[n] EXCEPT !.threads = FALSE])
        /\ temp' = [temp EXCEPT ![n] = IF @ = "empty" THEN "none" ELSE @]
    BY <1>6 DEF StopJoin
  <2> QED BY <1>2, <1>3, <1>4, <1>6, <2>1, SessionBecomes, Types DEF Files
<1> QED BY <1>5, <1>6

LEMMA CleanDoes ==
    ASSUME TypeOK, NEW n \in Node, Clean(n)
    PROVE  /\ main[n] = "clean" /\ main'[n] = "left" /\ main' \in [Node -> MainState]
           /\ temp' \in [Node -> {"none", "empty", "part"}] /\ temp'[n] = "none"
           /\ overlapped' = (overlapped \/ reactor[n] # Idle) /\ overlapped' \in BOOLEAN
           /\ ses' \in [Node -> SessionState] /\ unjoined' \in BOOLEAN
           /\ IF ses[n].at = "loose" /\ reactor[n] = Idle
              THEN ses'[n] = NoSession /\ unjoined' = (unjoined \/ (ses[n].threads /\ ~ses[n].running))
              ELSE ses' = ses /\ unjoined' = unjoined
           /\ UNCHANGED <<reactor, chan, news, hurried, file, pulls, changes, late>>
<1>1. "left" \in MainState
  BY DEF MainState
<1>2. overlapped' = (overlapped \/ reactor[n] # Idle) /\ overlapped' \in BOOLEAN
  BY DEF Clean
<1>3. /\ main[n] = "clean" /\ MainTo(n, "left") /\ Pruned(n)
      /\ UNCHANGED <<reactor, chan, news, hurried, file, pulls, changes, late>>
  BY DEF Clean, network, counts
<1>4. /\ main'[n] = "left" /\ main' \in [Node -> MainState]
      /\ temp' \in [Node -> {"none", "empty", "part"}] /\ temp'[n] = "none"
  BY <1>1, <1>3, MainSteps, Types DEF Pruned
<1>5. CASE ses[n].at = "loose" /\ reactor[n] = Idle
  <2>1. Session(n, NoSession) /\ unjoined' = (unjoined \/ (ses[n].threads /\ ~ses[n].running))
    BY <1>5, Zenon DEF Clean, Destroyed
  <2>2. unjoined' \in BOOLEAN
    BY <2>1
  <2> QED BY <1>2, <1>3, <1>4, <1>5, <2>1, <2>2, SessionFresh, FreshSessions
<1>6. CASE ~(ses[n].at = "loose" /\ reactor[n] = Idle)
  <2>1. ses' = ses /\ unjoined' = unjoined
    BY <1>6 DEF Clean
  <2> QED BY <1>2, <1>3, <1>4, <1>6, <2>1, Types
<1> QED BY <1>5, <1>6

LEMMA SendsSome ==
    ASSUME TypeOK, NEW n \in Node,
           \/ Sends(n, <<>>) \/ Sends(n, <<"Hello">>) \/ Sends(n, <<"Bye">>)
           \/ Sends(n, <<"ManifestUpdate">>) \/ Sends(n, <<"Request">>)
           \/ Sends(n, <<"FileStart">>) \/ Sends(n, <<"FileStart", "FileEnd">>)
    PROVE  chan' \in [Node -> Seq(Op)]
<1>1. /\ <<>> \in Seq(Op) /\ <<"Hello">> \in Seq(Op) /\ <<"Bye">> \in Seq(Op)
      /\ <<"ManifestUpdate">> \in Seq(Op) /\ <<"Request">> \in Seq(Op)
      /\ <<"FileStart">> \in Seq(Op) /\ <<"FileStart", "FileEnd">> \in Seq(Op)
  BY DEF Op
<1> QED BY <1>1, SendsTypes

LEMMA TailTypes ==
    ASSUME TypeOK, NEW n \in Node, chan[n] # <<>>, chan' = [chan EXCEPT ![n] = Tail(@)]
    PROVE  chan' \in [Node -> Seq(Op)]
<1>1. chan[n] \in Seq(Op)
  BY Types
<1>2. Tail(chan[n]) \in Seq(Op)
  BY <1>1
<1> QED BY <1>2, Types

LEMMA TypesKept ==
    ASSUME TypeOK, NEW n \in Node, Acts(n)
    PROVE  TypeOK'
<1> DEFINE K == /\ ses' \in [Node -> SessionState] /\ reactor' \in [Node -> ReactorState]
                /\ main' \in [Node -> MainState] /\ temp' \in [Node -> {"none", "empty", "part"}]
                /\ news' \in [Node -> {"none", "up", "down"}]
                /\ late' \in BOOLEAN /\ overlapped' \in BOOLEAN
                /\ hurried' \in BOOLEAN /\ unjoined' \in BOOLEAN
                /\ file' \in {"old", "new", "gone"}
                /\ pulls' \in 0..MaxPulls /\ changes' \in 0..MaxChanges
           Typed == K /\ chan' \in [Node -> Seq(Op)]
<1> USE Types
<1>1. cfg' \in Agreements /\ linked' \in BOOLEAN /\ connects' \in 0..MaxConnects
  BY ActsLocally
<1>2. ASSUME Take(n) PROVE Typed
  <2>1. K
    BY <1>2, TakeDoes
  <2>2. chan' \in [Node -> Seq(Op)]
    BY <1>2, TakeDoes, TailTypes
  <2> QED BY <2>1, <2>2
<1>3. ASSUME Start(n) PROVE Typed
  BY <1>3, StartDoes
<1>4. ASSUME Spawn(n) PROVE Typed
  BY <1>4, SpawnDoes
<1>5. ASSUME Inert(n) PROVE Typed
  BY <1>5, InertDoes
<1>6. ASSUME HandleHello(n) PROVE Typed
  <2>1. K
    BY <1>6, HelloDoes
  <2>2. chan' \in [Node -> Seq(Op)]
    BY <1>6, HelloDoes, SendsSome
  <2> QED BY <2>1, <2>2
<1>7. ASSUME HandleSimple(n) PROVE Typed
  BY <1>7, SimpleDoes
<1>8. ASSUME HandleFileStart(n) PROVE Typed
  BY <1>8, FileStartDoes
<1>9. ASSUME CreatePart(n) PROVE Typed
  BY <1>9, CreatePartDoes
<1>10. ASSUME Register(n) PROVE Typed
  BY <1>10, RegisterDoes
<1>11. ASSUME HandleFileEnd(n) PROVE Typed
  BY <1>11, FileEndDoes
<1>12. ASSUME Move(n) PROVE Typed
  BY <1>12, MoveDoes
<1>13. ASSUME Prune(n) PROVE Typed
  BY <1>13, PruneDoes
<1>14. ASSUME Leave(n) PROVE Typed
  BY <1>14, LeaveDoes
<1>15. ASSUME Erase(n) PROVE Typed
  BY <1>15, EraseDoes
<1>16. ASSUME Stopped(n) PROVE Typed
  BY <1>16, StoppedDoes
<1>17. ASSUME Greet(n) PROVE Typed
  <2>1. K
    BY <1>17, GreetDoes
  <2>2. chan' \in [Node -> Seq(Op)]
    BY <1>17, GreetDoes, SendsSome
  <2> QED BY <2>1, <2>2
<1>18. ASSUME Ignore(n) PROVE Typed
  <2>1. K
    BY <1>18, IgnoreDoes
  <2>2. chan' \in [Node -> Seq(Op)]
    BY <1>18, IgnoreDoes, TailTypes
  <2> QED BY <2>1, <2>2
<1>19. ASSUME Serve(n) PROVE Typed
  <2>1. K
    BY <1>19, ServeDoes
  <2>2. chan' \in [Node -> Seq(Op)]
    BY <1>19, ServeDoes, SendsSome
  <2> QED BY <2>1, <2>2
<1>20. ASSUME Notify(n) PROVE Typed
  BY <1>20, NotifyDoes
<1>21. ASSUME LocalChanged(n) PROVE Typed
  BY <1>21, LocalChangedDoes
<1>22. ASSUME Speak(n) PROVE Typed
  <2>1. K
    BY <1>22, SpeakDoes
  <2>2. chan' \in [Node -> Seq(Op)]
    BY <1>22, SpeakDoes, SendsSome
  <2> QED BY <2>1, <2>2
<1>23. ASSUME LateChanged(n) PROVE Typed
  <2>1. K
    BY <1>23, LateChangedDoes
  <2>2. chan' \in [Node -> Seq(Op)]
    BY <1>23, LateChangedDoes, SendsSome
  <2> QED BY <2>1, <2>2
<1>24. ASSUME Shutdown(n) PROVE Typed
  BY <1>24, ShutdownDoes
<1>25. ASSUME StopFlag(n) PROVE Typed
  BY <1>25, StopFlagDoes
<1>26. ASSUME StopJoin(n) PROVE Typed
  BY <1>26, StopJoinDoes
<1>27. ASSUME Clean(n) PROVE Typed
  BY <1>27, CleanDoes
<1>28. Typed
  <2> HIDE DEF Typed
  <2> QED BY <1>2, <1>3, <1>4, <1>5, <1>6, <1>7, <1>8, <1>9, <1>10, <1>11, <1>12, <1>13, <1>14, <1>15, <1>16, <1>17, <1>18, <1>19, <1>20, <1>21, <1>22, <1>23, <1>24, <1>25, <1>26, <1>27 DEF Acts, Reacts, Handle, Tells
<1> QED BY <1>1, <1>28 DEF TypeOK, SessionState, ReactorState, MainState, ghosts

-----------------------------------------------------------------------------
(* Where a session is while the reactor and the main thread are where they *)
(* are.                                                                    *)

Life(n) ==
    /\ reactor[n].at = "idle" => reactor[n].op = "none"
    /\ reactor[n].at # "idle" => ses[n].at # "none"
    /\ ses[n].at = "none" => ses[n] = NoSession
    /\ ~Serving(n) => ses[n].at # "table"
    /\ Serving(n) /\ ses[n].at = "loose" => reactor[n].at = "join"
    /\ reactor[n].at = "join" => ses[n].at = "loose" /\ ~linked
    /\ main[n] \in {"call", "speak"} => ses[n].at = "table"
    /\ main[n] \in {"flag", "join"} => ses[n].at = "loose" /\ reactor[n].at # "join"
    /\ ses[n].at = "table" => linked \/ news[n] = "down"
    /\ news[n] = "up" => reactor[n].at = "idle" /\ linked /\ (Serving(n) => ses[n].at = "none")
    /\ news[n] = "down" => ~linked
    /\ main[n] \in {"left", "ended"} /\ reactor[n].at # "idle" => overlapped
    /\ main[n] = "ended" => reactor[n].at = "idle" /\ ~linked

\* The threads of a session that is not running are being joined.
Joined(n) ==
    /\ ses[n].threads /\ ~ses[n].running => main[n] = "join" \/ reactor[n].at = "join" \/ hurried
    /\ reactor[n].at = "spawn" /\ ~ses[n].running => main[n] = "join" \/ hurried

\* The reactor has taken a message and not handled it.
Before(n) == reactor[n].at \in {"start", "spawn", "handle"}

\* The directory holds what the session is receiving, and nothing else.
Received(n) ==
    ~overlapped =>
        /\ reactor[n].at = "move" => temp[n] = "part"
        /\ Before(n) /\ ses[n].incoming => temp[n] = "part"
        /\ Serving(n) /\ ses[n].incoming => temp[n] = "part"
        /\ Serving(n) /\ reactor[n].at = "register" => temp[n] = "part"
        /\ reactor[n].at = "prune" => temp[n] # "part"
        /\ temp[n] # "none" => ses[n].incoming \/ reactor[n].at \in {"create", "register", "prune"}

\* Nothing is on its way where there is no connection.
Quiet == ~linked => \A n \in Node : chan[n] = <<>>

Local(n) == Life(n) /\ Joined(n) /\ Received(n)

\* Nothing an action of another node does disturbs them.
LEMMA LocalElsewhere ==
    ASSUME NEW k \in Node, Local(k), ses'[k] = ses[k], reactor'[k] = reactor[k], main'[k] = main[k],
           temp'[k] = temp[k], news'[k] = news[k], linked' = linked, Monotone
    PROVE  Local(k)'
<1>1. Life(k) /\ Joined(k) /\ Received(k)
  BY DEF Local
<1>2. Life(k)'
  BY <1>1 DEF Life, Serving, Monotone
<1>3. Joined(k)'
  BY <1>1 DEF Joined, Monotone
<1>4. Received(k)'
  BY <1>1 DEF Received, Before, Serving, Monotone
<1> QED BY <1>2, <1>3, <1>4 DEF Local

\* The reactor goes on with a message, and the session stays where it is.
LEMMA LifeGoesOn ==
    ASSUME NEW n \in Node, Life(n), main'[n] = main[n], news'[n] = news[n], linked' = linked,
           overlapped' = overlapped, ses'[n].at = ses[n].at,
           reactor[n].at \notin {"idle", "join"}, reactor'[n].at \notin {"idle", "join"}
    PROVE  Life(n)'
BY DEF Life, Serving

LEMMA LifeKept ==
    ASSUME TypeOK, Quiet, NEW n \in Node, Local(n), Acts(n)
    PROVE  Life(n)'
<1> USE Types, FreshSessions, IdleParts DEF Local, Life, Serving, Place, Dealings, Files, MainState
<1>1. linked' = linked
  BY ActsLocally
<1>2. ASSUME Take(n) PROVE Life(n)'
  <2>1. linked /\ news[n] = "none" /\ Serving(n) /\ (ses[n].at = "table" \/ ses[n] = NoSession)
    <3>1. news[n] = "none" /\ Serving(n) /\ reactor[n] = Idle /\ chan[n] # <<>>
      BY <1>2, TakeDoes
    <3>2. linked
      BY <3>1 DEF Quiet
    <3>3. reactor[n].at = "idle" /\ ses[n].at \in {"none", "table", "loose"}
      BY <3>1 DEF SessionState
    <3>4. ses[n].at = "table" \/ ses[n] = NoSession
      BY <3>1, <3>3
    <3> QED BY <3>1, <3>2, <3>4
  <2>2. CASE ses[n].at = "table"
    BY <1>1, <1>2, <2>1, <2>2, TakeDoes
  <2>3. CASE ses[n] = NoSession
    BY <1>1, <1>2, <2>1, <2>3, TakeDoes
  <2> QED BY <2>1, <2>2, <2>3
<1>3. ASSUME Start(n) PROVE Life(n)'
  BY <1>1, <1>3, StartDoes
<1>4. ASSUME Spawn(n) PROVE Life(n)'
  BY <1>1, <1>4, SpawnDoes
<1>5. ASSUME Inert(n) PROVE Life(n)'
  BY <1>1, <1>5, InertDoes
<1>6. ASSUME HandleHello(n) PROVE Life(n)'
  BY <1>1, <1>6, HelloDoes
<1>7. ASSUME HandleSimple(n) PROVE Life(n)'
  <2>1. reactor'[n].at \in {"leave"}
    BY <1>7, SimpleDoes
  <2>2. /\ reactor[n].at = "handle" /\ ses'[n].at = ses[n].at
        /\ main'[n] = main[n] /\ news'[n] = news[n] /\ overlapped' = overlapped
    BY <1>7, SimpleDoes
  <2> HIDE DEF Life
  <2> QED BY <1>1, <2>1, <2>2, LifeGoesOn
<1>8. ASSUME HandleFileStart(n) PROVE Life(n)'
  BY <1>1, <1>8, FileStartDoes
<1>9. ASSUME CreatePart(n) PROVE Life(n)'
  <2>1. reactor'[n].at \in {"leave", "register"}
    BY <1>9, CreatePartDoes
  <2>2. /\ reactor[n].at = "create" /\ ses'[n].at = ses[n].at
        /\ main'[n] = main[n] /\ news'[n] = news[n] /\ overlapped' = overlapped
    BY <1>9, CreatePartDoes
  <2> HIDE DEF Life
  <2> QED BY <1>1, <2>1, <2>2, LifeGoesOn
<1>10. ASSUME Register(n) PROVE Life(n)'
  BY <1>1, <1>10, RegisterDoes
<1>11. ASSUME HandleFileEnd(n) PROVE Life(n)'
  <2>1. reactor'[n].at \in {"leave", "move"}
    BY <1>11, FileEndDoes
  <2>2. /\ reactor[n].at = "handle" /\ ses'[n].at = ses[n].at
        /\ main'[n] = main[n] /\ news'[n] = news[n] /\ overlapped' = overlapped
    BY <1>11, FileEndDoes
  <2> HIDE DEF Life
  <2> QED BY <1>1, <2>1, <2>2, LifeGoesOn
<1>12. ASSUME Move(n) PROVE Life(n)'
  <2>1. reactor'[n].at \in {"leave", "prune"}
    BY <1>12, MoveDoes
  <2>2. /\ reactor[n].at = "move" /\ ses'[n].at = ses[n].at
        /\ main'[n] = main[n] /\ news'[n] = news[n] /\ overlapped' = overlapped
    BY <1>12, MoveDoes
  <2> HIDE DEF Life
  <2> QED BY <1>1, <2>1, <2>2, LifeGoesOn
<1>13. ASSUME Prune(n) PROVE Life(n)'
  BY <1>1, <1>13, PruneDoes
<1>14. ASSUME Leave(n) PROVE Life(n)'
  BY <1>1, <1>14, LeaveDoes
<1>15. ASSUME Erase(n) PROVE Life(n)'
  BY <1>1, <1>15, EraseDoes
<1>16. ASSUME Stopped(n) PROVE Life(n)'
  BY <1>1, <1>16, StoppedDoes
<1>17. ASSUME Greet(n) PROVE Life(n)'
  BY <1>1, <1>17, GreetDoes
<1>18. ASSUME Ignore(n) PROVE Life(n)'
  BY <1>1, <1>18, IgnoreDoes
<1>19. ASSUME Serve(n) PROVE Life(n)'
  BY <1>1, <1>19, ServeDoes
<1>20. ASSUME Notify(n) PROVE Life(n)'
  BY <1>1, <1>20, NotifyDoes
<1>21. ASSUME LocalChanged(n) PROVE Life(n)'
  BY <1>1, <1>21, LocalChangedDoes
<1>22. ASSUME Speak(n) PROVE Life(n)'
  BY <1>1, <1>22, SpeakDoes
<1>23. ASSUME LateChanged(n) PROVE Life(n)'
  BY <1>1, <1>23, LateChangedDoes
<1>24. ASSUME Shutdown(n) PROVE Life(n)'
  BY <1>1, <1>24, ShutdownDoes
<1>25. ASSUME StopFlag(n) PROVE Life(n)'
  BY <1>1, <1>25, StopFlagDoes
<1>26. ASSUME StopJoin(n) PROVE Life(n)'
  BY <1>1, <1>26, StopJoinDoes
<1>27. ASSUME Clean(n) PROVE Life(n)'
  BY <1>1, <1>27, CleanDoes
<1> QED
  <2> HIDE DEF Life
  <2> QED BY <1>2, <1>3, <1>4, <1>5, <1>6, <1>7, <1>8, <1>9, <1>10, <1>11, <1>12, <1>13, <1>14, <1>15, <1>16, <1>17, <1>18, <1>19, <1>20, <1>21, <1>22, <1>23, <1>24, <1>25, <1>26, <1>27 DEF Acts, Reacts, Handle, Tells

LEMMA JoinedKept ==
    ASSUME TypeOK, NEW n \in Node, Local(n), Acts(n)
    PROVE  Joined(n)'
<1> USE Types, FreshSessions, IdleParts DEF Local, Life, Joined, Serving, Place, Dealings, Files
<1>1. linked' = linked
  BY ActsLocally
<1>2. ASSUME Take(n) PROVE Joined(n)'
  BY <1>1, <1>2, TakeDoes
<1>3. ASSUME Start(n) PROVE Joined(n)'
  BY <1>1, <1>3, StartDoes
<1>4. ASSUME Spawn(n) PROVE Joined(n)'
  BY <1>1, <1>4, SpawnDoes
<1>5. ASSUME Inert(n) PROVE Joined(n)'
  BY <1>1, <1>5, InertDoes
<1>6. ASSUME HandleHello(n) PROVE Joined(n)'
  BY <1>1, <1>6, HelloDoes
<1>7. ASSUME HandleSimple(n) PROVE Joined(n)'
  BY <1>1, <1>7, SimpleDoes
<1>8. ASSUME HandleFileStart(n) PROVE Joined(n)'
  BY <1>1, <1>8, FileStartDoes
<1>9. ASSUME CreatePart(n) PROVE Joined(n)'
  <2>1. reactor[n].at = "create" /\ reactor'[n].at \in {"leave", "register"}
    BY <1>9, CreatePartDoes
  <2>2. ses' = ses /\ main' = main /\ hurried' = hurried
    BY <1>9, CreatePartDoes
  <2> QED BY <2>1, <2>2
<1>10. ASSUME Register(n) PROVE Joined(n)'
  BY <1>1, <1>10, RegisterDoes
<1>11. ASSUME HandleFileEnd(n) PROVE Joined(n)'
  BY <1>1, <1>11, FileEndDoes
<1>12. ASSUME Move(n) PROVE Joined(n)'
  <2>1. reactor[n].at = "move" /\ reactor'[n].at \in {"leave", "prune"}
    BY <1>12, MoveDoes
  <2>2. /\ ses'[n].threads = ses[n].threads /\ ses'[n].running = ses[n].running
        /\ main' = main /\ hurried' = hurried
    BY <1>12, MoveDoes
  <2> QED BY <2>1, <2>2
<1>13. ASSUME Prune(n) PROVE Joined(n)'
  BY <1>1, <1>13, PruneDoes
<1>14. ASSUME Leave(n) PROVE Joined(n)'
  BY <1>1, <1>14, LeaveDoes
<1>15. ASSUME Erase(n) PROVE Joined(n)'
  BY <1>1, <1>15, EraseDoes
<1>16. ASSUME Stopped(n) PROVE Joined(n)'
  BY <1>1, <1>16, StoppedDoes
<1>17. ASSUME Greet(n) PROVE Joined(n)'
  BY <1>1, <1>17, GreetDoes
<1>18. ASSUME Ignore(n) PROVE Joined(n)'
  BY <1>1, <1>18, IgnoreDoes
<1>19. ASSUME Serve(n) PROVE Joined(n)'
  BY <1>1, <1>19, ServeDoes
<1>20. ASSUME Notify(n) PROVE Joined(n)'
  BY <1>1, <1>20, NotifyDoes
<1>21. ASSUME LocalChanged(n) PROVE Joined(n)'
  BY <1>1, <1>21, LocalChangedDoes
<1>22. ASSUME Speak(n) PROVE Joined(n)'
  BY <1>1, <1>22, SpeakDoes
<1>23. ASSUME LateChanged(n) PROVE Joined(n)'
  BY <1>1, <1>23, LateChangedDoes
<1>24. ASSUME Shutdown(n) PROVE Joined(n)'
  BY <1>1, <1>24, ShutdownDoes
<1>25. ASSUME StopFlag(n) PROVE Joined(n)'
  BY <1>1, <1>25, StopFlagDoes
<1>26. ASSUME StopJoin(n) PROVE Joined(n)'
  BY <1>1, <1>26, StopJoinDoes
<1>27. ASSUME Clean(n) PROVE Joined(n)'
  BY <1>1, <1>27, CleanDoes
<1> QED
  <2> HIDE DEF Joined
  <2> QED BY <1>2, <1>3, <1>4, <1>5, <1>6, <1>7, <1>8, <1>9, <1>10, <1>11, <1>12, <1>13, <1>14, <1>15, <1>16, <1>17, <1>18, <1>19, <1>20, <1>21, <1>22, <1>23, <1>24, <1>25, <1>26, <1>27 DEF Acts, Reacts, Handle, Tells

LEMMA ReceivedKept ==
    ASSUME TypeOK, NEW n \in Node, Local(n), Acts(n)
    PROVE  Received(n)'
<1> USE Types, FreshSessions, IdleParts DEF Local, Life, Received, Before, Serving, Place, Dealings, Files, MainState
<1>1. linked' = linked
  BY ActsLocally
<1>2. ASSUME Take(n) PROVE Received(n)'
  <2>1. Serving(n) /\ (ses[n].at = "table" \/ ses[n] = NoSession)
    <3>1. Serving(n) /\ reactor[n] = Idle
      BY <1>2, TakeDoes
    <3>2. reactor[n].at = "idle" /\ ses[n].at \in {"none", "table", "loose"}
      BY <3>1 DEF SessionState
    <3> QED BY <3>1, <3>2
  <2>2. CASE ses[n].at = "table"
    BY <1>2, <2>1, <2>2, TakeDoes
  <2>3. CASE ses[n] = NoSession
    BY <1>2, <2>1, <2>3, TakeDoes
  <2> QED BY <2>1, <2>2, <2>3
<1>3. ASSUME Start(n) PROVE Received(n)'
  BY <1>1, <1>3, StartDoes
<1>4. ASSUME Spawn(n) PROVE Received(n)'
  BY <1>1, <1>4, SpawnDoes
<1>5. ASSUME Inert(n) PROVE Received(n)'
  BY <1>1, <1>5, InertDoes
<1>6. ASSUME HandleHello(n) PROVE Received(n)'
  BY <1>1, <1>6, HelloDoes
<1>7. ASSUME HandleSimple(n) PROVE Received(n)'
  BY <1>1, <1>7, SimpleDoes
<1>8. ASSUME HandleFileStart(n) PROVE Received(n)'
  BY <1>1, <1>8, FileStartDoes
<1>9. ASSUME CreatePart(n) PROVE Received(n)'
  BY <1>1, <1>9, CreatePartDoes
<1>10. ASSUME Register(n) PROVE Received(n)'
  BY <1>1, <1>10, RegisterDoes
<1>11. ASSUME HandleFileEnd(n) PROVE Received(n)'
  BY <1>1, <1>11, FileEndDoes
<1>12. ASSUME Move(n) PROVE Received(n)'
  BY <1>1, <1>12, MoveDoes
<1>13. ASSUME Prune(n) PROVE Received(n)'
  BY <1>1, <1>13, PruneDoes
<1>14. ASSUME Leave(n) PROVE Received(n)'
  BY <1>1, <1>14, LeaveDoes
<1>15. ASSUME Erase(n) PROVE Received(n)'
  BY <1>1, <1>15, EraseDoes
<1>16. ASSUME Stopped(n) PROVE Received(n)'
  BY <1>1, <1>16, StoppedDoes
<1>17. ASSUME Greet(n) PROVE Received(n)'
  BY <1>1, <1>17, GreetDoes
<1>18. ASSUME Ignore(n) PROVE Received(n)'
  BY <1>1, <1>18, IgnoreDoes
<1>19. ASSUME Serve(n) PROVE Received(n)'
  BY <1>1, <1>19, ServeDoes
<1>20. ASSUME Notify(n) PROVE Received(n)'
  BY <1>1, <1>20, NotifyDoes
<1>21. ASSUME LocalChanged(n) PROVE Received(n)'
  BY <1>1, <1>21, LocalChangedDoes
<1>22. ASSUME Speak(n) PROVE Received(n)'
  BY <1>1, <1>22, SpeakDoes
<1>23. ASSUME LateChanged(n) PROVE Received(n)'
  BY <1>1, <1>23, LateChangedDoes
<1>24. ASSUME Shutdown(n) PROVE Received(n)'
  BY <1>1, <1>24, ShutdownDoes
<1>25. ASSUME StopFlag(n) PROVE Received(n)'
  <2>1. main'[n] \in {"join", "clean"} /\ ses'[n].incoming = ses[n].incoming
    BY <1>25, StopFlagDoes
  <2>2. reactor' = reactor /\ temp' = temp /\ overlapped' = overlapped
    BY <1>25, StopFlagDoes
  <2> QED BY <2>1, <2>2
<1>26. ASSUME StopJoin(n) PROVE Received(n)'
  BY <1>1, <1>26, StopJoinDoes
<1>27. ASSUME Clean(n) PROVE Received(n)'
  BY <1>1, <1>27, CleanDoes
<1> QED
  <2> HIDE DEF Received
  <2> QED BY <1>2, <1>3, <1>4, <1>5, <1>6, <1>7, <1>8, <1>9, <1>10, <1>11, <1>12, <1>13, <1>14, <1>15, <1>16, <1>17, <1>18, <1>19, <1>20, <1>21, <1>22, <1>23, <1>24, <1>25, <1>26, <1>27 DEF Acts, Reacts, Handle, Tells

-----------------------------------------------------------------------------
(* The connection and the end of the program.                              *)

LEMMA ConnectDoes ==
    ASSUME TypeOK, Connect
    PROVE  /\ ~linked /\ linked' = TRUE
           /\ \A k \in Node : news[k] = "none" /\ reactor[k] = Idle /\ main[k] # "ended" /\ news'[k] = "up"
           /\ UNCHANGED <<cfg, chan, ses, reactor, main, temp, file, pulls, changes,
                          late, overlapped, hurried, unjoined>>
           /\ TypeOK'
<1>1. /\ ~linked /\ linked' = TRUE
      /\ \A k \in Node : news[k] = "none" /\ reactor[k] = Idle /\ main[k] # "ended" /\ news'[k] = "up"
      /\ news' \in [Node -> {"none", "up", "down"}]
      /\ connects' \in 0..MaxConnects
      /\ UNCHANGED <<cfg, chan, ses, reactor, main, temp, file, pulls, changes,
                     late, overlapped, hurried, unjoined>>
  BY Types, LifecycleAssumption DEF Connect, counts, ghosts
<1>2. TypeOK'
  BY <1>1 DEF TypeOK, ghosts
<1> QED BY <1>1, <1>2

LEMMA LostDoes ==
    ASSUME TypeOK, NEW nodes, Lost(nodes)
    PROVE  /\ linked' = FALSE /\ chan' \in [Node -> Seq(Op)] /\ news' \in [Node -> {"none", "up", "down"}]
           /\ \A k \in Node : chan'[k] = <<>> /\ news'[k] = IF k \in nodes THEN "down" ELSE "none"
<1>1. <<>> \in Seq(Op)
  OBVIOUS
<1> QED BY <1>1 DEF Lost

LEMMA DropDoes ==
    ASSUME TypeOK, Drop
    PROVE  /\ linked /\ linked' = FALSE
           /\ \A k \in Node : chan'[k] = <<>> /\ news'[k] = "down"
           /\ UNCHANGED <<cfg, ses, reactor, main, temp, file, pulls, changes,
                          late, overlapped, hurried, unjoined>>
           /\ TypeOK'
<1>1. /\ linked /\ Lost(Node)
      /\ UNCHANGED <<cfg, connects, ses, reactor, main, temp, file, pulls, changes,
                     late, overlapped, hurried, unjoined>>
  BY DEF Drop, counts, ghosts
<1>2. /\ linked' = FALSE /\ chan' \in [Node -> Seq(Op)] /\ news' \in [Node -> {"none", "up", "down"}]
      /\ \A k \in Node : chan'[k] = <<>> /\ news'[k] = "down"
  BY <1>1, LostDoes
<1>3. TypeOK'
  BY <1>1, <1>2 DEF TypeOK, ghosts
<1> QED BY <1>1, <1>2, <1>3

LEMMA AskDoes ==
    ASSUME TypeOK, Ask
    PROVE  /\ ses[A].known /\ Sends(A, <<"Request">>)
           /\ UNCHANGED <<cfg, linked, news, ses, reactor, main, temp, file, changes,
                          late, overlapped, hurried, unjoined>>
           /\ TypeOK'
<1>1. /\ ses[A].known /\ Sends(A, <<"Request">>)
      /\ pulls' \in 0..MaxPulls
      /\ UNCHANGED <<cfg, linked, news, connects, ses, reactor, main, temp, file, changes,
                     late, overlapped, hurried, unjoined>>
  BY Types, LifecycleAssumption DEF Ask, ghosts
<1>2. A \in Node
  BY DEF Node
<1>3. chan' \in [Node -> Seq(Op)]
  BY <1>1, <1>2, SendsSome
<1>4. TypeOK'
  BY <1>1, <1>3 DEF TypeOK, ghosts
<1> QED BY <1>1, <1>4

LEMMA NodeStopDoes ==
    ASSUME TypeOK, NEW n \in Node, NodeStop(n)
    PROVE  /\ main[n] = "left" /\ reactor[n] = Idle /\ main'[n] = "ended"
           /\ \A k \in Node : k # n => main'[k] = main[k]
           /\ linked' = FALSE
           /\ IF linked THEN \A k \in Node : /\ chan'[k] = <<>>
                                             /\ news'[k] = IF k = Other(n) THEN "down" ELSE "none"
                        ELSE UNCHANGED <<chan, news>>
           /\ UNCHANGED <<cfg, ses, reactor, temp, file, pulls, changes,
                          late, overlapped, hurried, unjoined>>
           /\ TypeOK'
<1>1. /\ main[n] = "left" /\ reactor[n] = Idle /\ MainTo(n, "ended")
      /\ UNCHANGED <<cfg, connects, ses, reactor, temp, file, pulls, changes,
                     late, overlapped, hurried, unjoined>>
  BY DEF NodeStop, counts, ghosts
<1>2. main'[n] = "ended" /\ main' \in [Node -> MainState] /\ \A k \in Node : k # n => main'[k] = main[k]
  BY <1>1, Types DEF MainTo, MainState
<1>3. /\ linked' = FALSE
      /\ IF linked THEN \A k \in Node : /\ chan'[k] = <<>>
                                        /\ news'[k] = IF k = Other(n) THEN "down" ELSE "none"
                   ELSE UNCHANGED <<chan, news>>
      /\ chan' \in [Node -> Seq(Op)] /\ news' \in [Node -> {"none", "up", "down"}]
  <2>1. CASE linked
    <3>1. Lost({Other(n)})
      BY <2>1 DEF NodeStop
    <3>2. /\ linked' = FALSE /\ chan' \in [Node -> Seq(Op)] /\ news' \in [Node -> {"none", "up", "down"}]
          /\ \A k \in Node : chan'[k] = <<>> /\ news'[k] = IF k \in {Other(n)} THEN "down" ELSE "none"
      BY <3>1, LostDoes
    <3> QED BY <2>1, <3>2
  <2>2. CASE ~linked
    <3>1. UNCHANGED <<linked, chan, news>>
      BY <2>2 DEF NodeStop
    <3> QED BY <2>2, <3>1, Types
  <2> QED BY <2>1, <2>2
<1>4. TypeOK'
  BY <1>1, <1>2, <1>3 DEF TypeOK, ghosts, MainState
<1> QED BY <1>1, <1>2, <1>3, <1>4

LEMMA QuietKept ==
    ASSUME TypeOK, NEW n \in Node, Quiet, Acts(n)
    PROVE  Quiet'
<1>1. linked' = linked
  BY ActsLocally
<1>2. CASE linked
  BY <1>1, <1>2 DEF Quiet
<1>3. CASE ~linked
  <2>1. \A k \in Node : chan[k] = <<>>
    BY <1>3 DEF Quiet
  <2>2. chan' = chan
    <3>1. ASSUME NEW ms, Sends(n, ms) PROVE chan' = chan
      BY <1>3, <3>1 DEF Sends
    <3>2. ~Take(n) /\ ~Ignore(n)
      BY <2>1 DEF Take, Ignore, Arrives
    <3>3. CASE Greet(n) \/ HandleHello(n) \/ Serve(n) \/ Speak(n) \/ LateChanged(n)
      <4>1. \E ms : Sends(n, ms)
        BY <3>3 DEF Greet, HandleHello, Describe, Refuse, Serve, Speak, LateChanged
      <4> QED BY <3>1, <4>1
    <3>4. CASE \/ Start(n) \/ Spawn(n) \/ Inert(n) \/ HandleSimple(n) \/ HandleFileStart(n)
               \/ HandleFileEnd(n) \/ CreatePart(n) \/ Register(n) \/ Move(n) \/ Prune(n)
      BY <3>4, StartDoes, SpawnDoes, InertDoes, SimpleDoes, FileStartDoes, FileEndDoes, CreatePartDoes,
         RegisterDoes, MoveDoes, PruneDoes
    <3>5. CASE \/ Leave(n) \/ Erase(n) \/ Stopped(n) \/ Notify(n) \/ LocalChanged(n) \/ Shutdown(n)
               \/ StopFlag(n) \/ StopJoin(n) \/ Clean(n)
      BY <3>5, LeaveDoes, EraseDoes, StoppedDoes, NotifyDoes, LocalChangedDoes, ShutdownDoes,
         StopFlagDoes, StopJoinDoes, CleanDoes
    <3> QED BY <3>2, <3>3, <3>4, <3>5 DEF Acts, Reacts, Handle, Tells
  <2> QED BY <1>1, <2>1, <2>2 DEF Quiet
<1> QED BY <1>2, <1>3

LocalInv == TypeOK /\ Quiet /\ \A n \in Node : Local(n)

LEMMA LocalInvInit == Init => LocalInv
<1> SUFFICES ASSUME Init PROVE LocalInv
  OBVIOUS
<1>1. {MaxConnects, MaxPulls, MaxChanges} \subseteq Nat
  BY LifecycleAssumption
<1>2. /\ chan \in [Node -> Seq(Op)] /\ \A n \in Node : chan[n] = <<>>
  <2>1. <<>> \in Seq(Op)
    OBVIOUS
  <2> QED BY <2>1 DEF Init
<1>3. /\ ses \in [Node -> SessionState] /\ reactor \in [Node -> ReactorState]
      /\ \A n \in Node : ses[n] = NoSession /\ reactor[n] = Idle
  BY FreshSessions, IdleParts DEF Init
<1>4. TypeOK
  <2>1. /\ news \in [Node -> {"none", "up", "down"}] /\ temp \in [Node -> {"none", "empty", "part"}]
        /\ main \in [Node -> MainState] /\ file \in {"old", "new", "gone"} /\ cfg \in Agreements
    BY DEF Init, MainState
  <2>2. connects \in 0..MaxConnects /\ pulls \in 0..MaxPulls /\ changes \in 0..MaxChanges
    BY <1>1 DEF Init
  <2>3. linked \in BOOLEAN /\ ghosts \in BOOLEAN \X BOOLEAN \X BOOLEAN \X BOOLEAN
    BY Zenon DEF Init, ghosts
  <2> QED BY <1>2, <1>3, <2>1, <2>2, <2>3 DEF TypeOK, SessionState, ReactorState, MainState
<1>5. \A n \in Node : Local(n)
  BY <1>3, FreshSessions, IdleParts DEF Init, Local, Life, Joined, Received, Before, Serving
<1> QED BY <1>2, <1>4, <1>5 DEF LocalInv, Quiet

LEMMA LocalInvStep == LocalInv /\ [Next]_vars => LocalInv'
<1> SUFFICES ASSUME LocalInv, [Next]_vars PROVE LocalInv'
  OBVIOUS
<1>0. TypeOK /\ Quiet /\ \A n \in Node : Local(n)
  BY DEF LocalInv
<1>1. ASSUME NEW n \in Node, Acts(n) PROVE LocalInv'
  <2>1. TypeOK' /\ Quiet'
    BY <1>0, <1>1, TypesKept, QuietKept
  <2>2. Local(n)'
    <3>1. Life(n)' /\ Joined(n)' /\ Received(n)'
      BY <1>0, <1>1, LifeKept, JoinedKept, ReceivedKept
    <3> QED BY <3>1 DEF Local
  <2>3. ASSUME NEW k \in Node, k # n PROVE Local(k)'
    <3>1. /\ ses'[k] = ses[k] /\ reactor'[k] = reactor[k] /\ main'[k] = main[k]
          /\ temp'[k] = temp[k] /\ news'[k] = news[k] /\ linked' = linked /\ Monotone
      BY <1>0, <1>1, <2>3, ActsLocally
    <3> QED BY <1>0, <3>1, LocalElsewhere
  <2> QED BY <2>1, <2>2, <2>3 DEF LocalInv
<1>2. CASE Connect
  <2>1. /\ linked' = TRUE
        /\ \A k \in Node : news[k] = "none" /\ reactor[k] = Idle /\ main[k] # "ended" /\ news'[k] = "up"
        /\ UNCHANGED <<chan, ses, reactor, main, temp, overlapped, hurried>>
        /\ ~linked /\ TypeOK'
    BY <1>0, <1>2, ConnectDoes
  <2>2. ASSUME NEW k \in Node PROVE Local(k)'
    <3>1. reactor[k].at = "idle" /\ ses[k].at \in {"none", "table", "loose"}
      BY <1>0, <2>1, IdleParts, Types DEF SessionState
    <3>2. Serving(k) => ses[k].at = "none"
      BY <1>0, <2>1, <3>1 DEF Local, Life
    <3> QED BY <1>0, <2>1, <3>1, <3>2 DEF Local, Life, Joined, Received, Before, Serving
  <2> QED BY <2>1, <2>2 DEF LocalInv, Quiet
<1>3. CASE Drop
  <2>1. /\ linked' = FALSE
        /\ \A k \in Node : chan'[k] = <<>> /\ news'[k] = "down"
        /\ UNCHANGED <<ses, reactor, main, temp, overlapped, hurried>>
        /\ TypeOK'
    BY <1>0, <1>3, DropDoes
  <2>2. ASSUME NEW k \in Node PROVE Local(k)'
    BY <1>0, <2>1 DEF Local, Life, Joined, Received, Before, Serving
  <2> QED BY <2>1, <2>2 DEF LocalInv, Quiet
<1>4. CASE Ask
  <2>1. /\ Sends(A, <<"Request">>)
        /\ UNCHANGED <<linked, news, ses, reactor, main, temp, overlapped, hurried>>
        /\ TypeOK'
    BY <1>0, <1>4, AskDoes
  <2>2. ASSUME NEW k \in Node PROVE Local(k)'
    BY <1>0, <2>1 DEF Local, Life, Joined, Received, Before, Serving
  <2>3. Quiet'
    BY <1>0, <2>1 DEF Quiet, Sends
  <2> QED BY <2>1, <2>2, <2>3 DEF LocalInv
<1>5. ASSUME NEW n \in Node, NodeStop(n) PROVE LocalInv'
  <2>1. /\ main[n] = "left" /\ reactor[n] = Idle /\ main'[n] = "ended"
        /\ \A k \in Node : k # n => main'[k] = main[k]
        /\ linked' = FALSE
        /\ IF linked THEN \A k \in Node : /\ chan'[k] = <<>>
                                          /\ news'[k] = IF k = Other(n) THEN "down" ELSE "none"
                     ELSE UNCHANGED <<chan, news>>
        /\ UNCHANGED <<ses, reactor, temp, overlapped, hurried>>
        /\ TypeOK'
    BY <1>0, <1>5, NodeStopDoes
  <2>2. ASSUME NEW k \in Node PROVE Local(k)'
    <3>1. k = n \/ k = Other(n)
      BY Others
    <3>2. Serving(k)' <=> Serving(k)
      BY <2>1 DEF Serving
    <3> QED BY <1>0, <2>1, <3>1, <3>2, Others, IdleParts DEF Local, Life, Joined, Received, Before, Serving
  <2>3. Quiet'
    BY <1>0, <2>1 DEF Quiet
  <2> QED BY <2>1, <2>2, <2>3 DEF LocalInv
<1>6. CASE UNCHANGED vars
  BY <1>0, <1>6 DEF LocalInv, TypeOK, Quiet, Local, Life, Joined, Received, Before, Serving,
     vars, network, counts, ghosts
<1> QED BY <1>1, <1>2, <1>3, <1>4, <1>5, <1>6 DEF Next, Acts, Ends

\* Where a session may be, whose threads are joined and what the temporary directory holds, as
\* the reactor and the main thread of each node go their ways.
THEOREM LocalAlways == Spec => []LocalInv
BY LocalInvInit, LocalInvStep, PTL DEF Spec

\* The variables of the two nodes have their types.
THEOREM TypeCorrect == Spec => []TypeOK
<1>1. LocalInv => TypeOK
  BY DEF LocalInv
<1> QED BY <1>1, LocalAlways, PTL


-----------------------------------------------------------------------------
(* What the parts of a node give.                                          *)

\* A session is destroyed, or a file lost, only in the cases the histories record.
LEMMA HistoriesKept ==
    ASSUME TypeOK, NEW n \in Node, Local(n), Acts(n), ThreadsAreJoined, FileSurvives
    PROVE  ThreadsAreJoined' /\ FileSurvives'
<1> USE DEF ThreadsAreJoined, FileSurvives
<1>2. (overlapped => overlapped') /\ (hurried => hurried')
  BY ActsLocally DEF Monotone
<1>3. CASE Leave(n)
  <2>1. unjoined' => unjoined \/ (ses[n].threads /\ ~ses[n].running /\ main[n] # "join")
    BY <1>3, LeaveDoes
  <2>2. reactor[n].at # "join" /\ file' = file
    BY <1>3, LeaveDoes
  <2>3. ses[n].threads /\ ~ses[n].running /\ main[n] # "join" => hurried
    BY <2>2, Zenon DEF Local, Joined
  <2> QED BY <1>2, <2>1, <2>2, <2>3, Zenon
<1>4. CASE Clean(n)
  <2>1. unjoined' => unjoined \/ (ses[n].threads /\ ~ses[n].running /\ reactor[n].at # "join")
    BY <1>4, CleanDoes, IdleParts
  <2>2. main[n] # "join" /\ file' = file
    BY <1>4, CleanDoes
  <2>3. ses[n].threads /\ ~ses[n].running /\ reactor[n].at # "join" => hurried
    BY <2>2, Zenon DEF Local, Joined
  <2> QED BY <1>2, <2>1, <2>2, <2>3, Zenon
<1>5. CASE Move(n)
  BY <1>2, <1>5, MoveDoes DEF Local, Received
<1>6. CASE \/ Take(n) \/ Start(n) \/ Spawn(n) \/ Inert(n) \/ HandleHello(n) \/ HandleSimple(n)
           \/ HandleFileStart(n) \/ CreatePart(n) \/ Register(n) \/ HandleFileEnd(n) \/ Prune(n)
  <2>1. unjoined' = unjoined /\ file' = file
    BY <1>6, TakeDoes, StartDoes, SpawnDoes, InertDoes, HelloDoes, SimpleDoes, FileStartDoes, CreatePartDoes,
       RegisterDoes, FileEndDoes, PruneDoes
  <2> QED BY <1>2, <2>1
<1>7. CASE \/ Erase(n) \/ Stopped(n) \/ Greet(n) \/ Ignore(n) \/ Serve(n) \/ Notify(n) \/ LocalChanged(n)
           \/ Speak(n) \/ LateChanged(n) \/ Shutdown(n) \/ StopFlag(n) \/ StopJoin(n)
  <2>1. unjoined' = unjoined /\ file' = file
    BY <1>7, EraseDoes, StoppedDoes, GreetDoes, IgnoreDoes, ServeDoes, NotifyDoes, LocalChangedDoes,
       SpeakDoes, LateChangedDoes, ShutdownDoes, StopFlagDoes, StopJoinDoes
  <2> QED BY <1>2, <2>1
<1> QED BY <1>3, <1>4, <1>5, <1>6, <1>7 DEF Acts, Reacts, Handle, Tells

LEMMA HistoriesStep ==
    LocalInv /\ ThreadsAreJoined /\ FileSurvives /\ [Next]_vars => ThreadsAreJoined' /\ FileSurvives'
<1> SUFFICES ASSUME LocalInv, ThreadsAreJoined, FileSurvives, [Next]_vars
             PROVE  ThreadsAreJoined' /\ FileSurvives'
  OBVIOUS
<1>1. TypeOK /\ \A n \in Node : Local(n)
  BY DEF LocalInv
<1>2. ASSUME NEW n \in Node, Acts(n) PROVE ThreadsAreJoined' /\ FileSurvives'
  BY <1>1, <1>2, HistoriesKept
<1>3. ASSUME UNCHANGED <<unjoined, hurried, file, overlapped>> PROVE ThreadsAreJoined' /\ FileSurvives'
  BY <1>3 DEF ThreadsAreJoined, FileSurvives
<1>4. CASE Connect \/ Drop \/ Ask
  BY <1>1, <1>3, <1>4, ConnectDoes, DropDoes, AskDoes
<1>5. ASSUME NEW n \in Node, NodeStop(n) PROVE ThreadsAreJoined' /\ FileSurvives'
  BY <1>1, <1>3, <1>5, NodeStopDoes
<1>6. CASE UNCHANGED vars
  BY <1>3, <1>6 DEF vars, ghosts
<1> QED BY <1>2, <1>4, <1>5, <1>6 DEF Next, Acts, Ends

\* SyncSession's destructor: a session is destroyed when its threads have been joined, so the
\* program is not terminated, but for a stop() that came while start() had raised the flag
\* and made no thread.
THEOREM JoinedBeforeDestroyed == Spec => []ThreadsAreJoined
<1>1. Init => ThreadsAreJoined /\ FileSurvives
  BY DEF Init, ThreadsAreJoined, FileSurvives
<1> QED BY <1>1, HistoriesStep, LocalAlways, PTL DEF Spec

\* finalize_incoming: a file is replaced, never lost, unless the main thread cleared the
\* temporary directory while the reactor was in a handler.
THEOREM ReplacedNotLost == Spec => []FileSurvives
<1>1. Init => ThreadsAreJoined /\ FileSurvives
  BY DEF Init, ThreadsAreJoined, FileSurvives
<1> QED BY <1>1, HistoriesStep, LocalAlways, PTL DEF Spec

\* prune_temp_dir: between transfers, and after shutdown, the temporary directory is gone.
THEOREM CleanBetweenTransfers == Spec => []NothingLeftBehind
<1>1. ASSUME LocalInv PROVE NothingLeftBehind
  <2> SUFFICES ASSUME NEW n \in Node, reactor[n] = Idle, ~ses[n].incoming, ~overlapped
               PROVE  temp[n] = "none"
    BY DEF NothingLeftBehind
  <2>1. Received(n)
    BY <1>1 DEF LocalInv, Local
  <2> QED BY <2>1, IdleParts DEF Received
<1> QED BY <1>1, LocalAlways, PTL


-----------------------------------------------------------------------------
(* What two nodes may have told each other.                                *)

In(op, s) == \E i \in 1..Len(s) : s[i] = op

\* The reactor has taken an op and not handled it.
Looks(n, op) == Before(n) /\ reactor[n].op = op

\* Both are allowed; they have what the other's Hello must say.
Open == cfg[A].allows /\ cfg[B].allows
Fit  == Fits(cfg[A], cfg[B])

\* Of nodes of which one does not allow the other, neither has a session, and it is only
\* the other that says anything.
Closed(n) ==
    ~Open => /\ ses[n] = NoSession /\ reactor[n] = Idle
             /\ chan[n] # <<>> => ~cfg[n].allows
             /\ main[n] \notin {"call", "speak", "stale"}

Polite == {"Hello", "Bye", "ManifestUpdate"}

Silent(n) == ~Serving(n) /\ reactor[n] = Idle

\* The first thing a node looks at is a Hello, which makes its session inert if the nodes do
\* not fit; it is still to come if the other node is.
FirstHello(n) ==
    \/ ses[n].at = "table" /\ (ses[n].inert \/ Looks(n, "Hello"))
    \/ ses[n].at = "none" /\ chan[n] # <<>> /\ Head(chan[n]) = "Hello"
    \/ ses[n].at = "none" /\ chan[n] = <<>> /\ (news[Other(n)] = "up" \/ Silent(Other(n)))

Stranger(n) ==
    Open /\ ~Fit /\ ~late =>
        /\ ~ses[n].known /\ ses[n].serves = 0
        /\ \A op \in Op : In(op, chan[n]) => op \in Polite
        /\ Before(n) => reactor[n].op \in Polite
        /\ Before(n) /\ reactor[n].op # "Hello" => ses[n].inert
        /\ Serving(n) /\ linked => FirstHello(n)

Friend(n) ==
    Open /\ Fit => ~ses[n].inert /\ ~In("Bye", chan[n]) /\ ~Looks(n, "Bye")

Together == Open /\ linked /\ Serving(A) /\ Serving(B)

\* A node gets the Hello of the other and does what it says.
Greeted(n) ==
    Together => \/ news[Other(n)] = "up"
                \/ In("Hello", chan[n])
                \/ Looks(n, "Hello")
                \/ ses[n].at = "table" /\ (Fit => ses[n].told) /\ (~Fit => ses[n].inert)

\* What a node has told, the other gets to know.
Described(n) ==
    Together /\ Fit /\ ses[n].at = "table" /\ ses[n].told =>
        \/ In("ManifestUpdate", chan[Other(n)])
        \/ Looks(Other(n), "ManifestUpdate")
        \/ ses[Other(n)].known

Exchange(n) == Closed(n) /\ Stranger(n) /\ Friend(n) /\ Greeted(n) /\ Described(n)

-----------------------------------------------------------------------------
(* The messages on their way.                                              *)

LEMMA InAppended ==
    ASSUME NEW s \in Seq(Op), NEW t \in Seq(Op), NEW op
    PROVE  In(op, s \o t) <=> In(op, s) \/ In(op, t)
<1>1. /\ s \o t \in Seq(Op) /\ Len(s \o t) = Len(s) + Len(t) /\ Len(s) \in Nat /\ Len(t) \in Nat
      /\ \A i \in 1..Len(s \o t) : (s \o t)[i] = IF i <= Len(s) THEN s[i] ELSE t[i - Len(s)]
  OBVIOUS
<1>2. ASSUME In(op, s \o t) PROVE In(op, s) \/ In(op, t)
  <2>1. PICK i \in 1..Len(s \o t) : (s \o t)[i] = op
    BY <1>2 DEF In
  <2>2. CASE i <= Len(s)
    BY <1>1, <2>1, <2>2 DEF In
  <2>3. CASE ~(i <= Len(s))
    <3>1. i - Len(s) \in 1..Len(t) /\ t[i - Len(s)] = op
      BY <1>1, <2>1, <2>3
    <3> QED BY <3>1 DEF In
  <2> QED BY <2>2, <2>3
<1>3. ASSUME In(op, s) PROVE In(op, s \o t)
  <2>1. PICK i \in 1..Len(s) : s[i] = op
    BY <1>3 DEF In
  <2>2. i \in 1..Len(s \o t) /\ (s \o t)[i] = op
    BY <1>1, <2>1
  <2> QED BY <2>2 DEF In
<1>4. ASSUME In(op, t) PROVE In(op, s \o t)
  <2>1. PICK i \in 1..Len(t) : t[i] = op
    BY <1>4 DEF In
  <2>2. i + Len(s) \in 1..Len(s \o t) /\ (s \o t)[i + Len(s)] = op
    BY <1>1, <2>1
  <2> QED BY <2>2 DEF In
<1> QED BY <1>2, <1>3, <1>4

LEMMA InTaken ==
    ASSUME NEW s \in Seq(Op), s # <<>>, NEW op
    PROVE  In(op, s) <=> op = Head(s) \/ In(op, Tail(s))
<1>1. /\ Len(s) \in Nat /\ Len(s) > 0 /\ Head(s) = s[1] /\ Len(Tail(s)) = Len(s) - 1
      /\ \A i \in 1..Len(Tail(s)) : Tail(s)[i] = s[i + 1]
  OBVIOUS
<1>2. ASSUME In(op, s) PROVE op = Head(s) \/ In(op, Tail(s))
  <2>1. PICK i \in 1..Len(s) : s[i] = op
    BY <1>2 DEF In
  <2>2. i # 1 => i - 1 \in 1..Len(Tail(s)) /\ Tail(s)[i - 1] = op
    BY <1>1, <2>1
  <2> QED BY <1>1, <2>1, <2>2 DEF In
<1>3. ASSUME op = Head(s) PROVE In(op, s)
  BY <1>1, <1>3 DEF In
<1>4. ASSUME In(op, Tail(s)) PROVE In(op, s)
  <2>1. PICK i \in 1..Len(Tail(s)) : Tail(s)[i] = op
    BY <1>4 DEF In
  <2>2. i + 1 \in 1..Len(s) /\ s[i + 1] = op
    BY <1>1, <2>1
  <2> QED BY <2>2 DEF In
<1> QED BY <1>2, <1>3, <1>4

\* What a node that sends adds to what is on its way.
LEMMA SendsAdds ==
    ASSUME TypeOK, NEW n \in Node, NEW ms \in Seq(Op), Sends(n, ms)
    PROVE  /\ chan'[n] = chan[n]
           /\ ~linked => chan' = chan
           /\ linked => /\ \A op : In(op, chan'[Other(n)]) <=> In(op, chan[Other(n)]) \/ In(op, ms)
                        /\ chan[Other(n)] = <<>> => chan'[Other(n)] = ms
                        /\ chan[Other(n)] # <<>> => /\ chan'[Other(n)] # <<>>
                                                    /\ Head(chan'[Other(n)]) = Head(chan[Other(n)])
<1>1. chan \in [Node -> Seq(Op)] /\ Other(n) \in Node /\ Other(n) # n
  BY Types, Others
<1>2. CASE ~linked
  BY <1>2 DEF Sends
<1>3. CASE linked
  <2> DEFINE c == chan[Other(n)]
  <2>1. chan'[Other(n)] = c \o ms /\ chan'[n] = chan[n] /\ c \in Seq(Op)
    BY <1>1, <1>3 DEF Sends
  <2> HIDE DEF c
  <2>2. \A op : In(op, c \o ms) <=> In(op, c) \/ In(op, ms)
    BY <2>1, InAppended
  <2>3. c = <<>> => c \o ms = ms
    BY <2>1
  <2>4. c # <<>> => c \o ms # <<>> /\ Head(c \o ms) = Head(c)
    BY <2>1
  <2> QED BY <1>3, <2>1, <2>2, <2>3, <2>4 DEF c
<1> QED BY <1>2, <1>3

LEMMA SendsNothing ==
    ASSUME TypeOK, NEW n \in Node, Sends(n, <<>>)
    PROVE  chan' = chan
<1>1. chan \in [Node -> Seq(Op)] /\ Other(n) \in Node
  BY Types, Others
<1>2. chan[Other(n)] \o <<>> = chan[Other(n)]
  <2>1. chan[Other(n)] \in Seq(Op)
    BY <1>1
  <2> QED BY <2>1
<1>3. CASE linked
  <2>1. chan' = [chan EXCEPT ![Other(n)] = chan[Other(n)]]
    BY <1>2, <1>3 DEF Sends
  <2> QED BY <1>1, <2>1
<1>4. CASE ~linked
  BY <1>4 DEF Sends
<1> QED BY <1>3, <1>4

\* What a node sends where the order does not matter: one op.
LEMMA SendsOne ==
    ASSUME TypeOK, NEW n \in Node, NEW o \in Op, Sends(n, <<o>>)
    PROVE  /\ chan'[n] = chan[n]
           /\ ~linked => chan' = chan
           /\ linked => /\ \A op : In(op, chan'[Other(n)]) <=> In(op, chan[Other(n)]) \/ op = o
                        /\ chan'[Other(n)] # <<>>
                        /\ Head(chan'[Other(n)]) = IF chan[Other(n)] = <<>> THEN o
                                                                            ELSE Head(chan[Other(n)])
<1>1. <<o>> \in Seq(Op) /\ <<o>> # <<>> /\ Head(<<o>>) = o /\ Len(<<o>>) = 1 /\ <<o>>[1] = o
  OBVIOUS
<1>2. \A op : In(op, <<o>>) <=> op = o
  BY <1>1 DEF In
<1> QED BY <1>1, <1>2, SendsAdds

LEMMA TakenFrom ==
    ASSUME TypeOK, NEW n \in Node, chan[n] # <<>>, chan' = [chan EXCEPT ![n] = Tail(@)]
    PROVE  /\ chan'[Other(n)] = chan[Other(n)]
           /\ Head(chan[n]) \in Op
           /\ \A op : In(op, chan[n]) <=> op = Head(chan[n]) \/ In(op, chan'[n])
<1>1. chan[n] \in Seq(Op) /\ chan \in [Node -> Seq(Op)] /\ Other(n) \in Node /\ Other(n) # n
  BY Types, Others
<1>2. chan'[n] = Tail(chan[n]) /\ chan'[Other(n)] = chan[Other(n)]
  BY <1>1
<1>3. Head(chan[n]) \in Op
  BY <1>1
<1>4. \A op : In(op, chan[n]) <=> op = Head(chan[n]) \/ In(op, Tail(chan[n]))
  BY <1>1, InTaken
<1> QED BY <1>2, <1>3, <1>4


-----------------------------------------------------------------------------
(* What the nodes were started with.                                       *)

LEMMA ConfigTypes == ASSUME TypeOK PROVE cfg \in [Node -> Config]
BY LifecycleAssumption, Types

\* "every refusal rule is symmetric".
LEMMA FitsBothWays ==
    ASSUME TypeOK, NEW n \in Node
    PROVE  Fits(cfg[n], cfg[Other(n)]) <=> Fit
<1>1. A \in Node /\ B \in Node /\ Other(A) = B /\ Other(B) = A
  BY LifecycleAssumption DEF Node, Other
<1>2. cfg[A] \in Config /\ cfg[B] \in Config
  BY <1>1, ConfigTypes
<1>3. \A p \in ConflictPolicy, q \in ConflictPolicy : p = Complement(q) <=> q = Complement(p)
  BY DEF ConflictPolicy, Complement
<1>4. Fits(cfg[B], cfg[A]) <=> Fits(cfg[A], cfg[B])
  BY <1>2, <1>3 DEF Fits, Config
<1>5. n = A \/ n = B
  BY DEF Node
<1> QED BY <1>1, <1>4, <1>5 DEF Fit

LEMMA CompatibleAre == ASSUME TypeOK PROVE Compatible <=> Open /\ Fit
<1>1. cfg[A] \in Config /\ cfg[B] \in Config
  BY ConfigTypes DEF Node
<1>2. \A p \in ConflictPolicy, q \in ConflictPolicy : p = Complement(q) <=> q = Complement(p)
  BY DEF ConflictPolicy, Complement
<1> QED BY <1>1, <1>2 DEF Compatible, Open, Fit, Fits, Config

LEMMA PairSame == ASSUME cfg' = cfg PROVE (Open' <=> Open) /\ (Fit' <=> Fit)
BY Zenon DEF Open, Fit, Fits

LEMMA OpenIgnores ==
    ASSUME TypeOK, Open, NEW n \in Node
    PROVE  Ignored(n) <=> ~Serving(n)
<1>1. cfg[n].allows
  BY DEF Open, Node
<1> QED BY <1>1 DEF Ignored

\* A node that has been told to stop does not go on again.
LEMMA ServingFalls ==
    ASSUME TypeOK, NEW n \in Node, Acts(n)
    PROVE  \A k \in Node : Serving(k)' => Serving(k)
<1>1. \A k \in Node : k # n => main'[k] = main[k]
  BY ActsLocally
<1>2. CASE \/ Take(n) \/ Start(n) \/ Spawn(n) \/ Inert(n) \/ HandleHello(n) \/ HandleSimple(n)
           \/ HandleFileStart(n) \/ CreatePart(n) \/ Register(n) \/ HandleFileEnd(n) \/ Prune(n) \/ Move(n)
  <2>1. main' = main
    BY <1>2, TakeDoes, StartDoes, SpawnDoes, InertDoes, HelloDoes, SimpleDoes, FileStartDoes, CreatePartDoes,
       RegisterDoes, FileEndDoes, PruneDoes, MoveDoes
  <2> QED BY <2>1 DEF Serving
<1>3. CASE Leave(n) \/ Stopped(n) \/ Greet(n) \/ Ignore(n) \/ Serve(n)
  <2>1. main' = main
    BY <1>3, LeaveDoes, StoppedDoes, GreetDoes, IgnoreDoes, ServeDoes
  <2> QED BY <2>1 DEF Serving
<1>4. CASE Erase(n) \/ Notify(n) \/ LocalChanged(n) \/ Speak(n) \/ LateChanged(n)
  <2>1. main'[n] = main[n] \/ main[n] \in {"run", "call", "speak", "stale"}
    BY <1>4, EraseDoes, NotifyDoes, LocalChangedDoes, SpeakDoes, LateChangedDoes
  <2> QED BY <1>1, <2>1 DEF Serving
<1>5. CASE Shutdown(n) \/ StopFlag(n) \/ StopJoin(n) \/ Clean(n)
  <2>1. main'[n] \in {"flag", "join", "clean", "left"}
    BY <1>5, ShutdownDoes, StopFlagDoes, StopJoinDoes, CleanDoes
  <2> QED BY <1>1, <2>1 DEF Serving
<1> QED BY <1>2, <1>3, <1>4, <1>5 DEF Acts, Reacts, Handle, Tells

\* Where one of the nodes does not allow the other, the only acts are to greet, to ignore, to
\* hear of the connection and to shut down.
LEMMA ClosedKept ==
    ASSUME TypeOK, NEW n \in Node, Local(n), \A k \in Node : Closed(k), Acts(n)
    PROVE  \A k \in Node : Closed(k)'
<1>1. (Open' <=> Open) /\ (Fit' <=> Fit) /\ cfg' = cfg
  BY ActsLocally, PairSame
<1> SUFFICES ASSUME ~Open PROVE \A k \in Node : Closed(k)'
  BY <1>1, Zenon DEF Closed
<1>2. \A k \in Node : /\ ses[k] = NoSession /\ reactor[k] = Idle
                      /\ chan[k] # <<>> => ~cfg[k].allows
                      /\ main[k] \notin {"call", "speak", "stale"}
  BY DEF Closed
<1>3. ses[n].at = "none" /\ ses[n].serves = 0 /\ reactor[n].at = "idle"
  BY <1>2, FreshSessions, IdleParts
<1>4. \/ Greet(n) \/ Ignore(n) \/ Erase(n) \/ Shutdown(n) \/ Clean(n)
  <2>1. ~Take(n)
    BY <1>2, TakeDoes DEF Ignored
  <2>2. ~(\/ Start(n) \/ Spawn(n) \/ Inert(n) \/ HandleHello(n) \/ HandleSimple(n)
          \/ HandleFileStart(n) \/ CreatePart(n) \/ Register(n) \/ HandleFileEnd(n) \/ Prune(n) \/ Move(n))
    BY <1>3, StartDoes, SpawnDoes, InertDoes, HelloDoes, SimpleDoes, FileStartDoes, CreatePartDoes,
       RegisterDoes, FileEndDoes, PruneDoes, MoveDoes
  <2>3. ~(Leave(n) \/ Stopped(n) \/ Serve(n) \/ Notify(n) \/ LocalChanged(n) \/ Speak(n) \/ LateChanged(n))
    BY <1>2, <1>3, LeaveDoes, StoppedDoes, ServeDoes, NotifyDoes, LocalChangedDoes, SpeakDoes, LateChangedDoes
  <2>4. ~(StopFlag(n) \/ StopJoin(n))
    BY <1>3, StopFlagDoes, StopJoinDoes DEF Local, Life
  <2> QED BY <2>1, <2>2, <2>3, <2>4 DEF Acts, Reacts, Handle, Tells
<1>5. \A k \in Node : /\ ses'[k] = NoSession /\ reactor'[k] = Idle
                      /\ main'[k] \notin {"call", "speak", "stale"}
  <2>1. ses'[n] = NoSession /\ reactor'[n] = Idle /\ main'[n] \notin {"call", "speak", "stale"}
    BY <1>2, <1>3, <1>4, GreetDoes, IgnoreDoes, EraseDoes, ShutdownDoes, CleanDoes
  <2> QED BY <1>2, <2>1, ActsLocally
<1>6. \A k \in Node : chan'[k] # <<>> => ~cfg[k].allows
  <2>1. CASE Greet(n)
    <3>1. CASE Ignored(n)
      <4>1. Sends(n, <<>>)
        BY <2>1, <3>1 DEF Greet
      <4> QED BY <1>2, <4>1, SendsNothing
    <3>2. CASE ~Ignored(n)
      <4>1. Sends(n, <<"Hello">>) /\ "Hello" \in Op /\ cfg[n].allows
        BY <2>1, <3>2 DEF Greet, Op, Ignored
      <4>2. ~cfg[Other(n)].allows
        BY <4>1 DEF Open, Node, Other
      <4>3. chan'[n] = chan[n] /\ \A k \in Node : k = n \/ k = Other(n)
        BY <4>1, SendsOne, Others
      <4> QED BY <1>2, <4>2, <4>3
    <3> QED BY <3>1, <3>2
  <2>2. CASE Ignore(n)
    <3>1. chan[n] # <<>> /\ chan' = [chan EXCEPT ![n] = Tail(@)]
      BY <2>2, IgnoreDoes
    <3>2. \A k \in Node : k # n => chan'[k] = chan[k]
      BY <3>1, Types
    <3> QED BY <1>2, <3>1, <3>2
  <2>3. CASE Erase(n) \/ Shutdown(n) \/ Clean(n)
    <3>1. chan' = chan
      BY <2>3, EraseDoes, ShutdownDoes, CleanDoes
    <3> QED BY <1>2, <3>1
  <2> QED BY <1>4, <2>1, <2>2, <2>3
<1> QED BY <1>1, <1>5, <1>6 DEF Closed


-----------------------------------------------------------------------------
(* The exchange, where n does nothing about it.                            *)

\* Nothing is sent or taken, and what n has said and learnt stays, if it goes on at all.
Aside(n) ==
    /\ chan' = chan /\ news' = news /\ late' = late
    /\ ses'[n].known => ses[n].known
    /\ ses'[n].inert => ses[n].inert
    /\ ses'[n].serves = ses[n].serves \/ ses'[n].serves = 0
    /\ Before(n)' => Before(n) /\ reactor'[n].op = reactor[n].op /\ (ses[n].inert => ses'[n].inert)
    /\ reactor[n] = Idle => reactor'[n] = Idle
    /\ Serving(n)' => /\ ses'[n].at = ses[n].at /\ Dealings(ses[n], ses'[n])
                      /\ Before(n) /\ reactor[n].op \in Polite =>
                             Before(n)' /\ reactor'[n].op = reactor[n].op

LEMMA Asides ==
    ASSUME TypeOK, NEW n \in Node, Local(n),
           \/ Start(n) \/ Spawn(n) \/ HandleFileStart(n) \/ HandleFileEnd(n) \/ CreatePart(n)
           \/ Register(n) \/ Move(n) \/ Prune(n) \/ Leave(n) \/ Notify(n) \/ LocalChanged(n)
           \/ Shutdown(n) \/ StopFlag(n) \/ StopJoin(n) \/ Clean(n)
    PROVE  Aside(n)
<1> USE Types, FreshSessions, IdleParts DEF Aside, Before, Dealings, Place, Files
<1>1. CASE Start(n)
  BY <1>1, StartDoes
<1>2. CASE Spawn(n)
  BY <1>2, SpawnDoes
<1>3. CASE HandleFileStart(n)
  BY <1>3, FileStartDoes DEF Polite
<1>4. CASE HandleFileEnd(n)
  BY <1>4, FileEndDoes DEF Polite
<1>5. CASE CreatePart(n)
  <2>1. reactor[n].at = "create" /\ reactor'[n].at \in {"leave", "register"}
    BY <1>5, CreatePartDoes
  <2>2. UNCHANGED <<ses, chan, news, late>>
    BY <1>5, CreatePartDoes
  <2> QED BY <2>1, <2>2
<1>6. CASE Register(n)
  BY <1>6, RegisterDoes
<1>7. CASE Move(n)
  <2>1. reactor[n].at = "move" /\ reactor'[n].at \in {"leave", "prune"}
    BY <1>7, MoveDoes
  <2>2. /\ Place(ses[n], ses'[n]) /\ Dealings(ses[n], ses'[n]) /\ ses'[n].serves = ses[n].serves
        /\ UNCHANGED <<chan, news, late>>
    BY <1>7, MoveDoes
  <2> QED BY <2>1, <2>2
<1>8. CASE Prune(n)
  BY <1>8, PruneDoes
<1>9. CASE Leave(n)
  <2>1. main' = main /\ reactor[n].at = "leave"
    BY <1>9, LeaveDoes
  <2>2. Serving(n)' => ses' = ses
    BY <1>9, <2>1, LeaveDoes DEF Local, Life, Serving
  <2> QED BY <1>9, <2>1, <2>2, LeaveDoes
<1>10. CASE Notify(n)
  BY <1>10, NotifyDoes
<1>11. CASE LocalChanged(n)
  BY <1>11, LocalChangedDoes
<1>12. CASE Shutdown(n)
  BY <1>12, ShutdownDoes DEF Serving
<1>13. CASE StopFlag(n)
  BY <1>13, StopFlagDoes DEF Serving
<1>14. CASE StopJoin(n)
  BY <1>14, StopJoinDoes DEF Serving
<1>15. CASE Clean(n)
  BY <1>15, CleanDoes DEF Serving
<1> QED BY <1>1, <1>2, <1>3, <1>4, <1>5, <1>6, <1>7, <1>8, <1>9, <1>10, <1>11, <1>12, <1>13, <1>14, <1>15

\* What n does leaves the other node as it is.
LEMMA OtherSame ==
    ASSUME TypeOK, NEW n \in Node, Acts(n)
    PROVE  /\ Other(n) \in Node /\ Other(n) # n /\ Other(Other(n)) = n
           /\ ses'[Other(n)] = ses[Other(n)] /\ reactor'[Other(n)] = reactor[Other(n)]
           /\ main'[Other(n)] = main[Other(n)] /\ news'[Other(n)] = news[Other(n)]
           /\ cfg' = cfg /\ linked' = linked /\ (Open' <=> Open) /\ (Fit' <=> Fit)
           /\ Serving(Other(n))' <=> Serving(Other(n))
           /\ Before(Other(n))' <=> Before(Other(n))
           /\ Serving(n)' => Serving(n)
           /\ (late => late')
           /\ Together' => Together
<1>1. Other(n) \in Node /\ Other(n) # n /\ Other(Other(n)) = n
  BY Others
<1>2. /\ ses'[Other(n)] = ses[Other(n)] /\ reactor'[Other(n)] = reactor[Other(n)]
      /\ main'[Other(n)] = main[Other(n)] /\ news'[Other(n)] = news[Other(n)]
      /\ cfg' = cfg /\ linked' = linked /\ (late => late')
  BY <1>1, ActsLocally DEF Monotone
<1>3. (Open' <=> Open) /\ (Fit' <=> Fit)
  BY <1>2, PairSame
<1>4. /\ Serving(Other(n))' <=> Serving(Other(n))
      /\ Before(Other(n))' <=> Before(Other(n))
  BY <1>2 DEF Serving, Before
<1>5. A \in Node /\ B \in Node /\ \A k \in Node : Serving(k)' => Serving(k)
  BY ServingFalls DEF Node
<1>6. Together' => Together
  BY <1>2, <1>3, <1>5, Zenon DEF Together
<1> QED BY <1>1, <1>2, <1>3, <1>4, <1>5, <1>6

LEMMA AsideKeeps ==
    ASSUME TypeOK, NEW n \in Node, Acts(n), Aside(n), \A k \in Node : Exchange(k)
    PROVE  \A k \in Node : Stranger(k)' /\ Friend(k)' /\ Greeted(k)' /\ Described(k)'
<1> DEFINE m == Other(n)
<1>1. /\ m \in Node /\ m # n /\ Other(m) = n
      /\ ses'[m] = ses[m] /\ reactor'[m] = reactor[m] /\ news'[m] = news[m] /\ linked' = linked
      /\ (Open' <=> Open) /\ (Fit' <=> Fit) /\ (Serving(m)' <=> Serving(m)) /\ (Before(m)' <=> Before(m))
      /\ Serving(n)' => Serving(n)
      /\ Together' => Together
  BY OtherSame
<1>2. Other(n) = m
  OBVIOUS
<1>3. /\ Stranger(n) /\ Friend(n) /\ Greeted(n) /\ Described(n)
      /\ Stranger(m) /\ Friend(m) /\ Greeted(m) /\ Described(m)
  BY <1>1 DEF Exchange
<1>4. Together' => Serving(n)' /\ Serving(m)'
  BY <1>1, Others DEF Together, Node
<1> HIDE DEF m
<1>5. /\ chan' = chan /\ news' = news /\ late' = late
      /\ ses'[n].known => ses[n].known
      /\ ses'[n].inert => ses[n].inert
      /\ ses'[n].serves = ses[n].serves \/ ses'[n].serves = 0
      /\ Before(n)' => Before(n) /\ reactor'[n].op = reactor[n].op /\ (ses[n].inert => ses'[n].inert)
      /\ reactor[n] = Idle => reactor'[n] = Idle
  BY DEF Aside
<1>6. Serving(n)' => /\ ses'[n].at = ses[n].at
                     /\ (ses'[n].inert <=> ses[n].inert) /\ (ses'[n].told <=> ses[n].told)
                     /\ (ses'[n].known <=> ses[n].known)
                     /\ Before(n) /\ reactor[n].op \in Polite =>
                            Before(n)' /\ reactor'[n].op = reactor[n].op
  BY DEF Aside, Dealings
<1>7. "Hello" \in Polite /\ "Bye" \in Polite /\ "ManifestUpdate" \in Polite
  BY DEF Polite
<1>8. /\ \A op : Looks(n, op)' => Looks(n, op)
      /\ Serving(n)' => \A op \in Polite : Looks(n, op) => Looks(n, op)'
      /\ \A op : Looks(m, op)' <=> Looks(m, op)
  BY <1>1, <1>5, <1>6 DEF Looks
<1>9. Stranger(n)'
  <2>1. Serving(n)' /\ linked' /\ FirstHello(n) => FirstHello(n)'
    BY <1>1, <1>2, <1>5, <1>6, <1>7, <1>8 DEF FirstHello, Silent
  <2> QED BY <1>1, <1>3, <1>5, <1>6, <2>1 DEF Stranger
<1>10. Stranger(m)'
  <2>1. Silent(n) => Silent(n)'
    BY <1>1, <1>5 DEF Silent
  <2>2. FirstHello(m) => FirstHello(m)'
    BY <1>1, <1>5, <1>8, <2>1 DEF FirstHello
  <2> QED BY <1>1, <1>3, <1>5, <2>2 DEF Stranger
<1>11. Friend(n)' /\ Friend(m)'
  BY <1>1, <1>3, <1>5, <1>8 DEF Friend
<1>12. Greeted(n)' /\ Greeted(m)'
  BY <1>1, <1>2, <1>3, <1>4, <1>5, <1>6, <1>7, <1>8 DEF Greeted
<1>13. Described(n)' /\ Described(m)'
  BY <1>1, <1>2, <1>3, <1>4, <1>5, <1>6, <1>7, <1>8 DEF Described
<1> QED BY <1>1, <1>9, <1>10, <1>11, <1>12, <1>13, Others DEF m


-----------------------------------------------------------------------------
(* The exchange, action by action.                                         *)

\* The reactor takes what is first on its way.
LEMMA TakeKeeps ==
    ASSUME TypeOK, Quiet, NEW n \in Node, \A k \in Node : Local(k) /\ Exchange(k), Take(n)
    PROVE  \A k \in Node : Stranger(k)' /\ Friend(k)' /\ Greeted(k)' /\ Described(k)'
<1> DEFINE m == Other(n)
           op == Head(chan[n])
<1>0. Acts(n)
  BY DEF Acts, Reacts
<1>1. /\ m \in Node /\ m # n /\ Other(m) = n
      /\ ses'[m] = ses[m] /\ reactor'[m] = reactor[m] /\ news'[m] = news[m] /\ linked' = linked
      /\ (Open' <=> Open) /\ (Fit' <=> Fit) /\ (Serving(m)' <=> Serving(m)) /\ (Before(m)' <=> Before(m))
      /\ Serving(n)' => Serving(n)
      /\ Together' => Together
  BY <1>0, OtherSame
<1>2. /\ Other(n) = m
      /\ chan'[m] = chan[m] /\ op \in Op
      /\ \A o : In(o, chan[n]) <=> o = op \/ In(o, chan'[n])
  BY TakeDoes, TakenFrom
<1>3. /\ Stranger(n) /\ Friend(n) /\ Greeted(n) /\ Described(n)
      /\ Stranger(m) /\ Friend(m) /\ Greeted(m) /\ Described(m)
  BY <1>1 DEF Exchange
<1>4. /\ reactor[n] = Idle /\ news[n] = "none" /\ chan[n] # <<>> /\ Serving(n)
      /\ news' = news /\ late' = late /\ main' = main
      /\ reactor'[n].at \in {"start", "handle"} /\ reactor'[n].op = op
      /\ reactor[n].at = "idle" /\ reactor[n].op = "none"
  BY TakeDoes, IdleParts
<1>5. linked
  BY <1>4 DEF Quiet
<1>6. /\ ses[n].at = "table" \/ ses[n].at = "none"
      /\ ses'[n].at = "table" /\ (ses'[n].inert <=> ses[n].inert) /\ (ses'[n].told <=> ses[n].told)
      /\ (ses'[n].known <=> ses[n].known) /\ ses'[n].serves = ses[n].serves
  <2>1. Life(n) /\ ses[n].at \in {"none", "table", "loose"}
    BY Types DEF Local, SessionState
  <2>2. ses[n].at = "table" \/ ses[n] = NoSession
    BY <1>4, <2>1 DEF Life
  <2>3. ses'[n] = IF ses[n].at = "table" THEN ses[n] ELSE NewSession
    BY TakeDoes
  <2> QED BY <2>2, <2>3, FreshSessions
<1> HIDE DEF m, op
<1>7. /\ Before(n)' /\ ~Before(n)
      /\ \A o : ~Looks(n, o) /\ (Looks(n, o)' <=> o = op)
      /\ \A o : Looks(m, o)' <=> Looks(m, o)
  BY <1>1, <1>4 DEF Looks, Before
<1>8. Stranger(n)'
  <2> SUFFICES ASSUME Open', ~Fit', ~late'
               PROVE  /\ ~ses'[n].known /\ ses'[n].serves = 0
                      /\ \A o \in Op : In(o, chan'[n]) => o \in Polite
                      /\ reactor'[n].op \in Polite
                      /\ reactor'[n].op # "Hello" => ses'[n].inert
                      /\ FirstHello(n)'
    BY DEF Stranger
  <2>1. /\ ~ses[n].known /\ ses[n].serves = 0 /\ FirstHello(n)
        /\ \A o \in Op : In(o, chan[n]) => o \in Polite
    BY <1>1, <1>3, <1>4, <1>5 DEF Stranger
  <2>2. ses[n].inert \/ op = "Hello"
    BY <1>4, <1>7, <2>1 DEF FirstHello, op
  <2> QED BY <1>2, <1>4, <1>6, <1>7, <2>1, <2>2 DEF FirstHello
<1>9. Stranger(m)'
  <2>1. FirstHello(m) => FirstHello(m)'
    BY <1>1, <1>2, <1>4, <1>7 DEF FirstHello, Silent
  <2> QED BY <1>1, <1>2, <1>3, <1>4, <2>1 DEF Stranger
<1>10. Friend(n)' /\ Friend(m)'
  BY <1>1, <1>2, <1>3, <1>6, <1>7 DEF Friend
<1>11. Greeted(n)' /\ Greeted(m)'
  BY <1>1, <1>2, <1>3, <1>4, <1>6, <1>7 DEF Greeted
<1>12. Described(n)' /\ Described(m)'
  <2>1. ~ses[n].told \/ ses[n].at = "table"
    BY <1>6, FreshSessions DEF Local, Life
  <2> QED BY <1>1, <1>2, <1>3, <1>4, <1>6, <1>7, <2>1 DEF Described
<1> QED BY <1>8, <1>9, <1>10, <1>11, <1>12, <1>1, Others DEF m

\* An inert session reacts to nothing.
LEMMA InertKeeps ==
    ASSUME TypeOK, NEW n \in Node, \A k \in Node : Local(k) /\ Exchange(k), Inert(n)
    PROVE  \A k \in Node : Stranger(k)' /\ Friend(k)' /\ Greeted(k)' /\ Described(k)'
<1> DEFINE m == Other(n)
<1>0. Acts(n)
  BY DEF Acts, Reacts, Handle
<1>1. /\ m \in Node /\ m # n /\ Other(m) = n
      /\ ses'[m] = ses[m] /\ reactor'[m] = reactor[m] /\ news'[m] = news[m] /\ linked' = linked
      /\ (Open' <=> Open) /\ (Fit' <=> Fit) /\ (Serving(m)' <=> Serving(m)) /\ (Before(m)' <=> Before(m))
      /\ Serving(n)' => Serving(n)
      /\ Together' => Together
  BY <1>0, OtherSame
<1>2. /\ Other(n) = m
      /\ reactor[n].at = "handle" /\ reactor'[n].at = "leave" /\ ses[n].inert
      /\ chan' = chan /\ news' = news /\ late' = late /\ ses' = ses /\ main' = main
  BY InertDoes
<1>3. /\ Stranger(n) /\ Friend(n) /\ Greeted(n) /\ Described(n)
      /\ Stranger(m) /\ Friend(m) /\ Greeted(m) /\ Described(m)
  BY <1>1 DEF Exchange
<1>4. Serving(n) => ses[n].at = "table"
  <2>1. Life(n) /\ ses[n].at \in {"none", "table", "loose"}
    BY Types DEF Local, SessionState
  <2> QED BY <1>2, <2>1 DEF Life
<1>5. Together => Serving(n) /\ Serving(m)
  BY <1>1, Others DEF Together, Node
<1> HIDE DEF m
<1>6. /\ Before(n) /\ ~Before(n)' /\ \A o : ~Looks(n, o)'
      /\ \A o : Looks(m, o)' <=> Looks(m, o)
      /\ reactor[n] # Idle
  BY <1>1, <1>2, IdleParts DEF Looks, Before
<1>7. Stranger(n)' /\ Stranger(m)'
  <2>1. Serving(n) => FirstHello(n)'
    BY <1>2, <1>4 DEF FirstHello
  <2>2. FirstHello(m) => FirstHello(m)'
    BY <1>1, <1>2, <1>6 DEF FirstHello, Silent
  <2> QED BY <1>1, <1>2, <1>3, <1>6, <2>1, <2>2 DEF Stranger
<1>8. Friend(n)' /\ Friend(m)'
  BY <1>1, <1>2, <1>3, <1>6 DEF Friend
<1>9. Greeted(n)' /\ Greeted(m)'
  BY <1>1, <1>2, <1>3, <1>4, <1>5, <1>6 DEF Greeted, Friend, Together
<1>10. Described(n)' /\ Described(m)'
  BY <1>1, <1>2, <1>3, <1>6 DEF Described, Friend, Together
<1> QED BY <1>7, <1>8, <1>9, <1>10, <1>1, Others DEF m


\* A Hello that fits is answered with the tree, one that does not with a refusal.
LEMMA HelloKeeps ==
    ASSUME TypeOK, NEW n \in Node, \A k \in Node : Local(k) /\ Exchange(k), HandleHello(n)
    PROVE  \A k \in Node : Stranger(k)' /\ Friend(k)' /\ Greeted(k)' /\ Described(k)'
<1> DEFINE m == Other(n)
<1>0. Acts(n)
  BY DEF Acts, Reacts, Handle
<1>1. /\ m \in Node /\ m # n /\ Other(m) = n
      /\ ses'[m] = ses[m] /\ reactor'[m] = reactor[m] /\ news'[m] = news[m] /\ linked' = linked
      /\ (Open' <=> Open) /\ (Fit' <=> Fit) /\ (Serving(m)' <=> Serving(m)) /\ (Before(m)' <=> Before(m))
      /\ Serving(n)' => Serving(n)
      /\ Together' => Together
  BY <1>0, OtherSame
<1>2. /\ Other(n) = m
      /\ reactor[n].at = "handle" /\ reactor[n].op = "Hello" /\ reactor'[n].at = "leave"
      /\ news' = news /\ late' = late /\ main' = main
      /\ ses'[n].at = ses[n].at /\ (ses'[n].known <=> ses[n].known) /\ ses'[n].serves = ses[n].serves
      /\ ~ses[n].inert
  BY HelloDoes DEF Place, Files
<1>3. /\ Stranger(n) /\ Friend(n) /\ Greeted(n) /\ Described(n)
      /\ Stranger(m) /\ Friend(m) /\ Greeted(m) /\ Described(m)
  BY <1>1 DEF Exchange
<1>4. Serving(n) => ses[n].at = "table"
  <2>1. Life(n) /\ ses[n].at \in {"none", "table", "loose"}
    BY Types DEF Local, SessionState
  <2> QED BY <1>2, <2>1 DEF Life
<1>5. Together => Serving(n) /\ Serving(m) /\ linked /\ Open
  BY <1>1, Others DEF Together, Node
<1>6. ~Fit => /\ ses'[n].inert /\ (ses'[n].told <=> ses[n].told)
              /\ chan'[n] = chan[n] /\ (~linked => chan' = chan)
              /\ linked => /\ \A op : In(op, chan'[m]) <=> In(op, chan[m]) \/ op = "Bye"
                           /\ chan'[m] # <<>>
                           /\ chan[m] # <<>> => Head(chan'[m]) = Head(chan[m])
  <2> SUFFICES ASSUME ~Fit
               PROVE  /\ ses'[n].inert /\ (ses'[n].told <=> ses[n].told)
                      /\ chan'[n] = chan[n] /\ (~linked => chan' = chan)
                      /\ linked => /\ \A op : In(op, chan'[m]) <=> In(op, chan[m]) \/ op = "Bye"
                                   /\ chan'[m] # <<>>
                                   /\ chan[m] # <<>> => Head(chan'[m]) = Head(chan[m])
    OBVIOUS
  <2>1. ses'[n].inert /\ (ses'[n].told <=> ses[n].told) /\ Sends(n, <<"Bye">>)
    BY FitsBothWays, HelloDoes
  <2>2. "Bye" \in Op
    BY DEF Op
  <2> QED BY <2>1, <2>2, SendsOne
<1>7. Fit => /\ ses'[n].told /\ ~ses'[n].inert /\ chan'[n] = chan[n]
             /\ \/ ses[n].told /\ chan' = chan
                \/ /\ ~linked => chan' = chan
                   /\ linked => \A op : In(op, chan'[m]) <=> In(op, chan[m]) \/ op = "ManifestUpdate"
  <2> SUFFICES ASSUME Fit
               PROVE  /\ ses'[n].told /\ ~ses'[n].inert /\ chan'[n] = chan[n]
                      /\ \/ ses[n].told /\ chan' = chan
                         \/ /\ ~linked => chan' = chan
                            /\ linked => \A op : In(op, chan'[m]) <=> In(op, chan[m]) \/ op = "ManifestUpdate"
    OBVIOUS
  <2>1. ses'[n].told /\ ~ses'[n].inert /\ Sends(n, IF ses[n].told THEN <<>> ELSE <<"ManifestUpdate">>)
    BY FitsBothWays, HelloDoes
  <2>2. "ManifestUpdate" \in Op
    BY DEF Op
  <2>3. CASE ses[n].told
    BY <2>1, <2>3, SendsNothing
  <2>4. CASE ~ses[n].told
    <3>1. Sends(n, <<"ManifestUpdate">>)
      BY <2>1, <2>4
    <3> QED BY <2>1, <2>2, <3>1, SendsOne
  <2> QED BY <2>3, <2>4
<1> HIDE DEF m
<1>8. /\ Before(n) /\ ~Before(n)' /\ \A o : ~Looks(n, o)' /\ (Looks(n, o) <=> o = "Hello")
      /\ \A o : Looks(m, o)' <=> Looks(m, o)
      /\ reactor[n] # Idle
  BY <1>1, <1>2, IdleParts DEF Looks, Before
<1>9. "Bye" \in Polite /\ news[n] # "up"
  <2>1. Life(n)
    BY DEF Local
  <2> QED BY <1>2, <2>1 DEF Polite, Life
<1>10. Stranger(n)'
  <2>1. ~Fit /\ Serving(n) => FirstHello(n)'
    BY <1>2, <1>4, <1>6 DEF FirstHello
  <2> QED BY <1>1, <1>2, <1>3, <1>6, <1>8, <2>1 DEF Stranger
<1>11. Stranger(m)'
  <2>1. ~Fit /\ linked /\ FirstHello(m) => FirstHello(m)'
    BY <1>1, <1>2, <1>6, <1>8, <1>9 DEF FirstHello, Silent
  <2> QED BY <1>1, <1>2, <1>3, <1>6, <1>9, <2>1 DEF Stranger
<1>12. Friend(n)' /\ Friend(m)'
  BY <1>1, <1>3, <1>7, <1>8 DEF Friend
<1>13. Greeted(n)'
  BY <1>1, <1>2, <1>4, <1>5, <1>6, <1>7 DEF Greeted
<1>14. Greeted(m)'
  BY <1>1, <1>2, <1>3, <1>5, <1>6, <1>7, <1>8 DEF Greeted
<1>15. Described(n)'
  BY <1>1, <1>2, <1>3, <1>4, <1>5, <1>7, <1>8 DEF Described
<1>16. Described(m)'
  BY <1>1, <1>2, <1>3, <1>5, <1>7, <1>8 DEF Described
<1> QED BY <1>10, <1>11, <1>12, <1>13, <1>14, <1>15, <1>16, <1>1, Others DEF m

\* A tree is taken, a request queued, or the peer has refused.
LEMMA SimpleKeeps ==
    ASSUME TypeOK, NEW n \in Node, \A k \in Node : Local(k) /\ Exchange(k), HandleSimple(n)
    PROVE  \A k \in Node : Stranger(k)' /\ Friend(k)' /\ Greeted(k)' /\ Described(k)'
<1> DEFINE m == Other(n)
<1>0. Acts(n)
  BY DEF Acts, Reacts, Handle
<1>1. /\ m \in Node /\ m # n /\ Other(m) = n
      /\ ses'[m] = ses[m] /\ reactor'[m] = reactor[m] /\ news'[m] = news[m] /\ linked' = linked
      /\ (Open' <=> Open) /\ (Fit' <=> Fit) /\ (Serving(m)' <=> Serving(m)) /\ (Before(m)' <=> Before(m))
      /\ Serving(n)' => Serving(n)
      /\ Together' => Together
  BY <1>0, OtherSame
<1>2. /\ Other(n) = m
      /\ reactor[n].at = "handle" /\ reactor'[n].at = "leave"
      /\ chan' = chan /\ news' = news /\ late' = late /\ main' = main
      /\ ses'[n].at = ses[n].at /\ (ses'[n].told <=> ses[n].told) /\ ~ses[n].inert
  BY SimpleDoes DEF Place
<1>3. /\ Stranger(n) /\ Friend(n) /\ Greeted(n) /\ Described(n)
      /\ Stranger(m) /\ Friend(m) /\ Greeted(m) /\ Described(m)
  BY <1>1 DEF Exchange
<1>4. \/ reactor[n].op = "ManifestUpdate" /\ ses'[n].known /\ ~ses'[n].inert
      \/ reactor[n].op = "Request" /\ (ses'[n].known <=> ses[n].known) /\ ~ses'[n].inert
      \/ reactor[n].op = "Bye" /\ (ses'[n].known <=> ses[n].known)
  BY SimpleDoes
<1> HIDE DEF m
<1>5. /\ Before(n) /\ ~Before(n)' /\ \A o : ~Looks(n, o)' /\ (Looks(n, o) <=> o = reactor[n].op)
      /\ \A o : Looks(m, o)' <=> Looks(m, o)
      /\ reactor[n] # Idle
  BY <1>1, <1>2, IdleParts DEF Looks, Before
<1>6. Stranger(n)'
  BY <1>1, <1>2, <1>3, <1>4, <1>5 DEF Stranger
<1>7. Stranger(m)'
  <2>1. FirstHello(m) => FirstHello(m)'
    BY <1>1, <1>2, <1>5 DEF FirstHello, Silent
  <2> QED BY <1>1, <1>2, <1>3, <2>1 DEF Stranger
<1>8. Friend(n)' /\ Friend(m)'
  BY <1>1, <1>2, <1>3, <1>4, <1>5 DEF Friend
<1>9. Greeted(n)' /\ Greeted(m)'
  BY <1>1, <1>2, <1>3, <1>4, <1>5 DEF Greeted, Friend, Together
<1>10. Described(n)' /\ Described(m)'
  BY <1>1, <1>2, <1>3, <1>4, <1>5 DEF Described, Together
<1> QED BY <1>6, <1>7, <1>8, <1>9, <1>10, <1>1, Others DEF m


\* A session that is stopped has lost its connection.
LEMMA EndsKeep ==
    ASSUME TypeOK, NEW n \in Node, \A k \in Node : Local(k) /\ Exchange(k), Erase(n) \/ Stopped(n)
    PROVE  \A k \in Node : Stranger(k)' /\ Friend(k)' /\ Greeted(k)' /\ Described(k)'
<1> DEFINE m == Other(n)
<1>0. Acts(n)
  BY DEF Acts, Reacts, Handle, Tells
<1>1. /\ m \in Node /\ m # n /\ Other(m) = n
      /\ ses'[m] = ses[m] /\ reactor'[m] = reactor[m] /\ news'[m] = news[m] /\ linked' = linked
      /\ (Open' <=> Open) /\ (Fit' <=> Fit) /\ (Serving(m)' <=> Serving(m)) /\ (Before(m)' <=> Before(m))
      /\ Serving(n)' => Serving(n)
      /\ Together' => Together
  BY <1>0, OtherSame
<1>2. /\ Other(n) = m
      /\ ~linked /\ chan' = chan /\ late' = late
      /\ reactor[n].at \in {"idle", "join"} /\ reactor'[n].at \in {"idle", "join"}
      /\ ses'[n].known => ses[n].known
      /\ ses'[n].inert => ses[n].inert
      /\ ses'[n].serves = ses[n].serves \/ ses'[n].serves = 0
  <2>1. Life(n)
    BY DEF Local
  <2>2. CASE Erase(n)
    BY <2>1, <2>2, EraseDoes, IdleParts DEF Life, Dealings, Files
  <2>3. CASE Stopped(n)
    BY <2>1, <2>3, StoppedDoes, IdleParts, FreshSessions DEF Life
  <2> QED BY <2>2, <2>3
<1>3. /\ Stranger(n) /\ Friend(n) /\ Greeted(n) /\ Described(n)
      /\ Stranger(m) /\ Friend(m) /\ Greeted(m) /\ Described(m)
  BY <1>1 DEF Exchange
<1> HIDE DEF m
<1>4. ~Before(n)' /\ \A o : ~Looks(n, o)' /\ (Looks(m, o)' <=> Looks(m, o))
  BY <1>1, <1>2 DEF Looks, Before
<1>5. ~linked' /\ ~Together'
  BY <1>1, <1>2 DEF Together
<1>6. Stranger(n)' /\ Stranger(m)'
  BY <1>1, <1>2, <1>3, <1>4, <1>5 DEF Stranger
<1>7. Friend(n)' /\ Friend(m)'
  BY <1>1, <1>2, <1>3, <1>4 DEF Friend
<1>8. Greeted(n)' /\ Greeted(m)' /\ Described(n)' /\ Described(m)'
  BY <1>5 DEF Greeted, Described
<1> QED BY <1>6, <1>7, <1>8, <1>1, Others DEF m

\* The folder is offered.
LEMMA GreetKeeps ==
    ASSUME TypeOK, NEW n \in Node, \A k \in Node : Local(k) /\ Exchange(k), Greet(n)
    PROVE  \A k \in Node : Stranger(k)' /\ Friend(k)' /\ Greeted(k)' /\ Described(k)'
<1> DEFINE m == Other(n)
<1>0. Acts(n)
  BY DEF Acts, Reacts, Handle, Tells
<1>1. /\ m \in Node /\ m # n /\ Other(m) = n
      /\ ses'[m] = ses[m] /\ reactor'[m] = reactor[m] /\ news'[m] = news[m] /\ linked' = linked
      /\ (Open' <=> Open) /\ (Fit' <=> Fit) /\ (Serving(m)' <=> Serving(m)) /\ (Before(m)' <=> Before(m))
      /\ Serving(n)' => Serving(n)
      /\ Together' => Together
  BY <1>0, OtherSame
<1>2. /\ Other(n) = m
      /\ news[n] = "up" /\ reactor[n] = Idle /\ news'[n] = "none" /\ linked
      /\ ses' = ses /\ reactor' = reactor /\ main' = main /\ late' = late
      /\ Serving(n) => ses[n].at = "none"
  <2>1. Life(n)
    BY DEF Local
  <2> QED BY <2>1, GreetDoes DEF Life
<1>3. /\ Stranger(n) /\ Friend(n) /\ Greeted(n) /\ Described(n)
      /\ Stranger(m) /\ Friend(m) /\ Greeted(m) /\ Described(m)
  BY <1>1 DEF Exchange
<1>4. Open => \/ Serving(n) /\ Sends(n, <<"Hello">>)
              \/ ~Serving(n) /\ Sends(n, <<>>)
  BY GreetDoes, OpenIgnores
<1>5. Together => Serving(n) /\ Serving(m) /\ linked /\ Open
  BY <1>1, Others DEF Together, Node
<1>6. Open /\ Serving(n) =>
          /\ chan'[n] = chan[n]
          /\ \A op : In(op, chan'[m]) <=> In(op, chan[m]) \/ op = "Hello"
          /\ chan'[m] # <<>>
          /\ Head(chan'[m]) = IF chan[m] = <<>> THEN "Hello" ELSE Head(chan[m])
  <2>1. "Hello" \in Op
    BY DEF Op
  <2> QED BY <1>2, <1>4, <2>1, SendsOne
<1>7. Open /\ ~Serving(n) => chan' = chan
  BY <1>4, SendsNothing
<1> HIDE DEF m
<1>8. /\ Serving(n)' <=> Serving(n)
      /\ \A o : (Looks(n, o)' <=> Looks(n, o)) /\ (Looks(m, o)' <=> Looks(m, o))
      /\ Before(n)' <=> Before(n)
  BY <1>2 DEF Serving, Looks, Before
<1>9. "Hello" \in Polite /\ "Hello" # "Bye"
  BY DEF Polite
<1>10. Stranger(n)'
  <2>1. Open /\ Serving(n) /\ FirstHello(n) => FirstHello(n)'
    BY <1>1, <1>2, <1>6, <1>8 DEF FirstHello, Silent
  <2> QED BY <1>1, <1>2, <1>3, <1>6, <1>7, <1>8, <2>1 DEF Stranger
<1>11. Stranger(m)'
  <2>1. Open /\ Serving(n) /\ FirstHello(m) => FirstHello(m)'
    BY <1>1, <1>2, <1>6, <1>8 DEF FirstHello
  <2>2. Open /\ ~Serving(n) /\ FirstHello(m) => FirstHello(m)'
    BY <1>1, <1>2, <1>7, <1>8 DEF FirstHello, Silent
  <2> QED BY <1>1, <1>2, <1>3, <1>6, <1>7, <1>8, <1>9, <2>1, <2>2 DEF Stranger
<1>12. Friend(n)' /\ Friend(m)'
  BY <1>1, <1>2, <1>3, <1>6, <1>7, <1>8, <1>9 DEF Friend
<1>13. Greeted(n)' /\ Greeted(m)'
  BY <1>1, <1>2, <1>3, <1>5, <1>6, <1>8 DEF Greeted
<1>14. Described(n)' /\ Described(m)'
  BY <1>1, <1>2, <1>3, <1>5, <1>6, <1>8 DEF Described
<1> QED BY <1>10, <1>11, <1>12, <1>13, <1>14, <1>1, Others DEF m

\* Of nodes that allow each other, only one that stops ignores what it is told.
LEMMA IgnoreKeeps ==
    ASSUME TypeOK, NEW n \in Node, \A k \in Node : Local(k) /\ Exchange(k), Ignore(n)
    PROVE  \A k \in Node : Stranger(k)' /\ Friend(k)' /\ Greeted(k)' /\ Described(k)'
<1> DEFINE m == Other(n)
<1>0. Acts(n)
  BY DEF Acts, Reacts, Handle, Tells
<1>1. /\ m \in Node /\ m # n /\ Other(m) = n
      /\ ses'[m] = ses[m] /\ reactor'[m] = reactor[m] /\ news'[m] = news[m] /\ linked' = linked
      /\ (Open' <=> Open) /\ (Fit' <=> Fit) /\ (Serving(m)' <=> Serving(m)) /\ (Before(m)' <=> Before(m))
      /\ Serving(n)' => Serving(n)
      /\ Together' => Together
  BY <1>0, OtherSame
<1>2. /\ Other(n) = m
      /\ reactor[n] = Idle /\ Ignored(n)
      /\ ses' = ses /\ reactor' = reactor /\ main' = main /\ late' = late /\ news' = news
      /\ chan'[m] = chan[m] /\ \A op : In(op, chan'[n]) => In(op, chan[n])
  BY IgnoreDoes, TakenFrom
<1>3. /\ Stranger(n) /\ Friend(n) /\ Greeted(n) /\ Described(n)
      /\ Stranger(m) /\ Friend(m) /\ Greeted(m) /\ Described(m)
  BY <1>1 DEF Exchange
<1>4. Open => ~Serving(n)
  BY <1>2, OpenIgnores
<1>5. Together => Serving(n) /\ Serving(m) /\ linked /\ Open
  BY <1>1, Others DEF Together, Node
<1> HIDE DEF m
<1>6. /\ Serving(n)' <=> Serving(n)
      /\ \A o : (Looks(n, o)' <=> Looks(n, o)) /\ (Looks(m, o)' <=> Looks(m, o))
      /\ Before(n)' <=> Before(n)
  BY <1>2 DEF Serving, Looks, Before
<1>7. Stranger(n)'
  BY <1>1, <1>2, <1>3, <1>4, <1>6 DEF Stranger
<1>8. Stranger(m)'
  <2>1. FirstHello(m) => FirstHello(m)'
    BY <1>1, <1>2, <1>6 DEF FirstHello, Silent
  <2> QED BY <1>1, <1>2, <1>3, <2>1 DEF Stranger
<1>9. Friend(n)' /\ Friend(m)'
  BY <1>1, <1>2, <1>3, <1>6 DEF Friend
<1>10. ~Together'
  BY <1>1, <1>4, <1>5
<1>11. Greeted(n)' /\ Greeted(m)' /\ Described(n)' /\ Described(m)'
  BY <1>10 DEF Greeted, Described
<1> QED BY <1>7, <1>8, <1>9, <1>11, <1>1, Others DEF m


\* A file is sent to a node that has asked for it.
LEMMA ServeKeeps ==
    ASSUME TypeOK, NEW n \in Node, \A k \in Node : Local(k) /\ Exchange(k), Serve(n)
    PROVE  \A k \in Node : Stranger(k)' /\ Friend(k)' /\ Greeted(k)' /\ Described(k)'
<1> DEFINE m == Other(n)
<1>0. Acts(n)
  BY DEF Acts, Reacts, Handle, Tells
<1>1. /\ m \in Node /\ m # n /\ Other(m) = n
      /\ ses'[m] = ses[m] /\ reactor'[m] = reactor[m] /\ news'[m] = news[m] /\ linked' = linked
      /\ (Open' <=> Open) /\ (Fit' <=> Fit) /\ (Serving(m)' <=> Serving(m)) /\ (Before(m)' <=> Before(m))
      /\ Serving(n)' => Serving(n)
      /\ Together' => Together
  BY <1>0, OtherSame
<1>2. /\ Other(n) = m
      /\ ses[n].serves > 0
      /\ reactor' = reactor /\ main' = main /\ late' = late /\ news' = news
      /\ ses'[n].at = ses[n].at /\ (ses'[n].inert <=> ses[n].inert) /\ (ses'[n].told <=> ses[n].told)
      /\ (ses'[n].known <=> ses[n].known)
  BY ServeDoes DEF Place, Dealings
<1>3. /\ Stranger(n) /\ Friend(n) /\ Greeted(n) /\ Described(n)
      /\ Stranger(m) /\ Friend(m) /\ Greeted(m) /\ Described(m)
  BY <1>1 DEF Exchange
<1>4. /\ chan'[n] = chan[n]
      /\ \A op : In(op, chan[m]) => In(op, chan'[m])
      /\ In("Bye", chan'[m]) => In("Bye", chan[m])
  <2> DEFINE ms == IF ses[n].running THEN <<"FileStart", "FileEnd">> ELSE <<"FileStart">>
  <2>1. ms \in Seq(Op)
    <3>1. <<"FileStart", "FileEnd">> \in Seq(Op) /\ <<"FileStart">> \in Seq(Op)
      BY DEF Op
    <3> QED BY <3>1
  <2>2. ~In("Bye", ms)
    <3>1. ms = <<"FileStart", "FileEnd">> \/ ms = <<"FileStart">>
      OBVIOUS
    <3> HIDE DEF ms
    <3> QED BY <3>1 DEF In
  <2>3. Sends(n, ms)
    BY ServeDoes
  <2> HIDE DEF ms
  <2> QED BY <2>1, <2>2, <2>3, SendsAdds
<1>5. Together => Serving(n) /\ Serving(m) /\ linked /\ Open
  BY <1>1, Others DEF Together, Node
<1> HIDE DEF m
<1>6. /\ Serving(n)' <=> Serving(n)
      /\ \A o : (Looks(n, o)' <=> Looks(n, o)) /\ (Looks(m, o)' <=> Looks(m, o))
      /\ Before(n)' <=> Before(n)
  BY <1>2 DEF Serving, Looks, Before
<1>7. Stranger(n)' /\ Stranger(m)'
  BY <1>1, <1>2, <1>3 DEF Stranger
<1>8. Friend(n)' /\ Friend(m)'
  BY <1>1, <1>2, <1>3, <1>4, <1>6 DEF Friend
<1>9. Greeted(n)' /\ Greeted(m)'
  BY <1>1, <1>2, <1>3, <1>4, <1>6 DEF Greeted
<1>10. Described(n)' /\ Described(m)'
  BY <1>1, <1>2, <1>3, <1>4, <1>6 DEF Described
<1> QED BY <1>7, <1>8, <1>9, <1>10, <1>1, Others DEF m

\* The main thread describes the tree to a session that is in the table.
LEMMA SpeakKeeps ==
    ASSUME TypeOK, NEW n \in Node, \A k \in Node : Local(k) /\ Exchange(k), Speak(n)
    PROVE  \A k \in Node : Stranger(k)' /\ Friend(k)' /\ Greeted(k)' /\ Described(k)'
<1> DEFINE m == Other(n)
<1>0. Acts(n)
  BY DEF Acts, Reacts, Handle, Tells
<1>1. /\ m \in Node /\ m # n /\ Other(m) = n
      /\ ses'[m] = ses[m] /\ reactor'[m] = reactor[m] /\ news'[m] = news[m] /\ linked' = linked
      /\ (Open' <=> Open) /\ (Fit' <=> Fit) /\ (Serving(m)' <=> Serving(m)) /\ (Before(m)' <=> Before(m))
      /\ Serving(n)' => Serving(n)
      /\ Together' => Together
  BY <1>0, OtherSame
<1>2. /\ Other(n) = m
      /\ main[n] = "speak" /\ main'[n] = "run"
      /\ reactor' = reactor /\ late' = late /\ news' = news
      /\ ses'[n].at = ses[n].at /\ (ses'[n].inert <=> ses[n].inert) /\ ses'[n].told
      /\ (ses'[n].known <=> ses[n].known) /\ ses'[n].serves = ses[n].serves
  BY SpeakDoes DEF Place, Files
<1>3. /\ Stranger(n) /\ Friend(n) /\ Greeted(n) /\ Described(n)
      /\ Stranger(m) /\ Friend(m) /\ Greeted(m) /\ Described(m)
  BY <1>1 DEF Exchange
<1>4. /\ chan'[n] = chan[n]
      /\ ~linked => chan' = chan
      /\ linked => /\ \A op : In(op, chan'[m]) <=> In(op, chan[m]) \/ op = "ManifestUpdate"
                   /\ chan'[m] # <<>>
                   /\ chan[m] # <<>> => Head(chan'[m]) = Head(chan[m])
  <2>1. "ManifestUpdate" \in Op /\ Sends(n, <<"ManifestUpdate">>)
    BY SpeakDoes DEF Op
  <2> QED BY <2>1, SendsOne
<1>5. Together => Serving(n) /\ Serving(m) /\ linked /\ Open
  BY <1>1, Others DEF Together, Node
<1> HIDE DEF m
<1>6. /\ Serving(n)' /\ Serving(n) /\ ses[n].at = "table" /\ news[n] # "up"
      /\ \A o : (Looks(n, o)' <=> Looks(n, o)) /\ (Looks(m, o)' <=> Looks(m, o))
      /\ Before(n)' <=> Before(n)
  <2>1. Life(n)
    BY DEF Local
  <2> QED BY <1>2, <2>1 DEF Serving, Looks, Before, Life
<1>7. "ManifestUpdate" \in Polite
  BY DEF Polite
<1>8. Stranger(n)'
  <2>1. FirstHello(n) => FirstHello(n)'
    BY <1>1, <1>2, <1>6 DEF FirstHello
  <2> QED BY <1>1, <1>2, <1>3, <1>4, <1>6, <2>1 DEF Stranger
<1>9. Stranger(m)'
  <2>1. linked /\ FirstHello(m) => FirstHello(m)'
    BY <1>1, <1>2, <1>4, <1>6 DEF FirstHello, Silent
  <2> QED BY <1>1, <1>2, <1>3, <1>4, <1>7, <2>1 DEF Stranger
<1>10. Friend(n)' /\ Friend(m)'
  BY <1>1, <1>2, <1>3, <1>4, <1>6 DEF Friend
<1>11. Greeted(n)' /\ Greeted(m)'
  BY <1>1, <1>2, <1>3, <1>4, <1>5, <1>6 DEF Greeted
<1>12. Described(n)' /\ Described(m)'
  BY <1>1, <1>2, <1>3, <1>4, <1>5, <1>6 DEF Described
<1> QED BY <1>8, <1>9, <1>10, <1>11, <1>12, <1>1, Others DEF m

\* A session of an earlier connection that describes the tree is noted.
LEMMA LateKeeps ==
    ASSUME TypeOK, NEW n \in Node, \A k \in Node : Local(k) /\ Exchange(k), LateChanged(n)
    PROVE  \A k \in Node : Stranger(k)' /\ Friend(k)' /\ Greeted(k)' /\ Described(k)'
<1> DEFINE m == Other(n)
<1>0. Acts(n)
  BY DEF Acts, Reacts, Handle, Tells
<1>1. /\ m \in Node /\ m # n /\ Other(m) = n
      /\ ses'[m] = ses[m] /\ reactor'[m] = reactor[m] /\ news'[m] = news[m] /\ linked' = linked
      /\ (Open' <=> Open) /\ (Fit' <=> Fit) /\ (Serving(m)' <=> Serving(m)) /\ (Before(m)' <=> Before(m))
      /\ Serving(n)' => Serving(n)
      /\ Together' => Together
  BY <1>0, OtherSame
<1>2. /\ Other(n) = m
      /\ main[n] = "stale" /\ main'[n] = "run"
      /\ ses' = ses /\ reactor' = reactor /\ news' = news /\ (late' <=> late \/ linked)
  BY LateChangedDoes
<1>3. /\ Stranger(n) /\ Friend(n) /\ Greeted(n) /\ Described(n)
      /\ Stranger(m) /\ Friend(m) /\ Greeted(m) /\ Described(m)
  BY <1>1 DEF Exchange
<1>4. /\ chan'[n] = chan[n]
      /\ ~linked => chan' = chan
      /\ linked => \A op : In(op, chan'[m]) <=> In(op, chan[m]) \/ op = "ManifestUpdate"
  <2>1. "ManifestUpdate" \in Op /\ Sends(n, <<"ManifestUpdate">>)
    BY LateChangedDoes DEF Op
  <2> QED BY <2>1, SendsOne
<1>5. Together => Serving(n) /\ Serving(m) /\ linked /\ Open
  BY <1>1, Others DEF Together, Node
<1> HIDE DEF m
<1>6. /\ Serving(n)' /\ Serving(n)
      /\ \A o : (Looks(n, o)' <=> Looks(n, o)) /\ (Looks(m, o)' <=> Looks(m, o))
      /\ Before(n)' <=> Before(n)
  BY <1>2 DEF Serving, Looks, Before
<1>7. Stranger(n)' /\ Stranger(m)'
  <2>1. CASE late'
    BY <2>1 DEF Stranger
  <2>2. CASE ~late'
    BY <1>1, <1>2, <1>3, <1>4, <1>6, <2>2 DEF Stranger
  <2> QED BY <2>1, <2>2
<1>8. Friend(n)' /\ Friend(m)'
  BY <1>1, <1>2, <1>3, <1>4, <1>6 DEF Friend
<1>9. Greeted(n)' /\ Greeted(m)'
  BY <1>1, <1>2, <1>3, <1>4, <1>5, <1>6 DEF Greeted
<1>10. Described(n)' /\ Described(m)'
  BY <1>1, <1>2, <1>3, <1>4, <1>5, <1>6 DEF Described
<1> QED BY <1>7, <1>8, <1>9, <1>10, <1>1, Others DEF m


-----------------------------------------------------------------------------
(* The connection, and the invariant.                                      *)

LEMMA ConnectKeeps ==
    ASSUME TypeOK, Quiet, \A k \in Node : Local(k) /\ Exchange(k), Connect
    PROVE  \A k \in Node : Exchange(k)'
<1>1. /\ ~linked /\ linked'
      /\ \A k \in Node : news[k] = "none" /\ reactor[k] = Idle /\ news'[k] = "up"
      /\ chan' = chan /\ ses' = ses /\ reactor' = reactor /\ main' = main /\ late' = late
      /\ (Open' <=> Open) /\ (Fit' <=> Fit) /\ cfg' = cfg
  BY ConnectDoes, PairSame
<1> SUFFICES ASSUME NEW k \in Node PROVE Exchange(k)'
  OBVIOUS
<1>2. chan[k] = <<>> /\ Other(k) \in Node
  BY <1>1, Others DEF Quiet
<1>3. Closed(k) /\ Stranger(k) /\ Friend(k)
  BY DEF Exchange
<1>4. Serving(k) => ses[k].at = "none"
  <2>1. Life(k) /\ ses[k].at \in {"none", "table", "loose"}
    BY Types DEF Local, SessionState
  <2> QED BY <1>1, <2>1, IdleParts DEF Life
<1>5. /\ Serving(k)' <=> Serving(k)
      /\ \A o : Looks(k, o)' <=> Looks(k, o)
      /\ Before(k)' <=> Before(k)
  BY <1>1 DEF Serving, Looks, Before
<1>6. Closed(k)'
  BY <1>1, <1>3 DEF Closed
<1>7. Stranger(k)'
  <2>1. Serving(k) => FirstHello(k)'
    BY <1>1, <1>2, <1>4 DEF FirstHello
  <2> QED BY <1>1, <1>3, <1>5, <2>1 DEF Stranger
<1>8. Friend(k)'
  BY <1>1, <1>3, <1>5 DEF Friend
<1>9. Greeted(k)'
  BY <1>1, <1>2 DEF Greeted
<1>10. Described(k)'
  <2>1. Together' => Serving(k)'
    BY DEF Together, Node
  <2> QED BY <1>1, <1>4, <1>5, <2>1 DEF Described
<1> QED BY <1>6, <1>7, <1>8, <1>9, <1>10 DEF Exchange

\* The connection is lost, and everything on it; a program may end.
LEMMA LossKeeps ==
    ASSUME TypeOK, \A k \in Node : Exchange(k), linked' = FALSE,
           \A k \in Node : chan'[k] = chan[k] \/ chan'[k] = <<>>,
           \A k \in Node : main'[k] = main[k] \/ main'[k] = "ended",
           UNCHANGED <<cfg, ses, reactor, late>>
    PROVE  \A k \in Node : Exchange(k)'
<1>1. (Open' <=> Open) /\ (Fit' <=> Fit)
  BY PairSame
<1> SUFFICES ASSUME NEW k \in Node PROVE Exchange(k)'
  OBVIOUS
<1>2. Closed(k) /\ Stranger(k) /\ Friend(k)
  BY DEF Exchange
<1>3. /\ ~Together'
      /\ \A o : Looks(k, o)' <=> Looks(k, o)
      /\ Before(k)' <=> Before(k)
  BY DEF Together, Looks, Before
<1>4. \A o : In(o, chan'[k]) => In(o, chan[k])
  <2>1. \A o : ~In(o, <<>>)
    BY DEF In
  <2> QED BY <2>1
<1>5. Closed(k)'
  BY <1>1, <1>2 DEF Closed
<1>6. Stranger(k)'
  BY <1>1, <1>2, <1>3, <1>4 DEF Stranger
<1>7. Friend(k)'
  BY <1>1, <1>2, <1>3, <1>4 DEF Friend
<1>8. Greeted(k)' /\ Described(k)'
  BY <1>3 DEF Greeted, Described
<1> QED BY <1>5, <1>6, <1>7, <1>8 DEF Exchange

\* A asks for a file of a tree it knows.
LEMMA AskKeeps ==
    ASSUME TypeOK, \A k \in Node : Exchange(k), Ask
    PROVE  \A k \in Node : Exchange(k)'
<1>1. /\ ses[A].known
      /\ ses' = ses /\ reactor' = reactor /\ main' = main /\ late' = late /\ news' = news /\ linked' = linked
      /\ (Open' <=> Open) /\ (Fit' <=> Fit) /\ cfg' = cfg /\ A \in Node /\ Other(A) = B
  BY AskDoes, PairSame DEF Node, Other
<1>2. chan'[A] = chan[A] /\ \A op : /\ In(op, chan[B]) => In(op, chan'[B])
                                    /\ In(op, chan'[B]) => In(op, chan[B]) \/ op = "Request"
  <2>1. Sends(A, <<"Request">>) /\ "Request" \in Op
    BY AskDoes DEF Op
  <2> QED BY <1>1, <2>1, SendsOne
<1>3. Open
  BY <1>1, FreshSessions DEF Exchange, Closed
<1>4. ~(Open /\ ~Fit /\ ~late)
  BY <1>1 DEF Exchange, Stranger
<1> SUFFICES ASSUME NEW k \in Node PROVE Exchange(k)'
  OBVIOUS
<1>5. Closed(k) /\ Stranger(k) /\ Friend(k) /\ Greeted(k) /\ Described(k)
  BY DEF Exchange
<1>6. /\ \A o : (Looks(k, o)' <=> Looks(k, o)) /\ (Looks(Other(k), o)' <=> Looks(Other(k), o))
      /\ Together' <=> Together
  BY <1>1 DEF Looks, Before, Together, Serving
<1>7. /\ k = A \/ k = B
      /\ Other(k) = A \/ Other(k) = B
  BY DEF Node, Other
<1>8. \A op : /\ In(op, chan[k]) => In(op, chan'[k])
              /\ In(op, chan'[k]) => In(op, chan[k]) \/ op = "Request"
              /\ In(op, chan[Other(k)]) => In(op, chan'[Other(k)])
  BY <1>2, <1>7
<1>9. Closed(k)' /\ Stranger(k)'
  BY <1>1, <1>3, <1>4 DEF Closed, Stranger
<1>10. Friend(k)'
  BY <1>1, <1>5, <1>6, <1>8 DEF Friend
<1>11. Greeted(k)' /\ Described(k)'
  BY <1>1, <1>5, <1>6, <1>8 DEF Greeted, Described
<1> QED BY <1>9, <1>10, <1>11 DEF Exchange

LEMMA ExchangeInit == Init => \A k \in Node : Exchange(k)
<1> SUFFICES ASSUME Init, NEW k \in Node PROVE Exchange(k)
  OBVIOUS
<1>1. /\ ses[k] = NoSession /\ reactor[k] = Idle /\ chan[k] = <<>> /\ main[k] = "run" /\ ~linked
  BY DEF Init
<1>2. \A o : ~In(o, <<>>)
  BY DEF In
<1>3. ~Before(k) /\ \A o : ~Looks(k, o)
  BY <1>1, IdleParts DEF Before, Looks
<1> QED BY <1>1, <1>2, <1>3, FreshSessions DEF Exchange, Closed, Stranger, Friend, Greeted, Described, Together

LEMMA ExchangeStep ==
    LocalInv /\ (\A k \in Node : Exchange(k)) /\ [Next]_vars => \A k \in Node : Exchange(k)'
<1> SUFFICES ASSUME LocalInv, \A k \in Node : Exchange(k), [Next]_vars
             PROVE  \A k \in Node : Exchange(k)'
  OBVIOUS
<1>1. TypeOK /\ Quiet /\ \A k \in Node : Local(k) /\ Exchange(k)
  BY DEF LocalInv
<1>2. ASSUME NEW n \in Node, Acts(n) PROVE \A k \in Node : Exchange(k)'
  <2>1. \A k \in Node : Closed(k)'
    BY <1>1, <1>2, ClosedKept DEF Exchange
  <2> DEFINE K == \A k \in Node : Stranger(k)' /\ Friend(k)' /\ Greeted(k)' /\ Described(k)'
  <2>2. ASSUME \/ Start(n) \/ Spawn(n) \/ HandleFileStart(n) \/ HandleFileEnd(n) \/ CreatePart(n)
               \/ Register(n) \/ Move(n) \/ Prune(n) \/ Leave(n) \/ Notify(n) \/ LocalChanged(n)
               \/ Shutdown(n) \/ StopFlag(n) \/ StopJoin(n) \/ Clean(n)
        PROVE  K
    <3>1. Aside(n)
      BY <1>1, <2>2, Asides
    <3> QED BY <1>1, <1>2, <3>1, AsideKeeps
  <2>3. ASSUME Take(n) PROVE K
    BY <1>1, <2>3, TakeKeeps
  <2>4. ASSUME Inert(n) PROVE K
    BY <1>1, <2>4, InertKeeps
  <2>5. ASSUME HandleHello(n) PROVE K
    BY <1>1, <2>5, HelloKeeps
  <2>6. ASSUME HandleSimple(n) PROVE K
    BY <1>1, <2>6, SimpleKeeps
  <2>7. ASSUME Erase(n) \/ Stopped(n) PROVE K
    BY <1>1, <2>7, EndsKeep
  <2>8. ASSUME Greet(n) PROVE K
    BY <1>1, <2>8, GreetKeeps
  <2>9. ASSUME Ignore(n) PROVE K
    BY <1>1, <2>9, IgnoreKeeps
  <2>10. ASSUME Serve(n) PROVE K
    BY <1>1, <2>10, ServeKeeps
  <2>11. ASSUME Speak(n) PROVE K
    BY <1>1, <2>11, SpeakKeeps
  <2>12. ASSUME LateChanged(n) PROVE K
    BY <1>1, <2>12, LateKeeps
  <2>13. K
    <3> HIDE DEF K
    <3> QED BY <1>2, <2>2, <2>3, <2>4, <2>5, <2>6, <2>7, <2>8, <2>9, <2>10, <2>11, <2>12
            DEF Acts, Reacts, Handle, Tells
  <2> QED BY <2>1, <2>13 DEF Exchange
<1>3. CASE Connect
  BY <1>1, <1>3, ConnectKeeps
<1>4. CASE Drop
  BY <1>1, <1>4, DropDoes, LossKeeps
<1>5. CASE Ask
  BY <1>1, <1>5, AskKeeps
<1>6. ASSUME NEW n \in Node, NodeStop(n) PROVE \A k \in Node : Exchange(k)'
  <2>1. /\ linked' = FALSE /\ UNCHANGED <<cfg, ses, reactor, late>>
        /\ \A k \in Node : chan'[k] = chan[k] \/ chan'[k] = <<>>
        /\ \A k \in Node : main'[k] = main[k] \/ main'[k] = "ended"
    BY <1>1, <1>6, NodeStopDoes
  <2> QED BY <1>1, <2>1, LossKeeps
<1>7. CASE UNCHANGED vars
  <2>1. UNCHANGED <<cfg, linked, chan, news, ses, reactor, main, late>>
    BY <1>7 DEF vars, network, ghosts
  <2> SUFFICES ASSUME NEW k \in Node PROVE Exchange(k)'
    OBVIOUS
  <2>2. Closed(k) /\ Stranger(k) /\ Friend(k) /\ Greeted(k) /\ Described(k)
    BY <1>1 DEF Exchange
  <2>3. /\ (Open' <=> Open) /\ (Fit' <=> Fit)
        /\ Together' <=> Together
        /\ \A o : (Looks(k, o)' <=> Looks(k, o)) /\ (Looks(Other(k), o)' <=> Looks(Other(k), o))
        /\ Before(k)' <=> Before(k)
        /\ Serving(k)' <=> Serving(k)
        /\ Silent(Other(k))' <=> Silent(Other(k))
    BY <2>1, PairSame DEF Together, Looks, Before, Serving, Silent
  <2>4. FirstHello(k) => FirstHello(k)'
    BY <2>1, <2>3 DEF FirstHello
  <2>5. Closed(k)'
    BY <2>1, <2>2, <2>3 DEF Closed
  <2>6. Stranger(k)'
    BY <2>1, <2>2, <2>3, <2>4 DEF Stranger
  <2>7. Friend(k)' /\ Greeted(k)' /\ Described(k)'
    BY <2>1, <2>2, <2>3 DEF Friend, Greeted, Described
  <2> QED BY <2>5, <2>6, <2>7 DEF Exchange
<1> QED BY <1>2, <1>3, <1>4, <1>5, <1>6, <1>7 DEF Next, Acts, Ends


\* What two nodes may have told each other, whether they can work together or not.
THEOREM ExchangeAlways == Spec => [](LocalInv /\ \A k \in Node : Exchange(k))
<1>1. LocalInv /\ (\A k \in Node : Exchange(k)) /\ [Next]_vars => (\A k \in Node : Exchange(k))'
  BY ExchangeStep
<1> QED BY <1>1, ExchangeInit, LocalAlways, PTL DEF Spec

\* handle_hello: a node never takes the tree of a peer it cannot work with to compare with its
\* own, though its peer's main thread may describe the tree before the Hello is looked at;
\* but for a session of an earlier connection that speaks on this one.
THEOREM NeverMerged == Spec => []NotMerged
<1>1. ASSUME LocalInv, \A k \in Node : Exchange(k) PROVE NotMerged
  <2> SUFFICES ASSUME ~late, NEW n \in Node, ses[n].known PROVE Compatible
    BY DEF NotMerged
  <2>1. Open
    BY <1>1, FreshSessions DEF Exchange, Closed
  <2>2. Fit
    BY <1>1, <2>1 DEF Exchange, Stranger
  <2> QED BY <1>1, <2>1, <2>2, CompatibleAre DEF LocalInv
<1> QED BY <1>1, ExchangeAlways, PTL

\* "every refusal rule is symmetric": when all is quiet either both nodes take part or neither
\* does.
THEOREM BothTakePart == Spec => []BothOrNeither
<1>1. ASSUME LocalInv, \A k \in Node : Exchange(k) PROVE BothOrNeither
  <2> SUFFICES ASSUME AtRest PROVE TakesPart(A) <=> TakesPart(B)
    BY DEF BothOrNeither
  <2>1. /\ linked /\ \A k \in Node : /\ main[k] = "run" /\ news[k] = "none" /\ chan[k] = <<>>
                                     /\ reactor[k] = Idle
        /\ A \in Node /\ B \in Node /\ Other(A) = B /\ Other(B) = A
    BY LifecycleAssumption DEF AtRest, Node, Other
  <2>2. \A k \in Node : (\A op : ~In(op, chan[k])) /\ (\A op : ~Looks(k, op))
    BY <2>1, IdleParts DEF In, Looks, Before
  <2>3. CASE ~Open
    <3>1. ~ses[A].known /\ ~ses[B].known
      BY <1>1, <2>1, <2>3, FreshSessions DEF Exchange, Closed
    <3> QED BY <3>1 DEF TakesPart
  <2>4. CASE Open
    <3>1. Together
      BY <2>1, <2>4 DEF Together, Serving
    <3>2. \A k \in Node : ses[k].at = "table" /\ (Fit => ses[k].told) /\ (~Fit => ses[k].inert)
      BY <1>1, <2>1, <2>2, <3>1, Others DEF Exchange, Greeted
    <3>3. CASE Fit
      <4>1. ~ses[A].inert /\ ~ses[B].inert
        BY <1>1, <2>1, <2>4, <3>3 DEF Exchange, Friend
      <4>2. ses[A].known /\ ses[B].known
        BY <1>1, <2>1, <2>2, <3>1, <3>2, <3>3 DEF Exchange, Described
      <4> QED BY <4>1, <4>2 DEF TakesPart
    <3>4. CASE ~Fit
      BY <2>1, <3>2, <3>4 DEF TakesPart
    <3> QED BY <3>3, <3>4
  <2> QED BY <2>3, <2>4
<1> QED BY <1>1, ExchangeAlways, PTL
=============================================================================
