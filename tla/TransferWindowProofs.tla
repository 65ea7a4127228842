------------------------- MODULE TransferWindowProofs -------------------------
(***************************************************************************)
(* The safety of serving, for every window, interval, size and number of   *)
(* requests.  The window is respected because the sender tests it after    *)
(* every literal; that no wake-up is lost rests on what the two ends of a  *)
(* transfer know of each other: the last message of the transfer on its    *)
(* way, or else the peer's count, says how much has been sent, and every   *)
(* interval the peer has counted is acknowledged.                          *)
(***************************************************************************)
EXTENDS TransferWindow, TLAPS

Wire == [op : {"FileStart", "FileLiteral", "FileEnd"}, xid : Nat, upto : Nat]
Open == [xid : Nat, on_wire : Nat, last_ack : Nat]

\* What has left the sender, counted or not.
Sent == cur_sent + noting

\* Elements of a queue after a step.
LEMMA AppendFacts ==
    ASSUME NEW S, NEW s \in Seq(S), NEW e \in S
    PROVE  /\ Append(s, e) \in Seq(S)
           /\ Len(Append(s, e)) = Len(s) + 1
           /\ Append(s, e)[Len(s) + 1] = e
           /\ \A i \in 1..Len(s) : Append(s, e)[i] = s[i]
OBVIOUS

LEMMA ElementFacts ==
    ASSUME NEW S, NEW s \in Seq(S), NEW i \in 1..Len(s)
    PROVE  s[i] \in S
OBVIOUS

LEMMA TailFacts ==
    ASSUME NEW S, NEW s \in Seq(S), s # <<>>
    PROVE  /\ Tail(s) \in Seq(S)
           /\ Len(Tail(s)) = Len(s) - 1 /\ Len(s) \in Nat \ {0}
           /\ Head(s) = s[1] /\ Head(s) \in S
           /\ \A i \in 1..Len(Tail(s)) : Tail(s)[i] = s[i + 1]
OBVIOUS

-----------------------------------------------------------------------------
(* Types.                                                                  *)

\* The first message of either queue, and the others.
LEMMA DownFacts ==
    ASSUME TypeOK, down # <<>>
    PROVE  /\ Head(down) = down[1] /\ Head(down) \in Wire /\ Tail(down) \in Seq(Wire)
           /\ Len(Tail(down)) = Len(down) - 1 /\ Len(down) \in Nat \ {0}
           /\ \A i \in 1..Len(Tail(down)) : Tail(down)[i] = down[i + 1]
           /\ \A i \in 1..Len(down) : down[i] \in Wire
<1>1. down \in Seq(Wire)
  BY DEF TypeOK, Wire
<1> QED
  BY <1>1, TailFacts

LEMMA UpFacts ==
    ASSUME TypeOK, up # <<>>
    PROVE  /\ Head(up) = up[1] /\ Head(up) \in [xid : Nat, bytes : Nat]
           /\ Tail(up) \in Seq([xid : Nat, bytes : Nat])
           /\ Len(Tail(up)) = Len(up) - 1 /\ Len(up) \in Nat \ {0}
           /\ \A i \in 1..Len(Tail(up)) : Tail(up)[i] = up[i + 1]
<1>1. up \in Seq([xid : Nat, bytes : Nat])
  BY DEF TypeOK
<1> QED
  BY <1>1, TailFacts

\* The transfer a literal is written to, and what becomes of it.
Written(t, n) ==
    LET due == n - t.last_ack >= AckInterval
    IN  /\ incoming' = (incoming \ {t}) \union
                         {[t EXCEPT !.on_wire = n, !.last_ack = IF due THEN n ELSE @]}
        /\ up' = IF due THEN Append(up, Ack(t.xid, n)) ELSE up

LEMMA LiteralFacts ==
    ASSUME TypeOK, RecvLiteral
    PROVE  \E t \in incoming : t.xid = Head(down).xid /\ Written(t, Head(down).upto)
BY DEF RecvLiteral, Written

LEMMA WrittenFacts ==
    ASSUME NEW t \in Open, NEW n \in Nat, Written(t, n)
    PROVE  \E u \in Open :
              /\ incoming' = (incoming \ {t}) \union {u}
              /\ u.xid = t.xid /\ u.on_wire = n
              /\ \/ /\ n - t.last_ack >= AckInterval
                    /\ u.last_ack = n /\ up' = Append(up, Ack(t.xid, n))
                 \/ /\ ~(n - t.last_ack >= AckInterval)
                    /\ u.last_ack = t.last_ack /\ up' = up
<1> DEFINE u == [t EXCEPT !.on_wire = n,
                          !.last_ack = IF n - t.last_ack >= AckInterval THEN n ELSE @]
<1>1. /\ u \in Open /\ u.xid = t.xid /\ u.on_wire = n
      /\ u.last_ack = IF n - t.last_ack >= AckInterval THEN n ELSE t.last_ack
  BY DEF Open
<1>2. incoming' = (incoming \ {t}) \union {u}
  BY Zenon DEF Written
<1>3. up' = IF n - t.last_ack >= AckInterval THEN Append(up, Ack(t.xid, n)) ELSE up
  BY Zenon DEF Written
<1> HIDE DEF u
<1> QED
  BY <1>1, <1>2, <1>3

\* The typing facts, the counters apart from the queues.
LEMMA Numbers ==
    ASSUME TypeOK
    PROVE  /\ serve_q \in Nat /\ noting \in Nat /\ cur_xid \in Nat /\ cur_sent \in Nat
           /\ cur_acked \in Nat /\ served \in Nat /\ faults \in Nat
<1>1. {noting, cur_xid, cur_sent, cur_acked, served, faults} \subseteq Nat /\ serve_q \in Nat
  BY DEF TypeOK
<1> QED
  BY ONLY <1>1

LEMMA Queues ==
    ASSUME TypeOK
    PROVE  down \in Seq(Wire) /\ up \in Seq([xid : Nat, bytes : Nat])
BY DEF TypeOK, Wire

LEMMA TypeStep ==
    TypeOK /\ [Next]_vars => TypeOK'
<1> SUFFICES ASSUME TypeOK, [Next]_vars PROVE TypeOK'
  OBVIOUS
<1> USE SizesAssumption
<1>1. CASE RecvRequest
  <2>1. /\ served' = served + 1 /\ serve_q' = serve_q + 1
        /\ UNCHANGED <<sender, cur_acked, running, stopper, reactor, down, incoming, up, faults>>
    BY <1>1 DEF RecvRequest
  <2>2. served' \in Nat /\ serve_q' \in Nat
    BY ONLY TypeOK, Numbers, <2>1
  <2> QED
    BY ONLY TypeOK, <2>1, <2>2 DEF TypeOK, sender
<1>2. CASE StartServe
  <2>1. serve_q > 0 /\ serve_q' = serve_q - 1 /\ cur_xid' = cur_xid + 1
    BY <1>2 DEF StartServe
  <2>2. serve_q' \in Nat /\ cur_xid' \in Nat
    BY ONLY <2>1, TypeOK, Numbers
  <2>3. Start(cur_xid') \in Wire
    BY ONLY <2>2 DEF Start, Wire
  <2>4. down' \in Seq(Wire)
    <3>1. down' = Append(down, Start(cur_xid'))
      BY <1>2 DEF StartServe
    <3> QED
      BY ONLY TypeOK, Queues, <2>3, <3>1, AppendFacts
  <2>5. /\ pc' = "send" /\ cur_sent' = 0 /\ cur_acked' = 0
        /\ UNCHANGED <<noting, running, stopper, reactor, incoming, up, served, faults>>
    BY <1>2 DEF StartServe
  <2> QED
    BY ONLY TypeOK, <2>2, <2>4, <2>5 DEF TypeOK, Wire
<1>3. CASE SendLiteral
  <2>1. PICK n \in Sizes : down' = Append(down, Literal(cur_xid, cur_sent + n)) /\ noting' = n
    BY <1>3 DEF SendLiteral
  <2>2. n \in Nat
    BY SizesAssumption
  <2>3. Literal(cur_xid, cur_sent + n) \in Wire
    BY ONLY TypeOK, Numbers, <2>2 DEF Literal, Wire
  <2>4. down' \in Seq(Wire)
    BY ONLY TypeOK, Queues, <2>1, <2>3, AppendFacts
  <2>5. /\ pc' = "note"
        /\ UNCHANGED <<serve_q, cur_xid, cur_sent, cur_acked, running, stopper, reactor,
                       incoming, up, served, faults>>
    BY <1>3 DEF SendLiteral
  <2> QED
    BY ONLY TypeOK, <2>1, <2>2, <2>4, <2>5 DEF TypeOK, Wire
<1>4. CASE NoteSent
  <2>1. cur_sent' = cur_sent + noting
    BY <1>4 DEF NoteSent
  <2>2. cur_sent' \in Nat
    BY ONLY TypeOK, Numbers, <2>1
  <2>3. /\ noting' = 0 /\ pc' = "test"
        /\ UNCHANGED <<serve_q, cur_xid, cur_acked, running, stopper, reactor, down,
                       incoming, up, served, faults>>
    BY <1>4 DEF NoteSent
  <2> QED
    BY ONLY TypeOK, <2>2, <2>3 DEF TypeOK
<1>5. CASE TestWindow
  BY <1>5 DEF TypeOK, TestWindow, sender
<1>6. CASE SendEnd
  <2>1. End(cur_xid) \in Wire
    BY ONLY TypeOK, Numbers DEF End, Wire
  <2>2. down' = Append(down, End(cur_xid))
    BY <1>6 DEF SendEnd
  <2>3. down' \in Seq(Wire)
    BY ONLY TypeOK, Queues, <2>1, <2>2, AppendFacts
  <2>4. /\ pc' = "idle"
        /\ UNCHANGED <<serve_q, noting, cur_xid, cur_sent, cur_acked, running, stopper, reactor,
                       incoming, up, served, faults>>
    BY <1>6 DEF SendEnd
  <2> QED
    BY ONLY TypeOK, <2>3, <2>4 DEF TypeOK, Wire
<1>7. CASE SenderReturns
  BY <1>7 DEF TypeOK, SenderReturns, sender
<1>8. CASE RecvAck
  <2>1. /\ cur_acked' = IF Head(up).xid = cur_xid /\ Head(up).bytes > cur_acked
                         THEN Head(up).bytes ELSE cur_acked
        /\ up # <<>> /\ up' = Tail(up)
        /\ reactor' = "notify"
        /\ UNCHANGED <<serve_q, sender, running, stopper, down, incoming, served, faults>>
    BY <1>8 DEF RecvAck
  <2>2. Head(up).bytes \in Nat /\ Tail(up) \in Seq([xid : Nat, bytes : Nat])
    <3>1. Head(up) \in [xid : Nat, bytes : Nat] /\ Tail(up) \in Seq([xid : Nat, bytes : Nat])
      BY ONLY TypeOK, <2>1, UpFacts
    <3> QED
      BY ONLY <3>1
  <2>3. cur_acked' \in Nat /\ up' \in Seq([xid : Nat, bytes : Nat])
    <3>1. cur_acked \in Nat
      BY ONLY TypeOK, Numbers
    <3> QED
      BY ONLY <2>1, <2>2, <3>1
  <2> QED
    BY ONLY TypeOK, <2>1, <2>3 DEF TypeOK, sender
<1>9. CASE NotifyAck
  BY <1>9 DEF TypeOK, NotifyAck, sender, Woken
<1>10. CASE Stop
  BY <1>10 DEF TypeOK, Stop, sender
<1>11. CASE NotifyStop
  BY <1>11 DEF TypeOK, NotifyStop, sender, Woken
<1>12. CASE RecvStart
  <2>1. Head(down) \in Wire /\ Tail(down) \in Seq(Wire)
    <3>1. down # <<>>
      BY <1>12 DEF RecvStart, Receives
    <3> QED
      BY ONLY TypeOK, <3>1, DownFacts
  <2>2. [xid |-> Head(down).xid, on_wire |-> 0, last_ack |-> 0] \in Open
    BY <2>1 DEF Open, Wire
  <2>3. incoming' \subseteq Open /\ faults' \in Nat
    <3>1. \/ /\ incoming' = incoming \union
                               {[xid |-> Head(down).xid, on_wire |-> 0, last_ack |-> 0]}
             /\ faults' = faults
          \/ faults' = faults + 1 /\ incoming' = incoming
      BY <1>12 DEF RecvStart, Fault
    <3>2. incoming \subseteq Open /\ faults \in Nat
      BY DEF TypeOK, Open
    <3>3. faults' \in Nat
      BY ONLY <3>1, <3>2
    <3>4. incoming' \subseteq Open
      BY ONLY <2>2, <3>1, <3>2
    <3> QED
      BY ONLY <3>3, <3>4
  <2> QED
    BY <1>12, <2>1, <2>3 DEF TypeOK, RecvStart, Open, Wire, sender
<1>13. CASE RecvLiteral
  <2>1. /\ Head(down) \in Wire /\ Head(down).upto \in Nat /\ Head(down).xid \in Nat
        /\ Tail(down) \in Seq(Wire)
    BY <1>13, DownFacts DEF RecvLiteral, Receives, Wire
  <2>2. PICK t \in incoming : t.xid = Head(down).xid /\ Written(t, Head(down).upto)
    BY <1>13, LiteralFacts
  <2>3. t \in Open /\ incoming \subseteq Open
    BY DEF TypeOK, Open
  <2>4. PICK u \in Open : /\ incoming' = (incoming \ {t}) \union {u}
                          /\ up' \in {up, Append(up, Ack(t.xid, Head(down).upto))}
    BY <2>1, <2>2, <2>3, WrittenFacts
  <2>5. incoming' \subseteq Open
    BY <2>3, <2>4
  <2>6. Ack(t.xid, Head(down).upto) \in [xid : Nat, bytes : Nat]
    BY <2>1, <2>3 DEF Ack, Open
  <2>7. up' \in Seq([xid : Nat, bytes : Nat])
    <3>1. up \in Seq([xid : Nat, bytes : Nat])
      BY DEF TypeOK
    <3> HIDE DEF TypeOK
    <3>2. Append(up, Ack(t.xid, Head(down).upto)) \in Seq([xid : Nat, bytes : Nat])
      BY <2>6, <3>1, AppendFacts
    <3> QED
      BY <2>4, <3>1, <3>2
  <2> QED
    BY <1>13, <2>1, <2>5, <2>7 DEF TypeOK, RecvLiteral, Open, Wire, sender
<1>14. CASE FailLiteral
  <2>1. Tail(down) \in Seq(Wire)
    <3>1. down # <<>>
      BY <1>14 DEF FailLiteral, Receives
    <3> QED
      BY ONLY TypeOK, <3>1, DownFacts
  <2>2. incoming' \subseteq incoming
    BY <1>14 DEF FailLiteral
  <2>3. faults' \in Nat
    <3>1. faults' = faults + 1
      BY <1>14 DEF FailLiteral, Fault
    <3> QED
      BY ONLY TypeOK, Numbers, <3>1
  <2> QED
    BY <1>14, <2>1, <2>2, <2>3 DEF TypeOK, FailLiteral, Wire, sender
<1>15. CASE RecvEnd
  <2>1. PICK t \in incoming :
           /\ incoming' = incoming \ {t}
           /\ \/ up' = Append(up, Ack(t.xid, t.on_wire)) /\ UNCHANGED faults
              \/ Fault /\ UNCHANGED up
    BY <1>15, Zenon DEF RecvEnd
  <2>2. Ack(t.xid, t.on_wire) \in [xid : Nat, bytes : Nat]
    BY DEF TypeOK, Ack
  <2>3. up' \in Seq([xid : Nat, bytes : Nat]) /\ faults' \in Nat
    <3>1. up \in Seq([xid : Nat, bytes : Nat]) /\ faults \in Nat
      BY DEF TypeOK
    <3>2. Append(up, Ack(t.xid, t.on_wire)) \in Seq([xid : Nat, bytes : Nat])
      BY <2>2, <3>1, AppendFacts
    <3>3. CASE up' = Append(up, Ack(t.xid, t.on_wire)) /\ UNCHANGED faults
      BY <3>1, <3>2, <3>3
    <3>4. CASE Fault /\ UNCHANGED up
      BY <3>1, <3>4 DEF Fault
    <3> QED
      BY <2>1, <3>3, <3>4
  <2>4. Tail(down) \in Seq(Wire)
    <3>1. down # <<>>
      BY <1>15 DEF RecvEnd, Receives
    <3> QED
      BY ONLY TypeOK, <3>1, DownFacts
  <2> QED
    BY <1>15, <2>1, <2>3, <2>4 DEF TypeOK, RecvEnd, Wire, sender
<1>16. CASE Ignore
  BY <1>16, DownFacts DEF TypeOK, Ignore, Wire, sender
<1>17. CASE UNCHANGED vars
  BY <1>17 DEF TypeOK, vars, sender
<1> QED
  BY <1>1, <1>2, <1>3, <1>4, <1>5, <1>6, <1>7, <1>8, <1>9, <1>10, <1>11, <1>12, <1>13, <1>14, <1>15, <1>16, <1>17
     DEF Next, Sender, Reactor, PeerReactor

\* The variables keep their types, for every instance.
THEOREM TypeCorrect == Spec => []TypeOK
<1>1. Init => TypeOK
  BY DEF Init, TypeOK
<1> QED
  BY <1>1, TypeStep, PTL DEF Spec

-----------------------------------------------------------------------------
(* What a step does to the two ends of a transfer.                         *)

Active == pc \in {"send", "note", "test", "asleep"}

\* Steps that neither send nor receive.
Silent == /\ UNCHANGED <<down, incoming, up, cur_xid, cur_acked>>
          /\ Sent' = Sent
          /\ Active' => Active

\* Only a literal being sent is not yet counted.
NotingInv == pc # "note" => noting = 0

LEMMA NotingStep ==
    NotingInv /\ [Next]_vars => NotingInv'
BY DEF NotingInv, Next, Sender, Reactor, PeerReactor, vars, sender, RecvRequest, StartServe,
       SendLiteral, NoteSent, TestWindow, SendEnd, SenderReturns, RecvAck, NotifyAck, Stop,
       NotifyStop, RecvStart, RecvLiteral, FailLiteral, RecvEnd, Ignore, Woken

Counts == <<cur_xid, cur_sent, noting, cur_acked, pc>>

LEMMA StepKinds ==
    ASSUME TypeOK, [Next]_vars
    PROVE  \/ Silent \/ StartServe \/ SendLiteral \/ SendEnd \/ RecvAck
           \/ RecvStart \/ RecvLiteral \/ FailLiteral \/ RecvEnd \/ Ignore
<1>1. NoteSent => Silent
  BY DEF NoteSent, Silent, Sent, Active, TypeOK
<1>2. RecvRequest \/ Stop \/ UNCHANGED vars => Silent
  BY DEF RecvRequest, Stop, vars, sender, Silent, Sent, Active
<1>3. TestWindow \/ SenderReturns => Silent
  BY DEF TestWindow, SenderReturns, Silent, Sent, Active
<1>4. NotifyAck \/ NotifyStop => Silent
  BY DEF NotifyAck, NotifyStop, Woken, Silent, Sent, Active
<1> QED
  BY <1>1, <1>2, <1>3, <1>4 DEF Next, Sender, Reactor, PeerReactor

\* Receiving disturbs nothing at this end.
LEMMA PeerSteps ==
    ASSUME RecvStart \/ RecvLiteral \/ FailLiteral \/ RecvEnd \/ Ignore
    PROVE  /\ down # <<>> /\ down' = Tail(down)
           /\ UNCHANGED Counts /\ Sent' = Sent /\ Active' = Active
BY DEF RecvStart, RecvLiteral, FailLiteral, RecvEnd, Ignore, Receives, Sent, Active, sender, Counts

\* An ack moves the count of its transfer forward.
LEMMA AckFacts ==
    ASSUME TypeOK, RecvAck
    PROVE  /\ cur_acked' \in Nat /\ cur_acked' >= cur_acked
           /\ \/ cur_acked' = cur_acked /\ ~(Head(up).xid = cur_xid /\ Head(up).bytes > cur_acked)
              \/ cur_acked' = Head(up).bytes /\ Head(up).xid = cur_xid
           /\ up # <<>> /\ up' = Tail(up)
           /\ UNCHANGED <<pc, noting, cur_sent, cur_xid, down, incoming>>
<1>1. up # <<>> /\ up' = Tail(up) /\ UNCHANGED <<pc, noting, cur_sent, cur_xid, down, incoming>>
  BY DEF RecvAck, sender
<1>2. Head(up).bytes \in Nat /\ cur_acked \in Nat
  BY <1>1, UpFacts DEF TypeOK
<1>3. cur_acked' = IF Head(up).xid = cur_xid /\ Head(up).bytes > cur_acked
                   THEN Head(up).bytes ELSE cur_acked
  BY DEF RecvAck
<1> QED
  BY <1>1, <1>2, <1>3

-----------------------------------------------------------------------------
(* The window.                                                             *)

\* Every literal is sent through an open window and tested after.
WindowInv ==
    running => /\ pc \in {"idle", "send", "note", "done"} => cur_sent <= cur_acked + Window
               /\ pc = "note" => noting \in Sizes
               /\ InFlightBounded

LEMMA MoreAcked ==
    ASSUME NEW s \in Nat, NEW a \in Nat, NEW b \in Nat, NEW w \in Nat, NEW n \in Nat,
           s <= a + w + n, b >= a
    PROVE  s <= b + w + n
OBVIOUS

LEMMA OneLiteral ==
    ASSUME NEW s \in Nat, NEW a \in Nat, NEW w \in Nat, NEW n \in Nat, s <= a + w
    PROVE  s + n <= a + w + n
OBVIOUS

LEMMA WindowStep ==
    TypeOK /\ NotingInv /\ WindowInv /\ [Next]_vars => WindowInv'
<1> SUFFICES ASSUME TypeOK, NotingInv, WindowInv, [Next]_vars, running' PROVE WindowInv'
  BY DEF WindowInv
<1> USE SizesAssumption DEF WindowInv, InFlightBounded
<1>0. running
  BY DEF Next, Sender, Reactor, PeerReactor, vars, sender, RecvRequest, StartServe,
         SendLiteral, NoteSent, TestWindow, SendEnd, SenderReturns, RecvAck, NotifyAck, Stop,
         NotifyStop, RecvStart, RecvLiteral, FailLiteral, RecvEnd, Ignore
<1>1. CASE UNCHANGED Counts
  BY <1>0, <1>1 DEF Counts
<1>2. CASE StartServe
  <2>1. pc = "idle" /\ pc' = "send" /\ noting' = noting /\ cur_sent' = 0 /\ cur_acked' = 0
    BY <1>2 DEF StartServe
  <2>2. noting' = 0
    BY <2>1 DEF NotingInv
  <2> QED
    <3>1. /\ cur_sent' <= cur_acked' + Window
          /\ cur_sent' + noting' <= cur_acked' + Window
      BY ONLY <2>1, <2>2, SizesAssumption
    <3> QED
      BY ONLY <2>1, <3>1 DEF WindowInv, InFlightBounded
<1>3. CASE SendLiteral
  <2>1. pc = "send" /\ pc' = "note" /\ UNCHANGED <<cur_sent, cur_acked>>
    BY <1>3 DEF SendLiteral
  <2>2. noting' \in Sizes
    BY <1>3 DEF SendLiteral
  <2>3. cur_sent <= cur_acked + Window
    BY <1>0, <2>1
  <2>4. cur_sent + noting' <= cur_acked + Window + noting'
    <3>1. noting' \in Nat /\ Window \in Nat
      BY <2>2
    <3>2. cur_sent \in Nat /\ cur_acked \in Nat
      BY ONLY TypeOK, Numbers
    <3> QED
      BY ONLY <2>3, <3>1, <3>2, OneLiteral
  <2> QED
    BY ONLY <2>1, <2>2, <2>3, <2>4 DEF WindowInv, InFlightBounded
<1>4. CASE NoteSent
  <2>1. pc' = "test" /\ noting' = 0 /\ cur_sent' = cur_sent + noting /\ cur_acked' = cur_acked
    BY <1>4 DEF NoteSent
  <2>2. cur_sent' + noting' = cur_sent + noting
    BY ONLY TypeOK, Numbers, <2>1
  <2>3. InFlightBounded
    BY <1>0
  <2> QED
    BY ONLY <1>0, <2>1, <2>2, <2>3 DEF WindowInv, InFlightBounded
<1>5. CASE TestWindow
  <2>1. /\ pc = "test" /\ pc' \in {"asleep", "send", "idle"}
        /\ ~WindowOpen => pc' = "asleep"
        /\ UNCHANGED <<noting, cur_sent, cur_acked>>
    BY <1>5 DEF TestWindow
  <2>2. WindowOpen => cur_sent <= cur_acked + Window
    <3>1. WindowOpen => cur_acked >= cur_sent \/ cur_sent - cur_acked <= Window
      BY <1>0 DEF WindowOpen
    <3>2. Window \in Nat
      OBVIOUS
    <3> QED
      BY ONLY TypeOK, Numbers, <3>1, <3>2
  <2>3. InFlightBounded
    BY <1>0
  <2> QED
    BY ONLY <1>0, <2>1, <2>2, <2>3 DEF WindowInv, InFlightBounded
<1>6. CASE SendEnd \/ SenderReturns
  BY <1>0, <1>6 DEF TypeOK, SendEnd, SenderReturns, NotingInv
<1>7. CASE RecvAck
  <2>1. /\ cur_acked' \in Nat /\ cur_acked' >= cur_acked
        /\ UNCHANGED <<pc, noting, cur_sent>>
    BY <1>7, AckFacts
  <2>2. /\ pc \in {"idle", "send", "note", "done"} => cur_sent <= cur_acked' + Window
        /\ pc = "note" => noting \in Sizes
    <3>1. /\ pc \in {"idle", "send", "note", "done"} => cur_sent <= cur_acked + Window
          /\ pc = "note" => noting \in Sizes
      BY <1>0
    <3> QED
      BY ONLY TypeOK, Numbers, SizesAssumption, <2>1, <3>1
  <2>3. ASSUME cur_sent + noting <= cur_acked + Window
        PROVE  cur_sent + noting <= cur_acked' + Window
    BY ONLY TypeOK, Numbers, SizesAssumption, <2>1, <2>3
  <2>4. ASSUME NEW n \in Sizes, cur_sent + noting <= cur_acked + Window + n
        PROVE  cur_sent + noting <= cur_acked' + Window + n
    <3>1. /\ n \in Nat /\ Window \in Nat /\ cur_sent + noting \in Nat
          /\ cur_acked \in Nat /\ cur_acked' \in Nat /\ cur_acked' >= cur_acked
      BY ONLY TypeOK, Numbers, SizesAssumption, <2>1, n \in Sizes
    <3> QED
      BY ONLY <2>4, <3>1, MoreAcked
  <2>5. \/ cur_sent' + noting' <= cur_acked' + Window
        \/ \E n \in Sizes : cur_sent' + noting' <= cur_acked' + Window + n
    <3>1. CASE cur_sent + noting <= cur_acked + Window
      BY <2>1, <2>3, <3>1
    <3>2. CASE \E n \in Sizes : cur_sent + noting <= cur_acked + Window + n
      BY <2>1, <2>4, <3>2
    <3> QED
      BY <1>0, <3>1, <3>2
  <2>6. /\ pc' \in {"idle", "send", "note", "done"} => cur_sent' <= cur_acked' + Window
        /\ pc' = "note" => noting' \in Sizes
    BY <2>1, <2>2
  <2> QED
    BY ONLY <2>5, <2>6 DEF WindowInv, InFlightBounded
<1>8. CASE NotifyAck \/ NotifyStop
  BY <1>0, <1>8 DEF TypeOK, NotifyAck, NotifyStop, Woken
<1>9. RecvRequest \/ Stop \/ UNCHANGED vars => UNCHANGED Counts
  BY DEF RecvRequest, Stop, vars, sender, Counts
<1> QED
  BY <1>1, <1>2, <1>3, <1>4, <1>5, <1>6, <1>7, <1>8, <1>9, PeerSteps
     DEF Next, Sender, Reactor, PeerReactor

\* What is out and not acknowledged exceeds the window by one literal at most,
\* for every window and every size of a literal.
THEOREM WindowHolds == Spec => []InFlightBounded
<1>1. Init => TypeOK /\ NotingInv
  BY DEF Init, TypeOK, NotingInv
<1>2. Init => WindowInv
  <2> SUFFICES ASSUME Init PROVE WindowInv
    OBVIOUS
  <2>1. cur_sent + noting <= cur_acked + Window /\ cur_sent <= cur_acked + Window
    BY SizesAssumption DEF Init
  <2> QED
    BY <2>1 DEF Init, WindowInv, InFlightBounded
<1>3. WindowInv => InFlightBounded
  <2>1. CASE running
    BY <2>1 DEF WindowInv
  <2>2. CASE ~running
    BY <2>2 DEF InFlightBounded
  <2> QED
    BY <2>1, <2>2
<1> QED
  BY <1>1, <1>2, <1>3, TypeStep, NotingStep, WindowStep, PTL DEF Spec

-----------------------------------------------------------------------------
(* What the two ends know of the transfer being sent.                      *)

\* Nothing on its way or counted at the peer goes beyond what was sent.
Within(x, n) == x <= cur_xid /\ (x = cur_xid => n <= Sent)

AckInv == /\ cur_acked <= Sent
          /\ \A i \in 1..Len(down) : Within(down[i].xid, down[i].upto)
          /\ \A t \in incoming : Within(t.xid, t.on_wire)
          /\ \A i \in 1..Len(up) : Within(up[i].xid, up[i].bytes)

\* A transfer is opened once: when its start arrives nothing of it has come before.
OpenedOnce ==
    /\ \A i \in 1..Len(down) : down[i].op = "FileStart" => down[i].upto = 0
    /\ \A i, j \in 1..Len(down) : i < j /\ down[j].op = "FileStart" => down[i].xid # down[j].xid
    /\ \A j \in 1..Len(down), t \in incoming : down[j].op = "FileStart" => t.xid # down[j].xid
    /\ \A t, u \in incoming : t.xid = u.xid => t = u

\* The last message under way, or else the peer's count, says what was sent.
Said == Active =>
            \/ /\ down # <<>>
               /\ down[Len(down)].xid = cur_xid /\ down[Len(down)].upto = Sent
            \/ /\ \A i \in 1..Len(down) : down[i].xid # cur_xid
               /\ \A t \in incoming : t.xid = cur_xid => t.on_wire = Sent

\* An interval that the peer has counted is acknowledged, or its ack is on the way.
Acked(t) == \/ t.last_ack <= cur_acked
            \/ \E i \in 1..Len(up) : up[i].xid = t.xid /\ up[i].bytes >= t.last_ack

AckedInv == \A t \in incoming : /\ t.on_wire - t.last_ack < AckInterval
                                /\ t.xid = cur_xid => Acked(t)

\* A sender falls asleep on a full window of a running session, and either notification
\* that follows a change of these wakes it.
AsleepInv == /\ running <=> stopper = "no"
             /\ pc = "asleep" => /\ running \/ stopper = "flagged"
                                 /\ cur_sent - cur_acked > Window \/ reactor = "notify"

-----------------------------------------------------------------------------
(* Where what is in the queues and open at the peer after a step comes     *)
(* from.                                                                   *)

LEMMA NatFacts ==
    ASSUME TypeOK
    PROVE  /\ cur_xid \in Nat /\ Sent \in Nat /\ cur_acked \in Nat /\ noting \in Nat
           /\ cur_sent \in Nat
           /\ incoming \subseteq Open /\ down \in Seq(Wire) /\ up \in Seq([xid : Nat, bytes : Nat])
BY DEF TypeOK, Sent, Open, Wire

LEMMA SentFacts ==
    ASSUME TypeOK, NotingInv, StartServe \/ SendLiteral \/ SendEnd
    PROVE  \E m \in Wire :
              /\ down' = Append(down, m) /\ m.xid = cur_xid' /\ m.upto <= Sent'
              /\ UNCHANGED <<incoming, up>> /\ Sent' \in Nat
              /\ StartServe => /\ cur_xid' = cur_xid + 1 /\ cur_acked' = 0
                               /\ m.upto = Sent' /\ Sent' = 0
              /\ ~StartServe => /\ cur_xid' = cur_xid /\ cur_acked' = cur_acked
                                /\ m.op # "FileStart" /\ Sent' >= Sent
              /\ SendLiteral => m.upto = Sent' /\ Active
              /\ SendEnd => ~Active'
<1>1. CASE StartServe
  <2> DEFINE m == Start(cur_xid')
  <2>1. m \in Wire /\ m.xid = cur_xid' /\ m.upto = 0
    BY <1>1, NatFacts DEF StartServe, Start, Wire
  <2>2. down' = Append(down, m)
    BY <1>1 DEF StartServe
  <2>3. /\ cur_xid' = cur_xid + 1 /\ cur_acked' = 0 /\ Sent' = 0 /\ UNCHANGED <<incoming, up>>
        /\ ~SendLiteral /\ ~SendEnd
    BY <1>1 DEF StartServe, SendLiteral, SendEnd, Sent, NotingInv
  <2> QED
    BY <1>1, <2>1, <2>2, <2>3
<1>2. CASE SendLiteral
  <2>1. PICK n \in Sizes : down' = Append(down, Literal(cur_xid, cur_sent + n)) /\ noting' = n
    BY <1>2 DEF SendLiteral
  <2>2. n \in Nat
    BY SizesAssumption
  <2> DEFINE m == Literal(cur_xid, cur_sent + n)
  <2>3. m \in Wire /\ m.xid = cur_xid /\ m.upto = cur_sent + n /\ m.op # "FileStart"
    BY <2>2, NatFacts DEF Literal, Wire
  <2>4. /\ UNCHANGED <<incoming, up, cur_xid, cur_acked, cur_sent>> /\ ~StartServe /\ ~SendEnd
        /\ noting = 0 /\ Active
    BY <1>2 DEF StartServe, SendLiteral, SendEnd, NotingInv, Active
  <2>5. Sent' = cur_sent + n /\ Sent' \in Nat /\ Sent' >= Sent
    BY <2>1, <2>2, <2>4, NatFacts DEF Sent
  <2> QED
    BY <1>2, <2>1, <2>2, <2>3, <2>4, <2>5, NatFacts
<1>3. CASE SendEnd
  <2> DEFINE m == End(cur_xid)
  <2>1. m \in Wire /\ m.xid = cur_xid /\ m.upto = 0 /\ m.op # "FileStart"
    BY NatFacts DEF End, Wire
  <2>2. /\ down' = Append(down, m) /\ UNCHANGED <<incoming, up, cur_xid, cur_acked>>
        /\ Sent' = Sent /\ ~StartServe /\ ~SendLiteral /\ ~Active'
    BY <1>3 DEF StartServe, SendLiteral, SendEnd, Sent, Active
  <2> QED
    BY <1>3, <2>1, <2>2, NatFacts
<1> QED
  BY <1>1, <1>2, <1>3

\* The transfer the peer has open after a step.
Opens(t) == /\ Head(down).op = "FileStart"
            /\ t = [xid |-> Head(down).xid, on_wire |-> 0, last_ack |-> 0]
Grown(w, t) == /\ t.xid = w.xid /\ t.on_wire = Head(down).upto
               /\ \/ /\ Head(down).upto - w.last_ack >= AckInterval
                     /\ t.last_ack = Head(down).upto
                     /\ up' = Append(up, Ack(w.xid, Head(down).upto))
                  \/ /\ ~(Head(down).upto - w.last_ack >= AckInterval)
                     /\ t.last_ack = w.last_ack /\ up' = up

LEMMA PeerFacts ==
    ASSUME TypeOK, RecvStart \/ RecvLiteral \/ FailLiteral \/ RecvEnd \/ Ignore
    PROVE  \/ /\ RecvStart /\ up' = up
              /\ \E t \in Open : Opens(t) /\ incoming' \subseteq incoming \union {t}
           \/ /\ RecvLiteral
              /\ \E w \in incoming : /\ w.xid = Head(down).xid
                    /\ \E t \in Open : Grown(w, t) /\ incoming' = (incoming \ {w}) \union {t}
           \/ /\ Head(down).op # "FileStart"
              /\ \E w \in incoming : w.xid = Head(down).xid /\ incoming' = incoming \ {w}
                    /\ (up' = up \/ up' = Append(up, Ack(w.xid, w.on_wire)))
           \/ /\ Ignore /\ up' = up /\ incoming' = incoming
              /\ Head(down).op # "FileStart" /\ ~IsOpen(Head(down).xid)
<1>1. Head(down) \in Wire /\ incoming \subseteq Open
  BY PeerSteps, DownFacts, NatFacts
<1>2. CASE RecvStart
  <2> DEFINE t == [xid |-> Head(down).xid, on_wire |-> 0, last_ack |-> 0]
  <2>1. t \in Open /\ Opens(t)
    BY <1>1, <1>2 DEF Open, Wire, Opens, RecvStart, Receives
  <2>2. incoming' \subseteq incoming \union {t} /\ up' = up
    BY <1>2 DEF RecvStart
  <2> QED
    BY <1>2, <2>1, <2>2
<1>3. CASE RecvLiteral
  <2>1. PICK w \in incoming : w.xid = Head(down).xid /\ Written(w, Head(down).upto)
    BY <1>3, LiteralFacts
  <2>2. Head(down).upto \in Nat /\ w \in Open
    BY <1>1 DEF Wire
  <2>3. PICK u \in Open : /\ incoming' = (incoming \ {w}) \union {u} /\ Grown(w, u)
    BY <2>1, <2>2, WrittenFacts DEF Grown
  <2> QED
    BY <1>3, <2>1, <2>3
<1>4. CASE FailLiteral
  BY <1>4 DEF FailLiteral, Receives
<1>5. CASE RecvEnd
  <2>1. PICK w \in incoming : /\ w.xid = Head(down).xid /\ incoming' = incoming \ {w}
                              /\ up' = up \/ up' = Append(up, Ack(w.xid, w.on_wire))
    BY <1>5, Zenon DEF RecvEnd
  <2>2. Head(down).op # "FileStart"
    BY <1>5 DEF RecvEnd, Receives
  <2> QED
    BY <2>1, <2>2
<1>6. CASE Ignore
  BY <1>6 DEF Ignore
<1> QED
  BY <1>2, <1>3, <1>4, <1>5, <1>6

-----------------------------------------------------------------------------
(* Nothing acknowledged goes beyond what was sent.                         *)

\* A message or transfer that is older, or that stays within what was sent, does so
\* after a step that sends or begins another transfer.
LEMMA WithinGrows ==
    ASSUME TypeOK, Sent' \in Nat, NEW x \in Nat, NEW n \in Nat, Within(x, n),
           \/ cur_xid' = cur_xid /\ Sent' >= Sent
           \/ cur_xid' = cur_xid + 1
    PROVE  Within(x, n)'
BY NatFacts DEF Within

LEMMA AckStep ==
    TypeOK /\ NotingInv /\ AckInv /\ [Next]_vars => AckInv'
<1> SUFFICES ASSUME TypeOK, NotingInv, AckInv, [Next]_vars PROVE AckInv'
  OBVIOUS
<1> HIDE DEF AckInv
<1>1. CASE Silent
  BY <1>1 DEF Silent, AckInv, Within
<1>2. CASE StartServe \/ SendLiteral \/ SendEnd
  <2>1. PICK m \in Wire :
              /\ down' = Append(down, m) /\ m.xid = cur_xid' /\ m.upto <= Sent'
              /\ UNCHANGED <<incoming, up>> /\ Sent' \in Nat
              /\ StartServe => cur_xid' = cur_xid + 1 /\ cur_acked' = 0 /\ Sent' = 0
              /\ ~StartServe => cur_xid' = cur_xid /\ cur_acked' = cur_acked /\ Sent' >= Sent
    BY <1>2, SentFacts
  <2> DEFINE Still(x, n) == x <= cur_xid' /\ (x = cur_xid' => n <= Sent')
  <2>2. ASSUME NEW x \in Nat, NEW n \in Nat, Within(x, n) PROVE Still(x, n)
    BY <2>1, <2>2, WithinGrows DEF Within
  <2>3. cur_acked' <= Sent'
    BY <2>1, NatFacts DEF AckInv
  <2>4. ASSUME NEW i \in 1..Len(down') PROVE Still(down'[i].xid, down'[i].upto)
    <3>1. CASE i = Len(down) + 1
      <4>1. down'[i] = m
        BY <2>1, <3>1, NatFacts, AppendFacts
      <4>2. m.xid <= cur_xid'
        BY <2>1 DEF Wire
      <4> QED
        BY <2>1, <4>1, <4>2
    <3>2. CASE i \in 1..Len(down)
      <4>1. down'[i] = down[i] /\ down[i] \in Wire /\ Within(down[i].xid, down[i].upto)
        BY <2>1, <3>2, NatFacts, AppendFacts DEF AckInv
      <4>2. down[i].xid \in Nat /\ down[i].upto \in Nat
        BY <4>1 DEF Wire
      <4> QED
        BY <2>2, <4>1, <4>2
    <3>3. Len(down') = Len(down) + 1 /\ Len(down) \in Nat
      BY <2>1, NatFacts, AppendFacts
    <3>4. i = Len(down) + 1 \/ i \in 1..Len(down)
      BY <2>4, <3>3
    <3> QED
      BY <3>1, <3>2, <3>4
  <2>5. ASSUME NEW t \in incoming' PROVE Still(t.xid, t.on_wire)
    <3>1. t \in incoming /\ t \in Open
      BY <2>1, NatFacts
    <3>2. t.xid \in Nat /\ t.on_wire \in Nat
      BY <3>1 DEF Open
    <3> QED
      BY <2>2, <3>1, <3>2 DEF AckInv
  <2>6. ASSUME NEW i \in 1..Len(up') PROVE Still(up'[i].xid, up'[i].bytes)
    <3>1. up' = up /\ i \in 1..Len(up) /\ up \in Seq([xid : Nat, bytes : Nat])
      BY <2>1, NatFacts
    <3>2. up[i] \in [xid : Nat, bytes : Nat]
      BY <3>1, ElementFacts
    <3>3. Within(up[i].xid, up[i].bytes)
      BY <3>1 DEF AckInv
    <3> QED
      BY <2>2, <3>1, <3>2, <3>3
  <2> QED
    <3>1. (\A i \in 1..Len(down) : Within(down[i].xid, down[i].upto))'
      BY ONLY <2>4 DEF Within
    <3>2. (\A t \in incoming : Within(t.xid, t.on_wire))'
      BY ONLY <2>5 DEF Within
    <3>3. (\A i \in 1..Len(up) : Within(up[i].xid, up[i].bytes))'
      BY ONLY <2>6 DEF Within
    <3> QED
      BY ONLY <2>3, <3>1, <3>2, <3>3 DEF AckInv
<1>3. CASE RecvAck
  <2>1. /\ UNCHANGED <<down, incoming, cur_xid>> /\ Sent' = Sent /\ up # <<>> /\ up' = Tail(up)
        /\ \/ cur_acked' = cur_acked
           \/ cur_acked' = Head(up).bytes /\ Head(up).xid = cur_xid
    <3>1. Sent' = Sent
      BY <1>3, AckFacts DEF Sent
    <3> QED
      BY <1>3, <3>1, AckFacts
  <2>2. Head(up) = up[1] /\ 1 \in 1..Len(up)
    BY <2>1, UpFacts
  <2>3. cur_acked' <= Sent'
    BY <2>1, <2>2, NatFacts DEF AckInv, Within
  <2>4. ASSUME NEW i \in 1..Len(up') PROVE Within(up'[i].xid, up'[i].bytes)
    <3>1. up'[i] = up[i + 1] /\ i + 1 \in 1..Len(up)
      BY <2>1, UpFacts
    <3> QED
      BY <3>1 DEF AckInv
  <2> QED
    BY <2>1, <2>3, <2>4 DEF AckInv, Within
<1>4. CASE RecvStart \/ RecvLiteral \/ FailLiteral \/ RecvEnd \/ Ignore
  <2>1. /\ down # <<>> /\ down' = Tail(down) /\ UNCHANGED <<cur_xid, cur_acked>> /\ Sent' = Sent
        /\ Head(down) \in Wire /\ Head(down).xid \in Nat /\ Head(down).upto \in Nat
    BY <1>4, PeerSteps, DownFacts DEF Counts, Wire
  <2>2. Within(Head(down).xid, Head(down).upto) /\ Within(Head(down).xid, 0)
    BY <2>1, DownFacts, NatFacts DEF AckInv, Within
  <2>3. ASSUME NEW i \in 1..Len(down') PROVE Within(down'[i].xid, down'[i].upto)
    <3>1. down'[i] = down[i + 1] /\ i + 1 \in 1..Len(down)
      BY <2>1, DownFacts
    <3> QED
      BY <3>1 DEF AckInv
  <2>4. \A t \in incoming' : Within(t.xid, t.on_wire)
    BY <1>4, <2>2, PeerFacts DEF AckInv, Opens, Grown
  <2>5. \/ up' = up
        \/ \E x, n \in Nat : up' = Append(up, Ack(x, n)) /\ Within(x, n)
    <3>1. \A w \in incoming : w.xid \in Nat /\ w.on_wire \in Nat /\ Within(w.xid, w.on_wire)
      BY NatFacts DEF AckInv, Open
    <3> QED
      BY <1>4, <2>1, <2>2, <3>1, PeerFacts DEF Grown
  <2>6. ASSUME NEW i \in 1..Len(up') PROVE Within(up'[i].xid, up'[i].bytes)
    <3>1. CASE up' = up
      BY <3>1 DEF AckInv
    <3>2. ASSUME NEW x \in Nat, NEW n \in Nat, up' = Append(up, Ack(x, n)), Within(x, n)
          PROVE  Within(up'[i].xid, up'[i].bytes)
      <4>1. Ack(x, n) \in [xid : Nat, bytes : Nat] /\ Ack(x, n).xid = x /\ Ack(x, n).bytes = n
        BY DEF Ack
      <4>2. \/ i \in 1..Len(up) /\ up'[i] = up[i]
            \/ up'[i] = Ack(x, n)
        BY <3>2, <4>1, NatFacts, AppendFacts
      <4> QED
        BY <3>2, <4>1, <4>2 DEF AckInv
    <3> QED
      BY <2>5, <3>1, <3>2
  <2> QED
    BY <2>1, <2>3, <2>4, <2>6 DEF AckInv, Within
<1> QED
  BY <1>1, <1>2, <1>3, <1>4, StepKinds

\* An ack counted by the sender never exceeds what was sent.
THEOREM AcksHold == Spec => []AcksBelowSent
<1>1. Init => TypeOK /\ NotingInv /\ AckInv
  BY DEF Init, TypeOK, NotingInv, AckInv, Sent
<1>2. AckInv => AcksBelowSent
  BY DEF AckInv, AcksBelowSent, Sent
<1> QED
  BY <1>1, <1>2, TypeStep, NotingStep, AckStep, PTL DEF Spec

-----------------------------------------------------------------------------
(* No wake-up is lost.                                                     *)

\* A peer step consumes the first message; what is left was there.
LEMMA Consumed ==
    ASSUME TypeOK, RecvStart \/ RecvLiteral \/ FailLiteral \/ RecvEnd \/ Ignore
    PROVE  /\ Head(down) = down[1] /\ 1 \in 1..Len(down)
           /\ Len(down') = Len(down) - 1 /\ Len(down) \in Nat \ {0}
           /\ \A i \in 1..Len(down') : down'[i] = down[i + 1] /\ i + 1 \in 1..Len(down)
BY PeerSteps, DownFacts

LEMMA OnceStep ==
    TypeOK /\ NotingInv /\ AckInv /\ OpenedOnce /\ [Next]_vars => OpenedOnce'
<1> SUFFICES ASSUME TypeOK, NotingInv, AckInv, OpenedOnce, [Next]_vars PROVE OpenedOnce'
  OBVIOUS
<1>1. CASE Silent
  BY <1>1 DEF Silent, OpenedOnce
<1>2. CASE RecvAck
  BY <1>2, AckFacts DEF OpenedOnce
<1>3. CASE StartServe \/ SendLiteral \/ SendEnd
  <2>1. PICK m \in Wire :
              /\ down' = Append(down, m) /\ m.xid = cur_xid' /\ UNCHANGED incoming
              /\ m.op = "FileStart" => cur_xid' = cur_xid + 1 /\ m.upto = 0
    BY <1>3, SentFacts
  <2>2. /\ Len(down') = Len(down) + 1 /\ down'[Len(down) + 1] = m
        /\ Len(down) \in Nat /\ \A i \in 1..Len(down) : down'[i] = down[i]
    BY <2>1, NatFacts, AppendFacts
  <2>3. m.op = "FileStart" => /\ \A i \in 1..Len(down) : down[i].xid # m.xid
                              /\ \A t \in incoming : t.xid # m.xid
    <3>1. CASE m.op = "FileStart"
      <4>1. cur_xid' = cur_xid + 1 /\ m.xid = cur_xid' /\ cur_xid \in Nat
        BY <2>1, <3>1, Numbers
      <4>2. /\ \A i \in 1..Len(down) : down[i].xid <= cur_xid
            /\ \A t \in incoming : t.xid <= cur_xid
        BY DEF AckInv, Within
      <4> QED
        BY ONLY <4>1, <4>2
    <3> QED
      BY <3>1
  <2>4. ASSUME NEW i \in 1..Len(down'), NEW j \in 1..Len(down'), i < j,
               down'[j].op = "FileStart"
        PROVE  down'[i].xid # down'[j].xid
    <3>1. i \in 1..Len(down) /\ down'[i] = down[i]
      BY <2>2, <2>4
    <3>2. CASE j = Len(down) + 1
      BY <2>2, <2>3, <2>4, <3>1, <3>2
    <3>3. CASE j \in 1..Len(down)
      BY <2>2, <2>4, <3>1, <3>3 DEF OpenedOnce
    <3> QED
      BY <2>2, <3>2, <3>3
  <2>5. ASSUME NEW j \in 1..Len(down'), NEW t \in incoming', down'[j].op = "FileStart"
        PROVE  t.xid # down'[j].xid
    <3>1. CASE j = Len(down) + 1
      BY <2>1, <2>2, <2>3, <2>5, <3>1
    <3>2. CASE j \in 1..Len(down)
      BY <2>1, <2>2, <2>5, <3>2 DEF OpenedOnce
    <3> QED
      BY <2>2, <3>1, <3>2
  <2>6. ASSUME NEW i \in 1..Len(down'), down'[i].op = "FileStart" PROVE down'[i].upto = 0
    BY <2>1, <2>2, <2>6 DEF OpenedOnce
  <2> QED
    BY <2>1, <2>4, <2>5, <2>6 DEF OpenedOnce
<1>4. CASE RecvStart \/ RecvLiteral \/ FailLiteral \/ RecvEnd \/ Ignore
  <2>1. ASSUME NEW i \in 1..Len(down'), NEW j \in 1..Len(down'), i < j,
               down'[j].op = "FileStart"
        PROVE  down'[i].xid # down'[j].xid
    <3>1. /\ down'[i] = down[i + 1] /\ i + 1 \in 1..Len(down)
          /\ down'[j] = down[j + 1] /\ j + 1 \in 1..Len(down)
      BY <1>4, Consumed
    <3>2. i + 1 < j + 1
      BY ONLY <2>1, i \in 1..Len(down'), j \in 1..Len(down')
    <3> QED
      BY ONLY OpenedOnce, <2>1, <3>1, <3>2 DEF OpenedOnce
  <2>2. /\ \A t \in incoming' : t \in incoming \/ t.xid = Head(down).xid
        /\ \A t, u \in incoming' : t.xid = u.xid => t = u
    <3>1. CASE RecvStart
      <4>1. PICK t \in Open : Opens(t) /\ incoming' \subseteq incoming \union {t}
        BY <1>4, <3>1, PeerFacts DEF RecvStart, RecvLiteral, Receives, Ignore
      <4>2. t.xid = Head(down).xid /\ \A u \in incoming : u.xid # t.xid
        BY <1>4, <4>1, Consumed DEF Opens, OpenedOnce
      <4> QED
        BY <4>1, <4>2 DEF OpenedOnce
    <3>2. CASE ~RecvStart
      <4>1. \/ incoming' \subseteq incoming
            \/ \E w \in incoming, t \in Open :
                  /\ w.xid = Head(down).xid /\ t.xid = w.xid
                  /\ incoming' = (incoming \ {w}) \union {t}
        BY <1>4, <3>2, PeerFacts DEF Grown
      <4> QED
        BY <4>1 DEF OpenedOnce
    <3> QED
      BY <3>1, <3>2
  <2>3. ASSUME NEW j \in 1..Len(down'), NEW t \in incoming', down'[j].op = "FileStart"
        PROVE  t.xid # down'[j].xid
    <3>1. down'[j] = down[j + 1] /\ j + 1 \in 1..Len(down) /\ Head(down) = down[1]
          /\ 1 \in 1..Len(down) /\ 1 < j + 1
      BY <1>4, Consumed
    <3>2. down[j + 1].op = "FileStart" => down[1].xid # down[j + 1].xid
      BY <3>1 DEF OpenedOnce
    <3>3. CASE t \in incoming
      BY <2>3, <3>1, <3>3 DEF OpenedOnce
    <3> QED
      BY <2>2, <2>3, <3>1, <3>2, <3>3
  <2>4. ASSUME NEW i \in 1..Len(down'), down'[i].op = "FileStart" PROVE down'[i].upto = 0
    BY <1>4, <2>4, Consumed DEF OpenedOnce
  <2> QED
    BY <2>1, <2>2, <2>3, <2>4 DEF OpenedOnce
<1> QED
  BY <1>1, <1>2, <1>3, <1>4, StepKinds

LEMMA SaidStep ==
    TypeOK /\ NotingInv /\ OpenedOnce /\ Said /\ [Next]_vars => Said'
<1> SUFFICES ASSUME TypeOK, NotingInv, OpenedOnce, Said, [Next]_vars, Active' PROVE Said'
  BY DEF Said
<1>1. CASE Silent
  BY <1>1 DEF Silent, Said
<1>2. CASE RecvAck
  BY <1>2, AckFacts DEF Said, Sent, Active
<1>3. CASE StartServe \/ SendLiteral \/ SendEnd
  <2>1. PICK m \in Wire : down' = Append(down, m) /\ m.xid = cur_xid' /\ m.upto = Sent'
    BY <1>3, SentFacts
  <2>2. down' # <<>> /\ down'[Len(down')] = m
    BY <2>1, NatFacts, AppendFacts
  <2> QED
    BY <2>1, <2>2 DEF Said
<1>4. CASE RecvStart \/ RecvLiteral \/ FailLiteral \/ RecvEnd \/ Ignore
  <2>1. Active /\ cur_xid' = cur_xid /\ Sent' = Sent
    BY <1>4, PeerSteps DEF Counts
  <2>2. CASE Len(down) = 1 /\ down[1].xid = cur_xid /\ down[1].upto = Sent
    <3>1. Len(down') = 0 /\ Head(down) = down[1] /\ 1 \in 1..Len(down)
      BY <1>4, <2>2, Consumed
    <3>2. ASSUME NEW u \in incoming', u.xid = cur_xid PROVE u.on_wire = Sent
      <4>1. CASE RecvStart
        <5>1. PICK t \in Open : Opens(t) /\ incoming' \subseteq incoming \union {t}
          BY <1>4, <4>1, PeerFacts DEF RecvStart, RecvLiteral, Receives, Ignore
        <5>2. t.on_wire = 0 /\ Sent = 0 /\ \A w \in incoming : w.xid # cur_xid
          BY <2>2, <3>1, <5>1 DEF Opens, OpenedOnce
        <5> QED
          BY <3>2, <5>1, <5>2
      <4>2. CASE ~RecvStart
        <5>1. \/ \E w \in incoming, t \in Open :
                    /\ w.xid = cur_xid /\ t.on_wire = Sent
                    /\ incoming' = (incoming \ {w}) \union {t}
              \/ \E w \in incoming : w.xid = cur_xid /\ incoming' = incoming \ {w}
              \/ incoming' = incoming /\ \A t \in incoming : t.xid # cur_xid
          BY <1>4, <2>2, <3>1, <4>2, PeerFacts DEF Grown, IsOpen
        <5> QED
          BY <3>2, <5>1 DEF OpenedOnce
      <4> QED
        BY <4>1, <4>2
    <3> QED
      BY <2>1, <3>1, <3>2 DEF Said
  <2>3. CASE /\ Len(down) # 1
             /\ down[Len(down)].xid = cur_xid /\ down[Len(down)].upto = Sent
    <3>1. down' # <<>> /\ down'[Len(down')] = down[Len(down)]
      <4>1. Len(down') \in 1..Len(down') /\ Len(down') + 1 = Len(down)
        <5>1. Len(down') = Len(down) - 1 /\ Len(down) \in Nat \ {0}
          BY <1>4, Consumed
        <5> QED
          BY <2>3, <5>1
      <4>2. down'[Len(down')] = down[Len(down') + 1]
        BY <1>4, <4>1, Consumed
      <4>3. down' # <<>>
        BY <4>1
      <4> QED
        BY <4>1, <4>2, <4>3
    <3> QED
      BY <2>1, <2>3, <3>1 DEF Said
  <2>4. CASE /\ \A i \in 1..Len(down) : down[i].xid # cur_xid
             /\ \A t \in incoming : t.xid = cur_xid => t.on_wire = Sent
    <3>1. Head(down).xid # cur_xid /\ \A i \in 1..Len(down') : down'[i].xid # cur_xid
      BY <1>4, <2>4, Consumed
    <3>2. \A t \in incoming' : t \in incoming \/ t.xid = Head(down).xid
      BY <1>4, PeerFacts DEF Opens, Grown
    <3> QED
      BY <2>1, <2>4, <3>1, <3>2 DEF Said
  <2> QED
    BY <2>1, <2>2, <2>3, <2>4 DEF Said
<1> QED
  BY <1>1, <1>2, <1>3, <1>4, StepKinds

LEMMA AckedStep ==
    TypeOK /\ NotingInv /\ AckInv /\ AckedInv /\ [Next]_vars => AckedInv'
<1> SUFFICES ASSUME TypeOK, NotingInv, AckInv, AckedInv, [Next]_vars PROVE AckedInv'
  OBVIOUS
<1>1. CASE Silent
  BY <1>1 DEF Silent, AckedInv, Acked
<1>2. CASE RecvAck
  <2>1. /\ UNCHANGED <<incoming, cur_xid>> /\ up # <<>> /\ up' = Tail(up)
        /\ cur_acked' \in Nat /\ cur_acked' >= cur_acked
    BY <1>2, AckFacts
  <2>2. /\ Head(up) = up[1] /\ Head(up).bytes \in Nat /\ Len(up) \in Nat \ {0}
        /\ Len(up') = Len(up) - 1 /\ \A i \in 1..Len(up') : up'[i] = up[i + 1]
    BY <2>1, UpFacts
  <2>3. Head(up).xid = cur_xid => Head(up).bytes <= cur_acked'
    <3>1. \/ cur_acked' = cur_acked /\ ~(Head(up).xid = cur_xid /\ Head(up).bytes > cur_acked)
          \/ cur_acked' = Head(up).bytes
      BY <1>2, AckFacts
    <3>2. Head(up).bytes \in Nat /\ cur_acked \in Nat
      BY <2>2, Numbers
    <3> QED
      BY ONLY <3>1, <3>2
  <2>4. ASSUME NEW t \in incoming, t.xid = cur_xid PROVE Acked(t)'
    <3>1. t.last_ack \in Nat
      BY NatFacts DEF Open
    <3>2. CASE t.last_ack <= cur_acked
      <4>1. cur_acked \in Nat
        BY Numbers
      <4>2. t.last_ack <= cur_acked'
        BY ONLY <2>1, <3>1, <3>2, <4>1
      <4> QED
        BY <4>2 DEF Acked
    <3>3. ASSUME NEW i \in 1..Len(up), up[i].xid = t.xid, up[i].bytes >= t.last_ack
          PROVE  Acked(t)'
      <4>1. CASE i = 1
        BY <2>1, <2>2, <2>3, <2>4, <3>1, <3>3, <4>1 DEF Acked
      <4>2. CASE i # 1
        <5>1. i - 1 \in 1..Len(up') /\ up'[i - 1] = up[i]
          BY <2>2, <4>2
        <5> QED
          BY <3>3, <5>1 DEF Acked
      <4> QED
        BY <4>1, <4>2
    <3> QED
      BY <2>4, <3>2, <3>3 DEF AckedInv, Acked
  <2> QED
    BY <2>1, <2>4 DEF AckedInv
<1>3. CASE StartServe \/ SendLiteral \/ SendEnd
  <2>1. /\ UNCHANGED <<incoming, up>>
        /\ \/ cur_xid' = cur_xid + 1
           \/ cur_xid' = cur_xid /\ cur_acked' = cur_acked
    BY <1>3, SentFacts
  <2>2. \A t \in incoming : t.xid \in Nat /\ t.xid <= cur_xid
    BY NatFacts DEF AckInv, Within, Open
  <2>3. CASE cur_xid' = cur_xid + 1
    BY <2>1, <2>2, <2>3, NatFacts DEF AckedInv
  <2>4. CASE cur_xid' = cur_xid /\ cur_acked' = cur_acked
    BY <2>1, <2>4 DEF AckedInv, Acked
  <2> QED
    BY <2>1, <2>3, <2>4
<1>4. CASE RecvStart \/ RecvLiteral \/ FailLiteral \/ RecvEnd \/ Ignore
  <2>1. UNCHANGED <<cur_xid, cur_acked>> /\ Head(down) \in Wire /\ Head(down).upto \in Nat
    BY <1>4, PeerSteps, DownFacts DEF Counts, Wire
  <2>2. \A w \in incoming : w \in Open /\ w.xid \in Nat /\ w.on_wire \in Nat /\ w.last_ack \in Nat
    BY NatFacts DEF Open
  <2>3. \/ up' = up
        \/ \E x, n \in Nat : up' = Append(up, Ack(x, n))
    BY <1>4, <2>1, <2>2, PeerFacts DEF Grown
  <2>4. /\ Len(up) \in Nat /\ 1..Len(up) \subseteq 1..Len(up')
        /\ \A i \in 1..Len(up) : up'[i] = up[i]
    <3>1. \A x, n \in Nat : Ack(x, n) \in [xid : Nat, bytes : Nat]
      BY DEF Ack
    <3>2. ASSUME NEW x \in Nat, NEW n \in Nat, up' = Append(up, Ack(x, n))
          PROVE  Len(up') = Len(up) + 1 /\ \A i \in 1..Len(up) : up'[i] = up[i]
      BY <3>1, <3>2, NatFacts, AppendFacts
    <3>3. Len(up) \in Nat
      BY NatFacts
    <3> QED
      BY <2>3, <3>2, <3>3
  <2>5. ASSUME NEW w \in incoming, NEW t, t.xid = w.xid, t.last_ack = w.last_ack, Acked(w)
        PROVE  Acked(t)'
    BY <2>1, <2>4, <2>5 DEF Acked
  <2>6. ASSUME NEW t \in incoming', t \in incoming
        PROVE  t.on_wire - t.last_ack < AckInterval /\ (t.xid = cur_xid => Acked(t)')
    BY <2>5, <2>6 DEF AckedInv
  <2>7. ASSUME NEW t \in Open, Opens(t)
        PROVE  t.on_wire - t.last_ack < AckInterval /\ (t.xid = cur_xid => Acked(t)')
    <3>1. t.on_wire = 0 /\ t.last_ack = 0 /\ 0 <= cur_acked'
      BY <2>1, <2>7, NatFacts DEF Opens
    <3> QED
      BY <3>1, SizesAssumption DEF Acked
  <2>8. ASSUME NEW w \in incoming, NEW t \in Open, Grown(w, t)
        PROVE  t.on_wire - t.last_ack < AckInterval /\ (t.xid = cur_xid => Acked(t)')
    <3> DEFINE n == Head(down).upto
    <3>1. CASE n - w.last_ack >= AckInterval
      <4>1. /\ t.xid = w.xid /\ t.on_wire = n /\ t.last_ack = n
            /\ up' = Append(up, Ack(w.xid, n))
        BY <2>1, <2>2, <2>8, <3>1 DEF Grown
      <4>2. Ack(w.xid, n) \in [xid : Nat, bytes : Nat]
        BY <2>1, <2>2 DEF Ack
      <4>3. Len(up) + 1 \in 1..Len(up') /\ up'[Len(up) + 1] = Ack(w.xid, n)
        BY <4>1, <4>2, NatFacts, AppendFacts
      <4>4. up'[Len(up) + 1].xid = t.xid /\ up'[Len(up) + 1].bytes >= t.last_ack
        BY <2>1, <4>1, <4>3 DEF Ack
      <4>5. t.on_wire - t.last_ack < AckInterval
        BY <2>1, <4>1, SizesAssumption
      <4> QED
        BY <4>3, <4>4, <4>5 DEF Acked
    <3>2. CASE ~(n - w.last_ack >= AckInterval)
      <4>1. t.xid = w.xid /\ t.on_wire = n /\ t.last_ack = w.last_ack
        BY <2>1, <2>2, <2>8, <3>2 DEF Grown
      <4>2. t.xid = cur_xid => Acked(w)
        BY <4>1 DEF AckedInv
      <4>3. n - w.last_ack < AckInterval
        BY <2>1, <2>2, <3>2, SizesAssumption
      <4> QED
        BY <2>5, <4>1, <4>2, <4>3
    <3> QED
      BY <3>1, <3>2
  <2>9. \A t \in incoming' : \/ t \in incoming \/ (t \in Open /\ Opens(t))
                             \/ \E w \in incoming : t \in Open /\ Grown(w, t)
    BY <1>4, PeerFacts
  <2> QED
    BY <2>1, <2>6, <2>7, <2>8, <2>9 DEF AckedInv
<1> QED
  BY <1>1, <1>2, <1>3, <1>4, StepKinds

LEMMA AsleepStep ==
    TypeOK /\ AsleepInv /\ [Next]_vars => AsleepInv'
<1> SUFFICES ASSUME TypeOK, AsleepInv, [Next]_vars PROVE AsleepInv'
  OBVIOUS
<1>1. CASE TestWindow
  <2>1. /\ pc' \in {"asleep", "send", "idle"} /\ pc' = "asleep" => ~WindowOpen
        /\ UNCHANGED <<running, stopper, cur_sent, cur_acked>>
    BY <1>1 DEF TestWindow
  <2>2. ~WindowOpen => running /\ cur_sent - cur_acked > Window
    <3>1. cur_sent \in Nat /\ cur_acked \in Nat /\ Window \in Nat
      BY Numbers, SizesAssumption
    <3>2. ~WindowOpen => running /\ ~(cur_sent - cur_acked <= Window)
      BY DEF WindowOpen
    <3> QED
      BY ONLY <3>1, <3>2
  <2> QED
    BY <2>1, <2>2 DEF AsleepInv
<1>2. CASE NotifyAck \/ NotifyStop
  BY <1>2 DEF TypeOK, AsleepInv, NotifyAck, NotifyStop, Woken
<1>3. CASE RecvAck
  BY <1>3 DEF TypeOK, AsleepInv, RecvAck, sender
<1>4. CASE Stop
  BY <1>4 DEF TypeOK, AsleepInv, Stop, sender
<1>5. CASE StartServe \/ SendLiteral \/ NoteSent \/ SendEnd \/ SenderReturns
  BY <1>5 DEF AsleepInv, StartServe, SendLiteral, NoteSent, SendEnd, SenderReturns
<1>6. CASE RecvRequest \/ PeerReactor \/ UNCHANGED vars
  <2>1. UNCHANGED <<running, stopper, pc, cur_sent, cur_acked, reactor>>
    BY <1>6 DEF RecvRequest, PeerReactor, RecvStart, RecvLiteral, FailLiteral,
                RecvEnd, Ignore, vars, sender
  <2> QED
    BY <2>1 DEF AsleepInv
<1> QED
  BY <1>1, <1>2, <1>3, <1>4, <1>5, <1>6 DEF Next, Sender, Reactor

\* More than a window is out and less than an interval is unacknowledged at the peer.
LEMMA OwedBytes ==
    ASSUME NEW s \in Nat, NEW a \in Nat, NEW l \in Nat, NEW w \in Nat, NEW k \in Nat,
           s - a > w, s - l < k, k <= w + 1
    PROVE  l > a
OBVIOUS

\* For every window and interval that fits it: a sender asleep has a wake-up coming.
THEOREM WakeUpsAreOwed == Spec => []SleepIsOwed
<1> DEFINE Inv == TypeOK /\ NotingInv /\ AckInv /\ OpenedOnce /\ Said /\ AckedInv /\ AsleepInv
<1>1. Init => Inv
  BY DEF Init, TypeOK, NotingInv, AckInv, OpenedOnce, Said, Active, AckedInv, AsleepInv, Sent
<1>2. Inv /\ [Next]_vars => Inv'
  BY TypeStep, NotingStep, AckStep, OnceStep, SaidStep, AckedStep, AsleepStep
<1>3. Inv => SleepIsOwed
  <2> SUFFICES ASSUME Inv, pc = "asleep", reactor # "notify",
                      \A i \in 1..Len(down) : down[i].xid # cur_xid,
                      NEW t \in incoming, t.xid = cur_xid
               PROVE  \E i \in 1..Len(up) : up[i].xid = cur_xid /\ up[i].bytes > cur_acked
    BY DEF SleepIsOwed, IsOpen
  <2>1. cur_sent - cur_acked > Window /\ noting = 0
    BY DEF AsleepInv, NotingInv
  <2>2. t.on_wire = cur_sent
    <3>1. Active
      BY DEF Active
    <3>2. down # <<>> => Len(down) \in 1..Len(down)
      BY NatFacts
    <3>3. t.on_wire = Sent
      BY <3>1, <3>2 DEF Said
    <3> QED
      BY <2>1, <3>3, NatFacts DEF Sent
  <2>3. t.on_wire - t.last_ack < AckInterval /\ Acked(t)
    BY DEF AckedInv
  <2>4. t.last_ack \in Nat
    BY NatFacts DEF Open
  <2>5. t.last_ack > cur_acked
    <3>1. cur_sent \in Nat /\ cur_acked \in Nat
      BY Numbers
    <3>2. cur_sent - t.last_ack < AckInterval
      BY <2>2, <2>3
    <3>3. AckInterval \in Nat /\ Window \in Nat /\ AckInterval <= Window + 1
      BY SizesAssumption, IntervalFitsWindow
    <3> QED
      BY ONLY <2>1, <2>4, <3>1, <3>2, <3>3, OwedBytes
  <2>6. PICK i \in 1..Len(up) : up[i].xid = t.xid /\ up[i].bytes >= t.last_ack
    <3>1. ~(t.last_ack <= cur_acked)
      <4>1. cur_acked \in Nat
        BY Numbers
      <4> QED
        BY ONLY <2>4, <2>5, <4>1
    <3> QED
      BY ONLY <2>3, <3>1 DEF Acked
  <2>7. up[i].bytes \in Nat
    <3>1. up \in Seq([xid : Nat, bytes : Nat])
      BY NatFacts
    <3>2. up[i] \in [xid : Nat, bytes : Nat]
      BY <3>1, ElementFacts
    <3> QED
      BY <3>2
  <2> QED
    <3>1. cur_acked \in Nat
      BY Numbers
    <3>2. up[i].bytes > cur_acked
      BY ONLY <2>4, <2>5, <2>6, <2>7, <3>1
    <3> QED
      BY <2>6, <3>2
<1> QED
  BY <1>1, <1>2, <1>3, PTL DEF Spec
=============================================================================
