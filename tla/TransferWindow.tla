--------------------------- MODULE TransferWindow ---------------------------
(***************************************************************************)
(* How one session serves (net/sync_session.cpp): its sender thread takes  *)
(* one request at a time and streams the file, at most window_bytes ahead  *)
(* of what the peer has acknowledged; the peer acknowledges every          *)
(* kAckInterval bytes and at the end.  The sender sleeps on a condition    *)
(* variable while the window is full: the reactor wakes it when an ack     *)
(* arrives, and stop() when the session ends.                              *)
(*                                                                         *)
(* A literal on the wire is represented by the position it ends at, the    *)
(* sum of the sizes before it, its own included.  Copies of a delta carry  *)
(* no bytes and are left out, and so is the node-wide gate (send_gate.h),  *)
(* which delays a send and never refuses it.                               *)
(***************************************************************************)
EXTENDS Integers, Sequences, FiniteSets

CONSTANTS Window,       \* window_bytes
          AckInterval,  \* kAckInterval
          Sizes,        \* the sizes of a literal
          MaxBytes, MaxServes, MaxFaults  \* bounds: size of a file, requests, failures

ASSUME SizesAssumption == /\ Window \in Nat
                          /\ AckInterval \in Nat \ {0}
                          /\ Sizes \subseteq Nat \ {0}
                          /\ {MaxBytes, MaxServes, MaxFaults} \subseteq Nat

\* The window admits what may be received and not yet acknowledged.
ASSUME IntervalFitsWindow == AckInterval <= Window + 1

VARIABLES
    serve_q,   \* requests waiting
    pc,        \* where the sender thread is
    noting,    \* bytes sent and not yet counted by note_sent
    cur_xid, cur_sent, cur_acked,
    running,   \* running_
    stopper,   \* where the thread in stop() is
    reactor,   \* where the reactor is in handle_file_ack
    down,      \* messages on their way to the peer
    incoming,  \* the transfers open at the peer
    up,        \* acks on their way back
    served, faults

sender == <<pc, noting, cur_xid, cur_sent>>
vars == <<serve_q, sender, cur_acked, running, stopper, reactor, down, incoming, up, served, faults>>

Start(x)      == [op |-> "FileStart", xid |-> x, upto |-> 0]
Literal(x, n) == [op |-> "FileLiteral", xid |-> x, upto |-> n]
End(x)        == [op |-> "FileEnd", xid |-> x, upto |-> 0]
Ack(x, n)     == [xid |-> x, bytes |-> n]

TypeOK == /\ serve_q \in Nat
          /\ pc \in {"idle", "send", "note", "test", "asleep", "done"}
          /\ {noting, cur_xid, cur_sent, cur_acked, served, faults} \subseteq Nat
          /\ running \in BOOLEAN
          /\ stopper \in {"no", "flagged", "joining"}
          /\ reactor \in {"ready", "notify"}
          /\ down \in Seq([op : {"FileStart", "FileLiteral", "FileEnd"}, xid : Nat, upto : Nat])
          /\ incoming \subseteq [xid : Nat, on_wire : Nat, last_ack : Nat]
          /\ up \in Seq([xid : Nat, bytes : Nat])

Init == /\ serve_q = 0 /\ pc = "idle" /\ noting = 0
        /\ cur_xid = 0 /\ cur_sent = 0 /\ cur_acked = 0
        /\ running = TRUE /\ stopper = "no" /\ reactor = "ready"
        /\ down = <<>> /\ incoming = {} /\ up = <<>>
        /\ served = 0 /\ faults = 0

-----------------------------------------------------------------------------
(* The sender thread.                                                      *)

\* handle_request queues a job.
RecvRequest ==
    /\ running /\ served < MaxServes
    /\ served' = served + 1
    /\ serve_q' = serve_q + 1
    /\ UNCHANGED <<sender, cur_acked, running, stopper, reactor, down, incoming, up, faults>>

\* The queue is drained even when the session is stopping.
StartServe ==
    /\ pc = "idle" /\ serve_q > 0
    /\ serve_q' = serve_q - 1
    /\ cur_xid' = cur_xid + 1 /\ cur_sent' = 0 /\ cur_acked' = 0
    /\ down' = Append(down, Start(cur_xid'))
    /\ pc' = "send"
    /\ UNCHANGED <<noting, running, stopper, reactor, incoming, up, served, faults>>

SendLiteral ==
    /\ pc = "send"
    /\ \E n \in Sizes : /\ cur_sent + n <= MaxBytes
                        /\ down' = Append(down, Literal(cur_xid, cur_sent + n))
                        /\ noting' = n
    /\ pc' = "note"
    /\ UNCHANGED <<serve_q, cur_xid, cur_sent, cur_acked, running, stopper, reactor,
                   incoming, up, served, faults>>

\* Mutant: sent bytes are taken off the count.
NoteSentBackwards ==
    /\ pc = "note"
    /\ cur_sent' = cur_sent - noting
    /\ noting' = 0
    /\ pc' = "test"
    /\ UNCHANGED <<serve_q, cur_xid, cur_acked, running, stopper, reactor, down,
                   incoming, up, served, faults>>

\* An ack for the literal may have come before this.
NoteSent ==
    /\ pc = "note"
    /\ cur_sent' = cur_sent + noting
    /\ noting' = 0
    /\ pc' = "test"
    /\ UNCHANGED <<serve_q, cur_xid, cur_acked, running, stopper, reactor, down,
                   incoming, up, served, faults>>

WindowOpen == \/ ~running
              \/ cur_acked >= cur_sent
              \/ cur_sent - cur_acked <= Window

\* window_wait: test and fall asleep under one lock; a stopped session abandons
\* the file.
TestWindow ==
    /\ pc = "test"
    /\ pc' = IF ~WindowOpen THEN "asleep" ELSE IF running THEN "send" ELSE "idle"
    /\ UNCHANGED <<serve_q, noting, cur_xid, cur_sent, cur_acked, running, stopper, reactor,
                   down, incoming, up, served, faults>>

SendEnd ==
    /\ pc = "send"
    /\ down' = Append(down, End(cur_xid))
    /\ pc' = "idle"
    /\ UNCHANGED <<serve_q, noting, cur_xid, cur_sent, cur_acked, running, stopper, reactor,
                   incoming, up, served, faults>>

SenderReturns ==
    /\ pc = "idle" /\ serve_q = 0 /\ ~running
    /\ pc' = "done"
    /\ UNCHANGED <<serve_q, noting, cur_xid, cur_sent, cur_acked, running, stopper, reactor,
                   down, incoming, up, served, faults>>

-----------------------------------------------------------------------------
(* The reactor of this side, and the thread that stops the session.        *)

\* Mutant: the window is not looked at again.
WokenBlindly == IF pc = "asleep" THEN "send" ELSE pc

Woken == IF pc = "asleep" THEN "test" ELSE pc

\* Mutants: an ack of any transfer counts; nobody is told.
RecvAckAny ==
    /\ reactor = "ready" /\ up # <<>>
    /\ cur_acked' = IF Head(up).bytes > cur_acked THEN Head(up).bytes ELSE cur_acked
    /\ up' = Tail(up)
    /\ reactor' = "notify"
    /\ UNCHANGED <<serve_q, sender, running, stopper, down, incoming, served, faults>>
RecvAckSilent ==
    /\ reactor = "ready" /\ up # <<>>
    /\ cur_acked' = IF Head(up).xid = cur_xid /\ Head(up).bytes > cur_acked
                    THEN Head(up).bytes ELSE cur_acked
    /\ up' = Tail(up)
    /\ UNCHANGED <<serve_q, sender, running, stopper, reactor, down, incoming, served, faults>>

\* handle_file_ack: count the ack under the lock...
RecvAck ==
    /\ reactor = "ready" /\ up # <<>>
    /\ cur_acked' = IF Head(up).xid = cur_xid /\ Head(up).bytes > cur_acked
                    THEN Head(up).bytes ELSE cur_acked
    /\ up' = Tail(up)
    /\ reactor' = "notify"
    /\ UNCHANGED <<serve_q, sender, running, stopper, down, incoming, served, faults>>

\* ...and notify after it.
NotifyAck ==
    /\ reactor = "notify"
    /\ pc' = Woken
    /\ reactor' = "ready"
    /\ UNCHANGED <<serve_q, noting, cur_xid, cur_sent, cur_acked, running, stopper, down,
                   incoming, up, served, faults>>

\* stop: the flag first, then the notification with the lock taken.
Stop ==
    /\ stopper = "no"
    /\ stopper' = "flagged"
    /\ running' = FALSE
    /\ UNCHANGED <<serve_q, sender, cur_acked, reactor, down, incoming, up, served, faults>>

\* Mutant: a sender already asleep is left there.
NotifyStopNobody ==
    /\ stopper = "flagged"
    /\ stopper' = "joining"
    /\ UNCHANGED <<serve_q, sender, cur_acked, running, reactor, down, incoming, up, served, faults>>

NotifyStop ==
    /\ stopper = "flagged"
    /\ stopper' = "joining"
    /\ pc' = Woken
    /\ UNCHANGED <<serve_q, noting, cur_xid, cur_sent, cur_acked, running, reactor, down,
                   incoming, up, served, faults>>

-----------------------------------------------------------------------------
(* The peer's reactor.                                                     *)

Receives(op) == down # <<>> /\ Head(down).op = op

Fault == faults < MaxFaults /\ faults' = faults + 1

\* The transfer is opened, or refused: then whatever follows is ignored.
RecvStart ==
    /\ Receives("FileStart")
    /\ \/ /\ incoming' = incoming \union
                           {[xid |-> Head(down).xid, on_wire |-> 0, last_ack |-> 0]}
          /\ UNCHANGED faults
       \/ Fault /\ UNCHANGED incoming
    /\ down' = Tail(down)
    /\ UNCHANGED <<serve_q, sender, cur_acked, running, stopper, reactor, up, served>>

IsOpen(x) == \E t \in incoming : t.xid = x

\* Mutant: only the end is acknowledged.
RecvLiteralSilent ==
    /\ Receives("FileLiteral")
    /\ \E t \in incoming :
          /\ t.xid = Head(down).xid
          /\ incoming' = (incoming \ {t}) \union {[t EXCEPT !.on_wire = Head(down).upto]}
    /\ down' = Tail(down)
    /\ UNCHANGED <<serve_q, sender, cur_acked, running, stopper, reactor, up, served, faults>>

\* The bytes are written, and acknowledged once kAckInterval have come in.
RecvLiteral ==
    /\ Receives("FileLiteral")
    /\ \E t \in incoming :
          /\ t.xid = Head(down).xid
          /\ LET n == Head(down).upto
                 due == n - t.last_ack >= AckInterval
             IN  /\ incoming' = (incoming \ {t}) \union
                                  {[t EXCEPT !.on_wire = n, !.last_ack = IF due THEN n ELSE @]}
                 /\ up' = IF due THEN Append(up, Ack(t.xid, n)) ELSE up
    /\ down' = Tail(down)
    /\ UNCHANGED <<serve_q, sender, cur_acked, running, stopper, reactor, served, faults>>

\* fail_incoming: a write that fails ends the transfer here, and tells nobody.
FailLiteral ==
    /\ Receives("FileLiteral")
    /\ Fault
    /\ \E t \in incoming : t.xid = Head(down).xid /\ incoming' = incoming \ {t}
    /\ down' = Tail(down)
    /\ UNCHANGED <<serve_q, sender, cur_acked, running, stopper, reactor, up, served>>

\* finalize_incoming acknowledges all that came, unless the digest differs.
RecvEnd ==
    /\ Receives("FileEnd")
    /\ \E t \in incoming :
          /\ t.xid = Head(down).xid
          /\ incoming' = incoming \ {t}
          /\ \/ up' = Append(up, Ack(t.xid, t.on_wire)) /\ UNCHANGED faults
             \/ Fault /\ UNCHANGED up
    /\ down' = Tail(down)
    /\ UNCHANGED <<serve_q, sender, cur_acked, running, stopper, reactor, served>>

\* Whatever belongs to a transfer that is not open.
Ignore ==
    /\ down # <<>> /\ Head(down).op # "FileStart" /\ ~IsOpen(Head(down).xid)
    /\ down' = Tail(down)
    /\ UNCHANGED <<serve_q, sender, cur_acked, running, stopper, reactor, incoming, up,
                   served, faults>>

-----------------------------------------------------------------------------
Sender == StartServe \/ SendLiteral \/ NoteSent \/ TestWindow \/ SendEnd \/ SenderReturns
Reactor == RecvAck \/ NotifyAck
PeerReactor == RecvStart \/ RecvLiteral \/ FailLiteral \/ RecvEnd \/ Ignore

Next == RecvRequest \/ Sender \/ Reactor \/ PeerReactor \/ Stop \/ NotifyStop

Spec == Init /\ [][Next]_vars

\* Threads keep running; nobody has to stop the session, and no request has to come.
FairSpec == /\ Spec
            /\ WF_vars(Sender) /\ WF_vars(Reactor) /\ WF_vars(PeerReactor)
            /\ WF_vars(NotifyStop)

-----------------------------------------------------------------------------
(* Properties.                                                             *)

\* protocol.h: "Bulk data is windowed (FileAck) so a large file never trips librats'
\* per-connection send high-water mark": what is out and not acknowledged exceeds
\* the window by no more than the literal that filled it.
InFlightBounded ==
    running => \/ cur_sent + noting <= cur_acked + Window
               \/ \E n \in Sizes : cur_sent + noting <= cur_acked + Window + n

\* An ack never claims bytes that were not sent: the case window_wait guards
\* against ("runs ahead of our own counter") lasts only until note_sent.
AcksBelowSent == cur_acked <= cur_sent + noting

\* A sender asleep on a full window is owed a wake-up: a literal or an ack of its
\* transfer is on the way, or the reactor or stop() is about to notify it; unless
\* the peer has dropped the transfer.
SleepIsOwed ==
    pc = "asleep" =>
        \/ \E i \in 1..Len(down) : down[i].xid = cur_xid
        \/ \E i \in 1..Len(up) : up[i].xid = cur_xid /\ up[i].bytes > cur_acked
        \/ reactor = "notify" \/ stopper = "flagged"
        \/ ~IsOpen(cur_xid)

\* stop() can join the sender thread, whatever it was doing.
StopJoins == stopper = "flagged" ~> pc = "done"

Drained == serve_q = 0 /\ pc \in {"idle", "done"}

\* protocol.h: "every request is answered, so the asker can free the pull-window
\* slot it holds": every request is served, while no transfer fails at the peer.
AnsweredUnlessFailed == serve_q > 0 ~> Drained \/ faults > 0
=============================================================================
