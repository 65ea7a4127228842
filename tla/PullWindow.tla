----------------------------- MODULE PullWindow -----------------------------
(***************************************************************************)
(* How one session pulls (net/sync_session.cpp): a round reserves paths,   *)
(* the requester thread asks for them, never more than max_pending_pulls   *)
(* at a time, and the peer's sender answers each request with a file or    *)
(* with NotFound.  A reservation is given back when its answer has been    *)
(* dealt with, however that ended; a delta that does not verify is asked   *)
(* for once more, as a whole file, and keeps its reservation.              *)
(*                                                                         *)
(* The request channel and the peer's serve queue are one FIFO: handlers   *)
(* move a request from one to the other unchanged.  A file is a start, one *)
(* chunk and an end.  The session lasts: what a lost connection does is in *)
(* SyncPair.                                                               *)
(***************************************************************************)
EXTENDS Integers, Sequences, FiniteSets, Functions

CONSTANTS Path, MaxPendingPulls,
          MaxRounds, MaxFaults  \* bounds: rounds of reconciliation, failures

ASSUME WindowAssumption == /\ IsFiniteSet(Path)
                           /\ MaxPendingPulls \in Nat
                           /\ MaxRounds \in Nat
                           /\ MaxFaults \in Nat

VARIABLES pulling,    \* the paths reserved
          pull_queue, \* those not yet asked for
          asked,      \* requests on their way to the peer, or in its serve queue
          serving,    \* the transfer the peer's sender thread is working on
          next_xid,   \* the peer's transfer counter
          wire,       \* answers on their way back
          incoming,   \* transfers open here
          rounds, faults

vars == <<pulling, pull_queue, asked, serving, next_xid, wire, incoming, rounds, faults>>

Xid == Nat \ {0}
Ask == [path : Path, sig : BOOLEAN]
Transfer == [xid : Nat, path : Path, delta : BOOLEAN]

Start(t)    == [op |-> "FileStart", xid |-> t.xid, path |-> t.path, delta |-> t.delta]
Chunk(t)    == [op |-> "FileLiteral", xid |-> t.xid, path |-> t.path, delta |-> t.delta]
End(t)      == [op |-> "FileEnd", xid |-> t.xid, path |-> t.path, delta |-> t.delta]
NotFound(f) == [op |-> "NotFound", xid |-> 0, path |-> f, delta |-> FALSE]

Message == [op : {"FileStart", "FileLiteral", "FileEnd", "NotFound"},
            xid : Nat, path : Path, delta : BOOLEAN]

\* What the sender thread has left to send of the file in hand.
Job == [t : Transfer, left : {"FileLiteral", "FileEnd"}]

TypeOK == /\ pulling \subseteq Path
          /\ pull_queue \in Seq(Path)
          /\ asked \in Seq(Ask)
          /\ serving \subseteq Job
          /\ next_xid \in Xid
          /\ wire \in Seq(Message)
          /\ incoming \subseteq Transfer
          /\ rounds \in 0..MaxRounds
          /\ faults \in 0..MaxFaults

\* Mutant: transfers are counted from zero.
InitFromZero == /\ pulling = {} /\ pull_queue = <<>> /\ asked = <<>>
                /\ serving = {} /\ next_xid = 0 /\ wire = <<>> /\ incoming = {}
                /\ rounds = 0 /\ faults = 0

Init == /\ pulling = {} /\ pull_queue = <<>> /\ asked = <<>>
        /\ serving = {} /\ next_xid = 1 /\ wire = <<>> /\ incoming = {}
        /\ rounds = 0 /\ faults = 0

InFlight == Cardinality(pulling) - Len(pull_queue)

-----------------------------------------------------------------------------
(* This side: reserving and asking.                                        *)

Orderings(S) == Bijection(1..Cardinality(S), S)

\* The end of reconcile_and_act: reserve what the plan wants and is not
\* reserved yet.
Reserve(want) ==
    /\ rounds < MaxRounds
    /\ rounds' = rounds + 1
    /\ pulling' = pulling \union want
    /\ \E new \in Orderings(want \ pulling) : pull_queue' = pull_queue \o new
    /\ UNCHANGED <<asked, serving, next_xid, wire, incoming, faults>>

\* Mutant: one request more than the window has room for.
SendRequestOver ==
    /\ pull_queue # <<>>
    /\ InFlight <= MaxPendingPulls
    /\ pull_queue' = Tail(pull_queue)
    /\ asked' = Append(asked, [path |-> Head(pull_queue), sig |-> FALSE])
    /\ UNCHANGED <<pulling, serving, next_xid, wire, incoming, rounds, faults>>

\* requester_loop and send_request; a signature goes along if we have the file.
SendRequest ==
    /\ pull_queue # <<>>
    /\ InFlight < MaxPendingPulls
    /\ pull_queue' = Tail(pull_queue)
    /\ \E sig \in BOOLEAN : asked' = Append(asked, [path |-> Head(pull_queue), sig |-> sig])
    /\ UNCHANGED <<pulling, serving, next_xid, wire, incoming, rounds, faults>>

-----------------------------------------------------------------------------
(* The peer's sender thread: one job at a time, in order.                  *)

\* A path that is gone, or cannot be read.
ServeNotFound ==
    /\ serving = {} /\ asked # <<>>
    /\ asked' = Tail(asked)
    /\ wire' = Append(wire, NotFound(Head(asked).path))
    /\ UNCHANGED <<pulling, pull_queue, serving, next_xid, incoming, rounds, faults>>

\* A request that came with a signature may be answered by a delta.
ServeStart ==
    /\ serving = {} /\ asked # <<>>
    /\ asked' = Tail(asked)
    /\ next_xid' = next_xid + 1
    /\ \E delta \in {FALSE, Head(asked).sig} :
          LET t == [xid |-> next_xid, path |-> Head(asked).path, delta |-> delta]
          IN  /\ wire' = Append(wire, Start(t))
              /\ serving' = {[t |-> t, left |-> "FileLiteral"]}
    /\ UNCHANGED <<pulling, pull_queue, incoming, rounds, faults>>

\* Mutant: the thread returns without the end.
ServeChunkOnly ==
    \E j \in serving :
        /\ wire' = Append(wire, Chunk(j.t))
        /\ serving' = {}
        /\ UNCHANGED <<pulling, pull_queue, asked, next_xid, incoming, rounds, faults>>

ServeChunk ==
    \E j \in serving :
        /\ j.left = "FileLiteral"
        /\ wire' = Append(wire, Chunk(j.t))
        /\ serving' = {[j EXCEPT !.left = "FileEnd"]}
        /\ UNCHANGED <<pulling, pull_queue, asked, next_xid, incoming, rounds, faults>>

ServeEnd ==
    \E j \in serving :
        /\ j.left = "FileEnd"
        /\ wire' = Append(wire, End(j.t))
        /\ serving' = {}
        /\ UNCHANGED <<pulling, pull_queue, asked, next_xid, incoming, rounds, faults>>

-----------------------------------------------------------------------------
(* This side again: the reactor takes the answers in order.                *)

Receives(op) == wire # <<>> /\ Head(wire).op = op

\* release_pull
Release(f) == pulling' = pulling \ {f}

\* A failure leaves the window as it was but for the reservation.
Fault == faults < MaxFaults /\ faults' = faults + 1

\* Mutant: a header that cannot be honoured is dropped in silence.
RecvStartSilent ==
    /\ Receives("FileStart")
    /\ Fault /\ UNCHANGED <<pulling, incoming>>
    /\ wire' = Tail(wire)
    /\ UNCHANGED <<pull_queue, asked, serving, next_xid, rounds>>

\* The temp file or the base cannot be opened: the path is handed back.
RecvStart ==
    /\ Receives("FileStart")
    /\ LET m == Head(wire)
       IN  \/ /\ incoming' = incoming \union
                             {[xid |-> m.xid, path |-> m.path, delta |-> m.delta]}
              /\ UNCHANGED <<pulling, faults>>
           \/ Fault /\ Release(m.path) /\ UNCHANGED incoming
    /\ wire' = Tail(wire)
    /\ UNCHANGED <<pull_queue, asked, serving, next_xid, rounds>>

\* The transfer a message belongs to, if it is still open.
Open(m) == {t \in incoming : t.xid = m.xid}

\* A write that fails ends the transfer; chunks of a transfer already dropped are
\* ignored.
RecvChunk ==
    /\ Receives("FileLiteral")
    /\ \/ UNCHANGED <<incoming, pulling, faults>>
       \/ \E t \in Open(Head(wire)) :
             Fault /\ Release(t.path) /\ incoming' = incoming \ {t}
    /\ wire' = Tail(wire)
    /\ UNCHANGED <<pull_queue, asked, serving, next_xid, rounds>>

\* The file is verified and moved into place, or the move fails: either way the
\* path is released.
RecvEnd ==
    /\ Receives("FileEnd")
    /\ \E t \in Open(Head(wire)) : Release(t.path) /\ incoming' = incoming \ {t}
    /\ wire' = Tail(wire)
    /\ UNCHANGED <<pull_queue, asked, serving, next_xid, rounds, faults>>

\* The digest differs: a delta is asked for again without a signature, a whole
\* file is given up.
RecvBadEnd ==
    /\ Receives("FileEnd")
    /\ Fault
    /\ \E t \in Open(Head(wire)) :
          /\ incoming' = incoming \ {t}
          /\ IF t.delta
             THEN /\ asked' = Append(asked, [path |-> t.path, sig |-> FALSE])
                  /\ UNCHANGED pulling
             ELSE Release(t.path) /\ UNCHANGED asked
    /\ wire' = Tail(wire)
    /\ UNCHANGED <<pull_queue, serving, next_xid, rounds>>

RecvStaleEnd ==
    /\ Receives("FileEnd")
    /\ Open(Head(wire)) = {}
    /\ wire' = Tail(wire)
    /\ UNCHANGED <<pulling, pull_queue, asked, serving, next_xid, incoming, rounds, faults>>

\* Mutant: the path is not handed back.
RecvNotFoundKept ==
    /\ Receives("NotFound")
    /\ wire' = Tail(wire)
    /\ UNCHANGED <<pulling, pull_queue, asked, serving, next_xid, incoming, rounds, faults>>

RecvNotFound ==
    /\ Receives("NotFound")
    /\ Release(Head(wire).path)
    /\ wire' = Tail(wire)
    /\ UNCHANGED <<pull_queue, asked, serving, next_xid, incoming, rounds, faults>>

-----------------------------------------------------------------------------
Serve   == ServeNotFound \/ ServeStart \/ ServeChunk \/ ServeEnd
Receive == RecvStart \/ RecvChunk \/ RecvEnd \/ RecvBadEnd \/ RecvStaleEnd \/ RecvNotFound

Next == \/ \E want \in SUBSET Path : Reserve(want)
        \/ SendRequest \/ Serve \/ Receive

Spec == Init /\ [][Next]_vars

\* The requester, the peer's sender (TransferWindow tells when it may block) and
\* the reactor keep running.
FairSpec == Spec /\ WF_vars(SendRequest) /\ WF_vars(Serve) /\ WF_vars(Receive)

-----------------------------------------------------------------------------
(* Properties.                                                             *)

\* "The difference of the two sizes is what is in flight" never exceeds the
\* window, retries included: requests in front of the peer, each holding a
\* signature, are bounded.
WindowRespected == InFlight <= MaxPendingPulls

\* Where an answer for f can be: in a request, in the first message of an answer,
\* in an open transfer.
InQueue(f)  == {i \in 1..Len(pull_queue) : pull_queue[i] = f}
InAsked(f)  == {i \in 1..Len(asked) : asked[i].path = f}
InAnswer(f) == {i \in 1..Len(wire) : wire[i].path = f /\ wire[i].op \in {"FileStart", "NotFound"}}
Arriving(f) == {t \in incoming : t.path = f}

Places(f) == {<<"pull_queue", i>> : i \in InQueue(f)} \union {<<"asked", i>> : i \in InAsked(f)}
                \union {<<"wire", i>> : i \in InAnswer(f)} \union {<<"incoming", t>> : t \in Arriving(f)}

\* Every reservation is either still queued, once, or owed exactly one answer; and
\* nothing else is under way.  So no window slot is lost for good, and no answer
\* can release somebody else's reservation ("every one of them is either still in
\* pull_queue_ or has been requested and is awaiting data").
SlotsAreOwed ==
    \A f \in Path : /\ f \in pulling => \E p \in Places(f) : Places(f) = {p}
                    /\ f \notin pulling => Places(f) = {}

\* No transfer stays open after its last message: the FileEnd that closes it is on
\* the wire or still to be sent.
TransfersEnd ==
    \A t \in incoming :
        \/ \E j \in serving : j.t = t
        \/ \E i \in 1..Len(wire) : wire[i].op = "FileEnd" /\ wire[i].xid = t.xid

\* Every pull comes to an end, whatever fails on the way.
PullsSettle == \A f \in Path : f \in pulling ~> f \notin pulling
=============================================================================
