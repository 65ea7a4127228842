------------------------------ MODULE SendGate ------------------------------
(***************************************************************************)
(* Backpressure (net/send_gate.cpp, net/sync_router.cpp): the sender       *)
(* threads of all folders shared with one peer offer messages to one       *)
(* connection.  A send is never refused; told that the queue is filling,   *)
(* the thread waits for room before the next.  The wait ends when there is *)
(* room, when its session or the gate is stopped, or when it has lasted    *)
(* too long.                                                               *)
(*                                                                         *)
(* wake_all bumps a generation counter and then notifies, without the lock *)
(* the waiters hold.  A waiter that has found the counter unchanged and is *)
(* not yet asleep is out of reach of the notification: it sleeps until the *)
(* next one, or until it polls.  Only whether the counter has moved since  *)
(* a waiter read it is ever asked, and only that is kept here.             *)
(*                                                                         *)
(* The connection is librats: it weighs what has been handed to it and     *)
(* what its reactor has queued, and reports when the queue, having been    *)
(* full, has drained.  A waiter's tests of one round are one step.         *)
(***************************************************************************)
EXTENDS Integers, FiniteSets

CONSTANTS Folder,   \* the folders shared with the peer; each has a sender thread
          Mark,     \* from here on the queue is filling
          Low,      \* at or below, a queue that was full has drained
          MaxSends, MaxTimeouts  \* bounds: messages of a folder, waits given up

ASSUME GateAssumption == /\ IsFiniteSet(Folder)
                         /\ Mark \in Nat \ {0} /\ Low \in Nat /\ Low < Mark
                         /\ {MaxSends, MaxTimeouts} \subseteq Nat

VARIABLES
    handed, queued,  \* messages given to the connection, and taken up by it
    full,            \* the queue has been full and not drained since
    connected,
    stopped,         \* of the gate
    running,         \* whether each folder's session runs
    pc,              \* where each sender thread is
    moved,           \* whether generation_ differs from what the waiter has seen
    at, todo,        \* of the reactor and the main thread: where each is in waking or
    stopping,        \* tearing down, the folders it has left, the one it is stopping
    sent, timeouts

queue  == <<handed, queued, full, connected>>
sender == <<pc, moved>>
others == <<at, todo, stopping>>
vars == <<queue, stopped, running, sender, others, sent, timeouts>>

Thread == {"reactor", "main"}

\* Where a sender thread holds the gate's lock, and where it waits for room.
Locked  == {"decide", "check", "closing"}
Waiting == Locked \union {"enter", "asleep", "woken"}

TypeOK == /\ handed \in Nat /\ queued \in Nat /\ timeouts \in 0..MaxTimeouts
          /\ full \in BOOLEAN /\ connected \in BOOLEAN /\ stopped \in BOOLEAN
          /\ running \in [Folder -> BOOLEAN]
          /\ pc \in [Folder -> Waiting \union {"work", "done"}]
          /\ moved \in [Folder -> BOOLEAN]
          /\ sent \in [Folder -> 0..MaxSends]
          /\ at \in [Thread -> {"idle", "drained", "wake", "next", "flagged", "notify",
                                "joining", "ended"}]
          /\ todo \in [Thread -> SUBSET Folder]
          /\ stopping \in [Thread -> SUBSET Folder]

Init == /\ handed = 0 /\ queued = 0 /\ full = FALSE
        /\ connected = TRUE /\ stopped = FALSE
        /\ running = [f \in Folder |-> TRUE]
        /\ pc = [f \in Folder |-> "work"]
        /\ moved = [f \in Folder |-> FALSE]
        /\ at = [t \in Thread |-> "idle"]
        /\ todo = [t \in Thread |-> {}]
        /\ stopping = [t \in Thread |-> {}]
        /\ sent = [f \in Folder |-> 0] /\ timeouts = 0

Writable(h, q) == connected /\ h + q < Mark

-----------------------------------------------------------------------------
(* A sender thread.                                                        *)

Goes(f, to) == /\ pc' = [pc EXCEPT ![f] = to]
               /\ UNCHANGED <<stopped, running, others>>

\* The generation is read anew.
Reads(f) == moved' = [moved EXCEPT ![f] = FALSE]

LockFree == \A f \in Folder : pc[f] \notin Locked

\* Mutant: nobody waits for room.
SendUnpaced(f) ==
    /\ pc[f] = "work" /\ running[f] /\ sent[f] < MaxSends
    /\ sent' = [sent EXCEPT ![f] = @ + 1]
    /\ handed' = IF connected THEN handed + 1 ELSE handed
    /\ UNCHANGED <<queued, full, connected, stopped, running, others, pc, moved, timeouts>>

\* send: the message goes out; a full queue makes the thread wait, unless the gate
\* is stopped.
Send(f) ==
    /\ pc[f] = "work" /\ running[f] /\ sent[f] < MaxSends
    /\ sent' = [sent EXCEPT ![f] = @ + 1]
    /\ handed' = IF connected THEN handed + 1 ELSE handed
    /\ Goes(f, IF Writable(handed', queued) \/ stopped THEN "work" ELSE "enter")
    /\ UNCHANGED <<queued, full, connected, moved, timeouts>>

\* wait_writable reads the generation before the tests...
Enter(f) ==
    /\ pc[f] = "enter" /\ LockFree
    /\ Reads(f) /\ Goes(f, "decide")
    /\ UNCHANGED <<queue, sent, timeouts>>

\* Mutant: keep_waiting is not asked.
NoNeedUnasked(f) == stopped \/ Writable(handed, queued)

NoNeed(f) == stopped \/ ~running[f] \/ Writable(handed, queued)

\* ...that may end the wait.
Decide(f) ==
    /\ pc[f] = "decide"
    /\ IF NoNeed(f) THEN Goes(f, "work") /\ Reads(f)
                    ELSE Goes(f, "check") /\ UNCHANGED moved
    /\ UNCHANGED <<queue, sent, timeouts>>

\* The deadline has passed.
GiveUp(f) ==
    /\ pc[f] = "decide" /\ timeouts < MaxTimeouts
    /\ ~NoNeed(f)
    /\ timeouts' = timeouts + 1
    /\ Goes(f, "work") /\ Reads(f)
    /\ UNCHANGED <<queue, sent>>

\* wait_for: the predicate; true, the waiter goes round again.
Check(f) ==
    /\ pc[f] = "check"
    /\ IF stopped \/ moved[f] THEN Goes(f, "decide") /\ Reads(f)
                              ELSE Goes(f, "closing") /\ UNCHANGED moved
    /\ UNCHANGED <<queue, sent, timeouts>>

\* False, it sleeps and releases the lock.
FallAsleep(f) ==
    /\ pc[f] = "closing"
    /\ Goes(f, "asleep")
    /\ UNCHANGED <<queue, moved, sent, timeouts>>

\* Notified, it asks the predicate again.
Wake(f) ==
    /\ pc[f] = "woken" /\ LockFree
    /\ Goes(f, "check")
    /\ UNCHANGED <<queue, moved, sent, timeouts>>

\* Mutant: wait() for wait_for(); only a notification ends the sleep.
PollNever(f) == FALSE

\* kPoll has elapsed: round again, whatever the predicate says.
Poll(f) ==
    /\ pc[f] = "asleep"
    /\ Goes(f, "enter")
    /\ UNCHANGED <<queue, moved, sent, timeouts>>

\* The session has been stopped, and its thread returns.
Return(f) ==
    /\ pc[f] = "work" /\ ~running[f]
    /\ Goes(f, "done")
    /\ UNCHANGED <<queue, moved, sent, timeouts>>

-----------------------------------------------------------------------------
(* The reactor serves the connection.                                      *)

Moves(t, from, to) == at[t] = from /\ at' = [at EXCEPT ![t] = to]

\* wake_all, the first half: the generation moves, for whoever has read it.
Bump == moved' = [f \in Folder |-> moved[f] \/ pc[f] \in Waiting \ {"enter"}]

Take ==
    /\ at["reactor"] = "idle" /\ handed > 0
    /\ handed' = handed - 1
    /\ queued' = queued + 1
    /\ full' = (full \/ queued' >= Mark)
    /\ UNCHANGED <<connected, stopped, running, sender, others, sent, timeouts>>

Drains == full /\ queued' <= Low

Drain ==
    /\ at["reactor"] = "idle" /\ queued > 0
    /\ queued' = queued - 1 /\ ~Drains
    /\ UNCHANGED <<handed, full, connected, stopped, running, sender, others, sent, timeouts>>

\* on_peer_writable.
DrainAndWake ==
    /\ Moves("reactor", "idle", "drained") /\ queued > 0
    /\ queued' = queued - 1 /\ Drains
    /\ full' = FALSE
    /\ Bump
    /\ UNCHANGED <<handed, connected, stopped, running, pc, todo, stopping, sent, timeouts>>

\* The second half of every wake_all: whoever sleeps looks again.
Notify(t) ==
    /\ \/ Moves(t, "drained", "idle")
       \/ Moves(t, "wake", "next")
       \/ Moves(t, "notify", "joining")
    /\ pc' = [f \in Folder |-> IF pc[f] = "asleep" THEN "woken" ELSE pc[f]]
    /\ UNCHANGED <<queue, stopped, running, moved, todo, stopping, sent, timeouts>>

-----------------------------------------------------------------------------
(* Teardown, by the reactor for a lost connection, by the main thread at   *)
(* the end.                                                                *)

\* on_peer_disconnected: wake first, the joins come after.
Disconnect ==
    /\ connected /\ Moves("reactor", "idle", "wake")
    /\ connected' = FALSE /\ handed' = 0 /\ queued' = 0 /\ full' = FALSE
    /\ Bump
    /\ todo' = [todo EXCEPT !["reactor"] = Folder]
    /\ UNCHANGED <<stopped, running, pc, stopping, sent, timeouts>>

\* SyncRouter::shutdown: the gate is stopped first.
Shutdown ==
    /\ Moves("main", "idle", "wake")
    /\ stopped' = TRUE
    /\ Bump
    /\ todo' = [todo EXCEPT !["main"] = Folder]
    /\ UNCHANGED <<queue, running, pc, stopping, sent, timeouts>>

\* SyncSession::stop, once: the flag...
StopSession(t, f) ==
    /\ f \in todo[t] /\ running[f]
    /\ Moves(t, "next", "flagged")
    /\ running' = [running EXCEPT ![f] = FALSE]
    /\ todo' = [todo EXCEPT ![t] = @ \ {f}]
    /\ stopping' = [stopping EXCEPT ![t] = {f}]
    /\ UNCHANGED <<queue, stopped, sender, sent, timeouts>>

\* ...wake_senders...
WakeSenders(t) ==
    /\ Moves(t, "flagged", "notify")
    /\ Bump
    /\ UNCHANGED <<queue, stopped, running, pc, todo, stopping, sent, timeouts>>

\* ...and the join.
Join(t) ==
    /\ Moves(t, "joining", "next")
    /\ \A f \in stopping[t] : pc[f] = "done"
    /\ stopping' = [stopping EXCEPT ![t] = {}]
    /\ UNCHANGED <<queue, stopped, running, sender, todo, sent, timeouts>>

\* The other thread may have stopped some of the sessions, or be about to.
TornDown(t) ==
    /\ Moves(t, "next", "ended")
    /\ \A f \in todo[t] : ~running[f]
    /\ todo' = [todo EXCEPT ![t] = {}]
    /\ UNCHANGED <<queue, stopped, running, sender, stopping, sent, timeouts>>

-----------------------------------------------------------------------------
Acquires(f) == Enter(f) \/ Wake(f)
Runs(f) == Decide(f) \/ Check(f) \/ FallAsleep(f) \/ Return(f)
Serves == Take \/ Drain \/ DrainAndWake
Tears(t) == Notify(t) \/ (\E f \in Folder : StopSession(t, f))
              \/ WakeSenders(t) \/ Join(t) \/ TornDown(t)

Next == \/ \E f \in Folder : Send(f) \/ Acquires(f) \/ Runs(f) \/ GiveUp(f) \/ Poll(f)
        \/ Serves \/ Disconnect \/ Shutdown
        \/ \E t \in Thread : Tears(t)

Spec == Init /\ [][Next]_vars

\* Threads run and get the lock in the end, timers fire and a live connection drains.
\* Nobody has to send, to stop or to disconnect, and no wait has to last until its
\* deadline.
FairSpec == /\ Spec
            /\ \A f \in Folder : /\ SF_vars(Acquires(f))
                                 /\ WF_vars(Runs(f)) /\ WF_vars(Poll(f))
            /\ WF_vars(Serves)
            /\ \A t \in Thread : WF_vars(Tears(t))

-----------------------------------------------------------------------------
(* Properties.                                                             *)

\* send_gate.h: several folders at once must not walk the connection over its mark:
\* together they exceed it by no more than a message each, and one for every wait
\* that was given up.
QueueBounded ==
    stopped \/ handed + queued < Mark + Cardinality(Folder) + timeouts

\* send_gate.h: "a wait with no end is how a sender thread becomes permanently
\* wedged".  Every wait ends, without the deadline, although notifications get lost
\* and some queues drain unannounced.
WaitsEnd == \A f \in Folder : pc[f] \in Waiting ~> pc[f] \notin Waiting

\* The reactor that tears sessions down joins threads that may be waiting for what
\* only the reactor does: it comes back all the same, and so does shutdown.
TeardownEnds == \A t \in Thread : at[t] = "wake" ~> at[t] = "ended"
=============================================================================
