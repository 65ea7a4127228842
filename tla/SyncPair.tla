------------------------------- MODULE SyncPair -------------------------------
(***************************************************************************)
(* Two peers keep one folder in step: the daemon's scanner and the session *)
(* of each peer (net/sync_session.cpp, net/sync_service.cpp, the watch     *)
(* loop of app/daemon.cpp), over one ordered, reliable connection that can *)
(* be lost.                                                                *)
(*                                                                         *)
(* Per peer, four threads touch the folder: the reactor (inbound messages),*)
(* the daemon (scans), the requester and the sender.  The two that run     *)
(* reconcile_and_act compute a plan first and act on it later.             *)
(*                                                                         *)
(* Abstractions.  A ManifestUpdate carries the whole advertised tree: that *)
(* the chunks and increments on the wire amount to that is the subject of  *)
(* ManifestExchange.  A file travels as one message: pacing and integrity  *)
(* are the subject of TransferWindow and PullWindow.                       *)
(***************************************************************************)
EXTENDS Reconcile, Sequences, FiniteSets, SequencesExt

CONSTANTS A, B,        \* the peers
          Opt,         \* the options each runs with
          MTimeOf,     \* the modification time given to each content
          MaxPendingPulls,
          Unknown,     \* no tree described yet
          \* Bounds: how many edits and deletions the users make, how often the
          \* connection drops, a daemon is killed, a file operation fails, and a file
          \* goes missing that nobody has deleted.
          MaxEdits, MaxDeletes, MaxDrops, MaxCrashes, MaxFaults, MaxMisses,
          OneAtATime   \* the users act only when the folders are at rest

ASSUME PairAssumption ==
    /\ A # B /\ IsFiniteSet(Path)
    /\ Opt \in [{A, B} -> Options]
    /\ Pairs(Opt[A], Opt[B])
    /\ MTimeOf \in [Hash -> Time]
    /\ Unknown \notin Manifest
    /\ MaxPendingPulls \in Nat \ {0}
    /\ {MaxEdits, MaxDeletes, MaxDrops, MaxCrashes, MaxFaults, MaxMisses} \subseteq Nat
    /\ 1..MaxEdits \subseteq Hash
    /\ OneAtATime \in BOOLEAN

Peer == {A, B}
Other(p) == IF p = A THEN B ELSE A
Thread == {"reactor", "daemon"}

VARIABLES disk,   \* the files of each peer
          st,     \* the service and session state of each peer
          todo,   \* the plan a thread of a peer has computed and not executed
          walk,   \* the scan in progress: the manifest it began from, what it saw
          chan,   \* the messages on their way to each peer
          linked, \* the connection is up
          edits, deletes, drops, crashes, faults, misses, \* what has happened so far
          held,   \* history: the contents each peer's manifest has ever listed
          left,   \* history: the paths each peer has, since it last decided, been done with
                  \* otherwise than its plan would have it
          wanted  \* history: what the users last did to each path

counts == <<edits, deletes, drops, crashes, faults, misses>>
history == <<held, left, wanted>>
vars == <<disk, st, todo, walk, chan, linked, counts, history>>

NoPlan == [pull |-> {}, delete_local |-> {}, due |-> FALSE]
NoWalk == [before |-> NoFiles, fresh |-> NoFiles, on |-> FALSE]

\* Mutant: what was sent on the old connection still counts as sent.
FreshSessionKeepsSent(s) ==
    [s EXCEPT !.session = FALSE, !.remote = Unknown, !.pulling = {}, !.pull_queue = <<>>,
              !.serve_q = <<>>, !.advertise_pending = FALSE, !.last_eval_valid = FALSE,
              !.last_synced = Unknown]

\* What a session forgets when the connection goes.
FreshSession(s) ==
    [s EXCEPT !.session = FALSE, !.remote = Unknown, !.last_sent = Unknown,
              !.pulling = {}, !.pull_queue = <<>>, !.serve_q = <<>>,
              !.advertise_pending = FALSE, !.last_eval_valid = FALSE,
              !.last_synced = Unknown]

Service == [local : Manifest, base : Manifest, session : BOOLEAN,
            remote : Manifest \union {Unknown}, last_sent : Manifest \union {Unknown},
            pulling : SUBSET Path, pull_queue : Seq(Path), serve_q : Seq(Path),
            advertise_pending : BOOLEAN, last_eval_valid : BOOLEAN,
            last_synced : Manifest \union {Unknown}]

\* A service that has loaded nothing, with no session.
NewService == [local |-> NoFiles, base |-> NoFiles, session |-> FALSE,
               remote |-> Unknown, last_sent |-> Unknown, pulling |-> {},
               pull_queue |-> <<>>, serve_q |-> <<>>, advertise_pending |-> FALSE,
               last_eval_valid |-> FALSE, last_synced |-> Unknown]

\* Messages to a peer.
Hello        == [op |-> "Hello"]
Update(t)    == [op |-> "ManifestUpdate", tree |-> t]
Request(f)   == [op |-> "Request", path |-> f]
File(f, m)   == [op |-> "File", path |-> f, meta |-> m]
NotFound(f)  == [op |-> "NotFound", path |-> f]

Message == {Hello} \union {Update(t) : t \in Manifest}
             \union {Request(f) : f \in Path} \union {NotFound(f) : f \in Path}
             \union {File(f, m) : f \in Path, m \in FileMeta}

TypeOK == /\ disk \in [Peer -> Manifest]
          /\ st \in [Peer -> Service]
          /\ todo \in [Peer -> [Thread -> [pull : SUBSET Path, delete_local : SUBSET Path,
                                           due : BOOLEAN]]]
          /\ walk \in [Peer -> [before : Manifest, fresh : Manifest, on : BOOLEAN]]
          /\ chan \in [Peer -> Seq(Message)]
          /\ linked \in BOOLEAN
          /\ edits \in 0..MaxEdits /\ deletes \in 0..MaxDeletes
          /\ drops \in 0..MaxDrops /\ crashes \in 0..MaxCrashes
          /\ faults \in 0..MaxFaults /\ misses \in 0..MaxMisses
          /\ held \in [Peer -> SUBSET (Path \X FileMeta)]
          /\ left \in [Peer -> SUBSET Path] /\ wanted \in Manifest

Init == /\ disk = [p \in Peer |-> NoFiles]
        /\ st = [p \in Peer |-> NewService]
        /\ todo = [p \in Peer |-> [t \in Thread |-> NoPlan]]
        /\ walk = [p \in Peer |-> NoWalk]
        /\ chan = [p \in Peer |-> <<>>]
        /\ linked = FALSE
        /\ edits = 0 /\ deletes = 0 /\ drops = 0 /\ crashes = 0 /\ faults = 0 /\ misses = 0
        /\ held = [p \in Peer |-> {}] /\ left = [p \in Peer |-> {}] /\ wanted = NoFiles

-----------------------------------------------------------------------------
(* What the handlers do to a peer's state s; a result r carries the new    *)
(* state and the messages sent on the way.                                 *)

Result(s, out) == [s |-> s, out |-> out]

\* advertise_locked: ship the tree unless the peer has seen it.
Advertise(r) ==
    LET s == r.s
        t == [s EXCEPT !.advertise_pending = FALSE, !.last_sent = s.local]
    IN  Result(t, IF s.last_sent = s.local THEN r.out ELSE Append(r.out, Update(s.local)))

Busy(s) == s.pulling # {} \/ s.serve_q # <<>>

\* The new local manifest: every change bumps the version the last convergence
\* check was made at.
SetLocal(s, local) == [s EXCEPT !.local = local, !.last_eval_valid = FALSE]

\* set_base_manifest: the baseline, which bumps the version too.
Record(s) == [s EXCEPT !.base = s.local, !.last_eval_valid = FALSE]

\* Mutant: the plan is not looked at.
EvaluateUnchecked(p, r) ==
    Result([r.s EXCEPT !.last_eval_valid = TRUE, !.base = r.s.local], r.out)

\* The check behind "in sync": flush what is owed, and if this peer sees nothing
\* left to do on either side, its tree becomes the baseline.
Evaluate(p, r) ==
    LET s == [r.s EXCEPT !.last_eval_valid = TRUE]
    IN  IF ~EmptyPlan(PlanFor(s.base, s.local, s.remote, Opt[p])) THEN Result(s, r.out)
        ELSE IF s.last_synced # Unknown /\ SameTree(s.last_synced, s.local)
        THEN Result(s, r.out)
        ELSE LET synced == [s EXCEPT !.last_synced = s.local]
             IN  Result(IF Opt[p].mode = "TwoWay" THEN Record(synced) ELSE synced, r.out)

\* Mutants: a flush is taken for the check itself; the flush is forgotten.
MaybeSyncedOnce(p, r) ==
    IF Busy(r.s) THEN Result([r.s EXCEPT !.last_eval_valid = FALSE], r.out)
    ELSE IF r.s.advertise_pending THEN Advertise(r)
    ELSE IF r.s.remote = Unknown \/ r.s.last_eval_valid THEN r ELSE Evaluate(p, r)
MaybeSyncedUnflushed(p, r) ==
    IF Busy(r.s) \/ r.s.remote = Unknown \/ r.s.last_eval_valid THEN r ELSE Evaluate(p, r)

MaybeSynced(p, r) ==
    IF Busy(r.s) THEN Result([r.s EXCEPT !.last_eval_valid = FALSE], r.out)
    ELSE LET flushed == IF r.s.advertise_pending THEN Advertise(r) ELSE r
         IN  IF flushed.s.remote = Unknown \/ flushed.s.last_eval_valid THEN flushed
             ELSE Evaluate(p, flushed)

\* The files of a peer after remove_file has unlinked some, or move_replace has put
\* one into place.
Unlinked(files, paths) == [f \in Path |-> IF f \in paths THEN Absent ELSE files[f]]

Replaced(files, f, m) == [files EXCEPT ![f] = m]

\* The first half of reconcile_and_act: decide.
Decided(p, s) ==
    IF s.remote = Unknown THEN NoPlan
    ELSE LET pl == PlanFor(s.base, s.local, s.remote, Opt[p])
         IN  [pull |-> pl.pull, delete_local |-> pl.delete_local, due |-> TRUE]

\* The second half: drop what was deleted from the manifest, reserve the pulls
\* not reserved yet, tell the peer if the tree shrank, and look for convergence.
Act(p, s, pl, removed) ==
    LET shrunk == IF removed = {} THEN s
                  ELSE SetLocal(s, Unlinked(s.local, removed))
        reserved == [shrunk EXCEPT
                     !.pulling = @ \union pl.pull,
                     !.pull_queue = @ \o SetToSeq(pl.pull \ s.pulling)]
        told == IF removed = {} THEN Result(reserved, <<>>) ELSE Advertise(Result(reserved, <<>>))
    IN  MaybeSynced(p, told)

Listed(t) == {<<f, t[f]>> : f \in {g \in Path : t[g] # Absent}}

\* The peers' new states, with the history of what their manifests listed.
States(new) ==
    /\ st' = new
    /\ held' = [p \in Peer |-> held[p] \union Listed(new[p].local)]
    /\ UNCHANGED wanted

\* Paths p is done with and that are not as it wants them, until it decides again.
Leaves(p, paths) == left' = [left EXCEPT ![p] = @ \union paths]
Decides(p) == left' = [left EXCEPT ![p] = {}]

\* f, if what came for it is not what p knows the other to list.
Unexpected(p, f, entry) == IF SameEntry(entry, st[p].remote[f]) THEN {} ELSE {f}

\* The step of p that ends in r: its state changes and its messages leave.
Becomes(p, r) ==
    /\ States([st EXCEPT ![p] = r.s])
    /\ chan' = [chan EXCEPT ![Other(p)] = @ \o r.out]

\* The same for a step that has taken the first message to p.
Handles(p, r) ==
    /\ States([st EXCEPT ![p] = r.s])
    /\ chan' = [chan EXCEPT ![p] = Tail(@), ![Other(p)] = @ \o r.out]

-----------------------------------------------------------------------------
(* The users.                                                              *)

\* Every thread is idle, nothing is on its way, and every edit has been scanned.
Quiet == /\ linked
         /\ \A p \in Peer : /\ st[p].session
                            /\ ~Busy(st[p]) /\ chan[p] = <<>> /\ ~walk[p].on
                            /\ \A t \in Thread : ~todo[p][t].due
                            /\ disk[p] = st[p].local

MayAct == OneAtATime => Quiet

Edit(p, f) ==
    /\ edits < MaxEdits /\ MayAct
    /\ edits' = edits + 1
    /\ disk' = [disk EXCEPT ![p][f] = [hash |-> edits', mtime |-> MTimeOf[edits']]]
    /\ wanted' = [wanted EXCEPT ![f] = disk'[p][f]]
    /\ UNCHANGED <<st, todo, walk, chan, linked, deletes, drops, crashes, faults, misses,
                   held, left>>

Delete(p, f) ==
    /\ deletes < MaxDeletes /\ MayAct
    /\ disk[p][f] # Absent
    /\ deletes' = deletes + 1
    /\ disk' = [disk EXCEPT ![p][f] = Absent]
    /\ wanted' = [wanted EXCEPT ![f] = Absent]
    /\ UNCHANGED <<st, todo, walk, chan, linked, edits, drops, crashes, faults, misses,
                   held, left>>

-----------------------------------------------------------------------------
(* The daemon thread: scan, publish the difference, reconcile.             *)

\* A file whose size and modification time are those of its entry is not read.
Observe(file, known) ==
    IF /\ file # Absent /\ known # Absent
       /\ SizeOf[file.hash] = SizeOf[known.hash] /\ file.mtime = known.mtime
    THEN known ELSE file

\* The manifest of the tree: a file that cannot be read, or whose directory cannot
\* be listed, is left out of it.
Scanned(p, unread) ==
    [f \in Path |-> IF f \in unread THEN Absent ELSE Observe(disk[p][f], st[p].local[f])]

\* The files of p that may come to be missed.
Missed(p, missed) ==
    /\ \A f \in missed : disk[p][f] # Absent
    /\ misses' = misses + Cardinality(missed)
    /\ misses' <= MaxMisses

Walk(p) ==
    /\ ~walk[p].on /\ ~todo[p]["daemon"].due
    /\ \E missed \in SUBSET Path :
          /\ Missed(p, missed)
          /\ Scanned(p, missed) # st[p].local
          /\ walk' = [walk EXCEPT ![p] = [before |-> st[p].local, on |-> TRUE,
                                         fresh |-> Scanned(p, missed)]]
    /\ UNCHANGED <<disk, st, todo, chan, linked, edits, deletes, drops, crashes, faults,
                   history>>

\* apply_local_patch: only the paths on which the walk found a difference, then
\* every session advertises and reconciles.
Publish(p) ==
    /\ walk[p].on
    /\ LET w == walk[p]
           s == SetLocal(st[p], [f \in Path |-> IF w.fresh[f] # w.before[f] THEN w.fresh[f]
                                                ELSE st[p].local[f]])
           r == IF s.session THEN Advertise(Result(s, <<>>)) ELSE Result(s, <<>>)
       IN  /\ Becomes(p, r)
           /\ todo' = [todo EXCEPT ![p]["daemon"] =
                         IF s.session THEN Decided(p, r.s) ELSE NoPlan]
    /\ walk' = [walk EXCEPT ![p] = NoWalk]
    /\ Decides(p)
    /\ UNCHANGED <<disk, linked, counts>>

\* Either thread executes the plan it has: each file to delete goes unless some
\* process holds it open, and the manifest follows what happened.
Execute(p, t) ==
    /\ todo[p][t].due
    /\ \E stuck \in SUBSET todo[p][t].delete_local :
          /\ faults' = faults + Cardinality(stuck)
          /\ faults' <= MaxFaults
          /\ LET removed == todo[p][t].delete_local \ stuck
             IN  /\ disk' = [disk EXCEPT ![p] = Unlinked(@, removed)]
                 /\ Leaves(p, stuck \union (removed \ Decided(p, st[p]).delete_local))
                 /\ Becomes(p, Act(p, st[p], todo[p][t], removed))
    /\ todo' = [todo EXCEPT ![p][t] = NoPlan]
    /\ UNCHANGED <<walk, linked, edits, deletes, drops, crashes, misses>>

-----------------------------------------------------------------------------
(* The reactor thread: one message at a time, never while it is acting.    *)

Receives(p, op) == /\ ~todo[p]["reactor"].due
                   /\ chan[p] # <<>>
                   /\ Head(chan[p]).op = op

\* The first message of the folder brings the session into being; the Hello of
\* a compatible peer is answered with the whole tree.
RecvHello(p) ==
    /\ Receives(p, "Hello")
    /\ Handles(p, Advertise(Result([st[p] EXCEPT !.session = TRUE], <<>>)))
    /\ UNCHANGED <<disk, todo, walk, linked, counts, left>>

RecvUpdate(p) ==
    /\ Receives(p, "ManifestUpdate")
    /\ LET s == [st[p] EXCEPT !.remote = Head(chan[p]).tree, !.last_eval_valid = FALSE]
       IN  /\ Handles(p, Result(s, <<>>))
           /\ todo' = [todo EXCEPT ![p]["reactor"] = Decided(p, s)]
    /\ Decides(p)
    /\ UNCHANGED <<disk, walk, linked, counts>>

RecvRequest(p) ==
    /\ Receives(p, "Request")
    /\ Handles(p, Result([st[p] EXCEPT !.serve_q = Append(@, Head(chan[p]).path)], <<>>))
    /\ UNCHANGED <<disk, todo, walk, linked, counts, left>>

\* finalize_incoming: the file moves over whatever is there, the manifest takes
\* the entry as sent, and the peer is owed an update.  A move that fails gives the
\* path back; it may have dropped the file that was in its way.
RecvFile(p) ==
    /\ Receives(p, "File")
    /\ LET m == Head(chan[p])
           s == [st[p] EXCEPT !.pulling = @ \ {m.path}]
           t == SetLocal([s EXCEPT !.advertise_pending = TRUE], [s.local EXCEPT ![m.path] = m.meta])
       IN  \/ /\ disk' = [disk EXCEPT ![p] = Replaced(@, m.path, m.meta)]
              /\ Handles(p, MaybeSynced(p, Result(t, <<>>)))
              /\ Leaves(p, Unexpected(p, m.path, m.meta))
              /\ UNCHANGED <<faults, misses>>
           \/ /\ faults < MaxFaults
              /\ faults' = faults + 1
              /\ Handles(p, MaybeSynced(p, Result(s, <<>>)))
              /\ Leaves(p, {m.path})
              /\ UNCHANGED <<disk, misses>>
           \/ /\ Missed(p, {m.path})
              /\ disk' = [disk EXCEPT ![p] = Unlinked(@, {m.path})]
              /\ Handles(p, MaybeSynced(p, Result(s, <<>>)))
              /\ Leaves(p, {m.path})
              /\ UNCHANGED faults
    /\ UNCHANGED <<todo, walk, linked, edits, deletes, drops, crashes>>

RecvNotFound(p) ==
    /\ Receives(p, "NotFound")
    /\ LET f == Head(chan[p]).path
           s == [st[p] EXCEPT !.pulling = @ \ {f}]
       IN  /\ Handles(p, MaybeSynced(p, Result(s, <<>>)))
           /\ Leaves(p, Unexpected(p, f, Absent))
    /\ UNCHANGED <<disk, todo, walk, linked, counts>>

-----------------------------------------------------------------------------
(* The requester and the sender thread.                                    *)

\* Mutant: a path still queued is counted as requested.
InFlightReserved(s) == Cardinality(s.pulling)

InFlight(s) == Cardinality(s.pulling) - Len(s.pull_queue)

SendRequest(p) ==
    /\ st[p].pull_queue # <<>>
    /\ InFlight(st[p]) < MaxPendingPulls
    /\ Becomes(p, Result([st[p] EXCEPT !.pull_queue = Tail(@)],
                         <<Request(Head(st[p].pull_queue))>>))
    /\ UNCHANGED <<disk, todo, walk, linked, counts, left>>

\* serve_one answers with the file as it is now, or NotFound.
Serve(p) ==
    /\ st[p].serve_q # <<>>
    /\ LET f == Head(st[p].serve_q)
           answer == IF disk[p][f] = Absent THEN NotFound(f) ELSE File(f, disk[p][f])
       IN  Becomes(p, MaybeSynced(p, Result([st[p] EXCEPT !.serve_q = Tail(@)], <<answer>>)))
    /\ UNCHANGED <<disk, todo, walk, linked, counts, left>>

-----------------------------------------------------------------------------
(* The connection and the processes.                                       *)

Connect ==
    /\ ~linked
    /\ linked' = TRUE
    /\ chan' = [p \in Peer |-> <<Hello>>]
    /\ UNCHANGED <<disk, st, todo, walk, counts, history>>

\* Both sides lose their sessions and all that was under way.  No thread is
\* inside a session at that moment (ManifestExchange looks at one that is).
Disconnected(keep) ==
    /\ linked
    /\ \A p \in Peer \ keep, t \in Thread : ~todo[p][t].due
    /\ linked' = FALSE
    /\ chan' = [p \in Peer |-> <<>>]

Drop == /\ drops < MaxDrops
        /\ drops' = drops + 1
        /\ Disconnected({})
        /\ States([p \in Peer |-> FreshSession(st[p])])
        /\ left' = [p \in Peer |-> {}]
        /\ UNCHANGED <<disk, todo, walk, edits, deletes, crashes, faults, misses>>

\* The baselines a daemon may find on its disk: save writes the file in place, and
\* load takes one cut short for none.
Loaded(base) == {base, NoFiles}

\* A daemon is killed and started again: it scans the tree and loads the baseline.
Crash(p) ==
    /\ crashes < MaxCrashes
    /\ crashes' = crashes + 1
    /\ Disconnected({p})
    /\ \E base \in Loaded(st[p].base), missed \in SUBSET Path :
          /\ Missed(p, missed)
          /\ faults' = IF base = st[p].base THEN faults ELSE faults + 1
          /\ faults' <= MaxFaults
          /\ States([q \in Peer |->
                    IF q # p THEN FreshSession(st[q])
                    ELSE [FreshSession(st[p]) EXCEPT !.local = Unlinked(disk[p], missed),
                                                     !.base = base]])
    /\ todo' = [todo EXCEPT ![p] = [t \in Thread |-> NoPlan]]
    /\ walk' = [walk EXCEPT ![p] = NoWalk]
    /\ left' = [q \in Peer |-> {}]
    /\ UNCHANGED <<disk, edits, deletes, drops>>

-----------------------------------------------------------------------------
User(p) == \E f \in Path : Edit(p, f) \/ Delete(p, f)

Scan(p) == Walk(p) \/ Publish(p)

Receive(p) == RecvHello(p) \/ RecvUpdate(p) \/ RecvRequest(p) \/ RecvFile(p) \/ RecvNotFound(p)

System(p) == Scan(p) \/ Receive(p) \/ SendRequest(p) \/ Serve(p)
               \/ \E t \in Thread : Execute(p, t)

Next == \/ \E p \in Peer : User(p) \/ System(p) \/ Crash(p)
        \/ Connect \/ Drop

Spec == Init /\ [][Next]_vars

Progress == Connect \/ \E p \in Peer : System(p)

\* No thread has anything to do: Progress is disabled.
Idle(p) == /\ ~walk[p].on
           /\ \A t \in Thread : ~todo[p][t].due
           /\ Scanned(p, {}) = st[p].local
           /\ chan[p] = <<>> /\ st[p].serve_q = <<>>
           /\ st[p].pull_queue = <<>> \/ InFlight(st[p]) >= MaxPendingPulls
AllIdle == linked /\ \A p \in Peer : Idle(p)

\* The threads run and the daemon redials while nothing is connected: as long as
\* one of them has something to do, something is done.  Nothing is assumed about
\* their relative speed, nor that a user, a fault or a crash ever happens.  This
\* is WF_vars(Progress) with its ENABLED spelled out.
Fairness == []<>AllIdle \/ []<><<Progress>>_vars
FairSpec == Spec /\ Fairness

-----------------------------------------------------------------------------
(* Properties.                                                             *)

\* core/diff.h, README: the trees converge.  When every thread is idle, nothing
\* is on its way and every edit has been scanned, the two folders agree.
QuietMeansConverged == Quiet => SameTree(disk[A], disk[B])

\* At rest, both have recorded the tree they hold as their baseline: a convergence
\* check that ran too early is repeated.
QuietMeansBaseline ==
    Quiet => \A p \in Peer : SameTree(st[p].base, disk[p])

\* What a quiet peer believes of the other is what the other has: no update, and
\* no flush of one that was put off, is forgotten.
QuietMeansInformed == Quiet => \A p \in Peer : st[p].remote = st[Other(p)].local

\* diff.h, README: "both sides share the same base, the two plans are perfect
\* complements".  Whatever the users did and in whatever order, two quiet peers whose
\* baselines agree have the same tree, but for the paths that one of them has left
\* since it last decided: a deletion that failed or that its plan would no longer
\* have, a transfer that failed or did not bring what the other lists.
SharedBaseMeansConverged ==
    Quiet /\ SameTree(st[A].base, st[B].base) =>
        \A f \in Path : SameEntry(disk[A][f], disk[B][f]) \/ \E p \in Peer : f \in left[p]

\* A baseline is "the last synced state": it lists no content that the other
\* peer's folder has never had.
BaselineIsCommon ==
    \A p \in Peer : \A e \in Listed(st[p].base) :
        \E g \in held[Other(p)] : g[1] = e[1] /\ SameContent(g[2], e[2])

\* Synchronising never loses a file nobody deleted: as long as no user deletes, and
\* no file goes missing, no step makes a path disappear from a disk.
NothingVanishes ==
    [][deletes' = 0 /\ misses' = 0 => \A p \in Peer, f \in Path :
          disk[p][f] # Absent => disk'[p][f] # Absent]_vars

\* diff.h: the baseline "distinguishes "created here" from "deleted there"".  As long
\* as no user deletes, a path that a folder has is never lost to both, though a scan
\* may have missed it once: what one side removes, the other keeps.
NothingLost ==
    [][deletes' = 0 => \A f \in Path :
          (\E p \in Peer : disk[p][f] # Absent) => \E p \in Peer : disk'[p][f] # Absent]_vars

\* Changes made one at a time all arrive, deletions included: at rest, both
\* folders hold what the users last did to each path, across lost connections
\* and killed daemons.
LastActWins == Quiet => \A p \in Peer : SameTree(disk[p], wanted)

\* The folders agree from some time on, whatever the users did.
Convergence == <>[](SameTree(disk[A], disk[B]))
=============================================================================
