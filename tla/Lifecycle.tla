------------------------------ MODULE Lifecycle ------------------------------
(***************************************************************************)
(* The life of a session (net/sync_service.cpp, net/sync_session.cpp,      *)
(* net/sync_router.cpp, the end of app/daemon.cpp): two nodes share a      *)
(* folder, or think they do.  A connection makes each offer the folder in  *)
(* a Hello, the first message from the peer brings a session into being,   *)
(* the Hello decides whether to describe the tree or to go inert, and a    *)
(* lost connection or the end of the program takes the session away.       *)
(*                                                                         *)
(* Per node, the reactor runs every handler, the main thread reports the   *)
(* changes a scan has found and, in the end, shuts the folder down, and    *)
(* the session's sender answers requests.  A session lives as long as the  *)
(* table, the reactor or the main thread refers to it; a node has one at a *)
(* time, but for the one its main thread may be about to call.             *)
(*                                                                         *)
(* A tree is described by one message and a file travels as two, its start *)
(* and its end; what they carry is the subject of other modules.  The      *)
(* temporary directory and the file a transfer replaces are followed       *)
(* because the main thread cleans up without waiting for the reactor.      *)
(***************************************************************************)
EXTENDS Integers, Sequences

CONSTANTS A, B,        \* the nodes
          Agreements,  \* the configurations the nodes may have been started with
          MaxConnects, MaxPulls, MaxChanges \* bounds: connections, files A asks
                                            \* for, changes a scan finds

Node == {A, B}
Other(n) == IF n = A THEN B ELSE A

ConflictPolicy == {"newer", "larger", "local", "remote"}
Config == [version : {1, 2}, folder : {"docs", "pics"}, mode : {"TwoWay", "Mirror"},
           conflict : ConflictPolicy, allows : BOOLEAN]

ASSUME LifecycleAssumption == /\ A # B
                              /\ Agreements \subseteq [Node -> Config]
                              /\ {MaxConnects, MaxPulls, MaxChanges} \subseteq Nat

VARIABLES cfg,      \* what each node was started with
          linked,
          chan,     \* the messages on their way to each node
          news,     \* the connection is up, or down, and the node's handler not told yet
          ses,      \* the node's session
          reactor,  \* where the reactor is, and in which message
          main,     \* where the main thread is
          temp,     \* the temporary directory
          file,     \* the file A asks for, as A has it
          connects, pulls, changes,
          late,     \* history: a session of an earlier connection has spoken
          overlapped, \* history: the directory was cleaned while the reactor was in a handler
          hurried,  \* history: stop() found a session between its flag and its threads
          unjoined  \* history: a session was destroyed with threads nobody has joined

network == <<linked, chan, news, connects>>
counts  == <<pulls, changes>>
ghosts  == <<late, overlapped, hurried, unjoined>>
vars == <<cfg, network, ses, reactor, main, temp, file, counts, ghosts>>

NewSession == [at |-> "table", running |-> FALSE, threads |-> FALSE, inert |-> FALSE, told |-> FALSE,
               known |-> FALSE, incoming |-> FALSE, serves |-> 0]
NoSession  == [NewSession EXCEPT !.at = "none"]

Idle == [at |-> "idle", op |-> "none"]

Op == {"Hello", "Bye", "ManifestUpdate", "Request", "FileStart", "FileEnd"}

TypeOK ==
    /\ cfg \in Agreements
    /\ linked \in BOOLEAN
    /\ chan \in [Node -> Seq(Op)]
    /\ news \in [Node -> {"none", "up", "down"}]
    /\ ses \in [Node -> [at : {"none", "table", "loose"}, running : BOOLEAN, threads : BOOLEAN,
                         inert : BOOLEAN, told : BOOLEAN, known : BOOLEAN,
                         incoming : BOOLEAN, serves : Nat]]
    /\ reactor \in [Node -> [at : {"idle", "start", "spawn", "handle", "create", "register",
                                   "move", "prune", "leave", "join"},
                             op : Op \union {"none"}]]
    /\ main \in [Node -> {"run", "call", "speak", "stale", "flag", "join", "clean", "left", "ended"}]
    /\ temp \in [Node -> {"none", "empty", "part"}]
    /\ file \in {"old", "new", "gone"}
    /\ connects \in 0..MaxConnects /\ pulls \in 0..MaxPulls /\ changes \in 0..MaxChanges
    /\ ghosts \in BOOLEAN \X BOOLEAN \X BOOLEAN \X BOOLEAN

Init == /\ cfg \in Agreements
        /\ linked = FALSE /\ chan = [n \in Node |-> <<>>] /\ news = [n \in Node |-> "none"]
        /\ ses = [n \in Node |-> NoSession]
        /\ reactor = [n \in Node |-> Idle]
        /\ main = [n \in Node |-> "run"]
        /\ temp = [n \in Node |-> "none"]
        /\ file = "old"
        /\ connects = 0 /\ pulls = 0 /\ changes = 0
        /\ late = FALSE /\ overlapped = FALSE /\ hurried = FALSE /\ unjoined = FALSE

\* SyncRouter and SyncService have not been told to stop.
Serving(n) == main[n] \in {"run", "call", "speak", "stale"}

\* The messages ms leave n while it has a connection.
Sends(n, ms) == chan' = IF linked THEN [chan EXCEPT ![Other(n)] = @ \o ms] ELSE chan

Steps(n, to) == reactor' = [reactor EXCEPT ![n].at = to]

\* Nothing of n has changed but its session.
Session(n, s) == ses' = [ses EXCEPT ![n] = s]

-----------------------------------------------------------------------------
(* The connection.                                                         *)

Connect ==
    /\ ~linked /\ connects < MaxConnects
    /\ \A n \in Node : news[n] = "none" /\ reactor[n] = Idle /\ main[n] # "ended"
    /\ linked' = TRUE
    /\ connects' = connects + 1
    /\ news' = [n \in Node |-> "up"]
    /\ UNCHANGED <<cfg, chan, ses, reactor, main, temp, file, counts, ghosts>>

Lost(nodes) == /\ linked' = FALSE
               /\ chan' = [n \in Node |-> <<>>]
               /\ news' = [n \in Node |-> IF n \in nodes THEN "down" ELSE "none"]

Drop == /\ linked /\ Lost(Node)
        /\ UNCHANGED <<cfg, connects, ses, reactor, main, temp, file, counts, ghosts>>

Ignored(n) == ~Serving(n) \/ ~cfg[n].allows

\* peer_connected: the folder is offered to a peer that is allowed.
Greet(n) ==
    /\ news[n] = "up" /\ reactor[n] = Idle
    /\ news' = [news EXCEPT ![n] = "none"]
    /\ Sends(n, IF Ignored(n) THEN <<>> ELSE <<"Hello">>)
    /\ UNCHANGED <<cfg, linked, connects, ses, reactor, main, temp, file, counts, ghosts>>

\* peer_disconnected: the session leaves the table, and is stopped.
Erase(n) ==
    /\ news[n] = "down" /\ reactor[n] = Idle
    /\ news' = [news EXCEPT ![n] = "none"]
    /\ IF ses[n].at = "table"
       THEN /\ Session(n, [ses[n] EXCEPT !.at = "loose", !.running = FALSE])
            /\ Steps(n, "join")
       ELSE UNCHANGED <<ses, reactor>>
    /\ main' = [main EXCEPT ![n] = IF @ = "call" /\ ses[n].inert THEN "run"
                                 ELSE IF @ \in {"call", "speak"} THEN "stale" ELSE @]
    /\ UNCHANGED <<cfg, linked, chan, connects, temp, file, counts, ghosts>>

\* What is left of the directory when a stopped session has dropped its files and
\* pruned.
Pruned(n) == temp' = [temp EXCEPT ![n] = "none"]

\* stop() on the reactor, from the join on; nothing refers to the session any more.
Stopped(n) ==
    /\ reactor[n].at = "join" /\ ses[n].serves = 0
    /\ Session(n, NoSession)
    /\ Pruned(n)
    /\ reactor' = [reactor EXCEPT ![n] = Idle]
    /\ UNCHANGED <<cfg, network, main, file, counts, ghosts>>

-----------------------------------------------------------------------------
(* A message arrives.                                                      *)

Arrives(n) == /\ reactor[n] = Idle /\ news[n] = "none" /\ chan[n] # <<>>
              /\ chan' = [chan EXCEPT ![n] = Tail(@)]

\* A disallowed peer, and one whose folder is shutting down, get no answer.
Ignore(n) ==
    /\ Arrives(n) /\ Ignored(n)
    /\ UNCHANGED <<cfg, linked, news, connects, ses, reactor, main, temp, file, counts, ghosts>>

Takes(n) ==
    /\ reactor' = [reactor EXCEPT ![n] = [at |-> IF ses[n].at = "table" THEN "handle" ELSE "start",
                                          op |-> Head(chan[n])]]
    /\ Session(n, IF ses[n].at = "table" THEN ses[n] ELSE NewSession)
    /\ UNCHANGED <<cfg, linked, news, connects, main, temp, file, counts, ghosts>>

\* Mutants: the allow-list is asked when connecting only; a message after shutdown
\* brings the session back.
TakeAnyone(n)   == Arrives(n) /\ Serving(n) /\ Takes(n)
TakeWhenever(n) == Arrives(n) /\ cfg[n].allows /\ main[n] # "ended" /\ Takes(n)

\* session_for finds the session or makes one; it is in the table before it runs.
Take(n) == Arrives(n) /\ ~Ignored(n) /\ Takes(n)

Start(n) ==
    /\ reactor[n].at = "start"
    /\ Session(n, [ses[n] EXCEPT !.running = TRUE])
    /\ Steps(n, "spawn")
    /\ UNCHANGED <<cfg, network, main, temp, file, counts, ghosts>>

Spawn(n) ==
    /\ reactor[n].at = "spawn"
    /\ Session(n, [ses[n] EXCEPT !.threads = TRUE])
    /\ Steps(n, "handle")
    /\ UNCHANGED <<cfg, network, main, temp, file, counts, ghosts>>

Handles(n, op) == reactor[n].at = "handle" /\ reactor[n].op = op

\* An inert session reacts to nothing.
Inert(n) ==
    /\ reactor[n].at = "handle" /\ ses[n].inert
    /\ Steps(n, "leave")
    /\ UNCHANGED <<cfg, network, ses, main, temp, file, counts, ghosts>>

Complement(p) == CASE p = "local" -> "remote" [] p = "remote" -> "local" [] OTHER -> p

\* Mutant: the peer must have what we have.
FitsEqual(mine, theirs) ==
    /\ theirs.version = mine.version /\ theirs.folder = mine.folder
    /\ theirs.mode = mine.mode /\ mine.mode = "TwoWay" => theirs.conflict = mine.conflict

\* handle_hello: what it refuses; of a mode that differs it only warns.
Fits(mine, theirs) ==
    /\ theirs.version = mine.version /\ theirs.folder = mine.folder
    /\ theirs.mode = mine.mode /\ mine.mode = "TwoWay" =>
           theirs.conflict = Complement(mine.conflict)

\* The tree is described, unless that has been done.
Describe(n) == /\ Session(n, [ses[n] EXCEPT !.told = TRUE])
               /\ Sends(n, IF ses[n].told THEN <<>> ELSE <<"ManifestUpdate">>)

Refuse(n) == /\ Session(n, [ses[n] EXCEPT !.inert = TRUE])
             /\ Sends(n, <<"Bye">>)

HandleHello(n) ==
    /\ Handles(n, "Hello") /\ ~ses[n].inert
    /\ IF Fits(cfg[n], cfg[Other(n)]) THEN Describe(n) ELSE Refuse(n)
    /\ Steps(n, "leave")
    /\ UNCHANGED <<cfg, linked, news, connects, main, temp, file, counts, ghosts>>

\* Messages that only change the session.
HandleSimple(n) ==
    /\ ~ses[n].inert
    /\ \/ Handles(n, "ManifestUpdate") /\ Session(n, [ses[n] EXCEPT !.known = TRUE])
       \/ Handles(n, "Request") /\ Session(n, [ses[n] EXCEPT !.serves = @ + 1])
       \/ Handles(n, "Bye") /\ Session(n, [ses[n] EXCEPT !.inert = TRUE])
    /\ Steps(n, "leave")
    /\ UNCHANGED <<cfg, network, main, temp, file, counts, ghosts>>

-----------------------------------------------------------------------------
(* A file arrives.                                                         *)

\* ensure_temp_dir...
HandleFileStart(n) ==
    /\ Handles(n, "FileStart") /\ ~ses[n].inert
    /\ temp' = [temp EXCEPT ![n] = IF @ = "none" THEN "empty" ELSE @]
    /\ Steps(n, "create")
    /\ UNCHANGED <<cfg, network, ses, main, file, counts, ghosts>>

\* ...the file in it, unless the directory has gone again...
CreatePart(n) ==
    /\ reactor[n].at = "create"
    /\ IF temp[n] = "none" THEN Steps(n, "leave") /\ UNCHANGED temp
                           ELSE Steps(n, "register") /\ temp' = [temp EXCEPT ![n] = "part"]
    /\ UNCHANGED <<cfg, network, ses, main, file, counts, ghosts>>

\* ...and the session knows of it.
Register(n) ==
    /\ reactor[n].at = "register"
    /\ Session(n, [ses[n] EXCEPT !.incoming = TRUE])
    /\ Steps(n, "leave")
    /\ UNCHANGED <<cfg, network, main, temp, file, counts, ghosts>>

\* handle_file_end looks the transfer up...
HandleFileEnd(n) ==
    /\ Handles(n, "FileEnd") /\ ~ses[n].inert
    /\ Steps(n, IF ses[n].incoming THEN "move" ELSE "leave")
    /\ UNCHANGED <<cfg, network, ses, main, temp, file, counts, ghosts>>

\* ...and finalize_incoming moves it into place; if that cannot be done the file
\* that was there is removed, for a second attempt.
Move(n) ==
    /\ reactor[n].at = "move"
    /\ Session(n, [ses[n] EXCEPT !.incoming = FALSE])
    /\ IF temp[n] = "part"
       THEN /\ file' = "new" /\ temp' = [temp EXCEPT ![n] = "empty"]
            /\ Steps(n, "prune")
       ELSE /\ file' = "gone" /\ UNCHANGED temp
            /\ Steps(n, "leave")
    /\ UNCHANGED <<cfg, network, main, counts, ghosts>>

\* Mutant: the directory stays for the next transfer.
PruneNothing(n) ==
    /\ reactor[n].at = "prune"
    /\ Steps(n, "leave")
    /\ UNCHANGED <<cfg, network, ses, main, temp, file, counts, ghosts>>

Prune(n) ==
    /\ reactor[n].at = "prune"
    /\ temp' = [temp EXCEPT ![n] = IF @ = "empty" THEN "none" ELSE @]
    /\ Steps(n, "leave")
    /\ UNCHANGED <<cfg, network, ses, main, file, counts, ghosts>>

\* The main thread refers to the session it is stopping.
Stopping(n) == main[n] \in {"flag", "join", "clean"}

\* What is left of the directory once the session, and with it the transfer it was
\* receiving, is destroyed.
Unreceived(n) == temp' = [temp EXCEPT ![n] = IF @ = "part" THEN "empty" ELSE @]

\* The last reference to the session goes: a session that runs is stopped by that.  One
\* that does not, and whose threads have not been joined, ends the program.
Destroyed(n) ==
    /\ Session(n, NoSession)
    /\ unjoined' = (unjoined \/ (ses[n].threads /\ ~ses[n].running))

\* The handler returns.  If the session is out of the table and nobody else refers
\* to it, it is destroyed.
Leave(n) ==
    /\ reactor[n].at = "leave"
    /\ IF ses[n].at = "loose" /\ ~Stopping(n)
       THEN /\ ses[n].serves = 0
            /\ Destroyed(n)
            /\ IF ses[n].running THEN Pruned(n) ELSE Unreceived(n)
       ELSE UNCHANGED <<ses, temp, unjoined>>
    /\ reactor' = [reactor EXCEPT ![n] = Idle]
    /\ UNCHANGED <<cfg, network, main, file, counts, late, overlapped, hurried>>

-----------------------------------------------------------------------------
(* The requester of A, and the sender of either.                           *)

Ask == /\ ses[A].running /\ ses[A].known /\ pulls < MaxPulls
       /\ pulls' = pulls + 1
       /\ Sends(A, <<"Request">>)
       /\ UNCHANGED <<cfg, linked, news, connects, ses, reactor, main, temp, file, changes, ghosts>>

\* serve_one; told to stop, it leaves the file unfinished.
Serve(n) ==
    /\ ses[n].serves > 0
    /\ Session(n, [ses[n] EXCEPT !.serves = @ - 1])
    /\ Sends(n, IF ses[n].running THEN <<"FileStart", "FileEnd">> ELSE <<"FileStart">>)
    /\ UNCHANGED <<cfg, linked, news, connects, reactor, main, temp, file, counts, ghosts>>

-----------------------------------------------------------------------------
(* The main thread.                                                        *)

MainTo(n, to) == main' = [main EXCEPT ![n] = to]

\* notify_sessions: the table is copied...
Notify(n) ==
    /\ main[n] = "run" /\ ses[n].at = "table" /\ changes < MaxChanges
    /\ changes' = changes + 1
    /\ MainTo(n, "call")
    /\ UNCHANGED <<cfg, network, ses, reactor, temp, file, pulls, ghosts>>

\* ...and local_changed called on what was in it, which looks whether it is inert...
LocalChanged(n) ==
    /\ main[n] = "call"
    /\ MainTo(n, IF ses[n].inert THEN "run" ELSE "speak")
    /\ UNCHANGED <<cfg, network, ses, reactor, temp, file, counts, ghosts>>

\* ...and tells the change.
Speak(n) ==
    /\ main[n] = "speak"
    /\ Session(n, [ses[n] EXCEPT !.told = TRUE]) /\ Sends(n, <<"ManifestUpdate">>)
    /\ MainTo(n, "run")
    /\ UNCHANGED <<cfg, linked, news, connects, reactor, temp, file, counts, ghosts>>

\* The session has been stopped in the meantime, and speaks on whatever connection
\* there is.
LateChanged(n) ==
    /\ main[n] = "stale"
    /\ Sends(n, <<"ManifestUpdate">>)
    /\ late' = (late \/ linked)
    /\ MainTo(n, "run")
    /\ UNCHANGED <<cfg, linked, news, connects, ses, reactor, temp, file, counts,
                   overlapped, hurried, unjoined>>

\* SyncService::shutdown: no session is made from here on, the table is emptied...
Shutdown(n) ==
    /\ n = A /\ main[n] = "run"
    /\ IF ses[n].at = "table" THEN Session(n, [ses[n] EXCEPT !.at = "loose"]) /\ MainTo(n, "flag")
                              ELSE UNCHANGED ses /\ MainTo(n, "clean")
    /\ UNCHANGED <<cfg, network, reactor, temp, file, counts, ghosts>>

\* ...each session stopped, unless it does not run (yet)...
StopFlag(n) ==
    /\ main[n] = "flag"
    /\ Session(n, [ses[n] EXCEPT !.running = FALSE])
    /\ MainTo(n, IF ses[n].running THEN "join" ELSE "clean")
    /\ UNCHANGED <<cfg, network, reactor, temp, file, counts, ghosts>>

\* Mutants: a file being received is taken from under the reactor; the threads are
\* left to end by themselves.
StopJoinAll(n) ==
    /\ main[n] = "join" /\ ses[n].serves = 0
    /\ Session(n, [ses[n] EXCEPT !.incoming = FALSE, !.threads = FALSE])
    /\ Pruned(n)
    /\ MainTo(n, "clean")
    /\ UNCHANGED <<cfg, network, reactor, file, counts, ghosts>>

StopJoinNobody(n) ==
    /\ main[n] = "join"
    /\ Session(n, [ses[n] EXCEPT !.incoming = FALSE, !.serves = 0])
    /\ Pruned(n)
    /\ MainTo(n, "clean")
    /\ UNCHANGED <<cfg, network, reactor, file, counts, ghosts>>

\* ...which joins its threads and drops what it was receiving, but for a transfer the
\* reactor has looked up...
StopJoin(n) ==
    /\ main[n] = "join" /\ ses[n].serves = 0
    /\ IF ses[n].incoming /\ reactor[n].at # "move"
       THEN Session(n, [ses[n] EXCEPT !.incoming = FALSE, !.threads = FALSE]) /\ Pruned(n)
       ELSE /\ Session(n, [ses[n] EXCEPT !.threads = FALSE])
            /\ temp' = [temp EXCEPT ![n] = IF @ = "empty" THEN "none" ELSE @]
    /\ hurried' = (hurried \/ reactor[n].at = "spawn")
    /\ MainTo(n, "clean")
    /\ UNCHANGED <<cfg, network, reactor, file, counts, late, overlapped, unjoined>>

\* ...and the directory is cleared.
Clean(n) ==
    /\ main[n] = "clean"
    /\ Pruned(n)
    /\ overlapped' = (overlapped \/ reactor[n] # Idle)
    /\ IF ses[n].at = "loose" /\ reactor[n] = Idle THEN Destroyed(n)
                                                  ELSE UNCHANGED <<ses, unjoined>>
    /\ MainTo(n, "left")
    /\ UNCHANGED <<cfg, network, reactor, file, counts, late, hurried>>

\* Node::stop waits for the reactor and closes the connections.
NodeStop(n) ==
    /\ main[n] = "left" /\ reactor[n] = Idle
    /\ IF linked THEN Lost({Other(n)}) ELSE UNCHANGED <<linked, chan, news>>
    /\ MainTo(n, "ended")
    /\ UNCHANGED <<cfg, connects, ses, reactor, temp, file, counts, ghosts>>

-----------------------------------------------------------------------------
Handle(n) == Inert(n) \/ HandleHello(n) \/ HandleSimple(n) \/ HandleFileStart(n) \/ HandleFileEnd(n)

Reacts(n) == \/ Greet(n) \/ Ignore(n) \/ Take(n) \/ Start(n) \/ Spawn(n) \/ Handle(n)
             \/ CreatePart(n) \/ Register(n) \/ Move(n) \/ Prune(n) \/ Leave(n)
             \/ Erase(n) \/ Stopped(n)

Tells(n) == LocalChanged(n) \/ Speak(n) \/ LateChanged(n)

Ends(n) == StopFlag(n) \/ StopJoin(n) \/ Clean(n) \/ NodeStop(n)

Next == \/ Connect \/ Drop \/ Ask
        \/ \E n \in Node : Reacts(n) \/ Serve(n) \/ Notify(n) \/ Tells(n) \/ Shutdown(n) \/ Ends(n)

Spec == Init /\ [][Next]_vars

\* Threads run.  Nobody has to change anything, to connect, to disconnect or to end.
FairSpec == /\ Spec
            /\ \A n \in Node : /\ WF_vars(Reacts(n)) /\ WF_vars(Serve(n))
                               /\ WF_vars(Tells(n)) /\ WF_vars(Ends(n))

-----------------------------------------------------------------------------
(* Properties.                                                             *)

\* Two peers that can work together: the nodes were started for each other.
Compatible ==
    /\ cfg[A].allows /\ cfg[B].allows
    /\ cfg[A].version = cfg[B].version /\ cfg[A].folder = cfg[B].folder
    /\ cfg[A].mode = "TwoWay" /\ cfg[B].mode = "TwoWay" =>
           cfg[A].conflict = Complement(cfg[B].conflict)

\* handle_hello: "merge two different trees into each other ... the one failure this
\* protocol must never have".  A node takes a peer's tree to compare with its own only
\* if the two can work together, although the main thread may describe the tree of a
\* session whose Hello is still being looked at.
NotMerged == ~late => \A n \in Node : ses[n].known => Compatible

\* The two nodes, their threads and the connection are at rest.
AtRest == linked /\ \A n \in Node : /\ main[n] = "run" /\ news[n] = "none"
                                    /\ chan[n] = <<>> /\ reactor[n] = Idle

\* "every refusal rule is symmetric": at rest both nodes take part or neither does; no
\* node waits for one that has turned away.
TakesPart(n) == ses[n].known /\ ~ses[n].inert
BothOrNeither == AtRest => (TakesPart(A) <=> TakesPart(B))

\* README: a download "atomically replaces the old one".  A file that is replaced is
\* there before and after, unless the main thread cleared the directory in between.
FileSurvives == file = "gone" => overlapped

\* "Nothing of ours is left in the tree between transfers", nor after shutdown.
NothingLeftBehind ==
    \A n \in Node : reactor[n] = Idle /\ ~ses[n].incoming /\ ~overlapped => temp[n] = "none"

\* A session is destroyed when its threads have been joined, and the program is not
\* terminated for a thread that has not; but for stop() coming while start() has raised
\* the flag and made no thread yet.
ThreadsAreJoined == unjoined => hurried

\* Nodes that can work together get to know each other's trees while they are connected.
Acquainted == linked /\ Compatible ~> (ses[A].known /\ ses[B].known) \/ ~linked \/ ~Serving(A)

\* Shutdown comes to an end, with sessions in any state, and for good: "after shutdown, a
\* message still in flight on the reactor must not resurrect a session".
ShutdownEnds == ~Serving(A) ~> [](main[A] = "ended" /\ ses[A].at = "none")
=============================================================================
