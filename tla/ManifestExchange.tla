-------------------------- MODULE ManifestExchange --------------------------
(***************************************************************************)
(* One peer, the teller, describes its tree to another, the listener       *)
(* (net/sync_session.cpp, net/sync_service.cpp): the first update of a     *)
(* session carries the whole tree and is flagged Reset, later ones what    *)
(* changed since; an update too large for one message is cut into chunks,  *)
(* all but the last flagged More, which the listener assembles aside.      *)
(*                                                                         *)
(* The daemon thread reports a change to the sessions it finds: it copies  *)
(* the list under a lock and calls the sessions after releasing it, so a   *)
(* session it calls may have been replaced in the meantime, while what it  *)
(* sends still goes to the same peer: an increment on a tree that the new  *)
(* session's listener need not have.                                       *)
(*                                                                         *)
(* An update is cut after MaxEntries entries, where the code counts their  *)
(* bytes.  Each message carries, as ghosts, the version of the tree it     *)
(* completes and whether a replaced session sent it, or it ends the        *)
(* description of a whole tree.                                            *)
(***************************************************************************)
EXTENDS Integers, Sequences, FiniteSets, SequencesExt

CONSTANTS Path, Content, Absent, Unknown,
          MaxEntries,              \* entries in a message
          MaxChanges, MaxConnects  \* bounds: changes of the tree, connections

ASSUME ExchangeAssumption ==
    /\ Absent \notin Content /\ IsFiniteSet(Path)
    /\ MaxEntries \in Nat \ {0}
    /\ {MaxChanges, MaxConnects} \subseteq Nat

Tree == [Path -> Content \union {Absent}]
NoFiles == [f \in Path |-> Absent]

VARIABLES
    past,      \* the trees the teller has had, by version
    session,   \* the teller's session, a number, or 0
    last_sent, \* what each of its sessions has sent
    owed,      \* advertise_pending of the session
    dirty,     \* the daemon has a change to report
    holding,   \* the session the daemon is about to call, or 0
    linked, connects,
    hello,     \* the listener's Hello is on its way
    chan,      \* messages to the listener
    listening, \* the listener has a session
    remote, have_remote, staging, staging_active,
    version,   \* ghost: the version remote was last completed at
    tainted    \* ghost: a replaced session has spoken since the last whole tree

teller   == <<past, session, last_sent, owed, dirty, holding>>
listener == <<listening, remote, have_remote, staging, staging_active>>
ghosts   == <<version, tainted>>
vars == <<teller, linked, connects, hello, chan, listener, ghosts>>

local == past[Len(past)]

Hello == [op |-> "Hello"]
Update(reset, more, entries, v, says) ==
    [op |-> "ManifestUpdate", reset |-> reset, more |-> more, entries |-> entries,
     version |-> v, says |-> says]

Message ==
    {Hello} \union
    [op : {"ManifestUpdate"}, reset : BOOLEAN, more : BOOLEAN,
     entries : Seq(Path \X (Content \union {Absent})), version : 1..Len(past),
     says : {"stale", "part", "whole"}]

TypeOK ==
    /\ past \in Seq(Tree) /\ past # <<>>
    /\ session \in 0..MaxConnects
    /\ last_sent \in [1..MaxConnects -> Tree \union {Unknown}]
    /\ {owed, dirty, linked, hello, listening, have_remote, staging_active,
        tainted} \subseteq BOOLEAN
    /\ holding \in 0..MaxConnects
    /\ connects \in 0..MaxConnects
    /\ chan \in Seq(Message)
    /\ remote \in Tree /\ staging \in Tree
    /\ version \in 1..Len(past)

Init ==
    /\ \E t \in Tree : past = <<t>>
    /\ session = 0 /\ last_sent = [e \in 1..MaxConnects |-> Unknown]
    /\ owed = FALSE /\ dirty = FALSE /\ holding = 0
    /\ linked = FALSE /\ connects = 0 /\ hello = FALSE /\ chan = <<>>
    /\ listening = FALSE /\ remote = NoFiles /\ have_remote = FALSE
    /\ staging = NoFiles /\ staging_active = FALSE
    /\ version = 1 /\ tainted = FALSE

-----------------------------------------------------------------------------
(* Patches.                                                                *)

\* Mutant: removals are not mentioned.
DiffSetOnly(from, to) ==
    SetToSeq({<<f, to[f]>> : f \in {g \in Path : to[g] # Absent /\ to[g] # from[g]}})

\* diff_manifests: the entries that turn one tree into another, those to set
\* before those to remove.
Diff(from, to) ==
    LET Set == {f \in Path : to[f] # Absent /\ to[f] # from[f]}
        Removed == {f \in Path : to[f] = Absent /\ from[f] # Absent}
        Entry(f) == <<f, to[f]>>
    IN  SetToSeq({Entry(f) : f \in Set}) \o SetToSeq({Entry(f) : f \in Removed})

\* Manifest::apply
Apply(tree, entries) ==
    [f \in Path |-> IF \E i \in 1..Len(entries) : entries[i][1] = f
                    THEN entries[CHOOSE i \in 1..Len(entries) : entries[i][1] = f][2]
                    ELSE tree[f]]

\* send_update_locked: full chunks, then what is left, possibly nothing.
Chunks(entries, reset, v, stale) ==
    LET n == Len(entries) \div MaxEntries
        Chunk(i) == SubSeq(entries, (i - 1) * MaxEntries + 1,
                           IF i <= n THEN i * MaxEntries ELSE Len(entries))
    IN  [i \in 1..(n + 1) |-> Update(reset /\ i = 1, i <= n, Chunk(i), v,
                                     IF stale THEN "stale"
                                     ELSE IF reset /\ i = n + 1 THEN "whole" ELSE "part")]

-----------------------------------------------------------------------------
(* The teller.                                                             *)

\* advertise_locked of session e: whatever it has not sent yet.  The messages go
\* to whatever connection the peer has.
Advertise(e) ==
    LET reset == last_sent[e] = Unknown
        entries == Diff(IF reset THEN NoFiles ELSE last_sent[e], local)
    IN  /\ chan' = IF linked /\ (reset \/ entries # <<>>)
                   THEN chan \o Chunks(entries, reset, Len(past), e # connects) ELSE chan
        /\ last_sent' = [last_sent EXCEPT ![e] = local]

\* A scan finds a change; a received file changes the tree too, and is told when
\* the session has nothing else to do.
Change ==
    /\ Len(past) <= MaxChanges
    /\ \E f \in Path, c \in Content \union {Absent} :
          /\ c # local[f]
          /\ past' = Append(past, [local EXCEPT ![f] = c])
    /\ \/ ~dirty /\ holding = 0 /\ dirty' = TRUE /\ UNCHANGED owed
       \/ session # 0 /\ owed' = TRUE /\ UNCHANGED dirty
    /\ UNCHANGED <<session, last_sent, holding, linked, connects, hello, chan, listener, ghosts>>

\* notify_sessions: copy the sessions...
NotifyCopy ==
    /\ dirty
    /\ dirty' = FALSE
    /\ holding' = session
    /\ UNCHANGED <<past, session, last_sent, owed, linked, connects, hello, chan, listener, ghosts>>

\* ...and call local_changed on each.
NotifyCall ==
    /\ holding # 0
    /\ Advertise(holding)
    /\ owed' = IF holding = session THEN FALSE ELSE owed
    /\ holding' = 0
    /\ UNCHANGED <<past, session, dirty, linked, connects, hello, listener, ghosts>>

\* maybe_synced flushes what is owed.
Flush ==
    /\ session # 0 /\ owed
    /\ Advertise(session)
    /\ owed' = FALSE
    /\ UNCHANGED <<past, session, dirty, holding, linked, connects, hello, listener, ghosts>>

\* The first message from the listener brings the session into being; its Hello is
\* answered with the tree.
RecvHello ==
    /\ hello
    /\ hello' = FALSE
    /\ session' = connects
    /\ Advertise(connects)
    /\ owed' = FALSE
    /\ UNCHANGED <<past, dirty, holding, linked, connects, listener, ghosts>>

-----------------------------------------------------------------------------
(* The listener.                                                           *)

Receives(op) == chan # <<>> /\ Head(chan).op = op

HearHello ==
    /\ Receives("Hello")
    /\ chan' = Tail(chan)
    /\ listening' = TRUE
    /\ UNCHANGED <<teller, linked, connects, hello, remote, have_remote, staging,
                   staging_active, ghosts>>

\* Mutant: every chunk is committed as it comes.
HearUpdateInPlace ==
    /\ Receives("ManifestUpdate")
    /\ chan' = Tail(chan)
    /\ remote' = Apply(IF Head(chan).reset THEN NoFiles ELSE remote, Head(chan).entries)
    /\ have_remote' = TRUE /\ version' = Head(chan).version
    /\ listening' = TRUE /\ UNCHANGED tainted
    /\ UNCHANGED <<teller, linked, connects, hello, staging, staging_active>>

\* handle_manifest_update
HearUpdate ==
    /\ Receives("ManifestUpdate")
    /\ chan' = Tail(chan)
    /\ LET m == Head(chan)
           from == IF m.reset THEN NoFiles ELSE IF staging_active THEN staging ELSE remote
           tree == Apply(from, m.entries)
       IN  /\ tainted' = (m.says = "stale" \/ (tainted /\ m.says # "whole"))
           /\ IF m.more
              THEN /\ staging' = tree /\ staging_active' = TRUE
                   /\ UNCHANGED <<remote, have_remote, version>>
              ELSE /\ remote' = tree /\ have_remote' = TRUE
                   /\ version' = IF tainted' THEN version ELSE m.version
                   /\ staging' = NoFiles /\ staging_active' = FALSE
    /\ listening' = TRUE
    /\ UNCHANGED <<teller, linked, connects, hello>>

-----------------------------------------------------------------------------
(* The connection.                                                         *)

Connect ==
    /\ ~linked /\ connects < MaxConnects
    /\ linked' = TRUE
    /\ connects' = connects + 1
    /\ hello' = TRUE
    /\ chan' = <<Hello>>
    /\ UNCHANGED <<teller, listener, ghosts>>

Drop ==
    /\ linked
    /\ connects < MaxConnects
    /\ linked' = FALSE /\ hello' = FALSE /\ chan' = <<>>
    /\ session' = 0 /\ owed' = FALSE
    /\ listening' = FALSE /\ remote' = NoFiles /\ have_remote' = FALSE
    /\ staging' = NoFiles /\ staging_active' = FALSE
    /\ tainted' = FALSE
    /\ UNCHANGED <<past, last_sent, dirty, holding, connects, version>>

-----------------------------------------------------------------------------
Next == \/ Change \/ NotifyCopy \/ NotifyCall \/ Flush \/ RecvHello
        \/ HearHello \/ HearUpdate
        \/ Connect \/ Drop

Spec == Init /\ [][Next]_vars

\* The threads keep running and the daemon redials; nothing has to change.
FairSpec == /\ Spec
            /\ WF_vars(NotifyCopy) /\ WF_vars(NotifyCall) /\ WF_vars(Flush)
            /\ WF_vars(RecvHello) /\ WF_vars(HearHello) /\ WF_vars(HearUpdate)
            /\ WF_vars(Connect)

-----------------------------------------------------------------------------
(* Properties.                                                             *)

\* What the listener reconciles against, unless a replaced session has changed it.
view == IF have_remote /\ ~tainted THEN remote ELSE Unknown

\* "A partially applied tree must never reach reconcile": incremental description
\* implements the listener seeing whole trees the teller has had, in order, but for a
\* tree a replaced session has changed.
Abstract == INSTANCE AdvertisedTree WITH floor <- version
RefinesAdvertisedTree == Abstract!Spec

\* Every change is told: once the tree stops changing the listener's view of it is
\* right, whatever mixture of resets, increments and lost connections led there.
ViewCatchesUp == <>[](view = local \/ tainted)
=============================================================================
