--------------------------- MODULE SyncPairProofs ---------------------------
(***************************************************************************)
(* Theorems about SyncPair, for any finite set of paths, any options that  *)
(* pair, and any number of edits, deletions, drops, crashes and faults.    *)
(*                                                                         *)
(* What the handlers do to a peer's state is settled first; a step of the  *)
(* system is then one of a few shapes (Steps), and each invariant is       *)
(* taken through the shapes and not through the actions.  Then one change  *)
(* is followed through both peers, for users that make one at a time; the  *)
(* last part is about what a peer has decided to do, for users that do     *)
(* not wait.                                                               *)
(***************************************************************************)
EXTENDS SyncPair, FiniteSetTheorems, TLAPS

-----------------------------------------------------------------------------
(* Sequences of messages and of paths.                                     *)

LEMMA TailElements ==
    ASSUME NEW S, NEW c \in Seq(S), c # <<>>
    PROVE  /\ Tail(c) \in Seq(S) /\ Head(c) \in S /\ Head(c) = c[1]
           /\ Len(c) \in Nat /\ Len(c) > 0 /\ Len(Tail(c)) = Len(c) - 1
           /\ \A i \in 1..Len(Tail(c)) : i + 1 \in 1..Len(c) /\ Tail(c)[i] = c[i + 1]
OBVIOUS

LEMMA ConcatElements ==
    ASSUME NEW S, NEW c \in Seq(S), NEW d \in Seq(S)
    PROVE  /\ c \o d \in Seq(S) /\ Len(c) \in Nat /\ Len(d) \in Nat
           /\ Len(c \o d) = Len(c) + Len(d)
           /\ \A i \in 1..Len(c) : (c \o d)[i] = c[i]
           /\ \A i \in 1..Len(d) : (c \o d)[Len(c) + i] = d[i]
           /\ \A i \in 1..Len(c \o d) :
                 \/ i \in 1..Len(c)
                 \/ i - Len(c) \in 1..Len(d) /\ (c \o d)[i] = d[i - Len(c)]
<1>1. /\ c \o d \in Seq(S) /\ Len(c) \in Nat /\ Len(d) \in Nat
      /\ Len(c \o d) = Len(c) + Len(d)
      /\ \A i \in 1..Len(c) : (c \o d)[i] = c[i]
      /\ \A i \in 1..Len(d) : (c \o d)[Len(c) + i] = d[i]
  OBVIOUS
<1>2. ASSUME NEW i \in 1..Len(c \o d), i \notin 1..Len(c)
      PROVE  i - Len(c) \in 1..Len(d) /\ (c \o d)[i] = d[i - Len(c)]
  <2>1. i - Len(c) \in 1..Len(d) /\ Len(c) + (i - Len(c)) = i
    BY <1>1, <1>2
  <2> QED BY <2>1, <1>1
<1> QED BY <1>1, <1>2

\* An ordering of a finite set is a sequence of its members.
LEMMA OrderingIsSeq ==
    ASSUME NEW S, IsFiniteSet(S)
    PROVE  SetToSeq(S) \in Seq(S)
<1>1. Cardinality(S) \in Nat /\ \E f \in [1..Cardinality(S) -> S] : IsInjective(f)
  <2>1. PICK f \in Bijection(1..Cardinality(S), S) : TRUE
    BY FS_CardinalityType DEF ExistsBijection
  <2>2. f \in [1..Cardinality(S) -> S] /\ IsInjective(f)
    BY <2>1 DEF Bijection, Injection
  <2> QED BY <2>2, FS_CardinalityType
<1>2. SetToSeq(S) \in [1..Cardinality(S) -> S]
  BY <1>1, Zenon DEF SetToSeq
<1> QED BY <1>1, <1>2

-----------------------------------------------------------------------------
(* Plans.                                                                  *)

LEMMA PlanType ==
    ASSUME NEW b, NEW t, NEW u, NEW o
    PROVE  /\ PlanFor(b, t, u, o).pull \in SUBSET Path
           /\ PlanFor(b, t, u, o).delete_local \in SUBSET Path
BY DEF PlanFor, Keys

\* A peer that follows deletions and sees nothing to do has the tree of the other.
LEMMA EmptyPlanAgrees ==
    ASSUME NEW b, NEW t, NEW u, NEW o \in Options, o.deletes, EmptyPlan(PlanFor(b, t, u, o))
    PROVE  SameTree(t, u)
<1> SUFFICES ASSUME NEW f \in Path, ~SameEntry(t[f], u[f]) PROVE FALSE
  BY DEF SameTree
<1> DEFINE c == BaseFor(b, o)
           k == Decide(f, c, t, u, o)
<1>1. f \in Keys(c, t, u)
  BY DEF Keys, SameEntry
<1>2. k # "None"
  BY DEF Decide, DecideTwoWay, DecideMirror, Settled, Offer, Accept
<1>3. k \in {"None", "Pull", "DeleteLocal", "Push", "DeleteRemote"}
  BY Zenon DEF Decide, DecideTwoWay, DecideMirror, Offer, Accept
<1>4. f \in PlanFor(b, t, u, o).pull \union PlanFor(b, t, u, o).delete_local
              \union PlanFor(b, t, u, o).push \union PlanFor(b, t, u, o).delete_remote
  <2> HIDE DEF c
  <2>1. k \in {"Pull", "DeleteLocal", "Push", "DeleteRemote"}
    BY <1>2, <1>3
  <2> QED BY <1>1, <2>1 DEF PlanFor, c
<1> QED BY <1>4 DEF EmptyPlan

\* Two-way, a peer deletes only what its baseline lists and the other's tree does not,
\* and only if it follows deletions.
LEMMA DeletesWhatTheBaselineLists ==
    ASSUME NEW b, NEW t, NEW u, NEW o \in Options,
           NEW f \in PlanFor(b, t, u, o).delete_local
    PROVE  /\ o.deletes
           /\ o.mode = "TwoWay" => b[f] # Absent /\ u[f] = Absent
<1>1. Decide(f, BaseFor(b, o), t, u, o) = "DeleteLocal"
  BY DEF PlanFor
<1>2. o.deletes
  BY <1>1 DEF Decide, DecideTwoWay, DecideMirror, Offer, Accept
<1>3. ASSUME o.mode = "TwoWay" PROVE b[f] # Absent /\ u[f] = Absent
  <2>1. DecideTwoWay(t[f], u[f], b[f], o) = "DeleteLocal"
    BY <1>1, <1>3 DEF Decide, BaseFor
  <2>2. u[f] = Absent /\ ~SameEntry(t[f], u[f])
    BY <2>1 DEF DecideTwoWay, Offer, Accept, Settled
  <2>3. t[f] # Absent
    BY <2>2 DEF SameEntry
  <2>4. \/ ~Changed(t[f], b[f])
        \/ Changed(u[f], b[f])
    BY <2>1 DEF DecideTwoWay, Offer, Accept, IsConflict
  <2> QED BY <2>2, <2>3, <2>4 DEF Changed, SameEntry
<1> QED BY <1>2, <1>3

-----------------------------------------------------------------------------
(* What the handlers do to a peer's state.                                 *)

\* r is what a peer of state s has become and said: every update it has sent tells the
\* tree it has, and it remembers the last one.
Says(s, r) ==
    /\ r.out \in Seq(Message)
    /\ \A i \in 1..Len(r.out) : r.out[i].op = "ManifestUpdate" => r.out[i] = Update(r.s.local)
    /\ \/ /\ r.s.last_sent = s.last_sent
          /\ \A i \in 1..Len(r.out) : r.out[i].op # "ManifestUpdate"
       \/ /\ r.s.last_sent = r.s.local
          /\ Len(r.out) > 0 /\ r.out[Len(r.out)] = Update(r.s.local)

\* The baseline b stays, or the tree becomes it because nothing is left to do.
Recorded(p, b, s) ==
    \/ s.base = b
    \/ /\ Opt[p].mode = "TwoWay"
       /\ s.base = s.local /\ s.remote # Unknown
       /\ EmptyPlan(PlanFor(b, s.local, s.remote, Opt[p]))

\* A change not told yet is owed, and what is owed will be told: somebody is busy who
\* will look.
Tells(s) == s.local = s.last_sent \/ s.advertise_pending
Owes(s)  == Tells(s) /\ (s.advertise_pending => Busy(s))

SameWork(s, t) ==
    /\ t.local = s.local /\ t.remote = s.remote /\ t.session = s.session
    /\ t.pulling = s.pulling /\ t.pull_queue = s.pull_queue /\ t.serve_q = s.serve_q

LEMMA ResultFields ==
    ASSUME NEW s, NEW out
    PROVE  Result(s, out).s = s /\ Result(s, out).out = out
BY DEF Result

LEMMA MessageTypes ==
    /\ \A t \in Manifest : Update(t) \in Message /\ Update(t).op = "ManifestUpdate" /\ Update(t).tree = t
    /\ \A f \in Path : /\ Request(f) \in Message /\ Request(f).op = "Request"
                       /\ NotFound(f) \in Message /\ NotFound(f).op = "NotFound"
    /\ \A f \in Path, m \in FileMeta : File(f, m) \in Message /\ File(f, m).op = "File"
    /\ Hello \in Message /\ Hello.op = "Hello"
<1>1. ASSUME NEW t \in Manifest
      PROVE  Update(t) \in Message /\ Update(t).op = "ManifestUpdate" /\ Update(t).tree = t
  <2>1. Update(t) \in {Update(u) : u \in Manifest}
    OBVIOUS
  <2> QED BY <2>1 DEF Message, Update
<1>2. ASSUME NEW f \in Path
      PROVE  /\ Request(f) \in Message /\ Request(f).op = "Request"
             /\ NotFound(f) \in Message /\ NotFound(f).op = "NotFound"
  <2>1. Request(f) \in {Request(g) : g \in Path} /\ NotFound(f) \in {NotFound(g) : g \in Path}
    OBVIOUS
  <2> QED BY <2>1 DEF Message, Request, NotFound
<1>3. ASSUME NEW f \in Path, NEW m \in FileMeta
      PROVE  File(f, m) \in Message /\ File(f, m).op = "File"
  <2>1. File(f, m) \in {File(g, n) : g \in Path, n \in FileMeta}
    OBVIOUS
  <2> QED BY <2>1 DEF Message, File
<1>4. Hello \in Message /\ Hello.op = "Hello"
  BY DEF Message, Hello
<1> QED BY <1>1, <1>2, <1>3, <1>4

LEMMA MessageParts ==
    ASSUME NEW m \in Message
    PROVE  /\ m.op = "ManifestUpdate" => m.tree \in Manifest /\ m = Update(m.tree)
           /\ m.op = "Request" => m.path \in Path
           /\ m.op = "NotFound" => m.path \in Path
           /\ m.op = "File" => m.path \in Path /\ m.meta \in FileMeta
BY DEF Message, Update, Request, NotFound, File, Hello

\* Saying one thing more that is the tree.
LEMMA SaysTree ==
    ASSUME NEW s, NEW out \in Seq(Message), NEW t \in Service,
           \A i \in 1..Len(out) : out[i].op = "ManifestUpdate" => out[i] = Update(t.local),
           t.last_sent = t.local
    PROVE  Says(s, Result(t, Append(out, Update(t.local))))
<1>1. Update(t.local) \in Message
  BY MessageTypes DEF Service
<1>2. /\ Append(out, Update(t.local)) \in Seq(Message) /\ Len(out) \in Nat
      /\ Len(Append(out, Update(t.local))) = Len(out) + 1
      /\ \A i \in 1..Len(out) : Append(out, Update(t.local))[i] = out[i]
      /\ Append(out, Update(t.local))[Len(out) + 1] = Update(t.local)
  BY <1>1
<1>3. \A i \in 1..(Len(out) + 1) : i \in 1..Len(out) \/ i = Len(out) + 1
  BY <1>2
<1>4. \A i \in 1..(Len(out) + 1) :
         Append(out, Update(t.local))[i].op = "ManifestUpdate" =>
            Append(out, Update(t.local))[i] = Update(t.local)
  BY <1>2, <1>3
<1>5. Len(out) + 1 > 0
  BY <1>2
<1> DEFINE o == Append(out, Update(t.local))
<1>6. o \in Seq(Message) /\ Len(o) > 0 /\ o[Len(o)] = Update(t.local)
      /\ \A i \in 1..Len(o) : o[i].op = "ManifestUpdate" => o[i] = Update(t.local)
  BY <1>2, <1>4, <1>5
<1> HIDE DEF o
<1> DEFINE x == Result(t, o)
<1>7. x.s = t /\ x.out = o
  BY ResultFields
<1> HIDE DEF x
<1>8. Says(s, x)
  BY <1>6, <1>7 DEF Says
<1> QED BY <1>8 DEF o, x

LEMMA AdvertiseSays ==
    ASSUME NEW s, NEW r, r.s \in Service, Says(s, r)
    PROVE  LET a == Advertise(r)
           IN  /\ a.s \in Service /\ Says(s, a) /\ SameWork(r.s, a.s)
               /\ a.s.base = r.s.base /\ a.s.last_eval_valid = r.s.last_eval_valid
               /\ a.s.last_sent = a.s.local /\ ~a.s.advertise_pending
<1> DEFINE t == [r.s EXCEPT !.advertise_pending = FALSE, !.last_sent = r.s.local]
<1>1. /\ t \in Service /\ SameWork(r.s, t) /\ t.local = r.s.local
      /\ t.base = r.s.base /\ t.last_eval_valid = r.s.last_eval_valid
      /\ t.last_sent = t.local /\ t.advertise_pending = FALSE
  BY DEF Service, SameWork
<1>2. Advertise(r) = Result(t, IF r.s.last_sent = r.s.local THEN r.out
                               ELSE Append(r.out, Update(r.s.local)))
  BY DEF Advertise
<1> HIDE DEF t
<1>3. CASE r.s.last_sent = r.s.local
  <2>1. Advertise(r) = Result(t, r.out)
    BY <1>2, <1>3
  <2>2. Says(s, Result(t, r.out))
    BY <1>1, <1>3, ResultFields DEF Says
  <2> QED BY <1>1, <2>1, <2>2, ResultFields
<1>4. CASE r.s.last_sent # r.s.local
  <2>1. Advertise(r) = Result(t, Append(r.out, Update(t.local)))
    BY <1>1, <1>2, <1>4
  <2>2. /\ r.out \in Seq(Message)
        /\ \A i \in 1..Len(r.out) : r.out[i].op = "ManifestUpdate" => r.out[i] = Update(t.local)
    BY <1>1 DEF Says
  <2>3. Says(s, Result(t, Append(r.out, Update(t.local))))
    BY <1>1, <2>2, SaysTree
  <2> QED BY <1>1, <2>1, <2>3, ResultFields
<1> QED BY <1>3, <1>4

LEMMA EvaluateSays ==
    ASSUME NEW p, NEW s, NEW r, r.s \in Service, Says(s, r), r.s.remote # Unknown
    PROVE  LET e == Evaluate(p, r)
           IN  /\ e.s \in Service /\ Says(s, e) /\ SameWork(r.s, e.s)
               /\ Recorded(p, r.s.base, e.s)
               /\ e.s.last_sent = r.s.last_sent
               /\ e.s.advertise_pending = r.s.advertise_pending
<1> DEFINE e == Evaluate(p, r)
           v == [r.s EXCEPT !.last_eval_valid = TRUE]
           y == [v EXCEPT !.last_synced = v.local]
           Like(t) == /\ t \in Service /\ SameWork(r.s, t)
                      /\ t.last_sent = r.s.last_sent /\ t.advertise_pending = r.s.advertise_pending
<1>1. Like(v) /\ v.base = r.s.base
  BY DEF Service, SameWork
<1>2. Like(y) /\ y.base = r.s.base
  BY <1>1 DEF Service, SameWork
<1>3. Like(Record(y)) /\ Record(y).base = r.s.local
  BY <1>2 DEF Service, SameWork, Record
<1>4. \/ e = Result(v, r.out)
      \/ e = Result(y, r.out)
      \/ /\ e = Result(Record(y), r.out) /\ Opt[p].mode = "TwoWay"
         /\ EmptyPlan(PlanFor(v.base, v.local, v.remote, Opt[p]))
  BY DEF Evaluate
<1>5. \A t : Like(t) => Says(s, Result(t, r.out))
  BY ResultFields DEF Says, SameWork
<1> HIDE DEF e, v, y
<1>6. CASE e = Result(v, r.out)
  BY <1>1, <1>5, <1>6, ResultFields DEF Recorded, e
<1>7. CASE e = Result(y, r.out)
  BY <1>2, <1>5, <1>7, ResultFields DEF Recorded, e
<1>8. CASE /\ e = Result(Record(y), r.out) /\ Opt[p].mode = "TwoWay"
           /\ EmptyPlan(PlanFor(v.base, v.local, v.remote, Opt[p]))
  <2>1. EmptyPlan(PlanFor(r.s.base, r.s.local, r.s.remote, Opt[p]))
    BY <1>1, <1>8 DEF SameWork
  <2>2. Recorded(p, r.s.base, Record(y))
    BY <1>3, <1>8, <2>1 DEF Recorded, SameWork
  <2> QED BY <1>3, <1>5, <1>8, <2>2, ResultFields DEF e
<1> QED BY <1>4, <1>6, <1>7, <1>8

LEMMA MaybeSyncedSays ==
    ASSUME NEW p, NEW s, NEW r, r.s \in Service, Says(s, r)
    PROVE  LET m == MaybeSynced(p, r)
           IN  /\ m.s \in Service /\ Says(s, m) /\ SameWork(r.s, m.s)
               /\ Recorded(p, r.s.base, m.s)
               /\ Tells(r.s) => Owes(m.s)
<1> DEFINE m == MaybeSynced(p, r)
           g == IF r.s.advertise_pending THEN Advertise(r) ELSE r
<1>1. CASE Busy(r.s)
  <2> DEFINE t == [r.s EXCEPT !.last_eval_valid = FALSE]
  <2>1. /\ t \in Service /\ SameWork(r.s, t) /\ t.base = r.s.base
        /\ t.last_sent = r.s.last_sent /\ t.advertise_pending = r.s.advertise_pending
    BY DEF Service, SameWork
  <2>2. MaybeSynced(p, r) = Result(t, r.out)
    BY <1>1 DEF MaybeSynced
  <2> HIDE DEF t
  <2>3. Says(s, Result(t, r.out))
    BY <2>1, ResultFields DEF Says, SameWork
  <2>4. Tells(r.s) => Owes(t)
    BY <1>1, <2>1 DEF Tells, Owes, Busy, SameWork
  <2> QED BY <2>1, <2>2, <2>3, <2>4, ResultFields DEF Recorded
<1>2. CASE ~Busy(r.s)
  <2>1. /\ g.s \in Service /\ Says(s, g) /\ SameWork(r.s, g.s) /\ g.s.base = r.s.base
        /\ ~g.s.advertise_pending
        /\ Tells(r.s) => g.s.local = g.s.last_sent
    <3>1. CASE r.s.advertise_pending
      BY <3>1, AdvertiseSays
    <3>2. CASE ~r.s.advertise_pending
      BY <3>2 DEF SameWork, Tells
    <3> QED BY <3>1, <3>2
  <2>2. \/ MaybeSynced(p, r) = g
        \/ MaybeSynced(p, r) = Evaluate(p, g) /\ g.s.remote # Unknown
    BY <1>2 DEF MaybeSynced
  <2> HIDE DEF g
  <2>3. CASE MaybeSynced(p, r) = g
    BY <2>1, <2>3 DEF Recorded, Owes, Tells
  <2>4. CASE MaybeSynced(p, r) = Evaluate(p, g) /\ g.s.remote # Unknown
    <3> DEFINE e == Evaluate(p, g)
    <3>1. /\ e.s \in Service /\ Says(s, e) /\ SameWork(g.s, e.s)
          /\ Recorded(p, g.s.base, e.s)
          /\ e.s.last_sent = g.s.last_sent
          /\ e.s.advertise_pending = g.s.advertise_pending
      BY <2>1, <2>4, EvaluateSays
    <3> HIDE DEF e
    <3>2. SameWork(r.s, e.s)
      BY <3>1, <2>1 DEF SameWork
    <3>3. ASSUME Tells(r.s) PROVE Owes(e.s)
      <4>1. e.s.local = g.s.local /\ g.s.local = g.s.last_sent /\ e.s.last_sent = g.s.last_sent
        BY <3>1, <3>3, <2>1, Zenon DEF SameWork
      <4>2. ~e.s.advertise_pending
        BY <3>1, <2>1, Zenon
      <4> QED BY <4>1, <4>2 DEF Owes, Tells
    <3> QED BY <2>1, <2>4, <3>1, <3>2, <3>3 DEF e
  <2> QED BY <2>2, <2>3, <2>4
<1> QED BY <1>1, <1>2

\* Carrying out a plan: the tree loses what was removed, the pulls are reserved.
LEMMA ActSays ==
    ASSUME NEW p, NEW s \in Service, NEW pl, pl.pull \in SUBSET Path,
           NEW removed \in SUBSET Path
    PROVE  LET a == Act(p, s, pl, removed)
           IN  /\ a.s \in Service /\ Says(s, a)
               /\ a.s.local = Unlinked(s.local, removed)
               /\ a.s.remote = s.remote /\ a.s.session = s.session
               /\ Recorded(p, s.base, a.s)
               /\ Tells(s) => Owes(a.s)
<1> DEFINE h == IF removed = {} THEN s ELSE SetLocal(s, Unlinked(s.local, removed))
           w == SetToSeq(pl.pull \ s.pulling)
           v == [h EXCEPT !.pulling = @ \union pl.pull, !.pull_queue = @ \o w]
           o == IF removed = {} THEN Result(v, <<>>) ELSE Advertise(Result(v, <<>>))
<1>1. w \in Seq(Path)
  <2>1. IsFiniteSet(pl.pull \ s.pulling)
    BY PairAssumption, FS_Subset
  <2>2. w \in Seq(pl.pull \ s.pulling)
    BY <2>1, OrderingIsSeq
  <2>3. Seq(pl.pull \ s.pulling) \subseteq Seq(Path)
    OBVIOUS
  <2> QED BY <2>2, <2>3
<1>2. Unlinked(s.local, removed) \in Manifest /\ Unlinked(s.local, {}) = s.local
  <2>1. s.local \in Manifest
    BY DEF Service
  <2> QED BY <2>1 DEF Unlinked, Manifest, Entry
<1>3. /\ h \in Service /\ h.local = Unlinked(s.local, removed)
      /\ h.remote = s.remote /\ h.session = s.session /\ h.base = s.base
      /\ h.last_sent = s.last_sent /\ h.advertise_pending = s.advertise_pending
  BY <1>2 DEF Service, SetLocal
<1> HIDE DEF w, h
<1>4. /\ v \in Service /\ v.local = Unlinked(s.local, removed)
      /\ v.remote = s.remote /\ v.session = s.session /\ v.base = s.base
      /\ v.last_sent = s.last_sent /\ v.advertise_pending = s.advertise_pending
  <2>1. h.pulling \union pl.pull \in SUBSET Path /\ h.pull_queue \o w \in Seq(Path)
    BY <1>1, <1>3 DEF Service
  <2> QED BY <1>3, <2>1 DEF Service
<1>5. Act(p, s, pl, removed) = MaybeSynced(p, o)
  BY DEF Act, h, w
<1> HIDE DEF v
<1>6. Says(s, Result(v, <<>>))
  <2> DEFINE x == Result(v, <<>>)
  <2>1. x.s = v /\ x.out = <<>>
    BY ResultFields
  <2> HIDE DEF x
  <2>2. Says(s, x)
    BY <1>4, <2>1 DEF Says
  <2> QED BY <2>2 DEF x
<1>7. /\ o.s \in Service /\ Says(s, o) /\ o.s.local = Unlinked(s.local, removed)
      /\ o.s.remote = s.remote /\ o.s.session = s.session /\ o.s.base = s.base
      /\ Tells(s) => Tells(o.s)
  <2>1. CASE removed = {}
    <3>1. v.local = s.local
      BY <1>2, <1>4, <2>1
    <3>2. Tells(s) => Tells(v)
      BY <1>4, <3>1 DEF Tells
    <3> QED BY <1>4, <1>6, <2>1, <3>2, ResultFields
  <2>2. CASE removed # {}
    <3> DEFINE x == Result(v, <<>>)
               a == Advertise(x)
    <3>1. x.s = v
      BY ResultFields
    <3>2. /\ a.s \in Service /\ Says(s, a) /\ SameWork(v, a.s) /\ a.s.base = v.base
          /\ a.s.last_sent = a.s.local
      BY <1>4, <1>6, <3>1, AdvertiseSays
    <3>3. o = a
      BY <2>2
    <3> HIDE DEF a, x, o
    <3> QED BY <1>4, <3>2, <3>3 DEF SameWork, Tells
  <2> QED BY <2>1, <2>2
<1> HIDE DEF o
<1> DEFINE m == MaybeSynced(p, o)
<1>8. /\ m.s \in Service /\ Says(s, m) /\ SameWork(o.s, m.s) /\ Recorded(p, o.s.base, m.s)
      /\ Tells(o.s) => Owes(m.s)
  BY <1>7, MaybeSyncedSays
<1> HIDE DEF m
<1>9. m.s.local = o.s.local /\ m.s.remote = o.s.remote /\ m.s.session = o.s.session
  BY <1>8 DEF SameWork
<1> QED BY <1>5, <1>7, <1>8, <1>9 DEF m

-----------------------------------------------------------------------------
(* The shapes of a step.                                                   *)

\* A session is owed what its peer has not been told.
Owing(s) == s.session => Owes(s)

\* A peer takes a message or none, becomes r.s and says r.out.
Talks(p, r) ==
    /\ st' = [st EXCEPT ![p] = r.s]
    /\ held' = [x \in Peer |-> held[x] \union Listed(st'[x].local)]
    /\ r.s \in Service /\ Says(st[p], r)
    /\ Recorded(p, st[p].base, r.s)
    /\ Owing(st[p]) => Owing(r.s)
    /\ \/ /\ chan' = [chan EXCEPT ![Other(p)] = @ \o r.out]
          /\ r.s.remote = st[p].remote
       \/ /\ chan[p] # <<>>
          /\ chan' = [chan EXCEPT ![p] = Tail(@), ![Other(p)] = @ \o r.out]
          /\ r.s.remote = IF Head(chan[p]).op = "ManifestUpdate" THEN Head(chan[p]).tree
                          ELSE st[p].remote

\* The connection is lost: every session starts anew, and a daemon that was killed
\* knows the files and a baseline that may be empty.
Resets ==
    /\ chan' = [p \in Peer |-> <<>>] /\ linked'  = FALSE
    /\ st' \in [Peer -> Service]
    /\ held' = [x \in Peer |-> held[x] \union Listed(st'[x].local)]
    /\ \A p \in Peer : /\ ~st'[p].session /\ st'[p].remote = Unknown /\ st'[p].last_sent = Unknown
                       /\ st'[p].base \in {st[p].base, NoFiles}
                       /\ ~Busy(st'[p]) /\ st'[p].pull_queue = <<>>
                       /\ \A t \in Thread : ~todo'[p][t].due

LEMMA PeerFacts ==
    ASSUME NEW p \in Peer
    PROVE  /\ Other(p) \in Peer /\ Other(p) # p /\ Other(Other(p)) = p
           /\ \A x \in Peer : x = p \/ x = Other(p)
           /\ Opt[p] \in Options
BY PairAssumption DEF Peer, Other

LEMMA PeerTypes ==
    ASSUME TypeOK, NEW p \in Peer
    PROVE  st[p] \in Service /\ chan[p] \in Seq(Message) /\ disk[p] \in Manifest
BY DEF TypeOK

\* What a peer says of a state that differs from s in neither tree nor what it has told.
LEMMA SaysNothing ==
    ASSUME NEW s, NEW t, t.last_sent = s.last_sent
    PROVE  Says(s, Result(t, <<>>))
<1> DEFINE x == Result(t, <<>>)
<1>1. x.s = t /\ x.out = <<>>
  BY ResultFields
<1> HIDE DEF x
<1>2. Says(s, x)
  BY <1>1 DEF Says
<1> QED BY <1>2 DEF x

LEMMA SaysOne ==
    ASSUME NEW s, NEW t, t.last_sent = s.last_sent,
           NEW m \in Message, m.op # "ManifestUpdate"
    PROVE  Says(s, Result(t, <<m>>))
<1> DEFINE x == Result(t, <<m>>)
<1>1. x.s = t /\ x.out = <<m>> /\ <<m>> \in Seq(Message)
  BY ResultFields
<1>2. \A i \in 1..Len(<<m>>) : <<m>>[i].op # "ManifestUpdate"
  OBVIOUS
<1> HIDE DEF x
<1>3. Says(s, x)
  BY <1>1, <1>2 DEF Says
<1> QED BY <1>3 DEF x

LEMMA BecomesTalks ==
    ASSUME NEW p \in Peer, NEW r, Becomes(p, r), TypeOK,
           r.s \in Service, Says(st[p], r), Recorded(p, st[p].base, r.s),
           Owing(st[p]) => Owing(r.s), r.s.remote = st[p].remote
    PROVE  Talks(p, r)
BY DEF Becomes, States, Talks, TypeOK

LEMMA HandlesTalks ==
    ASSUME NEW p \in Peer, NEW r, Handles(p, r), TypeOK,
           r.s \in Service, Says(st[p], r), Recorded(p, st[p].base, r.s),
           Owing(st[p]) => Owing(r.s), chan[p] # <<>>,
           r.s.remote = IF Head(chan[p]).op = "ManifestUpdate" THEN Head(chan[p]).tree
                        ELSE st[p].remote
    PROVE  Talks(p, r)
BY DEF Handles, States, Talks, TypeOK

LEMMA PublishTalks ==
    ASSUME TypeOK, NEW p \in Peer, Publish(p)
    PROVE  \E r : /\ Talks(p, r)
                  /\ r.s.local = [f \in Path |-> IF walk[p].fresh[f] # walk[p].before[f]
                                                 THEN walk[p].fresh[f] ELSE st[p].local[f]]
                  /\ todo' = [todo EXCEPT ![p]["daemon"] = IF r.s.session THEN Decided(p, r.s) ELSE NoPlan]
<1> DEFINE t == [f \in Path |-> IF walk[p].fresh[f] # walk[p].before[f]
                                THEN walk[p].fresh[f] ELSE st[p].local[f]]
           s == SetLocal(st[p], t)
           x == Result(s, <<>>)
           a == Advertise(x)
<1>1. st[p] \in Service /\ t \in Manifest
  BY DEF TypeOK, Service, Manifest
<1> HIDE DEF t
<1>2. /\ s \in Service /\ s.local = t /\ s.base = st[p].base /\ s.session = st[p].session
      /\ s.remote = st[p].remote /\ s.last_sent = st[p].last_sent
  BY <1>1 DEF SetLocal, Service
<1>3. x.s = s /\ Says(st[p], x)
  BY <1>2, SaysNothing, ResultFields
<1>4. /\ Becomes(p, IF s.session THEN a ELSE x)
      /\ todo' = [todo EXCEPT ![p]["daemon"] =
                    IF s.session THEN Decided(p, (IF s.session THEN a ELSE x).s) ELSE NoPlan]
  BY DEF Publish, t
<1> HIDE DEF s
<1>5. CASE s.session
  <2>1. /\ a.s \in Service /\ Says(st[p], a) /\ SameWork(s, a.s) /\ a.s.base = s.base
        /\ a.s.last_sent = a.s.local /\ ~a.s.advertise_pending
    BY <1>2, <1>3, AdvertiseSays
  <2> HIDE DEF a
  <2>2. Recorded(p, st[p].base, a.s) /\ Owing(a.s) /\ a.s.remote = st[p].remote
        /\ a.s.local = t /\ a.s.session
    BY <1>2, <1>5, <2>1 DEF Recorded, Owing, Owes, Tells, SameWork
  <2>3. Talks(p, a)
    BY <1>4, <1>5, <2>1, <2>2, BecomesTalks
  <2> QED BY <1>4, <1>5, <2>2, <2>3 DEF t
<1>6. CASE ~s.session
  <2>1. Recorded(p, st[p].base, x.s) /\ Owing(x.s) /\ x.s.remote = st[p].remote
    BY <1>2, <1>3, <1>6 DEF Recorded, Owing
  <2>2. Becomes(p, x) /\ todo' = [todo EXCEPT ![p]["daemon"] = NoPlan]
    BY <1>4, <1>6
  <2>3. ~x.s.session /\ x.s.local = t
    BY <1>2, <1>3, <1>6
  <2> HIDE DEF x
  <2>4. Talks(p, x)
    BY <1>2, <1>3, <2>1, <2>2, BecomesTalks
  <2>5. todo' = [todo EXCEPT ![p]["daemon"] = IF x.s.session THEN Decided(p, x.s) ELSE NoPlan]
    BY <2>2, <2>3
  <2> QED BY <2>3, <2>4, <2>5 DEF t
<1> QED BY <1>5, <1>6

LEMMA ExecuteTalks ==
    ASSUME TypeOK, NEW p \in Peer, NEW t \in Thread, Execute(p, t)
    PROVE  \E r : /\ Talks(p, r)
                  /\ \E removed \in SUBSET todo[p][t].delete_local :
                        /\ r.s.local = Unlinked(st[p].local, removed)
                        /\ disk' = [disk EXCEPT ![p] = Unlinked(@, removed)]
                        /\ Leaves(p, (todo[p][t].delete_local \ removed)
                                        \union (removed \ Decided(p, st[p]).delete_local))
<1>1. PICK stuck \in SUBSET todo[p][t].delete_local :
         LET removed == todo[p][t].delete_local \ stuck
         IN  /\ disk' = [disk EXCEPT ![p] = Unlinked(@, removed)]
             /\ Leaves(p, stuck \union (removed \ Decided(p, st[p]).delete_local))
             /\ Becomes(p, Act(p, st[p], todo[p][t], removed))
  BY DEF Execute
<1> DEFINE removed == todo[p][t].delete_local \ stuck
           a == Act(p, st[p], todo[p][t], removed)
<1>2. /\ st[p] \in Service /\ todo[p][t].pull \in SUBSET Path
      /\ removed \in SUBSET Path /\ removed \in SUBSET todo[p][t].delete_local
  BY DEF TypeOK
<1> HIDE DEF removed
<1>3. /\ a.s \in Service /\ Says(st[p], a)
      /\ a.s.local = Unlinked(st[p].local, removed)
      /\ a.s.remote = st[p].remote /\ a.s.session = st[p].session
      /\ Recorded(p, st[p].base, a.s)
      /\ Tells(st[p]) => Owes(a.s)
  BY <1>2, ActSays
<1>4. Becomes(p, a) /\ disk' = [disk EXCEPT ![p] = Unlinked(@, removed)]
  BY <1>1 DEF removed
<1>7. Leaves(p, (todo[p][t].delete_local \ removed)
                   \union (removed \ Decided(p, st[p]).delete_local))
  <2>1. todo[p][t].delete_local \ (todo[p][t].delete_local \ stuck) = stuck
    BY <1>1
  <2> QED BY <1>1, <2>1 DEF removed
<1> HIDE DEF a
<1>5. Owing(st[p]) => Owing(a.s)
  BY <1>3 DEF Owing, Owes
<1>6. Talks(p, a)
  BY <1>3, <1>4, <1>5, BecomesTalks
<1> QED BY <1>2, <1>3, <1>4, <1>6, <1>7

LEMMA RecvHelloTalks ==
    ASSUME TypeOK, NEW p \in Peer, RecvHello(p)
    PROVE  \E r : Talks(p, r) /\ r.s.local = st[p].local
<1> DEFINE s == [st[p] EXCEPT !.session = TRUE]
           x == Result(s, <<>>)
           a == Advertise(x)
<1>1. /\ s \in Service /\ s.local = st[p].local /\ s.base = st[p].base
      /\ s.remote = st[p].remote /\ s.last_sent = st[p].last_sent
  BY PeerTypes DEF Service
<1>2. Handles(p, a) /\ chan[p] # <<>> /\ Head(chan[p]).op # "ManifestUpdate"
  BY DEF RecvHello, Receives
<1> HIDE DEF s
<1>3. x.s = s /\ Says(st[p], x)
  BY <1>1, SaysNothing, ResultFields
<1> HIDE DEF x
<1>4. /\ a.s \in Service /\ Says(st[p], a) /\ SameWork(s, a.s) /\ a.s.base = s.base
      /\ a.s.last_sent = a.s.local /\ ~a.s.advertise_pending
  BY <1>1, <1>3, AdvertiseSays
<1> HIDE DEF a
<1>5. Recorded(p, st[p].base, a.s) /\ Owing(a.s) /\ a.s.remote = st[p].remote
      /\ a.s.local = st[p].local
  BY <1>1, <1>4 DEF Recorded, Owing, Owes, Tells, SameWork
<1>6. Talks(p, a)
  BY <1>2, <1>4, <1>5, HandlesTalks
<1> QED BY <1>5, <1>6

LEMMA RecvUpdateTalks ==
    ASSUME TypeOK, NEW p \in Peer, RecvUpdate(p)
    PROVE  \E r : /\ Talks(p, r) /\ r.s.local = st[p].local
                  /\ todo' = [todo EXCEPT ![p]["reactor"] = Decided(p, r.s)]
<1> DEFINE s == [st[p] EXCEPT !.remote = Head(chan[p]).tree, !.last_eval_valid = FALSE]
           x == Result(s, <<>>)
<1>1. /\ chan[p] # <<>> /\ Head(chan[p]).op = "ManifestUpdate" /\ Handles(p, x)
      /\ todo' = [todo EXCEPT ![p]["reactor"] = Decided(p, s)]
  BY DEF RecvUpdate, Receives
<1>2. Head(chan[p]).tree \in Manifest
  BY <1>1, TailElements, MessageParts DEF TypeOK
<1>3. /\ s \in Service /\ s.local = st[p].local /\ s.base = st[p].base
      /\ s.remote = Head(chan[p]).tree /\ s.last_sent = st[p].last_sent
      /\ s.session = st[p].session /\ s.advertise_pending = st[p].advertise_pending
      /\ s.pulling = st[p].pulling /\ s.serve_q = st[p].serve_q
  <2> DEFINE n == Head(chan[p]).tree
  <2>1. st[p] \in Service
    BY DEF TypeOK
  <2>2. n \in Manifest
    BY <1>2
  <2> HIDE DEF n
  <2>3. s = [st[p] EXCEPT !.remote = n, !.last_eval_valid = FALSE]
    BY DEF n
  <2> HIDE DEF s
  <2>4. s \in Service
    BY <2>1, <2>2, <2>3 DEF Service
  <2>5. /\ s.local = st[p].local /\ s.base = st[p].base
        /\ s.remote = n /\ s.last_sent = st[p].last_sent
        /\ s.session = st[p].session /\ s.advertise_pending = st[p].advertise_pending
        /\ s.pulling = st[p].pulling /\ s.serve_q = st[p].serve_q
    BY <2>1, <2>3 DEF Service
  <2> QED BY <2>4, <2>5 DEF n
<1> HIDE DEF s
<1>4. x.s = s /\ Says(st[p], x)
  BY <1>3, SaysNothing, ResultFields
<1>5. Recorded(p, st[p].base, s) /\ (Owing(st[p]) => Owing(s))
  BY <1>3 DEF Recorded, Owing, Owes, Tells, Busy
<1>6. Talks(p, x)
  BY <1>1, <1>3, <1>4, <1>5, HandlesTalks
<1> QED BY <1>1, <1>3, <1>4, <1>6

LEMMA RecvRequestTalks ==
    ASSUME TypeOK, NEW p \in Peer, RecvRequest(p)
    PROVE  \E r : Talks(p, r) /\ r.s.local = st[p].local
<1> DEFINE s == [st[p] EXCEPT !.serve_q = Append(@, Head(chan[p]).path)]
           x == Result(s, <<>>)
<1>1. chan[p] # <<>> /\ Head(chan[p]).op = "Request" /\ Handles(p, x)
  BY DEF RecvRequest, Receives
<1>2. Head(chan[p]).path \in Path
  BY <1>1, TailElements, MessageParts DEF TypeOK
<1>3. /\ s \in Service /\ s.local = st[p].local /\ s.base = st[p].base
      /\ s.remote = st[p].remote /\ s.last_sent = st[p].last_sent
      /\ s.session = st[p].session /\ s.advertise_pending = st[p].advertise_pending
      /\ s.serve_q # <<>>
  <2> DEFINE q == Append(st[p].serve_q, Head(chan[p]).path)
  <2>1. st[p] \in Service /\ st[p].serve_q \in Seq(Path)
    BY PeerTypes DEF Service
  <2>2. q \in Seq(Path) /\ q # <<>>
    BY <1>2, <2>1
  <2>3. s = [st[p] EXCEPT !.serve_q = q]
    OBVIOUS
  <2> HIDE DEF q, s
  <2> QED BY <2>1, <2>2, <2>3 DEF Service
<1> HIDE DEF s
<1>4. x.s = s /\ Says(st[p], x)
  BY <1>3, SaysNothing, ResultFields
<1>5. Recorded(p, st[p].base, s) /\ (Owing(st[p]) => Owing(s))
  BY <1>3 DEF Recorded, Owing, Owes, Tells, Busy
<1>6. Talks(p, x)
  BY <1>1, <1>3, <1>4, <1>5, HandlesTalks
<1> QED BY <1>3, <1>4, <1>6

\* The step of p that looks for convergence having become s and said out.
LEMMA LooksTalks ==
    ASSUME TypeOK, NEW p \in Peer, NEW x, x.s \in Service, Says(st[p], x),
           x.s.base = st[p].base, x.s.remote = st[p].remote,
           x.s.session = st[p].session, Owing(st[p]) /\ st[p].session => Tells(x.s),
           \/ Becomes(p, MaybeSynced(p, x))
           \/ /\ Handles(p, MaybeSynced(p, x)) /\ chan[p] # <<>>
              /\ Head(chan[p]).op # "ManifestUpdate"
    PROVE  \E r : Talks(p, r) /\ r.s.local = x.s.local
<1> DEFINE m == MaybeSynced(p, x)
<1>1. /\ m.s \in Service /\ Says(st[p], m) /\ SameWork(x.s, m.s)
      /\ Recorded(p, x.s.base, m.s)
      /\ Tells(x.s) => Owes(m.s)
  BY MaybeSyncedSays
<1>2. \/ Becomes(p, m)
      \/ Handles(p, m) /\ chan[p] # <<>> /\ Head(chan[p]).op # "ManifestUpdate"
  OBVIOUS
<1> HIDE DEF m
<1>3. /\ m.s.local = x.s.local /\ m.s.remote = st[p].remote
      /\ Owing(st[p]) => Owing(m.s)
      /\ Recorded(p, st[p].base, m.s)
  BY <1>1 DEF SameWork, Owing
<1>4. Talks(p, m)
  BY <1>1, <1>2, <1>3, BecomesTalks, HandlesTalks
<1> QED BY <1>3, <1>4

LEMMA RecvFileTalks ==
    ASSUME TypeOK, NEW p \in Peer, RecvFile(p)
    PROVE  \E r : /\ Talks(p, r)
                  /\ LET m == Head(chan[p])
                     IN  /\ m.path \in Path /\ m.meta \in FileMeta
                         /\ \/ /\ r.s.local = [st[p].local EXCEPT ![m.path] = m.meta]
                               /\ disk' = [disk EXCEPT ![p] = Replaced(@, m.path, m.meta)]
                               /\ Leaves(p, Unexpected(p, m.path, m.meta))
                            \/ r.s.local = st[p].local /\ disk' = disk /\ Leaves(p, {m.path})
                            \/ /\ r.s.local = st[p].local /\ Missed(p, {m.path})
                               /\ Leaves(p, {m.path})
                               /\ disk' = [disk EXCEPT ![p] = Unlinked(@, {m.path})]
<1> DEFINE m == Head(chan[p])
           s == [st[p] EXCEPT !.pulling = @ \ {m.path}]
           t == SetLocal([s EXCEPT !.advertise_pending = TRUE], [s.local EXCEPT ![m.path] = m.meta])
<1>1. chan[p] # <<>> /\ Head(chan[p]).op = "File"
  BY DEF RecvFile, Receives
<1>2. m.path \in Path /\ m.meta \in FileMeta
  BY <1>1, TailElements, MessageParts DEF TypeOK
<1>3. \/ /\ disk' = [disk EXCEPT ![p] = Replaced(@, m.path, m.meta)]
         /\ Leaves(p, Unexpected(p, m.path, m.meta))
         /\ Handles(p, MaybeSynced(p, Result(t, <<>>)))
      \/ /\ disk' = disk /\ Leaves(p, {m.path})
         /\ Handles(p, MaybeSynced(p, Result(s, <<>>)))
      \/ /\ Missed(p, {m.path}) /\ Leaves(p, {m.path})
         /\ disk' = [disk EXCEPT ![p] = Unlinked(@, {m.path})]
         /\ Handles(p, MaybeSynced(p, Result(s, <<>>)))
  BY DEF RecvFile
<1> HIDE DEF m
<1>4. /\ s \in Service /\ s.local = st[p].local /\ s.base = st[p].base
      /\ s.remote = st[p].remote /\ s.last_sent = st[p].last_sent
      /\ s.session = st[p].session /\ s.advertise_pending = st[p].advertise_pending
  BY PeerTypes DEF Service
<1>5. /\ t \in Service /\ t.local = [st[p].local EXCEPT ![m.path] = m.meta]
      /\ t.base = st[p].base /\ t.remote = st[p].remote /\ t.last_sent = st[p].last_sent
      /\ t.session = st[p].session /\ t.advertise_pending = TRUE
  <2>1. [s.local EXCEPT ![m.path] = m.meta] \in Manifest
    BY <1>2, <1>4 DEF Service, Manifest, Entry
  <2> HIDE DEF s
  <2> QED BY <1>4, <2>1 DEF SetLocal, Service
<1> HIDE DEF s, t
<1>6. Says(st[p], Result(s, <<>>)) /\ Says(st[p], Result(t, <<>>))
  BY <1>4, <1>5, SaysNothing
<1>7. (Owing(st[p]) /\ st[p].session => Tells(s)) /\ Tells(t)
  BY <1>4, <1>5 DEF Owing, Owes, Tells
<1>8. Handles(p, MaybeSynced(p, Result(s, <<>>))) => \E r : Talks(p, r) /\ r.s.local = s.local
  <2> DEFINE x == Result(s, <<>>)
  <2>1. x.s = s
    BY ResultFields
  <2>2. Says(st[p], x)
    BY <1>6
  <2> HIDE DEF x
  <2>3. Handles(p, MaybeSynced(p, x)) => \E r : Talks(p, r) /\ r.s.local = s.local
    BY <1>1, <1>4, <1>7, <2>1, <2>2, LooksTalks
  <2> QED BY <2>3 DEF x
<1>9. Handles(p, MaybeSynced(p, Result(t, <<>>))) => \E r : Talks(p, r) /\ r.s.local = t.local
  <2> DEFINE x == Result(t, <<>>)
  <2>1. x.s = t
    BY ResultFields
  <2>2. Says(st[p], x)
    BY <1>6
  <2> HIDE DEF x
  <2>3. Handles(p, MaybeSynced(p, x)) => \E r : Talks(p, r) /\ r.s.local = t.local
    BY <1>1, <1>5, <1>7, <2>1, <2>2, LooksTalks
  <2> QED BY <2>3 DEF x
<1>10. CASE /\ disk' = [disk EXCEPT ![p] = Replaced(@, m.path, m.meta)]
            /\ Leaves(p, Unexpected(p, m.path, m.meta))
            /\ Handles(p, MaybeSynced(p, Result(t, <<>>)))
  <2>1. PICK r : Talks(p, r) /\ r.s.local = t.local
    BY <1>9, <1>10
  <2> QED BY <1>2, <1>5, <1>10, <2>1 DEF m
<1>11. CASE /\ disk' = disk /\ Leaves(p, {m.path})
            /\ Handles(p, MaybeSynced(p, Result(s, <<>>)))
  <2>1. PICK r : Talks(p, r) /\ r.s.local = s.local
    BY <1>8, <1>11
  <2> QED BY <1>2, <1>4, <1>11, <2>1 DEF m
<1>12. CASE /\ Missed(p, {m.path}) /\ Leaves(p, {m.path})
            /\ disk' = [disk EXCEPT ![p] = Unlinked(@, {m.path})]
            /\ Handles(p, MaybeSynced(p, Result(s, <<>>)))
  <2>1. PICK r : Talks(p, r) /\ r.s.local = s.local
    BY <1>8, <1>12
  <2> QED BY <1>2, <1>4, <1>12, <2>1 DEF m
<1> QED BY <1>3, <1>10, <1>11, <1>12

LEMMA RecvNotFoundTalks ==
    ASSUME TypeOK, NEW p \in Peer, RecvNotFound(p)
    PROVE  \E r : Talks(p, r) /\ r.s.local = st[p].local
<1> DEFINE s == [st[p] EXCEPT !.pulling = @ \ {Head(chan[p]).path}]
           x == Result(s, <<>>)
<1>1. /\ chan[p] # <<>> /\ Head(chan[p]).op # "ManifestUpdate"
      /\ Handles(p, MaybeSynced(p, x))
  BY DEF RecvNotFound, Receives
<1>2. /\ s \in Service /\ s.local = st[p].local /\ s.base = st[p].base
      /\ s.remote = st[p].remote /\ s.last_sent = st[p].last_sent
      /\ s.session = st[p].session /\ s.advertise_pending = st[p].advertise_pending
  BY PeerTypes DEF Service
<1> HIDE DEF s
<1>3. x.s = s /\ Says(st[p], x)
  BY <1>2, SaysNothing, ResultFields
<1>4. Owing(st[p]) /\ st[p].session => Tells(s)
  BY <1>2 DEF Owing, Owes, Tells
<1> HIDE DEF x
<1> QED BY <1>1, <1>2, <1>3, <1>4, LooksTalks

LEMMA SendRequestTalks ==
    ASSUME TypeOK, NEW p \in Peer, SendRequest(p)
    PROVE  \E r : Talks(p, r) /\ r.s.local = st[p].local
<1> DEFINE s == [st[p] EXCEPT !.pull_queue = Tail(@)]
           q == Request(Head(st[p].pull_queue))
           x == Result(s, <<q>>)
<1>1. Becomes(p, x) /\ st[p].pull_queue # <<>> /\ st[p].pull_queue \in Seq(Path)
  BY DEF SendRequest, TypeOK, Service
<1>2. Head(st[p].pull_queue) \in Path /\ Tail(st[p].pull_queue) \in Seq(Path)
  BY <1>1
<1>3. q \in Message /\ q.op # "ManifestUpdate"
  BY <1>2, MessageTypes
<1>4. /\ s \in Service /\ s.local = st[p].local /\ s.base = st[p].base
      /\ s.remote = st[p].remote /\ s.last_sent = st[p].last_sent
      /\ s.session = st[p].session /\ s.advertise_pending = st[p].advertise_pending
      /\ s.pulling = st[p].pulling /\ s.serve_q = st[p].serve_q
  BY <1>2, PeerTypes DEF Service
<1> HIDE DEF s, q
<1>5. x.s = s /\ Says(st[p], x)
  BY <1>3, <1>4, SaysOne, ResultFields
<1>6. Recorded(p, st[p].base, s) /\ (Owing(st[p]) => Owing(s))
  BY <1>4 DEF Recorded, Owing, Owes, Tells, Busy
<1>7. Talks(p, x)
  BY <1>1, <1>4, <1>5, <1>6, BecomesTalks
<1> QED BY <1>4, <1>5, <1>7

LEMMA ServeTalks ==
    ASSUME TypeOK, NEW p \in Peer, Serve(p)
    PROVE  \E r : Talks(p, r) /\ r.s.local = st[p].local
<1> DEFINE f == Head(st[p].serve_q)
           answer == IF disk[p][f] = Absent THEN NotFound(f) ELSE File(f, disk[p][f])
           s == [st[p] EXCEPT !.serve_q = Tail(@)]
           x == Result(s, <<answer>>)
<1>1. Becomes(p, MaybeSynced(p, x)) /\ st[p].serve_q # <<>> /\ st[p].serve_q \in Seq(Path)
  BY DEF Serve, TypeOK, Service
<1>2. f \in Path /\ Tail(st[p].serve_q) \in Seq(Path)
  BY <1>1
<1>3. answer \in Message /\ answer.op # "ManifestUpdate"
  <2>1. disk[p][f] \in FileMeta \/ disk[p][f] = Absent
    BY <1>2 DEF TypeOK, Manifest, Entry
  <2> QED BY <1>2, <2>1, MessageTypes
<1>4. /\ s \in Service /\ s.local = st[p].local /\ s.base = st[p].base
      /\ s.remote = st[p].remote /\ s.last_sent = st[p].last_sent
      /\ s.session = st[p].session /\ s.advertise_pending = st[p].advertise_pending
  BY <1>2, PeerTypes DEF Service
<1> HIDE DEF s, answer
<1>5. x.s = s /\ Says(st[p], x)
  BY <1>3, <1>4, SaysOne, ResultFields
<1>6. Owing(st[p]) /\ st[p].session => Tells(s)
  BY <1>4 DEF Owing, Owes, Tells
<1> HIDE DEF x
<1> QED BY <1>1, <1>4, <1>5, <1>6, LooksTalks

-----------------------------------------------------------------------------
(* Every step.                                                             *)

Connects == ~linked /\ linked' = TRUE /\ chan' = [p \in Peer |-> <<Hello>>] /\ UNCHANGED <<st, held>>

Keeps == UNCHANGED <<st, chan, linked, held>>

LEMMA ResetTypes ==
    ASSUME NEW s \in Service
    PROVE  LET t == FreshSession(s)
           IN  /\ t \in Service /\ ~t.session /\ t.remote = Unknown /\ t.last_sent = Unknown
               /\ t.base = s.base /\ t.local = s.local /\ ~Busy(t) /\ t.pull_queue = <<>>
               /\ t.last_synced = Unknown /\ t.last_eval_valid = FALSE
<1> DEFINE t == FreshSession(s)
<1> DEFINE a == [s EXCEPT !.session = FALSE, !.remote = Unknown, !.last_sent = Unknown]
           b == [a EXCEPT !.pulling = {}, !.pull_queue = <<>>, !.serve_q = <<>>]
           c == [b EXCEPT !.advertise_pending = FALSE, !.last_eval_valid = FALSE,
                          !.last_synced = Unknown]
<1>1. /\ a \in Service /\ a.session = FALSE /\ a.remote = Unknown /\ a.last_sent = Unknown
      /\ a.base = s.base /\ a.local = s.local
  BY DEF Service
<1> HIDE DEF a
<1>2. /\ b \in Service /\ b.session = FALSE /\ b.remote = Unknown /\ b.last_sent = Unknown
      /\ b.base = s.base /\ b.local = s.local
      /\ b.pull_queue = <<>> /\ b.pulling = {} /\ b.serve_q = <<>>
  <2>1. \A none \in Seq(Path), few \in SUBSET Path :
           LET d == [a EXCEPT !.pulling = few, !.pull_queue = none, !.serve_q = none]
           IN  /\ d \in Service /\ d.session = a.session /\ d.remote = a.remote
               /\ d.last_sent = a.last_sent /\ d.base = a.base /\ d.local = a.local
               /\ d.pull_queue = none /\ d.pulling = few /\ d.serve_q = none
    BY <1>1, ZenonT(60) DEF Service
  <2>2. <<>> \in Seq(Path) /\ {} \in SUBSET Path
    OBVIOUS
  <2> QED BY <1>1, <2>1, <2>2
<1> HIDE DEF b
<1>3. /\ c \in Service /\ c.session = FALSE /\ c.remote = Unknown /\ c.last_sent = Unknown
      /\ c.base = s.base /\ c.local = s.local
      /\ c.pull_queue = <<>> /\ c.pulling = {} /\ c.serve_q = <<>>
      /\ c.last_synced = Unknown /\ c.last_eval_valid = FALSE
  BY <1>2, ZenonT(60) DEF Service
<1>4. t = c
  BY Zenon DEF FreshSession, a, b
<1> HIDE DEF c, t
<1> QED BY <1>3, <1>4 DEF Busy, t

LEMMA DropResets ==
    ASSUME TypeOK, Drop
    PROVE  Resets /\ \A p \in Peer : st'[p].local = st[p].local /\ st'[p].base = st[p].base
<1>1. \A p \in Peer : st[p] \in Service
  BY DEF TypeOK
<1>2. st' = [p \in Peer |-> FreshSession(st[p])]
  BY DEF Drop, States
<1>3. /\ chan' = [p \in Peer |-> <<>>] /\ linked' = FALSE
      /\ held' = [x \in Peer |-> held[x] \union Listed(st'[x].local)]
  BY <1>2 DEF Drop, States, Disconnected
<1>4. ASSUME NEW p \in Peer
      PROVE  /\ st'[p] \in Service /\ ~st'[p].session
             /\ st'[p].remote = Unknown /\ st'[p].last_sent = Unknown
             /\ st'[p].base = st[p].base /\ st'[p].local = st[p].local
             /\ ~Busy(st'[p]) /\ st'[p].pull_queue = <<>>
             /\ \A t \in Thread : ~todo'[p][t].due
  <2>1. \A t \in Thread : ~todo'[p][t].due
    BY DEF Drop, Disconnected
  <2> QED BY <1>1, <1>2, <2>1, ResetTypes
<1>5. st' \in [Peer -> Service]
  BY <1>2, <1>4
<1> QED BY <1>3, <1>4, <1>5 DEF Resets

LEMMA CrashResets ==
    ASSUME TypeOK, NEW p \in Peer, Crash(p)
    PROVE  /\ Resets
           /\ \E missed \in SUBSET Path : /\ Missed(p, missed)
                                          /\ st'[p].local = Unlinked(disk[p], missed)
           /\ \A q \in Peer : q # p => st'[q].local = st[q].local
<1>1. /\ \A q \in Peer : st[q] \in Service
      /\ disk[p] \in Manifest
  BY DEF TypeOK
<1>2. PICK base \in Loaded(st[p].base), missed \in SUBSET Path :
         /\ Missed(p, missed)
         /\ States([q \in Peer |->
                    IF q # p THEN FreshSession(st[q])
                    ELSE [FreshSession(st[p]) EXCEPT !.local = Unlinked(disk[p], missed),
                                                     !.base = base]])
  BY DEF Crash
<1> DEFINE t == Unlinked(disk[p], missed)
           u == [FreshSession(st[p]) EXCEPT !.local = t, !.base = base]
<1>3. st' = [q \in Peer |-> IF q # p THEN FreshSession(st[q]) ELSE u]
  BY <1>2 DEF States
<1>4. /\ chan' = [q \in Peer |-> <<>>] /\ linked' = FALSE
      /\ held' = [x \in Peer |-> held[x] \union Listed(st'[x].local)]
  BY <1>2, <1>3 DEF Crash, States, Disconnected
<1>5. t \in Manifest /\ base \in Manifest /\ base \in {st[p].base, NoFiles}
  BY <1>1, <1>2 DEF Unlinked, Manifest, Entry, Loaded, Service, NoFiles
<1> HIDE DEF t
<1>6. /\ u \in Service /\ ~u.session /\ u.remote = Unknown /\ u.last_sent = Unknown
      /\ u.local = t /\ u.base = base /\ ~Busy(u) /\ u.pull_queue = <<>>
  <2>1. LET f == FreshSession(st[p])
        IN  /\ f \in Service /\ ~f.session /\ f.remote = Unknown /\ f.last_sent = Unknown
            /\ ~Busy(f) /\ f.pull_queue = <<>>
    BY <1>1, ResetTypes
  <2> QED BY <1>5, <2>1 DEF Service, Busy
<1> HIDE DEF u
<1>7. ASSUME NEW q \in Peer
      PROVE  /\ st'[q] \in Service /\ ~st'[q].session
             /\ st'[q].remote = Unknown /\ st'[q].last_sent = Unknown
             /\ st'[q].base \in {st[q].base, NoFiles}
             /\ q = p => st'[q].local = t
             /\ q # p => st'[q].local = st[q].local
             /\ ~Busy(st'[q]) /\ st'[q].pull_queue = <<>>
  BY <1>1, <1>3, <1>5, <1>6, ResetTypes
<1>8. st' \in [Peer -> Service]
  BY <1>3, <1>7
<1>9. ASSUME NEW q \in Peer, NEW w \in Thread PROVE ~todo'[q][w].due
  <2>1. todo' = [todo EXCEPT ![p] = [x \in Thread |-> NoPlan]]
    BY DEF Crash
  <2>2. q # p => ~todo[q][w].due
    BY DEF Crash, Disconnected
  <2> QED BY <2>1, <2>2 DEF TypeOK, NoPlan
<1> QED BY <1>2, <1>4, <1>7, <1>8, <1>9 DEF Resets, t

LEMMA Steps ==
    ASSUME TypeOK, [Next]_vars
    PROVE  \/ (\E p \in Peer : \E r : Talks(p, r)) /\ linked' = linked
           \/ Resets /\ (Drop \/ \E p \in Peer : Crash(p))
           \/ Connects
           \/ Keeps
<1>1. ASSUME NEW p \in Peer, User(p) PROVE Keeps
  BY <1>1 DEF User, Edit, Delete, Keeps
<1>2. ASSUME NEW p \in Peer, Walk(p) PROVE Keeps
  BY <1>2 DEF Walk, Keeps, history
<1>3. ASSUME NEW p \in Peer, Publish(p) PROVE (\E r : Talks(p, r)) /\ linked' = linked
  BY <1>3, PublishTalks DEF Publish
<1>4. ASSUME NEW p \in Peer, Receive(p) PROVE (\E r : Talks(p, r)) /\ linked' = linked
  <2>1. RecvHello(p) => (\E r : Talks(p, r)) /\ linked' = linked
    BY RecvHelloTalks DEF RecvHello
  <2>2. RecvUpdate(p) => (\E r : Talks(p, r)) /\ linked' = linked
    BY RecvUpdateTalks DEF RecvUpdate
  <2>3. RecvRequest(p) => (\E r : Talks(p, r)) /\ linked' = linked
    BY RecvRequestTalks DEF RecvRequest
  <2>4. RecvFile(p) => (\E r : Talks(p, r)) /\ linked' = linked
    BY RecvFileTalks DEF RecvFile
  <2>5. RecvNotFound(p) => (\E r : Talks(p, r)) /\ linked' = linked
    BY RecvNotFoundTalks DEF RecvNotFound
  <2> QED BY <1>4, <2>1, <2>2, <2>3, <2>4, <2>5 DEF Receive
<1>5. ASSUME NEW p \in Peer, SendRequest(p) PROVE (\E r : Talks(p, r)) /\ linked' = linked
  BY <1>5, SendRequestTalks DEF SendRequest
<1>6. ASSUME NEW p \in Peer, Serve(p) PROVE (\E r : Talks(p, r)) /\ linked' = linked
  BY <1>6, ServeTalks DEF Serve
<1>7. ASSUME NEW p \in Peer, NEW t \in Thread, Execute(p, t)
      PROVE  (\E r : Talks(p, r)) /\ linked' = linked
  BY <1>7, ExecuteTalks DEF Execute
<1>8. ASSUME NEW p \in Peer, Crash(p) PROVE Resets
  BY <1>8, CrashResets
<1>9. Drop => Resets
  BY DropResets
<1>10. Connect => Connects
  BY DEF Connect, Connects, history
<1>11. UNCHANGED vars => Keeps
  BY DEF vars, Keeps, history
<1>12. ASSUME NEW p \in Peer, System(p) PROVE Keeps \/ ((\E r : Talks(p, r)) /\ linked' = linked)
  BY <1>2, <1>3, <1>4, <1>5, <1>6, <1>7, <1>12 DEF System, Scan
<1> QED BY <1>1, <1>8, <1>9, <1>10, <1>11, <1>12 DEF Next

-----------------------------------------------------------------------------
(* Types.                                                                  *)

PlanOf == [pull : SUBSET Path, delete_local : SUBSET Path, due : BOOLEAN]

SessionTypes == /\ st \in [Peer -> Service] /\ chan \in [Peer -> Seq(Message)]
                /\ linked \in BOOLEAN /\ held \in [Peer -> SUBSET (Path \X FileMeta)]

FolderTypes == /\ disk \in [Peer -> Manifest]
               /\ todo \in [Peer -> [Thread -> PlanOf]]
               /\ walk \in [Peer -> [before : Manifest, fresh : Manifest, on : BOOLEAN]]

CountTypes == /\ edits \in 0..MaxEdits /\ deletes \in 0..MaxDeletes
              /\ drops \in 0..MaxDrops /\ crashes \in 0..MaxCrashes
              /\ faults \in 0..MaxFaults /\ misses \in 0..MaxMisses

LEMMA ListedType ==
    ASSUME NEW t \in Manifest
    PROVE  Listed(t) \in SUBSET (Path \X FileMeta)
BY DEF Listed, Manifest, Entry

LEMMA SessionTypesKept ==
    ASSUME TypeOK, [Next]_vars
    PROVE  SessionTypes'
<1>0. st \in [Peer -> Service] /\ chan \in [Peer -> Seq(Message)] /\ linked \in BOOLEAN
      /\ held \in [Peer -> SUBSET (Path \X FileMeta)]
  BY DEF TypeOK
<1>a. ASSUME st' \in [Peer -> Service],
             held' = [x \in Peer |-> held[x] \union Listed(st'[x].local)]
      PROVE  held' \in [Peer -> SUBSET (Path \X FileMeta)]
  <2> SUFFICES ASSUME NEW x \in Peer
               PROVE  held[x] \union Listed(st'[x].local) \in SUBSET (Path \X FileMeta)
    BY <1>a
  <2>1. st'[x].local \in Manifest
    BY <1>a DEF Service
  <2>2. Listed(st'[x].local) \in SUBSET (Path \X FileMeta)
    BY <2>1, ListedType
  <2> QED BY <1>0, <2>2
<1>1. ASSUME NEW p \in Peer, NEW r, Talks(p, r), linked' = linked PROVE SessionTypes'
  <2>1. st' \in [Peer -> Service]
    BY <1>0, <1>1 DEF Talks
  <2>2. held' \in [Peer -> SUBSET (Path \X FileMeta)]
    BY <1>1, <1>a, <2>1 DEF Talks
  <2>3. chan' \in [Peer -> Seq(Message)]
    <3>1. Other(p) \in Peer /\ Other(p) # p
      BY PeerFacts
    <3>2. r.out \in Seq(Message) /\ chan[Other(p)] \in Seq(Message) /\ chan[p] \in Seq(Message)
      BY <1>0, <1>1, <3>1 DEF Talks, Says
    <3>3. chan[Other(p)] \o r.out \in Seq(Message)
      BY <3>2
    <3>4. chan[p] # <<>> => Tail(chan[p]) \in Seq(Message)
      BY <3>2
    <3>5. \/ chan' = [chan EXCEPT ![Other(p)] = @ \o r.out]
          \/ /\ chan[p] # <<>>
             /\ chan' = [chan EXCEPT ![p] = Tail(@), ![Other(p)] = @ \o r.out]
      BY <1>1 DEF Talks
    <3> QED BY <1>0, <3>1, <3>3, <3>4, <3>5
  <2> QED BY <1>0, <1>1, <2>1, <2>2, <2>3 DEF SessionTypes
<1>2. Resets => SessionTypes'
  <2> SUFFICES ASSUME Resets PROVE SessionTypes'
    OBVIOUS
  <2>1. st' \in [Peer -> Service] /\ chan' \in [Peer -> Seq(Message)] /\ linked' \in BOOLEAN
    <3>1. <<>> \in Seq(Message)
      OBVIOUS
    <3> QED BY <3>1, Zenon DEF Resets
  <2> QED BY <1>a, <2>1 DEF Resets, SessionTypes
<1>3. Connects => SessionTypes'
  <2>1. <<Hello>> \in Seq(Message)
    BY MessageTypes
  <2> QED BY <1>0, <2>1 DEF Connects, SessionTypes
<1>4. Keeps => SessionTypes'
  BY <1>0 DEF Keeps, SessionTypes
<1> QED BY <1>1, <1>2, <1>3, <1>4, Steps

LEMMA DecidedType ==
    ASSUME NEW p, NEW s
    PROVE  Decided(p, s) \in PlanOf /\ NoPlan \in PlanOf
BY PlanType DEF Decided, NoPlan, PlanOf

LEMMA UnlinkedType ==
    ASSUME NEW t \in Manifest, NEW g \in SUBSET Path
    PROVE  Unlinked(t, g) \in Manifest
BY DEF Unlinked, Manifest, Entry

LEMMA NoWalkType == NoWalk \in [before : Manifest, fresh : Manifest, on : BOOLEAN]
BY DEF NoWalk, NoFiles, Manifest, Entry

LEMMA FolderTypesKept ==
    ASSUME TypeOK, [Next]_vars
    PROVE  FolderTypes' /\ wanted' \in Manifest
<1>0. FolderTypes /\ wanted \in Manifest /\ st \in [Peer -> Service] /\ edits \in Nat
  BY PairAssumption DEF TypeOK, FolderTypes, PlanOf
<1>d. ASSUME NEW p \in Peer, NEW d \in Manifest, disk' = [disk EXCEPT ![p] = d]
      PROVE  disk' \in [Peer -> Manifest]
  BY <1>0, <1>d DEF FolderTypes
<1>t. ASSUME NEW p \in Peer, NEW t \in Thread, NEW pl \in PlanOf,
             todo' = [todo EXCEPT ![p][t] = pl]
      PROVE  todo' \in [Peer -> [Thread -> PlanOf]]
  BY <1>0, <1>t DEF FolderTypes
<1>1. ASSUME NEW p \in Peer, NEW f \in Path, Edit(p, f) PROVE FolderTypes' /\ wanted' \in Manifest
  <2> DEFINE m == [hash |-> edits', mtime |-> MTimeOf[edits']]
  <2>1. m \in Entry
    <3>1. edits' \in 1..MaxEdits
      BY <1>0, <1>1, PairAssumption DEF Edit
    <3>2. edits' \in Hash
      BY <3>1, PairAssumption
    <3> QED BY <3>2, PairAssumption DEF Entry, FileMeta
  <2>2. disk' = [disk EXCEPT ![p][f] = m] /\ wanted' = [wanted EXCEPT ![f] = disk'[p][f]]
        /\ UNCHANGED <<todo, walk>>
    BY <1>1 DEF Edit
  <2> HIDE DEF m
  <2>3. disk' \in [Peer -> Manifest]
    BY <1>0, <2>1, <2>2 DEF FolderTypes, Manifest
  <2>4. disk'[p][f] \in Entry
    BY <2>3 DEF Manifest
  <2> QED BY <1>0, <2>2, <2>3, <2>4 DEF FolderTypes, Manifest
<1>2. ASSUME NEW p \in Peer, NEW f \in Path, Delete(p, f) PROVE FolderTypes' /\ wanted' \in Manifest
  <2>1. Absent \in Entry
    BY DEF Entry
  <2>2. disk' = [disk EXCEPT ![p][f] = Absent] /\ wanted' = [wanted EXCEPT ![f] = Absent]
        /\ UNCHANGED <<todo, walk>>
    BY <1>2 DEF Delete
  <2> QED BY <1>0, <2>1, <2>2 DEF FolderTypes, Manifest
<1>3. ASSUME NEW p \in Peer, Walk(p) PROVE FolderTypes' /\ wanted' \in Manifest
  <2>1. PICK missed \in SUBSET Path :
           walk' = [walk EXCEPT ![p] = [before |-> st[p].local, on |-> TRUE,
                                        fresh |-> Scanned(p, missed)]]
    BY <1>3 DEF Walk
  <2>2. disk[p] \in Manifest /\ st[p].local \in Manifest
    BY <1>0 DEF FolderTypes, Service
  <2>3. Scanned(p, missed) \in Manifest
    BY <2>2 DEF Scanned, Observe, Manifest, Entry
  <2> QED BY <1>0, <1>3, <2>1, <2>2, <2>3 DEF Walk, FolderTypes, history
<1>4. ASSUME NEW p \in Peer, Publish(p) PROVE FolderTypes' /\ wanted' \in Manifest
  <2>1. PICK r : todo' = [todo EXCEPT ![p]["daemon"] = IF r.s.session THEN Decided(p, r.s) ELSE NoPlan]
    BY <1>4, PublishTalks
  <2>2. walk' = [walk EXCEPT ![p] = NoWalk] /\ UNCHANGED <<disk, wanted>>
    BY <1>4 DEF Publish, Becomes, States
  <2>3. todo' \in [Peer -> [Thread -> PlanOf]]
    BY <1>t, <2>1, DecidedType DEF Thread
  <2> QED BY <1>0, <2>2, <2>3, NoWalkType DEF FolderTypes
<1>5. ASSUME NEW p \in Peer, NEW t \in Thread, Execute(p, t)
      PROVE  FolderTypes' /\ wanted' \in Manifest
  <2>1. PICK removed \in SUBSET todo[p][t].delete_local :
           /\ disk' = [disk EXCEPT ![p] = Unlinked(@, removed)]
           /\ Leaves(p, (todo[p][t].delete_local \ removed)
                           \union (removed \ Decided(p, st[p]).delete_local))
    BY <1>5, ExecuteTalks
  <2>2. removed \in SUBSET Path /\ disk[p] \in Manifest
    BY <1>0 DEF FolderTypes, PlanOf
  <2>3. todo' = [todo EXCEPT ![p][t] = NoPlan] /\ UNCHANGED <<walk, wanted>>
    BY <1>5 DEF Execute, Becomes, States
  <2>4. disk' \in [Peer -> Manifest]
    BY <1>d, <2>1, <2>2, UnlinkedType
  <2>5. todo' \in [Peer -> [Thread -> PlanOf]]
    BY <1>t, <2>3, DecidedType
  <2> QED BY <1>0, <2>3, <2>4, <2>5 DEF FolderTypes
<1>6. ASSUME NEW p \in Peer, RecvUpdate(p) PROVE FolderTypes' /\ wanted' \in Manifest
  <2>1. PICK r : todo' = [todo EXCEPT ![p]["reactor"] = Decided(p, r.s)]
    BY <1>6, RecvUpdateTalks
  <2>2. UNCHANGED <<disk, walk, wanted>>
    BY <1>6 DEF RecvUpdate, Handles, States
  <2>3. todo' \in [Peer -> [Thread -> PlanOf]]
    BY <1>t, <2>1, DecidedType DEF Thread
  <2> QED BY <1>0, <2>2, <2>3 DEF FolderTypes
<1>7. ASSUME NEW p \in Peer, RecvFile(p) PROVE FolderTypes' /\ wanted' \in Manifest
  <2> DEFINE m == Head(chan[p])
  <2>1. /\ m.path \in Path /\ m.meta \in FileMeta
        /\ \/ disk' = [disk EXCEPT ![p] = Replaced(@, m.path, m.meta)]
           \/ disk' = disk
           \/ disk' = [disk EXCEPT ![p] = Unlinked(@, {m.path})]
    BY <1>7, RecvFileTalks
  <2>2. UNCHANGED <<todo, walk, wanted>>
    BY <1>7 DEF RecvFile, Handles, States
  <2>3. disk[p] \in Manifest
    BY <1>0 DEF FolderTypes
  <2> HIDE DEF m
  <2>4. Replaced(disk[p], m.path, m.meta) \in Manifest /\ Unlinked(disk[p], {m.path}) \in Manifest
    BY <2>1, <2>3, UnlinkedType DEF Replaced, Manifest, Entry
  <2>5. disk' \in [Peer -> Manifest]
    BY <1>0, <1>d, <2>1, <2>4 DEF FolderTypes
  <2> QED BY <1>0, <2>2, <2>5 DEF FolderTypes
<1>8. ASSUME NEW p \in Peer, Crash(p) PROVE FolderTypes' /\ wanted' \in Manifest
  <2>1. /\ todo' = [todo EXCEPT ![p] = [t \in Thread |-> NoPlan]]
        /\ walk' = [walk EXCEPT ![p] = NoWalk] /\ UNCHANGED <<disk, wanted>>
    BY <1>8 DEF Crash, States
  <2> QED BY <1>0, <2>1, NoWalkType, DecidedType DEF FolderTypes
<1>9. ASSUME NEW p \in Peer,
             RecvHello(p) \/ RecvRequest(p) \/ RecvNotFound(p) \/ SendRequest(p) \/ Serve(p)
      PROVE  FolderTypes' /\ wanted' \in Manifest
  <2>1. UNCHANGED <<disk, todo, walk, wanted>>
    BY <1>9 DEF RecvHello, RecvRequest, RecvNotFound, SendRequest, Serve, Handles, Becomes, States
  <2> QED BY <1>0, <2>1 DEF FolderTypes
<1>10. Connect \/ Drop \/ UNCHANGED vars => FolderTypes' /\ wanted' \in Manifest
  <2>1. Connect \/ Drop \/ UNCHANGED vars => UNCHANGED <<disk, todo, walk, wanted>>
    BY DEF Connect, Drop, States, vars, history
  <2> QED BY <1>0, <2>1 DEF FolderTypes
<1> QED BY <1>1, <1>2, <1>3, <1>4, <1>5, <1>6, <1>7, <1>8, <1>9, <1>10
        DEF Next, User, System, Scan, Receive

\* Counting: a bounded number plus the size of some set of paths stays a number.
LEMMA MissedCounts ==
    ASSUME misses \in 0..MaxMisses, NEW p, NEW missed \in SUBSET Path, Missed(p, missed)
    PROVE  misses' \in 0..MaxMisses /\ (misses' = 0 => misses = 0 /\ missed = {})
<1>1. IsFiniteSet(missed) /\ Cardinality(missed) \in Nat
  BY PairAssumption, FS_Subset, FS_CardinalityType
<1>2. Cardinality(missed) = 0 => missed = {}
  BY <1>1, FS_EmptySet
<1>3. misses' = misses + Cardinality(missed) /\ misses' <= MaxMisses /\ MaxMisses \in Nat
  BY PairAssumption DEF Missed
<1>4. misses' \in 0..MaxMisses /\ (misses' = 0 => misses = 0 /\ Cardinality(missed) = 0)
  BY <1>1, <1>3
<1> QED BY <1>2, <1>4

LEMMA CountTypesKept ==
    ASSUME TypeOK, [Next]_vars
    PROVE  CountTypes'
<1>0. CountTypes /\ {MaxEdits, MaxDeletes, MaxDrops, MaxCrashes, MaxFaults, MaxMisses} \subseteq Nat
  BY PairAssumption DEF TypeOK, CountTypes
<1>1. ASSUME NEW p \in Peer, User(p) PROVE CountTypes'
  BY <1>0, <1>1 DEF User, Edit, Delete, CountTypes
<1>2. ASSUME NEW p \in Peer, Walk(p) PROVE CountTypes'
  <2>1. PICK missed \in SUBSET Path : Missed(p, missed)
    BY <1>2 DEF Walk
  <2>2. misses' \in 0..MaxMisses
    BY <1>0, <2>1, MissedCounts DEF CountTypes
  <2> QED BY <1>0, <1>2, <2>2 DEF Walk, CountTypes
<1>3. ASSUME NEW p \in Peer, Publish(p) PROVE CountTypes'
  BY <1>0, <1>3 DEF Publish, counts, CountTypes
<1>4. ASSUME NEW p \in Peer, NEW t \in Thread, Execute(p, t) PROVE CountTypes'
  <2>1. PICK stuck \in SUBSET todo[p][t].delete_local :
           /\ faults' = faults + Cardinality(stuck)
           /\ faults' <= MaxFaults
    BY <1>4 DEF Execute
  <2>2. stuck \in SUBSET Path
    BY DEF TypeOK
  <2>3. Cardinality(stuck) \in Nat
    BY <2>2, PairAssumption, FS_Subset, FS_CardinalityType
  <2>4. faults' \in 0..MaxFaults
    BY <1>0, <2>1, <2>3 DEF CountTypes
  <2>5. UNCHANGED <<edits, deletes, drops, crashes, misses>>
    BY <1>4 DEF Execute
  <2> QED BY <1>0, <2>4, <2>5 DEF CountTypes
<1>5. ASSUME NEW p \in Peer, RecvFile(p) PROVE CountTypes'
  <2>1. Head(chan[p]).path \in Path
    BY <1>5, RecvFileTalks
  <2>2. \/ UNCHANGED <<faults, misses>>
        \/ faults < MaxFaults /\ faults' = faults + 1 /\ misses' = misses
        \/ Missed(p, {Head(chan[p]).path}) /\ faults' = faults
    BY <1>5 DEF RecvFile
  <2>3. faults' \in 0..MaxFaults /\ misses' \in 0..MaxMisses
    BY <1>0, <2>1, <2>2, MissedCounts DEF CountTypes
  <2>4. UNCHANGED <<edits, deletes, drops, crashes>>
    BY <1>5 DEF RecvFile
  <2> QED BY <1>0, <2>3, <2>4 DEF CountTypes
<1>6. ASSUME NEW p \in Peer,
             \/ RecvHello(p) \/ RecvUpdate(p) \/ RecvRequest(p) \/ RecvNotFound(p)
             \/ SendRequest(p) \/ Serve(p)
      PROVE  CountTypes'
  <2>1. UNCHANGED counts
    BY <1>6 DEF RecvHello, RecvUpdate, RecvRequest, RecvNotFound, SendRequest, Serve
  <2> QED BY <1>0, <2>1 DEF CountTypes, counts
<1>7. ASSUME NEW p \in Peer, Crash(p) PROVE CountTypes'
  <2>1. PICK missed \in SUBSET Path : Missed(p, missed)
    BY <1>7 DEF Crash
  <2>2. misses' \in 0..MaxMisses
    BY <1>0, <2>1, MissedCounts DEF CountTypes
  <2>3. (faults' = faults \/ faults' = faults + 1) /\ faults' <= MaxFaults
    BY <1>7 DEF Crash
  <2>4. crashes < MaxCrashes /\ crashes' = crashes + 1
        /\ UNCHANGED <<edits, deletes, drops>>
    BY <1>7 DEF Crash
  <2> QED BY <1>0, <2>2, <2>3, <2>4 DEF CountTypes
<1>8. Connect \/ Drop \/ UNCHANGED vars => CountTypes'
  <2>1. Connect \/ UNCHANGED vars => UNCHANGED counts
    BY DEF Connect, vars
  <2>2. Drop => drops < MaxDrops /\ drops' = drops + 1
                /\ UNCHANGED <<edits, deletes, crashes, faults, misses>>
    BY DEF Drop
  <2> QED BY <1>0, <2>1, <2>2 DEF CountTypes, counts
<1> QED BY <1>1, <1>2, <1>3, <1>4, <1>5, <1>6, <1>7, <1>8
        DEF Next, System, Scan, Receive

\* The paths a peer has left are paths.
LEMMA LeftTypesKept ==
    ASSUME TypeOK, [Next]_vars
    PROVE  left' \in [Peer -> SUBSET Path]
<1>0. left \in [Peer -> SUBSET Path] /\ todo \in [Peer -> [Thread -> PlanOf]]
  BY DEF TypeOK, PlanOf
<1>a. ASSUME NEW p \in Peer, NEW paths \in SUBSET Path, Leaves(p, paths)
      PROVE  left' \in [Peer -> SUBSET Path]
  BY <1>0, <1>a DEF Leaves
<1>b. ASSUME NEW p \in Peer, Decides(p) PROVE left' \in [Peer -> SUBSET Path]
  BY <1>0, <1>b DEF Decides
<1>1. ASSUME NEW p \in Peer, Publish(p) \/ RecvUpdate(p) PROVE left' \in [Peer -> SUBSET Path]
  BY <1>1, <1>b DEF Publish, RecvUpdate
<1>2. ASSUME NEW p \in Peer, NEW t \in Thread, Execute(p, t) PROVE left' \in [Peer -> SUBSET Path]
  <2>1. PICK stuck \in SUBSET todo[p][t].delete_local :
           Leaves(p, stuck \union ((todo[p][t].delete_local \ stuck)
                                     \ Decided(p, st[p]).delete_local))
    BY <1>2 DEF Execute
  <2>2. todo[p][t].delete_local \in SUBSET Path
    BY <1>0 DEF PlanOf
  <2>3. stuck \union ((todo[p][t].delete_local \ stuck) \ Decided(p, st[p]).delete_local)
           \in SUBSET Path
    BY <2>2
  <2> QED BY <1>a, <2>1, <2>3
<1>3. ASSUME NEW p \in Peer, RecvFile(p) PROVE left' \in [Peer -> SUBSET Path]
  <2>1. Head(chan[p]).path \in Path
    BY <1>3, RecvFileTalks
  <2>2. \/ Leaves(p, Unexpected(p, Head(chan[p]).path, Head(chan[p]).meta))
        \/ Leaves(p, {Head(chan[p]).path})
    BY <1>3 DEF RecvFile
  <2> QED BY <1>a, <2>1, <2>2 DEF Unexpected
<1>4. ASSUME NEW p \in Peer, RecvNotFound(p) PROVE left' \in [Peer -> SUBSET Path]
  <2>1. Head(chan[p]).path \in Path
    <3>1. chan[p] # <<>> /\ Head(chan[p]).op = "NotFound" /\ chan[p] \in Seq(Message)
      BY <1>4 DEF RecvNotFound, Receives, TypeOK
    <3>2. Head(chan[p]) \in Message
      BY <3>1, TailElements
    <3> QED BY <3>1, <3>2, MessageParts
  <2>2. Leaves(p, Unexpected(p, Head(chan[p]).path, Absent))
    BY <1>4 DEF RecvNotFound
  <2> QED BY <1>a, <2>1, <2>2 DEF Unexpected
<1>5. ASSUME NEW p \in Peer,
             \/ User(p) \/ Walk(p) \/ RecvHello(p) \/ RecvRequest(p) \/ SendRequest(p)
             \/ Serve(p) \/ Crash(p)
      PROVE  left' \in [Peer -> SUBSET Path]
  <2>1. left' = left \/ left' = [q \in Peer |-> {}]
    BY <1>5 DEF User, Edit, Delete, Walk, RecvHello, RecvRequest, SendRequest, Serve, Crash, history
  <2> QED BY <1>0, <2>1
<1>6. Connect \/ Drop \/ UNCHANGED vars => left' \in [Peer -> SUBSET Path]
  BY <1>0 DEF Connect, Drop, vars, history
<1> QED BY <1>1, <1>2, <1>3, <1>4, <1>5, <1>6 DEF Next, System, Scan, Receive

LEMMA InitTypes == Init => TypeOK
<1> SUFFICES ASSUME Init PROVE TypeOK
  OBVIOUS
<1>1. NoFiles \in Manifest
  BY DEF NoFiles, Manifest, Entry
<1>2. NewService \in Service
  <2>1. {} \in SUBSET Path /\ <<>> \in Seq(Path)
    OBVIOUS
  <2> QED BY <1>1, <2>1 DEF NewService, Service
<1>3. /\ <<>> \in Seq(Message) /\ {} \in SUBSET (Path \X FileMeta)
  OBVIOUS
<1>4. disk \in [Peer -> Manifest] /\ st \in [Peer -> Service] /\ wanted \in Manifest
      /\ chan \in [Peer -> Seq(Message)] /\ held \in [Peer -> SUBSET (Path \X FileMeta)]
      /\ linked \in BOOLEAN /\ left \in [Peer -> SUBSET Path]
  BY <1>1, <1>2, <1>3 DEF Init
<1>5. walk \in [Peer -> [before : Manifest, fresh : Manifest, on : BOOLEAN]]
  BY NoWalkType DEF Init
<1>6. todo \in [Peer -> [Thread -> PlanOf]]
  BY DecidedType DEF Init
<1>7. /\ edits \in 0..MaxEdits /\ deletes \in 0..MaxDeletes
      /\ drops \in 0..MaxDrops /\ crashes \in 0..MaxCrashes
      /\ faults \in 0..MaxFaults /\ misses \in 0..MaxMisses
  BY PairAssumption DEF Init
<1> QED BY <1>4, <1>5, <1>6, <1>7 DEF TypeOK, PlanOf

LEMMA TypesKept == TypeOK /\ [Next]_vars => TypeOK'
BY SessionTypesKept, FolderTypesKept, CountTypesKept, LeftTypesKept
   DEF TypeOK, SessionTypes, FolderTypes, CountTypes, PlanOf

\* Every variable keeps its type: a tree on its way or recorded is a whole tree, and no
\* bounded count is exceeded.
THEOREM TypeCorrect == Spec => []TypeOK
BY InitTypes, TypesKept, PTL DEF Spec

-----------------------------------------------------------------------------
(* What a peer believes of the other.                                      *)

\* What a peer has been told (remote) and is being told (the messages c on their way)
\* ends with what the other said last.
Current(c, remote, last) ==
    \E i \in 0..Len(c) : /\ IF i = 0 THEN remote = last ELSE c[i] = Update(last)
                         /\ \A j \in 1..Len(c) : j > i => c[j].op # "ManifestUpdate"

\* Nothing is on its way, or will be, without a connection.
Disused(p) == /\ chan[p] = <<>> /\ ~st[p].session
              /\ st[p].pull_queue = <<>> /\ st[p].serve_q = <<>>
              /\ \A t \in Thread : ~todo[p][t].due

Informed == /\ \A p \in Peer : Owing(st[p])
            /\ \A p \in Peer : Current(chan[p], st[p].remote, st[Other(p)].last_sent)
            /\ ~linked => \A p \in Peer : Disused(p)

LEMMA CurrentSays ==
    ASSUME NEW c \in Seq(Message), NEW remote, NEW s, NEW r, Says(s, r),
           Current(c, remote, s.last_sent)
    PROVE  Current(c \o r.out, remote, r.s.last_sent)
<1> DEFINE d == r.out
<1>1. d \in Seq(Message)
  BY DEF Says
<1>2. /\ c \o d \in Seq(Message) /\ Len(c) \in Nat /\ Len(d) \in Nat
      /\ Len(c \o d) = Len(c) + Len(d)
      /\ \A i \in 1..Len(c) : (c \o d)[i] = c[i]
      /\ \A i \in 1..Len(d) : (c \o d)[Len(c) + i] = d[i]
      /\ \A i \in 1..Len(c \o d) :
            \/ i \in 1..Len(c)
            \/ i - Len(c) \in 1..Len(d) /\ (c \o d)[i] = d[i - Len(c)]
  BY <1>1, ConcatElements
<1>3. CASE /\ r.s.last_sent = s.last_sent
           /\ \A i \in 1..Len(d) : d[i].op # "ManifestUpdate"
  <2>1. PICK i \in 0..Len(c) :
           /\ IF i = 0 THEN remote = s.last_sent ELSE c[i] = Update(s.last_sent)
           /\ \A j \in 1..Len(c) : j > i => c[j].op # "ManifestUpdate"
    BY DEF Current
  <2> HIDE DEF d
  <2>2. i \in 0..Len(c \o d) /\ (i # 0 => (c \o d)[i] = c[i])
    BY <1>2
  <2>3. ASSUME NEW j \in 1..Len(c \o d), j > i PROVE (c \o d)[j].op # "ManifestUpdate"
    BY <1>2, <1>3, <2>1, <2>3
  <2>4. IF i = 0 THEN remote = r.s.last_sent ELSE (c \o d)[i] = Update(r.s.last_sent)
    BY <1>3, <2>1, <2>2
  <2> QED BY <2>2, <2>3, <2>4 DEF Current, d
<1>4. CASE /\ r.s.last_sent = r.s.local
           /\ Len(d) > 0 /\ d[Len(d)] = Update(r.s.local)
  <2> HIDE DEF d
  <2> DEFINE i == Len(c) + Len(d)
  <2>1. i \in 0..Len(c \o d) /\ i # 0 /\ (c \o d)[i] = d[Len(d)]
        /\ \A j \in 1..Len(c \o d) : ~(j > i)
    BY <1>2, <1>4
  <2>2. (c \o d)[i] = Update(r.s.last_sent)
    BY <1>4, <2>1
  <2> HIDE DEF i
  <2> QED BY <2>1, <2>2 DEF Current, d
<1> QED BY <1>3, <1>4 DEF Says

LEMMA CurrentHears ==
    ASSUME NEW c \in Seq(Message), c # <<>>, NEW remote, NEW last, Current(c, remote, last)
    PROVE  Current(Tail(c), IF Head(c).op = "ManifestUpdate" THEN Head(c).tree ELSE remote, last)
<1> DEFINE now == IF Head(c).op = "ManifestUpdate" THEN Head(c).tree ELSE remote
<1>1. /\ Head(c) = c[1] /\ Len(c) \in Nat /\ Len(c) > 0 /\ Len(Tail(c)) = Len(c) - 1
      /\ \A i \in 1..Len(Tail(c)) : i + 1 \in 1..Len(c) /\ Tail(c)[i] = c[i + 1]
  BY TailElements
<1>2. PICK i \in 0..Len(c) :
         /\ IF i = 0 THEN remote = last ELSE c[i] = Update(last)
         /\ \A j \in 1..Len(c) : j > i => c[j].op # "ManifestUpdate"
  BY DEF Current
<1>3. Update(last).op = "ManifestUpdate" /\ Update(last).tree = last
  BY DEF Update
<1> DEFINE k == IF i = 0 THEN 0 ELSE i - 1
<1>4. k \in 0..Len(Tail(c))
  BY <1>1
<1>5. \A j \in 1..Len(Tail(c)) : j > k => Tail(c)[j].op # "ManifestUpdate"
  BY <1>1, <1>2
<1>6. IF k = 0 THEN now = last ELSE Tail(c)[k] = Update(last)
  <2>1. CASE i = 0
    <3>1. Head(c).op # "ManifestUpdate"
      BY <1>1, <1>2, <2>1
    <3> QED BY <1>2, <2>1, <3>1
  <2>2. CASE i = 1
    BY <1>1, <1>2, <1>3, <2>2
  <2>3. CASE i > 1
    <3>1. k # 0 /\ k \in 1..Len(Tail(c)) /\ k + 1 = i
      BY <1>1, <2>3
    <3> HIDE DEF k
    <3> QED BY <1>1, <1>2, <2>3, <3>1
  <2> QED BY <2>1, <2>2, <2>3
<1> HIDE DEF k
<1> QED BY <1>4, <1>5, <1>6 DEF Current

LEMMA DisusedKept ==
    ASSUME TypeOK, Informed, [Next]_vars, ~linked, ~linked'
    PROVE  \A p \in Peer : Disused(p)'
<1>0. \A p \in Peer : Disused(p)
  BY DEF Informed
<1>1. ASSUME NEW p \in Peer, Publish(p) PROVE \A q \in Peer : Disused(q)'
  <2> DEFINE t == [f \in Path |-> IF walk[p].fresh[f] # walk[p].before[f]
                                  THEN walk[p].fresh[f] ELSE st[p].local[f]]
             s == SetLocal(st[p], t)
             x == Result(s, <<>>)
  <2>1. /\ s.session = st[p].session /\ s.pull_queue = st[p].pull_queue
        /\ s.serve_q = st[p].serve_q /\ s \in Service
    <3>1. st[p] \in Service /\ t \in Manifest
      BY DEF TypeOK, Service, Manifest
    <3> HIDE DEF t
    <3> QED BY <3>1 DEF SetLocal, Service
  <2>2. ~st[p].session /\ st[p].pull_queue = <<>> /\ st[p].serve_q = <<>>
    BY <1>0 DEF Disused
  <2>3. Becomes(p, x) /\ todo' = [todo EXCEPT ![p]["daemon"] = NoPlan]
    BY <1>1, <2>1, <2>2 DEF Publish
  <2> HIDE DEF s
  <2>4. x.s = s /\ x.out = <<>>
    BY ResultFields
  <2> HIDE DEF x
  <2>5. st' = [st EXCEPT ![p] = s] /\ chan' = [chan EXCEPT ![Other(p)] = @ \o <<>>]
    BY <2>3, <2>4 DEF Becomes, States
  <2>6. chan[Other(p)] \o <<>> = <<>>
    BY <1>0, PeerFacts DEF Disused
  <2>7. ASSUME NEW q \in Peer
        PROVE  /\ chan'[q] = <<>> /\ ~st'[q].session
               /\ st'[q].pull_queue = <<>> /\ st'[q].serve_q = <<>>
    BY <1>0, <2>1, <2>2, <2>5, <2>6 DEF Disused, TypeOK
  <2>8. ASSUME NEW q \in Peer, NEW u \in Thread PROVE ~todo'[q][u].due
    BY <1>0, <2>3 DEF Disused, TypeOK, NoPlan
  <2> QED BY <2>7, <2>8 DEF Disused
<1>2. ASSUME NEW p \in Peer, User(p) \/ Walk(p) PROVE \A q \in Peer : Disused(q)'
  <2>1. UNCHANGED <<st, chan, todo>>
    BY <1>2 DEF User, Edit, Delete, Walk
  <2> QED BY <1>0, <2>1 DEF Disused
<1>3. UNCHANGED vars => \A q \in Peer : Disused(q)'
  BY <1>0 DEF vars, Disused
<1>4. ~Connect /\ ~Drop /\ \A p \in Peer : ~Crash(p)
  BY DEF Connect, Drop, Crash, Disconnected
<1>5. ASSUME NEW p \in Peer PROVE ~Receive(p) /\ ~SendRequest(p) /\ ~Serve(p)
                                  /\ \A t \in Thread : ~Execute(p, t)
  BY <1>0 DEF Disused, Receive, RecvHello, RecvUpdate, RecvRequest, RecvFile, RecvNotFound,
              Receives, SendRequest, Serve, Execute
<1> QED BY <1>1, <1>2, <1>3, <1>4, <1>5 DEF Next, System, Scan

LEMMA InformedKept ==
    ASSUME TypeOK, Informed, [Next]_vars
    PROVE  Informed'
<1>1. ASSUME NEW p \in Peer, NEW r, Talks(p, r), linked' = linked PROVE Informed'
  <2>0. /\ Other(p) \in Peer /\ Other(p) # p /\ Other(Other(p)) = p
        /\ \A x \in Peer : x = p \/ x = Other(p)
        /\ st \in [Peer -> Service] /\ chan \in [Peer -> Seq(Message)]
    BY PeerFacts DEF TypeOK
  <2>1. st'[p] = r.s /\ st'[Other(p)] = st[Other(p)]
    BY <1>1, <2>0 DEF Talks
  <2>2. \A x \in Peer : Owing(st'[x])
    BY <1>1, <2>0, <2>1 DEF Talks, Informed
  <2>3. Current(chan[Other(p)] \o r.out, st'[Other(p)].remote, st'[p].last_sent)
    <3>1. Current(chan[Other(p)], st[Other(p)].remote, st[p].last_sent)
      BY <2>0 DEF Informed
    <3>2. Says(st[p], r)
      BY <1>1 DEF Talks
    <3> QED BY <2>0, <2>1, <3>1, <3>2, CurrentSays
  <2>4. chan'[Other(p)] = chan[Other(p)] \o r.out
    BY <1>1, <2>0 DEF Talks
  <2>5. Current(chan'[p], st'[p].remote, st'[Other(p)].last_sent)
    <3>1. Current(chan[p], st[p].remote, st[Other(p)].last_sent)
      BY DEF Informed
    <3>2. CASE /\ chan' = [chan EXCEPT ![Other(p)] = @ \o r.out]
               /\ r.s.remote = st[p].remote
      BY <2>0, <2>1, <3>1, <3>2
    <3>3. CASE /\ chan[p] # <<>>
               /\ chan' = [chan EXCEPT ![p] = Tail(@), ![Other(p)] = @ \o r.out]
               /\ r.s.remote = IF Head(chan[p]).op = "ManifestUpdate" THEN Head(chan[p]).tree
                               ELSE st[p].remote
      <4>1. chan'[p] = Tail(chan[p])
        BY <2>0, <3>3
      <4>2. Current(Tail(chan[p]), r.s.remote, st[Other(p)].last_sent)
        BY <2>0, <3>1, <3>3, CurrentHears
      <4> QED BY <2>1, <4>1, <4>2
    <3> QED BY <1>1, <3>2, <3>3 DEF Talks
  <2>6. \A x \in Peer : Current(chan'[x], st'[x].remote, st'[Other(x)].last_sent)
    BY <2>0, <2>3, <2>4, <2>5
  <2> QED BY <1>1, <2>2, <2>6, DisusedKept DEF Informed
<1>2. ASSUME Resets PROVE Informed'
  <2>1. ASSUME NEW p \in Peer
        PROVE  /\ chan'[p] = <<>> /\ ~st'[p].session
               /\ st'[p].remote = Unknown /\ st'[p].last_sent = Unknown
    BY <1>2 DEF Resets
  <2>2. \A p \in Peer : Owing(st'[p])
    BY <2>1 DEF Owing
  <2>3. \A p \in Peer : Current(chan'[p], st'[p].remote, st'[Other(p)].last_sent)
    <3>1. Current(<<>>, Unknown, Unknown)
      <4>1. 0 \in 0..Len(<<>>)
        OBVIOUS
      <4>2. \A j \in 1..Len(<<>>) : FALSE
        OBVIOUS
      <4> QED BY <4>1, <4>2 DEF Current
    <3> QED BY <2>1, <3>1, PeerFacts
  <2>4. \A p \in Peer : Disused(p)'
    BY <1>2 DEF Resets, Disused, Busy
  <2> QED BY <2>2, <2>3, <2>4 DEF Informed
<1>3. ASSUME Connects PROVE Informed'
  <2>1. \A p \in Peer : chan[p] = <<>>
    BY <1>3 DEF Connects, Informed, Disused
  <2>2. \A p \in Peer : st[p].remote = st[Other(p)].last_sent
    BY <2>1 DEF Informed, Current
  <2>3. \A a : Current(<<Hello>>, a, a)
    <3>1. 0 \in 0..Len(<<Hello>>) /\ \A j \in 1..Len(<<Hello>>) : <<Hello>>[j].op # "ManifestUpdate"
      BY DEF Hello
    <3> QED BY <3>1 DEF Current
  <2> QED BY <1>3, <2>2, <2>3 DEF Connects, Informed
<1>4. ASSUME Keeps PROVE Informed'
  BY <1>4, DisusedKept DEF Keeps, Informed
<1> QED BY <1>1, <1>2, <1>3, <1>4, Steps

LEMMA InitInformed == Init => Informed
<1> SUFFICES ASSUME Init PROVE Informed
  OBVIOUS
<1>1. \A p \in Peer : chan[p] = <<>> /\ st[p] = NewService /\ st[Other(p)] = NewService
  BY PeerFacts DEF Init
<1>2. Current(<<>>, Unknown, Unknown)
  <2>1. 0 \in 0..Len(<<>>)
    OBVIOUS
  <2>2. \A j \in 1..Len(<<>>) : FALSE
    OBVIOUS
  <2> QED BY <2>1, <2>2 DEF Current
<1>3. \A p \in Peer : Owing(st[p])
  BY <1>1 DEF Owing, NewService
<1>4. \A p \in Peer : Current(chan[p], st[p].remote, st[Other(p)].last_sent)
  BY <1>1, <1>2 DEF NewService
<1>5. \A p \in Peer : Disused(p)
  BY <1>1 DEF Init, Disused, NewService, NoPlan
<1> QED BY <1>3, <1>4, <1>5 DEF Informed

LEMMA InformedAtRest == Informed => QuietMeansInformed
<1> SUFFICES ASSUME Informed, Quiet, NEW p \in Peer
             PROVE  st[p].remote = st[Other(p)].local
  BY DEF QuietMeansInformed
<1>1. Other(p) \in Peer
  BY PeerFacts
<1>2. chan[p] = <<>> /\ st[Other(p)].session /\ ~Busy(st[Other(p)])
  BY <1>1 DEF Quiet
<1>3. st[Other(p)].local = st[Other(p)].last_sent
  BY <1>1, <1>2 DEF Informed, Owing, Owes, Tells
<1>4. st[p].remote = st[Other(p)].last_sent
  BY <1>2 DEF Informed, Current
<1> QED BY <1>3, <1>4

\* QuietMeansInformed holds for every number of edits, deletions, lost connections,
\* crashes and faults, and every options: when a peer has no work left, what it owed
\* the other has been told, and what was told last is what the other believes.
THEOREM QuietIsInformed == Spec => []QuietMeansInformed
<1>1. Init => TypeOK /\ Informed
  BY InitTypes, InitInformed
<1>2. (TypeOK /\ Informed) /\ [Next]_vars => (TypeOK /\ Informed)'
  BY TypesKept, InformedKept
<1>3. Informed => QuietMeansInformed
  BY InformedAtRest
<1> QED BY <1>1, <1>2, <1>3, PTL DEF Spec

-----------------------------------------------------------------------------
(* The baseline.                                                           *)

\* Every tree a peer describes, or has described, is one its folder has had.
Heard == /\ \A p \in Peer : Listed(st[p].local) \subseteq held[p]
         /\ \A p \in Peer : st[p].remote # Unknown =>
                               Listed(st[p].remote) \subseteq held[Other(p)]
         /\ \A p \in Peer : \A i \in 1..Len(chan[p]) :
               chan[p][i].op = "ManifestUpdate" =>
                  Listed(chan[p][i].tree) \subseteq held[Other(p)]

\* What is said of the trees of a set is heard: the messages of c and d.
LEMMA HeardSays ==
    ASSUME NEW S, NEW c \in Seq(Message), NEW s, NEW r, Says(s, r),
           Listed(r.s.local) \subseteq S,
           \A i \in 1..Len(c) : c[i].op = "ManifestUpdate" => Listed(c[i].tree) \subseteq S
    PROVE  \A i \in 1..Len(c \o r.out) :
              (c \o r.out)[i].op = "ManifestUpdate" => Listed((c \o r.out)[i].tree) \subseteq S
<1> DEFINE d == r.out
<1>1. /\ d \in Seq(Message)
      /\ \A i \in 1..Len(d) : d[i].op = "ManifestUpdate" => d[i] = Update(r.s.local)
  BY DEF Says
<1> HIDE DEF d
<1>2. /\ \A i \in 1..Len(c) : (c \o d)[i] = c[i]
      /\ \A i \in 1..Len(c \o d) :
            \/ i \in 1..Len(c)
            \/ i - Len(c) \in 1..Len(d) /\ (c \o d)[i] = d[i - Len(c)]
  BY <1>1, ConcatElements
<1>3. Update(r.s.local).tree = r.s.local
  BY DEF Update
<1> SUFFICES ASSUME NEW i \in 1..Len(c \o d), (c \o d)[i].op = "ManifestUpdate"
             PROVE  Listed((c \o d)[i].tree) \subseteq S
  BY DEF d
<1>4. CASE i \in 1..Len(c)
  BY <1>2, <1>4
<1>5. CASE i - Len(c) \in 1..Len(d) /\ (c \o d)[i] = d[i - Len(c)]
  BY <1>1, <1>3, <1>5
<1> QED BY <1>2, <1>4, <1>5

LEMMA HeardKept ==
    ASSUME TypeOK, Heard, [Next]_vars
    PROVE  Heard' /\ \A p \in Peer : held[p] \subseteq held'[p]
<1>1. ASSUME NEW p \in Peer, NEW r, Talks(p, r) PROVE Heard' /\ \A x \in Peer : held[x] \subseteq held'[x]
  <2>0. /\ Other(p) \in Peer /\ Other(p) # p /\ Other(Other(p)) = p
        /\ \A x \in Peer : x = p \/ x = Other(p)
        /\ st \in [Peer -> Service] /\ chan \in [Peer -> Seq(Message)]
    BY PeerFacts DEF TypeOK
  <2>1. /\ st'[p] = r.s /\ st'[Other(p)] = st[Other(p)]
        /\ chan'[Other(p)] = chan[Other(p)] \o r.out
        /\ Says(st[p], r)
    BY <1>1, <2>0 DEF Talks
  <2>2. \A x \in Peer : held'[x] = held[x] \union Listed(st'[x].local)
    BY <1>1 DEF Talks
  <2>3. Listed(r.s.local) \subseteq held'[p]
    BY <2>1, <2>2
  <2>4. \A i \in 1..Len(chan'[Other(p)]) :
           chan'[Other(p)][i].op = "ManifestUpdate" =>
              Listed(chan'[Other(p)][i].tree) \subseteq held'[p]
    <3>1. \A i \in 1..Len(chan[Other(p)]) :
             chan[Other(p)][i].op = "ManifestUpdate" =>
                Listed(chan[Other(p)][i].tree) \subseteq held'[p]
      BY <2>0, <2>2 DEF Heard
    <3>2. chan[Other(p)] \in Seq(Message)
      BY <2>0
    <3>3. \A i \in 1..Len(chan[Other(p)] \o r.out) :
             (chan[Other(p)] \o r.out)[i].op = "ManifestUpdate" =>
                Listed((chan[Other(p)] \o r.out)[i].tree) \subseteq held'[p]
      BY <2>1, <2>3, <3>1, <3>2, HeardSays
    <3> QED BY <2>1, <3>3
  <2>5. /\ \A i \in 1..Len(chan'[p]) :
              chan'[p][i].op = "ManifestUpdate" =>
                 Listed(chan'[p][i].tree) \subseteq held'[Other(p)]
        /\ st'[p].remote # Unknown => Listed(st'[p].remote) \subseteq held'[Other(p)]
    <3>0. held[Other(p)] \subseteq held'[Other(p)]
      BY <2>0, <2>2
    <3>1. /\ \A i \in 1..Len(chan[p]) :
                chan[p][i].op = "ManifestUpdate" =>
                   Listed(chan[p][i].tree) \subseteq held'[Other(p)]
          /\ st[p].remote # Unknown => Listed(st[p].remote) \subseteq held'[Other(p)]
      BY <3>0 DEF Heard
    <3>2. CASE /\ chan' = [chan EXCEPT ![Other(p)] = @ \o r.out]
               /\ r.s.remote = st[p].remote
      BY <2>0, <2>1, <3>1, <3>2
    <3>3. CASE /\ chan[p] # <<>>
               /\ chan' = [chan EXCEPT ![p] = Tail(@), ![Other(p)] = @ \o r.out]
               /\ r.s.remote = IF Head(chan[p]).op = "ManifestUpdate" THEN Head(chan[p]).tree
                               ELSE st[p].remote
      <4>1. chan'[p] = Tail(chan[p]) /\ chan[p] \in Seq(Message)
        BY <2>0, <3>3
      <4>2. /\ Head(chan[p]) = chan[p][1] /\ 1 \in 1..Len(chan[p])
            /\ \A i \in 1..Len(Tail(chan[p])) :
                  i + 1 \in 1..Len(chan[p]) /\ Tail(chan[p])[i] = chan[p][i + 1]
        BY <3>3, <4>1, TailElements
      <4>3. r.s.remote # Unknown => Listed(r.s.remote) \subseteq held'[Other(p)]
        BY <3>1, <3>3, <4>2
      <4> QED BY <2>1, <3>1, <4>1, <4>2, <4>3
    <3> QED BY <1>1, <3>2, <3>3 DEF Talks
  <2>6. st[Other(p)].remote # Unknown => Listed(st[Other(p)].remote) \subseteq held'[p]
    BY <2>0, <2>2 DEF Heard
  <2>7. \A x \in Peer : Listed(st'[x].local) \subseteq held'[x]
    BY <2>2
  <2>8. \A x \in Peer : st'[x].remote # Unknown => Listed(st'[x].remote) \subseteq held'[Other(x)]
    BY <2>0, <2>1, <2>5, <2>6
  <2>9. \A x \in Peer : \A i \in 1..Len(chan'[x]) :
           chan'[x][i].op = "ManifestUpdate" => Listed(chan'[x][i].tree) \subseteq held'[Other(x)]
    BY <2>0, <2>4, <2>5
  <2> QED BY <2>2, <2>7, <2>8, <2>9 DEF Heard
<1>2. ASSUME Resets PROVE Heard' /\ \A x \in Peer : held[x] \subseteq held'[x]
  <2>1. \A x \in Peer : /\ held'[x] = held[x] \union Listed(st'[x].local)
                        /\ chan'[x] = <<>> /\ st'[x].remote = Unknown
    BY <1>2 DEF Resets
  <2>2. \A i \in 1..Len(<<>>) : FALSE
    OBVIOUS
  <2> QED BY <2>1, <2>2 DEF Heard
<1>3. ASSUME Connects PROVE Heard' /\ \A x \in Peer : held[x] \subseteq held'[x]
  <2>1. \A x \in Peer : chan'[x] = <<Hello>>
    BY <1>3 DEF Connects
  <2>2. \A i \in 1..Len(<<Hello>>) : <<Hello>>[i].op # "ManifestUpdate"
    BY DEF Hello
  <2> QED BY <1>3, <2>1, <2>2 DEF Connects, Heard
<1>4. ASSUME Keeps PROVE Heard' /\ \A x \in Peer : held[x] \subseteq held'[x]
  BY <1>4 DEF Keeps, Heard
<1> QED BY <1>1, <1>2, <1>3, <1>4, Steps

LEMMA BaselineKept ==
    ASSUME \A p \in Peer : Opt[p].deletes, TypeOK, Heard, BaselineIsCommon, [Next]_vars
    PROVE  BaselineIsCommon'
<1> DEFINE Known(b, p) == \A e \in Listed(b) : \E g \in held'[p] : g[1] = e[1] /\ SameContent(g[2], e[2])
<1>0. Heard' /\ \A p \in Peer : held[p] \subseteq held'[p]
  BY HeardKept
<1>1. \A p \in Peer : Known(st[p].base, Other(p))
  BY <1>0, PeerFacts DEF BaselineIsCommon
<1>2. \A p \in Peer : Known(NoFiles, p)
  BY DEF Listed, NoFiles
<1>3. ASSUME NEW p \in Peer, NEW r, Talks(p, r) PROVE BaselineIsCommon'
  <2>0. /\ Other(p) \in Peer /\ Other(p) # p /\ Other(Other(p)) = p
        /\ \A x \in Peer : x = p \/ x = Other(p)
        /\ st \in [Peer -> Service] /\ Opt[p] \in Options
    BY PeerFacts DEF TypeOK
  <2>1. st'[p] = r.s /\ st'[Other(p)] = st[Other(p)] /\ Recorded(p, st[p].base, r.s)
    BY <1>3, <2>0 DEF Talks
  <2>2. Known(r.s.base, Other(p))
    <3>1. CASE r.s.base = st[p].base
      BY <1>1, <3>1
    <3>2. CASE /\ r.s.base = r.s.local /\ r.s.remote # Unknown
               /\ EmptyPlan(PlanFor(st[p].base, r.s.local, r.s.remote, Opt[p]))
      <4>1. SameTree(r.s.local, r.s.remote)
        BY <2>0, <3>2, EmptyPlanAgrees
      <4>2. Listed(r.s.remote) \subseteq held'[Other(p)]
        BY <1>0, <2>1, <3>2 DEF Heard
      <4>3. ASSUME NEW e \in Listed(r.s.base)
            PROVE  \E g \in held'[Other(p)] : g[1] = e[1] /\ SameContent(g[2], e[2])
        <5>1. PICK f \in Path : e = <<f, r.s.local[f]>> /\ r.s.local[f] # Absent
          BY <3>2 DEF Listed
        <5>2. r.s.remote[f] # Absent /\ SameContent(r.s.remote[f], r.s.local[f])
          BY <4>1, <5>1 DEF SameTree, SameEntry, SameContent
        <5>3. <<f, r.s.remote[f]>> \in Listed(r.s.remote)
          BY <5>2 DEF Listed
        <5> QED BY <4>2, <5>1, <5>2, <5>3
      <4> QED BY <4>3
    <3> QED BY <2>1, <3>1, <3>2 DEF Recorded
  <2> QED BY <1>1, <2>0, <2>1, <2>2 DEF BaselineIsCommon
<1>4. ASSUME Resets PROVE BaselineIsCommon'
  <2>1. \A p \in Peer : st'[p].base \in {st[p].base, NoFiles} /\ Other(p) \in Peer
    BY <1>4, PeerFacts DEF Resets
  <2> QED BY <1>1, <1>2, <2>1 DEF BaselineIsCommon
<1>5. ASSUME Connects \/ Keeps PROVE BaselineIsCommon'
  BY <1>5 DEF Connects, Keeps, BaselineIsCommon
<1> QED BY <1>3, <1>4, <1>5, Steps

\* BaselineIsCommon holds for every number of edits, deletions, lost connections, crashes
\* and faults, among peers that follow each other's deletions: a peer records its tree
\* only when it sees nothing to do, and then it has, content by content, a tree the other
\* has described, which is one the other's folder has had.  A peer that does not follow
\* deletions finds nothing to do about a path the other has removed, and records it.
THEOREM BaselineCommon ==
    ASSUME \A p \in Peer : Opt[p].deletes
    PROVE  Spec => []BaselineIsCommon
<1>1. Init => TypeOK /\ Heard /\ BaselineIsCommon
  <2> SUFFICES ASSUME Init PROVE TypeOK /\ Heard /\ BaselineIsCommon
    OBVIOUS
  <2>1. \A p \in Peer : /\ chan[p] = <<>> /\ st[p].local = NoFiles /\ st[p].base = NoFiles
                        /\ st[p].remote = Unknown
    BY DEF Init, NewService
  <2>2. Listed(NoFiles) = {}
    BY DEF Listed, NoFiles
  <2>3. \A i \in 1..Len(<<>>) : FALSE
    OBVIOUS
  <2> QED BY <2>1, <2>2, <2>3, InitTypes DEF Heard, BaselineIsCommon
<1>2. (TypeOK /\ Heard /\ BaselineIsCommon) /\ [Next]_vars => (TypeOK /\ Heard /\ BaselineIsCommon)'
  BY TypesKept, HeardKept, BaselineKept
<1> QED BY <1>1, <1>2, PTL DEF Spec

-----------------------------------------------------------------------------
(* As long as no user deletes and no file is missed, trees only grow.      *)

Lists(t) == {f \in Path : t[f] # Absent}

\* The trees described on a way grow, up to what their sender has.
Rising(c, top) ==
    \A i \in 1..Len(c) : c[i].op = "ManifestUpdate" =>
        /\ Lists(c[i].tree) \subseteq top
        /\ \A j \in 1..Len(c) : i < j /\ c[j].op = "ManifestUpdate" =>
              Lists(c[i].tree) \subseteq Lists(c[j].tree)

\* No tree on the way lacks a path of S.
Below(S, c, top) ==
    /\ S \subseteq top
    /\ \A i \in 1..Len(c) : c[i].op = "ManifestUpdate" => S \subseteq Lists(c[i].tree)

\* What p has been and is being told grows, and has all that p's baseline has.
Growing(p) ==
    LET top == Lists(st[Other(p)].local)
    IN  /\ Rising(chan[p], top)
        /\ st[p].remote # Unknown => Below(Lists(st[p].remote), chan[p], top)
        /\ Opt[p].deletes =>
              /\ Below(Lists(st[p].base), chan[p], top)
              /\ st[p].remote # Unknown => Lists(st[p].base) \subseteq Lists(st[p].remote)

\* No tree that p knows or is about to publish lacks a file, and p deletes none.
Covered(p) ==
    /\ Lists(st[p].local) \subseteq Lists(disk[p])
    /\ walk[p].on => /\ Lists(walk[p].before) \subseteq Lists(walk[p].fresh)
                     /\ Lists(walk[p].fresh) \subseteq Lists(disk[p])
    /\ \A t \in Thread : todo[p][t].delete_local = {}

Grown == deletes = 0 /\ misses = 0 => \A p \in Peer : Growing(p) /\ Covered(p)

LEMMA RisingSays ==
    ASSUME NEW c \in Seq(Message), NEW s, NEW r, Says(s, r), NEW top,
           top \subseteq Lists(r.s.local), Rising(c, top)
    PROVE  /\ Rising(c \o r.out, Lists(r.s.local))
           /\ \A S : Below(S, c, top) => Below(S, c \o r.out, Lists(r.s.local))
<1> DEFINE d == r.out
           new == Lists(r.s.local)
<1>1. /\ d \in Seq(Message)
      /\ \A i \in 1..Len(d) : d[i].op = "ManifestUpdate" => d[i] = Update(r.s.local)
  BY DEF Says
<1>2. Update(r.s.local).tree = r.s.local
  BY DEF Update
<1> HIDE DEF d
<1>3. /\ \A i \in 1..Len(c) : (c \o d)[i] = c[i]
      /\ \A i \in 1..Len(c \o d) :
            \/ i \in 1..Len(c)
            \/ i - Len(c) \in 1..Len(d) /\ (c \o d)[i] = d[i - Len(c)]
      /\ Len(c) \in Nat
  BY <1>1, ConcatElements
<1>4. \A i \in 1..Len(c \o d) : (c \o d)[i].op = "ManifestUpdate" =>
         \/ i \in 1..Len(c) /\ (c \o d)[i] = c[i]
         \/ i > Len(c) /\ (c \o d)[i].tree = r.s.local
  BY <1>1, <1>2, <1>3
<1>5. ASSUME NEW S, Below(S, c, top) PROVE Below(S, c \o d, new)
  BY <1>4, <1>5 DEF Below
<1>6. Rising(c \o d, new)
  <2> SUFFICES ASSUME NEW i \in 1..Len(c \o d), (c \o d)[i].op = "ManifestUpdate"
               PROVE  /\ Lists((c \o d)[i].tree) \subseteq new
                      /\ \A j \in 1..Len(c \o d) : i < j /\ (c \o d)[j].op = "ManifestUpdate" =>
                            Lists((c \o d)[i].tree) \subseteq Lists((c \o d)[j].tree)
    BY DEF Rising
  <2>1. CASE i \in 1..Len(c) /\ (c \o d)[i] = c[i]
    <3>1. Lists(c[i].tree) \subseteq top
      BY <2>1 DEF Rising
    <3>2. Lists(c[i].tree) \subseteq new
      BY <3>1
    <3>3. ASSUME NEW j \in 1..Len(c \o d), i < j, (c \o d)[j].op = "ManifestUpdate"
          PROVE  Lists(c[i].tree) \subseteq Lists((c \o d)[j].tree)
      <4>1. CASE j \in 1..Len(c) /\ (c \o d)[j] = c[j]
        BY <2>1, <3>3, <4>1 DEF Rising
      <4>2. CASE j > Len(c) /\ (c \o d)[j].tree = r.s.local
        BY <3>2, <4>2
      <4> QED BY <1>4, <3>3, <4>1, <4>2
    <3> QED BY <2>1, <3>2, <3>3
  <2>2. CASE i > Len(c) /\ (c \o d)[i].tree = r.s.local
    <3>1. ASSUME NEW j \in 1..Len(c \o d), i < j, (c \o d)[j].op = "ManifestUpdate"
          PROVE  (c \o d)[j].tree = r.s.local
      BY <1>3, <1>4, <2>2, <3>1
    <3> QED BY <2>2, <3>1
  <2> QED BY <1>4, <2>1, <2>2
<1> QED BY <1>5, <1>6 DEF d

LEMMA RisingHears ==
    ASSUME NEW c \in Seq(Message), c # <<>>, NEW top, Rising(c, top)
    PROVE  /\ Rising(Tail(c), top)
           /\ \A S : Below(S, c, top) =>
                 /\ Below(S, Tail(c), top)
                 /\ Head(c).op = "ManifestUpdate" => S \subseteq Lists(Head(c).tree)
           /\ Head(c).op = "ManifestUpdate" => Below(Lists(Head(c).tree), Tail(c), top)
<1> DEFINE d == Tail(c)
<1>1. /\ Head(c) = c[1] /\ 1 \in 1..Len(c) /\ Len(c) \in Nat /\ Len(d) = Len(c) - 1
      /\ \A i \in 1..Len(d) : i + 1 \in 1..Len(c) /\ d[i] = c[i + 1]
  BY TailElements
<1> HIDE DEF d
<1>2. Rising(d, top)
  <2> SUFFICES ASSUME NEW i \in 1..Len(d), d[i].op = "ManifestUpdate"
               PROVE  /\ Lists(d[i].tree) \subseteq top
                      /\ \A j \in 1..Len(d) : i < j /\ d[j].op = "ManifestUpdate" =>
                            Lists(d[i].tree) \subseteq Lists(d[j].tree)
    BY DEF Rising
  <2>1. i + 1 \in 1..Len(c) /\ d[i] = c[i + 1]
    BY <1>1
  <2>2. ASSUME NEW j \in 1..Len(d), i < j PROVE j + 1 \in 1..Len(c) /\ d[j] = c[j + 1] /\ i + 1 < j + 1
    BY <1>1, <2>2
  <2> QED BY <2>1, <2>2 DEF Rising
<1>3. ASSUME NEW S, Below(S, c, top)
      PROVE  /\ Below(S, d, top)
             /\ Head(c).op = "ManifestUpdate" => S \subseteq Lists(Head(c).tree)
  BY <1>1, <1>3 DEF Below
<1>4. ASSUME Head(c).op = "ManifestUpdate" PROVE Below(Lists(Head(c).tree), d, top)
  <2>1. c[1].op = "ManifestUpdate" /\ Head(c) = c[1]
    BY <1>1, <1>4
  <2>2. /\ Lists(c[1].tree) \subseteq top
        /\ \A j \in 1..Len(c) : 1 < j /\ c[j].op = "ManifestUpdate" =>
              Lists(c[1].tree) \subseteq Lists(c[j].tree)
    BY <1>1, <2>1 DEF Rising
  <2>3. ASSUME NEW i \in 1..Len(d), d[i].op = "ManifestUpdate"
        PROVE  Lists(c[1].tree) \subseteq Lists(d[i].tree)
    <3>1. i + 1 \in 1..Len(c) /\ d[i] = c[i + 1] /\ 1 < i + 1
      BY <1>1
    <3> QED BY <2>2, <2>3, <3>1
  <2> QED BY <2>1, <2>2, <2>3 DEF Below
<1> QED BY <1>2, <1>3, <1>4 DEF d

LEMMA SilentRises ==
    ASSUME NEW c \in Seq(Message), \A i \in 1..Len(c) : c[i].op # "ManifestUpdate", NEW top
    PROVE  Rising(c, top) /\ \A S : S \subseteq top => Below(S, c, top)
BY DEF Rising, Below

\* Peers one of which mirrors the other delete what the other lacks; that is their purpose.
KeepsFiles == \A p \in Peer : Opt[p].mode = "TwoWay" \/ ~Opt[p].deletes

LEMMA DecidesNoDelete ==
    ASSUME KeepsFiles, NEW p \in Peer, NEW s,
           Opt[p].deletes /\ s.remote # Unknown => Lists(s.base) \subseteq Lists(s.remote)
    PROVE  Decided(p, s).delete_local = {} /\ NoPlan.delete_local = {}
<1>1. NoPlan.delete_local = {}
  BY DEF NoPlan
<1>2. CASE s.remote = Unknown
  BY <1>1, <1>2 DEF Decided
<1>3. CASE s.remote # Unknown
  <2> SUFFICES ASSUME NEW f \in PlanFor(s.base, s.local, s.remote, Opt[p]).delete_local
               PROVE  FALSE
    BY <1>1, <1>3 DEF Decided
  <2>1. Opt[p] \in Options
    BY PeerFacts
  <2>2. f \in Path
    BY PlanType
  <2>3. Opt[p].deletes /\ (Opt[p].mode = "TwoWay" => s.base[f] # Absent /\ s.remote[f] = Absent)
    BY <2>1, DeletesWhatTheBaselineLists
  <2>4. s.base[f] # Absent /\ s.remote[f] = Absent
    BY <2>3 DEF KeepsFiles
  <2> QED BY <1>3, <2>2, <2>3, <2>4 DEF Lists
<1> QED BY <1>2, <1>3

\* The sessions' part of Grown follows the trees.
LEMMA GrowingKept ==
    ASSUME TypeOK, \A p \in Peer : Growing(p), [Next]_vars,
           \A p \in Peer : Lists(st[p].local) \subseteq Lists(st'[p].local)
    PROVE  \A p \in Peer : Growing(p)'
<1>0. /\ st \in [Peer -> Service] /\ chan \in [Peer -> Seq(Message)]
      /\ \A p \in Peer : /\ Other(p) \in Peer /\ Other(p) # p /\ Other(Other(p)) = p
                         /\ \A x \in Peer : x = p \/ x = Other(p)
                         /\ Opt[p] \in Options
  BY PeerFacts DEF TypeOK
<1>1. ASSUME NEW p \in Peer, NEW r, Talks(p, r) PROVE \A x \in Peer : Growing(x)'
  <2> DEFINE q == Other(p)
  <2>0. q \in Peer /\ q # p /\ Other(q) = p /\ \A x \in Peer : x = p \/ x = q
    BY <1>0
  <2>1. /\ st'[p] = r.s /\ st'[q] = st[q] /\ chan'[q] = chan[q] \o r.out
        /\ Says(st[p], r) /\ chan[q] \in Seq(Message) /\ chan[p] \in Seq(Message)
        /\ Recorded(p, st[p].base, r.s)
    BY <1>0, <1>1, <2>0 DEF Talks
  <2>2. Lists(st[p].local) \subseteq Lists(r.s.local)
    BY <2>1
  <2>3. Growing(q)'
    <3>1. /\ Rising(chan[q], Lists(st[p].local))
          /\ st[q].remote # Unknown => Below(Lists(st[q].remote), chan[q], Lists(st[p].local))
          /\ Opt[q].deletes =>
              /\ Below(Lists(st[q].base), chan[q], Lists(st[p].local))
              /\ st[q].remote # Unknown => Lists(st[q].base) \subseteq Lists(st[q].remote)
      BY <2>0 DEF Growing
    <3>2. /\ Rising(chan[q] \o r.out, Lists(r.s.local))
          /\ \A S : Below(S, chan[q], Lists(st[p].local)) => Below(S, chan[q] \o r.out, Lists(r.s.local))
      BY <2>1, <2>2, <3>1, RisingSays
    <3> QED BY <2>0, <2>1, <3>1, <3>2 DEF Growing
  <2>4. Growing(p)'
    <3> DEFINE top == Lists(st[q].local)
    <3>1. /\ Rising(chan[p], top)
          /\ st[p].remote # Unknown => Below(Lists(st[p].remote), chan[p], top)
          /\ Opt[p].deletes =>
              /\ Below(Lists(st[p].base), chan[p], top)
              /\ st[p].remote # Unknown => Lists(st[p].base) \subseteq Lists(st[p].remote)
      BY <2>0 DEF Growing
    <3> HIDE DEF top
    <3>2. /\ Rising(chan'[p], top)
          /\ r.s.remote # Unknown => Below(Lists(r.s.remote), chan'[p], top)
          /\ Opt[p].deletes =>
              /\ Below(Lists(st[p].base), chan'[p], top)
              /\ r.s.remote # Unknown => Lists(st[p].base) \subseteq Lists(r.s.remote)
      <4>1. CASE /\ chan' = [chan EXCEPT ![q] = @ \o r.out]
                 /\ r.s.remote = st[p].remote
        <5>1. chan'[p] = chan[p]
          BY <1>0, <2>0, <4>1
        <5> QED BY <3>1, <4>1, <5>1
      <4>2. CASE /\ chan[p] # <<>>
                 /\ chan' = [chan EXCEPT ![p] = Tail(@), ![q] = @ \o r.out]
                 /\ r.s.remote = IF Head(chan[p]).op = "ManifestUpdate" THEN Head(chan[p]).tree
                                 ELSE st[p].remote
        <5>1. chan'[p] = Tail(chan[p])
          BY <1>0, <2>0, <4>2
        <5>2. /\ Rising(Tail(chan[p]), top)
              /\ \A S : Below(S, chan[p], top) =>
                    /\ Below(S, Tail(chan[p]), top)
                    /\ Head(chan[p]).op = "ManifestUpdate" => S \subseteq Lists(Head(chan[p]).tree)
              /\ Head(chan[p]).op = "ManifestUpdate" =>
                    Below(Lists(Head(chan[p]).tree), Tail(chan[p]), top)
          BY <2>1, <3>1, <4>2, RisingHears
        <5>3. CASE Head(chan[p]).op = "ManifestUpdate"
          BY <3>1, <4>2, <5>1, <5>2, <5>3
        <5>4. CASE Head(chan[p]).op # "ManifestUpdate"
          BY <3>1, <4>2, <5>1, <5>2, <5>4
        <5> QED BY <5>3, <5>4
      <4> QED BY <1>1, <4>1, <4>2 DEF Talks
    <3>3. ASSUME Opt[p].deletes
          PROVE  /\ Below(Lists(r.s.base), chan'[p], top)
                 /\ r.s.remote # Unknown => Lists(r.s.base) \subseteq Lists(r.s.remote)
      <4>1. CASE r.s.base = st[p].base
        BY <3>2, <3>3, <4>1
      <4>2. CASE /\ r.s.base = r.s.local /\ r.s.remote # Unknown
                 /\ EmptyPlan(PlanFor(st[p].base, r.s.local, r.s.remote, Opt[p]))
        <5>1. SameTree(r.s.local, r.s.remote)
          BY <1>0, <3>3, <4>2, EmptyPlanAgrees
        <5>2. Lists(r.s.base) = Lists(r.s.remote)
          BY <4>2, <5>1 DEF SameTree, SameEntry, Lists
        <5> QED BY <3>2, <4>2, <5>2
      <4> QED BY <2>1, <4>1, <4>2 DEF Recorded
    <3> QED BY <2>0, <2>1, <3>2, <3>3 DEF Growing, top
  <2> QED BY <2>0, <2>3, <2>4
<1>2. ASSUME Resets PROVE \A x \in Peer : Growing(x)'
  <2> SUFFICES ASSUME NEW p \in Peer PROVE Growing(p)'
    OBVIOUS
  <2>1. chan'[p] = <<>> /\ st'[p].remote = Unknown /\ st'[p].base \in {st[p].base, NoFiles}
    BY <1>2 DEF Resets
  <2>2. Opt[p].deletes => Lists(st[p].base) \subseteq Lists(st'[Other(p)].local)
    <3>1. /\ Opt[p].deletes => Lists(st[p].base) \subseteq Lists(st[Other(p)].local)
          /\ Lists(st[Other(p)].local) \subseteq Lists(st'[Other(p)].local)
      BY <1>0 DEF Growing, Below
    <3> QED BY <3>1
  <2>3. Lists(NoFiles) = {}
    BY DEF Lists, NoFiles
  <2>4. <<>> \in Seq(Message) /\ \A i \in 1..Len(<<>>) : FALSE
    OBVIOUS
  <2>5. /\ Rising(<<>>, Lists(st'[Other(p)].local))
        /\ \A S : S \subseteq Lists(st'[Other(p)].local) => Below(S, <<>>, Lists(st'[Other(p)].local))
    BY <2>4 DEF Rising, Below
  <2>6. Opt[p].deletes => Lists(st'[p].base) \subseteq Lists(st'[Other(p)].local)
    BY <2>1, <2>2, <2>3
  <2>7. /\ Rising(chan'[p], Lists(st'[Other(p)].local))
        /\ Opt[p].deletes => Below(Lists(st'[p].base), chan'[p], Lists(st'[Other(p)].local))
    BY <2>1, <2>5, <2>6
  <2> QED BY <2>1, <2>7 DEF Growing
<1>3. ASSUME Connects, NEW p \in Peer PROVE Growing(p)'
  <2>1. chan'[p] = <<Hello>> /\ st' = st
    BY <1>3 DEF Connects
  <2>2. <<Hello>> \in Seq(Message) /\ \A i \in 1..Len(<<Hello>>) : <<Hello>>[i].op # "ManifestUpdate"
    BY MessageTypes DEF Hello
  <2>3. /\ Rising(<<Hello>>, Lists(st[Other(p)].local))
        /\ \A S : S \subseteq Lists(st[Other(p)].local) => Below(S, <<Hello>>, Lists(st[Other(p)].local))
    BY <2>2, SilentRises
  <2>4. /\ st[p].remote # Unknown => Lists(st[p].remote) \subseteq Lists(st[Other(p)].local)
        /\ Opt[p].deletes =>
              /\ Lists(st[p].base) \subseteq Lists(st[Other(p)].local)
              /\ st[p].remote # Unknown => Lists(st[p].base) \subseteq Lists(st[p].remote)
    BY DEF Growing, Below
  <2> QED BY <2>1, <2>3, <2>4 DEF Growing
<1>4. ASSUME Keeps PROVE \A x \in Peer : Growing(x)'
  BY <1>4 DEF Keeps, Growing
<1> QED BY <1>1, <1>2, <1>3, <1>4, Steps

\* A step that has not deleted or missed anything follows on none that has.
LEMMA CalmSteps ==
    ASSUME TypeOK, [Next]_vars, deletes' = 0, misses' = 0
    PROVE  /\ deletes = 0 /\ misses = 0
           /\ \A p \in Peer, f \in Path : ~Delete(p, f)
           /\ \A p \in Peer, missed \in SUBSET Path : Missed(p, missed) => missed = {}
<1>0. deletes \in Nat /\ misses \in 0..MaxMisses
  BY PairAssumption DEF TypeOK
<1>1. \A p \in Peer, missed \in SUBSET Path : Missed(p, missed) => misses = 0 /\ missed = {}
  BY <1>0, MissedCounts
<1>2. \A p \in Peer, f \in Path : ~Delete(p, f)
  BY <1>0 DEF Delete
<1>3. ASSUME NEW p \in Peer, (\E f \in Path : Edit(p, f)) PROVE deletes = 0 /\ misses = 0
  BY <1>3 DEF Edit
<1>4. ASSUME NEW p \in Peer, Scan(p) PROVE deletes = 0 /\ misses = 0
  BY <1>1, <1>4 DEF Scan, Walk, Publish, counts
<1>5. ASSUME NEW p \in Peer, Receive(p) PROVE deletes = 0 /\ misses = 0
  <2>1. CASE RecvFile(p)
    <3>1. Head(chan[p]).path \in Path
      BY <2>1, RecvFileTalks
    <3>2. misses' = misses \/ Missed(p, {Head(chan[p]).path})
      BY <2>1 DEF RecvFile
    <3>3. deletes' = deletes
      BY <2>1 DEF RecvFile
    <3> QED BY <1>1, <3>1, <3>2, <3>3
  <2>2. CASE ~RecvFile(p)
    <3>1. UNCHANGED counts
      BY <1>5, <2>2 DEF Receive, RecvHello, RecvUpdate, RecvRequest, RecvNotFound
    <3> QED BY <3>1 DEF counts
  <2> QED BY <2>1, <2>2
<1>6. ASSUME NEW p \in Peer, SendRequest(p) \/ Serve(p) \/ (\E t \in Thread : Execute(p, t))
      PROVE  deletes = 0 /\ misses = 0
  BY <1>6 DEF SendRequest, Serve, Execute, counts
<1>7. ASSUME NEW p \in Peer, Crash(p) PROVE deletes = 0 /\ misses = 0
  BY <1>1, <1>7 DEF Crash
<1>8. Connect \/ Drop \/ UNCHANGED vars => deletes = 0 /\ misses = 0
  BY DEF Connect, Drop, vars, counts
<1> QED BY <1>1, <1>2, <1>3, <1>4, <1>5, <1>6, <1>7, <1>8 DEF Next, User, System

\* The step loses no path of the trees and files of x, and leaves the trees covered.
LosesNothing(x) ==
    /\ Lists(st[x].local) \subseteq Lists(st'[x].local)
    /\ Lists(disk[x]) \subseteq Lists(disk'[x])
    /\ Lists(st'[x].local) \subseteq Lists(disk'[x])
    /\ walk'[x].on => /\ Lists(walk'[x].before) \subseteq Lists(walk'[x].fresh)
                      /\ Lists(walk'[x].fresh) \subseteq Lists(disk'[x])

LEMMA OnlyFilesCome ==
    ASSUME NEW x \in Peer, Covered(x), st'[x].local = st[x].local,
           Lists(disk[x]) \subseteq Lists(disk'[x]), walk'[x] = walk[x] \/ walk'[x] = NoWalk
    PROVE  LosesNothing(x)
BY DEF Covered, LosesNothing, NoWalk

LEMMA OthersKept ==
    ASSUME TypeOK, NEW p \in Peer, NEW r, Talks(p, r), NEW x \in Peer, x # p,
           Covered(x), disk'[x] = disk[x], walk'[x] = walk[x]
    PROVE  LosesNothing(x)
<1>1. st'[x] = st[x]
  BY DEF Talks, TypeOK
<1> QED BY <1>1, OnlyFilesCome

LEMMA FilesKept ==
    ASSUME TypeOK, \A p \in Peer : Covered(p), [Next]_vars, deletes' = 0, misses' = 0
    PROVE  \A p \in Peer : LosesNothing(p)
<1>0. /\ \A p \in Peer, f \in Path : ~Delete(p, f)
      /\ \A p \in Peer, missed \in SUBSET Path : Missed(p, missed) => missed = {}
  BY CalmSteps
<1>a. /\ st \in [Peer -> Service] /\ disk \in [Peer -> Manifest]
      /\ walk \in [Peer -> [before : Manifest, fresh : Manifest, on : BOOLEAN]]
  BY DEF TypeOK
<1>b. \A t \in Manifest : Unlinked(t, {}) = t
  BY DEF Unlinked, Manifest
<1>c. \A x \in Peer : st[x].local \in Manifest /\ disk[x] \in Manifest
  BY <1>a DEF Service
<1>1. ASSUME NEW p \in Peer, NEW f \in Path, Edit(p, f), NEW x \in Peer PROVE LosesNothing(x)
  <2> DEFINE m == [hash |-> edits', mtime |-> MTimeOf[edits']]
  <2>1. m # Absent
    <3>1. edits' \in 1..MaxEdits
      <4>1. edits \in Nat /\ edits < MaxEdits /\ edits' = edits + 1
        BY <1>1 DEF Edit, TypeOK
      <4> QED BY ONLY <4>1, PairAssumption
    <3>2. edits' \in Hash
      BY <3>1, PairAssumption
    <3>3. m \in FileMeta
      BY <3>2, PairAssumption DEF FileMeta
    <3> QED BY <3>3, ContentAssumption
  <2>2. disk' = [disk EXCEPT ![p][f] = m] /\ UNCHANGED <<st, walk>>
    BY <1>1 DEF Edit
  <2> HIDE DEF m
  <2>3. Lists(disk[x]) \subseteq Lists(disk'[x])
    BY <1>a, <2>1, <2>2 DEF Lists, Manifest
  <2> QED BY <2>2, <2>3, OnlyFilesCome
<1>2. ASSUME NEW p \in Peer, Walk(p), NEW x \in Peer PROVE LosesNothing(x)
  <2>1. UNCHANGED <<st, disk>>
    BY <1>2 DEF Walk
  <2>2. PICK missed \in SUBSET Path :
           /\ Missed(p, missed)
           /\ walk' = [walk EXCEPT ![p] = [before |-> st[p].local, on |-> TRUE,
                                           fresh |-> Scanned(p, missed)]]
    BY <1>2 DEF Walk
  <2>3. missed = {}
    BY <1>0, <2>2
  <2>4. CASE x = p
    <3>1. /\ walk'[x].before = st[x].local /\ walk'[x].fresh = Scanned(x, {})
      BY <1>a, <2>2, <2>3, <2>4
    <3>2. Lists(Scanned(x, {})) = Lists(disk[x])
      BY DEF Lists, Scanned, Observe
    <3> QED BY <2>1, <3>1, <3>2 DEF LosesNothing, Covered
  <2>5. CASE x # p
    <3>1. walk'[x] = walk[x]
      BY <1>a, <2>2, <2>5
    <3> QED BY <2>1, <3>1, OnlyFilesCome
  <2> QED BY <2>4, <2>5
<1>3. ASSUME NEW p \in Peer, Publish(p), NEW x \in Peer PROVE LosesNothing(x)
  <2>1. PICK r : /\ Talks(p, r)
                 /\ r.s.local = [f \in Path |-> IF walk[p].fresh[f] # walk[p].before[f]
                                                THEN walk[p].fresh[f] ELSE st[p].local[f]]
    BY <1>3, PublishTalks
  <2>2. disk' = disk /\ walk' = [walk EXCEPT ![p] = NoWalk] /\ walk[p].on
    BY <1>3 DEF Publish
  <2>3. CASE x = p
    <3>1. st'[x].local = r.s.local /\ walk'[x] = NoWalk
      BY <1>a, <2>1, <2>2, <2>3 DEF Talks
    <3>2. /\ Lists(st[x].local) \subseteq Lists(disk[x])
          /\ Lists(walk[x].before) \subseteq Lists(walk[x].fresh)
          /\ Lists(walk[x].fresh) \subseteq Lists(disk[x])
      BY <2>2, <2>3 DEF Covered
    <3>3. /\ Lists(st[x].local) \subseteq Lists(r.s.local)
          /\ Lists(r.s.local) \subseteq Lists(disk[x])
      BY <2>1, <2>3, <3>2 DEF Lists
    <3> QED BY <2>2, <3>1, <3>3 DEF LosesNothing, NoWalk
  <2>4. CASE x # p
    BY <1>a, <2>1, <2>2, <2>4, OthersKept
  <2> QED BY <2>3, <2>4
<1>4. ASSUME NEW p \in Peer, NEW t \in Thread, Execute(p, t), NEW x \in Peer PROVE LosesNothing(x)
  <2>1. PICK r : /\ Talks(p, r)
                 /\ \E removed \in SUBSET todo[p][t].delete_local :
                       /\ r.s.local = Unlinked(st[p].local, removed)
                       /\ disk' = [disk EXCEPT ![p] = Unlinked(@, removed)]
                       /\ Leaves(p, (todo[p][t].delete_local \ removed)
                                       \union (removed \ Decided(p, st[p]).delete_local))
    BY <1>4, ExecuteTalks
  <2>2. todo[p][t].delete_local = {}
    BY DEF Covered
  <2>3. r.s.local = Unlinked(st[p].local, {}) /\ disk' = [disk EXCEPT ![p] = Unlinked(@, {})]
    BY <2>1, <2>2
  <2>4. walk' = walk
    BY <1>4 DEF Execute
  <2>5. r.s.local = st[p].local /\ disk' = disk
    BY <1>a, <1>b, <1>c, <2>3
  <2>6. st'[x].local = st[x].local
    BY <1>a, <2>1, <2>5 DEF Talks
  <2> QED BY <2>4, <2>5, <2>6, OnlyFilesCome
<1>5. ASSUME NEW p \in Peer, RecvFile(p), NEW x \in Peer PROVE LosesNothing(x)
  <2> DEFINE m == Head(chan[p])
  <2>1. PICK r : /\ Talks(p, r)
                 /\ m.path \in Path /\ m.meta \in FileMeta
                 /\ \/ /\ r.s.local = [st[p].local EXCEPT ![m.path] = m.meta]
                       /\ disk' = [disk EXCEPT ![p] = Replaced(@, m.path, m.meta)]
                    \/ r.s.local = st[p].local /\ disk' = disk
                    \/ /\ r.s.local = st[p].local /\ Missed(p, {m.path})
                       /\ disk' = [disk EXCEPT ![p] = Unlinked(@, {m.path})]
    BY <1>5, RecvFileTalks
  <2>2. walk' = walk
    BY <1>5 DEF RecvFile
  <2>3. ~Missed(p, {m.path})
    BY <1>0, <2>1
  <2>4. m.meta # Absent
    BY <2>1, ContentAssumption
  <2> HIDE DEF m
  <2>5. CASE x # p
    BY <1>a, <2>1, <2>2, <2>3, <2>5, OthersKept
  <2>6. CASE x = p
    <3>1. st'[p].local = r.s.local
      BY <1>a, <2>1 DEF Talks
    <3>2. CASE r.s.local = st[p].local /\ disk' = disk
      BY <2>2, <2>6, <3>1, <3>2, OnlyFilesCome
    <3>3. CASE /\ r.s.local = [st[p].local EXCEPT ![m.path] = m.meta]
               /\ disk' = [disk EXCEPT ![p] = Replaced(@, m.path, m.meta)]
      <4>1. disk'[p] = [disk[p] EXCEPT ![m.path] = m.meta]
        BY <1>a, <3>3 DEF Replaced
      <4>2. /\ Lists(st'[p].local) = Lists(st[p].local) \union {m.path}
            /\ Lists(disk'[p]) = Lists(disk[p]) \union {m.path}
        BY <1>c, <2>1, <2>4, <3>1, <3>3, <4>1 DEF Lists, Manifest
      <4>3. /\ Lists(st[p].local) \subseteq Lists(disk[p])
            /\ walk[p].on => /\ Lists(walk[p].before) \subseteq Lists(walk[p].fresh)
                             /\ Lists(walk[p].fresh) \subseteq Lists(disk[p])
        BY DEF Covered
      <4>4. LosesNothing(p)
        BY <2>2, <4>2, <4>3 DEF LosesNothing
      <4> QED BY <2>6, <4>4
    <3> QED BY <2>1, <2>3, <3>2, <3>3
  <2> QED BY <2>5, <2>6
<1>6. ASSUME NEW p \in Peer, NEW x \in Peer,
             \/ RecvHello(p) \/ RecvUpdate(p) \/ RecvRequest(p) \/ RecvNotFound(p)
             \/ SendRequest(p) \/ Serve(p)
      PROVE  LosesNothing(x)
  <2>1. UNCHANGED <<disk, walk>>
    BY <1>6 DEF RecvHello, RecvUpdate, RecvRequest, RecvNotFound, SendRequest, Serve
  <2>2. PICK r : Talks(p, r) /\ r.s.local = st[p].local
    BY <1>6, RecvHelloTalks, RecvUpdateTalks, RecvRequestTalks, RecvNotFoundTalks,
       SendRequestTalks, ServeTalks
  <2>3. st'[x].local = st[x].local
    BY <1>a, <2>2 DEF Talks
  <2> QED BY <2>1, <2>3, OnlyFilesCome
<1>7. ASSUME NEW p \in Peer, Crash(p), NEW x \in Peer PROVE LosesNothing(x)
  <2>1. PICK missed \in SUBSET Path : Missed(p, missed) /\ st'[p].local = Unlinked(disk[p], missed)
    BY <1>7, CrashResets
  <2>2. st'[p].local = disk[p]
    BY <1>0, <1>b, <1>c, <2>1
  <2>3. disk' = disk /\ walk' = [walk EXCEPT ![p] = NoWalk]
    BY <1>7 DEF Crash
  <2>4. CASE x = p
    <3>1. walk'[x] = NoWalk
      BY <1>a, <2>3, <2>4
    <3> QED BY <2>2, <2>3, <2>4, <3>1 DEF LosesNothing, Covered, NoWalk
  <2>5. CASE x # p
    <3>1. walk'[x] = walk[x] /\ st'[x].local = st[x].local
      BY <1>7, <1>a, <2>3, <2>5, CrashResets
    <3> QED BY <2>3, <3>1, OnlyFilesCome
  <2> QED BY <2>4, <2>5
<1>8. ASSUME Connect \/ Drop \/ UNCHANGED vars, NEW x \in Peer PROVE LosesNothing(x)
  <2>1. UNCHANGED <<disk, walk>>
    BY <1>8 DEF Connect, Drop, vars
  <2>2. st'[x].local = st[x].local
    BY <1>8, DropResets DEF Connect, vars
  <2> QED BY <2>1, <2>2, OnlyFilesCome
<1> QED BY <1>0, <1>1, <1>2, <1>3, <1>4, <1>5, <1>6, <1>7, <1>8 DEF Next, User, System, Scan, Receive

LEMMA NoDeletesPlanned ==
    ASSUME KeepsFiles, TypeOK, \A p \in Peer : Covered(p), \A p \in Peer : Growing(p)', [Next]_vars
    PROVE  \A p \in Peer, t \in Thread : todo'[p][t].delete_local = {}
<1>0. /\ \A p \in Peer, t \in Thread : todo[p][t].delete_local = {}
      /\ st \in [Peer -> Service] /\ NoPlan.delete_local = {}
      /\ todo \in [Peer -> [Thread -> PlanOf]]
  BY DEF Covered, TypeOK, NoPlan, PlanOf
<1>1. \A p \in Peer : Decided(p, st'[p]).delete_local = {}
  BY DecidesNoDelete DEF Growing
<1>2. ASSUME NEW p \in Peer, NEW u \in Thread, NEW pl, pl.delete_local = {},
             todo' = [todo EXCEPT ![p][u] = pl]
      PROVE  \A x \in Peer, t \in Thread : todo'[x][t].delete_local = {}
  BY <1>0, <1>2
<1>3. ASSUME NEW p \in Peer, Publish(p)
      PROVE  \A x \in Peer, t \in Thread : todo'[x][t].delete_local = {}
  <2>1. PICK r : /\ Talks(p, r)
                 /\ todo' = [todo EXCEPT ![p]["daemon"] = IF r.s.session THEN Decided(p, r.s) ELSE NoPlan]
    BY <1>3, PublishTalks
  <2>2. r.s = st'[p]
    BY <1>0, <2>1 DEF Talks
  <2>3. (IF r.s.session THEN Decided(p, r.s) ELSE NoPlan).delete_local = {}
    BY <1>0, <1>1, <2>2
  <2> QED BY <1>2, <2>1, <2>3 DEF Thread
<1>4. ASSUME NEW p \in Peer, RecvUpdate(p)
      PROVE  \A x \in Peer, t \in Thread : todo'[x][t].delete_local = {}
  <2>1. PICK r : Talks(p, r) /\ todo' = [todo EXCEPT ![p]["reactor"] = Decided(p, r.s)]
    BY <1>4, RecvUpdateTalks
  <2>2. r.s = st'[p]
    BY <1>0, <2>1 DEF Talks
  <2> QED BY <1>1, <1>2, <2>1, <2>2 DEF Thread
<1>5. ASSUME NEW p \in Peer, NEW u \in Thread, Execute(p, u)
      PROVE  \A x \in Peer, t \in Thread : todo'[x][t].delete_local = {}
  BY <1>0, <1>2, <1>5 DEF Execute
<1>6. ASSUME NEW p \in Peer, Crash(p)
      PROVE  \A x \in Peer, t \in Thread : todo'[x][t].delete_local = {}
  BY <1>0, <1>6 DEF Crash
<1>7. ASSUME NEW p \in Peer,
             \/ User(p) \/ Walk(p) \/ RecvHello(p) \/ RecvRequest(p) \/ RecvFile(p)
             \/ RecvNotFound(p) \/ SendRequest(p) \/ Serve(p)
      PROVE  UNCHANGED todo
  BY <1>7 DEF User, Edit, Delete, Walk, RecvHello, RecvRequest, RecvFile, RecvNotFound,
              SendRequest, Serve
<1>8. Connect \/ Drop \/ UNCHANGED vars => UNCHANGED todo
  BY DEF Connect, Drop, vars
<1> QED BY <1>0, <1>3, <1>4, <1>5, <1>6, <1>7, <1>8 DEF Next, System, Scan, Receive

LEMMA GrownKept ==
    ASSUME KeepsFiles, TypeOK, Grown, [Next]_vars
    PROVE  /\ Grown'
           /\ deletes' = 0 /\ misses' = 0 => \A p \in Peer : Lists(disk[p]) \subseteq Lists(disk'[p])
<1> SUFFICES ASSUME deletes' = 0, misses' = 0
             PROVE  /\ \A p \in Peer : (Growing(p) /\ Covered(p))'
                    /\ \A p \in Peer : Lists(disk[p]) \subseteq Lists(disk'[p])
  BY DEF Grown
<1>1. \A p \in Peer : Growing(p) /\ Covered(p)
  BY CalmSteps DEF Grown
<1>2. \A p \in Peer : LosesNothing(p)
  BY <1>1, FilesKept
<1>3. \A p \in Peer : Growing(p)'
  BY <1>1, <1>2, GrowingKept DEF LosesNothing
<1>4. \A p \in Peer, t \in Thread : todo'[p][t].delete_local = {}
  BY <1>1, <1>3, NoDeletesPlanned
<1>5. \A p \in Peer : Covered(p)'
  BY <1>2, <1>4 DEF LosesNothing, Covered
<1> QED BY <1>2, <1>3, <1>5 DEF LosesNothing

\* NothingVanishes holds for every number of edits, lost connections, crashes and failing
\* file operations, except between peers of which one mirrors the other and deletes what
\* the other lacks.  Every tree a peer knows of, baseline included, lists at most what the
\* trees that follow it list: no plan then finds a file that the other has removed.
THEOREM NoFileVanishes ==
    ASSUME KeepsFiles
    PROVE  Spec => NothingVanishes
<1>1. Init => TypeOK /\ Grown
  <2> SUFFICES ASSUME Init PROVE TypeOK /\ Grown
    OBVIOUS
  <2>1. \A p \in Peer : /\ chan[p] = <<>> /\ disk[p] = NoFiles /\ walk[p] = NoWalk
                        /\ st[p].local = NoFiles /\ st[p].base = NoFiles
                        /\ st[p].remote = Unknown /\ Other(p) \in Peer
                        /\ \A t \in Thread : todo[p][t] = NoPlan
    BY PeerFacts DEF Init, NewService
  <2>2. Lists(NoFiles) = {}
    BY DEF Lists, NoFiles
  <2>3. \A top : Rising(<<>>, top) /\ Below({}, <<>>, top)
    <3>1. \A i \in 1..Len(<<>>) : FALSE
      OBVIOUS
    <3> QED BY <3>1 DEF Rising, Below
  <2>4. \A p \in Peer : Growing(p)
    BY <2>1, <2>2, <2>3 DEF Growing
  <2>5. \A p \in Peer : Covered(p)
    BY <2>1, <2>2 DEF Covered, NoWalk, NoPlan
  <2> QED BY <2>4, <2>5, InitTypes DEF Grown
<1>2. (TypeOK /\ Grown) /\ [Next]_vars => (TypeOK /\ Grown)'
  BY TypesKept, GrownKept
<1>3. (TypeOK /\ Grown) /\ [Next]_vars =>
         [deletes' = 0 /\ misses' = 0 => \A p \in Peer, f \in Path :
             disk[p][f] # Absent => disk'[p][f] # Absent]_vars
  BY GrownKept DEF Lists
<1> QED BY <1>1, <1>2, <1>3, PTL DEF Spec, NothingVanishes

-----------------------------------------------------------------------------
(* The convergence check.                                                  *)

\* A tree counts as synced only if it is the baseline; a verdict that stands is that
\* something is left to do, or that the tree is the baseline.
Noted(s) == s.last_synced # Unknown => SameTree(s.last_synced, s.base)

Judged(p, s) ==
    s.last_eval_valid /\ s.remote # Unknown =>
        \/ ~EmptyPlan(PlanFor(s.base, s.local, s.remote, Opt[p]))
        \/ SameTree(s.base, s.local)

\* A peer with nothing on its hands has looked.
Looked(s) == s.remote # Unknown /\ ~Busy(s) => s.last_eval_valid \/ SameTree(s.base, s.local)

\* Before its session a peer knows nothing of the other, and the first it hears is a Hello.
Greeting(p) ==
    ~st[p].session => /\ st[p].remote = Unknown
                      /\ IF linked THEN chan[p] # <<>> /\ Head(chan[p]) = Hello
                         ELSE chan[p] = <<>>

Checked(p) == /\ Noted(st[p]) /\ Judged(p, st[p]) /\ Greeting(p)
              /\ (\A t \in Thread : ~todo[p][t].due) => Looked(st[p])

\* All that is said on the way of saying m are updates.
Carries(d, m) == \A i \in 1..Len(d) : d[i].op = "ManifestUpdate" \/ (i = 1 /\ d[i] = m)

LEMMA SameTreeFacts ==
    /\ \A t : SameTree(t, t)
    /\ \A t, u : SameTree(t, u) => SameTree(u, t)
    /\ \A t, u, v : SameTree(t, u) /\ SameTree(u, v) => SameTree(t, v)
BY DEF SameTree, SameEntry, SameContent

LEMMA CarriesMore ==
    ASSUME NEW d \in Seq(Message), NEW m, Carries(d, m), NEW t \in Manifest
    PROVE  Append(d, Update(t)) \in Seq(Message) /\ Carries(Append(d, Update(t)), m)
<1> DEFINE u == Update(t)
<1>1. u \in Message /\ u.op = "ManifestUpdate"
  BY MessageTypes
<1> HIDE DEF u
<1>2. Append(d, u) \in Seq(Message) /\ Len(Append(d, u)) = Len(d) + 1 /\ Len(d) \in Nat
  BY <1>1
<1>3. ASSUME NEW i \in 1..Len(Append(d, u))
      PROVE  Append(d, u)[i].op = "ManifestUpdate" \/ (i = 1 /\ Append(d, u)[i] = m)
  <2>1. CASE i = Len(d) + 1
    BY <1>1, <2>1
  <2>2. CASE i # Len(d) + 1
    <3>1. i \in 1..Len(d) /\ Append(d, u)[i] = d[i]
      BY <1>1, <1>2, <2>2
    <3> QED BY <3>1 DEF Carries
  <2> QED BY <2>1, <2>2
<1> QED BY <1>2, <1>3 DEF Carries, u

LEMMA AdvertiseLooks ==
    ASSUME NEW r, r.s \in Service, r.out \in Seq(Message), NEW m, Carries(r.out, m)
    PROVE  LET a == Advertise(r)
           IN  /\ a.s \in Service /\ a.out \in Seq(Message) /\ Carries(a.out, m)
               /\ SameWork(r.s, a.s) /\ a.s.base = r.s.base
               /\ a.s.last_eval_valid = r.s.last_eval_valid /\ a.s.last_synced = r.s.last_synced
<1> DEFINE t == [r.s EXCEPT !.advertise_pending = FALSE, !.last_sent = r.s.local]
           o == IF r.s.last_sent = r.s.local THEN r.out ELSE Append(r.out, Update(r.s.local))
<1>1. /\ t \in Service /\ SameWork(r.s, t) /\ t.base = r.s.base
      /\ t.last_eval_valid = r.s.last_eval_valid /\ t.last_synced = r.s.last_synced
  BY DEF Service, SameWork
<1>2. Advertise(r) = Result(t, o)
  BY DEF Advertise
<1>3. o \in Seq(Message) /\ Carries(o, m)
  BY CarriesMore DEF Service
<1> HIDE DEF t, o
<1> QED BY <1>1, <1>2, <1>3, ResultFields

LEMMA EvaluateLooks ==
    ASSUME NEW p, NEW r, r.s \in Service, r.s.remote # Unknown, Opt[p].mode = "TwoWay",
           Noted(r.s)
    PROVE  LET e == Evaluate(p, r)
           IN  /\ e.out = r.out /\ SameWork(r.s, e.s)
               /\ Noted(e.s) /\ Judged(p, e.s) /\ Looked(e.s)
<1> DEFINE e == Evaluate(p, r)
           v == [r.s EXCEPT !.last_eval_valid = TRUE]
           y == [v EXCEPT !.last_synced = v.local]
<1>1. /\ SameWork(r.s, v) /\ v.base = r.s.base /\ v.last_synced = r.s.last_synced
      /\ v.last_eval_valid = TRUE /\ v.local = r.s.local /\ v.remote = r.s.remote
  BY DEF Service, SameWork
<1>2. /\ SameWork(r.s, Record(y)) /\ Record(y).base = r.s.local /\ Record(y).local = r.s.local
      /\ Record(y).last_synced = r.s.local /\ Record(y).last_eval_valid = FALSE
  BY DEF Service, SameWork, Record
<1>3. \/ /\ e = Result(v, r.out)
         /\ ~EmptyPlan(PlanFor(v.base, v.local, v.remote, Opt[p]))
      \/ /\ e = Result(v, r.out)
         /\ v.last_synced # Unknown /\ SameTree(v.last_synced, v.local)
      \/ e = Result(Record(y), r.out)
  BY DEF Evaluate
<1> HIDE DEF e, v, y
<1>4. CASE /\ e = Result(v, r.out)
           /\ ~EmptyPlan(PlanFor(v.base, v.local, v.remote, Opt[p]))
  <2>1. e.s = v /\ e.out = r.out
    BY <1>4, ResultFields
  <2>2. Noted(v)
    BY <1>1 DEF Noted
  <2>3. Judged(p, v) /\ Looked(v)
    BY <1>1, <1>4 DEF Judged, Looked
  <2> QED BY <1>1, <2>1, <2>2, <2>3 DEF e
<1>5. CASE e = Result(v, r.out) /\ v.last_synced # Unknown /\ SameTree(v.last_synced, v.local)
  <2>1. e.s = v /\ e.out = r.out
    BY <1>5, ResultFields
  <2>2. Noted(v)
    BY <1>1 DEF Noted
  <2>3. SameTree(v.last_synced, v.base)
    BY <1>5, <2>2 DEF Noted
  <2>4. SameTree(v.base, v.local)
    BY <1>5, <2>3, SameTreeFacts
  <2>5. Judged(p, v) /\ Looked(v)
    BY <1>1, <2>4 DEF Judged, Looked
  <2> QED BY <1>1, <2>1, <2>2, <2>5 DEF e
<1>6. CASE e = Result(Record(y), r.out)
  <2> DEFINE z == Record(y)
  <2>1. e.s = z /\ e.out = r.out
    BY <1>6, ResultFields
  <2>2. z.last_synced = z.base /\ z.base = z.local /\ z.last_eval_valid = FALSE
        /\ SameWork(r.s, z)
    BY <1>2
  <2> HIDE DEF z
  <2>3. Noted(z) /\ Judged(p, z) /\ Looked(z)
    BY <2>2, SameTreeFacts DEF Noted, Judged, Looked
  <2> QED BY <2>1, <2>2, <2>3 DEF e
<1> QED BY <1>3, <1>4, <1>5, <1>6

LEMMA MaybeSyncedLooks ==
    ASSUME NEW p, NEW r, r.s \in Service, r.out \in Seq(Message), NEW m, Carries(r.out, m)
    PROVE  LET y == MaybeSynced(p, r)
           IN  /\ y.out \in Seq(Message) /\ Carries(y.out, m)
               /\ Opt[p].mode = "TwoWay" /\ Noted(r.s) /\ Judged(p, r.s) =>
                     Noted(y.s) /\ Judged(p, y.s) /\ Looked(y.s)
<1> DEFINE y == MaybeSynced(p, r)
           g == IF r.s.advertise_pending THEN Advertise(r) ELSE r
<1>1. CASE Busy(r.s)
  <2> DEFINE t == [r.s EXCEPT !.last_eval_valid = FALSE]
  <2>1. /\ SameWork(r.s, t) /\ t.base = r.s.base /\ t.last_synced = r.s.last_synced
        /\ t.last_eval_valid = FALSE /\ Busy(t)
    BY <1>1 DEF Service, SameWork, Busy
  <2>2. y = Result(t, r.out)
    BY <1>1 DEF MaybeSynced
  <2> HIDE DEF t, y
  <2>3. Noted(r.s) => Noted(t) /\ Judged(p, t) /\ Looked(t)
    BY <2>1 DEF Noted, Judged, Looked
  <2> QED BY <2>1, <2>2, <2>3, ResultFields DEF y
<1>2. CASE ~Busy(r.s)
  <2>1. /\ g.s \in Service /\ g.out \in Seq(Message) /\ Carries(g.out, m)
        /\ SameWork(r.s, g.s) /\ g.s.base = r.s.base
        /\ g.s.last_eval_valid = r.s.last_eval_valid /\ g.s.last_synced = r.s.last_synced
    <3>1. CASE r.s.advertise_pending
      BY <3>1, AdvertiseLooks
    <3>2. CASE ~r.s.advertise_pending
      BY <3>2 DEF SameWork
    <3> QED BY <3>1, <3>2
  <2>2. \/ y = g /\ (g.s.remote = Unknown \/ g.s.last_eval_valid)
        \/ y = Evaluate(p, g) /\ g.s.remote # Unknown
    BY <1>2 DEF MaybeSynced
  <2>3. (Noted(r.s) => Noted(g.s)) /\ (Judged(p, r.s) => Judged(p, g.s))
    BY <2>1 DEF Noted, Judged, SameWork
  <2> HIDE DEF g, y
  <2>4. CASE y = g /\ (g.s.remote = Unknown \/ g.s.last_eval_valid)
    BY <2>1, <2>3, <2>4 DEF Looked, y
  <2>5. CASE y = Evaluate(p, g) /\ g.s.remote # Unknown
    <3> DEFINE e == Evaluate(p, g)
    <3>1. Opt[p].mode = "TwoWay" /\ Noted(g.s) =>
              SameWork(g.s, e.s) /\ Noted(e.s) /\ Judged(p, e.s) /\ Looked(e.s)
      BY <2>1, <2>5, EvaluateLooks
    <3>2. e.out = g.out
      BY ResultFields DEF Evaluate
    <3> HIDE DEF e
    <3>3. SameWork(g.s, e.s) => SameWork(r.s, e.s)
      BY <2>1 DEF SameWork
    <3> QED BY <2>1, <2>3, <2>5, <3>1, <3>2, <3>3 DEF e, y
  <2> QED BY <2>2, <2>4, <2>5
<1> QED BY <1>1, <1>2

LEMMA CarriesNothing == \A m : <<>> \in Seq(Message) /\ Carries(<<>>, m)
BY DEF Carries

LEMMA CarriesOne == \A m \in Message : <<m>> \in Seq(Message) /\ Carries(<<m>>, m)
BY DEF Carries

\* The same of what carries out a plan.
LEMMA ActLooks ==
    ASSUME NEW p, NEW s \in Service, NEW pl, pl.pull \in SUBSET Path,
           NEW removed \in SUBSET Path
    PROVE  LET a == Act(p, s, pl, removed)
           IN  /\ a.out \in Seq(Message) /\ Carries(a.out, Hello)
               /\ a.s.pulling = s.pulling \union pl.pull
               /\ a.s.pull_queue = s.pull_queue \o SetToSeq(pl.pull \ s.pulling)
               /\ a.s.serve_q = s.serve_q
               /\ Opt[p].mode = "TwoWay" /\ Noted(s) /\ Judged(p, s) =>
                     Noted(a.s) /\ Judged(p, a.s) /\ Looked(a.s)
<1> DEFINE h == IF removed = {} THEN s ELSE SetLocal(s, Unlinked(s.local, removed))
           w == SetToSeq(pl.pull \ s.pulling)
           v == [h EXCEPT !.pulling = @ \union pl.pull, !.pull_queue = @ \o w]
           x == Result(v, <<>>)
           o == IF removed = {} THEN x ELSE Advertise(x)
<1>1. w \in Seq(Path)
  <2>1. IsFiniteSet(pl.pull \ s.pulling)
    BY PairAssumption, FS_Subset
  <2>2. w \in Seq(pl.pull \ s.pulling)
    BY <2>1, OrderingIsSeq
  <2>3. Seq(pl.pull \ s.pulling) \subseteq Seq(Path)
    OBVIOUS
  <2> QED BY <2>2, <2>3
<1>2. Unlinked(s.local, removed) \in Manifest
  <2>1. s.local \in Manifest
    BY DEF Service
  <2> QED BY <2>1 DEF Unlinked, Manifest, Entry
<1>3. /\ h \in Service /\ h.base = s.base /\ h.remote = s.remote
      /\ h.last_synced = s.last_synced
      /\ h.pulling = s.pulling /\ h.pull_queue = s.pull_queue /\ h.serve_q = s.serve_q
      /\ h = s \/ h.last_eval_valid = FALSE
  BY <1>2 DEF Service, SetLocal
<1> HIDE DEF w, h
<1>4. /\ v \in Service /\ v.base = s.base /\ v.remote = s.remote
      /\ v.last_synced = s.last_synced /\ v.local = h.local
      /\ v.pulling = s.pulling \union pl.pull /\ v.pull_queue = s.pull_queue \o w
      /\ v.serve_q = s.serve_q /\ v.last_eval_valid = h.last_eval_valid
  <2>1. h.pulling \union pl.pull \in SUBSET Path /\ h.pull_queue \o w \in Seq(Path)
    BY <1>1, <1>3 DEF Service
  <2> QED BY <1>3, <2>1 DEF Service
<1>5. Act(p, s, pl, removed) = MaybeSynced(p, o)
  BY DEF Act, h, w
<1>6. /\ Noted(s) => Noted(v)
      /\ Judged(p, s) => Judged(p, v)
  BY <1>3, <1>4 DEF Noted, Judged
<1> HIDE DEF v
<1>7. x.s = v /\ x.out = <<>>
  BY ResultFields
<1>9. x.out \in Seq(Message) /\ Carries(x.out, Hello)
  BY <1>7, CarriesNothing
<1>10. Says(v, x)
  BY <1>7, SaysNothing
<1> HIDE DEF x
<1>11. /\ o.s \in Service /\ o.out \in Seq(Message) /\ Carries(o.out, Hello) /\ Says(v, o)
       /\ SameWork(v, o.s) /\ o.s.base = v.base
       /\ o.s.last_eval_valid = v.last_eval_valid /\ o.s.last_synced = v.last_synced
  <2>1. CASE removed = {}
    BY <1>4, <1>7, <1>9, <1>10, <2>1 DEF SameWork
  <2>2. CASE removed # {}
    BY <1>4, <1>7, <1>9, <1>10, <2>2, AdvertiseLooks, AdvertiseSays
  <2> QED BY <2>1, <2>2
<1>12. (Noted(v) => Noted(o.s)) /\ (Judged(p, v) => Judged(p, o.s))
  BY <1>11 DEF Noted, Judged, SameWork
<1> HIDE DEF o
<1> DEFINE m == MaybeSynced(p, o)
<1>13. /\ m.out \in Seq(Message) /\ Carries(m.out, Hello)
       /\ Opt[p].mode = "TwoWay" /\ Noted(o.s) /\ Judged(p, o.s) =>
             Noted(m.s) /\ Judged(p, m.s) /\ Looked(m.s)
  BY <1>11, MaybeSyncedLooks
<1>14. SameWork(o.s, m.s)
  BY <1>11, MaybeSyncedSays
<1> HIDE DEF m
<1>15. m.s.pulling = v.pulling /\ m.s.pull_queue = v.pull_queue /\ m.s.serve_q = v.serve_q
  BY <1>11, <1>14 DEF SameWork
<1> QED BY <1>4, <1>5, <1>6, <1>12, <1>13, <1>15 DEF m, w

\* A step of p leaves its state as it leaves s, and what is on its way to p is c; of what
\* it says only m is not an update.
Does(p, s, c, m) ==
    /\ st'[Other(p)] = st[Other(p)]
    /\ SameWork(s, st'[p])
    /\ chan'[p] = c
    /\ \E d \in Seq(Message) : chan'[Other(p)] = chan[Other(p)] \o d /\ Carries(d, m)

\* What a step leaves of the verdict of p.
Judges(p) == Opt[p].mode = "TwoWay" /\ Noted(st[p]) /\ Judged(p, st[p]) =>
                Noted(st'[p]) /\ Judged(p, st'[p])

LEMMA BecomesDoes ==
    ASSUME NEW p \in Peer, NEW r, Becomes(p, r), TypeOK, r.out \in Seq(Message),
           NEW m, Carries(r.out, m), NEW s, SameWork(s, r.s)
    PROVE  Does(p, s, chan[p], m) /\ st'[p] = r.s
<1>1. /\ st' = [st EXCEPT ![p] = r.s]
      /\ chan' = [chan EXCEPT ![Other(p)] = @ \o r.out]
  BY DEF Becomes, States
<1>2. /\ st'[p] = r.s /\ st'[Other(p)] = st[Other(p)]
      /\ chan'[p] = chan[p] /\ chan'[Other(p)] = chan[Other(p)] \o r.out
  BY <1>1, PeerFacts DEF TypeOK
<1> QED BY <1>2 DEF Does

LEMMA HandlesDoes ==
    ASSUME NEW p \in Peer, NEW r, Handles(p, r), TypeOK, r.out \in Seq(Message),
           NEW m, Carries(r.out, m), NEW s, SameWork(s, r.s)
    PROVE  Does(p, s, Tail(chan[p]), m) /\ st'[p] = r.s
<1>1. /\ st' = [st EXCEPT ![p] = r.s]
      /\ chan' = [chan EXCEPT ![p] = Tail(@), ![Other(p)] = @ \o r.out]
  BY DEF Handles, States
<1>2. /\ st'[p] = r.s /\ st'[Other(p)] = st[Other(p)]
      /\ chan'[p] = Tail(chan[p]) /\ chan'[Other(p)] = chan[Other(p)] \o r.out
  BY <1>1, PeerFacts DEF TypeOK
<1> QED BY <1>2 DEF Does

LEMMA PublishDoes ==
    ASSUME TypeOK, NEW p \in Peer, Publish(p)
    PROVE  /\ Does(p, [st[p] EXCEPT !.local = st'[p].local], chan[p], Hello)
           /\ Judges(p)
           /\ todo' = [todo EXCEPT ![p]["daemon"] =
                          IF st[p].session THEN Decided(p, st'[p]) ELSE NoPlan]
           /\ ~st[p].session => chan' = chan
<1> DEFINE t == [f \in Path |-> IF walk[p].fresh[f] # walk[p].before[f]
                                THEN walk[p].fresh[f] ELSE st[p].local[f]]
           s == SetLocal(st[p], t)
           x == Result(s, <<>>)
           r == IF s.session THEN Advertise(x) ELSE x
<1>1. st[p] \in Service /\ t \in Manifest
  BY DEF TypeOK, Service, Manifest
<1>2. /\ Becomes(p, r)
      /\ todo' = [todo EXCEPT ![p]["daemon"] = IF s.session THEN Decided(p, r.s) ELSE NoPlan]
  BY DEF Publish
<1> HIDE DEF t
<1>3. /\ s \in Service /\ s.session = st[p].session /\ s.last_eval_valid = FALSE
      /\ s.base = st[p].base /\ s.last_synced = st[p].last_synced
      /\ s = [st[p] EXCEPT !.local = t, !.last_eval_valid = FALSE]
  BY <1>1 DEF SetLocal, Service
<1>4. x.s = s /\ x.out = <<>>
  BY ResultFields
<1> HIDE DEF s, x
<1>5. /\ r.out \in Seq(Message) /\ Carries(r.out, Hello) /\ SameWork(s, r.s)
      /\ r.s.base = s.base
      /\ r.s.last_eval_valid = FALSE /\ r.s.last_synced = s.last_synced
      /\ ~s.session => r.out = <<>>
  <2>1. CASE s.session
    BY <1>3, <1>4, <2>1, AdvertiseLooks, CarriesNothing
  <2>2. CASE ~s.session
    BY <1>3, <1>4, <2>2, CarriesNothing DEF SameWork
  <2> QED BY <2>1, <2>2
<1> HIDE DEF r
<1>6. st'[p] = r.s
  BY <1>2, <1>5, BecomesDoes
<1>7. SameWork([st[p] EXCEPT !.local = st'[p].local], r.s)
  <2>1. r.s.local = t
    BY <1>1, <1>3, <1>5 DEF SameWork, Service
  <2> DEFINE y == [st[p] EXCEPT !.local = t]
  <2>2. SameWork(y, s)
    BY <1>1, <1>3 DEF SameWork, Service
  <2> HIDE DEF y
  <2>3. SameWork(y, r.s)
    BY <1>5, <2>2 DEF SameWork
  <2> QED BY <1>6, <2>1, <2>3 DEF y
<1>8. Judges(p)
  BY <1>3, <1>5, <1>6 DEF Judges, Noted, Judged
<1>9. ASSUME ~st[p].session PROVE chan' = chan
  <2>1. chan' = [chan EXCEPT ![Other(p)] = @ \o <<>>]
    BY <1>2, <1>3, <1>5, <1>9 DEF Becomes
  <2>2. chan[Other(p)] \o <<>> = chan[Other(p)]
    BY PeerFacts DEF TypeOK
  <2> QED BY <2>1, <2>2 DEF TypeOK
<1> QED BY <1>2, <1>3, <1>5, <1>6, <1>7, <1>8, <1>9, BecomesDoes

LEMMA ExecuteDoes ==
    ASSUME TypeOK, NEW p \in Peer, NEW t \in Thread, Execute(p, t)
    PROVE  LET pull == todo[p][t].pull
           IN  /\ Does(p, [st[p] EXCEPT !.local = st'[p].local, !.pulling = @ \union pull,
                                        !.pull_queue = @ \o SetToSeq(pull \ st[p].pulling)],
                       chan[p], Hello)
               /\ Judges(p)
               /\ Opt[p].mode = "TwoWay" /\ Noted(st[p]) /\ Judged(p, st[p]) => Looked(st'[p])
               /\ todo' = [todo EXCEPT ![p][t] = NoPlan]
<1>1. PICK stuck \in SUBSET todo[p][t].delete_local :
         Becomes(p, Act(p, st[p], todo[p][t], todo[p][t].delete_local \ stuck))
  BY DEF Execute
<1> DEFINE removed == todo[p][t].delete_local \ stuck
           a == Act(p, st[p], todo[p][t], removed)
           pull == todo[p][t].pull
           q == st[p].pull_queue \o SetToSeq(pull \ st[p].pulling)
<1>2. st[p] \in Service /\ pull \in SUBSET Path /\ removed \in SUBSET Path
  BY DEF TypeOK
<1> HIDE DEF removed
<1>3. /\ a.out \in Seq(Message) /\ Carries(a.out, Hello)
      /\ a.s.pulling = st[p].pulling \union pull
      /\ a.s.pull_queue = q
      /\ a.s.serve_q = st[p].serve_q
      /\ Opt[p].mode = "TwoWay" /\ Noted(st[p]) /\ Judged(p, st[p]) =>
            Noted(a.s) /\ Judged(p, a.s) /\ Looked(a.s)
  BY <1>2, ActLooks
<1>4. a.s.remote = st[p].remote /\ a.s.session = st[p].session
  BY <1>2, ActSays
<1>5. Becomes(p, a)
  BY <1>1 DEF removed
<1> HIDE DEF a, q
<1>6. st' = [st EXCEPT ![p] = a.s]
  BY <1>5 DEF Becomes, States
<1>7. st'[p] = a.s
  BY <1>6 DEF TypeOK
<1> DEFINE s == [st[p] EXCEPT !.local = st'[p].local, !.pulling = @ \union pull, !.pull_queue = q]
<1>8. SameWork(s, a.s)
  BY <1>2, <1>3, <1>4, <1>7 DEF SameWork, Service
<1>9. s = [st[p] EXCEPT !.local = st'[p].local, !.pulling = @ \union pull,
                        !.pull_queue = @ \o SetToSeq(pull \ st[p].pulling)]
  BY <1>2 DEF q, Service
<1> HIDE DEF s
<1>10. Does(p, s, chan[p], Hello)
  BY <1>3, <1>5, <1>8, BecomesDoes
<1>11. todo' = [todo EXCEPT ![p][t] = NoPlan]
  BY DEF Execute
<1> QED BY <1>3, <1>7, <1>9, <1>10, <1>11 DEF Judges

LEMMA RecvHelloDoes ==
    ASSUME TypeOK, NEW p \in Peer, RecvHello(p)
    PROVE  /\ Does(p, [st[p] EXCEPT !.session = TRUE], Tail(chan[p]), Hello) /\ Judges(p)
           /\ Looked(st[p]) => Looked(st'[p])
<1> DEFINE s == [st[p] EXCEPT !.session = TRUE]
           x == Result(s, <<>>)
           r == Advertise(x)
<1>1. Handles(p, r)
  BY DEF RecvHello
<1>2. /\ s \in Service /\ s.local = st[p].local /\ s.base = st[p].base
      /\ s.remote = st[p].remote /\ s.last_synced = st[p].last_synced
      /\ s.pulling = st[p].pulling /\ s.serve_q = st[p].serve_q
      /\ s.last_eval_valid = st[p].last_eval_valid
  BY PeerTypes DEF Service
<1> HIDE DEF s
<1>3. x.s = s /\ x.out = <<>>
  BY ResultFields
<1> HIDE DEF x
<1>4. /\ r.out \in Seq(Message) /\ Carries(r.out, Hello) /\ SameWork(s, r.s)
      /\ r.s.base = s.base
      /\ r.s.last_eval_valid = s.last_eval_valid /\ r.s.last_synced = s.last_synced
  BY <1>2, <1>3, AdvertiseLooks, CarriesNothing
<1> HIDE DEF r
<1>5. Does(p, s, Tail(chan[p]), Hello) /\ st'[p] = r.s
  BY <1>1, <1>4, HandlesDoes
<1>6. /\ r.s.local = st[p].local /\ r.s.remote = st[p].remote /\ r.s.base = st[p].base
      /\ r.s.last_synced = st[p].last_synced /\ r.s.last_eval_valid = st[p].last_eval_valid
      /\ r.s.pulling = st[p].pulling /\ r.s.serve_q = st[p].serve_q
  BY <1>2, <1>4 DEF SameWork
<1> QED BY <1>5, <1>6 DEF s, Judges, Noted, Judged, Looked, Busy

LEMMA RecvUpdateDoes ==
    ASSUME TypeOK, NEW p \in Peer, RecvUpdate(p)
    PROVE  /\ Does(p, [st[p] EXCEPT !.remote = Head(chan[p]).tree], Tail(chan[p]), Hello)
           /\ Judges(p) /\ st'[p].remote # Unknown
           /\ st'[p].base = st[p].base
           /\ todo' = [todo EXCEPT ![p]["reactor"] = Decided(p, st'[p])]
<1> DEFINE s == [st[p] EXCEPT !.remote = Head(chan[p]).tree]
           v == [st[p] EXCEPT !.remote = Head(chan[p]).tree, !.last_eval_valid = FALSE]
           x == Result(v, <<>>)
<1>1. /\ chan[p] # <<>> /\ Head(chan[p]).op = "ManifestUpdate" /\ Handles(p, x)
      /\ todo' = [todo EXCEPT ![p]["reactor"] = Decided(p, v)]
  BY DEF RecvUpdate, Receives
<1>2. Head(chan[p]).tree \in Manifest
  BY <1>1, TailElements, MessageParts DEF TypeOK
<1>3. /\ SameWork(s, v) /\ v.base = st[p].base /\ v.last_synced = st[p].last_synced
      /\ v.last_eval_valid = FALSE /\ v.remote = Head(chan[p]).tree
  BY <1>2 DEF TypeOK, Service, SameWork
<1>4. v.remote # Unknown
  BY <1>2, <1>3, PairAssumption
<1> HIDE DEF s, v
<1>5. x.s = v /\ x.out = <<>>
  BY ResultFields
<1> HIDE DEF x
<1>6. Does(p, s, Tail(chan[p]), Hello) /\ st'[p] = v
  BY <1>1, <1>3, <1>5, HandlesDoes, CarriesNothing
<1>7. Judges(p)
  BY <1>3, <1>6 DEF Judges, Noted, Judged
<1> QED BY <1>1, <1>3, <1>4, <1>6, <1>7 DEF s

LEMMA RecvRequestDoes ==
    ASSUME TypeOK, NEW p \in Peer, RecvRequest(p)
    PROVE  /\ Does(p, [st[p] EXCEPT !.serve_q = Append(@, Head(chan[p]).path)], Tail(chan[p]), Hello)
           /\ Judges(p) /\ Looked(st'[p])
<1> DEFINE q == Append(st[p].serve_q, Head(chan[p]).path)
           s == [st[p] EXCEPT !.serve_q = q]
           x == Result(s, <<>>)
<1>1. Handles(p, x)
  BY DEF RecvRequest
<1>2. /\ SameWork(s, s) /\ s.local = st[p].local /\ s.base = st[p].base
      /\ s.remote = st[p].remote /\ s.last_synced = st[p].last_synced
      /\ s.last_eval_valid = st[p].last_eval_valid
      /\ s.serve_q = q
  BY DEF TypeOK, Service, SameWork
<1>3. q # <<>>
  <2>1. st[p].serve_q \in Seq(Path) /\ Len(st[p].serve_q) \in Nat
    BY DEF TypeOK, Service
  <2>2. Len(q) = Len(st[p].serve_q) + 1
    BY <2>1
  <2> QED BY <2>1, <2>2
<1>4. s = [st[p] EXCEPT !.serve_q = Append(@, Head(chan[p]).path)]
  BY DEF TypeOK, Service
<1> HIDE DEF s, q
<1>5. x.s = s /\ x.out = <<>>
  BY ResultFields
<1> HIDE DEF x
<1>6. Does(p, s, Tail(chan[p]), Hello) /\ st'[p] = s
  BY <1>1, <1>2, <1>5, HandlesDoes, CarriesNothing
<1> QED BY <1>2, <1>3, <1>4, <1>6 DEF Judges, Noted, Judged, Looked, Busy

\* A step that ends in a look for convergence, having become x and said x.out.
LEMMA LooksDoes ==
    ASSUME TypeOK, NEW p \in Peer, NEW x, x.s \in Service, Says(st[p], x),
           NEW m, Carries(x.out, m),
           x.s.base = st[p].base, x.s.remote = st[p].remote,
           x.s.last_synced = st[p].last_synced,
           \/ x.s.last_eval_valid = FALSE
           \/ x.s.last_eval_valid = st[p].last_eval_valid /\ x.s.local = st[p].local
    PROVE  /\ Becomes(p, MaybeSynced(p, x)) => Does(p, x.s, chan[p], m)
           /\ Handles(p, MaybeSynced(p, x)) => Does(p, x.s, Tail(chan[p]), m)
           /\ Becomes(p, MaybeSynced(p, x)) \/ Handles(p, MaybeSynced(p, x)) =>
                 /\ Judges(p)
                 /\ Opt[p].mode = "TwoWay" /\ Noted(st[p]) /\ Judged(p, st[p]) => Looked(st'[p])
<1> DEFINE y == MaybeSynced(p, x)
<1>1. x.out \in Seq(Message)
  BY DEF Says
<1>2. /\ y.out \in Seq(Message) /\ Carries(y.out, m)
      /\ Opt[p].mode = "TwoWay" /\ Noted(x.s) /\ Judged(p, x.s) =>
            Noted(y.s) /\ Judged(p, y.s) /\ Looked(y.s)
  BY <1>1, MaybeSyncedLooks
<1>3. SameWork(x.s, y.s)
  BY MaybeSyncedSays
<1>4. (Noted(st[p]) => Noted(x.s)) /\ (Judged(p, st[p]) => Judged(p, x.s))
  BY DEF Noted, Judged
<1> HIDE DEF y
<1>5. Becomes(p, y) => Does(p, x.s, chan[p], m) /\ st'[p] = y.s
  BY <1>2, <1>3, BecomesDoes
<1>6. Handles(p, y) => Does(p, x.s, Tail(chan[p]), m) /\ st'[p] = y.s
  BY <1>2, <1>3, HandlesDoes
<1> QED BY <1>2, <1>4, <1>5, <1>6 DEF Judges, y

\* A verdict after a look.
Looks(p) == /\ Judges(p)
            /\ Opt[p].mode = "TwoWay" /\ Noted(st[p]) /\ Judged(p, st[p]) => Looked(st'[p])

LEMMA RecvFileDoes ==
    ASSUME TypeOK, NEW p \in Peer, RecvFile(p)
    PROVE  /\ Does(p, [st[p] EXCEPT !.local = st'[p].local, !.pulling = @ \ {Head(chan[p]).path}],
                   Tail(chan[p]), Hello)
           /\ Looks(p)
<1> DEFINE m == Head(chan[p])
           s == [st[p] EXCEPT !.pulling = @ \ {m.path}]
           t == SetLocal([s EXCEPT !.advertise_pending = TRUE], [s.local EXCEPT ![m.path] = m.meta])
           u == [st[p] EXCEPT !.local = st'[p].local, !.pulling = @ \ {m.path}]
<1>1. chan[p] # <<>> /\ Head(chan[p]).op = "File"
  BY DEF RecvFile, Receives
<1>2. m.path \in Path /\ m.meta \in FileMeta
  BY <1>1, TailElements, MessageParts DEF TypeOK
<1>3. \/ Handles(p, MaybeSynced(p, Result(t, <<>>)))
      \/ Handles(p, MaybeSynced(p, Result(s, <<>>)))
  BY DEF RecvFile
<1> HIDE DEF m
<1>4. st[p] \in Service
  BY DEF TypeOK
<1>5. /\ s \in Service /\ s.local = st[p].local /\ s.base = st[p].base
      /\ s.remote = st[p].remote /\ s.last_sent = st[p].last_sent
      /\ s.last_synced = st[p].last_synced /\ s.last_eval_valid = st[p].last_eval_valid
      /\ s.session = st[p].session /\ s.pulling = st[p].pulling \ {m.path}
      /\ s.pull_queue = st[p].pull_queue /\ s.serve_q = st[p].serve_q
  BY <1>4 DEF Service
<1> HIDE DEF s
<1>6. /\ t \in Service /\ t.base = st[p].base
      /\ t.remote = st[p].remote /\ t.last_sent = st[p].last_sent
      /\ t.last_synced = st[p].last_synced /\ t.last_eval_valid = FALSE
      /\ t.session = st[p].session /\ t.pulling = st[p].pulling \ {m.path}
      /\ t.pull_queue = st[p].pull_queue /\ t.serve_q = st[p].serve_q
  <2>1. [s.local EXCEPT ![m.path] = m.meta] \in Manifest
    BY <1>2, <1>5 DEF Service, Manifest, Entry
  <2> QED BY <1>5, <2>1 DEF SetLocal, Service
<1> HIDE DEF t
<1>7. ASSUME NEW v, v \in {s, t}, Handles(p, MaybeSynced(p, Result(v, <<>>)))
      PROVE  Does(p, u, Tail(chan[p]), Hello) /\ Looks(p)
  <2> DEFINE x == Result(v, <<>>)
  <2>1. x.s = v /\ x.out = <<>>
    BY ResultFields
  <2>2. Says(st[p], x)
    BY <1>5, <1>6, <1>7, SaysNothing
  <2>3. Handles(p, MaybeSynced(p, x))
    BY <1>7
  <2> HIDE DEF x
  <2>4. Carries(x.out, Hello)
    BY <2>1, CarriesNothing
  <2>5. Does(p, v, Tail(chan[p]), Hello) /\ Looks(p)
    BY <1>5, <1>6, <1>7, <2>1, <2>2, <2>3, <2>4, LooksDoes DEF Looks
  <2>6. u.local = st'[p].local /\ u.remote = v.remote /\ u.session = v.session
        /\ u.pulling = v.pulling /\ u.pull_queue = v.pull_queue /\ u.serve_q = v.serve_q
    BY <1>4, <1>5, <1>6, <1>7 DEF Service
  <2> QED BY <2>5, <2>6 DEF Does, SameWork
<1> QED BY <1>3, <1>7 DEF m

LEMMA RecvNotFoundDoes ==
    ASSUME TypeOK, NEW p \in Peer, RecvNotFound(p)
    PROVE  /\ Does(p, [st[p] EXCEPT !.pulling = @ \ {Head(chan[p]).path}], Tail(chan[p]), Hello)
           /\ Looks(p)
<1> DEFINE s == [st[p] EXCEPT !.pulling = @ \ {Head(chan[p]).path}]
           x == Result(s, <<>>)
<1>1. Handles(p, MaybeSynced(p, x))
  BY DEF RecvNotFound
<1>2. /\ s \in Service /\ s.local = st[p].local /\ s.base = st[p].base
      /\ s.remote = st[p].remote /\ s.last_sent = st[p].last_sent
      /\ s.last_synced = st[p].last_synced /\ s.last_eval_valid = st[p].last_eval_valid
  BY PeerTypes DEF Service
<1> HIDE DEF s
<1>3. x.s = s /\ x.out = <<>> /\ Says(st[p], x)
  BY <1>2, SaysNothing, ResultFields
<1> HIDE DEF x
<1>4. Carries(x.out, Hello)
  BY <1>3, CarriesNothing
<1>5. Does(p, s, Tail(chan[p]), Hello) /\ Looks(p)
  BY <1>1, <1>2, <1>3, <1>4, LooksDoes DEF Looks
<1> QED BY <1>5 DEF s

LEMMA SendRequestDoes ==
    ASSUME TypeOK, NEW p \in Peer, SendRequest(p)
    PROVE  /\ Does(p, [st[p] EXCEPT !.pull_queue = Tail(@)], chan[p],
                   Request(Head(st[p].pull_queue)))
           /\ Judges(p) /\ (Looked(st[p]) => Looked(st'[p]))
<1> DEFINE s == [st[p] EXCEPT !.pull_queue = Tail(@)]
           q == Request(Head(st[p].pull_queue))
           x == Result(s, <<q>>)
<1>1. Becomes(p, x) /\ st[p].pull_queue # <<>> /\ st[p].pull_queue \in Seq(Path)
  BY DEF SendRequest, TypeOK, Service
<1>2. Head(st[p].pull_queue) \in Path
  BY <1>1
<1>3. q \in Message
  BY <1>2, MessageTypes
<1>4. /\ SameWork(s, s) /\ s.local = st[p].local /\ s.base = st[p].base
      /\ s.remote = st[p].remote /\ s.last_synced = st[p].last_synced
      /\ s.last_eval_valid = st[p].last_eval_valid
      /\ s.pulling = st[p].pulling /\ s.serve_q = st[p].serve_q
  BY DEF TypeOK, Service, SameWork
<1> HIDE DEF s, q
<1>5. x.s = s /\ x.out = <<q>>
  BY ResultFields
<1> HIDE DEF x
<1>6. Does(p, s, chan[p], q) /\ st'[p] = s
  BY <1>1, <1>3, <1>4, <1>5, BecomesDoes, CarriesOne
<1> QED BY <1>4, <1>6 DEF s, q, Judges, Noted, Judged, Looked, Busy

LEMMA ServeDoes ==
    ASSUME TypeOK, NEW p \in Peer, Serve(p)
    PROVE  LET f == Head(st[p].serve_q)
           IN  /\ Does(p, [st[p] EXCEPT !.serve_q = Tail(@)], chan[p],
                       IF disk[p][f] = Absent THEN NotFound(f) ELSE File(f, disk[p][f]))
               /\ Looks(p)
<1> DEFINE f == Head(st[p].serve_q)
           answer == IF disk[p][f] = Absent THEN NotFound(f) ELSE File(f, disk[p][f])
           s == [st[p] EXCEPT !.serve_q = Tail(@)]
           x == Result(s, <<answer>>)
<1>1. Becomes(p, MaybeSynced(p, x)) /\ st[p].serve_q # <<>> /\ st[p].serve_q \in Seq(Path)
  BY DEF Serve, TypeOK, Service
<1>2. f \in Path /\ Tail(st[p].serve_q) \in Seq(Path)
  BY <1>1
<1>3. answer \in Message /\ answer.op # "ManifestUpdate"
  <2>1. disk[p][f] \in FileMeta \/ disk[p][f] = Absent
    BY <1>2 DEF TypeOK, Manifest, Entry
  <2> QED BY <1>2, <2>1, MessageTypes
<1>4. /\ s \in Service /\ s.local = st[p].local /\ s.base = st[p].base
      /\ s.remote = st[p].remote /\ s.last_sent = st[p].last_sent
      /\ s.last_synced = st[p].last_synced /\ s.last_eval_valid = st[p].last_eval_valid
  BY <1>2, PeerTypes DEF Service
<1> HIDE DEF s, answer
<1>5. x.s = s /\ x.out = <<answer>> /\ Says(st[p], x)
  <2>1. x.s = s /\ x.out = <<answer>>
    BY ResultFields
  <2> QED BY <1>3, <1>4, <2>1, SaysOne
<1> HIDE DEF x
<1>6. Carries(x.out, answer)
  BY <1>3, <1>5, CarriesOne
<1>7. Does(p, s, chan[p], answer) /\ Looks(p)
  BY <1>1, <1>4, <1>5, <1>6, LooksDoes DEF Looks
<1> QED BY <1>7 DEF s, answer

LEMMA GreetingDoes ==
    ASSUME TypeOK, Informed', linked' = linked, \A q \in Peer : Greeting(q),
           NEW p \in Peer, NEW s, NEW c, NEW m, Does(p, s, c, m),
           \/ s.session
           \/ s.session = st[p].session /\ s.remote = st[p].remote /\ c = chan[p]
    PROVE  \A q \in Peer : Greeting(q)'
<1>1. st'[p].session = s.session /\ st'[p].remote = s.remote /\ chan'[p] = c
      /\ st'[Other(p)] = st[Other(p)]
  BY DEF Does, SameWork
<1>2. Greeting(p)'
  BY <1>1 DEF Greeting
<1>3. Greeting(Other(p))'
  <2> DEFINE q == Other(p)
  <2>1. q \in Peer
    BY PeerFacts
  <2>2. SUFFICES ASSUME ~st[q].session
                 PROVE  IF linked THEN chan'[q] # <<>> /\ Head(chan'[q]) = Hello
                        ELSE chan'[q] = <<>>
    BY <1>1, <2>1 DEF Greeting
  <2>3. CASE linked
    <3>1. PICK d \in Seq(Message) : chan'[q] = chan[q] \o d
      BY DEF Does
    <3>2. chan[q] # <<>> /\ Head(chan[q]) = Hello /\ chan[q] \in Seq(Message)
      BY <2>1, <2>2, <2>3 DEF Greeting, TypeOK
    <3>3. /\ Len(chan[q]) \in Nat /\ Len(chan[q]) > 0 /\ Head(chan[q]) = chan[q][1]
      BY <3>2, TailElements
    <3>4. /\ chan'[q] \in Seq(Message) /\ Len(chan'[q]) > 0 /\ chan'[q][1] = chan[q][1]
      BY <3>1, <3>2, <3>3, ConcatElements
    <3> QED BY <2>3, <3>2, <3>3, <3>4
  <2>4. CASE ~linked
    BY <2>1, <2>4 DEF Informed, Disused
  <2> QED BY <2>3, <2>4
<1> QED BY <1>2, <1>3, PeerFacts

LEMMA CheckedDoes ==
    ASSUME TypeOK, Informed', linked' = linked, \A q \in Peer : Checked(q),
           NEW p \in Peer, Opt[p].mode = "TwoWay", NEW s, NEW c, NEW m, Does(p, s, c, m),
           \/ s.session
           \/ s.session = st[p].session /\ s.remote = st[p].remote /\ c = chan[p],
           Judges(p), (\A t \in Thread : ~todo'[p][t].due) => Looked(st'[p]),
           todo'[Other(p)] = todo[Other(p)]
    PROVE  \A q \in Peer : Checked(q)'
<1>1. \A q \in Peer : Greeting(q)'
  BY GreetingDoes DEF Checked
<1>2. Checked(p)'
  BY <1>1 DEF Checked, Judges
<1>3. st'[Other(p)] = st[Other(p)] /\ Other(p) \in Peer
  BY PeerFacts DEF Does
<1>4. Checked(Other(p))'
  BY <1>1, <1>3 DEF Checked
<1> QED BY <1>2, <1>4, PeerFacts

LEMMA CheckedKept ==
    ASSUME \A p \in Peer : Opt[p].mode = "TwoWay",
           TypeOK, Informed, Informed', \A q \in Peer : Checked(q), [Next]_vars
    PROVE  \A q \in Peer : Checked(q)'
<1>0. /\ \A p \in Peer : st[p] \in Service /\ Other(p) \in Peer /\ Other(p) # p
      /\ todo \in [Peer -> [Thread -> PlanOf]]
      /\ \A p \in Peer : chan[p] # <<>> /\ Head(chan[p]).op # "Hello" => st[p].session
  <2>1. \A p \in Peer : chan[p] # <<>> /\ Head(chan[p]).op # "Hello" => st[p].session
    BY MessageTypes DEF Checked, Greeting
  <2> QED BY <2>1, PeerFacts DEF TypeOK, PlanOf
<1>1. ASSUME NEW p \in Peer, Publish(p) PROVE \A q \in Peer : Checked(q)'
  <2> DEFINE s == [st[p] EXCEPT !.local = st'[p].local]
  <2>1. /\ Does(p, s, chan[p], Hello) /\ Judges(p)
        /\ todo' = [todo EXCEPT ![p]["daemon"] =
                      IF st[p].session THEN Decided(p, st'[p]) ELSE NoPlan]
    BY <1>1, PublishDoes
  <2>2. s.session = st[p].session /\ s.remote = st[p].remote
    BY <1>0 DEF Service
  <2> HIDE DEF s
  <2>3. linked' = linked
    BY <1>1 DEF Publish
  <2>4. st'[p].remote = st[p].remote
    BY <2>1, <2>2 DEF Does, SameWork
  <2>5. ASSUME \A t \in Thread : ~todo'[p][t].due PROVE Looked(st'[p])
    <3>1. CASE st[p].session
      <4>1. todo'[p]["daemon"] = Decided(p, st'[p])
        BY <1>0, <2>1, <3>1 DEF Thread
      <4>2. ~Decided(p, st'[p]).due
        BY <2>5, <4>1 DEF Thread
      <4>3. st'[p].remote = Unknown
        BY <4>2 DEF Decided
      <4> QED BY <4>3 DEF Looked
    <3>2. CASE ~st[p].session
      <4>1. st[p].remote = Unknown
        BY <3>2 DEF Checked, Greeting
      <4> QED BY <2>4, <4>1 DEF Looked
    <3> QED BY <3>1, <3>2
  <2>6. todo'[Other(p)] = todo[Other(p)]
    BY <1>0, <2>1
  <2> QED BY <2>1, <2>2, <2>3, <2>5, <2>6, CheckedDoes
<1>2. ASSUME NEW p \in Peer, NEW t \in Thread, Execute(p, t) PROVE \A q \in Peer : Checked(q)'
  <2> DEFINE s == [st[p] EXCEPT !.local = st'[p].local, !.pulling = @ \union todo[p][t].pull,
                               !.pull_queue = @ \o SetToSeq(todo[p][t].pull \ st[p].pulling)]
  <2>1. /\ Does(p, s, chan[p], Hello) /\ Judges(p)
        /\ Noted(st[p]) /\ Judged(p, st[p]) => Looked(st'[p])
        /\ todo' = [todo EXCEPT ![p][t] = NoPlan]
    BY <1>2, ExecuteDoes
  <2>2. s.session = st[p].session /\ s.remote = st[p].remote
    BY <1>0 DEF Service
  <2> HIDE DEF s
  <2>3. linked' = linked
    BY <1>2 DEF Execute
  <2>4. Looked(st'[p])
    BY <2>1 DEF Checked
  <2>5. todo'[Other(p)] = todo[Other(p)]
    BY <1>0, <2>1
  <2> QED BY <2>1, <2>2, <2>3, <2>4, <2>5, CheckedDoes
<1>3. ASSUME NEW p \in Peer, RecvHello(p) PROVE \A q \in Peer : Checked(q)'
  <2> DEFINE s == [st[p] EXCEPT !.session = TRUE]
  <2>1. Does(p, s, Tail(chan[p]), Hello) /\ Judges(p) /\ (Looked(st[p]) => Looked(st'[p]))
    BY <1>3, RecvHelloDoes
  <2>2. s.session
    BY <1>0 DEF Service
  <2> HIDE DEF s
  <2>3. linked' = linked /\ todo' = todo
    BY <1>3 DEF RecvHello
  <2>4. (\A t \in Thread : ~todo'[p][t].due) => Looked(st'[p])
    BY <2>1, <2>3 DEF Checked
  <2> QED BY <2>1, <2>2, <2>3, <2>4, CheckedDoes
<1>4. ASSUME NEW p \in Peer, RecvUpdate(p) PROVE \A q \in Peer : Checked(q)'
  <2> DEFINE s == [st[p] EXCEPT !.remote = Head(chan[p]).tree]
  <2>1. /\ Does(p, s, Tail(chan[p]), Hello) /\ Judges(p) /\ st'[p].remote # Unknown
        /\ todo' = [todo EXCEPT ![p]["reactor"] = Decided(p, st'[p])]
    BY <1>4, RecvUpdateDoes
  <2>2. s.session
    BY <1>0, <1>4 DEF Service, RecvUpdate, Receives
  <2> HIDE DEF s
  <2>3. linked' = linked
    BY <1>4 DEF RecvUpdate
  <2>4. todo'[p]["reactor"].due
    BY <1>0, <2>1 DEF Decided, Thread
  <2>5. todo'[Other(p)] = todo[Other(p)]
    BY <1>0, <2>1
  <2> QED BY <2>1, <2>2, <2>3, <2>4, <2>5, CheckedDoes DEF Thread
<1>5. ASSUME NEW p \in Peer, RecvRequest(p) PROVE \A q \in Peer : Checked(q)'
  <2> DEFINE s == [st[p] EXCEPT !.serve_q = Append(@, Head(chan[p]).path)]
  <2>1. Does(p, s, Tail(chan[p]), Hello) /\ Judges(p) /\ Looked(st'[p])
    BY <1>5, RecvRequestDoes
  <2>2. s.session
    BY <1>0, <1>5 DEF Service, RecvRequest, Receives
  <2> HIDE DEF s
  <2>3. linked' = linked /\ todo' = todo
    BY <1>5 DEF RecvRequest
  <2> QED BY <2>1, <2>2, <2>3, CheckedDoes
<1>6. ASSUME NEW p \in Peer, RecvFile(p) PROVE \A q \in Peer : Checked(q)'
  <2> DEFINE s == [st[p] EXCEPT !.local = st'[p].local, !.pulling = @ \ {Head(chan[p]).path}]
  <2>1. Does(p, s, Tail(chan[p]), Hello) /\ Looks(p)
    BY <1>6, RecvFileDoes
  <2>2. s.session
    BY <1>0, <1>6 DEF Service, RecvFile, Receives
  <2> HIDE DEF s
  <2>3. linked' = linked /\ todo' = todo
    BY <1>6 DEF RecvFile
  <2>4. Judges(p) /\ Looked(st'[p])
    BY <2>1 DEF Looks, Checked
  <2> QED BY <2>1, <2>2, <2>3, <2>4, CheckedDoes
<1>7. ASSUME NEW p \in Peer, RecvNotFound(p) PROVE \A q \in Peer : Checked(q)'
  <2> DEFINE s == [st[p] EXCEPT !.pulling = @ \ {Head(chan[p]).path}]
  <2>1. Does(p, s, Tail(chan[p]), Hello) /\ Looks(p)
    BY <1>7, RecvNotFoundDoes
  <2>2. s.session
    BY <1>0, <1>7 DEF Service, RecvNotFound, Receives
  <2> HIDE DEF s
  <2>3. linked' = linked /\ todo' = todo
    BY <1>7 DEF RecvNotFound
  <2>4. Judges(p) /\ Looked(st'[p])
    BY <2>1 DEF Looks, Checked
  <2> QED BY <2>1, <2>2, <2>3, <2>4, CheckedDoes
<1>8. ASSUME NEW p \in Peer, SendRequest(p) PROVE \A q \in Peer : Checked(q)'
  <2> DEFINE s == [st[p] EXCEPT !.pull_queue = Tail(@)]
             m == Request(Head(st[p].pull_queue))
  <2>1. Does(p, s, chan[p], m) /\ Judges(p) /\ (Looked(st[p]) => Looked(st'[p]))
    BY <1>8, SendRequestDoes
  <2>2. s.session = st[p].session /\ s.remote = st[p].remote
    BY <1>0 DEF Service
  <2> HIDE DEF s, m
  <2>3. linked' = linked /\ todo' = todo
    BY <1>8 DEF SendRequest
  <2>4. (\A t \in Thread : ~todo'[p][t].due) => Looked(st'[p])
    BY <2>1, <2>3 DEF Checked
  <2> QED BY <2>1, <2>2, <2>3, <2>4, CheckedDoes
<1>9. ASSUME NEW p \in Peer, Serve(p) PROVE \A q \in Peer : Checked(q)'
  <2> DEFINE s == [st[p] EXCEPT !.serve_q = Tail(@)]
  <2>1. PICK m : Does(p, s, chan[p], m) /\ Looks(p)
    BY <1>9, ServeDoes
  <2>2. s.session = st[p].session /\ s.remote = st[p].remote
    BY <1>0 DEF Service
  <2> HIDE DEF s
  <2>3. linked' = linked /\ todo' = todo
    BY <1>9 DEF Serve
  <2>4. Judges(p) /\ Looked(st'[p])
    BY <2>1 DEF Looks, Checked
  <2> QED BY <2>1, <2>2, <2>3, <2>4, CheckedDoes
<1>10. ASSUME NEW t, t \in [Peer -> Service], st' = t, Resets,
              \A p \in Peer : t[p].last_synced = Unknown /\ t[p].last_eval_valid = FALSE
       PROVE  \A q \in Peer : Checked(q)'
  <2>1. \A p \in Peer : st'[p].remote = Unknown /\ st'[p].last_synced = Unknown
                        /\ st'[p].last_eval_valid = FALSE /\ chan'[p] = <<>>
    BY <1>10 DEF Resets
  <2> QED BY <1>10, <2>1 DEF Checked, Noted, Judged, Looked, Greeting, Resets
<1>11. ASSUME Drop PROVE \A q \in Peer : Checked(q)'
  <2>1. st' = [p \in Peer |-> FreshSession(st[p])] /\ Resets
    BY <1>11, DropResets DEF Drop, States
  <2>2. \A p \in Peer : st'[p].last_synced = Unknown /\ st'[p].last_eval_valid = FALSE
    BY <2>1, PeerTypes, ResetTypes
  <2>3. st' \in [Peer -> Service]
    BY <2>1 DEF Resets
  <2> QED BY <1>10, <2>1, <2>2, <2>3
<1>12. ASSUME NEW p \in Peer, Crash(p) PROVE \A q \in Peer : Checked(q)'
  <2>1. PICK base \in Loaded(st[p].base), missed \in SUBSET Path :
           st' = [q \in Peer |->
                    IF q # p THEN FreshSession(st[q])
                    ELSE [FreshSession(st[p]) EXCEPT !.local = Unlinked(disk[p], missed),
                                                     !.base = base]]
    BY <1>12 DEF Crash, States
  <2>2. Resets
    BY <1>12, CrashResets
  <2>3. \A q \in Peer : st'[q].last_synced = Unknown /\ st'[q].last_eval_valid = FALSE
    <3>1. \A q \in Peer : LET f == FreshSession(st[q])
                          IN  f \in Service /\ f.last_synced = Unknown /\ f.last_eval_valid = FALSE
      BY PeerTypes, ResetTypes
    <3>2. \A x, y : \A f \in Service : LET g == [f EXCEPT !.local = x, !.base = y]
                                   IN  /\ g.last_synced = f.last_synced
                                       /\ g.last_eval_valid = f.last_eval_valid
      BY DEF Service
    <3> QED BY <2>1, <3>1, <3>2
  <2>4. st' \in [Peer -> Service]
    BY <2>2 DEF Resets
  <2> QED BY <1>10, <2>2, <2>3, <2>4
<1>13. ASSUME Connect PROVE \A q \in Peer : Checked(q)'
  <2>1. UNCHANGED <<st, todo>> /\ linked' /\ \A p \in Peer : chan'[p] = <<Hello>>
    BY <1>13 DEF Connect
  <2>2. <<Hello>> # <<>> /\ Head(<<Hello>>) = Hello
    OBVIOUS
  <2> QED BY <2>1, <2>2 DEF Checked, Greeting
<1>14. ASSUME UNCHANGED <<st, todo, chan, linked>> PROVE \A q \in Peer : Checked(q)'
  BY <1>14 DEF Checked, Greeting
<1>15. ASSUME NEW p \in Peer, User(p) \/ Walk(p) PROVE UNCHANGED <<st, todo, chan, linked>>
  BY <1>15 DEF User, Edit, Delete, Walk
<1>16. UNCHANGED vars => UNCHANGED <<st, todo, chan, linked>>
  BY DEF vars
<1> QED BY <1>1, <1>2, <1>3, <1>4, <1>5, <1>6, <1>7, <1>8, <1>9, <1>11, <1>12, <1>13, <1>14,
           <1>15, <1>16 DEF Next, System, Scan, Receive

-----------------------------------------------------------------------------
(* One change at a time.  A user at a has changed old into wanted, in one  *)
(* path.  The change goes from the disk of a to its tree, to what b knows, *)
(* to the disk and the tree of b, to what a knows, and into the baselines: *)
(* whoever is further on that way has it only if those before have it.     *)

\* No file operation fails, no file is missed, the users wait for rest, and the peers
\* follow each other in everything.
Orderly == /\ MaxFaults = 0 /\ MaxMisses = 0 /\ OneAtATime
           /\ \A p \in Peer : Opt[p].mode = "TwoWay" /\ Opt[p].deletes

\* The change is of one path, and it is a change.
OneChange(old) ==
    /\ \A f, g \in Path : old[f] # wanted[f] /\ old[g] # wanted[g] => f = g
    /\ \A f \in Path : old[f] # wanted[f] => ~SameEntry(old[f], wanted[f])

\* b = Other(a) has the change only after the tree of a has it; only a has anything to scan.
Folders(a, old) ==
    LET b == Other(a)
    IN  /\ disk[a] = wanted /\ disk[b] = st[b].local
        /\ st[a].local \in {old, wanted} /\ st[b].local \in {old, wanted}
        /\ st[b].local = wanted => st[a].local = wanted
        /\ walk[a].on => walk[a].before = st[a].local /\ walk[a].fresh = wanted
        /\ ~walk[b].on

\* Where x is the tree wanted, so are the trees told after it, and the one told of.
Ahead(x, c, top) ==
    x = wanted => /\ top = wanted
                  /\ \A i \in 1..Len(c) : c[i].op = "ManifestUpdate" => c[i].tree = wanted

\* What p is being told, with the tree it is told of, goes from old to wanted.
Climbing(c, top, old) ==
    \A i \in 1..Len(c) : c[i].op = "ManifestUpdate" =>
        /\ c[i].tree \in {old, wanted}
        /\ c[i].tree = wanted =>
              /\ top = wanted
              /\ \A j \in 1..Len(c) : i < j /\ c[j].op = "ManifestUpdate" => c[j].tree = wanted

\* The baseline of p, what it knows, and what it is being told.
Views(p, old) ==
    LET top == st[Other(p)].local
    IN  /\ st[p].base \in {old, wanted} /\ st[p].remote \in {old, wanted, Unknown}
        /\ Climbing(chan[p], top, old)
        /\ Ahead(st[p].remote, chan[p], top) /\ Ahead(st[p].base, chan[p], top)
        /\ st[p].base = wanted => st[p].local = wanted /\ st[p].remote \in {wanted, Unknown}

Changes(a, old, f) == old[f] # wanted[f] /\ st[a].local = wanted

\* a has nothing to do; b does what the change asks for, or has reserved it.
Plans(a, old) ==
    LET b == Other(a)
    IN  /\ \A t \in Thread : todo[a][t].pull = {} /\ todo[a][t].delete_local = {}
        /\ todo[b]["daemon"] = NoPlan
        /\ \A f \in todo[b]["reactor"].pull : Changes(a, old, f) /\ wanted[f] # Absent
        /\ \A f \in todo[b]["reactor"].delete_local : Changes(a, old, f) /\ wanted[f] = Absent
        /\ st[b].remote = wanted /\ st[b].local # wanted =>
              \/ st[b].pulling # {}
              \/ todo[b]["reactor"].due /\ todo[b]["reactor"].pull # {}
              \/ todo[b]["reactor"].due /\ todo[b]["reactor"].delete_local # {}

\* The messages o in c are of S, and at most one.
Lone(c, o, S) ==
    \A i \in 1..Len(c) : c[i].op = o => /\ c[i] \in S
                                        /\ \A j \in 1..Len(c) : c[j].op = o => j = i

At(w, place, S) == IF w = place THEN S ELSE {}

\* The path b is pulling is in at most one place: b's queue, the requests, a's queue, or
\* the answers.
Slots(a, old) ==
    LET b == Other(a)
        X == st[b].pulling
    IN  /\ st[a].pulling = {} /\ st[a].pull_queue = <<>> /\ st[b].serve_q = <<>>
        /\ Lone(chan[a], "File", {}) /\ Lone(chan[a], "NotFound", {})
        /\ Lone(chan[b], "Request", {}) /\ Lone(chan[b], "NotFound", {})
        /\ \A f \in X : Changes(a, old, f) /\ wanted[f] # Absent
        /\ \E w : /\ st[b].pull_queue = <<>> \/ st[b].pull_queue \in At(w, "queue", {<<f>> : f \in X})
                  /\ st[a].serve_q = <<>> \/ st[a].serve_q \in At(w, "serve", {<<f>> : f \in X})
                  /\ Lone(chan[a], "Request", At(w, "request", {Request(f) : f \in X}))
                  /\ Lone(chan[b], "File", At(w, "file", {File(f, wanted[f]) : f \in X}))

\* What the system does by itself.
Works == \/ \E p \in Peer : System(p) \/ Crash(p)
         \/ Connect \/ Drop \/ UNCHANGED vars

LEMMA LoneHead ==
    ASSUME NEW c \in Seq(Message), c # <<>>, NEW o, NEW S, Lone(c, o, S)
    PROVE  /\ Lone(Tail(c), o, S)
           /\ Head(c).op = o => Head(c) \in S /\ Lone(Tail(c), o, {})
<1> DEFINE d == Tail(c)
<1>1. /\ Head(c) = c[1] /\ 1 \in 1..Len(c) /\ Len(d) \in Nat
      /\ \A i \in 1..Len(d) : i + 1 \in 1..Len(c) /\ d[i] = c[i + 1]
  BY TailElements
<1> HIDE DEF d
<1>2. ASSUME NEW i \in 1..Len(d), d[i].op = o
      PROVE  d[i] \in S /\ Head(c).op # o /\ \A j \in 1..Len(d) : d[j].op = o => j = i
  <2>1. i + 1 \in 1..Len(c) /\ c[i + 1].op = o /\ i \in Nat
    BY <1>1, <1>2
  <2>2. c[i + 1] \in S /\ \A j \in 1..Len(c) : c[j].op = o => j = i + 1
    BY <2>1 DEF Lone
  <2>3. Head(c).op # o
    BY <1>1, <2>1, <2>2
  <2>4. ASSUME NEW j \in 1..Len(d), d[j].op = o PROVE j = i
    <3>1. j + 1 \in 1..Len(c) /\ c[j + 1].op = o /\ j \in Nat
      BY <1>1, <2>4
    <3> QED BY <2>1, <2>2, <3>1
  <2> QED BY <1>1, <2>2, <2>3, <2>4
<1>3. Lone(d, o, S)
  BY <1>2 DEF Lone
<1>4. ASSUME Head(c).op = o PROVE Head(c) \in S /\ Lone(d, o, {})
  BY <1>1, <1>2, <1>4 DEF Lone
<1> QED BY <1>3, <1>4 DEF d

\* The step to wanted.
LEMMA TreeStep ==
    ASSUME NEW old \in Manifest, wanted \in Manifest, OneChange(old), NEW t \in {old, wanted}
    PROVE  /\ \A f \in Path : old[f] # wanted[f] => [t EXCEPT ![f] = wanted[f]] = wanted
           /\ \A S : S # {} /\ (\A f \in S : f \in Path /\ old[f] # wanted[f] /\ wanted[f] = Absent)
                        => Unlinked(t, S) = wanted
           /\ Unlinked(t, {}) = t
<1>1. t \in Manifest /\ \A g \in Path : t[g] = old[g] \/ t[g] = wanted[g]
  OBVIOUS
<1>2. ASSUME NEW f \in Path, old[f] # wanted[f]
      PROVE  \A g \in Path : g # f => t[g] = wanted[g]
  BY <1>1, <1>2 DEF OneChange
<1>3. ASSUME NEW f \in Path, old[f] # wanted[f] PROVE [t EXCEPT ![f] = wanted[f]] = wanted
  BY <1>1, <1>2, <1>3 DEF Manifest
<1>4. ASSUME NEW S, S # {}, \A f \in S : f \in Path /\ old[f] # wanted[f] /\ wanted[f] = Absent
      PROVE  Unlinked(t, S) = wanted
  <2>1. PICK f \in S : TRUE
    BY <1>4
  <2>2. f \in Path /\ old[f] # wanted[f]
    BY <1>4
  <2>3. \A g \in Path : (IF g \in S THEN Absent ELSE t[g]) = wanted[g]
    BY <1>2, <1>4, <2>2
  <2> QED BY <2>3 DEF Unlinked, Manifest
<1>5. Unlinked(t, {}) = t
  BY <1>1 DEF Unlinked, Manifest
<1> QED BY <1>3, <1>4, <1>5

\* Without faults and misses a step does what it sets out to do.
LEMMA NothingFails ==
    ASSUME Orderly, TypeOK
    PROVE  /\ \A p \in Peer, missed \in SUBSET Path : Missed(p, missed) => missed = {}
           /\ \A p \in Peer, t \in Thread : Execute(p, t) =>
                 /\ disk' = [disk EXCEPT ![p] = Unlinked(@, todo[p][t].delete_local)]
                 /\ st'[p].local = Unlinked(st[p].local, todo[p][t].delete_local)
           /\ \A p \in Peer : RecvFile(p) =>
                 LET m == Head(chan[p])
                 IN  /\ disk' = [disk EXCEPT ![p] = Replaced(@, m.path, m.meta)]
                     /\ st'[p].local = [st[p].local EXCEPT ![m.path] = m.meta]
           /\ \A p \in Peer : Crash(p) =>
                 /\ \A q \in Peer : st'[q].base = st[q].base
                 /\ st'[p].local = Unlinked(disk[p], {})
<1>1. ASSUME NEW p \in Peer, NEW missed \in SUBSET Path, Missed(p, missed) PROVE missed = {}
  <2>1. misses \in 0..MaxMisses /\ misses' \in 0..MaxMisses
    BY <1>1, MissedCounts DEF TypeOK
  <2>2. misses' = 0
    BY <2>1 DEF Orderly
  <2> QED BY <1>1, <2>1, <2>2, MissedCounts
<1>2. ASSUME NEW p \in Peer, NEW t \in Thread, Execute(p, t)
      PROVE  /\ disk' = [disk EXCEPT ![p] = Unlinked(@, todo[p][t].delete_local)]
             /\ st'[p].local = Unlinked(st[p].local, todo[p][t].delete_local)
  <2>1. PICK stuck \in SUBSET todo[p][t].delete_local :
           /\ faults' = faults + Cardinality(stuck)
           /\ faults' <= MaxFaults
           /\ disk' = [disk EXCEPT ![p] = Unlinked(@, todo[p][t].delete_local \ stuck)]
           /\ Becomes(p, Act(p, st[p], todo[p][t], todo[p][t].delete_local \ stuck))
    BY <1>2 DEF Execute
  <2>2. stuck \in SUBSET Path /\ todo[p][t].delete_local \in SUBSET Path
        /\ todo[p][t].pull \in SUBSET Path /\ st[p] \in Service
    BY DEF TypeOK
  <2>3. IsFiniteSet(stuck) /\ Cardinality(stuck) \in Nat /\ (Cardinality(stuck) = 0 => stuck = {})
    BY <2>2, PairAssumption, FS_Subset, FS_CardinalityType, FS_EmptySet
  <2>4. stuck = {}
    BY <2>1, <2>3 DEF TypeOK, Orderly
  <2> DEFINE a == Act(p, st[p], todo[p][t], todo[p][t].delete_local)
  <2>5. Becomes(p, a) /\ disk' = [disk EXCEPT ![p] = Unlinked(@, todo[p][t].delete_local)]
    BY <2>1, <2>4
  <2>6. a.s.local = Unlinked(st[p].local, todo[p][t].delete_local)
    BY <2>2, ActSays
  <2> HIDE DEF a
  <2>7. st'[p] = a.s
    BY <2>5 DEF Becomes, States, TypeOK
  <2> QED BY <2>5, <2>6, <2>7
<1>3. ASSUME NEW p \in Peer, RecvFile(p)
      PROVE  LET m == Head(chan[p])
             IN  /\ disk' = [disk EXCEPT ![p] = Replaced(@, m.path, m.meta)]
                 /\ st'[p].local = [st[p].local EXCEPT ![m.path] = m.meta]
  <2> DEFINE m == Head(chan[p])
             s == [st[p] EXCEPT !.pulling = @ \ {m.path}]
             t == SetLocal([s EXCEPT !.advertise_pending = TRUE], [s.local EXCEPT ![m.path] = m.meta])
             x == Result(t, <<>>)
  <2>1. m.path \in Path /\ m.meta \in FileMeta
    BY <1>3, RecvFileTalks
  <2>2. ~(faults < MaxFaults)
    BY DEF TypeOK, Orderly
  <2>3. ~Missed(p, {m.path})
    BY <1>1, <2>1
  <2>4. /\ disk' = [disk EXCEPT ![p] = Replaced(@, m.path, m.meta)]
        /\ Handles(p, MaybeSynced(p, x))
    BY <1>3, <2>2, <2>3 DEF RecvFile
  <2> HIDE DEF m
  <2>5. t \in Service /\ t.local = [st[p].local EXCEPT ![m.path] = m.meta]
        /\ t.last_sent = st[p].last_sent
    <3>1. st[p] \in Service
      BY DEF TypeOK
    <3>2. s \in Service /\ s.local = st[p].local /\ s.last_sent = st[p].last_sent
      BY <3>1 DEF Service
    <3>3. [s.local EXCEPT ![m.path] = m.meta] \in Manifest
      BY <2>1, <3>2 DEF Service, Manifest, Entry
    <3> HIDE DEF s
    <3> QED BY <3>2, <3>3 DEF SetLocal, Service
  <2> HIDE DEF t
  <2>6. x.s = t /\ Says(st[p], x)
    BY <2>5, ResultFields, SaysNothing
  <2> HIDE DEF x
  <2>7. SameWork(x.s, MaybeSynced(p, x).s)
    BY <2>5, <2>6, MaybeSyncedSays
  <2>8. st'[p] = MaybeSynced(p, x).s
    BY <2>4 DEF Handles, States, TypeOK
  <2> QED BY <2>4, <2>5, <2>6, <2>7, <2>8 DEF SameWork, m
<1>4. ASSUME NEW p \in Peer, Crash(p)
      PROVE  /\ \A q \in Peer : st'[q].base = st[q].base
             /\ st'[p].local = Unlinked(disk[p], {})
  <2>1. PICK base \in Loaded(st[p].base), missed \in SUBSET Path :
           /\ Missed(p, missed)
           /\ faults' = IF base = st[p].base THEN faults ELSE faults + 1
           /\ faults' <= MaxFaults
           /\ st' = [q \in Peer |->
                       IF q # p THEN FreshSession(st[q])
                       ELSE [FreshSession(st[p]) EXCEPT !.local = Unlinked(disk[p], missed),
                                                        !.base = base]]
    BY <1>4 DEF Crash, States
  <2>2. missed = {} /\ base = st[p].base
    <3>1. missed = {}
      BY <1>1, <2>1
    <3>2. faults \in 0..MaxFaults /\ MaxFaults = 0
      BY DEF TypeOK, Orderly
    <3>3. base = st[p].base
      BY <2>1, <3>2
    <3> QED BY <3>1, <3>3
  <2>3. \A q \in Peer : st[q] \in Service
    BY DEF TypeOK
  <2>4. \A q \in Peer : LET t == FreshSession(st[q]) IN t \in Service /\ t.base = st[q].base
    BY <2>3, ResetTypes
  <2> QED BY <2>1, <2>2, <2>4 DEF Service
<1> QED BY <1>1, <1>2, <1>3, <1>4

\* Whoever has the change keeps it; the change itself stays.
Climbs(old) == \A p \in Peer : st[p].local = wanted => st'[p].local = wanted

\* What is left for b to remove is the change, and so is the file it waits for.
LEMMA RemovalArrives ==
    ASSUME TypeOK, NEW a \in Peer, NEW old \in Manifest,
           OneChange(old), Folders(a, old), Plans(a, old),
           NEW p \in Peer, NEW t \in Thread, Execute(p, t), todo[p][t].delete_local # {}
    PROVE  /\ p = Other(a) /\ t = "reactor" /\ st[a].local = wanted
           /\ Unlinked(st[p].local, todo[p][t].delete_local) = wanted
<1> DEFINE S == todo[p][t].delete_local
           b == Other(a)
<1>0. b \in Peer /\ \A q \in Peer : q = a \/ q = b
  BY PeerFacts
<1>1. p = b
  BY <1>0 DEF Plans
<1>2. t = "reactor"
  <2>1. todo[p][t].due
    BY DEF Execute
  <2> QED BY <1>1, <2>1 DEF Plans, NoPlan, Thread
<1>3. \A f \in S : f \in Path /\ old[f] # wanted[f] /\ wanted[f] = Absent
  <2>1. S \subseteq Path
    BY DEF TypeOK
  <2> QED BY <1>1, <1>2, <2>1 DEF Plans, Changes
<1>4. st[a].local = wanted
  BY <1>1, <1>2 DEF Plans, Changes
<1> HIDE DEF S
<1>5. Unlinked(st[b].local, S) = wanted
  <2>1. S # {} /\ st[b].local \in {old, wanted} /\ wanted \in Manifest
    BY DEF S, Folders, TypeOK
  <2> QED BY <1>3, <2>1, TreeStep
<1> QED BY <1>1, <1>2, <1>4, <1>5 DEF S

LEMMA FileArrives ==
    ASSUME Orderly, TypeOK, NEW a \in Peer, NEW old \in Manifest,
           OneChange(old), Folders(a, old), Slots(a, old), NEW p \in Peer, RecvFile(p)
    PROVE  /\ p = Other(a) /\ st[a].local = wanted
           /\ \E f \in st[p].pulling : Head(chan[p]) = File(f, wanted[f])
           /\ disk'[p] = wanted /\ st'[p].local = wanted /\ disk'[a] = disk[a]
<1> DEFINE m == Head(chan[p])
           b == Other(a)
<1>0. /\ b \in Peer /\ b # a /\ \A q \in Peer : q = a \/ q = b
      /\ wanted \in Manifest /\ disk \in [Peer -> Manifest]
      /\ \A q \in Peer : st[q] \in Service /\ chan[q] \in Seq(Message)
  BY PeerFacts DEF TypeOK
<1>1. chan[p] # <<>> /\ m.op = "File"
  BY DEF RecvFile, Receives
<1>2. p = b
  <2>1. Lone(chan[a], "File", {})
    BY DEF Slots
  <2>2. ASSUME p = a PROVE FALSE
    <3>1. chan[a] \in Seq(Message) /\ chan[a] # <<>> /\ Head(chan[a]).op = "File"
      BY <1>0, <1>1, <2>2
    <3>2. Head(chan[a]) \in {}
      BY <2>1, <3>1, LoneHead
    <3> QED BY <3>2
  <2> QED BY <1>0, <2>2
<1>3. PICK w : Lone(chan[b], "File", At(w, "file", {File(f, wanted[f]) : f \in st[b].pulling}))
  BY DEF Slots
<1>4. m \in At(w, "file", {File(f, wanted[f]) : f \in st[b].pulling})
  BY <1>0, <1>1, <1>2, <1>3, LoneHead
<1>5. PICK f \in st[b].pulling : m = File(f, wanted[f])
  BY <1>4 DEF At
<1>6. m.path = f /\ m.meta = wanted[f]
  BY <1>5 DEF File
<1>7. f \in Path /\ old[f] # wanted[f] /\ st[a].local = wanted
  BY <1>0, <1>5 DEF Slots, Changes, Service
<1>8. /\ disk' = [disk EXCEPT ![b] = [@ EXCEPT ![f] = wanted[f]]]
      /\ st'[b].local = [st[b].local EXCEPT ![f] = wanted[f]]
  BY <1>2, <1>6, NothingFails DEF Replaced
<1>9. [st[b].local EXCEPT ![f] = wanted[f]] = wanted
  BY <1>0, <1>7, TreeStep DEF Folders
<1>10. st'[b].local = wanted /\ disk'[b] = wanted /\ disk'[a] = disk[a]
  BY <1>0, <1>8, <1>9 DEF Folders
<1> QED BY <1>2, <1>5, <1>7, <1>10

LEMMA FoldersKept ==
    ASSUME Orderly, TypeOK, Works, NEW a \in Peer, NEW old \in Manifest,
           OneChange(old), Folders(a, old), Plans(a, old), Slots(a, old)
    PROVE  Folders(a, old)' /\ wanted' = wanted /\ Climbs(old)
<1> DEFINE b == Other(a)
<1>0. /\ b \in Peer /\ b # a /\ Other(b) = a /\ Other(a) = b /\ \A p \in Peer : p = a \/ p = b
      /\ wanted \in Manifest /\ disk \in [Peer -> Manifest]
      /\ \A p \in Peer : st[p] \in Service /\ chan[p] \in Seq(Message)
      /\ walk \in [Peer -> [before : Manifest, fresh : Manifest, on : BOOLEAN]]
  BY PeerFacts DEF TypeOK
<1>1. /\ disk[a] = wanted /\ disk[b] = st[b].local
      /\ st[a].local \in {old, wanted} /\ st[b].local \in {old, wanted}
      /\ st[b].local = wanted => st[a].local = wanted
      /\ walk[a].on => walk[a].before = st[a].local /\ walk[a].fresh = wanted
      /\ ~walk[b].on
  BY DEF Folders
<1> HIDE DEF b
<1>3. ASSUME UNCHANGED <<disk, walk, wanted>>, \A p \in Peer : st'[p].local = st[p].local
      PROVE  Folders(a, old)' /\ wanted' = wanted /\ Climbs(old)
  BY <1>0, <1>1, <1>3 DEF Folders, Climbs, b
<1>4. ASSUME NEW p \in Peer, Walk(p) PROVE Folders(a, old)' /\ wanted' = wanted /\ Climbs(old)
  <2>1. PICK missed \in SUBSET Path :
          /\ Missed(p, missed)
          /\ Scanned(p, missed) # st[p].local
          /\ walk' = [walk EXCEPT ![p] = [before |-> st[p].local, on |-> TRUE,
                                         fresh |-> Scanned(p, missed)]]
    BY <1>4 DEF Walk
  <2>2. missed = {}
    BY <2>1, NothingFails
  <2>3. Scanned(p, {}) # st[p].local
    BY <2>1, <2>2
  <2>4. UNCHANGED <<disk, st, wanted>>
    BY <1>4 DEF Walk, history
  <2>5. Scanned(p, {}) = [f \in Path |-> Observe(disk[p][f], st[p].local[f])]
    BY DEF Scanned
  <2>6. \A f \in Path : Observe(disk[p][f], st[p].local[f]) \in {disk[p][f], st[p].local[f]}
    BY DEF Observe
  <2>7. disk[p] \in Manifest /\ st[p].local \in Manifest
    BY <1>0 DEF Service
  <2>8. p = a
    <3>1. ASSUME p = b PROVE Scanned(p, {}) = st[p].local
      <4>1. \A f \in Path : Observe(disk[p][f], st[p].local[f]) = st[p].local[f]
        BY <1>1, <2>6, <3>1
      <4> QED BY <2>5, <2>7, <4>1 DEF Manifest
    <3> QED BY <1>0, <2>3, <3>1
  <2>9. Scanned(p, {}) = wanted
    <3>1. PICK f \in Path : Observe(disk[p][f], st[p].local[f]) # st[p].local[f]
      BY <2>3, <2>5, <2>7 DEF Manifest
    <3>2. Observe(disk[p][f], st[p].local[f]) = wanted[f] /\ st[p].local[f] # wanted[f]
      BY <1>1, <2>6, <2>8, <3>1
    <3>3. old[f] # wanted[f]
      BY <1>1, <2>8, <3>2
    <3>4. \A g \in Path : g # f => st[p].local[g] = wanted[g]
      BY <1>1, <2>8, <3>3 DEF OneChange
    <3>5. \A g \in Path : Observe(disk[p][g], st[p].local[g]) = wanted[g]
      BY <1>1, <2>6, <2>8, <3>2, <3>4
    <3> QED BY <1>0, <2>5, <3>5 DEF Manifest
  <2>10. walk' = [walk EXCEPT ![a] = [before |-> st[a].local, on |-> TRUE, fresh |-> wanted]]
    BY <2>1, <2>2, <2>8, <2>9
  <2>11. walk'[a].before = st'[a].local /\ walk'[a].fresh = wanted /\ walk'[b] = walk[b]
    BY <1>0, <2>4, <2>10
  <2> QED BY <1>0, <1>1, <2>4, <2>11 DEF Folders, Climbs, b
<1>5. ASSUME NEW p \in Peer, Publish(p) PROVE Folders(a, old)' /\ wanted' = wanted /\ Climbs(old)
  <2>1. p = a
    BY <1>0, <1>1, <1>5 DEF Publish
  <2>2. PICK r : /\ Talks(p, r)
                 /\ r.s.local = [f \in Path |-> IF walk[p].fresh[f] # walk[p].before[f]
                                                THEN walk[p].fresh[f] ELSE st[p].local[f]]
    BY <1>5, PublishTalks
  <2>3. walk[p].on /\ walk' = [walk EXCEPT ![p] = NoWalk] /\ UNCHANGED <<disk, wanted>>
    BY <1>5 DEF Publish, Becomes, States
  <2>4. \A f \in Path : (IF walk[p].fresh[f] # walk[p].before[f]
                         THEN walk[p].fresh[f] ELSE st[p].local[f]) = wanted[f]
    BY <1>1, <2>1, <2>3
  <2>5. r.s.local = wanted
    BY <1>0, <2>2, <2>4 DEF Manifest
  <2>6. st'[a].local = wanted /\ st'[b] = st[b]
    BY <1>0, <2>1, <2>2, <2>5 DEF Talks, TypeOK
  <2>7. ~walk'[a].on /\ ~walk'[b].on
    BY <1>0, <1>1, <2>1, <2>3 DEF NoWalk
  <2> QED BY <1>0, <1>1, <2>3, <2>6, <2>7 DEF Folders, Climbs, b
<1>6. ASSUME NEW p \in Peer, NEW t \in Thread, Execute(p, t)
      PROVE  Folders(a, old)' /\ wanted' = wanted /\ Climbs(old)
  <2> DEFINE S == todo[p][t].delete_local
  <2>1. /\ disk' = [disk EXCEPT ![p] = Unlinked(@, S)]
        /\ st'[p].local = Unlinked(st[p].local, S)
    BY <1>6, NothingFails
  <2>2. UNCHANGED <<walk, wanted>> /\ todo[p][t].due
    BY <1>6 DEF Execute, Becomes, States
  <2>3. st'[Other(p)] = st[Other(p)]
    BY <1>6, ExecuteDoes DEF Does
  <2>4. CASE S = {}
    <3>1. Unlinked(disk[p], S) = disk[p] /\ Unlinked(st[p].local, S) = st[p].local
      BY <1>0, <2>4 DEF Unlinked, Service, Manifest
    <3>2. disk' = disk /\ \A q \in Peer : st'[q].local = st[q].local
      BY <1>0, <2>1, <2>3, <3>1, PeerFacts
    <3> QED BY <1>3, <2>2, <3>2
  <2>5. CASE S # {}
    <3>1. /\ p = b /\ st[a].local = wanted
          /\ Unlinked(st[p].local, S) = wanted
      BY <1>6, <2>5, RemovalArrives DEF b
    <3> HIDE DEF S
    <3>2. st'[b].local = wanted /\ st'[a] = st[a] /\ disk'[b] = wanted /\ disk'[a] = disk[a]
      BY <1>0, <1>1, <2>1, <2>3, <3>1
    <3> QED BY <1>0, <1>1, <2>2, <3>1, <3>2 DEF Folders, Climbs, b
  <2> QED BY <2>4, <2>5
<1>7. ASSUME NEW p \in Peer, RecvFile(p) PROVE Folders(a, old)' /\ wanted' = wanted /\ Climbs(old)
  <2>1. UNCHANGED <<walk, wanted>>
    BY <1>7 DEF RecvFile, Handles, States
  <2>2. /\ p = b /\ st[a].local = wanted
        /\ disk'[b] = wanted /\ st'[b].local = wanted /\ disk'[a] = disk[a]
    BY <1>7, FileArrives DEF b
  <2>3. st'[a] = st[a]
    BY <1>0, <1>7, <2>2, RecvFileDoes DEF Does
  <2> QED BY <1>0, <1>1, <2>1, <2>2, <2>3 DEF Folders, Climbs, b
<1>8. ASSUME NEW p \in Peer,
             \/ RecvHello(p) \/ RecvUpdate(p) \/ RecvRequest(p) \/ RecvNotFound(p)
             \/ SendRequest(p) \/ Serve(p)
      PROVE  Folders(a, old)' /\ wanted' = wanted /\ Climbs(old)
  <2>1. UNCHANGED <<disk, walk, wanted>>
    BY <1>8 DEF RecvHello, RecvUpdate, RecvRequest, RecvNotFound, SendRequest, Serve,
                Handles, Becomes, States
  <2>2. PICK r : Talks(p, r) /\ r.s.local = st[p].local
    BY <1>8, RecvHelloTalks, RecvUpdateTalks, RecvRequestTalks, RecvNotFoundTalks,
       SendRequestTalks, ServeTalks
  <2>3. \A q \in Peer : st'[q].local = st[q].local
    BY <2>2 DEF Talks, TypeOK
  <2> QED BY <1>3, <2>1, <2>3
<1>9. ASSUME Drop \/ Connect \/ UNCHANGED vars
      PROVE  Folders(a, old)' /\ wanted' = wanted /\ Climbs(old)
  <2>1. UNCHANGED <<disk, walk, wanted>>
    BY <1>9 DEF Drop, Connect, States, vars, history
  <2>2. \A p \in Peer : st'[p].local = st[p].local
    BY <1>9, DropResets DEF Connect, vars
  <2> QED BY <1>3, <2>1, <2>2
<1>10. ASSUME NEW p \in Peer, Crash(p) PROVE Folders(a, old)' /\ wanted' = wanted /\ Climbs(old)
  <2>1. /\ UNCHANGED <<disk, wanted>> /\ walk' = [walk EXCEPT ![p] = NoWalk]
    BY <1>10 DEF Crash, States
  <2>2. st'[p].local = Unlinked(disk[p], {}) /\ \A q \in Peer : q # p => st'[q].local = st[q].local
    BY <1>10, NothingFails, CrashResets
  <2>3. st'[p].local = disk[p]
    BY <1>0, <2>2 DEF Unlinked, Manifest
  <2>4. ~walk'[p].on /\ \A q \in Peer : q # p => walk'[q] = walk[q]
    BY <1>0, <2>1 DEF NoWalk
  <2> QED BY <1>0, <1>1, <2>1, <2>2, <2>3, <2>4 DEF Folders, Climbs, b
<1> QED BY <1>4, <1>5, <1>6, <1>7, <1>8, <1>9, <1>10 DEF Works, System, Scan, Receive

LEMMA ClimbingSays ==
    ASSUME NEW old, NEW c \in Seq(Message), NEW s, NEW r, Says(s, r), NEW top,
           r.s.local \in {old, wanted}, top = wanted => r.s.local = wanted,
           Climbing(c, top, old)
    PROVE  /\ Climbing(c \o r.out, r.s.local, old)
           /\ \A x : Ahead(x, c, top) => Ahead(x, c \o r.out, r.s.local)
<1> DEFINE d == r.out
           new == r.s.local
           e == c \o d
<1>1. /\ d \in Seq(Message)
      /\ \A i \in 1..Len(d) : d[i].op = "ManifestUpdate" => d[i] = Update(new)
  BY DEF Says
<1>2. Update(new).tree = new
  BY DEF Update
<1> HIDE DEF d, new
<1>3. /\ \A i \in 1..Len(e) :
            \/ i \in 1..Len(c) /\ e[i] = c[i]
            \/ i > Len(c) /\ i - Len(c) \in 1..Len(d) /\ e[i] = d[i - Len(c)]
      /\ Len(c) \in Nat /\ Len(e) \in Nat
  BY <1>1, ConcatElements
<1>4. \A i \in 1..Len(e) : e[i].op = "ManifestUpdate" =>
         \/ i \in 1..Len(c) /\ e[i] = c[i]
         \/ i > Len(c) /\ e[i].tree = new
  BY <1>1, <1>2, <1>3
<1> HIDE DEF e
<1>5. ASSUME NEW x, Ahead(x, c, top) PROVE Ahead(x, e, new)
  BY <1>4, <1>5 DEF Ahead, new
<1>6. ASSUME NEW i \in 1..Len(e), e[i].op = "ManifestUpdate"
      PROVE  /\ e[i].tree \in {old, wanted}
             /\ e[i].tree = wanted =>
                   /\ new = wanted
                   /\ \A j \in 1..Len(e) : i < j /\ e[j].op = "ManifestUpdate" => e[j].tree = wanted
  <2>1. CASE i \in 1..Len(c) /\ e[i] = c[i]
    <3>1. /\ c[i].tree \in {old, wanted}
          /\ c[i].tree = wanted =>
              /\ new = wanted
              /\ \A j \in 1..Len(c) : i < j /\ c[j].op = "ManifestUpdate" => c[j].tree = wanted
      BY <1>6, <2>1 DEF Climbing, new
    <3>2. ASSUME NEW j \in 1..Len(e), i < j, e[j].op = "ManifestUpdate", c[i].tree = wanted
          PROVE  e[j].tree = wanted
      BY <1>4, <3>1, <3>2
    <3> QED BY <2>1, <3>1, <3>2
  <2>2. CASE i > Len(c) /\ e[i].tree = new
    <3>1. ASSUME NEW j \in 1..Len(e), i < j, e[j].op = "ManifestUpdate"
          PROVE  e[j].tree = new
      BY <1>3, <1>4, <2>2, <3>1
    <3> QED BY <2>2, <3>1 DEF new
  <2> QED BY <1>4, <1>6, <2>1, <2>2
<1>7. Climbing(e, new, old)
  BY <1>6 DEF Climbing
<1> QED BY <1>5, <1>7 DEF d, e, new

LEMMA ClimbingHears ==
    ASSUME NEW old, NEW c \in Seq(Message), c # <<>>, NEW top, Climbing(c, top, old)
    PROVE  /\ Climbing(Tail(c), top, old)
           /\ \A x : Ahead(x, c, top) =>
                 /\ Ahead(x, Tail(c), top)
                 /\ x = wanted /\ Head(c).op = "ManifestUpdate" => Head(c).tree = wanted
           /\ Head(c).op = "ManifestUpdate" => /\ Head(c).tree \in {old, wanted}
                                               /\ Ahead(Head(c).tree, Tail(c), top)
<1> DEFINE d == Tail(c)
<1>1. /\ Head(c) = c[1] /\ 1 \in 1..Len(c) /\ Len(d) \in Nat
      /\ \A i \in 1..Len(d) : i + 1 \in 1..Len(c) /\ d[i] = c[i + 1]
  BY TailElements
<1> HIDE DEF d
<1>2. ASSUME NEW i \in 1..Len(d), d[i].op = "ManifestUpdate"
      PROVE  /\ d[i].tree \in {old, wanted}
             /\ d[i].tree = wanted =>
                   /\ top = wanted
                   /\ \A j \in 1..Len(d) : i < j /\ d[j].op = "ManifestUpdate" => d[j].tree = wanted
  <2>1. i + 1 \in 1..Len(c) /\ d[i] = c[i + 1]
    BY <1>1
  <2>2. ASSUME NEW j \in 1..Len(d), i < j PROVE j + 1 \in 1..Len(c) /\ d[j] = c[j + 1] /\ i + 1 < j + 1
    BY <1>1, <2>2
  <2> QED BY <1>2, <2>1, <2>2 DEF Climbing
<1>3. Climbing(d, top, old)
  BY <1>2 DEF Climbing
<1>4. ASSUME NEW x, Ahead(x, c, top)
      PROVE  /\ Ahead(x, d, top)
             /\ x = wanted /\ Head(c).op = "ManifestUpdate" => Head(c).tree = wanted
  BY <1>1, <1>4 DEF Ahead
<1>5. ASSUME Head(c).op = "ManifestUpdate"
      PROVE  Head(c).tree \in {old, wanted} /\ Ahead(Head(c).tree, d, top)
  <2>1. /\ c[1].tree \in {old, wanted}
        /\ c[1].tree = wanted =>
              /\ top = wanted
              /\ \A j \in 1..Len(c) : 1 < j /\ c[j].op = "ManifestUpdate" => c[j].tree = wanted
    BY <1>1, <1>5 DEF Climbing
  <2>2. ASSUME NEW i \in 1..Len(d) PROVE i + 1 \in 1..Len(c) /\ d[i] = c[i + 1] /\ 1 < i + 1
    BY <1>1
  <2> QED BY <1>1, <2>1, <2>2 DEF Ahead
<1> QED BY <1>3, <1>4, <1>5 DEF d

\* No update, none to come.
LEMMA SilentClimbs ==
    ASSUME NEW old, NEW c, \A i \in 1..Len(c) : c[i].op # "ManifestUpdate", NEW top
    PROVE  Climbing(c, top, old) /\ \A x : (x = wanted => top = wanted) => Ahead(x, c, top)
BY DEF Climbing, Ahead

\* The tree before the change and the one after it differ as trees do.
LEMMA TreesDiffer ==
    ASSUME NEW old \in Manifest, wanted \in Manifest, OneChange(old),
           NEW t \in {old, wanted}, NEW u \in {old, wanted}, SameTree(t, u)
    PROVE  t = u
<1>1. \A f \in Path : old[f] = wanted[f] \/ ~SameEntry(old[f], wanted[f])
  BY DEF OneChange
<1>2. \A f \in Path : SameEntry(old[f], wanted[f]) <=> SameEntry(wanted[f], old[f])
  BY DEF SameEntry, SameContent
<1>3. \A f \in Path : t[f] = u[f]
  BY <1>1, <1>2 DEF SameTree
<1> QED BY <1>3 DEF Manifest

LEMMA ViewsKept ==
    ASSUME Orderly, TypeOK, NEW old \in Manifest, OneChange(old), \A p \in Peer : Views(p, old),
           [Next]_vars, wanted' = wanted, Climbs(old),
           \A p \in Peer : st'[p].local \in {old, wanted}
    PROVE  \A p \in Peer : Views(p, old)'
<1>0. /\ st \in [Peer -> Service] /\ chan \in [Peer -> Seq(Message)] /\ wanted \in Manifest
      /\ \A p \in Peer : /\ Other(p) \in Peer /\ Other(p) # p /\ Other(Other(p)) = p
                         /\ \A x \in Peer : x = p \/ x = Other(p)
                         /\ Opt[p] \in Options
  BY PeerFacts DEF TypeOK
<1>a. \A p \in Peer : st[p].local = wanted => st'[p].local = wanted
  BY DEF Climbs
<1>b. Unknown \notin {old, wanted}
  BY <1>0, PairAssumption
<1>1. ASSUME NEW p \in Peer, NEW r, Talks(p, r) PROVE \A x \in Peer : Views(x, old)'
  <2> DEFINE q == Other(p)
  <2>0. q \in Peer /\ q # p /\ Other(q) = p /\ \A x \in Peer : x = p \/ x = q
    BY <1>0
  <2>1. /\ st'[p] = r.s /\ st'[q] = st[q] /\ chan'[q] = chan[q] \o r.out
        /\ Says(st[p], r) /\ chan[q] \in Seq(Message) /\ chan[p] \in Seq(Message)
        /\ Recorded(p, st[p].base, r.s)
    BY <1>0, <1>1, <2>0 DEF Talks
  <2>2. /\ r.s.local \in {old, wanted}
        /\ st[p].local = wanted => r.s.local = wanted
    BY <1>a, <2>1
  <2>3. Views(q, old)'
    <3> DEFINE top == st[p].local
    <3>1. /\ st[q].base \in {old, wanted} /\ st[q].remote \in {old, wanted, Unknown}
          /\ Climbing(chan[q], top, old)
          /\ Ahead(st[q].remote, chan[q], top) /\ Ahead(st[q].base, chan[q], top)
          /\ st[q].base = wanted => st[q].local = wanted /\ st[q].remote \in {wanted, Unknown}
      BY <2>0 DEF Views
    <3> DEFINE c == chan[q] \o r.out
    <3>2. Climbing(c, r.s.local, old) /\ Ahead(st[q].remote, c, r.s.local) /\ Ahead(st[q].base, c, r.s.local)
      BY <2>1, <2>2, <3>1, ClimbingSays
    <3> HIDE DEF c, top, q
    <3>3. chan'[q] = c
      BY <2>1 DEF c
    <3> QED BY <2>0, <2>1, <3>1, <3>2, <3>3 DEF Views, Climbing, Ahead
  <2>4. Views(p, old)'
    <3> DEFINE top == st[q].local
               c == chan'[p]
    <3>1. /\ st[p].base \in {old, wanted} /\ st[p].remote \in {old, wanted, Unknown}
          /\ Climbing(chan[p], top, old)
          /\ Ahead(st[p].remote, chan[p], top) /\ Ahead(st[p].base, chan[p], top)
          /\ st[p].base = wanted => st[p].local = wanted /\ st[p].remote \in {wanted, Unknown}
      BY <2>0 DEF Views
    <3> HIDE DEF top, c
    <3>2. /\ Climbing(c, top, old) /\ r.s.remote \in {old, wanted, Unknown}
          /\ Ahead(r.s.remote, c, top) /\ Ahead(st[p].base, c, top)
          /\ st[p].base = wanted => r.s.local = wanted /\ r.s.remote \in {wanted, Unknown}
      <4>1. CASE /\ chan' = [chan EXCEPT ![q] = @ \o r.out]
                 /\ r.s.remote = st[p].remote
        <5>1. c = chan[p]
          BY <1>0, <2>0, <4>1 DEF c
        <5> QED BY <2>2, <3>1, <4>1, <5>1
      <4>2. CASE /\ chan[p] # <<>>
                 /\ chan' = [chan EXCEPT ![p] = Tail(@), ![q] = @ \o r.out]
                 /\ r.s.remote = IF Head(chan[p]).op = "ManifestUpdate" THEN Head(chan[p]).tree
                                 ELSE st[p].remote
        <5>1. c = Tail(chan[p])
          BY <1>0, <2>0, <4>2 DEF c
        <5> DEFINE h == Head(chan[p])
        <5>2. /\ Climbing(c, top, old)
              /\ \A x : Ahead(x, chan[p], top) =>
                    /\ Ahead(x, c, top)
                    /\ x = wanted /\ h.op = "ManifestUpdate" => h.tree = wanted
              /\ h.op = "ManifestUpdate" => h.tree \in {old, wanted} /\ Ahead(h.tree, c, top)
          BY <2>1, <3>1, <4>2, <5>1, ClimbingHears
        <5> HIDE DEF h
        <5>3. r.s.remote = IF h.op = "ManifestUpdate" THEN h.tree ELSE st[p].remote
          BY <4>2 DEF h
        <5>4. CASE h.op = "ManifestUpdate"
          BY <2>2, <3>1, <5>2, <5>3, <5>4
        <5>5. CASE h.op # "ManifestUpdate"
          BY <2>2, <3>1, <5>2, <5>3, <5>5
        <5> QED BY <5>4, <5>5
      <4> QED BY <1>1, <4>1, <4>2 DEF Talks
    <3>3. /\ r.s.base \in {old, wanted} /\ Ahead(r.s.base, c, top)
          /\ r.s.base = wanted => r.s.local = wanted /\ r.s.remote \in {wanted, Unknown}
      <4>1. CASE r.s.base = st[p].base
        BY <3>1, <3>2, <4>1
      <4>2. CASE /\ r.s.base = r.s.local /\ r.s.remote # Unknown
                 /\ EmptyPlan(PlanFor(st[p].base, r.s.local, r.s.remote, Opt[p]))
        <5>1. SameTree(r.s.local, r.s.remote)
          BY <1>0, <4>2, EmptyPlanAgrees DEF Orderly
        <5>2. r.s.local = r.s.remote
          <6>1. r.s.remote \in {old, wanted}
            BY <3>2, <4>2
          <6> QED BY <1>0, <2>2, <5>1, <6>1, TreesDiffer
        <5> QED BY <2>2, <3>2, <4>2, <5>2
      <4> QED BY <2>1, <4>1, <4>2 DEF Recorded
    <3>4. st'[q].local = top /\ c = chan'[p]
      BY <2>1 DEF top, c
    <3> HIDE DEF q
    <3> QED BY <2>0, <2>1, <3>2, <3>3, <3>4 DEF Views, Climbing, Ahead, q
  <2> QED BY <2>0, <2>3, <2>4
<1>2. ASSUME NEW p \in Peer, \A i \in 1..Len(chan'[p]) : chan'[p][i].op # "ManifestUpdate",
             st'[p].base = st[p].base, st'[p].remote \in {Unknown, st[p].remote}
      PROVE  Views(p, old)'
  <2> DEFINE top == st[Other(p)].local
             new == st'[Other(p)].local
             c == chan'[p]
  <2>1. /\ st[p].base \in {old, wanted} /\ st[p].remote \in {old, wanted, Unknown}
        /\ st[p].base = wanted \/ st[p].remote = wanted => top = wanted
        /\ st[p].base = wanted => st[p].local = wanted /\ st[p].remote \in {wanted, Unknown}
    BY DEF Views, Ahead
  <2>2. top = wanted => new = wanted
    BY <1>0, <1>a
  <2>3. st[p].local = wanted => st'[p].local = wanted
    BY <1>a
  <2> HIDE DEF top, c, new
  <2>4. /\ Climbing(c, new, old)
        /\ Ahead(st'[p].remote, c, new) /\ Ahead(st[p].base, c, new)
    <3>1. \A i \in 1..Len(c) : c[i].op # "ManifestUpdate"
      BY <1>2 DEF c
    <3>2. Climbing(c, new, old) /\ \A x : (x = wanted => new = wanted) => Ahead(x, c, new)
      BY <3>1, SilentClimbs
    <3> QED BY <1>2, <1>b, <2>1, <2>2, <3>2
  <2>5. c = chan'[p] /\ new = st'[Other(p)].local
    BY DEF c, new
  <2> QED BY <1>2, <2>1, <2>3, <2>4, <2>5 DEF Views, Climbing, Ahead
<1>3. ASSUME Resets, Drop \/ \E p \in Peer : Crash(p) PROVE \A x \in Peer : Views(x, old)'
  <2>1. \A p \in Peer : chan'[p] = <<>> /\ st'[p].remote = Unknown /\ st'[p].base = st[p].base
    BY <1>3, DropResets, NothingFails DEF Resets
  <2>2. \A i \in 1..Len(<<>>) : FALSE
    OBVIOUS
  <2>3. \A p \in Peer : \A i \in 1..Len(chan'[p]) : FALSE
    BY <2>1, <2>2
  <2> QED BY <1>2, <2>1, <2>3
<1>4. ASSUME Connects, NEW p \in Peer PROVE Views(p, old)'
  <2>1. chan'[p] = <<Hello>> /\ st' = st
    BY <1>4 DEF Connects
  <2>2. \A i \in 1..Len(<<Hello>>) : <<Hello>>[i].op # "ManifestUpdate"
    BY MessageTypes DEF Hello
  <2> QED BY <1>2, <2>1, <2>2
<1>5. ASSUME Keeps PROVE \A x \in Peer : Views(x, old)'
  BY <1>5 DEF Keeps, Views, Climbing, Ahead
<1> QED BY <1>1, <1>3, <1>4, <1>5, Steps

\* A peer that is told of its own tree, or of its baseline, has nothing to do.
LEMMA DecidesLeave ==
    ASSUME NEW p, Opt[p].mode = "TwoWay", NEW s, s.remote \in {s.local, s.base, Unknown}
    PROVE  Decided(p, s).pull = {} /\ Decided(p, s).delete_local = {}
<1>1. CASE s.remote = Unknown
  BY <1>1 DEF Decided, NoPlan
<1>2. CASE s.remote # Unknown
  <2>1. ASSUME NEW f \in Path
        PROVE  Decide(f, BaseFor(s.base, Opt[p]), s.local, s.remote, Opt[p])
                  \in {"None", "Push", "DeleteRemote"}
    <3>1. Decide(f, BaseFor(s.base, Opt[p]), s.local, s.remote, Opt[p])
             = DecideTwoWay(s.local[f], s.remote[f], s.base[f], Opt[p])
      BY DEF Decide, BaseFor
    <3>2. CASE s.remote = s.local
      BY <3>1, <3>2 DEF DecideTwoWay, Settled, SameEntry, SameContent
    <3>3. CASE s.remote = s.base
      BY <3>1, <3>3 DEF DecideTwoWay, Settled, SameEntry, SameContent, IsConflict, Changed, Offer
    <3> QED BY <1>2, <3>2, <3>3
  <2> DEFINE k(f) == Decide(f, BaseFor(s.base, Opt[p]), s.local, s.remote, Opt[p])
  <2>2. /\ Decided(p, s).pull = {f \in Keys(BaseFor(s.base, Opt[p]), s.local, s.remote) : k(f) = "Pull"}
        /\ Decided(p, s).delete_local =
              {f \in Keys(BaseFor(s.base, Opt[p]), s.local, s.remote) : k(f) = "DeleteLocal"}
    BY <1>2 DEF Decided, PlanFor
  <2>3. Keys(BaseFor(s.base, Opt[p]), s.local, s.remote) \subseteq Path
    BY DEF Keys
  <2>4. \A f \in Path : k(f) # "Pull" /\ k(f) # "DeleteLocal"
    BY <2>1
  <2> HIDE DEF k
  <2> QED BY <2>2, <2>3, <2>4
<1> QED BY <1>1, <1>2

\* A peer that has not moved from its baseline follows the other in everything.
LEMMA DecidesFollow ==
    ASSUME NEW p, Opt[p].mode = "TwoWay", Opt[p].deletes,
           NEW s, s.local = s.base, s.remote # Unknown
    PROVE  LET d == Decided(p, s)
           IN  /\ d.due
               /\ d.pull = {f \in Path : ~SameEntry(s.local[f], s.remote[f]) /\ s.remote[f] # Absent}
               /\ d.delete_local = {f \in Path : ~SameEntry(s.local[f], s.remote[f])
                                                   /\ s.remote[f] = Absent}
<1> DEFINE k(f) == Decide(f, BaseFor(s.base, Opt[p]), s.local, s.remote, Opt[p])
<1>1. ASSUME NEW f \in Path
      PROVE  k(f) = IF SameEntry(s.local[f], s.remote[f]) THEN "None"
                    ELSE IF s.remote[f] # Absent THEN "Pull" ELSE "DeleteLocal"
  <2>1. k(f) = DecideTwoWay(s.local[f], s.remote[f], s.local[f], Opt[p])
    BY DEF Decide, BaseFor
  <2>2. SameEntry(s.local[f], s.local[f])
        /\ (SameEntry(s.remote[f], s.local[f]) <=> SameEntry(s.local[f], s.remote[f]))
    BY DEF SameEntry, SameContent
  <2> QED BY <2>1, <2>2 DEF DecideTwoWay, Settled, IsConflict, Changed, Accept
<1>2. \A f \in Path : ~SameEntry(s.local[f], s.remote[f]) => f \in Keys(BaseFor(s.base, Opt[p]), s.local, s.remote)
  BY DEF Keys, SameEntry
<1>3. /\ Decided(p, s).due
      /\ Decided(p, s).pull = {f \in Keys(BaseFor(s.base, Opt[p]), s.local, s.remote) : k(f) = "Pull"}
      /\ Decided(p, s).delete_local =
            {f \in Keys(BaseFor(s.base, Opt[p]), s.local, s.remote) : k(f) = "DeleteLocal"}
  BY DEF Decided, PlanFor
<1>4. Keys(BaseFor(s.base, Opt[p]), s.local, s.remote) \subseteq Path
  BY DEF Keys
<1> HIDE DEF k
<1> QED BY <1>1, <1>2, <1>3, <1>4

\* The plans of the two peers while the change is on its way; x, y are the states of a
\* and b.
LEMMA DecidesChange ==
    ASSUME Orderly, NEW a \in Peer, NEW old \in Manifest, wanted \in Manifest, OneChange(old),
           NEW x, x.local \in {old, wanted}, x.base \in {old, wanted},
           x.remote \in {old, wanted, Unknown},
           x.base = wanted => x.local = wanted /\ x.remote \in {wanted, Unknown}
    PROVE  /\ (x.remote = wanted => x.local = wanted) =>
                Decided(a, x).pull = {} /\ Decided(a, x).delete_local = {}
           /\ x.remote = wanted /\ x.local # wanted =>
                /\ Decided(a, x).due
                /\ \A f \in Decided(a, x).pull : old[f] # wanted[f] /\ wanted[f] # Absent
                /\ \A f \in Decided(a, x).delete_local : old[f] # wanted[f] /\ wanted[f] = Absent
                /\ Decided(a, x).pull # {} \/ Decided(a, x).delete_local # {}
<1>0. Opt[a].mode = "TwoWay" /\ Opt[a].deletes /\ Unknown \notin {old, wanted}
  BY PairAssumption DEF Orderly
<1>1. ASSUME x.remote = wanted => x.local = wanted
      PROVE  x.remote \in {x.local, x.base, Unknown}
  BY <1>1
<1>2. ASSUME x.remote = wanted, x.local # wanted
      PROVE  /\ Decided(a, x).due
             /\ \A f \in Decided(a, x).pull : old[f] # wanted[f] /\ wanted[f] # Absent
             /\ \A f \in Decided(a, x).delete_local : old[f] # wanted[f] /\ wanted[f] = Absent
             /\ Decided(a, x).pull # {} \/ Decided(a, x).delete_local # {}
  <2>1. x.local = old /\ x.base = old /\ x.remote = wanted /\ x.remote # Unknown
    BY <1>0, <1>2
  <2>2. /\ Decided(a, x).due
        /\ Decided(a, x).pull = {f \in Path : ~SameEntry(old[f], wanted[f]) /\ wanted[f] # Absent}
        /\ Decided(a, x).delete_local = {f \in Path : ~SameEntry(old[f], wanted[f])
                                                       /\ wanted[f] = Absent}
    BY <1>0, <2>1, DecidesFollow
  <2>3. PICK f \in Path : old[f] # wanted[f]
    BY <1>2, <2>1 DEF Manifest
  <2>4. ~SameEntry(old[f], wanted[f])
    BY <2>3 DEF OneChange
  <2>5. \A g \in Path : ~SameEntry(old[g], wanted[g]) => old[g] # wanted[g]
    BY DEF SameEntry, SameContent
  <2> QED BY <2>2, <2>4, <2>5
<1> QED BY <1>0, <1>1, <1>2, DecidesLeave

LEMMA PlansKept ==
    ASSUME Orderly, TypeOK, TypeOK', Works, NEW a \in Peer, NEW old \in Manifest, OneChange(old),
           Folders(a, old), Plans(a, old), Slots(a, old),
           Folders(a, old)', \A p \in Peer : Views(p, old)', wanted' = wanted, Climbs(old)
    PROVE  Plans(a, old)'
<1> DEFINE b == Other(a)
<1>0. /\ b \in Peer /\ b # a /\ Other(b) = a /\ \A p \in Peer : p = a \/ p = b
      /\ Other(a) = b /\ wanted \in Manifest
      /\ \A p \in Peer : st[p] \in Service /\ chan[p] \in Seq(Message)
      /\ todo \in [Peer -> [Thread -> PlanOf]]
      /\ NoPlan.pull = {} /\ NoPlan.delete_local = {} /\ ~NoPlan.due
      /\ "reactor" \in Thread /\ "daemon" \in Thread /\ "reactor" # "daemon"
  BY PeerFacts DEF TypeOK, PlanOf, NoPlan, Thread
<1>1. /\ \A t \in Thread : todo[a][t].pull = {} /\ todo[a][t].delete_local = {}
      /\ todo[b]["daemon"] = NoPlan
      /\ \A f \in todo[b]["reactor"].pull : old[f] # wanted[f] /\ st'[a].local = wanted /\ wanted[f] # Absent
      /\ \A f \in todo[b]["reactor"].delete_local : old[f] # wanted[f] /\ st'[a].local = wanted /\ wanted[f] = Absent
      /\ st[b].remote = wanted /\ st[b].local # wanted =>
            \/ st[b].pulling # {}
            \/ todo[b]["reactor"].due /\ todo[b]["reactor"].pull # {}
            \/ todo[b]["reactor"].due /\ todo[b]["reactor"].delete_local # {}
  BY DEF Plans, Changes, Climbs
<1>2. st[b].local = wanted => st'[b].local = wanted
  BY <1>0 DEF Climbs
\* What a and b would decide now.
<1>3. /\ Decided(a, st'[a]).pull = {} /\ Decided(a, st'[a]).delete_local = {}
      /\ st'[b].remote # wanted \/ st'[b].local = wanted =>
            Decided(b, st'[b]).pull = {} /\ Decided(b, st'[b]).delete_local = {}
      /\ st'[b].remote = wanted /\ st'[b].local # wanted =>
            LET d == Decided(b, st'[b])
            IN  /\ d.due /\ (d.pull # {} \/ d.delete_local # {})
                /\ \A f \in d.pull : old[f] # wanted[f] /\ st'[a].local = wanted /\ wanted[f] # Absent
                /\ \A f \in d.delete_local : old[f] # wanted[f] /\ st'[a].local = wanted /\ wanted[f] = Absent
  <2>1. \A p \in Peer : /\ st'[p].local \in {old, wanted} /\ st'[p].base \in {old, wanted}
                        /\ st'[p].remote \in {old, wanted, Unknown}
                        /\ st'[p].base = wanted => st'[p].local = wanted /\ st'[p].remote \in {wanted, Unknown}
                        /\ st'[p].remote = wanted => st'[Other(p)].local = wanted
    BY <1>0 DEF Folders, Views, Ahead, b
  <2>2. st'[b].local = wanted => st'[a].local = wanted
    BY DEF Folders, b
  <2> HIDE DEF b
  <2>3. /\ st'[a].remote = wanted => st'[a].local = wanted
        /\ st'[b].remote = wanted => st'[a].local = wanted
    BY <1>0, <2>1, <2>2
  <2>4. Decided(a, st'[a]).pull = {} /\ Decided(a, st'[a]).delete_local = {}
    BY <1>0, <2>1, <2>3, DecidesChange
  <2> DEFINE x == st'[b]
             d == Decided(b, x)
  <2>5. /\ x.local \in {old, wanted} /\ x.base \in {old, wanted}
        /\ x.remote \in {old, wanted, Unknown}
        /\ x.base = wanted => x.local = wanted /\ x.remote \in {wanted, Unknown}
    BY <1>0, <2>1
  <2> HIDE DEF x
  <2>6. /\ (x.remote = wanted => x.local = wanted) => d.pull = {} /\ d.delete_local = {}
        /\ x.remote = wanted /\ x.local # wanted =>
                /\ d.due
                /\ \A f \in d.pull : old[f] # wanted[f] /\ wanted[f] # Absent
                /\ \A f \in d.delete_local : old[f] # wanted[f] /\ wanted[f] = Absent
                /\ d.pull # {} \/ d.delete_local # {}
    BY <1>0, <2>5, DecidesChange
  <2> HIDE DEF d
  <2>7. x = st'[b] /\ d = Decided(b, st'[b])
    BY DEF x, d
  <2> QED BY <2>3, <2>4, <2>6, <2>7
<1> HIDE DEF b
<1>4. ASSUME todo' = todo,
             \/ st'[b].remote # wanted \/ st'[b].local = wanted
             \/ /\ st'[b].remote = st[b].remote /\ st'[b].pulling = st[b].pulling
      PROVE  Plans(a, old)'
  BY <1>1, <1>2, <1>4 DEF Plans, Changes, b
\* A new plan at a.
<1>5. ASSUME NEW t \in Thread, NEW pl, pl.pull = {}, pl.delete_local = {},
             todo' = [todo EXCEPT ![a][t] = pl], st'[b] = st[b]
      PROVE  Plans(a, old)'
  <2>1. todo'[b] = todo[b] /\ \A u \in Thread : todo'[a][u].pull = {} /\ todo'[a][u].delete_local = {}
    BY <1>0, <1>1, <1>5
  <2> QED BY <1>1, <1>5, <2>1 DEF Plans, Changes, b
<1>6. ASSUME NEW p \in Peer, Walk(p) PROVE Plans(a, old)'
  BY <1>4, <1>6 DEF Walk
<1>7. ASSUME NEW p \in Peer, Publish(p) PROVE Plans(a, old)'
  <2>1. p = a
    BY <1>0, <1>7 DEF Publish, Folders, b
  <2>2. st'[b] = st[b]
    BY <1>7, <2>1, PublishDoes DEF Does, b
  <2> DEFINE pl == IF st[a].session THEN Decided(a, st'[a]) ELSE NoPlan
  <2>3. pl.pull = {} /\ pl.delete_local = {}
    BY <1>0, <1>3
  <2>4. todo' = [todo EXCEPT ![a]["daemon"] = pl]
    BY <1>7, <2>1, PublishDoes
  <2> HIDE DEF pl
  <2> QED BY <1>0, <1>5, <2>2, <2>3, <2>4
<1>8. ASSUME NEW p \in Peer, NEW t \in Thread, Execute(p, t) PROVE Plans(a, old)'
  <2> DEFINE pull == todo[p][t].pull
             S == todo[p][t].delete_local
             q == st[p].pull_queue \o SetToSeq(pull \ st[p].pulling)
  <2>1. /\ todo' = [todo EXCEPT ![p][t] = NoPlan] /\ st'[Other(p)] = st[Other(p)]
        /\ todo[p][t].due
    BY <1>8, ExecuteDoes DEF Does, Execute
  <2>2. st'[p].remote = st[p].remote /\ st'[p].pulling = st[p].pulling \union pull
    <3> DEFINE x == [st[p] EXCEPT !.local = st'[p].local, !.pulling = @ \union pull, !.pull_queue = @ \o SetToSeq(pull \ st[p].pulling)]
    <3>1. SameWork(x, st'[p])
      BY <1>8, ExecuteDoes DEF Does
    <3>2. x.remote = st[p].remote /\ x.pulling = st[p].pulling \union pull
      BY <1>0 DEF Service
    <3> HIDE DEF x
    <3> QED BY <3>1, <3>2 DEF SameWork
  <2>3. CASE p = a
    BY <1>0, <1>5, <2>1, <2>3 DEF b
  <2>4. CASE p = b
    <3>1. t = "reactor"
      BY <1>0, <1>1, <2>1, <2>4 DEF Thread
    <3>2. /\ todo'[a] = todo[a] /\ todo'[b]["daemon"] = NoPlan /\ todo'[b]["reactor"] = NoPlan
      BY <1>0, <1>1, <2>1, <2>4, <3>1
    <3>3. S # {} => st'[b].local = wanted
      <4>1. S # {} => Unlinked(st[p].local, S) = wanted
        BY <1>8, RemovalArrives
      <4>2. st'[p].local = Unlinked(st[p].local, S)
        BY <1>8, NothingFails
      <4> QED BY <2>4, <4>1, <4>2
    <3>4. st'[b].remote = wanted /\ st'[b].local # wanted => st'[b].pulling # {}
      BY <1>1, <1>2, <2>2, <2>4, <3>1, <3>3
    <3> QED BY <1>0, <1>1, <3>2, <3>4 DEF Plans, b
  <2> QED BY <1>0, <2>3, <2>4
<1>9. ASSUME NEW p \in Peer, RecvUpdate(p) PROVE Plans(a, old)'
  <2>1. todo' = [todo EXCEPT ![p]["reactor"] = Decided(p, st'[p])] /\ st'[Other(p)] = st[Other(p)]
    BY <1>9, RecvUpdateDoes DEF Does
  <2>2. CASE p = a
    BY <1>0, <1>3, <1>5, <2>1, <2>2
  <2>3. CASE p = b
    <3>1. /\ todo'[a] = todo[a] /\ todo'[b]["daemon"] = NoPlan
          /\ todo'[b]["reactor"] = Decided(b, st'[b])
      BY <1>0, <1>1, <2>1, <2>3
    <3>2. \A t \in Thread : todo'[a][t].pull = {} /\ todo'[a][t].delete_local = {}
      BY <1>1, <3>1
    <3>3. CASE st'[b].remote # wanted \/ st'[b].local = wanted
      <4>1. Decided(b, st'[b]).pull = {} /\ Decided(b, st'[b]).delete_local = {}
        BY <1>3, <3>3
      <4> HIDE <1>3
      <4> QED BY <3>1, <3>2, <3>3, <4>1 DEF Plans, b
    <3>4. CASE st'[b].remote = wanted /\ st'[b].local # wanted
      <4> DEFINE d == Decided(b, st'[b])
      <4>1. /\ d.due /\ (d.pull # {} \/ d.delete_local # {})
            /\ \A f \in d.pull : old[f] # wanted[f] /\ st'[a].local = wanted /\ wanted[f] # Absent
            /\ \A f \in d.delete_local : old[f] # wanted[f] /\ st'[a].local = wanted /\ wanted[f] = Absent
        BY <1>3, <3>4
      <4>2. todo'[b]["reactor"] = d
        BY <3>1
      <4> HIDE DEF d
      <4> QED BY <3>1, <3>2, <4>1, <4>2 DEF Plans, Changes, b
    <3> QED BY <3>3, <3>4
  <2> QED BY <1>0, <2>2, <2>3
<1>10. ASSUME NEW p \in Peer, RecvFile(p) PROVE Plans(a, old)'
  <2>1. todo' = todo
    BY <1>10 DEF RecvFile
  <2>2. st'[b].local = wanted
    BY <1>10, FileArrives DEF b
  <2> QED BY <1>4, <2>1, <2>2
<1>11. ASSUME NEW p \in Peer, RecvNotFound(p) PROVE Plans(a, old)'
  <2>1. chan[p] # <<>> /\ Head(chan[p]).op = "NotFound"
    BY <1>11 DEF RecvNotFound, Receives
  <2>2. Lone(chan[p], "NotFound", {})
    BY <1>0 DEF Slots, b
  <2>3. Head(chan[p]) \in {}
    BY <1>0, <2>1, <2>2, LoneHead
  <2> QED BY <2>3
<1>12. ASSUME NEW p \in Peer,
             RecvHello(p) \/ RecvRequest(p) \/ SendRequest(p) \/ Serve(p)
      PROVE  Plans(a, old)'
  <2>1. todo' = todo
    BY <1>12 DEF RecvHello, RecvRequest, SendRequest, Serve
  <2>2. PICK s, c, m : /\ Does(p, s, c, m)
                       /\ s.remote = st[p].remote /\ s.pulling = st[p].pulling
    <3>1. CASE RecvHello(p)
      <4>1. LET s == [st[p] EXCEPT !.session = TRUE]
            IN  s.remote = st[p].remote /\ s.pulling = st[p].pulling
        BY <1>0 DEF Service
      <4> QED BY <3>1, <4>1, RecvHelloDoes
    <3>2. CASE RecvRequest(p)
      <4>1. LET s == [st[p] EXCEPT !.serve_q = Append(@, Head(chan[p]).path)]
            IN  s.remote = st[p].remote /\ s.pulling = st[p].pulling
        BY <1>0 DEF Service
      <4> QED BY <3>2, <4>1, RecvRequestDoes
    <3>3. CASE SendRequest(p)
      <4>1. LET s == [st[p] EXCEPT !.pull_queue = Tail(@)]
            IN  s.remote = st[p].remote /\ s.pulling = st[p].pulling
        BY <1>0 DEF Service
      <4> QED BY <3>3, <4>1, SendRequestDoes
    <3>4. CASE Serve(p)
      <4>1. LET s == [st[p] EXCEPT !.serve_q = Tail(@)]
            IN  s.remote = st[p].remote /\ s.pulling = st[p].pulling
        BY <1>0 DEF Service
      <4> QED BY <3>4, <4>1, ServeDoes
    <3> QED BY <1>12, <3>1, <3>2, <3>3, <3>4
  <2>3. /\ st'[p].remote = st[p].remote /\ st'[p].pulling = st[p].pulling
        /\ st'[Other(p)] = st[Other(p)]
    BY <2>2 DEF Does, SameWork
  <2>4. st'[b].remote = st[b].remote /\ st'[b].pulling = st[b].pulling
    BY <1>0, <2>3 DEF b
  <2> QED BY <1>4, <2>1, <2>4
<1>13. ASSUME Drop \/ Connect \/ UNCHANGED vars PROVE Plans(a, old)'
  <2>1. todo' = todo
    BY <1>13 DEF Drop, Connect, vars
  <2>2. Drop => st'[b].remote = Unknown
    BY <1>0, DropResets DEF Resets
  <2>3. Unknown # wanted
    BY <1>0, PairAssumption
  <2>4. Connect \/ UNCHANGED vars => st' = st
    BY DEF Connect, vars
  <2> QED BY <1>4, <1>13, <2>1, <2>2, <2>3, <2>4
<1>14. ASSUME NEW p \in Peer, Crash(p) PROVE Plans(a, old)'
  <2>1. todo' = [todo EXCEPT ![p] = [t \in Thread |-> NoPlan]]
    BY <1>14 DEF Crash
  <2>2. st'[b].remote # wanted
    <3>1. st'[b].remote = Unknown
      BY <1>0, <1>14, CrashResets DEF Resets
    <3> QED BY <1>0, <3>1, PairAssumption
  <2>3. /\ todo'[b] = todo[b] \/ todo'[b] = [t \in Thread |-> NoPlan]
        /\ todo'[a] = todo[a] \/ todo'[a] = [t \in Thread |-> NoPlan]
    BY <1>0, <2>1
  <2>4. /\ \A t \in Thread : todo'[a][t].pull = {} /\ todo'[a][t].delete_local = {}
        /\ todo'[b]["daemon"] = NoPlan
        /\ todo'[b]["reactor"] = todo[b]["reactor"] \/ todo'[b]["reactor"] = NoPlan
    BY <1>0, <1>1, <2>3
  <2> QED BY <1>0, <1>1, <2>2, <2>4 DEF Plans, Changes, b
<1> QED BY <1>6, <1>7, <1>8, <1>9, <1>10, <1>11, <1>12, <1>13, <1>14 DEF Works, System, Scan, Receive

\* What a step says adds at most the message m that is not an update.
LEMMA LoneDoes ==
    ASSUME TypeOK, NEW p \in Peer, NEW s, NEW c, NEW m, Does(p, s, c, m),
           NEW o, o # "ManifestUpdate"
    PROVE  LET q == Other(p)
           IN  /\ \A S : m.op # o /\ Lone(chan[q], o, S) => Lone(chan'[q], o, S)
               /\ Lone(chan[q], o, {}) => Lone(chan'[q], o, {m})
<1> DEFINE k == chan[Other(p)]
           e == chan'[Other(p)]
<1>1. PICK d \in Seq(Message) : e = k \o d /\ Carries(d, m)
  BY DEF Does
<1>2. k \in Seq(Message)
  BY PeerFacts DEF TypeOK
<1> HIDE DEF k, e
<1>3. /\ Len(k) \in Nat /\ Len(d) \in Nat
      /\ \A i \in 1..Len(e) :
            \/ i \in 1..Len(k) /\ e[i] = k[i]
            \/ i - Len(k) \in 1..Len(d) /\ e[i] = d[i - Len(k)]
      /\ \A i \in 1..Len(k) : e[i] = k[i] /\ i \in 1..Len(e)
  BY <1>1, <1>2, ConcatElements
<1>4. \A i \in 1..Len(d) : d[i].op = o => i = 1 /\ d[i] = m
  BY <1>1 DEF Carries
<1>5. ASSUME NEW i \in 1..Len(e), e[i].op = o
      PROVE  \/ i \in 1..Len(k) /\ e[i] = k[i]
             \/ i = Len(k) + 1 /\ e[i] = m
  <2>1. CASE i \in 1..Len(k) /\ e[i] = k[i]
    BY <2>1
  <2>2. CASE i - Len(k) \in 1..Len(d) /\ e[i] = d[i - Len(k)]
    <3>1. i - Len(k) = 1 /\ e[i] = m
      BY <1>4, <1>5, <2>2
    <3>2. i \in Int /\ Len(k) \in Int
      BY <1>3
    <3> QED BY <3>1, <3>2
  <2> QED BY <1>3, <2>1, <2>2
<1>6. ASSUME NEW S, m.op # o, Lone(k, o, S) PROVE Lone(e, o, S)
  BY <1>5, <1>6 DEF Lone
<1>7. ASSUME Lone(k, o, {}) PROVE Lone(e, o, {m})
  BY <1>5, <1>7 DEF Lone
<1> QED BY <1>6, <1>7 DEF k, e

\* A pull moves in one place: a peer that owes the other nothing of a kind and puts one
\* message m on the link leaves that link with m alone of its kind, and a message of
\* another kind changes nothing of this one.
LEMMA LonePut ==
    ASSUME TypeOK, NEW p \in Peer, NEW s, NEW c, NEW m, Does(p, s, c, m),
           NEW q, q = Other(p),
           Lone(chan[q], "Request", {}), Lone(chan[q], "File", {}), Lone(chan[q], "NotFound", {})
    PROVE  /\ \A o \in {"Request", "File", "NotFound"} : m.op # o => Lone(chan'[q], o, {})
           /\ \A o \in {"Request", "File", "NotFound"} : Lone(chan'[q], o, {m})
<1>1. ASSUME NEW o \in {"Request", "File", "NotFound"}
      PROVE  /\ m.op # o => Lone(chan'[q], o, {})
             /\ Lone(chan'[q], o, {m})
  <2>1. o # "ManifestUpdate" /\ Lone(chan[Other(p)], o, {})
    BY <1>1
  <2>2. m.op # o => Lone(chan'[Other(p)], o, {})
    BY <2>1, LoneDoes
  <2>3. Lone(chan'[Other(p)], o, {m})
    BY <2>1, LoneDoes
  <2> QED BY <2>2, <2>3
<1> QED BY <1>1

\* The greeting is of none of those kinds.
LEMMA LoneHello ==
    ASSUME TypeOK, NEW p \in Peer, NEW s, NEW c, Does(p, s, c, Hello), NEW q, q = Other(p),
           Lone(chan[q], "Request", {}), Lone(chan[q], "File", {}), Lone(chan[q], "NotFound", {})
    PROVE  Lone(chan'[q], "Request", {}) /\ Lone(chan'[q], "File", {}) /\ Lone(chan'[q], "NotFound", {})
<1>1. Hello.op \notin {"Request", "File", "NotFound"}
  BY DEF Hello
<1> QED BY <1>1, LonePut

LEMMA OrderingOfOne ==
    /\ SetToSeq({}) = <<>>
    /\ \A f : SetToSeq({f}) = <<f>>
<1>1. SetToSeq({}) = <<>>
  <2>1. IsFiniteSet({})
    BY FS_EmptySet
  <2>2. SetToSeq({}) \in Seq({})
    BY <2>1, OrderingIsSeq
  <2> QED BY <2>2
<1>2. ASSUME NEW f PROVE SetToSeq({f}) = <<f>>
  <2>1. Cardinality({f}) = 1
    BY FS_Singleton
  <2>2. [i \in 1..1 |-> f] \in [1..1 -> {f}] /\ IsInjective([i \in 1..1 |-> f])
    BY DEF IsInjective
  <2>3. SetToSeq({f}) \in [1..1 -> {f}]
    <3>1. SetToSeq({f}) = CHOOSE g \in [1..1 -> {f}] : IsInjective(g)
      BY <2>1, Zenon DEF SetToSeq
    <3> HIDE DEF IsInjective
    <3>2. \E g \in [1..1 -> {f}] : IsInjective(g)
      BY <2>2
    <3> QED BY <3>1, <3>2
  <2>4. SetToSeq({f}) = [i \in 1..1 |-> f]
    BY <2>3
  <2> QED BY <2>4
<1> QED BY <1>1, <1>2

\* The change is of one path.
LEMMA OnePath ==
    ASSUME NEW old, OneChange(old), NEW X, \A f \in X : f \in Path /\ old[f] # wanted[f]
    PROVE  \A f \in X : X = {f} /\ X \ {f} = {}
BY DEF OneChange

\* A step that asks and answers nothing and reserves nothing new.
LEMMA SlotsSame ==
    ASSUME TypeOK, NEW a \in Peer, NEW old, Slots(a, old), wanted' = wanted, Climbs(old),
           NEW p \in Peer, NEW s, NEW c, Does(p, s, c, Hello),
           s.pulling = st[p].pulling, s.pull_queue = st[p].pull_queue, s.serve_q = st[p].serve_q,
           c = chan[p] \/ (chan[p] # <<>> /\ c = Tail(chan[p]))
    PROVE  Slots(a, old)'
<1> DEFINE b == Other(a)
<1>0. /\ b \in Peer /\ b # a /\ Other(b) = a /\ Other(a) = b /\ \A q \in Peer : q = a \/ q = b
      /\ \A q \in Peer : chan[q] \in Seq(Message) /\ Other(q) \in Peer /\ Other(q) # q
      /\ \A q, r \in Peer : q = r \/ q = Other(r)
  BY PeerFacts DEF TypeOK
<1>1. /\ st'[p].pulling = st[p].pulling /\ st'[p].pull_queue = st[p].pull_queue
      /\ st'[p].serve_q = st[p].serve_q /\ st'[Other(p)] = st[Other(p)] /\ chan'[p] = c
  BY DEF Does, SameWork
<1>2. \A q \in Peer : /\ st'[q].pulling = st[q].pulling /\ st'[q].pull_queue = st[q].pull_queue
                      /\ st'[q].serve_q = st[q].serve_q
  BY <1>0, <1>1
<1>3. \A q \in Peer, o \in {"Request", "File", "NotFound"} : \A S :
         Lone(chan[q], o, S) => Lone(chan'[q], o, S)
  <2>1. ASSUME NEW o \in {"Request", "File", "NotFound"}, NEW S, Lone(chan[p], o, S)
        PROVE  Lone(chan'[p], o, S)
    <3>1. chan[p] \in Seq(Message)
      BY <1>0
    <3>2. chan[p] # <<>> => Lone(Tail(chan[p]), o, S)
      BY <2>1, <3>1, LoneHead
    <3> QED BY <1>1, <2>1, <3>2
  <2>2. ASSUME NEW o \in {"Request", "File", "NotFound"}, NEW S, Lone(chan[Other(p)], o, S)
        PROVE  Lone(chan'[Other(p)], o, S)
    <3>1. Hello.op # o /\ o # "ManifestUpdate"
      BY DEF Hello
    <3> QED BY <2>2, <3>1, LoneDoes
  <2> QED BY <1>0, <2>1, <2>2
<1>4. st[a].local = wanted => st'[a].local = wanted
  BY DEF Climbs
<1>5. PICK w : /\ st[b].pull_queue = <<>> \/ st[b].pull_queue \in At(w, "queue", {<<f>> : f \in st[b].pulling})
               /\ st[a].serve_q = <<>> \/ st[a].serve_q \in At(w, "serve", {<<f>> : f \in st[b].pulling})
               /\ Lone(chan[a], "Request", At(w, "request", {Request(f) : f \in st[b].pulling}))
               /\ Lone(chan[b], "File", At(w, "file", {File(f, wanted[f]) : f \in st[b].pulling}))
  BY DEF Slots
<1>6. /\ st[a].pulling = {} /\ st[a].pull_queue = <<>> /\ st[b].serve_q = <<>>
      /\ Lone(chan[a], "File", {}) /\ Lone(chan[a], "NotFound", {})
      /\ Lone(chan[b], "Request", {}) /\ Lone(chan[b], "NotFound", {})
      /\ \A f \in st[b].pulling : Changes(a, old, f) /\ wanted[f] # Absent
  BY DEF Slots
<1>7. /\ Lone(chan'[a], "File", {}) /\ Lone(chan'[a], "NotFound", {})
      /\ Lone(chan'[b], "Request", {}) /\ Lone(chan'[b], "NotFound", {})
      /\ Lone(chan'[a], "Request", At(w, "request", {Request(f) : f \in st[b].pulling}))
      /\ Lone(chan'[b], "File", At(w, "file", {File(f, wanted[f]) : f \in st[b].pulling}))
  BY <1>0, <1>3, <1>5, <1>6
<1> HIDE DEF b
<1>8. /\ st'[b].pull_queue = <<>> \/ st'[b].pull_queue \in At(w, "queue", {<<f>> : f \in st'[b].pulling})
      /\ st'[a].serve_q = <<>> \/ st'[a].serve_q \in At(w, "serve", {<<f>> : f \in st'[b].pulling})
      /\ Lone(chan'[a], "Request", At(w, "request", {Request(f) : f \in st'[b].pulling}))
      /\ Lone(chan'[b], "File", At(w, "file", {File(f, wanted[f]) : f \in st'[b].pulling}))
  BY <1>0, <1>2, <1>5, <1>7
<1>9. /\ st'[a].pulling = {} /\ st'[a].pull_queue = <<>> /\ st'[b].serve_q = <<>>
      /\ \A f \in st'[b].pulling : Changes(a, old, f)' /\ wanted'[f] # Absent
  BY <1>0, <1>2, <1>4, <1>6 DEF Changes
<1> QED BY <1>7, <1>8, <1>9 DEF Slots, b

\* The parts of Slots once a place has been chosen.
Held(a, old, w) ==
    LET b == Other(a)
        X == st[b].pulling
    IN  /\ st[a].pulling = {} /\ st[a].pull_queue = <<>> /\ st[b].serve_q = <<>>
        /\ Lone(chan[a], "File", {}) /\ Lone(chan[a], "NotFound", {})
        /\ Lone(chan[b], "Request", {}) /\ Lone(chan[b], "NotFound", {})
        /\ \A f \in X : old[f] # wanted[f] /\ st[a].local = wanted /\ wanted[f] # Absent
        /\ st[b].pull_queue = <<>> \/ \E f \in X : w = "queue" /\ st[b].pull_queue = <<f>>
        /\ st[a].serve_q = <<>> \/ \E f \in X : w = "serve" /\ st[a].serve_q = <<f>>
        /\ Lone(chan[a], "Request", At(w, "request", {Request(f) : f \in X}))
        /\ Lone(chan[b], "File", At(w, "file", {File(f, wanted[f]) : f \in X}))

LEMMA SlotsHeld ==
    ASSUME NEW a, NEW old
    PROVE  /\ Slots(a, old) => \E w : Held(a, old, w)
           /\ (\E w : Held(a, old, w)') => Slots(a, old)'
<1>1. ASSUME Slots(a, old) PROVE \E w : Held(a, old, w)
  BY <1>1 DEF Slots, Held, At, Changes
<1>2. ASSUME NEW w, Held(a, old, w)' PROVE Slots(a, old)'
  BY <1>2 DEF Slots, Held, At, Changes
<1> QED BY <1>1, <1>2

LEMMA SlotsSent ==
    ASSUME TypeOK, NEW a \in Peer, NEW old \in Manifest, OneChange(old), Folders(a, old),
           Slots(a, old), wanted' = wanted, Climbs(old), NEW p \in Peer,
           SendRequest(p) \/ Serve(p)
    PROVE  Slots(a, old)'
<1> DEFINE b == Other(a)
           X == st[b].pulling
<1>0. /\ b \in Peer /\ b # a /\ Other(b) = a /\ Other(a) = b /\ \A q \in Peer : q = a \/ q = b
      /\ \A q \in Peer : chan[q] \in Seq(Message) /\ st[q] \in Service
      /\ X \subseteq Path
  BY PeerFacts DEF TypeOK, Service
<1>1. PICK w : Held(a, old, w)
  BY SlotsHeld
<1>2. /\ st[a].pulling = {} /\ st[a].pull_queue = <<>> /\ st[b].serve_q = <<>>
      /\ Lone(chan[a], "File", {}) /\ Lone(chan[a], "NotFound", {})
      /\ Lone(chan[b], "Request", {}) /\ Lone(chan[b], "NotFound", {})
      /\ \A f \in X : old[f] # wanted[f] /\ st'[a].local = wanted /\ wanted[f] # Absent
      /\ st[b].pull_queue = <<>> \/ \E f \in X : w = "queue" /\ st[b].pull_queue = <<f>>
      /\ st[a].serve_q = <<>> \/ \E f \in X : w = "serve" /\ st[a].serve_q = <<f>>
      /\ Lone(chan[a], "Request", At(w, "request", {Request(f) : f \in X}))
      /\ Lone(chan[b], "File", At(w, "file", {File(f, wanted[f]) : f \in X}))
  BY <1>1 DEF Held, Climbs
<1>3. \A f : Request(f).op = "Request" /\ \A m : File(f, m).op = "File"
  BY DEF Request, File
<1>4. CASE SendRequest(p)
  <2>1. st[p].pull_queue # <<>>
    BY <1>4 DEF SendRequest
  <2>2. p = b
    BY <1>0, <1>2, <2>1
  <2>3. PICK f \in X : w = "queue" /\ st[b].pull_queue = <<f>>
    BY <1>2, <2>1, <2>2
  <2>4. Head(st[b].pull_queue) = f /\ Tail(st[b].pull_queue) = <<>>
    BY <2>3
  <2> DEFINE s == [st[b] EXCEPT !.pull_queue = Tail(@)]
  <2>5. Does(b, s, chan[b], Request(f))
    BY <1>4, <2>2, <2>4, SendRequestDoes
  <2>6. s.pulling = X /\ s.pull_queue = <<>> /\ s.serve_q = st[b].serve_q
    BY <1>0, <2>4 DEF Service
  <2> HIDE DEF s
  <2>7. /\ st'[b].pulling = X /\ st'[b].pull_queue = <<>> /\ st'[b].serve_q = <<>>
        /\ st'[a] = st[a] /\ chan'[b] = chan[b]
    BY <1>0, <1>2, <2>5, <2>6 DEF Does, SameWork
  <2>8. /\ Lone(chan'[a], "File", {}) /\ Lone(chan'[a], "NotFound", {})
        /\ Lone(chan'[a], "Request", {Request(f)})
    <3>1. Lone(chan[a], "Request", {})
      BY <1>2, <2>3 DEF At
    <3>2. a = Other(b) /\ Lone(chan[a], "File", {}) /\ Lone(chan[a], "NotFound", {})
      BY <1>0, <1>2
    <3>3. b \in Peer /\ Request(f).op = "Request"
      BY <1>0, <1>3
    <3> QED BY <2>5, <3>1, <3>2, <3>3, LonePut
  <2>9. Lone(chan'[a], "Request", At("request", "request", {Request(g) : g \in X}))
    BY <2>8 DEF Lone, At
  <2>10. Lone(chan[b], "File", {})
    BY <1>2, <2>3 DEF At
  <2>11. Held(a, old, "request")'
    BY <1>2, <2>3, <2>7, <2>8, <2>9, <2>10 DEF Held, At, b
  <2> QED BY <2>11, SlotsHeld
<1>5. CASE Serve(p)
  <2>1. st[p].serve_q # <<>>
    BY <1>5 DEF Serve
  <2>2. p = a
    BY <1>0, <1>2, <2>1
  <2>3. PICK f \in X : w = "serve" /\ st[a].serve_q = <<f>>
    BY <1>2, <2>1, <2>2
  <2>4. Head(st[a].serve_q) = f /\ Tail(st[a].serve_q) = <<>>
    BY <2>3
  <2>5. disk[a][f] = wanted[f] /\ wanted[f] # Absent
    BY <1>2, <2>3 DEF Folders
  <2> DEFINE s == [st[a] EXCEPT !.serve_q = Tail(@)]
  <2>6. Does(a, s, chan[a], File(f, wanted[f]))
    BY <1>5, <2>2, <2>4, <2>5, ServeDoes
  <2>7. s.pulling = {} /\ s.pull_queue = <<>> /\ s.serve_q = <<>>
    BY <1>0, <1>2, <2>4 DEF Service
  <2> HIDE DEF s
  <2>8. /\ st'[a].pulling = {} /\ st'[a].pull_queue = <<>> /\ st'[a].serve_q = <<>>
        /\ st'[b] = st[b] /\ chan'[a] = chan[a]
    BY <1>0, <2>6, <2>7 DEF Does, SameWork
  <2>9. /\ Lone(chan'[b], "Request", {}) /\ Lone(chan'[b], "NotFound", {})
        /\ Lone(chan'[b], "File", {File(f, wanted[f])})
    <3>1. Lone(chan[b], "File", {})
      BY <1>2, <2>3 DEF At
    <3>2. b = Other(a) /\ Lone(chan[b], "Request", {}) /\ Lone(chan[b], "NotFound", {})
      BY <1>0, <1>2
    <3>3. File(f, wanted[f]).op = "File"
      BY <1>3
    <3> QED BY <2>6, <3>1, <3>2, <3>3, LonePut
  <2>10. Lone(chan'[b], "File", At("file", "file", {File(g, wanted[g]) : g \in X}))
    BY <2>9 DEF Lone, At
  <2>11. Lone(chan[a], "Request", {})
    BY <1>2, <2>3 DEF At
  <2>12. st[b].pull_queue = <<>>
    BY <1>2, <2>3
  <2>13. Held(a, old, "file")'
    BY <1>2, <2>8, <2>9, <2>10, <2>11, <2>12 DEF Held, At, b
  <2> QED BY <2>13, SlotsHeld
<1> QED BY <1>4, <1>5

LEMMA SlotsGot ==
    ASSUME Orderly, TypeOK, NEW a \in Peer, NEW old \in Manifest, OneChange(old), Folders(a, old),
           Slots(a, old), wanted' = wanted, Climbs(old), NEW p \in Peer,
           RecvRequest(p) \/ RecvFile(p) \/ RecvNotFound(p)
    PROVE  Slots(a, old)'
<1> DEFINE b == Other(a)
           X == st[b].pulling
           h == Head(chan[p])
<1>0. /\ b \in Peer /\ b # a /\ Other(b) = a /\ Other(a) = b /\ \A q \in Peer : q = a \/ q = b
      /\ \A q \in Peer : chan[q] \in Seq(Message) /\ st[q] \in Service
      /\ X \subseteq Path
  BY PeerFacts DEF TypeOK, Service
<1>1. PICK w : Held(a, old, w)
  BY SlotsHeld
<1>2. /\ st[a].pulling = {} /\ st[a].pull_queue = <<>> /\ st[b].serve_q = <<>>
      /\ Lone(chan[a], "File", {}) /\ Lone(chan[a], "NotFound", {})
      /\ Lone(chan[b], "Request", {}) /\ Lone(chan[b], "NotFound", {})
      /\ \A f \in X : old[f] # wanted[f] /\ st'[a].local = wanted /\ wanted[f] # Absent
      /\ st[b].pull_queue = <<>> \/ \E f \in X : w = "queue" /\ st[b].pull_queue = <<f>>
      /\ st[a].serve_q = <<>> \/ \E f \in X : w = "serve" /\ st[a].serve_q = <<f>>
      /\ Lone(chan[a], "Request", At(w, "request", {Request(f) : f \in X}))
      /\ Lone(chan[b], "File", At(w, "file", {File(f, wanted[f]) : f \in X}))
  BY <1>1 DEF Held, Climbs
<1>3. chan[p] # <<>> /\ chan[p] \in Seq(Message)
  BY <1>0 DEF RecvRequest, RecvFile, RecvNotFound, Receives
<1>4. /\ \A o, S : Lone(chan[p], o, S) =>
            /\ Lone(Tail(chan[p]), o, S)
            /\ h.op = o => h \in S /\ Lone(Tail(chan[p]), o, {})
  BY <1>3, LoneHead
<1> HIDE DEF h
<1>5. CASE RecvRequest(p)
  <2>1. h.op = "Request"
    BY <1>5 DEF RecvRequest, Receives, h
  <2>2. p = a
    BY <1>0, <1>2, <1>4, <2>1
  <2>3. h \in At(w, "request", {Request(f) : f \in X}) /\ Lone(Tail(chan[a]), "Request", {})
    BY <1>2, <1>4, <2>1, <2>2
  <2>4. PICK f \in X : w = "request" /\ h = Request(f)
    BY <2>3 DEF At
  <2>5. h.path = f
    BY <2>4 DEF Request
  <2> DEFINE s == [st[a] EXCEPT !.serve_q = Append(@, f)]
  <2>6. Does(a, s, Tail(chan[a]), Hello)
    BY <1>5, <2>2, <2>5, RecvRequestDoes DEF h
  <2>7. s.pulling = {} /\ s.pull_queue = <<>> /\ s.serve_q = <<f>>
    <3>1. st[a].serve_q = <<>>
      BY <1>2, <2>4
    <3> QED BY <1>0, <1>2, <3>1 DEF Service
  <2> HIDE DEF s
  <2>8. /\ st'[a].pulling = {} /\ st'[a].pull_queue = <<>> /\ st'[a].serve_q = <<f>>
        /\ st'[b] = st[b] /\ chan'[a] = Tail(chan[a])
    BY <1>0, <2>6, <2>7 DEF Does, SameWork
  <2>9. /\ Lone(chan'[b], "Request", {}) /\ Lone(chan'[b], "NotFound", {})
        /\ Lone(chan'[b], "File", {})
    <3>1. Lone(chan[b], "File", {})
      BY <1>2, <2>4 DEF At
    <3>2. b = Other(a) /\ Lone(chan[b], "Request", {}) /\ Lone(chan[b], "NotFound", {})
      BY <1>0, <1>2
    <3> QED BY <2>6, <3>1, <3>2, LoneHello
  <2>10. st[b].pull_queue = <<>>
    BY <1>2, <2>4
  <2>11. Lone(chan'[a], "File", {}) /\ Lone(chan'[a], "NotFound", {}) /\ Lone(chan'[a], "Request", {})
    BY <1>2, <1>4, <2>2, <2>3, <2>8
  <2>12. Held(a, old, "serve")'
    BY <1>2, <2>8, <2>9, <2>10, <2>11 DEF Held, At, b
  <2> QED BY <2>12, SlotsHeld
<1>6. CASE RecvFile(p)
  <2>1. h.op = "File" /\ p = b
    BY <1>6, FileArrives DEF RecvFile, Receives, h
  <2>2. h \in At(w, "file", {File(f, wanted[f]) : f \in X}) /\ Lone(Tail(chan[b]), "File", {})
    BY <1>2, <1>4, <2>1
  <2>3. PICK f \in X : w = "file" /\ h = File(f, wanted[f])
    BY <2>2 DEF At
  <2>4. h.path = f /\ X \ {f} = {}
    BY <1>0, <1>2, <2>3, OnePath DEF File
  <2> DEFINE s == [st[b] EXCEPT !.local = st'[b].local, !.pulling = @ \ {f}]
  <2>5. Does(b, s, Tail(chan[b]), Hello)
    BY <1>6, <2>1, <2>4, RecvFileDoes DEF h
  <2>6. s.pulling = {} /\ s.pull_queue = <<>> /\ s.serve_q = <<>>
    <3>1. st[b].pull_queue = <<>>
      BY <1>2, <2>3
    <3> QED BY <1>0, <1>2, <2>4, <3>1 DEF Service
  <2> HIDE DEF s
  <2>7. /\ st'[b].pulling = {} /\ st'[b].pull_queue = <<>> /\ st'[b].serve_q = <<>>
        /\ st'[a] = st[a] /\ chan'[b] = Tail(chan[b])
    BY <1>0, <2>5, <2>6 DEF Does, SameWork
  <2>8. /\ Lone(chan'[a], "File", {}) /\ Lone(chan'[a], "NotFound", {})
        /\ Lone(chan'[a], "Request", {})
    <3>1. Lone(chan[a], "Request", {})
      BY <1>2, <2>3 DEF At
    <3>2. /\ b \in Peer /\ a = Other(b)
          /\ Lone(chan[a], "File", {}) /\ Lone(chan[a], "NotFound", {})
      BY <1>0, <1>2
    <3> QED BY <2>5, <3>1, <3>2, LoneHello
  <2>9. st[a].serve_q = <<>>
    BY <1>2, <2>3
  <2>10. Lone(chan'[b], "Request", {}) /\ Lone(chan'[b], "NotFound", {}) /\ Lone(chan'[b], "File", {})
    BY <1>2, <1>4, <2>1, <2>2, <2>7
  <2>11. Held(a, old, "none")'
    BY <1>2, <2>7, <2>8, <2>9, <2>10 DEF Held, At, b
  <2> QED BY <2>11, SlotsHeld
<1>7. CASE RecvNotFound(p)
  <2>1. h.op = "NotFound"
    BY <1>7 DEF RecvNotFound, Receives, h
  <2>2. h \in {}
    BY <1>0, <1>2, <1>4, <2>1
  <2> QED BY <2>2
<1> QED BY <1>5, <1>6, <1>7

LEMMA SlotsReserved ==
    ASSUME TypeOK, NEW a \in Peer, NEW old \in Manifest, OneChange(old),
           Plans(a, old), Slots(a, old), wanted' = wanted, Climbs(old),
           NEW p \in Peer, NEW t \in Thread, Execute(p, t)
    PROVE  Slots(a, old)'
<1> DEFINE b == Other(a)
           X == st[b].pulling
           pull == todo[p][t].pull
           s == [st[p] EXCEPT !.local = st'[p].local, !.pulling = @ \union pull,
                              !.pull_queue = @ \o SetToSeq(pull \ st[p].pulling)]
<1>0. /\ b \in Peer /\ b # a /\ Other(b) = a /\ Other(a) = b /\ \A q \in Peer : q = a \/ q = b
      /\ \A q \in Peer : chan[q] \in Seq(Message) /\ st[q] \in Service
      /\ X \subseteq Path /\ pull \subseteq Path
  BY PeerFacts DEF TypeOK, Service
<1>1. Does(p, s, chan[p], Hello) /\ todo[p][t].due
  BY ExecuteDoes DEF Execute
<1>2. /\ s.pulling = st[p].pulling \union pull
      /\ s.pull_queue = st[p].pull_queue \o SetToSeq(pull \ st[p].pulling)
      /\ s.serve_q = st[p].serve_q
  BY <1>0 DEF Service
<1> HIDE DEF s, pull
<1>3. CASE pull \ st[p].pulling = {}
  <2>1. st[p].pulling \union pull = st[p].pulling
    BY <1>3
  <2>2. st[p].pull_queue \o SetToSeq(pull \ st[p].pulling) = st[p].pull_queue
    <3>1. SetToSeq(pull \ st[p].pulling) = <<>>
      BY <1>3, OrderingOfOne
    <3>2. st[p].pull_queue \in Seq(Path)
      BY <1>0 DEF Service
    <3>3. \A q \in Seq(Path) : q \o <<>> = q
      OBVIOUS
    <3> QED BY <3>1, <3>2, <3>3
  <2> QED BY <1>1, <1>2, <2>1, <2>2, SlotsSame
<1>4. CASE pull \ st[p].pulling # {}
  <2>1. p = b /\ t = "reactor"
    BY <1>0, <1>1, <1>4 DEF Plans, NoPlan, Thread, pull
  <2>2. \A g \in pull : old[g] # wanted[g] /\ st[a].local = wanted /\ wanted[g] # Absent
    BY <2>1 DEF Plans, Changes, pull
  <2>3. PICK w : Held(a, old, w)
    BY SlotsHeld
  <2>4. \A g \in X : old[g] # wanted[g]
    BY <2>3 DEF Held
  <2>5. PICK f \in pull : f \notin X
    BY <1>4, <2>1
  <2>6. pull \union X = {f}
    <3>1. \A g \in pull \union X : g \in Path /\ old[g] # wanted[g]
      BY <1>0, <2>2, <2>4
    <3> DEFINE Y == pull \union X
    <3>2. f \in Y /\ \A g \in Y : g \in Path /\ old[g] # wanted[g]
      BY <2>5, <3>1
    <3> HIDE DEF Y
    <3>3. \A g \in Y : Y = {g}
      BY <3>2, OnePath
    <3> QED BY <3>2, <3>3 DEF Y
  <2>7. X = {} /\ pull = {f}
    BY <2>5, <2>6
  <2>8. /\ st[a].pulling = {} /\ st[a].pull_queue = <<>> /\ st[b].serve_q = <<>>
        /\ Lone(chan[a], "File", {}) /\ Lone(chan[a], "NotFound", {})
        /\ Lone(chan[b], "Request", {}) /\ Lone(chan[b], "NotFound", {})
        /\ st[b].pull_queue = <<>> /\ st[a].serve_q = <<>>
        /\ Lone(chan[a], "Request", {}) /\ Lone(chan[b], "File", {})
    <3>1. At(w, "request", {Request(g) : g \in X}) = {} /\ At(w, "file", {File(g, wanted[g]) : g \in X}) = {}
      BY <2>7 DEF At
    <3> QED BY <2>3, <2>7, <3>1 DEF Held
  <2>9. s.pulling = {f} /\ s.pull_queue = <<f>> /\ s.serve_q = <<>>
    <3>1. SetToSeq(pull \ st[p].pulling) = <<f>>
      BY <2>1, <2>7, OrderingOfOne
    <3> QED BY <1>2, <2>1, <2>7, <2>8, <3>1
  <2>10. /\ st'[b].pulling = {f} /\ st'[b].pull_queue = <<f>> /\ st'[b].serve_q = <<>>
         /\ st'[a] = st[a] /\ chan'[b] = chan[b]
    BY <1>0, <1>1, <2>1, <2>9 DEF Does, SameWork
  <2>11. Does(b, s, chan[b], Hello) /\ b \in Peer /\ a = Other(b)
    BY <1>0, <1>1, <2>1
  <2>12. /\ Lone(chan'[a], "File", {}) /\ Lone(chan'[a], "NotFound", {})
         /\ Lone(chan'[a], "Request", {})
    BY <2>8, <2>11, LoneHello
  <2>13. old[f] # wanted[f] /\ st[a].local = wanted /\ wanted[f] # Absent
    BY <2>2, <2>5
  <2>14. Held(a, old, "queue")'
    BY <2>8, <2>10, <2>12, <2>13 DEF Held, At, b
  <2> QED BY <2>14, SlotsHeld
<1> QED BY <1>3, <1>4

LEMMA SlotsKept ==
    ASSUME Orderly, TypeOK, Informed, Works, NEW a \in Peer, NEW old \in Manifest, OneChange(old),
           Folders(a, old), Plans(a, old), Slots(a, old), wanted' = wanted, Climbs(old)
    PROVE  Slots(a, old)'
<1> DEFINE b == Other(a)
<1>0. /\ b \in Peer /\ b # a /\ \A q \in Peer : q = a \/ q = b
      /\ \A q \in Peer : chan[q] \in Seq(Message) /\ st[q] \in Service
  BY PeerFacts DEF TypeOK
<1>1. ASSUME NEW p \in Peer, Publish(p) PROVE Slots(a, old)'
  <2> DEFINE s == [st[p] EXCEPT !.local = st'[p].local]
  <2>1. Does(p, s, chan[p], Hello)
    BY <1>1, PublishDoes
  <2>2. s.pulling = st[p].pulling /\ s.pull_queue = st[p].pull_queue /\ s.serve_q = st[p].serve_q
    BY <1>0 DEF Service
  <2> HIDE DEF s
  <2> QED BY <2>1, <2>2, SlotsSame
<1>2. ASSUME NEW p \in Peer, RecvHello(p) PROVE Slots(a, old)'
  <2> DEFINE s == [st[p] EXCEPT !.session = TRUE]
  <2>1. Does(p, s, Tail(chan[p]), Hello) /\ chan[p] # <<>>
    BY <1>2, RecvHelloDoes DEF RecvHello, Receives
  <2>2. s.pulling = st[p].pulling /\ s.pull_queue = st[p].pull_queue /\ s.serve_q = st[p].serve_q
    BY <1>0 DEF Service
  <2> HIDE DEF s
  <2> QED BY <2>1, <2>2, SlotsSame
<1>3. ASSUME NEW p \in Peer, RecvUpdate(p) PROVE Slots(a, old)'
  <2> DEFINE s == [st[p] EXCEPT !.remote = Head(chan[p]).tree]
  <2>1. Does(p, s, Tail(chan[p]), Hello) /\ chan[p] # <<>>
    BY <1>3, RecvUpdateDoes DEF RecvUpdate, Receives
  <2>2. s.pulling = st[p].pulling /\ s.pull_queue = st[p].pull_queue /\ s.serve_q = st[p].serve_q
    BY <1>0 DEF Service
  <2> HIDE DEF s
  <2> QED BY <2>1, <2>2, SlotsSame
<1>4. ASSUME UNCHANGED <<st, chan>> PROVE Slots(a, old)'
  BY <1>4 DEF Slots, Changes
<1>5. ASSUME NEW p \in Peer, Walk(p) PROVE Slots(a, old)'
  BY <1>4, <1>5 DEF Walk
\* With nothing on its way, nothing is at a place.
<1>6. ASSUME \A q \in Peer : /\ st'[q].pull_queue = <<>> /\ st'[q].serve_q = <<>>
                             /\ \A i \in 1..Len(chan'[q]) : chan'[q][i].op = "Hello",
             st'[a].pulling = {}, st'[b].pulling = {} \/ st' = st
      PROVE  Slots(a, old)'
  <2>1. \A f \in st'[b].pulling : old[f] # wanted[f] /\ st'[a].local = wanted /\ wanted[f] # Absent
    <3>1. CASE st'[b].pulling = {}
      BY <3>1
    <3>2. CASE st' = st
      BY <3>2 DEF Slots, Changes
    <3> QED BY <1>6, <3>1, <3>2
  <2>2. \A q \in Peer, o \in {"Request", "File", "NotFound"} : \A S : Lone(chan'[q], o, S)
    BY <1>6 DEF Lone
  <2>3. Held(a, old, "none")'
    BY <1>0, <1>6, <2>1, <2>2 DEF Held, b
  <2> QED BY <2>3, SlotsHeld
<1>7. ASSUME Drop \/ (\E p \in Peer : Crash(p)) PROVE Slots(a, old)'
  <2>1. Resets
    BY <1>7, DropResets, CrashResets
  <2>2. \A q \in Peer : /\ st'[q].pull_queue = <<>> /\ st'[q].serve_q = <<>> /\ st'[q].pulling = {}
                        /\ chan'[q] = <<>>
    BY <2>1 DEF Resets, Busy
  <2>3. \A i \in 1..Len(<<>>) : FALSE
    OBVIOUS
  <2>4. \A q \in Peer : \A i \in 1..Len(chan'[q]) : FALSE
    BY <2>2, <2>3
  <2> QED BY <1>0, <1>6, <2>2, <2>4
<1>8. ASSUME Connect PROVE Slots(a, old)'
  <2>1. /\ st' = st /\ \A q \in Peer : chan'[q] = <<Hello>>
        /\ \A q \in Peer : st[q].pull_queue = <<>> /\ st[q].serve_q = <<>>
    BY <1>8 DEF Connect, Informed, Disused
  <2>2. \A i \in 1..Len(<<Hello>>) : <<Hello>>[i].op = "Hello"
    BY DEF Hello
  <2>3. st[a].pulling = {}
    BY DEF Slots
  <2> QED BY <1>6, <2>1, <2>2, <2>3
<1>9. UNCHANGED vars => Slots(a, old)'
  BY <1>4 DEF vars
<1> QED BY <1>1, <1>2, <1>3, <1>5, <1>7, <1>8, <1>9, SlotsReserved, SlotsGot, SlotsSent
        DEF Works, System, Scan, Receive

\* A plan that is not due is none.
Idling == \A p \in Peer, t \in Thread : todo[p][t].due \/ todo[p][t] = NoPlan

\* Contents the users have not made yet are not wanted.
Fresh == \A f \in Path : wanted[f] # Absent => wanted[f].hash <= edits

\* The change on its way.
Serial == \E old \in Manifest, a \in Peer :
             /\ OneChange(old) /\ Folders(a, old) /\ \A p \in Peer : Views(p, old)
             /\ Plans(a, old) /\ Slots(a, old)

\* The inductive invariant.
Settling == /\ TypeOK /\ Informed /\ (\A p \in Peer : Checked(p))
            /\ Idling /\ Fresh /\ Serial

LEMMA IdlingKept ==
    ASSUME TypeOK, Idling, [Next]_vars
    PROVE  Idling'
<1>0. /\ todo \in [Peer -> [Thread -> PlanOf]]
      /\ \A p, s : Decided(p, s).due \/ Decided(p, s) = NoPlan
  BY DEF TypeOK, PlanOf, Decided
<1>1. ASSUME NEW p \in Peer, NEW u \in Thread, NEW pl, pl.due \/ pl = NoPlan,
             todo' = [todo EXCEPT ![p][u] = pl]
      PROVE  Idling'
  BY <1>0, <1>1 DEF Idling
<1>2. ASSUME NEW p \in Peer, Publish(p) PROVE Idling'
  <2> DEFINE pl == IF st[p].session THEN Decided(p, st'[p]) ELSE NoPlan
  <2>1. todo' = [todo EXCEPT ![p]["daemon"] = pl]
    BY <1>2, PublishDoes
  <2>2. pl.due \/ pl = NoPlan
    BY <1>0
  <2> HIDE DEF pl
  <2> QED BY <1>1, <2>1, <2>2 DEF Thread
<1>3. ASSUME NEW p \in Peer, RecvUpdate(p) PROVE Idling'
  <2> DEFINE pl == Decided(p, st'[p])
  <2>1. todo' = [todo EXCEPT ![p]["reactor"] = pl]
    BY <1>3, RecvUpdateDoes
  <2>2. pl.due \/ pl = NoPlan
    BY <1>0
  <2> HIDE DEF pl
  <2> QED BY <1>1, <2>1, <2>2 DEF Thread
<1>4. ASSUME NEW p \in Peer, NEW t \in Thread, Execute(p, t) PROVE Idling'
  BY <1>1, <1>4 DEF Execute
<1>5. ASSUME NEW p \in Peer, Crash(p) PROVE Idling'
  BY <1>0, <1>5 DEF Crash, Idling
<1>6. ASSUME UNCHANGED todo PROVE Idling'
  BY <1>6 DEF Idling
<1>7. ASSUME NEW p \in Peer,
             \/ User(p) \/ Walk(p) \/ RecvHello(p) \/ RecvRequest(p) \/ RecvFile(p)
             \/ RecvNotFound(p) \/ SendRequest(p) \/ Serve(p)
      PROVE  UNCHANGED todo
  BY <1>7 DEF User, Edit, Delete, Walk, RecvHello, RecvRequest, RecvFile, RecvNotFound,
              SendRequest, Serve
<1>8. Connect \/ Drop \/ UNCHANGED vars => UNCHANGED todo
  BY DEF Connect, Drop, vars
<1> QED BY <1>2, <1>3, <1>4, <1>5, <1>6, <1>7, <1>8 DEF Next, System, Scan, Receive

\* At rest, everything is the tree wanted.
LEMMA AtRest ==
    ASSUME Orderly, TypeOK, Informed, \A p \in Peer : Checked(p), NEW a \in Peer,
           NEW old \in Manifest, OneChange(old), Folders(a, old), \A p \in Peer : Views(p, old),
           Plans(a, old), Quiet
    PROVE  \A p \in Peer : /\ disk[p] = wanted /\ st[p].local = wanted
                           /\ st[p].remote = wanted /\ st[p].base = wanted
<1> DEFINE b == Other(a)
<1>0. /\ b \in Peer /\ Other(b) = a /\ Other(a) = b /\ \A q \in Peer : q = a \/ q = b
      /\ wanted \in Manifest /\ Unknown # wanted
  BY PeerFacts, PairAssumption DEF TypeOK
<1>1. \A p \in Peer : /\ disk[p] = st[p].local /\ ~Busy(st[p])
                      /\ \A t \in Thread : ~todo[p][t].due
  BY DEF Quiet
<1>2. \A p \in Peer : st[p].remote = st[Other(p)].local
  BY InformedAtRest DEF QuietMeansInformed
<1>3. st[a].local = wanted
  BY <1>1 DEF Folders
<1>4. st[b].local = wanted
  <2>1. st[b].remote = wanted
    BY <1>0, <1>2, <1>3
  <2>2. st[b].pulling = {} /\ ~todo[b]["reactor"].due
    BY <1>0, <1>1 DEF Busy, Thread
  <2> QED BY <2>1, <2>2 DEF Plans
<1>5. \A p \in Peer : st[p].local = wanted /\ st[p].remote = wanted
  BY <1>0, <1>2, <1>3, <1>4
<1>6. ASSUME NEW p \in Peer PROVE st[p].base = wanted
  <2>1. \/ st[p].last_eval_valid
        \/ SameTree(st[p].base, st[p].local)
    BY <1>0, <1>1, <1>5 DEF Checked, Looked
  <2>2. \/ ~EmptyPlan(PlanFor(st[p].base, st[p].local, st[p].remote, Opt[p]))
        \/ SameTree(st[p].base, st[p].local)
    BY <1>0, <1>5, <2>1 DEF Checked, Judged
  <2>3. EmptyPlan(PlanFor(st[p].base, wanted, wanted, Opt[p]))
    <3>1. \A f : Decide(f, BaseFor(st[p].base, Opt[p]), wanted, wanted, Opt[p]) = "None"
      BY DEF Decide, DecideTwoWay, Settled, SameEntry, SameContent, Orderly
    <3> QED BY <3>1 DEF PlanFor, EmptyPlan
  <2>4. SameTree(st[p].base, wanted)
    BY <1>5, <2>2, <2>3
  <2>5. st[p].base \in {old, wanted}
    BY DEF Views
  <2> QED BY <1>0, <2>4, <2>5, TreesDiffer
<1> QED BY <1>1, <1>5, <1>6

\* A user acts.
LEMMA SerialBegins ==
    ASSUME Orderly, Settling, NEW p \in Peer, User(p)
    PROVE  Serial' /\ Fresh'
<1> DEFINE b == Other(p)
<1>a. /\ TypeOK /\ Informed /\ (\A q \in Peer : Checked(q))
      /\ Idling /\ Fresh /\ Serial
  BY DEF Settling
<1>0. /\ b \in Peer /\ b # p /\ \A q \in Peer : q = p \/ q = b
      /\ wanted \in Manifest /\ disk \in [Peer -> Manifest] /\ edits \in Nat
  BY <1>a, PeerFacts DEF TypeOK
<1>1. PICK f \in Path : Edit(p, f) \/ Delete(p, f)
  BY DEF User
<1>2. Quiet
  BY <1>1 DEF Edit, Delete, MayAct, Orderly
<1>3. \A q \in Peer : /\ disk[q] = wanted /\ st[q].local = wanted
                      /\ st[q].remote = wanted /\ st[q].base = wanted
                      /\ st[q].pull_queue = <<>>
  <2>1. PICK old \in Manifest, a \in Peer :
             /\ OneChange(old) /\ Folders(a, old) /\ \A q \in Peer : Views(q, old)
             /\ Plans(a, old) /\ Slots(a, old)
    BY <1>a DEF Serial
  <2>2. \A q \in Peer : st[q].pull_queue = <<>>
    <3>1. PICK w : Held(a, old, w)
      BY <2>1, SlotsHeld
    <3>2. \A q \in Peer : st[q].pulling = {} /\ (q = a \/ q = Other(a))
      BY <1>2, PeerFacts DEF Quiet, Busy
    <3> QED BY <3>1, <3>2 DEF Held
  <2> QED BY <1>2, <1>a, <2>1, <2>2, AtRest
<1>4. \A q \in Peer : /\ chan[q] = <<>> /\ ~walk[q].on /\ ~Busy(st[q])
                      /\ \A t \in Thread : todo[q][t] = NoPlan
  BY <1>2, <1>a DEF Quiet, Idling
<1>5. PICK m \in Entry :
         /\ disk' = [disk EXCEPT ![p][f] = m] /\ wanted' = [wanted EXCEPT ![f] = disk'[p][f]]
         /\ ~SameEntry(wanted[f], m) /\ edits' \in Nat /\ edits <= edits'
         /\ m # Absent => m.hash = edits'
         /\ UNCHANGED <<st, todo, walk, chan, linked>>
  <2>1. CASE Edit(p, f)
    <3> DEFINE m == [hash |-> edits', mtime |-> MTimeOf[edits']]
    <3>1. edits' = edits + 1 /\ edits' \in 1..MaxEdits
      <4>1. edits \in Nat /\ edits < MaxEdits /\ edits' = edits + 1
        BY <1>a, <2>1 DEF Edit, TypeOK
      <4> QED BY ONLY <4>1, PairAssumption
    <3>2. edits' \in Hash
      BY <3>1, PairAssumption
    <3>3. m \in Entry
      BY <3>2, PairAssumption DEF FileMeta, Entry
    <3>4. m.hash = edits'
      OBVIOUS
    <3>5. wanted[f] # Absent => wanted[f].hash <= edits
      BY <1>a DEF Fresh
    <3>6. m # Absent
      BY <3>2, PairAssumption, ContentAssumption DEF FileMeta
    <3>7. /\ disk' = [disk EXCEPT ![p][f] = m] /\ wanted' = [wanted EXCEPT ![f] = disk'[p][f]]
          /\ UNCHANGED <<st, todo, walk, chan, linked>>
      BY <2>1 DEF Edit
    <3> HIDE DEF m
    <3>8. ~SameEntry(wanted[f], m)
      <4>1. edits' # edits /\ ~(edits' <= edits)
        BY <1>0, <3>1
      <4> QED BY <3>4, <3>5, <3>6, <4>1 DEF SameEntry, SameContent
    <3>9. edits' \in Nat /\ edits <= edits'
      BY <1>0, <3>1
    <3> QED BY <3>3, <3>4, <3>7, <3>8, <3>9
  <2>2. CASE Delete(p, f)
    <3>1. wanted[f] # Absent /\ edits' = edits
      BY <1>3, <2>2 DEF Delete
    <3>2. /\ disk' = [disk EXCEPT ![p][f] = Absent] /\ wanted' = [wanted EXCEPT ![f] = disk'[p][f]]
          /\ UNCHANGED <<st, todo, walk, chan, linked>>
      <4>1. /\ disk' = [disk EXCEPT ![p][f] = Absent] /\ wanted' = [wanted EXCEPT ![f] = Absent]
            /\ UNCHANGED <<st, todo, walk, chan, linked>>
        BY <2>2 DEF Delete
      <4>2. disk'[p][f] = Absent
        BY <1>0, <4>1 DEF Manifest
      <4> QED BY <4>1, <4>2
    <3>3. ~SameEntry(wanted[f], Absent) /\ Absent \in Entry
      BY <3>1 DEF SameEntry, Entry
    <3>4. edits' \in Nat /\ edits <= edits'
      BY <1>0, <3>1
    <3> DEFINE n == Absent
    <3>5. n \in Entry /\ ~SameEntry(wanted[f], n) /\ n = Absent
      BY <3>3
    <3>6. /\ disk' = [disk EXCEPT ![p][f] = n]
          /\ UNCHANGED <<st, todo, walk, chan, linked>>
      BY <3>2
    <3> HIDE DEF n
    <3> QED BY <3>2, <3>4, <3>5, <3>6, ZenonT(30)
  <2> QED BY <1>1, <2>1, <2>2
<1>6. /\ disk'[p] = wanted' /\ disk'[b] = wanted
      /\ wanted' = [wanted EXCEPT ![f] = m] /\ wanted' \in Manifest
  <2>1. disk'[p] = [wanted EXCEPT ![f] = m] /\ disk'[b] = wanted
    BY <1>0, <1>3, <1>5
  <2>2. disk'[p][f] = m
    BY <1>0, <2>1 DEF Manifest
  <2>3. wanted' = [wanted EXCEPT ![f] = m]
    BY <1>5, <2>2
  <2> QED BY <1>0, <2>1, <2>3 DEF Manifest
<1>7. Fresh'
  <2> SUFFICES ASSUME NEW g \in Path, wanted'[g] # Absent PROVE wanted'[g].hash <= edits'
    BY DEF Fresh
  <2>1. CASE g = f
    BY <1>0, <1>5, <1>6, <2>1 DEF Manifest
  <2>2. CASE g # f
    <3>1. wanted'[g] = wanted[g]
      BY <1>0, <1>6, <2>2 DEF Manifest
    <3>2. wanted[g] # Absent /\ wanted[g] \in FileMeta
      BY <1>0, <3>1 DEF Manifest, Entry
    <3>3. wanted[g].hash \in Nat /\ wanted[g].hash <= edits
      BY <1>a, <3>2, ContentAssumption DEF FileMeta, Fresh
    <3> QED BY <1>0, <1>5, <3>1, <3>3
  <2> QED BY <2>1, <2>2
<1>8. PICK old \in Manifest : old = wanted
  BY <1>0
<1>9. OneChange(old)'
  <2>1. \A g \in Path : old[g] # wanted'[g] => g = f
    BY <1>0, <1>6, <1>8 DEF Manifest
  <2>2. wanted'[f] = m
    BY <1>0, <1>6 DEF Manifest
  <2> QED BY <1>5, <1>8, <2>1, <2>2 DEF OneChange
<1>10. Folders(p, old)'
  BY <1>0, <1>3, <1>4, <1>5, <1>6, <1>8 DEF Folders
<1>11. ASSUME NEW q \in Peer PROVE Views(q, old)'
  <2>1. /\ st'[q].base = old /\ st'[q].remote = old /\ st'[q].local = old
        /\ st'[Other(q)].local = old /\ chan'[q] = <<>>
    BY <1>0, <1>3, <1>4, <1>5, <1>8, PeerFacts
  <2>2. \A i \in 1..Len(<<>>) : FALSE
    OBVIOUS
  <2> QED BY <2>1, <2>2 DEF Views, Climbing, Ahead
<1>12. Plans(p, old)'
  <2>1. \A q \in Peer : \A t \in Thread : todo'[q][t] = NoPlan
    BY <1>4, <1>5
  <2>2. NoPlan.pull = {} /\ NoPlan.delete_local = {}
    BY DEF NoPlan
  <2>3. st'[b].remote = st'[b].local
    BY <1>0, <1>3, <1>5
  <2> QED BY <1>0, <2>1, <2>2, <2>3 DEF Plans, Thread, b
<1>13. Slots(p, old)'
  <2>1. \A q \in Peer : st'[q].pulling = {} /\ st'[q].serve_q = <<>> /\ chan'[q] = <<>>
    BY <1>4, <1>5 DEF Busy
  <2>2. \A q \in Peer : st'[q].pull_queue = <<>>
    BY <1>3, <1>5
  <2>3. \A i \in 1..Len(<<>>) : FALSE
    OBVIOUS
  <2>4. \A o, S : Lone(<<>>, o, S)
    BY <2>3 DEF Lone
  <2>5. Held(p, old, "none")'
    BY <1>0, <2>1, <2>2, <2>4 DEF Held
  <2> QED BY <2>5, SlotsHeld
<1> QED BY <1>7, <1>9, <1>10, <1>11, <1>12, <1>13 DEF Serial

LEMMA SettlingKept ==
    ASSUME Orderly, Settling, [Next]_vars
    PROVE  Settling'
<1>1. /\ TypeOK /\ Informed /\ (\A q \in Peer : Checked(q))
      /\ Idling /\ Fresh /\ Serial
  BY DEF Settling
<1>2. TypeOK' /\ Informed' /\ Idling'
  BY <1>1, TypesKept, InformedKept, IdlingKept
<1>3. \A q \in Peer : Checked(q)'
  BY <1>1, <1>2, CheckedKept DEF Orderly
<1>4. ASSUME NEW p \in Peer, User(p) PROVE Serial' /\ Fresh'
  BY <1>4, SerialBegins
<1>5. ASSUME Works PROVE Serial' /\ Fresh'
  <2>1. PICK old \in Manifest, a \in Peer :
             /\ OneChange(old) /\ Folders(a, old) /\ \A p \in Peer : Views(p, old)
             /\ Plans(a, old) /\ Slots(a, old)
    BY <1>1 DEF Serial
  <2>2. Folders(a, old)' /\ wanted' = wanted /\ Climbs(old)
    BY <1>1, <1>5, <2>1, FoldersKept
  <2>3. \A p \in Peer : st'[p].local \in {old, wanted}
    BY <2>2, PeerFacts DEF Folders
  <2>4. \A p \in Peer : Views(p, old)'
    BY <1>1, <2>1, <2>2, <2>3, ViewsKept
  <2>5. Plans(a, old)'
    BY <1>1, <1>2, <1>5, <2>1, <2>2, <2>4, PlansKept
  <2>6. Slots(a, old)'
    BY <1>1, <1>5, <2>1, <2>2, SlotsKept
  <2>7. OneChange(old)'
    BY <2>1, <2>2 DEF OneChange
  <2>8. Serial'
    BY <2>2, <2>4, <2>5, <2>6, <2>7 DEF Serial
  <2>9. edits' = edits
    <3>1. ASSUME NEW p \in Peer, System(p) PROVE edits' = edits
      BY <3>1 DEF System, Scan, Receive, Walk, Publish, Execute, RecvHello, RecvUpdate,
                  RecvRequest, RecvFile, RecvNotFound, SendRequest, Serve, counts
    <3>2. ASSUME NEW p \in Peer, Crash(p) PROVE edits' = edits
      BY <3>2 DEF Crash
    <3>3. Connect \/ Drop \/ UNCHANGED vars => edits' = edits
      BY DEF Connect, Drop, counts, vars
    <3> QED BY <1>5, <3>1, <3>2, <3>3 DEF Works
  <2> QED BY <1>1, <2>2, <2>8, <2>9 DEF Fresh
<1>6. Serial' /\ Fresh'
  BY <1>4, <1>5 DEF Next, Works
<1> QED BY <1>2, <1>3, <1>6 DEF Settling

LEMMA InitSettling == Init => Settling
<1> SUFFICES ASSUME Init PROVE Settling
  OBVIOUS
<1>1. /\ wanted = NoFiles /\ ~linked
      /\ \A p \in Peer : /\ chan[p] = <<>> /\ disk[p] = NoFiles /\ walk[p].on = FALSE
                         /\ st[p] = NewService /\ Other(p) \in Peer
                         /\ \A t \in Thread : todo[p][t] = NoPlan
  BY PeerFacts DEF Init, NoWalk
<1>2. NoFiles \in Manifest
  BY DEF NoFiles, Manifest, Entry
<1>3. \A p \in Peer : Checked(p)
  BY <1>1, PairAssumption DEF Checked, Noted, Judged, Looked, Greeting, NewService
<1>4. Idling /\ Fresh
  BY <1>1 DEF Idling, Fresh, NoFiles
<1>5. PICK old \in Manifest : old = wanted
  BY <1>1, <1>2
<1>6. A \in Peer /\ Other(A) \in Peer
  BY PeerFacts DEF Peer
<1>7. \A i \in 1..Len(<<>>) : FALSE
  OBVIOUS
<1>8. \A p \in Peer : /\ st[p].local = wanted /\ st[p].base = wanted /\ st[p].remote = Unknown
                      /\ st[p].pulling = {} /\ st[p].pull_queue = <<>> /\ st[p].serve_q = <<>>
  BY <1>1 DEF NewService
<1>9. OneChange(old) /\ Folders(A, old)
  BY <1>1, <1>5, <1>6, <1>8 DEF OneChange, Folders
<1>10. ASSUME NEW p \in Peer PROVE Views(p, old)
  <2>1. Unknown # wanted /\ chan[p] = <<>> /\ Other(p) \in Peer
    BY <1>1, <1>2, PairAssumption
  <2> QED BY <1>5, <1>7, <1>8, <2>1 DEF Views, Climbing, Ahead
<1>11. Plans(A, old)
  <2>1. NoPlan.pull = {} /\ NoPlan.delete_local = {}
    BY DEF NoPlan
  <2> QED BY <1>1, <1>6, <1>8, <2>1 DEF Plans, Thread
<1>12. Slots(A, old)
  <2>1. \A o, S : Lone(<<>>, o, S)
    BY <1>7 DEF Lone
  <2> QED BY <1>1, <1>6, <1>8, <2>1 DEF Slots
<1> QED BY <1>3, <1>4, <1>6, <1>9, <1>10, <1>11, <1>12, InitTypes, InitInformed
        DEF Settling, Serial

LEMMA SettlingRests ==
    ASSUME Orderly, Settling
    PROVE  LastActWins /\ QuietMeansBaseline
<1>1. PICK old \in Manifest, a \in Peer :
           /\ OneChange(old) /\ Folders(a, old) /\ \A p \in Peer : Views(p, old)
           /\ Plans(a, old) /\ Slots(a, old)
  BY DEF Settling, Serial
<1>2. Quiet => \A p \in Peer : disk[p] = wanted /\ st[p].base = wanted
  BY <1>1, AtRest DEF Settling
<1> QED BY <1>2, SameTreeFacts DEF LastActWins, QuietMeansBaseline

\* Changes made one at a time all arrive: as long as the users wait for the folders to
\* rest, no file operation fails and both peers sync both ways and follow deletions, both
\* folders at rest hold what the users last did to each path, however often the connection
\* is lost or a daemon is killed on the way, and whatever the policies for conflicts.
THEOREM LastActReaches ==
    ASSUME Orderly
    PROVE  Spec => []LastActWins
<1>1. Settling /\ [Next]_vars => Settling'
  BY SettlingKept
<1>2. Settling => LastActWins
  BY SettlingRests
<1> QED BY <1>1, <1>2, InitSettling, PTL DEF Spec

\* Under the same conditions, peers at rest have recorded the tree they hold: a convergence
\* check that came too early is repeated once the change has arrived.
THEOREM QuietKnowsBaseline ==
    ASSUME Orderly
    PROVE  Spec => []QuietMeansBaseline
<1>1. Settling /\ [Next]_vars => Settling'
  BY SettlingKept
<1>2. Settling => QuietMeansBaseline
  BY SettlingRests
<1> QED BY <1>1, <1>2, InitSettling, PTL DEF Spec

-----------------------------------------------------------------------------
(* The plans of the two peers complement each other (core/diff.h).         *)

\* A conflict has one winner: not both sides keep their own version.
LEMMA OneWinner ==
    ASSUME NEW L \in Entry, NEW R \in Entry, ~SameEntry(L, R), NEW policy \in ConflictPolicy
    PROVE  ~(LocalWins(L, R, policy) /\ LocalWins(R, L, Complement(policy)))
<1>1. \/ policy = "local" /\ Complement(policy) = "remote"
      \/ policy = "remote" /\ Complement(policy) = "local"
      \/ policy \in {"newer", "larger"} /\ Complement(policy) = policy
  BY DEF ConflictPolicy, Complement
<1>2. CASE L = Absent \/ R = Absent
  <2>1. L # R
    BY <1>2 DEF SameEntry
  <2>2. CASE L = Absent /\ R # Absent
    <3>1. LocalWins(L, R, policy) => policy = "local"
      BY <2>2 DEF LocalWins
    <3>2. LocalWins(R, L, Complement(policy)) => Complement(policy) # "remote"
      BY <2>2 DEF LocalWins
    <3> QED BY <1>1, <3>1, <3>2
  <2>3. CASE L # Absent /\ R = Absent
    <3>1. LocalWins(L, R, policy) => policy # "remote"
      BY <2>3 DEF LocalWins
    <3>2. LocalWins(R, L, Complement(policy)) => Complement(policy) = "local"
      BY <2>3 DEF LocalWins
    <3> QED BY <1>1, <3>1, <3>2
  <2> QED BY <1>2, <2>1, <2>2, <2>3
<1>3. CASE L # Absent /\ R # Absent
  <2>1. /\ L.hash \in Nat /\ R.hash \in Nat /\ L.hash # R.hash
        /\ L.mtime \in Int /\ R.mtime \in Int
        /\ SizeOf[L.hash] \in Nat /\ SizeOf[R.hash] \in Nat
    BY <1>3, ContentAssumption DEF Entry, FileMeta, SameEntry, SameContent
  <2>2. ~(NewerWins(L, R) /\ NewerWins(R, L))
    BY <2>1 DEF NewerWins
  <2>3. ~(LargerWins(L, R) /\ LargerWins(R, L))
    BY <2>1, <2>2 DEF LargerWins
  <2>4. /\ LocalWins(L, R, "newer") = NewerWins(L, R)
        /\ LocalWins(R, L, "newer") = NewerWins(R, L)
        /\ LocalWins(L, R, "larger") = LargerWins(L, R)
        /\ LocalWins(R, L, "larger") = LargerWins(R, L)
        /\ ~LocalWins(L, R, "remote") /\ ~LocalWins(R, L, "remote")
    BY <1>3 DEF LocalWins
  <2> QED BY <1>1, <2>2, <2>3, <2>4
<1> QED BY <1>2, <1>3

\* Where two trees differ, one of the two peers is to follow the other, if both follow
\* deletions and their baselines agree.
LEMMA OneYields ==
    ASSUME NEW b \in Manifest, NEW c \in Manifest, SameTree(b, c),
           NEW t \in Manifest, NEW u \in Manifest,
           NEW o \in Options, NEW q \in Options, Pairs(o, q), o.deletes, q.deletes,
           NEW f \in Path, ~SameEntry(t[f], u[f])
    PROVE  \/ f \in PlanFor(b, t, u, o).pull \union PlanFor(b, t, u, o).delete_local
           \/ f \in PlanFor(c, u, t, q).pull \union PlanFor(c, u, t, q).delete_local
<1>1. /\ t[f] \in Entry /\ u[f] \in Entry /\ b[f] \in Entry /\ c[f] \in Entry
      /\ ~SameEntry(u[f], t[f]) /\ o.conflict \in ConflictPolicy
  BY DEF Manifest, SameEntry, SameContent, Options
<1>2. \A x, y, z \in Manifest, v \in Options :
         /\ ~SameEntry(y[f], z[f])
         /\ Decide(f, BaseFor(x, v), y, z, v) \in {"Pull", "DeleteLocal"}
         => f \in PlanFor(x, y, z, v).pull \union PlanFor(x, y, z, v).delete_local
  <2> SUFFICES ASSUME NEW x \in Manifest, NEW y \in Manifest, NEW z \in Manifest,
                      NEW v \in Options, ~SameEntry(y[f], z[f]),
                      Decide(f, BaseFor(x, v), y, z, v) \in {"Pull", "DeleteLocal"}
               PROVE  f \in PlanFor(x, y, z, v).pull \union PlanFor(x, y, z, v).delete_local
    OBVIOUS
  <2>1. f \in Keys(BaseFor(x, v), y, z)
    BY DEF Keys, SameEntry
  <2> QED BY <2>1 DEF PlanFor
<1>3. \A R, v : v.deletes => Accept(R, v) \in {"Pull", "DeleteLocal"}
  BY DEF Accept
<1>4. CASE o.mode = "Mirror"
  <2>1. q.mode = "Mirror" /\ o.source # q.source /\ o.source \in BOOLEAN /\ q.source \in BOOLEAN
    BY <1>4 DEF Pairs, Options
  <2>2. CASE ~o.source
    <3>1. Decide(f, BaseFor(b, o), t, u, o) = Accept(u[f], o)
      BY <1>4, <2>2 DEF Decide, DecideMirror, Settled
    <3> QED BY <1>2, <1>3, <3>1
  <2>3. CASE ~q.source
    <3>1. Decide(f, BaseFor(c, q), u, t, q) = Accept(t[f], q)
      BY <1>1, <2>1, <2>3 DEF Decide, DecideMirror, Settled
    <3> QED BY <1>1, <1>2, <1>3, <3>1
  <2> QED BY <2>1, <2>2, <2>3
<1>5. CASE o.mode # "Mirror"
  <2>1. q.mode # "Mirror" /\ q.conflict = Complement(o.conflict)
    BY <1>5 DEF Pairs
  <2>2. /\ Changed(t[f], b[f]) <=> Changed(t[f], c[f])
        /\ Changed(u[f], b[f]) <=> Changed(u[f], c[f])
    <3>1. SameEntry(b[f], c[f])
      BY DEF SameTree
    <3> QED BY <3>1 DEF Changed, SameEntry, SameContent
  <2>3. /\ Decide(f, BaseFor(b, o), t, u, o) = DecideTwoWay(t[f], u[f], b[f], o)
        /\ Decide(f, BaseFor(c, q), u, t, q) = DecideTwoWay(u[f], t[f], c[f], q)
    BY <1>5, <2>1 DEF Decide, BaseFor
  <2>4. CASE Changed(t[f], b[f]) <=> Changed(u[f], b[f])
    <3>1. /\ DecideTwoWay(t[f], u[f], b[f], o) =
                IF LocalWins(t[f], u[f], o.conflict) THEN Offer(t[f]) ELSE Accept(u[f], o)
          /\ DecideTwoWay(u[f], t[f], c[f], q) =
                IF LocalWins(u[f], t[f], q.conflict) THEN Offer(u[f]) ELSE Accept(t[f], q)
      BY <1>1, <2>2, <2>4 DEF DecideTwoWay, IsConflict, Settled
    <3>2. ~LocalWins(t[f], u[f], o.conflict) \/ ~LocalWins(u[f], t[f], q.conflict)
      BY <1>1, <2>1, OneWinner
    <3> QED BY <1>1, <1>2, <1>3, <2>3, <3>1, <3>2
  <2>5. CASE Changed(t[f], b[f]) /\ ~Changed(u[f], b[f])
    <3>1. DecideTwoWay(u[f], t[f], c[f], q) = Accept(t[f], q)
      BY <1>1, <2>2, <2>5 DEF DecideTwoWay, IsConflict, Settled
    <3> QED BY <1>1, <1>2, <1>3, <2>3, <3>1
  <2>6. CASE ~Changed(t[f], b[f]) /\ Changed(u[f], b[f])
    <3>1. DecideTwoWay(t[f], u[f], b[f], o) = Accept(u[f], o)
      BY <2>6 DEF DecideTwoWay, IsConflict, Settled
    <3> QED BY <1>2, <1>3, <2>3, <3>1
  <2> QED BY <2>4, <2>5, <2>6
<1> QED BY <1>4, <1>5

-----------------------------------------------------------------------------
(* What a peer has decided to do is not forgotten.                         *)

\* A path a peer would pull or delete, were it to decide now, is one it is pulling, or is
\* in a plan of one of its threads, unless it was done with it otherwise.
Pending(p) ==
    /\ \A f \in Decided(p, st[p]).pull :
          \/ f \in left[p] \union st[p].pulling
          \/ \E t \in Thread : todo[p][t].due /\ f \in todo[p][t].pull
    /\ \A f \in Decided(p, st[p]).delete_local :
          \/ f \in left[p]
          \/ \E t \in Thread : todo[p][t].due /\ f \in todo[p][t].delete_local

\* Nothing is to be done about a path on which the trees agree, only what the other lists
\* is pulled, and only what it does not list is deleted.
LEMMA DecidedOn ==
    ASSUME NEW p \in Peer, NEW s, NEW f \in Path
    PROVE  /\ f \in Decided(p, s).pull => ~SameEntry(s.local[f], s.remote[f]) /\ s.remote[f] # Absent
           /\ f \in Decided(p, s).delete_local =>
                 ~SameEntry(s.local[f], s.remote[f]) /\ s.remote[f] = Absent
<1> DEFINE L == s.local[f]
           R == s.remote[f]
           c == BaseFor(s.base, Opt[p])
           k == Decide(f, c, s.local, s.remote, Opt[p])
<1>1. SUFFICES ASSUME s.remote # Unknown, f \in Keys(c, s.local, s.remote),
                      k \in {"Pull", "DeleteLocal"}
               PROVE  ~SameEntry(L, R) /\ (k = "Pull" <=> R # Absent)
  BY DEF Decided, NoPlan, PlanFor
<1>2. k = Accept(R, Opt[p])
  BY <1>1 DEF Decide, DecideTwoWay, DecideMirror, Offer
<1>3. k = "Pull" <=> R # Absent
  BY <1>1, <1>2 DEF Accept
<1>4. ~SameEntry(L, R)
  <2>1. CASE Opt[p].mode = "Mirror"
    <3>1. ASSUME L = Absent, R = Absent PROVE FALSE
      BY <1>1, <2>1, <3>1 DEF Keys, BaseFor, NoFiles
    <3>2. R # Absent => ~SameEntry(L, R)
      BY <1>1, <2>1 DEF Decide, DecideMirror, Settled, Offer
    <3> QED BY <3>1, <3>2 DEF SameEntry
  <2>2. CASE Opt[p].mode # "Mirror"
    BY <1>1, <2>2 DEF Decide, DecideTwoWay, Settled
  <2> QED BY <2>1, <2>2
<1> QED BY <1>3, <1>4

\* A path that the step leaves alone, or that the baseline now lists as both trees do, is
\* decided on as before.
LEMMA DecidedAsBefore ==
    ASSUME NEW p \in Peer, Opt[p].deletes, NEW s, NEW w, w.remote = s.remote,
           Recorded(p, s.base, w), NEW f \in Path, w.local[f] = s.local[f]
    PROVE  /\ f \in Decided(p, w).pull => f \in Decided(p, s).pull
           /\ f \in Decided(p, w).delete_local => f \in Decided(p, s).delete_local
<1>1. CASE w.base = s.base
  BY <1>1 DEF Decided, NoPlan, PlanFor, Keys, Decide
<1>2. CASE w.base # s.base
  <2>1. EmptyPlan(PlanFor(s.base, w.local, w.remote, Opt[p]))
    BY <1>2 DEF Recorded
  <2>2. SameTree(w.local, w.remote)
    BY <2>1, EmptyPlanAgrees, PeerFacts
  <2> QED BY <2>2, DecidedOn DEF SameTree
<1> QED BY <1>1, <1>2

\* A step of p that does not decide anew: each path it leaves, or finishes, or keeps where
\* it was.
LEMMA PendingKeptBy ==
    ASSUME NEW p \in Peer, Opt[p].deletes, Pending(p), left[p] \subseteq left'[p],
           st'[p].remote = st[p].remote, Recorded(p, st[p].base, st'[p]),
           \A f \in Path :
              \/ f \in left'[p]
              \/ SameEntry(st'[p].local[f], st'[p].remote[f])
              \/ /\ st'[p].local[f] = st[p].local[f]
                 /\ f \in st[p].pulling => f \in st'[p].pulling \/ st'[p].remote[f] = Absent
                 /\ \A t \in Thread : todo[p][t].due /\ f \in todo[p][t].pull =>
                       f \in st'[p].pulling \/ (todo'[p][t].due /\ f \in todo'[p][t].pull)
                 /\ \A t \in Thread : todo[p][t].due /\ f \in todo[p][t].delete_local =>
                       todo'[p][t].due /\ f \in todo'[p][t].delete_local
    PROVE  Pending(p)'
<1> DEFINE s == st[p]
           w == st'[p]
<1>1. Decided(p, w).pull \subseteq Path /\ Decided(p, w).delete_local \subseteq Path
  BY DecidedType DEF PlanOf
<1>2. ASSUME NEW f \in Decided(p, w).pull
      PROVE  \/ f \in left'[p] \union w.pulling
             \/ \E t \in Thread : todo'[p][t].due /\ f \in todo'[p][t].pull
  <2>1. f \in Path /\ ~SameEntry(w.local[f], w.remote[f]) /\ w.remote[f] # Absent
    BY <1>1, <1>2, DecidedOn
  <2>2. CASE w.local[f] = s.local[f]
    <3>1. f \in Decided(p, s).pull
      BY <1>2, <2>1, <2>2, DecidedAsBefore
    <3> QED BY <2>1, <3>1 DEF Pending
  <2> QED BY <2>1, <2>2
<1>3. ASSUME NEW f \in Decided(p, w).delete_local
      PROVE  \/ f \in left'[p]
             \/ \E t \in Thread : todo'[p][t].due /\ f \in todo'[p][t].delete_local
  <2>1. f \in Path /\ ~SameEntry(w.local[f], w.remote[f])
    BY <1>1, <1>3, DecidedOn
  <2>2. CASE w.local[f] = s.local[f]
    <3>1. f \in Decided(p, s).delete_local
      BY <1>3, <2>1, <2>2, DecidedAsBefore
    <3> QED BY <2>1, <3>1 DEF Pending
  <2> QED BY <2>1, <2>2
<1> QED BY <1>2, <1>3 DEF Pending

\* A step that decides has the plan in hand.
LEMMA PendingDecided ==
    ASSUME TypeOK, NEW p \in Peer, NEW t \in Thread,
           \/ st'[p].remote = Unknown
           \/ todo' = [todo EXCEPT ![p][t] = Decided(p, st'[p])]
    PROVE  Pending(p)'
<1>1. CASE st'[p].remote = Unknown
  BY <1>1 DEF Pending, Decided, NoPlan
<1>2. CASE st'[p].remote # Unknown /\ todo' = [todo EXCEPT ![p][t] = Decided(p, st'[p])]
  <2> DEFINE d == Decided(p, st'[p])
  <2>1. d.due
    BY <1>2 DEF Decided
  <2>2. todo \in [Peer -> [Thread -> PlanOf]]
    BY DEF TypeOK, PlanOf
  <2> HIDE DEF d
  <2>3. todo'[p][t] = d
    BY <1>2, <2>2 DEF d
  <2> QED BY <2>1, <2>3 DEF Pending, d
<1> QED BY <1>1, <1>2

LEMMA PendingElsewhere ==
    ASSUME NEW q \in Peer, st'[q] = st[q], todo'[q] = todo[q], left'[q] = left[q], Pending(q)
    PROVE  Pending(q)'
BY DEF Pending

\* A peer without a session knows nothing of the other: the greeting comes first.
LEMMA GreetingKept ==
    ASSUME TypeOK, Informed, Informed', \A q \in Peer : Greeting(q), [Next]_vars
    PROVE  \A q \in Peer : Greeting(q)'
<1>0. /\ \A p \in Peer : st[p] \in Service
      /\ \A p \in Peer : chan[p] # <<>> /\ Head(chan[p]).op # "Hello" => st[p].session
  <2>1. \A p \in Peer : chan[p] # <<>> /\ Head(chan[p]).op # "Hello" => st[p].session
    BY MessageTypes DEF Greeting
  <2> QED BY <2>1 DEF TypeOK
<1>1. ASSUME NEW p \in Peer,
             NEW s, NEW c, NEW m, Does(p, s, c, m), linked' = linked,
             \/ s.session
             \/ s.session = st[p].session /\ s.remote = st[p].remote /\ c = chan[p]
      PROVE  \A q \in Peer : Greeting(q)'
  BY <1>1, GreetingDoes
<1>2. ASSUME NEW p \in Peer, Publish(p) PROVE \A q \in Peer : Greeting(q)'
  <2> DEFINE s == [st[p] EXCEPT !.local = st'[p].local]
  <2>1. Does(p, s, chan[p], Hello) /\ linked' = linked
    BY <1>2, PublishDoes DEF Publish
  <2>2. s.session = st[p].session /\ s.remote = st[p].remote
    BY <1>0 DEF Service
  <2> HIDE DEF s
  <2> QED BY <1>1, <2>1, <2>2
<1>3. ASSUME NEW p \in Peer, NEW t \in Thread, Execute(p, t) PROVE \A q \in Peer : Greeting(q)'
  <2> DEFINE s == [st[p] EXCEPT !.local = st'[p].local, !.pulling = @ \union todo[p][t].pull,
                               !.pull_queue = @ \o SetToSeq(todo[p][t].pull \ st[p].pulling)]
  <2>1. Does(p, s, chan[p], Hello) /\ linked' = linked
    BY <1>3, ExecuteDoes DEF Execute
  <2>2. s.session = st[p].session /\ s.remote = st[p].remote
    BY <1>0 DEF Service
  <2> HIDE DEF s
  <2> QED BY <1>1, <2>1, <2>2
<1>4. ASSUME NEW p \in Peer, RecvHello(p) PROVE \A q \in Peer : Greeting(q)'
  <2> DEFINE s == [st[p] EXCEPT !.session = TRUE]
  <2>1. Does(p, s, Tail(chan[p]), Hello) /\ linked' = linked
    BY <1>4, RecvHelloDoes DEF RecvHello
  <2>2. s.session
    BY <1>0 DEF Service
  <2> HIDE DEF s
  <2> QED BY <1>1, <2>1, <2>2
<1>5. ASSUME NEW p \in Peer, RecvUpdate(p) PROVE \A q \in Peer : Greeting(q)'
  <2> DEFINE s == [st[p] EXCEPT !.remote = Head(chan[p]).tree]
  <2>1. Does(p, s, Tail(chan[p]), Hello) /\ linked' = linked
    BY <1>5, RecvUpdateDoes DEF RecvUpdate
  <2>2. s.session
    BY <1>0, <1>5 DEF Service, RecvUpdate, Receives
  <2> HIDE DEF s
  <2> QED BY <1>1, <2>1, <2>2
<1>6. ASSUME NEW p \in Peer, RecvRequest(p) PROVE \A q \in Peer : Greeting(q)'
  <2> DEFINE s == [st[p] EXCEPT !.serve_q = Append(@, Head(chan[p]).path)]
  <2>1. Does(p, s, Tail(chan[p]), Hello) /\ linked' = linked
    BY <1>6, RecvRequestDoes DEF RecvRequest
  <2>2. s.session
    BY <1>0, <1>6 DEF Service, RecvRequest, Receives
  <2> HIDE DEF s
  <2> QED BY <1>1, <2>1, <2>2
<1>7. ASSUME NEW p \in Peer, RecvFile(p) PROVE \A q \in Peer : Greeting(q)'
  <2> DEFINE s == [st[p] EXCEPT !.local = st'[p].local, !.pulling = @ \ {Head(chan[p]).path}]
  <2>1. Does(p, s, Tail(chan[p]), Hello) /\ linked' = linked
    BY <1>7, RecvFileDoes DEF RecvFile
  <2>2. s.session
    BY <1>0, <1>7 DEF Service, RecvFile, Receives
  <2> HIDE DEF s
  <2> QED BY <1>1, <2>1, <2>2
<1>8. ASSUME NEW p \in Peer, RecvNotFound(p) PROVE \A q \in Peer : Greeting(q)'
  <2> DEFINE s == [st[p] EXCEPT !.pulling = @ \ {Head(chan[p]).path}]
  <2>1. Does(p, s, Tail(chan[p]), Hello) /\ linked' = linked
    BY <1>8, RecvNotFoundDoes DEF RecvNotFound
  <2>2. s.session
    BY <1>0, <1>8 DEF Service, RecvNotFound, Receives
  <2> HIDE DEF s
  <2> QED BY <1>1, <2>1, <2>2
<1>9. ASSUME NEW p \in Peer, SendRequest(p) PROVE \A q \in Peer : Greeting(q)'
  <2> DEFINE s == [st[p] EXCEPT !.pull_queue = Tail(@)]
             m == Request(Head(st[p].pull_queue))
  <2>1. Does(p, s, chan[p], m) /\ linked' = linked
    BY <1>9, SendRequestDoes DEF SendRequest
  <2>2. s.session = st[p].session /\ s.remote = st[p].remote
    BY <1>0 DEF Service
  <2> HIDE DEF s, m
  <2> QED BY <1>1, <2>1, <2>2
<1>10. ASSUME NEW p \in Peer, Serve(p) PROVE \A q \in Peer : Greeting(q)'
  <2> DEFINE s == [st[p] EXCEPT !.serve_q = Tail(@)]
  <2>1. PICK m : Does(p, s, chan[p], m)
    BY <1>10, ServeDoes
  <2>2. s.session = st[p].session /\ s.remote = st[p].remote
    BY <1>0 DEF Service
  <2>3. linked' = linked
    BY <1>10 DEF Serve
  <2> HIDE DEF s
  <2> QED BY <1>1, <2>1, <2>2, <2>3
<1>11. Resets => \A q \in Peer : Greeting(q)'
  BY DEF Resets, Greeting
<1>12. Connect => \A q \in Peer : Greeting(q)'
  <2>1. <<Hello>> # <<>> /\ Head(<<Hello>>) = Hello
    OBVIOUS
  <2> QED BY <2>1 DEF Connect, Greeting
<1>13. ASSUME \/ \E p \in Peer : User(p) \/ Walk(p)
              \/ UNCHANGED vars
       PROVE  \A q \in Peer : Greeting(q)'
  <2>1. UNCHANGED <<st, chan, linked>>
    BY <1>13 DEF User, Edit, Delete, Walk, vars
  <2> QED BY <2>1 DEF Greeting
<1> QED BY <1>2, <1>3, <1>4, <1>5, <1>6, <1>7, <1>8, <1>9, <1>10, <1>11, <1>12, <1>13,
           DropResets, CrashResets DEF Next, System, Scan, Receive

\* The step of a thread that executes its plan: a path of the plan is reserved, removed as
\* decided, or left.
LEMMA PendingExecutes ==
    ASSUME TypeOK, NEW p \in Peer, Opt[p].deletes, Pending(p), NEW t \in Thread, Execute(p, t)
    PROVE  Pending(p)'
<1> DEFINE pl == todo[p][t]
<1>1. PICK r : /\ Talks(p, r)
               /\ \E removed \in SUBSET pl.delete_local :
                     /\ r.s.local = Unlinked(st[p].local, removed)
                     /\ disk' = [disk EXCEPT ![p] = Unlinked(@, removed)]
                     /\ Leaves(p, (pl.delete_local \ removed)
                                     \union (removed \ Decided(p, st[p]).delete_local))
  BY ExecuteTalks
<1>2. PICK removed \in SUBSET pl.delete_local :
           /\ r.s.local = Unlinked(st[p].local, removed)
           /\ Leaves(p, (pl.delete_local \ removed)
                           \union (removed \ Decided(p, st[p]).delete_local))
  BY <1>1
<1>3. /\ st'[p] = r.s /\ Recorded(p, st[p].base, st'[p])
      /\ st'[p].local = Unlinked(st[p].local, removed)
  BY <1>1, <1>2 DEF Talks, TypeOK
<1>4. left'[p] = left[p] \union (pl.delete_local \ removed)
                        \union (removed \ Decided(p, st[p]).delete_local)
  BY <1>2 DEF Leaves, TypeOK
<1>5. /\ todo' = [todo EXCEPT ![p][t] = NoPlan]
      /\ todo \in [Peer -> [Thread -> PlanOf]] /\ st[p] \in Service
  BY DEF Execute, TypeOK, PlanOf
<1>6. st'[p].pulling = st[p].pulling \union pl.pull /\ st'[p].remote = st[p].remote
  <2> DEFINE q == st[p].pull_queue \o SetToSeq(pl.pull \ st[p].pulling)
             s == [st[p] EXCEPT !.local = st'[p].local, !.pulling = @ \union pl.pull,
                                !.pull_queue = @ \o SetToSeq(pl.pull \ st[p].pulling)]
  <2>1. Does(p, s, chan[p], Hello)
    BY ExecuteDoes
  <2>2. s.pulling = st[p].pulling \union pl.pull /\ s.remote = st[p].remote
    BY <1>5 DEF Service
  <2> HIDE DEF s
  <2> QED BY <2>1, <2>2 DEF Does, SameWork
<1>7. ASSUME NEW f \in Path, f \notin left'[p], ~SameEntry(st'[p].local[f], st'[p].remote[f])
      PROVE  f \notin pl.delete_local /\ st'[p].local[f] = st[p].local[f]
  <2>1. f \notin removed
    <3>1. SUFFICES ASSUME f \in removed PROVE FALSE
      OBVIOUS
    <3>2. f \in Decided(p, st[p]).delete_local
      BY <1>4, <1>7, <3>1
    <3>3. st[p].remote[f] = Absent
      BY <3>2, DecidedOn
    <3>4. st'[p].local[f] = Absent
      BY <1>3, <3>1 DEF Unlinked
    <3> QED BY <1>6, <1>7, <3>3, <3>4 DEF SameEntry
  <2> QED BY <1>3, <1>4, <1>7, <2>1 DEF Unlinked
<1>8. ASSUME NEW x \in Thread, x # t PROVE todo'[p][x] = todo[p][x]
  BY <1>5, <1>8
<1>9. left[p] \subseteq left'[p]
  BY <1>4
<1> QED BY <1>3, <1>6, <1>7, <1>8, <1>9, PendingKeptBy

\* A pull that ends: the path is settled, or left.
LEMMA PendingReceives ==
    ASSUME TypeOK, NEW p \in Peer, Opt[p].deletes, Pending(p), RecvFile(p) \/ RecvNotFound(p)
    PROVE  Pending(p)'
<1> DEFINE m == Head(chan[p])
           s == [st[p] EXCEPT !.local = st'[p].local, !.pulling = @ \ {m.path}]
           u == [st[p] EXCEPT !.pulling = @ \ {m.path}]
<1>0. st[p] \in Service /\ left \in [Peer -> SUBSET Path] /\ todo' = todo
  BY DEF TypeOK, RecvFile, RecvNotFound
<1>1. PICK r : /\ Talks(p, r)
               /\ \/ /\ r.s.local = [st[p].local EXCEPT ![m.path] = m.meta]
                     /\ m.path \in Path
                     /\ Leaves(p, Unexpected(p, m.path, m.meta))
                  \/ r.s.local = st[p].local /\ Leaves(p, {m.path})
                  \/ r.s.local = st[p].local /\ Leaves(p, Unexpected(p, m.path, Absent))
  <2>1. CASE RecvFile(p)
    <3>1. PICK r : /\ Talks(p, r)
                   /\ m.path \in Path /\ m.meta \in FileMeta
                   /\ \/ /\ r.s.local = [st[p].local EXCEPT ![m.path] = m.meta]
                         /\ disk' = [disk EXCEPT ![p] = Replaced(@, m.path, m.meta)]
                         /\ Leaves(p, Unexpected(p, m.path, m.meta))
                      \/ r.s.local = st[p].local /\ disk' = disk /\ Leaves(p, {m.path})
                      \/ /\ r.s.local = st[p].local /\ Missed(p, {m.path})
                         /\ Leaves(p, {m.path})
                         /\ disk' = [disk EXCEPT ![p] = Unlinked(@, {m.path})]
      BY <2>1, RecvFileTalks
    <3> QED BY <3>1
  <2>2. CASE RecvNotFound(p)
    <3>1. PICK r : Talks(p, r) /\ r.s.local = st[p].local
      BY <2>2, RecvNotFoundTalks
    <3>2. Leaves(p, Unexpected(p, m.path, Absent))
      BY <2>2 DEF RecvNotFound
    <3> QED BY <3>1, <3>2
  <2> QED BY <2>1, <2>2
<1>2. st'[p] = r.s /\ Recorded(p, st[p].base, st'[p])
  BY <1>1 DEF Talks, TypeOK
<1>3. st'[p].pulling = st[p].pulling \ {m.path} /\ st'[p].remote = st[p].remote
  <2>1. s.pulling = st[p].pulling \ {m.path} /\ s.remote = st[p].remote
    BY <1>0 DEF Service
  <2>2. u.pulling = st[p].pulling \ {m.path} /\ u.remote = st[p].remote
    BY <1>0 DEF Service
  <2>3. Does(p, s, Tail(chan[p]), Hello) \/ Does(p, u, Tail(chan[p]), Hello)
    BY RecvFileDoes, RecvNotFoundDoes
  <2> HIDE DEF s, u
  <2> QED BY <2>1, <2>2, <2>3 DEF Does, SameWork
<1>4. ASSUME NEW f \in Path, f # m.path
      PROVE  st'[p].local[f] = st[p].local[f] /\ (f \in st[p].pulling => f \in st'[p].pulling)
  BY <1>0, <1>1, <1>2, <1>3, <1>4 DEF Service, Manifest
<1>5. left[p] \subseteq left'[p]
  BY <1>0, <1>1 DEF Leaves
<1>6. ASSUME m.path \in Path
      PROVE  \/ m.path \in left'[p]
             \/ SameEntry(st'[p].local[m.path], st'[p].remote[m.path])
             \/ st'[p].local[m.path] = st[p].local[m.path] /\ st'[p].remote[m.path] = Absent
  <2>1. CASE /\ r.s.local = [st[p].local EXCEPT ![m.path] = m.meta]
             /\ Leaves(p, Unexpected(p, m.path, m.meta))
    <3>1. st'[p].local[m.path] = m.meta
      BY <1>0, <1>2, <1>6, <2>1 DEF Service, Manifest
    <3>2. left'[p] = left[p] \union Unexpected(p, m.path, m.meta)
      BY <1>0, <2>1 DEF Leaves
    <3> QED BY <1>3, <3>1, <3>2 DEF Unexpected
  <2>2. CASE r.s.local = st[p].local /\ Leaves(p, {m.path})
    BY <1>0, <2>2 DEF Leaves
  <2>3. CASE r.s.local = st[p].local /\ Leaves(p, Unexpected(p, m.path, Absent))
    <3>1. left'[p] = left[p] \union Unexpected(p, m.path, Absent)
      BY <1>0, <2>3 DEF Leaves
    <3>2. SameEntry(Absent, st[p].remote[m.path]) => st[p].remote[m.path] = Absent
      BY DEF SameEntry
    <3> QED BY <1>2, <1>3, <2>3, <3>1, <3>2 DEF Unexpected
  <2> QED BY <1>1, <2>1, <2>2, <2>3
<1> HIDE DEF m
<1> QED BY <1>0, <1>2, <1>3, <1>4, <1>5, <1>6, PendingKeptBy

\* The steps that neither decide nor end anything.
LEMMA PendingLooks ==
    ASSUME TypeOK, NEW p \in Peer, Opt[p].deletes, Pending(p),
           RecvHello(p) \/ RecvRequest(p) \/ SendRequest(p) \/ Serve(p)
    PROVE  Pending(p)'
<1>0. st[p] \in Service
  BY PeerTypes
<1>1. UNCHANGED <<todo, left>>
  BY DEF RecvHello, RecvRequest, SendRequest, Serve
<1>2. PICK r : Talks(p, r)
  BY RecvHelloTalks, RecvRequestTalks, SendRequestTalks, ServeTalks
<1>3. Recorded(p, st[p].base, st'[p])
  BY <1>2 DEF Talks, TypeOK
<1> DEFINE a == [st[p] EXCEPT !.session = TRUE]
           b == [st[p] EXCEPT !.serve_q = Append(@, Head(chan[p]).path)]
           c == [st[p] EXCEPT !.pull_queue = Tail(@)]
           d == [st[p] EXCEPT !.serve_q = Tail(@)]
<1>4. \E s \in {a, b, c, d} : \E k, m : Does(p, s, k, m)
  BY RecvHelloDoes, RecvRequestDoes, SendRequestDoes, ServeDoes
<1>5. \A s \in {a, b, c, d} : /\ s.local = st[p].local /\ s.remote = st[p].remote
                              /\ s.pulling = st[p].pulling
  BY <1>0 DEF Service
<1> HIDE DEF a, b, c, d
<1>6. /\ st'[p].local = st[p].local /\ st'[p].remote = st[p].remote
      /\ st'[p].pulling = st[p].pulling
  BY <1>4, <1>5 DEF Does, SameWork
<1> QED BY <1>1, <1>3, <1>6, PendingKeptBy

Follows == \A p \in Peer : Opt[p].deletes

LEMMA PendingKept ==
    ASSUME Follows, TypeOK, \A q \in Peer : Greeting(q), \A q \in Peer : Pending(q), [Next]_vars
    PROVE  \A q \in Peer : Pending(q)'
<1>0. /\ st \in [Peer -> Service] /\ todo \in [Peer -> [Thread -> PlanOf]]
      /\ left \in [Peer -> SUBSET Path]
  BY DEF TypeOK, PlanOf
<1>1. ASSUME NEW p \in Peer, Publish(p) \/ RecvUpdate(p) PROVE Pending(p)'
  <2>1. CASE Publish(p)
    <3> DEFINE s == [st[p] EXCEPT !.local = st'[p].local]
    <3>1. /\ Does(p, s, chan[p], Hello)
          /\ todo' = [todo EXCEPT ![p]["daemon"] =
                         IF st[p].session THEN Decided(p, st'[p]) ELSE NoPlan]
      BY <2>1, PublishDoes
    <3>2. s.remote = st[p].remote
      BY <1>0 DEF Service
    <3> HIDE DEF s
    <3>3. st'[p].remote = st[p].remote
      BY <3>1, <3>2 DEF Does, SameWork
    <3>4. ~st[p].session => st'[p].remote = Unknown
      BY <3>3 DEF Greeting
    <3> QED BY <3>1, <3>4, PendingDecided DEF Thread
  <2>2. CASE RecvUpdate(p)
    <3>1. todo' = [todo EXCEPT ![p]["reactor"] = Decided(p, st'[p])]
      BY <2>2, RecvUpdateDoes
    <3> QED BY <3>1, PendingDecided DEF Thread
  <2> QED BY <1>1, <2>1, <2>2
<1>2. ASSUME NEW p \in Peer, System(p) PROVE Pending(p)'
  <2>1. CASE Walk(p)
    <3>1. UNCHANGED <<st, todo, left>>
      BY <2>1 DEF Walk, history
    <3> QED BY <3>1 DEF Pending
  <2>2. CASE Publish(p) \/ RecvUpdate(p)
    BY <1>1, <2>2
  <2>3. CASE \E t \in Thread : Execute(p, t)
    BY <2>3, PendingExecutes DEF Follows
  <2>4. CASE RecvFile(p) \/ RecvNotFound(p)
    BY <2>4, PendingReceives DEF Follows
  <2>5. CASE RecvHello(p) \/ RecvRequest(p) \/ SendRequest(p) \/ Serve(p)
    BY <2>5, PendingLooks DEF Follows
  <2> QED BY <1>2, <2>1, <2>2, <2>3, <2>4, <2>5 DEF System, Scan, Receive
<1>3. ASSUME NEW p \in Peer, System(p), NEW q \in Peer, q # p PROVE Pending(q)'
  <2>1. st'[q] = st[q]
    <3>1. (\E r : Talks(p, r)) \/ Keeps
      <4>1. Walk(p) => Keeps
        BY DEF Walk, Keeps, history
      <4>2. Receive(p) => \E r : Talks(p, r)
        BY RecvHelloTalks, RecvUpdateTalks, RecvRequestTalks, RecvFileTalks, RecvNotFoundTalks
           DEF Receive
      <4> QED BY <1>3, <4>1, <4>2, PublishTalks, SendRequestTalks, ServeTalks, ExecuteTalks
              DEF System, Scan
    <3> QED BY <1>0, <1>3, <3>1 DEF Talks, Keeps
  <2>2. todo'[q] = todo[q]
    <3>1. \A t \in Thread, pl \in PlanOf : todo' = [todo EXCEPT ![p][t] = pl] => todo'[q] = todo[q]
      BY <1>0, <1>3
    <3>2. Publish(p) \/ RecvUpdate(p) => todo'[q] = todo[q]
      BY <3>1, PublishDoes, RecvUpdateDoes, DecidedType DEF Thread
    <3>3. (\E t \in Thread : Execute(p, t)) => todo'[q] = todo[q]
      BY <3>1, DecidedType DEF Execute
    <3>4. \/ Walk(p) \/ RecvHello(p) \/ RecvRequest(p) \/ RecvFile(p) \/ RecvNotFound(p)
          \/ SendRequest(p) \/ Serve(p)
          => todo'[q] = todo[q]
      BY DEF Walk, RecvHello, RecvRequest, RecvFile, RecvNotFound, SendRequest, Serve
    <3> QED BY <1>3, <3>2, <3>3, <3>4 DEF System, Scan, Receive
  <2>3. left'[q] = left[q]
    <3>1. \/ left' = left \/ Decides(p) \/ \E S : Leaves(p, S)
      <4>1. \/ Walk(p) \/ RecvHello(p) \/ RecvRequest(p) \/ SendRequest(p) \/ Serve(p)
            => left' = left
        BY DEF Walk, RecvHello, RecvRequest, SendRequest, Serve, history
      <4>2. Publish(p) \/ RecvUpdate(p) => Decides(p)
        BY DEF Publish, RecvUpdate
      <4>3. RecvFile(p) \/ RecvNotFound(p) => \E S : Leaves(p, S)
        BY DEF RecvFile, RecvNotFound
      <4>4. (\E t \in Thread : Execute(p, t)) => \E S : Leaves(p, S)
        BY ExecuteTalks
      <4> QED BY <1>3, <4>1, <4>2, <4>3, <4>4 DEF System, Scan, Receive
    <3> QED BY <1>0, <1>3, <3>1 DEF Decides, Leaves
  <2> QED BY <2>1, <2>2, <2>3, PendingElsewhere
<1>4. ASSUME Resets PROVE \A q \in Peer : Pending(q)'
  BY <1>4 DEF Resets, Pending, Decided, NoPlan
<1>5. ASSUME \/ \E p \in Peer : User(p)
             \/ Connect \/ UNCHANGED vars
      PROVE  \A q \in Peer : Pending(q)'
  <2>1. UNCHANGED <<st, todo, left>>
    BY <1>5 DEF User, Edit, Delete, Connect, vars, history
  <2> QED BY <2>1 DEF Pending
<1>6. ASSUME NEW p \in Peer, System(p) PROVE \A q \in Peer : Pending(q)'
  BY <1>2, <1>3, <1>6
<1> QED BY <1>4, <1>5, <1>6, DropResets, CrashResets DEF Next

\* Of two quiet peers whose baselines agree, one would follow the other in each path on
\* which they differ, and has nothing in hand: it has left the path.
LEMMA PendingRests ==
    ASSUME Follows, TypeOK, Informed, \A q \in Peer : Pending(q)
    PROVE  SharedBaseMeansConverged
<1> SUFFICES ASSUME Quiet, SameTree(st[A].base, st[B].base),
                    NEW f \in Path, ~SameEntry(disk[A][f], disk[B][f])
             PROVE  \E p \in Peer : f \in left[p]
  BY DEF SharedBaseMeansConverged
<1>1. /\ A \in Peer /\ B \in Peer /\ Other(A) = B /\ Other(B) = A
      /\ Opt[A] \in Options /\ Opt[B] \in Options /\ Pairs(Opt[A], Opt[B])
      /\ Opt[A].deletes /\ Opt[B].deletes
  BY PairAssumption, PeerFacts DEF Peer, Other, Follows
<1>2. /\ st[A].remote = st[B].local /\ st[B].remote = st[A].local
  BY <1>1, InformedAtRest DEF QuietMeansInformed
<1>3. /\ st[A].base \in Manifest /\ st[A].local \in Manifest
      /\ st[B].base \in Manifest /\ st[B].local \in Manifest
      /\ disk[A] = st[A].local /\ disk[B] = st[B].local
  BY <1>1 DEF TypeOK, Service, Quiet
<1>4. st[A].local # Unknown /\ st[B].local # Unknown
  BY <1>3, PairAssumption
<1>5. \E p \in Peer : f \in Decided(p, st[p]).pull \union Decided(p, st[p]).delete_local
  <2>1. \/ f \in PlanFor(st[A].base, st[A].local, st[B].local, Opt[A]).pull
                   \union PlanFor(st[A].base, st[A].local, st[B].local, Opt[A]).delete_local
        \/ f \in PlanFor(st[B].base, st[B].local, st[A].local, Opt[B]).pull
                   \union PlanFor(st[B].base, st[B].local, st[A].local, Opt[B]).delete_local
    BY <1>1, <1>3, OneYields
  <2> QED BY <1>1, <1>2, <1>4, <2>1 DEF Decided
<1>6. \A p \in Peer : st[p].pulling = {} /\ \A t \in Thread : ~todo[p][t].due
  BY DEF Quiet, Busy
<1> QED BY <1>5, <1>6 DEF Pending

LEMMA InitPending == Init => \A q \in Peer : Greeting(q) /\ Pending(q)
<1> SUFFICES ASSUME Init, NEW q \in Peer PROVE Greeting(q) /\ Pending(q)
  OBVIOUS
<1>1. st[q] = NewService /\ chan[q] = <<>> /\ linked = FALSE
  BY DEF Init
<1>2. Greeting(q)
  BY <1>1 DEF Greeting, NewService
<1>3. Pending(q)
  BY <1>1 DEF Pending, Decided, NoPlan, NewService
<1> QED BY <1>2, <1>3

\* Whatever the users do and in whatever order, for every policy and in both modes, through
\* lost connections, crashes and failing file operations: peers that follow deletions, are
\* at rest and share a baseline have the same tree, but for the paths one of them was done
\* with otherwise than it decided.  Their plans complement each other, and what a plan wants
\* of a peer is not forgotten.
THEOREM SharedBaseConverges ==
    ASSUME Follows
    PROVE  Spec => []SharedBaseMeansConverged
<1> DEFINE I == TypeOK /\ Informed /\ (\A q \in Peer : Greeting(q)) /\ (\A q \in Peer : Pending(q))
<1>1. Init => I
  BY InitTypes, InitInformed, InitPending
<1>2. I /\ [Next]_vars => I'
  BY TypesKept, InformedKept, GreetingKept, PendingKept
<1>3. I => SharedBaseMeansConverged
  BY PendingRests
<1> HIDE DEF I
<1> QED BY <1>1, <1>2, <1>3, PTL DEF Spec

=============================================================================
