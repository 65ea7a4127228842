--------------------------- MODULE SyncRoundProofs ---------------------------
(***************************************************************************)
(* What core/diff.h claims of the decision procedure, for every set of     *)
(* paths, contents, times and options.  The decision about one path is     *)
(* settled first, by cases on the three entries; the theorems about plans  *)
(* and about the round follow path by path.                                *)
(***************************************************************************)
EXTENDS SyncRound, TLAPS

\* The other side of a decision.
MirrorOf(k) == CASE k = "Pull"         -> "Push"
                 [] k = "Push"         -> "Pull"
                 [] k = "DeleteLocal"  -> "DeleteRemote"
                 [] k = "DeleteRemote" -> "DeleteLocal"
                 [] k = "None"         -> "None"

-----------------------------------------------------------------------------
(* Which version wins.                                                     *)

\* Of two different contents exactly one is the newer: the digests break a tie
\* of modification times, so the two peers never both win and never both lose.
LEMMA NewerIsDecisive ==
    ASSUME NEW L \in FileMeta, NEW R \in FileMeta, ~SameContent(L, R)
    PROVE  NewerWins(L, R) <=> ~NewerWins(R, L)
<1>1. L.mtime \in Time /\ R.mtime \in Time /\ L.hash \in Hash /\ R.hash \in Hash
  BY DEF FileMeta
<1>2. L.mtime \in Int /\ R.mtime \in Int
  BY <1>1, ContentAssumption
<1>3. L.hash \in Nat /\ R.hash \in Nat
  BY <1>1, ContentAssumption
<1> QED
  BY <1>2, <1>3 DEF NewerWins, SameContent

\* The same for the larger of two contents, which falls back on the newer.
LEMMA LargerIsDecisive ==
    ASSUME NEW L \in FileMeta, NEW R \in FileMeta, ~SameContent(L, R)
    PROVE  LargerWins(L, R) <=> ~LargerWins(R, L)
<1>1. SizeOf[L.hash] \in Nat /\ SizeOf[R.hash] \in Nat
  BY ContentAssumption DEF FileMeta
<1> QED
  BY <1>1, NewerIsDecisive DEF LargerWins

\* Complementary policies name the same winner from both ends, whatever the two
\* versions are, a deletion included.
LEMMA WinnerIsAgreed ==
    ASSUME NEW L \in Entry, NEW R \in Entry, ~SameEntry(L, R),
           NEW c \in ConflictPolicy
    PROVE  LocalWins(L, R, c) <=> ~LocalWins(R, L, Complement(c))
<1>1. CASE L = Absent \/ R = Absent
  BY <1>1 DEF LocalWins, Complement, ConflictPolicy, SameEntry
<1>2. CASE L # Absent /\ R # Absent
  <2>1. L \in FileMeta /\ R \in FileMeta /\ ~SameContent(L, R)
    BY <1>2 DEF Entry, SameEntry
  <2>2. NewerWins(L, R) <=> ~NewerWins(R, L)
    BY <2>1, NewerIsDecisive
  <2>3. LargerWins(L, R) <=> ~LargerWins(R, L)
    BY <2>1, LargerIsDecisive
  <2> QED
    BY <1>2, <2>2, <2>3 DEF LocalWins, Complement, ConflictPolicy
<1> QED
  BY <1>1, <1>2

\* complement(complement(p)) = p: the pairing rule reads the same from both ends.
LEMMA ComplementIsInvolution ==
    ASSUME NEW c \in ConflictPolicy
    PROVE  /\ Complement(c) \in ConflictPolicy
           /\ Complement(Complement(c)) = c
BY DEF ConflictPolicy, Complement

-----------------------------------------------------------------------------
(* One path.                                                               *)

\* Comparing entries does not depend on which side asks.
LEMMA SameEntrySymmetric ==
    ASSUME NEW L, NEW R
    PROVE  SameEntry(L, R) <=> SameEntry(R, L)
BY DEF SameEntry, SameContent

\* Two-way: what one side decides about a path is the other side of what its
\* peer decides, and both see a conflict or neither does.
LEMMA TwoWayDecisionsMirror ==
    ASSUME NEW L \in Entry, NEW R \in Entry, NEW X \in Entry,
           NEW o \in Options, NEW q \in Options,
           o.deletes, q.deletes, q.conflict = Complement(o.conflict)
    PROVE  /\ DecideTwoWay(R, L, X, q) = MirrorOf(DecideTwoWay(L, R, X, o))
           /\ IsConflict(L, R, X) <=> IsConflict(R, L, X)
<1>1. Settled(L, R) <=> Settled(R, L)
  BY SameEntrySymmetric DEF Settled
<1>2. IsConflict(L, R, X) <=> IsConflict(R, L, X)
  BY <1>1, Zenon DEF IsConflict
<1>3. CASE Settled(L, R)
  BY <1>1, <1>2, <1>3 DEF DecideTwoWay, MirrorOf
<1>4. CASE IsConflict(L, R, X)
  <2>1. LocalWins(L, R, o.conflict) <=> ~LocalWins(R, L, q.conflict)
    BY <1>4, WinnerIsAgreed DEF IsConflict, Settled, Options
  <2>2. ~Settled(L, R) /\ ~Settled(R, L)
    BY <1>1, <1>4 DEF IsConflict
  <2> QED
    BY <1>2, <1>4, <2>1, <2>2 DEF DecideTwoWay, MirrorOf, Offer, Accept
<1>5. CASE ~Settled(L, R) /\ ~IsConflict(L, R, X)
  <2>1. ~Settled(R, L) /\ ~IsConflict(R, L, X)
    BY <1>1, <1>2, <1>5
  <2>2. Changed(L, X) <=> ~Changed(R, X)
    BY <1>5 DEF IsConflict
  <2> QED
    BY <1>5, <2>1, <2>2 DEF DecideTwoWay, MirrorOf, Offer, Accept
<1> QED
  BY <1>2, <1>3, <1>4, <1>5

\* Mirror mode: the same, between the source and the replica, for a path that
\* one of them has.
LEMMA MirrorDecisionsMirror ==
    ASSUME NEW L \in Entry, NEW R \in Entry, L # Absent \/ R # Absent,
           NEW o \in Options, NEW q \in Options,
           o.deletes, q.deletes, o.source # q.source
    PROVE  DecideMirror(R, L, q) = MirrorOf(DecideMirror(L, R, o))
<1>1. Settled(L, R) <=> Settled(R, L)
  BY SameEntrySymmetric DEF Settled
<1>2. o.source \in BOOLEAN /\ q.source \in BOOLEAN
  BY DEF Options
<1>3. Settled(L, R) => L # Absent /\ R # Absent
  BY DEF Settled, SameEntry
<1>4. CASE o.source /\ ~q.source
  BY <1>1, <1>3, <1>4 DEF DecideMirror, MirrorOf, Offer, Accept
<1>5. CASE ~o.source /\ q.source
  BY <1>1, <1>3, <1>5 DEF DecideMirror, MirrorOf, Offer, Accept
<1> QED
  BY <1>2, <1>4, <1>5

\* Either mode, for a path that appears in one of the manifests.
LEMMA DecisionsMirror ==
    ASSUME NEW b \in Manifest, NEW t \in Manifest, NEW u \in Manifest,
           NEW o \in Options, NEW q \in Options, Pairs(o, q),
           o.deletes, q.deletes,
           NEW f \in Keys(BaseFor(b, o), t, u)
    PROVE  Decide(f, BaseFor(b, q), u, t, q)
              = MirrorOf(Decide(f, BaseFor(b, o), t, u, o))
<1>1. f \in Path /\ t[f] \in Entry /\ u[f] \in Entry /\ b[f] \in Entry
  BY DEF Keys, Manifest
<1>2. CASE o.mode = "Mirror"
  <2>1. BaseFor(b, o)[f] = Absent
    BY <1>1, <1>2 DEF BaseFor, NoFiles
  <2>2. t[f] # Absent \/ u[f] # Absent
    BY <2>1 DEF Keys
  <2>3. q.mode = "Mirror" /\ o.source # q.source
    BY <1>2 DEF Pairs
  <2> QED
    BY <1>1, <1>2, <2>2, <2>3, MirrorDecisionsMirror DEF Decide
<1>3. CASE o.mode # "Mirror"
  <2>1. q.mode # "Mirror" /\ q.conflict = Complement(o.conflict)
    BY <1>3 DEF Pairs
  <2>2. BaseFor(b, o) = b /\ BaseFor(b, q) = b
    BY <1>3, <2>1 DEF BaseFor
  <2> QED
    BY <1>1, <1>3, <2>1, <2>2, TwoWayDecisionsMirror DEF Decide
<1> QED
  BY <1>2, <1>3

LEMMA DecideType ==
    ASSUME NEW f, NEW b, NEW t, NEW u, NEW o \in Options
    PROVE  Decide(f, b, t, u, o) \in Kind
BY Zenon DEF Decide, DecideTwoWay, DecideMirror, Offer, Accept, Kind

-----------------------------------------------------------------------------
(* Plans.                                                                  *)

\* Both peers look at the same paths.
LEMMA KeysSymmetric ==
    ASSUME NEW b, NEW t, NEW u, NEW o \in Options, NEW q \in Options, Pairs(o, q)
    PROVE  Keys(BaseFor(b, o), t, u) = Keys(BaseFor(b, q), u, t)
<1>1. BaseFor(b, o) = BaseFor(b, q)
  BY DEF Pairs, BaseFor
<1> QED
  BY <1>1 DEF Keys

\* core/diff.h: the plans of two peers with complementary options, the same
\* baseline and each other's tree are complements.
THEOREM PlansAreComplements ==
    ASSUME NEW b \in Manifest, NEW t \in Manifest, NEW u \in Manifest,
           NEW o \in Options, NEW q \in Options, Pairs(o, q),
           o.deletes, q.deletes
    PROVE  Complementary(PlanFor(b, t, u, o), PlanFor(b, u, t, q))
<1> DEFINE K == Keys(BaseFor(b, o), t, u)
           mine(f) == Decide(f, BaseFor(b, o), t, u, o)
           yours(f) == Decide(f, BaseFor(b, q), u, t, q)
<1>1. K = Keys(BaseFor(b, q), u, t)
  BY KeysSymmetric
<1>2. \A f \in K : yours(f) = MirrorOf(mine(f)) /\ mine(f) \in Kind
  BY DecisionsMirror, DecideType
<1>3. \A f \in K : /\ mine(f) = "Pull" <=> yours(f) = "Push"
                   /\ mine(f) = "Push" <=> yours(f) = "Pull"
                   /\ mine(f) = "DeleteLocal" <=> yours(f) = "DeleteRemote"
                   /\ mine(f) = "DeleteRemote" <=> yours(f) = "DeleteLocal"
  BY <1>2 DEF MirrorOf, Kind
<1>4. PlanFor(b, t, u, o).conflicts = PlanFor(b, u, t, q).conflicts
  <2>1. CASE o.mode = "Mirror"
    BY <2>1 DEF PlanFor, Pairs
  <2>2. CASE o.mode # "Mirror"
    <3>1. q.mode # "Mirror" /\ BaseFor(b, o) = b /\ BaseFor(b, q) = b
      BY <2>2 DEF Pairs, BaseFor
    <3>2. \A f \in Path : IsConflict(t[f], u[f], b[f]) <=> IsConflict(u[f], t[f], b[f])
      BY SameEntrySymmetric, Zenon DEF IsConflict, Settled
    <3> QED
      BY <2>2, <3>1, <3>2 DEF PlanFor
  <2> QED
    BY <2>1, <2>2
<1> HIDE DEF mine, yours, K
<1>5. /\ PlanFor(b, t, u, o).pull = {f \in K : mine(f) = "Pull"}
      /\ PlanFor(b, t, u, o).push = {f \in K : mine(f) = "Push"}
      /\ PlanFor(b, t, u, o).delete_local = {f \in K : mine(f) = "DeleteLocal"}
      /\ PlanFor(b, t, u, o).delete_remote = {f \in K : mine(f) = "DeleteRemote"}
  BY DEF PlanFor, mine, K
<1>6. /\ PlanFor(b, u, t, q).pull = {f \in K : yours(f) = "Pull"}
      /\ PlanFor(b, u, t, q).push = {f \in K : yours(f) = "Push"}
      /\ PlanFor(b, u, t, q).delete_local = {f \in K : yours(f) = "DeleteLocal"}
      /\ PlanFor(b, u, t, q).delete_remote = {f \in K : yours(f) = "DeleteRemote"}
  BY <1>1 DEF PlanFor, yours
<1> QED
  BY <1>3, <1>4, <1>5, <1>6 DEF Complementary

-----------------------------------------------------------------------------
(* The round.                                                              *)

LEMMA OptionsType ==
    ASSUME NEW o \in OptionsOf
    PROVE  /\ o[A] \in Options /\ o[B] \in Options
           /\ Pairs(o[A], o[B])
BY OptionsAssumption DEF Peer

\* A step of the round keeps every variable in its type.
LEMMA TypeStep ==
    TypeOK /\ [Next]_vars => TypeOK'
<1> SUFFICES ASSUME TypeOK, [Next]_vars PROVE TypeOK'
  OBVIOUS
<1>1. ASSUME NEW p \in Peer, MakePlan(p) PROVE TypeOK'
  <2>1. PlanOf(p).pull \in SUBSET Path /\ PlanOf(p).delete_local \in SUBSET Path
    BY DEF PlanOf, PlanFor, Keys
  <2> QED
    BY <1>1, <2>1 DEF TypeOK, MakePlan, Work
<1>2. ASSUME NEW p \in Peer, NEW f \in Path, DeleteLocal(p, f) PROVE TypeOK'
  <2>1. tree' \in [Peer -> Manifest]
    BY <1>2 DEF TypeOK, DeleteLocal, Manifest, Entry
  <2>2. plan' \in [Peer -> Work]
    BY <1>2 DEF TypeOK, DeleteLocal, Work
  <2> QED
    BY <1>2, <2>1, <2>2 DEF TypeOK, DeleteLocal
<1>3. ASSUME NEW p \in Peer, NEW f \in Path, Pull(p, f) PROVE TypeOK'
  <2>1. tree[Other(p)][f] \in Entry
    BY DEF TypeOK, Peer, Other, Manifest
  <2>2. tree' \in [Peer -> Manifest]
    BY <1>3, <2>1 DEF TypeOK, Pull, Manifest
  <2>3. plan' \in [Peer -> Work]
    BY <1>3 DEF TypeOK, Pull, Work
  <2> QED
    BY <1>3, <2>2, <2>3 DEF TypeOK, Pull
<1>4. CASE UNCHANGED vars
  BY <1>4 DEF TypeOK, vars
<1> QED
  BY <1>1, <1>2, <1>3, <1>4 DEF Next

\* The variables keep their types, for every instance.
THEOREM TypeCorrect == Spec => []TypeOK
<1>1. Init => TypeOK
  BY DEF Init, TypeOK, Idle, Work
<1> QED
  BY <1>1, TypeStep, PTL DEF Spec

\* core/diff.h: throughout the round, also while plans made earlier are being
\* carried out, the plans the two peers would make are complements.
THEOREM PlansStayComplementary == Spec => []PlansComplement
<1>1. TypeOK => PlansComplement
  <2> SUFFICES ASSUME TypeOK, Deleting
               PROVE  Complementary(PlanOf(A), PlanOf(B))
    BY DEF PlansComplement
  <2>1. /\ opt[A] \in Options /\ opt[B] \in Options /\ Pairs(opt[A], opt[B])
        /\ opt[A].deletes /\ opt[B].deletes
    BY OptionsType DEF TypeOK, Deleting, Peer
  <2>2. base \in Manifest /\ tree[A] \in Manifest /\ tree[B] \in Manifest
    BY DEF TypeOK, Peer
  <2>3. Other(A) = B /\ Other(B) = A
    BY PeersAssumption DEF Other
  <2> QED
    BY <2>1, <2>2, <2>3, PlansAreComplements DEF PlanOf
<1> QED
  BY <1>1, TypeCorrect, PTL

\* core/diff.h:76: a peer that follows deletions and whose plan is empty has the same
\* tree as the other.
THEOREM EmptyPlanIsAgreement == Spec => []EmptyPlanMeansAgreement
<1>1. ASSUME NEW b \in Manifest, NEW t \in Manifest, NEW u \in Manifest,
             NEW o \in Options, o.deletes, EmptyPlan(PlanFor(b, t, u, o))
      PROVE  SameTree(t, u)
  <2> SUFFICES ASSUME NEW f \in Path, ~SameEntry(t[f], u[f]) PROVE FALSE
    BY DEF SameTree
  <2> DEFINE c == BaseFor(b, o)
  <2>1. f \in Keys(c, t, u)
    BY DEF Keys, SameEntry
  <2>2. Decide(f, c, t, u, o) # "None"
    BY <1>1 DEF Decide, DecideTwoWay, DecideMirror, Settled, Offer, Accept
  <2>3. Decide(f, c, t, u, o) \in Kind
    BY DecideType
  <2> HIDE DEF c
  <2>4. Decide(f, c, t, u, o) \in {"Pull", "DeleteLocal", "Push", "DeleteRemote"}
    BY <2>2, <2>3 DEF Kind
  <2>5. c = BaseFor(b, o)
    BY DEF c
  <2> QED
    BY <1>1, <2>1, <2>4, <2>5 DEF PlanFor, EmptyPlan
<1>2. TypeOK => EmptyPlanMeansAgreement
  <2> SUFFICES ASSUME TypeOK, NEW p \in Peer, opt[p].deletes, EmptyPlan(PlanOf(p))
               PROVE  SameTree(tree[A], tree[B])
    BY DEF EmptyPlanMeansAgreement
  <2>1. /\ opt[p] \in Options /\ opt[p].deletes
        /\ base \in Manifest /\ tree[p] \in Manifest /\ tree[Other(p)] \in Manifest
    BY OptionsType DEF TypeOK, Peer, Other
  <2>2. SameTree(tree[p], tree[Other(p)])
    BY <1>1, <2>1 DEF PlanOf
  <2> QED
    BY <2>2, SameEntrySymmetric, PeersAssumption DEF SameTree, Peer, Other
<1> QED
  BY <1>2, TypeCorrect, PTL

-----------------------------------------------------------------------------
(* Without deletions.                                                      *)

\* A side that does not follow deletions has none in its plan, and keeps its paths.
KeptInv == \A p \in Peer : ~opt[p].deletes =>
               /\ plan[p].delete_local = {}
               /\ \A f \in Path : start[p][f] # Absent => tree[p][f] # Absent

\* Such a side never decides to delete.
LEMMA NeverDeletes ==
    ASSUME NEW b, NEW t, NEW u, NEW o \in Options, ~o.deletes
    PROVE  PlanFor(b, t, u, o).delete_local = {}
<1>1. ASSUME NEW f PROVE Decide(f, BaseFor(b, o), t, u, o) # "DeleteLocal"
  BY Zenon DEF Decide, DecideTwoWay, DecideMirror, Offer, Accept
<1> QED
  BY <1>1 DEF PlanFor

LEMMA KeptStep ==
    TypeOK /\ KeptInv /\ [Next]_vars => KeptInv'
<1> SUFFICES ASSUME TypeOK, KeptInv, [Next]_vars,
                    NEW r \in Peer, ~opt'[r].deletes
             PROVE  /\ plan'[r].delete_local = {}
                    /\ \A g \in Path : start'[r][g] # Absent => tree'[r][g] # Absent
  BY DEF KeptInv
<1>1. ASSUME NEW p \in Peer, MakePlan(p)
      PROVE  /\ plan'[r].delete_local = {}
             /\ \A g \in Path : start'[r][g] # Absent => tree'[r][g] # Absent
  <2>1. opt[p] \in Options
    BY OptionsType DEF TypeOK, Peer
  <2>2. ~opt[p].deletes => PlanOf(p).delete_local = {}
    BY <2>1, NeverDeletes DEF PlanOf
  <2> QED
    BY <1>1, <2>2 DEF TypeOK, KeptInv, MakePlan
<1>2. ASSUME NEW p \in Peer, NEW f \in Path, DeleteLocal(p, f)
      PROVE  /\ plan'[r].delete_local = {}
             /\ \A g \in Path : start'[r][g] # Absent => tree'[r][g] # Absent
  <2>1. r # p
    BY <1>2 DEF KeptInv, DeleteLocal
  <2> QED
    BY <1>2, <2>1 DEF TypeOK, KeptInv, DeleteLocal
<1>3. ASSUME NEW p \in Peer, NEW f \in Path, Pull(p, f)
      PROVE  /\ plan'[r].delete_local = {}
             /\ \A g \in Path : start'[r][g] # Absent => tree'[r][g] # Absent
  <2>1. plan'[r].delete_local = plan[r].delete_local
    BY <1>3 DEF TypeOK, Pull, Work
  <2>2. \A g \in Path : tree[r][g] # Absent => tree'[r][g] # Absent
    BY <1>3 DEF TypeOK, Pull, Manifest
  <2> QED
    BY <1>3, <2>1, <2>2 DEF KeptInv, Pull
<1>4. CASE UNCHANGED vars
  BY <1>4 DEF KeptInv, vars
<1> QED
  BY <1>1, <1>2, <1>3, <1>4 DEF Next

\* README, --no-delete: a side that does not follow deletions loses no path.
THEOREM NothingIsDeleted == Spec => []KeptWithoutDeletes
<1>1. Init => KeptInv
  BY DEF Init, KeptInv, Idle
<1>2. KeptInv => KeptWithoutDeletes
  BY DEF KeptInv, KeptWithoutDeletes
<1> QED
  BY <1>1, <1>2, KeptStep, TypeCorrect, PTL DEF Spec

-----------------------------------------------------------------------------
(* Changes of one side.                                                    *)

\* f has been changed by p alone.
OneSided(p, f) ==
    /\ opt[p].mode = "TwoWay"
    /\ Changed(start[p][f], base[f])
    /\ ~Changed(start[Other(p)][f], base[f])

\* p leaves such a file alone, and the other side has its own version or p's; it
\* deletes the file only if p did.
OneSidedInv == \A p \in Peer, f \in Path : OneSided(p, f) =>
    /\ tree[p][f] = start[p][f]
    /\ tree[Other(p)][f] \in {start[Other(p)][f], start[p][f]}
    /\ f \notin plan[p].pull /\ f \notin plan[p].delete_local
    /\ f \in plan[Other(p)].delete_local => start[p][f] = Absent

\* What a plan says of a path is the decision about it.
LEMMA InPlan ==
    ASSUME NEW b, NEW t, NEW u, NEW o \in Options, o.mode = "TwoWay",
           NEW f \in Path
    PROVE  /\ f \in PlanFor(b, t, u, o).pull =>
                  DecideTwoWay(t[f], u[f], b[f], o) = "Pull"
           /\ f \in PlanFor(b, t, u, o).delete_local =>
                  DecideTwoWay(t[f], u[f], b[f], o) = "DeleteLocal"
           /\ DecideTwoWay(t[f], u[f], b[f], o) = "Pull" =>
                  f \in PlanFor(b, t, u, o).pull
           /\ DecideTwoWay(t[f], u[f], b[f], o) = "DeleteLocal" =>
                  f \in PlanFor(b, t, u, o).delete_local
<1>1. BaseFor(b, o) = b /\ Decide(f, b, t, u, o) = DecideTwoWay(t[f], u[f], b[f], o)
  BY DEF BaseFor, Decide
<1>2. ASSUME f \notin Keys(b, t, u) PROVE DecideTwoWay(t[f], u[f], b[f], o) = "None"
  BY <1>2 DEF Keys, DecideTwoWay, Settled, SameEntry
<1> QED
  BY <1>1, <1>2 DEF PlanFor

\* One decision: the side that changed a file never accepts the other's, and the
\* other side gives way, deleting only what is gone.
LEMMA ChangeIsOffered ==
    ASSUME NEW L, NEW R, NEW X, NEW o \in Options,
           Changed(L, X), ~Changed(R, X) \/ R = L
    PROVE  DecideTwoWay(L, R, X, o) \notin {"Pull", "DeleteLocal"}
<1>1. SameEntry(L, L)
  BY DEF SameEntry, SameContent
<1> QED
  BY <1>1 DEF DecideTwoWay, Settled, IsConflict, Offer

LEMMA ChangeIsAccepted ==
    ASSUME NEW L, NEW R, NEW X, NEW o \in Options,
           ~Changed(L, X), Changed(R, X), ~SameEntry(L, R)
    PROVE  DecideTwoWay(L, R, X, o) = Accept(R, o)
BY DEF DecideTwoWay, Settled, IsConflict

LEMMA DeletesWhatIsGone ==
    ASSUME NEW L, NEW R, NEW X, NEW o \in Options,
           DecideTwoWay(L, R, X, o) = "DeleteLocal"
    PROVE  R = Absent
BY DEF DecideTwoWay, Accept, Offer

LEMMA PeerFacts ==
    ASSUME TypeOK, NEW p \in Peer
    PROVE  /\ Other(p) \in Peer /\ Other(p) # p /\ Other(Other(p)) = p
           /\ \A r \in Peer : r = p \/ r = Other(p)
           /\ opt[p] \in Options /\ opt[Other(p)] \in Options
           /\ opt[p].mode = "TwoWay" => opt[Other(p)].mode = "TwoWay"
BY OptionsType, PeersAssumption DEF TypeOK, Peer, Other, Pairs

LEMMA OneSidedStep ==
    TypeOK /\ OneSidedInv /\ [Next]_vars => OneSidedInv'
<1> SUFFICES ASSUME TypeOK, OneSidedInv, [Next]_vars,
                    NEW p \in Peer, NEW f \in Path, OneSided(p, f)'
             PROVE  (/\ tree[p][f] = start[p][f]
                     /\ tree[Other(p)][f] \in {start[Other(p)][f], start[p][f]}
                     /\ f \notin plan[p].pull /\ f \notin plan[p].delete_local
                     /\ f \in plan[Other(p)].delete_local => start[p][f] = Absent)'
  BY DEF OneSidedInv
<1> DEFINE q == Other(p)
<1>0. /\ q \in Peer /\ q # p /\ Other(q) = p /\ \A r \in Peer : r = p \/ r = q
      /\ opt[p] \in Options /\ opt[q] \in Options
      /\ opt[p].mode = "TwoWay" => opt[q].mode = "TwoWay"
  BY PeerFacts
<1>a. opt' = opt /\ base' = base /\ start' = start
  BY DEF Next, MakePlan, DeleteLocal, Pull, vars
<1>b. OneSided(p, f)
  BY <1>a DEF OneSided
<1>c. /\ tree[p][f] = start[p][f]
      /\ tree[q][f] \in {start[q][f], start[p][f]}
      /\ f \notin plan[p].pull /\ f \notin plan[p].delete_local
      /\ f \in plan[q].delete_local => start[p][f] = Absent
  BY <1>b DEF OneSidedInv
<1> HIDE DEF q
<1> SUFFICES /\ tree'[p][f] = start[p][f]
             /\ tree'[q][f] \in {start[q][f], start[p][f]}
             /\ f \notin plan'[p].pull /\ f \notin plan'[p].delete_local
             /\ f \in plan'[q].delete_local => start[p][f] = Absent
  BY <1>a DEF q
<1>1. ASSUME NEW r \in Peer, MakePlan(r)
      PROVE  /\ tree'[p][f] = start[p][f]
             /\ tree'[q][f] \in {start[q][f], start[p][f]}
             /\ f \notin plan'[p].pull /\ f \notin plan'[p].delete_local
             /\ f \in plan'[q].delete_local => start[p][f] = Absent
  <2>1. tree' = tree
    BY <1>1 DEF MakePlan
  <2>2. CASE r = p
    <3>1. DecideTwoWay(tree[p][f], tree[q][f], base[f], opt[p])
             \notin {"Pull", "DeleteLocal"}
      BY <1>0, <1>b, <1>c, ChangeIsOffered DEF OneSided, q
    <3>2. f \notin PlanOf(p).pull /\ f \notin PlanOf(p).delete_local
      BY <1>0, <1>b, <3>1, InPlan DEF PlanOf, OneSided, q
    <3>3. plan' = [plan EXCEPT ![p] = [pull |-> PlanOf(p).pull,
                                       delete_local |-> PlanOf(p).delete_local]]
      BY <1>1, <2>2 DEF MakePlan
    <3> QED
      BY <1>0, <1>c, <2>1, <3>2, <3>3 DEF TypeOK
  <2>3. CASE r = q
    <3>1. f \in PlanOf(q).delete_local => tree[p][f] = Absent
      BY <1>0, <1>b, InPlan, DeletesWhatIsGone DEF PlanOf, OneSided
    <3>2. plan' = [plan EXCEPT ![q] = [pull |-> PlanOf(q).pull,
                                       delete_local |-> PlanOf(q).delete_local]]
      BY <1>1, <2>3 DEF MakePlan
    <3> QED
      BY <1>0, <1>c, <2>1, <3>1, <3>2 DEF TypeOK
  <2> QED
    BY <1>0, <2>2, <2>3
<1>2. ASSUME NEW r \in Peer, NEW g \in Path, DeleteLocal(r, g)
      PROVE  /\ tree'[p][f] = start[p][f]
             /\ tree'[q][f] \in {start[q][f], start[p][f]}
             /\ f \notin plan'[p].pull /\ f \notin plan'[p].delete_local
             /\ f \in plan'[q].delete_local => start[p][f] = Absent
  <2>1. r = p => g # f
    BY <1>2, <1>c DEF DeleteLocal
  <2>2. r = q /\ g = f => start[p][f] = Absent
    BY <1>2, <1>c DEF DeleteLocal
  <2>3. /\ tree' = [tree EXCEPT ![r][g] = Absent]
        /\ plan' = [plan EXCEPT ![r].delete_local = @ \ {g}]
    BY <1>2 DEF DeleteLocal
  <2>4. /\ plan'[p].pull = plan[p].pull
        /\ f \in plan'[p].delete_local => f \in plan[p].delete_local
        /\ f \in plan'[q].delete_local => f \in plan[q].delete_local
    BY <1>0, <2>3 DEF TypeOK, Work
  <2>5. tree'[p][f] = tree[p][f] /\ tree'[q][f] \in {tree[q][f], start[p][f]}
    BY <1>0, <2>1, <2>2, <2>3 DEF TypeOK, Manifest
  <2> QED
    BY <1>c, <2>4, <2>5
<1>3. ASSUME NEW r \in Peer, NEW g \in Path, Pull(r, g)
      PROVE  /\ tree'[p][f] = start[p][f]
             /\ tree'[q][f] \in {start[q][f], start[p][f]}
             /\ f \notin plan'[p].pull /\ f \notin plan'[p].delete_local
             /\ f \in plan'[q].delete_local => start[p][f] = Absent
  <2>1. r = p => g # f
    BY <1>3, <1>c DEF Pull
  <2>2. /\ tree' \in {tree, [tree EXCEPT ![r][g] = tree[Other(r)][g]]}
        /\ plan' = [plan EXCEPT ![r].pull = @ \ {g}]
    BY <1>3 DEF Pull
  <2>3. /\ f \in plan'[p].pull => f \in plan[p].pull
        /\ plan'[p].delete_local = plan[p].delete_local
        /\ plan'[q].delete_local = plan[q].delete_local
    BY <1>0, <2>2 DEF TypeOK, Work
  <2>4. tree'[p][f] = tree[p][f] /\ tree'[q][f] \in {tree[q][f], tree[p][f]}
    BY <1>0, <2>1, <2>2 DEF TypeOK, Manifest
  <2> QED
    BY <1>c, <2>3, <2>4
<1>4. CASE UNCHANGED vars
  BY <1>4, <1>c DEF vars
<1> QED
  BY <1>1, <1>2, <1>3, <1>4 DEF Next

\* Where one side alone changed a file, that side's version is what both end up with.
THEOREM ChangesArrive == Spec => []OneSidedChangeWins
<1>1. Init => OneSidedInv
  BY DEF Init, OneSidedInv, Idle, Peer, Other
<1>2. TypeOK /\ OneSidedInv => OneSidedChangeWins
  <2> SUFFICES ASSUME TypeOK, OneSidedInv, Done,
                      NEW p \in Peer, NEW q \in Peer, NEW f \in Path, OneSided(p, f),
                      start[p][f] # Absent \/ opt[Other(p)].deletes
               PROVE  SameEntry(tree[q][f], start[p][f])
    BY DEF OneSidedChangeWins, OneSided
  <2>1. SameEntry(start[p][f], start[p][f])
    BY DEF SameEntry, SameContent
  <2>2. /\ tree[p][f] = start[p][f]
        /\ tree[Other(p)][f] \in {start[Other(p)][f], start[p][f]}
    BY DEF OneSidedInv
  <2>3. CASE q = p \/ tree[q][f] = start[p][f]
    BY <2>1, <2>2, <2>3
  <2>4. CASE q = Other(p) /\ tree[q][f] = start[q][f]
    <3>1. /\ opt[q] \in Options /\ opt[q].mode = "TwoWay" /\ Other(q) = p
      BY <2>4, PeerFacts DEF OneSided
    <3>2. ASSUME ~SameEntry(tree[q][f], tree[p][f])
          PROVE  DecideTwoWay(tree[q][f], tree[p][f], base[f], opt[q]) \in {"Pull", "DeleteLocal"}
      <4>1. DecideTwoWay(tree[q][f], tree[p][f], base[f], opt[q]) = Accept(tree[p][f], opt[q])
        BY <2>2, <2>4, <3>1, <3>2, ChangeIsAccepted DEF OneSided
      <4> QED
        BY <2>2, <2>4, <4>1 DEF Accept
    <3>3. PlanOf(q).pull = {} /\ PlanOf(q).delete_local = {}
      BY DEF Done
    <3> QED
      BY <2>2, <3>1, <3>2, <3>3, InPlan DEF PlanOf
  <2> QED
    BY <2>2, <2>3, <2>4, PeerFacts
<1> QED
  BY <1>1, <1>2, OneSidedStep, TypeCorrect, PTL DEF Spec

-----------------------------------------------------------------------------
(* Conflicts.                                                              *)

\* Both sides have changed f, and p has a version of it that it was not told to
\* give up.
Contested(p, f) ==
    /\ opt[p].mode = "TwoWay" /\ opt[p].conflict # "remote"
    /\ Changed(start[p][f], base[f]) /\ start[p][f] # Absent
    /\ Changed(start[Other(p)][f], base[f])

\* Such a file is never deleted, by either side, and each has one of the versions.
ContestedInv == \A p \in Peer, f \in Path : Contested(p, f) =>
    /\ \A r \in Peer : /\ tree[r][f] \in {start[p][f], start[Other(p)][f]}
                       /\ f \notin plan[r].delete_local
    /\ tree[p][f] # Absent

\* One decision: a version meets a deletion, or another version.
LEMMA VersionIsOffered ==
    ASSUME NEW L, NEW X, NEW o \in Options,
           L # Absent, Changed(L, X), Changed(Absent, X), o.conflict # "remote"
    PROVE  DecideTwoWay(L, Absent, X, o) = "Push"
BY DEF DecideTwoWay, Settled, SameEntry, IsConflict, LocalWins, Offer

LEMMA ConflictIsDecided ==
    ASSUME NEW L \in Entry, NEW R \in Entry, NEW X \in Entry,
           NEW o \in Options, NEW q \in Options,
           Changed(L, X), Changed(R, X), ~SameEntry(L, R),
           L # Absent, o.conflict # "remote", q.conflict = Complement(o.conflict)
    PROVE  \/ DecideTwoWay(L, R, X, o) = "Pull"
           \/ DecideTwoWay(R, L, X, q) = "Pull"
<1>1. IsConflict(L, R, X) /\ IsConflict(R, L, X)
  BY SameEntrySymmetric, Zenon DEF IsConflict, Settled
<1>2. ~Settled(L, R) /\ ~Settled(R, L)
  BY SameEntrySymmetric DEF Settled
<1>3. LocalWins(L, R, o.conflict) <=> ~LocalWins(R, L, q.conflict)
  BY WinnerIsAgreed DEF Options
<1>4. CASE LocalWins(L, R, o.conflict)
  BY <1>1, <1>2, <1>3, <1>4 DEF DecideTwoWay, Accept
<1>5. CASE ~LocalWins(L, R, o.conflict)
  <2>1. R # Absent
    BY <1>5 DEF LocalWins
  <2> QED
    BY <1>1, <1>2, <1>5, <2>1 DEF DecideTwoWay, Accept
<1> QED
  BY <1>4, <1>5

LEMMA ContestedStep ==
    TypeOK /\ ContestedInv /\ [Next]_vars => ContestedInv'
<1> SUFFICES ASSUME TypeOK, ContestedInv, [Next]_vars,
                    NEW p \in Peer, NEW f \in Path, Contested(p, f)'
             PROVE  (/\ \A r \in Peer : /\ tree[r][f] \in {start[p][f], start[Other(p)][f]}
                                        /\ f \notin plan[r].delete_local
                     /\ tree[p][f] # Absent)'
  BY DEF ContestedInv
<1> DEFINE q == Other(p)
           Versions == {start[p][f], start[q][f]}
<1>0. /\ q \in Peer /\ q # p /\ Other(q) = p /\ \A r \in Peer : r = p \/ r = q
      /\ opt[p] \in Options /\ opt[q] \in Options
      /\ opt[p].mode = "TwoWay" => opt[q].mode = "TwoWay"
  BY PeerFacts
<1>a. opt' = opt /\ base' = base /\ start' = start
  BY DEF Next, MakePlan, DeleteLocal, Pull, vars
<1>b. Contested(p, f)
  BY <1>a DEF Contested
<1>c. /\ \A r \in Peer : tree[r][f] \in Versions /\ f \notin plan[r].delete_local
      /\ tree[p][f] # Absent
  BY <1>b DEF ContestedInv
<1>d. \A v \in Versions : Changed(v, base[f])
  BY <1>b DEF Contested
<1> HIDE DEF q, Versions
<1> SUFFICES /\ \A r \in Peer : tree'[r][f] \in Versions /\ f \notin plan'[r].delete_local
             /\ tree'[p][f] # Absent
  BY <1>a DEF q, Versions
<1>1. ASSUME NEW s \in Peer, MakePlan(s)
      PROVE  /\ \A r \in Peer : tree'[r][f] \in Versions /\ f \notin plan'[r].delete_local
             /\ tree'[p][f] # Absent
  <2>1. tree' = tree
    BY <1>1 DEF MakePlan
  <2>2. f \notin PlanOf(s).delete_local
    <3>1. CASE s = q
      BY <1>0, <1>b, <1>c, <3>1, InPlan, DeletesWhatIsGone DEF PlanOf, Contested
    <3>2. CASE s = p
      <4>1. DecideTwoWay(tree[p][f], tree[q][f], base[f], opt[p]) = "DeleteLocal"
               => tree[q][f] = Absent
        BY <1>0, DeletesWhatIsGone
      <4>2. tree[q][f] = Absent
               => DecideTwoWay(tree[p][f], tree[q][f], base[f], opt[p]) = "Push"
        BY <1>0, <1>b, <1>c, <1>d, VersionIsOffered DEF Contested
      <4>3. DecideTwoWay(tree[p][f], tree[q][f], base[f], opt[p]) # "DeleteLocal"
        BY <4>1, <4>2
      <4> QED
        BY <1>0, <1>b, <3>2, <4>3, InPlan DEF PlanOf, Contested, q
    <3> QED
      BY <1>0, <3>1, <3>2
  <2>3. plan' = [plan EXCEPT ![s] = [pull |-> PlanOf(s).pull,
                                     delete_local |-> PlanOf(s).delete_local]]
    BY <1>1 DEF MakePlan
  <2> QED
    BY <1>c, <2>1, <2>2, <2>3 DEF TypeOK
<1>2. ASSUME NEW s \in Peer, NEW g \in Path, DeleteLocal(s, g)
      PROVE  /\ \A r \in Peer : tree'[r][f] \in Versions /\ f \notin plan'[r].delete_local
             /\ tree'[p][f] # Absent
  <2>1. g # f
    BY <1>2, <1>c DEF DeleteLocal
  <2>2. /\ tree' = [tree EXCEPT ![s][g] = Absent]
        /\ plan' = [plan EXCEPT ![s].delete_local = @ \ {g}]
    BY <1>2 DEF DeleteLocal
  <2>3. \A r \in Peer : tree'[r][f] = tree[r][f]
    BY <2>1, <2>2 DEF TypeOK, Manifest
  <2>4. \A r \in Peer : f \in plan'[r].delete_local => f \in plan[r].delete_local
    BY <2>2 DEF TypeOK, Work
  <2> QED
    BY <1>c, <2>3, <2>4
<1>3. ASSUME NEW s \in Peer, NEW g \in Path, Pull(s, g)
      PROVE  /\ \A r \in Peer : tree'[r][f] \in Versions /\ f \notin plan'[r].delete_local
             /\ tree'[p][f] # Absent
  <2>1. /\ \/ tree' = tree
           \/ /\ tree[Other(s)][g] # Absent
              /\ tree' = [tree EXCEPT ![s][g] = tree[Other(s)][g]]
        /\ plan' = [plan EXCEPT ![s].pull = @ \ {g}]
    BY <1>3 DEF Pull
  <2>2. Other(s) \in Peer
    BY PeerFacts
  <2>3. \A r \in Peer : \/ tree'[r][f] = tree[r][f]
                        \/ /\ tree'[r][f] = tree[Other(s)][f]
                           /\ tree[Other(s)][f] # Absent
    <3>1. CASE tree' = tree
      BY <3>1
    <3>2. CASE /\ tree[Other(s)][g] # Absent
               /\ tree' = [tree EXCEPT ![s][g] = tree[Other(s)][g]]
      <4>1. tree \in [Peer -> Manifest]
        BY DEF TypeOK
      <4>2. tree'[s] = [tree[s] EXCEPT ![g] = tree[Other(s)][g]]
        BY <3>2, <4>1
      <4>3. \A r \in Peer : r # s => tree'[r] = tree[r]
        BY <3>2, <4>1
      <4>4. tree'[s][f] = IF f = g THEN tree[Other(s)][g] ELSE tree[s][f]
        BY <4>1, <4>2 DEF Manifest
      <4> QED
        BY <3>2, <4>3, <4>4
    <3> QED
      BY <2>1, <3>1, <3>2
  <2>4. \A r \in Peer : plan'[r].delete_local = plan[r].delete_local
    BY <2>1 DEF TypeOK, Work
  <2> QED
    BY <1>c, <2>2, <2>3, <2>4
<1>4. CASE UNCHANGED vars
  BY <1>4, <1>c DEF vars
<1> QED
  BY <1>1, <1>2, <1>3, <1>4 DEF Next

\* core/diff.cpp:26, "modify beats delete": a version its owner was not told to give up
\* outlives a deletion, and what survives a conflict is one of the two versions.
THEOREM ModificationsSurvive == Spec => []ModifyBeatsDelete
<1>1. Init => ContestedInv
  BY PeersAssumption DEF Init, ContestedInv, Contested, Idle, Peer, Other
<1>2. TypeOK /\ ContestedInv /\ OneSidedChangeWins => ModifyBeatsDelete
  <2> SUFFICES ASSUME TypeOK, ContestedInv, OneSidedChangeWins, Done,
                      NEW p \in Peer, NEW f \in Path,
                      opt[p].mode = "TwoWay", Changed(start[p][f], base[f]),
                      start[p][f] # Absent, opt[p].conflict # "remote"
               PROVE  \E r \in Peer : /\ start[r][f] # Absent
                                      /\ \A q \in Peer : SameEntry(tree[q][f], start[r][f])
    BY DEF ModifyBeatsDelete
  <2>1. CASE ~Changed(start[Other(p)][f], base[f])
    BY <2>1 DEF OneSidedChangeWins
  <2>2. CASE Changed(start[Other(p)][f], base[f])
    <3> DEFINE q == Other(p)
    <3>1. /\ q \in Peer /\ Other(q) = p /\ \A r \in Peer : r = p \/ r = q
          /\ opt[p] \in Options /\ opt[q] \in Options /\ opt[q].mode = "TwoWay"
      BY PeerFacts
    <3>2. opt[q].conflict = Complement(opt[p].conflict)
      BY OptionsType, ComplementIsInvolution, PeersAssumption
         DEF TypeOK, Peer, Other, Pairs, Options
    <3>3. /\ tree[p][f] \in {start[p][f], start[q][f]} /\ tree[p][f] # Absent
          /\ tree[q][f] \in {start[p][f], start[q][f]}
      BY <2>2, <3>1 DEF ContestedInv, Contested
    <3>4. /\ Changed(tree[p][f], base[f]) /\ Changed(tree[q][f], base[f])
          /\ tree[p][f] \in Entry /\ tree[q][f] \in Entry /\ base[f] \in Entry
      BY <2>2, <3>1, <3>3 DEF TypeOK, Manifest
    <3> HIDE DEF q
    <3>5. SameEntry(tree[p][f], tree[q][f])
      <4> SUFFICES ASSUME ~SameEntry(tree[p][f], tree[q][f]) PROVE FALSE
        OBVIOUS
      <4>1. \/ DecideTwoWay(tree[p][f], tree[q][f], base[f], opt[p]) = "Pull"
            \/ DecideTwoWay(tree[q][f], tree[p][f], base[f], opt[q]) = "Pull"
        BY <3>1, <3>2, <3>3, <3>4, ConflictIsDecided
      <4>2. f \in PlanOf(p).pull \/ f \in PlanOf(q).pull
        BY <3>1, <4>1, InPlan DEF PlanOf, q
      <4> QED
        BY <3>1, <4>2 DEF Done
    <3>6. PICK r \in Peer : tree[p][f] = start[r][f]
      BY <3>1, <3>3
    <3>7. SameEntry(tree[p][f], tree[p][f])
      BY DEF SameEntry, SameContent
    <3>8. \A s \in Peer : SameEntry(tree[s][f], start[r][f])
      BY <3>1, <3>5, <3>6, <3>7, SameEntrySymmetric
    <3> QED
      BY <3>3, <3>6, <3>8
  <2> QED
    BY <2>1, <2>2
<1> QED
  BY <1>1, <1>2, ContestedStep, ChangesArrive, TypeCorrect, PTL DEF Spec
=============================================================================
