------------------------------ MODULE SyncRound ------------------------------
(***************************************************************************)
(* Two peers reconcile one folder from a baseline they share, each always  *)
(* looking at the other's current tree.  This is the setting in which      *)
(* core/diff.h promises that the two plans are complements; what happens   *)
(* when views lag and baselines differ is the subject of SyncPair.         *)
(*                                                                         *)
(* A peer computes a plan and then acts on it path by path, while the      *)
(* other does the same: plans go out of date between their computation and *)
(* their execution.                                                        *)
(***************************************************************************)
EXTENDS Reconcile

CONSTANTS A, B,       \* the two peers
          OptionsOf   \* the pairs of options the peers may run with

ASSUME PeersAssumption == A # B
ASSUME OptionsAssumption ==
    OptionsOf \subseteq {o \in [{A, B} -> Options] : Pairs(o[A], o[B])}

Peer == {A, B}
Other(p) == IF p = A THEN B ELSE A

VARIABLES opt,    \* each peer's options
          base,   \* the shared baseline
          start,  \* the trees the round began with
          tree,   \* each peer's tree
          plan    \* the plan each peer is executing, or Idle

vars == <<opt, base, start, tree, plan>>

Idle == [pull |-> {}, delete_local |-> {}]
Work == [pull : SUBSET Path, delete_local : SUBSET Path]

TypeOK == /\ opt \in OptionsOf
          /\ base \in Manifest
          /\ start \in [Peer -> Manifest]
          /\ tree \in [Peer -> Manifest]
          /\ plan \in [Peer -> Work]

PlanOf(p) == PlanFor(base, tree[p], tree[Other(p)], opt[p])

Init == /\ opt \in OptionsOf
        /\ base \in Manifest
        /\ start \in [Peer -> Manifest]
        /\ tree = start
        /\ plan = [p \in Peer |-> Idle]

\* Mutant: the offers are queued with the work.
MakePlanWhole(p) ==
    /\ plan[p] = Idle
    /\ plan' = [plan EXCEPT ![p] = PlanOf(p)]
    /\ UNCHANGED <<opt, base, start, tree>>

\* reconcile_and_act decides...
MakePlan(p) ==
    /\ plan[p] = Idle
    /\ PlanOf(p).pull \union PlanOf(p).delete_local # {}
    /\ plan' = [plan EXCEPT ![p] = [pull |-> PlanOf(p).pull,
                                    delete_local |-> PlanOf(p).delete_local]]
    /\ UNCHANGED <<opt, base, start, tree>>

\* ...and acts: deletions first,
DeleteLocal(p, f) ==
    /\ f \in plan[p].delete_local
    /\ tree' = [tree EXCEPT ![p][f] = Absent]
    /\ plan' = [plan EXCEPT ![p].delete_local = @ \ {f}]
    /\ UNCHANGED <<opt, base, start>>

\* then pulls, each answered from the file the peer has now, or NotFound.
Pull(p, f) ==
    /\ plan[p].delete_local = {}
    /\ f \in plan[p].pull
    /\ LET got == tree[Other(p)][f]
       IN  tree' = IF got = Absent THEN tree ELSE [tree EXCEPT ![p][f] = got]
    /\ plan' = [plan EXCEPT ![p].pull = @ \ {f}]
    /\ UNCHANGED <<opt, base, start>>

Next == \E p \in Peer : \/ MakePlan(p)
                        \/ \E f \in Path : DeleteLocal(p, f) \/ Pull(p, f)

Spec == Init /\ [][Next]_vars

\* Both threads keep running, so plans are made and carried out.
Fairness == \A p \in Peer :
                /\ WF_vars(MakePlan(p))
                /\ WF_vars(\E f \in Path : DeleteLocal(p, f) \/ Pull(p, f))
FairSpec == Spec /\ Fairness

-----------------------------------------------------------------------------
(* Properties.                                                             *)

Deleting == \A p \in Peer : opt[p].deletes

\* Two plans over the same pair of trees are complements: what one side pulls
\* the other offers, what one side deletes the other expects deleted, and both
\* report the same conflicts.
Complementary(pl, ql) == /\ pl.pull = ql.push
                         /\ pl.push = ql.pull
                         /\ pl.delete_local = ql.delete_remote
                         /\ pl.delete_remote = ql.delete_local
                         /\ pl.conflicts = ql.conflicts

\* core/diff.h: "the two plans are complements" at every moment of the round,
\* also half way through the execution of plans made earlier.
PlansComplement == Deleting => Complementary(PlanOf(A), PlanOf(B))

\* core/diff.h:76: "once there is nothing left to pull or delete, the two trees
\* agree", judged by one side alone, if it is a side that follows deletions.
EmptyPlanMeansAgreement ==
    \A p \in Peer : opt[p].deletes /\ EmptyPlan(PlanOf(p)) => SameTree(tree[A], tree[B])

\* Nothing is left to pull or delete; a side may go on waiting for deletions the
\* other does not follow.
Done == \A p \in Peer : /\ plan[p] = Idle
                        /\ PlanOf(p).pull \union PlanOf(p).delete_local = {}

\* The merge a user expects: where one side alone changed a file since the
\* baseline, that side's version is what both end up with, and its deletion too
\* if the other side follows deletions.
OneSidedChangeWins ==
    Done => \A p, q \in Peer, f \in Path :
        /\ opt[p].mode = "TwoWay"
        /\ Changed(start[p][f], base[f])
        /\ ~Changed(start[Other(p)][f], base[f])
        /\ start[p][f] # Absent \/ opt[Other(p)].deletes
        => SameEntry(tree[q][f], start[p][f])

\* core/diff.cpp:26, "modify beats delete": unless a side was told to lose every
\* conflict, a version written since the baseline outlives a deletion, and the
\* survivor of a conflict is one of the versions that took part in it.
ModifyBeatsDelete ==
    Done => \A p \in Peer, f \in Path :
        /\ opt[p].mode = "TwoWay"
        /\ Changed(start[p][f], base[f])
        /\ start[p][f] # Absent
        /\ opt[p].conflict # "remote"
        => \E r \in Peer : /\ start[r][f] # Absent
                           /\ \A q \in Peer : SameEntry(tree[q][f], start[r][f])

\* README, --no-delete: a side that does not follow deletions loses no path.
KeptWithoutDeletes ==
    \A p \in Peer, f \in Path :
        ~opt[p].deletes /\ start[p][f] # Absent => tree[p][f] # Absent

\* ...and that is all the option does: the round ends, with both plans carried out for
\* good, and the trees differ only where such a side has kept a file the other side did
\* not have from the beginning.  Deletions followed, they are equal.
OnlyKeptFilesDiffer ==
    \A f \in Path : ~SameEntry(tree[A][f], tree[B][f]) =>
        \E p \in Peer : /\ ~opt[p].deletes /\ tree[p][f] = start[p][f]
                        /\ start[Other(p)][f] = Absent /\ tree[Other(p)][f] = Absent

Convergence == <>[](Done /\ OnlyKeptFilesDiffer)
=============================================================================
