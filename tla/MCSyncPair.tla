------------------------------ MODULE MCSyncPair ------------------------------
(* Small instances of SyncPair. *)
EXTENDS SyncPair, TLC

TwoWay(policy) == [mode |-> "TwoWay", conflict |-> policy, source |-> FALSE, deletes |-> TRUE]

NewerOpt  == [p \in {A, B} |-> TwoWay("newer")]

\* The clocks of the two users agree, and every edit has its own second.
SteadyClock == (1 :> 1) @@ (2 :> 2) @@ (3 :> 3)
SomeSizes   == (1 :> 2) @@ (2 :> 1) @@ (3 :> 2)

\* A clock set back after the first edit, and coarse.
LateClock   == (1 :> 2) @@ (2 :> 1) @@ (3 :> 1)

\* Two-way peers with the same options may trade places.
Swap == Permutations({A, B})
=============================================================================
