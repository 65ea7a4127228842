----------------------------- MODULE MCSyncRound -----------------------------
(* A small instance: one path, three contents of two sizes, two mtimes; any *)
(* baseline and any pair of starting trees.                                *)
EXTENDS SyncRound, TLC

MCSizeOf == (1 :> 1) @@ (2 :> 2) @@ (3 :> 1)

Opt(mode, conflict, source, deletes) ==
    [mode |-> mode, conflict |-> conflict, source |-> source, deletes |-> deletes]

\* Each side follows deletions or does not.
TwoWayPairs ==
    {(A :> Opt("TwoWay", c, FALSE, d)) @@ (B :> Opt("TwoWay", Complement(c), FALSE, e)) :
        c \in ConflictPolicy, d \in BOOLEAN, e \in BOOLEAN}
MirrorPairs ==
    {(A :> Opt("Mirror", "newer", TRUE, TRUE)) @@ (B :> Opt("Mirror", "newer", FALSE, d)) :
        d \in BOOLEAN}

SomeOptions == TwoWayPairs \union MirrorPairs
=============================================================================
