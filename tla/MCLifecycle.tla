----------------------------- MODULE MCLifecycle -----------------------------
(* Two nodes that fit, and every way of not fitting. *)
EXTENDS Lifecycle, TLC

Plain == [version |-> 1, folder |-> "docs", mode |-> "TwoWay", conflict |-> "newer",
          allows |-> TRUE]

Pair(c, d) == (A :> c) @@ (B :> d)
With(f, v) == [Plain EXCEPT ![f] = v]

SomeAgreements ==
    {Pair(Plain, Plain),
     Pair(With("conflict", "local"), With("conflict", "remote")),
     Pair(With("conflict", "local"), With("conflict", "local")),
     Pair(With("version", 2), Plain),
     Pair(Plain, With("folder", "pics")),
     Pair(With("mode", "Mirror"), With("conflict", "local")),
     Pair(With("allows", FALSE), Plain),
     Pair(Plain, With("allows", FALSE))}
=============================================================================
