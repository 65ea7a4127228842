----------------------------- MODULE MCDeltaScan -----------------------------
(* Every old copy and every file of a few bytes. *)
EXTENDS DeltaScan, SequencesExt

CONSTANTS MaxBase, MaxTarget

SomeBases   == BoundedSeq(Byte, MaxBase)
SomeTargets == BoundedSeq(Byte, MaxTarget)
=============================================================================
