--------------------------- MODULE AdvertisedTree ---------------------------
(***************************************************************************)
(* What describing a tree incrementally promises (net/protocol.h): the     *)
(* listener's view of the teller's tree is always a tree the teller has    *)
(* really had, whole, and never goes back to an older one.                 *)
(***************************************************************************)
EXTENDS Naturals, Sequences

CONSTANTS Tree, Unknown

VARIABLES past,   \* the trees the teller has had, the present one last
          view,   \* the listener's view, or Unknown
          floor   \* the position in past of the latest view

vars == <<past, view, floor>>

Init == /\ \E t \in Tree : past = <<t>>
        /\ view = Unknown
        /\ floor = 1

Change == /\ \E t \in Tree : past' = Append(past, t)
          /\ UNCHANGED <<view, floor>>

Learn == /\ floor' \in floor..Len(past)
         /\ view' = past[floor']
         /\ UNCHANGED past

\* The connection is lost, and the view with it.
Forget == /\ view' = Unknown
          /\ UNCHANGED <<past, floor>>

Next == Change \/ Learn \/ Forget

Spec == Init /\ [][Next]_vars
=============================================================================
