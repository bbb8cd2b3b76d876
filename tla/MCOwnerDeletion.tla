--------------------------- MODULE MCOwnerDeletion ---------------------------
(* Small instances of OwnerDeletion. *)
EXTENDS OwnerDeletion

CONSTANTS c1, c2
=============================================================================
