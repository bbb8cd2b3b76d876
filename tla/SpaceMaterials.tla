--------------------------- MODULE SpaceMaterials ---------------------------
(***************************************************************************)
(* What deleting from a Space promises (SpaceFeature.commands.deleteSpace, *)
(* removeReference and unlinkReference): references go in one step and in  *)
(* whole subtrees, and the program destroys a material the Space owns (a   *)
(* managed folder, a managed asset) only once nothing refers to it.        *)
(***************************************************************************)
CONSTANTS
  Items,    \* the references of the Space
  Owned,    \* those that own a material on disk or in the asset store
  Subtree   \* the references removed together with each one

VARIABLES
  refs,      \* the references the Space has
  materials  \* the owned materials the program has not destroyed

Init ==
  /\ refs = Items
  /\ materials = Owned

\* Every reference, or one with those below it, disappears at once.
Remove ==
  /\ \/ refs' = {}
     \/ \E root \in refs : refs' = refs \ Subtree[root]
  /\ UNCHANGED materials

\* Materials without a reference are destroyed, in any order, at any time.
Collect ==
  /\ \E gone \in SUBSET (materials \ refs) : materials' = materials \ gone
  /\ UNCHANGED refs

Next == Remove \/ Collect
Spec == Init /\ [][Next]_<<refs, materials>>
=============================================================================
