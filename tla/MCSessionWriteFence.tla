------------------------- MODULE MCSessionWriteFence -------------------------
(***************************************************************************)
(* Small instances of SessionWriteFence: two or three generations, a chain *)
(* of two or three waiting operations (enough for a release and a          *)
(* revocation of one generation to wait together, in either order, behind  *)
(* a write or an acquire), and three leaves.  The leaves other than the    *)
(* root are interchangeable: nothing in the fence tells them apart.        *)
(***************************************************************************)
EXTENDS SessionWriteFence, TLC

LeafSymmetry == Permutations(Leaves \ {RootLeaf})
=============================================================================
