---------------------- MODULE MCSpaceReferenceDeletion ----------------------
(* Two folders, one of them on a shelf with an asset, and a web page. *)
EXTENDS SpaceReferenceDeletion

CONSTANTS inner, outer, asset, shelf, page, d1, d2

Everything == {inner, outer, asset, shelf, page}
OneShelf == [i \in Items |-> IF i = shelf THEN {shelf, inner, asset} ELSE {i}]
OnlyOuter == {outer}
Folders2 == {inner, outer}
Assets1 == {asset}
Shelves1 == {shelf}
Pages1 == {page}
Ids2 == {d1, d2}
Ids1 == {d1}
=============================================================================
