------------------------- MODULE MCMemoryMaintenance -------------------------
(* Two conversations of one Space: one of two turns, one of a single turn. *)
EXTENDS MemoryMaintenance
CONSTANTS long, short
TwoAndOne == [c \in Conversations |-> IF c = long THEN 2 ELSE 1]
=============================================================================
