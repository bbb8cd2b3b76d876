--------------------------- MODULE MCToolApprovals ---------------------------
(* Two or three calls of one round: gated before they start, gated by what a *)
(* read-only start discovers, or not gated.                                  *)
EXTENDS ToolApprovals
CONSTANTS c1, c2, c3
=============================================================================
