----------------------------- MODULE MCPicture -----------------------------
(* Picture for TLC: one input and one area.                                  *)
EXTENDS Picture, TLC

CONSTANTS door, house, D, T

=============================================================================
