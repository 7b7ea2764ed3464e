----------------------------- MODULE MCSessions -----------------------------
(* Sessions for TLC.                                                         *)
EXTENDS Sessions

=============================================================================
