----------------------------- MODULE MCL2capCoc -----------------------------
(* Small instances of L2capCoc for TLC. *)
EXTENDS L2capCoc, TLC
=============================================================================
