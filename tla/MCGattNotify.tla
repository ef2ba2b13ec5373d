---------------------------- MODULE MCGattNotify ----------------------------
(* Small instances of GattNotify for TLC. *)
EXTENDS GattNotify, TLC

CONSTANTS p1, p2
=============================================================================
