--------------------------- MODULE MCNimBLEServer ---------------------------
(* Small instances of NimBLEServer for TLC. *)
EXTENDS NimBLEServer, TLC

CONSTANTS s1, s2, k1, k2

=============================================================================
