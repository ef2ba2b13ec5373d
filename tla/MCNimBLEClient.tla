--------------------------- MODULE MCNimBLEClient ---------------------------
(* Small instances of NimBLEClient for TLC. *)
EXTENDS NimBLEClient, TLC
CONSTANTS c1, t1, h1
MCSingle == (c1 :> t1)
AllModes == [async : BOOLEAN, mtu : BOOLEAN]
AllOrNothing == {[disc |-> b, fail |-> b] : b \in BOOLEAN}
=============================================================================
