---------------------------- MODULE MCGattClient ----------------------------
(* Small instances of GattClient for TLC. *)
EXTENDS GattClient, TLC

CONSTANTS t1, t2, k1, k2

OneLink == t1 :> k1 @@ t2 :> k1
TwoLinks == t1 :> k1 @@ t2 :> k2
TwoChunks == [t \in Tasks |-> 2]
ThreeChunks == [t \in Tasks |-> 3]

NoErrors == {}
(* The peer may refuse any request but the later ones of a long write, and   *)
(* call the attribute not long when it is written.                           *)
Refusals == {<<"read", "auth">>, <<"blob", "refused">>, <<"write", "auth">>,
             <<"prepFirst", "notLong">>, <<"prepFirst", "auth">>, <<"exec", "refused">>}
=============================================================================
