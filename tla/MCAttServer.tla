---------------------------- MODULE MCAttServer ----------------------------
(* Small instances of AttServer for TLC. *)
EXTENDS AttServer

CONSTANTS a, b

(* One attribute with a small limit, one that must grow for its longest      *)
(* value, and one that only the application sets.                            *)
Limits == <<2, 3, 3>>

Part(h, o, d) == [handle |-> h, offset |-> o, data |-> d]

(* Of the first: what fits together, what is too long for its attribute      *)
(* (1..3 of 2) and for any (2..4 of 3); of the second: a start, and an end   *)
(* that would complete a value of the first.                                 *)
TwoPeers == a :> {Part(1, 0, <<"a1">>), Part(1, 1, <<"a2">>), Part(1, 1, <<"a2", "a3">>),
                  Part(2, 0, <<"a1", "a2">>), Part(2, 2, <<"a3">>), Part(2, 2, <<"a3", "a4">>)}
         @@ b :> {Part(1, 0, <<"b1">>), Part(2, 2, <<"b3">>)}
PlainWrites == a :> {} @@ b :> {<<"b5", "b6", "b7">>}
OneLong == {<<"s1", "s2", "s3">>}

(* One byte more than the attributes take, and than a first block holds. *)
TooLong == {<<"s1", "s2", "s3", "s4">>}
=============================================================================
