-------------------------- MODULE MCNimBLEAdvData --------------------------
(* Small instances of NimBLEAdvData for TLC. *)
EXTENDS NimBLEAdvData

Bytes(n, b) == [i \in 1..n |-> b]
U1 == <<201, 202>>
U2 == <<203, 204>>
Long == Bytes(16, 205)

(* Two short uuids and one of which no two fit in a payload *)
ThreeUuids == {U1, U2, Long}

(* More than fit, of both sizes *)
ManyUuids == {<<U1, Long, U2, Long>>, [i \in 1..15 |-> U1]}

(* A name that fits, and one that is cut *)
TwoNames == {Bytes(5, 210), Bytes(30, 211)}

(* An appearance; manufacturer data that fills the advertisement behind the  *)
(* flags, and an URI that is too long for any                                *)
ThreeFields == {[type |-> AppearanceType, data |-> <<212, 213>>],
                [type |-> MfgType, data |-> Bytes(26, 214)],
                [type |-> 36, data |-> Bytes(30, 215)]}

SomeOrNone == {Bytes(3, 216), <<>>}

(* What breaks: data that looks like a uuid, a name and service data whose   *)
(* lengths do not fit a byte                                                 *)
NameLikeUuid == {U1 \o <<210>>}
HugeName == {Bytes(258, 210)}
HugeData == {Bytes(254, 216)}
=============================================================================
