-------------------------- MODULE AdvertisedFields --------------------------
(***************************************************************************)
(* What an application edits when it edits its advertisement: two lists of *)
(* fields, one that is always sent and one that is sent to those who scan  *)
(* for it, and a list of its own to replace them; none is longer than      *)
(* MaxSz bytes on the air.  Every call says what it asks for and whether   *)
(* it was done; a call that was not done changes nothing, and no call      *)
(* touches a field that it does not name.                                  *)
(* NimBLEAdvData implements this on two arrays of bytes.                   *)
(***************************************************************************)
EXTENDS Naturals, Sequences, SequencesExt

CONSTANTS MaxSz, Flags, UuidList(_)   \* type of flags; of a list of such uuids

VARIABLES adv, scan, own, scanResp, call

vars == <<adv, scan, own, scanResp, call>>

Size(s) == FoldLeft(LAMBDA n, f : n + 2 + Len(f.data), 0, s)
At(s, type) == SelectInSeq(s, LAMBDA f : f.type = type)
Has(s, type) == At(s, type) # 0
Without(s, type) == IF Has(s, type) THEN RemoveAt(s, At(s, type)) ELSE s

WithUuid(s, u) ==
  LET type == UuidList(u)
  IN IF Has(s, type) THEN [s EXCEPT ![At(s, type)].data = @ \o u]
     ELSE Append(s, [type |-> type, data |-> u])

(* The first of the uuids in the list of their size goes; an empty list goes. *)
WithoutUuid(s, u) ==
  LET i == At(s, UuidList(u))  d == s[i].data  n == Len(u)
      found == {k \in 0..(Len(d) \div n) - 1 : SubSeq(d, k * n + 1, k * n + n) = u}
      k == CHOOSE k \in found : \A j \in found : k <= j
  IN IF i = 0 \/ (i # 0 /\ found = {}) THEN s
     ELSE IF Len(d) = n THEN RemoveAt(s, i)
     ELSE [s EXCEPT ![i].data = SubSeq(d, 1, k * n) \o SubSeq(d, k * n + n + 1, Len(d))]

WithFlags(s, v) ==
  IF v = 0 THEN Without(s, Flags)
  ELSE IF Has(s, Flags) THEN [s EXCEPT ![At(s, Flags)].data = <<v>>]
  ELSE Append(s, [type |-> Flags, data |-> <<v>>])

Asked(op) == call'.op = op /\ UNCHANGED <<own, scanResp>>
Refused == ~call'.ok /\ UNCHANGED <<adv, scan>>
Fits(s) == Size(s) <= MaxSz

(* A field, or a uuid, goes to the advertisement, or else to the response. *)
To(a, s) ==
  \/ Fits(a) /\ call'.ok /\ adv' = a /\ scan' = scan
  \/ ~Fits(a) /\ Fits(s) /\ call'.ok /\ scan' = s /\ adv' = adv
  \/ ~Fits(a) /\ ~Fits(s) /\ Refused

AddField == Asked("field") /\ To(Append(adv, call'.arg), Append(scan, call'.arg))
AddUuid == Asked("addUuid") /\ To(WithUuid(adv, call'.arg), WithUuid(scan, call'.arg))

(* A name goes to the response first, if there is one. *)
SetName ==
  /\ Asked("name")
  /\ LET a == Append(adv, call'.arg)  s == Append(scan, call'.arg)
     IN \/ scanResp /\ Fits(s) /\ call'.ok /\ scan' = s /\ adv' = adv
        \/ ~(scanResp /\ Fits(s)) /\ Fits(a) /\ call'.ok /\ adv' = a /\ scan' = scan
        \/ ~(scanResp /\ Fits(s)) /\ ~Fits(a) /\ Refused

RemoveUuid ==
  /\ Asked("removeUuid") /\ call'.ok
  /\ adv' = WithoutUuid(adv, call'.arg) /\ scan' = WithoutUuid(scan, call'.arg)

(* No field of these types is advertised any more. *)
RemoveTypes ==
  /\ Asked("remove")
  /\ call'.ok = TRUE \/ (~call'.ok /\ \A f \in ToSet(adv \o scan) : f.type \notin call'.arg)
  /\ adv' = SelectSeq(adv, LAMBDA f : f.type \notin call'.arg)
  /\ scan' = SelectSeq(scan, LAMBDA f : f.type \notin call'.arg)

(* Flags are one field, in the advertisement only. *)
SetFlags ==
  /\ Asked("flags") /\ scan' = scan
  /\ adv' = IF Fits(WithFlags(adv, call'.arg)) THEN WithFlags(adv, call'.arg) ELSE adv

(* Anew: the default flags alone, or what the application has put together *)
Clear ==
  /\ call'.op = "clear" /\ adv' = <<[type |-> Flags, data |-> <<6>>]>> /\ scan' = <<>>
  /\ own' = own /\ scanResp' \in {scanResp, FALSE}
ReplaceAdv == Asked("setAdv") /\ (Refused \/ (call'.ok /\ adv' = own /\ scan' = scan))
ReplaceScan == Asked("setScan") /\ (Refused \/ (call'.ok /\ scan' = own /\ adv' = adv))

EditOwn ==
  /\ call'.op = "own" /\ UNCHANGED <<adv, scan, scanResp>>
  /\ call'.ok = Fits(Append(own, call'.arg))
  /\ own' = IF call'.ok THEN Append(own, call'.arg) ELSE own

Respond == call'.op = "respond" /\ scanResp' = call'.arg /\ UNCHANGED <<adv, scan, own>>

(* Sending the lists to the controller, or losing them there *)
Send == call'.op = "send" /\ UNCHANGED <<adv, scan, own, scanResp>>

Next ==
  \/ AddField \/ AddUuid \/ SetName \/ RemoveUuid \/ RemoveTypes \/ SetFlags
  \/ Clear \/ ReplaceAdv \/ ReplaceScan \/ EditOwn \/ Respond \/ Send

Init ==
  /\ adv = <<[type |-> Flags, data |-> <<6>>]>> /\ scan = <<>> /\ own = <<>>
  /\ scanResp = FALSE /\ call.op = "none"

Spec == Init /\ [][Next]_vars
=============================================================================
