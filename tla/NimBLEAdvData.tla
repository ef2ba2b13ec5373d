---------------------------- MODULE NimBLEAdvData ----------------------------
(***************************************************************************)
(* The payloads of legacy advertising: the bytes that                      *)
(* NimBLEAdvertisementData edits, the two payloads of NimBLEAdvertising    *)
(* (advertisement and scan response) and the flag m_advDataSet, by which   *)
(* start() decides whether the controller must be given them again.        *)
(*                                                                         *)
(* A payload is its bytes: fields of a length byte, a type byte and data.  *)
(* Lengths, types and limits are the real ones; of the data, only what     *)
(* tells values apart is kept.  Calls do not overlap, as the class         *)
(* demands: it has no lock.                                                *)
(***************************************************************************)
EXTENDS Naturals, Sequences, FiniteSets, SequencesExt

CONSTANTS
  Uuids,         \* sequences of 2, 4 or 16 bytes
  UuidLists,     \* what setServices() is called with: sequences of uuids
  Names, FieldData, SvcData,
  Careless,      \* what the application is careless of, see Careful
  HciFails,      \* TRUE: the controller may refuse data
  MaxCalls       \* bound: calls of the application

VARIABLES
  adv, scan,     \* m_advData and m_scanData: m_payload
  own,           \* a NimBLEAdvertisementData of the application
  scanResp,      \* m_scanResp
  advDataSet,    \* m_advDataSet
  ctrl,          \* what the controller has: [adv, scan]
  call,          \* history: the last call, what it asks for, what it returned
  fault,         \* a write beyond a buffer
  calls

vars == <<adv, scan, own, scanResp, advDataSet, ctrl, call, fault, calls>>

MaxSz == 31
MaxFieldSz == MaxSz - 2
FlagsType == 1  AppearanceType == 25  MfgType == 255
Unsup == 4

(* Types of lists of uuids, and of service data, by the size of the uuid *)
Complete(n) == CASE n = 2 -> 3 [] n = 4 -> 5 [] n = 16 -> 7
Incomplete(n) == Complete(n) - 1
SvcType(n) == CASE n = 2 -> 22 [] n = 4 -> 32 [] n = 16 -> 33
Byte(n) == n % 256

ASSUME UuidAssumption == \A u \in Uuids : Len(u) \in {2, 4, 16}
ASSUME CarelessAssumption == Careless \subseteq {"modes", "flags", "custom", "again", "services", "empty", "unlisted"}

TypeOK ==
  /\ {Len(adv), Len(scan), Len(own)} \subseteq 0..MaxSz
  /\ ToSet(adv \o scan \o own) \subseteq 0..255
  /\ {scanResp, advDataSet, fault, call.ok} \subseteq BOOLEAN

-----------------------------------------------------------------------------
(* NimBLEAdvertisementData: what a method leaves of payload p, and returns *)

Done(p) == [p |-> p, ok |-> TRUE]
Refuse(p) == [p |-> p, ok |-> FALSE]
Field(type, d) == <<Byte(Len(d) + 1), type>> \o d

addData(p, d) == IF Len(p) + Len(d) > MaxSz THEN Refuse(p) ELSE Done(p \o d)

(* The position of the length byte of the first field of a type, or 0 *)
getDataLocation(p, type) ==
  LET from[i \in Nat] ==
        IF i >= Len(p) THEN 0 ELSE IF p[i + 1] = type THEN i ELSE from[i + p[i] + 1]
  IN from[1]

removeData(p, type) ==
  LET i == getDataLocation(p, type)
  IN IF i = 0 THEN Refuse(p)
     ELSE Done(SubSeq(p, 1, i - 1) \o SubSeq(p, i + p[i] + 1, Len(p)))

(* A flag value of 0 removes the flags, if there are any, and else adds them. *)
setFlags(p, v) ==
  LET i == getDataLocation(p, FlagsType)
      with == IF v % 8 >= Unsup THEN v ELSE v + Unsup
  IN IF i = 0 THEN addData(p, Field(FlagsType, <<with>>))
     ELSE IF v = 0 THEN removeData(p, FlagsType)
     ELSE Done([p EXCEPT ![i + 2] = with])

(* Mutant: the bytes of the list are not counted into its length. *)
addServiceUUIDUncounted(p, u) ==
  LET type == Complete(Len(u))  i == getDataLocation(p, type)  end == i + p[i]
  IN IF Len(u) + (IF i = 0 THEN 2 ELSE 0) + Len(p) > MaxSz THEN Refuse(p)
     ELSE IF i = 0 THEN addData(p, Field(type, u))
     ELSE Done(SubSeq(p, 1, end) \o u \o SubSeq(p, end + 1, Len(p)))

(* The uuid is added to the list of its size, which is made if need be. *)
addServiceUUID(p, u) ==
  LET type == Complete(Len(u))  i == getDataLocation(p, type)  end == i + p[i]
  IN IF Len(u) + (IF i = 0 THEN 2 ELSE 0) + Len(p) > MaxSz THEN Refuse(p)
     ELSE IF i = 0 THEN addData(p, Field(type, u))
     ELSE Done([SubSeq(p, 1, end) EXCEPT ![i] = @ + Len(u)] \o u \o SubSeq(p, end + 1, Len(p)))

(* Mutant: the list stays when its last uuid goes. *)
removeServiceUUIDEmpty(p, u) ==
  LET type == Complete(Len(u))  n == Len(u)  i == getDataLocation(p, type)
      found == {k \in i + 2 .. Len(p) - n + 1 : (k - i - 2) % n = 0 /\ SubSeq(p, k, k + n - 1) = u}
      k == CHOOSE k \in found : \A j \in found : k <= j
  IN IF i = 0 \/ found = {} THEN Done(p)
     ELSE Done([SubSeq(p, 1, k - 1) \o SubSeq(p, k + n, Len(p)) EXCEPT ![i] = @ - n])

(* The uuid is looked for from the first of its list to the end of the       *)
(* payload; a comparison that reaches past the end finds something else.     *)
removeServiceUUID(p, u) ==
  LET type == Complete(Len(u))  n == Len(u)  i == getDataLocation(p, type)
      found == {k \in i + 2 .. Len(p) - n + 1 : (k - i - 2) % n = 0 /\ SubSeq(p, k, k + n - 1) = u}
      k == CHOOSE k \in found : \A j \in found : k <= j
  IN IF i = 0 \/ found = {} THEN Done(p)
     ELSE IF p[i] - n = 1 THEN removeData(p, type)
     ELSE Done([SubSeq(p, 1, k - 1) \o SubSeq(p, k + n, Len(p)) EXCEPT ![i] = @ - n])

removeServices(p) == Done(p)

(* setManufacturerData(), setURI(), setAppearance(), addTxPower(),           *)
(* setPreferredParams(): one field, whose data may be too long               *)
setField(p, type, d) == IF Len(d) > MaxFieldSz THEN Refuse(p) ELSE addData(p, Field(type, d))

setName(p, name, isComplete) ==
  LET n == IF Byte(Len(name)) < MaxFieldSz THEN Byte(Len(name)) ELSE MaxFieldSz
  IN addData(p, Field(IF isComplete /\ Len(name) <= MaxFieldSz THEN 9 ELSE 8, SubSeq(name, 1, n)))

(* setServices(): uuids of other sizes are skipped, and the list is cut off   *)
(* before it is too long.                                                    *)
setServices(p, complete, n, uuids) ==
  LET put(d, u) == IF Len(u) # n \/ d.cut THEN d
                   ELSE IF 2 + Len(d.list) + n >= MaxSz THEN [d EXCEPT !.cut = TRUE]
                   ELSE [d EXCEPT !.list = @ \o u]
      all == FoldLeft(put, [list |-> <<>>, cut |-> FALSE], uuids)
  IN addData(p, Field(IF complete /\ ~all.cut THEN Complete(n) ELSE Incomplete(n), all.list))

(* setServiceData(): the length is a byte, and so is what is compared. *)
SvcLen(u, d) == Byte(2 + Len(u) + Len(d))
setServiceData(p, u, d) ==
  IF SvcLen(u, d) > MaxSz THEN Refuse(p)
  ELSE IF d = <<>> THEN Done(removeData(p, SvcType(Len(u))).p)
  ELSE addData(p, SubSeq(Field(SvcType(Len(u)), u \o d), 1, SvcLen(u, d)))

-----------------------------------------------------------------------------
(* NimBLEAdvertising *)

Careful(habit, ok) == habit \in Careless \/ ok
Called(op, arg, ok) ==
  /\ calls < MaxCalls /\ calls' = calls + 1 /\ ~fault
  /\ call' = [op |-> op, arg |-> arg, ok |-> ok]

(* Most edits: the advertisement, and if it cannot take it the scan response; *)
(* a and s are what becomes of them.  What is done must be loaded again.      *)
AdvElseScan(op, arg, a, s) ==
  /\ Called(op, arg, a.ok \/ s.ok)
  /\ adv' = a.p /\ scan' = IF a.ok THEN scan ELSE s.p
  /\ advDataSet' = (advDataSet /\ ~a.ok /\ ~s.ok)
  /\ UNCHANGED <<own, scanResp, ctrl>>

(* Mutant: the scan response is taken for what it was. *)
EditKeepsFlag(a, s) ==
  /\ adv' = a /\ scan' = s /\ advDataSet' = (advDataSet /\ a = adv)
  /\ UNCHANGED <<own, scanResp, ctrl>>

Edit(a, s) == adv' = a /\ scan' = s /\ advDataSet' = FALSE /\ UNCHANGED <<own, scanResp, ctrl>>

AddField ==
  \E f \in FieldData :
    /\ AdvElseScan("field", f, setField(adv, f.type, f.data), setField(scan, f.type, f.data))
    /\ Careful("again", f.type = AppearanceType => \A p \in {adv, scan} : getDataLocation(p, f.type) = 0)
    /\ UNCHANGED fault

AddServiceUUID ==
  \E u \in Uuids :
    AdvElseScan("addUuid", u, addServiceUUID(adv, u), addServiceUUID(scan, u)) /\ UNCHANGED fault

(* setAppearance(0) *)
RemoveAppearance ==
  /\ AdvElseScan("remove", {AppearanceType}, removeData(adv, AppearanceType),
                 removeData(scan, AppearanceType))
  /\ UNCHANGED fault

(* setServiceData(): without data the service data is removed, if it is in    *)
(* the advertisement; data that the buffer cannot hold is written behind it.  *)
SetServiceData ==
  \E u \in Uuids, d \in SvcData :
    LET type == SvcType(Len(u))
        asked == IF d = <<>> THEN {type} ELSE [type |-> type, data |-> u \o d]
    IN /\ AdvElseScan(IF d = <<>> THEN "remove" ELSE "field", asked,
                      setServiceData(adv, u, d), setServiceData(scan, u, d))
       /\ Careful("again", getDataLocation(scan, type) = 0
                           /\ (d = <<>> \/ getDataLocation(adv, type) = 0))
       /\ fault' = (SvcLen(u, d) <= MaxSz /\ 2 + Len(u) + Len(d) > MaxSz)

RemoveServiceUUID ==
  \E u \in Uuids :
    /\ Called("removeUuid", u, removeServiceUUID(scan, u).ok)
    /\ Careful("unlisted", \A p \in {adv, scan} : getDataLocation(p, SvcType(Len(u))) = 0)
    /\ Edit(removeServiceUUID(adv, u).p, removeServiceUUID(scan, u).p)
    /\ UNCHANGED fault

UuidTypes == {Complete(n) : n \in {2, 4, 16}} \cup {Incomplete(n) : n \in {2, 4, 16}}
RemoveServices ==
  /\ Called("remove", UuidTypes, removeServices(scan).ok)
  /\ Careful("services", \A p \in {adv, scan}, type \in UuidTypes : getDataLocation(p, type) = 0)
  /\ Edit(removeServices(adv).p, removeServices(scan).p)
  /\ UNCHANGED fault

(* The name goes to the scan response first, if there is one. *)
SetName ==
  \E name \in Names :
    LET cut == IF Len(name) > MaxFieldSz THEN MaxFieldSz ELSE Len(name)
        asked == [type |-> IF cut < Len(name) THEN 8 ELSE 9, data |-> SubSeq(name, 1, cut)]
        a == setName(adv, name, TRUE)  s == setName(scan, name, TRUE)
    IN /\ \/ /\ scanResp /\ s.ok
             /\ Called("name", asked, TRUE) /\ Edit(adv, s.p)
          \/ /\ ~(scanResp /\ s.ok) /\ a.ok
             /\ Called("name", asked, TRUE) /\ Edit(a.p, scan)
          \/ /\ ~(scanResp /\ s.ok) /\ ~a.ok
             /\ Called("name", asked, FALSE)
             /\ UNCHANGED <<adv, scan, own, scanResp, advDataSet, ctrl>>
       /\ UNCHANGED fault

(* setConnectableMode() clears the flags of what cannot be connected to, and *)
(* setDiscoverableMode() sets them.  Neither says that they must be loaded.  *)
SetMode ==
  \E v \in {0, 1, 2, Unsup} :
    /\ Called("flags", IF v % 8 >= Unsup \/ v = 0 THEN v ELSE v + Unsup, TRUE)
    /\ Careful("modes", ~advDataSet)
    /\ Careful("flags", v = 0 => getDataLocation(adv, FlagsType) # 0)
    /\ adv' = setFlags(adv, v).p
    /\ UNCHANGED <<scan, own, scanResp, advDataSet, ctrl, fault>>

EnableScanResponse ==
  \E enable \in BOOLEAN :
    /\ Called("respond", enable, TRUE)
    /\ scanResp' = enable /\ advDataSet' = FALSE
    /\ UNCHANGED <<adv, scan, own, ctrl, fault>>

(* clearData(), or reset() *)
ClearData ==
  \E reset \in BOOLEAN :
    /\ Called("clear", 6, TRUE)
    /\ adv' = setFlags(<<>>, 2).p /\ scan' = <<>> /\ advDataSet' = FALSE
    /\ scanResp' = (scanResp /\ ~reset)
    /\ UNCHANGED <<own, ctrl, fault>>

-----------------------------------------------------------------------------
(* The application's own payloads, and the controller *)

EditOwn(asked, r) ==
  /\ Called("own", asked, r.ok) /\ own' = r.p
  /\ UNCHANGED <<adv, scan, scanResp, advDataSet, ctrl, fault>>

SetServices ==
  \E uuids \in UuidLists, n \in {2, 16}, complete \in BOOLEAN :
    LET those == SelectSeq(uuids, LAMBDA u : Len(u) = n)  most == MaxFieldSz \div n
        listed == IF Len(those) > most THEN SubSeq(those, 1, most) ELSE those
    IN EditOwn([type |-> IF complete /\ listed = those THEN Complete(n) ELSE Incomplete(n),
                data |-> FlattenSeq(listed)], setServices(own, complete, n, uuids))

SetShortName ==
  \E name \in Names :
    LET cut == IF Len(name) > MaxFieldSz THEN MaxFieldSz ELSE Len(name)
    IN EditOwn([type |-> 8, data |-> SubSeq(name, 1, cut)], setName(own, name, FALSE))

(* setAdvertisementData(): the controller is given it first. *)
SetAdvertisementData ==
  \E ok \in {TRUE} \cup {~HciFails} :
    /\ Called("setAdv", own, ok)
    /\ Careful("custom", scanResp => ctrl.scan = scan)
    /\ adv' = IF ok THEN own ELSE adv
    /\ ctrl' = IF ok THEN [ctrl EXCEPT !.adv = own] ELSE ctrl
    /\ advDataSet' = (advDataSet \/ ok)
    /\ UNCHANGED <<scan, own, scanResp, fault>>

SetScanResponseData ==
  \E ok \in {TRUE} \cup {~HciFails} :
    /\ Called("setScan", own, ok)
    /\ scan' = IF ok THEN own ELSE scan
    /\ ctrl' = IF ok THEN [ctrl EXCEPT !.scan = own] ELSE ctrl
    /\ UNCHANGED <<adv, own, scanResp, advDataSet, fault>>

(* Mutant: the scan response is not loaded with the advertisement. *)
LoadAdvOnly(withScan, regardless) ==
  \E advOk \in {TRUE, ~HciFails} :
    /\ ctrl' = IF advOk THEN [ctrl EXCEPT !.adv = adv] ELSE ctrl
    /\ advDataSet' = (advDataSet \/ advOk)

(* The advertisement, then the scan response; either may be refused.  The flag *)
(* says that the advertisement was not.                                       *)
Load(withScan, regardless) ==
  \E advOk, scanOk \in {TRUE, ~HciFails} :
    LET scanSet == withScan /\ scanOk /\ (advOk \/ regardless)
    IN /\ ctrl' = [adv |-> IF advOk THEN adv ELSE ctrl.adv,
                   scan |-> IF scanSet THEN scan ELSE ctrl.scan]
       /\ advDataSet' = (advDataSet \/ advOk)

(* start(): what has been loaded is not loaded again. *)
Start ==
  /\ Called("send", <<>>, TRUE)
  /\ Careful("empty", scanResp /\ scan = <<>> => ctrl.scan = <<>>)
  /\ IF advDataSet THEN UNCHANGED <<ctrl, advDataSet>> ELSE Load(scanResp /\ scan # <<>>, FALSE)
  /\ UNCHANGED <<adv, scan, own, scanResp, fault>>

RefreshAdvertisingData ==
  /\ Called("send", "refresh", TRUE)
  /\ Load(scanResp, TRUE)
  /\ UNCHANGED <<adv, scan, own, scanResp, fault>>

(* A host reset: the controller forgets both, onHostSync() the flag. *)
OnHostSync ==
  /\ Called("send", <<>>, TRUE)
  /\ ctrl' = [adv |-> <<>>, scan |-> <<>>] /\ advDataSet' = FALSE
  /\ UNCHANGED <<adv, scan, own, scanResp, fault>>

Init ==
  /\ adv = setFlags(<<>>, 2).p /\ scan = <<>> /\ own = <<>>
  /\ scanResp = FALSE /\ advDataSet = FALSE /\ ctrl = [adv |-> <<>>, scan |-> <<>>]
  /\ call = [op |-> "none", arg |-> <<>>, ok |-> TRUE] /\ fault = FALSE /\ calls = 0

Next ==
  \/ AddField \/ AddServiceUUID \/ RemoveAppearance \/ SetServiceData \/ RemoveServiceUUID
  \/ RemoveServices \/ SetName \/ SetMode \/ EnableScanResponse \/ ClearData
  \/ SetServices \/ SetShortName \/ SetAdvertisementData \/ SetScanResponseData
  \/ Start \/ RefreshAdvertisingData \/ OnHostSync

Spec == Init /\ [][Next]_vars

-----------------------------------------------------------------------------
(* Properties *)

Broken == [type |-> 256, data |-> <<>>]

(* The fields of a payload, as who receives it takes it apart *)
Fields(p) ==
  LET from[i \in Nat] ==
        IF i > Len(p) THEN <<>>
        ELSE IF i + 1 > Len(p) \/ p[i] = 0 \/ i + p[i] > Len(p) THEN <<Broken>>
        ELSE <<[type |-> p[i + 1], data |-> SubSeq(p, i + 2, i + p[i])]>> \o from[i + p[i] + 1]
  IN from[1]

(* Every call does to the fields what its documentation says, and returns    *)
(* whether it did: what is added fits and is whole, lists grow and shrink at *)
(* the right place, other fields stay as they are, nothing is torn.          *)
Edited == INSTANCE AdvertisedFields WITH
  Flags <- FlagsType, UuidList <- LAMBDA u : Complete(Len(u)),
  adv <- Fields(adv), scan <- Fields(scan), own <- Fields(own)

ImplementsFields == Edited!Spec

(* "the flag that indicates the data was set already so we don't set it      *)
(* again": while it is set, the controller has the payloads as they are now, *)
(* whatever was edited, replaced, enabled or forgotten since.                *)
LoadedIsCurrent ==
  advDataSet => ctrl.adv = adv /\ (scanResp => ctrl.scan = scan)

(* setServiceData() never writes behind its buffer. *)
NoOverrun == ~fault
=============================================================================
