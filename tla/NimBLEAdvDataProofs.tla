------------------------ MODULE NimBLEAdvDataProofs ------------------------
(***************************************************************************)
(* Theorems about NimBLEAdvData, for any uuids, names, fields and service  *)
(* data, and any number of calls.                                          *)
(*                                                                         *)
(* LoadedIsCurrent is inductive by itself.  The work is that an edit which *)
(* does not reset m_advDataSet, because both payloads refused it, has not  *)
(* touched them: one lemma per method of NimBLEAdvertisementData.          *)
(***************************************************************************)
EXTENDS NimBLEAdvData, TLAPS

(* What LoadedIsCurrent needs of the application and of the controller: the  *)
(* flags are changed only while nothing is loaded; setAdvertisementData() is *)
(* given data only when the scan response is loaded; a scan response is not  *)
(* advertised when it is empty and the controller has another; nothing is    *)
(* refused by the controller.                                              *)
CarefulAdvertiser ==
  /\ {"modes", "custom", "empty"} \cap Careless = {}
  /\ HciFails = FALSE

-----------------------------------------------------------------------------
(* The methods: what is refused leaves the payload as it was *)

(* addData() *)
LEMMA AddDataRefuses ==
  ASSUME NEW p, NEW d, ~addData(p, d).ok
  PROVE  addData(p, d).p = p
BY DEF addData, Done, Refuse

(* setManufacturerData() and the others of one field *)
LEMMA SetFieldRefuses ==
  ASSUME NEW p, NEW type, NEW d, ~setField(p, type, d).ok
  PROVE  setField(p, type, d).p = p
BY AddDataRefuses DEF setField, Refuse

(* removeData() *)
LEMMA RemoveDataRefuses ==
  ASSUME NEW p, NEW type, ~removeData(p, type).ok
  PROVE  removeData(p, type).p = p
BY DEF removeData, Done, Refuse

(* addServiceUUID() *)
LEMMA AddServiceUUIDRefuses ==
  ASSUME NEW p, NEW u, ~addServiceUUID(p, u).ok
  PROVE  addServiceUUID(p, u).p = p
BY AddDataRefuses DEF addServiceUUID, Done, Refuse

(* setServiceData(), which never refuses to remove *)
LEMMA SetServiceDataRefuses ==
  ASSUME NEW p, NEW u, NEW d, ~setServiceData(p, u, d).ok
  PROVE  setServiceData(p, u, d).p = p
BY AddDataRefuses DEF setServiceData, Done, Refuse

(* An edit of one payload or the other either has the data loaded again or   *)
(* has changed nothing.                                                    *)
LEMMA AdvElseScanKeeps ==
  ASSUME NEW op, NEW arg, NEW a, NEW s,
         AdvElseScan(op, arg, a, s),
         ~a.ok => a.p = adv,
         ~s.ok => s.p = scan,
         LoadedIsCurrent
  PROVE  LoadedIsCurrent'
BY DEF AdvElseScan, LoadedIsCurrent

-----------------------------------------------------------------------------
(* m_advDataSet *)

(* An edit of the payloads of NimBLEAdvertising *)
LEMMA EditsKeepLoadedIsCurrent ==
  ASSUME LoadedIsCurrent, CarefulAdvertiser,
         \/ AddField \/ AddServiceUUID \/ RemoveAppearance \/ SetServiceData
         \/ RemoveServiceUUID \/ RemoveServices \/ SetName \/ SetMode
         \/ EnableScanResponse \/ ClearData
  PROVE  LoadedIsCurrent'
<1>1. CASE AddField
  <2>1. PICK f \in FieldData :
          AdvElseScan("field", f, setField(adv, f.type, f.data), setField(scan, f.type, f.data))
    BY <1>1 DEF AddField
  <2> QED
    BY <2>1, SetFieldRefuses, AdvElseScanKeeps
<1>2. CASE AddServiceUUID
  BY <1>2, AddServiceUUIDRefuses, AdvElseScanKeeps DEF AddServiceUUID
<1>3. CASE RemoveAppearance
  BY <1>3, RemoveDataRefuses, AdvElseScanKeeps DEF RemoveAppearance
<1>4. CASE SetServiceData
  <2>1. PICK u \in Uuids, d \in SvcData :
          \E op, arg :
            AdvElseScan(op, arg, setServiceData(adv, u, d), setServiceData(scan, u, d))
    BY <1>4 DEF SetServiceData
  <2> QED
    BY <2>1, SetServiceDataRefuses, AdvElseScanKeeps
<1>5. CASE RemoveServiceUUID \/ RemoveServices
  BY <1>5 DEF RemoveServiceUUID, RemoveServices, Edit, LoadedIsCurrent
<1>6. CASE SetName
  BY <1>6 DEF SetName, Edit, LoadedIsCurrent
<1>7. CASE SetMode
  <2>1. ~advDataSet /\ advDataSet' = advDataSet
    BY <1>7 DEF SetMode, Careful, CarefulAdvertiser
  <2> QED
    BY <2>1 DEF LoadedIsCurrent
<1>8. CASE EnableScanResponse \/ ClearData
  BY <1>8 DEF EnableScanResponse, ClearData, LoadedIsCurrent
<1> QED
  BY <1>1, <1>2, <1>3, <1>4, <1>5, <1>6, <1>7, <1>8

(* A step that gives the controller data, or the application data of its own *)
LEMMA LoadsKeepLoadedIsCurrent ==
  ASSUME LoadedIsCurrent, CarefulAdvertiser,
         \/ SetServices \/ SetShortName \/ SetAdvertisementData \/ SetScanResponseData
         \/ Start \/ RefreshAdvertisingData \/ OnHostSync
  PROVE  LoadedIsCurrent'
<1>1. CASE SetServices \/ SetShortName
  BY <1>1 DEF SetServices, SetShortName, EditOwn, LoadedIsCurrent
<1>2. CASE SetAdvertisementData
  <2>1. scanResp => ctrl.scan = scan
    BY <1>2 DEF SetAdvertisementData, Careful, CarefulAdvertiser
  <2>2. /\ adv' = own /\ ctrl' = [ctrl EXCEPT !.adv = own]
        /\ scan' = scan /\ scanResp' = scanResp
    BY <1>2 DEF SetAdvertisementData, CarefulAdvertiser
  <2> QED
    BY <2>1, <2>2 DEF LoadedIsCurrent
<1>3. CASE SetScanResponseData
  BY <1>3 DEF SetScanResponseData, CarefulAdvertiser, LoadedIsCurrent
<1>4. CASE Start
  <2>1. scanResp /\ scan = <<>> => ctrl.scan = <<>>
    BY <1>4 DEF Start, Careful, CarefulAdvertiser
  <2>2. UNCHANGED <<adv, scan, scanResp>>
    BY <1>4 DEF Start
  <2>3. CASE advDataSet
    BY <1>4, <2>2, <2>3 DEF Start, LoadedIsCurrent
  <2>4. CASE ~advDataSet
    <3>1. ctrl' = [adv |-> adv, scan |-> IF scanResp /\ scan # <<>> THEN scan ELSE ctrl.scan]
      BY <1>4, <2>4 DEF Start, Load, CarefulAdvertiser
    <3> QED
      BY <2>1, <2>2, <3>1 DEF LoadedIsCurrent
  <2> QED
    BY <2>3, <2>4
<1>5. CASE RefreshAdvertisingData
  <2>1. ctrl' = [adv |-> adv, scan |-> IF scanResp THEN scan ELSE ctrl.scan]
    BY <1>5 DEF RefreshAdvertisingData, Load, CarefulAdvertiser
  <2> QED
    BY <1>5, <2>1 DEF RefreshAdvertisingData, LoadedIsCurrent
<1>6. CASE OnHostSync
  BY <1>6 DEF OnHostSync, LoadedIsCurrent
<1> QED
  BY <1>1, <1>2, <1>3, <1>4, <1>5, <1>6

(* While m_advDataSet says that the data is loaded, the controller has the   *)
(* payloads as they are now.                                               *)
THEOREM FlagIsTrue ==
  ASSUME CarefulAdvertiser PROVE Spec => []LoadedIsCurrent
<1>1. Init => LoadedIsCurrent
  BY DEF Init, LoadedIsCurrent
<1>2. LoadedIsCurrent /\ [Next]_vars => LoadedIsCurrent'
  <2>1. CASE UNCHANGED vars
    BY <2>1 DEF vars, LoadedIsCurrent
  <2> QED
    BY <2>1, EditsKeepLoadedIsCurrent, LoadsKeepLoadedIsCurrent DEF Next
<1> QED
  BY <1>1, <1>2, PTL DEF Spec

-----------------------------------------------------------------------------
(* The buffer of setServiceData() *)

(* Service data whose length, with the uuid and the two bytes before it, is  *)
(* below 256: the byte it is counted in then counts all of it.             *)
LengthsFitAByte ==
  /\ \A d \in SvcData : Len(d) \in Nat
  /\ \A u \in Uuids, d \in SvcData : 2 + Len(u) + Len(d) < 256

(* Such data is never written behind the buffer, however much of it there is *)
(* and in whatever order of calls.                                         *)
THEOREM ShortDataFits ==
  ASSUME LengthsFitAByte PROVE Spec => []NoOverrun
<1>1. Init => NoOverrun
  BY DEF Init, NoOverrun
<1>2. NoOverrun /\ [Next]_vars => NoOverrun'
  <2> SUFFICES ASSUME NoOverrun, [Next]_vars PROVE NoOverrun'
    OBVIOUS
  <2>1. CASE SetServiceData
    <3>1. PICK u \in Uuids, d \in SvcData :
            fault' = (SvcLen(u, d) <= MaxSz /\ 2 + Len(u) + Len(d) > MaxSz)
      BY <2>1 DEF SetServiceData
    <3>2. SvcLen(u, d) = 2 + Len(u) + Len(d)
      BY UuidAssumption DEF LengthsFitAByte, SvcLen, Byte
    <3>3. ~(SvcLen(u, d) <= MaxSz /\ 2 + Len(u) + Len(d) > MaxSz)
      BY <3>2, UuidAssumption DEF LengthsFitAByte, MaxSz
    <3> QED
      BY <3>1, <3>3, Zenon DEF NoOverrun
  <2>2. CASE AddField \/ AddServiceUUID \/ RemoveAppearance \/ RemoveServiceUUID
             \/ RemoveServices \/ SetName \/ SetMode \/ EnableScanResponse \/ ClearData
    BY <2>2 DEF AddField, AddServiceUUID, RemoveAppearance, RemoveServiceUUID, RemoveServices,
                SetName, SetMode, EnableScanResponse, ClearData, NoOverrun
  <2>3. CASE SetServices \/ SetShortName \/ SetAdvertisementData \/ SetScanResponseData
             \/ Start \/ RefreshAdvertisingData \/ OnHostSync
    BY <2>3 DEF SetServices, SetShortName, EditOwn, SetAdvertisementData, SetScanResponseData,
                Start, RefreshAdvertisingData, OnHostSync, NoOverrun
  <2>4. CASE UNCHANGED vars
    BY <2>4 DEF vars, NoOverrun
  <2> QED
    BY <2>1, <2>2, <2>3, <2>4 DEF Next
<1> QED
  BY <1>1, <1>2, PTL DEF Spec
=============================================================================
