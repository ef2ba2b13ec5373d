---------------------------- MODULE NimBLEServer ----------------------------
(***************************************************************************)
(* The BLE peripheral role of NimBLE-Arduino: the GATT server object of    *)
(* NimBLEServer.cpp, the registration of services in NimBLEService.cpp,    *)
(* legacy advertising in NimBLEAdvertising.cpp, the host reset and sync of *)
(* NimBLEDevice.cpp, and the host's attribute database (ble_gatts.c) with  *)
(* the connections and the advertising state (ble_gap.c) that guard it.    *)
(*                                                                         *)
(* The host refuses to change its database while anything runs over the    *)
(* air.  Two tasks, the application's and the host's, may be inside        *)
(* NimBLEAdvertising::start() and NimBLEServer::resetGATT() at once.       *)
(***************************************************************************)
EXTENDS Naturals, FiniteSets, SequencesExt

CONSTANTS
  Services,      \* services, by UUID
  Conns,         \* connections the host has memory for
  AdvOnDisc,     \* m_advertiseOnDisconnect
  Central,       \* TRUE: the application scans as well
  Parallel,      \* TRUE: the application has a task of its own; FALSE: it runs
                 \* in callbacks of the host task only
  EarlyEdits,    \* FALSE: services are started before the server, with nothing
                 \* on the air, and removed and re-added only while it runs
  MaxQueue,      \* bound on the length of ble_gatts_svc_defs
  MaxResets,     \* bound on the number of host resets
  None           \* BLE_HS_CONN_HANDLE_NONE

ASSUME FlagsAssumption ==
  /\ AdvOnDisc \in BOOLEAN /\ Central \in BOOLEAN
  /\ Parallel \in BOOLEAN /\ EarlyEdits \in BOOLEAN
ASSUME SizesAssumption ==
  /\ IsFiniteSet(Services) /\ IsFiniteSet(Conns)
  /\ MaxQueue \in Nat /\ MaxResets \in Nat
ASSUME NoneNotConn == None \notin Conns

VARIABLES
  vec,           \* m_svcVec
  removed,       \* getRemoved(): 0, 1 = hide, 2 = delete
  handle,        \* m_handle of a service: its place in the database, 0 = none
  built,         \* services with m_pSvcDef->characteristics
  gattsStarted, svcChanged,   \* m_gattsStarted, m_svcChanged
  peers,         \* m_connectedPeers
  duration, advDataSet,       \* m_duration, m_advDataSet of the advertising object
  synced,        \* NimBLEDevice::m_synced
  queue,         \* ble_gatts_svc_defs: services to register at the next start
  db,            \* the registered services, in the order of their handles
  hidden,        \* places of db moved to the hidden list
  entries,       \* ble_gatts_num_svc_entries
  entriesFreed,  \* the memory of ble_gatts_svc_entries was freed
  links,         \* the host's connections
  adv,           \* ble_gap_adv_active()
  ctrlData,      \* the controller has advertising data
  scanning,      \* ble_gap_disc_active()
  hostUp,        \* ble_hs_sync_state is GOOD
  resets,        \* number of host resets so far
  advAtReset,    \* history: advertising was active when the last reset began
  pc, dur,       \* where each task is, and the duration it starts with
  fault          \* "abort": a failed assertion; "memory": use of freed memory

serverVars == <<vec, removed, handle, built, gattsStarted, svcChanged>>
attVars    == <<queue, db, hidden, entries, entriesFreed>>
advVars    == <<duration, advDataSet, ctrlData>>
airVars    == <<peers, links, adv, scanning>>
resetVars  == <<synced, hostUp, resets, advAtReset>>
taskVars   == <<pc, dur>>
vars       == <<serverVars, attVars, airVars, resetVars, taskVars, advVars, fault>>

Procs == {"app", "host"}
Slots == 1..Cardinality(Conns)

TypeOK ==
  /\ vec \in Seq(Services)
  /\ removed \in [Services -> 0..2]
  /\ handle \in [Services -> 0..MaxQueue]
  /\ built \subseteq Services
  /\ peers \in [Slots -> Conns \cup {None}]
  /\ duration \in {"forever", "timed"}
  /\ queue \in Seq(Services) /\ Len(queue) <= MaxQueue
  /\ db \in Seq(Services)
  /\ hidden \subseteq DOMAIN db
  /\ entries \in 0..MaxQueue
  /\ links \in [Conns -> {"free", "pending", "up", "failed"}]
  /\ resets \in 0..MaxResets
  /\ pc \in [Procs -> {"idle", "gatts", "handles", "advData", "advStart", "advFlag",
                       "advSync", "resetStop", "resetGatts", "resetSvcs", "callback"}]
  /\ dur \in [Procs -> {"forever", "timed"}]
  /\ fault \in {"none", "abort", "memory"}
  /\ {gattsStarted, svcChanged, synced, entriesFreed, adv, scanning, hostUp, advAtReset,
      advDataSet, ctrlData}
       \subseteq BOOLEAN

-----------------------------------------------------------------------------
(* Operations of the host and helpers of the server. *)

(* Mutant: only the connections the server was told of are looked at. *)
MutableIgnoresPending ==
  ~adv /\ ~scanning /\ \A c \in Conns : links[c] \in {"free", "pending"}

(* ble_gatts_mutable(): nothing runs over the air. *)
Mutable == ~adv /\ ~scanning /\ \A c \in Conns : links[c] = "free"

getConnectedCount == Cardinality({i \in Slots : peers[i] # None})

(* serviceChanged(): only once the server was started *)
serviceChanged == svcChanged' = (svcChanged \/ gattsStarted)

Served == {s \in ToSet(vec) : removed[s] = 0}

(* The services of a list that are in S, in the order of the list *)
Those(list, S) ==
  LET those[n \in 0..Len(list)] ==
        IF n = 0 THEN <<>>
        ELSE IF list[n] \in S THEN Append(those[n - 1], list[n]) ELSE those[n - 1]
  IN those[Len(list)]

(* The first place of s in the database, where ble_gatts_find_svc() finds it *)
FindSvc(s) == CHOOSE i \in DOMAIN db : db[i] = s /\ \A j \in 1..(i - 1) : db[j] # s

(* Mutant: a peer is always put in the first slot. *)
TakeFirstSlot(c) == [peers EXCEPT ![1] = c]

(* The first free slot of m_connectedPeers takes the connection. *)
TakeSlot(c) ==
  IF \A i \in Slots : peers[i] # None THEN peers
  ELSE LET i == CHOOSE j \in Slots : peers[j] = None /\ \A k \in 1..(j - 1) : peers[k] # None
       IN [peers EXCEPT ![i] = c]

FreeSlot(c) == [i \in Slots |-> IF peers[i] = c THEN None ELSE peers[i]]

Go(p, where) == pc' = [pc EXCEPT ![p] = where]

(* Entry of NimBLEAdvertising::start(): refused while the host is not       *)
(* synced, done when advertising; the server is started unless it was.     *)
EnterStart(p, d) ==
  /\ dur' = [dur EXCEPT ![p] = d]
  /\ Go(p, IF ~synced \/ adv THEN "idle" ELSE IF gattsStarted THEN "advData" ELSE "gatts")

AppRuns == pc["app"] = "idle" /\ (Parallel \/ pc["host"] = "idle")

HostRuns == pc["host"] = "idle" /\ (Parallel \/ pc["app"] = "idle")

-----------------------------------------------------------------------------
(* Services: application calls. *)

createService(s) ==
  /\ AppRuns /\ s \notin ToSet(vec)
  /\ vec' = Append(vec, s)
  /\ removed' = [removed EXCEPT ![s] = 0]
  /\ handle' = [handle EXCEPT ![s] = 0]
  /\ built' = built \ {s}
  /\ serviceChanged
  /\ UNCHANGED <<gattsStarted, attVars, airVars, resetVars, taskVars, advVars, fault>>

(* NimBLEService::start(), the first call: the definition is built even when *)
(* the host refuses to queue it.                                           *)
ServiceStart(s) ==
  /\ AppRuns /\ s \in ToSet(vec) \ built
  /\ EarlyEdits \/ (~gattsStarted /\ Mutable)
  /\ Len(queue) < MaxQueue
  /\ built' = built \cup {s}
  /\ queue' = IF Mutable THEN Append(queue, s) ELSE queue
  /\ UNCHANGED <<vec, removed, handle, gattsStarted, svcChanged, db, hidden, entries,
                 entriesFreed, airVars, resetVars, taskVars, advVars, fault>>

(* ble_gatts_svc_set_visibility(m_handle, 0): any service with that handle;  *)
(* without one the service is not removed at all.                          *)
Hide(s, kind) ==
  \/ /\ handle[s] \in 1..entries /\ ~entriesFreed
     /\ hidden' = hidden \cup ({handle[s]} \cap DOMAIN db)
     /\ removed' = [removed EXCEPT ![s] = kind]
     /\ serviceChanged
     /\ advDataSet' = FALSE
     /\ UNCHANGED fault
  \/ /\ handle[s] \notin 1..entries /\ ~(entriesFreed /\ entries > 0)
     /\ UNCHANGED <<hidden, removed, svcChanged, advDataSet, fault>>
  \/ /\ entriesFreed /\ entries > 0
     /\ fault' = "memory"
     /\ UNCHANGED <<hidden, removed, svcChanged, advDataSet>>

removeService(s, deleteSvc) ==
  /\ AppRuns /\ s \in ToSet(vec) /\ removed[s] = 0
  /\ EarlyEdits \/ gattsStarted
  /\ Hide(s, IF deleteSvc THEN 2 ELSE 1)
  /\ UNCHANGED <<vec, handle, built, gattsStarted, queue, db, entries, entriesFreed,
                 airVars, resetVars, taskVars, duration, ctrlData>>

(* removeService() of a service that was hidden before: the object goes. *)
deleteRemovedService(s) ==
  /\ AppRuns /\ s \in ToSet(vec) /\ removed[s] > 0
  /\ vec' = Those(vec, Services \ {s})
  /\ removed' = [removed EXCEPT ![s] = 0]
  /\ UNCHANGED <<handle, built, gattsStarted, svcChanged, attVars, airVars, resetVars,
                 taskVars, advVars, fault>>

addService(s) ==
  /\ AppRuns
  /\ EarlyEdits \/ gattsStarted
  /\ \/ /\ s \in ToSet(vec) /\ removed[s] > 0
        /\ removed' = [removed EXCEPT ![s] = 0]
        /\ serviceChanged
        /\ UNCHANGED <<vec, handle, built>>
     \/ /\ s \notin ToSet(vec)
        /\ vec' = Append(vec, s)
        /\ handle' = [handle EXCEPT ![s] = 0]
        /\ built' = built \ {s}
        /\ UNCHANGED <<removed, svcChanged>>
  /\ UNCHANGED <<gattsStarted, attVars, airVars, resetVars, taskVars, advVars, fault>>

-----------------------------------------------------------------------------
(* Advertising: NimBLEAdvertising::start() in steps, by either task. *)

startAdvertising(d) ==
  /\ AppRuns /\ synced /\ ~adv
  /\ EnterStart("app", d)
  /\ UNCHANGED <<serverVars, attVars, airVars, resetVars, advVars, fault>>

(* NimBLEAdvertising::stop() *)
stopAdvertising ==
  /\ AppRuns /\ adv /\ hostUp
  /\ adv' = FALSE
  /\ UNCHANGED <<serverVars, attVars, peers, links, scanning, resetVars, taskVars,
                 advVars, fault>>

(* The time of a timed advertising is over: the host disables it and reports *)
(* ADV_COMPLETE.                                                           *)
AdvExpired ==
  /\ HostRuns /\ hostUp /\ adv /\ duration = "timed"
  /\ adv' = FALSE
  /\ UNCHANGED <<serverVars, attVars, peers, links, scanning, resetVars, taskVars,
                 advVars, fault>>

(* NimBLEScan::start() and stop() as far as the database is concerned *)
Scan ==
  /\ Central /\ AppRuns /\ hostUp /\ synced
  /\ scanning' = ~scanning
  /\ UNCHANGED <<serverVars, attVars, peers, links, adv, resetVars, taskVars,
                 advVars, fault>>

(* Mutant: the queue is kept when the server is started. *)
GattsRegisterKeepsQueue ==
  /\ db' = queue /\ entries' = Len(queue) /\ hidden' = {} /\ entriesFreed' = FALSE
  /\ UNCHANGED queue

(* ble_gatts_start() registers the queued services in order ... *)
GattsRegister ==
  /\ db' = queue /\ entries' = Len(queue) /\ hidden' = {} /\ entriesFreed' = FALSE
  /\ queue' = <<>>

(* ... and when it is refused frees the entries and forgets the queue.  A    *)
(* second start over a database in use frees the memory under it.          *)
GattsStart(p) ==
  /\ pc[p] = "gatts"
  /\ \/ /\ Mutable /\ db = <<>>
        /\ GattsRegister
        /\ Go(p, "handles")
        /\ UNCHANGED fault
     \/ /\ Mutable /\ db # <<>>
        /\ fault' = "memory"
        /\ UNCHANGED <<attVars, pc>>
     \/ /\ ~Mutable
        /\ queue' = <<>> /\ entriesFreed' = TRUE
        /\ Go(p, "advData")
        /\ UNCHANGED <<db, hidden, entries, fault>>
  /\ UNCHANGED <<serverVars, airVars, resetVars, dur, advVars>>

(* The rest of NimBLEServer::start(): handles, the indication, the flag *)
ServerStarted(p) ==
  /\ pc[p] = "handles"
  /\ IF entriesFreed
     THEN fault' = "memory" /\ UNCHANGED <<handle, svcChanged, gattsStarted, pc>>
     ELSE /\ handle' = [s \in Services |->
                          IF s \in Served \cap ToSet(db) THEN FindSvc(s) ELSE handle[s]]
          /\ svcChanged' = FALSE
          /\ gattsStarted' = TRUE
          /\ Go(p, "advData")
          /\ UNCHANGED fault
  /\ UNCHANGED <<vec, removed, built, attVars, airVars, resetVars, dur, advVars>>

(* The advertising data is loaded unless it was; while the host is down that *)
(* fails and start() returns.                                              *)
AdvData(p) ==
  /\ pc[p] = "advData"
  /\ \/ /\ advDataSet
        /\ Go(p, "advStart")
        /\ UNCHANGED ctrlData
     \/ /\ ~advDataSet /\ hostUp
        /\ ctrlData' = TRUE
        /\ Go(p, "advFlag")
     \/ /\ ~advDataSet /\ ~hostUp
        /\ Go(p, "idle")
        /\ UNCHANGED ctrlData
  /\ UNCHANGED <<serverVars, attVars, airVars, resetVars, dur, duration, advDataSet, fault>>

(* m_duration is saved, ble_gap_adv_start() enables advertising: not when    *)
(* the host is down or has no memory for another connection.               *)
AdvStart(p) ==
  /\ pc[p] \in {"advStart", "advFlag"}
  /\ advDataSet' = (advDataSet \/ pc[p] = "advFlag")
  /\ duration' = dur[p]
  /\ adv' = (adv \/ (hostUp /\ \E c \in Conns : links[c] = "free"))
  /\ Go(p, "idle")
  /\ UNCHANGED <<serverVars, attVars, peers, links, scanning, resetVars, ctrlData, dur, fault>>

AdvertisingStep(p) == GattsStart(p) \/ ServerStarted(p) \/ AdvData(p) \/ AdvStart(p)

-----------------------------------------------------------------------------
(* The host task: connections and NimBLEServer::handleGapEvent(). *)

(* A central connects: advertising is over, CONNECT waits for the peer's     *)
(* features.                                                               *)
ConnComplete(c) ==
  /\ HostRuns /\ hostUp /\ adv /\ links[c] = "free"
  /\ links' = [links EXCEPT ![c] = "pending"]
  /\ adv' = FALSE
  /\ UNCHANGED <<serverVars, attVars, peers, scanning, resetVars, taskVars, advVars, fault>>

(* CONNECT with status 0 *)
OnConnect(c) ==
  /\ HostRuns /\ hostUp /\ links[c] = "pending"
  /\ links' = [links EXCEPT ![c] = "up"]
  /\ peers' = TakeSlot(c)
  /\ UNCHANGED <<serverVars, attVars, adv, scanning, resetVars, taskVars, advVars, fault>>

(* CONNECT with the status of a failed feature exchange: the connection is   *)
(* there, the server takes no slot and advertises.                         *)
OnConnectFailed(c) ==
  /\ HostRuns /\ hostUp /\ links[c] = "pending"
  /\ links' = [links EXCEPT ![c] = "failed"]
  /\ EnterStart("host", "forever")
  /\ UNCHANGED <<serverVars, attVars, peers, adv, scanning, resetVars, advVars, fault>>

(* resetGATT() is entered when the services changed, and returns when a peer *)
(* is left.                                                                *)
AfterSlot(slots) ==
  IF svcChanged /\ \A i \in Slots : slots[i] = None THEN "resetStop" ELSE "callback"

(* ble_gap_conn_broken(): DISCONNECT is sent if CONNECT was, and its handler *)
(* frees the slot.                                                         *)
ConnBroken(c) ==
  /\ HostRuns /\ links[c] # "free"
  /\ links' = [links EXCEPT ![c] = "free"]
  /\ IF links[c] = "pending"
     THEN UNCHANGED <<peers, pc, synced>>
     ELSE /\ peers' = FreeSlot(c)
          /\ synced' = (synced /\ hostUp)
          /\ Go("host", AfterSlot(FreeSlot(c)))
  /\ UNCHANGED <<serverVars, attVars, adv, scanning, hostUp, resets, advAtReset, dur,
                 advVars, fault>>

(* resetGATT(): stopAdvertising(), refused while the host is down *)
ResetStop ==
  /\ pc["host"] = "resetStop"
  /\ adv' = (adv /\ ~hostUp)
  /\ Go("host", "resetGatts")
  /\ UNCHANGED <<serverVars, attVars, peers, links, scanning, resetVars, dur, advVars, fault>>

(* Mutant: the list of hidden attributes is not emptied. *)
ResetGattsKeepsHidden ==
  /\ pc["host"] = "resetGatts"
  /\ IF Mutable
     THEN /\ db' = <<>>
          /\ Go("host", "resetSvcs")
          /\ UNCHANGED <<hidden, fault>>
     ELSE /\ fault' = "abort"
          /\ UNCHANGED <<db, hidden, pc>>
  /\ UNCHANGED <<serverVars, queue, entries, entriesFreed, airVars, resetVars, dur, advVars>>

(* ble_gatts_reset(), then the two base services, which assert that they    *)
(* could be queued.                                                        *)
ResetGatts ==
  /\ pc["host"] = "resetGatts"
  /\ IF Mutable
     THEN /\ db' = <<>> /\ hidden' = {}
          /\ Go("host", "resetSvcs")
          /\ UNCHANGED fault
     ELSE /\ fault' = "abort"
          /\ UNCHANGED <<db, hidden, pc>>
  /\ UNCHANGED <<serverVars, queue, entries, entriesFreed, airVars, resetVars, dur, advVars>>

(* Mutant: hidden services are queued again. *)
RequeueHiddenToo ==
  Those(vec, {s \in Services : removed[s] < 2 /\ (svcChanged \/ s \notin built)})

(* What the loop over m_svcVec starts: start() skips a service that is built *)
(* when nothing changed.                                                   *)
Requeue == Those(vec, {s \in Services : removed[s] = 0 /\ (svcChanged \/ s \notin built)})

ResetServices ==
  /\ pc["host"] = "resetSvcs"
  /\ Len(queue) + Len(Requeue) <= MaxQueue
  /\ queue' = IF Mutable THEN queue \o Requeue ELSE queue
  /\ vec' = Those(vec, {s \in Services : removed[s] # 2})
  /\ built' = (built \cup ToSet(Requeue)) \ {s \in Services : removed[s] = 2}
  /\ removed' = [s \in Services |-> IF removed[s] = 2 THEN 0 ELSE removed[s]]
  /\ gattsStarted' = FALSE
  /\ Go("host", "callback")
  /\ UNCHANGED <<handle, svcChanged, db, hidden, entries, entriesFreed, airVars, resetVars,
                 dur, advVars, fault>>

(* After onDisconnect(): advertiseOnDisconnect *)
AfterDisconnect ==
  /\ pc["host"] = "callback"
  /\ IF AdvOnDisc THEN EnterStart("host", "forever")
                  ELSE Go("host", "idle") /\ UNCHANGED dur
  /\ UNCHANGED <<serverVars, attVars, airVars, resetVars, advVars, fault>>

-----------------------------------------------------------------------------
(* Host reset. *)

ResetBegin ==
  /\ HostRuns /\ hostUp /\ resets < MaxResets
  /\ hostUp' = FALSE
  /\ resets' = resets + 1
  /\ advAtReset' = adv
  /\ UNCHANGED <<serverVars, attVars, airVars, synced, taskVars, advVars, fault>>

(* The connections are broken first, by ConnBroken(); then advertising and   *)
(* scanning end, the application's reset callback runs, the host syncs and  *)
(* onSync() sets m_synced.                                                 *)
HostSync ==
  /\ HostRuns /\ ~hostUp /\ \A c \in Conns : links[c] = "free"
  /\ adv' = FALSE /\ scanning' = FALSE
  /\ hostUp' = TRUE /\ synced' = TRUE
  /\ ctrlData' = FALSE
  /\ Go("host", "advSync")
  /\ UNCHANGED <<serverVars, attVars, peers, links, resets, advAtReset, dur, duration,
                 advDataSet, fault>>

(* Mutant: the flag that the data was loaded survives the reset. *)
OnHostSyncKeepsFlag ==
  /\ pc["host"] = "advSync"
  /\ IF duration = "forever" THEN EnterStart("host", "forever")
                             ELSE Go("host", "idle") /\ UNCHANGED dur
  /\ UNCHANGED <<serverVars, attVars, airVars, resetVars, advVars, fault>>

(* Mutant: advertising that was timed is restarted, the endless one is not. *)
OnHostSyncTimedOnly ==
  /\ pc["host"] = "advSync"
  /\ advDataSet' = FALSE
  /\ IF duration = "timed" THEN EnterStart("host", "timed")
                           ELSE Go("host", "idle") /\ UNCHANGED dur
  /\ UNCHANGED <<serverVars, attVars, airVars, resetVars, duration, ctrlData, fault>>

(* NimBLEAdvertising::onHostSync() *)
OnHostSync ==
  /\ pc["host"] = "advSync"
  /\ advDataSet' = FALSE
  /\ IF duration = "forever" THEN EnterStart("host", "forever")
                             ELSE Go("host", "idle") /\ UNCHANGED dur
  /\ UNCHANGED <<serverVars, attVars, airVars, resetVars, duration, ctrlData, fault>>

-----------------------------------------------------------------------------
Init ==
  /\ vec = <<>> /\ built = {}
  /\ removed = [s \in Services |-> 0] /\ handle = [s \in Services |-> 0]
  /\ gattsStarted = FALSE /\ svcChanged = FALSE
  /\ peers = [i \in Slots |-> None]
  /\ duration = "timed" /\ advDataSet = FALSE /\ ctrlData = FALSE
  /\ queue = <<>> /\ db = <<>> /\ hidden = {} /\ entries = 0 /\ entriesFreed = FALSE
  /\ links = [c \in Conns |-> "free"]
  /\ adv = FALSE /\ scanning = FALSE
  /\ synced = TRUE /\ hostUp = TRUE /\ resets = 0 /\ advAtReset = FALSE
  /\ pc = [p \in Procs |-> "idle"] /\ dur = [p \in Procs |-> "forever"]
  /\ fault = "none"

AppCall ==
  \/ \E s \in Services :
       \/ createService(s) \/ ServiceStart(s) \/ deleteRemovedService(s) \/ addService(s)
       \/ \E d \in BOOLEAN : removeService(s, d)
  \/ \E d \in {"forever", "timed"} : startAdvertising(d)
  \/ stopAdvertising \/ Scan

AppStep ==
  \/ AppCall
  \/ (Parallel \/ pc["host"] = "idle") /\ AdvertisingStep("app")

HostStep ==
  \/ AdvertisingStep("host") \/ ResetStop \/ ResetGatts \/ ResetServices
  \/ AfterDisconnect \/ OnHostSync

HostEvent ==
  \/ \E c \in Conns : ConnComplete(c) \/ OnConnect(c) \/ OnConnectFailed(c) \/ ConnBroken(c)
  \/ AdvExpired \/ ResetBegin \/ HostSync

(* After a failed assertion or a use of freed memory nothing is modelled. *)
Next == IF fault = "none" THEN AppStep \/ HostStep \/ HostEvent ELSE UNCHANGED vars

Spec == Init /\ [][Next]_vars

(* Fairness: the host task runs; a reset, once begun, comes to its end. *)
Fairness ==
  /\ WF_vars(fault = "none" /\ HostStep)
  /\ WF_vars(fault = "none" /\ HostSync)
  /\ \A c \in Conns : WF_vars(fault = "none" /\ ~hostUp /\ ConnBroken(c))

FairSpec == Spec /\ Fairness

-----------------------------------------------------------------------------
(* Safety *)

(* m_connectedPeers holds exactly the connections the server was told of,    *)
(* each once, across full slots, failed connections and host resets.       *)
PeersMatchLinks ==
  fault = "none" =>
    /\ \A c \in Conns : links[c] = "up" <=> \E i \in Slots : peers[i] = c
    /\ \A i, j \in Slots : peers[i] = peers[j] /\ peers[i] # None => i = j

(* Once the server is started and no change is pending, every service that   *)
(* was built and not removed is in the database once and visible, under    *)
(* the handle its object has.                                              *)
ServedServices ==
  fault = "none" /\ gattsStarted /\ ~svcChanged =>
    \A s \in Served \cap built :
      /\ \E i \in DOMAIN db \ hidden : db[i] = s /\ handle[s] = i
      /\ \A i, j \in DOMAIN db : db[i] = s /\ db[j] = s => i = j

(* removeService() "Immediately removes access to the service by clients":   *)
(* a removed service has no visible place in the database, then or after   *)
(* the database was rebuilt.                                               *)
RemovedInvisible ==
  \A s \in ToSet(vec) : removed[s] > 0 => \A i \in DOMAIN db : db[i] = s => i \in hidden

(* Advertising is on with data in the controller, also after a host reset    *)
(* that took the data away.                                                *)
AdvDataLoaded == adv /\ hostUp => ctrlData

(* Nothing is registered or unregistered under a connected client, told of   *)
(* or not: what it discovered stays valid (hiding aside).                  *)
GattStable == [][(\E c \in Conns : links[c] # "free") => db' = db]_vars

(* Advertising without end that a host reset interrupts is on again after    *)
(* it, unless the application asked for something else meanwhile.          *)
AdvertisingRestored ==
  ~hostUp /\ adv /\ duration = "forever" ~>
    (hostUp /\ adv) \/ duration = "timed" \/ fault # "none"

-----------------------------------------------------------------------------
(* What the documentation says and the code does not keep *)

(* NimBLEAdvertising::start() "make sure the GATT server is ready before     *)
(* advertising"                                                            *)
ReadyWhenAdvertising == adv => gattsStarted

(* removeService(): the service leaves the database only when "all open      *)
(* connections are closed": the reset of the database is never refused.    *)
NoAbort == fault # "abort"

(* removeService() removes "access to the service": it hides no other one. *)
HidesTheRemoved ==
  [][\A i \in hidden' \ hidden : removed'[db[i]] > 0]_vars

(* onHostSync() "If we were advertising forever, restart it now": only then. *)
RestartedOnlyIfAdvertising ==
  [][pc["host"] = "advSync" /\ pc'["host"] # "idle" => advAtReset]_vars
=============================================================================
