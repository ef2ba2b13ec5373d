---------------------------- MODULE NimBLEClient ----------------------------
(***************************************************************************)
(* The BLE central role of NimBLE-Arduino: the client objects of           *)
(* NimBLEClient.cpp, the slots and the host-reset flag of NimBLEDevice.cpp, *)
(* the task rendezvous of NimBLEUtils.cpp, and the part of the host's GAP   *)
(* (ble_gap.c, ble_sm.c) they call and are called back by.                 *)
(*                                                                         *)
(* Application tasks call connect(), secureConnection(), disconnect() and  *)
(* deleteClient(); the one host task runs NimBLEClient::handleGapEvent().   *)
(* No lock is shared between them.  Whatever decides who exists, who waits *)
(* and who is connected is read and written in steps of its own: the copy  *)
(* of m_pTaskData on entry of the handler, each test and each write of      *)
(* m_connHandle, m_pTaskData and the deletion flags, and the delete itself, *)
(* on both sides; the use of a client that was freed meanwhile ends the     *)
(* behaviour (fault).  One step are: the condition of line 985; reading     *)
(* m_connHandle as the argument of a host call; m_asyncSecureAttempt with   *)
(* its test; finding a client's slot with the first read of the client;     *)
(* the delete expression with the clearing of the slot.                    *)
(***************************************************************************)
EXTENDS Naturals, FiniteSets

CONSTANTS
  Clients,          \* addresses of client objects (the slots of m_pClients)
  Tasks,            \* application tasks
  Handles,          \* connection handles of the controller
  Owner,            \* Owner[c]: the only task that calls methods of client c
  SharedBit,        \* TRUE: FreeRTOS port, one notification bit per task;
                    \* FALSE: one semaphore per NimBLETaskData
  ConnectModes,     \* arguments of connect(): [async, mtu]
  SelfDelete,       \* arguments of setSelfDelete(): [disc, fail]
  MaxAttempts,      \* bound on secureConnection(true) calls not yet answered
  Preempt,          \* TRUE: tasks go on with a client while the handler is
                    \* between a test of it and what it does about it
  DeletePending,    \* TRUE: deleteClient() is also called while the CONNECT
                    \* of an asynchronous connect() is to come
  None              \* nullptr, BLE_HS_CONN_HANDLE_NONE

ASSUME OwnerAssumption == Owner \in [Clients -> Tasks]
ASSUME ModesAssumption ==
  /\ ConnectModes \subseteq [async : BOOLEAN, mtu : BOOLEAN]
  /\ SelfDelete \subseteq [disc : BOOLEAN, fail : BOOLEAN]
  /\ SharedBit \in BOOLEAN /\ Preempt \in BOOLEAN /\ DeletePending \in BOOLEAN
  /\ MaxAttempts \in Nat \ {0, 1}
ASSUME NoneAssumption == None \notin Clients \cup Tasks \cup Handles

(* Return codes, as far as the code tells them apart. *)
RC == {"OK", "ENOTCONN", "ETIMEOUT", "EFAIL",
       "PINKEY",      \* BLE_HS_ERR_HCI_BASE + BLE_ERR_PINKEY_MISSING
       "ESTABLISH",   \* BLE_HS_ERR_HCI_BASE + BLE_ERR_CONN_ESTABLISHMENT
       "REMOTE",      \* any other disconnect reason
       "RESET"}       \* ECONTROLLER, ETIMEOUT_HCI, ENOTSYNCED, EOS

EventTypes == {"DISCONNECT", "CONNECT", "TERM_FAILURE", "ENC_CHANGE",
               "IDENTITY", "MTU", "LINK_ESTAB"}

Event == [type : EventTypes, arg : Clients, handle : Handles \cup {None}, status : RC]

Config == [asyncConnect : BOOLEAN, exchangeMTU : BOOLEAN,
           deleteOnDisconnect : BOOLEAN, deleteOnConnectFail : BOOLEAN]

VARIABLES
  synced,        \* NimBLEDevice::m_synced
  alive,         \* the non-null slots of NimBLEDevice::m_pClients
  config,        \* m_config
  connHandle,    \* m_connHandle
  pTaskData,     \* m_pTaskData: the task whose stack record it points to
  termFails,     \* m_terminateFailCount
  secAttempt,    \* m_asyncSecureAttempt
  pc, cur,       \* where each task is, and on which client
  flags,         \* m_flags of the record on the task's stack
  notified,      \* the notification bit, or the semaphore's count
  retry,         \* retryCount of secureConnection()
  released,      \* history: what released the current record, see Releases
  initiating,    \* ble_gap_master: cb_arg of the connect procedure, or None
  cancel,        \* ble_gap_master.conn.cancel
  link,          \* ble_hs_conn: cb_arg of the connection, None when free
  up,            \* connections whose CONNECT event was reported
  terminating,   \* connections with BLE_HS_CONN_F_TERMINATING
  hangup,        \* connections with a disconnect command under way
  sm,            \* connections with a security procedure
  resetting,     \* inside ble_hs_reset()
  hpc, ev,       \* where the host task is, and the event it handles
  hTask,         \* handleGapEvent()'s local copy of m_pTaskData
  hLive,         \* history: the record that copy points to still exists
  hrc,           \* handleGapEvent()'s rc
  fault          \* a client was used after it was freed

clientVars == <<alive, config, connHandle, pTaskData, termFails, secAttempt>>
taskVars   == <<pc, cur, flags, notified, retry, released>>
gapVars    == <<initiating, cancel, link, up, terminating, hangup, sm>>
hostVars   == <<hpc, ev, hTask, hLive, hrc>>
devVars    == <<synced, resetting, fault>>
vars       == <<clientVars, taskVars, gapVars, hostVars, devVars>>

(* Who has released a record: nobody, an event, or an encryption change too. *)
Releases == {"none", "other", "encryption"}

(* Inside deleteClient(), which both sides call *)
DeletePlaces == {"delConnected", "delMark", "delDisconnect", "delWaiter", "delMarkFail",
                 "delCancel", "delFree"}

PCs == {"idle", "connConfig", "gapConnect", "publish", "connWait", "connTimeout",
        "connCancel", "connWoken", "connCallback", "connFailed", "secStart", "secWait",
        "secDone"} \cup DeletePlaces

HostPCs == {"idle", "dispatch", "entered", "onDisconnect", "selfDelete", "connected",
            "exchange", "onConnectFail", "release", "linkEstab"} \cup DeletePlaces

NoEvent == [type |-> "LINK_ESTAB", arg |-> None, handle |-> None, status |-> "OK"]

TypeOK ==
  /\ synced \in BOOLEAN /\ resetting \in BOOLEAN /\ cancel \in BOOLEAN
  /\ alive \subseteq Clients
  /\ config \in [Clients -> Config]
  /\ connHandle \in [Clients -> Handles \cup {None}]
  /\ pTaskData \in [Clients -> Tasks \cup {None}]
  /\ termFails \in [Clients -> 0..3]
  /\ secAttempt \in [Clients -> 0..MaxAttempts]
  /\ pc \in [Tasks -> PCs]
  /\ cur \in [Tasks -> Clients \cup {None}]
  /\ flags \in [Tasks -> RC]
  /\ notified \in [Tasks -> BOOLEAN]
  /\ retry \in [Tasks -> 0..1]
  /\ released \in [Tasks -> Releases]
  /\ initiating \in Clients \cup {None}
  /\ link \in [Handles -> Clients \cup {None}]
  /\ up \subseteq Handles /\ terminating \subseteq Handles
  /\ hangup \subseteq Handles /\ sm \subseteq Handles
  /\ hpc \in HostPCs
  /\ ev \in Event \cup {NoEvent}
  /\ hTask \in Tasks \cup {None}
  /\ hLive \in BOOLEAN
  /\ hrc \in RC
  /\ fault \in BOOLEAN

-----------------------------------------------------------------------------
(* Operations of NimBLEDevice, NimBLEUtils and ble_gap used by the actions. *)

isConnected(c) == connHandle[c] # None

(* ble_gap_terminate(): a connection that is already terminating is left   *)
(* alone (EALREADY), so is one that no longer exists (ENOTCONN).           *)
GapTerminate(h) ==
  IF h # None /\ link[h] # None /\ h \notin terminating
  THEN terminating' = terminating \cup {h} /\ hangup' = hangup \cup {h}
  ELSE UNCHANGED <<terminating, hangup>>

(* ble_gap_conn_cancel(): cancels whichever procedure is in progress. *)
GapConnCancel == cancel' = (cancel \/ initiating # None)

(* Mutant: deleteClient() does not look for a waiting task. *)
WaitedForNever(c) == FALSE

WaitedFor(c) == pTaskData[c] # None

(* NimBLEDevice::deleteClient(), one access of the client at a time, from   *)
(* place p to place n; "delDone" is its return.                            *)
DeleteStep(c, p, n) ==
  \/ /\ p = "delConnected"
     /\ n = IF c \notin alive THEN "delDone"
            ELSE IF isConnected(c) THEN "delMark" ELSE "delWaiter"
     /\ UNCHANGED <<alive, config, cancel, terminating, hangup>>
  \/ /\ p = "delMark" /\ n = "delDisconnect"
     /\ config' = [config EXCEPT ![c].deleteOnDisconnect = TRUE]
     /\ UNCHANGED <<alive, cancel, terminating, hangup>>
  \/ /\ p = "delDisconnect" /\ n = "delDone"
     /\ GapTerminate(connHandle[c])
     /\ UNCHANGED <<alive, config, cancel>>
  \/ /\ p = "delWaiter"
     /\ n = IF WaitedFor(c) THEN "delMarkFail" ELSE "delFree"
     /\ UNCHANGED <<alive, config, cancel, terminating, hangup>>
  \/ /\ p = "delMarkFail" /\ n = "delCancel"
     /\ config' = [config EXCEPT ![c].deleteOnConnectFail = TRUE]
     /\ UNCHANGED <<alive, cancel, terminating, hangup>>
  \/ /\ p = "delCancel" /\ n = "delDone"
     /\ GapConnCancel
     /\ UNCHANGED <<alive, config, terminating, hangup>>
  \/ /\ p = "delFree" /\ n = "delDone"
     /\ alive' = alive \ {c}
     /\ UNCHANGED <<config, cancel, terminating, hangup>>

(* The handler has tested client c and not yet done what the test decides: *)
(* a new connection is not stored yet, the self-deletion is under way, or   *)
(* onConnectFail() runs ahead of it.                                       *)
Deciding(c) ==
  /\ ev.arg = c
  /\ \/ hpc \in {"connected", "selfDelete"} \cup DeletePlaces
     \/ hpc = "onConnectFail" /\ config[c].deleteOnConnectFail

(* Tasks run in between, or do not. *)
Undisturbed(c) == Preempt \/ ~Deciding(c)

(* The CONNECT event of client c is still to come or is being handled. *)
Pending(c) ==
  \/ initiating = c
  \/ \E h \in Handles : link[h] = c /\ h \notin up
  \/ ev.type = "CONNECT" /\ ev.arg = c /\ hpc \in {"dispatch", "entered", "connected"}

(* A new NimBLETaskData(this, rc) on the stack of t, published in c.  Its   *)
(* semaphore starts empty; a notification bit is the task's and stays.     *)
PublishTaskData(t, c, rc) ==
  /\ pTaskData' = [pTaskData EXCEPT ![c] = t]
  /\ flags' = [flags EXCEPT ![t] = rc]
  /\ notified' = [notified EXCEPT ![t] = SharedBit /\ @]
  /\ released' = [released EXCEPT ![t] = "none"]

(* The function returns: its locals and its record are gone, also for a     *)
(* host task that copied the pointer.                                      *)
Return(t) ==
  /\ pc' = [pc EXCEPT ![t] = "idle"]
  /\ cur' = [cur EXCEPT ![t] = None]
  /\ flags' = [flags EXCEPT ![t] = "OK"]
  /\ retry' = [retry EXCEPT ![t] = 0]
  /\ released' = [released EXCEPT ![t] = "none"]
  /\ notified' = [notified EXCEPT ![t] = SharedBit /\ @]
  /\ hLive' = (hLive /\ hTask # t)

-----------------------------------------------------------------------------
(* Application tasks. *)

(* NimBLEDevice::createClient() followed by setSelfDelete() *)
CreateClient(c) ==
  /\ c \notin alive /\ pc[Owner[c]] = "idle"
  /\ \E sd \in SelfDelete :
       config' = [config EXCEPT ![c] =
         [asyncConnect |-> FALSE, exchangeMTU |-> FALSE,
          deleteOnDisconnect |-> sd.disc, deleteOnConnectFail |-> sd.fail]]
  /\ alive' = alive \cup {c}
  /\ connHandle' = [connHandle EXCEPT ![c] = None]
  /\ pTaskData' = [pTaskData EXCEPT ![c] = None]
  /\ termFails' = [termFails EXCEPT ![c] = 0]
  /\ secAttempt' = [secAttempt EXCEPT ![c] = 0]
  /\ UNCHANGED <<taskVars, gapVars, hostVars, devVars>>

(* connect() finds the stack synchronised and the client not connected. *)
Connect(t, c) ==
  /\ pc[t] = "idle" /\ Owner[c] = t /\ c \in alive
  /\ synced /\ ~isConnected(c)
  /\ pc' = [pc EXCEPT ![t] = "connConfig"]
  /\ cur' = [cur EXCEPT ![t] = c]
  /\ UNCHANGED <<clientVars, flags, notified, retry, released, gapVars, hostVars, devVars>>

(* m_config.asyncConnect = ...; m_config.exchangeMTU = ... *)
ConnectConfig(t) ==
  /\ pc[t] = "connConfig"
  /\ \E m \in ConnectModes :
       config' = [config EXCEPT ![cur[t]].asyncConnect = m.async,
                                ![cur[t]].exchangeMTU = m.mtu]
  /\ pc' = [pc EXCEPT ![t] = "gapConnect"]
  /\ UNCHANGED <<alive, connHandle, pTaskData, termFails, secAttempt, cur,
                 flags, notified, retry, released, gapVars, hostVars, devVars>>

(* ble_gap_connect() accepted: an asynchronous connect() returns here. *)
GapConnect(t) ==
  /\ pc[t] = "gapConnect"
  /\ initiating = None /\ ~resetting
  /\ \E h \in Handles : link[h] = None
  /\ initiating' = cur[t]
  /\ cancel' = FALSE
  /\ IF config[cur[t]].asyncConnect
     THEN Return(t)
     ELSE /\ pc' = [pc EXCEPT ![t] = "publish"]
          /\ UNCHANGED <<cur, flags, notified, retry, released, hLive>>
  /\ UNCHANGED <<clientVars, link, up, terminating, hangup, sm, hpc, ev, hTask, hrc,
                 devVars>>

(* ble_gap_connect() refused (EALREADY, ENOMEM, scan not stopped, ...) *)
GapConnectRefused(t) ==
  /\ pc[t] = "gapConnect"
  /\ Return(t)
  /\ UNCHANGED <<clientVars, gapVars, hpc, ev, hTask, hrc, devVars>>

(* NimBLETaskData taskData(this); m_pTaskData = &taskData; *)
ConnectPublish(t) ==
  /\ pc[t] = "publish"
  /\ PublishTaskData(t, cur[t], "OK")
  /\ pc' = [pc EXCEPT ![t] = "connWait"]
  /\ UNCHANGED <<alive, config, connHandle, termFails, secAttempt, cur, retry,
                 gapVars, hostVars, devVars>>

(* taskWait() returns true: the bit or the semaphore is taken. *)
ConnectWoken(t) ==
  /\ pc[t] = "connWait" /\ notified[t]
  /\ notified' = [notified EXCEPT ![t] = FALSE]
  /\ pc' = [pc EXCEPT ![t] = "connWoken"]
  /\ UNCHANGED <<clientVars, cur, flags, retry, released, gapVars, hostVars, devVars>>

(* taskWait() returns false after m_connectTimeout + 1 s. *)
ConnectTimeout(t) ==
  /\ pc[t] = "connWait" /\ ~notified[t]
  /\ pc' = [pc EXCEPT ![t] = "connTimeout"]
  /\ UNCHANGED <<clientVars, cur, flags, notified, retry, released,
                 gapVars, hostVars, devVars>>

(* After a timeout: connected anyway, or about to cancel the procedure. *)
ConnectCheck(t) ==
  /\ pc[t] = "connTimeout"
  /\ IF isConnected(cur[t])
     THEN flags' = [flags EXCEPT ![t] = "OK"] /\ pc' = [pc EXCEPT ![t] = "connWoken"]
     ELSE pc' = [pc EXCEPT ![t] = "connCancel"] /\ UNCHANGED flags
  /\ UNCHANGED <<clientVars, cur, notified, retry, released, gapVars, hostVars, devVars>>

ConnectCancel(t) ==
  /\ pc[t] = "connCancel"
  /\ GapConnCancel
  /\ flags' = [flags EXCEPT ![t] = "ETIMEOUT"]
  /\ pc' = [pc EXCEPT ![t] = "connWoken"]
  /\ UNCHANGED <<clientVars, cur, notified, retry, released,
                 initiating, link, up, terminating, hangup, sm, hostVars, devVars>>

(* m_pTaskData = nullptr; rc = taskData.m_flags; *)
ConnectUnpublish(t) ==
  /\ pc[t] = "connWoken"
  /\ pTaskData' = [pTaskData EXCEPT ![cur[t]] = None]
  /\ pc' = [pc EXCEPT ![t] = IF flags[t] = "OK" THEN "connCallback" ELSE "connFailed"]
  /\ UNCHANGED <<alive, config, connHandle, termFails, secAttempt, cur, flags,
                 notified, retry, released, gapVars, hostVars, devVars>>

(* The failure path: deleteClient(this) when it was asked for. *)
ConnectFailed(t) ==
  /\ pc[t] = "connFailed"
  /\ IF config[cur[t]].deleteOnConnectFail
     THEN /\ pc' = [pc EXCEPT ![t] = "delConnected"]
          /\ UNCHANGED <<cur, flags, notified, retry, released, hLive>>
     ELSE Return(t)
  /\ UNCHANGED <<clientVars, gapVars, hpc, ev, hTask, hrc, devVars>>

(* onConnect() has returned, and so does connect(). *)
ConnectReturn(t) ==
  /\ pc[t] = "connCallback"
  /\ Return(t)
  /\ UNCHANGED <<clientVars, gapVars, hpc, ev, hTask, hrc, devVars>>

(* secureConnection(false): the record is published first. *)
Secure(t, c) ==
  /\ pc[t] = "idle" /\ Owner[c] = t /\ c \in alive
  /\ PublishTaskData(t, c, "ENOTCONN")
  /\ retry' = [retry EXCEPT ![t] = 1]
  /\ pc' = [pc EXCEPT ![t] = "secStart"]
  /\ cur' = [cur EXCEPT ![t] = c]
  /\ UNCHANGED <<alive, config, connHandle, termFails, secAttempt,
                 gapVars, hostVars, devVars>>

(* Mutant: the retry is not counted. *)
SecureLoopForever(t) ==
  IF flags[t] = "PINKEY" /\ retry[t] > 0
  THEN UNCHANGED retry /\ pc' = [pc EXCEPT ![t] = "secStart"]
  ELSE pc' = [pc EXCEPT ![t] = "secDone"] /\ UNCHANGED retry

(* Mutant: retryCount is decremented whatever its value. *)
SecureLoopUnbounded(t) ==
  IF flags[t] = "PINKEY"
  THEN retry' = [retry EXCEPT ![t] = @ - 1] /\ pc' = [pc EXCEPT ![t] = "secStart"]
  ELSE pc' = [pc EXCEPT ![t] = "secDone"] /\ UNCHANGED retry

(* while (m_flags == PINKEY_MISSING && retryCount--) *)
SecureLoop(t) ==
  IF flags[t] = "PINKEY" /\ retry[t] > 0
  THEN retry' = [retry EXCEPT ![t] = @ - 1] /\ pc' = [pc EXCEPT ![t] = "secStart"]
  ELSE pc' = [pc EXCEPT ![t] = "secDone"] /\ UNCHANGED retry

(* startSecurity() succeeded, or found a procedure under way (EALREADY). *)
SecureStart(t) ==
  /\ pc[t] = "secStart"
  /\ connHandle[cur[t]] # None /\ link[connHandle[cur[t]]] # None
  /\ sm' = sm \cup {connHandle[cur[t]]}
  /\ pc' = [pc EXCEPT ![t] = "secWait"]
  /\ UNCHANGED <<clientVars, cur, flags, notified, retry, released, initiating,
                 cancel, link, up, terminating, hangup, hostVars, devVars>>

(* startSecurity() failed: not connected, or no memory for a procedure. *)
SecureStartFails(t) ==
  /\ pc[t] = "secStart"
  /\ connHandle[cur[t]] \notin sm
  /\ SecureLoop(t)
  /\ UNCHANGED <<clientVars, cur, flags, notified, released, gapVars, hostVars, devVars>>

(* taskWait(FOREVER) returns. *)
SecureWoken(t) ==
  /\ pc[t] = "secWait" /\ notified[t]
  /\ notified' = [notified EXCEPT ![t] = FALSE]
  /\ SecureLoop(t)
  /\ UNCHANGED <<clientVars, cur, flags, released, gapVars, hostVars, devVars>>

(* m_pTaskData = nullptr; return taskData.m_flags == 0; *)
SecureReturn(t) ==
  /\ pc[t] = "secDone"
  /\ pTaskData' = [pTaskData EXCEPT ![cur[t]] = None]
  /\ Return(t)
  /\ UNCHANGED <<alive, config, connHandle, termFails, secAttempt, gapVars,
                 hpc, ev, hTask, hrc, devVars>>

(* secureConnection(true) *)
SecureAsync(c) ==
  /\ pc[Owner[c]] = "idle" /\ c \in alive
  /\ \/ /\ isConnected(c) /\ link[connHandle[c]] # None
        /\ secAttempt[c] < MaxAttempts
        /\ sm' = sm \cup {connHandle[c]}
        /\ secAttempt' = [secAttempt EXCEPT ![c] = @ + 1]
     \/ /\ connHandle[c] \notin sm
        /\ secAttempt' = [secAttempt EXCEPT ![c] = 0]
        /\ UNCHANGED sm
  /\ UNCHANGED <<alive, config, connHandle, pTaskData, termFails, taskVars, initiating,
                 cancel, link, up, terminating, hangup, hostVars, devVars>>

(* disconnect() *)
Disconnect(c) ==
  /\ pc[Owner[c]] = "idle" /\ c \in alive
  /\ GapTerminate(connHandle[c])
  /\ UNCHANGED <<clientVars, taskVars, initiating, cancel, link, up, sm, hostVars, devVars>>

(* deleteClient() called by the application *)
AppDelete(c) ==
  /\ pc[Owner[c]] = "idle" /\ c \in alive
  /\ DeletePending \/ ~(config[c].asyncConnect /\ Pending(c))
  /\ pc' = [pc EXCEPT ![Owner[c]] = "delConnected"]
  /\ cur' = [cur EXCEPT ![Owner[c]] = c]
  /\ UNCHANGED <<clientVars, flags, notified, retry, released, gapVars, hostVars, devVars>>

(* A task inside deleteClient() *)
TaskDelete(t) ==
  /\ pc[t] \in DeletePlaces
  /\ \E n \in DeletePlaces \cup {"delDone"} :
       /\ DeleteStep(cur[t], pc[t], n)
       /\ IF n = "delDone"
          THEN Return(t)
          ELSE /\ pc' = [pc EXCEPT ![t] = n]
               /\ UNCHANGED <<cur, flags, notified, retry, released, hLive>>
  /\ UNCHANGED <<connHandle, pTaskData, termFails, secAttempt, initiating, link, up, sm,
                 hpc, ev, hTask, hrc, devVars>>

(* A task is about to touch a client that somebody freed under it. *)
DanglingTask(t) ==
  pc[t] \notin {"idle", "connWait", "secWait", "delConnected"} /\ cur[t] \notin alive

TaskFault(t) ==
  /\ DanglingTask(t)
  /\ fault' = TRUE
  /\ UNCHANGED <<clientVars, taskVars, gapVars, hostVars, synced, resetting>>

-----------------------------------------------------------------------------
(* The host task, outside the handler: what the controller reports. *)

Dispatch(type, c, h, status) ==
  /\ hpc = "idle"
  /\ hpc' = "dispatch"
  /\ ev' = [type |-> type, arg |-> c, handle |-> h, status |-> status]
  /\ UNCHANGED <<hTask, hLive, hrc>>

(* ble_gap_rx_conn_complete(): the connection exists, CONNECT comes later. *)
ConnComplete(h) ==
  /\ hpc = "idle" /\ ~resetting
  /\ initiating # None /\ link[h] = None
  /\ link' = [link EXCEPT ![h] = initiating]
  /\ initiating' = None
  /\ cancel' = FALSE
  /\ UNCHANGED <<clientVars, taskVars, up, terminating, hangup, sm, hostVars, devVars>>

(* ble_gap_event_connect_call(), when the peer's version is known *)
ReportConnect(h) ==
  /\ ~resetting /\ link[h] # None /\ h \notin up
  /\ up' = up \cup {h}
  /\ Dispatch("CONNECT", link[h], h, "OK")
  /\ UNCHANGED <<clientVars, taskVars, initiating, cancel, link, terminating, hangup,
                 sm, devVars>>

(* ble_gap_master_connect_cancelled() and ..._failure(): the procedure is  *)
(* over before its callback is told.                                       *)
ConnFailed ==
  /\ initiating # None
  /\ initiating' = None
  /\ cancel' = FALSE
  /\ Dispatch("CONNECT", initiating, None, IF cancel THEN "EFAIL" ELSE "ETIMEOUT")
  /\ UNCHANGED <<clientVars, taskVars, link, up, terminating, hangup, sm, devVars>>

(* ble_gap_conn_broken(): the connection is freed, then reported. *)
ConnBroken(h) ==
  /\ link[h] # None
  /\ \E reason \in IF resetting THEN {"RESET"} ELSE {"ESTABLISH", "REMOTE"} :
       Dispatch("DISCONNECT", link[h], h, reason)
  /\ link' = [link EXCEPT ![h] = None]
  /\ up' = up \ {h}
  /\ terminating' = terminating \ {h}
  /\ hangup' = hangup \ {h}
  /\ sm' = sm \ {h}
  /\ UNCHANGED <<clientVars, taskVars, initiating, cancel, devVars>>

(* A disconnection complete with an error: ble_gap_rx_disconn_complete() *)
TermFailed(h) ==
  /\ ~resetting /\ h \in hangup
  /\ hangup' = hangup \ {h}
  /\ Dispatch("TERM_FAILURE", link[h], h, "EFAIL")
  /\ UNCHANGED <<clientVars, taskVars, initiating, cancel, link, up, terminating, sm, devVars>>

(* The end of a security procedure: ble_gap_enc_event() *)
EncChange(h) ==
  /\ ~resetting /\ h \in sm
  /\ sm' = sm \ {h}
  /\ \E status \in {"OK", "PINKEY", "EFAIL"} : Dispatch("ENC_CHANGE", link[h], h, status)
  /\ UNCHANGED <<clientVars, taskVars, initiating, cancel, link, up, terminating, hangup,
                 devVars>>

(* ble_gap_identity_event(), while the keys of a pairing are persisted *)
IdentityResolved(h) ==
  /\ ~resetting /\ h \in sm
  /\ Dispatch("IDENTITY", link[h], h, "OK")
  /\ UNCHANGED <<clientVars, taskVars, gapVars, devVars>>

(* The MTU was exchanged, by either side. *)
MtuChanged(h) ==
  /\ ~resetting /\ link[h] # None
  /\ Dispatch("MTU", link[h], h, "OK")
  /\ UNCHANGED <<clientVars, taskVars, gapVars, devVars>>

(* ble_hs_reset(): connections are broken, then the procedure fails, then   *)
(* NimBLEDevice::onReset() is called.                                      *)
ResetBegin ==
  /\ hpc = "idle" /\ synced /\ ~resetting
  /\ resetting' = TRUE
  /\ UNCHANGED <<clientVars, taskVars, gapVars, hostVars, synced, fault>>

ResetEnd ==
  /\ hpc = "idle" /\ resetting
  /\ \A h \in Handles : link[h] = None
  /\ initiating = None
  /\ synced' = FALSE
  /\ resetting' = FALSE
  /\ UNCHANGED <<clientVars, taskVars, gapVars, hostVars, fault>>

(* NimBLEDevice::onSync() *)
Sync ==
  /\ hpc = "idle" /\ ~synced /\ ~resetting
  /\ synced' = TRUE
  /\ UNCHANGED <<clientVars, taskVars, gapVars, hostVars, resetting, fault>>

-----------------------------------------------------------------------------
(* NimBLEClient::handleGapEvent(), run by the host task. *)

(* The handler is about to touch a client that somebody freed under it: the *)
(* first thing it does is to read m_pTaskData through its argument.  Only   *)
(* DISCONNECT then looks the client up by the handle.                      *)
DanglingArgument ==
  /\ hpc \notin {"idle", "release", "delConnected"} /\ ev.arg \notin alive
  /\ hpc = "entered" => ev.type # "DISCONNECT"

HostFault ==
  /\ DanglingArgument
  /\ fault' = TRUE
  /\ UNCHANGED <<clientVars, taskVars, gapVars, hostVars, synced, resetting>>

(* NimBLETaskData* pTaskData = pClient->m_pTaskData; *)
Enter ==
  /\ hpc = "dispatch"
  /\ hpc' = "entered"
  /\ hTask' = pTaskData[ev.arg]
  /\ hLive' = (pTaskData[ev.arg] # None)
  /\ UNCHANGED <<clientVars, taskVars, gapVars, ev, hrc, devVars>>

(* An event of the given type is in the handler's switch. *)
Handling(type) == hpc = "entered" /\ ev.type = type

(* On to the next place of the handler with rc, or straight out of it. *)
Break(step, rc) == hpc' = step /\ hrc' = rc /\ UNCHANGED <<hTask, hLive>>

ReturnZero ==
  /\ hpc' = IF ev.type = "CONNECT" THEN "linkEstab" ELSE "idle"
  /\ ev' = IF ev.type = "CONNECT" THEN ev ELSE NoEvent
  /\ hTask' = None /\ hLive' = FALSE /\ hrc' = "OK"

(* BLE_GAP_EVENT_DISCONNECT up to the onDisconnect() callback; the client  *)
(* is the one that holds the handle.  No such client: nothing is done.     *)
HandleDisconnect ==
  /\ Handling("DISCONNECT")
  /\ \/ \E c \in alive :
          /\ connHandle[c] = ev.handle
          /\ Break("onDisconnect", ev.status)
          /\ ev' = [ev EXCEPT !.arg = c]
          /\ synced' = (synced /\ ev.status # "RESET")
          /\ termFails' = [termFails EXCEPT ![c] = 0]
          /\ secAttempt' = [secAttempt EXCEPT ![c] = 0]
     \/ /\ \A c \in alive : connHandle[c] # ev.handle
        /\ ReturnZero
        /\ UNCHANGED <<synced, termFails, secAttempt>>
  /\ UNCHANGED <<alive, config, connHandle, pTaskData, taskVars, gapVars, resetting, fault>>

(* Mutant: the handle stays in the client after its connection ended. *)
FinishDisconnectKeepsHandle ==
  /\ hpc = "onDisconnect"
  /\ hpc' = "selfDelete"
  /\ UNCHANGED <<clientVars, taskVars, gapVars, ev, hTask, hLive, hrc, devVars>>

(* onDisconnect() has returned: m_connHandle = BLE_HS_CONN_HANDLE_NONE; *)
FinishDisconnect ==
  /\ hpc = "onDisconnect"
  /\ connHandle' = [connHandle EXCEPT ![ev.arg] = None]
  /\ hpc' = "selfDelete"
  /\ UNCHANGED <<alive, config, pTaskData, termFails, secAttempt, taskVars, gapVars,
                 ev, hTask, hLive, hrc, devVars>>

(* if (m_config.deleteOnDisconnect): left to the connect() that waits for   *)
(* this connection, or on to deleteClient()                                *)
SelfDeleteOnDisconnect ==
  /\ hpc = "selfDelete"
  /\ \/ /\ ~config[ev.arg].deleteOnDisconnect
        /\ hpc' = "release" /\ UNCHANGED config
     \/ /\ config[ev.arg].deleteOnDisconnect
        /\ hTask # None /\ hrc = "ESTABLISH"
        /\ config' = [config EXCEPT ![ev.arg].deleteOnConnectFail = TRUE]
        /\ hpc' = "release"
     \/ /\ config[ev.arg].deleteOnDisconnect
        /\ ~(hTask # None /\ hrc = "ESTABLISH")
        /\ hpc' = "delConnected" /\ UNCHANGED config
  /\ UNCHANGED <<alive, connHandle, pTaskData, termFails, secAttempt, taskVars, gapVars,
                 ev, hTask, hLive, hrc, devVars>>

(* The handler inside deleteClient() *)
HostDelete ==
  /\ hpc \in DeletePlaces
  /\ \E n \in DeletePlaces \cup {"delDone"} :
       /\ DeleteStep(ev.arg, hpc, n)
       /\ hpc' = IF n = "delDone" THEN "release" ELSE n
  /\ UNCHANGED <<connHandle, pTaskData, termFails, secAttempt, taskVars, initiating, link,
                 up, sm, ev, hTask, hLive, hrc, devVars>>

(* Mutant: the record of a waiting task is not asked for. *)
UnexpectedIfConnected(c) == isConnected(c)

(* "If we aren't waiting for this connection response" *)
Unexpected(c) ==
  isConnected(c) \/ (~config[c].asyncConnect /\ pTaskData[c] = None)

(* Mutant: an unexpected connection is ignored instead of dropped. *)
IgnoreUnexpectedConnect ==
  /\ Handling("CONNECT") /\ Unexpected(ev.arg)
  /\ ReturnZero
  /\ UNCHANGED <<clientVars, taskVars, gapVars, devVars>>

HandleUnexpectedConnect ==
  /\ Handling("CONNECT") /\ Unexpected(ev.arg)
  /\ GapTerminate(ev.handle)
  /\ ReturnZero
  /\ UNCHANGED <<clientVars, taskVars, initiating, cancel, link, up, sm, devVars>>

(* A CONNECT that is waited for: a connection, or the end of the attempt,   *)
(* of which an asynchronous connect() is told by onConnectFail().          *)
HandleConnect ==
  /\ Handling("CONNECT") /\ ~Unexpected(ev.arg)
  /\ \/ ev.status = "OK" /\ Break("connected", "OK")
     \/ ev.status # "OK" /\ config[ev.arg].asyncConnect /\ Break("onConnectFail", ev.status)
     \/ ev.status # "OK" /\ ~config[ev.arg].asyncConnect /\ Break("release", ev.status)
  /\ UNCHANGED <<clientVars, taskVars, gapVars, ev, devVars>>

(* pClient->m_connHandle = event->connect.conn_handle; *)
StoreHandle ==
  /\ hpc = "connected"
  /\ connHandle' = [connHandle EXCEPT ![ev.arg] = ev.handle]
  /\ hpc' = "exchange"
  /\ UNCHANGED <<alive, config, pTaskData, termFails, secAttempt, taskVars, gapVars,
                 ev, hTask, hLive, hrc, devVars>>

(* exchangeMTU() when asked for, then either wait for the MTU or go on to   *)
(* the release.                                                            *)
ExchangeMTU ==
  /\ hpc = "exchange"
  /\ \/ config[ev.arg].exchangeMTU /\ ReturnZero
     \/ config[ev.arg].exchangeMTU /\ Break("release", "EFAIL") /\ UNCHANGED ev
     \/ ~config[ev.arg].exchangeMTU /\ Break("release", "OK") /\ UNCHANGED ev
  /\ UNCHANGED <<clientVars, taskVars, gapVars, devVars>>

(* onConnectFail() has returned: if (m_config.deleteOnConnectFail) *)
FinishConnectFail ==
  /\ hpc = "onConnectFail"
  /\ hpc' = IF config[ev.arg].deleteOnConnectFail THEN "delConnected" ELSE "release"
  /\ UNCHANGED <<clientVars, taskVars, gapVars, ev, hTask, hLive, hrc, devVars>>

(* The third failed termination resets the host, earlier ones are retried. *)
HandleTermFailure ==
  /\ Handling("TERM_FAILURE")
  /\ IF connHandle[ev.arg] # ev.handle
     THEN UNCHANGED <<termFails, terminating, hangup, resetting>>
     ELSE /\ termFails' = [termFails EXCEPT ![ev.arg] = IF @ < 3 THEN @ + 1 ELSE @]
          /\ IF termFails[ev.arg] + 1 > 2
             THEN resetting' = TRUE /\ UNCHANGED <<terminating, hangup>>
             ELSE GapTerminate(ev.handle) /\ UNCHANGED resetting
  /\ ReturnZero
  /\ UNCHANGED <<alive, config, connHandle, pTaskData, secAttempt, taskVars,
                 initiating, cancel, link, up, sm, synced, fault>>

(* Mutant: a failed encryption is not passed on to the waiter. *)
HandleEncChangeSuccessOnly ==
  /\ Handling("ENC_CHANGE")
  /\ \/ /\ connHandle[ev.arg] # ev.handle \/ ev.status # "OK"
        /\ ReturnZero
     \/ /\ connHandle[ev.arg] = ev.handle /\ ev.status = "OK"
        /\ Break("release", ev.status) /\ UNCHANGED ev
  /\ UNCHANGED <<clientVars, taskVars, gapVars, devVars>>

(* The peer lost its key: a single asynchronous attempt is repeated. *)
HandleEncChange ==
  /\ Handling("ENC_CHANGE")
  /\ \/ /\ connHandle[ev.arg] # ev.handle
        /\ ReturnZero
        /\ UNCHANGED <<secAttempt, sm>>
     \/ /\ connHandle[ev.arg] = ev.handle
        /\ Break("release", ev.status) /\ UNCHANGED ev
        /\ \/ /\ ev.status = "OK"
              /\ secAttempt' = [secAttempt EXCEPT ![ev.arg] = 0]
              /\ UNCHANGED sm
           \/ /\ ev.status = "PINKEY" /\ secAttempt[ev.arg] = 1
              /\ \/ /\ secAttempt' = [secAttempt EXCEPT ![ev.arg] = 2]
                    /\ sm' = sm \cup {ev.handle}
                 \/ /\ secAttempt' = [secAttempt EXCEPT ![ev.arg] = 0]
                    /\ UNCHANGED sm
           \/ /\ ev.status = "EFAIL" \/ (ev.status = "PINKEY" /\ secAttempt[ev.arg] # 1)
              /\ UNCHANGED <<secAttempt, sm>>
  /\ UNCHANGED <<alive, config, connHandle, pTaskData, termFails, taskVars, initiating,
                 cancel, link, up, terminating, hangup, devVars>>

(* IDENTITY_RESOLVED and MTU end with rc 0 and the release of a waiter. *)
HandleIdentity ==
  /\ Handling("IDENTITY")
  /\ Break("release", "OK")
  /\ UNCHANGED <<clientVars, taskVars, gapVars, ev, devVars>>

HandleMtu ==
  /\ Handling("MTU")
  /\ IF connHandle[ev.arg] = ev.handle
     THEN Break("release", "OK") /\ UNCHANGED ev
     ELSE ReturnZero
  /\ UNCHANGED <<clientVars, taskVars, gapVars, devVars>>

(* taskRelease() on a record that still exists *)
Release ==
  /\ hpc = "release"
  /\ hTask # None /\ hLive
  /\ flags' = [flags EXCEPT ![hTask] = hrc]
  /\ notified' = [notified EXCEPT ![hTask] = TRUE]
  /\ released' = [released EXCEPT ![hTask] =
                   IF ev.type = "ENC_CHANGE" THEN "encryption" ELSE IF @ = "none" THEN "other" ELSE @]
  /\ ReturnZero
  /\ UNCHANGED <<clientVars, pc, cur, retry, gapVars, devVars>>

(* ... on a record whose function has returned: the write lands on a dead  *)
(* stack frame, which may by now be a new record of the same task, and the *)
(* handle read from it may still be the task's.                            *)
ReleaseDead ==
  /\ hpc = "release"
  /\ hTask # None /\ ~hLive
  /\ \/ /\ pc[hTask] # "idle"
        /\ \E rc \in {flags[hTask], hrc} : flags' = [flags EXCEPT ![hTask] = rc]
     \/ UNCHANGED flags
  /\ \/ /\ SharedBit \/ pc[hTask] # "idle"
        /\ notified' = [notified EXCEPT ![hTask] = TRUE]
     \/ UNCHANGED notified
  /\ ReturnZero
  /\ UNCHANGED <<clientVars, pc, cur, retry, released, gapVars, devVars>>

ReleaseNobody ==
  /\ hpc = "release" /\ hTask = None
  /\ ReturnZero
  /\ UNCHANGED <<clientVars, taskVars, gapVars, devVars>>

(* The LINK_ESTAB event is ignored. *)
HandleLinkEstab ==
  /\ hpc = "linkEstab"
  /\ hpc' = "idle" /\ ev' = NoEvent
  /\ UNCHANGED <<clientVars, taskVars, gapVars, hTask, hLive, hrc, devVars>>

-----------------------------------------------------------------------------
Init ==
  /\ synced = TRUE /\ resetting = FALSE
  /\ alive = {}
  /\ config = [c \in Clients |-> [asyncConnect |-> FALSE, exchangeMTU |-> FALSE,
                  deleteOnDisconnect |-> FALSE, deleteOnConnectFail |-> FALSE]]
  /\ connHandle = [c \in Clients |-> None]
  /\ pTaskData = [c \in Clients |-> None]
  /\ termFails = [c \in Clients |-> 0]
  /\ secAttempt = [c \in Clients |-> 0]
  /\ pc = [t \in Tasks |-> "idle"]
  /\ cur = [t \in Tasks |-> None]
  /\ flags = [t \in Tasks |-> "OK"]
  /\ notified = [t \in Tasks |-> FALSE]
  /\ retry = [t \in Tasks |-> 0]
  /\ released = [t \in Tasks |-> "none"]
  /\ initiating = None /\ cancel = FALSE
  /\ link = [h \in Handles |-> None]
  /\ up = {} /\ terminating = {} /\ hangup = {} /\ sm = {}
  /\ hpc = "idle" /\ ev = NoEvent
  /\ hTask = None /\ hLive = FALSE /\ hrc = "OK"
  /\ fault = FALSE

InCall(t) ==
  \/ ConnectConfig(t) \/ GapConnect(t) \/ GapConnectRefused(t) \/ ConnectPublish(t)
  \/ ConnectWoken(t) \/ ConnectTimeout(t) \/ ConnectCheck(t) \/ ConnectCancel(t)
  \/ ConnectUnpublish(t) \/ ConnectFailed(t) \/ ConnectReturn(t) \/ SecureStart(t)
  \/ SecureStartFails(t) \/ SecureWoken(t) \/ SecureReturn(t) \/ TaskDelete(t)

TaskStep(t) ==
  /\ ~fault /\ Undisturbed(cur[t])
  /\ \/ TaskFault(t)
     \/ ~DanglingTask(t) /\ InCall(t)

AppCall ==
  /\ ~fault
  /\ \/ \E t \in Tasks, c \in Clients : Undisturbed(c) /\ (Connect(t, c) \/ Secure(t, c))
     \/ \E c \in Clients :
          Undisturbed(c) /\ (CreateClient(c) \/ SecureAsync(c) \/ Disconnect(c) \/ AppDelete(c))

Stack ==
  /\ ~fault
  /\ \/ \E h \in Handles : ConnComplete(h) \/ ReportConnect(h) \/ ConnBroken(h)
                           \/ TermFailed(h) \/ EncChange(h) \/ IdentityResolved(h)
                           \/ MtuChanged(h)
     \/ ConnFailed \/ ResetBegin \/ ResetEnd \/ Sync

InHandler ==
  \/ Enter \/ HandleDisconnect \/ FinishDisconnect \/ SelfDeleteOnDisconnect
  \/ HostDelete \/ HandleUnexpectedConnect \/ HandleConnect \/ StoreHandle
  \/ ExchangeMTU \/ FinishConnectFail \/ HandleTermFailure \/ HandleEncChange
  \/ HandleIdentity \/ HandleMtu \/ Release \/ ReleaseDead \/ ReleaseNobody
  \/ HandleLinkEstab

Handler ==
  /\ ~fault
  /\ \/ HostFault
     \/ ~DanglingArgument /\ InHandler

(* What the program does after the use of freed memory is not defined:      *)
(* nothing more of it is modelled.                                         *)
Undefined == fault /\ UNCHANGED vars

Next == (\E t \in Tasks : TaskStep(t)) \/ AppCall \/ Stack \/ Handler \/ Undefined

Spec == Init /\ [][Next]_vars

(* Fairness: tasks and the host task are scheduled; the event queue is a     *)
(* FIFO, so the end of a security procedure (at the latest its 30 s timer)  *)
(* is not overtaken forever; a host reset, once begun, runs to its end.     *)
Fairness ==
  /\ \A t \in Tasks : WF_vars(TaskStep(t))
  /\ WF_vars(Handler)
  /\ \A h \in Handles : SF_vars(~fault /\ EncChange(h))
  /\ \A h \in Handles : WF_vars(~fault /\ resetting /\ ConnBroken(h))
  /\ WF_vars(~fault /\ resetting /\ ConnFailed)
  /\ WF_vars(~fault /\ ResetEnd)

FairSpec == Spec /\ Fairness

-----------------------------------------------------------------------------
(* Safety *)

Published == {"connWait", "connTimeout", "connCancel", "connWoken",
              "secStart", "secWait", "secDone"}

(* A client's m_connHandle is a connection the host still has, opened for   *)
(* that client, or one whose DISCONNECT event the handler is working on:    *)
(* neither a host reset, nor a late CONNECT, nor the reuse of a handle      *)
(* leaves a client with another connection's handle.                       *)
ConnHandleLive ==
  \A c \in alive : isConnected(c) =>
    \/ connHandle[c] \in up /\ link[connHandle[c]] = c
    \/ /\ ev.type = "DISCONNECT" /\ ev.handle = connHandle[c]
       /\ hpc \in {"dispatch", "entered", "onDisconnect"}

(* Every connection the client code was told of is held by an existing     *)
(* client or is being terminated: the connections the handler refuses are  *)
(* not leaked, and none loses its client to a deletion.                    *)
NoOrphanLink ==
  \A h \in up :
    \/ h \in terminating
    \/ \E c \in alive : connHandle[c] = h
    \/ /\ ev.type = "CONNECT" /\ ev.handle = h
       /\ hpc \in {"dispatch", "entered", "connected"}

(* While a task waits in a call on a client, that client exists and points  *)
(* to the task's record: no event, callback or deleteClient() frees it or   *)
(* makes it unreachable for the release.                                   *)
WaiterPublished ==
  \A t \in Tasks : pc[t] \in Published => cur[t] \in alive /\ pTaskData[cur[t]] = t

(* A task blocked without timeout in secureConnection() has its answer      *)
(* ahead of it: notified already, a security procedure running on the       *)
(* client's connection, or the event that ends one on its way to release it. *)
NoLostWakeup ==
  \A t \in Tasks : pc[t] = "secWait" =>
    \/ notified[t]
    \/ connHandle[cur[t]] \in sm /\ link[connHandle[cur[t]]] = cur[t]
    \/ /\ ev.type \in {"DISCONNECT", "ENC_CHANGE"} /\ ev.handle = connHandle[cur[t]]
       /\ \/ hpc = "dispatch"
          \/ hpc = "entered" /\ hTask = t /\ hLive
    \/ /\ hpc \in {"onDisconnect", "selfDelete", "release"} \cup DeletePlaces
       /\ hTask = t /\ hLive

(* deleteClient() and the self-deletion never free a client that is         *)
(* connected or that a task waits on, although they test before they free. *)
DeletedOnlyWhenIdle ==
  [][\A c \in alive \ alive' : ~isConnected(c)' /\ pTaskData[c] = None]_vars

(* Every blocking call returns: connect() at its timeout at the latest,     *)
(* secureConnection() when the procedure or the connection ends.           *)
CallsReturn ==
  \A t \in Tasks : pc[t] # "idle" ~> pc[t] = "idle" \/ fault

-----------------------------------------------------------------------------
(* What the documentation says and the code does not keep *)

(* NimBLEUtils::taskWait() "True if the task completed": the notification   *)
(* that ends a wait belongs to the record that is waited on.               *)
WaitEndedByRelease ==
  \A t \in Tasks : pc[t] \in {"connWait", "secWait"} /\ notified[t] => released[t] # "none"

(* secureConnection() "will block until the connection is secured": a       *)
(* successful return was released by an encryption change.                 *)
SecureMeansEncrypted ==
  \A t \in Tasks : pc[t] = "secDone" /\ flags[t] = "OK" => released[t] = "encryption"

(* "save a copy in case client is deleted": nobody goes on with a client     *)
(* that was deleted.                                                       *)
NoUseAfterDelete == ~fault
=============================================================================
