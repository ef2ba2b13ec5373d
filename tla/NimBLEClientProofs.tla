------------------------- MODULE NimBLEClientProofs -------------------------
(***************************************************************************)
(* The safety properties of NimBLEClient hold for any number of clients,   *)
(* tasks and connections.  IInv holds whatever the tasks do between two     *)
(* steps of the handler, and gives the theorems on types, handles and      *)
(* wakeups.  That a waiting task's client exists (WInv) needs tasks that   *)
(* leave a client alone while the handler decides on it; that no deletion  *)
(* frees a connection (DInv) also needs an application that does not       *)
(* delete a client whose asynchronous attempt is pending.                  *)
(***************************************************************************)
EXTENDS NimBLEClient, TLAPS

(* A task inside a call is inside a call on a client of its own. *)
CurInv == \A t \in Tasks : pc[t] # "idle" => cur[t] \in Clients /\ Owner[cur[t]] = t

(* A free connection slot has no state left. *)
LinkInv == \A h \in Handles :
  link[h] = None => h \notin up /\ h \notin terminating /\ h \notin hangup /\ h \notin sm

(* What the stack had done before it called the handler still holds: only   *)
(* the host task changes connections.                                      *)
EvInv ==
  /\ hpc # "idle" => ev \in Event
  /\ hpc = "onDisconnect" => ev.type = "DISCONNECT"
  /\ hpc = "connected" => ev.type = "CONNECT" /\ ev.status = "OK"
  /\ hpc \in {"dispatch", "entered", "onDisconnect"} /\ ev.type = "DISCONNECT" =>
       /\ ev.handle \in Handles /\ link[ev.handle] = None
       /\ \A c \in alive : connHandle[c] = ev.handle => c = ev.arg
  /\ hpc \in {"dispatch", "entered", "connected"} /\ ev.type = "CONNECT" /\ ev.status = "OK" =>
       /\ ev.handle \in up /\ link[ev.handle] = ev.arg
       /\ \A c \in alive : connHandle[c] # ev.handle
  /\ hpc \in {"dispatch", "entered"} /\ ev.type = "CONNECT" /\ ev.status # "OK" =>
       ev.handle = None
  /\ hpc \in {"dispatch", "entered"} /\ ev.type \notin {"CONNECT", "DISCONNECT"} =>
       ev.handle \in Handles /\ link[ev.handle] = ev.arg

(* Where the handler stores a new handle or deletes, its client has none,   *)
(* and where it clears one, none but the event's: nobody else writes one.  *)
HostInv ==
  /\ hpc \in {"selfDelete", "onConnectFail", "connected"} \cup DeletePlaces =>
       connHandle[ev.arg] = None
  /\ hpc = "onDisconnect" => connHandle[ev.arg] \in {ev.handle, None}

(* The published records are those of the tasks inside the publishing calls, *)
(* also in a client that was freed meanwhile.                              *)
RecordInv ==
  /\ \A t \in Tasks : pc[t] \in Published => pTaskData[cur[t]] = t
  /\ \A c \in Clients : pTaskData[c] # None =>
       pTaskData[c] = Owner[c] /\ cur[Owner[c]] = c /\ pc[Owner[c]] \in Published

(* The client of a task that waits for its encryption exists, and nobody is *)
(* about to free it.                                                       *)
SecureInv == \A t \in Tasks : pc[t] = "secWait" =>
  cur[t] \in alive /\ ~(hpc = "delFree" /\ ev.arg = cur[t])

(* A connect() that waits was called to wait. *)
Waiting == {"publish", "connWait", "connTimeout", "connCancel", "connWoken",
            "connCallback", "connFailed"}
SyncInv == \A t \in Tasks : pc[t] \in Waiting => ~config[cur[t]].asyncConnect

IInv == /\ TypeOK /\ CurInv /\ LinkInv /\ EvInv /\ HostInv /\ RecordInv /\ SecureInv
        /\ SyncInv /\ ConnHandleLive /\ NoLostWakeup

(* The handler frees a client only if nobody waits on it, still. *)
FreeInv == hpc = "delFree" => pTaskData[ev.arg] = None

WInv == FreeInv /\ WaiterPublished

(* Nothing connects the client a task is deleting. *)
DeleteInv == \A t \in Tasks : pc[t] \in DeletePlaces =>
  /\ ~(hpc = "connected" /\ ev.arg = cur[t])
  /\ config[cur[t]].asyncConnect => ~Pending(cur[t])
  /\ pc[t] \in {"delWaiter", "delFree"} => connHandle[cur[t]] = None

DInv == DeleteInv /\ NoOrphanLink

-----------------------------------------------------------------------------
(* Who writes what *)

(* deleteClient() frees its client, in its last step, and nothing else. *)
LEMMA DeleteStepFrees ==
  ASSUME NEW c, NEW p, NEW n, DeleteStep(c, p, n)
  PROVE  UNCHANGED alive \/ (p = "delFree" /\ alive' = alive \ {c})
  BY DEF DeleteStep

(* It clears no termination, and terminates only a connection that exists. *)
LEMMA DeleteStepLinks ==
  ASSUME NEW c, NEW p, NEW n, DeleteStep(c, p, n)
  PROVE  /\ terminating \subseteq terminating'
         /\ \A h \in Handles : h \in terminating' \/ h \in hangup' =>
              h \in terminating \/ h \in hangup \/ link[h] # None
  BY DEF DeleteStep, GapTerminate

(* Asking for a later deletion keeps the configurations well typed and does *)
(* not change how connect() was called. *)
LEMMA ConfigMarks ==
  ASSUME config \in [Clients -> Config], NEW c \in Clients
  PROVE  /\ [config EXCEPT ![c].deleteOnDisconnect = TRUE] \in [Clients -> Config]
         /\ [config EXCEPT ![c].deleteOnConnectFail = TRUE] \in [Clients -> Config]
         /\ \A d \in Clients :
              /\ [config EXCEPT ![c].deleteOnDisconnect = TRUE][d].asyncConnect
                   = config[d].asyncConnect
              /\ [config EXCEPT ![c].deleteOnConnectFail = TRUE][d].asyncConnect
                   = config[d].asyncConnect
  BY DEF Config

(* So deleteClient() does. *)
LEMMA DeleteStepConfig ==
  ASSUME config \in [Clients -> Config], NEW c \in Clients, NEW p, NEW n, DeleteStep(c, p, n)
  PROVE  /\ config' \in [Clients -> Config]
         /\ \A d \in Clients : config'[d].asyncConnect = config[d].asyncConnect
<1>1. \/ config' = [config EXCEPT ![c].deleteOnDisconnect = TRUE]
      \/ config' = [config EXCEPT ![c].deleteOnConnectFail = TRUE]
      \/ UNCHANGED config
  BY DEF DeleteStep
<1>2. CASE config' = [config EXCEPT ![c].deleteOnDisconnect = TRUE]
  BY <1>2, ConfigMarks
<1>3. CASE config' = [config EXCEPT ![c].deleteOnConnectFail = TRUE]
  BY <1>3, ConfigMarks
<1>4. CASE UNCHANGED config
  BY <1>4
<1> QED
  BY <1>1, <1>2, <1>3, <1>4

(* An application task never changes a client's handle, a connection or the *)
(* host task's event. *)
LEMMA TaskFrame ==
  ASSUME NEW t \in Tasks, TaskStep(t)
  PROVE  /\ UNCHANGED <<synced, resetting, connHandle, termFails, secAttempt, link, up,
                        hpc, ev, hTask, hrc>>
         /\ hLive' = hLive \/ hLive' = (hLive /\ hTask # t)
         /\ terminating \subseteq terminating' /\ sm \subseteq sm'
  BY DeleteStepLinks DEF TaskStep, TaskFault, InCall, ConnectConfig, GapConnect,
    GapConnectRefused, ConnectPublish, ConnectWoken, ConnectTimeout, ConnectCheck,
    ConnectCancel, ConnectUnpublish, ConnectFailed, ConnectReturn, SecureStart,
    SecureStartFails, SecureWoken, SecureReturn, TaskDelete, Return,
    clientVars, gapVars, hostVars, devVars

(* A task frees nothing but the client it deletes. *)
LEMMA TaskAlive ==
  ASSUME NEW t \in Tasks, TaskStep(t)
  PROVE  UNCHANGED alive \/ (pc[t] = "delFree" /\ alive' = alive \ {cur[t]})
<1>1. CASE TaskDelete(t)
  BY <1>1, DeleteStepFrees DEF TaskDelete
<1> QED
  BY <1>1 DEF TaskStep, TaskFault, InCall, ConnectConfig, GapConnect, GapConnectRefused,
    ConnectPublish, ConnectWoken, ConnectTimeout, ConnectCheck, ConnectCancel,
    ConnectUnpublish, ConnectFailed, ConnectReturn, SecureStart, SecureStartFails,
    SecureWoken, SecureReturn, clientVars

(* A task publishes its own record and withdraws it where a call ends. *)
LEMMA TaskRecords ==
  ASSUME TypeOK, NEW t \in Tasks, TaskStep(t)
  PROVE  \/ ConnectPublish(t) /\ cur[t] \in alive
         \/ ConnectUnpublish(t) \/ SecureReturn(t)
         \/ UNCHANGED pTaskData /\ (pc'[t] \in Published <=> pc[t] \in Published)
  BY DEF TypeOK, TaskStep, TaskFault, DanglingTask, InCall, ConnectConfig, GapConnect,
    GapConnectRefused, ConnectPublish, ConnectWoken, ConnectTimeout, ConnectCheck,
    ConnectCancel, ConnectUnpublish, ConnectFailed, ConnectReturn, SecureStart,
    SecureStartFails, SecureWoken, SecureReturn, SecureLoop, TaskDelete, DeleteStep,
    DeletePlaces, Return, Published, clientVars, taskVars

(* A task stays with its client until it returns, and leaves other tasks *)
(* alone. *)
LEMMA TaskOnly ==
  ASSUME TypeOK, NEW t \in Tasks, TaskStep(t)
  PROVE  /\ pc[t] # "idle" \/ UNCHANGED taskVars
         /\ pc'[t] = "idle" \/ cur'[t] = cur[t]
         /\ \A u \in Tasks \ {t} :
              pc'[u] = pc[u] /\ cur'[u] = cur[u] /\ notified'[u] = notified[u]
  BY DEF TypeOK, TaskStep, TaskFault, InCall, ConnectConfig, GapConnect, GapConnectRefused,
    ConnectPublish, ConnectWoken, ConnectTimeout, ConnectCheck, ConnectCancel,
    ConnectUnpublish, ConnectFailed, ConnectReturn, SecureStart, SecureStartFails,
    SecureWoken, SecureReturn, TaskDelete, DeletePlaces, PublishTaskData, Return,
    SecureLoop, taskVars

(* How a task comes to the places the invariants are about *)
LEMMA TaskPlaces ==
  ASSUME TypeOK, NEW t \in Tasks, TaskStep(t)
  PROVE  /\ pc'[t] = "secWait" => pc[t] = "secWait" \/ (SecureStart(t) /\ cur[t] \in alive)
         /\ pc'[t] \in {"publish", "connWait", "connTimeout", "connCancel", "connWoken",
                        "connCallback", "connFailed"} =>
              \/ pc[t] = "gapConnect" /\ ~config[cur[t]].asyncConnect
              \/ pc[t] \in {"publish", "connWait", "connTimeout", "connCancel", "connWoken",
                            "connCallback", "connFailed"}
         /\ pc'[t] \in DeletePlaces => pc[t] \in DeletePlaces \/ pc[t] = "connFailed"
         /\ pc'[t] \in {"delWaiter", "delFree"} =>
              pc[t] = "delWaiter" \/ connHandle[cur[t]] = None \/ pc'[t] = pc[t]
<1>1. CASE TaskDelete(t)
  BY <1>1 DEF TaskDelete, DeleteStep, DeletePlaces, isConnected, Return, TypeOK
<1>2. CASE TaskFault(t)
  BY <1>2 DEF TaskFault, taskVars
<1> QED
  BY <1>1, <1>2 DEF TypeOK, TaskStep, DanglingTask, InCall, ConnectConfig, GapConnect,
    GapConnectRefused, ConnectPublish, ConnectWoken, ConnectTimeout, ConnectCheck,
    ConnectCancel, ConnectUnpublish, ConnectFailed, ConnectReturn, SecureStart,
    SecureStartFails, SecureWoken, SecureReturn, Return, SecureLoop, DeletePlaces

(* The handler changes no task's position and no published record, and opens *)
(* or frees no connection. *)
LEMMA HandlerFrame ==
  ASSUME Handler
  PROVE  UNCHANGED <<pTaskData, pc, cur, retry, initiating, link, up>>
  BY DEF Handler, HostFault, InHandler, Enter, HandleDisconnect, FinishDisconnect,
    SelfDeleteOnDisconnect, HostDelete, HandleUnexpectedConnect, HandleConnect, StoreHandle,
    ExchangeMTU, FinishConnectFail, HandleTermFailure, HandleEncChange, HandleIdentity,
    HandleMtu, Release, ReleaseDead, ReleaseNobody, HandleLinkEstab, clientVars, taskVars,
    gapVars

(* It frees nothing but the client of its event. *)
LEMMA HandlerAlive ==
  ASSUME Handler
  PROVE  UNCHANGED alive \/ (hpc = "delFree" /\ alive' = alive \ {ev.arg})
<1>1. CASE HostDelete
  BY <1>1, DeleteStepFrees DEF HostDelete
<1> QED
  BY <1>1 DEF Handler, HostFault, InHandler, Enter, HandleDisconnect, FinishDisconnect,
    SelfDeleteOnDisconnect, HandleUnexpectedConnect, HandleConnect, StoreHandle,
    ExchangeMTU, FinishConnectFail, HandleTermFailure, HandleEncChange, HandleIdentity,
    HandleMtu, Release, ReleaseDead, ReleaseNobody, HandleLinkEstab, clientVars

(* The host outside the handler touches neither the clients nor the tasks. *)
LEMMA StackFrame ==
  ASSUME Stack
  PROVE  UNCHANGED <<clientVars, taskVars, hTask, hLive, hrc, fault>>
  BY DEF Stack, ConnComplete, ReportConnect, ConnBroken, TermFailed, EncChange,
    IdentityResolved, MtuChanged, ConnFailed, ResetBegin, ResetEnd, Sync, Dispatch,
    hostVars, devVars

(* A new call by the application leaves the connections and the host task *)
(* alone, and frees nothing. *)
LEMMA AppFrame ==
  ASSUME AppCall
  PROVE  /\ UNCHANGED <<initiating, link, up, hostVars, devVars>>
         /\ alive \subseteq alive' /\ terminating \subseteq terminating' /\ sm \subseteq sm'
  BY DEF AppCall, Connect, Secure, CreateClient, SecureAsync, Disconnect, AppDelete,
    GapTerminate, gapVars, clientVars

(* Only connect(), secureConnection() and deleteClient() make a task leave  *)
(* its idle state. *)
LEMMA AppOnly ==
  ASSUME TypeOK, AppCall
  PROVE  \/ \E t \in Tasks, c \in Clients :
              Undisturbed(c) /\ (Connect(t, c) \/ Secure(t, c))
         \/ \E c \in Clients : Undisturbed(c) /\ AppDelete(c)
         \/ UNCHANGED taskVars
  BY DEF AppCall, CreateClient, SecureAsync, Disconnect

(* Only createClient(), the end of a DISCONNECT and a CONNECT write          *)
(* m_connHandle.                                                           *)
LEMMA HandleWriters ==
  ASSUME Next
  PROVE  \/ \E c \in Clients : CreateClient(c)
         \/ FinishDisconnect
         \/ StoreHandle
         \/ UNCHANGED connHandle
<1>1. ASSUME NEW t \in Tasks, TaskStep(t) PROVE UNCHANGED connHandle
  BY <1>1, TaskFrame
<1>2. CASE AppCall
  BY <1>2 DEF AppCall, Connect, Secure, SecureAsync, Disconnect, AppDelete, clientVars
<1>3. CASE Stack
  BY <1>3, StackFrame DEF clientVars
<1>4. CASE Handler
  BY <1>4 DEF Handler, HostFault, InHandler, Enter, HandleDisconnect, SelfDeleteOnDisconnect,
    HostDelete, HandleUnexpectedConnect, HandleConnect, ExchangeMTU, FinishConnectFail,
    HandleTermFailure, HandleEncChange, HandleIdentity, HandleMtu, Release, ReleaseDead,
    ReleaseNobody, HandleLinkEstab, clientVars
<1>5. CASE Undefined
  BY <1>5 DEF Undefined, vars, clientVars
<1> QED
  BY <1>1, <1>2, <1>3, <1>4, <1>5 DEF Next

-----------------------------------------------------------------------------
(* Types *)

(* A returning function leaves its task's variables well typed. *)
LEMMA ReturnType ==
  ASSUME TypeOK, NEW t \in Tasks, Return(t)
  PROVE  /\ pc' \in [Tasks -> PCs] /\ cur' \in [Tasks -> Clients \cup {None}]
         /\ flags' \in [Tasks -> RC] /\ notified' \in [Tasks -> BOOLEAN]
         /\ retry' \in [Tasks -> 0..1] /\ released' \in [Tasks -> Releases]
         /\ hLive' \in BOOLEAN
  BY ModesAssumption DEF TypeOK, Return, PCs, RC, Releases

(* Storing the arguments of connect() keeps the configurations well typed. *)
LEMMA ConfigModesType ==
  ASSUME config \in [Clients -> Config], NEW c \in Clients, NEW a \in BOOLEAN, NEW b \in BOOLEAN
  PROVE  [config EXCEPT ![c].asyncConnect = a, ![c].exchangeMTU = b] \in [Clients -> Config]
  BY DEF Config

(* deleteClient() keeps what it writes well typed. *)
LEMMA DeleteStepType ==
  ASSUME TypeOK, NEW c \in Clients, NEW p, NEW n, DeleteStep(c, p, n)
  PROVE  /\ alive' \subseteq Clients /\ config' \in [Clients -> Config]
         /\ cancel' \in BOOLEAN
         /\ terminating' \subseteq Handles /\ hangup' \subseteq Handles
<1>1. config' \in [Clients -> Config]
  BY DeleteStepConfig DEF TypeOK
<1>2. alive' \subseteq Clients /\ cancel' \in BOOLEAN
  BY DEF TypeOK, DeleteStep, GapConnCancel
<1>3. terminating' \subseteq Handles /\ hangup' \subseteq Handles
  BY DEF TypeOK, DeleteStep, GapTerminate
<1> QED
  BY <1>1, <1>2, <1>3

(* Going on to the next place keeps the handler well typed. *)
LEMMA BreakType ==
  ASSUME TypeOK, NEW step \in HostPCs, NEW rc \in RC, Break(step, rc)
  PROVE  hpc' \in HostPCs /\ hTask' \in Tasks \cup {None} /\ hLive' \in BOOLEAN /\ hrc' \in RC
  BY DEF TypeOK, Break

(* So does leaving the handler. *)
LEMMA ReturnZeroType ==
  ASSUME TypeOK, ReturnZero
  PROVE  /\ hpc' \in HostPCs /\ ev' \in Event \cup {NoEvent}
         /\ hTask' \in Tasks \cup {None} /\ hLive' \in BOOLEAN /\ hrc' \in RC
  BY DEF TypeOK, ReturnZero, HostPCs, RC

(* A step inside a call keeps every variable well typed. *)
LEMMA TypeTask ==
  ASSUME TypeOK, CurInv, NEW t \in Tasks, TaskStep(t)
  PROVE  TypeOK'
<1> USE OwnerAssumption, ModesAssumption, NoneAssumption
    DEF TypeOK, clientVars, gapVars, hostVars, devVars
<1>1. CASE GapConnect(t)
  <2>1. initiating' \in Clients \cup {None} /\ cancel' \in BOOLEAN
    BY <1>1 DEF GapConnect
  <2>2. CASE Return(t)
    BY <1>1, <2>1, <2>2, ReturnType DEF GapConnect
  <2>3. CASE pc' = [pc EXCEPT ![t] = "publish"] /\ UNCHANGED <<cur, flags, notified, retry, released, hLive>>
    BY <1>1, <2>1, <2>3 DEF GapConnect, PCs
  <2> QED
    BY <1>1, <2>2, <2>3 DEF GapConnect
<1>2. CASE GapConnectRefused(t)
  BY <1>2, ReturnType DEF GapConnectRefused
<1>3. CASE ConnectPublish(t)
  <2>1. notified' \in [Tasks -> BOOLEAN]
    BY <1>3 DEF ConnectPublish, PublishTaskData
  <2>2. /\ pc' \in [Tasks -> PCs] /\ flags' \in [Tasks -> RC]
        /\ pTaskData' \in [Clients -> Tasks \cup {None}]
        /\ released' \in [Tasks -> Releases]
    BY <1>3 DEF ConnectPublish, PublishTaskData, PCs, RC, Releases
  <2> QED
    BY <1>3, <2>1, <2>2 DEF ConnectPublish
<1>4. CASE ConnectWoken(t)
  BY <1>4 DEF ConnectWoken, PCs
<1>5. CASE ConnectTimeout(t)
  BY <1>5 DEF ConnectTimeout, PCs
<1>6. CASE ConnectCheck(t)
  BY <1>6 DEF ConnectCheck, PCs, RC
<1>7. CASE ConnectCancel(t)
  BY <1>7 DEF ConnectCancel, GapConnCancel, PCs, RC
<1>8. CASE ConnectUnpublish(t)
  BY <1>8 DEF ConnectUnpublish, PCs
<1>9. CASE ConnectFailed(t)
  <2>1. CASE Return(t)
    BY <1>9, <2>1, ReturnType DEF ConnectFailed
  <2>2. CASE ~Return(t)
    BY <1>9, <2>2 DEF ConnectFailed, PCs, DeletePlaces
  <2> QED
    BY <2>1, <2>2
<1>10. CASE ConnectReturn(t)
  BY <1>10, ReturnType DEF ConnectReturn
<1>11. CASE SecureStart(t)
  BY <1>11 DEF SecureStart, PCs, CurInv
<1>12. CASE SecureStartFails(t)
  BY <1>12 DEF SecureStartFails, SecureLoop, PCs
<1>13. CASE SecureWoken(t)
  BY <1>13 DEF SecureWoken, SecureLoop, PCs
<1>14. CASE SecureReturn(t)
  BY <1>14, ReturnType DEF SecureReturn, CurInv
<1>15. CASE ConnectConfig(t)
  <2>1. PICK m \in ConnectModes :
          config' = [config EXCEPT ![cur[t]].asyncConnect = m.async, ![cur[t]].exchangeMTU = m.mtu]
    BY <1>15 DEF ConnectConfig
  <2>2. m.async \in BOOLEAN /\ m.mtu \in BOOLEAN
    OBVIOUS
  <2>3. cur[t] \in Clients
    BY <1>15 DEF ConnectConfig, CurInv
  <2>4. config' \in [Clients -> Config]
    BY <2>1, <2>2, <2>3, ConfigModesType
  <2> QED
    BY <1>15, <2>4 DEF ConnectConfig, PCs
<1>16. CASE TaskDelete(t)
  <2>0. cur[t] \in Clients
    BY <1>16 DEF TaskDelete, CurInv, DeletePlaces
  <2>1. PICK n \in DeletePlaces \cup {"delDone"} :
          /\ DeleteStep(cur[t], pc[t], n)
          /\ IF n = "delDone"
             THEN Return(t)
             ELSE /\ pc' = [pc EXCEPT ![t] = n]
                  /\ UNCHANGED <<cur, flags, notified, retry, released, hLive>>
    BY <1>16 DEF TaskDelete
  <2>2. /\ alive' \subseteq Clients /\ config' \in [Clients -> Config] /\ cancel' \in BOOLEAN
        /\ terminating' \subseteq Handles /\ hangup' \subseteq Handles
    BY <2>0, <2>1, DeleteStepType
  <2>3. CASE n = "delDone"
    BY <1>16, <2>1, <2>2, <2>3, ReturnType DEF TaskDelete
  <2>4. CASE n # "delDone"
    BY <1>16, <2>1, <2>2, <2>4 DEF TaskDelete, PCs
  <2> QED
    BY <2>3, <2>4
<1>17. CASE TaskFault(t)
  BY <1>17 DEF TaskFault, taskVars
<1> QED
  BY <1>1, <1>2, <1>3, <1>4, <1>5, <1>6, <1>7, <1>8, <1>9, <1>10, <1>11, <1>12, <1>13,
     <1>14, <1>15, <1>16, <1>17 DEF TaskStep, InCall

(* So does a new call, *)
LEMMA TypeApp ==
  ASSUME TypeOK, AppCall
  PROVE  TypeOK'
<1> USE OwnerAssumption, ModesAssumption, NoneAssumption
    DEF TypeOK, clientVars, gapVars, hostVars, devVars
<1>1. CASE \E t \in Tasks, c \in Clients : Connect(t, c)
  BY <1>1 DEF Connect, PCs
<1>2. CASE \E t \in Tasks, c \in Clients : Secure(t, c)
  BY <1>2 DEF Secure, PublishTaskData, PCs, RC, Releases
<1>3. CASE \E c \in Clients : CreateClient(c)
  BY <1>3 DEF CreateClient, taskVars, Config
<1>4. CASE \E c \in Clients : SecureAsync(c)
  BY <1>4 DEF SecureAsync, taskVars, isConnected
<1>5. CASE \E c \in Clients : Disconnect(c)
  BY <1>5 DEF Disconnect, GapTerminate, taskVars
<1>6. CASE \E c \in Clients : AppDelete(c)
  BY <1>6 DEF AppDelete, PCs, DeletePlaces
<1> QED
  BY <1>1, <1>2, <1>3, <1>4, <1>5, <1>6 DEF AppCall

(* an event raised by the host, *)
LEMMA TypeStack ==
  ASSUME TypeOK, LinkInv, Stack
  PROVE  TypeOK'
<1> USE NoneAssumption DEF TypeOK, clientVars, taskVars, gapVars, hostVars, devVars
<1>0. ASSUME NEW type \in EventTypes, NEW c \in Clients, NEW h \in Handles \cup {None},
             NEW status \in RC, Dispatch(type, c, h, status)
      PROVE  /\ hpc' \in HostPCs /\ ev' \in Event \cup {NoEvent}
             /\ hTask' \in Tasks \cup {None} /\ hLive' \in BOOLEAN /\ hrc' \in RC
  BY <1>0 DEF Dispatch, Event, HostPCs
<1>1. CASE \E h \in Handles : ConnComplete(h)
  <2>1. PICK h \in Handles : ConnComplete(h)
    BY <1>1
  <2>2. link' \in [Handles -> Clients \cup {None}]
    BY <2>1 DEF ConnComplete
  <2> QED
    BY <2>1, <2>2 DEF ConnComplete
<1>2. CASE \E h \in Handles : ReportConnect(h)
  BY <1>0, <1>2 DEF ReportConnect, EventTypes, RC
<1>3. CASE \E h \in Handles : ConnBroken(h)
  BY <1>0, <1>3 DEF ConnBroken, EventTypes, RC
<1>4. CASE \E h \in Handles : TermFailed(h)
  BY <1>0, <1>4 DEF TermFailed, LinkInv, EventTypes, RC
<1>5. CASE \E h \in Handles : EncChange(h)
  BY <1>0, <1>5 DEF EncChange, LinkInv, EventTypes, RC
<1>6. CASE \E h \in Handles : IdentityResolved(h)
  BY <1>0, <1>6 DEF IdentityResolved, LinkInv, EventTypes, RC
<1>7. CASE \E h \in Handles : MtuChanged(h)
  BY <1>0, <1>7 DEF MtuChanged, EventTypes, RC
<1>8. CASE ConnFailed
  BY <1>0, <1>8 DEF ConnFailed, EventTypes, RC
<1>9. CASE ResetBegin \/ ResetEnd \/ Sync
  BY <1>9 DEF ResetBegin, ResetEnd, Sync
<1> QED
  BY <1>1, <1>2, <1>3, <1>4, <1>5, <1>6, <1>7, <1>8, <1>9 DEF Stack

(* and a step of the handler. *)
LEMMA TypeHandler ==
  ASSUME TypeOK, EvInv, Handler
  PROVE  TypeOK'
<1> USE DEF TypeOK, clientVars, taskVars, gapVars, hostVars, devVars
<1>0. hpc # "idle" => /\ ev.arg \in Clients /\ ev.handle \in Handles \cup {None}
                      /\ ev.status \in RC /\ ev.type \in EventTypes
  BY DEF EvInv, Event
<1>1. CASE HostFault
  BY <1>1 DEF HostFault
<1>2. CASE HandleDisconnect
  <2> USE <1>0, <1>2 DEF HandleDisconnect, Handling
  <2>1. CASE \A c \in alive : connHandle[c] # ev.handle
    BY <2>1, ReturnZeroType
  <2>2. ASSUME NEW c \in alive, Break("onDisconnect", ev.status),
               ev' = [ev EXCEPT !.arg = c], synced' = (synced /\ ev.status # "RESET"),
               termFails' = [termFails EXCEPT ![c] = 0],
               secAttempt' = [secAttempt EXCEPT ![c] = 0]
        PROVE  TypeOK'
    <3>1. ev' \in Event
      BY <2>2 DEF EvInv, Event
    <3>2. hpc' \in HostPCs /\ hTask' \in Tasks \cup {None} /\ hLive' \in BOOLEAN /\ hrc' \in RC
      BY <2>2, BreakType DEF HostPCs
    <3>3. /\ termFails' \in [Clients -> 0..3] /\ secAttempt' \in [Clients -> 0..MaxAttempts]
          /\ synced' \in BOOLEAN
      BY <2>2, ModesAssumption
    <3> QED
      BY <3>1, <3>2, <3>3
  <2> QED
    BY <2>1, <2>2
<1>3. CASE FinishDisconnect
  BY <1>0, <1>3 DEF FinishDisconnect, HostPCs
<1>4. CASE HandleUnexpectedConnect
  BY <1>0, <1>4, ReturnZeroType DEF HandleUnexpectedConnect, Handling, GapTerminate
<1>5. CASE HandleConnect
  BY <1>0, <1>5, BreakType DEF HandleConnect, Handling, HostPCs, RC
<1>6. CASE StoreHandle
  <2>1. connHandle' \in [Clients -> Handles \cup {None}]
    BY <1>0, <1>6 DEF StoreHandle
  <2> QED
    BY <1>6, <2>1 DEF StoreHandle, HostPCs
<1>7. CASE HandleTermFailure
  <2>1. termFails' \in [Clients -> 0..3]
    BY <1>0, <1>7 DEF HandleTermFailure, Handling
  <2>2. terminating' \subseteq Handles /\ hangup' \subseteq Handles
    BY <1>0, <1>7 DEF HandleTermFailure, Handling, GapTerminate
  <2>3. resetting' \in BOOLEAN
    BY <1>7 DEF HandleTermFailure
  <2> QED
    BY <1>7, <2>1, <2>2, <2>3, ReturnZeroType DEF HandleTermFailure
<1>8. CASE HandleEncChange
  <2>1. secAttempt' \in [Clients -> 0..MaxAttempts]
    BY <1>0, <1>8, ModesAssumption DEF HandleEncChange, Handling
  <2>3. sm' \subseteq Handles
    BY <1>8 DEF HandleEncChange, Handling, EvInv
  <2>2. /\ hpc' \in HostPCs /\ ev' \in Event \cup {NoEvent}
        /\ hTask' \in Tasks \cup {None} /\ hLive' \in BOOLEAN /\ hrc' \in RC
    BY <1>0, <1>8, ReturnZeroType, BreakType DEF HandleEncChange, Handling, HostPCs
  <2> QED
    BY <1>8, <2>1, <2>2, <2>3 DEF HandleEncChange
<1>9. CASE HandleIdentity
  BY <1>0, <1>9, BreakType DEF HandleIdentity, Handling, HostPCs, RC
<1>10. CASE HandleMtu
  BY <1>0, <1>10, ReturnZeroType, BreakType DEF HandleMtu, Handling, HostPCs, RC
<1>11. CASE Release
  BY <1>0, <1>11, ReturnZeroType DEF Release, Releases
<1>12. CASE ReleaseDead
  <2>1. flags' \in [Tasks -> RC]
    BY <1>12 DEF ReleaseDead
  <2>2. notified' \in [Tasks -> BOOLEAN]
    BY <1>12 DEF ReleaseDead
  <2> QED
    BY <1>12, <2>1, <2>2, ReturnZeroType DEF ReleaseDead
<1>13. CASE ReleaseNobody
  BY <1>13, ReturnZeroType DEF ReleaseNobody
<1>14. CASE HandleLinkEstab
  BY <1>14 DEF HandleLinkEstab, HostPCs
<1>15. CASE Enter
  BY <1>0, <1>15 DEF Enter, HostPCs
<1>16. CASE SelfDeleteOnDisconnect
  <2>0. ev.arg \in Clients
    BY <1>0, <1>16 DEF SelfDeleteOnDisconnect
  <2>a. \/ config' = [config EXCEPT ![ev.arg].deleteOnConnectFail = TRUE]
        \/ config' = config
    BY <1>16 DEF SelfDeleteOnDisconnect
  <2>b. config \in [Clients -> Config]
    OBVIOUS
  <2>1. config' \in [Clients -> Config]
    <3> HIDE DEF TypeOK
    <3>1. [config EXCEPT ![ev.arg].deleteOnConnectFail = TRUE] \in [Clients -> Config]
      BY <2>0, <2>b, ConfigMarks
    <3> QED
      BY <2>a, <2>b, <3>1
  <2> QED
    BY <1>16, <2>1 DEF SelfDeleteOnDisconnect, HostPCs, DeletePlaces
<1>17. CASE HostDelete
  <2>0. ev.arg \in Clients
    BY <1>0, <1>17 DEF HostDelete, DeletePlaces
  <2>1. PICK n \in DeletePlaces \cup {"delDone"} :
          /\ DeleteStep(ev.arg, hpc, n)
          /\ hpc' = IF n = "delDone" THEN "release" ELSE n
    BY <1>17 DEF HostDelete
  <2>2. /\ alive' \subseteq Clients /\ config' \in [Clients -> Config] /\ cancel' \in BOOLEAN
        /\ terminating' \subseteq Handles /\ hangup' \subseteq Handles
    BY <2>0, <2>1, DeleteStepType
  <2> QED
    BY <1>17, <2>1, <2>2 DEF HostDelete, HostPCs
<1>18. CASE ExchangeMTU
  BY <1>0, <1>18, ReturnZeroType, BreakType DEF ExchangeMTU, HostPCs, RC
<1>19. CASE FinishConnectFail
  BY <1>19 DEF FinishConnectFail, HostPCs, DeletePlaces
<1> QED
  BY <1>1, <1>2, <1>3, <1>4, <1>5, <1>6, <1>7, <1>8, <1>9, <1>10, <1>11, <1>12, <1>13,
     <1>14, <1>15, <1>16, <1>17, <1>18, <1>19 DEF Handler, InHandler

(* Every step keeps every variable well typed. *)
LEMMA TypeNext ==
  ASSUME TypeOK, CurInv, LinkInv, EvInv, Next
  PROVE  TypeOK'
<1>1. CASE Undefined
  BY <1>1 DEF Undefined, vars, clientVars, taskVars, gapVars, hostVars, devVars, TypeOK
<1> QED
  BY <1>1, TypeTask, TypeApp, TypeStack, TypeHandler DEF Next


-----------------------------------------------------------------------------
(* The program counters *)

(* A task that is inside a call keeps a client of its own. *)
LEMMA CurNext ==
  ASSUME TypeOK, CurInv, Next
  PROVE  CurInv'
<1>1. ASSUME NEW t \in Tasks, TaskStep(t) PROVE CurInv'
  BY <1>1, TaskOnly DEF CurInv, taskVars
<1>2. CASE AppCall
  <2>1. ASSUME NEW t \in Tasks, NEW c \in Clients, Connect(t, c) \/ Secure(t, c)
        PROVE  CurInv'
    BY <2>1 DEF CurInv, Connect, Secure, TypeOK
  <2>2. ASSUME NEW c \in Clients, AppDelete(c) PROVE CurInv'
    BY <2>2, OwnerAssumption DEF CurInv, AppDelete, TypeOK
  <2>3. CASE UNCHANGED taskVars
    BY <2>3 DEF CurInv, taskVars
  <2> QED
    BY <1>2, <2>1, <2>2, <2>3, AppOnly
<1>3. CASE Stack
  BY <1>3, StackFrame DEF CurInv, taskVars
<1>4. CASE Handler
  BY <1>4, HandlerFrame DEF CurInv
<1>5. CASE Undefined
  BY <1>5 DEF CurInv, Undefined, vars, taskVars
<1> QED
  BY <1>1, <1>2, <1>3, <1>4, <1>5 DEF Next

-----------------------------------------------------------------------------
(* Connections *)

(* A freed connection leaves no flag behind. *)
LEMMA LinkNext ==
  ASSUME TypeOK, CurInv, LinkInv, EvInv, Next
  PROVE  LinkInv'
<1> USE NoneAssumption DEF LinkInv
<1>1. ASSUME NEW t \in Tasks, TaskStep(t) PROVE LinkInv'
  <2>1. UNCHANGED <<link, up>>
    BY <1>1, TaskFrame
  <2>2. CASE TaskDelete(t)
    BY <2>1, <2>2, DeleteStepLinks DEF TaskDelete
  <2>3. CASE SecureStart(t)
    BY <2>1, <2>3 DEF SecureStart
  <2>4. CASE UNCHANGED <<terminating, hangup, sm>>
    BY <2>1, <2>4
  <2> QED
    BY <1>1, <2>2, <2>3, <2>4 DEF TaskStep, TaskFault, InCall, ConnectConfig, GapConnect,
      GapConnectRefused, ConnectPublish, ConnectWoken, ConnectTimeout, ConnectCheck,
      ConnectCancel, ConnectUnpublish, ConnectFailed, ConnectReturn, SecureStartFails,
      SecureWoken, SecureReturn, gapVars
<1>2. CASE AppCall
  <2>1. UNCHANGED <<link, up>>
    BY <1>2, AppFrame
  <2>2. CASE \E c \in Clients : SecureAsync(c)
    BY <2>1, <2>2 DEF SecureAsync
  <2>3. CASE \E c \in Clients : Disconnect(c)
    BY <2>1, <2>3 DEF Disconnect, GapTerminate
  <2>4. CASE UNCHANGED gapVars
    BY <2>4 DEF gapVars
  <2> QED
    BY <1>2, <2>2, <2>3, <2>4 DEF AppCall, Connect, Secure, CreateClient, AppDelete
<1>3. CASE Stack
  <2>1. CASE \E h \in Handles : ConnComplete(h)
    BY <2>1 DEF ConnComplete, TypeOK
  <2>2. CASE \E h \in Handles : ReportConnect(h)
    BY <2>2 DEF ReportConnect, TypeOK
  <2>3. CASE \E h \in Handles : ConnBroken(h)
    BY <2>3 DEF ConnBroken, TypeOK
  <2>4. CASE \E h \in Handles : TermFailed(h) \/ EncChange(h)
    BY <2>4 DEF TermFailed, EncChange
  <2>5. CASE UNCHANGED <<link, up, terminating, hangup, sm>>
    BY <2>5
  <2> QED
    BY <1>3, <2>1, <2>2, <2>3, <2>4, <2>5
    DEF Stack, IdentityResolved, MtuChanged, ConnFailed, ResetBegin, ResetEnd, Sync, gapVars
<1>4. CASE Handler
  <2>1. UNCHANGED <<link, up>>
    BY <1>4, HandlerFrame
  <2>2. CASE HandleUnexpectedConnect
    BY <2>1, <2>2 DEF HandleUnexpectedConnect, GapTerminate
  <2>3. CASE HostDelete
    BY <2>1, <2>3, DeleteStepLinks DEF HostDelete
  <2>4. CASE HandleTermFailure
    BY <2>1, <2>4 DEF HandleTermFailure, GapTerminate
  <2>5. CASE HandleEncChange
    <3>1. link[ev.handle] = ev.arg /\ ev.arg \in Clients
      BY <2>5 DEF HandleEncChange, Handling, EvInv, Event
    <3> QED
      BY <2>1, <2>5, <3>1 DEF HandleEncChange
  <2>6. CASE UNCHANGED <<terminating, hangup, sm>>
    BY <2>1, <2>6
  <2> QED
    BY <1>4, <2>2, <2>3, <2>4, <2>5, <2>6 DEF Handler, HostFault, InHandler, Enter,
      HandleDisconnect, FinishDisconnect, SelfDeleteOnDisconnect, HandleConnect, StoreHandle,
      ExchangeMTU, FinishConnectFail, HandleIdentity, HandleMtu, Release, ReleaseDead,
      ReleaseNobody, HandleLinkEstab, gapVars
<1>5. CASE Undefined
  BY <1>5 DEF Undefined, vars, gapVars
<1> QED
  BY <1>1, <1>2, <1>3, <1>4, <1>5 DEF Next

-----------------------------------------------------------------------------
(* Who holds which connection *)

(* What a new call does to the clients' handles: a client that comes into   *)
(* existence has none.                                                     *)
LEMMA AppHandles ==
  ASSUME TypeOK, AppCall
  PROVE  \A c \in alive' : \/ connHandle'[c] = None
                           \/ c \in alive /\ connHandle'[c] = connHandle[c]
<1>1. CASE \E c \in Clients : CreateClient(c)
  BY <1>1 DEF CreateClient, TypeOK
<1>2. CASE UNCHANGED <<alive, connHandle>>
  BY <1>2
<1> QED
  BY <1>1, <1>2 DEF AppCall, Connect, Secure, SecureAsync, Disconnect, AppDelete, clientVars

(* No task invalidates what the host task knows of its event, *)
LEMMA EvTask ==
  ASSUME EvInv, NEW t \in Tasks, TaskStep(t)
  PROVE  EvInv'
<1>1. UNCHANGED <<hpc, ev, link, up, connHandle>>
  BY TaskFrame
<1>2. alive' \subseteq alive
  BY TaskAlive
<1> QED
  BY <1>1, <1>2 DEF EvInv

(* nor does a new call; *)
LEMMA EvApp ==
  ASSUME TypeOK, EvInv, AppCall
  PROVE  EvInv'
<1>1. UNCHANGED <<hpc, ev, link, up>>
  BY AppFrame DEF hostVars
<1>2. \A c \in alive' : ev.handle \in Handles /\ connHandle'[c] = ev.handle =>
        c \in alive /\ connHandle[c] = ev.handle
  BY AppHandles, NoneAssumption
<1>3. up \subseteq Handles
  BY DEF TypeOK
<1> QED
  BY <1>1, <1>2, <1>3 DEF EvInv

(* the host establishes it when it calls the handler, *)
LEMMA EvStack ==
  ASSUME TypeOK, LinkInv, EvInv, ConnHandleLive, TypeOK', Stack
  PROVE  EvInv'
<1> USE NoneAssumption
<1>0. UNCHANGED <<alive, connHandle>>
  BY StackFrame DEF clientVars
<1>1. ASSUME NEW h \in Handles, ConnComplete(h) \/ ReportConnect(h) \/ ConnBroken(h)
      PROVE  EvInv'
  <2>1. CASE ConnComplete(h)
    BY <2>1 DEF ConnComplete, hostVars, EvInv
  <2>2. CASE ReportConnect(h)
    <3>1. \A c \in alive : connHandle[c] # h
      BY <2>2 DEF ReportConnect, Dispatch, ConnHandleLive, isConnected
    <3>2. ev' \in Event
      BY <2>2 DEF ReportConnect, Dispatch, Event, EventTypes, RC, TypeOK
    <3> QED
      BY <1>0, <2>2, <3>1, <3>2 DEF ReportConnect, Dispatch, EvInv
  <2>3. CASE ConnBroken(h)
    <3>1. \A c \in alive : connHandle[c] = h => c = link[h]
      BY <2>3 DEF ConnBroken, Dispatch, ConnHandleLive, isConnected
    <3>2. ev' \in Event
      BY <2>3 DEF ConnBroken, Dispatch, Event, EventTypes, RC, TypeOK
    <3>3. link'[h] = None
      BY <2>3 DEF ConnBroken, TypeOK
    <3> QED
      BY <1>0, <2>3, <3>1, <3>2, <3>3 DEF ConnBroken, Dispatch, EvInv
  <2> QED
    BY <1>1, <2>1, <2>2, <2>3
<1>2. ASSUME NEW h \in Handles,
             TermFailed(h) \/ EncChange(h) \/ IdentityResolved(h) \/ MtuChanged(h)
      PROVE  EvInv'
  <2>1. UNCHANGED <<link, up>> /\ link[h] \in Clients
    BY <1>2 DEF TermFailed, EncChange, IdentityResolved, MtuChanged, gapVars, LinkInv, TypeOK
  <2>2. PICK type \in EventTypes \ {"CONNECT", "DISCONNECT"}, status \in RC :
          Dispatch(type, link[h], h, status)
    BY <1>2 DEF TermFailed, EncChange, IdentityResolved, MtuChanged, EventTypes, RC
  <2>3. ev' \in Event
    BY <2>1, <2>2 DEF Dispatch, Event
  <2> QED
    BY <2>1, <2>2, <2>3 DEF Dispatch, EvInv
<1>3. CASE ConnFailed
  <2>1. ev' \in Event
    BY <1>3 DEF ConnFailed, Dispatch, Event, EventTypes, RC, TypeOK
  <2> QED
    BY <1>3, <2>1 DEF ConnFailed, Dispatch, EvInv
<1>4. CASE ResetBegin \/ ResetEnd \/ Sync
  BY <1>4 DEF ResetBegin, ResetEnd, Sync, clientVars, gapVars, hostVars, EvInv
<1> QED
  BY <1>1, <1>2, <1>3, <1>4 DEF Stack

(* and the handler keeps it up to its end. *)
LEMMA EvHandler ==
  ASSUME TypeOK, EvInv, Handler
  PROVE  EvInv'
<1>0. hpc # "idle" => ev \in Event
  BY DEF EvInv
<1>1. CASE HandleDisconnect
  <2>1. CASE ReturnZero /\ ev.type = "DISCONNECT"
    BY <2>1 DEF ReturnZero, EvInv
  <2>2. ASSUME NEW c \in alive, connHandle[c] = ev.handle, Break("onDisconnect", ev.status),
               ev' = [ev EXCEPT !.arg = c]
        PROVE  EvInv'
    <3>1. c = ev.arg /\ ev \in Event /\ ev.type = "DISCONNECT"
      BY <1>1, <2>2, <1>0 DEF HandleDisconnect, Handling, EvInv
    <3>2. ev' = ev
      BY <2>2, <3>1 DEF Event
    <3>3. UNCHANGED <<alive, connHandle, link>>
      BY <1>1 DEF HandleDisconnect, gapVars
    <3> QED
      BY <1>1, <2>2, <3>1, <3>2, <3>3 DEF HandleDisconnect, Handling, Break, EvInv
  <2> QED
    BY <1>1, <2>1, <2>2 DEF HandleDisconnect, Handling
<1>2. CASE /\ hpc' \notin {"dispatch", "entered", "onDisconnect", "connected"}
           /\ (hpc' # "idle" => ev' = ev /\ hpc # "idle")
  BY <1>0, <1>2 DEF EvInv
<1>3. CASE HostFault
  BY <1>3 DEF HostFault, EvInv, clientVars, gapVars, hostVars
<1>4. CASE Enter
  BY <1>4 DEF Enter, EvInv, clientVars, gapVars
<1>5. CASE HandleConnect
  BY <1>5 DEF HandleConnect, Handling, Break, EvInv, clientVars, gapVars
<1>6. CASE HostDelete
  BY <1>2, <1>6 DEF HostDelete, DeletePlaces
<1> QED
  BY <1>1, <1>2, <1>3, <1>4, <1>5, <1>6 DEF Handler, InHandler, FinishDisconnect,
    SelfDeleteOnDisconnect, HandleUnexpectedConnect, StoreHandle, ExchangeMTU,
    FinishConnectFail, HandleTermFailure, HandleEncChange, HandleIdentity, HandleMtu,
    Release, ReleaseDead, ReleaseNobody, HandleLinkEstab, Handling, Break, ReturnZero

(* Every step keeps it. *)
LEMMA EvNext ==
  ASSUME TypeOK, LinkInv, EvInv, ConnHandleLive, TypeOK', Next
  PROVE  EvInv'
<1>1. CASE Undefined
  BY <1>1 DEF Undefined, vars, clientVars, gapVars, hostVars, EvInv
<1> QED
  BY <1>1, EvTask, EvApp, EvStack, EvHandler DEF Next

(* The handler clears and stores handles of its event's client, and no other *)
(* writes one. *)
LEMMA HostNext ==
  ASSUME TypeOK, EvInv, HostInv, Next
  PROVE  HostInv'
<1> USE NoneAssumption DEF HostInv
<1>1. ASSUME NEW t \in Tasks, TaskStep(t) PROVE HostInv'
  BY <1>1, TaskFrame
<1>2. CASE AppCall
  <2>1. UNCHANGED <<hpc, ev>>
    BY <1>2, AppFrame DEF hostVars
  <2>2. \A c \in Clients : connHandle'[c] \in {connHandle[c], None}
    BY <1>2 DEF AppCall, Connect, Secure, CreateClient, SecureAsync, Disconnect, AppDelete,
      clientVars, TypeOK
  <2>3. hpc # "idle" => ev.arg \in Clients
    BY DEF EvInv, Event
  <2> QED
    BY <2>1, <2>2, <2>3 DEF DeletePlaces
<1>3. CASE Stack
  <2>1. UNCHANGED connHandle
    BY <1>3, StackFrame DEF clientVars
  <2>2. UNCHANGED hostVars \/ hpc' = "dispatch"
    BY <1>3 DEF Stack, ConnComplete, ReportConnect, ConnBroken, TermFailed, EncChange,
      IdentityResolved, MtuChanged, ConnFailed, ResetBegin, ResetEnd, Sync, Dispatch
  <2> QED
    BY <2>1, <2>2 DEF hostVars, DeletePlaces
<1>4. CASE Handler
  <2>0. hpc # "idle" => ev.arg \in Clients
    BY DEF EvInv, Event
  <2>1. CASE FinishDisconnect
    BY <2>0, <2>1 DEF FinishDisconnect, TypeOK
  <2>2. CASE HostDelete
    BY <2>2 DEF HostDelete
  <2>3. CASE HandleDisconnect
    <3>1. CASE ReturnZero
      BY <3>1 DEF ReturnZero, DeletePlaces
    <3>2. ASSUME NEW c \in alive, connHandle[c] = ev.handle, Break("onDisconnect", ev.status),
                 ev' = [ev EXCEPT !.arg = c]
          PROVE  HostInv'
      <4>1. c = ev.arg /\ ev \in Event
        BY <2>3, <3>2 DEF HandleDisconnect, Handling, EvInv
      <4>2. ev' = ev
        BY <3>2, <4>1 DEF Event
      <4> QED
        BY <2>3, <3>2, <4>1, <4>2 DEF HandleDisconnect, Break, DeletePlaces
    <3> QED
      BY <2>3, <3>1, <3>2 DEF HandleDisconnect
  <2>4. CASE HandleConnect
    BY <2>4 DEF HandleConnect, Unexpected, isConnected, Break, clientVars, DeletePlaces
  <2>5. CASE SelfDeleteOnDisconnect \/ FinishConnectFail
    BY <2>5 DEF SelfDeleteOnDisconnect, FinishConnectFail, DeletePlaces, clientVars
  <2>6. CASE HostFault
    BY <2>6 DEF HostFault, clientVars, hostVars
  <2>7. CASE hpc' \in {"idle", "entered", "exchange", "release", "linkEstab"}
    BY <2>7 DEF DeletePlaces
  <2> QED
    BY <1>4, <2>1, <2>2, <2>3, <2>4, <2>5, <2>6, <2>7 DEF Handler, InHandler, Enter,
      HandleUnexpectedConnect, StoreHandle, ExchangeMTU, HandleTermFailure, HandleEncChange,
      HandleIdentity, HandleMtu, Release, ReleaseDead, ReleaseNobody, HandleLinkEstab, Break,
      ReturnZero
<1>5. CASE Undefined
  BY <1>5 DEF Undefined, vars, clientVars, hostVars
<1> QED
  BY <1>1, <1>2, <1>3, <1>4, <1>5 DEF Next

(* Every step keeps the handles live. *)
LEMMA HandleNext ==
  ASSUME TypeOK, LinkInv, EvInv, ConnHandleLive, Next
  PROVE  ConnHandleLive'
<1> USE NoneAssumption DEF ConnHandleLive, isConnected
<1>1. ASSUME NEW t \in Tasks, TaskStep(t) PROVE ConnHandleLive'
  BY <1>1, TaskFrame, TaskAlive
<1>2. CASE AppCall
  BY <1>2, AppFrame, AppHandles DEF hostVars
<1>3. CASE Stack
  <2>0. UNCHANGED <<alive, connHandle>>
    BY <1>3, StackFrame DEF clientVars
  <2>1. CASE \E h \in Handles : ConnComplete(h)
    BY <2>0, <2>1 DEF ConnComplete, hostVars, LinkInv, TypeOK
  <2>2. CASE \E h \in Handles : ReportConnect(h)
    BY <2>0, <2>2 DEF ReportConnect, Dispatch
  <2>3. CASE \E h \in Handles : ConnBroken(h)
    BY <2>0, <2>3 DEF ConnBroken, Dispatch, TypeOK
  <2>4. CASE hpc = "idle" /\ UNCHANGED <<link, up>>
    BY <2>0, <2>4
  <2> QED
    BY <1>3, <2>1, <2>2, <2>3, <2>4 DEF Stack, TermFailed, EncChange, IdentityResolved,
      MtuChanged, ConnFailed, Dispatch, ResetBegin, ResetEnd, Sync, gapVars
<1>4. CASE Handler
  <2>0. UNCHANGED <<link, up>> /\ alive' \subseteq alive
    BY <1>4, HandlerFrame, HandlerAlive
  <2>1. CASE FinishDisconnect
    BY <2>0, <2>1 DEF FinishDisconnect, EvInv, TypeOK
  <2>2. CASE StoreHandle
    <3>1. /\ ev.handle \in up /\ link[ev.handle] = ev.arg
          /\ \A c \in Clients \ {ev.arg} : connHandle'[c] = connHandle[c]
          /\ connHandle'[ev.arg] = ev.handle
      BY <2>2 DEF StoreHandle, EvInv, Event, TypeOK
    <3>2. alive \subseteq Clients
      BY DEF TypeOK
    <3> QED
      BY <2>0, <2>2, <3>1, <3>2 DEF StoreHandle
  <2>3. CASE HandleDisconnect
    <3>1. CASE \A c \in alive : connHandle[c] # ev.handle
      BY <2>0, <2>3, <3>1 DEF HandleDisconnect, Handling
    <3>2. CASE hpc' = "onDisconnect" /\ ev'.type = "DISCONNECT" /\ ev'.handle = ev.handle
      BY <2>0, <2>3, <3>2 DEF HandleDisconnect
    <3> QED
      BY <2>3, <3>1, <3>2 DEF HandleDisconnect, Handling, Break, EvInv, Event
  <2>4. CASE Enter
    BY <2>0, <2>4 DEF Enter, clientVars
  <2>5. CASE HostFault
    BY <2>0, <2>5 DEF HostFault, clientVars, hostVars
  <2>6. CASE /\ UNCHANGED connHandle
             /\ \/ hpc = "entered" /\ ev.type # "DISCONNECT"
                \/ hpc \notin {"dispatch", "entered", "onDisconnect"}
    BY <2>0, <2>6
  <2>7. CASE HostDelete
    BY <2>6, <2>7 DEF HostDelete, DeletePlaces
  <2> QED
    BY <1>4, <2>1, <2>2, <2>3, <2>4, <2>5, <2>6, <2>7 DEF Handler, InHandler,
      SelfDeleteOnDisconnect, HandleUnexpectedConnect, HandleConnect, ExchangeMTU,
      FinishConnectFail, HandleTermFailure, HandleEncChange, HandleIdentity, HandleMtu,
      Release, ReleaseDead, ReleaseNobody, HandleLinkEstab, Handling, clientVars
<1>5. CASE Undefined
  BY <1>5 DEF Undefined, vars, clientVars, gapVars, hostVars
<1> QED
  BY <1>1, <1>2, <1>3, <1>4, <1>5 DEF Next

-----------------------------------------------------------------------------
(* Published records *)

(* Outside the tasks and their new calls nobody touches a record. *)
LEMMA RecordFrame ==
  ASSUME Stack \/ Handler \/ Undefined
  PROVE  UNCHANGED <<pTaskData, pc, cur>>
  BY StackFrame, HandlerFrame DEF Undefined, vars, clientVars, taskVars

(* Every step keeps the published records those of the waiting tasks. *)
LEMMA RecordNext ==
  ASSUME TypeOK, CurInv, RecordInv, Next
  PROVE  RecordInv'
<1> USE OwnerAssumption, NoneAssumption
<1>1. ASSUME NEW t \in Tasks, TaskStep(t) PROVE RecordInv'
  <2>0. /\ \A u \in Tasks \ {t} : pc'[u] = pc[u] /\ cur'[u] = cur[u]
        /\ pc'[t] = "idle" \/ cur'[t] = cur[t]
    BY <1>1, TaskOnly
  <2>a. \A u \in Tasks : pc[u] # "idle" => cur[u] \in Clients /\ Owner[cur[u]] = u
    BY DEF CurInv
  <2>1. CASE ConnectPublish(t)
    <3>1. /\ pc[t] = "publish" /\ pc'[t] = "connWait" /\ cur' = cur /\ cur[t] \in Clients
          /\ pTaskData' = [pTaskData EXCEPT ![cur[t]] = t]
      BY <2>1, <2>a DEF ConnectPublish, PublishTaskData, TypeOK
    <3> QED
      BY <2>0, <2>a, <3>1 DEF RecordInv, Published, TypeOK
  <2>2. CASE ConnectUnpublish(t) \/ SecureReturn(t)
    <3>1. /\ pc[t] \in Published /\ pc'[t] \notin Published /\ cur[t] \in Clients
          /\ pTaskData' = [pTaskData EXCEPT ![cur[t]] = None]
      BY <2>2, <2>a DEF ConnectUnpublish, SecureReturn, Return, Published, TypeOK
    <3> QED
      BY <2>0, <2>a, <3>1 DEF RecordInv, Published, TypeOK
  <2>3. CASE UNCHANGED pTaskData /\ (pc'[t] \in Published <=> pc[t] \in Published)
    BY <2>0, <2>a, <2>3 DEF RecordInv, Published, TypeOK
  <2> QED
    BY <1>1, <2>1, <2>2, <2>3, TaskRecords
<1>2. CASE AppCall
  <2>1. ASSUME NEW t \in Tasks, NEW c \in Clients, Connect(t, c) PROVE RecordInv'
    BY <2>1 DEF Connect, RecordInv, Published, TypeOK, clientVars
  <2>2. ASSUME NEW t \in Tasks, NEW c \in Clients, Secure(t, c) PROVE RecordInv'
    BY <2>2 DEF Secure, PublishTaskData, RecordInv, Published, CurInv, TypeOK
  <2>3. ASSUME NEW c \in Clients, CreateClient(c) PROVE RecordInv'
    BY <2>3 DEF CreateClient, RecordInv, Published, CurInv, taskVars, TypeOK
  <2>4. ASSUME NEW c \in Clients, AppDelete(c) PROVE RecordInv'
    BY <2>4 DEF AppDelete, RecordInv, Published, TypeOK, clientVars
  <2>5. CASE UNCHANGED <<pTaskData, pc, cur>>
    BY <2>5 DEF RecordInv
  <2> QED
    BY <1>2, <2>1, <2>2, <2>3, <2>4, <2>5 DEF AppCall, SecureAsync, Disconnect, taskVars,
      clientVars
<1>3. CASE Stack \/ Handler \/ Undefined
  BY <1>3, RecordFrame DEF RecordInv
<1> QED
  BY <1>1, <1>2, <1>3 DEF Next

(* The handler reaches the delete only past a test of the record. *)
LEMMA FreePlace ==
  ASSUME Handler, hpc' = "delFree"
  PROVE  /\ UNCHANGED ev
         /\ hpc = "delFree" \/ pTaskData[ev.arg] = None
<1>1. CASE HostDelete
  BY <1>1 DEF HostDelete, DeleteStep, WaitedFor
<1>2. CASE HostFault
  BY <1>2 DEF HostFault, hostVars
<1> QED
  BY <1>1, <1>2 DEF Handler, InHandler, Enter, HandleDisconnect, FinishDisconnect,
    SelfDeleteOnDisconnect, HandleUnexpectedConnect, HandleConnect, StoreHandle, ExchangeMTU,
    FinishConnectFail, HandleTermFailure, HandleEncChange, HandleIdentity, HandleMtu, Release,
    ReleaseDead, ReleaseNobody, HandleLinkEstab, Break, ReturnZero

(* The host outside the handler does not reach it at all. *)
LEMMA StackPlace ==
  ASSUME Stack
  PROVE  hpc = "idle" /\ hpc' \in {"idle", "dispatch"}
  BY DEF Stack, ConnComplete, ReportConnect, ConnBroken, TermFailed, EncChange,
    IdentityResolved, MtuChanged, ConnFailed, ResetBegin, ResetEnd, Sync, Dispatch, hostVars

(* Nobody frees the client of a task that waits for its encryption. *)
LEMMA SecureNext ==
  ASSUME TypeOK, CurInv, HostInv, RecordInv, SecureInv, Next
  PROVE  SecureInv'
<1> USE OwnerAssumption, NoneAssumption DEF SecureInv
<1>1. ASSUME NEW t \in Tasks, TaskStep(t), NEW u \in Tasks, pc'[u] = "secWait"
      PROVE  cur'[u] \in alive' /\ ~(hpc' = "delFree" /\ ev'.arg = cur'[u])
  <2>0. UNCHANGED <<hpc, ev>>
    BY <1>1, TaskFrame
  <2>1. CASE u = t
    <3>1. cur'[t] = cur[t]
      BY <1>1, <2>1, TaskOnly
    <3>2. CASE pc[t] = "secWait"
      <4>1. UNCHANGED alive
        BY <1>1, <3>2, TaskAlive
      <4> QED
        BY <2>0, <2>1, <3>1, <3>2, <4>1
    <3>3. CASE SecureStart(t) /\ cur[t] \in alive
      <4>1. connHandle[cur[t]] # None /\ UNCHANGED alive
        BY <3>3 DEF SecureStart, clientVars
      <4> QED
        BY <2>0, <2>1, <3>1, <3>3, <4>1 DEF HostInv, DeletePlaces
    <3> QED
      BY <1>1, <2>1, <3>2, <3>3, TaskPlaces
  <2>2. CASE u # t
    <3>1. pc[u] = "secWait" /\ cur'[u] = cur[u]
      BY <1>1, <2>2, TaskOnly
    <3>2. cur[u] \in alive'
      BY <1>1, <2>2, <3>1, TaskAlive DEF CurInv
    <3> QED
      BY <2>0, <3>1, <3>2
  <2> QED
    BY <2>1, <2>2
<1>2. CASE AppCall
  <2>1. UNCHANGED <<hpc, ev>> /\ alive \subseteq alive'
    BY <1>2, AppFrame DEF hostVars
  <2>2. ASSUME NEW u \in Tasks, pc'[u] = "secWait" PROVE pc[u] = "secWait" /\ cur'[u] = cur[u]
    <3>1. CASE \E t \in Tasks, c \in Clients : Connect(t, c) \/ Secure(t, c)
      BY <2>2, <3>1 DEF Connect, Secure, TypeOK
    <3>2. CASE \E c \in Clients : AppDelete(c)
      BY <2>2, <3>2 DEF AppDelete, TypeOK
    <3>3. CASE UNCHANGED taskVars
      BY <2>2, <3>3 DEF taskVars
    <3> QED
      BY <1>2, <3>1, <3>2, <3>3, AppOnly
  <2> QED
    BY <2>1, <2>2
<1>3. CASE Stack
  BY <1>3, StackFrame, StackPlace DEF clientVars, taskVars
<1>4. CASE Handler
  <2>1. UNCHANGED <<pc, cur>>
    BY <1>4, HandlerFrame
  <2>2. ASSUME NEW u \in Tasks, pc[u] = "secWait" PROVE cur[u] \in alive'
    BY <1>4, <2>2, HandlerAlive
  <2>3. ASSUME NEW u \in Tasks, pc[u] = "secWait", hpc' = "delFree" PROVE ev'.arg # cur[u]
    BY <1>4, <2>3, FreePlace DEF RecordInv, Published
  <2> QED
    BY <2>1, <2>2, <2>3
<1>5. CASE Undefined
  BY <1>5 DEF Undefined, vars, clientVars, taskVars, hostVars
<1> QED
  BY <1>1, <1>2, <1>3, <1>4, <1>5 DEF Next

-----------------------------------------------------------------------------
(* How connect() was called *)

(* createClient() and connect() alone choose asyncConnect, before the host's *)
(* procedure is asked for. *)
LEMMA AsyncWriters ==
  ASSUME TypeOK, CurInv, EvInv, Next, NEW c \in Clients,
         pc[Owner[c]] \notin {"idle", "connConfig"}
  PROVE  config'[c].asyncConnect = config[c].asyncConnect
<1>0. config \in [Clients -> Config]
  BY DEF TypeOK
<1>1. ASSUME NEW t \in Tasks, TaskStep(t)
      PROVE  config'[c].asyncConnect = config[c].asyncConnect
  <2>1. CASE TaskDelete(t)
    <3>1. cur[t] \in Clients
      BY <2>1 DEF TaskDelete, DeletePlaces, CurInv
    <3>2. PICK n : DeleteStep(cur[t], pc[t], n)
      BY <2>1 DEF TaskDelete
    <3> QED
      BY <1>0, <3>1, <3>2, DeleteStepConfig
  <2>2. CASE ConnectConfig(t)
    <3>1. cur[t] \in Clients /\ cur[t] # c
      BY <2>2 DEF ConnectConfig, CurInv
    <3>2. PICK m \in ConnectModes :
            config' = [config EXCEPT ![cur[t]].asyncConnect = m.async,
                                     ![cur[t]].exchangeMTU = m.mtu]
      BY <2>2 DEF ConnectConfig
    <3> QED
      BY <1>0, <3>1, <3>2
  <2>3. CASE UNCHANGED config
    BY <2>3
  <2> QED
    BY <1>1, <2>1, <2>2, <2>3 DEF TaskStep, TaskFault, InCall, GapConnect,
      GapConnectRefused, ConnectPublish, ConnectWoken, ConnectTimeout, ConnectCheck,
      ConnectCancel, ConnectUnpublish, ConnectFailed, ConnectReturn, SecureStart,
      SecureStartFails, SecureWoken, SecureReturn, clientVars
<1>2. CASE AppCall
  <2>1. ASSUME NEW d \in Clients, CreateClient(d)
        PROVE  config'[c].asyncConnect = config[c].asyncConnect
    BY <2>1, <1>0 DEF CreateClient
  <2> QED
    BY <1>2, <2>1 DEF AppCall, Connect, Secure, SecureAsync, Disconnect, AppDelete, clientVars
<1>3. CASE Stack
  BY <1>3, StackFrame DEF clientVars
<1>4. CASE Handler
  <2>1. CASE SelfDeleteOnDisconnect
    <3>1. ev.arg \in Clients
      BY <2>1 DEF SelfDeleteOnDisconnect, EvInv, Event
    <3>2. \/ config' = [config EXCEPT ![ev.arg].deleteOnConnectFail = TRUE]
          \/ UNCHANGED config
      BY <2>1 DEF SelfDeleteOnDisconnect
    <3>3. CASE config' = [config EXCEPT ![ev.arg].deleteOnConnectFail = TRUE]
      BY <1>0, <3>1, <3>3, ConfigMarks
    <3> QED
      BY <3>2, <3>3
  <2>2. CASE HostDelete
    <3>1. ev.arg \in Clients
      BY <2>2 DEF HostDelete, DeletePlaces, EvInv, Event
    <3>2. PICK n : DeleteStep(ev.arg, hpc, n)
      BY <2>2 DEF HostDelete
    <3> QED
      BY <1>0, <3>1, <3>2, DeleteStepConfig
  <2> QED
    BY <1>4, <2>1, <2>2 DEF Handler, HostFault, InHandler, Enter, HandleDisconnect,
      FinishDisconnect, HandleUnexpectedConnect, HandleConnect, StoreHandle, ExchangeMTU,
      FinishConnectFail, HandleTermFailure, HandleEncChange, HandleIdentity, HandleMtu,
      Release, ReleaseDead, ReleaseNobody, HandleLinkEstab, clientVars
<1>5. CASE Undefined
  BY <1>5 DEF Undefined, vars, clientVars
<1> QED
  BY <1>1, <1>2, <1>3, <1>4, <1>5 DEF Next

(* How a task's place changes, whoever steps *)
LEMMA PlaceWriters ==
  ASSUME TypeOK, Next, NEW u \in Tasks
  PROVE  \/ TaskStep(u)
         \/ pc[u] = "idle" /\ pc'[u] \in {"connConfig", "secStart", "delConnected"}
         \/ pc'[u] = pc[u] /\ cur'[u] = cur[u]
<1>1. ASSUME NEW t \in Tasks, TaskStep(t), t # u PROVE pc'[u] = pc[u] /\ cur'[u] = cur[u]
  BY <1>1, TaskOnly
<1>2. CASE AppCall
  <2>1. CASE \E t \in Tasks, c \in Clients : Connect(t, c) \/ Secure(t, c)
    BY <2>1 DEF Connect, Secure, TypeOK
  <2>2. CASE \E c \in Clients : AppDelete(c)
    BY <2>2 DEF AppDelete, TypeOK
  <2>3. CASE UNCHANGED taskVars
    BY <2>3 DEF taskVars
  <2> QED
    BY <1>2, <2>1, <2>2, <2>3, AppOnly
<1>3. CASE Stack \/ Handler \/ Undefined
  BY <1>3, RecordFrame
<1> QED
  BY <1>1, <1>2, <1>3 DEF Next

(* A connect() goes on to wait only if it was called to, and stays so. *)
LEMMA SyncNext ==
  ASSUME TypeOK, CurInv, EvInv, SyncInv, Next
  PROVE  SyncInv'
<1> SUFFICES ASSUME NEW u \in Tasks, pc'[u] \in Waiting
             PROVE  ~config'[cur'[u]].asyncConnect
  BY DEF SyncInv
<1>1. /\ pc[u] \notin {"idle", "connConfig"} /\ cur'[u] = cur[u]
      /\ ~config[cur[u]].asyncConnect
  <2>1. CASE TaskStep(u)
    BY <2>1, TaskOnly, TaskPlaces DEF SyncInv, Waiting
  <2>2. CASE pc'[u] = pc[u] /\ cur'[u] = cur[u]
    BY <2>2 DEF SyncInv, Waiting
  <2> QED
    BY <2>1, <2>2, PlaceWriters DEF Waiting
<1>2. cur[u] \in Clients /\ Owner[cur[u]] = u
  BY <1>1 DEF CurInv
<1> QED
  BY <1>1, <1>2, AsyncWriters

-----------------------------------------------------------------------------
(* No lost wakeup *)

(* A task in secureConnection() is the waiter of its client, and the client *)
(* of a connection that an event is about is the event's argument.         *)
LEMMA WaiterOfEvent ==
  ASSUME IInv, NEW t \in Tasks, pc[t] = "secWait", hpc \in {"dispatch", "entered"},
         ev.type \in {"DISCONNECT", "ENC_CHANGE"}, ev.handle = connHandle[cur[t]]
  PROVE  /\ cur[t] = ev.arg /\ ev.arg \in alive /\ cur[t] \in Clients
         /\ pTaskData[ev.arg] = t /\ connHandle[ev.arg] = ev.handle
<1>1. cur[t] \in alive /\ pTaskData[cur[t]] = t /\ cur[t] \in Clients
  BY DEF IInv, SecureInv, RecordInv, Published, CurInv
<1>2. cur[t] = ev.arg
  BY <1>1, NoneAssumption DEF IInv, EvInv, ConnHandleLive, isConnected
<1> QED
  BY <1>1, <1>2

(* A task that starts to wait has an answer ahead, and no other task takes *)
(* it away. *)
LEMMA WakeupTask ==
  ASSUME IInv, NEW t \in Tasks, TaskStep(t)
  PROVE  NoLostWakeup'
<1> SUFFICES ASSUME NEW u \in Tasks, pc'[u] = "secWait"
             PROVE  \/ notified'[u]
                    \/ connHandle'[cur'[u]] \in sm' /\ link'[connHandle'[cur'[u]]] = cur'[u]
                    \/ /\ ev'.type \in {"DISCONNECT", "ENC_CHANGE"}
                       /\ ev'.handle = connHandle'[cur'[u]]
                       /\ \/ hpc' = "dispatch"
                          \/ hpc' = "entered" /\ hTask' = u /\ hLive'
                    \/ /\ hpc' \in {"onDisconnect", "selfDelete", "release"} \cup DeletePlaces
                       /\ hTask' = u /\ hLive'
  BY DEF NoLostWakeup
<1> USE DEF IInv
<1>0. UNCHANGED <<hpc, ev, hTask, link, connHandle>>
  BY TaskFrame
<1>1. CASE u # t
  <2>1. pc[u] = "secWait" /\ cur'[u] = cur[u] /\ notified'[u] = notified[u]
    BY <1>1, TaskOnly
  <2>2. sm \subseteq sm' /\ (hLive' = hLive \/ hLive' = (hLive /\ hTask # t))
    BY TaskFrame
  <2>3. hTask = u /\ hLive => hLive'
    BY <1>1, <2>2
  <2> QED
    BY <1>0, <2>1, <2>2, <2>3 DEF NoLostWakeup
<1>2. CASE u = t
  <2>1. CASE SecureStart(t) /\ cur[t] \in alive
    <3>1. cur[t] \in Clients /\ cur'[t] = cur[t]
      BY <2>1, TaskOnly DEF CurInv, SecureStart
    <3>2. link[connHandle[cur[t]]] = cur[t]
      BY <2>1, <3>1 DEF SecureStart, ConnHandleLive, isConnected, EvInv
    <3> QED
      BY <1>0, <1>2, <2>1, <3>1, <3>2 DEF SecureStart
  <2>2. CASE pc[t] = "secWait"
    BY <1>2, <2>2 DEF TaskStep, TaskFault, DanglingTask, InCall, ConnectConfig, GapConnect,
      GapConnectRefused, ConnectPublish, ConnectWoken, ConnectTimeout, ConnectCheck,
      ConnectCancel, ConnectUnpublish, ConnectFailed, ConnectReturn, SecureStart,
      SecureStartFails, SecureWoken, SecureReturn, SecureLoop, TaskDelete, DeletePlaces, TypeOK
  <2> QED
    BY <1>2, <2>1, <2>2, TaskPlaces
<1> QED
  BY <1>1, <1>2

(* A new call takes no waiter's answer away. *)
LEMMA WakeupApp ==
  ASSUME IInv, AppCall
  PROVE  NoLostWakeup'
<1> USE DEF IInv, NoLostWakeup
<1>0. UNCHANGED <<hpc, ev, hTask, hLive, link>> /\ sm \subseteq sm'
  BY AppFrame DEF hostVars
<1>1. ASSUME NEW u \in Tasks, pc'[u] = "secWait"
      PROVE  /\ pc[u] = "secWait" /\ cur'[u] = cur[u] /\ notified'[u] = notified[u]
             /\ connHandle'[cur[u]] = connHandle[cur[u]]
  <2>1. CASE \E t \in Tasks, c \in Clients : Connect(t, c)
    BY <1>1, <2>1 DEF Connect, TypeOK, clientVars
  <2>2. CASE \E t \in Tasks, c \in Clients : Secure(t, c)
    BY <1>1, <2>2 DEF Secure, PublishTaskData, TypeOK
  <2>3. CASE \E c \in Clients : AppDelete(c)
    BY <1>1, <2>3 DEF AppDelete, TypeOK, clientVars
  <2>4. ASSUME NEW c \in Clients, CreateClient(c)
        PROVE  /\ pc[u] = "secWait" /\ cur'[u] = cur[u] /\ notified'[u] = notified[u]
               /\ connHandle'[cur[u]] = connHandle[cur[u]]
    <3>1. pc[u] = "secWait" /\ cur'[u] = cur[u] /\ notified'[u] = notified[u]
      BY <1>1, <2>4 DEF CreateClient, taskVars
    <3>2. cur[u] # c /\ cur[u] \in Clients
      BY <2>4, <3>1 DEF CreateClient, CurInv
    <3> QED
      BY <2>4, <3>1, <3>2 DEF CreateClient, TypeOK
  <2>5. CASE UNCHANGED <<taskVars, connHandle>>
    BY <1>1, <2>5 DEF taskVars
  <2> QED
    BY <2>1, <2>2, <2>3, <2>4, <2>5 DEF AppCall, SecureAsync, Disconnect, clientVars
<1> QED
  BY <1>0, <1>1

(* A security procedure that ends, ends with the event that answers. *)
LEMMA WakeupStack ==
  ASSUME IInv, Stack
  PROVE  NoLostWakeup'
<1> USE DEF IInv, NoLostWakeup, DeletePlaces
<1>0. UNCHANGED <<connHandle, pc, cur, notified, hTask, hLive>>
  BY StackFrame DEF clientVars, taskVars
<1>1. ASSUME NEW h \in Handles, ConnComplete(h) PROVE NoLostWakeup'
  BY <1>0, <1>1, NoneAssumption DEF ConnComplete, hostVars, CurInv, TypeOK, LinkInv
<1>2. ASSUME NEW h \in Handles, ConnBroken(h) PROVE NoLostWakeup'
  BY <1>0, <1>2 DEF ConnBroken, Dispatch, TypeOK
<1>3. ASSUME NEW h \in Handles, EncChange(h) PROVE NoLostWakeup'
  BY <1>0, <1>3 DEF EncChange, Dispatch
<1>4. CASE hpc = "idle" /\ UNCHANGED <<link, sm>>
  BY <1>0, <1>4
<1> QED
  BY <1>1, <1>2, <1>3, <1>4 DEF Stack, ReportConnect, TermFailed, IdentityResolved,
    MtuChanged, ConnFailed, Dispatch, ResetBegin, ResetEnd, Sync, gapVars

(* An event that answers reaches the release, and the release wakes the *)
(* task. *)
LEMMA WakeupHandler ==
  ASSUME IInv, Handler
  PROVE  NoLostWakeup'
<1> SUFFICES ASSUME NEW u \in Tasks, pc[u] = "secWait"
             PROVE  \/ notified'[u]
                    \/ connHandle'[cur[u]] \in sm' /\ link[connHandle'[cur[u]]] = cur[u]
                    \/ /\ ev'.type \in {"DISCONNECT", "ENC_CHANGE"}
                       /\ ev'.handle = connHandle'[cur[u]]
                       /\ \/ hpc' = "dispatch"
                          \/ hpc' = "entered" /\ hTask' = u /\ hLive'
                    \/ /\ hpc' \in {"onDisconnect", "selfDelete", "release"} \cup DeletePlaces
                       /\ hTask' = u /\ hLive'
  BY HandlerFrame DEF NoLostWakeup
<1> USE NoneAssumption DEF IInv
<1>0. cur[u] \in Clients /\ cur[u] \in alive /\ pTaskData[cur[u]] = u
  BY DEF SecureInv, RecordInv, Published, CurInv
<1>a. notified[u] => notified'[u]
  BY DEF Handler, HostFault, InHandler, Enter, HandleDisconnect, FinishDisconnect,
    SelfDeleteOnDisconnect, HostDelete, HandleUnexpectedConnect, HandleConnect, StoreHandle,
    ExchangeMTU, FinishConnectFail, HandleTermFailure, HandleEncChange, HandleIdentity,
    HandleMtu, Release, ReleaseDead, ReleaseNobody, HandleLinkEstab, taskVars, TypeOK
<1>b. sm \subseteq sm'
  BY DEF Handler, HostFault, InHandler, Enter, HandleDisconnect, FinishDisconnect,
    SelfDeleteOnDisconnect, HostDelete, HandleUnexpectedConnect, HandleConnect, StoreHandle,
    ExchangeMTU, FinishConnectFail, HandleTermFailure, HandleEncChange, HandleIdentity,
    HandleMtu, Release, ReleaseDead, ReleaseNobody, HandleLinkEstab, gapVars
<1>1. CASE notified[u]
  BY <1>1, <1>a
<1>2. CASE connHandle[cur[u]] \in sm /\ link[connHandle[cur[u]]] = cur[u]
  <2>1. connHandle[cur[u]] \in Handles
    BY <1>0, <1>2 DEF TypeOK
  <2>2. connHandle'[cur[u]] = connHandle[cur[u]]
    <3>1. CASE FinishDisconnect
      BY <1>0, <1>2, <2>1, <3>1 DEF FinishDisconnect, EvInv, HostInv, TypeOK
    <3>2. CASE StoreHandle
      BY <1>0, <2>1, <3>2 DEF StoreHandle, HostInv, TypeOK
    <3>3. CASE UNCHANGED connHandle
      BY <3>3
    <3>4. ASSUME NEW c \in Clients, CreateClient(c)
          PROVE  connHandle'[cur[u]] = connHandle[cur[u]]
      <4>1. c # cur[u]
        BY <1>0, <3>4 DEF CreateClient
      <4> QED
        BY <1>0, <3>4, <4>1 DEF CreateClient, TypeOK
    <3> QED
      BY <3>1, <3>2, <3>3, <3>4, HandleWriters DEF Next
  <2> QED
    BY <1>2, <1>b, <2>2
<1>3. CASE /\ hpc \in {"dispatch", "entered"} /\ ev.type \in {"DISCONNECT", "ENC_CHANGE"}
           /\ ev.handle = connHandle[cur[u]]
           /\ hpc = "entered" => hTask = u /\ hLive
  <2>0. /\ cur[u] = ev.arg /\ ev.arg \in alive /\ pTaskData[ev.arg] = u
        /\ connHandle[ev.arg] = ev.handle
    BY <1>3, WaiterOfEvent
  <2>1. CASE HandleDisconnect
    <3>1. \E c \in alive : connHandle[c] = ev.handle
      BY <2>0
    <3> QED
      BY <1>3, <2>0, <2>1, <3>1 DEF HandleDisconnect, Handling, Break
  <2>2. CASE HandleEncChange
    BY <1>3, <2>0, <2>2 DEF HandleEncChange, Handling, Break
  <2>3. CASE Enter
    BY <1>3, <2>0, <2>3 DEF Enter, clientVars
  <2>4. CASE HostFault
    BY <1>3, <2>4 DEF HostFault, clientVars, hostVars
  <2>5. CASE HostDelete
    BY <1>3, <2>5 DEF HostDelete, DeletePlaces
  <2> QED
    BY <1>3, <2>0, <2>1, <2>2, <2>3, <2>4, <2>5 DEF Handler, InHandler, FinishDisconnect,
      SelfDeleteOnDisconnect, HandleUnexpectedConnect, HandleConnect, StoreHandle,
      ExchangeMTU, FinishConnectFail, HandleTermFailure, HandleIdentity, HandleMtu, Release,
      ReleaseDead, ReleaseNobody, HandleLinkEstab, Handling
<1>4. CASE /\ hpc \in {"onDisconnect", "selfDelete", "release"} \cup DeletePlaces
           /\ hTask = u /\ hLive
  <2>1. CASE FinishDisconnect
    BY <1>4, <2>1 DEF FinishDisconnect
  <2>2. CASE SelfDeleteOnDisconnect
    BY <1>4, <2>2 DEF SelfDeleteOnDisconnect, DeletePlaces
  <2>3. CASE HostDelete
    BY <1>4, <2>3 DEF HostDelete
  <2>4. CASE Release
    BY <1>4, <2>4 DEF Release, TypeOK
  <2>5. CASE HostFault
    BY <1>4, <2>5 DEF HostFault, hostVars
  <2> QED
    BY <1>4, <2>1, <2>2, <2>3, <2>4, <2>5 DEF Handler, InHandler, Enter, HandleDisconnect,
      HandleUnexpectedConnect, HandleConnect, StoreHandle, ExchangeMTU, FinishConnectFail,
      HandleTermFailure, HandleEncChange, HandleIdentity, HandleMtu, ReleaseDead,
      ReleaseNobody, HandleLinkEstab, Handling, DeletePlaces
<1> QED
  BY <1>1, <1>2, <1>3, <1>4 DEF NoLostWakeup

-----------------------------------------------------------------------------
(* The inductive invariant *)

(* The initial state satisfies the inductive invariant. *)
LEMMA InitInv ==
  ASSUME Init
  PROVE  IInv
<1> USE NoneAssumption, ModesAssumption DEF Init
<1>1. TypeOK
  <2>1. config \in [Clients -> Config]
    BY DEF Config
  <2>2. termFails \in [Clients -> 0..3] /\ secAttempt \in [Clients -> 0..MaxAttempts]
    OBVIOUS
  <2>3. /\ pc \in [Tasks -> PCs] /\ flags \in [Tasks -> RC] /\ retry \in [Tasks -> 0..1]
        /\ released \in [Tasks -> Releases] /\ notified \in [Tasks -> BOOLEAN]
    BY DEF PCs, RC, Releases
  <2> QED
    BY <2>1, <2>2, <2>3 DEF TypeOK, RC, HostPCs
<1>2. CurInv /\ LinkInv /\ RecordInv /\ SecureInv /\ SyncInv
  BY DEF CurInv, LinkInv, RecordInv, Published, SecureInv, SyncInv, Waiting
<1>3. EvInv /\ HostInv /\ ConnHandleLive /\ NoLostWakeup
  BY DEF EvInv, HostInv, DeletePlaces, ConnHandleLive, isConnected, NoLostWakeup
<1> QED
  BY <1>1, <1>2, <1>3 DEF IInv

(* Every step, stutters included, keeps the inductive invariant. *)
LEMMA StepInv ==
  ASSUME IInv, [Next]_vars
  PROVE  IInv'
<1>1. CASE UNCHANGED vars
  BY <1>1 DEF vars, clientVars, taskVars, gapVars, hostVars, devVars, IInv, TypeOK, CurInv,
    LinkInv, EvInv, HostInv, RecordInv, SecureInv, SyncInv, ConnHandleLive, isConnected,
    NoLostWakeup
<1>2. CASE Undefined
  BY <1>1, <1>2 DEF Undefined
<1>3. CASE Next /\ ~Undefined
  <2>1. TypeOK'
    BY <1>3, TypeNext DEF IInv
  <2>2. CurInv' /\ LinkInv' /\ HostInv' /\ RecordInv' /\ SecureInv' /\ SyncInv'
    BY <1>3, CurNext, LinkNext, HostNext, RecordNext, SecureNext, SyncNext DEF IInv
  <2>3. EvInv' /\ ConnHandleLive'
    BY <1>3, <2>1, EvNext, HandleNext DEF IInv
  <2>4. NoLostWakeup'
    BY <1>3, WakeupTask, WakeupApp, WakeupStack, WakeupHandler DEF Next
  <2> QED
    BY <2>1, <2>2, <2>3, <2>4 DEF IInv
<1> QED
  BY <1>1, <1>2, <1>3

(* It holds in every reachable state, for all constants and whatever the   *)
(* tasks do between two steps of the handler.                              *)
LEMMA Invariance == Spec => []IInv
<1>1. Init => IInv
  BY InitInv
<1>2. IInv /\ [Next]_vars => IInv'
  BY StepInv
<1> QED
  BY <1>1, <1>2, PTL DEF Spec

-----------------------------------------------------------------------------
(* Waiting tasks, when tasks leave a client alone while the handler decides *)
(* on it                                                                   *)

(* Where the handler decides, so no task is inside a call on the client. *)
LEMMA QuietTask ==
  ASSUME ~Preempt, NEW t \in Tasks, TaskStep(t)
  PROVE  ~(hpc = "delFree" /\ ev.arg = cur[t]) /\ ~(hpc = "connected" /\ ev.arg = cur[t])
  BY DEF TaskStep, Undisturbed, Deciding, DeletePlaces

(* What the handler found when it decided to free its client still holds. *)
LEMMA FreeNext ==
  ASSUME ~Preempt, IInv, FreeInv, Next
  PROVE  FreeInv'
<1> USE DEF FreeInv, IInv
<1>0. hpc = "delFree" => ev.arg \in Clients
  BY DEF EvInv, Event
<1>1. ASSUME NEW t \in Tasks, TaskStep(t) PROVE FreeInv'
  <2>0. UNCHANGED <<hpc, ev>>
    BY <1>1, TaskFrame
  <2>1. hpc = "delFree" => ev.arg # cur[t]
    BY <1>1, QuietTask
  <2>2. CASE ConnectPublish(t)
    BY <1>0, <2>0, <2>1, <2>2 DEF ConnectPublish, PublishTaskData, TypeOK
  <2>3. CASE ConnectUnpublish(t) \/ SecureReturn(t)
    BY <1>0, <2>0, <2>1, <2>3 DEF ConnectUnpublish, SecureReturn, TypeOK
  <2>4. CASE UNCHANGED pTaskData
    BY <2>0, <2>4
  <2> QED
    BY <1>1, <2>2, <2>3, <2>4, TaskRecords
<1>2. CASE AppCall
  <2>0. UNCHANGED <<hpc, ev>>
    BY <1>2, AppFrame DEF hostVars
  <2>1. ASSUME NEW t \in Tasks, NEW c \in Clients, Undisturbed(c), Secure(t, c) PROVE FreeInv'
    <3>1. hpc = "delFree" => ev.arg # c
      BY <2>1 DEF Undisturbed, Deciding, DeletePlaces
    <3> QED
      BY <1>0, <2>0, <2>1, <3>1 DEF Secure, PublishTaskData, TypeOK
  <2>2. ASSUME NEW c \in Clients, CreateClient(c) PROVE FreeInv'
    BY <1>0, <2>0, <2>2 DEF CreateClient, TypeOK
  <2>3. CASE UNCHANGED pTaskData
    BY <2>0, <2>3
  <2> QED
    BY <1>2, <2>1, <2>2, <2>3 DEF AppCall, Connect, SecureAsync, Disconnect, AppDelete, clientVars
<1>3. CASE Stack
  BY <1>3, StackPlace
<1>4. CASE Handler
  BY <1>4, HandlerFrame, FreePlace
<1>5. CASE Undefined
  BY <1>5 DEF Undefined, vars, clientVars, hostVars
<1> QED
  BY <1>1, <1>2, <1>3, <1>4, <1>5 DEF Next

(* So a waiting task keeps its client. *)
LEMMA WaiterNext ==
  ASSUME ~Preempt, IInv, FreeInv, WaiterPublished, Next, RecordInv'
  PROVE  WaiterPublished'
<1> USE OwnerAssumption, NoneAssumption DEF IInv, WaiterPublished
<1> SUFFICES ASSUME NEW u \in Tasks, pc'[u] \in Published
             PROVE  cur'[u] \in alive'
  BY DEF RecordInv
<1>1. ASSUME NEW t \in Tasks, TaskStep(t) PROVE cur'[u] \in alive'
  <2>1. cur'[u] = cur[u] /\ cur[u] \in alive /\ pc[u] # "idle"
    <3>1. CASE u # t
      BY <1>1, <3>1, TaskOnly DEF Published
    <3>2. CASE u = t
      <4>1. cur'[t] = cur[t]
        BY <1>1, <3>2, TaskOnly DEF Published
      <4>2. CASE ConnectPublish(t) /\ cur[t] \in alive
        BY <3>2, <4>1, <4>2 DEF ConnectPublish
      <4>3. CASE ConnectUnpublish(t) \/ SecureReturn(t)
        BY <3>2, <4>3 DEF ConnectUnpublish, SecureReturn, Return, Published, TypeOK
      <4>4. CASE pc[t] \in Published
        BY <3>2, <4>1, <4>4 DEF Published
      <4> QED
        BY <1>1, <3>2, <4>2, <4>3, <4>4, TaskRecords
    <3> QED
      BY <3>1, <3>2
  <2>2. CASE pc[t] = "delFree" /\ alive' = alive \ {cur[t]}
    <3>1. u # t
      BY <1>1, <2>2, TaskPlaces, TaskRecords
      DEF Published, ConnectPublish, ConnectUnpublish, SecureReturn
    <3> QED
      BY <2>1, <2>2, <3>1 DEF CurInv
  <2> QED
    BY <1>1, <2>1, <2>2, TaskAlive
<1>2. CASE AppCall
  <2>0. alive \subseteq alive'
    BY <1>2, AppFrame
  <2>1. CASE \E t \in Tasks, c \in Clients : Secure(t, c)
    BY <2>1 DEF Secure, Published, TypeOK
  <2>2. CASE \E t \in Tasks, c \in Clients : Connect(t, c)
    BY <2>2, <2>0 DEF Connect, Published, TypeOK
  <2>3. CASE \E c \in Clients : AppDelete(c)
    BY <2>3, <2>0 DEF AppDelete, Published, TypeOK
  <2>4. CASE UNCHANGED taskVars
    BY <2>4, <2>0 DEF taskVars
  <2> QED
    BY <1>2, <2>1, <2>2, <2>3, <2>4, AppOnly
<1>3. CASE Stack
  BY <1>3, StackFrame DEF clientVars, taskVars
<1>4. CASE Handler
  <2>1. UNCHANGED <<pc, cur>> /\ cur[u] \in alive /\ pTaskData[cur[u]] = u
    BY <1>4, HandlerFrame
  <2>2. hpc = "delFree" => ev.arg # cur[u]
    BY <2>1 DEF FreeInv
  <2> QED
    BY <1>4, <2>1, <2>2, HandlerAlive
<1>5. CASE Undefined
  BY <1>5 DEF Undefined, vars, clientVars, taskVars
<1> QED
  BY <1>1, <1>2, <1>3, <1>4, <1>5 DEF Next

-----------------------------------------------------------------------------
(* Deletions, when the application also leaves a pending attempt alone *)

(* Only the owner's connect() makes a CONNECT of a client pending. *)
LEMMA PendingGrows ==
  ASSUME TypeOK, CurInv, EvInv, Next, NEW c \in Clients, Pending(c)'
  PROVE  Pending(c) \/ pc[Owner[c]] = "gapConnect"
<1>1. ASSUME NEW t \in Tasks, TaskStep(t) PROVE Pending(c) \/ pc[Owner[c]] = "gapConnect"
  <2>0. UNCHANGED <<link, up, hpc, ev>>
    BY <1>1, TaskFrame
  <2>1. CASE GapConnect(t)
    BY <2>0, <2>1 DEF GapConnect, Pending, CurInv
  <2>2. CASE UNCHANGED initiating
    BY <2>0, <2>2 DEF Pending
  <2> QED
    BY <1>1, <2>1, <2>2 DEF TaskStep, TaskFault, InCall, ConnectConfig, GapConnectRefused,
      ConnectPublish, ConnectWoken, ConnectTimeout, ConnectCheck, ConnectCancel,
      ConnectUnpublish, ConnectFailed, ConnectReturn, SecureStart, SecureStartFails,
      SecureWoken, SecureReturn, TaskDelete, gapVars
<1>2. CASE AppCall
  BY <1>2, AppFrame DEF hostVars, Pending
<1>3. CASE Stack
  <2> USE NoneAssumption DEF Pending
  <2>1. CASE \E h \in Handles : ConnComplete(h)
    BY <2>1 DEF ConnComplete, hostVars, TypeOK
  <2>2. CASE \E h \in Handles : ReportConnect(h)
    BY <2>2 DEF ReportConnect, Dispatch, TypeOK
  <2>3. CASE \E h \in Handles : ConnBroken(h)
    BY <2>3 DEF ConnBroken, Dispatch, TypeOK
  <2>4. CASE ConnFailed
    BY <2>4 DEF ConnFailed, Dispatch, TypeOK
  <2>5. CASE /\ UNCHANGED <<initiating, link, up>>
             /\ UNCHANGED hostVars \/ ev'.type # "CONNECT"
    BY <2>5 DEF hostVars
  <2> QED
    BY <1>3, <2>1, <2>2, <2>3, <2>4, <2>5 DEF Stack, TermFailed, EncChange, IdentityResolved,
      MtuChanged, Dispatch, ResetBegin, ResetEnd, Sync, gapVars
<1>4. CASE Handler
  <2>0. UNCHANGED <<initiating, link, up>>
    BY <1>4, HandlerFrame
  <2>1. CASE hpc' \notin {"dispatch", "entered", "connected"}
    BY <2>0, <2>1 DEF Pending
  <2>2. CASE Enter
    BY <2>0, <2>2 DEF Enter, Pending
  <2>3. CASE HandleConnect
    BY <2>0, <2>3 DEF HandleConnect, Handling, Break, Pending
  <2>4. CASE HostFault
    BY <2>0, <2>4 DEF HostFault, hostVars, Pending
  <2>5. CASE HostDelete
    BY <2>1, <2>5 DEF HostDelete, DeletePlaces
  <2> QED
    BY <1>4, <2>1, <2>2, <2>3, <2>4, <2>5 DEF Handler, InHandler, HandleDisconnect,
      FinishDisconnect, SelfDeleteOnDisconnect, HandleUnexpectedConnect, StoreHandle,
      ExchangeMTU, FinishConnectFail, HandleTermFailure, HandleEncChange, HandleIdentity,
      HandleMtu, Release, ReleaseDead, ReleaseNobody, HandleLinkEstab, Break, ReturnZero
<1>5. CASE Undefined
  BY <1>5 DEF Undefined, vars, gapVars, hostVars, Pending
<1> QED
  BY <1>1, <1>2, <1>3, <1>4, <1>5 DEF Next

(* The handler takes a connection only for a client that is called to. *)
LEMMA ConnectedPlace ==
  ASSUME Handler, hpc' = "connected"
  PROVE  /\ UNCHANGED ev
         /\ \/ hpc = "connected"
            \/ /\ hpc = "entered" /\ ev.type = "CONNECT"
               /\ config[ev.arg].asyncConnect \/ pTaskData[ev.arg] # None
<1>1. CASE HandleConnect
  BY <1>1 DEF HandleConnect, Handling, Unexpected, Break
<1>2. CASE HostFault
  BY <1>2 DEF HostFault, hostVars
<1>3. CASE HostDelete
  BY <1>3 DEF HostDelete, DeletePlaces
<1> QED
  BY <1>1, <1>2, <1>3 DEF Handler, InHandler, Enter, HandleDisconnect, FinishDisconnect,
    SelfDeleteOnDisconnect, HandleUnexpectedConnect, StoreHandle, ExchangeMTU,
    FinishConnectFail, HandleTermFailure, HandleEncChange, HandleIdentity, HandleMtu, Release,
    ReleaseDead, ReleaseNobody, HandleLinkEstab, Break, ReturnZero

(* Nothing connects the client a task is deleting. *)
LEMMA DeleteNext ==
  ASSUME ~Preempt, ~DeletePending, IInv, DeleteInv, Next
  PROVE  DeleteInv'
<1> USE OwnerAssumption, NoneAssumption DEF IInv, DeleteInv
<1> SUFFICES ASSUME NEW u \in Tasks, pc'[u] \in DeletePlaces, NEW d, cur'[u] = d
             PROVE  /\ ~(hpc' = "connected" /\ ev'.arg = d)
                    /\ config'[d].asyncConnect => ~Pending(d)'
                    /\ pc'[u] \in {"delWaiter", "delFree"} => connHandle'[d] = None
  BY DEF Pending
<1>1. CASE pc[u] \in DeletePlaces /\ cur[u] = d
  <2>0. /\ d \in Clients /\ Owner[d] = u
        /\ pc[u] \notin {"idle", "connConfig", "gapConnect"} /\ pc[u] \notin Published
    BY <1>1 DEF CurInv, DeletePlaces, Published
  <2>1. config'[d].asyncConnect = config[d].asyncConnect
    BY <2>0, AsyncWriters
  <2>2. config'[d].asyncConnect => ~Pending(d)'
    BY <1>1, <2>0, <2>1, PendingGrows
  <2>3. ~(hpc' = "connected" /\ ev'.arg = d)
    <3>1. CASE Handler
      <4>1. config[d].asyncConnect =>
              ~(hpc = "entered" /\ ev.type = "CONNECT" /\ ev.arg = d)
        BY <1>1 DEF Pending
      <4>2. pTaskData[d] = None
        BY <2>0 DEF RecordInv
      <4> QED
        BY <1>1, <3>1, <4>1, <4>2, ConnectedPlace
    <3>2. CASE UNCHANGED <<hpc, ev>>
      BY <1>1, <3>2
    <3>3. CASE Stack
      BY <3>3, StackPlace
    <3> QED
      BY <3>1, <3>2, <3>3, TaskFrame, AppFrame DEF Next, hostVars, Undefined, vars
  <2>4. pc'[u] \in {"delWaiter", "delFree"} => connHandle'[d] = None
    <3>1. ASSUME pc'[u] \in {"delWaiter", "delFree"} PROVE connHandle[d] = None
      <4>1. CASE TaskStep(u)
        BY <1>1, <3>1, <4>1, TaskPlaces
      <4>2. CASE pc'[u] = pc[u]
        BY <1>1, <3>1, <4>2
      <4> QED
        BY <2>0, <4>1, <4>2, PlaceWriters
    <3>2. ~(hpc = "connected" /\ ev.arg = d)
      BY <1>1
    <3>3. ASSUME connHandle[d] = None PROVE connHandle'[d] = None
      <4>1. CASE \E c \in Clients : CreateClient(c)
        BY <2>0, <3>3, <4>1 DEF CreateClient, TypeOK
      <4>2. CASE FinishDisconnect
        BY <2>0, <3>3, <4>2 DEF FinishDisconnect, TypeOK
      <4>3. CASE StoreHandle
        BY <2>0, <3>2, <3>3, <4>3 DEF StoreHandle, TypeOK
      <4> QED
        BY <3>3, <4>1, <4>2, <4>3, HandleWriters
    <3> QED
      BY <3>1, <3>3
  <2> QED
    BY <1>1, <2>2, <2>3, <2>4
<1>2. ASSUME TaskStep(u), pc[u] = "connFailed"
      PROVE  /\ ~(hpc' = "connected" /\ ev'.arg = d)
             /\ config'[d].asyncConnect => ~Pending(d)'
             /\ pc'[u] \in {"delWaiter", "delFree"} => connHandle'[d] = None
  <2>1. cur[u] = d /\ d \in Clients /\ Owner[d] = u
    BY <1>2, TaskOnly DEF DeletePlaces, CurInv
  <2>2. ~config'[d].asyncConnect
    BY <1>2, <2>1, AsyncWriters DEF SyncInv, Waiting
  <2>3. UNCHANGED <<hpc, ev, connHandle>>
    BY <1>2, TaskFrame
  <2> QED
    BY <1>2, <2>1, <2>2, <2>3, QuietTask, TaskPlaces
<1>3. ASSUME NEW c \in Clients, Undisturbed(c), AppDelete(c), u = Owner[c]
      PROVE  /\ ~(hpc' = "connected" /\ ev'.arg = d)
             /\ config'[d].asyncConnect => ~Pending(d)'
             /\ pc'[u] \in {"delWaiter", "delFree"} => connHandle'[d] = None
  <2>1. d = c /\ pc'[u] = "delConnected" /\ UNCHANGED <<config, gapVars, hostVars>>
    BY <1>3 DEF AppDelete, TypeOK, clientVars
  <2>2. ~(hpc = "connected" /\ ev.arg = c)
    BY <1>3 DEF Undisturbed, Deciding
  <2>3. config[c].asyncConnect => ~Pending(c)
    BY <1>3 DEF AppDelete
  <2> QED
    BY <2>1, <2>2, <2>3 DEF Pending, gapVars, hostVars
<1>4. \/ pc[u] \in DeletePlaces /\ cur[u] = d
      \/ TaskStep(u) /\ pc[u] = "connFailed"
      \/ \E c \in Clients : Undisturbed(c) /\ AppDelete(c) /\ u = Owner[c]
  <2>1. CASE TaskStep(u)
    BY <2>1, TaskPlaces, TaskOnly DEF DeletePlaces
  <2>2. CASE pc'[u] = pc[u] /\ cur'[u] = cur[u]
    BY <2>2
  <2>3. CASE pc[u] = "idle" /\ pc'[u] = "delConnected"
    <3>1. ASSUME NEW t \in Tasks, TaskStep(t) PROVE FALSE
      BY <2>3, <3>1, TaskOnly, TaskPlaces DEF DeletePlaces, taskVars
    <3>2. ~(Stack \/ Handler \/ Undefined)
      BY <2>3, RecordFrame
    <3>3. CASE AppCall
      <4>1. ASSUME NEW t \in Tasks, NEW c \in Clients, Connect(t, c) \/ Secure(t, c) PROVE FALSE
        BY <2>3, <4>1 DEF Connect, Secure, TypeOK
      <4>2. ASSUME NEW c \in Clients, AppDelete(c) PROVE u = Owner[c]
        BY <2>3, <4>2 DEF AppDelete, TypeOK
      <4>3. ~ UNCHANGED taskVars
        BY <2>3 DEF taskVars
      <4> QED
        BY <3>3, <4>1, <4>2, <4>3, AppOnly
    <3> QED
      BY <3>1, <3>2, <3>3 DEF Next
  <2> QED
    BY <2>1, <2>2, <2>3, PlaceWriters DEF DeletePlaces
<1> QED
  BY <1>1, <1>2, <1>3, <1>4

(* The connections the client code was told of stay with a client or are   *)
(* terminated: *)

(* no step inside a call orphans one, *)
LEMMA OrphanTask ==
  ASSUME TypeOK, DeleteInv, NoOrphanLink, NEW t \in Tasks, TaskStep(t)
  PROVE  NoOrphanLink'
<1>1. UNCHANGED <<up, connHandle, hpc, ev>> /\ terminating \subseteq terminating'
  BY TaskFrame
<1>2. \A c \in alive \ alive' : connHandle[c] = None
  BY TaskAlive DEF DeleteInv, DeletePlaces
<1>3. up \subseteq Handles
  BY DEF TypeOK
<1> QED
  BY <1>1, <1>2, <1>3, NoneAssumption DEF NoOrphanLink

(* nor does a new call, *)
LEMMA OrphanApp ==
  ASSUME TypeOK, NoOrphanLink, AppCall
  PROVE  NoOrphanLink'
<1>1. UNCHANGED <<up, hpc, ev>> /\ alive \subseteq alive' /\ terminating \subseteq terminating'
  BY AppFrame DEF hostVars
<1>2. \A c \in alive : connHandle'[c] = connHandle[c]
  BY DEF AppCall, Connect, Secure, CreateClient, SecureAsync, Disconnect, AppDelete,
    clientVars, TypeOK
<1> QED
  BY <1>1, <1>2 DEF NoOrphanLink

(* nor an event of the host, *)
LEMMA OrphanStack ==
  ASSUME NoOrphanLink, Stack
  PROVE  NoOrphanLink'
<1> USE DEF NoOrphanLink
<1>0. UNCHANGED <<alive, connHandle>>
  BY StackFrame DEF clientVars
<1>1. CASE \E h \in Handles : ConnComplete(h)
  BY <1>0, <1>1 DEF ConnComplete, hostVars
<1>2. CASE \E h \in Handles : ReportConnect(h)
  BY <1>0, <1>2 DEF ReportConnect, Dispatch
<1>3. CASE \E h \in Handles : ConnBroken(h)
  BY <1>0, <1>3 DEF ConnBroken, Dispatch
<1>4. CASE hpc = "idle" /\ UNCHANGED <<up, terminating>>
  BY <1>0, <1>4
<1> QED
  BY <1>1, <1>2, <1>3, <1>4 DEF Stack, TermFailed, EncChange, IdentityResolved, MtuChanged,
    ConnFailed, Dispatch, ResetBegin, ResetEnd, Sync, gapVars

(* and the handler takes, keeps or terminates every connection it is told *)
(* of. *)
LEMMA OrphanHandler ==
  ASSUME IInv, NoOrphanLink, Handler
  PROVE  NoOrphanLink'
<1> USE NoneAssumption DEF IInv, NoOrphanLink
<1>0. UNCHANGED <<link, up>>
  BY HandlerFrame
<1>1. CASE HostFault
  BY <1>0, <1>1 DEF HostFault, clientVars, gapVars, hostVars
<1>2. CASE FinishDisconnect
  <2>1. connHandle[ev.arg] \notin up
    BY <1>2 DEF FinishDisconnect, EvInv, HostInv, LinkInv, TypeOK
  <2>2. \A c \in alive : connHandle'[c] = connHandle[c] \/ c = ev.arg
    BY <1>2 DEF FinishDisconnect, TypeOK
  <2>3. UNCHANGED <<alive, terminating>> /\ hpc = "onDisconnect"
    BY <1>2 DEF FinishDisconnect, gapVars
  <2> QED
    BY <1>0, <2>1, <2>2, <2>3
<1>3. CASE HandleUnexpectedConnect
  <2>1. CASE ev.status = "OK"
    <3>1. ev.handle \in terminating'
      BY <1>3, <2>1 DEF HandleUnexpectedConnect, Handling, GapTerminate, EvInv, Event, TypeOK
    <3>2. terminating \subseteq terminating' /\ UNCHANGED <<alive, connHandle>>
      BY <1>3 DEF HandleUnexpectedConnect, GapTerminate, clientVars
    <3> QED
      BY <1>0, <1>3, <3>1, <3>2 DEF HandleUnexpectedConnect, Handling
  <2>2. CASE ev.status # "OK"
    BY <1>0, <1>3, <2>2
    DEF HandleUnexpectedConnect, Handling, GapTerminate, EvInv, clientVars, TypeOK
  <2> QED
    BY <2>1, <2>2
<1>4. CASE StoreHandle
  <2>1. ev.arg \in alive
    BY <1>4 DEF Handler, DanglingArgument, HostFault, StoreHandle, hostVars
  <2>2. connHandle'[ev.arg] = ev.handle /\ connHandle[ev.arg] = None /\ ev.arg \in Clients
    BY <1>4, <2>1 DEF StoreHandle, HostInv, TypeOK
  <2>3. \A c \in Clients \ {ev.arg} : connHandle'[c] = connHandle[c]
    BY <1>4 DEF StoreHandle, TypeOK
  <2>4. UNCHANGED <<alive, terminating>> /\ hpc = "connected"
    BY <1>4 DEF StoreHandle, gapVars
  <2> QED
    BY <1>0, <2>1, <2>2, <2>3, <2>4 DEF TypeOK
<1>5. CASE HostDelete
  <2>1. UNCHANGED connHandle /\ terminating \subseteq terminating' /\ hpc \in DeletePlaces
    BY <1>5, DeleteStepLinks DEF HostDelete
  <2>2. alive \ {ev.arg} \subseteq alive' /\ connHandle[ev.arg] = None
    BY <1>5, <2>1, HandlerAlive DEF HostInv, Handler, InHandler
  <2> QED
    BY <1>0, <2>1, <2>2 DEF DeletePlaces, TypeOK
<1>6. CASE HandleConnect
  BY <1>0, <1>6 DEF HandleConnect, Handling, Break, EvInv, clientVars, gapVars, TypeOK
<1>7. CASE Enter
  BY <1>0, <1>7 DEF Enter, clientVars, gapVars
<1>8. ASSUME hpc = "entered" => ev.type # "CONNECT", hpc \notin {"dispatch", "connected"},
             terminating \subseteq terminating', UNCHANGED <<alive, connHandle>>
      PROVE  NoOrphanLink'
  BY <1>0, <1>8
<1>9. CASE HandleDisconnect
  BY <1>8, <1>9 DEF HandleDisconnect, Handling, gapVars
<1>10. CASE HandleTermFailure
  BY <1>8, <1>10 DEF HandleTermFailure, Handling, GapTerminate
<1>11. CASE HandleEncChange
  BY <1>8, <1>11 DEF HandleEncChange, Handling
<1>12. CASE HandleIdentity \/ HandleMtu
  BY <1>8, <1>12 DEF HandleIdentity, HandleMtu, Handling, clientVars, gapVars
<1>13. CASE Release \/ ReleaseDead \/ ReleaseNobody \/ HandleLinkEstab
  BY <1>8, <1>13 DEF Release, ReleaseDead, ReleaseNobody, HandleLinkEstab, clientVars, gapVars
<1>14. CASE SelfDeleteOnDisconnect \/ ExchangeMTU \/ FinishConnectFail
  BY <1>8, <1>14 DEF SelfDeleteOnDisconnect, ExchangeMTU, FinishConnectFail, clientVars, gapVars
<1> QED
  BY <1>1, <1>2, <1>3, <1>4, <1>5, <1>6, <1>7, <1>9, <1>10, <1>11, <1>12, <1>13, <1>14
  DEF Handler, InHandler

-----------------------------------------------------------------------------
(* No step frees the client of a waiting task, *)
LEMMA WStep ==
  ASSUME ~Preempt, IInv, WInv, [Next]_vars
  PROVE  WInv'
<1>1. CASE Next
  <2>1. RecordInv'
    BY <1>1, RecordNext DEF IInv
  <2> QED
    BY <1>1, <2>1, FreeNext, WaiterNext DEF WInv
<1>2. CASE UNCHANGED vars
  BY <1>2 DEF vars, clientVars, taskVars, hostVars, WInv, FreeInv, WaiterPublished
<1> QED
  BY <1>1, <1>2

(* nor one that is connected or about to be. *)
LEMMA DStep ==
  ASSUME ~Preempt, ~DeletePending, IInv, DInv, [Next]_vars
  PROVE  DInv'
<1>1. CASE Next /\ ~Undefined
  <2>1. NoOrphanLink'
    BY <1>1, OrphanTask, OrphanApp, OrphanStack, OrphanHandler DEF Next, DInv, IInv
  <2> QED
    BY <1>1, <2>1, DeleteNext DEF DInv
<1>2. CASE UNCHANGED vars
  BY <1>2 DEF vars, clientVars, taskVars, gapVars, hostVars, DInv, DeleteInv, Pending,
    NoOrphanLink
<1> QED
  BY <1>1, <1>2 DEF Undefined

-----------------------------------------------------------------------------
(* The theorems *)

(* Types: the host task and the tasks only ever hold clients, connections   *)
(* and records that exist.                                                 *)
THEOREM TypeCorrect == Spec => []TypeOK
<1>1. IInv => TypeOK
  BY DEF IInv
<1> QED
  BY <1>1, Invariance, PTL

(* No client is left with the handle of a connection that is not its own,   *)
(* whatever the tasks do between two steps of the handler.                 *)
THEOREM HandlesAreLive == Spec => []ConnHandleLive
<1>1. IInv => ConnHandleLive
  BY DEF IInv
<1> QED
  BY <1>1, Invariance, PTL

(* A task waiting without a timeout has its answer ahead of it, whatever    *)
(* the tasks do between two steps of the handler.                          *)
THEOREM NoWakeupIsLost == Spec => []NoLostWakeup
<1>1. IInv => NoLostWakeup
  BY DEF IInv
<1> QED
  BY <1>1, Invariance, PTL

(* A waiting task's client exists and points to the task's record, when     *)
(* tasks leave a client alone while the handler decides on it: the test of  *)
(* m_pTaskData and the delete are separate steps.                          *)
THEOREM WaitersArePublished ==
  ASSUME ~Preempt
  PROVE  Spec => []WaiterPublished
<1>1. Init => WInv
  BY DEF Init, WInv, FreeInv, WaiterPublished, Published
<1>2. IInv /\ WInv /\ [Next]_vars => WInv'
  BY WStep
<1>3. WInv => WaiterPublished
  BY DEF WInv
<1> QED
  BY <1>1, <1>2, <1>3, Invariance, PTL DEF Spec

(* The client code leaks no connection it was told of, when the application *)
(* also deletes no client whose asynchronous attempt is pending.           *)
THEOREM NoConnectionLeaks ==
  ASSUME ~Preempt, ~DeletePending
  PROVE  Spec => []NoOrphanLink
<1>1. Init => DInv
  BY DEF Init, DInv, DeleteInv, DeletePlaces, NoOrphanLink
<1>2. IInv /\ DInv /\ [Next]_vars => DInv'
  BY DStep
<1>3. DInv => NoOrphanLink
  BY DEF DInv
<1> QED
  BY <1>1, <1>2, <1>3, Invariance, PTL DEF Spec

(* Under the same conditions deleteClient() and the self-deletion free idle *)
(* clients only, although they test well before they free.                 *)
THEOREM DeletionIsSafe ==
  ASSUME ~Preempt, ~DeletePending
  PROVE  Spec => DeletedOnlyWhenIdle
<1>1. Init => WInv /\ DInv
  BY DEF Init, WInv, FreeInv, WaiterPublished, Published, DInv, DeleteInv, DeletePlaces,
    NoOrphanLink
<1>2. IInv /\ WInv /\ DInv /\ [Next]_vars => WInv' /\ DInv'
  BY WStep, DStep
<1>3. IInv /\ WInv /\ DInv /\ [Next]_vars =>
        [\A c \in alive \ alive' : ~isConnected(c)' /\ pTaskData[c] = None]_vars
  <2> SUFFICES ASSUME IInv, WInv, DInv, Next, NEW c \in alive \ alive'
               PROVE  connHandle'[c] = None /\ pTaskData[c] = None
    BY DEF isConnected
  <2>1. ASSUME NEW t \in Tasks, TaskStep(t)
        PROVE  connHandle'[c] = None /\ pTaskData[c] = None
    <3>1. c = cur[t] /\ pc[t] = "delFree"
      BY <2>1, TaskAlive
    <3>2. connHandle[c] = None
      BY <3>1 DEF DInv, DeleteInv, DeletePlaces
    <3>3. c \in Clients /\ Owner[c] = t /\ pc[t] \notin Published
      BY <3>1 DEF IInv, CurInv, Published
    <3> QED
      BY <2>1, <3>2, <3>3, TaskFrame DEF IInv, RecordInv
  <2>2. CASE Handler
    <3>1. c = ev.arg /\ hpc = "delFree"
      BY <2>2, HandlerAlive
    <3>2. HostDelete
      BY <2>2, <3>1 DEF Handler, HostFault, InHandler, Enter, HandleDisconnect,
        FinishDisconnect, SelfDeleteOnDisconnect, HandleUnexpectedConnect, HandleConnect,
        StoreHandle, ExchangeMTU, FinishConnectFail, HandleTermFailure, HandleEncChange,
        HandleIdentity, HandleMtu, Release, ReleaseDead, ReleaseNobody, HandleLinkEstab,
        Handling, clientVars
    <3> QED
      BY <3>1, <3>2 DEF HostDelete, IInv, HostInv, DeletePlaces, WInv, FreeInv
  <2>3. CASE AppCall
    BY <2>3, AppFrame
  <2>4. CASE Stack \/ Undefined
    BY <2>4, StackFrame DEF Undefined, vars, clientVars
  <2> QED
    BY <2>1, <2>2, <2>3, <2>4 DEF Next
<1> QED
  BY <1>1, <1>2, <1>3, Invariance, PTL DEF Spec, DeletedOnlyWhenIdle
=============================================================================
