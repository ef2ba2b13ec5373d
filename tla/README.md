# NimBLE-Arduino: models, checks and proofs

A TLA+ development of the C++ library in `src/src/*.cpp` and of the part of the
NimBLE host under `src/src/nimble/nimble/host` that the library calls and is called
back by. Eight modules cover what the library's users depend on: the *central* (client
objects, connecting, securing, deleting), the *peripheral* (GATT server, advertising,
host reset), *reading and writing* a peer's attributes, *L2CAP channels*, the *scanner*,
*notifications and indications*, *the values of attributes and their access by peers*,
and *advertising payloads*. TLC checks small instances of all of them, under
fairness where the question is whether something happens at all; TLAPS proves theorems
about every one of them for all values of the constants (section 10).

| file | contents |
|---|---|
| `NimBLEClient.tla` | the central: `NimBLEClient.cpp`, slots and host reset of `NimBLEDevice.cpp`, the rendezvous of `NimBLEUtils.cpp`, the GAP procedures they use |
| `NimBLEClientProofs.tla` | its inductive invariant and theorems |
| `NimBLEServer.tla` | the peripheral: `NimBLEServer.cpp`, `NimBLEService.cpp`, `NimBLEAdvertising.cpp`, host reset and sync, the host's attribute database |
| `NimBLEServerProofs.tla` | its six theorems |
| `GattClient.tla` | `readValue()` and `writeValue()` of `NimBLERemoteValueAttribute.cpp`, the procedures of `ble_gattc.c`, the ATT bearer of `ble_att.c` and `ble_att_cmd.c` |
| `GattClientProofs.tla` | one outstanding request, procedures that end before their calls, answers that reach who asked |
| `L2capCoc.tla` | `NimBLEL2CAPChannel.cpp` on `ble_l2cap_coc.c` and `ble_l2cap_sig.c`, both ends of a channel |
| `SduChannel.tla` | what such a channel promises; `L2capCoc` is checked to implement it |
| `L2capCocProofs.tla` | the conservation of credits |
| `NimBLEScan.tla` | `NimBLEScan.cpp` on the discovery procedure of `ble_gap.c` |
| `NimBLEScanProofs.tla` | the life of results and devices, the release of who waits |
| `GattNotify.tla` | `NimBLECharacteristic::notify/indicate` on `ble_gatts.c`, `ble_gattc.c` and the CCCD store |
| `GattNotifyProofs.tla` | what is behind an indication that waits and behind a timeout; the store follows the CCCDs, no update is lost |
| `AttServer.tla` | `NimBLEAttValue.cpp` behind `NimBLEServer::handleGattEvent()` and the queued writes of `ble_att_svr.c` |
| `AttServerProofs.tla` | the pool of prepared writes, and memory that is only used while it is there |
| `AttributeStore.tla` | what an attribute server promises; `AttServer` is checked to implement it |
| `NimBLEAdvData.tla` | `NimBLEAdvertisementData.cpp` and the two payloads of `NimBLEAdvertising.cpp` |
| `NimBLEAdvDataProofs.tla` | the flag of loaded data, the buffer of service data |
| `AdvertisedFields.tla` | the lists of fields these calls edit; `NimBLEAdvData` is checked to implement it |
| `MC*.tla`, `*.cfg` | instances for TLC |
| `PROJECT.json` | components, runs, mutants, source map, findings, hazards, theorems |

## 1. Inventory

The library is callback-driven C++ over one *host task* (`NimBLEDevice::host_task`,
which runs the NimBLE event queue). Application tasks call the library directly; the
host calls back into static `handleGapEvent()` functions on the host task. **No lock
is shared between the two sides**: C++ objects are read and written by both, and the
host's own lock covers its C structures only, and is released around every callback,
every send and every access to the store. That is why interleaving is the main hazard
of this code base, and why five modules have a switch that says how much of it there
is (`Preempt` or `Parallel`; of `NimBLEScan`, the application's `cores`). In four of them FALSE
is the discipline of the examples and of a host task with the highest priority on a single
core, whose handlers run to completion; TRUE is a second core, or a handler that blocks.
`NimBLEClient` needs less: there, with FALSE too, tasks run inside the handler, but leave a
client alone between the handler's test of it and what the handler does about it.
`L2capCoc` and `AttServer` always have both sides in parallel; `AttServer` names the values
that each side may touch.

| component | state | operations | hard behaviour | what makes it correct | module |
|---|---|---|---|---|---|
| Client objects (`NimBLEClient`) | `m_connHandle`, `m_pTaskData`, `m_config`, `m_terminateFailCount`, `m_asyncSecureAttempt` | `connect`, `secureConnection`, `disconnect`, `setSelfDelete`, `handleGapEvent` | answers that cross timeouts, self-deletion under a waiting call, host reset | a handle is a live link of that client; no link is leaked; a waiter can always be released; no client is freed while in use | `NimBLEClient` |
| Device (`NimBLEDevice`) | `m_pClients`, `m_synced`, bond and white lists | `createClient`, `deleteClient`, `init`, `deinit`, `onReset`, `onSync` | a reset between any two steps of a call | slots hold live objects only; state is rebuilt after a sync | `NimBLEClient`, `NimBLEServer` |
| Rendezvous (`NimBLEUtils::taskWait/taskRelease`) | a record on the caller's stack, and a notification bit or a semaphore | wait, release | late release, two releases, one bit for all waits of a task | a wait ends by its own release | all with a blocking call |
| GATT server (`NimBLEServer`, `NimBLEService`) | service vector, removed flags, handles, `m_gattsStarted`, `m_svcChanged`, `m_connectedPeers` | `createService`, `start`, `addService`, `removeService`, `resetGATT`, GAP events | the database may be changed only with nothing on the air | objects, queue and database agree; removed is invisible; peers = connections | `NimBLEServer` |
| Legacy advertising (`NimBLEAdvertising`) | `m_advDataSet`, `m_duration` | `start`, `stop`, `onHostSync` | called from two tasks; restarts after a reset | advertises with data; what was interrupted, and nothing else, resumes | `NimBLEServer` |
| Host GAP, database, SM (C) | master/slave state, connections, `ble_gatts_*` lists | connect, cancel, terminate, discover, security, register, hide, reset | asynchronous events, EBUSY/EALREADY answers | as used by the others | all |
| Remote attributes, GATT client, ATT bearer | the caller's task data, `ble_gattc_procs`, `client_att_busy`, `att_tx_q` | `readValue`, `writeValue`; send, receive, expire, stall, resume, break | answers that name neither handle nor offset; a request on the air before its procedure is in the list; retries after an encryption | a call gets its own data, once; one request is outstanding; a waiter has a procedure | `GattClient` |
| L2CAP channels | `stalled`, `m_pTaskData`, credits and buffers of both ends | `connect`, `write`, `disconnect`, events | credits lost or given twice, lost wakeup of the unstalled event, disconnect while writing | SDUs arrive whole, once, in order; the ends never wait for each other for ever | `L2capCoc` |
| Scanner (`NimBLEScan`) | results vector, `m_pTaskData`, the discovery procedure | `start`, `stop`, `getResults`, `clearResults`, report handler | results deleted while read, a blocking call and a restart share a pointer | no result is used after deletion; every call returns | `NimBLEScan` |
| Local characteristics, client configurations | value, CCCD flags per connection, CCCD records of bonded peers, `indicate_val_handle`, indication procedures | `notify`, `indicate`, CCCD writes, confirmations, timeouts, bonding and its restoration | updates that coalesce, wait for a confirmation, or outlive the connection | a subscriber gets the last value; the store follows the subscription | `GattNotify` |
| Values (`NimBLEAttValue`), attribute access by peers | lengths, capacity, block; `basc_prep_list`, the pool of prepared writes | `setValue`, `getValue`, read, write, prepare, execute, timeout | a value is emptied, grown and filled in three steps; queued writes of several peers from one pool | a value is one that somebody set; queued parts become it together or not at all; no entry is lost | `AttServer` |
| Extended advertising | instances | `start`, `stop`, ... | alternative build of advertising | | not modelled |
| Payloads (`NimBLEAdvertisementData`) | bytes; `m_advDataSet`, `m_scanResp` | add, remove, replace, clear, load, refresh | length arithmetic by hand; a flag that many paths must clear | the bytes are the fields that were asked for; the controller has what the flag says | `NimBLEAdvData` |
| Addresses, UUIDs, beacons, Eddystone | byte strings | sequential encoding | | | not modelled |
| Info, logging, HID tables, rest of the stack, docs | none of the library's own | | | | not modelled |

Interactions: `connect()` publishes a record (`m_pTaskData`) and sleeps, the host task
finds the record in the client that is the event's argument and releases it;
`deleteClient()` and self-deletion free the object both use. Reads, writes and scans use
the same rendezvous with a record on the caller's stack, which the host reaches through
the procedure's callback argument (GATT) or a member (scan, L2CAP). On the server side
`NimBLEAdvertising::start()` starts the GATT server, `resetGATT()` (from a DISCONNECT)
unregisters everything and queues it again, and the next `start()` registers it.
`NimBLEDevice::onReset/onSync` cut through all of it.

## 2. The central: `NimBLEClient`

**State.** Each variable is a member of the source, named in its declaration's comment.
`pc`, `cur`, `flags`, `notified`, `retry` are what an application task has on its stack
inside a call; `hpc`, `ev`, `hTask`, `hrc` are what the host task has inside
`handleGapEvent()`. `link`, `up`, `terminating`, `hangup`, `sm`, `initiating`, `cancel`
are the host's. `released` and `hLive` are history variables: they record who released
the current record, and whether the record behind the handler's local copy still exists.

**Actions.** One for each access to what decides who exists, who waits and who is connected,
on both sides. `connect()` is `Connect` (checks), `ConnectConfig` (its arguments are stored),
`GapConnect`/`GapConnectRefused`, `ConnectPublish` (`m_pTaskData = &taskData`),
`ConnectWoken`/`ConnectTimeout` (the two ends of `taskWait`), `ConnectCheck`, `ConnectCancel`,
`ConnectUnpublish`, then `ConnectFailed` or `ConnectReturn`. `secureConnection()` is `Secure`
(record and loop entry), `SecureStart`, `SecureStartFails`, `SecureWoken` with `SecureLoop` (the
retry), `SecureReturn`. `CreateClient`, `Disconnect`, `SecureAsync` are the calls that do not wait.
`deleteClient()`, which both sides call, is `DeleteStep`: is it connected, mark it, disconnect;
or does somebody wait, mark it, cancel; or free it. `AppDelete` enters it from the application,
`ConnectFailed` from `connect()`, `SelfDeleteOnDisconnect` and `FinishConnectFail` from the handler;
`TaskDelete` and `HostDelete` are its steps on the two sides.

Host events (`ConnComplete`, `ReportConnect`, `ConnFailed`, `ConnBroken`, `TermFailed`,
`EncChange`, `IdentityResolved`, `MtuChanged`) change the host's state as `ble_gap.c`
does before it calls the handler. The handler begins with its copy of `m_pTaskData` (`Enter`);
DISCONNECT is `HandleDisconnect` up to the callback, `FinishDisconnect` (the handle is cleared),
`SelfDeleteOnDisconnect` (what `m_config` says) and `HostDelete`; CONNECT is
`HandleUnexpectedConnect`, or `HandleConnect` (the test of the client), `StoreHandle`, `ExchangeMTU`
and `FinishConnectFail`; the other cases are an action each. The common end is `Release`,
`ReleaseDead` or `ReleaseNobody`. A release through a pointer to a returned function's frame is
undefined behaviour: `ReleaseDead` chooses among the outcomes a build can have (the write lands in
a new record of that task, or nowhere; the notification reaches the task, or not). A host reset
breaks connections and procedures one event at a time (`ResetBegin`, `ResetEnd`, `Sync`) with the
tasks running in between. A client that is touched after it was freed, by a task (`TaskFault`) or by
the handler (`HostFault`), sets `fault`; nothing is modelled after that.

Still one step are: the condition of line 985, which reads `m_connHandle`, `m_config` and
`m_pTaskData`; `m_connHandle` read as the argument of a host call; `m_asyncSecureAttempt` with its
test; the search of a client's slot with the first read of the client; and the delete expression with
the clearing of the slot.

**Assumptions on use.** `Owner`: one task at a time calls methods of a client. The library
has one `m_pTaskData` per client and no lock, so two tasks on one client is outside what
it can support. `Preempt = FALSE`: a task leaves a client alone while the handler is between a test
of it and what it does about it (`Deciding`: from the test of a CONNECT to the new handle, from the
cleared handle of a DISCONNECT over `deleteClient()` to its return, and the callback of a
failed asynchronous connect if the client is to be deleted behind it). A single core with the host task
above the application guarantees that, apart from a callback that blocks; on two cores it is a rule
for the application, which the library neither states nor enforces. `DeletePending = FALSE`:
`deleteClient()` is not called while the CONNECT of an asynchronous `connect()` is to come. Return codes are reduced to the ones the code tells apart (`RC`).

**Runs.**

| run | instance | question |
|---|---|---|
| `client_small` | 1 client, 1 task, 1 handle, every argument of `connect()`, self-deletion always or never (`AllOrNothing`), `Preempt = DeletePending = FALSE`, fairness; 697,168 states | `TypeOK`, `ConnHandleLive`, `NoOrphanLink`, `WaiterPublished`, `NoLostWakeup`, `DeletedOnlyWhenIdle`, `CallsReturn` |

One client with one handle is enough for everything between a client, its task and its
own events: handles are recycled (a new connection gets the handle just freed), events
of an earlier attempt reach a later one, and the client can be deleted and created anew
in the same slot. What two clients add, an event or a cancel that meets another client's
procedure, is left to the theorems of section 10: they are about any number of clients,
tasks and handles. `MaxAttempts = 2` bounds asynchronous security attempts that nobody
answered; the code distinguishes only 0, 1 and more.

**Fairness** (`FairSpec`, for `CallsReturn`). Weak fairness of each task and of the
handler: FreeRTOS schedules a ready task. `SF(EncChange)`: a security procedure ends, at
the latest by the 30 s timer of `ble_sm.c`; strong because another event may be in the
FIFO in front of it again and again, but is not so forever. Weak fairness of the
reset's own loop, which is one function (`ble_hs_reset`). Nothing is assumed of the peer
or of the application. The timeout of `connect()` is always enabled: `taskWait` has a
finite time there. `CallsReturn` allows the undefined behaviour of a side that touches
a deleted client (section 11) as an end. The runs have the FreeRTOS build (`SharedBit`);
the theorems cover the semaphore as well.

**Where the properties stop holding.**

- `Preempt = TRUE`: `connect()` or `secureConnection()` begins between the handler's
  `m_connHandle = NONE` (`NimBLEClient.cpp:967`) or its test of `m_pTaskData`
  (`NimBLEDevice.cpp:370`) and the `delete` (389): the client is freed under the call.
  `WaiterPublished`, `DeletedOnlyWhenIdle` and `NoUseAfterDelete` fail. `NoOrphanLink` fails: a client that
  is deleted between the test and the new handle of a CONNECT leaves its connection behind. `TypeOK`,
  `ConnHandleLive`, `NoLostWakeup` hold, and are proved without the assumption; so does `CallsReturn` (all
  with `DeletePending = TRUE` as well: 1,025,929 states).
- `DeletePending = TRUE`: `deleteClient()` tests for a connection and for a waiter, and an
  asynchronous connect has neither until its CONNECT is handled; `NoOrphanLink` and
  `DeletedOnlyWhenIdle` fail when that happens between the tests and the `delete`.

## 3. The peripheral: `NimBLEServer`

**State.** The server object (`vec`, `removed`, `handle`, `built`, `gattsStarted`,
`svcChanged`, `peers`), the advertising object (`duration`, `advDataSet`), `synced`; of
the host, the definitions queued for the next start (`queue` = `ble_gatts_svc_defs`), the
registered ones (`db`, whose indices are the handles, and `hidden`), the entry table
(`entries`, `entriesFreed`), `links`, `adv`, `scanning`, `hostUp`; of the controller,
whether it has advertising data (`ctrlData`). A connection is `pending` until CONNECT is
reported (the host first reads the peer's features), then `up`, or `failed` if it was
reported with a status.

**Actions.** `createService`, `ServiceStart` (`NimBLEService::start`), `removeService` with
`Hide`, `deleteRemovedService`, `addService`, `startAdvertising`, `stopAdvertising`,
`AdvExpired`, `Scan`. `NimBLEAdvertising::start()` is `EnterStart`, `GattsStart` (under the
host's lock), `ServerStarted`, `AdvData`, `AdvStart`, on either task. The host's events are
`ConnComplete`, `OnConnect`, `OnConnectFailed`, `ConnBroken` with the handlers' bodies;
`resetGATT()` is `ResetStop`, `ResetGatts`, `ResetServices`, then `AfterDisconnect`. A host
reset is `ResetBegin`, `ConnBroken` per connection, `HostSync`, `OnHostSync`. `Mutable` is
`ble_gatts_mutable()`. Where the code asserts or uses freed memory the model stops
(`fault`). Selecting from a vector (`Those`) is a recursive function and not `SelectSeq`,
which the prover cannot expand.

**Switches.** `Parallel = FALSE` restricts the application to callbacks of the host task
(the pattern of the examples): no call overlaps a handler. `EarlyEdits = FALSE` keeps the
discipline the code needs: services are started before the server, with nothing on the
air, and removed and re-added while it runs. `Central` lets the application scan.
`AdvOnDisc` is `m_advertiseOnDisconnect`.

**Runs.**

| run | instance | question |
|---|---|---|
| `server_seq` | 2 services, 2 connections, `Parallel = FALSE`, `EarlyEdits = FALSE`, 1 host reset | `TypeOK`, `PeersMatchLinks`, `ServedServices`, `RemovedInvisible`, `AdvDataLoaded` |
| `server_par` | 1 service, 1 connection, application task in parallel, scanning, 1 host reset, fairness | `GattStable`, `AdvertisingRestored` |

Two services are needed for a handle that names another service, and for order in
the database; two connections for slots that free out of order and for a
disconnect while another connection is being made. `MaxQueue` bounds the queued
definitions: in `server_seq` the queue never gets longer than 3, so its 4 cuts nothing; in
`server_par` a rebuild that overtakes `start()` may queue a service again and again, and 3
cuts what comes after two such rebuilds (the two properties of that run are about the
database and advertising, not about the queue). One host reset
suffices for the reset's own questions: everything it writes it writes to fixed values.

*What the switches hide.* With `Parallel = TRUE` neither `ServedServices`,
`RemovedInvisible` nor `AdvDataLoaded` holds: `start()` of the application is overtaken by
`resetGATT()` or by reset and sync on the host task (services registered twice,
advertising without a started server, advertising without data). With `EarlyEdits = TRUE`,
a service removed between a rebuild and the next start is matched against the previous
database and comes back. With `Central = TRUE`, a start that is refused because of a scan
has emptied the queue already: `ServedServices` fails, the two others hold. The hazards name them (and `ReadyWhenAdvertising`, section 11). `GattStable`, `PeersMatchLinks` and `TypeOK` do not depend on the switches, and are
proved without them; the theorems about the others name the switches they need.

**Fairness** (`FairSpec`, for `AdvertisingRestored`). The host task runs (weak fairness of
`HostStep`), and a reset that began finishes: its connections are broken one after
another, then the host syncs, as `ble_hs_reset()` and its retry timer do. No fairness for
the application: it may stop anywhere, including in the middle of `start()`, but not
forever be required to act.

## 4. Reading and writing a peer's attributes: `GattClient`

**State.** Per connection: whether it is up, the bearer (`busy` = `client_att_busy`,
`txq` = `att_tx_q`), the requests the peer has (`air`); `procs` is `ble_gattc_procs`, in
its order. A task's `call` is the frame of `readValue()` or `writeValue()` with its
`NimBLETaskData`; `bit` is its notification bit. A value is a sequence of chunks, each as
long as one request carries, tagged with the attribute and position it came from: enough
to see data that is mixed up, lost or repeated, and nothing else. Handles and offsets
are in requests, not in answers, as in ATT.

**Actions.** `readValue`/`writeValue` begin; `Send` transmits and `Insert` puts the
procedure in the list *afterwards*, as `ble_gattc_read_long()` does; `Wake`, `AfterWait`,
`Secure`, `Return` are the loop of `readValue()`/`writeValue()`: the one retry after an
encryption, the short read or write when the attribute is not long. On the host task,
`Receive` frees the bearer and sends the next request of the queue, `Dispatch` extracts
the procedure and runs its handler (`ReadLongRsp`, `PrepRsp`, `ErrorRsp`, ...), which
may resume it, and `Reinsert` puts it back. `Expire` is the 30 s timer, `ResumeStalled`
the procedures that had no buffer, `Break`, `Delete` and `Connect` the connection.
The value that a read collects is limited where the code does it, in `ReadRsp`
(`onReadCB()`), which ends the read with an error. What `ble_gattc_extract()` leaves in the list
(`Kept`) keeps its order. `Answer` is the peer, which may refuse, answer in order, or stay silent (external).
`Callback` writes into the caller's frame only while the call lives (`live`): what it
would do to a frame that is gone is excluded by `ProceduresEndWithCalls`, which is
checked, and proved under the two conditions of section 10.

**Runs.**

| run | instance | question |
|---|---|---|
| `gatt_race` | 1 connection, a reader of 3 chunks and a writer of 1 to 3, `Preempt`, `NoMem` | `ReadIntegrity`, `TrueMeansWritten`, `OneRequestOutstanding`, `ProceduresEndWithCalls` |
| `gatt_serial` | 1 connection, two readers of 2 chunks, one of them also writing 1 to 3, a peer that refuses, handlers to completion, fairness | `TypeOK`, `WaiterHasProcedure`, `CallsReturn` |
| `v_swap` | 2 connections, a reader on each | section 11 |

Three chunks have a first, a middle and a last answer; two tasks on one connection are
the least for which an answer can have two candidates, and `MaxQueue` lets a request
wait behind another one (more tasks than two cannot queue more than one each). `AttrMax`
is the longest attribute in chunks; in `gatt_serial` it is less than the longest write,
so that the refusal in the middle of a long write happens.

**Fairness.** A ready task runs (strong fairness: the host task may interrupt it again
and again), the host task handles what it has, the timer of a procedure expires. A peer
need not answer.

**Where the properties stop holding.** Each was tried by changing one constant of a run;
each is a hazard in `PROJECT.json`.

- `WaiterHasProcedure` with `Preempt = TRUE`: a call that begins between
  `ble_gap_conn_broken()` failing the procedures and deleting the connection
  (`ble_gap.c:1592`) puts a procedure in the list that nothing will ever end but the
  timer. With two stalled procedures: `ble_gattc_resume_procs()` takes both out, and
  putting the first back through the same link field ends the walk (`ble_gattc.c:1235`).
  With a peer that refuses a later prepare: the cancel's answer frees the next long
  write without a callback (`ble_gattc.c:4192`).
- `ProceduresEndWithCalls` and `ReadIntegrity` with a peer that says "attribute not long"
  to a read: `readValue()` starts the short read and leaves its loop without waiting
  (`NimBLERemoteValueAttribute.cpp:147`). Also for values longer than the longest
  attribute with `Preempt = TRUE`: the double callback of a refused long write.
- `ReadIntegrity` with `LateAnswers = TRUE` (an answer after the 30 s meets the next read),
  with two readers on one connection and `NoMem` or `Preempt` (a resumed or late
  inserted procedure is overtaken in the list), and with two connections (`v_swap`). With a
  peer that asks for security in the middle of a long read: `readValue()` retries
  without emptying what it has collected (`NimBLERemoteValueAttribute.cpp:127`), and the
  value returned has its first part twice.
- `TrueMeansWritten` with two writers on one connection and a peer that refuses an execute
  write: the refusal drops what is prepared of both, and the other's execute succeeds.

## 5. L2CAP channels: `L2capCoc` implements `SduChannel`

**State.** One channel between a device that opens and writes and a device that accepts
and reads, both running this code. `tx` and `rx` are `coc_tx` and `coc_rx` with credits,
offset and flags; `toA` and `toB` are the two directions of the link, which keep order;
`w` is the frame of `write()`; `stalled`, `published`, `bit` are the rendezvous with the
unstalled event. An SDU is a number of frames, and a frame knows which part of which
SDU it is.

**Actions.** `write`, `Fragment`, `Woken`, `Send`, `MarkStalled`, `WriteReturns` are
`write()` and `writeFragment()` with the retries; `SendFrames`, `SendFails` and `SendEmpty` are
`ble_l2cap_coc_continue_tx()`, which goes on with the SDU (`Continues`) or ends with the first frame that
fails (`Fails`), and sends an empty frame if a failure left the offset at the end of the SDU; it is run by the writer (`Send`) or by the host task when
credits arrive (`Credits`, which defers the unstalled event: `Unstalled`). `FrameArrives`
is `ble_l2cap_coc_rx_fn()` with credits given per SDU and per frame (`SduComplete`,
`SduPartial`). `ConnectReq`, `ConnectRsp`, `disconnect`, `Disconnect`, `ConnBroken` are the
signals. `fault` names a use of memory that is gone; the writer goes no further.

**Runs.** `coc`: 2 credits, SDUs of 1 to 3 frames (the longest takes one more frame than
there are credits, since the length header takes room: that is the case in which the
last credit must be returned in the middle of an SDU), up to 4 SDUs per channel (a
write of two fragments, and another one), refused channels, disconnects, lost link;
`CreditConservation` (a receiver's count is the sender's plus what is in flight; frames in flight, `FramesIn`, are
counted by the set of their places) and
`ImplementsChannel`: with the mapping `accepted`, `delivered`, `open`, every step is a step
of `SduChannel` or a stutter, and `WF(open /\ Deliver)` follows from the fairness of the
two host tasks. 39,668 states. `CHECK_DEADLOCK FALSE`: a channel whose writer used freed
memory, or whose SDUs are used up, stops.

**Where the properties stop holding.** With `TxNoMem = TRUE` `ImplementsChannel` fails: a send
that fails in the middle of an SDU keeps `data_offset`, so that the next SDU starts in
its middle, and the SDU is freed twice (`ble_l2cap_coc.c:559`, `NimBLEL2CAPChannel.cpp`).
`CreditConservation` fails too: a failure at the end of an SDU makes the next frame an empty one, the
receiver takes it for the start of an SDU and returns before it has counted the credit
(`ble_l2cap_coc.c:206`). With `LoseCredits = TRUE`, `ble_l2cap_coc_recv_ready()` counts credits as
given that were never sent, and the channel stops for ever: both fail. After a refused `connect()` the channel object keeps a pointer
to the freed channel (`handleConnectionEvent()` does not look at the status); that is
part of the model (`ptr`), since what follows from it is in the code.

## 6. The scanner: `NimBLEScan`

**State.** `disc` is the discovery procedure, `results` the vector of devices (of each,
how often it was reported, counted to 2, and whether its first report was an
advertisement), `alive` whether the device object that the host task points to, from the search
over its callbacks, still exists, `ptask` `m_pTaskData`, `call` a task's call. `app` is the
application, chosen initially from `Apps`: what each task calls, which callbacks stop a scan or
start one, whether the host is reset, and whether tasks run inside the host task's handlers.

**Actions.** A report is `Report`, `CheckReport` (`isScanning()`), `FindDevice` (the search, and
the limit), `UpdateDevice` or `CreateDevice` (`push_back()`), `Discovered` (`onDiscovered()`), `Result`
(`onResult()`) and `DropReported`; in the two callbacks the application may call
`stop()`. DISC_COMPLETE is `Complete` (with `onScanEnd()`, in which a new scan may start)
and `CompleteReleases`; it comes from `Expire`, `PreemptScan`/`PreemptDone` or `Reset`, the
latter with `ResetState` behind it and `Sync`. `getResults()`, `start()`, `stop()`,
`clearResults()` are one action per access to shared state. Not in the model: the check
that a device is already connected, and the bytes of a report.

**Run** `scan`: 2 advertisers (one scannable), `setMaxResults` 0 and 1 (so that results are
dropped, or limited and kept), and two applications (`Disciplined`). `OneCore`: a task that waits
(`getResults`) and one that starts, stops and clears, callbacks that stop a scan whose results are
kept and restart a finished one, host resets; handlers run to completion. `TwoCores`: one task that
waits for its scans, at work whenever it can, inside the handlers too. 291,567 states. `TypeOK`,
`DeviceAlive`, `NothingKept`, `WaiterHasScan`, `CallsReturn`. Fairness: ready tasks run, the
host task handles, and a scan's timer expires: durations are finite.

`DeviceAlive` is about `TwoCores`, where nothing but the wait keeps the task from the vector: its
next `getResults()` clears what the handler points to, and the mutant, a notification that is not
taken back by the wait that it ended, lets it do so. On one core the property rests on the test of
`m_maxResults` in `stop()`.

**Where the properties stop holding.** With a second task on the other core
(`Apps <- TwoCoresTwoTasks`) `DeviceAlive` fails, since the task clears the vector under the
handler, and so does `NothingKept`: `stop()` between `isScanning()` and `push_back()` leaves a device
behind the end of the scan. `DeviceAlive` fails also if a callback calls `stop()` with
`setMaxResults(0)` (`CallbackStopsAll`): the device is freed behind the callback that
`handleGapEvent()` returns to. `WaiterHasScan` fails with two callers of `getResults()`
(`TwoGetters`), and on two cores with a host reset (`TwoCoresResets`), which resets the state of
the scan a second time behind the event (`ble_gap.c:1521`) and forgets a scan that has just
been started again.

## 7. Notifications and indications: `GattNotify`

**State.** `cccd` are the client configurations of a connection: what the peer subscribed
to, and MODIFIED, "a value is owed". `waiting` is `indicate_val_handle`, `procs` the
indication procedures of each peer, `busy`/`txq` the ATT bearer, `event` the queued
`ble_hs_ev_tx_notifications`; `store` the CCCD records of bonded peers with
`value_changed`. `send` is where each side is in `ble_gatts_notify_custom()` or
`ble_gatts_indicate_custom()`, `host` where the host task is, with the record it holds
outside the lock. A value is its version. `promised` is a history variable: the version
that was current when the application last called `notify()`/`indicate()` while the peer
was subscribed, on its connection or in a record.

**Actions.** `setValue`, then `SendToOne` (`notify(connHandle)`, `indicate(connHandle)`) or
`ChrUpdated` with `ReadRecord`/`WriteRecord` (`ble_gatts_chr_updated()`: connections under
the lock, records one by one without it). `TxNotifications`, `TxOne`, `TxDone` are
`ble_gatts_tx_notifications()`; `ReadValue`, `SendValue`, `MarkWaiting`, `InsertProc` are a
send, whose four parts other tasks can come between. `Confirmation`, `Persist`,
`SendNextIndicate` handle a confirmation, `CccdWrite` and `Persist` a write of a CCCD.
`Expire` is the timeout, which tells the connection to end. It needs a peer that was silent, with nothing of it on the way (`NothingOnTheWay`). `Break` and
`Delete` are its end. `Pair` with `BondOne`, `BondRecord`, `BondDone` is the walk of
`ble_gatts_bonding_established()` over the CCCDs, which leaves the lock for each record it
stores; `Encrypt` with `RestoreOne`, `RestoredSent`, `RestoreDone` is the restoration. Peers receive, confirm or not, and write CCCDs (external).

**Runs.** `notify_bond`: a peer that may bond, one characteristic whose value changes
three times, each time sent to all who are subscribed, handlers to completion: `TypeOK`, `NoUpdateLost` (what was promised is seen, or
still to be sent: owed on the connection, in flight, or recorded for a bonded peer that
is away), `StoredAsSubscribed`, `TimeoutOnlyIfSilent` (72,688 states).
`notify_race`: two characteristics, each changing once, sent to all or to one peer, `Preempt = TRUE`:
`IndicationHasProcedure`, `UpdateArrives` (182,322 states). Three versions after the first one
show an update on the air, one that is noted and one that overtakes both; two characteristics compete for the one
indication. Fairness: tasks run, the link delivers, a procedure without a confirmation
expires, and a connection that was told to end ends; a peer may stay silent.

**Assumptions on use.** `CarefulPeer`: peers encrypt before they write a CCCD, and do not
write a subscription that they have. The host has buffers. One application task. For
`NoUpdateLost`, what is promised to all is not also sent to single peers with
`indicate(connHandle)` or `notify(connHandle)` (`Calls = {"all"}`); the other three properties of
`notify_bond` do not need that.

**Where the properties stop holding.**

- `CarefulPeer = FALSE`: rewriting a CCCD with the value it has drops MODIFIED, since the
  flags are replaced (`ble_gatts.c:940`): `NoUpdateLost` fails. A CCCD written before the
  link is encrypted is not recorded, and then overwritten by the restored one:
  `StoredAsSubscribed` fails.
- `NoMem = TRUE`: MODIFIED is cleared before the send that fails: `NoUpdateLost` fails.
- `Calls = {"all", "one"}` with `MaxValue = 3`: `indicate(connHandle)` does not look at
  `indicate_val_handle`, so a second indication can be queued behind an unconfirmed one
  (`ble_att_cmd.c:58`). A notification does not wait: it overtakes the queued indication, and the
  peer is left with the older value. And the confirmation of the first, if it is of the same
  characteristic, clears `value_changed` in the record while the second is still in flight: if the link
  breaks then, nothing is sent at the peer's return. `NoUpdateLost` fails, with two versions it does not.
- `Preempt = TRUE` with bonds: `ble_gatts_chr_updated()` writes back a record it read before
  the peer changed its subscription (2183): `StoredAsSubscribed`, `NoUpdateLost` and
  `UpdateArrives` fail. With `SendToOne` an indication may be confirmed before its
  procedure is inserted, or inserted after its connection broke; it then times out:
  `TimeoutOnlyIfSilent` fails.
- Two peers and `Preempt = TRUE`: `ble_gatts_chr_updated()` stops its walk at a connection
  whose CCCDs are gone already (2124): `NoUpdateLost` fails for the peers behind it.

## 8. Values and their access by peers: `AttServer` implements `AttributeStore`

**State.** `val` is each `NimBLEAttValue`: its block (`buf`), `m_attr_len`, `m_capacity`, and
whether the block was moved by `realloc` while the object still points to the old one
(`moved`). `prep` is `basc_prep_list` of each connection, `pool` the free entries of the pool
that all connections share, `x` the request in the host task's hand, `t` what the two tasks
are doing with a value. `visible` is `ble_att_svr_list`. `fault` names an access to memory
that is not there; the system stops at it.

**Actions.** Setting a value has four steps, as in the code: `SetZero` ("just set the value
length to 0 and append"), `SetGrow` (the capacity check and `realloc`, not in a critical
section; the block stays or moves, nondeterministically), `SetCopy` (the critical section), and
`SetCompare`, the `memcmp` that `setValue()` returns, which reads the given number of bytes from the
block outside the critical section, whatever `append()` did with them.
The application's task begins with `AppSet` or reads with `AppGet`/`AppGetCopy` (`deepCopy()`).
On the host task `RxRead` leads to `onRead()` (`Callback`, which may set a value) and
`ReadCopy`; `RxWrite` to the four steps and `onWrite()`; `RxPrepWrite` inserts a part in order
of handle and offset; `RxExecWrite` takes the list from the connection, drops it
(cancelled, or not valid) or executes it attribute by attribute (`ExecNext`), each with the four steps.
`PrepTimeout` is the 30 s of `ble_hs_conn_timer()`, which terminates the connection (the
comment at `ble_hs_conn.c:547` speaks of clearing the queue; the termination does that,
too); `LinkEnd` is a disconnect or a host reset.

**Abstractions.** A refused request changes nothing and is no step. Parts of length zero are
not sent. The timer fires at any time. A byte is a tag that tells who sent it, and at which place.

**Run** `att`: two peers with three attributes of limits 2, 3 and 3 and a pool of three
entries; parts that fit together, that are too long for their attribute or for any, and
that would complete a value of another attribute; 4 requests, one value set or read by the
application; 449,971 states. Two peers compete for the pool; three entries are the least
with which a value of two parts and a foreign part meet; a value of 3 must grow its block
of 2. `PoolConserved` (the entries in lists are counted by the set of their places), `NoFault`, `ImplementsStore`, `QueuesDrain`. The mapping takes the value
up to its length, and for `pending` the bag of what is queued or in hand; the abstract
module knows neither order, pool, nor growth. `CHECK_DEADLOCK FALSE`: the requests
are bounded. Fairness: the host task runs, the timer of a queue fires, and the disconnect
it asked for completes. Peers owe nothing.

**Assumptions on use** (the sets `Writable`, `AppSets`, `AppGets`, `CbSets`). A value is set by peers
or by the application's task, not by both; the application's task reads only values that
need not grow; the application sets no value that is longer than both its limit and its first block
(the three bytes set to the first attribute are the longest value allowed there); services are removed
with nobody connected; there is memory.

**Where the properties stop holding.**

- `AppSets = {2}`, a value that peers write, too: the two sides empty, grow and fill it
  alternately; `ImplementsStore` (two values joined) and `NoFault` (a copy into a block that was
  freed) fail. `AppGets = {2}`, a value that must grow: `deepCopy()` takes the capacity outside its
  critical section, and copies a longer value into a block of that size: `NoFault` fails.
- `AppData <- TooLong`: `append()` refuses a value of four bytes for the first attribute, whose limit
  is two and whose first block has three, and `setValue()` then compares all four with the block
  (`NimBLEAttValue.cpp:110`): `NoFault` fails. A peer cannot do this, the length of its write is tested first.
- `HideAnytime = TRUE`: the attribute of a prepared write is hidden before the execution,
  which does not look whether it found it: `NoFault` fails (`ble_att_svr.c:2697`).
- `ReallocFails = TRUE`: the capacity is noted before the allocation fails; the next value of
  that length is copied behind the block: `NoFault` and `ImplementsStore` fail.

## 9. Advertising payloads: `NimBLEAdvData` implements `AdvertisedFields`

**State.** `adv`, `scan` and `own` are arrays of bytes: the advertisement, the scan response and
a `NimBLEAdvertisementData` that the application builds for itself. `scanResp` and `advDataSet` are
the flags of `NimBLEAdvertising`; `ctrl` is what the controller was given; `call` is a history
variable, the last call with what it asks for and what it returned.

**Actions.** One per method, on the real lengths, types and limits (31 bytes, 29 per field).
The editing operators have the names of the methods they stand for; the methods that
differ in type and data only (manufacturer data, URI, appearance, TX power, preferred
parameters) are one, `setField`. `AdvElseScan` is the pattern "the advertisement, or else the
scan response". `Load` gives the controller both, either of which it may refuse with
`HciFails`; `Start` loads only if `m_advDataSet` is clear, `RefreshAdvertisingData` always,
`OnHostSync` is the flag's part of `onHostSync()` with the loss of the data in the controller.

**Abstractions.** `start()` is called with nothing on the air (when it does not return early),
with its server part in `NimBLEServer`. A comparison that reaches behind the end of a payload finds
something else. The raw `addData()` of the application is called with well-formed fields,
that is, not at all. Calls do not overlap: the class has no lock.

**Run** `advdata`: two 16-bit UUIDs and a 128-bit one, names of 5 and 30 characters, an
appearance, manufacturer data that exactly fills the advertisement behind the flags,
a URI that is too long, service data with and without content, lists of UUIDs that must
be cut; any four calls; 127,679 states. `ImplementsFields`: with the payloads taken apart as
a receiver does (`Fields`), every call does to the lists what its documentation says, and
returns whether it did. `LoadedIsCurrent`: while the flag is set, the controller has the payloads
as they are. Four calls let an edit, a load, an edit and a load follow one another, and let a list
be made, extended, shortened and emptied. `CHECK_DEADLOCK FALSE`: the calls are bounded.

**Assumptions on use.** `Careless = {}`: each member of this set is one habit that the code
does not support although its documentation does not exclude it; the rows of
section 11 that name one show what happens. Names and service data are shorter than 250
bytes, and no name has the bytes of a UUID.

## 10. What is proved

All theorems are for any values of the constants that satisfy the named `ASSUME`s of the
modules: any number of clients, tasks, connections, services, values, lengths and credits. Those
ASSUMEs say only what the code's types say. A theorem that needs more than that names it as its
own hypothesis, and section by section above, "where the properties stop holding" shows that the
hypothesis is needed. Where an invariant needs types, they are an invariant of their own, mostly
sharper than `TypeOK` (what each place of a task or handler has in hand). Each part
of an invariant has its lemmas, one per group of actions that can disturb it; frame lemmas say
which side writes which variables.

| module | theorem | property | hypothesis |
|---|---|---|---|
| `NimBLEClient` | `TypeCorrect`, `HandlesAreLive`, `NoWakeupIsLost` | `TypeOK`, `ConnHandleLive`, `NoLostWakeup` | |
| | `WaitersArePublished` | `WaiterPublished` | `~Preempt` |
| | `NoConnectionLeaks`, `DeletionIsSafe` | `NoOrphanLink`, `DeletedOnlyWhenIdle` | `~Preempt`, `~DeletePending` |
| `NimBLEServer` | `TypeCorrect`, `GattIsStable`, `PeersAreLinks` | `TypeOK`, `GattStable`, `PeersMatchLinks` | |
| | `DataIsLoaded` | `AdvDataLoaded` | `~Parallel` |
| | `RemovedIsInvisible` | `RemovedInvisible` | `~Parallel`, `~EarlyEdits` |
| | `ServicesAreServed` | `ServedServices` | also `~Central` |
| `GattClient` | `TypeCorrect`, `OneRequest` | `TypeOK`, `OneRequestOutstanding` | |
| | `CallsOutliveProcedures` | `ProceduresEndWithCalls` | `NeverShort`, `LengthsFit` |
| | `ReadsAreWhole` | `ReadIntegrity` | `Steady`, `Matched`, `BlobsAllowed` |
| | `WritesAreStored` | `TrueMeansWritten` | `Steady`, `Matched`, `CommitsAlone` |
| | `WaitersHaveProcedures` | `WaiterHasProcedure` | `Steady`, `Matched`, `~Preempt`, `~NoMem`, `None` is no procedure |
| `L2capCoc` | `CreditsAreConserved` | `CreditConservation` | `~LoseCredits`, `~TxNoMem` |
| | `SenderKeepsWithinCredits` | (`NothingOverdrawn`) | |
| `NimBLEScan` | `TypeCorrect` | `TypeOK` | |
| | `NothingOutlivesScan` | `NothingKept` | `Undisturbed` |
| | `DeviceOutlivesCallbacks` | `DeviceAlive` | `Undisturbed`, no callback stops a scan with limit 0 |
| | `WaitersAreReleased` | `WaiterHasScan` | `OneGetter` |
| `GattNotify` | `TypeCorrect`, `NotedHasProcedure` | `TypeOK`, `IndicationHasProcedure` | |
| | `TimeoutFollowsSilence` | `TimeoutOnlyIfSilent` | `~Preempt` |
| | `StoreFollows` | `StoredAsSubscribed` | `~Preempt`, `CarefulPeer`, `None` is no record |
| | `PromisesAreKept` | `NoUpdateLost` | also `~NoMem`, no `"one"` in `Calls` |
| `AttServer` | `PoolIsConserved` | `PoolConserved` | |
| | `DisciplinedIsSafe` | `NoFault` | `Disciplined` |
| `NimBLEAdvData` | `FlagIsTrue` | `LoadedIsCurrent` | `CarefulAdvertiser` |
| | `ShortDataFits` | `NoOverrun` | `LengthsFitAByte` |

**`NimBLEClient`.** Three layers, since three sorts of assumptions. `IInv` is inductive without any: tasks
may do what they like inside the handler, `deleteClient()` included. It adds to the types and to the two
invariants it proves

- `CurInv`: a task inside a call works on a client it owns (so two waiters never share a record slot);
- `LinkInv`: a free connection slot has no flags left (so a reused handle starts clean);
- `EvInv`: while the handler is at work, what the host had done before it called it still holds (only the host task changes links): a DISCONNECT's handle is free and only its client names it, a CONNECT's handle is up and no client has it;
- `HostInv`: where the handler stores a handle or deletes, its client has none; nobody else writes one;
- `RecordInv`: the published records are those of the tasks inside the publishing calls, also in a client that was freed meanwhile;
- `SecureInv`: the client of a task that waits for its encryption exists, and nobody is about to free it: the task can only have begun to wait on a client that is connected;
- `SyncInv`: a `connect()` that waits was called to wait.

`WInv`, for `~Preempt`, adds that the handler that is about to free a client still has nobody waiting on it
(`FreeInv`). `DInv`, for `~Preempt` and `~DeletePending`, adds what keeps a connection away from a client
that a task deletes (`DeleteInv`): the handler is not about to store a handle, an asynchronous attempt has
no CONNECT to come, and behind the test the client has no handle. `DeletionIsSafe` then follows for each of
the two places that free: what was tested is still so when the client is freed.

**`NimBLEServer`.** `GattIsStable` follows from the guards of the two writers of the database.
`PeersAreLinks` is inductive with the types of `peers` and `links`; its core is a pigeonhole:
there are as many slots as connections, every occupied slot has a different reported
connection, so a connection that has no slot finds one (`SlotLeft`), and the least free slot is
taken (`TakesOneFreeSlot`). `DataIsLoaded` uses `DataInv`: the two tasks exclude each other, the
flag promises data except between sync and `onHostSync()`, and `start()` reaches the enable
command with data only. `RemovedIsInvisible` has the invariant that a rebuild has to restore,
`DbInv`: what is queued is to be served, and is queued once (`Queued`); without a started server
the database is empty, and while it runs every visible place is that of a service that is served
under that handle (`Registered`); between the registration and the assignment of the handles
what is registered is to be served. That handles are unique is not said anywhere in it: a place
of the database is a handle. `ServicesAreServed` is the converse, and adds `Complete`:
what was built and not removed is in the queue, then in the database. It is the direction in which a service could get
lost, and it needs `~Central`: a start that the host refuses because it scans has already emptied
the queue.

**`GattClient`.** `OneRequest` is inductive with the types of the bearer: a request is on the air
only while `busy`, and waits only then; it holds for any interleaving and any failure of
allocation. `CallsOutliveProcedures`, that the host never writes into the frame of a call that has
returned, has the invariant `Own`: a task has at most one procedure, in the list or in the
handler's hand, its call waits, and has not been released yet. The two hypotheses are the two
ways in which the code breaks this: `NeverShort` (no peer says "attribute not long"; then
`readValue()` does not wait for its short read) and `LengthsFit` (with `Preempt`, no write longer
than the longest attribute; then a refused long write calls back twice).

The other three are about answers, which carry no number: who gets one is decided by the order
of a list. `Base` puts the requests of a live connection in a line (`Line`: the answer in the
host's hand, what is on the air, what waits), says that every request in it has its procedure
(`InLine`), that no task has two in it, and what the calls hold meanwhile. It is inductive if `Right`
holds: the procedure that takes the answer in the hand is the one that sent the request. `Right`
does not hold of this code in general (section 11, `v_swap`; section 4 has the other ways), and `Matched` names two regimes in
which it does:

- `Apart`: there is one reader and one writer at most, so that a response matches only its own procedure by
  its opcode, and where a peer answers with errors, which match any procedure of the connection, each
  task has a connection of its own. Any `Preempt` and any want of buffers (`gatt_race` is an instance);
- `InTurn`: one connection, any number of tasks, no task inside the host's handlers and no want of
  buffers (`gatt_serial` is an instance). Here `Right` needs an invariant of its own: `InStep`, the procedures in
  the list are those of the line, in its order (the last one may be on its way into the list), with `Alone`,
  one side at a time between a send and the insertion.

`Steady` is what both ask of the peer: it answers within the 30 s, refuses no later part of a long
write, and calls no attribute not long that is read. On top of `Ordered`, `RData` says what a read has
collected (the first `off` parts, for the procedure and for the call), `WData` what the peer holds
of a write (stored, or prepared on the connection, or still in the line), and `Calm` that a call that
waits and is not released has a procedure, that no procedure is stalled and that a broken
connection is one whose procedures have been ended.

**`L2capCoc`.** `IInv` has the shape of both directions in each phase of a channel (`Phases`: a
signal that the wrong end could still be handed would set credits anew in the middle of a
channel), and the balance. What is in flight is counted by a set with one element for each frame, or for
each credit of a signal (`Units`), since a sum over a queue cannot be proved about. With lost
credits the balance is still an inequality, also when sends fail; `Offsets` says where in an SDU a sender is,
and that without failures it never stands at the end of one (from there it would send the empty frame of section 5).
The inequality is `NothingOverdrawn`, the sender never has more credits
than the receiver is prepared for, also while the receiver closes its end.

**`NimBLEScan`.** Types hold for any application. The other theorems are about applications that
satisfy `Undisturbed`: any on one core, where handlers run to completion, and on two cores those
whose only user of the scanner is a task that waits for the scans it starts (`WaitsOnly`).
Section 6 has what goes wrong otherwise. Their common invariant is `QuietInv`: on two cores, while a scan is
active or a handler at work, this task waits and has no notification (`WaitsForItsScan`); hence a task
goes on only between handlers (`TasksRunWhenQuiet`), and the scan that the report handler has found active
still is when it stores the device (`ScanChecked`). `NothingOutlivesScan` adds `OnlyDuringScan`,
which says where, between the end of a scan and the return of its handler, results are still
there; `DeviceOutlivesCallbacks` needs besides that no callback stops a scan whose results are not
kept. `WaitersAreReleased`, with one task that calls `getResults()` and on two cores no host reset
(`OneGetter`), needs to know whose pointer `m_pTaskData` is
(`PointerIsGetters`), and that a host reset, which ends a scan twice, has released who waits the
first time (`ReleasedBeforeReset`).

**`GattNotify`.** `NotedHasProcedure` is inductive with `Noted`: the procedure that the property
asks for is the one of the characteristic noted, or is about to be inserted by the task that noted it. It
holds for any interleaving. `TimeoutFollowsSilence` counts (`Even`): for a peer that confirms,
the indication procedures are no more than the indications in the queue and the one on its way,
so that a procedure with nothing on its way is of a peer that was silent. Without preemption one side sends
at a time, and nobody during a teardown (`Alone`).

The other two have the hypotheses that run `notify_bond` has, for any number of peers, bonds, characteristics and
values; section 7 has a trace for each that is left out (that `None` is no record of the store only says that the
absent value is a value of its own). `StoreFollows` has `Stored`: every bonded peer's
CCCDs are in the store as they are (`Followed`), or the host task has just that CCCD in hand
(`InHand`). While the records of a peer are brought back one by one, the CCCDs of the records
the walk has passed agree with them (`Brought`). The walk counts the records of one peer, which
lie scattered in the store; a place has a rank among them (`Rank`), and the rank grows by one at
each step and is kept when a record is rewritten where it is.

`PromisesAreKept` says where an update is that a peer has not seen. On a connection (`OnItsWay`): the host sends
one value at a time, and an indication only if none is unconfirmed, so that nothing waits in a queue
(`Sender`); what is in the air of one characteristic is in rising order, not older than what was seen and
not newer than the value (`Links`); a CCCD write on its way changes the subscription it will find (`Asked`);
and an update that is wanted is marked MODIFIED, being sent, or in the air (`Current`, `Carried`).
Of a peer that is away (`KeptForIt`): what was promised for good has a record (`KeptInStore`, `KeptAway`), which
says `value_changed`, or the application is on its way to write that (`Noticed`). The rest is about the two walks over
the store: the records that `ble_gatts_chr_updated()` has passed say so already (`Walking`); a record that the host is about
to write has nothing to remember (`InRecord`); at a peer's return the records the walk has
passed are in `Carried`, and of the others what is wanted is promised for good (`Resuming`).

**`AttServer`.** `PoolIsConserved`: the entries in the lists of all connections, in hand and in the pool
are `MaxPrep`, whatever is rejected, fails half way or is cut off. `DisciplinedIsSafe`: under
`Disciplined` (the assumptions on use of section 8) no memory is used that is not there.
`FaultInv` follows a value through the four steps of setting it: which task may be at it
(`Sides`), when a block that moved is not its own yet (`Blocks`), what a step knows of the length
and the capacity (`Steps`; the last one compares no more bytes than the block has, since `Disciplined`
excludes a value that `append()` refuses and the first block cannot hold), and that what was prepared is still there (`Prepared`).

**`NimBLEAdvData`.** `LoadedIsCurrent` is inductive; the proof is that an edit which leaves
`m_advDataSet` alone because both payloads refused it has not touched them, one lemma per method
of `NimBLEAdvertisementData`. `CarefulAdvertiser` excludes the habits of section 11 that are about the
flag. `ShortDataFits`: service data that with its UUID stays below 256 bytes is never written
behind its buffer. `NoOverrun` is in no run, since with the lengths of `advdata` nothing comes near the wrap
(section 11 has a configuration where it fails).

**Model-checked only.**

- Liveness (`CallsReturn` of three modules, `AdvertisingRestored`, `UpdateArrives`, `QueuesDrain`)
  depends on fairness, and fairness on ENABLED, which the prover does not handle.
- The refinements: `ImplementsChannel` has a liveness part; the mappings of `ImplementsStore` and
  `ImplementsFields` fold over sequences of any length (bags of bytes, fields taken out of a payload),
  and what such a fold computes is an induction over data, whose theorems take an operator as
  parameter that the provers cannot instantiate.

## 11. Where documentation and code disagree

One run ends in a trace that is kept as a finding in `PROJECT.json`:

- `v_swap` (`ReadIntegrity`): `ble_gattc_proc_matches_conn_rx_entry()` rejects a procedure only if
  connection *and* channel differ (`ble_gattc.c:993`), so that a read response is given to
  the first read procedure of any connection; the comment at line 1165 says that the
  extraction goes by connection. Two tasks read on two connections, the peer of the
  second answers first, and the first call returns the second connection's data.

Other statements of the documentation or of comments are in the modules, marked as
not kept. Adding the name as an INVARIANT or PROPERTY to the configuration given, with
the constant changed where one is named, makes TLC print the trace.

| statement | module, configuration | what the code does |
|---|---|---|
| `WaitEndedByRelease` | `NimBLEClient`, `client_small` | a wait can be ended by the notification of an earlier wait of the same task (`taskWait`: "True if the task completed") |
| `SecureMeansEncrypted` | `NimBLEClient`, `client_small` | `secureConnection()` returns true after an MTU or identity event, unencrypted |
| `NoUseAfterDelete` | `NimBLEClient`, `client_small` | the event handler is entered with a deleted client, before it "saves a copy" |
| `ReadyWhenAdvertising` | `NimBLEServer`, `server_par` | `NimBLEAdvertising::start()` "makes sure the GATT server is ready", ignores that it could not be started, and advertises an empty database |
| `NoAbort` | `NimBLEServer`, `server_seq` | rebuilding the database while another connection is being set up fails an assertion |
| `HidesTheRemoved` | `NimBLEServer`, `server_seq` with `EarlyEdits = TRUE` | `removeService()` with a stale handle hides another service |
| `RestartedOnlyIfAdvertising` | `NimBLEServer`, `server_seq` | advertising that was stopped restarts by itself after a host reset |
| `BlocksUntilComplete` | `NimBLEScan`, `scan` | `getResults()` ("block until scanning has been completed") returns at once if a scan is active: the `stop()` inside its own `start()` releases it |
| `OnlyToSubscribers` | `GattNotify`, `notify_race` | after a confirmation the next indication goes to the first characteristic marked MODIFIED, whatever the peer subscribed to ("to all subscribed clients", `NimBLECharacteristic.cpp`) |
| `BlockedOnlyWhileUnsent` | `L2capCoc`, `coc` | `write()` "will block until the data has been sent or an error occurred" (`NimBLEL2CAPChannel.h`), but it returns with data unsent, and it is the next `write()` that waits, without timeout, and is not told of a disconnect |
| `PreparedExist` | `AttServer`, `att` with `HideAnytime = TRUE` | "attribute existence was verified during prepare-write" is no longer true at the execution (`ble_att_svr.c`) |
| `CapacityAllocated` | `AttServer`, `att` with `ReallocFails = TRUE` | `capacity()` is not "the currently allocated capacity" after an allocation that failed |
| `LoadedIsCurrent` | `NimBLEAdvData`, `advdata` with `Careless = {"modes"}` | `setDiscoverableMode()` and `setConnectableMode()` after a load do not clear the flag: the next `start()` advertises the old flags |
| `LoadedIsCurrent` | the same with `Careless = {"custom"}` | `setAdvertisementData()` sets the flag for both payloads: an enabled scan response that was not loaded yet never is |
| `LoadedIsCurrent` | the same with `Careless = {"empty"}`, `MaxCalls = 5` | `start()` does not send an empty scan response: after `clearData()` the old one stays in the controller |
| `LoadedIsCurrent` | the same with `HciFails = TRUE` | the scan response refused, the flag stays set: the next `start()` does not try again |
| `ImplementsFields` | the same with `Careless = {"flags"}` | "a flag value of 0 will remove the flags": with none there, it adds them |
| `ImplementsFields` | the same with `Careless = {"again"}` | "if the appearance value is 0 then the appearance will not be in the advertisement": only the first of two is removed; nor is service data, if it is in the scan response |
| `ImplementsFields` | the same with `Careless = {"services"}` | `removeServices()` ("remove all service UUIDs") returns true and removes nothing |
| `ImplementsFields` | the same with `Careless = {"unlisted"}`, or `Names <- NameLikeUuid` | `removeServiceUUID()` looks for the UUID to the end of the payload: found in service data or a name, it takes two bytes out of there and two off the length of the list, or, if the list has one UUID, removes that one |
| `ImplementsFields` | the same with `Names <- HugeName` | "if the name is longer than 29 characters it will be truncated": the length is taken as a byte first, and a name of 258 characters becomes one of 2 |
| `NoOverrun` | the same with `SvcData <- HugeData` | `setServiceData()` "false if data length is too long": the length wraps in a byte, and the data is written behind the buffer |

## 12. What is not modelled, and the plan

Not modelled by choice: the controller, HCI and the porting layer (vendored upstream
code), the security manager's protocol, the parts of ATT, GATT and L2CAP that the library
does not use or that are listed in `PROJECT.json`; logging, formatting, examples, HID
tables. Approximated: timers are nondeterministic; a host reset does not fail; memory is
short only where a module has a switch for it. `init()` and `deinit()` are not modelled.

What remains, most important first:

1. Proof of the steps of the safety part of `ImplementsChannel`. All invariants of the runs are proved.
2. Discovery of services and characteristics over `GattClient`'s procedures; subscriptions
   and notifications received.
3. `NimBLEDeviceLists`: white list, bonds and clients as lists with index arithmetic,
   against reference definitions.
4. An abstract specification of one blocking call (idle, waiting, answered or timed out)
   that `NimBLEClient`, `GattClient` and `NimBLEScan` are shown to implement.
5. `init`/`deinit`; several channels per connection; extended advertising.
