----------------------------- MODULE NimBLEScan -----------------------------
(***************************************************************************)
(* The scanner of the device: NimBLEScan.cpp on the discovery procedure of *)
(* ble_gap.c.  The host task stores the reports of advertisers and calls   *)
(* the application back; application tasks start, stop and wait for scans. *)
(*                                                                         *)
(* The results are heap objects that the host task updates through a       *)
(* pointer it keeps over the callbacks, and that every start, stop or      *)
(* clear of a task may delete.                                             *)
(***************************************************************************)
EXTENDS Naturals, FiniteSets

CONSTANTS
  Addrs,         \* advertisers
  Scannable,     \* those that answer a scan request
  Tasks,         \* application tasks
  Limits,        \* values of setMaxResults() the application chooses from
  Unlimited,     \* 0xFF
  Apps,          \* the applications: how they use the scanner
  None

(* One application: what each task calls; the limits with which the callbacks *)
(* of a report call stop(); whether onScanEnd() may start the next scan;      *)
(* whether the host is ever reset; and whether tasks run inside a handler of  *)
(* the host task, as they do on the other core of a processor that has two.   *)
AppKinds ==
  [ops : [Tasks -> SUBSET {"get", "start", "stop", "clear"}], stopsWith : SUBSET Limits,
   restarts : BOOLEAN, resets : BOOLEAN, preempt : BOOLEAN]

ASSUME AddrsAssumption == Scannable \subseteq Addrs
ASSUME AppsAssumption == Apps \subseteq AppKinds
ASSUME LimitsAssumption ==
  /\ Limits \subseteq Nat /\ Unlimited \in Nat \ {0}
  /\ \A n \in Limits : n <= Unlimited
ASSUME NoneAssumption == None \notin Tasks /\ None \notin [sent : 0..2, first : {"adv", "rsp"}]

VARIABLES
  app,           \* the application that runs
  disc,          \* ble_gap_master.op is BLE_GAP_OP_M_DISC
  maxResults, passive,  \* m_maxResults, m_scanParams.passive
  results,       \* m_deviceVec: the device object of each address, None without one
  hpc, rep,      \* the host task: where it is, and the report in hand
  resetting,     \* the host task is in a host reset
  alive,         \* the device object the host task points to exists
  ptask,         \* m_pTaskData: the task whose record it is
  bit,           \* the notification bit of a task
  call,          \* the call of a task
  unfinished     \* history: the scan that getResults() started or joined goes on

confVars == <<app, maxResults, passive>>
heapVars == <<results, alive>>
hostVars == <<hpc, rep, resetting>>
discVars == <<disc, unfinished>>
vars == <<discVars, confVars, heapVars, hostVars, ptask, bit, call>>

NoCall == [pc |-> "idle", op |-> "stop", cont |-> FALSE, restart |-> TRUE]
(* Mutant: the counter of a new device is not initialised. *)
NewDeviceUninitialised(k) == [sent |-> 255, first |-> k]

NewDevice(k) == [sent |-> 0, first |-> k]

NoResults == [a \in Addrs |-> None]
Kinds == {"adv", "rsp"}

TypeOK ==
  /\ app \in Apps /\ disc \in BOOLEAN /\ passive \in BOOLEAN /\ maxResults \in Limits
  /\ \A a \in Addrs : results[a] # None =>
       results[a].sent \in 0..2 /\ results[a].first \in Kinds
  /\ hpc \in {"idle", "report", "find", "update", "create", "discovered", "result", "drop",
              "preempted", "complete", "release", "resetState", "sync"}
  /\ resetting \in BOOLEAN /\ rep \in {None} \cup [addr : Addrs, kind : Kinds]
  /\ ptask \in Tasks \cup {None} /\ alive \in BOOLEAN
  /\ bit \in [Tasks -> BOOLEAN] /\ unfinished \in [Tasks -> BOOLEAN]
  /\ \A t \in Tasks :
       /\ call[t].pc \in {"idle", "publish", "test", "cancel", "drop", "release", "clear",
                          "disc", "wait", "unpublish", "done"}
       /\ call[t].pc # "idle" => call[t].op \in app.ops[t]

-----------------------------------------------------------------------------
(* What both sides do *)

(* clearResults() *)
Clear == results' = NoResults /\ alive' = FALSE

(* taskRelease() of the call that has published its task data, if any.  The  *)
(* pointer is read and used in one step.                                     *)
Release == bit' = [t \in Tasks |-> bit[t] \/ t = ptask]

(* The discovery procedure ends, for whatever reason. *)
DiscEnds == disc' = FALSE /\ unfinished' = [t \in Tasks |-> FALSE]

-----------------------------------------------------------------------------
(* The host task *)

To(pc) == hpc' = pc /\ UNCHANGED <<rep, resetting>>
ToIdle == hpc' = "idle" /\ rep' = None /\ resetting' = FALSE

(* A report of the controller; without a procedure the host drops it. *)
Report ==
  /\ hpc = "idle" /\ disc /\ hpc' = "report"
  /\ \E a \in Addrs, k \in Kinds :
       /\ k = "rsp" => a \in Scannable /\ ~passive
       /\ rep' = [addr |-> a, kind |-> k]
  /\ UNCHANGED <<resetting, discVars, confVars, heapVars, ptask, bit, call>>

LimitReached ==
  maxResults \in 1..(Unlimited - 1) /\ Cardinality({a \in Addrs : results[a] # None}) >= maxResults

(* NimBLEAdvertisedDevice::update(): an advertisement brings new data, to be *)
(* reported again; a scan response adds to what there is.                    *)
Updated(d) == IF rep.kind = "rsp" THEN d ELSE [d EXCEPT !.sent = 0]

(* handleGapEvent(): isScanning(), once for the whole report *)
CheckReport ==
  /\ hpc = "report" /\ (IF disc THEN To("find") ELSE ToIdle)
  /\ UNCHANGED <<discVars, confVars, heapVars, ptask, bit, call>>

(* The search for the device; a new one is refused at the limit. *)
FindDevice ==
  /\ hpc = "find"
  /\ LET known == results[rep.addr] # None IN
     /\ alive' = known
     /\ \/ known /\ To("update")
        \/ ~known /\ LimitReached /\ ToIdle
        \/ ~known /\ ~LimitReached /\ To("create")
  /\ UNCHANGED <<results, discVars, confVars, ptask, bit, call>>

UpdateDevice ==
  /\ hpc = "update" /\ alive
  /\ results' = [results EXCEPT ![rep.addr] = Updated(@)]
  /\ UNCHANGED alive /\ To("discovered")
  /\ UNCHANGED <<discVars, confVars, ptask, bit, call>>

(* A new device is stored, whatever has become of the scan. *)
CreateDevice ==
  /\ hpc = "create"
  /\ results' = [results EXCEPT ![rep.addr] = NewDevice(rep.kind)]
  /\ alive' = TRUE /\ To("discovered")
  /\ UNCHANGED <<discVars, confVars, ptask, bit, call>>

(* A callback of the report, in which the application may call stop(). *)
Callback(res) ==
  \/ results' = res /\ UNCHANGED <<alive, discVars, bit>>
  \/ /\ maxResults \in app.stopsWith
     /\ DiscEnds /\ Release
     /\ IF maxResults = 0 THEN Clear ELSE results' = res /\ UNCHANGED alive

Device == results[rep.addr]
Counted == [results EXCEPT ![rep.addr].sent = IF @ < 2 THEN @ + 1 ELSE @]

(* onDiscovered(), once for a device with new data *)
Discovered ==
  /\ hpc = "discovered" /\ alive
  /\ IF Device.sent = 0 THEN Callback(Counted) ELSE UNCHANGED <<heapVars, discVars, bit>>
  /\ To("result")
  /\ UNCHANGED <<confVars, ptask, call>>

(* isScannable() goes by the type of the first report of the device. *)
IsScannable(d) == rep.addr \in Scannable /\ d.first = "adv"

(* onResult(), once there is nothing more to come *)
Result ==
  /\ hpc = "result" /\ alive
  /\ IF passive \/ ~IsScannable(Device) \/ rep.kind = "rsp"
     THEN Callback(Counted) ELSE UNCHANGED <<heapVars, discVars, bit>>
  /\ To("drop")
  /\ UNCHANGED <<confVars, ptask, call>>

(* A device that was reported is deleted if no results are kept. *)
DropReported ==
  /\ hpc = "drop" /\ alive
  /\ results' = IF maxResults = 0 /\ Device.sent >= 2
                THEN [results EXCEPT ![rep.addr] = None] ELSE results
  /\ alive' = FALSE /\ ToIdle
  /\ UNCHANGED <<discVars, confVars, ptask, bit, call>>

(* ble_gap_master_timer(): the duration is over. *)
Expire ==
  /\ hpc = "idle" /\ disc
  /\ DiscEnds /\ To("complete")
  /\ UNCHANGED <<confVars, heapVars, ptask, bit, call>>

(* ble_gap_preempt(): no procedure can be started until                      *)
(* ble_gap_preempt_done() reports the end of the scan.                       *)
PreemptScan ==
  /\ hpc = "idle" /\ disc
  /\ DiscEnds /\ To("preempted")
  /\ UNCHANGED <<confVars, heapVars, ptask, bit, call>>
PreemptDone ==
  /\ hpc = "preempted" /\ To("complete")
  /\ UNCHANGED <<discVars, confVars, heapVars, ptask, bit, call>>

(* ble_gap_reset_state(): a host reset ends a scan like a failure. *)
Reset ==
  /\ hpc = "idle" /\ app.resets /\ resetting' = TRUE
  /\ IF disc THEN DiscEnds /\ hpc' = "complete" ELSE hpc' = "sync" /\ UNCHANGED discVars
  /\ UNCHANGED <<rep, confVars, heapVars, ptask, bit, call>>

(* onScanEnd(), in which the application may start the next scan. *)
ScanEndCallback(res) ==
  \/ results' = res /\ UNCHANGED <<alive, discVars>>
  \/ /\ app.restarts /\ ~disc /\ disc' = TRUE /\ UNCHANGED unfinished
     /\ Clear \/ (results' = res /\ UNCHANGED alive)

(* handleGapEvent() with DISC_COMPLETE *)
Complete ==
  /\ hpc = "complete"
  /\ ScanEndCallback(IF maxResults = 0 THEN NoResults ELSE results)
  /\ To("release")
  /\ UNCHANGED <<confVars, ptask, bit, call>>

(* Mutant: the call that waits is not released. *)
CompleteSilently ==
  /\ hpc = "release"
  /\ IF resetting THEN To("resetState") ELSE ToIdle
  /\ UNCHANGED <<discVars, confVars, heapVars, ptask, bit, call>>

CompleteReleases ==
  /\ hpc = "release" /\ Release
  /\ IF resetting THEN To("resetState") ELSE ToIdle
  /\ UNCHANGED <<discVars, confVars, heapVars, ptask, call>>

(* ble_gap_master_failed(), behind the event: the state is reset again.  *)
ResetState ==
  /\ hpc = "resetState" /\ DiscEnds /\ To("sync")
  /\ UNCHANGED <<confVars, heapVars, ptask, bit, call>>

(* onHostSync() *)
Sync ==
  /\ hpc = "sync" /\ ScanEndCallback(results) /\ ToIdle
  /\ UNCHANGED <<confVars, ptask, bit, call>>

-----------------------------------------------------------------------------
(* The application tasks.  On one core the host task, which has the higher   *)
(* priority, finishes its handlers before a task goes on.                    *)

At(t, pc) == call[t].pc = pc /\ (app.preempt \/ hpc = "idle")
Goto(t, pc) == call' = [call EXCEPT ![t].pc = pc]

(* A call begins.  getResults() does not scan if another one is under way. *)
Calls(ops) ==
  [pc : {"test"}, op : ops \cap {"start"}, cont : BOOLEAN, restart : BOOLEAN] \cup
  [pc : {IF ptask = None THEN "publish" ELSE "done"}, op : ops \cap {"get"},
   cont : BOOLEAN, restart : {TRUE}] \cup
  [pc : {"cancel"}, op : ops \cap {"stop"}, cont : {FALSE}, restart : {TRUE}] \cup
  [pc : {"clear"}, op : ops \cap {"clear"}, cont : {FALSE}, restart : {TRUE}]

Begin(t) ==
  /\ At(t, "idle")
  /\ \E c \in Calls(app.ops[t]) : call' = [call EXCEPT ![t] = c]
  /\ UNCHANGED <<discVars, confVars, heapVars, hostVars, ptask, bit>>

(* getResults(): m_pTaskData is set before the scan starts. *)
Publish(t) ==
  /\ At(t, "publish") /\ ptask' = t /\ Goto(t, "test")
  /\ UNCHANGED <<discVars, confVars, heapVars, hostVars, bit>>

(* start(): what it does first depends on whether a scan is active. *)
Test(t) ==
  /\ At(t, "test")
  /\ Goto(t, IF disc /\ call[t].restart THEN "cancel"
             ELSE IF disc \/ call[t].cont THEN "disc" ELSE "clear")
  /\ UNCHANGED <<discVars, confVars, heapVars, hostVars, ptask, bit>>

Failed(t) == Goto(t, IF call[t].op = "get" THEN "unpublish" ELSE "done")

(* stop(): ble_gap_disc_cancel(), which may fail if there is a scan *)
Cancel(t) ==
  /\ At(t, "cancel")
  /\ \/ DiscEnds /\ Goto(t, "drop")
     \/ disc /\ Failed(t) /\ UNCHANGED discVars
  /\ UNCHANGED <<confVars, heapVars, hostVars, ptask, bit>>

(* Mutant: stop() keeps the devices that wait for a scan response. *)
StopKeepsResults(t) ==
  /\ At(t, "drop") /\ Goto(t, "release")
  /\ UNCHANGED <<discVars, confVars, heapVars, hostVars, ptask, bit>>

StopDropsResults(t) ==
  /\ At(t, "drop") /\ Goto(t, "release")
  /\ IF maxResults = 0 THEN Clear ELSE UNCHANGED heapVars
  /\ UNCHANGED <<discVars, confVars, hostVars, ptask, bit>>

(* Mutant: stop() leaves the release to DISC_COMPLETE, which never comes. *)
StopReleasesNobody(t) ==
  /\ At(t, "release")
  /\ Goto(t, IF call[t].op = "stop" THEN "done" ELSE IF call[t].cont THEN "disc" ELSE "clear")
  /\ UNCHANGED <<discVars, confVars, heapVars, hostVars, ptask, bit>>

(* stop() releases whichever call waits, its own start() included. *)
StopReleases(t) ==
  /\ At(t, "release") /\ Release
  /\ Goto(t, IF call[t].op = "stop" THEN "done" ELSE IF call[t].cont THEN "disc" ELSE "clear")
  /\ UNCHANGED <<discVars, confVars, heapVars, hostVars, ptask>>

ClearResults(t) ==
  /\ At(t, "clear") /\ Clear
  /\ Goto(t, IF call[t].op = "clear" THEN "done" ELSE "disc")
  /\ UNCHANGED <<discVars, confVars, hostVars, ptask, bit>>

(* start(): ble_gap_disc(), where an active scan is as good as a new one *)
Disc(t) ==
  /\ At(t, "disc")
  /\ \/ /\ disc \/ hpc # "preempted"
        /\ disc' = TRUE /\ unfinished' = [unfinished EXCEPT ![t] = call[t].op = "get"]
        /\ Goto(t, IF call[t].op = "get" THEN "wait" ELSE "done")
     \/ ~disc /\ Failed(t) /\ UNCHANGED discVars
  /\ UNCHANGED <<confVars, heapVars, hostVars, ptask, bit>>

(* Mutant: the notification that ends a wait ends the next one, too. *)
WakeKeepsBit(t) ==
  /\ At(t, "wait") /\ bit[t] /\ Goto(t, "unpublish")
  /\ UNCHANGED <<discVars, confVars, heapVars, hostVars, ptask, bit>>

(* taskWait() *)
Wake(t) ==
  /\ At(t, "wait") /\ bit[t]
  /\ bit' = [bit EXCEPT ![t] = FALSE] /\ Goto(t, "unpublish")
  /\ UNCHANGED <<discVars, confVars, heapVars, hostVars, ptask>>

Unpublish(t) ==
  /\ At(t, "unpublish") /\ ptask' = None /\ Goto(t, "done")
  /\ unfinished' = [unfinished EXCEPT ![t] = FALSE]
  /\ UNCHANGED <<disc, confVars, heapVars, hostVars, bit>>

Return(t) ==
  /\ At(t, "done") /\ call' = [call EXCEPT ![t] = NoCall]
  /\ UNCHANGED <<discVars, confVars, heapVars, hostVars, ptask, bit>>

-----------------------------------------------------------------------------
Init ==
  /\ app \in Apps /\ disc = FALSE /\ maxResults \in Limits /\ passive \in BOOLEAN
  /\ results = NoResults /\ alive = FALSE
  /\ hpc = "idle" /\ rep = None /\ resetting = FALSE
  /\ ptask = None /\ bit = [t \in Tasks |-> FALSE]
  /\ call = [t \in Tasks |-> NoCall] /\ unfinished = [t \in Tasks |-> FALSE]

Working(t) ==
  \/ Publish(t) \/ Test(t) \/ Cancel(t) \/ StopDropsResults(t) \/ StopReleases(t)
  \/ ClearResults(t) \/ Disc(t) \/ Wake(t) \/ Unpublish(t) \/ Return(t)

Handling ==
  \/ CheckReport \/ FindDevice \/ UpdateDevice \/ CreateDevice \/ Discovered \/ Result \/ DropReported \/ PreemptDone
  \/ Complete \/ CompleteReleases \/ ResetState \/ Sync

Next ==
  \/ \E t \in Tasks : Begin(t) \/ Working(t)
  \/ Report \/ Handling \/ Expire \/ PreemptScan \/ Reset

Spec == Init /\ [][Next]_vars

(* Every task that can go on is scheduled in the end, and the timer of a     *)
(* scan expires: no scan of this model lasts forever.                        *)
Fairness == (\A t \in Tasks : SF_vars(Working(t))) /\ WF_vars(Handling) /\ SF_vars(Expire)
FairSpec == Spec /\ Fairness

-----------------------------------------------------------------------------
(* Properties *)

(* handleGapEvent() uses a device object from the search to the last of two   *)
(* callbacks: nobody has deleted it in between.  A task that waits for the    *)
(* scan of its own must not be woken before the last report of that scan is   *)
(* handled: its next getResults() deletes all devices.                        *)
DeviceAlive == hpc \in {"update", "discovered", "result", "drop"} => alive

(* With no results kept, nothing outlives a scan, however it ended: devices  *)
(* whose scan response never came are deleted with the scan.                 *)
NothingKept ==
  maxResults = 0 /\ ~disc /\ hpc \in {"idle", "sync"} /\ (\A t \in Tasks : call[t].pc # "drop")
    => results = NoResults

(* A call that waits for its scan is about to be released: a scan is active, *)
(* or its end is being reported (NimBLEScan.cpp, getResults, stop and        *)
(* handleGapEvent share one pointer).                                        *)
WaiterHasScan ==
  \A t \in Tasks : call[t].pc = "wait" =>
    \/ bit[t]
    \/ /\ ptask = t
       /\ \/ disc \/ hpc \in {"preempted", "complete", "release"}
          \/ \E u \in Tasks : call[u].pc \in {"drop", "release"}

(* getResults() blocks until the scan is completed: "Start scanning and      *)
(* block until scanning has been completed" (NimBLEScan.cpp).                *)
BlocksUntilComplete ==
  \A t \in Tasks : call[t].pc = "unpublish" => ~unfinished[t]

(* Every call of the scanner returns. *)
CallsReturn == \A t \in Tasks : (call[t].pc # "idle") ~> (call[t].pc = "idle")
=============================================================================
