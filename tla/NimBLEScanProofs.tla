-------------------------- MODULE NimBLEScanProofs --------------------------
(***************************************************************************)
(* Theorems about NimBLEScan, for any advertisers, tasks, limits and       *)
(* callbacks.                                                              *)
(*                                                                         *)
(* Types hold however tasks and the host task interleave.  The other       *)
(* theorems are about applications that leave the handlers of the host     *)
(* task undisturbed: on one core by the priority of the host task, on two  *)
(* by a task that waits for the scan it has started (Undisturbed).         *)
(***************************************************************************)
EXTENDS NimBLEScan, TLAPS

(* Where the host task has the pointer to a device in hand *)
InReport == {"update", "discovered", "result", "drop"}

(* Where it handles a report *)
InHandler == {"report", "find", "create"} \cup InReport

Devices == [sent : 0..2, first : Kinds]
Reports == [addr : Addrs, kind : Kinds]
OpNames == {"get", "start", "stop", "clear"}
Places == {"idle", "publish", "test", "cancel", "drop", "release", "clear",
           "disc", "wait", "unpublish", "done"}

Types ==
  /\ TypeOK
  /\ results \in [Addrs -> Devices \cup {None}]
  /\ call \in [Tasks -> [pc : Places, op : OpNames, cont : BOOLEAN, restart : BOOLEAN]]

(* The pointer of the host task is to the device of its report. *)
Pointer ==
  /\ hpc \in InHandler => rep \in Reports
  /\ alive => hpc \in InReport /\ results[rep.addr] # None

HeapInv == Types /\ Pointer

-----------------------------------------------------------------------------
(* Types and the pointer *)

(* What a callback of the report may do to the results. *)
LEMMA CallbackKeepsHeap ==
  ASSUME NEW res, Callback(res)
  PROVE  /\ (results' = NoResults /\ ~alive') \/ (results' = res /\ alive' = alive)
         /\ (DiscEnds /\ Release) \/ UNCHANGED <<discVars, bit>>
BY DEF Callback, Clear

(* Counting a callback keeps the device. *)
LEMMA CountedIsDevice ==
  ASSUME HeapInv, alive
  PROVE  /\ Counted \in [Addrs -> Devices \cup {None}]
         /\ Counted[rep.addr] # None
<1>1. rep.addr \in Addrs /\ results[rep.addr] \in Devices
  BY DEF HeapInv, Pointer, InHandler, Types, Reports
<1>2. [results[rep.addr] EXCEPT !.sent = IF @ < 2 THEN @ + 1 ELSE @] \in Devices
  BY <1>1 DEF Devices, Kinds
<1>3. Counted = [results EXCEPT ![rep.addr] =
                   [results[rep.addr] EXCEPT !.sent = IF @ < 2 THEN @ + 1 ELSE @]]
  BY DEF Counted
<1> QED
  BY <1>1, <1>2, <1>3, NoneAssumption DEF HeapInv, Types, Devices, Kinds

(* The device of a report is found. *)
LEMMA FindKeepsHeap ==
  ASSUME HeapInv, CheckReport \/ FindDevice PROVE HeapInv'
<1>1. /\ UNCHANGED <<results, discVars, confVars, ptask, bit, call>>
      /\ hpc \in {"report", "find"} /\ rep \in Reports /\ alive = FALSE
  BY DEF CheckReport, FindDevice, HeapInv, Pointer, InReport, InHandler, heapVars, Types, TypeOK
<1>2. /\ resetting' \in BOOLEAN /\ hpc' \in {"idle", "find", "update", "create"}
      /\ hpc' = "idle" => rep' = None
      /\ hpc' # "idle" => rep' = rep
  BY DEF CheckReport, FindDevice, To, ToIdle, HeapInv, Types, TypeOK
<1>3. alive' \in BOOLEAN /\ (alive' => hpc' = "update" /\ results[rep.addr] # None)
  <2>1. CASE CheckReport
    BY <1>1, <2>1 DEF CheckReport, heapVars
  <2>2. CASE FindDevice
    <3>1. CASE results[rep.addr] # None
      BY <2>2, <3>1 DEF FindDevice, To
    <3>2. CASE ~(results[rep.addr] # None)
      BY <2>2, <3>2 DEF FindDevice
    <3> QED
      BY <3>1, <3>2
  <2> QED
    BY <2>1, <2>2
<1>4. Pointer'
  BY <1>1, <1>2, <1>3 DEF Pointer, InReport, InHandler
<1> QED
  BY <1>1, <1>2, <1>3, <1>4 DEF HeapInv, Types, TypeOK, discVars, confVars, Reports

(* A report is stored: the device is there, new or known. *)
LEMMA StoreKeepsHeap ==
  ASSUME HeapInv, UpdateDevice \/ CreateDevice PROVE HeapInv'
<1>1. /\ UNCHANGED <<discVars, confVars, ptask, bit, call, rep, resetting>>
      /\ hpc \in {"update", "create"} /\ rep \in Reports
      /\ alive' = TRUE /\ hpc' = "discovered"
  BY DEF UpdateDevice, CreateDevice, To, HeapInv, Pointer, InReport, InHandler, Types, TypeOK
<1>2. results' \in [Addrs -> Devices \cup {None}] /\ results'[rep.addr] # None
  <2>1. CASE UpdateDevice
    <3>1. results[rep.addr] \in Devices
      BY <1>1, <2>1 DEF UpdateDevice, HeapInv, Pointer, Types, Reports
    <3>2. Updated(results[rep.addr]) \in Devices
      BY <3>1 DEF Updated, Devices
    <3> QED
      BY <1>1, <2>1, <3>2, NoneAssumption DEF UpdateDevice, HeapInv, Types, Reports, Devices, Kinds
  <2>2. CASE CreateDevice
    <3>1. NewDevice(rep.kind) \in Devices
      BY <1>1 DEF NewDevice, Devices, Reports
    <3> QED
      BY <1>1, <2>2, <3>1, NoneAssumption DEF CreateDevice, HeapInv, Types, Reports, Devices, Kinds
  <2> QED
    BY <2>1, <2>2
<1>3. \A a \in Addrs : results'[a] # None =>
        results'[a].sent \in 0..2 /\ results'[a].first \in Kinds
  BY <1>2 DEF Devices
<1> QED
  BY <1>1, <1>2, <1>3 DEF HeapInv, Types, TypeOK, Pointer, InReport, InHandler, discVars, confVars, Reports

(* A step that leaves the results alone and has no device in hand. *)
LEMMA NoDeviceInHand ==
  ASSUME HeapInv,
         UNCHANGED <<confVars, ptask, rep>>,
         ~alive', alive' \in BOOLEAN, results' \in {results, NoResults},
         disc' \in BOOLEAN, unfinished' \in [Tasks -> BOOLEAN], bit' \in [Tasks -> BOOLEAN],
         resetting' \in BOOLEAN,
         hpc' \in {"idle", "preempted", "complete", "release", "resetState", "sync"},
         UNCHANGED call
  PROVE  HeapInv'
<1>1. results' \in [Addrs -> Devices \cup {None}]
  BY DEF HeapInv, Types, NoResults
<1>2. Pointer'
  BY DEF Pointer, InReport, InHandler
<1>3. \A a \in Addrs : results'[a] # None =>
        results'[a].sent \in 0..2 /\ results'[a].first \in Kinds
  BY <1>1 DEF Devices
<1> QED
  BY <1>1, <1>2, <1>3 DEF HeapInv, Types, TypeOK, confVars

(* The callbacks of a report, and the end of it *)
LEMMA ReportsKeepHeap ==
  ASSUME HeapInv, Report \/ Discovered \/ Result \/ DropReported PROVE HeapInv'
<1>1. CASE Report
  <2>1. rep' \in Reports
    BY <1>1, AddrsAssumption DEF Report, Reports, Kinds
  <2>2. ~alive
    BY <1>1 DEF Report, HeapInv, Pointer, InReport, InHandler
  <2> QED
    BY <1>1, <2>1, <2>2
    DEF Report, HeapInv, Types, TypeOK, Pointer, InReport, InHandler, heapVars, discVars, confVars, Reports
<1>2. CASE Discovered \/ Result
  <2>1. alive /\ UNCHANGED <<rep, resetting, confVars, ptask, call>>
    BY <1>2 DEF Discovered, Result, To
  <2>2. hpc \in InReport /\ hpc' \in InReport
    BY <1>2 DEF Discovered, Result, To, InReport
  <2>3. \/ UNCHANGED <<heapVars, discVars, bit>>
        \/ Callback(Counted)
    BY <1>2 DEF Discovered, Result
  <2>4. /\ results' \in [Addrs -> Devices \cup {None}]
        /\ alive' \in BOOLEAN /\ (alive' => results'[rep.addr] # None)
    <3>1. CASE UNCHANGED <<heapVars, discVars, bit>>
      BY <2>1, <3>1 DEF heapVars, HeapInv, Types, TypeOK, Pointer
    <3>2. CASE Callback(Counted)
      <4>1. NoResults \in [Addrs -> Devices \cup {None}]
        BY DEF NoResults
      <4>2. alive \in BOOLEAN
        BY DEF HeapInv, Types, TypeOK
      <4>3. alive' \in BOOLEAN
        BY <3>2, <4>2 DEF Callback, Clear
      <4> QED
        BY <2>1, <3>2, <4>1, <4>3, CallbackKeepsHeap, CountedIsDevice
    <3> QED
      BY <2>3, <3>1, <3>2
  <2>5. disc' \in BOOLEAN /\ bit' \in [Tasks -> BOOLEAN] /\ unfinished' \in [Tasks -> BOOLEAN]
    BY <2>3, CallbackKeepsHeap DEF DiscEnds, Release, discVars, HeapInv, Types, TypeOK
  <2>6. \A a \in Addrs : results'[a] # None =>
          results'[a].sent \in 0..2 /\ results'[a].first \in Kinds
    BY <2>4 DEF Devices
  <2> QED
    BY <2>1, <2>2, <2>4, <2>5, <2>6
    DEF HeapInv, Types, TypeOK, Pointer, InReport, InHandler, confVars
<1>3. CASE DropReported
  <2>1. results' \in [Addrs -> Devices \cup {None}]
    BY <1>3 DEF DropReported, HeapInv, Types
  <2>2. \A a \in Addrs : results'[a] # None =>
          results'[a].sent \in 0..2 /\ results'[a].first \in Kinds
    BY <2>1 DEF Devices
  <2> QED
    BY <1>3, <2>1, <2>2
    DEF DropReported, ToIdle, HeapInv, Types, TypeOK, Pointer, InReport, InHandler, confVars, discVars
<1> QED
  BY <1>1, <1>2, <1>3

(* The other handlers have no device in hand. *)
LEMMA EndsKeepHeap ==
  ASSUME HeapInv,
         \/ Expire \/ PreemptScan \/ PreemptDone \/ Reset
         \/ Complete \/ CompleteReleases \/ ResetState \/ Sync
  PROVE  HeapInv'
<1>1. ~alive /\ UNCHANGED <<confVars, ptask, call>>
  BY DEF Expire, PreemptScan, PreemptDone, Reset, Complete, CompleteReleases, ResetState, Sync,
         HeapInv, Pointer, InReport, InHandler
<1>2. /\ resetting \in BOOLEAN /\ alive \in BOOLEAN /\ disc \in BOOLEAN
      /\ unfinished \in [Tasks -> BOOLEAN] /\ bit \in [Tasks -> BOOLEAN]
  BY DEF HeapInv, Types, TypeOK
<1>3. CASE Expire \/ PreemptScan \/ PreemptDone \/ ResetState
  <2>1. disc' \in BOOLEAN /\ unfinished' \in [Tasks -> BOOLEAN]
    BY <1>2, <1>3 DEF Expire, PreemptScan, PreemptDone, ResetState, DiscEnds, discVars
  <2> QED
    BY <1>1, <1>2, <1>3, <2>1, NoDeviceInHand
    DEF Expire, PreemptScan, PreemptDone, ResetState, To, heapVars
<1>4. CASE Reset
  <2>1. /\ disc' \in BOOLEAN /\ unfinished' \in [Tasks -> BOOLEAN]
        /\ hpc' \in {"complete", "sync"}
    BY <1>2, <1>4 DEF Reset, DiscEnds, discVars
  <2> QED
    BY <1>1, <1>2, <1>4, <2>1, NoDeviceInHand DEF Reset, heapVars
<1>5. CASE CompleteReleases
  <2>1. bit' \in [Tasks -> BOOLEAN]
    BY <1>2, <1>5 DEF CompleteReleases, Release
  <2>2. hpc' \in {"resetState", "idle"} /\ resetting' \in BOOLEAN
    BY <1>2, <1>5 DEF CompleteReleases, To, ToIdle
  <2>3. UNCHANGED <<results, alive, disc, unfinished>>
    BY <1>5 DEF CompleteReleases, heapVars, discVars
  <2>4. CASE UNCHANGED rep
    BY <1>1, <1>2, <2>1, <2>2, <2>3, <2>4, NoDeviceInHand
  <2>5. CASE rep' = None /\ hpc' = "idle"
    BY <1>1, <1>2, <2>1, <2>2, <2>3, <2>5
    DEF HeapInv, Types, TypeOK, Pointer, InReport, InHandler, confVars
  <2> QED
    BY <1>5, <2>4, <2>5 DEF CompleteReleases, To, ToIdle
<1>6. CASE Complete \/ Sync
  <2>1. PICK res \in {results, NoResults} : ScanEndCallback(res)
    BY <1>6 DEF Complete, Sync
  <2>2. /\ results' \in {results, NoResults} /\ ~alive' /\ alive' \in BOOLEAN
        /\ disc' \in BOOLEAN /\ UNCHANGED unfinished
    <3>1. CASE results' = res /\ UNCHANGED <<alive, discVars>>
      BY <1>1, <1>2, <3>1 DEF discVars
    <3>2. CASE disc' = TRUE /\ UNCHANGED unfinished /\ Clear
      BY <3>2 DEF Clear
    <3>3. CASE disc' = TRUE /\ UNCHANGED unfinished /\ results' = res /\ UNCHANGED alive
      BY <1>1, <1>2, <3>3
    <3> QED
      BY <2>1, <3>1, <3>2, <3>3 DEF ScanEndCallback
  <2>3. CASE Complete
    BY <1>1, <1>2, <2>2, <2>3, NoDeviceInHand DEF Complete, To
  <2>4. CASE Sync
    <3>1. rep' = None /\ hpc' = "idle" /\ resetting' = FALSE /\ bit' = bit
      BY <2>4 DEF Sync, ToIdle
    <3>2. results' \in [Addrs -> Devices \cup {None}]
      BY <2>2 DEF NoResults, HeapInv, Types
    <3>3. \A a \in Addrs : results'[a] # None =>
            results'[a].sent \in 0..2 /\ results'[a].first \in Kinds
      BY <3>2 DEF Devices
    <3> QED
      BY <1>1, <1>2, <2>2, <3>1, <3>2, <3>3
      DEF HeapInv, Types, TypeOK, Pointer, InReport, InHandler, confVars
  <2> QED
    BY <1>6, <2>3, <2>4
<1> QED
  BY <1>3, <1>4, <1>5, <1>6

(* What a task does to its own call *)
Calling == [pc : Places, op : OpNames, cont : BOOLEAN, restart : BOOLEAN]

(* What the tasks of an application call *)
LEMMA TaskCalls ==
  ASSUME HeapInv, NEW t \in Tasks PROVE app.ops[t] \subseteq OpNames
BY AppsAssumption DEF HeapInv, Types, TypeOK, AppKinds, OpNames

(* A call goes on at a place that exists. *)
LEMMA GotoKeepsTypes ==
  ASSUME HeapInv, NEW t \in Tasks, call[t].pc # "idle",
         NEW pc \in Places, call' = [call EXCEPT ![t].pc = pc]
  PROVE  /\ call' \in [Tasks -> Calling]
         /\ \A u \in Tasks : call'[u].pc \in Places /\ (call'[u].pc # "idle" => call'[u].op \in app.ops[u])
BY DEF HeapInv, Types, TypeOK, Calling, Places

(* A task has no pointer, but may pull the device from under the host task. *)
LEMMA TasksKeepHeap ==
  ASSUME HeapInv, NEW t \in Tasks, Begin(t) \/ Working(t) PROVE HeapInv'
<1>1. UNCHANGED <<confVars, hostVars>>
  BY DEF Begin, Working, Publish, Test, Cancel, StopDropsResults, StopReleases, ClearResults,
         Disc, Wake, Unpublish, Return
<1>2. /\ call' \in [Tasks -> Calling]
      /\ \A u \in Tasks : call'[u].pc \in Places /\ (call'[u].pc # "idle" => call'[u].op \in app.ops[u])
  <2>1. CASE Begin(t)
    <3>1. PICK c \in Calls(app.ops[t]) : call' = [call EXCEPT ![t] = c]
      BY <2>1 DEF Begin
    <3>2. c \in Calling /\ c.op \in app.ops[t]
      BY <3>1, TaskCalls DEF Calls, Calling, Places, OpNames
    <3> QED
      BY <3>1, <3>2 DEF HeapInv, Types, TypeOK, Calling, Places
  <2>2. CASE Return(t)
    BY <2>2 DEF Return, NoCall, HeapInv, Types, TypeOK, Calling, Places, OpNames
  <2>3. CASE Working(t) /\ ~Return(t)
    <3>1. call[t].pc # "idle" /\ \E pc \in Places : call' = [call EXCEPT ![t].pc = pc]
      BY <2>3 DEF Working, Publish, Test, Cancel, StopDropsResults, StopReleases, ClearResults,
                  Disc, Wake, Unpublish, At, Goto, Failed, Places
    <3> QED
      BY <3>1, GotoKeepsTypes
  <2> QED
    BY <2>1, <2>2, <2>3
<1>3. /\ disc' \in BOOLEAN /\ unfinished' \in [Tasks -> BOOLEAN] /\ bit' \in [Tasks -> BOOLEAN]
      /\ ptask' \in Tasks \cup {None}
  <2>1. /\ disc \in BOOLEAN /\ unfinished \in [Tasks -> BOOLEAN] /\ bit \in [Tasks -> BOOLEAN]
        /\ ptask \in Tasks \cup {None}
    BY DEF HeapInv, Types, TypeOK
  <2>2. CASE Begin(t) \/ Publish(t) \/ Test(t) \/ StopDropsResults(t) \/ ClearResults(t) \/ Return(t)
    BY <2>1, <2>2 DEF Begin, Publish, Test, StopDropsResults, ClearResults, Return, discVars
  <2>3. CASE Cancel(t) \/ Disc(t) \/ Unpublish(t)
    BY <2>1, <2>3 DEF Cancel, Disc, Unpublish, DiscEnds, discVars
  <2>4. CASE StopReleases(t) \/ Wake(t)
    BY <2>1, <2>4 DEF StopReleases, Wake, Release, discVars
  <2> QED
    BY <2>2, <2>3, <2>4 DEF Working
<1>4. UNCHANGED heapVars \/ (results' = NoResults /\ alive' = FALSE)
  BY DEF Begin, Working, Publish, Test, Cancel, StopDropsResults, StopReleases, ClearResults,
         Disc, Wake, Unpublish, Return, Clear
<1>5. /\ results' \in [Addrs -> Devices \cup {None}]
      /\ alive' \in BOOLEAN /\ Pointer'
  <2>1. CASE UNCHANGED heapVars
    BY <1>1, <2>1 DEF heapVars, hostVars, HeapInv, Types, TypeOK, Pointer
  <2>2. CASE results' = NoResults /\ alive' = FALSE
    BY <1>1, <2>2 DEF hostVars, NoResults, HeapInv, Pointer
  <2> QED
    BY <1>4, <2>1, <2>2
<1>6. \A a \in Addrs : results'[a] # None =>
        results'[a].sent \in 0..2 /\ results'[a].first \in Kinds
  BY <1>5 DEF Devices
<1> QED
  BY <1>1, <1>2, <1>3, <1>5, <1>6
  DEF HeapInv, Types, TypeOK, confVars, hostVars, Calling, Places

LEMMA HeapInvariance == Spec => []HeapInv
<1>1. Init => HeapInv
  <2> SUFFICES ASSUME Init PROVE HeapInv
    OBVIOUS
  <2>1. call \in [Tasks -> Calling] /\ \A t \in Tasks : call[t].pc = "idle"
    BY DEF Init, NoCall, Calling, Places, OpNames
  <2>2. results \in [Addrs -> Devices \cup {None}] /\ \A a \in Addrs : results[a] = None
    BY DEF Init, NoResults
  <2> QED
    BY <2>1, <2>2 DEF Init, HeapInv, Types, TypeOK, Pointer, InReport, InHandler, Calling
<1>2. HeapInv /\ [Next]_vars => HeapInv'
  <2> SUFFICES ASSUME HeapInv, [Next]_vars PROVE HeapInv'
    OBVIOUS
  <2>1. CASE UNCHANGED vars
    BY <2>1 DEF vars, HeapInv, Types, TypeOK, Pointer, heapVars, hostVars, discVars, confVars
  <2> QED
    BY <2>1, FindKeepsHeap, StoreKeepsHeap, ReportsKeepHeap, EndsKeepHeap, TasksKeepHeap
    DEF Next, Handling
<1> QED
  BY <1>1, <1>2, PTL DEF Spec

(* Types, the counter of callbacks of each device among them: a device is    *)
(* reported twice at most before new data comes.                           *)
THEOREM TypeCorrect == Spec => []TypeOK
<1>1. HeapInv => TypeOK
  BY DEF HeapInv, Types
<1> QED
  BY <1>1, HeapInvariance, PTL

-----------------------------------------------------------------------------
(* Undisturbed handlers *)

(* An application whose only caller waits for the scans that it starts *)
WaitsOnly(a) ==
  /\ a.stopsWith = {} /\ ~a.restarts
  /\ \E g \in Tasks : a.ops[g] \subseteq {"get"} /\ \A t \in Tasks \ {g} : a.ops[t] = {}

(* Where tasks can run inside a handler, there is none but the one that      *)
(* waits for the scan.  What the others do on one core is not restricted.    *)
Undisturbed == \A a \in Apps : a.preempt => WaitsOnly(a)

(* Where the host task stands when a task may go on *)
Quiet == {"idle", "resetState", "sync"}

(* The task that started a scan waits for it, and is not woken before the    *)
(* end of the scan has been handled.                                         *)
WaitsForItsScan ==
  app.preempt =>
    /\ \A t \in Tasks :
         app.ops[t] # {} /\ (disc \/ hpc \notin Quiet) => call[t].pc = "wait" /\ ~bit[t]
    /\ \A t \in Tasks : bit[t] => call[t].pc = "wait"
    /\ \A t \in Tasks : call[t].pc \notin {"cancel", "drop", "release"}
    /\ ptask # None => app.ops[ptask] # {}
    /\ hpc \in {"preempted", "complete", "release"} => ~disc

(* The handler of a report goes on with the scan active. *)
ScanChecked == hpc \in {"find", "update", "create"} => disc

NeverReset == ~app.resets => ~resetting /\ hpc \notin {"resetState", "sync"}

QuietInv == WaitsForItsScan /\ ScanChecked /\ NeverReset

(* A task goes on only between the handlers of the host task: on one core    *)
(* because of the priorities, on two because it waits.                       *)
LEMMA TasksRunWhenQuiet ==
  ASSUME HeapInv, QuietInv, NEW t \in Tasks, Begin(t) \/ Working(t)
  PROVE  /\ hpc \in Quiet /\ UNCHANGED <<confVars, hostVars>>
         /\ app.ops[t] # {}
         /\ ~app.preempt => hpc = "idle"
         /\ app.preempt => ~disc
<1>1. UNCHANGED <<confVars, hostVars>>
  BY DEF Begin, Working, Publish, Test, Cancel, StopDropsResults, StopReleases, ClearResults,
         Disc, Wake, Unpublish, Return
<1>2. app.preempt \/ hpc = "idle"
  BY DEF Begin, Working, Publish, Test, Cancel, StopDropsResults, StopReleases, ClearResults,
         Disc, Wake, Unpublish, Return, At
<1>3. app.ops[t] # {}
  <2>1. CASE Begin(t)
    <3>1. PICK c \in Calls(app.ops[t]) : TRUE
      BY <2>1 DEF Begin
    <3>2. c.op \in app.ops[t]
      BY <3>1 DEF Calls
    <3> QED
      BY <3>2
  <2>2. CASE Working(t)
    <3>1. call[t].pc # "idle"
      BY <2>2 DEF Working, Publish, Test, Cancel, StopDropsResults, StopReleases, ClearResults,
                  Disc, Wake, Unpublish, Return, At
    <3> QED
      BY <3>1 DEF HeapInv, Types, TypeOK
  <2> QED
    BY <2>1, <2>2
<1>4. ~(call[t].pc = "wait" /\ ~bit[t])
  BY DEF Begin, Working, Publish, Test, Cancel, StopDropsResults, StopReleases, ClearResults,
         Disc, Wake, Unpublish, Return, At
<1>5. app.preempt => ~disc /\ hpc \in Quiet
  BY <1>3, <1>4 DEF QuietInv, WaitsForItsScan
<1> QED
  BY <1>1, <1>2, <1>3, <1>5 DEF Quiet

(* The tasks: the caller of getResults() starts its scan with no            *)
(* notification left over, and waits.                                        *)
LEMMA TasksKeepQuiet ==
  ASSUME Undisturbed, HeapInv, QuietInv, NEW t \in Tasks, Begin(t) \/ Working(t)
  PROVE  QuietInv'
<1>1. /\ hpc \in Quiet /\ UNCHANGED <<app, hpc, resetting>> /\ app.ops[t] # {}
      /\ app.preempt => ~disc
  BY TasksRunWhenQuiet DEF confVars, hostVars
<1>2. ScanChecked' /\ NeverReset'
  BY <1>1 DEF Quiet, QuietInv, ScanChecked, NeverReset
<1>3. ASSUME app.preempt PROVE WaitsForItsScan'
  <2>1. app.ops[t] \subseteq {"get"} /\ \A u \in Tasks \ {t} : app.ops[u] = {}
    BY <1>1, <1>3 DEF Undisturbed, WaitsOnly, HeapInv, Types, TypeOK
  <2>2. call \in [Tasks -> Calling] /\ bit \in [Tasks -> BOOLEAN]
    BY DEF HeapInv, Types, TypeOK, Calling
  <2>3. /\ ~disc /\ hpc \notin {"preempted", "complete", "release"}
        /\ \A u \in Tasks : bit[u] => call[u].pc = "wait"
        /\ \A u \in Tasks : call[u].pc \notin {"cancel", "drop", "release"}
        /\ ptask # None => app.ops[ptask] # {}
    BY <1>1, <1>3 DEF QuietInv, WaitsForItsScan, Quiet
  <2>4. \A u \in Tasks \ {t} : call'[u] = call[u]
    BY <2>2 DEF Begin, Working, Publish, Test, Cancel, StopDropsResults, StopReleases,
                ClearResults, Disc, Wake, Unpublish, Return, Goto, Failed
  <2>5. CASE Begin(t)
    <3>1. PICK c \in Calls(app.ops[t]) : call' = [call EXCEPT ![t] = c]
      BY <2>5 DEF Begin
    <3>2. c.pc \in {"publish", "done"}
      <4>1. c.op = "get" \/ c.op \in app.ops[t] \ {"get"}
        BY <3>1 DEF Calls
      <4> QED
        BY <2>1, <3>1, <4>1 DEF Calls
    <3>3. UNCHANGED <<disc, bit, ptask>> /\ call[t].pc = "idle"
      BY <2>5 DEF Begin, At, discVars
    <3> QED
      BY <1>1, <2>1, <2>2, <2>3, <3>1, <3>2, <3>3 DEF WaitsForItsScan
  <2>6. CASE Disc(t)
    <3>1. call[t].op = "get" /\ call[t].pc = "disc" /\ UNCHANGED <<bit, ptask>>
      BY <2>1, <2>6 DEF Disc, At, HeapInv, Types, TypeOK
    <3>2. \/ call'[t].pc = "wait"
          \/ disc' = disc /\ call'[t].pc = "unpublish"
      BY <2>2, <2>6, <3>1 DEF Disc, Failed, Goto, Calling, discVars
    <3>3. ~bit[t]
      BY <2>3, <3>1
    <3> QED
      BY <1>1, <2>1, <2>3, <2>4, <3>1, <3>2, <3>3 DEF WaitsForItsScan
  <2>7. CASE Wake(t)
    <3>1. /\ bit' = [bit EXCEPT ![t] = FALSE] /\ call'[t].pc = "unpublish"
          /\ UNCHANGED <<disc, ptask>>
      BY <2>2, <2>7 DEF Wake, Goto, Calling, discVars
    <3> QED
      BY <1>1, <2>1, <2>2, <2>3, <2>4, <3>1 DEF WaitsForItsScan
  <2>8. CASE Publish(t) \/ Test(t) \/ ClearResults(t) \/ Unpublish(t) \/ Return(t)
    <3>1. /\ UNCHANGED <<disc, bit>> /\ call[t].pc # "wait"
          /\ ptask' \in {ptask, t, None}
      BY <2>8 DEF Publish, Test, ClearResults, Unpublish, Return, At, discVars
    <3>2. call'[t].pc \notin {"cancel", "drop", "release"}
      BY <2>1, <2>2, <2>3, <2>8
      DEF Publish, Test, ClearResults, Unpublish, Return, Goto, NoCall, Calling
    <3>3. ~bit[t]
      BY <2>3, <3>1
    <3> QED
      BY <1>1, <2>1, <2>3, <2>4, <3>1, <3>2, <3>3 DEF WaitsForItsScan
  <2>9. CASE Cancel(t) \/ StopDropsResults(t) \/ StopReleases(t)
    BY <2>3, <2>9 DEF Cancel, StopDropsResults, StopReleases, At
  <2> QED
    BY <2>5, <2>6, <2>7, <2>8, <2>9 DEF Working
<1>4. ~app.preempt => WaitsForItsScan'
  BY <1>1 DEF WaitsForItsScan
<1> QED
  BY <1>2, <1>3, <1>4 DEF QuietInv

(* The host task: the only release is at the end of the scan. *)
LEMMA HostKeepsQuiet ==
  ASSUME Undisturbed, HeapInv, QuietInv,
         \/ Report \/ Handling \/ Expire \/ PreemptScan \/ Reset
  PROVE  QuietInv'
<1>0. UNCHANGED <<confVars, ptask, call>>
  BY DEF Report, Handling, Expire, PreemptScan, Reset, CheckReport, FindDevice, UpdateDevice,
         CreateDevice, Discovered, Result, DropReported, PreemptDone, Complete, CompleteReleases,
         ResetState, Sync
<1>1. ScanChecked'
  <2>1. CASE Report \/ CheckReport \/ FindDevice
    BY <2>1 DEF Report, CheckReport, FindDevice, To, ToIdle, discVars, QuietInv, ScanChecked
  <2>2. CASE ~(Report \/ CheckReport \/ FindDevice)
    <3>1. hpc' \notin {"find", "update", "create"}
      BY <2>2 DEF Handling, Expire, PreemptScan, Reset, UpdateDevice, CreateDevice, Discovered,
                  Result, DropReported, PreemptDone, Complete, CompleteReleases, ResetState, Sync,
                  To, ToIdle
    <3> QED
      BY <3>1 DEF ScanChecked
  <2> QED
    BY <2>1, <2>2
<1>2. NeverReset'
  <2>1. CASE Reset
    BY <1>0, <2>1 DEF Reset, NeverReset, confVars
  <2>2. CASE ~Reset /\ ~app.resets
    <3>1. ~resetting /\ hpc \notin {"resetState", "sync"}
      BY <2>2 DEF QuietInv, NeverReset
    <3>2. ~resetting' /\ hpc' \notin {"resetState", "sync"}
      BY <2>2, <3>1 DEF Report, Handling, Expire, PreemptScan, CheckReport, FindDevice, UpdateDevice,
         CreateDevice, Discovered, Result, DropReported, PreemptDone, Complete, CompleteReleases,
         ResetState, Sync, To, ToIdle
    <3> QED
      BY <3>2 DEF NeverReset
  <2> QED
    BY <1>0, <2>1, <2>2 DEF NeverReset, confVars
<1>3. ASSUME app.preempt PROVE WaitsForItsScan'
  <2>0. UNCHANGED <<app, ptask, call>> /\ app.stopsWith = {} /\ ~app.restarts
        /\ bit \in [Tasks -> BOOLEAN] /\ ptask \in Tasks \cup {None}
    BY <1>0, <1>3 DEF confVars, Undisturbed, WaitsOnly, HeapInv, Types, TypeOK
  <2>1. /\ \A t \in Tasks :
             app.ops[t] # {} /\ (disc \/ hpc \notin Quiet) => call[t].pc = "wait" /\ ~bit[t]
        /\ \A t \in Tasks : bit[t] => call[t].pc = "wait"
        /\ \A t \in Tasks : call[t].pc \notin {"cancel", "drop", "release"}
        /\ ptask # None => app.ops[ptask] # {}
        /\ hpc \in {"preempted", "complete", "release"} => ~disc
    BY <1>3 DEF QuietInv, WaitsForItsScan
  <2>2. CASE CompleteReleases
    <3>1. hpc = "release" /\ Release /\ hpc' \in {"resetState", "idle"} /\ disc' = disc
      BY <2>2 DEF CompleteReleases, To, ToIdle, discVars
    <3>2. \A t \in Tasks : bit'[t] => bit[t] \/ t = ptask
      BY <3>1 DEF Release
    <3>3. ~disc'
      BY <2>1, <3>1
    <3>4. ASSUME NEW t \in Tasks, bit'[t] PROVE call[t].pc = "wait"
      BY <2>0, <2>1, <3>1, <3>2, <3>4, NoneAssumption DEF Quiet
    <3> QED
      BY <2>0, <2>1, <3>1, <3>3, <3>4 DEF WaitsForItsScan, Quiet
  <2>3. CASE ~CompleteReleases
    <3>1. UNCHANGED bit
      BY <2>0, <2>3 DEF Report, Handling, Expire, PreemptScan, Reset, CheckReport, FindDevice,
         UpdateDevice, CreateDevice, Discovered, Result, DropReported, PreemptDone, Complete,
         ResetState, Sync, Callback
    <3>2. disc' \/ hpc' \notin Quiet => disc \/ hpc \notin Quiet
      BY <2>0, <2>3 DEF Report, Handling, Expire, PreemptScan, Reset, CheckReport, FindDevice,
         UpdateDevice, CreateDevice, Discovered, Result, DropReported, PreemptDone, Complete,
         ResetState, Sync, Callback, ScanEndCallback, DiscEnds, To, ToIdle, discVars, Quiet
    <3>3. hpc' \in {"preempted", "complete", "release"} => ~disc'
      BY <2>0, <2>1, <2>3 DEF Report, Handling, Expire, PreemptScan, Reset, CheckReport, FindDevice,
         UpdateDevice, CreateDevice, Discovered, Result, DropReported, PreemptDone, Complete,
         ResetState, Sync, Callback, ScanEndCallback, DiscEnds, To, ToIdle, discVars
    <3> QED
      BY <2>0, <2>1, <3>1, <3>2, <3>3 DEF WaitsForItsScan
  <2> QED
    BY <2>2, <2>3
<1>4. ~app.preempt => WaitsForItsScan'
  BY <1>0 DEF WaitsForItsScan, confVars
<1> QED
  BY <1>1, <1>2, <1>3, <1>4 DEF QuietInv

LEMMA QuietInvariance ==
  ASSUME Undisturbed PROVE Spec => []QuietInv
<1>1. Init => QuietInv
  BY DEF Init, NoCall, QuietInv, WaitsForItsScan, ScanChecked, NeverReset, Quiet
<1>2. HeapInv /\ QuietInv /\ [Next]_vars => QuietInv'
  <2> SUFFICES ASSUME HeapInv, QuietInv, [Next]_vars PROVE QuietInv'
    OBVIOUS
  <2>1. CASE UNCHANGED vars
    BY <2>1 DEF vars, hostVars, discVars, confVars, QuietInv, WaitsForItsScan, ScanChecked,
                NeverReset
  <2> QED
    BY <2>1, HostKeepsQuiet, TasksKeepQuiet DEF Next
<1> QED
  BY <1>1, <1>2, HeapInvariance, PTL DEF Spec

-----------------------------------------------------------------------------
(* Results that are not kept *)

(* Results of a scan that are not to be kept are there while it is active,   *)
(* until its end has been handled, or until the task that stopped it has     *)
(* gone on; never behind the handler of its end.                           *)
OnlyDuringScan ==
  maxResults = 0 =>
    /\ ~disc /\ hpc \notin {"preempted", "complete"} /\ (\A t \in Tasks : call[t].pc # "drop")
         => results = NoResults
    /\ hpc \in {"release", "resetState"} => results = NoResults

(* While the host task has a device in hand there are results. *)
LEMMA ResultsInHand ==
  ASSUME HeapInv, alive PROVE results # NoResults
BY DEF HeapInv, Pointer, NoResults, InReport, InHandler, Reports

(* The host task *)
LEMMA HostKeepsOnlyDuringScan ==
  ASSUME HeapInv, QuietInv, OnlyDuringScan,
         \/ Report \/ Handling \/ Expire \/ PreemptScan \/ Reset
  PROVE  OnlyDuringScan'
<1>1. CASE Report \/ CheckReport \/ FindDevice
  BY <1>1 DEF Report, CheckReport, FindDevice, ToIdle, To, heapVars, discVars, confVars, OnlyDuringScan
<1>9. CASE UpdateDevice \/ CreateDevice
  <2>1. disc' /\ hpc' = "discovered"
    BY <1>9 DEF UpdateDevice, CreateDevice, To, discVars, QuietInv, ScanChecked
  <2> QED
    BY <2>1 DEF OnlyDuringScan
<1>2. CASE Discovered \/ Result
  <2>1. /\ alive /\ hpc' \in {"result", "drop"} /\ UNCHANGED <<maxResults, call>>
        /\ UNCHANGED <<heapVars, discVars, bit>> \/ Callback(Counted)
    BY <1>2 DEF Discovered, Result, To, confVars
  <2>2. maxResults = 0 => disc \/ \E t \in Tasks : call[t].pc = "drop"
    BY <1>2, <2>1, ResultsInHand DEF Discovered, Result, OnlyDuringScan
  <2>3. maxResults = 0 => UNCHANGED disc \/ results' = NoResults
    BY <2>1, NoneAssumption DEF Callback, Clear, discVars
  <2> QED
    BY <2>1, <2>2, <2>3 DEF OnlyDuringScan
<1>3. CASE DropReported
  BY <1>3, ResultsInHand DEF DropReported, ToIdle, discVars, confVars, OnlyDuringScan
<1>4. CASE Expire \/ PreemptScan \/ PreemptDone
  BY <1>4 DEF Expire, PreemptScan, PreemptDone, To, confVars, OnlyDuringScan
<1>5. CASE Reset
  BY <1>5 DEF Reset, heapVars, discVars, confVars, OnlyDuringScan
<1>6. CASE Complete
  <2>1. maxResults = 0 => results' = NoResults
    BY <1>6 DEF Complete, ScanEndCallback, Clear
  <2> QED
    BY <1>6, <2>1 DEF Complete, To, confVars, OnlyDuringScan
<1>7. CASE CompleteReleases \/ ResetState
  BY <1>7 DEF CompleteReleases, ResetState, To, ToIdle, heapVars, confVars, OnlyDuringScan
<1>8. CASE Sync
  <2>1. \/ UNCHANGED <<results, disc>>
        \/ disc' = TRUE
    BY <1>8 DEF Sync, ScanEndCallback, discVars
  <2> QED
    BY <1>8, <2>1 DEF Sync, ToIdle, confVars, OnlyDuringScan
<1> QED
  BY <1>1, <1>2, <1>3, <1>4, <1>5, <1>6, <1>7, <1>8, <1>9 DEF Handling

(* The tasks *)
LEMMA TasksKeepOnlyDuringScan ==
  ASSUME HeapInv, OnlyDuringScan, NEW t \in Tasks, Begin(t) \/ Working(t)
  PROVE  OnlyDuringScan'
<1>0. UNCHANGED <<maxResults, hpc>>
  BY DEF Begin, Working, Publish, Test, Cancel, StopDropsResults, StopReleases, ClearResults,
         Disc, Wake, Unpublish, Return, confVars, hostVars
<1>1. call \in [Tasks -> Calling]
  BY DEF HeapInv, Types, Calling
<1>2. CASE Begin(t)
  <2>1. PICK c \in Calls(app.ops[t]) : call' = [call EXCEPT ![t] = c]
    BY <1>2 DEF Begin
  <2>2. c.pc # "drop"
    BY <2>1 DEF Calls
  <2> QED
    BY <1>0, <1>1, <1>2, <2>1, <2>2 DEF Begin, At, discVars, heapVars, OnlyDuringScan
<1>3. CASE Cancel(t)
  BY <1>0, <1>1, <1>3 DEF Cancel, Failed, Goto, At, discVars, heapVars, OnlyDuringScan, Calling
<1>4. CASE StopDropsResults(t) \/ ClearResults(t)
  <2>1. maxResults = 0 => results' = NoResults
    BY <1>4 DEF StopDropsResults, ClearResults, Clear
  <2> QED
    BY <1>0, <2>1 DEF OnlyDuringScan
<1>5. CASE Disc(t)
  <2>1. call'[t].pc # "drop" /\ \A u \in Tasks \ {t} : call'[u] = call[u]
    BY <1>1, <1>5 DEF Disc, Failed, Goto, Calling
  <2>2. disc' = TRUE \/ disc' = disc
    BY <1>5 DEF Disc, discVars
  <2>3. UNCHANGED results /\ call[t].pc # "drop"
    BY <1>5 DEF Disc, heapVars, At
  <2> QED
    BY <1>0, <2>1, <2>2, <2>3 DEF OnlyDuringScan
<1>6. CASE Publish(t) \/ Test(t) \/ StopReleases(t) \/ Wake(t) \/ Unpublish(t) \/ Return(t)
  <2>1. UNCHANGED <<disc, results>> /\ call[t].pc # "drop"
    BY <1>6 DEF Publish, Test, StopReleases, Wake, Unpublish, Return, At, discVars, heapVars
  <2>2. \A u \in Tasks \ {t} : call'[u] = call[u]
    BY <1>1, <1>6 DEF Publish, Test, StopReleases, Wake, Unpublish, Return, Goto
  <2> QED
    BY <1>0, <2>1, <2>2 DEF OnlyDuringScan
<1> QED
  BY <1>2, <1>3, <1>4, <1>5, <1>6 DEF Working

LEMMA OnlyDuringScanInvariance ==
  ASSUME Undisturbed PROVE Spec => []OnlyDuringScan
<1>1. Init => OnlyDuringScan
  BY DEF Init, OnlyDuringScan
<1>2. HeapInv /\ QuietInv /\ OnlyDuringScan /\ [Next]_vars => OnlyDuringScan'
  <2> SUFFICES ASSUME HeapInv, QuietInv, OnlyDuringScan, [Next]_vars PROVE OnlyDuringScan'
    OBVIOUS
  <2>1. CASE UNCHANGED vars
    BY <2>1 DEF vars, OnlyDuringScan, heapVars, hostVars, discVars, confVars
  <2> QED
    BY <2>1, HostKeepsOnlyDuringScan, TasksKeepOnlyDuringScan DEF Next
<1> QED
  BY <1>1, <1>2, HeapInvariance, QuietInvariance, PTL DEF Spec

(* However tasks, callbacks, preemption, timeout and host reset end a scan,  *)
(* no device outlives it that was not to be kept: handleGapEvent() has not   *)
(* tested isScanning() for a scan that has ended when it stores the device.  *)
THEOREM NothingOutlivesScan ==
  ASSUME Undisturbed PROVE Spec => []NothingKept
<1>1. OnlyDuringScan => NothingKept
  BY DEF OnlyDuringScan, NothingKept
<1> QED
  BY <1>1, OnlyDuringScanInvariance, PTL

-----------------------------------------------------------------------------
(* The device in hand *)

(* The pointer that handleGapEvent() uses over two callbacks stays valid, if *)
(* no callback stops a scan whose results are not kept: no task deletes the  *)
(* devices of a scan that is being reported, although it may be the one that *)
(* waits for this very scan, on the other core.                              *)
THEOREM DeviceOutlivesCallbacks ==
  ASSUME Undisturbed, \A a \in Apps : 0 \notin a.stopsWith
  PROVE  Spec => []DeviceAlive
<1>1. Init => DeviceAlive
  BY DEF Init, DeviceAlive
<1>2. HeapInv /\ QuietInv /\ DeviceAlive /\ [Next]_vars => DeviceAlive'
  <2> SUFFICES ASSUME HeapInv, QuietInv, DeviceAlive, [Next]_vars PROVE DeviceAlive'
    OBVIOUS
  <2>1. ASSUME NEW t \in Tasks, Begin(t) \/ Working(t) PROVE DeviceAlive'
    <3>1. hpc \in Quiet /\ UNCHANGED hostVars
      BY <2>1, TasksRunWhenQuiet
    <3> QED
      BY <3>1 DEF hostVars, Quiet, DeviceAlive
  <2>2. CASE CheckReport \/ UpdateDevice \/ CreateDevice
    BY <2>2 DEF CheckReport, UpdateDevice, CreateDevice, ToIdle, To, DeviceAlive
  <2>3. CASE FindDevice
    BY <2>3 DEF FindDevice, ToIdle, To, DeviceAlive
  <2>4. CASE Discovered \/ Result
    <3>1. alive /\ (UNCHANGED heapVars \/ Callback(Counted))
      BY <2>4 DEF Discovered, Result
    <3>2. 0 \notin app.stopsWith
      BY DEF HeapInv, Types, TypeOK
    <3>3. UNCHANGED alive
      BY <3>1, <3>2 DEF heapVars, Callback
    <3> QED
      BY <3>1, <3>3 DEF DeviceAlive
  <2>5. CASE \/ Report \/ DropReported \/ Expire \/ PreemptScan \/ PreemptDone \/ Reset
             \/ Complete \/ CompleteReleases \/ ResetState \/ Sync
    <3>1. hpc' \notin {"update", "discovered", "result", "drop"}
      BY <2>5 DEF Report, DropReported, Expire, PreemptScan, PreemptDone, Reset,
                  Complete, CompleteReleases, ResetState, Sync, To, ToIdle
    <3> QED
      BY <3>1 DEF DeviceAlive
  <2>6. CASE UNCHANGED vars
    BY <2>6 DEF vars, hostVars, heapVars, DeviceAlive
  <2> QED
    BY <2>1, <2>2, <2>3, <2>4, <2>5, <2>6 DEF Next, Handling
<1> QED
  BY <1>1, <1>2, HeapInvariance, QuietInvariance, PTL DEF Spec

-----------------------------------------------------------------------------
(* Who waits is released *)

(* The one pointer m_pTaskData can serve one call of getResults() at a time. *)
(* With two cores, the call must not go on between the end of a scan by a    *)
(* host reset and the second reset of its state.                             *)
OneGetter ==
  \A a \in Apps :
    /\ \A t, u \in Tasks : "get" \in a.ops[t] /\ "get" \in a.ops[u] => t = u
    /\ a.preempt => WaitsOnly(a) /\ ~a.resets

(* The pointer is to the task in getResults() from publish to unpublish.     *)
PointerIsGetters ==
  \A t \in Tasks :
    /\ call[t].pc \in {"publish", "wait", "unpublish"} => call[t].op = "get"
    /\ call[t].op = "get" /\ call[t].pc \notin {"idle", "publish", "done"} => ptask = t

(* A host reset ends the scan twice, and releases only the first time: who   *)
(* waits has been released by then.                                        *)
ReleasedBeforeReset ==
  \A t \in Tasks : hpc = "resetState" /\ call[t].pc = "wait" => bit[t]

WaitInv == PointerIsGetters /\ ReleasedBeforeReset /\ WaiterHasScan

(* The pointer and the calls change in the steps of the tasks only. *)
LEMMA PointerSteps ==
  ASSUME OneGetter, HeapInv, PointerIsGetters, NEW t \in Tasks, Begin(t) \/ Working(t)
  PROVE  PointerIsGetters'
<1>0. /\ call \in [Tasks -> Calling] /\ app \in Apps
      /\ \A u \in Tasks : call[u].pc # "idle" => call[u].op \in app.ops[u]
  BY DEF HeapInv, Types, TypeOK, Calling
<1>1. CASE Begin(t)
  <2>1. PICK c \in Calls(app.ops[t]) : call' = [call EXCEPT ![t] = c]
    BY <1>1 DEF Begin
  <2>2. c.pc \notin {"wait", "unpublish"} /\ (c.pc = "publish" => c.op = "get")
        /\ (c.op = "get" => c.pc \in {"publish", "done"})
    BY <2>1 DEF Calls
  <2> QED
    BY <1>0, <1>1, <2>1, <2>2 DEF Begin, PointerIsGetters
<1>2. CASE Publish(t)
  <2>1. call[t].op = "get" /\ \A u \in Tasks : call[u].op = "get" /\ call[u].pc # "idle" => u = t
    BY <1>0, <1>2 DEF Publish, At, PointerIsGetters, OneGetter
  <2> QED
    BY <1>0, <1>2, <2>1 DEF Publish, Goto, PointerIsGetters, Calling
<1>3. CASE Unpublish(t)
  <2>1. call[t].op = "get" /\ \A u \in Tasks : call[u].op = "get" /\ call[u].pc # "idle" => u = t
    BY <1>0, <1>3 DEF Unpublish, At, PointerIsGetters, OneGetter
  <2> QED
    BY <1>0, <1>3, <2>1 DEF Unpublish, Goto, PointerIsGetters, Calling
<1>4. CASE Return(t)
  BY <1>0, <1>4 DEF Return, NoCall, PointerIsGetters, Calling
<1>5. CASE Test(t) \/ Cancel(t) \/ StopDropsResults(t) \/ StopReleases(t) \/ ClearResults(t)
           \/ Disc(t) \/ Wake(t)
  <2>1. UNCHANGED ptask /\ call[t].pc \notin {"idle", "publish", "done"}
    BY <1>5 DEF Test, Cancel, StopDropsResults, StopReleases, ClearResults, Disc, Wake, At
  <2>2. PICK pc \in Places \ {"publish"} :
          /\ call' = [call EXCEPT ![t].pc = pc]
          /\ pc \in {"wait", "unpublish"} => call[t].op = "get"
    <3>1. CASE Test(t) \/ StopDropsResults(t) \/ StopReleases(t) \/ ClearResults(t)
      <4>1. \E place \in {"cancel", "disc", "clear", "release", "done"} :
              call' = [call EXCEPT ![t].pc = place]
        BY <3>1 DEF Test, StopDropsResults, StopReleases, ClearResults, Goto
      <4> QED
        BY <4>1 DEF Places
    <3>2. CASE Cancel(t) \/ Disc(t)
      <4>1. \/ \E place \in {"drop", "done"} : call' = [call EXCEPT ![t].pc = place]
            \/ \E place \in {"wait", "unpublish"} :
                 call[t].op = "get" /\ call' = [call EXCEPT ![t].pc = place]
        BY <3>2 DEF Cancel, Disc, Goto, Failed
      <4> QED
        BY <4>1 DEF Places
    <3>3. CASE Wake(t)
      <4>1. call[t].op = "get"
        BY <3>3 DEF Wake, At, PointerIsGetters
      <4> QED
        BY <3>3, <4>1 DEF Wake, Goto, Places
    <3> QED
      BY <1>5, <3>1, <3>2, <3>3
  <2> QED
    BY <1>0, <2>1, <2>2 DEF PointerIsGetters, Calling
<1> QED
  BY <1>1, <1>2, <1>3, <1>4, <1>5 DEF Working

(* A waiting task is the one that is released. *)
LEMMA ReleaseWakes ==
  ASSUME HeapInv, PointerIsGetters, Release, NEW t \in Tasks, call[t].pc = "wait"
  PROVE  bit'[t]
BY DEF PointerIsGetters, Release

(* The host task: a scan does not end without a release to come. *)
LEMMA HostKeepsWaiters ==
  ASSUME OneGetter, HeapInv, QuietInv, WaitInv,
         \/ Report \/ Handling \/ Expire \/ PreemptScan \/ Reset
  PROVE  WaitInv'
<1>0. UNCHANGED <<ptask, call>>
  BY DEF Report, Handling, Expire, PreemptScan, Reset, CheckReport, FindDevice, UpdateDevice,
         CreateDevice, Discovered, Result, DropReported, PreemptDone, Complete, CompleteReleases, ResetState, Sync
<1>1. PointerIsGetters'
  BY <1>0 DEF WaitInv, PointerIsGetters
<1>2. ASSUME NEW t \in Tasks, call[t].pc = "wait"
      PROVE  /\ hpc' = "resetState" => bit'[t]
             /\ \/ bit'[t]
                \/ disc' \/ hpc' \in {"preempted", "complete", "release"}
                \/ \E u \in Tasks : call'[u].pc \in {"drop", "release"}
  <2>1. \/ bit[t]
        \/ disc \/ hpc \in {"preempted", "complete", "release"}
        \/ \E u \in Tasks : call[u].pc \in {"drop", "release"}
    BY <1>2 DEF WaitInv, WaiterHasScan
  <2>2. CASE \/ Report \/ CheckReport \/ FindDevice \/ UpdateDevice \/ CreateDevice
             \/ DropReported
    BY <1>0, <2>1, <2>2 DEF Report, CheckReport, FindDevice, UpdateDevice, CreateDevice,
                            DropReported, To, ToIdle, discVars
  <2>3. CASE Discovered \/ Result
    <3>1. hpc \in InReport /\ hpc' \in InReport
          /\ (UNCHANGED <<discVars, bit>> \/ (DiscEnds /\ Release))
      BY <2>3, CallbackKeepsHeap DEF Discovered, Result, To, InReport
    <3> QED
      BY <1>0, <1>2, <2>1, <3>1, ReleaseWakes DEF WaitInv, discVars, InReport
  <2>4. CASE Expire \/ PreemptScan \/ PreemptDone \/ Reset
    BY <1>0, <2>1, <2>4 DEF Expire, PreemptScan, PreemptDone, Reset, To, discVars
  <2>5. CASE Complete
    BY <2>5 DEF Complete, To
  <2>6. CASE CompleteReleases
    BY <1>2, <2>6, ReleaseWakes DEF CompleteReleases, WaitInv
  <2>7. CASE ResetState
    BY <1>2, <2>7 DEF ResetState, To, WaitInv, ReleasedBeforeReset
  <2>8. CASE Sync
    <3>1. disc' = TRUE \/ disc' = disc
      BY <2>8 DEF Sync, ScanEndCallback, discVars
    <3> QED
      BY <1>0, <2>1, <2>8, <3>1 DEF Sync, ToIdle
  <2> QED
    BY <2>2, <2>3, <2>4, <2>5, <2>6, <2>7, <2>8 DEF Handling
<1>3. \A t \in Tasks : call[t].pc = "wait" => ptask = t
  BY DEF WaitInv, PointerIsGetters
<1> QED
  BY <1>0, <1>1, <1>2, <1>3 DEF WaitInv, ReleasedBeforeReset, WaiterHasScan

(* The tasks: who stops a scan releases who waits for it. *)
LEMMA TasksKeepWaiters ==
  ASSUME OneGetter, HeapInv, QuietInv, WaitInv, NEW t \in Tasks, Begin(t) \/ Working(t)
  PROVE  WaitInv'
<1>0. call \in [Tasks -> Calling]
  BY DEF HeapInv, Types, Calling
<1>1. hpc = "idle" /\ UNCHANGED hpc
  <2>1. app.preempt => ~app.resets
    BY DEF OneGetter, HeapInv, Types, TypeOK
  <2> QED
    BY <2>1, TasksRunWhenQuiet DEF Quiet, hostVars, QuietInv, NeverReset
<1>2. PointerIsGetters'
  BY PointerSteps DEF WaitInv
<1>3. \A u \in Tasks \ {t} : call'[u] = call[u]
  BY <1>0 DEF Begin, Working, Publish, Test, Cancel, StopDropsResults, StopReleases,
         ClearResults, Disc, Wake, Unpublish, Return, Goto, Failed
<1>4. ASSUME NEW u \in Tasks, call'[u].pc = "wait"
      PROVE  bit'[u] \/ disc' \/ \E v \in Tasks : call'[v].pc \in {"drop", "release"}
  <2>1. CASE Disc(t)
    <3>1. CASE disc' = TRUE
      BY <3>1
    <3>2. CASE ~disc /\ Failed(t) /\ UNCHANGED discVars
      <4>1. u # t /\ call[t].pc = "disc" /\ UNCHANGED bit /\ call'[t].pc # "wait"
        BY <1>0, <1>4, <2>1, <3>2 DEF Disc, At, Failed, Goto, Calling
      <4>2. bit[u] \/ \E v \in Tasks : call[v].pc \in {"drop", "release"}
        BY <1>1, <1>3, <1>4, <3>2, <4>1 DEF WaitInv, WaiterHasScan
      <4> QED
        BY <1>3, <4>1, <4>2
    <3> QED
      BY <2>1, <3>1, <3>2 DEF Disc
  <2>2. CASE ~Disc(t)
    <3>1. u # t
      <4>1. CASE Begin(t)
        <5>1. PICK c \in Calls(app.ops[t]) : call' = [call EXCEPT ![t] = c]
          BY <4>1 DEF Begin
        <5>2. c.pc # "wait"
          BY <5>1 DEF Calls
        <5> QED
          BY <1>0, <1>4, <5>1, <5>2
      <4>2. CASE Return(t)
        BY <1>0, <1>4, <4>2 DEF Return, NoCall
      <4>3. CASE Publish(t) \/ Test(t) \/ Cancel(t) \/ StopDropsResults(t) \/ StopReleases(t)
                 \/ ClearResults(t) \/ Wake(t) \/ Unpublish(t)
        <5>1. \E pc \in Places \ {"wait"} : call' = [call EXCEPT ![t].pc = pc]
          BY <4>3 DEF Publish, Test, Cancel, StopDropsResults, StopReleases, ClearResults, Wake,
                      Unpublish, Goto, Failed, Places
        <5> QED
          BY <1>0, <1>4, <5>1 DEF Calling
      <4> QED
        BY <2>2, <4>1, <4>2, <4>3 DEF Working
    <3>2. call[u].pc = "wait"
      BY <1>3, <1>4, <3>1
    <3>3. bit[u] \/ disc \/ \E v \in Tasks : call[v].pc \in {"drop", "release"}
      BY <1>1, <3>2 DEF WaitInv, WaiterHasScan
    <3>4. CASE Cancel(t)
      <4>1. CASE DiscEnds /\ Goto(t, "drop")
        BY <1>0, <4>1 DEF Goto, Calling
      <4>2. CASE disc /\ UNCHANGED discVars
        BY <4>2 DEF discVars
      <4> QED
        BY <3>4, <4>1, <4>2 DEF Cancel
    <3>5. CASE StopDropsResults(t)
      BY <1>0, <3>5 DEF StopDropsResults, Goto, Calling
    <3>6. CASE StopReleases(t)
      BY <3>2, <3>6, ReleaseWakes DEF StopReleases, WaitInv
    <3>7. CASE Begin(t) \/ Publish(t) \/ Test(t) \/ ClearResults(t) \/ Wake(t) \/ Unpublish(t)
               \/ Return(t)
      <4>1. call[t].pc \notin {"drop", "release"} /\ disc' = disc /\ bit'[u] = bit[u]
        BY <3>1, <3>7 DEF Begin, Publish, Test, ClearResults, Wake, Unpublish, Return, At,
                          discVars, HeapInv, Types, TypeOK
      <4> QED
        BY <1>3, <3>3, <4>1
    <3> QED
      BY <2>2, <3>4, <3>5, <3>6, <3>7 DEF Working
  <2> QED
    BY <2>1, <2>2
<1>5. \A u \in Tasks : call'[u].pc = "wait" => ptask' = u
  BY <1>2 DEF PointerIsGetters
<1> QED
  BY <1>1, <1>2, <1>4, <1>5 DEF WaitInv, ReleasedBeforeReset, WaiterHasScan

(* A call of getResults() that waits is released: by the end of its scan, or *)
(* by the task that has stopped it, in every interleaving.                 *)
THEOREM WaitersAreReleased ==
  ASSUME OneGetter PROVE Spec => []WaiterHasScan
<1>1. Init => WaitInv
  BY DEF Init, NoCall, WaitInv, PointerIsGetters, ReleasedBeforeReset, WaiterHasScan
<1>2. HeapInv /\ QuietInv /\ WaitInv /\ [Next]_vars => WaitInv'
  <2> SUFFICES ASSUME HeapInv, QuietInv, WaitInv, [Next]_vars PROVE WaitInv'
    OBVIOUS
  <2>1. CASE UNCHANGED vars
    BY <2>1 DEF vars, WaitInv, PointerIsGetters, ReleasedBeforeReset, WaiterHasScan,
                hostVars, discVars
  <2> QED
    BY <2>1, HostKeepsWaiters, TasksKeepWaiters DEF Next
<1>3. WaitInv => WaiterHasScan
  BY DEF WaitInv
<1>4. Spec => []QuietInv
  <2>1. Undisturbed
    BY DEF OneGetter, Undisturbed
  <2> QED
    BY <2>1, QuietInvariance
<1> QED
  BY <1>1, <1>2, <1>3, <1>4, HeapInvariance, PTL DEF Spec
=============================================================================
