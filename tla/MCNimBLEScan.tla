---------------------------- MODULE MCNimBLEScan ----------------------------
(* Small instances of NimBLEScan for TLC. *)
EXTENDS NimBLEScan, TLC

CONSTANTS a1, a2, t1, t2

(* One core: a task waits for its scans, another starts, stops and clears,   *)
(* and so do the callbacks.                                                  *)
OneCore ==
  [ops |-> t1 :> {"get"} @@ t2 :> {"start", "stop", "clear"}, stopsWith |-> {1},
   restarts |-> TRUE, resets |-> TRUE, preempt |-> FALSE]

(* Two cores: one task that does nothing but wait for its scans. *)
TwoCores ==
  [ops |-> t1 :> {"get"} @@ t2 :> {}, stopsWith |-> {}, restarts |-> FALSE,
   resets |-> FALSE, preempt |-> TRUE]

Disciplined == {OneCore, TwoCores}

(* A second task is at work inside the handlers, or a callback stops a scan  *)
(* whose results are not kept.                                               *)
TwoCoresTwoTasks == {[OneCore EXCEPT !.preempt = TRUE]}
CallbackStopsAll == {[OneCore EXCEPT !.stopsWith = {0, 1}]}
TwoGetters == {[OneCore EXCEPT !.ops = t1 :> {"get"} @@ t2 :> {"get", "start"}]}
TwoCoresResets == {[TwoCores EXCEPT !.resets = TRUE]}
=============================================================================
