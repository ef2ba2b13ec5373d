----------------------------- MODULE GattClient -----------------------------
(***************************************************************************)
(* Reading and writing a peer's attributes: the blocking calls of          *)
(* NimBLERemoteValueAttribute.cpp, the GATT client procedures of           *)
(* ble_gattc.c that they start, and the ATT bearer below them (ble_att.c,  *)
(* ble_att_cmd.c), which keeps one request outstanding per connection.     *)
(*                                                                         *)
(* A procedure is transmitted first and put in the list of procedures      *)
(* afterwards; an answer looks for its procedure in that list.  Between    *)
(* the two another task may run.                                           *)
(*                                                                         *)
(* A value is a sequence of chunks, each as long as one request carries.   *)
(* Every task uses an attribute of its own, named by the task.             *)
(***************************************************************************)
EXTENDS Naturals, Sequences, FiniteSets, SequencesExt

CONSTANTS
  Conns,         \* connections
  Tasks,         \* application tasks
  Home,          \* the connection a task's client has
  Readers,       \* the tasks that call readValue()
  Writers,       \* the tasks that call writeValue() with response
  Size,          \* number of chunks of a task's attribute at the peer
  Lengths,       \* numbers of chunks of the values written
  MaxQueue,      \* bound: no call starts with more requests than this in att_tx_q
  AttrMax,       \* BLE_ATT_ATTR_MAX_LEN, in chunks
  PeerErrors,    \* pairs <<request, error>> the peer may answer with
  NoMem,         \* TRUE: the host may run out of buffers
  LateAnswers,   \* TRUE: a peer may answer after the 30 s of a procedure
  Preempt,       \* TRUE: tasks run inside each other's unlocked sections
  None

Requests == {"read", "blob", "write", "prepFirst", "prepLater", "exec"}
Errors == {"auth", "notLong", "refused"}
Results == {"ok", "done", "notConn", "noMem", "timeout", "badData", "invalid"} \cup Errors

ASSUME TasksAssumption ==
  /\ Home \in [Tasks -> Conns] /\ Size \in [Tasks -> Nat \ {0}]
  /\ Readers \subseteq Tasks /\ Writers \subseteq Tasks
ASSUME BoundsAssumption == Lengths \subseteq Nat \ {0} /\ {MaxQueue, AttrMax} \subseteq Nat
ASSUME PeerAssumption == PeerErrors \subseteq Requests \X Errors
ASSUME FlagsAssumption == NoMem \in BOOLEAN /\ LateAnswers \in BOOLEAN /\ Preempt \in BOOLEAN

VARIABLES
  link,          \* "up"; "broken": its procedures were failed; "down": deleted
  busy, txq,     \* client_att_busy and att_tx_q of a connection
  air,           \* requests the peer has, with the answer once there is one
  procs,         \* ble_gattc_procs
  hpc, hrsp, hproc,  \* the host task: where it is, the response and procedure in hand
  call,          \* the blocking call of a task, with its NimBLETaskData
  bit,           \* the notification bit of a task
  silent,        \* a peer that let a procedure time out
  prepq,         \* the chunks a peer has prepared
  written        \* history: chunks stored at the peer since the task's call began

attVars  == <<busy, txq, air>>
hostVars == <<hpc, hrsp, hproc>>
callVars == <<call, bit>>
peerVars == <<silent, prepq, written>>
vars     == <<link, attVars, procs, hostVars, callVars, peerVars>>

Request(op, t, off) == [op |-> op, by |-> t, off |-> off, res |-> "sent"]
NoCall == [pc |-> "idle", op |-> "read", len |-> 0, retry |-> 0, value |-> <<>>, rc |-> "ok"]
Inserting == {"insert", "insertShort"}

TypeOK ==
  /\ link \in [Conns -> {"up", "broken", "down"}]
  /\ busy \in [Conns -> BOOLEAN] /\ silent \in [Conns -> BOOLEAN]
  /\ \A h \in Conns : \A r \in ToSet(air[h]) \cup ToSet(txq[h]) :
       r.by \in Tasks /\ Home[r.by] = h /\ r.off \in Nat
         /\ r.op \in {"read", "blob", "write", "prep", "exec", "cancel"}
         /\ r.res \in {"sent", "ok"} \cup Errors
  /\ \A p \in ToSet(procs) : p.by \in Tasks /\ p.off <= p.len /\ {p.stalled, p.live} \subseteq BOOLEAN
  /\ hpc \in {"idle", "dispatch", "insert", "again", "teardown"}
  /\ \A t \in Tasks :
       /\ call[t].pc \in {"idle", "send", "wait", "sendShort", "secure", "done"} \cup Inserting
       /\ call[t].retry \in 0..1 /\ call[t].rc \in Results
       /\ Len(call[t].value) <= AttrMax
  /\ bit \in [Tasks -> BOOLEAN]

-----------------------------------------------------------------------------
(* The ATT bearer *)

(* ble_att_tx_with_conn() with a request: it waits while another is unanswered. *)
Transmit(h, r) ==
  IF busy[h]
  THEN txq' = [txq EXCEPT ![h] = Append(@, r)] /\ UNCHANGED <<busy, air>>
  ELSE /\ air' = [air EXCEPT ![h] = Append(@, r)]
       /\ busy' = [busy EXCEPT ![h] = TRUE]
       /\ UNCHANGED txq

(* Mutant: the answer does not send the next request of the queue. *)
SendOutstandingNever(h) ==
  /\ busy' = [busy EXCEPT ![h] = FALSE]
  /\ air' = [air EXCEPT ![h] = Tail(@)]
  /\ UNCHANGED txq

(* ble_att_send_outstanding_after_response() *)
SendOutstanding(h) ==
  IF txq[h] = <<>>
  THEN /\ busy' = [busy EXCEPT ![h] = FALSE]
       /\ air' = [air EXCEPT ![h] = Tail(@)]
       /\ UNCHANGED txq
  ELSE /\ air' = [air EXCEPT ![h] = Append(Tail(@), Head(txq[h]))]
       /\ txq' = [txq EXCEPT ![h] = Tail(@)]
       /\ UNCHANGED busy

-----------------------------------------------------------------------------
(* The application tasks.  Without preemption nobody runs while the host is  *)
(* in a handler or another task between its send and its insertion.          *)

Inside == {t \in Tasks : call[t].pc \in Inserting}
AppMayRun(t) == Preempt \/ (hpc = "idle" /\ Inside \subseteq {t})
HostMayRun == Preempt \/ Inside = {}

MayCall(t) == AppMayRun(t) /\ call[t].pc = "idle" /\ Len(txq[Home[t]]) <= MaxQueue

Finish(t, rc) == call' = [call EXCEPT ![t].pc = "done", ![t].rc = rc]

(* readValue() begins. *)
readValue(t) ==
  /\ t \in Readers /\ MayCall(t)
  /\ call' = [call EXCEPT ![t] = [NoCall EXCEPT !.pc = "send", !.retry = 1]]
  /\ UNCHANGED <<link, attVars, procs, hostVars, bit, peerVars>>

(* writeValue() with response begins; n chunks. *)
writeValue(t) ==
  /\ t \in Writers /\ MayCall(t)
  /\ \E n \in Lengths :
       call' = [call EXCEPT ![t] = [NoCall EXCEPT !.pc = "send", !.op = "write",
                                                  !.len = n, !.retry = 1]]
  /\ written' = [written EXCEPT ![t] = {}]
  /\ UNCHANGED <<link, attVars, procs, hostVars, bit, silent, prepq>>

FirstRequest(t) ==
  CASE call[t].op = "read" -> Request("read", t, 0)
    [] call[t].op = "write" /\ call[t].len = 1 -> Request("write", t, 0)
    [] OTHER -> Request("prep", t, 0)

(* ble_gattc_read_long(), ble_gattc_write(), ble_gattc_write_long() and, for *)
(* an attribute that is not long, ble_gattc_read(): the request goes out.    *)
Send(t) ==
  /\ AppMayRun(t) /\ call[t].pc \in {"send", "sendShort"}
  /\ UNCHANGED <<link, procs, hostVars, bit, peerVars>>
  /\ \/ /\ link[Home[t]] # "down"
        /\ Transmit(Home[t], FirstRequest(t))
        /\ call' = [call EXCEPT ![t].pc = IF @ = "send" THEN "insert" ELSE "insertShort"]
     \/ link[Home[t]] = "down" /\ Finish(t, "notConn") /\ UNCHANGED attVars
     \/ NoMem /\ Finish(t, "noMem") /\ UNCHANGED attVars

ProcOp(t) ==
  IF call[t].op = "read"
  THEN IF call[t].pc = "insertShort" THEN "read" ELSE "readLong"
  ELSE IF call[t].len = 1 THEN "write" ELSE "writeLong"

(* ble_gattc_process_status(): then the procedure is put in the list.  For   *)
(* the short read the loop of readValue() ends here, rc being 0.             *)
Insert(t) ==
  /\ AppMayRun(t) /\ call[t].pc \in Inserting
  /\ procs' = Append(procs, [by |-> t, op |-> ProcOp(t), off |-> 0, len |-> call[t].len,
                             stalled |-> FALSE, live |-> TRUE])
  /\ call' = [call EXCEPT ![t].pc = IF @ = "insert" THEN "wait" ELSE "done",
                          ![t].rc = IF call[t].pc = "insert" THEN @ ELSE "ok"]
  /\ UNCHANGED <<link, attVars, hostVars, bit, peerVars>>

(* Mutant: the retry count is not looked at. *)
AfterWaitUncounted(c) ==
  CASE c.rc \in {"ok", "done"} -> [c EXCEPT !.pc = "done"]
    [] c.rc = "auth" -> [c EXCEPT !.pc = "secure"]
    [] OTHER -> [c EXCEPT !.pc = "done"]

(* What readValue() and writeValue() do with the result of a procedure: a    *)
(* long write the peer refuses is cut to one chunk and written again.        *)
AfterWait(c) ==
  CASE c.rc \in {"ok", "done"} -> [c EXCEPT !.pc = "done"]
    [] c.rc = "notLong" /\ c.op = "read" -> [c EXCEPT !.pc = "sendShort"]
    [] c.rc = "notLong" /\ c.op = "write" -> [c EXCEPT !.pc = "send", !.len = 1]
    [] c.rc = "auth" /\ c.retry > 0 -> [c EXCEPT !.pc = "secure"]
    [] OTHER -> [c EXCEPT !.pc = "done"]

(* Mutant: the notification stays set. *)
WakeKeepsBit(t) ==
  /\ AppMayRun(t) /\ call[t].pc = "wait" /\ bit[t]
  /\ call' = [call EXCEPT ![t] = AfterWait(@)]
  /\ UNCHANGED <<link, attVars, procs, hostVars, bit, peerVars>>

(* taskWait() ends when the bit is set, whoever set it. *)
Wake(t) ==
  /\ AppMayRun(t) /\ call[t].pc = "wait" /\ bit[t]
  /\ bit' = [bit EXCEPT ![t] = FALSE]
  /\ call' = [call EXCEPT ![t] = AfterWait(@)]
  /\ UNCHANGED <<link, attVars, procs, hostVars, peerVars>>

(* Mutant: the procedure is started again whether or not the link was        *)
(* secured, as often as the peer asks.                                       *)
SecureAlways(t) ==
  /\ AppMayRun(t) /\ call[t].pc = "secure"
  /\ call' = [call EXCEPT ![t].pc = "send"]
  /\ UNCHANGED <<link, attVars, procs, hostVars, bit, peerVars>>

(* secureConnection() succeeds, and the procedure is started once more, or   *)
(* it fails, and the call with it.                                           *)
Secure(t) ==
  /\ AppMayRun(t) /\ call[t].pc = "secure"
  /\ \/ call' = [call EXCEPT ![t].pc = "send", ![t].retry = @ - 1]
     \/ call' = [call EXCEPT ![t].pc = "done"]
  /\ UNCHANGED <<link, attVars, procs, hostVars, bit, peerVars>>

(* The call returns, and its task data on the stack is gone. *)
Return(t) ==
  /\ AppMayRun(t) /\ call[t].pc = "done"
  /\ call' = [call EXCEPT ![t] = NoCall]
  /\ procs' = [i \in DOMAIN procs |->
                 IF procs[i].by = t THEN [procs[i] EXCEPT !.live = FALSE] ELSE procs[i]]
  /\ hproc' = IF hproc # None /\ hproc.by = t THEN [hproc EXCEPT !.live = FALSE] ELSE hproc
  /\ UNCHANGED <<link, attVars, hpc, hrsp, bit, peerVars>>

-----------------------------------------------------------------------------
(* The host task *)

(* onReadCB(), onWriteCB() with a status that ends the call: the task is     *)
(* released unless the client has lost the connection.                       *)
Callback(p, rc) ==
  IF p.live /\ (rc = "notConn" \/ link[Home[p.by]] # "down")
  THEN /\ call' = [call EXCEPT ![p.by].rc = rc]
       /\ bit' = [bit EXCEPT ![p.by] = TRUE]
  ELSE UNCHANGED callVars

NoRsp == hrsp' = None
HostDone == hpc' = "idle" /\ hproc' = None /\ NoRsp
HostKeeps(p) == hpc' = "insert" /\ hproc' = p /\ NoRsp

(* Sends the next request of a procedure, or stalls it for want of a buffer. *)
Resume(p, r) ==
  \/ Transmit(Home[p.by], r) /\ HostKeeps([p EXCEPT !.stalled = FALSE])
  \/ NoMem /\ HostKeeps([p EXCEPT !.stalled = TRUE]) /\ UNCHANGED attVars

NextWrite(p) ==
  IF p.off = p.len THEN Request("exec", p.by, p.off) ELSE Request("prep", p.by, p.off)

(* ble_gattc_write_long_tx() refuses an offset past the longest attribute.   *)
(* Then the callback runs here and again in ble_gattc_write_long_rx_prep().  *)
ResumeWrite(p) ==
  \/ /\ p.off < p.len /\ p.off >= AttrMax
     /\ Callback(p, "invalid")
     /\ hpc' = "again" /\ hproc' = p /\ NoRsp /\ UNCHANGED attVars
  \/ /\ p.off = p.len \/ p.off < AttrMax
     /\ Resume(p, NextWrite(p)) /\ UNCHANGED callVars

(* onReadCB() with data: it is added to the value, which has a largest size. *)
ValueFull(p) == Len(call[p.by].value) >= AttrMax
Heard(p) == p.live /\ link[Home[p.by]] # "down"
AddChunk(p, r) ==
  /\ call' = IF Heard(p) THEN [call EXCEPT ![p.by].value = Append(@, <<r.by, r.off>>)] ELSE call
  /\ UNCHANGED bit

(* ble_gattc_read_long_rx_read_rsp(): a short answer is the last. *)
ReadLongRsp(p, r) ==
  \/ /\ Heard(p) /\ ValueFull(p)
     /\ Callback(p, "invalid") /\ HostDone /\ UNCHANGED attVars
  \/ /\ ~(Heard(p) /\ ValueFull(p))
     /\ \/ /\ r.off + 1 < Size[r.by] /\ link[Home[p.by]] # "down"
           /\ AddChunk(p, r)
           /\ LET q == [p EXCEPT !.off = @ + 1, !.len = @ + 1]
              IN Resume(q, Request("blob", p.by, q.off))
        \/ /\ r.off + 1 < Size[r.by] /\ link[Home[p.by]] = "down"
           /\ HostDone /\ UNCHANGED <<attVars, callVars>>
        \/ /\ r.off + 1 >= Size[r.by]
           /\ call' = IF Heard(p)
                      THEN [call EXCEPT ![p.by].value = Append(@, <<r.by, r.off>>),
                                        ![p.by].rc = "done"]
                      ELSE call
           /\ bit' = [bit EXCEPT ![p.by] = @ \/ Heard(p)]
           /\ HostDone /\ UNCHANGED attVars

(* ble_gattc_read_rx_read_rsp(): the short read's only answer *)
ReadRsp(p, r) ==
  /\ IF Heard(p) /\ ValueFull(p) THEN Callback(p, "invalid") ELSE AddChunk(p, r)
  /\ HostDone /\ UNCHANGED attVars

(* ble_gattc_write_long_rx_prep(): the echo must be what was prepared. *)
PrepRsp(p, r) ==
  IF p.off < p.len /\ r.by = p.by /\ r.off = p.off
  THEN ResumeWrite([p EXCEPT !.off = @ + 1])
  ELSE Callback(p, "badData") /\ HostDone /\ UNCHANGED attVars

(* ble_gattc_write_long_rx_exec(): before the last chunk the procedure is    *)
(* freed without a callback.                                                 *)
ExecRsp(p) ==
  /\ IF p.off < p.len THEN UNCHANGED callVars ELSE Callback(p, "ok")
  /\ HostDone /\ UNCHANGED attVars

(* ble_gattc_write_long_err() and the other error handlers: what a long      *)
(* write has prepared is cancelled.                                          *)
ErrorRsp(p, rc) ==
  /\ Callback(p, rc) /\ HostDone
  /\ IF p.op = "writeLong" /\ p.off > 0 /\ p.off < p.len
     THEN Transmit(Home[p.by], Request("cancel", p.by, p.off))
     ELSE UNCHANGED attVars

(* Mutant: an answer goes to the first procedure of its connection. *)
MatchesByConn(p, r, h) == Home[p.by] = h

(* Which procedure takes an answer.  ble_gattc_proc_matches_conn_rx_entry()  *)
(* compares the connection only if the channel differs as well, and the      *)
(* channel is always the ATT channel: those answers go by operation alone.   *)
Matches(p, r, h) ==
  IF r.res \in Errors THEN Home[p.by] = h ELSE
  CASE r.op = "read" -> p.op \in {"read", "readLong"}
    [] r.op = "blob" -> p.op = "readLong" /\ Home[p.by] = h
    [] r.op = "write" -> p.op = "write" /\ Home[p.by] = h
    [] OTHER -> p.op = "writeLong"

(* ble_att_rx_extended(): the bearer is free again, before the dispatch. *)
Receive(h) ==
  /\ HostMayRun /\ hpc = "idle" /\ link[h] = "up"
  /\ air[h] # <<>> /\ Head(air[h]).res # "sent"
  /\ SendOutstanding(h)
  /\ hpc' = "dispatch" /\ hrsp' = [rsp |-> Head(air[h]), conn |-> h]
  /\ UNCHANGED <<link, procs, hproc, callVars, peerVars>>

HandleRsp(p, r) ==
  CASE r.res \in Errors -> ErrorRsp(p, r.res)
    [] r.res = "ok" /\ p.op = "readLong" -> ReadLongRsp(p, r)
    [] r.res = "ok" /\ p.op = "read" -> ReadRsp(p, r)
    [] r.res = "ok" /\ p.op = "write" -> Callback(p, "ok") /\ HostDone /\ UNCHANGED attVars
    [] r.res = "ok" /\ p.op = "writeLong" /\ r.op = "prep" -> PrepRsp(p, r)
    [] OTHER -> ExecRsp(p)

(* ble_gattc_rx_*(): the first procedure that matches leaves the list and    *)
(* takes the answer; without one the answer is dropped.                      *)
Dispatch ==
  /\ HostMayRun /\ hpc = "dispatch"
  /\ LET r == hrsp.rsp
         found == {i \in DOMAIN procs : Matches(procs[i], r, hrsp.conn)}
     IN \/ found = {} /\ HostDone /\ UNCHANGED <<attVars, procs, callVars>>
        \/ \E i \in found :
             /\ \A j \in found : i <= j
             /\ procs' = RemoveAt(procs, i)
             /\ HandleRsp(procs[i], r)
  /\ UNCHANGED <<link, peerVars>>

(* ble_gattc_process_status(): a procedure that goes on is put back, last. *)
Reinsert ==
  /\ HostMayRun /\ hpc = "insert"
  /\ procs' = Append(procs, hproc)
  /\ HostDone
  /\ UNCHANGED <<link, attVars, callVars, peerVars>>

(* The second callback of a long write whose next request was refused *)
CallbackAgain ==
  /\ HostMayRun /\ hpc = "again"
  /\ Callback(hproc, "invalid") /\ HostDone
  /\ UNCHANGED <<link, attVars, procs, peerVars>>

(* Mutant: the timer takes the procedure away and tells nobody. *)
ExpireSilently ==
  /\ HostMayRun /\ hpc = "idle"
  /\ \E i \in DOMAIN procs :
       /\ LateAnswers \/ \A r \in ToSet(air[Home[procs[i].by]]) : r.res = "sent"
       /\ procs' = RemoveAt(procs, i)
       /\ silent' = [silent EXCEPT ![Home[procs[i].by]] = ~LateAnswers]
  /\ UNCHANGED <<link, attVars, hostVars, callVars, prepq, written>>

(* Mutant: the timer leaves the procedure in the list. *)
ExpireInPlace ==
  /\ HostMayRun /\ hpc = "idle"
  /\ \E i \in DOMAIN procs :
       /\ Callback(procs[i], "timeout")
       /\ silent' = [silent EXCEPT ![Home[procs[i].by]] = ~LateAnswers]
  /\ UNCHANGED <<link, attVars, procs, hostVars, prepq, written>>

(* ble_gattc_timer(): a procedure without an answer for 30 s is reported and *)
(* its connection is told to end; Break is how it ends.                      *)
Expire ==
  /\ HostMayRun /\ hpc = "idle"
  /\ \E i \in DOMAIN procs :
       /\ LateAnswers \/ \A r \in ToSet(air[Home[procs[i].by]]) : r.res = "sent"
       /\ Callback(procs[i], "timeout")
       /\ procs' = RemoveAt(procs, i)
       /\ silent' = [silent EXCEPT ![Home[procs[i].by]] = ~LateAnswers]
  /\ UNCHANGED <<link, attVars, hostVars, prepq, written>>

(* ble_gattc_extract(): the places of s that are kept, in their order *)
Kept(s, places) ==
  [n \in 1..Cardinality(places) |->
     s[CHOOSE i \in places : Cardinality({j \in places : j <= i}) = n]]

(* ble_gattc_resume_procs(): the stalled procedures are taken out and the    *)
(* first is resumed; putting it back ends the list that the loop walks, and  *)
(* the others are lost.                                                      *)
ResumeStalled ==
  /\ HostMayRun /\ hpc = "idle"
  /\ \E i \in DOMAIN procs :
       /\ procs[i].stalled /\ \A j \in 1..(i - 1) : ~procs[j].stalled
       /\ IF procs[i].op = "readLong"
          THEN Resume(procs[i], Request("blob", procs[i].by, procs[i].off)) /\ UNCHANGED callVars
          ELSE ResumeWrite(procs[i])
  /\ procs' = Kept(procs, {i \in DOMAIN procs : ~procs[i].stalled})
  /\ UNCHANGED <<link, peerVars>>

OfConn(p, h) == Home[p.by] = h

(* ble_gattc_connection_broken(): every procedure of the connection fails,   *)
(* and what waits to be sent is freed.  The cancel request of a failed long  *)
(* write goes the same way.                                                  *)
Break(h) ==
  /\ HostMayRun /\ hpc = "idle" /\ link[h] = "up"
  /\ LET failed == {p \in ToSet(procs) : OfConn(p, h)}
         told(t) == \E p \in failed : p.by = t /\ p.live
     IN /\ call' = [t \in Tasks |-> IF told(t) THEN [call[t] EXCEPT !.rc = "notConn"] ELSE call[t]]
        /\ bit' = [t \in Tasks |-> bit[t] \/ told(t)]
  /\ procs' = Kept(procs, {i \in DOMAIN procs : ~OfConn(procs[i], h)})
  /\ link' = [link EXCEPT ![h] = "broken"]
  /\ txq' = [txq EXCEPT ![h] = <<>>]
  /\ hpc' = "teardown" /\ hrsp' = [rsp |-> None, conn |-> h] /\ hproc' = None
  /\ UNCHANGED <<busy, air, peerVars>>

(* ble_hs_atomic_conn_delete(), and the DISCONNECT event that clears the     *)
(* client's handle                                                           *)
Delete ==
  /\ HostMayRun /\ hpc = "teardown"
  /\ link' = [link EXCEPT ![hrsp.conn] = "down"]
  /\ HostDone
  /\ UNCHANGED <<attVars, procs, callVars, peerVars>>

(* A new connection, for which the controller uses the same handle *)
Connect(h) ==
  /\ HostMayRun /\ hpc = "idle" /\ link[h] = "down"
  /\ link' = [link EXCEPT ![h] = "up"]
  /\ busy' = [busy EXCEPT ![h] = FALSE]
  /\ txq' = [txq EXCEPT ![h] = <<>>]
  /\ air' = [air EXCEPT ![h] = <<>>]
  /\ silent' = [silent EXCEPT ![h] = FALSE]
  /\ prepq' = [prepq EXCEPT ![h] = {}]
  /\ UNCHANGED <<procs, hostVars, callVars, written>>

-----------------------------------------------------------------------------
(* The peer's server answers the requests it has in order. *)

Kind(r) == IF r.op # "prep" THEN r.op ELSE IF r.off = 0 THEN "prepFirst" ELSE "prepLater"

Prepared(h, t) == {x[2] : x \in {y \in prepq[h] : y[1] = t}}

Answer(h) ==
  /\ link[h] = "up" /\ ~silent[h]
  /\ air[h] # <<>> /\ Head(air[h]).res = "sent"
  /\ \E res \in {"ok"} \cup {e \in Errors : <<Kind(Head(air[h])), e>> \in PeerErrors} :
       LET r == Head(air[h]) IN
       /\ air' = [air EXCEPT ![h] = [@ EXCEPT ![1].res = res]]
       /\ prepq' = [prepq EXCEPT ![h] =
            CASE r.op \in {"exec", "cancel"} -> {}
              [] r.op = "prep" /\ res = "ok" -> @ \cup {<<r.by, r.off>>}
              [] OTHER -> @]
       /\ written' =
            CASE r.op = "exec" /\ res = "ok" ->
                   [t \in Tasks |-> written[t] \cup Prepared(h, t)]
              [] r.op = "write" /\ res = "ok" -> [written EXCEPT ![r.by] = @ \cup {0}]
              [] OTHER -> written
  /\ UNCHANGED <<link, busy, txq, procs, hostVars, callVars, silent>>

-----------------------------------------------------------------------------
Init ==
  /\ link = [h \in Conns |-> "up"]
  /\ busy = [h \in Conns |-> FALSE]
  /\ txq = [h \in Conns |-> <<>>] /\ air = [h \in Conns |-> <<>>]
  /\ procs = <<>>
  /\ hpc = "idle" /\ hrsp = None /\ hproc = None
  /\ call = [t \in Tasks |-> NoCall] /\ bit = [t \in Tasks |-> FALSE]
  /\ silent = [h \in Conns |-> FALSE] /\ prepq = [h \in Conns |-> {}]
  /\ written = [t \in Tasks |-> {}]

AppNext(t) ==
  \/ readValue(t) \/ writeValue(t) \/ Send(t) \/ Insert(t) \/ Wake(t) \/ Secure(t) \/ Return(t)

HostNext ==
  \/ \E h \in Conns : Receive(h) \/ Break(h) \/ Connect(h)
  \/ Dispatch \/ Reinsert \/ CallbackAgain \/ Expire \/ ResumeStalled \/ Delete

Next == (\E t \in Tasks : AppNext(t)) \/ HostNext \/ \E h \in Conns : Answer(h)

Spec == Init /\ [][Next]_vars

(* The scheduler runs every task that is ready, and the timer of a procedure *)
(* expires; buffers become free again.  Nothing makes a peer answer.         *)
Fairness ==
  /\ \A t \in Tasks : SF_vars(Send(t) \/ Insert(t) \/ Wake(t) \/ Secure(t) \/ Return(t))
  /\ WF_vars((\E h \in Conns : Receive(h)) \/ Dispatch \/ Reinsert \/ CallbackAgain \/ Delete)
  /\ SF_vars(Expire)
FairSpec == Spec /\ Fairness

-----------------------------------------------------------------------------
(* Properties *)

(* A readValue() that succeeds returns the peer's attribute: all of its      *)
(* chunks, in order, and nothing of another attribute.  Answers carry        *)
(* neither handle nor offset; only the matching of procedures keeps them     *)
(* apart (ble_gattc.c, ble_gattc_rx_read_rsp, ble_gattc_rx_read_blob_rsp).   *)
ReadIntegrity ==
  \A t \in Tasks :
    call[t].pc = "done" /\ call[t].op = "read" /\ call[t].rc \in {"ok", "done"}
      => call[t].value = [i \in 1..Size[t] |-> <<t, i - 1>>]

(* A writeValue() that succeeds has stored every chunk at the peer since it  *)
(* was called.                                                               *)
TrueMeansWritten ==
  \A t \in Tasks :
    call[t].pc = "done" /\ call[t].op = "write" /\ call[t].rc \in {"ok", "done"}
      => 0..(call[t].len - 1) \subseteq written[t]

(* At most one request of a connection is unanswered, the busy flag says     *)
(* whether there is one, and nothing waits in the queue of an idle bearer.   *)
OneRequestOutstanding ==
  \A h \in Conns : link[h] = "up" =>
    /\ Len(air[h]) = IF busy[h] THEN 1 ELSE 0
    /\ busy[h] \/ txq[h] = <<>>

(* A waiting call is about to be woken, or a procedure still has its         *)
(* callback: no procedure ends without one.                                  *)
WaiterHasProcedure ==
  \A t \in Tasks : call[t].pc = "wait" =>
    \/ bit[t]
    \/ \E p \in ToSet(procs) \cup ({hproc} \ {None}) : p.by = t /\ p.live

(* The callback argument of a procedure is on the caller's stack: no         *)
(* procedure outlives the call that started it.                              *)
ProceduresEndWithCalls ==
  \A p \in ToSet(procs) \cup ({hproc} \ {None}) : p.live

(* Every blocking call returns. *)
CallsReturn == \A t \in Tasks : (call[t].pc # "idle") ~> (call[t].pc = "idle")
=============================================================================
