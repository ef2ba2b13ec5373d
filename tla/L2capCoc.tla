------------------------------ MODULE L2capCoc ------------------------------
(***************************************************************************)
(* An L2CAP connection-oriented channel between two devices that run this  *)
(* code: NimBLEL2CAPChannel.cpp on ble_l2cap_coc.c and ble_l2cap_sig.c.    *)
(* One end opens the channel and writes; the other accepts it and reads.   *)
(*                                                                         *)
(* An SDU goes out in frames, each of which costs the sender a credit; the *)
(* receiver gives credits back.  A writer that runs out of them leaves the *)
(* rest of its SDU to the host task and blocks in its NEXT write, until    *)
(* the event that the channel is unstalled.                                *)
(*                                                                         *)
(* Both directions of the link keep the order of signals and frames.       *)
(***************************************************************************)
EXTENDS Naturals, Sequences, FiniteSets

CONSTANTS
  Initial,       \* initial credits: frames of the largest SDU, without its header
  MaxFrames,     \* frames of the largest SDU
  MaxSdus,       \* bound on the SDUs of one channel
  Retries,       \* RetryCounter
  TxNoMem,       \* TRUE: the sender's host may run out of buffers
  LoseCredits,   \* TRUE: the receiver's host may, when it returns credits
  MayRefuse,     \* TRUE: the delegate of the server may refuse the channel
  LinkLoss,      \* TRUE: the connection may be lost
  None

ASSUME CreditsAssumption ==
  Initial \in Nat \ {0} /\ MaxFrames \in {Initial, Initial + 1} /\ MaxSdus \in Nat
ASSUME RetriesAssumption == Retries \in Nat \ {0}
ASSUME NoneAssumption == None \notin Nat
ASSUME FlagsAssumption ==
  {TxNoMem, LoseCredits, MayRefuse, LinkLoss} \subseteq BOOLEAN

VARIABLES
  chanA, chanB,  \* the ends of the channel in the two hosts
  ptr,           \* NimBLEL2CAPChannel::channel of the writer: "null", "live" or "freed"
  toB, toA,      \* signals and frames in flight
  owed,          \* history: the credits in flight to A
  tx,            \* coc_tx: sdu, data_offset (in frames), credits, the STALLED flag
  event,         \* the unstalled event the host task of A has to deliver
  w,             \* write(): where it is, fragments to send, retries, result
  stalled, published, bit,  \* NimBLEL2CAPChannel::stalled, m_pTaskData, notification
  rx,            \* coc_rx: credits, expected length, frames received
  sizes,         \* history: the frames of every SDU the host accepted
  delivered,     \* history: the SDUs handed to onRead()
  fault          \* "doubleFree", "freed" or "null": a use of such memory

chanVars   == <<chanA, chanB, ptr>>
airVars    == <<toB, toA, owed>>
writerVars == <<w, stalled, published, bit>>
vars == <<chanVars, airVars, tx, event, writerVars, rx, sizes, delivered, fault>>

NoTx == [sdu |-> None, off |-> 0, credits |-> 0, flag |-> FALSE]
NoRx == [credits |-> 0, len |-> 0, got |-> <<>>]
NotWriting == [pc |-> "idle", todo |-> <<>>, tries |-> 0, ok |-> TRUE]
Frame(id, k) == [kind |-> "frame", id |-> id, k |-> k]
Signal(kind, n) == [kind |-> kind, n |-> n]

TypeOK ==
  /\ chanA \in {"none", "connecting", "open"}
  /\ chanB \in {"none", "open", "closing"}
  /\ ptr \in {"null", "live", "freed"}
  /\ tx.off \in 0..MaxFrames /\ tx.credits \in 0..Initial /\ tx.flag \in BOOLEAN
  /\ tx.sdu \in {None} \cup DOMAIN sizes
  /\ rx.credits \in 0..Initial /\ rx.len \in 0..MaxFrames /\ Len(rx.got) < MaxFrames
  /\ event \in {"none", "unstalled", "failed"}
  /\ w.pc \in {"idle", "fragment", "wait", "send", "mark", "done", "dead"}
  /\ w.tries \in 0..Retries /\ {w.ok, stalled, published, bit} \subseteq BOOLEAN
  /\ \A i \in DOMAIN w.todo : w.todo[i] \in 1..MaxFrames
  /\ Len(sizes) <= MaxSdus + 2 * Retries /\ owed \in Nat
  /\ fault \in {"none", "doubleFree", "freed", "null"}

-----------------------------------------------------------------------------
(* The sender's host *)

(* Mutant: the offset is not reset behind the SDU. *)
SendFramesKeepOffset(t, size, n) ==
  /\ toB' = toB \o [i \in 1..n |-> Frame(t.sdu, t.off + i)]
  /\ tx' = IF n > 0 /\ t.off + n = size
           THEN [t EXCEPT !.sdu = None, !.off = @ + n, !.credits = @ - n, !.flag = FALSE]
           ELSE [t EXCEPT !.off = @ + n, !.credits = @ - n, !.flag = TRUE]

(* The loop of ble_l2cap_coc_continue_tx(): n frames of the SDU go out.  The *)
(* offset starts over only behind a whole SDU.                               *)
SendFrames(t, size, n) ==
  /\ toB' = toB \o [i \in 1..n |-> Frame(t.sdu, t.off + i)]
  /\ tx' = IF n > 0 /\ t.off + n = size
           THEN [t EXCEPT !.sdu = None, !.off = 0, !.credits = @ - n, !.flag = FALSE]
           ELSE [t EXCEPT !.off = @ + n, !.credits = @ - n, !.flag = TRUE]

(* The offset that a failed SDU left is the end of this one: it is taken for *)
(* sent behind a frame with nothing in it.                                   *)
SendEmpty(t) ==
  /\ toB' = Append(toB, Frame(t.sdu, 0))
  /\ tx' = [t EXCEPT !.sdu = None, !.off = 0, !.credits = @ - 1, !.flag = FALSE]

(* A failure after n frames: the SDU is freed and the offset stays. *)
SendFails(t, n) ==
  /\ toB' = toB \o [i \in 1..n |-> Frame(t.sdu, t.off + i)]
  /\ tx' = [t EXCEPT !.sdu = None, !.off = @ + n, !.credits = @ - n, !.flag = FALSE]

Smaller(a, b) == IF a < b THEN a ELSE b
Sendable(t, size) == IF t.off >= size THEN 0 ELSE Smaller(t.credits, size - t.off)

(* ble_l2cap_coc_continue_tx(): as much goes out as there are credits for;   *)
(* it fails at the last of the frames at the latest, and at once if the SDU  *)
(* ends in front of the offset.                                              *)
Continues(t, size) ==
  \/ (t.off < size \/ t.credits = 0) /\ SendFrames(t, size, Sendable(t, size))
  \/ t.off = size /\ t.credits > 0 /\ SendEmpty(t)

Fails(t, size) ==
  /\ t.credits > 0 /\ (TxNoMem \/ t.off >= size)
  /\ \E n \in {0} \cup 1..(Sendable(t, size) - 1) : SendFails(t, n)

(* write() *)
write ==
  /\ w.pc = "idle"
  /\ IF ptr = "null" THEN w' = [w EXCEPT !.pc = "done", !.ok = FALSE]
     ELSE \E n \in 1..MaxFrames, two \in BOOLEAN :
            /\ Len(sizes) + (IF two THEN 2 ELSE 1) <= MaxSdus
            /\ w' = [NotWriting EXCEPT !.pc = "fragment",
                                       !.todo = IF two THEN <<MaxFrames, n>> ELSE <<n>>]
  /\ UNCHANGED <<chanVars, airVars, tx, event, stalled, published, bit, rx, sizes, delivered, fault>>

(* writeFragment(): a writer that stalled before publishes its task data and *)
(* waits.                                                                    *)
Fragment ==
  /\ w.pc = "fragment"
  /\ IF stalled
     THEN published' = TRUE /\ w' = [w EXCEPT !.pc = "wait"]
     ELSE w' = [w EXCEPT !.pc = "send", !.tries = Retries] /\ UNCHANGED published
  /\ UNCHANGED <<chanVars, airVars, tx, event, stalled, bit, rx, sizes, delivered, fault>>

Woken ==
  /\ w.pc = "wait" /\ bit
  /\ bit' = FALSE /\ published' = FALSE /\ stalled' = FALSE
  /\ w' = [w EXCEPT !.pc = "send", !.tries = Retries]
  /\ UNCHANGED <<chanVars, airVars, tx, event, rx, sizes, delivered, fault>>

(* The fragment was taken: the next one, or the end of write(). *)
Taken(c) ==
  IF Len(c.todo) = 1 THEN [c EXCEPT !.pc = "done", !.todo = <<>>]
  ELSE [c EXCEPT !.pc = "fragment", !.todo = Tail(@)]

(* 50 ms later the fragment is sent again, or dropped in the end. *)
Retry ==
  IF w.tries > 1 THEN [w EXCEPT !.tries = @ - 1]
  ELSE [w EXCEPT !.pc = "done", !.tries = 0, !.ok = FALSE]

(* ble_l2cap_send(): under the lock of the host, the SDU is stored and as    *)
(* many frames as there are credits go out.  On failure both the host and    *)
(* writeFragment() free the SDU.                                             *)
Send ==
  /\ w.pc = "send" /\ ptr = "live"
  /\ UNCHANGED <<chanVars, toA, owed, event, stalled, published, bit, rx, delivered>>
  /\ \/ /\ tx.sdu # None
        /\ w' = Retry /\ UNCHANGED <<toB, tx, sizes, fault>>
     \/ /\ tx.sdu = None
        /\ sizes' = Append(sizes, Head(w.todo))
        /\ LET t == [tx EXCEPT !.sdu = Len(sizes) + 1]  size == Head(w.todo)
           IN \/ /\ Continues(t, size) /\ UNCHANGED fault
                 /\ w' = IF tx'.sdu = None THEN Taken(w) ELSE [w EXCEPT !.pc = "mark"]
              \/ Fails(t, size) /\ fault' = "doubleFree" /\ w' = Retry

(* ble_l2cap_send() on a channel that is gone *)
SendOnNothing ==
  /\ w.pc = "send" /\ ptr # "live"
  /\ fault' = ptr /\ w' = [w EXCEPT !.pc = "dead"]
  /\ UNCHANGED <<chanVars, airVars, tx, event, stalled, published, bit, rx, sizes, delivered>>

(* BLE_HS_ESTALLED was returned: only now does the channel object know. *)
MarkStalled ==
  /\ w.pc = "mark"
  /\ stalled' = TRUE /\ w' = Taken(w)
  /\ UNCHANGED <<chanVars, airVars, tx, event, published, bit, rx, sizes, delivered, fault>>

WriteReturns ==
  /\ w.pc = "done" /\ w' = NotWriting
  /\ UNCHANGED <<chanVars, airVars, tx, event, stalled, published, bit, rx, sizes, delivered, fault>>

(* handleTxUnstalledEvent(): it releases the writer that waits by now. *)
Unstalled ==
  /\ event # "none" /\ event' = "none"
  /\ bit' = (bit \/ published)
  /\ UNCHANGED <<chanVars, airVars, tx, w, stalled, published, rx, sizes, delivered, fault>>

-----------------------------------------------------------------------------
(* The channel and its signals.  The host task of A is free when it has no   *)
(* event left to deliver.                                                    *)

HostA == event = "none"
FromB(kind) == HostA /\ toA # <<>> /\ Head(toA).kind = kind /\ toA' = Tail(toA)
FromA(kind) == toB # <<>> /\ Head(toB).kind = kind /\ toB' = Tail(toB)

(* NimBLEL2CAPChannel::connect(): a new channel object *)
connect ==
  /\ HostA /\ chanA = "none" /\ chanB = "none" /\ w.pc = "idle" /\ toA = <<>> /\ toB = <<>>
  /\ chanA' = "connecting" /\ ptr' = "null"
  /\ toB' = Append(toB, Signal("connect", Initial))
  /\ stalled' = FALSE /\ published' = FALSE
  /\ tx' = NoTx /\ rx' = NoRx /\ sizes' = <<>> /\ delivered' = <<>>
  /\ UNCHANGED <<chanB, toA, owed, event, w, bit, fault>>

(* ble_l2cap_sig_coc_req_rx() at B: the delegate accepts or refuses. *)
ConnectReq ==
  /\ FromA("connect")
  /\ \/ /\ chanB' = "open" /\ rx' = [NoRx EXCEPT !.credits = Initial]
        /\ toA' = Append(toA, Signal("accepted", Initial))
     \/ /\ MayRefuse /\ toA' = Append(toA, Signal("refused", 0))
        /\ UNCHANGED <<chanB, rx>>
  /\ UNCHANGED <<chanA, ptr, owed, tx, event, writerVars, sizes, delivered, fault>>

(* ble_l2cap_sig_coc_rsp_rx(): the CONNECTED event, whose status             *)
(* handleConnectionEvent() does not look at; a refused channel is freed      *)
(* behind it.                                                                *)
ConnectRsp ==
  \/ /\ FromB("accepted") /\ chanA = "connecting"
     /\ chanA' = "open" /\ ptr' = "live" /\ tx' = [NoTx EXCEPT !.credits = Head(toA).n]
     /\ UNCHANGED <<chanB, toB, owed, event, writerVars, rx, sizes, delivered, fault>>
  \/ /\ FromB("refused") /\ chanA = "connecting"
     /\ chanA' = "none" /\ ptr' = "freed"
     /\ UNCHANGED <<chanB, toB, owed, tx, event, writerVars, rx, sizes, delivered, fault>>

(* Mutant: the credits replace those that are left. *)
CreditsReplaced ==
  /\ FromB("credits") /\ owed' = owed - Head(toA).n
  /\ tx' = [tx EXCEPT !.credits = Head(toA).n]
  /\ UNCHANGED <<chanVars, toB, event, writerVars, rx, sizes, delivered, fault>>

(* ble_l2cap_coc_le_credits_update(): the rest of a stalled SDU goes out.    *)
(* The unstalled event follows after the lock is released.                   *)
Credits ==
  /\ FromB("credits") /\ owed' = owed - Head(toA).n
  /\ IF chanA # "open" THEN UNCHANGED <<toB, tx, event>>
     ELSE LET t == [tx EXCEPT !.credits = @ + Head(toA).n] IN
          IF tx.sdu = None THEN tx' = t /\ UNCHANGED <<toB, event>>
          ELSE \/ /\ Continues(t, sizes[tx.sdu])
                  /\ event' = IF tx.flag /\ tx'.sdu = None THEN "unstalled" ELSE "none"
               \/ /\ Fails(t, sizes[tx.sdu])
                  /\ event' = IF tx.flag THEN "failed" ELSE "none"
  /\ UNCHANGED <<chanVars, writerVars, rx, sizes, delivered, fault>>

(* ble_l2cap_sig_le_credits(): the result is not looked at. *)
GiveCredits(n) ==
  \/ toA' = Append(toA, Signal("credits", n)) /\ owed' = owed + n
  \/ LoseCredits /\ UNCHANGED <<toA, owed>>

(* ble_l2cap_coc_rx_fn() with the frame that completes the SDU: onRead(),    *)
(* and ble_l2cap_coc_recv_ready() with a new buffer gives what the peer is   *)
(* short of a whole SDU.                                                     *)
SduComplete(frames) ==
  /\ delivered' = Append(delivered, frames)
  /\ GiveCredits(Initial - (rx.credits - 1))
  /\ rx' = [credits |-> Initial, len |-> 0, got |-> <<>>]

(* Mutant: the last credit is not given back in the middle of an SDU. *)
SduPartialSilent(frames, len) ==
  /\ rx' = [credits |-> rx.credits - 1, len |-> len, got |-> frames]
  /\ UNCHANGED <<toA, owed, delivered>>

(* With another frame: the last credit is given back at once. *)
SduPartial(frames, len) ==
  /\ IF rx.credits = 1 THEN GiveCredits(1) ELSE UNCHANGED <<toA, owed>>
  /\ rx' = [credits |-> IF rx.credits = 1 THEN 1 ELSE rx.credits - 1,
            len |-> len, got |-> frames]
  /\ UNCHANGED delivered

(* The length in the first frame of an SDU; in another frame, whatever the   *)
(* data happen to be, 0 standing for more than the MTU.                      *)
Length(f) ==
  IF rx.got # <<>> THEN {rx.len} ELSE IF f.k = 1 THEN {sizes[f.id]} ELSE 0..MaxFrames

(* What an SDU starts with has a length; a frame with nothing in it is no    *)
(* start, and its credit is not counted.                                     *)
Empty(f) == f.k = 0
NoStart(f) == rx.got = <<>> /\ Empty(f)

(* ble_l2cap_coc_rx_fn() *)
FrameArrives ==
  /\ FromA("frame")
  /\ \/ /\ chanB = "none" \/ NoStart(Head(toB))
        /\ UNCHANGED <<chanB, toA, owed, rx, delivered>>
     \/ /\ chanB # "none" /\ ~NoStart(Head(toB))
        /\ \E len \in Length(Head(toB)) :
             LET frames == IF Empty(Head(toB)) THEN rx.got ELSE Append(rx.got, Head(toB)) IN
             \/ len = Len(frames) /\ SduComplete(frames) /\ UNCHANGED chanB
             \/ len > Len(frames) /\ SduPartial(frames, len) /\ UNCHANGED chanB
             \/ /\ len < Len(frames) /\ UNCHANGED <<owed, delivered>>
                /\ rx' = [rx EXCEPT !.len = 0]
                /\ IF chanB = "closing" THEN UNCHANGED <<chanB, toA>>
                   ELSE chanB' = "closing" /\ toA' = Append(toA, Signal("disconnect", 0))
  /\ UNCHANGED <<chanA, ptr, tx, event, writerVars, sizes, fault>>

(* ble_l2cap_sig_disconnect() at B *)
disconnect ==
  /\ chanB = "open" /\ chanB' = "closing"
  /\ toA' = Append(toA, Signal("disconnect", 0))
  /\ UNCHANGED <<chanA, ptr, toB, owed, tx, event, writerVars, rx, sizes, delivered, fault>>

(* ble_l2cap_coc_cleanup_chan() at A: the DISCONNECTED event clears the      *)
(* pointer; a writer that waits is not told.                                 *)
CleanupA == chanA' = "none" /\ ptr' = "null" /\ tx' = NoTx

(* ble_l2cap_sig_disc_req_rx() at A and the response at B *)
Disconnect ==
  \/ /\ FromB("disconnect") /\ CleanupA /\ toB' = Append(toB, Signal("disconnected", 0))
     /\ UNCHANGED <<chanB, owed, event, writerVars, rx, sizes, delivered, fault>>
  \/ /\ FromA("disconnected") /\ chanB' = "none" /\ rx' = NoRx
     /\ UNCHANGED <<chanA, ptr, toA, owed, tx, event, writerVars, sizes, delivered, fault>>

(* The connection is lost: ble_l2cap_sig_conn_broken() fails a connect       *)
(* procedure with a CONNECTED event, and every channel is freed.             *)
ConnBroken ==
  /\ LinkLoss /\ HostA /\ chanA # "none"
  /\ chanA' = "none" /\ ptr' = IF chanA = "connecting" THEN "freed" ELSE "null"
  /\ chanB' = "none" /\ tx' = NoTx /\ rx' = NoRx
  /\ toA' = <<>> /\ toB' = <<>> /\ owed' = 0
  /\ UNCHANGED <<event, writerVars, sizes, delivered, fault>>

-----------------------------------------------------------------------------
Init ==
  /\ chanA = "none" /\ chanB = "none" /\ ptr = "null"
  /\ toA = <<>> /\ toB = <<>> /\ owed = 0
  /\ tx = NoTx /\ event = "none" /\ w = NotWriting
  /\ stalled = FALSE /\ published = FALSE /\ bit = FALSE
  /\ rx = NoRx /\ sizes = <<>> /\ delivered = <<>> /\ fault = "none"

Writer == Fragment \/ Woken \/ Send \/ SendOnNothing \/ MarkStalled \/ WriteReturns
HostOfA == Unstalled \/ ConnectRsp \/ Credits
HostOfB == ConnectReq \/ FrameArrives

Next == write \/ Writer \/ HostOfA \/ HostOfB \/ connect \/ disconnect \/ Disconnect \/ ConnBroken

Spec == Init /\ [][Next]_vars

(* The link delivers, and the tasks that are ready run. *)
Fairness == WF_vars(Writer) /\ WF_vars(HostOfA) /\ WF_vars(HostOfB \/ Disconnect)
FairSpec == Spec /\ Fairness

-----------------------------------------------------------------------------
(* Properties *)

FramesIn(q) == Cardinality({i \in DOMAIN q : q[i].kind = "frame"})
BothOpen == chanA = "open" /\ chanB = "open"

(* What the receiver thinks the sender may still send is what the sender     *)
(* has, plus the credits and the frames in flight (coc_rx.credits and        *)
(* coc_tx.credits of ble_l2cap_coc.c): nobody sends without a buffer at the  *)
(* other end, and no credit is lost.                                         *)
CreditConservation ==
  BothOpen => rx.credits = tx.credits + owed + FramesIn(toB)

(* Not kept.                                                                 *)
(* A write blocks for the sake of an SDU that is not sent yet, or is about   *)
(* to wake: "This function will block until the data has been sent or an     *)
(* error occurred" (NimBLEL2CAPChannel.h).                                   *)
BlockedOnlyWhileUnsent ==
  w.pc = "wait" => tx.sdu # None \/ event # "none" \/ bit

(* The frames, credits and signals of this module implement a channel of     *)
(* SDUs: whatever is accepted comes out whole, unmixed, in order, and comes  *)
(* out as long as the channel lasts: the two ends never both wait for the    *)
(* other's credits or frames.                                                *)
Channel == INSTANCE SduChannel WITH
  Sdus      <- {[k \in 1..n |-> Frame(i, k)] : i \in 1..MaxSdus, n \in 1..MaxFrames},
  open      <- chanA = "open",
  accepted  <- [i \in DOMAIN sizes |-> [k \in 1..sizes[i] |-> Frame(i, k)]],
  delivered <- delivered

ImplementsChannel == Channel!FairSpec
=============================================================================
