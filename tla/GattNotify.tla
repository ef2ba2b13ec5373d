------------------------------ MODULE GattNotify ------------------------------
(***************************************************************************)
(* Notifications and indications of the local characteristics:             *)
(* NimBLECharacteristic.cpp on ble_gatts.c (who is subscribed, what is     *)
(* still to be sent), ble_gattc.c (the indication procedure) and the       *)
(* store, in which the subscriptions of bonded peers outlive connections.  *)
(*                                                                         *)
(* The value itself is a version number; what a peer gets is the version   *)
(* that is read when its message is made.  Handles are numbers, 0 is none. *)
(***************************************************************************)
EXTENDS Naturals, Sequences, FiniteSets, SequencesExt

CONSTANTS
  Peers,         \* peers, each with a connection or without
  Bonds,         \* the peers that may pair
  Chars,         \* value handles of characteristics with a CCCD
  MaxValue,      \* bound on the versions of a value
  Calls,         \* what the application calls: subset of {"all", "one"}
  CarefulPeer,   \* TRUE: peers encrypt before they write a CCCD, and write changes only
  NoMem,         \* TRUE: the host may run out of buffers
  Preempt,       \* TRUE: the application runs inside the host's unlocked sections
  None

ASSUME CharsAssumption == Chars \subseteq Nat \ {0} /\ MaxValue \in Nat
ASSUME BondsAssumption == Bonds \subseteq Peers /\ None \notin Peers
ASSUME CallsAssumption == Calls \subseteq {"all", "one"}
ASSUME FlagsAssumption == {CarefulPeer, NoMem, Preempt} \subseteq BOOLEAN

Actors == {"app", "host"}
Kinds == {"notify", "indicate"}

VARIABLES
  conn,          \* "up"; "broken": its CCCDs are gone; "down"
  paired,        \* peers that have a bond
  bonded,        \* bhc_sec_state.bonded: the bond is in use on the connection
  cccd,          \* clt_cfgs of the connection: subscription and MODIFIED
  waiting,       \* indicate_val_handle: the indication to be confirmed
  procs,         \* indication procedures of a connection, oldest first
  expired,       \* connections whose indication timed out: they are to end
  busy, txq,     \* client_att_busy and att_tx_q of a connection
  air, back,     \* messages to a peer and from it
  event,         \* ble_hs_ev_tx_notifications is queued
  host,          \* the host task: where it is, and what it has in hand
  send,          \* ble_gatts_notify/indicate_custom() of each side
  app,           \* the application's call
  store,         \* CCCD records of bonded peers, in the order of their index
  value,         \* version of each characteristic's value
  seen,          \* the last version a peer was sent and received
  silent,        \* history: peers that left an indication of this connection unconfirmed
  promised       \* history: the version a subscriber was promised, and whether for good

connVars == <<conn, paired, bonded, expired>>
gattVars == <<cccd, waiting, procs>>
attVars  == <<busy, txq, air>>
peerVars == <<back, seen, silent>>
sideVars == <<event, host, send, app>>
vars == <<connVars, gattVars, attVars, peerVars, sideVars, store, value, promised>>

Subs == {"none", "notify", "indicate"}
Pairs == Peers \X Chars
NoSend == [pc |-> "idle", op |-> "notify", to |-> None, chr |-> 0, val |-> 0, ok |-> TRUE]
Sending(op, p, c) == [NoSend EXCEPT !.pc = "read", !.op = op, !.to = p, !.chr = c]
HostAt(pc) == [pc |-> pc, peer |-> None, left |-> {}, idx |-> 1, rec |-> None]
AppAt(pc) == [pc |-> pc, chr |-> 0, idx |-> 1, rec |-> None]
NoPromise == [val |-> 0, kept |-> FALSE]
NoSub == [c \in Chars |-> [sub |-> "none", mod |-> FALSE]]
Message(op, c, v) == [op |-> op, chr |-> c, val |-> v]

TypeOK ==
  /\ conn \in [Peers -> {"up", "broken", "down"}]
  /\ paired \subseteq Peers /\ bonded \subseteq Peers /\ expired \subseteq Peers
  /\ cccd \in [Peers -> [Chars -> [sub : Subs, mod : BOOLEAN]]]
  /\ waiting \in [Peers -> Chars \cup {0}]
  /\ procs \in [Peers -> Seq(Chars)]
  /\ busy \in [Peers -> BOOLEAN] /\ event \in BOOLEAN
  /\ host.pc \in {"idle", "tx", "restore", "restored", "bond", "record",
                 "persist", "next", "teardown"}
  /\ host.left \subseteq Pairs
  /\ app.pc \in {"idle", "set", "records", "record"}
  /\ \A a \in Actors : send[a].pc \in {"idle", "read", "tx", "mark", "insert"}
  /\ \A i, j \in DOMAIN store :
       i # j => <<store[i].peer, store[i].chr>> # <<store[j].peer, store[j].chr>>
  /\ value \in [Chars -> 0..MaxValue] /\ seen \in [Peers -> [Chars -> 0..MaxValue]]
  /\ \A p \in Peers, c \in Chars : promised[p][c].val <= value[c]

-----------------------------------------------------------------------------
(* Who may run *)

HostFree == host.pc = "idle" /\ send["host"].pc = "idle"
AppMayRun == Preempt \/ HostFree
HostMayRun == Preempt \/ (app.pc \in {"idle", "set"} /\ send["app"].pc = "idle")
MayRun(a) == IF a = "app" THEN AppMayRun ELSE HostMayRun
HostStep(pc) == HostMayRun /\ host.pc = pc /\ send["host"].pc = "idle"

-----------------------------------------------------------------------------
(* The store *)

Record(p, c, cfg, changed) ==
  [peer |-> p, chr |-> c, sub |-> cfg.sub, mod |-> cfg.mod, changed |-> changed]
Same(r, q) == r.peer = q.peer /\ r.chr = q.chr

(* Mutant: a record is never replaced. *)
PutAppends(s, r) == Append(s, r)

(* ble_store_write_cccd() replaces the record of its key, or adds one. *)
Put(s, r) ==
  IF \E i \in DOMAIN s : Same(s[i], r)
  THEN [i \in DOMAIN s |-> IF Same(s[i], r) THEN r ELSE s[i]]
  ELSE Append(s, r)

(* ble_store_delete_cccd() *)
Without(s, r) ==
  LET of == {i \in DOMAIN s : Same(s[i], r)}
  IN IF of = {} THEN s ELSE RemoveAt(s, CHOOSE i \in of : \A j \in of : i <= j)

(* ble_store_config_find_cccd(): the place of the nth record of a            *)
(* characteristic, or of a peer, if there are so many                        *)
OfChr(c, n) ==
  {i \in DOMAIN store : store[i].chr = c /\ Cardinality({j \in 1..i : store[j].chr = c}) = n}
OfPeer(p, n) ==
  {i \in DOMAIN store : store[i].peer = p /\ Cardinality({j \in 1..i : store[j].peer = p}) = n}

-----------------------------------------------------------------------------
(* ble_gatts_notify_custom(), ble_gatts_indicate_custom(): the value is read, *)
(* sent, the indication noted as unconfirmed, and its procedure inserted.     *)

ReadValue(a) ==
  /\ MayRun(a) /\ send[a].pc = "read"
  /\ send' = [send EXCEPT ![a].pc = "tx", ![a].val = value[send[a].chr]]
  /\ UNCHANGED <<connVars, gattVars, attVars, peerVars, event, host, app, store, value, promised>>

(* ble_att_tx(): an indication waits while another is unconfirmed.  (A       *)
(* notification that was sent is not promised for another connection.)       *)
Transmit(p, m) ==
  IF m.op = "indicate" /\ busy[p]
  THEN txq' = [txq EXCEPT ![p] = Append(@, m)] /\ UNCHANGED <<busy, air>>
  ELSE /\ air' = [air EXCEPT ![p] = Append(@, m)]
       /\ busy' = [busy EXCEPT ![p] = @ \/ m.op = "indicate"]
       /\ UNCHANGED txq

SendValue(a) ==
  /\ MayRun(a) /\ send[a].pc = "tx"
  /\ LET s == send[a] IN
     \/ /\ conn[s.to] # "down"
        /\ Transmit(s.to, Message(s.op, s.chr, s.val))
        /\ send' = [send EXCEPT ![a] = IF s.op = "notify" THEN NoSend ELSE [@ EXCEPT !.pc = "mark"]]
        /\ promised' = IF s.op = "notify" THEN [promised EXCEPT ![s.to][s.chr].kept = FALSE]
                       ELSE promised
     \/ /\ NoMem \/ conn[s.to] = "down"
        /\ send' = [send EXCEPT ![a] = [NoSend EXCEPT !.ok = FALSE]]
        /\ UNCHANGED <<attVars, promised>>
  /\ UNCHANGED <<connVars, gattVars, peerVars, event, host, app, store, value>>

(* Whatever indication was noted before is overwritten. *)
MarkWaiting(a) ==
  /\ MayRun(a) /\ send[a].pc = "mark"
  /\ waiting' = IF conn[send[a].to] = "down" THEN waiting
                ELSE [waiting EXCEPT ![send[a].to] = send[a].chr]
  /\ send' = [send EXCEPT ![a].pc = "insert"]
  /\ UNCHANGED <<connVars, cccd, procs, attVars, peerVars, event, host, app, store, value, promised>>

InsertProc(a) ==
  /\ MayRun(a) /\ send[a].pc = "insert"
  /\ procs' = [procs EXCEPT ![send[a].to] = Append(@, send[a].chr)]
  /\ send' = [send EXCEPT ![a] = NoSend]
  /\ UNCHANGED <<connVars, cccd, waiting, attVars, peerVars, event, host, app, store, value, promised>>

-----------------------------------------------------------------------------
(* NimBLECharacteristic *)

(* setValue(): notify() or indicate() follows, to everybody or to one peer.  *)
setValue(c) ==
  /\ AppMayRun /\ app.pc = "idle" /\ send["app"].pc = "idle" /\ value[c] < MaxValue
  /\ value' = [value EXCEPT ![c] = @ + 1]
  /\ app' = [AppAt("set") EXCEPT !.chr = c]
  /\ UNCHANGED <<connVars, gattVars, attVars, peerVars, event, host, send, store, promised>>

(* sendValue() to one peer, subscribed or not *)
SendToOne ==
  /\ AppMayRun /\ app.pc = "set" /\ "one" \in Calls
  /\ \E p \in Peers, op \in Kinds :
       send' = [send EXCEPT !["app"] = Sending(op, p, app.chr)]
  /\ app' = AppAt("idle")
  /\ UNCHANGED <<connVars, gattVars, attVars, peerVars, event, host, store, value, promised>>

(* History: whoever is subscribed when the value is sent to everybody is     *)
(* promised this value; a bonded subscriber for good, another while it is    *)
(* connected.                                                                *)
Promise(p, c) ==
  LET recorded == \E r \in ToSet(store) : r.peer = p /\ r.chr = c /\ r.sub # "none"
      here == conn[p] = "up" /\ cccd[p][c].sub # "none"
  IN IF recorded \/ here THEN [val |-> value[c], kept |-> recorded] ELSE promised[p][c]

(* ble_gatts_chr_updated(), under the lock: every connection is marked.  The *)
(* walk stops at a connection whose CCCDs are gone already.                  *)
ChrUpdated ==
  /\ AppMayRun /\ app.pc = "set" /\ "all" \in Calls
  /\ \E marked \in SUBSET {p \in Peers : conn[p] = "up"} :
       /\ (\A p \in Peers : conn[p] # "broken") => marked = {p \in Peers : conn[p] = "up"}
       /\ cccd' = [p \in Peers |->
                     IF p \in marked THEN [cccd[p] EXCEPT ![app.chr].mod = TRUE] ELSE cccd[p]]
       /\ event' = (event \/ marked # {})
  /\ promised' = [p \in Peers |-> [promised[p] EXCEPT ![app.chr] = Promise(p, app.chr)]]
  /\ app' = [app EXCEPT !.pc = "records", !.idx = 1]
  /\ UNCHANGED <<connVars, waiting, procs, attVars, peerVars, host, send, store, value>>

(* The records of the characteristic, one after another: each is read, and   *)
(* written back with value_changed set unless it is.  The connection is      *)
(* looked up by the address of the key, which is "any": none is ever found.  *)
ReadRecord ==
  /\ AppMayRun /\ app.pc = "records"
  /\ \/ OfChr(app.chr, app.idx) = {} /\ app' = AppAt("idle")
     \/ \E i \in OfChr(app.chr, app.idx) :
          app' = IF store[i].changed THEN [app EXCEPT !.idx = @ + 1]
                 ELSE [app EXCEPT !.pc = "record", !.rec = store[i]]
  /\ UNCHANGED <<connVars, gattVars, attVars, peerVars, event, host, send, store, value, promised>>

WriteRecord ==
  /\ AppMayRun /\ app.pc = "record"
  /\ store' = Put(store, [app.rec EXCEPT !.changed = TRUE])
  /\ app' = [app EXCEPT !.pc = "records", !.idx = @ + 1, !.rec = None]
  /\ UNCHANGED <<connVars, gattVars, attVars, peerVars, event, host, send, value, promised>>

-----------------------------------------------------------------------------
(* The host task sends what is due. *)

Stay == UNCHANGED <<connVars, peerVars, app, value>>

(* ble_hs_event_tx_notify() *)
TxNotifications ==
  /\ HostStep("idle") /\ event /\ event' = FALSE
  /\ host' = [HostAt("tx") EXCEPT !.left = Pairs]
  /\ Stay /\ UNCHANGED <<gattVars, attVars, send, store, promised>>

(* ble_gatts_schedule_update(): is something to be sent now? *)
Due(p, cfg) ==
  /\ cfg.mod
  /\ cfg.sub = "notify" \/ (cfg.sub = "indicate" /\ waiting[p] = 0)

(* ble_gatts_tx_notifications_one_chr() for one connection *)
TxOne ==
  /\ HostStep("tx") /\ host.left # {}
  /\ \E x \in host.left :
       LET p == x[1]  c == x[2] IN
       /\ \A y \in host.left : c <= y[2]
       /\ host' = [host EXCEPT !.left = @ \ {x}]
       /\ IF conn[p] = "up" /\ Due(p, cccd[p][c])
          THEN /\ cccd' = [cccd EXCEPT ![p][c].mod = FALSE]
               /\ send' = [send EXCEPT !["host"] = Sending(cccd[p][c].sub, p, c)]
          ELSE UNCHANGED <<cccd, send>>
  /\ Stay /\ UNCHANGED <<waiting, procs, attVars, event, store, promised>>

TxDone ==
  /\ HostStep("tx") /\ host.left = {} /\ host' = HostAt("idle")
  /\ Stay /\ UNCHANGED <<gattVars, attVars, event, send, store, promised>>

-----------------------------------------------------------------------------
(* The host task receives. *)

Incoming(p, op) == HostStep("idle") /\ conn[p] = "up" /\ back[p] # <<>> /\ Head(back[p]).op = op

(* ble_att_send_outstanding_after_response() *)
SendOutstanding(p) ==
  IF txq[p] = <<>> THEN busy' = [busy EXCEPT ![p] = FALSE] /\ UNCHANGED <<txq, air>>
  ELSE /\ air' = [air EXCEPT ![p] = Append(@, Head(txq[p]))]
       /\ txq' = [txq EXCEPT ![p] = Tail(@)]
       /\ UNCHANGED busy

(* ble_gatts_rx_indicate_rsp() with ble_gatts_rx_indicate_ack(): the oldest  *)
(* procedure of the connection takes the confirmation; if it is not for the  *)
(* indication noted, nothing else happens.                                   *)
Confirmation(p) ==
  /\ Incoming(p, "confirm")
  /\ back' = [back EXCEPT ![p] = Tail(@)]
  /\ SendOutstanding(p)
  /\ \/ procs[p] = <<>> /\ UNCHANGED <<waiting, procs, host>>
     \/ /\ procs[p] # <<>> /\ procs' = [procs EXCEPT ![p] = Tail(@)]
        /\ LET c == Head(procs[p]) IN
           \/ waiting[p] # c /\ UNCHANGED <<waiting, host>>
           \/ /\ waiting[p] = c /\ waiting' = [waiting EXCEPT ![p] = 0]
              /\ host' = [HostAt("persist") EXCEPT !.peer = p,
                           !.rec = IF p \in bonded /\ ~cccd[p][c].mod
                                   THEN Record(p, c, cccd[p][c], FALSE) ELSE None]
  /\ UNCHANGED <<connVars, cccd, seen, silent, event, send, app, store, value, promised>>

(* A CCCD is written: ble_gatts_clt_cfg_access_locked().  The new flags      *)
(* replace the old ones, MODIFIED among them.                                *)
CccdWrite(p) ==
  /\ Incoming(p, "cccd")
  /\ back' = [back EXCEPT ![p] = Tail(@)]
  /\ LET m == Head(back[p])
         new == [sub |-> m.sub, mod |-> FALSE]
         differs == cccd[p][m.chr] # new
     IN /\ cccd' = [cccd EXCEPT ![p][m.chr] = new]
        /\ promised' = IF m.sub = cccd[p][m.chr].sub THEN promised
                       ELSE [promised EXCEPT ![p][m.chr] = NoPromise]
        /\ host' = IF differs /\ p \in bonded
                   THEN [HostAt("persist") EXCEPT !.rec = Record(p, m.chr, new, FALSE)]
                   ELSE HostAt("idle")
  /\ UNCHANGED <<connVars, waiting, procs, attVars, seen, silent, event, send, app, store, value>>

(* Mutant: a subscription that was given up stays in the store. *)
PersistKeeps ==
  /\ HostStep("persist")
  /\ store' = IF host.rec = None \/ host.rec.sub = "none" THEN store ELSE Put(store, host.rec)
  /\ host' = IF host.peer = None THEN HostAt("idle") ELSE [HostAt("next") EXCEPT !.peer = host.peer]
  /\ Stay /\ UNCHANGED <<gattVars, attVars, event, send, promised>>

(* After the lock is released: the record of a subscription that was given   *)
(* up is deleted; that of a confirmed indication is written in any case.     *)
Persist ==
  /\ HostStep("persist")
  /\ store' = CASE host.rec = None -> store
                [] host.rec # None /\ host.peer = None /\ host.rec.sub = "none" ->
                     Without(store, host.rec)
                [] OTHER -> Put(store, host.rec)
  /\ host' = IF host.peer = None THEN HostAt("idle") ELSE [HostAt("next") EXCEPT !.peer = host.peer]
  /\ Stay /\ UNCHANGED <<gattVars, attVars, event, send, promised>>

(* Mutant: nothing follows a confirmation. *)
SendNextNever ==
  /\ HostStep("next") /\ host' = HostAt("idle")
  /\ Stay /\ UNCHANGED <<gattVars, attVars, event, send, store, promised>>

(* ble_gatts_send_next_indicate(): the first CCCD that is MODIFIED, whatever *)
(* its subscription *)
SendNextIndicate ==
  /\ HostStep("next")
  /\ LET p == host.peer
         modified == IF conn[p] = "up" THEN {c \in Chars : cccd[p][c].mod} ELSE {}
     IN IF modified = {} THEN UNCHANGED <<cccd, send>>
        ELSE \E c \in modified :
               /\ \A d \in modified : c <= d
               /\ cccd' = [cccd EXCEPT ![p][c].mod = FALSE]
               /\ send' = [send EXCEPT !["host"] = Sending("indicate", p, c)]
  /\ host' = HostAt("idle")
  /\ Stay /\ UNCHANGED <<waiting, procs, attVars, event, store, promised>>

NothingOnTheWay(p) ==
  \A m \in ToSet(back[p]) \cup ToSet(air[p]) : m.op \notin {"confirm", "indicate"}

(* Mutant: the connection is left as it is. *)
ExpireOnly ==
  /\ HostStep("idle")
  /\ \E p \in Peers : \E i \in DOMAIN procs[p] :
       /\ NothingOnTheWay(p)
       /\ procs' = [procs EXCEPT ![p] = RemoveAt(@, i)]
  /\ UNCHANGED <<connVars, cccd, waiting, attVars, peerVars, sideVars, store, value, promised>>

(* ble_gattc_timer() with ble_gatts_indicate_tmo(), 30 s after the start of  *)
(* a procedure, time enough for the link: the indication stays noted; the    *)
(* connection is told to end.                                                *)
Expire ==
  /\ HostStep("idle")
  /\ \E p \in Peers : \E i \in DOMAIN procs[p] :
       /\ NothingOnTheWay(p)
       /\ procs' = [procs EXCEPT ![p] = RemoveAt(@, i)]
       /\ expired' = IF conn[p] = "up" THEN expired \cup {p} ELSE expired
  /\ UNCHANGED <<conn, paired, bonded, cccd, waiting, attVars, peerVars, sideVars, store, value, promised>>

-----------------------------------------------------------------------------
(* Connections and bonds *)

NoMessages(p) ==
  /\ air' = [air EXCEPT ![p] = <<>>] /\ back' = [back EXCEPT ![p] = <<>>]
  /\ txq' = [txq EXCEPT ![p] = <<>>]

(* Mutant: the procedures outlive their connection. *)
BreakKeeps(p) ==
  /\ HostStep("idle") /\ conn[p] = "up"
  /\ conn' = [conn EXCEPT ![p] = "broken"]
  /\ expired' = expired \ {p} /\ silent' = silent \ {p}
  /\ NoMessages(p)
  /\ host' = [HostAt("teardown") EXCEPT !.peer = p]
  /\ UNCHANGED <<paired, bonded, cccd, waiting, procs, busy, seen, event, send, app, store, value, promised>>

(* ble_gatts_connection_broken(): the CCCDs are taken away, the procedures   *)
(* fail, and with no CCCD left no next indication is sent.                   *)
Break(p) ==
  /\ HostStep("idle") /\ conn[p] = "up"
  /\ conn' = [conn EXCEPT ![p] = "broken"]
  /\ procs' = [procs EXCEPT ![p] = <<>>]
  /\ expired' = expired \ {p} /\ silent' = silent \ {p}
  /\ NoMessages(p)
  /\ host' = [HostAt("teardown") EXCEPT !.peer = p]
  /\ UNCHANGED <<paired, bonded, cccd, waiting, busy, seen, event, send, app, store, value, promised>>

(* ble_hs_atomic_conn_delete() *)
Delete ==
  /\ HostStep("teardown")
  /\ LET p == host.peer IN
     /\ conn' = [conn EXCEPT ![p] = "down"]
     /\ bonded' = bonded \ {p}
     /\ cccd' = [cccd EXCEPT ![p] = NoSub] /\ waiting' = [waiting EXCEPT ![p] = 0]
     /\ busy' = [busy EXCEPT ![p] = FALSE] /\ NoMessages(p)
     /\ promised' = [promised EXCEPT ![p] =
                       [c \in Chars |-> IF @[c].kept THEN @[c] ELSE NoPromise]]
  /\ host' = HostAt("idle")
  /\ UNCHANGED <<paired, expired, procs, seen, silent, event, send, app, store, value>>

(* ble_hs_conn_alloc(): a connection begins without subscriptions. *)
Connect(p) ==
  /\ HostStep("idle") /\ conn[p] = "down"
  /\ conn' = [conn EXCEPT ![p] = "up"]
  /\ UNCHANGED <<paired, bonded, expired, gattVars, attVars, peerVars, sideVars, store, value, promised>>

(* A new bond: ble_gatts_bonding_established() walks over the CCCDs, with    *)
(* the lock released for each write to the store.                            *)
Pair(p) ==
  /\ HostStep("idle") /\ conn[p] = "up" /\ p \in Bonds \ paired
  /\ paired' = paired \cup {p} /\ bonded' = bonded \cup {p}
  /\ host' = [HostAt("bond") EXCEPT !.peer = p, !.left = {p} \X Chars]
  /\ UNCHANGED <<conn, expired, gattVars, attVars, peerVars, event, send, app, store, value, promised>>

(* The flags of the next CCCD, MODIFIED among them, unless there are none *)
BondOne ==
  /\ HostStep("bond") /\ host.left # {}
  /\ \E x \in host.left :
       LET p == x[1]  c == x[2] IN
       /\ \A y \in host.left : c <= y[2]
       /\ host' = IF cccd[p][c] = NoSub[c] THEN [host EXCEPT !.left = @ \ {x}]
                  ELSE [host EXCEPT !.pc = "record", !.left = @ \ {x},
                                    !.rec = Record(p, c, cccd[p][c], FALSE)]
  /\ Stay /\ UNCHANGED <<gattVars, attVars, event, send, store, promised>>

BondRecord ==
  /\ HostStep("record") /\ store' = Put(store, host.rec)
  /\ host' = [host EXCEPT !.pc = "bond", !.rec = None]
  /\ Stay /\ UNCHANGED <<gattVars, attVars, event, send, promised>>

BondDone ==
  /\ HostStep("bond") /\ host.left = {} /\ host' = HostAt("idle")
  /\ Stay /\ UNCHANGED <<gattVars, attVars, event, send, store, promised>>

(* The link is encrypted with the keys of the bond: the records of the peer  *)
(* are restored by ble_gatts_bonding_restored().                             *)
Encrypt(p) ==
  /\ HostStep("idle") /\ conn[p] = "up" /\ p \in paired \ bonded
  /\ bonded' = bonded \cup {p}
  /\ host' = [HostAt("restore") EXCEPT !.peer = p]
  /\ UNCHANGED <<conn, paired, expired, gattVars, attVars, peerVars, event, send, app, store, value, promised>>

(* Mutant: value_changed is not looked at. *)
RestoredUnchanged(r) == [sub |-> r.sub, mod |-> r.mod]

(* The flags of a record in the connection: a value that changed meanwhile   *)
(* is to be sent.                                                            *)
Restored(r) == [sub |-> r.sub, mod |-> r.mod \/ r.changed]

(* One record of the walk *)
RestoreOne ==
  /\ HostStep("restore")
  /\ \E i \in OfPeer(host.peer, host.idx) :
     LET p == host.peer
         r == store[i]
         cfg == Restored(r)
         now == r.changed /\ Due(p, cfg)
     IN /\ cccd' = [cccd EXCEPT ![p][r.chr] = [cfg EXCEPT !.mod = @ /\ ~now]]
        /\ promised' = IF promised[p][r.chr].kept \/ r.sub = cccd[p][r.chr].sub THEN promised
                       ELSE [promised EXCEPT ![p][r.chr] = NoPromise]
        /\ send' = IF now THEN [send EXCEPT !["host"] = Sending(r.sub, p, r.chr)] ELSE send
        /\ host' = IF now /\ r.sub = "notify" THEN [host EXCEPT !.pc = "restored", !.rec = r]
                   ELSE [host EXCEPT !.idx = @ + 1]
  /\ Stay /\ UNCHANGED <<waiting, procs, attVars, event, store>>

(* A notification that was sent is remembered as done. *)
RestoredSent ==
  /\ HostStep("restored")
  /\ store' = IF send["host"].ok THEN Put(store, [host.rec EXCEPT !.changed = FALSE]) ELSE store
  /\ host' = [host EXCEPT !.pc = "restore", !.idx = @ + 1, !.rec = None]
  /\ Stay /\ UNCHANGED <<gattVars, attVars, event, send, promised>>

RestoreDone ==
  /\ HostStep("restore") /\ OfPeer(host.peer, host.idx) = {}
  /\ host' = HostAt("idle")
  /\ Stay /\ UNCHANGED <<gattVars, attVars, event, send, store, promised>>

-----------------------------------------------------------------------------
(* The peers *)

(* A message arrives; an indication is confirmed, unless the peer fails to.  *)
PeerReceives(p) ==
  /\ conn[p] = "up" /\ air[p] # <<>>
  /\ LET m == Head(air[p]) IN
     /\ seen' = [seen EXCEPT ![p][m.chr] = m.val]
     /\ \/ m.op = "indicate" /\ back' = [back EXCEPT ![p] = Append(@, [op |-> "confirm"])]
           /\ UNCHANGED silent
        \/ m.op = "indicate" /\ silent' = silent \cup {p} /\ UNCHANGED back
        \/ m.op = "notify" /\ UNCHANGED <<back, silent>>
  /\ air' = [air EXCEPT ![p] = Tail(@)]
  /\ UNCHANGED <<connVars, gattVars, busy, txq, sideVars, store, value, promised>>

(* A peer has one write unanswered at a time; the answer follows the store.  *)
Unanswered(p) ==
  \/ \E m \in ToSet(back[p]) : m.op = "cccd"
  \/ host.pc = "persist" /\ host.peer = None /\ host.rec.peer = p

StoredSub(p, c) ==
  IF \E r \in ToSet(store) : r.peer = p /\ r.chr = c
  THEN (CHOOSE r \in ToSet(store) : r.peer = p /\ r.chr = c).sub ELSE "none"

(* The bond is to be restored, or being restored. *)
Restoring(p) == p \in paired \ bonded \/ (host.pc \in {"restore", "restored"} /\ host.peer = p)

(* What a peer knows it has written last *)
Subscribed(p, c) == IF Restoring(p) THEN StoredSub(p, c) ELSE cccd[p][c].sub

PeerWrites(p) ==
  /\ conn[p] = "up" /\ ~Unanswered(p)
  /\ \E c \in Chars, sub \in Subs :
       /\ CarefulPeer => (p \in paired => p \in bonded) /\ sub # Subscribed(p, c)
       /\ back' = [back EXCEPT ![p] = Append(@, [op |-> "cccd", chr |-> c, sub |-> sub])]
  /\ UNCHANGED <<connVars, gattVars, attVars, seen, silent, sideVars, store, value, promised>>

-----------------------------------------------------------------------------
Init ==
  /\ conn = [p \in Peers |-> "down"] /\ silent = {} /\ paired = {} /\ bonded = {} /\ expired = {}
  /\ cccd = [p \in Peers |-> NoSub] /\ waiting = [p \in Peers |-> 0]
  /\ procs = [p \in Peers |-> <<>>]
  /\ busy = [p \in Peers |-> FALSE]
  /\ txq = [p \in Peers |-> <<>>] /\ air = [p \in Peers |-> <<>>] /\ back = [p \in Peers |-> <<>>]
  /\ event = FALSE /\ host = HostAt("idle") /\ app = AppAt("idle")
  /\ send = [a \in Actors |-> NoSend]
  /\ store = <<>> /\ value = [c \in Chars |-> 0]
  /\ seen = [p \in Peers |-> [c \in Chars |-> 0]]
  /\ promised = [p \in Peers |-> [c \in Chars |-> NoPromise]]

Send(a) == ReadValue(a) \/ SendValue(a) \/ MarkWaiting(a) \/ InsertProc(a)
AppNext == (\E c \in Chars : setValue(c)) \/ SendToOne \/ ChrUpdated \/ ReadRecord \/ WriteRecord

HostSteps ==
  \/ Send("host") \/ TxNotifications \/ TxOne \/ TxDone \/ Persist \/ SendNextIndicate
  \/ Delete \/ BondOne \/ BondRecord \/ BondDone \/ RestoreOne \/ RestoredSent \/ RestoreDone
HostReceives == \E p \in Peers : Confirmation(p) \/ CccdWrite(p)
Link == \E p \in Peers : Break(p) \/ Connect(p) \/ Pair(p) \/ Encrypt(p)
PeerNext == \E p \in Peers : PeerReceives(p) \/ PeerWrites(p)

Next == Send("app") \/ AppNext \/ HostSteps \/ HostReceives \/ Expire \/ Link \/ PeerNext

Spec == Init /\ [][Next]_vars

(* The tasks run, the link delivers, a procedure that is not answered        *)
(* expires, and a connection that was told to end ends.                      *)
Fairness ==
  /\ WF_vars(HostSteps) /\ WF_vars(HostReceives) /\ SF_vars(TxNotifications)
  /\ WF_vars(Send("app") \/ SendToOne \/ ChrUpdated \/ ReadRecord \/ WriteRecord)
  /\ \A p \in Peers : WF_vars(PeerReceives(p))
  /\ SF_vars(Expire) /\ \A p \in Peers : SF_vars(p \in expired /\ Break(p))
FairSpec == Spec /\ Fairness

-----------------------------------------------------------------------------
(* Properties *)

(* An indication noted as unconfirmed has a procedure that will be confirmed *)
(* or will expire; otherwise the peer never gets an indication again.        *)
IndicationHasProcedure ==
  \A p \in Peers : conn[p] = "up" /\ waiting[p] # 0 /\ p \notin expired =>
    \/ waiting[p] \in ToSet(procs[p])
    \/ \E a \in Actors : send[a].pc = "insert" /\ send[a].to = p

Pending(p, c) ==
  \/ cccd[p][c].mod
  \/ \E m \in ToSet(air[p]) \cup ToSet(txq[p]) : m.chr = c /\ m.val >= promised[p][c].val
  \/ \E a \in Actors : send[a].pc \in {"read", "tx"} /\ send[a].to = p /\ send[a].chr = c

Remembered(p, c) ==
  \/ \E r \in ToSet(store) : r.peer = p /\ r.chr = c /\ r.changed
  \/ app.pc \in {"records", "record"} /\ app.chr = c

(* A connection is given up for want of a confirmation only if the peer did  *)
(* not confirm: a timeout never overtakes an answer, nor an indication that  *)
(* has not been sent (ble_gattc_timer).                                      *)
TimeoutOnlyIfSilent == expired \subseteq silent

(* What a subscriber was promised and has not got is still to be sent, on    *)
(* its connection or, for a bonded peer that is away, at its return.         *)
NoUpdateLost ==
  \A p \in Peers, c \in Chars : promised[p][c].val > seen[p][c] =>
    IF conn[p] = "up" /\ ~Restoring(p) THEN Pending(p, c) \/ p \in expired
    ELSE promised[p][c].kept => Remembered(p, c) \/ Pending(p, c)

(* The store has the subscriptions that a bonded peer has on its connection. *)
StoredAsSubscribed ==
  \A p \in bonded, c \in Chars :
    conn[p] = "up" /\ ~Restoring(p) /\ host.pc \notin {"bond", "record", "persist"} =>
      StoredSub(p, c) = cccd[p][c].sub

(* Nobody is sent what it did not ask for. *)
OnlyToSubscribers ==
  \A p \in Peers, c \in Chars :
    send["host"].pc = "read" /\ send["host"].to = p /\ send["host"].chr = c /\ conn[p] = "up"
      => cccd[p][c].sub = send["host"].op

(* What a subscriber was promised arrives, if its connection lasts.          *)
UpdateArrives ==
  \A p \in Peers, c \in Chars :
    (promised[p][c].val > seen[p][c] /\ conn[p] = "up" /\ ~Restoring(p))
      ~> (promised[p][c].val <= seen[p][c] \/ conn[p] # "up")
=============================================================================
