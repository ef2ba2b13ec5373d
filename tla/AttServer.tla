------------------------------ MODULE AttServer ------------------------------
(***************************************************************************)
(* The attribute server: reads, writes and queued writes of peers          *)
(* (ble_att_svr.c), the handler that answers them                          *)
(* (NimBLEServer::handleGattEvent), and the values it reads and writes     *)
(* (NimBLEAttValue), which a task of the application sets and reads too.   *)
(*                                                                         *)
(* A peer prepares parts of long values; they wait in a list of its        *)
(* connection, sorted by handle and offset, whose entries come from one    *)
(* pool for all connections, until it has them executed.  The host task    *)
(* serves one request at a time, but calls the application back, and the   *)
(* application's task runs between any two of its steps.  Only the copies  *)
(* into and out of a value are critical sections; every other access to a  *)
(* value, up to the comparison that ends setValue(), is a step of its own. *)
(*                                                                         *)
(* A request that is refused changes nothing and is no step here.          *)
(***************************************************************************)
EXTENDS Naturals, Sequences, FiniteSets, SequencesExt

CONSTANTS
  Conns, Handles,
  PeerData,      \* what each peer writes: sequences that tell whose they are
  PeerParts,     \* what each peer prepares: [handle, offset, data]
  AppData,       \* what the application sets
  Zero, None,
  Readable, Writable,  \* attributes that peers may read, and write
  Removable,     \* those whose service the application may remove
  AppSets, AppGets,  \* those the application's task sets, and those it reads
  CbSets,        \* those the application sets in onRead() and onWrite()
  MaxLen,        \* m_attr_max_len of each attribute
  InitLen,       \* CONFIG_NIMBLE_CPP_ATT_VALUE_INIT_LENGTH
  AttrMax,       \* BLE_ATT_ATTR_MAX_LEN
  MaxPrep,       \* BLE_ATT_SVR_MAX_PREP_ENTRIES
  HideAnytime,   \* TRUE: services are removed while peers are connected
  ReallocFails,  \* TRUE: a value may not get the memory to grow
  MaxReqs, MaxSets   \* bounds: requests of peers, values set or read by the application

ASSUME HandlesAssumption ==
  /\ Handles \subseteq Nat
  /\ Readable \cup Writable \cup Removable \cup AppSets \cup AppGets \cup CbSets
       \subseteq Handles
ASSUME LengthsAssumption ==
  /\ MaxLen \in [Handles -> 1..AttrMax] /\ AttrMax \in Nat
  /\ InitLen \in 1..AttrMax
ASSUME DataAssumption ==
  /\ \A d \in AppData \cup UNION {PeerData[c] : c \in Conns} : d \in Seq(ToSet(d)) \ {<<>>}
  /\ \A c \in Conns : \A p \in PeerParts[c] :
       p.handle \in Handles /\ p.offset \in Nat /\ p.data \in Seq(ToSet(p.data)) \ {<<>>}
ASSUME ConnsAssumption == IsFiniteSet(Conns)
ASSUME BoundsAssumption == {MaxPrep, MaxReqs, MaxSets} \subseteq Nat
ASSUME FlagsAssumption == {HideAnytime, ReallocFails} \subseteq BOOLEAN

VARIABLES
  link,          \* each connection: "down", "up", "terminating"
  visible,       \* ble_att_svr_list; the others are in ble_att_svr_hidden_list
  prep,          \* basc_prep_list of each connection
  pool,          \* free entries of ble_att_svr_prep_entry_pool
  val,           \* each NimBLEAttValue: its block, m_attr_len, m_capacity
  t,             \* what a task is doing with a value: "host" and "app"
  x,             \* the host's request: connection, kind, attribute to read, list and
                 \* entries in hand
  answer,        \* history: the answer to each peer's last execute request
  fault,         \* an access to memory that is not there
  reqs, sets     \* counters for MaxReqs and MaxSets

attVars  == <<link, visible, prep, pool>>
counters == <<reqs, sets>>
vars == <<attVars, val, t, x, answer, fault, counters>>

Tasks == {"host", "app"}
Idle == [pc |-> "idle", h |-> None, data |-> <<>>, new |-> 0, fresh |-> TRUE, cb |-> FALSE]
NoRequest == [conn |-> None, op |-> "none", h |-> None, list |-> <<>>, run |-> <<>>]

AllData == AppData \cup UNION {PeerData[c] : c \in Conns}
AllParts == UNION {PeerParts[c] : c \in Conns}
Bytes == (UNION {ToSet(d) : d \in AllData \cup {p.data : p \in AllParts}}) \cup {Zero}
Ready == t["host"].pc = "idle" /\ fault = "none"

TypeOK ==
  /\ link \in [Conns -> {"down", "up", "terminating"}]
  /\ visible \subseteq Handles
  /\ \A c \in Conns : Len(prep[c]) <= MaxPrep /\ ToSet(prep[c]) \subseteq PeerParts[c]
  /\ pool \in 0..MaxPrep
  /\ \A h \in Handles :
       /\ val[h].len \in 0..MaxLen[h] /\ val[h].cap \in InitLen..AttrMax
       /\ Len(val[h].buf) \in InitLen..AttrMax /\ ToSet(val[h].buf) \subseteq Bytes
       /\ val[h].moved \in BOOLEAN
  /\ t["host"].pc \in {"idle", "onRead", "send", "exec", "zero", "grow", "copy",
                       "compare", "onWrite"}
  /\ t["app"].pc \in {"idle", "zero", "grow", "copy", "compare", "get"}
  /\ \A k \in Tasks : t[k].h \in Handles \cup {None} /\ t[k].new \in 0..AttrMax
  /\ x.conn \in Conns \cup {None} /\ x.op \in {"none", "read", "write", "exec"}
  /\ answer \in [Conns -> {"none", "executed", "cancelled", "rejected", "failed"}]
  /\ fault \in {"none", "overrun", "freed", "null"}

-----------------------------------------------------------------------------
(* NimBLEAttValue *)

NewValue == [buf |-> [i \in 1..InitLen |-> Zero], len |-> 0, cap |-> InitLen, moved |-> FALSE]
Value(v) == SubSeq(v.buf, 1, v.len)

(* Mutant: the first byte is cleared, the length kept. *)
ZeroedKeepsLen(v) == [v EXCEPT !.buf[1] = Zero]

(* setValue(): "Just set the value length to 0 and append" *)
Zeroed(v) == [v EXCEPT !.len = 0, !.buf[1] = Zero]

(* append(): a block of at least n bytes, the old contents in front, at the   *)
(* same place or at another.  The new capacity is noted whether or not there  *)
(* was memory for it.                                                         *)
Grown(v, n, moved) ==
  [v EXCEPT !.cap = n, !.moved = moved,
            !.buf = @ \o [i \in 1..(IF n > Len(@) THEN n - Len(@) ELSE 0) |-> Zero]]
NotGrown(v, n) == [v EXCEPT !.cap = n]

(* append(), in the critical section: memcpy behind what the value holds now *)
Copied(v, d, n) ==
  [v EXCEPT !.buf = [i \in DOMAIN @ |-> IF i \in v.len + 1 .. v.len + Len(d)
                                        THEN d[i - v.len]
                                        ELSE IF i = n + 1 THEN Zero ELSE @[i]],
            !.len = n, !.moved = FALSE]

(* setValue() by task k: it writes to the block that m_attr_value points to, *)
(* which another task may have moved.                                        *)
SetZero(k) ==
  /\ t[k].pc = "zero"
  /\ IF val[t[k].h].moved THEN fault' = "freed" /\ UNCHANGED <<val, t>>
     ELSE /\ val' = [val EXCEPT ![t[k].h] = Zeroed(@)]
          /\ t' = [t EXCEPT ![k].pc = "grow"] /\ UNCHANGED fault
  /\ UNCHANGED <<attVars, x, answer, counters>>

(* What a task does behind setValue(): the application's returns, the host   *)
(* calls onWrite() behind a peer's write, or goes on behind its callback.    *)
Proceed == IF x.op = "read" THEN "send" ELSE IF x.op = "exec" THEN "exec" ELSE "idle"
Behind(k) == IF k = "app" THEN "idle" ELSE IF t[k].cb THEN Proceed ELSE "onWrite"
Return(k, pc) == IF pc = "idle" THEN Idle ELSE [t[k] EXCEPT !.pc = pc, !.data = <<>>, !.new = 0, !.fresh = TRUE]
Leave(k) ==
  /\ t' = [t EXCEPT ![k] = Return(k, Behind(k))]
  /\ x' = IF k = "app" THEN x
          ELSE IF Behind(k) = "idle" THEN NoRequest ELSE [x EXCEPT !.run = <<>>]

(* Mutant: a value of exactly one byte too many is taken for one that fits. *)
NeedsBlockLate(v, n) == n > v.cap + 1

NeedsBlock(v, n) == n > v.cap

(* append() before the critical section: refused, or with its block at hand. *)
(* A block that another task has moved meanwhile cannot be moved again.      *)
SetGrow(k) ==
  /\ t[k].pc = "grow"
  /\ LET h == t[k].h  v == val[h]  n == v.len + Len(t[k].data)
         other == CHOOSE o \in Tasks : o # k
         goOn == [t EXCEPT ![k].pc = "copy", ![k].new = n, ![k].fresh = TRUE]
         giveUp == [t EXCEPT ![k].pc = "compare"]
     IN \/ n > MaxLen[h] /\ t' = giveUp /\ UNCHANGED <<val, x, fault>>
        \/ /\ n <= MaxLen[h] /\ ~NeedsBlock(v, n)
           /\ t' = [goOn EXCEPT ![k].fresh = ~v.moved]
           /\ UNCHANGED <<val, x, fault>>
        \/ /\ n <= MaxLen[h] /\ NeedsBlock(v, n) /\ v.moved
           /\ fault' = "freed" /\ UNCHANGED <<val, t, x>>
        \/ /\ n <= MaxLen[h] /\ NeedsBlock(v, n) /\ ~v.moved
           /\ \E moved \in BOOLEAN :
                /\ val' = [val EXCEPT ![h] = Grown(v, n, moved)]
                /\ t' = IF moved /\ t[other].pc = "copy" /\ t[other].h = h
                        THEN [goOn EXCEPT ![other].fresh = FALSE] ELSE goOn
           /\ UNCHANGED <<x, fault>>
        \/ /\ n <= MaxLen[h] /\ NeedsBlock(v, n) /\ ReallocFails
           /\ val' = [val EXCEPT ![h] = NotGrown(v, n)]
           /\ t' = giveUp /\ UNCHANGED <<x, fault>>
  /\ UNCHANGED <<attVars, answer, counters>>

(* append()'s critical section *)
SetCopy(k) ==
  /\ t[k].pc = "copy"
  /\ LET h == t[k].h  v == val[h]
     IN IF t[k].fresh /\ v.len + Len(t[k].data) <= Len(v.buf)
        THEN /\ val' = [val EXCEPT ![h] = Copied(v, t[k].data, t[k].new)]
             /\ t' = [t EXCEPT ![k].pc = "compare"]
             /\ x' = (IF k = "app" THEN x ELSE [x EXCEPT !.run = <<>>])
             /\ UNCHANGED fault
        ELSE /\ fault' = IF t[k].fresh THEN "overrun" ELSE "freed"
             /\ UNCHANGED <<val, t, x>>
  /\ UNCHANGED <<attVars, answer, counters>>

(* setValue()'s closing memcmp(): it reads as many bytes of the block as the *)
(* caller gave, whether or not append() took them, outside the critical      *)
(* section.  A block has one byte more than the value it is for.             *)
SetCompare(k) ==
  /\ t[k].pc = "compare"
  /\ LET v == val[t[k].h]
     IN IF v.moved \/ Len(t[k].data) > Len(v.buf) + 1
        THEN fault' = (IF v.moved THEN "freed" ELSE "overrun") /\ UNCHANGED <<t, x>>
        ELSE Leave(k) /\ UNCHANGED fault
  /\ UNCHANGED <<attVars, val, answer, counters>>

-----------------------------------------------------------------------------
(* The application *)

Begin(pc, h, d, cb) == [Idle EXCEPT !.pc = pc, !.h = h, !.data = d, !.cb = cb]

AppSet ==
  /\ t["app"].pc = "idle" /\ sets < MaxSets
  /\ \E h \in AppSets, d \in AppData : t' = [t EXCEPT !["app"] = Begin("zero", h, d, FALSE)]
  /\ sets' = sets + 1
  /\ UNCHANGED <<attVars, val, x, answer, fault, reqs>>

(* getValue(): deepCopy() takes the capacity first, and copies the value into *)
(* a block of that size in a critical section.                               *)
AppGet ==
  /\ t["app"].pc = "idle" /\ sets < MaxSets
  /\ \E h \in AppGets :
       t' = [t EXCEPT !["app"] = [Begin("get", h, <<>>, FALSE) EXCEPT !.new = val[h].cap]]
  /\ sets' = sets + 1
  /\ UNCHANGED <<attVars, val, x, answer, fault, reqs>>

AppGetCopy ==
  /\ t["app"].pc = "get"
  /\ LET v == val[t["app"].h]
     IN IF v.moved \/ v.len > t["app"].new
        THEN fault' = (IF v.moved THEN "freed" ELSE "overrun") /\ UNCHANGED t
        ELSE t' = [t EXCEPT !["app"] = Idle] /\ UNCHANGED fault
  /\ UNCHANGED <<attVars, val, x, answer, counters>>

(* removeService(): its attributes are hidden at once.  The disciplined      *)
(* application removes services only while nobody is connected.              *)
Hide ==
  /\ t["app"].pc = "idle"
  /\ HideAnytime \/ \A c \in Conns : link[c] = "down"
  /\ \E h \in visible \cap Removable : visible' = visible \ {h}
  /\ UNCHANGED <<link, prep, pool, val, t, x, answer, fault, counters>>

(* onRead() and onWrite(): the application may set values in them. *)
Callback ==
  /\ t["host"].pc \in {"onRead", "onWrite"}
  /\ \/ /\ t' = [t EXCEPT !["host"] = Return("host", Proceed)]
        /\ x' = IF Proceed = "idle" THEN NoRequest ELSE x
        /\ UNCHANGED sets
     \/ /\ sets < MaxSets /\ sets' = sets + 1
        /\ \E h \in CbSets, d \in AppData :
             t' = [t EXCEPT !["host"] = Begin("zero", h, d, TRUE)]
        /\ UNCHANGED x
  /\ UNCHANGED <<attVars, val, answer, fault, reqs>>

-----------------------------------------------------------------------------
(* Requests of peers, served by the host task *)

Request(c) == Ready /\ link[c] # "down" /\ reqs < MaxReqs /\ reqs' = reqs + 1

(* ble_att_svr_rx_read(), rx_read_blob(): the handler calls readEvent() at    *)
(* the first part of a read                                                   *)
RxRead(c, h, first) ==
  /\ Request(c) /\ h \in visible \cap Readable
  /\ x' = [NoRequest EXCEPT !.conn = c, !.op = "read", !.h = h]
  /\ t' = [t EXCEPT !["host"] = [Idle EXCEPT !.pc = IF first THEN "onRead" ELSE "send"]]
  /\ UNCHANGED <<attVars, val, answer, fault, sets>>

(* and appends the value to the response, in a critical section. *)
ReadCopy ==
  /\ t["host"].pc = "send"
  /\ LET v == val[x.h]
     IN IF v.moved /\ v.len > 0 THEN fault' = "freed" /\ UNCHANGED <<t, x>>
        ELSE t' = [t EXCEPT !["host"] = Idle] /\ x' = NoRequest /\ UNCHANGED fault
  /\ UNCHANGED <<attVars, val, answer, counters>>

(* ble_att_svr_rx_write() and rx_write_no_rsp(), handleGattEvent() *)
RxWrite(c, h, d) ==
  /\ Request(c) /\ h \in visible \cap Writable /\ Len(d) <= MaxLen[h]
  /\ x' = [NoRequest EXCEPT !.conn = c, !.op = "write"]
  /\ t' = [t EXCEPT !["host"] = Begin("zero", h, d, FALSE)]
  /\ UNCHANGED <<attVars, val, answer, fault, sets>>

(* Mutant: by offset alone, whatever the handle. *)
LargerOffset(e, p) == e.offset > p.offset

(* ble_att_svr_prep_find_prev(): the entry goes in front of the first one    *)
(* with a larger handle, or a larger offset of the same handle.              *)
Larger(e, p) == e.handle > p.handle \/ (e.handle = p.handle /\ e.offset > p.offset)

Insert(q, p) ==
  LET i == SelectInSeq(q, LAMBDA e : Larger(e, p))
  IN IF i = 0 THEN Append(q, p) ELSE InsertAt(q, i, p)

(* ble_att_svr_rx_prep_write(), insert_prep_entry() *)
RxPrepWrite(c, p) ==
  /\ Request(c) /\ p.handle \in visible \cap Writable /\ pool > 0
  /\ prep' = [prep EXCEPT ![c] = Insert(@, p)]
  /\ pool' = pool - 1
  /\ UNCHANGED <<link, visible, val, t, x, answer, fault, sets>>

(* Mutant: the offset of the first part is not checked. *)
ContinuesAnywhere(q, i) ==
  /\ i > 1 /\ q[i - 1].handle = q[i].handle
     => q[i].offset = q[i - 1].offset + Len(q[i - 1].data)
  /\ q[i].offset + Len(q[i].data) <= AttrMax

(* ble_att_svr_prep_validate(): entry i starts a value, or goes on where the *)
(* one before it ends.                                                       *)
Continues(q, i) ==
  /\ q[i].offset = IF i > 1 /\ q[i - 1].handle = q[i].handle
                   THEN q[i - 1].offset + Len(q[i - 1].data) ELSE 0
  /\ q[i].offset + Len(q[i].data) <= AttrMax

Valid(q) == \A i \in DOMAIN q : Continues(q, i)

(* Mutant: an entry is freed by the extraction and again behind the failure. *)
DiscardTwice(c, list, a) ==
  /\ pool' = pool + Len(list) + IF a = "failed" THEN 1 ELSE 0
  /\ answer' = [answer EXCEPT ![c] = a]

(* ble_att_svr_prep_clear() and the answer *)
Discard(c, list, a) ==
  /\ pool' = pool + Len(list)
  /\ answer' = [answer EXCEPT ![c] = a]

(* ble_att_svr_rx_exec_write(): the list is taken from the connection; it is *)
(* dropped if the peer cancels or it does not validate, else executed.       *)
RxExecWrite(c, flags) ==
  /\ Request(c)
  /\ prep' = [prep EXCEPT ![c] = <<>>]
  /\ \/ /\ flags /\ Valid(prep[c])
        /\ x' = [NoRequest EXCEPT !.conn = c, !.op = "exec", !.list = prep[c]]
        /\ t' = [t EXCEPT !["host"] = [Idle EXCEPT !.pc = "exec"]]
        /\ UNCHANGED <<pool, answer>>
     \/ /\ ~(flags /\ Valid(prep[c]))
        /\ Discard(c, prep[c], IF flags THEN "rejected" ELSE "cancelled")
        /\ UNCHANGED <<t, x>>
  /\ UNCHANGED <<link, visible, val, fault, sets>>

(* ble_att_svr_prep_extract(): the entries in front that have one handle *)
RunLength(q) ==
  LET i == SelectInSeq(q, LAMBDA e : e.handle # q[1].handle)
  IN IF i = 0 THEN Len(q) ELSE i - 1

FinishExec(list, a) ==
  /\ Discard(x.conn, list, a)
  /\ t' = [t EXCEPT !["host"] = Idle] /\ x' = NoRequest

(* ble_att_svr_prep_write(): one attribute after the other.  "Attribute      *)
(* existence was verified during prepare-write request processing"; an       *)
(* attribute that was hidden since is a null pointer here.                   *)
ExecNext ==
  /\ t["host"].pc = "exec" /\ fault = "none"
  /\ \/ /\ x.list = <<>>
        /\ FinishExec(<<>>, "executed") /\ UNCHANGED fault
     \/ /\ x.list # <<>>
        /\ LET n == RunLength(x.list)  run == SubSeq(x.list, 1, n)  h == x.list[1].handle
               rest == SubSeq(x.list, n + 1, Len(x.list))
               data == FlattenSeq([i \in 1..n |-> run[i].data])
           IN \/ /\ h \notin visible
                 /\ fault' = "null" /\ UNCHANGED <<pool, t, x, answer>>
              \/ /\ h \in visible /\ Len(data) > MaxLen[h]
                 /\ FinishExec(x.list, "failed") /\ UNCHANGED fault
              \/ /\ h \in visible /\ Len(data) <= MaxLen[h]
                 /\ pool' = pool + n
                 /\ x' = [x EXCEPT !.list = rest, !.run = run]
                 /\ t' = [t EXCEPT !["host"] = Begin("zero", h, data, FALSE)]
                 /\ UNCHANGED <<answer, fault>>
  /\ UNCHANGED <<link, visible, prep, val, counters>>

-----------------------------------------------------------------------------
(* Connections *)

Connect(c) ==
  /\ Ready /\ link[c] = "down" /\ link' = [link EXCEPT ![c] = "up"]
  /\ UNCHANGED <<visible, prep, pool, val, t, x, answer, fault, counters>>

(* ble_hs_conn_timer(): a queue left alone for 30 s ends its connection *)
PrepTimeout(c) ==
  /\ Ready /\ link[c] = "up" /\ prep[c] # <<>>
  /\ link' = [link EXCEPT ![c] = "terminating"]
  /\ UNCHANGED <<visible, prep, pool, val, t, x, answer, fault, counters>>

(* Mutant: the entries of the list stay allocated. *)
LinkEndLeaks(c) ==
  /\ Ready /\ link[c] # "down" /\ link' = [link EXCEPT ![c] = "down"]
  /\ prep' = [prep EXCEPT ![c] = <<>>] /\ answer' = [answer EXCEPT ![c] = "none"]
  /\ UNCHANGED <<visible, pool, val, t, x, fault, counters>>

(* Mutant: the list stays with the slot, for the next connection. *)
LinkEndKeeps(c) ==
  /\ Ready /\ link[c] # "down" /\ link' = [link EXCEPT ![c] = "down"]
  /\ answer' = [answer EXCEPT ![c] = "none"]
  /\ UNCHANGED <<visible, prep, pool, val, t, x, fault, counters>>

(* ble_hs_conn_free(), at a disconnect or a host reset *)
LinkEnd(c) ==
  /\ Ready /\ link[c] # "down" /\ link' = [link EXCEPT ![c] = "down"]
  /\ prep' = [prep EXCEPT ![c] = <<>>]
  /\ Discard(c, prep[c], "none")
  /\ UNCHANGED <<visible, val, t, x, fault, counters>>

Init ==
  /\ link = [c \in Conns |-> "down"]
  /\ visible = Handles
  /\ prep = [c \in Conns |-> <<>>]
  /\ pool = MaxPrep
  /\ val = [h \in Handles |-> NewValue]
  /\ t = [k \in Tasks |-> Idle]
  /\ x = NoRequest
  /\ answer = [c \in Conns |-> "none"]
  /\ fault = "none"
  /\ reqs = 0 /\ sets = 0

Peer(c) ==
  \/ \E h \in Handles :
       \/ \E first \in BOOLEAN : RxRead(c, h, first)
       \/ \E d \in PeerData[c] : RxWrite(c, h, d)
  \/ \E p \in PeerParts[c] : RxPrepWrite(c, p)
  \/ \E flags \in BOOLEAN : RxExecWrite(c, flags)

Step(k) == fault = "none" /\ (SetZero(k) \/ SetGrow(k) \/ SetCopy(k) \/ SetCompare(k))
HostStep == Step("host") \/ (fault = "none" /\ (Callback \/ ReadCopy)) \/ ExecNext
AppStep == Step("app") \/ (fault = "none" /\ AppGetCopy)

Next ==
  \/ HostStep \/ AppStep
  \/ fault = "none" /\ (AppSet \/ AppGet \/ Hide)
  \/ \E c \in Conns : Connect(c) \/ PrepTimeout(c) \/ LinkEnd(c) \/ Peer(c)

Spec == Init /\ [][Next]_vars

(* The host task runs; the timer of a queue fires, and the disconnect that it *)
(* asked for completes.  Nothing is assumed of peers or of the application.  *)
FairSpec ==
  /\ Spec /\ WF_vars(HostStep)
  /\ \A c \in Conns : WF_vars(PrepTimeout(c) \/ (link[c] = "terminating" /\ LinkEnd(c)))

-----------------------------------------------------------------------------
(* Properties *)

(* The entries in the lists of the connections *)
Queued == UNION {{c} \X DOMAIN prep[c] : c \in Conns}

(* ble_att_svr_prep_alloc/free: every entry of the shared pool is free, in   *)
(* the list of a connection, or in the list being executed; whatever is      *)
(* rejected, fails half-way or is cut off, none is lost or freed twice.      *)
PoolConserved == pool + Cardinality(Queued) + Len(x.list) = MaxPrep

(* Nobody touches memory beyond a value's block, a block that was freed, or  *)
(* an attribute that is gone (setValue with its closing comparison, append,  *)
(* deepCopy, handleGattEvent, ble_att_svr_prep_write).                       *)
NoFault == fault = "none"

(* The server does what AttributeStore promises: a peer's parts become a     *)
(* value only together, as it sent them, and in no other case; nobody else's *)
(* write comes between; the answer to an execute request is the true one.    *)
Store == INSTANCE AttributeStore WITH
  Data <- AllData, Parts <- AllParts,
  value <- [h \in Handles |-> Value(val[h])],
  pending <- [c \in Conns |->
                ToBag(prep[c] \o IF x.conn = c THEN x.run \o x.list ELSE <<>>)]

ImplementsStore == Store!Spec

(* A queue that nobody executes is given up in the end: the entries that a   *)
(* peer left behind come back to the pool (ble_hs_conn_timer).               *)
QueuesDrain == \A c \in Conns : (prep[c] # <<>>) ~> (prep[c] = <<>>)

(* Not kept.  capacity(): "Returns the currently allocated capacity in       *)
(* bytes" (NimBLEAttValue.h); append() notes the new capacity before it      *)
(* knows whether there is memory, and goes by it the next time.              *)
CapacityAllocated == \A h \in Handles : val[h].cap <= Len(val[h].buf)

(* Not kept while services are removed under a connection: "Attribute        *)
(* existence was verified during prepare-write request processing"           *)
(* (ble_att_svr.c).                                                          *)
PreparedExist == \A c \in Conns : \A p \in ToSet(prep[c]) : p.handle \in visible
=============================================================================
