-------------------------- MODULE GattNotifyProofs --------------------------
(***************************************************************************)
(* Theorems about GattNotify, for any peers, bonds, characteristics and    *)
(* number of values.                                                       *)
(*                                                                         *)
(* The types (Types) say besides TypeOK what each place of the host task   *)
(* and of a send has in hand.  IndicationHasProcedure is inductive once it *)
(* names the indication (Noted).  TimeoutOnlyIfSilent needs a count: each  *)
(* procedure stands for one indication on the air or in the queue (Even).  *)
(*                                                                         *)
(* StoredAsSubscribed (Stored): what the store does not say yet the host   *)
(* task has in hand; of a peer that returns, the records up to the rank of *)
(* the walk are in its CCCDs.  NoUpdateLost adds what is on its way        *)
(* (OnItsWay) and what is remembered of a peer that is away (KeptForIt).   *)
(***************************************************************************)
EXTENDS GattNotify, FiniteSetTheorems, WellFoundedInduction, TLAPS

-----------------------------------------------------------------------------
(* Sequences *)

LEMMA LeastNat ==
  ASSUME NEW S, S \subseteq Nat, S # {}
  PROVE  \E i \in S : \A k \in S : i <= k
<1>1. PICK i \in S : \A y \in S : <<y, i>> \notin OpToRel(<, Nat)
  BY WFMin, NatLessThanWellFounded
<1>2. \A y \in S : ~(y < i)
  BY <1>1 DEF OpToRel
<1> QED
  BY <1>2

LEMMA Removal ==
  ASSUME NEW S, NEW s \in Seq(S), NEW i \in DOMAIN s
  PROVE  /\ RemoveAt(s, i) \in Seq(S)
         /\ Len(RemoveAt(s, i)) = Len(s) - 1
         /\ \A j \in 1..(Len(s) - 1) : RemoveAt(s, i)[j] = IF j < i THEN s[j] ELSE s[j + 1]
<1> DEFINE a == SubSeq(s, 1, i - 1)
           b == SubSeq(s, i + 1, Len(s))
<1>1. Len(s) \in Nat /\ i \in 1..Len(s)
  OBVIOUS
<1>2. a \in Seq(S) /\ Len(a) = i - 1 /\ \A j \in 1..(i - 1) : a[j] = s[j]
  BY <1>1
<1>3. b \in Seq(S) /\ Len(b) = Len(s) - i /\ \A j \in 1..(Len(s) - i) : b[j] = s[i + j]
  BY <1>1
<1>4. RemoveAt(s, i) = a \o b
  BY DEF RemoveAt
<1> HIDE DEF a, b
<1>5. a \o b \in Seq(S) /\ Len(a \o b) = Len(s) - 1
  BY <1>1, <1>2, <1>3
<1>6. ASSUME NEW j \in 1..(Len(s) - 1)
      PROVE  (a \o b)[j] = IF j < i THEN s[j] ELSE s[j + 1]
  <2>1. CASE j < i
    BY <1>1, <1>2, <1>3, <2>1
  <2>2. CASE ~(j < i)
    <3>1. (a \o b)[j] = b[j - (i - 1)]
      <4>1. j \in 1..(Len(a) + Len(b)) /\ j > Len(a)
        BY <1>1, <1>2, <1>3, <2>2
      <4>2. (a \o b)[j] = IF j <= Len(a) THEN a[j] ELSE b[j - Len(a)]
        BY <1>2, <1>3, <4>1, SMTT(60)
      <4>3. ~(j <= Len(a))
        BY <1>1, <1>2, <4>1
      <4> QED
        BY <1>2, <4>2, <4>3
    <3>2. j - (i - 1) \in 1..(Len(s) - i) /\ i + (j - (i - 1)) = j + 1
      BY <1>1, <2>2
    <3>3. b[j - (i - 1)] = s[i + (j - (i - 1))]
      BY <1>3, <3>2
    <3> QED
      BY <2>2, <3>1, <3>2, <3>3
  <2> QED
    BY <2>1, <2>2
<1> QED
  BY <1>4, <1>5, <1>6

(* What is not removed stays. *)
LEMMA RemovalKeeps ==
  ASSUME NEW S, NEW s \in Seq(S), NEW i \in DOMAIN s, NEW e \in ToSet(s), e # s[i]
  PROVE  e \in ToSet(RemoveAt(s, i))
<1>1. PICK k \in DOMAIN s : s[k] = e
  BY DEF ToSet
<1>2. k # i /\ k \in 1..Len(s) /\ i \in 1..Len(s) /\ Len(s) \in Nat
  BY <1>1
<1> DEFINE j == IF k < i THEN k ELSE k - 1
           r == RemoveAt(s, i)
<1>3. j \in 1..(Len(s) - 1) /\ (IF j < i THEN s[j] ELSE s[j + 1]) = s[k]
  <2>1. CASE k < i
    BY <1>2, <2>1
  <2>2. CASE ~(k < i)
    <3>1. j = k - 1 /\ ~(j < i) /\ j + 1 = k /\ j \in 1..(Len(s) - 1)
      BY <1>2, <2>2
    <3> QED
      BY <3>1
  <2> QED
    BY <2>1, <2>2
<1> HIDE DEF j
<1>4. r \in Seq(S) /\ Len(r) = Len(s) - 1 /\ r[j] = s[k]
  BY <1>3, Removal
<1> HIDE DEF r
<1>5. DOMAIN r = 1..(Len(s) - 1)
  BY <1>2, <1>4
<1> QED
  BY <1>1, <1>3, <1>4, <1>5 DEF ToSet, r

LEMMA AppendKeeps ==
  ASSUME NEW S, NEW s \in Seq(S), NEW e \in S
  PROVE  ToSet(Append(s, e)) = ToSet(s) \cup {e}
<1>1. \A i \in DOMAIN s : i \in DOMAIN Append(s, e) /\ Append(s, e)[i] = s[i]
  OBVIOUS
<1>2. Len(s) + 1 \in DOMAIN Append(s, e) /\ Append(s, e)[Len(s) + 1] = e
  OBVIOUS
<1>3. \A i \in DOMAIN Append(s, e) : i \in DOMAIN s \/ Append(s, e)[i] = e
  OBVIOUS
<1> QED
  BY <1>1, <1>2, <1>3 DEF ToSet

LEMMA TailKeeps ==
  ASSUME NEW S, NEW s \in Seq(S), s # <<>>
  PROVE  /\ Head(s) \in ToSet(s) /\ Tail(s) \in Seq(S) /\ Len(Tail(s)) = Len(s) - 1
         /\ ToSet(s) = {Head(s)} \cup ToSet(Tail(s))
<1>1. 1 \in DOMAIN s /\ s[1] = Head(s)
  OBVIOUS
<1>2. \A i \in DOMAIN s : i # 1 => i - 1 \in DOMAIN Tail(s) /\ Tail(s)[i - 1] = s[i]
  OBVIOUS
<1>3. \A i \in DOMAIN Tail(s) : i + 1 \in DOMAIN s /\ Tail(s)[i] = s[i + 1]
  OBVIOUS
<1>4. Tail(s) \in Seq(S) /\ Len(Tail(s)) = Len(s) - 1
  OBVIOUS
<1>5. Head(s) \in ToSet(s)
  BY <1>1 DEF ToSet
<1>6. ToSet(s) = {Head(s)} \cup ToSet(Tail(s))
  <2>1. ASSUME NEW e \in ToSet(s) PROVE e \in {Head(s)} \cup ToSet(Tail(s))
    <3>1. PICK i \in DOMAIN s : s[i] = e
      BY DEF ToSet
    <3> QED
      BY <1>1, <1>2, <3>1 DEF ToSet
  <2>2. ASSUME NEW e \in ToSet(Tail(s)) PROVE e \in ToSet(s)
    <3>1. PICK i \in DOMAIN Tail(s) : Tail(s)[i] = e
      BY DEF ToSet
    <3> QED
      BY <1>3, <3>1 DEF ToSet
  <2> QED
    BY <1>5, <2>1, <2>2
<1> QED
  BY <1>4, <1>5, <1>6

-----------------------------------------------------------------------------
(* Types *)

Vals == 0..MaxValue
Cfgs == [sub : Subs, mod : BOOLEAN]
Recs == [peer : Peers, chr : Chars, sub : Subs, mod : BOOLEAN, changed : BOOLEAN]
Msgs == [op : Kinds, chr : Chars, val : Vals]
Backs == [op : {"confirm"}] \cup [op : {"cccd"}, chr : Chars, sub : Subs]
Sends == [pc : {"idle", "read", "tx", "mark", "insert"}, op : Kinds, to : Peers \cup {None},
          chr : Chars \cup {0}, val : Vals, ok : BOOLEAN]
Hosts == [pc : {"idle", "tx", "restore", "restored", "bond", "record", "persist", "next", "teardown"},
          peer : Peers \cup {None}, left : SUBSET Pairs, idx : Nat, rec : Recs \cup {None}]
Apps == [pc : {"idle", "set", "records", "record"}, chr : Chars \cup {0}, idx : Nat,
         rec : Recs \cup {None}]

Unique(s) ==
  \A i, j \in DOMAIN s : i # j => <<s[i].peer, s[i].chr>> # <<s[j].peer, s[j].chr>>

GoodSend(s) == s \in Sends /\ (s.pc # "idle" => s.to \in Peers /\ s.chr \in Chars)
GoodHost(h) ==
  /\ h \in Hosts
  /\ h.pc \in {"restore", "restored", "bond", "record", "next", "teardown"} => h.peer \in Peers
  /\ h.pc \in {"restored", "record"} => h.rec \in Recs
GoodApp(a) ==
  /\ a \in Apps /\ (a.pc # "idle" => a.chr \in Chars)
  /\ a.pc = "record" => a.rec \in Recs

LinkTypes ==
  /\ conn \in [Peers -> {"up", "broken", "down"}]
  /\ paired \subseteq Peers /\ bonded \subseteq Peers /\ expired \subseteq Peers
GattTypes ==
  /\ cccd \in [Peers -> [Chars -> Cfgs]]
  /\ waiting \in [Peers -> Chars \cup {0}]
  /\ procs \in [Peers -> Seq(Chars)]
AirTypes ==
  /\ busy \in [Peers -> BOOLEAN]
  /\ txq \in [Peers -> Seq(Msgs)] /\ air \in [Peers -> Seq(Msgs)]
PeerTypes ==
  /\ back \in [Peers -> Seq(Backs)] /\ silent \subseteq Peers
  /\ seen \in [Peers -> [Chars -> Vals]]
SideTypes ==
  /\ event \in BOOLEAN /\ GoodHost(host) /\ GoodApp(app)
  /\ send \in [Actors -> Sends] /\ \A a \in Actors : GoodSend(send[a])
StoreTypes == store \in Seq(Recs) /\ Unique(store)
ValueTypes ==
  /\ value \in [Chars -> Vals]
  /\ promised \in [Peers -> [Chars -> [val : Vals, kept : BOOLEAN]]]
  /\ \A p \in Peers, c \in Chars : promised[p][c].val <= value[c]

Types ==
  LinkTypes /\ GattTypes /\ AirTypes /\ PeerTypes /\ SideTypes /\ StoreTypes /\ ValueTypes

LEMMA Constant ==
  /\ 0 \in Vals /\ Vals \subseteq Nat /\ None \notin Peers /\ 0 \notin Chars
  /\ NoPromise \in [val : Vals, kept : BOOLEAN] /\ NoPromise.val = 0
  /\ NoSub \in [Chars -> Cfgs]
  /\ Chars \subseteq Nat
BY CharsAssumption, BondsAssumption DEF Vals, NoPromise, NoSub, Cfgs, Subs

(* What the operators of the model return *)
LEMMA SendTypes ==
  /\ GoodSend(NoSend) /\ NoSend.pc = "idle" /\ GoodSend([NoSend EXCEPT !.ok = FALSE])
  /\ [NoSend EXCEPT !.ok = FALSE].pc = "idle"
  /\ \A op \in Kinds, p \in Peers, c \in Chars :
       GoodSend(Sending(op, p, c)) /\ Sending(op, p, c).pc = "read" /\ Sending(op, p, c).to = p
<1>1. GoodSend(NoSend) /\ NoSend.pc = "idle"
  BY Constant DEF GoodSend, NoSend, Sends, Kinds
<1>2. GoodSend([NoSend EXCEPT !.ok = FALSE]) /\ [NoSend EXCEPT !.ok = FALSE].pc = "idle"
  BY Constant DEF GoodSend, NoSend, Sends, Kinds
<1>3. ASSUME NEW op \in Kinds, NEW p \in Peers, NEW c \in Chars
      PROVE  GoodSend(Sending(op, p, c)) /\ Sending(op, p, c).pc = "read" /\ Sending(op, p, c).to = p
  <2>1. NoSend \in Sends
    BY <1>1 DEF GoodSend
  <2>2. Sending(op, p, c) \in Sends
    BY <2>1 DEF Sending, Sends
  <2>3. Sending(op, p, c).pc = "read" /\ Sending(op, p, c).to = p /\ Sending(op, p, c).chr = c
    BY <2>1 DEF Sending, Sends
  <2> QED
    BY <2>2, <2>3 DEF GoodSend
<1> QED
  BY <1>1, <1>2, <1>3

LEMMA HostTypes ==
  /\ \A pc \in {"idle", "persist"} : GoodHost(HostAt(pc)) /\ HostAt(pc).pc = pc
  /\ GoodHost([HostAt("tx") EXCEPT !.left = Pairs])
  /\ \A pc \in {"restore", "next", "teardown"}, p \in Peers : GoodHost([HostAt(pc) EXCEPT !.peer = p])
  /\ \A p \in Peers : GoodHost([HostAt("bond") EXCEPT !.peer = p, !.left = {p} \X Chars])
  /\ \A p \in Peers, r \in Recs \cup {None} :
       GoodHost([HostAt("persist") EXCEPT !.peer = p, !.rec = r])
  /\ \A r \in Recs \cup {None} : GoodHost([HostAt("persist") EXCEPT !.rec = r])
<1>1. \A p \in Peers : {p} \X Chars \in SUBSET Pairs
  BY DEF Pairs
<1> QED
  BY <1>1, Constant DEF GoodHost, HostAt, Hosts

LEMMA AppTypes ==
  /\ GoodApp(AppAt("idle")) /\ AppAt("idle").pc = "idle"
  /\ \A c \in Chars : GoodApp([AppAt("set") EXCEPT !.chr = c])
BY Constant DEF GoodApp, AppAt, Apps

LEMMA RecordTypes ==
  ASSUME NEW p \in Peers, NEW c \in Chars, NEW cfg \in Cfgs, NEW b \in BOOLEAN
  PROVE  Record(p, c, cfg, b) \in Recs
BY DEF Record, Recs, Cfgs

LEMMA PutTypes ==
  ASSUME NEW s \in Seq(Recs), Unique(s), NEW r \in Recs
  PROVE  Put(s, r) \in Seq(Recs) /\ Unique(Put(s, r))
<1>1. CASE \E i \in DOMAIN s : Same(s[i], r)
  <2> DEFINE t == [i \in DOMAIN s |-> IF Same(s[i], r) THEN r ELSE s[i]]
  <2>1. t \in Seq(Recs) /\ DOMAIN t = DOMAIN s
    OBVIOUS
  <2>2. \A i \in DOMAIN s : t[i].peer = s[i].peer /\ t[i].chr = s[i].chr
    BY DEF Same
  <2> HIDE DEF t
  <2>3. Unique(t)
    BY <2>1, <2>2 DEF Unique
  <2> QED
    BY <1>1, <2>1, <2>3 DEF Put, t
<1>2. CASE ~ \E i \in DOMAIN s : Same(s[i], r)
  <2> DEFINE t == Append(s, r)
  <2>1. /\ t \in Seq(Recs) /\ DOMAIN t = 1..(Len(s) + 1) /\ DOMAIN s = 1..Len(s) /\ Len(s) \in Nat
        /\ t[Len(s) + 1] = r /\ \A i \in DOMAIN s : t[i] = s[i]
    OBVIOUS
  <2> HIDE DEF t
  <2>2. \A i \in DOMAIN t : i \in DOMAIN s \/ i = Len(s) + 1
    BY <2>1
  <2>3. Unique(t)
    BY <1>2, <2>1, <2>2 DEF Unique, Same
  <2> QED
    BY <1>2, <2>1, <2>3 DEF Put, t
<1> QED
  BY <1>1, <1>2

LEMMA WithoutTypes ==
  ASSUME NEW s \in Seq(Recs), Unique(s), NEW r
  PROVE  Without(s, r) \in Seq(Recs) /\ Unique(Without(s, r))
<1> DEFINE of == {i \in DOMAIN s : Same(s[i], r)}
           i0 == CHOOSE i \in of : \A j \in of : i <= j
<1>1. CASE of = {}
  BY <1>1 DEF Without
<1>2. CASE of # {}
  <2>1. of \subseteq Nat
    OBVIOUS
  <2>2. i0 \in of
    <3> HIDE DEF of
    <3>1. \E i \in of : \A j \in of : i <= j
      BY <1>2, <2>1, LeastNat
    <3> QED
      BY <3>1
  <2>3. i0 \in DOMAIN s
    BY <2>2
  <2>4. Without(s, r) = RemoveAt(s, i0)
    BY <1>2 DEF Without
  <2> HIDE DEF i0
  <2> DEFINE t == RemoveAt(s, i0)
  <2>5. /\ t \in Seq(Recs) /\ Len(t) = Len(s) - 1
        /\ \A j \in 1..(Len(s) - 1) : t[j] = IF j < i0 THEN s[j] ELSE s[j + 1]
    BY <2>3, Removal
  <2> HIDE DEF t
  <2>6. Unique(t)
    <3> SUFFICES ASSUME NEW i \in DOMAIN t, NEW j \in DOMAIN t, i # j
                 PROVE  <<t[i].peer, t[i].chr>> # <<t[j].peer, t[j].chr>>
      BY DEF Unique
    <3>1. /\ i \in 1..(Len(s) - 1) /\ j \in 1..(Len(s) - 1) /\ Len(s) \in Nat /\ i0 \in Nat
          /\ DOMAIN s = 1..Len(s)
      BY <2>3, <2>5
    <3> DEFINE k == IF i < i0 THEN i ELSE i + 1
               l == IF j < i0 THEN j ELSE j + 1
    <3>2. k \in DOMAIN s /\ l \in DOMAIN s /\ k # l
      BY <3>1
    <3>3. t[i] = s[k] /\ t[j] = s[l]
      BY <2>5, <3>1
    <3> QED
      BY <3>2, <3>3 DEF Unique
  <2> QED
    BY <2>4, <2>5, <2>6 DEF t
<1> QED
  BY <1>1, <1>2

LEMMA Places ==
  /\ \A c, n : OfChr(c, n) \subseteq DOMAIN store
  /\ \A p, n : OfPeer(p, n) \subseteq DOMAIN store
  /\ \A p, n : \A i \in OfPeer(p, n) : store[i].peer = p
BY DEF OfChr, OfPeer

(* What the parts of a step do *)
LEMMA SendUpdate ==
  ASSUME SideTypes, NEW a \in Actors, NEW s, GoodSend(s), send' = [send EXCEPT ![a] = s]
  PROVE  send' \in [Actors -> Sends] /\ \A b \in Actors : GoodSend(send'[b])
<1>1. send \in [Actors -> Sends] /\ (\A b \in Actors : GoodSend(send[b])) /\ s \in Sends
  BY DEF SideTypes, GoodSend
<1>2. \A b \in Actors : send'[b] = IF b = a THEN s ELSE send[b]
  BY <1>1
<1> QED
  BY <1>1, <1>2

LEMMA TransmitTypes ==
  ASSUME AirTypes, NEW p \in Peers, NEW m \in Msgs, Transmit(p, m)
  PROVE  AirTypes'
<1>1. \A q \in Seq(Msgs) : Append(q, m) \in Seq(Msgs)
  OBVIOUS
<1>2. CASE m.op = "indicate" /\ busy[p]
  <2>1. txq' = [txq EXCEPT ![p] = Append(@, m)] /\ UNCHANGED <<busy, air>>
    BY <1>2 DEF Transmit
  <2> QED
    BY <1>1, <2>1 DEF AirTypes
<1>3. CASE ~(m.op = "indicate" /\ busy[p])
  <2>1. /\ air' = [air EXCEPT ![p] = Append(@, m)] /\ UNCHANGED txq
        /\ busy' = [busy EXCEPT ![p] = @ \/ m.op = "indicate"]
    BY <1>3 DEF Transmit
  <2>2. busy' \in [Peers -> BOOLEAN]
    BY <2>1 DEF AirTypes
  <2> QED
    BY <1>1, <2>1, <2>2 DEF AirTypes
<1> QED
  BY <1>2, <1>3

LEMMA OutstandingTypes ==
  ASSUME AirTypes, NEW p \in Peers, SendOutstanding(p)
  PROVE  AirTypes'
<1>1. CASE txq[p] = <<>>
  BY <1>1 DEF SendOutstanding, AirTypes
<1>2. CASE txq[p] # <<>>
  <2>1. /\ air' = [air EXCEPT ![p] = Append(@, Head(txq[p]))]
        /\ txq' = [txq EXCEPT ![p] = Tail(@)] /\ UNCHANGED busy
    BY <1>2 DEF SendOutstanding
  <2>2. txq[p] \in Seq(Msgs) /\ air[p] \in Seq(Msgs)
    BY DEF AirTypes
  <2>3. Tail(txq[p]) \in Seq(Msgs) /\ Append(air[p], Head(txq[p])) \in Seq(Msgs)
    BY <1>2, <2>2
  <2> QED
    BY <2>1, <2>3 DEF AirTypes
<1> QED
  BY <1>1, <1>2

-----------------------------------------------------------------------------
(* Each step keeps the types. *)

LEMMA SendKeepsTypes ==
  ASSUME Types, NEW a \in Actors, Send(a)
  PROVE  Types'
<1> DEFINE s == send[a]
<1>1. s.pc # "idle" => s.to \in Peers /\ s.chr \in Chars
  BY DEF Types, SideTypes, GoodSend
<1>2. s \in Sends /\ send \in [Actors -> Sends]
  BY DEF Types, SideTypes
<1>3. ASSUME NEW r \in Sends, r.to = s.to, r.chr = s.chr, s.pc # "idle"
      PROVE  GoodSend(r)
  BY <1>1, <1>3 DEF GoodSend
<1>4. CASE ReadValue(a)
  <2> USE <1>4 DEF ReadValue
  <2> DEFINE r == [s EXCEPT !.pc = "tx", !.val = value[s.chr]]
  <2>1. value[s.chr] \in Vals
    BY <1>1 DEF Types, ValueTypes
  <2>2. r \in Sends /\ r.to = s.to /\ r.chr = s.chr
    BY <1>2, <2>1 DEF Sends
  <2>3. send' = [send EXCEPT ![a] = r]
    BY <1>2
  <2> HIDE DEF r
  <2>4. GoodSend(r)
    BY <1>3, <2>2
  <2>5. SideTypes'
    BY <2>3, <2>4, SendUpdate DEF Types, SideTypes
  <2> QED
    BY <2>5 DEF Types, LinkTypes, GattTypes, AirTypes, PeerTypes, StoreTypes, ValueTypes,
                connVars, gattVars, attVars, peerVars
<1>5. CASE SendValue(a)
  <2> USE <1>5 DEF SendValue
  <2>1. s.to \in Peers /\ s.chr \in Chars
    BY <1>1
  <2>2. SideTypes'
    <3>1. \E r : GoodSend(r) /\ send' = [send EXCEPT ![a] = r]
      <4>1. CASE send' = [send EXCEPT ![a] = [NoSend EXCEPT !.ok = FALSE]]
        BY <4>1, SendTypes
      <4>2. CASE send' = [send EXCEPT ![a] = IF s.op = "notify" THEN NoSend ELSE [@ EXCEPT !.pc = "mark"]]
        <5>1. CASE s.op = "notify"
          BY <4>2, <5>1, SendTypes
        <5>2. CASE s.op # "notify"
          <6> DEFINE r == [s EXCEPT !.pc = "mark"]
          <6>1. r \in Sends /\ r.to = s.to /\ r.chr = s.chr
            BY <1>2 DEF Sends
          <6>2. send' = [send EXCEPT ![a] = r]
            BY <1>2, <4>2, <5>2
          <6> HIDE DEF r
          <6> QED
            BY <1>3, <6>1, <6>2
        <5> QED
          BY <5>1, <5>2
      <4> QED
        BY <4>1, <4>2
    <3> QED
      BY <3>1, SendUpdate DEF Types, SideTypes
  <2>3. AirTypes'
    <3>1. Message(s.op, s.chr, s.val) \in Msgs
      BY <1>2, <2>1 DEF Message, Msgs, Sends
    <3>2. CASE Transmit(s.to, Message(s.op, s.chr, s.val))
      BY <2>1, <3>1, <3>2, TransmitTypes DEF Types
    <3>3. CASE UNCHANGED attVars
      BY <3>3 DEF Types, AirTypes, attVars
    <3> QED
      BY <3>2, <3>3
  <2>4. ValueTypes'
    <3>1. CASE promised' = promised
      BY <3>1 DEF Types, ValueTypes
    <3>2. CASE promised' = [promised EXCEPT ![s.to][s.chr].kept = FALSE]
      <4>1. /\ promised \in [Peers -> [Chars -> [val : Vals, kept : BOOLEAN]]]
            /\ \A p \in Peers, c \in Chars : promised[p][c].val <= value[c]
            /\ value' = value /\ value \in [Chars -> Vals]
        BY SMTT(60) DEF Types, ValueTypes
      <4>2. promised' \in [Peers -> [Chars -> [val : Vals, kept : BOOLEAN]]]
        <5> DEFINE q == promised[s.to][s.chr]
                   r == [q EXCEPT !.kept = FALSE]
        <5>0. q \in [val : Vals, kept : BOOLEAN]
          BY <2>1, <4>1
        <5>1. r \in [val : Vals, kept : BOOLEAN]
          <6> HIDE DEF q
          <6> QED
            BY <5>0
        <5>2. promised' = [promised EXCEPT ![s.to] = [promised[s.to] EXCEPT ![s.chr] = r]]
          BY <2>1, <3>2, <4>1
        <5> HIDE DEF r
        <5>3. [promised[s.to] EXCEPT ![s.chr] = r] \in [Chars -> [val : Vals, kept : BOOLEAN]]
          BY <2>1, <4>1, <5>1
        <5> QED
          BY <4>1, <5>2, <5>3
      <4>3. \A p \in Peers, c \in Chars : promised'[p][c].val = promised[p][c].val
        BY <2>1, <3>2, <4>1
      <4> QED
        BY <4>1, <4>2, <4>3 DEF ValueTypes
    <3> QED
      BY <3>1, <3>2
  <2> QED
    BY <2>2, <2>3, <2>4 DEF Types, LinkTypes, GattTypes, PeerTypes, StoreTypes,
                connVars, gattVars, peerVars
<1>6. CASE MarkWaiting(a)
  <2> USE <1>6 DEF MarkWaiting
  <2> DEFINE r == [s EXCEPT !.pc = "insert"]
  <2>1. r \in Sends /\ r.to = s.to /\ r.chr = s.chr
    BY <1>2 DEF Sends
  <2>2. send' = [send EXCEPT ![a] = r]
    BY <1>2
  <2> HIDE DEF r
  <2>3. GoodSend(r)
    BY <1>3, <2>1
  <2>4. SideTypes'
    BY <2>2, <2>3, SendUpdate DEF Types, SideTypes
  <2>5. GattTypes'
    BY <1>1 DEF Types, GattTypes
  <2> QED
    BY <2>4, <2>5 DEF Types, LinkTypes, AirTypes, PeerTypes, StoreTypes, ValueTypes,
                connVars, attVars, peerVars
<1>7. CASE InsertProc(a)
  <2> USE <1>7 DEF InsertProc
  <2>1. SideTypes'
    BY SendTypes, SendUpdate DEF Types, SideTypes
  <2>2. GattTypes'
    <3>1. procs[s.to] \in Seq(Chars) /\ s.chr \in Chars
      BY <1>1 DEF Types, GattTypes
    <3>2. Append(procs[s.to], s.chr) \in Seq(Chars)
      BY <3>1
    <3> QED
      BY <3>2 DEF Types, GattTypes
  <2> QED
    BY <2>1, <2>2 DEF Types, LinkTypes, AirTypes, PeerTypes, StoreTypes, ValueTypes,
                connVars, attVars, peerVars
<1> QED
  BY <1>4, <1>5, <1>6, <1>7 DEF Send

LEMMA AppKeepsTypes ==
  ASSUME Types, AppNext
  PROVE  Types'
<1>0. app.pc # "idle" => app.chr \in Chars
  BY DEF Types, SideTypes, GoodApp
<1>1. ASSUME NEW c \in Chars, setValue(c) PROVE Types'
  <2> USE <1>1 DEF setValue
  <2>1. SideTypes'
    BY AppTypes DEF Types, SideTypes
  <2>2. ValueTypes'
    <3>1. value \in [Chars -> Vals] /\ value[c] < MaxValue /\ MaxValue \in Nat
      BY CharsAssumption DEF Types, ValueTypes
    <3>2. value[c] + 1 \in Vals
      BY <3>1 DEF Vals
    <3>3. \A d \in Chars : value[d] \in Nat /\ value'[d] \in Nat /\ value[d] <= value'[d]
      BY <3>1, <3>2 DEF Vals
    <3>4. \A p \in Peers, d \in Chars : promised[p][d].val \in Nat /\ promised[p][d].val <= value[d]
      BY Constant DEF Types, ValueTypes
    <3>5. \A p \in Peers, d \in Chars : promised[p][d].val <= value'[d]
      <4>1. \A i, j, k \in Nat : i <= j /\ j <= k => i <= k
        OBVIOUS
      <4> QED
        BY <3>3, <3>4, <4>1
    <3> QED
      BY <3>1, <3>2, <3>5 DEF Types, ValueTypes
  <2> QED
    BY <2>1, <2>2 DEF Types, LinkTypes, GattTypes, AirTypes, PeerTypes, StoreTypes,
                connVars, gattVars, attVars, peerVars
<1>2. CASE SendToOne
  <2> USE <1>2 DEF SendToOne
  <2>1. PICK p \in Peers, op \in Kinds : send' = [send EXCEPT !["app"] = Sending(op, p, app.chr)]
    OBVIOUS
  <2>2. GoodSend(Sending(op, p, app.chr)) /\ "app" \in Actors
    BY <1>0, SendTypes DEF Actors
  <2>3. SideTypes'
    BY <2>1, <2>2, SendUpdate, AppTypes DEF Types, SideTypes
  <2> QED
    BY <2>3 DEF Types, LinkTypes, GattTypes, AirTypes, PeerTypes, StoreTypes, ValueTypes,
                connVars, gattVars, attVars, peerVars
<1>3. CASE ChrUpdated
  <2> USE <1>3 DEF ChrUpdated
  <2> DEFINE c == app.chr
  <2>1. c \in Chars
    BY <1>0
  <2>2. SideTypes'
    <3>1. event' \in BOOLEAN
      BY DEF Types, SideTypes
    <3>2. GoodApp(app')
      BY DEF Types, SideTypes, GoodApp, Apps
    <3> QED
      BY <3>1, <3>2 DEF Types, SideTypes
  <2>3. GattTypes'
    <3>1. PICK marked \in SUBSET {p \in Peers : conn[p] = "up"} :
            cccd' = [p \in Peers |-> IF p \in marked THEN [cccd[p] EXCEPT ![c].mod = TRUE] ELSE cccd[p]]
      OBVIOUS
    <3>2. ASSUME NEW p \in Peers PROVE [cccd[p] EXCEPT ![c].mod = TRUE] \in [Chars -> Cfgs]
      <4>1. cccd[p] \in [Chars -> Cfgs] /\ cccd[p][c] \in Cfgs
        BY <2>1 DEF Types, GattTypes
      <4>2. [cccd[p][c] EXCEPT !.mod = TRUE] \in Cfgs
        BY <4>1 DEF Cfgs
      <4>3. [cccd[p] EXCEPT ![c].mod = TRUE] = [cccd[p] EXCEPT ![c] = [cccd[p][c] EXCEPT !.mod = TRUE]]
        BY <4>1
      <4> QED
        BY <4>1, <4>2, <4>3
    <3> QED
      BY <3>1, <3>2 DEF Types, GattTypes
  <2>4. ValueTypes'
    <3>1. \A p \in Peers : Promise(p, c) \in [val : Vals, kept : BOOLEAN] /\ Promise(p, c).val <= value[c]
      <4> TAKE p \in Peers
      <4> DEFINE recorded == \E r \in ToSet(store) : r.peer = p /\ r.chr = c /\ r.sub # "none"
      <4>0. recorded \in BOOLEAN
        OBVIOUS
      <4>1. Promise(p, c) \in {[val |-> value[c], kept |-> recorded], promised[p][c]}
        BY DEF Promise
      <4> HIDE DEF recorded
      <4>2. value[c] \in Vals /\ value[c] <= value[c]
        BY <2>1, Constant DEF Types, ValueTypes
      <4>3. promised[p][c] \in [val : Vals, kept : BOOLEAN] /\ promised[p][c].val <= value[c]
        BY <2>1 DEF Types, ValueTypes
      <4> QED
        BY <4>0, <4>1, <4>2, <4>3
    <3>2. \A p \in Peers : [promised[p] EXCEPT ![c] = Promise(p, c)] \in [Chars -> [val : Vals, kept : BOOLEAN]]
      BY <3>1 DEF Types, ValueTypes
    <3>3. promised' = [p \in Peers |-> [promised[p] EXCEPT ![c] = Promise(p, c)]]
      OBVIOUS
    <3>4. \A p \in Peers, d \in Chars : promised'[p][d].val <= value[d]
      <4> TAKE p \in Peers, d \in Chars
      <4>1. promised[p] \in [Chars -> [val : Vals, kept : BOOLEAN]] /\ promised[p][d].val <= value[d]
        BY DEF Types, ValueTypes
      <4>2. promised'[p] = [promised[p] EXCEPT ![c] = Promise(p, c)]
        BY <3>3
      <4>3. promised'[p][d] = IF d = c THEN Promise(p, c) ELSE promised[p][d]
        BY <4>1, <4>2
      <4> QED
        BY <3>1, <4>1, <4>3
    <3> QED
      BY <3>2, <3>3, <3>4 DEF Types, ValueTypes
  <2> QED
    BY <2>2, <2>3, <2>4 DEF Types, LinkTypes, AirTypes, PeerTypes, StoreTypes,
                connVars, attVars, peerVars
<1>4. CASE ReadRecord
  <2>0. app \in Apps /\ app.pc = "records" /\ app.chr \in Chars
    BY <1>0, <1>4 DEF ReadRecord, Types, SideTypes, GoodApp
  <2>1. GoodApp(app')
    <3>1. CASE app' = AppAt("idle")
      BY <3>1, AppTypes
    <3>2. CASE \E i \in OfChr(app.chr, app.idx) :
                 app' = IF store[i].changed THEN [app EXCEPT !.idx = @ + 1]
                        ELSE [app EXCEPT !.pc = "record", !.rec = store[i]]
      <4>1. PICK i \in OfChr(app.chr, app.idx) :
              app' = IF store[i].changed THEN [app EXCEPT !.idx = @ + 1]
                     ELSE [app EXCEPT !.pc = "record", !.rec = store[i]]
        BY <3>2
      <4>2. OfChr(app.chr, app.idx) \subseteq DOMAIN store
        BY Places
      <4>3. store[i] \in Recs
        BY <4>1, <4>2 DEF Types, StoreTypes
      <4>4. CASE app' = [app EXCEPT !.idx = app.idx + 1]
        <5>1. app.idx + 1 \in Nat
          BY <2>0 DEF Apps
        <5> QED
          BY <2>0, <4>4, <5>1 DEF GoodApp, Apps
      <4>5. CASE app' = [app EXCEPT !.pc = "record", !.rec = store[i]]
        BY <2>0, <4>3, <4>5 DEF GoodApp, Apps
      <4> QED
        BY <4>1, <4>4, <4>5
    <3> QED
      BY <1>4, <3>1, <3>2 DEF ReadRecord
  <2>2. SideTypes'
    BY <1>4, <2>1 DEF ReadRecord, Types, SideTypes
  <2> QED
    BY <1>4, <2>2 DEF ReadRecord, Types, LinkTypes, GattTypes, AirTypes, PeerTypes, StoreTypes,
                ValueTypes, connVars, gattVars, attVars, peerVars
<1>5. CASE WriteRecord
  <2> USE <1>5 DEF WriteRecord
  <2>1. app \in Apps /\ app.chr \in Chars /\ app.rec \in Recs /\ app.idx + 1 \in Nat
    BY <1>0 DEF Types, SideTypes, GoodApp, Apps
  <2>2. GoodApp(app')
    <3>1. app' = [app EXCEPT !.pc = "records", !.idx = app.idx + 1, !.rec = None]
      OBVIOUS
    <3> QED
      BY <2>1, <3>1 DEF GoodApp, Apps
  <2>3. [app.rec EXCEPT !.changed = TRUE] \in Recs
    BY <2>1 DEF Recs
  <2>4. StoreTypes'
    BY <2>3, PutTypes DEF Types, StoreTypes
  <2>5. SideTypes'
    BY <2>2 DEF Types, SideTypes
  <2> QED
    BY <2>4, <2>5 DEF Types, LinkTypes, GattTypes, AirTypes, PeerTypes, ValueTypes,
                connVars, gattVars, attVars, peerVars
<1> QED
  BY <1>1, <1>2, <1>3, <1>4, <1>5 DEF AppNext

(* The subscription that is changed *)
LEMMA CccdUpdate ==
  ASSUME GattTypes, NEW p \in Peers, NEW c \in Chars, NEW cfg \in Cfgs,
         cccd' = [cccd EXCEPT ![p][c] = cfg]
  PROVE  cccd' \in [Peers -> [Chars -> Cfgs]]
<1>1. cccd \in [Peers -> [Chars -> Cfgs]]
  BY DEF GattTypes
<1>2. [cccd[p] EXCEPT ![c] = cfg] \in [Chars -> Cfgs]
  BY <1>1
<1>3. cccd' = [cccd EXCEPT ![p] = [cccd[p] EXCEPT ![c] = cfg]]
  BY <1>1
<1> QED
  BY <1>1, <1>2, <1>3

LEMMA Unmodified ==
  ASSUME GattTypes, NEW p \in Peers, NEW c \in Chars, cccd' = [cccd EXCEPT ![p][c].mod = FALSE]
  PROVE  /\ cccd' \in [Peers -> [Chars -> Cfgs]]
         /\ cccd' = [cccd EXCEPT ![p][c] = [cccd[p][c] EXCEPT !.mod = FALSE]]
<1> DEFINE q == cccd[p][c]
           r == [q EXCEPT !.mod = FALSE]
<1>1. cccd \in [Peers -> [Chars -> Cfgs]] /\ q \in Cfgs
  BY DEF GattTypes
<1>2. r \in Cfgs
  <2> HIDE DEF q
  <2> QED
    BY <1>1 DEF Cfgs
<1>3. cccd' = [cccd EXCEPT ![p][c] = r]
  BY <1>1
<1> HIDE DEF r
<1>4. cccd' \in [Peers -> [Chars -> Cfgs]]
  BY <1>2, <1>3, CccdUpdate
<1> QED
  BY <1>3, <1>4 DEF r

LEMMA PromiseReset ==
  ASSUME ValueTypes, NEW p \in Peers, NEW c \in Chars, value' = value,
         promised' = [promised EXCEPT ![p][c] = NoPromise]
  PROVE  ValueTypes'
<1>1. /\ promised \in [Peers -> [Chars -> [val : Vals, kept : BOOLEAN]]]
      /\ \A q \in Peers, d \in Chars : promised[q][d].val <= value[d]
      /\ value \in [Chars -> Vals]
  BY DEF ValueTypes
<1>2. [promised[p] EXCEPT ![c] = NoPromise] \in [Chars -> [val : Vals, kept : BOOLEAN]]
  BY <1>1, Constant
<1>3. promised' = [promised EXCEPT ![p] = [promised[p] EXCEPT ![c] = NoPromise]]
  BY <1>1
<1>4. promised' \in [Peers -> [Chars -> [val : Vals, kept : BOOLEAN]]]
  BY <1>1, <1>2, <1>3
<1>5. \A d \in Chars : 0 <= value[d]
  BY <1>1 DEF Vals
<1>6. \A q \in Peers, d \in Chars : promised'[q][d].val <= value[d]
  <2> TAKE q \in Peers, d \in Chars
  <2>1. promised'[q][d] = IF q = p /\ d = c THEN NoPromise ELSE promised[q][d]
    BY <1>1, <1>3
  <2> QED
    BY <1>1, <1>5, <2>1, Constant
<1> QED
  BY <1>1, <1>4, <1>6 DEF ValueTypes

LEMMA HostSendsKeepTypes ==
  ASSUME Types, TxNotifications \/ TxOne \/ TxDone \/ SendNextIndicate
  PROVE  Types'
<1>1. UNCHANGED <<conn, paired, bonded, expired, waiting, procs, busy, txq, air, back, seen,
                  silent, app, store, value, promised>>
  BY DEF TxNotifications, TxOne, TxDone, SendNextIndicate, Stay, connVars, gattVars, attVars, peerVars
<1>2. LinkTypes' /\ AirTypes' /\ PeerTypes' /\ StoreTypes' /\ ValueTypes'
  BY <1>1 DEF Types, LinkTypes, AirTypes, PeerTypes, StoreTypes, ValueTypes
<1>3. "host" \in Actors
  BY DEF Actors
<1>4. CASE TxNotifications
  <2>1. GattTypes'
    BY <1>1, <1>4 DEF TxNotifications, gattVars, Types, GattTypes
  <2>2. SideTypes'
    BY <1>1, <1>4, HostTypes DEF TxNotifications, Types, SideTypes
  <2> QED
    BY <1>2, <2>1, <2>2 DEF Types
<1>5. CASE TxOne
  <2>1. PICK x \in host.left :
          /\ host' = [host EXCEPT !.left = @ \ {x}]
          /\ \/ /\ cccd' = [cccd EXCEPT ![x[1]][x[2]].mod = FALSE]
                /\ send' = [send EXCEPT !["host"] = Sending(cccd[x[1]][x[2]].sub, x[1], x[2])]
                /\ Due(x[1], cccd[x[1]][x[2]])
             \/ UNCHANGED <<cccd, send>>
    BY <1>5 DEF TxOne
  <2>2. host \in Hosts
    BY DEF Types, SideTypes, GoodHost
  <2>3. x[1] \in Peers /\ x[2] \in Chars
    BY <2>2 DEF Hosts, Pairs
  <2>4. host' \in Hosts /\ host'.pc = "tx"
    BY <1>5, <2>1, <2>2 DEF Hosts, TxOne, HostStep
  <2>5. GoodHost(host')
    BY <2>4 DEF GoodHost
  <2>6. CASE UNCHANGED <<cccd, send>>
    BY <1>1, <1>2, <1>5, <2>5, <2>6 DEF TxOne, Types, SideTypes, GattTypes
  <2>7. CASE /\ cccd' = [cccd EXCEPT ![x[1]][x[2]].mod = FALSE]
             /\ send' = [send EXCEPT !["host"] = Sending(cccd[x[1]][x[2]].sub, x[1], x[2])]
             /\ Due(x[1], cccd[x[1]][x[2]])
    <3>1. cccd[x[1]][x[2]].sub \in Kinds
      BY <2>7, SMTT(60) DEF Due, Kinds
    <3>2. SideTypes'
      BY <1>1, <1>3, <1>5, <2>3, <2>5, <2>7, <3>1, SendTypes, SendUpdate, Zenon DEF TxOne, Types, SideTypes
    <3>3. GattTypes'
      BY <1>1, <2>3, <2>7, Unmodified DEF Types, GattTypes
    <3> QED
      BY <1>2, <3>2, <3>3 DEF Types
  <2> QED
    BY <2>1, <2>6, <2>7, SMTT(60)
<1>6. CASE TxDone
  <2>1. GattTypes'
    BY <1>1, <1>6 DEF TxDone, gattVars, Types, GattTypes
  <2>2. SideTypes'
    BY <1>1, <1>6, HostTypes DEF TxDone, Types, SideTypes
  <2> QED
    BY <1>2, <2>1, <2>2 DEF Types
<1>7. CASE SendNextIndicate
  <2>1. host.pc = "next" /\ host' = HostAt("idle") /\ event' = event
    BY <1>7 DEF SendNextIndicate, HostStep
  <2>2. host.peer \in Peers
    BY <2>1 DEF Types, SideTypes, GoodHost
  <2>3. \/ UNCHANGED <<cccd, send>>
        \/ \E c \in Chars :
             /\ cccd' = [cccd EXCEPT ![host.peer][c].mod = FALSE]
             /\ send' = [send EXCEPT !["host"] = Sending("indicate", host.peer, c)]
    BY <1>7 DEF SendNextIndicate
  <2>4. CASE UNCHANGED <<cccd, send>>
    BY <1>1, <1>2, <2>1, <2>4, HostTypes DEF Types, SideTypes, GattTypes
  <2>5. CASE \E c \in Chars :
             /\ cccd' = [cccd EXCEPT ![host.peer][c].mod = FALSE]
             /\ send' = [send EXCEPT !["host"] = Sending("indicate", host.peer, c)]
    <3>1. PICK c \in Chars :
             /\ cccd' = [cccd EXCEPT ![host.peer][c].mod = FALSE]
             /\ send' = [send EXCEPT !["host"] = Sending("indicate", host.peer, c)]
      BY <2>5
    <3>2. "indicate" \in Kinds
      BY DEF Kinds
    <3>3. SideTypes'
      BY <1>1, <1>3, <2>1, <2>2, <3>1, <3>2, HostTypes, SendTypes, SendUpdate DEF Types, SideTypes
    <3>4. GattTypes'
      BY <1>1, <2>2, <3>1, Unmodified DEF Types, GattTypes
    <3> QED
      BY <1>2, <3>3, <3>4 DEF Types
  <2> QED
    BY <2>3, <2>4, <2>5
<1> QED
  BY <1>4, <1>5, <1>6, <1>7, SMTT(60)

LEMMA ReceiveKeepsTypes ==
  ASSUME Types, HostReceives \/ Persist \/ Expire
  PROVE  Types'
<1>1. ASSUME NEW p \in Peers, Confirmation(p) PROVE Types'
  <2>1. UNCHANGED <<conn, paired, bonded, expired, cccd, seen, silent, event, send, app, store, value, promised>>
    BY <1>1 DEF Confirmation, connVars
  <2>2. LinkTypes' /\ StoreTypes' /\ ValueTypes'
    BY <2>1 DEF Types, LinkTypes, StoreTypes, ValueTypes
  <2>3. PeerTypes'
    <3>1. back[p] \in Seq(Backs) /\ back[p] # <<>>
      BY <1>1 DEF Confirmation, Incoming, Types, PeerTypes
    <3>2. Tail(back[p]) \in Seq(Backs) /\ back' = [back EXCEPT ![p] = Tail(@)]
      BY <1>1, <3>1 DEF Confirmation
    <3> QED
      BY <2>1, <3>2 DEF Types, PeerTypes
  <2>4. AirTypes'
    BY <1>1, OutstandingTypes DEF Confirmation, Types
  <2>5. CASE UNCHANGED <<waiting, procs, host>>
    BY <2>1, <2>2, <2>3, <2>4, <2>5 DEF Types, GattTypes, SideTypes
  <2>6. CASE procs[p] # <<>> /\ procs' = [procs EXCEPT ![p] = Tail(@)]
    <3> DEFINE c == Head(procs[p])
               r == IF p \in bonded /\ ~cccd[p][c].mod THEN Record(p, c, cccd[p][c], FALSE) ELSE None
    <3>1. procs[p] \in Seq(Chars)
      BY DEF Types, GattTypes
    <3>2. c \in Chars /\ Tail(procs[p]) \in Seq(Chars)
      BY <2>6, <3>1
    <3>3. cccd[p][c] \in Cfgs
      BY <3>2 DEF Types, GattTypes
    <3>4. r \in Recs \cup {None}
      BY <3>2, <3>3, RecordTypes
    <3>5. \/ UNCHANGED <<waiting, host>>
          \/ /\ waiting' = [waiting EXCEPT ![p] = 0]
             /\ host' = [HostAt("persist") EXCEPT !.peer = p, !.rec = r]
      BY <1>1, <2>6 DEF Confirmation
    <3> HIDE DEF r
    <3>6. GoodHost(host')
      BY <3>4, <3>5, HostTypes DEF Types, SideTypes
    <3>7. GattTypes'
      BY <2>1, <2>6, <3>2, <3>5 DEF Types, GattTypes
    <3>8. SideTypes'
      BY <2>1, <3>6 DEF Types, SideTypes
    <3> QED
      BY <2>2, <2>3, <2>4, <3>7, <3>8 DEF Types
  <2> QED
    BY <1>1, <2>5, <2>6 DEF Confirmation
<1>2. ASSUME NEW p \in Peers, CccdWrite(p) PROVE Types'
  <2> DEFINE m == Head(back[p])
             new == [sub |-> m.sub, mod |-> FALSE]
  <2>1. UNCHANGED <<conn, paired, bonded, expired, waiting, procs, busy, txq, air, seen, silent,
                    event, send, app, store, value>>
    BY <1>2 DEF CccdWrite, connVars, attVars
  <2>2. LinkTypes' /\ AirTypes' /\ StoreTypes'
    BY <2>1 DEF Types, LinkTypes, AirTypes, StoreTypes
  <2>3. back[p] \in Seq(Backs) /\ back[p] # <<>> /\ m.op = "cccd"
    BY <1>2 DEF CccdWrite, Incoming, Types, PeerTypes
  <2>4. m \in Backs /\ Tail(back[p]) \in Seq(Backs)
    BY <2>3
  <2>5. m.chr \in Chars /\ m.sub \in Subs
    BY <2>3, <2>4 DEF Backs
  <2>6. PeerTypes'
    BY <1>2, <2>1, <2>4 DEF CccdWrite, Types, PeerTypes
  <2>7. new \in Cfgs
    BY <2>5 DEF Cfgs
  <2>8. /\ cccd' = [cccd EXCEPT ![p][m.chr] = new]
        /\ promised' \in {promised, [promised EXCEPT ![p][m.chr] = NoPromise]}
        /\ host' \in {[HostAt("persist") EXCEPT !.rec = Record(p, m.chr, new, FALSE)], HostAt("idle")}
    BY <1>2 DEF CccdWrite
  <2> HIDE DEF new, m
  <2>9. GattTypes'
    BY <2>1, <2>5, <2>7, <2>8, CccdUpdate DEF Types, GattTypes
  <2>10. ValueTypes'
    <3>1. CASE promised' = promised
      BY <2>1, <3>1 DEF Types, ValueTypes
    <3>2. CASE promised' = [promised EXCEPT ![p][m.chr] = NoPromise]
      BY <2>1, <2>5, <3>2, PromiseReset DEF Types
    <3> QED
      BY <2>8, <3>1, <3>2
  <2>11. SideTypes'
    <3>1. Record(p, m.chr, new, FALSE) \in Recs
      BY <2>5, <2>7, RecordTypes
    <3>2. GoodHost(host')
      BY <2>8, <3>1, HostTypes
    <3> QED
      BY <2>1, <3>2 DEF Types, SideTypes
  <2> QED
    BY <2>2, <2>6, <2>9, <2>10, <2>11 DEF Types
<1>3. CASE Persist
  <2>1. UNCHANGED <<conn, paired, bonded, expired, cccd, waiting, procs, busy, txq, air, back, seen,
                    silent, event, send, app, value, promised>>
    BY <1>3 DEF Persist, Stay, connVars, gattVars, attVars, peerVars
  <2>2. host \in Hosts /\ GoodHost(host)
    BY DEF Types, SideTypes, GoodHost
  <2>3. host.peer \in Peers \cup {None} /\ host.rec \in Recs \cup {None}
    BY <2>2 DEF Hosts
  <2>4. StoreTypes'
    <3>1. CASE store' = store
      BY <3>1 DEF Types, StoreTypes
    <3>2. CASE store' = Without(store, host.rec)
      BY <3>2, WithoutTypes DEF Types, StoreTypes
    <3>3. CASE host.rec # None /\ store' = Put(store, host.rec)
      BY <2>3, <3>3, PutTypes DEF Types, StoreTypes
    <3> QED
      BY <1>3, <3>1, <3>2, <3>3 DEF Persist
  <2>5. GoodHost(host')
    BY <1>3, <2>3, HostTypes DEF Persist
  <2> QED
    BY <2>1, <2>4, <2>5 DEF Types, LinkTypes, GattTypes, AirTypes, PeerTypes, SideTypes, ValueTypes
<1>4. CASE Expire
  <2>0. PICK p \in Peers : \E i \in DOMAIN procs[p] :
          /\ procs' = [procs EXCEPT ![p] = RemoveAt(@, i)]
          /\ expired' = IF conn[p] = "up" THEN expired \cup {p} ELSE expired
    BY <1>4 DEF Expire
  <2>1. PICK i \in DOMAIN procs[p] :
          /\ procs' = [procs EXCEPT ![p] = RemoveAt(@, i)]
          /\ expired' = IF conn[p] = "up" THEN expired \cup {p} ELSE expired
    BY <2>0
  <2>2. procs[p] \in Seq(Chars)
    BY DEF Types, GattTypes
  <2>3. RemoveAt(procs[p], i) \in Seq(Chars)
    BY <2>2, Removal
  <2>4. GattTypes'
    BY <1>4, <2>1, <2>3 DEF Expire, Types, GattTypes
  <2>5. LinkTypes'
    BY <1>4, <2>1 DEF Expire, Types, LinkTypes
  <2> QED
    BY <1>4, <2>4, <2>5 DEF Expire, Types, AirTypes, PeerTypes, SideTypes, StoreTypes, ValueTypes,
                            attVars, peerVars, sideVars
<1> QED
  BY <1>1, <1>2, <1>3, <1>4 DEF HostReceives

LEMMA LinkKeepsTypes ==
  ASSUME Types, Link \/ Delete
  PROVE  Types'
<1>0. ASSUME NEW p, NoMessages(p)
      PROVE  /\ air' \in [Peers -> Seq(Msgs)] /\ txq' \in [Peers -> Seq(Msgs)]
             /\ back' \in [Peers -> Seq(Backs)]
  <2>1. <<>> \in Seq(Msgs) /\ <<>> \in Seq(Backs)
    OBVIOUS
  <2> QED
    BY <1>0, <2>1 DEF NoMessages, Types, AirTypes, PeerTypes
<1>1. ASSUME NEW p \in Peers, Break(p) PROVE Types'
  <2> USE <1>1 DEF Break
  <2>1. LinkTypes'
    BY DEF Types, LinkTypes
  <2>2. GattTypes'
    <3>1. <<>> \in Seq(Chars)
      OBVIOUS
    <3> QED
      BY <3>1 DEF Types, GattTypes
  <2>3. AirTypes' /\ PeerTypes'
    BY <1>0 DEF Types, AirTypes, PeerTypes
  <2>4. SideTypes'
    BY HostTypes DEF Types, SideTypes
  <2> QED
    BY <2>1, <2>2, <2>3, <2>4 DEF Types, StoreTypes, ValueTypes
<1>2. CASE Delete
  <2> USE <1>2 DEF Delete
  <2>1. LinkTypes'
    BY DEF Types, LinkTypes
  <2>2. GattTypes'
    BY Constant DEF Types, GattTypes
  <2>3. AirTypes' /\ PeerTypes'
    BY <1>0 DEF Types, AirTypes, PeerTypes
  <2>4. SideTypes'
    BY HostTypes DEF Types, SideTypes
  <2>5. ValueTypes'
    <3> DEFINE p == host.peer
               new == [c \in Chars |-> IF promised[p][c].kept THEN promised[p][c] ELSE NoPromise]
    <3>0. p \in Peers
      BY DEF HostStep, Types, SideTypes, GoodHost
    <3> HIDE DEF p
    <3>1. /\ promised \in [Peers -> [Chars -> [val : Vals, kept : BOOLEAN]]]
          /\ \A q \in Peers, d \in Chars : promised[q][d].val <= value[d]
          /\ value \in [Chars -> Vals] /\ value' = value
      BY DEF Types, ValueTypes
    <3>2. promised' = [promised EXCEPT ![p] = new]
      BY <3>0, <3>1 DEF p
    <3>3. \A c \in Chars : new[c] \in {promised[p][c], NoPromise}
      OBVIOUS
    <3>4. new \in [Chars -> [val : Vals, kept : BOOLEAN]]
      BY <3>0, <3>1, <3>3, Constant
    <3>5. \A c \in Chars : new[c].val <= value[c]
      <4>1. \A c \in Chars : 0 <= value[c]
        BY <3>1 DEF Vals
      <4> QED
        BY <3>0, <3>1, <3>3, <4>1, Constant
    <3> HIDE DEF new
    <3>6. promised' \in [Peers -> [Chars -> [val : Vals, kept : BOOLEAN]]]
      BY <3>1, <3>2, <3>4
    <3>7. \A q \in Peers, d \in Chars : promised'[q][d].val <= value[d]
      BY <3>0, <3>1, <3>2, <3>5
    <3> QED
      BY <3>1, <3>6, <3>7 DEF ValueTypes
  <2> QED
    BY <2>1, <2>2, <2>3, <2>4, <2>5 DEF Types, StoreTypes
<1>3. ASSUME NEW p \in Peers, Connect(p) PROVE Types'
  BY <1>3 DEF Connect, Types, LinkTypes, GattTypes, AirTypes, PeerTypes, SideTypes, StoreTypes,
              ValueTypes, gattVars, attVars, peerVars, sideVars
<1>4. ASSUME NEW p \in Peers, Pair(p) PROVE Types'
  <2>1. SideTypes'
    BY <1>4, HostTypes DEF Pair, Types, SideTypes
  <2>2. LinkTypes'
    BY <1>4 DEF Pair, Types, LinkTypes
  <2> QED
    BY <1>4, <2>1, <2>2 DEF Pair, Types, GattTypes, AirTypes, PeerTypes, StoreTypes, ValueTypes,
              gattVars, attVars, peerVars
<1>5. ASSUME NEW p \in Peers, Encrypt(p) PROVE Types'
  <2>1. SideTypes'
    BY <1>5, HostTypes DEF Encrypt, Types, SideTypes
  <2>2. LinkTypes'
    BY <1>5 DEF Encrypt, Types, LinkTypes
  <2> QED
    BY <1>5, <2>1, <2>2 DEF Encrypt, Types, GattTypes, AirTypes, PeerTypes, StoreTypes, ValueTypes,
              gattVars, attVars, peerVars
<1> QED
  BY <1>1, <1>2, <1>3, <1>4, <1>5 DEF Link

(* The walks over the CCCDs of a new bond, and over the records of an old one *)
LEMMA RestoreKeepsTypes ==
  ASSUME Types, BondOne \/ BondRecord \/ BondDone \/ RestoreOne \/ RestoredSent \/ RestoreDone
  PROVE  Types'
<1>0. UNCHANGED <<conn, paired, bonded, expired, waiting, procs, busy, txq, air, back, seen,
                  silent, app, event, value>>
  BY Zenon DEF BondOne, BondRecord, BondDone, RestoreOne, RestoredSent, RestoreDone, Stay, connVars,
         gattVars, attVars, peerVars
<1>1. LinkTypes' /\ AirTypes' /\ PeerTypes'
  BY <1>0 DEF Types, LinkTypes, AirTypes, PeerTypes
<1>2. host \in Hosts /\ GoodHost(host)
  BY DEF Types, SideTypes, GoodHost
<1>3. "host" \in Actors
  BY DEF Actors
<1>4. ASSUME UNCHANGED <<cccd, send, promised>>, GoodHost(host'), StoreTypes' PROVE Types'
  BY <1>0, <1>1, <1>4 DEF Types, GattTypes, SideTypes, ValueTypes
<1>5. CASE BondOne
  <2>1. PICK x \in host.left :
          host' = IF cccd[x[1]][x[2]] = NoSub[x[2]] THEN [host EXCEPT !.left = @ \ {x}]
                  ELSE [host EXCEPT !.pc = "record", !.left = @ \ {x},
                                    !.rec = Record(x[1], x[2], cccd[x[1]][x[2]], FALSE)]
    BY <1>5 DEF BondOne
  <2>2. x[1] \in Peers /\ x[2] \in Chars
    BY <1>2 DEF Hosts, Pairs
  <2>3. Record(x[1], x[2], cccd[x[1]][x[2]], FALSE) \in Recs
    BY <2>2, RecordTypes DEF Types, GattTypes
  <2>4. host.peer \in Peers /\ host.pc = "bond"
    BY <1>2, <1>5 DEF BondOne, HostStep, GoodHost
  <2>5. GoodHost(host')
    <3>1. CASE host' = [host EXCEPT !.left = @ \ {x}]
      BY <1>2, <2>4, <3>1 DEF GoodHost, Hosts
    <3>2. CASE host' = [host EXCEPT !.pc = "record", !.left = @ \ {x},
                                    !.rec = Record(x[1], x[2], cccd[x[1]][x[2]], FALSE)]
      BY <1>2, <2>3, <2>4, <3>2 DEF GoodHost, Hosts
    <3> QED
      BY <2>1, <3>1, <3>2
  <2> QED
    BY <1>4, <1>5, <2>5 DEF BondOne, gattVars, Types, StoreTypes
<1>6. CASE BondRecord
  <2>1. host.peer \in Peers /\ host.rec \in Recs
    BY <1>2, <1>6 DEF BondRecord, HostStep, GoodHost
  <2>2. GoodHost(host')
    BY <1>2, <1>6, <2>1 DEF BondRecord, GoodHost, Hosts
  <2>3. StoreTypes'
    BY <1>6, <2>1, PutTypes DEF BondRecord, Types, StoreTypes
  <2> QED
    BY <1>4, <1>6, <2>2, <2>3 DEF BondRecord, gattVars
<1>7. CASE BondDone
  BY <1>4, <1>7, HostTypes DEF BondDone, gattVars, Types, StoreTypes
<1>8. CASE RestoreDone
  BY <1>4, <1>8, HostTypes DEF RestoreDone, gattVars, Types, StoreTypes
<1>9. CASE RestoredSent
  <2>1. host.peer \in Peers /\ host.rec \in Recs /\ host.idx + 1 \in Nat
    BY <1>2, <1>9 DEF RestoredSent, HostStep, GoodHost, Hosts
  <2>2. GoodHost(host')
    <3>1. host' = [host EXCEPT !.pc = "restore", !.idx = host.idx + 1, !.rec = None]
      BY <1>9 DEF RestoredSent
    <3> QED
      BY <1>2, <2>1, <3>1 DEF GoodHost, Hosts
  <2>3. [host.rec EXCEPT !.changed = FALSE] \in Recs
    BY <2>1 DEF Recs
  <2>4. StoreTypes'
    BY <1>9, <2>3, PutTypes DEF RestoredSent, Types, StoreTypes
  <2> QED
    BY <1>4, <1>9, <2>2, <2>4 DEF RestoredSent, gattVars
<1>10. CASE RestoreOne
  <2> DEFINE p == host.peer
  <2>1. PICK i \in OfPeer(p, host.idx) :
          LET r == store[i]
              cfg == Restored(r)
              now == r.changed /\ Due(p, cfg)
          IN /\ cccd' = [cccd EXCEPT ![p][r.chr] = [cfg EXCEPT !.mod = @ /\ ~now]]
             /\ promised' = IF promised[p][r.chr].kept \/ r.sub = cccd[p][r.chr].sub THEN promised
                            ELSE [promised EXCEPT ![p][r.chr] = NoPromise]
             /\ send' = IF now THEN [send EXCEPT !["host"] = Sending(r.sub, p, r.chr)] ELSE send
             /\ host' = IF now /\ r.sub = "notify" THEN [host EXCEPT !.pc = "restored", !.rec = r]
                        ELSE [host EXCEPT !.idx = @ + 1]
    BY <1>10, Zenon DEF RestoreOne
  <2> DEFINE r == store[i]
             cfg == Restored(r)
             now == r.changed /\ Due(p, cfg)
             set == [cfg EXCEPT !.mod = @ /\ ~now]
  <2>2. OfPeer(p, host.idx) \subseteq DOMAIN store
    BY Places
  <2>3. r \in Recs
    BY <2>1, <2>2 DEF Types, StoreTypes
  <2>4. p \in Peers /\ host.pc = "restore" /\ host.idx + 1 \in Nat
    <3>1. host.pc = "restore"
      BY <1>10, Zenon DEF RestoreOne, HostStep
    <3>2. host.idx \in Nat
      BY <1>2 DEF Hosts
    <3> QED
      BY <1>2, <3>1, <3>2, SMTT(60) DEF GoodHost
  <2>5. /\ cccd' = [cccd EXCEPT ![p][r.chr] = set]
        /\ promised' \in {promised, [promised EXCEPT ![p][r.chr] = NoPromise]}
        /\ send' = IF now THEN [send EXCEPT !["host"] = Sending(r.sub, p, r.chr)] ELSE send
        /\ \/ host' = [host EXCEPT !.pc = "restored", !.rec = r]
           \/ host' = [host EXCEPT !.idx = host.idx + 1]
    BY <2>1, SMTT(60)
  <2>6. store' = store
    BY <1>10, Zenon DEF RestoreOne
  <2>7. r.chr \in Chars /\ r.sub \in Subs
    BY <2>3 DEF Recs
  <2>8. cfg \in Cfgs /\ (now => r.sub \in Kinds)
    <3>1. cfg \in Cfgs /\ cfg.sub = r.sub
      BY <2>3 DEF Restored, Recs, Cfgs
    <3>2. now => cfg.sub \in Kinds
      BY DEF Due, Kinds
    <3> QED
      BY <3>1, <3>2
  <2>9. set \in Cfgs
    <3> HIDE DEF cfg
    <3> QED
      BY <2>8 DEF Cfgs
  <2> HIDE DEF p, set, now, cfg, r
  <2>10. GattTypes'
    BY <1>0, <2>4, <2>5, <2>7, <2>9, CccdUpdate DEF Types, GattTypes
  <2>11. ValueTypes'
    <3>1. CASE promised' = promised
      BY <1>0, <3>1 DEF Types, ValueTypes
    <3>2. CASE promised' = [promised EXCEPT ![p][r.chr] = NoPromise]
      BY <1>0, <2>4, <2>7, <3>2, PromiseReset DEF Types
    <3> QED
      BY <2>5, <3>1, <3>2
  <2>12. GoodHost(host')
    <3>0. host.peer \in Peers
      BY <2>4 DEF p
    <3>1. CASE host' = [host EXCEPT !.pc = "restored", !.rec = r]
      BY <1>2, <2>3, <3>0, <3>1 DEF GoodHost, Hosts
    <3>2. CASE host' = [host EXCEPT !.idx = host.idx + 1]
      BY <1>2, <2>4, <3>0, <3>2 DEF GoodHost, Hosts
    <3> QED
      BY <2>5, <3>1, <3>2
  <2>13. send' \in [Actors -> Sends] /\ \A a \in Actors : GoodSend(send'[a])
    <3>1. CASE now
      <4>1. GoodSend(Sending(r.sub, p, r.chr))
        BY <2>4, <2>7, <2>8, <3>1, SendTypes
      <4> QED
        BY <1>3, <2>5, <3>1, <4>1, SendUpdate DEF Types
    <3>2. CASE ~now
      BY <2>5, <3>2 DEF Types, SideTypes
    <3> QED
      BY <3>1, <3>2
  <2>14. SideTypes'
    BY <1>0, <2>12, <2>13 DEF Types, SideTypes
  <2> QED
    BY <1>1, <2>6, <2>10, <2>11, <2>14, SMTT(60) DEF Types, StoreTypes
<1> QED
  BY <1>5, <1>6, <1>7, <1>8, <1>9, <1>10, SMTT(60)

LEMMA PeerKeepsTypes ==
  ASSUME Types, PeerNext
  PROVE  Types'
<1>1. ASSUME NEW p \in Peers, PeerReceives(p) PROVE Types'
  <2> DEFINE m == Head(air[p])
  <2>1. air[p] \in Seq(Msgs) /\ air[p] # <<>> /\ back[p] \in Seq(Backs)
    BY <1>1 DEF PeerReceives, Types, AirTypes, PeerTypes
  <2>2. m \in Msgs /\ Tail(air[p]) \in Seq(Msgs)
    BY <2>1
  <2>3. m.chr \in Chars /\ m.val \in Vals
    BY <2>2 DEF Msgs
  <2>4. [op |-> "confirm"] \in Backs
    BY DEF Backs
  <2>5. Append(back[p], [op |-> "confirm"]) \in Seq(Backs)
    BY <2>1, <2>4
  <2>6. /\ seen' = [seen EXCEPT ![p][m.chr] = m.val]
        /\ \/ back' = [back EXCEPT ![p] = Append(@, [op |-> "confirm"])]
           \/ back' = back
        /\ silent' \in {silent, silent \cup {p}}
        /\ air' = [air EXCEPT ![p] = Tail(@)]
        /\ UNCHANGED <<conn, paired, bonded, expired, cccd, waiting, procs, busy, txq, event, host,
                       send, app, store, value, promised>>
    BY <1>1 DEF PeerReceives, connVars, gattVars, sideVars
  <2> HIDE DEF m
  <2>7. seen' \in [Peers -> [Chars -> Vals]]
    <3>1. seen \in [Peers -> [Chars -> Vals]]
      BY DEF Types, PeerTypes
    <3>2. [seen[p] EXCEPT ![m.chr] = m.val] \in [Chars -> Vals]
      BY <2>3, <3>1
    <3>3. seen' = [seen EXCEPT ![p] = [seen[p] EXCEPT ![m.chr] = m.val]]
      BY <2>6, <3>1
    <3> QED
      BY <3>1, <3>2, <3>3
  <2>8. PeerTypes'
    BY <2>5, <2>6, <2>7 DEF Types, PeerTypes
  <2>9. AirTypes'
    BY <2>2, <2>6 DEF Types, AirTypes
  <2> QED
    BY <2>6, <2>8, <2>9 DEF Types, LinkTypes, GattTypes, SideTypes, StoreTypes, ValueTypes
<1>2. ASSUME NEW p \in Peers, PeerWrites(p) PROVE Types'
  <2>1. PICK c \in Chars, sub \in Subs :
          back' = [back EXCEPT ![p] = Append(@, [op |-> "cccd", chr |-> c, sub |-> sub])]
    BY <1>2 DEF PeerWrites
  <2>2. [op |-> "cccd", chr |-> c, sub |-> sub] \in Backs
    BY DEF Backs
  <2>3. back[p] \in Seq(Backs)
    BY DEF Types, PeerTypes
  <2>4. Append(back[p], [op |-> "cccd", chr |-> c, sub |-> sub]) \in Seq(Backs)
    BY <2>2, <2>3
  <2>5. PeerTypes'
    BY <1>2, <2>1, <2>4 DEF PeerWrites, Types, PeerTypes
  <2> QED
    BY <1>2, <2>5 DEF PeerWrites, Types, LinkTypes, GattTypes, AirTypes, SideTypes, StoreTypes,
                      ValueTypes, connVars, gattVars, attVars, sideVars
<1> QED
  BY <1>1, <1>2 DEF PeerNext

LEMMA InitTypes == Init => Types
<1> SUFFICES ASSUME Init PROVE Types
  OBVIOUS
<1> USE DEF Init
<1>1. <<>> \in Seq(Chars) /\ <<>> \in Seq(Msgs) /\ <<>> \in Seq(Backs) /\ <<>> \in Seq(Recs)
  OBVIOUS
<1>2. LinkTypes /\ GattTypes /\ AirTypes /\ StoreTypes
  BY <1>1, Constant DEF LinkTypes, GattTypes, AirTypes, StoreTypes, Unique
<1>3. PeerTypes
  BY <1>1, Constant DEF PeerTypes
<1>4. SideTypes
  BY HostTypes, AppTypes, SendTypes DEF SideTypes, GoodSend
<1>5. ValueTypes
  <2>1. \A p \in Peers, c \in Chars : promised[p][c].val <= value[c]
    BY Constant
  <2> QED
    BY <2>1, Constant DEF ValueTypes
<1> QED
  BY <1>2, <1>3, <1>4, <1>5 DEF Types

LEMMA NextTypes ==
  ASSUME Types, [Next]_vars
  PROVE  Types'
<1>1. CASE UNCHANGED vars
  BY <1>1 DEF vars, connVars, gattVars, attVars, peerVars, sideVars, Types, LinkTypes, GattTypes,
              AirTypes, PeerTypes, SideTypes, StoreTypes, ValueTypes
<1>2. "app" \in Actors /\ "host" \in Actors
  BY DEF Actors
<1>3. CASE Send("app") \/ Send("host")
  BY <1>2, <1>3, SendKeepsTypes
<1>4. CASE AppNext
  BY <1>4, AppKeepsTypes
<1>5. CASE TxNotifications \/ TxOne \/ TxDone \/ SendNextIndicate
  BY <1>5, HostSendsKeepTypes
<1>6. CASE HostReceives \/ Persist \/ Expire
  BY <1>6, ReceiveKeepsTypes
<1>7. CASE Link \/ Delete
  BY <1>7, LinkKeepsTypes
<1>8. CASE BondOne \/ BondRecord \/ BondDone \/ RestoreOne \/ RestoredSent \/ RestoreDone
  BY <1>8, RestoreKeepsTypes
<1>9. CASE PeerNext
  BY <1>9, PeerKeepsTypes
<1> QED
  BY <1>1, <1>3, <1>4, <1>5, <1>6, <1>7, <1>8, <1>9 DEF Next, HostSteps

(* The types of the connections, the store and the calls in progress, for    *)
(* any interleaving of the application and the host: among them that no      *)
(* peer and characteristic have two records (ble_store_config_write_cccd),   *)
(* and that nobody is promised a value that was not set.                     *)
THEOREM TypeCorrect == Spec => []TypeOK
<1>1. Init => Types
  BY InitTypes
<1>2. Types /\ [Next]_vars => Types'
  BY NextTypes
<1>3. Types => TypeOK
  <2> SUFFICES ASSUME Types PROVE TypeOK
    OBVIOUS
  <2>1. \A a \in Actors : send[a].pc \in {"idle", "read", "tx", "mark", "insert"}
    BY DEF Types, SideTypes, Sends
  <2>2. /\ host.pc \in {"idle", "tx", "restore", "restored", "bond", "record",
                        "persist", "next", "teardown"}
        /\ host.left \subseteq Pairs
    BY DEF Types, SideTypes, GoodHost, Hosts
  <2>3. app.pc \in {"idle", "set", "records", "record"}
    BY DEF Types, SideTypes, GoodApp, Apps
  <2>4. \A i, j \in DOMAIN store :
          i # j => <<store[i].peer, store[i].chr>> # <<store[j].peer, store[j].chr>>
    BY DEF Types, StoreTypes, Unique
  <2>5. event \in BOOLEAN
    BY DEF Types, SideTypes
  <2> QED
    BY <2>1, <2>2, <2>3, <2>4, <2>5
    DEF Types, LinkTypes, GattTypes, AirTypes, PeerTypes, ValueTypes, TypeOK, Cfgs, Vals
<1> QED
  BY <1>1, <1>2, <1>3, PTL DEF Spec
-----------------------------------------------------------------------------
(* An indication that is noted has a procedure *)

HasProcedure(p) ==
  conn[p] = "up" /\ waiting[p] # 0 /\ p \notin expired =>
    \/ waiting[p] \in ToSet(procs[p])
    \/ \E a \in Actors : send[a].pc = "insert" /\ send[a].to = p /\ send[a].chr = waiting[p]

Noted ==
  /\ \A p \in Peers : conn[p] = "down" => waiting[p] = 0
  /\ app.pc = "set" => send["app"].pc = "idle"
  /\ \A p \in Peers : HasProcedure(p)

LEMMA FrameNoted ==
  ASSUME Noted, UNCHANGED <<conn, waiting, procs, expired, send>>,
         app'.pc = "set" => send["app"].pc = "idle"
  PROVE  Noted'
BY DEF Noted, HasProcedure

(* A send that is not between the note and the procedure, before or after *)
LEMMA SendFrameNoted ==
  ASSUME Types, Noted, UNCHANGED <<conn, waiting, procs, expired>>,
         NEW a \in Actors, NEW s, s.pc # "insert", send[a].pc # "insert",
         send' = [send EXCEPT ![a] = s], app'.pc = "set" => send'["app"].pc = "idle"
  PROVE  Noted'
<1>1. \A b \in Actors : send'[b] = IF b = a THEN s ELSE send[b]
  BY DEF Types, SideTypes
<1>2. ASSUME NEW p \in Peers PROVE HasProcedure(p)'
  <2>1. HasProcedure(p)
    BY DEF Noted
  <2>2. \A b \in Actors : send[b].pc = "insert" => b # a
    OBVIOUS
  <2> QED
    BY <1>1, <2>1, <2>2 DEF HasProcedure
<1> QED
  BY <1>2 DEF Noted

LEMMA SendKeepsNoted ==
  ASSUME Types, Noted, NEW a \in Actors, Send(a)
  PROVE  Noted'
<1>0. send \in [Actors -> Sends] /\ "app" \in Actors /\ app' = app
  BY DEF Types, SideTypes, Actors, Send, ReadValue, SendValue, MarkWaiting, InsertProc
<1>1. app'.pc = "set" => send'["app"].pc = "idle"
  <2>1. send[a].pc # "idle"
    BY DEF Send, ReadValue, SendValue, MarkWaiting, InsertProc
  <2>2. a = "app" => app.pc # "set"
    BY <2>1 DEF Noted
  <2>3. \E s : send' = [send EXCEPT ![a] = s]
    <3>1. CASE ReadValue(a)
      <4>1. send' = [send EXCEPT ![a] = [send[a] EXCEPT !.pc = "tx", !.val = value[send[a].chr]]]
        BY <1>0, <3>1 DEF ReadValue
      <4> QED
        BY <4>1
    <3>2. CASE SendValue(a)
      <4>1. CASE send' = [send EXCEPT ![a] = [NoSend EXCEPT !.ok = FALSE]]
        BY <4>1
      <4>2. CASE send' = [send EXCEPT ![a] = IF send[a].op = "notify" THEN NoSend
                                             ELSE [@ EXCEPT !.pc = "mark"]]
        <5>1. send' = [send EXCEPT ![a] = IF send[a].op = "notify" THEN NoSend
                                          ELSE [send[a] EXCEPT !.pc = "mark"]]
          BY <1>0, <4>2
        <5> QED
          BY <5>1
      <4> QED
        BY <3>2, <4>1, <4>2 DEF SendValue
    <3>3. CASE MarkWaiting(a)
      <4>1. send' = [send EXCEPT ![a] = [send[a] EXCEPT !.pc = "insert"]]
        BY <1>0, <3>3 DEF MarkWaiting
      <4> QED
        BY <4>1
    <3>4. CASE InsertProc(a)
      BY <3>4 DEF InsertProc
    <3> QED
      BY <3>1, <3>2, <3>3, <3>4 DEF Send
  <2>4. "app" # a => send'["app"] = send["app"]
    BY <1>0, <2>3
  <2> QED
    BY <1>0, <2>2, <2>4 DEF Noted
<1>2. CASE ReadValue(a)
  <2> DEFINE s == [send[a] EXCEPT !.pc = "tx", !.val = value[send[a].chr]]
  <2>1. send' = [send EXCEPT ![a] = s] /\ send[a].pc = "read"
    BY <1>0, <1>2 DEF ReadValue
  <2>2. send[a] \in Sends
    BY <1>0
  <2>3. s.pc = "tx"
    BY <2>2 DEF Sends
  <2> HIDE DEF s
  <2>4. UNCHANGED <<conn, waiting, procs, expired>>
    BY <1>2 DEF ReadValue, connVars, gattVars
  <2> QED
    BY <1>1, <2>1, <2>3, <2>4, SendFrameNoted
<1>3. CASE SendValue(a)
  <2>1. UNCHANGED <<conn, waiting, procs, expired>> /\ send[a].pc = "tx"
    BY <1>3 DEF SendValue, connVars, gattVars
  <2>2. CASE send' = [send EXCEPT ![a] = [NoSend EXCEPT !.ok = FALSE]]
    <3> DEFINE s == [NoSend EXCEPT !.ok = FALSE]
    <3>1. s.pc = "idle"
      BY DEF NoSend
    <3> HIDE DEF s
    <3>2. send' = [send EXCEPT ![a] = s]
      BY <2>2 DEF s
    <3> QED
      BY <1>1, <2>1, <3>1, <3>2, SendFrameNoted
  <2>3. CASE send' = [send EXCEPT ![a] = IF send[a].op = "notify" THEN NoSend
                                         ELSE [@ EXCEPT !.pc = "mark"]]
    <3> DEFINE s == IF send[a].op = "notify" THEN NoSend ELSE [send[a] EXCEPT !.pc = "mark"]
    <3>1. send[a] \in Sends
      BY <1>0
    <3>2. s.pc # "insert"
      BY <3>1 DEF NoSend, Sends
    <3> HIDE DEF s
    <3>3. send' = [send EXCEPT ![a] = s]
      BY <1>0, <2>3 DEF s
    <3> QED
      BY <1>1, <2>1, <3>2, <3>3, SendFrameNoted
  <2> QED
    BY <1>3, <2>2, <2>3 DEF SendValue
<1>4. CASE MarkWaiting(a)
  <2> DEFINE q == send[a].to
             s == [send[a] EXCEPT !.pc = "insert"]
  <2>1. send[a].pc = "mark" /\ UNCHANGED <<conn, procs, expired>>
    BY <1>4 DEF MarkWaiting, connVars
  <2>2. send[a] \in Sends /\ q \in Peers
    BY <1>0, <2>1 DEF Types, SideTypes, GoodSend
  <2>3. send' = [send EXCEPT ![a] = s]
    BY <1>0, <1>4 DEF MarkWaiting
  <2>4. s.pc = "insert" /\ s.to = q /\ s.chr = send[a].chr
    BY <2>2 DEF Sends
  <2>5. send'[a] = s /\ \A b \in Actors : b # a => send'[b] = send[b]
    BY <1>0, <2>3
  <2>6. \A p \in Peers : waiting'[p] = IF p = q /\ conn[q] # "down" THEN send[a].chr ELSE waiting[p]
    BY <1>4, <2>2 DEF MarkWaiting, Types, GattTypes
  <2> HIDE DEF s, q
  <2>7. ASSUME NEW p \in Peers PROVE HasProcedure(p)'
    <3>1. CASE p = q /\ conn[q] # "down"
      BY <2>4, <2>5, <2>6, <3>1 DEF HasProcedure
    <3>2. CASE ~(p = q /\ conn[q] # "down")
      <4>1. HasProcedure(p) /\ waiting'[p] = waiting[p]
        BY <2>6, <3>2 DEF Noted
      <4>2. \A b \in Actors : send[b].pc = "insert" => b # a
        BY <2>1
      <4> QED
        BY <2>1, <2>5, <4>1, <4>2 DEF HasProcedure
    <3> QED
      BY <3>1, <3>2
  <2>8. ASSUME NEW p \in Peers, conn'[p] = "down" PROVE waiting'[p] = 0
    BY <2>1, <2>6, <2>8 DEF Noted
  <2> QED
    BY <1>1, <2>7, <2>8 DEF Noted
<1>5. CASE InsertProc(a)
  <2> DEFINE q == send[a].to
             c == send[a].chr
  <2>1. /\ send[a].pc = "insert" /\ UNCHANGED <<conn, waiting, expired>>
        /\ procs' = [procs EXCEPT ![q] = Append(@, c)] /\ send' = [send EXCEPT ![a] = NoSend]
    BY <1>5 DEF InsertProc, connVars
  <2>2. q \in Peers /\ c \in Chars
    BY <1>0, <2>1 DEF Types, SideTypes, GoodSend
  <2>3. procs \in [Peers -> Seq(Chars)] /\ procs[q] \in Seq(Chars)
    BY <2>2 DEF Types, GattTypes
  <2>4. ToSet(Append(procs[q], c)) = ToSet(procs[q]) \cup {c}
    BY <2>2, <2>3, AppendKeeps
  <2>5. \A p \in Peers : ToSet(procs'[p]) = IF p = q THEN ToSet(procs[p]) \cup {c} ELSE ToSet(procs[p])
    BY <2>1, <2>2, <2>3, <2>4
  <2>6. \A b \in Actors : b # a => send'[b] = send[b]
    BY <1>0, <2>1
  <2> HIDE DEF q, c
  <2>7. ASSUME NEW p \in Peers PROVE HasProcedure(p)'
    <3>1. HasProcedure(p)
      BY DEF Noted
    <3>5. /\ waiting'[p] = waiting[p]
          /\ ToSet(procs'[p]) = IF p = q THEN ToSet(procs[p]) \cup {c} ELSE ToSet(procs[p])
      BY <2>1, <2>5
    <3>2. CASE \E b \in Actors : b # a /\ send[b].pc = "insert" /\ send[b].to = p /\ send[b].chr = waiting[p]
      BY <2>1, <2>6, <3>2 DEF HasProcedure
    <3>3. CASE q = p /\ c = waiting[p]
      <4>1. waiting'[p] \in ToSet(procs'[p])
        BY <3>3, <3>5
      <4> QED
        BY <4>1 DEF HasProcedure
    <3>4. CASE waiting[p] \in ToSet(procs[p])
      <4>1. waiting'[p] \in ToSet(procs'[p])
        BY <3>4, <3>5
      <4> QED
        BY <4>1 DEF HasProcedure
    <3>6. CASE ~(conn[p] = "up" /\ waiting[p] # 0 /\ p \notin expired)
      BY <2>1, <3>5, <3>6 DEF HasProcedure
    <3>7. (\E b \in Actors : b = a /\ send[b].pc = "insert" /\ send[b].to = p /\ send[b].chr = waiting[p])
            => q = p /\ c = waiting[p]
      BY DEF q, c
    <3> QED
      BY <3>1, <3>2, <3>3, <3>4, <3>6, <3>7 DEF HasProcedure
  <2> QED
    BY <1>1, <2>1, <2>7 DEF Noted
<1> QED
  BY <1>2, <1>3, <1>4, <1>5 DEF Send

LEMMA AppKeepsNoted ==
  ASSUME Types, Noted, AppNext
  PROVE  Noted'
<1>0. UNCHANGED <<conn, waiting, procs, expired>> /\ "app" \in Actors
  BY DEF AppNext, setValue, SendToOne, ChrUpdated, ReadRecord, WriteRecord, connVars, gattVars, Actors
<1>1. CASE SendToOne
  <2>1. PICK p \in Peers, op \in Kinds : send' = [send EXCEPT !["app"] = Sending(op, p, app.chr)]
    BY <1>1 DEF SendToOne
  <2>2. app.pc = "set" /\ app' = AppAt("idle")
    BY <1>1 DEF SendToOne
  <2>3. app.chr \in Chars /\ send["app"].pc = "idle"
    BY <2>2 DEF Types, SideTypes, GoodApp, Noted
  <2> DEFINE s == Sending(op, p, app.chr)
  <2>4. s.pc = "read"
    BY <2>3, SendTypes
  <2>5. app'.pc # "set"
    BY <2>2, AppTypes
  <2> HIDE DEF s
  <2>6. send' = [send EXCEPT !["app"] = s]
    BY <2>1 DEF s
  <2> QED
    BY <1>0, <2>3, <2>4, <2>5, <2>6, SendFrameNoted
<1>2. ASSUME NEW c \in Chars, setValue(c) PROVE Noted'
  BY <1>0, <1>2, FrameNoted DEF setValue
<1>3. CASE ChrUpdated
  <2>1. app.pc = "set" /\ send' = send
    BY <1>3 DEF ChrUpdated
  <2>2. send["app"].pc = "idle"
    BY <2>1 DEF Noted
  <2> QED
    BY <1>0, <2>1, <2>2, FrameNoted
<1>4. CASE ReadRecord \/ WriteRecord
  <2>1. app'.pc # "set" /\ send' = send
    <3>1. app \in Apps
      BY DEF Types, SideTypes, GoodApp
    <3>2. CASE ReadRecord
      <4>1. CASE app' = AppAt("idle")
        BY <3>2, <4>1, AppTypes DEF ReadRecord
      <4>2. CASE \E i \in OfChr(app.chr, app.idx) : app' = IF store[i].changed THEN [app EXCEPT !.idx = @ + 1]
                    ELSE [app EXCEPT !.pc = "record", !.rec = store[i]]
        <5>1. app.pc = "records" /\ send' = send
          BY <3>2 DEF ReadRecord
        <5>2. app'.pc \in {app.pc, "record"}
          BY <3>1, <4>2 DEF Apps
        <5> QED
          BY <5>1, <5>2
      <4> QED
        BY <3>2, <4>1, <4>2 DEF ReadRecord
    <3>3. CASE WriteRecord
      BY <3>1, <3>3 DEF WriteRecord, Apps
    <3> QED
      BY <1>4, <3>2, <3>3
  <2> QED
    BY <1>0, <2>1, FrameNoted
<1> QED
  BY <1>1, <1>2, <1>3, <1>4, SMTT(60) DEF AppNext

(* The steps of the host that send, and those that only read and write *)
LEMMA HostSendsKeepNoted ==
  ASSUME Types, Noted,
         \/ TxNotifications \/ TxOne \/ TxDone \/ Persist \/ SendNextIndicate
         \/ BondOne \/ BondRecord \/ BondDone \/ RestoreOne \/ RestoredSent \/ RestoreDone
  PROVE  Noted'
<1>0. UNCHANGED <<conn, waiting, procs, expired, app>> /\ "host" \in Actors
  BY Zenon DEF TxNotifications, TxOne, TxDone, Persist, SendNextIndicate, BondOne, BondRecord, BondDone,
         RestoreOne, RestoredSent, RestoreDone, Stay, connVars, gattVars, Actors
<1>1. app'.pc = "set" => send["app"].pc = "idle"
  BY <1>0 DEF Noted
<1>2. ASSUME send' = send PROVE Noted'
  BY <1>0, <1>1, <1>2, FrameNoted
<1>3. ASSUME NEW op \in Kinds, NEW p \in Peers, NEW c \in Chars, send["host"].pc = "idle",
             send' = [send EXCEPT !["host"] = Sending(op, p, c)]
      PROVE  Noted'
  <2> DEFINE s == Sending(op, p, c)
  <2>1. s.pc = "read"
    BY SendTypes
  <2>2. send'["app"] = send["app"]
    BY <1>3 DEF Types, SideTypes
  <2> HIDE DEF s
  <2>3. send' = [send EXCEPT !["host"] = s]
    BY <1>3 DEF s
  <2> QED
    BY <1>0, <1>1, <1>3, <2>1, <2>2, <2>3, SendFrameNoted
<1>4. CASE TxOne
  <2>1. PICK x \in host.left :
          \/ send' = [send EXCEPT !["host"] = Sending(cccd[x[1]][x[2]].sub, x[1], x[2])]
             /\ Due(x[1], cccd[x[1]][x[2]])
          \/ send' = send
    BY <1>4 DEF TxOne
  <2>2. x[1] \in Peers /\ x[2] \in Chars
    BY DEF Types, SideTypes, GoodHost, Hosts, Pairs
  <2>3. Due(x[1], cccd[x[1]][x[2]]) => cccd[x[1]][x[2]].sub \in Kinds
    BY DEF Due, Kinds
  <2> QED
    BY <1>2, <1>3, <1>4, <2>1, <2>2, <2>3 DEF TxOne, HostStep
<1>5. CASE SendNextIndicate
  <2>1. \/ send' = send
        \/ \E c \in Chars : send' = [send EXCEPT !["host"] = Sending("indicate", host.peer, c)]
    BY <1>5 DEF SendNextIndicate
  <2>2. host.peer \in Peers /\ "indicate" \in Kinds /\ send["host"].pc = "idle"
    BY <1>5 DEF SendNextIndicate, HostStep, Types, SideTypes, GoodHost, Kinds
  <2> QED
    BY <1>2, <1>3, <2>1, <2>2
<1>6. CASE RestoreOne
  <2>1. PICK i \in OfPeer(host.peer, host.idx) :
          \/ send' = send
          \/ send' = [send EXCEPT !["host"] = Sending(store[i].sub, host.peer, store[i].chr)]
             /\ Due(host.peer, Restored(store[i]))
    BY <1>6, Zenon DEF RestoreOne
  <2>2. OfPeer(host.peer, host.idx) \subseteq DOMAIN store
    BY Places
  <2>3. store[i] \in Recs
    BY <2>1, <2>2 DEF Types, StoreTypes
  <2>4. store[i].chr \in Chars
    BY <2>3 DEF Recs
  <2>5. Due(host.peer, Restored(store[i])) => store[i].sub \in Kinds
    BY SMTT(60) DEF Due, Restored, Kinds
  <2>6. host.peer \in Peers /\ send["host"].pc = "idle"
    BY <1>6, Zenon DEF RestoreOne, HostStep, Types, SideTypes, GoodHost
  <2> QED
    BY <1>2, <1>3, <2>1, <2>4, <2>5, <2>6, SMTT(60)
<1>7. CASE TxNotifications \/ TxDone \/ Persist \/ BondOne \/ BondRecord \/ BondDone
           \/ RestoredSent \/ RestoreDone
  <2>1. send' = send
    BY <1>7, Zenon DEF TxNotifications, TxDone, Persist, BondOne, BondRecord, BondDone, RestoredSent, RestoreDone
  <2> QED
    BY <1>2, <2>1, SMTT(60)
<1> QED
  BY <1>4, <1>5, <1>6, <1>7, SMTT(60)

LEMMA ReceiveKeepsNoted ==
  ASSUME Types, Noted, HostReceives \/ Expire
  PROVE  Noted'
<1>0. UNCHANGED <<conn, send, app>>
  BY Zenon DEF HostReceives, Confirmation, CccdWrite, Expire, connVars, sideVars
<1>1. app'.pc = "set" => send'["app"].pc = "idle"
  BY <1>0 DEF Noted
<1>2. ASSUME NEW p \in Peers, CccdWrite(p) PROVE Noted'
  BY <1>0, <1>1, <1>2, FrameNoted DEF CccdWrite, connVars
<1>3. ASSUME NEW p \in Peers, Confirmation(p) PROVE Noted'
  <2>0. expired' = expired /\ waiting \in [Peers -> Chars \cup {0}] /\ procs \in [Peers -> Seq(Chars)]
    BY <1>3 DEF Confirmation, connVars, Types, GattTypes
  <2>1. CASE UNCHANGED <<waiting, procs>>
    BY <1>0, <1>1, <2>0, <2>1, FrameNoted
  <2>2. CASE procs[p] # <<>> /\ procs' = [procs EXCEPT ![p] = Tail(@)]
    <3> DEFINE c == Head(procs[p])
    <3>1. ToSet(procs[p]) = {c} \cup ToSet(Tail(procs[p]))
      <4>1. procs[p] \in Seq(Chars)
        BY <2>0
      <4> QED
        BY <2>2, <4>1, TailKeeps
    <3>2. \/ waiting[p] # c /\ waiting' = waiting
          \/ waiting' = [waiting EXCEPT ![p] = 0]
      BY <1>3, <2>2 DEF Confirmation
    <3> HIDE DEF c
    <3>3. \A q \in Peers : q # p => waiting'[q] = waiting[q] /\ procs'[q] = procs[q]
      BY <2>0, <2>2, <3>2
    <3>4. HasProcedure(p)'
      <4>1. procs'[p] = Tail(procs[p])
        BY <2>0, <2>2
      <4>2. HasProcedure(p)
        BY DEF Noted
      <4>3. CASE waiting[p] # c /\ waiting' = waiting
        BY <1>0, <2>0, <3>1, <4>1, <4>2, <4>3 DEF HasProcedure
      <4>4. CASE waiting' = [waiting EXCEPT ![p] = 0]
        BY <2>0, <4>4 DEF HasProcedure
      <4> QED
        BY <3>2, <4>3, <4>4
    <3>5. ASSUME NEW q \in Peers PROVE HasProcedure(q)'
      <4>1. CASE q = p
        BY <3>4, <4>1
      <4>2. CASE q # p
        BY <1>0, <2>0, <3>3, <4>2 DEF Noted, HasProcedure
      <4> QED
        BY <4>1, <4>2
    <3>6. ASSUME NEW q \in Peers, conn'[q] = "down" PROVE waiting'[q] = 0
      BY <1>0, <2>0, <3>2, <3>6 DEF Noted
    <3> QED
      BY <1>1, <3>5, <3>6 DEF Noted
  <2> QED
    BY <1>3, <2>1, <2>2 DEF Confirmation
<1>4. CASE Expire
  <2>0. PICK p \in Peers : \E i \in DOMAIN procs[p] :
          /\ procs' = [procs EXCEPT ![p] = RemoveAt(@, i)]
          /\ expired' = IF conn[p] = "up" THEN expired \cup {p} ELSE expired
    BY <1>4 DEF Expire
  <2>1. waiting' = waiting /\ procs \in [Peers -> Seq(Chars)]
    BY <1>4 DEF Expire, Types, GattTypes
  <2>2. \A q \in Peers : q # p => procs'[q] = procs[q] /\ (q \in expired' <=> q \in expired)
    BY <2>0, <2>1
  <2>3. ASSUME NEW q \in Peers PROVE HasProcedure(q)'
    <3>1. CASE q = p
      BY <1>0, <2>0, <3>1 DEF HasProcedure
    <3>2. CASE q # p
      BY <1>0, <2>1, <2>2, <3>2 DEF Noted, HasProcedure
    <3> QED
      BY <3>1, <3>2
  <2> QED
    BY <1>0, <1>1, <2>1, <2>3 DEF Noted
<1> QED
  BY <1>2, <1>3, <1>4, SMTT(60) DEF HostReceives

LEMMA LinkKeepsNoted ==
  ASSUME Types, Noted, Link \/ Delete
  PROVE  Noted'
<1>0. UNCHANGED <<send, app>>
  BY DEF Link, Break, Connect, Pair, Encrypt, Delete, sideVars
<1>1. app'.pc = "set" => send'["app"].pc = "idle"
  BY <1>0 DEF Noted
<1>2. conn \in [Peers -> {"up", "broken", "down"}]
  BY DEF Types, LinkTypes
<1>3. ASSUME NEW p \in Peers, Break(p) PROVE Noted'
  <2>1. /\ conn' = [conn EXCEPT ![p] = "broken"] /\ waiting' = waiting
        /\ procs' = [procs EXCEPT ![p] = <<>>] /\ expired' = expired \ {p}
    BY <1>3 DEF Break
  <2>2. \A q \in Peers : q # p => procs'[q] = procs[q]
    BY <2>1 DEF Types, GattTypes
  <2>3. ASSUME NEW q \in Peers PROVE HasProcedure(q)' /\ (conn'[q] = "down" => waiting'[q] = 0)
    <3>1. CASE q = p
      BY <1>2, <2>1, <3>1 DEF HasProcedure
    <3>2. CASE q # p
      BY <1>0, <1>2, <2>1, <2>2, <3>2 DEF Noted, HasProcedure
    <3> QED
      BY <3>1, <3>2
  <2> QED
    BY <1>1, <2>3 DEF Noted
<1>4. CASE Delete
  <2> DEFINE p == host.peer
  <2>1. /\ conn' = [conn EXCEPT ![p] = "down"] /\ waiting' = [waiting EXCEPT ![p] = 0]
        /\ UNCHANGED <<procs, expired>>
    BY <1>4 DEF Delete
  <2>2. waiting \in [Peers -> Chars \cup {0}]
    BY DEF Types, GattTypes
  <2> HIDE DEF p
  <2>3. ASSUME NEW q \in Peers PROVE HasProcedure(q)' /\ (conn'[q] = "down" => waiting'[q] = 0)
    <3>1. CASE q = p
      BY <1>2, <2>1, <2>2, <3>1 DEF HasProcedure
    <3>2. CASE q # p
      BY <1>0, <1>2, <2>1, <2>2, <3>2 DEF Noted, HasProcedure
    <3> QED
      BY <3>1, <3>2
  <2> QED
    BY <1>1, <2>3 DEF Noted
<1>5. ASSUME NEW p \in Peers, Connect(p) PROVE Noted'
  <2>1. /\ conn[p] = "down" /\ conn' = [conn EXCEPT ![p] = "up"]
        /\ UNCHANGED <<waiting, procs, expired>>
    BY <1>5 DEF Connect, gattVars
  <2>2. waiting[p] = 0
    BY <2>1 DEF Noted
  <2>3. ASSUME NEW q \in Peers PROVE HasProcedure(q)' /\ (conn'[q] = "down" => waiting'[q] = 0)
    <3>1. CASE q = p
      BY <1>2, <2>1, <2>2, <3>1 DEF HasProcedure
    <3>2. CASE q # p
      BY <1>0, <1>2, <2>1, <3>2 DEF Noted, HasProcedure
    <3> QED
      BY <3>1, <3>2
  <2> QED
    BY <1>1, <2>3 DEF Noted
<1>6. ASSUME NEW p \in Peers, Pair(p) \/ Encrypt(p) PROVE Noted'
  BY <1>0, <1>1, <1>6, FrameNoted DEF Pair, Encrypt, gattVars
<1> QED
  BY <1>3, <1>4, <1>5, <1>6, SMTT(60) DEF Link

LEMMA NextNoted ==
  ASSUME Types, Noted, [Next]_vars
  PROVE  Noted'
<1>0. "app" \in Actors /\ "host" \in Actors
  BY DEF Actors
<1>1. CASE UNCHANGED vars
  BY <1>1 DEF vars, connVars, gattVars, sideVars, Noted, HasProcedure
<1>2. CASE Send("app") \/ Send("host")
  BY <1>0, <1>2, SendKeepsNoted
<1>3. CASE AppNext
  BY <1>3, AppKeepsNoted
<1>4. CASE HostReceives \/ Expire
  BY <1>4, ReceiveKeepsNoted
<1>5. CASE Link \/ Delete
  BY <1>5, LinkKeepsNoted
<1>6. CASE \/ TxNotifications \/ TxOne \/ TxDone \/ Persist \/ SendNextIndicate
           \/ BondOne \/ BondRecord \/ BondDone \/ RestoreOne \/ RestoredSent \/ RestoreDone
  BY <1>6, HostSendsKeepNoted
<1>7. CASE PeerNext
  <2>1. UNCHANGED <<conn, waiting, procs, expired, send, app>>
    BY <1>7 DEF PeerNext, PeerReceives, PeerWrites, connVars, gattVars, sideVars
  <2> QED
    BY <2>1 DEF Noted, HasProcedure
<1> QED
  BY <1>1, <1>2, <1>3, <1>4, <1>5, <1>6, <1>7 DEF Next, HostSteps

(* Whatever the application and the host interleave (ble_gatts_indicate_     *)
(* custom, ble_gatts_rx_indicate_rsp, ble_gatts_connection_broken): an       *)
(* indication that is noted as unconfirmed has a procedure, or is about to   *)
(* get one; no connection is left waiting for a confirmation nobody expects. *)
THEOREM NotedHasProcedure == Spec => []IndicationHasProcedure
<1> DEFINE IInv == Types /\ Noted
<1>1. Init => IInv
  <2>1. Init => Noted
    BY AppTypes DEF Init, Noted, HasProcedure, AppAt
  <2> QED
    BY <2>1, InitTypes
<1>2. IInv /\ [Next]_vars => IInv'
  BY NextTypes, NextNoted
<1>3. IInv => IndicationHasProcedure
  BY DEF Noted, HasProcedure, IndicationHasProcedure
<1> QED
  BY <1>1, <1>2, <1>3, PTL DEF Spec

-----------------------------------------------------------------------------
(* A timeout follows a silence *)

OnTheWay(p) == \E m \in ToSet(back[p]) \cup ToSet(air[p]) : m.op \in {"confirm", "indicate"}
Inserting(p) == \E a \in Actors : send[a].pc \in {"mark", "insert"} /\ send[a].to = p

(* Without preemption one side sends at a time, and nobody during a teardown. *)
Alone ==
  /\ send["app"].pc # "idle" => HostFree
  /\ host.pc = "teardown" => send["host"].pc = "idle" /\ conn[host.peer] = "broken"
  /\ \A p \in Peers : conn[p] = "broken" => host.pc = "teardown" /\ host.peer = p

(* The procedures of a peer that confirms are no more than the indications   *)
(* that are on the air or in the queue.                                      *)
Owed(p) ==
  conn[p] = "up" /\ p \notin silent =>
    /\ busy[p] => OnTheWay(p)
    /\ ~Inserting(p) /\ ~busy[p] => Len(procs[p]) <= Len(txq[p])
    /\ ~Inserting(p) /\ busy[p] => Len(procs[p]) <= Len(txq[p]) + 1
    /\ Inserting(p) => busy[p] /\ Len(procs[p]) <= Len(txq[p])

Even(p) ==
  /\ conn[p] # "up" => procs[p] = <<>> /\ ~Inserting(p)
  /\ conn[p] = "down" => ~busy[p]
  /\ txq[p] # <<>> => busy[p]
  /\ \A m \in ToSet(txq[p]) : m.op = "indicate"
  /\ p \in expired => p \in silent
  /\ Owed(p)

Evens == Alone /\ \A p \in Peers : Even(p)

LEMMA Quietness == \A p : NothingOnTheWay(p) <=> ~OnTheWay(p)
BY DEF NothingOnTheWay, OnTheWay

(* A peer whose connection a step leaves as it is *)
LEMMA FrameEven ==
  ASSUME NEW p, Even(p), conn'[p] = conn[p], procs'[p] = procs[p], busy'[p] = busy[p],
         txq'[p] = txq[p], air'[p] = air[p], back'[p] = back[p],
         p \in silent' <=> p \in silent, p \in expired' <=> p \in expired,
         Inserting(p)' <=> Inserting(p)
  PROVE  Even(p)'
<1>1. OnTheWay(p)' <=> OnTheWay(p)
  BY DEF OnTheWay
<1>2. Owed(p)'
  BY <1>1 DEF Even, Owed
<1> QED
  BY <1>2 DEF Even

(* When the host works on something else, nobody inserts a procedure. *)
LEMMA HostAlone ==
  ASSUME Preempt = FALSE, Evens, NEW pc, HostStep(pc)
  PROVE  /\ send["app"].pc = "idle" /\ send["host"].pc = "idle" /\ host.pc = pc
         /\ \A p : ~Inserting(p)
         /\ pc # "teardown" => \A p \in Peers : conn[p] # "broken"
<1>1. send["app"].pc = "idle" /\ send["host"].pc = "idle" /\ host.pc = pc
  BY DEF HostStep, HostMayRun
<1> QED
  BY <1>1 DEF Inserting, Actors, Evens, Alone

LEMMA HostFrameEven ==
  ASSUME Preempt = FALSE, Evens, NEW pc, pc # "teardown", HostStep(pc),
         UNCHANGED <<conn, procs, busy, txq, air, back, silent, expired>>,
         host'.pc # "teardown", send'["app"] = send["app"],
         send'["host"].pc \notin {"mark", "insert"}
  PROVE  Evens'
<1>1. send["app"].pc = "idle" /\ \A p \in Peers : conn[p] # "broken"
  BY HostAlone
<1>2. \A p : ~Inserting(p)
  BY HostAlone
<1>3. \A p : ~Inserting(p)'
  BY <1>1 DEF Inserting, Actors
<1>4. Alone'
  BY <1>1 DEF Alone
<1>5. ASSUME NEW p \in Peers PROVE Even(p)'
  <2>1. Even(p)
    BY DEF Evens
  <2>2. Inserting(p)' <=> Inserting(p)
    BY <1>2, <1>3
  <2> QED
    BY <2>1, <2>2, FrameEven
<1> QED
  BY <1>4, <1>5 DEF Evens

LEMMA SendKeepsEven ==
  ASSUME Preempt = FALSE, Types, Noted, Evens, NEW a \in Actors, Send(a)
  PROVE  Evens'
<1>0. /\ send \in [Actors -> Sends] /\ send[a] \in Sends /\ "app" \in Actors /\ "host" \in Actors
      /\ UNCHANGED <<conn, host, silent, expired, back>>
  BY DEF Types, SideTypes, Actors, Send, ReadValue, SendValue, MarkWaiting, InsertProc,
         connVars, peerVars
<1>1. MayRun(a) /\ send[a].pc # "idle"
  BY DEF Send, ReadValue, SendValue, MarkWaiting, InsertProc
<1>2. \A b \in Actors : b # a => send[b].pc = "idle"
  BY <1>1 DEF MayRun, AppMayRun, HostMayRun, HostFree, Actors
<1>3. PICK s : send' = [send EXCEPT ![a] = s] /\ (send[a].pc \in {"mark", "insert"} => s.to = send[a].to \/ s = NoSend)
                /\ (ReadValue(a) => s.pc = "tx")
                /\ (MarkWaiting(a) => send[a].pc = "mark" /\ s.pc = "insert" /\ s.to = send[a].to)
                /\ (InsertProc(a) => s = NoSend)
                /\ (SendValue(a) => \/ s.pc = "idle"
                                    \/ /\ send[a].op = "indicate" /\ s.pc = "mark" /\ s.to = send[a].to)
  <2>1. CASE ReadValue(a)
    <3>1. send' = [send EXCEPT ![a] = [send[a] EXCEPT !.pc = "tx", !.val = value[send[a].chr]]]
      BY <1>0, <2>1 DEF ReadValue
    <3>2. send[a].pc = "read"
      BY <2>1 DEF ReadValue
    <3> QED
      BY <1>0, <3>1, <3>2 DEF Sends, MarkWaiting, InsertProc, SendValue
  <2>2. CASE SendValue(a)
    <3>1. send[a].pc = "tx" /\ send[a].op \in Kinds
      BY <1>0, <2>2 DEF SendValue, Sends
    <3>2. CASE send' = [send EXCEPT ![a] = [NoSend EXCEPT !.ok = FALSE]]
      <4>1. [NoSend EXCEPT !.ok = FALSE].pc = "idle"
        BY DEF NoSend
      <4> QED
        BY <3>1, <3>2, <4>1 DEF MarkWaiting, InsertProc, ReadValue
    <3>3. CASE send' = [send EXCEPT ![a] = IF send[a].op = "notify" THEN NoSend
                                           ELSE [@ EXCEPT !.pc = "mark"]]
      <4>1. CASE send[a].op = "notify"
        <5>1. send' = [send EXCEPT ![a] = NoSend] /\ NoSend.pc = "idle"
          BY <3>3, <4>1 DEF NoSend
        <5> QED
          BY <3>1, <5>1 DEF MarkWaiting, InsertProc, ReadValue
      <4>2. CASE send[a].op # "notify"
        <5>1. send' = [send EXCEPT ![a] = [send[a] EXCEPT !.pc = "mark"]]
          BY <1>0, <3>3, <4>2
        <5>2. [send[a] EXCEPT !.pc = "mark"].pc = "mark" /\ [send[a] EXCEPT !.pc = "mark"].to = send[a].to
          BY <1>0 DEF Sends
        <5>3. send[a].op = "indicate"
          BY <3>1, <4>2 DEF Kinds
        <5> QED
          BY <3>1, <5>1, <5>2, <5>3 DEF MarkWaiting, InsertProc, ReadValue
      <4> QED
        BY <4>1, <4>2
    <3> QED
      BY <2>2, <3>2, <3>3 DEF SendValue
  <2>3. CASE MarkWaiting(a)
    <3>1. send' = [send EXCEPT ![a] = [send[a] EXCEPT !.pc = "insert"]] /\ send[a].pc = "mark"
      BY <1>0, <2>3 DEF MarkWaiting
    <3>2. [send[a] EXCEPT !.pc = "insert"].pc = "insert" /\ [send[a] EXCEPT !.pc = "insert"].to = send[a].to
      BY <1>0 DEF Sends
    <3> QED
      BY <3>1, <3>2 DEF SendValue, InsertProc, ReadValue
  <2>4. CASE InsertProc(a)
    BY <2>4 DEF InsertProc, SendValue, MarkWaiting, ReadValue
  <2> QED
    BY <2>1, <2>2, <2>3, <2>4 DEF Send
<1>4. send'[a] = s /\ \A b \in Actors : b # a => send'[b] = send[b]
  BY <1>0, <1>3
<1>5. \A p : Inserting(p) <=> send[a].pc \in {"mark", "insert"} /\ send[a].to = p
  BY <1>2 DEF Inserting
<1>6. \A p : Inserting(p)' <=> s.pc \in {"mark", "insert"} /\ s.to = p
  BY <1>2, <1>4 DEF Inserting
<1>7. Alone'
  <2>1. CASE a = "app"
    <3>1. HostFree
      BY <1>1, <2>1 DEF MayRun, AppMayRun
    <3>2. send'["host"] = send["host"]
      BY <1>0, <1>4, <2>1
    <3> QED
      BY <1>0, <3>1, <3>2 DEF Evens, Alone, HostFree
  <2>2. CASE a = "host"
    <3>1. send'["app"].pc = "idle"
      BY <1>0, <1>2, <1>4, <2>2
    <3>2. host.pc # "teardown"
      BY <1>1, <2>2 DEF Evens, Alone
    <3> QED
      BY <1>0, <3>1, <3>2 DEF Evens, Alone
  <2> QED
    BY <2>1, <2>2 DEF Actors
<1>8. \A p \in Peers : conn[p] # "broken"
  BY <1>1 DEF MayRun, AppMayRun, HostFree, Evens, Alone, Actors
<1>9. send[a].to \in Peers /\ send[a].chr \in Chars
  BY <1>1 DEF Types, SideTypes, GoodSend
<1>q. PICK q \in Peers : q = send[a].to
  BY <1>9
<1>10. ASSUME UNCHANGED <<procs, attVars>>, \A p : Inserting(p)' <=> Inserting(p) PROVE Evens'
  <2>1. ASSUME NEW p \in Peers PROVE Even(p)'
    <3>1. Even(p) /\ (Inserting(p)' <=> Inserting(p))
      BY <1>10 DEF Evens
    <3> QED
      BY <1>0, <1>10, <3>1, FrameEven DEF attVars
  <2> QED
    BY <1>7, <2>1 DEF Evens
<1>11. CASE ReadValue(a)
  <2>1. \A p : Inserting(p)' <=> Inserting(p)
    BY <1>3, <1>5, <1>6, <1>11 DEF ReadValue
  <2> QED
    BY <1>10, <1>11, <2>1 DEF ReadValue, gattVars
<1>12. CASE MarkWaiting(a)
  <2>1. \A p : Inserting(p)' <=> Inserting(p)
    BY <1>3, <1>5, <1>6, <1>12
  <2> QED
    BY <1>10, <1>12, <2>1 DEF MarkWaiting
<1>13. CASE SendValue(a)
  <2>1. procs' = procs /\ \A p : ~Inserting(p)
    BY <1>5, <1>13 DEF SendValue, gattVars
  <2>2. CASE UNCHANGED attVars /\ send' = [send EXCEPT ![a] = [NoSend EXCEPT !.ok = FALSE]]
    <3>1. s.pc = "idle"
      BY <1>0, <1>4, <2>2 DEF NoSend
    <3> QED
      BY <1>6, <1>10, <2>1, <2>2, <3>1
  <2>3. CASE /\ conn[q] # "down" /\ Transmit(q, Message(send[a].op, send[a].chr, send[a].val))
             /\ send' = [send EXCEPT ![a] = IF send[a].op = "notify" THEN NoSend
                                            ELSE [@ EXCEPT !.pc = "mark"]]
    <3>m. PICK m : m = Message(send[a].op, send[a].chr, send[a].val)
      OBVIOUS
    <3>1. conn[q] = "up" /\ m.op = send[a].op
      BY <1>8, <2>3, <3>m DEF Types, LinkTypes, Message
    <3>2. m \in Msgs
      BY <1>0, <1>9, <3>m DEF Message, Msgs, Sends
    <3>3. Transmit(q, m)
      BY <2>3, <3>m
    <3>4. /\ procs[q] \in Seq(Chars) /\ txq[q] \in Seq(Msgs) /\ air[q] \in Seq(Msgs)
          /\ busy \in [Peers -> BOOLEAN] /\ txq \in [Peers -> Seq(Msgs)] /\ air \in [Peers -> Seq(Msgs)]
      BY <1>9 DEF Types, GattTypes, AirTypes
    <3>5. /\ m.op = "notify" => \A p : ~Inserting(p)'
          /\ m.op # "notify" => m.op = "indicate" /\ \A p : Inserting(p)' <=> p = q
      <4>1. CASE m.op = "notify"
        BY <1>3, <1>6, <1>13, <3>1, <4>1
      <4>2. CASE m.op # "notify"
        <5>1. send' = [send EXCEPT ![a] = [send[a] EXCEPT !.pc = "mark"]]
          BY <1>0, <2>3, <3>1, <4>2
        <5>2. s.pc = "mark" /\ s.to = q
          BY <1>0, <1>4, <1>q, <5>1 DEF Sends
        <5>3. m.op = "indicate"
          BY <1>0, <3>1, <4>2 DEF Sends, Kinds
        <5> QED
          BY <1>6, <4>2, <5>2, <5>3
      <4> QED
        BY <4>1, <4>2
    <3>6. \A p \in Peers : p # q => txq'[p] = txq[p] /\ air'[p] = air[p] /\ busy'[p] = busy[p]
      BY <3>3, <3>4 DEF Transmit
    <3>7. Even(q)
      BY DEF Evens
    <3>8. q \in Peers
      OBVIOUS
    <3>9. Even(q)'
      <4>1. CASE m.op = "indicate" /\ busy[q]
        <5>1. txq'[q] = Append(txq[q], m) /\ busy'[q] = busy[q] /\ air'[q] = air[q]
          BY <3>3, <3>4, <3>8, <4>1 DEF Transmit
        <5>2. ToSet(txq'[q]) = ToSet(txq[q]) \cup {m} /\ Len(txq'[q]) = Len(txq[q]) + 1
          <6>1. ToSet(Append(txq[q], m)) = ToSet(txq[q]) \cup {m}
            BY <3>2, <3>4, AppendKeeps
          <6> QED
            BY <3>2, <3>4, <5>1, <6>1
        <5>3. OnTheWay(q)' <=> OnTheWay(q)
          BY <1>0, <5>1 DEF OnTheWay
        <5>4. Inserting(q)' /\ ~Inserting(q)
          BY <2>1, <3>5, <4>1
        <5>5. Owed(q)'
          <6>1. \A i, j \in Nat : i <= j + 1 => i <= j + 1
            OBVIOUS
          <6>2. q \notin silent => Len(procs[q]) <= Len(txq'[q])
            BY <3>1, <3>7, <4>1, <5>2, <5>4 DEF Even, Owed
          <6> QED
            BY <1>0, <2>1, <3>1, <3>7, <4>1, <5>1, <5>3, <5>4, <6>2 DEF Even, Owed
        <5>6. \A x \in ToSet(txq[q])' : x.op = "indicate"
          BY <3>7, <4>1, <5>2 DEF Even
        <5> QED
          BY <1>0, <3>1, <3>7, <4>1, <5>1, <5>5, <5>6 DEF Even
      <4>2. CASE ~(m.op = "indicate" /\ busy[q])
        <5>1. txq' = txq /\ air'[q] = Append(air[q], m) /\ (busy'[q] <=> busy[q] \/ m.op = "indicate")
          BY <3>3, <3>4, <3>8, <4>2 DEF Transmit
        <5>2. ToSet(air'[q]) = ToSet(air[q]) \cup {m}
          <6>1. ToSet(Append(air[q], m)) = ToSet(air[q]) \cup {m}
            BY <3>2, <3>4, AppendKeeps
          <6> QED
            BY <5>1, <6>1
        <5>3. CASE m.op = "notify"
          <6>1. (busy'[q] <=> busy[q]) /\ ~Inserting(q)' /\ ~Inserting(q)
            BY <2>1, <3>5, <5>1, <5>3
          <6>2. OnTheWay(q) => OnTheWay(q)'
            BY <1>0, <5>2 DEF OnTheWay
          <6>3. Owed(q)'
            BY <1>0, <2>1, <3>7, <5>1, <6>1, <6>2 DEF Even, Owed
          <6> QED
            BY <1>0, <2>1, <3>1, <3>7, <5>1, <6>1, <6>3 DEF Even
        <5>4. CASE m.op # "notify"
          <6>1. m.op = "indicate" /\ ~busy[q] /\ busy'[q] /\ Inserting(q)' /\ ~Inserting(q)
            BY <2>1, <3>5, <4>2, <5>1, <5>4
          <6>2. OnTheWay(q)'
            BY <5>2, <6>1 DEF OnTheWay
          <6>3. q \notin silent => Len(procs[q]) <= Len(txq[q])
            BY <3>1, <3>7, <6>1 DEF Even, Owed
          <6>4. Owed(q)'
            BY <1>0, <2>1, <5>1, <6>1, <6>2, <6>3 DEF Owed
          <6> QED
            BY <1>0, <3>1, <3>7, <5>1, <6>1, <6>4 DEF Even
        <5> QED
          BY <5>3, <5>4
      <4> QED
        BY <4>1, <4>2
    <3>10. ASSUME NEW p \in Peers PROVE Even(p)'
      <4>1. CASE p = q
        BY <3>9, <4>1
      <4>2. CASE p # q
        <5>1. Even(p) /\ ~Inserting(p) /\ ~Inserting(p)'
          BY <2>1, <3>5, <4>2 DEF Evens
        <5> QED
          BY <1>0, <2>1, <3>6, <4>2, <5>1, FrameEven
      <4> QED
        BY <4>1, <4>2
    <3> QED
      BY <1>7, <3>10 DEF Evens
  <2> QED
    BY <1>13, <1>q, <2>2, <2>3 DEF SendValue
<1>14. CASE InsertProc(a)
  <2>1. /\ procs' = [procs EXCEPT ![q] = Append(@, send[a].chr)] /\ UNCHANGED <<busy, txq, air>>
        /\ send[a].pc = "insert"
    BY <1>14, <1>q DEF InsertProc, attVars
  <2>2. procs[q] \in Seq(Chars) /\ procs \in [Peers -> Seq(Chars)] /\ txq[q] \in Seq(Msgs)
    BY <1>9 DEF Types, GattTypes, AirTypes
  <2>3. procs'[q] = Append(procs[q], send[a].chr) /\ \A p \in Peers : p # q => procs'[p] = procs[p]
    BY <1>9, <2>1, <2>2
  <2>4. Len(procs'[q]) = Len(procs[q]) + 1
    BY <1>9, <2>2, <2>3
  <2>5. s = NoSend /\ \A p : ~Inserting(p)' /\ (Inserting(p) <=> p = q)
    BY <1>3, <1>5, <1>6, <1>14, <1>q, <2>1 DEF NoSend
  <2>6. Even(q) /\ conn[q] = "up"
    BY <1>9, <2>5 DEF Evens, Even
  <2>7. Owed(q)'
    <3>1. OnTheWay(q)' <=> OnTheWay(q)
      BY <1>0, <2>1 DEF OnTheWay
    <3>2. q \notin silent => busy[q] /\ Len(procs[q]) <= Len(txq[q])
      BY <2>5, <2>6 DEF Even, Owed
    <3>3. q \notin silent => Len(procs'[q]) <= Len(txq[q]) + 1
      BY <2>2, <2>4, <3>2
    <3>4. q \notin silent => OnTheWay(q)
      BY <2>6, <3>2 DEF Even, Owed
    <3> QED
      BY <1>0, <2>1, <2>5, <3>1, <3>2, <3>3, <3>4 DEF Owed
  <2>8. Even(q)'
    BY <1>0, <2>1, <2>6, <2>7 DEF Even
  <2>9. ASSUME NEW p \in Peers PROVE Even(p)'
    <3>1. CASE p = q
      BY <2>8, <3>1
    <3>2. CASE p # q
      <4>1. Even(p) /\ ~Inserting(p) /\ ~Inserting(p)'
        BY <2>5, <3>2 DEF Evens
      <4> QED
        BY <1>0, <2>1, <2>3, <3>2, <4>1, FrameEven
    <3> QED
      BY <3>1, <3>2
  <2> QED
    BY <1>7, <2>9 DEF Evens
<1> QED
  BY <1>11, <1>12, <1>13, <1>14 DEF Send

LEMMA AppKeepsEven ==
  ASSUME Preempt = FALSE, Types, Noted, Evens, AppNext
  PROVE  Evens'
<1>0. UNCHANGED <<conn, procs, busy, txq, air, back, silent, expired, host>>
  BY DEF AppNext, setValue, SendToOne, ChrUpdated, ReadRecord, WriteRecord, connVars, gattVars,
         attVars, peerVars
<1>1. HostFree
  BY DEF AppNext, setValue, SendToOne, ChrUpdated, ReadRecord, WriteRecord, AppMayRun
<1>2. send'["host"] = send["host"] /\ \A p : Inserting(p)' <=> Inserting(p)
  <2>1. CASE send' = send
    BY <2>1 DEF Inserting
  <2>2. CASE SendToOne
    <3>1. PICK q \in Peers, op \in Kinds : send' = [send EXCEPT !["app"] = Sending(op, q, app.chr)]
      BY <2>2 DEF SendToOne
    <3>2. send["app"].pc = "idle" /\ app.chr \in Chars
      BY <2>2 DEF SendToOne, Noted, Types, SideTypes, GoodApp
    <3>3. Sending(op, q, app.chr).pc = "read"
      BY <3>2, SendTypes
    <3>4. send'["app"].pc = "read" /\ send'["host"] = send["host"]
      BY <3>1, <3>3 DEF Types, SideTypes, Actors
    <3> QED
      BY <3>2, <3>4 DEF Inserting, Actors
  <2> QED
    BY <2>1, <2>2 DEF AppNext, setValue, ChrUpdated, ReadRecord, WriteRecord
<1>3. Alone'
  BY <1>0, <1>1, <1>2 DEF HostFree, Evens, Alone
<1>4. ASSUME NEW p \in Peers PROVE Even(p)'
  <2>1. Even(p) /\ (Inserting(p)' <=> Inserting(p))
    BY <1>2 DEF Evens
  <2> QED
    BY <1>0, <2>1, FrameEven
<1> QED
  BY <1>3, <1>4, SMTT(60) DEF Evens

LEMMA HostSendsKeepEven ==
  ASSUME Preempt = FALSE, Types, Evens,
         \/ TxNotifications \/ TxOne \/ TxDone \/ Persist \/ SendNextIndicate
         \/ BondOne \/ BondRecord \/ BondDone \/ RestoreOne \/ RestoredSent \/ RestoreDone
  PROVE  Evens'
<1>0. UNCHANGED <<conn, procs, busy, txq, air, back, silent, expired>>
  BY Zenon DEF TxNotifications, TxOne, TxDone, Persist, SendNextIndicate, BondOne, BondRecord, BondDone,
         RestoreOne, RestoredSent, RestoreDone, Stay, connVars, gattVars, attVars, peerVars
<1>1. PICK pc : HostStep(pc) /\ pc # "teardown"
  <2>1. \E pc \in {"idle", "tx", "persist", "next", "bond", "record", "restore", "restored"} : HostStep(pc)
    BY Zenon DEF TxNotifications, TxOne, TxDone, Persist, SendNextIndicate, BondOne, BondRecord, BondDone,
           RestoreOne, RestoredSent, RestoreDone
  <2> QED
    BY <2>1, SMTT(60)
<1>2. /\ host.pc # "teardown" /\ host \in Hosts /\ send["host"].pc = "idle"
      /\ send \in [Actors -> Sends] /\ "host" \in Actors /\ "app" \in Actors
  BY <1>1, HostAlone DEF Types, SideTypes, GoodHost, Actors
<1>3. host'.pc # "teardown"
  <2>1. CASE \E pcs \in {"idle", "tx", "next"} : host' = HostAt(pcs) \/
               (\E p : host' = [HostAt(pcs) EXCEPT !.peer = p]) \/ host' = [HostAt(pcs) EXCEPT !.left = Pairs]
    BY <2>1 DEF HostAt
  <2>2. CASE TxNotifications \/ TxDone \/ Persist \/ SendNextIndicate \/ BondDone \/ RestoreDone
    BY <2>1, <2>2 DEF TxNotifications, TxDone, Persist, SendNextIndicate, BondDone, RestoreDone
  <2>3. CASE TxOne
    BY <1>2, <2>3 DEF TxOne, Hosts
  <2>4. CASE BondOne
    BY <1>2, <2>4 DEF BondOne, Hosts
  <2>5. CASE BondRecord
    BY <1>2, <2>5 DEF BondRecord, Hosts
  <2>6. CASE RestoreOne
    <3>1. PICK i : \/ host' = [host EXCEPT !.pc = "restored", !.rec = store[i]]
                   \/ host' = [host EXCEPT !.idx = @ + 1]
      BY <2>6, Zenon DEF RestoreOne
    <3> QED
      BY <1>2, <3>1, Zenon DEF Hosts
  <2>7. CASE RestoredSent
    BY <1>2, <2>7 DEF RestoredSent, Hosts
  <2> QED
    BY <2>2, <2>3, <2>4, <2>5, <2>6, <2>7
<1>4. send'["app"] = send["app"] /\ send'["host"].pc \in {"idle", "read"}
  <2>1. CASE send' = send
    BY <1>2, <2>1
  <2>2. ASSUME NEW op \in Kinds, NEW p \in Peers, NEW c \in Chars,
               send' = [send EXCEPT !["host"] = Sending(op, p, c)]
        PROVE  send'["app"] = send["app"] /\ send'["host"].pc = "read"
    BY <1>2, <2>2, SendTypes
  <2>3. CASE TxOne
    <3>1. PICK x \in host.left :
            \/ send' = [send EXCEPT !["host"] = Sending(cccd[x[1]][x[2]].sub, x[1], x[2])]
               /\ Due(x[1], cccd[x[1]][x[2]])
            \/ send' = send
      BY <2>3 DEF TxOne
    <3>2. x[1] \in Peers /\ x[2] \in Chars
      BY <1>2 DEF Hosts, Pairs
    <3>3. Due(x[1], cccd[x[1]][x[2]]) => cccd[x[1]][x[2]].sub \in Kinds
      BY DEF Due, Kinds
    <3> QED
      BY <2>1, <2>2, <3>1, <3>2, <3>3
  <2>4. CASE SendNextIndicate
    <3>1. \/ send' = send
          \/ \E c \in Chars : send' = [send EXCEPT !["host"] = Sending("indicate", host.peer, c)]
      BY <2>4 DEF SendNextIndicate
    <3>2. host.peer \in Peers /\ "indicate" \in Kinds
      BY <2>4 DEF SendNextIndicate, HostStep, Types, SideTypes, GoodHost, Kinds
    <3> QED
      BY <2>1, <2>2, <3>1, <3>2
  <2>5. CASE RestoreOne
    <3>1. PICK i \in OfPeer(host.peer, host.idx) :
            \/ send' = send
            \/ send' = [send EXCEPT !["host"] = Sending(store[i].sub, host.peer, store[i].chr)]
               /\ Due(host.peer, Restored(store[i]))
      BY <2>5, Zenon DEF RestoreOne
    <3>2. OfPeer(host.peer, host.idx) \subseteq DOMAIN store
      BY Places
    <3>3. store[i] \in Recs
      BY <3>1, <3>2, SMTT(60) DEF Types, StoreTypes
    <3>4. store[i].chr \in Chars /\ host.peer \in Peers
      BY <2>5, <3>3, Zenon DEF Recs, RestoreOne, HostStep, Types, SideTypes, GoodHost
    <3>5. Due(host.peer, Restored(store[i])) => store[i].sub \in Kinds
      BY DEF Due, Restored, Kinds
    <3> QED
      BY <2>1, <2>2, <3>1, <3>4, <3>5, SMTT(60)
  <2>6. CASE TxNotifications \/ TxDone \/ Persist \/ BondOne \/ BondRecord \/ BondDone
             \/ RestoredSent \/ RestoreDone
    <3>1. send' = send
      BY <2>6, Zenon DEF TxNotifications, TxDone, Persist, BondOne, BondRecord, BondDone, RestoredSent,
                  RestoreDone
    <3> QED
      BY <2>1, <3>1, SMTT(60)
  <2> QED
    BY <2>3, <2>4, <2>5, <2>6
<1> QED
  BY <1>0, <1>1, <1>3, <1>4, HostFrameEven, Zenon

LEMMA ReceiveKeepsEven ==
  ASSUME Preempt = FALSE, Types, Evens, HostReceives \/ Expire
  PROVE  Evens'
<1>0. HostStep("idle") /\ UNCHANGED <<conn, silent, send>> /\ host'.pc # "teardown"
  <2>1. ASSUME NEW p \in Peers, Confirmation(p)
        PROVE  HostStep("idle") /\ UNCHANGED <<conn, silent, send>> /\ host'.pc # "teardown"
    <3>1. HostStep("idle") /\ UNCHANGED <<conn, silent, send>>
      BY <2>1 DEF Confirmation, Incoming, connVars
    <3>2. \/ host' = host
          \/ \E r : host' = [HostAt("persist") EXCEPT !.peer = p, !.rec = r]
      BY <2>1 DEF Confirmation
    <3> QED
      BY <3>1, <3>2 DEF HostAt, HostStep
  <2>2. ASSUME NEW p \in Peers, CccdWrite(p)
        PROVE  HostStep("idle") /\ UNCHANGED <<conn, silent, send>> /\ host'.pc # "teardown"
    <3>1. HostStep("idle") /\ UNCHANGED <<conn, silent, send>>
      BY <2>2 DEF CccdWrite, Incoming, connVars
    <3>2. \/ host' = HostAt("idle")
          \/ \E r : host' = [HostAt("persist") EXCEPT !.rec = r]
      BY <2>2 DEF CccdWrite
    <3> QED
      BY <3>1, <3>2 DEF HostAt
  <2>3. CASE Expire
    BY <2>3 DEF Expire, HostStep, peerVars, sideVars
  <2> QED
    BY <2>1, <2>2, <2>3 DEF HostReceives
<1>1. /\ send["app"].pc = "idle" /\ send["host"].pc = "idle" /\ host.pc = "idle"
      /\ \A p \in Peers : conn[p] # "broken"
  BY <1>0, HostAlone
<1>2. \A p : ~Inserting(p)
  BY <1>0, HostAlone
<1>3. \A p : ~Inserting(p)'
  BY <1>0, <1>1 DEF Inserting, Actors
<1>4. Alone'
  BY <1>0, <1>1 DEF Alone
<1>5. ASSUME NEW q \in Peers, Even(q)',
             \A p \in Peers : p # q =>
               /\ procs'[p] = procs[p] /\ busy'[p] = busy[p] /\ txq'[p] = txq[p] /\ air'[p] = air[p]
               /\ back'[p] = back[p] /\ (p \in expired' <=> p \in expired)
      PROVE  Evens'
  <2>1. ASSUME NEW p \in Peers, p # q PROVE Even(p)'
    <3>1. Even(p) /\ (Inserting(p)' <=> Inserting(p))
      BY <1>2, <1>3 DEF Evens
    <3> QED
      BY <1>0, <1>5, <2>1, <3>1, FrameEven
  <2> QED
    BY <1>4, <1>5, <2>1 DEF Evens
<1>6. /\ procs \in [Peers -> Seq(Chars)] /\ busy \in [Peers -> BOOLEAN]
      /\ txq \in [Peers -> Seq(Msgs)] /\ air \in [Peers -> Seq(Msgs)] /\ back \in [Peers -> Seq(Backs)]
  BY DEF Types, GattTypes, AirTypes, PeerTypes
<1>7. ASSUME NEW q \in Peers, CccdWrite(q) PROVE Evens'
  <2>1. /\ conn[q] = "up" /\ back[q] # <<>> /\ Head(back[q]).op = "cccd"
        /\ back' = [back EXCEPT ![q] = Tail(@)] /\ UNCHANGED <<procs, busy, txq, air, expired>>
    BY <1>7 DEF CccdWrite, Incoming, connVars, attVars
  <2>2. ToSet(back[q]) = {Head(back[q])} \cup ToSet(Tail(back[q]))
    <3>1. back[q] \in Seq(Backs)
      BY <1>6
    <3> QED
      BY <2>1, <3>1, TailKeeps
  <2>3. back'[q] = Tail(back[q]) /\ \A p \in Peers : p # q => back'[p] = back[p]
    BY <1>6, <2>1
  <2>4. Even(q)
    BY DEF Evens
  <2>5. OnTheWay(q) => OnTheWay(q)'
    <3>1. ASSUME NEW m \in ToSet(back[q]) \cup ToSet(air[q]), m.op \in {"confirm", "indicate"}
          PROVE  m \in ToSet(back'[q]) \cup ToSet(air'[q])
      BY <2>1, <2>2, <2>3, <3>1
    <3> QED
      BY <3>1 DEF OnTheWay
  <2>6. Owed(q)'
    BY <1>0, <1>2, <1>3, <2>1, <2>4, <2>5 DEF Even, Owed
  <2>7. Even(q)'
    BY <1>0, <1>3, <2>1, <2>4, <2>6 DEF Even
  <2> QED
    BY <1>5, <2>1, <2>3, <2>7
<1>8. ASSUME NEW q \in Peers, Confirmation(q) PROVE Evens'
  <2>1. /\ conn[q] = "up" /\ back' = [back EXCEPT ![q] = Tail(@)] /\ SendOutstanding(q)
        /\ expired' = expired
        /\ \/ procs[q] = <<>> /\ procs' = procs
           \/ procs[q] # <<>> /\ procs' = [procs EXCEPT ![q] = Tail(@)]
    BY <1>8 DEF Confirmation, Incoming, connVars
  <2>2. Even(q)
    BY DEF Evens
  <2>3. /\ procs[q] \in Seq(Chars) /\ txq[q] \in Seq(Msgs) /\ air[q] \in Seq(Msgs)
        /\ Len(procs[q]) \in Nat /\ Len(txq[q]) \in Nat
    BY <1>6
  <2>4. Len(procs'[q]) = IF procs[q] = <<>> THEN 0 ELSE Len(procs[q]) - 1
    <3>1. CASE procs[q] = <<>> /\ procs' = procs
      BY <3>1
    <3>2. CASE procs[q] # <<>> /\ procs' = [procs EXCEPT ![q] = Tail(@)]
      <4>1. Len(Tail(procs[q])) = Len(procs[q]) - 1
        BY <2>3, <3>2, TailKeeps
      <4>2. procs'[q] = Tail(procs[q])
        BY <1>6, <3>2
      <4> QED
        BY <3>2, <4>1, <4>2
    <3> QED
      BY <2>1, <3>1, <3>2
  <2>5. procs[q] # <<>> => Len(procs[q]) >= 1
    BY <2>3
  <2>6. q \notin silent => Len(procs[q]) <= Len(txq[q]) + 1 /\ (~busy[q] => Len(procs[q]) <= Len(txq[q]))
    <3>1. \A i, j \in Nat : i <= j => i <= j + 1
      OBVIOUS
    <3> QED
      BY <1>2, <2>1, <2>2, <2>3, <3>1 DEF Even, Owed
  <2>7. CASE txq[q] = <<>>
    <3>1. busy' = [busy EXCEPT ![q] = FALSE] /\ UNCHANGED <<txq, air>>
      BY <2>1, <2>7 DEF SendOutstanding
    <3>2. ~busy'[q] /\ txq'[q] = <<>> /\ Len(txq[q]) = 0
      BY <1>6, <2>7, <3>1
    <3>3. q \notin silent => Len(procs'[q]) <= Len(txq'[q])
      BY <2>3, <2>4, <2>5, <2>6, <3>1, <3>2
    <3>4. Owed(q)'
      BY <1>0, <1>3, <3>2, <3>3 DEF Owed
    <3>5. Even(q)'
      BY <1>0, <1>3, <2>1, <2>2, <3>1, <3>2, <3>4 DEF Even
    <3> QED
      BY <1>5, <1>6, <2>1, <3>1, <3>5
  <2>8. CASE txq[q] # <<>>
    <3>1. /\ air' = [air EXCEPT ![q] = Append(@, Head(txq[q]))]
          /\ txq' = [txq EXCEPT ![q] = Tail(@)] /\ busy' = busy
      BY <2>1, <2>8 DEF SendOutstanding
    <3>2. /\ Head(txq[q]) \in ToSet(txq[q]) /\ Len(Tail(txq[q])) = Len(txq[q]) - 1
          /\ ToSet(txq[q]) = {Head(txq[q])} \cup ToSet(Tail(txq[q])) /\ Head(txq[q]) \in Msgs
      BY <2>3, <2>8, TailKeeps
    <3>3. txq'[q] = Tail(txq[q]) /\ air'[q] = Append(air[q], Head(txq[q]))
      BY <1>6, <3>1
    <3>4. ToSet(air'[q]) = ToSet(air[q]) \cup {Head(txq[q])}
      <4>1. ToSet(Append(air[q], Head(txq[q]))) = ToSet(air[q]) \cup {Head(txq[q])}
        BY <2>3, <3>2, AppendKeeps
      <4> QED
        BY <3>3, <4>1
    <3>5. busy[q] /\ Head(txq[q]).op = "indicate"
      BY <2>2, <2>8, <3>2 DEF Even
    <3>6. OnTheWay(q)'
      BY <3>4, <3>5 DEF OnTheWay
    <3>7. q \notin silent => Len(procs'[q]) <= Len(txq'[q]) + 1
      BY <2>3, <2>4, <2>5, <2>6, <3>2, <3>3
    <3>8. Owed(q)'
      BY <1>0, <1>3, <3>1, <3>5, <3>6, <3>7 DEF Owed
    <3>9. \A m \in ToSet(txq[q])' : m.op = "indicate"
      BY <2>2, <3>2, <3>3 DEF Even
    <3>10. Even(q)'
      BY <1>0, <1>3, <2>1, <2>2, <3>1, <3>5, <3>8, <3>9 DEF Even
    <3> QED
      BY <1>5, <1>6, <2>1, <3>1, <3>10
  <2> QED
    BY <2>7, <2>8
<1>9. CASE Expire
  <2>1. PICK q \in Peers : \E i \in DOMAIN procs[q] :
          /\ NothingOnTheWay(q)
          /\ procs' = [procs EXCEPT ![q] = RemoveAt(@, i)]
          /\ expired' = IF conn[q] = "up" THEN expired \cup {q} ELSE expired
    BY <1>9 DEF Expire
  <2>2. UNCHANGED <<busy, txq, air, back>>
    BY <1>9 DEF Expire, attVars, peerVars
  <2>3. Even(q) /\ procs[q] \in Seq(Chars) /\ txq[q] \in Seq(Msgs) /\ Len(procs[q]) \in Nat
    BY <1>6 DEF Evens
  <2>4. procs[q] # <<>> /\ Len(procs[q]) >= 1
    BY <2>1, <2>3
  <2>5. conn[q] = "up"
    BY <2>3, <2>4 DEF Even
  <2>6. q \in silent
    <3> SUFFICES ASSUME q \notin silent PROVE FALSE
      OBVIOUS
    <3>1. ~OnTheWay(q)
      BY <2>1, Quietness
    <3>2. ~busy[q]
      BY <2>3, <2>5, <3>1 DEF Even, Owed
    <3>3. txq[q] = <<>>
      BY <2>3, <3>2 DEF Even
    <3>4. Len(procs[q]) <= Len(txq[q])
      BY <1>2, <2>3, <2>5, <3>2 DEF Even, Owed
    <3> QED
      BY <2>3, <2>4, <3>3, <3>4
  <2>7. Even(q)'
    <3>1. Owed(q)'
      BY <1>0, <2>6 DEF Owed
    <3> QED
      BY <1>0, <1>3, <2>2, <2>3, <2>5, <2>6, <3>1 DEF Even
  <2> QED
    BY <1>5, <1>6, <2>1, <2>2, <2>7
<1> QED
  BY <1>7, <1>8, <1>9 DEF HostReceives

LEMMA LinkKeepsEven ==
  ASSUME Preempt = FALSE, Types, Evens, Link \/ Delete
  PROVE  Evens'
<1>0. /\ conn \in [Peers -> {"up", "broken", "down"}] /\ procs \in [Peers -> Seq(Chars)]
      /\ busy \in [Peers -> BOOLEAN] /\ txq \in [Peers -> Seq(Msgs)] /\ air \in [Peers -> Seq(Msgs)]
      /\ back \in [Peers -> Seq(Backs)]
  BY SMTT(60) DEF Types, LinkTypes, GattTypes, AirTypes, PeerTypes
<1>1. PICK pc : HostStep(pc)
  BY DEF Link, Break, Connect, Pair, Encrypt, Delete
<1>2. send["app"].pc = "idle" /\ send["host"].pc = "idle" /\ send' = send
  BY <1>1, HostAlone DEF Link, Break, Connect, Pair, Encrypt, Delete, sideVars
<1>3. \A p : ~Inserting(p)
  BY <1>1, HostAlone
<1>4. \A p : ~Inserting(p)'
  BY <1>2 DEF Inserting, Actors
<1>5. ASSUME NEW q \in Peers, Even(q)',
             \A p \in Peers : p # q =>
               /\ conn'[p] = conn[p] /\ procs'[p] = procs[p] /\ busy'[p] = busy[p]
               /\ txq'[p] = txq[p] /\ air'[p] = air[p] /\ back'[p] = back[p]
               /\ (p \in expired' <=> p \in expired) /\ (p \in silent' <=> p \in silent)
      PROVE  \A p \in Peers : Even(p)'
  <2>1. ASSUME NEW p \in Peers, p # q PROVE Even(p)'
    <3>1. Even(p) /\ (Inserting(p)' <=> Inserting(p))
      BY <1>3, <1>4 DEF Evens
    <3> QED
      BY <1>5, <2>1, <3>1, FrameEven
  <2> QED
    BY <1>5, <2>1
<1>6. ToSet(<<>>) = {}
  BY DEF ToSet
<1>7. ASSUME NEW q \in Peers, Break(q) PROVE Evens'
  <2>1. /\ conn' = [conn EXCEPT ![q] = "broken"] /\ procs' = [procs EXCEPT ![q] = <<>>]
        /\ expired' = expired \ {q} /\ silent' = silent \ {q} /\ NoMessages(q) /\ busy' = busy
        /\ host' = [HostAt("teardown") EXCEPT !.peer = q] /\ HostStep("idle")
    BY <1>7 DEF Break
  <2>2. host'.pc = "teardown" /\ host'.peer = q
    BY <2>1 DEF HostAt
  <2>3. \A p \in Peers : conn[p] # "broken"
    BY <2>1, HostAlone
  <2>4. Alone'
    BY <1>0, <1>2, <2>1, <2>2, <2>3 DEF Alone
  <2>5. conn'[q] = "broken" /\ procs'[q] = <<>> /\ txq'[q] = <<>>
    BY <1>0, <2>1 DEF NoMessages
  <2>6. Even(q)'
    <3>1. Owed(q)'
      BY <2>5 DEF Owed
    <3>2. \A m \in ToSet(txq[q])' : m.op = "indicate"
      BY <1>6, <2>5
    <3> QED
      BY <1>4, <2>1, <2>5, <3>1, <3>2 DEF Even
  <2> QED
    BY <1>0, <1>5, <2>1, <2>4, <2>6 DEF NoMessages, Evens
<1>8. CASE Delete
  <2>0. host.peer \in Peers /\ HostStep("teardown")
    BY <1>8 DEF Delete, HostStep, Types, SideTypes, GoodHost
  <2>1. PICK q \in Peers : q = host.peer
    BY <2>0
  <2>2. /\ conn' = [conn EXCEPT ![q] = "down"] /\ busy' = [busy EXCEPT ![q] = FALSE]
        /\ NoMessages(q) /\ host' = HostAt("idle") /\ UNCHANGED <<procs, expired, silent>>
    BY <1>8, <2>1 DEF Delete
  <2>3. /\ conn[q] = "broken" /\ host'.pc = "idle"
        /\ \A p \in Peers : conn[p] = "broken" => p = q
    BY <2>0, <2>1, <2>2, HostAlone DEF Evens, Alone, HostAt
  <2>4. Alone'
    BY <1>0, <1>2, <2>2, <2>3 DEF Alone
  <2>5. conn'[q] = "down" /\ ~busy'[q] /\ txq'[q] = <<>>
    BY <1>0, <2>2 DEF NoMessages
  <2>6. Even(q) /\ procs[q] = <<>>
    BY <2>3 DEF Evens, Even
  <2>7. Even(q)'
    <3>1. Owed(q)'
      BY <2>5 DEF Owed
    <3>2. \A m \in ToSet(txq[q])' : m.op = "indicate"
      BY <1>6, <2>5
    <3> QED
      BY <1>4, <2>2, <2>5, <2>6, <3>1, <3>2 DEF Even
  <2> QED
    BY <1>0, <1>5, <2>2, <2>4, <2>7 DEF NoMessages, Evens
<1>9. ASSUME NEW q \in Peers, Connect(q) PROVE Evens'
  <2>1. /\ HostStep("idle") /\ conn[q] = "down" /\ conn' = [conn EXCEPT ![q] = "up"]
        /\ UNCHANGED <<expired, procs, busy, txq, air, back, silent, host>>
    BY <1>9 DEF Connect, gattVars, attVars, peerVars, sideVars
  <2>2. host.pc = "idle" /\ \A p \in Peers : conn[p] # "broken"
    BY <2>1, HostAlone
  <2>3. Alone'
    BY <1>0, <1>2, <2>1, <2>2 DEF Alone
  <2>4. Even(q) /\ procs[q] = <<>> /\ ~busy[q] /\ txq[q] = <<>>
    BY <2>1 DEF Evens, Even
  <2>5. Owed(q)'
    <3>1. Len(procs[q]) <= Len(txq[q])
      BY <2>4
    <3> QED
      BY <1>4, <2>1, <2>4, <3>1 DEF Owed
  <2>6. Even(q)'
    BY <1>0, <1>4, <2>1, <2>4, <2>5 DEF Even
  <2> QED
    BY <1>0, <1>5, <2>1, <2>3, <2>6 DEF Evens
<1>10. ASSUME NEW q \in Peers, Pair(q) \/ Encrypt(q) PROVE Evens'
  <2>1. /\ HostStep("idle") /\ UNCHANGED <<conn, procs, busy, txq, air, back, silent, expired>>
        /\ host'.pc # "teardown"
    BY <1>10 DEF Pair, Encrypt, gattVars, attVars, peerVars, HostAt
  <2> QED
    BY <1>2, <2>1, HostFrameEven
<1> QED
  BY <1>7, <1>8, <1>9, <1>10 DEF Link

LEMMA PeerKeepsEven ==
  ASSUME Preempt = FALSE, Types, Evens, PeerNext
  PROVE  Evens'
<1>0. UNCHANGED <<conn, procs, busy, txq, expired, host, send>>
  BY DEF PeerNext, PeerReceives, PeerWrites, connVars, gattVars, attVars, sideVars
<1>1. Alone'
  BY <1>0 DEF Evens, Alone, HostFree
<1>2. \A p : Inserting(p)' <=> Inserting(p)
  BY <1>0 DEF Inserting
<1>3. PICK q \in Peers : PeerReceives(q) \/ PeerWrites(q)
  BY DEF PeerNext
<1>4. /\ air \in [Peers -> Seq(Msgs)] /\ back \in [Peers -> Seq(Backs)]
      /\ air[q] \in Seq(Msgs) /\ back[q] \in Seq(Backs)
  BY DEF Types, AirTypes, PeerTypes
<1>5. \A p \in Peers : p # q => air'[p] = air[p] /\ back'[p] = back[p] /\ (p \in silent' <=> p \in silent)
  BY <1>3, <1>4 DEF PeerReceives, PeerWrites, attVars
<1>6. ASSUME NEW m \in Backs, back' = [back EXCEPT ![q] = Append(@, m)]
      PROVE  ToSet(back'[q]) = ToSet(back[q]) \cup {m}
  <2>1. back'[q] = Append(back[q], m)
    BY <1>4, <1>6
  <2>2. ToSet(Append(back[q], m)) = ToSet(back[q]) \cup {m}
    BY <1>4, AppendKeeps
  <2> QED
    BY <2>1, <2>2
<1>7. q \in silent => q \in silent'
  BY <1>3 DEF PeerReceives, PeerWrites
<1>8. q \notin silent' => (OnTheWay(q) => OnTheWay(q)')
  <2> SUFFICES ASSUME q \notin silent', OnTheWay(q) PROVE OnTheWay(q)'
    OBVIOUS
  <2>1. CASE PeerWrites(q)
    <3>1. PICK c \in Chars, sub \in Subs :
            back' = [back EXCEPT ![q] = Append(@, [op |-> "cccd", chr |-> c, sub |-> sub])]
      BY <2>1 DEF PeerWrites
    <3>2. [op |-> "cccd", chr |-> c, sub |-> sub] \in Backs /\ air' = air
      BY <2>1 DEF Backs, PeerWrites, attVars
    <3>3. ToSet(back[q]) \subseteq ToSet(back'[q])
      BY <1>6, <3>1, <3>2
    <3> QED
      BY <3>2, <3>3 DEF OnTheWay
  <2>2. CASE PeerReceives(q)
    <3>1. air[q] # <<>> /\ air'[q] = Tail(air[q])
      BY <1>4, <2>2 DEF PeerReceives
    <3>2. ToSet(air[q]) = {Head(air[q])} \cup ToSet(air'[q])
      BY <1>4, <3>1, TailKeeps
    <3>3. CASE Head(air[q]).op = "indicate"
      <4>1. back' = [back EXCEPT ![q] = Append(@, [op |-> "confirm"])]
        BY <2>2, <3>3 DEF PeerReceives
      <4>2. [op |-> "confirm"] \in Backs
        BY DEF Backs
      <4>3. [op |-> "confirm"] \in ToSet(back'[q])
        BY <1>6, <4>1, <4>2
      <4> QED
        BY <4>3 DEF OnTheWay
    <3>4. CASE Head(air[q]).op = "notify"
      <4>1. back' = back
        BY <2>2, <3>4 DEF PeerReceives
      <4>2. ASSUME NEW m \in ToSet(back[q]) \cup ToSet(air[q]), m.op \in {"confirm", "indicate"}
            PROVE  m \in ToSet(back'[q]) \cup ToSet(air'[q])
        BY <3>2, <3>4, <4>1, <4>2
      <4> QED
        BY <4>2 DEF OnTheWay
    <3> QED
      BY <2>2, <3>3, <3>4 DEF PeerReceives
  <2> QED
    BY <1>3, <2>1, <2>2
<1>9. ASSUME NEW p \in Peers PROVE Even(p)'
  <2>1. Even(p) /\ (Inserting(p)' <=> Inserting(p))
    BY <1>2 DEF Evens
  <2>2. CASE p # q
    BY <1>0, <1>5, <2>1, <2>2, FrameEven
  <2>3. CASE p = q
    <3>1. Owed(q)'
      BY <1>0, <1>7, <1>8, <2>1, <2>3 DEF Even, Owed
    <3> QED
      BY <1>0, <1>7, <2>1, <2>3, <3>1 DEF Even
  <2> QED
    BY <2>2, <2>3
<1> QED
  BY <1>1, <1>9 DEF Evens

LEMMA InitEvens == Init => Evens
<1> SUFFICES ASSUME Init PROVE Evens
  OBVIOUS
<1>1. \A a \in Actors : send[a].pc = "idle"
  BY DEF Init, NoSend
<1>2. \A p : ~Inserting(p)
  BY <1>1 DEF Inserting
<1>3. Alone
  BY <1>1 DEF Alone, Init, HostAt, Actors
<1>4. ASSUME NEW p \in Peers PROVE Even(p)
  <2>1. conn[p] = "down" /\ procs[p] = <<>> /\ ~busy[p] /\ txq[p] = <<>> /\ p \notin expired
    BY DEF Init
  <2>2. ToSet(txq[p]) = {}
    BY <2>1 DEF ToSet
  <2> QED
    BY <1>2, <2>1, <2>2 DEF Even, Owed
<1> QED
  BY <1>3, <1>4 DEF Evens

LEMMA NextEvens ==
  ASSUME Preempt = FALSE, Types, Noted, Evens, [Next]_vars
  PROVE  Evens'
<1>0. "app" \in Actors /\ "host" \in Actors
  BY DEF Actors
<1>1. Types' /\ Noted'
  BY NextTypes, NextNoted
<1>2. CASE UNCHANGED vars
  <2>1. UNCHANGED <<conn, procs, busy, txq, air, back, silent, expired, host, send>>
    BY <1>2 DEF vars, connVars, gattVars, attVars, peerVars, sideVars
  <2>2. Alone'
    BY <2>1 DEF Evens, Alone, HostFree
  <2>3. ASSUME NEW p \in Peers PROVE Even(p)'
    <3>1. Even(p) /\ (Inserting(p)' <=> Inserting(p))
      BY <2>1 DEF Evens, Inserting
    <3> QED
      BY <2>1, <3>1, FrameEven
  <2> QED
    BY <2>2, <2>3 DEF Evens
<1>3. CASE Send("app") \/ Send("host")
  BY <1>0, <1>1, <1>3, SendKeepsEven
<1>4. CASE AppNext
  BY <1>1, <1>4, AppKeepsEven
<1>5. CASE HostReceives \/ Expire
  BY <1>1, <1>5, ReceiveKeepsEven
<1>6. CASE Link \/ Delete
  BY <1>1, <1>6, LinkKeepsEven
<1>7. CASE \/ TxNotifications \/ TxOne \/ TxDone \/ Persist \/ SendNextIndicate
           \/ BondOne \/ BondRecord \/ BondDone \/ RestoreOne \/ RestoredSent \/ RestoreDone
  BY <1>1, <1>7, HostSendsKeepEven
<1>8. CASE PeerNext
  BY <1>1, <1>8, PeerKeepsEven
<1> QED
  BY <1>2, <1>3, <1>4, <1>5, <1>6, <1>7, <1>8 DEF Next, HostSteps

(* When nothing runs inside the unlocked sections of the host: a connection  *)
(* is given up by ble_gattc_timer only if its peer left an indication        *)
(* unconfirmed.  A timeout overtakes no answer, and no procedure expires for *)
(* an indication that is still in the queue behind another.                  *)
THEOREM TimeoutFollowsSilence ==
  ASSUME Preempt = FALSE
  PROVE  Spec => []TimeoutOnlyIfSilent
<1> DEFINE IInv == Types /\ Noted /\ Evens
<1>1. Init => IInv
  <2>1. Init => Noted
    BY AppTypes DEF Init, Noted, HasProcedure, AppAt
  <2> QED
    BY <2>1, InitTypes, InitEvens
<1>2. IInv /\ [Next]_vars => IInv'
  BY NextTypes, NextNoted, NextEvens
<1>3. IInv => TimeoutOnlyIfSilent
  BY DEF Types, LinkTypes, Evens, Even, TimeoutOnlyIfSilent
<1> QED
  BY <1>1, <1>2, <1>3, PTL DEF Spec

-----------------------------------------------------------------------------
(* The rank of a place among the places of a set: what the nth record of a   *)
(* peer, or of a characteristic, is                                          *)

(* The places of a set, counted up to a place *)
UpTo(T, i) == {j \in 1..i : j \in T}
Rank(T, i) == Cardinality(UpTo(T, i))

LEMMA UpToFinite ==
  ASSUME NEW T, NEW i \in Nat
  PROVE  IsFiniteSet(UpTo(T, i)) /\ Rank(T, i) \in Nat
<1>1. IsFiniteSet(1..i)
  BY FS_Interval
<1>2. UpTo(T, i) \in SUBSET (1..i)
  BY DEF UpTo
<1>3. IsFiniteSet(UpTo(T, i))
  BY <1>1, <1>2, FS_Subset
<1> QED
  BY <1>3, FS_CardinalityType DEF Rank

(* The first place is the first, and a later one comes later. *)
LEMMA RankGrows ==
  ASSUME NEW T, T \subseteq Nat \ {0}
  PROVE  /\ \A i \in T : Rank(T, i) \in Nat /\ Rank(T, i) > 0
         /\ \A i, k \in T : i < k => Rank(T, i) < Rank(T, k)
         /\ \A i, k \in T : Rank(T, i) = Rank(T, k) => i = k
<1>1. ASSUME NEW i \in T PROVE Rank(T, i) \in Nat /\ Rank(T, i) > 0
  <2>1. i \in Nat /\ i \in UpTo(T, i)
    BY DEF UpTo
  <2>2. IsFiniteSet(UpTo(T, i)) /\ Rank(T, i) \in Nat
    BY <2>1, UpToFinite
  <2>3. Rank(T, i) # 0
    BY <2>1, <2>2, FS_EmptySet DEF Rank
  <2> QED
    BY <2>2, <2>3
<1>2. ASSUME NEW i \in T, NEW k \in T, i < k PROVE Rank(T, i) < Rank(T, k)
  <2>1. i \in Nat /\ k \in Nat
    OBVIOUS
  <2>2. IsFiniteSet(UpTo(T, k)) /\ Rank(T, i) \in Nat /\ Rank(T, k) \in Nat
    BY <2>1, UpToFinite
  <2>3. UpTo(T, i) \in SUBSET UpTo(T, k)
    BY <1>2, <2>1 DEF UpTo
  <2>4. k \in UpTo(T, k) /\ k \notin UpTo(T, i)
    BY <1>2, <2>1 DEF UpTo
  <2>5. Rank(T, i) <= Rank(T, k) /\ Rank(T, k) # Rank(T, i)
    BY <2>2, <2>3, <2>4, FS_Subset DEF Rank
  <2> QED
    BY <2>2, <2>5
<1>3. ASSUME NEW i \in T, NEW k \in T, Rank(T, i) = Rank(T, k) PROVE i = k
  <2>1. ~(i < k) /\ ~(k < i)
    BY <1>1, <1>2, <1>3
  <2> QED
    BY <2>1
<1> QED
  BY <1>1, <1>2, <1>3

(* No number is left out. *)
LEMMA RankGap ==
  ASSUME NEW T, T \subseteq Nat \ {0}, NEW n \in Nat, n > 0, \A i \in T : Rank(T, i) # n
  PROVE  \A i \in T : Rank(T, i) < n
<1> SUFFICES ASSUME \E i \in T : ~(Rank(T, i) < n) PROVE FALSE
  OBVIOUS
<1> DEFINE S == {i \in T : ~(Rank(T, i) < n)}
<1>1. PICK i \in S : \A k \in S : i <= k
  <2>1. S \subseteq Nat /\ S # {}
    OBVIOUS
  <2> HIDE DEF S
  <2> QED
    BY <2>1, LeastNat
<1>2. i \in T /\ i \in Nat /\ i > 0 /\ Rank(T, i) \in Nat /\ Rank(T, i) > n
  <2>1. i \in T /\ ~(Rank(T, i) < n)
    OBVIOUS
  <2>2. Rank(T, i) \in Nat /\ Rank(T, i) # n
    BY <2>1, RankGrows
  <2> QED
    BY <2>1, <2>2
<1> DEFINE Q == UpTo(T, i) \ {i}
<1>3. /\ IsFiniteSet(UpTo(T, i)) /\ i \in UpTo(T, i)
  BY <1>2, UpToFinite DEF UpTo
<1>4. Cardinality(Q) = Rank(T, i) - 1
  BY <1>3, FS_RemoveElement DEF Rank
<1>5. Q # {}
  <2>1. Cardinality(Q) # 0
    BY <1>2, <1>4
  <2> QED
    BY <2>1, FS_EmptySet
<1>6. \A j \in Q : j \in T /\ j \in Nat /\ j < i /\ j > 0
  BY <1>2 DEF UpTo
<1> DEFINE D == {d \in Nat : d <= i /\ i - d \in Q}
<1>7. PICK d \in D : \A f \in D : d <= f
  <2>1. PICK j \in Q : TRUE
    BY <1>5
  <2>2. j \in Nat /\ j < i
    BY <1>6
  <2>3. i - j \in Nat /\ i - j <= i /\ i - (i - j) = j
    BY <1>2, <2>2
  <2>4. i - j \in D
    BY <2>3
  <2> HIDE DEF Q
  <2>5. D # {} /\ D \subseteq Nat
    BY <2>4
  <2> HIDE DEF D
  <2> QED
    BY <2>5, LeastNat
<1> DEFINE k == i - d
<1>8. k \in Q
  OBVIOUS
<1>9. k \in T /\ k \in Nat /\ k < i /\ k > 0
  BY <1>6, <1>8
<1>10. \A j \in Q : j <= k
  <2> SUFFICES ASSUME NEW j \in Q PROVE j <= k
    OBVIOUS
  <2>1. j \in Nat /\ j < i
    BY <1>6
  <2>2. i - j \in Nat /\ i - j <= i /\ i - (i - j) = j
    BY <1>2, <2>1
  <2>3. i - j \in D
    BY <2>2
  <2>4. d <= i - j /\ d \in Nat
    BY <1>7, <2>3
  <2> QED
    BY <1>2, <2>1, <2>4
<1>11. UpTo(T, k) = Q
  <2> HIDE DEF k
  <2>1. \A j : j \in UpTo(T, k) => j \in Q
    BY <1>2, <1>9 DEF UpTo
  <2>2. \A j : j \in Q => j \in UpTo(T, k)
    <3> SUFFICES ASSUME NEW j \in Q PROVE j \in UpTo(T, k)
      OBVIOUS
    <3>1. j \in T /\ j \in Nat /\ j > 0 /\ j <= k
      BY <1>6, <1>10
    <3> QED
      BY <1>9, <3>1 DEF UpTo
  <2> QED
    BY <2>1, <2>2
<1>12. Rank(T, k) = Rank(T, i) - 1
  BY <1>4, <1>11 DEF Rank
<1>13. ~(Rank(T, k) < n)
  BY <1>2, <1>12
<1>14. k \in S
  BY <1>9, <1>13
<1>15. i <= k
  BY <1>1, <1>14
<1> QED
  BY <1>2, <1>9, <1>15

(* What a store says of a peer and a characteristic *)
PlacesOf(s, p) == {i \in DOMAIN s : s[i].peer = p}
InStore(s, p, c) == \E i \in DOMAIN s : s[i].peer = p /\ s[i].chr = c
Follows(s, p, c, sub) ==
  /\ \A i \in DOMAIN s : s[i].peer = p /\ s[i].chr = c => s[i].sub = sub
  /\ sub # "none" => InStore(s, p, c)
SameSubs(s, t) ==
  /\ DOMAIN t = DOMAIN s
  /\ \A i \in DOMAIN s : t[i].peer = s[i].peer /\ t[i].chr = s[i].chr /\ t[i].sub = s[i].sub

LEMMA StoredFollows ==
  ASSUME NEW p, NEW c, NEW sub, Follows(store, p, c, sub)
  PROVE  StoredSub(p, c) = sub
<1>1. \A r \in ToSet(store) : r.peer = p /\ r.chr = c => r.sub = sub
  BY DEF ToSet, Follows
<1>2. CASE \E r \in ToSet(store) : r.peer = p /\ r.chr = c
  <2> DEFINE q == CHOOSE r \in ToSet(store) : r.peer = p /\ r.chr = c
  <2>1. q \in ToSet(store) /\ q.peer = p /\ q.chr = c
    BY <1>2
  <2>2. StoredSub(p, c) = q.sub
    BY <1>2 DEF StoredSub
  <2> QED
    BY <1>1, <2>1, <2>2
<1>3. CASE ~ \E r \in ToSet(store) : r.peer = p /\ r.chr = c
  <2>1. ~InStore(store, p, c)
    BY <1>3 DEF InStore, ToSet
  <2> QED
    BY <1>3, <2>1 DEF StoredSub, Follows
<1> QED
  BY <1>2, <1>3

LEMMA SameFollows ==
  ASSUME NEW s, NEW t, SameSubs(s, t)
  PROVE  /\ \A p : PlacesOf(t, p) = PlacesOf(s, p)
         /\ \A p, c : InStore(t, p, c) <=> InStore(s, p, c)
         /\ \A p, c, sub : Follows(t, p, c, sub) <=> Follows(s, p, c, sub)
<1>1. \A p : PlacesOf(t, p) = PlacesOf(s, p)
  BY DEF SameSubs, PlacesOf
<1>2. \A p, c : InStore(t, p, c) <=> InStore(s, p, c)
  BY DEF SameSubs, InStore
<1>3. \A p, c, sub : Follows(t, p, c, sub) <=> Follows(s, p, c, sub)
  BY <1>2 DEF SameSubs, Follows
<1> QED
  BY <1>1, <1>2, <1>3

(* The place of a record that is written, and the others *)
LEMMA PutPlaces ==
  ASSUME NEW s \in Seq(Recs), NEW r \in Recs
  PROVE  /\ \E i \in DOMAIN Put(s, r) : Put(s, r)[i] = r
         /\ \A i \in DOMAIN Put(s, r) :
              Put(s, r)[i] = r \/ (i \in DOMAIN s /\ Put(s, r)[i] = s[i] /\ ~Same(s[i], r))
         /\ \A i \in DOMAIN s : i \in DOMAIN Put(s, r) /\ (~Same(s[i], r) => Put(s, r)[i] = s[i])
<1>1. CASE \E i \in DOMAIN s : Same(s[i], r)
  <2> DEFINE t == [i \in DOMAIN s |-> IF Same(s[i], r) THEN r ELSE s[i]]
  <2>1. Put(s, r) = t
    BY <1>1 DEF Put
  <2>2. DOMAIN t = DOMAIN s /\ \A i \in DOMAIN s : t[i] = IF Same(s[i], r) THEN r ELSE s[i]
    OBVIOUS
  <2> HIDE DEF t
  <2> QED
    BY <1>1, <2>1, <2>2
<1>2. CASE ~ \E i \in DOMAIN s : Same(s[i], r)
  <2> DEFINE t == Append(s, r)
  <2>1. Put(s, r) = t
    BY <1>2 DEF Put
  <2>2. /\ DOMAIN t = 1..(Len(s) + 1) /\ DOMAIN s = 1..Len(s) /\ Len(s) \in Nat
        /\ t[Len(s) + 1] = r /\ \A i \in DOMAIN s : t[i] = s[i]
    OBVIOUS
  <2> HIDE DEF t
  <2>3. \A i \in DOMAIN t : i \in DOMAIN s \/ i = Len(s) + 1
    BY <2>2
  <2>4. Len(s) + 1 \in DOMAIN t /\ \A i \in DOMAIN s : i \in DOMAIN t
    BY <2>2
  <2> QED
    BY <1>2, <2>1, <2>2, <2>3, <2>4
<1> QED
  BY <1>1, <1>2

LEMMA PutFollows ==
  ASSUME NEW s \in Seq(Recs), NEW r \in Recs
  PROVE  /\ \A p, c : InStore(Put(s, r), p, c) <=> InStore(s, p, c) \/ (p = r.peer /\ c = r.chr)
         /\ Follows(Put(s, r), r.peer, r.chr, r.sub)
         /\ \A p, c, sub : ~(p = r.peer /\ c = r.chr) =>
              (Follows(Put(s, r), p, c, sub) <=> Follows(s, p, c, sub))
<1> DEFINE t == Put(s, r)
<1>1. /\ \E i \in DOMAIN t : t[i] = r
      /\ \A i \in DOMAIN t : t[i] = r \/ (i \in DOMAIN s /\ t[i] = s[i] /\ ~Same(s[i], r))
      /\ \A i \in DOMAIN s : i \in DOMAIN t /\ (~Same(s[i], r) => t[i] = s[i])
  BY PutPlaces
<1> HIDE DEF t
<1>2. \A p, c : InStore(t, p, c) <=> InStore(s, p, c) \/ (p = r.peer /\ c = r.chr)
  BY <1>1 DEF InStore, Same
<1>3. Follows(t, r.peer, r.chr, r.sub)
  BY <1>1, <1>2 DEF Follows, Same
<1>4. \A p, c, sub : ~(p = r.peer /\ c = r.chr) => (Follows(t, p, c, sub) <=> Follows(s, p, c, sub))
  <2> TAKE p, c, sub
  <2> HAVE ~(p = r.peer /\ c = r.chr)
  <2>1. InStore(t, p, c) <=> InStore(s, p, c)
    BY <1>2
  <2>2. (\A i \in DOMAIN t : t[i].peer = p /\ t[i].chr = c => t[i].sub = sub)
          <=> (\A i \in DOMAIN s : s[i].peer = p /\ s[i].chr = c => s[i].sub = sub)
    BY <1>1 DEF Same
  <2> QED
    BY <2>1, <2>2 DEF Follows
<1> QED
  BY <1>2, <1>3, <1>4 DEF t

(* A record that is written back with its subscription *)
LEMMA PutBack ==
  ASSUME NEW s \in Seq(Recs), Unique(s), NEW r \in Recs, NEW i \in DOMAIN s,
         Same(s[i], r), r.sub = s[i].sub
  PROVE  /\ SameSubs(s, Put(s, r))
         /\ Put(s, r)[i] = r /\ \A k \in DOMAIN s : k # i => Put(s, r)[k] = s[k]
<1> DEFINE t == [k \in DOMAIN s |-> IF Same(s[k], r) THEN r ELSE s[k]]
<1>1. Put(s, r) = t
  BY DEF Put
<1>2. DOMAIN t = DOMAIN s /\ \A k \in DOMAIN s : t[k] = IF Same(s[k], r) THEN r ELSE s[k]
  OBVIOUS
<1> HIDE DEF t
<1>3. \A k \in DOMAIN s : Same(s[k], r) => k = i
  BY DEF Same, Unique
<1> QED
  BY <1>1, <1>2, <1>3 DEF SameSubs, Same

(* The one record of a key is deleted. *)
LEMMA WithoutPlaces ==
  ASSUME NEW s \in Seq(Recs), Unique(s), NEW r
  PROVE  /\ \A i \in DOMAIN Without(s, r) : \E k \in DOMAIN s :
              Without(s, r)[i] = s[k] /\ ~Same(s[k], r)
         /\ \A k \in DOMAIN s : ~Same(s[k], r) =>
              \E i \in DOMAIN Without(s, r) : Without(s, r)[i] = s[k]
<1> DEFINE of == {i \in DOMAIN s : Same(s[i], r)}
           i0 == CHOOSE i \in of : \A j \in of : i <= j
           t == Without(s, r)
<1>1. /\ \A i \in DOMAIN t : \E k \in DOMAIN s : t[i] = s[k] /\ ~Same(s[k], r)
      /\ \A k \in DOMAIN s : ~Same(s[k], r) => \E i \in DOMAIN t : t[i] = s[k]
  <2>1. CASE of = {}
    <3>1. t = s
      BY <2>1 DEF Without
    <3> HIDE DEF t
    <3> QED
      BY <2>1, <3>1
  <2>2. CASE of # {}
    <3>1. i0 \in of
      <4>1. of \subseteq Nat
        OBVIOUS
      <4> HIDE DEF of
      <4>2. \E i \in of : \A j \in of : i <= j
        BY <2>2, <4>1, LeastNat
      <4> QED
        BY <4>2
    <3>2. i0 \in DOMAIN s /\ Same(s[i0], r)
      BY <3>1
    <3>3. t = RemoveAt(s, i0)
      BY <2>2 DEF Without
    <3> HIDE DEF i0, t
    <3>4. /\ t \in Seq(Recs) /\ Len(t) = Len(s) - 1
          /\ \A j \in 1..(Len(s) - 1) : t[j] = IF j < i0 THEN s[j] ELSE s[j + 1]
      BY <3>2, <3>3, Removal
    <3>5. \A k \in DOMAIN s : Same(s[k], r) => k = i0
      BY <3>2 DEF Same, Unique
    <3>6. DOMAIN s = 1..Len(s) /\ Len(s) \in Nat /\ DOMAIN t = 1..(Len(s) - 1) /\ i0 \in 1..Len(s)
      BY <3>2, <3>4
    <3>7. ASSUME NEW i \in DOMAIN t PROVE \E k \in DOMAIN s : t[i] = s[k] /\ ~Same(s[k], r)
      <4> DEFINE k == IF i < i0 THEN i ELSE i + 1
      <4>1. k \in DOMAIN s /\ k # i0
        BY <3>6
      <4>2. t[i] = s[k]
        BY <3>4, <3>6
      <4> QED
        BY <3>5, <4>1, <4>2
    <3>8. ASSUME NEW k \in DOMAIN s, ~Same(s[k], r) PROVE \E i \in DOMAIN t : t[i] = s[k]
      <4> DEFINE i == IF k < i0 THEN k ELSE k - 1
      <4>1. k # i0
        BY <3>2, <3>8
      <4>2. i \in DOMAIN t /\ (IF i < i0 THEN s[i] ELSE s[i + 1]) = s[k]
        <5>1. CASE k < i0
          BY <3>6, <4>1, <5>1
        <5>2. CASE ~(k < i0)
          <6>1. i = k - 1 /\ ~(i < i0) /\ i + 1 = k /\ i \in DOMAIN t
            BY <3>6, <4>1, <5>2
          <6> QED
            BY <6>1
        <5> QED
          BY <5>1, <5>2
      <4> HIDE DEF i
      <4>3. t[i] = s[k]
        BY <3>4, <3>6, <4>2
      <4> QED
        BY <4>2, <4>3
    <3> QED
      BY <3>7, <3>8
  <2> QED
    BY <2>1, <2>2
<1> QED
  BY <1>1

LEMMA WithoutFollows ==
  ASSUME NEW s \in Seq(Recs), Unique(s), NEW r
  PROVE  /\ \A p, c : InStore(Without(s, r), p, c) <=> InStore(s, p, c) /\ ~(p = r.peer /\ c = r.chr)
         /\ Follows(Without(s, r), r.peer, r.chr, "none")
         /\ \A p, c, sub : ~(p = r.peer /\ c = r.chr) =>
              (Follows(Without(s, r), p, c, sub) <=> Follows(s, p, c, sub))
<1> DEFINE t == Without(s, r)
<1>1. /\ \A i \in DOMAIN t : \E k \in DOMAIN s : t[i] = s[k] /\ ~Same(s[k], r)
      /\ \A k \in DOMAIN s : ~Same(s[k], r) => \E i \in DOMAIN t : t[i] = s[k]
  BY WithoutPlaces
<1> HIDE DEF t
<1>2. \A p, c : InStore(t, p, c) <=> InStore(s, p, c) /\ ~(p = r.peer /\ c = r.chr)
  BY <1>1 DEF InStore, Same
<1>3. Follows(t, r.peer, r.chr, "none")
  BY <1>1 DEF Follows, Same
<1>4. \A p, c, sub : ~(p = r.peer /\ c = r.chr) => (Follows(t, p, c, sub) <=> Follows(s, p, c, sub))
  <2> TAKE p, c, sub
  <2> HAVE ~(p = r.peer /\ c = r.chr)
  <2>1. InStore(t, p, c) <=> InStore(s, p, c)
    BY <1>2
  <2>2. (\A i \in DOMAIN t : t[i].peer = p /\ t[i].chr = c => t[i].sub = sub)
          <=> (\A i \in DOMAIN s : s[i].peer = p /\ s[i].chr = c => s[i].sub = sub)
    BY <1>1 DEF Same
  <2> QED
    BY <2>1, <2>2 DEF Follows
<1> QED
  BY <1>2, <1>3, <1>4 DEF t

(* The places that the walks look for, by their rank *)
LEMMA PeerRanks ==
  ASSUME store \in Seq(Recs), NEW p, NEW n \in Nat
  PROVE  /\ OfPeer(p, n) = {i \in PlacesOf(store, p) : Rank(PlacesOf(store, p), i) = n}
         /\ PlacesOf(store, p) \subseteq Nat \ {0}
<1>1. DOMAIN store = 1..Len(store) /\ Len(store) \in Nat
  OBVIOUS
<1>2. PlacesOf(store, p) \subseteq Nat \ {0}
  BY <1>1 DEF PlacesOf
<1>3. \A i \in DOMAIN store : {j \in 1..i : store[j].peer = p} = UpTo(PlacesOf(store, p), i)
  BY <1>1 DEF UpTo, PlacesOf
<1> QED
  BY <1>2, <1>3 DEF OfPeer, PlacesOf, Rank

-----------------------------------------------------------------------------
(* The store and the subscriptions of the bonded peers *)

(* The application is walking over the records of a characteristic. *)
Working == app.pc \in {"records", "record"}
(* Where the host task may have subscriptions in hand *)
Hands == {"bond", "record", "persist", "restore", "restored"}

(* What the host task is about to make follow *)
InHand(p, c) ==
  \/ host.pc \in {"bond", "record"} /\ host.peer = p /\ <<p, c>> \in host.left
  \/ host.pc \in {"record", "persist"} /\ host.rec # None /\ host.rec.peer = p /\ host.rec.chr = c
  \/ host.pc \in {"restore", "restored"} /\ host.peer = p

(* The first n - 1 records of a peer are in its CCCDs f. *)
Brought(s, f, p, n) ==
  /\ \A c \in Chars : ~InStore(s, p, c) => f[c].sub = "none"
  /\ \A i \in PlacesOf(s, p) : Rank(PlacesOf(s, p), i) < n => f[s[i].chr].sub = s[i].sub

(* There are records of peers with a bond only. *)
Strangers == bonded \subseteq paired /\ \A i \in DOMAIN store : store[i].peer \in paired
(* A peer whose bond is not restored yet has not subscribed here. *)
Away ==
  \A p \in paired \ bonded :
    /\ \A c \in Chars : cccd[p][c].sub = "none"
    /\ \A m \in ToSet(back[p]) : m.op # "cccd"
(* The application walks alone, and what it read it finds again. *)
AppHolds ==
  /\ Working => HostFree
  /\ app.pc = "record" => \E i \in DOMAIN store : store[i] = app.rec
(* A new bond has no record yet of the CCCDs the walk has not come to. *)
Bonding ==
  host.pc \in {"bond", "record"} =>
    /\ host.peer \in bonded /\ host.left \subseteq {host.peer} \X Chars
    /\ \A c \in Chars : <<host.peer, c>> \in host.left => ~InStore(store, host.peer, c)
    /\ host.pc = "record" =>
         host.rec.peer = host.peer /\ <<host.rec.peer, host.rec.chr>> \notin host.left
(* What is about to be recorded is what the connection has. *)
Recording ==
  host.pc \in {"record", "persist"} /\ host.rec # None =>
    host.rec.peer \in bonded /\ host.rec.sub = cccd[host.rec.peer][host.rec.chr].sub
(* The records of a peer are in its CCCDs as far as the walk has come. *)
Returning ==
  host.pc \in {"restore", "restored"} =>
    /\ host.peer \in bonded /\ host.idx > 0
    /\ Brought(store, cccd[host.peer], host.peer,
               IF host.pc = "restored" THEN host.idx + 1 ELSE host.idx)
    /\ host.pc = "restored" => \E i \in DOMAIN store : store[i] = host.rec
Followed ==
  \A p \in bonded, c \in Chars : Follows(store, p, c, cccd[p][c].sub) \/ InHand(p, c)

Stored == Strangers /\ Away /\ AppHolds /\ Bonding /\ Recording /\ Returning /\ Followed

LEMMA SameBrought ==
  ASSUME NEW s, NEW t, SameSubs(s, t), NEW f, NEW g,
         \A c \in Chars : g[c].sub = f[c].sub, \A i \in DOMAIN s : s[i].chr \in Chars,
         NEW p, NEW n, Brought(s, f, p, n)
  PROVE  Brought(t, g, p, n)
<1>1. PlacesOf(t, p) = PlacesOf(s, p) /\ \A c : InStore(t, p, c) <=> InStore(s, p, c)
  BY SameFollows
<1>2. \A i \in PlacesOf(s, p) : i \in DOMAIN s /\ t[i].chr = s[i].chr /\ t[i].sub = s[i].sub
  BY DEF PlacesOf, SameSubs
<1> QED
  BY <1>1, <1>2 DEF Brought

(* A step that changes no subscription and takes nothing in hand *)
LEMMA FrameStored ==
  ASSUME Types, Stored, SameSubs(store, store'), bonded' = bonded, paired' = paired,
         \A p \in Peers, c \in Chars : cccd'[p][c].sub = cccd[p][c].sub,
         \A p \in paired \ bonded : \A m \in ToSet(back'[p]) : m.op # "cccd",
         AppHolds', host' = host \/ (host.pc \notin Hands /\ host'.pc \notin Hands),
         host'.pc = "restored" => store' = store
  PROVE  Stored'
<1>0. /\ paired \subseteq Peers /\ bonded \subseteq Peers
      /\ \A i \in DOMAIN store : store[i] \in Recs /\ store[i].chr \in Chars
      /\ \A r \in Recs : r.peer \in Peers /\ r.chr \in Chars
  <2>1. store \in Seq(Recs)
    BY DEF Types, StoreTypes
  <2>2. \A i \in DOMAIN store : store[i] \in Recs
    BY <2>1
  <2> QED
    BY <2>2 DEF Types, LinkTypes, Recs
<1>1. Strangers'
  BY DEF Stored, Strangers, SameSubs
<1>2. Away'
  BY <1>0 DEF Stored, Away
<1>3. /\ \A p : PlacesOf(store', p) = PlacesOf(store, p)
      /\ \A p, c : InStore(store', p, c) <=> InStore(store, p, c)
      /\ \A p, c, sub : Follows(store', p, c, sub) <=> Follows(store, p, c, sub)
  BY SameFollows
<1>4. CASE host' = host
  <2>1. Bonding'
    BY <1>3, <1>4 DEF Stored, Bonding
  <2>2. Recording'
    <3> SUFFICES ASSUME host.pc \in {"record", "persist"}, host.rec # None
                 PROVE  /\ host.rec.peer \in bonded
                        /\ host.rec.sub = cccd'[host.rec.peer][host.rec.chr].sub
      BY <1>4 DEF Recording
    <3>1. host.rec.peer \in bonded /\ host.rec.sub = cccd[host.rec.peer][host.rec.chr].sub
      BY DEF Stored, Recording
    <3>2. host.rec \in Recs
      BY DEF Types, SideTypes, GoodHost, Hosts
    <3> QED
      BY <1>0, <3>1, <3>2
  <2>3. Returning'
    <3> SUFFICES ASSUME host.pc \in {"restore", "restored"}
                 PROVE  /\ host.peer \in bonded /\ host.idx > 0
                        /\ Brought(store', cccd'[host.peer], host.peer,
                                   IF host.pc = "restored" THEN host.idx + 1 ELSE host.idx)
                        /\ host.pc = "restored" => \E i \in DOMAIN store' : store'[i] = host.rec
      BY <1>4 DEF Returning
    <3> DEFINE n == IF host.pc = "restored" THEN host.idx + 1 ELSE host.idx
    <3>1. /\ host.peer \in bonded /\ host.idx > 0 /\ Brought(store, cccd[host.peer], host.peer, n)
          /\ host.pc = "restored" => \E i \in DOMAIN store : store[i] = host.rec
      BY DEF Stored, Returning
    <3> HIDE DEF n
    <3>2. \A c \in Chars : cccd'[host.peer][c].sub = cccd[host.peer][c].sub
      BY <1>0, <3>1
    <3>3. Brought(store', cccd'[host.peer], host.peer, n)
      <4>1. \A i \in DOMAIN store : store[i].chr \in Chars
        BY <1>0
      <4>2. Brought(store, cccd[host.peer], host.peer, n)
        BY <3>1
      <4> QED
        BY <3>2, <4>1, <4>2, SameBrought, Zenon
    <3>4. host.pc = "restored" => \E i \in DOMAIN store' : store'[i] = host.rec
      BY <1>4, <3>1
    <3> QED
      BY <3>1, <3>3, <3>4 DEF n
  <2>4. Followed'
    <3> SUFFICES ASSUME NEW p \in bonded, NEW c \in Chars
                 PROVE  Follows(store', p, c, cccd'[p][c].sub) \/ InHand(p, c)'
      BY DEF Followed
    <3>1. Follows(store, p, c, cccd[p][c].sub) \/ InHand(p, c)
      BY DEF Stored, Followed
    <3>2. InHand(p, c)' <=> InHand(p, c)
      BY <1>4 DEF InHand
    <3> QED
      BY <1>0, <1>3, <3>1, <3>2
  <2> QED
    BY <1>1, <1>2, <2>1, <2>2, <2>3, <2>4 DEF Stored
<1>5. CASE host.pc \notin Hands /\ host'.pc \notin Hands
  <2>1. Bonding' /\ Recording' /\ Returning'
    BY <1>5 DEF Bonding, Recording, Returning, Hands
  <2>2. Followed'
    <3> SUFFICES ASSUME NEW p \in bonded, NEW c \in Chars
                 PROVE  Follows(store', p, c, cccd'[p][c].sub)
      BY DEF Followed
    <3>1. Follows(store, p, c, cccd[p][c].sub)
      BY <1>5 DEF Stored, Followed, InHand, Hands
    <3> QED
      BY <1>0, <1>3, <3>1
  <2> QED
    BY <1>1, <1>2, <2>1, <2>2 DEF Stored
<1> QED
  BY <1>4, <1>5

LEMMA SameItself == \A s : SameSubs(s, s)
BY DEF SameSubs

(* The host task runs only when the application does not. *)
LEMMA HostWorks ==
  ASSUME Preempt = FALSE, NEW pc, HostStep(pc)
  PROVE  host.pc = pc /\ send["host"].pc = "idle" /\ ~Working
BY DEF HostStep, HostMayRun, Working

LEMMA HostKeepsApp ==
  ASSUME Preempt = FALSE, NEW pc, HostStep(pc), app' = app
  PROVE  AppHolds'
<1>1. ~Working
  BY HostWorks
<1> QED
  BY <1>1 DEF AppHolds, Working

LEMMA HostFrameStored ==
  ASSUME Preempt = FALSE, Types, Stored, NEW pc, HostStep(pc),
         UNCHANGED <<store, bonded, paired, back, app>>,
         \A p \in Peers, c \in Chars : cccd'[p][c].sub = cccd[p][c].sub,
         pc \notin Hands, host'.pc \notin Hands
  PROVE  Stored'
<1>1. AppHolds' /\ host.pc = pc
  BY HostKeepsApp, HostWorks
<1>2. \A p \in paired \ bonded : \A m \in ToSet(back'[p]) : m.op # "cccd"
  BY DEF Stored, Away
<1> QED
  BY <1>1, <1>2, SameItself, FrameStored DEF Hands

LEMMA SendKeepsStored ==
  ASSUME Preempt = FALSE, Types, Stored, NEW a \in Actors, Send(a)
  PROVE  Stored'
<1>1. UNCHANGED <<store, bonded, paired, back, app, host, cccd>>
  BY DEF Send, ReadValue, SendValue, MarkWaiting, InsertProc, connVars, gattVars, peerVars
<1>2. MayRun(a)
  BY DEF Send, ReadValue, SendValue, MarkWaiting, InsertProc
<1>3. \A b \in Actors : b # a => send'[b] = send[b]
  BY DEF Types, SideTypes, Send, ReadValue, SendValue, MarkWaiting, InsertProc
<1>4. AppHolds'
  <2>1. CASE a = "host"
    <3>1. ~Working
      BY <1>2, <2>1 DEF MayRun, HostMayRun, Working
    <3> QED
      BY <1>1, <3>1 DEF AppHolds, Working
  <2>2. CASE a = "app"
    <3>1. send'["host"] = send["host"]
      BY <1>3, <2>2 DEF Actors
    <3> QED
      BY <1>1, <3>1 DEF Stored, AppHolds, Working, HostFree
  <2> QED
    BY <2>1, <2>2 DEF Actors
<1>5. \A p \in paired \ bonded : \A m \in ToSet(back'[p]) : m.op # "cccd"
  BY <1>1 DEF Stored, Away
<1>6. SameSubs(store, store')
  BY <1>1, SameItself
<1> QED
  BY <1>1, <1>4, <1>5, <1>6, FrameStored

LEMMA AppKeepsStored ==
  ASSUME Preempt = FALSE, Types, Stored, AppNext
  PROVE  Stored'
<1>0. UNCHANGED <<bonded, paired, back, host>> /\ HostFree
  <2>1. AppMayRun \/ app.pc \in {"records", "record"}
    BY DEF AppNext, WriteRecord, ReadRecord, ChrUpdated, SendToOne, setValue
  <2>2. HostFree
    BY <2>1 DEF AppMayRun, Stored, AppHolds, Working
  <2> QED
    BY <2>2 DEF AppNext, setValue, SendToOne, ChrUpdated, ReadRecord, WriteRecord, connVars, peerVars
<1>1. host.pc = "idle" /\ send["host"].pc = "idle" /\ host.pc \notin Hands
  BY <1>0 DEF HostFree, Hands
<1>2. \A p \in paired \ bonded : \A m \in ToSet(back'[p]) : m.op # "cccd"
  BY <1>0 DEF Stored, Away
<1>3. ASSUME UNCHANGED <<store, cccd>>, AppHolds' PROVE Stored'
  BY <1>0, <1>1, <1>2, <1>3, SameItself, FrameStored
<1>4. CASE \E c \in Chars : setValue(c)
  <2>1. PICK c \in Chars : setValue(c)
    BY <1>4
  <2>2. UNCHANGED <<store, cccd>> /\ app' = [AppAt("set") EXCEPT !.chr = c]
    BY <2>1 DEF setValue, gattVars
  <2>3. AppHolds'
    BY <2>2 DEF AppHolds, Working, AppAt
  <2> QED
    BY <1>3, <2>2, <2>3
<1>5. CASE SendToOne
  <2>1. UNCHANGED <<store, cccd>> /\ app' = AppAt("idle")
    BY <1>5 DEF SendToOne, gattVars
  <2>2. AppHolds'
    BY <2>1 DEF AppHolds, Working, AppAt
  <2> QED
    BY <1>3, <2>1, <2>2
<1>6. CASE ChrUpdated
  <2>1. PICK marked \in SUBSET {p \in Peers : conn[p] = "up"} :
          cccd' = [p \in Peers |->
                     IF p \in marked THEN [cccd[p] EXCEPT ![app.chr].mod = TRUE] ELSE cccd[p]]
    BY <1>6 DEF ChrUpdated
  <2>2. store' = store /\ send' = send /\ app' = [app EXCEPT !.pc = "records", !.idx = 1]
    BY <1>6 DEF ChrUpdated
  <2>3. AppHolds'
    <3>1. app'.pc = "records"
      BY <2>2 DEF Types, SideTypes, GoodApp, Apps
    <3> QED
      BY <1>0, <2>2, <3>1 DEF AppHolds, Working, HostFree
  <2>4. ASSUME NEW p \in Peers, NEW c \in Chars PROVE cccd'[p][c].sub = cccd[p][c].sub
    <3>1. cccd[p] \in [Chars -> Cfgs] /\ \A x \in Chars : cccd[p][x] \in Cfgs
      BY DEF Types, GattTypes
    <3>2. \A x \in Cfgs : [x EXCEPT !.mod = TRUE].sub = x.sub
      BY DEF Cfgs
    <3>3. CASE p \in marked
      <4>1. cccd'[p] = [cccd[p] EXCEPT ![app.chr].mod = TRUE]
        BY <2>1, <3>3
      <4>2. cccd'[p][c] = IF c = app.chr THEN [cccd[p][c] EXCEPT !.mod = TRUE] ELSE cccd[p][c]
        BY <3>1, <4>1
      <4> QED
        BY <3>1, <3>2, <4>2
    <3>4. CASE p \notin marked
      BY <2>1, <3>4
    <3> QED
      BY <3>3, <3>4
  <2> QED
    BY <1>0, <1>1, <1>2, <2>2, <2>3, <2>4, SameItself, FrameStored
<1>7. CASE ReadRecord
  <2>1. UNCHANGED <<store, cccd, send>>
    BY <1>7 DEF ReadRecord, gattVars
  <2>2. app \in Apps
    BY DEF Types, SideTypes, GoodApp
  <2>3. CASE app' = AppAt("idle")
    <3>1. AppHolds'
      BY <2>3 DEF AppHolds, Working, AppAt
    <3> QED
      BY <1>3, <2>1, <3>1
  <2>4. CASE \E i \in OfChr(app.chr, app.idx) :
               app' = IF store[i].changed THEN [app EXCEPT !.idx = @ + 1]
                      ELSE [app EXCEPT !.pc = "record", !.rec = store[i]]
    <3>1. PICK i \in DOMAIN store :
               app' = IF store[i].changed THEN [app EXCEPT !.idx = @ + 1]
                      ELSE [app EXCEPT !.pc = "record", !.rec = store[i]]
      BY <2>4, Places
    <3>2. app'.pc = "records" \/ (app'.pc = "record" /\ app'.rec = store[i])
      BY <1>7, <2>2, <3>1 DEF Apps, ReadRecord
    <3>3. AppHolds'
      BY <1>0, <2>1, <3>2 DEF AppHolds, HostFree
    <3> QED
      BY <1>3, <2>1, <3>3
  <2> QED
    BY <1>7, <2>3, <2>4 DEF ReadRecord
<1>8. CASE WriteRecord
  <2> DEFINE r == [app.rec EXCEPT !.changed = TRUE]
  <2>1. /\ UNCHANGED <<cccd, send>> /\ store' = Put(store, r) /\ app.pc = "record"
        /\ app' = [app EXCEPT !.pc = "records", !.idx = @ + 1, !.rec = None]
    BY <1>8 DEF WriteRecord, gattVars
  <2>2. app \in Apps /\ app.rec \in Recs /\ store \in Seq(Recs) /\ Unique(store)
    BY <2>1 DEF Types, SideTypes, StoreTypes, GoodApp
  <2>3. r \in Recs /\ Same(app.rec, r) /\ r.sub = app.rec.sub
    <3> DEFINE q == app.rec
    <3>1. q \in Recs
      BY <2>2
    <3> HIDE DEF q
    <3>2. [q EXCEPT !.changed = TRUE] \in Recs /\ Same(q, [q EXCEPT !.changed = TRUE])
          /\ [q EXCEPT !.changed = TRUE].sub = q.sub
      BY <3>1 DEF Recs, Same
    <3> QED
      BY <3>2 DEF q
  <2>4. PICK i \in DOMAIN store : store[i] = app.rec
    BY <2>1 DEF Stored, AppHolds
  <2> HIDE DEF r
  <2>5. SameSubs(store, store')
    BY <2>1, <2>2, <2>3, <2>4, PutBack
  <2>6. app'.pc = "records"
    BY <2>1, <2>2 DEF Apps
  <2>7. AppHolds'
    BY <1>0, <2>1, <2>6 DEF AppHolds, HostFree
  <2> QED
    BY <1>0, <1>1, <1>2, <2>1, <2>5, <2>7, FrameStored
<1> QED
  BY <1>4, <1>5, <1>6, <1>7, <1>8, SMTT(60) DEF AppNext

LEMMA HostSendsKeepStored ==
  ASSUME Preempt = FALSE, Types, Stored,
         TxNotifications \/ TxOne \/ TxDone \/ SendNextIndicate
  PROVE  Stored'
<1>0. UNCHANGED <<store, bonded, paired, back, app>>
  BY DEF TxNotifications, TxOne, TxDone, SendNextIndicate, Stay, connVars, peerVars
<1>1. \A pc \in {"idle", "tx"} : HostAt(pc).pc \notin Hands /\ HostAt(pc).pc = pc
  BY DEF HostAt, Hands
<1>2. \A pc \in {"idle", "tx", "next"} : pc \notin Hands
  BY DEF Hands
<1>3. ASSUME NEW p \in Peers, NEW c \in Chars, cccd' = [cccd EXCEPT ![p][c].mod = FALSE]
      PROVE  \A q \in Peers, d \in Chars : cccd'[q][d].sub = cccd[q][d].sub
  <2> TAKE q \in Peers, d \in Chars
  <2>1. cccd' = [cccd EXCEPT ![p][c] = [cccd[p][c] EXCEPT !.mod = FALSE]]
    BY <1>3, Unmodified DEF Types
  <2>2. /\ cccd \in [Peers -> [Chars -> Cfgs]] /\ cccd[p][c] \in Cfgs
    BY DEF Types, GattTypes
  <2>3. [cccd[p][c] EXCEPT !.mod = FALSE].sub = cccd[p][c].sub
    BY <2>2 DEF Cfgs
  <2> QED
    BY <2>1, <2>2, <2>3
<1>4. CASE TxNotifications
  <2>1. HostStep("idle") /\ cccd' = cccd /\ host' = [HostAt("tx") EXCEPT !.left = Pairs]
    BY <1>4 DEF TxNotifications, gattVars
  <2>2. host'.pc = "tx"
    BY <2>1 DEF HostAt
  <2> QED
    BY <1>0, <1>2, <2>1, <2>2, HostFrameStored
<1>5. CASE TxOne
  <2>1. HostStep("tx")
    BY <1>5 DEF TxOne
  <2>2. PICK x \in host.left :
          LET p == x[1]  c == x[2] IN
          /\ host' = [host EXCEPT !.left = @ \ {x}]
          /\ IF conn[p] = "up" /\ Due(p, cccd[p][c])
             THEN cccd' = [cccd EXCEPT ![p][c].mod = FALSE]
             ELSE cccd' = cccd
    BY <1>5 DEF TxOne
  <2>3. x[1] \in Peers /\ x[2] \in Chars /\ host \in Hosts
    BY DEF Types, SideTypes, GoodHost, Hosts, Pairs
  <2>4. host'.pc = "tx"
    BY <2>1, <2>2, <2>3 DEF Hosts, HostStep
  <2>5. \A q \in Peers, d \in Chars : cccd'[q][d].sub = cccd[q][d].sub
    BY <1>3, <2>2, <2>3
  <2> QED
    BY <1>0, <1>2, <2>1, <2>4, <2>5, HostFrameStored
<1>6. CASE TxDone
  <2>1. HostStep("tx") /\ cccd' = cccd /\ host' = HostAt("idle")
    BY <1>6 DEF TxDone, gattVars
  <2> QED
    BY <1>0, <1>1, <1>2, <2>1, HostFrameStored
<1>7. CASE SendNextIndicate
  <2>1. HostStep("next") /\ host' = HostAt("idle") /\ host.peer \in Peers
    BY <1>7 DEF SendNextIndicate, HostStep, Types, SideTypes, GoodHost
  <2>2. \/ cccd' = cccd
        \/ \E c \in Chars : cccd' = [cccd EXCEPT ![host.peer][c].mod = FALSE]
    BY <1>7 DEF SendNextIndicate
  <2>3. \A q \in Peers, d \in Chars : cccd'[q][d].sub = cccd[q][d].sub
    BY <1>3, <2>1, <2>2
  <2> QED
    BY <1>0, <1>1, <1>2, <2>1, <2>3, HostFrameStored
<1> QED
  BY <1>4, <1>5, <1>6, <1>7

(* With nothing in hand the store follows everywhere. *)
LEMMA AllFollow ==
  ASSUME Stored, host.pc \notin Hands
  PROVE  \A p \in bonded, c \in Chars : Follows(store, p, c, cccd[p][c].sub)
BY DEF Stored, Followed, InHand, Hands

LEMMA ConfirmationKeepsStored ==
  ASSUME Preempt = FALSE, Types, Stored, NEW p \in Peers, Confirmation(p)
  PROVE  Stored'
<1>1. /\ HostStep("idle") /\ UNCHANGED <<store, bonded, paired, app, cccd, conn>>
      /\ back' = [back EXCEPT ![p] = Tail(@)] /\ back[p] # <<>>
  BY DEF Confirmation, Incoming, connVars
<1>2. host.pc = "idle" /\ host.pc \notin Hands /\ AppHolds'
  BY <1>1, HostKeepsApp, HostWorks DEF Hands
<1>3. \A q \in paired \ bonded : \A m \in ToSet(back'[q]) : m.op # "cccd"
  <2> SUFFICES ASSUME NEW q \in paired \ bonded, NEW m \in ToSet(back'[q]) PROVE m.op # "cccd"
    OBVIOUS
  <2>1. back \in [Peers -> Seq(Backs)] /\ q \in Peers
    BY DEF Types, PeerTypes, LinkTypes
  <2>2. ToSet(back'[q]) \subseteq ToSet(back[q])
    <3>1. ToSet(back[p]) = {Head(back[p])} \cup ToSet(Tail(back[p]))
      BY <1>1, <2>1, TailKeeps
    <3> QED
      BY <1>1, <2>1, <3>1
  <2> QED
    BY <2>2 DEF Stored, Away
<1>4. CASE host' = host
  BY <1>1, <1>2, <1>3, <1>4, SameItself, FrameStored
<1>5. CASE \E c \in Chars :
             host' = [HostAt("persist") EXCEPT !.peer = p,
                       !.rec = IF p \in bonded /\ ~cccd[p][c].mod
                               THEN Record(p, c, cccd[p][c], FALSE) ELSE None]
  <2>1. PICK c \in Chars :
             host' = [HostAt("persist") EXCEPT !.peer = p,
                       !.rec = IF p \in bonded /\ ~cccd[p][c].mod
                               THEN Record(p, c, cccd[p][c], FALSE) ELSE None]
    BY <1>5
  <2>2. host'.pc = "persist"
    BY <2>1 DEF HostAt
  <2>3. host'.rec # None => host'.rec = Record(p, c, cccd[p][c], FALSE) /\ p \in bonded
    BY <2>1 DEF HostAt
  <2>4. Recording'
    BY <1>1, <2>3 DEF Recording, Record
  <2>5. Bonding' /\ Returning'
    BY <2>2 DEF Bonding, Returning
  <2>6. Followed'
    BY <1>1, <1>2, AllFollow DEF Followed
  <2>7. Strangers' /\ Away'
    BY <1>1, <1>3 DEF Stored, Strangers, Away
  <2> QED
    BY <1>2, <2>4, <2>5, <2>6, <2>7 DEF Stored
<1> DEFINE Kept(c) == [HostAt("persist") EXCEPT !.peer = p,
                         !.rec = IF p \in bonded /\ ~cccd[p][c].mod
                                 THEN Record(p, c, cccd[p][c], FALSE) ELSE None]
<1>6. host' = host \/ \E c \in Chars : host' = Kept(c)
  <2>1. CASE procs[p] = <<>>
    BY <2>1 DEF Confirmation
  <2>2. CASE procs[p] # <<>>
    <3>1. procs[p] \in Seq(Chars)
      BY DEF Types, GattTypes
    <3>2. Head(procs[p]) \in Chars
      BY <2>2, <3>1
    <3>3. host' = host \/ host' = Kept(Head(procs[p]))
      BY <2>2 DEF Confirmation
    <3> QED
      BY <3>2, <3>3
  <2> QED
    BY <2>1, <2>2
<1> QED
  BY <1>4, <1>5, <1>6

LEMMA CccdWriteKeepsStored ==
  ASSUME Preempt = FALSE, None \notin Recs, Types, Stored, NEW p \in Peers, CccdWrite(p)
  PROVE  Stored'
<1> DEFINE m == Head(back[p])
           new == [sub |-> m.sub, mod |-> FALSE]
<1>1. /\ HostStep("idle") /\ UNCHANGED <<store, bonded, paired, app, conn>>
      /\ back' = [back EXCEPT ![p] = Tail(@)] /\ back[p] # <<>> /\ m.op = "cccd"
      /\ cccd' = [cccd EXCEPT ![p][m.chr] = new]
      /\ host' = IF cccd[p][m.chr] # new /\ p \in bonded
                 THEN [HostAt("persist") EXCEPT !.rec = Record(p, m.chr, new, FALSE)]
                 ELSE HostAt("idle")
  BY DEF CccdWrite, Incoming, connVars
<1>2. host.pc = "idle" /\ host.pc \notin Hands /\ AppHolds'
  BY <1>1, HostKeepsApp, HostWorks DEF Hands
<1>3. back \in [Peers -> Seq(Backs)] /\ bonded \subseteq Peers /\ paired \subseteq Peers
      /\ cccd \in [Peers -> [Chars -> Cfgs]]
  BY DEF Types, PeerTypes, LinkTypes, GattTypes
<1>4. m \in Backs /\ ToSet(back[p]) = {m} \cup ToSet(Tail(back[p]))
  <2>1. back[p] \in Seq(Backs)
    BY <1>3
  <2> QED
    BY <1>1, <2>1, TailKeeps
<1>5. m.chr \in Chars /\ m.sub \in Subs
  BY <1>1, <1>4 DEF Backs
<1>6. p \notin paired \ bonded
  BY <1>1, <1>4 DEF Stored, Away
<1> HIDE DEF m
<1>7. \A q \in paired \ bonded : back'[q] = back[q] /\ cccd'[q] = cccd[q]
  BY <1>1, <1>3, <1>6
<1>8. Strangers' /\ Away'
  BY <1>1, <1>7 DEF Stored, Strangers, Away
<1>9. \A q \in Peers, d \in Chars : cccd'[q][d] = IF q = p /\ d = m.chr THEN new ELSE cccd[q][d]
  <2> HIDE DEF new
  <2> QED
    BY <1>1, <1>3, <1>5
<1>10. CASE cccd[p][m.chr] # new /\ p \in bonded
  <2>1. /\ host'.pc = "persist" /\ host'.rec = Record(p, m.chr, new, FALSE)
    BY <1>1, <1>10 DEF HostAt
  <2>2. /\ host'.rec.peer = p /\ host'.rec.chr = m.chr /\ host'.rec.sub = m.sub
    BY <2>1 DEF Record
  <2>3. Recording'
    <3>1. cccd'[p][m.chr] = new
      <4> HIDE DEF new
      <4> QED
        BY <1>5, <1>9
    <3>2. cccd'[p][m.chr].sub = m.sub
      BY <3>1
    <3> HIDE DEF new
    <3>3. bonded' = bonded /\ p \in bonded
      BY <1>1, <1>10
    <3>4. host'.rec.peer \in bonded'
      BY <2>2, <3>3
    <3>5. host'.rec.sub = cccd'[host'.rec.peer][host'.rec.chr].sub
      BY <2>2, <3>2
    <3> QED
      BY <3>4, <3>5 DEF Recording
  <2>4. Bonding' /\ Returning'
    BY <2>1 DEF Bonding, Returning
  <2>5. host'.rec # None
    <3>1. new \in Cfgs
      BY <1>5 DEF Cfgs
    <3>2. Record(p, m.chr, new, FALSE) \in Recs
      <4> HIDE DEF new
      <4> QED
        BY <1>5, <3>1, RecordTypes
    <3> QED
      BY <2>1, <3>2
  <2>6. Followed'
    <3> SUFFICES ASSUME NEW q \in bonded, NEW d \in Chars
                 PROVE  Follows(store, q, d, cccd'[q][d].sub) \/ InHand(q, d)'
      BY <1>1 DEF Followed
    <3>1. Follows(store, q, d, cccd[q][d].sub)
      BY <1>2, AllFollow
    <3>2. CASE q = p /\ d = m.chr
      BY <2>1, <2>2, <2>5, <3>2 DEF InHand
    <3>3. CASE ~(q = p /\ d = m.chr)
      BY <1>3, <1>9, <3>1, <3>3
    <3> QED
      BY <3>2, <3>3
  <2> QED
    BY <1>2, <1>8, <2>3, <2>4, <2>6 DEF Stored
<1>11. CASE ~(cccd[p][m.chr] # new /\ p \in bonded)
  <2>1. host'.pc = "idle"
    BY <1>1, <1>11 DEF HostAt
  <2>2. Bonding' /\ Returning' /\ Recording'
    BY <2>1 DEF Bonding, Returning, Recording
  <2>3. Followed'
    <3> SUFFICES ASSUME NEW q \in bonded, NEW d \in Chars
                 PROVE  Follows(store, q, d, cccd'[q][d].sub)
      BY <1>1 DEF Followed
    <3>1. cccd'[q][d] = cccd[q][d]
      BY <1>3, <1>9, <1>11
    <3> QED
      BY <1>2, <3>1, AllFollow
  <2> QED
    BY <1>2, <1>8, <2>2, <2>3 DEF Stored
<1> QED
  BY <1>10, <1>11

LEMMA PersistKeepsStored ==
  ASSUME Preempt = FALSE, Types, Stored, Persist
  PROVE  Stored'
<1>1. /\ HostStep("persist") /\ UNCHANGED <<bonded, paired, app, conn, back, cccd>>
      /\ store' = CASE host.rec = None -> store
                    [] host.rec # None /\ host.peer = None /\ host.rec.sub = "none" ->
                         Without(store, host.rec)
                    [] OTHER -> Put(store, host.rec)
      /\ host'.pc \in {"idle", "next"}
  BY DEF Persist, Stay, connVars, peerVars, gattVars, HostAt
<1>2. host.pc = "persist" /\ AppHolds'
  BY <1>1, HostKeepsApp, HostWorks
<1>3. store \in Seq(Recs) /\ Unique(store) /\ host.rec \in Recs \cup {None}
      /\ bonded \subseteq paired
  BY DEF Types, SideTypes, GoodHost, Hosts, StoreTypes, Stored, Strangers
<1>4. Bonding' /\ Returning' /\ Recording'
  BY <1>1 DEF Bonding, Returning, Recording
<1>5. Away'
  BY <1>1 DEF Stored, Away
<1>6. \A q, c : InHand(q, c) => host.rec # None /\ q = host.rec.peer /\ c = host.rec.chr
  BY <1>2 DEF InHand
<1>7. CASE host.rec = None
  <2>1. store' = store
    BY <1>1, <1>7
  <2>2. Followed'
    BY <1>1, <1>6, <1>7, <2>1 DEF Stored, Followed
  <2> QED
    BY <1>1, <1>2, <1>4, <1>5, <2>1, <2>2 DEF Stored, Strangers
<1>8. CASE host.rec # None
  <2>1. host.rec \in Recs /\ host.rec.peer \in bonded /\ host.rec.sub = cccd[host.rec.peer][host.rec.chr].sub
    BY <1>2, <1>3, <1>8 DEF Stored, Recording
  <2>2. /\ \A q, c : InStore(store', q, c) => InStore(store, q, c) \/ (q = host.rec.peer /\ c = host.rec.chr)
        /\ Follows(store', host.rec.peer, host.rec.chr, host.rec.sub)
        /\ \A q, c, sub : ~(q = host.rec.peer /\ c = host.rec.chr) =>
              (Follows(store, q, c, sub) => Follows(store', q, c, sub))
    <3>1. CASE host.peer = None /\ host.rec.sub = "none"
      <4>1. store' = Without(store, host.rec)
        BY <1>1, <1>8, <3>1
      <4> QED
        BY <1>3, <3>1, <4>1, WithoutFollows
    <3>2. CASE ~(host.peer = None /\ host.rec.sub = "none")
      <4>1. store' = Put(store, host.rec)
        BY <1>1, <1>8, <3>2
      <4> QED
        BY <1>3, <2>1, <4>1, PutFollows
    <3> QED
      BY <3>1, <3>2
  <2>3. Strangers'
    <3>1. ASSUME NEW i \in DOMAIN store' PROVE store'[i].peer \in paired
      <4>1. InStore(store', store'[i].peer, store'[i].chr)
        BY DEF InStore
      <4>2. InStore(store, store'[i].peer, store'[i].chr) \/ store'[i].peer = host.rec.peer
        BY <2>2, <4>1
      <4> QED
        BY <1>3, <2>1, <4>2 DEF InStore, Stored, Strangers
    <3> QED
      BY <1>1, <1>3, <3>1 DEF Strangers
  <2>4. Followed'
    <3> SUFFICES ASSUME NEW q \in bonded, NEW d \in Chars PROVE Follows(store', q, d, cccd[q][d].sub)
      BY <1>1 DEF Followed
    <3>1. Follows(store, q, d, cccd[q][d].sub) \/ (q = host.rec.peer /\ d = host.rec.chr)
      BY <1>6 DEF Stored, Followed
    <3> QED
      BY <2>1, <2>2, <3>1
  <2> QED
    BY <1>2, <1>4, <1>5, <2>3, <2>4 DEF Stored
<1> QED
  BY <1>7, <1>8

(* A new bond *)
LEMMA BondKeepsStored ==
  ASSUME Preempt = FALSE, None \notin Recs, Types, Stored,
         (\E p \in Peers : Pair(p)) \/ BondOne \/ BondRecord \/ BondDone
  PROVE  Stored'
<1>1. /\ store \in Seq(Recs) /\ Unique(store) /\ bonded \subseteq paired /\ paired \subseteq Peers
      /\ cccd \in [Peers -> [Chars -> Cfgs]] /\ \A q \in Peers, c \in Chars : cccd[q][c] \in Cfgs
      /\ host \in Hosts
  BY DEF Types, LinkTypes, GattTypes, SideTypes, GoodHost, StoreTypes, Stored, Strangers
<1>2. CASE \E p \in Peers : Pair(p)
  <2>1. PICK p \in Peers : Pair(p)
    BY <1>2
  <2>2. /\ HostStep("idle") /\ UNCHANGED <<store, cccd, back, app>>
        /\ p \notin paired /\ paired' = paired \cup {p} /\ bonded' = bonded \cup {p}
        /\ host' = [HostAt("bond") EXCEPT !.peer = p, !.left = {p} \X Chars]
    BY <2>1 DEF Pair, gattVars, peerVars
  <2>3. host.pc = "idle" /\ host.pc \notin Hands /\ AppHolds'
    BY <2>2, HostKeepsApp, HostWorks DEF Hands
  <2>4. host'.pc = "bond" /\ host'.peer = p /\ host'.left = {p} \X Chars
    BY <2>2 DEF HostAt
  <2>5. Strangers' /\ Away'
    BY <2>2 DEF Stored, Strangers, Away
  <2>6. \A c : ~InStore(store, p, c)
    BY <2>2 DEF Stored, Strangers, InStore
  <2>7. Bonding' /\ Recording' /\ Returning'
    BY <2>2, <2>4, <2>6 DEF Bonding, Recording, Returning
  <2>8. Followed'
    <3> SUFFICES ASSUME NEW q \in bonded', NEW c \in Chars
                 PROVE  Follows(store, q, c, cccd[q][c].sub) \/ InHand(q, c)'
      BY <2>2 DEF Followed
    <3>1. CASE q = p
      BY <2>4, <3>1 DEF InHand
    <3>2. CASE q # p
      BY <2>2, <2>3, <3>2, AllFollow
    <3> QED
      BY <3>1, <3>2
  <2> QED
    BY <2>3, <2>5, <2>7, <2>8 DEF Stored
<1>3. CASE BondOne
  <2>1. PICK x \in host.left :
          host' = IF cccd[x[1]][x[2]] = NoSub[x[2]] THEN [host EXCEPT !.left = @ \ {x}]
                  ELSE [host EXCEPT !.pc = "record", !.left = @ \ {x},
                                    !.rec = Record(x[1], x[2], cccd[x[1]][x[2]], FALSE)]
    BY <1>3 DEF BondOne
  <2>2. HostStep("bond") /\ UNCHANGED <<store, cccd, back, app, paired, bonded>>
    BY <1>3 DEF BondOne, Stay, gattVars, peerVars, connVars
  <2>3. host.pc = "bond" /\ AppHolds'
    BY <2>2, HostKeepsApp, HostWorks
  <2> DEFINE p == host.peer
             c == x[2]
  <2>4. /\ p \in bonded /\ host.left \subseteq {p} \X Chars
        /\ \A d \in Chars : <<p, d>> \in host.left => ~InStore(store, p, d)
    BY <2>3 DEF Stored, Bonding
  <2>5. x = <<p, c>> /\ x[1] = p /\ c \in Chars /\ p \in Peers
    BY <1>1, <2>4
  <2>6. Strangers' /\ Away'
    BY <2>2 DEF Stored, Strangers, Away
  <2>7. CASE cccd[p][c] = NoSub[c]
    <3>1. host' = [host EXCEPT !.left = @ \ {x}]
      BY <2>1, <2>5, <2>7
    <3>2. host'.pc = "bond" /\ host'.peer = p /\ host'.left = host.left \ {x}
      BY <1>1, <2>3, <3>1 DEF Hosts
    <3>3. Bonding' /\ Recording' /\ Returning'
      BY <2>2, <2>4, <3>2 DEF Bonding, Recording, Returning
    <3>4. Followed'
      <4> SUFFICES ASSUME NEW q \in bonded, NEW d \in Chars
                   PROVE  Follows(store, q, d, cccd[q][d].sub) \/ InHand(q, d)'
        BY <2>2 DEF Followed
      <4>1. Follows(store, q, d, cccd[q][d].sub) \/ InHand(q, d)
        BY DEF Stored, Followed
      <4>2. CASE q = p /\ d = c
        <5>1. cccd[q][d].sub = "none" /\ ~InStore(store, q, d)
          BY <2>4, <2>5, <2>7, <4>2 DEF NoSub
        <5> QED
          BY <5>1 DEF Follows, InStore
      <4>3. CASE ~(q = p /\ d = c)
        <5>1. InHand(q, d) => InHand(q, d)'
          BY <2>3, <2>5, <3>2, <4>3 DEF InHand
        <5> QED
          BY <4>1, <5>1
      <4> QED
        BY <4>2, <4>3
    <3> QED
      BY <2>3, <2>6, <3>3, <3>4 DEF Stored
  <2>8. CASE cccd[p][c] # NoSub[c]
    <3> DEFINE r == Record(p, c, cccd[p][c], FALSE)
    <3>1. host' = [host EXCEPT !.pc = "record", !.left = @ \ {x}, !.rec = r]
      BY <2>1, <2>5, <2>8
    <3>2. r \in Recs /\ r # None /\ r.peer = p /\ r.chr = c /\ r.sub = cccd[p][c].sub
      <4>1. r \in Recs
        BY <1>1, <2>5, RecordTypes
      <4> QED
        BY <4>1 DEF Record
    <3> HIDE DEF r
    <3>3. host'.pc = "record" /\ host'.peer = p /\ host'.left = host.left \ {x} /\ host'.rec = r
      BY <1>1, <2>3, <3>1 DEF Hosts
    <3>4. Bonding' /\ Recording' /\ Returning'
      <4>1. Bonding'
        BY <2>2, <2>4, <2>5, <3>2, <3>3 DEF Bonding
      <4>2. Recording'
        BY <2>2, <2>4, <3>2, <3>3 DEF Recording
      <4> QED
        BY <3>3, <4>1, <4>2 DEF Returning
    <3>5. Followed'
      <4> SUFFICES ASSUME NEW q \in bonded, NEW d \in Chars
                   PROVE  Follows(store, q, d, cccd[q][d].sub) \/ InHand(q, d)'
        BY <2>2 DEF Followed
      <4>1. Follows(store, q, d, cccd[q][d].sub) \/ InHand(q, d)
        BY DEF Stored, Followed
      <4>2. CASE q = p /\ d = c
        BY <3>2, <3>3, <4>2 DEF InHand
      <4>3. CASE ~(q = p /\ d = c)
        <5>1. InHand(q, d) => InHand(q, d)'
          BY <2>3, <2>5, <3>3, <4>3 DEF InHand
        <5> QED
          BY <4>1, <5>1
      <4> QED
        BY <4>2, <4>3
    <3> QED
      BY <2>3, <2>6, <3>4, <3>5 DEF Stored
  <2> QED
    BY <2>7, <2>8
<1>4. CASE BondRecord
  <2>1. /\ HostStep("record") /\ UNCHANGED <<cccd, back, app, paired, bonded>>
        /\ store' = Put(store, host.rec) /\ host' = [host EXCEPT !.pc = "bond", !.rec = None]
    BY <1>4 DEF BondRecord, Stay, gattVars, peerVars, connVars
  <2>2. host.pc = "record" /\ AppHolds'
    BY <2>1, HostKeepsApp, HostWorks
  <2> DEFINE r == host.rec
  <2>3. r \in Recs /\ r # None
    BY <2>2 DEF Types, SideTypes, GoodHost
  <2>4. /\ r.peer \in bonded /\ r.sub = cccd[r.peer][r.chr].sub
        /\ host.peer \in bonded /\ host.left \subseteq {host.peer} \X Chars
        /\ \A c \in Chars : <<host.peer, c>> \in host.left => ~InStore(store, host.peer, c)
        /\ r.peer = host.peer /\ <<r.peer, r.chr>> \notin host.left
    BY <2>2, <2>3 DEF Stored, Recording, Bonding
  <2>5. /\ \A q, c : InStore(store', q, c) <=> InStore(store, q, c) \/ (q = r.peer /\ c = r.chr)
        /\ Follows(store', r.peer, r.chr, r.sub)
        /\ \A q, c, sub : ~(q = r.peer /\ c = r.chr) =>
              (Follows(store', q, c, sub) <=> Follows(store, q, c, sub))
    BY <1>1, <2>1, <2>3, PutFollows
  <2> HIDE DEF r
  <2>6. host'.pc = "bond" /\ host'.peer = host.peer /\ host'.left = host.left
    BY <1>1, <2>1 DEF Hosts
  <2>7. Strangers'
    <3>1. ASSUME NEW i \in DOMAIN store' PROVE store'[i].peer \in paired
      <4>1. InStore(store', store'[i].peer, store'[i].chr)
        BY DEF InStore
      <4>2. InStore(store, store'[i].peer, store'[i].chr) \/ store'[i].peer = r.peer
        BY <2>5, <4>1
      <4> QED
        BY <1>1, <2>4, <4>2 DEF InStore, Stored, Strangers
    <3> QED
      BY <1>1, <2>1, <3>1 DEF Strangers
  <2>8. Away' /\ Recording' /\ Returning'
    BY <2>1, <2>6 DEF Stored, Away, Recording, Returning
  <2>9. Bonding'
    BY <2>1, <2>4, <2>5, <2>6 DEF Bonding
  <2>10. Followed'
    <3> SUFFICES ASSUME NEW q \in bonded, NEW d \in Chars
                 PROVE  Follows(store', q, d, cccd[q][d].sub) \/ InHand(q, d)'
      BY <2>1 DEF Followed
    <3>1. Follows(store, q, d, cccd[q][d].sub) \/ InHand(q, d)
      BY DEF Stored, Followed
    <3>2. CASE q = r.peer /\ d = r.chr
      BY <2>4, <2>5, <3>2
    <3>3. CASE ~(q = r.peer /\ d = r.chr)
      <4>1. InHand(q, d) => InHand(q, d)'
        BY <2>2, <2>6, <3>3 DEF InHand, r
      <4> QED
        BY <2>5, <3>1, <3>3, <4>1
    <3> QED
      BY <3>2, <3>3
  <2> QED
    BY <2>2, <2>7, <2>8, <2>9, <2>10 DEF Stored
<1>5. CASE BondDone
  <2>1. /\ HostStep("bond") /\ UNCHANGED <<store, cccd, back, app, paired, bonded>>
        /\ host.left = {} /\ host'.pc = "idle"
    BY <1>5 DEF BondDone, Stay, gattVars, peerVars, connVars, HostAt
  <2>2. host.pc = "bond" /\ AppHolds'
    BY <2>1, HostKeepsApp, HostWorks
  <2>3. \A q, d : ~InHand(q, d)
    BY <2>1, <2>2 DEF InHand
  <2> QED
    BY <2>1, <2>2, <2>3 DEF Stored, Strangers, Away, Bonding, Recording, Returning, Followed
<1> QED
  BY <1>2, <1>3, <1>4, <1>5

(* A bond is restored. *)
LEMMA RestoreKeepsStored ==
  ASSUME Preempt = FALSE, Types, Stored,
         (\E p \in Peers : Encrypt(p)) \/ RestoreOne \/ RestoredSent \/ RestoreDone
  PROVE  Stored'
<1>1. /\ store \in Seq(Recs) /\ Unique(store) /\ bonded \subseteq paired /\ paired \subseteq Peers
      /\ cccd \in [Peers -> [Chars -> Cfgs]]
      /\ host \in Hosts
  BY DEF Types, LinkTypes, GattTypes, SideTypes, GoodHost, StoreTypes, Stored, Strangers
<1>2. \A i \in DOMAIN store : store[i] \in Recs /\ store[i].chr \in Chars
  <2>1. \A i \in DOMAIN store : store[i] \in Recs
    BY <1>1
  <2> QED
    BY <2>1 DEF Recs
<1>3. \A p : PlacesOf(store, p) \subseteq Nat \ {0}
  BY <1>1, PeerRanks
<1>4. CASE \E p \in Peers : Encrypt(p)
  <2>1. PICK p \in Peers : Encrypt(p)
    BY <1>4
  <2>2. /\ HostStep("idle") /\ UNCHANGED <<store, cccd, back, app, paired>>
        /\ p \in paired \ bonded /\ bonded' = bonded \cup {p}
        /\ host' = [HostAt("restore") EXCEPT !.peer = p]
    BY <2>1 DEF Encrypt, gattVars, peerVars
  <2>3. host.pc = "idle" /\ host.pc \notin Hands /\ AppHolds'
    BY <2>2, HostKeepsApp, HostWorks DEF Hands
  <2>4. host'.pc = "restore" /\ host'.peer = p /\ host'.idx = 1
    BY <2>2 DEF HostAt
  <2>5. Strangers' /\ Away'
    BY <2>2 DEF Stored, Strangers, Away
  <2>6. Brought(store, cccd[p], p, 1)
    <3>1. \A c \in Chars : cccd[p][c].sub = "none"
      BY <2>2 DEF Stored, Away
    <3>2. \A i \in PlacesOf(store, p) : ~(Rank(PlacesOf(store, p), i) < 1)
      <4> TAKE i \in PlacesOf(store, p)
      <4>1. Rank(PlacesOf(store, p), i) \in Nat /\ Rank(PlacesOf(store, p), i) > 0
        BY <1>3, RankGrows
      <4> QED
        BY <4>1
    <3> QED
      BY <3>1, <3>2 DEF Brought
  <2>7. Bonding' /\ Recording' /\ Returning'
    BY <2>2, <2>4, <2>6 DEF Bonding, Recording, Returning
  <2>8. Followed'
    <3> SUFFICES ASSUME NEW q \in bonded', NEW c \in Chars
                 PROVE  Follows(store, q, c, cccd[q][c].sub) \/ InHand(q, c)'
      BY <2>2 DEF Followed
    <3>1. CASE q = p
      BY <2>4, <3>1 DEF InHand
    <3>2. CASE q # p
      BY <2>2, <2>3, <3>2, AllFollow
    <3> QED
      BY <3>1, <3>2
  <2> QED
    BY <2>3, <2>5, <2>7, <2>8 DEF Stored
<1> DEFINE p == host.peer
           n == host.idx
           T == PlacesOf(store, p)
<1>5. CASE RestoreOne
  <2>1. HostStep("restore") /\ UNCHANGED <<store, back, app, paired, bonded>>
    BY <1>5, Zenon DEF RestoreOne, Stay, peerVars, connVars
  <2>2. host.pc = "restore" /\ AppHolds'
    BY <2>1, HostKeepsApp, HostWorks, Zenon
  <2>3. p \in bonded /\ n > 0 /\ n \in Nat /\ Brought(store, cccd[p], p, n) /\ p \in Peers
    BY <1>1, <2>2 DEF Stored, Returning, Hosts
  <2>4. PICK i \in OfPeer(p, n) :
          LET r == store[i]
              cfg == Restored(r)
              now == r.changed /\ Due(p, cfg)
          IN /\ cccd' = [cccd EXCEPT ![p][r.chr] = [cfg EXCEPT !.mod = @ /\ ~now]]
             /\ host' = IF now /\ r.sub = "notify" THEN [host EXCEPT !.pc = "restored", !.rec = r]
                        ELSE [host EXCEPT !.idx = @ + 1]
    BY <1>5, Zenon DEF RestoreOne
  <2> DEFINE r == store[i]
             cfg == [Restored(r) EXCEPT !.mod = @ /\ ~(r.changed /\ Due(p, Restored(r)))]
  <2>5. i \in T /\ Rank(T, i) = n /\ i \in DOMAIN store /\ r \in Recs /\ r.peer = p /\ r.chr \in Chars
    <3>1. i \in T /\ Rank(T, i) = n
      BY <1>1, <2>3, <2>4, PeerRanks
    <3> QED
      BY <1>2, <3>1 DEF PlacesOf
  <2>6. cfg.sub = r.sub
    BY DEF Restored
  <2>7. cccd' = [cccd EXCEPT ![p][r.chr] = cfg]
    BY <2>4
  <2>8. host'.peer = p /\ \/ host'.pc = "restore" /\ host'.idx = n + 1
                          \/ host'.pc = "restored" /\ host'.idx = n /\ host'.rec = r
    <3>1. \/ host' = [host EXCEPT !.pc = "restored", !.rec = r]
          \/ host' = [host EXCEPT !.idx = @ + 1]
      BY <2>4
    <3> QED
      BY <1>1, <2>2, <3>1 DEF Hosts
  <2> HIDE DEF cfg
  <2>9. \A q \in Peers, d \in Chars : cccd'[q][d] = IF q = p /\ d = r.chr THEN cfg ELSE cccd[q][d]
    BY <1>1, <2>3, <2>5, <2>7
  <2>10. Brought(store, cccd'[p], p, n + 1)
    <3>1. ASSUME NEW c \in Chars, ~InStore(store, p, c) PROVE cccd'[p][c].sub = "none"
      <4>1. c # r.chr
        BY <2>5, <3>1 DEF InStore
      <4>2. cccd[p][c].sub = "none"
        BY <2>3, <3>1 DEF Brought
      <4> QED
        BY <2>3, <2>9, <4>1, <4>2
    <3>2. ASSUME NEW k \in T, Rank(T, k) < n + 1 PROVE cccd'[p][store[k].chr].sub = store[k].sub
      <4>1. k \in DOMAIN store /\ store[k].chr \in Chars /\ store[k].peer = p
        BY <1>2 DEF PlacesOf
      <4>2. CASE k = i
        BY <2>3, <2>5, <2>6, <2>9, <4>2
      <4>3. CASE k # i
        <5>1. store[k].chr # r.chr
          BY <1>1, <2>5, <4>1, <4>3 DEF Unique
        <5>2. Rank(T, k) # n /\ Rank(T, k) \in Nat
          <6>1. T \subseteq Nat \ {0}
            BY <1>3
          <6> HIDE DEF T, n
          <6> QED
            BY <2>5, <4>3, <6>1, RankGrows
        <5>3. Rank(T, k) < n
          BY <2>3, <3>2, <5>2
        <5>4. cccd[p][store[k].chr].sub = store[k].sub
          BY <2>3, <5>3 DEF Brought
        <5> QED
          BY <2>3, <2>9, <4>1, <5>1, <5>4
      <4> QED
        BY <4>2, <4>3
    <3> QED
      BY <3>1, <3>2 DEF Brought
  <2>11. Strangers' /\ Away'
    <3>1. \A q \in paired \ bonded : cccd'[q] = cccd[q]
      BY <1>1, <2>3, <2>7
    <3> QED
      BY <2>1, <3>1 DEF Stored, Strangers, Away
  <2>12. Bonding' /\ Recording'
    BY <2>8 DEF Bonding, Recording
  <2>13. Returning'
    <3>1. host'.idx > 0
      BY <2>3, <2>8
    <3>2. (IF host'.pc = "restored" THEN host'.idx + 1 ELSE host'.idx) = n + 1
      BY <2>8
    <3>3. Brought(store', cccd'[host'.peer], host'.peer,
                  IF host'.pc = "restored" THEN host'.idx + 1 ELSE host'.idx)
      BY <2>1, <2>8, <2>10, <3>2
    <3>4. host'.pc = "restored" => \E k \in DOMAIN store : store[k] = host'.rec
      BY <2>5, <2>8
    <3> QED
      BY <2>1, <2>3, <2>8, <3>1, <3>3, <3>4 DEF Returning
  <2>14. Followed'
    <3> SUFFICES ASSUME NEW q \in bonded, NEW d \in Chars
                 PROVE  Follows(store, q, d, cccd'[q][d].sub) \/ InHand(q, d)'
      BY <2>1 DEF Followed
    <3>1. CASE q = p
      BY <2>8, <3>1 DEF InHand
    <3>2. CASE q # p
      <4>1. Follows(store, q, d, cccd[q][d].sub)
        BY <2>2, <3>2 DEF Stored, Followed, InHand
      <4> QED
        BY <1>1, <2>9, <3>2, <4>1
    <3> QED
      BY <3>1, <3>2
  <2> QED
    BY <2>2, <2>11, <2>12, <2>13, <2>14, SMTT(60) DEF Stored
<1>6. CASE RestoredSent
  <2> DEFINE r == [host.rec EXCEPT !.changed = FALSE]
  <2>1. /\ HostStep("restored") /\ UNCHANGED <<cccd, back, app, paired, bonded>>
        /\ store' = IF send["host"].ok THEN Put(store, r) ELSE store
        /\ host' = [host EXCEPT !.pc = "restore", !.idx = @ + 1, !.rec = None]
    BY <1>6 DEF RestoredSent, Stay, gattVars, peerVars, connVars
  <2>2. host.pc = "restored" /\ AppHolds' /\ host.rec \in Recs
    BY <2>1, HostKeepsApp, HostWorks DEF Types, SideTypes, GoodHost
  <2>3. /\ p \in bonded /\ n > 0 /\ n \in Nat /\ Brought(store, cccd[p], p, n + 1) /\ p \in Peers
        /\ \E i \in DOMAIN store : store[i] = host.rec
    BY <1>1, <2>2 DEF Stored, Returning, Hosts
  <2>4. r \in Recs /\ Same(host.rec, r) /\ r.sub = host.rec.sub
    <3> DEFINE q == host.rec
    <3>1. q \in Recs
      BY <2>2
    <3> HIDE DEF q
    <3>2. [q EXCEPT !.changed = FALSE] \in Recs /\ Same(q, [q EXCEPT !.changed = FALSE])
          /\ [q EXCEPT !.changed = FALSE].sub = q.sub
      BY <3>1 DEF Recs, Same
    <3> QED
      BY <3>2 DEF q
  <2> HIDE DEF r
  <2>5. SameSubs(store, store')
    BY <1>1, <2>1, <2>3, <2>4, PutBack, SameItself
  <2>6. host'.pc = "restore" /\ host'.peer = p /\ host'.idx = n + 1
    BY <1>1, <2>1 DEF Hosts
  <2>7. Brought(store', cccd'[p], p, n + 1)
    <3>1. \A i \in DOMAIN store : store[i].chr \in Chars
      BY <1>2
    <3>2. \A c \in Chars : cccd'[p][c].sub = cccd[p][c].sub
      BY <2>1
    <3>3. Brought(store, cccd[p], p, n + 1)
      BY <2>3
    <3> HIDE DEF p, n
    <3> QED
      BY <2>5, <3>1, <3>2, <3>3, SameBrought
  <2>8. Strangers' /\ Away'
    BY <2>1, <2>5 DEF Stored, Strangers, Away, SameSubs
  <2>9. Bonding' /\ Recording' /\ Returning'
    BY <2>1, <2>3, <2>6, <2>7 DEF Bonding, Recording, Returning
  <2>10. Followed'
    <3> SUFFICES ASSUME NEW q \in bonded, NEW d \in Chars
                 PROVE  Follows(store', q, d, cccd[q][d].sub) \/ InHand(q, d)'
      BY <2>1 DEF Followed
    <3>1. CASE q = p
      BY <2>6, <3>1 DEF InHand
    <3>2. CASE q # p
      <4>1. Follows(store, q, d, cccd[q][d].sub)
        BY <2>2, <3>2 DEF Stored, Followed, InHand
      <4> QED
        BY <2>5, <4>1, SameFollows
    <3> QED
      BY <3>1, <3>2
  <2> QED
    BY <2>2, <2>8, <2>9, <2>10 DEF Stored
<1>7. CASE RestoreDone
  <2>1. /\ HostStep("restore") /\ UNCHANGED <<store, cccd, back, app, paired, bonded>>
        /\ OfPeer(p, n) = {} /\ host'.pc = "idle"
    BY <1>7 DEF RestoreDone, Stay, gattVars, peerVars, connVars, HostAt
  <2>2. host.pc = "restore" /\ AppHolds'
    BY <2>1, HostKeepsApp, HostWorks
  <2>3. p \in bonded /\ n > 0 /\ n \in Nat /\ Brought(store, cccd[p], p, n)
    BY <1>1, <2>2 DEF Stored, Returning, Hosts
  <2>4. \A i \in T : Rank(T, i) < n
    <3>1. T \subseteq Nat \ {0} /\ \A i \in T : Rank(T, i) # n
      <4>1. T \subseteq Nat \ {0}
        BY <1>3
      <4>2. OfPeer(p, n) = {i \in T : Rank(T, i) = n}
        BY <1>1, <2>3, PeerRanks
      <4> HIDE DEF T
      <4> QED
        BY <2>1, <4>1, <4>2
    <3> HIDE DEF T, n
    <3> QED
      BY <2>3, <3>1, RankGap
  <2>5. \A d \in Chars : Follows(store, p, d, cccd[p][d].sub)
    <3> TAKE d \in Chars
    <3>1. ASSUME NEW i \in DOMAIN store, store[i].peer = p, store[i].chr = d
          PROVE  store[i].sub = cccd[p][d].sub
      <4>1. i \in T
        BY <3>1 DEF PlacesOf
      <4> QED
        BY <2>3, <2>4, <3>1, <4>1 DEF Brought
    <3>2. cccd[p][d].sub # "none" => InStore(store, p, d)
      BY <2>3 DEF Brought
    <3> QED
      BY <3>1, <3>2 DEF Follows
  <2>6. Followed'
    <3> SUFFICES ASSUME NEW q \in bonded, NEW d \in Chars
                 PROVE  Follows(store, q, d, cccd[q][d].sub)
      BY <2>1 DEF Followed
    <3>1. q = p \/ Follows(store, q, d, cccd[q][d].sub)
      BY <2>2 DEF Stored, Followed, InHand
    <3> QED
      BY <2>5, <3>1
  <2> QED
    BY <2>1, <2>2, <2>6 DEF Stored, Strangers, Away, Bonding, Recording, Returning
<1> QED
  BY <1>4, <1>5, <1>6, <1>7

LEMMA LinkKeepsStored ==
  ASSUME Preempt = FALSE, Types, Stored, Expire \/ Delete \/ \E p \in Peers : Break(p) \/ Connect(p)
  PROVE  Stored'
<1>0. /\ back \in [Peers -> Seq(Backs)] /\ cccd \in [Peers -> [Chars -> Cfgs]]
      /\ bonded \subseteq Peers /\ paired \subseteq Peers
  BY DEF Types, LinkTypes, GattTypes, PeerTypes
<1>1. CASE Expire
  <2>1. HostStep("idle") /\ UNCHANGED <<store, bonded, paired, back, app, cccd, host>>
    BY <1>1 DEF Expire, peerVars, sideVars
  <2>2. "idle" \notin Hands /\ host'.pc \notin Hands
    BY <2>1, HostWorks DEF Hands
  <2> QED
    BY <2>1, <2>2, HostFrameStored
<1>2. CASE \E p \in Peers : Connect(p)
  <2>1. HostStep("idle") /\ UNCHANGED <<store, bonded, paired, back, app, cccd, host>>
    BY <1>2 DEF Connect, peerVars, sideVars, gattVars
  <2>2. "idle" \notin Hands /\ host'.pc \notin Hands
    BY <2>1, HostWorks DEF Hands
  <2> QED
    BY <2>1, <2>2, HostFrameStored
<1>3. CASE \E p \in Peers : Break(p)
  <2>1. PICK p \in Peers : Break(p)
    BY <1>3
  <2>2. /\ HostStep("idle") /\ UNCHANGED <<store, bonded, paired, app, cccd>>
        /\ back' = [back EXCEPT ![p] = <<>>] /\ host' = [HostAt("teardown") EXCEPT !.peer = p]
    BY <2>1 DEF Break, NoMessages
  <2>3. host.pc \notin Hands /\ host'.pc \notin Hands /\ AppHolds'
    BY <2>2, HostKeepsApp, HostWorks DEF Hands, HostAt
  <2>4. \A q \in paired \ bonded : \A m \in ToSet(back'[q]) : m.op # "cccd"
    <3> TAKE q \in paired \ bonded
    <3>1. back'[q] = back[q] \/ back'[q] = <<>>
      BY <1>0, <2>2
    <3> QED
      BY <3>1 DEF ToSet, Stored, Away
  <2> QED
    BY <2>2, <2>3, <2>4, SameItself, FrameStored
<1>4. CASE Delete
  <2> DEFINE p == host.peer
  <2>1. /\ HostStep("teardown") /\ UNCHANGED <<store, paired, app>>
        /\ bonded' = bonded \ {p} /\ cccd' = [cccd EXCEPT ![p] = NoSub]
        /\ back' = [back EXCEPT ![p] = <<>>] /\ host'.pc = "idle"
    BY <1>4 DEF Delete, NoMessages, HostAt
  <2>2. host.pc = "teardown" /\ host.pc \notin Hands /\ AppHolds' /\ p \in Peers
    <3>1. host.pc = "teardown" /\ AppHolds'
      BY <2>1, HostKeepsApp, HostWorks
    <3> QED
      BY <3>1 DEF Hands, Types, SideTypes, GoodHost
  <2>3. Bonding' /\ Recording' /\ Returning'
    BY <2>1 DEF Bonding, Recording, Returning
  <2>4. Strangers'
    BY <2>1 DEF Stored, Strangers
  <2>5. Away'
    <3> SUFFICES ASSUME NEW q \in paired \ bonded'
                 PROVE  /\ \A c \in Chars : cccd'[q][c].sub = "none"
                        /\ \A m \in ToSet(back'[q]) : m.op # "cccd"
      BY <2>1 DEF Away
    <3>1. CASE q = p
      <4>1. cccd'[q] = NoSub /\ back'[q] = <<>>
        BY <1>0, <2>1, <2>2, <3>1
      <4> QED
        BY <4>1 DEF NoSub, ToSet
    <3>2. CASE q # p
      <4>1. q \in paired \ bonded /\ cccd'[q] = cccd[q] /\ back'[q] = back[q]
        BY <1>0, <2>1, <3>2
      <4> QED
        BY <4>1 DEF Stored, Away
    <3> QED
      BY <3>1, <3>2
  <2>6. Followed'
    <3> SUFFICES ASSUME NEW q \in bonded \ {p}, NEW c \in Chars
                 PROVE  Follows(store, q, c, cccd'[q][c].sub)
      BY <2>1 DEF Followed
    <3>1. cccd'[q] = cccd[q]
      BY <1>0, <2>1
    <3> QED
      BY <2>2, <3>1, AllFollow
  <2> QED
    BY <2>2, <2>3, <2>4, <2>5, <2>6 DEF Stored
<1> QED
  BY <1>1, <1>2, <1>3, <1>4

LEMMA PeerKeepsStored ==
  ASSUME CarefulPeer, Types, Stored, PeerNext
  PROVE  Stored'
<1>0. back \in [Peers -> Seq(Backs)] /\ paired \subseteq Peers
  BY DEF Types, LinkTypes, PeerTypes
<1>1. PICK p \in Peers : PeerReceives(p) \/ PeerWrites(p)
  BY DEF PeerNext
<1>2. UNCHANGED <<store, bonded, paired, app, cccd, host, send>>
  BY <1>1 DEF PeerReceives, PeerWrites, connVars, gattVars, sideVars
<1>3. AppHolds'
  BY <1>2 DEF Stored, AppHolds, Working, HostFree
<1>4. \A q \in paired \ bonded : \A m \in ToSet(back'[q]) : m.op # "cccd"
  <2> SUFFICES ASSUME NEW q \in paired \ bonded, NEW m \in ToSet(back'[q]) PROVE m.op # "cccd"
    OBVIOUS
  <2>1. \A e \in ToSet(back[q]) : e.op # "cccd"
    BY DEF Stored, Away
  <2>2. CASE back'[q] = back[q]
    BY <2>1, <2>2
  <2>3. CASE q = p /\ back'[q] = Append(back[q], [op |-> "confirm"])
    <3>1. back[q] \in Seq(Backs) /\ [op |-> "confirm"] \in Backs
      BY <1>0 DEF Backs
    <3>2. ToSet(back'[q]) = ToSet(back[q]) \cup {[op |-> "confirm"]}
      BY <2>3, <3>1, AppendKeeps
    <3> QED
      BY <2>1, <3>2
  <2>4. CASE q = p /\ PeerWrites(p)
    BY <2>4 DEF PeerWrites
  <2>5. \/ back'[q] = back[q] \/ (q = p /\ back'[q] = Append(back[q], [op |-> "confirm"]))
        \/ q = p /\ PeerWrites(p)
    <3>1. CASE PeerReceives(p)
      <4>1. back' = back \/ back' = [back EXCEPT ![p] = Append(@, [op |-> "confirm"])]
        BY <3>1 DEF PeerReceives
      <4> QED
        BY <1>0, <4>1
    <3>2. CASE PeerWrites(p) /\ q # p
      <4>1. back'[q] = back[q]
        BY <1>0, <3>2 DEF PeerWrites
      <4> QED
        BY <4>1
    <3> QED
      BY <1>1, <3>1, <3>2
  <2> QED
    BY <2>2, <2>3, <2>4, <2>5
<1> QED
  BY <1>2, <1>3, <1>4, SameItself, FrameStored

LEMMA InitStored == Init => Stored
<1> SUFFICES ASSUME Init PROVE Stored
  OBVIOUS
<1>1. host.pc = "idle" /\ app.pc = "idle" /\ store = <<>> /\ paired = {} /\ bonded = {}
  BY DEF Init, HostAt, AppAt
<1>2. DOMAIN store = {}
  BY <1>1
<1> QED
  BY <1>1, <1>2 DEF Stored, Strangers, Away, AppHolds, Working, Bonding, Recording, Returning, Followed

LEMMA NextStored ==
  ASSUME Preempt = FALSE, CarefulPeer, None \notin Recs, Types, Stored, [Next]_vars
  PROVE  Stored'
<1>0. "app" \in Actors /\ "host" \in Actors
  BY DEF Actors
<1>1. CASE UNCHANGED vars
  <2>1. UNCHANGED <<store, bonded, paired, app, cccd, host, send, back>>
    BY <1>1 DEF vars, connVars, gattVars, peerVars, sideVars
  <2>2. AppHolds'
    BY <2>1 DEF Stored, AppHolds, Working, HostFree
  <2>3. \A q \in paired \ bonded : \A m \in ToSet(back'[q]) : m.op # "cccd"
    BY <2>1 DEF Stored, Away
  <2> QED
    BY <2>1, <2>2, <2>3, SameItself, FrameStored
<1>2. CASE Send("app") \/ Send("host")
  BY <1>0, <1>2, SendKeepsStored
<1>3. CASE AppNext
  BY <1>3, AppKeepsStored
<1>4. CASE HostReceives
  BY <1>4, ConfirmationKeepsStored, CccdWriteKeepsStored DEF HostReceives
<1>5. CASE TxNotifications \/ TxOne \/ TxDone \/ SendNextIndicate
  BY <1>5, HostSendsKeepStored
<1>6. CASE Persist
  BY <1>6, PersistKeepsStored
<1>7. CASE BondOne \/ BondRecord \/ BondDone \/ \E p \in Peers : Pair(p)
  BY <1>7, BondKeepsStored
<1>8. CASE RestoreOne \/ RestoredSent \/ RestoreDone \/ \E p \in Peers : Encrypt(p)
  BY <1>8, RestoreKeepsStored
<1>9. CASE Expire \/ Delete \/ \E p \in Peers : Break(p) \/ Connect(p)
  BY <1>9, LinkKeepsStored
<1>10. CASE PeerNext
  BY <1>10, PeerKeepsStored
<1> QED
  BY <1>1, <1>2, <1>3, <1>4, <1>5, <1>6, <1>7, <1>8, <1>9, <1>10 DEF Next, HostSteps, Link

(* When nothing runs inside the unlocked sections of the host, and peers     *)
(* encrypt before they write a CCCD: whatever is written, paired, confirmed  *)
(* or restored (ble_gatts_clt_cfg_access_locked, ble_gatts_bonding_          *)
(* established, ble_gatts_bonding_restored, ble_gatts_rx_indicate_ack), the  *)
(* store has the subscriptions of each bonded peer that is connected, as     *)
(* soon as the host task has nothing of it in hand.                          *)
THEOREM StoreFollows ==
  ASSUME Preempt = FALSE, CarefulPeer, None \notin Recs
  PROVE  Spec => []StoredAsSubscribed
<1> DEFINE IInv == Types /\ Stored
<1>1. Init => IInv
  BY InitTypes, InitStored
<1>2. IInv /\ [Next]_vars => IInv'
  BY NextTypes, NextStored
<1>3. IInv => StoredAsSubscribed
  <2> SUFFICES ASSUME Types, Stored, NEW p \in bonded, NEW c \in Chars,
                      ~Restoring(p), host.pc \notin {"bond", "record", "persist"}
               PROVE  StoredSub(p, c) = cccd[p][c].sub
    BY DEF StoredAsSubscribed
  <2>1. ~InHand(p, c)
    BY DEF Restoring, InHand
  <2>2. Follows(store, p, c, cccd[p][c].sub)
    BY <2>1 DEF Stored, Followed
  <2> QED
    BY <2>2, StoredFollows
<1> QED
  BY <1>1, <1>2, <1>3, PTL DEF Spec

-----------------------------------------------------------------------------
(* Nothing that was promised is lost: the parts of the invariant *)

(* The subscription a store has *)
SubIn(s, p, c) ==
  IF \E r \in ToSet(s) : r.peer = p /\ r.chr = c
  THEN (CHOOSE r \in ToSet(s) : r.peer = p /\ r.chr = c).sub ELSE "none"

ChangedIn(s, p, c) == \E i \in DOMAIN s : s[i].peer = p /\ s[i].chr = c /\ s[i].changed
PlacesFor(s, c) == {i \in DOMAIN s : s[i].chr = c}

Busy == send["host"].pc # "idle"
SendingTo(p, c) ==
  send["host"].pc \in {"read", "tx"} /\ send["host"].to = p /\ send["host"].chr = c
Comes(p) == host.pc \in {"restore", "restored"} /\ host.peer = p

(* The host sends one value at a time, to a peer that is connected, and an   *)
(* indication only if none is unconfirmed: so nothing waits in a queue.      *)
Sender ==
  /\ send["app"].pc = "idle"
  /\ Busy =>
       /\ conn[send["host"].to] = "up" /\ host.pc \in {"idle", "tx", "restore", "restored"}
       /\ send["host"].op = "notify" => send["host"].to \notin paired \ bonded
       /\ send["host"].pc \in {"read", "tx"} /\ send["host"].op = "indicate" => waiting[send["host"].to] = 0
       /\ send["host"].pc = "tx" => send["host"].val = value[send["host"].chr]
       /\ host.pc = "restore" => send["host"].op = "indicate"
  /\ host.pc = "restored" /\ Busy => SendingTo(host.peer, host.rec.chr) /\ send["host"].op = "notify"
  /\ host.pc \in {"persist", "next"} /\ host.peer # None => waiting[host.peer] = 0
  /\ \A p \in Peers :
       /\ txq[p] = <<>>
       /\ busy[p] => waiting[p] # 0 \/ (send["host"].pc = "mark" /\ send["host"].to = p)

(* Messages a on their way to a peer and b from it: one indication or its    *)
(* confirmation at a time, and of each characteristic newer versions later.  *)
Ordered(a, b, bz, sn, vl) ==
  /\ \A i, j \in DOMAIN a : a[i].op = "indicate" /\ a[j].op = "indicate" => i = j
  /\ \A i, j \in DOMAIN b : b[i].op = b[j].op => i = j
  /\ \A i \in DOMAIN a, j \in DOMAIN b : a[i].op = "indicate" => b[j].op # "confirm"
  /\ ~bz => (\A i \in DOMAIN a : a[i].op # "indicate") /\ \A j \in DOMAIN b : b[j].op # "confirm"
  /\ \A i, j \in DOMAIN a : i < j /\ a[i].chr = a[j].chr => a[i].val <= a[j].val
  /\ \A i \in DOMAIN a : sn[a[i].chr] <= a[i].val /\ a[i].val <= vl[a[i].chr]
  /\ \A c \in Chars : sn[c] <= vl[c]
Links == \A p \in Peers : Ordered(air[p], back[p], busy[p], seen[p], value)

(* A write that is on its way changes the subscription it will find.         *)
Asked ==
  \A p \in Peers : \A m \in ToSet(back[p]) : m.op = "cccd" =>
    m.sub # IF Comes(p) THEN SubIn(store, p, m.chr) ELSE cccd[p][m.chr].sub

(* A peer was promised what it has not seen. *)
Wanted(p, c) == promised[p][c].val > seen[p][c]
(* What is promised for good has a record, *)
KeptInStore == \A p \in Peers, c \in Chars : promised[p][c].kept => InStore(store, p, c)
(* and the record says so, or the application is about to write it. *)
Noticed ==
  \A p \in Peers, c \in Chars : promised[p][c].kept /\ Wanted(p, c) =>
    ChangedIn(store, p, c) \/ (Working /\ app.chr = c)
(* A peer that is away was promised nothing that is not for good. *)
KeptAway ==
  \A p \in Peers, c \in Chars :
    p \notin bonded /\ (conn[p] = "down" \/ p \in paired) /\ promised[p][c].val > 0 => promised[p][c].kept
BondedHere == \A p \in bonded : conn[p] # "down"
(* The records before the one the application has come to say so already. *)
Walking ==
  Working =>
    /\ app.idx > 0
    /\ \A i \in PlacesFor(store, app.chr) : Rank(PlacesFor(store, app.chr), i) < app.idx => store[i].changed
    /\ app.pc = "record" =>
         \E i \in PlacesFor(store, app.chr) :
           Rank(PlacesFor(store, app.chr), i) = app.idx /\ store[i] = app.rec
(* A record the host is about to write has nothing to remember. *)
InRecord ==
  host.pc \in {"record", "persist"} /\ host.rec # None =>
    /\ ~(promised[host.rec.peer][host.rec.chr].kept /\ Wanted(host.rec.peer, host.rec.chr))
    /\ host.pc = "persist" /\ host.peer = None => ~promised[host.rec.peer][host.rec.chr].kept

(* What is promised is marked, being sent, or in the air; what is promised   *)
(* for good is not left to a notification in the air.                        *)
Carried(mod, sending, a, c, pr, sn) ==
  pr.val > sn =>
    mod \/ sending \/ \E m \in ToSet(a) : m.chr = c /\ m.val >= pr.val /\ (pr.kept => m.op = "indicate")
CarriedTo(p, c) ==
  Carried(cccd[p][c].mod, SendingTo(p, c), air[p], c, promised[p][c], seen[p][c])
(* The first n - 1 records of a peer have been brought to their CCCDs; what  *)
(* the others promise is promised for good, and nothing is without a record. *)
Resumes(p, s, n) ==
  /\ \A c \in Chars : ~InStore(s, p, c) => ~Wanted(p, c)
  /\ \A i \in PlacesOf(s, p) :
       IF Rank(PlacesOf(s, p), i) < n THEN CarriedTo(p, s[i].chr)
       ELSE Wanted(p, s[i].chr) => promised[p][s[i].chr].kept
Resuming ==
  host.pc \in {"restore", "restored"} =>
    /\ conn[host.peer] = "up"
    /\ Resumes(host.peer, store, IF host.pc = "restored" THEN host.idx + 1 ELSE host.idx)
    /\ host.pc = "restored" =>
         /\ \E i \in PlacesOf(store, host.peer) :
              Rank(PlacesOf(store, host.peer), i) = host.idx /\ store[i] = host.rec
         /\ ~Busy => ~promised[host.peer][host.rec.chr].kept
Current == \A p \in Peers, c \in Chars : conn[p] = "up" /\ ~Restoring(p) => CarriedTo(p, c)

-----------------------------------------------------------------------------
(* The messages of one connection *)

LEMMA AppendPlaces ==
  ASSUME NEW S, NEW s \in Seq(S), NEW e
  PROVE  /\ \A i \in DOMAIN Append(s, e) : i \in DOMAIN s \/ (i = Len(s) + 1 /\ Append(s, e)[i] = e)
         /\ \A i \in DOMAIN s : Append(s, e)[i] = s[i] /\ i < Len(s) + 1
         /\ DOMAIN s \subseteq Nat /\ Len(s) \in Nat
OBVIOUS

LEMMA TailPlaces ==
  ASSUME NEW S, NEW s \in Seq(S), s # <<>>
  PROVE  /\ 1 \in DOMAIN s /\ s[1] = Head(s)
         /\ \A i \in DOMAIN Tail(s) : i + 1 \in DOMAIN s /\ Tail(s)[i] = s[i + 1] /\ i \in Nat /\ i > 0
OBVIOUS

LEMMA OrderedSend ==
  ASSUME NEW a \in Seq(Msgs), NEW b, NEW bz \in BOOLEAN, NEW sn \in [Chars -> Vals],
         NEW vl \in [Chars -> Vals], NEW m \in Msgs,
         Ordered(a, b, bz, sn, vl), m.val = vl[m.chr], m.op = "indicate" => ~bz
  PROVE  Ordered(Append(a, m), b, bz \/ m.op = "indicate", sn, vl)
<1> DEFINE t == Append(a, m)
           k == Len(a) + 1
<1>1. /\ \A i \in DOMAIN t : i \in DOMAIN a \/ (i = k /\ t[i] = m)
      /\ \A i \in DOMAIN a : t[i] = a[i] /\ i < k
      /\ DOMAIN a \subseteq Nat /\ k \in Nat
  BY AppendPlaces
<1>2. m.chr \in Chars /\ m.val \in Vals /\ Vals \subseteq Nat
  BY Constant DEF Msgs
<1>3. \A i \in DOMAIN a : a[i] \in Msgs /\ a[i].chr \in Chars /\ a[i].val \in Vals
  <2>1. \A i \in DOMAIN a : a[i] \in Msgs
    OBVIOUS
  <2> QED
    BY <2>1 DEF Msgs
<1> HIDE DEF t, k
<1>4. \A i, j \in DOMAIN t : t[i].op = "indicate" /\ t[j].op = "indicate" => i = j
  BY <1>1 DEF Ordered
<1>5. \A i \in DOMAIN t, j \in DOMAIN b : t[i].op = "indicate" => b[j].op # "confirm"
  BY <1>1 DEF Ordered
<1>6. ~(bz \/ m.op = "indicate") =>
        (\A i \in DOMAIN t : t[i].op # "indicate") /\ \A j \in DOMAIN b : b[j].op # "confirm"
  BY <1>1 DEF Ordered
<1>7. ASSUME NEW i \in DOMAIN t, NEW j \in DOMAIN t, i < j, t[i].chr = t[j].chr
      PROVE  t[i].val <= t[j].val
  <2>1. i \in DOMAIN a
    BY <1>1, <1>7
  <2>2. CASE j \in DOMAIN a
    BY <1>1, <1>7, <2>1, <2>2 DEF Ordered
  <2>3. CASE j = k /\ t[j] = m
    <3>1. a[i].val <= vl[a[i].chr]
      BY <2>1 DEF Ordered
    <3>2. t[i] = a[i] /\ t[j] = m
      BY <1>1, <2>1, <2>3
    <3>3. a[i].chr = m.chr
      BY <1>7, <3>2
    <3>4. a[i].val <= m.val
      BY <3>1, <3>3
    <3> QED
      BY <3>2, <3>4
  <2> QED
    BY <1>1, <2>2, <2>3
<1>8. ASSUME NEW i \in DOMAIN t PROVE sn[t[i].chr] <= t[i].val /\ t[i].val <= vl[t[i].chr]
  <2>1. CASE i \in DOMAIN a
    BY <1>1, <2>1 DEF Ordered
  <2>2. CASE t[i] = m
    <3>1. sn[m.chr] <= vl[m.chr]
      BY <1>2 DEF Ordered
    <3>2. \A x \in Vals : x <= x
      BY <1>2
    <3>3. sn[m.chr] <= m.val /\ m.val <= vl[m.chr]
      BY <1>2, <3>1, <3>2
    <3>4. t[i].chr = m.chr /\ t[i].val = m.val
      BY <2>2
    <3> QED
      BY <3>3, <3>4
  <2> QED
    BY <1>1, <2>1, <2>2
<1>9. /\ \A i, j \in DOMAIN b : b[i].op = b[j].op => i = j
      /\ \A c \in Chars : sn[c] <= vl[c]
  BY DEF Ordered
<1> QED
  BY <1>4, <1>5, <1>6, <1>7, <1>8, <1>9 DEF Ordered, t

LEMMA OrderedReceive ==
  ASSUME NEW a \in Seq(Msgs), NEW b \in Seq(Backs), NEW bz \in BOOLEAN, NEW sn \in [Chars -> Vals],
         NEW vl \in [Chars -> Vals], Ordered(a, b, bz, sn, vl), a # <<>>,
         NEW d, d = b \/ (Head(a).op = "indicate" /\ d = Append(b, [op |-> "confirm"]))
  PROVE  Ordered(Tail(a), d, bz, [sn EXCEPT ![Head(a).chr] = Head(a).val], vl)
<1> DEFINE t == Tail(a)
           m == Head(a)
           s == [sn EXCEPT ![m.chr] = m.val]
           k == Len(b) + 1
<1>1. /\ 1 \in DOMAIN a /\ a[1] = m
      /\ \A i \in DOMAIN t : i + 1 \in DOMAIN a /\ t[i] = a[i + 1] /\ i \in Nat /\ i > 0
  BY TailPlaces
<1>2. \A i \in DOMAIN a : a[i] \in Msgs /\ a[i].chr \in Chars /\ a[i].val \in Vals
  <2>1. \A i \in DOMAIN a : a[i] \in Msgs
    OBVIOUS
  <2> QED
    BY <2>1 DEF Msgs
<1>3. m.chr \in Chars /\ m.val \in Vals /\ Vals \subseteq Nat
  BY <1>1, <1>2, Constant
<1> HIDE DEF t, m
<1>4. \A c \in Chars : s[c] = IF c = m.chr THEN m.val ELSE sn[c]
  OBVIOUS
<1> HIDE DEF s
<1>5. /\ \A j \in DOMAIN d : (j \in DOMAIN b /\ d[j] = b[j]) \/ (j = k /\ d[j].op = "confirm" /\ m.op = "indicate")
      /\ \A j \in DOMAIN b : j # k
  <2>1. CASE d = b
    <3>1. \A j \in DOMAIN b : j # k
      BY AppendPlaces
    <3> QED
      BY <2>1, <3>1
  <2>2. CASE m.op = "indicate" /\ d = Append(b, [op |-> "confirm"])
    BY <2>2, AppendPlaces
  <2> QED
    BY <2>1, <2>2 DEF m
<1> HIDE DEF k
<1>6. \A i, j \in DOMAIN t : t[i].op = "indicate" /\ t[j].op = "indicate" => i = j
  <2> SUFFICES ASSUME NEW i \in DOMAIN t, NEW j \in DOMAIN t, t[i].op = "indicate", t[j].op = "indicate"
               PROVE  i = j
    OBVIOUS
  <2>1. i + 1 = j + 1
    BY <1>1 DEF Ordered
  <2> QED
    BY <1>1, <2>1
<1>7. \A i \in DOMAIN t : a[i + 1] = t[i] /\ i + 1 \in DOMAIN a /\ 1 < i + 1
  BY <1>1
<1>8. m.op = "indicate" => \A i \in DOMAIN t : t[i].op # "indicate"
  <2> SUFFICES ASSUME m.op = "indicate", NEW i \in DOMAIN t, t[i].op = "indicate" PROVE FALSE
    OBVIOUS
  <2>1. i + 1 = 1
    BY <1>1 DEF Ordered
  <2> QED
    BY <1>1, <2>1
<1>9. \A i, j \in DOMAIN d : d[i].op = d[j].op => i = j
  <2> SUFFICES ASSUME NEW i \in DOMAIN d, NEW j \in DOMAIN d, d[i].op = d[j].op PROVE i = j
    OBVIOUS
  <2>1. m.op = "indicate" => \A n \in DOMAIN b : b[n].op # "confirm"
    BY <1>1 DEF Ordered
  <2> QED
    BY <1>5, <2>1 DEF Ordered
<1>10. \A i \in DOMAIN t, j \in DOMAIN d : t[i].op = "indicate" => d[j].op # "confirm"
  BY <1>5, <1>7, <1>8 DEF Ordered
<1>11. ~bz => (\A i \in DOMAIN t : t[i].op # "indicate") /\ \A j \in DOMAIN d : d[j].op # "confirm"
  BY <1>1, <1>5, <1>7 DEF Ordered
<1>12. \A i, j \in DOMAIN t : i < j /\ t[i].chr = t[j].chr => t[i].val <= t[j].val
  <2> SUFFICES ASSUME NEW i \in DOMAIN t, NEW j \in DOMAIN t, i < j, t[i].chr = t[j].chr
               PROVE  t[i].val <= t[j].val
    OBVIOUS
  <2>1. i + 1 < j + 1
    BY <1>1
  <2> QED
    BY <1>7, <2>1 DEF Ordered
<1>13. \A i \in DOMAIN t : s[t[i].chr] <= t[i].val /\ t[i].val <= vl[t[i].chr]
  <2> TAKE i \in DOMAIN t
  <2>1. t[i].chr \in Chars /\ sn[t[i].chr] <= t[i].val /\ t[i].val <= vl[t[i].chr]
    BY <1>2, <1>7 DEF Ordered
  <2>2. t[i].chr = m.chr => m.val <= t[i].val
    BY <1>1, <1>7 DEF Ordered
  <2> QED
    BY <1>4, <2>1, <2>2
<1>14. \A c \in Chars : s[c] <= vl[c]
  BY <1>1, <1>4 DEF Ordered
<1> QED
  BY <1>6, <1>9, <1>10, <1>11, <1>12, <1>13, <1>14 DEF Ordered, t, m, s

LEMMA OrderedTail ==
  ASSUME NEW a, NEW b \in Seq(Backs), NEW bz, NEW sn, NEW vl, NEW f \in BOOLEAN,
         Ordered(a, b, bz, sn, vl), b # <<>>,
         f = bz \/ Head(b).op = "confirm"
  PROVE  Ordered(a, Tail(b), f, sn, vl)
<1> DEFINE t == Tail(b)
<1>1. /\ 1 \in DOMAIN b /\ b[1] = Head(b)
      /\ \A i \in DOMAIN t : i + 1 \in DOMAIN b /\ t[i] = b[i + 1] /\ i \in Nat /\ i > 0
  BY TailPlaces
<1> HIDE DEF t
<1>2. \A i, j \in DOMAIN t : t[i].op = t[j].op => i = j
  <2> SUFFICES ASSUME NEW i \in DOMAIN t, NEW j \in DOMAIN t, t[i].op = t[j].op PROVE i = j
    OBVIOUS
  <2>1. i + 1 = j + 1
    BY <1>1 DEF Ordered
  <2> QED
    BY <1>1, <2>1
<1>3. \A i \in DOMAIN a, j \in DOMAIN t : a[i].op = "indicate" => t[j].op # "confirm"
  BY <1>1 DEF Ordered
<1>4. ~f => (\A i \in DOMAIN a : a[i].op # "indicate") /\ \A j \in DOMAIN t : t[j].op # "confirm"
  <2>1. CASE Head(b).op = "confirm"
    <3>1. \A i \in DOMAIN a : a[i].op # "indicate"
      BY <1>1, <2>1 DEF Ordered
    <3>2. ASSUME NEW j \in DOMAIN t, t[j].op = "confirm" PROVE FALSE
      <4>1. j + 1 = 1
        BY <1>1, <2>1, <3>2 DEF Ordered
      <4> QED
        BY <1>1, <4>1
    <3> QED
      BY <3>1, <3>2
  <2>2. CASE f = bz
    BY <1>1, <2>2 DEF Ordered
  <2> QED
    BY <2>1, <2>2
<1> QED
  BY <1>2, <1>3, <1>4 DEF Ordered, t

LEMMA OrderedWrite ==
  ASSUME NEW a, NEW b \in Seq(Backs), NEW bz, NEW sn, NEW vl, NEW x, x.op = "cccd",
         Ordered(a, b, bz, sn, vl), \A j \in DOMAIN b : b[j].op # "cccd"
  PROVE  Ordered(a, Append(b, x), bz, sn, vl)
<1> DEFINE t == Append(b, x)
           k == Len(b) + 1
<1>1. /\ \A i \in DOMAIN t : i \in DOMAIN b \/ (i = k /\ t[i] = x)
      /\ \A i \in DOMAIN b : t[i] = b[i]
  BY AppendPlaces
<1> HIDE DEF t, k
<1>2. \A i, j \in DOMAIN t : t[i].op = t[j].op => i = j
  BY <1>1 DEF Ordered
<1>3. \A i \in DOMAIN a, j \in DOMAIN t : a[i].op = "indicate" => t[j].op # "confirm"
  BY <1>1 DEF Ordered
<1>4. ~bz => (\A i \in DOMAIN a : a[i].op # "indicate") /\ \A j \in DOMAIN t : t[j].op # "confirm"
  BY <1>1 DEF Ordered
<1> QED
  BY <1>2, <1>3, <1>4 DEF Ordered, t

LEMMA OrderedClear ==
  ASSUME NEW a, NEW b, NEW bz, NEW sn, NEW vl, Ordered(a, b, bz, sn, vl), NEW f
  PROVE  Ordered(<<>>, <<>>, f, sn, vl)
<1>1. DOMAIN <<>> = {}
  OBVIOUS
<1> QED
  BY <1>1 DEF Ordered

LEMMA OrderedRaise ==
  ASSUME NEW a \in Seq(Msgs), NEW b, NEW bz, NEW sn \in [Chars -> Vals], NEW vl \in [Chars -> Vals],
         NEW v \in [Chars -> Vals], \A c \in Chars : vl[c] <= v[c], Ordered(a, b, bz, sn, vl)
  PROVE  Ordered(a, b, bz, sn, v)
<1>1. \A i \in DOMAIN a : a[i].chr \in Chars /\ a[i].val \in Nat
  <2>1. \A i \in DOMAIN a : a[i] \in Msgs
    OBVIOUS
  <2> QED
    BY <2>1, Constant DEF Msgs
<1>2. \A c \in Chars : sn[c] \in Nat /\ vl[c] \in Nat /\ v[c] \in Nat
  BY Constant
<1>3. \A i \in DOMAIN a : a[i].val <= v[a[i].chr]
  <2> TAKE i \in DOMAIN a
  <2>1. a[i].val <= vl[a[i].chr] /\ vl[a[i].chr] <= v[a[i].chr]
    BY <1>1 DEF Ordered
  <2> QED
    BY <1>1, <1>2, <2>1
<1>4. \A c \in Chars : sn[c] <= v[c]
  <2> TAKE c \in Chars
  <2>1. sn[c] <= vl[c] /\ vl[c] <= v[c]
    BY DEF Ordered
  <2> QED
    BY <1>2, <2>1
<1> QED
  BY <1>3, <1>4 DEF Ordered

-----------------------------------------------------------------------------
(* The host sends one value after another *)

LEMMA SendParts ==
  /\ NoSend.pc = "idle" /\ [NoSend EXCEPT !.ok = FALSE].pc = "idle"
  /\ \A op, p, c : LET s == Sending(op, p, c) IN s.pc = "read" /\ s.op = op /\ s.to = p /\ s.chr = c
BY DEF NoSend, Sending

(* While nothing is being sent, and nothing is taken up of what is *)
LEMMA FrameSender ==
  ASSUME Sender, ~Busy, UNCHANGED <<send, waiting, busy, txq>>,
         host'.pc \in {"persist", "next"} => host' = host
  PROVE  Sender'
<1>1. ~Busy' /\ send["host"].pc = "idle"
  BY DEF Busy
<1>2. \A p \in Peers : txq'[p] = <<>> /\ (busy'[p] => waiting'[p] # 0)
  BY <1>1 DEF Sender
<1>3. host'.pc \in {"persist", "next"} /\ host'.peer # None => waiting'[host'.peer] = 0
  BY DEF Sender
<1>4. send'["app"].pc = "idle"
  BY DEF Sender
<1> QED
  BY <1>1, <1>2, <1>3, <1>4 DEF Sender

LEMMA StepIsQuiet ==
  ASSUME NEW pc, HostStep(pc)
  PROVE  ~Busy /\ send["host"].pc = "idle" /\ host.pc = pc
BY DEF HostStep, Busy

LEMMA SendKeepsSender ==
  ASSUME Preempt = FALSE, NoMem = FALSE, Types, Sender, NEW a \in Actors, Send(a)
  PROVE  Sender'
<1> DEFINE s == send["host"]
           z == send'["host"]
<1>0. a = "host" /\ s.pc # "idle" /\ "app" \in Actors /\ "host" \in Actors /\ send \in [Actors -> Sends]
  BY DEF Send, ReadValue, SendValue, MarkWaiting, InsertProc, Sender, Actors, Types, SideTypes
<1>1. /\ UNCHANGED <<conn, host, paired, bonded, value>> /\ send'["app"].pc = "idle"
      /\ host.pc \notin {"persist", "next"}
  <2>1. send'["app"] = send["app"]
    BY <1>0 DEF Send, ReadValue, SendValue, MarkWaiting, InsertProc
  <2> QED
    BY <1>0, <2>1 DEF Sender, Busy, Send, ReadValue, SendValue, MarkWaiting, InsertProc, connVars
<1>2. /\ conn[s.to] = "up" /\ host.pc \in {"idle", "tx", "restore", "restored"}
      /\ s.op = "notify" => s.to \notin paired \ bonded
      /\ s.pc \in {"read", "tx"} /\ s.op = "indicate" => waiting[s.to] = 0
      /\ s.pc = "tx" => s.val = value[s.chr]
      /\ host.pc = "restore" => s.op = "indicate"
      /\ host.pc = "restored" => SendingTo(host.peer, host.rec.chr) /\ s.op = "notify"
  BY <1>0 DEF Sender, Busy
<1>3. s \in Sends /\ s.to \in Peers /\ s.chr \in Chars /\ s.op \in Kinds
  BY <1>0 DEF Types, SideTypes, GoodSend, Sends
<1>4. \A p \in Peers : txq[p] = <<>> /\ (busy[p] => waiting[p] # 0 \/ (s.pc = "mark" /\ s.to = p))
  BY DEF Sender
<1>5. CASE ReadValue("host")
  <2>1. s.pc = "read" /\ z = [s EXCEPT !.pc = "tx", !.val = value[s.chr]] /\ UNCHANGED <<waiting, busy, txq>>
    BY <1>0, <1>5 DEF ReadValue, gattVars, attVars
  <2>2. z.pc = "tx" /\ z.op = s.op /\ z.to = s.to /\ z.chr = s.chr /\ z.val = value[s.chr]
    BY <1>3, <2>1 DEF Sends
  <2>3. \A p \in Peers : busy'[p] => waiting'[p] # 0
    BY <1>4, <2>1
  <2> HIDE DEF s, z
  <2>4. /\ Busy' <=> z.pc # "idle"
        /\ \A p, c : SendingTo(p, c)' <=> z.pc \in {"read", "tx"} /\ z.to = p /\ z.chr = c
        /\ \A p, c : SendingTo(p, c) <=> s.pc \in {"read", "tx"} /\ s.to = p /\ s.chr = c
    BY DEF Busy, SendingTo, z, s
  <2>5. SendingTo(host.peer, host.rec.chr)' <=> SendingTo(host.peer, host.rec.chr)
    BY <1>1, <2>1, <2>2, <2>4
  <2> QED
    BY <1>1, <1>2, <1>4, <2>1, <2>2, <2>3, <2>4, <2>5 DEF Sender, z
<1>6. CASE SendValue("host")
  <2>1. s.pc = "tx" /\ waiting' = waiting
    BY <1>6 DEF SendValue, gattVars
  <2> DEFINE m == Message(s.op, s.chr, s.val)
  <2>2. /\ Transmit(s.to, m)
        /\ z = IF s.op = "notify" THEN NoSend ELSE [s EXCEPT !.pc = "mark"]
    BY <1>0, <1>2, <1>6 DEF SendValue
  <2>3. m.op = s.op
    BY DEF Message
  <2>4. s.op = "indicate" => ~busy[s.to]
    BY <1>2, <1>3, <1>4, <2>1
  <2>5. txq' = txq /\ busy' = [busy EXCEPT ![s.to] = @ \/ m.op = "indicate"]
    BY <2>2, <2>3, <2>4 DEF Transmit
  <2> HIDE DEF m
  <2>6. \A p \in Peers : busy'[p] => busy[p] \/ (p = s.to /\ s.op = "indicate")
    BY <2>3, <2>5 DEF Types, AirTypes
  <2>7. \A p \in Peers : busy'[p] => waiting'[p] # 0 \/ (z.pc = "mark" /\ z.to = p)
    <3> TAKE p \in Peers
    <3>1. s.op = "indicate" => z.pc = "mark" /\ z.to = s.to
      BY <1>3, <2>2 DEF Sends
    <3> QED
      BY <1>4, <2>1, <2>6, <3>1
  <2>8. CASE s.op = "notify"
    <3>1. z.pc = "idle"
      BY <2>2, <2>8, SendParts
    <3> QED
      BY <1>1, <1>4, <2>5, <2>7, <3>1 DEF Sender, Busy
  <2>9. CASE s.op # "notify"
    <3>1. z.pc = "mark" /\ z.op = "indicate" /\ z.to = s.to
      BY <1>3, <2>2, <2>9 DEF Sends, Kinds
    <3>2. host.pc # "restored"
      BY <1>2, <2>9
    <3> QED
      BY <1>1, <1>2, <1>4, <2>5, <2>7, <3>1, <3>2 DEF Sender, Busy
  <2> QED
    BY <2>8, <2>9
<1>7. CASE MarkWaiting("host")
  <2>1. /\ s.pc = "mark" /\ waiting' = [waiting EXCEPT ![s.to] = s.chr] /\ z = [s EXCEPT !.pc = "insert"]
        /\ UNCHANGED <<busy, txq>>
    BY <1>0, <1>2, <1>7 DEF MarkWaiting, attVars
  <2>2. z.pc = "insert" /\ z.op = s.op /\ z.to = s.to
    BY <1>3, <2>1 DEF Sends
  <2>3. host.pc # "restored"
    BY <1>2, <2>1 DEF SendingTo
  <2>4. \A p \in Peers : busy'[p] => waiting'[p] # 0
    <3> TAKE p \in Peers
    <3>1. waiting'[p] = IF p = s.to THEN s.chr ELSE waiting[p]
      BY <2>1 DEF Types, GattTypes
    <3>2. s.chr # 0
      BY <1>3, Constant
    <3> QED
      BY <1>4, <2>1, <3>1, <3>2
  <2> QED
    BY <1>1, <1>2, <1>4, <2>1, <2>2, <2>3, <2>4 DEF Sender, Busy
<1>8. CASE InsertProc("host")
  <2>1. s.pc = "insert" /\ z.pc = "idle" /\ UNCHANGED <<waiting, busy, txq>>
    BY <1>0, <1>8, SendParts DEF InsertProc, attVars
  <2> QED
    BY <1>1, <1>4, <2>1 DEF Sender, Busy
<1> QED
  BY <1>0, <1>5, <1>6, <1>7, <1>8 DEF Send

LEMMA AppKeepsSender ==
  ASSUME Preempt = FALSE, "one" \notin Calls, Types, Sender, AppNext
  PROVE  Sender' /\ ~Busy /\ host.pc = "idle" /\ UNCHANGED <<send, host, conn, paired, bonded>>
<1>1. HostFree
  BY DEF AppNext, setValue, SendToOne, ChrUpdated, ReadRecord, WriteRecord, AppMayRun
<1>2. ~Busy /\ host.pc = "idle" /\ UNCHANGED <<send, waiting, busy, txq, host, conn, paired, bonded>>
  BY <1>1 DEF HostFree, Busy, AppNext, setValue, SendToOne, ChrUpdated, ReadRecord, WriteRecord,
              gattVars, attVars, connVars
<1> QED
  BY <1>2, FrameSender, SMTT(60)

(* The host begins a send. *)
LEMMA StartSends ==
  ASSUME Types, Sender, ~Busy, UNCHANGED <<waiting, busy, txq, conn, paired, bonded>>,
         NEW op \in Kinds, NEW p \in Peers, NEW c \in Chars,
         send' = [send EXCEPT !["host"] = Sending(op, p, c)],
         conn[p] = "up", op = "notify" => p \notin paired \ bonded,
         op = "indicate" => waiting[p] = 0,
         host'.pc \in {"idle", "tx", "restore", "restored"},
         host'.pc = "restore" => op = "indicate",
         host'.pc = "restored" => host'.peer = p /\ host'.rec.chr = c /\ op = "notify"
  PROVE  Sender'
<1> DEFINE z == send'["host"]
<1>1. z = Sending(op, p, c) /\ send'["app"] = send["app"]
  BY DEF Types, SideTypes, Actors
<1>2. z.pc = "read" /\ z.op = op /\ z.to = p /\ z.chr = c
  BY <1>1, SendParts
<1>3. \A q \in Peers : txq'[q] = <<>> /\ (busy'[q] => waiting'[q] # 0)
  BY DEF Sender, Busy
<1>4. send'["app"].pc = "idle"
  BY <1>1 DEF Sender
<1>5. host'.pc = "restored" => SendingTo(host.peer, host.rec.chr)'
  BY <1>2 DEF SendingTo
<1> HIDE DEF z
<1>6. Busy' <=> z.pc # "idle"
  BY DEF Busy, z
<1> QED
  BY <1>2, <1>3, <1>4, <1>5, <1>6 DEF Sender, z

LEMMA HostSendsKeepSender ==
  ASSUME Types, Stored, Alone, Sender,
         \/ TxNotifications \/ TxOne \/ TxDone \/ SendNextIndicate
  PROVE  Sender'
<1>0. UNCHANGED <<waiting, busy, txq, conn, paired, bonded>>
  BY DEF TxNotifications, TxOne, TxDone, SendNextIndicate, Stay, connVars, attVars, gattVars
<1>1. CASE TxNotifications
  <2>1. HostStep("idle") /\ send' = send /\ host'.pc = "tx"
    BY <1>1 DEF TxNotifications, HostAt
  <2> QED
    BY <1>0, <2>1, StepIsQuiet, FrameSender
<1>2. CASE TxDone
  <2>1. HostStep("tx") /\ send' = send /\ host'.pc = "idle"
    BY <1>2 DEF TxDone, HostAt
  <2> QED
    BY <1>0, <2>1, StepIsQuiet, FrameSender
<1>3. CASE TxOne
  <2>1. HostStep("tx")
    BY <1>3 DEF TxOne
  <2>2. PICK x \in host.left :
          LET p == x[1]  c == x[2] IN
          /\ host' = [host EXCEPT !.left = @ \ {x}]
          /\ IF conn[p] = "up" /\ Due(p, cccd[p][c])
             THEN send' = [send EXCEPT !["host"] = Sending(cccd[p][c].sub, p, c)]
             ELSE send' = send
    BY <1>3 DEF TxOne
  <2> DEFINE p == x[1]
             c == x[2]
  <2>3. p \in Peers /\ c \in Chars /\ host \in Hosts /\ cccd[p][c] \in Cfgs
    BY DEF Types, SideTypes, GattTypes, GoodHost, Hosts, Pairs
  <2>4. host'.pc = "tx" /\ ~Busy
    BY <2>1, <2>2, <2>3, StepIsQuiet DEF Hosts
  <2>5. CASE conn[p] = "up" /\ Due(p, cccd[p][c])
    <3>1. send' = [send EXCEPT !["host"] = Sending(cccd[p][c].sub, p, c)]
      BY <2>2, <2>5
    <3>2. cccd[p][c].sub \in Kinds /\ (cccd[p][c].sub = "indicate" => waiting[p] = 0)
      BY <2>5 DEF Due, Kinds
    <3>3. p \notin paired \ bonded
      BY <2>3, <3>2 DEF Stored, Away, Kinds
    <3> HIDE DEF p, c
    <3> QED
      BY <1>0, <2>3, <2>4, <2>5, <3>1, <3>2, <3>3, StartSends
  <2>6. CASE ~(conn[p] = "up" /\ Due(p, cccd[p][c]))
    BY <1>0, <2>2, <2>4, <2>6, FrameSender
  <2> QED
    BY <2>5, <2>6
<1>4. CASE SendNextIndicate
  <2>1. HostStep("next") /\ host'.pc = "idle" /\ host.peer \in Peers
    BY <1>4 DEF SendNextIndicate, HostStep, HostAt, Types, SideTypes, GoodHost
  <2>2. ~Busy /\ host.pc = "next"
    BY <2>1, StepIsQuiet
  <2>3. waiting[host.peer] = 0
    BY <2>1, <2>2, Constant DEF Sender
  <2>4. \/ send' = send
        \/ conn[host.peer] = "up" /\ \E c \in Chars :
              send' = [send EXCEPT !["host"] = Sending("indicate", host.peer, c)]
    BY <1>4 DEF SendNextIndicate
  <2>5. CASE send' = send
    BY <1>0, <2>1, <2>2, <2>5, FrameSender
  <2>6. CASE conn[host.peer] = "up" /\ \E c \in Chars :
              send' = [send EXCEPT !["host"] = Sending("indicate", host.peer, c)]
    <3>1. PICK c \in Chars : send' = [send EXCEPT !["host"] = Sending("indicate", host.peer, c)]
      BY <2>6
    <3>2. "indicate" \in Kinds
      BY DEF Kinds
    <3> QED
      BY <1>0, <2>1, <2>2, <2>3, <2>6, <3>1, <3>2, StartSends
  <2> QED
    BY <2>4, <2>5, <2>6
<1> QED
  BY <1>1, <1>2, <1>3, <1>4, SMTT(60)

LEMMA ReceiveKeepsSender ==
  ASSUME Types, Sender, HostReceives \/ Expire
  PROVE  Sender'
<1>1. HostStep("idle") /\ UNCHANGED <<send, conn, paired, bonded>> /\ ~Busy
  <2>1. HostStep("idle") /\ UNCHANGED <<send, conn, paired, bonded>>
    BY Zenon DEF HostReceives, Confirmation, CccdWrite, Incoming, Expire, connVars, sideVars
  <2> QED
    BY <2>1, StepIsQuiet
<1>2. \A p \in Peers : txq[p] = <<>> /\ (busy[p] => waiting[p] # 0)
  BY <1>1 DEF Sender, Busy
<1>3. CASE Expire
  <2>1. UNCHANGED <<waiting, busy, txq, host>>
    BY <1>3 DEF Expire, attVars, sideVars
  <2> QED
    BY <1>1, <2>1, FrameSender
<1>4. CASE \E p \in Peers : CccdWrite(p)
  <2>1. UNCHANGED <<waiting, busy, txq>>
    BY <1>4 DEF CccdWrite, attVars
  <2>2. host'.pc \in {"idle", "persist"} /\ host'.peer = None
    BY <1>4 DEF CccdWrite, HostAt
  <2>3. \A p \in Peers : txq'[p] = <<>> /\ (busy'[p] => waiting'[p] # 0)
    BY <1>2, <2>1
  <2> QED
    BY <1>1, <2>2, <2>3 DEF Sender, Busy
<1>5. CASE \E p \in Peers : Confirmation(p)
  <2>1. PICK p \in Peers : Confirmation(p)
    BY <1>5
  <2>2. busy' = [busy EXCEPT ![p] = FALSE] /\ txq' = txq
    BY <1>2, <2>1 DEF Confirmation, SendOutstanding
  <2>3. \/ UNCHANGED <<waiting, host>>
        \/ /\ waiting' = [waiting EXCEPT ![p] = 0] /\ host'.pc = "persist" /\ host'.peer = p
    BY <2>1 DEF Confirmation, HostAt
  <2>4. busy \in [Peers -> BOOLEAN] /\ waiting \in [Peers -> Chars \cup {0}]
    BY DEF Types, AirTypes, GattTypes
  <2>5. \A q \in Peers : txq'[q] = <<>> /\ (busy'[q] => waiting'[q] # 0)
    <3> TAKE q \in Peers
    <3>1. CASE q = p
      BY <1>2, <2>2, <2>4, <3>1
    <3>2. CASE q # p
      <4>1. busy'[q] = busy[q] /\ waiting'[q] = waiting[q]
        BY <2>2, <2>3, <2>4, <3>2
      <4> QED
        BY <1>2, <2>2, <4>1
    <3> QED
      BY <3>1, <3>2
  <2>6. host'.pc \in {"persist", "next"} /\ host'.peer # None => waiting'[host'.peer] = 0
    BY <1>1, <2>3, <2>4, StepIsQuiet
  <2> QED
    BY <1>1, <2>5, <2>6 DEF Sender, Busy
<1> QED
  BY <1>3, <1>4, <1>5 DEF HostReceives

LEMMA BondKeepsSender ==
  ASSUME Types, Stored, Alone, Resuming, Sender,
         \/ Persist \/ BondOne \/ BondRecord \/ BondDone \/ RestoreOne \/ RestoredSent \/ RestoreDone
         \/ \E p \in Peers : Pair(p) \/ Encrypt(p)
  PROVE  Sender'
<1>0. UNCHANGED <<waiting, busy, txq, conn>> /\ ~Busy
  <2>1. \E pc : HostStep(pc)
    BY Zenon DEF Persist, BondOne, BondRecord, BondDone, RestoreOne, RestoredSent, RestoreDone, Pair, Encrypt
  <2> QED
    BY <2>1, StepIsQuiet, ZenonT(40) DEF Persist, BondOne, BondRecord, BondDone, RestoreOne, RestoredSent,
         RestoreDone, Pair, Encrypt, Stay, connVars, attVars, gattVars
<1>1. host \in Hosts
  BY DEF Types, SideTypes, GoodHost
<1>2. CASE \/ BondOne \/ BondRecord \/ BondDone \/ RestoredSent \/ RestoreDone
           \/ \E p \in Peers : Pair(p) \/ Encrypt(p)
  <2>1. send' = send
    BY <1>2, Zenon DEF BondOne, BondRecord, BondDone, RestoredSent, RestoreDone, Pair, Encrypt
  <2>2. host'.pc \notin {"persist", "next"}
    <3>1. CASE BondOne
      <4>1. host.pc = "bond"
        BY <3>1 DEF BondOne, HostStep
      <4>2. PICK x \in host.left :
              \/ host' = [host EXCEPT !.left = @ \ {x}]
              \/ host' = [host EXCEPT !.pc = "record", !.left = @ \ {x},
                                    !.rec = Record(x[1], x[2], cccd[x[1]][x[2]], FALSE)]
        BY <3>1 DEF BondOne
      <4> QED
        BY <1>1, <4>1, <4>2 DEF Hosts
    <3>2. CASE BondRecord \/ RestoredSent
      BY <1>1, <3>2 DEF BondRecord, RestoredSent, Hosts
    <3>3. CASE BondDone \/ RestoreDone
      BY <3>3 DEF BondDone, RestoreDone, HostAt
    <3>4. CASE \E p \in Peers : Pair(p)
      BY <3>4 DEF Pair, HostAt
    <3>5. CASE \E p \in Peers : Encrypt(p)
      BY <3>5 DEF Encrypt, HostAt
    <3> QED
      BY <1>2, <3>1, <3>2, <3>3, <3>4, <3>5
  <2> QED
    BY <1>0, <2>1, <2>2, FrameSender, SMTT(60)
<1>3. CASE Persist
  <2>1. send' = send /\ host'.pc \in {"idle", "next"} /\ host.pc = "persist"
        /\ (host'.pc = "next" => host'.peer = host.peer)
    BY <1>3, StepIsQuiet DEF Persist, HostAt
  <2>2. host'.pc \in {"persist", "next"} /\ host'.peer # None => waiting'[host'.peer] = 0
    BY <1>0, <2>1 DEF Sender
  <2>3. \A q \in Peers : txq'[q] = <<>> /\ (busy'[q] => waiting'[q] # 0)
    BY <1>0 DEF Sender, Busy
  <2> QED
    BY <1>0, <2>1, <2>2, <2>3 DEF Sender, Busy
<1>4. CASE RestoreOne
  <2> DEFINE p == host.peer
  <2>1. HostStep("restore") /\ UNCHANGED <<paired, bonded>> /\ host.pc = "restore"
    BY <1>4, StepIsQuiet, Zenon DEF RestoreOne, Stay, connVars
  <2>2. p \in bonded /\ conn[p] = "up" /\ p \in Peers
    BY <1>1, <2>1, SMTT(60) DEF Stored, Returning, Resuming, Types, LinkTypes
  <2>3. PICK i \in DOMAIN store :
          LET r == store[i]
              now == r.changed /\ Due(p, Restored(r))
          IN /\ send' = IF now THEN [send EXCEPT !["host"] = Sending(r.sub, p, r.chr)] ELSE send
             /\ host' = IF now /\ r.sub = "notify" THEN [host EXCEPT !.pc = "restored", !.rec = r]
                        ELSE [host EXCEPT !.idx = @ + 1]
    BY <1>4, Places, Zenon DEF RestoreOne
  <2> DEFINE r == store[i]
  <2>4. r \in Recs /\ r.chr \in Chars
    <3>1. \A k \in DOMAIN store : store[k] \in Recs
      BY DEF Types, StoreTypes
    <3> QED
      BY <3>1 DEF Recs
  <2>5. CASE r.changed /\ Due(p, Restored(r))
    <3>1. r.sub \in Kinds /\ (r.sub = "indicate" => waiting[p] = 0)
      BY <2>5 DEF Due, Restored, Kinds
    <3>2. send' = [send EXCEPT !["host"] = Sending(r.sub, p, r.chr)]
      BY <2>3, <2>5
    <3>3. host' = IF r.sub = "notify" THEN [host EXCEPT !.pc = "restored", !.rec = r]
                  ELSE [host EXCEPT !.idx = @ + 1]
      BY <2>3, <2>5
    <3> HIDE DEF r
    <3>4. host'.peer = p /\ \/ host'.pc = "restored" /\ host'.rec = r /\ r.sub = "notify"
                            \/ host'.pc = "restore" /\ r.sub # "notify"
      BY <1>1, <2>1, <3>3 DEF Hosts
    <3> HIDE DEF p
    <3>5. r.sub # "notify" => r.sub = "indicate"
      BY <3>1 DEF Kinds
    <3>6. UNCHANGED <<waiting, busy, txq, conn, paired, bonded>>
      BY <1>0, <2>1
    <3> QED
      BY <1>0, <2>2, <2>4, <3>1, <3>2, <3>4, <3>5, <3>6, StartSends
  <2>6. CASE ~(r.changed /\ Due(p, Restored(r)))
    <3>1. send' = send /\ host' = [host EXCEPT !.idx = @ + 1]
      BY <2>3, <2>6
    <3>2. host'.pc = "restore"
      BY <1>1, <2>1, <3>1 DEF Hosts
    <3> QED
      BY <1>0, <3>1, <3>2, FrameSender
  <2> QED
    BY <2>5, <2>6, SMTT(60)
<1> QED
  BY <1>2, <1>3, <1>4, SMTT(60)

LEMMA LinkKeepsSender ==
  ASSUME Types, Sender, Delete \/ \E p \in Peers : Break(p) \/ Connect(p)
  PROVE  Sender'
<1>1. CASE Delete
  <2> DEFINE p == host.peer
  <2>1. HostStep("teardown") /\ send' = send /\ waiting' = [waiting EXCEPT ![p] = 0]
        /\ busy' = [busy EXCEPT ![p] = FALSE] /\ txq' = [txq EXCEPT ![p] = <<>>] /\ host'.pc = "idle"
    BY <1>1 DEF Delete, NoMessages, HostAt
  <2>2. ~Busy
    BY <2>1, StepIsQuiet
  <2>3. \A q \in Peers : txq'[q] = <<>> /\ (busy'[q] => waiting'[q] # 0)
    <3> TAKE q \in Peers
    <3>1. txq[q] = <<>> /\ (busy[q] => waiting[q] # 0)
      BY <2>2 DEF Sender, Busy
    <3>2. \/ txq'[q] = <<>> /\ busy'[q] = FALSE
          \/ txq'[q] = txq[q] /\ busy'[q] = busy[q] /\ waiting'[q] = waiting[q]
      BY <2>1 DEF Types, AirTypes, GattTypes
    <3> QED
      BY <3>1, <3>2
  <2> QED
    BY <2>1, <2>2, <2>3 DEF Sender, Busy
<1>2. CASE \E p \in Peers : Break(p)
  <2>1. PICK p \in Peers : Break(p)
    BY <1>2
  <2>2. HostStep("idle") /\ UNCHANGED <<send, waiting, busy>> /\ txq' = [txq EXCEPT ![p] = <<>>]
        /\ host'.pc = "teardown"
    BY <2>1 DEF Break, NoMessages, HostAt
  <2>3. ~Busy
    BY <2>2, StepIsQuiet
  <2>4. \A q \in Peers : txq'[q] = <<>> /\ (busy'[q] => waiting'[q] # 0)
    <3> TAKE q \in Peers
    <3>1. txq[q] = <<>> /\ (busy[q] => waiting[q] # 0)
      BY <2>3 DEF Sender, Busy
    <3>2. txq'[q] = <<>> \/ txq'[q] = txq[q]
      BY <2>2 DEF Types, AirTypes
    <3> QED
      BY <2>2, <3>1, <3>2
  <2> QED
    BY <2>2, <2>3, <2>4 DEF Sender, Busy
<1>3. CASE \E p \in Peers : Connect(p)
  <2>1. HostStep("idle") /\ UNCHANGED <<send, waiting, busy, txq, host>>
    BY <1>3 DEF Connect, gattVars, attVars, sideVars
  <2> QED
    BY <2>1, StepIsQuiet, FrameSender
<1> QED
  BY <1>1, <1>2, <1>3

LEMMA NextSender ==
  ASSUME Preempt = FALSE, NoMem = FALSE, "one" \notin Calls,
         Types, Stored, Alone, Resuming, Sender, [Next]_vars
  PROVE  Sender'
<1>0. "app" \in Actors /\ "host" \in Actors
  BY DEF Actors
<1>1. CASE UNCHANGED vars \/ PeerNext
  <2>1. UNCHANGED <<send, host, conn, paired, bonded, waiting, busy, txq, value>>
    BY <1>1 DEF vars, connVars, gattVars, attVars, sideVars, PeerNext, PeerReceives, PeerWrites
  <2> QED
    BY <2>1 DEF Sender, Busy, SendingTo
<1>2. CASE Send("app") \/ Send("host")
  BY <1>0, <1>2, SendKeepsSender
<1>3. CASE AppNext
  BY <1>3, AppKeepsSender
<1>4. CASE HostReceives \/ Expire
  BY <1>4, ReceiveKeepsSender
<1>5. CASE TxNotifications \/ TxOne \/ TxDone \/ SendNextIndicate
  BY <1>5, HostSendsKeepSender
<1>6. CASE \/ Persist \/ BondOne \/ BondRecord \/ BondDone \/ RestoreOne \/ RestoredSent \/ RestoreDone
           \/ \E p \in Peers : Pair(p) \/ Encrypt(p)
  BY <1>6, BondKeepsSender
<1>7. CASE Delete \/ \E p \in Peers : Break(p) \/ Connect(p)
  BY <1>7, LinkKeepsSender
<1> QED
  BY <1>1, <1>2, <1>3, <1>4, <1>5, <1>6, <1>7 DEF Next, HostSteps, Link

-----------------------------------------------------------------------------
(* The messages of each connection stay in order *)

LEMMA OneOrdered ==
  ASSUME Types, Links, NEW p \in Peers, value' = value,
         \A q \in Peers \ {p} :
           air'[q] = air[q] /\ back'[q] = back[q] /\ busy'[q] = busy[q] /\ seen'[q] = seen[q],
         Ordered(air'[p], back'[p], busy'[p], seen'[p], value)
  PROVE  Links'
<1> SUFFICES ASSUME NEW q \in Peers PROVE Ordered(air'[q], back'[q], busy'[q], seen'[q], value)
  BY DEF Links
<1>1. CASE q = p
  BY <1>1
<1>2. CASE q # p
  <2>1. Ordered(air[q], back[q], busy[q], seen[q], value)
    BY DEF Links
  <2>2. air'[q] = air[q] /\ back'[q] = back[q] /\ busy'[q] = busy[q] /\ seen'[q] = seen[q]
    BY <1>2
  <2> QED
    BY <2>1, <2>2
<1> QED
  BY <1>1, <1>2

LEMMA LinkFacts ==
  ASSUME Types, Links, NEW p \in Peers
  PROVE  /\ Ordered(air[p], back[p], busy[p], seen[p], value)
         /\ air[p] \in Seq(Msgs) /\ back[p] \in Seq(Backs) /\ busy[p] \in BOOLEAN
         /\ seen[p] \in [Chars -> Vals] /\ value \in [Chars -> Vals]
         /\ DOMAIN air = Peers /\ DOMAIN back = Peers /\ DOMAIN busy = Peers /\ DOMAIN seen = Peers
BY DEF Links, Types, AirTypes, PeerTypes, ValueTypes

LEMMA SendKeepsLinks ==
  ASSUME Preempt = FALSE, NoMem = FALSE, Types, Sender, Links, NEW a \in Actors, Send(a)
  PROVE  Links'
<1> DEFINE s == send["host"]
<1>0. a = "host" /\ s.pc # "idle" /\ Busy
  BY DEF Send, ReadValue, SendValue, MarkWaiting, InsertProc, Sender, Actors, Busy
<1>1. CASE ReadValue(a) \/ MarkWaiting(a) \/ InsertProc(a)
  BY <1>1 DEF ReadValue, MarkWaiting, InsertProc, Links, attVars, peerVars
<1>2. CASE SendValue(a)
  <2> DEFINE m == Message(s.op, s.chr, s.val)
             p == s.to
  <2>1. s \in Sends /\ p \in Peers /\ s.chr \in Chars /\ s.op \in Kinds /\ s.val \in Vals
    BY <1>0 DEF Types, SideTypes, GoodSend, Sends
  <2>2. s.pc = "tx" /\ conn[p] = "up" /\ s.val = value[s.chr] /\ (s.op = "indicate" => ~busy[p])
    <3>1. s.pc = "tx"
      BY <1>0, <1>2 DEF SendValue
    <3> QED
      BY <1>0, <2>1, <3>1 DEF Sender
  <2>3. Transmit(p, m) /\ UNCHANGED <<back, seen, value>>
    BY <1>0, <1>2, <2>2 DEF SendValue, peerVars
  <2>4. m \in Msgs /\ m.op = s.op /\ m.chr = s.chr /\ m.val = s.val
    BY <2>1 DEF Message, Msgs
  <2> HIDE DEF s, m, p
  <2>5. air' = [air EXCEPT ![p] = Append(@, m)] /\ busy' = [busy EXCEPT ![p] = @ \/ m.op = "indicate"]
    BY <2>2, <2>3, <2>4 DEF Transmit
  <2>6. /\ Ordered(air[p], back[p], busy[p], seen[p], value)
        /\ air[p] \in Seq(Msgs) /\ busy[p] \in BOOLEAN
        /\ seen[p] \in [Chars -> Vals] /\ value \in [Chars -> Vals]
        /\ DOMAIN air = Peers /\ DOMAIN busy = Peers
    BY <2>1, LinkFacts
  <2>7. Ordered(Append(air[p], m), back[p], busy[p] \/ m.op = "indicate", seen[p], value)
    <3>1. m.val = value[m.chr] /\ (m.op = "indicate" => ~busy[p])
      BY <2>2, <2>4
    <3> QED
      BY <2>4, <2>6, <3>1, OrderedSend
  <2>8. air'[p] = Append(air[p], m) /\ busy'[p] = (busy[p] \/ m.op = "indicate")
    BY <2>1, <2>5, <2>6
  <2>9. \A q \in Peers \ {p} : air'[q] = air[q] /\ busy'[q] = busy[q]
    BY <2>5, <2>6
  <2> QED
    BY <2>1, <2>3, <2>7, <2>8, <2>9, OneOrdered
<1> QED
  BY <1>1, <1>2 DEF Send

LEMMA NextLinks ==
  ASSUME Preempt = FALSE, NoMem = FALSE, Types, Sender, Links, [Next]_vars
  PROVE  Links'
<1>0. "app" \in Actors /\ "host" \in Actors
  BY DEF Actors
<1>1. CASE Send("app") \/ Send("host")
  BY <1>0, <1>1, SendKeepsLinks
<1>2. CASE UNCHANGED <<air, back, busy, seen, value>>
  BY <1>2 DEF Links
<1>3. CASE \E c \in Chars : setValue(c)
  <2>1. PICK c \in Chars : setValue(c)
    BY <1>3
  <2>2. UNCHANGED <<air, back, busy, seen>> /\ value' = [value EXCEPT ![c] = @ + 1] /\ value[c] < MaxValue
    BY <2>1 DEF setValue, attVars, peerVars
  <2>3. value \in [Chars -> Vals] /\ \A d \in Chars : value[d] \in Nat
    BY Constant DEF Types, ValueTypes
  <2>4. value' \in [Chars -> Vals] /\ \A d \in Chars : value[d] <= value'[d]
    BY <2>2, <2>3, CharsAssumption DEF Vals
  <2> SUFFICES ASSUME NEW p \in Peers PROVE Ordered(air[p], back[p], busy[p], seen[p], value')
    BY <2>2 DEF Links
  <2>5. /\ Ordered(air[p], back[p], busy[p], seen[p], value)
        /\ air[p] \in Seq(Msgs) /\ seen[p] \in [Chars -> Vals]
    BY LinkFacts
  <2> QED
    BY <2>3, <2>4, <2>5, OrderedRaise
<1>4. CASE \E p \in Peers : Confirmation(p) \/ CccdWrite(p)
  <2>1. PICK p \in Peers : Confirmation(p) \/ CccdWrite(p)
    BY <1>4
  <2>2. /\ Ordered(air[p], back[p], busy[p], seen[p], value)
        /\ back[p] \in Seq(Backs) /\ busy \in [Peers -> BOOLEAN]
        /\ DOMAIN back = Peers
    BY LinkFacts DEF Types, AirTypes
  <2>3. /\ back' = [back EXCEPT ![p] = Tail(@)] /\ back[p] # <<>>
        /\ UNCHANGED <<seen, value, air>>
        /\ \/ busy' = busy
           \/ Head(back[p]).op = "confirm" /\ busy' = [busy EXCEPT ![p] = FALSE]
    <3>1. CASE CccdWrite(p)
      BY <3>1 DEF CccdWrite, Incoming, attVars
    <3>2. CASE Confirmation(p)
      <4>1. txq[p] = <<>>
        BY DEF Sender
      <4> QED
        BY <3>2, <4>1 DEF Confirmation, Incoming, SendOutstanding
    <3> QED
      BY <2>1, <3>1, <3>2
  <2>4. busy'[p] \in BOOLEAN /\ (busy'[p] = busy[p] \/ Head(back[p]).op = "confirm")
    BY <2>2, <2>3
  <2>5. Ordered(air[p], Tail(back[p]), busy'[p], seen[p], value)
    BY <2>2, <2>3, <2>4, OrderedTail
  <2>6. back'[p] = Tail(back[p]) /\ \A q \in Peers \ {p} : back'[q] = back[q] /\ busy'[q] = busy[q]
    BY <2>2, <2>3
  <2> QED
    BY <2>3, <2>5, <2>6, OneOrdered
<1>5. CASE \E p \in Peers : Break(p)
  <2>1. PICK p \in Peers : Break(p)
    BY <1>5
  <2>2. /\ air' = [air EXCEPT ![p] = <<>>] /\ back' = [back EXCEPT ![p] = <<>>]
        /\ UNCHANGED <<busy, seen, value>>
    BY <2>1 DEF Break, NoMessages
  <2>3. Ordered(air[p], back[p], busy[p], seen[p], value) /\ DOMAIN air = Peers /\ DOMAIN back = Peers
    BY LinkFacts
  <2>4. Ordered(<<>>, <<>>, busy[p], seen[p], value)
    BY <2>3, OrderedClear
  <2>5. air'[p] = <<>> /\ back'[p] = <<>> /\ \A q \in Peers \ {p} : air'[q] = air[q] /\ back'[q] = back[q]
    BY <2>2, <2>3
  <2> QED
    BY <2>2, <2>4, <2>5, OneOrdered
<1>6. CASE Delete
  <2> DEFINE p == host.peer
  <2>1. /\ air' = [air EXCEPT ![p] = <<>>] /\ back' = [back EXCEPT ![p] = <<>>]
        /\ busy' = [busy EXCEPT ![p] = FALSE] /\ UNCHANGED <<seen, value>> /\ p \in Peers
    BY <1>6 DEF Delete, NoMessages, HostStep, Types, SideTypes, GoodHost
  <2> HIDE DEF p
  <2>2. Ordered(air[p], back[p], busy[p], seen[p], value)
        /\ DOMAIN air = Peers /\ DOMAIN back = Peers /\ DOMAIN busy = Peers
    BY <2>1, LinkFacts
  <2>3. Ordered(<<>>, <<>>, FALSE, seen[p], value)
    BY <2>2, OrderedClear
  <2>4. /\ air'[p] = <<>> /\ back'[p] = <<>> /\ busy'[p] = FALSE
        /\ \A q \in Peers \ {p} : air'[q] = air[q] /\ back'[q] = back[q] /\ busy'[q] = busy[q]
    BY <2>1, <2>2
  <2> QED
    BY <2>1, <2>3, <2>4, OneOrdered
<1>7. CASE \E p \in Peers : PeerReceives(p)
  <2>1. PICK p \in Peers : PeerReceives(p)
    BY <1>7
  <2> DEFINE m == Head(air[p])
  <2>2. /\ air[p] # <<>> /\ seen' = [seen EXCEPT ![p][m.chr] = m.val] /\ air' = [air EXCEPT ![p] = Tail(@)]
        /\ \/ back' = back
           \/ m.op = "indicate" /\ back' = [back EXCEPT ![p] = Append(@, [op |-> "confirm"])]
        /\ UNCHANGED <<busy, value>>
    BY <2>1 DEF PeerReceives
  <2>3. /\ Ordered(air[p], back[p], busy[p], seen[p], value)
        /\ air[p] \in Seq(Msgs) /\ back[p] \in Seq(Backs) /\ busy[p] \in BOOLEAN
        /\ seen[p] \in [Chars -> Vals] /\ value \in [Chars -> Vals]
        /\ DOMAIN air = Peers /\ DOMAIN back = Peers /\ DOMAIN seen = Peers
    BY LinkFacts
  <2> DEFINE d == back'[p]
  <2>4. d = back[p] \/ (m.op = "indicate" /\ d = Append(back[p], [op |-> "confirm"]))
    BY <2>2, <2>3
  <2> HIDE DEF d
  <2>5. Ordered(Tail(air[p]), d, busy[p], [seen[p] EXCEPT ![m.chr] = m.val], value)
    BY <2>2, <2>3, <2>4, OrderedReceive
  <2>6. seen'[p] = [seen[p] EXCEPT ![m.chr] = m.val] /\ air'[p] = Tail(air[p])
    BY <2>2, <2>3
  <2>7. \A q \in Peers \ {p} : air'[q] = air[q] /\ back'[q] = back[q] /\ seen'[q] = seen[q]
    BY <2>2, <2>3
  <2> QED
    BY <2>2, <2>5, <2>6, <2>7, OneOrdered DEF d
<1>8. CASE \E p \in Peers : PeerWrites(p)
  <2>1. PICK p \in Peers : PeerWrites(p)
    BY <1>8
  <2>2. PICK x : x.op = "cccd" /\ back' = [back EXCEPT ![p] = Append(@, x)]
    <3>1. PICK c \in Chars, sub \in Subs :
            back' = [back EXCEPT ![p] = Append(@, [op |-> "cccd", chr |-> c, sub |-> sub])]
      BY <2>1 DEF PeerWrites
    <3>2. [op |-> "cccd", chr |-> c, sub |-> sub].op = "cccd"
      OBVIOUS
    <3> QED
      BY <3>1, <3>2
  <2>3. UNCHANGED <<air, busy, seen, value>> /\ \A j \in DOMAIN back[p] : back[p][j].op # "cccd"
    BY <2>1 DEF PeerWrites, Unanswered, ToSet, attVars
  <2>4. /\ Ordered(air[p], back[p], busy[p], seen[p], value) /\ back[p] \in Seq(Backs)
        /\ DOMAIN back = Peers
    BY LinkFacts
  <2>5. Ordered(air[p], Append(back[p], x), busy[p], seen[p], value)
    BY <2>2, <2>3, <2>4, OrderedWrite
  <2>6. back'[p] = Append(back[p], x) /\ \A q \in Peers \ {p} : back'[q] = back[q]
    BY <2>2, <2>4, SMTT(60)
  <2> QED
    BY <2>3, <2>5, <2>6, OneOrdered
<1>9. CASE AppNext /\ ~ \E c \in Chars : setValue(c)
  BY <1>2, <1>9 DEF AppNext, SendToOne, ChrUpdated, ReadRecord, WriteRecord, attVars, peerVars
<1>10. CASE \/ TxNotifications \/ TxOne \/ TxDone \/ SendNextIndicate \/ Persist
            \/ BondOne \/ BondRecord \/ BondDone \/ RestoreOne \/ RestoredSent \/ RestoreDone
  BY <1>2, <1>10, Zenon DEF TxNotifications, TxOne, TxDone, SendNextIndicate, Persist, BondOne, BondRecord,
                     BondDone, RestoreOne, RestoredSent, RestoreDone, Stay, attVars, peerVars
<1>11. CASE Expire \/ \E p \in Peers : Connect(p) \/ Pair(p) \/ Encrypt(p)
  BY <1>2, <1>11 DEF Expire, Connect, Pair, Encrypt, attVars, peerVars
<1>12. CASE UNCHANGED vars
  BY <1>2, <1>12 DEF vars, attVars, peerVars
<1> QED
  BY <1>1, <1>3, <1>4, <1>5, <1>6, <1>7, <1>8, <1>9, <1>10, <1>11, <1>12
     DEF Next, HostSteps, HostReceives, Link, PeerNext

-----------------------------------------------------------------------------
(* What a step does to promises and to the store *)

(* Who takes a step, and where the host is when it does *)
LEMMA Steps ==
  ASSUME Preempt = FALSE, Types, Stored, Sender, [Next]_vars
  PROVE  \/ UNCHANGED vars
         \/ PeerNext
         \/ Send("host") /\ Busy
         \/ AppNext /\ HostFree /\ ~Busy /\ host.pc = "idle"
         \/ ~Busy /\ ~Working /\
              \/ host.pc = "idle" /\ (TxNotifications \/ HostReceives \/ Expire \/ Link)
              \/ host.pc = "tx" /\ (TxOne \/ TxDone)
              \/ host.pc = "persist" /\ Persist
              \/ host.pc = "next" /\ SendNextIndicate
              \/ host.pc = "teardown" /\ Delete
              \/ host.pc = "bond" /\ (BondOne \/ BondDone)
              \/ host.pc = "record" /\ BondRecord
              \/ host.pc = "restore" /\ (RestoreOne \/ RestoreDone)
              \/ host.pc = "restored" /\ RestoredSent
<1>1. ~Send("app")
  BY DEF Send, ReadValue, SendValue, MarkWaiting, InsertProc, Sender
<1>2. Send("host") => Busy
  BY DEF Send, ReadValue, SendValue, MarkWaiting, InsertProc, Busy
<1>3. AppNext => HostFree
  <2>1. AppNext => AppMayRun
    BY DEF AppNext, WriteRecord, ReadRecord, ChrUpdated, SendToOne, setValue
  <2> QED
    BY <2>1, SMTT(60) DEF AppMayRun
<1>4. HostFree => ~Busy /\ host.pc = "idle"
  BY DEF HostFree, Busy
<1>5. ASSUME NEW pc, HostStep(pc) PROVE host.pc = pc /\ ~Busy /\ ~Working
  BY <1>5, HostWorks, Zenon DEF Busy
<1>6. TxNotifications \/ HostReceives \/ Expire \/ Link => HostStep("idle")
  BY ZenonT(40) DEF TxNotifications, HostReceives, Confirmation, CccdWrite, Incoming, Expire,
         Link, Break, Connect, Pair, Encrypt
<1>7. /\ TxOne \/ TxDone => HostStep("tx")
      /\ Persist => HostStep("persist")
      /\ SendNextIndicate => HostStep("next")
      /\ Delete => HostStep("teardown")
      /\ BondOne \/ BondDone => HostStep("bond")
      /\ BondRecord => HostStep("record")
      /\ RestoreOne \/ RestoreDone => HostStep("restore")
      /\ RestoredSent => HostStep("restored")
  BY Zenon DEF TxOne, TxDone, Persist, SendNextIndicate, Delete, BondOne, BondDone, BondRecord,
         RestoreOne, RestoreDone, RestoredSent
<1>8. \/ UNCHANGED vars \/ PeerNext \/ Send("host") \/ AppNext
      \/ TxNotifications \/ HostReceives \/ Expire \/ Link
      \/ TxOne \/ TxDone \/ Persist \/ SendNextIndicate \/ Delete \/ BondOne \/ BondDone
      \/ BondRecord \/ RestoreOne \/ RestoreDone \/ RestoredSent
  BY <1>1 DEF Next, HostSteps
<1> QED
  BY <1>2, <1>3, <1>4, <1>5, <1>6, <1>7, <1>8

(* One entry of a table of tables is set. *)
LEMMA EntrySet ==
  ASSUME NEW V, NEW f \in [Peers -> [Chars -> V]], NEW p \in Peers, NEW c \in Chars, NEW v
  PROVE  \A q \in Peers, d \in Chars :
           [f EXCEPT ![p][c] = v][q][d] = IF q = p /\ d = c THEN v ELSE f[q][d]
OBVIOUS

(* What was promised changes only when the value is sent to everybody, or    *)
(* for the worse.                                                            *)
LEMMA PromisesShrink ==
  ASSUME Preempt = FALSE, Types, Stored, Sender, [Next]_vars, ~ChrUpdated,
         NEW q \in Peers, NEW d \in Chars
  PROVE  \/ promised'[q][d] = promised[q][d]
         \/ promised'[q][d] = NoPromise
         \/ /\ SendValue("host") /\ Busy /\ send["host"].op = "notify"
            /\ send["host"].to = q /\ send["host"].chr = d
            /\ promised'[q][d].val = promised[q][d].val /\ ~promised'[q][d].kept
<1>0. /\ promised \in [Peers -> [Chars -> [val : Vals, kept : BOOLEAN]]]
      /\ back \in [Peers -> Seq(Backs)] /\ host \in Hosts
  BY DEF Types, ValueTypes, PeerTypes, SideTypes, GoodHost
<1>1. CASE UNCHANGED promised
  BY <1>1
<1>2. CASE SendValue("host") /\ Busy
  <2> DEFINE s == send["host"]
  <2>1. s.pc = "tx" /\ s.to \in Peers /\ s.chr \in Chars
    BY <1>2 DEF SendValue, Types, SideTypes, GoodSend, Actors
  <2>2. promised' = promised \/ (s.op = "notify" /\ promised' = [promised EXCEPT ![s.to][s.chr].kept = FALSE])
    BY <1>2, SMTT(60) DEF SendValue
  <2> HIDE DEF s
  <2>3. CASE s.op = "notify" /\ promised' = [promised EXCEPT ![s.to][s.chr].kept = FALSE]
    <3> DEFINE e == [promised[s.to][s.chr] EXCEPT !.kept = FALSE]
    <3>1. promised' = [promised EXCEPT ![s.to][s.chr] = e]
      BY <1>0, <2>1, <2>3
    <3>2. e.val = promised[s.to][s.chr].val /\ ~e.kept
      BY <1>0, <2>1
    <3> HIDE DEF e
    <3>3. promised'[q][d] = IF q = s.to /\ d = s.chr THEN e ELSE promised[q][d]
      BY <1>0, <2>1, <3>1, EntrySet
    <3> QED
      BY <1>2, <2>3, <3>2, <3>3 DEF s
  <2> QED
    BY <2>2, <2>3
<1>3. CASE \E p \in Peers : CccdWrite(p)
  <2>1. PICK p \in Peers : CccdWrite(p)
    BY <1>3
  <2> DEFINE m == Head(back[p])
  <2>2. m \in Backs /\ m.op = "cccd"
    <3>1. back[p] \in Seq(Backs) /\ back[p] # <<>> /\ m.op = "cccd"
      BY <1>0, <2>1 DEF CccdWrite, Incoming
    <3> QED
      BY <3>1
  <2>3. m.chr \in Chars
    BY <2>2 DEF Backs
  <2>4. promised' = promised \/ promised' = [promised EXCEPT ![p][m.chr] = NoPromise]
    BY <2>1 DEF CccdWrite
  <2> HIDE DEF m
  <2>5. CASE promised' = [promised EXCEPT ![p][m.chr] = NoPromise]
    <3>1. promised'[q][d] = IF q = p /\ d = m.chr THEN NoPromise ELSE promised[q][d]
      BY <1>0, <2>3, <2>5, EntrySet
    <3> QED
      BY <3>1
  <2> QED
    BY <2>4, <2>5
<1>4. CASE RestoreOne
  <2>1. PICK i \in DOMAIN store :
          promised' = promised \/ promised' = [promised EXCEPT ![host.peer][store[i].chr] = NoPromise]
    BY <1>4, Places DEF RestoreOne
  <2>2. store[i].chr \in Chars /\ host.peer \in Peers
    <3>1. store[i] \in Recs
      BY DEF Types, StoreTypes
    <3> QED
      BY <1>4, <3>1 DEF Recs, RestoreOne, HostStep, Types, SideTypes, GoodHost
  <2>3. CASE promised' = [promised EXCEPT ![host.peer][store[i].chr] = NoPromise]
    <3>1. promised'[q][d] = IF q = host.peer /\ d = store[i].chr THEN NoPromise ELSE promised[q][d]
      BY <1>0, <2>2, <2>3, EntrySet
    <3> QED
      BY <3>1
  <2> QED
    BY <2>1, <2>3
<1>5. CASE Delete
  <2>1. promised' = [promised EXCEPT ![host.peer] =
                       [c \in Chars |-> IF @[c].kept THEN @[c] ELSE NoPromise]]
    BY <1>5 DEF Delete
  <2>2. promised'[q] = IF q = host.peer
                       THEN [c \in Chars |-> IF promised[q][c].kept THEN promised[q][c] ELSE NoPromise]
                       ELSE promised[q]
    BY <1>0, <2>1
  <2> QED
    BY <2>2
<1>6. CASE Send("host") /\ Busy /\ ~SendValue("host")
  BY <1>1, <1>6 DEF Send, ReadValue, MarkWaiting, InsertProc
<1>7. CASE AppNext
  BY <1>1, <1>7 DEF AppNext, setValue, SendToOne, ReadRecord, WriteRecord
<1>8. CASE UNCHANGED vars \/ PeerNext
  BY <1>1, <1>8, SMTT(60) DEF vars, PeerNext, PeerReceives, PeerWrites
<1>9. CASE TxNotifications \/ TxOne \/ TxDone \/ Persist \/ SendNextIndicate \/ BondOne \/ BondDone
           \/ BondRecord \/ RestoreDone \/ RestoredSent
  BY <1>1, <1>9, ZenonT(40) DEF TxNotifications, TxOne, TxDone, Persist, SendNextIndicate, BondOne, BondDone,
                    BondRecord, RestoreDone, RestoredSent
<1>10. CASE Expire \/ Link \/ \E p \in Peers : Confirmation(p)
  BY <1>1, <1>10, Zenon DEF Expire, Link, Break, Connect, Pair, Encrypt, Confirmation
<1> QED
  BY <1>2, <1>3, <1>4, <1>5, <1>6, <1>7, <1>8, <1>9, <1>10, Steps DEF HostReceives

(* What a peer has seen only grows. *)
LEMMA SeenGrows ==
  ASSUME Preempt = FALSE, Types, Stored, Sender, Links, [Next]_vars, NEW q \in Peers, NEW d \in Chars
  PROVE  seen[q][d] <= seen'[q][d] /\ seen[q][d] \in Nat /\ seen'[q][d] \in Nat
<1>0. seen \in [Peers -> [Chars -> Vals]] /\ \A e \in Vals : e <= e /\ e \in Nat
  BY Constant DEF Types, PeerTypes
<1>1. CASE seen' = seen
  BY <1>0, <1>1
<1>2. CASE \E p \in Peers : PeerReceives(p)
  <2>1. PICK p \in Peers : PeerReceives(p)
    BY <1>2
  <2> DEFINE m == Head(air[p])
  <2>2. air[p] # <<>> /\ seen' = [seen EXCEPT ![p][m.chr] = m.val]
    BY <2>1 DEF PeerReceives
  <2>3. Ordered(air[p], back[p], busy[p], seen[p], value) /\ air[p] \in Seq(Msgs)
    BY LinkFacts
  <2>4. 1 \in DOMAIN air[p] /\ air[p][1] = m /\ m \in Msgs
    BY <2>2, <2>3, TailPlaces
  <2> HIDE DEF m
  <2>5. seen[p][m.chr] <= m.val /\ m.chr \in Chars /\ m.val \in Nat
    BY <2>3, <2>4, Constant DEF Ordered, Msgs
  <2>6. seen'[q][d] = IF q = p /\ d = m.chr THEN m.val ELSE seen[q][d]
    BY <1>0, <2>2, <2>5, EntrySet
  <2> QED
    BY <1>0, <2>5, <2>6
<1>3. \/ seen' = seen \/ \E p \in Peers : PeerReceives(p)
  <2>1. CASE UNCHANGED vars \/ PeerNext
    BY <2>1 DEF vars, peerVars, PeerNext, PeerWrites
  <2>2. CASE Send("host")
    BY <2>2 DEF Send, ReadValue, SendValue, MarkWaiting, InsertProc, peerVars
  <2>3. CASE AppNext
    BY <2>3 DEF AppNext, setValue, SendToOne, ChrUpdated, ReadRecord, WriteRecord, peerVars
  <2>4. CASE TxNotifications \/ TxOne \/ TxDone \/ Persist \/ SendNextIndicate \/ BondOne \/ BondDone
             \/ BondRecord \/ RestoreOne \/ RestoreDone \/ RestoredSent
    BY <2>4, ZenonT(40) DEF TxNotifications, TxOne, TxDone, Persist, SendNextIndicate, BondOne, BondDone,
                BondRecord, RestoreOne, RestoreDone, RestoredSent, Stay, peerVars
  <2>5. CASE Delete \/ Expire \/ Link \/ HostReceives
    BY <2>5, Zenon DEF Delete, Expire, Link, Break, Connect, Pair, Encrypt, HostReceives, Confirmation,
                CccdWrite, peerVars
  <2> QED
    BY <2>1, <2>2, <2>3, <2>4, <2>5, Steps
<1> QED
  BY <1>1, <1>2, <1>3

(* Without a value sent to everybody, nothing more is wanted than before. *)
LEMMA WantedShrinks ==
  ASSUME Preempt = FALSE, Types, Stored, Sender, Links, [Next]_vars, ~ChrUpdated,
         NEW q \in Peers, NEW d \in Chars
  PROVE  /\ Wanted(q, d)' => Wanted(q, d) /\ promised'[q][d].val = promised[q][d].val
         /\ promised'[q][d].kept => promised'[q][d] = promised[q][d]
         /\ promised'[q][d].val > 0 => promised'[q][d].val = promised[q][d].val
<1>1. seen[q][d] <= seen'[q][d] /\ seen[q][d] \in Nat /\ seen'[q][d] \in Nat
  BY SeenGrows
<1>2. promised[q][d].val \in Nat
  <2>1. promised[q][d] \in [val : Vals, kept : BOOLEAN]
    BY DEF Types, ValueTypes
  <2> QED
    BY <2>1, Constant
<1>3. NoPromise.val = 0 /\ ~NoPromise.kept
  BY DEF NoPromise
<1>4. \/ promised'[q][d] = promised[q][d]
      \/ promised'[q][d] = NoPromise
      \/ promised'[q][d].val = promised[q][d].val /\ ~promised'[q][d].kept
  BY PromisesShrink
<1>5. CASE promised'[q][d] = promised[q][d]
  BY <1>1, <1>2, <1>5 DEF Wanted
<1>6. CASE promised'[q][d] = NoPromise
  <2>1. promised'[q][d].val = 0 /\ ~promised'[q][d].kept
    BY <1>3, <1>6
  <2> QED
    BY <1>1, <2>1 DEF Wanted
<1>7. CASE promised'[q][d].val = promised[q][d].val /\ ~promised'[q][d].kept
  BY <1>1, <1>2, <1>7 DEF Wanted
<1> QED
  BY <1>4, <1>5, <1>6, <1>7

(* A record that is written back where it is *)
Rewritten(s, t, i, r) ==
  /\ i \in DOMAIN s /\ SameSubs(s, t) /\ t[i] = r
  /\ \A k \in DOMAIN s : k # i => t[k] = s[k]

(* What a step does to the store *)
LEMMA StoreSteps ==
  ASSUME Preempt = FALSE, None \notin Recs, Types, Stored, Sender, [Next]_vars
  PROVE  \/ store' = store
         \/ /\ WriteRecord
            /\ \E i \in DOMAIN store : store[i] = app.rec
                 /\ Rewritten(store, store', i, [app.rec EXCEPT !.changed = TRUE])
         \/ /\ host.pc \in {"record", "persist"} /\ host.rec # None /\ host.rec \in Recs
            /\ \/ store' = Put(store, host.rec)
               \/ host.pc = "persist" /\ host.peer = None /\ store' = Without(store, host.rec)
         \/ /\ host.pc = "restored" /\ ~Busy
            /\ \E i \in DOMAIN store : store[i] = host.rec
                 /\ Rewritten(store, store', i, [host.rec EXCEPT !.changed = FALSE])
<1>1. /\ store \in Seq(Recs) /\ Unique(store) /\ host \in Hosts
  BY DEF Types, StoreTypes, SideTypes, GoodHost
<1>2. ASSUME NEW q \in Recs, NEW b \in BOOLEAN, NEW i \in DOMAIN store, store[i] = q,
             store' = Put(store, [q EXCEPT !.changed = b])
      PROVE  Rewritten(store, store', i, [q EXCEPT !.changed = b])
  <2> DEFINE r == [q EXCEPT !.changed = b]
  <2>1. r \in Recs /\ Same(store[i], r) /\ r.sub = store[i].sub
    BY <1>2 DEF Recs, Same
  <2>2. store' = Put(store, r)
    BY <1>2
  <2> HIDE DEF r
  <2>3. Rewritten(store, store', i, r)
    <3>1. SameSubs(store, Put(store, r)) /\ Put(store, r)[i] = r
          /\ \A k \in DOMAIN store : k # i => Put(store, r)[k] = store[k]
      BY <1>1, <2>1, PutBack
    <3> QED
      BY <2>2, <3>1 DEF Rewritten
  <2> QED
    BY <2>3 DEF r
<1>3. CASE WriteRecord
  <2>1. app.rec \in Recs /\ store' = Put(store, [app.rec EXCEPT !.changed = TRUE])
    BY <1>3 DEF WriteRecord, Types, SideTypes, GoodApp
  <2>2. PICK i \in DOMAIN store : store[i] = app.rec
    BY <1>3 DEF WriteRecord, Stored, AppHolds
  <2> QED
    BY <1>2, <1>3, <2>1, <2>2
<1>4. CASE RestoredSent /\ host.pc = "restored" /\ ~Busy
  <2>1. host.rec \in Recs
        /\ (store' = store \/ store' = Put(store, [host.rec EXCEPT !.changed = FALSE]))
    BY <1>4 DEF RestoredSent, Types, SideTypes, GoodHost
  <2>2. PICK i \in DOMAIN store : store[i] = host.rec
    BY <1>4 DEF Stored, Returning
  <2> QED
    BY <1>2, <1>4, <2>1, <2>2
<1>5. CASE Persist /\ host.pc = "persist"
  <2>1. \/ store' = store
        \/ host.rec # None /\ (store' = Put(store, host.rec)
                                 \/ (host.peer = None /\ store' = Without(store, host.rec)))
    BY <1>5 DEF Persist
  <2>2. host.rec # None => host.rec \in Recs
    BY <1>1 DEF Hosts
  <2> QED
    BY <1>5, <2>1, <2>2
<1>6. CASE BondRecord /\ host.pc = "record"
  <2>1. store' = Put(store, host.rec) /\ host.rec \in Recs
    BY <1>6 DEF BondRecord, Types, SideTypes, GoodHost
  <2>2. host.rec # None
    BY <2>1
  <2> QED
    BY <1>6, <2>1, <2>2
<1>7. \/ store' = store \/ WriteRecord \/ RestoredSent \/ Persist \/ BondRecord
  <2>1. CASE UNCHANGED vars \/ PeerNext
    BY <2>1 DEF vars, PeerNext, PeerReceives, PeerWrites
  <2>2. CASE Send("host")
    BY <2>2, SMTT(60) DEF Send, ReadValue, SendValue, MarkWaiting, InsertProc
  <2>3. CASE AppNext
    BY <2>3 DEF AppNext, setValue, SendToOne, ChrUpdated, ReadRecord
  <2>4. CASE TxNotifications \/ TxOne \/ TxDone \/ SendNextIndicate \/ BondOne \/ BondDone
             \/ RestoreOne \/ RestoreDone
    BY <2>4, ZenonT(40) DEF TxNotifications, TxOne, TxDone, SendNextIndicate, BondOne, BondDone,
                RestoreOne, RestoreDone
  <2>5. CASE Delete \/ Expire \/ Link \/ HostReceives
    BY <2>5, Zenon DEF Delete, Expire, Link, Break, Connect, Pair, Encrypt, HostReceives, Confirmation,
                CccdWrite
  <2> QED
    BY <2>1, <2>2, <2>3, <2>4, <2>5, Steps
<1>8. /\ RestoredSent => host.pc = "restored" /\ ~Busy
      /\ Persist => host.pc = "persist"
      /\ BondRecord => host.pc = "record"
  BY StepIsQuiet DEF RestoredSent, Persist, BondRecord
<1>9. CASE store' = store
  BY <1>9
<1> QED
  BY <1>3, <1>4, <1>5, <1>6, <1>7, <1>8, <1>9

-----------------------------------------------------------------------------
(* What is kept for a peer that is away *)

LEMMA InStoreStays ==
  ASSUME Preempt = FALSE, None \notin Recs, Types, Stored, Sender, [Next]_vars,
         NEW p, NEW c, InStore(store, p, c)
  PROVE  \/ InStore(store', p, c)
         \/ /\ host.pc = "persist" /\ host.peer = None
            /\ host.rec # None /\ host.rec.peer = p /\ host.rec.chr = c
<1>0. store \in Seq(Recs) /\ Unique(store)
  BY DEF Types, StoreTypes
<1>1. CASE store' = store
  BY <1>1
<1>2. ASSUME NEW i, NEW r, Rewritten(store, store', i, r) PROVE InStore(store', p, c)
  BY <1>2, SameFollows DEF Rewritten
<1>3. ASSUME host.rec \in Recs, store' = Put(store, host.rec) PROVE InStore(store', p, c)
  BY <1>0, <1>3, PutFollows
<1>4. ASSUME store' = Without(store, host.rec), ~(p = host.rec.peer /\ c = host.rec.chr)
      PROVE  InStore(store', p, c)
  BY <1>0, <1>4, WithoutFollows
<1> QED
  BY <1>1, <1>2, <1>3, <1>4, StoreSteps

LEMMA ChangedStays ==
  ASSUME Preempt = FALSE, None \notin Recs, Types, Stored, Sender, [Next]_vars,
         NEW p, NEW c, ChangedIn(store, p, c)
  PROVE  \/ ChangedIn(store', p, c)
         \/ /\ host.pc \in {"record", "persist"}
            /\ host.rec # None /\ host.rec.peer = p /\ host.rec.chr = c
         \/ /\ host.pc = "restored" /\ ~Busy
            /\ host.rec.peer = p /\ host.rec.chr = c
<1>0. store \in Seq(Recs) /\ Unique(store)
  BY DEF Types, StoreTypes
<1>1. CASE store' = store
  BY <1>1
<1>2. PICK k \in DOMAIN store : store[k].peer = p /\ store[k].chr = c /\ store[k].changed
  BY DEF ChangedIn
<1>3. ASSUME NEW i \in DOMAIN store, NEW q, NEW r, store[i] = q, Rewritten(store, store', i, r),
             r.changed \/ ~(q.peer = p /\ q.chr = c)
      PROVE  ChangedIn(store', p, c)
  <2>1. DOMAIN store' = DOMAIN store /\ store'[k].peer = p /\ store'[k].chr = c
    BY <1>2, <1>3 DEF Rewritten, SameSubs
  <2>2. store'[k].changed
    BY <1>2, <1>3 DEF Rewritten
  <2> QED
    BY <2>1, <2>2 DEF ChangedIn
<1>4. ASSUME host.rec \in Recs, store' = Put(store, host.rec), ~(host.rec.peer = p /\ host.rec.chr = c)
      PROVE  ChangedIn(store', p, c)
  <2>1. ~Same(store[k], host.rec)
    BY <1>2, <1>4 DEF Same
  <2>2. k \in DOMAIN store' /\ store'[k] = store[k]
    BY <1>0, <1>4, <2>1, PutPlaces
  <2> QED
    BY <1>2, <2>2 DEF ChangedIn
<1>5. ASSUME store' = Without(store, host.rec), ~(host.rec.peer = p /\ host.rec.chr = c)
      PROVE  ChangedIn(store', p, c)
  <2>1. ~Same(store[k], host.rec)
    BY <1>2, <1>5 DEF Same
  <2>2. \E i \in DOMAIN store' : store'[i] = store[k]
    BY <1>0, <1>5, <2>1, WithoutPlaces
  <2> QED
    BY <1>2, <2>2 DEF ChangedIn
<1>6. CASE WriteRecord /\ \E i \in DOMAIN store : store[i] = app.rec
                 /\ Rewritten(store, store', i, [app.rec EXCEPT !.changed = TRUE])
  <2>1. app.rec \in Recs
    BY <1>6 DEF WriteRecord, Types, SideTypes, GoodApp
  <2>2. [app.rec EXCEPT !.changed = TRUE].changed
    BY <2>1 DEF Recs
  <2> QED
    BY <1>3, <1>6, <2>2
<1> QED
  BY <1>1, <1>3, <1>4, <1>5, <1>6, StoreSteps

LEMMA NextBondedHere ==
  ASSUME Preempt = FALSE, Types, Stored, Sender, BondedHere, [Next]_vars
  PROVE  BondedHere'
<1>0. conn \in [Peers -> {"up", "broken", "down"}] /\ bonded \subseteq Peers
  BY DEF Types, LinkTypes
<1>1. CASE UNCHANGED <<conn, bonded>>
  BY <1>1 DEF BondedHere
<1>2. CASE Link
  <2>1. PICK p \in Peers : Break(p) \/ Connect(p) \/ Pair(p) \/ Encrypt(p)
    BY <1>2 DEF Link
  <2>2. \/ bonded' = bonded /\ (conn' = [conn EXCEPT ![p] = "broken"] \/ conn' = [conn EXCEPT ![p] = "up"])
        \/ bonded' = bonded \cup {p} /\ conn' = conn /\ conn[p] = "up"
    BY <2>1 DEF Break, Connect, Pair, Encrypt
  <2> QED
    BY <1>0, <2>2 DEF BondedHere
<1>3. CASE Delete
  <2>1. bonded' = bonded \ {host.peer} /\ conn' = [conn EXCEPT ![host.peer] = "down"]
    BY <1>3, SMTT(60) DEF Delete
  <2> QED
    BY <1>0, <2>1 DEF BondedHere
<1>4. CASE UNCHANGED vars \/ PeerNext \/ Send("host") \/ AppNext
  BY <1>1, <1>4, ZenonT(40) DEF vars, connVars, PeerNext, PeerReceives, PeerWrites, Send, ReadValue, SendValue,
     MarkWaiting, InsertProc, AppNext, setValue, SendToOne, ChrUpdated, ReadRecord, WriteRecord
<1>5. CASE \/ TxNotifications \/ TxOne \/ TxDone \/ SendNextIndicate \/ Persist
           \/ BondOne \/ BondRecord \/ BondDone \/ RestoreOne \/ RestoredSent \/ RestoreDone
  BY <1>1, <1>5, ZenonT(40) DEF TxNotifications, TxOne, TxDone, SendNextIndicate, Persist, BondOne, BondRecord,
                    BondDone, RestoreOne, RestoredSent, RestoreDone, Stay, connVars
<1>6. CASE Expire \/ HostReceives
  BY <1>1, <1>6, Zenon DEF Expire, HostReceives, Confirmation, CccdWrite, connVars
<1> QED
  BY <1>2, <1>3, <1>4, <1>5, <1>6, Steps

(* What is promised after a value was sent to everybody *)
LEMMA Promises ==
  ASSUME Types, ChrUpdated, NEW p \in Peers, NEW c \in Chars
  PROVE  /\ app.chr \in Chars
         /\ c # app.chr => promised'[p][c] = promised[p][c]
         /\ c = app.chr => promised'[p][c] = Promise(p, c)
<1>1. app.chr \in Chars
  BY DEF ChrUpdated, Types, SideTypes, GoodApp
<1>2. promised \in [Peers -> [Chars -> [val : Vals, kept : BOOLEAN]]]
  BY DEF Types, ValueTypes
<1>3. promised'[p] = [promised[p] EXCEPT ![app.chr] = Promise(p, app.chr)]
  BY DEF ChrUpdated
<1> QED
  BY <1>1, <1>2, <1>3

LEMMA NextKeptInStore ==
  ASSUME Preempt = FALSE, None \notin Recs, Types, Stored, Sender, Links, KeptInStore,
         InRecord, [Next]_vars
  PROVE  KeptInStore'
<1> SUFFICES ASSUME NEW p \in Peers, NEW c \in Chars, promised'[p][c].kept
             PROVE  InStore(store', p, c)
  BY DEF KeptInStore
<1>1. CASE ChrUpdated
  <2>1. store' = store
    BY <1>1 DEF ChrUpdated
  <2>2. CASE promised'[p][c] = promised[p][c]
    BY <2>1, <2>2 DEF KeptInStore
  <2>3. CASE promised'[p][c] = Promise(p, c)
    <3> DEFINE recorded == \E r \in ToSet(store) : r.peer = p /\ r.chr = c /\ r.sub # "none"
    <3>1. CASE recorded
      BY <2>1, <3>1 DEF ToSet, InStore
    <3>2. CASE ~recorded
      <4> DEFINE here == conn[p] = "up" /\ cccd[p][c].sub # "none"
      <4>1. Promise(p, c) = IF here THEN [val |-> value[c], kept |-> FALSE] ELSE promised[p][c]
        BY <3>2 DEF Promise
      <4> HIDE DEF here, recorded
      <4>2. promised[p][c].kept
        BY <2>3, <4>1
      <4> QED
        BY <2>1, <4>2 DEF KeptInStore
    <3> QED
      BY <3>1, <3>2
  <2> QED
    BY <1>1, <2>2, <2>3, Promises
<1>2. CASE ~ChrUpdated
  <2>1. promised[p][c].kept
    BY <1>2, WantedShrinks
  <2>2. InStore(store, p, c)
    BY <2>1 DEF KeptInStore
  <2>3. ~(host.pc = "persist" /\ host.peer = None /\ host.rec # None /\ host.rec.peer = p /\ host.rec.chr = c)
    BY <2>1 DEF InRecord
  <2> QED
    BY <2>2, <2>3, InStoreStays
<1> QED
  BY <1>1, <1>2

LEMMA NextKeptAway ==
  ASSUME Preempt = FALSE, Types, Stored, Sender, Links, KeptAway, [Next]_vars
  PROVE  KeptAway'
<1> SUFFICES ASSUME NEW p \in Peers, NEW c \in Chars, p \notin bonded',
                    conn'[p] = "down" \/ p \in paired', promised'[p][c].val > 0
             PROVE  promised'[p][c].kept
  BY DEF KeptAway
<1>0. conn \in [Peers -> {"up", "broken", "down"}]
  BY DEF Types, LinkTypes
<1>1. CASE Delete
  <2>1. promised' = [promised EXCEPT ![host.peer] =
                       [d \in Chars |-> IF @[d].kept THEN @[d] ELSE NoPromise]]
        /\ bonded' = bonded \ {host.peer} /\ paired' = paired
        /\ conn' = [conn EXCEPT ![host.peer] = "down"]
    BY <1>1 DEF Delete
  <2>2. promised'[p] = IF p = host.peer
                       THEN [d \in Chars |-> IF promised[p][d].kept THEN promised[p][d] ELSE NoPromise]
                       ELSE promised[p]
    BY <2>1 DEF Types, ValueTypes
  <2>3. CASE p = host.peer
    <3>1. promised'[p][c] = IF promised[p][c].kept THEN promised[p][c] ELSE NoPromise
      BY <2>2, <2>3
    <3> QED
      BY <3>1, Constant
  <2>4. CASE p # host.peer
    <3>1. promised'[p][c] = promised[p][c] /\ p \notin bonded /\ (conn[p] = "down" \/ p \in paired)
      BY <1>0, <2>1, <2>2, <2>4
    <3> QED
      BY <3>1 DEF KeptAway
  <2> QED
    BY <2>3, <2>4
<1>2. ASSUME ~Delete PROVE p \notin bonded /\ (conn[p] = "down" \/ p \in paired)
  <2>1. CASE UNCHANGED <<conn, bonded, paired>>
    BY <2>1
  <2>2. CASE Link
    <3>1. PICK q \in Peers : Break(q) \/ Connect(q) \/ Pair(q) \/ Encrypt(q)
      BY <2>2 DEF Link
    <3>2. \/ UNCHANGED <<paired, bonded>> /\ conn' = [conn EXCEPT ![q] = "broken"]
          \/ UNCHANGED <<paired, bonded>> /\ conn' = [conn EXCEPT ![q] = "up"]
          \/ paired' = paired \cup {q} /\ bonded' = bonded \cup {q} /\ conn' = conn
          \/ paired' = paired /\ bonded' = bonded \cup {q} /\ conn' = conn
      BY <3>1, SMTT(60) DEF Break, Connect, Pair, Encrypt
    <3> QED
      BY <1>0, <3>2
  <2>3. CASE UNCHANGED vars \/ PeerNext \/ Send("host") \/ AppNext
    BY <2>1, <2>3, ZenonT(40) DEF vars, connVars, PeerNext, PeerReceives, PeerWrites, Send, ReadValue, SendValue,
       MarkWaiting, InsertProc, AppNext, setValue, SendToOne, ChrUpdated, ReadRecord, WriteRecord
  <2>4. CASE \/ TxNotifications \/ TxOne \/ TxDone \/ SendNextIndicate \/ Persist
             \/ BondOne \/ BondRecord \/ BondDone \/ RestoreOne \/ RestoredSent \/ RestoreDone
    BY <2>1, <2>4, ZenonT(40) DEF TxNotifications, TxOne, TxDone, SendNextIndicate, Persist, BondOne, BondRecord,
                      BondDone, RestoreOne, RestoredSent, RestoreDone, Stay, connVars
  <2>5. CASE Expire \/ HostReceives
    BY <2>1, <2>5, Zenon DEF Expire, HostReceives, Confirmation, CccdWrite, connVars
  <2> QED
    BY <1>2, <2>2, <2>3, <2>4, <2>5, Steps
<1>3. CASE promised'[p][c] = promised[p][c] /\ ~Delete
  BY <1>2, <1>3 DEF KeptAway
<1>4. CASE ChrUpdated /\ ~Delete
  <2>1. CASE promised'[p][c] = Promise(p, c)
    <3> DEFINE here == conn[p] = "up" /\ cccd[p][c].sub # "none"
               recorded == \E r \in ToSet(store) : r.peer = p /\ r.chr = c /\ r.sub # "none"
    <3>1. ~here
      BY <1>2, <1>4 DEF Stored, Away
    <3>2. Promise(p, c) = IF recorded THEN [val |-> value[c], kept |-> recorded] ELSE promised[p][c]
      BY <3>1 DEF Promise
    <3> HIDE DEF recorded
    <3>3. CASE recorded
      BY <2>1, <3>2, <3>3
    <3>4. CASE ~recorded
      BY <1>3, <1>4, <2>1, <3>2, <3>4
    <3> QED
      BY <3>3, <3>4
  <2> QED
    BY <1>3, <1>4, <2>1, Promises
<1>5. CASE ~ChrUpdated /\ ~Delete
  <2>1. ~(SendValue("host") /\ Busy /\ send["host"].op = "notify" /\ send["host"].to = p)
    BY <1>2, <1>5 DEF Sender
  <2>2. promised'[p][c] # NoPromise
    BY Constant
  <2>3. promised'[p][c] = promised[p][c]
    BY <1>5, <2>1, <2>2, PromisesShrink
  <2> QED
    BY <1>3, <1>5, <2>3
<1> QED
  BY <1>1, <1>4, <1>5

LEMMA AppStays ==
  ASSUME Preempt = FALSE, Types, Stored, Sender, [Next]_vars, ~AppNext
  PROVE  app' = app
<1>1. CASE UNCHANGED vars \/ PeerNext \/ Send("host")
  BY <1>1, SMTT(60) DEF vars, sideVars, PeerNext, PeerReceives, PeerWrites, Send, ReadValue, SendValue,
     MarkWaiting, InsertProc
<1>2. CASE \/ TxNotifications \/ TxOne \/ TxDone \/ SendNextIndicate \/ Persist
           \/ BondOne \/ BondRecord \/ BondDone \/ RestoreOne \/ RestoredSent \/ RestoreDone
  BY <1>2, ZenonT(40) DEF TxNotifications, TxOne, TxDone, SendNextIndicate, Persist, BondOne, BondRecord,
              BondDone, RestoreOne, RestoredSent, RestoreDone, Stay
<1>3. CASE Expire \/ HostReceives \/ Delete
  BY <1>3, Zenon DEF Expire, HostReceives, Confirmation, CccdWrite, Delete, sideVars
<1>4. CASE Link
  BY <1>4 DEF Link, Break, Connect, Pair, Encrypt, sideVars
<1> QED
  BY <1>1, <1>2, <1>3, <1>4, Steps

LEMMA ChrRanks ==
  ASSUME store \in Seq(Recs), NEW c, NEW n \in Nat
  PROVE  /\ OfChr(c, n) = {i \in PlacesFor(store, c) : Rank(PlacesFor(store, c), i) = n}
         /\ PlacesFor(store, c) \subseteq Nat \ {0}
<1>1. DOMAIN store = 1..Len(store) /\ Len(store) \in Nat
  OBVIOUS
<1>2. PlacesFor(store, c) \subseteq Nat \ {0}
  BY <1>1 DEF PlacesFor
<1>3. \A i \in DOMAIN store : {j \in 1..i : store[j].chr = c} = UpTo(PlacesFor(store, c), i)
  BY <1>1 DEF UpTo, PlacesFor
<1> QED
  BY <1>2, <1>3 DEF OfChr, PlacesFor, Rank

(* The walk of ble_gatts_chr_updated() over the records *)
LEMMA NextWalking ==
  ASSUME Preempt = FALSE, None \notin Recs, Types, Stored, Sender, Walking, [Next]_vars
  PROVE  Walking'
<1>0. /\ store \in Seq(Recs) /\ Unique(store) /\ app \in Apps /\ app.idx \in Nat
      /\ \A i \in DOMAIN store : store[i] \in Recs
  BY DEF Types, StoreTypes, SideTypes, GoodApp, Apps
<1>1. CASE ~AppNext
  <2> SUFFICES ASSUME Working' PROVE Walking'
    BY DEF Walking
  <2>1. app' = app /\ Working
    BY <1>1, AppStays DEF Working
  <2>2. HostFree
    BY <2>1 DEF Stored, AppHolds
  <2>3. store' = store
    BY <1>1, <2>2, StoreSteps DEF HostFree, AppNext
  <2>4. PlacesFor(store', app.chr) = PlacesFor(store, app.chr)
    BY <2>3
  <2> QED
    BY <2>1, <2>3, <2>4 DEF Walking, Working
<1>2. CASE AppNext /\ ~WriteRecord /\ ~ReadRecord /\ ~ChrUpdated
  BY <1>2 DEF AppNext, setValue, SendToOne, AppAt, Walking, Working
<1>3. CASE ChrUpdated
  <2>1. app' = [app EXCEPT !.pc = "records", !.idx = 1] /\ store' = store
    BY <1>3 DEF ChrUpdated
  <2>2. app'.pc = "records" /\ app'.idx = 1 /\ app'.chr = app.chr
    BY <1>0, <2>1 DEF Apps
  <2>3. \A i \in PlacesFor(store, app.chr) : ~(Rank(PlacesFor(store, app.chr), i) < 1)
    <3>1. PlacesFor(store, app.chr) \subseteq Nat \ {0}
      BY <1>0, ChrRanks
    <3>2. \A i \in PlacesFor(store, app.chr) :
            Rank(PlacesFor(store, app.chr), i) \in Nat /\ Rank(PlacesFor(store, app.chr), i) > 0
      BY <3>1, RankGrows
    <3> QED
      BY <3>2
  <2> QED
    BY <2>1, <2>2, <2>3 DEF Walking
<1>4. CASE ReadRecord
  <2> DEFINE T == PlacesFor(store, app.chr)
  <2>1. app.pc = "records" /\ store' = store /\ Working
    BY <1>4 DEF ReadRecord, Working
  <2>2. app.idx > 0 /\ \A i \in T : Rank(T, i) < app.idx => store[i].changed
    BY <2>1 DEF Walking
  <2>3. /\ OfChr(app.chr, app.idx) = {i \in T : Rank(T, i) = app.idx} /\ T \subseteq Nat \ {0}
    BY <1>0, ChrRanks
  <2> HIDE DEF T
  <2>4. CASE app' = AppAt("idle")
    BY <2>4 DEF AppAt, Walking, Working
  <2>5. CASE \E i \in OfChr(app.chr, app.idx) :
               app' = IF store[i].changed THEN [app EXCEPT !.idx = @ + 1]
                      ELSE [app EXCEPT !.pc = "record", !.rec = store[i]]
    <3>1. PICK i \in T : Rank(T, i) = app.idx /\
               app' = IF store[i].changed THEN [app EXCEPT !.idx = @ + 1]
                      ELSE [app EXCEPT !.pc = "record", !.rec = store[i]]
      BY <2>3, <2>5
    <3>2. CASE store[i].changed
      <4>1. app'.pc = "records" /\ app'.idx = app.idx + 1 /\ app'.chr = app.chr
        BY <1>0, <2>1, <3>1, <3>2 DEF Apps
      <4>2. ASSUME NEW k \in T, Rank(T, k) < app.idx + 1 PROVE store[k].changed
        <5>1. Rank(T, k) \in Nat /\ (Rank(T, k) = Rank(T, i) => k = i)
          BY <2>3, RankGrows
        <5>2. Rank(T, k) < app.idx \/ Rank(T, k) = app.idx
          BY <1>0, <4>2, <5>1
        <5> QED
          BY <2>2, <3>1, <3>2, <5>1, <5>2
      <4>3. app'.idx > 0
        BY <1>0, <4>1
      <4> QED
        BY <2>1, <4>1, <4>2, <4>3 DEF Walking, T
    <3>3. CASE ~store[i].changed
      <4>1. app'.pc = "record" /\ app'.idx = app.idx /\ app'.chr = app.chr /\ app'.rec = store[i]
        BY <1>0, <2>1, <3>1, <3>3 DEF Apps
      <4>2. Rank(T, i) = app.idx
        BY <3>1
      <4> QED
        BY <2>1, <2>2, <4>1, <4>2 DEF Walking, T
    <3> QED
      BY <3>2, <3>3
  <2> QED
    BY <1>4, <2>4, <2>5 DEF ReadRecord
<1>5. CASE WriteRecord
  <2> DEFINE T == PlacesFor(store, app.chr)
             r == [app.rec EXCEPT !.changed = TRUE]
  <2>1. app.pc = "record" /\ app.rec \in Recs /\ app' = [app EXCEPT !.pc = "records", !.idx = @ + 1, !.rec = None]
    BY <1>5 DEF WriteRecord, Types, SideTypes, GoodApp
  <2>2. app'.pc = "records" /\ app'.idx = app.idx + 1 /\ app'.chr = app.chr
    BY <1>0, <2>1 DEF Apps
  <2>3. /\ app.idx > 0 /\ \A i \in T : Rank(T, i) < app.idx => store[i].changed
        /\ \E i \in T : Rank(T, i) = app.idx /\ store[i] = app.rec
    BY <2>1 DEF Walking, Working
  <2>4. PICK i \in T : Rank(T, i) = app.idx /\ store[i] = app.rec
    BY <2>3
  <2>5. i \in DOMAIN store
    BY DEF PlacesFor
  <2>6. r \in Recs /\ Same(store[i], r) /\ r.sub = store[i].sub /\ r.changed
    BY <2>1, <2>4 DEF Recs, Same
  <2>7. store' = Put(store, r)
    BY <1>5 DEF WriteRecord
  <2>8. T \subseteq Nat \ {0}
    BY <1>0, ChrRanks
  <2> HIDE DEF r
  <2>9. SameSubs(store, Put(store, r)) /\ Put(store, r)[i] = r
        /\ \A k \in DOMAIN store : k # i => Put(store, r)[k] = store[k]
    BY <1>0, <2>5, <2>6, PutBack
  <2>10. PlacesFor(store', app.chr) = T
    BY <2>7, <2>9 DEF PlacesFor, SameSubs
  <2> HIDE DEF T
  <2>11. ASSUME NEW k \in T, Rank(T, k) < app.idx + 1 PROVE store'[k].changed
    <3>1. Rank(T, k) \in Nat /\ (Rank(T, k) = Rank(T, i) => k = i) /\ k \in DOMAIN store
      BY <2>8, RankGrows DEF T, PlacesFor
    <3>2. CASE k = i
      BY <2>6, <2>7, <2>9, <3>2
    <3>3. CASE k # i
      <4>1. Rank(T, k) < app.idx
        BY <1>0, <2>4, <2>11, <3>1, <3>3
      <4> QED
        BY <2>3, <2>7, <2>9, <3>1, <3>3, <4>1
    <3> QED
      BY <3>2, <3>3
  <2>12. app'.idx > 0
    BY <1>0, <2>2
  <2> QED
    BY <2>2, <2>10, <2>11, <2>12 DEF Walking
<1> QED
  BY <1>1, <1>2, <1>3, <1>4, <1>5

LEMMA NextNoticed ==
  ASSUME Preempt = FALSE, None \notin Recs, Types, Stored, Sender, Links, KeptInStore, Noticed,
         Walking, InRecord, Resuming, [Next]_vars
  PROVE  Noticed'
<1> SUFFICES ASSUME NEW p \in Peers, NEW c \in Chars, promised'[p][c].kept, Wanted(p, c)'
             PROVE  ChangedIn(store', p, c) \/ (Working /\ app.chr = c)'
  BY DEF Noticed
<1>0. store \in Seq(Recs) /\ app \in Apps /\ app.idx \in Nat
  BY DEF Types, StoreTypes, SideTypes, GoodApp, Apps
<1>1. CASE ChrUpdated
  <2>1. UNCHANGED <<store, seen>> /\ app' = [app EXCEPT !.pc = "records", !.idx = 1] /\ ~Working
    BY <1>1 DEF ChrUpdated, peerVars, Working
  <2>2. CASE c = app.chr
    BY <1>0, <2>1, <2>2 DEF Apps, Working
  <2>3. CASE c # app.chr
    <3>1. promised'[p][c] = promised[p][c]
      BY <1>1, <2>3, Promises
    <3>2. promised[p][c].kept /\ Wanted(p, c)
      BY <2>1, <3>1 DEF Wanted
    <3> QED
      BY <2>1, <3>2 DEF Noticed
  <2> QED
    BY <2>2, <2>3
<1>2. CASE ~ChrUpdated
  <2>1. promised[p][c].kept /\ Wanted(p, c)
    BY <1>2, WantedShrinks
  <2>2. CASE ChangedIn(store, p, c)
    <3>1. ~(host.pc \in {"record", "persist"} /\ host.rec # None /\ host.rec.peer = p /\ host.rec.chr = c)
      BY <2>1 DEF InRecord
    <3>2. ~(host.pc = "restored" /\ ~Busy /\ host.rec.peer = p /\ host.rec.chr = c)
      <4> SUFFICES ASSUME host.pc = "restored", ~Busy, host.rec.peer = p, host.rec.chr = c PROVE FALSE
        OBVIOUS
      <4>1. host.rec.peer = host.peer /\ ~promised[host.peer][host.rec.chr].kept
        BY DEF Resuming, PlacesOf
      <4> QED
        BY <2>1, <4>1
    <3> QED
      BY <2>2, <3>1, <3>2, ChangedStays
  <2>3. CASE Working /\ app.chr = c
    <3>1. CASE ~AppNext
      <4>1. app' = app
        BY <3>1, AppStays
      <4> QED
        BY <2>3, <4>1 DEF Working
    <3>2. CASE WriteRecord
      BY <1>0, <2>3, <3>2 DEF WriteRecord, Apps, Working
    <3>3. CASE ReadRecord /\ OfChr(app.chr, app.idx) = {}
      <4> DEFINE T == PlacesFor(store, c)
      <4>1. app.idx > 0 /\ \A i \in T : Rank(T, i) < app.idx => store[i].changed
        BY <2>3 DEF Walking
      <4>2. {i \in T : Rank(T, i) = app.idx} = {} /\ T \subseteq Nat \ {0}
        BY <1>0, <2>3, <3>3, ChrRanks
      <4>3. InStore(store, p, c)
        BY <2>1 DEF KeptInStore
      <4>4. PICK i \in T : store[i].peer = p /\ store[i].chr = c /\ i \in DOMAIN store
        BY <4>3 DEF InStore, PlacesFor
      <4> HIDE DEF T
      <4>5. \A k \in T : Rank(T, k) # app.idx
        BY <4>2
      <4>6. \A k \in T : Rank(T, k) < app.idx
        BY <1>0, <4>1, <4>2, <4>5, RankGap
      <4>7. store' = store
        BY <3>3 DEF ReadRecord
      <4> QED
        BY <4>1, <4>4, <4>6, <4>7 DEF ChangedIn
    <3>4. CASE ReadRecord /\ OfChr(app.chr, app.idx) # {}
      <4>1. PICK i : app' = IF store[i].changed THEN [app EXCEPT !.idx = @ + 1]
                            ELSE [app EXCEPT !.pc = "record", !.rec = store[i]]
        BY <3>4 DEF ReadRecord
      <4>2. app.pc = "records"
        BY <3>4 DEF ReadRecord
      <4> QED
        BY <1>0, <2>3, <4>1, <4>2 DEF Apps, Working
    <3>5. CASE AppNext /\ ~ReadRecord /\ ~WriteRecord
      BY <1>2, <2>3, <3>5, SMTT(60) DEF AppNext, setValue, SendToOne, Working
    <3> QED
      BY <3>1, <3>2, <3>3, <3>4, <3>5
  <2> QED
    BY <2>1, <2>2, <2>3 DEF Noticed
<1> QED
  BY <1>1, <1>2

(* What the host is about to record of a peer leaves nothing to remember. *)
LEMMA NextInRecord ==
  ASSUME Preempt = FALSE, None \notin Recs, Types, Stored, Sender, Links, Asked, KeptInStore,
         InRecord, Current, [Next]_vars
  PROVE  InRecord'
<1> SUFFICES ASSUME host'.pc \in {"record", "persist"}, host'.rec # None
             PROVE  /\ ~(promised[host.rec.peer][host.rec.chr].kept /\ Wanted(host.rec.peer, host.rec.chr))'
                    /\ host'.pc = "persist" /\ host'.peer = None =>
                         ~promised'[host'.rec.peer][host'.rec.chr].kept
  BY DEF InRecord
<1>0. /\ host \in Hosts /\ back \in [Peers -> Seq(Backs)] /\ cccd \in [Peers -> [Chars -> Cfgs]]
      /\ promised \in [Peers -> [Chars -> [val : Vals, kept : BOOLEAN]]]
  BY DEF Types, SideTypes, GoodHost, PeerTypes, GattTypes, ValueTypes
<1>1. CASE host' = host
  <2>1. ~ChrUpdated
    <3>1. ChrUpdated => HostFree
      BY DEF ChrUpdated, AppMayRun
    <3> QED
      BY <1>1, <3>1 DEF HostFree
  <2>2. host.rec \in Recs
    BY <1>0, <1>1 DEF Hosts
  <2>3. PICK p \in Peers, c \in Chars : host.rec.peer = p /\ host.rec.chr = c
    BY <2>2 DEF Recs
  <2>4. /\ ~(promised[p][c].kept /\ Wanted(p, c))
        /\ host.pc = "persist" /\ host.peer = None => ~promised[p][c].kept
    BY <1>1, <2>3 DEF InRecord
  <2>5. host'.rec.peer = p /\ host'.rec.chr = c
    BY <1>1, <2>3
  <2>6. /\ Wanted(p, c)' => Wanted(p, c)
        /\ promised'[p][c].kept => promised[p][c].kept
    <3>1. promised'[p][c].kept => promised'[p][c] = promised[p][c]
      BY <2>1, WantedShrinks
    <3>2. Wanted(p, c)' => Wanted(p, c)
      BY <2>1, WantedShrinks
    <3> QED
      BY <3>1, <3>2
  <2>7. ~(promised'[p][c].kept /\ Wanted(p, c)')
    BY <2>4, <2>6
  <2> QED
    BY <1>1, <2>4, <2>5, <2>6, <2>7 DEF Wanted
<1>2. CASE \E p \in Peers : Confirmation(p)
  <2>1. PICK p \in Peers : Confirmation(p)
    BY <1>2
  <2> DEFINE c == Head(procs[p])
  <2>2. UNCHANGED <<promised, seen>> /\ Head(back[p]).op = "confirm" /\ back[p] # <<>>
        /\ conn[p] = "up" /\ host.pc = "idle" /\ ~Busy
    BY <2>1, StepIsQuiet DEF Confirmation, Incoming
  <2>3. CASE host' = host
    BY <1>1, <2>3
  <2>4. CASE host' # host
    <3>1. procs[p] # <<>> /\ waiting[p] = c
          /\ host' = [HostAt("persist") EXCEPT !.peer = p,
                           !.rec = IF p \in bonded /\ ~cccd[p][c].mod
                                   THEN Record(p, c, cccd[p][c], FALSE) ELSE None]
      BY <2>1, <2>4 DEF Confirmation
    <3>2. c \in Chars
      <4>1. procs[p] \in Seq(Chars)
        BY DEF Types, GattTypes
      <4> QED
        BY <3>1, <4>1
    <3>3. host'.peer = p /\ host'.rec = IF p \in bonded /\ ~cccd[p][c].mod
                                   THEN Record(p, c, cccd[p][c], FALSE) ELSE None
      BY <3>1 DEF HostAt
    <3> HIDE DEF c
    <3>4. p \in bonded /\ ~cccd[p][c].mod /\ host'.rec.peer = p /\ host'.rec.chr = c
      BY <3>3 DEF Record
    <3>5. ~Restoring(p) /\ ~SendingTo(p, c)
      BY <2>2, <3>4 DEF Restoring, SendingTo, Busy
    <3>6. CarriedTo(p, c)
      BY <2>2, <3>2, <3>5 DEF Current
    <3>7. ~(promised[p][c].kept /\ Wanted(p, c))
      <4> SUFFICES ASSUME promised[p][c].kept, Wanted(p, c) PROVE FALSE
        OBVIOUS
      <4>1. PICK m \in ToSet(air[p]) : m.op = "indicate"
        BY <3>4, <3>5, <3>6 DEF CarriedTo, Carried, Wanted
      <4>2. PICK i \in DOMAIN air[p] : air[p][i] = m
        BY DEF ToSet
      <4>3. Ordered(air[p], back[p], busy[p], seen[p], value) /\ back[p] \in Seq(Backs)
        BY LinkFacts
      <4>4. 1 \in DOMAIN back[p] /\ back[p][1] = Head(back[p])
        BY <2>2, <4>3, TailPlaces
      <4> QED
        BY <2>2, <4>1, <4>2, <4>3, <4>4 DEF Ordered
    <3>8. host'.peer # None
      BY <3>3, Constant
    <3> QED
      BY <2>2, <3>4, <3>7, <3>8 DEF Wanted
  <2> QED
    BY <2>3, <2>4
<1>3. CASE \E p \in Peers : CccdWrite(p)
  <2>1. PICK p \in Peers : CccdWrite(p)
    BY <1>3
  <2> DEFINE m == Head(back[p])
             new == [sub |-> m.sub, mod |-> FALSE]
  <2>2. m.op = "cccd" /\ back[p] # <<>> /\ host.pc = "idle"
    BY <2>1, StepIsQuiet DEF CccdWrite, Incoming
  <2>3. /\ m \in ToSet(back[p]) /\ m \in Backs
    BY <1>0, <2>2, TailKeeps
  <2>4. m.chr \in Chars
    BY <2>2, <2>3 DEF Backs
  <2>5. host'.rec = Record(p, m.chr, new, FALSE)
    BY <2>1 DEF CccdWrite, HostAt
  <2>6. host'.rec.peer = p /\ host'.rec.chr = m.chr
    BY <2>5 DEF Record
  <2>7. m.sub # cccd[p][m.chr].sub
    BY <2>2, <2>3 DEF Asked, Comes
  <2>8. promised' = [promised EXCEPT ![p][m.chr] = NoPromise]
    BY <2>1, <2>7 DEF CccdWrite
  <2> HIDE DEF m, new
  <2>9. promised'[p][m.chr] = NoPromise
    BY <1>0, <2>4, <2>8, EntrySet
  <2>10. ~promised'[p][m.chr].kept
    BY <2>9, SMTT(60) DEF NoPromise
  <2> QED
    BY <2>6, <2>10
<1>4. CASE BondOne
  <2>1. PICK x \in host.left :
          \/ host' = [host EXCEPT !.left = @ \ {x}]
          \/ host' = [host EXCEPT !.pc = "record", !.left = @ \ {x},
                                  !.rec = Record(x[1], x[2], cccd[x[1]][x[2]], FALSE)]
    BY <1>4 DEF BondOne
  <2>2. host.pc = "bond" /\ UNCHANGED <<promised, seen>>
    BY <1>4, StepIsQuiet DEF BondOne, Stay, peerVars
  <2>3. host'.pc = "record" /\ host'.rec = Record(x[1], x[2], cccd[x[1]][x[2]], FALSE)
    BY <1>0, <2>1, <2>2 DEF Hosts
  <2>4. host'.rec.peer = x[1] /\ host'.rec.chr = x[2]
    BY <2>3 DEF Record
  <2>5. x[1] = host.peer /\ x[1] \in Peers /\ x[2] \in Chars /\ ~InStore(store, x[1], x[2])
    <3>1. /\ host.left \subseteq {host.peer} \X Chars
          /\ \A c \in Chars : <<host.peer, c>> \in host.left => ~InStore(store, host.peer, c)
      BY <2>2 DEF Stored, Bonding
    <3>2. host.peer \in Peers
      BY <2>2 DEF Types, SideTypes, GoodHost
    <3>3. x = <<host.peer, x[2]>> /\ x[2] \in Chars
      BY <3>1
    <3> QED
      BY <3>1, <3>2, <3>3
  <2>6. ~promised[x[1]][x[2]].kept
    BY <2>5, SMTT(60) DEF KeptInStore
  <2> QED
    BY <2>2, <2>3, <2>4, <2>6
<1>5. CASE AppNext \/ UNCHANGED vars \/ PeerNext \/ Send("host") \/ Expire
  BY <1>1, <1>5, Zenon DEF vars, sideVars, PeerNext, PeerReceives, PeerWrites, Send, ReadValue, SendValue,
     MarkWaiting, InsertProc, AppNext, setValue, SendToOne, ChrUpdated, ReadRecord, WriteRecord, Expire
<1>6. CASE TxNotifications \/ TxDone \/ SendNextIndicate \/ BondDone \/ RestoreDone \/ Delete
  BY <1>6 DEF TxNotifications, TxDone, SendNextIndicate, BondDone, RestoreDone, Delete, HostAt
<1>7. CASE Persist
  BY <1>7 DEF Persist, HostAt
<1>8. CASE BondRecord \/ RestoredSent
  BY <1>0, <1>8 DEF BondRecord, RestoredSent, Hosts
<1>9. CASE TxOne /\ host.pc = "tx"
  <2>1. PICK x : host' = [host EXCEPT !.left = @ \ {x}]
    BY <1>9 DEF TxOne
  <2> QED
    BY <1>0, <1>9, <2>1 DEF Hosts
<1>10. CASE RestoreOne /\ host.pc = "restore"
  <2>1. PICK r : \/ host' = [host EXCEPT !.pc = "restored", !.rec = r]
                 \/ host' = [host EXCEPT !.idx = @ + 1]
    BY <1>10 DEF RestoreOne
  <2>2. CASE host' = [host EXCEPT !.pc = "restored", !.rec = r]
    <3>1. host'.pc = "restored"
      BY <1>0, <2>2 DEF Hosts
    <3> QED
      BY <3>1
  <2>3. CASE host' = [host EXCEPT !.idx = @ + 1]
    <3>1. host'.pc = host.pc
      BY <1>0, <2>3 DEF Hosts
    <3> QED
      BY <1>10, <3>1
  <2> QED
    BY <2>1, <2>2, <2>3
<1>11. CASE Link
  <2>1. PICK p \in Peers : Break(p) \/ Connect(p) \/ Pair(p) \/ Encrypt(p)
    BY <1>11 DEF Link
  <2>2. CASE Connect(p)
    BY <1>1, <2>2 DEF Connect, sideVars
  <2>3. CASE Break(p) \/ Encrypt(p)
    BY <2>3 DEF Break, Encrypt, HostAt
  <2>4. CASE Pair(p)
    BY <2>4 DEF Pair, HostAt
  <2> QED
    BY <2>1, <2>2, <2>3, <2>4
<1> QED
  BY <1>2, <1>3, <1>4, <1>5, <1>6, <1>7, <1>8, <1>9, <1>10, <1>11, Steps DEF HostReceives

-----------------------------------------------------------------------------
(* What is on its way *)

LEMMA CarryTypes ==
  ASSUME Types, NEW p \in Peers, NEW c \in Chars
  PROVE  /\ promised[p][c].val \in Nat /\ seen[p][c] \in Nat /\ value[c] \in Nat
         /\ promised[p][c].val <= value[c] /\ air[p] \in Seq(Msgs)
<1>1. promised[p][c] \in [val : Vals, kept : BOOLEAN] /\ promised[p][c].val <= value[c]
  BY DEF Types, ValueTypes
<1>2. seen[p][c] \in Vals /\ value[c] \in Vals /\ air[p] \in Seq(Msgs)
  BY DEF Types, ValueTypes, PeerTypes, AirTypes
<1> QED
  BY <1>1, <1>2, Constant

(* While nothing is being sent *)
LEMMA QuietCarries ==
  ASSUME ~Busy, NEW p \in Peers, NEW c \in Chars, CarriedTo(p, c),
         air'[p] = air[p], seen'[p][c] = seen[p][c],
         promised'[p][c] = promised[p][c],
         cccd[p][c].mod => cccd'[p][c].mod \/ SendingTo(p, c)'
  PROVE  CarriedTo(p, c)'
BY DEF CarriedTo, Carried, Busy, SendingTo

LEMMA SendCarries ==
  ASSUME Preempt = FALSE, NoMem = FALSE, Types, Sender, Send("host"), Busy, Types',
         NEW p \in Peers, NEW c \in Chars, CarriedTo(p, c)
  PROVE  CarriedTo(p, c)'
<1> DEFINE s == send["host"]
<1>0. /\ UNCHANGED <<cccd, seen, value>> /\ s.to \in Peers /\ s.chr \in Chars /\ s \in Sends
      /\ send \in [Actors -> Sends] /\ "host" \in Actors /\ value[s.chr] \in Vals
  <2>1. UNCHANGED <<cccd, seen, value>>
    BY DEF Send, ReadValue, SendValue, MarkWaiting, InsertProc, gattVars, peerVars
  <2>2. s.to \in Peers /\ s.chr \in Chars /\ s \in Sends /\ send \in [Actors -> Sends]
    BY DEF Busy, Types, SideTypes, GoodSend, Actors
  <2> QED
    BY <2>1, <2>2 DEF Actors, Types, ValueTypes
<1>1. CASE ReadValue("host")
  <2>1. s.pc = "read" /\ send' = [send EXCEPT !["host"].pc = "tx", !["host"].val = value[s.chr]]
        /\ UNCHANGED <<air, promised>>
    BY <1>1 DEF ReadValue, attVars
  <2>2. send'["host"] = [s EXCEPT !.pc = "tx", !.val = value[s.chr]]
    BY <1>0, <2>1
  <2>3. send'["host"].pc = "tx" /\ send'["host"].to = s.to /\ send'["host"].chr = s.chr
    BY <1>0, <2>2 DEF Sends
  <2>4. SendingTo(p, c)' <=> SendingTo(p, c)
    BY <2>1, <2>3 DEF SendingTo
  <2> QED
    BY <1>0, <2>1, <2>4 DEF CarriedTo, Carried
<1>2. CASE MarkWaiting("host") \/ InsertProc("host")
  <2>1. UNCHANGED <<air, promised>> /\ ~SendingTo(p, c)
    BY <1>2 DEF MarkWaiting, InsertProc, attVars, SendingTo
  <2> QED
    BY <1>0, <2>1 DEF CarriedTo, Carried
<1>3. CASE SendValue("host")
  <2> DEFINE m == Message(s.op, s.chr, s.val)
  <2>1. s.pc = "tx" /\ conn[s.to] = "up" /\ s.val = value[s.chr] /\ txq' = txq
    <3>1. s.pc = "tx"
      BY <1>3 DEF SendValue
    <3>2. conn[s.to] = "up" /\ s.val = value[s.chr] /\ (s.op = "indicate" => waiting[s.to] = 0)
      BY <3>1 DEF Sender, Busy
    <3>3. s.op = "indicate" => ~busy[s.to]
      BY <1>0, <3>1, <3>2 DEF Sender
    <3>4. Transmit(s.to, m) /\ m.op = s.op
      BY <1>3, <3>2 DEF SendValue, Message
    <3> QED
      BY <3>1, <3>2, <3>3, <3>4 DEF Transmit
  <2>2. /\ Transmit(s.to, m)
        /\ promised' = IF s.op = "notify" THEN [promised EXCEPT ![s.to][s.chr].kept = FALSE] ELSE promised
    BY <1>3, <2>1 DEF SendValue
  <2>3. m.op = s.op /\ m.chr = s.chr /\ m.val = value[s.chr] /\ m \in Msgs /\ s.op \in Kinds
    BY <1>0, <2>1 DEF Message, Msgs, Sends
  <2>4. air' = [air EXCEPT ![s.to] = Append(@, m)]
    <3>1. ~(m.op = "indicate" /\ busy[s.to])
      <4>1. s.op = "indicate" => waiting[s.to] = 0
        BY <2>1 DEF Sender, Busy
      <4> QED
        BY <1>0, <2>1, <2>3, <4>1 DEF Sender
    <3> QED
      BY <2>2, <3>1 DEF Transmit
  <2> HIDE DEF m
  <2>5. air'[p] = IF p = s.to THEN Append(air[p], m) ELSE air[p]
    BY <1>0, <2>4, SMTT(60) DEF Types, AirTypes
  <2>6. CASE p = s.to /\ c = s.chr
    <3>1. m \in ToSet(air'[p])
      BY <2>3, <2>5, <2>6, AppendKeeps, CarryTypes
    <3>2. promised'[p][c].val <= m.val
      <4>1. promised'[p][c].val <= value'[c]
        BY DEF Types, ValueTypes
      <4> QED
        BY <1>0, <2>3, <2>6, <4>1
    <3>3. promised'[p][c].kept => m.op = "indicate"
      <4>1. CASE s.op = "notify"
        <5>1. promised \in [Peers -> [Chars -> [val : Vals, kept : BOOLEAN]]]
          BY SMTT(60) DEF Types, ValueTypes
        <5>2. promised'[p][c] = [promised[p][c] EXCEPT !.kept = FALSE]
          BY <2>2, <2>6, <4>1, <5>1
        <5>3. promised[p][c] \in [val : Vals, kept : BOOLEAN]
          BY <5>1
        <5> QED
          BY <5>2, <5>3
      <4> QED
        BY <2>3, <4>1 DEF Kinds
    <3>4. m.val >= promised'[p][c].val
      <4>1. promised'[p][c].val \in Nat /\ m.val \in Nat
        <5>1. promised'[p][c] \in [val : Vals, kept : BOOLEAN]
          BY DEF Types, ValueTypes
        <5> QED
          BY <2>3, <5>1, Constant DEF Msgs
      <4> QED
        BY <3>2, <4>1
    <3>5. \E e \in ToSet(air'[p]) :
            e.chr = c /\ e.val >= promised'[p][c].val /\ (promised'[p][c].kept => e.op = "indicate")
      BY <2>3, <2>6, <3>1, <3>3, <3>4
    <3> QED
      BY <3>5 DEF CarriedTo, Carried
  <2>7. CASE ~(p = s.to /\ c = s.chr)
    <3>1. promised'[p][c] = promised[p][c]
      <4>1. promised \in [Peers -> [Chars -> [val : Vals, kept : BOOLEAN]]]
        BY DEF Types, ValueTypes
      <4>2. promised' = promised \/ promised' = [promised EXCEPT ![s.to][s.chr].kept = FALSE]
        BY <2>2
      <4> HIDE DEF s
      <4> QED
        BY <1>0, <2>7, <4>1, <4>2, SMTT(60)
    <3>2. \A e \in ToSet(air[p]) : e \in ToSet(air'[p])
      BY <2>3, <2>5, AppendKeeps, CarryTypes
    <3>3. ~SendingTo(p, c)
      BY <2>7 DEF SendingTo
    <3> QED
      BY <1>0, <3>1, <3>2, <3>3 DEF CarriedTo, Carried
  <2> QED
    BY <2>6, <2>7
<1> QED
  BY <1>1, <1>2, <1>3 DEF Send

LEMMA ReceiveCarries ==
  ASSUME Types, Links, NEW q \in Peers, PeerReceives(q),
         NEW p \in Peers, NEW c \in Chars, CarriedTo(p, c)
  PROVE  CarriedTo(p, c)'
<1> DEFINE m == Head(air[q])
<1>1. /\ air[q] # <<>> /\ seen' = [seen EXCEPT ![q][m.chr] = m.val] /\ air' = [air EXCEPT ![q] = Tail(@)]
      /\ UNCHANGED <<cccd, send, promised>>
  BY DEF PeerReceives, gattVars, sideVars
<1>2. /\ air \in [Peers -> Seq(Msgs)] /\ seen \in [Peers -> [Chars -> Vals]]
  BY DEF Types, AirTypes, PeerTypes
<1>3. /\ m \in Msgs /\ ToSet(air[q]) = {m} \cup ToSet(Tail(air[q])) /\ air[q][1] = m /\ 1 \in DOMAIN air[q]
  BY <1>1, <1>2, TailKeeps
<1>4. m.chr \in Chars /\ m.val \in Nat /\ seen[q][m.chr] <= m.val
  <2>1. Ordered(air[q], back[q], busy[q], seen[q], value)
    BY LinkFacts
  <2> QED
    BY <1>3, <2>1, Constant DEF Ordered, Msgs
<1>5. SendingTo(p, c)' <=> SendingTo(p, c)
  BY <1>1 DEF SendingTo
<1>6. seen'[p][c] = (IF p = q /\ c = m.chr THEN m.val ELSE seen[p][c])
      /\ air'[p] = IF p = q THEN Tail(air[q]) ELSE air[p]
  <2> HIDE DEF m
  <2>1. seen'[p][c] = IF p = q /\ c = m.chr THEN m.val ELSE seen[p][c]
    BY <1>1, <1>2, <1>4, EntrySet
  <2> QED
    BY <1>1, <1>2, <2>1
<1>7. promised[p][c].val \in Nat /\ seen[p][c] \in Nat
  BY CarryTypes
<1> HIDE DEF m
<1>8. CASE p # q
  BY <1>1, <1>5, <1>6, <1>8 DEF CarriedTo, Carried
<1>9. CASE p = q
  <2> SUFFICES ASSUME promised[p][c].val > seen'[p][c]
               PROVE  \/ cccd[p][c].mod \/ SendingTo(p, c)
                      \/ \E e \in ToSet(Tail(air[p])) : e.chr = c /\ e.val >= promised[p][c].val
                                                       /\ (promised[p][c].kept => e.op = "indicate")
    BY <1>1, <1>5, <1>6, <1>9 DEF CarriedTo, Carried
  <2>1. promised[p][c].val > seen[p][c]
    BY <1>4, <1>6, <1>7, <1>9
  <2>2. CASE \E e \in ToSet(air[p]) : e.chr = c /\ e.val >= promised[p][c].val
                                      /\ (promised[p][c].kept => e.op = "indicate")
    <3>1. PICK e \in ToSet(air[p]) : e.chr = c /\ e.val >= promised[p][c].val
                                      /\ (promised[p][c].kept => e.op = "indicate")
      BY <2>2
    <3>2. e # m
      BY <1>4, <1>6, <1>7, <1>9, <3>1
    <3>3. e \in ToSet(Tail(air[p]))
      BY <1>3, <1>9, <3>2
    <3> QED
      BY <3>1, <3>3
  <2> QED
    BY <2>1, <2>2 DEF CarriedTo, Carried
<1> QED
  BY <1>8, <1>9

-----------------------------------------------------------------------------
(* What a peer has asked for *)

LEMMA FollowsIsSubIn ==
  ASSUME NEW s, NEW p, NEW c, NEW sub, Follows(s, p, c, sub)
  PROVE  SubIn(s, p, c) = sub
<1>1. \A r \in ToSet(s) : r.peer = p /\ r.chr = c => r.sub = sub
  BY DEF ToSet, Follows
<1>2. CASE \E r \in ToSet(s) : r.peer = p /\ r.chr = c
  <2> DEFINE q == CHOOSE r \in ToSet(s) : r.peer = p /\ r.chr = c
  <2>1. q \in ToSet(s) /\ q.peer = p /\ q.chr = c
    BY <1>2
  <2>2. SubIn(s, p, c) = q.sub
    BY <1>2 DEF SubIn
  <2> QED
    BY <1>1, <2>1, <2>2
<1>3. CASE ~ \E r \in ToSet(s) : r.peer = p /\ r.chr = c
  <2>1. ~InStore(s, p, c)
    BY <1>3 DEF InStore, ToSet
  <2> QED
    BY <1>3, <2>1 DEF SubIn, Follows
<1> QED
  BY <1>2, <1>3

LEMMA SubInFollows ==
  ASSUME NEW s, Unique(s), NEW p, NEW c
  PROVE  \E sub : Follows(s, p, c, sub)
<1>1. CASE InStore(s, p, c)
  <2>1. PICK i \in DOMAIN s : s[i].peer = p /\ s[i].chr = c
    BY <1>1 DEF InStore
  <2>2. \A k \in DOMAIN s : s[k].peer = p /\ s[k].chr = c => k = i
    BY <2>1 DEF Unique
  <2>3. Follows(s, p, c, s[i].sub)
    BY <1>1, <2>2 DEF Follows
  <2> QED
    BY <2>3
<1>2. CASE ~InStore(s, p, c)
  <2>1. Follows(s, p, c, "none")
    BY <1>2 DEF Follows, InStore
  <2> QED
    BY <2>1
<1> QED
  BY <1>1, <1>2

LEMMA SameSubIn ==
  ASSUME NEW s, NEW t, Unique(s), SameSubs(s, t), NEW p, NEW c
  PROVE  SubIn(t, p, c) = SubIn(s, p, c)
<1>1. PICK sub : Follows(s, p, c, sub)
  BY SubInFollows
<1>2. Follows(t, p, c, sub)
  BY <1>1, SameFollows
<1> QED
  BY <1>1, <1>2, FollowsIsSubIn

(* Who changes a subscription *)
LEMMA SubStays ==
  ASSUME Preempt = FALSE, Types, Stored, Sender, [Next]_vars, NEW p \in Peers, NEW c \in Chars
  PROVE  \/ cccd'[p][c].sub = cccd[p][c].sub
         \/ CccdWrite(p)
         \/ (RestoreOne \/ Delete) /\ p = host.peer
<1>0. GattTypes /\ cccd \in [Peers -> [Chars -> Cfgs]] /\ cccd[p] \in [Chars -> Cfgs] /\ cccd[p][c] \in Cfgs
      /\ back \in [Peers -> Seq(Backs)]
  BY DEF Types, GattTypes, PeerTypes
<1>1. CASE cccd' = cccd
  BY <1>1
<1>2. CASE ChrUpdated
  <2>1. PICK marked \in SUBSET {q \in Peers : conn[q] = "up"} :
          cccd' = [q \in Peers |->
                     IF q \in marked THEN [cccd[q] EXCEPT ![app.chr].mod = TRUE] ELSE cccd[q]]
    BY <1>2 DEF ChrUpdated
  <2>2. cccd'[p] = cccd[p] \/ cccd'[p] = [cccd[p] EXCEPT ![app.chr].mod = TRUE]
    BY <2>1
  <2>3. CASE cccd'[p] = [cccd[p] EXCEPT ![app.chr].mod = TRUE]
    <3>1. cccd'[p][c] = IF c = app.chr THEN [cccd[p][c] EXCEPT !.mod = TRUE] ELSE cccd[p][c]
      BY <1>0, <2>3
    <3>2. [cccd[p][c] EXCEPT !.mod = TRUE].sub = cccd[p][c].sub
      BY <1>0 DEF Cfgs
    <3> QED
      BY <3>1, <3>2
  <2> QED
    BY <2>2, <2>3
<1>3. CASE \E q \in Peers, d \in Chars : cccd' = [cccd EXCEPT ![q][d].mod = FALSE]
  <2>1. PICK q \in Peers, d \in Chars : cccd' = [cccd EXCEPT ![q][d].mod = FALSE]
    BY <1>3
  <2>2. cccd'[p][c] = IF p = q /\ c = d THEN [cccd[p][c] EXCEPT !.mod = FALSE] ELSE cccd[p][c]
    BY <1>0, <2>1
  <2>3. [cccd[p][c] EXCEPT !.mod = FALSE].sub = cccd[p][c].sub
    BY <1>0 DEF Cfgs
  <2> QED
    BY <2>2, <2>3
<1>4. CASE TxOne
  <2>1. PICK x \in host.left : cccd' = cccd \/ cccd' = [cccd EXCEPT ![x[1]][x[2]].mod = FALSE]
    BY <1>4 DEF TxOne
  <2>2. x[1] \in Peers /\ x[2] \in Chars
    BY DEF Types, SideTypes, GoodHost, Hosts, Pairs
  <2> QED
    BY <1>1, <1>3, <2>1, <2>2
<1>5. CASE SendNextIndicate
  <2>1. host.peer \in Peers
    BY <1>5 DEF SendNextIndicate, HostStep, Types, SideTypes, GoodHost
  <2>2. cccd' = cccd \/ \E d \in Chars : cccd' = [cccd EXCEPT ![host.peer][d].mod = FALSE]
    BY <1>5 DEF SendNextIndicate
  <2> QED
    BY <1>1, <1>3, <2>1, <2>2
<1>6. CASE \E q \in Peers : CccdWrite(q)
  <2>1. PICK q \in Peers : CccdWrite(q)
    BY <1>6
  <2>2. PICK d, new : cccd' = [cccd EXCEPT ![q][d] = new]
    BY <2>1 DEF CccdWrite
  <2>3. CASE q # p
    <3>1. cccd'[p] = cccd[p]
      BY <1>0, <2>2, <2>3
    <3> QED
      BY <3>1
  <2> QED
    BY <2>1, <2>3
<1>7. CASE RestoreOne
  <2>1. PICK i : LET r == store[i] IN
          cccd' = [cccd EXCEPT ![host.peer][r.chr] =
            [Restored(r) EXCEPT !.mod = @ /\ ~(r.changed /\ Due(host.peer, Restored(r)))]]
    BY <1>7 DEF RestoreOne
  <2>2. CASE p # host.peer
    <3>1. cccd'[p] = cccd[p]
      BY <1>0, <2>1, <2>2
    <3> QED
      BY <3>1
  <2> QED
    BY <1>7, <2>2
<1>8. CASE Delete
  <2>1. CASE p # host.peer
    <3>1. cccd'[p] = cccd[p]
      BY <1>0, <1>8, <2>1, SMTT(60) DEF Delete
    <3> QED
      BY <3>1
  <2> QED
    BY <1>8, <2>1
<1>9. CASE UNCHANGED vars \/ PeerNext \/ Send("host")
  BY <1>1, <1>9 DEF vars, gattVars, PeerNext, PeerReceives, PeerWrites, Send, ReadValue, SendValue,
     MarkWaiting, InsertProc
<1>10. CASE AppNext /\ ~ChrUpdated
  BY <1>1, <1>10 DEF gattVars, AppNext, setValue, SendToOne, ReadRecord, WriteRecord
<1>11. CASE TxNotifications \/ TxDone \/ Persist \/ BondOne \/ BondDone \/ BondRecord
            \/ RestoreDone \/ RestoredSent
  BY <1>1, <1>11 DEF TxNotifications, TxDone, Persist, BondOne, BondDone, BondRecord,
     RestoreDone, RestoredSent, gattVars
<1>12. CASE Expire \/ Link \/ \E q \in Peers : Confirmation(q)
  BY <1>1, <1>12, Zenon DEF Expire, Link, Break, Connect, Pair, Encrypt, Confirmation, gattVars
<1> QED
  BY <1>2, <1>4, <1>5, <1>6, <1>7, <1>8, <1>9, <1>10, <1>11, <1>12, Steps DEF HostReceives

(* Whose records are being restored *)
LEMMA ComesStays ==
  ASSUME Preempt = FALSE, Types, Stored, Sender, [Next]_vars, NEW p \in Peers
  PROVE  \/ Comes(p)' <=> Comes(p)
         \/ host.pc = "idle" /\ Encrypt(p)
         \/ RestoreDone /\ host.peer = p /\ host.pc = "restore"
<1>0. host \in Hosts
  BY DEF Types, SideTypes, GoodHost
<1> DEFINE Here == {"restore", "restored"}
<1>1. CASE host' = host
  BY <1>1 DEF Comes
<1>2. CASE host.pc \notin Here /\ host'.pc \notin Here
  BY <1>2, SMTT(60) DEF Comes
<1>3. CASE AppNext \/ UNCHANGED vars \/ PeerNext \/ Send("host") \/ Expire
  BY <1>1, <1>3, Zenon DEF vars, sideVars, PeerNext, PeerReceives, PeerWrites, Send, ReadValue, SendValue,
     MarkWaiting, InsertProc, AppNext, setValue, SendToOne, ChrUpdated, ReadRecord, WriteRecord, Expire
<1>4. CASE \/ host.pc = "idle" /\ TxNotifications
           \/ host.pc = "tx" /\ TxDone
           \/ host.pc = "next" /\ SendNextIndicate
           \/ host.pc = "bond" /\ BondDone
           \/ host.pc = "teardown" /\ Delete
  <2>1. host'.pc \in {"tx", "idle"}
    BY <1>4 DEF TxNotifications, TxDone, SendNextIndicate, BondDone, Delete, HostAt
  <2> QED
    BY <1>2, <1>4, <2>1
<1>5. CASE host.pc = "persist" /\ Persist
  <2>1. host'.pc \in {"idle", "next"}
    BY <1>5 DEF Persist, HostAt
  <2> QED
    BY <1>2, <1>5, <2>1
<1>6. CASE host.pc = "record" /\ BondRecord
  <2>1. host'.pc = "bond"
    BY <1>0, <1>6 DEF BondRecord, Hosts
  <2> QED
    BY <1>2, <1>6, <2>1
<1>7. CASE host.pc = "tx" /\ TxOne
  <2>1. PICK x : host' = [host EXCEPT !.left = @ \ {x}]
    BY <1>7 DEF TxOne
  <2>2. host'.pc = host.pc
    BY <1>0, <2>1 DEF Hosts
  <2> QED
    BY <1>2, <1>7, <2>2
<1>8. CASE host.pc = "bond" /\ BondOne
  <2>1. PICK x \in host.left :
          \/ host' = [host EXCEPT !.left = @ \ {x}]
          \/ host' = [host EXCEPT !.pc = "record", !.left = @ \ {x},
                                  !.rec = Record(x[1], x[2], cccd[x[1]][x[2]], FALSE)]
    BY <1>8 DEF BondOne
  <2>2. host'.pc \in {"bond", "record"}
    BY <1>0, <1>8, <2>1 DEF Hosts
  <2> QED
    BY <1>2, <1>8, <2>2
<1>9. CASE host.pc = "restore" /\ RestoreOne
  <2>1. PICK r : \/ host' = [host EXCEPT !.pc = "restored", !.rec = r]
                 \/ host' = [host EXCEPT !.idx = @ + 1]
    BY <1>9 DEF RestoreOne
  <2>2. CASE host' = [host EXCEPT !.pc = "restored", !.rec = r]
    <3>1. host'.pc = "restored" /\ host'.peer = host.peer
      BY <1>0, <2>2 DEF Hosts
    <3> QED
      BY <1>9, <3>1 DEF Comes
  <2>3. CASE host' = [host EXCEPT !.idx = @ + 1]
    <3>1. host'.pc = host.pc /\ host'.peer = host.peer
      BY <1>0, <2>3 DEF Hosts
    <3> QED
      BY <1>9, <3>1 DEF Comes
  <2> QED
    BY <2>1, <2>2, <2>3
<1>10. CASE host.pc = "restored" /\ RestoredSent
  <2>1. host'.pc = "restore" /\ host'.peer = host.peer
    BY <1>0, <1>10 DEF RestoredSent, Hosts
  <2> QED
    BY <1>10, <2>1 DEF Comes
<1>11. CASE host.pc = "restore" /\ RestoreDone
  <2>1. host'.pc = "idle"
    BY <1>11 DEF RestoreDone, HostAt
  <2> QED
    BY <1>11, <2>1 DEF Comes
<1>12. CASE host.pc = "idle" /\ HostReceives
  <2>1. PICK q \in Peers : Confirmation(q) \/ CccdWrite(q)
    BY <1>12 DEF HostReceives
  <2>2. host' = host \/ host'.pc \in {"idle", "persist"}
    <3>1. CASE Confirmation(q)
      BY <3>1 DEF Confirmation, HostAt
    <3>2. CASE CccdWrite(q)
      BY <3>2 DEF CccdWrite, HostAt
    <3> QED
      BY <2>1, <3>1, <3>2
  <2> QED
    BY <1>1, <1>2, <1>12, <2>2
<1>13. CASE host.pc = "idle" /\ Link
  <2>1. PICK q \in Peers : Break(q) \/ Connect(q) \/ Pair(q) \/ Encrypt(q)
    BY <1>13 DEF Link
  <2>2. CASE Connect(q)
    BY <1>1, <2>2 DEF Connect, sideVars
  <2>3. CASE Break(q)
    <3>1. host'.pc = "teardown"
      BY <2>3 DEF Break, HostAt
    <3> QED
      BY <1>2, <1>13, <3>1
  <2>4. CASE Pair(q)
    <3>1. host'.pc = "bond"
      BY <2>4 DEF Pair, HostAt
    <3> QED
      BY <1>2, <1>13, <3>1
  <2>5. CASE Encrypt(q) /\ q # p
    <3>1. host'.peer = q
      BY <2>5 DEF Encrypt, HostAt
    <3> QED
      BY <1>13, <2>5, <3>1 DEF Comes
  <2> QED
    BY <1>13, <2>1, <2>2, <2>3, <2>4, <2>5
<1> QED
  BY <1>3, <1>4, <1>5, <1>6, <1>7, <1>8, <1>9, <1>10, <1>11, <1>12, <1>13, Steps

(* While a peer's records are being restored, the store keeps their flags. *)
LEMMA SubInStays ==
  ASSUME Preempt = FALSE, None \notin Recs, Types, Stored, Sender, [Next]_vars,
         NEW p \in Peers, Comes(p), NEW c
  PROVE  SubIn(store', p, c) = SubIn(store, p, c)
<1>1. host.pc \in {"restore", "restored"} /\ Unique(store)
  BY DEF Comes, Types, StoreTypes
<1>2. ~WriteRecord
  <2>1. WriteRecord => HostFree
    BY DEF WriteRecord, AppMayRun
  <2> QED
    BY <1>1, <2>1 DEF HostFree
<1>3. store' = store \/ SameSubs(store, store')
  BY <1>1, <1>2, StoreSteps DEF Rewritten
<1> QED
  BY <1>1, <1>3, SameSubIn

Awaited(p, c) == IF Comes(p) THEN SubIn(store, p, c) ELSE cccd[p][c].sub

LEMMA NextAsked ==
  ASSUME Preempt = FALSE, CarefulPeer, None \notin Recs, Types, Stored, Sender, Links, Asked,
         Types', Stored', [Next]_vars
  PROVE  Asked'
<1> SUFFICES ASSUME NEW p \in Peers, NEW m \in ToSet(back'[p]), m.op = "cccd"
             PROVE  m.sub # Awaited(p, m.chr)'
  BY DEF Asked, Awaited
<1>0. /\ back \in [Peers -> Seq(Backs)] /\ cccd \in [Peers -> [Chars -> Cfgs]]
      /\ \A q \in Peers : back[q] \in Seq(Backs)
      /\ bonded \subseteq Peers
  BY DEF Types, PeerTypes, GattTypes, LinkTypes
<1>1. m.chr \in Chars
  <2>1. back'[p] \in Seq(Backs)
    BY DEF Types, PeerTypes
  <2>2. m \in Backs
    BY <2>1 DEF ToSet
  <2> QED
    BY <2>2 DEF Backs
<1>2. CASE PeerWrites(p)
  <2>1. UNCHANGED <<host, store, cccd>> /\ ~ \E e \in ToSet(back[p]) : e.op = "cccd"
    BY <1>2 DEF PeerWrites, gattVars, sideVars, Unanswered
  <2>2. PICK c \in Chars, sub \in Subs :
          /\ (p \in paired => p \in bonded) /\ sub # Subscribed(p, c)
          /\ back' = [back EXCEPT ![p] = Append(@, [op |-> "cccd", chr |-> c, sub |-> sub])]
    BY <1>2 DEF PeerWrites
  <2> DEFINE x == [op |-> "cccd", chr |-> c, sub |-> sub]
  <2>3. x \in Backs /\ x.chr = c /\ x.sub = sub
    BY DEF Backs
  <2>4. back'[p] = Append(back[p], x)
    BY <1>0, <2>2
  <2> HIDE DEF x
  <2>5. m = x
    BY <1>0, <2>1, <2>3, <2>4, AppendKeeps
  <2>6. Restoring(p) <=> Comes(p)
    BY <2>2 DEF Restoring, Comes
  <2>7. Awaited(p, c) = Subscribed(p, c)
    BY <2>6 DEF Awaited, Subscribed, StoredSub, SubIn
  <2>8. Awaited(p, c)' = Awaited(p, c)
    BY <2>1 DEF Awaited, Comes
  <2> QED
    BY <2>2, <2>3, <2>5, <2>7, <2>8
<1>3. ASSUME ~PeerWrites(p) PROVE m \in ToSet(back[p])
  <2>1. CASE back'[p] = back[p]
    BY <2>1
  <2>2. CASE back'[p] = <<>>
    BY <2>2 DEF ToSet
  <2>3. CASE back[p] # <<>> /\ back'[p] = Tail(back[p])
    BY <1>0, <2>3, TailKeeps
  <2>4. CASE back'[p] = Append(back[p], [op |-> "confirm"])
    <3>1. [op |-> "confirm"] \in Backs /\ [op |-> "confirm"].op = "confirm"
      BY DEF Backs
    <3> QED
      BY <1>0, <2>4, <3>1, AppendKeeps
  <2>5. CASE \E q \in Peers : PeerWrites(q) \/ PeerReceives(q)
    <3>1. PICK q \in Peers : PeerWrites(q) \/ PeerReceives(q)
      BY <2>5
    <3>2. CASE q # p
      <4>1. back'[p] = back[p]
        BY <1>0, <3>1, <3>2 DEF PeerWrites, PeerReceives
      <4> QED
        BY <2>1, <4>1
    <3>3. CASE q = p
      <4>1. back' = back \/ back' = [back EXCEPT ![p] = Append(@, [op |-> "confirm"])]
        BY <1>3, <3>1, <3>3 DEF PeerReceives
      <4>2. back'[p] = back[p] \/ back'[p] = Append(back[p], [op |-> "confirm"])
        BY <1>0, <4>1
      <4> QED
        BY <2>1, <2>4, <4>2
    <3> QED
      BY <3>2, <3>3
  <2>6. CASE HostReceives
    <3>1. PICK q \in Peers : back[q] # <<>> /\ back' = [back EXCEPT ![q] = Tail(@)]
      BY <2>6 DEF HostReceives, Confirmation, CccdWrite, Incoming
    <3>2. back'[p] = IF p = q THEN Tail(back[p]) ELSE back[p]
      BY <1>0, <3>1
    <3> QED
      BY <2>1, <2>3, <3>1, <3>2
  <2>7. CASE Link
    <3>1. PICK q : back' = back \/ back' = [back EXCEPT ![q] = <<>>]
      BY <2>7 DEF Link, Break, NoMessages, Connect, Pair, Encrypt, peerVars
    <3>2. back'[p] = back[p] \/ back'[p] = <<>>
      BY <1>0, <3>1
    <3> QED
      BY <2>1, <2>2, <3>2
  <2>8. CASE Delete
    <3>1. back' = [back EXCEPT ![host.peer] = <<>>]
      BY <2>8 DEF Delete, NoMessages
    <3>2. back'[p] = back[p] \/ back'[p] = <<>>
      BY <1>0, <3>1, SMTT(60)
    <3> QED
      BY <2>1, <2>2, <3>2
  <2>9. CASE UNCHANGED vars \/ Send("host") \/ AppNext \/ Expire
    BY <2>1, <2>9, ZenonT(40) DEF vars, peerVars, Send, ReadValue, SendValue,
       MarkWaiting, InsertProc, AppNext, setValue, SendToOne, ChrUpdated, ReadRecord, WriteRecord, Expire
  <2>10. CASE \/ TxNotifications \/ TxOne \/ TxDone \/ SendNextIndicate \/ Persist
              \/ BondOne \/ BondRecord \/ BondDone \/ RestoreOne \/ RestoredSent \/ RestoreDone
    BY <2>1, <2>10, Zenon DEF TxNotifications, TxOne, TxDone, SendNextIndicate, Persist, BondOne, BondRecord,
                BondDone, RestoreOne, RestoredSent, RestoreDone, Stay, peerVars
  <2> QED
    BY <2>5, <2>6, <2>7, <2>8, <2>9, <2>10, Steps DEF PeerNext
<1>4. CASE ~PeerWrites(p) /\ Awaited(p, m.chr)' = Awaited(p, m.chr)
  BY <1>3, <1>4 DEF Asked, Awaited
<1>5. CASE ~PeerWrites(p) /\ CccdWrite(p)
  <2>1. back[p] # <<>> /\ Head(back[p]).op = "cccd" /\ back'[p] = Tail(back[p])
    BY <1>0, <1>5 DEF CccdWrite, Incoming
  <2>2. Ordered(air[p], back[p], busy[p], seen[p], value)
    BY LinkFacts
  <2>3. PICK i \in DOMAIN Tail(back[p]) : Tail(back[p])[i] = m
    BY <2>1 DEF ToSet
  <2>4. 1 \in DOMAIN back[p] /\ back[p][1].op = "cccd" /\ i + 1 \in DOMAIN back[p]
        /\ back[p][i + 1] = m /\ i \in Nat /\ i > 0
    BY <1>0, <2>1, <2>3, TailPlaces
  <2>5. i + 1 = 1
    BY <2>2, <2>4 DEF Ordered
  <2> QED
    BY <2>4, <2>5
<1>6. CASE ~PeerWrites(p) /\ Encrypt(p)
  <2>1. p \in paired \ bonded
    BY <1>6 DEF Encrypt
  <2> QED
    BY <1>3, <1>6, <2>1 DEF Stored, Away
<1>7. CASE ~PeerWrites(p) /\ Delete /\ p = host.peer
  <2>1. back'[p] = <<>>
    BY <1>0, <1>7 DEF Delete, NoMessages
  <2> QED
    BY <2>1 DEF ToSet
<1>8. CASE ~PeerWrites(p) /\ RestoreDone /\ host.peer = p /\ host.pc = "restore"
  <2>1. UNCHANGED <<store, cccd>> /\ host'.pc = "idle"
    BY <1>8 DEF RestoreDone, gattVars, HostAt
  <2>2. p \in bonded' /\ ~InHand(p, m.chr)'
    BY <1>8, <2>1 DEF Stored, Returning, InHand, RestoreDone, Stay, connVars
  <2>3. Follows(store', p, m.chr, cccd'[p][m.chr].sub)
    BY <1>1, <2>2 DEF Stored, Followed
  <2>4. SubIn(store, p, m.chr) = cccd[p][m.chr].sub
    BY <2>1, <2>3, FollowsIsSubIn
  <2>5. Awaited(p, m.chr)' = Awaited(p, m.chr)
    BY <2>1, <2>4 DEF Awaited, Comes
  <2> QED
    BY <1>4, <1>8, <2>5
<1>9. CASE /\ ~PeerWrites(p) /\ ~CccdWrite(p) /\ ~(Delete /\ p = host.peer)
           /\ Comes(p)' <=> Comes(p)
  <2>1. CASE Comes(p)
    <3>1. SubIn(store', p, m.chr) = SubIn(store, p, m.chr)
      BY <2>1, SubInStays, Zenon
    <3> QED
      BY <1>4, <1>9, <2>1, <3>1 DEF Awaited
  <2>2. CASE ~Comes(p)
    <3>1. ~(RestoreOne /\ p = host.peer)
      BY <2>2, StepIsQuiet, Zenon DEF RestoreOne, Comes
    <3>2. cccd'[p][m.chr].sub = cccd[p][m.chr].sub
      BY <1>1, <1>9, <3>1, SubStays
    <3> QED
      BY <1>4, <1>9, <2>2, <3>2 DEF Awaited
  <2> QED
    BY <2>1, <2>2
<1> QED
  BY <1>2, <1>5, <1>6, <1>7, <1>8, <1>9, ComesStays

-----------------------------------------------------------------------------
(* What is on its way stays on its way; the walk over the records of a peer  *)
(* that returns brings the rest                                              *)

(* The host takes up what is marked. *)
LEMMA TakenUp ==
  ASSUME Types, ~Busy, NEW p \in Peers, NEW c \in Chars, NEW q \in Peers, NEW d \in Chars, NEW op,
         cccd' = [cccd EXCEPT ![q][d].mod = FALSE], send' = [send EXCEPT !["host"] = Sending(op, q, d)],
         UNCHANGED <<air, seen, promised>>, CarriedTo(p, c)
  PROVE  CarriedTo(p, c)'
<1>0. cccd \in [Peers -> [Chars -> Cfgs]] /\ send \in [Actors -> Sends] /\ "host" \in Actors
  BY DEF Types, GattTypes, SideTypes, Actors
<1>1. send'["host"] = Sending(op, q, d)
  BY <1>0
<1>2. Sending(op, q, d).pc = "read" /\ Sending(op, q, d).to = q /\ Sending(op, q, d).chr = d
  BY DEF Sending, NoSend
<1>3. SendingTo(q, d)'
  BY <1>1, <1>2 DEF SendingTo
<1>4. ~(p = q /\ c = d) => cccd'[p][c] = cccd[p][c]
  BY <1>0
<1>5. CASE p = q /\ c = d
  BY <1>3, <1>5 DEF CarriedTo, Carried
<1>6. CASE ~(p = q /\ c = d)
  BY <1>4, <1>6, QuietCarries
<1> QED
  BY <1>5, <1>6

(* What is on its way stays on its way while the connection lasts. *)
LEMMA CarriesOn ==
  ASSUME Preempt = FALSE, NoMem = FALSE, "one" \notin Calls, Types, Types', Stored, Sender, Links,
         Asked, [Next]_vars, ~ChrUpdated, ~RestoreOne,
         NEW p \in Peers, NEW c \in Chars, conn[p] = "up", conn'[p] = "up", CarriedTo(p, c)
  PROVE  CarriedTo(p, c)'
<1>0. /\ cccd \in [Peers -> [Chars -> Cfgs]] /\ send \in [Actors -> Sends] /\ host \in Hosts
      /\ back \in [Peers -> Seq(Backs)] /\ conn \in [Peers -> {"up", "broken", "down"}]
      /\ promised \in [Peers -> [Chars -> [val : Vals, kept : BOOLEAN]]]
  BY DEF Types, GattTypes, SideTypes, PeerTypes, LinkTypes, GoodHost, ValueTypes
<1>1. CASE UNCHANGED <<cccd, send, air, seen, promised>>
  BY <1>1 DEF CarriedTo, Carried, SendingTo
<1>2. CASE Send("host") /\ Busy
  BY <1>2, SendCarries
<1>3. CASE PeerNext
  <2>1. PICK q \in Peers : PeerReceives(q) \/ PeerWrites(q)
    BY <1>3 DEF PeerNext
  <2>2. CASE PeerReceives(q)
    BY <2>2, ReceiveCarries
  <2>3. CASE PeerWrites(q)
    BY <1>1, <2>3 DEF PeerWrites, gattVars, attVars, sideVars
  <2> QED
    BY <2>1, <2>2, <2>3
<1>4. CASE AppNext
  BY <1>1, <1>4 DEF AppNext, setValue, SendToOne, ReadRecord, WriteRecord, gattVars, attVars, peerVars
<1>5. CASE TxNotifications \/ TxDone \/ Persist \/ BondOne \/ BondDone \/ BondRecord \/ RestoreDone
           \/ RestoredSent
  BY <1>1, <1>5 DEF TxNotifications, TxDone, Persist, BondOne, BondDone, BondRecord, RestoreDone,
                    RestoredSent, Stay, gattVars, attVars, peerVars
<1>6. CASE TxOne /\ ~Busy
  <2>1. PICK x \in host.left :
          IF conn[x[1]] = "up" /\ Due(x[1], cccd[x[1]][x[2]])
          THEN /\ cccd' = [cccd EXCEPT ![x[1]][x[2]].mod = FALSE]
               /\ send' = [send EXCEPT !["host"] = Sending(cccd[x[1]][x[2]].sub, x[1], x[2])]
          ELSE UNCHANGED <<cccd, send>>
    BY <1>6 DEF TxOne
  <2>2. UNCHANGED <<air, seen, promised>>
    BY <1>6 DEF TxOne, Stay, peerVars, attVars
  <2>3. x[1] \in Peers /\ x[2] \in Chars
    BY <1>0 DEF Hosts, Pairs
  <2>4. CASE UNCHANGED <<cccd, send>>
    BY <1>1, <2>2, <2>4
  <2>5. CASE /\ cccd' = [cccd EXCEPT ![x[1]][x[2]].mod = FALSE]
             /\ send' = [send EXCEPT !["host"] = Sending(cccd[x[1]][x[2]].sub, x[1], x[2])]
    BY <1>6, <2>2, <2>3, <2>5, TakenUp
  <2> QED
    BY <2>1, <2>4, <2>5
<1>7. CASE SendNextIndicate /\ ~Busy
  <2>1. host.pc = "next" /\ host.peer \in Peers
    BY <1>7, StepIsQuiet DEF SendNextIndicate, Types, SideTypes, GoodHost
  <2>2. UNCHANGED <<air, seen, promised>>
    BY <1>7 DEF SendNextIndicate, Stay, peerVars, attVars
  <2>3. \/ UNCHANGED <<cccd, send>>
        \/ \E d \in Chars : /\ cccd' = [cccd EXCEPT ![host.peer][d].mod = FALSE]
                            /\ send' = [send EXCEPT !["host"] = Sending("indicate", host.peer, d)]
    BY <1>7 DEF SendNextIndicate
  <2>4. CASE UNCHANGED <<cccd, send>>
    BY <1>1, <2>2, <2>4
  <2>5. CASE \E d \in Chars : /\ cccd' = [cccd EXCEPT ![host.peer][d].mod = FALSE]
                              /\ send' = [send EXCEPT !["host"] = Sending("indicate", host.peer, d)]
    <3>1. PICK d \in Chars : /\ cccd' = [cccd EXCEPT ![host.peer][d].mod = FALSE]
                             /\ send' = [send EXCEPT !["host"] = Sending("indicate", host.peer, d)]
      BY <2>5
    <3>2. PICK q \in Peers : q = host.peer
      BY <2>1
    <3>3. /\ cccd' = [cccd EXCEPT ![q][d].mod = FALSE]
          /\ send' = [send EXCEPT !["host"] = Sending("indicate", q, d)]
      BY <3>1, <3>2
    <3> QED
      BY <1>7, <2>2, <3>3, TakenUp
  <2> QED
    BY <2>3, <2>4, <2>5
<1>8. CASE Delete
  <2>1. host.peer \in Peers /\ conn' = [conn EXCEPT ![host.peer] = "down"]
        /\ cccd' = [cccd EXCEPT ![host.peer] = NoSub] /\ UNCHANGED <<send, seen>>
        /\ air' = [air EXCEPT ![host.peer] = <<>>]
        /\ promised' = [promised EXCEPT ![host.peer] =
                         [d \in Chars |-> IF @[d].kept THEN @[d] ELSE NoPromise]]
    BY <1>8, StepIsQuiet DEF Delete, NoMessages, Types, SideTypes, GoodHost
  <2>2. p # host.peer
    BY <1>0, <2>1
  <2>3. cccd'[p] = cccd[p] /\ air'[p] = air[p] /\ promised'[p] = promised[p]
    BY <1>0, <2>1, <2>2 DEF Types, AirTypes
  <2> QED
    BY <2>1, <2>3 DEF CarriedTo, Carried, SendingTo
<1>9. CASE Expire
  BY <1>1, <1>9 DEF Expire, attVars, peerVars, sideVars
<1>10. CASE Link
  <2>1. PICK q \in Peers : Break(q) \/ Connect(q) \/ Pair(q) \/ Encrypt(q)
    BY <1>10 DEF Link
  <2>2. CASE Break(q)
    <3>1. conn' = [conn EXCEPT ![q] = "broken"] /\ air' = [air EXCEPT ![q] = <<>>]
          /\ UNCHANGED <<cccd, send, seen, promised>>
      BY <2>2 DEF Break, NoMessages
    <3>2. p # q
      BY <1>0, <3>1
    <3>3. air'[p] = air[p]
      BY <3>1, <3>2 DEF Types, AirTypes
    <3> QED
      BY <3>1, <3>3 DEF CarriedTo, Carried, SendingTo
  <2>3. CASE Connect(q) \/ Pair(q) \/ Encrypt(q)
    BY <1>1, <2>3 DEF Connect, Pair, Encrypt, gattVars, attVars, peerVars, sideVars
  <2> QED
    BY <2>1, <2>2, <2>3
<1>11. CASE HostReceives /\ host.pc = "idle"
  <2>1. PICK q \in Peers : Confirmation(q) \/ CccdWrite(q)
    BY <1>11 DEF HostReceives
  <2>2. CASE Confirmation(q)
    <3>1. txq[q] = <<>>
      BY DEF Sender
    <3>2. UNCHANGED <<cccd, send, seen, promised>> /\ SendOutstanding(q)
      BY <2>2 DEF Confirmation
    <3>3. air' = air
      BY <3>1, <3>2 DEF SendOutstanding
    <3> QED
      BY <1>1, <3>2, <3>3
  <2>3. CASE CccdWrite(q)
    <3> DEFINE m == Head(back[q])
    <3>1. /\ m.op = "cccd" /\ back[q] # <<>>
          /\ cccd' = [cccd EXCEPT ![q][m.chr] = [sub |-> m.sub, mod |-> FALSE]]
          /\ promised' = IF m.sub = cccd[q][m.chr].sub THEN promised
                         ELSE [promised EXCEPT ![q][m.chr] = NoPromise]
          /\ UNCHANGED <<send, seen, air>>
      BY <2>3 DEF CccdWrite, Incoming, attVars
    <3>2. m \in Backs /\ m \in ToSet(back[q])
      BY <1>0, <3>1, TailKeeps
    <3>3. m.chr \in Chars
      BY <3>1, <3>2 DEF Backs
    <3>4. m.sub # cccd[q][m.chr].sub
      <4>1. ~Comes(q)
        BY <1>11 DEF Comes
      <4> QED
        BY <3>1, <3>2, <4>1 DEF Asked
    <3> HIDE DEF m
    <3>5. promised' = [promised EXCEPT ![q][m.chr] = NoPromise]
      BY <3>1, <3>4
    <3>6. CASE p = q /\ c = m.chr
      <4>1. promised'[p][c] = NoPromise
        BY <1>0, <3>3, <3>5, <3>6, EntrySet
      <4>2. NoPromise.val = 0 /\ seen'[p][c] \in Nat
        <5>1. seen[p][c] \in Nat
          BY CarryTypes
        <5> QED
          BY <3>1, <5>1 DEF NoPromise
      <4>3. ~(promised'[p][c].val > seen'[p][c])
        BY <4>1, <4>2
      <4> QED
        BY <4>3 DEF CarriedTo, Carried
    <3>7. CASE ~(p = q /\ c = m.chr)
      <4>1. promised'[p][c] = promised[p][c] /\ cccd'[p][c] = cccd[p][c]
        BY <1>0, <3>1, <3>3, <3>5, <3>7, EntrySet
      <4> QED
        BY <3>1, <4>1 DEF CarriedTo, Carried, SendingTo
    <3> QED
      BY <3>6, <3>7
  <2> QED
    BY <2>1, <2>2, <2>3
<1>12. CASE UNCHANGED vars
  BY <1>1, <1>12 DEF vars, gattVars, attVars, peerVars, sideVars
<1> QED
  BY <1>2, <1>3, <1>4, <1>5, <1>6, <1>7, <1>8, <1>9, <1>10, <1>11, <1>12, Steps

(* A record of a bonded peer is brought into its connection. *)
LEMMA RestoreBrings ==
  ASSUME Preempt = FALSE, Types, Stored, Sender, Links, Noticed, Resuming, RestoreOne, [Next]_vars
  PROVE  \E q \in Peers, d \in Chars : \E i \in PlacesOf(store, q) :
           /\ host.peer = q /\ store[i].chr = d /\ Rank(PlacesOf(store, q), i) = host.idx
           /\ CarriedTo(q, d)'
           /\ \A p \in Peers, c \in Chars : ~(p = q /\ c = d) =>
                promised'[p][c] = promised[p][c] /\ (CarriedTo(p, c) => CarriedTo(p, c)')
           /\ host'.peer = q
           /\ \/ host'.pc = "restore" /\ host'.idx = host.idx + 1
              \/ host'.pc = "restored" /\ host'.idx = host.idx /\ host'.rec = store[i] /\ Busy'
<1>0. /\ cccd \in [Peers -> [Chars -> Cfgs]] /\ send \in [Actors -> Sends] /\ host \in Hosts
      /\ promised \in [Peers -> [Chars -> [val : Vals, kept : BOOLEAN]]]
      /\ store \in Seq(Recs) /\ Unique(store) /\ "host" \in Actors
  BY DEF Types, GattTypes, SideTypes, GoodHost, ValueTypes, StoreTypes, Actors
<1>1. host.pc = "restore" /\ ~Busy /\ ~Working
  <2>1. HostStep("restore")
    BY DEF RestoreOne
  <2> QED
    BY <2>1, HostWorks DEF Busy
<1>2. PICK q \in Peers : q = host.peer
  BY <1>1, SMTT(60) DEF Types, SideTypes, GoodHost
<1>3. PICK i \in OfPeer(q, host.idx) :
        LET r == store[i]
            cfg == Restored(r)
            now == r.changed /\ Due(q, cfg)
        IN /\ cccd' = [cccd EXCEPT ![q][r.chr] = [cfg EXCEPT !.mod = @ /\ ~now]]
           /\ promised' = IF promised[q][r.chr].kept \/ r.sub = cccd[q][r.chr].sub THEN promised
                          ELSE [promised EXCEPT ![q][r.chr] = NoPromise]
           /\ send' = IF now THEN [send EXCEPT !["host"] = Sending(r.sub, q, r.chr)] ELSE send
           /\ host' = IF now /\ r.sub = "notify" THEN [host EXCEPT !.pc = "restored", !.rec = r]
                      ELSE [host EXCEPT !.idx = @ + 1]
  BY <1>2, Zenon DEF RestoreOne
<1>4. UNCHANGED <<air, seen, store>>
  BY DEF RestoreOne, Stay, attVars, peerVars
<1>5. i \in PlacesOf(store, q) /\ Rank(PlacesOf(store, q), i) = host.idx
  BY <1>0, PeerRanks DEF Hosts
<1>6. PICK r \in Recs : r = store[i]
  BY <1>0, <1>5 DEF PlacesOf
<1>7. PICK d \in Chars : d = r.chr
  BY <1>6 DEF Recs
<1> DEFINE cfg == Restored(r)
           now == r.changed /\ Due(q, cfg)
           new == [cfg EXCEPT !.mod = @ /\ ~now]
<1>8. /\ cccd' = [cccd EXCEPT ![q][d] = new]
      /\ promised' = promised \/ promised' = [promised EXCEPT ![q][d] = NoPromise]
      /\ send' = IF now THEN [send EXCEPT !["host"] = Sending(r.sub, q, d)] ELSE send
      /\ host' = IF now /\ r.sub = "notify" THEN [host EXCEPT !.pc = "restored", !.rec = r]
                      ELSE [host EXCEPT !.idx = @ + 1]
  BY <1>3, <1>6, <1>7
<1>9. now \in BOOLEAN /\ (r.changed => new.mod \/ now) /\ (now => r.changed)
  BY <1>6 DEF Restored, Recs, Due
<1>10. now => SendingTo(q, d)'
  <2> HIDE DEF now
  <2> SUFFICES ASSUME now PROVE SendingTo(q, d)'
    OBVIOUS
  <2>1. send'["host"] = Sending(r.sub, q, d)
    BY <1>0, <1>8
  <2>2. Sending(r.sub, q, d).pc = "read" /\ Sending(r.sub, q, d).to = q /\ Sending(r.sub, q, d).chr = d
    BY DEF Sending, NoSend
  <2> QED
    BY <2>1, <2>2 DEF SendingTo
<1> HIDE DEF now, cfg, new
<1>11. \A p \in Peers, c \in Chars :
         /\ cccd'[p][c] = IF p = q /\ c = d THEN new ELSE cccd[p][c]
         /\ ~(p = q /\ c = d) => promised'[p][c] = promised[p][c]
  BY <1>0, <1>8, EntrySet
<1>12. CarriedTo(q, d)'
  <2>1. CASE ~Wanted(q, d)'
    BY <2>1 DEF Wanted, CarriedTo, Carried
  <2>2. CASE Wanted(q, d)'
    <3>1. Wanted(q, d)
      <4>1. ~ChrUpdated
        <5>1. ChrUpdated => HostFree
          BY DEF ChrUpdated, AppMayRun
        <5> QED
          BY <1>1, <5>1 DEF HostFree
      <4> QED
        BY <2>2, <4>1, WantedShrinks
    <3>2. promised[q][d].kept
      <4>1. Resumes(q, store, host.idx)
        BY <1>1, <1>2 DEF Resuming
      <4>2. ~(Rank(PlacesOf(store, q), i) < host.idx)
        BY <1>0, <1>5 DEF Hosts
      <4>3. store[i].chr = d
        BY <1>6, <1>7
      <4> QED
        BY <1>5, <3>1, <4>1, <4>2, <4>3 DEF Resumes
    <3>3. ChangedIn(store, q, d)
      BY <1>1, <3>1, <3>2 DEF Noticed
    <3>4. r.changed
      <4>1. PICK k \in DOMAIN store : store[k].peer = q /\ store[k].chr = d /\ store[k].changed
        BY <3>3 DEF ChangedIn
      <4>2. i \in DOMAIN store /\ store[i].peer = q /\ store[i].chr = d
        BY <1>5, <1>6, <1>7 DEF PlacesOf
      <4>3. k = i
        BY <1>0, <4>1, <4>2 DEF Unique
      <4> QED
        BY <1>6, <4>1, <4>3
    <3>5. cccd'[q][d].mod \/ SendingTo(q, d)'
      BY <1>9, <1>10, <1>11, <3>4
    <3> QED
      BY <3>5 DEF CarriedTo, Carried
  <2> QED
    BY <2>1, <2>2
<1>13. ASSUME NEW p \in Peers, NEW c \in Chars, ~(p = q /\ c = d), CarriedTo(p, c)
       PROVE  CarriedTo(p, c)'
  BY <1>1, <1>4, <1>11, <1>13, QuietCarries
<1>14. /\ host'.peer = q
       /\ \/ host'.pc = "restore" /\ host'.idx = host.idx + 1
          \/ host'.pc = "restored" /\ host'.idx = host.idx /\ host'.rec = store[i] /\ Busy'
  <2>1. CASE now /\ r.sub = "notify"
    <3>1. host' = [host EXCEPT !.pc = "restored", !.rec = r]
      BY <1>8, <2>1
    <3>2. Busy'
      BY <1>10, <2>1 DEF Busy, SendingTo
    <3> QED
      BY <1>0, <1>2, <1>6, <3>1, <3>2 DEF Hosts
  <2>2. CASE ~(now /\ r.sub = "notify")
    <3>1. host' = [host EXCEPT !.idx = @ + 1]
      BY <1>8, <2>2
    <3> QED
      BY <1>0, <1>1, <1>2, <3>1 DEF Hosts
  <2> QED
    BY <2>1, <2>2
<1> QED
  BY <1>2, <1>5, <1>6, <1>7, <1>11, <1>12, <1>13, <1>14

LEMMA ResumesStays ==
  ASSUME Preempt = FALSE, NoMem = FALSE, "one" \notin Calls, Types, Types', Stored, Sender, Links,
         Asked, [Next]_vars, ~ChrUpdated, ~RestoreOne,
         NEW p \in Peers, conn[p] = "up", conn'[p] = "up", NEW s \in Seq(Recs), NEW n,
         Resumes(p, s, n),
         \A i \in PlacesOf(s, p) :
           ~(Rank(PlacesOf(s, p), i) < n) =>
             ~(/\ SendValue("host") /\ Busy /\ send["host"].op = "notify"
               /\ send["host"].to = p /\ send["host"].chr = s[i].chr)
  PROVE  Resumes(p, s, n)'
<1>1. ASSUME NEW c \in Chars, ~InStore(s, p, c) PROVE ~Wanted(p, c)'
  <2>1. ~Wanted(p, c)
    BY <1>1 DEF Resumes
  <2> QED
    BY <2>1, WantedShrinks
<1>2. ASSUME NEW i \in PlacesOf(s, p), NEW c \in Chars, c = s[i].chr, Rank(PlacesOf(s, p), i) < n
      PROVE  CarriedTo(p, c)'
  <2>1. CarriedTo(p, c)
    BY <1>2 DEF Resumes
  <2> QED
    BY <2>1, CarriesOn
<1>3. ASSUME NEW i \in PlacesOf(s, p), NEW c \in Chars, c = s[i].chr, ~(Rank(PlacesOf(s, p), i) < n),
             Wanted(p, c)'
      PROVE  promised'[p][c].kept
  <2>1. Wanted(p, c)
    BY <1>3, WantedShrinks
  <2>2. promised[p][c].kept
    BY <1>3, <2>1 DEF Resumes
  <2>3. promised'[p][c] # NoPromise
    <3>1. NoPromise.val = 0
      BY DEF NoPromise
    <3>2. seen'[p][c] \in Nat
      BY SeenGrows
    <3> QED
      BY <1>3, <3>1, <3>2 DEF Wanted
  <2>4. promised'[p][c] = promised[p][c]
    BY <1>3, <2>3, PromisesShrink, ZenonT(40)
  <2> QED
    BY <2>2, <2>4
<1>4. \A i \in PlacesOf(s, p) : s[i].chr \in Chars
  <2> SUFFICES ASSUME NEW i \in PlacesOf(s, p) PROVE s[i].chr \in Chars
    OBVIOUS
  <2>1. i \in DOMAIN s
    BY DEF PlacesOf
  <2>2. s[i] \in Recs
    BY <2>1
  <2> QED
    BY <2>2 DEF Recs
<1>5. ASSUME NEW i \in PlacesOf(s, p), Rank(PlacesOf(s, p), i) < n
      PROVE  CarriedTo(p, s[i].chr)'
  <2>1. PICK c \in Chars : c = s[i].chr
    BY <1>4
  <2>2. CarriedTo(p, c)'
    BY <1>2, <1>5, <2>1
  <2> QED
    BY <2>1, <2>2 DEF CarriedTo, Carried, SendingTo
<1>6. ASSUME NEW i \in PlacesOf(s, p), ~(Rank(PlacesOf(s, p), i) < n), Wanted(p, s[i].chr)'
      PROVE  promised'[p][s[i].chr].kept
  <2>1. PICK c \in Chars : c = s[i].chr
    BY <1>4
  <2>2. Wanted(p, c)'
    BY <1>6, <2>1 DEF Wanted
  <2> QED
    BY <1>3, <1>6, <2>1, <2>2
<1> QED
  BY <1>1, <1>5, <1>6 DEF Resumes

(* Another store with the same keys will do. *)
LEMMA SameResumes ==
  ASSUME NEW p, NEW s, NEW t, SameSubs(s, t), NEW n, Resumes(p, s, n)'
  PROVE  Resumes(p, t, n)'
<1>1. PlacesOf(t, p) = PlacesOf(s, p) /\ \A c : InStore(t, p, c) <=> InStore(s, p, c)
  BY SameFollows
<1>2. \A i \in PlacesOf(s, p) : t[i].chr = s[i].chr
  BY DEF SameSubs, PlacesOf
<1>3. \A c \in Chars : ~InStore(t, p, c) => ~Wanted(p, c)'
  BY <1>1 DEF Resumes
<1>4. ASSUME NEW i \in PlacesOf(t, p)
      PROVE  IF Rank(PlacesOf(t, p), i) < n THEN CarriedTo(p, t[i].chr)'
             ELSE Wanted(p, t[i].chr)' => promised'[p][t[i].chr].kept
  <2>1. i \in PlacesOf(s, p) /\ t[i].chr = s[i].chr /\ Rank(PlacesOf(t, p), i) = Rank(PlacesOf(s, p), i)
    BY <1>1, <1>2
  <2>2. IF Rank(PlacesOf(s, p), i) < n THEN CarriedTo(p, s[i].chr)'
        ELSE Wanted(p, s[i].chr)' => promised'[p][s[i].chr].kept
    BY <2>1 DEF Resumes
  <2> QED
    BY <2>1, <2>2 DEF CarriedTo, Carried, SendingTo, Wanted
<1> QED
  BY <1>3, <1>4 DEF Resumes

(* A bonded peer begins to return: nothing is promised but what the store has. *)
LEMMA EncryptResumes ==
  ASSUME Types, KeptInStore, KeptAway, NEW p \in Peers, Encrypt(p)
  PROVE  Resuming'
<1>1. /\ conn[p] = "up" /\ p \in paired \ bonded /\ UNCHANGED <<conn, store, promised, seen>>
      /\ host' = [HostAt("restore") EXCEPT !.peer = p]
  BY DEF Encrypt, peerVars
<1>2. host'.pc = "restore" /\ host'.peer = p /\ host'.idx = 1
  BY <1>1 DEF HostAt
<1>3. ASSUME NEW c \in Chars, Wanted(p, c) PROVE promised[p][c].kept
  <2>1. promised[p][c].val > 0
    BY <1>3, CarryTypes DEF Wanted
  <2> QED
    BY <1>1, <2>1 DEF KeptAway
<1>4. \A c \in Chars : ~InStore(store, p, c) => ~Wanted(p, c)
  BY <1>3 DEF KeptInStore
<1>5. \A i \in PlacesOf(store, p) : store[i].chr \in Chars /\ ~(Rank(PlacesOf(store, p), i) < 1)
  <2> SUFFICES ASSUME NEW i \in PlacesOf(store, p)
               PROVE  store[i].chr \in Chars /\ ~(Rank(PlacesOf(store, p), i) < 1)
    OBVIOUS
  <2>1. store \in Seq(Recs) /\ i \in DOMAIN store
    BY DEF Types, StoreTypes, PlacesOf
  <2>2. PlacesOf(store, p) \subseteq Nat \ {0}
    BY <2>1, PeerRanks
  <2>3. store[i] \in Recs
    BY <2>1
  <2> QED
    BY <2>2, <2>3, RankGrows DEF Recs
<1>6. PICK t : t = store
  OBVIOUS
<1>7. Resumes(p, t, 1)
  BY <1>3, <1>4, <1>5, <1>6 DEF Resumes
<1>8. \A c : Wanted(p, c)' <=> Wanted(p, c)
  BY <1>1 DEF Wanted
<1>9. Resumes(p, t, 1)'
  <2>1. \A c \in Chars : ~InStore(t, p, c) => ~Wanted(p, c)'
    BY <1>4, <1>6, <1>8
  <2>2. ASSUME NEW i \in PlacesOf(t, p)
        PROVE  /\ ~(Rank(PlacesOf(t, p), i) < 1)
               /\ Wanted(p, t[i].chr)' => promised'[p][t[i].chr].kept
    <3>1. t[i].chr \in Chars /\ ~(Rank(PlacesOf(t, p), i) < 1)
      BY <1>5, <1>6, <2>2
    <3>2. PICK c \in Chars : c = t[i].chr
      BY <3>1
    <3>3. Wanted(p, c)' => promised'[p][c].kept
      BY <1>1, <1>3, <1>8
    <3> QED
      BY <3>1, <3>2, <3>3 DEF Wanted
  <2> QED
    BY <2>1, <2>2 DEF Resumes
<1>10. Resumes(p, store, 1)'
  BY <1>1, <1>6, <1>9 DEF Resumes, CarriedTo, Carried, SendingTo, Wanted
<1> QED
  BY <1>1, <1>2, <1>10 DEF Resuming, Resumes, CarriedTo, Carried, SendingTo, Wanted

(* The walk over the records goes on. *)
LEMMA RestoreResumes ==
  ASSUME Preempt = FALSE, Types, Stored, Sender, Links, Noticed, Resuming, RestoreOne, [Next]_vars
  PROVE  Resuming'
<1>0. /\ UNCHANGED <<conn, store>> /\ host.pc = "restore" /\ host \in Hosts
      /\ store \in Seq(Recs) /\ Unique(store) /\ ~ChrUpdated
  <2>1. HostStep("restore") /\ UNCHANGED <<conn, store>>
    BY DEF RestoreOne, Stay, connVars
  <2>2. host.pc = "restore"
    BY <2>1, StepIsQuiet
  <2>3. ChrUpdated => HostFree
    BY DEF ChrUpdated, AppMayRun
  <2> QED
    BY <2>1, <2>2, <2>3 DEF HostFree, Types, SideTypes, GoodHost, StoreTypes
<1>1. PICK q \in Peers, d \in Chars : \E i \in PlacesOf(store, q) :
           /\ host.peer = q /\ store[i].chr = d /\ Rank(PlacesOf(store, q), i) = host.idx
           /\ CarriedTo(q, d)'
           /\ \A p \in Peers, c \in Chars : ~(p = q /\ c = d) =>
                promised'[p][c] = promised[p][c] /\ (CarriedTo(p, c) => CarriedTo(p, c)')
           /\ host'.peer = q
           /\ \/ host'.pc = "restore" /\ host'.idx = host.idx + 1
              \/ host'.pc = "restored" /\ host'.idx = host.idx /\ host'.rec = store[i] /\ Busy'
  BY RestoreBrings
<1>2. PICK s, n : s = store /\ n = host.idx
  OBVIOUS
<1>3. PICK i \in PlacesOf(s, q) :
           /\ host.peer = q /\ s[i].chr = d /\ Rank(PlacesOf(s, q), i) = n
           /\ CarriedTo(q, d)'
           /\ \A p \in Peers, c \in Chars : ~(p = q /\ c = d) =>
                promised'[p][c] = promised[p][c] /\ (CarriedTo(p, c) => CarriedTo(p, c)')
           /\ host'.peer = q
           /\ \/ host'.pc = "restore" /\ host'.idx = n + 1
              \/ host'.pc = "restored" /\ host'.idx = n /\ host'.rec = s[i] /\ Busy'
  BY <1>1, <1>2
<1>4. conn[q] = "up" /\ Resumes(q, s, n)
  BY <1>0, <1>2, <1>3 DEF Resuming
<1>5. /\ s \in Seq(Recs) /\ n \in Nat /\ PlacesOf(s, q) \subseteq Nat \ {0}
      /\ \A k \in PlacesOf(s, q) : s[k].chr \in Chars /\ (s[k].chr = d => k = i)
  <2>1. s \in Seq(Recs) /\ n \in Nat /\ PlacesOf(s, q) \subseteq Nat \ {0}
    BY <1>0, <1>2, PeerRanks DEF Hosts
  <2>2. ASSUME NEW k \in PlacesOf(s, q) PROVE s[k].chr \in Chars /\ (s[k].chr = d => k = i)
    <3>1. s[k] \in Recs
      BY <2>1 DEF PlacesOf
    <3>2. s[k].chr = d => k = i
      BY <1>0, <1>2, <1>3 DEF PlacesOf, Unique
    <3> QED
      BY <3>1, <3>2 DEF Recs
  <2> QED
    BY <2>1, <2>2
<1>6. ASSUME NEW c \in Chars, ~InStore(s, q, c) PROVE ~Wanted(q, c)'
  <2>1. ~Wanted(q, c)
    BY <1>4, <1>6 DEF Resumes
  <2> QED
    BY <1>0, <2>1, WantedShrinks
<1>7. ASSUME NEW k \in PlacesOf(s, q), NEW c \in Chars, c = s[k].chr
      PROVE  IF Rank(PlacesOf(s, q), k) < n + 1 THEN CarriedTo(q, c)'
             ELSE Wanted(q, c)' => promised'[q][c].kept
  <2> DEFINE r == Rank(PlacesOf(s, q), k)
  <2>1. r \in Nat /\ (r = n => k = i)
    BY <1>3, <1>5, RankGrows
  <2>2. IF r < n THEN CarriedTo(q, c) ELSE Wanted(q, c) => promised[q][c].kept
    BY <1>4, <1>7 DEF Resumes
  <2> HIDE DEF r
  <2>3. CASE k = i
    <3>1. c = d /\ r = n
      BY <1>3, <1>7, <2>3 DEF r
    <3> QED
      BY <1>3, <1>5, <3>1 DEF r
  <2>4. CASE k # i
    <3>1. c # d /\ r # n
      BY <1>5, <1>7, <2>1, <2>4
    <3>2. promised'[q][c] = promised[q][c] /\ (CarriedTo(q, c) => CarriedTo(q, c)')
      BY <1>3, <3>1
    <3>3. Wanted(q, c)' => Wanted(q, c)
      BY <1>0, WantedShrinks
    <3>4. r < n + 1 <=> r < n
      BY <1>5, <2>1, <3>1
    <3> QED
      BY <2>2, <3>2, <3>3, <3>4 DEF r
  <2> QED
    BY <2>3, <2>4
<1>8. Resumes(q, s, n + 1)'
  <2>1. ASSUME NEW k \in PlacesOf(s, q)
        PROVE  IF Rank(PlacesOf(s, q), k) < n + 1 THEN CarriedTo(q, s[k].chr)'
               ELSE Wanted(q, s[k].chr)' => promised'[q][s[k].chr].kept
    <3>1. PICK c \in Chars : c = s[k].chr
      BY <1>5
    <3>2. IF Rank(PlacesOf(s, q), k) < n + 1 THEN CarriedTo(q, c)'
          ELSE Wanted(q, c)' => promised'[q][c].kept
      BY <1>7, <3>1
    <3> QED
      BY <3>1, <3>2 DEF CarriedTo, Carried, SendingTo, Wanted
  <2> QED
    BY <1>6, <2>1 DEF Resumes
<1>9. Resumes(q, store, n + 1)'
  BY <1>0, <1>2, <1>8 DEF Resumes, CarriedTo, Carried, SendingTo, Wanted
<1>10. CASE host'.pc = "restore" /\ host'.idx = n + 1
  BY <1>0, <1>3, <1>4, <1>9, <1>10, SMTT(60) DEF Resuming, Resumes, CarriedTo, Carried, SendingTo, Wanted
<1>11. CASE host'.pc = "restored" /\ host'.idx = n /\ host'.rec = s[i] /\ Busy'
  <2>1. \E k \in PlacesOf(store', q) : Rank(PlacesOf(store', q), k) = host'.idx /\ store'[k] = host'.rec
    BY <1>0, <1>2, <1>3, <1>11
  <2> QED
    BY <1>0, <1>3, <1>4, <1>9, <1>11, <2>1 DEF Resuming, Resumes, CarriedTo, Carried, SendingTo, Wanted
<1> QED
  BY <1>3, <1>10, <1>11

(* How the host comes to be walking over the records of a peer *)
LEMMA Resumers ==
  ASSUME Preempt = FALSE, Types, Stored, Sender, [Next]_vars, host'.pc \in {"restore", "restored"}
  PROVE  \/ UNCHANGED vars \/ PeerNext \/ (Send("host") /\ Busy)
         \/ \E p \in Peers : Encrypt(p)
         \/ RestoreOne
         \/ host.pc = "restored" /\ ~Busy /\ RestoredSent
<1>0. host \in Hosts
  BY DEF Types, SideTypes, GoodHost
<1>1. ~(AppNext /\ host.pc = "idle")
  BY DEF AppNext, setValue, SendToOne, ChrUpdated, ReadRecord, WriteRecord
<1>2. ~(host.pc = "idle" /\ TxNotifications) /\ ~(host.pc = "idle" /\ Expire)
  BY DEF TxNotifications, HostAt, Expire, sideVars
<1>3. ~TxDone /\ ~SendNextIndicate /\ ~Delete /\ ~BondDone /\ ~RestoreDone
  BY DEF TxDone, SendNextIndicate, Delete, BondDone, RestoreDone, HostAt
<1>4. ~Persist
  BY <1>0 DEF Persist, HostAt
<1>5. ~(host.pc = "tx" /\ TxOne)
  <2> SUFFICES ASSUME host.pc = "tx", TxOne PROVE FALSE
    OBVIOUS
  <2>1. PICK x : host' = [host EXCEPT !.left = @ \ {x}]
    BY DEF TxOne
  <2> QED
    BY <1>0, <2>1 DEF Hosts
<1>6. ~(host.pc = "record" /\ BondRecord)
  <2> SUFFICES ASSUME host.pc = "record", BondRecord PROVE FALSE
    OBVIOUS
  <2>1. host' = [host EXCEPT !.pc = "bond", !.rec = None]
    BY DEF BondRecord
  <2> QED
    BY <1>0, <2>1 DEF Hosts
<1>7. ~(host.pc = "bond" /\ BondOne)
  <2> SUFFICES ASSUME host.pc = "bond", BondOne PROVE FALSE
    OBVIOUS
  <2>1. PICK x, r : host' = [host EXCEPT !.left = @ \ {x}]
                    \/ host' = [host EXCEPT !.pc = "record", !.left = @ \ {x}, !.rec = r]
    BY DEF BondOne
  <2> QED
    BY <1>0, <2>1 DEF Hosts
<1>8. ~(host.pc = "idle" /\ HostReceives)
  <2> SUFFICES ASSUME host.pc = "idle", NEW q \in Peers, Confirmation(q) \/ CccdWrite(q) PROVE FALSE
    BY DEF HostReceives
  <2>1. CASE Confirmation(q)
    <3>1. host' = host \/ host'.pc = "persist"
      BY <2>1 DEF Confirmation, HostAt
    <3> QED
      BY <3>1
  <2>2. CASE CccdWrite(q)
    BY <2>2 DEF CccdWrite, HostAt
  <2> QED
    BY <2>1, <2>2
<1>9. host.pc = "idle" /\ Link => \E p \in Peers : Encrypt(p)
  <2> SUFFICES ASSUME host.pc = "idle", NEW q \in Peers, Break(q) \/ Connect(q) \/ Pair(q) PROVE FALSE
    BY DEF Link
  <2>1. CASE Break(q)
    BY <2>1 DEF Break, HostAt
  <2>2. CASE Connect(q)
    BY <2>2 DEF Connect, sideVars
  <2>3. CASE Pair(q)
    BY <2>3, SMTT(60) DEF Pair, HostAt
  <2> QED
    BY <2>1, <2>2, <2>3
<1> QED
  BY <1>1, <1>2, <1>3, <1>4, <1>5, <1>6, <1>7, <1>8, <1>9, Steps

(* While nothing is done to the walk itself *)
LEMMA WalkResumes ==
  ASSUME Preempt = FALSE, NoMem = FALSE, "one" \notin Calls, Types, Types', Stored, Sender, Links,
         Asked, Resuming, [Next]_vars, UNCHANGED vars \/ PeerNext \/ (Send("host") /\ Busy)
  PROVE  Resuming'
<1> SUFFICES ASSUME host'.pc \in {"restore", "restored"} PROVE Resuming'
  BY SMTT(60) DEF Resuming
<1>1. UNCHANGED <<host, conn, store>>
  BY DEF vars, connVars, sideVars, PeerNext, PeerReceives, PeerWrites, Send, ReadValue, SendValue,
         MarkWaiting, InsertProc
<1>2. ~ChrUpdated /\ ~RestoreOne
  <2>1. ChrUpdated => HostFree
    BY DEF ChrUpdated, AppMayRun
  <2>2. ~RestoreOne
    <3> SUFFICES ASSUME RestoreOne PROVE FALSE
      OBVIOUS
    <3>1. PICK i \in DOMAIN store :
            host' = [host EXCEPT !.pc = "restored", !.rec = store[i]] \/ host' = [host EXCEPT !.idx = @ + 1]
      BY Places DEF RestoreOne
    <3>2. host.pc = "restore" /\ host \in Hosts
      BY StepIsQuiet DEF RestoreOne, Types, SideTypes, GoodHost
    <3>3. CASE host' = [host EXCEPT !.pc = "restored", !.rec = store[i]]
      BY <1>1, <3>2, <3>3 DEF Hosts
    <3>4. CASE host' = [host EXCEPT !.idx = @ + 1]
      <4>1. host'.idx = host.idx + 1 /\ host.idx \in Nat
        BY <3>2, <3>4 DEF Hosts
      <4> QED
        BY <1>1, <4>1
    <3> QED
      BY <3>1, <3>3, <3>4
  <2> QED
    BY <1>1, <2>1, <2>2 DEF HostFree
<1>3. PICK p \in Peers : p = host.peer
  BY <1>1 DEF Types, SideTypes, GoodHost
<1>4. PICK s, n : s = store /\ n = IF host.pc = "restored" THEN host.idx + 1 ELSE host.idx
  OBVIOUS
<1>5. /\ conn[p] = "up" /\ Resumes(p, s, n)
      /\ host.pc = "restored" =>
           /\ \E i \in PlacesOf(s, p) : Rank(PlacesOf(s, p), i) = host.idx /\ s[i] = host.rec
           /\ ~Busy => ~promised[p][host.rec.chr].kept
  BY <1>1, <1>3, <1>4 DEF Resuming
<1>6. s \in Seq(Recs) /\ Unique(s) /\ host.idx \in Nat
  BY <1>4 DEF Types, StoreTypes, SideTypes, GoodHost, Hosts
<1>7. ASSUME NEW i \in PlacesOf(s, p), ~(Rank(PlacesOf(s, p), i) < n), SendValue("host"), Busy,
             send["host"].op = "notify", send["host"].to = p, send["host"].chr = s[i].chr
      PROVE  FALSE
  <2>1. send["host"].pc = "tx"
    BY <1>7 DEF SendValue
  <2>2. host.pc = "restored"
    BY <1>1, <1>7 DEF Sender
  <2>3. send["host"].chr = host.rec.chr
    BY <1>7, <2>2 DEF Sender, SendingTo
  <2>4. PICK k \in PlacesOf(s, p) : Rank(PlacesOf(s, p), k) = host.idx /\ s[k] = host.rec
    BY <1>5, <2>2
  <2>5. k = i
    BY <1>6, <1>7, <2>3, <2>4 DEF PlacesOf, Unique
  <2>6. n = host.idx + 1
    BY <1>4, <2>2
  <2> QED
    BY <1>6, <1>7, <2>4, <2>5, <2>6
<1>8. Resumes(p, s, n)'
  BY <1>1, <1>2, <1>5, <1>6, <1>7, ResumesStays
<1>9. Resumes(p, store, n)'
  BY <1>1, <1>4, <1>8 DEF Resumes, CarriedTo, Carried, SendingTo, Wanted
<1>10. ASSUME host.pc = "restored", ~Busy' PROVE ~promised'[p][host.rec.chr].kept
  <2>1. PICK c \in Chars : c = host.rec.chr
    BY <1>10 DEF Types, SideTypes, GoodHost, Recs
  <2>2. CASE ~Busy
    <3>1. ~promised[p][c].kept
      BY <1>5, <1>10, <2>1, <2>2
    <3> QED
      BY <1>2, <2>1, <3>1, WantedShrinks
  <2>3. CASE Busy
    <3>1. SendingTo(p, c) /\ send["host"].op = "notify"
      BY <1>3, <1>10, <2>1, <2>3 DEF Sender
    <3>2. send \in [Actors -> Sends] /\ "host" \in Actors
      BY DEF Types, SideTypes, Actors
    <3>3. Send("host")
      <4>1. ~(UNCHANGED vars \/ PeerNext)
        BY <1>10, <2>3 DEF vars, sideVars, PeerNext, PeerReceives, PeerWrites, Busy
      <4> QED
        BY <4>1
    <3>4. ~ReadValue("host")
      <4> SUFFICES ASSUME ReadValue("host") PROVE FALSE
        OBVIOUS
      <4>1. send' = [send EXCEPT !["host"].pc = "tx", !["host"].val = value[send["host"].chr]]
        BY DEF ReadValue
      <4>2. send'["host"] = [send["host"] EXCEPT !.pc = "tx", !.val = value[send["host"].chr]]
        BY <3>2, <4>1
      <4>3. send["host"] \in Sends
        BY <3>2
      <4>4. send'["host"].pc = "tx"
        BY <4>2, <4>3 DEF Sends
      <4> QED
        BY <1>10, <4>4 DEF Busy
    <3>5. SendValue("host")
      BY <3>1, <3>3, <3>4 DEF Send, MarkWaiting, InsertProc, SendingTo
    <3>6. promised' = [promised EXCEPT ![p][c].kept = FALSE]
      <4>1. conn[send["host"].to] # "down" /\ send["host"].to = p /\ send["host"].chr = c
        BY <1>5, <3>1 DEF SendingTo
      <4> QED
        BY <3>1, <3>5, <4>1 DEF SendValue
    <3>7. promised'[p][c].kept = FALSE
      <4>1. promised \in [Peers -> [Chars -> [val : Vals, kept : BOOLEAN]]]
        BY DEF Types, ValueTypes
      <4> QED
        BY <3>6, <4>1
    <3> QED
      BY <2>1, <3>7
  <2> QED
    BY <2>2, <2>3
<1>11. host.pc = "restored" =>
         \E i \in PlacesOf(store', p) : Rank(PlacesOf(store', p), i) = host'.idx /\ store'[i] = host'.rec
  BY <1>1, <1>4, <1>5, SMTT(60)
<1> QED
  BY <1>1, <1>3, <1>4, <1>5, <1>9, <1>10, <1>11
     DEF Resuming, Resumes, CarriedTo, Carried, SendingTo, Wanted, Busy

(* The record of a notification that was sent is written back. *)
LEMMA SentResumes ==
  ASSUME Preempt = FALSE, NoMem = FALSE, "one" \notin Calls, None \notin Recs, Types, Types', Stored,
         Sender, Links, Asked, Resuming, [Next]_vars, host.pc = "restored", ~Busy, RestoredSent
  PROVE  Resuming'
<1>0. host \in Hosts /\ store \in Seq(Recs)
  BY DEF Types, SideTypes, GoodHost, StoreTypes
<1>1. /\ UNCHANGED <<conn, promised>> /\ ~ChrUpdated /\ ~RestoreOne /\ ~SendValue("host")
      /\ host' = [host EXCEPT !.pc = "restore", !.idx = @ + 1, !.rec = None]
  <2>1. ~ChrUpdated /\ ~RestoreOne
    BY DEF ChrUpdated, AppMayRun, HostFree, RestoreOne, HostStep
  <2>2. ~SendValue("host")
    BY DEF SendValue, Busy
  <2> QED
    BY <2>1, <2>2 DEF RestoredSent, Stay, connVars
<1>2. host'.pc = "restore" /\ host'.peer = host.peer /\ host'.idx = host.idx + 1
  BY <1>0, <1>1 DEF Hosts
<1>3. SameSubs(store, store')
  <2>1. ~WriteRecord
    BY DEF WriteRecord, AppMayRun, HostFree
  <2> QED
    BY <2>1, StoreSteps, SameItself DEF Rewritten
<1>4. PICK p \in Peers : p = host.peer
  BY DEF Types, SideTypes, GoodHost
<1>5. PICK s, t, n : s = store /\ t = store' /\ n = host.idx + 1
  OBVIOUS
<1>6. conn[p] = "up" /\ Resumes(p, s, n)
  BY <1>4, <1>5 DEF Resuming
<1>7. Resumes(p, s, n)'
  BY <1>0, <1>1, <1>5, <1>6, ResumesStays
<1>8. Resumes(p, t, n)'
  BY <1>3, <1>5, <1>7, SameResumes
<1> QED
  BY <1>1, <1>2, <1>4, <1>5, <1>6, <1>8 DEF Resuming, Resumes, CarriedTo, Carried, SendingTo, Wanted

LEMMA NextResuming ==
  ASSUME Preempt = FALSE, NoMem = FALSE, "one" \notin Calls, None \notin Recs, Types, Types', Stored,
         Sender, Links, Asked, KeptInStore, KeptAway, Noticed, Resuming, [Next]_vars
  PROVE  Resuming'
<1>1. CASE host'.pc \notin {"restore", "restored"}
  BY <1>1 DEF Resuming
<1>2. CASE host'.pc \in {"restore", "restored"}
  BY <1>2, Resumers, WalkResumes, EncryptResumes, RestoreResumes, SentResumes
<1> QED
  BY <1>1, <1>2

(* The value is sent to everybody: whoever is connected is marked. *)
LEMMA UpdateCarries ==
  ASSUME Preempt = FALSE, Types, Sender, Alone, ChrUpdated, Current,
         NEW p \in Peers, NEW c \in Chars, conn[p] = "up", ~Restoring(p)
  PROVE  CarriedTo(p, c)'
<1>0. cccd \in [Peers -> [Chars -> Cfgs]] /\ UNCHANGED <<air, seen, send>> /\ app.chr \in Chars
  BY DEF Types, GattTypes, ChrUpdated, attVars, peerVars, SideTypes, GoodApp
<1>1. host.pc = "idle"
  BY DEF ChrUpdated, AppMayRun, HostFree
<1>2. \A q \in Peers : conn[q] # "broken"
  BY <1>1 DEF Alone
<1>3. cccd'[p] = [cccd[p] EXCEPT ![app.chr].mod = TRUE]
  <2>1. PICK marked \in SUBSET {q \in Peers : conn[q] = "up"} :
          /\ (\A q \in Peers : conn[q] # "broken") => marked = {q \in Peers : conn[q] = "up"}
          /\ cccd' = [q \in Peers |->
                        IF q \in marked THEN [cccd[q] EXCEPT ![app.chr].mod = TRUE] ELSE cccd[q]]
    BY DEF ChrUpdated
  <2>2. p \in marked
    BY <1>2, <2>1
  <2> QED
    BY <2>1, <2>2
<1>4. CASE c = app.chr
  <2>1. cccd'[p][c].mod
    BY <1>0, <1>3, <1>4 DEF Cfgs
  <2> QED
    BY <2>1 DEF CarriedTo, Carried
<1>5. CASE c # app.chr
  <2>1. cccd'[p][c] = cccd[p][c] /\ promised'[p][c] = promised[p][c]
    BY <1>0, <1>3, <1>5, Promises
  <2>2. CarriedTo(p, c)
    BY DEF Current
  <2> QED
    BY <1>0, <2>1, <2>2 DEF CarriedTo, Carried, SendingTo
<1> QED
  BY <1>4, <1>5

-----------------------------------------------------------------------------
(* What is due to a connected peer is on its way *)

(* Who changes connections and bonds *)
LEMMA LinkSteps ==
  ASSUME Preempt = FALSE, Types, Stored, Sender, [Next]_vars, NEW p \in Peers
  PROVE  /\ conn'[p] = "up" /\ conn[p] # "up" => Connect(p) /\ host.pc = "idle"
         /\ p \in paired \ bonded => p \in paired' \ bonded' \/ Encrypt(p)
<1>0. conn \in [Peers -> {"up", "broken", "down"}]
  BY DEF Types, LinkTypes
<1>1. CASE UNCHANGED <<conn, paired, bonded>>
  BY <1>1
<1>2. CASE Delete
  <2>1. host.peer \in Peers /\ conn' = [conn EXCEPT ![host.peer] = "down"] /\ paired' = paired
        /\ bonded' = bonded \ {host.peer}
    BY <1>2, StepIsQuiet DEF Delete, Types, SideTypes, GoodHost
  <2> QED
    BY <1>0, <2>1
<1>3. CASE Link
  <2>1. PICK q \in Peers : Break(q) \/ Connect(q) \/ Pair(q) \/ Encrypt(q)
    BY <1>3 DEF Link
  <2>2. CASE Break(q)
    BY <1>0, <2>2 DEF Break
  <2>3. CASE Connect(q)
    <3>1. conn' = [conn EXCEPT ![q] = "up"] /\ UNCHANGED <<paired, bonded>> /\ host.pc = "idle"
      BY <2>3, StepIsQuiet DEF Connect
    <3>2. p # q => conn'[p] = conn[p]
      BY <1>0, <3>1
    <3> QED
      BY <2>3, <3>1, <3>2
  <2>4. CASE Pair(q)
    <3>1. conn' = conn /\ paired' = paired \cup {q} /\ bonded' = bonded \cup {q} /\ q \notin paired
      BY <2>4 DEF Pair
    <3> QED
      BY <3>1
  <2>5. CASE Encrypt(q)
    <3>1. conn' = conn /\ paired' = paired /\ bonded' = bonded \cup {q}
      BY <2>5, SMTT(60) DEF Encrypt
    <3> QED
      BY <2>5, <3>1
  <2> QED
    BY <2>1, <2>2, <2>3, <2>4, <2>5
<1>4. CASE AppNext
  BY <1>1, <1>4 DEF AppNext, setValue, SendToOne, ChrUpdated, ReadRecord, WriteRecord, connVars
<1>5. CASE UNCHANGED vars \/ PeerNext \/ Send("host") \/ HostReceives \/ Expire
  BY <1>1, <1>5, ZenonT(40) DEF vars, connVars, PeerNext, PeerReceives, PeerWrites, Send, ReadValue, SendValue,
     MarkWaiting, InsertProc, HostReceives, Confirmation, CccdWrite, Expire
<1>6. CASE \/ TxNotifications \/ TxOne \/ TxDone \/ SendNextIndicate \/ Persist
           \/ BondOne \/ BondRecord \/ BondDone \/ RestoreOne \/ RestoredSent \/ RestoreDone
  BY <1>1, <1>6, Zenon DEF TxNotifications, TxOne, TxDone, SendNextIndicate, Persist, BondOne, BondRecord,
     BondDone, RestoreOne, RestoredSent, RestoreDone, Stay, connVars
<1> QED
  BY <1>2, <1>3, <1>4, <1>5, <1>6, Steps

(* A stranger that connects was promised nothing. *)
LEMMA ConnectCarries ==
  ASSUME Types, Stored, KeptInStore, KeptAway, BondedHere, NEW p \in Peers, Connect(p),
         ~Restoring(p)', NEW c \in Chars
  PROVE  CarriedTo(p, c)'
<1>1. conn[p] = "down" /\ UNCHANGED <<paired, bonded, promised, seen>>
  BY DEF Connect, peerVars
<1>2. p \notin bonded /\ p \notin paired
  BY <1>1 DEF BondedHere, Restoring
<1>3. ~InStore(store, p, c)
  BY <1>2 DEF Stored, Strangers, InStore
<1>4. ~(promised[p][c].val > 0)
  BY <1>1, <1>2, <1>3 DEF KeptInStore, KeptAway
<1>5. ~(promised'[p][c].val > seen'[p][c])
  <2>1. promised[p][c].val \in Nat /\ seen[p][c] \in Nat
    BY CarryTypes
  <2> QED
    BY <1>1, <1>4, <2>1
<1> QED
  BY <1>5 DEF CarriedTo, Carried

(* At the end of the walk everything is on its way. *)
LEMMA DoneCarries ==
  ASSUME Types, Stored, Resuming, host.pc = "restore", RestoreDone, NEW p \in Peers, host.peer = p,
         NEW c \in Chars
  PROVE  CarriedTo(p, c)
<1> DEFINE T == PlacesOf(store, p)
<1>0. store \in Seq(Recs) /\ host.idx \in Nat /\ host.idx > 0
  BY DEF Types, StoreTypes, SideTypes, GoodHost, Hosts, Stored, Returning
<1>1. {i \in T : Rank(T, i) = host.idx} = {} /\ T \subseteq Nat \ {0}
  <2>1. OfPeer(p, host.idx) = {}
    BY DEF RestoreDone
  <2> QED
    BY <1>0, <2>1, PeerRanks
<1>2. Resumes(p, store, host.idx)
  BY DEF Resuming
<1> HIDE DEF T
<1>3. \A i \in T : Rank(T, i) < host.idx
  BY <1>0, <1>1, RankGap
<1>4. CASE InStore(store, p, c)
  <2>1. PICK i \in T : store[i].chr = c
    BY <1>4 DEF InStore, PlacesOf, T
  <2> QED
    BY <1>2, <1>3, <2>1 DEF Resumes, T
<1>5. CASE ~InStore(store, p, c)
  <2>1. ~Wanted(p, c)
    BY <1>2, <1>5 DEF Resumes
  <2> QED
    BY <2>1 DEF Wanted, CarriedTo, Carried
<1> QED
  BY <1>4, <1>5

LEMMA NextCurrent ==
  ASSUME Preempt = FALSE, NoMem = FALSE, "one" \notin Calls, None \notin Recs, Types, Types', Alone,
         Stored, Sender, Links, Asked, KeptInStore, KeptAway, BondedHere, Noticed, Resuming, Current,
         [Next]_vars
  PROVE  Current'
<1> SUFFICES ASSUME NEW p \in Peers, NEW c \in Chars, conn'[p] = "up", ~Restoring(p)'
             PROVE  CarriedTo(p, c)'
  BY DEF Current
<1>1. CASE conn[p] # "up"
  <2>1. Connect(p)
    BY <1>1, LinkSteps
  <2> QED
    BY <2>1, ConnectCarries
<1>2. CASE conn[p] = "up" /\ Restoring(p)
  <2>1. ~Encrypt(p)
    <3>1. Encrypt(p) => host'.pc = "restore" /\ host'.peer = p
      BY DEF Encrypt, HostAt
    <3> QED
      BY <3>1 DEF Restoring
  <2>2. p \notin paired \ bonded
    BY <2>1, LinkSteps DEF Restoring
  <2>3. Comes(p) /\ ~Comes(p)'
    BY <1>2, <2>2 DEF Restoring, Comes
  <2>4. RestoreDone /\ host.peer = p /\ host.pc = "restore"
    BY <2>1, <2>3, ComesStays
  <2>5. CarriedTo(p, c)
    BY <2>4, DoneCarries
  <2>6. ~ChrUpdated /\ ~RestoreOne
    <3>1. ~ChrUpdated
      BY <2>4 DEF ChrUpdated, AppMayRun, HostFree
    <3>2. OfPeer(host.peer, host.idx) = {}
      BY <2>4 DEF RestoreDone
    <3>3. ~RestoreOne
      BY <3>2 DEF RestoreOne
    <3> QED
      BY <3>1, <3>3
  <2> QED
    BY <1>2, <2>5, <2>6, CarriesOn
<1>3. CASE conn[p] = "up" /\ ~Restoring(p)
  <2>1. CarriedTo(p, c)
    BY <1>3 DEF Current
  <2>2. CASE ChrUpdated
    BY <1>3, <2>2, UpdateCarries
  <2>3. CASE RestoreOne
    <3>1. PICK q \in Peers, d \in Chars :
            /\ CarriedTo(q, d)'
            /\ \A r \in Peers, e \in Chars : ~(r = q /\ e = d) => (CarriedTo(r, e) => CarriedTo(r, e)')
      BY <2>3, RestoreBrings, ZenonT(40)
    <3>2. CASE p = q /\ c = d
      BY <3>1, <3>2
    <3>3. CASE ~(p = q /\ c = d)
      BY <2>1, <3>1, <3>3
    <3> QED
      BY <3>2, <3>3
  <2>4. CASE ~ChrUpdated /\ ~RestoreOne
    BY <1>3, <2>1, <2>4, CarriesOn
  <2> QED
    BY <2>2, <2>3, <2>4
<1> QED
  BY <1>1, <1>2, <1>3

(* What is needed of the sending side, and of what is promised *)
OnItsWay == Sender /\ Links /\ Asked /\ Current
KeptForIt == KeptInStore /\ KeptAway /\ BondedHere /\ Noticed /\ Walking /\ InRecord /\ Resuming

LEMMA InitOnItsWay == Init => OnItsWay /\ KeptForIt
<1> SUFFICES ASSUME Init PROVE OnItsWay /\ KeptForIt
  OBVIOUS
<1>1. /\ \A a \in Actors : send[a].pc = "idle"
      /\ host.pc = "idle" /\ host.peer = None /\ host.rec = None /\ app.pc = "idle"
      /\ "host" \in Actors /\ "app" \in Actors
  BY DEF Init, HostAt, AppAt, NoSend, Actors
<1>2. /\ \A p \in Peers : air[p] = <<>> /\ back[p] = <<>> /\ txq[p] = <<>> /\ ~busy[p] /\ conn[p] = "down"
      /\ \A p \in Peers, c \in Chars : promised[p][c] = NoPromise /\ seen[p][c] = 0
      /\ \A c \in Chars : value[c] = 0
      /\ bonded = {}
  BY DEF Init
<1>3. NoPromise.val = 0 /\ ~NoPromise.kept
  BY DEF NoPromise
<1>4. Sender
  BY <1>1, <1>2 DEF Sender, Busy
<1>5. Links
  BY <1>2 DEF Links, Ordered
<1>6. Asked
  BY <1>2 DEF Asked, ToSet
<1>7. Current /\ BondedHere
  BY <1>2 DEF Current, BondedHere
<1>8. KeptInStore /\ KeptAway /\ Noticed
  BY <1>2, <1>3 DEF KeptInStore, KeptAway, Noticed
<1>9. Walking /\ InRecord /\ Resuming
  BY <1>1 DEF Walking, Working, InRecord, Resuming
<1> QED
  BY <1>4, <1>5, <1>6, <1>7, <1>8, <1>9 DEF OnItsWay, KeptForIt

(* With, besides, buffers for every message and values that are sent to      *)
(* everybody only: what ble_gatts_chr_updated() promised to a subscriber is  *)
(* marked, being sent or in the air while it is connected, and is remembered *)
(* in its record while it is away, over any number of confirmations,         *)
(* subscriptions, bonds, disconnections and restores.                        *)
THEOREM PromisesAreKept ==
  ASSUME Preempt = FALSE, CarefulPeer, NoMem = FALSE, "one" \notin Calls, None \notin Recs
  PROVE  Spec => []NoUpdateLost
<1> DEFINE IInv == Types /\ Noted /\ Evens /\ Stored /\ OnItsWay /\ KeptForIt
<1>1. Init => IInv
  <2>1. Init => Noted
    BY AppTypes DEF Init, Noted, HasProcedure, AppAt
  <2> QED
    BY <2>1, InitTypes, InitEvens, InitStored, InitOnItsWay
<1>2. IInv /\ [Next]_vars => IInv'
  <2> SUFFICES ASSUME IInv, [Next]_vars PROVE IInv'
    OBVIOUS
  <2>1. Types' /\ Noted' /\ Evens' /\ Stored'
    BY NextTypes, NextNoted, NextEvens, NextStored
  <2>2. Alone
    BY DEF Evens
  <2>3. Sender' /\ Links' /\ Asked' /\ Current'
    BY <2>1, <2>2, NextSender, NextLinks, NextAsked, NextCurrent DEF OnItsWay, KeptForIt
  <2>4. /\ KeptInStore' /\ KeptAway' /\ BondedHere' /\ Noticed' /\ Walking' /\ InRecord' /\ Resuming'
    BY <2>1, NextKeptInStore, NextKeptAway, NextBondedHere, NextNoticed, NextWalking, NextInRecord,
       NextResuming DEF OnItsWay, KeptForIt
  <2> QED
    BY <2>1, <2>3, <2>4 DEF OnItsWay, KeptForIt
<1>3. IInv => NoUpdateLost
  <2> SUFFICES ASSUME Current, Noticed, NEW p \in Peers, NEW c \in Chars, Wanted(p, c)
               PROVE  IF conn[p] = "up" /\ ~Restoring(p) THEN Pending(p, c)
                      ELSE promised[p][c].kept => Remembered(p, c)
    BY DEF NoUpdateLost, Wanted, OnItsWay, KeptForIt
  <2>1. CASE conn[p] = "up" /\ ~Restoring(p)
    <3>1. \/ cccd[p][c].mod \/ SendingTo(p, c)
          \/ \E m \in ToSet(air[p]) : m.chr = c /\ m.val >= promised[p][c].val
      BY <2>1 DEF Current, CarriedTo, Carried, Wanted
    <3> QED
      BY <2>1, <3>1 DEF Pending, SendingTo, Actors
  <2>2. CASE ~(conn[p] = "up" /\ ~Restoring(p))
    <3> SUFFICES ASSUME promised[p][c].kept PROVE Remembered(p, c)
      BY <2>2
    <3>1. ChangedIn(store, p, c) \/ (Working /\ app.chr = c)
      BY DEF Noticed
    <3> QED
      BY <3>1 DEF ChangedIn, Remembered, Working, ToSet
  <2> QED
    BY <2>1, <2>2
<1> QED
  BY <1>1, <1>2, <1>3, PTL DEF Spec
=============================================================================
