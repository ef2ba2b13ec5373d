------------------------- MODULE NimBLEServerProofs -------------------------
(***************************************************************************)
(* Theorems about NimBLEServer, for any set of services, any finite number *)
(* of connections and any bounds.                                          *)
(*                                                                         *)
(* GattIsStable needs no invariant: the guards of the host keep it.        *)
(* PeersAreLinks is inductive by itself; the work is in the pigeonhole of  *)
(* m_connectedPeers, which always has a slot for a new connection.         *)
(* TypeCorrect bounds the handles by the queue that was registered.        *)
(*                                                                         *)
(* The others are about an application that runs in callbacks of the host  *)
(* task (Parallel = FALSE).  DataIsLoaded needs to know what the flag      *)
(* m_advDataSet says at each point of NimBLEAdvertising::start().          *)
(* RemovedIsInvisible and ServicesAreServed relate the vector of services, *)
(* the queue and the database across a rebuild (DbInv, Complete).          *)
(***************************************************************************)
EXTENDS NimBLEServer, FiniteSetTheorems, WellFoundedInduction, TLAPS

-----------------------------------------------------------------------------
(* Lists of services *)

(* A nonempty set of naturals has a least element. *)
LEMMA LeastNat ==
  ASSUME NEW S, S \subseteq Nat, S # {}
  PROVE  \E i \in S : \A k \in 1..(i - 1) : k \notin S
<1>1. PICK i \in S : \A y \in S : <<y, i>> \notin OpToRel(<, Nat)
  BY WFMin, NatLessThanWellFounded
<1>2. \A y \in S : ~(y < i)
  BY <1>1 DEF OpToRel
<1> QED
  BY <1>2

(* What is taken from a list: each service that the list has and the set     *)
(* wants, and none twice that the list has once.  Both that the recursion  *)
(* is defined and what it yields are by induction on the places: a least   *)
(* counterexample is refuted.                                              *)
LEMMA ThoseOfList ==
  ASSUME NEW S, NEW list \in Seq(S), NEW K
  PROVE  /\ Those(list, K) \in Seq(S)
         /\ ToSet(Those(list, K)) = ToSet(list) \cap K
         /\ IsInjective(list) => IsInjective(Those(list, K))
<1> DEFINE L == Len(list)
           Kept(f, n) == IF n = 0 THEN <<>>
                          ELSE IF list[n] \in K THEN Append(f[n - 1], list[n]) ELSE f[n - 1]
           those == CHOOSE f : f = [n \in 0..L |-> Kept(f, n)]
           Upto(n) == {list[i] : i \in 1..n}
<1>0. L \in Nat /\ \A i \in 1..L : list[i] \in S
  OBVIOUS
<1>1. \E f : f = [n \in 0..L |-> Kept(f, n)]
  <2> DEFINE Flat(f, n) == f \in [0..n -> Seq(S)] /\ \A i \in 0..n : f[i] = Kept(f, i)
             Bad == {n \in 0..L : ~ \E f : Flat(f, n)}
  <2>1. Bad = {}
    <3> SUFFICES ASSUME Bad # {} PROVE FALSE
      BY Zenon
    <3>1. PICK n \in Bad : \A k \in 1..(n - 1) : k \notin Bad
      <4>1. Bad \subseteq Nat
        BY <1>0
      <4> HIDE DEF Bad
      <4> QED
        BY <4>1, LeastNat
    <3>2. n \in 0..L /\ ~ \E f : Flat(f, n)
      BY <3>1, Zenon
    <3> DEFINE zero == [i \in 0..0 |-> <<>>]
    <3>3. Flat(zero, 0)
      <4>1. \A i \in 0..0 : i = 0
        OBVIOUS
      <4>2. zero \in [0..0 -> Seq(S)]
        OBVIOUS
      <4>3. \A i \in 0..0 : zero[i] = Kept(zero, i)
        BY <4>1
      <4> QED
        BY <4>2, <4>3
    <3>4. n # 0
      <4> HIDE DEF zero, Flat
      <4> QED
        BY <3>2, <3>3
    <3>5. PICK f : Flat(f, n - 1)
      <4>1. n - 1 \in 0..L /\ (n - 1 = 0 \/ n - 1 \in 1..(n - 1))
        BY <1>0, <3>2, <3>4
      <4>2. n - 1 \in Bad => n - 1 = 0
        <5> HIDE DEF Bad
        <5> QED
          BY <3>1, <4>1
      <4>3. n - 1 \notin Bad
        <5>1. CASE n - 1 = 0
          <6> HIDE DEF zero, Flat
          <6> QED
            BY <3>3, <5>1
        <5> QED
          BY <4>2, <5>1
      <4> QED
        BY <4>1, <4>3, Zenon
    <3>6. f \in [0..(n - 1) -> Seq(S)] /\ \A i \in 0..(n - 1) : f[i] = Kept(f, i)
      BY <3>5, Zenon
    <3> DEFINE more == IF list[n] \in K THEN Append(f[n - 1], list[n]) ELSE f[n - 1]
               g == [i \in 0..n |-> IF i = n THEN more ELSE f[i]]
    <3>7. n \in 1..L /\ n - 1 \in 0..(n - 1)
      BY <1>0, <3>2, <3>4
    <3>8. more \in Seq(S)
      <4>1. f[n - 1] \in Seq(S) /\ list[n] \in S
        BY <1>0, <3>6, <3>7
      <4> QED
        BY <4>1
    <3>9. g \in [0..n -> Seq(S)]
      <4> HIDE DEF more
      <4> QED
        BY <3>2, <3>6, <3>8
    <3>10. ASSUME NEW i \in 0..n PROVE g[i] = Kept(g, i)
      <4>1. CASE i = n
        <5>1. g[i - 1] = f[i - 1] /\ g[i] = more
          BY <3>7, <4>1
        <5> QED
          BY <3>4, <4>1, <5>1
      <4>2. CASE i # n
        <5>1. i \in 0..(n - 1) /\ g[i] = f[i]
          BY <3>7, <4>2
        <5>2. i # 0 => g[i - 1] = f[i - 1]
          BY <3>7, <4>2
        <5> QED
          BY <3>6, <5>1, <5>2
      <4> QED
        BY <4>1, <4>2
    <3>11. Flat(g, n)
      BY <3>9, <3>10, Zenon
    <3> HIDE DEF g, Flat
    <3> QED
      BY <3>2, <3>11
  <2>2. PICK f : Flat(f, L)
    <3>1. L \in 0..L
      BY <1>0
    <3> QED
      BY <2>1, <3>1, Zenon
  <2>3. f = [n \in 0..L |-> Kept(f, n)]
    BY <2>2
  <2> QED
    BY <2>3
<1>2. those = [n \in 0..L |-> Kept(those, n)]
  BY <1>1, Zenon
<1>3. Those(list, K) = those[L]
  BY DEF Those
<1> HIDE DEF those
<1> DEFINE Good(n) == /\ those[n] \in Seq(S)
                      /\ ToSet(those[n]) = Upto(n) \cap K
                      /\ IsInjective(list) => IsInjective(those[n])
           Bad == {n \in 0..L : ~Good(n)}
<1>4. Good(0)
  <2>1. those[0] = <<>>
    BY <1>0, <1>2
  <2>2. Upto(0) = {}
    OBVIOUS
  <2> QED
    BY <2>1, <2>2 DEF ToSet, IsInjective
<1>5. ASSUME NEW n \in 1..L, Good(n - 1) PROVE Good(n)
  <2> DEFINE old == those[n - 1]
  <2>1. those[n] = IF list[n] \in K THEN Append(old, list[n]) ELSE old
    <3>1. n \in 0..L /\ n # 0
      BY <1>0
    <3> QED
      BY <1>2, <3>1
  <2>2. Upto(n) = Upto(n - 1) \cup {list[n]}
    <3>1. \A i : i \in 1..n <=> i \in 1..(n - 1) \/ i = n
      BY <1>0
    <3> QED
      BY <3>1
  <2>3. IsInjective(list) => list[n] \notin Upto(n - 1)
    BY <1>0 DEF IsInjective
  <2>4. old \in Seq(S) /\ ToSet(old) = Upto(n - 1) \cap K /\ (IsInjective(list) => IsInjective(old))
    BY <1>5
  <2>5. list[n] \in S
    BY <1>0
  <2> HIDE DEF old, Upto
  <2>6. CASE list[n] \in K
    <3> DEFINE new == Append(old, list[n])
    <3>1. /\ new \in Seq(S) /\ Len(new) = Len(old) + 1 /\ Len(old) \in Nat
          /\ \A i \in 1..Len(old) : new[i] = old[i]
          /\ new[Len(old) + 1] = list[n]
      BY <2>4, <2>5
    <3>2. DOMAIN new = 1..(Len(old) + 1) /\ DOMAIN old = 1..Len(old)
      BY <2>4, <3>1
    <3> HIDE DEF new
    <3>3. ToSet(new) = ToSet(old) \cup {list[n]}
      BY <3>1, <3>2 DEF ToSet
    <3>4. IsInjective(list) => IsInjective(new)
      <4> SUFFICES ASSUME IsInjective(list), NEW i \in 1..(Len(old) + 1),
                          NEW j \in 1..(Len(old) + 1), new[i] = new[j]
                   PROVE  i = j
        BY <3>2 DEF IsInjective
      <4>1. \A k \in 1..Len(old) : old[k] # list[n]
        BY <2>3, <2>4, <3>2 DEF ToSet
      <4> QED
        BY <2>4, <3>1, <3>2, <4>1 DEF IsInjective
    <3> QED
      BY <2>1, <2>2, <2>4, <2>6, <3>1, <3>3, <3>4 DEF new
  <2>7. CASE list[n] \notin K
    BY <2>1, <2>2, <2>4, <2>7 DEF old
  <2> QED
    BY <2>6, <2>7
<1>6. Good(L)
  <2> SUFFICES ASSUME Bad # {} PROVE FALSE
    <3>1. L \in 0..L
      BY <1>0
    <3> HIDE DEF Good
    <3> QED
      BY <3>1
  <2>1. PICK n \in Bad : \A k \in 1..(n - 1) : k \notin Bad
    <3>1. Bad \subseteq Nat
      BY <1>0
    <3> HIDE DEF Bad
    <3> QED
      BY <3>1, LeastNat
  <2> HIDE DEF Good
  <2>2. n \in 0..L /\ ~Good(n) /\ n # 0
    BY <1>4, <2>1
  <2>3. n \in 1..L /\ n - 1 \in 0..L /\ (n - 1 = 0 \/ n - 1 \in 1..(n - 1))
    BY <1>0, <2>2
  <2>4. Good(n - 1)
    BY <1>4, <2>1, <2>3
  <2> QED
    BY <1>5, <2>2, <2>3, <2>4
<1>7. Upto(L) = ToSet(list)
  BY DEF ToSet
<1> QED
  BY <1>3, <1>6, <1>7

-----------------------------------------------------------------------------
(* The database *)

(* The two places where the host writes its database are guarded by          *)
(* ble_gatts_mutable(), which sees every connection.                       *)
LEMMA WritesAreGuarded ==
  ASSUME Next, db' # db PROVE Mutable
<1>1. CASE \E p \in Procs : GattsStart(p)
  BY <1>1 DEF GattsStart, attVars
<1>2. CASE ResetGatts
  BY <1>2 DEF ResetGatts
<1>3. CASE ResetServices
  BY <1>3 DEF ResetServices
<1>4. CASE ResetStop
  BY <1>4 DEF ResetStop, attVars
<1>5. CASE \E p \in Procs : ServerStarted(p) \/ AdvData(p) \/ AdvStart(p)
  BY <1>5 DEF ServerStarted, AdvData, AdvStart, attVars
<1>6. CASE AfterDisconnect \/ OnHostSync
  BY <1>6 DEF AfterDisconnect, OnHostSync, attVars
<1>7. CASE AppCall
  BY <1>7 DEF AppCall, createService, ServiceStart, deleteRemovedService, addService,
              removeService, startAdvertising, stopAdvertising, Scan, attVars
<1>8. CASE HostEvent
  BY <1>8 DEF HostEvent, ConnComplete, OnConnect, OnConnectFailed, ConnBroken,
              AdvExpired, ResetBegin, HostSync, attVars
<1>9. CASE UNCHANGED vars
  BY <1>9 DEF vars, attVars
<1> QED
  BY <1>1, <1>2, <1>3, <1>4, <1>5, <1>6, <1>7, <1>8, <1>9
  DEF Next, AppStep, HostStep, AdvertisingStep, Procs

(* Nothing is registered or unregistered under a connected client.           *)
THEOREM GattIsStable == Spec => GattStable
<1>1. [Next]_vars => [(\E c \in Conns : links[c] # "free") => db' = db]_vars
  BY WritesAreGuarded DEF Mutable, vars, attVars
<1> QED
  BY <1>1, PTL DEF Spec, GattStable

-----------------------------------------------------------------------------
(* The peer slots *)

(* What the slots and the links look like; that they agree. *)
SlotTypes == peers \in [Slots -> Conns \cup {None}]
             /\ links \in [Conns -> {"free", "pending", "up", "failed"}]

SlotInv == SlotTypes /\ PeersMatchLinks

(* If some slot is free, the connection goes into one that was free, and     *)
(* every other slot is left alone.                                         *)
LEMMA TakesOneFreeSlot ==
  ASSUME SlotTypes, NEW c \in Conns, \E i \in Slots : peers[i] = None
  PROVE  \E i \in Slots : peers[i] = None /\ TakeSlot(c) = [peers EXCEPT ![i] = c]
<1> DEFINE Free == {i \in Slots : peers[i] = None}
           First(j) == peers[j] = None /\ \A k \in 1..(j - 1) : peers[k] # None
<1>1. Slots \subseteq Nat
  BY DEF Slots
<1>2. PICK i \in Free : \A k \in 1..(i - 1) : k \notin Free
  <2>1. Free \subseteq Nat /\ Free # {}
    BY <1>1
  <2> QED
    BY <2>1, LeastNat
<1>3. Cardinality(Conns) \in Nat
  BY SizesAssumption, FS_CardinalityType
<1>4. \A k \in 1..(i - 1) : k \in Slots
  BY <1>1, <1>3 DEF Slots
<1>5. First(i)
  BY <1>2, <1>4
<1>6. (CHOOSE j \in Slots : First(j)) \in Slots /\ First(CHOOSE j \in Slots : First(j))
  BY <1>5
<1>7. TakeSlot(c) = [peers EXCEPT ![CHOOSE j \in Slots : First(j)] = c]
  BY <1>5, <1>6 DEF TakeSlot
<1> QED
  BY <1>6, <1>7

(* There are as many slots as connections, so one is free while a            *)
(* connection has none.                                                    *)
LEMMA SlotLeft ==
  ASSUME SlotInv, fault = "none", NEW c \in Conns, links[c] # "up"
  PROVE  \E i \in Slots : peers[i] = None
<1> SUFFICES ASSUME \A i \in Slots : peers[i] # None PROVE FALSE
  OBVIOUS
<1>1. Cardinality(Conns) \in Nat /\ IsFiniteSet(Conns)
  BY SizesAssumption, FS_CardinalityType
<1>2. IsFiniteSet(Slots) /\ Cardinality(Slots) = Cardinality(Conns)
  <2>1. /\ IsFiniteSet(1..Cardinality(Conns))
        /\ Cardinality(1..Cardinality(Conns)) =
             IF 1 > Cardinality(Conns) THEN 0 ELSE Cardinality(Conns) - 1 + 1
    BY <1>1, FS_Interval
  <2> QED
    BY <1>1, <2>1 DEF Slots
<1>3. /\ IsFiniteSet(Conns \ {c})
      /\ Cardinality(Conns \ {c}) = Cardinality(Conns) - 1
  BY <1>1, FS_RemoveElement
<1>4. peers \in [Slots -> Conns \ {c}]
  BY DEF SlotInv, SlotTypes, PeersMatchLinks
<1>5. \E i, j \in Slots : i # j /\ peers[i] = peers[j]
  <2>1. Cardinality(Conns \ {c}) < Cardinality(Slots)
    BY <1>1, <1>2, <1>3
  <2> QED
    BY <1>2, <1>3, <1>4, <2>1, FS_PigeonHole
<1> QED
  BY <1>5 DEF SlotInv, PeersMatchLinks

(* Only three steps write the slots, or the links in a way that matters.     *)
LEMMA SlotFrame ==
  ASSUME Next, ~(\E c \in Conns : ConnComplete(c) \/ OnConnect(c)
                                   \/ OnConnectFailed(c) \/ ConnBroken(c))
  PROVE  UNCHANGED <<peers, links>>
<1>1. CASE \E p \in Procs : AdvertisingStep(p)
  BY <1>1 DEF AdvertisingStep, GattsStart, ServerStarted, AdvData, AdvStart, airVars
<1>2. CASE ResetGatts \/ ResetServices \/ ResetStop
  BY <1>2 DEF ResetGatts, ResetServices, ResetStop, airVars
<1>3. CASE AfterDisconnect \/ OnHostSync
  BY <1>3 DEF AfterDisconnect, OnHostSync, airVars
<1>4. CASE AppCall
  BY <1>4 DEF AppCall, createService, ServiceStart, deleteRemovedService, addService,
              removeService, startAdvertising, stopAdvertising, Scan, airVars
<1>5. CASE AdvExpired \/ ResetBegin \/ HostSync
  BY <1>5 DEF AdvExpired, ResetBegin, HostSync, airVars
<1>6. CASE UNCHANGED vars
  BY <1>6 DEF vars, airVars
<1> QED
  BY <1>1, <1>2, <1>3, <1>4, <1>5, <1>6 DEF Next, AppStep, HostStep, HostEvent, Procs

LEMMA SlotInvInductive == SlotInv /\ [Next]_vars => SlotInv'
<1> SUFFICES ASSUME SlotInv, [Next]_vars PROVE SlotInv'
  OBVIOUS
<1> USE NoneNotConn
<1>1. ASSUME NEW c \in Conns, ConnComplete(c), fault = "none" PROVE SlotInv'
  BY <1>1 DEF ConnComplete, SlotInv, SlotTypes, PeersMatchLinks
<1>2. ASSUME NEW c \in Conns, OnConnect(c), fault = "none" PROVE SlotInv'
  <2>1. links[c] = "pending" /\ links' = [links EXCEPT ![c] = "up"] /\ peers' = TakeSlot(c)
    BY <1>2 DEF OnConnect
  <2>2. PICK i \in Slots : peers[i] = None /\ peers' = [peers EXCEPT ![i] = c]
    <3>1. \E j \in Slots : peers[j] = None
      BY <1>2, <2>1, SlotLeft
    <3> QED
      BY <2>1, <3>1, TakesOneFreeSlot DEF SlotInv
  <2> QED
    BY <1>2, <2>1, <2>2 DEF SlotInv, SlotTypes, PeersMatchLinks
<1>3. ASSUME NEW c \in Conns, OnConnectFailed(c), fault = "none" PROVE SlotInv'
  BY <1>3 DEF OnConnectFailed, SlotInv, SlotTypes, PeersMatchLinks
<1>4. ASSUME NEW c \in Conns, ConnBroken(c), fault = "none" PROVE SlotInv'
  <2>1. CASE links[c] = "pending"
    BY <1>4, <2>1 DEF ConnBroken, SlotInv, SlotTypes, PeersMatchLinks
  <2>2. CASE links[c] # "pending"
    BY <1>4, <2>2 DEF ConnBroken, FreeSlot, SlotInv, SlotTypes, PeersMatchLinks
  <2> QED
    BY <2>1, <2>2
<1>5. ASSUME fault = "none", UNCHANGED <<peers, links>> PROVE SlotInv'
  BY <1>5 DEF SlotInv, SlotTypes, PeersMatchLinks
<1>6. CASE UNCHANGED vars
  BY <1>6 DEF vars, airVars, SlotInv, SlotTypes, PeersMatchLinks
<1> QED
  BY <1>1, <1>2, <1>3, <1>4, <1>5, <1>6, SlotFrame DEF Next

(* m_connectedPeers holds exactly the connections the server was told of,    *)
(* each once, however many connections there are.                          *)
THEOREM PeersAreLinks == Spec => []PeersMatchLinks
<1>1. Init => SlotInv
  BY NoneNotConn DEF Init, SlotInv, SlotTypes, PeersMatchLinks
<1>2. SlotInv => PeersMatchLinks
  BY DEF SlotInv
<1> QED
  BY <1>1, <1>2, SlotInvInductive, PTL DEF Spec

-----------------------------------------------------------------------------
(* Types *)

(* TypeOK bounds the handles by the length that the database has when it is  *)
(* registered: that of the queue.                                          *)
Types == TypeOK /\ Len(db) <= MaxQueue

LEMMA EmptyList == <<>> \in Seq(Services) /\ Len(<<>>) = 0 /\ DOMAIN <<>> = {}
  OBVIOUS

LEMMA ListAppended ==
  ASSUME NEW list \in Seq(Services), NEW s \in Services
  PROVE  /\ Append(list, s) \in Seq(Services)
         /\ Len(Append(list, s)) = Len(list) + 1
  OBVIOUS

(* The service is found where the database has it. *)
LEMMA FoundInDatabase ==
  ASSUME NEW s, NEW d \in Seq(Services), db = d, s \in ToSet(db)
  PROVE  FindSvc(s) \in DOMAIN db /\ db[FindSvc(s)] = s
<1> DEFINE At == {i \in DOMAIN db : db[i] = s}
<1>1. At \subseteq Nat /\ At # {}
  BY DEF ToSet
<1>2. PICK i \in At : \A k \in 1..(i - 1) : k \notin At
  <2> HIDE DEF At
  <2> QED
    BY <1>1, LeastNat
<1>3. i \in 1..Len(db) /\ Len(db) \in Nat /\ DOMAIN db = 1..Len(db)
  BY <1>2
<1>4. \A k \in 1..(i - 1) : db[k] # s
  <2>1. \A k \in 1..(i - 1) : k \in DOMAIN db
    BY <1>3
  <2> QED
    BY <1>2, <2>1
<1>5. \E j \in DOMAIN db : db[j] = s /\ \A k \in 1..(j - 1) : db[k] # s
  BY <1>2, <1>4
<1> HIDE DEF At
<1> QED
  BY <1>5, Zenon DEF FindSvc

(* start() by either task *)
LEMMA StartKeepsTypes ==
  ASSUME Types, NEW p \in Procs, AdvertisingStep(p)
  PROVE  Types'
<1> USE SizesAssumption DEF Types, TypeOK, Go
<1>1. CASE GattsStart(p)
  <2>1. /\ queue' \in Seq(Services) /\ Len(queue') <= MaxQueue
        /\ db' \in Seq(Services) /\ Len(db') <= MaxQueue
        /\ hidden' \subseteq DOMAIN db' /\ entries' \in 0..MaxQueue
        /\ {entriesFreed'} \subseteq BOOLEAN
    <3>1. CASE Mutable /\ db = <<>> /\ GattsRegister
      <4>1. queue' = <<>> /\ db' = queue /\ hidden' = {} /\ entries' = Len(queue)
        BY <3>1 DEF GattsRegister
      <4>2. Len(queue) \in 0..MaxQueue
        OBVIOUS
      <4>3. {entriesFreed'} \subseteq BOOLEAN
        BY <3>1 DEF GattsRegister
      <4> QED
        BY <4>1, <4>2, <4>3, EmptyList
    <3>2. CASE UNCHANGED attVars
      BY <3>2 DEF attVars
    <3>3. CASE queue' = <<>> /\ entriesFreed' = TRUE /\ UNCHANGED <<db, hidden, entries>>
      BY <3>3, EmptyList
    <3> QED
      BY <1>1, <3>1, <3>2, <3>3 DEF GattsStart
  <2>2. pc' \in [Procs -> {"idle", "gatts", "handles", "advData", "advStart", "advFlag",
                           "advSync", "resetStop", "resetGatts", "resetSvcs", "callback"}]
        /\ fault' \in {"none", "abort", "memory"}
    BY <1>1 DEF GattsStart, Procs
  <2> QED
    BY <1>1, <2>1, <2>2 DEF GattsStart, serverVars, airVars, resetVars, advVars
<1>2. CASE ServerStarted(p)
  <2>1. CASE entriesFreed
    BY <1>2, <2>1 DEF ServerStarted, attVars, airVars, resetVars, advVars
  <2>2. CASE ~entriesFreed
    <3>1. \A s \in ToSet(db) : FindSvc(s) \in 0..MaxQueue
      <4> SUFFICES ASSUME NEW s \in ToSet(db) PROVE FindSvc(s) \in 0..MaxQueue
        OBVIOUS
      <4>1. FindSvc(s) \in DOMAIN db
        BY FoundInDatabase
      <4> QED
        BY <4>1
    <3>2. handle' \in [Services -> 0..MaxQueue]
      BY <1>2, <2>2, <3>1 DEF ServerStarted
    <3> QED
      BY <1>2, <2>2, <3>2 DEF ServerStarted, attVars, airVars, resetVars, advVars
  <2> QED
    BY <2>1, <2>2
<1>3. CASE AdvData(p)
  BY <1>3 DEF AdvData, serverVars, attVars, airVars, resetVars
<1>4. CASE AdvStart(p)
  BY <1>4 DEF AdvStart, serverVars, attVars, resetVars
<1> QED
  BY <1>1, <1>2, <1>3, <1>4 DEF AdvertisingStep

(* The application's calls *)
LEMMA CallsKeepTypes ==
  ASSUME Types, AppCall
  PROVE  Types'
<1> USE SizesAssumption DEF Types, TypeOK, Go
<1>1. ASSUME NEW s \in Services, createService(s) \/ addService(s) PROVE Types'
  <2>1. vec' \in Seq(Services) /\ removed' \in [Services -> 0..2]
        /\ handle' \in [Services -> 0..MaxQueue] /\ built' \subseteq Services
    <3>1. \/ vec' = vec /\ handle' = handle /\ built' = built
          \/ /\ vec' = Append(vec, s)
             /\ handle' = [handle EXCEPT ![s] = 0]
             /\ built' = built \ {s}
      BY <1>1 DEF createService, addService
    <3>2. removed' = removed \/ removed' = [removed EXCEPT ![s] = 0]
      BY <1>1 DEF createService, addService
    <3>3. Append(vec, s) \in Seq(Services)
      BY ListAppended
    <3>4. [handle EXCEPT ![s] = 0] \in [Services -> 0..MaxQueue]
          /\ [removed EXCEPT ![s] = 0] \in [Services -> 0..2]
      OBVIOUS
    <3>5. CASE vec' = vec /\ handle' = handle /\ built' = built
      BY <3>2, <3>4, <3>5
    <3>6. CASE /\ vec' = Append(vec, s)
               /\ handle' = [handle EXCEPT ![s] = 0]
               /\ built' = built \ {s}
      BY <3>2, <3>3, <3>4, <3>6
    <3> QED
      BY <3>1, <3>5, <3>6
  <2>2. {svcChanged', gattsStarted'} \subseteq BOOLEAN
    BY <1>1 DEF createService, addService, serviceChanged
  <2> QED
    BY <1>1, <2>1, <2>2
    DEF createService, addService, attVars, airVars, resetVars, taskVars, advVars
<1>2. ASSUME NEW s \in Services, ServiceStart(s) PROVE Types'
  BY <1>2 DEF ServiceStart, airVars, resetVars, advVars, taskVars
<1>3. ASSUME NEW s \in Services, deleteRemovedService(s) PROVE Types'
  BY <1>3, ThoseOfList DEF deleteRemovedService, attVars, airVars, resetVars, advVars, taskVars
<1>4. ASSUME NEW s \in Services, NEW d \in BOOLEAN, removeService(s, d) PROVE Types'
  <2>1. removed' \in [Services -> 0..2] /\ hidden' \subseteq DOMAIN db
        /\ fault' \in {"none", "abort", "memory"}
    <3>1. \/ removed' = removed
          \/ removed' = [removed EXCEPT ![s] = IF d THEN 2 ELSE 1]
      BY <1>4 DEF removeService, Hide
    <3>2. hidden' = hidden \/ hidden' = hidden \cup ({handle[s]} \cap DOMAIN db)
      BY <1>4 DEF removeService, Hide
    <3>3. fault' = fault \/ fault' = "memory"
      BY <1>4 DEF removeService, Hide
    <3>4. removed' \in [Services -> 0..2]
      <4>1. (IF d THEN 2 ELSE 1) \in 0..2
        OBVIOUS
      <4>2. removed \in [Services -> 0..2]
        OBVIOUS
      <4> HIDE DEF Types
      <4> QED
        BY <3>1, <4>1, <4>2
    <3>5. hidden' \subseteq DOMAIN db
      BY <3>2
    <3> QED
      BY <3>3, <3>4, <3>5
  <2>2. {svcChanged', advDataSet'} \subseteq BOOLEAN
    BY <1>4 DEF removeService, Hide, serviceChanged
  <2> QED
    BY <1>4, <2>1, <2>2 DEF removeService, airVars, resetVars, taskVars
<1>5. ASSUME NEW d \in {"forever", "timed"}, startAdvertising(d) PROVE Types'
  BY <1>5 DEF startAdvertising, EnterStart, serverVars, attVars, airVars, resetVars, advVars,
              Procs
<1>6. CASE stopAdvertising \/ Scan
  BY <1>6 DEF stopAdvertising, Scan, serverVars, attVars, resetVars, taskVars, advVars
<1> QED
  BY <1>1, <1>2, <1>3, <1>4, <1>5, <1>6 DEF AppCall

(* The handlers of the host task that have begun *)
LEMMA HandlersKeepTypes ==
  ASSUME Types,
         ResetStop \/ ResetGatts \/ ResetServices \/ AfterDisconnect \/ OnHostSync
  PROVE  Types'
<1> USE SizesAssumption DEF Types, TypeOK, Go, Procs
<1>1. CASE ResetStop
  BY <1>1 DEF ResetStop, serverVars, attVars, resetVars, advVars
<1>2. CASE ResetGatts
  <2>1. db' \in Seq(Services) /\ Len(db') <= MaxQueue /\ hidden' \subseteq DOMAIN db'
    <3>1. (db' = <<>> /\ hidden' = {}) \/ (db' = db /\ hidden' = hidden)
      BY <1>2 DEF ResetGatts
    <3>2. CASE db' = <<>> /\ hidden' = {}
      BY <3>2, EmptyList
    <3>3. CASE db' = db /\ hidden' = hidden
      BY <3>3
    <3> QED
      BY <3>1, <3>2, <3>3
  <2> QED
    BY <1>2, <2>1 DEF ResetGatts, serverVars, airVars, resetVars, advVars
<1>3. CASE ResetServices
  <2>1. Requeue \in Seq(Services) /\ vec' \in Seq(Services)
    BY <1>3, ThoseOfList DEF ResetServices, Requeue
  <2>2. queue' \in Seq(Services) /\ Len(queue') <= MaxQueue
    BY <1>3, <2>1 DEF ResetServices
  <2>3. built' \subseteq Services /\ removed' \in [Services -> 0..2]
    BY <1>3, <2>1 DEF ResetServices, ToSet
  <2> QED
    BY <1>3, <2>1, <2>2, <2>3 DEF ResetServices, airVars, resetVars, advVars
<1>4. CASE AfterDisconnect
  BY <1>4 DEF AfterDisconnect, EnterStart, serverVars, attVars, airVars, resetVars, advVars
<1>5. CASE OnHostSync
  BY <1>5 DEF OnHostSync, EnterStart, serverVars, attVars, airVars, resetVars
<1> QED
  BY <1>1, <1>2, <1>3, <1>4, <1>5

(* New events of the host task; the slots are those of SlotInv. *)
LEMMA EventsKeepTypes ==
  ASSUME Types, SlotTypes', HostEvent
  PROVE  Types'
<1> USE SizesAssumption DEF Types, TypeOK, SlotTypes, Go, Procs
<1>1. ASSUME NEW c \in Conns, ConnComplete(c) \/ OnConnect(c) PROVE Types'
  BY <1>1 DEF ConnComplete, OnConnect, serverVars, attVars, resetVars, taskVars, advVars
<1>2. ASSUME NEW c \in Conns, OnConnectFailed(c) PROVE Types'
  BY <1>2 DEF OnConnectFailed, EnterStart, serverVars, attVars, resetVars, advVars
<1>3. ASSUME NEW c \in Conns, ConnBroken(c) PROVE Types'
  BY <1>3 DEF ConnBroken, AfterSlot, serverVars, attVars, advVars
<1>4. CASE AdvExpired \/ ResetBegin
  <2>1. resets' \in 0..MaxResets
    BY <1>4 DEF AdvExpired, ResetBegin, resetVars
  <2>2. {adv', hostUp', advAtReset', synced', scanning'} \subseteq BOOLEAN
    BY <1>4 DEF AdvExpired, ResetBegin, airVars, resetVars
  <2> QED
    BY <1>4, <2>1, <2>2
    DEF AdvExpired, ResetBegin, serverVars, attVars, airVars, taskVars, advVars
<1>5. CASE HostSync
  BY <1>5 DEF HostSync, serverVars, attVars
<1> QED
  BY <1>1, <1>2, <1>3, <1>4, <1>5 DEF HostEvent

LEMMA TypesInductive == Types /\ SlotInv /\ [Next]_vars => Types'
<1> SUFFICES ASSUME Types, SlotInv, [Next]_vars PROVE Types'
  OBVIOUS
<1>1. SlotTypes'
  BY SlotInvInductive DEF SlotInv
<1>2. CASE \E p \in Procs : AdvertisingStep(p)
  BY <1>2, StartKeepsTypes
<1>3. CASE AppCall
  BY <1>3, CallsKeepTypes
<1>4. CASE HostEvent
  BY <1>1, <1>4, EventsKeepTypes
<1>5. CASE UNCHANGED vars
  BY <1>5 DEF vars, serverVars, attVars, airVars, resetVars, taskVars, advVars, Types, TypeOK
<1> QED
  BY <1>2, <1>3, <1>4, <1>5, HandlersKeepTypes DEF Next, AppStep, HostStep, Procs

LEMMA InitTypes == Init => Types /\ SlotInv
<1> SUFFICES ASSUME Init PROVE Types /\ SlotInv
  OBVIOUS
<1> USE SizesAssumption DEF Init
<1>1. SlotInv
  BY NoneNotConn DEF SlotInv, SlotTypes, PeersMatchLinks
<1>2. /\ vec \in Seq(Services) /\ queue \in Seq(Services) /\ db \in Seq(Services)
      /\ Len(queue) <= MaxQueue /\ Len(db) <= MaxQueue /\ hidden \subseteq DOMAIN db
  <2>1. vec = <<>> /\ queue = <<>> /\ db = <<>> /\ hidden = {}
    OBVIOUS
  <2> QED
    BY <2>1, EmptyList
<1>3. /\ pc \in [Procs -> {"idle", "gatts", "handles", "advData", "advStart", "advFlag",
                           "advSync", "resetStop", "resetGatts", "resetSvcs", "callback"}]
      /\ dur \in [Procs -> {"forever", "timed"}]
  OBVIOUS
<1>4. /\ removed \in [Services -> 0..2] /\ handle \in [Services -> 0..MaxQueue]
      /\ entries \in 0..MaxQueue /\ resets \in 0..MaxResets
  OBVIOUS
<1>5. /\ built \subseteq Services /\ duration \in {"forever", "timed"}
      /\ fault \in {"none", "abort", "memory"}
      /\ {gattsStarted, svcChanged, synced, entriesFreed, adv, scanning, hostUp, advAtReset,
          advDataSet, ctrlData} \subseteq BOOLEAN
  OBVIOUS
<1> QED
  BY <1>1, <1>2, <1>3, <1>4, <1>5 DEF Types, TypeOK, SlotInv, SlotTypes

(* Every variable keeps to its values, for any services, connections and     *)
(* bounds and in any interleaving; handles stay within the entry table.    *)
THEOREM TypeCorrect == Spec => []TypeOK
<1>1. Types /\ SlotInv /\ [Next]_vars => (Types /\ SlotInv)'
  BY TypesInductive, SlotInvInductive
<1>2. Types => TypeOK
  BY DEF Types
<1> QED
  BY <1>1, <1>2, InitTypes, PTL DEF Spec

-----------------------------------------------------------------------------
(* Advertising data *)

(* A task in the middle of start() keeps the other out; the flag promises    *)
(* data in the controller, except from the sync of the host to the moment  *)
(* onHostSync() clears it; start() enables advertising with data only.     *)
DataInv ==
  /\ pc \in [Procs -> {"idle", "gatts", "handles", "advData", "advStart", "advFlag",
                       "advSync", "resetStop", "resetGatts", "resetSvcs", "callback"}]
  /\ pc["app"] = "idle" \/ pc["host"] = "idle"
  /\ pc["app"] # "advSync"
  /\ advDataSet /\ pc["host"] # "advSync" => ctrlData
  /\ \A p \in Procs : pc[p] \in {"advStart", "advFlag"} => ctrlData
  /\ AdvDataLoaded

(* start() by either task *)
LEMMA StartKeepsData ==
  ASSUME ~Parallel, DataInv, NEW p \in Procs, AdvertisingStep(p),
         p = "app" => pc["host"] = "idle"
  PROVE  DataInv'
<1> USE DEF Procs, Go
<1>1. CASE GattsStart(p)
  BY <1>1 DEF GattsStart, DataInv, AdvDataLoaded, airVars, resetVars, advVars
<1>2. CASE ServerStarted(p)
  BY <1>2 DEF ServerStarted, DataInv, AdvDataLoaded, airVars, resetVars, advVars
<1>3. CASE AdvData(p)
  BY <1>3 DEF AdvData, DataInv, AdvDataLoaded, airVars, resetVars
<1>4. CASE AdvStart(p)
  BY <1>4 DEF AdvStart, DataInv, AdvDataLoaded, resetVars
<1> QED
  BY <1>1, <1>2, <1>3, <1>4 DEF AdvertisingStep

(* The application's calls *)
LEMMA CallsKeepData ==
  ASSUME ~Parallel, DataInv, AppCall
  PROVE  DataInv'
<1> USE DEF Procs, Go
<1>1. ASSUME NEW s \in Services,
             createService(s) \/ ServiceStart(s) \/ deleteRemovedService(s) \/ addService(s)
      PROVE  DataInv'
  BY <1>1 DEF createService, ServiceStart, deleteRemovedService, addService, DataInv,
              AdvDataLoaded, airVars, resetVars, advVars, taskVars
<1>2. ASSUME NEW s \in Services, NEW d \in BOOLEAN, removeService(s, d)
      PROVE  DataInv'
  BY <1>2 DEF removeService, Hide, DataInv, AdvDataLoaded, airVars, resetVars, taskVars
<1>3. ASSUME NEW d, startAdvertising(d) PROVE DataInv'
  BY <1>3 DEF startAdvertising, EnterStart, AppRuns, DataInv, AdvDataLoaded, airVars,
              resetVars, advVars
<1>4. CASE stopAdvertising \/ Scan
  BY <1>4 DEF stopAdvertising, Scan, DataInv, AdvDataLoaded, resetVars, taskVars, advVars
<1> QED
  BY <1>1, <1>2, <1>3, <1>4 DEF AppCall

(* The handlers of the host task that have begun *)
LEMMA HandlersKeepData ==
  ASSUME ~Parallel, DataInv,
         ResetStop \/ ResetGatts \/ ResetServices \/ AfterDisconnect \/ OnHostSync
  PROVE  DataInv'
<1> USE DEF Procs, Go
<1>1. CASE ResetStop
  BY <1>1 DEF ResetStop, DataInv, AdvDataLoaded, resetVars, advVars
<1>2. CASE ResetGatts
  BY <1>2 DEF ResetGatts, DataInv, AdvDataLoaded, airVars, resetVars, advVars
<1>3. CASE ResetServices
  BY <1>3 DEF ResetServices, DataInv, AdvDataLoaded, airVars, resetVars, advVars
<1>4. CASE AfterDisconnect
  BY <1>4 DEF AfterDisconnect, EnterStart, DataInv, AdvDataLoaded, airVars, resetVars, advVars
<1>5. CASE OnHostSync
  BY <1>5 DEF OnHostSync, EnterStart, DataInv, AdvDataLoaded, airVars, resetVars
<1> QED
  BY <1>1, <1>2, <1>3, <1>4, <1>5

(* New events of the host task *)
LEMMA EventsKeepData ==
  ASSUME ~Parallel, DataInv, HostEvent
  PROVE  DataInv'
<1> USE DEF Procs, Go, HostRuns
<1>1. ASSUME NEW c \in Conns, ConnComplete(c) \/ OnConnect(c) PROVE DataInv'
  BY <1>1 DEF ConnComplete, OnConnect, DataInv, AdvDataLoaded, resetVars, taskVars, advVars
<1>2. ASSUME NEW c \in Conns, OnConnectFailed(c) PROVE DataInv'
  BY <1>2 DEF OnConnectFailed, EnterStart, DataInv, AdvDataLoaded, resetVars, advVars
<1>3. ASSUME NEW c \in Conns, ConnBroken(c) PROVE DataInv'
  BY <1>3 DEF ConnBroken, AfterSlot, DataInv, AdvDataLoaded, advVars
<1>4. CASE AdvExpired \/ ResetBegin
  BY <1>4 DEF AdvExpired, ResetBegin, DataInv, AdvDataLoaded, airVars, resetVars, taskVars,
              advVars
<1>5. CASE HostSync
  BY <1>5 DEF HostSync, DataInv, AdvDataLoaded
<1> QED
  BY <1>1, <1>2, <1>3, <1>4, <1>5 DEF HostEvent

LEMMA DataInvInductive ==
  ASSUME ~Parallel PROVE DataInv /\ [Next]_vars => DataInv'
<1> SUFFICES ASSUME DataInv, [Next]_vars PROVE DataInv'
  OBVIOUS
<1>1. CASE AppStep
  <2>1. CASE AppCall
    BY <2>1, CallsKeepData
  <2>2. CASE pc["host"] = "idle" /\ AdvertisingStep("app")
    BY <2>2, StartKeepsData DEF Procs
  <2> QED
    BY <1>1, <2>1, <2>2 DEF AppStep
<1>2. CASE HostStep
  <2>1. CASE AdvertisingStep("host")
    BY <2>1, StartKeepsData DEF Procs
  <2> QED
    BY <1>2, <2>1, HandlersKeepData DEF HostStep
<1>3. CASE HostEvent
  BY <1>3, EventsKeepData
<1>4. CASE UNCHANGED vars
  BY <1>4 DEF vars, airVars, resetVars, taskVars, advVars, DataInv, AdvDataLoaded
<1> QED
  BY <1>1, <1>2, <1>3, <1>4 DEF Next

(* An application that runs in callbacks never advertises without data, in   *)
(* any interleaving with host resets, removals and disconnections.         *)
THEOREM DataIsLoaded ==
  ASSUME ~Parallel PROVE Spec => []AdvDataLoaded
<1>1. Init => DataInv
  BY DEF Init, DataInv, AdvDataLoaded, Procs
<1>2. DataInv => AdvDataLoaded
  BY DEF DataInv
<1>3. DataInv /\ [Next]_vars => DataInv'
  BY DataInvInductive
<1> QED
  BY <1>1, <1>2, <1>3, PTL DEF Spec

-----------------------------------------------------------------------------
(* The services of an application that runs in callbacks of the host task    *)
(* (~Parallel) and removes and adds while the server runs (~EarlyEdits)    *)

Busy(where) == \E p \in Procs : pc[p] \in where

Resetting == {"resetStop", "resetGatts", "resetSvcs"}

(* A task in the middle of a call keeps the other out. *)
InTurn ==
  /\ pc["app"] = "idle" \/ pc["host"] = "idle"
  /\ pc["app"] \notin Resetting \cup {"advSync", "callback"}

(* The vector has a service once; what is not in it is not marked; what was  *)
(* never started is not marked either, because it has no handle.           *)
Objects ==
  /\ IsInjective(vec)
  /\ \A s \in Services : s \notin ToSet(vec) => removed[s] = 0
  /\ \A s \in ToSet(vec) \ built : removed[s] = 0 /\ handle[s] = 0

(* What is queued is to be served; nothing is once the server was started    *)
(* or anything may be on the air.                                          *)
Queued ==
  /\ IsInjective(queue)
  /\ ToSet(queue) \subseteq Served \cap built
  /\ gattsStarted \/ adv \/ (\E c \in Conns : links[c] # "free")
     \/ Busy({"handles", "advData", "advStart", "advFlag"} \cup Resetting)
       => queue = <<>>

(* Without a started server the database is empty, and while it runs every   *)
(* visible place is that of a service that is served under that handle.    *)
Registered ==
  /\ IsInjective(db)
  /\ ~gattsStarted /\ ~Busy({"handles"}) => db = <<>>
  /\ Busy({"resetSvcs"}) => db = <<>>
  /\ Busy({"gatts", "handles"}) => ~gattsStarted
  /\ Busy(Resetting) => svcChanged
  /\ Busy({"handles"}) => ToSet(db) \subseteq Served \cap built /\ hidden = {}
  /\ ~Busy({"handles"}) =>
       \A i \in DOMAIN db : i \in hidden \/ (db[i] \in Served /\ handle[db[i]] = i)

DbInv == InTurn /\ Objects /\ Queued /\ Registered

LEMMA ListGrows ==
  ASSUME NEW list \in Seq(Services), NEW s \in Services
  PROVE  /\ ToSet(Append(list, s)) = ToSet(list) \cup {s}
         /\ IsInjective(list) /\ s \notin ToSet(list) => IsInjective(Append(list, s))
<1> DEFINE new == Append(list, s)
<1>1. /\ new \in Seq(Services) /\ Len(new) = Len(list) + 1 /\ Len(list) \in Nat
      /\ \A i \in 1..Len(list) : new[i] = list[i]
      /\ new[Len(list) + 1] = s
  OBVIOUS
<1>2. DOMAIN new = 1..(Len(list) + 1) /\ DOMAIN list = 1..Len(list)
  BY <1>1
<1> HIDE DEF new
<1>3. ToSet(new) = ToSet(list) \cup {s}
  BY <1>1, <1>2 DEF ToSet
<1>4. ASSUME IsInjective(list), s \notin ToSet(list) PROVE IsInjective(new)
  <2> SUFFICES ASSUME NEW i \in 1..(Len(list) + 1), NEW j \in 1..(Len(list) + 1), new[i] = new[j]
               PROVE  i = j
    BY <1>2 DEF IsInjective
  <2>1. \A k \in 1..Len(list) : list[k] # s
    BY <1>2, <1>4 DEF ToSet
  <2> QED
    BY <1>1, <1>2, <1>4, <2>1 DEF IsInjective
<1> QED
  BY <1>3, <1>4 DEF new

(* A step that leaves the objects, the queue and the database alone keeps    *)
(* the invariant if it keeps the turns, starts nothing on the air with      *)
(* services queued, and goes where it may.                                 *)
LEMMA AirKeepsDb ==
  ASSUME DbInv, InTurn', UNCHANGED <<serverVars, attVars>>,
         adv' \/ (\E c \in Conns : links'[c] # "free")
           \/ Busy({"handles", "advData", "advStart", "advFlag"} \cup Resetting)'
         => queue = <<>>,
         Busy({"handles"})' <=> Busy({"handles"}),
         Busy({"resetSvcs"})' => Busy({"resetSvcs"}),
         Busy({"gatts"})' => ~gattsStarted,
         Busy(Resetting)' => svcChanged
  PROVE  DbInv'
<1>1. Objects'
  BY DEF DbInv, Objects, serverVars
<1>2. Queued'
  BY DEF DbInv, Queued, Served, serverVars, attVars
<1>3. Registered'
  <2>1. Busy({"gatts", "handles"})' <=> Busy({"gatts"})' \/ Busy({"handles"})'
    BY DEF Busy
  <2>2. Busy({"gatts", "handles"}) <=> Busy({"gatts"}) \/ Busy({"handles"})
    BY DEF Busy
  <2> QED
    BY <2>1, <2>2 DEF DbInv, Registered, Served, serverVars, attVars
<1> QED
  BY <1>1, <1>2, <1>3 DEF DbInv

(* Where the tasks are when the one whose turn it is goes on *)
LEMMA TurnGoes ==
  ASSUME Types, NEW p \in Procs, NEW w, \A o \in Procs : o # p => pc[o] = "idle",
         pc' = [pc EXCEPT ![p] = w],
         p = "app" => w \notin Resetting \cup {"advSync", "callback"}
  PROVE  /\ InTurn'
         /\ \A W : "idle" \notin W =>
              (Busy(W)' <=> w \in W) /\ (Busy(W) <=> pc[p] \in W)
<1> USE DEF Procs
<1>1. pc \in [Procs -> {"idle", "gatts", "handles", "advData", "advStart", "advFlag",
                        "advSync", "resetStop", "resetGatts", "resetSvcs", "callback"}]
  BY DEF Types, TypeOK
<1>2. pc'[p] = w /\ \A o \in Procs : o # p => pc'[o] = "idle"
  BY <1>1
<1>3. InTurn'
  BY <1>2 DEF InTurn, Resetting
<1>4. ASSUME NEW W, "idle" \notin W
      PROVE  (Busy(W)' <=> w \in W) /\ (Busy(W) <=> pc[p] \in W)
  BY <1>2, <1>4 DEF Busy
<1> QED
  BY <1>3, <1>4

(* start() is entered, by a task that was between calls or at its end *)
LEMMA EnterKeepsDb ==
  ASSUME Types, DbInv, NEW p \in Procs, \A o \in Procs : o # p => pc[o] = "idle",
         pc[p] \in {"idle", "callback", "advSync"}, NEW d, EnterStart(p, d),
         UNCHANGED <<serverVars, attVars>>,
         adv' \/ (\E c \in Conns : links'[c] # "free") => queue = <<>>
  PROVE  DbInv'
<1> DEFINE w == IF ~synced \/ adv THEN "idle" ELSE IF gattsStarted THEN "advData" ELSE "gatts"
<1>1. pc' = [pc EXCEPT ![p] = w] /\ w \in {"idle", "advData", "gatts"}
      /\ (w = "advData" => gattsStarted) /\ (w = "gatts" => ~gattsStarted)
  BY DEF EnterStart, Go
<1> HIDE DEF w
<1>2. /\ InTurn'
      /\ \A W : "idle" \notin W => (Busy(W)' <=> w \in W) /\ (Busy(W) <=> pc[p] \in W)
  BY <1>1, TurnGoes DEF Resetting
<1>3. ~Busy({"handles"})' /\ ~Busy({"handles"}) /\ ~Busy({"resetSvcs"})' /\ ~Busy(Resetting)'
  BY <1>1, <1>2 DEF Resetting
<1>4. Busy({"gatts"})' => ~gattsStarted
  BY <1>1, <1>2
<1>5. Busy({"handles", "advData", "advStart", "advFlag"} \cup Resetting)' => queue = <<>>
  <2>1. "idle" \notin {"handles", "advData", "advStart", "advFlag"} \cup Resetting
    BY DEF Resetting
  <2>2. w \in {"handles", "advData", "advStart", "advFlag"} \cup Resetting => gattsStarted
    BY <1>1 DEF Resetting
  <2> QED
    BY <1>2, <2>1, <2>2 DEF DbInv, Queued
<1> QED
  BY <1>2, <1>3, <1>4, <1>5, AirKeepsDb

(* The server starts over an empty database, and gives out the handles.      *)
LEMMA GattsStartKeepsDb ==
  ASSUME Types, DbInv, NEW p \in Procs, \A o \in Procs : o # p => pc[o] = "idle",
         GattsStart(p)
  PROVE  DbInv'
<1>1. pc[p] = "gatts" /\ UNCHANGED serverVars
  BY DEF GattsStart
<1>2. \A W : "idle" \notin W => (Busy(W) <=> pc[p] \in W)
  BY DEF Busy
<1>3. ~gattsStarted /\ db = <<>>
  <2>1. Busy({"gatts", "handles"}) /\ ~Busy({"handles"})
    BY <1>1, <1>2
  <2> QED
    BY <2>1 DEF DbInv, Registered
<1>4. IsInjective(<<>>) /\ ToSet(<<>>) = {} /\ DOMAIN <<>> = {}
  BY DEF IsInjective, ToSet
<1>5. Objects'
  BY <1>1 DEF DbInv, Objects, serverVars
<1>6. PICK w \in {"handles", "advData"} :
        /\ pc' = [pc EXCEPT ![p] = w] /\ queue' = <<>>
        /\ w = "handles" => db' = queue /\ hidden' = {}
        /\ w = "advData" => db' = db
  <2>1. CASE Mutable /\ GattsRegister /\ Go(p, "handles")
    BY <2>1 DEF GattsRegister, Go
  <2>2. CASE queue' = <<>> /\ Go(p, "advData") /\ UNCHANGED db
    BY <2>2 DEF Go
  <2> QED
    BY <1>3, <2>1, <2>2 DEF GattsStart
<1>7. /\ InTurn'
      /\ \A W : "idle" \notin W => (Busy(W)' <=> w \in W)
  BY <1>6, TurnGoes DEF Resetting
<1>8. Queued'
  BY <1>4, <1>6 DEF Queued
<1>9. Registered'
  <2>1. ~Busy({"resetSvcs"})' /\ ~Busy(Resetting)' /\ (Busy({"handles"})' <=> w = "handles")
    BY <1>6, <1>7 DEF Resetting
  <2>2. gattsStarted' = gattsStarted /\ Served' = Served /\ built' = built
    BY <1>1 DEF serverVars, Served
  <2>3. CASE w = "handles"
    BY <1>3, <1>6, <2>1, <2>2, <2>3 DEF DbInv, Queued, Registered
  <2>4. CASE w = "advData"
    BY <1>3, <1>4, <1>6, <2>1, <2>2, <2>4 DEF Registered
  <2> QED
    BY <1>6, <2>3, <2>4
<1> QED
  BY <1>5, <1>7, <1>8, <1>9 DEF DbInv

LEMMA ServerStartedKeepsDb ==
  ASSUME Types, DbInv, NEW p \in Procs, \A o \in Procs : o # p => pc[o] = "idle",
         ServerStarted(p)
  PROVE  DbInv'
<1>1. pc[p] = "handles" /\ UNCHANGED <<vec, removed, built, attVars>>
  BY DEF ServerStarted
<1>2. \A W : "idle" \notin W => (Busy(W) <=> pc[p] \in W)
  BY DEF Busy
<1>3. /\ ~gattsStarted /\ queue = <<>> /\ IsInjective(db)
      /\ ToSet(db) \subseteq Served \cap built /\ hidden = {}
  <2>1. Busy({"gatts", "handles"}) /\ Busy({"handles"})
        /\ Busy({"handles", "advData", "advStart", "advFlag"} \cup Resetting)
    BY <1>1, <1>2 DEF Resetting
  <2> QED
    BY <2>1 DEF DbInv, Registered, Queued
<1>4. CASE entriesFreed
  <2>1. UNCHANGED <<serverVars, attVars, airVars, pc>>
    BY <1>4 DEF ServerStarted, serverVars
  <2> QED
    BY <2>1 DEF DbInv, InTurn, Objects, Queued, Registered, Served, Busy, serverVars, attVars,
                airVars
<1>5. CASE ~entriesFreed
  <2>1. /\ handle' = [s \in Services |->
                       IF s \in Served \cap ToSet(db) THEN FindSvc(s) ELSE handle[s]]
        /\ gattsStarted' = TRUE /\ pc' = [pc EXCEPT ![p] = "advData"]
    BY <1>5 DEF ServerStarted, Go
  <2>2. /\ InTurn'
        /\ \A W : "idle" \notin W => (Busy(W)' <=> "advData" \in W)
    BY <2>1, TurnGoes DEF Resetting
  <2>3. Objects'
    <3>1. ASSUME NEW s \in ToSet(vec) \ built PROVE handle'[s] = handle[s]
      <4>1. s \in Services
        BY DEF ToSet, Types, TypeOK
      <4> QED
        BY <1>3, <2>1, <4>1
    <3> QED
      BY <1>1, <3>1 DEF DbInv, Objects
  <2>4. Queued'
    BY <1>1, <1>3 DEF DbInv, Queued, Served, attVars
  <2>5. Registered'
    <3>1. ~Busy({"resetSvcs"})' /\ ~Busy(Resetting)' /\ ~Busy({"handles"})'
          /\ ~Busy({"gatts", "handles"})'
      BY <2>2 DEF Resetting
    <3>2. ASSUME NEW i \in DOMAIN db PROVE db[i] \in Served /\ handle'[db[i]] = i
      <4>1. db[i] \in ToSet(db) /\ db[i] \in Services
        BY DEF ToSet, Types, TypeOK
      <4>2. FindSvc(db[i]) \in DOMAIN db /\ db[FindSvc(db[i])] = db[i]
        BY <4>1, FoundInDatabase DEF Types, TypeOK
      <4>3. FindSvc(db[i]) = i
        BY <1>3, <4>2 DEF IsInjective
      <4> QED
        BY <1>3, <2>1, <4>1, <4>3
    <3>3. Served' = Served /\ db' = db /\ hidden' = hidden
      BY <1>1 DEF Served, attVars
    <3> QED
      BY <1>3, <2>1, <3>1, <3>2, <3>3 DEF Registered
  <2> QED
    BY <2>2, <2>3, <2>4, <2>5 DEF DbInv
<1> QED
  BY <1>4, <1>5

(* start() by either task *)
LEMMA StartKeepsDb ==
  ASSUME Types, DbInv, NEW p \in Procs, \A o \in Procs : o # p => pc[o] = "idle",
         AdvertisingStep(p)
  PROVE  DbInv'
<1>1. ASSUME AdvData(p) \/ AdvStart(p) PROVE DbInv'
  <2>1. PICK w \in {"idle", "advStart", "advFlag"} : pc' = [pc EXCEPT ![p] = w]
    BY <1>1 DEF AdvData, AdvStart, Go
  <2>2. /\ InTurn'
        /\ \A W : "idle" \notin W => (Busy(W)' <=> w \in W) /\ (Busy(W) <=> pc[p] \in W)
    BY <2>1, TurnGoes DEF Resetting
  <2>3. pc[p] \in {"advData", "advStart", "advFlag"} /\ UNCHANGED <<serverVars, attVars>>
    BY <1>1 DEF AdvData, AdvStart
  <2>4. queue = <<>>
    <3>1. Busy({"handles", "advData", "advStart", "advFlag"} \cup Resetting)
      BY <2>2, <2>3 DEF Resetting
    <3> QED
      BY <3>1 DEF DbInv, Queued
  <2>5. ~Busy({"handles"})' /\ ~Busy({"handles"}) /\ ~Busy({"resetSvcs"})'
        /\ ~Busy({"gatts"})' /\ ~Busy(Resetting)'
    BY <2>2, <2>3 DEF Resetting
  <2> QED
    BY <2>2, <2>3, <2>4, <2>5, AirKeepsDb
<1> QED
  BY <1>1, GattsStartKeepsDb, ServerStartedKeepsDb DEF AdvertisingStep

(* A place that is visible is that of a service served under it. *)
Visible == \A i \in DOMAIN db : i \in hidden \/ (db[i] \in Served /\ handle[db[i]] = i)

(* An edit is made with nothing under way. *)
LEMMA EditsKeepDb ==
  ASSUME DbInv, \A p \in Procs : pc[p] = "idle", UNCHANGED <<pc, airVars, gattsStarted, db>>,
         Objects', Visible',
         IsInjective(queue'), ToSet(queue') \subseteq (Served \cap built)',
         queue' # queue => ~gattsStarted /\ Mutable
  PROVE  DbInv'
<1>1. InTurn' /\ \A W : "idle" \notin W => ~Busy(W) /\ ~Busy(W)'
  BY DEF InTurn, Busy, Procs, Resetting
<1>2. Queued'
  <2>1. ~Busy({"handles", "advData", "advStart", "advFlag"} \cup Resetting)'
    BY <1>1 DEF Resetting
  <2> QED
    BY <2>1 DEF DbInv, Queued, Mutable, airVars
<1>3. Registered'
  <2>1. /\ ~Busy({"handles"}) /\ ~Busy({"handles"})' /\ ~Busy({"resetSvcs"})'
        /\ ~Busy({"gatts", "handles"})' /\ ~Busy(Resetting)'
    BY <1>1 DEF Resetting
  <2> QED
    BY <2>1 DEF DbInv, Registered, Visible
<1> QED
  BY <1>1, <1>2, <1>3 DEF DbInv

(* With nothing under way the visible places are those of the served. *)
LEMMA VisibleWhenQuiet ==
  ASSUME DbInv, \A p \in Procs : pc[p] = "idle"
  PROVE  Visible
<1>1. ~Busy({"handles"})
  BY DEF Busy
<1> QED
  BY <1>1 DEF DbInv, Registered, Visible

(* A service comes into the vector, for the first time or again.             *)
LEMMA NewServiceKeepsDb ==
  ASSUME Types, DbInv, \A p \in Procs : pc[p] = "idle",
         NEW s \in Services, s \notin ToSet(vec),
         vec' = Append(vec, s), handle' = [handle EXCEPT ![s] = 0], built' = built \ {s},
         removed' = [removed EXCEPT ![s] = 0] \/ removed' = removed,
         UNCHANGED <<pc, airVars, gattsStarted, attVars>>
  PROVE  DbInv'
<1>1. removed[s] = 0 /\ removed' = removed
  BY DEF DbInv, Objects, Types, TypeOK
<1>2. ToSet(vec') = ToSet(vec) \cup {s} /\ IsInjective(vec')
  BY ListGrows DEF DbInv, Objects, Types, TypeOK
<1>3. Served' = Served \cup {s}
  BY <1>1, <1>2 DEF Served
<1>4. \A o \in Services : handle'[o] = IF o = s THEN 0 ELSE handle[o]
  BY DEF Types, TypeOK
<1>5. ToSet(vec) \subseteq Services
  BY DEF ToSet, Types, TypeOK
<1>6. Objects'
  BY <1>1, <1>2, <1>4, <1>5 DEF DbInv, Objects
<1>7. Visible'
  <2> SUFFICES ASSUME NEW i \in DOMAIN db, i \notin hidden
               PROVE  db[i] \in Served' /\ handle'[db[i]] = i
    BY DEF Visible, attVars
  <2>1. db[i] \in Served /\ handle[db[i]] = i
    BY VisibleWhenQuiet DEF Visible
  <2>2. db[i] # s /\ db[i] \in Services
    BY <1>5, <2>1 DEF Served
  <2> QED
    BY <1>3, <1>4, <2>1, <2>2
<1>8. ToSet(queue) \subseteq (Served \cap built)'
  <2>1. ToSet(queue) \subseteq Served \cap built
    BY DEF DbInv, Queued
  <2>2. s \notin ToSet(queue)
    BY <2>1 DEF Served
  <2> QED
    BY <1>3, <2>1, <2>2
<1> QED
  BY <1>6, <1>7, <1>8, EditsKeepDb DEF DbInv, Queued, Registered, attVars

(* A service is queued: for the first time, with the server not yet started. *)
LEMMA ServiceStartKeepsDb ==
  ASSUME Types, DbInv, \A p \in Procs : pc[p] = "idle", ~EarlyEdits,
         NEW s \in Services, ServiceStart(s)
  PROVE  DbInv'
<1>1. /\ s \in ToSet(vec) \ built /\ ~gattsStarted /\ Mutable
      /\ built' = built \cup {s} /\ queue' = Append(queue, s)
      /\ UNCHANGED <<vec, removed, handle, gattsStarted, db, hidden, airVars, pc>>
  BY DEF ServiceStart, taskVars
<1>2. removed[s] = 0 /\ s \in Served
  BY <1>1 DEF DbInv, Objects, Served
<1>3. ToSet(queue) \subseteq Served \cap built /\ IsInjective(queue)
  BY DEF DbInv, Queued
<1>4. ToSet(queue') = ToSet(queue) \cup {s} /\ IsInjective(queue')
  BY <1>1, <1>3, ListGrows DEF Types, TypeOK
<1>5. Served' = Served
  BY <1>1 DEF Served
<1>6. Objects'
  BY <1>1 DEF DbInv, Objects
<1>7. Visible'
  BY <1>1, <1>5, VisibleWhenQuiet DEF Visible
<1>8. ToSet(queue') \subseteq (Served \cap built)'
  BY <1>1, <1>2, <1>3, <1>4, <1>5
<1> QED
  BY <1>1, <1>4, <1>6, <1>7, <1>8, EditsKeepDb

(* A service is hidden under the handle it has: its only visible place.      *)
LEMMA RemoveKeepsDb ==
  ASSUME Types, DbInv, \A p \in Procs : pc[p] = "idle", ~EarlyEdits,
         NEW s \in Services, NEW d \in BOOLEAN, removeService(s, d)
  PROVE  DbInv'
<1>1. /\ gattsStarted /\ s \in ToSet(vec) /\ removed[s] = 0
      /\ UNCHANGED <<vec, handle, built, gattsStarted, queue, db, airVars, pc>>
  BY DEF removeService, taskVars
<1>2. CASE removed' = removed /\ hidden' = hidden
  <2>1. Served' = Served
    BY <1>1, <1>2 DEF Served
  <2>2. Objects' /\ Visible'
    BY <1>1, <1>2, <2>1, VisibleWhenQuiet DEF DbInv, Objects, Visible
  <2> QED
    BY <1>1, <2>1, <2>2, EditsKeepDb DEF DbInv, Queued
<1>3. ASSUME NEW kind \in {1, 2}, handle[s] \in 1..entries,
             removed' = [removed EXCEPT ![s] = kind],
             hidden' = hidden \cup ({handle[s]} \cap DOMAIN db)
      PROVE  DbInv'
  <2>1. \A o \in Services : removed'[o] = IF o = s THEN kind ELSE removed[o]
    BY <1>3 DEF Types, TypeOK
  <2>2. ToSet(vec) \subseteq Services
    BY DEF ToSet, Types, TypeOK
  <2>3. Served' = Served \ {s}
    BY <1>1, <1>3, <2>1, <2>2 DEF Served
  <2>4. s \in built
    <3>1. handle[s] # 0
      BY <1>3 DEF Types, TypeOK
    <3> QED
      BY <1>1, <3>1 DEF DbInv, Objects
  <2>5. Objects'
    BY <1>1, <2>1, <2>2, <2>4 DEF DbInv, Objects
  <2>6. Visible'
    <3> SUFFICES ASSUME NEW i \in DOMAIN db, i \notin hidden'
                 PROVE  db[i] \in Served' /\ handle[db[i]] = i
      BY <1>1 DEF Visible
    <3>1. i \notin hidden /\ i # handle[s]
      BY <1>3
    <3>2. db[i] \in Served /\ handle[db[i]] = i
      BY <3>1, VisibleWhenQuiet DEF Visible
    <3> QED
      BY <2>3, <3>1, <3>2
  <2>7. queue = <<>>
    BY <1>1 DEF DbInv, Queued
  <2>8. IsInjective(queue') /\ ToSet(queue') \subseteq (Served \cap built)'
    BY <1>1, <2>7 DEF IsInjective, ToSet
  <2> QED
    BY <1>1, <2>5, <2>6, <2>8, EditsKeepDb
<1> QED
  BY <1>2, <1>3 DEF removeService, Hide

(* A removed service is deleted, or comes back: it is in no visible place.   *)
LEMMA RemovedKeepsDb ==
  ASSUME Types, DbInv, \A p \in Procs : pc[p] = "idle",
         NEW s \in Services, removed[s] > 0, removed' = [removed EXCEPT ![s] = 0],
         s \in ToSet(vec),
         vec' = vec \/ vec' = Those(vec, Services \ {s}),
         UNCHANGED <<handle, built, gattsStarted, attVars, airVars, pc>>
  PROVE  DbInv'
<1>1. \A o \in Services : removed'[o] = IF o = s THEN 0 ELSE removed[o]
  BY DEF Types, TypeOK
<1>2. ToSet(vec) \subseteq Services
  BY DEF ToSet, Types, TypeOK
<1>3. /\ IsInjective(vec')
      /\ ToSet(vec') = ToSet(vec) \/ ToSet(vec') = ToSet(vec) \ {s}
  <2>1. CASE vec' = vec
    BY <2>1 DEF DbInv, Objects
  <2>2. CASE vec' = Those(vec, Services \ {s})
    <3>1. /\ ToSet(vec') = ToSet(vec) \cap (Services \ {s})
          /\ IsInjective(vec) => IsInjective(vec')
      BY <2>2, ThoseOfList DEF Types, TypeOK
    <3> QED
      BY <1>2, <3>1 DEF DbInv, Objects
  <2> QED
    BY <2>1, <2>2
<1>4. removed[s] # 0 /\ s \in built /\ s \notin Served
  BY DEF DbInv, Objects, Served, Types, TypeOK
<1>5. Served \subseteq Served' /\ Served' \subseteq Served \cup {s}
  BY <1>1, <1>2, <1>3, <1>4 DEF Served
<1>6. Objects'
  BY <1>1, <1>2, <1>3, <1>4 DEF DbInv, Objects
<1>7. Visible'
  BY <1>5, VisibleWhenQuiet DEF Visible, attVars
<1>8. ToSet(queue) \subseteq (Served \cap built)'
  BY <1>5 DEF DbInv, Queued
<1> QED
  BY <1>6, <1>7, <1>8, EditsKeepDb DEF DbInv, Queued, attVars

LEMMA CallsKeepDb ==
  ASSUME Types, DbInv, ~Parallel, ~EarlyEdits, AppCall
  PROVE  DbInv'
<1>1. \A p \in Procs : pc[p] = "idle"
  BY DEF AppCall, createService, ServiceStart, deleteRemovedService, addService, removeService,
         startAdvertising, stopAdvertising, Scan, AppRuns, Procs
<1>2. ASSUME NEW s \in Services, createService(s) PROVE DbInv'
  BY <1>1, <1>2, NewServiceKeepsDb DEF createService, taskVars
<1>3. ASSUME NEW s \in Services, ServiceStart(s) PROVE DbInv'
  BY <1>1, <1>3, ServiceStartKeepsDb
<1>4. ASSUME NEW s \in Services, deleteRemovedService(s) PROVE DbInv'
  BY <1>1, <1>4, RemovedKeepsDb DEF deleteRemovedService, taskVars
<1>5. ASSUME NEW s \in Services, addService(s) PROVE DbInv'
  <2>1. CASE s \in ToSet(vec)
    BY <1>1, <1>5, <2>1, RemovedKeepsDb DEF addService, taskVars
  <2>2. CASE s \notin ToSet(vec)
    BY <1>1, <1>5, <2>2, NewServiceKeepsDb DEF addService, taskVars
  <2> QED
    BY <2>1, <2>2
<1>6. ASSUME NEW s \in Services, NEW d \in BOOLEAN, removeService(s, d) PROVE DbInv'
  BY <1>1, <1>6, RemoveKeepsDb
<1>7. ASSUME NEW d, startAdvertising(d) PROVE DbInv'
  <2>1. adv \/ (\E c \in Conns : links[c] # "free") => queue = <<>>
    BY DEF DbInv, Queued
  <2> QED
    BY <1>1, <1>7, <2>1, EnterKeepsDb DEF startAdvertising, airVars, Procs
<1>8. CASE stopAdvertising \/ Scan
  <2>1. UNCHANGED <<serverVars, attVars, links, pc>> /\ (adv' => adv)
    BY <1>8 DEF stopAdvertising, Scan, taskVars
  <2>2. InTurn' /\ \A W : "idle" \notin W => ~Busy(W) /\ ~Busy(W)'
    BY <1>1, <2>1 DEF InTurn, Busy, Procs, Resetting
  <2>3. ~Busy({"handles", "advData", "advStart", "advFlag"} \cup Resetting)'
    BY <2>2 DEF Resetting
  <2>4. ~Busy({"handles"})' /\ ~Busy({"handles"}) /\ ~Busy({"resetSvcs"})'
        /\ ~Busy({"gatts"})' /\ ~Busy(Resetting)'
    BY <2>2 DEF Resetting
  <2>5. adv' \/ (\E c \in Conns : links'[c] # "free") => queue = <<>>
    BY <2>1 DEF DbInv, Queued
  <2> QED
    BY <2>1, <2>2, <2>3, <2>4, <2>5, AirKeepsDb
<1> QED
  BY <1>2, <1>3, <1>4, <1>5, <1>6, <1>7, <1>8 DEF AppCall

(* resetGATT() in the host task: the database goes ... *)
LEMMA ResetGattsKeepsDb ==
  ASSUME Types, DbInv, ResetGatts
  PROVE  DbInv'
<1> USE DEF Procs
<1>1. pc["host"] = "resetGatts" /\ UNCHANGED <<serverVars, queue, airVars>>
  BY DEF ResetGatts
<1>2. \A o \in Procs : o # "host" => pc[o] = "idle"
  BY <1>1 DEF DbInv, InTurn
<1>3. \A W : "idle" \notin W => (Busy(W) <=> pc["host"] \in W)
  BY <1>2 DEF Busy
<1>4. queue = <<>> /\ svcChanged
  <2>1. Busy({"handles", "advData", "advStart", "advFlag"} \cup Resetting) /\ Busy(Resetting)
    BY <1>1, <1>3 DEF Resetting
  <2> QED
    BY <2>1 DEF DbInv, Queued, Registered
<1>5. Objects'
  BY <1>1 DEF DbInv, Objects, serverVars
<1>6. Queued'
  BY <1>1, <1>4 DEF DbInv, Queued, Served, serverVars
<1>7. CASE UNCHANGED <<db, hidden, pc>>
  BY <1>1, <1>5, <1>6, <1>7 DEF DbInv, InTurn, Registered, Served, Busy, serverVars
<1>8. CASE db' = <<>> /\ pc' = [pc EXCEPT !["host"] = "resetSvcs"]
  <2>1. InTurn' /\ \A W : "idle" \notin W => (Busy(W)' <=> "resetSvcs" \in W)
    BY <1>2, <1>8, TurnGoes
  <2>2. IsInjective(<<>>) /\ DOMAIN <<>> = {}
    BY DEF IsInjective
  <2>3. ~Busy({"handles"})' /\ ~Busy({"gatts", "handles"})'
    BY <2>1
  <2>4. Registered'
    BY <1>1, <1>4, <1>8, <2>2, <2>3 DEF Registered, serverVars
  <2> QED
    BY <1>5, <1>6, <2>1, <2>4 DEF DbInv
<1> QED
  BY <1>7, <1>8 DEF ResetGatts, Go

(* ... and what is to be served is queued again.                             *)
LEMMA ResetServicesKeepsDb ==
  ASSUME Types, DbInv, ResetServices
  PROVE  DbInv'
<1> USE DEF Procs
<1>1. pc["host"] = "resetSvcs" /\ pc' = [pc EXCEPT !["host"] = "callback"]
      /\ UNCHANGED <<handle, svcChanged, db, hidden, airVars>> /\ ~gattsStarted'
  BY DEF ResetServices, Go
<1>2. \A o \in Procs : o # "host" => pc[o] = "idle"
  BY <1>1 DEF DbInv, InTurn
<1>3. \A W : "idle" \notin W => (Busy(W) <=> pc["host"] \in W)
  BY <1>2 DEF Busy
<1>4. queue = <<>> /\ db = <<>> /\ svcChanged
  <2>1. Busy({"handles", "advData", "advStart", "advFlag"} \cup Resetting) /\ Busy(Resetting)
        /\ Busy({"resetSvcs"})
    BY <1>1, <1>3 DEF Resetting
  <2> QED
    BY <2>1 DEF DbInv, Queued, Registered
<1>5. InTurn' /\ \A W : "idle" \notin W => (Busy(W)' <=> "callback" \in W)
  BY <1>1, <1>2, TurnGoes
<1>6. ToSet(vec) \subseteq Services /\ vec \in Seq(Services)
  BY DEF ToSet, Types, TypeOK
<1>7. /\ Requeue \in Seq(Services) /\ IsInjective(Requeue)
      /\ ToSet(Requeue) = {s \in ToSet(vec) : removed[s] = 0}
  <2> DEFINE K == {s \in Services : removed[s] = 0 /\ (svcChanged \/ s \notin built)}
  <2>1. /\ Requeue \in Seq(Services) /\ ToSet(Requeue) = ToSet(vec) \cap K
        /\ IsInjective(vec) => IsInjective(Requeue)
    BY <1>6, ThoseOfList DEF Requeue
  <2> QED
    BY <1>4, <1>6, <2>1 DEF DbInv, Objects
<1>8. IsInjective(vec') /\ ToSet(vec') = {s \in ToSet(vec) : removed[s] # 2}
  <2>1. vec' = Those(vec, {s \in Services : removed[s] # 2})
    BY DEF ResetServices
  <2>2. /\ ToSet(vec') = ToSet(vec) \cap {s \in Services : removed[s] # 2}
        /\ IsInjective(vec) => IsInjective(vec')
    BY <1>6, <2>1, ThoseOfList
  <2> QED
    BY <1>6, <2>2 DEF DbInv, Objects
<1>9. \A s \in Services : removed'[s] = IF removed[s] = 2 THEN 0 ELSE removed[s]
  BY DEF ResetServices
<1>10. built' = (built \cup ToSet(Requeue)) \ {s \in Services : removed[s] = 2}
  BY DEF ResetServices
<1>11. ToSet(Requeue) \subseteq (Served \cap built)'
  BY <1>6, <1>7, <1>8, <1>9, <1>10 DEF Served
<1>12. Objects'
  BY <1>6, <1>7, <1>8, <1>9, <1>10, <1>1 DEF DbInv, Objects
<1>13. queue' = queue \/ queue' = Requeue
  BY <1>4, <1>7 DEF ResetServices
<1>14. IsInjective(<<>>) /\ ToSet(<<>>) = {} /\ DOMAIN <<>> = {}
  BY DEF IsInjective, ToSet
<1>15. Queued'
  <2>1. ~Busy({"handles", "advData", "advStart", "advFlag"} \cup Resetting)'
    BY <1>5 DEF Resetting
  <2>2. CASE queue' = <<>>
    BY <1>14, <2>2 DEF Queued
  <2>3. CASE queue' = Requeue /\ Mutable
    BY <1>1, <1>7, <1>11, <2>1, <2>3 DEF Queued, Mutable, airVars
  <2> QED
    BY <1>4, <1>7, <2>2, <2>3 DEF ResetServices
<1>16. Registered'
  <2>1. ~Busy({"handles"})' /\ ~Busy({"gatts", "handles"})' /\ ~Busy(Resetting)'
    BY <1>5 DEF Resetting
  <2> QED
    BY <1>1, <1>4, <1>14, <2>1 DEF Registered
<1> QED
  BY <1>5, <1>12, <1>15, <1>16 DEF DbInv

(* The other handlers of the host task that have begun *)
LEMMA HandlersKeepDb ==
  ASSUME Types, DbInv,
         ResetStop \/ ResetGatts \/ ResetServices \/ AfterDisconnect \/ OnHostSync
  PROVE  DbInv'
<1> USE DEF Procs
<1>0. pc["host"] # "idle" => \A o \in Procs : o # "host" => pc[o] = "idle"
  BY DEF DbInv, InTurn
<1>1. CASE ResetStop
  <2>1. /\ pc["host"] = "resetStop" /\ pc' = [pc EXCEPT !["host"] = "resetGatts"]
        /\ UNCHANGED <<serverVars, attVars>>
    BY <1>1 DEF ResetStop, Go
  <2>2. /\ InTurn'
        /\ \A W : "idle" \notin W =>
             (Busy(W)' <=> "resetGatts" \in W) /\ (Busy(W) <=> "resetStop" \in W)
    BY <1>0, <2>1, TurnGoes
  <2>3. queue = <<>> /\ svcChanged
    <3>1. Busy({"handles", "advData", "advStart", "advFlag"} \cup Resetting) /\ Busy(Resetting)
      BY <2>2 DEF Resetting
    <3> QED
      BY <3>1 DEF DbInv, Queued, Registered
  <2>4. ~Busy({"handles"})' /\ ~Busy({"handles"}) /\ ~Busy({"resetSvcs"})' /\ ~Busy({"gatts"})'
    BY <2>2
  <2> QED
    BY <2>1, <2>2, <2>3, <2>4, AirKeepsDb
<1>2. CASE AfterDisconnect
  <2>1. pc["host"] = "callback" /\ UNCHANGED <<serverVars, attVars, airVars>>
    BY <1>2 DEF AfterDisconnect
  <2>2. adv \/ (\E c \in Conns : links[c] # "free") => queue = <<>>
    BY DEF DbInv, Queued
  <2>3. CASE EnterStart("host", "forever")
    BY <1>0, <2>1, <2>2, <2>3, EnterKeepsDb DEF airVars
  <2>4. CASE Go("host", "idle")
    <3>1. pc' = [pc EXCEPT !["host"] = "idle"]
      BY <2>4 DEF Go
    <3>2. InTurn' /\ \A W : "idle" \notin W => ~Busy(W)' /\ (Busy(W) <=> "callback" \in W)
      BY <1>0, <2>1, <3>1, TurnGoes
    <3>3. ~Busy({"handles"})' /\ ~Busy({"handles"}) /\ ~Busy({"resetSvcs"})' /\ ~Busy({"gatts"})'
          /\ ~Busy(Resetting)' /\ ~Busy({"handles", "advData", "advStart", "advFlag"} \cup Resetting)'
      BY <3>2 DEF Resetting
    <3> QED
      BY <2>1, <2>2, <3>2, <3>3, AirKeepsDb DEF airVars
  <2> QED
    BY <1>2, <2>3, <2>4 DEF AfterDisconnect
<1>3. CASE OnHostSync
  <2>1. pc["host"] = "advSync" /\ UNCHANGED <<serverVars, attVars, airVars>>
    BY <1>3 DEF OnHostSync
  <2>2. adv \/ (\E c \in Conns : links[c] # "free") => queue = <<>>
    BY DEF DbInv, Queued
  <2>3. CASE EnterStart("host", "forever")
    BY <1>0, <2>1, <2>2, <2>3, EnterKeepsDb DEF airVars
  <2>4. CASE Go("host", "idle")
    <3>1. pc' = [pc EXCEPT !["host"] = "idle"]
      BY <2>4 DEF Go
    <3>2. InTurn' /\ \A W : "idle" \notin W => ~Busy(W)' /\ (Busy(W) <=> "advSync" \in W)
      BY <1>0, <2>1, <3>1, TurnGoes
    <3>3. ~Busy({"handles"})' /\ ~Busy({"handles"}) /\ ~Busy({"resetSvcs"})' /\ ~Busy({"gatts"})'
          /\ ~Busy(Resetting)' /\ ~Busy({"handles", "advData", "advStart", "advFlag"} \cup Resetting)'
      BY <3>2 DEF Resetting
    <3> QED
      BY <2>1, <2>2, <3>2, <3>3, AirKeepsDb DEF airVars
  <2> QED
    BY <1>3, <2>3, <2>4 DEF OnHostSync
<1> QED
  BY <1>1, <1>2, <1>3, ResetGattsKeepsDb, ResetServicesKeepsDb

(* New events of the host task *)
LEMMA EventsKeepDb ==
  ASSUME Types, DbInv, ~Parallel, HostEvent
  PROVE  DbInv'
<1> USE DEF Procs
<1>1. \A p \in Procs : pc[p] = "idle"
  BY DEF HostEvent, ConnComplete, OnConnect, OnConnectFailed, ConnBroken, AdvExpired, ResetBegin,
         HostSync, HostRuns
<1>2. adv \/ (\E c \in Conns : links[c] # "free") => queue = <<>>
  BY DEF DbInv, Queued
<1>3. UNCHANGED <<serverVars, attVars>>
  BY DEF HostEvent, ConnComplete, OnConnect, OnConnectFailed, ConnBroken, AdvExpired, ResetBegin,
         HostSync
<1>4. ASSUME NEW c \in Conns, OnConnectFailed(c) PROVE DbInv'
  <2>1. queue = <<>> /\ EnterStart("host", "forever")
    BY <1>2, <1>4 DEF OnConnectFailed
  <2> QED
    BY <1>1, <1>3, <2>1, EnterKeepsDb
<1>5. ASSUME NEW w \in {"idle", "advSync", "callback", "resetStop"},
             pc' = [pc EXCEPT !["host"] = w], w = "resetStop" => svcChanged,
             w \in {"resetStop"} \/ adv' \/ (\E c \in Conns : links'[c] # "free") => queue = <<>>
      PROVE  DbInv'
  <2>1. InTurn' /\ \A W : "idle" \notin W => (Busy(W)' <=> w \in W) /\ ~Busy(W)
    BY <1>1, <1>5, TurnGoes
  <2>2. Busy(Resetting)' => w = "resetStop"
    BY <2>1 DEF Resetting
  <2>3. Busy({"handles", "advData", "advStart", "advFlag"} \cup Resetting)' => w = "resetStop"
    BY <2>1 DEF Resetting
  <2>4. ~Busy({"handles"})' /\ ~Busy({"handles"}) /\ ~Busy({"resetSvcs"})' /\ ~Busy({"gatts"})'
    BY <2>1
  <2> QED
    BY <1>3, <1>5, <2>1, <2>2, <2>3, <2>4, AirKeepsDb
<1>6. ASSUME NEW c \in Conns, ConnBroken(c) PROVE DbInv'
  <2>1. queue = <<>>
    BY <1>2, <1>6 DEF ConnBroken
  <2>2. PICK w \in {"idle", "callback", "resetStop"} :
          pc' = [pc EXCEPT !["host"] = w] /\ (w = "resetStop" => svcChanged)
    <3>1. [pc EXCEPT !["host"] = "idle"] = pc
      BY <1>1 DEF Types, TypeOK
    <3> QED
      BY <1>6, <3>1 DEF ConnBroken, AfterSlot, Go
  <2> QED
    BY <1>5, <2>1, <2>2
<1>7. CASE HostSync
  BY <1>5, <1>7 DEF HostSync, Go
<1>8. ASSUME NEW c \in Conns, ConnComplete(c) \/ OnConnect(c) PROVE DbInv'
  <2>1. queue = <<>> /\ pc' = pc
    BY <1>2, <1>8 DEF ConnComplete, OnConnect, taskVars
  <2>2. [pc EXCEPT !["host"] = "idle"] = pc
    BY <1>1 DEF Types, TypeOK
  <2> QED
    BY <1>5, <2>1, <2>2
<1>9. CASE AdvExpired \/ ResetBegin
  <2>1. links' = links /\ pc' = pc /\ (adv' => adv)
    BY <1>9 DEF AdvExpired, ResetBegin, airVars, taskVars
  <2>2. [pc EXCEPT !["host"] = "idle"] = pc
    BY <1>1 DEF Types, TypeOK
  <2> QED
    BY <1>2, <1>5, <2>1, <2>2
<1> QED
  BY <1>4, <1>6, <1>7, <1>8, <1>9 DEF HostEvent

LEMMA DbInvInductive ==
  ASSUME ~Parallel, ~EarlyEdits
  PROVE  Types /\ DbInv /\ [Next]_vars => DbInv'
<1> SUFFICES ASSUME Types, DbInv, [Next]_vars PROVE DbInv'
  OBVIOUS
<1>1. ASSUME NEW p \in Procs, AdvertisingStep(p), p = "app" => pc["host"] = "idle"
      PROVE  DbInv'
  <2>1. \A o \in Procs : o # p => pc[o] = "idle"
    <3>1. pc[p] # "idle"
      BY <1>1 DEF AdvertisingStep, GattsStart, ServerStarted, AdvData, AdvStart
    <3> QED
      BY <1>1, <3>1 DEF DbInv, InTurn, Procs
  <2> QED
    BY <1>1, <2>1, StartKeepsDb
<1>2. CASE AppStep
  BY <1>1, <1>2, CallsKeepDb DEF AppStep, Procs
<1>3. CASE HostStep
  BY <1>1, <1>3, HandlersKeepDb DEF HostStep, Procs
<1>4. CASE HostEvent
  BY <1>4, EventsKeepDb
<1>5. CASE UNCHANGED vars
  BY <1>5 DEF vars, serverVars, attVars, airVars, taskVars, DbInv, InTurn, Objects, Queued,
              Registered, Served, Busy
<1> QED
  BY <1>2, <1>3, <1>4, <1>5 DEF Next

LEMMA InitDb == Init => DbInv
<1> SUFFICES ASSUME Init PROVE DbInv
  OBVIOUS
<1>1. IsInjective(<<>>) /\ ToSet(<<>>) = {} /\ DOMAIN <<>> = {}
  BY DEF IsInjective, ToSet
<1>2. \A p \in Procs : pc[p] = "idle"
  BY DEF Init
<1>3. InTurn /\ \A W : "idle" \notin W => ~Busy(W)
  BY <1>2 DEF InTurn, Busy, Procs, Resetting
<1>4. ~Busy({"handles"}) /\ ~Busy({"resetSvcs"}) /\ ~Busy({"gatts", "handles"}) /\ ~Busy(Resetting)
  BY <1>3 DEF Resetting
<1> QED
  BY <1>1, <1>3, <1>4 DEF Init, DbInv, Objects, Queued, Registered

(* removeService(): for an application that runs in callbacks and removes    *)
(* services while the server runs, a removed service has no visible place   *)
(* in the database, in any interleaving with connections, host resets and  *)
(* rebuilds, and with any number of services and connections.              *)
THEOREM RemovedIsInvisible ==
  ASSUME ~Parallel, ~EarlyEdits PROVE Spec => []RemovedInvisible
<1>1. Types /\ SlotInv /\ DbInv /\ [Next]_vars => (Types /\ SlotInv /\ DbInv)'
  BY TypesInductive, SlotInvInductive, DbInvInductive
<1>2. DbInv => RemovedInvisible
  <2> SUFFICES ASSUME DbInv, NEW s \in ToSet(vec), removed[s] > 0,
                      NEW i \in DOMAIN db, db[i] = s
               PROVE  i \in hidden
    BY DEF RemovedInvisible
  <2>1. s \notin Served
    BY DEF Served
  <2>2. ~Busy({"handles"})
    BY <2>1 DEF DbInv, Registered, ToSet
  <2> QED
    BY <2>1, <2>2 DEF DbInv, Registered
<1> QED
  BY <1>1, <1>2, InitTypes, InitDb, PTL DEF Spec

-----------------------------------------------------------------------------
(* The services of an application that does not scan, either (~Central): the *)
(* server is never refused its start, so none is lost from the queue.       *)

Advertises == {"advData", "advStart", "advFlag"}

Complete ==
  /\ ~scanning
  /\ ~gattsStarted => Mutable
  /\ Busy(Advertises \cup Resetting) => gattsStarted
  /\ Busy({"resetSvcs"}) => Mutable
  /\ ~gattsStarted /\ ~Busy({"handles"}) => Served \cap built \subseteq ToSet(queue)
  /\ Busy({"handles"}) => Served \cap built \subseteq ToSet(db)
  /\ gattsStarted /\ ~svcChanged =>
       \A s \in Served \cap built : \E i \in DOMAIN db \ hidden : db[i] = s

(* A step that leaves the objects, the queue and the database alone *)
LEMMA AirKeepsComplete ==
  ASSUME Complete, UNCHANGED <<serverVars, attVars>>, ~scanning',
         adv' \/ (\E c \in Conns : links'[c] # "free") => gattsStarted,
         Busy({"handles"})' <=> Busy({"handles"}),
         Busy(Advertises \cup Resetting)' => gattsStarted,
         ~Busy({"resetSvcs"})'
  PROVE  Complete'
<1>1. (~gattsStarted => Mutable)'
  BY DEF Mutable, serverVars
<1>2. Served' = Served /\ built' = built /\ UNCHANGED <<gattsStarted, svcChanged, queue, db, hidden>>
  BY DEF Served, serverVars, attVars
<1> QED
  BY <1>1, <1>2 DEF Complete

LEMMA EnterKeepsComplete ==
  ASSUME Types, Complete, NEW p \in Procs, \A o \in Procs : o # p => pc[o] = "idle",
         pc[p] \in {"idle", "callback", "advSync"}, NEW d, EnterStart(p, d),
         UNCHANGED <<serverVars, attVars, scanning>>,
         adv' \/ (\E c \in Conns : links'[c] # "free") => gattsStarted
  PROVE  Complete'
<1> DEFINE w == IF ~synced \/ adv THEN "idle" ELSE IF gattsStarted THEN "advData" ELSE "gatts"
<1>1. pc' = [pc EXCEPT ![p] = w] /\ w \in {"idle", "advData", "gatts"}
      /\ (w = "advData" => gattsStarted)
  BY DEF EnterStart, Go
<1> HIDE DEF w
<1>2. \A W : "idle" \notin W => (Busy(W)' <=> w \in W) /\ (Busy(W) <=> pc[p] \in W)
  BY <1>1, TurnGoes DEF Resetting
<1>3. ~Busy({"handles"})' /\ ~Busy({"handles"}) /\ ~Busy({"resetSvcs"})'
      /\ (Busy(Advertises \cup Resetting)' => gattsStarted)
  BY <1>1, <1>2 DEF Resetting, Advertises
<1> QED
  BY <1>3, AirKeepsComplete DEF Complete

(* start() by either task *)
LEMMA StartKeepsComplete ==
  ASSUME Types, DbInv, Complete, NEW p \in Procs, \A o \in Procs : o # p => pc[o] = "idle",
         AdvertisingStep(p)
  PROVE  Complete'
<1>0. \A W : "idle" \notin W => (Busy(W) <=> pc[p] \in W)
  BY DEF Busy
<1>1. CASE GattsStart(p)
  <2>1. pc[p] = "gatts" /\ UNCHANGED <<serverVars, airVars>>
    BY <1>1 DEF GattsStart
  <2>2. Busy({"gatts", "handles"}) /\ ~Busy({"handles"})
    BY <1>0, <2>1
  <2>3. ~gattsStarted /\ db = <<>> /\ Mutable /\ Served \cap built \subseteq ToSet(queue)
    BY <2>2 DEF DbInv, Registered, Complete
  <2>4. db' = queue /\ pc' = [pc EXCEPT ![p] = "handles"]
    BY <1>1, <2>3 DEF GattsStart, GattsRegister, Go
  <2>5. \A W : "idle" \notin W => (Busy(W)' <=> "handles" \in W)
    BY <2>4, TurnGoes DEF Resetting
  <2>6. Busy({"handles"})' /\ ~Busy({"resetSvcs"})' /\ ~Busy(Advertises \cup Resetting)'
    BY <2>5 DEF Resetting, Advertises
  <2>7. Mutable' /\ ~scanning' /\ ~gattsStarted'
    BY <2>1, <2>3 DEF Mutable, airVars, serverVars
  <2>8. (Served \cap built)' = Served \cap built
    BY <2>1 DEF Served, serverVars
  <2> QED
    BY <2>3, <2>4, <2>6, <2>7, <2>8 DEF Complete
<1>2. CASE ServerStarted(p)
  <2>1. pc[p] = "handles" /\ UNCHANGED <<vec, removed, built, attVars, airVars>>
    BY <1>2 DEF ServerStarted
  <2>2. Busy({"handles"})
    BY <1>0, <2>1
  <2>3. Served \cap built \subseteq ToSet(db) /\ hidden = {}
    BY <2>2 DEF DbInv, Registered, Complete
  <2>4. CASE entriesFreed
    <3>1. UNCHANGED <<serverVars, attVars, airVars, pc>>
      BY <1>2, <2>4 DEF ServerStarted, serverVars
    <3> QED
      BY <3>1 DEF Complete, Mutable, Served, Busy, serverVars, attVars, airVars
  <2>5. CASE ~entriesFreed
    <3>1. gattsStarted' = TRUE /\ pc' = [pc EXCEPT ![p] = "advData"]
      BY <1>2, <2>5 DEF ServerStarted, Go
    <3>2. \A W : "idle" \notin W => (Busy(W)' <=> "advData" \in W)
      BY <3>1, TurnGoes DEF Resetting
    <3>3. ~Busy({"handles"})' /\ ~Busy({"resetSvcs"})'
      BY <3>2
    <3>4. (Served \cap built)' = Served \cap built /\ db' = db /\ hidden' = {}
      BY <2>1, <2>3 DEF Served, attVars
    <3>5. \A s \in Served \cap built : \E i \in DOMAIN db \ {} : db[i] = s
      BY <2>3 DEF ToSet
    <3> QED
      BY <2>1, <3>1, <3>3, <3>4, <3>5 DEF Complete, airVars
  <2> QED
    BY <2>4, <2>5
<1>3. CASE AdvData(p) \/ AdvStart(p)
  <2>1. PICK w \in {"idle", "advStart", "advFlag"} : pc' = [pc EXCEPT ![p] = w]
    BY <1>3 DEF AdvData, AdvStart, Go
  <2>2. \A W : "idle" \notin W => (Busy(W)' <=> w \in W)
    BY <2>1, TurnGoes DEF Resetting
  <2>3. pc[p] \in Advertises /\ UNCHANGED <<serverVars, attVars, scanning>>
    BY <1>3 DEF AdvData, AdvStart, Advertises, airVars
  <2>4. gattsStarted /\ ~Busy({"handles"})
    <3>1. Busy(Advertises \cup Resetting) /\ ~Busy({"handles"})
      BY <1>0, <2>3 DEF Resetting, Advertises
    <3> QED
      BY <3>1 DEF Complete
  <2>5. ~Busy({"handles"})' /\ ~Busy({"resetSvcs"})'
    BY <2>2
  <2> QED
    BY <2>3, <2>4, <2>5, AirKeepsComplete DEF Complete
<1> QED
  BY <1>1, <1>2, <1>3 DEF AdvertisingStep

(* An edit is made with nothing under way. *)
LEMMA EditsKeepComplete ==
  ASSUME Complete, \A p \in Procs : pc[p] = "idle", UNCHANGED <<pc, airVars, gattsStarted>>,
         ~gattsStarted => (Served \cap built)' \subseteq ToSet(queue'),
         gattsStarted /\ ~svcChanged' =>
           /\ ~svcChanged /\ (Served \cap built)' \subseteq Served \cap built
           /\ UNCHANGED <<db, hidden>>
  PROVE  Complete'
<1>1. \A W : "idle" \notin W => ~Busy(W)'
  BY DEF Busy
<1>2. ~Busy({"handles"})' /\ ~Busy({"resetSvcs"})' /\ ~Busy(Advertises \cup Resetting)'
  BY <1>1 DEF Resetting, Advertises
<1>3. Mutable' <=> Mutable
  BY DEF Mutable, airVars
<1> QED
  BY <1>2, <1>3 DEF Complete, airVars

LEMMA CallsKeepComplete ==
  ASSUME Types, DbInv, Complete, ~Parallel, ~EarlyEdits, ~Central, AppCall
  PROVE  Complete'
<1>1. \A p \in Procs : pc[p] = "idle"
  BY DEF AppCall, createService, ServiceStart, deleteRemovedService, addService, removeService,
         startAdvertising, stopAdvertising, Scan, AppRuns, Procs
<1>2. ~Busy({"handles"})
  BY <1>1 DEF Busy
<1>3. ToSet(vec) \subseteq Services
  BY DEF ToSet, Types, TypeOK
<1>4. ~gattsStarted => Served \cap built \subseteq ToSet(queue)
  BY <1>2 DEF Complete
<1>5. \A s \in Services : s \notin ToSet(vec) => removed[s] = 0
  BY DEF DbInv, Objects
<1>6. \A s \in Services, k \in 0..2, o \in Services :
        [removed EXCEPT ![s] = k][o] = IF o = s THEN k ELSE removed[o]
  BY DEF Types, TypeOK
<1>7. ASSUME NEW s \in Services, s \notin ToSet(vec), vec' = Append(vec, s), built' = built \ {s},
             removed' = [removed EXCEPT ![s] = 0] \/ removed' = removed
      PROVE  (Served \cap built)' \subseteq Served \cap built
  <2>1. ToSet(vec') = ToSet(vec) \cup {s}
    BY <1>7, ListGrows DEF Types, TypeOK
  <2>2. \A o \in Services : removed'[o] = removed[o]
    BY <1>5, <1>6, <1>7
  <2> QED
    BY <1>3, <1>7, <2>1, <2>2 DEF Served
<1>8. ASSUME NEW s \in Services, createService(s) PROVE Complete'
  <2>1. (Served \cap built)' \subseteq Served \cap built
    BY <1>7, <1>8 DEF createService
  <2> QED
    BY <1>1, <1>4, <1>8, <2>1, EditsKeepComplete
    DEF createService, serviceChanged, attVars, taskVars
<1>9. ASSUME NEW s \in Services, ServiceStart(s) PROVE Complete'
  <2>1. /\ ~gattsStarted /\ built' = built \cup {s} /\ queue' = Append(queue, s)
        /\ UNCHANGED <<vec, removed, gattsStarted, svcChanged, db, hidden, airVars, pc>>
    BY <1>9 DEF ServiceStart, taskVars
  <2>2. ToSet(queue') = ToSet(queue) \cup {s}
    BY <2>1, ListGrows DEF Types, TypeOK
  <2>3. (Served \cap built)' \subseteq ToSet(queue')
    BY <1>4, <2>1, <2>2 DEF Served
  <2> QED
    BY <1>1, <2>1, <2>3, EditsKeepComplete
<1>10. ASSUME NEW s \in Services, deleteRemovedService(s) PROVE Complete'
  <2>1. /\ vec' = Those(vec, Services \ {s}) /\ removed' = [removed EXCEPT ![s] = 0]
        /\ UNCHANGED <<built, gattsStarted, svcChanged, attVars, airVars, pc>>
    BY <1>10 DEF deleteRemovedService, taskVars
  <2>2. ToSet(vec') = ToSet(vec) \cap (Services \ {s})
    BY <2>1, ThoseOfList DEF Types, TypeOK
  <2>3. (Served \cap built)' \subseteq Served \cap built
    BY <1>3, <1>6, <2>1, <2>2 DEF Served
  <2> QED
    BY <1>1, <1>4, <2>1, <2>3, EditsKeepComplete DEF attVars
<1>11. ASSUME NEW s \in Services, addService(s) PROVE Complete'
  <2>1. gattsStarted /\ UNCHANGED <<gattsStarted, attVars, airVars, pc>>
    BY <1>11 DEF addService, taskVars
  <2>2. CASE s \in ToSet(vec)
    <3>1. svcChanged'
      BY <1>11, <2>1, <2>2 DEF addService, serviceChanged
    <3> QED
      BY <1>1, <2>1, <3>1, EditsKeepComplete
  <2>3. CASE s \notin ToSet(vec)
    <3>1. svcChanged' = svcChanged /\ (Served \cap built)' \subseteq Served \cap built
      BY <1>7, <1>11, <2>3 DEF addService
    <3> QED
      BY <1>1, <2>1, <3>1, EditsKeepComplete DEF attVars
  <2> QED
    BY <2>2, <2>3
<1>12. ASSUME NEW s \in Services, NEW d \in BOOLEAN, removeService(s, d) PROVE Complete'
  <2>1. gattsStarted /\ UNCHANGED <<vec, built, gattsStarted, db, airVars, pc>>
    BY <1>12 DEF removeService, taskVars
  <2>2. svcChanged' \/ UNCHANGED <<hidden, removed, svcChanged>>
    BY <1>12, <2>1 DEF removeService, Hide, serviceChanged
  <2>3. CASE svcChanged'
    BY <1>1, <2>1, <2>3, EditsKeepComplete
  <2>4. CASE UNCHANGED <<hidden, removed, svcChanged>>
    <3>1. (Served \cap built)' = Served \cap built
      BY <2>1, <2>4 DEF Served
    <3> QED
      BY <1>1, <2>1, <2>4, <3>1, EditsKeepComplete
  <2> QED
    BY <2>2, <2>3, <2>4
<1>13. ASSUME NEW d, startAdvertising(d) PROVE Complete'
  <2>1. adv \/ (\E c \in Conns : links[c] # "free") => gattsStarted
    BY DEF Complete, Mutable
  <2> QED
    BY <1>1, <1>13, <2>1, EnterKeepsComplete DEF startAdvertising, airVars, Procs
<1>14. CASE stopAdvertising
  <2>1. UNCHANGED <<serverVars, attVars, links, scanning, pc>> /\ ~adv'
    BY <1>14 DEF stopAdvertising, taskVars
  <2>2. \A W : "idle" \notin W => ~Busy(W) /\ ~Busy(W)'
    BY <1>1, <2>1 DEF Busy
  <2>3. ~Busy({"handles"})' /\ ~Busy({"resetSvcs"})' /\ ~Busy(Advertises \cup Resetting)'
    BY <2>2 DEF Resetting, Advertises
  <2>4. (\E c \in Conns : links'[c] # "free") => gattsStarted
    BY <2>1 DEF Complete, Mutable
  <2> QED
    BY <1>2, <2>1, <2>3, <2>4, AirKeepsComplete DEF Complete
<1> QED
  BY <1>8, <1>9, <1>10, <1>11, <1>12, <1>13, <1>14 DEF AppCall, Scan

(* The handlers of the host task that have begun *)
LEMMA HandlersKeepComplete ==
  ASSUME Types, DbInv, Complete,
         ResetStop \/ ResetGatts \/ ResetServices \/ AfterDisconnect \/ OnHostSync
  PROVE  Complete'
<1> USE DEF Procs
<1>0. /\ pc["host"] # "idle"
      /\ \A o \in Procs : o # "host" => pc[o] = "idle"
      /\ \A W : "idle" \notin W => (Busy(W) <=> pc["host"] \in W)
  <2>1. pc["host"] # "idle"
    BY DEF ResetStop, ResetGatts, ResetServices, AfterDisconnect, OnHostSync
  <2>2. \A o \in Procs : o # "host" => pc[o] = "idle"
    BY <2>1 DEF DbInv, InTurn
  <2> QED
    BY <2>1, <2>2 DEF Busy
<1>1. pc["host"] \in Resetting => gattsStarted /\ svcChanged
  <2>1. pc["host"] \in Resetting => Busy(Resetting) /\ Busy(Advertises \cup Resetting)
    BY <1>0 DEF Resetting, Advertises
  <2> QED
    BY <2>1 DEF Complete, DbInv, Registered
<1>2. adv \/ (\E c \in Conns : links[c] # "free") => gattsStarted
  BY DEF Complete, Mutable
<1>3. CASE ResetStop
  <2>1. /\ pc["host"] = "resetStop" /\ pc' = [pc EXCEPT !["host"] = "resetGatts"]
        /\ UNCHANGED <<serverVars, attVars, scanning>>
    BY <1>3 DEF ResetStop, Go
  <2>2. \A W : "idle" \notin W => (Busy(W)' <=> "resetGatts" \in W)
    BY <1>0, <2>1, TurnGoes
  <2>3. gattsStarted /\ ~Busy({"handles"})' /\ ~Busy({"handles"}) /\ ~Busy({"resetSvcs"})'
    BY <1>0, <1>1, <2>1, <2>2 DEF Resetting
  <2> QED
    BY <2>1, <2>3, AirKeepsComplete DEF Complete
<1>4. CASE ResetGatts
  <2>1. pc["host"] = "resetGatts" /\ UNCHANGED <<serverVars, queue, airVars>>
    BY <1>4 DEF ResetGatts
  <2>2. gattsStarted /\ svcChanged
    BY <1>1, <2>1 DEF Resetting
  <2>3. CASE UNCHANGED <<db, hidden, pc>>
    BY <2>1, <2>3 DEF Complete, Mutable, Served, Busy, serverVars, airVars
  <2>4. CASE Mutable /\ pc' = [pc EXCEPT !["host"] = "resetSvcs"]
    <3>1. \A W : "idle" \notin W => (Busy(W)' <=> "resetSvcs" \in W)
      BY <1>0, <2>4, TurnGoes
    <3>2. ~Busy({"handles"})' /\ Mutable'
      BY <2>1, <2>4, <3>1 DEF Mutable, airVars
    <3> QED
      BY <2>1, <2>2, <3>2 DEF Complete, serverVars, airVars
  <2> QED
    BY <1>4, <2>3, <2>4 DEF ResetGatts, Go
<1>5. CASE ResetServices
  <2>1. /\ pc["host"] = "resetSvcs" /\ pc' = [pc EXCEPT !["host"] = "callback"]
        /\ UNCHANGED airVars /\ ~gattsStarted'
    BY <1>5 DEF ResetServices, Go
  <2>2. Mutable /\ svcChanged
    <3>1. Busy({"resetSvcs"})
      BY <1>0, <2>1
    <3> QED
      BY <1>1, <2>1, <3>1 DEF Complete, Resetting
  <2>3. ToSet(vec) \subseteq Services /\ vec \in Seq(Services) /\ queue \in Seq(Services)
    BY DEF ToSet, Types, TypeOK
  <2>4. /\ Requeue \in Seq(Services)
        /\ ToSet(Requeue) = {s \in ToSet(vec) : removed[s] = 0}
    <3> DEFINE K == {s \in Services : removed[s] = 0 /\ (svcChanged \/ s \notin built)}
    <3>1. Requeue \in Seq(Services) /\ ToSet(Requeue) = ToSet(vec) \cap K
      BY <2>3, ThoseOfList DEF Requeue
    <3> QED
      BY <2>2, <2>3, <3>1
  <2>5. ToSet(vec') = {s \in ToSet(vec) : removed[s] # 2}
    <3>1. vec' = Those(vec, {s \in Services : removed[s] # 2})
      BY <1>5 DEF ResetServices
    <3>2. ToSet(vec') = ToSet(vec) \cap {s \in Services : removed[s] # 2}
      BY <2>3, <3>1, ThoseOfList
    <3> QED
      BY <2>3, <3>2
  <2>6. \A s \in Services : removed'[s] = IF removed[s] = 2 THEN 0 ELSE removed[s]
    BY <1>5 DEF ResetServices
  <2>7. Served' \subseteq ToSet(Requeue)
    BY <2>3, <2>4, <2>5, <2>6 DEF Served
  <2>8. queue' = Requeue
    <3>1. queue = <<>>
      <4>1. Busy({"handles", "advData", "advStart", "advFlag"} \cup Resetting)
        BY <1>0, <2>1 DEF Resetting
      <4> QED
        BY <4>1 DEF DbInv, Queued
    <3> QED
      BY <1>5, <2>2, <2>4, <3>1 DEF ResetServices
  <2>9. \A W : "idle" \notin W => (Busy(W)' <=> "callback" \in W)
    BY <1>0, <2>1, TurnGoes
  <2>10. ~Busy({"handles"})' /\ ~Busy({"resetSvcs"})' /\ ~Busy(Advertises \cup Resetting)'
    BY <2>9 DEF Advertises, Resetting
  <2>11. Mutable' /\ ~scanning'
    BY <2>1, <2>2 DEF Mutable, airVars
  <2> QED
    BY <2>1, <2>7, <2>8, <2>10, <2>11 DEF Complete
<1>6. CASE AfterDisconnect \/ OnHostSync
  <2>1. /\ pc["host"] \in {"callback", "advSync"}
        /\ UNCHANGED <<serverVars, attVars, airVars>>
    BY <1>6 DEF AfterDisconnect, OnHostSync
  <2>2. CASE EnterStart("host", "forever")
    BY <1>0, <1>2, <2>1, <2>2, EnterKeepsComplete DEF airVars
  <2>3. CASE Go("host", "idle")
    <3>1. pc' = [pc EXCEPT !["host"] = "idle"]
      BY <2>3 DEF Go
    <3>2. \A W : "idle" \notin W => ~Busy(W)'
      BY <1>0, <3>1, TurnGoes
    <3>3. /\ ~Busy({"handles"})' /\ ~Busy({"handles"}) /\ ~Busy({"resetSvcs"})'
          /\ ~Busy(Advertises \cup Resetting)'
      BY <1>0, <2>1, <3>2 DEF Resetting, Advertises
    <3> QED
      BY <1>2, <2>1, <3>3, AirKeepsComplete DEF Complete, airVars
  <2> QED
    BY <1>6, <2>2, <2>3 DEF AfterDisconnect, OnHostSync
<1> QED
  BY <1>3, <1>4, <1>5, <1>6

(* New events of the host task: every connection is of a started server.     *)
LEMMA EventsKeepComplete ==
  ASSUME Types, DbInv, Complete, ~Parallel, HostEvent
  PROVE  Complete'
<1> USE DEF Procs
<1>1. \A p \in Procs : pc[p] = "idle"
  BY DEF HostEvent, ConnComplete, OnConnect, OnConnectFailed, ConnBroken, AdvExpired, ResetBegin,
         HostSync, HostRuns
<1>2. adv \/ (\E c \in Conns : links[c] # "free") => gattsStarted
  BY DEF Complete, Mutable
<1>3. UNCHANGED <<serverVars, attVars>> /\ ~scanning'
  BY DEF HostEvent, ConnComplete, OnConnect, OnConnectFailed, ConnBroken, AdvExpired, ResetBegin,
         HostSync, Complete, airVars
<1>4. ASSUME NEW c \in Conns, OnConnectFailed(c) PROVE Complete'
  <2>1. gattsStarted /\ EnterStart("host", "forever") /\ scanning' = scanning
    BY <1>2, <1>4 DEF OnConnectFailed
  <2> QED
    BY <1>1, <1>3, <2>1, EnterKeepsComplete
<1>5. ASSUME NEW w \in {"idle", "advSync", "callback", "resetStop"},
             pc' = [pc EXCEPT !["host"] = w],
             w \in {"resetStop"} \/ adv' \/ (\E c \in Conns : links'[c] # "free") => gattsStarted
      PROVE  Complete'
  <2>1. \A W : "idle" \notin W => (Busy(W)' <=> w \in W) /\ ~Busy(W)
    BY <1>1, <1>5, TurnGoes
  <2>2. Busy(Advertises \cup Resetting)' => w = "resetStop"
    BY <2>1 DEF Resetting, Advertises
  <2>3. ~Busy({"handles"})' /\ ~Busy({"handles"}) /\ ~Busy({"resetSvcs"})'
    BY <2>1
  <2> QED
    BY <1>3, <1>5, <2>2, <2>3, AirKeepsComplete
<1>6. [pc EXCEPT !["host"] = "idle"] = pc
  BY <1>1 DEF Types, TypeOK
<1>7. ASSUME NEW c \in Conns, ConnBroken(c) PROVE Complete'
  <2>1. gattsStarted
    BY <1>2, <1>7 DEF ConnBroken
  <2>2. PICK w \in {"idle", "callback", "resetStop"} : pc' = [pc EXCEPT !["host"] = w]
    BY <1>6, <1>7 DEF ConnBroken, AfterSlot, Go
  <2> QED
    BY <1>5, <2>1, <2>2
<1>8. CASE HostSync
  BY <1>5, <1>8 DEF HostSync, Go
<1>9. ASSUME NEW c \in Conns, ConnComplete(c) \/ OnConnect(c) PROVE Complete'
  <2>1. gattsStarted /\ pc' = pc
    BY <1>2, <1>9 DEF ConnComplete, OnConnect, taskVars
  <2> QED
    BY <1>5, <1>6, <2>1
<1>10. CASE AdvExpired \/ ResetBegin
  <2>1. links' = links /\ pc' = pc /\ (adv' => adv)
    BY <1>10 DEF AdvExpired, ResetBegin, airVars, taskVars
  <2> QED
    BY <1>2, <1>5, <1>6, <2>1
<1> QED
  BY <1>4, <1>7, <1>8, <1>9, <1>10 DEF HostEvent

LEMMA CompleteInductive ==
  ASSUME ~Parallel, ~EarlyEdits, ~Central
  PROVE  Types /\ DbInv /\ Complete /\ [Next]_vars => Complete'
<1> SUFFICES ASSUME Types, DbInv, Complete, [Next]_vars PROVE Complete'
  OBVIOUS
<1>1. ASSUME NEW p \in Procs, AdvertisingStep(p) PROVE Complete'
  <2>1. \A o \in Procs : o # p => pc[o] = "idle"
    <3>1. pc[p] # "idle"
      BY <1>1 DEF AdvertisingStep, GattsStart, ServerStarted, AdvData, AdvStart
    <3> QED
      BY <3>1 DEF DbInv, InTurn, Procs
  <2> QED
    BY <1>1, <2>1, StartKeepsComplete
<1>2. CASE AppStep
  BY <1>1, <1>2, CallsKeepComplete DEF AppStep, Procs
<1>3. CASE HostStep
  BY <1>1, <1>3, HandlersKeepComplete DEF HostStep, Procs
<1>4. CASE HostEvent
  BY <1>4, EventsKeepComplete
<1>5. CASE UNCHANGED vars
  BY <1>5 DEF vars, serverVars, attVars, airVars, taskVars, Complete, Mutable, Served, Busy
<1> QED
  BY <1>2, <1>3, <1>4, <1>5 DEF Next

LEMMA InitComplete == Init => Complete
<1> SUFFICES ASSUME Init PROVE Complete
  OBVIOUS
<1>1. ToSet(<<>>) = {}
  BY DEF ToSet
<1>2. \A W : "idle" \notin W => ~Busy(W)
  BY DEF Init, Busy, Procs
<1>3. ~Busy({"handles"}) /\ ~Busy({"resetSvcs"}) /\ ~Busy(Advertises \cup Resetting)
  BY <1>2 DEF Resetting, Advertises
<1> QED
  BY <1>1, <1>3 DEF Init, Complete, Mutable, Served

(* Once the server is started and no change is pending, whatever is built    *)
(* and not removed is in the database once, visible, and under the handle   *)
(* of its object: for an application in callbacks that does not scan.       *)
THEOREM ServicesAreServed ==
  ASSUME ~Parallel, ~EarlyEdits, ~Central PROVE Spec => []ServedServices
<1>1. /\ Types /\ SlotInv /\ DbInv /\ Complete /\ [Next]_vars
      => (Types /\ SlotInv /\ DbInv /\ Complete)'
  BY TypesInductive, SlotInvInductive, DbInvInductive, CompleteInductive
<1>2. DbInv /\ Complete => ServedServices
  <2> SUFFICES ASSUME DbInv, Complete, gattsStarted, ~svcChanged, NEW s \in Served \cap built
               PROVE  /\ \E i \in DOMAIN db \ hidden : db[i] = s /\ handle[s] = i
                      /\ \A i, j \in DOMAIN db : db[i] = s /\ db[j] = s => i = j
    BY DEF ServedServices
  <2>1. ~Busy({"handles"})
    <3>1. Busy({"handles"}) => Busy({"gatts", "handles"})
      BY DEF Busy
    <3> QED
      BY <3>1 DEF DbInv, Registered
  <2>2. PICK i \in DOMAIN db \ hidden : db[i] = s
    BY DEF Complete
  <2>3. handle[s] = i
    BY <2>1, <2>2 DEF DbInv, Registered
  <2>4. IsInjective(db)
    BY DEF DbInv, Registered
  <2> QED
    BY <2>2, <2>3, <2>4 DEF IsInjective
<1> QED
  BY <1>1, <1>2, InitTypes, InitDb, InitComplete, PTL DEF Spec
=============================================================================
