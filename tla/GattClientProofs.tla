-------------------------- MODULE GattClientProofs --------------------------
(***************************************************************************)
(* Theorems about GattClient, for any connections, tasks, sizes and bounds *)
(* and any interleaving of the tasks with the host.                        *)
(*                                                                         *)
(* The types (Types) hold with the state of the bearer: that at most one   *)
(* request is unanswered is inductive once the lists are lists.  That a    *)
(* procedure does not outlive its call needs to know whose procedure it is *)
(* (Owned): a task has at most one, and waits for it.                      *)
(*                                                                         *)
(* What the calls return is right because the requests of a connection     *)
(* stand in a line (Line), each with the one procedure that sent it        *)
(* (Makers), from the answer in the host's hand to the last in the queue   *)
(* (InLine), and the answer in the hand is for the procedure that takes it *)
(* (Right).  ATT answers carry no number: Right holds because no other     *)
(* procedure of the connection matches the answer (Apart), or because the  *)
(* list of procedures is in the order of the line (InTurn, InStep).        *)
(***************************************************************************)
EXTENDS GattClient, FiniteSetTheorems, WellFoundedInduction, TLAPS

-----------------------------------------------------------------------------
(* Sequences *)

LEMMA LeastNat ==
  ASSUME NEW S, S \subseteq Nat, S # {}
  PROVE  \E i \in S : \A k \in S : i <= k
<1>1. PICK i \in S : \A y \in S : <<y, i>> \notin OpToRel(<, Nat)
  BY WFMin, NatLessThanWellFounded
<1>2. \A y \in S : ~(y < i)
  BY <1>1 DEF OpToRel
<1> QED
  BY <1>2

LEMMA Removal ==
  ASSUME NEW S, NEW s \in Seq(S), NEW i \in DOMAIN s
  PROVE  /\ RemoveAt(s, i) \in Seq(S)
         /\ Len(RemoveAt(s, i)) = Len(s) - 1
         /\ \A j \in 1..(Len(s) - 1) : RemoveAt(s, i)[j] = IF j < i THEN s[j] ELSE s[j + 1]
<1> DEFINE a == SubSeq(s, 1, i - 1)
           b == SubSeq(s, i + 1, Len(s))
<1>1. Len(s) \in Nat /\ i \in 1..Len(s)
  OBVIOUS
<1>2. a \in Seq(S) /\ Len(a) = i - 1 /\ \A j \in 1..(i - 1) : a[j] = s[j]
  BY <1>1
<1>3. b \in Seq(S) /\ Len(b) = Len(s) - i /\ \A j \in 1..(Len(s) - i) : b[j] = s[i + j]
  BY <1>1
<1>4. RemoveAt(s, i) = a \o b
  BY DEF RemoveAt
<1> HIDE DEF a, b
<1>5. a \o b \in Seq(S) /\ Len(a \o b) = Len(s) - 1
  BY <1>1, <1>2, <1>3
<1>6. ASSUME NEW j \in 1..(Len(s) - 1)
      PROVE  (a \o b)[j] = IF j < i THEN s[j] ELSE s[j + 1]
  <2>1. CASE j < i
    BY <1>1, <1>2, <1>3, <2>1
  <2>2. CASE ~(j < i)
    <3>1. (a \o b)[j] = b[j - (i - 1)]
      <4>0. Len(a) = i - 1 /\ Len(b) = Len(s) - i /\ j >= i
        BY <1>1, <1>2, <1>3, <2>2
      <4>1. j \in 1..(Len(a) + Len(b)) /\ j > Len(a)
        BY <1>1, <4>0
      <4>2. (a \o b)[j] = IF j <= Len(a) THEN a[j] ELSE b[j - Len(a)]
        BY <1>2, <1>3, <4>1, SMTT(60)
      <4>3. ~(j <= Len(a))
        BY <1>1, <1>2, <4>1
      <4> QED
        BY <1>2, <4>2, <4>3
    <3>2. j - (i - 1) \in 1..(Len(s) - i) /\ i + (j - (i - 1)) = j + 1
      BY <1>1, <2>2
    <3>3. b[j - (i - 1)] = s[i + (j - (i - 1))]
      BY <1>3, <3>2
    <3> QED
      BY <2>2, <3>1, <3>2, <3>3
  <2> QED
    BY <2>1, <2>2
<1> QED
  BY <1>4, <1>5, <1>6

(* An entry that is left was in the list, and two places have two sources. *)
LEMMA RemovalPlaces ==
  ASSUME NEW S, NEW s \in Seq(S), NEW i \in DOMAIN s
  PROVE  \E from \in [DOMAIN RemoveAt(s, i) -> DOMAIN s \ {i}] :
           /\ \A n \in DOMAIN RemoveAt(s, i) : RemoveAt(s, i)[n] = s[from[n]]
           /\ \A n, m \in DOMAIN RemoveAt(s, i) : n # m => from[n] # from[m]
<1>1. DOMAIN RemoveAt(s, i) = 1..(Len(s) - 1) /\ DOMAIN s = 1..Len(s) /\ Len(s) \in Nat /\ i \in 1..Len(s)
  BY Removal
<1> DEFINE from == [n \in 1..(Len(s) - 1) |-> IF n < i THEN n ELSE n + 1]
<1>2. \A n \in 1..(Len(s) - 1) : from[n] \in DOMAIN s \ {i}
  BY <1>1
<1>3. from \in [DOMAIN RemoveAt(s, i) -> DOMAIN s \ {i}]
  BY <1>1, <1>2
<1>4. \A n \in 1..(Len(s) - 1) : RemoveAt(s, i)[n] = s[from[n]]
  BY <1>1, Removal
<1>5. \A n, m \in 1..(Len(s) - 1) : n # m => from[n] # from[m]
  BY <1>1
<1> HIDE DEF from
<1> QED
  BY <1>1, <1>3, <1>4, <1>5

LEMMA KeptPlaces ==
  ASSUME NEW S, NEW s \in Seq(S), NEW K \in SUBSET DOMAIN s
  PROVE  /\ Kept(s, K) \in Seq(S)
         /\ \E from \in [DOMAIN Kept(s, K) -> K] :
              /\ \A n \in DOMAIN Kept(s, K) : Kept(s, K)[n] = s[from[n]]
              /\ \A n, m \in DOMAIN Kept(s, K) : n # m => from[n] # from[m]
              /\ \A i \in K : \E n \in DOMAIN Kept(s, K) : from[n] = i
<1> DEFINE Below(m) == {j \in K : j <= m}
           from == [n \in 1..Cardinality(K) |-> CHOOSE i \in K : Cardinality(Below(i)) = n]
<1>1. Len(s) \in Nat /\ DOMAIN s = 1..Len(s) /\ K \subseteq 1..Len(s)
  OBVIOUS
<1>2. IsFiniteSet(K) /\ Cardinality(K) \in Nat
  <2>1. IsFiniteSet(1..Len(s))
    BY <1>1, FS_Interval
  <2>2. IsFiniteSet(K)
    BY <1>1, <2>1, FS_Subset
  <2> QED
    BY <2>2, FS_CardinalityType
<1>3. \A m : IsFiniteSet(Below(m)) /\ Cardinality(Below(m)) \in Nat
  <2> TAKE m
  <2>1. Below(m) \subseteq K
    OBVIOUS
  <2>2. IsFiniteSet(Below(m))
    BY <1>2, <2>1, FS_Subset
  <2> QED
    BY <2>2, FS_CardinalityType
<1> DEFINE L == Len(s)
           card == [m \in 0..L |-> Cardinality(Below(m))]
<1>4. Below(0) = {} /\ Below(L) = K
  BY <1>1
<1>5. card \in [0..L -> Nat] /\ card[0] = 0 /\ card[L] = Cardinality(K)
  <2>1. \A m \in 0..L : Cardinality(Below(m)) \in Nat
    BY <1>3
  <2>2. 0 \in 0..L /\ L \in 0..L
    BY <1>1
  <2> HIDE DEF Below
  <2> QED
    BY <1>4, <2>1, <2>2, FS_EmptySet
<1>6. ASSUME NEW m \in 1..L
       PROVE  card[m] = IF m \in K THEN card[m - 1] + 1 ELSE card[m - 1]
  <2> DEFINE B == Below(m - 1)
  <2>1. \A j \in K : j <= m <=> j <= m - 1 \/ j = m
    BY <1>1
  <2>2. m \notin B
    BY <1>1
  <2>3. Below(m) = IF m \in K THEN B \cup {m} ELSE B
    BY <2>1
  <2>4. IsFiniteSet(B)
    BY <1>3
  <2>5. m \in 0..L /\ m - 1 \in 0..L
    BY <1>1
  <2>6. card[m] = Cardinality(Below(m)) /\ card[m - 1] = Cardinality(B)
    BY <2>5
  <2> HIDE DEF B, Below, card
  <2>7. Cardinality(B \cup {m}) = Cardinality(B) + 1
    BY <2>2, <2>4, FS_AddElement
  <2> QED
    BY <2>3, <2>6, <2>7
<1>7. \A i \in K : i \in 1..L /\ card[i] = Cardinality(Below(i))
  <2>1. \A i \in K : i \in 1..L /\ i \in 0..L
    BY <1>1
  <2> QED
    BY <2>1
<1>8. L \in Nat
  BY <1>1
<1>9. ASSUME NEW n \in 1..Cardinality(K)
      PROVE  \E i \in K : Cardinality(Below(i)) = n
  <2> HIDE DEF Below, card, L, from
  <2> DEFINE T == {m \in 0..L : card[m] >= n}
  <2>1. n \in Nat /\ n >= 1 /\ n <= Cardinality(K)
    BY <1>2
  <2>2. L \in T
    BY <1>5, <1>8, <2>1
  <2>3. T \subseteq Nat /\ T # {}
    BY <1>8, <2>2
  <2>4. PICK m \in T : \A k \in T : m <= k
    <3> HIDE DEF T
    <3> QED
      BY <2>3, LeastNat
  <2>5. m \in 0..L /\ card[m] >= n
    BY <2>4
  <2>6. m # 0
    BY <1>5, <2>1, <2>5
  <2>7. m \in 1..L /\ m - 1 \in 0..L /\ ~(m <= m - 1)
    BY <1>8, <2>5, <2>6
  <2>8. m - 1 \notin T
    BY <2>4, <2>7
  <2>9. ~(card[m - 1] >= n)
    BY <2>7, <2>8
  <2>10. card[m] \in Nat /\ card[m - 1] \in Nat
    BY <1>5, <2>5, <2>7
  <2>11. m \in K /\ card[m] = card[m - 1] + 1
    <3>1. card[m] = IF m \in K THEN card[m - 1] + 1 ELSE card[m - 1]
      BY <1>6, <2>7
    <3> QED
      BY <2>5, <2>9, <3>1
  <2>12. card[m] = n
    BY <2>1, <2>5, <2>9, <2>10, <2>11
  <2> QED
    BY <1>7, <2>11, <2>12
<1>10. \A n \in 1..Cardinality(K) : from[n] \in K /\ Cardinality(Below(from[n])) = n
  <2> TAKE n \in 1..Cardinality(K)
  <2>1. \E i \in K : Cardinality(Below(i)) = n
    BY <1>9
  <2>2. from[n] = CHOOSE i \in K : Cardinality(Below(i)) = n
    OBVIOUS
  <2> HIDE DEF from, Below
  <2> QED
    BY <2>1, <2>2
<1>18. \A i \in K : \E n \in 1..Cardinality(K) : from[n] = i
  <2> HIDE DEF from, card
  <2> TAKE i \in K
  <2>1. ASSUME NEW a \in K, NEW b \in K, a < b PROVE Cardinality(Below(a)) # Cardinality(Below(b))
    <3>1. Below(a) \subseteq Below(b) /\ b \in Below(b) /\ b \notin Below(a)
      BY <1>1, <2>1
    <3> HIDE DEF Below
    <3> QED
      BY <1>3, <3>1, FS_Subset
  <2>2. PICK n \in Nat : n = Cardinality(Below(i))
    BY <1>3
  <2>3. n \in 1..Cardinality(K)
    <3>1. Below(i) \subseteq K /\ i \in Below(i)
      BY <1>1
    <3> HIDE DEF Below
    <3>2. n <= Cardinality(K)
      BY <1>2, <2>2, <3>1, FS_Subset
    <3>3. n # 0
      BY <1>3, <2>2, <3>1, FS_EmptySet
    <3> QED
      BY <1>2, <2>2, <3>2, <3>3
  <2>4. PICK j \in K : j = from[n] /\ Cardinality(Below(j)) = n
    BY <1>10, <2>3
  <2>5. j = i
    <3>1. i \in 1..Len(s) /\ j \in 1..Len(s)
      BY <1>1
    <3>2. j < i \/ i < j \/ i = j
      BY <1>1, <3>1
    <3> HIDE DEF Below
    <3> QED
      BY <2>1, <2>2, <2>4, <3>2
  <2> QED
    BY <2>3, <2>4, <2>5
<1>11. Kept(s, K) = [n \in 1..Cardinality(K) |-> s[from[n]]]
  BY DEF Kept
<1> HIDE DEF from
<1>12. \A n \in 1..Cardinality(K) : s[from[n]] \in S
  <2>1. \A i \in K : s[i] \in S
    BY <1>1
  <2> QED
    BY <1>10, <2>1
<1>13. Kept(s, K) \in Seq(S)
  BY <1>2, <1>11, <1>12
<1>14. DOMAIN Kept(s, K) = 1..Cardinality(K)
  BY <1>11
<1>15. \A n, m \in 1..Cardinality(K) : n # m => from[n] # from[m]
  BY <1>10
<1>16. from \in [1..Cardinality(K) -> K]
  BY <1>10 DEF from
<1>17. \A n \in 1..Cardinality(K) : Kept(s, K)[n] = s[from[n]]
  BY <1>11
<1>19. from \in [DOMAIN Kept(s, K) -> K]
  BY <1>14, <1>16
<1> DEFINE Q == Kept(s, K)
<1>20. /\ \A n \in DOMAIN Q : Q[n] = s[from[n]]
       /\ \A n, m \in DOMAIN Q : n # m => from[n] # from[m]
       /\ \A i \in K : \E n \in DOMAIN Q : from[n] = i
  BY <1>14, <1>15, <1>17, <1>18
<1> HIDE DEF Q
<1>21. from \in [DOMAIN Q -> K] /\ Q \in Seq(S)
  BY <1>13, <1>19 DEF Q
<1> QED
  BY <1>20, <1>21 DEF Q

LEMMA RemovalKeeps ==
  ASSUME NEW S, NEW s \in Seq(S), NEW i \in DOMAIN s
  PROVE  \A j \in DOMAIN s \ {i} : \E n \in DOMAIN RemoveAt(s, i) : RemoveAt(s, i)[n] = s[j]
<1>1. /\ DOMAIN RemoveAt(s, i) = 1..(Len(s) - 1) /\ DOMAIN s = 1..Len(s) /\ Len(s) \in Nat
      /\ \A j \in 1..(Len(s) - 1) : RemoveAt(s, i)[j] = IF j < i THEN s[j] ELSE s[j + 1]
  BY Removal
<1> TAKE j \in DOMAIN s \ {i}
<1>2. CASE j < i
  <2>1. j \in 1..(Len(s) - 1)
    BY <1>1, <1>2
  <2> QED
    BY <1>1, <1>2, <2>1
<1>3. CASE ~(j < i)
  <2>1. j - 1 \in 1..(Len(s) - 1) /\ ~(j - 1 < i) /\ (j - 1) + 1 = j
    BY <1>1, <1>3
  <2> QED
    BY <1>1, <2>1
<1> QED
  BY <1>2, <1>3

-----------------------------------------------------------------------------
(* Types *)

Ops == {"read", "blob", "write", "prep", "exec", "cancel"}
Refusals == {e \in Errors : \E k : <<k, e>> \in PeerErrors}
Reqs == [op : Ops, by : Tasks, off : Nat, res : {"sent", "ok"} \cup Refusals]
Procs == [by : Tasks, op : {"read", "readLong", "write", "writeLong"}, off : Nat, len : Nat,
          stalled : BOOLEAN, live : BOOLEAN]
Places == {"idle", "send", "wait", "sendShort", "secure", "done"} \cup Inserting
Calls == [pc : Places, op : {"read", "write"}, len : Nat, retry : 0..1,
          value : Seq(Tasks \X Nat), rc : Results]

ReqsOf(h) == {r \in Reqs : Home[r.by] = h}
GoodProcs == {p \in Procs : p.off <= p.len}
GoodCalls == {c \in Calls : Len(c.value) <= AttrMax /\ (c.pc = "secure" => c.retry = 1)}

LinkTypes ==
  link \in [Conns -> {"up", "broken", "down"}] /\ silent \in [Conns -> BOOLEAN]
Bearer ==
  /\ busy \in [Conns -> BOOLEAN]
  /\ txq \in [Conns -> Seq(Reqs)] /\ air \in [Conns -> Seq(Reqs)]
  /\ \A h \in Conns : txq[h] \in Seq(ReqsOf(h)) /\ air[h] \in Seq(ReqsOf(h))
  /\ OneRequestOutstanding
ProcTypes == procs \in Seq(GoodProcs)
HostTypes ==
  /\ hpc \in {"idle", "dispatch", "insert", "again", "teardown"}
  /\ hpc = "dispatch" => hrsp \in [rsp : Reqs, conn : Conns]
  /\ hpc = "teardown" => hrsp.conn \in Conns
  /\ hpc \in {"insert", "again"} => hproc \in GoodProcs
  /\ hproc \in GoodProcs \cup {None}
CallTypes == call \in [Tasks -> GoodCalls] /\ bit \in [Tasks -> BOOLEAN]

Types == LinkTypes /\ Bearer /\ ProcTypes /\ HostTypes /\ CallTypes

LEMMA Homes == \A t \in Tasks : Home[t] \in Conns
BY TasksAssumption

LEMMA RequestTypes ==
  ASSUME NEW t \in Tasks, NEW op \in Ops, NEW off \in Nat
  PROVE  Request(op, t, off) \in ReqsOf(Home[t])
BY DEF Request, ReqsOf, Reqs

LEMMA NoCallTypes ==
  /\ NoCall \in GoodCalls
  /\ [NoCall EXCEPT !.pc = "send", !.retry = 1] \in GoodCalls
  /\ \A n \in Lengths :
       [NoCall EXCEPT !.pc = "send", !.op = "write", !.len = n, !.retry = 1] \in GoodCalls
<1>1. <<>> \in Seq(Tasks \X Nat) /\ Len(<<>>) <= AttrMax
  BY BoundsAssumption
<1>2. "idle" \in Places /\ "send" \in Places /\ "ok" \in Results
  BY DEF Places, Results
<1>3. \A pc \in {"idle", "send"}, op \in {"read", "write"}, len \in Nat, n \in 0..1 :
        [pc |-> pc, op |-> op, len |-> len, retry |-> n, value |-> <<>>, rc |-> "ok"] \in GoodCalls
  BY <1>1, <1>2 DEF GoodCalls, Calls
<1>4. 0 \in Nat /\ 0 \in 0..1 /\ 1 \in 0..1 /\ Lengths \subseteq Nat
  BY BoundsAssumption
<1>5. NoCall \in GoodCalls
  BY <1>3, <1>4 DEF NoCall
<1>6. ASSUME NEW c \in GoodCalls
      PROVE  /\ [c EXCEPT !.pc = "send", !.retry = 1] \in GoodCalls
             /\ \A n \in Nat :
                  [c EXCEPT !.pc = "send", !.op = "write", !.len = n, !.retry = 1] \in GoodCalls
  BY <1>2, <1>4, <1>6 DEF GoodCalls, Calls
<1> QED
  BY <1>4, <1>5, <1>6

LEMMA CallFields ==
  ASSUME NEW c \in GoodCalls
  PROVE  /\ \A pc \in Places \ {"secure"} : [c EXCEPT !.pc = pc] \in GoodCalls
         /\ \A rc \in Results : [c EXCEPT !.rc = rc] \in GoodCalls
         /\ \A pc \in Places \ {"secure"}, rc \in Results : [c EXCEPT !.pc = pc, !.rc = rc] \in GoodCalls
         /\ c.retry = 1 => [c EXCEPT !.pc = "secure"] \in GoodCalls
         /\ c.retry = 1 => [c EXCEPT !.pc = "send", !.retry = c.retry - 1] \in GoodCalls
         /\ [c EXCEPT !.pc = "send", !.len = 1] \in GoodCalls
<1>1. c \in Calls /\ Len(c.value) <= AttrMax /\ (c.pc = "secure" => c.retry = 1)
  BY DEF GoodCalls
<1>2. "send" \in Places /\ "secure" \in Places
  BY DEF Places
<1>3. \A pc \in Places \ {"secure"} : [c EXCEPT !.pc = pc] \in GoodCalls
  BY <1>1 DEF Calls, GoodCalls
<1>4. \A rc \in Results : [c EXCEPT !.rc = rc] \in GoodCalls
  BY <1>1 DEF Calls, GoodCalls
<1>5. \A pc \in Places \ {"secure"}, rc \in Results : [c EXCEPT !.pc = pc, !.rc = rc] \in GoodCalls
  BY <1>1 DEF Calls, GoodCalls
<1>6. c.retry = 1 => [c EXCEPT !.pc = "secure"] \in GoodCalls
  BY <1>1, <1>2 DEF Calls, GoodCalls
<1>7. c.retry = 1 => [c EXCEPT !.pc = "send", !.retry = c.retry - 1] \in GoodCalls
  <2>1. 0 \in 0..1
    OBVIOUS
  <2>2. [c EXCEPT !.pc = "send", !.retry = 0] \in GoodCalls
    BY <1>1, <1>2, <2>1 DEF Calls, GoodCalls
  <2>3. c.retry = 1 => c.retry - 1 = 0
    OBVIOUS
  <2> QED
    BY <2>2, <2>3
<1>8. [c EXCEPT !.pc = "send", !.len = 1] \in GoodCalls
  <2>1. 1 \in Nat
    OBVIOUS
  <2> QED
    BY <1>1, <1>2, <2>1 DEF Calls, GoodCalls
<1> QED
  BY <1>3, <1>4, <1>5, <1>6, <1>7, <1>8

LEMMA CallUpdate ==
  ASSUME CallTypes, NEW t \in Tasks, NEW c \in GoodCalls, call' = [call EXCEPT ![t] = c],
         bit' \in [Tasks -> BOOLEAN]
  PROVE  CallTypes'
BY Zenon DEF CallTypes

LEMMA AfterWaitTypes ==
  ASSUME NEW c \in GoodCalls
  PROVE  AfterWait(c) \in GoodCalls
<1>1. {"done", "sendShort", "send"} \subseteq Places \ {"secure"}
  BY DEF Places
<1>2. c.retry \in 0..1
  BY DEF GoodCalls, Calls
<1>3. c.retry > 0 => c.retry = 1
  BY <1>2
<1> DEFINE d == [c EXCEPT !.pc = "done"]
           e == [c EXCEPT !.pc = "sendShort"]
           f == [c EXCEPT !.pc = "send", !.len = 1]
           g == [c EXCEPT !.pc = "secure"]
<1>4. d \in GoodCalls /\ e \in GoodCalls /\ f \in GoodCalls /\ (c.retry = 1 => g \in GoodCalls)
  BY <1>1, CallFields, Zenon
<1>5. AfterWait(c) \in {d, e, f} \/ (c.retry > 0 /\ AfterWait(c) = g)
  BY DEF AfterWait
<1> HIDE DEF d, e, f, g
<1> QED
  BY <1>3, <1>4, <1>5

-----------------------------------------------------------------------------
(* The bearer *)

LEMMA TransmitKeeps ==
  ASSUME Bearer, link' = link, NEW h \in Conns, NEW r \in ReqsOf(h), Transmit(h, r)
  PROVE  Bearer'
<1>1. r \in Reqs
  BY DEF ReqsOf
<1>2. \A q \in Seq(Reqs) : Append(q, r) \in Seq(Reqs) /\ Len(Append(q, r)) = Len(q) + 1
  BY <1>1
<1>3. \A q \in Seq(ReqsOf(h)) : Append(q, r) \in Seq(ReqsOf(h))
  OBVIOUS
<1>4. CASE busy[h]
  <2>1. txq' = [txq EXCEPT ![h] = Append(@, r)] /\ UNCHANGED <<busy, air>>
    BY <1>4 DEF Transmit
  <2>2. txq' \in [Conns -> Seq(Reqs)] /\ txq'[h] = Append(txq[h], r)
        /\ \A k \in Conns : k # h => txq'[k] = txq[k]
    BY <1>2, <2>1 DEF Bearer
  <2>3. ASSUME NEW k \in Conns PROVE txq'[k] \in Seq(ReqsOf(k)) /\ air'[k] \in Seq(ReqsOf(k))
    BY <1>3, <2>1, <2>2 DEF Bearer
  <2>4. OneRequestOutstanding'
    BY <1>4, <2>1, <2>2 DEF Bearer, OneRequestOutstanding
  <2> QED
    BY <2>1, <2>2, <2>3, <2>4 DEF Bearer
<1>5. CASE ~busy[h]
  <2>1. /\ air' = [air EXCEPT ![h] = Append(@, r)]
        /\ busy' = [busy EXCEPT ![h] = TRUE] /\ UNCHANGED txq
    BY <1>5 DEF Transmit
  <2>2. /\ air' \in [Conns -> Seq(Reqs)] /\ air'[h] = Append(air[h], r)
        /\ \A k \in Conns : k # h => air'[k] = air[k]
    BY <1>2, <2>1 DEF Bearer
  <2>3. busy' \in [Conns -> BOOLEAN] /\ busy'[h] /\ \A k \in Conns : k # h => busy'[k] = busy[k]
    BY <2>1 DEF Bearer
  <2>4. ASSUME NEW k \in Conns PROVE txq'[k] \in Seq(ReqsOf(k)) /\ air'[k] \in Seq(ReqsOf(k))
    BY <1>3, <2>1, <2>2 DEF Bearer
  <2>5. OneRequestOutstanding'
    <3>1. link[h] = "up" => Len(air'[h]) = 1
      <4>1. link[h] = "up" => Len(air[h]) = 0
        BY <1>5 DEF Bearer, OneRequestOutstanding
      <4>2. Len(air'[h]) = Len(air[h]) + 1
        BY <1>2, <2>2 DEF Bearer
      <4> QED
        BY <4>1, <4>2
    <3>2. ASSUME NEW k \in Conns, link[k] = "up"
          PROVE  Len(air'[k]) = (IF busy'[k] THEN 1 ELSE 0) /\ (busy'[k] \/ txq'[k] = <<>>)
      <4>1. CASE k = h
        BY <2>3, <3>1, <3>2, <4>1
      <4>2. CASE k # h
        BY <2>1, <2>2, <2>3, <3>2, <4>2 DEF Bearer, OneRequestOutstanding
      <4> QED
        BY <4>1, <4>2
    <3> QED
      BY <3>2 DEF OneRequestOutstanding
  <2> QED
    BY <2>1, <2>2, <2>3, <2>4, <2>5 DEF Bearer
<1> QED
  BY <1>4, <1>5

LEMMA SendOutstandingKeeps ==
  ASSUME Bearer, link' = link, NEW h \in Conns, air[h] # <<>>, link[h] = "up", SendOutstanding(h)
  PROVE  Bearer'
<1>0. /\ air \in [Conns -> Seq(Reqs)] /\ txq \in [Conns -> Seq(Reqs)] /\ busy \in [Conns -> BOOLEAN]
      /\ air[h] \in Seq(ReqsOf(h)) /\ txq[h] \in Seq(ReqsOf(h))
      /\ air[h] \in Seq(Reqs) /\ txq[h] \in Seq(Reqs)
  BY DEF Bearer
<1>1. Len(air[h]) # 0
  BY <1>0
<1>2. busy[h] /\ Len(air[h]) = 1
  BY <1>1 DEF Bearer, OneRequestOutstanding
<1>3. Tail(air[h]) \in Seq(ReqsOf(h)) /\ Tail(air[h]) \in Seq(Reqs) /\ Len(Tail(air[h])) = 0
  BY <1>0, <1>2
<1>4. CASE txq[h] = <<>>
  <2>1. /\ busy' = [busy EXCEPT ![h] = FALSE] /\ air' = [air EXCEPT ![h] = Tail(@)] /\ txq' = txq
    BY <1>4 DEF SendOutstanding
  <2>2. /\ air' \in [Conns -> Seq(Reqs)] /\ air'[h] = Tail(air[h]) /\ ~busy'[h]
        /\ busy' \in [Conns -> BOOLEAN]
        /\ \A k \in Conns : k # h => air'[k] = air[k] /\ busy'[k] = busy[k]
    BY <1>0, <1>3, <2>1
  <2>3. OneRequestOutstanding'
    <3>1. ASSUME NEW k \in Conns, link[k] = "up"
          PROVE  Len(air'[k]) = (IF busy'[k] THEN 1 ELSE 0) /\ (busy'[k] \/ txq'[k] = <<>>)
      <4>1. CASE k = h
        BY <1>3, <1>4, <2>1, <2>2, <4>1
      <4>2. CASE k # h
        BY <2>1, <2>2, <3>1, <4>2 DEF Bearer, OneRequestOutstanding
      <4> QED
        BY <4>1, <4>2
    <3> QED
      BY <3>1 DEF OneRequestOutstanding
  <2>4. \A k \in Conns : txq'[k] \in Seq(ReqsOf(k)) /\ air'[k] \in Seq(ReqsOf(k))
    BY <1>3, <2>1, <2>2 DEF Bearer
  <2> QED
    BY <1>0, <2>1, <2>2, <2>3, <2>4 DEF Bearer
<1>5. CASE txq[h] # <<>>
  <2>1. /\ air' = [air EXCEPT ![h] = Append(Tail(@), Head(txq[h]))]
        /\ txq' = [txq EXCEPT ![h] = Tail(@)] /\ busy' = busy
    BY <1>5 DEF SendOutstanding
  <2>2. /\ Tail(txq[h]) \in Seq(ReqsOf(h)) /\ Tail(txq[h]) \in Seq(Reqs)
        /\ Head(txq[h]) \in ReqsOf(h) /\ Head(txq[h]) \in Reqs
    BY <1>0, <1>5
  <2> DEFINE new == Append(Tail(air[h]), Head(txq[h]))
  <2>3. new \in Seq(ReqsOf(h)) /\ new \in Seq(Reqs) /\ Len(new) = 1
    BY <1>3, <2>2
  <2> HIDE DEF new
  <2>4. /\ air' \in [Conns -> Seq(Reqs)] /\ air'[h] = new
        /\ txq' \in [Conns -> Seq(Reqs)] /\ txq'[h] = Tail(txq[h])
        /\ \A k \in Conns : k # h => air'[k] = air[k] /\ txq'[k] = txq[k]
    BY <1>0, <2>1, <2>2, <2>3 DEF new
  <2>5. OneRequestOutstanding'
    <3>1. ASSUME NEW k \in Conns, link[k] = "up"
          PROVE  Len(air'[k]) = (IF busy'[k] THEN 1 ELSE 0) /\ (busy'[k] \/ txq'[k] = <<>>)
      <4>1. CASE k = h
        BY <1>2, <2>1, <2>3, <2>4, <4>1
      <4>2. CASE k # h
        BY <2>1, <2>4, <3>1, <4>2 DEF Bearer, OneRequestOutstanding
      <4> QED
        BY <4>1, <4>2
    <3> QED
      BY <3>1 DEF OneRequestOutstanding
  <2>6. \A k \in Conns : txq'[k] \in Seq(ReqsOf(k)) /\ air'[k] \in Seq(ReqsOf(k))
    BY <2>2, <2>3, <2>4 DEF Bearer
  <2> QED
    BY <1>0, <2>1, <2>4, <2>5, <2>6 DEF Bearer
<1> QED
  BY <1>4, <1>5

LEMMA BearerFrame ==
  ASSUME Bearer, UNCHANGED <<attVars, link>>
  PROVE  Bearer'
BY DEF Bearer, OneRequestOutstanding, attVars

-----------------------------------------------------------------------------
(* Each step keeps the types. *)

LEMMA CallbackTypes ==
  ASSUME CallTypes, NEW p \in GoodProcs, NEW rc \in Results, Callback(p, rc)
  PROVE  CallTypes'
<1>1. p.by \in Tasks
  BY DEF GoodProcs, Procs
<1>2. CASE UNCHANGED callVars
  BY <1>2 DEF callVars, CallTypes
<1>3. CASE call' = [call EXCEPT ![p.by].rc = rc] /\ bit' = [bit EXCEPT ![p.by] = TRUE]
  <2>1. [call[p.by] EXCEPT !.rc = rc] \in GoodCalls
    BY <1>1, CallFields, Zenon DEF CallTypes
  <2>2. call' = [call EXCEPT ![p.by] = [call[p.by] EXCEPT !.rc = rc]]
    BY <1>1, <1>3 DEF CallTypes
  <2>3. bit' \in [Tasks -> BOOLEAN]
    BY <1>3 DEF CallTypes
  <2> QED
    BY <1>1, <2>1, <2>2, <2>3, CallUpdate, Zenon
<1> QED
  BY <1>2, <1>3 DEF Callback

LEMMA AppKeepsTypes ==
  ASSUME Types, NEW t \in Tasks, AppNext(t)
  PROVE  Types'
<1>0. call[t] \in GoodCalls /\ call \in [Tasks -> GoodCalls] /\ bit \in [Tasks -> BOOLEAN] /\ link' = link
  BY DEF Types, CallTypes, AppNext, readValue, writeValue, Send, Insert, Wake, Secure, Return
<1>1. LinkTypes'
  BY DEF AppNext, readValue, writeValue, Send, Insert, Wake, Secure, Return, peerVars, Types, LinkTypes
<1>2. CASE readValue(t)
  <2>1. CallTypes'
    BY <1>0, <1>2, NoCallTypes, CallUpdate DEF readValue, Types
  <2> QED
    BY <1>1, <1>2, <2>1, BearerFrame DEF readValue, Types, ProcTypes, HostTypes, hostVars
<1>3. CASE writeValue(t)
  <2>1. CallTypes'
    BY <1>0, <1>3, NoCallTypes, CallUpdate DEF writeValue, Types
  <2> QED
    BY <1>1, <1>3, <2>1, BearerFrame DEF writeValue, Types, ProcTypes, HostTypes, hostVars
<1>4. CASE Send(t)
  <2>0. ProcTypes' /\ HostTypes' /\ bit' = bit
    BY <1>4 DEF Send, Types, ProcTypes, HostTypes, hostVars
  <2>1. ASSUME Transmit(Home[t], FirstRequest(t)),
               call' = [call EXCEPT ![t].pc = IF @ = "send" THEN "insert" ELSE "insertShort"]
        PROVE  Types'
    <3>1. FirstRequest(t) \in ReqsOf(Home[t])
      <4>1. {"read", "write", "prep"} \subseteq Ops /\ 0 \in Nat
        BY DEF Ops
      <4> QED
        BY <4>1, RequestTypes DEF FirstRequest
    <3>2. Bearer'
      BY <1>0, <2>1, <3>1, Homes, TransmitKeeps DEF Types
    <3> DEFINE pc == IF call[t].pc = "send" THEN "insert" ELSE "insertShort"
    <3>3. pc \in Places \ {"secure"}
      BY DEF Places, Inserting
    <3>4. call' = [call EXCEPT ![t] = [call[t] EXCEPT !.pc = pc]]
      BY <1>0, <2>1, SMTT(60)
    <3> HIDE DEF pc
    <3>5. [call[t] EXCEPT !.pc = pc] \in GoodCalls
      BY <1>0, <3>3, CallFields, Zenon
    <3>6. CallTypes'
      BY <1>0, <2>0, <3>4, <3>5, CallUpdate DEF Types
    <3> QED
      BY <1>1, <2>0, <3>2, <3>6 DEF Types
  <2>2. ASSUME NEW rc \in Results, Finish(t, rc), UNCHANGED attVars
        PROVE  Types'
    <3>1. call' = [call EXCEPT ![t] = [call[t] EXCEPT !.pc = "done", !.rc = rc]]
      BY <1>0, <2>2, Zenon DEF Finish
    <3>2. "done" \in Places \ {"secure"}
      BY DEF Places
    <3>3. [call[t] EXCEPT !.pc = "done", !.rc = rc] \in GoodCalls
      BY <1>0, <3>2, CallFields, Zenon
    <3>4. CallTypes'
      BY <1>0, <2>0, <3>1, <3>3, CallUpdate DEF Types
    <3> QED
      BY <1>0, <1>1, <2>0, <2>2, <3>4, BearerFrame DEF Types
  <2>3. "notConn" \in Results /\ "noMem" \in Results
    BY DEF Results
  <2> QED
    BY <1>4, <2>1, <2>2, <2>3 DEF Send
<1>5. CASE Insert(t)
  <2> DEFINE p == [by |-> t, op |-> ProcOp(t), off |-> 0, len |-> call[t].len,
                   stalled |-> FALSE, live |-> TRUE]
  <2>1. p \in GoodProcs
    <3>1. ProcOp(t) \in {"read", "readLong", "write", "writeLong"}
      BY DEF ProcOp
    <3>2. call[t].len \in Nat
      BY <1>0 DEF GoodCalls, Calls
    <3>3. 0 <= call[t].len
      BY <3>2
    <3> QED
      BY <3>1, <3>2, <3>3 DEF GoodProcs, Procs
  <2>2. procs' = Append(procs, p)
    BY <1>5 DEF Insert
  <2> HIDE DEF p
  <2>3. ProcTypes'
    BY <2>1, <2>2 DEF Types, ProcTypes
  <2> DEFINE pc == IF call[t].pc = "insert" THEN "wait" ELSE "done"
             rc == IF call[t].pc = "insert" THEN call[t].rc ELSE "ok"
  <2>4. pc \in Places \ {"secure"} /\ rc \in Results
    BY <1>0 DEF Places, GoodCalls, Calls, Results
  <2>5. call' = [call EXCEPT ![t] = [call[t] EXCEPT !.pc = pc, !.rc = rc]]
    BY <1>0, <1>5, Zenon DEF Insert
  <2> HIDE DEF pc, rc
  <2>6. [call[t] EXCEPT !.pc = pc, !.rc = rc] \in GoodCalls
    BY <1>0, <2>4, CallFields, Zenon
  <2>7. CallTypes'
    BY <1>0, <1>5, <2>5, <2>6, CallUpdate DEF Types, Insert
  <2> QED
    BY <1>0, <1>1, <1>5, <2>3, <2>7, BearerFrame DEF Insert, Types, HostTypes, hostVars
<1>6. CASE Wake(t)
  <2>1. call' = [call EXCEPT ![t] = AfterWait(call[t])] /\ bit' \in [Tasks -> BOOLEAN]
    BY <1>0, <1>6 DEF Wake
  <2>2. AfterWait(call[t]) \in GoodCalls
    BY <1>0, AfterWaitTypes
  <2>3. CallTypes'
    BY <2>1, <2>2, CallUpdate DEF Types
  <2> QED
    BY <1>0, <1>1, <1>6, <2>3, BearerFrame DEF Wake, Types, ProcTypes, HostTypes, hostVars
<1>7. CASE Secure(t)
  <2>1. call[t].retry = 1
    BY <1>0, <1>7 DEF Secure, GoodCalls
  <2>2. \/ call' = [call EXCEPT ![t] = [call[t] EXCEPT !.pc = "send", !.retry = call[t].retry - 1]]
        \/ call' = [call EXCEPT ![t] = [call[t] EXCEPT !.pc = "done"]]
    <3>1. CASE call' = [call EXCEPT ![t].pc = "send", ![t].retry = @ - 1]
      BY <1>0, <3>1, ZenonT(40)
    <3>2. CASE call' = [call EXCEPT ![t].pc = "done"]
      BY <1>0, <3>2
    <3> QED
      BY <1>7, <3>1, <3>2 DEF Secure
  <2>3. [call[t] EXCEPT !.pc = "send", !.retry = call[t].retry - 1] \in GoodCalls
    BY <1>0, <2>1, CallFields, Zenon
  <2>4. [call[t] EXCEPT !.pc = "done"] \in GoodCalls
    BY <1>0, CallFields, Zenon DEF Places
  <2>5. CallTypes'
    BY <1>0, <1>7, <2>2, <2>3, <2>4, CallUpdate DEF Secure, Types
  <2> QED
    BY <1>0, <1>1, <1>7, <2>5, BearerFrame DEF Secure, Types, ProcTypes, HostTypes, hostVars
<1>8. CASE Return(t)
  <2>1. CallTypes'
    BY <1>0, <1>8, NoCallTypes, CallUpdate DEF Return, Types
  <2>2. \A p \in GoodProcs : [p EXCEPT !.live = FALSE] \in GoodProcs
    BY DEF GoodProcs, Procs
  <2>3. ProcTypes'
    <3>1. /\ procs' = [i \in DOMAIN procs |->
                         IF procs[i].by = t THEN [procs[i] EXCEPT !.live = FALSE] ELSE procs[i]]
          /\ procs \in Seq(GoodProcs)
      BY <1>8 DEF Return, Types, ProcTypes
    <3>2. \A i \in DOMAIN procs : procs'[i] \in GoodProcs
      BY <2>2, <3>1
    <3>3. DOMAIN procs = 1..Len(procs) /\ Len(procs) \in Nat /\ DOMAIN procs' = DOMAIN procs
      BY <3>1
    <3>4. procs' = [i \in 1..Len(procs) |-> procs'[i]]
      BY <3>1, <3>3
    <3> QED
      BY <3>2, <3>3, <3>4 DEF ProcTypes
  <2>4. HostTypes'
    <3>1. CASE hproc' = hproc
      BY <1>8, <3>1 DEF Return, Types, HostTypes
    <3>2. CASE hproc # None /\ hproc' = [hproc EXCEPT !.live = FALSE]
      <4>1. hproc \in GoodProcs
        BY <3>2 DEF Types, HostTypes
      <4>2. hproc' \in GoodProcs
        BY <2>2, <3>2, <4>1
      <4> QED
        BY <1>8, <4>2 DEF Return, Types, HostTypes
    <3> QED
      BY <1>8, <3>1, <3>2 DEF Return
  <2> QED
    BY <1>0, <1>1, <1>8, <2>1, <2>3, <2>4, BearerFrame DEF Return, Types
<1> QED
  BY <1>2, <1>3, <1>4, <1>5, <1>6, <1>7, <1>8 DEF AppNext
-----------------------------------------------------------------------------
(* The host's handlers *)

LEMMA ProcFields ==
  ASSUME NEW p \in GoodProcs
  PROVE  /\ p.by \in Tasks /\ p.off \in Nat /\ p.len \in Nat /\ p.off <= p.len
         /\ \A b \in BOOLEAN : [p EXCEPT !.stalled = b] \in GoodProcs
         /\ [p EXCEPT !.live = FALSE] \in GoodProcs
         /\ p.off < p.len => [p EXCEPT !.off = @ + 1] \in GoodProcs
         /\ [p EXCEPT !.off = @ + 1, !.len = @ + 1] \in GoodProcs
<1>1. p \in Procs /\ p.off \in Nat /\ p.len \in Nat /\ p.off <= p.len
  BY DEF GoodProcs, Procs
<1>2. \A n, m \in Nat : n <= m => [p EXCEPT !.off = n, !.len = m] \in GoodProcs
  BY <1>1 DEF GoodProcs, Procs
<1>3. \A n \in Nat : n <= p.len => [p EXCEPT !.off = n] \in GoodProcs
  BY <1>1 DEF GoodProcs, Procs
<1>4. p.off + 1 \in Nat /\ p.len + 1 \in Nat /\ p.off + 1 <= p.len + 1
      /\ (p.off < p.len => p.off + 1 <= p.len)
  BY <1>1
<1>5. \A b \in BOOLEAN : [p EXCEPT !.stalled = b] \in GoodProcs
  BY <1>1 DEF GoodProcs, Procs
<1>6. [p EXCEPT !.live = FALSE] \in GoodProcs /\ p.by \in Tasks
  BY <1>1 DEF GoodProcs, Procs
<1>7. [p EXCEPT !.off = p.off + 1, !.len = p.len + 1] \in GoodProcs
  BY <1>2, <1>4
<1>8. p.off < p.len => [p EXCEPT !.off = p.off + 1] \in GoodProcs
  BY <1>3, <1>4
<1> QED
  BY <1>1, <1>5, <1>6, <1>7, <1>8

LEMMA DoneTypes == HostDone => HostTypes'
BY DEF HostDone, NoRsp, HostTypes

LEMMA KeepsTypes ==
  ASSUME NEW p \in GoodProcs, HostKeeps(p)
  PROVE  HostTypes'
BY DEF HostKeeps, NoRsp, HostTypes

LEMMA CallFrame == CallTypes /\ UNCHANGED callVars => CallTypes'
BY DEF CallTypes, callVars

(* The answers and the chunks of a value *)
LEMMA Appended == \A S : \A q \in Seq(S), x \in S : Append(q, x) \in Seq(S) /\ Len(Append(q, x)) = Len(q) + 1
BY SMTT(60)

LEMMA ChunkTypes ==
  ASSUME CallTypes, NEW p \in GoodProcs, NEW r \in Reqs, ~ValueFull(p)
  PROVE  \A rc \in Results :
           /\ [call[p.by] EXCEPT !.value = Append(call[p.by].value, <<r.by, r.off>>)] \in GoodCalls
           /\ [call[p.by] EXCEPT !.value = Append(call[p.by].value, <<r.by, r.off>>), !.rc = rc]
                \in GoodCalls
<1>1. PICK c \in GoodCalls : c = call[p.by]
  BY ProcFields DEF CallTypes
<1>2. PICK x \in Tasks \X Nat : x = <<r.by, r.off>>
  BY DEF Reqs
<1>3. c.value \in Seq(Tasks \X Nat)
  BY DEF GoodCalls, Calls
<1>4. PICK v \in Seq(Tasks \X Nat) : v = Append(c.value, x)
  BY <1>3, Appended
<1>5. Len(v) <= AttrMax
  <2>1. Len(v) = Len(c.value) + 1
    BY <1>3, <1>4, Appended
  <2>2. ~(Len(c.value) >= AttrMax)
    BY <1>1 DEF ValueFull
  <2> QED
    BY <1>3, <2>1, <2>2, BoundsAssumption
<1>6. [c EXCEPT !.value = v] \in GoodCalls
  BY <1>5 DEF GoodCalls, Calls
<1>7. \A rc \in Results : [c EXCEPT !.value = v, !.rc = rc] \in GoodCalls
  BY <1>5 DEF GoodCalls, Calls
<1> QED
  BY <1>1, <1>2, <1>4, <1>6, <1>7, Zenon

LEMMA AddChunkTypes ==
  ASSUME CallTypes, NEW p \in GoodProcs, NEW r \in Reqs, ~(Heard(p) /\ ValueFull(p)), AddChunk(p, r)
  PROVE  CallTypes'
<1>1. CASE Heard(p)
  <2>1. call' = [call EXCEPT ![p.by] =
                   [call[p.by] EXCEPT !.value = Append(call[p.by].value, <<r.by, r.off>>)]]
    BY <1>1, ProcFields DEF AddChunk, CallTypes
  <2>2. "ok" \in Results
    BY SMTT(60) DEF Results
  <2>3. [call[p.by] EXCEPT !.value = Append(call[p.by].value, <<r.by, r.off>>)] \in GoodCalls
    BY <1>1, <2>2, ChunkTypes
  <2>4. bit' \in [Tasks -> BOOLEAN]
    BY DEF AddChunk, CallTypes
  <2> QED
    BY <2>1, <2>3, <2>4, ProcFields, CallUpdate
<1>2. CASE ~Heard(p)
  BY <1>2 DEF AddChunk, CallTypes
<1> QED
  BY <1>1, <1>2, SMTT(60)

LEMMA ResumeKeeps ==
  ASSUME Bearer, link' = link, NEW p \in GoodProcs, NEW r \in ReqsOf(Home[p.by]), Resume(p, r)
  PROVE  Bearer' /\ HostTypes'
<1>1. p.by \in Tasks /\ Home[p.by] \in Conns
  BY ProcFields, Homes
<1>2. [p EXCEPT !.stalled = FALSE] \in GoodProcs /\ [p EXCEPT !.stalled = TRUE] \in GoodProcs
  BY ProcFields
<1>3. CASE Transmit(Home[p.by], r) /\ HostKeeps([p EXCEPT !.stalled = FALSE])
  BY <1>1, <1>2, <1>3, TransmitKeeps, KeepsTypes
<1>4. CASE HostKeeps([p EXCEPT !.stalled = TRUE]) /\ UNCHANGED attVars
  BY <1>2, <1>4, BearerFrame, KeepsTypes
<1> QED
  BY <1>3, <1>4 DEF Resume

LEMMA ResumeWriteKeeps ==
  ASSUME Bearer, CallTypes, link' = link, NEW p \in GoodProcs, ResumeWrite(p)
  PROVE  Bearer' /\ CallTypes' /\ HostTypes'
<1>1. CASE Callback(p, "invalid") /\ hpc' = "again" /\ hproc' = p /\ NoRsp /\ UNCHANGED attVars
  <2>1. "invalid" \in Results
    BY DEF Results
  <2>2. CallTypes'
    BY <1>1, <2>1, CallbackTypes
  <2>3. HostTypes'
    BY <1>1 DEF HostTypes, NoRsp
  <2> QED
    BY <1>1, <2>2, <2>3, BearerFrame
<1>2. CASE Resume(p, NextWrite(p)) /\ UNCHANGED callVars
  <2>1. NextWrite(p) \in ReqsOf(Home[p.by])
    <3>1. p.by \in Tasks /\ p.off \in Nat /\ {"exec", "prep"} \subseteq Ops
      BY ProcFields DEF Ops
    <3> QED
      BY <3>1, RequestTypes DEF NextWrite
  <2> QED
    BY <1>2, <2>1, ResumeKeeps, CallFrame
<1> QED
  BY <1>1, <1>2 DEF ResumeWrite

LEMMA ReadLongKeeps ==
  ASSUME Bearer, CallTypes, link' = link, NEW p \in GoodProcs, NEW r \in Reqs, ReadLongRsp(p, r)
  PROVE  Bearer' /\ CallTypes' /\ HostTypes'
<1>1. "invalid" \in Results /\ "done" \in Results
  BY DEF Results
<1>2. CASE Callback(p, "invalid") /\ HostDone /\ UNCHANGED attVars
  BY <1>1, <1>2, CallbackTypes, DoneTypes, BearerFrame
<1>3. CASE HostDone /\ UNCHANGED <<attVars, callVars>>
  BY <1>3, CallFrame, DoneTypes, BearerFrame
<1> DEFINE q == [p EXCEPT !.off = @ + 1, !.len = @ + 1]
<1>4. CASE /\ ~(Heard(p) /\ ValueFull(p)) /\ AddChunk(p, r)
           /\ Resume(q, Request("blob", p.by, q.off))
  <2>1. q \in GoodProcs /\ q.by = p.by
    BY ProcFields DEF GoodProcs, Procs
  <2> HIDE DEF q
  <2>2. q.off \in Nat /\ p.by \in Tasks /\ "blob" \in Ops
    BY <2>1, ProcFields DEF Ops
  <2>3. Request("blob", p.by, q.off) \in ReqsOf(Home[q.by])
    BY <2>1, <2>2, RequestTypes
  <2> QED
    BY <1>4, <2>1, <2>3, ResumeKeeps, AddChunkTypes
<1>5. CASE /\ ~(Heard(p) /\ ValueFull(p))
           /\ call' = IF Heard(p)
                      THEN [call EXCEPT ![p.by].value = Append(@, <<r.by, r.off>>),
                                        ![p.by].rc = "done"]
                      ELSE call
           /\ bit' = [bit EXCEPT ![p.by] = @ \/ Heard(p)]
           /\ HostDone /\ UNCHANGED attVars
  <2>1. bit' \in [Tasks -> BOOLEAN]
    BY <1>5 DEF CallTypes, Heard
  <2>2. CASE Heard(p)
    <3>1. call' = [call EXCEPT ![p.by] =
                     [call[p.by] EXCEPT !.value = Append(call[p.by].value, <<r.by, r.off>>),
                                        !.rc = "done"]]
      BY <1>5, <2>2, ProcFields DEF CallTypes
    <3>2. [call[p.by] EXCEPT !.value = Append(call[p.by].value, <<r.by, r.off>>), !.rc = "done"]
            \in GoodCalls
      BY <1>1, <1>5, <2>2, ChunkTypes, Zenon
    <3>3. CallTypes'
      BY <2>1, <3>1, <3>2, ProcFields, CallUpdate
    <3> QED
      BY <1>5, <3>3, DoneTypes, BearerFrame
  <2>3. CASE ~Heard(p)
    <3>1. CallTypes'
      BY <1>5, <2>1, <2>3 DEF CallTypes
    <3> QED
      BY <1>5, <3>1, DoneTypes, BearerFrame
  <2> QED
    BY <2>2, <2>3
<1> QED
  BY <1>2, <1>3, <1>4, <1>5 DEF ReadLongRsp

LEMMA HandleRspKeeps ==
  ASSUME Bearer, CallTypes, link' = link, NEW p \in GoodProcs, NEW r \in Reqs, HandleRsp(p, r)
  PROVE  Bearer' /\ CallTypes' /\ HostTypes'
<1>1. {"invalid", "ok", "badData"} \subseteq Results
  BY DEF Results
<1>2. CASE r.res \in Errors
  <2>1. r.res \in Results
    BY <1>2 DEF Results
  <2>2. ErrorRsp(p, r.res)
    BY <1>2 DEF HandleRsp, Errors
  <2>3. CallTypes' /\ HostTypes'
    BY <2>1, <2>2, CallbackTypes, DoneTypes DEF ErrorRsp
  <2>4. "cancel" \in Ops /\ p.by \in Tasks /\ p.off \in Nat
    BY ProcFields DEF Ops
  <2>5. Request("cancel", p.by, p.off) \in ReqsOf(Home[p.by]) /\ Home[p.by] \in Conns
    BY <2>4, RequestTypes, Homes
  <2>6. Bearer'
    BY <2>2, <2>5, TransmitKeeps, BearerFrame DEF ErrorRsp
  <2> QED
    BY <2>3, <2>6
<1>3. CASE ReadLongRsp(p, r)
  BY <1>3, ReadLongKeeps
<1>4. CASE ReadRsp(p, r)
  <2>1. CallTypes'
    BY <1>1, <1>4, CallbackTypes, AddChunkTypes DEF ReadRsp
  <2> QED
    BY <1>4, <2>1, DoneTypes, BearerFrame DEF ReadRsp
<1>5. CASE Callback(p, "ok") /\ HostDone /\ UNCHANGED attVars
  BY <1>1, <1>5, CallbackTypes, DoneTypes, BearerFrame
<1>6. CASE PrepRsp(p, r)
  <2>1. CASE p.off < p.len /\ ResumeWrite([p EXCEPT !.off = @ + 1])
    <3>1. [p EXCEPT !.off = @ + 1] \in GoodProcs
      BY <2>1, ProcFields
    <3> QED
      BY <2>1, <3>1, ResumeWriteKeeps
  <2>2. CASE Callback(p, "badData") /\ HostDone /\ UNCHANGED attVars
    BY <1>1, <2>2, CallbackTypes, DoneTypes, BearerFrame
  <2> QED
    BY <1>6, <2>1, <2>2 DEF PrepRsp
<1>7. CASE ExecRsp(p)
  <2>1. CallTypes'
    BY <1>1, <1>7, CallbackTypes, CallFrame DEF ExecRsp
  <2> QED
    BY <1>7, <2>1, DoneTypes, BearerFrame DEF ExecRsp
<1> QED
  BY <1>2, <1>3, <1>4, <1>5, <1>6, <1>7 DEF HandleRsp

(* Taking procedures out of the list *)
LEMMA RemovedTypes ==
  ASSUME ProcTypes, NEW i \in DOMAIN procs
  PROVE  procs[i] \in GoodProcs /\ RemoveAt(procs, i) \in Seq(GoodProcs)
BY Removal DEF ProcTypes

LEMMA KeptTypes ==
  ASSUME ProcTypes, NEW K \in SUBSET DOMAIN procs, procs' = Kept(procs, K)
  PROVE  ProcTypes'
BY KeptPlaces DEF ProcTypes

(* The procedures that are left were in the list, and each is left once. *)
LEMMA KeptProcs ==
  ASSUME ProcTypes, NEW K \in SUBSET DOMAIN procs, procs' = Kept(procs, K)
  PROVE  \E from \in [DOMAIN procs' -> K] :
           /\ \A n \in DOMAIN procs' : procs'[n] = procs[from[n]]
           /\ \A n, m \in DOMAIN procs' : n # m => from[n] # from[m]
           /\ \A i \in K : \E n \in DOMAIN procs' : from[n] = i
<1>1. procs \in Seq(GoodProcs)
  BY DEF ProcTypes
<1> QED
  BY <1>1, KeptPlaces

LEMMA LinkFrame == LinkTypes /\ UNCHANGED <<link, silent>> => LinkTypes'
BY DEF LinkTypes

LEMMA HostKeepsTypes ==
  ASSUME Types, HostNext
  PROVE  Types'
<1>0. LinkTypes /\ Bearer /\ ProcTypes /\ HostTypes /\ CallTypes
  BY DEF Types
<1>1. ASSUME NEW h \in Conns, Receive(h) PROVE Types'
  <2>1. /\ UNCHANGED <<link, silent, procs, hproc, callVars>> /\ link[h] = "up" /\ air[h] # <<>>
        /\ SendOutstanding(h) /\ hpc' = "dispatch" /\ hrsp' = [rsp |-> Head(air[h]), conn |-> h]
    BY <1>1 DEF Receive, peerVars
  <2>2. Bearer'
    BY <1>0, <2>1, SendOutstandingKeeps
  <2>3. Head(air[h]) \in Reqs
    BY <1>0, <2>1 DEF Bearer
  <2>4. HostTypes'
    BY <1>0, <2>1, <2>3 DEF HostTypes
  <2>5. ProcTypes'
    BY <1>0, <2>1 DEF ProcTypes
  <2> QED
    BY <1>0, <2>1, <2>2, <2>4, <2>5, LinkFrame, CallFrame DEF Types
<1>2. ASSUME NEW h \in Conns, Break(h) PROVE Types'
  <2> DEFINE told(t) == \E p \in {p \in ToSet(procs) : OfConn(p, h)} : p.by = t /\ p.live
  <2>1. /\ call' = [t \in Tasks |-> IF told(t) THEN [call[t] EXCEPT !.rc = "notConn"] ELSE call[t]]
        /\ bit' = [t \in Tasks |-> bit[t] \/ told(t)]
    BY <1>2, SMTT(60) DEF Break
  <2> HIDE DEF told
  <2>2. ASSUME NEW t \in Tasks
        PROVE  call[t] \in GoodCalls /\ [call[t] EXCEPT !.rc = "notConn"] \in GoodCalls
    BY <1>0, CallFields, Zenon DEF CallTypes, Results
  <2>3. CallTypes'
    BY <2>1, <2>2 DEF CallTypes
  <2>4. {i \in DOMAIN procs : ~OfConn(procs[i], h)} \in SUBSET DOMAIN procs
    OBVIOUS
  <2>5. ProcTypes'
    <3>1. procs' = Kept(procs, {i \in DOMAIN procs : ~OfConn(procs[i], h)})
      BY <1>2 DEF Break
    <3> QED
      BY <1>0, <2>4, <3>1, KeptTypes
  <2>6. HostTypes'
    BY <1>2 DEF Break, HostTypes
  <2>7. LinkTypes'
    BY <1>0, <1>2 DEF Break, LinkTypes, peerVars
  <2>8. /\ txq' = [txq EXCEPT ![h] = <<>>] /\ UNCHANGED <<busy, air>>
        /\ link' = [link EXCEPT ![h] = "broken"]
    BY <1>2 DEF Break
  <2>9. txq' \in [Conns -> Seq(Reqs)] /\ \A k \in Conns : txq'[k] \in Seq(ReqsOf(k))
    BY <1>0, <2>8 DEF Bearer
  <2>10. \A k \in Conns : link'[k] = "up" => link[k] = "up" /\ k # h
    BY <1>0, <2>8 DEF LinkTypes
  <2>11. OneRequestOutstanding'
    BY <1>0, <2>8, <2>10 DEF OneRequestOutstanding, Bearer
  <2>12. Bearer'
    BY <1>0, <2>8, <2>9, <2>11 DEF Bearer
  <2> QED
    BY <2>3, <2>5, <2>6, <2>7, <2>12 DEF Types
<1>3. ASSUME NEW h \in Conns, Connect(h) PROVE Types'
  <2>1. /\ link' = [link EXCEPT ![h] = "up"] /\ busy' = [busy EXCEPT ![h] = FALSE]
        /\ txq' = [txq EXCEPT ![h] = <<>>] /\ air' = [air EXCEPT ![h] = <<>>]
        /\ silent' = [silent EXCEPT ![h] = FALSE]
        /\ UNCHANGED <<procs, hostVars, callVars>>
    BY <1>3 DEF Connect
  <2>2. LinkTypes'
    BY <1>0, <2>1 DEF LinkTypes
  <2>3. /\ busy' \in [Conns -> BOOLEAN]
        /\ txq' \in [Conns -> Seq(Reqs)] /\ air' \in [Conns -> Seq(Reqs)]
        /\ \A k \in Conns : txq'[k] \in Seq(ReqsOf(k)) /\ air'[k] \in Seq(ReqsOf(k))
    BY <1>0, <2>1 DEF Bearer
  <2>4. /\ ~busy'[h] /\ txq'[h] = <<>> /\ air'[h] = <<>> /\ Len(air'[h]) = 0
        /\ \A k \in Conns : k # h => /\ busy'[k] = busy[k] /\ txq'[k] = txq[k]
                                     /\ air'[k] = air[k] /\ link'[k] = link[k]
    BY <1>0, <2>1 DEF Bearer, LinkTypes
  <2>5. OneRequestOutstanding'
    BY <1>0, <2>4 DEF Bearer, OneRequestOutstanding
  <2> QED
    BY <1>0, <2>1, <2>2, <2>3, <2>5 DEF Types, Bearer, ProcTypes, HostTypes, CallTypes, hostVars, callVars
<1>4. CASE Dispatch
  <2>1. hrsp.rsp \in Reqs /\ UNCHANGED <<link, silent>>
    BY <1>0, <1>4 DEF Dispatch, HostTypes, peerVars
  <2>2. CASE HostDone /\ UNCHANGED <<attVars, procs, callVars>>
    BY <1>0, <2>1, <2>2, LinkFrame, BearerFrame, DoneTypes, CallFrame DEF Types, ProcTypes
  <2>3. ASSUME NEW i \in DOMAIN procs, procs' = RemoveAt(procs, i), HandleRsp(procs[i], hrsp.rsp)
        PROVE  Types'
    <3>1. procs[i] \in GoodProcs /\ ProcTypes'
      BY <1>0, <2>3, RemovedTypes DEF ProcTypes
    <3> QED
      BY <1>0, <2>1, <2>3, <3>1, HandleRspKeeps, LinkFrame DEF Types
  <2> QED
    BY <1>4, <2>2, <2>3 DEF Dispatch
<1>5. CASE Reinsert
  <2>1. /\ procs' = Append(procs, hproc) /\ hproc \in GoodProcs /\ HostDone
        /\ UNCHANGED <<link, attVars, callVars, silent>>
    BY <1>0, <1>5 DEF Reinsert, HostTypes, peerVars
  <2>2. ProcTypes'
    BY <1>0, <2>1 DEF ProcTypes
  <2> QED
    BY <1>0, <2>1, <2>2, LinkFrame, BearerFrame, DoneTypes, CallFrame DEF Types
<1>6. CASE CallbackAgain
  <2>1. /\ hproc \in GoodProcs /\ "invalid" \in Results /\ HostDone /\ Callback(hproc, "invalid")
        /\ UNCHANGED <<link, attVars, procs, silent>>
    BY <1>0, <1>6 DEF CallbackAgain, HostTypes, peerVars, Results
  <2>2. CallTypes'
    BY <1>0, <2>1, CallbackTypes
  <2> QED
    BY <1>0, <2>1, <2>2, LinkFrame, BearerFrame, DoneTypes DEF Types, ProcTypes
<1>7. CASE Expire
  <2>1. PICK i \in DOMAIN procs : /\ Callback(procs[i], "timeout") /\ procs' = RemoveAt(procs, i)
                                  /\ silent' = [silent EXCEPT ![Home[procs[i].by]] = ~LateAnswers]
    BY <1>7 DEF Expire
  <2>2. UNCHANGED <<link, attVars, hostVars>>
    BY <1>7 DEF Expire
  <2>3. procs[i] \in GoodProcs /\ ProcTypes' /\ "timeout" \in Results
    BY <1>0, <2>1, RemovedTypes DEF ProcTypes, Results
  <2>4. CallTypes'
    BY <1>0, <2>1, <2>3, CallbackTypes
  <2>5. LinkTypes'
    BY <1>0, <2>1, <2>2, FlagsAssumption DEF LinkTypes
  <2>6. HostTypes'
    BY <1>0, <2>2 DEF HostTypes, hostVars
  <2> QED
    BY <1>0, <2>2, <2>3, <2>4, <2>5, <2>6, BearerFrame DEF Types
<1>8. CASE ResumeStalled
  <2>1. UNCHANGED <<link, silent>>
    BY <1>8 DEF ResumeStalled, peerVars
  <2>2. ProcTypes'
    <3>1. procs' = Kept(procs, {i \in DOMAIN procs : ~procs[i].stalled})
      BY <1>8 DEF ResumeStalled
    <3>2. {i \in DOMAIN procs : ~procs[i].stalled} \in SUBSET DOMAIN procs
      OBVIOUS
    <3> QED
      BY <1>0, <3>1, <3>2, KeptTypes
  <2>3. PICK i \in DOMAIN procs :
          \/ Resume(procs[i], Request("blob", procs[i].by, procs[i].off)) /\ UNCHANGED callVars
          \/ ResumeWrite(procs[i])
    BY <1>8 DEF ResumeStalled
  <2>4. procs[i] \in GoodProcs
    BY <1>0 DEF ProcTypes
  <2>5. Request("blob", procs[i].by, procs[i].off) \in ReqsOf(Home[procs[i].by])
    <3>1. procs[i].by \in Tasks /\ procs[i].off \in Nat /\ "blob" \in Ops
      BY <2>4, ProcFields DEF Ops
    <3> QED
      BY <3>1, RequestTypes
  <2>6. Bearer' /\ CallTypes' /\ HostTypes'
    BY <1>0, <2>1, <2>3, <2>4, <2>5, ResumeKeeps, ResumeWriteKeeps, CallFrame
  <2> QED
    BY <1>0, <2>1, <2>2, <2>6, LinkFrame DEF Types
<1>9. CASE Delete
  <2>1. /\ link' = [link EXCEPT ![hrsp.conn] = "down"] /\ HostDone /\ hrsp.conn \in Conns
        /\ UNCHANGED <<attVars, procs, callVars, silent>>
    BY <1>0, <1>9 DEF Delete, HostTypes, peerVars
  <2>2. LinkTypes'
    BY <1>0, <2>1 DEF LinkTypes
  <2>3. \A k \in Conns : link'[k] = "up" => link[k] = "up"
    BY <1>0, <2>1 DEF LinkTypes
  <2>4. Bearer'
    BY <1>0, <2>1, <2>3 DEF Bearer, OneRequestOutstanding, attVars
  <2> QED
    BY <1>0, <2>1, <2>2, <2>4, DoneTypes, CallFrame DEF Types, ProcTypes
<1> QED
  BY <1>1, <1>2, <1>3, <1>4, <1>5, <1>6, <1>7, <1>8, <1>9 DEF HostNext

LEMMA AnswerKeepsTypes ==
  ASSUME Types, NEW h \in Conns, Answer(h)
  PROVE  Types'
<1>0. LinkTypes /\ Bearer /\ ProcTypes /\ HostTypes /\ CallTypes
  BY DEF Types
<1>1. PICK res \in {"ok"} \cup Refusals : air' = [air EXCEPT ![h] = [@ EXCEPT ![1].res = res]]
  BY DEF Answer, Refusals
<1>2. UNCHANGED <<link, busy, txq, procs, hostVars, callVars, silent>> /\ air[h] # <<>>
  BY DEF Answer
<1>3. PICK q \in Seq(ReqsOf(h)) : q = air[h]
  BY <1>0 DEF Bearer
<1>4. 1 \in DOMAIN q /\ q[1] \in ReqsOf(h) /\ ReqsOf(h) \subseteq Reqs
  BY <1>2, <1>3 DEF ReqsOf
<1>5. [q[1] EXCEPT !.res = res] \in ReqsOf(h)
  BY <1>4 DEF ReqsOf, Reqs
<1> DEFINE new == [q EXCEPT ![1] = [q[1] EXCEPT !.res = res]]
<1>6. air' = [air EXCEPT ![h] = new]
  BY <1>1, <1>3, <1>4
<1>7. new \in Seq(ReqsOf(h)) /\ Len(new) = Len(q)
  BY <1>4, <1>5
<1> HIDE DEF new
<1>8. new \in Seq(Reqs)
  BY <1>4, <1>7
<1>9. /\ air' \in [Conns -> Seq(Reqs)] /\ air'[h] = new
      /\ \A k \in Conns : k # h => air'[k] = air[k]
  BY <1>0, <1>6, <1>8 DEF Bearer
<1>10. \A k \in Conns : txq'[k] \in Seq(ReqsOf(k)) /\ air'[k] \in Seq(ReqsOf(k))
  BY <1>0, <1>2, <1>7, <1>9 DEF Bearer
<1>11. \A k \in Conns : Len(air'[k]) = Len(air[k])
  BY <1>3, <1>7, <1>9
<1>12. OneRequestOutstanding'
  BY <1>0, <1>2, <1>11 DEF OneRequestOutstanding, Bearer
<1>13. Bearer'
  BY <1>0, <1>2, <1>9, <1>10, <1>12 DEF Bearer
<1>14. LinkTypes' /\ ProcTypes' /\ HostTypes' /\ CallTypes'
  BY <1>0, <1>2 DEF LinkTypes, ProcTypes, HostTypes, CallTypes, hostVars, callVars
<1> QED
  BY <1>13, <1>14 DEF Types

LEMMA TypesInvariant == Spec => []Types
<1>1. Init => Types
  <2> SUFFICES ASSUME Init PROVE Types
    OBVIOUS
  <2>1. LinkTypes /\ ProcTypes /\ HostTypes
    BY DEF Init, LinkTypes, ProcTypes, HostTypes
  <2>2. CallTypes
    BY NoCallTypes DEF Init, CallTypes
  <2>3. Bearer
    BY DEF Init, Bearer, OneRequestOutstanding
  <2> QED
    BY <2>1, <2>2, <2>3 DEF Types
<1>2. Types /\ [Next]_vars => Types'
  <2> SUFFICES ASSUME Types, [Next]_vars PROVE Types'
    OBVIOUS
  <2>1. CASE UNCHANGED vars
    <3>1. LinkTypes' /\ ProcTypes' /\ HostTypes' /\ CallTypes'
      BY <2>1 DEF vars, Types, LinkTypes, ProcTypes, HostTypes, CallTypes, hostVars, callVars, peerVars
    <3> QED
      BY <2>1, <3>1, BearerFrame DEF vars, Types
  <2> QED
    BY <2>1, AppKeepsTypes, HostKeepsTypes, AnswerKeepsTypes DEF Next
<1> QED
  BY <1>1, <1>2, PTL DEF Spec

(* The model's type invariant holds (GattClient.cfg's TypeOK): in           *)
(* particular a value never grows past the largest attribute, however many   *)
(* answers onReadCB() is given, and a long write never goes past its data.   *)
THEOREM TypeCorrect == Spec => []TypeOK
<1>1. Types => TypeOK
  <2> SUFFICES ASSUME Types PROVE TypeOK
    OBVIOUS
  <2>1. ASSUME NEW h \in Conns, NEW r \in ToSet(air[h]) \cup ToSet(txq[h])
        PROVE  /\ r.by \in Tasks /\ Home[r.by] = h /\ r.off \in Nat
               /\ r.op \in {"read", "blob", "write", "prep", "exec", "cancel"}
               /\ r.res \in {"sent", "ok"} \cup Errors
    <3>1. r \in ReqsOf(h)
      BY DEF Types, Bearer, ToSet
    <3> QED
      BY <3>1 DEF ReqsOf, Reqs, Ops, Refusals
  <2>2. ASSUME NEW p \in ToSet(procs)
        PROVE  p.by \in Tasks /\ p.off <= p.len /\ {p.stalled, p.live} \subseteq BOOLEAN
    <3>1. p \in GoodProcs
      BY DEF Types, ProcTypes, ToSet
    <3> QED
      BY <3>1 DEF GoodProcs, Procs
  <2>3. ASSUME NEW t \in Tasks
        PROVE  /\ call[t].pc \in {"idle", "send", "wait", "sendShort", "secure", "done"} \cup Inserting
               /\ call[t].retry \in 0..1 /\ call[t].rc \in Results
               /\ Len(call[t].value) <= AttrMax
    BY DEF Types, CallTypes, GoodCalls, Calls, Places
  <2> QED
    BY <2>1, <2>2, <2>3 DEF TypeOK, Types, LinkTypes, Bearer, HostTypes, CallTypes
<1> QED
  BY <1>1, TypesInvariant, PTL

(* At most one request of a connection is unanswered (ble_att_tx_with_conn(), *)
(* ble_att_send_outstanding_after_response()), whatever the peer answers and  *)
(* however the tasks run inside each other.                                   *)
THEOREM OneRequest == Spec => []OneRequestOutstanding
<1>1. Types => OneRequestOutstanding
  BY DEF Types, Bearer
<1> QED
  BY <1>1, TypesInvariant, PTL

-----------------------------------------------------------------------------
(* Whose procedure it is *)

(* No peer says that an attribute is not long.  Without this readValue()     *)
(* starts its short read and does not wait for it.                           *)
NeverShort == \A k : <<k, "notLong">> \notin PeerErrors
(* Tasks that run inside the host's handlers write no more than an attribute *)
(* holds.  Without this a long write gets its callback twice, and the second *)
(* one may meet the task's next call.                                        *)
FitsIn(n) == Preempt => n <= AttrMax
LengthsFit == \A n \in Lengths : FitsIn(n)

Holding == hpc \in {"insert", "again"}
Awaited(p) == p.live /\ call[p.by].pc = "wait" /\ (p.op # "readLong" => FitsIn(p.len))
Owned(p) == Awaited(p) /\ ~bit[p.by]

ListOwned ==
  /\ \A i \in DOMAIN procs : Owned(procs[i])
  /\ \A i, j \in DOMAIN procs : i # j => procs[i].by # procs[j].by
HandOwned ==
  /\ hpc = "insert" => Owned(hproc)
  /\ hpc = "again" => ~Preempt /\ hproc.live /\ call[hproc.by].pc = "wait"
  /\ Holding => \A i \in DOMAIN procs : procs[i].by # hproc.by
  /\ ~Holding => hproc = None
(* Only a write is told so, and cut to one chunk, and only where any fits. *)
MayBeCut(c) == c.op = "write" /\ ~Preempt
CallOwn(c, b) ==
  /\ c.pc # "wait" => ~b
  /\ c.rc = "notLong" => MayBeCut(c)
  /\ FitsIn(c.len) /\ c.pc \notin {"sendShort", "insertShort"}
CallsOwn == \A t \in Tasks : CallOwn(call[t], bit[t])

Own == ListOwned /\ HandOwned /\ CallsOwn

(* What a handler may do to the calls: end the one it is about. *)
Ends(t) ==
  /\ \A u \in Tasks \ {t} : call'[u] = call[u] /\ bit'[u] = bit[u]
  /\ call'[t].pc = call[t].pc /\ call'[t].len = call[t].len /\ call'[t].op = call[t].op
  /\ call'[t].rc = "notLong" => MayBeCut(call[t])
(* Where a handler may leave the procedure that it took: nowhere, to be put  *)
(* back, or for its second callback.                                         *)
Leaves(p) ==
  \/ hpc' \notin {"insert", "again"} /\ hproc' = None
  \/ /\ hpc' = "insert" /\ hproc'.by = p.by /\ hproc'.live /\ ~bit'[p.by]
     /\ hproc'.op # "readLong" => FitsIn(hproc'.len)
  \/ hpc' = "again" /\ ~Preempt /\ hproc'.by = p.by /\ hproc'.live
(* The list afterwards, without the procedures of t *)
ListWithout(t) ==
  \E from \in [DOMAIN procs' -> DOMAIN procs] :
    /\ \A n \in DOMAIN procs' : procs'[n] = procs[from[n]] /\ procs[from[n]].by # t
    /\ \A n, m \in DOMAIN procs' : n # m => from[n] # from[m]

LEMMA EndingKeepsOwn ==
  ASSUME Types, Own, NEW p \in GoodProcs, call[p.by].pc = "wait",
         Ends(p.by), Leaves(p), ListWithout(p.by)
  PROVE  Own'
<1>0. p.by \in Tasks /\ \A i \in DOMAIN procs : procs[i].by \in Tasks
  <2>1. \A i \in DOMAIN procs : procs[i] \in GoodProcs
    BY DEF Types, ProcTypes
  <2> QED
    BY <2>1, ProcFields
<1>1. PICK from \in [DOMAIN procs' -> DOMAIN procs] :
        /\ \A n \in DOMAIN procs' : procs'[n] = procs[from[n]] /\ procs[from[n]].by # p.by
        /\ \A n, m \in DOMAIN procs' : n # m => from[n] # from[m]
  BY DEF ListWithout
<1>2. \A u \in Tasks \ {p.by} : call'[u] = call[u] /\ bit'[u] = bit[u]
  BY DEF Ends
<1>3. \A n \in DOMAIN procs' : from[n] \in DOMAIN procs
  BY <1>1
<1>4. ListOwned'
  <2>1. ASSUME NEW n \in DOMAIN procs' PROVE Owned(procs[n])'
    <3>1. PICK q \in GoodProcs : q = procs[from[n]]
      BY <1>3 DEF Types, ProcTypes
    <3>2. Owned(q) /\ q.by \in Tasks \ {p.by}
      BY <1>0, <1>1, <1>3, <3>1 DEF Own, ListOwned
    <3>3. /\ q.live /\ call[q.by].pc = "wait" /\ (q.op # "readLong" => FitsIn(q.len)) /\ ~bit[q.by]
          /\ call'[q.by] = call[q.by] /\ bit'[q.by] = bit[q.by]
      BY <1>2, <3>2 DEF Owned, Awaited
    <3>4. procs'[n] = q
      BY <1>1, <3>1
    <3> QED
      BY <3>3, <3>4 DEF Owned, Awaited
  <2> QED
    BY <1>1, <1>3, <2>1 DEF Own, ListOwned
<1>5. call'[p.by].pc = "wait"
  BY DEF Ends
<1>6. HandOwned'
  BY <1>1, <1>5 DEF Leaves, HandOwned, Holding, Owned, Awaited
<1>7. CallsOwn'
  <2>1. ASSUME NEW t \in Tasks PROVE CallOwn(call'[t], bit'[t])
    <3>1. CASE t = p.by
      BY <1>5, <3>1 DEF Ends, Own, CallsOwn, CallOwn, MayBeCut
    <3>2. CASE t # p.by
      BY <1>2, <3>2 DEF Own, CallsOwn
    <3> QED
      BY <3>1, <3>2
  <2> QED
    BY <2>1 DEF CallsOwn
<1> QED
  BY <1>4, <1>6, <1>7 DEF Own

LEMMA NobodyEnds ==
  ASSUME CallsOwn, NEW t \in Tasks, UNCHANGED callVars
  PROVE  Ends(t) /\ bit'[t] = bit[t]
BY DEF CallsOwn, CallOwn, Ends, callVars

LEMMA CallbackEnds ==
  ASSUME CallTypes, CallsOwn, NEW p \in GoodProcs, NEW rc, rc = "notLong" => MayBeCut(call[p.by]),
         Callback(p, rc)
  PROVE  Ends(p.by)
<1>1. PICK t \in Tasks : t = p.by
  BY ProcFields
<1>2. CASE UNCHANGED callVars
  BY <1>1, <1>2, NobodyEnds
<1>3. CASE call' = [call EXCEPT ![p.by].rc = rc] /\ bit' = [bit EXCEPT ![p.by] = TRUE]
  <2>1. call' = [call EXCEPT ![t] = [call[t] EXCEPT !.rc = rc]] /\ bit' = [bit EXCEPT ![t] = TRUE]
    BY <1>1, <1>3 DEF CallTypes
  <2>2. /\ \A u \in Tasks \ {t} : call'[u] = call[u] /\ bit'[u] = bit[u]
        /\ call'[t] = [call[t] EXCEPT !.rc = rc]
    BY <2>1 DEF CallTypes
  <2>3. call[t] \in Calls
    BY DEF CallTypes, GoodCalls
  <2>4. /\ call'[t].pc = call[t].pc /\ call'[t].len = call[t].len /\ call'[t].rc = rc
        /\ call'[t].op = call[t].op
    BY <2>2, <2>3 DEF Calls
  <2> QED
    BY <1>1, <2>2, <2>4 DEF Ends
<1> QED
  BY <1>2, <1>3 DEF Callback

(* A value grows: the call goes on, with another value and perhaps a result. *)
LEMMA ChunkEnds ==
  ASSUME CallTypes, CallsOwn, NEW t \in Tasks, NEW v,
         \/ call' = [call EXCEPT ![t] = [call[t] EXCEPT !.value = v]]
         \/ call' = [call EXCEPT ![t] = [call[t] EXCEPT !.value = v, !.rc = "done"]],
         \A u \in Tasks \ {t} : bit'[u] = bit[u]
  PROVE  Ends(t)
<1>1. /\ \A u \in Tasks \ {t} : call'[u] = call[u]
      /\ call'[t] \in {[call[t] EXCEPT !.value = v], [call[t] EXCEPT !.value = v, !.rc = "done"]}
  BY DEF CallTypes
<1>2. call[t] \in Calls /\ (call[t].rc = "notLong" => MayBeCut(call[t]))
  BY DEF CallTypes, GoodCalls, CallsOwn, CallOwn
<1>3. /\ call'[t].pc = call[t].pc /\ call'[t].len = call[t].len /\ call'[t].op = call[t].op
      /\ call'[t].rc \in {call[t].rc, "done"}
  BY <1>1, <1>2 DEF Calls
<1> QED
  BY <1>1, <1>2, <1>3 DEF Ends

LEMMA AddChunkEnds ==
  ASSUME CallTypes, CallsOwn, NEW p \in GoodProcs, NEW r, AddChunk(p, r)
  PROVE  Ends(p.by) /\ bit' = bit
<1>1. PICK t \in Tasks : t = p.by
  BY ProcFields
<1>2. bit' = bit
  BY DEF AddChunk
<1>3. CASE Heard(p)
  <2>1. call' = [call EXCEPT ![t] = [call[t] EXCEPT !.value = Append(call[t].value, <<r.by, r.off>>)]]
    BY <1>1, <1>3 DEF AddChunk, CallTypes
  <2> QED
    BY <1>1, <1>2, <2>1, ChunkEnds
<1>4. CASE ~Heard(p)
  BY <1>1, <1>2, <1>4, NobodyEnds DEF AddChunk, callVars
<1> QED
  BY <1>2, <1>3, <1>4

LEMMA DoneLeaves == ASSUME NEW p, HostDone PROVE Leaves(p)
BY DEF HostDone, Leaves

LEMMA ResumeLeaves ==
  ASSUME NEW p \in GoodProcs, NEW q \in GoodProcs, NEW r, Resume(q, r), q.by = p.by, q.live,
         q.op # "readLong" => FitsIn(q.len), ~bit'[p.by]
  PROVE  Leaves(p)
<1>1. PICK s \in GoodProcs : HostKeeps(s) /\ s.by = q.by /\ s.live = q.live /\ s.op = q.op /\ s.len = q.len
  <2>1. \A b \in BOOLEAN : LET s == [q EXCEPT !.stalled = b]
                           IN s \in GoodProcs /\ s.by = q.by /\ s.live = q.live /\ s.op = q.op /\ s.len = q.len
    BY ProcFields DEF GoodProcs, Procs
  <2>2. \E b \in BOOLEAN : HostKeeps([q EXCEPT !.stalled = b])
    BY DEF Resume
  <2> QED
    BY <2>1, <2>2
<1> QED
  BY <1>1 DEF HostKeeps, Leaves

LEMMA ResumeWriteOwn ==
  ASSUME CallTypes, CallsOwn, NEW p \in GoodProcs, NEW q \in GoodProcs, ResumeWrite(q),
         q.by = p.by, q.live, FitsIn(q.len), ~bit[p.by]
  PROVE  Ends(p.by) /\ Leaves(p)
<1>1. CASE /\ q.off < q.len /\ q.off >= AttrMax
           /\ Callback(q, "invalid") /\ hpc' = "again" /\ hproc' = q
  <2>1. ~Preempt
    <3>1. q.off \in Nat /\ q.len \in Nat /\ AttrMax \in Nat
      BY ProcFields, BoundsAssumption
    <3>2. ~(q.len <= AttrMax)
      BY <1>1, <3>1
    <3> QED
      BY <3>2 DEF FitsIn
  <2> QED
    BY <1>1, <2>1, CallbackEnds DEF Leaves
<1>2. CASE Resume(q, NextWrite(q)) /\ UNCHANGED callVars
  <2>1. Ends(p.by) /\ ~bit'[p.by]
    BY <1>2, NobodyEnds, ProcFields
  <2> QED
    BY <1>2, <2>1, ResumeLeaves
<1> QED
  BY <1>1, <1>2 DEF ResumeWrite

LEMMA ReadLongOwn ==
  ASSUME CallTypes, CallsOwn, NEW p \in GoodProcs, NEW r \in Reqs, Owned(p), p.op = "readLong",
         ReadLongRsp(p, r)
  PROVE  Ends(p.by) /\ Leaves(p)
<1>1. CASE Callback(p, "invalid") /\ HostDone
  BY <1>1, CallbackEnds, DoneLeaves
<1>2. CASE HostDone /\ UNCHANGED callVars
  BY <1>2, NobodyEnds, DoneLeaves, ProcFields
<1> DEFINE q == [p EXCEPT !.off = @ + 1, !.len = @ + 1]
<1>3. CASE AddChunk(p, r) /\ Resume(q, Request("blob", p.by, q.off))
  <2>1. q \in GoodProcs /\ q.by = p.by /\ q.live = p.live /\ q.op = "readLong"
    BY ProcFields DEF GoodProcs, Procs
  <2>2. p.live /\ ~bit[p.by]
    BY DEF Owned, Awaited
  <2> HIDE DEF q
  <2>3. Ends(p.by) /\ ~bit'[p.by]
    BY <1>3, <2>2, AddChunkEnds
  <2> QED
    BY <1>3, <2>1, <2>2, <2>3, ResumeLeaves
<1>4. CASE /\ call' = IF Heard(p)
                      THEN [call EXCEPT ![p.by].value = Append(@, <<r.by, r.off>>),
                                        ![p.by].rc = "done"]
                      ELSE call
           /\ bit' = [bit EXCEPT ![p.by] = @ \/ Heard(p)]
           /\ HostDone
  <2>1. PICK t \in Tasks : t = p.by
    BY ProcFields
  <2>2. \A u \in Tasks \ {t} : bit'[u] = bit[u]
    BY <1>4, <2>1 DEF CallTypes
  <2>3. CASE Heard(p)
    <3>1. call' = [call EXCEPT ![t] = [call[t] EXCEPT !.value = Append(call[t].value, <<r.by, r.off>>),
                                                      !.rc = "done"]]
      BY <1>4, <2>1, <2>3 DEF CallTypes
    <3> QED
      BY <1>4, <2>1, <2>2, <3>1, ChunkEnds, DoneLeaves
  <2>4. CASE ~Heard(p)
    <3>1. call' = call /\ bit' = bit
      BY <1>4, <2>1, <2>4 DEF CallTypes
    <3> QED
      BY <1>4, <2>1, <3>1, NobodyEnds, DoneLeaves DEF callVars
  <2> QED
    BY <2>3, <2>4
<1> QED
  BY <1>1, <1>2, <1>3, <1>4 DEF ReadLongRsp

LEMMA HandleRspOwn ==
  ASSUME CallTypes, CallsOwn, NEW p \in GoodProcs, NEW r \in Reqs, Owned(p), HandleRsp(p, r),
         r.res = "notLong" => MayBeCut(call[p.by])
  PROVE  Ends(p.by) /\ Leaves(p)
<1>0. p.live /\ ~bit[p.by] /\ (p.op # "readLong" => FitsIn(p.len)) /\ p.by \in Tasks
  BY ProcFields DEF Owned, Awaited
<1>2. CASE r.res \in Errors
  <2>1. ErrorRsp(p, r.res)
    BY <1>2 DEF HandleRsp, Errors
  <2> QED
    BY <2>1, CallbackEnds, DoneLeaves DEF ErrorRsp
<1>3. CASE r.res \notin Errors
  <2>0. r.res = "ok" \/ ExecRsp(p)
    BY <1>3 DEF HandleRsp
  <2>1. CASE r.res = "ok" /\ p.op = "readLong"
    <3>1. ReadLongRsp(p, r)
      BY <1>3, <2>1 DEF HandleRsp
    <3> QED
      BY <2>1, <3>1, ReadLongOwn
  <2>2. CASE ReadRsp(p, r)
    BY <2>2, CallbackEnds, AddChunkEnds, DoneLeaves DEF ReadRsp
  <2>3. CASE Callback(p, "ok") /\ HostDone
    BY <2>3, CallbackEnds, DoneLeaves
  <2>4. CASE p.op = "writeLong" /\ PrepRsp(p, r)
    <3>1. CASE p.off < p.len /\ ResumeWrite([p EXCEPT !.off = @ + 1])
      <4> DEFINE q == [p EXCEPT !.off = @ + 1]
      <4>1. q \in GoodProcs /\ q.by = p.by /\ q.live = p.live /\ q.len = p.len
        BY <3>1, ProcFields DEF GoodProcs, Procs
      <4>2. ResumeWrite(q)
        BY <3>1
      <4> HIDE DEF q
      <4> QED
        BY <1>0, <2>4, <4>1, <4>2, ResumeWriteOwn
    <3>2. CASE Callback(p, "badData") /\ HostDone
      BY <3>2, CallbackEnds, DoneLeaves
    <3> QED
      BY <2>4, <3>1, <3>2 DEF PrepRsp
  <2>5. CASE ExecRsp(p)
    BY <1>0, <2>5, CallbackEnds, NobodyEnds, DoneLeaves DEF ExecRsp
  <2> QED
    BY <1>3, <2>0, <2>1, <2>2, <2>3, <2>4, <2>5 DEF HandleRsp
<1> QED
  BY <1>2, <1>3

LEMMA RemovedList ==
  ASSUME Types, ListOwned, NEW i \in DOMAIN procs, procs' = RemoveAt(procs, i)
  PROVE  ListWithout(procs[i].by)
<1>1. PICK from \in [DOMAIN procs' -> DOMAIN procs \ {i}] :
        /\ \A n \in DOMAIN procs' : procs'[n] = procs[from[n]]
        /\ \A n, m \in DOMAIN procs' : n # m => from[n] # from[m]
  BY RemovalPlaces DEF Types, ProcTypes
<1>2. \A n \in DOMAIN procs' : procs[from[n]].by # procs[i].by
  BY <1>1 DEF ListOwned
<1>3. from \in [DOMAIN procs' -> DOMAIN procs]
  BY <1>1
<1> QED
  BY <1>1, <1>2, <1>3 DEF ListWithout

LEMMA KeptList ==
  ASSUME Types, NEW t, NEW K \in SUBSET DOMAIN procs, procs' = Kept(procs, K),
         \A i \in K : procs[i].by # t
  PROVE  ListWithout(t)
<1>1. PICK from \in [DOMAIN procs' -> K] :
        /\ \A n \in DOMAIN procs' : procs'[n] = procs[from[n]]
        /\ \A n, m \in DOMAIN procs' : n # m => from[n] # from[m]
  BY KeptProcs DEF Types
<1>2. from \in [DOMAIN procs' -> DOMAIN procs]
  BY <1>1
<1>3. \A n \in DOMAIN procs' : procs[from[n]].by # t
  BY <1>1
<1> QED
  BY <1>1, <1>2, <1>3 DEF ListWithout

LEMMA SameList ==
  ASSUME NEW t, procs' = procs, \A i \in DOMAIN procs : procs[i].by # t
  PROVE  ListWithout(t)
<1> DEFINE from == [n \in DOMAIN procs |-> n]
<1>1. from \in [DOMAIN procs' -> DOMAIN procs]
  OBVIOUS
<1>2. \A n \in DOMAIN procs' : procs'[n] = procs[from[n]] /\ procs[from[n]].by # t
  OBVIOUS
<1>3. \A n, m \in DOMAIN procs' : n # m => from[n] # from[m]
  OBVIOUS
<1> QED
  BY <1>1, <1>2, <1>3 DEF ListWithout

LEMMA OwnFrame ==
  ASSUME Own, UNCHANGED <<procs, hpc, hproc, callVars>>
  PROVE  Own'
BY DEF Own, ListOwned, HandOwned, CallsOwn, CallOwn, Holding, Owned, Awaited, callVars

LEMMA IdleHand ==
  ASSUME Own, UNCHANGED <<procs, callVars>>, ~Holding, hpc' \notin {"insert", "again"}, hproc' = None
  PROVE  Own'
BY DEF Own, ListOwned, HandOwned, CallsOwn, CallOwn, Holding, Owned, Awaited, callVars

(* The procedure that takes the answer in the host's hand *)
Takes(i) ==
  /\ hpc = "dispatch" /\ i \in DOMAIN procs
  /\ LET found == {j \in DOMAIN procs : Matches(procs[j], hrsp.rsp, hrsp.conn)}
     IN i \in found /\ \A j \in found : i <= j
CutsWrites ==
  \A i \in DOMAIN procs :
    Takes(i) /\ hrsp.rsp.res = "notLong" => MayBeCut(call[procs[i].by])

LEMMA HostKeepsOwn ==
  ASSUME CutsWrites, Types, Own, HostNext
  PROVE  Own'
<1>0. /\ LinkTypes /\ Bearer /\ ProcTypes /\ HostTypes /\ CallTypes
      /\ ListOwned /\ HandOwned /\ CallsOwn
  BY DEF Types, Own
<1>1. ASSUME NEW h \in Conns, Receive(h) PROVE Own'
  <2>1. ~Holding /\ hproc' = hproc /\ hpc' = "dispatch" /\ UNCHANGED <<procs, callVars>>
    BY <1>1 DEF Receive, Holding
  <2>2. hproc' = None
    BY <1>0, <2>1 DEF HandOwned
  <2> QED
    BY <2>1, <2>2, IdleHand
<1>2. ASSUME NEW h \in Conns, Break(h) PROVE Own'
  <2> DEFINE told(t) == \E p \in {p \in ToSet(procs) : OfConn(p, h)} : p.by = t /\ p.live
             K == {i \in DOMAIN procs : ~OfConn(procs[i], h)}
  <2>1. /\ call' = [t \in Tasks |-> IF told(t) THEN [call[t] EXCEPT !.rc = "notConn"] ELSE call[t]]
        /\ bit' = [t \in Tasks |-> bit[t] \/ told(t)]
        /\ procs' = Kept(procs, K) /\ hpc' = "teardown" /\ hproc' = None
    BY <1>2 DEF Break
  <2>2. ASSUME NEW t \in Tasks, told(t)
        PROVE  \E i \in DOMAIN procs : procs[i].by = t /\ OfConn(procs[i], h)
    BY <2>2 DEF ToSet
  <2>3. \A t \in Tasks : told(t) => call[t].pc = "wait"
    BY <1>0, <2>2 DEF ListOwned, Owned, Awaited
  <2>4. \A i \in K : ~told(procs[i].by) /\ procs[i].by \in Tasks
    <3> TAKE i \in K
    <3>1. procs[i].by \in Tasks
      <4>1. i \in DOMAIN procs
        OBVIOUS
      <4>2. procs[i] \in GoodProcs
        BY <1>0, <4>1 DEF ProcTypes
      <4> QED
        BY <4>2, ProcFields
    <3>2. ASSUME told(procs[i].by) PROVE FALSE
      <4>1. PICK j \in DOMAIN procs : procs[j].by = procs[i].by /\ OfConn(procs[j], h)
        BY <2>2, <3>1, <3>2
      <4>2. OfConn(procs[i], h)
        BY <4>1 DEF OfConn
      <4> QED
        BY <4>2
    <3> QED
      BY <3>1, <3>2
  <2> HIDE DEF told
  <2>5. PICK from \in [DOMAIN procs' -> K] :
          /\ \A n \in DOMAIN procs' : procs'[n] = procs[from[n]]
          /\ \A n, m \in DOMAIN procs' : n # m => from[n] # from[m]
    <3>1. K \in SUBSET DOMAIN procs
      OBVIOUS
    <3> HIDE DEF K
    <3>2. ProcTypes /\ procs' = Kept(procs, K)
      BY <1>0, <2>1
    <3> QED
      BY <3>1, <3>2, KeptProcs
  <2>6. ListOwned'
    <3>1. ASSUME NEW n \in DOMAIN procs' PROVE Owned(procs[n])'
      <4>1. PICK i \in K : procs'[n] = procs[i]
        BY <2>5
      <4>2. PICK q : q = procs[i]
        OBVIOUS
      <4>3. q.by \in Tasks /\ ~told(q.by) /\ Owned(q)
        BY <1>0, <2>4, <4>2 DEF ListOwned
      <4>4. call'[q.by] = call[q.by] /\ bit'[q.by] = bit[q.by]
        BY <1>0, <2>1, <4>3 DEF CallTypes
      <4>5. q.live /\ call[q.by].pc = "wait" /\ ~bit[q.by] /\ (q.op # "readLong" => FitsIn(q.len))
        BY <4>3 DEF Owned, Awaited
      <4>6. procs'[n] = q
        BY <4>1, <4>2
      <4> QED
        BY <4>4, <4>5, <4>6 DEF Owned, Awaited
    <3>2. \A n, m \in DOMAIN procs' : n # m => procs'[n].by # procs'[m].by
      BY <1>0, <2>5 DEF ListOwned
    <3> QED
      BY <3>1, <3>2 DEF ListOwned
  <2>7. HandOwned'
    BY <2>1 DEF HandOwned, Holding
  <2>8. ASSUME NEW t \in Tasks PROVE CallOwn(call'[t], bit'[t])
    <3>1. CASE told(t)
      <4>1. call'[t] = [call[t] EXCEPT !.rc = "notConn"] /\ call[t] \in Calls
        BY <1>0, <2>1, <3>1 DEF CallTypes, GoodCalls
      <4>2. call'[t].rc = "notConn" /\ call'[t].len = call[t].len /\ call'[t].pc = "wait"
        BY <2>3, <3>1, <4>1 DEF Calls
      <4> QED
        BY <1>0, <4>2 DEF CallsOwn, CallOwn
    <3>2. CASE ~told(t)
      BY <1>0, <2>1, <3>2 DEF CallsOwn, CallTypes
    <3> QED
      BY <3>1, <3>2
  <2> QED
    BY <2>6, <2>7, <2>8 DEF Own, CallsOwn
<1>3. ASSUME NEW h \in Conns, Connect(h) PROVE Own'
  BY <1>3, OwnFrame DEF Connect, hostVars
<1>4. CASE Dispatch
  <2>1. hrsp.rsp \in Reqs /\ ~Holding
    BY <1>0, <1>4 DEF Dispatch, HostTypes, Holding
  <2>2. CASE HostDone /\ UNCHANGED <<procs, callVars>>
    BY <2>1, <2>2, IdleHand DEF HostDone
  <2>3. ASSUME NEW i \in DOMAIN procs, procs' = RemoveAt(procs, i), HandleRsp(procs[i], hrsp.rsp),
               Takes(i)
        PROVE  Own'
    <3>1. procs[i] \in GoodProcs /\ Owned(procs[i])
      BY <1>0 DEF ProcTypes, ListOwned
    <3>2. Ends(procs[i].by) /\ Leaves(procs[i])
      BY <1>0, <2>1, <2>3, <3>1, HandleRspOwn DEF CutsWrites
    <3>3. ListWithout(procs[i].by)
      BY <1>0, <2>3, RemovedList
    <3> QED
      BY <3>1, <3>2, <3>3, EndingKeepsOwn DEF Owned, Awaited
  <2> QED
    BY <1>4, <2>2, <2>3 DEF Dispatch, Takes
<1>5. CASE Reinsert
  <2>1. /\ procs' = Append(procs, hproc) /\ hproc \in GoodProcs /\ Owned(hproc)
        /\ \A i \in DOMAIN procs : procs[i].by # hproc.by
        /\ hpc' = "idle" /\ hproc' = None /\ call' = call /\ bit' = bit
    BY <1>0, <1>5 DEF Reinsert, HostTypes, HandOwned, Holding, HostDone, callVars
  <2>2. PICK q \in GoodProcs : q = hproc
    BY <2>1
  <2>3. /\ DOMAIN procs' = 1..(Len(procs) + 1) /\ DOMAIN procs = 1..Len(procs) /\ Len(procs) \in Nat
        /\ procs'[Len(procs) + 1] = q /\ \A i \in 1..Len(procs) : procs'[i] = procs[i]
    BY <1>0, <2>1, <2>2 DEF ProcTypes
  <2>4. \A i \in 1..(Len(procs) + 1) : i \in 1..Len(procs) \/ i = Len(procs) + 1
    BY <2>3
  <2>5. ASSUME NEW n \in DOMAIN procs' PROVE Owned(procs[n])'
    BY <1>0, <2>1, <2>2, <2>3, <2>4 DEF ListOwned, Owned, Awaited
  <2>6. \A i, j \in DOMAIN procs' : i # j => procs'[i].by # procs'[j].by
    BY <1>0, <2>1, <2>2, <2>3, <2>4 DEF ListOwned
  <2>7. ListOwned'
    BY <2>5, <2>6 DEF ListOwned
  <2> QED
    BY <1>0, <2>1, <2>7 DEF Own, HandOwned, Holding, CallsOwn, CallOwn
<1>6. CASE CallbackAgain
  <2>1. /\ hproc \in GoodProcs /\ Callback(hproc, "invalid") /\ HostDone /\ procs' = procs
        /\ call[hproc.by].pc = "wait" /\ \A i \in DOMAIN procs : procs[i].by # hproc.by
    BY <1>0, <1>6 DEF CallbackAgain, HostTypes, HandOwned, Holding
  <2>2. PICK p \in GoodProcs : p = hproc
    BY <2>1
  <2>3. Ends(p.by) /\ Leaves(p) /\ ListWithout(p.by)
    BY <1>0, <2>1, <2>2, CallbackEnds, DoneLeaves, SameList
  <2> QED
    BY <2>1, <2>2, <2>3, EndingKeepsOwn
<1>7. CASE Expire
  <2>1. PICK i \in DOMAIN procs : Callback(procs[i], "timeout") /\ procs' = RemoveAt(procs, i)
    BY <1>7 DEF Expire
  <2>2. hpc' = "idle" /\ hproc' = None
    BY <1>0, <1>7 DEF Expire, hostVars, HandOwned, Holding
  <2>3. procs[i] \in GoodProcs /\ call[procs[i].by].pc = "wait"
    BY <1>0 DEF ProcTypes, ListOwned, Owned, Awaited
  <2>4. Ends(procs[i].by) /\ Leaves(procs[i]) /\ ListWithout(procs[i].by)
    BY <1>0, <2>1, <2>2, <2>3, CallbackEnds, RemovedList DEF Leaves
  <2> QED
    BY <2>3, <2>4, EndingKeepsOwn
<1>8. CASE ResumeStalled
  <2> DEFINE K == {i \in DOMAIN procs : ~procs[i].stalled}
  <2>1. PICK i \in DOMAIN procs :
          /\ procs[i].stalled
          /\ IF procs[i].op = "readLong"
             THEN Resume(procs[i], Request("blob", procs[i].by, procs[i].off)) /\ UNCHANGED callVars
             ELSE ResumeWrite(procs[i])
    BY <1>8 DEF ResumeStalled
  <2>2. procs' = Kept(procs, K)
    BY <1>8 DEF ResumeStalled
  <2>3. PICK p \in GoodProcs : p = procs[i]
    BY <1>0 DEF ProcTypes
  <2>4. /\ Owned(p) /\ p.live /\ call[p.by].pc = "wait" /\ ~bit[p.by]
        /\ (p.op # "readLong" => FitsIn(p.len)) /\ p.by \in Tasks
    BY <1>0, <2>3, ProcFields DEF ListOwned, Owned, Awaited
  <2>5. Ends(p.by) /\ Leaves(p)
    <3>1. CASE p.op = "readLong"
      <4>1. Resume(p, Request("blob", p.by, p.off)) /\ UNCHANGED callVars
        BY <2>1, <2>3, <3>1
      <4>2. Ends(p.by) /\ ~bit'[p.by]
        BY <1>0, <2>4, <4>1, NobodyEnds
      <4> QED
        BY <2>4, <3>1, <4>1, <4>2, ResumeLeaves
    <3>2. CASE p.op # "readLong"
      <4>1. ResumeWrite(p)
        BY <2>1, <2>3, <3>2
      <4> QED
        BY <1>0, <2>4, <3>2, <4>1, ResumeWriteOwn
    <3> QED
      BY <3>1, <3>2
  <2>6. K \in SUBSET DOMAIN procs /\ i \notin K
    BY <2>1
  <2>7. \A j \in K : procs[j].by # p.by
    BY <1>0, <2>3, <2>6 DEF ListOwned
  <2> HIDE DEF K
  <2>8. ListWithout(p.by)
    BY <2>2, <2>6, <2>7, KeptList
  <2> QED
    BY <2>4, <2>5, <2>8, EndingKeepsOwn
<1>9. CASE Delete
  BY <1>0, <1>9, IdleHand DEF Delete, HostDone, Holding
<1> QED
  BY <1>1, <1>2, <1>3, <1>4, <1>5, <1>6, <1>7, <1>8, <1>9 DEF HostNext

(* A task that does not wait, or is about to wake, has no procedure. *)
LEMMA AppFrame ==
  ASSUME Types, Own, NEW t \in Tasks, call[t].pc # "wait" \/ bit[t], hpc # "again",
         UNCHANGED <<procs, hpc, hproc>>,
         \A u \in Tasks \ {t} : call'[u] = call[u] /\ bit'[u] = bit[u],
         CallOwn(call'[t], bit'[t])
  PROVE  Own'
<1>1. \A i \in DOMAIN procs : procs[i].by \in Tasks \ {t}
  <2>1. \A i \in DOMAIN procs : procs[i] \in GoodProcs /\ Owned(procs[i])
    BY DEF Types, ProcTypes, Own, ListOwned
  <2> QED
    BY <2>1, ProcFields DEF Owned, Awaited
<1>2. hpc = "insert" => hproc.by \in Tasks \ {t}
  <2> SUFFICES ASSUME hpc = "insert" PROVE hproc.by \in Tasks \ {t}
    OBVIOUS
  <2>1. hproc \in GoodProcs /\ Owned(hproc)
    BY DEF Types, HostTypes, Own, HandOwned
  <2> QED
    BY <2>1, ProcFields DEF Owned, Awaited
<1>3. ListOwned'
  BY <1>1 DEF Own, ListOwned, Owned, Awaited
<1>4. HandOwned'
  BY <1>2 DEF Own, HandOwned, Holding, Owned, Awaited
<1>5. CallsOwn'
  BY DEF Own, CallsOwn
<1> QED
  BY <1>3, <1>4, <1>5 DEF Own

LEMMA AppKeepsOwn ==
  ASSUME LengthsFit, Types, Own, NEW t \in Tasks, AppNext(t)
  PROVE  Own'
<1>0. /\ call \in [Tasks -> GoodCalls] /\ bit \in [Tasks -> BOOLEAN]
      /\ CallOwn(call[t], bit[t]) /\ ListOwned /\ HandOwned
  BY SMTT(60) DEF Types, CallTypes, Own, CallsOwn
<1>1. hpc # "again" /\ UNCHANGED <<hpc, hrsp>>
  <2>1. AppMayRun(t)
    BY DEF AppNext, readValue, writeValue, MayCall, Send, Insert, Wake, Secure, Return
  <2>2. hpc # "again"
    BY <1>0, <2>1 DEF AppMayRun, HandOwned
  <2> QED
    BY <2>2 DEF AppNext, readValue, writeValue, Send, Insert, Wake, Secure, Return, hostVars
<1>2. PICK c \in Calls : c = call[t]
  BY <1>0 DEF GoodCalls
<1>3. CallOwn(c, bit[t])
  BY <1>0, <1>2
<1>4. ASSUME NEW d, call' = [call EXCEPT ![t] = d], bit' = bit \/ bit' = [bit EXCEPT ![t] = FALSE],
             c.pc # "wait" \/ bit[t], CallOwn(d, bit'[t]), UNCHANGED <<procs, hproc>>
      PROVE  Own'
  <2>1. /\ call'[t] = d
        /\ \A u \in Tasks \ {t} : call'[u] = call[u] /\ bit'[u] = bit[u]
    BY <1>0, <1>4
  <2> QED
    BY <1>1, <1>2, <1>4, <2>1, AppFrame
<1>5. FitsIn(0) /\ \A n \in Lengths : FitsIn(n)
  BY BoundsAssumption DEF FitsIn, LengthsFit
<1>6. CASE readValue(t)
  <2> DEFINE d == [NoCall EXCEPT !.pc = "send", !.retry = 1]
  <2>1. /\ call' = [call EXCEPT ![t] = d] /\ c.pc = "idle" /\ bit' = bit
        /\ UNCHANGED <<procs, hproc>>
    BY <1>2, <1>6 DEF readValue, MayCall, hostVars
  <2>2. CallOwn(d, bit'[t])
    BY <1>3, <1>5, <2>1 DEF CallOwn, NoCall
  <2> HIDE DEF d
  <2> QED
    BY <1>4, <2>1, <2>2
<1>7. CASE writeValue(t)
  <2>1. PICK n \in Lengths :
          call' = [call EXCEPT ![t] = [NoCall EXCEPT !.pc = "send", !.op = "write",
                                                     !.len = n, !.retry = 1]]
    BY <1>7 DEF writeValue
  <2> DEFINE d == [NoCall EXCEPT !.pc = "send", !.op = "write", !.len = n, !.retry = 1]
  <2>2. /\ call' = [call EXCEPT ![t] = d] /\ c.pc = "idle" /\ bit' = bit
        /\ UNCHANGED <<procs, hproc>>
    BY <1>2, <1>7, <2>1 DEF writeValue, MayCall, hostVars
  <2>3. CallOwn(d, bit'[t])
    BY <1>3, <1>5, <2>2 DEF CallOwn, NoCall
  <2> HIDE DEF d
  <2> QED
    BY <1>4, <2>2, <2>3
<1>8. CASE Send(t)
  <2>1. c.pc = "send" /\ bit' = bit /\ UNCHANGED <<procs, hproc>>
    BY <1>2, <1>3, <1>8 DEF Send, hostVars, CallOwn
  <2>2. CASE call' = [call EXCEPT ![t].pc = IF @ = "send" THEN "insert" ELSE "insertShort"]
    <3> DEFINE d == [c EXCEPT !.pc = "insert"]
    <3>1. call' = [call EXCEPT ![t] = d]
      BY <1>0, <1>2, <2>1, <2>2
    <3>2. CallOwn(d, bit'[t])
      BY <1>3, <2>1 DEF CallOwn, Calls, MayBeCut
    <3> HIDE DEF d
    <3> QED
      BY <1>4, <2>1, <3>1, <3>2
  <2>3. ASSUME NEW rc \in {"notConn", "noMem"}, Finish(t, rc) PROVE Own'
    <3> DEFINE d == [c EXCEPT !.pc = "done", !.rc = rc]
    <3>1. call' = [call EXCEPT ![t] = d]
      BY <1>0, <1>2, <2>3 DEF Finish
    <3>2. CallOwn(d, bit'[t])
      BY <1>3, <2>1 DEF CallOwn, Calls, MayBeCut
    <3> HIDE DEF d
    <3> QED
      BY <1>4, <2>1, <3>1, <3>2
  <2> QED
    BY <1>8, <2>2, <2>3 DEF Send
<1>9. CASE Insert(t)
  <2>1. c.pc = "insert" /\ ~bit[t] /\ bit' = bit /\ hproc' = hproc
    BY <1>2, <1>3, <1>9 DEF Insert, Inserting, CallOwn, hostVars
  <2> DEFINE p == [by |-> t, op |-> ProcOp(t), off |-> 0, len |-> call[t].len,
                   stalled |-> FALSE, live |-> TRUE]
  <2>2. procs' = Append(procs, p) /\ p.by = t /\ p.live /\ p.len = c.len
    BY <1>2, <1>9 DEF Insert
  <2> HIDE DEF p
  <2>3. /\ DOMAIN procs' = 1..(Len(procs) + 1) /\ DOMAIN procs = 1..Len(procs) /\ Len(procs) \in Nat
        /\ procs'[Len(procs) + 1] = p /\ \A i \in 1..Len(procs) : procs'[i] = procs[i]
    BY <2>2 DEF Types, ProcTypes
  <2>4. \A i \in 1..(Len(procs) + 1) : i \in 1..Len(procs) \/ i = Len(procs) + 1
    BY <2>3
  <2>5. \A i \in 1..Len(procs) : procs[i].by \in Tasks \ {t} /\ Owned(procs[i])
    <3>1. \A i \in 1..Len(procs) : procs[i] \in GoodProcs /\ Owned(procs[i])
      BY <1>0, <2>3 DEF Types, ProcTypes, ListOwned
    <3> QED
      BY <1>2, <2>1, <3>1, ProcFields DEF Owned, Awaited
  <2>6. call'[t].pc = "wait" /\ call'[t].rc = c.rc /\ call'[t].len = c.len /\ call'[t].op = c.op
        /\ \A u \in Tasks \ {t} : call'[u] = call[u]
    <3> DEFINE d == [c EXCEPT !.pc = "wait", !.rc = c.rc]
    <3>1. call' = [call EXCEPT ![t] = d]
      BY <1>0, <1>2, <1>9, <2>1 DEF Insert
    <3>2. d.pc = "wait" /\ d.rc = c.rc /\ d.len = c.len /\ d.op = c.op
      BY DEF Calls
    <3> HIDE DEF d
    <3> QED
      BY <1>0, <3>1, <3>2
  <2>7. ASSUME NEW n \in DOMAIN procs' PROVE Owned(procs[n])'
    <3>1. CASE n \in 1..Len(procs)
      BY <2>1, <2>3, <2>5, <2>6, <3>1 DEF Owned, Awaited
    <3>2. CASE n = Len(procs) + 1
      BY <1>3, <2>1, <2>2, <2>3, <2>6, <3>2 DEF Owned, Awaited, CallOwn
    <3> QED
      BY <2>3, <2>4, <3>1, <3>2
  <2>8. \A i, j \in DOMAIN procs' : i # j => procs'[i].by # procs'[j].by
    BY <1>0, <2>2, <2>3, <2>4, <2>5 DEF ListOwned
  <2>9. ListOwned'
    BY <2>7, <2>8 DEF ListOwned
  <2>10. hpc = "insert" => Owned(hproc) /\ hproc.by \in Tasks \ {t}
    <3> SUFFICES ASSUME hpc = "insert" PROVE Owned(hproc) /\ hproc.by \in Tasks \ {t}
      OBVIOUS
    <3>1. hproc \in GoodProcs /\ Owned(hproc)
      BY <1>0 DEF Types, HostTypes, HandOwned
    <3> QED
      BY <1>2, <2>1, <3>1, ProcFields DEF Owned, Awaited
  <2>11. HandOwned'
    BY <1>0, <1>1, <2>1, <2>2, <2>3, <2>4, <2>6, <2>10 DEF HandOwned, Holding, Owned, Awaited
  <2>12. CallsOwn'
    <3>1. CallOwn(call'[t], bit'[t])
      BY <1>3, <2>6 DEF CallOwn, MayBeCut
    <3> QED
      BY <2>1, <2>6, <3>1 DEF Own, CallsOwn
  <2> QED
    BY <2>9, <2>11, <2>12 DEF Own
<1>10. CASE Wake(t)
  <2>1. /\ call' = [call EXCEPT ![t] = AfterWait(c)] /\ bit' = [bit EXCEPT ![t] = FALSE] /\ bit[t]
        /\ UNCHANGED <<procs, hproc>>
    BY <1>0, <1>2, <1>10 DEF Wake, hostVars
  <2>2. ~bit'[t]
    BY <1>0, <2>1
  <2>3. \/ AfterWait(c) \in {[c EXCEPT !.pc = "done"], [c EXCEPT !.pc = "secure"]}
        \/ MayBeCut(c) /\ AfterWait(c) = [c EXCEPT !.pc = "send", !.len = 1]
    BY <1>3 DEF AfterWait, CallOwn, MayBeCut
  <2>4. CallOwn(AfterWait(c), bit'[t])
    BY <1>3, <2>2, <2>3 DEF CallOwn, Calls, MayBeCut, FitsIn
  <2> QED
    BY <1>4, <2>1, <2>4
<1>11. CASE Secure(t)
  <2>1. c.pc = "secure" /\ bit' = bit /\ UNCHANGED <<procs, hproc>>
    BY <1>2, <1>11 DEF Secure, hostVars
  <2>2. PICK d \in {[c EXCEPT !.pc = "send", !.retry = c.retry - 1], [c EXCEPT !.pc = "done"]} :
          call' = [call EXCEPT ![t] = d]
    <3>1. CASE call' = [call EXCEPT ![t].pc = "send", ![t].retry = @ - 1]
      BY <1>0, <1>2, <3>1
    <3>2. CASE call' = [call EXCEPT ![t].pc = "done"]
      BY <1>0, <1>2, <3>2
    <3> QED
      BY <1>11, <3>1, <3>2 DEF Secure
  <2>3. CallOwn(d, bit'[t])
    BY <1>3, <2>1, <2>2 DEF CallOwn, Calls, MayBeCut
  <2> QED
    BY <1>4, <2>1, <2>2, <2>3
<1>12. CASE Return(t)
  <2>1. c.pc = "done" /\ bit' = bit /\ call' = [call EXCEPT ![t] = NoCall]
    BY <1>2, <1>12 DEF Return
  <2>2. \A i \in DOMAIN procs : procs[i].by # t
    <3>1. \A i \in DOMAIN procs : procs[i] \in GoodProcs /\ Owned(procs[i])
      BY <1>0 DEF Types, ProcTypes, ListOwned
    <3> QED
      BY <1>2, <2>1, <3>1 DEF Owned, Awaited
  <2>3. procs' = procs
    <3>1. procs' = [i \in DOMAIN procs |->
                      IF procs[i].by = t THEN [procs[i] EXCEPT !.live = FALSE] ELSE procs[i]]
      BY <1>12 DEF Return
    <3>2. procs' = [i \in DOMAIN procs |-> procs[i]]
      BY <2>2, <3>1
    <3>3. procs = [i \in DOMAIN procs |-> procs[i]]
      BY DEF Types, ProcTypes
    <3> QED
      BY <3>2, <3>3
  <2>4. hproc' = hproc
    <3>1. hproc # None => hpc = "insert"
      BY <1>0, <1>1 DEF HandOwned, Holding
    <3>2. hpc = "insert" => hproc.by # t
      BY <1>0, <1>2, <2>1 DEF HandOwned, Owned, Awaited
    <3> QED
      BY <1>12, <3>1, <3>2 DEF Return
  <2>5. CallOwn(NoCall, bit'[t])
    BY <1>3, <1>5, <2>1 DEF CallOwn, NoCall
  <2> QED
    BY <1>4, <2>1, <2>3, <2>4, <2>5
<1> QED
  BY <1>6, <1>7, <1>8, <1>9, <1>10, <1>11, <1>12 DEF AppNext

(* The callback argument of a procedure is on its caller's stack            *)
(* (NimBLETaskData of readValue() and writeValue()): the call is there as    *)
(* long as the procedure, for any number of tasks and links, buffers that    *)
(* run out, connections that break and answers that come too late or are     *)
(* another task's, unless a peer calls an attribute not long or, with tasks  *)
(* that run inside the host's handlers, a value is longer than an attribute. *)
THEOREM CallsOutliveProcedures ==
  ASSUME NeverShort, LengthsFit
  PROVE  Spec => []ProceduresEndWithCalls
<1>1. Init => Own
  <2> SUFFICES ASSUME Init PROVE Own
    OBVIOUS
  <2>1. FitsIn(0)
    BY BoundsAssumption DEF FitsIn
  <2>2. CallsOwn
    BY <2>1 DEF Init, CallsOwn, CallOwn, NoCall
  <2>3. ListOwned /\ HandOwned
    BY DEF Init, ListOwned, HandOwned, Holding
  <2> QED
    BY <2>2, <2>3 DEF Own
<1>4. Types /\ NeverShort => CutsWrites
  BY DEF Types, HostTypes, Takes, Reqs, Refusals, NeverShort, CutsWrites
<1>2. Types /\ Own /\ [Next]_vars => Own'
  <2> SUFFICES ASSUME Types, Own, [Next]_vars PROVE Own'
    OBVIOUS
  <2>1. CASE UNCHANGED vars
    BY <2>1, OwnFrame DEF vars, hostVars
  <2>2. ASSUME NEW h \in Conns, Answer(h) PROVE Own'
    BY <2>2, OwnFrame DEF Answer, hostVars
  <2> QED
    BY <1>4, <2>1, <2>2, AppKeepsOwn, HostKeepsOwn DEF Next
<1>3. Own => ProceduresEndWithCalls
  BY DEF Own, ListOwned, HandOwned, Holding, Owned, Awaited, ProceduresEndWithCalls, ToSet
<1> QED
  BY <1>1, <1>2, <1>3, TypesInvariant, PTL DEF Spec

-----------------------------------------------------------------------------
(* The requests of a connection and their procedures *)

(* The procedures that a request may be of: in the list, in the hand of the  *)
(* host, or sent by a task and not yet in the list                           *)
NewProc(t) == [by |-> t, op |-> ProcOp(t), off |-> 0, len |-> call[t].len,
               stalled |-> FALSE, live |-> TRUE]
Makers ==
  ToSet(procs) \cup {NewProc(t) : t \in {u \in Tasks : call[u].pc = "insert"}}
    \cup (IF hpc = "insert" THEN {hproc} ELSE {})

RequestOf(p) ==
  CASE p.op = "readLong" -> IF p.off = 0 THEN "read" ELSE "blob"
    [] p.op = "writeLong" -> IF p.off = p.len THEN "exec" ELSE "prep"
    [] OTHER -> "write"
Fits(p, r) == p.by = r.by /\ p.off = r.off /\ r.op = RequestOf(p) /\ ~p.stalled

(* The requests of a connection, from the answer in the host's hand to the   *)
(* last in the queue                                                         *)
Hand(h) == IF hpc = "dispatch" /\ hrsp.conn = h THEN <<hrsp.rsp>> ELSE <<>>
Rest(h) == air[h] \o txq[h]
Line(h) == Hand(h) \o Rest(h)
Live(h) == link[h] = "up" /\ ~silent[h]

Made(r) == \E p \in Makers : Fits(p, r)
Sound(r) == r.res \in Errors => <<Kind(r), r.res>> \in PeerErrors
Apiece(q) == \A m, n \in DOMAIN q : m # n => q[m].by # q[n].by
Orderly(h) ==
  Apiece(Line(h)) /\ \A n \in DOMAIN Line(h) : Made(Line(h)[n]) /\ Sound(Line(h)[n])
InLine == \A h \in Conns : Live(h) => Orderly(h)

Quiet == \A h \in Conns : link[h] = "up" /\ silent[h] => \A n \in DOMAIN air[h] : air[h][n].res = "sent"
HandUp ==
  /\ hpc = "dispatch" =>
       Live(hrsp.conn) /\ hrsp.rsp \in ReqsOf(hrsp.conn) /\ hrsp.rsp.res # "sent"
  /\ Holding => link[Home[hproc.by]] = "up"
  /\ hpc = "teardown" => link[hrsp.conn] # "up"

(* Facts about lists *)
LEMMA JoinedType == ASSUME NEW S, NEW a \in Seq(S), NEW b \in Seq(S) PROVE a \o b \in Seq(S)
OBVIOUS
LEMMA JoinedNone == ASSUME NEW S, NEW a \in Seq(S) PROVE a \o <<>> = a /\ <<>> \o a = a
OBVIOUS
LEMMA JoinedLast ==
  ASSUME NEW S, NEW a \in Seq(S), NEW b \in Seq(S), NEW r \in S
  PROVE  a \o Append(b, r) = Append(a \o b, r)
OBVIOUS
LEMMA JoinedFirst ==
  ASSUME NEW S, NEW a \in Seq(S), NEW r \in S
  PROVE  Tail(<<r>> \o a) = a /\ <<r>> \o a # <<>> /\ (<<r>> \o a)[1] = r
OBVIOUS
LEMMA OneOnly ==
  ASSUME NEW S, NEW a \in Seq(S), Len(a) = 1
  PROVE  a = <<Head(a)>> /\ Head(a) \in S /\ Tail(a) = <<>>
<1>0. \A b \in Seq(S) : Len(b) = 0 => b = <<>>
  OBVIOUS
<1>3. Head(a) \in S /\ Tail(a) \in Seq(S) /\ Len(Tail(a)) = 0
  OBVIOUS
<1>1. Head(a) \in S /\ Tail(a) = <<>>
  BY <1>0, <1>3
<1>2. a = <<Head(a)>>
  OBVIOUS
<1> QED
  BY <1>1, <1>2
LEMMA FirstRest ==
  ASSUME NEW S, NEW a \in Seq(S), a # <<>>
  PROVE  a = <<Head(a)>> \o Tail(a) /\ Head(a) \in S /\ Tail(a) \in Seq(S)
OBVIOUS

LEMMA LineTypes ==
  ASSUME Types, HandUp, NEW h \in Conns
  PROVE  /\ Line(h) \in Seq(ReqsOf(h)) /\ Hand(h) \in Seq(ReqsOf(h)) /\ Rest(h) \in Seq(ReqsOf(h))
         /\ air[h] \in Seq(ReqsOf(h)) /\ txq[h] \in Seq(ReqsOf(h))
<1>1. air[h] \in Seq(ReqsOf(h)) /\ txq[h] \in Seq(ReqsOf(h))
  BY DEF Types, Bearer
<1>2. Hand(h) \in Seq(ReqsOf(h))
  <2>1. CASE hpc = "dispatch" /\ hrsp.conn = h
    <3>1. PICK r \in ReqsOf(h) : r = hrsp.rsp
      BY <2>1 DEF HandUp
    <3> QED
      BY <2>1, <3>1 DEF Hand
  <2>2. CASE ~(hpc = "dispatch" /\ hrsp.conn = h)
    BY <2>2 DEF Hand
  <2> QED
    BY <2>1, <2>2
<1>3. Rest(h) \in Seq(ReqsOf(h))
  BY <1>1, JoinedType DEF Rest
<1> QED
  BY <1>1, <1>2, <1>3, JoinedType DEF Line

(* A request that is sent goes to the end of the line. *)
LEMMA SentLast ==
  ASSUME Types, HandUp, NEW h \in Conns, NEW r \in ReqsOf(h), link[h] = "up", Transmit(h, r)
  PROVE  /\ Rest(h)' = Append(Rest(h), r)
         /\ \A k \in Conns \ {h} : Rest(k)' = Rest(k)
<1>0. /\ air \in [Conns -> Seq(Reqs)] /\ txq \in [Conns -> Seq(Reqs)]
      /\ air[h] \in Seq(ReqsOf(h)) /\ txq[h] \in Seq(ReqsOf(h))
  BY DEF Types, Bearer
<1>1. CASE busy[h]
  <2>1. txq'[h] = Append(txq[h], r) /\ air'[h] = air[h]
    BY <1>0, <1>1 DEF Transmit
  <2>2. \A k \in Conns \ {h} : air'[k] = air[k] /\ txq'[k] = txq[k]
    BY <1>0, <1>1 DEF Transmit
  <2>3. air[h] \o Append(txq[h], r) = Append(air[h] \o txq[h], r)
    BY <1>0, JoinedLast
  <2> QED
    BY <2>1, <2>2, <2>3 DEF Rest
<1>2. CASE ~busy[h]
  <2>1. air'[h] = Append(air[h], r) /\ txq'[h] = txq[h] /\ txq[h] = <<>>
    BY <1>0, <1>2 DEF Transmit, Types, Bearer, OneRequestOutstanding
  <2>2. \A k \in Conns \ {h} : air'[k] = air[k] /\ txq'[k] = txq[k]
    BY <1>0, <1>2 DEF Transmit
  <2>3. Append(air[h], r) \in Seq(ReqsOf(h))
    BY <1>0, Appended
  <2>4. Append(air[h], r) \o <<>> = Append(air[h], r) /\ air[h] \o <<>> = air[h]
    BY <1>0, <2>3, JoinedNone
  <2> QED
    BY <2>1, <2>2, <2>4 DEF Rest
<1> QED
  BY <1>1, <1>2

LEMMA LineSent ==
  ASSUME Types, HandUp, NEW h \in Conns, NEW r \in ReqsOf(h), link[h] = "up", Transmit(h, r),
         NEW k \in Conns, Hand(k)' = Hand(k)
  PROVE  Line(k)' = IF k = h THEN Append(Line(h), r) ELSE Line(k)
<1>1. Hand(h) \in Seq(ReqsOf(h)) /\ Rest(h) \in Seq(ReqsOf(h))
  BY LineTypes
<1>2. Hand(h) \o Append(Rest(h), r) = Append(Hand(h) \o Rest(h), r)
  BY <1>1, JoinedLast
<1> QED
  BY <1>2, SentLast DEF Line

(* An answer that is received stays first in line, and leaves it when it has *)
(* been dispatched.                                                          *)
LEMMA LineReceived ==
  ASSUME Types, HandUp, NEW h \in Conns, Receive(h), NEW k \in Conns
  PROVE  Line(k)' = Line(k)
<1>0. /\ air \in [Conns -> Seq(Reqs)] /\ txq \in [Conns -> Seq(Reqs)]
      /\ air[h] \in Seq(ReqsOf(h)) /\ txq[h] \in Seq(ReqsOf(h))
  BY DEF Types, Bearer
<1>1. /\ hpc = "idle" /\ hpc' = "dispatch" /\ hrsp' = [rsp |-> Head(air[h]), conn |-> h]
      /\ air[h] # <<>> /\ link[h] = "up" /\ SendOutstanding(h)
  BY DEF Receive
<1>2. \A c \in Conns \ {h} : air'[c] = air[c] /\ txq'[c] = txq[c]
  BY <1>0, <1>1 DEF SendOutstanding
<1>3. Len(air[h]) = 1
  BY <1>0, <1>1 DEF Types, Bearer, OneRequestOutstanding
<1>4. PICK r \in ReqsOf(h) : air[h] = <<r>> /\ Head(air[h]) = r /\ Tail(air[h]) = <<>>
  BY <1>0, <1>3, OneOnly
<1>5. Hand(h) = <<>> /\ Hand(h)' = <<r>>
  BY <1>1, <1>4 DEF Hand
<1>6. Rest(h)' = txq[h]
  <2>1. CASE txq[h] = <<>>
    <3>1. air'[h] = <<>> /\ txq'[h] = <<>>
      BY <1>0, <1>1, <1>4, <2>1 DEF SendOutstanding
    <3> QED
      BY <1>0, <2>1, <3>1, JoinedNone DEF Rest
  <2>2. CASE txq[h] # <<>>
    <3>1. air'[h] = Append(<<>>, Head(txq[h])) /\ txq'[h] = Tail(txq[h])
      BY <1>0, <1>1, <1>4, <2>2 DEF SendOutstanding
    <3>2. txq[h] = <<Head(txq[h])>> \o Tail(txq[h])
      BY <1>0, <2>2, FirstRest
    <3>3. \A x : Append(<<>>, x) = <<x>>
      OBVIOUS
    <3> QED
      BY <3>1, <3>2, <3>3 DEF Rest
  <2> QED
    BY <2>1, <2>2
<1>7. CASE k = h
  <2>1. Line(h)' = <<r>> \o txq[h]
    BY <1>5, <1>6 DEF Line
  <2>2. Line(h) = <<>> \o (<<r>> \o txq[h])
    BY <1>4, <1>5 DEF Line, Rest
  <2>3. <<r>> \in Seq(ReqsOf(h))
    OBVIOUS
  <2>4. <<r>> \o txq[h] \in Seq(ReqsOf(h))
    BY <1>0, <2>3, JoinedType
  <2>5. <<>> \o (<<r>> \o txq[h]) = <<r>> \o txq[h]
    BY <2>4, JoinedNone
  <2> QED
    BY <1>7, <2>1, <2>2, <2>5
<1>8. CASE k # h
  <2>1. Hand(k) = <<>> /\ Hand(k)' = <<>>
    BY <1>1, <1>8 DEF Hand
  <2> QED
    BY <1>2, <1>8, <2>1 DEF Line, Rest
<1> QED
  BY <1>7, <1>8

(* The line with and without the answer in the host's hand *)
LEMMA LineInHand ==
  ASSUME Types, HandUp, hpc = "dispatch"
  PROVE  LET h == hrsp.conn IN
         /\ h \in Conns /\ Tail(Line(h)) = Rest(h) /\ Rest(h) \in Seq(ReqsOf(h))
         /\ Line(h) # <<>> /\ Line(h)[1] = hrsp.rsp /\ hrsp.rsp \in ReqsOf(h)
<1>1. PICK h \in Conns : h = hrsp.conn
  BY DEF Types, HostTypes
<1>2. PICK r \in ReqsOf(h) : r = hrsp.rsp
  BY <1>1 DEF HandUp
<1>3. Rest(h) \in Seq(ReqsOf(h))
  BY LineTypes
<1>4. Line(h) = <<r>> \o Rest(h)
  BY <1>1, <1>2 DEF Line, Hand
<1>5. Tail(<<r>> \o Rest(h)) = Rest(h) /\ <<r>> \o Rest(h) # <<>> /\ (<<r>> \o Rest(h))[1] = r
  BY <1>3, JoinedFirst
<1> QED
  BY <1>1, <1>2, <1>3, <1>4, <1>5

LEMMA LineNotInHand ==
  ASSUME Types, HandUp, NEW k \in Conns
  PROVE  ~(hpc = "dispatch" /\ hrsp.conn = k) => Line(k) = Rest(k)
BY LineTypes, JoinedNone DEF Line, Hand

LEMMA LineDispatched ==
  ASSUME Types, HandUp, hpc = "dispatch", hpc' # "dispatch", UNCHANGED attVars, NEW k \in Conns
  PROVE  Line(k)' = IF k = hrsp.conn THEN Tail(Line(k)) ELSE Line(k)
<1>1. Rest(k)' = Rest(k) /\ Hand(k)' = <<>>
  BY DEF Rest, Hand, attVars
<1>2. Line(k)' = Rest(k)
  BY <1>1, LineTypes, JoinedNone DEF Line
<1> QED
  BY <1>2, LineInHand, LineNotInHand

LEMMA LineWentOn ==
  ASSUME Types, HandUp, hpc = "dispatch", hpc' # "dispatch", NEW r \in ReqsOf(hrsp.conn),
         Transmit(hrsp.conn, r), NEW k \in Conns
  PROVE  Line(k)' = IF k = hrsp.conn THEN Append(Tail(Line(k)), r) ELSE Line(k)
<1>1. PICK h \in Conns : h = hrsp.conn /\ link[h] = "up"
  BY DEF Types, HostTypes, HandUp, Live
<1>2. Rest(h)' = Append(Rest(h), r) /\ \A c \in Conns \ {h} : Rest(c)' = Rest(c)
  BY <1>1, SentLast
<1>3. Rest(k) \in Seq(ReqsOf(k)) /\ Append(Rest(h), r) \in Seq(ReqsOf(h)) /\ Hand(k)' = <<>>
  BY <1>1, LineTypes, Appended DEF Hand
<1>4. Line(k)' = Rest(k)'
  BY <1>2, <1>3, JoinedNone DEF Line
<1> QED
  BY <1>1, <1>2, <1>4, LineInHand, LineNotInHand

Tidy(q) == Apiece(q) /\ \A n \in DOMAIN q : Sound(q[n])

LEMMA TidyTail ==
  ASSUME NEW S, NEW q \in Seq(S), q # <<>>, Tidy(q)
  PROVE  /\ Tidy(Tail(q))
         /\ \A n \in DOMAIN Tail(q) : \E m \in DOMAIN q : Tail(q)[n] = q[m] /\ q[m].by # q[1].by
<1>1. /\ DOMAIN Tail(q) = 1..(Len(q) - 1) /\ DOMAIN q = 1..Len(q) /\ Len(q) \in Nat /\ Len(q) > 0
      /\ \A n \in 1..(Len(q) - 1) : Tail(q)[n] = q[n + 1]
  OBVIOUS
<1>2. \A n \in 1..(Len(q) - 1) : n + 1 \in 1..Len(q) /\ n + 1 # 1 /\ 1 \in 1..Len(q)
  BY <1>1
<1>3. \A m, n \in 1..(Len(q) - 1) : m # n => m + 1 # n + 1
  BY <1>1
<1> QED
  BY <1>1, <1>2, <1>3 DEF Tidy, Apiece

LEMMA TidyAppend ==
  ASSUME NEW S, NEW q \in Seq(S), NEW r \in S, Tidy(q), Sound(r), \A n \in DOMAIN q : q[n].by # r.by
  PROVE  /\ Tidy(Append(q, r))
         /\ \A n \in DOMAIN Append(q, r) : Append(q, r)[n] = r \/ \E m \in DOMAIN q : Append(q, r)[n] = q[m]
<1>1. /\ DOMAIN Append(q, r) = 1..(Len(q) + 1) /\ DOMAIN q = 1..Len(q) /\ Len(q) \in Nat
      /\ \A n \in 1..Len(q) : Append(q, r)[n] = q[n]
      /\ Append(q, r)[Len(q) + 1] = r
  OBVIOUS
<1>2. \A n \in 1..(Len(q) + 1) : n \in 1..Len(q) \/ n = Len(q) + 1
  BY <1>1
<1> QED
  BY <1>1, <1>2 DEF Tidy, Apiece

(* Every task has at most one procedure, and has started it. *)
LEMMA MakerCases ==
  ASSUME NEW p
  PROVE  p \in Makers <=> \/ \E i \in DOMAIN procs : p = procs[i]
                          \/ \E t \in Tasks : call[t].pc = "insert" /\ p = NewProc(t)
                          \/ hpc = "insert" /\ p = hproc
BY DEF Makers, ToSet

LEMMA NewProcTypes ==
  ASSUME Types, NEW t \in Tasks
  PROVE  NewProc(t) \in GoodProcs /\ NewProc(t).by = t /\ NewProc(t).off = 0 /\ NewProc(t).live
         /\ NewProc(t).len = call[t].len /\ NewProc(t).op = ProcOp(t) /\ ~NewProc(t).stalled
<1>1. call[t].len \in Nat /\ 0 \in Nat
  BY DEF Types, CallTypes, GoodCalls, Calls
<1>2. ProcOp(t) \in {"read", "readLong", "write", "writeLong"}
  BY DEF ProcOp
<1>3. NewProc(t) \in Procs
  BY <1>1, <1>2 DEF NewProc, Procs
<1> QED
  BY <1>1, <1>3 DEF NewProc, GoodProcs

LEMMA MakerTypes ==
  ASSUME Types, Own, NEW p \in Makers
  PROVE  /\ p \in GoodProcs /\ p.by \in Tasks /\ p.live
         /\ (call[p.by].pc = "insert" /\ p = NewProc(p.by)) \/ (call[p.by].pc = "wait" /\ ~bit[p.by])
         /\ p.op # "readLong" => FitsIn(p.len)
<1>1. ASSUME p \in GoodProcs, Owned(p)
      PROVE  /\ p.by \in Tasks /\ p.live /\ call[p.by].pc = "wait" /\ ~bit[p.by]
             /\ p.op # "readLong" => FitsIn(p.len)
  BY <1>1, ProcFields DEF Owned, Awaited
<1>2. ASSUME NEW i \in DOMAIN procs, p = procs[i]
      PROVE  p \in GoodProcs /\ Owned(p)
  BY <1>2 DEF Types, ProcTypes, Own, ListOwned
<1>3. ASSUME hpc = "insert", p = hproc
      PROVE  p \in GoodProcs /\ Owned(p)
  BY <1>3 DEF Types, HostTypes, Own, HandOwned
<1>4. ASSUME NEW t \in Tasks, call[t].pc = "insert", p = NewProc(t)
      PROVE  /\ p \in GoodProcs /\ p.live /\ p.by \in Tasks /\ FitsIn(p.len)
             /\ call[p.by].pc = "insert" /\ p = NewProc(p.by)
  <2>1. p.by = t /\ p \in GoodProcs /\ p.live /\ p.len = call[t].len
    BY <1>4, NewProcTypes
  <2>2. FitsIn(call[t].len)
    BY DEF Own, CallsOwn, CallOwn
  <2> QED
    BY <1>4, <2>1, <2>2
<1>5. \/ p \in GoodProcs /\ Owned(p)
      \/ \E t \in Tasks : call[t].pc = "insert" /\ p = NewProc(t)
  BY <1>2, <1>3, MakerCases
<1>6. CASE p \in GoodProcs /\ Owned(p)
  BY <1>1, <1>6
<1>7. CASE \E t \in Tasks : call[t].pc = "insert" /\ p = NewProc(t)
  BY <1>4, <1>7
<1> QED
  BY <1>5, <1>6, <1>7

LEMMA MakerOnce ==
  ASSUME Types, Own, NEW p \in Makers, NEW q \in Makers, p.by = q.by
  PROVE  p = q
<1>1. p.by \in Tasks
  BY MakerTypes
<1>2. CASE call[p.by].pc = "insert"
  <2>1. p = NewProc(p.by) /\ q = NewProc(q.by)
    BY <1>2, MakerTypes
  <2> QED
    BY <2>1
<1>3. CASE call[p.by].pc # "insert"
  <2>1. (\E i \in DOMAIN procs : p = procs[i]) \/ (hpc = "insert" /\ p = hproc)
    BY <1>3, MakerCases, NewProcTypes
  <2>2. (\E i \in DOMAIN procs : q = procs[i]) \/ (hpc = "insert" /\ q = hproc)
    BY <1>3, MakerCases, NewProcTypes
  <2> QED
    BY <2>1, <2>2 DEF Own, ListOwned, HandOwned, Holding
<1> QED
  BY <1>2, <1>3

(* How the steps change the set of procedures *)
LEMMA MakersSame ==
  ASSUME UNCHANGED <<procs, hpc, hproc>>,
         \A t \in Tasks : call'[t].pc = "insert" <=> call[t].pc = "insert",
         \A t \in Tasks : call[t].pc = "insert" => call'[t].op = call[t].op /\ call'[t].len = call[t].len
  PROVE  Makers' = Makers
<1>1. \A t \in Tasks : call[t].pc = "insert" => NewProc(t)' = NewProc(t)
  BY DEF NewProc, ProcOp
<1>2. \A p : p \in Makers' <=> \/ \E i \in DOMAIN procs : p = procs[i]
                               \/ \E t \in Tasks : call[t].pc = "insert" /\ p = NewProc(t)
                               \/ hpc = "insert" /\ p = hproc
  BY <1>1 DEF Makers, ToSet
<1> QED
  BY <1>2, MakerCases

LEMMA MakersSelected ==
  ASSUME hpc # "insert",
         \A u \in Tasks : call'[u].pc = call[u].pc /\ call'[u].op = call[u].op /\ call'[u].len = call[u].len,
         NEW K \in SUBSET DOMAIN procs,
         \A n \in DOMAIN procs' : \E i \in K : procs'[n] = procs[i],
         \A i \in K : \E n \in DOMAIN procs' : procs'[n] = procs[i],
         NEW p
  PROVE  p \in Makers' <=> \/ \E i \in K : p = procs[i]
                           \/ \E u \in Tasks : call[u].pc = "insert" /\ p = NewProc(u)
                           \/ hpc' = "insert" /\ p = hproc'
<1>1. \A u \in Tasks : NewProc(u)' = NewProc(u)
  BY DEF NewProc, ProcOp
<1>2. p \in Makers' <=> \/ \E i \in DOMAIN procs' : p = procs'[i]
                        \/ \E u \in Tasks : call[u].pc = "insert" /\ p = NewProc(u)
                        \/ hpc' = "insert" /\ p = hproc'
  BY <1>1 DEF Makers, ToSet
<1> QED
  BY <1>2

-----------------------------------------------------------------------------
(* What is asked of the peers, and what is always so *)

(* What the theorems below ask of the peers and the tasks: no peer refuses   *)
(* the later parts of a long write, answers a procedure that has timed out,  *)
(* or calls an attribute not long that is read.                              *)
Steady ==
  /\ ~LateAnswers /\ LengthsFit /\ (NeverShort \/ ~Preempt)
  /\ \A e : <<"prepLater", e>> \notin PeerErrors
  /\ <<"read", "notLong">> \notin PeerErrors /\ <<"blob", "notLong">> \notin PeerErrors

(* A procedure does what its call asked, and a call holds what its place     *)
(* allows.                                                                   *)
GoodProc(p) ==
  /\ call[p.by].op = IF p.op = "readLong" THEN "read" ELSE "write"
  /\ p.op # "read"
  /\ p.op # "readLong" => p.len = call[p.by].len
  /\ p.op = "write" => p.len = 1 /\ p.off = 0 /\ ~p.stalled
  /\ p.stalled => p.off > 0
  /\ link[Home[p.by]] # "up" => p.off = 0
  /\ p.op = "readLong" => p.off < Size[p.by]
  /\ p.op = "writeLong" => p.len > 0
CallGood(t, c) ==
  /\ c.pc # "idle" => t \in (IF c.op = "read" THEN Readers ELSE Writers)
  /\ c.op = "write" => c.len > 0
  /\ c.pc = "secure" => c.rc = "auth"

MakersGood == \A p \in Makers : GoodProc(p)
CallsGood == \A t \in Tasks : CallGood(t, call[t])
Base == InLine /\ Quiet /\ HandUp /\ MakersGood /\ CallsGood

(* An answer is taken by the procedure of the task that asked. *)
Right == \A i : Takes(i) => procs[i].by = hrsp.rsp.by

LEMMA FirstInHand ==
  ASSUME Types, Base, hpc = "dispatch"
  PROVE  /\ Made(hrsp.rsp) /\ Sound(hrsp.rsp) /\ hrsp.rsp \in ReqsOf(hrsp.conn)
         /\ hrsp.rsp.by \in Tasks /\ Home[hrsp.rsp.by] = hrsp.conn /\ link[hrsp.conn] = "up"
<1>1. /\ hrsp.conn \in Conns /\ Line(hrsp.conn) # <<>> /\ Line(hrsp.conn)[1] = hrsp.rsp
      /\ hrsp.rsp \in ReqsOf(hrsp.conn)
  BY LineInHand DEF Base
<1>2. Live(hrsp.conn)
  BY DEF Base, HandUp
<1>3. Line(hrsp.conn) \in Seq(ReqsOf(hrsp.conn))
  BY <1>1, LineTypes DEF Base
<1>4. 1 \in DOMAIN Line(hrsp.conn)
  BY <1>1, <1>3
<1> QED
  BY <1>1, <1>2, <1>4 DEF Base, InLine, Orderly, Live, ReqsOf, Reqs

LEMMA RightFits ==
  ASSUME Types, Own, Base, Right, NEW i, Takes(i)
  PROVE  /\ Fits(procs[i], hrsp.rsp) /\ procs[i] \in Makers /\ procs[i] \in GoodProcs
         /\ Home[procs[i].by] = hrsp.conn /\ link[hrsp.conn] = "up" /\ GoodProc(procs[i])
         /\ Owned(procs[i])
<1>1. i \in DOMAIN procs /\ hpc = "dispatch"
  BY DEF Takes
<1>2. procs[i] \in Makers /\ procs[i].by = hrsp.rsp.by
  BY <1>1, MakerCases DEF Right
<1>3. PICK m \in Makers : Fits(m, hrsp.rsp)
  BY <1>1, FirstInHand DEF Made
<1>4. m = procs[i]
  BY <1>2, <1>3, MakerOnce DEF Fits
<1> QED
  BY <1>1, <1>2, <1>3, <1>4, FirstInHand DEF Base, MakersGood, Types, ProcTypes, Own, ListOwned

LEMMA RightCuts ==
  ASSUME Steady, Types, Own, Base, Right
  PROVE  CutsWrites
<1> SUFFICES ASSUME NEW i \in DOMAIN procs, Takes(i), hrsp.rsp.res = "notLong"
             PROVE  MayBeCut(call[procs[i].by])
  BY DEF CutsWrites
<1>1. PICK p : p = procs[i]
  OBVIOUS
<1>2. PICK r : r = hrsp.rsp
  OBVIOUS
<1>3. Fits(p, r) /\ GoodProc(p)
  BY <1>1, <1>2, RightFits
<1>4. Sound(r) /\ r.res = "notLong"
  BY <1>2, FirstInHand DEF Takes
<1>5. <<Kind(r), "notLong">> \in PeerErrors
  BY <1>4 DEF Sound, Errors
<1>6. ~Preempt /\ r.op \notin {"read", "blob"}
  BY <1>5 DEF Steady, NeverShort, Kind
<1>7. p.op # "readLong"
  BY <1>3, <1>6 DEF Fits, RequestOf
<1>8. call[p.by].op = "write"
  BY <1>3, <1>7 DEF GoodProc
<1> QED
  BY <1>1, <1>6, <1>8 DEF MayBeCut

(* What a handler does to the call of its procedure *)
Told(t, v, rc) ==
  /\ \A u \in Tasks \ {t} : call'[u] = call[u] /\ bit'[u] = bit[u]
  /\ bit'[t] /\ call'[t].pc = call[t].pc /\ call'[t].op = call[t].op /\ call'[t].len = call[t].len
  /\ call'[t].value = v /\ call'[t].rc = rc
Fed(t, v) ==
  /\ \A u \in Tasks \ {t} : call'[u] = call[u]
  /\ bit' = bit /\ call'[t].pc = call[t].pc /\ call'[t].op = call[t].op /\ call'[t].len = call[t].len
  /\ call'[t].value = v /\ call'[t].rc = call[t].rc

LEMMA CallbackTold ==
  ASSUME CallTypes, NEW p \in GoodProcs, NEW rc, Callback(p, rc), p.live,
         rc = "notConn" \/ link[Home[p.by]] # "down"
  PROVE  Told(p.by, call[p.by].value, rc)
<1>1. PICK t \in Tasks : t = p.by
  BY ProcFields
<1>2. call' = [call EXCEPT ![t].rc = rc] /\ bit' = [bit EXCEPT ![t] = TRUE]
  BY <1>1 DEF Callback
<1>3. PICK c \in Calls : c = call[t]
  BY DEF CallTypes, GoodCalls
<1>4. PICK d : d = [c EXCEPT !.rc = rc]
  OBVIOUS
<1>5. d.pc = c.pc /\ d.op = c.op /\ d.len = c.len /\ d.value = c.value /\ d.rc = rc
  BY <1>4 DEF Calls
<1>6. call' = [call EXCEPT ![t] = d]
  BY <1>2, <1>3, <1>4 DEF CallTypes
<1>7. call'[t] = d /\ bit'[t] /\ \A u \in Tasks \ {t} : call'[u] = call[u] /\ bit'[u] = bit[u]
  BY <1>2, <1>6 DEF CallTypes
<1> QED
  BY <1>1, <1>3, <1>5, <1>7 DEF Told

LEMMA AddChunkFed ==
  ASSUME CallTypes, NEW p \in GoodProcs, NEW r, AddChunk(p, r), Heard(p)
  PROVE  Fed(p.by, Append(call[p.by].value, <<r.by, r.off>>))
<1>1. PICK t \in Tasks : t = p.by
  BY ProcFields
<1>2. PICK c \in Calls : c = call[t]
  BY DEF CallTypes, GoodCalls
<1>3. PICK v : v = Append(c.value, <<r.by, r.off>>)
  OBVIOUS
<1>4. PICK d : d = [c EXCEPT !.value = v]
  OBVIOUS
<1>5. d.pc = c.pc /\ d.op = c.op /\ d.len = c.len /\ d.value = v /\ d.rc = c.rc
  BY <1>4 DEF Calls
<1>6. call' = [call EXCEPT ![t] = d] /\ bit' = bit
  BY <1>1, <1>2, <1>3, <1>4 DEF AddChunk, CallTypes
<1>7. call'[t] = d /\ \A u \in Tasks \ {t} : call'[u] = call[u]
  BY <1>6 DEF CallTypes
<1> QED
  BY <1>1, <1>2, <1>3, <1>5, <1>6, <1>7 DEF Fed

(* A procedure goes on: its next request is sent, or it waits for a buffer. *)
Resumes(q) ==
  /\ hpc' = "insert"
  /\ \E b \in BOOLEAN :
       /\ hproc' = [q EXCEPT !.stalled = b]
       /\ IF b THEN NoMem /\ UNCHANGED attVars
               ELSE Transmit(Home[q.by], Request(RequestOf(q), q.by, q.off))
Refused(q) ==
  /\ hpc' = "again" /\ hproc' = q /\ UNCHANGED attVars /\ ~Preempt
  /\ Told(q.by, call[q.by].value, "invalid")
Advanced(p) == [p EXCEPT !.off = @ + 1, !.len = IF p.op = "readLong" THEN @ + 1 ELSE @]

LEMMA ResumeResumes ==
  ASSUME NEW q, Resume(q, Request(RequestOf(q), q.by, q.off))
  PROVE  Resumes(q)
BY DEF Resume, Resumes, HostKeeps

LEMMA ResumeWriteOutcome ==
  ASSUME CallTypes, NEW q \in GoodProcs, q.op = "writeLong", q.live, link[Home[q.by]] = "up",
         FitsIn(q.len), ResumeWrite(q)
  PROVE  Refused(q) \/ (Resumes(q) /\ UNCHANGED callVars)
<1>0. q.off \in Nat /\ q.len \in Nat /\ AttrMax \in Nat
  BY ProcFields, BoundsAssumption
<1>1. CASE q.off < q.len /\ q.off >= AttrMax
  <2>0. ~(q.off = q.len \/ q.off < AttrMax)
    BY <1>0, <1>1
  <2>1. Callback(q, "invalid") /\ hpc' = "again" /\ hproc' = q /\ UNCHANGED attVars
    BY <2>0 DEF ResumeWrite
  <2>2. ~Preempt
    BY <1>0, <1>1 DEF FitsIn
  <2> QED
    BY <2>1, <2>2, CallbackTold DEF Refused
<1>2. CASE ~(q.off < q.len /\ q.off >= AttrMax)
  <2>1. Resume(q, NextWrite(q)) /\ UNCHANGED callVars
    BY <1>2 DEF ResumeWrite
  <2>2. NextWrite(q) = Request(RequestOf(q), q.by, q.off)
    BY DEF NextWrite, RequestOf
  <2> QED
    BY <2>1, <2>2, ResumeResumes
<1> QED
  BY <1>1, <1>2

(* The outcomes of an answer that its own procedure takes *)
Finishes(p, r) ==
  /\ hpc' \in {"idle", "again"} /\ UNCHANGED attVars
  /\ \/ r.res \in Errors /\ Told(p.by, call[p.by].value, r.res)
     \/ Told(p.by, call[p.by].value, "invalid")
     \/ /\ r.res = "ok" /\ p.op = "readLong" /\ p.off + 1 = Size[p.by]
        /\ Told(p.by, Append(call[p.by].value, <<p.by, p.off>>), "done")
     \/ /\ r.res = "ok" /\ (p.op = "write" \/ (p.op = "writeLong" /\ p.off = p.len))
        /\ Told(p.by, call[p.by].value, "ok")
GoesOn(p, r) ==
  /\ r.res = "ok" /\ Resumes(Advanced(p)) /\ Advanced(p) \in GoodProcs
  /\ \/ /\ p.op = "readLong" /\ p.off + 1 < Size[p.by]
        /\ Fed(p.by, Append(call[p.by].value, <<p.by, p.off>>))
     \/ p.op = "writeLong" /\ p.off < p.len /\ UNCHANGED callVars

LEMMA AdvancedFields ==
  ASSUME NEW p \in GoodProcs, p.op = "readLong" \/ p.off < p.len
  PROVE  /\ Advanced(p) \in GoodProcs /\ Advanced(p).by = p.by /\ Advanced(p).op = p.op
         /\ Advanced(p).off = p.off + 1 /\ Advanced(p).live = p.live /\ Advanced(p).stalled = p.stalled
         /\ Advanced(p).len = IF p.op = "readLong" THEN p.len + 1 ELSE p.len
         /\ p.op = "readLong" => Advanced(p) = [p EXCEPT !.off = @ + 1, !.len = @ + 1]
         /\ p.op # "readLong" => Advanced(p) = [p EXCEPT !.off = @ + 1]
<1>1. p \in Procs /\ p.off \in Nat /\ p.len \in Nat /\ p.off <= p.len
  BY ProcFields, Zenon DEF GoodProcs
<1>2. CASE p.op = "readLong"
  <2>1. Advanced(p) = [p EXCEPT !.off = p.off + 1, !.len = p.len + 1]
    BY <1>1, <1>2 DEF Advanced, Procs
  <2>2. p.off + 1 \in Nat /\ p.len + 1 \in Nat /\ p.off + 1 <= p.len + 1
    BY <1>1
  <2> QED
    BY <1>1, <1>2, <2>1, <2>2 DEF GoodProcs, Procs
<1>3. CASE p.op # "readLong"
  <2>1. Advanced(p) = [p EXCEPT !.off = p.off + 1]
    BY <1>1, <1>3 DEF Advanced, Procs
  <2>2. p.off + 1 \in Nat /\ p.off + 1 <= p.len
    BY <1>1, <1>3
  <2> QED
    BY <1>1, <1>3, <2>1, <2>2 DEF GoodProcs, Procs
<1> QED
  BY <1>2, <1>3, SMTT(60)

LEMMA HandledRead ==
  ASSUME CallTypes, NEW p \in GoodProcs, NEW r, Fits(p, r), GoodProc(p), p.live,
         link[Home[p.by]] = "up", p.op = "readLong", r.res = "ok", ReadLongRsp(p, r)
  PROVE  Finishes(p, r) \/ GoesOn(p, r)
<1>0. /\ Heard(p) /\ r.by = p.by /\ r.off = p.off /\ p.off < Size[p.by]
      /\ p.off \in Nat /\ p.by \in Tasks /\ Size[p.by] \in Nat
  BY ProcFields, TasksAssumption DEF Heard, Fits, GoodProc
<1>1. CASE Callback(p, "invalid") /\ HostDone /\ UNCHANGED attVars
  BY <1>1, <1>0, CallbackTold DEF Finishes, HostDone, Heard
<1>2. CASE /\ r.off + 1 < Size[r.by] /\ AddChunk(p, r)
           /\ LET q == [p EXCEPT !.off = @ + 1, !.len = @ + 1]
              IN Resume(q, Request("blob", p.by, q.off))
  <2>1. PICK q : q = Advanced(p)
    OBVIOUS
  <2>2. q = [p EXCEPT !.off = @ + 1, !.len = @ + 1] /\ q.by = p.by /\ q.off = p.off + 1 /\ q.op = "readLong"
        /\ q \in GoodProcs
    BY <2>1, AdvancedFields
  <2>3. Resume(q, Request("blob", q.by, q.off))
    BY <1>2, <2>2
  <2>4. RequestOf(q) = "blob"
    BY <1>0, <2>2 DEF RequestOf
  <2>5. Resumes(q)
    BY <2>3, <2>4, ResumeResumes
  <2> QED
    BY <1>0, <1>2, <2>1, <2>2, <2>5, AddChunkFed DEF GoesOn
<1>3. CASE /\ r.off + 1 >= Size[r.by] /\ HostDone /\ UNCHANGED attVars
           /\ call' = IF Heard(p)
                      THEN [call EXCEPT ![p.by].value = Append(@, <<r.by, r.off>>),
                                        ![p.by].rc = "done"]
                      ELSE call
           /\ bit' = [bit EXCEPT ![p.by] = @ \/ Heard(p)]
  <2>1. PICK t \in Tasks : t = p.by
    BY <1>0
  <2>2. PICK c \in Calls : c = call[t]
    BY DEF CallTypes, GoodCalls
  <2>3. PICK v : v = Append(c.value, <<p.by, p.off>>)
    OBVIOUS
  <2>4. PICK d : d = [c EXCEPT !.value = v, !.rc = "done"]
    OBVIOUS
  <2>5. d.pc = c.pc /\ d.op = c.op /\ d.len = c.len /\ d.value = v /\ d.rc = "done"
    BY <2>4 DEF Calls
  <2>6. call' = [call EXCEPT ![t] = d]
    BY <1>0, <1>3, <2>1, <2>2, <2>3, <2>4 DEF CallTypes
  <2>7. call'[t] = d /\ bit'[t] /\ \A u \in Tasks \ {t} : call'[u] = call[u] /\ bit'[u] = bit[u]
    BY <1>0, <1>3, <2>1, <2>6 DEF CallTypes
  <2>8. Told(p.by, Append(call[p.by].value, <<p.by, p.off>>), "done")
    BY <2>1, <2>2, <2>3, <2>5, <2>7 DEF Told
  <2>9. p.off + 1 = Size[p.by]
    BY <1>0, <1>3
  <2> QED
    BY <1>3, <2>8, <2>9 DEF Finishes, HostDone
<1> QED
  BY <1>0, <1>1, <1>2, <1>3 DEF ReadLongRsp

LEMMA Handled ==
  ASSUME Steady, CallTypes, NEW p \in GoodProcs, NEW r, r.res \in {"ok"} \cup Errors,
         Fits(p, r), Sound(r), GoodProc(p), Owned(p),
         link[Home[p.by]] = "up", HandleRsp(p, r)
  PROVE  Finishes(p, r) \/ GoesOn(p, r)
<1>0. p.live /\ (p.op # "readLong" => FitsIn(p.len)) /\ p.off \in Nat /\ p.len \in Nat /\ p.off <= p.len
  BY ProcFields DEF Owned, Awaited
<1>1. CASE r.res \in Errors
  <2>1. ErrorRsp(p, r.res)
    BY <1>1 DEF HandleRsp, Errors
  <2>2. ~(p.op = "writeLong" /\ p.off > 0 /\ p.off < p.len)
    <3> SUFFICES ASSUME p.op = "writeLong" /\ p.off > 0 /\ p.off < p.len PROVE FALSE
      OBVIOUS
    <3>1. r.op = "prep" /\ r.off # 0
      BY <1>0 DEF Fits, RequestOf
    <3>2. Kind(r) = "prepLater"
      BY <3>1 DEF Kind
    <3> QED
      BY <1>1, <3>2 DEF Sound, Steady
  <2> QED
    BY <1>0, <1>1, <2>1, <2>2, CallbackTold DEF Finishes, ErrorRsp, HostDone
<1>2. CASE r.res = "ok"
  <2>0. "ok" \notin Errors
    BY DEF Errors
  <2>1. CASE p.op = "readLong"
    <3>1. ReadLongRsp(p, r)
      BY <1>2, <2>0, <2>1 DEF HandleRsp
    <3> QED
      BY <1>0, <1>2, <2>1, <3>1, HandledRead
  <2>2. CASE p.op = "write"
    <3>1. Callback(p, "ok") /\ HostDone /\ UNCHANGED attVars
      BY <1>2, <2>0, <2>2 DEF HandleRsp
    <3> QED
      BY <1>0, <1>2, <2>2, <3>1, CallbackTold DEF Finishes, HostDone
  <2>3. CASE p.op = "writeLong" /\ p.off < p.len
    <3>1. r.op = "prep" /\ r.by = p.by /\ r.off = p.off
      BY <1>0, <2>3 DEF Fits, RequestOf
    <3>2. PrepRsp(p, r)
      BY <1>2, <2>0, <2>3, <3>1 DEF HandleRsp
    <3>3. PICK q : q = Advanced(p)
      OBVIOUS
    <3>4. q = [p EXCEPT !.off = @ + 1] /\ q \in GoodProcs /\ q.op = "writeLong" /\ q.by = p.by
          /\ q.live /\ q.len = p.len
      BY <1>0, <2>3, <3>3, AdvancedFields
    <3>5. ResumeWrite(q)
      BY <2>3, <3>1, <3>2, <3>4 DEF PrepRsp
    <3>6. Refused(q) \/ (Resumes(q) /\ UNCHANGED callVars)
      BY <1>0, <2>3, <3>4, <3>5, ResumeWriteOutcome
    <3> QED
      BY <1>2, <2>3, <3>3, <3>4, <3>6 DEF Finishes, GoesOn, Refused
  <2>4. CASE p.op = "writeLong" /\ ~(p.off < p.len)
    <3>1. p.off = p.len
      BY <1>0, <2>4
    <3>2. r.op = "exec"
      BY <2>4, <3>1 DEF Fits, RequestOf
    <3>3. ExecRsp(p)
      BY <1>2, <2>0, <2>4, <3>2 DEF HandleRsp
    <3> QED
      BY <1>0, <1>2, <2>4, <3>1, <3>3, CallbackTold DEF Finishes, HostDone, ExecRsp
  <2> QED
    BY <2>1, <2>2, <2>3, <2>4 DEF GoodProc, GoodProcs, Procs
<1> QED
  BY <1>1, <1>2

-----------------------------------------------------------------------------
(* The steps of a task *)

(* The steps of a task, as the invariants below see them *)
Same(c, d) == d.op = c.op /\ d.len = c.len /\ d.value = c.value /\ d.rc = c.rc
Starts(t) ==
  /\ call[t].pc = "idle" /\ call'[t].pc = "send" /\ call'[t].value = <<>> /\ bit' = bit
  /\ \/ call'[t].op = "read" /\ t \in Readers /\ written' = written
     \/ /\ call'[t].op = "write" /\ t \in Writers /\ call'[t].len \in Lengths
        /\ written' = [written EXCEPT ![t] = {}]
  /\ UNCHANGED <<attVars, procs, hproc>>
Sends(t) ==
  /\ call[t].pc = "send" /\ call'[t].pc = "insert" /\ Same(call[t], call'[t]) /\ bit' = bit
  /\ Transmit(Home[t], FirstRequest(t)) /\ UNCHANGED <<procs, hproc, written>>
Fails(t) ==
  /\ call[t].pc = "send" /\ call'[t].pc = "done" /\ call'[t].rc \in {"notConn", "noMem"} /\ bit' = bit
  /\ call'[t].op = call[t].op /\ call'[t].len = call[t].len /\ call'[t].value = call[t].value
  /\ UNCHANGED <<attVars, procs, hproc, written>>
Inserts(t) ==
  /\ call[t].pc = "insert" /\ call'[t].pc = "wait" /\ Same(call[t], call'[t]) /\ bit' = bit
  /\ procs' = Append(procs, NewProc(t)) /\ UNCHANGED <<attVars, hproc, written>>
Wakes(t) ==
  /\ call[t].pc = "wait" /\ bit[t] /\ ~bit'[t] /\ \A u \in Tasks \ {t} : bit'[u] = bit[u]
  /\ \/ call'[t].pc = "done" /\ Same(call[t], call'[t])
     \/ call'[t].pc = "secure" /\ Same(call[t], call'[t]) /\ call[t].rc = "auth"
     \/ /\ call'[t].pc = "send" /\ call[t].op = "write" /\ call'[t].op = "write"
        /\ call'[t].len = 1 /\ call[t].rc = "notLong"
  /\ UNCHANGED <<attVars, procs, hproc, written>>
Secures(t) ==
  /\ call[t].pc = "secure" /\ call'[t].pc \in {"send", "done"} /\ Same(call[t], call'[t]) /\ bit' = bit
  /\ UNCHANGED <<attVars, procs, hproc, written>>
Returns(t) ==
  /\ call[t].pc = "done" /\ call'[t] = NoCall /\ bit' = bit
  /\ UNCHANGED <<attVars, procs, hproc, written>>

LEMMA ReturnLeaves ==
  ASSUME Types, Own, NEW t \in Tasks, Return(t)
  PROVE  procs' = procs /\ hproc' = hproc
<1>1. call[t].pc = "done" /\ hpc # "again"
  BY DEF Return, AppMayRun, Own, HandOwned
<1>2. procs' = procs
  <2>1. \A i \in DOMAIN procs : procs[i].by # t
    BY <1>1 DEF Own, ListOwned, Owned, Awaited
  <2>2. procs' = [i \in DOMAIN procs |->
                    IF procs[i].by = t THEN [procs[i] EXCEPT !.live = FALSE] ELSE procs[i]]
    BY DEF Return
  <2>3. procs' = [i \in DOMAIN procs |-> procs[i]]
    BY <2>1, <2>2
  <2>4. procs = [i \in DOMAIN procs |-> procs[i]]
    BY DEF Types, ProcTypes
  <2> QED
    BY <2>3, <2>4
<1>3. hproc # None => hpc = "insert" /\ hproc.by # t
  BY <1>1 DEF Own, HandOwned, Holding, Owned, Awaited
<1> QED
  BY <1>2, <1>3 DEF Return

LEMMA AppSteps ==
  ASSUME Types, Own, NEW t \in Tasks, AppNext(t)
  PROVE  /\ UNCHANGED <<link, silent, hpc, hrsp, prepq>> /\ hpc # "again"
         /\ \A u \in Tasks \ {t} : call'[u] = call[u]
         /\ Starts(t) \/ Sends(t) \/ Fails(t) \/ Inserts(t) \/ Wakes(t) \/ Secures(t) \/ Returns(t)
<1>0. call \in [Tasks -> GoodCalls] /\ bit \in [Tasks -> BOOLEAN] /\ CallOwn(call[t], bit[t])
  BY DEF Types, CallTypes, Own, CallsOwn
<1>1. UNCHANGED <<link, silent, hpc, hrsp, prepq>>
  BY DEF AppNext, readValue, writeValue, Send, Insert, Wake, Secure, Return, hostVars, peerVars
<1>9. hpc # "again"
  <2>1. AppMayRun(t)
    BY DEF AppNext, readValue, writeValue, MayCall, Send, Insert, Wake, Secure, Return
  <2> QED
    BY <2>1 DEF AppMayRun, Own, HandOwned
<1>2. PICK c \in Calls : c = call[t]
  BY <1>0 DEF GoodCalls
<1>3. ASSUME NEW d, call' = [call EXCEPT ![t] = d]
      PROVE  call'[t] = d /\ \A u \in Tasks \ {t} : call'[u] = call[u]
  BY <1>0, <1>3
<1>4. CASE readValue(t)
  <2> DEFINE d == [NoCall EXCEPT !.pc = "send", !.retry = 1]
  <2>1. call' = [call EXCEPT ![t] = d]
    BY <1>4 DEF readValue
  <2>2. d.pc = "send" /\ d.value = <<>> /\ d.op = "read"
    BY DEF NoCall
  <2> HIDE DEF d
  <2>3. Starts(t)
    BY <1>3, <1>4, <2>1, <2>2 DEF readValue, MayCall, Starts, hostVars, peerVars
  <2> QED
    BY <1>1, <1>3, <1>9, <2>1, <2>3
<1>5. CASE writeValue(t)
  <2>1. PICK n \in Lengths :
          call' = [call EXCEPT ![t] = [NoCall EXCEPT !.pc = "send", !.op = "write",
                                                     !.len = n, !.retry = 1]]
    BY <1>5 DEF writeValue
  <2> DEFINE d == [NoCall EXCEPT !.pc = "send", !.op = "write", !.len = n, !.retry = 1]
  <2>2. d.pc = "send" /\ d.value = <<>> /\ d.op = "write" /\ d.len = n
    BY DEF NoCall
  <2>3. call' = [call EXCEPT ![t] = d]
    BY <2>1
  <2> HIDE DEF d
  <2>4. Starts(t)
    BY <1>3, <1>5, <2>2, <2>3 DEF writeValue, MayCall, Starts, hostVars
  <2> QED
    BY <1>1, <1>3, <1>9, <2>3, <2>4
<1>6. CASE Send(t)
  <2>1. c.pc = "send" /\ bit' = bit /\ UNCHANGED <<procs, hproc, written>>
    BY <1>0, <1>2, <1>6 DEF Send, hostVars, peerVars, CallOwn
  <2>2. CASE Transmit(Home[t], FirstRequest(t))
             /\ call' = [call EXCEPT ![t].pc = IF @ = "send" THEN "insert" ELSE "insertShort"]
    <3> DEFINE d == [c EXCEPT !.pc = "insert"]
    <3>1. call' = [call EXCEPT ![t] = d]
      BY <1>0, <1>2, <2>1, <2>2
    <3>2. d.pc = "insert" /\ Same(c, d)
      BY DEF Calls, Same
    <3> HIDE DEF d
    <3>3. Sends(t)
      BY <1>2, <1>3, <2>1, <2>2, <3>1, <3>2 DEF Sends
    <3> QED
      BY <1>1, <1>3, <1>9, <3>1, <3>3
  <2>3. ASSUME NEW rc \in {"notConn", "noMem"}, Finish(t, rc), UNCHANGED attVars
        PROVE  Fails(t) /\ \A u \in Tasks \ {t} : call'[u] = call[u]
    <3> DEFINE d == [c EXCEPT !.pc = "done", !.rc = rc]
    <3>1. call' = [call EXCEPT ![t] = d]
      BY <1>0, <1>2, <2>3 DEF Finish
    <3>2. d.pc = "done" /\ d.op = c.op /\ d.len = c.len /\ d.value = c.value /\ d.rc = rc
      BY DEF Calls
    <3> HIDE DEF d
    <3> QED
      BY <1>2, <1>3, <2>1, <2>3, <3>1, <3>2 DEF Fails
  <2> QED
    BY <1>1, <1>6, <1>9, <2>2, <2>3 DEF Send
<1>7. CASE Insert(t)
  <2>1. c.pc = "insert" /\ bit' = bit /\ UNCHANGED <<attVars, hproc, written>>
    BY <1>0, <1>2, <1>7 DEF Insert, Inserting, CallOwn, hostVars, peerVars
  <2>2. procs' = Append(procs, NewProc(t))
    BY <1>7 DEF Insert, NewProc
  <2> DEFINE d == [c EXCEPT !.pc = "wait", !.rc = c.rc]
  <2>3. call' = [call EXCEPT ![t] = d]
    BY <1>0, <1>2, <1>7, <2>1 DEF Insert
  <2>4. d.pc = "wait" /\ Same(c, d)
    BY DEF Calls, Same
  <2> HIDE DEF d
  <2>5. Inserts(t)
    BY <1>2, <1>3, <2>1, <2>2, <2>3, <2>4 DEF Inserts
  <2> QED
    BY <1>1, <1>3, <1>9, <2>3, <2>5
<1>8. CASE Wake(t)
  <2>1. /\ call' = [call EXCEPT ![t] = AfterWait(c)] /\ bit' = [bit EXCEPT ![t] = FALSE] /\ bit[t]
        /\ c.pc = "wait" /\ UNCHANGED <<attVars, procs, hproc, written>>
    BY <1>0, <1>2, <1>8 DEF Wake, hostVars, peerVars
  <2>2. ~bit'[t] /\ \A u \in Tasks \ {t} : bit'[u] = bit[u]
    BY <1>0, <2>1
  <2>3. \/ AfterWait(c) = [c EXCEPT !.pc = "done"]
        \/ c.rc = "auth" /\ AfterWait(c) = [c EXCEPT !.pc = "secure"]
        \/ c.rc = "notLong" /\ c.op = "write" /\ AfterWait(c) = [c EXCEPT !.pc = "send", !.len = 1]
    <3>1. c.rc = "notLong" => c.op = "write"
      BY <1>0, <1>2 DEF CallOwn, MayBeCut
    <3> QED
      BY <3>1 DEF AfterWait
  <2>4. PICK d : d = AfterWait(c)
    OBVIOUS
  <2>5. \/ d.pc = "done" /\ Same(c, d)
        \/ d.pc = "secure" /\ Same(c, d) /\ c.rc = "auth"
        \/ d.pc = "send" /\ c.op = "write" /\ d.op = "write" /\ d.len = 1 /\ c.rc = "notLong"
    BY <2>3, <2>4 DEF Calls, Same
  <2>7. call' = [call EXCEPT ![t] = d] /\ call'[t] = d
    BY <1>3, <2>1, <2>4
  <2>6. Wakes(t)
    BY <1>2, <2>1, <2>2, <2>5, <2>7 DEF Wakes
  <2> QED
    BY <1>1, <1>3, <1>9, <2>6, <2>7
<1>10. CASE Secure(t)
  <2>1. c.pc = "secure" /\ bit' = bit /\ UNCHANGED <<attVars, procs, hproc, written>>
    BY <1>2, <1>10 DEF Secure, hostVars, peerVars
  <2>2. PICK d \in {[c EXCEPT !.pc = "send", !.retry = c.retry - 1], [c EXCEPT !.pc = "done"]} :
          call' = [call EXCEPT ![t] = d]
    <3>1. CASE call' = [call EXCEPT ![t].pc = "send", ![t].retry = @ - 1]
      BY <1>0, <1>2, <3>1
    <3>2. CASE call' = [call EXCEPT ![t].pc = "done"]
      BY <1>0, <1>2, <3>2
    <3> QED
      BY <1>10, <3>1, <3>2 DEF Secure
  <2>3. d.pc \in {"send", "done"} /\ Same(c, d)
    BY <2>2 DEF Calls, Same
  <2>4. Secures(t)
    BY <1>2, <1>3, <2>1, <2>2, <2>3 DEF Secures
  <2> QED
    BY <1>1, <1>3, <1>9, <2>2, <2>4
<1>11. CASE Return(t)
  <2>1. /\ call[t].pc = "done" /\ bit' = bit /\ call' = [call EXCEPT ![t] = NoCall]
        /\ UNCHANGED <<attVars, written>>
    BY <1>11 DEF Return, peerVars
  <2>2. Returns(t)
    BY <1>3, <1>11, <2>1, ReturnLeaves DEF Returns
  <2> QED
    BY <1>1, <1>3, <1>9, <2>1, <2>2
<1> QED
  BY <1>4, <1>5, <1>6, <1>7, <1>8, <1>10, <1>11 DEF AppNext

LEMMA FirstFits ==
  ASSUME Types, Base, NEW t \in Tasks, call[t].pc = "send"
  PROVE  /\ FirstRequest(t) \in ReqsOf(Home[t]) /\ Fits(NewProc(t), FirstRequest(t))
         /\ FirstRequest(t).by = t /\ FirstRequest(t).res = "sent" /\ Sound(FirstRequest(t))
         /\ \/ NewProc(t).op = "readLong" /\ call[t].op = "read"
            \/ NewProc(t).op \in {"write", "writeLong"} /\ call[t].op = "write"
         /\ NewProc(t).op = "write" => NewProc(t).len = 1
<1>1. PICK c \in Calls : c = call[t]
  BY DEF Types, CallTypes, GoodCalls
<1>2. c.op \in {"read", "write"} /\ c.len \in Nat /\ (c.op = "write" => c.len > 0) /\ c.pc = "send"
  BY <1>1 DEF Calls, Base, CallsGood, CallGood
<1>3. PICK p : p = NewProc(t)
  OBVIOUS
<1>4. p.by = t /\ p.off = 0 /\ p.len = c.len /\ p.op = ProcOp(t) /\ ~p.stalled
  BY <1>1, <1>3, NewProcTypes
<1>5. \A op \in Ops : /\ Request(op, t, 0) \in ReqsOf(Home[t]) /\ Request(op, t, 0).by = t /\ Request(op, t, 0).off = 0
                      /\ Request(op, t, 0).op = op /\ Request(op, t, 0).res = "sent"
  BY RequestTypes DEF Request
<1>6. RequestOf(p) \in Ops /\ FirstRequest(t) = Request(RequestOf(p), t, 0)
  <2>1. CASE c.op = "read"
    <3>1. FirstRequest(t) = Request("read", t, 0) /\ p.op = "readLong"
      BY <1>1, <1>2, <1>4, <2>1 DEF FirstRequest, ProcOp
    <3> QED
      BY <1>4, <3>1 DEF RequestOf, Ops
  <2>2. CASE c.op = "write" /\ c.len = 1
    <3>1. FirstRequest(t) = Request("write", t, 0) /\ p.op = "write"
      BY <1>1, <1>2, <1>4, <2>2 DEF FirstRequest, ProcOp
    <3> QED
      BY <1>4, <3>1 DEF RequestOf, Ops
  <2>3. CASE c.op = "write" /\ c.len # 1
    <3>1. FirstRequest(t) = Request("prep", t, 0) /\ p.op = "writeLong"
      BY <1>1, <1>2, <1>4, <2>3 DEF FirstRequest, ProcOp
    <3>2. p.off # p.len
      BY <1>2, <1>4, <2>3
    <3> QED
      BY <3>1, <3>2 DEF RequestOf, Ops
  <2> QED
    BY <1>2, <2>1, <2>2, <2>3
<1>9. PICK op \in Ops : op = RequestOf(p) /\ FirstRequest(t) = Request(op, t, 0)
  BY <1>6
<1>7. "sent" \notin Errors
  BY DEF Errors
<1>8. \/ p.op = "readLong" /\ c.op = "read"
      \/ p.op \in {"write", "writeLong"} /\ c.op = "write" /\ (p.op = "write" => c.len = 1)
  BY <1>1, <1>2, <1>4 DEF ProcOp
<1> QED
  BY <1>1, <1>3, <1>4, <1>5, <1>9, <1>7, <1>8 DEF Fits, Sound

LEMMA AppMakers ==
  ASSUME Types, Own, Base, NEW t \in Tasks, AppNext(t), ~Sends(t)
  PROVE  Makers' = Makers
<1>0. /\ UNCHANGED <<link, silent, hpc, hrsp>> /\ \A u \in Tasks \ {t} : call'[u] = call[u]
      /\ Starts(t) \/ Fails(t) \/ Inserts(t) \/ Wakes(t) \/ Secures(t) \/ Returns(t)
  BY AppSteps
<1>1. CASE Inserts(t)
  <2>1. /\ DOMAIN procs' = 1..(Len(procs) + 1) /\ DOMAIN procs = 1..Len(procs) /\ Len(procs) \in Nat
        /\ procs'[Len(procs) + 1] = NewProc(t) /\ \A i \in 1..Len(procs) : procs'[i] = procs[i]
    <3>1. procs \in Seq(GoodProcs) /\ NewProc(t) \in GoodProcs /\ procs' = Append(procs, NewProc(t))
      BY <1>1, NewProcTypes DEF Types, ProcTypes, Inserts
    <3> QED
      BY <3>1
  <2>2. \A i \in 1..(Len(procs) + 1) : i \in 1..Len(procs) \/ i = Len(procs) + 1
    BY <2>1
  <2>3. \A p : (\E i \in DOMAIN procs' : p = procs'[i]) <=> (\E i \in DOMAIN procs : p = procs[i]) \/ p = NewProc(t)
    <3>1. Len(procs) + 1 \in 1..(Len(procs) + 1) /\ \A i \in 1..Len(procs) : i \in 1..(Len(procs) + 1)
      BY <2>1
    <3> QED
      BY <2>1, <2>2, <3>1
  <2>4. \A u \in Tasks \ {t} : NewProc(u)' = NewProc(u)
    BY <1>0 DEF NewProc, ProcOp
  <2>5. call[t].pc = "insert" /\ call'[t].pc # "insert" /\ hproc' = hproc
    BY <1>1 DEF Inserts
  <2>6. \A p : p \in Makers' <=> \/ \E i \in DOMAIN procs' : p = procs'[i]
                                 \/ \E u \in Tasks : call'[u].pc = "insert" /\ p = NewProc(u)'
                                 \/ hpc = "insert" /\ p = hproc
    BY <1>0, <2>5 DEF Makers, ToSet
  <2>7. \A p : (\E u \in Tasks : call'[u].pc = "insert" /\ p = NewProc(u)')
               <=> (\E u \in Tasks \ {t} : call[u].pc = "insert" /\ p = NewProc(u))
    BY <1>0, <2>4, <2>5
  <2>8. \A p : p \in Makers' <=> p \in Makers
    BY <2>3, <2>5, <2>6, <2>7, MakerCases
  <2> QED
    BY <2>8
<1>2. CASE Starts(t) \/ Fails(t) \/ Wakes(t) \/ Secures(t) \/ Returns(t)
  <2>1. call[t].pc # "insert" /\ call'[t].pc # "insert" /\ UNCHANGED <<procs, hproc>>
    BY <1>2 DEF Starts, Fails, Wakes, Secures, Returns, NoCall
  <2>2. \A u \in Tasks : call[u].pc = "insert" => u # t
    BY <2>1
  <2> QED
    BY <1>0, <2>1, <2>2, MakersSame
<1> QED
  BY <1>0, <1>1, <1>2

LEMMA SendMakers ==
  ASSUME Types, Own, Base, NEW t \in Tasks, AppNext(t), Sends(t)
  PROVE  Makers' = Makers \cup {NewProc(t)}
<1>0. /\ UNCHANGED <<hpc, procs, hproc>> /\ \A u \in Tasks \ {t} : call'[u] = call[u]
      /\ call[t].pc = "send" /\ call'[t].pc = "insert" /\ Same(call[t], call'[t])
  BY AppSteps DEF Sends
<1>1. \A u \in Tasks : NewProc(u)' = NewProc(u)
  BY <1>0 DEF NewProc, ProcOp, Same
<1>2. \A p : p \in Makers' <=> \/ \E i \in DOMAIN procs : p = procs[i]
                               \/ \E u \in Tasks : call'[u].pc = "insert" /\ p = NewProc(u)
                               \/ hpc = "insert" /\ p = hproc
  BY <1>0, <1>1 DEF Makers, ToSet
<1>3. \A p : (\E u \in Tasks : call'[u].pc = "insert" /\ p = NewProc(u))
             <=> (\E u \in Tasks : call[u].pc = "insert" /\ p = NewProc(u)) \/ p = NewProc(t)
  BY <1>0
<1>4. \A p : p \in Makers' <=> p \in Makers \/ p = NewProc(t)
  BY <1>2, <1>3, MakerCases
<1> QED
  BY <1>4

LEMMA InLineFrom ==
  ASSUME Base, Makers \subseteq Makers',
         \A h \in Conns : Live(h)' => Live(h) /\ Line(h)' = Line(h)
  PROVE  InLine'
BY DEF Base, InLine, Orderly, Made

(* A request that a new procedure sends joins the line. *)
LEMMA InLineGrows ==
  ASSUME Types, Base, NEW h \in Conns, NEW p, p \in Makers', NEW r \in ReqsOf(h), Fits(p, r), r.res = "sent",
         NEW k \in Conns, NEW q \in Seq(ReqsOf(k)), Tidy(q),
         \A n \in DOMAIN q : q[n].by # r.by /\ Made(q[n])',
         Line(k)' = IF k = h THEN Append(q, r) ELSE q
  PROVE  Orderly(k)'
<1>1. Sound(r)
  BY DEF Sound, Errors
<1>2. Made(r)'
  BY DEF Made
<1>3. CASE k = h
  <2>1. Tidy(Append(q, r)) /\ \A n \in DOMAIN Append(q, r) : Append(q, r)[n] = r \/ \E m \in DOMAIN q : Append(q, r)[n] = q[m]
    BY <1>1, <1>3, TidyAppend
  <2>2. Line(k)' = Append(q, r)
    BY <1>3
  <2>3. ASSUME NEW n \in DOMAIN Append(q, r) PROVE Made(Append(q, r)[n])'
    <3>1. PICK x : x = Append(q, r)[n]
      OBVIOUS
    <3>2. x = r \/ \E m \in DOMAIN q : x = q[m]
      BY <2>1, <3>1
    <3>3. Made(x)'
      BY <1>2, <3>2
    <3> QED
      BY <3>1, <3>3
  <2> QED
    BY <2>1, <2>2, <2>3 DEF Tidy, Orderly
<1>4. CASE k # h
  BY <1>4 DEF Tidy, Orderly
<1> QED
  BY <1>3, <1>4

LEMMA QuietSent ==
  ASSUME Types, Quiet, UNCHANGED <<link, silent>>, NEW h \in Conns, NEW r, r.res = "sent", Transmit(h, r)
  PROVE  Quiet'
<1>1. air \in [Conns -> Seq(Reqs)]
  BY DEF Types, Bearer
<1>2. SUFFICES ASSUME NEW k \in Conns, link[k] = "up", silent[k], NEW n \in DOMAIN air'[k]
               PROVE  air'[k][n].res = "sent"
  BY DEF Quiet
<1>3. air'[k] = air[k] \/ air'[k] = Append(air[k], r)
  BY <1>1 DEF Transmit
<1>4. \A i \in DOMAIN air[k] : air[k][i].res = "sent"
  BY <1>2 DEF Quiet
<1>5. PICK a \in Seq(Reqs) : a = air[k]
  BY <1>1
<1>6. DOMAIN Append(a, r) = 1..(Len(a) + 1) /\ \A i \in 1..(Len(a) + 1) : i \in DOMAIN a \/ i = Len(a) + 1
  BY <1>5
<1>7. (\A i \in DOMAIN a : Append(a, r)[i] = a[i]) /\ Append(a, r)[Len(a) + 1] = r
  BY <1>5
<1> QED
  BY <1>2, <1>3, <1>4, <1>5, <1>6, <1>7, SMTT(60)

LEMMA AppKeepsBase ==
  ASSUME Steady, Types, Own, Base, NEW t \in Tasks, AppNext(t)
  PROVE  Base'
<1>0. /\ UNCHANGED <<link, silent, hpc, hrsp>> /\ \A u \in Tasks \ {t} : call'[u] = call[u]
      /\ Starts(t) \/ Sends(t) \/ Fails(t) \/ Inserts(t) \/ Wakes(t) \/ Secures(t) \/ Returns(t)
      /\ hproc' = hproc
  BY AppSteps DEF Starts, Sends, Fails, Inserts, Wakes, Secures, Returns
<1>1. HandUp'
  BY <1>0 DEF Base, HandUp, Holding, Live
<1>2. CallsGood'
  <2>1. CallGood(t, call'[t])
    <3>1. CallGood(t, call[t])
      BY DEF Base, CallsGood
    <3>2. CASE Starts(t)
      <4>1. \A n \in Lengths : n > 0
        BY BoundsAssumption
      <4>2. call'[t].pc = "send" /\ (call'[t].op = "read" => t \in Readers)
            /\ (call'[t].op = "write" => t \in Writers /\ call'[t].len > 0) /\ call'[t].op \in {"read", "write"}
        BY <3>2, <4>1 DEF Starts
      <4> QED
        BY <4>2 DEF CallGood
    <3>3. CASE Sends(t) \/ Fails(t) \/ Inserts(t) \/ Wakes(t) \/ Secures(t)
      BY <3>1, <3>3 DEF Sends, Fails, Inserts, Wakes, Secures, Same, CallGood
    <3>4. CASE Returns(t)
      BY <3>4 DEF Returns, NoCall, CallGood
    <3> QED
      BY <1>0, <3>2, <3>3, <3>4
  <2> QED
    BY <1>0, <2>1 DEF Base, CallsGood
<1>3. ASSUME NEW p \in Makers PROVE GoodProc(p)'
  <2>1. p.by \in Tasks /\ (call[p.by].pc = "insert" \/ (call[p.by].pc = "wait" /\ ~bit[p.by])) /\ GoodProc(p)
    BY MakerTypes DEF Base, MakersGood
  <2>2. call'[p.by].op = call[p.by].op /\ call'[p.by].len = call[p.by].len
    <3>1. CASE p.by # t
      BY <1>0, <2>1, <3>1
    <3>2. CASE p.by = t
      BY <1>0, <2>1, <3>2 DEF Starts, Sends, Fails, Inserts, Wakes, Secures, Returns, Same
    <3> QED
      BY <3>1, <3>2
  <2> QED
    BY <1>0, <2>1, <2>2 DEF GoodProc
<1>4. CASE ~Sends(t)
  <2>1. Makers' = Makers /\ UNCHANGED attVars
    BY <1>0, <1>4, AppMakers DEF Starts, Fails, Inserts, Wakes, Secures, Returns
  <2>2. MakersGood'
    BY <1>3, <2>1 DEF MakersGood
  <2>3. \A h \in Conns : Live(h)' => Live(h) /\ Line(h)' = Line(h)
    BY <1>0, <2>1 DEF Live, Line, Hand, Rest, attVars
  <2>4. InLine'
    BY <2>1, <2>3, InLineFrom
  <2>5. Quiet'
    BY <1>0, <2>1 DEF Base, Quiet, attVars
  <2> QED
    BY <1>1, <1>2, <2>2, <2>4, <2>5 DEF Base
<1>5. CASE Sends(t)
  <2> DEFINE k == Home[t]
             r == FirstRequest(t)
  <2>1. call[t].pc = "send" /\ Transmit(k, r) /\ k \in Conns /\ Same(call[t], call'[t])
    BY <1>5, Homes DEF Sends
  <2>2. /\ r \in ReqsOf(k) /\ Fits(NewProc(t), r) /\ r.by = t /\ r.res = "sent"
        /\ \/ NewProc(t).op = "readLong" /\ call[t].op = "read"
           \/ NewProc(t).op \in {"write", "writeLong"} /\ call[t].op = "write"
        /\ NewProc(t).op = "write" => NewProc(t).len = 1
    BY <2>1, FirstFits
  <2>3. Makers' = Makers \cup {NewProc(t)}
    BY <1>5, SendMakers
  <2>4. PICK p : p = NewProc(t)
    OBVIOUS
  <2>5. /\ p.by = t /\ p.off = 0 /\ p.len = call[t].len /\ ~p.stalled /\ Size[t] \in Nat \ {0}
        /\ call'[t].len = call[t].len /\ call'[t].op = call[t].op
    BY <2>1, <2>4, NewProcTypes, TasksAssumption DEF Same
  <2>6. GoodProc(p)'
    <3>1. p.op # "readLong" => call[t].len > 0
      BY <2>2, <2>4 DEF Base, CallsGood, CallGood
    <3> QED
      BY <2>2, <2>4, <2>5, <3>1 DEF GoodProc
  <2>7. MakersGood'
    BY <1>3, <2>3, <2>4, <2>6 DEF MakersGood
  <2>8. Quiet'
    BY <1>0, <2>1, <2>2, QuietSent DEF Base
  <2> HIDE DEF k, r
  <2>9. ASSUME NEW h \in Conns, Live(h)'
        PROVE  Orderly(h)'
    <3>1. Live(h) /\ Hand(h)' = Hand(h)
      BY <1>0, <2>9 DEF Live, Hand
    <3>2. Apiece(Line(h)) /\ \A n \in DOMAIN Line(h) : Made(Line(h)[n]) /\ Sound(Line(h)[n])
      BY <3>1 DEF Base, InLine, Orderly
    <3>3. PICK q \in Seq(ReqsOf(h)) : q = Line(h)
      BY LineTypes DEF Base
    <3>4. \A m \in Makers : m.by # t
      BY <2>1, MakerTypes
    <3>5. \A n \in DOMAIN q : q[n].by # r.by /\ Made(q[n])'
      <4> TAKE n \in DOMAIN q
      <4>1. PICK x : x = q[n]
        OBVIOUS
      <4>2. PICK m \in Makers : Fits(m, x)
        BY <3>2, <3>3, <4>1 DEF Made
      <4>3. m \in Makers' /\ m.by # t
        BY <2>3, <3>4
      <4> QED
        BY <2>2, <4>1, <4>2, <4>3 DEF Made, Fits
    <3>6. Tidy(q)
      BY <3>2, <3>3 DEF Tidy
    <3>7. p \in Makers' /\ Fits(p, r) /\ r \in ReqsOf(k)
      BY <2>2, <2>3, <2>4
    <3>8. Line(h)' = IF h = k THEN Append(q, r) ELSE q
      <4>1. CASE link[k] = "up"
        <5>1. Line(h)' = IF h = k THEN Append(Line(k), r) ELSE Line(h)
          BY <2>1, <3>1, <3>7, <4>1, LineSent DEF Base
        <5> QED
          BY <3>3, <5>1
      <4>2. CASE link[k] # "up"
        <5>1. h # k
          BY <3>1, <4>2 DEF Live
        <5>2. air'[h] = air[h] /\ txq'[h] = txq[h]
          BY <2>1, <5>1 DEF Transmit, Types, Bearer
        <5> QED
          BY <3>1, <3>3, <5>1, <5>2 DEF Line, Rest
      <4> QED
        BY <4>1, <4>2
    <3> QED
      BY <2>1, <2>2, <3>5, <3>6, <3>7, <3>8, InLineGrows
  <2>10. InLine'
    BY <2>9 DEF InLine
  <2> QED
    BY <1>1, <1>2, <2>7, <2>8, <2>10 DEF Base
<1> QED
  BY <1>4, <1>5

-----------------------------------------------------------------------------
(* An answer is dispatched *)

LEMMA DispatchSteps ==
  ASSUME Steady, Types, Own, Base, Right, Dispatch
  PROVE  /\ hpc = "dispatch" /\ hpc' # "dispatch" /\ UNCHANGED <<link, silent, prepq, written>>
         /\ \/ /\ hpc' = "idle" /\ UNCHANGED <<attVars, procs, callVars>> /\ hproc' = None
               /\ \A i : ~Takes(i)
            \/ \E i \in DOMAIN procs :
                 /\ Takes(i) /\ procs' = RemoveAt(procs, i)
                 /\ Ends(procs[i].by) /\ Leaves(procs[i])
                 /\ Finishes(procs[i], hrsp.rsp) \/ GoesOn(procs[i], hrsp.rsp)
<1>1. hpc = "dispatch" /\ UNCHANGED <<link, silent, prepq, written>> /\ hrsp.rsp \in Reqs /\ hrsp.rsp.res # "sent"
  BY DEF Dispatch, peerVars, Base, HandUp, Types, HostTypes
<1>2. CASE HostDone /\ UNCHANGED <<attVars, procs, callVars>> /\ \A i : ~Takes(i)
  BY <1>1, <1>2 DEF HostDone
<1>3. ASSUME NEW i \in DOMAIN procs, Takes(i), procs' = RemoveAt(procs, i), HandleRsp(procs[i], hrsp.rsp)
      PROVE  /\ Ends(procs[i].by) /\ Leaves(procs[i])
             /\ Finishes(procs[i], hrsp.rsp) \/ GoesOn(procs[i], hrsp.rsp)
  <2>1. /\ Fits(procs[i], hrsp.rsp) /\ procs[i] \in GoodProcs /\ GoodProc(procs[i]) /\ Owned(procs[i])
        /\ link[Home[procs[i].by]] = "up"
    BY <1>3, RightFits
  <2>2. Sound(hrsp.rsp)
    BY <1>1, FirstInHand
  <2>3. hrsp.rsp.res \in {"ok"} \cup Errors
    BY <1>1 DEF Reqs, Refusals
  <2>4. PICK p : p = procs[i]
    OBVIOUS
  <2>5. PICK r : r = hrsp.rsp
    OBVIOUS
  <2>6. Finishes(p, r) \/ GoesOn(p, r)
    BY <1>3, <2>1, <2>2, <2>3, <2>4, <2>5, Handled DEF Types
  <2>7. r.res = "notLong" => MayBeCut(call[p.by])
    BY <1>3, <2>4, <2>5, RightCuts DEF CutsWrites
  <2>8. Ends(p.by) /\ Leaves(p)
    BY <1>1, <1>3, <2>1, <2>4, <2>5, <2>7, HandleRspOwn DEF Types, Own
  <2> QED
    BY <2>4, <2>5, <2>6, <2>8
<1>4. \/ HostDone /\ UNCHANGED <<attVars, procs, callVars>> /\ \A i : ~Takes(i)
      \/ \E i \in DOMAIN procs : Takes(i) /\ procs' = RemoveAt(procs, i) /\ HandleRsp(procs[i], hrsp.rsp)
  BY <1>1 DEF Dispatch, Takes
<1>5. ASSUME NEW p, Finishes(p, hrsp.rsp) \/ GoesOn(p, hrsp.rsp) PROVE hpc' # "dispatch"
  BY <1>5 DEF Finishes, GoesOn, Resumes
<1> QED
  BY <1>1, <1>2, <1>3, <1>4, <1>5

(* The list of procedures after one has been taken out of it *)
LEMMA MakersTaken ==
  ASSUME Types, Own, NEW i \in DOMAIN procs, procs' = RemoveAt(procs, i), Ends(procs[i].by), hpc # "insert"
  PROVE  /\ \A m \in Makers' : (m \in Makers /\ m.by # procs[i].by) \/ (hpc' = "insert" /\ m = hproc')
         /\ \A m \in Makers : m.by # procs[i].by => m \in Makers'
         /\ hpc' = "insert" => hproc' \in Makers'
<1> DEFINE K == DOMAIN procs \ {i}
<1>1. /\ \A n \in DOMAIN procs' : \E j \in K : procs'[n] = procs[j]
      /\ \A j \in K : \E n \in DOMAIN procs' : procs'[n] = procs[j]
  <2>1. procs \in Seq(GoodProcs)
    BY DEF Types, ProcTypes
  <2>2. PICK from \in [DOMAIN procs' -> DOMAIN procs \ {i}] :
          \A n \in DOMAIN procs' : procs'[n] = procs[from[n]]
    BY <2>1, RemovalPlaces
  <2> QED
    BY <2>1, <2>2, RemovalKeeps
<1>2. \A u \in Tasks : call'[u].pc = call[u].pc /\ call'[u].op = call[u].op /\ call'[u].len = call[u].len
  BY DEF Ends
<1>3. K \in SUBSET DOMAIN procs
  OBVIOUS
<1>4. \A m : m \in Makers' <=> \/ \E j \in K : m = procs[j]
                               \/ \E u \in Tasks : call[u].pc = "insert" /\ m = NewProc(u)
                               \/ hpc' = "insert" /\ m = hproc'
  <2> HIDE DEF K
  <2> QED
    BY <1>1, <1>2, <1>3, MakersSelected
<1>5. \A j \in K : procs[j].by # procs[i].by
  BY DEF Own, ListOwned
<1>6. call[procs[i].by].pc = "wait"
  BY DEF Own, ListOwned, Owned, Awaited
<1>7. \A u \in Tasks : call[u].pc = "insert" => NewProc(u).by # procs[i].by
  BY <1>6, NewProcTypes
<1> QED
  BY <1>4, <1>5, <1>7, MakerCases

LEMMA GoodFrame ==
  ASSUME NEW p, GoodProc(p), link' = link, call'[p.by].op = call[p.by].op, call'[p.by].len = call[p.by].len
  PROVE  GoodProc(p)'
BY DEF GoodProc

LEMMA EndsCalls ==
  ASSUME Base, NEW t \in Tasks, Ends(t), call[t].pc = "wait"
  PROVE  CallsGood'
BY DEF Base, CallsGood, CallGood, Ends

(* The procedure that goes on is as good as it was. *)
LEMMA ResumesGood ==
  ASSUME NEW q \in GoodProcs, GoodProc(q), q.op # "write", q.off > 0, link' = link, link[Home[q.by]] = "up",
         call'[q.by].op = call[q.by].op, call'[q.by].len = call[q.by].len, Resumes(q)
  PROVE  \E d : d = hproc' /\ GoodProc(d)' /\ d.by = q.by
<1>1. PICK b \in BOOLEAN : hproc' = [q EXCEPT !.stalled = b]
  BY DEF Resumes
<1>2. PICK d : d = [q EXCEPT !.stalled = b]
  OBVIOUS
<1>3. d.by = q.by /\ d.op = q.op /\ d.off = q.off /\ d.len = q.len /\ d.stalled = b
  BY <1>2 DEF GoodProcs, Procs
<1>4. link'[Home[d.by]] = "up" /\ d.off > 0 /\ d.op # "write" /\ d.op # "read"
      /\ call'[d.by].op = IF d.op = "readLong" THEN "read" ELSE "write"
  BY <1>3 DEF GoodProc
<1>5. /\ d.op # "readLong" => d.len = call'[d.by].len
      /\ d.op = "readLong" => d.off < Size[d.by]
      /\ d.op = "writeLong" => d.len > 0
  BY <1>3 DEF GoodProc
<1>6. GoodProc(d)'
  BY <1>4, <1>5 DEF GoodProc
<1> QED
  BY <1>1, <1>2, <1>3, <1>6

LEMMA AdvancedGood ==
  ASSUME Types, NEW p \in GoodProcs, GoodProc(p), link[Home[p.by]] = "up", NEW r, GoesOn(p, r)
  PROVE  /\ GoodProc(Advanced(p)) /\ Advanced(p).op # "write" /\ Advanced(p).off > 0
         /\ Advanced(p).by = p.by /\ Advanced(p) \in GoodProcs /\ Resumes(Advanced(p))
<1>1. /\ p.op = "readLong" \/ (p.op = "writeLong" /\ p.off < p.len)
      /\ p.off \in Nat /\ p.len \in Nat /\ (p.op = "readLong" => p.off + 1 < Size[p.by])
  BY ProcFields DEF GoesOn
<1>2. PICK q : q = Advanced(p)
  OBVIOUS
<1>3. q \in GoodProcs /\ q.by = p.by /\ q.op = p.op /\ q.off = p.off + 1 /\ q.stalled = p.stalled
      /\ q.len = IF p.op = "readLong" THEN p.len + 1 ELSE p.len
  BY <1>1, <1>2, AdvancedFields
<1>4. q.off > 0
  BY <1>1, <1>3
<1>5. GoodProc(q)
  BY <1>1, <1>3, <1>4 DEF GoodProc
<1> QED
  BY <1>1, <1>2, <1>3, <1>4, <1>5 DEF GoesOn

(* The request that a procedure going on sends *)
LEMMA ResumesFits ==
  ASSUME NEW q \in GoodProcs, q.op # "write", q.op # "read", Resumes(q)
  PROVE  \/ NoMem /\ UNCHANGED attVars
         \/ /\ Request(RequestOf(q), q.by, q.off) \in ReqsOf(Home[q.by])
            /\ Request(RequestOf(q), q.by, q.off).by = q.by
            /\ Request(RequestOf(q), q.by, q.off).res = "sent"
            /\ Transmit(Home[q.by], Request(RequestOf(q), q.by, q.off))
            /\ Fits(hproc', Request(RequestOf(q), q.by, q.off))
<1>1. PICK b \in BOOLEAN : hproc' = [q EXCEPT !.stalled = b]
                           /\ IF b THEN NoMem /\ UNCHANGED attVars
                                   ELSE Transmit(Home[q.by], Request(RequestOf(q), q.by, q.off))
  BY DEF Resumes
<1>2. CASE ~b
  <2>1. PICK d : d = [q EXCEPT !.stalled = b]
    OBVIOUS
  <2>2. d.by = q.by /\ d.op = q.op /\ d.off = q.off /\ d.len = q.len /\ ~d.stalled
    BY <1>2, <2>1 DEF GoodProcs, Procs
  <2>3. RequestOf(q) \in Ops /\ RequestOf(d) = RequestOf(q)
    BY <2>2 DEF RequestOf, Ops
  <2>4. PICK op \in Ops : op = RequestOf(q)
    BY <2>3
  <2>5. Request(op, q.by, q.off) \in ReqsOf(Home[q.by])
    BY ProcFields, RequestTypes
  <2>6. /\ Request(op, q.by, q.off).by = q.by /\ Request(op, q.by, q.off).off = q.off
        /\ Request(op, q.by, q.off).op = op /\ Request(op, q.by, q.off).res = "sent"
    BY DEF Request
  <2> QED
    BY <1>1, <1>2, <2>1, <2>2, <2>3, <2>4, <2>5, <2>6 DEF Fits
<1> QED
  BY <1>1, <1>2

(* The other requests when an answer is dispatched *)
LEMMA LeftInLine ==
  ASSUME Types, Base, hpc = "dispatch", NEW h \in Conns, Live(h),
         NEW q, q = IF h = hrsp.conn THEN Tail(Line(h)) ELSE Line(h)
  PROVE  q \in Seq(ReqsOf(h)) /\ Tidy(q) /\ \A n \in DOMAIN q : q[n].by # hrsp.rsp.by /\ Made(q[n])
<1>1. /\ Apiece(Line(h)) /\ Tidy(Line(h)) /\ \A n \in DOMAIN Line(h) : Made(Line(h)[n])
      /\ Line(h) \in Seq(ReqsOf(h))
  BY LineTypes DEF Base, InLine, Orderly, Tidy
<1>2. PICK z \in Seq(ReqsOf(h)) : z = Line(h)
  BY <1>1
<1>3. CASE h = hrsp.conn
  <2>1. z # <<>> /\ z[1] = hrsp.rsp
    BY <1>2, <1>3, LineInHand DEF Base
  <2>2. /\ Tidy(Tail(z))
        /\ \A n \in DOMAIN Tail(z) : \E m \in DOMAIN z : Tail(z)[n] = z[m] /\ z[m].by # z[1].by
    BY <1>1, <1>2, <2>1, TidyTail
  <2>3. q = Tail(z) /\ q \in Seq(ReqsOf(h))
    BY <1>2, <1>3, <2>1
  <2>4. \A n \in DOMAIN q : q[n].by # hrsp.rsp.by /\ Made(q[n])
    BY <1>1, <1>2, <2>1, <2>2, <2>3
  <2> QED
    BY <2>2, <2>3, <2>4
<1>4. CASE h # hrsp.conn
  <2>1. Home[hrsp.rsp.by] = hrsp.conn
    BY FirstInHand
  <2>2. q = z
    BY <1>2, <1>4
  <2>3. \A n \in DOMAIN z : z[n] \in ReqsOf(h)
    OBVIOUS
  <2>4. \A n \in DOMAIN z : Home[z[n].by] = h
    BY <2>3 DEF ReqsOf
  <2> QED
    BY <1>1, <1>2, <1>4, <2>1, <2>2, <2>4
<1> QED
  BY <1>3, <1>4

LEMMA DispatchKeepsBase ==
  ASSUME Steady, Types, Own, Base, Right, Dispatch
  PROVE  Base'
<1>1. hpc = "dispatch" /\ hpc' # "dispatch" /\ UNCHANGED <<link, silent>>
  BY DispatchSteps
<1>2. \A h \in Conns : Live(h)' <=> Live(h)
  BY <1>1 DEF Live
<1>3. CASE hpc' = "idle" /\ UNCHANGED <<attVars, procs, callVars>> /\ hproc' = None
  <2>1. Makers' = Makers
    <3>1. \A u \in Tasks : call'[u].pc = call[u].pc /\ call'[u].op = call[u].op /\ call'[u].len = call[u].len
      BY <1>3 DEF callVars
    <3>2. DOMAIN procs \in SUBSET DOMAIN procs
      OBVIOUS
    <3>3. \A m : m \in Makers' <=> \/ \E j \in DOMAIN procs : m = procs[j]
                                   \/ \E u \in Tasks : call[u].pc = "insert" /\ m = NewProc(u)
                                   \/ hpc' = "insert" /\ m = hproc'
      BY <1>1, <1>3, <3>1, <3>2, MakersSelected
    <3>4. \A m : m \in Makers' <=> m \in Makers
      BY <1>1, <1>3, <3>3, MakerCases
    <3> QED
      BY <3>4
  <2>2. MakersGood'
    BY <1>1, <1>3, <2>1 DEF Base, MakersGood, GoodProc, callVars
  <2>3. ASSUME NEW h \in Conns, Live(h)'
        PROVE  Orderly(h)'
    <3>1. PICK q : q = IF h = hrsp.conn THEN Tail(Line(h)) ELSE Line(h)
      OBVIOUS
    <3>2. Tidy(q) /\ \A n \in DOMAIN q : Made(q[n])
      BY <1>1, <1>2, <2>3, <3>1, LeftInLine
    <3>3. Line(h)' = q
      BY <1>1, <1>3, <3>1, LineDispatched DEF Base
    <3> QED
      BY <2>1, <3>2, <3>3 DEF Tidy, Made, Orderly
  <2>4. InLine'
    BY <2>3 DEF InLine
  <2> QED
    BY <1>1, <1>3, <2>2, <2>4 DEF Base, Quiet, HandUp, Holding, CallsGood, callVars, attVars
<1>4. ASSUME NEW i \in DOMAIN procs, Takes(i), procs' = RemoveAt(procs, i),
             Ends(procs[i].by), Leaves(procs[i]),
             Finishes(procs[i], hrsp.rsp) \/ GoesOn(procs[i], hrsp.rsp)
      PROVE  Base'
  <2>1. PICK p : p = procs[i]
    OBVIOUS
  <2>2. PICK c \in Conns : c = hrsp.conn
    BY <1>1 DEF Types, HostTypes
  <2>3. PICK r : r = hrsp.rsp
    OBVIOUS
  <2>4. /\ Fits(p, r) /\ p \in Makers /\ p \in GoodProcs /\ p.by \in Tasks /\ Home[p.by] = c /\ link[c] = "up"
        /\ GoodProc(p) /\ call[p.by].pc = "wait" /\ p.by = r.by
    BY <1>4, <2>1, <2>2, <2>3, RightFits, ProcFields DEF Owned, Awaited, Fits
  <2>5. /\ \A m \in Makers' : (m \in Makers /\ m.by # p.by) \/ (hpc' = "insert" /\ m = hproc')
        /\ \A m \in Makers : m.by # p.by => m \in Makers'
        /\ hpc' = "insert" => hproc' \in Makers'
    BY <1>1, <1>4, <2>1, MakersTaken
  <2>6. CallsGood'
    BY <1>4, <2>1, <2>4, EndsCalls
  <2>7. \A u \in Tasks : call'[u].op = call[u].op /\ call'[u].len = call[u].len
    BY <1>4, <2>1 DEF Ends
  <2>8. ASSUME NEW m \in Makers, m.by # p.by PROVE GoodProc(m)'
    <3>1. m.by \in Tasks /\ GoodProc(m)
      BY MakerTypes DEF Base, MakersGood
    <3> QED
      BY <1>1, <2>7, <3>1, GoodFrame
  <2>9. ASSUME NEW h \in Conns, Live(h)
        PROVE  \E q \in Seq(ReqsOf(h)) : /\ q = IF h = hrsp.conn THEN Tail(Line(h)) ELSE Line(h)
                                         /\ Tidy(q) /\ \A n \in DOMAIN q : q[n].by # p.by /\ Made(q[n])'
    <3>1. PICK q : q = IF h = hrsp.conn THEN Tail(Line(h)) ELSE Line(h)
      OBVIOUS
    <3>2. q \in Seq(ReqsOf(h)) /\ Tidy(q) /\ \A n \in DOMAIN q : q[n].by # hrsp.rsp.by /\ Made(q[n])
      BY <1>1, <2>9, <3>1, LeftInLine
    <3>3. \A n \in DOMAIN q : q[n].by # p.by /\ Made(q[n])'
      <4> TAKE n \in DOMAIN q
      <4>1. PICK x : x = q[n]
        OBVIOUS
      <4>2. x.by # p.by /\ Made(x)
        BY <2>3, <2>4, <3>2, <4>1
      <4>3. PICK m \in Makers : Fits(m, x)
        BY <4>2 DEF Made
      <4>4. m \in Makers'
        BY <2>5, <4>2, <4>3 DEF Fits
      <4>5. Made(x)'
        BY <4>3, <4>4 DEF Made
      <4> QED
        BY <4>1, <4>2, <4>5
    <3> QED
      BY <3>1, <3>2, <3>3
  <2>10. ASSUME UNCHANGED attVars PROVE InLine' /\ Quiet'
    <3>1. ASSUME NEW h \in Conns, Live(h)'
          PROVE  Orderly(h)'
      <4>1. PICK q \in Seq(ReqsOf(h)) : /\ q = IF h = hrsp.conn THEN Tail(Line(h)) ELSE Line(h)
                                        /\ Tidy(q) /\ \A n \in DOMAIN q : q[n].by # p.by /\ Made(q[n])'
        BY <1>2, <2>9, <3>1
      <4>2. Line(h)' = q
        BY <1>1, <2>10, <4>1, LineDispatched DEF Base
      <4> QED
        BY <4>1, <4>2 DEF Tidy, Made, Orderly
    <3> QED
      BY <1>1, <2>10, <3>1 DEF InLine, Base, Quiet, attVars
  <2>11. CASE Finishes(p, r)
    <3>1. hpc' \in {"idle", "again"} /\ UNCHANGED attVars
      BY <2>11 DEF Finishes
    <3>2. hpc' = "again" => hproc'.by = p.by
      BY <1>4, <2>1 DEF Leaves
    <3>3. HandUp'
      BY <1>1, <2>4, <3>1, <3>2 DEF HandUp, Holding
    <3>4. MakersGood'
      BY <2>5, <2>8, <3>1 DEF MakersGood
    <3> QED
      BY <2>6, <2>10, <3>1, <3>3, <3>4 DEF Base
  <2>12. CASE GoesOn(p, r)
    <3>1. PICK a : a = Advanced(p)
      OBVIOUS
    <3>2. GoodProc(a) /\ a.op # "write" /\ a.op # "read" /\ a.off > 0 /\ a.by = p.by /\ a \in GoodProcs /\ Resumes(a)
      BY <2>4, <2>12, <3>1, AdvancedGood DEF GoodProc
    <3>3. PICK d : d = hproc' /\ GoodProc(d)' /\ d.by = p.by
      BY <1>1, <2>4, <2>7, <3>2, ResumesGood
    <3>4. hpc' = "insert" /\ d \in Makers'
      BY <2>5, <3>2, <3>3 DEF Resumes
    <3>5. HandUp'
      BY <1>1, <2>4, <3>3, <3>4 DEF HandUp, Holding
    <3>6. MakersGood'
      BY <2>5, <2>8, <3>3 DEF MakersGood
    <3>7. InLine' /\ Quiet'
      <4>1. CASE UNCHANGED attVars
        BY <2>10, <4>1
      <4>2. PICK x : x = Request(RequestOf(a), a.by, a.off)
        OBVIOUS
      <4>3. CASE x \in ReqsOf(c) /\ x.by = p.by /\ x.res = "sent" /\ Transmit(c, x) /\ Fits(d, x)
        <5>1. Quiet'
          BY <1>1, <4>3, QuietSent DEF Base
        <5>2. ASSUME NEW h \in Conns, Live(h)'
              PROVE  Orderly(h)'
          <6>1. PICK q \in Seq(ReqsOf(h)) : /\ q = IF h = hrsp.conn THEN Tail(Line(h)) ELSE Line(h)
                                            /\ Tidy(q) /\ \A n \in DOMAIN q : q[n].by # p.by /\ Made(q[n])'
            BY <1>2, <2>9, <5>2
          <6>3. x \in ReqsOf(hrsp.conn) /\ Transmit(hrsp.conn, x)
            BY <2>2, <4>3
          <6>4. Line(h)' = IF h = hrsp.conn THEN Append(Tail(Line(h)), x) ELSE Line(h)
            BY <1>1, <6>3, LineWentOn DEF Base
          <6>2. Line(h)' = IF h = c THEN Append(q, x) ELSE q
            BY <2>2, <6>1, <6>4
          <6>5. \A n \in DOMAIN q : q[n].by # x.by /\ Made(q[n])'
            BY <4>3, <6>1
          <6>6. d \in Makers' /\ Fits(d, x) /\ x \in ReqsOf(c) /\ x.res = "sent" /\ Tidy(q)
            BY <3>4, <4>3, <6>1
          <6> QED
            BY <6>2, <6>5, <6>6, InLineGrows
        <5> QED
          BY <5>1, <5>2 DEF InLine
      <4> QED
        BY <2>4, <3>2, <3>3, <4>1, <4>2, <4>3, ResumesFits
    <3> QED
      BY <2>6, <3>5, <3>6, <3>7 DEF Base
  <2> QED
    BY <1>4, <2>1, <2>3, <2>11, <2>12
<1> QED
  BY <1>3, <1>4, DispatchSteps

-----------------------------------------------------------------------------
(* The host's other steps *)

(* What the other steps of the host do to a call: nothing, or end it with an error *)
Spared(u) == call'[u] = call[u] /\ bit'[u] = bit[u]
Failed(u) ==
  /\ call[u].pc = "wait" /\ bit'[u] /\ call'[u].rc \in {"notConn", "timeout", "invalid"}
  /\ call'[u].pc = call[u].pc /\ call'[u].op = call[u].op
  /\ call'[u].len = call[u].len /\ call'[u].value = call[u].value
Alike(m, k) == m.by = k.by /\ m.op = k.op /\ m.off = k.off /\ m.len = k.len
(* The lines of the connections afterwards, with the requests that are old *)
OldLines ==
  \A h \in Conns : Live(h)' =>
    \/ Line(h)' = <<>>
    \/ Live(h) /\ Line(h)' = Line(h) /\ \A m \in Makers : Home[m.by] = h => m \in Makers'

LEMMA SparedCalls ==
  ASSUME Base, \A u \in Tasks : Spared(u) \/ Failed(u)
  PROVE  /\ CallsGood'
         /\ \A u \in Tasks : call'[u].pc = call[u].pc /\ call'[u].op = call[u].op /\ call'[u].len = call[u].len
BY DEF Base, CallsGood, CallGood, Spared, Failed

LEMMA OldKeepsBase ==
  ASSUME Types, Own, Base, \A u \in Tasks : Spared(u) \/ Failed(u),
         Makers' \subseteq Makers, OldLines,
         \A m \in Makers' : link'[Home[m.by]] # "up" => link[Home[m.by]] # "up" \/ m.off = 0,
         Quiet', HandUp'
  PROVE  Base'
<1>1. MakersGood'
  <2>1. ASSUME NEW m \in Makers' PROVE GoodProc(m)'
    <3>1. GoodProc(m) /\ m.by \in Tasks
      BY <2>1, MakerTypes DEF Base, MakersGood
    <3>2. call'[m.by].op = call[m.by].op /\ call'[m.by].len = call[m.by].len
      BY <3>1, SparedCalls
    <3>3. link'[Home[m.by]] # "up" => m.off = 0
      BY <2>1, <3>1 DEF GoodProc
    <3> QED
      BY <3>1, <3>2, <3>3 DEF GoodProc
  <2> QED
    BY <2>1 DEF MakersGood
<1>2. ASSUME NEW h \in Conns, Live(h)' PROVE Orderly(h)'
  <2>1. CASE Line(h)' = <<>>
    <3>1. PICK q : q = <<>> /\ Line(h)' = q /\ DOMAIN q = {}
      BY <2>1
    <3> QED
      BY <3>1 DEF Orderly, Apiece
  <2>2. CASE Live(h) /\ Line(h)' = Line(h) /\ \A m \in Makers : Home[m.by] = h => m \in Makers'
    <3>1. Orderly(h)
      BY <2>2 DEF Base, InLine
    <3>2. PICK q \in Seq(ReqsOf(h)) : q = Line(h)
      BY LineTypes DEF Base
    <3>3. ASSUME NEW n \in DOMAIN q PROVE Made(q[n])'
      <4>1. PICK x \in ReqsOf(h) : x = q[n]
        OBVIOUS
      <4>2. PICK m \in Makers : Fits(m, x)
        BY <3>1, <3>2, <4>1 DEF Orderly, Made
      <4>3. Home[m.by] = h
        BY <4>2 DEF Fits, ReqsOf
      <4>4. Made(x)'
        BY <2>2, <4>2, <4>3 DEF Made
      <4> QED
        BY <4>1, <4>4
    <3> QED
      BY <2>2, <3>1, <3>2, <3>3 DEF Orderly
  <2> QED
    BY <1>2, <2>1, <2>2 DEF OldLines
<1> QED
  BY <1>1, <1>2, SparedCalls DEF Base, InLine

(* The list keeps some of its procedures, and the hand gets none. *)
LEMMA MakersLeft ==
  ASSUME Types, \A u \in Tasks : Spared(u) \/ Failed(u), Base, hpc # "insert", hpc' # "insert",
         NEW K \in SUBSET DOMAIN procs,
         \A n \in DOMAIN procs' : \E i \in K : procs'[n] = procs[i],
         \A i \in K : \E n \in DOMAIN procs' : procs'[n] = procs[i]
  PROVE  /\ Makers' \subseteq Makers
         /\ \A m \in Makers : (\A i \in DOMAIN procs \ K : procs[i].by # m.by) => m \in Makers'
<1>1. \A u \in Tasks : call'[u].pc = call[u].pc /\ call'[u].op = call[u].op /\ call'[u].len = call[u].len
  BY SparedCalls
<1>2. \A m : m \in Makers' <=> \/ \E i \in K : m = procs[i]
                               \/ \E u \in Tasks : call[u].pc = "insert" /\ m = NewProc(u)
                               \/ hpc' = "insert" /\ m = hproc'
  BY <1>1, MakersSelected
<1> QED
  BY <1>2, MakerCases

LEMMA ReceiveKeepsBase ==
  ASSUME Types, Own, Base, NEW h \in Conns, Receive(h)
  PROVE  /\ Base' /\ OldLines /\ Makers' = Makers /\ UNCHANGED <<callVars, prepq, written>>
<1>1. /\ hpc = "idle" /\ hpc' = "dispatch" /\ hrsp' = [rsp |-> Head(air[h]), conn |-> h]
      /\ air[h] # <<>> /\ link[h] = "up" /\ SendOutstanding(h) /\ Head(air[h]).res # "sent"
      /\ UNCHANGED <<link, procs, hproc, callVars, peerVars>>
  BY DEF Receive
<1>2. \A u \in Tasks : Spared(u) \/ Failed(u)
  BY <1>1 DEF Spared, callVars
<1>3. Makers' = Makers
  <2>1. Makers' \subseteq Makers /\ \A m \in Makers : m \in Makers'
    BY <1>1, <1>2, MakersLeft
  <2> QED
    BY <2>1
<1>4. /\ air \in [Conns -> Seq(Reqs)] /\ air[h] \in Seq(ReqsOf(h))
  BY DEF Types, Bearer
<1>5. PICK r \in ReqsOf(h) : Head(air[h]) = r /\ r.res # "sent" /\ air[h][1] = r /\ 1 \in DOMAIN air[h]
  BY <1>1, <1>4
<1>6. ~silent[h]
  BY <1>1, <1>5 DEF Base, Quiet
<1>7. Quiet'
  <2>1. \A k \in Conns \ {h} : air'[k] = air[k]
    BY <1>1, <1>4 DEF SendOutstanding
  <2> QED
    BY <1>1, <1>6, <2>1 DEF Base, Quiet, peerVars
<1>8. HandUp'
  BY <1>1, <1>5, <1>6 DEF HandUp, Holding, Live, peerVars
<1>9. OldLines
  BY <1>1, <1>3, LineReceived DEF OldLines, Live, peerVars, Base
<1> QED
  BY <1>1, <1>2, <1>3, <1>7, <1>8, <1>9, OldKeepsBase DEF peerVars

(* The steps of the host that leave the bearer alone *)
LEMMA LinesSame ==
  ASSUME UNCHANGED <<attVars, link, silent, hrsp>> \/ (UNCHANGED attVars /\ hpc # "dispatch" /\ hpc' # "dispatch"),
         hpc # "dispatch", hpc' # "dispatch", NEW h \in Conns
  PROVE  Line(h)' = Line(h)
BY DEF Line, Hand, Rest, attVars

LEMMA ReinsertKeepsBase ==
  ASSUME Types, Own, Base, Reinsert
  PROVE  Base' /\ OldLines /\ Makers' = Makers /\ UNCHANGED <<callVars, prepq, written>>
<1>1. /\ hpc = "insert" /\ hpc' = "idle" /\ procs' = Append(procs, hproc)
      /\ UNCHANGED <<link, attVars, callVars, peerVars>> /\ hproc \in GoodProcs
  BY DEF Reinsert, HostDone, Types, HostTypes
<1>2. PICK p \in GoodProcs : p = hproc
  BY <1>1
<1>3. Makers' = Makers
  <2>1. /\ DOMAIN procs' = 1..(Len(procs) + 1) /\ DOMAIN procs = 1..Len(procs) /\ Len(procs) \in Nat
        /\ procs'[Len(procs) + 1] = p /\ \A i \in 1..Len(procs) : procs'[i] = procs[i]
    BY <1>1, <1>2 DEF Types, ProcTypes
  <2>2. /\ \A i \in 1..(Len(procs) + 1) : i \in 1..Len(procs) \/ i = Len(procs) + 1
        /\ Len(procs) + 1 \in 1..(Len(procs) + 1) /\ \A i \in 1..Len(procs) : i \in 1..(Len(procs) + 1)
    BY <2>1
  <2>3. \A m : (\E i \in DOMAIN procs' : m = procs'[i]) <=> (\E i \in DOMAIN procs : m = procs[i]) \/ m = p
    BY <2>1, <2>2
  <2>4. \A u \in Tasks : NewProc(u)' = NewProc(u)
    BY <1>1 DEF NewProc, ProcOp, callVars
  <2>5. \A m : m \in Makers' <=> \/ \E i \in DOMAIN procs' : m = procs'[i]
                                 \/ \E u \in Tasks : call[u].pc = "insert" /\ m = NewProc(u)
    BY <1>1, <2>4 DEF Makers, ToSet, callVars
  <2>6. \A m : m \in Makers' <=> m \in Makers
    BY <1>1, <1>2, <2>3, <2>5, MakerCases
  <2> QED
    BY <2>6
<1>4. \A u \in Tasks : Spared(u) \/ Failed(u)
  BY <1>1 DEF Spared, callVars
<1>5. OldLines
  BY <1>1, <1>3, LinesSame DEF OldLines, Live, peerVars
<1>6. Quiet' /\ HandUp'
  BY <1>1 DEF Base, Quiet, HandUp, Holding, attVars, peerVars
<1> QED
  BY <1>1, <1>3, <1>4, <1>5, <1>6, OldKeepsBase DEF peerVars

LEMMA DeleteKeepsBase ==
  ASSUME Types, Own, Base, Delete
  PROVE  Base' /\ OldLines /\ Makers' = Makers /\ UNCHANGED <<callVars, prepq, written>>
<1>1. /\ hpc = "teardown" /\ hpc' = "idle" /\ link' = [link EXCEPT ![hrsp.conn] = "down"]
      /\ UNCHANGED <<attVars, procs, callVars, peerVars>> /\ link[hrsp.conn] # "up"
      /\ hrsp.conn \in Conns /\ link \in [Conns -> {"up", "broken", "down"}]
  BY DEF Delete, HostDone, Base, HandUp, Types, HostTypes, LinkTypes
<1>2. \A u \in Tasks : Spared(u) \/ Failed(u)
  BY <1>1 DEF Spared, callVars
<1>3. Makers' = Makers
  <2>1. Makers' \subseteq Makers /\ \A m \in Makers : m \in Makers'
    BY <1>1, <1>2, MakersLeft
  <2> QED
    BY <2>1
<1>4. \A h \in Conns : link'[h] = "up" <=> link[h] = "up"
  BY <1>1
<1>5. OldLines
  BY <1>1, <1>3, <1>4, LinesSame DEF OldLines, Live, peerVars
<1>6. Quiet' /\ HandUp'
  BY <1>1, <1>4 DEF Base, Quiet, HandUp, Holding, attVars, peerVars
<1>7. \A m \in Makers' : link'[Home[m.by]] # "up" => link[Home[m.by]] # "up" \/ m.off = 0
  <2> SUFFICES ASSUME NEW m \in Makers' PROVE link'[Home[m.by]] # "up" => link[Home[m.by]] # "up"
    OBVIOUS
  <2>1. Home[m.by] \in Conns
    BY <1>3, MakerTypes, Homes
  <2> QED
    BY <1>4, <2>1
<1> QED
  BY <1>1, <1>2, <1>3, <1>5, <1>6, <1>7, OldKeepsBase DEF peerVars

LEMMA ConnectKeepsBase ==
  ASSUME Types, Own, Base, NEW h \in Conns, Connect(h)
  PROVE  /\ Base' /\ OldLines /\ Makers' = Makers /\ UNCHANGED <<callVars, written>>
         /\ link[h] = "down" /\ \A k \in Conns \ {h} : prepq'[k] = prepq[k]
<1>1. /\ hpc = "idle" /\ link[h] = "down" /\ link' = [link EXCEPT ![h] = "up"]
      /\ txq' = [txq EXCEPT ![h] = <<>>] /\ air' = [air EXCEPT ![h] = <<>>]
      /\ silent' = [silent EXCEPT ![h] = FALSE] /\ UNCHANGED <<procs, hostVars, callVars, written>>
      /\ prepq' = [prepq EXCEPT ![h] = {}]
  BY DEF Connect
<1>0. /\ link \in [Conns -> {"up", "broken", "down"}] /\ silent \in [Conns -> BOOLEAN]
      /\ air \in [Conns -> Seq(Reqs)] /\ txq \in [Conns -> Seq(Reqs)]
  BY DEF Types, LinkTypes, Bearer
<1>2. \A u \in Tasks : Spared(u) \/ Failed(u)
  BY <1>1 DEF Spared, callVars
<1>3. Makers' = Makers
  <2>1. Makers' \subseteq Makers /\ \A m \in Makers : m \in Makers'
    BY <1>1, <1>2, MakersLeft DEF hostVars
  <2> QED
    BY <2>1
<1>4. /\ link'[h] = "up" /\ ~silent'[h] /\ air'[h] = <<>> /\ txq'[h] = <<>>
      /\ \A k \in Conns \ {h} : link'[k] = link[k] /\ silent'[k] = silent[k] /\ air'[k] = air[k] /\ txq'[k] = txq[k]
  BY <1>0, <1>1
<1>5. OldLines
  <2>1. Line(h)' = <<>>
    <3>1. \A S : <<>> \o <<>> = <<>>
      OBVIOUS
    <3>2. <<>> \o <<>> = <<>>
      BY <3>1
    <3> QED
      BY <1>1, <1>4, <3>2 DEF Line, Hand, Rest, hostVars
  <2>2. \A k \in Conns \ {h} : Line(k)' = Line(k)
    BY <1>1, <1>4 DEF Line, Hand, Rest, hostVars
  <2> QED
    BY <1>3, <1>4, <2>1, <2>2 DEF OldLines, Live
<1>6. Quiet' /\ HandUp'
  BY <1>1, <1>4 DEF Base, Quiet, HandUp, Holding, hostVars
<1>7. \A m \in Makers' : link'[Home[m.by]] # "up" => link[Home[m.by]] # "up" \/ m.off = 0
  <2> SUFFICES ASSUME NEW m \in Makers' PROVE link'[Home[m.by]] # "up" => link[Home[m.by]] # "up"
    OBVIOUS
  <2>1. Home[m.by] \in Conns
    BY <1>3, MakerTypes, Homes
  <2> QED
    BY <1>4, <2>1
<1>8. \A k \in Conns \ {h} : prepq'[k] = prepq[k]
  BY <1>1 DEF Connect
<1> QED
  BY <1>1, <1>2, <1>3, <1>5, <1>6, <1>7, OldKeepsBase

LEMMA ToldFails ==
  ASSUME NEW t \in Tasks, NEW rc \in {"notConn", "timeout", "invalid"}, call[t].pc = "wait",
         Told(t, call[t].value, rc)
  PROVE  \A u \in Tasks : Spared(u) \/ Failed(u)
BY DEF Told, Spared, Failed

LEMMA AgainKeepsBase ==
  ASSUME Types, Own, Base, CallbackAgain
  PROVE  /\ Base' /\ OldLines /\ Makers' = Makers /\ UNCHANGED <<prepq, written>>
         /\ \A u \in Tasks : Spared(u) \/ Failed(u)
<1>1. /\ hpc = "again" /\ hpc' = "idle" /\ Callback(hproc, "invalid") /\ hproc' = None
      /\ UNCHANGED <<link, attVars, procs, peerVars>>
      /\ hproc \in GoodProcs /\ hproc.live /\ call[hproc.by].pc = "wait" /\ link[Home[hproc.by]] = "up"
  BY DEF CallbackAgain, HostDone, Types, HostTypes, Own, HandOwned, Base, HandUp, Holding
<1>2. PICK p \in GoodProcs : p = hproc
  BY <1>1
<1>3. Told(p.by, call[p.by].value, "invalid") /\ p.by \in Tasks /\ call[p.by].pc = "wait"
  BY <1>1, <1>2, CallbackTold, ProcFields DEF Types
<1>4. \A u \in Tasks : Spared(u) \/ Failed(u)
  BY <1>3, ToldFails
<1>5. Makers' = Makers
  <2>1. Makers' \subseteq Makers /\ \A m \in Makers : m \in Makers'
    BY <1>1, <1>4, MakersLeft
  <2> QED
    BY <2>1
<1>6. OldLines
  BY <1>1, <1>5, LinesSame DEF OldLines, Live, peerVars
<1>7. Quiet' /\ HandUp'
  BY <1>1 DEF Base, Quiet, HandUp, Holding, attVars, peerVars
<1> QED
  BY <1>1, <1>4, <1>5, <1>6, <1>7, OldKeepsBase DEF peerVars

LEMMA ExpireKeepsBase ==
  ASSUME Types, Own, Base, ~LateAnswers, Expire
  PROVE  /\ Base' /\ OldLines /\ Makers' \subseteq Makers /\ UNCHANGED <<prepq, written>>
         /\ \A u \in Tasks : Spared(u) \/ Failed(u)
         /\ hpc = "idle" /\ hpc' = "idle" /\ link' = link
         /\ \E i \in DOMAIN procs :
              /\ procs' = RemoveAt(procs, i) /\ Callback(procs[i], "timeout")
              /\ \A m \in Makers : m.by # procs[i].by => m \in Makers'
<1>1. PICK i \in DOMAIN procs :
        /\ \A r \in ToSet(air[Home[procs[i].by]]) : r.res = "sent"
        /\ Callback(procs[i], "timeout") /\ procs' = RemoveAt(procs, i)
        /\ silent' = [silent EXCEPT ![Home[procs[i].by]] = TRUE]
  BY DEF Expire
<1>2. /\ hpc = "idle" /\ hpc' = "idle" /\ UNCHANGED <<link, attVars, hostVars, prepq, written>>
  BY DEF Expire, hostVars
<1>3. PICK p \in GoodProcs : p = procs[i]
  BY DEF Types, ProcTypes
<1>4. p.by \in Tasks /\ p.live /\ call[p.by].pc = "wait"
  BY <1>3, ProcFields DEF Own, ListOwned, Owned, Awaited
<1>5. PICK h \in Conns : h = Home[p.by]
  BY <1>4, Homes
<1>6. \A u \in Tasks : Spared(u) \/ Failed(u)
  <2>1. CASE link[h] # "down"
    BY <1>1, <1>3, <1>4, <1>5, <2>1, CallbackTold, ToldFails DEF Types
  <2>2. CASE link[h] = "down"
    BY <1>1, <1>3, <1>5, <2>2 DEF Callback, callVars, Spared
  <2> QED
    BY <2>1, <2>2
<1>7. /\ Makers' \subseteq Makers
      /\ \A m \in Makers : m.by # p.by => m \in Makers'
  <2> DEFINE K == DOMAIN procs \ {i}
  <2>1. /\ \A n \in DOMAIN procs' : \E j \in K : procs'[n] = procs[j]
        /\ \A j \in K : \E n \in DOMAIN procs' : procs'[n] = procs[j]
    <3>1. procs \in Seq(GoodProcs)
      BY DEF Types, ProcTypes
    <3>2. PICK from \in [DOMAIN procs' -> DOMAIN procs \ {i}] :
            \A n \in DOMAIN procs' : procs'[n] = procs[from[n]]
      BY <1>1, <3>1, RemovalPlaces
    <3> QED
      BY <1>1, <3>1, <3>2, RemovalKeeps
  <2>2. K \in SUBSET DOMAIN procs /\ DOMAIN procs \ K = {i}
    OBVIOUS
  <2> HIDE DEF K
  <2>3. /\ Makers' \subseteq Makers
        /\ \A m \in Makers : (\A j \in DOMAIN procs \ K : procs[j].by # m.by) => m \in Makers'
    BY <1>2, <1>6, <2>1, <2>2, MakersLeft
  <2> QED
    BY <1>3, <2>2, <2>3
<1>8. /\ silent \in [Conns -> BOOLEAN] /\ silent'[h] /\ \A k \in Conns \ {h} : silent'[k] = silent[k]
  BY <1>1, <1>3, <1>5 DEF Types, LinkTypes
<1>9. OldLines
  <2>1. \A k \in Conns : Live(k)' => k # h /\ Live(k)
    BY <1>2, <1>8 DEF Live
  <2>2. \A k \in Conns \ {h} : \A m \in Makers : Home[m.by] = k => m \in Makers'
    BY <1>5, <1>7
  <2> QED
    BY <1>2, <2>1, <2>2, LinesSame DEF OldLines
<1>10. Quiet'
  <2>1. \A n \in DOMAIN air[h] : air[h][n].res = "sent"
    BY <1>1, <1>3, <1>5 DEF ToSet
  <2> QED
    BY <1>2, <1>8, <2>1 DEF Base, Quiet, attVars
<1>11. HandUp'
  BY <1>2 DEF HandUp, Holding, hostVars
<1>12. Base'
  BY <1>2, <1>6, <1>7, <1>9, <1>10, <1>11, OldKeepsBase
<1> QED
  BY <1>1, <1>2, <1>3, <1>6, <1>7, <1>9, <1>12

LEMMA BreakKeepsBase ==
  ASSUME Types, Own, Base, NEW h \in Conns, Break(h)
  PROVE  /\ Base' /\ OldLines /\ Makers' \subseteq Makers /\ UNCHANGED <<prepq, written>>
         /\ \A u \in Tasks : Spared(u) \/ Failed(u)
         /\ hpc = "idle" /\ hpc' = "teardown" /\ link' = [link EXCEPT ![h] = "broken"] /\ hrsp'.conn = h
         /\ \A i \in DOMAIN procs : Home[procs[i].by] = h => bit'[procs[i].by]
         /\ \A m \in Makers : Home[m.by] # h => m \in Makers'
         /\ \A m \in Makers' : Home[m.by] = h => call[m.by].pc = "insert"
<1> DEFINE told(t) == \E p \in {p \in ToSet(procs) : OfConn(p, h)} : p.by = t /\ p.live
           K == {i \in DOMAIN procs : ~OfConn(procs[i], h)}
<1>1. /\ call' = [t \in Tasks |-> IF told(t) THEN [call[t] EXCEPT !.rc = "notConn"] ELSE call[t]]
      /\ bit' = [t \in Tasks |-> bit[t] \/ told(t)]
      /\ procs' = Kept(procs, K) /\ hpc' = "teardown" /\ hproc' = None
      /\ hpc = "idle" /\ link' = [link EXCEPT ![h] = "broken"] /\ txq' = [txq EXCEPT ![h] = <<>>]
      /\ hrsp' = [rsp |-> None, conn |-> h] /\ UNCHANGED <<busy, air, peerVars>>
  BY DEF Break
<1>2. \A t \in Tasks : told(t) => \E i \in DOMAIN procs : procs[i].by = t
  BY DEF ToSet
<1>3. \A t \in Tasks : told(t) => call[t].pc = "wait"
  BY <1>2 DEF Own, ListOwned, Owned, Awaited
<1>4. \A i \in DOMAIN procs : Home[procs[i].by] = h => told(procs[i].by) /\ procs[i].by \in Tasks
  <2> SUFFICES ASSUME NEW i \in DOMAIN procs, Home[procs[i].by] = h
               PROVE  told(procs[i].by) /\ procs[i].by \in Tasks
    OBVIOUS
  <2>1. procs[i] \in ToSet(procs)
    BY DEF ToSet
  <2>2. procs[i] \in GoodProcs /\ procs[i].live
    BY DEF Types, ProcTypes, Own, ListOwned, Owned, Awaited
  <2> QED
    BY <2>1, <2>2, ProcFields DEF OfConn
<1> HIDE DEF told
<1>5. \A u \in Tasks : Spared(u) \/ Failed(u)
  <2> TAKE u \in Tasks
  <2>1. call[u] \in Calls /\ call \in [Tasks -> GoodCalls] /\ bit \in [Tasks -> BOOLEAN]
    BY DEF Types, CallTypes, GoodCalls
  <2>2. CASE ~told(u)
    BY <1>1, <2>1, <2>2 DEF Spared
  <2>3. CASE told(u)
    <3>1. PICK c \in Calls : c = call[u]
      BY <2>1
    <3>2. PICK d : d = [c EXCEPT !.rc = "notConn"]
      OBVIOUS
    <3>3. d.rc = "notConn" /\ d.pc = c.pc /\ d.op = c.op /\ d.len = c.len /\ d.value = c.value
      BY <3>2 DEF Calls
    <3>4. call'[u] = d /\ bit'[u]
      BY <1>1, <2>3, <3>1, <3>2
    <3> QED
      BY <1>3, <2>3, <3>1, <3>3, <3>4 DEF Failed
  <2> QED
    BY <2>2, <2>3
<1>6. K \in SUBSET DOMAIN procs /\ \A i \in DOMAIN procs : i \in K <=> Home[procs[i].by] # h
  BY DEF OfConn
<1> HIDE DEF K
<1>7. /\ \A n \in DOMAIN procs' : \E j \in K : procs'[n] = procs[j]
      /\ \A j \in K : \E n \in DOMAIN procs' : procs'[n] = procs[j]
  <2>1. ProcTypes
    BY DEF Types
  <2>3. procs' = Kept(procs, K) /\ K \in SUBSET DOMAIN procs
    BY <1>1, <1>6
  <2>2. PICK from \in [DOMAIN procs' -> K] :
          /\ \A n \in DOMAIN procs' : procs'[n] = procs[from[n]]
          /\ \A n, m \in DOMAIN procs' : n # m => from[n] # from[m]
          /\ \A i \in K : \E n \in DOMAIN procs' : from[n] = i
    BY <2>1, <2>3, KeptProcs
  <2> QED
    BY <2>2
<1>8. /\ Makers' \subseteq Makers
      /\ \A m \in Makers : Home[m.by] # h => m \in Makers'
  <2>1. /\ Makers' \subseteq Makers
        /\ \A m \in Makers : (\A j \in DOMAIN procs \ K : procs[j].by # m.by) => m \in Makers'
    BY <1>1, <1>5, <1>6, <1>7, MakersLeft
  <2> QED
    BY <1>6, <2>1
<1>9. \A m \in Makers' : Home[m.by] = h => call[m.by].pc = "insert" /\ m.off = 0
  <2> SUFFICES ASSUME NEW m \in Makers', Home[m.by] = h PROVE call[m.by].pc = "insert" /\ m.off = 0
    OBVIOUS
  <2>1. \A u \in Tasks : call'[u].pc = call[u].pc /\ call'[u].op = call[u].op /\ call'[u].len = call[u].len
    BY <1>5, SparedCalls
  <2>2. hpc # "insert" /\ hpc' # "insert" /\ K \in SUBSET DOMAIN procs
    BY <1>1, <1>6
  <2>3. \A x : x \in Makers' <=> \/ \E i \in K : x = procs[i]
                                 \/ \E u \in Tasks : call[u].pc = "insert" /\ x = NewProc(u)
                                 \/ hpc' = "insert" /\ x = hproc'
    BY <1>7, <2>1, <2>2, MakersSelected
  <2> QED
    BY <1>6, <2>2, <2>3, NewProcTypes
<1>10. /\ link'[h] = "broken" /\ \A k \in Conns \ {h} : link'[k] = link[k] /\ txq'[k] = txq[k]
  BY <1>1 DEF Types, LinkTypes, Bearer
<1>11. OldLines
  <2>1. \A k \in Conns : Live(k)' => k # h /\ Live(k)
    BY <1>1, <1>10 DEF Live, peerVars
  <2>2. \A k \in Conns \ {h} : Line(k)' = Line(k)
    BY <1>1, <1>10 DEF Line, Hand, Rest
  <2>3. \A k \in Conns \ {h} : \A m \in Makers : Home[m.by] = k => m \in Makers'
    BY <1>8
  <2> QED
    BY <2>1, <2>2, <2>3 DEF OldLines
<1>12. Quiet' /\ HandUp'
  BY <1>1, <1>10 DEF Base, Quiet, HandUp, Holding, peerVars
<1>13. \A m \in Makers' : link'[Home[m.by]] # "up" => link[Home[m.by]] # "up" \/ m.off = 0
  <2> SUFFICES ASSUME NEW m \in Makers', Home[m.by] # h PROVE link'[Home[m.by]] = link[Home[m.by]]
    BY <1>9
  <2>1. Home[m.by] \in Conns
    BY <1>8, MakerTypes, Homes
  <2> QED
    BY <1>10, <2>1
<1>14. Base'
  BY <1>5, <1>8, <1>11, <1>12, <1>13, OldKeepsBase
<1>15. \A i \in DOMAIN procs : Home[procs[i].by] = h => bit'[procs[i].by]
  BY <1>1, <1>4
<1> QED
  BY <1>1, <1>5, <1>8, <1>9, <1>11, <1>14, <1>15 DEF peerVars

-----------------------------------------------------------------------------
(* Stalled procedures, and the answers of the peer *)

LEMMA ResumeStalledSteps ==
  ASSUME Types, Own, Base, ResumeStalled
  PROVE  /\ hpc = "idle" /\ UNCHANGED <<link, silent, prepq, written>>
         /\ \E i \in DOMAIN procs :
              /\ procs[i].stalled /\ procs[i] \in GoodProcs /\ procs[i] \in Makers /\ GoodProc(procs[i])
              /\ link[Home[procs[i].by]] = "up" /\ call[procs[i].by].pc = "wait"
              /\ Ends(procs[i].by)
              /\ Refused(procs[i]) \/ (Resumes(procs[i]) /\ UNCHANGED callVars)
              /\ \A m \in Makers' : (m \in Makers /\ m.by # procs[i].by) \/ (hpc' = "insert" /\ m = hproc')
              /\ \A m \in Makers : ~m.stalled => m \in Makers' /\ m.by # procs[i].by
              /\ hpc' = "insert" => hproc' \in Makers'
<1> DEFINE K == {i \in DOMAIN procs : ~procs[i].stalled}
<1>1. PICK i \in DOMAIN procs :
        /\ procs[i].stalled
        /\ IF procs[i].op = "readLong"
           THEN Resume(procs[i], Request("blob", procs[i].by, procs[i].off)) /\ UNCHANGED callVars
           ELSE ResumeWrite(procs[i])
  BY DEF ResumeStalled
<1>2. procs' = Kept(procs, K) /\ hpc = "idle" /\ UNCHANGED <<link, silent, prepq, written>>
  BY DEF ResumeStalled, peerVars
<1>3. PICK p \in GoodProcs : p = procs[i]
  BY DEF Types, ProcTypes
<1>4. p \in Makers /\ GoodProc(p) /\ p.stalled /\ Owned(p)
  BY <1>1, <1>3, MakerCases DEF Base, MakersGood, Own, ListOwned
<1>5. p.off > 0 /\ p.off # 0 /\ link[Home[p.by]] = "up" /\ p.op \in {"readLong", "writeLong"}
  <2>1. p.off > 0
    BY <1>4 DEF GoodProc
  <2>2. ~(p.off = 0)
    BY <2>1
  <2> QED
    BY <1>4, <2>1, <2>2 DEF GoodProc, GoodProcs, Procs
<1>6. p.live /\ call[p.by].pc = "wait" /\ (p.op # "readLong" => FitsIn(p.len)) /\ p.by \in Tasks /\ ~bit[p.by]
  BY <1>4, ProcFields DEF Owned, Awaited
<1>7. Refused(p) \/ (Resumes(p) /\ UNCHANGED callVars)
  <2>1. CASE p.op = "readLong"
    <3>1. RequestOf(p) = "blob"
      BY <1>5, <2>1, ProcFields DEF RequestOf
    <3> QED
      BY <1>1, <1>3, <2>1, <3>1, ResumeResumes
  <2>2. CASE p.op = "writeLong"
    <3>0. p.op # "readLong"
      BY <2>2
    <3>1. ResumeWrite(p)
      BY <1>1, <1>3, <3>0
    <3> QED
      BY <1>5, <1>6, <2>2, <3>1, ResumeWriteOutcome DEF Types
  <2> QED
    BY <1>5, <2>1, <2>2
<1>8. Ends(p.by)
  <2>1. CASE UNCHANGED callVars
    BY <1>6, <2>1, NobodyEnds DEF Own
  <2>2. CASE Refused(p)
    BY <2>2 DEF Refused, Told, Ends
  <2> QED
    BY <1>7, <2>1, <2>2
<1>9. K \in SUBSET DOMAIN procs /\ i \notin K /\ \A j \in DOMAIN procs : ~procs[j].stalled => j \in K
  BY <1>1
<1> HIDE DEF K
<1>10. /\ \A n \in DOMAIN procs' : \E j \in K : procs'[n] = procs[j]
       /\ \A j \in K : \E n \in DOMAIN procs' : procs'[n] = procs[j]
  <2>1. ProcTypes
    BY DEF Types
  <2>2. procs' = Kept(procs, K) /\ K \in SUBSET DOMAIN procs
    BY <1>2, <1>9
  <2>3. PICK from \in [DOMAIN procs' -> K] :
          /\ \A n \in DOMAIN procs' : procs'[n] = procs[from[n]]
          /\ \A n, m \in DOMAIN procs' : n # m => from[n] # from[m]
          /\ \A j \in K : \E n \in DOMAIN procs' : from[n] = j
    BY <2>1, <2>2, KeptProcs
  <2> QED
    BY <2>3
<1>11. \A u \in Tasks : call'[u].pc = call[u].pc /\ call'[u].op = call[u].op /\ call'[u].len = call[u].len
  BY <1>8 DEF Ends
<1>12. \A x : x \in Makers' <=> \/ \E j \in K : x = procs[j]
                                \/ \E u \in Tasks : call[u].pc = "insert" /\ x = NewProc(u)
                                \/ hpc' = "insert" /\ x = hproc'
  <2>1. K \in SUBSET DOMAIN procs /\ hpc # "insert"
    BY <1>2, <1>9
  <2> QED
    BY <1>10, <1>11, <2>1, MakersSelected
<1>13. \A j \in K : procs[j].by # p.by
  BY <1>3, <1>9 DEF Own, ListOwned
<1>14. \A u \in Tasks : call[u].pc = "insert" => NewProc(u).by # p.by
  BY <1>6, NewProcTypes
<1>15. \A m \in Makers' : (m \in Makers /\ m.by # p.by) \/ (hpc' = "insert" /\ m = hproc')
  BY <1>9, <1>12, <1>13, <1>14, MakerCases
<1>16. ASSUME NEW m \in Makers, ~m.stalled PROVE m \in Makers' /\ m.by # p.by
  <2>1. \/ \E j \in DOMAIN procs : m = procs[j]
        \/ \E u \in Tasks : call[u].pc = "insert" /\ m = NewProc(u)
    BY <1>2, MakerCases
  <2>2. \/ \E j \in K : m = procs[j]
        \/ \E u \in Tasks : call[u].pc = "insert" /\ m = NewProc(u)
    BY <1>9, <1>16, <2>1
  <2> QED
    BY <1>12, <1>13, <1>14, <2>2
<1>17. hpc' = "insert" => hproc' \in Makers'
  BY <1>12
<1> QED
  BY <1>1, <1>2, <1>3, <1>4, <1>5, <1>6, <1>7, <1>8, <1>15, <1>16, <1>17

LEMMA ResumeStalledKeepsBase ==
  ASSUME Types, Own, Base, ResumeStalled
  PROVE  Base'
<1>1. PICK i \in DOMAIN procs :
        /\ procs[i].stalled /\ procs[i] \in GoodProcs /\ procs[i] \in Makers /\ GoodProc(procs[i])
        /\ link[Home[procs[i].by]] = "up" /\ call[procs[i].by].pc = "wait"
        /\ Ends(procs[i].by)
        /\ Refused(procs[i]) \/ (Resumes(procs[i]) /\ UNCHANGED callVars)
        /\ \A m \in Makers' : (m \in Makers /\ m.by # procs[i].by) \/ (hpc' = "insert" /\ m = hproc')
        /\ \A m \in Makers : ~m.stalled => m \in Makers' /\ m.by # procs[i].by
        /\ hpc' = "insert" => hproc' \in Makers'
  BY ResumeStalledSteps
<1>2. hpc = "idle" /\ UNCHANGED <<link, silent, prepq, written>>
  BY ResumeStalledSteps
<1>3. PICK p \in GoodProcs : p = procs[i]
  BY <1>1
<1>4. p.stalled /\ p \in Makers /\ GoodProc(p) /\ link[Home[p.by]] = "up" /\ call[p.by].pc = "wait" /\ p.by \in Tasks
  BY <1>1, <1>3, ProcFields
<1>5. CallsGood'
  BY <1>1, <1>3, <1>4, EndsCalls
<1>6. \A u \in Tasks : call'[u].op = call[u].op /\ call'[u].len = call[u].len
  BY <1>1, <1>3 DEF Ends
<1>7. ASSUME NEW m \in Makers PROVE GoodProc(m)'
  <2>1. m.by \in Tasks /\ GoodProc(m)
    BY MakerTypes DEF Base, MakersGood
  <2> QED
    BY <1>2, <1>6, <2>1, GoodFrame
<1>8. ASSUME NEW h \in Conns, Live(h)'
      PROVE  \E q \in Seq(ReqsOf(h)) : /\ q = Line(h) /\ Live(h)
                                       /\ Tidy(q) /\ \A n \in DOMAIN q : q[n].by # p.by /\ Made(q[n])'
  <2>1. Live(h)
    BY <1>2, <1>8 DEF Live
  <2>2. PICK q \in Seq(ReqsOf(h)) : q = Line(h)
    BY LineTypes DEF Base
  <2>3. Tidy(q) /\ \A n \in DOMAIN q : Made(q[n])
    BY <2>1, <2>2 DEF Base, InLine, Orderly, Tidy
  <2>4. ASSUME NEW n \in DOMAIN q PROVE q[n].by # p.by /\ Made(q[n])'
    <3>1. PICK x \in ReqsOf(h) : x = q[n]
      OBVIOUS
    <3>2. PICK m \in Makers : Fits(m, x)
      BY <2>3, <3>1 DEF Made
    <3>3. m \in Makers' /\ m.by # p.by
      BY <1>1, <1>3, <3>2 DEF Fits
    <3>4. x.by # p.by /\ Made(x)'
      BY <3>2, <3>3 DEF Made, Fits
    <3> QED
      BY <3>1, <3>4
  <2> QED
    BY <2>1, <2>2, <2>3, <2>4
<1>9. CASE Refused(p)
  <2>1. hpc' = "again" /\ hproc' = p /\ UNCHANGED attVars
    BY <1>9 DEF Refused
  <2>2. MakersGood'
    BY <1>1, <1>7, <2>1 DEF MakersGood
  <2>3. ASSUME NEW h \in Conns, Live(h)' PROVE Orderly(h)'
    <3>1. PICK q \in Seq(ReqsOf(h)) : q = Line(h) /\ Tidy(q) /\ \A n \in DOMAIN q : Made(q[n])'
      BY <1>8, <2>3
    <3>2. Line(h)' = q
      BY <1>2, <2>1, <3>1, LinesSame
    <3> QED
      BY <3>1, <3>2 DEF Orderly, Tidy
  <2>4. Quiet' /\ HandUp'
    BY <1>2, <1>4, <2>1 DEF Base, Quiet, HandUp, Holding, attVars
  <2> QED
    BY <1>5, <2>2, <2>3, <2>4 DEF Base, InLine
<1>10. CASE Resumes(p)
  <2>1. p.off > 0 /\ p.op # "write" /\ p.op # "read"
    BY <1>4 DEF GoodProc
  <2>2. PICK d : d = hproc' /\ GoodProc(d)' /\ d.by = p.by
    BY <1>2, <1>4, <1>6, <1>10, <2>1, ResumesGood
  <2>3. hpc' = "insert" /\ d \in Makers'
    BY <1>1, <1>10, <2>2 DEF Resumes
  <2>4. MakersGood'
    BY <1>1, <1>7, <2>2, <2>3 DEF MakersGood
  <2>5. HandUp'
    BY <1>2, <1>4, <2>2, <2>3 DEF HandUp, Holding
  <2>6. PICK x : x = Request(RequestOf(p), p.by, p.off)
    OBVIOUS
  <2>7. PICK c \in Conns : c = Home[p.by] /\ link[c] = "up"
    BY <1>4, Homes
  <2>8. \/ UNCHANGED attVars
        \/ x \in ReqsOf(c) /\ x.by = p.by /\ x.res = "sent" /\ Transmit(c, x) /\ Fits(d, x)
    BY <1>10, <2>1, <2>2, <2>6, <2>7, ResumesFits
  <2>9. CASE UNCHANGED attVars
    <3>1. ASSUME NEW h \in Conns, Live(h)' PROVE Orderly(h)'
      <4>1. PICK q \in Seq(ReqsOf(h)) : q = Line(h) /\ Tidy(q) /\ \A n \in DOMAIN q : Made(q[n])'
        BY <1>8, <3>1
      <4>2. Line(h)' = q
        BY <1>2, <2>3, <2>9, <4>1, LinesSame
      <4> QED
        BY <4>1, <4>2 DEF Orderly, Tidy
    <3>2. Quiet'
      BY <1>2, <2>9 DEF Base, Quiet, attVars
    <3> QED
      BY <1>5, <2>4, <2>5, <3>1, <3>2 DEF Base, InLine
  <2>10. CASE x \in ReqsOf(c) /\ x.by = p.by /\ x.res = "sent" /\ Transmit(c, x) /\ Fits(d, x)
    <3>1. ASSUME NEW h \in Conns, Live(h)' PROVE Orderly(h)'
      <4>1. PICK q \in Seq(ReqsOf(h)) : q = Line(h) /\ Tidy(q) /\ \A n \in DOMAIN q : q[n].by # p.by /\ Made(q[n])'
        BY <1>8, <3>1
      <4>2. Hand(h)' = Hand(h)
        BY <1>2, <2>3 DEF Hand
      <4>3. Line(h)' = IF h = c THEN Append(Line(c), x) ELSE Line(h)
        BY <2>7, <2>10, <4>2, LineSent DEF Base
      <4>4. Line(h)' = IF h = c THEN Append(q, x) ELSE q
        BY <4>1, <4>3
      <4>5. \A n \in DOMAIN q : q[n].by # x.by /\ Made(q[n])'
        BY <2>10, <4>1
      <4>6. d \in Makers' /\ Fits(d, x) /\ x \in ReqsOf(c) /\ x.res = "sent" /\ Tidy(q)
        BY <2>3, <2>10, <4>1
      <4> QED
        BY <4>4, <4>5, <4>6, InLineGrows
    <3>2. Quiet'
      BY <1>2, <2>10, QuietSent DEF Base
    <3> QED
      BY <1>5, <2>4, <2>5, <3>1, <3>2 DEF Base, InLine
  <2> QED
    BY <2>8, <2>9, <2>10
<1> QED
  BY <1>1, <1>3, <1>9, <1>10

(* The peer's answer changes the first request it has, and nothing else. *)
LEMMA OneChanged ==
  ASSUME NEW S, NEW a \in Seq(S), NEW x \in S, NEW y \in S, NEW b \in Seq(S)
  PROVE  /\ DOMAIN (a \o (<<x>> \o b)) = DOMAIN (a \o (<<y>> \o b))
         /\ \A n \in DOMAIN (a \o (<<x>> \o b)) :
              \/ (a \o (<<y>> \o b))[n] = (a \o (<<x>> \o b))[n]
              \/ (a \o (<<x>> \o b))[n] = x /\ (a \o (<<y>> \o b))[n] = y
<1>0. ASSUME NEW z \in S PROVE <<z>> \o b \in Seq(S) /\ Len(<<z>> \o b) = 1 + Len(b) /\ (<<z>> \o b)[1] = z
  OBVIOUS
<1>1. PICK p \in Seq(S) : p = <<x>> \o b /\ Len(p) = 1 + Len(b)
  BY <1>0
<1>2. PICK q \in Seq(S) : q = <<y>> \o b /\ Len(q) = 1 + Len(b)
  BY <1>0
<1>3. p[1] = x /\ q[1] = y /\ \A n \in 1..(1 + Len(b)) : n # 1 => p[n] = q[n]
  BY <1>1, <1>2
<1>4. /\ DOMAIN (a \o p) = 1..(Len(a) + Len(p)) /\ DOMAIN (a \o q) = 1..(Len(a) + Len(q))
      /\ \A n \in 1..(Len(a) + Len(p)) : (a \o p)[n] = IF n <= Len(a) THEN a[n] ELSE p[n - Len(a)]
      /\ \A n \in 1..(Len(a) + Len(q)) : (a \o q)[n] = IF n <= Len(a) THEN a[n] ELSE q[n - Len(a)]
      /\ Len(a) \in Nat /\ Len(b) \in Nat
  OBVIOUS
<1>5. \A n \in 1..(Len(a) + Len(p)) : ~(n <= Len(a)) => n - Len(a) \in 1..(1 + Len(b))
  BY <1>1, <1>4
<1> QED
  BY <1>1, <1>2, <1>3, <1>4, <1>5

Answered(h, x, y) ==
  /\ x.res = "sent" /\ (y.res = "ok" \/ <<Kind(x), y.res>> \in PeerErrors)
  /\ y.op = x.op /\ y.by = x.by /\ y.off = x.off
  /\ air[h] # <<>> /\ Head(air[h]) = x /\ Head(air'[h]) = y
  /\ \E n \in DOMAIN Line(h) : Line(h)[n] = x /\ Line(h)'[n] = y
  /\ \A k \in Conns : DOMAIN Line(k)' = DOMAIN Line(k)
  /\ \A k \in Conns : \A n \in DOMAIN Line(k) :
       Line(k)'[n] = Line(k)[n] \/ (k = h /\ Line(k)[n] = x /\ Line(k)'[n] = y)
  /\ \A k \in Conns \ {h} : air'[k] = air[k]

LEMMA AnswerSteps ==
  ASSUME Types, Base, NEW h \in Conns, Answer(h)
  PROVE  /\ Live(h) /\ UNCHANGED <<link, silent, procs, hostVars, callVars>>
         /\ \E x, y \in ReqsOf(h) : Answered(h, x, y)
<1>1. /\ link[h] = "up" /\ ~silent[h] /\ air[h] # <<>> /\ Head(air[h]).res = "sent"
      /\ UNCHANGED <<link, busy, txq, procs, hostVars, callVars, silent>>
  BY DEF Answer
<1>2. PICK res \in {"ok"} \cup {e \in Errors : <<Kind(Head(air[h])), e>> \in PeerErrors} :
        air' = [air EXCEPT ![h] = [@ EXCEPT ![1].res = res]]
  BY DEF Answer
<1>3. air \in [Conns -> Seq(Reqs)] /\ air[h] \in Seq(ReqsOf(h)) /\ txq[h] \in Seq(ReqsOf(h)) /\ Len(air[h]) = 1
  BY <1>1 DEF Types, Bearer, OneRequestOutstanding
<1>4. PICK x \in ReqsOf(h) : air[h] = <<x>> /\ Head(air[h]) = x
  BY <1>3, OneOnly
<1>5. PICK y : y = [x EXCEPT !.res = res]
  OBVIOUS
<1>6. y \in ReqsOf(h) /\ y.res = res /\ y.op = x.op /\ y.by = x.by /\ y.off = x.off
  <2>1. res \in {"sent", "ok"} \cup Refusals
    BY <1>2 DEF Refusals
  <2> QED
    BY <1>5, <2>1 DEF ReqsOf, Reqs
<1>7. air'[h] = <<y>> /\ \A k \in Conns \ {h} : air'[k] = air[k]
  <2>1. /\ air'[h] = [air[h] EXCEPT ![1] = [air[h][1] EXCEPT !.res = res]]
        /\ \A k \in Conns \ {h} : air'[k] = air[k]
    BY <1>2, <1>3
  <2>2. air[h][1] = x /\ [air[h][1] EXCEPT !.res = res] = y
    BY <1>4, <1>5
  <2>3. [<<x>> EXCEPT ![1] = y] = <<y>>
    OBVIOUS
  <2> QED
    BY <1>4, <2>1, <2>2, <2>3
<1>8. Head(<<y>>) = y
  OBVIOUS
<1>9. \A k \in Conns : Hand(k)' = Hand(k) /\ Hand(k) \in Seq(ReqsOf(k))
  BY <1>1, LineTypes DEF Hand, hostVars, Base
<1>10. \A k \in Conns \ {h} : Line(k)' = Line(k)
  BY <1>1, <1>7, <1>9 DEF Line, Rest
<1>11. Line(h) = Hand(h) \o (<<x>> \o txq[h]) /\ Line(h)' = Hand(h) \o (<<y>> \o txq[h])
  BY <1>1, <1>4, <1>7, <1>9 DEF Line, Rest
<1>12. /\ DOMAIN Line(h)' = DOMAIN Line(h)
       /\ \A n \in DOMAIN Line(h) : Line(h)'[n] = Line(h)[n] \/ (Line(h)[n] = x /\ Line(h)'[n] = y)
  BY <1>3, <1>6, <1>9, <1>11, OneChanged
<1>13. \E n \in DOMAIN Line(h) : Line(h)[n] = x /\ Line(h)'[n] = y
  <2>1. PICK S : S = ReqsOf(h)
    OBVIOUS
  <2>2. PICK b \in Seq(S) : b = txq[h] /\ x \in S /\ y \in S
    BY <1>3, <1>6, <2>1
  <2>3. ASSUME NEW c \in S PROVE <<c>> \o b \in Seq(S) /\ Len(<<c>> \o b) > 0 /\ (<<c>> \o b)[1] = c
    OBVIOUS
  <2>4. PICK a \in Seq(S) : a = Hand(h)
    BY <1>9, <2>1
  <2>5. ASSUME NEW c \in S
        PROVE  Len(a) + 1 \in DOMAIN (a \o (<<c>> \o b)) /\ (a \o (<<c>> \o b))[Len(a) + 1] = c
    <3>1. PICK p \in Seq(S) : p = <<c>> \o b /\ Len(p) > 0 /\ p[1] = c
      BY <2>3
    <3>2. Len(a) + 1 \in DOMAIN (a \o p) /\ (a \o p)[Len(a) + 1] = c
      BY <3>1
    <3> QED
      BY <3>1, <3>2
  <2> QED
    BY <1>11, <2>2, <2>4, <2>5
<1>14. x.res = "sent" /\ (y.res = "ok" \/ <<Kind(x), y.res>> \in PeerErrors)
  BY <1>1, <1>2, <1>4, <1>6
<1>15. Head(air[h]) = x /\ Head(air'[h]) = y
  BY <1>4, <1>7, <1>8
<1>16. ASSUME NEW k \in Conns
       PROVE  /\ DOMAIN Line(k)' = DOMAIN Line(k)
              /\ \A n \in DOMAIN Line(k) :
                   Line(k)'[n] = Line(k)[n] \/ (k = h /\ Line(k)[n] = x /\ Line(k)'[n] = y)
  BY <1>10, <1>12
<1>17. Answered(h, x, y)
  BY <1>1, <1>6, <1>7, <1>13, <1>14, <1>15, <1>16 DEF Answered
<1> QED
  BY <1>1, <1>6, <1>17 DEF Live

LEMMA AnswerKeepsBase ==
  ASSUME Types, Base, NEW h \in Conns, Answer(h)
  PROVE  Base' /\ Makers' = Makers
<1>1. Live(h) /\ UNCHANGED <<link, silent, procs, hostVars, callVars>>
  BY AnswerSteps
<1>2. PICK x \in ReqsOf(h), y \in ReqsOf(h) : Answered(h, x, y)
  BY AnswerSteps
<1>3. Makers' = Makers
  BY <1>1, MakersSame DEF hostVars, callVars
<1>4. MakersGood' /\ CallsGood' /\ HandUp'
  BY <1>1, <1>3 DEF Base, MakersGood, GoodProc, CallsGood, HandUp, Holding, Live, hostVars, callVars
<1>5. Quiet'
  BY <1>1, <1>2 DEF Base, Quiet, Live, Answered
<1>6. ASSUME NEW k \in Conns, Live(k)' PROVE Orderly(k)'
  <2>1. Orderly(k)
    BY <1>1, <1>6 DEF Base, InLine, Live
  <2>2. Sound(y)
    <3>1. Kind(y) = Kind(x) /\ "ok" \notin Errors
      BY <1>2 DEF Kind, Errors, Answered
    <3> QED
      BY <1>2, <3>1 DEF Sound, Answered
  <2>3. PICK q, z : q = Line(k) /\ z = Line(k)'
    OBVIOUS
  <2>4. /\ DOMAIN z = DOMAIN q
        /\ \A n \in DOMAIN q : z[n] = q[n] \/ (q[n] = x /\ z[n] = y)
    BY <1>2, <2>3 DEF Answered
  <2>5. \A n \in DOMAIN q : z[n].by = q[n].by
    BY <1>2, <2>4 DEF Answered
  <2>6. Apiece(z)
    BY <2>1, <2>3, <2>4, <2>5 DEF Orderly, Apiece
  <2>7. ASSUME NEW n \in DOMAIN z PROVE Made(z[n])' /\ Sound(z[n])
    <3>1. Made(q[n]) /\ Sound(q[n])
      BY <2>1, <2>3, <2>4 DEF Orderly
    <3>2. PICK a, b : a = q[n] /\ b = z[n]
      OBVIOUS
    <3>3. PICK m \in Makers : Fits(m, a)
      BY <3>1, <3>2 DEF Made
    <3>4. Fits(m, b)
      BY <1>2, <2>4, <3>2, <3>3 DEF Fits, Answered
    <3>5. Made(b)'
      BY <1>3, <3>4 DEF Made
    <3> QED
      BY <2>2, <2>4, <3>1, <3>2, <3>5
  <2> QED
    BY <2>3, <2>6, <2>7 DEF Orderly
<1> QED
  BY <1>3, <1>4, <1>5, <1>6 DEF Base, InLine

-----------------------------------------------------------------------------
(* Every step keeps the requests in line *)

LEMMA BaseStep ==
  ASSUME Steady, Types, Own, Base, Right, [Next]_vars
  PROVE  Base' /\ Own'
<1>1. CASE UNCHANGED vars
  <2>1. Makers' = Makers
    BY <1>1, MakersSame DEF vars, hostVars, callVars
  <2>2. \A h \in Conns : Line(h)' = Line(h) /\ (Live(h)' <=> Live(h))
    BY <1>1 DEF vars, attVars, hostVars, peerVars, Line, Hand, Rest, Live
  <2>3. \A u \in Tasks : Spared(u)
    BY <1>1 DEF vars, callVars, Spared
  <2>4. Quiet' /\ HandUp'
    BY <1>1 DEF Base, Quiet, HandUp, Holding, Live, vars, attVars, hostVars, peerVars
  <2>5. Base'
    BY <1>1, <2>1, <2>2, <2>3, <2>4, OldKeepsBase DEF OldLines, vars
  <2>6. Own'
    BY <1>1, OwnFrame DEF vars, hostVars
  <2> QED
    BY <2>5, <2>6
<1>2. ASSUME NEW t \in Tasks, AppNext(t) PROVE Base' /\ Own'
  BY <1>2, AppKeepsBase, AppKeepsOwn DEF Steady
<1>3. CASE HostNext
  <2>1. Own'
    BY <1>3, RightCuts, HostKeepsOwn
  <2>2. Base'
    <3>1. CASE Dispatch
      BY <3>1, DispatchKeepsBase
    <3>2. CASE Expire
      BY <3>2, ExpireKeepsBase DEF Steady
    <3>3. CASE (\E h \in Conns : Receive(h) \/ Break(h) \/ Connect(h)) \/ Reinsert \/ CallbackAgain \/ Delete
      BY <3>3, ReceiveKeepsBase, BreakKeepsBase, ConnectKeepsBase, ReinsertKeepsBase, AgainKeepsBase,
         DeleteKeepsBase
    <3>4. CASE ResumeStalled
      BY <3>4, ResumeStalledKeepsBase
    <3> QED
      BY <1>3, <3>1, <3>2, <3>3, <3>4 DEF HostNext
  <2> QED
    BY <2>1, <2>2
<1>4. ASSUME NEW h \in Conns, Answer(h) PROVE Base' /\ Own'
  BY <1>4, AnswerKeepsBase, OwnFrame DEF Answer, hostVars
<1> QED
  BY <1>1, <1>2, <1>3, <1>4 DEF Next

LEMMA BaseInit ==
  ASSUME Init
  PROVE  Base /\ Own /\ Makers = {} /\ \A h \in Conns : Line(h) = <<>>
<1>1. FitsIn(0)
  BY BoundsAssumption DEF FitsIn
<1>2. CallsOwn
  BY <1>1 DEF Init, CallsOwn, CallOwn, NoCall
<1>3. ListOwned /\ HandOwned
  BY DEF Init, ListOwned, HandOwned, Holding
<1>4. Makers = {}
  <2>1. \A p : p \notin Makers
    BY MakerCases DEF Init, NoCall
  <2> QED
    BY <2>1
<1>5. \A h \in Conns : Line(h) = <<>>
  <2>1. <<>> \o <<>> = <<>>
    OBVIOUS
  <2> QED
    BY <2>1 DEF Init, Line, Hand, Rest
<1>6. \A h \in Conns : Orderly(h)
  <2> TAKE h \in Conns
  <2>1. PICK q : q = Line(h) /\ DOMAIN q = {}
    BY <1>5
  <2> QED
    BY <2>1 DEF Orderly, Apiece
<1>7. Quiet /\ HandUp /\ CallsGood
  BY DEF Init, Quiet, HandUp, Holding, CallsGood, CallGood, NoCall
<1> QED
  BY <1>2, <1>3, <1>4, <1>5, <1>6, <1>7 DEF Base, InLine, MakersGood, Own

(* One task reads and one writes; where a peer refuses requests, each has a  *)
(* connection of its own.                                                    *)
Apart ==
  /\ \A t, u \in Readers : t = u
  /\ \A t, u \in Writers : t = u
  /\ PeerErrors = {} \/ \A t, u \in Tasks : Home[t] = Home[u] => t = u

LEMMA ApartRight ==
  ASSUME Apart, Types, Own, Base
  PROVE  Right
<1> SUFFICES ASSUME NEW i, Takes(i) PROVE procs[i].by = hrsp.rsp.by
  BY DEF Right
<1>1. hpc = "dispatch" /\ i \in DOMAIN procs /\ Matches(procs[i], hrsp.rsp, hrsp.conn)
  BY DEF Takes
<1>2. PICK p \in Makers : p = procs[i]
  BY <1>1, MakerCases
<1>3. PICK r : r = hrsp.rsp
  OBVIOUS
<1>4. PICK m \in Makers : Fits(m, r)
  BY <1>1, <1>3, FirstInHand DEF Made
<1>5. Sound(r) /\ r.by \in Tasks /\ Home[r.by] = hrsp.conn
  BY <1>1, <1>3, FirstInHand
<1>6. Matches(p, r, hrsp.conn)
  BY <1>1, <1>2, <1>3
<1>7. ASSUME NEW x \in Makers
      PROVE  /\ x.by \in Tasks /\ x.op # "read"
             /\ x.by \in IF x.op = "readLong" THEN Readers ELSE Writers
  <2>1. x.by \in Tasks /\ call[x.by].pc # "idle"
    BY MakerTypes
  <2>2. x.op # "read" /\ call[x.by].op = IF x.op = "readLong" THEN "read" ELSE "write"
    BY DEF Base, MakersGood, GoodProc
  <2>3. CallGood(x.by, call[x.by])
    BY <2>1 DEF Base, CallsGood
  <2> QED
    BY <2>1, <2>2, <2>3 DEF CallGood
<1>8. CASE r.res \in Errors
  <2>1. Home[p.by] = hrsp.conn
    BY <1>6, <1>8 DEF Matches
  <2>2. PeerErrors # {}
    BY <1>5, <1>8 DEF Sound
  <2>3. p.by = r.by
    BY <1>5, <1>7, <2>1, <2>2 DEF Apart
  <2> QED
    BY <1>2, <1>3, <2>3
<1>9. CASE r.res \notin Errors
  <2>1. r.op \in {"read", "blob"} => p.op = "readLong" /\ m.op = "readLong"
    BY <1>4, <1>6, <1>7, <1>9 DEF Matches, Fits, RequestOf
  <2>2. r.op \notin {"read", "blob"} => p.op # "readLong" /\ m.op # "readLong"
    BY <1>4, <1>6, <1>7, <1>9 DEF Matches, Fits, RequestOf
  <2>3. p.by = m.by
    BY <1>7, <2>1, <2>2 DEF Apart
  <2> QED
    BY <1>2, <1>3, <1>4, <2>3 DEF Fits
<1> QED
  BY <1>8, <1>9

-----------------------------------------------------------------------------
(* What a read has collected *)

(* The host's steps other than the dispatch of an answer *)
Later(m, k) == m = k \/ (k.stalled /\ Alike(m, k))
LEMMA HostSteps ==
  ASSUME Steady, Types, Own, Base, HostNext, ~Dispatch
  PROVE  /\ written' = written
         /\ \A h \in Conns : prepq'[h] = prepq[h] \/ link[h] = "down"
         /\ \A u \in Tasks : Spared(u) \/ Failed(u)
         /\ \A m \in Makers' : \E k \in Makers : Later(m, k)
         /\ OldLines \/ ResumeStalled
<1>1. ASSUME UNCHANGED callVars PROVE \A u \in Tasks : Spared(u) \/ Failed(u)
  BY <1>1 DEF Spared, callVars
<1>2. ASSUME Makers' \subseteq Makers PROVE \A m \in Makers' : \E k \in Makers : Later(m, k)
  BY <1>2 DEF Later
<1>3. ASSUME NEW h \in Conns, Receive(h) \/ Break(h) \/ Connect(h)
      PROVE  /\ written' = written /\ \A k \in Conns : prepq'[k] = prepq[k] \/ link[k] = "down"
             /\ \A u \in Tasks : Spared(u) \/ Failed(u)
             /\ Makers' \subseteq Makers /\ OldLines
  BY <1>1, <1>3, ReceiveKeepsBase, BreakKeepsBase, ConnectKeepsBase
<1>4. ASSUME Reinsert \/ CallbackAgain \/ Expire \/ Delete
      PROVE  /\ written' = written /\ prepq' = prepq
             /\ \A u \in Tasks : Spared(u) \/ Failed(u)
             /\ Makers' \subseteq Makers /\ OldLines
  BY <1>1, <1>4, ReinsertKeepsBase, AgainKeepsBase, ExpireKeepsBase, DeleteKeepsBase DEF Steady
<1>5. ASSUME ResumeStalled
      PROVE  /\ written' = written /\ prepq' = prepq
             /\ \A u \in Tasks : Spared(u) \/ Failed(u)
             /\ \A m \in Makers' : \E k \in Makers : Later(m, k)
  <2>1. PICK i \in DOMAIN procs :
          /\ procs[i].stalled /\ procs[i] \in GoodProcs /\ procs[i] \in Makers
          /\ call[procs[i].by].pc = "wait"
          /\ Refused(procs[i]) \/ (Resumes(procs[i]) /\ UNCHANGED callVars)
          /\ \A m \in Makers' : (m \in Makers /\ m.by # procs[i].by) \/ (hpc' = "insert" /\ m = hproc')
    BY <1>5, ResumeStalledSteps
  <2>2. PICK p \in GoodProcs : p = procs[i]
    BY <2>1
  <2>3. p.by \in Tasks /\ p \in Makers /\ p.stalled /\ call[p.by].pc = "wait"
    BY <2>1, <2>2, ProcFields
  <2>4. \A u \in Tasks : Spared(u) \/ Failed(u)
    <3>1. CASE Refused(p)
      BY <2>3, <3>1, ToldFails DEF Refused
    <3> QED
      BY <1>1, <2>1, <2>2, <3>1
  <2>5. hpc' = "insert" => Later(hproc', p)
    <3> SUFFICES ASSUME hpc' = "insert" PROVE Later(hproc', p)
      OBVIOUS
    <3>1. Resumes(p)
      BY <2>1, <2>2 DEF Refused
    <3>2. PICK b \in BOOLEAN : hproc' = [p EXCEPT !.stalled = b]
      BY <3>1 DEF Resumes
    <3>3. PICK d : d = [p EXCEPT !.stalled = b]
      OBVIOUS
    <3>4. Alike(d, p)
      BY <3>3 DEF Alike, GoodProcs, Procs
    <3> QED
      BY <2>3, <3>2, <3>3, <3>4 DEF Later
  <2>6. ASSUME NEW m \in Makers' PROVE \E k \in Makers : Later(m, k)
    BY <2>1, <2>3, <2>5 DEF Later
  <2>7. written' = written /\ prepq' = prepq
    BY <1>5, ResumeStalledSteps
  <2> QED
    BY <2>4, <2>6, <2>7
<1> QED
  BY <1>2, <1>3, <1>4, <1>5 DEF HostNext

(* What a read has collected *)
Part(t, n) == [i \in 1..n |-> <<t, i - 1>>]
RProc(m) == m.op = "readLong" => call[m.by].value = Part(m.by, m.off)
RCall(t) ==
  call[t].op = "read" =>
    /\ call[t].pc \in {"send", "secure"} => call[t].value = <<>>
    /\ bit[t] /\ call[t].rc = "auth" => call[t].value = <<>>
    /\ (bit[t] \/ call[t].pc = "done") /\ call[t].rc \in {"ok", "done"} => call[t].value = Part(t, Size[t])
RData == (\A m \in Makers : RProc(m)) /\ \A t \in Tasks : RCall(t)
(* No peer asks for security in the middle of a long read.                   *)
BlobsAllowed == <<"blob", "auth">> \notin PeerErrors

LEMMA PartNone == \A t : Part(t, 0) = <<>>
BY DEF Part

LEMMA PartGrows ==
  ASSUME NEW t, NEW n \in Nat
  PROVE  Append(Part(t, n), <<t, n>>) = Part(t, n + 1)
<1>1. PICK S : S = {<<t, i>> : i \in Nat}
  OBVIOUS
<1>2. Part(t, n) \in Seq(S) /\ Len(Part(t, n)) = n /\ Part(t, n + 1) \in Seq(S) /\ Len(Part(t, n + 1)) = n + 1
  <2>1. ASSUME NEW k \in Nat PROVE Part(t, k) \in Seq(S) /\ Len(Part(t, k)) = k
    <3>1. \A i \in 1..k : <<t, i - 1>> \in S
      BY <1>1
    <3>2. Part(t, k) \in [1..k -> S]
      BY <3>1 DEF Part
    <3> QED
      BY <3>2
  <2>2. n + 1 \in Nat
    OBVIOUS
  <2> QED
    BY <2>1, <2>2
<1>3. \A i \in 1..n : Part(t, n)[i] = <<t, i - 1>>
  BY DEF Part
<1>4. \A i \in 1..(n + 1) : Part(t, n + 1)[i] = <<t, i - 1>>
  BY DEF Part
<1>5. PICK a, b : a = Part(t, n) /\ b = Part(t, n + 1)
  OBVIOUS
<1>6. <<t, n>> \in S
  BY <1>1
<1>7. Append(a, <<t, n>>) \in Seq(S) /\ Len(Append(a, <<t, n>>)) = n + 1
      /\ \A i \in 1..(n + 1) : Append(a, <<t, n>>)[i] = IF i = n + 1 THEN <<t, n>> ELSE a[i]
  BY <1>2, <1>5, <1>6
<1>8. \A i \in 1..(n + 1) : Append(a, <<t, n>>)[i] = b[i]
  <2> TAKE i \in 1..(n + 1)
  <2>1. CASE i = n + 1
    <3>1. i - 1 = n
      BY <2>1
    <3> QED
      BY <1>4, <1>5, <1>7, <2>1, <3>1
  <2>2. CASE i # n + 1
    <3>1. i \in 1..n
      BY <2>2
    <3> QED
      BY <1>3, <1>4, <1>5, <1>7, <2>2, <3>1
  <2> QED
    BY <2>1, <2>2
<1>9. Append(a, <<t, n>>) = b
  BY <1>2, <1>5, <1>7, <1>8
<1> QED
  BY <1>5, <1>9

LEMMA AppKeepsReads ==
  ASSUME Types, Own, Base, RData, NEW t \in Tasks, AppNext(t)
  PROVE  RData'
<1>0. /\ \A u \in Tasks \ {t} : call'[u] = call[u] /\ bit'[u] = bit[u]
      /\ Starts(t) \/ Sends(t) \/ Fails(t) \/ Inserts(t) \/ Wakes(t) \/ Secures(t) \/ Returns(t)
  BY AppSteps DEF Starts, Sends, Fails, Inserts, Wakes, Secures, Returns
<1>1. CallOwn(call[t], bit[t]) /\ CallGood(t, call[t]) /\ RCall(t)
  BY DEF Own, CallsOwn, Base, CallsGood, RData
<1>2. RCall(t)'
  <2>1. CASE Starts(t) \/ Sends(t) \/ Fails(t) \/ Inserts(t) \/ Returns(t)
    <3>1. ~bit'[t]
      BY <1>1, <2>1 DEF Starts, Sends, Fails, Inserts, Returns, CallOwn
    <3>2. call'[t].pc = "done" => call'[t].rc \in {"notConn", "noMem"}
      BY <2>1 DEF Starts, Sends, Fails, Inserts, Returns, NoCall
    <3>3. call'[t].pc \in {"send", "secure"} => call'[t].value = <<>>
      BY <2>1 DEF Starts, Sends, Fails, Inserts, Returns, NoCall
    <3> QED
      BY <3>1, <3>2, <3>3 DEF RCall
  <2>2. CASE Wakes(t)
    BY <1>1, <2>2 DEF Wakes, Same, RCall
  <2>3. CASE Secures(t)
    BY <1>1, <2>3 DEF Secures, Same, RCall, CallGood, CallOwn
  <2> QED
    BY <1>0, <2>1, <2>2, <2>3
<1>3. \A u \in Tasks : RCall(u)'
  <2>1. ASSUME NEW u \in Tasks \ {t} PROVE RCall(u)'
    BY <1>0 DEF RData, RCall
  <2> QED
    BY <1>2, <2>1
<1>4. ASSUME NEW m \in Makers PROVE RProc(m)'
  <2>1. m.by \in Tasks /\ (call[m.by].pc = "insert" \/ (call[m.by].pc = "wait" /\ ~bit[m.by])) /\ RProc(m)
    BY MakerTypes DEF RData
  <2>2. call'[m.by].value = call[m.by].value
    <3>1. CASE m.by # t
      BY <1>0, <2>1, <3>1
    <3>2. CASE m.by = t
      BY <1>0, <2>1, <3>2 DEF Starts, Sends, Fails, Inserts, Wakes, Secures, Returns, Same
    <3> QED
      BY <3>1, <3>2
  <2> QED
    BY <2>1, <2>2 DEF RProc
<1>5. CASE ~Sends(t)
  <2>1. Makers' = Makers
    BY <1>5, AppMakers
  <2> QED
    BY <1>3, <1>4, <2>1 DEF RData
<1>6. CASE Sends(t)
  <2>1. Makers' = Makers \cup {NewProc(t)}
    BY <1>6, SendMakers
  <2>2. PICK p : p = NewProc(t)
    OBVIOUS
  <2>3. p.by = t /\ p.off = 0
    BY <2>2, NewProcTypes
  <2>4. p.op = "readLong" => call[t].op = "read"
    BY <2>2, <1>6, FirstFits DEF Sends
  <2>5. call[t].op = "read" => call'[t].value = <<>>
    BY <1>1, <1>6 DEF Sends, Same, RCall
  <2>6. RProc(p)'
    BY <2>3, <2>4, <2>5, PartNone DEF RProc
  <2> QED
    BY <1>3, <1>4, <2>1, <2>2, <2>6 DEF RData
<1> QED
  BY <1>5, <1>6

LEMMA DispatchKeepsReads ==
  ASSUME Steady, BlobsAllowed, Types, Own, Base, Right, RData, Dispatch
  PROVE  RData'
<1>1. hpc = "dispatch" /\ hpc' # "dispatch"
  BY DispatchSteps
<1>2. CASE hpc' = "idle" /\ UNCHANGED <<attVars, procs, callVars>> /\ hproc' = None
  <2>1. \A u \in Tasks : Spared(u) \/ Failed(u)
    BY <1>2 DEF Spared, callVars
  <2>2. Makers' \subseteq Makers
    BY <1>1, <1>2, <2>1, MakersLeft
  <2> QED
    BY <1>2, <2>2 DEF RData, RProc, RCall, callVars
<1>3. ASSUME NEW i \in DOMAIN procs, Takes(i), procs' = RemoveAt(procs, i),
             Ends(procs[i].by),
             Finishes(procs[i], hrsp.rsp) \/ GoesOn(procs[i], hrsp.rsp)
      PROVE  RData'
  <2>1. PICK p : p = procs[i]
    OBVIOUS
  <2>2. PICK r : r = hrsp.rsp
    OBVIOUS
  <2>3. /\ Fits(p, r) /\ p \in Makers /\ p \in GoodProcs /\ p.by \in Tasks /\ GoodProc(p)
        /\ call[p.by].pc = "wait" /\ ~bit[p.by] /\ RProc(p) /\ p.off \in Nat
    BY <1>3, <2>1, <2>2, RightFits, ProcFields DEF Owned, Awaited, RData
  <2>4. /\ \A m \in Makers' : (m \in Makers /\ m.by # p.by) \/ (hpc' = "insert" /\ m = hproc')
    BY <1>1, <1>3, <2>1, MakersTaken
  <2>5. \A u \in Tasks \ {p.by} : Spared(u)
    BY <1>3, <2>1 DEF Ends, Spared
  <2>6. ASSUME NEW m \in Makers, m.by # p.by PROVE RProc(m)'
    BY <2>5, <2>6, MakerTypes DEF RData, RProc, Spared
  <2>7. ASSUME NEW u \in Tasks \ {p.by} PROVE RCall(u)'
    BY <2>5, <2>7 DEF RData, RCall, Spared
  <2>8. p.op = "readLong" => /\ call[p.by].value = Part(p.by, p.off)
                             /\ Append(call[p.by].value, <<p.by, p.off>>) = Part(p.by, p.off + 1)
    BY <2>3, PartGrows DEF RProc
  <2>9. call[p.by].op = "read" => p.op = "readLong"
    BY <2>3 DEF GoodProc
  <2>10. CASE Finishes(p, r)
    <3>1. hpc' # "insert"
      BY <2>10 DEF Finishes
    <3>2. RCall(p.by)'
      <4>1. CASE r.res \in Errors /\ Told(p.by, call[p.by].value, r.res)
        <5>1. r.res = "auth" /\ p.op = "readLong" => call[p.by].value = <<>>
          <6> SUFFICES ASSUME r.res = "auth", p.op = "readLong" PROVE p.off = 0
            BY <2>8, PartNone
          <6>1. Sound(r)
            BY <1>1, <2>2, FirstInHand
          <6>2. Kind(r) # "blob"
            BY <4>1, <6>1 DEF Sound, BlobsAllowed
          <6> QED
            BY <2>3, <6>2 DEF Fits, RequestOf, Kind
        <5>2. r.res \notin {"ok", "done"}
          BY <4>1 DEF Errors
        <5> QED
          BY <2>3, <2>9, <4>1, <5>1, <5>2 DEF RCall, Told
      <4>2. CASE Told(p.by, call[p.by].value, "invalid")
        BY <2>3, <4>2, SMTT(60) DEF RCall, Told
      <4>3. CASE /\ p.op = "readLong" /\ p.off + 1 = Size[p.by]
                 /\ Told(p.by, Append(call[p.by].value, <<p.by, p.off>>), "done")
        BY <2>3, <2>8, <4>3, Zenon DEF RCall, Told
      <4>4. CASE p.op # "readLong" /\ Told(p.by, call[p.by].value, "ok")
        BY <2>9, <4>4 DEF RCall, Told
      <4> QED
        BY <2>10, <4>1, <4>2, <4>3, <4>4 DEF Finishes
    <3> QED
      BY <2>4, <2>6, <2>7, <3>1, <3>2 DEF RData
  <2>11. CASE GoesOn(p, r)
    <3>1. PICK a \in GoodProcs : a = Advanced(p) /\ Resumes(a)
      BY <2>11 DEF GoesOn
    <3>2. a.by = p.by /\ a.op = p.op /\ a.off = p.off + 1
      <4>1. p.op = "readLong" \/ p.off < p.len
        BY <2>11 DEF GoesOn
      <4> QED
        BY <2>3, <3>1, <4>1, AdvancedFields
    <3>3. PICK b \in BOOLEAN : hproc' = [a EXCEPT !.stalled = b]
      BY <3>1 DEF Resumes
    <3>4. PICK d : d = [a EXCEPT !.stalled = b]
      OBVIOUS
    <3>5. d.by = p.by /\ d.op = p.op /\ d.off = p.off + 1
      BY <3>1, <3>2, <3>4 DEF GoodProcs, Procs
    <3>6. p.op = "readLong" => call'[p.by].value = Part(p.by, p.off + 1)
      BY <2>8, <2>11 DEF GoesOn, Fed
    <3>7. RProc(d)'
      BY <3>5, <3>6 DEF RProc
    <3>8. RCall(p.by)'
      <4>1. call'[p.by].pc = "wait" /\ ~bit'[p.by]
        BY <2>3, <2>11 DEF GoesOn, Fed, callVars
      <4> QED
        BY <4>1 DEF RCall
    <3> QED
      BY <2>4, <2>6, <2>7, <3>3, <3>4, <3>7, <3>8 DEF RData
  <2> QED
    BY <1>3, <2>1, <2>2, <2>10, <2>11
<1> QED
  BY <1>2, <1>3, DispatchSteps

LEMMA StepKeepsReads ==
  ASSUME Steady, BlobsAllowed, Types, Own, Base, Right, RData, [Next]_vars
  PROVE  RData'
<1>1. CASE HostNext /\ ~Dispatch
  <2>1. ASSUME NEW m \in Makers' PROVE RProc(m)'
    <3>1. PICK k \in Makers : Later(m, k)
      BY <1>1, <2>1, HostSteps
    <3>2. m.by = k.by /\ m.op = k.op /\ m.off = k.off /\ k.by \in Tasks
      BY <3>1, MakerTypes DEF Later, Alike
    <3>3. call'[k.by].value = call[k.by].value
      BY <1>1, <3>2, HostSteps DEF Spared, Failed
    <3> QED
      BY <3>2, <3>3 DEF RData, RProc
  <2>2. ASSUME NEW u \in Tasks PROVE RCall(u)'
    BY <1>1, HostSteps DEF RData, RCall, Spared, Failed
  <2> QED
    BY <2>1, <2>2 DEF RData
<1>2. ASSUME UNCHANGED callVars, Makers' = Makers PROVE RData'
  BY <1>2 DEF RData, RProc, RCall, callVars
<1>3. CASE UNCHANGED vars
  BY <1>2, <1>3, MakersSame DEF vars, hostVars, callVars
<1>4. ASSUME NEW h \in Conns, Answer(h) PROVE RData'
  BY <1>2, <1>4, AnswerKeepsBase DEF Answer
<1> QED
  BY <1>1, <1>3, <1>4, AppKeepsReads, DispatchKeepsReads DEF Next

LEMMA ReadsInit == Init => RData
BY BaseInit DEF RData, RCall, Init, NoCall

-----------------------------------------------------------------------------
(* What a write has stored *)

(* The lines after the steps that send a request *)
LEMMA AppLines ==
  ASSUME Types, Own, Base, NEW t \in Tasks, AppNext(t), NEW h \in Conns, Live(h)'
  PROVE  /\ Live(h)
         /\ \/ ~(Sends(t) /\ Home[t] = h) /\ Line(h)' = Line(h)
            \/ Sends(t) /\ Home[t] = h /\ Line(h)' = Append(Line(h), FirstRequest(t))
<1>0. /\ UNCHANGED <<link, silent, hpc, hrsp>>
      /\ Starts(t) \/ Sends(t) \/ Fails(t) \/ Inserts(t) \/ Wakes(t) \/ Secures(t) \/ Returns(t)
  BY AppSteps
<1>1. Live(h) /\ Hand(h)' = Hand(h) /\ link[h] = "up"
  BY <1>0 DEF Live, Hand
<1>2. CASE Sends(t)
  <2>1. PICK r \in ReqsOf(Home[t]) : r = FirstRequest(t)
    BY <1>2, FirstFits DEF Sends
  <2>2. Transmit(Home[t], r) /\ Home[t] \in Conns
    BY <1>2, <2>1, Homes DEF Sends
  <2>3. CASE Home[t] = h
    <3>1. Line(h)' = Append(Line(h), r)
      BY <1>1, <2>1, <2>2, <2>3, LineSent DEF Base
    <3> QED
      BY <1>1, <1>2, <2>1, <2>3, <3>1
  <2>4. CASE Home[t] # h
    <3>1. air'[h] = air[h] /\ txq'[h] = txq[h]
      BY <2>2, <2>4 DEF Transmit, Types, Bearer
    <3>2. Line(h)' = Line(h)
      BY <1>1, <3>1 DEF Line, Rest
    <3> QED
      BY <1>1, <2>4, <3>2
  <2> QED
    BY <2>3, <2>4
<1>3. CASE ~Sends(t)
  <2>1. UNCHANGED attVars
    BY <1>0, <1>3 DEF Starts, Fails, Inserts, Wakes, Secures, Returns
  <2>2. Line(h)' = Line(h)
    BY <1>1, <2>1 DEF Line, Rest, attVars
  <2> QED
    BY <1>1, <1>3, <2>2
<1> QED
  BY <1>2, <1>3

LEMMA ResumeLines ==
  ASSUME Types, Own, Base, ResumeStalled, NEW h \in Conns, Live(h)'
  PROVE  /\ Live(h)
         /\ \/ Line(h)' = Line(h)
            \/ \E p \in Makers : /\ p.stalled /\ Request(RequestOf(p), p.by, p.off) \in ReqsOf(h)
                                 /\ Line(h)' = Append(Line(h), Request(RequestOf(p), p.by, p.off))
<1>1. PICK i \in DOMAIN procs :
        /\ procs[i].stalled /\ procs[i] \in GoodProcs /\ procs[i] \in Makers /\ GoodProc(procs[i])
        /\ link[Home[procs[i].by]] = "up"
        /\ Refused(procs[i]) \/ (Resumes(procs[i]) /\ UNCHANGED callVars)
  BY ResumeStalledSteps
<1>2. hpc = "idle" /\ UNCHANGED <<link, silent, prepq, written>>
  BY ResumeStalledSteps
<1>3. PICK p \in GoodProcs : p = procs[i]
  BY <1>1
<1>4. p.op # "write" /\ p.op # "read" /\ Home[p.by] \in Conns /\ p.stalled /\ p \in Makers
  BY <1>1, <1>3, ProcFields, Homes DEF GoodProc
<1>5. hpc' # "dispatch" /\ Live(h) /\ Hand(h)' = Hand(h)
  BY <1>1, <1>2, <1>3 DEF Refused, Resumes, Live, Hand
<1>6. CASE UNCHANGED attVars
  BY <1>2, <1>5, <1>6, LinesSame
<1>7. PICK x : x = Request(RequestOf(p), p.by, p.off)
  OBVIOUS
<1>8. CASE x \in ReqsOf(Home[p.by]) /\ Transmit(Home[p.by], x)
  <2>1. PICK c \in Conns : c = Home[p.by] /\ link[c] = "up"
    BY <1>1, <1>3, <1>4
  <2>2. Line(h)' = IF h = c THEN Append(Line(c), x) ELSE Line(h)
    BY <1>5, <1>8, <2>1, LineSent DEF Base
  <2> QED
    BY <1>4, <1>5, <1>7, <1>8, <2>1, <2>2
<1> QED
  BY <1>1, <1>3, <1>4, <1>6, <1>7, <1>8, ResumesFits DEF Refused

LEMMA DispatchLines ==
  ASSUME Steady, Types, Own, Base, Right, NEW p \in GoodProcs, Dispatch,
         GoesOn(p, hrsp.rsp), GoodProc(p), Home[p.by] = hrsp.conn, NEW h \in Conns
  PROVE  \/ NoMem /\ Line(h)' = IF h = hrsp.conn THEN Tail(Line(h)) ELSE Line(h)
         \/ /\ Request(RequestOf(Advanced(p)), p.by, Advanced(p).off) \in ReqsOf(hrsp.conn)
            /\ Line(h)' = IF h = hrsp.conn
                          THEN Append(Tail(Line(h)), Request(RequestOf(Advanced(p)), p.by, Advanced(p).off))
                          ELSE Line(h)
<1>1. hpc = "dispatch" /\ hpc' # "dispatch" /\ link' = link
  BY DispatchSteps
<1>2. Types /\ link[Home[p.by]] = "up"
  BY <1>1, FirstInHand
<1>3. PICK r : r = hrsp.rsp
  OBVIOUS
<1>4. PICK a : a = Advanced(p)
  OBVIOUS
<1>5. GoodProc(a) /\ a.op # "write" /\ a.by = p.by /\ a \in GoodProcs /\ Resumes(a)
  BY <1>2, <1>3, <1>4, AdvancedGood
<1>6. a.op # "read"
  BY <1>5 DEF GoodProc
<1>7. PICK x : x = Request(RequestOf(a), a.by, a.off)
  OBVIOUS
<1>8. (NoMem /\ UNCHANGED attVars) \/ (x \in ReqsOf(hrsp.conn) /\ Transmit(hrsp.conn, x))
  BY <1>5, <1>6, <1>7, ResumesFits
<1>9. CASE NoMem /\ UNCHANGED attVars
  BY <1>1, <1>9, LineDispatched DEF Base
<1>10. CASE x \in ReqsOf(hrsp.conn) /\ Transmit(hrsp.conn, x)
  <2>1. Line(h)' = IF h = hrsp.conn THEN Append(Tail(Line(h)), x) ELSE Line(h)
    BY <1>1, <1>10, LineWentOn DEF Base
  <2> QED
    BY <1>4, <1>5, <1>7, <1>10, <2>1
<1> QED
  BY <1>8, <1>9, <1>10

(* What a write has stored *)
Stored(t) == written[t] \cup Prepared(Home[t], t)
PeerTypes == prepq \in [Conns -> SUBSET (Tasks \X Nat)] /\ written \in [Tasks -> SUBSET Nat]
WProc(m) ==
  m.op = "writeLong" /\ (m.stalled \/ m.off < m.len) => 0..(m.off - 1) \subseteq Stored(m.by)
WReq(r) ==
  /\ r.op = "prep" /\ r.res = "ok" => r.off \in Stored(r.by)
  /\ r.op = "exec" /\ r.res = "sent" => 0..(r.off - 1) \subseteq Stored(r.by)
  /\ r.op = "exec" /\ r.res = "ok" => 0..(r.off - 1) \subseteq written[r.by]
  /\ r.op = "write" /\ r.res = "ok" => 0 \in written[r.by]
WCall(t) ==
  call[t].op = "write" /\ (bit[t] \/ call[t].pc = "done") /\ call[t].rc \in {"ok", "done"}
    => 0..(call[t].len - 1) \subseteq written[t]
WLine(h) == \A n \in DOMAIN Line(h) : WReq(Line(h)[n])
WData ==
  /\ PeerTypes
  /\ \A m \in Makers : WProc(m)
  /\ \A h \in Conns : Live(h) => WLine(h)
  /\ \A t \in Tasks : WCall(t)
(* No peer refuses to commit a long write, unless each connection has one    *)
(* writer.                                                                   *)
CommitsAlone ==
  (\A e : <<"exec", e>> \notin PeerErrors) \/ \A t, u \in Writers : Home[t] = Home[u] => t = u

LEMMA MakerWriter ==
  ASSUME Types, Own, Base, NEW m \in Makers, m.op # "readLong"
  PROVE  m.by \in Writers
BY MakerTypes DEF Base, MakersGood, GoodProc, CallsGood, CallGood

(* Requests by tasks that lose nothing, and new ones, are as they should be. *)
LEMMA LineGrown ==
  ASSUME NEW S, NEW q \in Seq(S), NEW x \in S, NEW z, z = q \/ z = Append(q, x)
  PROVE  \A n \in DOMAIN z : z[n] = x \/ \E m \in DOMAIN q : z[n] = q[m]
<1>1. CASE z = q
  BY <1>1
<1>2. CASE z = Append(q, x)
  <2>1. /\ DOMAIN Append(q, x) = 1..(Len(q) + 1) /\ DOMAIN q = 1..Len(q) /\ Len(q) \in Nat
        /\ \A n \in 1..Len(q) : Append(q, x)[n] = q[n]
        /\ Append(q, x)[Len(q) + 1] = x
    OBVIOUS
  <2>2. \A n \in 1..(Len(q) + 1) : n \in 1..Len(q) \/ n = Len(q) + 1
    BY <2>1
  <2> QED
    BY <1>2, <2>1, <2>2
<1> QED
  BY <1>1, <1>2

LEMMA TailPlaces ==
  ASSUME NEW S, NEW q \in Seq(S), q # <<>>
  PROVE  Tail(q) \in Seq(S) /\ \A n \in DOMAIN Tail(q) : \E m \in DOMAIN q : Tail(q)[n] = q[m]
<1>1. /\ DOMAIN Tail(q) = 1..(Len(q) - 1) /\ DOMAIN q = 1..Len(q) /\ Len(q) \in Nat /\ Len(q) > 0
      /\ \A n \in 1..(Len(q) - 1) : Tail(q)[n] = q[n + 1]
  OBVIOUS
<1>2. \A n \in 1..(Len(q) - 1) : n + 1 \in 1..Len(q)
  BY <1>1
<1> QED
  BY <1>1, <1>2

LEMMA AppKeepsWrites ==
  ASSUME Types, Own, Base, WData, NEW t \in Tasks, AppNext(t)
  PROVE  WData'
<1>0. /\ \A u \in Tasks \ {t} : call'[u] = call[u] /\ bit'[u] = bit[u]
      /\ Starts(t) \/ Sends(t) \/ Fails(t) \/ Inserts(t) \/ Wakes(t) \/ Secures(t) \/ Returns(t)
      /\ prepq' = prepq
  BY AppSteps DEF Starts, Sends, Fails, Inserts, Wakes, Secures, Returns
<1>1. CallOwn(call[t], bit[t]) /\ CallGood(t, call[t]) /\ WCall(t) /\ PeerTypes
  BY DEF Own, CallsOwn, Base, CallsGood, WData
<1>2. WCall(t)'
  <2>1. CASE Starts(t) \/ Sends(t) \/ Fails(t) \/ Inserts(t) \/ Returns(t)
    <3>1. ~bit'[t]
      BY <1>1, <2>1 DEF Starts, Sends, Fails, Inserts, Returns, CallOwn
    <3>2. call'[t].pc = "done" => call'[t].rc \in {"notConn", "noMem"}
      BY <2>1 DEF Starts, Sends, Fails, Inserts, Returns, NoCall
    <3> QED
      BY <3>1, <3>2 DEF WCall
  <2>2. CASE Wakes(t)
    BY <1>1, <2>2 DEF Wakes, Same, WCall
  <2>3. CASE Secures(t)
    BY <1>1, <2>3 DEF Secures, Same, WCall, CallGood, CallOwn
  <2> QED
    BY <1>0, <2>1, <2>2, <2>3
<1>3. /\ PeerTypes' /\ \A u \in Tasks \ {t} : written'[u] = written[u]
      /\ call[t].pc # "idle" => written' = written
  <2>1. written' = written \/ (written' = [written EXCEPT ![t] = {}] /\ call[t].pc = "idle")
    BY <1>0 DEF Starts, Sends, Fails, Inserts, Wakes, Secures, Returns
  <2> QED
    BY <1>0, <1>1, <2>1 DEF PeerTypes
<1>4. \A u \in Tasks : WCall(u)'
  <2>1. ASSUME NEW u \in Tasks \ {t} PROVE WCall(u)'
    BY <1>0, <1>3 DEF WData, WCall
  <2> QED
    BY <1>2, <2>1
<1>5. ASSUME NEW m \in Makers PROVE Stored(m.by)' = Stored(m.by) /\ written'[m.by] = written[m.by]
  <2>1. m.by \in Tasks /\ call[m.by].pc # "idle"
    BY MakerTypes
  <2>2. written'[m.by] = written[m.by]
    BY <1>3, <2>1
  <2> QED
    BY <1>0, <2>2 DEF Stored, Prepared
<1>6. ASSUME NEW m \in Makers PROVE WProc(m)'
  BY <1>5 DEF WData, WProc
<1>7. \A m \in Makers' : WProc(m)'
  <2>1. CASE ~Sends(t)
    BY <1>6, <2>1, AppMakers
  <2>2. CASE Sends(t)
    <3>1. Makers' = Makers \cup {NewProc(t)}
      BY <2>2, SendMakers
    <3>2. PICK p : p = NewProc(t) /\ p.off = 0
      BY NewProcTypes
    <3>3. 0..(p.off - 1) = {}
      BY <3>2
    <3>4. WProc(p)'
      BY <3>3 DEF WProc
    <3> QED
      BY <1>6, <3>1, <3>2, <3>4
  <2> QED
    BY <2>1, <2>2
<1>8. ASSUME NEW h \in Conns, Live(h)' PROVE WLine(h)'
  <2>1. Live(h)
    BY <1>8, AppLines
  <2>2. PICK q \in Seq(ReqsOf(h)) : q = Line(h)
    BY LineTypes DEF Base
  <2>3. ASSUME NEW n \in DOMAIN q PROVE WReq(q[n])'
    <3>1. PICK x : x = q[n] /\ WReq(x) /\ Made(x)
      BY <2>1, <2>2 DEF WData, WLine, Base, InLine, Orderly
    <3>2. PICK m \in Makers : Fits(m, x)
      BY <3>1 DEF Made
    <3>3. Stored(x.by)' = Stored(x.by) /\ written'[x.by] = written[x.by]
      BY <1>5, <3>2 DEF Fits
    <3>4. WReq(x)'
      BY <3>1, <3>3 DEF WReq
    <3> QED
      BY <3>1, <3>4
  <2>4. CASE Line(h)' = Line(h)
    BY <2>2, <2>3, <2>4 DEF WLine
  <2>5. CASE call[t].pc = "send" /\ Home[t] = h /\ Line(h)' = Append(Line(h), FirstRequest(t))
    <3>1. PICK r \in ReqsOf(h) : r = FirstRequest(t) /\ r.res = "sent" /\ r.off = 0
      BY <2>5, FirstFits, NewProcTypes DEF Fits
    <3>2. 0..(r.off - 1) = {}
      BY <3>1
    <3>3. WReq(r)'
      BY <3>1, <3>2 DEF WReq
    <3>4. PICK z : z = Append(q, r)
      OBVIOUS
    <3>5. \A n \in DOMAIN z : z[n] = r \/ \E m \in DOMAIN q : z[n] = q[m]
      BY <3>4, LineGrown
    <3>6. ASSUME NEW n \in DOMAIN z PROVE WReq(z[n])'
      <4>1. PICK x : x = z[n]
        OBVIOUS
      <4>2. WReq(x)'
        BY <2>3, <3>3, <3>5, <4>1
      <4> QED
        BY <4>1, <4>2
    <3> QED
      BY <2>2, <2>5, <3>1, <3>4, <3>6 DEF WLine
  <2> QED
    BY <1>8, <2>4, <2>5, AppLines DEF Sends
<1> QED
  BY <1>3, <1>4, <1>7, <1>8 DEF WData

(* What a step of the peer stores *)
LEMMA AnswerData ==
  ASSUME Types, Base, PeerTypes, NEW h \in Conns, Answer(h),
         NEW x \in ReqsOf(h), NEW y \in ReqsOf(h), Answered(h, x, y), x.op # "cancel"
  PROVE  /\ PeerTypes' /\ \A t \in Tasks : written[t] \subseteq written'[t]
         /\ \A t \in Tasks : \/ Stored(t) \subseteq Stored(t)'
                             \/ Home[t] = h /\ x.op = "exec" /\ y.res # "ok"
         /\ x.op = "exec" /\ y.res = "ok" => Stored(x.by) \subseteq written'[x.by]
         /\ x.op = "prep" /\ y.res = "ok" => x.off \in Stored(x.by)'
         /\ x.op = "write" /\ y.res = "ok" => 0 \in written'[x.by]
<1>1. PICK res \in {"ok"} \cup Errors :
        LET r == Head(air[h]) IN
        /\ air' = [air EXCEPT ![h] = [@ EXCEPT ![1].res = res]]
        /\ prepq' = [prepq EXCEPT ![h] =
             CASE r.op \in {"exec", "cancel"} -> {}
               [] r.op = "prep" /\ res = "ok" -> @ \cup {<<r.by, r.off>>}
               [] OTHER -> @]
        /\ written' =
             CASE r.op = "exec" /\ res = "ok" ->
                    [t \in Tasks |-> written[t] \cup Prepared(h, t)]
               [] r.op = "write" /\ res = "ok" -> [written EXCEPT ![r.by] = @ \cup {0}]
               [] OTHER -> written
  BY DEF Answer
<1>2. /\ Head(air[h]) = x /\ Head(air'[h]) = y /\ air[h] # <<>> /\ air[h] \in Seq(ReqsOf(h))
      /\ air \in [Conns -> Seq(Reqs)] /\ Len(air[h]) = 1
  BY DEF Answered, Types, Bearer, OneRequestOutstanding, Answer
<1>3. y.res = res
  <2>1. PICK a : a = air[h]
    OBVIOUS
  <2>2. a = <<x>>
    BY <1>2, <2>1, OneOnly
  <2>3. PICK z : z = [x EXCEPT !.res = res]
    OBVIOUS
  <2>4. z.res = res
    BY <2>3 DEF ReqsOf, Reqs
  <2>5. [a EXCEPT ![1].res = res] = <<z>>
    BY <2>2, <2>3
  <2>6. air'[h] = <<z>> /\ Head(<<z>>) = z
    BY <1>1, <1>2, <2>1, <2>5
  <2> QED
    BY <1>2, <2>4, <2>6
<1>4. x.by \in Tasks /\ x.off \in Nat /\ Home[x.by] = h /\ 0 \in Nat
  BY DEF ReqsOf, Reqs
<1>5. prepq \in [Conns -> SUBSET (Tasks \X Nat)] /\ written \in [Tasks -> SUBSET Nat]
  BY DEF PeerTypes
<1>6. \A k \in Conns, t \in Tasks : Prepared(k, t) \in SUBSET Nat
                                    /\ \A n : n \in Prepared(k, t) <=> <<t, n>> \in prepq[k]
  <2> TAKE k \in Conns, t \in Tasks
  <2>1. prepq[k] \in SUBSET (Tasks \X Nat)
    BY <1>5
  <2> QED
    BY <2>1 DEF Prepared
<1>7. ASSUME prepq' \in [Conns -> SUBSET (Tasks \X Nat)]
      PROVE  \A k \in Conns, t \in Tasks : \A n : n \in Prepared(k, t)' <=> <<t, n>> \in prepq'[k]
  <2> TAKE k \in Conns, t \in Tasks
  <2>1. prepq'[k] \in SUBSET (Tasks \X Nat)
    BY <1>7
  <2> QED
    BY <2>1 DEF Prepared
<1>8. \A k \in Conns \ {h} : prepq'[k] = prepq[k]
  BY <1>1, <1>5
<1>9. CASE x.op = "exec" /\ res = "ok"
  <2>1. prepq' = [prepq EXCEPT ![h] = {}] /\ written' = [t \in Tasks |-> written[t] \cup Prepared(h, t)]
    BY <1>1, <1>2, <1>9
  <2>2. PeerTypes'
    BY <1>5, <1>6, <2>1 DEF PeerTypes
  <2>3. ASSUME NEW t \in Tasks PROVE Stored(t) \subseteq Stored(t)' /\ written[t] \subseteq written'[t]
    <3>1. written'[t] = written[t] \cup Prepared(h, t)
      BY <2>1
    <3>2. Home[t] # h => Prepared(Home[t], t)' = Prepared(Home[t], t)
      BY <1>8, Homes DEF Prepared
    <3> QED
      BY <3>1, <3>2 DEF Stored
  <2>4. Stored(x.by) \subseteq written'[x.by]
    BY <1>4, <2>1 DEF Stored
  <2> QED
    BY <1>3, <1>9, <2>2, <2>3, <2>4
<1>10. CASE x.op = "exec" /\ res # "ok"
  <2>1. prepq' = [prepq EXCEPT ![h] = {}] /\ written' = written
    BY <1>1, <1>2, <1>10
  <2>2. PeerTypes'
    BY <1>5, <2>1 DEF PeerTypes
  <2>3. ASSUME NEW t \in Tasks, Home[t] # h PROVE Stored(t)' = Stored(t)
    BY <1>8, <2>1, <2>3, Homes DEF Stored, Prepared
  <2> QED
    BY <1>3, <1>10, <2>1, <2>2, <2>3
<1>11. CASE x.op = "prep" /\ res = "ok"
  <2>1. prepq' = [prepq EXCEPT ![h] = @ \cup {<<x.by, x.off>>}] /\ written' = written
    BY <1>1, <1>2, <1>11
  <2>2. prepq' \in [Conns -> SUBSET (Tasks \X Nat)] /\ PeerTypes'
    BY <1>4, <1>5, <2>1 DEF PeerTypes
  <2>3. \A k \in Conns : prepq[k] \subseteq prepq'[k]
    BY <1>5, <2>1
  <2>4. \A t \in Tasks : Stored(t) \subseteq Stored(t)'
    BY <2>1, <2>3, Homes DEF Stored, Prepared
  <2>5. <<x.by, x.off>> \in prepq'[h]
    BY <1>5, <2>1
  <2>6. x.off \in Stored(x.by)'
    BY <1>4, <1>7, <2>2, <2>5 DEF Stored
  <2> QED
    BY <1>3, <1>11, <2>1, <2>2, <2>4, <2>6
<1>12. CASE x.op # "exec" /\ ~(x.op = "prep" /\ res = "ok")
  <2>1. prepq' = prepq
    BY <1>1, <1>2, <1>5, <1>12
  <2>2. CASE x.op = "write" /\ res = "ok"
    <3>1. written' = [written EXCEPT ![x.by] = @ \cup {0}]
      BY <1>1, <1>2, <2>2
    <3>2. PeerTypes' /\ 0 \in written'[x.by] /\ \A t \in Tasks : written[t] \subseteq written'[t]
      BY <1>4, <1>5, <2>1, <3>1 DEF PeerTypes
    <3> QED
      BY <1>12, <2>1, <2>2, <3>2 DEF Stored, Prepared
  <2>3. CASE ~(x.op = "write" /\ res = "ok")
    <3>1. written' = written
      BY <1>1, <1>2, <1>12, <2>3
    <3> QED
      BY <1>3, <1>5, <1>12, <2>1, <2>3, <3>1 DEF PeerTypes, Stored, Prepared
  <2> QED
    BY <2>2, <2>3
<1> QED
  BY <1>9, <1>10, <1>11, <1>12

LEMMA AnswerKeepsWrites ==
  ASSUME Types, Own, Base, CommitsAlone, WData, NEW h \in Conns, Answer(h)
  PROVE  WData'
<1>1. Live(h) /\ UNCHANGED <<link, silent, procs, hostVars, callVars>>
  BY AnswerSteps
<1>2. PICK x \in ReqsOf(h), y \in ReqsOf(h) : Answered(h, x, y)
  BY AnswerSteps
<1>3. /\ x.res = "sent" /\ y.op = x.op /\ y.by = x.by /\ y.off = x.off
      /\ y.res = "ok" \/ <<Kind(x), y.res>> \in PeerErrors
      /\ Home[x.by] = h /\ x.by \in Tasks /\ x.off \in Nat
  BY <1>2 DEF Answered, ReqsOf, Reqs
<1>4. PICK m \in Makers : Fits(m, x)
  BY <1>1, <1>2 DEF Answered, Base, InLine, Orderly, Made
<1>5. x.op # "cancel" /\ WReq(x)
  <2>1. WReq(x)
    BY <1>1, <1>2 DEF Answered, WData, WLine
  <2> QED
    BY <1>4, <2>1 DEF Fits, RequestOf
<1>6. Makers' = Makers
  BY AnswerKeepsBase
<1>7. /\ PeerTypes' /\ \A t \in Tasks : written[t] \subseteq written'[t]
      /\ \A t \in Tasks : \/ Stored(t) \subseteq Stored(t)'
                          \/ Home[t] = h /\ x.op = "exec" /\ y.res # "ok"
      /\ x.op = "exec" /\ y.res = "ok" => Stored(x.by) \subseteq written'[x.by]
      /\ x.op = "prep" /\ y.res = "ok" => x.off \in Stored(x.by)'
      /\ x.op = "write" /\ y.res = "ok" => 0 \in written'[x.by]
  BY <1>2, <1>5, AnswerData DEF WData
<1>8. WReq(y)'
  <2>1. x.op = "exec" /\ y.res = "ok" => 0..(x.off - 1) \subseteq written'[x.by]
    BY <1>3, <1>5, <1>7 DEF WReq
  <2>2. "sent" \notin Errors /\ y.res # "sent"
    BY <1>3, PeerAssumption DEF Errors
  <2> QED
    BY <1>3, <1>7, <2>1, <2>2 DEF WReq
<1>9. ASSUME NEW p \in Makers, p.op = "writeLong", p.by # x.by, x.op = "exec", y.res # "ok"
      PROVE  Home[p.by] # h
  <2>1. <<"exec", y.res>> \in PeerErrors
    BY <1>3, <1>9 DEF Kind
  <2>2. p.by \in Writers
    BY <1>9, MakerWriter
  <2>3. m.op = "writeLong"
    BY <1>4, <1>9 DEF Fits, RequestOf
  <2>4. m.by \in Writers /\ m.by = x.by
    BY <1>4, <2>3, MakerWriter DEF Fits
  <2> QED
    BY <1>3, <1>9, <2>1, <2>2, <2>4 DEF CommitsAlone
<1>10. ASSUME NEW p \in Makers PROVE WProc(p)'
  <2>1. p.by \in Tasks /\ WProc(p)
    BY MakerTypes DEF WData
  <2>2. CASE Stored(p.by) \subseteq Stored(p.by)'
    BY <2>1, <2>2 DEF WProc
  <2>3. CASE ~(Stored(p.by) \subseteq Stored(p.by)')
    <3>1. Home[p.by] = h /\ x.op = "exec" /\ y.res # "ok"
      BY <1>7, <2>1, <2>3
    <3>2. CASE p.by = x.by
      <4>1. p = m
        BY <1>4, <3>2, MakerOnce DEF Fits
      <4>2. ~p.stalled /\ p.off = p.len
        BY <1>4, <3>1, <4>1 DEF Fits, RequestOf
      <4>3. p.off \in Nat /\ p.len \in Nat
        BY MakerTypes, ProcFields
      <4>4. ~(p.off < p.len)
        BY <4>2, <4>3
      <4> QED
        BY <4>2, <4>4 DEF WProc
    <3>3. CASE p.by # x.by
      BY <1>9, <3>1, <3>3 DEF WProc
    <3> QED
      BY <3>2, <3>3
  <2> QED
    BY <2>2, <2>3
<1>11. ASSUME NEW k \in Conns, Live(k)' PROVE WLine(k)'
  <2>1. Live(k)
    BY <1>1, <1>11 DEF Live
  <2>2. PICK q, z : q = Line(k) /\ z = Line(k)'
    OBVIOUS
  <2>3. /\ DOMAIN z = DOMAIN q
        /\ \A n \in DOMAIN q : z[n] = q[n] \/ (k = h /\ q[n] = x /\ z[n] = y)
        /\ Apiece(q) /\ \A n \in DOMAIN q : Made(q[n]) /\ WReq(q[n])
    BY <1>2, <2>1, <2>2 DEF Answered, Base, InLine, Orderly, WData, WLine
  <2>4. ASSUME NEW n \in DOMAIN q PROVE WReq(z[n])'
    <3>1. PICK a, b : a = q[n] /\ b = z[n]
      OBVIOUS
    <3>2. CASE b = y
      BY <1>8, <3>1, <3>2
    <3>3. CASE b # y
      <4>1. b = a /\ WReq(a) /\ Made(a)
        BY <2>3, <3>1, <3>3
      <4>2. PICK p \in Makers : Fits(p, a)
        BY <4>1 DEF Made
      <4>3. a.by \in Tasks /\ p.by = a.by
        BY <4>2, MakerTypes DEF Fits
      <4>4. ASSUME Stored(a.by) \subseteq Stored(a.by)' PROVE WReq(a)'
        BY <1>7, <4>1, <4>3, <4>4 DEF WReq
      <4>5. ASSUME ~(Stored(a.by) \subseteq Stored(a.by)') PROVE WReq(a)'
        <5>1. Home[a.by] = h /\ x.op = "exec" /\ y.res # "ok"
          BY <1>7, <4>3, <4>5
        <5>2. CASE a.by = x.by
          <6>1. p = m
            BY <1>4, <4>3, <5>2, MakerOnce DEF Fits
          <6>2. a.op = x.op
            BY <1>4, <4>2, <6>1 DEF Fits
          <6>3. CASE a.res = "sent"
            <7>1. k = h
              <8>1. Line(k) \in Seq(ReqsOf(k))
                BY LineTypes DEF Base
              <8>2. a \in ReqsOf(k)
                BY <2>2, <3>1, <8>1
              <8> QED
                BY <5>1, <8>2 DEF ReqsOf
            <7>2. PICK j \in DOMAIN q : q[j] = x /\ z[j] = y
              BY <1>2, <2>2, <7>1 DEF Answered
            <7>3. j = n
              BY <2>3, <3>1, <5>2, <4>1, <7>2 DEF Apiece
            <7> QED
              BY <3>1, <3>3, <7>2, <7>3
          <6>4. CASE a.res # "sent"
            BY <1>7, <4>1, <4>3, <5>1, <6>2, <6>4 DEF WReq
          <6> QED
            BY <6>3, <6>4
        <5>3. CASE a.by # x.by
          <6>1. p.op # "writeLong"
            BY <1>9, <4>3, <5>1, <5>3
          <6>2. a.op \notin {"prep", "exec"}
            BY <4>2, <6>1 DEF Fits, RequestOf
          <6> QED
            BY <1>7, <4>1, <4>3, <6>2 DEF WReq
        <5> QED
          BY <5>2, <5>3
      <4>6. WReq(a)'
        BY <4>4, <4>5
      <4> QED
        BY <3>1, <4>1, <4>6
    <3> QED
      BY <3>1, <3>2, <3>3
  <2> QED
    BY <2>2, <2>3, <2>4 DEF WLine
<1>12. ASSUME NEW t \in Tasks PROVE WCall(t)'
  BY <1>1, <1>7 DEF WData, WCall, callVars
<1> QED
  BY <1>6, <1>7, <1>10, <1>11, <1>12 DEF WData

(* The requests that keep what they say where a task loses nothing, and a new one *)
LEMMA LineKeepsWrites ==
  ASSUME Types, Base, UNCHANGED <<prepq, written>>, NEW h \in Conns,
         NEW q \in Seq(ReqsOf(h)), \A n \in DOMAIN q : WReq(q[n]),
         NEW x \in ReqsOf(h), WReq(x), NEW z, z = Line(h)', z = q \/ z = Append(q, x)
  PROVE  WLine(h)'
<1>1. \A n \in DOMAIN z : z[n] = x \/ \E m \in DOMAIN q : z[n] = q[m]
  BY LineGrown
<1>2. ASSUME NEW n \in DOMAIN z PROVE WReq(z[n])'
  <2>1. PICK a : a = z[n]
    OBVIOUS
  <2>2. WReq(a)
    BY <1>1, <2>1
  <2>3. WReq(a)'
    BY <2>2 DEF WReq, Stored, Prepared
  <2> QED
    BY <2>1, <2>3
<1> QED
  BY <1>2 DEF WLine

LEMMA DispatchKeepsWrites ==
  ASSUME Steady, Types, Own, Base, Right, WData, Dispatch
  PROVE  WData'
<1>1. /\ hpc = "dispatch" /\ hpc' # "dispatch" /\ UNCHANGED <<link, silent, prepq, written>>
  BY DispatchSteps
<1>2. PeerTypes' /\ \A t : Stored(t)' = Stored(t) /\ written'[t] = written[t]
  BY <1>1 DEF WData, PeerTypes, Stored, Prepared
<1>3. ASSUME NEW h \in Conns, Live(h)'
      PROVE  \E q \in Seq(ReqsOf(h)) :
               /\ q = IF h = hrsp.conn THEN Tail(Line(h)) ELSE Line(h)
               /\ \A n \in DOMAIN q : WReq(q[n])
  <2>1. Live(h)
    BY <1>1, <1>3 DEF Live
  <2>2. PICK a \in Seq(ReqsOf(h)) : a = Line(h)
    BY LineTypes DEF Base
  <2>3. \A n \in DOMAIN a : WReq(a[n])
    BY <2>1, <2>2 DEF WData, WLine
  <2>4. CASE h = hrsp.conn
    <3>1. a # <<>>
      BY <1>1, <2>2, <2>4, LineInHand DEF Base
    <3>2. PICK q : q = Tail(a)
      OBVIOUS
    <3>3. q \in Seq(ReqsOf(h)) /\ \A n \in DOMAIN q : \E m \in DOMAIN a : q[n] = a[m]
      BY <3>1, <3>2, TailPlaces
    <3> QED
      BY <2>2, <2>3, <2>4, <3>2, <3>3, SMTT(60)
  <2> QED
    BY <2>2, <2>3, <2>4
<1>4. ASSUME UNCHANGED attVars, NEW h \in Conns, Live(h)' PROVE WLine(h)'
  <2>1. PICK q \in Seq(ReqsOf(h)) :
               /\ q = IF h = hrsp.conn THEN Tail(Line(h)) ELSE Line(h)
               /\ \A n \in DOMAIN q : WReq(q[n])
    BY <1>3, <1>4
  <2>2. Line(h)' = q
    BY <1>1, <1>4, <2>1, LineDispatched DEF Base
  <2>3. ASSUME NEW n \in DOMAIN q PROVE WReq(q[n])'
    <3>1. PICK a : a = q[n]
      OBVIOUS
    <3>2. WReq(a)
      BY <2>1, <3>1
    <3>3. WReq(a)'
      BY <1>1, <3>2 DEF WReq, Stored, Prepared
    <3> QED
      BY <3>1, <3>3
  <2> QED
    BY <2>2, <2>3 DEF WLine
<1>5. CASE hpc' = "idle" /\ UNCHANGED <<attVars, procs, callVars>> /\ hproc' = None
  <2>1. \A u \in Tasks : Spared(u) \/ Failed(u)
    BY <1>5 DEF Spared, callVars
  <2>2. Makers' \subseteq Makers
    BY <1>1, <1>5, <2>1, MakersLeft
  <2> QED
    BY <1>2, <1>4, <1>5, <2>2 DEF WData, WProc, WCall, callVars
<1>6. ASSUME NEW i \in DOMAIN procs, Takes(i), procs' = RemoveAt(procs, i),
             Ends(procs[i].by),
             Finishes(procs[i], hrsp.rsp) \/ GoesOn(procs[i], hrsp.rsp)
      PROVE  WData'
  <2>1. PICK p : p = procs[i]
    OBVIOUS
  <2>2. PICK r : r = hrsp.rsp
    OBVIOUS
  <2>3. /\ Fits(p, r) /\ p \in Makers /\ p \in GoodProcs /\ p.by \in Tasks /\ GoodProc(p)
        /\ call[p.by].pc = "wait" /\ ~bit[p.by] /\ WProc(p) /\ p.off \in Nat /\ p.len \in Nat
        /\ Home[p.by] = hrsp.conn
    BY <1>6, <2>1, <2>2, RightFits, ProcFields DEF Owned, Awaited, WData
  <2>4. /\ \A m \in Makers' : (m \in Makers /\ m.by # p.by) \/ (hpc' = "insert" /\ m = hproc')
    BY <1>1, <1>6, <2>1, MakersTaken
  <2>5. \A u \in Tasks \ {p.by} : Spared(u)
    BY <1>6, <2>1 DEF Ends, Spared
  <2>6. ASSUME NEW m \in Makers PROVE WProc(m)'
    BY <1>2 DEF WData, WProc
  <2>7. ASSUME NEW u \in Tasks \ {p.by} PROVE WCall(u)'
    BY <1>2, <2>5, <2>7 DEF WData, WCall, Spared
  <2>8. WReq(r)
    <3>1. PICK c \in Conns : c = hrsp.conn
      BY <2>3, Homes
    <3>2. Live(c) /\ Line(c) # <<>> /\ Line(c)[1] = r /\ Line(c) \in Seq(ReqsOf(c))
      BY <1>1, <2>2, <3>1, LineInHand, LineTypes DEF Base, HandUp
    <3>3. 1 \in DOMAIN Line(c)
      BY <3>2
    <3> QED
      BY <3>2, <3>3 DEF WData, WLine
  <2>9. CASE Finishes(p, r)
    <3>1. hpc' # "insert" /\ UNCHANGED attVars
      BY <2>9 DEF Finishes
    <3>2. WCall(p.by)'
      <4>1. CASE r.res \in Errors /\ Told(p.by, call[p.by].value, r.res)
        BY <4>1 DEF WCall, Told, Errors
      <4>2. CASE Told(p.by, call[p.by].value, "invalid")
        BY <4>2, SMTT(60) DEF WCall, Told
      <4>3. CASE p.op = "readLong" /\ Told(p.by, Append(call[p.by].value, <<p.by, p.off>>), "done")
        BY <2>3, <4>3 DEF WCall, Told, GoodProc
      <4>4. CASE /\ r.res = "ok" /\ (p.op = "write" \/ (p.op = "writeLong" /\ p.off = p.len))
                 /\ Told(p.by, call[p.by].value, "ok")
        <5>1. CASE p.op = "write"
          <6>1. r.op = "write" /\ r.by = p.by /\ call[p.by].len = 1
            BY <2>3, <5>1 DEF Fits, RequestOf, GoodProc
          <6>2. 0 \in written[p.by]
            BY <2>8, <4>4, <6>1 DEF WReq
          <6>3. call'[p.by].len = 1 /\ 0..(1 - 1) = {0}
            BY <4>4, <6>1 DEF Told
          <6> QED
            BY <1>2, <6>2, <6>3 DEF WCall
        <5>2. CASE p.op = "writeLong" /\ p.off = p.len
          <6>1. r.op = "exec" /\ r.by = p.by /\ r.off = p.len /\ call[p.by].len = p.len
            BY <2>3, <5>2 DEF Fits, RequestOf, GoodProc
          <6>2. 0..(p.len - 1) \subseteq written[p.by]
            BY <2>8, <4>4, <6>1 DEF WReq
          <6>3. call'[p.by].len = p.len
            BY <4>4, <6>1 DEF Told
          <6> QED
            BY <1>2, <6>2, <6>3 DEF WCall
        <5> QED
          BY <4>4, <5>1, <5>2
      <4> QED
        BY <2>9, <4>1, <4>2, <4>3, <4>4 DEF Finishes
    <3> QED
      BY <1>2, <1>4, <2>4, <2>6, <2>7, <3>1, <3>2 DEF WData
  <2>10. CASE GoesOn(p, r)
    <3>1. PICK a \in GoodProcs : a = Advanced(p) /\ Resumes(a)
      BY <2>10 DEF GoesOn
    <3>2. a.by = p.by /\ a.op = p.op /\ a.off = p.off + 1
          /\ (p.op # "readLong" => p.op = "writeLong" /\ p.off < p.len /\ r.res = "ok")
      <4>1. p.op = "readLong" \/ (p.op = "writeLong" /\ p.off < p.len /\ r.res = "ok")
        BY <2>10 DEF GoesOn
      <4> QED
        BY <2>3, <3>1, <4>1, AdvancedFields
    <3>3. a.op = "writeLong" => 0..(a.off - 1) \subseteq Stored(a.by)
      <4> SUFFICES ASSUME a.op = "writeLong" PROVE 0..(a.off - 1) \subseteq Stored(a.by)
        OBVIOUS
      <4>1. p.op = "writeLong" /\ p.off < p.len /\ r.res = "ok"
        BY <3>2
      <4>2. ~(p.off = p.len)
        BY <2>3, <4>1
      <4>3. r.op = "prep" /\ r.by = p.by /\ r.off = p.off
        BY <2>3, <4>1, <4>2 DEF Fits, RequestOf
      <4>4. p.off \in Stored(p.by)
        BY <2>8, <4>1, <4>3 DEF WReq
      <4>5. 0..(p.off - 1) \subseteq Stored(p.by)
        BY <2>3, <4>1 DEF WProc
      <4>6. a.off - 1 = p.off
        BY <2>3, <3>2
      <4>7. 0..p.off \subseteq (0..(p.off - 1)) \cup {p.off}
        BY <2>3
      <4> QED
        BY <3>2, <4>4, <4>5, <4>6, <4>7
    <3>4. PICK b \in BOOLEAN : hproc' = [a EXCEPT !.stalled = b]
      BY <3>1 DEF Resumes
    <3>5. PICK d : d = [a EXCEPT !.stalled = b]
      OBVIOUS
    <3>6. d.by = a.by /\ d.op = a.op /\ d.off = a.off
      BY <3>1, <3>5 DEF GoodProcs, Procs
    <3>7. WProc(d)'
      BY <1>2, <3>3, <3>6 DEF WProc
    <3>8. WCall(p.by)'
      <4>1. call'[p.by].pc = "wait" /\ ~bit'[p.by]
        BY <2>3, <2>10 DEF GoesOn, Fed, callVars
      <4> QED
        BY <4>1, SMTT(60) DEF WCall
    <3>9. PICK x : x = Request(RequestOf(a), a.by, a.off)
      OBVIOUS
    <3>10. WReq(x)
      <4>1. x.op = RequestOf(a) /\ x.by = a.by /\ x.off = a.off /\ x.res = "sent"
        BY <3>9 DEF Request
      <4>2. x.op = "exec" => a.op = "writeLong"
        BY <4>1 DEF RequestOf
      <4> QED
        BY <3>3, <4>1, <4>2 DEF WReq
    <3>11. ASSUME NEW h \in Conns, Live(h)' PROVE WLine(h)'
      <4>1. PICK q \in Seq(ReqsOf(h)) :
               /\ q = IF h = hrsp.conn THEN Tail(Line(h)) ELSE Line(h)
               /\ \A n \in DOMAIN q : WReq(q[n])
        BY <1>3, <3>11
      <4>2. GoesOn(p, hrsp.rsp)
        BY <2>2, <2>10
      <4>3. \/ Line(h)' = IF h = hrsp.conn THEN Tail(Line(h)) ELSE Line(h)
            \/ /\ Request(RequestOf(Advanced(p)), p.by, Advanced(p).off) \in ReqsOf(hrsp.conn)
               /\ Line(h)' = IF h = hrsp.conn
                             THEN Append(Tail(Line(h)), Request(RequestOf(Advanced(p)), p.by, Advanced(p).off))
                             ELSE Line(h)
        BY <2>3, <4>2, DispatchLines
      <4>4. Line(h)' = q \/ (h = hrsp.conn /\ x \in ReqsOf(h) /\ Line(h)' = Append(q, x))
        BY <3>1, <3>2, <3>9, <4>1, <4>3
      <4>5. CASE Line(h)' = q
        <5>1. ASSUME NEW n \in DOMAIN q PROVE WReq(q[n])'
          <6>1. PICK e : e = q[n]
            OBVIOUS
          <6>2. WReq(e)
            BY <4>1, <6>1
          <6>3. WReq(e)'
            BY <1>1, <6>2 DEF WReq, Stored, Prepared
          <6> QED
            BY <6>1, <6>3
        <5> QED
          BY <4>5, <5>1 DEF WLine
      <4>6. CASE x \in ReqsOf(h) /\ Line(h)' = Append(q, x)
        <5>1. PICK z : z = Append(q, x)
          OBVIOUS
        <5>2. z = Line(h)'
          BY <4>6, <5>1
        <5>3. UNCHANGED <<prepq, written>> /\ \A n \in DOMAIN q : WReq(q[n])
          BY <1>1, <4>1
        <5> QED
          BY <3>10, <4>6, <5>1, <5>2, <5>3, LineKeepsWrites
      <4> QED
        BY <4>4, <4>5, <4>6
    <3> QED
      BY <1>2, <2>4, <2>6, <2>7, <3>4, <3>5, <3>7, <3>8, <3>11 DEF WData
  <2> QED
    BY <1>6, <2>1, <2>2, <2>9, <2>10
<1> QED
  BY <1>5, <1>6, DispatchSteps

LEMMA StepKeepsWrites ==
  ASSUME Steady, CommitsAlone, Types, Own, Base, Right, WData, [Next]_vars
  PROVE  WData'
<1>1. CASE HostNext /\ ~Dispatch
  <2>1. /\ written' = written
        /\ \A h \in Conns : prepq'[h] = prepq[h] \/ link[h] = "down"
        /\ \A u \in Tasks : Spared(u) \/ Failed(u)
        /\ \A m \in Makers' : \E k \in Makers : Later(m, k)
        /\ OldLines \/ ResumeStalled
    BY <1>1, HostSteps
  <2>2. ASSUME NEW t \in Tasks PROVE Stored(t)' = Stored(t) \/ link[Home[t]] = "down"
    BY <2>1, Homes DEF Stored, Prepared
  <2>3. PeerTypes'
    <3>1. prepq' \in [Conns -> SUBSET (Tasks \X Nat)]
      <4>1. prepq' = prepq \/ \E h \in Conns : prepq' = [prepq EXCEPT ![h] = {}]
        BY <1>1 DEF HostNext, Receive, Break, Connect, Reinsert, CallbackAgain, Expire, ResumeStalled,
                    Delete, peerVars
      <4>2. prepq \in [Conns -> SUBSET (Tasks \X Nat)]
        BY DEF WData, PeerTypes
      <4> QED
        BY <4>1, <4>2
    <3> QED
      BY <2>1, <3>1 DEF WData, PeerTypes
  <2>4. ASSUME NEW m \in Makers' PROVE WProc(m)'
    <3>1. PICK k \in Makers : Later(m, k)
      BY <2>1, <2>4
    <3>2. /\ m.by = k.by /\ m.op = k.op /\ m.off = k.off /\ m.len = k.len
          /\ k.by \in Tasks /\ GoodProc(k) /\ WProc(k)
      BY <3>1, MakerTypes DEF Later, Alike, Base, MakersGood, WData
    <3>3. m = k \/ k.stalled
      BY <3>1 DEF Later
    <3>4. m.op = "writeLong" /\ (m.stalled \/ m.off < m.len) => 0..(m.off - 1) \subseteq Stored(m.by)
      BY <3>2, <3>3 DEF WProc
    <3>5. CASE Stored(k.by)' = Stored(k.by)
      BY <3>2, <3>4, <3>5 DEF WProc
    <3>6. CASE link[Home[k.by]] = "down"
      <4>1. m.off = 0
        BY <3>2, <3>6 DEF GoodProc
      <4>2. 0..(m.off - 1) = {}
        BY <4>1
      <4> QED
        BY <4>2 DEF WProc
    <3> QED
      BY <2>2, <3>2, <3>5, <3>6
  <2>5. ASSUME NEW h \in Conns, Live(h), NEW x \in ReqsOf(h), WReq(x) PROVE WReq(x)'
    <3>1. x.by \in Tasks /\ Home[x.by] = h /\ link[h] = "up"
      BY <2>5 DEF ReqsOf, Reqs, Live
    <3>2. Stored(x.by)' = Stored(x.by)
      BY <2>2, <3>1
    <3> QED
      BY <2>1, <2>5, <3>2 DEF WReq
  <2>6. ASSUME NEW h \in Conns, Live(h)
        PROVE  \E q \in Seq(ReqsOf(h)) : q = Line(h) /\ \A n \in DOMAIN q : WReq(q[n])'
    <3>1. PICK q \in Seq(ReqsOf(h)) : q = Line(h)
      BY LineTypes DEF Base
    <3>2. ASSUME NEW n \in DOMAIN q PROVE WReq(q[n])'
      <4>1. PICK a \in ReqsOf(h) : a = q[n]
        OBVIOUS
      <4>2. WReq(a)
        BY <2>6, <3>1, <4>1 DEF WData, WLine
      <4> QED
        BY <2>5, <2>6, <4>1, <4>2
    <3> QED
      BY <3>1, <3>2
  <2>7. ASSUME OldLines, NEW h \in Conns, Live(h)' PROVE WLine(h)'
    <3>1. CASE Line(h)' = <<>>
      <4>1. PICK q : q = <<>> /\ Line(h)' = q /\ DOMAIN q = {}
        BY <3>1
      <4> QED
        BY <4>1 DEF WLine
    <3>2. CASE Live(h) /\ Line(h)' = Line(h)
      <4>1. PICK q \in Seq(ReqsOf(h)) : q = Line(h) /\ \A n \in DOMAIN q : WReq(q[n])'
        BY <2>6, <3>2
      <4> QED
        BY <3>2, <4>1 DEF WLine
    <3> QED
      BY <2>7, <3>1, <3>2 DEF OldLines
  <2>8. ASSUME ResumeStalled, NEW h \in Conns, Live(h)' PROVE WLine(h)'
    <3>1. Live(h)
      BY <2>8, ResumeLines
    <3>2. PICK q \in Seq(ReqsOf(h)) : q = Line(h) /\ \A n \in DOMAIN q : WReq(q[n])'
      BY <2>6, <3>1
    <3>3. CASE Line(h)' = Line(h)
      BY <3>2, <3>3 DEF WLine
    <3>4. ASSUME NEW p \in Makers, p.stalled, NEW x \in ReqsOf(h), x = Request(RequestOf(p), p.by, p.off),
                 Line(h)' = Append(Line(h), x)
          PROVE  WLine(h)'
      <4>1. x.op = RequestOf(p) /\ x.by = p.by /\ x.off = p.off /\ x.res = "sent"
        BY <3>4 DEF Request
      <4>2. WProc(p)
        BY DEF WData
      <4>3. x.op = "exec" => 0..(x.off - 1) \subseteq Stored(x.by)
        <5> SUFFICES ASSUME x.op = "exec" PROVE 0..(x.off - 1) \subseteq Stored(x.by)
          OBVIOUS
        <5>1. p.op = "writeLong"
          BY <4>1 DEF RequestOf
        <5> QED
          BY <3>4, <4>1, <4>2, <5>1 DEF WProc
      <4>4. WReq(x)
        BY <4>1, <4>3 DEF WReq
      <4>5. WReq(x)'
        BY <2>5, <3>1, <4>4
      <4>6. PICK z : z = Append(q, x)
        OBVIOUS
      <4>7. \A n \in DOMAIN z : z[n] = x \/ \E m \in DOMAIN q : z[n] = q[m]
        BY <4>6, LineGrown
      <4>8. ASSUME NEW n \in DOMAIN z PROVE WReq(z[n])'
        <5>1. PICK a : a = z[n]
          OBVIOUS
        <5>2. WReq(a)'
          BY <3>2, <4>5, <4>7, <5>1
        <5> QED
          BY <5>1, <5>2
      <4> QED
        BY <3>2, <3>4, <4>6, <4>8 DEF WLine
    <3> QED
      BY <2>8, <3>3, <3>4, ResumeLines
  <2>9. ASSUME NEW t \in Tasks PROVE WCall(t)'
    BY <2>1 DEF WData, WCall, Spared, Failed
  <2> QED
    BY <2>1, <2>3, <2>4, <2>7, <2>8, <2>9 DEF WData
<1>2. CASE UNCHANGED vars
  <2>1. Makers' = Makers
    BY <1>2, MakersSame DEF vars, hostVars, callVars
  <2>2. \A h \in Conns : Line(h)' = Line(h) /\ (Live(h)' <=> Live(h))
    BY <1>2 DEF vars, attVars, hostVars, peerVars, Line, Hand, Rest, Live
  <2>3. \A h \in Conns : WLine(h)' <=> WLine(h)
    BY <1>2, <2>2 DEF vars, peerVars, WLine, WReq, Stored, Prepared
  <2> QED
    BY <1>2, <2>1, <2>2, <2>3 DEF vars, callVars, peerVars, WData, PeerTypes, WProc, WCall, Stored, Prepared
<1>3. ASSUME NEW h \in Conns, Answer(h) PROVE WData'
  BY <1>3, AnswerKeepsWrites
<1> QED
  BY <1>1, <1>2, <1>3, AppKeepsWrites, DispatchKeepsWrites DEF Next

LEMMA WritesInit == ASSUME Init PROVE WData
<1>1. PeerTypes
  BY DEF PeerTypes, Init
<1>2. \A t \in Tasks : WCall(t)
  BY DEF WCall, Init, NoCall
<1>3. ASSUME NEW h \in Conns PROVE WLine(h)
  <2>1. PICK q : q = Line(h) /\ DOMAIN q = {}
    BY BaseInit
  <2> QED
    BY <2>1 DEF WLine
<1> QED
  BY <1>1, <1>2, <1>3, BaseInit DEF WData

-----------------------------------------------------------------------------
(* Whether a waiting call has a procedure *)

(* Without preemption one task at most is between its send and its insertion,*)
(* and without want of buffers no procedure is left stalled.                 *)
Alone ==
  /\ \A t, u \in Inside : t = u
  /\ Inside # {} => hpc = "idle"
Linked ==
  /\ \A m \in Makers : link[Home[m.by]] = "up" /\ ~m.stalled
  /\ \A h \in Conns : link[h] = "broken" => hpc = "teardown" /\ hrsp.conn = h
Waiting(t) == call[t].pc = "wait" => bit[t] \/ \E m \in Makers : m.by = t
Calm == Alone /\ Linked /\ \A t \in Tasks : Waiting(t)

LEMMA InsideIs == \A t : t \in Inside <=> t \in Tasks /\ call[t].pc \in {"insert", "insertShort"}
BY DEF Inside, Inserting

LEMMA AppRuns ==
  ASSUME ~Preempt, NEW t \in Tasks, AppNext(t)
  PROVE  hpc = "idle" /\ Inside \subseteq {t}
<1>1. AppMayRun(t)
  BY DEF AppNext, readValue, writeValue, MayCall, Send, Insert, Wake, Secure, Return
<1> QED
  BY <1>1, SMTT(60) DEF AppMayRun

LEMMA HostRuns ==
  ASSUME ~Preempt, HostNext
  PROVE  Inside = {}
<1>1. HostMayRun
  BY DEF HostNext, Receive, Break, Connect, Dispatch, Reinsert, CallbackAgain, Expire, ResumeStalled, Delete
<1> QED
  BY <1>1 DEF HostMayRun

LEMMA SendLinked ==
  ASSUME Types, NEW t \in Tasks, AppNext(t), Sends(t)
  PROVE  link[Home[t]] # "down"
<1>0. call[t].pc = "send" /\ call'[t].pc = "insert" /\ call \in [Tasks -> GoodCalls]
  BY DEF Sends, Types, CallTypes
<1>1. Send(t)
  BY <1>0 DEF AppNext, readValue, writeValue, MayCall, Insert, Wake, Secure, Return, Inserting
<1>2. PICK c \in Calls : c = call[t]
  BY <1>0 DEF GoodCalls
<1>3. \A rc : [c EXCEPT !.pc = "done", !.rc = rc].pc = "done"
  BY DEF Calls
<1>4. \A rc : ~Finish(t, rc)
  <2> SUFFICES ASSUME NEW rc, Finish(t, rc) PROVE FALSE
    OBVIOUS
  <2>1. call' = [call EXCEPT ![t] = [c EXCEPT !.pc = "done", !.rc = rc]]
    BY <1>0, <1>2 DEF Finish
  <2>2. call'[t] = [c EXCEPT !.pc = "done", !.rc = rc]
    BY <1>0, <2>1
  <2> QED
    BY <1>0, <1>3, <2>2
<1> QED
  BY <1>1, <1>4 DEF Send

LEMMA AppKeepsCalm ==
  ASSUME ~Preempt, Types, Own, Base, Calm, NEW t \in Tasks, AppNext(t)
  PROVE  Calm'
<1>0. /\ UNCHANGED <<link, silent, hpc, hrsp>> /\ \A u \in Tasks \ {t} : call'[u] = call[u]
      /\ Starts(t) \/ Sends(t) \/ Fails(t) \/ Inserts(t) \/ Wakes(t) \/ Secures(t) \/ Returns(t)
  BY AppSteps
<1>1. hpc = "idle" /\ Inside \subseteq {t}
  BY AppRuns
<1>2. \A u : u \in Inside' => u = t
  <2>1. \A u : u \in Inside' <=> u \in Tasks /\ call'[u].pc \in {"insert", "insertShort"}
    BY DEF Inside, Inserting
  <2> QED
    BY <1>0, <1>1, <2>1, InsideIs
<1>3. Alone'
  BY <1>0, <1>1, <1>2 DEF Alone
<1>4. \A h \in Conns : link[h] # "broken"
  BY <1>1 DEF Calm, Linked
<1>5. CASE Sends(t)
  <2>1. Makers' = Makers \cup {NewProc(t)}
    BY <1>5, SendMakers
  <2>2. PICK p : p = NewProc(t) /\ p.by = t /\ ~p.stalled
    BY NewProcTypes
  <2>3. link[Home[t]] = "up"
    BY <1>4, <1>5, SendLinked, Homes DEF Types, LinkTypes
  <2>4. Linked'
    BY <1>0, <1>4, <2>1, <2>2, <2>3 DEF Calm, Linked
  <2>5. ASSUME NEW u \in Tasks PROVE Waiting(u)'
    <3>1. CASE u = t
      BY <1>5, <3>1 DEF Sends, Waiting
    <3>2. CASE u # t
      <4>1. bit'[u] = bit[u] /\ call'[u] = call[u] /\ Makers \subseteq Makers'
        BY <1>0, <1>5, <2>1, <3>2 DEF Sends
      <4> QED
        BY <4>1 DEF Calm, Waiting
    <3> QED
      BY <3>1, <3>2
  <2> QED
    BY <1>3, <2>4, <2>5 DEF Calm
<1>6. CASE ~Sends(t)
  <2>1. Makers' = Makers
    BY <1>6, AppMakers
  <2>2. Linked'
    BY <1>0, <1>4, <2>1 DEF Calm, Linked
  <2>3. ASSUME NEW u \in Tasks PROVE Waiting(u)'
    <3>1. CASE u = t
      <4>1. CASE Inserts(t)
        <5>1. PICK p : p = NewProc(t) /\ p.by = t
          BY NewProcTypes
        <5>2. p \in Makers
          BY <4>1, <5>1, MakerCases DEF Inserts
        <5> QED
          BY <2>1, <3>1, <5>1, <5>2 DEF Waiting
      <4>2. CASE ~Inserts(t)
        BY <1>0, <1>6, <3>1, <4>2 DEF Starts, Fails, Wakes, Secures, Returns, NoCall, Waiting
      <4> QED
        BY <4>1, <4>2
    <3>2. CASE u # t
      <4>1. bit'[u] = bit[u] /\ call'[u] = call[u]
        BY <1>0, <1>6, <3>2 DEF Starts, Fails, Inserts, Wakes, Secures, Returns
      <4> QED
        BY <2>1, <4>1 DEF Calm, Waiting
    <3> QED
      BY <3>1, <3>2
  <2> QED
    BY <1>3, <2>2, <2>3 DEF Calm
<1> QED
  BY <1>5, <1>6

LEMMA NoneStalled ==
  ASSUME Types, Own, Base, Calm
  PROVE  ~ResumeStalled
BY ResumeStalledSteps DEF Calm, Linked

LEMMA HostKeepsCalm ==
  ASSUME Steady, ~Preempt, Types, Own, Base, Calm, HostNext, ~Dispatch
  PROVE  Calm'
<1>0. /\ Inside = {} /\ ~ResumeStalled /\ \A u \in Tasks : Spared(u) \/ Failed(u)
  BY HostRuns, HostSteps, NoneStalled
<1>1. Alone'
  <2>1. \A u \in Tasks : call'[u].pc = call[u].pc
    BY <1>0 DEF Spared, Failed
  <2>2. \A u : u \notin Inside'
    BY <1>0, <2>1, InsideIs DEF Inside, Inserting
  <2> QED
    BY <2>2 DEF Alone
<1>2. /\ link \in [Conns -> {"up", "broken", "down"}]
      /\ \A m \in Makers : link[Home[m.by]] = "up" /\ ~m.stalled /\ Home[m.by] \in Conns
      /\ \A h \in Conns : link[h] = "broken" => hpc = "teardown" /\ hrsp.conn = h
  BY MakerTypes, Homes DEF Types, LinkTypes, Calm, Linked
<1>3. ASSUME Makers' \subseteq Makers, \A m \in Makers : m \in Makers' \/ bit'[m.by], Linked'
      PROVE  Calm'
  <2>1. ASSUME NEW u \in Tasks PROVE Waiting(u)'
    BY <1>0, <1>3 DEF Calm, Waiting, Spared, Failed
  <2> QED
    BY <1>1, <1>3, <2>1 DEF Calm
<1>4. ASSUME NEW h \in Conns, Receive(h) PROVE Calm'
  <2>1. Makers' = Makers
    BY <1>4, ReceiveKeepsBase
  <2>2. hpc = "idle" /\ link' = link
    BY <1>4 DEF Receive
  <2> QED
    BY <1>2, <1>3, <2>1, <2>2 DEF Linked
<1>5. ASSUME NEW h \in Conns, Break(h) PROVE Calm'
  <2>1. /\ Makers' \subseteq Makers /\ hpc = "idle" /\ hpc' = "teardown"
        /\ link' = [link EXCEPT ![h] = "broken"] /\ hrsp'.conn = h
        /\ \A i \in DOMAIN procs : Home[procs[i].by] = h => bit'[procs[i].by]
        /\ \A m \in Makers : Home[m.by] # h => m \in Makers'
        /\ \A m \in Makers' : Home[m.by] = h => call[m.by].pc = "insert"
    BY <1>5, BreakKeepsBase
  <2>2. \A m \in Makers : call[m.by].pc # "insert"
    BY <1>0, InsideIs, MakerTypes
  <2>3. \A m \in Makers : \E i \in DOMAIN procs : m = procs[i]
    BY <2>1, <2>2, MakerCases, NewProcTypes
  <2>4. \A m \in Makers : m \in Makers' \/ bit'[m.by]
    BY <2>1, <2>3
  <2>5. Linked'
    BY <1>2, <2>1, <2>2 DEF Linked
  <2> QED
    BY <1>3, <2>1, <2>4, <2>5
<1>6. ASSUME NEW h \in Conns, Connect(h) PROVE Calm'
  <2>1. Makers' = Makers
    BY <1>6, ConnectKeepsBase
  <2>2. hpc = "idle" /\ link' = [link EXCEPT ![h] = "up"]
    BY <1>6 DEF Connect
  <2> QED
    BY <1>2, <1>3, <2>1, <2>2 DEF Linked
<1>7. CASE Delete
  <2>1. Makers' = Makers
    BY <1>7, DeleteKeepsBase
  <2>2. hpc = "teardown" /\ link' = [link EXCEPT ![hrsp.conn] = "down"]
    BY <1>7 DEF Delete
  <2>3. link[hrsp.conn] # "up"
    BY <2>2 DEF Base, HandUp
  <2> QED
    BY <1>2, <1>3, <2>1, <2>2, <2>3 DEF Linked
<1>8. CASE Reinsert \/ CallbackAgain
  <2>1. Makers' = Makers
    BY <1>8, ReinsertKeepsBase, AgainKeepsBase
  <2>2. hpc # "teardown" /\ link' = link
    BY <1>8 DEF Reinsert, CallbackAgain
  <2> QED
    BY <1>2, <1>3, <2>1, <2>2 DEF Linked
<1>9. CASE Expire
  <2>1. Makers' \subseteq Makers /\ hpc = "idle" /\ link' = link
    BY <1>9, ExpireKeepsBase DEF Steady
  <2>2. PICK i \in DOMAIN procs :
          Callback(procs[i], "timeout") /\ \A m \in Makers : m.by # procs[i].by => m \in Makers'
    BY <1>9, ExpireKeepsBase DEF Steady
  <2>3. PICK p \in GoodProcs : p = procs[i]
    BY DEF Types, ProcTypes
  <2>4. p \in Makers /\ p.live
    BY <2>3, MakerCases, MakerTypes
  <2>5. bit'[p.by]
    <3>1. Told(p.by, call[p.by].value, "timeout")
      BY <1>2, <2>2, <2>3, <2>4, CallbackTold DEF Types
    <3> QED
      BY <3>1 DEF Told
  <2>6. \A m \in Makers : m \in Makers' \/ bit'[m.by]
    BY <2>2, <2>3, <2>5
  <2>7. Linked'
    BY <1>2, <2>1 DEF Linked
  <2> QED
    BY <1>3, <2>1, <2>6, <2>7
<1> QED
  BY <1>0, <1>4, <1>5, <1>6, <1>7, <1>8, <1>9 DEF HostNext

LEMMA DispatchKeepsCalm ==
  ASSUME Steady, ~Preempt, ~NoMem, Types, Own, Base, Right, Calm, Dispatch
  PROVE  Calm'
<1>1. hpc = "dispatch" /\ hpc' # "dispatch" /\ link' = link
  BY DispatchSteps
<1>2. Inside = {}
  BY HostRuns DEF HostNext
<1>3. /\ \A m \in Makers : link[Home[m.by]] = "up" /\ ~m.stalled
      /\ \A h \in Conns : link[h] # "broken"
  BY <1>1 DEF Calm, Linked
<1>4. ASSUME \A u \in Tasks : call'[u].pc = call[u].pc PROVE Alone'
  <2>1. \A u : u \notin Inside'
    BY <1>2, <1>4, InsideIs DEF Inside, Inserting
  <2> QED
    BY <2>1 DEF Alone
<1>5. CASE hpc' = "idle" /\ UNCHANGED <<attVars, procs, callVars>> /\ hproc' = None
  <2>1. \A u \in Tasks : Spared(u) \/ Failed(u)
    BY <1>5 DEF Spared, callVars
  <2>2. Makers' \subseteq Makers /\ \A m \in Makers : m \in Makers'
    BY <1>1, <1>5, <2>1, MakersLeft
  <2>3. Alone' /\ Linked'
    BY <1>1, <1>3, <1>4, <1>5, <2>2 DEF Linked, callVars
  <2> QED
    BY <1>5, <2>2, <2>3 DEF Calm, Waiting, callVars
<1>6. ASSUME NEW i \in DOMAIN procs, Takes(i), procs' = RemoveAt(procs, i),
             Ends(procs[i].by),
             Finishes(procs[i], hrsp.rsp) \/ GoesOn(procs[i], hrsp.rsp)
      PROVE  Calm'
  <2>1. PICK p : p = procs[i]
    OBVIOUS
  <2>2. PICK r : r = hrsp.rsp
    OBVIOUS
  <2>3. p \in Makers /\ p \in GoodProcs /\ p.by \in Tasks /\ link[Home[p.by]] = "up" /\ GoodProc(p)
    BY <1>6, <2>1, RightFits, ProcFields
  <2>4. /\ \A m \in Makers' : (m \in Makers /\ m.by # p.by) \/ (hpc' = "insert" /\ m = hproc')
        /\ \A m \in Makers : m.by # p.by => m \in Makers'
        /\ hpc' = "insert" => hproc' \in Makers'
    BY <1>1, <1>6, <2>1, MakersTaken
  <2>5. Alone'
    BY <1>4, <1>6, <2>1 DEF Ends
  <2>6. ASSUME NEW u \in Tasks \ {p.by} PROVE Waiting(u)'
    BY <1>6, <2>1, <2>4 DEF Ends, Calm, Waiting
  <2>7. CASE Finishes(p, r)
    <3>1. hpc' # "insert" /\ bit'[p.by]
      BY <2>7 DEF Finishes, Told
    <3>2. Linked'
      BY <1>1, <1>3, <2>4, <3>1 DEF Linked
    <3> QED
      BY <2>5, <2>6, <3>1, <3>2, SMTT(60) DEF Calm, Waiting
  <2>8. CASE GoesOn(p, r)
    <3>1. PICK a \in GoodProcs : a = Advanced(p) /\ Resumes(a) /\ a.by = p.by
      BY <2>3, <2>8, AdvancedGood
    <3>2. PICK b \in BOOLEAN : hproc' = [a EXCEPT !.stalled = b] /\ (b => NoMem) /\ hpc' = "insert"
      BY <3>1 DEF Resumes
    <3>3. PICK d : d = [a EXCEPT !.stalled = b]
      OBVIOUS
    <3>4. d.by = p.by /\ ~d.stalled /\ d = hproc'
      BY <3>1, <3>2, <3>3 DEF GoodProcs, Procs
    <3>5. Linked'
      BY <1>1, <1>3, <2>3, <2>4, <3>4 DEF Linked
    <3>6. Waiting(p.by)'
      BY <2>4, <3>2, <3>4 DEF Waiting
    <3> QED
      BY <2>5, <2>6, <3>5, <3>6 DEF Calm
  <2> QED
    BY <1>6, <2>1, <2>2, <2>7, <2>8
<1> QED
  BY <1>5, <1>6, DispatchSteps

LEMMA StepKeepsCalm ==
  ASSUME Steady, ~Preempt, ~NoMem, Types, Own, Base, Right, Calm, [Next]_vars
  PROVE  Calm'
<1>1. ASSUME UNCHANGED <<link, hpc, hrsp, callVars>>, Makers' = Makers PROVE Calm'
  <2>1. Alone' /\ Linked'
    BY <1>1 DEF Calm, Alone, Linked, Inside, callVars
  <2> QED
    BY <1>1, <2>1 DEF Calm, Waiting, callVars
<1>2. CASE UNCHANGED vars
  BY <1>1, <1>2, MakersSame DEF vars, hostVars, callVars
<1>3. ASSUME NEW h \in Conns, Answer(h) PROVE Calm'
  BY <1>1, <1>3, AnswerKeepsBase DEF Answer, hostVars
<1> QED
  BY <1>2, <1>3, AppKeepsCalm, HostKeepsCalm, DispatchKeepsCalm DEF Next

LEMMA CalmInit == ASSUME Init PROVE Calm
<1>1. \A t : t \notin Inside
  BY InsideIs DEF Init, NoCall
<1> QED
  BY <1>1, BaseInit DEF Calm, Alone, Linked, Waiting, Init, NoCall

-----------------------------------------------------------------------------
(* One connection, and tasks that run in turn *)

(* All tasks use one connection, none runs inside the host's handlers, and   *)
(* there are buffers.                                                        *)
InTurn == ~Preempt /\ ~NoMem /\ \A h, k \in Conns : h = k
(* Then the procedures of the list are those of the requests, in their order.*)
Pending == IF hpc = "insert" \/ Inside # {} THEN 1 ELSE 0
Even(h) ==
  /\ DOMAIN Line(h) = 1..(Len(procs) + Pending)
  /\ \A n \in DOMAIN procs : procs[n].by = Line(h)[n].by
InStep == \A h \in Conns : Live(h) => Even(h)

LEMMA FitsMatches ==
  ASSUME NEW p, NEW r, Fits(p, r), p.op # "read", Home[p.by] = Home[r.by],
         p.op \in {"readLong", "write", "writeLong"}
  PROVE  Matches(p, r, Home[r.by])
<1>1. CASE r.res \in Errors
  BY <1>1 DEF Matches
<1>2. CASE r.res \notin Errors
  <2>1. CASE p.op = "readLong"
    BY <1>2, <2>1 DEF Matches, Fits, RequestOf
  <2>2. CASE p.op = "write"
    BY <1>2, <2>2 DEF Matches, Fits, RequestOf
  <2>3. CASE p.op = "writeLong"
    BY <1>2, <2>3 DEF Matches, Fits, RequestOf
  <2> QED
    BY <2>1, <2>2, <2>3
<1> QED
  BY <1>1, <1>2

(* The answer in the host's hand is for the first procedure of the list. *)
LEMMA FirstTakes ==
  ASSUME Types, Own, Base, Alone, InStep, hpc = "dispatch"
  PROVE  /\ Takes(1) /\ procs[1].by = hrsp.rsp.by /\ Pending = 0
         /\ \A i : Takes(i) => i = 1
<1>1. PICK c \in Conns : c = hrsp.conn
  BY DEF Types, HostTypes
<1>2. PICK r : r = hrsp.rsp
  OBVIOUS
<1>3. /\ Line(c) # <<>> /\ Line(c)[1] = r /\ Live(c) /\ Made(r) /\ Home[r.by] = c
      /\ Line(c) \in Seq(ReqsOf(c))
  BY <1>1, <1>2, LineInHand, FirstInHand, LineTypes DEF Base, HandUp
<1>4. Pending = 0
  BY DEF Pending, Alone
<1>5. procs \in Seq(GoodProcs) /\ DOMAIN procs = 1..Len(procs) /\ Len(procs) \in Nat
  BY DEF Types, ProcTypes
<1>6. 1 \in DOMAIN Line(c)
  BY <1>3
<1>7. Even(c)
  BY <1>3 DEF InStep
<1>8. 1 \in DOMAIN procs
  BY <1>4, <1>5, <1>6, <1>7 DEF Even
<1>9. PICK p \in GoodProcs : p = procs[1]
  BY <1>5, <1>8
<1>10. p.by = r.by /\ p \in Makers
  BY <1>3, <1>7, <1>8, <1>9, MakerCases DEF Even
<1>11. PICK m \in Makers : Fits(m, r)
  BY <1>3 DEF Made
<1>12. m = p
  BY <1>10, <1>11, MakerOnce DEF Fits
<1>13. GoodProc(p)
  BY <1>10 DEF Base, MakersGood
<1>14. Matches(p, r, Home[r.by])
  BY <1>10, <1>11, <1>12, <1>13, FitsMatches DEF GoodProc, GoodProcs, Procs
<1>15. Matches(procs[1], hrsp.rsp, hrsp.conn)
  BY <1>1, <1>2, <1>3, <1>9, <1>14
<1>16. \A j \in DOMAIN procs : 1 <= j
  BY <1>5
<1>17. Takes(1)
  BY <1>8, <1>15, <1>16 DEF Takes
<1>18. ASSUME NEW i, Takes(i) PROVE i = 1
  <2>1. i \in DOMAIN procs /\ i <= 1
    BY <1>8, <1>15, <1>18 DEF Takes
  <2> QED
    BY <1>5, <2>1
<1> QED
  BY <1>2, <1>4, <1>9, <1>10, <1>17, <1>18

LEMMA InStepRight ==
  ASSUME Types, Own, Base, Alone, InStep
  PROVE  Right
<1> SUFFICES ASSUME NEW i, Takes(i) PROVE procs[i].by = hrsp.rsp.by
  BY DEF Right
<1>1. hpc = "dispatch"
  BY DEF Takes
<1> QED
  BY <1>1, FirstTakes

(* The last request of the line is of the procedure that is not in the list. *)
LEMMA LastInLine ==
  ASSUME Types, Own, Base, NEW h \in Conns, Live(h), Even(h), Pending = 1
  PROVE  /\ \A n \in DOMAIN procs : procs[n].by # Line(h)[Len(procs) + 1].by
         /\ \/ \E u \in Tasks : call[u].pc = "insert" /\ Line(h)[Len(procs) + 1].by = u
            \/ hpc = "insert" /\ Line(h)[Len(procs) + 1].by = hproc.by
<1>1. procs \in Seq(GoodProcs) /\ DOMAIN procs = 1..Len(procs) /\ Len(procs) \in Nat
  BY DEF Types, ProcTypes
<1>2. PICK k \in Nat : k = Len(procs) + 1
  BY <1>1
<1>3. DOMAIN Line(h) = 1..k /\ k \in 1..k /\ \A n \in DOMAIN procs : n \in 1..k /\ n # k
  BY <1>1, <1>2 DEF Even
<1>4. Apiece(Line(h)) /\ Made(Line(h)[k])
  BY <1>3 DEF Base, InLine, Orderly
<1>5. PICK x : x = Line(h)[k]
  OBVIOUS
<1>6. \A n \in DOMAIN procs : procs[n].by # x.by
  BY <1>3, <1>4, <1>5 DEF Apiece, Even
<1>7. PICK m \in Makers : Fits(m, x)
  BY <1>4, <1>5 DEF Made
<1>8. m.by = x.by
  BY <1>7 DEF Fits
<1>9. \/ \E u \in Tasks : call[u].pc = "insert" /\ m = NewProc(u)
      \/ hpc = "insert" /\ m = hproc
  BY <1>6, <1>7, <1>8, MakerCases
<1>10. \/ \E u \in Tasks : call[u].pc = "insert" /\ x.by = u
       \/ hpc = "insert" /\ x.by = hproc.by
  BY <1>8, <1>9, NewProcTypes
<1> QED
  BY <1>2, <1>5, <1>6, <1>10

(* A procedure put last in the list *)
LEMMA EvenInserted ==
  ASSUME Types, NEW h \in Conns, Even(h), Pending = 1, NEW d \in GoodProcs,
         d.by = Line(h)[Len(procs) + 1].by, procs' = Append(procs, d), Line(h)' = Line(h), Pending' = 0
  PROVE  Even(h)'
<1>1. procs \in Seq(GoodProcs)
  BY DEF Types, ProcTypes
<1>2. /\ Len(procs') = Len(procs) + 1 /\ DOMAIN procs' = 1..(Len(procs) + 1)
      /\ DOMAIN procs = 1..Len(procs) /\ Len(procs) \in Nat
      /\ procs'[Len(procs) + 1] = d /\ \A n \in 1..Len(procs) : procs'[n] = procs[n]
  BY <1>1
<1>3. Len(procs') + 0 = Len(procs) + 1
  BY <1>2
<1>4. \A n \in 1..(Len(procs) + 1) : n \in 1..Len(procs) \/ n = Len(procs) + 1
  BY <1>2
<1>5. \A n \in DOMAIN procs' : procs'[n].by = Line(h)[n].by
  BY <1>2, <1>4 DEF Even
<1> QED
  BY <1>3, <1>5 DEF Even

(* Nothing that counts has changed. *)
LEMMA EvenSame ==
  ASSUME NEW h \in Conns, Even(h), procs' = procs, Line(h)' = Line(h), Pending' = Pending
  PROVE  Even(h)'
BY DEF Even

LEMMA AppKeepsEven ==
  ASSUME InTurn, Types, Own, Base, Calm, InStep, NEW t \in Tasks, AppNext(t)
  PROVE  InStep'
<1>0. /\ UNCHANGED <<link, silent, hpc, hrsp>> /\ \A u \in Tasks \ {t} : call'[u] = call[u]
      /\ Starts(t) \/ Sends(t) \/ Fails(t) \/ Inserts(t) \/ Wakes(t) \/ Secures(t) \/ Returns(t)
  BY AppSteps
<1>1. hpc = "idle" /\ hpc' = "idle" /\ Inside \subseteq {t}
  BY <1>0, AppRuns DEF InTurn
<1>2. \A u : u \in Inside <=> u = t /\ call[t].pc \in {"insert", "insertShort"}
  BY <1>1, InsideIs
<1>3. \A u : u \in Inside' <=> u = t /\ call'[t].pc \in {"insert", "insertShort"}
  <2>1. \A u : u \in Inside' <=> u \in Tasks /\ call'[u].pc \in {"insert", "insertShort"}
    BY DEF Inside, Inserting
  <2> QED
    BY <1>0, <1>2, <2>1, InsideIs
<1>4. /\ Pending = IF call[t].pc \in {"insert", "insertShort"} THEN 1 ELSE 0
      /\ Pending' = IF call'[t].pc \in {"insert", "insertShort"} THEN 1 ELSE 0
  BY <1>1, <1>2, <1>3 DEF Pending
<1> SUFFICES ASSUME NEW h \in Conns, Live(h)' PROVE Even(h)'
  BY DEF InStep
<1>5. /\ Live(h) /\ Even(h)
      /\ \/ ~(Sends(t) /\ Home[t] = h) /\ Line(h)' = Line(h)
         \/ Sends(t) /\ Home[t] = h /\ Line(h)' = Append(Line(h), FirstRequest(t))
  BY AppLines DEF InStep
<1>6. CASE Sends(t)
  <2>1. Home[t] = h
    BY Homes DEF InTurn
  <2>2. PICK q \in Seq(ReqsOf(h)) : q = Line(h)
    BY LineTypes DEF Base
  <2>3. PICK r \in ReqsOf(h) : r = FirstRequest(t)
    BY <1>6, <2>1, FirstFits DEF Sends
  <2>4. /\ DOMAIN Append(q, r) = 1..(Len(q) + 1) /\ DOMAIN q = 1..Len(q) /\ Len(q) \in Nat
        /\ \A n \in 1..Len(q) : Append(q, r)[n] = q[n]
    OBVIOUS
  <2>5. Pending = 0 /\ Pending' = 1 /\ procs' = procs
    BY <1>4, <1>6 DEF Sends
  <2>6. procs \in Seq(GoodProcs) /\ DOMAIN procs = 1..Len(procs) /\ Len(procs) \in Nat
    BY DEF Types, ProcTypes
  <2>7. DOMAIN q = 1..Len(procs)
    BY <1>5, <2>2, <2>5, <2>6 DEF Even
  <2>8. Len(q) = Len(procs)
    <3>1. PICK k \in Nat : k = Len(procs)
      BY <2>6
    <3>2. DOMAIN q = 1..k
      BY <2>7, <3>1
    <3>3. DOMAIN q = 1..Len(q) /\ Len(q) \in Nat
      OBVIOUS
    <3>4. k = Len(q)
      BY <3>2, <3>3
    <3> QED
      BY <3>1, <3>4, SMTT(60)
  <2>9. Line(h)' = Append(q, r)
    BY <1>5, <1>6, <2>1, <2>2, <2>3
  <2>10. Len(procs') + Pending' = Len(q) + 1
    BY <2>5, <2>8
  <2>11. \A n \in DOMAIN procs : procs[n].by = Append(q, r)[n].by
    BY <1>5, <2>2, <2>4, <2>6, <2>8 DEF Even
  <2>12. \A n \in DOMAIN procs' : procs'[n].by = Append(q, r)[n].by
    BY <2>5, <2>11
  <2> QED
    BY <2>4, <2>9, <2>10, <2>12 DEF Even
<1>7. CASE Inserts(t)
  <2>1. Pending = 1 /\ Pending' = 0 /\ call[t].pc = "insert"
    BY <1>4, <1>7 DEF Inserts
  <2>2. Line(h)[Len(procs) + 1].by = t
    BY <1>1, <1>2, <1>5, <2>1, LastInLine, InsideIs
  <2>3. PICK d \in GoodProcs : d = NewProc(t) /\ d.by = t
    BY NewProcTypes
  <2>4. procs' = Append(procs, d) /\ Line(h)' = Line(h)
    BY <1>5, <1>7, <2>3 DEF Inserts, Sends
  <2> QED
    BY <1>5, <2>1, <2>2, <2>3, <2>4, EvenInserted
<1>8. CASE Starts(t) \/ Fails(t) \/ Wakes(t) \/ Secures(t) \/ Returns(t)
  <2>1. /\ call[t].pc \notin {"insert", "insertShort"} /\ call'[t].pc \notin {"insert", "insertShort"}
        /\ procs' = procs /\ ~Sends(t)
    BY <1>8 DEF Starts, Sends, Fails, Wakes, Secures, Returns, NoCall
  <2> QED
    BY <1>4, <1>5, <2>1, EvenSame
<1> QED
  BY <1>0, <1>6, <1>7, <1>8

LEMMA HostKeepsEven ==
  ASSUME InTurn, Steady, Types, Own, Base, Calm, InStep, HostNext, ~Dispatch
  PROVE  InStep'
<1> SUFFICES ASSUME NEW h \in Conns, Live(h)' PROVE Even(h)'
  BY DEF InStep
<1>0. /\ Inside = {} /\ ~ResumeStalled /\ OldLines /\ \A u \in Tasks : Spared(u) \/ Failed(u)
  BY HostRuns, HostSteps, NoneStalled DEF InTurn
<1>1. Inside' = {}
  <2>1. \A u \in Tasks : call'[u].pc = call[u].pc
    BY <1>0 DEF Spared, Failed
  <2>2. \A u : u \notin Inside'
    BY <1>0, <2>1, InsideIs DEF Inside, Inserting
  <2> QED
    BY <2>2
<1>2. Pending = (IF hpc = "insert" THEN 1 ELSE 0) /\ Pending' = IF hpc' = "insert" THEN 1 ELSE 0
  BY <1>0, <1>1 DEF Pending
<1>3. /\ link \in [Conns -> {"up", "broken", "down"}] /\ silent \in [Conns -> BOOLEAN]
      /\ Live(h)' <=> (link'[h] = "up" /\ ~silent'[h])
  BY DEF Types, LinkTypes, Live
<1>4. CASE \E k \in Conns : Receive(k)
  <2>1. PICK k \in Conns : Receive(k)
    BY <1>4
  <2>2. hpc = "idle" /\ hpc' = "dispatch" /\ UNCHANGED <<link, silent, procs>>
    BY <2>1 DEF Receive, peerVars
  <2>3. Live(h) /\ Line(h)' = Line(h)
    BY <1>3, <2>1, <2>2, LineReceived DEF Live, Base
  <2> QED
    BY <1>2, <2>2, <2>3, EvenSame DEF InStep
<1>5. CASE \E k \in Conns : Break(k)
  <2>1. PICK k \in Conns : Break(k)
    BY <1>5
  <2>2. link'[k] = "broken"
    BY <1>3, <2>1 DEF Break
  <2> QED
    BY <1>3, <2>2 DEF InTurn
<1>6. CASE \E k \in Conns : Connect(k)
  <2>1. link[h] = "down" /\ hpc = "idle" /\ hpc' = "idle" /\ procs' = procs
    BY <1>6 DEF InTurn, Connect, hostVars
  <2>2. Line(h)' = <<>>
    BY <1>0, <2>1 DEF OldLines, Live
  <2>3. procs \in Seq(GoodProcs) /\ DOMAIN procs = 1..Len(procs) /\ Len(procs) \in Nat
    BY DEF Types, ProcTypes
  <2>4. Len(procs) = 0
    <3>1. ASSUME 1 \in DOMAIN procs PROVE FALSE
      <4>1. PICK p : p = procs[1] /\ p \in Makers
        BY <3>1, MakerCases
      <4>2. Home[p.by] = h
        BY <4>1, MakerTypes, Homes DEF InTurn
      <4> QED
        BY <2>1, <4>1, <4>2 DEF Calm, Linked
    <3> QED
      BY <2>3, <3>1
  <2>5. Len(procs') + Pending' = 0 /\ DOMAIN procs' = {}
    BY <1>2, <2>1, <2>3, <2>4
  <2>6. PICK q : q = <<>> /\ Line(h)' = q /\ DOMAIN q = {}
    BY <2>2
  <2>7. 1..0 = {}
    OBVIOUS
  <2> QED
    BY <2>5, <2>6, <2>7 DEF Even
<1>7. CASE Delete
  <2>1. hrsp.conn \in Conns /\ link' = [link EXCEPT ![hrsp.conn] = "down"]
    BY <1>7 DEF Delete, Types, HostTypes
  <2>2. link'[h] = "down"
    BY <1>3, <2>1 DEF InTurn
  <2> QED
    BY <1>3, <2>2
<1>8. CASE CallbackAgain
  <2>1. hpc = "again" /\ hpc' = "idle" /\ UNCHANGED <<link, silent, procs, attVars>>
    BY <1>8 DEF CallbackAgain, HostDone, peerVars
  <2>2. Live(h) /\ Line(h)' = Line(h)
    BY <1>3, <2>1, LinesSame DEF Live
  <2> QED
    BY <1>2, <2>1, <2>2, EvenSame DEF InStep
<1>9. CASE Reinsert
  <2>1. /\ hpc = "insert" /\ hpc' = "idle" /\ UNCHANGED <<link, silent, attVars>>
        /\ procs' = Append(procs, hproc)
    BY <1>9 DEF Reinsert, HostDone, peerVars
  <2>2. Live(h) /\ Line(h)' = Line(h)
    BY <1>3, <2>1, LinesSame DEF Live
  <2>3. Even(h) /\ Pending = 1 /\ Pending' = 0
    BY <1>2, <2>1, <2>2 DEF InStep
  <2>4. Line(h)[Len(procs) + 1].by = hproc.by
    <3>1. \A u \in Tasks : call[u].pc # "insert"
      BY <1>0, InsideIs
    <3> QED
      BY <2>2, <2>3, <3>1, LastInLine
  <2>5. PICK d \in GoodProcs : d = hproc
    BY <2>1 DEF Types, HostTypes
  <2> QED
    BY <2>1, <2>2, <2>3, <2>4, <2>5, EvenInserted
<1>10. CASE Expire
  <2>1. PICK i \in DOMAIN procs : silent' = [silent EXCEPT ![Home[procs[i].by]] = TRUE]
    BY <1>10 DEF Expire, Steady
  <2>2. Home[procs[i].by] = h
    <3>1. procs[i] \in Makers
      BY <2>1, MakerCases
    <3> QED
      BY <3>1, MakerTypes, Homes DEF InTurn
  <2>3. silent'[h]
    BY <1>3, <2>1, <2>2
  <2> QED
    BY <1>3, <2>3
<1> QED
  BY <1>0, <1>4, <1>5, <1>6, <1>7, <1>8, <1>9, <1>10 DEF HostNext

LEMMA DispatchKeepsEven ==
  ASSUME InTurn, Steady, Types, Own, Base, Calm, InStep, Dispatch
  PROVE  InStep'
<1>0. Right
  BY InStepRight DEF Calm
<1>1. hpc = "dispatch" /\ hpc' # "dispatch" /\ UNCHANGED <<link, silent, prepq, written>>
  BY <1>0, DispatchSteps
<1>2. /\ Takes(1) /\ Pending = 0 /\ \A i : Takes(i) => i = 1
  BY <1>1, FirstTakes DEF Calm
<1>3. /\ procs' = RemoveAt(procs, 1) /\ 1 \in DOMAIN procs /\ Ends(procs[1].by)
      /\ Finishes(procs[1], hrsp.rsp) \/ GoesOn(procs[1], hrsp.rsp)
  BY <1>0, <1>2, DispatchSteps
<1> SUFFICES ASSUME NEW h \in Conns, Live(h)' PROVE Even(h)'
  BY DEF InStep
<1>4. Live(h) /\ Even(h) /\ h = hrsp.conn
  BY <1>1 DEF Live, InStep, InTurn, Types, HostTypes
<1>5. procs \in Seq(GoodProcs) /\ DOMAIN procs = 1..Len(procs) /\ Len(procs) \in Nat /\ Len(procs) > 0
  <2>1. procs \in Seq(GoodProcs)
    BY DEF Types, ProcTypes
  <2> QED
    BY <1>3, <2>1
<1>6. /\ DOMAIN procs' = 1..(Len(procs) - 1) /\ Len(procs') = Len(procs) - 1
      /\ \A n \in 1..(Len(procs) - 1) : procs'[n] = procs[n + 1]
  <2>1. /\ RemoveAt(procs, 1) \in Seq(GoodProcs) /\ Len(RemoveAt(procs, 1)) = Len(procs) - 1
        /\ \A n \in 1..(Len(procs) - 1) :
             RemoveAt(procs, 1)[n] = IF n < 1 THEN procs[n] ELSE procs[n + 1]
    BY <1>3, <1>5, Removal, Zenon
  <2>2. DOMAIN RemoveAt(procs, 1) = 1..(Len(procs) - 1)
    BY <2>1
  <2>3. \A n \in 1..(Len(procs) - 1) : ~(n < 1)
    BY <1>5
  <2> QED
    BY <1>3, <2>1, <2>2, <2>3, SMTT(60)
<1>7. PICK q \in Seq(ReqsOf(h)) : q = Line(h) /\ q # <<>>
  BY <1>1, <1>4, LineInHand, LineTypes DEF Base
<1>8. DOMAIN q = 1..Len(procs) /\ Len(q) = Len(procs) /\ \A n \in 1..Len(procs) : procs[n].by = q[n].by
  <2>1. DOMAIN q = 1..Len(procs) /\ \A n \in 1..Len(procs) : procs[n].by = q[n].by
    BY <1>2, <1>4, <1>5, <1>7 DEF Even
  <2>2. DOMAIN q = 1..Len(q) /\ Len(q) \in Nat
    OBVIOUS
  <2>3. Len(q) = Len(procs)
    BY <1>5, <2>1, <2>2, SMTT(60)
  <2> QED
    BY <2>1, <2>3
<1>9. PICK z \in Seq(ReqsOf(h)) :
        /\ z = Tail(q) /\ DOMAIN z = 1..(Len(procs) - 1) /\ Len(z) = Len(procs) - 1
        /\ \A n \in 1..(Len(procs) - 1) : z[n] = q[n + 1]
  <2>1. /\ Tail(q) \in Seq(ReqsOf(h)) /\ DOMAIN Tail(q) = 1..(Len(q) - 1) /\ Len(Tail(q)) = Len(q) - 1
        /\ \A n \in 1..(Len(q) - 1) : Tail(q)[n] = q[n + 1]
    BY <1>7
  <2> QED
    BY <1>8, <2>1, Zenon
<1>10. \A n \in 1..(Len(procs) - 1) : procs'[n].by = z[n].by
  <2> TAKE n \in 1..(Len(procs) - 1)
  <2>1. n + 1 \in 1..Len(procs)
    BY <1>5
  <2> QED
    BY <1>6, <1>8, <1>9, <2>1
<1>11. /\ procs[1] \in GoodProcs /\ GoodProc(procs[1]) /\ Home[procs[1].by] = hrsp.conn
  BY <1>0, <1>2, RightFits
<1>12. Inside' = {}
  <2>0. Inside = {}
    BY HostRuns DEF HostNext, InTurn
  <2>1. \A u \in Tasks : call'[u].pc = call[u].pc
    BY <1>3 DEF Ends
  <2>2. \A u : u \notin Inside'
    BY <2>0, <2>1, InsideIs DEF Inside, Inserting
  <2> QED
    BY <2>2
<1>13. CASE Finishes(procs[1], hrsp.rsp)
  <2>1. UNCHANGED attVars /\ hpc' # "insert"
    BY <1>13 DEF Finishes
  <2>2. Line(h)' = z
    BY <1>1, <1>4, <1>7, <1>9, <2>1, LineDispatched DEF Base
  <2>3. Pending' = 0
    BY <1>12, <2>1 DEF Pending
  <2>4. Len(procs') + Pending' = Len(procs) - 1
    BY <1>5, <1>6, <2>3
  <2> QED
    BY <1>6, <1>9, <1>10, <2>2, <2>4 DEF Even
<1>14. CASE GoesOn(procs[1], hrsp.rsp)
  <2>1. hpc' = "insert"
    BY <1>14 DEF GoesOn, Resumes
  <2>2. PICK p \in GoodProcs : p = procs[1]
    BY <1>11
  <2>3. PICK x : x = Request(RequestOf(Advanced(p)), p.by, Advanced(p).off)
    OBVIOUS
  <2>4. x \in ReqsOf(h) /\ Line(h)' = Append(z, x)
    <3>1. GoesOn(p, hrsp.rsp) /\ GoodProc(p) /\ Home[p.by] = hrsp.conn
      BY <1>11, <1>14, <2>2
    <3>2. /\ Request(RequestOf(Advanced(p)), p.by, Advanced(p).off) \in ReqsOf(hrsp.conn)
          /\ Line(h)' = IF h = hrsp.conn
                        THEN Append(Tail(Line(h)), Request(RequestOf(Advanced(p)), p.by, Advanced(p).off))
                        ELSE Line(h)
      BY <1>0, <3>1, DispatchLines DEF InTurn
    <3> QED
      BY <1>4, <1>7, <1>9, <2>3, <3>2
  <2>5. /\ DOMAIN Append(z, x) = 1..(Len(z) + 1)
        /\ \A n \in 1..Len(z) : Append(z, x)[n] = z[n]
    BY <2>4
  <2>6. Pending' = 1
    BY <2>1 DEF Pending
  <2>7. Len(procs') + Pending' = Len(z) + 1
    BY <1>6, <1>9, <2>6
  <2>8. \A n \in DOMAIN procs' : procs'[n].by = (Append(z, x))[n].by
    BY <1>6, <1>9, <1>10, <2>5
  <2> QED
    BY <2>4, <2>5, <2>7, <2>8 DEF Even
<1> QED
  BY <1>3, <1>13, <1>14

LEMMA StepKeepsEven ==
  ASSUME InTurn, Steady, Types, Own, Base, Calm, InStep, [Next]_vars
  PROVE  InStep'
<1>1. CASE UNCHANGED vars
  <2>1. \A h \in Conns : Line(h)' = Line(h) /\ (Live(h)' <=> Live(h))
    BY <1>1 DEF vars, attVars, hostVars, peerVars, Line, Hand, Rest, Live
  <2>2. Pending' = Pending /\ procs' = procs
    BY <1>1 DEF Pending, Inside, vars, hostVars, callVars
  <2> QED
    BY <2>1, <2>2, EvenSame DEF InStep
<1>2. ASSUME NEW k \in Conns, Answer(k) PROVE InStep'
  <2>1. Live(k) /\ UNCHANGED <<link, silent, procs, hostVars, callVars>>
    BY <1>2, AnswerSteps
  <2>2. PICK x \in ReqsOf(k), y \in ReqsOf(k) : Answered(k, x, y)
    BY <1>2, AnswerSteps
  <2>3. Pending' = Pending
    BY <2>1 DEF Pending, Inside, hostVars, callVars
  <2>4. ASSUME NEW h \in Conns, Live(h)' PROVE Even(h)'
    <3>1. Even(h)
      BY <2>1, <2>4 DEF Live, InStep
    <3>2. PICK q, z : q = Line(h) /\ z = Line(h)'
      OBVIOUS
    <3>3. /\ DOMAIN z = DOMAIN q /\ y.by = x.by
          /\ \A n \in DOMAIN q : z[n] = q[n] \/ (q[n] = x /\ z[n] = y)
      BY <2>2, <3>2 DEF Answered
    <3>4. \A n \in DOMAIN q : z[n].by = q[n].by
      BY <3>3
    <3>5. DOMAIN q = 1..(Len(procs) + Pending) /\ \A n \in DOMAIN procs : procs[n].by = q[n].by
      BY <3>1, <3>2 DEF Even
    <3>6. \A n \in DOMAIN procs : n \in DOMAIN q
      <4>1. DOMAIN procs = 1..Len(procs) /\ Len(procs) \in Nat
        BY DEF Types, ProcTypes
      <4>2. Pending \in {0, 1}
        BY DEF Pending
      <4> QED
        BY <3>5, <4>1, <4>2
    <3> QED
      BY <2>1, <2>3, <3>2, <3>3, <3>4, <3>5, <3>6 DEF Even
  <2> QED
    BY <2>4 DEF InStep
<1> QED
  BY <1>1, <1>2, AppKeepsEven, HostKeepsEven, DispatchKeepsEven DEF Next

LEMMA InStepInit == ASSUME Init PROVE InStep
<1>1. Pending = 0
  <2>1. \A t : t \notin Inside
    BY InsideIs DEF Init, NoCall
  <2> QED
    BY <2>1 DEF Pending, Init
<1>2. procs = <<>> /\ Len(procs) + 0 = 0 /\ DOMAIN procs = {}
  BY DEF Init
<1>3. ASSUME NEW h \in Conns PROVE Even(h)
  <2>1. PICK q : q = Line(h) /\ DOMAIN q = {}
    BY BaseInit
  <2>2. 1..0 = {}
    OBVIOUS
  <2> QED
    BY <1>1, <1>2, <2>1, <2>2 DEF Even
<1> QED
  BY <1>3 DEF InStep

-----------------------------------------------------------------------------
(* The theorems *)

(* The two ways in which an answer finds the procedure that asked, and the   *)
(* invariant that the theorems below share                                   *)
Matched == Apart \/ InTurn
Ordered == Own /\ Base /\ (InTurn => Calm /\ InStep)

LEMMA OrderedInit == ASSUME Init PROVE Ordered
BY BaseInit, CalmInit, InStepInit DEF Ordered

LEMMA OrderedRight ==
  ASSUME Matched, Types, Ordered
  PROVE  Right
<1>1. CASE Apart
  BY <1>1, ApartRight DEF Ordered
<1>2. CASE InTurn
  BY <1>2, InStepRight DEF Ordered, Calm
<1> QED
  BY <1>1, <1>2 DEF Matched

LEMMA OrderedStep ==
  ASSUME Steady, Matched, Types, Ordered, [Next]_vars
  PROVE  Ordered'
<1>1. Base' /\ Own'
  BY OrderedRight, BaseStep DEF Ordered
<1>2. ASSUME InTurn PROVE Calm' /\ InStep'
  <2>1. Calm /\ InStep /\ Own /\ Base /\ Right /\ ~Preempt /\ ~NoMem
    BY <1>2, OrderedRight DEF Ordered, InTurn
  <2>2. Calm'
    BY <2>1, StepKeepsCalm
  <2>3. InStep'
    BY <1>2, <2>1, StepKeepsEven
  <2> QED
    BY <2>2, <2>3
<1> QED
  BY <1>1, <1>2 DEF Ordered, InTurn

(* A read that reports success returns the whole value, once and in order:   *)
(* onReadCB() appends the answers of this call's own procedure, each of them *)
(* once, and no answer is another task's.  Without BlobsAllowed it fails:    *)
(* readValue() keeps what it has collected when it retries.                  *)
THEOREM ReadsAreWhole ==
  ASSUME Steady, Matched, BlobsAllowed
  PROVE  Spec => []ReadIntegrity
<1>1. Init => Ordered /\ RData
  BY OrderedInit, ReadsInit
<1>2. Types /\ (Ordered /\ RData) /\ [Next]_vars => (Ordered /\ RData)'
  <2> SUFFICES ASSUME Types, Ordered, RData, [Next]_vars PROVE Ordered' /\ RData'
    OBVIOUS
  <2> QED
    BY OrderedStep, OrderedRight, StepKeepsReads DEF Ordered
<1>3. Ordered /\ RData => ReadIntegrity
  BY DEF RData, RCall, ReadIntegrity, Part
<1> QED
  BY <1>1, <1>2, <1>3, TypesInvariant, PTL DEF Spec

(* writeValue() returns true only for data that the peer has stored: every   *)
(* part of a long write was echoed and committed for this call, with any     *)
(* number of procedures of other tasks about it.                             *)
THEOREM WritesAreStored ==
  ASSUME Steady, Matched, CommitsAlone
  PROVE  Spec => []TrueMeansWritten
<1>1. Init => Ordered /\ WData
  BY OrderedInit, WritesInit
<1>2. Types /\ (Ordered /\ WData) /\ [Next]_vars => (Ordered /\ WData)'
  <2> SUFFICES ASSUME Types, Ordered, WData, [Next]_vars PROVE Ordered' /\ WData'
    OBVIOUS
  <2> QED
    BY OrderedStep, OrderedRight, StepKeepsWrites DEF Ordered
<1>3. Ordered /\ WData => TrueMeansWritten
  BY DEF WData, WCall, TrueMeansWritten
<1> QED
  BY <1>1, <1>2, <1>3, TypesInvariant, PTL DEF Spec

(* A call that waits for its callback still has a procedure to call it, or   *)
(* has been called: the host drops a procedure only with its callback, and a *)
(* connection ends only with the procedures of its calls.  Asked besides: no *)
(* task runs between a send and its insertion, buffers do not run out, and   *)
(* no procedure is NULL.                                                     *)
THEOREM WaitersHaveProcedures ==
  ASSUME Steady, Matched, ~Preempt, ~NoMem, None \notin GoodProcs
  PROVE  Spec => []WaiterHasProcedure
<1>1. Init => Ordered /\ Calm
  BY OrderedInit, CalmInit
<1>2. Types /\ (Ordered /\ Calm) /\ [Next]_vars => (Ordered /\ Calm)'
  <2> SUFFICES ASSUME Types, Ordered, Calm, [Next]_vars PROVE Ordered' /\ Calm'
    OBVIOUS
  <2> QED
    BY OrderedStep, OrderedRight, StepKeepsCalm DEF Ordered
<1>3. Types /\ (Ordered /\ Calm) => WaiterHasProcedure
  <2> SUFFICES ASSUME Types, Ordered, Calm, NEW t \in Tasks, call[t].pc = "wait", ~bit[t]
               PROVE  \E p \in ToSet(procs) \cup ({hproc} \ {None}) : p.by = t /\ p.live
    BY DEF WaiterHasProcedure
  <2>1. PICK m \in Makers : m.by = t
    BY DEF Calm, Waiting
  <2>2. m \in GoodProcs /\ m.live
    BY <2>1, MakerTypes DEF Ordered
  <2>3. \A u \in Tasks : call[u].pc = "insert" => m # NewProc(u)
    <3> SUFFICES ASSUME NEW u \in Tasks, call[u].pc = "insert", m = NewProc(u) PROVE FALSE
      OBVIOUS
    <3>1. m.by = u
      BY NewProcTypes
    <3> QED
      BY <2>1, <3>1
  <2>4. m \in ToSet(procs) \/ m = hproc
    BY <2>3, MakerCases DEF ToSet
  <2> QED
    BY <2>1, <2>2, <2>4
<1> QED
  BY <1>1, <1>2, <1>3, TypesInvariant, PTL DEF Spec
=============================================================================
