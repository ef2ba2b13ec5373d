-------------------------- MODULE AttServerProofs --------------------------
(***************************************************************************)
(* Theorems about AttServer, for any connections, attributes, data, limits *)
(* and sizes of the pool.                                                  *)
(*                                                                         *)
(* PoolConserved needs the types of the lists and that a list is in hand   *)
(* only while it is being executed.  NoFault is about an application that  *)
(* keeps to the rules of Disciplined; its invariant says what each step of *)
(* setValue() knows of the value it works on.                              *)
(***************************************************************************)
EXTENDS AttServer, FiniteSetTheorems, WellFoundedInduction, TLAPS

-----------------------------------------------------------------------------
(* Sequences *)

(* A nonempty set of naturals has a least element. *)
LEMMA LeastNat ==
  ASSUME NEW S, S \subseteq Nat, S # {}
  PROVE  \E i \in S : \A k \in S : i <= k
<1>1. PICK i \in S : \A y \in S : <<y, i>> \notin OpToRel(<, Nat)
  BY WFMin, NatLessThanWellFounded
<1>2. \A y \in S : ~(y < i)
  BY <1>1 DEF OpToRel
<1> QED
  BY <1>2

(* A sequence of sequences, one behind the other, is a sequence.  Both the   *)
(* recursion of FlattenSeq and its values are by induction: a least          *)
(* counterexample is refuted.                                              *)
LEMMA FlattenSeqIsSeq ==
  ASSUME NEW S, NEW ss \in Seq(Seq(S))
  PROVE  FlattenSeq(ss) \in Seq(S)
<1> DEFINE Advance(g, i) == IF i = 1 THEN ss[i] ELSE g[i - 1] \o ss[i]
           Flat(g, n) == g \in [1..n -> Seq(S)] /\ \A i \in 1..n : g[i] = Advance(g, i)
           Bad == {n \in 1..Len(ss) : ~ \E g : Flat(g, n)}
<1>0. Len(ss) \in Nat /\ \A i \in 1..Len(ss) : ss[i] \in Seq(S)
  OBVIOUS
<1>1. \A n \in 1..Len(ss) : \E g : Flat(g, n)
  <2> SUFFICES ASSUME Bad # {} PROVE FALSE
    BY Zenon
  <2>1. PICK n \in Bad : \A k \in Bad : n <= k
    <3>1. Bad \subseteq Nat
      BY <1>0
    <3> HIDE DEF Bad
    <3> QED
      BY <3>1, LeastNat
  <2>0. n \in 1..Len(ss) /\ ~ \E g : Flat(g, n)
    BY <2>1, Zenon
  <2>2. CASE n = 1
    <3> DEFINE g == [i \in 1..1 |-> ss[1]]
    <3>1. g \in [1..n -> Seq(S)]
      BY <1>0, <2>0, <2>2
    <3>2. \A i \in 1..n : g[i] = Advance(g, i)
      BY <2>2
    <3>3. Flat(g, n)
      BY <3>1, <3>2
    <3> QED
      BY <2>0, <3>3
  <2>3. CASE n # 1
    <3>1. n - 1 \in 1..Len(ss)
      BY <1>0, <2>0, <2>3
    <3>2. n - 1 \notin Bad
      <4> HIDE DEF Bad
      <4> QED
        BY <1>0, <2>0, <2>1
    <3>3. PICK f : Flat(f, n - 1)
      BY <3>1, <3>2, Zenon
    <3> DEFINE g == [i \in 1..n |-> IF i = n THEN f[n - 1] \o ss[n] ELSE f[i]]
    <3>4. f \in [1..(n - 1) -> Seq(S)] /\ \A i \in 1..(n - 1) : f[i] = Advance(f, i)
      BY <3>3, Zenon
    <3>5. f[n - 1] \o ss[n] \in Seq(S)
      <4>1. f[n - 1] \in Seq(S) /\ ss[n] \in Seq(S)
        BY <1>0, <2>0, <2>3, <3>4
      <4> QED
        BY <4>1
    <3>6. g \in [1..n -> Seq(S)]
      BY <2>0, <3>4, <3>5
    <3>7. \A i \in 1..n : g[i] = Advance(g, i)
      <4> SUFFICES ASSUME NEW i \in 1..n PROVE g[i] = Advance(g, i)
        BY Zenon
      <4>1. CASE i = n
        <5>1. g[i - 1] = f[i - 1]
          BY <1>0, <2>0, <2>3, <4>1
        <5> QED
          BY <2>3, <4>1, <5>1
      <4>2. CASE i # n
        <5>1. i \in 1..(n - 1) /\ g[i] = f[i]
          BY <1>0, <2>0, <4>2
        <5>2. i # 1 => g[i - 1] = f[i - 1]
          BY <1>0, <2>0, <4>2
        <5> QED
          BY <3>4, <5>1, <5>2
      <4> QED
        BY <4>1, <4>2
    <3>8. Flat(g, n)
      BY <3>6, <3>7, Zenon
    <3> HIDE DEF g, Flat
    <3> QED
      BY <2>0, <3>8
  <2> QED
    BY <2>2, <2>3
<1>2. CASE Len(ss) = 0
  BY <1>2 DEF FlattenSeq
<1>3. CASE Len(ss) # 0
  <2> DEFINE fl == CHOOSE g : g = [i \in 1..Len(ss) |-> Advance(g, i)]
  <2>1. Len(ss) \in 1..Len(ss)
    BY <1>0, <1>3
  <2>2. PICK g : Flat(g, Len(ss))
    BY <1>1, <2>1, Zenon
  <2>3. g = [i \in 1..Len(ss) |-> Advance(g, i)]
    BY <2>2
  <2>4. fl = [i \in 1..Len(ss) |-> Advance(fl, i)]
    BY <2>3
  <2>5. \A n \in 1..Len(ss) : fl[n] = g[n]
    <3> DEFINE Diff == {n \in 1..Len(ss) : fl[n] # g[n]}
    <3> SUFFICES ASSUME Diff # {} PROVE FALSE
      BY Zenon
    <3>1. PICK n \in Diff : \A k \in Diff : n <= k
      <4>1. Diff \subseteq Nat
        <5>1. Diff \subseteq 1..Len(ss)
          BY Zenon
        <5> HIDE DEF Diff
        <5> QED
          BY <1>0, <5>1
      <4> HIDE DEF Diff
      <4> QED
        BY <4>1, LeastNat
    <3> HIDE DEF fl
    <3>2. n \in 1..Len(ss) /\ fl[n] # g[n]
      BY <3>1, Zenon
    <3>3. fl[n] = Advance(fl, n) /\ g[n] = Advance(g, n)
      BY <2>3, <2>4, <3>2, Zenon
    <3>4. n # 1 => fl[n - 1] = g[n - 1]
      <4> SUFFICES ASSUME n # 1 PROVE fl[n - 1] = g[n - 1]
        OBVIOUS
      <4>1. n - 1 \in 1..Len(ss)
        BY <1>0, <3>2
      <4>2. n - 1 \notin Diff
        <5> HIDE DEF Diff
        <5> QED
          BY <1>0, <3>1, <3>2
      <4> QED
        BY <4>1, <4>2, Zenon
    <3> QED
      BY <3>2, <3>3, <3>4
  <2>6. FlattenSeq(ss) = fl[Len(ss)]
    BY <1>3 DEF FlattenSeq
  <2>7. g[Len(ss)] \in Seq(S)
    BY <2>1, <2>2
  <2> HIDE DEF fl
  <2> QED
    BY <2>1, <2>5, <2>6, <2>7
<1> QED
  BY <1>2, <1>3

(* The least position that SelectInSeq takes. *)
LEMMA MinIsLeast ==
  ASSUME NEW S, S \subseteq Nat, S # {}
  PROVE  Min(S) \in S /\ \A k \in S : Min(S) <= k
BY LeastNat DEF Min

(* insert_prep_entry(): the list grows by the entry, wherever it goes.       *)
LEMMA InsertAdds ==
  ASSUME NEW S, NEW q \in Seq(S), NEW p \in S
  PROVE  /\ Insert(q, p) \in Seq(S)
         /\ Len(Insert(q, p)) = Len(q) + 1
         /\ \A i \in DOMAIN Insert(q, p) :
              Insert(q, p)[i] = p \/ \E j \in DOMAIN q : Insert(q, p)[i] = q[j]
<1> DEFINE I == {i \in 1..Len(q) : Larger(q[i], p)}
<1>1. CASE I = {}
  <2>1. Insert(q, p) = Append(q, p)
    BY <1>1 DEF Insert, SelectInSeq
  <2> QED
    BY <2>1
<1>2. CASE I # {}
  <2>1. Min(I) \in 1..Len(q)
    <3>1. I \subseteq Nat /\ I \subseteq 1..Len(q)
      OBVIOUS
    <3> HIDE DEF I
    <3> QED
      BY <1>2, <3>1, MinIsLeast
  <2>2. Insert(q, p) = SubSeq(q, 1, Min(I) - 1) \o <<p>> \o SubSeq(q, Min(I), Len(q))
    <3>1. SelectInSeq(q, LAMBDA e : Larger(e, p)) = Min(I)
      BY <1>2 DEF SelectInSeq
    <3>2. Min(I) # 0
      BY <2>1, SMT
    <3> QED
      BY <3>1, <3>2, Zenon DEF Insert, InsertAt
  <2> DEFINE m == Min(I)
             front == SubSeq(q, 1, m - 1)
             back == SubSeq(q, m, Len(q))
  <2> HIDE DEF I
  <2>3. /\ front \in Seq(S) /\ Len(front) = m - 1
        /\ \A i \in 1..(m - 1) : front[i] = q[i]
    BY <2>1
  <2>4. /\ back \in Seq(S) /\ Len(back) = Len(q) - m + 1
        /\ \A i \in 1..(Len(q) - m + 1) : back[i] = q[i + m - 1]
    BY <2>1
  <2> HIDE DEF front, back, m
  <2>5. Insert(q, p) = front \o <<p>> \o back
    BY <2>2 DEF front, back, m
  <2>6. m \in 1..Len(q)
    BY <2>1 DEF m
  <2> DEFINE head == front \o <<p>>
  <2>7. /\ head \in Seq(S) /\ Len(head) = m /\ head[m] = p
        /\ \A i \in 1..(m - 1) : head[i] = q[i]
    BY <2>3, <2>6
  <2> HIDE DEF head
  <2>9. head \o back \in Seq(S) /\ Len(head \o back) = Len(q) + 1
    <3>1. head \o back \in Seq(S) /\ Len(head \o back) = Len(head) + Len(back)
      <4>1. head \in Seq(S) /\ back \in Seq(S)
        BY <2>4, <2>7
      <4> QED
        BY <4>1
    <3> QED
      BY <2>4, <2>6, <2>7, <3>1
  <2>8. ASSUME NEW i \in 1..(Len(q) + 1)
        PROVE  (head \o back)[i] = p \/ \E j \in 1..Len(q) : (head \o back)[i] = q[j]
    <3>1. CASE i < m
      <4>1. (head \o back)[i] = head[i] /\ i \in 1..(m - 1)
        BY <2>4, <2>6, <2>7, <3>1
      <4> QED
        BY <2>6, <2>7, <4>1
    <3>2. CASE i = m
      <4>1. head \in Seq(S) /\ back \in Seq(S) /\ m \in 1..Len(head)
        BY <2>4, <2>6, <2>7
      <4>2. (head \o back)[m] = head[m]
        BY <4>1
      <4> QED
        BY <2>7, <3>2, <4>2
    <3>3. CASE i > m
      <4>1. (head \o back)[i] = back[i - m]
        <5>1. i \in 1..(Len(head) + Len(back)) /\ i > Len(head) /\ i - Len(head) = i - m
          BY <2>4, <2>6, <2>7, <3>3
        <5> QED
          BY <2>4, <2>7, <5>1
      <4>2. back[i - m] = q[i - 1] /\ i - 1 \in 1..Len(q)
        BY <2>4, <2>6, <3>3
      <4> QED
        BY <4>1, <4>2
    <3>4. i < m \/ i = m \/ i > m
      BY <2>6
    <3> QED
      BY <3>1, <3>2, <3>3, <3>4, Zenon
  <2>10. Insert(q, p) = head \o back /\ DOMAIN (head \o back) = 1..(Len(q) + 1)
    BY <2>5, <2>9 DEF head
  <2> QED
    BY <2>8, <2>9, <2>10
<1> QED
  BY <1>1, <1>2

(* ble_att_svr_prep_extract(): a list that is not empty has a first run.     *)
LEMMA RunIsNotEmpty ==
  ASSUME NEW S, NEW q \in Seq(S), q # <<>>
  PROVE  RunLength(q) \in 1..Len(q)
<1> DEFINE I == {i \in 1..Len(q) : q[i].handle # q[1].handle}
<1>1. CASE I = {}
  BY <1>1 DEF RunLength, SelectInSeq
<1>2. CASE I # {}
  <2>1. I \subseteq Nat /\ I \subseteq 1..Len(q) /\ 1 \notin I
    OBVIOUS
  <2>2. Min(I) \in I
    <3> HIDE DEF I
    <3> QED
      BY <1>2, <2>1, MinIsLeast
  <2>3. RunLength(q) = Min(I) - 1
    <3>1. Min(I) # 0
      BY <2>1, <2>2
    <3> QED
      BY <1>2, <3>1 DEF RunLength, SelectInSeq
  <2>4. Min(I) \in 2..Len(q)
    <3>1. Len(q) \in Nat /\ Min(I) \in 1..Len(q) /\ Min(I) # 1
      BY <2>1, <2>2
    <3> HIDE DEF I
    <3> QED
      BY <3>1
  <2> QED
    BY <2>3, <2>4
<1> QED
  BY <1>1, <1>2

(* One connection's entries are as many as its list is long. *)
LEMMA RowSize ==
  ASSUME NEW c, NEW n \in Nat
  PROVE  IsFiniteSet({c} \X (1..n)) /\ Cardinality({c} \X (1..n)) = n
<1>1. IsFiniteSet({c}) /\ Cardinality({c}) = 1
  BY FS_Singleton
<1>2. IsFiniteSet(1..n) /\ Cardinality(1..n) = n
  <2>1. IsFiniteSet(1..n) /\ Cardinality(1..n) = IF 1 > n THEN 0 ELSE n - 1 + 1
    BY FS_Interval
  <2> QED
    BY <2>1
<1>3. /\ IsFiniteSet({c} \X (1..n))
      /\ Cardinality({c} \X (1..n)) = Cardinality({c}) * Cardinality(1..n)
  BY <1>1, <1>2, FS_Product
<1>4. 1 * n = n
  OBVIOUS
<1> QED
  BY <1>1, <1>2, <1>3, <1>4, Zenon

(* The list of one connection is replaced by another: the entries of all are *)
(* as many less as the one had, and as many more as the other has.         *)
LEMMA ListReplaced ==
  ASSUME NEW S, prep \in [Conns -> Seq(S)], IsFiniteSet(Queued),
         NEW c \in Conns, NEW q \in Seq(S), prep' = [prep EXCEPT ![c] = q]
  PROVE  /\ IsFiniteSet(Queued')
         /\ Cardinality(Queued') = Cardinality(Queued) - Len(prep[c]) + Len(q)
         /\ Len(prep[c]) <= Cardinality(Queued)
<1> DEFINE mine == {c} \X (1..Len(prep[c]))
           others == Queued \ mine
           new == {c} \X (1..Len(q))
<1>1. mine \subseteq Queued
  BY DEF Queued
<1>0. Len(prep[c]) \in Nat /\ Len(q) \in Nat
  OBVIOUS
<1>2. IsFiniteSet(mine) /\ Cardinality(mine) = Len(prep[c])
  BY <1>0, RowSize
<1>3. IsFiniteSet(new) /\ Cardinality(new) = Len(q)
  BY <1>0, RowSize
<1>4. Queued' = others \cup new
  <2>1. \A d \in Conns : prep'[d] = IF d = c THEN q ELSE prep[d]
    OBVIOUS
  <2>2. Queued' = UNION {{d} \X DOMAIN prep'[d] : d \in Conns}
    BY DEF Queued
  <2>3. ASSUME NEW e PROVE e \in Queued' <=> \E d \in Conns : e \in {d} \X DOMAIN prep'[d]
    BY <2>2
  <2>4. ASSUME NEW e PROVE e \in Queued <=> \E d \in Conns : e \in {d} \X DOMAIN prep[d]
    BY DEF Queued
  <2>5. DOMAIN q = 1..Len(q) /\ DOMAIN prep[c] = 1..Len(prep[c])
    OBVIOUS
  <2>6. ASSUME NEW e, NEW d \in Conns, e \in {d} \X DOMAIN prep[d] PROVE e \in mine <=> d = c
    BY <2>5, <2>6
  <2>7. ASSUME NEW e, e \in Queued' PROVE e \in others \cup new
    <3>1. PICK d \in Conns : e \in {d} \X DOMAIN prep'[d]
      BY <2>3, <2>7
    <3>2. CASE d = c
      BY <2>1, <2>5, <3>1, <3>2
    <3>3. CASE d # c
      BY <2>1, <2>4, <2>6, <3>1, <3>3
    <3> QED
      BY <3>2, <3>3
  <2>8. ASSUME NEW e, e \in others \cup new PROVE e \in Queued'
    <3>1. CASE e \in new
      BY <2>1, <2>3, <2>5, <3>1
    <3>2. CASE e \in others
      <4>1. PICK d \in Conns : e \in {d} \X DOMAIN prep[d]
        BY <2>4, <3>2
      <4>2. d # c
        BY <2>6, <3>2, <4>1
      <4> QED
        BY <2>1, <2>3, <4>1, <4>2
    <3> QED
      BY <2>8, <3>1, <3>2
  <2> QED
    BY <2>7, <2>8
<1>5. IsFiniteSet(others) /\ Cardinality(others) = Cardinality(Queued) - Len(prep[c])
  <2>1. IsFiniteSet(others)
    BY FS_Subset
  <2>2. others \cup mine = Queued /\ others \cap mine = {}
    BY <1>1
  <2> HIDE DEF others, mine
  <2>3. Cardinality(Queued) = Cardinality(others) + Cardinality(mine) - Cardinality({})
    BY <1>2, <2>1, <2>2, FS_Union
  <2>4. Cardinality(others) \in Nat
    BY <2>1, FS_CardinalityType
  <2> QED
    BY <1>0, <1>2, <2>1, <2>3, <2>4, FS_EmptySet
<1>6. others \cap new = {}
  BY DEF Queued
<1>7. Cardinality(others) \in Nat /\ Cardinality(Queued) \in Nat
  BY <1>5, FS_CardinalityType
<1> HIDE DEF others, new, mine
<1>8. /\ IsFiniteSet(Queued')
      /\ Cardinality(Queued') = Cardinality(others) + Cardinality(new) - Cardinality({})
  <2>1. /\ IsFiniteSet(others \cup new)
        /\ Cardinality(others \cup new)
             = Cardinality(others) + Cardinality(new) - Cardinality(others \cap new)
    BY <1>3, <1>5, FS_Union
  <2> QED
    BY <1>4, <1>6, <2>1, Zenon
<1> QED
  BY <1>0, <1>3, <1>5, <1>7, <1>8, FS_EmptySet

-----------------------------------------------------------------------------
(* Types *)

Links == {"down", "up", "terminating"}
Attribute == [buf : Seq(Bytes), len : Nat, cap : Nat, moved : BOOLEAN]
Places == {"idle", "onRead", "send", "exec", "zero", "grow", "copy", "compare", "onWrite", "get"}
Doing == [pc : Places, h : Handles \cup {None}, data : Seq(Bytes), new : Nat,
          fresh : BOOLEAN, cb : BOOLEAN]
InHand == [conn : Conns \cup {None}, op : {"none", "read", "write", "exec"},
           h : Handles \cup {None}, list : Seq(AllParts), run : Seq(AllParts)]

(* What a task does with a value it does with one that exists. *)
TaskTypes ==
  /\ t \in [Tasks -> Doing]
  /\ \A k \in Tasks : t[k].pc \in {"zero", "grow", "copy", "compare", "get"} => t[k].h \in Handles
  /\ x \in InHand
  /\ x.op = "read" => x.h \in Handles

Types ==
  /\ TaskTypes
  /\ val \in [Handles -> Attribute]
  /\ link \in [Conns -> Links]
  /\ visible \subseteq Handles
  /\ prep \in [Conns -> Seq(AllParts)]
  /\ pool \in Nat

(* Data and parts are made of Bytes, parts are of attributes that exist. *)
LEMMA DataTypes ==
  /\ \A d \in AllData : d \in Seq(Bytes)
  /\ \A p \in AllParts : p.data \in Seq(Bytes) /\ p.handle \in Handles
<1>1. \A d \in AllData : d \in Seq(ToSet(d)) /\ ToSet(d) \subseteq Bytes
  BY DataAssumption DEF AllData, Bytes
<1>2. \A p \in AllParts :
        p.data \in Seq(ToSet(p.data)) /\ p.handle \in Handles /\ ToSet(p.data) \subseteq Bytes
  BY DataAssumption DEF AllParts, Bytes
<1>3. ASSUME NEW d, d \in Seq(ToSet(d)), ToSet(d) \subseteq Bytes PROVE d \in Seq(Bytes)
  BY <1>3
<1> QED
  BY <1>1, <1>2, <1>3

(* The steps on a value *)
LEMMA ValueTypes ==
  ASSUME NEW v \in Attribute, NEW d \in Seq(Bytes), NEW n \in Nat, NEW moved \in BOOLEAN
  PROVE  /\ Zeroed(v) \in Attribute
         /\ Grown(v, n, moved) \in Attribute
         /\ NotGrown(v, n) \in Attribute
         /\ Copied(v, d, n) \in Attribute
<1>0. Zero \in Bytes /\ v.buf \in Seq(Bytes) /\ v.len \in Nat
  <2>1. Zero \in Bytes
    BY DEF Bytes
  <2> QED
    BY <2>1 DEF Attribute
<1>1. Zeroed(v) \in Attribute
  <2> DEFINE b == [v.buf EXCEPT ![1] = Zero]
  <2>1. v.buf \in [1..Len(v.buf) -> Bytes] /\ Len(v.buf) \in Nat
    BY <1>0
  <2>2. b \in [1..Len(v.buf) -> Bytes]
    BY <1>0, <2>1
  <2> HIDE DEF b
  <2>3. b \in Seq(Bytes)
    BY <2>1, <2>2
  <2>4. Zeroed(v) = [v EXCEPT !.len = 0, !.buf = b]
    BY DEF Zeroed, b, Attribute
  <2>5. Zeroed(v) = [buf |-> b, len |-> 0, cap |-> v.cap, moved |-> v.moved]
    BY <2>4 DEF Attribute
  <2> QED
    BY <2>3, <2>5 DEF Attribute
<1>2. Grown(v, n, moved) \in Attribute
  <2> DEFINE m == IF n > Len(v.buf) THEN n - Len(v.buf) ELSE 0
  <2>1. m \in Nat
    BY <1>0
  <2> HIDE DEF m
  <2>2. [i \in 1..m |-> Zero] \in Seq(Bytes)
    BY <1>0, <2>1
  <2>3. v.buf \o [i \in 1..m |-> Zero] \in Seq(Bytes)
    BY <1>0, <2>2
  <2>4. Grown(v, n, moved) = [v EXCEPT !.cap = n, !.moved = moved,
                                       !.buf = v.buf \o [i \in 1..m |-> Zero]]
    BY DEF Grown, m, Attribute
  <2> QED
    BY <2>3, <2>4 DEF Attribute
<1>3. NotGrown(v, n) \in Attribute
  BY DEF NotGrown, Attribute
<1>4. Copied(v, d, n) \in Attribute
  <2> DEFINE b == [i \in DOMAIN v.buf |-> IF i \in v.len + 1 .. v.len + Len(d) THEN d[i - v.len]
                                          ELSE IF i = n + 1 THEN Zero ELSE v.buf[i]]
  <2>1. ASSUME NEW i \in DOMAIN v.buf PROVE b[i] \in Bytes
    <3>1. i \in v.len + 1 .. v.len + Len(d) => d[i - v.len] \in Bytes
      <4>1. i \in v.len + 1 .. v.len + Len(d) => i - v.len \in 1..Len(d)
        BY <1>0
      <4> QED
        BY <4>1
    <3> QED
      BY <1>0, <2>1, <3>1
  <2>2. DOMAIN b = 1..Len(v.buf) /\ Len(v.buf) \in Nat
    BY <1>0
  <2>3. b \in [1..Len(v.buf) -> Bytes]
    BY <2>1, <2>2
  <2> HIDE DEF b
  <2>4. b \in Seq(Bytes)
    BY <2>2, <2>3
  <2>5. Copied(v, d, n) = [v EXCEPT !.buf = b, !.len = n, !.moved = FALSE]
    BY DEF Copied, b, Attribute
  <2> QED
    BY <2>4, <2>5 DEF Attribute
<1> QED
  BY <1>1, <1>2, <1>3, <1>4

(* A task turns to a value, and away from it. *)
LEMMA BeginIsDoing ==
  ASSUME NEW pc \in Places, NEW h \in Handles, NEW d \in Seq(Bytes), NEW cb \in BOOLEAN
  PROVE  Begin(pc, h, d, cb) \in Doing /\ Begin(pc, h, d, cb).pc = pc /\ Begin(pc, h, d, cb).h = h
BY DEF Begin, Idle, Doing, Places

LEMMA IdleIsDoing == Idle \in Doing /\ Idle.pc = "idle" /\ NoRequest \in InHand /\ NoRequest.op = "none"
BY DEF Idle, Doing, Places, NoRequest, InHand

LEMMA ReturnIsDoing ==
  ASSUME NEW k \in Tasks, t[k] \in Doing, NEW pc \in Places
  PROVE  Return(k, pc) \in Doing /\ Return(k, pc).pc = pc
<1>1. CASE pc = "idle"
  BY <1>1, IdleIsDoing DEF Return
<1>2. CASE pc # "idle"
  <2>1. <<>> \in Seq(Bytes)
    OBVIOUS
  <2> QED
    BY <1>2, <2>1 DEF Return, Doing
<1> QED
  BY <1>1, <1>2

(* What is left behind a value that has been set. *)
LEMMA LeaveKeepsTypes ==
  ASSUME TaskTypes, NEW k \in Tasks, Leave(k) PROVE TaskTypes'
<1>1. Behind(k) \in {"idle", "send", "exec", "onWrite"}
  BY DEF Behind, Proceed
<1>2. t[k] \in Doing /\ Behind(k) \in Places
  BY <1>1 DEF TaskTypes, Places
<1>3. Return(k, Behind(k)) \in Doing /\ Return(k, Behind(k)).pc = Behind(k)
  BY <1>2, ReturnIsDoing
<1>4. x' \in {x, NoRequest, [x EXCEPT !.run = <<>>]}
  BY DEF Leave
<1>5. x' \in InHand /\ (x'.op = "read" => x'.h \in Handles)
  <2>1. CASE x' = NoRequest
    BY <2>1, IdleIsDoing
  <2>2. CASE x' = x
    BY <2>2 DEF TaskTypes
  <2>3. CASE x' = [x EXCEPT !.run = <<>>]
    <3>1. <<>> \in Seq(AllParts)
      OBVIOUS
    <3> QED
      BY <2>3, <3>1 DEF TaskTypes, InHand
  <2> QED
    BY <1>4, <2>1, <2>2, <2>3
<1>6. t' = [t EXCEPT ![k] = Return(k, Behind(k))]
  BY DEF Leave
<1> QED
  BY <1>1, <1>3, <1>5, <1>6 DEF TaskTypes

(* setValue() *)
LEMMA SetKeepsTypes ==
  ASSUME Types, NEW k \in Tasks, SetZero(k) \/ SetGrow(k) \/ SetCopy(k) \/ SetCompare(k)
  PROVE  Types'
<1>1. /\ t[k] \in Doing /\ t[k].h \in Handles /\ val[t[k].h] \in Attribute
      /\ t[k].data \in Seq(Bytes) /\ t[k].new \in Nat
  BY DEF SetZero, SetGrow, SetCopy, SetCompare, Types, TaskTypes, Doing
<1>0. ASSUME NEW pc \in Places, t' = [t EXCEPT ![k].pc = pc], x' \in InHand,
             x'.op = x.op, x'.h = x.h
      PROVE  TaskTypes'
  BY <1>0, <1>1 DEF Types, TaskTypes, Doing
<1>2. CASE SetZero(k)
  <2>0. \/ UNCHANGED <<val, t>>
        \/ /\ val' = [val EXCEPT ![t[k].h] = Zeroed(val[t[k].h])]
           /\ t' = [t EXCEPT ![k].pc = "grow"]
    BY <1>2 DEF SetZero
  <2>1. TaskTypes'
    <3>1. CASE UNCHANGED t
      BY <1>2, <3>1 DEF SetZero, Types, TaskTypes
    <3>2. CASE t' = [t EXCEPT ![k].pc = "grow"]
      <4>1. "grow" \in Places /\ x' = x /\ x \in InHand
        BY <1>2 DEF SetZero, Places, Types, TaskTypes
      <4> QED
        BY <1>0, <3>2, <4>1
    <3> QED
      BY <2>0, <3>1, <3>2
  <2>2. val' \in [Handles -> Attribute]
    <3>1. Zeroed(val[t[k].h]) \in Attribute
      BY <1>1, ValueTypes
    <3> QED
      BY <1>1, <2>0, <3>1 DEF Types
  <2> QED
    BY <1>2, <2>1, <2>2 DEF SetZero, Types, attVars
<1>3. CASE SetGrow(k)
  <2> DEFINE h == t[k].h
             n == val[h].len + Len(t[k].data)
  <2>1. n \in Nat
    BY <1>1 DEF Attribute
  <2> HIDE DEF n
  <2>2. \/ UNCHANGED val
        \/ \E moved \in BOOLEAN : val' = [val EXCEPT ![h] = Grown(val[h], n, moved)]
        \/ val' = [val EXCEPT ![h] = NotGrown(val[h], n)]
    BY <1>3 DEF SetGrow, n
  <2>3. val' \in [Handles -> Attribute]
    <3>1. NotGrown(val[h], n) \in Attribute /\ \A moved \in BOOLEAN : Grown(val[h], n, moved) \in Attribute
      BY <1>1, <2>1, ValueTypes
    <3> QED
      BY <1>1, <2>2, <3>1 DEF Types
  <2>4. TaskTypes'
    <3> DEFINE other == CHOOSE o \in Tasks : o # k
               goOn == [t EXCEPT ![k].pc = "copy", ![k].new = n, ![k].fresh = TRUE]
    <3>1. other \in Tasks
      BY DEF Tasks
    <3>2. \/ x' = x /\ t' = [t EXCEPT ![k].pc = "compare"]
          \/ UNCHANGED <<t, x>>
          \/ x' = x /\ t' = [goOn EXCEPT ![k].fresh = ~val[h].moved]
          \/ x' = x /\ t' = goOn
          \/ x' = x /\ t' = [goOn EXCEPT ![other].fresh = FALSE]
      BY <1>3 DEF SetGrow, n
    <3>3. goOn \in [Tasks -> Doing] /\ \A i \in Tasks : goOn[i].h = t[i].h /\ (i # k => goOn[i].pc = t[i].pc)
      <4>1. t \in [Tasks -> Doing] /\ "copy" \in Places
        BY DEF Types, TaskTypes, Places
      <4> QED
        BY <2>1, <4>1 DEF Doing
    <3>4. val[h].moved \in BOOLEAN
      BY <1>1 DEF Attribute
    <3> HIDE DEF goOn, other
    <3>5. CASE x' = x /\ t' = [t EXCEPT ![k].pc = "compare"]
      <4>1. "compare" \in Places /\ x \in InHand
        BY DEF Places, Types, TaskTypes
      <4> QED
        BY <1>0, <3>5, <4>1
    <3>6. CASE UNCHANGED <<t, x>>
      BY <3>6 DEF Types, TaskTypes
    <3>7. ASSUME NEW i \in Tasks, NEW f \in BOOLEAN, x' = x, t' = [goOn EXCEPT ![i].fresh = f]
          PROVE  TaskTypes'
      <4>1. t' \in [Tasks -> Doing] /\ \A j \in Tasks : t'[j].h = goOn[j].h /\ t'[j].pc = goOn[j].pc
        BY <3>3, <3>7 DEF Doing
      <4>2. \A j \in Tasks : t'[j].pc \in {"zero", "grow", "copy", "compare", "get"} => t'[j].h \in Handles
        BY <1>1, <3>3, <4>1 DEF Types, TaskTypes
      <4> QED
        BY <3>7, <4>1, <4>2 DEF Types, TaskTypes
    <3>8. CASE x' = x /\ t' = goOn
      BY <1>1, <3>3, <3>8 DEF Types, TaskTypes
    <3> QED
      BY <3>1, <3>2, <3>4, <3>5, <3>6, <3>7, <3>8
  <2> QED
    BY <1>3, <2>3, <2>4 DEF SetGrow, Types, attVars
<1>4. CASE SetCopy(k)
  <2>1. \/ /\ val' = [val EXCEPT ![t[k].h] = Copied(val[t[k].h], t[k].data, t[k].new)]
           /\ t' = [t EXCEPT ![k].pc = "compare"]
           /\ x' = x \/ x' = [x EXCEPT !.run = <<>>]
        \/ UNCHANGED <<val, t, x>>
    BY <1>4 DEF SetCopy
  <2>2. Copied(val[t[k].h], t[k].data, t[k].new) \in Attribute
    BY <1>1, ValueTypes
  <2>3. val' \in [Handles -> Attribute]
    BY <1>1, <2>1, <2>2 DEF Types
  <2>4. TaskTypes'
    <3>1. ASSUME t' = [t EXCEPT ![k].pc = "compare"], x' = x \/ x' = [x EXCEPT !.run = <<>>]
          PROVE  TaskTypes'
      <4>1. "compare" \in Places /\ <<>> \in Seq(AllParts)
        BY DEF Places
      <4>2. x' \in InHand /\ x'.op = x.op /\ x'.h = x.h
        BY <3>1, <4>1 DEF Types, TaskTypes, InHand
      <4> QED
        BY <1>0, <3>1, <4>1, <4>2
    <3>2. CASE UNCHANGED <<t, x>>
      BY <3>2 DEF Types, TaskTypes
    <3> QED
      BY <2>1, <3>1, <3>2
  <2> QED
    BY <1>4, <2>3, <2>4 DEF SetCopy, Types, attVars
<1>5. CASE SetCompare(k)
  <2>1. Leave(k) \/ UNCHANGED <<t, x>>
    BY <1>5 DEF SetCompare
  <2>2. TaskTypes'
    <3>1. CASE Leave(k)
      BY <3>1, LeaveKeepsTypes DEF Types
    <3>2. CASE UNCHANGED <<t, x>>
      BY <3>2 DEF Types, TaskTypes
    <3> QED
      BY <2>1, <3>1, <3>2
  <2> QED
    BY <1>5, <2>2 DEF SetCompare, Types, attVars
<1> QED
  BY <1>2, <1>3, <1>4, <1>5

(* The application, and the callbacks of the host task *)
LEMMA CallsKeepTypes ==
  ASSUME Types, AppSet \/ AppGet \/ AppGetCopy \/ Callback \/ ReadCopy
  PROVE  Types'
<1>0. UNCHANGED <<attVars, val>>
  BY DEF AppSet, AppGet, AppGetCopy, Callback, ReadCopy
<1> SUFFICES TaskTypes'
  BY <1>0 DEF Types, attVars
<1>1. CASE AppSet
  <2>1. PICK h \in AppSets, d \in AppData : t' = [t EXCEPT !["app"] = Begin("zero", h, d, FALSE)]
    BY <1>1 DEF AppSet
  <2>2. h \in Handles /\ d \in Seq(Bytes)
    BY HandlesAssumption, DataTypes DEF AllData
  <2>3. Begin("zero", h, d, FALSE) \in Doing /\ Begin("zero", h, d, FALSE).h = h
    <3>1. "zero" \in Places
      BY DEF Places
    <3> QED
      BY <2>2, <3>1, BeginIsDoing
  <2> QED
    BY <1>1, <2>1, <2>2, <2>3 DEF AppSet, Types, TaskTypes
<1>2. CASE AppGet
  <2>1. PICK h \in AppGets :
          t' = [t EXCEPT !["app"] = [Begin("get", h, <<>>, FALSE) EXCEPT !.new = val[h].cap]]
    BY <1>2 DEF AppGet
  <2>2. h \in Handles
    BY HandlesAssumption
  <2>3. val[h].cap \in Nat
    BY <2>2 DEF Types, Attribute
  <2>4. Begin("get", h, <<>>, FALSE) \in Doing /\ Begin("get", h, <<>>, FALSE).pc = "get"
        /\ Begin("get", h, <<>>, FALSE).h = h
    <3>1. "get" \in Places /\ <<>> \in Seq(Bytes)
      BY DEF Places
    <3> QED
      BY <2>2, <3>1, BeginIsDoing
  <2>5. /\ [Begin("get", h, <<>>, FALSE) EXCEPT !.new = val[h].cap] \in Doing
        /\ [Begin("get", h, <<>>, FALSE) EXCEPT !.new = val[h].cap].h = h
    BY <2>3, <2>4 DEF Doing
  <2> QED
    BY <1>2, <2>1, <2>2, <2>5 DEF AppGet, Types, TaskTypes, Tasks
<1>3. CASE AppGetCopy
  <2>1. x' = x /\ (t' = t \/ t' = [t EXCEPT !["app"] = Idle])
    BY <1>3 DEF AppGetCopy
  <2> QED
    BY <2>1, IdleIsDoing DEF Types, TaskTypes
<1>4. CASE ReadCopy
  <2>1. (UNCHANGED <<t, x>>) \/ (t' = [t EXCEPT !["host"] = Idle] /\ x' = NoRequest)
    BY <1>4 DEF ReadCopy
  <2> QED
    BY <2>1, IdleIsDoing DEF Types, TaskTypes
<1>5. CASE Callback
  <2>1. CASE /\ t' = [t EXCEPT !["host"] = Return("host", Proceed)]
             /\ x' = IF Proceed = "idle" THEN NoRequest ELSE x
    <3>1. Proceed \in {"send", "exec", "idle"}
      BY DEF Proceed
    <3>2. Return("host", Proceed) \in Doing /\ Return("host", Proceed).pc = Proceed
      <4>1. "host" \in Tasks /\ t["host"] \in Doing /\ Proceed \in Places
        BY <3>1 DEF Types, TaskTypes, Tasks, Places
      <4> QED
        BY <4>1, ReturnIsDoing
    <3> QED
      BY <2>1, <3>1, <3>2, IdleIsDoing DEF Types, TaskTypes
  <2>2. ASSUME NEW h \in CbSets, NEW d \in AppData,
               t' = [t EXCEPT !["host"] = Begin("zero", h, d, TRUE)], x' = x
        PROVE  TaskTypes'
    <3>1. h \in Handles /\ d \in Seq(Bytes)
      BY HandlesAssumption, DataTypes DEF AllData
    <3>2. Begin("zero", h, d, TRUE) \in Doing /\ Begin("zero", h, d, TRUE).h = h
      <4>1. "zero" \in Places
        BY DEF Places
      <4> QED
        BY <3>1, <4>1, BeginIsDoing
    <3> QED
      BY <2>2, <3>1, <3>2 DEF Types, TaskTypes
  <2> QED
    BY <1>5, <2>1, <2>2 DEF Callback
<1> QED
  BY <1>1, <1>2, <1>3, <1>4, <1>5

(* Requests of peers *)
LEMMA RequestsKeepTypes ==
  ASSUME Types, NEW c \in Conns, Peer(c) PROVE Types'
<1>1. ASSUME NEW h \in Handles, NEW first \in BOOLEAN, RxRead(c, h, first) PROVE Types'
  <2>1. [NoRequest EXCEPT !.conn = c, !.op = "read", !.h = h] \in InHand
        /\ [NoRequest EXCEPT !.conn = c, !.op = "read", !.h = h].h = h
    BY IdleIsDoing DEF NoRequest, InHand
  <2>2. [Idle EXCEPT !.pc = IF first THEN "onRead" ELSE "send"] \in Doing
        /\ [Idle EXCEPT !.pc = IF first THEN "onRead" ELSE "send"].pc \in {"onRead", "send"}
    BY IdleIsDoing DEF Idle, Doing, Places
  <2>3. TaskTypes'
    BY <1>1, <2>1, <2>2 DEF RxRead, Types, TaskTypes
  <2> QED
    BY <1>1, <2>3 DEF RxRead, Types, attVars
<1>2. ASSUME NEW h \in Handles, NEW d \in PeerData[c], RxWrite(c, h, d) PROVE Types'
  <2>1. [NoRequest EXCEPT !.conn = c, !.op = "write"] \in InHand
        /\ [NoRequest EXCEPT !.conn = c, !.op = "write"].op = "write"
    BY IdleIsDoing DEF NoRequest, InHand
  <2>2. d \in Seq(Bytes)
    BY DataTypes DEF AllData
  <2>3. Begin("zero", h, d, FALSE) \in Doing /\ Begin("zero", h, d, FALSE).h = h
    <3>1. "zero" \in Places
      BY DEF Places
    <3> QED
      BY <2>2, <3>1, BeginIsDoing
  <2>4. TaskTypes'
    BY <1>2, <2>1, <2>3 DEF RxWrite, Types, TaskTypes
  <2> QED
    BY <1>2, <2>4 DEF RxWrite, Types, attVars
<1>3. ASSUME NEW p \in PeerParts[c], RxPrepWrite(c, p) PROVE Types'
  <2>1. p \in AllParts
    BY DEF AllParts
  <2>2. Insert(prep[c], p) \in Seq(AllParts)
    BY <2>1, InsertAdds DEF Types
  <2>3. prep' \in [Conns -> Seq(AllParts)] /\ pool' \in Nat
    BY <1>3, <2>2 DEF RxPrepWrite, Types
  <2> QED
    BY <1>3, <2>3 DEF RxPrepWrite, Types, TaskTypes
<1>4. ASSUME NEW flags \in BOOLEAN, RxExecWrite(c, flags) PROVE Types'
  <2>1. prep[c] \in Seq(AllParts) /\ <<>> \in Seq(AllParts) /\ pool \in Nat
    BY DEF Types
  <2>2. prep' \in [Conns -> Seq(AllParts)]
    BY <1>4, <2>1 DEF RxExecWrite, Types
  <2>3. pool' \in Nat
    BY <1>4, <2>1 DEF RxExecWrite, Discard
  <2>4. CASE UNCHANGED <<t, x>>
    BY <1>4, <2>2, <2>3, <2>4 DEF RxExecWrite, Types, TaskTypes
  <2>5. CASE /\ x' = [NoRequest EXCEPT !.conn = c, !.op = "exec", !.list = prep[c]]
             /\ t' = [t EXCEPT !["host"] = [Idle EXCEPT !.pc = "exec"]]
    <3>1. [NoRequest EXCEPT !.conn = c, !.op = "exec", !.list = prep[c]] \in InHand
          /\ [NoRequest EXCEPT !.conn = c, !.op = "exec", !.list = prep[c]].op = "exec"
      BY <2>1, IdleIsDoing DEF NoRequest, InHand
    <3>2. [Idle EXCEPT !.pc = "exec"] \in Doing /\ [Idle EXCEPT !.pc = "exec"].pc = "exec"
      BY IdleIsDoing DEF Idle, Doing, Places
    <3>3. TaskTypes'
      BY <2>5, <3>1, <3>2 DEF Types, TaskTypes
    <3> QED
      BY <1>4, <2>2, <2>3, <3>3 DEF RxExecWrite, Types
  <2> QED
    BY <1>4, <2>4, <2>5 DEF RxExecWrite
<1> QED
  BY <1>1, <1>2, <1>3, <1>4 DEF Peer

(* ble_att_svr_prep_write(): what it takes from the list in hand *)
TheRun == SubSeq(x.list, 1, RunLength(x.list))
TheRest == SubSeq(x.list, RunLength(x.list) + 1, Len(x.list))
TheData == FlattenSeq([i \in 1..RunLength(x.list) |-> TheRun[i].data])

LEMMA ExecTypes ==
  ASSUME Types, x.list # <<>>
  PROVE  /\ RunLength(x.list) \in 1..Len(x.list)
         /\ x.list[1] \in AllParts /\ x.list[1].handle \in Handles
         /\ TheRun \in Seq(AllParts) /\ TheRest \in Seq(AllParts)
         /\ Len(TheRest) = Len(x.list) - RunLength(x.list)
         /\ \A i \in DOMAIN TheRest : \E j \in DOMAIN x.list : TheRest[i] = x.list[j]
         /\ TheData \in Seq(Bytes)
<1> DEFINE q == x.list
           n == RunLength(x.list)
<1>1. q \in Seq(AllParts) /\ q # <<>>
  BY DEF Types, TaskTypes, InHand
<1>2. n \in 1..Len(q)
  BY <1>1, RunIsNotEmpty
<1>3. q[1] \in AllParts
  BY <1>1
<1> HIDE DEF q, n
<1>4. /\ SubSeq(q, 1, n) \in Seq(AllParts) /\ Len(SubSeq(q, 1, n)) = n
      /\ \A i \in 1..n : SubSeq(q, 1, n)[i] \in AllParts
  BY <1>1, <1>2
<1>5. /\ SubSeq(q, n + 1, Len(q)) \in Seq(AllParts)
      /\ Len(SubSeq(q, n + 1, Len(q))) = Len(q) - n
      /\ \A i \in 1..(Len(q) - n) : SubSeq(q, n + 1, Len(q))[i] = q[i + n] /\ i + n \in 1..Len(q)
  BY <1>1, <1>2
<1>6. [i \in 1..n |-> SubSeq(q, 1, n)[i].data] \in Seq(Seq(Bytes))
  <2>1. \A i \in 1..n : SubSeq(q, 1, n)[i].data \in Seq(Bytes)
    BY <1>4, DataTypes
  <2>2. [i \in 1..n |-> SubSeq(q, 1, n)[i].data] \in [1..n -> Seq(Bytes)]
    BY <2>1
  <2>3. n \in Nat
    BY <1>2
  <2> QED
    BY <2>2, <2>3
<1>7. FlattenSeq([i \in 1..n |-> SubSeq(q, 1, n)[i].data]) \in Seq(Bytes)
  BY <1>6, FlattenSeqIsSeq
<1>8. \A i \in DOMAIN SubSeq(q, n + 1, Len(q)) :
        \E j \in DOMAIN q : SubSeq(q, n + 1, Len(q))[i] = q[j]
  <2>1. DOMAIN SubSeq(q, n + 1, Len(q)) = 1..(Len(q) - n) /\ DOMAIN q = 1..Len(q)
    BY <1>1, <1>5
  <2> QED
    BY <1>5, <2>1
<1> QED
  BY <1>2, <1>3, <1>4, <1>5, <1>7, <1>8, DataTypes DEF q, n, TheRun, TheRest, TheData

(* What a step of ble_att_svr_prep_write() does *)
LEMMA ExecSteps ==
  ASSUME Types, ExecNext
  PROVE  \/ x.list = <<>> /\ FinishExec(<<>>, "executed") /\ UNCHANGED fault
         \/ /\ x.list # <<>> /\ x.list[1].handle \notin visible
            /\ fault' = "null" /\ UNCHANGED <<pool, t, x>>
         \/ x.list # <<>> /\ FinishExec(x.list, "failed") /\ UNCHANGED fault
         \/ /\ x.list # <<>> /\ Len(TheData) <= MaxLen[x.list[1].handle]
            /\ pool' = pool + RunLength(x.list)
            /\ x' = [x EXCEPT !.list = TheRest, !.run = TheRun]
            /\ t' = [t EXCEPT !["host"] = Begin("zero", x.list[1].handle, TheData, FALSE)]
            /\ UNCHANGED fault
BY DEF ExecNext, TheRun, TheRest, TheData

LEMMA ExecKeepsTypes ==
  ASSUME Types, ExecNext PROVE Types'
<1>0. UNCHANGED <<link, visible, prep, val>>
  BY DEF ExecNext
<1>1. ASSUME NEW list \in Seq(AllParts), NEW a, FinishExec(list, a) PROVE Types'
  <2>1. TaskTypes'
    BY <1>1, IdleIsDoing DEF FinishExec, Types, TaskTypes
  <2>2. pool' \in Nat
    BY <1>1 DEF FinishExec, Discard, Types
  <2> QED
    BY <1>0, <2>1, <2>2 DEF Types
<1>2. CASE UNCHANGED <<pool, t, x>>
  BY <1>0, <1>2 DEF Types, TaskTypes
<1>3. CASE /\ x.list # <<>>
           /\ pool' = pool + RunLength(x.list)
           /\ x' = [x EXCEPT !.list = TheRest, !.run = TheRun]
           /\ t' = [t EXCEPT !["host"] = Begin("zero", x.list[1].handle, TheData, FALSE)]
  <2>1. /\ RunLength(x.list) \in Nat /\ x.list[1].handle \in Handles
        /\ TheRun \in Seq(AllParts) /\ TheRest \in Seq(AllParts) /\ TheData \in Seq(Bytes)
    BY <1>3, ExecTypes
  <2>2. x' \in InHand /\ x'.op = x.op /\ x'.h = x.h
    BY <1>3, <2>1 DEF Types, TaskTypes, InHand
  <2>3. LET b == Begin("zero", x.list[1].handle, TheData, FALSE)
        IN b \in Doing /\ b.h = x.list[1].handle
    <3>1. "zero" \in Places
      BY DEF Places
    <3> QED
      BY <2>1, <3>1, BeginIsDoing
  <2>4. TaskTypes'
    BY <1>3, <2>1, <2>2, <2>3 DEF Types, TaskTypes
  <2>5. pool' \in Nat
    BY <1>3, <2>1 DEF Types
  <2> QED
    BY <1>0, <2>4, <2>5 DEF Types
<1>4. x.list \in Seq(AllParts) /\ <<>> \in Seq(AllParts)
  BY DEF Types, TaskTypes, InHand
<1> QED
  BY <1>1, <1>2, <1>3, <1>4, ExecSteps

(* Connections, and services that are removed *)
LEMMA LinksKeepTypes ==
  ASSUME Types, Hide \/ \E c \in Conns : Connect(c) \/ PrepTimeout(c) \/ LinkEnd(c)
  PROVE  Types'
<1>1. CASE Hide
  BY <1>1 DEF Hide, Types, TaskTypes
<1>2. ASSUME NEW c \in Conns, Connect(c) \/ PrepTimeout(c) PROVE Types'
  BY <1>2 DEF Connect, PrepTimeout, Types, TaskTypes, Links
<1>3. ASSUME NEW c \in Conns, LinkEnd(c) PROVE Types'
  <2>1. prep' \in [Conns -> Seq(AllParts)] /\ pool' \in Nat
    BY <1>3 DEF LinkEnd, Discard, Types
  <2> QED
    BY <1>3, <2>1 DEF LinkEnd, Types, TaskTypes, Links
<1> QED
  BY <1>1, <1>2, <1>3

LEMMA TypesInductive == Types /\ [Next]_vars => Types'
<1> SUFFICES ASSUME Types, [Next]_vars PROVE Types'
  OBVIOUS
<1>1. CASE HostStep \/ AppStep
  BY <1>1, SetKeepsTypes, CallsKeepTypes, ExecKeepsTypes DEF HostStep, AppStep, Step, Tasks
<1>2. CASE AppSet \/ AppGet \/ Hide
  BY <1>2, CallsKeepTypes, LinksKeepTypes
<1>3. ASSUME NEW c \in Conns, Connect(c) \/ PrepTimeout(c) \/ LinkEnd(c) \/ Peer(c) PROVE Types'
  BY <1>3, LinksKeepTypes, RequestsKeepTypes
<1>4. CASE UNCHANGED vars
  BY <1>4 DEF vars, attVars, Types, TaskTypes
<1> QED
  BY <1>1, <1>2, <1>3, <1>4 DEF Next

LEMMA InitTypes == Init => Types
<1> SUFFICES ASSUME Init PROVE Types
  OBVIOUS
<1>1. NewValue \in Attribute
  <2>1. [i \in 1..InitLen |-> Zero] \in Seq(Bytes)
    <3>1. Zero \in Bytes /\ InitLen \in Nat
      BY LengthsAssumption DEF Bytes
    <3> QED
      BY <3>1
  <2>2. InitLen \in Nat
    BY LengthsAssumption
  <2> QED
    BY <2>1, <2>2 DEF NewValue, Attribute
<1>2. TaskTypes
  BY IdleIsDoing DEF Init, TaskTypes
<1>3. prep \in [Conns -> Seq(AllParts)]
  BY DEF Init
<1>4. pool \in Nat
  BY BoundsAssumption DEF Init
<1> QED
  BY <1>1, <1>2, <1>3, <1>4 DEF Init, Types, Links

-----------------------------------------------------------------------------
(* The pool of prepared entries *)

(* A list is in hand only while it is executed. *)
ListInHand ==
  /\ x.list # <<>> => x.op = "exec" /\ x.conn \in Conns
  /\ t["host"].pc = "idle" => x.list = <<>>
  /\ t["host"].pc \in {"send", "onRead"} => x.op = "read"

PoolInv == ListInHand /\ IsFiniteSet(Queued) /\ PoolConserved

(* The entries stay where they are. *)
LEMMA PoolUntouched ==
  ASSUME PoolInv, UNCHANGED <<prep, pool>>, x'.list = x.list, ListInHand'
  PROVE  PoolInv'
BY DEF PoolInv, PoolConserved, Queued

(* Setting a value, and the application's calls, leave the list in hand.     *)
LEMMA LeaveKeepsList ==
  ASSUME Types, ListInHand, NEW k \in Tasks, Leave(k)
  PROVE  x'.list = x.list /\ ListInHand'
<1>1. CASE k = "app"
  BY <1>1 DEF Leave, ListInHand, Types, TaskTypes, Tasks
<1>2. CASE k = "host"
  <2>1. t'["host"] = Return("host", Behind("host"))
    BY <1>2 DEF Leave, Types, TaskTypes, Tasks
  <2>2. t'["host"].pc = Behind("host")
    <3>1. t["host"] \in Doing /\ Behind("host") \in Places
      BY DEF Behind, Proceed, Places, Types, TaskTypes, Tasks
    <3> QED
      BY <2>1, <3>1, ReturnIsDoing DEF Tasks
  <2>3. CASE Behind("host") = "idle"
    <3>1. x' = NoRequest /\ x.op # "exec"
      BY <1>2, <2>3 DEF Leave, Behind, Proceed
    <3> QED
      BY <2>2, <2>3, <3>1 DEF ListInHand, NoRequest
  <2>4. CASE Behind("host") # "idle"
    <3>1. x' = [x EXCEPT !.run = <<>>]
      BY <1>2, <2>4 DEF Leave
    <3>2. x'.list = x.list /\ x'.op = x.op /\ x'.conn = x.conn
      BY <3>1 DEF Types, TaskTypes, InHand
    <3>3. Behind("host") = "send" => x.op = "read"
      BY DEF Behind, Proceed
    <3>4. Behind("host") # "onRead"
      BY DEF Behind, Proceed
    <3> QED
      BY <2>2, <2>4, <3>2, <3>3, <3>4 DEF ListInHand
  <2> QED
    BY <2>3, <2>4
<1> QED
  BY <1>1, <1>2 DEF Tasks

LEMMA SetKeepsPool ==
  ASSUME Types, PoolInv, NEW k \in Tasks, SetZero(k) \/ SetGrow(k) \/ SetCopy(k) \/ SetCompare(k)
  PROVE  PoolInv'
<1>1. UNCHANGED <<prep, pool>>
  BY DEF SetZero, SetGrow, SetCopy, SetCompare, attVars
<1>2. CASE Leave(k)
  BY <1>1, <1>2, LeaveKeepsList, PoolUntouched DEF PoolInv
<1>3. CASE UNCHANGED <<t, x>>
  BY <1>1, <1>3, PoolUntouched DEF PoolInv, ListInHand
<1>4. ASSUME x' = x \/ x' = [x EXCEPT !.run = <<>>],
             t'["host"].pc \in {t["host"].pc, "grow", "copy", "compare"}
      PROVE  PoolInv'
  <2>1. x'.list = x.list /\ x'.op = x.op /\ x'.conn = x.conn
    BY <1>4 DEF Types, TaskTypes, InHand
  <2>2. ListInHand'
    BY <1>4, <2>1 DEF PoolInv, ListInHand
  <2> QED
    BY <1>1, <2>1, <2>2, PoolUntouched
<1>8. ASSUME NEW pc \in Places, t' = [t EXCEPT ![k].pc = pc]
      PROVE  t'["host"].pc \in {t["host"].pc, pc}
  BY <1>8 DEF Types, TaskTypes, Doing, Tasks
<1>5. CASE SetZero(k)
  <2>1. x' = x /\ (t' = t \/ t' = [t EXCEPT ![k].pc = "grow"]) /\ "grow" \in Places
    BY <1>5 DEF SetZero, Places
  <2> QED
    BY <1>3, <1>4, <1>8, <2>1
<1>6. CASE SetCopy(k)
  <2>1. \/ UNCHANGED <<t, x>>
        \/ /\ t' = [t EXCEPT ![k].pc = "compare"]
           /\ x' = x \/ x' = [x EXCEPT !.run = <<>>]
    BY <1>6 DEF SetCopy
  <2>2. "compare" \in Places
    BY DEF Places
  <2> QED
    BY <1>3, <1>4, <1>8, <2>1, <2>2
<1>9. CASE SetCompare(k)
  BY <1>2, <1>3, <1>9 DEF SetCompare
<1>7. CASE SetGrow(k)
  <2> DEFINE h == t[k].h
             n == val[h].len + Len(t[k].data)
             other == CHOOSE o \in Tasks : o # k
             goOn == [t EXCEPT ![k].pc = "copy", ![k].new = n, ![k].fresh = TRUE]
  <2>1. \/ x' = x /\ t' = [t EXCEPT ![k].pc = "compare"]
        \/ UNCHANGED <<t, x>>
        \/ x' = x /\ t' = [goOn EXCEPT ![k].fresh = ~val[h].moved]
        \/ x' = x /\ t' = goOn
        \/ x' = x /\ t' = [goOn EXCEPT ![other].fresh = FALSE]
    BY <1>7 DEF SetGrow
  <2>2. /\ "host" \in Tasks /\ goOn["host"].pc \in {t["host"].pc, "copy"}
        /\ goOn \in [Tasks -> Doing]
    <3>1. t \in [Tasks -> Doing] /\ "copy" \in Places /\ "host" \in Tasks /\ n \in Nat
      <4>1. val[h] \in Attribute /\ t[k].data \in Seq(Bytes)
        BY <1>7 DEF SetGrow, Types, TaskTypes, Doing
      <4> QED
        BY <4>1 DEF Types, TaskTypes, Places, Tasks, Attribute
    <3> HIDE DEF n
    <3> QED
      BY <3>1 DEF Doing
  <2> HIDE DEF goOn, other
  <2>3. ASSUME NEW i, NEW f, t' = [goOn EXCEPT ![i].fresh = f]
        PROVE  t'["host"].pc = goOn["host"].pc
    BY <2>2, <2>3 DEF Doing
  <2>4. "compare" \in Places
    BY DEF Places
  <2> QED
    BY <1>3, <1>4, <1>8, <2>1, <2>2, <2>3, <2>4
<1> QED
  BY <1>5, <1>6, <1>7, <1>9

LEMMA CallsKeepPool ==
  ASSUME Types, PoolInv, AppSet \/ AppGet \/ AppGetCopy \/ Callback \/ ReadCopy
  PROVE  PoolInv'
<1>0. UNCHANGED <<prep, pool>>
  BY DEF AppSet, AppGet, AppGetCopy, Callback, ReadCopy, attVars
<1>1. CASE AppSet \/ AppGet \/ AppGetCopy
  <2>1. x' = x /\ t'["host"] = t["host"]
    BY <1>1 DEF AppSet, AppGet, AppGetCopy, Types, TaskTypes, Tasks
  <2> QED
    BY <1>0, <2>1, PoolUntouched DEF PoolInv, ListInHand
<1>2. CASE ReadCopy
  <2>1. \/ UNCHANGED <<t, x>>
        \/ t["host"].pc = "send" /\ x' = NoRequest
    BY <1>2 DEF ReadCopy
  <2>2. CASE UNCHANGED <<t, x>>
    BY <1>0, <2>2, PoolUntouched DEF PoolInv, ListInHand
  <2>3. CASE t["host"].pc = "send" /\ x' = NoRequest /\ ~UNCHANGED <<t, x>>
    <3>1. x.list = <<>> /\ x'.list = <<>>
      BY <2>3 DEF PoolInv, ListInHand, NoRequest
    <3>2. t'["host"].pc = "idle"
      BY <1>2, <2>3, IdleIsDoing DEF ReadCopy, Types, TaskTypes, Tasks
    <3> QED
      BY <1>0, <2>3, <3>1, <3>2, PoolUntouched DEF ListInHand
  <2> QED
    BY <2>1, <2>2, <2>3
<1>3. CASE Callback
  <2>1. ASSUME t' = [t EXCEPT !["host"] = Return("host", Proceed)],
               x' = IF Proceed = "idle" THEN NoRequest ELSE x
        PROVE  PoolInv'
    <3>1. t'["host"].pc = Proceed
      <4>1. t["host"] \in Doing /\ Proceed \in Places /\ "host" \in Tasks
        BY DEF Proceed, Places, Types, TaskTypes, Tasks
      <4> QED
        BY <2>1, <4>1, ReturnIsDoing DEF Types, TaskTypes
    <3>2. x'.list = x.list /\ ListInHand'
      BY <2>1, <3>1 DEF Proceed, PoolInv, ListInHand, NoRequest
    <3> QED
      BY <1>0, <3>2, PoolUntouched
  <2>2. ASSUME NEW h, NEW d, t' = [t EXCEPT !["host"] = Begin("zero", h, d, TRUE)], x' = x
        PROVE  PoolInv'
    <3>1. t'["host"].pc = "zero"
      BY <2>2 DEF Begin, Idle, Types, TaskTypes, Tasks
    <3> QED
      BY <1>0, <2>2, <3>1, PoolUntouched DEF PoolInv, ListInHand
  <2> QED
    BY <1>3, <2>1, <2>2 DEF Callback
<1> QED
  BY <1>1, <1>2, <1>3

(* A list is replaced and the pool makes up for it. *)
LEMMA PoolMakesUp ==
  ASSUME Types, PoolInv, NEW c \in Conns, NEW q \in Seq(AllParts),
         prep' = [prep EXCEPT ![c] = q],
         x' \in InHand, pool' \in Nat,
         pool' + Len(q) + Len(x'.list) = pool + Len(prep[c]) + Len(x.list),
         ListInHand'
  PROVE  PoolInv'
<1>1. /\ IsFiniteSet(Queued')
      /\ Cardinality(Queued') = Cardinality(Queued) - Len(prep[c]) + Len(q)
  BY ListReplaced DEF Types, PoolInv
<1>2. Cardinality(Queued) \in Nat /\ Len(prep[c]) \in Nat /\ Len(q) \in Nat
      /\ Len(x.list) \in Nat /\ Len(x'.list) \in Nat /\ pool \in Nat
  BY FS_CardinalityType DEF PoolInv, Types, TaskTypes, InHand
<1>3. pool + Cardinality(Queued) + Len(x.list) = MaxPrep
  BY DEF PoolInv, PoolConserved
<1>4. pool' + Cardinality(Queued') + Len(x'.list) = MaxPrep
  <2>1. \A p, k, l, m, pp, r, mm \in Nat :
          pp + r + mm = p + l + m => pp + (k - l + r) + mm = p + k + m
    OBVIOUS
  <2> DEFINE k == Cardinality(Queued)
             l == Len(prep[c])
             m == Len(x.list)
             r == Len(q)
             mm == Len(x'.list)
             pp == pool'
  <2>2. /\ pool \in Nat /\ k \in Nat /\ l \in Nat /\ m \in Nat /\ pp \in Nat
        /\ r \in Nat /\ mm \in Nat
        /\ pp + r + mm = pool + l + m
    BY <1>2
  <2>3. pool + k + m = MaxPrep /\ Cardinality(Queued') = k - l + r
    BY <1>1, <1>3
  <2> HIDE DEF k, l, m, r, mm, pp
  <2>4. pp + (k - l + r) + mm = MaxPrep
    BY <2>1, <2>2, <2>3
  <2> QED
    BY <2>3, <2>4 DEF mm, pp
<1> QED
  BY <1>1, <1>4 DEF PoolInv, PoolConserved

LEMMA RequestsKeepPool ==
  ASSUME Types, PoolInv, NEW c \in Conns, Peer(c) PROVE PoolInv'
<1>0. t["host"].pc = "idle" /\ x.list = <<>> /\ "host" \in Tasks
  BY DEF Peer, RxRead, RxWrite, RxPrepWrite, RxExecWrite, Request, Ready, PoolInv, ListInHand, Tasks
<1>1. ASSUME NEW h \in Handles, NEW first \in BOOLEAN, RxRead(c, h, first) PROVE PoolInv'
  <2>1. x'.list = <<>> /\ x'.op = "read" /\ t'["host"].pc \in {"onRead", "send"}
    BY <1>0, <1>1 DEF RxRead, NoRequest, Idle, Types, TaskTypes
  <2> QED
    BY <1>0, <1>1, <2>1, PoolUntouched DEF RxRead, attVars, ListInHand
<1>2. ASSUME NEW h \in Handles, NEW d \in PeerData[c], RxWrite(c, h, d) PROVE PoolInv'
  <2>1. x'.list = <<>> /\ t'["host"].pc = "zero"
    BY <1>0, <1>2 DEF RxWrite, NoRequest, Begin, Idle, Types, TaskTypes
  <2> QED
    BY <1>0, <1>2, <2>1, PoolUntouched DEF RxWrite, attVars, ListInHand
<1>3. ASSUME NEW p \in PeerParts[c], RxPrepWrite(c, p) PROVE PoolInv'
  <2>0. p \in AllParts /\ prep[c] \in Seq(AllParts)
    BY DEF Types, AllParts
  <2>1. /\ Insert(prep[c], p) \in Seq(AllParts)
        /\ Len(Insert(prep[c], p)) = Len(prep[c]) + 1
    BY <2>0, InsertAdds
  <2>2. /\ prep' = [prep EXCEPT ![c] = Insert(prep[c], p)]
        /\ pool' = pool - 1 /\ pool > 0 /\ UNCHANGED <<t, x>>
    BY <1>3 DEF RxPrepWrite
  <2>3. pool' \in Nat /\ x' \in InHand /\ ListInHand'
    BY <2>2 DEF Types, TaskTypes, PoolInv, ListInHand
  <2>4. pool \in Nat /\ Len(prep[c]) \in Nat /\ Len(x.list) \in Nat
    BY DEF Types, TaskTypes, InHand
  <2>5. pool' + Len(Insert(prep[c], p)) + Len(x'.list) = pool + Len(prep[c]) + Len(x.list)
    <3>1. \A i, j, k \in Nat : (i - 1) + (j + 1) + k = i + j + k
      OBVIOUS
    <3>2. (pool - 1) + (Len(prep[c]) + 1) + Len(x.list) = pool + Len(prep[c]) + Len(x.list)
      BY <2>4, <3>1
    <3> QED
      BY <2>1, <2>2, <3>2
  <2> QED
    BY <2>1, <2>2, <2>3, <2>5, PoolMakesUp
<1>4. ASSUME NEW flags \in BOOLEAN, RxExecWrite(c, flags) PROVE PoolInv'
  <2>1. /\ prep' = [prep EXCEPT ![c] = <<>>] /\ <<>> \in Seq(AllParts)
        /\ pool \in Nat /\ Len(prep[c]) \in Nat /\ prep[c] \in Seq(AllParts)
    BY <1>4 DEF RxExecWrite, Types
  <2>2. CASE UNCHANGED <<t, x>> /\ pool' = pool + Len(prep[c])
    <3>1. pool' \in Nat /\ x' \in InHand /\ ListInHand' /\ Len(x.list) = 0
      BY <1>0, <2>1, <2>2 DEF Types, TaskTypes, PoolInv, ListInHand
    <3>2. pool' + Len(<<>>) + Len(x'.list) = pool + Len(prep[c]) + Len(x.list)
      BY <2>1, <2>2, <3>1
    <3> QED
      BY <2>1, <3>1, <3>2, PoolMakesUp
  <2>3. CASE /\ UNCHANGED pool
             /\ x' = [NoRequest EXCEPT !.conn = c, !.op = "exec", !.list = prep[c]]
             /\ t' = [t EXCEPT !["host"] = [Idle EXCEPT !.pc = "exec"]]
    <3>1. x'.list = prep[c] /\ x'.op = "exec" /\ x'.conn = c /\ x' \in InHand
      BY <2>1, <2>3, IdleIsDoing DEF NoRequest, InHand
    <3>2. t'["host"].pc = "exec"
      BY <1>0, <2>3 DEF Idle, Types, TaskTypes
    <3>3. ListInHand'
      BY <3>1, <3>2 DEF ListInHand
    <3>4. pool' \in Nat /\ pool' + Len(<<>>) + Len(x'.list) = pool + Len(prep[c]) + Len(x.list)
      BY <1>0, <2>1, <2>3, <3>1
    <3> QED
      BY <2>1, <3>1, <3>3, <3>4, PoolMakesUp
  <2> QED
    BY <1>4, <2>2, <2>3 DEF RxExecWrite, Discard
<1> QED
  BY <1>1, <1>2, <1>3, <1>4 DEF Peer

LEMMA ExecKeepsPool ==
  ASSUME Types, PoolInv, ExecNext PROVE PoolInv'
<1>0. UNCHANGED <<prep, Queued>> /\ t["host"].pc = "exec" /\ "host" \in Tasks
  BY DEF ExecNext, Queued, Tasks
<1>1. Cardinality(Queued) \in Nat /\ pool \in Nat /\ x.list \in Seq(AllParts)
  BY FS_CardinalityType DEF PoolInv, Types, TaskTypes, InHand
<1>2. ASSUME NEW a, FinishExec(x.list, a) PROVE PoolInv'
  <2>1. pool' = pool + Len(x.list) /\ x'.list = <<>> /\ t'["host"].pc = "idle"
    BY <1>0, <1>2, IdleIsDoing DEF FinishExec, Discard, NoRequest, Types, TaskTypes
  <2> QED
    BY <1>0, <1>1, <2>1 DEF PoolInv, PoolConserved, ListInHand
<1>3. CASE UNCHANGED <<pool, t, x>>
  BY <1>0, <1>3, PoolUntouched DEF PoolInv, ListInHand
<1>4. CASE /\ x.list # <<>>
           /\ pool' = pool + RunLength(x.list)
           /\ x' = [x EXCEPT !.list = TheRest, !.run = TheRun]
           /\ t' = [t EXCEPT !["host"] = Begin("zero", x.list[1].handle, TheData, FALSE)]
  <2>1. /\ RunLength(x.list) \in 1..Len(x.list)
        /\ Len(TheRest) = Len(x.list) - RunLength(x.list)
    BY <1>4, ExecTypes
  <2>2. /\ x'.list = TheRest /\ x'.op = x.op /\ x'.conn = x.conn
        /\ t'["host"].pc = "zero"
    BY <1>0, <1>4 DEF Begin, Idle, Types, TaskTypes, InHand
  <2>3. ListInHand'
    BY <1>4, <2>2 DEF PoolInv, ListInHand
  <2>4. pool' + Cardinality(Queued') + Len(x'.list) = MaxPrep
    BY <1>0, <1>1, <1>4, <2>1, <2>2 DEF PoolInv, PoolConserved
  <2> QED
    BY <1>0, <2>3, <2>4 DEF PoolInv, PoolConserved
<1> QED
  BY <1>2, <1>3, <1>4, ExecSteps

LEMMA LinksKeepPool ==
  ASSUME Types, PoolInv, Hide \/ \E c \in Conns : Connect(c) \/ PrepTimeout(c) \/ LinkEnd(c)
  PROVE  PoolInv'
<1>1. CASE Hide \/ \E c \in Conns : Connect(c) \/ PrepTimeout(c)
  BY <1>1, PoolUntouched DEF Hide, Connect, PrepTimeout, PoolInv, ListInHand
<1>2. ASSUME NEW c \in Conns, LinkEnd(c) PROVE PoolInv'
  <2>1. /\ prep' = [prep EXCEPT ![c] = <<>>] /\ <<>> \in Seq(AllParts)
        /\ pool' = pool + Len(prep[c]) /\ UNCHANGED <<t, x>>
    BY <1>2 DEF LinkEnd, Discard
  <2>2. pool \in Nat /\ Len(prep[c]) \in Nat /\ x' \in InHand /\ Len(x.list) \in Nat /\ ListInHand'
    BY <2>1 DEF Types, TaskTypes, InHand, PoolInv, ListInHand
  <2>3. pool' \in Nat /\ pool' + Len(<<>>) + Len(x'.list) = pool + Len(prep[c]) + Len(x.list)
    BY <2>1, <2>2
  <2> QED
    BY <2>1, <2>2, <2>3, PoolMakesUp
<1> QED
  BY <1>1, <1>2

LEMMA PoolInvInductive == Types /\ PoolInv /\ [Next]_vars => PoolInv'
<1> SUFFICES ASSUME Types, PoolInv, [Next]_vars PROVE PoolInv'
  OBVIOUS
<1>1. CASE HostStep \/ AppStep
  BY <1>1, SetKeepsPool, CallsKeepPool, ExecKeepsPool DEF HostStep, AppStep, Step, Tasks
<1>2. CASE AppSet \/ AppGet \/ Hide
  BY <1>2, CallsKeepPool, LinksKeepPool
<1>3. ASSUME NEW c \in Conns, Connect(c) \/ PrepTimeout(c) \/ LinkEnd(c) \/ Peer(c) PROVE PoolInv'
  BY <1>3, LinksKeepPool, RequestsKeepPool
<1>4. CASE UNCHANGED vars
  BY <1>4, PoolUntouched DEF vars, attVars, PoolInv, ListInHand
<1> QED
  BY <1>1, <1>2, <1>3, <1>4 DEF Next

LEMMA InitPool == Init => PoolInv
<1> SUFFICES ASSUME Init PROVE PoolInv
  OBVIOUS
<1>1. Queued = {}
  BY DEF Init, Queued
<1>2. x.list = <<>> /\ MaxPrep \in Nat
  BY BoundsAssumption DEF Init, NoRequest
<1>3. t["host"].pc = "idle"
  BY DEF Init, Idle, Tasks
<1> QED
  BY <1>1, <1>2, <1>3, FS_EmptySet DEF Init, PoolInv, PoolConserved, ListInHand

LEMMA PoolInvariance == Spec => [](Types /\ PoolInv)
BY InitTypes, InitPool, TypesInductive, PoolInvInductive, PTL DEF Spec

(* Of the shared pool no entry is lost and none is freed twice, whoever      *)
(* prepares, cancels, executes, fails, times out or leaves.                *)
THEOREM PoolIsConserved == Spec => []PoolConserved
<1>1. PoolInv => PoolConserved
  BY DEF PoolInv
<1> QED
  BY <1>1, PoolInvariance, PTL

-----------------------------------------------------------------------------
(* No fault *)

HostSets == Writable \cup CbSets
Setting == {"zero", "grow", "copy", "compare"}

(* setValue() compares as many bytes as it was given: those of a value that  *)
(* the attribute takes, or as many as the first block has.                   *)
Fits(h, d) == Len(d) <= MaxLen[h] \/ Len(d) <= InitLen + 1

(* The rules for the application: services are removed while nobody is       *)
(* connected, memory for values is there, no value is set longer than its    *)
(* limit and than the first block, the application's task sets no value that *)
(* a peer or a callback sets, and reads only those among them that never     *)
(* outgrow their first block.                                                *)
Disciplined ==
  /\ ~HideAnytime /\ ~ReallocFails
  /\ \A h \in AppSets \cup CbSets, d \in AppData : Fits(h, d)
  /\ AppSets \cap HostSets = {}
  /\ \A h \in AppGets \cap HostSets : MaxLen[h] <= InitLen

(* Each task keeps to its own values. *)
Sides ==
  /\ t["app"].pc \in Setting => t["app"].h \in AppSets
  /\ t["host"].pc \in Setting => t["host"].h \in HostSets
  /\ t["app"].pc = "get" => t["app"].h \in AppGets

(* A value fits its block; a short one's block never moves. *)
GoodValue(h, v) ==
  /\ Len(v.buf) >= v.cap /\ v.cap >= InitLen
  /\ v.len <= v.cap /\ v.len <= MaxLen[h]
  /\ MaxLen[h] <= InitLen => ~v.moved
  /\ v.moved => v.len = 0

(* Only between append()'s realloc and its copy is a block that moved not    *)
(* the value's own yet.                                                      *)
Blocks ==
  \A h \in Handles :
    /\ GoodValue(h, val[h])
    /\ val[h].moved => \E k \in Tasks : t[k].pc = "copy" /\ t[k].h = h

(* What a step of setValue() knows of its value: it has been emptied, there   *)
(* is room for the data when it is copied, and as much when it is compared.   *)
GoodStep(w, v) ==
  /\ w.pc \in {"zero", "grow"} => Fits(w.h, w.data)
  /\ w.pc = "compare" => Len(w.data) <= Len(v.buf) + 1
  /\ w.pc \in {"grow", "copy"} => v.len = 0
  /\ w.pc = "copy" => /\ w.fresh /\ w.new = Len(w.data)
                      /\ w.new <= v.cap /\ w.new <= MaxLen[w.h]

(* getValue() has a block as large as the value's, or the value never needs  *)
(* more than the first one. *)
GoodGet(w, v) ==
  w.pc = "get" => w.new >= InitLen /\ (w.h \notin HostSets => w.new = v.cap)

Steps ==
  /\ \A k \in Tasks : t[k].pc \in Setting => GoodStep(t[k], val[t[k].h])
  /\ t["app"].pc = "get" => GoodGet(t["app"], val[t["app"].h])

(* Prepared parts are of attributes that are there, and their peer is. *)
Prepared ==
  /\ \A c \in Conns : prep[c] # <<>> => link[c] # "down"
  /\ \A c \in Conns : \A i \in DOMAIN prep[c] : prep[c][i].handle \in visible \cap Writable
  /\ x.list # <<>> => link[x.conn] # "down"
  /\ \A i \in DOMAIN x.list : x.list[i].handle \in visible \cap Writable

FaultInv == NoFault /\ Sides /\ Blocks /\ Steps /\ Prepared

(* The lengths behind the steps of setValue() *)
LEMMA ZeroedLengths ==
  ASSUME NEW v \in Attribute
  PROVE  /\ Len(Zeroed(v).buf) = Len(v.buf) /\ Zeroed(v).len = 0
         /\ Zeroed(v).cap = v.cap /\ Zeroed(v).moved = v.moved
<1>1. /\ Zeroed(v).buf = [v.buf EXCEPT ![1] = Zero] /\ Zeroed(v).len = 0
      /\ Zeroed(v).cap = v.cap /\ Zeroed(v).moved = v.moved
  BY DEF Zeroed, Attribute
<1>2. v.buf \in Seq(Bytes)
  BY DEF Attribute
<1>3. Len([v.buf EXCEPT ![1] = Zero]) = Len(v.buf)
  BY <1>2
<1> QED
  BY <1>1, <1>3

LEMMA GrownLengths ==
  ASSUME NEW v \in Attribute, NEW n \in Nat, NEW moved \in BOOLEAN
  PROVE  /\ Len(Grown(v, n, moved).buf) >= n /\ Grown(v, n, moved).len = v.len
         /\ Grown(v, n, moved).cap = n /\ Grown(v, n, moved).moved = moved
<1> DEFINE m == IF n > Len(v.buf) THEN n - Len(v.buf) ELSE 0
           z == [i \in 1..m |-> Zero]
<1>1. v.buf \in Seq(Bytes) /\ Len(v.buf) \in Nat
  BY DEF Attribute
<1>2. /\ Grown(v, n, moved).buf = v.buf \o z /\ Grown(v, n, moved).len = v.len
      /\ Grown(v, n, moved).cap = n /\ Grown(v, n, moved).moved = moved
  BY DEF Grown, Attribute
<1>3. m \in Nat /\ Len(v.buf) + m >= n
  <2>1. \A l \in Nat : /\ (IF n > l THEN n - l ELSE 0) \in Nat
                       /\ l + (IF n > l THEN n - l ELSE 0) >= n
    OBVIOUS
  <2> QED
    BY <1>1, <2>1
<1> HIDE DEF m
<1>4. z \in Seq(Bytes) /\ Len(z) = m
  <2>1. Zero \in Bytes
    BY DEF Bytes
  <2> QED
    BY <1>3, <2>1
<1> HIDE DEF z
<1>5. Len(v.buf \o z) = Len(v.buf) + m
  BY <1>1, <1>4
<1> QED
  BY <1>2, <1>3, <1>5

LEMMA CopiedLengths ==
  ASSUME NEW v \in Attribute, NEW d \in Seq(Bytes), NEW n \in Nat
  PROVE  /\ Len(Copied(v, d, n).buf) = Len(v.buf) /\ Copied(v, d, n).len = n
         /\ Copied(v, d, n).cap = v.cap /\ Copied(v, d, n).moved = FALSE
<1> DEFINE b == [i \in DOMAIN v.buf |-> IF i \in v.len + 1 .. v.len + Len(d) THEN d[i - v.len]
                                        ELSE IF i = n + 1 THEN Zero ELSE v.buf[i]]
<1>1. v.buf \in Seq(Bytes) /\ Copied(v, d, n).buf \in Seq(Bytes)
  BY ValueTypes DEF Attribute
<1>2. /\ Copied(v, d, n).buf = b /\ Copied(v, d, n).len = n
      /\ Copied(v, d, n).cap = v.cap /\ Copied(v, d, n).moved = FALSE
  BY DEF Copied, Attribute
<1>3. DOMAIN b = DOMAIN v.buf
  OBVIOUS
<1> HIDE DEF b
<1>4. Len(b) = Len(v.buf)
  BY <1>1, <1>2, <1>3
<1> QED
  BY <1>2, <1>4

(* The two tasks never set the same value, and nothing moves a block while   *)
(* another task works on it.                                                 *)
LEMMA ValuesApart ==
  ASSUME Disciplined, Sides, NEW k \in Tasks, NEW o \in Tasks, o # k,
         t[k].pc \in Setting, t[o].pc \in Setting
  PROVE  t[o].h # t[k].h
BY DEF Disciplined, Sides, Tasks

LEMMA BlockInPlace ==
  ASSUME Disciplined, Types, Sides, Blocks, NEW k \in Tasks, t[k].pc \in {"zero", "grow", "compare"}
  PROVE  ~val[t[k].h].moved
<1>1. t[k].h \in Handles /\ t[k].pc \in Setting /\ t[k].pc # "copy"
  BY DEF Types, TaskTypes, Setting
<1>2. ASSUME val[t[k].h].moved PROVE FALSE
  <2>1. PICK o \in Tasks : t[o].pc = "copy" /\ t[o].h = t[k].h
    BY <1>1, <1>2 DEF Blocks
  <2> QED
    BY <1>1, <2>1, ValuesApart DEF Setting
<1> QED
  BY <1>2

(* A step of setValue() changes one value for another good one. *)
LEMMA ValueTurns ==
  ASSUME Disciplined, Types, Sides, Blocks, Steps,
         NEW k \in Tasks, t[k].pc \in Setting, NEW v \in Attribute, NEW w \in Doing,
         val' = [val EXCEPT ![t[k].h] = v], t' = [t EXCEPT ![k] = w],
         GoodValue(t[k].h, v), v.moved => w.pc = "copy", w.pc # "get",
         w.pc \in Setting => w.h = t[k].h /\ GoodStep(w, v)
  PROVE  Sides' /\ Blocks' /\ Steps'
<1> DEFINE h == t[k].h
<1>1. h \in Handles /\ val'[h] = v /\ \A g \in Handles \ {h} : val'[g] = val[g]
  BY DEF Types, TaskTypes, Setting
<1>2. t'[k] = w /\ \A o \in Tasks \ {k} : t'[o] = t[o]
  BY DEF Types, TaskTypes
<1>3. Sides'
  BY <1>2 DEF Sides, Tasks, Setting
<1>4. Blocks'
  <2> SUFFICES ASSUME NEW g \in Handles
               PROVE  /\ GoodValue(g, val'[g])
                      /\ val'[g].moved => \E o \in Tasks : t'[o].pc = "copy" /\ t'[o].h = g
    BY DEF Blocks, GoodValue
  <2>1. CASE g = h
    BY <1>1, <1>2, <2>1 DEF Setting
  <2>2. CASE g # h
    <3>1. val'[g] = val[g] /\ GoodValue(g, val[g])
      BY <1>1, <2>2 DEF Blocks
    <3>2. ASSUME val[g].moved PROVE \E o \in Tasks : t'[o].pc = "copy" /\ t'[o].h = g
      <4>1. PICK o \in Tasks : t[o].pc = "copy" /\ t[o].h = g
        BY <3>2 DEF Blocks
      <4>2. t'[o] = t[o]
        BY <1>2, <2>2, <4>1
      <4> QED
        BY <4>1, <4>2
    <3> QED
      BY <3>1, <3>2
  <2> QED
    BY <2>1, <2>2
<1>5. Steps'
  <2>1. ASSUME NEW o \in Tasks, t'[o].pc \in Setting PROVE GoodStep(t'[o], val'[t'[o].h])
    <3>1. CASE o = k
      BY <1>1, <1>2, <2>1, <3>1
    <3>2. CASE o # k
      <4>1. t'[o] = t[o] /\ t[o].pc \in Setting /\ t[o].h # h
        BY <1>2, <2>1, <3>2, ValuesApart
      <4>2. t[o].h \in Handles
        BY <4>1 DEF Types, TaskTypes, Setting
      <4> QED
        BY <1>1, <4>1, <4>2 DEF Steps
    <3> QED
      BY <3>1, <3>2
  <2>2. ASSUME t'["app"].pc = "get" PROVE GoodGet(t'["app"], val'[t'["app"].h])
    <3>1. k = "host" /\ t'["app"] = t["app"] /\ "app" \in Tasks
      BY <1>2, <2>2 DEF Tasks
    <3>2. h \in HostSets
      BY <3>1 DEF Sides
    <3>3. t["app"].h \in Handles
      BY <2>2, <3>1 DEF Types, TaskTypes
    <3>4. GoodGet(t["app"], val[t["app"].h])
      BY <2>2, <3>1 DEF Steps
    <3> QED
      BY <1>1, <3>1, <3>2, <3>3, <3>4 DEF GoodGet
  <2> QED
    BY <2>1, <2>2 DEF Steps, GoodStep, GoodGet
<1> QED
  BY <1>3, <1>4, <1>5

(* A task that sets no value turns to another thing. *)
LEMMA TaskTurns ==
  ASSUME Types, Sides, Blocks, Steps,
         NEW k \in Tasks, t[k].pc # "copy", NEW w,
         UNCHANGED val, t' = [t EXCEPT ![k] = w],
         w.pc \notin {"grow", "copy", "compare"},
         w.pc = "zero" => /\ w.h \in (IF k = "app" THEN AppSets ELSE HostSets)
                          /\ Fits(w.h, w.data),
         w.pc = "get" => k = "app" /\ w.h \in AppGets /\ w.new = val[w.h].cap /\ w.new >= InitLen
  PROVE  Sides' /\ Blocks' /\ Steps'
<1>2. t'[k] = w /\ \A o \in Tasks \ {k} : t'[o] = t[o]
  BY DEF Types, TaskTypes
<1>3. Sides'
  BY <1>2 DEF Sides, Tasks, Setting
<1>4. Blocks'
  <2> SUFFICES ASSUME NEW g \in Handles
               PROVE  /\ GoodValue(g, val[g])
                      /\ val[g].moved => \E o \in Tasks : t'[o].pc = "copy" /\ t'[o].h = g
    BY DEF Blocks, GoodValue
  <2>1. ASSUME val[g].moved PROVE \E o \in Tasks : t'[o].pc = "copy" /\ t'[o].h = g
    <3>1. PICK o \in Tasks : t[o].pc = "copy" /\ t[o].h = g
      BY <2>1 DEF Blocks
    <3> QED
      BY <1>2, <3>1
  <2> QED
    BY <2>1 DEF Blocks
<1>5. Steps'
  <2>1. ASSUME NEW o \in Tasks, t'[o].pc \in Setting PROVE GoodStep(t'[o], val[t'[o].h])
    BY <1>2, <2>1 DEF Steps, GoodStep, Setting
  <2>2. ASSUME t'["app"].pc = "get" PROVE GoodGet(t'["app"], val[t'["app"].h])
    BY <1>2, <2>2 DEF Steps, GoodGet, Tasks
  <2> QED
    BY <2>1, <2>2 DEF Steps, GoodStep, GoodGet
<1> QED
  BY <1>3, <1>4, <1>5

(* The lists are as they were. *)
LEMMA PreparedUntouched ==
  ASSUME Prepared, UNCHANGED <<link, visible, prep>>, x'.list = x.list,
         x'.conn = x.conn \/ x'.list = <<>>
  PROVE  Prepared'
BY DEF Prepared

LEMMA LeaveKeepsPrepared ==
  ASSUME Types, ListInHand, Prepared, NEW k \in Tasks, Leave(k), UNCHANGED attVars
  PROVE  Prepared'
<1>1. x'.list = x.list
  BY LeaveKeepsList
<1>2. x' \in {x, NoRequest, [x EXCEPT !.run = <<>>]}
  BY DEF Leave
<1>3. x'.conn = x.conn \/ x'.list = <<>>
  BY <1>2 DEF NoRequest, Types, TaskTypes, InHand
<1> QED
  BY <1>1, <1>3, PreparedUntouched DEF attVars

(* Where a task goes behind setValue() it sets and reads no value. *)
LEMMA LeaveSetsNothing ==
  ASSUME Types, NEW k \in Tasks, Leave(k)
  PROVE  \E w \in Doing : t' = [t EXCEPT ![k] = w] /\ w.pc \notin Setting \cup {"get"}
<1>1. Behind(k) \in {"idle", "send", "exec", "onWrite"}
  BY DEF Behind, Proceed
<1>2. t[k] \in Doing /\ Behind(k) \in Places
  BY <1>1 DEF Types, TaskTypes, Places
<1>3. Return(k, Behind(k)) \in Doing /\ Return(k, Behind(k)).pc = Behind(k)
  BY <1>2, ReturnIsDoing
<1> QED
  BY <1>1, <1>3 DEF Leave, Setting

(* setValue() and append(): the value is emptied first, its block grows to   *)
(* the size of the data, the data is copied into it, and compared.           *)
LEMMA SetZeroIsSafe ==
  ASSUME Disciplined, Types, ListInHand, FaultInv, NEW k \in Tasks, SetZero(k)
  PROVE  FaultInv'
<1> DEFINE h == t[k].h
           v == Zeroed(val[h])
           w == [t[k] EXCEPT !.pc = "grow"]
<1>1. /\ t[k] \in Doing /\ t[k].pc \in Setting /\ h \in Handles /\ val[h] \in Attribute
      /\ "grow" \in Places
  BY DEF SetZero, Types, TaskTypes, Setting, Places
<1>2. /\ v \in Attribute /\ v.len = 0 /\ v.cap = val[h].cap /\ v.moved = val[h].moved
      /\ Len(v.buf) = Len(val[h].buf)
  <2>1. val[h].buf \in Seq(Bytes)
    BY <1>1 DEF Attribute
  <2> QED
    BY <1>1, <2>1, ValueTypes, ZeroedLengths
<1>3. ~v.moved
  BY <1>2, BlockInPlace DEF SetZero, FaultInv
<1>4. w \in Doing /\ w.pc = "grow" /\ w.h = h /\ w.data = t[k].data
  BY <1>1 DEF Doing
<1>5. /\ val' = [val EXCEPT ![h] = v] /\ t' = [t EXCEPT ![k] = w]
      /\ fault' = fault
  BY <1>2, <1>3 DEF SetZero
<1>6. GoodValue(h, v)
  <2>1. MaxLen[h] \in Nat
    BY <1>1, LengthsAssumption
  <2>2. GoodValue(h, val[h]) /\ InitLen \in Nat /\ val[h].cap \in Nat
    BY <1>1, LengthsAssumption DEF FaultInv, Blocks, Attribute
  <2> HIDE DEF v
  <2> QED
    BY <1>2, <1>3, <2>1, <2>2 DEF GoodValue
<1>7. GoodStep(w, v)
  <2>1. Fits(h, t[k].data)
    BY <1>1 DEF SetZero, FaultInv, Steps, GoodStep
  <2> QED
    BY <1>2, <1>4, <2>1 DEF GoodStep
<1> HIDE DEF v, w
<1>8. Sides' /\ Blocks' /\ Steps'
  BY <1>1, <1>2, <1>3, <1>4, <1>5, <1>6, <1>7, ValueTurns DEF FaultInv
<1>9. Prepared'
  BY PreparedUntouched DEF SetZero, FaultInv, attVars
<1> QED
  BY <1>5, <1>8, <1>9 DEF FaultInv, NoFault

LEMMA SetGrowIsSafe ==
  ASSUME Disciplined, Types, ListInHand, FaultInv, NEW k \in Tasks, SetGrow(k)
  PROVE  FaultInv'
<1> DEFINE h == t[k].h
           d == t[k].data
           n == Len(d)
           other == CHOOSE o \in Tasks : o # k
           w == [t[k] EXCEPT !.pc = "copy", !.new = n, !.fresh = TRUE]
           u == [t[k] EXCEPT !.pc = "compare"]
<1>1. /\ t[k] \in Doing /\ t[k].pc = "grow" /\ t[k].pc \in Setting /\ h \in Handles
      /\ val[h] \in Attribute /\ d \in Seq(Bytes) /\ n \in Nat
  <2>1. t[k] \in Doing /\ t[k].pc = "grow" /\ t[k].pc \in Setting
    BY DEF SetGrow, Types, TaskTypes, Setting
  <2>2. h \in Handles /\ val[h] \in Attribute
    BY <2>1 DEF Types, TaskTypes
  <2>3. d \in Seq(Bytes)
    BY <2>1 DEF Doing
  <2> QED
    BY <2>1, <2>2, <2>3
<1>2. val[h].len = 0 /\ ~val[h].moved /\ GoodValue(h, val[h])
  BY <1>1, BlockInPlace DEF FaultInv, Steps, GoodStep, Blocks
<1>3. val[h].len + Len(t[k].data) = n
  BY <1>1, <1>2
<1>4. /\ MaxLen[h] \in Nat /\ InitLen \in Nat /\ val[h].cap \in Nat /\ Len(val[h].buf) \in Nat
  <2>1. val[h].buf \in Seq(Bytes)
    BY <1>1 DEF Attribute
  <2> QED
    BY <1>1, <2>1, LengthsAssumption DEF Attribute
<1>5. /\ w \in Doing /\ w.pc = "copy" /\ w.new = n /\ w.fresh = TRUE /\ w.h = h
      /\ w.data = d
  <2>1. "copy" \in Places
    BY DEF Places
  <2> HIDE DEF n
  <2> QED
    BY <1>1, <2>1 DEF Doing
<1>6. \/ n > MaxLen[h] /\ t' = [t EXCEPT ![k] = u] /\ UNCHANGED <<val, x, fault>>
      \/ /\ n <= MaxLen[h] /\ n <= val[h].cap
         /\ t' = [t EXCEPT ![k] = w] /\ UNCHANGED <<val, x, fault>>
      \/ /\ n <= MaxLen[h] /\ n > val[h].cap
         /\ \E moved \in BOOLEAN :
              val' = [val EXCEPT ![h] = Grown(val[h], n, moved)]
         /\ t' = [t EXCEPT ![k] = w] /\ UNCHANGED <<x, fault>>
  <2> DEFINE goOn == [t EXCEPT ![k].pc = "copy", ![k].new = n, ![k].fresh = TRUE]
  <2>1. goOn = [t EXCEPT ![k] = w]
    <3> HIDE DEF n
    <3> QED
      BY <1>1 DEF Types, TaskTypes, Doing
  <2>2. [goOn EXCEPT ![k].fresh = ~val[h].moved] = [t EXCEPT ![k] = w]
    <3>1. ~val[h].moved = TRUE
      BY <1>2
    <3>2. [goOn EXCEPT ![k].fresh = TRUE] = [t EXCEPT ![k] = w]
      <4> HIDE DEF n
      <4> QED
        BY <1>1, <2>1 DEF Types, TaskTypes, Doing
    <3> QED
      BY <3>1, <3>2
  <2>5. [t EXCEPT ![k].pc = "compare"] = [t EXCEPT ![k] = u]
    OBVIOUS
  <2>3. ~(t[other].pc = "copy" /\ t[other].h = h)
    <3>1. other \in Tasks /\ other # k
      BY DEF Tasks
    <3> HIDE DEF other
    <3> QED
      BY <1>1, <3>1, ValuesApart DEF FaultInv, Setting
  <2>4. (n <= val[h].cap <=> ~(n > val[h].cap)) /\ ~ReallocFails
    BY <1>1, <1>4 DEF Disciplined
  <2> HIDE DEF goOn, other, n, w, u
  <2> QED
    BY <1>2, <1>3, <2>1, <2>2, <2>3, <2>4, <2>5 DEF SetGrow, NeedsBlock, n, goOn, other
<1>11. u \in Doing /\ u.pc = "compare" /\ u.h = h /\ u.data = d
  <2>1. "compare" \in Places
    BY DEF Places
  <2> QED
    BY <1>1, <2>1 DEF Doing
<1> HIDE DEF w, n, d, u
<1>7. CASE n > MaxLen[h] /\ t' = [t EXCEPT ![k] = u] /\ UNCHANGED <<val, x, fault>>
  <2>1. Fits(h, d)
    BY <1>1 DEF FaultInv, Steps, GoodStep, d
  <2>2. n <= InitLen + 1
    BY <1>1, <1>4, <1>7, <2>1 DEF Fits, n
  <2>3. n <= Len(val[h].buf) + 1
    BY <1>1, <1>2, <1>4, <2>2 DEF GoodValue
  <2>4. GoodStep(u, val[h])
    BY <1>11, <2>3 DEF GoodStep, n
  <2>5. val' = [val EXCEPT ![h] = val[h]]
    BY <1>1, <1>7 DEF Types
  <2>6. Sides' /\ Blocks' /\ Steps'
    BY <1>1, <1>2, <1>7, <1>11, <2>4, <2>5, ValueTurns DEF FaultInv
  <2>7. Prepared'
    BY <1>7, PreparedUntouched DEF SetGrow, FaultInv, attVars
  <2> QED
    BY <1>7, <2>6, <2>7 DEF FaultInv, NoFault
<1>8. ASSUME NEW v \in Attribute, n <= MaxLen[h], n <= v.cap, v.len = 0, GoodValue(h, v),
             val' = [val EXCEPT ![h] = v], t' = [t EXCEPT ![k] = w], UNCHANGED <<x, fault>>
      PROVE  FaultInv'
  <2>1. GoodStep(w, v)
    BY <1>5, <1>8 DEF GoodStep, n
  <2>2. Sides' /\ Blocks' /\ Steps'
    BY <1>1, <1>5, <1>8, <2>1, ValueTurns DEF FaultInv
  <2>3. Prepared'
    BY <1>8, PreparedUntouched DEF SetGrow, FaultInv, attVars
  <2> QED
    BY <1>8, <2>2, <2>3 DEF FaultInv, NoFault
<1>9. CASE /\ n <= MaxLen[h] /\ n <= val[h].cap
           /\ t' = [t EXCEPT ![k] = w] /\ UNCHANGED <<val, x, fault>>
  <2>1. val' = [val EXCEPT ![h] = val[h]]
    BY <1>1, <1>9 DEF Types
  <2> QED
    BY <1>1, <1>2, <1>8, <1>9, <2>1
<1>10. ASSUME NEW moved \in BOOLEAN, n <= MaxLen[h], n > val[h].cap,
              val' = [val EXCEPT ![h] = Grown(val[h], n, moved)],
              t' = [t EXCEPT ![k] = w], UNCHANGED <<x, fault>>
       PROVE  FaultInv'
  <2> DEFINE v == Grown(val[h], n, moved)
  <2>1. /\ v \in Attribute /\ Len(v.buf) >= n /\ v.len = 0 /\ v.cap = n /\ v.moved = moved
    <3>1. n \in Nat
      BY <1>1
    <3>2. <<>> \in Seq(Bytes)
      OBVIOUS
    <3>3. v \in Attribute
      BY <1>1, <3>1, <3>2, ValueTypes
    <3>4. /\ Len(v.buf) >= n /\ v.len = val[h].len /\ v.cap = n /\ v.moved = moved
      BY <1>1, <3>1, GrownLengths
    <3> QED
      BY <1>2, <3>3, <3>4
  <2> HIDE DEF v
  <2>2. n > InitLen /\ n >= 0 /\ ~(MaxLen[h] <= InitLen) /\ n <= n
    BY <1>1, <1>2, <1>4, <1>10 DEF GoodValue
  <2>3. GoodValue(h, v)
    BY <1>1, <1>4, <2>1, <2>2 DEF GoodValue
  <2> QED
    BY <1>8, <1>10, <2>1, <2>2, <2>3 DEF v
<1> QED
  BY <1>6, <1>7, <1>9, <1>10

LEMMA SetCopyIsSafe ==
  ASSUME Disciplined, Types, ListInHand, FaultInv, NEW k \in Tasks, SetCopy(k)
  PROVE  FaultInv'
<1> DEFINE h == t[k].h
           d == t[k].data
           n == t[k].new
           v == Copied(val[h], d, n)
           w == [t[k] EXCEPT !.pc = "compare"]
<1>1. /\ t[k] \in Doing /\ t[k].pc = "copy" /\ t[k].pc \in Setting /\ h \in Handles
      /\ val[h] \in Attribute /\ d \in Seq(Bytes) /\ n \in Nat
  BY DEF SetCopy, Types, TaskTypes, Setting, Doing
<1>2. /\ val[h].len = 0 /\ t[k].fresh /\ n = Len(d) /\ n <= val[h].cap /\ n <= MaxLen[h]
      /\ GoodValue(h, val[h])
  BY <1>1 DEF FaultInv, Steps, GoodStep, Blocks
<1>3. /\ MaxLen[h] \in Nat /\ InitLen \in Nat /\ val[h].cap \in Nat /\ Len(val[h].buf) \in Nat
  <2>1. val[h].buf \in Seq(Bytes)
    BY <1>1 DEF Attribute
  <2> QED
    BY <1>1, <2>1, LengthsAssumption DEF Attribute
<1>4. val[h].len + Len(t[k].data) <= Len(val[h].buf)
  BY <1>1, <1>2, <1>3 DEF GoodValue
<1>5. /\ val' = [val EXCEPT ![h] = v] /\ t' = [t EXCEPT ![k] = w]
      /\ UNCHANGED <<fault, attVars>>
      /\ x' = x \/ x' = [x EXCEPT !.run = <<>>]
  BY <1>2, <1>4 DEF SetCopy
<1>6. /\ v \in Attribute /\ Len(v.buf) = Len(val[h].buf) /\ v.len = n
      /\ v.cap = val[h].cap /\ v.moved = FALSE
  <2>1. v \in Attribute
    BY <1>1, ValueTypes
  <2>2. /\ Len(v.buf) = Len(val[h].buf) /\ v.len = n
        /\ v.cap = val[h].cap /\ v.moved = FALSE
    BY <1>1, CopiedLengths
  <2> QED
    BY <2>1, <2>2
<1>7. w \in Doing /\ w.pc = "compare" /\ w.h = h /\ w.data = d
  <2>1. "compare" \in Places
    BY DEF Places
  <2> QED
    BY <1>1, <2>1 DEF Doing
<1> HIDE DEF v, w
<1>8. GoodValue(h, v)
  BY <1>1, <1>2, <1>3, <1>6 DEF GoodValue
<1>11. GoodStep(w, v)
  <2>1. Len(d) <= Len(val[h].buf) + 1
    BY <1>1, <1>2, <1>3, <1>4
  <2> QED
    BY <1>6, <1>7, <2>1 DEF GoodStep
<1>9. Sides' /\ Blocks' /\ Steps'
  BY <1>1, <1>5, <1>6, <1>7, <1>8, <1>11, ValueTurns DEF FaultInv
<1>10. Prepared'
  <2>1. x'.list = x.list /\ x'.conn = x.conn
    BY <1>5 DEF Types, TaskTypes, InHand
  <2> QED
    BY <1>5, <2>1, PreparedUntouched DEF FaultInv, attVars
<1> QED
  BY <1>5, <1>9, <1>10 DEF FaultInv, NoFault

LEMMA SetCompareIsSafe ==
  ASSUME Disciplined, Types, ListInHand, FaultInv, NEW k \in Tasks, SetCompare(k)
  PROVE  FaultInv'
<1> DEFINE h == t[k].h
<1>1. t[k].pc = "compare" /\ t[k].pc \in Setting /\ h \in Handles
  BY DEF SetCompare, Types, TaskTypes, Setting
<1>2. ~val[h].moved
  BY <1>1, BlockInPlace DEF FaultInv
<1>3. ~(Len(t[k].data) > Len(val[h].buf) + 1)
  <2>1. Len(t[k].data) <= Len(val[h].buf) + 1
    BY <1>1 DEF FaultInv, Steps, GoodStep
  <2>2. Len(t[k].data) \in Nat /\ Len(val[h].buf) \in Nat
    <3>1. t[k].data \in Seq(Bytes) /\ val[h].buf \in Seq(Bytes)
      BY <1>1 DEF Types, TaskTypes, Doing, Attribute
    <3> QED
      BY <3>1
  <2> QED
    BY <2>1, <2>2
<1>4. Leave(k) /\ UNCHANGED <<attVars, val, fault>>
  BY <1>2, <1>3 DEF SetCompare
<1>5. PICK w \in Doing : t' = [t EXCEPT ![k] = w] /\ w.pc \notin Setting \cup {"get"}
  BY <1>4, LeaveSetsNothing
<1>6. Sides' /\ Blocks' /\ Steps'
  BY <1>1, <1>4, <1>5, TaskTurns DEF FaultInv, Setting
<1>7. Prepared'
  BY <1>4, LeaveKeepsPrepared DEF FaultInv
<1> QED
  BY <1>4, <1>6, <1>7 DEF FaultInv, NoFault

(* A task that turns to another thing leaves the lists alone. *)
LEMMA TurnsSafely ==
  ASSUME Types, FaultInv, NEW k \in Tasks, t[k].pc # "copy", NEW w,
         UNCHANGED <<attVars, val, fault>>, t' = [t EXCEPT ![k] = w],
         x'.list = x.list, x'.conn = x.conn \/ x'.list = <<>>,
         w.pc \notin {"grow", "copy", "compare"},
         w.pc = "zero" => /\ w.h \in (IF k = "app" THEN AppSets ELSE HostSets)
                          /\ Fits(w.h, w.data),
         w.pc = "get" => k = "app" /\ w.h \in AppGets /\ w.new = val[w.h].cap /\ w.new >= InitLen
  PROVE  FaultInv'
<1>1. Sides' /\ Blocks' /\ Steps'
  BY TaskTurns DEF FaultInv
<1>2. Prepared'
  BY PreparedUntouched DEF FaultInv, attVars
<1> QED
  BY <1>1, <1>2 DEF FaultInv, NoFault

(* The application, and the callbacks of the host task *)
LEMMA CallsAreSafe ==
  ASSUME Disciplined, Types, ListInHand, FaultInv,
         AppSet \/ AppGet \/ AppGetCopy \/ Callback \/ ReadCopy
  PROVE  FaultInv'
<1>0. UNCHANGED <<attVars, val>> /\ "app" \in Tasks /\ "host" \in Tasks
  BY DEF AppSet, AppGet, AppGetCopy, Callback, ReadCopy, Tasks
<1>1. CASE AppSet
  <2>1. PICK h \in AppSets, d \in AppData : t' = [t EXCEPT !["app"] = Begin("zero", h, d, FALSE)]
    BY <1>1 DEF AppSet
  <2>2. /\ Begin("zero", h, d, FALSE).pc = "zero" /\ Begin("zero", h, d, FALSE).h = h
        /\ Begin("zero", h, d, FALSE).data = d /\ Fits(h, d)
    BY DEF Begin, Idle, Disciplined
  <2>3. t["app"].pc = "idle" /\ x' = x /\ fault' = fault
    BY <1>1 DEF AppSet
  <2> HIDE DEF Begin
  <2> QED
    BY <1>0, <2>1, <2>2, <2>3, TurnsSafely
<1>2. CASE AppGet
  <2>1. PICK h \in AppGets :
          t' = [t EXCEPT !["app"] = [Begin("get", h, <<>>, FALSE) EXCEPT !.new = val[h].cap]]
    BY <1>2 DEF AppGet
  <2> DEFINE w == [Begin("get", h, <<>>, FALSE) EXCEPT !.new = val[h].cap]
  <2>2. w.pc = "get" /\ w.h = h /\ w.new = val[h].cap
    BY DEF Begin, Idle
  <2>3. val[h].cap >= InitLen
    BY HandlesAssumption DEF FaultInv, Blocks, GoodValue
  <2>4. t["app"].pc = "idle" /\ x' = x /\ fault' = fault
    BY <1>2 DEF AppGet
  <2> HIDE DEF w
  <2> QED
    BY <1>0, <2>1, <2>2, <2>3, <2>4, TurnsSafely DEF w
<1>3. CASE AppGetCopy
  <2> DEFINE h == t["app"].h
  <2>1. t["app"].pc = "get" /\ h \in Handles /\ h \in AppGets /\ val[h] \in Attribute
    BY <1>0, <1>3 DEF AppGetCopy, Types, TaskTypes, FaultInv, Sides
  <2>2. GoodValue(h, val[h]) /\ GoodGet(t["app"], val[h])
    BY <2>1 DEF FaultInv, Blocks, Steps
  <2>3. /\ MaxLen[h] \in Nat /\ InitLen \in Nat /\ val[h].cap \in Nat /\ val[h].len \in Nat
        /\ t["app"].new \in Nat
    BY <1>0, <2>1, LengthsAssumption DEF Attribute, Types, TaskTypes, Doing
  <2>4. ~val[h].moved
    <3>1. CASE h \in HostSets
      BY <2>1, <2>2, <3>1 DEF Disciplined, GoodValue
    <3>2. ASSUME h \notin HostSets, val[h].moved PROVE FALSE
      <4>1. PICK o \in Tasks : t[o].pc = "copy" /\ t[o].h = h
        BY <2>1, <3>2 DEF FaultInv, Blocks
      <4> QED
        BY <2>1, <3>2, <4>1 DEF FaultInv, Sides, Setting, Tasks
    <3> QED
      BY <3>1, <3>2
  <2>5. ~(val[h].len > t["app"].new)
    <3>1. CASE h \in HostSets
      <4>1. MaxLen[h] <= InitLen /\ val[h].len <= MaxLen[h] /\ InitLen <= t["app"].new
        BY <2>1, <2>2, <2>3, <3>1 DEF Disciplined, GoodValue, GoodGet
      <4> QED
        BY <2>3, <4>1
    <3>2. CASE h \notin HostSets
      BY <2>1, <2>2, <2>3, <3>2 DEF GoodValue, GoodGet
    <3> QED
      BY <3>1, <3>2
  <2>6. t' = [t EXCEPT !["app"] = Idle] /\ UNCHANGED <<fault, x>>
    BY <1>3, <2>4, <2>5 DEF AppGetCopy
  <2> QED
    BY <1>0, <2>1, <2>6, IdleIsDoing, TurnsSafely
<1>4. CASE Callback
  <2>0. t["host"].pc \in {"onRead", "onWrite"} /\ fault' = fault
    BY <1>4 DEF Callback
  <2>1. CASE /\ t' = [t EXCEPT !["host"] = Return("host", Proceed)]
             /\ x' = IF Proceed = "idle" THEN NoRequest ELSE x
    <3>1. Proceed \in {"idle", "send", "exec"} /\ Proceed \in Places
      BY DEF Proceed, Places
    <3>2. Return("host", Proceed).pc = Proceed
      BY <1>0, <3>1, ReturnIsDoing DEF Types, TaskTypes
    <3>3. x'.list = x.list /\ (x'.conn = x.conn \/ x'.list = <<>>)
      BY <2>0, <2>1 DEF ListInHand, Proceed, NoRequest
    <3> QED
      BY <1>0, <2>0, <2>1, <3>1, <3>2, <3>3, TurnsSafely
  <2>2. ASSUME NEW h \in CbSets, NEW d \in AppData, x' = x,
               t' = [t EXCEPT !["host"] = Begin("zero", h, d, TRUE)]
        PROVE  FaultInv'
    <3>1. /\ Begin("zero", h, d, TRUE).pc = "zero" /\ Begin("zero", h, d, TRUE).h = h
          /\ Begin("zero", h, d, TRUE).data = d /\ Fits(h, d) /\ h \in HostSets
      BY DEF Begin, Idle, HostSets, Disciplined
    <3> HIDE DEF Begin
    <3> QED
      BY <1>0, <2>0, <2>2, <3>1, TurnsSafely
  <2> QED
    BY <1>4, <2>1, <2>2 DEF Callback
<1>5. CASE ReadCopy
  <2>1. t["host"].pc = "send" /\ x.h \in Handles /\ val[x.h] \in Attribute
    BY <1>5 DEF ReadCopy, ListInHand, Types, TaskTypes
  <2>2. ~(val[x.h].moved /\ val[x.h].len > 0)
    BY <2>1 DEF FaultInv, Blocks, GoodValue
  <2>3. t' = [t EXCEPT !["host"] = Idle] /\ x' = NoRequest /\ fault' = fault
    BY <1>5, <2>2 DEF ReadCopy
  <2>4. x'.list = x.list /\ x'.list = <<>>
    BY <2>1, <2>3 DEF ListInHand, NoRequest
  <2> QED
    BY <1>0, <2>1, <2>3, <2>4, IdleIsDoing, TurnsSafely
<1> QED
  BY <1>1, <1>2, <1>3, <1>4, <1>5

(* Requests of peers: what is prepared was looked up, and what is executed   *)
(* was prepared.                                                             *)
LEMMA RequestsAreSafe ==
  ASSUME Disciplined, Types, ListInHand, FaultInv, NEW c \in Conns, Peer(c)
  PROVE  FaultInv'
<1>0. /\ t["host"].pc = "idle" /\ x.list = <<>> /\ "host" \in Tasks
      /\ link[c] # "down" /\ UNCHANGED <<link, visible, val, fault>>
  BY DEF Peer, RxRead, RxWrite, RxPrepWrite, RxExecWrite, Request, Ready, ListInHand, Tasks, attVars
<1>1. ASSUME NEW h \in Handles, NEW first \in BOOLEAN, RxRead(c, h, first) PROVE FaultInv'
  <2> DEFINE w == [Idle EXCEPT !.pc = IF first THEN "onRead" ELSE "send"]
  <2>1. w.pc \in {"onRead", "send"} /\ t' = [t EXCEPT !["host"] = w]
    BY <1>1 DEF RxRead, Idle
  <2>2. x'.list = <<>> /\ UNCHANGED attVars
    BY <1>1 DEF RxRead, NoRequest
  <2> HIDE DEF w
  <2> QED
    BY <1>0, <2>1, <2>2, TurnsSafely
<1>2. ASSUME NEW h \in Handles, NEW d \in PeerData[c], RxWrite(c, h, d) PROVE FaultInv'
  <2>1. /\ t' = [t EXCEPT !["host"] = Begin("zero", h, d, FALSE)] /\ h \in HostSets
        /\ Begin("zero", h, d, FALSE).pc = "zero" /\ Begin("zero", h, d, FALSE).h = h
        /\ Begin("zero", h, d, FALSE).data = d /\ Fits(h, d)
    BY <1>2 DEF RxWrite, Begin, Idle, HostSets, Fits
  <2>2. x'.list = <<>> /\ UNCHANGED attVars
    BY <1>2 DEF RxWrite, NoRequest
  <2> HIDE DEF Begin
  <2> QED
    BY <1>0, <2>1, <2>2, TurnsSafely
<1>3. ASSUME NEW p \in PeerParts[c], RxPrepWrite(c, p) PROVE FaultInv'
  <2>0. p \in AllParts /\ prep[c] \in Seq(AllParts) /\ p.handle \in visible \cap Writable
    BY <1>3 DEF Types, AllParts, RxPrepWrite
  <2>1. \A i \in DOMAIN Insert(prep[c], p) :
          Insert(prep[c], p)[i] = p \/ \E j \in DOMAIN prep[c] : Insert(prep[c], p)[i] = prep[c][j]
    BY <2>0, InsertAdds
  <2>2. \A i \in DOMAIN Insert(prep[c], p) : Insert(prep[c], p)[i].handle \in visible \cap Writable
    BY <2>0, <2>1 DEF FaultInv, Prepared
  <2>3. prep' = [prep EXCEPT ![c] = Insert(prep[c], p)] /\ UNCHANGED <<t, x>>
    BY <1>3 DEF RxPrepWrite
  <2>4. Prepared'
    BY <1>0, <2>2, <2>3 DEF FaultInv, Prepared, Types
  <2> QED
    BY <1>0, <2>3, <2>4 DEF FaultInv, NoFault, Sides, Blocks, GoodValue, Steps, GoodStep, GoodGet
<1>4. ASSUME NEW flags \in BOOLEAN, RxExecWrite(c, flags) PROVE FaultInv'
  <2>1. /\ prep' = [prep EXCEPT ![c] = <<>>]
        /\ \/ UNCHANGED <<t, x>>
           \/ /\ x' = [NoRequest EXCEPT !.conn = c, !.op = "exec", !.list = prep[c]]
              /\ t' = [t EXCEPT !["host"] = [Idle EXCEPT !.pc = "exec"]]
    BY <1>4 DEF RxExecWrite
  <2>2. /\ prep'[c] = <<>> /\ \A o \in Conns \ {c} : prep'[o] = prep[o]
    BY <2>1 DEF Types
  <2>3. x'.list = <<>> \/ (x'.list = prep[c] /\ x'.conn = c)
    BY <1>0, <2>1 DEF NoRequest
  <2>4. Prepared'
    BY <1>0, <2>2, <2>3 DEF FaultInv, Prepared
  <2>5. Sides' /\ Blocks' /\ Steps'
    <3>1. CASE UNCHANGED <<t, x>>
      BY <1>0, <3>1 DEF FaultInv, Sides, Blocks, GoodValue, Steps, GoodStep, GoodGet
    <3>2. CASE t' = [t EXCEPT !["host"] = [Idle EXCEPT !.pc = "exec"]]
      <4>1. [Idle EXCEPT !.pc = "exec"].pc = "exec"
        BY DEF Idle
      <4> QED
        BY <1>0, <3>2, <4>1, TaskTurns DEF FaultInv
    <3> QED
      BY <2>1, <3>1, <3>2
  <2> QED
    BY <1>0, <2>4, <2>5 DEF FaultInv, NoFault
<1> QED
  BY <1>1, <1>2, <1>3, <1>4 DEF Peer

LEMMA ExecIsSafe ==
  ASSUME Disciplined, Types, ListInHand, FaultInv, ExecNext PROVE FaultInv'
<1>0. /\ UNCHANGED <<link, visible, prep, val>> /\ t["host"].pc = "exec" /\ "host" \in Tasks
      /\ x.list \in Seq(AllParts)
  BY DEF ExecNext, Tasks, Types, TaskTypes, InHand
<1>1. ASSUME NEW list, NEW a, FinishExec(list, a), UNCHANGED fault PROVE FaultInv'
  <2>1. t' = [t EXCEPT !["host"] = Idle] /\ x'.list = <<>>
    BY <1>1 DEF FinishExec, NoRequest
  <2>2. Sides' /\ Blocks' /\ Steps'
    BY <1>0, <2>1, IdleIsDoing, TaskTurns DEF FaultInv
  <2>3. Prepared'
    BY <1>0, <2>1 DEF FaultInv, Prepared
  <2> QED
    BY <1>1, <2>2, <2>3 DEF FaultInv, NoFault
<1>2. CASE /\ x.list # <<>> /\ Len(TheData) <= MaxLen[x.list[1].handle]
           /\ x' = [x EXCEPT !.list = TheRest, !.run = TheRun]
           /\ t' = [t EXCEPT !["host"] = Begin("zero", x.list[1].handle, TheData, FALSE)]
           /\ UNCHANGED fault
  <2>1. /\ \A i \in DOMAIN TheRest : \E j \in DOMAIN x.list : TheRest[i] = x.list[j]
        /\ 1 \in DOMAIN x.list
    BY <1>0, <1>2, ExecTypes
  <2>2. x.list[1].handle \in HostSets
    BY <2>1 DEF FaultInv, Prepared, HostSets
  <2>3. LET b == Begin("zero", x.list[1].handle, TheData, FALSE)
        IN b.pc = "zero" /\ b.h = x.list[1].handle /\ Fits(b.h, b.data)
    BY <1>2 DEF Begin, Idle, Fits
  <2>4. Sides' /\ Blocks' /\ Steps'
    <3> HIDE DEF Begin
    <3> QED
      BY <1>0, <1>2, <2>2, <2>3, TaskTurns DEF FaultInv
  <2>5. x'.list = TheRest /\ x'.conn = x.conn
    BY <1>2 DEF Types, TaskTypes, InHand
  <2>6. Prepared'
    BY <1>0, <1>2, <2>1, <2>5 DEF FaultInv, Prepared
  <2> QED
    BY <1>2, <2>4, <2>6 DEF FaultInv, NoFault
<1>3. ASSUME x.list # <<>>, x.list[1].handle \notin visible PROVE FALSE
  <2>1. 1 \in DOMAIN x.list
    BY <1>0, <1>3
  <2> QED
    BY <1>3, <2>1 DEF FaultInv, Prepared
<1> QED
  BY <1>1, <1>2, <1>3, ExecSteps

(* Services are removed and connections end only when nothing is in hand.    *)
LEMMA LinksAreSafe ==
  ASSUME Disciplined, Types, ListInHand, FaultInv,
         \/ Hide
         \/ \E c \in Conns : Connect(c) \/ PrepTimeout(c) \/ LinkEnd(c)
  PROVE  FaultInv'
<1>0. UNCHANGED <<val, t, x, fault>>
  BY DEF Hide, Connect, PrepTimeout, LinkEnd
<1>1. ASSUME Hide PROVE Prepared'
  <2>1. \A c \in Conns : link[c] = "down"
    BY <1>1 DEF Hide, Disciplined
  <2>2. \A c \in Conns : prep[c] = <<>>
    BY <2>1 DEF FaultInv, Prepared
  <2>3. x.list = <<>>
    BY <2>1 DEF FaultInv, Prepared, ListInHand
  <2>4. x' = x /\ prep' = prep
    BY <1>1 DEF Hide
  <2> QED
    BY <2>2, <2>3, <2>4 DEF Prepared
<1>2. ASSUME NEW c \in Conns, Connect(c) \/ PrepTimeout(c) PROVE Prepared'
  <2>1. x.list = <<>> /\ UNCHANGED <<visible, prep>>
    BY <1>2 DEF Connect, PrepTimeout, Ready, ListInHand
  <2>2. \A o \in Conns : link[o] # "down" => link'[o] # "down"
    BY <1>2 DEF Connect, PrepTimeout, Types
  <2> QED
    BY <1>0, <2>1, <2>2 DEF FaultInv, Prepared
<1>3. ASSUME NEW c \in Conns, LinkEnd(c) PROVE Prepared'
  <2>1. x.list = <<>> /\ UNCHANGED visible
    BY <1>3 DEF LinkEnd, Ready, ListInHand
  <2>2. /\ prep'[c] = <<>>
        /\ \A o \in Conns \ {c} : prep'[o] = prep[o] /\ link'[o] = link[o]
    BY <1>3 DEF LinkEnd, Types
  <2> QED
    BY <1>0, <2>1, <2>2 DEF FaultInv, Prepared
<1>4. Prepared'
  BY <1>1, <1>2, <1>3 DEF FaultInv
<1> QED
  BY <1>0, <1>4 DEF FaultInv, NoFault, Sides, Blocks, GoodValue, Steps, GoodStep, GoodGet

LEMMA FaultInvInductive ==
  Disciplined /\ Types /\ ListInHand /\ FaultInv /\ [Next]_vars => FaultInv'
<1> SUFFICES ASSUME Disciplined, Types, ListInHand, FaultInv, [Next]_vars PROVE FaultInv'
  OBVIOUS
<1>1. CASE HostStep \/ AppStep
  BY <1>1, SetZeroIsSafe, SetGrowIsSafe, SetCopyIsSafe, SetCompareIsSafe, CallsAreSafe,
     ExecIsSafe
     DEF HostStep, AppStep, Step, Tasks
<1>2. CASE AppSet \/ AppGet \/ Hide
  BY <1>2, CallsAreSafe, LinksAreSafe
<1>3. ASSUME NEW c \in Conns, Connect(c) \/ PrepTimeout(c) \/ LinkEnd(c) \/ Peer(c)
      PROVE  FaultInv'
  BY <1>3, LinksAreSafe, RequestsAreSafe
<1>4. CASE UNCHANGED vars
  BY <1>4 DEF vars, attVars, FaultInv, NoFault, Sides, Blocks, GoodValue, Steps, GoodStep,
              GoodGet, Prepared
<1> QED
  BY <1>1, <1>2, <1>3, <1>4 DEF Next

LEMMA InitFaultInv == Init => FaultInv
<1> SUFFICES ASSUME Init PROVE FaultInv
  OBVIOUS
<1>1. \A k \in Tasks : t[k].pc = "idle"
  BY IdleIsDoing DEF Init
<1>2. Sides /\ Steps
  BY <1>1 DEF Sides, Steps, Setting, Tasks
<1>3. Blocks
  <2> SUFFICES ASSUME NEW h \in Handles PROVE GoodValue(h, NewValue) /\ ~NewValue.moved
    BY DEF Init, Blocks
  <2>1. InitLen \in Nat /\ MaxLen[h] \in Nat
    BY LengthsAssumption
  <2>2. Len([i \in 1..InitLen |-> Zero]) = InitLen
    BY <2>1
  <2>3. /\ NewValue.buf = [i \in 1..InitLen |-> Zero] /\ NewValue.len = 0
        /\ NewValue.cap = InitLen /\ NewValue.moved = FALSE
    BY DEF NewValue
  <2> QED
    BY <2>1, <2>2, <2>3 DEF GoodValue
<1>4. Prepared
  BY DEF Init, Prepared, NoRequest
<1> QED
  BY <1>2, <1>3, <1>4 DEF Init, FaultInv, NoFault

(* While the application keeps to the rules, the length of what it sets      *)
(* among them, nobody ever copies or compares beyond a value's block or      *)
(* touches one that was freed, and no prepared write meets an attribute that *)
(* is gone.                                                                  *)
THEOREM DisciplinedIsSafe ==
  ASSUME Disciplined PROVE Spec => []NoFault
<1>1. FaultInv => NoFault
  BY DEF FaultInv
<1>2. PoolInv => ListInHand
  BY DEF PoolInv
<1>3. Spec => []FaultInv
  BY <1>2, InitFaultInv, FaultInvInductive, PoolInvariance, PTL DEF Spec
<1> QED
  BY <1>1, <1>3, PTL
=============================================================================
