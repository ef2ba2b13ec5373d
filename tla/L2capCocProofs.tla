--------------------------- MODULE L2capCocProofs ---------------------------
(***************************************************************************)
(* Theorems about L2capCoc, for any number of initial credits, frames,     *)
(* SDUs and retries.                                                       *)
(*                                                                         *)
(* CreditConservation is inductive once the invariant also says how the    *)
(* channel is set up and taken down (Phases): a signal that the wrong end  *)
(* could still be handed would set credits anew in the middle of a         *)
(* channel.  What is in flight is counted by a set with one element for    *)
(* each credit, or for each frame (Units).                                 *)
(***************************************************************************)
EXTENDS L2capCoc, FiniteSetTheorems, TLAPS

-----------------------------------------------------------------------------
(* Counting what is in flight *)

(* One element for each unit of the weight f of the elements of q *)
Units(q, f) == UNION {{i} \X (1..f[q[i]]) : i \in DOMAIN q}

LEMMA InUnits ==
  ASSUME NEW q, NEW f, NEW e
  PROVE  e \in Units(q, f) <=> \E i \in DOMAIN q : \E j \in 1..f[q[i]] : e = <<i, j>>
BY DEF Units

LEMMA RowSize ==
  ASSUME NEW c, NEW n \in Nat
  PROVE  IsFiniteSet({c} \X (1..n)) /\ Cardinality({c} \X (1..n)) = n
<1>1. IsFiniteSet({c}) /\ Cardinality({c}) = 1
  BY FS_Singleton
<1>2. IsFiniteSet(1..n) /\ Cardinality(1..n) = n
  <2>1. IsFiniteSet(1..n) /\ Cardinality(1..n) = IF 1 > n THEN 0 ELSE n - 1 + 1
    BY FS_Interval
  <2> QED
    BY <2>1
<1>3. /\ IsFiniteSet({c} \X (1..n))
      /\ Cardinality({c} \X (1..n)) = Cardinality({c}) * Cardinality(1..n)
  BY <1>1, <1>2, FS_Product
<1>4. 1 * n = n
  OBVIOUS
<1> QED
  BY <1>1, <1>2, <1>3, <1>4, Zenon

(* A set of another that is disjoint is as large as both together. *)
LEMMA DisjointSize ==
  ASSUME NEW S, NEW T, IsFiniteSet(S), IsFiniteSet(T), S \cap T = {}
  PROVE  /\ IsFiniteSet(S \cup T)
         /\ Cardinality(S \cup T) = Cardinality(S) + Cardinality(T)
<1>1. /\ IsFiniteSet(S \cup T)
      /\ Cardinality(S \cup T) = Cardinality(S) + Cardinality(T) - Cardinality(S \cap T)
  BY FS_Union
<1>2. Cardinality(S \cap T) = 0
  BY FS_EmptySet
<1>3. Cardinality(S) \in Nat /\ Cardinality(T) \in Nat
  BY FS_CardinalityType
<1>4. \A i, j \in Nat : i + j - 0 = i + j
  OBVIOUS
<1> QED
  BY <1>1, <1>2, <1>3, <1>4

LEMMA UnitsAppend ==
  ASSUME NEW M, NEW q \in Seq(M), NEW m \in M, NEW f \in [M -> Nat], IsFiniteSet(Units(q, f))
  PROVE  /\ IsFiniteSet(Units(Append(q, m), f))
         /\ Cardinality(Units(Append(q, m), f)) = Cardinality(Units(q, f)) + f[m]
<1> DEFINE new == {Len(q) + 1} \X (1..f[m])
           r == Append(q, m)
<1>1. /\ r \in Seq(M) /\ DOMAIN q = 1..Len(q) /\ Len(q) \in Nat
      /\ DOMAIN r = 1..(Len(q) + 1)
      /\ r[Len(q) + 1] = m /\ \A i \in 1..Len(q) : r[i] = q[i]
  OBVIOUS
<1> HIDE DEF r
<1>2. Units(r, f) = Units(q, f) \cup new
  <2>1. ASSUME NEW e, e \in Units(r, f) PROVE e \in Units(q, f) \cup new
    <3>10. PICK i \in DOMAIN r : \E j \in 1..f[r[i]] : e = <<i, j>>
      BY <2>1, InUnits
    <3>1. PICK j \in 1..f[r[i]] : e = <<i, j>>
      BY <3>10
    <3>2. CASE i = Len(q) + 1
      BY <1>1, <3>1, <3>2
    <3>3. CASE i # Len(q) + 1
      <4>1. i \in DOMAIN q /\ j \in 1..f[q[i]]
        BY <1>1, <3>1, <3>3
      <4> QED
        BY <3>1, <4>1, InUnits
    <3> QED
      BY <3>2, <3>3
  <2>2. ASSUME NEW e, e \in Units(q, f) PROVE e \in Units(r, f)
    <3>10. PICK i \in DOMAIN q : \E j \in 1..f[q[i]] : e = <<i, j>>
      BY <2>2, InUnits
    <3>1. PICK j \in 1..f[q[i]] : e = <<i, j>>
      BY <3>10
    <3>2. i \in DOMAIN r /\ j \in 1..f[r[i]]
      BY <1>1, <3>1
    <3> QED
      BY <3>1, <3>2, InUnits
  <2>3. ASSUME NEW e, e \in new PROVE e \in Units(r, f)
    <3>1. PICK j \in 1..f[m] : e = <<Len(q) + 1, j>>
      BY <2>3
    <3>2. Len(q) + 1 \in DOMAIN r /\ j \in 1..f[r[Len(q) + 1]]
      BY <1>1, <3>1
    <3> QED
      BY <3>1, <3>2, InUnits
  <2> QED
    BY <2>1, <2>2, <2>3
<1>3. Units(q, f) \cap new = {}
  <2>1. ASSUME NEW e, e \in Units(q, f), e \in new PROVE FALSE
    <3>10. PICK i \in DOMAIN q : \E j \in 1..f[q[i]] : e = <<i, j>>
      BY <2>1, InUnits
    <3>1. PICK j \in 1..f[q[i]] : e = <<i, j>>
      BY <3>10
    <3>2. e[1] = i /\ e[1] = Len(q) + 1
      BY <2>1, <3>1
    <3> QED
      BY <1>1, <3>2
  <2> QED
    BY <2>1
<1>4. IsFiniteSet(new) /\ Cardinality(new) = f[m]
  <2>1. f[m] \in Nat
    OBVIOUS
  <2> QED
    BY <2>1, RowSize
<1> HIDE DEF new
<1> QED
  BY <1>2, <1>3, <1>4, DisjointSize DEF r

LEMMA UnitsTail ==
  ASSUME NEW M, NEW q \in Seq(M), q # <<>>, NEW f \in [M -> Nat], IsFiniteSet(Units(q, f))
  PROVE  /\ IsFiniteSet(Units(Tail(q), f))
         /\ Cardinality(Units(q, f)) = Cardinality(Units(Tail(q), f)) + f[Head(q)]
<1> DEFINE r == Tail(q)
           first == {1} \X (1..f[Head(q)])
           rest == Units(q, f) \ first
           shift == [e \in rest |-> <<e[1] - 1, e[2]>>]
<1>1. /\ r \in Seq(M) /\ DOMAIN q = 1..Len(q) /\ Len(q) \in Nat /\ Len(q) >= 1
      /\ DOMAIN r = 1..(Len(q) - 1) /\ q[1] = Head(q) /\ Head(q) \in M
      /\ \A i \in 1..(Len(q) - 1) : r[i] = q[i + 1]
  OBVIOUS
<1> HIDE DEF r
<1>2. first \subseteq Units(q, f)
  <2>1. ASSUME NEW e, e \in first PROVE e \in Units(q, f)
    <3>1. PICK j \in 1..f[Head(q)] : e = <<1, j>>
      BY <2>1
    <3>2. 1 \in DOMAIN q /\ j \in 1..f[q[1]]
      BY <1>1, <3>1
    <3> QED
      BY <3>1, <3>2, InUnits
  <2> QED
    BY <2>1
<1>3. \A e : e \in rest <=> \E i \in 2..Len(q) : \E j \in 1..f[q[i]] : e = <<i, j>>
  <2>1. ASSUME NEW e, e \in rest PROVE \E i \in 2..Len(q) : \E j \in 1..f[q[i]] : e = <<i, j>>
    <3>10. PICK i \in DOMAIN q : \E j \in 1..f[q[i]] : e = <<i, j>>
      BY <2>1, InUnits
    <3>1. PICK j \in 1..f[q[i]] : e = <<i, j>>
      BY <3>10
    <3>2. i # 1
      BY <1>1, <2>1, <3>1
    <3>3. i \in 2..Len(q)
      BY <1>1, <3>1, <3>2
    <3> QED
      BY <3>1, <3>3
  <2>2. ASSUME NEW i \in 2..Len(q), NEW j \in 1..f[q[i]] PROVE <<i, j>> \in rest
    <3>1. i \in DOMAIN q /\ i # 1
      BY <1>1
    <3>2. <<i, j>> \in Units(q, f)
      BY <3>1, InUnits
    <3>3. <<i, j>> \notin first
      BY <3>1
    <3> QED
      BY <3>2, <3>3
  <2> QED
    BY <2>1, <2>2
<1> HIDE DEF rest
<1>4. ExistsBijection(rest, Units(r, f))
  <2>1. ASSUME NEW e \in rest PROVE shift[e] \in Units(r, f)
    <3>10. PICK i \in 2..Len(q) : \E j \in 1..f[q[i]] : e = <<i, j>>
      BY <1>3
    <3>1. PICK j \in 1..f[q[i]] : e = <<i, j>>
      BY <3>10
    <3>2. shift[e] = <<i - 1, j>>
      BY <3>1
    <3>3. i - 1 \in DOMAIN r /\ r[i - 1] = q[i]
      BY <1>1
    <3>4. j \in 1..f[r[i - 1]]
      BY <3>3
    <3> QED
      BY <3>2, <3>3, <3>4, InUnits
  <2>2. ASSUME NEW d \in rest, NEW e \in rest, shift[d] = shift[e] PROVE d = e
    <3>10. PICK i \in 2..Len(q) : \E j \in 1..f[q[i]] : d = <<i, j>>
      BY <1>3
    <3>1. PICK j \in 1..f[q[i]] : d = <<i, j>>
      BY <3>10
    <3>20. PICK k \in 2..Len(q) : \E l \in 1..f[q[k]] : e = <<k, l>>
      BY <1>3
    <3>2. PICK l \in 1..f[q[k]] : e = <<k, l>>
      BY <3>20
    <3>3. <<i - 1, j>> = <<k - 1, l>>
      BY <2>2, <3>1, <3>2
    <3>4. i - 1 = k - 1 /\ j = l
      BY <3>3
    <3>5. i = k
      BY <3>4
    <3> QED
      BY <3>1, <3>2, <3>4, <3>5
  <2>3. ASSUME NEW e \in Units(r, f) PROVE \E d \in rest : shift[d] = e
    <3>10. PICK i \in DOMAIN r : \E j \in 1..f[r[i]] : e = <<i, j>>
      BY InUnits
    <3>1. PICK j \in 1..f[r[i]] : e = <<i, j>>
      BY <3>10
    <3>2. i + 1 \in 2..Len(q) /\ r[i] = q[i + 1] /\ (i + 1) - 1 = i
      <4>1. i \in 1..(Len(q) - 1)
        BY <1>1
      <4>2. Len(q) \in Nat /\ r[i] = q[i + 1]
        BY <1>1, <4>1
      <4>3. i + 1 \in 2..Len(q) /\ (i + 1) - 1 = i
        BY <4>1, <4>2
      <4> QED
        BY <4>2, <4>3
    <3>3. j \in 1..f[q[i + 1]]
      BY <3>1, <3>2
    <3>4. <<i + 1, j>> \in rest
      BY <1>3, <3>2, <3>3
    <3>5. shift[<<i + 1, j>>] = e
      BY <3>1, <3>2, <3>4
    <3> QED
      BY <3>4, <3>5
  <2>4. shift \in [rest -> Units(r, f)]
    BY <2>1
  <2> HIDE DEF shift
  <2>5. shift \in Injection(rest, Units(r, f))
    BY <2>2, <2>4 DEF Injection, IsInjective
  <2>6. shift \in Surjection(rest, Units(r, f))
    BY <2>3, <2>4 DEF Surjection
  <2> QED
    BY <2>5, <2>6 DEF ExistsBijection, Bijection
<1>5. IsFiniteSet(rest)
  BY FS_Subset DEF rest
<1>6. IsFiniteSet(Units(r, f)) /\ Cardinality(Units(r, f)) = Cardinality(rest)
  BY <1>4, <1>5, FS_Bijection
<1>7. IsFiniteSet(first) /\ Cardinality(first) = f[Head(q)]
  <2>1. f[Head(q)] \in Nat
    BY <1>1
  <2> QED
    BY <2>1, RowSize
<1>8. rest \cup first = Units(q, f) /\ rest \cap first = {}
  BY <1>2 DEF rest
<1> HIDE DEF first
<1>9. Cardinality(Units(q, f)) = Cardinality(rest) + Cardinality(first)
  BY <1>5, <1>7, <1>8, DisjointSize
<1> QED
  BY <1>6, <1>7, <1>9 DEF r

LEMMA UnitsConcat ==
  ASSUME NEW M, NEW q \in Seq(M), NEW g \in Seq(M), NEW f \in [M -> Nat],
         \A i \in DOMAIN g : f[g[i]] = 1, IsFiniteSet(Units(q, f))
  PROVE  /\ IsFiniteSet(Units(q \o g, f))
         /\ Cardinality(Units(q \o g, f)) = Cardinality(Units(q, f)) + Len(g)
<1> DEFINE r == q \o g
           places == Len(q) + 1 .. Len(q) + Len(g)
           new == places \X {1}
<1>1. /\ r \in Seq(M) /\ DOMAIN q = 1..Len(q) /\ Len(q) \in Nat /\ Len(g) \in Nat
      /\ DOMAIN g = 1..Len(g) /\ DOMAIN r = 1..(Len(q) + Len(g))
      /\ \A i \in 1..Len(q) : r[i] = q[i]
  OBVIOUS
<1>0. \A i \in places : i - Len(q) \in DOMAIN g /\ r[i] = g[i - Len(q)]
  <2>1. \A i \in places : i - Len(q) \in DOMAIN g
    BY <1>1
  <2>2. \A i \in places : r[i] = g[i - Len(q)]
    BY <1>1
  <2> QED
    BY <2>1, <2>2
<1> HIDE DEF r
<1>2. Units(r, f) = Units(q, f) \cup new
  <2>1. ASSUME NEW e, e \in Units(r, f) PROVE e \in Units(q, f) \cup new
    <3>1. PICK i \in DOMAIN r : \E j \in 1..f[r[i]] : e = <<i, j>>
      BY <2>1 DEF Units
    <3>2. CASE i \in 1..Len(q)
      BY <1>1, <3>1, <3>2, InUnits
    <3>3. CASE i \in places
      <4>1. f[r[i]] = 1
        BY <1>0, <3>3
      <4>2. e = <<i, 1>>
        BY <3>1, <4>1
      <4> QED
        BY <3>3, <4>2
    <3>4. i \in 1..Len(q) \/ i \in places
      BY <1>1, <3>1
    <3> QED
      BY <3>2, <3>3, <3>4
  <2>2. ASSUME NEW e, e \in Units(q, f) PROVE e \in Units(r, f)
    <3>1. PICK i \in DOMAIN q : \E j \in 1..f[q[i]] : e = <<i, j>>
      BY <2>2, InUnits
    <3>2. i \in DOMAIN r /\ r[i] = q[i]
      BY <1>1
    <3> QED
      BY <3>1, <3>2, InUnits
  <2>3. ASSUME NEW e, e \in new PROVE e \in Units(r, f)
    <3>1. PICK i \in places : e = <<i, 1>>
      BY <2>3
    <3>2. i \in DOMAIN r /\ f[r[i]] = 1
      <4>1. i \in 1..(Len(q) + Len(g))
        BY <1>1
      <4> QED
        BY <1>0, <1>1, <4>1
    <3>3. 1 \in 1..f[r[i]]
      BY <3>2
    <3> QED
      BY <3>1, <3>2, <3>3, InUnits
  <2> QED
    BY <2>1, <2>2, <2>3
<1>3. Units(q, f) \cap new = {}
  <2>1. ASSUME NEW e, e \in Units(q, f), e \in new PROVE FALSE
    <3>1. PICK i \in DOMAIN q : \E j \in 1..f[q[i]] : e = <<i, j>>
      BY <2>1, InUnits
    <3>2. e[1] = i /\ e[1] \in places
      BY <2>1, <3>1
    <3> QED
      BY <1>1, <3>2
  <2> QED
    BY <2>1
<1>4. IsFiniteSet(new) /\ Cardinality(new) = Len(g)
  <2>1. IsFiniteSet(places) /\ Cardinality(places) = Len(g)
    <3>1. /\ IsFiniteSet(places)
          /\ Cardinality(places) = IF Len(q) + 1 > Len(q) + Len(g) THEN 0
                                   ELSE (Len(q) + Len(g)) - (Len(q) + 1) + 1
      <4>1. Len(q) + 1 \in Int /\ Len(q) + Len(g) \in Int
        BY <1>1
      <4> QED
        BY <4>1, FS_Interval
    <3> QED
      BY <1>1, <3>1
  <2>2. IsFiniteSet({1}) /\ Cardinality({1}) = 1
    BY FS_Singleton
  <2> HIDE DEF places
  <2>3. IsFiniteSet(new) /\ Cardinality(new) = Cardinality(places) * Cardinality({1})
    BY <2>1, <2>2, FS_Product
  <2>4. Len(g) * 1 = Len(g)
    <3>1. \A n \in Nat : n * 1 = n
      OBVIOUS
    <3> QED
      BY <1>1, <3>1
  <2> QED
    BY <2>1, <2>2, <2>3, <2>4, Zenon
<1> HIDE DEF new
<1> QED
  BY <1>2, <1>3, <1>4, DisjointSize DEF r

-----------------------------------------------------------------------------
(* Types *)

Frames == [kind : {"frame"}, id : Nat, k : Nat]
MsgB == Frames \cup [kind : {"connect", "disconnected"}, n : Nat]
Sizes == Nat \ {0}
MsgA == [kind : {"accepted", "refused", "credits", "disconnect"}, n : Nat]
Sender == [sdu : Nat \cup {None}, off : Nat, credits : Nat, flag : BOOLEAN]
Writing == [pc : {"idle", "fragment", "wait", "send", "mark", "done", "dead"},
            todo : Seq(Sizes), tries : Int, ok : BOOLEAN]

FrameWeight == [m \in MsgB |-> IF m.kind = "frame" THEN 1 ELSE 0]
CreditWeight == [m \in MsgA |-> IF m.kind = "credits" THEN m.n ELSE 0]
FrameUnits == Units(toB, FrameWeight)
CreditUnits == Units(toA, CreditWeight)

ReceiverTypes(r) == \E L, G : r \in [credits : 0..Initial, len : L, got : G]
WriterTypes ==
  /\ w \in Writing
  /\ w.pc \in {"fragment", "wait", "send", "mark"} => w.todo # <<>>
ChannelTypes ==
  /\ chanA \in {"none", "connecting", "open"}
  /\ chanB \in {"none", "open", "closing"}
  /\ ptr = "live" => chanA = "open"
  /\ toB \in Seq(MsgB) /\ toA \in Seq(MsgA)
  /\ sizes \in Seq(Sizes)
  /\ tx \in Sender /\ (tx.sdu # None => tx.sdu \in DOMAIN sizes)
  /\ ReceiverTypes(rx)

LEMMA Weights ==
  /\ FrameWeight \in [MsgB -> Nat] /\ CreditWeight \in [MsgA -> Nat]
  /\ \A m \in Frames : m \in MsgB /\ FrameWeight[m] = 1
  /\ \A m \in MsgB : m.kind # "frame" => FrameWeight[m] = 0
  /\ \A m \in MsgB : m.kind = "frame" => FrameWeight[m] = 1
  /\ \A m \in MsgA : CreditWeight[m] = IF m.kind = "credits" THEN m.n ELSE 0
<1>1. \A m \in MsgA : m.n \in Nat
  BY DEF MsgA
<1>2. \A m \in Frames : m.kind = "frame" /\ m \in MsgB
  BY DEF Frames, MsgB
<1> QED
  BY <1>1, <1>2 DEF FrameWeight, CreditWeight

(* The frames in flight are as many as their units. *)
LEMMA FramesAreUnits ==
  ASSUME NEW q \in Seq(MsgB)
  PROVE  FramesIn(q) = Cardinality(Units(q, FrameWeight))
<1> DEFINE S == {i \in DOMAIN q : q[i].kind = "frame"}
<1>1. IsFiniteSet(S)
  <2>1. DOMAIN q = 1..Len(q) /\ Len(q) \in Int /\ 1 \in Int
    OBVIOUS
  <2>2. IsFiniteSet(1..Len(q))
    BY <2>1, FS_Interval
  <2>3. S \subseteq 1..Len(q)
    BY <2>1
  <2> QED
    BY <2>2, <2>3, FS_Subset
<1>2. Units(q, FrameWeight) = S \X {1}
  <2>1. ASSUME NEW e, e \in Units(q, FrameWeight) PROVE e \in S \X {1}
    <3>1. PICK i \in DOMAIN q : \E j \in 1..FrameWeight[q[i]] : e = <<i, j>>
      BY <2>1, InUnits
    <3>2. q[i] \in MsgB
      OBVIOUS
    <3>3. CASE q[i].kind = "frame"
      BY <3>1, <3>2, <3>3, Weights
    <3>4. CASE q[i].kind # "frame"
      BY <3>1, <3>2, <3>4, Weights
    <3> QED
      BY <3>3, <3>4
  <2>2. ASSUME NEW i \in S PROVE <<i, 1>> \in Units(q, FrameWeight)
    <3>1. i \in DOMAIN q /\ q[i] \in MsgB /\ q[i].kind = "frame"
      OBVIOUS
    <3>2. 1 \in 1..FrameWeight[q[i]]
      BY <3>1, Weights
    <3> QED
      BY <3>1, <3>2, InUnits
  <2> QED
    BY <2>1, <2>2
<1>3. IsFiniteSet({1}) /\ Cardinality({1}) = 1
  BY FS_Singleton
<1> HIDE DEF S
<1>4. Cardinality(S \X {1}) = Cardinality(S) * Cardinality({1})
  BY <1>1, <1>3, FS_Product
<1>5. Cardinality(S) \in Nat
  BY <1>1, FS_CardinalityType
<1>6. Cardinality(S) * 1 = Cardinality(S)
  BY <1>5
<1>7. FramesIn(q) = Cardinality(S)
  BY DEF FramesIn, S
<1> QED
  BY <1>2, <1>3, <1>4, <1>6, <1>7, Zenon

(* The counts when something is sent and received *)
LEMMA SignalB ==
  ASSUME toB \in Seq(MsgB), IsFiniteSet(FrameUnits),
         NEW m \in MsgB, m.kind # "frame", toB' = Append(toB, m)
  PROVE  /\ toB' \in Seq(MsgB) /\ IsFiniteSet(FrameUnits')
         /\ Cardinality(FrameUnits') = Cardinality(FrameUnits)
<1>1. FrameWeight \in [MsgB -> Nat] /\ FrameWeight[m] = 0
  BY Weights
<1>2. /\ IsFiniteSet(FrameUnits')
      /\ Cardinality(FrameUnits') = Cardinality(FrameUnits) + FrameWeight[m]
  BY <1>1, UnitsAppend DEF FrameUnits
<1>3. Cardinality(FrameUnits) \in Nat
  BY FS_CardinalityType
<1> QED
  BY <1>1, <1>2, <1>3

LEMMA SignalA ==
  ASSUME toA \in Seq(MsgA), IsFiniteSet(CreditUnits), NEW m \in MsgA, toA' = Append(toA, m)
  PROVE  /\ toA' \in Seq(MsgA) /\ IsFiniteSet(CreditUnits')
         /\ Cardinality(CreditUnits')
              = Cardinality(CreditUnits) + IF m.kind = "credits" THEN m.n ELSE 0
<1>1. CreditWeight \in [MsgA -> Nat] /\ CreditWeight[m] = IF m.kind = "credits" THEN m.n ELSE 0
  BY Weights
<1>2. /\ IsFiniteSet(CreditUnits')
      /\ Cardinality(CreditUnits') = Cardinality(CreditUnits) + CreditWeight[m]
  BY <1>1, UnitsAppend DEF CreditUnits
<1> QED
  BY <1>1, <1>2

LEMMA ReceiveB ==
  ASSUME toB \in Seq(MsgB), IsFiniteSet(FrameUnits), toB # <<>>, toB' = Tail(toB)
  PROVE  /\ toB' \in Seq(MsgB) /\ IsFiniteSet(FrameUnits') /\ Head(toB) \in MsgB
         /\ Cardinality(FrameUnits)
              = Cardinality(FrameUnits') + IF Head(toB).kind = "frame" THEN 1 ELSE 0
         /\ \A i \in DOMAIN toB' : \E j \in DOMAIN toB : toB'[i] = toB[j]
<1>1. FrameWeight \in [MsgB -> Nat] /\ Head(toB) \in MsgB /\ toB' \in Seq(MsgB)
  BY Weights
<1>2. FrameWeight[Head(toB)] = IF Head(toB).kind = "frame" THEN 1 ELSE 0
  BY <1>1, Weights
<1>3. /\ IsFiniteSet(FrameUnits')
      /\ Cardinality(FrameUnits) = Cardinality(FrameUnits') + FrameWeight[Head(toB)]
  BY <1>1, UnitsTail DEF FrameUnits
<1>4. ASSUME NEW i \in DOMAIN toB' PROVE \E j \in DOMAIN toB : toB'[i] = toB[j]
  <2>1. i + 1 \in DOMAIN toB /\ toB'[i] = toB[i + 1]
    OBVIOUS
  <2> QED
    BY <2>1
<1> QED
  BY <1>1, <1>2, <1>3, <1>4

LEMMA ReceiveA ==
  ASSUME toA \in Seq(MsgA), IsFiniteSet(CreditUnits), toA # <<>>, toA' = Tail(toA)
  PROVE  /\ toA' \in Seq(MsgA) /\ IsFiniteSet(CreditUnits') /\ Head(toA) \in MsgA
         /\ Cardinality(CreditUnits)
              = Cardinality(CreditUnits') + IF Head(toA).kind = "credits" THEN Head(toA).n ELSE 0
         /\ \A i \in DOMAIN toA' : \E j \in DOMAIN toA : toA'[i] = toA[j]
<1>1. CreditWeight \in [MsgA -> Nat] /\ Head(toA) \in MsgA /\ toA' \in Seq(MsgA)
  BY Weights
<1>2. CreditWeight[Head(toA)] = IF Head(toA).kind = "credits" THEN Head(toA).n ELSE 0
  BY <1>1, Weights
<1>3. /\ IsFiniteSet(CreditUnits')
      /\ Cardinality(CreditUnits) = Cardinality(CreditUnits') + CreditWeight[Head(toA)]
  BY <1>1, UnitsTail DEF CreditUnits
<1>4. ASSUME NEW i \in DOMAIN toA' PROVE \E j \in DOMAIN toA : toA'[i] = toA[j]
  <2>1. i + 1 \in DOMAIN toA /\ toA'[i] = toA[i + 1]
    OBVIOUS
  <2> QED
    BY <2>1
<1> QED
  BY <1>1, <1>2, <1>3, <1>4

(* n frames go out for n credits, whether or not all of them did. *)
LEMMA FramesGoOut ==
  ASSUME toB \in Seq(MsgB), IsFiniteSet(FrameUnits),
         NEW s \in Sender, s.sdu \in Nat, NEW size, NEW n \in Nat, n <= s.credits,
         SendFrames(s, size, n) \/ SendFails(s, n)
  PROVE  /\ toB' \in Seq(MsgB) /\ IsFiniteSet(FrameUnits')
         /\ Cardinality(FrameUnits') = Cardinality(FrameUnits) + n
         /\ \A i \in DOMAIN toB' : \/ toB'[i].kind = "frame"
                                   \/ \E j \in DOMAIN toB : toB'[i] = toB[j]
         /\ tx' \in Sender /\ tx'.credits = s.credits - n /\ tx'.sdu \in {None, s.sdu}
<1> DEFINE g == [i \in 1..n |-> Frame(s.sdu, s.off + i)]
<1>1. toB' = toB \o g
  BY DEF SendFrames, SendFails
<1>2. \A i \in 1..n : g[i] \in Frames
  BY DEF Frame, Frames, Sender
<1>3. g \in Seq(MsgB) /\ Len(g) = n /\ DOMAIN g = 1..n
  <2>1. \A i \in 1..n : g[i] \in MsgB
    BY <1>2, Weights
  <2> QED
    BY <2>1
<1>4. \A i \in DOMAIN g : FrameWeight[g[i]] = 1 /\ g[i].kind = "frame"
  BY <1>2, <1>3, Weights DEF Frames
<1> HIDE DEF g
<1>5. /\ IsFiniteSet(FrameUnits')
      /\ Cardinality(FrameUnits') = Cardinality(FrameUnits) + n
  <2>1. FrameWeight \in [MsgB -> Nat] /\ \A i \in DOMAIN g : FrameWeight[g[i]] = 1
    BY <1>4, Weights
  <2>2. /\ IsFiniteSet(Units(toB \o g, FrameWeight))
        /\ Cardinality(Units(toB \o g, FrameWeight)) = Cardinality(Units(toB, FrameWeight)) + Len(g)
    BY <1>3, <2>1, UnitsConcat DEF FrameUnits
  <2> QED
    BY <1>1, <1>3, <2>2 DEF FrameUnits
<1>6. ASSUME NEW i \in DOMAIN toB'
      PROVE  toB'[i].kind = "frame" \/ \E j \in DOMAIN toB : toB'[i] = toB[j]
  <2>1. CASE i \in DOMAIN toB
    <3>1. toB'[i] = toB[i]
      BY <1>1, <1>3, <2>1
    <3> QED
      BY <2>1, <3>1
  <2>2. CASE i \notin DOMAIN toB
    <3>1. i - Len(toB) \in DOMAIN g /\ toB'[i] = g[i - Len(toB)]
      BY <1>1, <1>3, <2>2
    <3> QED
      BY <1>4, <3>1
  <2> QED
    BY <2>1, <2>2
<1>7. /\ tx' \in Sender /\ tx'.credits = s.credits - n /\ tx'.sdu \in {None, s.sdu}
  <2>1. s.credits - n \in Nat /\ s.off + n \in Nat
    BY DEF Sender
  <2>2. tx' \in {[s EXCEPT !.sdu = None, !.off = 0, !.credits = s.credits - n, !.flag = FALSE],
                 [s EXCEPT !.off = s.off + n, !.credits = s.credits - n, !.flag = TRUE],
                 [s EXCEPT !.sdu = None, !.off = s.off + n, !.credits = s.credits - n, !.flag = FALSE]}
    BY DEF SendFrames, SendFails, Sender
  <2> DEFINE c == s.credits - n
             o == s.off + n
  <2> HIDE DEF c, o
  <2>3. c \in Nat /\ o \in Nat
    BY <2>1 DEF c, o
  <2>4. tx' \in {[s EXCEPT !.sdu = None, !.off = 0, !.credits = c, !.flag = FALSE],
                 [s EXCEPT !.off = o, !.credits = c, !.flag = TRUE],
                 [s EXCEPT !.sdu = None, !.off = o, !.credits = c, !.flag = FALSE]}
    BY <2>2 DEF c, o
  <2>5. tx' \in Sender /\ tx'.credits = c /\ tx'.sdu \in {None, s.sdu}
    <3>1. CASE tx' = [s EXCEPT !.sdu = None, !.off = 0, !.credits = c, !.flag = FALSE]
      BY <2>3, <3>1 DEF Sender
    <3>2. CASE tx' = [s EXCEPT !.off = o, !.credits = c, !.flag = TRUE]
      BY <2>3, <3>2 DEF Sender
    <3>3. CASE tx' = [s EXCEPT !.sdu = None, !.off = o, !.credits = c, !.flag = FALSE]
      BY <2>3, <3>3 DEF Sender
    <3> QED
      BY <2>4, <3>1, <3>2, <3>3
  <2> QED
    BY <2>5 DEF c
<1>8. toB' \in Seq(MsgB)
  BY <1>1, <1>3
<1> QED
  BY <1>5, <1>6, <1>7, <1>8

(* A frame with nothing in it costs its credit like any other. *)
LEMMA EmptyGoesOut ==
  ASSUME toB \in Seq(MsgB), IsFiniteSet(FrameUnits),
         NEW s \in Sender, s.sdu \in Nat, s.credits > 0, SendEmpty(s)
  PROVE  /\ toB' \in Seq(MsgB) /\ IsFiniteSet(FrameUnits')
         /\ Cardinality(FrameUnits') = Cardinality(FrameUnits) + 1
         /\ \A i \in DOMAIN toB' : \/ toB'[i].kind = "frame"
                                   \/ \E j \in DOMAIN toB : toB'[i] = toB[j]
         /\ tx' \in Sender /\ tx'.credits = s.credits - 1 /\ tx'.sdu = None
<1> DEFINE m == Frame(s.sdu, 0)
<1>1. toB' = Append(toB, m)
  BY DEF SendEmpty
<1>2. m \in Frames /\ m.kind = "frame"
  BY DEF Frame, Frames
<1> HIDE DEF m
<1>3. m \in MsgB /\ FrameWeight \in [MsgB -> Nat] /\ FrameWeight[m] = 1
  BY <1>2, Weights
<1>4. /\ IsFiniteSet(FrameUnits')
      /\ Cardinality(FrameUnits') = Cardinality(FrameUnits) + 1
  BY <1>1, <1>3, UnitsAppend DEF FrameUnits
<1>5. \A i \in DOMAIN toB' : toB'[i] = m \/ (i \in DOMAIN toB /\ toB'[i] = toB[i])
  BY <1>1, <1>3
<1>6. tx' \in Sender /\ tx'.credits = s.credits - 1 /\ tx'.sdu = None
  <2>1. s.credits - 1 \in Nat
    BY DEF Sender
  <2> DEFINE c == s.credits - 1
  <2>2. tx' = [s EXCEPT !.sdu = None, !.off = 0, !.credits = c, !.flag = FALSE]
    BY DEF SendEmpty, Sender
  <2>3. c \in Nat
    BY <2>1
  <2> HIDE DEF c
  <2>4. tx' \in Sender /\ tx'.credits = c /\ tx'.sdu = None
    BY <2>2, <2>3 DEF Sender
  <2> QED
    BY <2>4 DEF c
<1>7. toB' \in Seq(MsgB)
  BY <1>1, <1>3
<1> QED
  BY <1>2, <1>4, <1>5, <1>6, <1>7

LEMMA SendableBounds ==
  ASSUME NEW s \in Sender, NEW size \in Nat
  PROVE  Sendable(s, size) \in Nat /\ Sendable(s, size) <= s.credits
BY DEF Sendable, Smaller, Sender

(* ble_l2cap_coc_continue_tx(), successful or not: some number of frames     *)
(* goes out, each for a credit.                                              *)
LEMMA SomeGoOut ==
  ASSUME toB \in Seq(MsgB), IsFiniteSet(FrameUnits),
         NEW s \in Sender, s.sdu \in Nat, NEW size \in Nat,
         Continues(s, size) \/ Fails(s, size)
  PROVE  \E n \in Nat :
           /\ toB' \in Seq(MsgB) /\ IsFiniteSet(FrameUnits')
           /\ Cardinality(FrameUnits') = Cardinality(FrameUnits) + n
           /\ \A i \in DOMAIN toB' : \/ toB'[i].kind = "frame"
                                     \/ \E j \in DOMAIN toB : toB'[i] = toB[j]
           /\ tx' \in Sender /\ tx'.credits = s.credits - n /\ tx'.sdu \in {None, s.sdu}
<1> DEFINE m == Sendable(s, size)
<1>1. m \in Nat /\ m <= s.credits /\ s.credits \in Nat
  BY SendableBounds DEF Sender
<1>2. CASE SendFrames(s, size, m)
  BY <1>1, <1>2, FramesGoOut
<1>3. CASE s.credits > 0 /\ SendEmpty(s)
  BY <1>3, EmptyGoesOut
<1>4. CASE Fails(s, size)
  <2> HIDE DEF m
  <2>1. PICK n \in {0} \cup 1..(m - 1) : SendFails(s, n)
    BY <1>4 DEF Fails, m
  <2>2. n \in Nat /\ n <= s.credits
    <3>1. CASE n = 0
      BY <1>1, <3>1
    <3>2. CASE n \in 1..(m - 1)
      BY <1>1, <3>2
    <3> QED
      BY <3>1, <3>2
  <2> QED
    BY <2>1, <2>2, FramesGoOut
<1> QED
  BY <1>2, <1>3, <1>4 DEF Continues

-----------------------------------------------------------------------------
(* The invariant *)

Kinds(q, S) == \A i \in DOMAIN q : q[i].kind \in S

(* A channel that is being opened *)
Opening ==
  /\ owed = 0
  /\ \/ chanB = "none" /\ toB = <<Signal("connect", Initial)>> /\ toA = <<>>
     \/ chanB = "none" /\ toB = <<>> /\ toA = <<Signal("refused", 0)>>
     \/ /\ chanB # "none" /\ toB = <<>> /\ toA # <<>>
        /\ Head(toA) = Signal("accepted", Initial) /\ rx.credits = Initial

Phases ==
  /\ chanA = "connecting" => Opening
  /\ chanA = "open" => chanB # "none" /\ Kinds(toB, {"frame"})
  /\ chanA = "none" => chanB # "open" /\ Kinds(toB, {"frame", "disconnected"})
  /\ chanB = "open" => Kinds(toA, {"accepted", "refused", "credits"})

Flying == Cardinality(FrameUnits)
Counted ==
  /\ IsFiniteSet(FrameUnits) /\ IsFiniteSet(CreditUnits)
  /\ owed = Cardinality(CreditUnits)
Balance ==
  /\ BothOpen /\ ~LoseCredits /\ ~TxNoMem => rx.credits = tx.credits + owed + Flying
  /\ chanA = "open" => rx.credits >= tx.credits + owed + Flying
  /\ chanA = "none" /\ chanB # "none" => rx.credits >= Flying

(* Unless an SDU fails for want of a buffer, the offset lies in the SDU, and *)
(* every frame carries something.                                            *)
Filled(q) == \A i \in DOMAIN q : q[i].kind = "frame" => q[i].k # 0
Offsets ==
  ~TxNoMem => /\ tx.sdu = None => tx.off = 0
              /\ tx.sdu # None => tx.off < sizes[tx.sdu]
              /\ Filled(toB)

IInv == WriterTypes /\ ChannelTypes /\ Phases /\ Counted /\ Balance

channel == <<chanVars, airVars, tx, rx, sizes>>

LEMMA CountTypes ==
  ASSUME IInv
  PROVE  /\ Flying \in Nat /\ owed \in Nat /\ tx.credits \in Nat
         /\ rx.credits \in Nat /\ rx.credits <= Initial /\ Initial \in Nat
<1>1. Flying \in Nat /\ owed \in Nat
  BY FS_CardinalityType DEF IInv, Counted, Flying
<1>2. rx.credits \in 0..Initial
  BY DEF IInv, ChannelTypes, ReceiverTypes
<1> QED
  BY <1>1, <1>2, CreditsAssumption DEF IInv, ChannelTypes, Sender

LEMMA EmptyUnits ==
  ASSUME NEW f
  PROVE  IsFiniteSet(Units(<<>>, f)) /\ Cardinality(Units(<<>>, f)) = 0
<1>1. Units(<<>>, f) = {}
  BY DEF Units
<1> QED
  BY <1>1, FS_EmptySet

(* Nothing of the channel is touched. *)
LEMMA ChannelUntouched ==
  ASSUME ChannelTypes, Phases, Counted, Balance, UNCHANGED channel
  PROVE  ChannelTypes' /\ Phases' /\ Counted' /\ Balance'
<1> USE DEF channel, chanVars, airVars
<1>1. ChannelTypes'
  BY DEF ChannelTypes
<1>2. Phases'
  BY DEF Phases, Opening
<1>3. FrameUnits' = FrameUnits /\ CreditUnits' = CreditUnits
  BY DEF FrameUnits, CreditUnits
<1>4. Counted'
  BY <1>3 DEF Counted
<1>5. Balance'
  BY <1>3 DEF Balance, BothOpen, Flying
<1> QED
  BY <1>1, <1>2, <1>4, <1>5

LEMMA TakenTypes ==
  ASSUME w \in Writing, w.todo # <<>>
  PROVE  /\ Taken(w) \in Writing
         /\ Taken(w).pc \in {"fragment", "wait", "send", "mark"} => Taken(w).todo # <<>>
<1>1. w.todo \in Seq(Sizes) /\ Tail(w.todo) \in Seq(Sizes)
  BY DEF Writing
<1>2. CASE Len(w.todo) = 1
  <2>1. Taken(w) = [w EXCEPT !.pc = "done", !.todo = <<>>]
    BY <1>2 DEF Taken
  <2>2. <<>> \in Seq(Sizes)
    OBVIOUS
  <2> QED
    BY <2>1, <2>2 DEF Writing
<1>3. CASE Len(w.todo) # 1
  <2>1. Taken(w) = [w EXCEPT !.pc = "fragment", !.todo = Tail(w.todo)]
    BY <1>3 DEF Taken
  <2>2. Tail(w.todo) # <<>>
    <3>1. Len(w.todo) \in Nat /\ Len(w.todo) # 0
      BY <1>1
    <3>2. Len(Tail(w.todo)) = Len(w.todo) - 1
      BY <1>1
    <3>3. Len(Tail(w.todo)) # 0
      BY <1>3, <3>1, <3>2
    <3>4. Len(<<>>) = 0
      OBVIOUS
    <3> QED
      BY <3>3, <3>4, Zenon
  <2> QED
    BY <1>1, <2>1, <2>2 DEF Writing
<1> QED
  BY <1>2, <1>3

LEMMA RetryTypes ==
  ASSUME WriterTypes, w.pc = "send"
  PROVE  /\ Retry \in Writing
         /\ Retry.pc \in {"fragment", "wait", "send", "mark"} => Retry.todo # <<>>
<1> w \in Writing /\ w.todo # <<>>
  BY DEF WriterTypes
<1>1. CASE w.tries > 1
  <2>1. w.tries - 1 \in Int
    BY DEF Writing
  <2>2. Retry = [w EXCEPT !.tries = w.tries - 1]
    BY <1>1 DEF Retry
  <2> QED
    BY <2>1, <2>2 DEF Writing
<1>2. CASE ~(w.tries > 1)
  <2>1. Retry = [w EXCEPT !.pc = "done", !.tries = 0, !.ok = FALSE]
    BY <1>2 DEF Retry
  <2>2. Retry = [pc |-> "done", todo |-> w.todo, tries |-> 0, ok |-> FALSE]
    BY <2>1 DEF Writing
  <2>3. w.todo \in Seq(Sizes) /\ 0 \in Int
    BY DEF Writing
  <2> QED
    BY <2>2, <2>3 DEF Writing
<1> QED
  BY <1>1, <1>2

-----------------------------------------------------------------------------
(* The steps of the writer that do not touch the channel *)

LEMMA WriterSteps ==
  ASSUME IInv,
         write \/ Fragment \/ Woken \/ SendOnNothing \/ MarkStalled \/ WriteReturns \/ Unstalled
  PROVE  IInv'
<1>1. UNCHANGED channel
  BY DEF write, Fragment, Woken, SendOnNothing, MarkStalled, WriteReturns, Unstalled, channel
<1>2. WriterTypes'
  <2> USE DEF IInv, WriterTypes
  <2>1. CASE write
    <3>1. CASE ptr = "null"
      BY <2>1, <3>1 DEF write, Writing
    <3>2. CASE ptr # "null"
      <4>1. PICK n \in 1..MaxFrames, two \in BOOLEAN :
              w' = [NotWriting EXCEPT !.pc = "fragment",
                                      !.todo = IF two THEN <<MaxFrames, n>> ELSE <<n>>]
        BY <2>1, <3>2 DEF write
      <4> DEFINE l == IF two THEN <<MaxFrames, n>> ELSE <<n>>
      <4>2. l \in Seq(Sizes) /\ l # <<>>
        <5>1. n \in Sizes /\ MaxFrames \in Sizes
          BY CreditsAssumption DEF Sizes
        <5>2. <<n>> \in Seq(Sizes) /\ <<MaxFrames, n>> \in Seq(Sizes)
          BY <5>1
        <5> QED
          BY <5>2
      <4>3. w' = [pc |-> "fragment", todo |-> l, tries |-> 0, ok |-> TRUE]
        BY <4>1 DEF NotWriting
      <4> HIDE DEF l
      <4> QED
        BY <4>2, <4>3 DEF Writing
    <3> QED
      BY <3>1, <3>2
  <2>2. CASE Fragment
    <3>1. CASE stalled
      <4>1. w' = [w EXCEPT !.pc = "wait"]
        BY <2>2, <3>1 DEF Fragment
      <4> QED
        BY <2>2, <4>1 DEF Fragment, Writing
    <3>2. CASE ~stalled
      <4>1. w' = [w EXCEPT !.pc = "send", !.tries = Retries] /\ Retries \in Int
        BY <2>2, <3>2, RetriesAssumption DEF Fragment
      <4> QED
        BY <2>2, <4>1 DEF Fragment, Writing
    <3> QED
      BY <3>1, <3>2
  <2>3. CASE Woken
    <3>1. w' = [w EXCEPT !.pc = "send", !.tries = Retries] /\ Retries \in Int
      BY <2>3, RetriesAssumption DEF Woken
    <3> QED
      BY <2>3, <3>1 DEF Woken, Writing
  <2>4. CASE SendOnNothing
    BY <2>4 DEF SendOnNothing, Writing
  <2>5. CASE MarkStalled
    BY <2>5, TakenTypes DEF MarkStalled
  <2>6. CASE WriteReturns
    <3>1. <<>> \in Seq(Sizes)
      OBVIOUS
    <3> QED
      BY <2>6, <3>1 DEF WriteReturns, NotWriting, Writing
  <2>7. CASE Unstalled
    BY <2>7 DEF Unstalled
  <2> QED
    BY <2>1, <2>2, <2>3, <2>4, <2>5, <2>6, <2>7
<1> QED
  BY <1>1, <1>2, ChannelUntouched DEF IInv

-----------------------------------------------------------------------------
(* The steps of the sender *)

LEMMA SendStep == IInv /\ Send => IInv'
<1> SUFFICES ASSUME IInv, Send PROVE IInv'
  OBVIOUS
<1>0. w \in Writing /\ w.todo # <<>> /\ w.pc = "send" /\ chanA = "open"
  BY DEF Send, IInv, WriterTypes, ChannelTypes
<1>1. CASE tx.sdu # None
  <2>1. UNCHANGED channel /\ w' = Retry
    BY <1>1 DEF Send, channel, chanVars, airVars
  <2>2. WriterTypes'
    BY <1>0, <2>1, RetryTypes DEF IInv, WriterTypes
  <2> QED
    BY <2>1, <2>2, ChannelUntouched DEF IInv
<1>2. CASE tx.sdu = None
  <2> DEFINE t == [tx EXCEPT !.sdu = Len(sizes) + 1]
             size == Head(w.todo)
  <2>1. /\ sizes' = Append(sizes, size)
        /\ UNCHANGED <<chanA, chanB, ptr, toA, owed, rx>>
        /\ Continues(t, size) \/ Fails(t, size)
        /\ w' \in {Taken(w), [w EXCEPT !.pc = "mark"], Retry}
    BY <1>2 DEF Send, chanVars
  <2>2. size \in Sizes /\ size \in Nat
    BY <1>0 DEF Writing, Sizes
  <2>3. Len(sizes) \in Nat /\ tx \in Sender /\ sizes \in Seq(Sizes)
    BY DEF IInv, ChannelTypes
  <2>4. t \in Sender /\ t.credits = tx.credits /\ t.sdu = Len(sizes) + 1 /\ t.sdu \in Nat
    BY <2>3 DEF Sender
  <2> HIDE DEF t, size
  <2>7. PICK j \in Nat :
        /\ toB' \in Seq(MsgB) /\ IsFiniteSet(FrameUnits')
        /\ Flying' = Flying + j
        /\ \A i \in DOMAIN toB' : \/ toB'[i].kind = "frame"
                                  \/ \E k \in DOMAIN toB : toB'[i] = toB[k]
        /\ tx' \in Sender /\ tx'.credits = tx.credits - j /\ tx'.sdu \in {None, t.sdu}
    <3>1. toB \in Seq(MsgB) /\ IsFiniteSet(FrameUnits)
      BY DEF IInv, ChannelTypes, Counted
    <3> QED
      BY <2>1, <2>2, <2>4, <3>1, SomeGoOut DEF Flying
  <2>8. WriterTypes'
    <3>1. CASE w' = Taken(w)
      BY <1>0, <3>1, TakenTypes DEF WriterTypes
    <3>2. CASE w' = [w EXCEPT !.pc = "mark"]
      BY <1>0, <3>2 DEF WriterTypes, Writing
    <3>3. CASE w' = Retry
      BY <1>0, <3>3, RetryTypes DEF IInv, WriterTypes
    <3> QED
      BY <2>1, <3>1, <3>2, <3>3
  <2>9. ChannelTypes'
    <3>1. sizes' \in Seq(Sizes) /\ t.sdu \in DOMAIN sizes'
      BY <2>1, <2>2, <2>3, <2>4
    <3>2. tx'.sdu # None => tx'.sdu \in DOMAIN sizes'
      BY <2>7, <3>1
    <3> QED
      BY <2>1, <2>7, <3>1, <3>2 DEF IInv, ChannelTypes
  <2>10. Phases'
    <3>1. Kinds(toB, {"frame"}) /\ chanB # "none"
      BY <1>0 DEF IInv, Phases
    <3>2. Kinds(toB', {"frame"})
      BY <2>7, <3>1 DEF Kinds
    <3> QED
      BY <1>0, <2>1, <3>1, <3>2 DEF IInv, Phases
  <2>11. Counted'
    BY <2>1, <2>7 DEF IInv, Counted, CreditUnits
  <2>12. Balance'
    <3>1. /\ rx' = rx /\ owed' = owed /\ chanA' = "open" /\ chanB' = chanB
          /\ Flying' = Flying + j /\ tx'.credits = tx.credits - j
      BY <1>0, <2>1, <2>7
    <3>2. (tx.credits - j) + owed + (Flying + j) = tx.credits + owed + Flying
      BY CountTypes
    <3> QED
      BY <1>0, <3>1, <3>2 DEF IInv, Balance, BothOpen
  <2> QED
    BY <2>8, <2>9, <2>10, <2>11, <2>12 DEF IInv
<1> QED
  BY <1>1, <1>2

LEMMA CreditsStep == IInv /\ Credits => IInv'
<1> SUFFICES ASSUME IInv, Credits PROVE IInv'
  OBVIOUS
<1> DEFINE n == Head(toA).n
<1>1. /\ toA # <<>> /\ Head(toA).kind = "credits" /\ toA' = Tail(toA) /\ owed' = owed - n
      /\ UNCHANGED <<chanA, chanB, ptr, w, rx, sizes>>
  BY DEF Credits, FromB, chanVars, writerVars
<1>2. toA \in Seq(MsgA) /\ IsFiniteSet(CreditUnits) /\ owed = Cardinality(CreditUnits)
  BY DEF IInv, ChannelTypes, Counted
<1>3. /\ toA' \in Seq(MsgA) /\ IsFiniteSet(CreditUnits') /\ Head(toA) \in MsgA
      /\ Cardinality(CreditUnits) = Cardinality(CreditUnits') + n
      /\ \A i \in DOMAIN toA' : \E j \in DOMAIN toA : toA'[i] = toA[j]
  BY <1>1, <1>2, ReceiveA
<1>4. n \in Nat
  BY <1>3 DEF MsgA
<1> HIDE DEF n
<1>5. owed' = Cardinality(CreditUnits') /\ owed = owed' + n /\ owed' \in Nat
  <2>1. Cardinality(CreditUnits') \in Nat
    BY <1>3, FS_CardinalityType
  <2> QED
    BY <1>1, <1>2, <1>3, <1>4, <2>1
<1>6. WriterTypes'
  BY <1>1 DEF IInv, WriterTypes
<1>7. chanA # "connecting"
  BY <1>1 DEF IInv, Phases, Opening, Signal
<1>8. chanB = "open" => Kinds(toA', {"accepted", "refused", "credits"})
  BY <1>3 DEF IInv, Phases, Kinds
<1>9. CASE chanA # "open"
  <2>1. UNCHANGED <<toB, tx>>
    BY <1>9 DEF Credits
  <2>2. ChannelTypes'
    BY <1>1, <1>3, <2>1 DEF IInv, ChannelTypes
  <2>3. Phases'
    BY <1>1, <1>7, <1>8, <1>9, <2>1 DEF IInv, Phases
  <2>4. Counted' /\ Flying' = Flying
    BY <1>3, <1>5, <2>1 DEF IInv, Counted, FrameUnits, Flying
  <2>5. Balance'
    BY <1>1, <1>9, <2>4 DEF IInv, Balance, BothOpen
  <2> QED
    BY <1>6, <2>2, <2>3, <2>4, <2>5 DEF IInv
<1>10. CASE chanA = "open"
  <2> DEFINE t == [tx EXCEPT !.credits = @ + n]
  <2>1. tx \in Sender /\ sizes \in Seq(Sizes) /\ (tx.sdu # None => tx.sdu \in DOMAIN sizes)
    BY DEF IInv, ChannelTypes
  <2>2. t \in Sender /\ t.credits = tx.credits + n /\ t.sdu = tx.sdu
    <3>1. tx.credits + n \in Nat
      BY <1>4, <2>1 DEF Sender
    <3> QED
      BY <2>1, <3>1 DEF Sender
  <2>3. \/ tx.sdu = None /\ tx' = t /\ toB' = toB
        \/ /\ tx.sdu # None
           /\ Continues(t, sizes[tx.sdu]) \/ Fails(t, sizes[tx.sdu])
    BY <1>10 DEF Credits, n
  <2> HIDE DEF t
  <2>4. \E j \in Nat :
          /\ toB' \in Seq(MsgB) /\ IsFiniteSet(FrameUnits')
          /\ Flying' = Flying + j /\ tx'.credits = t.credits - j
          /\ tx' \in Sender /\ tx'.sdu \in {None, tx.sdu}
          /\ \A i \in DOMAIN toB' : \/ toB'[i].kind = "frame"
                                    \/ \E k \in DOMAIN toB : toB'[i] = toB[k]
    <3>1. toB \in Seq(MsgB) /\ IsFiniteSet(FrameUnits) /\ Flying \in Nat /\ t.credits \in Nat
      BY <2>2, CountTypes DEF IInv, ChannelTypes, Counted, Sender
    <3>2. CASE tx.sdu = None
      <4>1. tx' = t /\ toB' = toB
        BY <2>3, <3>2
      <4>2. FrameUnits' = FrameUnits /\ Flying' = Flying
        BY <4>1 DEF FrameUnits, Flying
      <4>3. Flying' = Flying + 0 /\ tx'.credits = t.credits - 0
        BY <3>1, <4>1, <4>2
      <4> QED
        BY <2>2, <3>1, <4>1, <4>2, <4>3
    <3>3. CASE tx.sdu # None
      <4> DEFINE size == sizes[tx.sdu]
      <4>1. size \in Nat /\ tx.sdu \in Nat
        BY <2>1, <3>3 DEF Sizes
      <4>2. Continues(t, size) \/ Fails(t, size)
        BY <2>3, <3>3
      <4> HIDE DEF size
      <4> QED
        BY <2>2, <3>1, <4>1, <4>2, SomeGoOut DEF Flying
    <3> QED
      BY <3>2, <3>3
  <2>5. PICK j \in Nat :
          /\ toB' \in Seq(MsgB) /\ IsFiniteSet(FrameUnits')
          /\ Flying' = Flying + j /\ tx'.credits = t.credits - j
          /\ tx' \in Sender /\ tx'.sdu \in {None, tx.sdu}
          /\ \A i \in DOMAIN toB' : \/ toB'[i].kind = "frame"
                                    \/ \E k \in DOMAIN toB : toB'[i] = toB[k]
    BY <2>4
  <2>6. ChannelTypes'
    BY <1>1, <1>3, <2>1, <2>5 DEF IInv, ChannelTypes
  <2>7. Phases'
    <3>1. Kinds(toB, {"frame"}) /\ chanB # "none"
      BY <1>10 DEF IInv, Phases
    <3>2. Kinds(toB', {"frame"})
      BY <2>5, <3>1 DEF Kinds
    <3> QED
      BY <1>1, <1>8, <1>10, <3>1, <3>2 DEF Phases
  <2>8. Counted'
    BY <1>3, <1>5, <2>5 DEF Counted
  <2>9. Balance'
    <3>1. tx'.credits = (tx.credits + n) - j /\ owed = owed' + n /\ Flying' = Flying + j
      BY <1>5, <2>2, <2>5
    <3>2. \A c, o, f \in Nat : ((c + n) - j) + o + (f + j) = c + (o + n) + f
      BY <1>4
    <3>3. tx'.credits + owed' + Flying' = tx.credits + owed + Flying
      BY <1>5, <3>1, <3>2, CountTypes
    <3> QED
      BY <1>1, <1>10, <3>3 DEF IInv, Balance, BothOpen
  <2> QED
    BY <1>6, <2>6, <2>7, <2>8, <2>9 DEF IInv
<1> QED
  BY <1>9, <1>10

-----------------------------------------------------------------------------
(* The steps of the receiver *)

(* The receiver takes a frame and means to return e credits, of which k are  *)
(* sent.                                                                     *)
LEMMA OneFrame ==
  ASSUME rx.credits \in Nat, tx.credits \in Nat, owed \in Nat, Flying' \in Nat,
         Flying = Flying' + 1, NEW e \in Nat, NEW k \in Nat, k <= e,
         owed' = owed + k, rx'.credits = (rx.credits - 1) + e
  PROVE  /\ k = e /\ rx.credits = tx.credits + owed + Flying
              => rx'.credits = tx.credits + owed' + Flying'
         /\ rx.credits >= tx.credits + owed + Flying
              => rx'.credits >= tx.credits + owed' + Flying'
<1> DEFINE r == rx.credits
           t == tx.credits
           o == owed
           f == Flying'
           q == rx'.credits
           p == owed'
<1>1. r \in Nat /\ t \in Nat /\ o \in Nat /\ f \in Nat /\ p = o + k /\ q = (r - 1) + e
  OBVIOUS
<1> HIDE DEF r, t, o, f, q, p
<1>2. /\ k = e /\ r = t + o + (f + 1) => q = t + p + f
      /\ r >= t + o + (f + 1) => q >= t + p + f
  BY <1>1
<1> QED
  BY <1>2 DEF r, t, o, f, q, p

LEMMA FrameArrivesStep ==
  ASSUME IInv, Offsets, FrameArrives
  PROVE  IInv'
<1>1. /\ toB # <<>> /\ Head(toB).kind = "frame" /\ toB' = Tail(toB)
      /\ UNCHANGED <<chanA, ptr, tx, w, sizes>>
  BY DEF FrameArrives, FromA, writerVars
<1>2. toB \in Seq(MsgB) /\ toA \in Seq(MsgA) /\ IsFiniteSet(FrameUnits) /\ IsFiniteSet(CreditUnits)
  BY DEF IInv, ChannelTypes, Counted
<1>3. /\ toB' \in Seq(MsgB) /\ IsFiniteSet(FrameUnits')
      /\ Flying = Flying' + 1
      /\ \A i \in DOMAIN toB' : \E j \in DOMAIN toB : toB'[i] = toB[j]
  BY <1>1, <1>2, ReceiveB DEF Flying
<1>4. Flying' \in Nat
  BY <1>3, FS_CardinalityType DEF Flying
<1>5. \A S : Kinds(toB, S) => Kinds(toB', S)
  BY <1>3 DEF Kinds
<1>6. chanA # "connecting"
  BY <1>1 DEF IInv, Phases, Opening, Signal
<1>7. WriterTypes'
  BY <1>1 DEF IInv, WriterTypes
<1>8. CASE (chanB = "none" \/ NoStart(Head(toB))) /\ UNCHANGED <<chanB, toA, owed, rx, delivered>>
  <2>1. ChannelTypes'
    BY <1>1, <1>3, <1>8 DEF IInv, ChannelTypes
  <2>2. Phases'
    BY <1>1, <1>5, <1>6, <1>8 DEF IInv, Phases
  <2>3. Counted'
    BY <1>3, <1>8 DEF IInv, Counted, CreditUnits
  <2>4. Balance'
    <3>1. CASE chanB = "none"
      BY <1>1, <1>8, <3>1 DEF IInv, Phases, Balance, BothOpen
    <3>2. CASE NoStart(Head(toB))
      <4>1. TxNoMem
        <5>1. 1 \in DOMAIN toB /\ toB[1] = Head(toB)
          BY <1>1, <1>2
        <5> QED
          BY <1>1, <3>2, <5>1 DEF Offsets, Filled, NoStart, Empty
      <4>2. /\ rx.credits >= tx.credits + owed + Flying => rx.credits >= tx.credits + owed + Flying'
            /\ rx.credits >= Flying => rx.credits >= Flying'
        BY <1>3, <1>4, CountTypes
      <4> QED
        BY <1>1, <1>8, <4>1, <4>2 DEF IInv, Balance, BothOpen
    <3> QED
      BY <1>8, <3>1, <3>2
  <2> QED
    BY <1>7, <2>1, <2>2, <2>3, <2>4 DEF IInv
<1>9. CASE /\ chanB # "none"
           /\ \E len \in Length(Head(toB)) :
                LET frames == IF Empty(Head(toB)) THEN rx.got ELSE Append(rx.got, Head(toB)) IN
                \/ len = Len(frames) /\ SduComplete(frames) /\ UNCHANGED chanB
                \/ len > Len(frames) /\ SduPartial(frames, len) /\ UNCHANGED chanB
                \/ /\ len < Len(frames) /\ UNCHANGED <<owed, delivered>>
                   /\ rx' = [rx EXCEPT !.len = 0]
                   /\ IF chanB = "closing" THEN UNCHANGED <<chanB, toA>>
                      ELSE chanB' = "closing" /\ toA' = Append(toA, Signal("disconnect", 0))
  <2>1. rx.credits >= Flying
    <3>1. CASE chanA = "open"
      <4>1. rx.credits >= tx.credits + owed + Flying
        BY <3>1 DEF IInv, Balance
      <4> QED
        BY <4>1, CountTypes
    <3>2. CASE chanA = "none"
      BY <1>9, <3>2 DEF IInv, Balance
    <3> QED
      BY <1>6, <3>1, <3>2 DEF IInv, ChannelTypes
  <2>2. rx.credits \in 1..Initial /\ owed \in Nat /\ tx.credits \in Nat /\ Initial \in Nat
    BY <1>3, <1>4, <2>1, CountTypes
  <2>3. ASSUME NEW n \in Nat, toA' = Append(toA, Signal("credits", n)), owed' = owed + n
        PROVE  /\ toA' \in Seq(MsgA) /\ IsFiniteSet(CreditUnits') /\ owed' = Cardinality(CreditUnits')
               /\ Kinds(toA, {"accepted", "refused", "credits"})
                    => Kinds(toA', {"accepted", "refused", "credits"})
    <3>1. Signal("credits", n) \in MsgA
      BY DEF Signal, MsgA
    <3>2. /\ toA' \in Seq(MsgA) /\ IsFiniteSet(CreditUnits')
          /\ Cardinality(CreditUnits') = Cardinality(CreditUnits) + n
      BY <1>2, <2>3, <3>1, SignalA DEF Signal
    <3>3. Signal("credits", n).kind = "credits"
      BY DEF Signal
    <3>4. Kinds(toA, {"accepted", "refused", "credits"})
            => Kinds(toA', {"accepted", "refused", "credits"})
      <4>1. \A i \in DOMAIN toA' : toA'[i] = Signal("credits", n) \/ (i \in DOMAIN toA /\ toA'[i] = toA[i])
        BY <1>2, <2>3
      <4> QED
        BY <3>3, <4>1 DEF Kinds
    <3> QED
      BY <2>3, <3>2, <3>4 DEF IInv, Counted
  <2>4. ASSUME toA' = toA, owed' = owed
        PROVE  toA' \in Seq(MsgA) /\ IsFiniteSet(CreditUnits') /\ owed' = Cardinality(CreditUnits')
    BY <1>2, <2>4 DEF IInv, Counted, CreditUnits
  <2>5. PICK len \in Length(Head(toB)) :
             LET frames == IF Empty(Head(toB)) THEN rx.got ELSE Append(rx.got, Head(toB)) IN
             \/ len = Len(frames) /\ SduComplete(frames) /\ UNCHANGED chanB
             \/ len > Len(frames) /\ SduPartial(frames, len) /\ UNCHANGED chanB
             \/ /\ len < Len(frames) /\ UNCHANGED <<owed, delivered>>
                /\ rx' = [rx EXCEPT !.len = 0]
                /\ IF chanB = "closing" THEN UNCHANGED <<chanB, toA>>
                   ELSE chanB' = "closing" /\ toA' = Append(toA, Signal("disconnect", 0))
    BY <1>9
  <2> DEFINE frames == IF Empty(Head(toB)) THEN rx.got ELSE Append(rx.got, Head(toB))
  <2>6. ASSUME NEW e \in Nat, GiveCredits(e), UNCHANGED chanB,
               ReceiverTypes(rx'), rx'.credits = (rx.credits - 1) + e
        PROVE  IInv'
    <3>1. PICK k \in Nat :
            /\ owed' = owed + k /\ k <= e /\ (~LoseCredits => k = e)
            /\ toA' \in Seq(MsgA) /\ IsFiniteSet(CreditUnits') /\ owed' = Cardinality(CreditUnits')
            /\ Kinds(toA, {"accepted", "refused", "credits"})
                  => Kinds(toA', {"accepted", "refused", "credits"})
      <4>1. CASE toA' = Append(toA, Signal("credits", e)) /\ owed' = owed + e
        BY <2>3, <4>1
      <4>2. CASE LoseCredits /\ UNCHANGED <<toA, owed>>
        <5>1. owed' = owed + 0 /\ 0 <= e
          BY <2>2, <4>2
        <5> QED
          BY <2>4, <4>2, <5>1
      <4> QED
        BY <2>6, <4>1, <4>2 DEF GiveCredits
    <3>2. ChannelTypes'
      BY <1>1, <1>3, <2>6, <3>1 DEF IInv, ChannelTypes
    <3>3. Phases'
      BY <1>1, <1>5, <1>6, <2>6, <3>1 DEF IInv, Phases
    <3>4. Counted'
      BY <1>3, <3>1 DEF Counted
    <3>5. Balance'
      <4>1. /\ k = e /\ rx.credits = tx.credits + owed + Flying
                 => rx'.credits = tx.credits + owed' + Flying'
            /\ rx.credits >= tx.credits + owed + Flying
                 => rx'.credits >= tx.credits + owed' + Flying'
        BY <1>3, <1>4, <2>2, <2>6, <3>1, OneFrame
      <4>2. rx'.credits >= Flying'
        BY <1>3, <1>4, <2>1, <2>2, <2>6
      <4> QED
        BY <1>1, <2>6, <3>1, <4>1, <4>2 DEF IInv, Balance, BothOpen
    <3> QED
      BY <1>7, <3>2, <3>3, <3>4, <3>5 DEF IInv
  <2>7. CASE \/ SduComplete(frames) /\ UNCHANGED chanB
             \/ SduPartial(frames, len) /\ UNCHANGED chanB
    <3>1. CASE SduComplete(frames) /\ UNCHANGED chanB
      <4> DEFINE e == Initial - (rx.credits - 1)
      <4>1. GiveCredits(e) /\ rx' = [credits |-> Initial, len |-> 0, got |-> <<>>]
        BY <3>1 DEF SduComplete
      <4>2. rx' \in [credits : 0..Initial, len : {0}, got : {<<>>}] /\ rx'.credits = Initial
        BY <2>2, <4>1
      <4>3. e \in Nat /\ rx'.credits = (rx.credits - 1) + e
        BY <2>2, <4>2
      <4> HIDE DEF e
      <4> QED
        BY <2>6, <3>1, <4>1, <4>2, <4>3 DEF ReceiverTypes
    <3>2. CASE SduPartial(frames, len) /\ UNCHANGED chanB
      <4> DEFINE c == IF rx.credits = 1 THEN 1 ELSE rx.credits - 1
      <4>1. rx' = [credits |-> c, len |-> len, got |-> frames]
        BY <3>2 DEF SduPartial
      <4>2. c \in 0..Initial
        BY <2>2
      <4> HIDE DEF c
      <4>3. rx' \in [credits : 0..Initial, len : {len}, got : {frames}] /\ rx'.credits = c
        BY <4>1, <4>2
      <4>4. ReceiverTypes(rx')
        BY <4>3 DEF ReceiverTypes
      <4>5. CASE rx.credits = 1
        <5>1. GiveCredits(1)
          BY <3>2, <4>5 DEF SduPartial
        <5>2. rx'.credits = (rx.credits - 1) + 1
          BY <4>3, <4>5 DEF c
        <5> QED
          BY <2>6, <3>2, <4>4, <5>1, <5>2
      <4>6. CASE rx.credits # 1
        <5>1. toA' = toA /\ owed' = owed
          BY <3>2, <4>6 DEF SduPartial
        <5>2. rx'.credits = (rx.credits - 1) + 0 /\ owed' = owed + 0
          BY <2>2, <4>3, <4>6, <5>1 DEF c
        <5>3. toA' \in Seq(MsgA) /\ IsFiniteSet(CreditUnits') /\ owed' = Cardinality(CreditUnits')
          BY <2>4, <5>1
        <5>4. ChannelTypes'
          BY <1>1, <1>3, <3>2, <4>4, <5>3 DEF IInv, ChannelTypes
        <5>5. Phases'
          BY <1>1, <1>5, <1>6, <3>2, <5>1 DEF IInv, Phases
        <5>6. Counted'
          BY <1>3, <5>3 DEF Counted
        <5>7. Balance'
          <6>1. /\ rx.credits = tx.credits + owed + Flying
                     => rx'.credits = tx.credits + owed' + Flying'
                /\ rx.credits >= tx.credits + owed + Flying
                     => rx'.credits >= tx.credits + owed' + Flying'
            BY <1>3, <1>4, <2>2, <5>2, OneFrame
          <6>2. rx'.credits >= Flying'
            BY <1>3, <1>4, <2>1, <2>2, <5>2
          <6> QED
            BY <1>1, <3>2, <6>1, <6>2 DEF IInv, Balance, BothOpen
        <5> QED
          BY <1>7, <5>4, <5>5, <5>6, <5>7 DEF IInv
      <4> QED
        BY <4>5, <4>6
    <3> QED
      BY <2>7, <3>1, <3>2
  <2>8. CASE /\ UNCHANGED owed /\ rx' = [rx EXCEPT !.len = 0]
             /\ IF chanB = "closing" THEN UNCHANGED <<chanB, toA>>
                ELSE chanB' = "closing" /\ toA' = Append(toA, Signal("disconnect", 0))
    <3>1. /\ toA' \in Seq(MsgA) /\ IsFiniteSet(CreditUnits') /\ owed' = Cardinality(CreditUnits')
      <4>1. CASE toA' = toA
        BY <2>4, <2>8, <4>1
      <4>2. CASE toA' = Append(toA, Signal("disconnect", 0))
        <5>1. Signal("disconnect", 0) \in MsgA /\ Signal("disconnect", 0).kind # "credits"
          BY DEF Signal, MsgA
        <5>2. /\ toA' \in Seq(MsgA) /\ IsFiniteSet(CreditUnits')
              /\ Cardinality(CreditUnits') = Cardinality(CreditUnits) + 0
          BY <1>2, <4>2, <5>1, SignalA
        <5>3. Cardinality(CreditUnits) + 0 = Cardinality(CreditUnits)
          BY <1>2, FS_CardinalityType
        <5> QED
          BY <2>8, <5>2, <5>3 DEF IInv, Counted
      <4> QED
        BY <2>8, <4>1, <4>2
    <3>2. rx'.credits = rx.credits /\ ReceiverTypes(rx') /\ chanB' = "closing"
      <4>1. PICK L, G : rx \in [credits : 0..Initial, len : L, got : G]
        BY DEF IInv, ChannelTypes, ReceiverTypes
      <4>2. rx' \in [credits : 0..Initial, len : {0}, got : G] /\ rx'.credits = rx.credits
        BY <2>8, <4>1
      <4> QED
        BY <2>8, <4>2 DEF ReceiverTypes
    <3>3. ChannelTypes'
      BY <1>1, <1>3, <3>1, <3>2 DEF IInv, ChannelTypes
    <3>4. Phases'
      BY <1>1, <1>5, <1>6, <3>2 DEF IInv, Phases
    <3>5. Counted'
      BY <1>3, <3>1 DEF Counted
    <3>6. Balance'
      <4>1. /\ rx.credits >= tx.credits + owed + Flying
                 => rx'.credits >= tx.credits + owed' + Flying'
        BY <1>3, <1>4, <2>2, <2>8, <3>2
      <4>2. rx'.credits >= Flying'
        BY <1>3, <1>4, <2>1, <2>2, <3>2
      <4>3. BothOpen \/ chanA # "open" \/ rx.credits >= tx.credits + owed + Flying
        BY DEF IInv, Balance
      <4>4. chanA = "open" => rx.credits >= tx.credits + owed + Flying
        BY DEF IInv, Balance
      <4> QED
        BY <1>1, <3>2, <4>1, <4>2, <4>4 DEF Balance, BothOpen
    <3> QED
      BY <1>7, <3>3, <3>4, <3>5, <3>6 DEF IInv
  <2> QED
    BY <2>5, <2>7, <2>8
<1> QED
  BY <1>8, <1>9 DEF FrameArrives

-----------------------------------------------------------------------------
(* The channel is opened, closed and lost. *)

LEMMA EmptyCounts ==
  ASSUME Counted
  PROVE  /\ toB = <<>> => Flying = 0
         /\ toA = <<>> => owed = 0
BY EmptyUnits DEF Counted, Flying, FrameUnits, CreditUnits

LEMMA NoReceiver == ReceiverTypes(NoRx) /\ ReceiverTypes([NoRx EXCEPT !.credits = Initial])
<1>1. NoRx \in [credits : 0..Initial, len : {0}, got : {<<>>}]
  BY CreditsAssumption DEF NoRx
<1>2. [NoRx EXCEPT !.credits = Initial] \in [credits : 0..Initial, len : {0}, got : {<<>>}]
  BY CreditsAssumption DEF NoRx
<1> QED
  BY <1>1, <1>2 DEF ReceiverTypes

LEMMA NoSender == NoTx \in Sender /\ NoTx.sdu = None /\ NoTx.credits = 0
BY DEF NoTx, Sender

LEMMA Signals ==
  ASSUME NEW n \in Nat
  PROVE  /\ \A k \in {"connect", "disconnected"} :
              Signal(k, n) \in MsgB /\ Signal(k, n).kind = k
         /\ \A k \in {"accepted", "refused", "credits", "disconnect"} :
              Signal(k, n) \in MsgA /\ Signal(k, n).kind = k
BY DEF Signal, MsgA, MsgB

LEMMA ConnectStep == ASSUME IInv, connect PROVE IInv'
<1>1. /\ chanA' = "connecting" /\ chanB' = "none" /\ ptr' = "null" /\ toA = <<>> /\ toA' = <<>>
      /\ toB = <<>> /\ toB' = Append(toB, Signal("connect", Initial))
      /\ tx' = NoTx /\ rx' = NoRx /\ sizes' = <<>> /\ owed' = owed /\ w' = w
  BY DEF connect
<1>2. Initial \in Nat
  BY CreditsAssumption
<1>3. Signal("connect", Initial) \in MsgB /\ Signal("connect", Initial).kind # "frame"
  BY <1>2, Signals
<1>4. toB \in Seq(MsgB) /\ toA \in Seq(MsgA) /\ IsFiniteSet(FrameUnits)
  BY DEF IInv, ChannelTypes, Counted
<1>5. toB' \in Seq(MsgB) /\ IsFiniteSet(FrameUnits')
  BY <1>1, <1>3, <1>4, SignalB
<1>6. ChannelTypes'
  <2>1. ReceiverTypes(rx')
    BY <1>1, NoReceiver
  <2>2. sizes' \in Seq(Sizes)
    BY <1>1
  <2> QED
    BY <1>1, <1>4, <1>5, <2>1, <2>2, NoSender DEF ChannelTypes
<1>7. Phases'
  <2>1. owed = 0
    BY <1>1, EmptyCounts DEF IInv
  <2>2. toB' = <<Signal("connect", Initial)>>
    BY <1>1
  <2> QED
    BY <1>1, <2>1, <2>2 DEF Phases, Opening
<1>8. Counted'
  BY <1>1, <1>5 DEF IInv, Counted, CreditUnits
<1>9. Balance'
  BY <1>1 DEF Balance, BothOpen
<1>10. WriterTypes'
  BY <1>1 DEF IInv, WriterTypes
<1> QED
  BY <1>6, <1>7, <1>8, <1>9, <1>10 DEF IInv

LEMMA ConnectReqStep == ASSUME IInv, ConnectReq PROVE IInv'
<1>1. /\ toB # <<>> /\ Head(toB).kind = "connect" /\ toB' = Tail(toB)
      /\ UNCHANGED <<chanA, ptr, owed, tx, w, sizes>>
      /\ \/ /\ chanB' = "open" /\ rx' = [NoRx EXCEPT !.credits = Initial]
            /\ toA' = Append(toA, Signal("accepted", Initial))
         \/ toA' = Append(toA, Signal("refused", 0)) /\ UNCHANGED <<chanB, rx>>
  BY DEF ConnectReq, FromA, writerVars
<1>2. toB \in Seq(MsgB) /\ toA \in Seq(MsgA) /\ IsFiniteSet(FrameUnits) /\ IsFiniteSet(CreditUnits)
  BY DEF IInv, ChannelTypes, Counted
<1>3. chanA = "connecting"
  <2>1. ~Kinds(toB, {"frame"}) /\ ~Kinds(toB, {"frame", "disconnected"})
    <3>1. 1 \in DOMAIN toB /\ toB[1] = Head(toB)
      BY <1>1, <1>2
    <3> QED
      BY <1>1, <3>1 DEF Kinds
  <2> QED
    BY <2>1 DEF IInv, Phases, ChannelTypes
<1>4. owed = 0 /\ chanB = "none" /\ toB = <<Signal("connect", Initial)>> /\ toA = <<>>
  BY <1>1, <1>3 DEF IInv, Phases, Opening
<1>5. toB' = <<>>
  BY <1>1, <1>4
<1>6. Initial \in Nat /\ 0 \in Nat
  BY CreditsAssumption
<1>7. /\ Signal("accepted", Initial) \in MsgA /\ Signal("accepted", Initial).kind = "accepted"
      /\ Signal("refused", 0) \in MsgA /\ Signal("refused", 0).kind = "refused"
  BY <1>6, Signals
<1>8. toA' \in Seq(MsgA) /\ IsFiniteSet(CreditUnits') /\ owed' = Cardinality(CreditUnits')
  <2>1. PICK m \in MsgA : toA' = Append(toA, m) /\ m.kind # "credits"
    BY <1>1, <1>7
  <2>2. /\ toA' \in Seq(MsgA) /\ IsFiniteSet(CreditUnits')
        /\ Cardinality(CreditUnits') = Cardinality(CreditUnits) + 0
    BY <1>2, <2>1, SignalA
  <2>3. Cardinality(CreditUnits) = 0
    BY <1>4 DEF IInv, Counted
  <2> QED
    BY <1>1, <1>4, <2>2, <2>3
<1>9. toB' \in Seq(MsgB) /\ IsFiniteSet(FrameUnits')
  BY <1>1, <1>2, ReceiveB
<1>10. ReceiverTypes(rx') /\ (chanB' = "open" => rx'.credits = Initial) /\ chanB' \in {"none", "open"}
  <2>1. [NoRx EXCEPT !.credits = Initial].credits = Initial
    BY DEF NoRx
  <2> QED
    BY <1>1, <1>4, <2>1, NoReceiver DEF IInv, ChannelTypes
<1>11. ChannelTypes'
  BY <1>1, <1>8, <1>9, <1>10 DEF IInv, ChannelTypes
<1>12. Phases'
  <2>1. CASE chanB' = "open"
    <3>1. toA' = <<Signal("accepted", Initial)>>
      BY <1>1, <1>4, <2>1
    <3>2. toA' # <<>> /\ Head(toA') = Signal("accepted", Initial)
      BY <3>1
    <3>3. Kinds(toA', {"accepted", "refused", "credits"})
      BY <1>7, <3>1 DEF Kinds
    <3> QED
      BY <1>1, <1>3, <1>4, <1>5, <1>10, <2>1, <3>2, <3>3 DEF Phases, Opening
  <2>2. CASE chanB' # "open"
    <3>1. toA' = <<Signal("refused", 0)>> /\ chanB' = "none"
      BY <1>1, <1>4, <2>2
    <3> QED
      BY <1>1, <1>3, <1>4, <1>5, <3>1 DEF Phases, Opening
  <2> QED
    BY <2>1, <2>2
<1>13. Counted'
  BY <1>8, <1>9 DEF Counted
<1>14. Balance'
  BY <1>1, <1>3 DEF Balance, BothOpen
<1>15. WriterTypes'
  BY <1>1 DEF IInv, WriterTypes
<1> QED
  BY <1>11, <1>12, <1>13, <1>14, <1>15 DEF IInv

LEMMA ConnectRspStep == ASSUME IInv, ConnectRsp PROVE IInv'
<1>1. /\ toA # <<>> /\ toA' = Tail(toA) /\ chanA = "connecting"
      /\ UNCHANGED <<chanB, toB, owed, w, rx, sizes>>
      /\ \/ /\ Head(toA).kind = "accepted"
            /\ chanA' = "open" /\ ptr' = "live" /\ tx' = [NoTx EXCEPT !.credits = Head(toA).n]
         \/ Head(toA).kind = "refused" /\ chanA' = "none" /\ ptr' = "freed" /\ tx' = tx
  BY DEF ConnectRsp, FromB, writerVars
<1>2. toA \in Seq(MsgA) /\ IsFiniteSet(CreditUnits)
  BY DEF IInv, ChannelTypes, Counted
<1>3. /\ toA' \in Seq(MsgA) /\ IsFiniteSet(CreditUnits') /\ Head(toA) \in MsgA
      /\ Cardinality(CreditUnits)
           = Cardinality(CreditUnits') + IF Head(toA).kind = "credits" THEN Head(toA).n ELSE 0
      /\ \A i \in DOMAIN toA' : \E j \in DOMAIN toA : toA'[i] = toA[j]
  BY <1>1, <1>2, ReceiveA
<1>4. Cardinality(CreditUnits') \in Nat
  BY <1>3, FS_CardinalityType
<1>5. Counted'
  <2>1. owed' = Cardinality(CreditUnits')
    BY <1>1, <1>3, <1>4 DEF IInv, Counted
  <2> QED
    BY <1>1, <1>3, <2>1 DEF IInv, Counted, FrameUnits
<1>6. WriterTypes'
  BY <1>1 DEF IInv, WriterTypes
<1>7. chanB = "open" => Kinds(toA', {"accepted", "refused", "credits"})
  BY <1>3 DEF IInv, Phases, Kinds
<1>8. Flying' = Flying
  BY <1>1 DEF Flying, FrameUnits
<1>9. Opening /\ Initial \in Nat
  BY <1>1, CreditsAssumption DEF IInv, Phases
<1>10. CASE Head(toA).kind = "accepted"
  <2>1. /\ chanB # "none" /\ toB = <<>> /\ owed = 0 /\ rx.credits = Initial
        /\ Head(toA).n = Initial
    BY <1>1, <1>9, <1>10, Signals DEF Opening, Signal
  <2>2. chanA' = "open" /\ ptr' = "live" /\ tx' = [NoTx EXCEPT !.credits = Initial]
    BY <1>1, <1>10, <2>1
  <2>3. tx' \in Sender /\ tx'.sdu = None /\ tx'.credits = Initial
    BY <1>9, <2>2 DEF NoTx, Sender
  <2>4. ChannelTypes'
    BY <1>1, <1>3, <2>2, <2>3 DEF IInv, ChannelTypes
  <2>5. Phases'
    <3>1. Kinds(toB', {"frame"})
      BY <1>1, <2>1 DEF Kinds
    <3> QED
      BY <1>1, <1>7, <2>1, <2>2, <3>1 DEF Phases
  <2>6. Balance'
    <3>1. Flying = 0
      BY <2>1, EmptyCounts DEF IInv
    <3> QED
      BY <1>1, <1>8, <1>9, <2>1, <2>2, <2>3, <3>1 DEF Balance, BothOpen
  <2> QED
    BY <1>5, <1>6, <2>4, <2>5, <2>6 DEF IInv
<1>11. CASE Head(toA).kind = "refused"
  <2>1. chanB = "none" /\ toB = <<>>
    <3>1. Head(toA).kind # "accepted"
      BY <1>11
    <3> QED
      BY <1>1, <1>9, <3>1, Signals DEF Opening
  <2>2. chanA' = "none" /\ ptr' = "freed" /\ tx' = tx
    BY <1>1, <1>11
  <2>3. ChannelTypes'
    BY <1>1, <1>3, <2>2 DEF IInv, ChannelTypes
  <2>4. Phases'
    <3>1. Kinds(toB', {"frame", "disconnected"})
      BY <1>1, <2>1 DEF Kinds
    <3> QED
      BY <1>1, <2>1, <2>2, <3>1 DEF Phases
  <2>5. Balance'
    BY <1>1, <2>1, <2>2 DEF Balance, BothOpen
  <2> QED
    BY <1>5, <1>6, <2>3, <2>4, <2>5 DEF IInv
<1> QED
  BY <1>1, <1>10, <1>11

LEMMA LocalDisconnectStep == ASSUME IInv, disconnect PROVE IInv'
<1>1. /\ chanB = "open" /\ chanB' = "closing" /\ toA' = Append(toA, Signal("disconnect", 0))
      /\ UNCHANGED <<chanA, ptr, toB, owed, tx, w, rx, sizes>>
  BY DEF disconnect, writerVars
<1>2. toA \in Seq(MsgA) /\ IsFiniteSet(CreditUnits) /\ owed = Cardinality(CreditUnits)
  BY DEF IInv, ChannelTypes, Counted
<1>3. toA' \in Seq(MsgA) /\ IsFiniteSet(CreditUnits') /\ owed' = Cardinality(CreditUnits')
  <2>1. Signal("disconnect", 0) \in MsgA /\ Signal("disconnect", 0).kind # "credits"
    BY Signals
  <2>2. /\ toA' \in Seq(MsgA) /\ IsFiniteSet(CreditUnits')
        /\ Cardinality(CreditUnits') = Cardinality(CreditUnits) + 0
    BY <1>1, <1>2, <2>1, SignalA
  <2> QED
    BY <1>1, <1>2, <2>2, CountTypes
<1>4. ChannelTypes'
  BY <1>1, <1>3 DEF IInv, ChannelTypes
<1>5. Phases'
  <2>1. chanA = "connecting" => toA # <<>> /\ Head(toA) = Signal("accepted", Initial)
    BY <1>1 DEF IInv, Phases, Opening
  <2>2. toA # <<>> => toA' # <<>> /\ Head(toA') = Head(toA)
    BY <1>1, <1>2
  <2> QED
    BY <1>1, <2>1, <2>2 DEF IInv, Phases, Opening
<1>6. Counted'
  BY <1>1, <1>3 DEF IInv, Counted, FrameUnits
<1>7. Balance'
  <2>1. Flying' = Flying
    BY <1>1 DEF Flying, FrameUnits
  <2>2. chanA # "none"
    BY <1>1 DEF IInv, Phases
  <2> QED
    BY <1>1, <2>1, <2>2 DEF IInv, Balance, BothOpen
<1>8. WriterTypes'
  BY <1>1 DEF IInv, WriterTypes
<1> QED
  BY <1>4, <1>5, <1>6, <1>7, <1>8 DEF IInv

LEMMA DisconnectStep == ASSUME IInv, Disconnect PROVE IInv'
<1>1. toB \in Seq(MsgB) /\ toA \in Seq(MsgA) /\ IsFiniteSet(FrameUnits) /\ IsFiniteSet(CreditUnits)
  BY DEF IInv, ChannelTypes, Counted
<1>2. CASE /\ FromB("disconnect") /\ CleanupA /\ toB' = Append(toB, Signal("disconnected", 0))
           /\ UNCHANGED <<chanB, owed, w, rx, sizes>>
  <2>1. toA # <<>> /\ Head(toA).kind = "disconnect" /\ toA' = Tail(toA)
    BY <1>2 DEF FromB
  <2>2. chanB # "open" /\ chanA # "connecting"
    <3>1. 1 \in DOMAIN toA /\ toA[1] = Head(toA)
      BY <1>1, <2>1
    <3>2. ~Kinds(toA, {"accepted", "refused", "credits"})
      BY <2>1, <3>1 DEF Kinds
    <3>3. chanA # "connecting"
      BY <2>1, Signals, CreditsAssumption DEF IInv, Phases, Opening, Signal
    <3> QED
      BY <3>2, <3>3 DEF IInv, Phases
  <2>3. /\ toA' \in Seq(MsgA) /\ IsFiniteSet(CreditUnits')
        /\ Cardinality(CreditUnits) = Cardinality(CreditUnits') + 0
    BY <1>1, <2>1, ReceiveA
  <2>4. Cardinality(CreditUnits') \in Nat
    BY <2>3, FS_CardinalityType
  <2>5. Signal("disconnected", 0) \in MsgB /\ Signal("disconnected", 0).kind = "disconnected"
    BY Signals
  <2>6. toB' \in Seq(MsgB) /\ IsFiniteSet(FrameUnits') /\ Flying' = Flying
    BY <1>1, <1>2, <2>5, SignalB DEF Flying
  <2>7. chanA' = "none" /\ ptr' = "null" /\ tx' = NoTx
    BY <1>2 DEF CleanupA
  <2>8. ChannelTypes'
    BY <1>2, <2>3, <2>6, <2>7, NoSender DEF IInv, ChannelTypes
  <2>9. Phases'
    <3>1. Kinds(toB, {"frame", "disconnected"})
      BY <2>2 DEF IInv, Phases, ChannelTypes, Kinds
    <3>2. \A i \in DOMAIN toB' : toB'[i] = Signal("disconnected", 0) \/ (i \in DOMAIN toB /\ toB'[i] = toB[i])
      BY <1>1, <1>2
    <3>3. Kinds(toB', {"frame", "disconnected"})
      BY <2>5, <3>1, <3>2 DEF Kinds
    <3> QED
      BY <1>2, <2>2, <2>7, <3>3 DEF Phases
  <2>10. Counted'
    BY <1>2, <2>3, <2>4, <2>6 DEF IInv, Counted
  <2>11. Balance'
    <3>1. chanB # "none" => rx.credits >= Flying
      <4>1. CASE chanA = "open"
        <5>1. rx.credits >= tx.credits + owed + Flying
          BY <4>1 DEF IInv, Balance
        <5> QED
          BY <5>1, CountTypes
      <4>2. CASE chanA = "none"
        BY <4>2 DEF IInv, Balance
      <4> QED
        BY <2>2, <4>1, <4>2 DEF IInv, ChannelTypes
    <3> QED
      BY <1>2, <2>6, <2>7, <3>1 DEF Balance, BothOpen
  <2>12. WriterTypes'
    BY <1>2 DEF IInv, WriterTypes
  <2> QED
    BY <2>8, <2>9, <2>10, <2>11, <2>12 DEF IInv
<1>3. CASE /\ FromA("disconnected") /\ chanB' = "none" /\ rx' = NoRx
           /\ UNCHANGED <<chanA, ptr, toA, owed, tx, w, sizes>>
  <2>1. toB # <<>> /\ Head(toB).kind = "disconnected" /\ toB' = Tail(toB)
    BY <1>3 DEF FromA
  <2>2. chanA = "none"
    <3>1. 1 \in DOMAIN toB /\ toB[1] = Head(toB)
      BY <1>1, <2>1
    <3>2. chanA # "open"
      BY <2>1, <3>1 DEF IInv, Phases, Kinds
    <3>3. chanA # "connecting"
      BY <2>1 DEF IInv, Phases, Opening, Signal
    <3> QED
      BY <3>2, <3>3 DEF IInv, ChannelTypes
  <2>3. /\ toB' \in Seq(MsgB) /\ IsFiniteSet(FrameUnits')
        /\ \A i \in DOMAIN toB' : \E j \in DOMAIN toB : toB'[i] = toB[j]
    BY <1>1, <2>1, ReceiveB
  <2>4. ChannelTypes'
    BY <1>3, <2>3, NoReceiver DEF IInv, ChannelTypes
  <2>5. Phases'
    <3>1. Kinds(toB', {"frame", "disconnected"})
      BY <2>2, <2>3 DEF IInv, Phases, Kinds
    <3> QED
      BY <1>3, <2>2, <3>1 DEF Phases
  <2>6. Counted'
    BY <1>3, <2>3 DEF IInv, Counted, CreditUnits
  <2>7. Balance'
    BY <1>3, <2>2 DEF Balance, BothOpen
  <2>8. WriterTypes'
    BY <1>3 DEF IInv, WriterTypes
  <2> QED
    BY <2>4, <2>5, <2>6, <2>7, <2>8 DEF IInv
<1> QED
  <2>1. Disconnect
    OBVIOUS
  <2> QED
    BY <1>2, <1>3, <2>1 DEF Disconnect, writerVars

LEMMA ConnBrokenStep == ASSUME IInv, ConnBroken PROVE IInv'
<1>1. /\ chanA' = "none" /\ ptr' \in {"freed", "null"} /\ chanB' = "none" /\ tx' = NoTx /\ rx' = NoRx
      /\ toA' = <<>> /\ toB' = <<>> /\ owed' = 0 /\ w' = w /\ sizes' = sizes
  BY DEF ConnBroken, writerVars
<1>2. ChannelTypes'
  <2>1. toA' \in Seq(MsgA) /\ toB' \in Seq(MsgB)
    BY <1>1
  <2> QED
    BY <1>1, <2>1, NoSender, NoReceiver DEF IInv, ChannelTypes
<1>3. Phases'
  <2>1. Kinds(toB', {"frame", "disconnected"})
    BY <1>1 DEF Kinds
  <2> QED
    BY <1>1, <2>1 DEF Phases
<1>4. Counted'
  BY <1>1, EmptyUnits DEF Counted, FrameUnits, CreditUnits
<1>5. Balance'
  BY <1>1 DEF Balance, BothOpen
<1>6. WriterTypes'
  BY <1>1 DEF IInv, WriterTypes
<1> QED
  BY <1>2, <1>3, <1>4, <1>5, <1>6 DEF IInv

-----------------------------------------------------------------------------
(* The theorem *)

LEMMA Initially == Init => IInv
<1> SUFFICES ASSUME Init PROVE IInv
  OBVIOUS
<1> USE DEF Init
<1>1. WriterTypes
  <2>1. <<>> \in Seq(Sizes)
    OBVIOUS
  <2> QED
    BY <2>1 DEF WriterTypes, NotWriting, Writing
<1>2. ChannelTypes
  <2>1. toA \in Seq(MsgA) /\ toB \in Seq(MsgB) /\ sizes \in Seq(Sizes)
    OBVIOUS
  <2> QED
    BY <2>1, NoSender, NoReceiver DEF ChannelTypes
<1>3. Phases
  BY DEF Phases, Kinds
<1>4. Counted
  BY EmptyUnits DEF Counted, FrameUnits, CreditUnits
<1>5. Balance
  BY DEF Balance, BothOpen
<1> QED
  BY <1>1, <1>2, <1>3, <1>4, <1>5 DEF IInv

(* The invariant holds whatever the constants are. *)
LEMMA Inductive == IInv /\ Offsets /\ [Next]_vars => IInv'
<1> SUFFICES ASSUME IInv, Offsets, [Next]_vars PROVE IInv'
  OBVIOUS
<1>1. CASE UNCHANGED vars
  <2>1. UNCHANGED channel /\ w' = w
    BY <1>1 DEF vars, channel, chanVars, airVars, writerVars
  <2>2. WriterTypes'
    BY <2>1 DEF IInv, WriterTypes
  <2> QED
    BY <2>1, <2>2, ChannelUntouched DEF IInv
<1>2. CASE write \/ Fragment \/ Woken \/ SendOnNothing \/ MarkStalled \/ WriteReturns \/ Unstalled
  BY <1>2, WriterSteps
<1>3. CASE Send
  BY <1>3, SendStep
<1>4. CASE Credits
  BY <1>4, CreditsStep
<1>5. CASE FrameArrives
  BY <1>5, FrameArrivesStep
<1>6. CASE connect
  BY <1>6, ConnectStep
<1>7. CASE ConnectReq
  BY <1>7, ConnectReqStep
<1>8. CASE ConnectRsp
  BY <1>8, ConnectRspStep
<1>9. CASE disconnect
  BY <1>9, LocalDisconnectStep
<1>10. CASE Disconnect
  BY <1>10, DisconnectStep
<1>11. CASE ConnBroken
  BY <1>11, ConnBrokenStep
<1> QED
  BY <1>1, <1>2, <1>3, <1>4, <1>5, <1>6, <1>7, <1>8, <1>9, <1>10, <1>11
     DEF Next, Writer, HostOfA, HostOfB

-----------------------------------------------------------------------------
(* The offset, when the sender always has a buffer *)

LEMMA OffsetInside ==
  ASSUME ~TxNoMem, toB \in Seq(MsgB), Filled(toB),
         NEW s \in Sender, s.sdu \in Nat, NEW size \in Nat, s.off < size,
         Continues(s, size) \/ Fails(s, size)
  PROVE  /\ Filled(toB')
         /\ tx'.sdu = None => tx'.off = 0
         /\ tx'.sdu # None => tx'.sdu = s.sdu /\ tx'.off < size
<1>1. s.off \in Nat /\ s.credits \in Nat /\ s.sdu # None
  BY NoneAssumption DEF Sender
<1> DEFINE n == Sendable(s, size)
<1>2. SendFrames(s, size, n)
  BY <1>1 DEF Continues, Fails
<1>3. n \in Nat /\ s.off + n <= size
  BY <1>1 DEF Sendable, Smaller
<1> HIDE DEF n
<1>4. Filled(toB')
  <2> DEFINE g == [i \in 1..n |-> Frame(s.sdu, s.off + i)]
  <2>1. toB' = toB \o g
    BY <1>2 DEF SendFrames
  <2>2. \A i \in 1..n : g[i] \in Frames /\ g[i].k # 0
    BY <1>1, <1>3 DEF Frame, Frames
  <2>3. g \in Seq(Frames) /\ Len(g) = n /\ DOMAIN g = 1..n
    BY <1>3, <2>2
  <2> HIDE DEF g
  <2>4. ASSUME NEW i \in DOMAIN toB', i \notin DOMAIN toB
        PROVE  i - Len(toB) \in 1..n /\ toB'[i] = g[i - Len(toB)]
    BY <2>1, <2>3, <2>4
  <2>5. \A i \in DOMAIN toB : toB'[i] = toB[i]
    BY <2>1, <2>3
  <2> QED
    BY <2>2, <2>4, <2>5 DEF Filled
<1>5. CASE n > 0 /\ s.off + n = size
  <2>1. tx' = [s EXCEPT !.sdu = None, !.off = 0, !.credits = @ - n, !.flag = FALSE]
    BY <1>2, <1>5 DEF SendFrames
  <2>2. tx'.sdu = None /\ tx'.off = 0
    BY <2>1 DEF Sender
  <2> QED
    BY <1>4, <2>2
<1>6. CASE ~(n > 0 /\ s.off + n = size)
  <2>1. tx' = [s EXCEPT !.off = @ + n, !.credits = @ - n, !.flag = TRUE]
    BY <1>2, <1>6 DEF SendFrames
  <2>2. tx'.sdu = s.sdu /\ tx'.off = s.off + n
    BY <2>1 DEF Sender
  <2>3. s.off + n < size
    BY <1>1, <1>3, <1>6
  <2> QED
    BY <1>1, <1>4, <2>2, <2>3
<1> QED
  BY <1>5, <1>6

LEMMA FilledRest ==
  ASSUME toB \in Seq(MsgB), toB # <<>>, Filled(toB), toB' = Tail(toB)
  PROVE  Filled(toB')
<1>1. \A i \in DOMAIN toB' : i + 1 \in DOMAIN toB /\ toB'[i] = toB[i + 1]
  OBVIOUS
<1> QED
  BY <1>1 DEF Filled

LEMMA FilledSignal ==
  ASSUME toB \in Seq(MsgB), Filled(toB), NEW m \in MsgB, m.kind # "frame", toB' = Append(toB, m)
  PROVE  Filled(toB')
<1>1. \A i \in DOMAIN toB' : toB'[i] = m \/ (i \in DOMAIN toB /\ toB'[i] = toB[i])
  OBVIOUS
<1> QED
  BY <1>1 DEF Filled

LEMMA OffsetsKept == IInv /\ Offsets /\ [Next]_vars => Offsets'
<1> SUFFICES ASSUME IInv, Offsets, ~TxNoMem, [Next]_vars PROVE Offsets'
  BY DEF Offsets
<1>1. /\ toB \in Seq(MsgB) /\ Filled(toB) /\ tx \in Sender /\ sizes \in Seq(Sizes)
      /\ tx.sdu = None => tx.off = 0
      /\ tx.sdu # None => tx.sdu \in DOMAIN sizes /\ tx.off < sizes[tx.sdu]
  BY DEF IInv, ChannelTypes, Offsets
<1>2. NoTx.sdu = None /\ NoTx.off = 0
  BY DEF NoTx
<1>3. CASE UNCHANGED <<toB, tx, sizes>>
  BY <1>3 DEF Offsets
<1>4. CASE Send
  <2>1. CASE tx.sdu # None
    BY <1>3, <1>4, <2>1 DEF Send
  <2>2. CASE tx.sdu = None
    <3> DEFINE t == [tx EXCEPT !.sdu = Len(sizes) + 1]
               size == Head(w.todo)
    <3>1. sizes' = Append(sizes, size) /\ (Continues(t, size) \/ Fails(t, size)) /\ w.pc = "send"
      BY <1>4, <2>2 DEF Send
    <3>2. size \in Sizes
      BY <3>1 DEF IInv, WriterTypes, Writing
    <3>3. t \in Sender /\ t.sdu = Len(sizes) + 1 /\ t.sdu \in Nat /\ t.off = 0
      BY <1>1, <2>2 DEF Sender
    <3>4. sizes'[t.sdu] = size
      BY <1>1, <3>1, <3>2, <3>3
    <3> HIDE DEF t, size
    <3>5. size \in Nat /\ t.off < size
      BY <3>2, <3>3 DEF Sizes
    <3>6. /\ Filled(toB')
          /\ tx'.sdu = None => tx'.off = 0
          /\ tx'.sdu # None => tx'.sdu = t.sdu /\ tx'.off < size
      BY <1>1, <3>1, <3>3, <3>5, OffsetInside
    <3> QED
      BY <3>4, <3>6 DEF Offsets
  <2> QED
    BY <2>1, <2>2
<1>5. CASE Credits
  <2>1. sizes' = sizes
    BY <1>5 DEF Credits
  <2> DEFINE t == [tx EXCEPT !.credits = @ + Head(toA).n]
  <2>2. t \in Sender /\ t.sdu = tx.sdu /\ t.off = tx.off
    <3>1. Head(toA).n \in Nat
      <4>1. toA \in Seq(MsgA) /\ toA # <<>>
        BY <1>5 DEF IInv, ChannelTypes, Credits, FromB
      <4>2. Head(toA) \in MsgA
        BY <4>1
      <4> QED
        BY <4>2 DEF MsgA
    <3>2. tx.credits + Head(toA).n \in Nat
      BY <1>1, <3>1 DEF Sender
    <3> QED
      BY <1>1, <3>2 DEF Sender
  <2>3. \/ UNCHANGED <<toB, tx>>
        \/ tx.sdu = None /\ tx' = t /\ toB' = toB
        \/ tx.sdu # None /\ (Continues(t, sizes[tx.sdu]) \/ Fails(t, sizes[tx.sdu]))
    BY <1>5 DEF Credits
  <2> HIDE DEF t
  <2>4. CASE UNCHANGED <<toB, tx>>
    BY <1>3, <2>1, <2>4
  <2>5. CASE tx.sdu = None /\ tx' = t /\ toB' = toB
    BY <1>1, <2>2, <2>5 DEF Offsets
  <2>6. CASE tx.sdu # None /\ (Continues(t, sizes[tx.sdu]) \/ Fails(t, sizes[tx.sdu]))
    <3> DEFINE size == sizes[tx.sdu]
    <3>1. size \in Nat /\ tx.sdu \in Nat /\ t.off < size
      BY <1>1, <2>2, <2>6 DEF Sizes
    <3>2. Continues(t, size) \/ Fails(t, size)
      BY <2>6
    <3> HIDE DEF size
    <3>3. /\ Filled(toB')
          /\ tx'.sdu = None => tx'.off = 0
          /\ tx'.sdu # None => tx'.sdu = t.sdu /\ tx'.off < size
      BY <1>1, <2>2, <3>1, <3>2, OffsetInside
    <3> QED
      BY <2>1, <2>2, <3>3 DEF Offsets, size
  <2> QED
    BY <2>3, <2>4, <2>5, <2>6
<1>6. CASE FrameArrives \/ ConnectReq
  <2>1. toB # <<>> /\ toB' = Tail(toB) /\ UNCHANGED <<tx, sizes>>
    BY <1>6 DEF FrameArrives, ConnectReq, FromA
  <2> QED
    BY <1>1, <2>1, FilledRest DEF Offsets
<1>7. CASE ConnectRsp
  <2>1. UNCHANGED <<toB, sizes>> /\ (tx' = tx \/ tx' = [NoTx EXCEPT !.credits = Head(toA).n])
    BY <1>7 DEF ConnectRsp
  <2>2. tx' = tx \/ (tx'.sdu = None /\ tx'.off = 0)
    BY <2>1 DEF NoTx
  <2> QED
    BY <1>1, <2>1, <2>2 DEF Offsets
<1>8. ASSUME NEW m \in MsgB, m.kind # "frame", toB' = Append(toB, m), tx' = NoTx
      PROVE  Offsets'
  BY <1>1, <1>2, <1>8, FilledSignal DEF Offsets
<1>9. CASE connect
  <2>1. Signal("connect", Initial) \in MsgB /\ Signal("connect", Initial).kind # "frame"
    BY Signals, CreditsAssumption
  <2> QED
    BY <1>8, <1>9, <2>1 DEF connect
<1>10. CASE Disconnect
  <2>1. CASE FromB("disconnect") /\ CleanupA /\ toB' = Append(toB, Signal("disconnected", 0))
    <3>1. Signal("disconnected", 0) \in MsgB /\ Signal("disconnected", 0).kind # "frame"
      BY Signals
    <3> QED
      BY <1>8, <2>1, <3>1 DEF CleanupA
  <2>2. CASE FromA("disconnected") /\ UNCHANGED <<tx, sizes>>
    BY <1>1, <2>2, FilledRest DEF FromA, Offsets
  <2> QED
    BY <1>10, <2>1, <2>2 DEF Disconnect
<1>11. CASE ConnBroken
  <2>1. toB' = <<>> /\ tx' = NoTx
    BY <1>11 DEF ConnBroken
  <2> QED
    BY <1>2, <2>1 DEF Offsets, Filled
<1>12. CASE \/ write \/ Fragment \/ Woken \/ SendOnNothing \/ MarkStalled \/ WriteReturns
            \/ Unstalled \/ disconnect \/ UNCHANGED vars
  BY <1>3, <1>12 DEF write, Fragment, Woken, SendOnNothing, MarkStalled, WriteReturns,
                     Unstalled, disconnect, vars, chanVars, airVars
<1> QED
  BY <1>4, <1>5, <1>6, <1>7, <1>9, <1>10, <1>11, <1>12 DEF Next, Writer, HostOfA, HostOfB

LEMMA Invariance == Spec => []IInv
<1>1. Init => Offsets
  BY DEF Init, Offsets, Filled, NoTx
<1> QED
  BY <1>1, Initially, Inductive, OffsetsKept, PTL DEF Spec

LEMMA FramesFly == IInv => FramesIn(toB) = Flying
<1> SUFFICES ASSUME IInv PROVE FramesIn(toB) = Flying
  OBVIOUS
<1>1. toB \in Seq(MsgB)
  BY DEF IInv, ChannelTypes
<1> QED
  BY <1>1, FramesAreUnits DEF Flying, FrameUnits

(* While both ends are open, the credits the receiver counts are those of    *)
(* the sender and those in flight, as returned credits or as frames, however *)
(* the writer, both hosts, the frames and the signals interleave: every      *)
(* frame meets a credit the receiver still has, and no credit is lost.  It   *)
(* takes memory at both ends.  A host that has none when it returns a credit *)
(* loses the credit: ble_l2cap_coc.c does not look at the result of          *)
(* ble_l2cap_sig_le_credits().  A host that has none in the middle of an SDU *)
(* may send an empty frame later, whose credit the receiver does not count.  *)
THEOREM CreditsAreConserved ==
  ASSUME LoseCredits = FALSE, TxNoMem = FALSE
  PROVE  Spec => []CreditConservation
<1>1. IInv => CreditConservation
  BY FramesFly DEF IInv, Balance, CreditConservation
<1> QED
  BY <1>1, Invariance, PTL

(* Frames never outrun the credits, whether or not either host runs out of   *)
(* memory: what the sender may still send and what is on its way fits in     *)
(* what the receiver is prepared for, also while it is closing its end       *)
(* already.                                                                  *)
NothingOverdrawn ==
  chanA = "open" => rx.credits >= tx.credits + owed + FramesIn(toB)

THEOREM SenderKeepsWithinCredits == Spec => []NothingOverdrawn
<1>1. IInv => NothingOverdrawn
  BY FramesFly DEF IInv, Balance, NothingOverdrawn
<1> QED
  BY <1>1, Invariance, PTL
=============================================================================
