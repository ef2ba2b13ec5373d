--------------------------- MODULE AttributeStore ---------------------------
(***************************************************************************)
(* What an ATT server promises to its peers and to the application: every  *)
(* value is one that somebody set, or is empty while it is being set; the  *)
(* parts that a peer prepared are kept for that peer, become values only   *)
(* together and exactly as sent, and the answer says what was done.        *)
(* AttServer implements this with a sorted list per connection, a shared   *)
(* pool, and values that are emptied, grown and filled.                    *)
(***************************************************************************)
EXTENDS Naturals, Sequences, Bags, SequencesExt

CONSTANTS Conns, Handles,
  Data,          \* what is written or set in one piece
  Parts,         \* what a peer may prepare: [handle, offset, data]
  MaxLen,        \* the longest value of each attribute
  AttrMax        \* the longest value of any attribute

VARIABLES
  value,         \* of each attribute
  pending,       \* the bag of parts each peer has prepared and not executed
  answer         \* to each peer's last execute request

vars == <<value, pending, answer>>

Of(B, h) == [p \in {q \in BagToSet(B) : q.handle = h} |-> B[p]]
End(p) == p.offset + Len(p.data)
Total(B) == Max({End(p) : p \in BagToSet(B)})
Covering(B, i) == {p \in BagToSet(B) : p.offset < i /\ i <= End(p)}

(* The parts give each position of a value, up to its end, exactly once. *)
Whole(B) ==
  /\ Total(B) <= AttrMax
  /\ \A i \in 1..Total(B) : \E p \in Covering(B, i) : Covering(B, i) = {p} /\ B[p] = 1

Assembled(B) ==
  [i \in 1..Total(B) |-> LET p == CHOOSE q \in Covering(B, i) : TRUE IN p.data[i - p.offset]]

Init ==
  /\ value = [h \in Handles |-> <<>>]
  /\ pending = [c \in Conns |-> EmptyBag]
  /\ answer = [c \in Conns |-> "none"]

(* A value is set, or emptied before it is set, by the application or by a   *)
(* peer's write.                                                             *)
Set(h) ==
  /\ UNCHANGED <<pending, answer>>
  /\ \E d \in Data \cup {<<>>} : Len(d) <= MaxLen[h] /\ value' = [value EXCEPT ![h] = d]

Prepare(c) ==
  /\ UNCHANGED <<value, answer>>
  /\ \E p \in Parts : pending' = [pending EXCEPT ![c] = @ (+) SetToBag({p})]

(* All parts of an attribute become its value. *)
Commit(c, h) ==
  LET B == Of(pending[c], h)
  IN /\ UNCHANGED answer /\ B # EmptyBag
     /\ \A g \in Handles : Of(pending[c], g) # EmptyBag => Whole(Of(pending[c], g))
     /\ Total(B) <= MaxLen[h]
     /\ value' = [value EXCEPT ![h] = Assembled(B)]
     /\ pending' = [pending EXCEPT ![c] = @ (-) B]

Answer(c, a) ==
  /\ answer' = [answer EXCEPT ![c] = a]
  /\ pending' = [pending EXCEPT ![c] = EmptyBag]
  /\ UNCHANGED value

(* Nothing is left to execute; the peer gave up; something is missing or     *)
(* double; an attribute does not take values this long; the connection ended. *)
Executed(c) == pending[c] = EmptyBag /\ Answer(c, "executed")
Cancelled(c) == Answer(c, "cancelled")
Rejected(c) ==
  /\ \E h \in Handles : Of(pending[c], h) # EmptyBag /\ ~Whole(Of(pending[c], h))
  /\ Answer(c, "rejected")
Failed(c) ==
  /\ \E p \in BagToSet(pending[c]) : End(p) > MaxLen[p.handle]
  /\ Answer(c, "failed")
Ended(c) == Answer(c, "none")

Next ==
  \/ \E h \in Handles : Set(h)
  \/ \E c \in Conns :
       \/ Prepare(c) \/ Executed(c) \/ Cancelled(c) \/ Rejected(c) \/ Failed(c) \/ Ended(c)
       \/ \E h \in Handles : Commit(c, h)

Spec == Init /\ [][Next]_vars
=============================================================================
