----------------------------- MODULE SduChannel -----------------------------
(***************************************************************************)
(* What an L2CAP channel promises to the two applications at its ends:     *)
(* SDUs that are accepted come out whole, once and in order, and as long   *)
(* as the channel is open they do come out.  Nothing is said of frames,    *)
(* credits, or who waits for whom.  L2capCoc implements this.              *)
(***************************************************************************)
EXTENDS Naturals, Sequences

CONSTANT Sdus    \* what the applications may send

VARIABLES
  open,          \* the channel exists for the sender
  accepted,      \* SDUs the sender's host took
  delivered      \* SDUs the receiver's application was given

vars == <<open, accepted, delivered>>

Init == open = FALSE /\ accepted = <<>> /\ delivered = <<>>

(* A new channel is asked for, and comes up or does not. *)
Ask == ~open /\ accepted' = <<>> /\ delivered' = <<>> /\ UNCHANGED open
Open == ~open /\ open' = TRUE /\ UNCHANGED <<accepted, delivered>>

Accept ==
  /\ open
  /\ \E s \in Sdus : accepted' = Append(accepted, s)
  /\ UNCHANGED <<open, delivered>>

(* What was accepted may also arrive behind the end of the channel. *)
Deliver ==
  /\ Len(delivered) < Len(accepted)
  /\ delivered' = Append(delivered, accepted[Len(delivered) + 1])
  /\ UNCHANGED <<open, accepted>>

(* The end of the channel, which no SDU is promised to survive *)
Close == open /\ open' = FALSE /\ UNCHANGED <<accepted, delivered>>

Next == Ask \/ Open \/ Accept \/ Deliver \/ Close

Spec == Init /\ [][Next]_vars

(* What was accepted is delivered while the channel is open. *)
FairSpec == Spec /\ WF_vars(open /\ Deliver)
=============================================================================
