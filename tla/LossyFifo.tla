----------------------------- MODULE LossyFifo -----------------------------
(***************************************************************************)
(* What a receiving application may rely on: the packets it gets are       *)
(* packets the radio accepted, in the order of their arrival and each at   *)
(* most once.  Any of them may be lost on the way.                         *)
(***************************************************************************)
EXTENDS Naturals

VARIABLES
  arrived,  \* how many packets the radio has accepted
  pending,  \* the packets on their way to the application
  last      \* the packet the application got last, or 0

Arrive ==
  /\ arrived' = arrived + 1
  /\ pending' = pending \cup {arrived + 1}
  /\ UNCHANGED last

(* A packet that is lost at once. *)
Miss ==
  /\ arrived' = arrived + 1
  /\ UNCHANGED <<pending, last>>

Lose ==
  /\ pending' \in SUBSET pending
  /\ UNCHANGED <<arrived, last>>

Deliver ==
  /\ last' \in pending
  /\ \A p \in pending : last' <= p
  /\ pending' = pending \ {last'}
  /\ UNCHANGED arrived

Init ==
  /\ arrived \in Nat
  /\ pending = {}
  /\ last = 0

Next == Arrive \/ Miss \/ Lose \/ Deliver

Spec == Init /\ [][Next]_<<arrived, pending, last>>
=============================================================================
