------------------------------ MODULE Booking -------------------------------
(***************************************************************************)
(* What payment ingest promises: every transfer that reaches a virtual     *)
(* account of the estate is booked as a payment once, and only once.       *)
(***************************************************************************)
EXTENDS Naturals

CONSTANT Transfer

VARIABLES
  arrived,  \* the transfers the bank has settled
  booked    \* the number of payment rows of each transfer

vars == <<arrived, booked>>

Init == arrived = {} /\ booked = [t \in Transfer |-> 0]

Arrive(t) ==
  /\ t \notin arrived
  /\ arrived' = arrived \cup {t}
  /\ UNCHANGED booked

Book(t) ==
  /\ t \in arrived
  /\ booked[t] = 0
  /\ booked' = [booked EXCEPT ![t] = 1]
  /\ UNCHANGED arrived

Next == \E t \in Transfer : Arrive(t) \/ Book(t)

Safety == Init /\ [][Next]_vars

Spec == Safety /\ \A t \in Transfer : WF_vars(Book(t))
=============================================================================
