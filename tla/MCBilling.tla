------------------------------ MODULE MCBilling ------------------------------
(* Small instances of Billing for TLC. *)
EXTENDS Billing, TLC

CONSTANTS c1, c2, d1, d2, d3, refund1, refund2, dispute1

\* A checkout of 4; refund2 is the second partial refund, so it carries what
\* refund1 refunded as well.
MCAmount == [e \in Events |->
  CASE e = Checkout -> 4
    [] e = refund1  -> 1
    [] e = refund2  -> 2
    [] OTHER        -> 4]

Symmetry == Permutations(Calls) \cup Permutations(Deliveries)
=============================================================================
