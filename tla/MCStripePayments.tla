-------------------------- MODULE MCStripePayments --------------------------
(* Model checking values for StripePayments.  Two payments of one donor    *)
(* into the same campaign; the first can be refunded in two parts.         *)
EXTENDS StripePayments, TLC

CONSTANTS i1, i2, ann, nobody, w1, w2

Event(i, k, n) == [intent |-> i, kind |-> k, no |-> n]

MCIntents == {i1, i2}
MCDonors == {ann, nobody}
MCDonorOf == [i \in MCIntents |-> ann]
MCFee == [i \in MCIntents |-> IF i = i1 THEN 2 ELSE 1]
MCWorkers == {w1, w2}

(* Two payments and two partial refunds of the first. *)
Ledger ==
  {Event(i1, "succeeded", 1), Event(i1, "refunded", 1), Event(i1, "refunded", 2),
   Event(i2, "succeeded", 1)}

(* One payment that first fails, then succeeds and is refunded. *)
Lifecycle ==
  {Event(i1, "failed", 1), Event(i1, "succeeded", 1), Event(i1, "refunded", 1)}

(* One payment, refunded in full. *)
OnePayment == {Event(i1, "succeeded", 1), Event(i1, "refunded", 1)}

(* Bound: only a payment that Stripe can refund here is refunded from the  *)
(* UI; a request for the other one would wait for an event that no set has. *)
RefundsHaveEvents ==
  \A i \in MCIntents :
    ui[i] # NoRequest => \E e \in StripeEvents : IsOf(e, i, "refunded")

(* The runs of the processor are interchangeable; used without liveness. *)
Symmetry == Permutations(MCWorkers)

=============================================================================
