-------------------------- MODULE PaymentAccounts ---------------------------
(***************************************************************************)
(* What the accounts of one campaign promise, with no webhook, queue, run  *)
(* or request in sight: each line below is one step, whatever is delivered *)
(* twice, late, in the wrong order or to two runs at once.  A payment that *)
(* Stripe announced is booked together with its payment attempt and its    *)
(* fee; a refund is recorded together with its announcement.  What two     *)
(* refund handlers that overlapped may do is left open, and nothing else.  *)
(***************************************************************************)
EXTENDS Integers

CONSTANTS
  Intents,
  Fee

VARIABLES
  paid,       \* payments that Stripe announced
  donation,
  attempt,
  fees,       \* the campaign's fee total
  bookings,   \* how often the payment has been booked
  credits,    \* how often its fee was added
  debits,     \* and taken off
  refunds,    \* refunds announced
  overlapped  \* payments whose refund handlers have overlapped

accounts ==
  <<paid, donation, attempt, fees, bookings, credits, debits, refunds, overlapped>>

Zero == [i \in Intents |-> 0]
Nothing == [i \in Intents |-> "none"]

Init ==
  /\ paid = {} /\ donation = Nothing /\ attempt = Nothing /\ fees = 0
  /\ bookings = Zero /\ credits = Zero /\ debits = Zero /\ refunds = Zero
  /\ overlapped = {}

OneMore(f, i) == [f EXCEPT ![i] = @ + 1]

Pay(i) ==
  /\ i \notin paid
  /\ paid' = paid \cup {i}
  /\ UNCHANGED <<donation, attempt, fees, bookings, credits, debits, refunds, overlapped>>

(* A failure that is late does not take a success back. *)
Fail(i) ==
  /\ attempt[i] # "succeeded"
  /\ attempt' = [attempt EXCEPT ![i] = "failed"]
  /\ UNCHANGED <<paid, donation, fees, bookings, credits, debits, refunds, overlapped>>

(* Donation, attempt and fee in one step, and not while the payment is     *)
(* booked already.                                                         *)
Book(i) ==
  /\ i \in paid /\ donation[i] = "none"
  /\ donation' = [donation EXCEPT ![i] = "cleared"]
  /\ attempt' = [attempt EXCEPT ![i] = "succeeded"]
  /\ fees' = fees + Fee[i]
  /\ bookings' = OneMore(bookings, i) /\ credits' = OneMore(credits, i)
  /\ UNCHANGED <<paid, debits, refunds, overlapped>>

(* The donation is refunded; one that was deleted and booked again in the  *)
(* meantime may be left as it is.                                          *)
RefundRow(i) ==
  /\ bookings[i] > 0
  /\ \/ donation' = [donation EXCEPT ![i] = IF @ = "none" THEN "none" ELSE "refunded"]
     \/ donation' = donation /\ bookings[i] > 1

(* The webhook's refund takes off a fee that was booked.  A donation that  *)
(* is cleared afterwards still has its own fee on the campaign.            *)
RefundByStripe(i) ==
  /\ RefundRow(i)
  /\ refunds' = OneMore(refunds, i) /\ debits' = OneMore(debits, i)
  /\ i \notin overlapped => /\ debits'[i] <= credits[i]
                            /\ donation'[i] = "cleared" => debits'[i] < credits[i]
  /\ IF overlapped = {} THEN fees >= Fee[i] /\ fees' = fees - Fee[i]
                        ELSE fees' \in {fees - Fee[i], 0}
  /\ UNCHANGED <<paid, attempt, bookings, credits, overlapped>>

(* The operator's refund leaves the fee to the webhook. *)
RefundByOperator(i) ==
  /\ RefundRow(i)
  /\ refunds' = OneMore(refunds, i)
  /\ UNCHANGED <<paid, attempt, fees, bookings, credits, debits, overlapped>>

Delete(i) ==
  /\ donation[i] # "none"
  /\ donation' = [donation EXCEPT ![i] = "none"]
  /\ UNCHANGED <<paid, attempt, fees, bookings, credits, debits, refunds, overlapped>>

Overlap(i) ==
  /\ overlapped' = overlapped \cup {i}
  /\ UNCHANGED <<paid, donation, attempt, fees, bookings, credits, debits, refunds>>

Next ==
  \E i \in Intents :
    \/ Pay(i) \/ Fail(i) \/ Book(i) \/ Delete(i) \/ Overlap(i)
    \/ RefundByStripe(i) \/ RefundByOperator(i)

Spec == Init /\ [][Next]_accounts

=============================================================================
