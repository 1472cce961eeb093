--------------------------- MODULE StripePayments ---------------------------
(***************************************************************************)
(* Stripe payments from the webhook endpoint to the books: the API stores  *)
(* each Stripe event once and enqueues it, the worker's webhook processor  *)
(* turns it into donations, payment attempts, the platform-fee total of    *)
(* the campaign and outbox events; an operator may refund from the UI, in  *)
(* three phases, or delete a donation.                                     *)
(*                                                                         *)
(* Stripe is the environment: it emits events, delivers each of them at    *)
(* least once and in any order, and delivers it again until the endpoint   *)
(* answers 200.  A charge can be refunded in several parts, each of which  *)
(* is a charge.refunded event of its own.                                  *)
(***************************************************************************)
EXTENDS Integers, FiniteSets, FiniteSetsExt, JobQueue

CONSTANTS
  Intents,       \* PaymentIntents of one tenant, all for one campaign
  StripeEvents,  \* events Stripe may emit: [intent, kind, no]
  Donors,        \* who pays; the e-mail address stands for the donor
  Anonymous,     \* the donor who left no e-mail address
  DonorOf,       \* receipt_email of each intent
  Fee,           \* application_fee_amount of each intent
  Workers,       \* concurrent runs of the webhook processor
  Idle,          \* "no event" / "no owner"
  MaxFaults,     \* bound: errors, crashes and stalls in one behaviour
  MaxDeletes     \* bound: deletions in one behaviour

EventKind == {"succeeded", "failed", "refunded"}

ASSUME IntentsAssumption == IsFiniteSet(Intents)
ASSUME EventsAssumption ==
  StripeEvents \subseteq [intent : Intents, kind : EventKind, no : Nat]
ASSUME DonorAssumption ==
  /\ Anonymous \in Donors
  /\ DonorOf \in [Intents -> Donors]
  /\ Fee \in [Intents -> Nat]
ASSUME IdleAssumption == Idle \notin Workers /\ Idle \notin StripeEvents
ASSUME BoundsAssumption == MaxFaults \in Nat /\ MaxDeletes \in Nat

VARIABLES
  emitted,    \* events Stripe has emitted
  closed,     \* intents refunded in full at Stripe
  hookRow,    \* webhook_events.status
  accepting,  \* requests between the INSERT and the enqueue
  hooks,      \* the webhooks queue, job id stripe-<event id>
  stalled,    \* jobs that were found stalled once
  owner,      \* which run holds the job's lock
  run,        \* the runs of processStripeWebhook
  donation,   \* donations row of the intent
  attempt,    \* payment_attempts row of the intent
  people,     \* number of constituents per donor
  fees,       \* campaigns.platform_fees_cents
  ui,         \* phase of the refund request of the intent and its donation
  faults,
  deletes,
  created,    \* donation.created outbox events; the number of the last row
  refunds,    \* history: donation.refunded outbox events
  credits,    \* history: times the fee was added to the campaign
  debits,     \* history: times the fee was taken off again
  raced       \* history: intents and donors two handlers looked up at once

stripeVars  == <<emitted, closed>>
apiVars     == <<hookRow, accepting>>
queueVars   == <<hooks, stalled, owner>>
bookVars    == <<donation, attempt, people, fees, created, refunds, credits, debits>>
vars == <<stripeVars, apiVars, queueVars, run, bookVars, ui, faults, deletes, raced>>

Fault == faults < MaxFaults /\ faults' = faults + 1

IsOf(e, i, kind) == e.intent = i /\ e.kind = kind

Paid(i) == \E e \in emitted : IsOf(e, i, "succeeded")

-----------------------------------------------------------------------------
(* Stripe *)

(* The intent succeeds (no = 1), or an attempt at it fails before that. *)
Emit(e) ==
  /\ e \notin emitted
  /\ e.kind \in {"succeeded", "failed"} /\ ~Paid(e.intent)
  /\ emitted' = emitted \cup {e}
  /\ UNCHANGED <<closed, apiVars, queueVars, run, bookVars, ui, faults, deletes, raced>>

(* refunds.create: part of the charge, or all that is left of it *)
CreateRefund(e, full) ==
  /\ e \notin emitted
  /\ e.kind = "refunded" /\ Paid(e.intent) /\ e.intent \notin closed
  /\ emitted' = emitted \cup {e}
  /\ closed' = IF full THEN closed \cup {e.intent} ELSE closed

DashboardRefund(e) ==
  /\ \E full \in BOOLEAN : CreateRefund(e, full)
  /\ UNCHANGED <<apiVars, queueVars, run, bookVars, ui, faults, deletes, raced>>

-----------------------------------------------------------------------------
(* The webhook endpoint *)

(* INSERT ... ON CONFLICT (stripe_event_id) DO NOTHING.  A delivery whose  *)
(* row exists is answered 200 at once and changes nothing.                 *)
Receive(e) ==
  /\ e \in emitted
  /\ hookRow[e] = "absent"
  /\ hookRow' = [hookRow EXCEPT ![e] = "pending"]
  /\ accepting' = accepting \cup {e}
  /\ UNCHANGED <<stripeVars, queueVars, run, bookVars, ui, faults, deletes, raced>>

(* A job id of the payment instead of the event. *)
EnqueueHook_JobPerIntent(e) ==
  /\ e \in accepting
  /\ hooks' = IF \E f \in StripeEvents : f.intent = e.intent /\ hooks[f] # "none"
              THEN hooks ELSE Enqueue(hooks, e)
  /\ accepting' = accepting \ {e}
  /\ UNCHANGED <<stripeVars, hookRow, stalled, owner, run, bookVars, ui, faults, deletes, raced>>

EnqueueHook(e) ==
  /\ e \in accepting
  /\ hooks' = Enqueue(hooks, e)
  /\ accepting' = accepting \ {e}
  /\ UNCHANGED <<stripeVars, hookRow, stalled, owner, run, bookVars, ui, faults, deletes, raced>>

(* The API dies or the enqueue throws: the row is committed, Stripe gets   *)
(* no 200 and will deliver again.                                          *)
EnqueueFails(e) ==
  /\ e \in accepting
  /\ Fault
  /\ accepting' = accepting \ {e}
  /\ UNCHANGED <<stripeVars, hookRow, queueVars, run, bookVars, ui, deletes, raced>>

-----------------------------------------------------------------------------
(* processStripeWebhook.  A run is at "start" when it has its job, "read"  *)
(* when the row says processing, "commit" when the handler's SELECTs are   *)
(* done, "finish" when its transaction has committed, "error" in the catch *)
(* block.  saw is what the SELECT returned, row which row it was: the n-th *)
(* donation inserted for the intent is row n.                              *)

NoRun == [event |-> Idle, at |-> "idle", saw |-> "none", row |-> 0]

Step(w, from, to) ==
  /\ run[w].at = from
  /\ run' = [run EXCEPT ![w].at = to]

(* A run that lost its lock ends without touching the job. *)
EndRun(w, outcome) ==
  LET e == run[w].event IN
  /\ run' = [run EXCEPT ![w] = NoRun]
  /\ hooks' = IF owner[e] = w THEN Move(hooks, e, outcome) ELSE hooks
  /\ owner' = IF owner[e] = w THEN [owner EXCEPT ![e] = Idle] ELSE owner
  /\ UNCHANGED stalled

TakeHook(w, e) ==
  /\ run[w].at = "idle" /\ hooks[e] = "waiting"
  /\ hooks' = Move(hooks, e, "active")
  /\ owner' = [owner EXCEPT ![e] = w]
  /\ run' = [run EXCEPT ![w] = [NoRun EXCEPT !.event = e, !.at = "start"]]
  /\ UNCHANGED <<stripeVars, apiVars, stalled, bookVars, ui, faults, deletes, raced>>

MarkProcessing(w) ==
  /\ Step(w, "start", "read")
  /\ hookRow' = [hookRow EXCEPT ![run[w].event] = "processing"]
  /\ UNCHANGED <<stripeVars, accepting, queueVars, bookVars, ui, faults, deletes, raced>>

(* What the handler's transaction looks up before it writes. *)
Subject(e) == IF e.kind = "succeeded" THEN DonorOf[e.intent] ELSE e.intent

Lookup_NoEmailMatch(e) == IF e.kind = "refunded" THEN donation[e.intent] ELSE "none"

Lookup(e) ==
  CASE e.kind = "refunded" -> donation[e.intent]
    [] e.kind = "succeeded" /\ DonorOf[e.intent] # Anonymous /\ people[DonorOf[e.intent]] > 0
         -> "known"
    [] OTHER -> "none"

(* Another run has looked up the same subject and not committed yet. *)
Overlaps(w, e) ==
  \E v \in Workers \ {w} :
    run[v].at = "commit" /\ run[v].event.kind = e.kind /\ Subject(run[v].event) = Subject(e)

ReadBooks(w) ==
  LET e == run[w].event IN
  /\ run[w].at = "read"
  /\ run' = [run EXCEPT ![w].at = "commit", ![w].saw = Lookup(e),
                         ![w].row = IF Lookup(e) = "cleared" THEN created[e.intent] ELSE 0]
  /\ raced' = IF Overlaps(w, e) THEN raced \cup {Subject(e)} ELSE raced
  /\ UNCHANGED <<stripeVars, apiVars, queueVars, bookVars, ui, faults, deletes>>

UpsertAttempt_NoSetWhere(i, new) == attempt' = [attempt EXCEPT ![i] = new]
UpsertAttempt_DoNothing(i, new) ==
  attempt' = IF attempt[i] = "none" THEN [attempt EXCEPT ![i] = new] ELSE attempt

(* ON CONFLICT DO UPDATE ... WHERE status != 'succeeded' *)
UpsertAttempt(i, new) ==
  attempt' = IF attempt[i] = "succeeded" THEN attempt ELSE [attempt EXCEPT ![i] = new]

(* The unique key (org_id, payment_method, payment_ref) admits the insert. *)
NewDonation_NoUniqueKey(i) == TRUE
NewDonation(i) == donation[i] = "none"

(* INSERT donation ON CONFLICT (org, method, ref) DO NOTHING; the rest of  *)
(* the handler runs only for a new row, except the payment attempt and a   *)
(* constituent created on the way, which are committed in any case.        *)
HandlePaymentIntentSucceeded(w) ==
  LET i == run[w].event.intent IN
  /\ Step(w, "commit", "finish")
  /\ run[w].event.kind = "succeeded"
  /\ people' = IF run[w].saw = "known" THEN people ELSE [people EXCEPT ![DonorOf[i]] = @ + 1]
  /\ UpsertAttempt(i, "succeeded")
  /\ IF NewDonation(i)
     THEN /\ donation' = [donation EXCEPT ![i] = "cleared"]
          /\ fees' = fees + Fee[i]
          /\ credits' = [credits EXCEPT ![i] = @ + 1]
          /\ created' = [created EXCEPT ![i] = @ + 1]
     ELSE UNCHANGED <<donation, fees, credits, created>>
  /\ UNCHANGED <<stripeVars, apiVars, queueVars, refunds, debits, ui, faults, deletes, raced>>

HandlePaymentIntentFailed(w) ==
  /\ Step(w, "commit", "finish")
  /\ run[w].event.kind = "failed"
  /\ UpsertAttempt(run[w].event.intent, "failed")
  /\ UNCHANGED <<stripeVars, apiVars, queueVars, donation, people, fees, created, refunds,
                 credits, debits, ui, faults, deletes, raced>>

(* status = 'refunded' WHERE id: a row deleted meanwhile is not hit, nor    *)
(* is the one that took its place.                                         *)
MarkRefunded(i, row) ==
  donation' = IF donation[i] = "none" \/ created[i] # row THEN donation
              ELSE [donation EXCEPT ![i] = "refunded"]

(* GREATEST(platform_fees_cents - fee, 0) *)
RollBackFee(i) ==
  /\ fees' = IF fees >= Fee[i] THEN fees - Fee[i] ELSE 0
  /\ debits' = [debits EXCEPT ![i] = @ + 1]

(* Unknown and already refunded donations are skipped. *)
RefundApplies_NoStatusCheck(w) == run[w].saw # "none"
RefundApplies(w) == run[w].saw = "cleared"

(* The donation.refunded row, in the transaction of the status change. *)
AnnounceRefund_Forgotten(i) == UNCHANGED refunds
AnnounceRefund(i) == refunds' = [refunds EXCEPT ![i] = @ + 1]

(* The transaction acts on the status it read, not on the one it updates. *)
HandleChargeRefunded(w) ==
  LET i == run[w].event.intent IN
  /\ Step(w, "commit", "finish")
  /\ run[w].event.kind = "refunded"
  /\ IF RefundApplies(w)
     THEN /\ MarkRefunded(i, run[w].row)
          /\ RollBackFee(i)
          /\ AnnounceRefund(i)
     ELSE UNCHANGED <<donation, fees, debits, refunds>>
  /\ UNCHANGED <<stripeVars, apiVars, queueVars, attempt, people, created, credits,
                 ui, faults, deletes, raced>>

Finish(w) ==
  /\ run[w].at = "finish"
  /\ hookRow' = [hookRow EXCEPT ![run[w].event] = "completed"]
  /\ EndRun(w, "completed")
  /\ UNCHANGED <<stripeVars, accepting, bookVars, ui, faults, deletes, raced>>

(* The handler's transaction rolls back, or the final UPDATE throws after  *)
(* it has committed.                                                       *)
HandlerThrows(w) ==
  /\ run[w].at \in {"read", "commit", "finish"}
  /\ Fault
  /\ run' = [run EXCEPT ![w].at = "error"]
  /\ UNCHANGED <<stripeVars, apiVars, queueVars, bookVars, ui, deletes, raced>>

(* status = 'failed' and rethrow: the job has one attempt. *)
RecordError(w) ==
  /\ run[w].at = "error"
  /\ hookRow' = [hookRow EXCEPT ![run[w].event] = "failed"]
  /\ EndRun(w, "failed")
  /\ UNCHANGED <<stripeVars, accepting, bookVars, ui, faults, deletes, raced>>

(* The UPDATE before the try block, or the one in the catch block, throws. *)
Abandon(w) ==
  /\ run[w].at \in {"start", "error"}
  /\ Fault
  /\ EndRun(w, "failed")
  /\ UNCHANGED <<stripeVars, apiVars, bookVars, ui, deletes, raced>>

(* The run dies or only loses its lock and goes on; BullMQ hands the job   *)
(* out again the first time and fails it the second.                       *)
Stall(w) ==
  LET e == run[w].event IN
  /\ run[w].at # "idle" /\ owner[e] = w
  /\ Fault
  /\ run' = run \/ run' = [run EXCEPT ![w] = NoRun]
  /\ hooks' = Move(hooks, e, IF e \in stalled THEN "failed" ELSE "waiting")
  /\ stalled' = stalled \cup {e}
  /\ owner' = [owner EXCEPT ![e] = Idle]
  /\ UNCHANGED <<stripeVars, apiVars, bookVars, ui, deletes, raced>>

-----------------------------------------------------------------------------
(* The operator's requests: refundDonation and deleteDonation *)

NoRequest == [at |-> "idle", row |-> 0]

RefundValidate(i) ==
  /\ ui[i] = NoRequest /\ donation[i] = "cleared"
  /\ ui' = [ui EXCEPT ![i] = [at |-> "stripe", row |-> created[i]]]
  /\ UNCHANGED <<stripeVars, apiVars, queueVars, run, bookVars, faults, deletes, raced>>

RefundAtStripe(i) ==
  /\ ui[i].at = "stripe"
  /\ \E e \in StripeEvents : e.intent = i /\ CreateRefund(e, TRUE)
  /\ ui' = [ui EXCEPT ![i].at = "write"]
  /\ UNCHANGED <<apiVars, queueVars, run, bookVars, faults, deletes, raced>>

(* refunds.create throws (already refunded in full, or a network error), or *)
(* the API dies before it writes back.                                     *)
RefundBreaksOff(i) ==
  /\ \/ ui[i].at = "stripe" /\ i \in closed /\ UNCHANGED faults
     \/ ui[i].at # "idle" /\ Fault
  /\ ui' = [ui EXCEPT ![i] = NoRequest]
  /\ UNCHANGED <<stripeVars, apiVars, queueVars, run, bookVars, deletes, raced>>

(* Phase 3 checks nothing and leaves the campaign total alone. *)
RefundWrite(i) ==
  /\ ui[i].at = "write"
  /\ MarkRefunded(i, ui[i].row)
  /\ AnnounceRefund(i)
  /\ ui' = [ui EXCEPT ![i] = NoRequest]
  /\ UNCHANGED <<stripeVars, apiVars, queueVars, run, attempt, people, fees, created, credits,
                 debits, faults, deletes, raced>>

DeleteDonation(i) ==
  /\ donation[i] # "none"
  /\ deletes < MaxDeletes /\ deletes' = deletes + 1
  /\ donation' = [donation EXCEPT ![i] = "none"]
  /\ UNCHANGED <<stripeVars, apiVars, queueVars, run, attempt, people, fees, created, refunds,
                 credits, debits, ui, faults, raced>>

-----------------------------------------------------------------------------
Init ==
  /\ emitted = {} /\ closed = {} /\ accepting = {} /\ stalled = {} /\ raced = {}
  /\ hookRow = [e \in StripeEvents |-> "absent"]
  /\ hooks = EmptyQueue(StripeEvents)
  /\ owner = [e \in StripeEvents |-> Idle]
  /\ run = [w \in Workers |-> NoRun]
  /\ donation = [i \in Intents |-> "none"]
  /\ attempt = [i \in Intents |-> "none"]
  /\ people = [d \in Donors |-> 0]
  /\ ui = [i \in Intents |-> NoRequest]
  /\ fees = 0 /\ faults = 0 /\ deletes = 0
  /\ created = [i \in Intents |-> 0]
  /\ refunds = [i \in Intents |-> 0]
  /\ credits = [i \in Intents |-> 0]
  /\ debits = [i \in Intents |-> 0]

StripeStep(e) == Emit(e) \/ DashboardRefund(e)

EndpointStep(e) == Receive(e) \/ EnqueueHook(e) \/ EnqueueFails(e)

HandlerStep(w) ==
  \/ MarkProcessing(w) \/ ReadBooks(w)
  \/ HandlePaymentIntentSucceeded(w) \/ HandlePaymentIntentFailed(w) \/ HandleChargeRefunded(w)
  \/ Finish(w) \/ RecordError(w)

OperatorStep(i) ==
  \/ RefundValidate(i) \/ RefundAtStripe(i) \/ RefundBreaksOff(i) \/ RefundWrite(i)
  \/ DeleteDonation(i)

Next ==
  \/ \E e \in StripeEvents : StripeStep(e) \/ EndpointStep(e)
  \/ \E w \in Workers, e \in StripeEvents : TakeHook(w, e)
  \/ \E w \in Workers : HandlerStep(w) \/ HandlerThrows(w) \/ Abandon(w) \/ Stall(w)
  \/ \E i \in Intents : OperatorStep(i)

(* Stripe delivers until it is answered 200, the API finishes the request, *)
(* BullMQ hands out waiting jobs and each run goes on.  Nothing forces     *)
(* Stripe to emit, an operator to act or a fault to happen.                *)
Fairness ==
  /\ \A e \in StripeEvents : WF_vars(Receive(e)) /\ WF_vars(EnqueueHook(e))
  /\ \A w \in Workers : WF_vars(HandlerStep(w))
  /\ \A e \in StripeEvents : WF_vars(\E w \in Workers : TakeHook(w, e))

Spec == Init /\ [][Next]_vars
FairSpec == Spec /\ Fairness

-----------------------------------------------------------------------------
HookStatus == {"absent", "pending", "processing", "completed", "failed"}

Run == [event : StripeEvents \cup {Idle},
        at : {"idle", "start", "read", "commit", "finish", "error"},
        saw : {"none", "known", "cleared", "refunded"},
        row : Nat]

TypeOK ==
  /\ emitted \subseteq StripeEvents
  /\ closed \subseteq Intents
  /\ hookRow \in [StripeEvents -> HookStatus]
  /\ accepting \subseteq StripeEvents
  /\ hooks \in [StripeEvents -> JobState]
  /\ stalled \subseteq StripeEvents
  /\ owner \in [StripeEvents -> Workers \cup {Idle}]
  /\ run \in [Workers -> Run]
  /\ \A w \in Workers : run[w].at # "idle" => run[w].event \in StripeEvents
  /\ donation \in [Intents -> {"none", "cleared", "refunded"}]
  /\ attempt \in [Intents -> {"none", "failed", "succeeded"}]
  /\ people \in [Donors -> Nat]
  /\ fees \in Nat
  /\ ui \in [Intents -> [at : {"idle", "stripe", "write"}, row : Nat]]
  /\ faults \in Nat /\ deletes \in Nat
  /\ created \in [Intents -> Nat]
  /\ refunds \in [Intents -> Nat]
  /\ credits \in [Intents -> Nat]
  /\ debits \in [Intents -> Nat]
  /\ raced \subseteq Intents \cup Donors

(* Redelivered, stalled and concurrently re-run webhooks book a payment    *)
(* once: one donation.created per intent, a second one only after an       *)
(* operator deleted the donation in between.                               *)
BookedOnce == \A i \in Intents : created[i] <= 1 + deletes

(* The tables agree: a donation stands for a payment Stripe announced, its *)
(* payment attempt is recorded as succeeded and it has a constituent.      *)
BooksAgree ==
  \A i \in Intents : donation[i] # "none" =>
    /\ Paid(i)
    /\ attempt[i] = "succeeded"
    /\ people[DonorOf[i]] > 0

(* No fee is rolled back more often than it was added, unless two handlers *)
(* of refunds of the donation overlap between SELECT and commit.           *)
NoDoubleRollback == \A i \in Intents \ raced : debits[i] <= credits[i]

(* The campaign's fee total is exactly the fees booked and not rolled      *)
(* back, as long as no two handlers of refunds of one donation overlap.    *)
FeeLedger ==
  raced \cap Intents = {} =>
    fees = MapThenSumSet(LAMBDA i : Fee[i] * (credits[i] - debits[i]), Intents)

(* A refund is never silent: the status change and the donation.refunded   *)
(* event are one transaction, on the webhook's path and on the operator's. *)
RefundAnnounced ==
  \A i \in Intents :
    /\ donation[i] = "refunded" => refunds[i] > 0
    /\ debits[i] <= refunds[i]

(* The e-mail lookup gives each donor one constituent, unless two handlers *)
(* for the same donor overlap between the SELECT and the commit.           *)
OneConstituentPerEmail ==
  \A d \in Donors \ {Anonymous} : d \notin raced => people[d] <= 1

(* Late and repeated deliveries cannot undo an outcome: a succeeded        *)
(* attempt stays succeeded, a refunded donation never becomes cleared.     *)
OutcomesStick ==
  [][\A i \in Intents :
       /\ attempt[i] = "succeeded" => attempt'[i] = "succeeded"
       /\ donation[i] = "refunded" => donation'[i] # "cleared"]_vars

(* Without a fault every payment Stripe announces is booked, in whatever   *)
(* order its events are delivered and processed.                           *)
BookedUnlessFault ==
  \A e \in StripeEvents :
    e.kind = "succeeded" /\ e \in emitted ~> created[e.intent] > 0 \/ faults > 0

(* refundDonation's promise: whether the refund came from the UI or from   *)
(* the Stripe dashboard, its webhook takes the fee off the campaign once.  *)
FeeRolledBackOnce ==
  \A e \in StripeEvents :
    (e.kind = "refunded" /\ hooks[e] = "completed" /\ donation[e.intent] = "refunded")
    => debits[e.intent] = 1

-----------------------------------------------------------------------------
(* What Stripe announced and what the tables hold, read as accounts. *)
Accounts == INSTANCE PaymentAccounts WITH
  paid       <- {i \in Intents : Paid(i)},
  bookings   <- created,
  overlapped <- raced \cap Intents

(* Endpoint, queue, runs and the operator's requests together do to the    *)
(* books what one step at a time would do: no delivery, re-run, stale read *)
(* or interrupted request leaves a booking without its attempt and fee, or *)
(* a refund without its announcement; and, as long as refund handlers of   *)
(* one payment do not overlap, no refund takes off a fee never booked.     *)
ImplementsAccounts == Accounts!Spec

=============================================================================
