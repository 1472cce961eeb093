------------------------ MODULE StripePaymentsProofs ------------------------
(***************************************************************************)
(* Proofs about Stripe payments for any number of intents, events, donors  *)
(* and runs of the processor, and any number of faults and deletions: the  *)
(* invariants, the exact fee total, and the refinement of PaymentAccounts. *)
(***************************************************************************)
EXTENDS StripePayments, FiniteSetTheorems, WellFoundedInduction, TLAPS

(* Nothing is queued or processed that Stripe did not emit. *)
OriginInv ==
  /\ accepting \subseteq emitted
  /\ \A e \in StripeEvents : hooks[e] # "none" => e \in emitted
  /\ \A w \in Workers : run[w].at # "idle" => run[w].event \in emitted

(* A constituent that a run has found stays: nothing deletes it. *)
BooksInv ==
  /\ BooksAgree
  /\ \A w \in Workers :
       run[w].at = "commit" /\ run[w].event.kind = "succeeded" /\ run[w].saw = "known"
       => people[DonorOf[run[w].event.intent]] > 0

(* A missing donation has been deleted as often as it has been booked. *)
OnceInv ==
  \A i \in Intents :
    /\ created[i] <= 1 + deletes
    /\ donation[i] = "none" => created[i] <= deletes

(* A run between its SELECT and its commit, by what it looked up. *)
Refunding(w, i) == run[w].at = "commit" /\ IsOf(run[w].event, i, "refunded")

Paying(w, d) ==
  run[w].at = "commit" /\ run[w].event.kind = "succeeded" /\ DonorOf[run[w].event.intent] = d

Rolling(w, i) == Refunding(w, i) /\ run[w].saw = "cleared"

(* A fee that may still be rolled back has been credited: of a cleared     *)
(* donation, and of one that the only run refunding it has seen cleared,   *)
(* which are two fees when the donation was deleted and booked again.      *)
FeeInv ==
  \A i \in Intents \ raced :
    /\ debits[i] <= credits[i]
    /\ donation[i] = "cleared" => debits[i] < credits[i]
    /\ \A w \in Workers : Rolling(w, i) =>
         /\ debits[i] < credits[i]
         /\ run[w].row <= created[i]
         /\ donation[i] = "cleared" /\ run[w].row # created[i] => debits[i] + 1 < credits[i]
    /\ \A v, w \in Workers : Refunding(v, i) /\ Refunding(w, i) => v = w

(* A run that is about to create the constituent of a donor is alone, and  *)
(* the constituent still does not exist.                                   *)
DonorInv ==
  \A d \in (Donors \ {Anonymous}) \ raced :
    /\ people[d] <= 1
    /\ \A w \in Workers : Paying(w, d) /\ run[w].saw # "known" => people[d] = 0
    /\ \A v, w \in Workers : Paying(v, d) /\ Paying(w, d) => v = w

BookInv == BooksInv /\ RefundAnnounced /\ OnceInv /\ FeeInv /\ DonorInv

IInv == TypeOK /\ OriginInv /\ BookInv

(* Every initial state satisfies the inductive invariant. *)
LEMMA InitIInv == Init => IInv
<1> SUFFICES ASSUME Init PROVE IInv
  OBVIOUS
<1> USE DonorAssumption, IdleAssumption, BoundsAssumption DEF Init, EmptyQueue, NoRun, NoRequest
<1>1. TypeOK
  BY DEF TypeOK, HookStatus, JobState, Run
<1>2. OriginInv
  BY DEF OriginInv
<1>3. BooksInv /\ RefundAnnounced /\ OnceInv
  BY DEF BooksInv, BooksAgree, RefundAnnounced, OnceInv
<1>4. FeeInv /\ DonorInv
  BY DEF FeeInv, DonorInv, Rolling, Refunding, Paying
<1> QED BY <1>1, <1>2, <1>3, <1>4 DEF IInv, BookInv

-----------------------------------------------------------------------------
(* Type correctness and origin *)

(* Stripe and the webhook endpoint. *)
LEMMA EndpointType ==
  ASSUME TypeOK, OriginInv, NEW e \in StripeEvents, StripeStep(e) \/ EndpointStep(e)
  PROVE  TypeOK' /\ OriginInv'
<1> USE EventsAssumption, BoundsAssumption DEF apiVars, queueVars, bookVars, stripeVars
<1>1. CASE Emit(e)
  BY <1>1 DEF Emit, TypeOK, OriginInv
<1>2. CASE DashboardRefund(e)
  <2>1. e.intent \in Intents
    OBVIOUS
  <2> QED BY <1>2, <2>1 DEF DashboardRefund, CreateRefund, TypeOK, OriginInv
<1>3. CASE Receive(e)
  BY <1>3 DEF Receive, TypeOK, OriginInv, HookStatus
<1>4. CASE EnqueueHook(e)
  BY <1>4 DEF EnqueueHook, Enqueue, TypeOK, OriginInv, JobState
<1>5. CASE EnqueueFails(e)
  BY <1>5 DEF EnqueueFails, Fault, TypeOK, OriginInv
<1> QED BY <1>1, <1>2, <1>3, <1>4, <1>5 DEF StripeStep, EndpointStep

(* A run ends and leaves the job in the given state if it owns it. *)
LEMMA EndRunType ==
  ASSUME TypeOK, OriginInv, NEW w \in Workers, run[w].at # "idle",
         NEW outcome \in Terminal, EndRun(w, outcome)
  PROVE  /\ run' \in [Workers -> Run]
         /\ \A v \in Workers : run'[v].at # "idle" => run'[v] = run[v]
         /\ hooks' \in [StripeEvents -> JobState]
         /\ owner' \in [StripeEvents -> Workers \cup {Idle}]
         /\ UNCHANGED stalled
         /\ \A e \in StripeEvents : hooks'[e] # "none" => e \in emitted
  BY DEF EndRun, NoRun, Run, Move, TypeOK, OriginInv, JobState, Terminal

(* A run that moves on keeps its job. *)
LEMMA MoveType ==
  ASSUME TypeOK, OriginInv, NEW w \in Workers, run[w].at # "idle",
         NEW to \in {"read", "commit", "finish", "error"},
         run' = [run EXCEPT ![w].at = to], UNCHANGED emitted
  PROVE  /\ run' \in [Workers -> Run]
         /\ \A v \in Workers : run'[v].at # "idle" =>
                run'[v].event \in StripeEvents /\ run'[v].event \in emitted'
  BY DEF TypeOK, OriginInv, Run

(* The runs of the processor. *)
LEMMA RunType ==
  ASSUME TypeOK, OriginInv, NEW w \in Workers,
         HandlerStep(w) \/ HandlerThrows(w) \/ Abandon(w) \/ Stall(w)
         \/ \E e \in StripeEvents : TakeHook(w, e)
  PROVE  TypeOK' /\ OriginInv'
<1> USE EventsAssumption, DonorAssumption, BoundsAssumption
    DEF apiVars, queueVars, bookVars, stripeVars
<1>1. ASSUME NEW e \in StripeEvents, TakeHook(w, e) PROVE TypeOK' /\ OriginInv'
  <2>1. e \in emitted
    BY <1>1 DEF TakeHook, OriginInv
  <2>2. /\ run' \in [Workers -> Run]
        /\ \A v \in Workers : run'[v].at # "idle" =>
               run'[v].event \in StripeEvents /\ run'[v].event \in emitted
    <3> DEFINE new == [NoRun EXCEPT !.event = e, !.at = "start"]
    <3>1. new \in Run /\ new.event = e
      BY DEF NoRun, Run
    <3>2. run' = [run EXCEPT ![w] = new]
      BY <1>1 DEF TakeHook
    <3> HIDE DEF new
    <3> QED BY <2>1, <3>1, <3>2 DEF TypeOK, OriginInv
  <2>3. /\ hooks' \in [StripeEvents -> JobState]
        /\ owner' \in [StripeEvents -> Workers \cup {Idle}]
        /\ \A f \in StripeEvents : hooks'[f] # "none" => f \in emitted
    BY <1>1, <2>1 DEF TakeHook, Move, TypeOK, OriginInv, JobState
  <2>4. UNCHANGED <<stripeVars, apiVars, stalled, bookVars, ui, faults, deletes, raced>>
    BY <1>1 DEF TakeHook
  <2> QED BY <2>2, <2>3, <2>4 DEF TypeOK, OriginInv
<1>2. CASE MarkProcessing(w)
  <2>1. /\ run' \in [Workers -> Run]
        /\ \A v \in Workers : run'[v].at # "idle" =>
               run'[v].event \in StripeEvents /\ run'[v].event \in emitted'
    BY <1>2, MoveType DEF MarkProcessing, Step
  <2>2. hookRow' \in [StripeEvents -> HookStatus]
    BY <1>2 DEF MarkProcessing, TypeOK, HookStatus
  <2> QED BY <1>2, <2>1, <2>2 DEF MarkProcessing, TypeOK, OriginInv
<1>3. CASE ReadBooks(w)
  <2>1. run[w].event \in StripeEvents
    BY <1>3 DEF ReadBooks, TypeOK
  <2>2. Lookup(run[w].event) \in {"none", "known", "cleared", "refunded"}
    BY <2>1 DEF Lookup, TypeOK
  <2>3. Subject(run[w].event) \in Intents \cup Donors
    BY <2>1 DEF Subject
  <2>4. created[run[w].event.intent] \in Nat
    BY <2>1 DEF TypeOK
  <2>5. /\ run' \in [Workers -> Run]
        /\ \A v \in Workers : run'[v].at # "idle" =>
               run'[v].event \in StripeEvents /\ run'[v].event \in emitted
    <3>1. /\ run' = [run EXCEPT ![w].at = "commit", ![w].saw = Lookup(run[w].event),
                               ![w].row = IF Lookup(run[w].event) = "cleared"
                                          THEN created[run[w].event.intent] ELSE 0]
          /\ run[w].at = "read"
      BY <1>3 DEF ReadBooks
    <3> DEFINE row == IF Lookup(run[w].event) = "cleared"
                      THEN created[run[w].event.intent] ELSE 0
    <3> DEFINE new == [run[w] EXCEPT !.at = "commit", !.saw = Lookup(run[w].event), !.row = row]
    <3>2. row \in Nat
      BY <2>4
    <3> HIDE DEF row
    <3>3. run \in [Workers -> Run] /\ run[w] \in Run
      BY DEF TypeOK
    <3>4. new \in Run /\ new.event = run[w].event
      BY <2>2, <3>2, <3>3 DEF Run
    <3>5. run' = [run EXCEPT ![w] = new]
      BY <3>1, <3>3 DEF Run, row
    <3>6. \A v \in Workers : run[v].at # "idle" =>
            run[v].event \in StripeEvents /\ run[v].event \in emitted
      BY DEF TypeOK, OriginInv
    <3> HIDE DEF new
    <3> QED BY <3>1, <3>3, <3>4, <3>5, <3>6
  <2>6. raced' \subseteq Intents \cup Donors
    BY <1>3, <2>3 DEF ReadBooks, TypeOK
  <2> QED BY <1>3, <2>5, <2>6 DEF ReadBooks, TypeOK, OriginInv
<1>4. CASE HandlePaymentIntentSucceeded(w)
  <2>1. run[w].event.intent \in Intents
    BY <1>4 DEF HandlePaymentIntentSucceeded, Step, TypeOK
  <2>2. /\ run' \in [Workers -> Run]
        /\ \A v \in Workers : run'[v].at # "idle" =>
               run'[v].event \in StripeEvents /\ run'[v].event \in emitted'
    BY <1>4, MoveType DEF HandlePaymentIntentSucceeded, Step
  <2>3. attempt' \in [Intents -> {"none", "failed", "succeeded"}] /\ people' \in [Donors -> Nat]
    BY <1>4, <2>1 DEF HandlePaymentIntentSucceeded, UpsertAttempt, TypeOK
  <2>4. /\ donation' \in [Intents -> {"none", "cleared", "refunded"}]
        /\ fees' \in Nat /\ credits' \in [Intents -> Nat] /\ created' \in [Intents -> Nat]
    <3>1. CASE NewDonation(run[w].event.intent)
      <4>1. /\ donation' = [donation EXCEPT ![run[w].event.intent] = "cleared"]
            /\ fees' = fees + Fee[run[w].event.intent]
            /\ credits' = [credits EXCEPT ![run[w].event.intent] = @ + 1]
            /\ created' = [created EXCEPT ![run[w].event.intent] = @ + 1]
        BY <1>4, <3>1 DEF HandlePaymentIntentSucceeded
      <4>2. Fee[run[w].event.intent] \in Nat
        BY <2>1
      <4> QED BY <2>1, <4>1, <4>2 DEF TypeOK
    <3>2. CASE ~NewDonation(run[w].event.intent)
      BY <1>4, <3>2 DEF HandlePaymentIntentSucceeded, TypeOK
    <3> QED BY <3>1, <3>2
  <2> QED
    BY <1>4, <2>2, <2>3, <2>4 DEF HandlePaymentIntentSucceeded, TypeOK, OriginInv
<1>5. CASE HandlePaymentIntentFailed(w)
  <2>1. run[w].event.intent \in Intents
    BY <1>5 DEF HandlePaymentIntentFailed, Step, TypeOK
  <2>2. /\ run' \in [Workers -> Run]
        /\ \A v \in Workers : run'[v].at # "idle" =>
               run'[v].event \in StripeEvents /\ run'[v].event \in emitted'
    BY <1>5, MoveType DEF HandlePaymentIntentFailed, Step
  <2> QED
    BY <1>5, <2>1, <2>2 DEF HandlePaymentIntentFailed, UpsertAttempt, TypeOK, OriginInv
<1>6. CASE HandleChargeRefunded(w)
  <2>1. run[w].event.intent \in Intents
    BY <1>6 DEF HandleChargeRefunded, Step, TypeOK
  <2>2. /\ run' \in [Workers -> Run]
        /\ \A v \in Workers : run'[v].at # "idle" =>
               run'[v].event \in StripeEvents /\ run'[v].event \in emitted'
    BY <1>6, MoveType DEF HandleChargeRefunded, Step
  <2>3. donation' \in [Intents -> {"none", "cleared", "refunded"}]
    BY <1>6, <2>1 DEF HandleChargeRefunded, MarkRefunded, TypeOK
  <2>4. fees' \in Nat /\ debits' \in [Intents -> Nat] /\ refunds' \in [Intents -> Nat]
    <3>1. CASE RefundApplies(w)
      <4>1. fees' \in Nat
        <5>1. Fee[run[w].event.intent] \in Nat /\ fees \in Nat
          BY <2>1 DEF TypeOK
        <5>2. fees' = IF fees >= Fee[run[w].event.intent]
                      THEN fees - Fee[run[w].event.intent] ELSE 0
          BY <1>6, <3>1 DEF HandleChargeRefunded, RollBackFee
        <5> QED BY <5>1, <5>2
      <4>2. debits' \in [Intents -> Nat] /\ refunds' \in [Intents -> Nat]
        <5>1. /\ debits' = [debits EXCEPT ![run[w].event.intent] = @ + 1]
              /\ refunds' = [refunds EXCEPT ![run[w].event.intent] = @ + 1]
          BY <1>6, <3>1 DEF HandleChargeRefunded, RollBackFee, AnnounceRefund
        <5> QED BY <2>1, <5>1 DEF TypeOK
      <4> QED BY <4>1, <4>2
    <3>2. CASE ~RefundApplies(w)
      BY <1>6, <3>2 DEF HandleChargeRefunded, TypeOK
    <3> QED BY <3>1, <3>2
  <2> QED
    BY <1>6, <2>2, <2>3, <2>4 DEF HandleChargeRefunded, TypeOK, OriginInv
<1>7. ASSUME run[w].at # "idle", NEW outcome \in Terminal, EndRun(w, outcome),
             hookRow' \in [StripeEvents -> HookStatus], faults' \in Nat,
             UNCHANGED <<stripeVars, accepting, bookVars, ui, deletes, raced>>
      PROVE  TypeOK' /\ OriginInv'
  <2>1. /\ run' \in [Workers -> Run]
        /\ \A v \in Workers : run'[v].at # "idle" => run'[v] = run[v]
        /\ hooks' \in [StripeEvents -> JobState]
        /\ owner' \in [StripeEvents -> Workers \cup {Idle}]
        /\ UNCHANGED stalled
        /\ \A e \in StripeEvents : hooks'[e] # "none" => e \in emitted
    BY <1>7, EndRunType
  <2> QED BY <1>7, <2>1 DEF TypeOK, OriginInv
<1>8. CASE Finish(w) \/ RecordError(w)
  BY <1>7, <1>8 DEF Finish, RecordError, TypeOK, HookStatus, Terminal
<1>9. CASE Abandon(w)
  BY <1>7, <1>9 DEF Abandon, Fault, TypeOK, HookStatus, Terminal
<1>10. CASE HandlerThrows(w)
  <2>1. /\ run' \in [Workers -> Run]
        /\ \A v \in Workers : run'[v].at # "idle" =>
               run'[v].event \in StripeEvents /\ run'[v].event \in emitted'
    BY <1>10, MoveType DEF HandlerThrows
  <2> QED BY <1>10, <2>1 DEF HandlerThrows, Fault, TypeOK, OriginInv
<1>11. CASE Stall(w)
  <2>1. run' \in [Workers -> Run] /\ \A v \in Workers : run'[v].at # "idle" => run'[v] = run[v]
    <3>1. run \in [Workers -> Run] /\ NoRun \in Run /\ NoRun.at = "idle"
      BY DEF TypeOK, NoRun, Run
    <3>2. run' = run \/ run' = [run EXCEPT ![w] = NoRun]
      BY <1>11 DEF Stall
    <3> QED BY <3>1, <3>2
  <2>2. /\ run[w].event \in emitted
        /\ hooks' \in [StripeEvents -> JobState]
        /\ \A e \in StripeEvents : hooks'[e] # "none" => e \in emitted
    BY <1>11 DEF Stall, Move, TypeOK, OriginInv, JobState
  <2>3. stalled' \subseteq StripeEvents /\ owner' \in [StripeEvents -> Workers \cup {Idle}]
        /\ faults' \in Nat
    BY <1>11, <2>2 DEF Stall, Fault, TypeOK
  <2> QED BY <1>11, <2>1, <2>2, <2>3 DEF Stall, TypeOK, OriginInv
<1>12. CASE HandlerStep(w)
  BY <1>12, <1>2, <1>3, <1>4, <1>5, <1>6, <1>8, Zenon DEF HandlerStep
<1> QED
  BY <1>1, <1>9, <1>10, <1>11, <1>12, Zenon

(* The operator's requests. *)
LEMMA OperatorType ==
  ASSUME TypeOK, OriginInv, NEW i \in Intents, OperatorStep(i)
  PROVE  TypeOK' /\ OriginInv'
<1> USE EventsAssumption, BoundsAssumption DEF apiVars, queueVars, bookVars, stripeVars
<1>1. CASE RefundValidate(i)
  BY <1>1 DEF RefundValidate, NoRequest, TypeOK, OriginInv
<1>2. CASE RefundAtStripe(i)
  BY <1>2 DEF RefundAtStripe, CreateRefund, TypeOK, OriginInv
<1>3. CASE RefundBreaksOff(i)
  BY <1>3 DEF RefundBreaksOff, NoRequest, Fault, TypeOK, OriginInv
<1>4. CASE RefundWrite(i)
  BY <1>4 DEF RefundWrite, NoRequest, MarkRefunded, AnnounceRefund, TypeOK, OriginInv
<1>5. CASE DeleteDonation(i)
  BY <1>5 DEF DeleteDonation, TypeOK, OriginInv
<1> QED BY <1>1, <1>2, <1>3, <1>4, <1>5 DEF OperatorStep

-----------------------------------------------------------------------------
(* The books *)

(* The steps that leave the books alone and do not begin to write them. *)
Quiet ==
  /\ UNCHANGED <<bookVars, deletes, raced>>
  /\ emitted \subseteq emitted'
  /\ \A w \in Workers : run'[w].at = "commit" => run'[w] = run[w]

(* A quiet step preserves every part of the invariant about the books. *)
LEMMA QuietBook == ASSUME IInv, Quiet PROVE BookInv'
<1> USE DEF IInv, BookInv, Quiet, bookVars
<1>1. BooksInv'
  BY DEF BooksInv, BooksAgree, Paid
<1>2. RefundAnnounced' /\ OnceInv'
  BY DEF RefundAnnounced, OnceInv
<1>3. FeeInv'
  BY DEF FeeInv, Rolling, Refunding
<1>4. DonorInv'
  BY DEF DonorInv, Paying
<1> QED BY <1>1, <1>2, <1>3, <1>4

(* Stripe, the endpoint and the early phases of a refund are quiet. *)
LEMMA OutsideIsQuiet ==
  ASSUME IInv,
         \/ \E e \in StripeEvents : StripeStep(e) \/ EndpointStep(e)
         \/ \E i \in Intents : RefundValidate(i) \/ RefundAtStripe(i) \/ RefundBreaksOff(i)
  PROVE  Quiet
  BY DEF Quiet, StripeStep, EndpointStep, Emit, DashboardRefund, CreateRefund, Receive,
         EnqueueHook, EnqueueFails, RefundValidate, RefundAtStripe, RefundBreaksOff,
         apiVars, queueVars, stripeVars, bookVars

(* So are a run's steps other than its SELECT and its transaction. *)
LEMMA RunIsQuiet ==
  ASSUME IInv, NEW w \in Workers,
         \/ \E e \in StripeEvents : TakeHook(w, e)
         \/ MarkProcessing(w) \/ Finish(w) \/ RecordError(w)
         \/ HandlerThrows(w) \/ Abandon(w) \/ Stall(w)
  PROVE  Quiet
<1> USE DEF IInv, TypeOK, Quiet, Step, EndRun, NoRun, Run, stripeVars
<1>1. ASSUME NEW e \in StripeEvents, TakeHook(w, e) PROVE Quiet
  BY <1>1 DEF TakeHook
<1>2. CASE MarkProcessing(w)
  BY <1>2 DEF MarkProcessing
<1>3. CASE Finish(w) \/ RecordError(w) \/ Abandon(w)
  BY <1>3 DEF Finish, RecordError, Abandon
<1>4. CASE HandlerThrows(w)
  BY <1>4 DEF HandlerThrows
<1>5. CASE Stall(w)
  BY <1>5 DEF Stall
<1> QED BY <1>1, <1>2, <1>3, <1>4, <1>5

(* The SELECT: what the run has seen is what the books say, and it is the  *)
(* only one to look at its subject or the subject is marked as raced.      *)
LEMMA ReadBook == ASSUME IInv, NEW w \in Workers, ReadBooks(w) PROVE BookInv'
<1> DEFINE e == run[w].event
<1> USE DEF IInv, BookInv, ReadBooks, bookVars, stripeVars
<1>1. e \in StripeEvents /\ e.intent \in Intents /\ e.kind \in EventKind
  BY EventsAssumption DEF TypeOK
<1>2. /\ run'[w].at = "commit" /\ run'[w].event = e /\ run'[w].saw = Lookup(e)
      /\ Lookup(e) = "cleared" => run'[w].row = created[e.intent]
      /\ \A v \in Workers \ {w} : run'[v] = run[v]
  BY DEF TypeOK, Run
<1>3. raced \subseteq raced' /\ (Overlaps(w, e) => Subject(e) \in raced')
  OBVIOUS
<1> HIDE DEF e
<1>4. BooksInv'
  <2>1. BooksAgree'
    BY DEF BooksInv, BooksAgree, Paid
  <2>2. e.kind = "succeeded" /\ Lookup(e) = "known" => people[DonorOf[e.intent]] > 0
    BY DEF Lookup
  <2>3. ASSUME NEW v \in Workers, run'[v].at = "commit", run'[v].event.kind = "succeeded",
               run'[v].saw = "known"
        PROVE  people[DonorOf[run'[v].event.intent]] > 0
    BY <1>2, <2>2, <2>3 DEF BooksInv
  <2> QED BY <2>1, <2>3 DEF BooksInv
<1>5. RefundAnnounced' /\ OnceInv'
  BY DEF RefundAnnounced, OnceInv
<1>6. FeeInv'
  <2> SUFFICES ASSUME NEW i \in Intents, i \notin raced'
               PROVE  /\ debits[i] <= credits[i]
                      /\ donation[i] = "cleared" => debits[i] < credits[i]
                      /\ \A v \in Workers : Rolling(v, i)' =>
                           /\ debits[i] < credits[i]
                           /\ run'[v].row <= created[i]
                           /\ donation[i] = "cleared" /\ run'[v].row # created[i]
                                => debits[i] + 1 < credits[i]
                      /\ \A u, v \in Workers : Refunding(u, i)' /\ Refunding(v, i)' => u = v
    BY DEF FeeInv
  <2>1. i \notin raced
    BY <1>3
  <2>2. \A v \in Workers \ {w} : Refunding(v, i)' = Refunding(v, i)
    BY <1>2 DEF Refunding
  <2>3. Refunding(w, i)' => ~Overlaps(w, e)
    BY <1>1, <1>2, <1>3 DEF Refunding, IsOf, Subject
  <2>4. Refunding(w, i)' => \A v \in Workers \ {w} : ~Refunding(v, i)
    BY <1>2, <2>3 DEF Refunding, IsOf, Overlaps, Subject
  <2>5. Rolling(w, i)' => donation[i] = "cleared" /\ run'[w].row = created[i]
    BY <1>2 DEF Rolling, Refunding, IsOf, Lookup
  <2>6. \A v \in Workers \ {w} : Rolling(v, i)' = Rolling(v, i) /\ run'[v] = run[v]
    BY <1>2 DEF Rolling, Refunding
  <2>7. created[i] \in Nat
    BY DEF TypeOK
  <2>8. /\ debits[i] <= credits[i]
        /\ donation[i] = "cleared" => debits[i] < credits[i]
        /\ \A v \in Workers : Rolling(v, i) =>
             /\ debits[i] < credits[i]
             /\ run[v].row <= created[i]
             /\ donation[i] = "cleared" /\ run[v].row # created[i] => debits[i] + 1 < credits[i]
        /\ \A u, v \in Workers : Refunding(u, i) /\ Refunding(v, i) => u = v
    BY <2>1 DEF FeeInv
  <2> HIDE DEF IInv, BookInv, ReadBooks
  <2>9. \A u, v \in Workers : Refunding(u, i)' /\ Refunding(v, i)' => u = v
    BY <2>2, <2>4, <2>8
  <2>10. \A v \in Workers : Rolling(v, i)' =>
           /\ debits[i] < credits[i]
           /\ run'[v].row <= created[i]
           /\ donation[i] = "cleared" /\ run'[v].row # created[i] => debits[i] + 1 < credits[i]
    BY <2>5, <2>6, <2>7, <2>8
  <2> QED BY <2>8, <2>9, <2>10
<1>7. DonorInv'
  <2> SUFFICES ASSUME NEW d \in Donors \ {Anonymous}, d \notin raced'
               PROVE  /\ people[d] <= 1
                      /\ \A v \in Workers : Paying(v, d)' /\ run'[v].saw # "known"
                                            => people[d] = 0
                      /\ \A u, v \in Workers : Paying(u, d)' /\ Paying(v, d)' => u = v
    BY DEF DonorInv
  <2>1. d \notin raced
    BY <1>3
  <2>2. \A v \in Workers \ {w} : Paying(v, d)' = Paying(v, d) /\ run'[v].saw = run[v].saw
    BY <1>2 DEF Paying
  <2>3. Paying(w, d)' => ~Overlaps(w, e)
    BY <1>2, <1>3 DEF Paying, Subject
  <2>4. Paying(w, d)' => \A v \in Workers \ {w} : ~Paying(v, d)
    BY <1>2, <2>3 DEF Paying, Overlaps, Subject
  <2>5. Paying(w, d)' /\ run'[w].saw # "known" => people[d] = 0
    <3> SUFFICES ASSUME Paying(w, d)', Lookup(e) # "known" PROVE people[d] = 0
      BY <1>2
    <3>1. e.kind = "succeeded" /\ DonorOf[e.intent] = d /\ people[d] \in Nat
      BY <1>2 DEF Paying, TypeOK
    <3>2. ~(people[d] > 0)
      BY <3>1 DEF Lookup
    <3> QED BY <3>1, <3>2
  <2>6. /\ people[d] <= 1
        /\ \A v \in Workers : Paying(v, d) /\ run[v].saw # "known" => people[d] = 0
        /\ \A u, v \in Workers : Paying(u, d) /\ Paying(v, d) => u = v
    BY <2>1 DEF DonorInv
  <2> HIDE DEF IInv, BookInv, ReadBooks
  <2> QED BY <2>2, <2>4, <2>5, <2>6
<1> QED BY <1>4, <1>5, <1>6, <1>7

(* A run that commits is no longer between its SELECT and its commit. *)
LEMMA Committed ==
  ASSUME IInv, NEW w \in Workers, Step(w, "commit", "finish"), UNCHANGED raced
  PROVE  /\ run[w].at = "commit" /\ run[w].event \in emitted /\ run[w].event.intent \in Intents
         /\ \A v \in Workers : run'[v].at = "commit" => v # w /\ run'[v] = run[v]
  BY EventsAssumption DEF Step, IInv, TypeOK, Run, OriginInv

(* The transaction of payment_intent.succeeded. *)
LEMMA SucceededBook ==
  ASSUME IInv, NEW w \in Workers, HandlePaymentIntentSucceeded(w) PROVE BookInv'
<1> DEFINE i == run[w].event.intent
<1> DEFINE d == DonorOf[i]
<1>1. /\ run[w].at = "commit" /\ run[w].event.kind = "succeeded" /\ run[w].event \in emitted
      /\ i \in Intents /\ d \in Donors
      /\ \A v \in Workers : run'[v].at = "commit" => v # w /\ run'[v] = run[v]
  BY Committed, DonorAssumption DEF HandlePaymentIntentSucceeded
<1>2. UNCHANGED <<emitted, refunds, debits, deletes, raced>>
  BY DEF HandlePaymentIntentSucceeded, stripeVars
<1>3. people' = IF run[w].saw = "known" THEN people ELSE [people EXCEPT ![d] = @ + 1]
  BY DEF HandlePaymentIntentSucceeded
<1>4. attempt'[i] = "succeeded" /\ \A j \in Intents \ {i} : attempt'[j] = attempt[j]
  BY <1>1 DEF HandlePaymentIntentSucceeded, UpsertAttempt, IInv, TypeOK
<1>5. \/ /\ donation[i] = "none" /\ donation'[i] = "cleared"
         /\ credits'[i] = credits[i] + 1 /\ created'[i] = created[i] + 1
         /\ \A j \in Intents \ {i} : /\ donation'[j] = donation[j] /\ credits'[j] = credits[j]
                                     /\ created'[j] = created[j]
      \/ donation[i] # "none" /\ UNCHANGED <<donation, credits, created>>
  BY <1>1 DEF HandlePaymentIntentSucceeded, NewDonation, IInv, TypeOK
<1>6. /\ people \in [Donors -> Nat] /\ credits \in [Intents -> Nat] /\ debits \in [Intents -> Nat]
      /\ created \in [Intents -> Nat] /\ deletes \in Nat
  BY DEF IInv, TypeOK
<1>7. people'[d] > 0 /\ \A c \in Donors : people'[c] >= people[c]
  <2>1. run[w].saw = "known" => people[d] > 0
    BY <1>1 DEF IInv, BookInv, BooksInv
  <2> QED BY <1>1, <1>3, <1>6, <2>1
<1> HIDE DEF i
<1>8. BooksInv'
  <2>1. \A j \in Intents : donation'[j] # "none" => /\ Paid(j) /\ attempt'[j] = "succeeded"
                                                   /\ people'[DonorOf[j]] > 0
    <3>1. Paid(i)
      BY <1>1 DEF Paid, IsOf, i
    <3>2. ASSUME NEW j \in Intents \ {i}, donation'[j] # "none"
          PROVE  Paid(j) /\ attempt'[j] = "succeeded" /\ people'[DonorOf[j]] > 0
      <4>1. donation[j] # "none" /\ attempt'[j] = attempt[j] /\ DonorOf[j] \in Donors
        BY <1>4, <1>5, <3>2, DonorAssumption
      <4>2. Paid(j) /\ attempt[j] = "succeeded" /\ people[DonorOf[j]] > 0
        BY <4>1 DEF IInv, BookInv, BooksInv, BooksAgree
      <4>3. people'[DonorOf[j]] >= people[DonorOf[j]]
        BY <1>7, <4>1
      <4>4. people'[DonorOf[j]] \in Nat
        BY <1>3, <1>6, <1>1, <4>1
      <4> QED BY <4>1, <4>2, <4>3, <4>4, <1>6
    <3> QED BY <1>4, <1>7, <3>1, <3>2
  <2>2. ASSUME NEW v \in Workers, run'[v].at = "commit", run'[v].event.kind = "succeeded",
               run'[v].saw = "known"
        PROVE  people'[DonorOf[run'[v].event.intent]] > 0
    <3>1. run'[v] = run[v] /\ DonorOf[run[v].event.intent] \in Donors
      BY <1>1, <2>2, EventsAssumption, DonorAssumption DEF IInv, TypeOK
    <3>2. people[DonorOf[run[v].event.intent]] > 0
      BY <2>2, <3>1 DEF IInv, BookInv, BooksInv
    <3> QED BY <1>1, <1>3, <1>6, <3>1, <3>2
  <2> QED BY <1>2, <2>1, <2>2 DEF BooksInv, BooksAgree, Paid
<1>9. RefundAnnounced'
  BY <1>1, <1>2, <1>5 DEF RefundAnnounced, IInv, BookInv
<1>10. OnceInv'
  BY <1>1, <1>2, <1>5, <1>6 DEF OnceInv, IInv, BookInv
<1>11. FeeInv'
  <2> SUFFICES ASSUME NEW j \in Intents, j \notin raced
               PROVE  /\ debits[j] <= credits'[j]
                      /\ donation'[j] = "cleared" => debits[j] < credits'[j]
                      /\ \A v \in Workers : Rolling(v, j)' =>
                           /\ debits[j] < credits'[j]
                           /\ run'[v].row <= created'[j]
                           /\ donation'[j] = "cleared" /\ run'[v].row # created'[j]
                                => debits[j] + 1 < credits'[j]
                      /\ \A u, v \in Workers : Refunding(u, j)' /\ Refunding(v, j)' => u = v
    BY <1>2 DEF FeeInv
  <2>1. /\ debits[j] <= credits[j]
        /\ donation[j] = "cleared" => debits[j] < credits[j]
        /\ \A v \in Workers : Rolling(v, j) =>
             /\ debits[j] < credits[j]
             /\ run[v].row <= created[j]
             /\ donation[j] = "cleared" /\ run[v].row # created[j] => debits[j] + 1 < credits[j]
        /\ \A u, v \in Workers : Refunding(u, j) /\ Refunding(v, j) => u = v
    BY DEF IInv, BookInv, FeeInv
  <2>2. \A v \in Workers : /\ Refunding(v, j)' => Refunding(v, j)
                           /\ Rolling(v, j)' => Rolling(v, j) /\ run'[v] = run[v]
    BY <1>1 DEF Rolling, Refunding
  <2>3. credits[j] \in Nat /\ debits[j] \in Nat /\ created[j] \in Nat
        /\ \A v \in Workers : run[v].row \in Nat
    BY <1>6 DEF IInv, TypeOK, Run
  <2>4. CASE donation'[j] = donation[j] /\ credits'[j] = credits[j] /\ created'[j] = created[j]
    BY <2>1, <2>2, <2>3, <2>4
  <2>5. CASE donation[j] = "none" /\ credits'[j] = credits[j] + 1 /\ created'[j] = created[j] + 1
    BY <2>1, <2>2, <2>3, <2>5
  <2> QED BY <1>5, <2>4, <2>5
<1>12. DonorInv'
  <2> SUFFICES ASSUME NEW c \in Donors \ {Anonymous}, c \notin raced
               PROVE  /\ people'[c] <= 1
                      /\ \A v \in Workers : Paying(v, c)' /\ run'[v].saw # "known"
                                            => people'[c] = 0
                      /\ \A u, v \in Workers : Paying(u, c)' /\ Paying(v, c)' => u = v
    BY <1>2 DEF DonorInv
  <2>1. /\ people[c] <= 1
        /\ \A v \in Workers : Paying(v, c) /\ run[v].saw # "known" => people[c] = 0
        /\ \A u, v \in Workers : Paying(u, c) /\ Paying(v, c) => u = v
    BY DEF IInv, BookInv, DonorInv
  <2>2. \A v \in Workers : Paying(v, c)' => v # w /\ Paying(v, c) /\ run'[v].saw = run[v].saw
    BY <1>1 DEF Paying
  <2>3. CASE c = d
    <3>1. Paying(w, c)
      BY <1>1, <2>3 DEF Paying, i
    <3>2. people'[c] <= 1
      BY <1>1, <1>3, <1>6, <2>1, <2>3, <3>1
    <3> QED BY <2>1, <2>2, <3>1, <3>2
  <2>4. CASE c # d
    BY <1>3, <2>1, <2>2, <2>4, <1>6
  <2> QED BY <2>3, <2>4
<1> QED BY <1>8, <1>9, <1>10, <1>11, <1>12 DEF BookInv

(* The transaction of payment_intent.payment_failed. *)
LEMMA FailedBook ==
  ASSUME IInv, NEW w \in Workers, HandlePaymentIntentFailed(w) PROVE BookInv'
<1>1. /\ run[w].event.intent \in Intents
      /\ \A v \in Workers : run'[v].at = "commit" => run'[v] = run[v]
  BY Committed DEF HandlePaymentIntentFailed
<1>2. UNCHANGED <<emitted, donation, people, created, refunds, credits, debits, deletes, raced>>
  BY DEF HandlePaymentIntentFailed, stripeVars
<1>3. \A j \in Intents : attempt[j] = "succeeded" => attempt'[j] = "succeeded"
  BY <1>1 DEF HandlePaymentIntentFailed, UpsertAttempt, IInv, TypeOK
<1>4. BooksInv'
  BY <1>1, <1>2, <1>3 DEF BooksInv, BooksAgree, Paid, IInv, BookInv
<1>5. RefundAnnounced' /\ OnceInv'
  BY <1>2 DEF RefundAnnounced, OnceInv, IInv, BookInv
<1>6. FeeInv'
  BY <1>1, <1>2 DEF FeeInv, Rolling, Refunding, IInv, BookInv
<1>7. DonorInv'
  BY <1>1, <1>2 DEF DonorInv, Paying, IInv, BookInv
<1> QED BY <1>4, <1>5, <1>6, <1>7 DEF BookInv

(* The transaction of charge.refunded. *)
LEMMA RefundedBook ==
  ASSUME IInv, NEW w \in Workers, HandleChargeRefunded(w) PROVE BookInv'
<1> DEFINE i == run[w].event.intent
<1>1. /\ run[w].at = "commit" /\ run[w].event.kind = "refunded" /\ i \in Intents
      /\ \A v \in Workers : run'[v].at = "commit" => v # w /\ run'[v] = run[v]
  BY Committed DEF HandleChargeRefunded
<1>2. UNCHANGED <<emitted, attempt, people, created, credits, deletes, raced>>
  BY DEF HandleChargeRefunded, stripeVars
<1>3. \/ /\ run[w].saw = "cleared"
         /\ donation'[i] = IF donation[i] = "none" \/ created[i] # run[w].row
                           THEN donation[i] ELSE "refunded"
         /\ debits'[i] = debits[i] + 1 /\ refunds'[i] = refunds[i] + 1
         /\ \A j \in Intents \ {i} : /\ donation'[j] = donation[j] /\ debits'[j] = debits[j]
                                     /\ refunds'[j] = refunds[j]
      \/ UNCHANGED <<donation, debits, refunds>>
  BY <1>1
  DEF HandleChargeRefunded, RefundApplies, MarkRefunded, RollBackFee, AnnounceRefund, IInv, TypeOK
<1>4. /\ credits \in [Intents -> Nat] /\ debits \in [Intents -> Nat]
      /\ refunds \in [Intents -> Nat]
  BY DEF IInv, TypeOK
<1>5. Refunding(w, i)
  BY <1>1 DEF Refunding, IsOf
<1> HIDE DEF i
<1>6. BooksInv'
  BY <1>1, <1>2, <1>3 DEF BooksInv, BooksAgree, Paid, IInv, BookInv
<1>7. RefundAnnounced'
  BY <1>1, <1>3, <1>4 DEF RefundAnnounced, IInv, BookInv
<1>8. OnceInv'
  BY <1>1, <1>2, <1>3 DEF OnceInv, IInv, BookInv
<1>9. FeeInv'
  <2> SUFFICES ASSUME NEW j \in Intents, j \notin raced
               PROVE  /\ debits'[j] <= credits[j]
                      /\ donation'[j] = "cleared" => debits'[j] < credits[j]
                      /\ \A v \in Workers : Rolling(v, j)' =>
                           /\ debits'[j] < credits[j]
                           /\ run'[v].row <= created[j]
                           /\ donation'[j] = "cleared" /\ run'[v].row # created[j]
                                => debits'[j] + 1 < credits[j]
                      /\ \A u, v \in Workers : Refunding(u, j)' /\ Refunding(v, j)' => u = v
    BY <1>2 DEF FeeInv
  <2>1. /\ debits[j] <= credits[j]
        /\ donation[j] = "cleared" => debits[j] < credits[j]
        /\ \A v \in Workers : Rolling(v, j) =>
             /\ debits[j] < credits[j]
             /\ run[v].row <= created[j]
             /\ donation[j] = "cleared" /\ run[v].row # created[j] => debits[j] + 1 < credits[j]
        /\ \A u, v \in Workers : Refunding(u, j) /\ Refunding(v, j) => u = v
    BY DEF IInv, BookInv, FeeInv
  <2>2. \A v \in Workers : /\ Refunding(v, j)' => v # w /\ Refunding(v, j)
                           /\ Rolling(v, j)' => Rolling(v, j) /\ run'[v] = run[v]
    BY <1>1 DEF Rolling, Refunding
  <2>3. CASE UNCHANGED <<donation, debits, refunds>>
    BY <2>1, <2>2, <2>3
  <2>4. CASE j # i /\ ~UNCHANGED <<donation, debits, refunds>>
    BY <1>3, <2>1, <2>2, <2>4
  <2>5. CASE j = i /\ ~UNCHANGED <<donation, debits, refunds>>
    <3>1. \A v \in Workers : ~Refunding(v, j)'
      BY <1>5, <2>1, <2>2, <2>5
    <3>2. Rolling(w, j) /\ debits'[j] = debits[j] + 1
      BY <1>3, <1>5, <2>5 DEF Rolling
    <3>3. debits[j] < credits[j]
          /\ (donation'[j] = "cleared" => debits[j] + 1 < credits[j])
      BY <1>3, <2>1, <2>5, <3>2
    <3>4. \A v \in Workers : ~Rolling(v, j)'
      BY <3>1 DEF Rolling
    <3> QED BY <1>4, <3>1, <3>2, <3>3, <3>4
  <2> QED BY <2>3, <2>4, <2>5
<1>10. DonorInv'
  BY <1>1, <1>2 DEF DonorInv, Paying, IInv, BookInv
<1> QED BY <1>6, <1>7, <1>8, <1>9, <1>10 DEF BookInv

(* The operator's writes: phase 3 of a refund, and a deletion. *)
LEMMA OperatorBook ==
  ASSUME IInv, NEW i \in Intents, RefundWrite(i) \/ DeleteDonation(i) PROVE BookInv'
<1>1. UNCHANGED <<emitted, run, attempt, people, created, credits, debits, raced>>
  BY DEF RefundWrite, DeleteDonation, stripeVars
<1>2. \/ /\ \A j \in Intents : (donation'[j] = "none") <=> (donation[j] = "none")
         /\ \A j \in Intents : donation'[j] = "cleared" => donation[j] = "cleared"
         /\ refunds'[i] = refunds[i] + 1
         /\ \A j \in Intents \ {i} : donation'[j] = donation[j] /\ refunds'[j] = refunds[j]
         /\ deletes' = deletes
      \/ /\ donation'[i] = "none" /\ deletes' = deletes + 1 /\ UNCHANGED refunds
         /\ \A j \in Intents \ {i} : donation'[j] = donation[j]
  BY DEF RefundWrite, MarkRefunded, AnnounceRefund, DeleteDonation, IInv, TypeOK
<1>3. /\ refunds \in [Intents -> Nat] /\ debits \in [Intents -> Nat]
      /\ created \in [Intents -> Nat] /\ deletes \in Nat
  BY DEF IInv, TypeOK
<1>4. BooksInv'
  BY <1>1, <1>2 DEF BooksInv, BooksAgree, Paid, IInv, BookInv
<1>5. RefundAnnounced'
  BY <1>1, <1>2, <1>3 DEF RefundAnnounced, IInv, BookInv
<1>6. OnceInv'
  BY <1>1, <1>2, <1>3 DEF OnceInv, IInv, BookInv
<1>7. FeeInv'
  BY <1>1, <1>2 DEF FeeInv, Rolling, Refunding, IInv, BookInv
<1>8. DonorInv'
  BY <1>1 DEF DonorInv, Paying, IInv, BookInv
<1> QED BY <1>4, <1>5, <1>6, <1>7, <1>8 DEF BookInv

-----------------------------------------------------------------------------
(* Every step preserves the inductive invariant. *)
LEMMA NextIInv == IInv /\ [Next]_vars => IInv'
<1> SUFFICES ASSUME IInv, [Next]_vars PROVE IInv'
  OBVIOUS
<1>1. CASE UNCHANGED vars
  <2>1. TypeOK' /\ OriginInv'
    BY <1>1 DEF vars, stripeVars, apiVars, queueVars, bookVars, IInv, TypeOK, OriginInv
  <2>2. BookInv'
    BY <1>1, QuietBook DEF Quiet, vars, stripeVars
  <2> QED BY <2>1, <2>2 DEF IInv
<1>2. ASSUME NEW e \in StripeEvents, StripeStep(e) \/ EndpointStep(e) PROVE IInv'
  <2>1. TypeOK' /\ OriginInv'
    BY <1>2, EndpointType DEF IInv
  <2>2. BookInv'
    BY <1>2, OutsideIsQuiet, QuietBook
  <2> QED BY <2>1, <2>2 DEF IInv
<1>3. ASSUME NEW w \in Workers,
             \/ \E e \in StripeEvents : TakeHook(w, e)
             \/ HandlerStep(w) \/ HandlerThrows(w) \/ Abandon(w) \/ Stall(w)
      PROVE  IInv'
  <2>1. TypeOK' /\ OriginInv'
    BY <1>3, RunType DEF IInv
  <2>2. CASE HandlerStep(w)
    <3>1. BookInv'
      BY <2>2, ReadBook, SucceededBook, FailedBook, RefundedBook, RunIsQuiet, QuietBook
      DEF HandlerStep
    <3> QED BY <2>1, <3>1 DEF IInv
  <2>3. CASE ~HandlerStep(w)
    <3>1. BookInv'
      BY <1>3, <2>3, RunIsQuiet, QuietBook
    <3> QED BY <2>1, <3>1 DEF IInv
  <2> QED BY <2>2, <2>3
<1>4. ASSUME NEW i \in Intents, OperatorStep(i) PROVE IInv'
  <2>1. TypeOK' /\ OriginInv'
    BY <1>4, OperatorType DEF IInv
  <2>2. BookInv'
    BY <1>4, OutsideIsQuiet, QuietBook, OperatorBook DEF OperatorStep
  <2> QED BY <2>1, <2>2 DEF IInv
<1> QED BY <1>1, <1>2, <1>3, <1>4 DEF Next

(* The inductive invariant holds in every reachable state. *)
LEMMA Inductive == Spec => []IInv
  BY InitIInv, NextIInv, PTL DEF Spec

(* The endpoint, the queue, the runs and the books are well typed. *)
THEOREM TypeCorrect == Spec => []TypeOK
  BY Inductive, PTL DEF IInv

(* A donation has its payment, its succeeded attempt and its constituent. *)
THEOREM BooksStayConsistent == Spec => []BooksAgree
  BY Inductive, PTL DEF IInv, BookInv, BooksInv

(* No path to the refunded status forgets the donation.refunded event. *)
THEOREM RefundsAreAnnounced == Spec => []RefundAnnounced
  BY Inductive, PTL DEF IInv, BookInv

(* The unique key makes redelivered and concurrent webhooks book once. *)
THEOREM BookingIsIdempotent == Spec => []BookedOnce
<1>1. IInv => BookedOnce
  BY DEF IInv, BookInv, OnceInv, BookedOnce
<1> QED BY <1>1, Inductive, PTL

(* Handlers of refunds that do not overlap roll a fee back at most as      *)
(* often as it was booked, whatever is redelivered, stalled or deleted.    *)
THEOREM FeeRollbackIsBounded == Spec => []NoDoubleRollback
<1>1. IInv => NoDoubleRollback
  BY DEF IInv, BookInv, FeeInv, NoDoubleRollback
<1> QED BY <1>1, Inductive, PTL

(* Handlers for one donor that do not overlap find one constituent. *)
THEOREM DonorsAreNotDuplicated == Spec => []OneConstituentPerEmail
<1>1. IInv => OneConstituentPerEmail
  BY DEF IInv, BookInv, DonorInv, OneConstituentPerEmail
<1> QED BY <1>1, Inductive, PTL

(* What one step may not do to an attempt and to a donation. *)
LEMMA StepKeepsOutcomes ==
  ASSUME IInv, [Next]_vars, NEW i \in Intents
  PROVE  /\ attempt[i] = "succeeded" => attempt'[i] = "succeeded"
         /\ donation[i] = "refunded" => donation'[i] # "cleared"
<1>1. CASE UNCHANGED <<attempt, donation>>
  BY <1>1
<1>2. ASSUME NEW w \in Workers, HandlePaymentIntentSucceeded(w)
      PROVE  /\ attempt[i] = "succeeded" => attempt'[i] = "succeeded"
             /\ donation[i] = "refunded" => donation'[i] # "cleared"
  BY <1>2, EventsAssumption
  DEF HandlePaymentIntentSucceeded, UpsertAttempt, NewDonation, IInv, TypeOK
<1>3. ASSUME NEW w \in Workers, HandlePaymentIntentFailed(w)
      PROVE  /\ attempt[i] = "succeeded" => attempt'[i] = "succeeded"
             /\ donation[i] = "refunded" => donation'[i] # "cleared"
  BY <1>3 DEF HandlePaymentIntentFailed, UpsertAttempt, IInv, TypeOK
<1>4. ASSUME NEW j \in Intents, NEW row, MarkRefunded(j, row), UNCHANGED attempt
      PROVE  /\ attempt[i] = "succeeded" => attempt'[i] = "succeeded"
             /\ donation[i] = "refunded" => donation'[i] # "cleared"
  BY <1>4 DEF MarkRefunded, IInv, TypeOK
<1>5. ASSUME NEW w \in Workers, HandleChargeRefunded(w)
      PROVE  \/ UNCHANGED <<attempt, donation>>
             \/ \E j \in Intents, row \in Nat : MarkRefunded(j, row) /\ UNCHANGED attempt
  <2>1. run[w].event.intent \in Intents /\ run[w].row \in Nat
    BY <1>5, Committed DEF HandleChargeRefunded, IInv, TypeOK, Run
  <2> QED BY <1>5, <2>1 DEF HandleChargeRefunded
<1>6. ASSUME NEW j \in Intents, RefundWrite(j)
      PROVE  \E row \in Nat : MarkRefunded(j, row) /\ UNCHANGED attempt
  BY <1>6 DEF RefundWrite, IInv, TypeOK
<1>7. ASSUME NEW j \in Intents, DeleteDonation(j)
      PROVE  /\ attempt[i] = "succeeded" => attempt'[i] = "succeeded"
             /\ donation[i] = "refunded" => donation'[i] # "cleared"
  BY <1>7 DEF DeleteDonation, IInv, TypeOK
<1>8. ASSUME NEW w \in Workers, ReadBooks(w) PROVE UNCHANGED <<attempt, donation>>
  BY <1>8 DEF ReadBooks, bookVars
<1>9. Quiet => UNCHANGED <<attempt, donation>>
  BY DEF Quiet, bookVars
<1>10. ASSUME NEW w \in Workers, HandlerStep(w)
       PROVE  /\ attempt[i] = "succeeded" => attempt'[i] = "succeeded"
              /\ donation[i] = "refunded" => donation'[i] # "cleared"
  BY <1>10, <1>1, <1>2, <1>3, <1>4, <1>5, <1>8, <1>9, RunIsQuiet DEF HandlerStep
<1>11. ASSUME NEW w \in Workers,
              \/ \E e \in StripeEvents : TakeHook(w, e)
              \/ HandlerThrows(w) \/ Abandon(w) \/ Stall(w)
       PROVE  UNCHANGED <<attempt, donation>>
  BY <1>11, <1>9, RunIsQuiet
<1>12. ASSUME NEW j \in Intents, OperatorStep(j)
       PROVE  /\ attempt[i] = "succeeded" => attempt'[i] = "succeeded"
              /\ donation[i] = "refunded" => donation'[i] # "cleared"
  BY <1>12, <1>1, <1>4, <1>6, <1>7, <1>9, OutsideIsQuiet DEF OperatorStep
<1>13. ASSUME NEW e \in StripeEvents, StripeStep(e) \/ EndpointStep(e)
       PROVE  UNCHANGED <<attempt, donation>>
  BY <1>13, <1>9, OutsideIsQuiet
<1>14. UNCHANGED vars => UNCHANGED <<attempt, donation>>
  BY DEF vars, bookVars
<1> QED BY <1>1, <1>10, <1>11, <1>12, <1>13, <1>14 DEF Next

(* Late and repeated deliveries cannot undo an outcome. *)
THEOREM OutcomesAreFinal == Spec => OutcomesStick
<1>1. IInv /\ [Next]_vars =>
        [\A i \in Intents :
           /\ attempt[i] = "succeeded" => attempt'[i] = "succeeded"
           /\ donation[i] = "refunded" => donation'[i] # "cleared"]_vars
  BY StepKeepsOutcomes
<1> QED BY <1>1, Inductive, PTL DEF Spec, OutcomesStick

-----------------------------------------------------------------------------
(* Sums over a finite set *)

(* Induction over the naturals, for a set, from the well-foundedness of <. *)
LEMMA NatInduct ==
  ASSUME NEW S, 0 \in S, \A n \in Nat : n \in S => n + 1 \in S
  PROVE  \A n \in Nat : n \in S
<1>. DEFINE T == {n \in Nat : n \notin S}
            R == OpToRel(<, Nat)
<1>1. SUFFICES ASSUME T # {} PROVE FALSE
  OBVIOUS
<1>2. PICK x \in T : \A y \in T : ~ (<<y, x>> \in R)
  BY <1>1, WFMin, NatLessThanWellFounded
<1>3. x # 0 /\ x - 1 \in Nat
  OBVIOUS
<1>4. <<x - 1, x>> \in R
  BY <1>3, SMT DEF OpToRel
<1>. HIDE DEF R
<1>5. x - 1 \in T
  BY <1>3
<1>. QED BY <1>2, <1>4, <1>5

(* Induction over the subsets of a finite set, adding one element at a time. *)
LEMMA SubsetInduct ==
  ASSUME NEW S, IsFiniteSet(S), NEW Q, {} \in Q,
         \A T \in SUBSET S : \A x \in T : T \ {x} \in Q => T \in Q
  PROVE  \A T \in SUBSET S : T \in Q
<1>. DEFINE N == {n \in Nat : \A T \in SUBSET S : Cardinality(T) = n => T \in Q}
<1>1. \A T \in SUBSET S : IsFiniteSet(T) /\ Cardinality(T) \in Nat /\ (Cardinality(T) = 0 <=> T = {})
  BY FS_Subset, FS_CardinalityType, FS_EmptySet
<1>2. 0 \in N
  BY <1>1
<1>3. ASSUME NEW n \in Nat, n \in N PROVE n + 1 \in N
  <2>1. SUFFICES ASSUME NEW T \in SUBSET S, Cardinality(T) = n + 1 PROVE T \in Q
    OBVIOUS
  <2>2. PICK x \in T : TRUE
    BY <1>1, <2>1
  <2>3. T \ {x} \in SUBSET S /\ Cardinality(T \ {x}) = Cardinality(T) - 1
    BY <1>1, FS_RemoveElement
  <2>. QED BY <1>3, <2>1, <2>3
<1>4. \A n \in Nat : n \in N
  <2>. HIDE DEF N
  <2>. QED BY <1>2, <1>3, NatInduct
<1>. QED BY <1>1, <1>4

(* The recursion MapThenSumSet folds S with, in whatever order CHOOSE       *)
(* happens to take the elements of a set.                                  *)
IsFold(g, f, S) ==
  g = [T \in SUBSET S |->
         IF T = {} THEN 0
         ELSE f[CHOOSE x \in T : TRUE] + g[T \ {CHOOSE x \in T : TRUE}]]

(* What g should be: the sums of f over the subsets of S, in any order. *)
IsSum(g, f, S) ==
  /\ g \in [SUBSET S -> Int]
  /\ g[{}] = 0
  /\ \A T \in SUBSET S : \A x \in T : g[T] = f[x] + g[T \ {x}]

(* The recursion has a solution, by induction on the size of the subsets. *)
LEMMA FoldExists ==
  ASSUME NEW S, IsFiniteSet(S), NEW f \in [S -> Int]
  PROVE  \E g : IsFold(g, f, S) /\ g \in [SUBSET S -> Int]
<1>. DEFINE Upto(n) == {T \in SUBSET S : Cardinality(T) <= n}
            Good(n, g) == /\ g \in [SUBSET S -> Int]
                          /\ \A T \in Upto(n) :
                                g[T] = IF T = {} THEN 0 ELSE f[CHOOSE x \in T : TRUE] + g[T \ {CHOOSE x \in T : TRUE}]
            N == {n \in Nat : \E g : Good(n, g)}
<1>0. \A T \in SUBSET S : IsFiniteSet(T) /\ Cardinality(T) \in Nat /\ (Cardinality(T) = 0 <=> T = {})
  BY FS_Subset, FS_CardinalityType, FS_EmptySet
<1>1. 0 \in N
  <2>1. Good(0, [T \in SUBSET S |-> 0])
    BY <1>0
  <2>. QED BY <2>1
<1>2. ASSUME NEW n \in Nat, n \in N PROVE n + 1 \in N
  <2>1. PICK g : Good(n, g)
    BY <1>2
  <2>. DEFINE c(T) == CHOOSE x \in T : TRUE
              h == [T \in SUBSET S |-> IF T = {} THEN 0 ELSE f[c(T)] + g[T \ {c(T)}]]
  <2>2. \A T \in SUBSET S : T # {} => c(T) \in T
    OBVIOUS
  <2>3. ASSUME NEW T \in SUBSET S, T # {} PROVE T \ {c(T)} \in SUBSET S /\ Cardinality(T \ {c(T)}) = Cardinality(T) - 1
    BY <1>0, <2>2, <2>3, FS_RemoveElement
  <2>. HIDE DEF c
  <2>4. h \in [SUBSET S -> Int]
    BY <2>1, <2>2, <2>3
  <2>5. \A T \in Upto(n) : h[T] = g[T]
    BY <2>1 DEF c
  <2>6. \A T \in Upto(n + 1) : T # {} => T \ {c(T)} \in Upto(n)
    BY <2>3, <1>0
  <2>7. \A T \in Upto(n + 1) : h[T] = IF T = {} THEN 0 ELSE f[c(T)] + h[T \ {c(T)}]
    BY <2>5, <2>6
  <2>8. Good(n + 1, h)
    BY <2>4, <2>7 DEF c
  <2>. HIDE DEF h, Good
  <2>. QED BY <2>8
<1>3. Cardinality(S) \in N
  <2>. HIDE DEF N
  <2>. QED BY <1>0, <1>1, <1>2, NatInduct, S \in SUBSET S
<1>4. PICK g : Good(Cardinality(S), g)
  BY <1>3
<1>5. \A T \in SUBSET S : T \in Upto(Cardinality(S))
  BY FS_Subset, FS_CardinalityType
<1>6. IsFold(g, f, S)
  BY <1>4, <1>5 DEF IsFold
<1>. QED BY <1>4, <1>6

(* Every solution of it is the sum: the order of choice does not matter. *)
LEMMA FoldIsSum ==
  ASSUME NEW S, IsFiniteSet(S), NEW f \in [S -> Int], NEW g, IsFold(g, f, S)
  PROVE  IsSum(g, f, S)
<1>. DEFINE P(n) == \A T \in SUBSET S : Cardinality(T) <= n =>
                      g[T] \in Int /\ \A x \in T : g[T] = f[x] + g[T \ {x}]
            N == {n \in Nat : P(n)}
            c(T) == CHOOSE x \in T : TRUE
<1>0. \A T \in SUBSET S : IsFiniteSet(T) /\ Cardinality(T) \in Nat /\ (Cardinality(T) = 0 <=> T = {})
  BY FS_Subset, FS_CardinalityType, FS_EmptySet
<1>6. ASSUME NEW T \in SUBSET S, NEW x \in T
      PROVE  T \ {x} \in SUBSET S /\ Cardinality(T \ {x}) = Cardinality(T) - 1
  BY <1>0, FS_RemoveElement
<1>1. g[{}] = 0 /\ \A T \in SUBSET S : T # {} => c(T) \in T /\ g[T] = f[c(T)] + g[T \ {c(T)}]
  BY Zenon DEF IsFold
<1>. HIDE DEF c
<1>2. 0 \in N
  <2>1. \A T \in SUBSET S : Cardinality(T) <= 0 => T = {}
    BY <1>0
  <2>2. g[{}] \in Int
    BY <1>1
  <2>3. P(0)
    BY <2>1, <2>2, Zenon
  <2>. QED BY <2>3
<1>3. ASSUME NEW n \in Nat, P(n) PROVE P(n + 1)
  <2>1. SUFFICES ASSUME NEW T \in SUBSET S, Cardinality(T) <= n + 1, T # {}
                 PROVE  g[T] \in Int /\ \A x \in T : g[T] = f[x] + g[T \ {x}]
    <3>1. g[{}] \in Int
      BY <1>1
    <3>. QED BY <3>1, <2>1, Zenon
  <2>2. ASSUME NEW x \in T PROVE Cardinality(T \ {x}) <= n /\ T \ {x} \in SUBSET S /\ g[T \ {x}] \in Int
    <3>1. Cardinality(T \ {x}) <= n /\ T \ {x} \in SUBSET S
      BY <1>0, <1>6, <2>1
    <3>. QED BY <3>1, <1>3
  <2>3. c(T) \in T /\ g[T] = f[c(T)] + g[T \ {c(T)}]
    BY <1>1, <2>1
  <2>4. g[T] \in Int
    <3>1. f[c(T)] \in Int
      BY <2>3
    <3>2. g[T \ {c(T)}] \in Int
      BY <2>2, <2>3
    <3>. QED BY <3>1, <3>2, <2>3
  <2>5. ASSUME NEW x \in T, x # c(T) PROVE g[T] = f[x] + g[T \ {x}]
    <3>. DEFINE U == T \ {c(T)}
                V == T \ {x}
                W == T \ {c(T), x}
    <3>1. c(T) \in V /\ x \in U
      BY <2>3, <2>5
    <3>2. U \ {x} = W /\ V \ {c(T)} = W
      OBVIOUS
    <3>3. g[U] = f[x] + g[U \ {x}]
      BY <2>2, <2>3, <3>1, <1>3
    <3>4. g[V] = f[c(T)] + g[V \ {c(T)}]
      BY <2>2, <3>1, <1>3
    <3>5. Cardinality(W) <= n /\ W \in SUBSET S
      <4>1. U \in SUBSET S /\ Cardinality(U) <= n /\ Cardinality(U) \in Nat
        BY <2>2, <2>3, <1>0
      <4>2. U \ {x} \in SUBSET S /\ Cardinality(U \ {x}) = Cardinality(U) - 1
        BY <4>1, <3>1, <1>6
      <4>. HIDE DEF U, W
      <4>. QED BY <4>1, <4>2, <3>2
    <3>8. g[W] \in Int
      BY <3>5, <1>3
    <3>6. f[x] \in Int /\ f[c(T)] \in Int /\ g[U] \in Int /\ g[V] \in Int
      BY <2>2, <2>3
    <3>. HIDE DEF U, V, W
    <3>7. g[T] = f[c(T)] + g[U] /\ g[U] = f[x] + g[W] /\ g[V] = f[c(T)] + g[W]
      BY <2>3, <3>2, <3>3, <3>4 DEF U
    <3>9. g[T] = f[x] + g[V]
      BY <3>6, <3>7, <3>8
    <3>. QED BY <3>9 DEF V
  <2>. QED BY <2>3, <2>4, <2>5
<1>4. \A n \in Nat : n \in N
  <2>1. \A n \in Nat : n \in N => n + 1 \in N
    BY <1>3
  <2>. HIDE DEF N
  <2>. QED BY <1>2, <2>1, NatInduct
<1>5. \A T \in SUBSET S : g[T] \in Int /\ \A x \in T : g[T] = f[x] + g[T \ {x}]
  BY <1>0, <1>4
<1>. QED BY <1>1, <1>5, Zenon DEF IsSum, IsFold

(* A sum of natural numbers is one, and no smaller than any of its terms. *)
LEMMA SumOfNats ==
  ASSUME NEW S, IsFiniteSet(S), NEW f \in [S -> Nat], NEW g, IsSum(g, f, S), NEW a \in S
  PROVE  g[S] \in Nat /\ f[a] <= g[S]
<1>. DEFINE Q == {T \in SUBSET S : g[T] \in Nat}
<1>1. {} \in Q
  BY DEF IsSum
<1>2. ASSUME NEW T \in SUBSET S, NEW x \in T, T \ {x} \in Q PROVE T \in Q
  <2>1. g[T] = f[x] + g[T \ {x}] /\ f[x] \in Nat
    BY DEF IsSum
  <2>. QED BY <1>2, <2>1
<1>3. \A T \in SUBSET S : T \in Q
  <2>. HIDE DEF Q
  <2>. QED BY <1>1, <1>2, SubsetInduct
<1>4. g[S] = f[a] + g[S \ {a}] /\ f[a] \in Nat
  BY DEF IsSum
<1>5. g[S \ {a}] \in Nat
  BY <1>3
<1>. QED BY <1>4, <1>5

(* When one term moves, the sum moves by as much. *)
LEMMA SumMoves ==
  ASSUME NEW S, IsFiniteSet(S), NEW f \in [S -> Int], NEW h \in [S -> Int],
         NEW g, IsSum(g, f, S), NEW k, IsSum(k, h, S),
         NEW a \in S, \A x \in S \ {a} : f[x] = h[x]
  PROVE  k[S] = g[S] + (h[a] - f[a])
<1>. DEFINE Q == {T \in SUBSET S : a \notin T => g[T] = k[T]}
<1>1. {} \in Q
  BY DEF IsSum
<1>2. ASSUME NEW T \in SUBSET S, NEW x \in T, T \ {x} \in Q PROVE T \in Q
  <2>1. SUFFICES ASSUME a \notin T PROVE g[T] = k[T]
    OBVIOUS
  <2>2. g[T] = f[x] + g[T \ {x}] /\ k[T] = h[x] + k[T \ {x}]
    BY DEF IsSum
  <2>. QED BY <1>2, <2>1, <2>2
<1>3. \A T \in SUBSET S : T \in Q
  <2>. HIDE DEF Q
  <2>. QED BY <1>1, <1>2, SubsetInduct
<1>4. g[S] = f[a] + g[S \ {a}] /\ k[S] = h[a] + k[S \ {a}] /\ g[S \ {a}] \in Int
  BY DEF IsSum
<1>5. g[S \ {a}] = k[S \ {a}]
  BY <1>3
<1>. QED BY <1>4, <1>5

-----------------------------------------------------------------------------
(* The fee total *)

(* What the campaign is owed for each intent, from the two histories. *)
Due(cr, de) == [i \in Intents |-> Fee[i] * (cr[i] - de[i])]

(* FeeLedger's fold is the sum of these dues. *)
LEMMA LedgerSum ==
  ASSUME NEW cr \in [Intents -> Nat], NEW de \in [Intents -> Nat]
  PROVE  \E g : /\ IsSum(g, Due(cr, de), Intents)
                /\ MapThenSumSet(LAMBDA i : Fee[i] * (cr[i] - de[i]), Intents) = g[Intents]
<1>. DEFINE c(T) == CHOOSE x \in T : TRUE
            Eq(g) == g = [T \in SUBSET Intents |-> IF T = {} THEN 0 ELSE Fee[c(T)] * (cr[c(T)] - de[c(T)]) + g[T \ {c(T)}]]
            g == CHOOSE g : Eq(g)
            f == Due(cr, de)
<1>1. MapThenSumSet(LAMBDA i : Fee[i] * (cr[i] - de[i]), Intents) = g[Intents]
  BY DEF MapThenSumSet, MapThenFoldSet
<1>2. f \in [Intents -> Int] /\ \A x \in Intents : f[x] = Fee[x] * (cr[x] - de[x])
  BY DonorAssumption DEF Due
<1>3. \A T \in SUBSET Intents : T # {} => c(T) \in Intents
  OBVIOUS
<1>4. ASSUME NEW h PROVE Eq(h) <=> IsFold(h, f, Intents)
  <2>. HIDE DEF f
  <2>1. \A T \in SUBSET Intents : T # {} => Fee[c(T)] * (cr[c(T)] - de[c(T)]) = f[c(T)]
    BY <1>2, <1>3
  <2>. QED BY <2>1, Zenon DEF IsFold
<1>5. PICK h : IsFold(h, f, Intents)
  BY <1>2, IntentsAssumption, FoldExists
<1>6. Eq(g)
  <2>. HIDE DEF Eq
  <2>. QED BY <1>4, <1>5
<1>. HIDE DEF Eq, g, f
<1>7. IsSum(g, f, Intents)
  BY <1>2, <1>4, <1>6, IntentsAssumption, FoldIsSum
<1>. QED BY <1>1, <1>7 DEF f

(* FeeLedger after a step, spelled out. *)
LEMMA NextLedger ==
  FeeLedger' <=> (raced' \cap Intents = {} =>
    fees' = MapThenSumSet(LAMBDA i : Fee[i] * (credits'[i] - debits'[i]), Intents))
  BY DEF FeeLedger, MapThenSumSet, MapThenFoldSet

(* Only the transactions of two handlers touch the total and its history,  *)
(* and an overlap, once recorded, stays on record.                         *)
LEMMA FeesMove ==
  ASSUME [Next]_vars
  PROVE  /\ raced \subseteq raced'
         /\ \/ UNCHANGED <<fees, credits, debits>>
            \/ \E w \in Workers : HandlePaymentIntentSucceeded(w) \/ HandleChargeRefunded(w)
<1> USE DEF bookVars
<1>1. CASE UNCHANGED vars
  BY <1>1 DEF vars
<1>2. ASSUME NEW e \in StripeEvents, StripeStep(e) \/ EndpointStep(e)
      PROVE  UNCHANGED <<raced, fees, credits, debits>>
  BY <1>2 DEF StripeStep, EndpointStep, Emit, DashboardRefund, CreateRefund, Receive, EnqueueHook,
              EnqueueFails
<1>3. ASSUME NEW w \in Workers, \E e \in StripeEvents : TakeHook(w, e)
      PROVE  UNCHANGED <<raced, fees, credits, debits>>
  BY <1>3 DEF TakeHook
<1>4. ASSUME NEW w \in Workers, HandlerThrows(w) \/ Abandon(w) \/ Stall(w)
      PROVE  UNCHANGED <<raced, fees, credits, debits>>
  BY <1>4 DEF HandlerThrows, Abandon, Stall
<1>5. ASSUME NEW w \in Workers, HandlerStep(w)
      PROVE  /\ raced \subseteq raced'
             /\ \/ UNCHANGED <<fees, credits, debits>>
                \/ HandlePaymentIntentSucceeded(w) \/ HandleChargeRefunded(w)
  BY <1>5 DEF HandlerStep, MarkProcessing, ReadBooks, HandlePaymentIntentFailed, Finish, RecordError,
              HandlePaymentIntentSucceeded, HandleChargeRefunded
<1>6. ASSUME NEW i \in Intents, OperatorStep(i)
      PROVE  UNCHANGED <<raced, fees, credits, debits>>
  BY <1>6 DEF OperatorStep, RefundValidate, RefundAtStripe, RefundBreaksOff, RefundWrite,
              DeleteDonation
<1> QED BY <1>1, <1>2, <1>3, <1>4, <1>5, <1>6 DEF Next

(* A fee that has been added and not taken off is part of the total.       *)
LEMMA FeeCovered ==
  ASSUME IInv, FeeLedger, raced \cap Intents = {}, NEW i \in Intents, debits[i] < credits[i]
  PROVE  Fee[i] <= fees
<1> DEFINE f == Due(credits, debits)
<1>1. credits \in [Intents -> Nat] /\ debits \in [Intents -> Nat]
  BY DEF IInv, TypeOK
<1>2. PICK g : /\ IsSum(g, f, Intents)
               /\ MapThenSumSet(LAMBDA j : Fee[j] * (credits[j] - debits[j]), Intents) = g[Intents]
  BY <1>1, LedgerSum
<1>3. fees = g[Intents] /\ IsSum(g, f, Intents)
  BY <1>2 DEF FeeLedger
<1>4. f \in [Intents -> Int] /\ \A j \in Intents : f[j] = Fee[j] * (credits[j] - debits[j])
  BY <1>1, DonorAssumption DEF Due
<1>5. f \in [Intents -> Nat]
  <2>1. \A j \in Intents : Fee[j] \in Nat /\ credits[j] - debits[j] \in Nat
    BY <1>1, DonorAssumption DEF IInv, BookInv, FeeInv
  <2>2. \A a, b \in Nat : a * b \in Nat
    OBVIOUS
  <2>3. \A j \in Intents : f[j] \in Nat
    BY <1>4, <2>1, <2>2
  <2> QED BY <1>4, <2>3
<1>6. Fee[i] <= f[i]
  <2>1. \A p, c, d \in Nat : d < c => p <= p * (c - d)
    OBVIOUS
  <2>2. Fee[i] \in Nat /\ credits[i] \in Nat /\ debits[i] \in Nat
    BY <1>1, DonorAssumption
  <2>3. Fee[i] <= Fee[i] * (credits[i] - debits[i])
    BY <2>1, <2>2
  <2> QED BY <1>4, <2>3
<1>7. Fee[i] \in Nat /\ f[i] \in Nat
  BY <1>5, DonorAssumption
<1> HIDE DEF f
<1>8. g[Intents] \in Nat /\ f[i] <= g[Intents]
  BY <1>3, <1>5, IntentsAssumption, SumOfNats
<1> QED BY <1>3, <1>6, <1>7, <1>8

(* The total follows the history, and the floor of RollBackFee never       *)
(* bites: the fee rolled back is one of the terms of the sum.              *)
LEMMA LedgerStep ==
  ASSUME IInv, FeeLedger, [Next]_vars
  PROVE  FeeLedger'
<1>1. SUFFICES ASSUME raced' \cap Intents = {}
               PROVE  fees' = MapThenSumSet(LAMBDA i : Fee[i] * (credits'[i] - debits'[i]), Intents)
  BY NextLedger
<1> DEFINE f == Due(credits, debits)
           h == Due(credits', debits')
<1>2. raced \cap Intents = {}
  BY <1>1, FeesMove
<1>3. /\ credits \in [Intents -> Nat] /\ debits \in [Intents -> Nat] /\ fees \in Nat
      /\ credits' \in [Intents -> Nat] /\ debits' \in [Intents -> Nat]
      /\ IInv'
  BY NextIInv DEF IInv, TypeOK
<1>11. fees = MapThenSumSet(LAMBDA i : Fee[i] * (credits[i] - debits[i]), Intents)
  BY <1>2 DEF FeeLedger
<1>12. PICK g : /\ IsSum(g, f, Intents)
                /\ MapThenSumSet(LAMBDA i : Fee[i] * (credits[i] - debits[i]), Intents) = g[Intents]
  BY <1>3, LedgerSum
<1>4. IsSum(g, f, Intents) /\ fees = g[Intents]
  BY <1>11, <1>12
<1>5. PICK k : /\ IsSum(k, h, Intents)
               /\ MapThenSumSet(LAMBDA i : Fee[i] * (credits'[i] - debits'[i]), Intents) = k[Intents]
  BY <1>3, LedgerSum
<1>13. IsSum(k, h, Intents)
  BY <1>5
<1>6. /\ f \in [Intents -> Int] /\ h \in [Intents -> Int]
      /\ \A i \in Intents : /\ f[i] = Fee[i] * (credits[i] - debits[i])
                            /\ h[i] = Fee[i] * (credits'[i] - debits'[i])
  BY <1>3, DonorAssumption DEF Due
<1>8. CASE UNCHANGED <<fees, credits, debits>>
  <2>1. fees' = g[Intents] /\ \A i \in Intents : f[i] = h[i]
    BY <1>8, <1>4
  <2> HIDE DEF f, h
  <2>2. ASSUME NEW i \in Intents PROVE k[Intents] = g[Intents] + (h[i] - f[i])
    BY <1>4, <1>13, <1>6, <2>1, IntentsAssumption, SumMoves
  <2>3. CASE Intents = {}
    <3>1. k[Intents] = g[Intents]
      BY <1>4, <1>13, <2>3 DEF IsSum
    <3> QED BY <1>5, <2>1, <3>1
  <2>4. CASE Intents # {}
    <3>1. PICK i \in Intents : TRUE
      BY <2>4
    <3>2. h[i] - f[i] = 0 /\ g[Intents] \in Int
      BY <1>4, <1>6, <2>1 DEF IsSum
    <3>3. k[Intents] = g[Intents]
      BY <2>2, <3>2
    <3> QED BY <1>5, <2>1, <3>3
  <2> QED BY <2>3, <2>4
<1>9. ASSUME NEW w \in Workers, HandlePaymentIntentSucceeded(w) PROVE fees' = k[Intents]
  <2> DEFINE i == run[w].event.intent
  <2>1. i \in Intents
    BY <1>9, Committed DEF HandlePaymentIntentSucceeded
  <2>2. CASE NewDonation(i)
    <3>1. /\ fees' = fees + Fee[i] /\ debits' = debits
          /\ credits'[i] = credits[i] + 1
          /\ \A j \in Intents \ {i} : credits'[j] = credits[j]
      BY <1>9, <2>1, <2>2, <1>3 DEF HandlePaymentIntentSucceeded
    <3>2. \A j \in Intents \ {i} : f[j] = h[j]
      BY <1>6, <3>1
    <3>3. h[i] - f[i] = Fee[i]
      <4>1. Fee[i] \in Int /\ credits[i] \in Int /\ debits[i] \in Int
        BY <1>3, <2>1, DonorAssumption
      <4>2. \A p, c, d \in Int : p * ((c + 1) - d) - p * (c - d) = p
        OBVIOUS
      <4>3. f[i] = Fee[i] * (credits[i] - debits[i])
        BY <1>6, <2>1
      <4>4. h[i] = Fee[i] * ((credits[i] + 1) - debits[i])
        BY <1>6, <2>1, <3>1
      <4> QED BY <4>1, <4>2, <4>3, <4>4
    <3> HIDE DEF i, f, h
    <3>4. k[Intents] = g[Intents] + (h[i] - f[i])
      BY <1>4, <1>13, <1>6, <2>1, <3>2, IntentsAssumption, SumMoves
    <3> QED BY <1>4, <3>1, <3>3, <3>4
  <2>3. CASE ~NewDonation(i)
    <3>1. UNCHANGED <<fees, credits, debits>>
      BY <1>9, <2>3 DEF HandlePaymentIntentSucceeded
    <3> QED BY <1>5, <1>8, <3>1
  <2> QED BY <2>2, <2>3
<1>10. ASSUME NEW w \in Workers, HandleChargeRefunded(w) PROVE fees' = k[Intents]
  <2> DEFINE i == run[w].event.intent
  <2>1. i \in Intents /\ run[w].at = "commit" /\ run[w].event.kind = "refunded"
    BY <1>10, Committed DEF HandleChargeRefunded
  <2>2. CASE RefundApplies(w)
    <3>1. /\ fees' = IF fees >= Fee[i] THEN fees - Fee[i] ELSE 0
          /\ credits' = credits /\ debits'[i] = debits[i] + 1
          /\ \A j \in Intents \ {i} : debits'[j] = debits[j]
      BY <1>10, <2>1, <2>2, <1>3 DEF HandleChargeRefunded, RollBackFee
    <3>2. debits[i] < credits[i]
      BY <1>2, <2>1, <2>2 DEF RefundApplies, Rolling, Refunding, IsOf, IInv, BookInv, FeeInv
    <3>3. \A j \in Intents \ {i} : f[j] = h[j]
      BY <1>6, <3>1
    <3>4. Fee[i] \in Nat /\ credits[i] \in Nat /\ debits[i] \in Nat
      BY <1>3, <2>1, DonorAssumption
    <3>5. h[i] - f[i] = -Fee[i]
      <4>1. \A p, c, d \in Int : p * (c - (d + 1)) - p * (c - d) = -p
        OBVIOUS
      <4>2. h[i] = Fee[i] * (credits[i] - (debits[i] + 1))
        BY <1>6, <2>1, <3>1
      <4>3. Fee[i] * (credits[i] - (debits[i] + 1)) - Fee[i] * (credits[i] - debits[i]) = -Fee[i]
        <5>1. Fee[i] \in Int /\ credits[i] \in Int /\ debits[i] \in Int
          BY <3>4
        <5> QED BY <4>1, <5>1, Zenon
      <4> QED BY <1>6, <2>1, <4>2, <4>3
    <3>6. Fee[i] <= fees
      BY <1>2, <2>1, <3>2, FeeCovered
    <3> HIDE DEF i, f, h
    <3>7. k[Intents] = g[Intents] + (h[i] - f[i])
      BY <1>4, <1>13, <1>6, <2>1, <3>3, IntentsAssumption, SumMoves
    <3> QED BY <1>3, <1>4, <3>1, <3>4, <3>5, <3>6, <3>7
  <2>3. CASE ~RefundApplies(w)
    <3>1. UNCHANGED <<fees, credits, debits>>
      BY <1>10, <2>3 DEF HandleChargeRefunded
    <3> QED BY <1>5, <1>8, <3>1
  <2> QED BY <2>2, <2>3
<1> QED BY <1>5, <1>8, <1>9, <1>10, FeesMove

(* As long as no two handlers of refunds of one donation overlap, the      *)
(* campaign's fee total is exact, for any number of intents: every fee     *)
(* booked and not rolled back, and nothing else.                           *)
THEOREM FeeTotalIsExact == Spec => []FeeLedger
<1>1. Init => FeeLedger
  <2> SUFFICES ASSUME Init
               PROVE  fees = MapThenSumSet(LAMBDA i : Fee[i] * (credits[i] - debits[i]), Intents)
    BY DEF FeeLedger
  <2> DEFINE f == Due(credits, debits)
  <2>1. /\ credits \in [Intents -> Nat] /\ debits \in [Intents -> Nat] /\ fees = 0
        /\ \A i \in Intents : credits[i] = 0 /\ debits[i] = 0
    BY DEF Init
  <2>2. PICK g : /\ IsSum(g, f, Intents)
                 /\ MapThenSumSet(LAMBDA i : Fee[i] * (credits[i] - debits[i]), Intents)
                    = g[Intents]
    BY <2>1, LedgerSum
  <2>3. \A i \in Intents : f[i] = 0
    BY <2>1, DonorAssumption DEF Due
  <2> HIDE DEF f
  <2> DEFINE Q == {T \in SUBSET Intents : g[T] = 0}
  <2>4. {} \in Q
    BY <2>2 DEF IsSum
  <2>5. ASSUME NEW T \in SUBSET Intents, NEW x \in T, T \ {x} \in Q PROVE T \in Q
    <3>1. g[T] = f[x] + g[T \ {x}]
      BY <2>2 DEF IsSum
    <3> QED BY <2>3, <2>5, <3>1
  <2>6. \A T \in SUBSET Intents : T \in Q
    <3> HIDE DEF Q
    <3> QED BY <2>4, <2>5, IntentsAssumption, SubsetInduct
  <2> QED BY <2>1, <2>2, <2>6
<1>2. IInv /\ FeeLedger /\ [Next]_vars => FeeLedger'
  BY LedgerStep
<1> QED BY <1>1, <1>2, Inductive, PTL DEF Spec

-----------------------------------------------------------------------------
(* Refinement: the books are kept like PaymentAccounts. *)

(* A donation, and the row a refund has in mind, was booked. *)
RowsInv ==
  /\ \A i \in Intents : donation[i] # "none" => created[i] > 0
  /\ \A i \in Intents : ui[i].at # "idle" => ui[i].row > 0 /\ ui[i].row <= created[i]
  /\ \A w \in Workers, i \in Intents :
       Rolling(w, i) => run[w].row > 0 /\ run[w].row <= created[i]

(* A step that books nothing, begins no refund and sees no row keeps that. *)
LEMMA RowsKept ==
  ASSUME TypeOK, RowsInv, UNCHANGED created,
         \A i \in Intents : donation'[i] # "none" => donation[i] # "none",
         \A i \in Intents : ui'[i].at # "idle" => ui'[i].row = ui[i].row /\ ui[i].at # "idle",
         \A w \in Workers : run'[w].at = "commit" => run'[w] = run[w]
  PROVE  RowsInv'
  BY DEF RowsInv, Rolling, Refunding

LEMMA RowsStep ==
  ASSUME IInv, RowsInv, [Next]_vars
  PROVE  RowsInv'
<1> USE DEF IInv
<1>1. ASSUME Quiet, UNCHANGED ui PROVE RowsInv'
  BY <1>1, RowsKept DEF Quiet, bookVars
<1>2. CASE UNCHANGED vars
  BY <1>2, RowsKept DEF vars, bookVars
<1>3. ASSUME NEW e \in StripeEvents, StripeStep(e) \/ EndpointStep(e)
      PROVE  RowsInv'
  <2>1. UNCHANGED ui
    BY <1>3 DEF StripeStep, EndpointStep, Emit, DashboardRefund, Receive, EnqueueHook, EnqueueFails
  <2> QED BY <1>1, <1>3, <2>1, OutsideIsQuiet
<1>4. ASSUME NEW w \in Workers,
             \/ \E e \in StripeEvents : TakeHook(w, e)
             \/ MarkProcessing(w) \/ Finish(w) \/ RecordError(w)
             \/ HandlerThrows(w) \/ Abandon(w) \/ Stall(w)
      PROVE  RowsInv'
  <2>1. UNCHANGED ui
    BY <1>4 DEF TakeHook, MarkProcessing, Finish, RecordError, HandlerThrows, Abandon, Stall
  <2> QED BY <1>1, <1>4, <2>1, RunIsQuiet
<1>5. ASSUME NEW w \in Workers, ReadBooks(w) PROVE RowsInv'
  <2> DEFINE e == run[w].event
  <2>1. /\ UNCHANGED <<created, donation, ui>>
        /\ run' = [run EXCEPT ![w].at = "commit", ![w].saw = Lookup(e),
                              ![w].row = IF Lookup(e) = "cleared" THEN created[e.intent] ELSE 0]
    BY <1>5 DEF ReadBooks, bookVars
  <2>2. /\ run'[w].event = e
        /\ run'[w].saw = "cleared" => Lookup(e) = "cleared" /\ run'[w].row = created[e.intent]
        /\ \A v \in Workers \ {w} : run'[v] = run[v]
    BY <2>1 DEF TypeOK, Run
  <2>3. \A i \in Intents : Rolling(w, i)' => donation[i] = "cleared" /\ run'[w].row = created[i]
    BY <2>2 DEF Rolling, Refunding, IsOf, Lookup
  <2>4. \A i \in Intents : created[i] \in Nat
    BY DEF TypeOK
  <2>5. \A v \in Workers \ {w}, i \in Intents : Rolling(v, i)' => Rolling(v, i) /\ run'[v].row = run[v].row
    BY <2>2 DEF Rolling, Refunding
  <2> HIDE DEF e
  <2>6. \A v \in Workers, i \in Intents :
          Rolling(v, i)' => run'[v].row > 0 /\ run'[v].row <= created[i]
    <3> SUFFICES ASSUME NEW v \in Workers, NEW i \in Intents, Rolling(v, i)'
                 PROVE  run'[v].row > 0 /\ run'[v].row <= created[i]
      OBVIOUS
    <3>1. CASE v = w
      BY <2>3, <2>4, <3>1 DEF RowsInv
    <3>2. CASE v # w
      BY <2>5, <3>2 DEF RowsInv
    <3> QED BY <3>1, <3>2
  <2> QED BY <2>1, <2>6 DEF RowsInv
<1>6. ASSUME NEW w \in Workers,
             HandlePaymentIntentSucceeded(w) \/ HandlePaymentIntentFailed(w) \/ HandleChargeRefunded(w)
      PROVE  RowsInv'
  <2>1. /\ UNCHANGED ui /\ run[w].event.intent \in Intents
        /\ \A v \in Workers : run'[v].at = "commit" => run'[v] = run[v]
    BY <1>6, Committed
    DEF HandlePaymentIntentSucceeded, HandlePaymentIntentFailed, HandleChargeRefunded
  <2>2. CASE UNCHANGED created /\ \A i \in Intents : donation'[i] # "none" => donation[i] # "none"
    BY <2>1, <2>2, RowsKept
  <2>3. CASE HandlePaymentIntentSucceeded(w) /\ NewDonation(run[w].event.intent)
    <3> DEFINE i == run[w].event.intent
    <3>1. /\ created'[i] = created[i] + 1 /\ created[i] \in Nat
          /\ \A j \in Intents \ {i} : created'[j] = created[j] /\ donation'[j] = donation[j]
          /\ \A j \in Intents : created[j] \in Nat /\ ui[j].row \in Nat
          /\ \A v \in Workers : run[v].row \in Nat
      BY <2>1, <2>3 DEF HandlePaymentIntentSucceeded, TypeOK, Run
    <3>2. \A v \in Workers, j \in Intents : Rolling(v, j)' => Rolling(v, j) /\ run'[v].row = run[v].row
      BY <2>1 DEF Rolling, Refunding
    <3> HIDE DEF i
    <3>3. \A j \in Intents : created'[j] \in Nat /\ created[j] <= created'[j]
      BY <3>1
    <3>4. \A j \in Intents : donation'[j] # "none" => created'[j] > 0
      BY <3>1 DEF RowsInv
    <3> QED BY <2>1, <3>1, <3>2, <3>3, <3>4 DEF RowsInv
  <2>4. CASE HandlePaymentIntentSucceeded(w) /\ ~NewDonation(run[w].event.intent)
    BY <2>2, <2>4 DEF HandlePaymentIntentSucceeded
  <2>5. CASE HandlePaymentIntentFailed(w)
    BY <2>2, <2>5 DEF HandlePaymentIntentFailed
  <2>6. CASE HandleChargeRefunded(w)
    BY <2>1, <2>2, <2>6 DEF HandleChargeRefunded, MarkRefunded, TypeOK
  <2> QED BY <1>6, <2>3, <2>4, <2>5, <2>6
<1>7. ASSUME NEW i \in Intents, OperatorStep(i)
      PROVE  RowsInv'
  <2>1. CASE RefundValidate(i)
    <3>1. /\ UNCHANGED <<run, donation, created>> /\ donation[i] # "none"
          /\ ui'[i].row = created[i] /\ \A j \in Intents \ {i} : ui'[j] = ui[j]
          /\ \A j \in Intents : created[j] \in Nat
      BY <2>1 DEF RefundValidate, bookVars, TypeOK
    <3> QED BY <3>1 DEF RowsInv, Rolling, Refunding
  <2>2. CASE RefundAtStripe(i)
    BY <2>2, RowsKept DEF RefundAtStripe, bookVars, TypeOK
  <2>3. CASE RefundBreaksOff(i)
    BY <2>3, RowsKept DEF RefundBreaksOff, NoRequest, bookVars, TypeOK
  <2>4. CASE RefundWrite(i)
    BY <2>4, RowsKept DEF RefundWrite, MarkRefunded, NoRequest, TypeOK
  <2>5. CASE DeleteDonation(i)
    BY <2>5, RowsKept DEF DeleteDonation, TypeOK
  <2> QED BY <1>7, <2>1, <2>2, <2>3, <2>4, <2>5 DEF OperatorStep
<1> QED BY <1>2, <1>3, <1>4, <1>5, <1>6, <1>7 DEF Next, HandlerStep

PaidNow == {i \in Intents : Paid(i)}
Over == raced \cap Intents

(* A line of the accounts, or a step nobody sees in them. *)
AccountStep == Accounts!Next \/ UNCHANGED Accounts!accounts

(* A step that leaves the books alone announces a payment at most. *)
LEMMA AnnouncementShows ==
  ASSUME UNCHANGED <<bookVars, raced>>,
         \/ PaidNow' = PaidNow
         \/ \E i \in Intents \ PaidNow : PaidNow' = PaidNow \cup {i}
  PROVE  AccountStep
<1>1. /\ UNCHANGED <<donation, attempt, fees, created, refunds, credits, debits>> /\ Over' = Over
  BY DEF bookVars, Over
<1>2. CASE PaidNow' = PaidNow
  BY <1>1, <1>2 DEF AccountStep, Accounts!accounts, PaidNow, Over
<1>3. ASSUME NEW i \in Intents \ PaidNow, PaidNow' = PaidNow \cup {i} PROVE Accounts!Pay(i)
  BY <1>1, <1>3 DEF Accounts!Pay, PaidNow, Over
<1> QED BY <1>2, <1>3 DEF AccountStep, Accounts!Next

(* Stripe, the endpoint, the queue and the early phases of a refund. *)
LEMMA QuietShows ==
  ASSUME IInv, Quiet,
         \/ UNCHANGED emitted
         \/ \E e \in StripeEvents : Emit(e) \/ \E full \in BOOLEAN : CreateRefund(e, full)
  PROVE  AccountStep
<1>1. CASE UNCHANGED emitted
  <2>1. PaidNow' = PaidNow
    BY <1>1 DEF PaidNow, Paid
  <2> QED BY <2>1, AnnouncementShows DEF Quiet
<1>2. ASSUME NEW e \in StripeEvents, Emit(e) PROVE AccountStep
  <2>1. e.intent \in Intents /\ emitted' = emitted \cup {e} /\ ~Paid(e.intent)
    BY <1>2, EventsAssumption DEF Emit
  <2>2. PaidNow' = IF e.kind = "succeeded" THEN PaidNow \cup {e.intent} ELSE PaidNow
    BY <2>1 DEF PaidNow, Paid, IsOf
  <2>3. e.intent \notin PaidNow
    BY <2>1 DEF PaidNow
  <2> QED BY <2>1, <2>2, <2>3, AnnouncementShows DEF Quiet
<1>3. ASSUME NEW e \in StripeEvents, NEW full \in BOOLEAN, CreateRefund(e, full) PROVE AccountStep
  <2>1. PaidNow' = PaidNow
    BY <1>3 DEF CreateRefund, PaidNow, Paid, IsOf
  <2> QED BY <2>1, AnnouncementShows DEF Quiet
<1> QED BY <1>1, <1>2, <1>3

(* The SELECTs of a run may overlap with another's, which is put on record. *)
LEMMA ReadShows ==
  ASSUME IInv, NEW w \in Workers, ReadBooks(w)
  PROVE  AccountStep
<1>1. UNCHANGED <<emitted, bookVars>> /\ PaidNow' = PaidNow
  BY DEF ReadBooks, stripeVars, PaidNow, Paid
<1>2. raced' = raced \/ raced' = raced \cup {Subject(run[w].event)}
  BY DEF ReadBooks
<1>3. Over' = Over \/ \E i \in Intents : Over' = Over \cup {i}
  BY <1>2 DEF Over
<1>4. UNCHANGED <<donation, attempt, fees, created, refunds, credits, debits>>
  BY <1>1 DEF bookVars
<1>5. CASE Over' = Over
  BY <1>1, <1>4, <1>5 DEF AccountStep, Accounts!accounts, PaidNow, Over
<1>6. ASSUME NEW i \in Intents, Over' = Over \cup {i} PROVE Accounts!Overlap(i)
  BY <1>1, <1>4, <1>6 DEF Accounts!Overlap, PaidNow, Over
<1> QED BY <1>3, <1>5, <1>6 DEF AccountStep, Accounts!Next

(* payment_intent.succeeded books the payment, or finds it booked, and     *)
(* then its attempt is recorded already.                                   *)
LEMMA SucceededShows ==
  ASSUME IInv, NEW w \in Workers, HandlePaymentIntentSucceeded(w)
  PROVE  AccountStep
<1> DEFINE i == run[w].event.intent
<1>1. /\ run[w].event \in emitted /\ i \in Intents /\ run[w].event.kind = "succeeded"
      /\ run[w].event \in StripeEvents
  BY Committed DEF HandlePaymentIntentSucceeded, IInv, TypeOK
<1>2. i \in PaidNow
  BY <1>1 DEF PaidNow, Paid, IsOf
<1>3. /\ UNCHANGED <<emitted, refunds, debits, raced>> /\ UpsertAttempt(i, "succeeded")
      /\ attempt \in [Intents -> {"none", "failed", "succeeded"}]
  BY DEF HandlePaymentIntentSucceeded, stripeVars, IInv, TypeOK
<1>4. PaidNow' = PaidNow /\ Over' = Over
  BY <1>3 DEF PaidNow, Paid, Over
<1>5. attempt' = [attempt EXCEPT ![i] = "succeeded"]
  BY <1>1, <1>3 DEF UpsertAttempt
<1>6. CASE NewDonation(i)
  <2>1. /\ donation' = [donation EXCEPT ![i] = "cleared"] /\ fees' = fees + Fee[i]
        /\ credits' = [credits EXCEPT ![i] = @ + 1] /\ created' = [created EXCEPT ![i] = @ + 1]
    BY <1>6 DEF HandlePaymentIntentSucceeded
  <2>2. donation[i] = "none"
    BY <1>6 DEF NewDonation
  <2> HIDE DEF i
  <2>3. Accounts!Book(i)
    BY <1>2, <1>3, <1>4, <1>5, <2>1, <2>2 DEF Accounts!Book, Accounts!OneMore, PaidNow, Over
  <2> QED BY <1>1, <2>3 DEF AccountStep, Accounts!Next
<1>7. CASE ~NewDonation(i)
  <2>1. UNCHANGED <<donation, fees, credits, created>>
    BY <1>7 DEF HandlePaymentIntentSucceeded
  <2>2. attempt[i] = "succeeded"
    BY <1>1, <1>7 DEF NewDonation, IInv, BookInv, BooksInv, BooksAgree
  <2>3. attempt' = attempt
    BY <1>3, <2>2 DEF UpsertAttempt
  <2> QED BY <1>3, <1>4, <2>1, <2>3 DEF AccountStep, Accounts!accounts, PaidNow, Over
<1> QED BY <1>6, <1>7

(* payment_intent.payment_failed leaves a succeeded attempt alone. *)
LEMMA FailedShows ==
  ASSUME IInv, NEW w \in Workers, HandlePaymentIntentFailed(w)
  PROVE  AccountStep
<1> DEFINE i == run[w].event.intent
<1>1. i \in Intents
  BY Committed DEF HandlePaymentIntentFailed
<1>2. /\ UNCHANGED <<emitted, donation, fees, created, credits, debits, refunds, raced>>
      /\ UpsertAttempt(i, "failed")
  BY DEF HandlePaymentIntentFailed, stripeVars
<1>3. PaidNow' = PaidNow /\ Over' = Over
  BY <1>2 DEF PaidNow, Paid, Over
<1> HIDE DEF i
<1>4. CASE attempt[i] = "succeeded"
  BY <1>2, <1>3, <1>4 DEF UpsertAttempt, AccountStep, Accounts!accounts, PaidNow, Over
<1>5. CASE attempt[i] # "succeeded"
  <2>1. Accounts!Fail(i)
    BY <1>2, <1>3, <1>5 DEF UpsertAttempt, Accounts!Fail, PaidNow, Over
  <2> QED BY <1>1, <2>1 DEF AccountStep, Accounts!Next
<1> QED BY <1>4, <1>5

(* A refund reaches the row it has in mind, or that row is gone; another   *)
(* one is there only if the payment was booked again.                      *)
LEMMA RefundReaches ==
  ASSUME IInv, NEW i \in Intents, NEW n \in Nat, n > 0, n <= created[i], MarkRefunded(i, n)
  PROVE  Accounts!RefundRow(i)
<1>1. donation \in [Intents -> {"none", "cleared", "refunded"}] /\ created[i] \in Nat
  BY DEF IInv, TypeOK
<1>2. CASE donation[i] = "none"
  BY <1>1, <1>2 DEF MarkRefunded, Accounts!RefundRow
<1>3. CASE donation[i] # "none" /\ created[i] = n
  BY <1>1, <1>3 DEF MarkRefunded, Accounts!RefundRow
<1>4. CASE donation[i] # "none" /\ created[i] # n
  BY <1>1, <1>4 DEF MarkRefunded, Accounts!RefundRow
<1> QED BY <1>2, <1>3, <1>4

(* charge.refunded takes off a fee that is in the total. *)
LEMMA RefundedShows ==
  ASSUME IInv, RowsInv, FeeLedger, NEW w \in Workers, HandleChargeRefunded(w)
  PROVE  AccountStep
<1> DEFINE i == run[w].event.intent
           n == run[w].row
<1>1. /\ run[w].at = "commit" /\ run[w].event.kind = "refunded" /\ i \in Intents /\ n \in Nat
  BY Committed DEF HandleChargeRefunded, IInv, TypeOK, Run
<1>2. UNCHANGED <<emitted, attempt, created, credits, raced>>
  BY DEF HandleChargeRefunded, stripeVars
<1>3. PaidNow' = PaidNow /\ Over' = Over
  BY <1>2 DEF PaidNow, Paid, Over
<1>4. CASE RefundApplies(w)
  <2>1. /\ MarkRefunded(i, n)
        /\ fees' = IF fees >= Fee[i] THEN fees - Fee[i] ELSE 0
        /\ debits' = [debits EXCEPT ![i] = @ + 1] /\ refunds' = [refunds EXCEPT ![i] = @ + 1]
    BY <1>4 DEF HandleChargeRefunded, RollBackFee, AnnounceRefund
  <2>2. Rolling(w, i)
    BY <1>1, <1>4 DEF Rolling, Refunding, IsOf, RefundApplies
  <2>3. n > 0 /\ n <= created[i]
    BY <1>1, <2>2 DEF RowsInv
  <2>4. debits[i] \in Nat /\ credits[i] \in Nat /\ debits'[i] = debits[i] + 1
    BY <1>1, <2>1 DEF IInv, TypeOK
  <2>5. i \notin Over =>
          /\ debits[i] < credits[i]
          /\ donation[i] = "cleared" /\ n # created[i] => debits[i] + 1 < credits[i]
    BY <1>1, <2>2 DEF Over, IInv, BookInv, FeeInv
  <2>6. donation'[i] = "cleared" => donation[i] = "cleared" /\ n # created[i]
    BY <1>1, <2>1 DEF MarkRefunded, IInv, TypeOK
  <2>7. Over = {} => Fee[i] <= fees
    BY <1>1, <2>5, FeeCovered DEF Over
  <2>8. Fee[i] \in Nat /\ fees \in Nat
    BY <1>1, DonorAssumption DEF IInv, TypeOK
  <2>9. Accounts!RefundRow(i)
    BY <1>1, <2>1, <2>3, RefundReaches
  <2> HIDE DEF i, n
  <2>10. i \notin Over => /\ debits'[i] <= credits[i]
                          /\ donation'[i] = "cleared" => debits'[i] < credits[i]
    BY <2>4, <2>5, <2>6
  <2>11. IF Over = {} THEN fees >= Fee[i] /\ fees' = fees - Fee[i] ELSE fees' \in {fees - Fee[i], 0}
    BY <2>1, <2>7, <2>8
  <2>12. Accounts!RefundByStripe(i)
    BY <1>2, <1>3, <2>1, <2>9, <2>10, <2>11 DEF Accounts!RefundByStripe, Accounts!OneMore, PaidNow, Over
  <2> QED BY <1>1, <2>12 DEF AccountStep, Accounts!Next
<1>5. CASE ~RefundApplies(w)
  <2>1. UNCHANGED <<donation, fees, debits, refunds>>
    BY <1>5 DEF HandleChargeRefunded
  <2> QED BY <1>2, <1>3, <2>1 DEF AccountStep, Accounts!accounts, PaidNow, Over
<1> QED BY <1>4, <1>5

(* The operator's writes. *)
LEMMA OperatorShows ==
  ASSUME IInv, RowsInv, NEW i \in Intents, RefundWrite(i) \/ DeleteDonation(i)
  PROVE  AccountStep
<1>1. UNCHANGED <<emitted, attempt, fees, created, credits, debits, raced>>
  BY DEF RefundWrite, DeleteDonation, stripeVars
<1>2. PaidNow' = PaidNow /\ Over' = Over
  BY <1>1 DEF PaidNow, Paid, Over
<1>3. CASE RefundWrite(i)
  <2>1. MarkRefunded(i, ui[i].row) /\ refunds' = [refunds EXCEPT ![i] = @ + 1]
    BY <1>3 DEF RefundWrite, AnnounceRefund
  <2>2. ui[i].row \in Nat /\ ui[i].row > 0 /\ ui[i].row <= created[i]
    BY <1>3 DEF RefundWrite, RowsInv, IInv, TypeOK
  <2>3. Accounts!RefundRow(i)
    BY <2>1, <2>2, RefundReaches
  <2>4. Accounts!RefundByOperator(i)
    BY <1>1, <1>2, <2>1, <2>3 DEF Accounts!RefundByOperator, Accounts!OneMore, PaidNow, Over
  <2> QED BY <2>4 DEF AccountStep, Accounts!Next
<1>4. CASE DeleteDonation(i)
  <2>1. Accounts!Delete(i)
    BY <1>1, <1>2, <1>4 DEF DeleteDonation, Accounts!Delete, PaidNow, Over
  <2> QED BY <2>1 DEF AccountStep, Accounts!Next
<1> QED BY <1>3, <1>4

LEMMA StepsShow ==
  ASSUME IInv, RowsInv, FeeLedger, [Next]_vars
  PROVE  AccountStep
<1>1. CASE UNCHANGED vars
  <2>1. UNCHANGED <<emitted, bookVars, raced>> /\ PaidNow' = PaidNow
    BY <1>1 DEF vars, stripeVars, PaidNow, Paid
  <2> QED BY <2>1, AnnouncementShows
<1>2. ASSUME NEW e \in StripeEvents, StripeStep(e) \/ EndpointStep(e)
      PROVE  AccountStep
  <2>1. UNCHANGED emitted \/ Emit(e) \/ \E full \in BOOLEAN : CreateRefund(e, full)
    BY <1>2 DEF StripeStep, EndpointStep, DashboardRefund, Receive, EnqueueHook, EnqueueFails, stripeVars
  <2> QED BY <1>2, <2>1, OutsideIsQuiet, QuietShows
<1>3. ASSUME NEW w \in Workers,
             \/ \E e \in StripeEvents : TakeHook(w, e)
             \/ MarkProcessing(w) \/ Finish(w) \/ RecordError(w)
             \/ HandlerThrows(w) \/ Abandon(w) \/ Stall(w)
      PROVE  AccountStep
  <2>1. UNCHANGED emitted
    BY <1>3
    DEF TakeHook, MarkProcessing, Finish, RecordError, HandlerThrows, Abandon, Stall, stripeVars
  <2> QED BY <1>3, <2>1, RunIsQuiet, QuietShows
<1>4. ASSUME NEW i \in Intents, OperatorStep(i)
      PROVE  AccountStep
  <2>1. CASE RefundValidate(i) \/ RefundAtStripe(i) \/ RefundBreaksOff(i)
    <3>1. UNCHANGED emitted \/ \E e \in StripeEvents, full \in BOOLEAN : CreateRefund(e, full)
      BY <2>1 DEF RefundValidate, RefundAtStripe, RefundBreaksOff, stripeVars
    <3> QED BY <2>1, <3>1, OutsideIsQuiet, QuietShows
  <2> QED BY <1>4, <2>1, OperatorShows DEF OperatorStep
<1> QED
  BY <1>1, <1>2, <1>3, <1>4, ReadShows, SucceededShows, FailedShows, RefundedShows
  DEF Next, HandlerStep

(* The webhook pipeline and the operator's requests implement the accounts, *)
(* for any number of payments, events, runs, faults and deletions.         *)
THEOREM Refinement == Spec => ImplementsAccounts
<1>1. Init => Accounts!Init
  <2> SUFFICES ASSUME Init PROVE Accounts!Init
    OBVIOUS
  <2>1. {i \in Intents : Paid(i)} = {} /\ raced \cap Intents = {}
    BY DEF Init, Paid
  <2> QED BY <2>1 DEF Init, Accounts!Init, Accounts!Zero, Accounts!Nothing
<1>2. Init => RowsInv
  BY DEF Init, RowsInv, NoRequest, NoRun, Rolling, Refunding
<1>3. IInv /\ RowsInv /\ [Next]_vars => RowsInv'
  BY RowsStep
<1>4. Spec => []RowsInv
  BY <1>2, <1>3, Inductive, PTL DEF Spec
<1>5. IInv /\ RowsInv /\ FeeLedger /\ [Next]_vars => [Accounts!Next]_(Accounts!accounts)
  BY StepsShow DEF AccountStep
<1> QED BY <1>1, <1>4, <1>5, Inductive, FeeTotalIsExact, PTL DEF Spec, ImplementsAccounts, Accounts!Spec

=============================================================================
