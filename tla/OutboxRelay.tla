----------------------------- MODULE OutboxRelay ----------------------------
(***************************************************************************)
(* The path of a domain event from the outbox_events table to its side     *)
(* effects: relay replicas poll the table and enqueue each pending row in  *)
(* the BullMQ events queue, the worker runs processDomainEvent on the job, *)
(* which fans out notifications and enqueues one child job (or sends an    *)
(* e-mail inline).                                                         *)
(*                                                                         *)
(* Events are numbered in created_at order; they commit in any order, as   *)
(* created_at is taken when the publishing transaction begins.             *)
(***************************************************************************)
EXTENDS Naturals, FiniteSets, JobQueue

CONSTANTS
  Events,         \* outbox rows, numbered by created_at
  InlineEvents,   \* events whose handler sends an e-mail instead of enqueueing
  Replicas,       \* relay processes
  BatchSize,      \* LIMIT of one poll
  Attempts,       \* attempts option of the events job
  KeepCompleted,  \* removeOnComplete of the events job
  KeepFailed,     \* removeOnFail of the events job
  MaxFaults       \* bound: errors and crashes in one behaviour

ASSUME EventsAssumption == Events \subseteq Nat /\ InlineEvents \subseteq Events
ASSUME ReplicasAssumption == Replicas # {}
ASSUME LimitsAssumption ==
  /\ BatchSize \in Nat \ {0}
  /\ Attempts \in Nat \ {0}
  /\ KeepCompleted \in Nat \ {0}
  /\ KeepFailed \in Nat \ {0}
  /\ MaxFaults \in Nat

VARIABLES
  status,     \* outbox_events.status
  pc,         \* where each relay replica is in its tick
  batch,      \* rows of the replica's SELECT it has not dealt with yet
  job,        \* the events queue
  tries,      \* attempts the current job of the event has used
  stalled,    \* events whose current job has been found stalled once
  step,       \* how far the active job is in processDomainEvent
  lost,       \* runs that lost their lock, by what they have yet to do
  age,        \* jobs that ended the same way after this terminal one did
  notified,   \* events whose notification rows exist
  child,      \* the child queues, by event (per-payload job ids)
  faults,     \* errors and crashes so far
  enqueued,   \* history: how often the queue accepted a job for the event
  handed,     \* history: how often the queue handed out a job of the event
  handled,    \* history: how often the routed side effect was carried out
  ended,      \* history: events jobs that reached a terminal state
  firstEnd    \* history: value of ended when the event's first job ended

relayVars  == <<status, pc, batch>>
endVars    == <<age, ended, firstEnd>>
effectVars == <<notified, child, handled>>
workerVars == <<tries, stalled, step, lost, handed, endVars, effectVars>>
vars == <<relayVars, workerVars, job, faults, enqueued>>

RowStatus == {"absent", "pending", "completed", "failed"}
RelayPc == {"sleep", "add", "mark", "fail"}
HandlerStep == {"fanout", "route", "ack"}

Fault == faults < MaxFaults /\ faults' = faults + 1

-----------------------------------------------------------------------------
(* Mutants of a definition D are named D_<what went wrong>. *)

(* A business transaction commits its mutation together with the row. *)
Publish(e) ==
  /\ status[e] = "absent"
  /\ status' = [status EXCEPT ![e] = "pending"]
  /\ UNCHANGED <<pc, batch, workerVars, job, faults, enqueued>>

-----------------------------------------------------------------------------
(* The relay *)

(* ORDER BY created_at ASC LIMIT BATCH_SIZE *)
FirstRows(rows) == {e \in rows : Cardinality({f \in rows : f < e}) < BatchSize}

(* SKIP LOCKED leaves out rows a concurrent statement of another replica   *)
(* holds: rows of its own SELECT or the one it is updating.  The SELECT    *)
(* runs in autocommit, so it holds nothing once it has returned.           *)
SelectPending(r) ==
  /\ pc[r] = "sleep"
  /\ \E locked \in SUBSET UNION {batch[q] : q \in Replicas \ {r}} :
       LET rows == FirstRows({e \in Events : status[e] = "pending"} \ locked)
       IN  /\ rows # {}
           /\ batch' = [batch EXCEPT ![r] = rows]
  /\ pc' = [pc EXCEPT ![r] = "add"]
  /\ UNCHANGED <<status, workerVars, job, faults, enqueued>>

Current(r, e) == e \in batch[r] /\ \A f \in batch[r] : e <= f

NextRow_NeverSleeps(r, e) ==
  /\ batch' = [batch EXCEPT ![r] = @ \ {e}]
  /\ pc' = [pc EXCEPT ![r] = "add"]

(* The loop goes on with the next row, or the tick ends. *)
NextRow(r, e) ==
  /\ batch' = [batch EXCEPT ![r] = @ \ {e}]
  /\ pc' = [pc EXCEPT ![r] = IF batch[r] = {e} THEN "sleep" ELSE "add"]

(* No jobId: every add makes a job (job ids reused here for the new one). *)
AddJob_NoJobId(e) ==
  /\ job' = [job EXCEPT ![e] = IF @ = "active" THEN @ ELSE "waiting"]
  /\ enqueued' = [enqueued EXCEPT ![e] = @ + 1]
  /\ UNCHANGED workerVars

(* eventsQueue.add with jobId: row.id *)
AddJob(e) ==
  /\ job' = Enqueue(job, e)
  /\ IF job[e] = "none"
     THEN /\ enqueued' = [enqueued EXCEPT ![e] = @ + 1]
          /\ tries' = [tries EXCEPT ![e] = 0]
          /\ stalled' = stalled \ {e}
     ELSE UNCHANGED <<enqueued, tries, stalled>>
  /\ UNCHANGED <<step, lost, handed, endVars, effectVars>>

AddOk(r, e) ==
  /\ pc[r] = "add" /\ Current(r, e)
  /\ AddJob(e)
  /\ pc' = [pc EXCEPT ![r] = "mark"]
  /\ UNCHANGED <<status, batch, faults>>

(* The error is logged and the row marked all the same. *)
AddError_Swallowed(r, e) ==
  /\ pc[r] = "add" /\ Current(r, e)
  /\ Fault
  /\ pc' = [pc EXCEPT ![r] = "mark"]
  /\ UNCHANGED <<status, batch, job, enqueued, workerVars>>

(* The add throws.  Redis may have stored the job before the error. *)
AddError(r, e) ==
  /\ pc[r] = "add" /\ Current(r, e)
  /\ Fault
  /\ \/ AddJob(e)
     \/ UNCHANGED <<job, enqueued, workerVars>>
  /\ pc' = [pc EXCEPT ![r] = "fail"]
  /\ UNCHANGED <<status, batch>>

MarkCompleted(r, e) ==
  /\ pc[r] = "mark" /\ Current(r, e)
  /\ status' = [status EXCEPT ![e] = "completed"]
  /\ NextRow(r, e)
  /\ UNCHANGED <<workerVars, job, faults, enqueued>>

(* The same catch block covers the UPDATE after a successful add. *)
MarkError(r, e) ==
  /\ pc[r] = "mark" /\ Current(r, e)
  /\ Fault
  /\ pc' = [pc EXCEPT ![r] = "fail"]
  /\ UNCHANGED <<status, batch, workerVars, job, enqueued>>

(* Unguarded: it also overwrites the 'completed' of another replica. *)
MarkFailed(r, e) ==
  /\ pc[r] = "fail" /\ Current(r, e)
  /\ status' = [status EXCEPT ![e] = "failed"]
  /\ NextRow(r, e)
  /\ UNCHANGED <<workerVars, job, faults, enqueued>>

(* An error in the catch block ends the tick; a crash or a shutdown ends   *)
(* it anywhere.  Rows not yet dealt with keep their status.                *)
AbortTick(r) ==
  /\ pc[r] # "sleep"
  /\ Fault
  /\ batch' = [batch EXCEPT ![r] = {}]
  /\ pc' = [pc EXCEPT ![r] = "sleep"]
  /\ UNCHANGED <<status, workerVars, job, enqueued>>

-----------------------------------------------------------------------------
(* The worker's events queue *)

TakeJob(e) ==
  /\ job[e] = "waiting"
  /\ job' = Move(job, e, "active")
  /\ step' = [step EXCEPT ![e] = "fanout"]
  /\ handed' = [handed EXCEPT ![e] = @ + 1]
  /\ UNCHANGED <<relayVars, tries, stalled, lost, endVars, effectVars, faults, enqueued>>

(* fanoutNotifications never throws: ON CONFLICT DO NOTHING on             *)
(* (outbox_event_id, user_id, type), and a failure is only logged.  Its    *)
(* time limit does not cancel the transaction; nothing here reads the      *)
(* rows, so a late commit is folded into this step.                        *)
RunFanout(e) ==
  /\ \/ notified' = notified \cup {e} /\ UNCHANGED faults
     \/ Fault /\ UNCHANGED notified
  /\ UNCHANGED <<child, handled>>

Fanout(e) ==
  /\ job[e] = "active" /\ step[e] = "fanout"
  /\ RunFanout(e)
  /\ step' = [step EXCEPT ![e] = "route"]
  /\ UNCHANGED <<relayVars, job, tries, stalled, lost, handed, endVars, enqueued>>

(* The switch over the routing decision: one child enqueue, or one e-mail. *)
RunHandler(e) ==
  /\ child' = IF e \in InlineEvents THEN child ELSE Enqueue(child, e)
  /\ handled' = [handled EXCEPT ![e] = @ + 1]
  /\ UNCHANGED notified

Route(e) ==
  /\ job[e] = "active" /\ step[e] = "route"
  /\ RunHandler(e)
  /\ step' = [step EXCEPT ![e] = "ack"]
  /\ UNCHANGED <<relayVars, job, tries, stalled, lost, handed, endVars, faults, enqueued>>

(* A run that lost its lock need not know: if its process lives it goes on *)
(* beside the next hand-out, or after its job has failed.  Its last word   *)
(* to the queue, success or error, is refused for want of the lock.        *)
LostFanout(e) ==
  /\ lost[e].fanout > 0
  /\ RunFanout(e)
  /\ lost' = [lost EXCEPT ![e] = [fanout |-> @.fanout - 1, route |-> @.route + 1]]
  /\ UNCHANGED <<relayVars, job, tries, stalled, step, handed, endVars, enqueued>>

LostRoute(e) ==
  /\ lost[e].route > 0
  /\ RunHandler(e)
  /\ lost' = [lost EXCEPT ![e].route = @ - 1]
  /\ UNCHANGED <<relayVars, job, tries, stalled, step, handed, endVars, faults, enqueued>>

(* Retention: at most Keep terminal jobs of a kind stay, the newest ones. *)
Keep(outcome) == IF outcome = "completed" THEN KeepCompleted ELSE KeepFailed

Evicted(outcome) == {f \in Events : job[f] = outcome /\ age[f] + 1 >= Keep(outcome)}

EndJob(e, outcome) ==
  /\ job' = [f \in Events |-> IF f = e THEN outcome
                              ELSE IF f \in Evicted(outcome) THEN "none" ELSE job[f]]
  /\ age' = [f \in Events |-> IF f = e \/ f \in Evicted(outcome) THEN 0
                              ELSE IF job[f] = outcome THEN age[f] + 1 ELSE age[f]]
  /\ ended' = ended + 1
  /\ firstEnd' = IF firstEnd[e] = 0 THEN [firstEnd EXCEPT ![e] = ended + 1] ELSE firstEnd

Complete(e) ==
  /\ job[e] = "active" /\ step[e] = "ack"
  /\ EndJob(e, "completed")
  /\ UNCHANGED <<relayVars, tries, stalled, step, lost, handed, effectVars, faults, enqueued>>

(* The enqueue or the mail call throws, with or without having had its     *)
(* effect: the job is retried until its attempts are used up.              *)
HandlerThrows(e) ==
  /\ job[e] = "active" /\ step[e] \in {"route", "ack"}
  /\ Fault
  /\ tries' = [tries EXCEPT ![e] = @ + 1]
  /\ IF tries[e] + 1 < Attempts
     THEN job' = Move(job, e, "waiting") /\ UNCHANGED endVars
     ELSE EndJob(e, "failed")
  /\ UNCHANGED <<relayVars, stalled, step, lost, handed, effectVars, enqueued>>

(* The worker dies, or is too busy to renew the lock: BullMQ finds the job *)
(* stalled, runs it again the first time (maxStalledCount 1) and then      *)
(* fails it.  The run it took for dead is left to LostFanout and LostRoute *)
(* and does nothing more if it really died.                                *)
Stall(e) ==
  /\ job[e] = "active"
  /\ Fault
  /\ stalled' = stalled \cup {e}
  /\ lost' = CASE step[e] = "fanout" -> [lost EXCEPT ![e].fanout = @ + 1]
               [] step[e] = "route"  -> [lost EXCEPT ![e].route = @ + 1]
               [] step[e] = "ack"    -> lost
  /\ IF e \notin stalled
     THEN job' = Move(job, e, "waiting") /\ UNCHANGED endVars
     ELSE EndJob(e, "failed")
  /\ UNCHANGED <<relayVars, tries, step, handed, effectVars, enqueued>>

-----------------------------------------------------------------------------
Init ==
  /\ status = [e \in Events |-> "absent"]
  /\ pc = [r \in Replicas |-> "sleep"]
  /\ batch = [r \in Replicas |-> {}]
  /\ job = EmptyQueue(Events)
  /\ child = EmptyQueue(Events)
  /\ tries = [e \in Events |-> 0]
  /\ stalled = {}
  /\ step = [e \in Events |-> "fanout"]
  /\ lost = [e \in Events |-> [fanout |-> 0, route |-> 0]]
  /\ age = [e \in Events |-> 0]
  /\ notified = {}
  /\ faults = 0
  /\ enqueued = [e \in Events |-> 0]
  /\ handed = [e \in Events |-> 0]
  /\ handled = [e \in Events |-> 0]
  /\ ended = 0
  /\ firstEnd = [e \in Events |-> 0]

RelayStep(r) ==
  \/ SelectPending(r)
  \/ AbortTick(r)
  \/ \E e \in Events : AddOk(r, e) \/ AddError(r, e) \/ MarkCompleted(r, e)
                       \/ MarkError(r, e) \/ MarkFailed(r, e)

WorkerStep(e) ==
  \/ TakeJob(e) \/ Fanout(e) \/ Route(e) \/ Complete(e) \/ HandlerThrows(e) \/ Stall(e)
  \/ LostFanout(e) \/ LostRoute(e)

Next ==
  \/ \E e \in Events : Publish(e) \/ WorkerStep(e)
  \/ \E r \in Replicas : RelayStep(r)

(* The relay loop polls every OUTBOX_POLL_INTERVAL_MS and awaits each step *)
(* of its tick; BullMQ hands out every waiting job.  Publishing is not     *)
(* fair, and neither are faults nor what a run does that lost its lock.    *)
RelayProgress(r) ==
  \/ SelectPending(r)
  \/ \E e \in Events : AddOk(r, e) \/ MarkCompleted(r, e) \/ MarkFailed(r, e)

WorkerProgress(e) == TakeJob(e) \/ Fanout(e) \/ Route(e) \/ Complete(e)

Fairness ==
  /\ \A r \in Replicas : WF_vars(RelayProgress(r))
  /\ \A e \in Events : WF_vars(WorkerProgress(e))

Spec == Init /\ [][Next]_vars
FairSpec == Spec /\ Fairness

-----------------------------------------------------------------------------
TypeOK ==
  /\ status \in [Events -> RowStatus]
  /\ pc \in [Replicas -> RelayPc]
  /\ batch \in [Replicas -> SUBSET Events]
  /\ job \in [Events -> JobState]
  /\ child \in [Events -> JobState]
  /\ tries \in [Events -> Nat]
  /\ stalled \subseteq Events
  /\ step \in [Events -> HandlerStep]
  /\ lost \in [Events -> [fanout : Nat, route : Nat]]
  /\ age \in [Events -> Nat]
  /\ notified \subseteq Events
  /\ faults \in Nat
  /\ enqueued \in [Events -> Nat]
  /\ handed \in [Events -> Nat]
  /\ handled \in [Events -> Nat]
  /\ ended \in Nat
  /\ firstEnd \in [Events -> Nat]

(* A row leaves 'pending' for 'completed' only after the queue accepted    *)
(* its job, whichever replica writes the status and however the ticks of   *)
(* the replicas, their errors and their restarts interleave.               *)
CompletedWasEnqueued ==
  \A e \in Events : status[e] = "completed" => enqueued[e] > 0

(* Everything that happens downstream (jobs, notifications, child jobs,    *)
(* e-mails) belongs to an event whose transaction committed, and a side    *)
(* effect only follows a job.                                              *)
NothingFromNowhere ==
  \A e \in Events :
    /\ status[e] = "absent" => enqueued[e] = 0 /\ e \notin notified
    /\ handled[e] > 0 \/ child[e] # "none" => enqueued[e] > 0

(* The window of jobId deduplication: for an event to be enqueued a second *)
(* time, its first job must have ended and been pushed out of the retained *)
(* jobs by at least as many later ones as the smaller retention limit.     *)
RedeliveryNeedsEviction ==
  \A e \in Events : enqueued[e] > 1 =>
    /\ firstEnd[e] > 0
    /\ \/ ended - firstEnd[e] >= KeepCompleted
       \/ ended - firstEnd[e] >= KeepFailed

(* Attempts, and one more hand-out for the one stall that is forgiven. *)
HandoutsPerJob == Attempts + 1

Seen(state) ==
  CASE state = "none" -> "none"
    [] state \in {"waiting", "active"} -> "open"
    [] state = "completed" -> "done"
    [] state = "failed" -> "failed"

(* The relay, the queue and the worker together implement EventDelivery:   *)
(* whatever replicas, ticks, retries and runs without a lock overlap, no   *)
(* job exists for a row that was not committed, no row is marked completed *)
(* without a job, every effect is that of a hand-out of its own, and no    *)
(* job gets more hand-outs than its attempts and one forgiven stall.       *)
Delivery ==
  INSTANCE EventDelivery
    WITH row <- status, queue <- [e \in Events |-> Seen(job[e])], accepted <- enqueued,
         effects <- handled
ImplementsDelivery == Delivery!Spec

(* Neither a pending row nor a live job will bring the event any further. *)
Stranded(e) == job[e] = "failed" \/ (job[e] = "none" /\ status[e] # "pending")

(* No event stays in transit for ever: it is handled, or its row or its    *)
(* job ends up failed.                                                     *)
EventuallySettled ==
  \A e \in Events : status[e] = "pending" ~> (handled[e] > 0 \/ Stranded(e))

=============================================================================
