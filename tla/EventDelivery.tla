--------------------------- MODULE EventDelivery ----------------------------
(***************************************************************************)
(* What the transactional outbox promises to the rest of the system, with  *)
(* no relay, replica, attempt or lock in sight.  A domain event is a row   *)
(* published in the transaction of the mutation it describes.  A job is    *)
(* only ever accepted for a published event, and one at a time; a row is   *)
(* marked completed only when a job was accepted for it.  An effect is the *)
(* effect of one hand-out of a job, and a job is handed out a bounded      *)
(* number of times: an event may be handled more than once, by a retry or  *)
(* by a run that outlived its lock (then even after its job failed), but   *)
(* every repetition is a hand-out the queue made.  A job only ends done    *)
(* when the event was handled.                                             *)
(***************************************************************************)
EXTENDS Naturals

CONSTANTS
  Events,
  HandoutsPerJob   \* how often the queue hands out one job at most

VARIABLES
  row,       \* the outbox rows
  queue,     \* the job of each event
  accepted,  \* jobs accepted for the event so far
  handed,    \* hand-outs of its jobs so far
  effects    \* times it was handled so far

vars == <<row, queue, accepted, handed, effects>>

Publish(e) ==
  /\ row[e] = "absent"
  /\ row' = [row EXCEPT ![e] = "pending"]
  /\ UNCHANGED <<queue, accepted, handed, effects>>

Accept(e) ==
  /\ row[e] # "absent" /\ queue[e] = "none"
  /\ queue' = [queue EXCEPT ![e] = "open"]
  /\ accepted' = [accepted EXCEPT ![e] = @ + 1]
  /\ UNCHANGED <<row, handed, effects>>

(* The writers of the row are not coordinated: each writes its own result. *)
Mark(e, result) ==
  /\ row[e] # "absent"
  /\ result = "completed" => accepted[e] > 0
  /\ row' = [row EXCEPT ![e] = result]
  /\ UNCHANGED <<queue, accepted, handed, effects>>

HandOut(e) ==
  /\ queue[e] = "open"
  /\ handed[e] < accepted[e] * HandoutsPerJob
  /\ handed' = [handed EXCEPT ![e] = @ + 1]
  /\ UNCHANGED <<row, queue, accepted, effects>>

Effect(e) ==
  /\ effects[e] < handed[e]
  /\ effects' = [effects EXCEPT ![e] = @ + 1]
  /\ UNCHANGED <<row, queue, accepted, handed>>

(* A job that ends may push out jobs that ended the same way before. *)
End(e, outcome) ==
  /\ queue[e] = "open"
  /\ outcome = "done" => effects[e] > 0
  /\ \E gone \in SUBSET {f \in Events : queue[f] = outcome} :
       queue' = [f \in Events |-> IF f = e THEN outcome ELSE IF f \in gone THEN "none" ELSE queue[f]]
  /\ UNCHANGED <<row, accepted, handed, effects>>

Init ==
  /\ row = [e \in Events |-> "absent"] /\ queue = [e \in Events |-> "none"]
  /\ accepted = [e \in Events |-> 0]
  /\ handed = [e \in Events |-> 0] /\ effects = [e \in Events |-> 0]

Next ==
  \E e \in Events :
    \/ Publish(e) \/ Accept(e) \/ HandOut(e) \/ Effect(e)
    \/ \E result \in {"completed", "failed"} : Mark(e, result)
    \/ \E outcome \in {"done", "failed"} : End(e, outcome)

Spec == Init /\ [][Next]_vars

=============================================================================
