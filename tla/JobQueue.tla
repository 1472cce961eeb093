------------------------------ MODULE JobQueue ------------------------------
(***************************************************************************)
(* BullMQ as this repository uses it (an external library).  A queue is a  *)
(* function from job ids to the state of the job with that id.  Queue.add  *)
(* with an explicit jobId is ignored while a job with that id still exists *)
(* in any state, terminal states included; a job leaves the queue only     *)
(* through the removeOnComplete / removeOnFail retention limits.           *)
(*                                                                         *)
(* A queue created without defaultJobOptions, and an add without options,  *)
(* gives its jobs one attempt and keeps terminal jobs for ever.            *)
(***************************************************************************)
EXTENDS Naturals

(* "none" is the absence of a job with the id. *)
JobState == {"none", "waiting", "active", "completed", "failed"}

Terminal == {"completed", "failed"}

EmptyQueue(Ids) == [id \in Ids |-> "none"]

(* Queue.add(..., {jobId: id}): a no-op when the id is taken. *)
Enqueue(queue, id) ==
  IF queue[id] = "none" THEN [queue EXCEPT ![id] = "waiting"] ELSE queue

Move(queue, id, state) == [queue EXCEPT ![id] = state]

=============================================================================
