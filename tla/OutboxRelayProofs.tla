-------------------------- MODULE OutboxRelayProofs -------------------------
(***************************************************************************)
(* Proofs about the outbox relay for any number of events and replicas,    *)
(* any batch size, attempts and retention limits, and any number of        *)
(* faults.  IInv is inductive; each of its parts serves one property.      *)
(***************************************************************************)
EXTENDS OutboxRelay, Integers, TLAPS

(* What NothingFromNowhere rests on: an event without a job ever accepted  *)
(* has left no trace in the queues, and a relay only holds committed rows. *)
OriginInv ==
  /\ \A e \in Events : status[e] = "absent" => enqueued[e] = 0 /\ e \notin notified
  /\ \A e \in Events : enqueued[e] = 0 =>
       /\ job[e] = "none" /\ child[e] = "none" /\ handled[e] = 0
       /\ lost[e].fanout = 0 /\ lost[e].route = 0
  /\ \A r \in Replicas : \A e \in batch[r] : status[e] # "absent"

(* What CompletedWasEnqueued rests on: a replica about to write the status *)
(* has seen the queue accept (or already hold) the job of its row.         *)
MarkInv ==
  /\ CompletedWasEnqueued
  /\ \A r \in Replicas, e \in Events : pc[r] = "mark" /\ Current(r, e) => enqueued[e] > 0

(* What RedeliveryNeedsEviction rests on: a terminal job's age never       *)
(* exceeds the jobs that ended since the event's first one did, and only   *)
(* a job old enough for its retention limit has disappeared.               *)
LongGone(e) ==
  /\ firstEnd[e] > 0
  /\ \/ ended >= firstEnd[e] + KeepCompleted
     \/ ended >= firstEnd[e] + KeepFailed

EvictionInv ==
  \A e \in Events :
    /\ firstEnd[e] <= ended
    /\ job[e] \in Terminal => firstEnd[e] > 0 /\ ended >= firstEnd[e] + age[e]
    /\ job[e] = "none" /\ enqueued[e] > 0 => LongGone(e)
    /\ enqueued[e] > 1 => LongGone(e)

IInv == TypeOK /\ OriginInv /\ MarkInv /\ EvictionInv

(* Every initial state satisfies the inductive invariant. *)
LEMMA InitIInv == Init => IInv
<1> SUFFICES ASSUME Init PROVE IInv
  OBVIOUS
<1> USE EventsAssumption, LimitsAssumption DEF Init, EmptyQueue
<1>1. TypeOK
  BY DEF TypeOK, RowStatus, RelayPc, JobState, HandlerStep
<1>2. OriginInv
  BY DEF OriginInv
<1>3. MarkInv
  BY DEF MarkInv, CompletedWasEnqueued
<1>4. EvictionInv
  BY DEF EvictionInv, Terminal
<1> QED BY <1>1, <1>2, <1>3, <1>4 DEF IInv

(* Publishing touches only a row that no relay and no queue knows. *)
LEMMA PublishIInv == ASSUME IInv, NEW e \in Events, Publish(e) PROVE IInv'
<1> USE EventsAssumption, LimitsAssumption DEF IInv, Publish, workerVars, endVars, effectVars
<1>1. TypeOK'
  BY DEF TypeOK, RowStatus, RelayPc, JobState, HandlerStep
<1>2. OriginInv'
  BY DEF TypeOK, OriginInv
<1>3. MarkInv'
  BY DEF TypeOK, MarkInv, CompletedWasEnqueued, Current
<1>4. EvictionInv'
  BY DEF EvictionInv, LongGone
<1> QED BY <1>1, <1>2, <1>3, <1>4

(* What AddJob does to one queue: only event e changes, and afterwards the *)
(* queue holds a job for it that it has accepted at some time.             *)
LEMMA AddJobIInv ==
  ASSUME IInv, NEW e \in Events, AddJob(e), status[e] # "absent",
         UNCHANGED <<status, batch>>
  PROVE  /\ job' \in [Events -> JobState] /\ enqueued' \in [Events -> Nat]
         /\ tries' \in [Events -> Nat] /\ stalled' \subseteq Events
         /\ enqueued'[e] > 0
         /\ \A f \in Events : enqueued'[f] >= enqueued[f]
         /\ OriginInv' /\ EvictionInv'
<1> USE EventsAssumption, LimitsAssumption
        DEF IInv, AddJob, Enqueue, TypeOK, JobState, Terminal, endVars, effectVars
<1>1. job' \in [Events -> JobState] /\ enqueued' \in [Events -> Nat]
      /\ tries' \in [Events -> Nat] /\ stalled' \subseteq Events
  <2>1. CASE job[e] = "none"
    <3>1. job' = [job EXCEPT ![e] = "waiting"]
      BY <2>1
    <3>2. /\ enqueued' = [enqueued EXCEPT ![e] = @ + 1]
          /\ tries' = [tries EXCEPT ![e] = 0]
          /\ stalled' = stalled \ {e}
      BY <2>1
    <3> HIDE DEF AddJob
    <3> QED BY <3>1, <3>2
  <2>2. CASE job[e] # "none"
    BY <2>2
  <2> QED BY <2>1, <2>2
<1>2. enqueued'[e] > 0
  BY DEF OriginInv
<1>3. \A f \in Events : enqueued'[f] >= enqueued[f]
  OBVIOUS
<1>4. OriginInv'
  BY <1>3 DEF OriginInv
<1>5. EvictionInv'
  <2>1. CASE job[e] = "none"
    BY <2>1 DEF EvictionInv, LongGone
  <2>2. CASE job[e] # "none"
    <3>1. UNCHANGED <<job, enqueued>>
      BY <2>2
    <3> QED BY <3>1 DEF EvictionInv, LongGone
  <2> QED BY <2>1, <2>2
<1> QED BY <1>1, <1>2, <1>3, <1>4, <1>5

(* A replica works on one row at a time: the oldest one of its batch. *)
LEMMA CurrentIsUnique ==
  ASSUME NEW r \in Replicas, NEW e \in Events, NEW f \in Events, TypeOK,
         Current(r, e), Current(r, f)
  PROVE  e = f
<1>1. e \in Nat /\ f \in Nat /\ e <= f /\ f <= e
  BY EventsAssumption DEF Current, TypeOK
<1> QED BY <1>1

(* The steps of a relay replica preserve the inductive invariant. *)
LEMMA RelayIInv == ASSUME IInv, NEW r \in Replicas, RelayStep(r) PROVE IInv'
<1> USE EventsAssumption, LimitsAssumption DEF IInv
<1>1. CASE SelectPending(r)
  <2> USE <1>1 DEF SelectPending, workerVars, endVars, effectVars
  <2>0. PICK rows \in SUBSET Events :
          /\ batch' = [batch EXCEPT ![r] = rows]
          /\ \A e \in rows : status[e] = "pending"
    BY DEF FirstRows
  <2>1. TypeOK'
    BY <2>0 DEF TypeOK, RelayPc
  <2>2. OriginInv'
    BY <2>0 DEF TypeOK, OriginInv
  <2>3. MarkInv'
    BY <2>0 DEF TypeOK, MarkInv, CompletedWasEnqueued, Current
  <2>4. EvictionInv'
    BY DEF EvictionInv, LongGone
  <2> QED BY <2>1, <2>2, <2>3, <2>4
<1>2. CASE AbortTick(r)
  <2> USE <1>2 DEF AbortTick, Fault, workerVars, endVars, effectVars
  <2>1. TypeOK'
    BY DEF TypeOK, RelayPc
  <2>2. OriginInv'
    BY DEF TypeOK, OriginInv
  <2>3. MarkInv'
    BY DEF TypeOK, MarkInv, CompletedWasEnqueued, Current
  <2>4. EvictionInv'
    BY DEF EvictionInv, LongGone
  <2> QED BY <2>1, <2>2, <2>3, <2>4
<1>3. ASSUME NEW e \in Events, AddOk(r, e) PROVE IInv'
  <2> USE <1>3 DEF AddOk
  <2>1. status[e] # "absent"
    BY DEF OriginInv, Current
  <2>2. /\ job' \in [Events -> JobState] /\ enqueued' \in [Events -> Nat]
        /\ tries' \in [Events -> Nat] /\ stalled' \subseteq Events
        /\ enqueued'[e] > 0
        /\ \A f \in Events : enqueued'[f] >= enqueued[f]
        /\ OriginInv' /\ EvictionInv'
    BY <2>1, AddJobIInv
  <2>3. TypeOK'
    BY <2>2 DEF TypeOK, RelayPc, AddJob, endVars, effectVars
  <2>4. MarkInv'
    <3>1. \A f \in Events : Current(r, f) => f = e
      BY CurrentIsUnique
    <3>2. CompletedWasEnqueued'
      BY <2>2 DEF MarkInv, CompletedWasEnqueued, TypeOK
    <3>3. ASSUME NEW q \in Replicas, NEW f \in Events, pc'[q] = "mark", Current(q, f)'
          PROVE  enqueued'[f] > 0
      <4>1. Current(q, f)
        BY <3>3 DEF Current
      <4>2. CASE q = r
        BY <3>1, <4>1, <4>2, <2>2
      <4>3. CASE q # r
        BY <4>1, <4>3, <3>3, <2>2 DEF MarkInv, TypeOK
      <4> QED BY <4>2, <4>3
    <3> QED BY <3>2, <3>3 DEF MarkInv
  <2> QED BY <2>2, <2>3, <2>4
<1>4. ASSUME NEW e \in Events, AddError(r, e) PROVE IInv'
  <2> USE <1>4 DEF AddError, Fault
  <2>1. status[e] # "absent"
    BY DEF OriginInv, Current
  <2>2. /\ job' \in [Events -> JobState] /\ enqueued' \in [Events -> Nat]
        /\ tries' \in [Events -> Nat] /\ stalled' \subseteq Events
        /\ \A f \in Events : enqueued'[f] >= enqueued[f]
        /\ OriginInv' /\ EvictionInv'
    <3>1. CASE AddJob(e)
      BY <2>1, <3>1, AddJobIInv
    <3>2. CASE UNCHANGED <<job, enqueued, workerVars>>
      BY <3>2 DEF TypeOK, OriginInv, EvictionInv, LongGone, workerVars, endVars, effectVars
    <3> QED BY <3>1, <3>2
  <2>3. TypeOK'
    <3>1. UNCHANGED <<step, lost, handed, age, notified, child, handled, ended, firstEnd, status, batch>>
      BY DEF AddJob, workerVars, endVars, effectVars
    <3>2. faults' \in Nat /\ pc' \in [Replicas -> RelayPc]
      BY DEF TypeOK, RelayPc
    <3> HIDE <1>4
    <3> QED BY <2>2, <3>1, <3>2 DEF TypeOK
  <2>4. MarkInv'
    BY <2>2 DEF TypeOK, MarkInv, CompletedWasEnqueued, Current
  <2> QED BY <2>2, <2>3, <2>4
<1>5. ASSUME NEW e \in Events, MarkCompleted(r, e) PROVE IInv'
  <2> USE <1>5 DEF MarkCompleted, NextRow, workerVars, endVars, effectVars
  <2>1. TypeOK'
    BY DEF TypeOK, RelayPc, RowStatus
  <2>2. OriginInv'
    BY DEF TypeOK, OriginInv, Current
  <2>3. MarkInv'
    BY DEF TypeOK, MarkInv, CompletedWasEnqueued, Current
  <2>4. EvictionInv'
    BY DEF EvictionInv, LongGone
  <2> QED BY <2>1, <2>2, <2>3, <2>4
<1>6. ASSUME NEW e \in Events, MarkError(r, e) PROVE IInv'
  <2> USE <1>6 DEF MarkError, Fault, workerVars, endVars, effectVars
  <2>1. TypeOK'
    BY DEF TypeOK, RelayPc
  <2>2. OriginInv'
    BY DEF OriginInv
  <2>3. MarkInv'
    BY DEF TypeOK, MarkInv, CompletedWasEnqueued, Current
  <2>4. EvictionInv'
    BY DEF EvictionInv, LongGone
  <2> QED BY <2>1, <2>2, <2>3, <2>4
<1>7. ASSUME NEW e \in Events, MarkFailed(r, e) PROVE IInv'
  <2> USE <1>7 DEF MarkFailed, NextRow, workerVars, endVars, effectVars
  <2>1. TypeOK'
    BY DEF TypeOK, RelayPc, RowStatus
  <2>2. OriginInv'
    BY DEF TypeOK, OriginInv, Current
  <2>3. MarkInv'
    BY DEF TypeOK, MarkInv, CompletedWasEnqueued, Current
  <2>4. EvictionInv'
    BY DEF EvictionInv, LongGone
  <2> QED BY <2>1, <2>2, <2>3, <2>4
<1> QED BY <1>1, <1>2, <1>3, <1>4, <1>5, <1>6, <1>7 DEF RelayStep

(* A job that ends: it turns terminal, older jobs that ended the same way  *)
(* may be evicted, and every evicted one has stayed for its whole limit.   *)
LEMMA EndJobIInv ==
  ASSUME IInv, NEW e \in Events, job[e] = "active",
         NEW outcome \in Terminal, EndJob(e, outcome),
         UNCHANGED enqueued
  PROVE  /\ job' \in [Events -> JobState] /\ age' \in [Events -> Nat]
         /\ ended' \in Nat /\ firstEnd' \in [Events -> Nat]
         /\ \A f \in Events : job[f] = "none" => job'[f] = "none"
         /\ EvictionInv'
<1> USE EventsAssumption, LimitsAssumption DEF IInv, EndJob, Evicted, Keep, TypeOK, JobState
<1>1. job' \in [Events -> JobState] /\ age' \in [Events -> Nat]
      /\ ended' \in Nat /\ firstEnd' \in [Events -> Nat]
  BY DEF Terminal
<1>2. \A f \in Events : job[f] = "none" => job'[f] = "none"
  BY DEF Terminal
<1>3. ASSUME NEW f \in Events
      PROVE  /\ firstEnd'[f] <= ended'
             /\ job'[f] \in Terminal => firstEnd'[f] > 0 /\ ended' >= firstEnd'[f] + age'[f]
             /\ job'[f] = "none" /\ enqueued'[f] > 0 => LongGone(f)'
             /\ enqueued'[f] > 1 => LongGone(f)'
  <2>1. CASE f = e
    BY <2>1 DEF EvictionInv, LongGone, Terminal
  <2>2. CASE f # e /\ f \in Evicted(outcome)
    BY <2>2 DEF EvictionInv, LongGone, Terminal
  <2>3. CASE f # e /\ f \notin Evicted(outcome)
    <3>1. job'[f] = job[f] /\ firstEnd'[f] = firstEnd[f] /\ ended' = ended + 1
      BY <2>3
    <3>2. age'[f] = age[f] \/ age'[f] = age[f] + 1
      BY <2>3
    <3>3. firstEnd[f] \in Nat /\ age[f] \in Nat /\ ended \in Nat
      OBVIOUS
    <3> HIDE DEF EndJob, Evicted, Keep
    <3> QED BY <3>1, <3>2, <3>3 DEF EvictionInv, LongGone
  <2> QED BY <2>1, <2>2, <2>3
<1> QED BY <1>1, <1>2, <1>3 DEF EvictionInv

(* The steps of the worker on one job preserve the inductive invariant. *)
LEMMA WorkerIInv == ASSUME IInv, NEW e \in Events, WorkerStep(e) PROVE IInv'
<1> USE EventsAssumption, LimitsAssumption DEF IInv
<1>1. CASE TakeJob(e)
  <2> USE <1>1 DEF TakeJob, Move, relayVars, endVars, effectVars
  <2>1. TypeOK'
    BY DEF TypeOK, JobState, HandlerStep
  <2>2. OriginInv'
    BY DEF TypeOK, OriginInv
  <2>3. MarkInv'
    BY DEF MarkInv, CompletedWasEnqueued, Current
  <2>4. EvictionInv'
    BY DEF TypeOK, EvictionInv, LongGone, Terminal
  <2> QED BY <2>1, <2>2, <2>3, <2>4
<1>2. CASE Fanout(e)
  <2> USE <1>2 DEF Fanout, relayVars, endVars
  <2>1. notified' \subseteq notified \cup {e} /\ faults' \in Nat /\ UNCHANGED <<child, handled>>
    BY DEF RunFanout, Fault, TypeOK
  <2>2. TypeOK'
    BY <2>1 DEF TypeOK, HandlerStep
  <2>3. OriginInv'
    BY <2>1 DEF TypeOK, OriginInv
  <2>4. MarkInv'
    BY DEF MarkInv, CompletedWasEnqueued, Current
  <2>5. EvictionInv'
    BY DEF EvictionInv, LongGone
  <2> QED BY <2>2, <2>3, <2>4, <2>5
<1>3. CASE Route(e)
  <2> USE <1>3 DEF Route, RunHandler, Enqueue, relayVars, endVars
  <2>1. TypeOK'
    BY DEF TypeOK, JobState, HandlerStep
  <2>2. OriginInv'
    BY DEF TypeOK, OriginInv
  <2>3. MarkInv'
    BY DEF MarkInv, CompletedWasEnqueued, Current
  <2>4. EvictionInv'
    BY DEF EvictionInv, LongGone
  <2> QED BY <2>1, <2>2, <2>3, <2>4
<1>4. CASE Complete(e)
  <2> USE <1>4 DEF Complete, relayVars, effectVars
  <2>1. /\ job' \in [Events -> JobState] /\ age' \in [Events -> Nat]
        /\ ended' \in Nat /\ firstEnd' \in [Events -> Nat]
        /\ \A f \in Events : job[f] = "none" => job'[f] = "none"
        /\ EvictionInv'
    BY EndJobIInv DEF Terminal
  <2>2. TypeOK'
    BY <2>1 DEF TypeOK
  <2>3. OriginInv'
    BY <2>1 DEF OriginInv
  <2>4. MarkInv'
    BY DEF MarkInv, CompletedWasEnqueued, Current
  <2> QED BY <2>1, <2>2, <2>3, <2>4
<1>5. CASE HandlerThrows(e)
  <2> USE <1>5 DEF HandlerThrows, relayVars, effectVars
  <2>1. /\ job' \in [Events -> JobState] /\ age' \in [Events -> Nat]
        /\ ended' \in Nat /\ firstEnd' \in [Events -> Nat]
        /\ \A f \in Events : job[f] = "none" => job'[f] = "none"
        /\ EvictionInv'
    <3>1. CASE EndJob(e, "failed")
      BY <3>1, EndJobIInv DEF Terminal
    <3>2. CASE job' = Move(job, e, "waiting") /\ UNCHANGED endVars
      BY <3>2 DEF Move, TypeOK, JobState, EvictionInv, LongGone, Terminal, endVars
    <3> QED BY <3>1, <3>2
  <2>2. faults' \in Nat /\ tries' \in [Events -> Nat]
    BY DEF TypeOK, Fault
  <2>3. TypeOK'
    BY <2>1, <2>2 DEF TypeOK
  <2>4. OriginInv'
    BY <2>1 DEF OriginInv
  <2>5. MarkInv'
    BY DEF MarkInv, CompletedWasEnqueued, Current
  <2> QED BY <2>1, <2>3, <2>4, <2>5
<1>6. CASE Stall(e)
  <2> USE <1>6 DEF Stall, relayVars, effectVars
  <2>1. /\ job' \in [Events -> JobState] /\ age' \in [Events -> Nat]
        /\ ended' \in Nat /\ firstEnd' \in [Events -> Nat]
        /\ \A f \in Events : job[f] = "none" => job'[f] = "none"
        /\ EvictionInv'
    <3>1. CASE EndJob(e, "failed")
      BY <3>1, EndJobIInv DEF Terminal
    <3>2. CASE job' = Move(job, e, "waiting") /\ UNCHANGED endVars
      BY <3>2 DEF Move, TypeOK, JobState, EvictionInv, LongGone, Terminal, endVars
    <3> QED BY <3>1, <3>2
  <2>2. /\ lost' \in [Events -> [fanout : Nat, route : Nat]]
        /\ \A f \in Events \ {e} : lost'[f] = lost[f]
    BY DEF TypeOK, HandlerStep
  <2>3. faults' \in Nat /\ stalled' \subseteq Events
    BY DEF TypeOK, Fault
  <2>4. TypeOK'
    BY <2>1, <2>2, <2>3 DEF TypeOK
  <2>5. OriginInv'
    BY <2>1, <2>2 DEF OriginInv
  <2>6. MarkInv'
    BY DEF MarkInv, CompletedWasEnqueued, Current
  <2> QED BY <2>1, <2>4, <2>5, <2>6
<1>7. CASE LostFanout(e)
  <2> USE <1>7 DEF LostFanout, relayVars, endVars
  <2>1. notified' \subseteq notified \cup {e} /\ faults' \in Nat /\ UNCHANGED <<child, handled>>
    BY DEF RunFanout, Fault, TypeOK
  <2>2. /\ lost' \in [Events -> [fanout : Nat, route : Nat]]
        /\ \A f \in Events \ {e} : lost'[f] = lost[f]
    BY DEF TypeOK
  <2>3. enqueued[e] # 0
    BY DEF TypeOK, OriginInv
  <2>4. TypeOK'
    BY <2>1, <2>2 DEF TypeOK
  <2>5. OriginInv'
    BY <2>1, <2>2, <2>3 DEF TypeOK, OriginInv
  <2>6. MarkInv'
    BY DEF MarkInv, CompletedWasEnqueued, Current
  <2>7. EvictionInv'
    BY DEF EvictionInv, LongGone
  <2> QED BY <2>4, <2>5, <2>6, <2>7
<1>8. CASE LostRoute(e)
  <2> USE <1>8 DEF LostRoute, RunHandler, Enqueue, relayVars, endVars
  <2>1. /\ lost' \in [Events -> [fanout : Nat, route : Nat]]
        /\ \A f \in Events \ {e} : lost'[f] = lost[f]
    BY DEF TypeOK
  <2>2. enqueued[e] # 0
    BY DEF TypeOK, OriginInv
  <2>3. TypeOK'
    BY <2>1 DEF TypeOK, JobState
  <2>4. OriginInv'
    BY <2>1, <2>2 DEF TypeOK, OriginInv
  <2>5. MarkInv'
    BY DEF MarkInv, CompletedWasEnqueued, Current
  <2>6. EvictionInv'
    BY DEF EvictionInv, LongGone
  <2> QED BY <2>3, <2>4, <2>5, <2>6
<1> QED BY <1>1, <1>2, <1>3, <1>4, <1>5, <1>6, <1>7, <1>8 DEF WorkerStep

(* Every step preserves the inductive invariant. *)
LEMMA NextIInv == IInv /\ [Next]_vars => IInv'
<1> SUFFICES ASSUME IInv, [Next]_vars PROVE IInv'
  OBVIOUS
<1>1. CASE UNCHANGED vars
  BY <1>1 DEF vars, relayVars, workerVars, endVars, effectVars, IInv, TypeOK, OriginInv, MarkInv,
              CompletedWasEnqueued, Current, EvictionInv, LongGone
<1>2. CASE Next
  BY <1>2, PublishIInv, WorkerIInv, RelayIInv DEF Next
<1> QED BY <1>1, <1>2

(* The inductive invariant holds in every reachable state. *)
LEMMA Inductive == Spec => []IInv
  BY InitIInv, NextIInv, PTL DEF Spec

(* The state of the relay, the queue and the worker is well typed. *)
THEOREM TypeCorrect == Spec => []TypeOK
  BY Inductive, PTL DEF IInv

(* relayPendingEvents marks a row completed only after its add succeeded.  *)
THEOREM NoSilentCompletion == Spec => []CompletedWasEnqueued
  BY Inductive, PTL DEF IInv, MarkInv

(* Side effects exist only for committed, enqueued events. *)
THEOREM NoDualWrite == Spec => []NothingFromNowhere
<1>1. IInv => NothingFromNowhere
  BY DEF IInv, TypeOK, OriginInv, NothingFromNowhere
<1> QED BY <1>1, Inductive, PTL

(* The jobId deduplicates for as long as the first job is retained. *)
THEOREM DeduplicationWindow == Spec => []RedeliveryNeedsEviction
<1>1. IInv => RedeliveryNeedsEviction
  BY LimitsAssumption DEF IInv, TypeOK, EvictionInv, LongGone, RedeliveryNeedsEviction
<1> QED BY <1>1, Inductive, PTL

(***************************************************************************)
(* Hand-outs and effects.                                                  *)
(***************************************************************************)

(* What bounds the hand-outs: the attempts the current job has left, and   *)
(* the stall it may still be forgiven, are within what its event may have. *)
Forgiven(e) == IF e \in stalled THEN 0 ELSE 1

Left(e) ==
  IF job[e] = "waiting" THEN Attempts - tries[e] + Forgiven(e)
  ELSE IF job[e] = "active" THEN Attempts - tries[e] - 1 + Forgiven(e) ELSE 0

HandoutsBounded(e) ==
  /\ job[e] \in {"waiting", "active"} => tries[e] < Attempts
  /\ handed[e] + Left(e) <= enqueued[e] * HandoutsPerJob

(* What bounds the effects: every hand-out has one effect, which is past,  *)
(* or still to come from the run that holds the lock or from a lost one.   *)
ToCome(e) == IF job[e] = "active" /\ step[e] # "ack" THEN 1 ELSE 0

EffectsBounded(e) ==
  /\ handled[e] + lost[e].fanout + lost[e].route + ToCome(e) <= handed[e]
  /\ job[e] = "active" /\ step[e] = "ack" => handled[e] > 0

CountInv == \A e \in Events : HandoutsBounded(e) /\ EffectsBounded(e)

(* One more job allows an event as many more hand-outs as one job has. *)
LEMMA OneMoreJob ==
  \A n \in Nat : n * HandoutsPerJob \in Nat
                 /\ (n + 1) * HandoutsPerJob = n * HandoutsPerJob + Attempts + 1
  BY LimitsAssumption DEF HandoutsPerJob

(* The counts of one event in one state. *)
LEMMA CountTypes ==
  ASSUME TypeOK, NEW e \in Events
  PROVE  /\ handed[e] \in Nat /\ handled[e] \in Nat /\ tries[e] \in Nat /\ enqueued[e] \in Nat
         /\ lost[e].fanout \in Nat /\ lost[e].route \in Nat
         /\ Attempts \in Nat /\ Forgiven(e) \in 0..1
         /\ job[e] \in JobState /\ step[e] \in HandlerStep
  BY LimitsAssumption DEF TypeOK, Forgiven

(* A step that does not touch the event's counts keeps them bounded. *)
LEMMA CountFrame ==
  ASSUME NEW e \in Events, HandoutsBounded(e), EffectsBounded(e),
         job'[e] = job[e], tries'[e] = tries[e], Forgiven(e)' = Forgiven(e), step'[e] = step[e],
         lost'[e] = lost[e], enqueued'[e] = enqueued[e], handed'[e] = handed[e],
         handled'[e] = handled[e]
  PROVE  HandoutsBounded(e)' /\ EffectsBounded(e)'
  BY DEF HandoutsBounded, EffectsBounded, Left, ToCome

(* A job that ends, or is pushed out, gives up what it had left. *)
LEMMA CountEnd ==
  ASSUME IInv, NEW e \in Events, HandoutsBounded(e), EffectsBounded(e),
         job'[e] \notin {"waiting", "active"},
         enqueued'[e] = enqueued[e], handed'[e] = handed[e], handled'[e] = handled[e],
         lost'[e].fanout \in Nat, lost'[e].route \in Nat,
         lost'[e].fanout + lost'[e].route <= lost[e].fanout + lost[e].route + ToCome(e)
  PROVE  HandoutsBounded(e)' /\ EffectsBounded(e)'
<1>1. Left(e) >= 0 /\ ToCome(e) \in 0..1
  BY CountTypes, LimitsAssumption DEF IInv, Left, HandoutsBounded, ToCome
<1>2. enqueued[e] * HandoutsPerJob \in Nat
  BY OneMoreJob, CountTypes DEF IInv
<1>3. HandoutsBounded(e)'
  <2>1. Left(e)' = 0
    BY DEF Left
  <2>2. handed[e] + Left(e) <= enqueued[e] * HandoutsPerJob /\ handed[e] \in Nat /\ Left(e) \in Int
    BY CountTypes, LimitsAssumption DEF HandoutsBounded, Left, IInv
  <2>3. handed'[e] + 0 <= enqueued'[e] * HandoutsPerJob
    BY <1>1, <1>2, <2>2
  <2> QED BY <2>1, <2>3 DEF HandoutsBounded
<1>4. EffectsBounded(e)'
  BY <1>1, CountTypes DEF IInv, EffectsBounded, ToCome
<1> QED BY <1>3, <1>4

(* The counts stay bounded when the relay adds a job. *)
LEMMA CountAdd ==
  ASSUME IInv, NEW e \in Events, AddJob(e), NEW f \in Events, HandoutsBounded(f), EffectsBounded(f)
  PROVE  HandoutsBounded(f)' /\ EffectsBounded(f)'
<1>1. CASE f # e \/ job[e] # "none"
  <2>1. /\ job'[f] = job[f] /\ tries'[f] = tries[f] /\ Forgiven(f)' = Forgiven(f)
        /\ step'[f] = step[f] /\ lost'[f] = lost[f] /\ enqueued'[f] = enqueued[f]
        /\ handed'[f] = handed[f] /\ handled'[f] = handled[f]
    BY <1>1 DEF AddJob, Enqueue, IInv, TypeOK, Forgiven, effectVars
  <2> QED BY <2>1, CountFrame
<1>2. CASE f = e /\ job[e] = "none"
  <2>1. /\ job'[f] = "waiting" /\ tries'[f] = 0 /\ Forgiven(f)' = 1
        /\ enqueued'[f] = enqueued[f] + 1 /\ handed'[f] = handed[f]
        /\ lost'[f] = lost[f] /\ handled'[f] = handled[f]
    BY <1>2 DEF AddJob, Enqueue, IInv, TypeOK, Forgiven, effectVars
  <2>2. HandoutsBounded(f)'
    <3>1. handed[f] <= enqueued[f] * HandoutsPerJob
      BY <1>2, CountTypes DEF IInv, HandoutsBounded, Left
    <3>2. Left(f)' = Attempts + 1
      BY <2>1, CountTypes DEF IInv, Left
    <3>3. /\ enqueued[f] * HandoutsPerJob \in Nat
          /\ (enqueued[f] + 1) * HandoutsPerJob = enqueued[f] * HandoutsPerJob + Attempts + 1
      BY OneMoreJob, CountTypes DEF IInv
    <3>4. handed'[f] + (Attempts + 1) <= enqueued'[f] * HandoutsPerJob
      BY <2>1, <3>1, <3>3, CountTypes DEF IInv
    <3>5. tries'[f] < Attempts
      BY <2>1, LimitsAssumption
    <3> QED BY <3>2, <3>4, <3>5 DEF HandoutsBounded
  <2>3. EffectsBounded(f)'
    BY <1>2, <2>1, CountTypes DEF IInv, EffectsBounded, ToCome
  <2> QED BY <2>2, <2>3
<1> QED BY <1>1, <1>2

(* The counts of the event a worker step is about, and of the others. *)
LEMMA CountWorker ==
  ASSUME IInv, NEW e \in Events, WorkerStep(e),
         NEW f \in Events, HandoutsBounded(f), EffectsBounded(f)
  PROVE  HandoutsBounded(f)' /\ EffectsBounded(f)'
<1> USE CountTypes, LimitsAssumption DEF IInv, TypeOK, JobState
<1>1. CASE TakeJob(e)
  <2> USE <1>1 DEF TakeJob, Move, endVars, effectVars
  <2>1. CASE f # e
    BY <2>1, CountFrame DEF Forgiven
  <2>2. CASE f = e
    <3>1. /\ job[f] = "waiting" /\ job'[f] = "active" /\ step'[f] = "fanout"
          /\ tries'[f] = tries[f] /\ Forgiven(f)' = Forgiven(f) /\ handed'[f] = handed[f] + 1
          /\ enqueued'[f] = enqueued[f] /\ lost'[f] = lost[f] /\ handled'[f] = handled[f]
      BY <2>2 DEF Forgiven
    <3>2. Left(f)' = Left(f) - 1 /\ ToCome(f) = 0 /\ ToCome(f)' = 1 /\ Left(f) \in Int
      BY <3>1 DEF Left, ToCome
    <3>3. enqueued[f] * HandoutsPerJob \in Nat
      BY OneMoreJob
    <3> HIDE <1>1 DEF TakeJob
    <3>4. HandoutsBounded(f)'
      BY <3>1, <3>2, <3>3 DEF HandoutsBounded
    <3>5. EffectsBounded(f)'
      BY <3>1, <3>2 DEF EffectsBounded
    <3> QED BY <3>4, <3>5
  <2> QED BY <2>1, <2>2
<1>2. CASE Fanout(e)
  <2> USE <1>2 DEF Fanout, RunFanout, endVars
  <2>1. CASE f # e
    BY <2>1, CountFrame DEF Forgiven
  <2>2. CASE f = e
    BY <2>2 DEF HandoutsBounded, EffectsBounded, Left, Forgiven, ToCome
  <2> QED BY <2>1, <2>2
<1>3. CASE Route(e)
  <2> USE <1>3 DEF Route, RunHandler, endVars
  <2>1. CASE f # e
    BY <2>1, CountFrame DEF Forgiven
  <2>2. CASE f = e
    BY <2>2 DEF HandoutsBounded, EffectsBounded, Left, Forgiven, ToCome
  <2> QED BY <2>1, <2>2
<1>4. ASSUME NEW outcome \in Terminal, EndJob(e, outcome), job[e] = "active",
             UNCHANGED <<enqueued, handed, handled>>,
             \A g \in Events \ {e} :
               tries'[g] = tries[g] /\ Forgiven(g)' = Forgiven(g) /\ step'[g] = step[g] /\ lost'[g] = lost[g],
             lost'[e].fanout \in Nat, lost'[e].route \in Nat,
             lost'[e].fanout + lost'[e].route <= lost[e].fanout + lost[e].route + ToCome(e)
      PROVE  HandoutsBounded(f)' /\ EffectsBounded(f)'
  <2>1. CASE f = e
    <3>1. job'[f] = outcome
      BY <1>4, <2>1 DEF EndJob
    <3> QED BY <1>4, <2>1, <3>1, CountEnd DEF Terminal
  <2>2. CASE f # e /\ f \in Evicted(outcome)
    <3>1. job'[f] = "none" /\ lost'[f] = lost[f] /\ ToCome(f) = 0
      BY <1>4, <2>2 DEF EndJob, Evicted, ToCome, Terminal
    <3>2. lost'[f].fanout \in Nat /\ lost'[f].route \in Nat /\ job'[f] \notin {"waiting", "active"}
      BY <3>1
    <3>3. lost'[f].fanout + lost'[f].route <= lost[f].fanout + lost[f].route + ToCome(f)
      BY <3>1
    <3>4. enqueued'[f] = enqueued[f] /\ handed'[f] = handed[f] /\ handled'[f] = handled[f]
      BY <1>4
    <3> QED BY <3>2, <3>3, <3>4, CountEnd
  <2>3. CASE f # e /\ f \notin Evicted(outcome)
    <3>1. job'[f] = job[f]
      BY <1>4, <2>3 DEF EndJob
    <3> QED BY <1>4, <2>3, <3>1, CountFrame
  <2> QED BY <2>1, <2>2, <2>3
<1>5. CASE Complete(e)
  <2>1. ToCome(e) = 0 /\ EndJob(e, "completed") /\ job[e] = "active"
    BY <1>5 DEF Complete, ToCome
  <2>2. UNCHANGED <<enqueued, handed, handled, tries, stalled, step, lost>>
    BY <1>5 DEF Complete, effectVars
  <2>3. lost'[e].fanout + lost'[e].route <= lost[e].fanout + lost[e].route + ToCome(e)
    BY <2>1, <2>2
  <2>4. \A g \in Events \ {e} :
          tries'[g] = tries[g] /\ Forgiven(g)' = Forgiven(g) /\ step'[g] = step[g] /\ lost'[g] = lost[g]
    BY <2>2 DEF Forgiven
  <2>5. lost'[e].fanout \in Nat /\ lost'[e].route \in Nat
    BY <2>2
  <2> QED BY <1>4, <2>1, <2>2, <2>3, <2>4, <2>5 DEF Terminal
<1>6. CASE HandlerThrows(e)
  <2> USE <1>6 DEF HandlerThrows, effectVars
  <2>1. CASE tries[e] + 1 < Attempts
    <3>1. job' = [job EXCEPT ![e] = "waiting"]
      BY <2>1 DEF Move
    <3>2. CASE f # e
      BY <3>1, <3>2, CountFrame DEF Forgiven
    <3>3. CASE f = e
      <4>1. /\ tries'[f] = tries[f] + 1 /\ Forgiven(f)' = Forgiven(f) /\ job'[f] = "waiting"
            /\ job[f] = "active"
        BY <3>1, <3>3 DEF Forgiven
      <4>2. Left(f)' = Left(f)
        BY <4>1 DEF Left
      <4>3. HandoutsBounded(f)'
        BY <2>1, <3>3, <4>1, <4>2 DEF HandoutsBounded
      <4>4. EffectsBounded(f)'
        BY <4>1 DEF EffectsBounded, ToCome
      <4> QED BY <4>3, <4>4
    <3> QED BY <3>2, <3>3
  <2>2. CASE ~(tries[e] + 1 < Attempts)
    <3>1. EndJob(e, "failed") /\ job[e] = "active"
      BY <2>2
    <3>2. lost'[e].fanout + lost'[e].route <= lost[e].fanout + lost[e].route + ToCome(e)
      BY DEF ToCome
    <3>3. /\ UNCHANGED <<enqueued, handed, handled, stalled, step, lost>>
          /\ \A g \in Events \ {e} : tries'[g] = tries[g]
      OBVIOUS
    <3>4. \A g \in Events \ {e} :
            tries'[g] = tries[g] /\ Forgiven(g)' = Forgiven(g) /\ step'[g] = step[g] /\ lost'[g] = lost[g]
      BY <3>3 DEF Forgiven
    <3>5. lost'[e].fanout \in Nat /\ lost'[e].route \in Nat
      BY <3>3
    <3> HIDE <1>6
    <3> QED BY <1>4, <3>1, <3>2, <3>3, <3>4, <3>5 DEF Terminal
  <2> QED BY <2>1, <2>2
<1>7. CASE Stall(e)
  <2> USE <1>7 DEF Stall, effectVars
  <2>1. /\ \A g \in Events \ {e} : lost'[g] = lost[g]
        /\ lost'[e].fanout \in Nat /\ lost'[e].route \in Nat
        /\ lost'[e].fanout + lost'[e].route = lost[e].fanout + lost[e].route + ToCome(e)
    <3>0. /\ ToCome(e) = IF step[e] # "ack" THEN 1 ELSE 0
          /\ lost \in [Events -> [fanout : Nat, route : Nat]]
          /\ lost[e].fanout \in Nat /\ lost[e].route \in Nat
      BY DEF ToCome
    <3>1. CASE step[e] = "fanout"
      <4>1. lost' = [lost EXCEPT ![e].fanout = @ + 1]
        BY <3>1
      <4>2. /\ lost'[e].fanout = lost[e].fanout + 1 /\ lost'[e].route = lost[e].route
            /\ \A g \in Events \ {e} : lost'[g] = lost[g]
        BY ONLY <3>0, <4>1
      <4> QED BY ONLY <3>0, <3>1, <4>2
    <3>2. CASE step[e] = "route"
      <4>1. lost' = [lost EXCEPT ![e].route = @ + 1]
        BY <3>2
      <4>2. /\ lost'[e].route = lost[e].route + 1 /\ lost'[e].fanout = lost[e].fanout
            /\ \A g \in Events \ {e} : lost'[g] = lost[g]
        BY ONLY <3>0, <4>1
      <4> QED BY ONLY <3>0, <3>2, <4>2
    <3>3. CASE step[e] = "ack"
      <4>1. lost' = lost
        BY <3>3
      <4> QED BY ONLY <3>0, <3>3, <4>1
    <3> QED BY <3>1, <3>2, <3>3 DEF HandlerStep
  <2>2. CASE e \notin stalled
    <3>1. job' = [job EXCEPT ![e] = "waiting"]
      BY <2>2 DEF Move
    <3>2. CASE f # e
      BY <2>1, <3>1, <3>2, CountFrame DEF Forgiven
    <3>3. CASE f = e
      <4>1. /\ tries'[f] = tries[f] /\ Forgiven(f)' = 0 /\ Forgiven(f) = 1
            /\ job'[f] = "waiting" /\ job[f] = "active"
        BY <2>2, <3>1, <3>3 DEF Forgiven
      <4>2. Left(f)' = Left(f)
        BY <4>1 DEF Left
      <4>3. HandoutsBounded(f)'
        <5>1. enqueued'[f] = enqueued[f] /\ handed'[f] = handed[f]
          OBVIOUS
        <5> HIDE <1>7 DEF Stall
        <5> QED BY <4>1, <4>2, <5>1 DEF HandoutsBounded
      <4>4. ToCome(f)' = 0
        BY <4>1 DEF ToCome
      <4>5. /\ lost'[f].fanout \in Nat /\ lost'[f].route \in Nat /\ ToCome(f) \in 0..1
            /\ lost'[f].fanout + lost'[f].route = lost[f].fanout + lost[f].route + ToCome(f)
            /\ handled'[f] = handled[f] /\ handed'[f] = handed[f]
        <5>1. ToCome(f) \in 0..1
          BY DEF ToCome
        <5>2. handled'[f] = handled[f] /\ handed'[f] = handed[f]
          OBVIOUS
        <5> QED BY ONLY <2>1, <3>3, <5>1, <5>2
      <4> HIDE <1>7 DEF Stall
      <4>6. EffectsBounded(f)'
        BY <4>1, <4>4, <4>5 DEF EffectsBounded
      <4> QED BY <4>3, <4>6
    <3> QED BY <3>2, <3>3
  <2>3. CASE e \in stalled
    <3>1. EndJob(e, "failed") /\ job[e] = "active"
      BY <2>3
    <3>2. /\ UNCHANGED <<enqueued, handed, handled, tries, step>>
          /\ \A g \in Events : Forgiven(g)' = Forgiven(g)
      BY <2>3 DEF Forgiven
    <3> HIDE <1>7
    <3> QED BY <1>4, <2>1, <3>1, <3>2 DEF Terminal
  <2> QED BY <2>2, <2>3
<1>8. CASE LostFanout(e)
  <2> USE <1>8 DEF LostFanout, RunFanout, endVars
  <2>1. CASE f # e
    BY <2>1, CountFrame DEF Forgiven
  <2>2. CASE f = e
    BY <2>2 DEF HandoutsBounded, EffectsBounded, Left, Forgiven, ToCome
  <2> QED BY <2>1, <2>2
<1>9. CASE LostRoute(e)
  <2> USE <1>9 DEF LostRoute, RunHandler, endVars
  <2>1. CASE f # e
    BY <2>1, CountFrame DEF Forgiven
  <2>2. CASE f = e
    BY <2>2 DEF HandoutsBounded, EffectsBounded, Left, Forgiven, ToCome
  <2> QED BY <2>1, <2>2
<1> QED BY <1>1, <1>2, <1>3, <1>5, <1>6, <1>7, <1>8, <1>9 DEF WorkerStep

(* The counts are bounded in every reachable state. *)
LEMMA Counted == Spec => []CountInv
<1>1. Init => CountInv
  BY LimitsAssumption
  DEF Init, EmptyQueue, CountInv, HandoutsBounded, EffectsBounded, Left, ToCome, HandoutsPerJob
<1>2. IInv /\ CountInv /\ [Next]_vars => CountInv'
  <2> SUFFICES ASSUME IInv, CountInv, [Next]_vars, NEW f \in Events
               PROVE  HandoutsBounded(f)' /\ EffectsBounded(f)'
    BY DEF CountInv
  <2>1. HandoutsBounded(f) /\ EffectsBounded(f)
    BY DEF CountInv
  <2>2. ASSUME UNCHANGED <<job, tries, stalled, step, lost, enqueued, handed, handled>>
        PROVE  HandoutsBounded(f)' /\ EffectsBounded(f)'
    BY <2>1, <2>2, CountFrame DEF Forgiven
  <2>3. CASE UNCHANGED vars
    BY <2>2, <2>3 DEF vars, workerVars, effectVars
  <2>4. ASSUME NEW e \in Events, Publish(e) PROVE HandoutsBounded(f)' /\ EffectsBounded(f)'
    BY <2>2, <2>4 DEF Publish, workerVars, effectVars
  <2>5. ASSUME NEW r \in Replicas, RelayStep(r) PROVE HandoutsBounded(f)' /\ EffectsBounded(f)'
    <3>1. CASE UNCHANGED <<job, enqueued, workerVars>>
      BY <2>2, <3>1 DEF workerVars, effectVars
    <3>2. CASE \E e \in Events : AddJob(e)
      BY <2>1, <3>2, CountAdd
    <3> QED
      BY <2>5, <3>1, <3>2 DEF RelayStep, SelectPending, AbortTick, AddOk, AddError, MarkCompleted,
                              MarkError, MarkFailed
  <2> QED BY <2>1, <2>3, <2>4, <2>5, CountWorker DEF Next
<1> QED BY <1>1, <1>2, Inductive, PTL DEF Spec

(***************************************************************************)
(* Refinement: the whole path implements EventDelivery.                    *)
(***************************************************************************)

SeenQueue == [e \in Events |-> Seen(job[e])]

(* What a job looks like from outside. *)
LEMMA SeenCases ==
  /\ Seen("none") = "none" /\ Seen("waiting") = "open" /\ Seen("active") = "open"
  /\ Seen("completed") = "done" /\ Seen("failed") = "failed"
  BY DEF Seen

(* A job that ends, ends for EventDelivery. *)
LEMMA EndJobEnds ==
  ASSUME IInv, CountInv, NEW e \in Events, NEW outcome \in Terminal, EndJob(e, outcome),
         job[e] = "active", outcome = "completed" => step[e] = "ack",
         UNCHANGED <<status, enqueued, handed, handled>>
  PROVE  Delivery!End(e, Seen(outcome))
<1>1. Seen(job[e]) = "open"
  BY SeenCases
<1>2. Seen(outcome) = "done" => handled[e] > 0
  BY SeenCases DEF CountInv, EffectsBounded, Terminal
<1>3. \E gone \in SUBSET {f \in Events : Seen(job[f]) = Seen(outcome)} :
        SeenQueue' = [f \in Events |-> IF f = e THEN Seen(outcome)
                                       ELSE IF f \in gone THEN "none" ELSE Seen(job[f])]
  <2>1. Evicted(outcome) \in SUBSET {f \in Events : Seen(job[f]) = Seen(outcome)}
    BY DEF Evicted
  <2>2. SeenQueue' = [f \in Events |-> IF f = e THEN Seen(outcome)
                                       ELSE IF f \in Evicted(outcome) THEN "none" ELSE Seen(job[f])]
    BY SeenCases DEF EndJob, SeenQueue
  <2> QED BY <2>1, <2>2
<1> QED
  BY <1>1, <1>2, <1>3, Zenon DEF SeenQueue, Delivery!End

(* A step that moves no row, no job, no hand-out and no effect is none. *)
LEMMA Unseen ==
  ASSUME UNCHANGED <<status, enqueued, handed, handled>>,
         \A f \in Events : Seen(job[f])' = Seen(job[f])
  PROVE  UNCHANGED Delivery!vars
<1>1. SeenQueue' = SeenQueue
  BY DEF SeenQueue
<1> QED BY <1>1 DEF Delivery!vars, SeenQueue

(* Each step of a replica is a step of EventDelivery, or none. *)
LEMMA RelayImplements ==
  ASSUME IInv, NEW r \in Replicas, RelayStep(r)
  PROVE  Delivery!Next \/ UNCHANGED Delivery!vars
<1>1. CASE UNCHANGED <<status, job, enqueued, workerVars>>
  BY <1>1, Unseen DEF workerVars, effectVars
<1>2. ASSUME NEW e \in Events, AddJob(e), Current(r, e), UNCHANGED status
      PROVE  Delivery!Next \/ UNCHANGED Delivery!vars
  <2>1. status[e] # "absent"
    BY <1>2 DEF IInv, OriginInv, Current
  <2>2. CASE job[e] # "none"
    <3>1. UNCHANGED <<status, job, enqueued, handed, handled>>
      BY <1>2, <2>2 DEF AddJob, Enqueue, effectVars
    <3> QED BY <3>1, Unseen
  <2>3. CASE job[e] = "none"
    <3>1. /\ job' = [job EXCEPT ![e] = "waiting"]
          /\ enqueued' = [enqueued EXCEPT ![e] = @ + 1]
          /\ UNCHANGED <<status, handed, handled>>
      BY <1>2, <2>3 DEF AddJob, Enqueue, effectVars
    <3>2. SeenQueue' = [SeenQueue EXCEPT ![e] = "open"]
      BY <3>1, SeenCases DEF SeenQueue, IInv, TypeOK
    <3>3. SeenQueue[e] = "none"
      BY <2>3, SeenCases DEF SeenQueue
    <3>4. Delivery!Accept(e)
      BY <2>1, <3>1, <3>2, <3>3 DEF Delivery!Accept, SeenQueue
    <3> QED BY <3>4 DEF Delivery!Next
  <2> QED BY <2>2, <2>3
<1>3. ASSUME NEW e \in Events, NEW result \in {"completed", "failed"}, Current(r, e),
             result = "completed" => enqueued[e] > 0,
             status' = [status EXCEPT ![e] = result], UNCHANGED <<job, enqueued, workerVars>>
      PROVE  Delivery!Next
  <2>1. status[e] # "absent"
    BY <1>3 DEF IInv, OriginInv, Current
  <2>2. SeenQueue' = SeenQueue
    BY <1>3 DEF SeenQueue
  <2>3. Delivery!Mark(e, result)
    BY <1>3, <2>1, <2>2 DEF Delivery!Mark, SeenQueue, workerVars, effectVars
  <2> QED BY <2>3 DEF Delivery!Next
<1>4. ASSUME NEW e \in Events, MarkCompleted(r, e) PROVE Delivery!Next
  <2>1. enqueued[e] > 0
    BY <1>4 DEF MarkCompleted, IInv, MarkInv
  <2> QED BY <1>3, <1>4, <2>1 DEF MarkCompleted
<1>5. ASSUME NEW e \in Events, MarkFailed(r, e) PROVE Delivery!Next
  BY <1>3, <1>5 DEF MarkFailed
<1>6. ASSUME NEW e \in Events, AddOk(r, e) \/ AddError(r, e)
      PROVE  Delivery!Next \/ UNCHANGED Delivery!vars
  BY <1>1, <1>2, <1>6 DEF AddOk, AddError
<1>7. CASE SelectPending(r) \/ AbortTick(r) \/ \E e \in Events : MarkError(r, e)
  BY <1>1, <1>7 DEF SelectPending, AbortTick, MarkError
<1> QED BY <1>4, <1>5, <1>6, <1>7 DEF RelayStep

(* Each step of a run, with or without its lock, likewise. *)
LEMMA WorkerImplements ==
  ASSUME IInv, CountInv, NEW e \in Events, WorkerStep(e)
  PROVE  Delivery!Next \/ UNCHANGED Delivery!vars
<1>1. ASSUME job[e] = "active", job' = Move(job, e, "waiting"),
             UNCHANGED <<status, enqueued, handed, handled>>
      PROVE  UNCHANGED Delivery!vars
  <2>1. \A f \in Events : Seen(job[f])' = Seen(job[f])
    BY <1>1, SeenCases DEF Move, IInv, TypeOK
  <2> QED BY <1>1, <2>1, Unseen
<1>2. ASSUME NEW outcome \in Terminal, EndJob(e, outcome), job[e] = "active",
             outcome = "completed" => step[e] = "ack",
             UNCHANGED <<status, enqueued, handed, handled>>
      PROVE  Delivery!Next
  <2>1. Delivery!End(e, Seen(outcome))
    BY <1>2, EndJobEnds
  <2>2. Seen(outcome) \in {"done", "failed"}
    BY SeenCases DEF Terminal
  <2> QED BY <2>1, <2>2 DEF Delivery!Next
<1>3. CASE TakeJob(e)
  <2>1. /\ job[e] = "waiting" /\ job' = [job EXCEPT ![e] = "active"]
        /\ handed' = [handed EXCEPT ![e] = @ + 1]
        /\ UNCHANGED <<status, enqueued, handled>>
    BY <1>3 DEF TakeJob, Move, relayVars, effectVars
  <2>2. SeenQueue' = SeenQueue /\ SeenQueue[e] = "open"
    BY <2>1, SeenCases DEF SeenQueue, IInv, TypeOK
  <2>3. handed[e] < enqueued[e] * HandoutsPerJob
    <3>1. Left(e) >= 1 /\ Left(e) \in Int /\ handed[e] \in Nat
      BY <2>1, CountTypes DEF IInv, CountInv, HandoutsBounded, Left
    <3>2. handed[e] + Left(e) <= enqueued[e] * HandoutsPerJob
      BY DEF CountInv, HandoutsBounded
    <3>3. enqueued[e] * HandoutsPerJob \in Nat
      BY OneMoreJob, CountTypes DEF IInv
    <3> QED BY <3>1, <3>2, <3>3
  <2>4. Delivery!HandOut(e)
    BY <2>1, <2>2, <2>3 DEF Delivery!HandOut, SeenQueue
  <2> QED BY <2>4 DEF Delivery!Next
<1>4. ASSUME RunHandler(e), UNCHANGED <<status, job, enqueued, handed>>, handled[e] < handed[e]
      PROVE  Delivery!Next
  <2>1. SeenQueue' = SeenQueue
    BY <1>4 DEF SeenQueue
  <2>2. Delivery!Effect(e)
    BY <1>4, <2>1 DEF RunHandler, Delivery!Effect, SeenQueue
  <2> QED BY <2>2 DEF Delivery!Next
<1>5. CASE Route(e)
  <2>1. handled[e] < handed[e]
    BY <1>5, CountTypes DEF Route, IInv, CountInv, EffectsBounded, ToCome
  <2> QED BY <1>4, <1>5, <2>1 DEF Route, relayVars
<1>6. CASE LostRoute(e)
  <2>1. handled[e] < handed[e]
    BY <1>6, CountTypes DEF LostRoute, IInv, CountInv, EffectsBounded, ToCome
  <2> QED BY <1>4, <1>6, <2>1 DEF LostRoute, relayVars
<1>7. CASE Fanout(e) \/ LostFanout(e)
  <2>1. UNCHANGED <<status, job, enqueued, handed, handled>>
    BY <1>7 DEF Fanout, LostFanout, RunFanout, relayVars
  <2> QED BY <2>1, Unseen
<1>8. CASE Complete(e)
  <2>1. EndJob(e, "completed") /\ job[e] = "active" /\ step[e] = "ack"
        /\ UNCHANGED <<status, enqueued, handed, handled>>
    BY <1>8 DEF Complete, relayVars, effectVars
  <2> QED BY <1>2, <2>1 DEF Terminal
<1>9. CASE HandlerThrows(e) \/ Stall(e)
  <2>1. /\ job[e] = "active" /\ UNCHANGED <<status, enqueued, handed, handled>>
        /\ job' = Move(job, e, "waiting") \/ EndJob(e, "failed")
    BY <1>9 DEF HandlerThrows, Stall, relayVars, effectVars
  <2> QED BY <1>1, <1>2, <2>1 DEF Terminal
<1> QED BY <1>3, <1>5, <1>6, <1>7, <1>8, <1>9 DEF WorkerStep

(* The relay, the queue and the worker keep the outbox's promise. *)
THEOREM Refinement == Spec => ImplementsDelivery
<1>1. Init => Delivery!Init
  <2> SUFFICES ASSUME Init PROVE Delivery!Init
    OBVIOUS
  <2>1. [e \in Events |-> Seen(job[e])] = [e \in Events |-> "none"]
    BY SeenCases DEF Init, EmptyQueue
  <2> QED BY <2>1 DEF Init, Delivery!Init
<1>2. IInv /\ CountInv /\ [Next]_vars => [Delivery!Next]_(Delivery!vars)
  <2> SUFFICES ASSUME IInv, CountInv, [Next]_vars
               PROVE  Delivery!Next \/ UNCHANGED Delivery!vars
    OBVIOUS
  <2>1. CASE UNCHANGED vars
    BY <2>1, Unseen DEF vars, relayVars, workerVars, effectVars
  <2>2. ASSUME NEW e \in Events, Publish(e) PROVE Delivery!Next
    <3>1. SeenQueue' = SeenQueue
      BY <2>2 DEF Publish, SeenQueue
    <3>2. Delivery!Publish(e)
      BY <2>2, <3>1 DEF Publish, Delivery!Publish, SeenQueue, workerVars, effectVars
    <3> QED BY <3>2 DEF Delivery!Next
  <2> QED BY <2>1, <2>2, WorkerImplements, RelayImplements DEF Next
<1> QED BY <1>1, <1>2, Inductive, Counted, PTL DEF Spec, ImplementsDelivery, Delivery!Spec

=============================================================================
