----------------------------- MODULE BulkEmail ------------------------------
(***************************************************************************)
(* A bulk e-mail from the dispatch to the last recipient: the API stores a *)
(* bulk_email_jobs row with the recipients and an outbox event, the relay  *)
(* and the event worker turn the event into one job of the emails queue,   *)
(* and the processor mails the recipients one by one, recording each       *)
(* outcome in the row.  When a row ends without having reached everybody,  *)
(* or its processor is believed dead, the operator resumes it: a child row *)
(* with the recipients that remain.                                        *)
(*                                                                         *)
(* Row n is the n-th row of the chain that starts with one dispatch.  The  *)
(* SMTP server is the environment: it accepts, refuses, or accepts and     *)
(* lets the client see an error.  A soft-deleted constituent and one whose *)
(* address was cleared are both "gone".                                    *)
(***************************************************************************)
EXTENDS Integers, FiniteSets, JobQueue

CONSTANTS
  Recipients,  \* constituents of one tenant
  Workers,     \* concurrent runs of the emails worker
  Idle,        \* "no run holds the job's lock"
  Nobody,      \* "no recipient"
  MaxRows,     \* bound: rows of the chain
  MaxFaults,   \* bound: errors, crashes, stalls, hangs and Redis wipes
  MaxFlips     \* bound: changes of the feature flag

ASSUME RecipientsAssumption == IsFiniteSet(Recipients) /\ Nobody \notin Recipients
ASSUME WorkersAssumption == Idle \notin Workers
ASSUME BoundsAssumption == MaxRows \in Nat /\ MaxFaults \in Nat /\ MaxFlips \in Nat

VARIABLES
  used,     \* number of rows of bulk_email_jobs
  row,      \* the rows
  unsent,   \* rows whose outbox event has not become a job yet
  mailJobs, \* the emails queue, job id bulk-email-<outbox id>
  stalled,  \* jobs that were found stalled once
  owner,    \* which run holds the job's lock
  run,      \* the runs of processSendBulkEmail
  cold,     \* processing rows whose updated_at is ten minutes old
  gone,     \* constituents erased or without an address
  flag,     \* communication.bulk_email
  flips,
  faults,
  mails,    \* history: mails each constituent received
  unproved, \* history: mails that were sent and not recorded as delivered
  doubled,  \* history: rows that two runs had at the same time
  shared,   \* history: recipients a child row got while its parent was still mailing
  again     \* history: recipients a row handed to a second child

queueVars == <<unsent, mailJobs, stalled, owner>>
envVars == <<gone, flag, flips>>
mailVars == <<mails, unproved>>
overlapVars == <<doubled, shared, again>>
vars == <<used, row, queueVars, run, cold, envVars, faults, mailVars, overlapVars>>

Rows == 1..MaxRows

RowStatus == {"absent", "pending", "processing", "completed", "partial"}
Ended == {"completed", "partial"}

(* parent = 0 is the dispatch itself.  count is delivered_count, the       *)
(* length of the delivered array, in which an id may occur twice.          *)
NoRow == [status |-> "absent", ids |-> {}, delivered |-> {}, failed |-> {},
          count |-> 0, parent |-> 0]

Fault == faults < MaxFaults /\ faults' = faults + 1

Total(n) == Cardinality(row[n].ids)

-----------------------------------------------------------------------------
(* The API *)

(* ids have an address and are not deleted: a deleted id fails the whole   *)
(* request, an id without an address is skipped.  A dispatch that reaches  *)
(* nobody is complete at once and publishes nothing.                       *)
DispatchBulkEmail(ids) ==
  /\ used = 0 /\ MaxRows > 0 /\ flag
  /\ ids \cap gone = {}
  /\ used' = 1
  /\ row' = [row EXCEPT ![1] = [NoRow EXCEPT !.ids = ids,
                                  !.status = IF ids = {} THEN "completed" ELSE "pending"]]
  /\ unsent' = IF ids = {} THEN unsent ELSE unsent \cup {1}
  /\ UNCHANGED <<mailJobs, stalled, owner, run, cold, envVars, faults, mailVars, overlapVars>>

(* The partial unique index on parent_job_id among the active rows. *)
ActiveChild(p) == \E n \in 1..used : row[n].parent = p /\ row[n].status \in {"pending", "processing"}

(* Not pending, not processing unless it looks stalled, and incomplete. *)
Resumable(p) ==
  /\ row[p].status \in Ended \/ (row[p].status = "processing" /\ p \in cold)
  /\ row[p].count < Total(p)

Remaining(p) == row[p].ids \ row[p].delivered

(* Somebody may still mail the recipients of p: a run of the row is alive, *)
(* or its job will be run.                                                 *)
StillMailing(p) ==
  \/ \E w \in Workers : run[w].row = p
  \/ mailJobs[p] \in {"waiting", "active"} \/ p \in unsent

WasResumed(p) == \E n \in 1..used : row[n].parent = p

(* SELECT ... FOR UPDATE of the source row, the checks, the child row and  *)
(* its outbox event in one transaction.  A row does not learn what its     *)
(* child delivers, so that a second resume of the same row hands out the   *)
(* same recipients again.                                                  *)
ResumeBulkEmailJob(p) ==
  /\ flag
  /\ p \in 1..used /\ used < MaxRows
  /\ Resumable(p) /\ Remaining(p) # {} /\ ~ActiveChild(p)
  /\ used' = used + 1
  /\ row' = [row EXCEPT ![used + 1] = [NoRow EXCEPT !.status = "pending",
                                         !.ids = Remaining(p), !.parent = p]]
  /\ unsent' = unsent \cup {used + 1}
  /\ shared' = IF StillMailing(p) THEN shared \cup Remaining(p) ELSE shared
  /\ again' = IF WasResumed(p) THEN again \cup Remaining(p) ELSE again
  /\ UNCHANGED <<mailJobs, stalled, owner, run, cold, envVars, faults, mailVars, doubled>>

-----------------------------------------------------------------------------
(* The way of the event to the queue; OutboxRelay has it in detail. *)

(* A job id of the dispatch instead of the outbox row. *)
RouteEvent_JobPerDispatch(n) ==
  /\ n \in unsent
  /\ unsent' = unsent \ {n}
  /\ mailJobs' = IF \E k \in Rows : mailJobs[k] # "none" THEN mailJobs ELSE Enqueue(mailJobs, n)
  /\ UNCHANGED <<used, row, stalled, owner, run, cold, envVars, faults, mailVars, overlapVars>>

RouteEvent(n) ==
  /\ n \in unsent
  /\ unsent' = unsent \ {n}
  /\ mailJobs' = Enqueue(mailJobs, n)
  /\ UNCHANGED <<used, row, stalled, owner, run, cold, envVars, faults, mailVars, overlapVars>>

(* Redis loses its data: the jobs of the emails queue and some events that *)
(* were on their way.  A run that is mailing goes on.                      *)
WipeRedis(lost) ==
  /\ Fault
  /\ unsent' = unsent \ lost
  /\ mailJobs' = EmptyQueue(Rows)
  /\ stalled' = {}
  /\ owner' = [n \in Rows |-> Idle]
  /\ UNCHANGED <<used, row, run, cold, envVars, mailVars, overlapVars>>

-----------------------------------------------------------------------------
(* processSendBulkEmail.  A run is at "gate" when it has its job, "load"   *)
(* when the flag was on, "fetch" when the row says processing, "send"      *)
(* before a recipient, "record" between SMTP's answer and the row, "close" *)
(* when nobody is left.  todo are the recipients not yet dealt with.       *)

NoRun == [row |-> 0, at |-> "idle", todo |-> {}, who |-> Nobody, outcome |-> "none"]

Step(w, from, to) ==
  /\ run[w].at = from
  /\ run' = [run EXCEPT ![w].at = to]

(* A run that lost its lock ends without touching the job. *)
EndRun(w, outcome) ==
  LET n == run[w].row IN
  /\ run' = [run EXCEPT ![w] = NoRun]
  /\ mailJobs' = IF owner[n] = w THEN Move(mailJobs, n, outcome) ELSE mailJobs
  /\ owner' = IF owner[n] = w THEN [owner EXCEPT ![n] = Idle] ELSE owner
  /\ UNCHANGED <<unsent, stalled>>

TakeMailJob(w, n) ==
  /\ run[w].at = "idle" /\ mailJobs[n] = "waiting"
  /\ mailJobs' = Move(mailJobs, n, "active")
  /\ owner' = [owner EXCEPT ![n] = w]
  /\ run' = [run EXCEPT ![w] = [NoRun EXCEPT !.row = n, !.at = "gate"]]
  /\ doubled' = IF \E v \in Workers : run[v].row = n THEN doubled \cup {n} ELSE doubled
  /\ UNCHANGED <<used, row, unsent, stalled, cold, envVars, faults, mailVars, shared, again>>

(* With the flag off the job completes and the row stays as it is. *)
CheckFlag(w) ==
  /\ run[w].at = "gate"
  /\ IF flag THEN Step(w, "gate", "load") /\ UNCHANGED queueVars
             ELSE EndRun(w, "completed")
  /\ UNCHANGED <<used, row, cold, envVars, faults, mailVars, overlapVars>>

Unhandled_AllIds(n) == row[n].ids

Unhandled(n) == row[n].ids \ (row[n].delivered \cup row[n].failed)

(* A row that has ended is left alone; any other one is processing now. *)
LoadRow(w) ==
  LET n == run[w].row IN
  /\ run[w].at = "load"
  /\ IF row[n].status \in Ended
     THEN EndRun(w, "completed") /\ UNCHANGED <<row, cold>>
     ELSE /\ row' = [row EXCEPT ![n].status = "processing"]
          /\ cold' = cold \ {n}
          /\ run' = [run EXCEPT ![w].todo = Unhandled(n),
                                ![w].at = IF Unhandled(n) = {} THEN "close" ELSE "fetch"]
          /\ UNCHANGED queueVars
  /\ UNCHANGED <<used, envVars, faults, mailVars, overlapVars>>

AfterOne(todo) == IF todo = {} THEN "close" ELSE "send"

(* Recipients that are gone are dropped without an entry in the row. *)
FetchRecipients(w) ==
  /\ run[w].at = "fetch"
  /\ run' = [run EXCEPT ![w].todo = @ \ gone, ![w].at = AfterOne(run[w].todo \ gone)]
  /\ UNCHANGED <<used, row, queueVars, cold, envVars, faults, mailVars, overlapVars>>

SmtpAnswer(w, c, outcome) ==
  /\ run[w].at = "send" /\ c \in run[w].todo
  /\ run' = [run EXCEPT ![w].at = "record", ![w].who = c, ![w].outcome = outcome]
  /\ UNCHANGED <<used, row, queueVars, cold, envVars, overlapVars>>

SendMail(w, c) ==
  /\ SmtpAnswer(w, c, "delivered")
  /\ mails' = [mails EXCEPT ![c] = @ + 1]
  /\ UNCHANGED <<faults, unproved>>

MailRefused(w, c) ==
  /\ SmtpAnswer(w, c, "failed")
  /\ UNCHANGED <<faults, mailVars>>

(* The server has the mail, the client sees a timeout or a reset. *)
MailAmbiguous(w, c) ==
  /\ SmtpAnswer(w, c, "failed")
  /\ Fault
  /\ mails' = [mails EXCEPT ![c] = @ + 1]
  /\ unproved' = unproved \cup {c}

Noted_OnlySuccess(n, c, outcome) ==
  IF outcome = "delivered"
  THEN [row EXCEPT ![n].delivered = @ \cup {c}, ![n].count = @ + 1]
  ELSE row

Noted_FailedCounts(n, c, outcome) ==
  IF outcome = "delivered"
  THEN [row EXCEPT ![n].delivered = @ \cup {c}, ![n].count = @ + 1]
  ELSE [row EXCEPT ![n].failed = @ \cup {c}, ![n].count = @ + 1]

(* array_append and the counter in one UPDATE *)
Noted(n, c, outcome) ==
  IF outcome = "delivered"
  THEN [row EXCEPT ![n].delivered = @ \cup {c}, ![n].count = @ + 1]
  ELSE [row EXCEPT ![n].failed = @ \cup {c}]

RecordOutcome(w) ==
  LET n == run[w].row
      c == run[w].who IN
  /\ run[w].at = "record"
  /\ row' = Noted(n, c, run[w].outcome)
  /\ cold' = cold \ {n}
  /\ run' = [run EXCEPT ![w].todo = @ \ {c}, ![w].who = Nobody, ![w].outcome = "none",
                         ![w].at = AfterOne(run[w].todo \ {c})]
  /\ UNCHANGED <<used, queueVars, envVars, faults, mailVars, overlapVars>>

(* The UPDATE throws.  The try block covers sending and recording, so a    *)
(* delivered recipient is recorded as failed; an error while recording a   *)
(* failure leaves the processor and fails the job.                         *)
RecordThrows(w) ==
  /\ run[w].at = "record"
  /\ Fault
  /\ IF run[w].outcome = "delivered"
     THEN /\ run' = [run EXCEPT ![w].outcome = "failed"]
          /\ unproved' = unproved \cup {run[w].who}
          /\ UNCHANGED queueVars
     ELSE EndRun(w, "failed") /\ UNCHANGED unproved
  /\ UNCHANGED <<used, row, cold, envVars, mails, overlapVars>>

Outcome(n) == IF row[n].count >= Total(n) THEN "completed" ELSE "partial"

FinaliseJob(w) ==
  /\ run[w].at = "close"
  /\ row' = [row EXCEPT ![run[w].row].status = Outcome(run[w].row)]
  /\ cold' = cold \ {run[w].row}
  /\ EndRun(w, "completed")
  /\ UNCHANGED <<used, envVars, faults, mailVars, overlapVars>>

(* An error of the database outside the loop fails the job; it has one     *)
(* attempt.                                                                *)
ProcessorThrows(w) ==
  /\ run[w].at \in {"gate", "load", "fetch", "close"}
  /\ Fault
  /\ EndRun(w, "failed")
  /\ UNCHANGED <<used, row, cold, envVars, mailVars, overlapVars>>

(* The lock is lost, because the process died or because it could not      *)
(* renew the lock in time and goes on.  BullMQ hands the job out a second  *)
(* time, and fails it when that stalls as well.                            *)
Stall(w, dies) ==
  LET n == run[w].row IN
  /\ run[w].at # "idle" /\ owner[n] = w
  /\ Fault
  /\ run' = IF dies THEN [run EXCEPT ![w] = NoRun] ELSE run
  /\ unproved' = IF dies /\ run[w].at = "record" /\ run[w].outcome = "delivered"
                 THEN unproved \cup {run[w].who} ELSE unproved
  /\ mailJobs' = Move(mailJobs, n, IF n \in stalled THEN "failed" ELSE "waiting")
  /\ stalled' = stalled \cup {n}
  /\ owner' = [owner EXCEPT ![n] = Idle]
  /\ UNCHANGED <<used, row, unsent, cold, envVars, mails, overlapVars>>

-----------------------------------------------------------------------------
(* Time and other users *)

(* Ten minutes without an update.  A run that is alive needs a hang of     *)
(* that length for it.                                                     *)
GoesCold(n) ==
  /\ n \in 1..used \ cold
  /\ row[n].status = "processing"
  /\ IF \E w \in Workers : run[w].row = n THEN Fault ELSE UNCHANGED faults
  /\ cold' = cold \cup {n}
  /\ UNCHANGED <<used, row, queueVars, run, envVars, mailVars, overlapVars>>

EraseRecipient(c) ==
  /\ c \notin gone
  /\ gone' = gone \cup {c}
  /\ UNCHANGED <<used, row, queueVars, run, cold, flag, flips, faults, mailVars, overlapVars>>

FlipFlag ==
  /\ flips < MaxFlips
  /\ flips' = flips + 1
  /\ flag' = ~flag
  /\ UNCHANGED <<used, row, queueVars, run, cold, gone, faults, mailVars, overlapVars>>

-----------------------------------------------------------------------------
Init ==
  /\ used = 0
  /\ row = [n \in Rows |-> NoRow]
  /\ unsent = {} /\ mailJobs = EmptyQueue(Rows)
  /\ stalled = {} /\ owner = [n \in Rows |-> Idle]
  /\ run = [w \in Workers |-> NoRun]
  /\ cold = {} /\ gone = {}
  /\ flag = TRUE /\ flips = 0 /\ faults = 0
  /\ mails = [c \in Recipients |-> 0]
  /\ unproved = {} /\ doubled = {} /\ shared = {} /\ again = {}

RunStep(w) ==
  \/ CheckFlag(w) \/ LoadRow(w) \/ FetchRecipients(w)
  \/ \E c \in Recipients : SendMail(w, c) \/ MailRefused(w, c)
  \/ RecordOutcome(w) \/ FinaliseJob(w)

RunFails(w) ==
  \/ \E c \in Recipients : MailAmbiguous(w, c)
  \/ RecordThrows(w) \/ ProcessorThrows(w)
  \/ \E dies \in BOOLEAN : Stall(w, dies)

Next ==
  \/ \E ids \in SUBSET Recipients : DispatchBulkEmail(ids)
  \/ \E n \in Rows : ResumeBulkEmailJob(n) \/ RouteEvent(n) \/ GoesCold(n)
  \/ \E lost \in SUBSET Rows : WipeRedis(lost)
  \/ \E w \in Workers : RunStep(w) \/ RunFails(w) \/ \E n \in Rows : TakeMailJob(w, n)
  \/ \E c \in Recipients : EraseRecipient(c)
  \/ FlipFlag

(* Events reach the queue, waiting jobs are handed out and a run goes on.  *)
(* Nothing forces an operator to dispatch or to resume.                    *)
Fairness ==
  /\ \A n \in Rows : WF_vars(RouteEvent(n)) /\ WF_vars(\E w \in Workers : TakeMailJob(w, n))
  /\ \A w \in Workers : WF_vars(RunStep(w))

Spec == Init /\ [][Next]_vars
FairSpec == Spec /\ Fairness

-----------------------------------------------------------------------------
RowRecord ==
  [status : RowStatus, ids : SUBSET Recipients, delivered : SUBSET Recipients,
   failed : SUBSET Recipients, count : Nat, parent : Nat]

RunRecord ==
  [row : 0..MaxRows, at : {"idle", "gate", "load", "fetch", "send", "record", "close"},
   todo : SUBSET Recipients, who : Recipients \cup {Nobody},
   outcome : {"none", "delivered", "failed"}]

(* Every reachable state is well typed. *)
TypeOK ==
  /\ used \in 0..MaxRows
  /\ row \in [Rows -> RowRecord]
  /\ unsent \subseteq Rows /\ stalled \subseteq Rows /\ cold \subseteq Rows
  /\ mailJobs \in [Rows -> JobState]
  /\ owner \in [Rows -> Workers \cup {Idle}]
  /\ run \in [Workers -> RunRecord]
  /\ gone \subseteq Recipients
  /\ flag \in BOOLEAN /\ flips \in Nat /\ faults \in Nat
  /\ mails \in [Recipients -> Nat]
  /\ unproved \subseteq Recipients
  /\ doubled \subseteq Rows /\ shared \subseteq Recipients /\ again \subseteq Recipients

(* Who may have been mailed twice: recipients of a row two runs had at the *)
(* same time, of a child row that was made while its parent was mailing,   *)
(* and of two child rows of one parent, which resumeBulkEmailJob allows    *)
(* one after the other.                                                    *)
Repeated(c) == c \in shared \cup again \/ \E n \in doubled : c \in row[n].ids

(* Stalls, re-runs and chains of resumes mail nobody twice, except those   *)
(* whose first mail could not be recorded as delivered, those on the lists *)
(* of two runs or rows at work together, and those of a row that was       *)
(* resumed twice.  An exception for one recipient is none for the others.  *)
NobodyMailedTwice ==
  \A c \in Recipients \ unproved : ~Repeated(c) => mails[c] <= 1

(* When a row has ended, each of its recipients is recorded as delivered   *)
(* or as failed, or is gone: nobody is dropped silently, in whatever way   *)
(* runs of the row were cut short, repeated or overlapped.                 *)
NobodyForgotten ==
  \A n \in 1..used :
    row[n].status \in Ended => row[n].ids \ (row[n].delivered \cup row[n].failed) \subseteq gone

(* A row is called completed by comparing two counters.  It has reached    *)
(* every recipient on its list, however often its job was handed out, as   *)
(* long as no two runs of this very row were at work at the same time:     *)
(* those count a recipient they both mail twice, and one nobody mailed is  *)
(* made up for.                                                            *)
CompletedReachedAll ==
  \A n \in 1..used :
    row[n].status = "completed" /\ n \notin doubled =>
      \A c \in row[n].ids : c \in row[n].delivered /\ mails[c] > 0

(* Where a row may stay for ever: at its end, dropped by the flag before   *)
(* it was loaded or finished, or interrupted by a fault.                   *)
Rests(n) ==
  \/ row[n].status \in Ended
  \/ mailJobs[n] = "completed" /\ flips > 0
  \/ mailJobs[n] \in {"failed", "none"} /\ n \notin unsent /\ faults > 0

(* Every row comes to rest: no run waits for ever and no job is kept out   *)
(* of the queue.                                                           *)
RowsComeToRest == <>[](\A n \in 1..used : Rests(n) /\ \A w \in Workers : run[w].at = "idle")

=============================================================================
