------------------------------ MODULE Branding ------------------------------
(***************************************************************************)
(* The logo of one tenant: an upload is processed, activated and published *)
(* to Keycloak by a chain of outbox events and jobs, replaced by the next  *)
(* upload, removed by the operator, and swept up a week later.             *)
(*                                                                         *)
(* Of the outbox and the queues only what EventDelivery promises is used:  *)
(* a committed event becomes a job or is parked.  The job ids are per      *)
(* upload, and per tenant for the Keycloak sync; these queues have no      *)
(* retention limits, so a finished job keeps its id taken.  A job is handed *)
(* out a second time when its first run loses its lock; that run dies or   *)
(* goes on beside the second one.                                          *)
(***************************************************************************)
EXTENDS Naturals, FiniteSets, JobQueue

CONSTANTS
  Uploads,    \* bound: the uploads of the tenant
  Pods,       \* worker processes, each running one branding job at a time
  MaxFaults,  \* bound: errors, crashes and parked events in one behaviour
  Null        \* no upload

ASSUME NullAssumption == Null \notin Uploads
ASSUME PodsAssumption == Pods \in Nat \ {0}
ASSUME FaultsAssumption == MaxFaults \in Nat

VARIABLES
  row,       \* org_branding_assets.status of an upload's row
  deleted,   \* rows with deleted_at set
  aged,      \* rows last touched more than the grace period ago
  pointer,   \* tenants.logo_asset_id
  objects,   \* S3 directories that hold something
  outbox,    \* events about single uploads that have been committed
  syncDue,   \* a committed keycloak_sync_org_logo event has not been relayed
  job,       \* the branding and the Keycloak sync queue, by job id
  step,      \* how far a run of a job is
  previous,  \* pointer a run of an activation has read
  removing,  \* upload a DELETE request has read as the active logo
  doomed,    \* rows the sweep has selected
  synced,    \* logo a run of the sync job has read
  logoUrl,   \* attributes.logo_url of the organisation in Keycloak
  stalled,   \* jobs whose first run has lost its lock
  faults,    \* errors, crashes and parked events so far
  doubtful   \* history: uploads with a commit that was not the last word

asset == <<row, deleted, aged, pointer, objects>>
work  == <<outbox, syncDue, job, step, previous, stalled>>
users == <<removing, doomed>>
kc    == <<synced, logoUrl>>
fate  == <<faults, doubtful>>
vars  == <<asset, work, users, kc, fate>>

Kinds  == {"process", "activate", "gc"}
Events == Kinds \X Uploads
Sync   == <<"sync", Null>>
Jobs   == Events \cup {Sync}
Turns  == {1, 2}
Runs   == Jobs \X Turns

(* The key of the original is built from a UUID of the route, the keys of  *)
(* the variants from the id the database gives the row.                    *)
OriginalDir(a) == <<"original", a>>
VariantDir(a)  == <<"variants", a>>
Dirs == {"original", "variants"} \X Uploads

Exists(a) == row[a] \notin {"absent", "gone"}

Fault == faults < MaxFaults /\ faults' = faults + 1

Touch(a) == aged' = aged \ {a}

-----------------------------------------------------------------------------
(* The API *)

Upload_EmitsBoth(a) ==
  /\ row[a] = "absent"
  /\ row' = [row EXCEPT ![a] = "pending"]
  /\ objects' = objects \cup {OriginalDir(a)}
  /\ outbox' = outbox \cup {<<"process", a>>, <<"activate", a>>}
  /\ UNCHANGED <<deleted, aged, pointer, syncDue, job, step, previous, stalled, users, kc, fate>>

(* The original is stored, then the row is inserted with its event. *)
Upload(a) ==
  /\ row[a] = "absent"
  /\ row' = [row EXCEPT ![a] = "pending"]
  /\ objects' = objects \cup {OriginalDir(a)}
  /\ outbox' = outbox \cup {<<"process", a>>}
  /\ UNCHANGED <<deleted, aged, pointer, syncDue, job, step, previous, stalled, users, kc, fate>>

(* The insert fails: the original stays in the bucket without a row. *)
UploadFails(a) ==
  /\ row[a] = "absent"
  /\ Fault
  /\ row' = [row EXCEPT ![a] = "gone"]
  /\ objects' = objects \cup {OriginalDir(a)}
  /\ UNCHANGED <<deleted, aged, pointer, work, users, kc, doubtful>>

(* softDeleteActiveLogo reads pointer and row without a lock ... *)
RemoveRead ==
  /\ removing = Null /\ pointer # Null
  /\ removing' = pointer
  /\ UNCHANGED <<asset, work, doomed, kc, fate>>

Remove_KeepsPointer ==
  /\ removing # Null
  /\ deleted' = IF Exists(removing) THEN deleted \cup {removing} ELSE deleted
  /\ Touch(removing)
  /\ outbox' = outbox \cup {<<"gc", removing>>}
  /\ removing' = Null
  /\ UNCHANGED <<row, pointer, objects, syncDue, job, step, previous, stalled, doomed, kc, fate>>

(* ... and clears whatever the pointer is by then. *)
Remove ==
  /\ removing # Null
  /\ pointer' = Null
  /\ deleted' = IF Exists(removing) THEN deleted \cup {removing} ELSE deleted
  /\ Touch(removing)
  /\ outbox' = outbox \cup {<<"gc", removing>>}
  /\ removing' = Null
  /\ UNCHANGED <<row, objects, syncDue, job, step, previous, stalled, doomed, kc, fate>>

(* The row is gone by the second select, or the transaction fails. *)
RemoveFails ==
  /\ removing # Null
  /\ removing' = Null
  /\ UNCHANGED <<asset, work, doomed, kc, fate>>

-----------------------------------------------------------------------------
(* Outbox and queues *)

Dispatch(e) ==
  /\ e \in outbox /\ job[e] = "none"
  /\ job' = Enqueue(job, e)
  /\ UNCHANGED <<asset, outbox, syncDue, step, previous, stalled, users, kc, fate>>

(* The relay or the routing job fails for good. *)
Park(e) ==
  /\ e \in outbox /\ job[e] = "none"
  /\ Fault
  /\ outbox' = outbox \ {e}
  /\ UNCHANGED <<asset, syncDue, job, step, previous, stalled, users, kc, doubtful>>

ParkSync ==
  /\ syncDue
  /\ Fault
  /\ syncDue' = FALSE
  /\ UNCHANGED <<asset, outbox, job, step, previous, stalled, users, kc, doubtful>>

(* One job id per tenant: sync events waiting together are one. *)
DispatchSync ==
  /\ syncDue
  /\ syncDue' = FALSE
  /\ job' = Enqueue(job, Sync)
  /\ UNCHANGED <<asset, outbox, step, previous, stalled, users, kc, fate>>

Turn(j) == IF j \in stalled THEN 2 ELSE 1

Running(j) == \E n \in Turns : step[<<j, n>>] # "none"

(* Processes running a branding job, with its lock or without; the sweep   *)
(* is one.                                                                 *)
Busy ==
  Cardinality({r \in Events \X Turns : step[r] # "none"}) + IF doomed = {} THEN 0 ELSE 1

TakeJob(j) ==
  /\ job[j] = "waiting"
  /\ j \in Events => Busy < Pods
  /\ job' = Move(job, j, "active")
  /\ step' = [step EXCEPT ![<<j, Turn(j)>>] = "start"]
  /\ UNCHANGED <<asset, outbox, syncDue, previous, stalled, users, kc, fate>>

At(j, n, where) == step[<<j, n>>] = where

Proceed(j, n, where) == step' = [step EXCEPT ![<<j, n>>] = where] /\ UNCHANGED job

HoldsLock(j, n) == job[j] = "active" /\ n = Turn(j)

(* No other run of the job is under way or still to come. *)
LastWord(j, n) ==
  /\ HoldsLock(j, n) \/ job[j] \in Terminal
  /\ \A m \in Turns \ {n} : step[<<j, m>>] = "none"

(* The outcome is recorded by the run that holds the lock; a job that is   *)
(* over need not be counted as stalled any longer.                         *)
EndRun(j, n, outcome) ==
  /\ step' = [step EXCEPT ![<<j, n>>] = "none"]
  /\ job' = IF HoldsLock(j, n) THEN Move(job, j, outcome) ELSE job
  /\ stalled' = IF LastWord(j, n) THEN stalled \ {j} ELSE stalled

(* The lock expires and the job is handed out again, once.  Its run died,  *)
(* before or after its last commit, or its process was only too busy to    *)
(* renew the lock and goes on.                                             *)
Stall(j) ==
  /\ job[j] = "active"
  /\ Fault
  /\ job' = Move(job, j, IF j \in stalled THEN "failed" ELSE "waiting")
  /\ stalled' = stalled \cup {j}
  /\ \/ step' = [step EXCEPT ![<<j, Turn(j)>>] = "none"]
     \/ UNCHANGED step
  /\ UNCHANGED <<asset, outbox, syncDue, previous, users, kc, doubtful>>

-----------------------------------------------------------------------------
(* processBrandingAsset *)

PipelineOf(a) == <<"process", a>>

ProcessSkip(a, n) ==
  /\ At(PipelineOf(a), n, "start")
  /\ row[a] = "ready" \/ ~Exists(a) \/ a \in deleted
  /\ EndRun(PipelineOf(a), n, "completed")
  /\ UNCHANGED <<asset, outbox, syncDue, previous, users, kc, fate>>

ProcessCheck(a, n) ==
  /\ At(PipelineOf(a), n, "start")
  /\ row[a] \in {"pending", "failed"} /\ a \notin deleted
  /\ Proceed(PipelineOf(a), n, "checked")
  /\ UNCHANGED <<asset, outbox, syncDue, previous, stalled, users, kc, fate>>

(* The variants are uploaded one by one before the row is flipped. *)
ProcessVariants(a, n) ==
  /\ At(PipelineOf(a), n, "checked")
  /\ OriginalDir(a) \in objects
  /\ objects' = objects \cup {VariantDir(a)}
  /\ Proceed(PipelineOf(a), n, "variants")
  /\ UNCHANGED <<row, deleted, aged, pointer, outbox, syncDue, previous, stalled, users, kc, fate>>

(* The original has been collected since the check. *)
ProcessMissing(a, n) ==
  /\ At(PipelineOf(a), n, "checked")
  /\ OriginalDir(a) \notin objects
  /\ Proceed(PipelineOf(a), n, "catch")
  /\ UNCHANGED <<asset, outbox, syncDue, previous, stalled, users, kc, fate>>

FlipRow(a) ==
  /\ row' = IF Exists(a) THEN [row EXCEPT ![a] = "ready"] ELSE row
  /\ Touch(a)
  /\ outbox' = outbox \cup {<<"activate", a>>}

(* A run that has seen the row unprocessed and may still end in failure. *)
InPipeline(a, n) == step[<<PipelineOf(a), n>>] \in {"checked", "variants", "catch"}

Contested(a, n) == \E m \in Turns \ {n} : InPipeline(a, m)

ProcessReady(a, n) ==
  /\ At(PipelineOf(a), n, "variants")
  /\ FlipRow(a)
  /\ doubtful' = IF Contested(a, n) THEN doubtful \cup {a} ELSE doubtful
  /\ EndRun(PipelineOf(a), n, "completed")
  /\ UNCHANGED <<deleted, pointer, objects, syncDue, previous, users, kc, faults>>

(* Rendering, uploading or the commit fails; the commit may have taken     *)
(* effect and is then followed by the catch block as well.                 *)
ProcessThrows(a, n) ==
  /\ At(PipelineOf(a), n, "checked") \/ At(PipelineOf(a), n, "variants")
  /\ Fault
  /\ \/ UNCHANGED <<row, aged, outbox, doubtful>>
     \/ /\ At(PipelineOf(a), n, "variants")
        /\ FlipRow(a)
        /\ doubtful' = doubtful \cup {a}
  /\ Proceed(PipelineOf(a), n, "catch")
  /\ UNCHANGED <<deleted, pointer, objects, syncDue, previous, stalled, users, kc>>

ProcessFailed(a, n) ==
  /\ At(PipelineOf(a), n, "catch")
  /\ row' = IF Exists(a) THEN [row EXCEPT ![a] = "failed"] ELSE row
  /\ Touch(a)
  /\ EndRun(PipelineOf(a), n, "failed")
  /\ UNCHANGED <<deleted, pointer, objects, outbox, syncDue, previous, users, kc, fate>>

-----------------------------------------------------------------------------
(* processBrandingActivateLogo *)

ActivationOf(a) == <<"activate", a>>

ActivateSkip(a, n) ==
  /\ At(ActivationOf(a), n, "start")
  /\ ~Exists(a) \/ a \in deleted
  /\ EndRun(ActivationOf(a), n, "completed")
  /\ UNCHANGED <<asset, outbox, syncDue, previous, users, kc, fate>>

(* "BullMQ will retry", but the job was added without attempts. *)
ActivateNotReady(a, n) ==
  /\ At(ActivationOf(a), n, "start")
  /\ row[a] \in {"pending", "failed"} /\ a \notin deleted
  /\ EndRun(ActivationOf(a), n, "failed")
  /\ UNCHANGED <<asset, outbox, syncDue, previous, users, kc, fate>>

ActivateCheck(a, n) ==
  /\ At(ActivationOf(a), n, "start")
  /\ row[a] = "ready" /\ a \notin deleted
  /\ Proceed(ActivationOf(a), n, "checked")
  /\ UNCHANGED <<asset, outbox, syncDue, previous, stalled, users, kc, fate>>

(* The transaction selects the pointer without locking it. *)
ActivateSelect(a, n) ==
  /\ At(ActivationOf(a), n, "checked")
  /\ previous' = [previous EXCEPT ![<<a, n>>] = pointer]
  /\ Proceed(ActivationOf(a), n, "selected")
  /\ UNCHANGED <<asset, outbox, syncDue, stalled, users, kc, fate>>

Replaced(a, n) == {b \in Uploads : b = previous[<<a, n>>] /\ b # a /\ Exists(b)}

(* Repoint, soft-delete what was pointed at, and ask for a sync; none of   *)
(* this looks at the upload's own row again.                               *)
Activate(a, n) ==
  /\ At(ActivationOf(a), n, "selected")
  /\ Exists(a)
  /\ pointer' = a
  /\ deleted' = deleted \cup Replaced(a, n)
  /\ aged' = aged \ Replaced(a, n)
  /\ syncDue' = TRUE
  /\ doubtful' = IF LastWord(ActivationOf(a), n) THEN doubtful ELSE doubtful \cup {a}
  /\ EndRun(ActivationOf(a), n, "completed")
  /\ previous' = [previous EXCEPT ![<<a, n>>] = Null]
  /\ UNCHANGED <<row, objects, outbox, users, kc, faults>>

-----------------------------------------------------------------------------
(* processBrandingGcAsset: the prefix of the original, then a sync event. *)

GcAsset(a, n) ==
  /\ At(<<"gc", a>>, n, "start")
  /\ objects' = objects \ {OriginalDir(a)}
  /\ syncDue' = TRUE
  /\ EndRun(<<"gc", a>>, n, "completed")
  /\ UNCHANGED <<row, deleted, aged, pointer, outbox, previous, users, kc, fate>>

(* A call of an activation or a collection fails, for good as there is one *)
(* attempt.  A gc job whose commit is doubtful only repeats its event.     *)
JobThrows(e, n) ==
  /\ ~At(e, n, "none") /\ e[1] # "process"
  /\ Fault
  /\ \/ e[1] = "gc" /\ objects' = objects \ {OriginalDir(e[2])}
     \/ UNCHANGED objects
  /\ EndRun(e, n, "failed")
  /\ UNCHANGED <<row, deleted, aged, pointer, outbox, syncDue, previous, users, kc, doubtful>>

-----------------------------------------------------------------------------
(* processBrandingOrphanGcSweep *)

(* An upload still on its way through outbox and queues. *)
InProgress(a) ==
  \E e \in {"process", "activate"} \X {a} :
    (e \in outbox /\ job[e] \notin Terminal) \/ Running(e)

(* Seven days pass without a touch.  The grace period is taken to be       *)
(* longer than any backlog of the outbox and the queues and than any run.  *)
Age(a) ==
  /\ Exists(a) /\ a \notin aged
  /\ ~InProgress(a)
  /\ aged' = aged \cup {a}
  /\ UNCHANGED <<row, deleted, pointer, objects, work, users, kc, fate>>

(* deleted_at or updated_at before the grace period; not the active logo. *)
Orphans_AnyAged == {a \in aged : Exists(a)}

Orphans == {a \in aged : Exists(a) /\ pointer # a}

(* The two database phases of the sweep, each with a select of its own. *)
SweepSelect ==
  /\ doomed = {} /\ Busy < Pods
  /\ \E rows \in {Orphans \cap deleted, Orphans \ deleted} :
       rows # {} /\ doomed' = rows
  /\ UNCHANGED <<asset, work, removing, kc, fate>>

Reap_LeavesRow(a) ==
  /\ a \in doomed
  /\ doomed' = doomed \ {a}
  /\ objects' = objects \ {OriginalDir(a)}
  /\ UNCHANGED <<row, deleted, aged, pointer, work, removing, kc, fate>>

(* Drop the prefix and the row; the foreign key is ON DELETE SET NULL. *)
Reap(a) ==
  /\ a \in doomed
  /\ doomed' = doomed \ {a}
  /\ objects' = objects \ {OriginalDir(a)}
  /\ row' = [row EXCEPT ![a] = "gone"]
  /\ deleted' = deleted \ {a} /\ aged' = aged \ {a}
  /\ pointer' = IF pointer = a THEN Null ELSE pointer
  /\ UNCHANGED <<work, removing, kc, fate>>

(* Logged, or the worker dies; the row stays for the next night. *)
ReapFails(a) ==
  /\ a \in doomed
  /\ Fault
  /\ doomed' = doomed \ {a}
  /\ (objects' = objects \ {OriginalDir(a)} \/ UNCHANGED objects)
  /\ UNCHANGED <<row, deleted, aged, pointer, work, removing, kc, doubtful>>

-----------------------------------------------------------------------------
(* processKeycloakSyncOrgLogo *)

(* Pointer and row are read in two statements outside a transaction. *)
SyncPointer(n) ==
  /\ At(Sync, n, "start")
  /\ synced' = [synced EXCEPT ![n] = pointer]
  /\ Proceed(Sync, n, "pointer")
  /\ UNCHANGED <<asset, outbox, syncDue, previous, stalled, users, logoUrl, fate>>

Servable(a) == a \in Uploads /\ row[a] = "ready" /\ a \notin deleted

SyncRow(n) ==
  /\ At(Sync, n, "pointer")
  /\ synced' = IF synced[n] # Null /\ Servable(synced[n])
                 THEN synced ELSE [synced EXCEPT ![n] = Null]
  /\ Proceed(Sync, n, "row")
  /\ UNCHANGED <<asset, outbox, syncDue, previous, stalled, users, logoUrl, fate>>

(* The attribute is set, or cleared when there is nothing to show. *)
SyncPut(n) ==
  /\ At(Sync, n, "row")
  /\ logoUrl' = synced[n]
  /\ synced' = [synced EXCEPT ![n] = Null]
  /\ EndRun(Sync, n, "completed")
  /\ UNCHANGED <<asset, outbox, syncDue, previous, users, fate>>

SyncThrows(n) ==
  /\ ~At(Sync, n, "none")
  /\ Fault
  /\ \/ At(Sync, n, "row") /\ logoUrl' = synced[n]
     \/ UNCHANGED logoUrl
  /\ EndRun(Sync, n, "failed")
  /\ synced' = [synced EXCEPT ![n] = Null]
  /\ UNCHANGED <<asset, outbox, syncDue, previous, users, doubtful>>

-----------------------------------------------------------------------------
Init ==
  /\ row = [a \in Uploads |-> "absent"]
  /\ deleted = {} /\ aged = {} /\ pointer = Null /\ objects = {}
  /\ outbox = {} /\ syncDue = FALSE
  /\ job = EmptyQueue(Jobs)
  /\ step = [r \in Runs |-> "none"]
  /\ previous = [r \in Uploads \X Turns |-> Null]
  /\ stalled = {}
  /\ removing = Null /\ doomed = {}
  /\ synced = [n \in Turns |-> Null] /\ logoUrl = Null
  /\ faults = 0 /\ doubtful = {}

Operator == RemoveRead \/ Remove \/ RemoveFails \/ \E a \in Uploads : Upload(a)

Process(a, n) ==
  \/ ProcessSkip(a, n) \/ ProcessCheck(a, n) \/ ProcessVariants(a, n)
  \/ ProcessMissing(a, n) \/ ProcessReady(a, n) \/ ProcessFailed(a, n)

Activation(a, n) ==
  \/ ActivateSkip(a, n) \/ ActivateNotReady(a, n) \/ ActivateCheck(a, n)
  \/ ActivateSelect(a, n) \/ Activate(a, n)

Sweep == SweepSelect \/ \E a \in Uploads : Reap(a)

SyncLogo == \E n \in Turns : SyncPointer(n) \/ SyncRow(n) \/ SyncPut(n)

Disturbance ==
  \/ \E e \in Events : Park(e) \/ \E n \in Turns : JobThrows(e, n)
  \/ \E j \in Jobs : Stall(j)
  \/ \E a \in Uploads :
       UploadFails(a) \/ ReapFails(a) \/ \E n \in Turns : ProcessThrows(a, n)
  \/ ParkSync \/ \E n \in Turns : SyncThrows(n)

Relay == DispatchSync \/ \E e \in Events : Dispatch(e)

Pickup == \E j \in Jobs : TakeJob(j)

Handler ==
  \E a \in Uploads, n \in Turns : Process(a, n) \/ Activation(a, n) \/ GcAsset(a, n)

Time == \E a \in Uploads : Age(a)

(* What goes on by itself: the relay polls, BullMQ hands out waiting jobs, *)
(* a run takes its next step, time passes, the nightly sweep is scheduled. *)
System == Relay \/ Pickup \/ Handler \/ SyncLogo \/ Sweep \/ Time

Next == Operator \/ Disturbance \/ System

(* No part of the system is favoured: it only goes on while it can. *)
Fairness == WF_vars(System)

Spec == Init /\ [][Next]_vars
FairSpec == Spec /\ Fairness

-----------------------------------------------------------------------------
TypeOK ==
  /\ row \in [Uploads -> {"absent", "pending", "failed", "ready", "gone"}]
  /\ deleted \subseteq Uploads /\ aged \subseteq Uploads
  /\ pointer \in Uploads \cup {Null}
  /\ objects \subseteq Dirs
  /\ outbox \subseteq Events /\ syncDue \in BOOLEAN
  /\ job \in [Jobs -> JobState]
  /\ step \in [Runs -> {"none", "start", "checked", "variants", "catch", "selected", "pointer", "row"}]
  /\ previous \in [Uploads \X Turns -> Uploads \cup {Null}]
  /\ removing \in Uploads \cup {Null} /\ doomed \subseteq Uploads
  /\ synced \in [Turns -> Uploads \cup {Null}] /\ logoUrl \in Uploads \cup {Null}
  /\ stalled \subseteq Jobs
  /\ faults \in 0 .. MaxFaults /\ doubtful \subseteq Uploads

(* The activation event exists only once the row is ready, so its          *)
(* processor never sees a row still in the pipeline.  Only after a flip    *)
(* that was reported as an error, or that happened while another run of    *)
(* the pipeline was past its check, can a catch block take the row back;   *)
(* a second run, or one that lost its lock, never does so otherwise.       *)
ActivationIsCausal ==
  \A a \in Uploads :
    <<"activate", a>> \in outbox =>
      row[a] \in {"ready", "gone"} \/ (row[a] = "failed" /\ a \in doubtful)

(* What the pointer shows is a ready upload that nobody removed, however   *)
(* activations, removals and the sweep interleave.  Except for an upload   *)
(* whose flip or activation was not the last word of its job: the catch    *)
(* block of a commit reported as an error, or of another run, marks the    *)
(* active logo failed, and another or a later run of an activation brings  *)
(* a removed one back.                                                     *)
ActiveLogoServable ==
  pointer # Null /\ pointer \notin doubtful => Servable(pointer)

(* The sweep, acting on rows it selected earlier, never reaps the upload   *)
(* the pointer shows.                                                      *)
SweepSparesActive ==
  [][\A a \in Uploads : Exists(a) /\ row'[a] = "gone" => pointer # a]_vars

(* Replaced, removed, failed and stranded uploads all lose their row: in   *)
(* the end only the active logo is left.                                   *)
OrphansAreReaped ==
  <>[](\A a \in Uploads : Exists(a) => pointer = a)

(* "A flurry of activations + gc on the same tenant collapses to a single  *)
(* sync (last-write-wins)": Keycloak ends up showing what the pointer      *)
(* does.  (False.)                                                         *)
LastWriteWins ==
  <>[](logoUrl = IF pointer # Null /\ Servable(pointer) THEN pointer ELSE Null)

=============================================================================
