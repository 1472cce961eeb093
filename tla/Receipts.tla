------------------------------ MODULE Receipts ------------------------------
(***************************************************************************)
(* The tax receipts of one tenant and fiscal year.  The event worker turns *)
(* donation.created into a job receipt-<donation id>; a run of it takes    *)
(* the next receipt number, uploads the PDF and stores the receipts row,   *)
(* all inside one transaction.  With envelope encryption on, the object is *)
(* sealed with a key of its own (the DEK), which the row holds wrapped     *)
(* under a version of the platform's key (the KEK).  An operator rotates   *)
(* the KEK by the runbook: add a version, redeploy, sweep the rows onto it *)
(* and retire the old version.                                             *)
(*                                                                         *)
(* Attempt n of donation d is run <<d, n>>, which also names its DEK.  The *)
(* object's key is the receipt number.  A process that is killed while it  *)
(* uploads leaves no object behind.                                        *)
(***************************************************************************)
EXTENDS Integers, FiniteSets, JobQueue

CONSTANTS
  Donations,
  Pods,         \* worker processes; their five slots per process never fill up here
  Ranks,        \* where the random row ids sort
  None,
  BatchSize,    \* rows the sweep reads at a time
  MaxVersions,  \* bound: KEK versions
  MaxSweeps,    \* bound: re-wrap jobs
  MaxTroubles   \* bound: errors, crashes, stalls and lost connections

(* A job that was found stalled is run again once (external: BullMQ). *)
MaxAttempts == 2
Attempts == 1..MaxAttempts

ASSUME NoneAssumption == None \notin Pods /\ None \notin Donations \X Attempts
(* 0 stands for no cursor *)
ASSUME RanksAssumption == Ranks \subseteq Nat \ {0}
ASSUME BoundsAssumption ==
  BatchSize \in Nat \ {0} /\ MaxVersions \in Nat /\ MaxSweeps \in Nat /\ MaxTroubles \in Nat

VARIABLES
  donations, \* the donations rows
  printed,   \* donations.receipt_number, 0 before there is one
  jobs,      \* the receipts queue
  tries,     \* attempts of each job so far
  run,       \* the runs of processGenerateReceipt
  next,      \* receipt_sequences.next_val as committed
  holder,    \* the run whose transaction holds the sequence row
  bucket,    \* the objects of the receipts bucket
  receipts,  \* the receipts rows
  config,    \* the operator's configuration: keyring and active version
  configs,   \* the configuration each worker process was started with
  sweep,     \* the re-wrap job
  sweeps,
  clean,     \* the operator saw this rotation's sweep end with failed: 0
  troubles,
  issued,    \* history: the numbers of committed receipts
  severed,   \* history: numbers being uploaded when the connection was lost
  rerun      \* history: donations whose job was taken for stalled

donationVars == <<donations, printed>>
jobVars == <<jobs, tries>>
rowVars == <<next, receipts, issued>>
keyVars == <<config, configs, clean>>
sweepVars == <<sweep, sweeps>>
historyVars == <<severed, rerun>>
vars == <<donationVars, jobVars, run, rowVars, holder, bucket, keyVars, sweepVars,
          troubles, historyVars>>

Trouble == troubles < MaxTroubles /\ troubles' = troubles + 1

(* The active version wraps, every version in the keyring unwraps. *)
NoConfig == [keys |-> {}, active |-> 0]
Configured(c) == c.keys # {}

(* kek is the version the run will wrap with, 0 when it writes plaintext.  *)
RunAt(at, pod, kek) == [at |-> at, pod |-> pod, number |-> 0, kek |-> kek, lost |-> FALSE]
NoRun == RunAt("idle", None, 0)
Gone == RunAt("gone", None, 0)

SweepJob(at, force, again) ==
  [at |-> at, pod |-> None, force |-> force, again |-> again, config |-> NoConfig,
   cursor |-> 0, batch |-> {}, full |-> FALSE, failed |-> FALSE]
NoSweep == SweepJob("idle", FALSE, FALSE)

Sealed(r) == r.dek # None
Settled == \A p \in Pods : configs[p] = config

-----------------------------------------------------------------------------
(* Generating a receipt *)

(* Jobs that get an id of the queue's choice. *)
RouteEvent_NoJobId(d) ==
  /\ jobs[d] # "active" /\ tries[d] < MaxAttempts
  /\ jobs' = Move(jobs, d, "waiting")
  /\ UNCHANGED <<donationVars, tries, run, rowVars, holder, bucket, keyVars, sweepVars,
                 troubles, historyVars>>

(* A second delivery of the event finds the job id taken. *)
RouteEvent(d) ==
  /\ jobs[d] = "none"
  /\ jobs' = Enqueue(jobs, d)
  /\ UNCHANGED <<donationVars, tries, run, rowVars, holder, bucket, keyVars, sweepVars,
                 troubles, historyVars>>

(* What a read of donation.receipt_envelope_encryption returns: the flag   *)
(* may have been switched since the last read.                             *)
FlagRead == BOOLEAN

(* The flag is read and the key provider built before anything else; with  *)
(* the flag on and no key configured the job fails here.                   *)
PickUp(d, p, envelope) ==
  /\ jobs[d] = "waiting" /\ tries[d] < MaxAttempts
  /\ tries' = [tries EXCEPT ![d] = @ + 1]
  /\ \/ /\ envelope /\ ~Configured(configs[p])
        /\ jobs' = Move(jobs, d, "failed")
        /\ UNCHANGED run
     \/ /\ envelope => Configured(configs[p])
        /\ jobs' = Move(jobs, d, "active")
        /\ run' = [run EXCEPT ![d][tries[d] + 1] =
                     RunAt("begun", p, IF envelope THEN configs[p].active ELSE 0)]
  /\ UNCHANGED <<donationVars, rowVars, holder, bucket, keyVars, sweepVars, troubles,
                 historyVars>>

(* A run reports to its job only while it is the job's latest attempt. *)
Finish(d, n, state) ==
  /\ run' = [run EXCEPT ![d][n] = NoRun]
  /\ jobs' = IF jobs[d] = "active" /\ tries[d] = n THEN Move(jobs, d, state) ELSE jobs
  /\ UNCHANGED tries

Release_OnlyOnCommit(d, n) == UNCHANGED holder

(* The end of a transaction frees the sequence row. *)
Release(d, n) == holder' = IF holder = <<d, n>> THEN None ELSE holder

(* An exception: the transaction rolls back and the job, which has a       *)
(* single attempt, fails.                                                  *)
Throw(d, n) ==
  /\ Release(d, n)
  /\ Finish(d, n, "failed")
  /\ UNCHANGED <<donationVars, rowVars, bucket, keyVars, sweepVars, historyVars>>

(* A sequence read and advanced outside the receipt's transaction. *)
Allocate_OwnTransaction(d, n) ==
  /\ run[d][n].at = "begun" /\ ~run[d][n].lost /\ donations[d]
  /\ next' = next + 1
  /\ run' = [run EXCEPT ![d][n].at = "uploading", ![d][n].number = next + 1]
  /\ UNCHANGED <<donationVars, jobVars, receipts, issued, holder, bucket, keyVars,
                 sweepVars, troubles, historyVars>>

(* A number computed from a plain read. *)
Allocate_NoRowLock(d, n) ==
  /\ run[d][n].at = "begun" /\ ~run[d][n].lost /\ donations[d]
  /\ run' = [run EXCEPT ![d][n].at = "uploading", ![d][n].number = next + 1]
  /\ UNCHANGED <<donationVars, jobVars, rowVars, holder, bucket, keyVars, sweepVars,
                 troubles, historyVars>>

(* The donation is read and the sequence row upserted: the upsert waits    *)
(* for the transaction that holds the row and sees what that committed.  A *)
(* donation deleted during the wait is noticed when the row is inserted,   *)
(* like one deleted later.                                                 *)
Allocate(d, n) ==
  /\ run[d][n].at = "begun" /\ ~run[d][n].lost /\ donations[d] /\ holder = None
  /\ holder' = <<d, n>>
  /\ run' = [run EXCEPT ![d][n].at = "uploading", ![d][n].number = next + 1]
  /\ UNCHANGED <<donationVars, jobVars, rowVars, bucket, keyVars, sweepVars, troubles,
                 historyVars>>

(* a fresh key per run *)
KeyOf(d, n) == IF run[d][n].kek = 0 THEN None ELSE <<d, n>>

(* The PUT replaces whatever the key held.  It does not need the database. *)
Upload(d, n) ==
  /\ run[d][n].at = "uploading"
  /\ LET number == run[d][n].number
         object == [number |-> number, of |-> d, dek |-> KeyOf(d, n)]
     IN bucket' = {o \in bucket : o.number # number} \cup {object}
  /\ run' = [run EXCEPT ![d][n].at = "inserting"]
  /\ UNCHANGED <<donationVars, jobVars, rowVars, holder, keyVars, sweepVars, troubles,
                 historyVars>>

Insertable_NoForeignKey(d, n) == \A r \in receipts : r.number # run[d][n].number

(* unique (org, fiscal year, number) and the foreign key to the donation *)
Insertable(d, n) == donations[d] /\ \A r \in receipts : r.number # run[d][n].number

ReceiptRow(d, n, rank) ==
  [number |-> run[d][n].number, of |-> d, rank |-> rank, dek |-> KeyOf(d, n),
   wrappedBy |-> run[d][n].kek, version |-> run[d][n].kek]

(* The DEK is wrapped, the row inserted, the donation updated and the      *)
(* transaction committed.  When the answer to the commit is lost, the job  *)
(* fails although the receipt exists.                                      *)
Commit(d, n, rank, answered) ==
  /\ run[d][n].at = "inserting" /\ ~run[d][n].lost /\ Insertable(d, n)
  /\ \A r \in receipts : r.rank # rank
  /\ receipts' = receipts \cup {ReceiptRow(d, n, rank)}
  /\ printed' = [printed EXCEPT ![d] = run[d][n].number]
  /\ next' = run[d][n].number
  /\ issued' = issued \cup {run[d][n].number}
  /\ Release(d, n)
  /\ IF answered THEN Finish(d, n, "completed") /\ UNCHANGED troubles
                 ELSE Finish(d, n, "failed") /\ Trouble
  /\ UNCHANGED <<donations, bucket, keyVars, sweepVars, historyVars>>

(* No donation any more, a constraint, or no connection any more. *)
Refused(d, n) ==
  /\ \/ run[d][n].at = "begun" /\ ~donations[d]
     \/ run[d][n].at = "inserting" /\ ~Insertable(d, n)
     \/ run[d][n].at \in {"begun", "inserting"} /\ run[d][n].lost
  /\ Throw(d, n)
  /\ UNCHANGED troubles

-----------------------------------------------------------------------------
(* What goes wrong *)

(* PDF, storage, key service or database. *)
RunThrows(d, n) ==
  /\ run[d][n].at \notin {"idle", "gone"}
  /\ Trouble /\ Throw(d, n)

(* Postgres ends the session and rolls back; the process notices at its    *)
(* next query, and an upload under way goes on.                            *)
LoseConnection(d, n) ==
  /\ run[d][n].at \notin {"idle", "gone"} /\ ~run[d][n].lost
  /\ Trouble
  /\ run' = [run EXCEPT ![d][n].lost = TRUE]
  /\ Release(d, n)
  /\ severed' = IF run[d][n].at = "uploading" THEN severed \cup {run[d][n].number} ELSE severed
  /\ UNCHANGED <<donationVars, jobVars, rowVars, bucket, keyVars, sweepVars, rerun>>

(* The worker has no shutdown handler: a stop is a kill. *)
Killed(p) ==
  /\ run' = [d \in Donations |-> [n \in Attempts |->
               IF run[d][n].pod = p THEN Gone ELSE run[d][n]]]
  /\ holder' = IF \E d \in Donations, n \in Attempts : holder = <<d, n>> /\ run[d][n].pod = p
               THEN None ELSE holder
  /\ sweep' = IF sweep.pod = p THEN [sweep EXCEPT !.at = "gone", !.pod = None, !.batch = {}] ELSE sweep

WorkerDies(p) ==
  /\ sweep.pod = p \/ \E d \in Donations, n \in Attempts : run[d][n].pod = p
  /\ Trouble /\ Killed(p)
  /\ UNCHANGED <<donationVars, jobVars, rowVars, bucket, keyVars, sweeps, historyVars>>

(* The queue takes a job for stalled when its run is gone, or when the run *)
(* is alive but its process was too busy to renew the lock.                *)
Stall(d) ==
  /\ jobs[d] = "active"
  /\ IF run[d][tries[d]].at = "gone" THEN UNCHANGED troubles ELSE Trouble
  /\ jobs' = Move(jobs, d, IF tries[d] < MaxAttempts THEN "waiting" ELSE "failed")
  /\ rerun' = rerun \cup {d}
  /\ UNCHANGED <<donationVars, tries, run, rowVars, holder, bucket, keyVars, sweepVars,
                 severed>>

-----------------------------------------------------------------------------
(* Other users *)

(* receipts go with the donation, by cascade *)
DeleteDonation(d) ==
  /\ donations[d]
  /\ donations' = [donations EXCEPT ![d] = FALSE]
  /\ receipts' = {r \in receipts : r.of # d}
  /\ UNCHANGED <<printed, jobVars, run, next, issued, holder, bucket, keyVars, sweepVars,
                 troubles, historyVars>>

-----------------------------------------------------------------------------
(* Rotating the key: the operator follows docs/runbooks/receipt-kek-rotation.md *)

operatorKeeps == <<donationVars, jobVars, rowVars, bucket, troubles, historyVars>>

AddVersion ==
  /\ Settled /\ sweep.at = "idle" /\ config.active < MaxVersions
  /\ config' = [keys |-> config.keys \cup {config.active + 1}, active |-> config.active + 1]
  /\ clean' = FALSE
  /\ UNCHANGED <<operatorKeeps, run, holder, configs, sweepVars>>

(* The process is replaced by one with the new configuration. *)
Redeploy(p) ==
  /\ configs[p] # config
  /\ configs' = [configs EXCEPT ![p] = config]
  /\ Killed(p)
  /\ UNCHANGED <<operatorKeeps, config, clean, sweeps>>

TriggerSweep(force) ==
  /\ Settled /\ sweep.at = "idle" /\ sweeps < MaxSweeps
  /\ sweep' = SweepJob("waiting", force, FALSE)
  /\ sweeps' = sweeps + 1
  /\ clean' = FALSE
  /\ UNCHANGED <<operatorKeeps, run, holder, config, configs>>

(* Step 6: failed: 0, and no row names another version. *)
RetireVersion ==
  /\ Settled /\ clean /\ config.keys # {config.active}
  /\ \A r \in receipts : Sealed(r) => r.version = config.active
  /\ config' = [config EXCEPT !.keys = {config.active}]
  /\ UNCHANGED <<operatorKeeps, run, holder, configs, clean, sweepVars>>

-----------------------------------------------------------------------------
(* processRewrapReceiptDeks *)

sweepKeeps == <<donationVars, jobVars, run, next, issued, holder, bucket, config,
                configs, sweeps, historyVars>>

(* Skipped when the flag is off and nobody forces it; fails without a key. *)
StartSweep(p, envelope) ==
  /\ sweep.at = "waiting"
  /\ sweep' = IF (envelope \/ sweep.force) /\ Configured(configs[p])
              THEN [sweep EXCEPT !.at = "scan", !.pod = p, !.config = configs[p]]
              ELSE NoSweep
  /\ UNCHANGED <<sweepKeeps, receipts, clean, troubles>>

EndSweep == sweep' = NoSweep /\ clean' = ~sweep.failed

(* The keyset predicate, and the first BatchSize rows of it by id.         *)
Outdated ==
  {r \in receipts : Sealed(r) /\ r.version # sweep.config.active /\ r.rank > sweep.cursor}

IsPage(page) ==
  /\ page \subseteq Outdated
  /\ \A r \in page, q \in Outdated \ page : r.rank < q.rank
  /\ \/ Cardinality(page) = BatchSize
     \/ Cardinality(page) < BatchSize /\ page = Outdated

(* The cursor moves to the last row of the page. *)
ScanPage ==
  /\ sweep.at = "scan"
  /\ \/ Outdated = {} /\ EndSweep
     \/ \E page \in SUBSET Outdated : \E last \in page :
          /\ IsPage(page) /\ \A r \in page : r.rank <= last.rank
          /\ sweep' = [sweep EXCEPT !.at = "rewrap", !.batch = page, !.cursor = last.rank,
                                    !.full = Cardinality(page) = BatchSize]
          /\ UNCHANGED clean
  /\ UNCHANGED <<sweepKeeps, receipts, troubles>>

Rewrapped_LabelOnly(q, r) == [q EXCEPT !.version = sweep.config.active]

(* q with the DEK that was in r, wrapped under the active version. *)
Rewrapped(q, r) ==
  [q EXCEPT !.dek = r.dek, !.version = sweep.config.active, !.wrappedBy = sweep.config.active]

(* Unwrapping needs the version in the process's keyring. *)
Unwrappable(r) == r.version \in sweep.config.keys /\ r.wrappedBy = r.version

RowFails_Uncounted(r) == sweep' = [sweep EXCEPT !.batch = @ \ {r}]

RowFails(r) == sweep' = [sweep EXCEPT !.batch = @ \ {r}, !.failed = TRUE]

(* The next row of the page, as the page was read; a row that fails does   *)
(* not stop the sweep.                                                     *)
RewrapRow(r) ==
  /\ sweep.at = "rewrap" /\ r \in sweep.batch
  /\ \A q \in sweep.batch : r.rank <= q.rank
  /\ \/ /\ Unwrappable(r)
        /\ receipts' = {IF q.number = r.number THEN Rewrapped(q, r) ELSE q : q \in receipts}
        /\ sweep' = [sweep EXCEPT !.batch = @ \ {r}]
        /\ UNCHANGED troubles
     \/ /\ IF Unwrappable(r) THEN Trouble ELSE UNCHANGED troubles
        /\ RowFails(r)
        /\ UNCHANGED receipts
  /\ UNCHANGED <<sweepKeeps, clean>>

(* A short page was the last one. *)
TurnPage ==
  /\ sweep.at = "rewrap" /\ sweep.batch = {}
  /\ IF sweep.full THEN sweep' = [sweep EXCEPT !.at = "scan"] /\ UNCHANGED clean ELSE EndSweep
  /\ UNCHANGED <<sweepKeeps, receipts, troubles>>

(* A page cannot be read. *)
SweepThrows ==
  /\ sweep.at = "scan"
  /\ Trouble
  /\ sweep' = NoSweep
  /\ UNCHANGED <<sweepKeeps, receipts, clean>>

(* The job of a dead worker is run again once. *)
StallSweep ==
  /\ sweep.at = "gone"
  /\ sweep' = IF sweep.again THEN NoSweep ELSE SweepJob("waiting", sweep.force, TRUE)
  /\ UNCHANGED <<sweepKeeps, receipts, clean, troubles>>

-----------------------------------------------------------------------------
Init ==
  /\ donations = [d \in Donations |-> TRUE] /\ printed = [d \in Donations |-> 0]
  /\ jobs = EmptyQueue(Donations) /\ tries = [d \in Donations |-> 0]
  /\ run = [d \in Donations |-> [n \in Attempts |-> NoRun]]
  /\ next = 0 /\ holder = None
  /\ bucket = {} /\ receipts = {} /\ issued = {}
  /\ config \in {NoConfig} \cup (IF MaxVersions > 0 THEN {[keys |-> {1}, active |-> 1]} ELSE {})
  /\ configs = [p \in Pods |-> config]
  /\ sweep = NoSweep /\ sweeps = 0 /\ clean = FALSE
  /\ troubles = 0 /\ severed = {} /\ rerun = {}

RunStep(d, n) ==
  \/ Allocate(d, n) \/ Upload(d, n) \/ Refused(d, n)
  \/ \E rank \in Ranks : Commit(d, n, rank, TRUE)

RunFails(d, n) ==
  \/ RunThrows(d, n) \/ LoseConnection(d, n)
  \/ \E rank \in Ranks : Commit(d, n, rank, FALSE)

SweepStep ==
  \/ \E p \in Pods, envelope \in FlagRead : StartSweep(p, envelope)
  \/ ScanPage \/ TurnPage \/ StallSweep
  \/ \E r \in sweep.batch : RewrapRow(r)

Operator ==
  \/ AddVersion \/ RetireVersion
  \/ \E p \in Pods : Redeploy(p)
  \/ \E force \in BOOLEAN : TriggerSweep(force)

Next ==
  \/ \E d \in Donations :
       \/ RouteEvent(d) \/ Stall(d) \/ DeleteDonation(d)
       \/ \E p \in Pods, envelope \in FlagRead : PickUp(d, p, envelope)
       \/ \E n \in Attempts : RunStep(d, n) \/ RunFails(d, n)
  \/ \E p \in Pods : WorkerDies(p)
  \/ Operator
  \/ SweepStep \/ SweepThrows

Spec == Init /\ [][Next]_vars

-----------------------------------------------------------------------------
KeyName == Donations \X Attempts
Versions == 1..MaxVersions

Config == [keys : SUBSET Versions, active : 0..MaxVersions]

RunRecord ==
  [at : {"idle", "begun", "uploading", "inserting", "gone"}, pod : Pods \cup {None},
   number : Nat, kek : 0..MaxVersions, lost : BOOLEAN]

Row == [number : Nat, of : Donations, rank : Ranks, dek : KeyName \cup {None},
        wrappedBy : 0..MaxVersions, version : 0..MaxVersions]

SweepRecord ==
  [at : {"idle", "waiting", "scan", "rewrap", "gone"}, pod : Pods \cup {None}, force : BOOLEAN,
   again : BOOLEAN, config : Config, cursor : Nat, batch : SUBSET Row, full : BOOLEAN,
   failed : BOOLEAN]

(* Every reachable state is well typed. *)
TypeOK ==
  /\ donations \in [Donations -> BOOLEAN] /\ printed \in [Donations -> Nat]
  /\ jobs \in [Donations -> JobState] /\ tries \in [Donations -> 0..MaxAttempts]
  /\ run \in [Donations -> [Attempts -> RunRecord]]
  /\ next \in Nat /\ holder \in KeyName \cup {None}
  /\ bucket \subseteq [number : Nat, of : Donations, dek : KeyName \cup {None}]
  /\ receipts \subseteq Row
  /\ config \in Config /\ configs \in [Pods -> Config]
  /\ sweep \in SweepRecord /\ sweeps \in Nat /\ clean \in BOOLEAN
  /\ troubles \in Nat /\ issued \subseteq Nat /\ severed \subseteq Nat /\ rerun \subseteq Donations

(* Receipt numbers are gapless: whatever fails, crashes or loses its       *)
(* connection between taking a number and committing, the committed        *)
(* receipts used exactly the numbers up to the sequence's value.           *)
GaplessNumbers == issued = 1..next

(* The object a receipt points at is the one its own run uploaded, sealed  *)
(* with the key the row holds, although the key of the object is a number  *)
(* that a rolled-back run may have used before.  Only an upload that       *)
(* outlives its database session can put another's PDF there.              *)
ReceiptsHoldTheirOwn ==
  \A r \in receipts : r.number \notin severed =>
    \E o \in bucket : o.number = r.number /\ o.of = r.of /\ o.dek = r.dek

(* The number printed on the donation is that of every receipt it has, so  *)
(* it has one, unless its job was run again as stalled.                    *)
OneReceiptPerDonation ==
  \A r \in receipts : r.of \notin rerun => r.number = printed[r.of]

(* A rotation bricks no receipt: the version a row names is the one its    *)
(* DEK is wrapped by, and the operator still has it.                       *)
ReceiptsStayReadable ==
  \A r \in receipts : Sealed(r) => r.wrappedBy = r.version /\ r.version \in config.keys

(* A sweep that reports failed: 0 after the redeploy has left no row on an *)
(* older version, and none appears later: neither behind its cursor nor    *)
(* from a run that was under way.                                          *)
CleanSweepIsComplete ==
  clean => \A r \in receipts : Sealed(r) => r.version = config.active

(* All runs wait for one row that a run holds during its upload: whoever   *)
(* holds it is alive and connected, so that it will commit or roll back.   *)
SequenceIsNeverStranded ==
  \A d \in Donations, n \in Attempts :
    holder = <<d, n>> => run[d][n].at \in {"uploading", "inserting"} /\ ~run[d][n].lost

-----------------------------------------------------------------------------
(* The donations, the committed sequence and the receipts rows, read as a  *)
(* book of receipts.                                                       *)
Book == INSTANCE ReceiptBook WITH
  last     <- next,
  entries  <- {[number |-> r.number, of |-> r.of] : r \in receipts},
  standing <- {d \in Donations : donations[d]},
  doubted  <- rerun

(* The receipts are kept like a book: a number, its row and the number on  *)
(* the donation appear in one step and for a donation that still exists,   *)
(* rows are never rewritten by the rotation, vanish only with their        *)
(* donation, and a second one needs a job that was taken for stalled.      *)
ImplementsBook == Book!Spec

=============================================================================
