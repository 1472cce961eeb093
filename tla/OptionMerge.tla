---------------------------- MODULE OptionMerge -----------------------------
(***************************************************************************)
(* Merging one option of a custom picklist into another, and undoing it.   *)
(* The API marks the source option and publishes an event in one           *)
(* transaction; a worker then rewrites, chunk by chunk, the records that   *)
(* hold the source and keeps their previous values for thirty days in      *)
(* custom_field_merge_undo.  An undo clears the mark and has a worker put  *)
(* the previous values back.  Meanwhile users edit the same records and    *)
(* the GDPR worker erases them.                                            *)
(*                                                                         *)
(* One definition of one tenant.  Its domain decides how the records       *)
(* behave: "constituent" rows are soft-deleted and edited without a row    *)
(* lock; "donation" rows (of a sensitive definition) are stripped by an    *)
(* erasure of the donor; "campaign" stands for every definition erasure    *)
(* leaves alone.  A value is the set of option ids a record holds, at most *)
(* one for a picklist.  Merge m is the m-th merge requested.               *)
(***************************************************************************)
EXTENDS Integers, FiniteSets, Sequences

CONSTANTS
  Domains,     \* the domains the definition may have
  Records,
  Options,
  Holdings,    \* the values a user may enter
  Beginnings,  \* what the records may hold before the first merge
  Pairs,       \* the merges an administrator may ask for: source, target
  Editors,     \* requests that edit a record
  None,        \* "no chunk", "no record"
  Pods,        \* worker processes consuming the custom-fields queue
  ChunkSize,
  MaxAttempts, \* attempts of a job
  MaxMerges,   \* bound: merges requested
  MaxTroubles  \* bound: changes of the flag or of an active bit, windows closed,
               \* failed attempts, stalls, deletions and erasures

ASSUME DomainsAssumption == Domains \subseteq {"constituent", "donation", "campaign"}
ASSUME RecordsAssumption == IsFiniteSet(Records) /\ None \notin Records
ASSUME HoldingsAssumption ==
  Holdings \subseteq SUBSET Options /\ Beginnings \subseteq [Records -> SUBSET Options]
ASSUME PairsAssumption == Pairs \subseteq Options \X Options
ASSUME NoChunkAssumption ==
  None \notin [merge : 1..MaxMerges, saw : UNION {[R -> SUBSET Options] : R \in SUBSET Records}]
ASSUME BoundsAssumption ==
  /\ Pods \in Nat \ {0} /\ ChunkSize \in Nat \ {0} /\ MaxAttempts \in Nat \ {0}
  /\ MaxMerges \in Nat /\ MaxTroubles \in Nat

VARIABLES
  domain,
  options,  \* per option: active, and the id of the merge it carries (0: none)
  merges,   \* the merges requested so far: source and target
  expired,  \* merges whose thirty-day window is over
  value,    \* what each record holds under the definition's key
  gone,     \* soft-deleted records
  undo,     \* the rows of custom_field_merge_undo
  jobs,     \* the backfill and the undo job of each merge
  strays,   \* jobs of which a run that lost its lock is still at work
  chunk,    \* the chunk of a backfill that is open: its merge, what its scan saw
  edits,    \* the edits in progress
  flag,     \* the domain's custom_fields flag
  troubles,
  erased,   \* history: records of erased subjects
  edited,   \* history: records edited (for an erased one: since the erasure)
  initial,  \* history: what the records held before the first merge
  met,      \* history: the merges, alone or in pairs, jobs of which were at
            \* work at the same time
  tangled   \* history: a merge or an undo was requested before the earlier
            \* ones had been worked off, or an older merge was undone first

catalogVars == <<domain, options, merges, expired>>
historyVars == <<erased, edited, initial, met, tangled>>
queueVars == <<jobs, strays, chunk>>
vars == <<catalogVars, value, gone, undo, queueVars, edits, flag, troubles, historyVars>>

Merges == 1..MaxMerges
Kinds == {"merge", "undo"}
JobStatus == {"none", "queued", "running", "done", "dropped", "failed"}

JobIn(status) == [status |-> status, tries |-> 0, stalled |-> FALSE]
EditIn(stage) == [stage |-> stage, record |-> None, catalog |-> {}, base |-> {}]

Active == {o \in Options : options[o].active}
InForce(m) == options[merges[m].source].merge = m
Requested(m) == m \in DOMAIN merges

(* Only constituents have a deleted_at column.                             *)
Live(r) == domain = "constituent" => r \notin gone

Trouble == troubles < MaxTroubles /\ troubles' = troubles + 1

(* What LIMIT n returns of the rows S.                                     *)
Chunks(n, S) == {T \in SUBSET S : Cardinality(T) <= n /\ (T = S \/ Cardinality(T) = n)}

-----------------------------------------------------------------------------
(* The catalogue, behind the advisory lock of the definition *)

UpdateOption(o) ==
  /\ Trouble
  /\ options[o].active \/ options[o].merge = 0
  /\ options' = [options EXCEPT ![o].active = ~@]
  /\ UNCHANGED <<domain, merges, expired, value, gone, undo, queueVars, edits, flag, historyVars>>

(* Every job that was asked for has ended well.                            *)
WorkedOff ==
  \A k \in Kinds, m \in Merges : jobs[k][m].status \in {"none", "done"}

MergeOption(source, target) ==
  /\ Len(merges) < MaxMerges
  /\ options[source].merge = 0
  /\ source # target /\ options[target].active
  /\ LET m == Len(merges) + 1
     IN  /\ options' = [options EXCEPT ![source] = [active |-> FALSE, merge |-> m]]
         /\ merges' = Append(merges, [source |-> source, target |-> target])
         /\ jobs' = [jobs EXCEPT !["merge"][m] = JobIn("queued")]
  /\ tangled' = (tangled \/ ~WorkedOff)
  /\ UNCHANGED <<domain, expired, value, gone, undo, strays, chunk, edits, flag, troubles>>
  /\ UNCHANGED <<erased, edited, initial, met>>

LaterInForce(m) == \E n \in DOMAIN merges : n > m /\ InForce(n)

(* The backfill of m itself may still be waiting or running.               *)
UndoOptionMerge(m) ==
  /\ Requested(m) /\ InForce(m) /\ m \notin expired
  /\ options' = [options EXCEPT ![merges[m].source] = [active |-> TRUE, merge |-> 0]]
  /\ jobs' = [jobs EXCEPT !["undo"][m] = JobIn("queued")]
  /\ tangled' = (tangled \/ LaterInForce(m)
                   \/ \E k \in Kinds, n \in Merges \ {m} : jobs[k][n].status \notin {"none", "done"})
  /\ UNCHANGED <<domain, merges, expired, value, gone, undo, strays, chunk, edits, flag, troubles>>
  /\ UNCHANGED <<erased, edited, initial, met>>

CloseWindow(m) ==
  /\ Requested(m) /\ m \notin expired /\ Trouble
  /\ expired' = expired \cup {m}
  /\ UNCHANGED <<domain, options, merges, value, gone, undo, queueVars, edits, flag, historyVars>>

FlipFlag ==
  /\ Trouble
  /\ flag' = ~flag
  /\ UNCHANGED <<catalogVars, value, gone, undo, queueVars, edits, historyVars>>

-----------------------------------------------------------------------------
(* The custom-fields queue *)

Elsewhere == UNCHANGED <<catalogVars, gone, edits, flag, troubles, erased, edited, initial, tangled>>

(* A run of the job is at work: the one that holds the job's lock, or one  *)
(* that could not renew it.                                                *)
Running(k, m) == jobs[k][m].status = "running"
AtWork(k, m) == Running(k, m) \/ <<k, m>> \in strays

FreePod == Cardinality({j \in Kinds \X Merges : Running(j[1], j[2])}) + Cardinality(strays) < Pods

(* Other jobs are at work when this one begins.                            *)
Meet(k, m) ==
  met' = IF Running(k, m)'
           THEN met \cup {{m, j[2]} : j \in {i \in (Kinds \X Merges) \ {<<k, m>>} : AtWork(i[1], i[2])}}
           ELSE met

(* Mutant: the backfill trusts its payload and does not look for the mark. *)
TakeJob_TrustsThePayload(k, m) ==
  /\ jobs[k][m].status = "queued" /\ FreePod
  /\ jobs' = [jobs EXCEPT ![k][m] = IF ~flag THEN JobIn("dropped")
                                              ELSE [@ EXCEPT !.status = "running"]]
  /\ UNCHANGED <<value, undo, strays, chunk>> /\ Meet(k, m) /\ Elsewhere

(* The job ends at once if the flag is off, and a backfill also if the     *)
(* option no longer carries this merge.                                    *)
TakeJob(k, m) ==
  /\ jobs[k][m].status = "queued" /\ FreePod
  /\ jobs' = [jobs EXCEPT ![k][m] =
       IF ~flag THEN JobIn("dropped")
       ELSE IF k = "merge" /\ ~InForce(m) THEN JobIn("done")
       ELSE [@ EXCEPT !.status = "running"]]
  /\ UNCHANGED <<value, undo, strays, chunk>> /\ Meet(k, m) /\ Elsewhere

(* Only the run that holds the lock can complete the job.                  *)
EndRun(k, m) ==
  \/ Running(k, m) /\ jobs' = [jobs EXCEPT ![k][m] = JobIn("done")] /\ UNCHANGED strays
  \/ <<k, m>> \in strays /\ strays' = strays \ {<<k, m>>} /\ UNCHANGED jobs

(* The advisory lock of the values is held while a chunk is open.          *)
LockFree == chunk = None
Open(m) == chunk # None /\ chunk.merge = m

Matching(m) == {r \in Records : merges[m].source \in value[r] /\ Live(r)}

(* First half of rewriteChunk: the scan, under the lock.  Ids are random,   *)
(* so any of the matching rows may come first.                             *)
ScanChunk(m) ==
  /\ AtWork("merge", m) /\ LockFree
  /\ IF Matching(m) = {}
       THEN EndRun("merge", m) /\ UNCHANGED chunk
       ELSE /\ \E S \in Chunks(ChunkSize, Matching(m)) :
                 chunk' = [merge |-> m, saw |-> [r \in S |-> value[r]]]
            /\ UNCHANGED <<jobs, strays>>
  /\ UNCHANGED <<value, undo, met>> /\ Elsewhere

(* Mutant: a multi-picklist is rewritten like a picklist.                  *)
RewriteValue_Scalar(previous, m) == {merges[m].target}

RewriteValue(previous, m) == (previous \ {merges[m].source}) \cup {merges[m].target}

(* Scanned rows that still hold the source and are not deleted.            *)
StillMatching(m) == DOMAIN chunk.saw \cap Matching(m)

(* Mutant: a session-level advisory lock, which outlives the chunk.        *)
RewriteChunk_KeepsTheLock(m) ==
  /\ Open(m)
  /\ LET rows == StillMatching(m)
     IN  /\ value' = [r \in Records |-> IF r \in rows THEN RewriteValue(chunk.saw[r], m) ELSE value[r]]
         /\ undo' = undo \cup {[merge |-> m, record |-> r, previous |-> chunk.saw[r]] : r \in rows}
  /\ UNCHANGED <<queueVars, met>> /\ Elsewhere

(* Second half: the rows are rewritten from what the scan saw.             *)
RewriteChunk(m) ==
  /\ Open(m)
  /\ LET rows == StillMatching(m)
     IN  /\ value' = [r \in Records |-> IF r \in rows THEN RewriteValue(chunk.saw[r], m) ELSE value[r]]
         /\ undo' = undo \cup {[merge |-> m, record |-> r, previous |-> chunk.saw[r]] : r \in rows}
  /\ chunk' = None
  /\ UNCHANGED <<jobs, strays, met>> /\ Elsewhere

UndoRows(m) == {u \in undo : u.merge = m}

(* The rows are deleted first, then replayed on the records that are left. *)
RestoreChunk(m) ==
  /\ AtWork("undo", m) /\ LockFree /\ UndoRows(m) # {}
  /\ \E C \in Chunks(ChunkSize, UndoRows(m)) :
       LET subjects == {u.record : u \in C}
       IN  \E last \in [subjects -> C] :
             /\ \A r \in subjects : last[r].record = r
             /\ undo' = undo \ C
             /\ value' = [r \in Records |-> IF r \in subjects /\ Live(r)
                                            THEN last[r].previous ELSE value[r]]
  /\ UNCHANGED <<queueVars, met>> /\ Elsewhere

EndUndo(m) ==
  /\ AtWork("undo", m) /\ LockFree /\ UndoRows(m) = {}
  /\ EndRun("undo", m)
  /\ UNCHANGED <<value, undo, chunk, met>> /\ Elsewhere

(* A run of the job breaks off, and with it the chunk it has open; if      *)
(* another run is at work, the chunk may be that one's.                    *)
BreaksOff(k, m) ==
  \/ k = "merge" /\ Open(m) /\ chunk' = None
  \/ (k = "merge" /\ Open(m) => Running(k, m) /\ <<k, m>> \in strays) /\ UNCHANGED chunk

(* The attempt is used up.                                                 *)
AttemptFails(k, m) ==
  /\ Running(k, m) /\ Trouble
  /\ jobs' = [jobs EXCEPT ![k][m] =
       IF @.tries + 1 < MaxAttempts
         THEN [status |-> "queued", tries |-> @.tries + 1, stalled |-> @.stalled]
         ELSE JobIn("failed")]
  /\ BreaksOff(k, m)
  /\ UNCHANGED <<catalogVars, value, gone, undo, strays, edits, flag, historyVars>>

(* The lock of the job expires: it goes back to the queue, or fails if it  *)
(* stalled before.  The run has died, or it goes on.                       *)
Stall(k, m) ==
  /\ Running(k, m) /\ Trouble
  /\ jobs' = [jobs EXCEPT ![k][m] =
       IF @.stalled THEN JobIn("failed") ELSE [@ EXCEPT !.status = "queued", !.stalled = TRUE]]
  /\ \/ BreaksOff(k, m) /\ UNCHANGED strays
     \/ strays' = strays \cup {<<k, m>>} /\ UNCHANGED chunk
  /\ UNCHANGED <<catalogVars, value, gone, undo, edits, flag, historyVars>>

StrayFails(k, m) ==
  /\ <<k, m>> \in strays /\ strays' = strays \ {<<k, m>>}
  /\ BreaksOff(k, m)
  /\ UNCHANGED <<value, undo, jobs, met>> /\ Elsewhere

PurgeUndo ==
  /\ \E R \in SUBSET {u \in undo : u.merge \in expired} : R # {} /\ undo' = undo \ R
  /\ UNCHANGED <<value, queueVars, met>> /\ Elsewhere

-----------------------------------------------------------------------------
(* Users, who take no advisory lock, and the GDPR worker, which does *)

(* The catalogue is read ahead of the transaction, possibly from a cache   *)
(* filled a minute ago: in the model, any time may pass before the write.  *)
FetchCatalog(w, r) ==
  /\ edits[w].stage = "new"
  /\ edits' = [edits EXCEPT ![w] = [stage |-> "fetched", record |-> r, catalog |-> Active,
                                  base |-> {}]]
  /\ UNCHANGED <<catalogVars, value, gone, undo, queueVars, flag, troubles, historyVars>>

(* updateConstituent reads the row in a statement of its own, without FOR  *)
(* UPDATE; the other domains lock it up to the write.                      *)
ReadRecord(w) ==
  /\ domain = "constituent" /\ edits[w].stage = "fetched"
  /\ edits' = [edits EXCEPT ![w] =
       IF edits[w].record \in gone THEN EditIn("ended")
       ELSE [@ EXCEPT !.stage = "read", !.base = value[edits[w].record]]]
  /\ UNCHANGED <<catalogVars, value, gone, undo, queueVars, flag, troubles, historyVars>>

(* What the transaction knows the record to hold.                          *)
Existing(w) == IF domain = "constituent" THEN edits[w].base ELSE value[edits[w].record]

(* A patch names the field, with options of the catalogue, or names only   *)
(* other keys: either way the blob is written as a whole.                  *)
WriteRecord(w, named, v) ==
  /\ edits[w].stage = IF domain = "constituent" THEN "read" ELSE "fetched"
  /\ IF named THEN v \subseteq edits[w].catalog ELSE v = Existing(w)
  /\ value' = [value EXCEPT ![edits[w].record] = v]
  /\ edited' = edited \cup {edits[w].record}
  /\ edits' = [edits EXCEPT ![w] = EditIn("ended")]
  /\ UNCHANGED <<catalogVars, gone, undo, queueVars, flag, troubles, erased, initial, met, tangled>>

DeleteRecord(r) ==
  /\ domain = "constituent" /\ r \notin gone /\ Trouble
  /\ gone' = gone \cup {r}
  /\ UNCHANGED <<catalogVars, value, undo, queueVars, edits, flag, historyVars>>

(* Mutant: the undo store is not purged.                                   *)
Erase_KeepsUndoRows(r) ==
  /\ domain \in {"constituent", "donation"} /\ LockFree
  /\ r \notin erased /\ Trouble
  /\ value' = [value EXCEPT ![r] = {}]
  /\ gone' = IF domain = "constituent" THEN gone \cup {r} ELSE gone
  /\ erased' = erased \cup {r}
  /\ edited' = edited \ {r}
  /\ UNCHANGED <<catalogVars, undo, queueVars, edits, flag, initial, met, tangled>>

Erase(r) ==
  /\ domain \in {"constituent", "donation"} /\ LockFree
  /\ r \notin erased /\ Trouble
  /\ value' = [value EXCEPT ![r] = {}]
  /\ undo' = {u \in undo : u.record # r}
  /\ gone' = IF domain = "constituent" THEN gone \cup {r} ELSE gone
  /\ erased' = erased \cup {r}
  /\ edited' = edited \ {r}
  /\ UNCHANGED <<catalogVars, queueVars, edits, flag, initial, met, tangled>>

-----------------------------------------------------------------------------
Init ==
  /\ domain \in Domains
  /\ options = [o \in Options |-> [active |-> TRUE, merge |-> 0]]
  /\ merges = <<>>
  /\ expired = {}
  /\ value \in Beginnings
  /\ gone = {}
  /\ undo = {}
  /\ jobs = [k \in Kinds |-> [m \in Merges |-> JobIn("none")]]
  /\ strays = {}
  /\ chunk = None
  /\ edits = [w \in Editors |-> EditIn("new")]
  /\ flag = TRUE
  /\ troubles = 0
  /\ erased = {}
  /\ edited = {}
  /\ initial = value
  /\ met = {}
  /\ tangled = FALSE

AdminNext ==
  \/ \E o \in Options : UpdateOption(o)
  \/ \E p \in Pairs : MergeOption(p[1], p[2])
  \/ \E m \in Merges : UndoOptionMerge(m) \/ CloseWindow(m)
  \/ FlipFlag

WorkerNext ==
  \/ \E k \in Kinds, m \in Merges :
       TakeJob(k, m) \/ AttemptFails(k, m) \/ Stall(k, m) \/ StrayFails(k, m)
  \/ \E m \in Merges : ScanChunk(m) \/ RewriteChunk(m) \/ RestoreChunk(m) \/ EndUndo(m)
  \/ PurgeUndo

UserNext ==
  \/ \E w \in Editors, r \in Records : FetchCatalog(w, r)
  \/ \E w \in Editors : ReadRecord(w)
  \/ \E w \in Editors, named \in BOOLEAN, v \in SUBSET Options :
       (named => v \in Holdings) /\ WriteRecord(w, named, v)
  \/ \E r \in Records : DeleteRecord(r) \/ Erase(r)

Next == AdminNext \/ WorkerNext \/ UserNext

Spec == Init /\ [][Next]_vars

(* What the workers do by themselves: a job is taken, and goes on.         *)
Work ==
  \/ \E k \in Kinds, m \in Merges : TakeJob(k, m)
  \/ \E m \in Merges : ScanChunk(m) \/ RewriteChunk(m) \/ RestoreChunk(m) \/ EndUndo(m)

FairSpec == Spec /\ WF_vars(Work)

-----------------------------------------------------------------------------
(* Properties *)

ScanType == UNION {[R -> SUBSET Options] : R \in SUBSET Records}
UndoType == [merge : Merges, record : Records, previous : SUBSET Options]

(* The type of the state.                                                  *)
TypeOK ==
  /\ domain \in Domains
  /\ options \in [Options -> [active : BOOLEAN, merge : 0..MaxMerges]]
  /\ merges \in Seq([source : Options, target : Options]) /\ Len(merges) <= MaxMerges
  /\ expired \subseteq Merges
  /\ value \in [Records -> SUBSET Options]
  /\ gone \subseteq Records /\ erased \subseteq Records /\ edited \subseteq Records
  /\ undo \subseteq UndoType
  /\ jobs \in [Kinds -> [Merges -> [status : JobStatus, tries : 0..MaxAttempts, stalled : BOOLEAN]]]
  /\ strays \subseteq Kinds \X Merges
  /\ chunk \in {None} \cup [merge : Merges, saw : ScanType]
  /\ edits \in [Editors -> [stage : {"new", "fetched", "read", "ended"},
                            record : Records \cup {None}, catalog : SUBSET Options,
                            base : SUBSET Options]]
  /\ flag \in BOOLEAN /\ tangled \in BOOLEAN
  /\ troubles \in 0..MaxTroubles
  /\ initial \in Beginnings /\ met \subseteq SUBSET Merges

(* Neither a backfill, nor an undo, nor a retry of one brings back what an *)
(* erasure removed: an erased subject's record stays empty, and has no row *)
(* in the undo store, until a user's edit is written to it.                *)
NothingErasedComesBack ==
  \A r \in erased \ edited : value[r] = {} /\ \A u \in undo : u.record # r

(* An undo that has completed is final: the backfill of that merge, late,  *)
(* retried or killed half-way, does not rewrite a record again, which      *)
(* would leave an undo row that no request could use any more.             *)
UndoneStaysUndone ==
  \A m \in Merges : jobs["undo"][m].status = "done" /\ {m} \notin met => UndoRows(m) = {}

(* The option a value shows as once the merges in force are followed.      *)
Standing(o) ==
  LET follow[n \in 0..MaxMerges] ==
        [p \in Options |-> IF n = 0 \/ options[p].merge = 0 THEN p
                          ELSE follow[n - 1][merges[options[p].merge].target]]
  IN  follow[MaxMerges][o]

(* When every merge and undo has been worked off, in an order in which     *)
(* none was requested before the earlier ones had finished, a record that  *)
(* nobody edited, deleted or erased holds what it held at first, read      *)
(* through the merges still in force: nothing was missed, rewritten twice, *)
(* or restored to a value of the wrong merge.                              *)
RecordsReadAsTheOptionsSay ==
  (WorkedOff /\ ~tangled /\ expired = {} /\ \A m \in Merges : {m} \notin met) =>
    \A r \in Records \ (edited \cup erased \cup gone) :
      value[r] = {Standing(o) : o \in initial[r]}

(* Every job comes to rest, whatever the users write meanwhile, unless the *)
(* backfill and the undo of one merge were at work at the same time: these *)
(* may keep giving each other work.                                        *)
JobsComeToRest ==
  <>[]((\A m \in Merges : {m} \notin met) =>
         \A k \in Kinds, m \in Merges : jobs[k][m].status \notin {"queued", "running"})

(* donations/service.ts claims for its own updates, and for constituents,  *)
(* that concurrent patches serialise instead of overwriting each other: a  *)
(* patch that does not name the field leaves it as it is.                  *)
PatchesKeepOtherKeys ==
  [][\A w \in Editors, v \in SUBSET Options :
       WriteRecord(w, FALSE, v) => value'[edits[w].record] = value[edits[w].record]]_vars

=============================================================================
