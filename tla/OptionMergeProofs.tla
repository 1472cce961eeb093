------------------------- MODULE OptionMergeProofs --------------------------
(* Theorems about OptionMerge, for any number of worker processes: what an *)
(* erasure removed stays removed; and, of a merge whose backfill and undo  *)
(* never were at work at the same time, an undo that has completed is      *)
(* final, and the records nobody touched read as the merges in force say.  *)
EXTENDS OptionMerge, FiniteSetTheorems, SequenceTheorems, WellFoundedInduction, TLAPS

JobType == [status : JobStatus, tries : 0..MaxAttempts, stalled : BOOLEAN]
ChunkType == {None} \cup [merge : Merges, saw : ScanType]
OptionType == [active : BOOLEAN, merge : 0..MaxMerges]
EditType == [stage : {"new", "fetched", "read", "ended"}, record : Records \cup {None},
             catalog : SUBSET Options, base : SUBSET Options]
Busy(w) == edits[w].stage \in {"fetched", "read"}

(* A job exists only for a merge that was requested, a run without a lock  *)
(* only for a job, an open chunk only for a merge; and an edit under way   *)
(* has a record.                                                           *)
JobsWereRequested ==
  /\ \A k \in Kinds, m \in Merges : jobs[k][m].status # "none" => m \in DOMAIN merges
  /\ \A k \in Kinds, m \in Merges : <<k, m>> \in strays => jobs[k][m].status # "none"
  /\ chunk # None => chunk.merge \in DOMAIN merges
EditsHaveRecords == \A w \in Editors : Busy(w) => edits[w].record \in Records

IInv == TypeOK /\ JobsWereRequested /\ EditsHaveRecords /\ NothingErasedComesBack

-----------------------------------------------------------------------------
(* Typing lemmas *)

(* The parts of the type invariant.                                        *)
LEMMA Types ==
  ASSUME TypeOK
  PROVE  /\ options \in [Options -> OptionType]
         /\ merges \in Seq([source : Options, target : Options])
         /\ Len(merges) \in Nat /\ Len(merges) <= MaxMerges /\ DOMAIN merges = 1..Len(merges)
         /\ expired \subseteq Merges
         /\ value \in [Records -> SUBSET Options]
         /\ gone \subseteq Records /\ erased \subseteq Records /\ edited \subseteq Records
         /\ undo \subseteq UndoType
         /\ jobs \in [Kinds -> [Merges -> JobType]]
         /\ strays \subseteq Kinds \X Merges /\ chunk \in ChunkType /\ met \subseteq SUBSET Merges
         /\ edits \in [Editors -> EditType]
         /\ flag \in BOOLEAN /\ tangled \in BOOLEAN /\ troubles \in 0..MaxTroubles
         /\ initial \in Beginnings /\ domain \in Domains
  BY DEF TypeOK, JobType, ChunkType, OptionType, EditType

(* The fields of a job.                                                    *)
LEMMA JobFields ==
  ASSUME TypeOK, NEW k \in Kinds, NEW m \in Merges
  PROVE  /\ jobs[k][m] \in JobType
         /\ jobs[k][m].status \in JobStatus /\ jobs[k][m].tries \in 0..MaxAttempts
         /\ jobs[k][m].stalled \in BOOLEAN
  BY Types DEF JobType

(* An open chunk is of a merge, and what it saw is a function on some      *)
(* records.                                                                *)
LEMMA ChunkFields ==
  ASSUME TypeOK, chunk # None
  PROVE  /\ chunk.merge \in Merges
         /\ DOMAIN chunk.saw \subseteq Records /\ chunk.saw \in [DOMAIN chunk.saw -> SUBSET Options]
  <1>1. chunk \in [merge : Merges, saw : ScanType]
    BY Types DEF ChunkType
  <1>2. chunk.merge \in Merges /\ chunk.saw \in ScanType
    BY <1>1
  <1> QED
    BY <1>2 DEF ScanType

(* The merge of a requested id.                                            *)
LEMMA MergeFields ==
  ASSUME TypeOK, NEW m \in DOMAIN merges
  PROVE  /\ m \in Merges /\ merges[m] \in [source : Options, target : Options]
         /\ merges[m].source \in Options /\ merges[m].target \in Options
  <1>1. m \in 1..Len(merges) /\ Len(merges) \in Nat /\ Len(merges) <= MaxMerges
    BY Types
  <1>2. m \in Merges
    BY <1>1, BoundsAssumption DEF Merges
  <1>3. merges \in Seq([source : Options, target : Options])
    BY Types
  <1>4. merges[m] \in [source : Options, target : Options]
    BY <1>1, <1>3, ElementOfSeq
  <1> QED
    BY <1>2, <1>4

(* A job in a given status.                                                *)
LEMMA JobInType ==
  ASSUME NEW s \in JobStatus
  PROVE  JobIn(s) \in JobType /\ JobIn(s).status = s
  BY BoundsAssumption DEF JobIn, JobType, JobStatus

(* The type invariant from its parts.                                      *)
LEMMA TypesBack ==
  ASSUME options' \in [Options -> OptionType],
         merges' \in Seq([source : Options, target : Options]), Len(merges') <= MaxMerges,
         expired' \subseteq Merges,
         value' \in [Records -> SUBSET Options],
         gone' \subseteq Records, erased' \subseteq Records, edited' \subseteq Records,
         undo' \subseteq UndoType,
         jobs' \in [Kinds -> [Merges -> JobType]],
         strays' \subseteq Kinds \X Merges, chunk' \in ChunkType, met' \subseteq SUBSET Merges,
         edits' \in [Editors -> EditType],
         flag' \in BOOLEAN, tangled' \in BOOLEAN, troubles' \in 0..MaxTroubles,
         initial' \in Beginnings, domain' \in Domains
  PROVE  TypeOK'
  BY DEF TypeOK, JobType, ChunkType, OptionType, EditType

(* A step that leaves the records, the undo store and the history alone    *)
(* brings nothing back.                                                    *)
LEMMA NothingTouched ==
  ASSUME NothingErasedComesBack, UNCHANGED <<value, undo, erased, edited>>
  PROVE  NothingErasedComesBack'
  BY DEF NothingErasedComesBack

(* The bounded counter of the environment.                                 *)
LEMMA TroubleType ==
  ASSUME TypeOK, Trouble
  PROVE  troubles' \in 0..MaxTroubles
  BY Types, BoundsAssumption DEF Trouble

(* A step that leaves jobs and merges alone keeps the jobs requested.      *)
LEMMA SameJobs ==
  ASSUME JobsWereRequested, UNCHANGED <<queueVars, merges>>
  PROVE  JobsWereRequested'
  BY DEF JobsWereRequested, queueVars

LEMMA SameEdits ==
  ASSUME EditsHaveRecords, UNCHANGED edits
  PROVE  EditsHaveRecords'
  BY DEF EditsHaveRecords, Busy

-----------------------------------------------------------------------------
(* The administrator's steps *)

LEMMA UpdateOptionKeeps ==
  ASSUME IInv, NEW o \in Options, UpdateOption(o)
  PROVE  IInv'
  <1> USE DEF IInv
  <1>1. UNCHANGED <<domain, merges, expired, value, gone, undo, jobs, strays, chunk, edits, flag,
                    erased, edited, initial, met, tangled>>
    BY DEF UpdateOption, historyVars, queueVars
  <1>2. options' \in [Options -> OptionType]
    <2>1. options' = [options EXCEPT ![o].active = ~@]
      BY DEF UpdateOption
    <2>2. options[o] \in OptionType
      BY Types
    <2>3. [options[o] EXCEPT !.active = ~@] \in OptionType
      BY <2>2 DEF OptionType
    <2> QED
      BY <2>1, <2>3, Types
  <1>3. TypeOK'
    BY <1>1, <1>2, Types, TypesBack, TroubleType DEF UpdateOption
  <1> QED
    BY <1>1, <1>3, NothingTouched, SameJobs, SameEdits DEF queueVars

LEMMA MergeOptionKeeps ==
  ASSUME IInv, NEW s \in Options, NEW t \in Options, MergeOption(s, t)
  PROVE  IInv'
  <1> DEFINE n == Len(merges) + 1
  <1> USE DEF IInv
  <1>1. UNCHANGED <<domain, expired, value, gone, undo, strays, chunk, edits, flag, troubles, erased,
                    edited, initial, met>>
    BY DEF MergeOption
  <1>2. n \in Merges /\ n \in 0..MaxMerges /\ Len(merges) \in Nat
    BY Types, BoundsAssumption DEF MergeOption, Merges
  <1>3. options' \in [Options -> OptionType]
    <2>1. options' = [options EXCEPT ![s] = [active |-> FALSE, merge |-> n]]
      BY DEF MergeOption
    <2> QED
      BY <1>2, <2>1, Types DEF OptionType
  <1>4. /\ merges' = Append(merges, [source |-> s, target |-> t])
        /\ merges' \in Seq([source : Options, target : Options])
        /\ Len(merges') = n /\ n <= MaxMerges /\ DOMAIN merges' = 1..n
    <2>1. merges' = Append(merges, [source |-> s, target |-> t])
      BY DEF MergeOption
    <2> QED
      BY <1>2, <2>1, Types DEF Merges
  <1>5. /\ jobs' \in [Kinds -> [Merges -> JobType]]
        /\ \A k \in Kinds, m \in Merges :
             (k # "merge" \/ m # n) => jobs'[k][m] = jobs[k][m]
    <2>1. jobs' = [jobs EXCEPT !["merge"][n] = JobIn("queued")]
      BY DEF MergeOption
    <2>2. JobIn("queued") \in JobType /\ "merge" \in Kinds
      BY JobInType DEF JobStatus, Kinds
    <2> QED
      BY <1>2, <2>1, <2>2, Types
  <1>6. tangled' \in BOOLEAN
    BY Types DEF MergeOption, WorkedOff
  <1>7. TypeOK'
    BY <1>1, <1>3, <1>4, <1>5, <1>6, Types, TypesBack
  <1>8. JobsWereRequested'
    <2> SUFFICES ASSUME NEW k \in Kinds, NEW m \in Merges,
                        jobs'[k][m].status # "none"
                 PROVE  m \in DOMAIN merges'
      <3>1. \A k \in Kinds, m \in Merges : <<k, m>> \in strays => jobs'[k][m].status # "none"
        <4>1. \A k \in Kinds : <<k, n>> \notin strays
          BY <1>2, Types DEF JobsWereRequested
        <4> QED
          BY <1>5, <4>1 DEF JobsWereRequested
      <3>2. chunk # None => chunk.merge \in DOMAIN merges'
        BY <1>2, <1>4, Types DEF JobsWereRequested
      <3> QED
        BY <1>1, <3>1, <3>2 DEF JobsWereRequested
    <2>1. CASE m = n
      BY <1>2, <1>4, <2>1 DEF Merges
    <2>2. CASE m # n
      <3>1. m \in 1..Len(merges)
        BY <1>5, <2>2, Types DEF JobsWereRequested
      <3> QED
        BY <1>2, <1>4, <3>1
    <2> QED
      BY <2>1, <2>2
  <1> QED
    BY <1>1, <1>7, <1>8, NothingTouched, SameEdits

(* A step that puts a job of a requested merge.                            *)
LEMMA PutKeepsRequested ==
  ASSUME TypeOK, JobsWereRequested, NEW k \in Kinds, NEW m \in DOMAIN merges, NEW x \in JobType,
         jobs' = [jobs EXCEPT ![k][m] = x], x.status # "none", UNCHANGED merges,
         strays' \subseteq strays \cup {<<k, m>>}, chunk' # None => chunk'.merge \in DOMAIN merges
  PROVE  JobsWereRequested' /\ jobs' \in [Kinds -> [Merges -> JobType]]
         /\ strays' \subseteq Kinds \X Merges
  <1>1. m \in Merges
    BY MergeFields
  <1>2. /\ jobs' \in [Kinds -> [Merges -> JobType]] /\ jobs'[k][m] = x
        /\ \A l \in Kinds, n \in Merges : <<l, n>> # <<k, m>> => jobs'[l][n] = jobs[l][n]
    BY <1>1, Types
  <1>3. strays' \subseteq Kinds \X Merges
    BY <1>1, Types
  <1>4. \A l \in Kinds, n \in Merges : <<l, n>> \in strays' => jobs'[l][n].status # "none"
    BY <1>2 DEF JobsWereRequested
  <1>5. \A l \in Kinds, n \in Merges : jobs'[l][n].status # "none" => n \in DOMAIN merges'
    BY <1>2 DEF JobsWereRequested
  <1> QED
    BY <1>2, <1>3, <1>4, <1>5 DEF JobsWereRequested

LEMMA UndoOptionMergeKeeps ==
  ASSUME IInv, NEW m \in Merges, UndoOptionMerge(m)
  PROVE  IInv'
  <1> USE DEF IInv
  <1>1. UNCHANGED <<domain, merges, expired, value, gone, undo, strays, chunk, edits, flag, troubles,
                    erased, edited, initial, met>>
    BY DEF UndoOptionMerge
  <1>2. m \in DOMAIN merges /\ jobs' = [jobs EXCEPT !["undo"][m] = JobIn("queued")]
    BY DEF UndoOptionMerge, Requested
  <1>3. merges[m].source \in Options
    BY <1>2, MergeFields
  <1>4. options' \in [Options -> OptionType]
    <2>1. options' = [options EXCEPT ![merges[m].source] = [active |-> TRUE, merge |-> 0]]
      BY DEF UndoOptionMerge
    <2> QED
      BY <1>3, <2>1, Types, BoundsAssumption DEF OptionType
  <1>5. tangled' \in BOOLEAN
    BY Types DEF UndoOptionMerge, LaterInForce
  <1>6. JobsWereRequested' /\ jobs' \in [Kinds -> [Merges -> JobType]]
    <2>1. JobIn("queued") \in JobType /\ JobIn("queued").status # "none" /\ "undo" \in Kinds
      BY JobInType DEF JobStatus, Kinds
    <2>2. strays' \subseteq strays \cup {<<"undo", m>>} /\ (chunk' # None => chunk'.merge \in DOMAIN merges)
      BY <1>1 DEF JobsWereRequested
    <2> QED
      BY <1>1, <1>2, <2>1, <2>2, PutKeepsRequested
  <1>7. TypeOK'
    BY <1>1, <1>4, <1>5, <1>6, Types, TypesBack
  <1> QED
    BY <1>1, <1>6, <1>7, NothingTouched, SameEdits

LEMMA CloseWindowKeeps ==
  ASSUME IInv, NEW m \in Merges, CloseWindow(m)
  PROVE  IInv'
  <1> USE DEF IInv
  <1>1. UNCHANGED <<domain, options, merges, value, gone, undo, jobs, strays, chunk, edits, flag,
                    erased, edited, initial, met, tangled>>
    BY DEF CloseWindow, historyVars, queueVars
  <1>2. expired' \subseteq Merges
    BY Types DEF CloseWindow
  <1>3. TypeOK'
    BY <1>1, <1>2, Types, TypesBack, TroubleType DEF CloseWindow
  <1> QED
    BY <1>1, <1>3, NothingTouched, SameJobs, SameEdits DEF queueVars

LEMMA FlipFlagKeeps ==
  ASSUME IInv, FlipFlag
  PROVE  IInv'
  <1> USE DEF IInv
  <1>1. UNCHANGED <<domain, options, merges, expired, value, gone, undo, jobs, strays, chunk, edits,
                    erased, edited, initial, met, tangled>>
    BY DEF FlipFlag, historyVars, catalogVars, queueVars
  <1>2. flag' \in BOOLEAN
    BY Types DEF FlipFlag
  <1>3. TypeOK'
    BY <1>1, <1>2, Types, TypesBack, TroubleType DEF FlipFlag
  <1> QED
    BY <1>1, <1>3, NothingTouched, SameJobs, SameEdits DEF queueVars

-----------------------------------------------------------------------------
(* The jobs' steps *)

(* The merge of a job that exists, or of which a run is at work.           *)
LEMMA WasRequested ==
  ASSUME IInv, NEW k \in Kinds, NEW m \in Merges, jobs[k][m].status # "none" \/ AtWork(k, m)
  PROVE  m \in DOMAIN merges /\ jobs[k][m].status # "none"
  BY DEF IInv, JobsWereRequested, AtWork, Running

(* A step of a job that leaves records and undo rows alone.                *)
LEMMA JobStepKeeps ==
  ASSUME IInv, NEW k \in Kinds, NEW m \in DOMAIN merges, NEW x \in JobType, x.status # "none",
         jobs' = [jobs EXCEPT ![k][m] = x], strays' \subseteq strays \cup {<<k, m>>},
         chunk' \in ChunkType, chunk' # None => chunk'.merge \in DOMAIN merges,
         UNCHANGED <<catalogVars, value, gone, undo, edits, flag, erased, edited, initial, tangled>>,
         met' \subseteq SUBSET Merges, troubles' \in 0..MaxTroubles
  PROVE  IInv'
  <1> USE DEF IInv
  <1>1. UNCHANGED <<domain, options, merges, expired, value, gone, undo, edits, flag, erased, edited,
                    initial, tangled>>
    BY DEF catalogVars
  <1>2. /\ JobsWereRequested' /\ jobs' \in [Kinds -> [Merges -> JobType]]
        /\ strays' \subseteq Kinds \X Merges
    BY <1>1, PutKeepsRequested
  <1>3. TypeOK'
    BY <1>1, <1>2, Types, TypesBack
  <1> QED
    BY <1>1, <1>2, <1>3, NothingTouched, SameEdits

(* The same of a step that leaves the jobs alone.                          *)
LEMMA RunStepKeeps ==
  ASSUME IInv, UNCHANGED jobs, strays' \subseteq strays,
         chunk' \in ChunkType, chunk' # None => chunk'.merge \in DOMAIN merges,
         UNCHANGED <<catalogVars, value, gone, undo, edits, flag, erased, edited, initial, tangled>>,
         met' \subseteq SUBSET Merges, troubles' \in 0..MaxTroubles
  PROVE  IInv'
  <1> USE DEF IInv
  <1>1. UNCHANGED <<domain, options, merges, expired, value, gone, undo, edits, flag, erased, edited,
                    initial, tangled>>
    BY DEF catalogVars
  <1>2. JobsWereRequested'
    BY <1>1 DEF JobsWereRequested
  <1>3. TypeOK'
    BY <1>1, Types, TypesBack
  <1> QED
    BY <1>1, <1>2, <1>3, NothingTouched, SameEdits

(* What the new state of a job may be.                                     *)
LEMMA JobUpdates ==
  ASSUME NEW j \in JobType, NEW s \in JobStatus
  PROVE  /\ [j EXCEPT !.status = s] \in JobType /\ [j EXCEPT !.status = s].status = s
         /\ [j EXCEPT !.status = s, !.stalled = TRUE] \in JobType
         /\ [j EXCEPT !.status = s, !.stalled = TRUE].status = s
  BY DEF JobType

(* A job after a failed attempt, and after a stall.                        *)
AfterFailure(j) ==
  IF j.tries + 1 < MaxAttempts
    THEN [status |-> "queued", tries |-> j.tries + 1, stalled |-> j.stalled]
    ELSE JobIn("failed")
AfterStall(j) ==
  IF j.stalled THEN JobIn("failed") ELSE [j EXCEPT !.status = "queued", !.stalled = TRUE]

LEMMA BrokenJobs ==
  ASSUME NEW j \in JobType
  PROVE  /\ AfterFailure(j) \in JobType /\ AfterFailure(j).status \in {"queued", "failed"}
         /\ AfterStall(j) \in JobType /\ AfterStall(j).status \in {"queued", "failed"}
  <1>1. JobIn("failed") \in JobType /\ JobIn("failed").status = "failed"
    BY JobInType DEF JobStatus
  <1>2. j.tries + 1 < MaxAttempts => j.tries + 1 \in 0..MaxAttempts
    BY BoundsAssumption DEF JobType
  <1>3. j.tries + 1 < MaxAttempts =>
          [status |-> "queued", tries |-> j.tries + 1, stalled |-> j.stalled] \in JobType
    BY <1>2 DEF JobType, JobStatus
  <1>4. /\ [j EXCEPT !.status = "queued", !.stalled = TRUE] \in JobType
        /\ [j EXCEPT !.status = "queued", !.stalled = TRUE].status = "queued"
    BY JobUpdates DEF JobStatus
  <1> QED
    BY <1>1, <1>2, <1>3, <1>4 DEF AfterFailure, AfterStall

(* The chunk after a run broke off.                                        *)
LEMMA BrokenChunk ==
  ASSUME IInv, NEW k \in Kinds, NEW m \in Merges, BreaksOff(k, m) \/ UNCHANGED chunk
  PROVE  chunk' \in ChunkType /\ (chunk' # None => chunk'.merge \in DOMAIN merges)
  BY Types DEF IInv, JobsWereRequested, BreaksOff, ChunkType

(* The merges that met.                                                    *)
LEMMA MetType ==
  ASSUME IInv, NEW k \in Kinds, NEW m \in Merges, Meet(k, m)
  PROVE  met' \subseteq SUBSET Merges /\ met \subseteq met'
  <1>1. met' = met \/ met' = met \cup {{m, j[2]} : j \in {i \in (Kinds \X Merges) \ {<<k, m>>} : AtWork(i[1], i[2])}}
    BY DEF Meet
  <1>2. \A j \in Kinds \X Merges : {m, j[2]} \in SUBSET Merges
    OBVIOUS
  <1> QED
    BY <1>1, <1>2, Types DEF IInv

LEMMA TakeJobKeeps ==
  ASSUME IInv, NEW k \in Kinds, NEW m \in Merges, TakeJob(k, m)
  PROVE  IInv'
  <1> USE DEF IInv
  <1>1. /\ UNCHANGED <<catalogVars, value, gone, undo, edits, flag, erased, edited, initial, tangled>>
        /\ UNCHANGED <<strays, chunk, troubles>>
        /\ jobs[k][m].status = "queued" /\ Meet(k, m)
    BY DEF TakeJob, Elsewhere
  <1> DEFINE x == IF ~flag THEN JobIn("dropped")
                  ELSE IF k = "merge" /\ ~InForce(m) THEN JobIn("done")
                  ELSE [jobs[k][m] EXCEPT !.status = "running"]
  <1>2. x \in JobType /\ x.status # "none"
    <2>1. [jobs[k][m] EXCEPT !.status = "running"] \in JobType
          /\ [jobs[k][m] EXCEPT !.status = "running"].status = "running"
      BY JobFields, JobUpdates DEF JobStatus
    <2> QED
      BY <2>1, JobInType DEF JobStatus
  <1>3. jobs' = [jobs EXCEPT ![k][m] = x]
    BY Types DEF TakeJob
  <1>4. m \in DOMAIN merges
    BY <1>1, WasRequested
  <1>5. met' \subseteq SUBSET Merges
    BY <1>1, MetType
  <1>6. chunk' \in ChunkType /\ (chunk' # None => chunk'.merge \in DOMAIN merges)
    BY <1>1, BrokenChunk
  <1> HIDE DEF x
  <1> QED
    BY <1>1, <1>2, <1>3, <1>4, <1>5, <1>6, Types, JobStepKeeps

(* The run that holds the lock ends the job, another one only itself.      *)
LEMMA EndRunKeeps ==
  ASSUME IInv, NEW k \in Kinds, NEW m \in Merges, EndRun(k, m),
         UNCHANGED <<catalogVars, value, gone, undo, edits, flag, historyVars, troubles, chunk>>
  PROVE  IInv'
  <1> USE DEF IInv
  <1>1. /\ UNCHANGED <<catalogVars, value, gone, undo, edits, flag, erased, edited, initial, tangled>>
        /\ met' \subseteq SUBSET Merges /\ troubles' \in 0..MaxTroubles
    BY Types DEF historyVars
  <1>2. chunk' \in ChunkType /\ (chunk' # None => chunk'.merge \in DOMAIN merges)
    BY BrokenChunk
  <1>3. CASE Running(k, m) /\ jobs' = [jobs EXCEPT ![k][m] = JobIn("done")] /\ UNCHANGED strays
    <2>1. m \in DOMAIN merges
      BY <1>3, WasRequested DEF AtWork
    <2>2. JobIn("done") \in JobType /\ JobIn("done").status # "none"
      BY JobInType DEF JobStatus
    <2> QED
      BY <1>1, <1>2, <1>3, <2>1, <2>2, JobStepKeeps
  <1>4. CASE <<k, m>> \in strays /\ strays' = strays \ {<<k, m>>} /\ UNCHANGED jobs
    BY <1>1, <1>2, <1>4, RunStepKeeps
  <1> QED
    BY <1>3, <1>4 DEF EndRun

LEMMA ScanChunkKeeps ==
  ASSUME IInv, NEW m \in Merges, ScanChunk(m)
  PROVE  IInv'
  <1> USE DEF IInv
  <1>1. /\ UNCHANGED <<catalogVars, value, gone, undo, edits, flag, historyVars, troubles>>
        /\ AtWork("merge", m) /\ "merge" \in Kinds
    BY DEF ScanChunk, Elsewhere, Kinds, historyVars
  <1>2. CASE Matching(m) = {}
    BY <1>1, <1>2, EndRunKeeps DEF ScanChunk
  <1>3. CASE Matching(m) # {}
    <2>1. PICK S \in Chunks(ChunkSize, Matching(m)) :
            chunk' = [merge |-> m, saw |-> [r \in S |-> value[r]]]
      BY <1>3 DEF ScanChunk
    <2>2. UNCHANGED <<jobs, strays>>
      BY <1>3 DEF ScanChunk
    <2>3. S \subseteq Records
      BY DEF Chunks, Matching
    <2>4. [r \in S |-> value[r]] \in [S -> SUBSET Options]
      BY <2>3, Types
    <2>5. chunk' \in ChunkType
      BY <2>1, <2>3, <2>4 DEF ChunkType, ScanType
    <2>6. chunk'.merge \in DOMAIN merges
      BY <1>1, <2>1, WasRequested
    <2>7. /\ UNCHANGED <<catalogVars, value, gone, undo, edits, flag, erased, edited, initial, tangled>>
          /\ met' \subseteq SUBSET Merges /\ troubles' \in 0..MaxTroubles
      BY <1>1, Types DEF historyVars
    <2> QED
      BY <2>2, <2>5, <2>6, <2>7, RunStepKeeps
  <1> QED
    BY <1>2, <1>3

LEMMA EndUndoKeeps ==
  ASSUME IInv, NEW m \in Merges, EndUndo(m)
  PROVE  IInv'
  <1>1. /\ UNCHANGED <<catalogVars, value, gone, undo, edits, flag, historyVars, troubles, chunk>>
        /\ "undo" \in Kinds /\ EndRun("undo", m)
    BY DEF EndUndo, Elsewhere, Kinds, historyVars
  <1> QED
    BY <1>1, EndRunKeeps

(* A run that breaks off, or that goes on without its lock.                *)
LEMMA BrokenRunKeeps ==
  ASSUME IInv, NEW k \in Kinds, NEW m \in Merges,
         AttemptFails(k, m) \/ Stall(k, m) \/ StrayFails(k, m)
  PROVE  IInv'
  <1> USE DEF IInv
  <1>1. /\ UNCHANGED <<catalogVars, value, gone, undo, edits, flag, erased, edited, initial, tangled>>
        /\ met' \subseteq SUBSET Merges /\ AtWork(k, m)
        /\ strays' \subseteq strays \cup {<<k, m>>} /\ (BreaksOff(k, m) \/ UNCHANGED chunk)
    BY Types DEF AttemptFails, Stall, StrayFails, historyVars, AtWork, Elsewhere
  <1>2. troubles' \in 0..MaxTroubles
    BY Types, TroubleType DEF AttemptFails, Stall, StrayFails, Elsewhere
  <1>3. chunk' \in ChunkType /\ (chunk' # None => chunk'.merge \in DOMAIN merges)
    BY <1>1, BrokenChunk
  <1>4. m \in DOMAIN merges
    BY <1>1, WasRequested
  <1>5. ASSUME NEW x \in JobType, x.status \in {"queued", "failed"}, jobs' = [jobs EXCEPT ![k][m] = x]
        PROVE  IInv'
    BY <1>1, <1>2, <1>3, <1>4, <1>5, JobStepKeeps
  <1>6. CASE AttemptFails(k, m)
    <2>1. jobs' = [jobs EXCEPT ![k][m] = AfterFailure(jobs[k][m])]
      BY <1>6, Types DEF AttemptFails, AfterFailure
    <2> QED
      BY <1>5, <2>1, JobFields, BrokenJobs
  <1>7. CASE Stall(k, m)
    <2>1. jobs' = [jobs EXCEPT ![k][m] = AfterStall(jobs[k][m])]
      BY <1>7, Types DEF Stall, AfterStall
    <2> QED
      BY <1>5, <2>1, JobFields, BrokenJobs
  <1>8. CASE StrayFails(k, m)
    <2>1. UNCHANGED jobs /\ strays' \subseteq strays
      BY <1>8 DEF StrayFails
    <2> QED
      BY <1>1, <1>2, <1>3, <2>1, RunStepKeeps
  <1> QED
    BY <1>6, <1>7, <1>8

(* A rewritten record held the source of the merge, so it was not empty,   *)
(* and its previous value comes from the scan.                             *)
LEMMA RewriteChunkKeeps ==
  ASSUME IInv, NEW m \in Merges, RewriteChunk(m)
  PROVE  IInv'
  <1> USE DEF IInv
  <1> DEFINE f == chunk.saw
             rows == StillMatching(m)
  <1>1. /\ UNCHANGED <<domain, options, merges, expired, gone, jobs, strays, edits, flag, troubles, erased,
                       edited, initial, met, tangled>>
        /\ chunk # None /\ chunk.merge = m /\ chunk' = None
        /\ value' = [r \in Records |-> IF r \in rows THEN RewriteValue(f[r], m) ELSE value[r]]
        /\ undo' = undo \cup {[merge |-> m, record |-> r, previous |-> f[r]] : r \in rows}
    BY DEF RewriteChunk, Open, Elsewhere, catalogVars
  <1>2. m \in DOMAIN merges
    BY <1>1 DEF JobsWereRequested
  <1>3. merges[m].source \in Options /\ merges[m].target \in Options
    BY <1>2, MergeFields
  <1>4. \A r \in rows : r \in Records /\ f[r] \in SUBSET Options
    BY <1>1, ChunkFields DEF StillMatching
  <1>5. value' \in [Records -> SUBSET Options]
    BY <1>1, <1>3, <1>4, Types DEF RewriteValue
  <1>6. undo' \subseteq UndoType
    BY <1>1, <1>4, Types DEF UndoType
  <1>7. JobsWereRequested' /\ chunk' \in ChunkType
    BY <1>1 DEF JobsWereRequested, ChunkType
  <1>8. TypeOK'
    BY <1>1, <1>5, <1>6, <1>7, Types, TypesBack
  <1>9. \A r \in rows : value[r] # {}
    BY DEF StillMatching, Matching
  <1>10. NothingErasedComesBack'
    BY <1>1, <1>9, Types DEF NothingErasedComesBack
  <1> QED
    BY <1>1, <1>7, <1>8, <1>10, SameEdits

(* What is replayed comes from undo rows, and an erased subject has none.  *)
LEMMA RestoreChunkKeeps ==
  ASSUME IInv, NEW m \in Merges, RestoreChunk(m)
  PROVE  IInv'
  <1> USE DEF IInv
  <1>1. UNCHANGED <<domain, options, merges, expired, gone, jobs, strays, chunk, edits, flag, troubles,
                    erased, edited, initial, met, tangled>>
    BY DEF RestoreChunk, Elsewhere, catalogVars, queueVars
  <1>2. PICK C \in Chunks(ChunkSize, UndoRows(m)) :
          \E last \in [{u.record : u \in C} -> C] :
             /\ \A r \in {u.record : u \in C} : last[r].record = r
             /\ undo' = undo \ C
             /\ value' = [r \in Records |-> IF r \in {u.record : u \in C} /\ Live(r)
                                            THEN last[r].previous ELSE value[r]]
    BY DEF RestoreChunk
  <1>3. PICK last \in [{u.record : u \in C} -> C] :
             /\ \A r \in {u.record : u \in C} : last[r].record = r
             /\ undo' = undo \ C
             /\ value' = [r \in Records |-> IF r \in {u.record : u \in C} /\ Live(r)
                                            THEN last[r].previous ELSE value[r]]
    BY <1>2
  <1>4. C \subseteq undo
    BY DEF Chunks, UndoRows
  <1>5. \A r \in {u.record : u \in C} :
           last[r] \in undo /\ last[r].record = r /\ last[r].previous \in SUBSET Options
    <2> SUFFICES ASSUME NEW r \in {u.record : u \in C}
                 PROVE  last[r] \in undo /\ last[r].record = r /\ last[r].previous \in SUBSET Options
      OBVIOUS
    <2>1. last[r] \in C
      BY <1>3
    <2> QED
      BY <1>3, <1>4, <2>1, Types DEF UndoType
  <1>6. value' \in [Records -> SUBSET Options]
    BY <1>3, <1>5, Types
  <1>7. undo' \subseteq UndoType /\ undo' \subseteq undo
    BY <1>3, Types
  <1>8. TypeOK'
    BY <1>1, <1>6, <1>7, Types, TypesBack
  <1>9. NothingErasedComesBack'
    BY <1>1, <1>3, <1>5, <1>7, Types DEF NothingErasedComesBack
  <1> QED
    BY <1>1, <1>8, <1>9, SameJobs, SameEdits DEF queueVars

LEMMA PurgeUndoKeeps ==
  ASSUME IInv, PurgeUndo
  PROVE  IInv'
  <1> USE DEF IInv
  <1>1. UNCHANGED <<domain, options, merges, expired, value, gone, jobs, strays, chunk, edits, flag,
                    troubles, erased, edited, initial, met, tangled>>
    BY DEF PurgeUndo, Elsewhere, catalogVars, queueVars
  <1>2. undo' \subseteq undo
    BY DEF PurgeUndo
  <1>3. TypeOK'
    BY <1>1, <1>2, Types, TypesBack
  <1>4. NothingErasedComesBack'
    BY <1>1, <1>2 DEF NothingErasedComesBack
  <1> QED
    BY <1>1, <1>3, <1>4, SameJobs, SameEdits DEF queueVars

-----------------------------------------------------------------------------
(* The users' and the GDPR worker's steps *)

(* A step that only replaces one edit.                                     *)
LEMMA EditStepKeeps ==
  ASSUME IInv, NEW w \in Editors, NEW x \in EditType,
         x.stage \in {"fetched", "read"} => x.record \in Records,
         edits' = [edits EXCEPT ![w] = x],
         UNCHANGED <<catalogVars, value, gone, undo, queueVars, flag, troubles, historyVars>>
  PROVE  IInv'
  <1> USE DEF IInv
  <1>1. UNCHANGED <<domain, options, merges, expired, value, gone, undo, jobs, strays, chunk, flag,
                    troubles, erased, edited, initial, met, tangled>>
    BY DEF catalogVars, historyVars, queueVars
  <1>2. edits' \in [Editors -> EditType]
    BY Types
  <1>3. EditsHaveRecords'
    BY Types DEF EditsHaveRecords, Busy
  <1>4. TypeOK'
    BY <1>1, <1>2, Types, TypesBack
  <1> QED
    BY <1>1, <1>3, <1>4, NothingTouched, SameJobs DEF queueVars

LEMMA FetchCatalogKeeps ==
  ASSUME IInv, NEW w \in Editors, NEW r \in Records, FetchCatalog(w, r)
  PROVE  IInv'
  <1> DEFINE x == [stage |-> "fetched", record |-> r, catalog |-> Active, base |-> {}]
  <1>1. edits' = [edits EXCEPT ![w] = x]
    BY DEF FetchCatalog
  <1>2. x \in EditType
    BY DEF EditType, Active
  <1>3. UNCHANGED <<catalogVars, value, gone, undo, queueVars, flag, troubles, historyVars>>
    BY DEF FetchCatalog
  <1> QED
    BY <1>1, <1>2, <1>3, EditStepKeeps

LEMMA ReadRecordKeeps ==
  ASSUME IInv, NEW w \in Editors, ReadRecord(w)
  PROVE  IInv'
  <1> DEFINE r == edits[w].record
             ended == [stage |-> "ended", record |-> None, catalog |-> {}, base |-> {}]
             read == [edits[w] EXCEPT !.stage = "read", !.base = value[r]]
             x == IF r \in gone THEN ended ELSE read
  <1>1. r \in Records /\ edits[w] \in EditType
    BY Types DEF IInv, EditsHaveRecords, Busy, ReadRecord
  <1>2. edits' = [edits EXCEPT ![w] = x]
    BY Types DEF IInv, ReadRecord, EditIn
  <1>3. ended \in EditType /\ read \in EditType /\ read.record = r /\ ended.stage = "ended"
    BY <1>1, Types DEF IInv, EditType
  <1>4. UNCHANGED <<catalogVars, value, gone, undo, queueVars, flag, troubles, historyVars>>
    BY DEF ReadRecord
  <1> QED
    BY <1>1, <1>2, <1>3, <1>4, EditStepKeeps

LEMMA WriteRecordKeeps ==
  ASSUME IInv, NEW w \in Editors, NEW named \in BOOLEAN, NEW v \in SUBSET Options,
         WriteRecord(w, named, v)
  PROVE  IInv'
  <1> USE DEF IInv
  <1> DEFINE r == edits[w].record
             x == [stage |-> "ended", record |-> None, catalog |-> {}, base |-> {}]
  <1>1. /\ UNCHANGED <<domain, options, merges, expired, gone, undo, jobs, strays, chunk, flag, troubles,
                       erased, initial, met, tangled>>
        /\ value' = [value EXCEPT ![r] = v]
        /\ edited' = edited \cup {r}
        /\ edits' = [edits EXCEPT ![w] = x]
    BY DEF WriteRecord, catalogVars, queueVars, EditIn
  <1>2. r \in Records
    BY Types DEF EditsHaveRecords, Busy, WriteRecord
  <1>3. x \in EditType /\ edits' \in [Editors -> EditType]
    BY <1>1, Types DEF EditType
  <1>4. value' \in [Records -> SUBSET Options] /\ edited' \subseteq Records
    BY <1>1, <1>2, Types
  <1>5. TypeOK'
    BY <1>1, <1>3, <1>4, Types, TypesBack
  <1>6. EditsHaveRecords'
    BY <1>1, Types DEF EditsHaveRecords, Busy
  <1>7. NothingErasedComesBack'
    BY <1>1, Types DEF NothingErasedComesBack
  <1> QED
    BY <1>1, <1>5, <1>6, <1>7, SameJobs DEF queueVars

LEMMA DeleteRecordKeeps ==
  ASSUME IInv, NEW r \in Records, DeleteRecord(r)
  PROVE  IInv'
  <1> USE DEF IInv
  <1>1. UNCHANGED <<domain, options, merges, expired, value, undo, jobs, strays, chunk, edits, flag,
                    erased, edited, initial, met, tangled>>
    BY DEF DeleteRecord, catalogVars, historyVars, queueVars
  <1>2. gone' \subseteq Records
    BY Types DEF DeleteRecord
  <1>3. TypeOK'
    BY <1>1, <1>2, Types, TypesBack, TroubleType DEF DeleteRecord
  <1> QED
    BY <1>1, <1>3, NothingTouched, SameJobs, SameEdits DEF queueVars

LEMMA EraseKeeps ==
  ASSUME IInv, NEW r \in Records, Erase(r)
  PROVE  IInv'
  <1> USE DEF IInv
  <1>1. /\ UNCHANGED <<domain, options, merges, expired, jobs, strays, chunk, edits, flag, initial, met,
                       tangled>>
        /\ value' = [value EXCEPT ![r] = {}]
        /\ undo' = {u \in undo : u.record # r}
        /\ erased' = erased \cup {r}
        /\ edited' = edited \ {r}
    BY DEF Erase, catalogVars, queueVars
  <1>2. gone' \subseteq Records
    BY Types DEF Erase
  <1>3. value' \in [Records -> SUBSET Options] /\ undo' \subseteq UndoType
        /\ erased' \subseteq Records /\ edited' \subseteq Records
    BY <1>1, Types
  <1>4. TypeOK'
    BY <1>1, <1>2, <1>3, Types, TypesBack, TroubleType DEF Erase
  <1>5. NothingErasedComesBack'
    BY <1>1, Types DEF NothingErasedComesBack
  <1> QED
    BY <1>1, <1>4, <1>5, SameJobs, SameEdits DEF queueVars

-----------------------------------------------------------------------------
(* The initial states satisfy the invariant.                               *)
LEMMA InitIInv ==
  ASSUME Init
  PROVE  IInv
  <1>1. value \in [Records -> SUBSET Options]
    BY HoldingsAssumption DEF Init
  <1>2. jobs \in [Kinds -> [Merges -> JobType]]
    BY JobInType DEF Init, JobStatus
  <1>3. edits \in [Editors -> EditType]
    BY DEF Init, EditIn, EditType
  <1>4. merges \in Seq([source : Options, target : Options]) /\ Len(merges) <= MaxMerges
    BY BoundsAssumption DEF Init
  <1>5. TypeOK
    <2>1. options \in [Options -> OptionType] /\ 0 \in 0..MaxTroubles
      BY BoundsAssumption DEF Init, OptionType
    <2>2. /\ domain \in Domains /\ initial \in Beginnings /\ flag \in BOOLEAN /\ tangled \in BOOLEAN
          /\ expired = {} /\ gone = {} /\ undo = {} /\ erased = {} /\ edited = {} /\ troubles = 0
          /\ strays = {} /\ chunk = None /\ met = {}
      BY DEF Init
    <2> QED
      BY <1>1, <1>2, <1>3, <1>4, <2>1, <2>2 DEF TypeOK, JobType, ChunkType, OptionType, EditType
  <1>6. JobsWereRequested
    BY JobInType DEF Init, JobsWereRequested, JobStatus
  <1>7. EditsHaveRecords
    BY DEF Init, EditsHaveRecords, Busy, EditIn
  <1> QED
    BY <1>5, <1>6, <1>7 DEF IInv, NothingErasedComesBack, Init

(* Every step preserves it.                                                *)
LEMMA NextIInv ==
  ASSUME IInv, [Next]_vars
  PROVE  IInv'
  <1>1. CASE UNCHANGED vars
    BY <1>1 DEF vars, catalogVars, queueVars, historyVars, IInv, TypeOK, JobsWereRequested, EditsHaveRecords, Busy,
                NothingErasedComesBack
  <1>2. CASE AdminNext
    <2>1. ASSUME NEW p \in Pairs, MergeOption(p[1], p[2])
          PROVE  IInv'
      BY <2>1, MergeOptionKeeps, PairsAssumption
    <2> QED
      BY <1>2, <2>1, UpdateOptionKeeps, UndoOptionMergeKeeps, CloseWindowKeeps, FlipFlagKeeps DEF AdminNext
  <1>3. CASE WorkerNext
    BY <1>3, TakeJobKeeps, BrokenRunKeeps, ScanChunkKeeps, RewriteChunkKeeps,
       RestoreChunkKeeps, EndUndoKeeps, PurgeUndoKeeps DEF WorkerNext
  <1>4. CASE UserNext
    BY <1>4, FetchCatalogKeeps, ReadRecordKeeps, WriteRecordKeeps, DeleteRecordKeeps, EraseKeeps DEF UserNext
  <1> QED
    BY <1>1, <1>2, <1>3, <1>4 DEF Next

THEOREM Invariance == Spec => []IInv
  BY InitIInv, NextIInv, PTL DEF Spec

(* The state keeps its type.                                               *)
THEOREM TypeCorrect == Spec => []TypeOK
  BY Invariance, PTL DEF IInv

(* Whatever is merged, undone, retried or purged, and in whatever order,   *)
(* what an erasure removed does not come back.                             *)
THEOREM ErasureStands == Spec => []NothingErasedComesBack
  BY Invariance, PTL DEF IInv

-----------------------------------------------------------------------------
(* An undo that has completed is final *)

(* An option carries the merge that marked it, and the undo of a merge has *)
(* been asked for only once the mark is gone.                              *)
MarksAreTheirs ==
  \A o \in Options : options[o].merge # 0 =>
     options[o].merge \in DOMAIN merges /\ merges[options[o].merge].source = o
UndoClearedTheMark ==
  \A m \in Merges, o \in Options : jobs["undo"][m].status # "none" => options[o].merge # m

(* A backfill and an undo of one merge that are both at work have met; an  *)
(* open chunk is that of a backfill at work; and a merge that did not meet *)
(* itself has no backfill at work once its undo is done.                   *)
Apart(m) == {m} \notin met
NoMeeting == \A m \in Merges : AtWork("merge", m) /\ AtWork("undo", m) => {m} \in met
ChunkAtWork == chunk # None => AtWork("merge", chunk.merge)
NoLateBackfill ==
  \A m \in Merges : jobs["undo"][m].status = "done" /\ Apart(m) => ~AtWork("merge", m)

UInv == MarksAreTheirs /\ UndoClearedTheMark /\ NoMeeting /\ ChunkAtWork /\ NoLateBackfill
          /\ UndoneStaysUndone

(* Steps that leave the catalogue and the jobs alone, and add no undo row. *)
LEMMA QuietSteps ==
  ASSUME UInv, UNCHANGED <<options, merges, queueVars, met>>, undo' \subseteq undo
  PROVE  UInv'
  BY DEF UInv, MarksAreTheirs, UndoClearedTheMark, NoMeeting, ChunkAtWork, NoLateBackfill, AtWork, Running,
         UndoneStaysUndone, UndoRows, Apart, queueVars

LEMMA UpdateOptionUndo ==
  ASSUME IInv, UInv, NEW o \in Options, UpdateOption(o)
  PROVE  UInv'
  <1>1. UNCHANGED <<merges, jobs, strays, chunk, undo, met>> /\ options' = [options EXCEPT ![o].active = ~@]
    BY DEF UpdateOption, queueVars, historyVars
  <1>2. \A p \in Options : options'[p].merge = options[p].merge
    BY <1>1, Types DEF IInv, OptionType
  <1> QED
    BY <1>1, <1>2 DEF UInv, MarksAreTheirs, UndoClearedTheMark, NoMeeting, ChunkAtWork, NoLateBackfill,
                      AtWork, Running, UndoneStaysUndone, UndoRows, Apart

(* A fresh merge has no undo job yet.                                      *)
LEMMA MergeOptionUndo ==
  ASSUME IInv, UInv, NEW s \in Options, NEW t \in Options, MergeOption(s, t)
  PROVE  UInv'
  <1> DEFINE n == Len(merges) + 1
  <1> USE DEF IInv
  <1>1. UNCHANGED <<undo, strays, chunk, met>> /\ n \in Merges /\ n \notin DOMAIN merges /\ n # 0
    BY Types, BoundsAssumption DEF MergeOption, Merges
  <1>2. options' = [options EXCEPT ![s] = [active |-> FALSE, merge |-> n]]
    BY DEF MergeOption
  <1>3. options'[s].merge = n /\ \A p \in Options \ {s} : options'[p].merge = options[p].merge
    BY <1>2, Types
  <1>4. /\ merges'[n].source = s /\ n \in DOMAIN merges'
        /\ \A m \in DOMAIN merges : m \in DOMAIN merges' /\ merges'[m] = merges[m]
    <2>1. merges' = Append(merges, [source |-> s, target |-> t])
      BY DEF MergeOption
    <2> QED
      BY <2>1, Types
  <1>5. /\ jobs'["merge"][n] = JobIn("queued")
        /\ \A k \in Kinds, m \in Merges : <<k, m>> # <<"merge", n>> => jobs'[k][m] = jobs[k][m]
    <2>1. jobs' = [jobs EXCEPT !["merge"][n] = JobIn("queued")]
      BY DEF MergeOption
    <2>2. JobIn("queued") \in JobType /\ "merge" \in Kinds
      BY JobInType DEF JobStatus, Kinds
    <2> QED
      BY <1>1, <2>1, <2>2, Types
  <1>6. jobs["undo"][n].status = "none"
    BY <1>1 DEF JobsWereRequested, Kinds
  <1>7. jobs'["merge"][n].status = "queued"
    BY <1>5, JobInType DEF JobStatus
  <1>8. \A m \in Merges : jobs'["undo"][m] = jobs["undo"][m]
    BY <1>5 DEF Kinds
  <1>9. MarksAreTheirs'
    BY <1>3, <1>4 DEF UInv, MarksAreTheirs
  <1>10. UndoClearedTheMark'
    BY <1>3, <1>6, <1>8 DEF UInv, UndoClearedTheMark
  <1>11. NoMeeting' /\ ChunkAtWork' /\ NoLateBackfill'
    <2>1. \A k \in Kinds, m \in Merges : AtWork(k, m)' => AtWork(k, m)
      BY <1>1, <1>5, <1>7 DEF AtWork, Running
    <2>2. \A m \in Merges : m # n => (AtWork("merge", m) => AtWork("merge", m)')
      BY <1>1, <1>5 DEF AtWork, Running, Kinds
    <2>3. chunk # None => chunk.merge # n /\ chunk.merge \in Merges
      BY <1>1, ChunkFields DEF JobsWereRequested
    <2> QED
      BY <1>1, <1>8, <2>1, <2>2, <2>3 DEF UInv, NoMeeting, ChunkAtWork, NoLateBackfill, Apart, Kinds
  <1>12. UndoneStaysUndone'
    BY <1>1, <1>8 DEF UInv, UndoneStaysUndone, UndoRows
  <1> QED
    BY <1>9, <1>10, <1>11, <1>12 DEF UInv

(* A mark names one option, so clearing it leaves none.                    *)
LEMMA UndoOptionMergeUndo ==
  ASSUME IInv, UInv, NEW m \in Merges, UndoOptionMerge(m)
  PROVE  UInv'
  <1> DEFINE s == merges[m].source
  <1> USE DEF IInv
  <1>1. UNCHANGED <<merges, undo, strays, chunk, met>> /\ m \in DOMAIN merges /\ options[s].merge = m
    BY DEF UndoOptionMerge, Requested, InForce
  <1>2. s \in Options /\ m # 0
    BY <1>1, MergeFields DEF Merges
  <1>3. options' = [options EXCEPT ![s] = [active |-> TRUE, merge |-> 0]]
    BY DEF UndoOptionMerge
  <1>4. options'[s].merge = 0 /\ \A p \in Options \ {s} : options'[p].merge = options[p].merge
    BY <1>2, <1>3, Types
  <1>5. /\ jobs'["undo"][m] = JobIn("queued")
        /\ \A k \in Kinds, n \in Merges : <<k, n>> # <<"undo", m>> => jobs'[k][n] = jobs[k][n]
    <2>1. jobs' = [jobs EXCEPT !["undo"][m] = JobIn("queued")]
      BY DEF UndoOptionMerge
    <2>2. JobIn("queued") \in JobType /\ "undo" \in Kinds
      BY JobInType DEF JobStatus, Kinds
    <2> QED
      BY <2>1, <2>2, Types
  <1>6. jobs'["undo"][m].status = "queued"
    BY <1>5, JobInType DEF JobStatus
  <1>7. \A n \in Merges : jobs'["merge"][n] = jobs["merge"][n]
    BY <1>5 DEF Kinds
  <1>8. \A p \in Options : options'[p].merge # m
    BY <1>1, <1>2, <1>4 DEF UInv, MarksAreTheirs
  <1>9. MarksAreTheirs'
    BY <1>1, <1>4 DEF UInv, MarksAreTheirs
  <1>10. UndoClearedTheMark'
    <2> SUFFICES ASSUME NEW n \in Merges, NEW o \in Options, jobs'["undo"][n].status # "none"
                 PROVE  options'[o].merge # n
      BY DEF UndoClearedTheMark
    <2>1. CASE n = m
      BY <1>8, <2>1
    <2>2. CASE n # m
      <3>1. jobs["undo"][n].status # "none"
        BY <1>5, <2>2 DEF Kinds
      <3>2. CASE o = s
        BY <1>4, <3>2 DEF Merges
      <3>3. CASE o # s
        BY <1>4, <3>1, <3>3 DEF UInv, UndoClearedTheMark
      <3> QED
        BY <3>2, <3>3
    <2> QED
      BY <2>1, <2>2
  <1>11. NoMeeting' /\ ChunkAtWork' /\ NoLateBackfill'
    <2>1. \A n \in Merges : AtWork("merge", n)' <=> AtWork("merge", n)
      BY <1>1, <1>7 DEF AtWork, Running
    <2>2. \A n \in Merges : AtWork("undo", n)' => AtWork("undo", n)
      BY <1>1, <1>5, <1>6 DEF AtWork, Running, Kinds
    <2>3. chunk # None => chunk.merge \in Merges
      BY ChunkFields
    <2>4. \A n \in Merges : jobs'["undo"][n].status = "done" => jobs["undo"][n].status = "done"
      BY <1>5, <1>6 DEF Kinds
    <2> QED
      BY <1>1, <2>1, <2>2, <2>3, <2>4 DEF UInv, NoMeeting, ChunkAtWork, NoLateBackfill, Apart
  <1>12. UndoneStaysUndone'
    BY <1>1, <1>5, <1>6 DEF UInv, UndoneStaysUndone, UndoRows, Kinds
  <1> QED
    BY <1>9, <1>10, <1>11, <1>12 DEF UInv

(* A backfill at work may hold a chunk.                                    *)
LEMMA ChunkOf ==
  ASSUME NEW n, chunk' # None => chunk'.merge = n /\ AtWork("merge", n)'
  PROVE  ChunkAtWork'
  BY DEF ChunkAtWork, AtWork, Running

(* A step of a job that leaves the catalogue alone and adds no undo row.   *)
LEMMA JobStepUndo ==
  ASSUME IInv, UInv, NEW k \in Kinds, NEW m \in Merges, NEW x \in JobType,
         jobs' = [jobs EXCEPT ![k][m] = x], jobs[k][m].status # "none",
         strays' \subseteq strays \cup {<<k, m>>}, \A j \in strays : j # <<k, m>> => j \in strays',
         UNCHANGED <<options, merges, undo>>, met \subseteq met',
         chunk' # None => chunk' = chunk /\ (chunk.merge = m /\ k = "merge" => AtWork(k, m)'),
         AtWork(k, m)' /\ ~AtWork(k, m) =>
           /\ \A l \in Kinds : l # k /\ AtWork(l, m) => {m} \in met'
           /\ k = "merge" => jobs["undo"][m].status # "done",
         k = "undo" /\ x.status = "done" => UndoRows(m) = {} /\ AtWork(k, m)
  PROVE  UInv'
  <1> USE DEF IInv
  <1>1. /\ jobs'[k][m] = x
        /\ \A l \in Kinds, n \in Merges : <<l, n>> # <<k, m>> => jobs'[l][n] = jobs[l][n]
    BY Types
  <1>2. \A l \in Kinds, n \in Merges : <<l, n>> # <<k, m>> => (AtWork(l, n)' <=> AtWork(l, n))
    BY <1>1 DEF AtWork, Running
  <1>3. "merge" \in Kinds /\ "undo" \in Kinds /\ k \in {"merge", "undo"}
    BY DEF Kinds
  <1>4. MarksAreTheirs'
    BY DEF UInv, MarksAreTheirs
  <1>5. UndoClearedTheMark'
    BY <1>1, <1>3 DEF UInv, UndoClearedTheMark
  <1>6. NoMeeting'
    <2> SUFFICES ASSUME NEW n \in Merges, AtWork("merge", n)', AtWork("undo", n)'
                 PROVE  {n} \in met'
      BY DEF NoMeeting
    <2>1. CASE AtWork("merge", n) /\ AtWork("undo", n)
      BY <2>1 DEF UInv, NoMeeting
    <2>2. CASE n = m /\ ~AtWork(k, m)
      BY <1>2, <1>3, <2>2
    <2> QED
      BY <1>2, <1>3, <2>1, <2>2
  <1>7. ChunkAtWork'
    <2> SUFFICES ASSUME chunk' # None
                 PROVE  ChunkAtWork'
      BY DEF ChunkAtWork
    <2>1. PICK n : n = chunk.merge
      OBVIOUS
    <2>2. chunk' = chunk /\ n \in Merges /\ AtWork("merge", n)
      BY <2>1, ChunkFields DEF UInv, ChunkAtWork
    <2>3. AtWork("merge", n)'
      BY <1>2, <1>3, <2>1, <2>2
    <2> QED
      BY <2>1, <2>2, <2>3, ChunkOf
  <1>8. NoLateBackfill'
    <2> SUFFICES ASSUME NEW n \in Merges, jobs'["undo"][n].status = "done", Apart(n)', AtWork("merge", n)'
                 PROVE  FALSE
      BY DEF NoLateBackfill
    <2>1. Apart(n)
      BY DEF Apart
    <2>2. CASE n # m
      BY <1>1, <1>2, <1>3, <2>1, <2>2 DEF UInv, NoLateBackfill
    <2>3. CASE n = m /\ k = "merge"
      BY <1>1, <1>3, <2>1, <2>3 DEF UInv, NoLateBackfill
    <2>4. CASE n = m /\ k = "undo"
      BY <1>1, <1>2, <1>3, <2>1, <2>4 DEF UInv, NoMeeting, Apart
    <2> QED
      BY <1>3, <2>2, <2>3, <2>4
  <1>9. UndoneStaysUndone'
    <2> SUFFICES ASSUME NEW n \in Merges, jobs'["undo"][n].status = "done", Apart(n)'
                 PROVE  UndoRows(n) = {}
      BY DEF UndoneStaysUndone, UndoRows, Apart
    <2>1. {n} \notin met
      BY DEF Apart
    <2>2. CASE n = m /\ k = "undo"
      BY <1>1, <2>2
    <2>3. CASE ~(n = m /\ k = "undo")
      BY <1>1, <1>3, <2>1, <2>3 DEF UInv, UndoneStaysUndone
    <2> QED
      BY <2>2, <2>3
  <1> QED
    BY <1>4, <1>5, <1>6, <1>7, <1>8, <1>9 DEF UInv

(* A step of a run that leaves the jobs alone, and may open a chunk.       *)
LEMMA RunStepUndo ==
  ASSUME IInv, UInv, UNCHANGED <<options, merges, undo, jobs, met>>, strays' \subseteq strays,
         ChunkAtWork'
  PROVE  UInv'
  <1>1. \A k, m : AtWork(k, m)' => AtWork(k, m)
    BY DEF AtWork, Running
  <1> QED
    BY <1>1 DEF UInv, MarksAreTheirs, UndoClearedTheMark, NoMeeting, NoLateBackfill,
                UndoneStaysUndone, UndoRows, Apart

(* A backfill that is taken up after the undo of its merge was asked for   *)
(* does not find its mark.                                                 *)
LEMMA TakeJobUndo ==
  ASSUME IInv, UInv, NEW k \in Kinds, NEW m \in Merges, TakeJob(k, m)
  PROVE  UInv'
  <1> USE DEF IInv
  <1> DEFINE x == IF ~flag THEN JobIn("dropped")
                  ELSE IF k = "merge" /\ ~InForce(m) THEN JobIn("done")
                  ELSE [jobs[k][m] EXCEPT !.status = "running"]
  <1>1. /\ UNCHANGED <<options, merges, undo, strays, chunk>>
        /\ jobs[k][m].status = "queued" /\ Meet(k, m)
    BY DEF TakeJob, Elsewhere, catalogVars
  <1>2. x \in JobType /\ (k = "undo" => x.status # "done") /\ x.status # "none"
        /\ (x.status = "running" => ~(k = "merge" /\ ~InForce(m)))
    <2>1. [jobs[k][m] EXCEPT !.status = "running"] \in JobType
          /\ [jobs[k][m] EXCEPT !.status = "running"].status = "running"
      BY JobFields, JobUpdates DEF JobStatus
    <2> QED
      BY <2>1, JobInType DEF JobStatus
  <1>3. jobs' = [jobs EXCEPT ![k][m] = x]
    BY Types DEF TakeJob
  <1> HIDE DEF x
  <1>4. jobs'[k][m] = x
    BY <1>2, <1>3, Types
  <1>5. met \subseteq met'
    BY <1>1, MetType
  <1>6. ASSUME AtWork(k, m)', ~AtWork(k, m), NEW l \in Kinds, l # k, AtWork(l, m)
        PROVE  {m} \in met'
    <2>1. Running(k, m)'
      BY <1>1, <1>6 DEF AtWork
    <2>2. <<l, m>> \in (Kinds \X Merges) \ {<<k, m>>} /\ <<l, m>>[1] = l /\ <<l, m>>[2] = m
      BY <1>6
    <2>3. {m, m} \in {{m, j[2]} : j \in {i \in (Kinds \X Merges) \ {<<k, m>>} : AtWork(i[1], i[2])}}
      BY <1>6, <2>2
    <2>4. {m, m} = {m}
      OBVIOUS
    <2> QED
      BY <1>1, <2>1, <2>3, <2>4 DEF Meet
  <1>7. ASSUME AtWork(k, m)', ~AtWork(k, m), k = "merge" PROVE jobs["undo"][m].status # "done"
    <2>1. x.status = "running"
      BY <1>1, <1>4, <1>7 DEF AtWork, Running
    <2>2. InForce(m)
      BY <1>2, <1>7, <2>1
    <2>3. m \in DOMAIN merges
      BY <1>1, WasRequested
    <2> QED
      BY <2>2, <2>3, MergeFields DEF InForce, UInv, UndoClearedTheMark
  <1>8. chunk' # None => chunk' = chunk /\ (chunk.merge = m /\ k = "merge" => AtWork(k, m)')
    BY <1>1 DEF UInv, ChunkAtWork, AtWork, Running
  <1> QED
    BY <1>1, <1>2, <1>3, <1>5, <1>6, <1>7, <1>8, JobStepUndo

(* A run that ends holds no chunk.                                         *)
LEMMA EndRunUndo ==
  ASSUME IInv, UInv, NEW k \in Kinds, NEW m \in Merges, EndRun(k, m), LockFree,
         UNCHANGED <<options, merges, undo, chunk, met>>, k = "undo" => UndoRows(m) = {}
  PROVE  UInv'
  <1>1. chunk = None /\ chunk' = None
    BY DEF LockFree
  <1>2. CASE Running(k, m) /\ jobs' = [jobs EXCEPT ![k][m] = JobIn("done")] /\ UNCHANGED strays
    <2>1. JobIn("done") \in JobType /\ JobIn("done").status = "done"
      BY JobInType DEF JobStatus
    <2>2. jobs[k][m].status # "none" /\ AtWork(k, m)
      BY <1>2 DEF AtWork, Running
    <2> QED
      BY <1>1, <1>2, <2>1, <2>2, JobStepUndo
  <1>3. CASE <<k, m>> \in strays /\ strays' = strays \ {<<k, m>>} /\ UNCHANGED jobs
    BY <1>1, <1>3, RunStepUndo DEF ChunkAtWork
  <1> QED
    BY <1>2, <1>3 DEF EndRun

LEMMA ScanChunkUndo ==
  ASSUME IInv, UInv, NEW m \in Merges, ScanChunk(m)
  PROVE  UInv'
  <1>1. UNCHANGED <<options, merges, undo, met>> /\ AtWork("merge", m) /\ LockFree /\ "merge" \in Kinds
    BY DEF ScanChunk, Elsewhere, Kinds, catalogVars
  <1>2. CASE Matching(m) = {}
    BY <1>1, <1>2, EndRunUndo DEF ScanChunk
  <1>3. CASE Matching(m) # {}
    <2>1. UNCHANGED <<jobs, strays>> /\ chunk'.merge = m
      BY <1>3 DEF ScanChunk
    <2>2. AtWork("merge", m)'
      BY <1>1, <2>1 DEF AtWork, Running
    <2>3. ChunkAtWork'
      BY <2>1, <2>2, ChunkOf
    <2> QED
      BY <1>1, <2>1, <2>3, RunStepUndo
  <1> QED
    BY <1>2, <1>3

LEMMA EndUndoUndo ==
  ASSUME IInv, UInv, NEW m \in Merges, EndUndo(m)
  PROVE  UInv'
  <1>1. /\ UNCHANGED <<options, merges, undo, chunk, met>> /\ LockFree /\ UndoRows(m) = {}
        /\ EndRun("undo", m) /\ "undo" \in Kinds
    BY DEF EndUndo, Elsewhere, Kinds, catalogVars
  <1> QED
    BY <1>1, EndRunUndo

(* A chunk that outlives a run is that of another run of its backfill.     *)
LEMMA BrokenRunUndo ==
  ASSUME IInv, UInv, NEW k \in Kinds, NEW m \in Merges,
         AttemptFails(k, m) \/ Stall(k, m) \/ StrayFails(k, m)
  PROVE  UInv'
  <1> USE DEF IInv
  <1>1. UNCHANGED <<options, merges, undo, met>> /\ AtWork(k, m) /\ jobs[k][m].status # "none"
    BY WasRequested DEF AttemptFails, Stall, StrayFails, catalogVars, historyVars, AtWork, Elsewhere
  <1>2. ASSUME NEW x \in JobType, x.status \in {"queued", "failed"}, jobs' = [jobs EXCEPT ![k][m] = x],
               strays \subseteq strays', strays' \subseteq strays \cup {<<k, m>>},
               BreaksOff(k, m) \/ (UNCHANGED chunk /\ <<k, m>> \in strays')
        PROVE  UInv'
    <2>1. chunk' # None => chunk' = chunk /\ (chunk.merge = m /\ k = "merge" => <<k, m>> \in strays')
      BY <1>2 DEF BreaksOff, Open
    <2>2. chunk' # None => chunk' = chunk /\ (chunk.merge = m /\ k = "merge" => AtWork(k, m)')
      BY <2>1 DEF AtWork
    <2> QED
      BY <1>1, <1>2, <2>2, JobStepUndo
  <1>3. CASE AttemptFails(k, m)
    <2>1. jobs' = [jobs EXCEPT ![k][m] = AfterFailure(jobs[k][m])]
      BY <1>3, Types DEF AttemptFails, AfterFailure
    <2>2. BreaksOff(k, m) /\ UNCHANGED strays
      BY <1>3 DEF AttemptFails
    <2> QED
      BY <1>2, <2>1, <2>2, JobFields, BrokenJobs
  <1>4. CASE Stall(k, m)
    <2>1. jobs' = [jobs EXCEPT ![k][m] = AfterStall(jobs[k][m])]
      BY <1>4, Types DEF Stall, AfterStall
    <2>2. \/ BreaksOff(k, m) /\ UNCHANGED strays
          \/ strays' = strays \cup {<<k, m>>} /\ UNCHANGED chunk
      BY <1>4 DEF Stall
    <2> QED
      BY <1>2, <2>1, <2>2, JobFields, BrokenJobs
  <1>5. CASE StrayFails(k, m)
    <2>1. /\ UNCHANGED jobs /\ strays' = strays \ {<<k, m>>} /\ BreaksOff(k, m)
      BY <1>5 DEF StrayFails
    <2>2. ChunkAtWork'
      <3> SUFFICES ASSUME chunk' # None
                   PROVE  ChunkAtWork'
        BY DEF ChunkAtWork
      <3>1. PICK n : n = chunk.merge
        OBVIOUS
      <3>2. chunk' = chunk /\ (k = "merge" /\ n = m => Running(k, m))
        BY <2>1, <3>1 DEF BreaksOff, Open
      <3>3. AtWork("merge", n)
        BY <3>1, <3>2 DEF UInv, ChunkAtWork
      <3>4. AtWork("merge", n)'
        <4>1. CASE k = "merge" /\ n = m
          BY <2>1, <3>2, <4>1 DEF AtWork, Running
        <4>2. CASE ~(k = "merge" /\ n = m)
          BY <2>1, <3>3, <4>2 DEF AtWork, Running
        <4> QED
          BY <4>1, <4>2
      <3> QED
        BY <3>1, <3>2, <3>4, ChunkOf
    <2> QED
      BY <1>1, <2>1, <2>2, RunStepUndo
  <1> QED
    BY <1>3, <1>4, <1>5

(* A backfill that rewrites is at work, so its undo is not done.           *)
LEMMA RewriteChunkUndo ==
  ASSUME IInv, UInv, NEW m \in Merges, RewriteChunk(m)
  PROVE  UInv'
  <1>1. /\ UNCHANGED <<options, merges, jobs, strays, met>> /\ chunk # None /\ chunk.merge = m /\ chunk' = None
        /\ \A u \in undo' : u \in undo \/ u.merge = m
    BY DEF RewriteChunk, Elsewhere, catalogVars, Open
  <1>2. AtWork("merge", m) /\ (jobs["undo"][m].status = "done" => ~Apart(m))
    BY <1>1 DEF UInv, ChunkAtWork, NoLateBackfill
  <1>3. MarksAreTheirs' /\ UndoClearedTheMark' /\ NoMeeting' /\ ChunkAtWork' /\ NoLateBackfill'
    BY <1>1 DEF UInv, MarksAreTheirs, UndoClearedTheMark, NoMeeting, ChunkAtWork, NoLateBackfill, AtWork,
                Running, Apart
  <1>4. UndoneStaysUndone'
    <2> SUFFICES ASSUME NEW n \in Merges, jobs'["undo"][n].status = "done", {n} \notin met',
                        NEW u \in undo', u.merge = n
                 PROVE  FALSE
      BY DEF UndoneStaysUndone, UndoRows
    <2>1. jobs["undo"][n].status = "done" /\ {n} \notin met /\ n # m
      BY <1>1, <1>2 DEF Apart
    <2>2. u \in undo
      BY <1>1, <2>1
    <2> QED
      BY <2>1, <2>2 DEF UInv, UndoneStaysUndone, UndoRows
  <1> QED
    BY <1>3, <1>4 DEF UInv

(* Every step preserves UInv.                                              *)
LEMMA NextUInv ==
  ASSUME IInv, UInv, [Next]_vars
  PROVE  UInv'
  <1>1. CASE UNCHANGED vars
    BY <1>1, QuietSteps DEF vars, catalogVars, historyVars
  <1>2. CASE AdminNext
    <2>1. ASSUME NEW p \in Pairs, MergeOption(p[1], p[2])
          PROVE  UInv'
      BY <2>1, MergeOptionUndo, PairsAssumption
    <2>2. ASSUME NEW m \in Merges, CloseWindow(m)
          PROVE  UInv'
      BY <2>2, QuietSteps DEF CloseWindow, historyVars
    <2>3. ASSUME FlipFlag
          PROVE  UInv'
      BY <2>3, QuietSteps DEF FlipFlag, catalogVars, historyVars
    <2> QED
      BY <1>2, <2>1, <2>2, <2>3, UpdateOptionUndo, UndoOptionMergeUndo DEF AdminNext
  <1>3. CASE WorkerNext
    <2>1. ASSUME NEW m \in Merges, RestoreChunk(m)
          PROVE  UInv'
      <3>1. UNCHANGED <<options, merges, queueVars, met>> /\ undo' \subseteq undo
        BY <2>1 DEF RestoreChunk, Elsewhere, catalogVars
      <3> QED
        BY <3>1, QuietSteps
    <2>2. ASSUME PurgeUndo
          PROVE  UInv'
      <3>1. UNCHANGED <<options, merges, queueVars, met>> /\ undo' \subseteq undo
        BY <2>2 DEF PurgeUndo, Elsewhere, catalogVars
      <3> QED
        BY <3>1, QuietSteps
    <2> QED
      BY <1>3, <2>1, <2>2, TakeJobUndo, BrokenRunUndo, ScanChunkUndo, RewriteChunkUndo, EndUndoUndo
         DEF WorkerNext
  <1>4. CASE UserNext
    <2>1. UNCHANGED <<options, merges, queueVars, met>> /\ undo' \subseteq undo
      BY <1>4 DEF UserNext, FetchCatalog, ReadRecord, WriteRecord, DeleteRecord, Erase, catalogVars,
                  historyVars
    <2> QED
      BY <2>1, QuietSteps
  <1> QED
    BY <1>1, <1>2, <1>3, <1>4 DEF Next

LEMMA InitUInv ==
  ASSUME Init
  PROVE  UInv
  <1>1. strays = {} /\ chunk = None /\ \A k \in Kinds, m \in Merges : jobs[k][m].status = "none"
    BY JobInType DEF Init, JobStatus
  <1>2. \A o \in Options : options[o].merge = 0
    BY DEF Init
  <1> QED
    BY <1>1, <1>2 DEF UInv, MarksAreTheirs, UndoClearedTheMark, NoMeeting, ChunkAtWork, NoLateBackfill,
                      AtWork, Running, UndoneStaysUndone, Kinds

(* An undo that has completed is final, unless the backfill of its merge   *)
(* was at work at the same time: its rows are used up, and that backfill,  *)
(* late, retried, or without its lock, rewrites nothing any more.          *)
THEOREM UndoIsFinal == Spec => []UndoneStaysUndone
  <1>1. Init => UInv
    BY InitUInv
  <1>2. IInv /\ UInv /\ [Next]_vars => UInv'
    BY NextUInv
  <1>3. UInv => UndoneStaysUndone
    BY DEF UInv
  <1> QED
    BY <1>1, <1>2, <1>3, Invariance, PTL DEF Spec

-----------------------------------------------------------------------------
(* What a value stands for: the function follows the marks *)


(* The numbers of a set that holds 0 and every successor of its members:   *)
(* the set of those that are missing would have a least member.            *)
LEMMA NatInduct ==
  ASSUME NEW S, 0 \in S, \A n \in Nat : n \in S => n + 1 \in S
  PROVE  \A n \in Nat : n \in S
  <1>. DEFINE T == {n \in Nat : n \notin S}
              R == OpToRel(<, Nat)
  <1>1. SUFFICES ASSUME T # {} PROVE FALSE
    OBVIOUS
  <1>2. PICK x \in T : \A y \in T : ~ (<<y, x>> \in R)
    BY <1>1, WFMin, NatLessThanWellFounded
  <1>3. x # 0 /\ x - 1 \in Nat
    OBVIOUS
  <1>4. <<x - 1, x>> \in R
    BY <1>3, SMT DEF OpToRel
  <1>. HIDE DEF R
  <1>5. x - 1 \in T
    BY <1>3
  <1>. QED BY <1>2, <1>4, <1>5

(* An active option carries no mark; a merge points at an option that      *)
(* carries none, or that of a later merge; a requested merge has its job,  *)
(* and one that is not in force the job of its undo; the rows of the undo  *)
(* store are of requested merges.                                          *)
CatalogInv ==
  /\ \A o \in Options : options[o].active => options[o].merge = 0
  /\ \A m \in DOMAIN merges :
       /\ merges[m].source # merges[m].target
       /\ LET n == options[merges[m].target].merge IN n = 0 \/ n > m
       /\ jobs["merge"][m].status # "none"
       /\ InForce(m) \/ jobs["undo"][m].status # "none"
  /\ \A u \in undo : u.merge \in DOMAIN merges

(* What the merge that option p carries sends it to.                       *)
Target(p) == merges[options[p].merge].target

(* The equation of the function that Standing is defined by.               *)
Follows(f) ==
  f = [n \in 0..MaxMerges |->
         [p \in Options |-> IF n = 0 \/ options[p].merge = 0 THEN p
                           ELSE f[n - 1][merges[options[p].merge].target]]]

(* Standing is read off a solution of that equation.                       *)
LEMMA StandingUnfolds ==
  \A o : Standing(o) = (CHOOSE f : Follows(f))[MaxMerges][o]
  BY DEF Standing, Follows

(* A mark is that of a requested merge of the option that carries it.      *)
LEMMA Marked ==
  ASSUME IInv, UInv, NEW p \in Options, options[p].merge # 0
  PROVE  /\ options[p].merge \in DOMAIN merges /\ merges[options[p].merge].source = p
         /\ InForce(options[p].merge) /\ Target(p) \in Options /\ options[p].merge \in Merges
  <1>1. options[p].merge \in DOMAIN merges /\ merges[options[p].merge].source = p
    BY DEF UInv, MarksAreTheirs
  <1>. QED BY <1>1, MergeFields DEF IInv, InForce, Target

(* The equation has a solution, built up to n steps for every n.           *)
LEMMA FollowExists == \E f : Follows(f)
  <1>. DEFINE Step(g, n) == [p \in Options |-> IF n = 0 \/ options[p].merge = 0 THEN p
                             ELSE g[n - 1][merges[options[p].merge].target]]
              Good(k, g) == g = [n \in 0..MaxMerges |-> g[n]] /\ \A n \in 0..MaxMerges : n <= k => g[n] = Step(g, n)
              N == {k \in Nat : \E g : Good(k, g)}
  <1>1. 0 \in N
    <2>. DEFINE g == [n \in 0..MaxMerges |-> [p \in Options |-> p]]
    <2>1. \A n \in 0..MaxMerges : n <= 0 => Step(g, n) = [p \in Options |-> p]
      BY BoundsAssumption
    <2>2. Good(0, g)
      BY <2>1, Zenon
    <2>. HIDE DEF g, Good
    <2>. QED BY <2>2
  <1>2. ASSUME NEW k \in Nat, k \in N PROVE k + 1 \in N
    <2>1. PICK g : Good(k, g)
      BY <1>2
    <2>. DEFINE h == [n \in 0..MaxMerges |-> Step(g, n)]
    <2>2. \A n \in 0..MaxMerges : h[n] = Step(g, n)
      OBVIOUS
    <2>3. \A n \in 0..MaxMerges : n <= k => h[n] = g[n]
      BY <2>1, <2>2
    <2>4. ASSUME NEW n \in 0..MaxMerges, n <= k + 1 PROVE Step(h, n) = Step(g, n)
      <3>1. CASE n = 0
        BY <3>1
      <3>2. CASE n # 0
        <4>1. n - 1 \in 0..MaxMerges /\ n - 1 <= k
          BY <2>4, <3>2, BoundsAssumption
        <4>2. h[n - 1] = g[n - 1]
          BY <4>1, <2>3
        <4>. HIDE DEF h
        <4>. QED BY <4>2
      <3>. QED BY <3>1, <3>2
    <2>. HIDE DEF Step
    <2>5. Good(k + 1, h)
      BY <2>2, <2>4
    <2>. HIDE DEF h, Good
    <2>. QED BY <2>5
  <1>3. MaxMerges \in N
    <2>. HIDE DEF N
    <2>. QED BY <1>1, <1>2, NatInduct, BoundsAssumption
  <1>4. PICK g : Good(MaxMerges, g)
    BY <1>3
  <1>5. \A n \in 0..MaxMerges : n <= MaxMerges
    BY BoundsAssumption
  <1>6. g = [n \in 0..MaxMerges |-> Step(g, n)]
    <2>. HIDE DEF Step
    <2>. QED BY <1>4, <1>5
  <1>. QED BY <1>6, Zenon DEF Follows

(* An unmarked option stands for itself, and a marked one for what its     *)
(* target stands for: marks grow along a chain of merges, so a chain is    *)
(* shorter than the number of merges and Standing reaches its end.         *)
LEMMA StandingFollowsMarks ==
  ASSUME IInv, UInv, CatalogInv, NEW p \in Options
  PROVE  IF options[p].merge = 0 THEN Standing(p) = p ELSE Standing(p) = Standing(Target(p))
  <1>. DEFINE f == CHOOSE f : Follows(f)
              Far(d) == \A q \in Options : options[q].merge # 0 /\ MaxMerges + 1 - options[q].merge <= d =>
                          \A i, j \in 0..MaxMerges : i >= d /\ j >= d => f[i][q] = f[j][q]
              N == {d \in Nat : Far(d)}
  <1>1. Follows(f)
    BY FollowExists
  <1>. HIDE DEF f
  <1>2. \A n \in 0..MaxMerges, q \in Options :
          f[n][q] = IF n = 0 \/ options[q].merge = 0 THEN q ELSE f[n - 1][Target(q)]
    <2>. DEFINE step(n) == [q \in Options |-> IF n = 0 \/ options[q].merge = 0 THEN q
                                              ELSE f[n - 1][merges[options[q].merge].target]]
    <2>1. f = [n \in 0..MaxMerges |-> step(n)]
      BY <1>1 DEF Follows
    <2>2. ASSUME NEW n \in 0..MaxMerges PROVE f[n] = step(n)
      <3>. HIDE DEF step
      <3>. QED BY <2>1
    <2>3. ASSUME NEW n \in 0..MaxMerges, NEW q \in Options
          PROVE  f[n][q] = IF n = 0 \/ options[q].merge = 0 THEN q ELSE f[n - 1][Target(q)]
      <3>1. f[n] = step(n)
        BY <2>2
      <3>. QED BY <3>1, Zenon DEF Target
    <2>. QED BY <2>3
  <1>3. ASSUME NEW q \in Options, options[q].merge # 0
        PROVE  /\ options[q].merge \in 1..MaxMerges /\ Target(q) \in Options
               /\ options[Target(q)].merge \in 0..MaxMerges
               /\ options[Target(q)].merge = 0 \/ options[Target(q)].merge > options[q].merge
    <2>1. /\ options[q].merge \in DOMAIN merges /\ InForce(options[q].merge)
          /\ Target(q) \in Options /\ options[q].merge \in Merges
      BY <1>3, Marked
    <2>2. options[Target(q)].merge \in 0..MaxMerges
      BY <2>1, Types DEF IInv, OptionType
    <2>. QED BY <2>1, <2>2 DEF CatalogInv, Target, Merges
  <1>4. 0 \in N
    BY <1>3, BoundsAssumption
  <1>5. ASSUME NEW d \in Nat, Far(d) PROVE Far(d + 1)
    <2>1. SUFFICES ASSUME NEW q \in Options, options[q].merge # 0, MaxMerges + 1 - options[q].merge <= d + 1,
                          NEW i \in 0..MaxMerges, NEW j \in 0..MaxMerges, i >= d + 1, j >= d + 1
                   PROVE  f[i][q] = f[j][q]
      OBVIOUS
    <2>2. f[i][q] = f[i - 1][Target(q)] /\ f[j][q] = f[j - 1][Target(q)]
      BY <1>2, <2>1
    <2>3. /\ i - 1 \in 0..MaxMerges /\ j - 1 \in 0..MaxMerges /\ i - 1 >= d /\ j - 1 >= d
          /\ Target(q) \in Options
      BY <1>3, <2>1, BoundsAssumption
    <2>4. CASE options[Target(q)].merge = 0
      BY <1>2, <2>2, <2>3, <2>4
    <2>5. CASE options[Target(q)].merge # 0
      <3>1. MaxMerges + 1 - options[Target(q)].merge <= d
        BY <1>3, <2>1, <2>5, BoundsAssumption
      <3>. QED BY <1>5, <2>2, <2>3, <2>5, <3>1
    <2>. QED BY <2>4, <2>5
  <1>6. \A d \in Nat : Far(d)
    <2>1. \A d \in Nat : d \in N => d + 1 \in N
      BY <1>5
    <2>2. \A d \in Nat : d \in N
      <3>. HIDE DEF N
      <3>. QED BY <1>4, <2>1, NatInduct
    <2>. QED BY <2>2
  <1>7. \A q \in Options : Standing(q) = f[MaxMerges][q]
    BY StandingUnfolds DEF f
  <1>8. CASE options[p].merge = 0
    BY <1>2, <1>7, <1>8, BoundsAssumption
  <1>9. CASE options[p].merge # 0
    <2>1. MaxMerges \in Nat \ {0} /\ MaxMerges - 1 \in 0..MaxMerges /\ MaxMerges \in 0..MaxMerges
      BY <1>3, <1>9, BoundsAssumption
    <2>2. f[MaxMerges][p] = f[MaxMerges - 1][Target(p)]
      BY <1>2, <1>9, <2>1
    <2>3. CASE options[Target(p)].merge = 0
      BY <1>2, <1>3, <1>7, <1>9, <2>1, <2>2, <2>3
    <2>4. CASE options[Target(p)].merge # 0
      <3>1. MaxMerges + 1 - options[Target(p)].merge <= MaxMerges - 1
        BY <1>3, <1>9, <2>1, <2>4
      <3>2. Far(MaxMerges - 1) /\ MaxMerges >= MaxMerges - 1
        BY <1>6, <2>1
      <3>3. f[MaxMerges - 1][Target(p)] = f[MaxMerges][Target(p)]
        BY <1>3, <1>9, <2>1, <2>4, <3>1, <3>2
      <3>. QED BY <1>3, <1>7, <1>9, <2>2, <3>3
    <2>. QED BY <2>3, <2>4
  <1>. QED BY <1>8, <1>9

(* V[m][r] is what record r held at first, read through the merges in      *)
(* force among the first m - 1.                                            *)
IsReading(V) ==
  /\ V \in [1..(MaxMerges + 1) -> [Records -> SUBSET Options]]
  /\ V[1] = initial
  /\ \A m \in Merges, r \in Records :
       V[m + 1][r] = IF Requested(m) /\ InForce(m) /\ merges[m].source \in V[m][r]
                       THEN RewriteValue(V[m][r], m) ELSE V[m][r]

(* Read through the merges before n, a value shows as Standing says, and   *)
(* no option in it carries the mark of one of them.                        *)
LEMMA ReadingStands ==
  ASSUME IInv, UInv, CatalogInv, NEW V, IsReading(V), NEW r \in Records, NEW n \in 1..(MaxMerges + 1)
  PROVE  /\ {Standing(o) : o \in V[n][r]} = {Standing(o) : o \in initial[r]}
         /\ \A o \in V[n][r] : options[o].merge = 0 \/ options[o].merge >= n
  <1>. DEFINE Look(i) == {Standing(o) : o \in V[i][r]}
              Same(i) == i + 1 \in 1..(MaxMerges + 1) =>
                           /\ Look(i + 1) = {Standing(o) : o \in initial[r]}
                           /\ \A o \in V[i + 1][r] : options[o].merge = 0 \/ options[o].merge >= i + 1
              N == {i \in Nat : Same(i)}
  <1>1. \A i \in 1..(MaxMerges + 1) : V[i][r] \subseteq Options
    BY DEF IsReading
  <1>2. \A o \in Options : options[o].merge \in 0..MaxMerges
    BY Types DEF IInv, OptionType
  <1>3. 0 \in N
    <2>1. V[1][r] = initial[r]
      BY DEF IsReading
    <2>2. \A o \in V[1][r] : options[o].merge = 0 \/ options[o].merge >= 1
      BY <1>1, <1>2, BoundsAssumption
    <2>. QED BY <2>1, <2>2
  <1>4. ASSUME NEW i \in Nat, Same(i) PROVE Same(i + 1)
    <2>. DEFINE m == i + 1
    <2>1. SUFFICES ASSUME m + 1 \in 1..(MaxMerges + 1)
                   PROVE  /\ Look(m + 1) = Look(m)
                          /\ \A o \in V[m + 1][r] : options[o].merge = 0 \/ options[o].merge >= m + 1
      BY <1>4, BoundsAssumption
    <2>2. m \in Merges /\ m \in 1..(MaxMerges + 1) /\ m \in Nat \ {0}
      BY <2>1, BoundsAssumption DEF Merges
    <2>3. \A o \in V[m][r] : o \in Options /\ (options[o].merge = 0 \/ options[o].merge >= m)
      BY <1>1, <1>4, <2>2
    <2>4. CASE Requested(m) /\ InForce(m) /\ merges[m].source \in V[m][r]
      <3>. DEFINE s == merges[m].source
                  t == merges[m].target
      <3>1. V[m + 1][r] = (V[m][r] \ {s}) \cup {t} /\ s \in V[m][r]
        BY <2>2, <2>4 DEF IsReading, RewriteValue
      <3>2. options[s].merge = m /\ m \in DOMAIN merges
        BY <2>4 DEF InForce, Requested
      <3>3. Standing(s) = Standing(t)
        BY <2>3, <3>1, <3>2, <2>2, StandingFollowsMarks DEF Target
      <3>4. options[t].merge = 0 \/ options[t].merge > m
        BY <2>4, <3>2 DEF CatalogInv
      <3>5. t \in Options
        BY <3>2, MergeFields DEF IInv
      <3>. HIDE DEF s, t, m
      <3>6. Look(m + 1) = Look(m)
        BY <3>1, <3>3
      <3>7. \A o \in V[m + 1][r] : options[o].merge = 0 \/ options[o].merge >= m + 1
        <4>. SUFFICES ASSUME NEW o \in V[m + 1][r], options[o].merge # 0 PROVE options[o].merge >= m + 1
          OBVIOUS
        <4>1. CASE o = t
          BY <1>2, <2>2, <3>4, <3>5, <4>1
        <4>2. CASE o # t
          <5>1. o \in V[m][r] /\ o # s
            BY <3>1, <4>2
          <5>2. options[o].merge # m
            BY <5>1, <2>3, <2>2 DEF UInv, MarksAreTheirs, s
          <5>. QED BY <1>2, <2>2, <2>3, <5>1, <5>2
        <4>. QED BY <4>1, <4>2
      <3>. QED BY <3>6, <3>7
    <2>5. CASE ~(Requested(m) /\ InForce(m) /\ merges[m].source \in V[m][r])
      <3>1. V[m + 1][r] = V[m][r]
        BY <2>2, <2>5 DEF IsReading
      <3>2. ASSUME NEW o \in V[m][r], options[o].merge = m PROVE FALSE
        <4>1. Requested(m) /\ merges[m].source = o
          BY <2>2, <2>3, <3>2 DEF UInv, MarksAreTheirs, Requested
        <4>. QED BY <2>5, <3>2, <4>1 DEF InForce
      <3>. HIDE DEF m
      <3>3. \A o \in V[m + 1][r] : options[o].merge = 0 \/ options[o].merge >= m + 1
        BY <1>2, <2>2, <2>3, <3>1, <3>2
      <3>. QED BY <3>1, <3>3
    <2>. QED BY <2>4, <2>5
  <1>5. \A i \in Nat : i \in N
    <2>1. \A i \in Nat : i \in N => i + 1 \in N
      <3>. HIDE DEF Same
      <3>. QED BY <1>4
    <2>. HIDE DEF N
    <2>. QED BY <1>3, <2>1, NatInduct
  <1>6. PICK i \in Nat : n = i + 1
    BY BoundsAssumption
  <1>7. Same(i)
    BY <1>5, <1>6
  <1>. QED BY <1>6, <1>7

(* Read through all of them, a value shows as Standing says.               *)
LEMMA ReadingIsStanding ==
  ASSUME IInv, UInv, CatalogInv, NEW V, IsReading(V), NEW r \in Records
  PROVE  V[MaxMerges + 1][r] = {Standing(o) : o \in initial[r]}
  <1>0. MaxMerges + 1 \in 1..(MaxMerges + 1)
    BY BoundsAssumption
  <1>1. /\ {Standing(o) : o \in V[MaxMerges + 1][r]} = {Standing(o) : o \in initial[r]}
        /\ \A o \in V[MaxMerges + 1][r] : options[o].merge = 0 \/ options[o].merge >= MaxMerges + 1
    BY <1>0, ReadingStands
  <1>2. \A o \in Options : options[o].merge \in 0..MaxMerges
    BY Types DEF IInv, OptionType
  <1>3. \A o \in V[MaxMerges + 1][r] : Standing(o) = o
    <2>. SUFFICES ASSUME NEW o \in V[MaxMerges + 1][r] PROVE Standing(o) = o
      OBVIOUS
    <2>1. o \in Options
      BY <1>0 DEF IsReading
    <2>2. options[o].merge = 0
      BY <1>2, <1>1, <2>1, BoundsAssumption
    <2>. QED BY <2>1, <2>2, StandingFollowsMarks
  <1>. QED BY <1>1, <1>3

-----------------------------------------------------------------------------
(* The records, read through the merges in force *)


(* The records nobody edited, erased or deleted; the merges with a job     *)
(* that has not ended well; the records merge m keeps a row of.            *)
Clean == Records \ (edited \cup erased \cup gone)
UnderWork(m) == \E k \in Kinds : jobs[k][m].status \notin {"none", "done"}
Kept(m, r) == \E u \in undo : u.merge = m /\ u.record = r

(* As long as nothing was requested before the earlier ones were worked    *)
(* off, one merge is under work, and it is the last one in force.          *)
OneAtATime ==
  \A m \in Merges : UnderWork(m) => ~LaterInForce(m) /\ \A n \in Merges : UnderWork(n) => n = m

(* The rows remember what a record held before their merge; a merge that   *)
(* is finished with has rows of all it rewrote; under work, the record is  *)
(* rewritten exactly where there is a row; when nothing is, it holds what  *)
(* is read through the merges in force; and what an open chunk saw of it   *)
(* is not out of date.                                                     *)
TrueTo(V) ==
  \A r \in Clean :
    /\ \A u \in undo : u.record = r =>
         u.previous = V[u.merge][r] /\ merges[u.merge].source \in V[u.merge][r]
    /\ \A m \in DOMAIN merges :
         InForce(m) /\ ~UnderWork(m) /\ merges[m].source \in V[m][r] => Kept(m, r)
    /\ \A m \in Merges : UnderWork(m) =>
         value[r] = IF Kept(m, r) THEN RewriteValue(V[m][r], m) ELSE V[m][r]
    /\ WorkedOff => value[r] = V[MaxMerges + 1][r]
    /\ chunk # None => (r \in DOMAIN chunk.saw => chunk.saw[r] = value[r])

Reads(V) == IsReading(V) /\ TrueTo(V)

AllApart == \A m \in Merges : Apart(m)
ReadingInv == ~tangled /\ expired = {} /\ AllApart => OneAtATime /\ \E V : Reads(V)

(* All is worked off when no merge is under work.                          *)
LEMMA Idle ==
  ASSUME TypeOK
  PROVE  WorkedOff <=> \A m \in Merges : ~UnderWork(m)
  BY DEF WorkedOff, UnderWork

(* Merges that are not in force change no reading.                         *)
LEMMA NoLaterMerge ==
  ASSUME NEW V, IsReading(V), NEW m \in 0..MaxMerges, NEW r \in Records,
         \A n \in DOMAIN merges : n > m => ~InForce(n)
  PROVE  V[m + 1][r] = V[MaxMerges + 1][r]
  <1>. DEFINE Same(n) == n + 1 \in 1..(MaxMerges + 1) /\ n >= m => V[n + 1][r] = V[m + 1][r]
              N == {n \in Nat : Same(n)}
  <1>1. 0 \in N
    <2>1. 0 >= m => 0 = m
      OBVIOUS
    <2>. QED BY <2>1
  <1>2. ASSUME NEW n \in Nat, Same(n) PROVE Same(n + 1)
    <2>1. SUFFICES ASSUME n + 2 \in 1..(MaxMerges + 1), n + 1 > m PROVE V[n + 2][r] = V[m + 1][r]
      OBVIOUS
    <2>2. V[n + 1][r] = V[m + 1][r] /\ n + 1 \in Merges
      BY <1>2, <2>1, BoundsAssumption DEF Merges
    <2>3. ~(Requested(n + 1) /\ InForce(n + 1))
      BY <2>1 DEF Requested
    <2>4. V[(n + 1) + 1][r] = V[n + 1][r]
      BY <2>2, <2>3 DEF IsReading
    <2>. QED BY <2>2, <2>4
  <1>3. MaxMerges \in N
    <2>1. \A n \in Nat : n \in N => n + 1 \in N
      BY <1>2
    <2>. HIDE DEF N
    <2>. QED BY <1>1, <2>1, NatInduct, BoundsAssumption
  <1>. QED BY <1>3, BoundsAssumption

(* What a merge that is finished with owes the records.                    *)
LEMMA FinishedReading ==
  ASSUME IInv, OneAtATime, NEW V, Reads(V), NEW m \in Merges, UnderWork(m), NEW r \in Clean,
         InForce(m) => merges[m].source \notin value[r],
         ~InForce(m) => ~Kept(m, r), m \in DOMAIN merges
  PROVE  /\ value[r] = V[MaxMerges + 1][r]
         /\ InForce(m) /\ merges[m].source \in V[m][r] => Kept(m, r)
  <1>. r \in Records
    BY DEF Clean
  <1>1. V[m + 1][r] = V[MaxMerges + 1][r]
    <2>1. \A n \in DOMAIN merges : n > m => ~InForce(n)
      BY DEF OneAtATime, LaterInForce
    <2>2. m \in 0..MaxMerges
      BY BoundsAssumption DEF Merges
    <2>. QED BY <2>1, <2>2, NoLaterMerge DEF Reads
  <1>2. value[r] = IF Kept(m, r) THEN RewriteValue(V[m][r], m) ELSE V[m][r]
    BY DEF Reads, TrueTo
  <1>3. V[m + 1][r] = IF InForce(m) /\ merges[m].source \in V[m][r]
                        THEN RewriteValue(V[m][r], m) ELSE V[m][r]
    BY DEF Reads, IsReading, Requested
  <1>4. Kept(m, r) => merges[m].source \in V[m][r]
    BY DEF Reads, TrueTo, Kept
  <1>. QED BY <1>1, <1>2, <1>3, <1>4

(* Steps that touch neither marks, nor jobs, nor a clean record or its rows *)
LEMMA QuietReading ==
  ASSUME IInv, OneAtATime, NEW V, Reads(V), UNCHANGED <<merges, jobs, initial>>,
         chunk' = chunk \/ chunk' = None,
         \A o \in Options : options'[o].merge = options[o].merge,
         Clean' \subseteq Clean,
         \A r \in Clean' : /\ value'[r] = value[r]
                           /\ \A u : u.record = r => (u \in undo' <=> u \in undo)
  PROVE  OneAtATime' /\ Reads(V)'
  <1>0. UNCHANGED merges
    OBVIOUS
  <1>1. \A m \in DOMAIN merges : InForce(m)' <=> InForce(m)
    BY MergeFields DEF InForce, IInv
  <1>2. \A m : UnderWork(m)' <=> UnderWork(m)
    BY DEF UnderWork
  <1>3. OneAtATime'
    BY <1>1, <1>2 DEF OneAtATime, LaterInForce
  <1>4. IsReading(V)'
    BY <1>1 DEF Reads, IsReading, Requested, RewriteValue
  <1>5. WorkedOff' <=> WorkedOff
    BY DEF WorkedOff
  <1>6. \A m, r : r \in Clean' => (Kept(m, r)' <=> Kept(m, r))
    BY DEF Kept
  <1>7. TrueTo(V)'
    <2>. SUFFICES ASSUME NEW r \in Clean'
         PROVE  /\ \A u \in undo' : u.record = r =>
                     u.previous = V[u.merge][r] /\ merges'[u.merge].source \in V[u.merge][r]
                /\ \A m \in DOMAIN merges' :
                     InForce(m)' /\ ~UnderWork(m)' /\ merges'[m].source \in V[m][r] => Kept(m, r)'
                /\ \A m \in Merges : UnderWork(m)' =>
                     value'[r] = IF Kept(m, r)' THEN RewriteValue(V[m][r], m)' ELSE V[m][r]
                /\ WorkedOff' => value'[r] = V[MaxMerges + 1][r]
                /\ chunk' # None => (r \in DOMAIN chunk'.saw => chunk'.saw[r] = value'[r])
      BY Zenon DEF TrueTo, RewriteValue
    <2>0. \A m \in Merges : RewriteValue(V[m][r], m)' = RewriteValue(V[m][r], m)
      BY <1>0 DEF RewriteValue
    <2>1. r \in Clean
      OBVIOUS
    <2>. QED BY <1>0, <1>1, <1>2, <1>5, <1>6, <2>0, <2>1 DEF Reads, TrueTo
  <1>. QED BY <1>3, <1>4, <1>7 DEF Reads

(* A step of a job that leaves the records and the undo rows alone.        *)
LEMMA JobReading ==
  ASSUME IInv, CatalogInv, OneAtATime, NEW V, Reads(V), NEW k \in Kinds, NEW m \in Merges, NEW x \in JobType,
         jobs' = [jobs EXCEPT ![k][m] = x], jobs[k][m].status \notin {"none", "done"},
         UNCHANGED <<options, merges, initial, value, undo, edited, erased, gone>>,
         chunk' = chunk \/ chunk' = None,
         ~UnderWork(m)' =>
           \A r \in Clean : /\ InForce(m) => merges[m].source \notin value[r]
                            /\ ~InForce(m) => ~Kept(m, r)
  PROVE  OneAtATime' /\ Reads(V)'
  <1>1. /\ jobs'[k][m] = x
        /\ \A l \in Kinds, n \in Merges : <<l, n>> # <<k, m>> => jobs'[l][n] = jobs[l][n]
    BY Types DEF IInv
  <1>2. UnderWork(m) /\ m \in DOMAIN merges
    BY DEF UnderWork, IInv, JobsWereRequested
  <1>3. \A n \in Merges : n # m => (UnderWork(n)' <=> UnderWork(n))
    BY <1>1 DEF UnderWork
  <1>4. \A n : InForce(n)' <=> InForce(n)
    BY DEF InForce
  <1>8. Clean' = Clean /\ \A n, r : Kept(n, r)' <=> Kept(n, r)
    BY DEF Clean, Kept
  <1>5. OneAtATime'
    BY <1>2, <1>3, <1>4 DEF OneAtATime, LaterInForce
  <1>6. IsReading(V)'
    BY <1>4 DEF Reads, IsReading, Requested, RewriteValue
  <1>7. TrueTo(V)'
    <2>. SUFFICES ASSUME NEW r \in Clean'
         PROVE  /\ \A u \in undo' : u.record = r =>
                     u.previous = V[u.merge][r] /\ merges[u.merge].source \in V[u.merge][r]
                /\ \A n \in DOMAIN merges :
                     InForce(n)' /\ ~UnderWork(n)' /\ merges[n].source \in V[n][r] => Kept(n, r)'
                /\ \A n \in Merges : UnderWork(n)' =>
                     value'[r] = IF Kept(n, r)' THEN RewriteValue(V[n][r], n) ELSE V[n][r]
                /\ WorkedOff' => value'[r] = V[MaxMerges + 1][r]
                /\ chunk' # None => (r \in DOMAIN chunk'.saw => chunk'.saw[r] = value'[r])
      BY DEF TrueTo, RewriteValue
    <2>8. r \in Clean
      BY <1>8
    <2>1. ~UnderWork(m)' => /\ value[r] = V[MaxMerges + 1][r]
                            /\ InForce(m) /\ merges[m].source \in V[m][r] => Kept(m, r)
      <3>. SUFFICES ASSUME ~UnderWork(m)'
                    PROVE  /\ value[r] = V[MaxMerges + 1][r]
                           /\ InForce(m) /\ merges[m].source \in V[m][r] => Kept(m, r)
        OBVIOUS
      <3>1. InForce(m) => merges[m].source \notin value[r]
        BY <2>8
      <3>2. ~InForce(m) => ~Kept(m, r)
        BY <2>8
      <3>. QED BY <1>2, <2>8, <3>1, <3>2, FinishedReading
    <2>2. \A n \in DOMAIN merges : n \in Merges
      BY MergeFields DEF IInv
    <2>3. \A n \in DOMAIN merges :
            InForce(n) /\ ~UnderWork(n)' /\ merges[n].source \in V[n][r] => Kept(n, r)
      BY <1>3, <2>1, <2>2, <2>8 DEF Reads, TrueTo
    <2>4. \A n \in Merges : UnderWork(n)' =>
            value[r] = IF Kept(n, r) THEN RewriteValue(V[n][r], n) ELSE V[n][r]
      BY <1>2, <1>3, <2>8 DEF Reads, TrueTo
    <2>5. WorkedOff' => ~UnderWork(m)'
      BY DEF WorkedOff, UnderWork
    <2>6. chunk' # None => (r \in DOMAIN chunk'.saw => chunk'.saw[r] = value[r])
      BY <2>8 DEF Reads, TrueTo
    <2>7. \A u \in undo : u.record = r =>
            u.previous = V[u.merge][r] /\ merges[u.merge].source \in V[u.merge][r]
      BY <2>8 DEF Reads, TrueTo
    <2>. QED BY <1>4, <1>8, <2>1, <2>3, <2>4, <2>5, <2>6, <2>7
  <1>. QED BY <1>5, <1>6, <1>7 DEF Reads

(* A step of a run that leaves jobs, records and undo rows alone; what a   *)
(* chunk saw as it was opened is what the records hold.                    *)
LEMMA RunReading ==
  ASSUME IInv, OneAtATime, NEW V, Reads(V),
         UNCHANGED <<options, merges, jobs, initial, value, undo, edited, erased, gone>>,
         \/ chunk' = chunk \/ chunk' = None
         \/ \A r \in DOMAIN chunk'.saw : chunk'.saw[r] = value[r]
  PROVE  OneAtATime' /\ Reads(V)'
  <1>1. \A n : (InForce(n)' <=> InForce(n)) /\ (UnderWork(n)' <=> UnderWork(n))
    BY DEF InForce, UnderWork
  <1>2. Clean' = Clean /\ (WorkedOff' <=> WorkedOff) /\ \A n, r : Kept(n, r)' <=> Kept(n, r)
    BY DEF Clean, WorkedOff, Kept
  <1>3. OneAtATime'
    BY <1>1 DEF OneAtATime, LaterInForce
  <1>4. IsReading(V)'
    BY <1>1 DEF Reads, IsReading, Requested, RewriteValue
  <1>5. ASSUME NEW r \in Clean, chunk' # None, r \in DOMAIN chunk'.saw
        PROVE  chunk'.saw[r] = value[r]
    BY <1>5 DEF Reads, TrueTo
  <1>6. TrueTo(V)'
    BY <1>1, <1>2, <1>5 DEF Reads, TrueTo, RewriteValue
  <1> QED
    BY <1>3, <1>4, <1>6 DEF Reads

(* The undo of a merge that is not in force and not under work has been    *)
(* completed, so none of its rows is left.                                 *)
LEMMA UndoneReading ==
  ASSUME IInv, UInv, CatalogInv, AllApart, NEW m \in DOMAIN merges, ~InForce(m),
         jobs["undo"][m].status \in {"none", "done"}
  PROVE  jobs["undo"][m].status = "done" /\ ~AtWork("merge", m) /\ \A r : ~Kept(m, r)
  <1>1. m \in Merges /\ jobs["undo"][m].status = "done"
    BY MergeFields DEF IInv, CatalogInv
  <1> QED
    BY <1>1 DEF UInv, UndoneStaysUndone, NoLateBackfill, UndoRows, Kept, AllApart, Apart

(* No clean record holds the source of a merge that is in force and        *)
(* finished with: a later merge under work moves records to an option that *)
(* carries no earlier mark.                                                *)
LEMMA SourceGone ==
  ASSUME IInv, UInv, CatalogInv, OneAtATime, NEW V, Reads(V), NEW m \in DOMAIN merges,
         InForce(m), ~UnderWork(m), NEW r \in Clean
  PROVE  merges[m].source \notin value[r]
  <1> DEFINE s == merges[m].source
  <1>1. m \in Merges /\ m \in Nat \ {0} /\ m <= MaxMerges /\ s \in Options /\ options[s].merge = m
    BY MergeFields, BoundsAssumption DEF IInv, Merges, InForce
  <1>2. r \in Records /\ IsReading(V)
    BY DEF Clean, Reads
  <1>3. CASE WorkedOff
    <2>1. value[r] = V[MaxMerges + 1][r]
      BY <1>3 DEF Reads, TrueTo
    <2>2. MaxMerges + 1 \in 1..(MaxMerges + 1)
      BY BoundsAssumption
    <2>3. \A o \in V[MaxMerges + 1][r] : options[o].merge = 0 \/ options[o].merge >= MaxMerges + 1
      BY <1>2, <2>2, ReadingStands
    <2>4. ~(m = 0 \/ m >= MaxMerges + 1)
      BY <1>1, BoundsAssumption
    <2> QED
      BY <1>1, <2>1, <2>3, <2>4
  <1>4. CASE ~WorkedOff
    <2>1. PICK n \in Merges : UnderWork(n)
      BY <1>4, Idle DEF IInv
    <2>2. n \in DOMAIN merges
      BY <2>1 DEF UnderWork, IInv, JobsWereRequested
    <2>3. n \in Nat \ {0} /\ m < n /\ n \in 1..(MaxMerges + 1)
      <3>1. n # m /\ ~(m > n)
        BY <2>1 DEF OneAtATime, LaterInForce
      <3>2. n \in Nat \ {0} /\ n \in 1..(MaxMerges + 1)
        BY BoundsAssumption DEF Merges
      <3> QED
        BY <1>1, <3>1, <3>2
    <2>4. value[r] = IF Kept(n, r) THEN RewriteValue(V[n][r], n) ELSE V[n][r]
      BY <2>1 DEF Reads, TrueTo
    <2>5. \A o \in V[n][r] : options[o].merge = 0 \/ options[o].merge >= n
      BY <1>2, <2>3, ReadingStands
    <2>6. ~(m = 0 \/ m >= n) /\ ~(m = 0 \/ m > n)
      BY <1>1, <2>3
    <2>7. s \notin V[n][r]
      BY <1>1, <2>5, <2>6
    <2>8. merges[n].target # s
      BY <1>1, <2>2, <2>6 DEF CatalogInv
    <2> QED
      BY <2>4, <2>7, <2>8 DEF RewriteValue
  <1> QED
    BY <1>3, <1>4

(* A backfill that does not find its mark has been undone.                 *)
LEMMA TakeJobReading ==
  ASSUME IInv, UInv, CatalogInv, AllApart, OneAtATime, NEW V, Reads(V), NEW k \in Kinds,
         NEW m \in Merges, TakeJob(k, m)
  PROVE  OneAtATime' /\ Reads(V)'
  <1> DEFINE x == IF ~flag THEN JobIn("dropped")
                  ELSE IF k = "merge" /\ ~InForce(m) THEN JobIn("done")
                  ELSE [jobs[k][m] EXCEPT !.status = "running"]
  <1>1. /\ UNCHANGED <<options, merges, initial, value, undo, edited, erased, gone>>
        /\ UNCHANGED chunk /\ jobs[k][m].status = "queued"
    BY DEF TakeJob, Elsewhere, catalogVars
  <1>2. jobs' = [jobs EXCEPT ![k][m] = x]
    BY Types DEF TakeJob, IInv
  <1>3. x \in JobType /\ (x.status \in {"none", "done"} => k = "merge" /\ ~InForce(m))
    <2>1. /\ [jobs[k][m] EXCEPT !.status = "running"] \in JobType
          /\ [jobs[k][m] EXCEPT !.status = "running"].status = "running"
      BY JobFields, JobUpdates DEF JobStatus, IInv
    <2> QED
      BY <2>1, JobInType DEF JobStatus
  <1>4. m \in DOMAIN merges /\ jobs[k][m].status \notin {"none", "done"}
    BY <1>1 DEF IInv, JobsWereRequested
  <1> HIDE DEF x
  <1>5. ASSUME ~UnderWork(m)' PROVE ~InForce(m) /\ \A r : ~Kept(m, r)
    <2>1. jobs'[k][m] = x /\ \A l \in Kinds : l # k => jobs'[l][m] = jobs[l][m]
      BY <1>2, <1>3, Types DEF IInv
    <2>2. x.status \in {"none", "done"}
      BY <1>5, <2>1 DEF UnderWork
    <2>3. k = "merge" /\ ~InForce(m)
      BY <1>3, <2>2
    <2>4. jobs["undo"][m].status \in {"none", "done"}
      BY <1>5, <2>1, <2>3 DEF UnderWork, Kinds
    <2> QED
      BY <1>4, <2>3, <2>4, UndoneReading
  <1> QED
    BY <1>1, <1>2, <1>3, <1>4, <1>5, JobReading

(* The scan that finds nothing: no clean record holds the source.          *)
LEMMA ScanChunkReading ==
  ASSUME IInv, UInv, CatalogInv, AllApart, OneAtATime, NEW V, Reads(V), NEW m \in Merges, ScanChunk(m)
  PROVE  OneAtATime' /\ Reads(V)'
  <1>1. /\ UNCHANGED <<options, merges, initial, value, undo, edited, erased, gone>>
        /\ AtWork("merge", m) /\ "merge" \in Kinds /\ "undo" \in Kinds
    BY DEF ScanChunk, Elsewhere, catalogVars, Kinds
  <1>2. m \in DOMAIN merges
    BY <1>1, WasRequested
  <1>3. CASE Matching(m) = {} /\ Running("merge", m)
        /\ jobs' = [jobs EXCEPT !["merge"][m] = JobIn("done")] /\ UNCHANGED chunk
    <2>1. JobIn("done") \in JobType
      BY JobInType DEF JobStatus
    <2>2. ASSUME ~UnderWork(m)', NEW r \in Clean
          PROVE  /\ InForce(m) => merges[m].source \notin value[r]
                 /\ ~InForce(m) => ~Kept(m, r)
      <3>1. merges[m].source \notin value[r]
        BY <1>3 DEF Clean, Matching, Live
      <3>2. ASSUME ~InForce(m) PROVE ~Kept(m, r)
        <4>1. jobs'["undo"][m] = jobs["undo"][m]
          BY <1>1, <1>3, Types DEF IInv
        <4>2. jobs["undo"][m].status \in {"none", "done"}
          BY <1>1, <2>2, <4>1 DEF UnderWork
        <4> QED
          BY <1>2, <3>2, <4>2, UndoneReading
      <3> QED
        BY <3>1, <3>2
    <2>3. jobs["merge"][m].status \notin {"none", "done"}
      BY <1>3 DEF Running
    <2> QED
      BY <1>1, <1>3, <2>1, <2>2, <2>3, JobReading
  <1>4. CASE Matching(m) = {} /\ UNCHANGED <<jobs, chunk>>
    BY <1>1, <1>4, RunReading
  <1>5. CASE Matching(m) # {}
    <2>1. PICK S \in Chunks(ChunkSize, Matching(m)) :
            chunk' = [merge |-> m, saw |-> [r \in S |-> value[r]]]
      BY <1>5 DEF ScanChunk
    <2>2. UNCHANGED jobs
      BY <1>5 DEF ScanChunk
    <2>3. \A r \in DOMAIN chunk'.saw : chunk'.saw[r] = value[r]
      BY <2>1
    <2> QED
      BY <1>1, <2>2, <2>3, RunReading
  <1> QED
    BY <1>3, <1>4, <1>5 DEF ScanChunk, EndRun

(* The undo of a merge has ended: it is not in force and has no rows.      *)
LEMMA EndUndoReading ==
  ASSUME IInv, UInv, CatalogInv, OneAtATime, NEW V, Reads(V), NEW m \in Merges, EndUndo(m)
  PROVE  OneAtATime' /\ Reads(V)'
  <1>1. /\ UNCHANGED <<options, merges, initial, value, undo, edited, erased, gone>>
        /\ UNCHANGED chunk /\ AtWork("undo", m) /\ UndoRows(m) = {} /\ "undo" \in Kinds
        /\ EndRun("undo", m)
    BY DEF EndUndo, Elsewhere, catalogVars, Kinds
  <1>2. CASE Running("undo", m) /\ jobs' = [jobs EXCEPT !["undo"][m] = JobIn("done")]
    <2>1. JobIn("done") \in JobType /\ jobs["undo"][m].status \notin {"none", "done"}
      BY <1>2, JobInType DEF JobStatus, Running
    <2>2. m \in DOMAIN merges
      BY <1>1, WasRequested
    <2>3. ~InForce(m) /\ \A r : ~Kept(m, r)
      BY <1>1, <2>1, <2>2, MergeFields DEF IInv, UInv, UndoClearedTheMark, InForce, Kept, UndoRows
    <2> QED
      BY <1>1, <1>2, <2>1, <2>3, JobReading
  <1>3. CASE UNCHANGED jobs
    BY <1>1, <1>3, RunReading
  <1> QED
    BY <1>1, <1>2, <1>3 DEF EndRun

(* A run that breaks off, or goes on without its lock, leaves its merge    *)
(* under work, or the jobs as they are.                                    *)
LEMMA BrokenRunReading ==
  ASSUME IInv, CatalogInv, OneAtATime, NEW V, Reads(V), NEW k \in Kinds, NEW m \in Merges,
         AttemptFails(k, m) \/ Stall(k, m) \/ StrayFails(k, m)
  PROVE  OneAtATime' /\ Reads(V)'
  <1>1. /\ UNCHANGED <<options, merges, initial, value, undo, edited, erased, gone>>
        /\ chunk' = chunk \/ chunk' = None
    BY DEF AttemptFails, Stall, StrayFails, BreaksOff, Elsewhere, catalogVars, historyVars
  <1>2. ASSUME NEW x \in JobType, x.status \in {"queued", "failed"}, Running(k, m),
               jobs' = [jobs EXCEPT ![k][m] = x]
        PROVE  OneAtATime' /\ Reads(V)'
    <2>1. UnderWork(m)'
      <3>1. jobs'[k][m] = x
        BY <1>2, Types DEF IInv
      <3> QED
        BY <1>2, <3>1 DEF UnderWork
    <2>2. jobs[k][m].status \notin {"none", "done"}
      BY <1>2 DEF Running
    <2> QED
      BY <1>1, <1>2, <2>1, <2>2, JobReading
  <1>3. jobs[k][m] \in JobType
    BY JobFields DEF IInv
  <1>4. CASE AttemptFails(k, m)
    <2>1. jobs' = [jobs EXCEPT ![k][m] = AfterFailure(jobs[k][m])] /\ Running(k, m)
      BY <1>4, Types DEF AttemptFails, AfterFailure, IInv
    <2> QED
      BY <1>2, <1>3, <2>1, BrokenJobs
  <1>5. CASE Stall(k, m)
    <2>1. jobs' = [jobs EXCEPT ![k][m] = AfterStall(jobs[k][m])] /\ Running(k, m)
      BY <1>5, Types DEF Stall, AfterStall, IInv
    <2> QED
      BY <1>2, <1>3, <2>1, BrokenJobs
  <1>6. CASE StrayFails(k, m)
    <2>1. UNCHANGED jobs
      BY <1>6 DEF StrayFails
    <2> QED
      BY <1>1, <2>1, RunReading
  <1> QED
    BY <1>4, <1>5, <1>6

(* A chunk is rewritten from what the scan saw, which a clean record still *)
(* holds, and none of its records had been rewritten before.               *)
LEMMA RewriteUnderWork ==
  ASSUME IInv, UInv, CatalogInv, OneAtATime, NEW V, Reads(V), NEW m \in Merges, RewriteChunk(m),
         UnderWork(m)
  PROVE  OneAtATime' /\ Reads(V)'
  <1>. DEFINE f == chunk.saw
              s == merges[m].source
  <1>1. /\ UNCHANGED <<options, merges, initial, edited, erased, gone>> /\ chunk # None /\ chunk' = None
        /\ UNCHANGED jobs
        /\ undo' = undo \cup {[merge |-> m, record |-> r, previous |-> f[r]] : r \in StillMatching(m)}
        /\ value' = [r \in Records |-> IF r \in StillMatching(m) THEN RewriteValue(f[r], m) ELSE value[r]]
    BY DEF RewriteChunk, Open, Elsewhere, catalogVars
  <1>2. \A n : (InForce(n)' <=> InForce(n)) /\ (UnderWork(n)' <=> UnderWork(n))
    BY <1>1 DEF InForce, UnderWork
  <1>8. OneAtATime'
    BY <1>1, <1>2 DEF OneAtATime, LaterInForce
  <1>9. IsReading(V)'
    BY <1>1, <1>2 DEF Reads, IsReading, Requested, RewriteValue
  <1>10. m \in DOMAIN merges
    BY DEF UnderWork, IInv, JobsWereRequested
  <1>14. UNCHANGED <<merges, edited, erased, gone>>
    BY <1>1
  <1>. HIDE DEF f, s
  <1>11. ASSUME NEW r \in Clean, r \in StillMatching(m)
         PROVE  /\ ~Kept(m, r) /\ f[r] = V[m][r] /\ s \in V[m][r]
                /\ value'[r] = RewriteValue(V[m][r], m)
    <2>1. r \in Records /\ r \in DOMAIN f /\ s \in value[r]
      BY <1>11 DEF StillMatching, Matching, f, s
    <2>2. f[r] = value[r]
      BY <1>1, <2>1 DEF Reads, TrueTo, f
    <2>3. value[r] = IF Kept(m, r) THEN RewriteValue(V[m][r], m) ELSE V[m][r]
      BY DEF Reads, TrueTo
    <2>4. s \notin RewriteValue(V[m][r], m)
      BY <1>10 DEF RewriteValue, CatalogInv, s
    <2>. QED BY <1>1, <1>11, <2>1, <2>2, <2>3, <2>4 DEF s
  <1>12. ASSUME NEW r \in Clean, r \notin StillMatching(m)
         PROVE  value'[r] = value[r] /\ \A u \in undo' : u.record = r => u \in undo
    BY <1>1, <1>12 DEF Clean
  <1>13. TrueTo(V)'
    <2>. SUFFICES ASSUME NEW r \in Clean'
         PROVE  /\ \A u \in undo' : u.record = r =>
                     u.previous = V[u.merge][r] /\ merges[u.merge].source \in V[u.merge][r]
                /\ \A n \in DOMAIN merges :
                     InForce(n)' /\ ~UnderWork(n)' /\ merges[n].source \in V[n][r] => Kept(n, r)'
                /\ \A n \in Merges : UnderWork(n)' =>
                     value'[r] = IF Kept(n, r)' THEN RewriteValue(V[n][r], n) ELSE V[n][r]
                /\ WorkedOff' => value'[r] = V[MaxMerges + 1][r]
                /\ chunk' # None => (r \in DOMAIN chunk'.saw => chunk'.saw[r] = value'[r])
      BY <1>14, Zenon DEF TrueTo, RewriteValue
    <2>1. r \in Clean
      BY <1>14 DEF Clean
    <2>2. \A u \in undo' : u.record = r =>
            u.previous = V[u.merge][r] /\ merges[u.merge].source \in V[u.merge][r]
      <3>. SUFFICES ASSUME NEW u \in undo', u.record = r
                    PROVE  u.previous = V[u.merge][r] /\ merges[u.merge].source \in V[u.merge][r]
        OBVIOUS
      <3>1. CASE u \in undo
        BY <2>1, <3>1 DEF Reads, TrueTo
      <3>2. CASE u \notin undo
        <4>1. r \in StillMatching(m) /\ u.merge = m /\ u.previous = f[r]
          BY <1>1, <3>2
        <4>. QED BY <1>11, <2>1, <4>1 DEF s
      <3>. QED BY <3>1, <3>2
    <2>3. \A n : Kept(n, r) => Kept(n, r)'
      BY <1>1 DEF Kept
    <2>4. \A n \in DOMAIN merges :
            InForce(n)' /\ ~UnderWork(n)' /\ merges[n].source \in V[n][r] => Kept(n, r)'
      BY <1>2, <2>1, <2>3, MergeFields DEF Reads, TrueTo, IInv
    <2>5. \A n \in Merges : UnderWork(n)' => n = m
      BY <1>2 DEF OneAtATime
    <2>6. value'[r] = IF Kept(m, r)' THEN RewriteValue(V[m][r], m) ELSE V[m][r]
      <3>1. CASE r \in StillMatching(m)
        <4>1. Kept(m, r)'
          <5>1. [merge |-> m, record |-> r, previous |-> f[r]] \in undo'
            BY <1>1, <3>1
          <5>. QED BY <5>1 DEF Kept
        <4>. QED BY <1>11, <2>1, <3>1, <4>1
      <3>2. CASE r \notin StillMatching(m)
        <4>1. Kept(m, r)' <=> Kept(m, r)
          BY <1>1, <1>12, <2>1, <3>2 DEF Kept
        <4>. QED BY <1>12, <2>1, <3>2, <4>1 DEF Reads, TrueTo
      <3>. QED BY <3>1, <3>2
    <2>7. ~WorkedOff'
      BY <1>1 DEF WorkedOff, UnderWork
    <2>. QED BY <1>1, <2>2, <2>4, <2>5, <2>6, <2>7
  <1>. QED BY <1>8, <1>9, <1>13 DEF Reads

(* A backfill that goes on after its job has ended finds no clean record   *)
(* to rewrite.                                                             *)
LEMMA RewriteChunkReading ==
  ASSUME IInv, UInv, CatalogInv, AllApart, OneAtATime, NEW V, Reads(V), NEW m \in Merges, RewriteChunk(m)
  PROVE  OneAtATime' /\ Reads(V)'
  <1>1. CASE UnderWork(m)
    BY <1>1, RewriteUnderWork
  <1>2. CASE ~UnderWork(m)
    <2>1. /\ UNCHANGED <<options, merges, initial, edited, erased, gone>> /\ UNCHANGED jobs
          /\ chunk # None /\ chunk.merge = m /\ chunk' = None
          /\ \A u : u.record \notin StillMatching(m) => (u \in undo' <=> u \in undo)
          /\ \A r \in Records : r \notin StillMatching(m) => value'[r] = value[r]
      BY DEF RewriteChunk, Open, Elsewhere, catalogVars
    <2>2. AtWork("merge", m) /\ m \in DOMAIN merges
      BY <2>1 DEF UInv, ChunkAtWork, IInv, JobsWereRequested
    <2>3. InForce(m)
      BY <1>2, <2>2, UndoneReading DEF UnderWork, Kinds
    <2>4. \A r \in Clean : r \notin StillMatching(m)
      BY <1>2, <2>2, <2>3, SourceGone DEF StillMatching, Matching
    <2>5. Clean' = Clean /\ Clean \subseteq Records
      BY <2>1 DEF Clean
    <2>. QED BY <2>1, <2>4, <2>5, QuietReading
  <1>. QED BY <1>1, <1>2

(* A chunk of the undo puts back what its rows remember of clean records.  *)
LEMMA RestoreChunkReading ==
  ASSUME IInv, UInv, CatalogInv, AllApart, OneAtATime, NEW V, Reads(V), NEW m \in Merges, RestoreChunk(m)
  PROVE  OneAtATime' /\ Reads(V)'
  <1>1. /\ UNCHANGED <<options, merges, initial>> /\ UNCHANGED <<jobs, chunk>> /\ chunk = None
        /\ AtWork("undo", m) /\ UndoRows(m) # {} /\ "undo" \in Kinds
    BY DEF RestoreChunk, LockFree, Elsewhere, catalogVars, queueVars, Kinds
  <1>2. UNCHANGED <<merges, jobs>> /\ UNCHANGED <<edited, erased, gone>>
    BY DEF RestoreChunk, Elsewhere, catalogVars, queueVars
  <1>0. PICK C \in Chunks(ChunkSize, UndoRows(m)) :
          LET subj == {u.record : u \in C}
          IN  \E last \in [subj -> C] :
                /\ \A r \in subj : last[r].record = r
                /\ undo' = undo \ C
                /\ value' = [r \in Records |-> IF r \in subj /\ Live(r)
                                               THEN last[r].previous ELSE value[r]]
    BY DEF RestoreChunk
  <1>3. PICK last \in [{u.record : u \in C} -> C] :
          /\ \A r \in {u.record : u \in C} : last[r].record = r
          /\ undo' = undo \ C
          /\ value' = [r \in Records |-> IF r \in {u.record : u \in C} /\ Live(r)
                                           THEN last[r].previous ELSE value[r]]
    BY <1>0
  <1>. DEFINE subjects == {u.record : u \in C}
  <1>4. C \subseteq undo /\ \A u \in C : u.merge = m
    BY DEF Chunks, UndoRows
  <1>5. UnderWork(m) /\ m \in DOMAIN merges /\ jobs["undo"][m].status # "none"
    <2>1. m \in DOMAIN merges /\ jobs["undo"][m].status # "none"
      BY <1>1, WasRequested
    <2>2. jobs["undo"][m].status # "done"
      BY <1>1 DEF UInv, UndoneStaysUndone, AllApart, Apart
    <2>. QED BY <1>1, <2>1, <2>2 DEF UnderWork
  <1>6. ~InForce(m)
    BY <1>5, MergeFields DEF IInv, UInv, UndoClearedTheMark, InForce
  <1>7. \A n : (InForce(n)' <=> InForce(n)) /\ (UnderWork(n)' <=> UnderWork(n))
    BY <1>1 DEF InForce, UnderWork
  <1>8. OneAtATime'
    BY <1>1, <1>7 DEF OneAtATime, LaterInForce
  <1>9. IsReading(V)'
    BY <1>1, <1>7 DEF Reads, IsReading, Requested, RewriteValue
  <1>10. ASSUME NEW r \in Clean, r \in subjects
         PROVE  value'[r] = V[m][r] /\ ~Kept(m, r)'
    <2>1. r \in Records /\ Live(r)
      BY DEF Clean, Live
    <2>2. last[r] \in C /\ last[r].record = r
      BY <1>3, <1>10
    <2>3. last[r] \in undo /\ last[r].merge = m
      BY <1>4, <2>2
    <2>4. last[r].previous = V[m][r]
      BY <2>2, <2>3 DEF Reads, TrueTo
    <2>5. value'[r] = V[m][r]
      BY <1>3, <1>10, <2>1, <2>4
    <2>6. ASSUME NEW u \in undo', u.merge = m, u.record = r PROVE FALSE
      <3>1. u \in undo /\ u \notin C
        BY <1>3, <2>6
      <3>2. u.previous = V[m][r]
        BY <2>6, <3>1 DEF Reads, TrueTo
      <3>3. u \in UndoType /\ last[r] \in UndoType
        BY <2>3, <3>1, Types DEF IInv
      <3>4. u = last[r]
        BY <2>2, <2>3, <2>4, <2>6, <3>2, <3>3 DEF UndoType
      <3>. QED BY <2>2, <3>1, <3>4
    <2>. QED BY <2>5, <2>6 DEF Kept
  <1>11. ASSUME NEW r \in Clean, r \notin subjects
         PROVE  value'[r] = value[r] /\ (Kept(m, r)' <=> Kept(m, r))
    <2>1. value'[r] = value[r]
      BY <1>3, <1>11 DEF Clean
    <2>2. \A u \in undo : u.record = r => u \in undo'
      BY <1>3, <1>11
    <2>3. undo' \subseteq undo
      BY <1>3
    <2>. QED BY <2>1, <2>2, <2>3 DEF Kept
  <1>12. \A n, r : n # m => (Kept(n, r)' <=> Kept(n, r))
    BY <1>3, <1>4 DEF Kept
  <1>. HIDE DEF subjects
  <1>13. TrueTo(V)'
    <2>. SUFFICES ASSUME NEW r \in Clean'
         PROVE  /\ \A u \in undo' : u.record = r =>
                     u.previous = V[u.merge][r] /\ merges[u.merge].source \in V[u.merge][r]
                /\ \A n \in DOMAIN merges :
                     InForce(n)' /\ ~UnderWork(n)' /\ merges[n].source \in V[n][r] => Kept(n, r)'
                /\ \A n \in Merges : UnderWork(n)' =>
                     value'[r] = IF Kept(n, r)' THEN RewriteValue(V[n][r], n) ELSE V[n][r]
                /\ WorkedOff' => value'[r] = V[MaxMerges + 1][r]
                /\ chunk' # None => (r \in DOMAIN chunk'.saw => chunk'.saw[r] = value'[r])
      BY <1>2, Zenon DEF TrueTo, RewriteValue
    <2>1. r \in Clean
      BY <1>2 DEF Clean
    <2>2. \A u \in undo' : u.record = r =>
            u.previous = V[u.merge][r] /\ merges[u.merge].source \in V[u.merge][r]
      BY <1>3, <2>1 DEF Reads, TrueTo
    <2>3. \A n \in DOMAIN merges :
            InForce(n)' /\ ~UnderWork(n)' /\ merges[n].source \in V[n][r] => Kept(n, r)'
      BY <1>5, <1>7, <1>12, <2>1 DEF Reads, TrueTo
    <2>4. \A n \in Merges : UnderWork(n)' => n = m
      BY <1>5, <1>7 DEF OneAtATime
    <2>5. value'[r] = IF Kept(m, r)' THEN RewriteValue(V[m][r], m) ELSE V[m][r]
      <3>1. CASE r \in subjects
        BY <1>10, <2>1, <3>1
      <3>2. CASE r \notin subjects
        BY <1>5, <1>11, <2>1, <3>2 DEF Reads, TrueTo
      <3>. QED BY <3>1, <3>2
    <2>6. ~WorkedOff'
      BY <1>1, <1>5 DEF WorkedOff, UnderWork
    <2>. QED BY <1>1, <2>2, <2>3, <2>4, <2>5, <2>6
  <1>. QED BY <1>8, <1>9, <1>13 DEF Reads

(* The values read through a merge requested when all is quiet.            *)
LEMMA MergeOptionReading ==
  ASSUME IInv, UInv, CatalogInv, OneAtATime, NEW V, Reads(V), NEW s \in Options, NEW t \in Options,
         MergeOption(s, t), ~tangled'
  PROVE  OneAtATime' /\ \E W : Reads(W)'
  <1>0. PICK m : m = Len(merges) + 1
    OBVIOUS
  <1>. DEFINE moved(x) == IF s \in x THEN (x \ {s}) \cup {t} ELSE x
              W == [n \in 1..(MaxMerges + 1) |-> [r \in Records |-> IF n <= m THEN V[n][r] ELSE moved(V[m][r])]]
  <1>1. /\ UNCHANGED <<value, undo, edited, erased, gone>> /\ UNCHANGED <<initial, chunk>>
        /\ options[s].merge = 0 /\ s # t /\ WorkedOff
    BY DEF MergeOption
  <1>2. /\ m \in Merges /\ m \in Nat \ {0} /\ DOMAIN merges = 1..(m - 1) /\ m \in 1..(MaxMerges + 1)
        /\ m - 1 \in 0..MaxMerges
    BY <1>0, Types, BoundsAssumption DEF MergeOption, Merges, IInv
  <1>3. /\ merges'[m] = [source |-> s, target |-> t] /\ DOMAIN merges' = 1..m
        /\ \A n \in DOMAIN merges : merges'[n] = merges[n]
    <2>1. merges' = Append(merges, [source |-> s, target |-> t])
      BY DEF MergeOption
    <2>. QED BY <1>0, <2>1, Types DEF IInv
  <1>4. options'[s].merge = m /\ \A o \in Options \ {s} : options'[o] = options[o]
    <2>1. options' = [options EXCEPT ![s] = [active |-> FALSE, merge |-> m]]
      BY <1>0 DEF MergeOption
    <2>. QED BY <2>1, Types DEF IInv
  <1>5. /\ jobs'["merge"][m] = JobIn("queued")
        /\ \A k \in Kinds, n \in Merges : <<k, n>> # <<"merge", m>> => jobs'[k][n] = jobs[k][n]
    <2>1. jobs' = [jobs EXCEPT !["merge"][m] = JobIn("queued")]
      BY <1>0 DEF MergeOption
    <2>2. JobIn("queued") \in JobType /\ "merge" \in Kinds
      BY JobInType DEF JobStatus, Kinds
    <2>. QED BY <1>2, <2>1, <2>2, Types DEF IInv
  <1>. HIDE DEF moved
  <1>6. InForce(m)'
    BY <1>3, <1>4 DEF InForce
  <1>7. \A n \in DOMAIN merges : n # m /\ n < m /\ (InForce(n)' <=> InForce(n))
    <2>. SUFFICES ASSUME NEW n \in DOMAIN merges PROVE n # m /\ n < m /\ (InForce(n)' <=> InForce(n))
      OBVIOUS
    <2>1. n # m /\ n < m /\ n # 0
      BY <1>2
    <2>2. merges[n].source \in Options /\ merges'[n] = merges[n]
      BY <1>3, MergeFields DEF IInv
    <2>. QED BY <1>1, <1>4, <2>1, <2>2 DEF InForce
  <1>8. /\ \A n \in Merges : ~UnderWork(n)
        /\ \A n \in Merges : UnderWork(n)' <=> n = m
    <2>1. \A n \in Merges : ~UnderWork(n)
      BY <1>1, Idle DEF IInv
    <2>2. \A n \in Merges : n # m => ~UnderWork(n)'
      BY <1>5, <2>1 DEF UnderWork
    <2>3. UnderWork(m)'
      BY <1>5, JobInType DEF UnderWork, Kinds, JobStatus
    <2>. QED BY <1>2, <2>1, <2>2, <2>3
  <1>9. OneAtATime'
    <2>1. ~LaterInForce(m)'
      BY <1>2, <1>3 DEF LaterInForce
    <2>. QED BY <1>8, <2>1 DEF OneAtATime
  <1>10. \A r \in Records : V[m][r] = V[MaxMerges + 1][r]
    <2>1. \A n \in DOMAIN merges : n > m - 1 => ~InForce(n)
      BY <1>2
    <2>2. m - 1 + 1 = m
      BY <1>2
    <2>3. \A r \in Records : V[m - 1 + 1][r] = V[MaxMerges + 1][r]
      BY <1>2, <2>1, NoLaterMerge DEF Reads
    <2>. QED BY <2>2, <2>3
  <1>11. /\ \A n \in 1..(MaxMerges + 1), r \in Records : n <= m => W[n][r] = V[n][r]
         /\ \A n \in 1..(MaxMerges + 1), r \in Records : n > m => W[n][r] = moved(V[m][r])
    BY <1>2
  <1>12. IsReading(W)'
    <2>1. W \in [1..(MaxMerges + 1) -> [Records -> SUBSET Options]]
      <3>1. \A n \in 1..(MaxMerges + 1), r \in Records : V[n][r] \in SUBSET Options
        BY DEF Reads, IsReading
      <3>2. \A r \in Records : moved(V[m][r]) \in SUBSET Options
        BY <1>2, <3>1 DEF moved
      <3>. QED BY <3>1, <3>2
    <2>2. W[1] = initial'
      <3>1. W[1] = [r \in Records |-> V[1][r]]
        <4>1. 1 \in 1..(MaxMerges + 1) /\ 1 <= m
          BY <1>2, BoundsAssumption
        <4>2. W[1] = [r \in Records |-> IF 1 <= m THEN V[1][r] ELSE moved(V[m][r])]
          BY <4>1, Zenon
        <4>. HIDE DEF W
        <4>. QED BY <4>1, <4>2
      <3>2. V[1] \in [Records -> SUBSET Options] /\ V[1] = initial
        BY BoundsAssumption DEF Reads, IsReading
      <3>. QED BY <1>1, <3>1, <3>2
    <2>3. ASSUME NEW n \in Merges, NEW r \in Records
          PROVE  W[n + 1][r] = IF Requested(n)' /\ InForce(n)' /\ merges'[n].source \in W[n][r]
                                 THEN RewriteValue(W[n][r], n)' ELSE W[n][r]
      <3>1. n \in 1..(MaxMerges + 1) /\ n + 1 \in 1..(MaxMerges + 1) /\ n \in Int
        BY BoundsAssumption DEF Merges
      <3>. HIDE DEF W
      <3>2. CASE n < m
        <4>1. W[n + 1][r] = V[n + 1][r] /\ W[n][r] = V[n][r]
          BY <1>2, <1>11, <3>1, <3>2
        <4>2. Requested(n) /\ Requested(n)' /\ merges'[n] = merges[n] /\ (InForce(n)' <=> InForce(n))
          BY <1>2, <1>3, <1>7, <3>1, <3>2 DEF Requested, Merges
        <4>3. V[n + 1][r] = IF Requested(n) /\ InForce(n) /\ merges[n].source \in V[n][r]
                              THEN RewriteValue(V[n][r], n) ELSE V[n][r]
          BY DEF Reads, IsReading
        <4>. QED BY <4>1, <4>2, <4>3 DEF RewriteValue
      <3>3. CASE n = m
        <4>1. W[n + 1][r] = moved(V[m][r]) /\ W[n][r] = V[m][r]
          BY <1>2, <1>11, <3>1, <3>3
        <4>2. Requested(n)' /\ InForce(n)' /\ merges'[n].source = s /\ merges'[n].target = t
          BY <1>2, <1>3, <1>6, <3>3 DEF Requested
        <4>. QED BY <4>1, <4>2 DEF RewriteValue, moved
      <3>4. CASE n > m
        <4>1. W[n + 1][r] = moved(V[m][r]) /\ W[n][r] = moved(V[m][r])
          BY <1>2, <1>11, <3>1, <3>4
        <4>2. ~Requested(n)'
          BY <1>2, <1>3, <3>1, <3>4 DEF Requested
        <4>. QED BY <4>1, <4>2
      <3>. QED BY <1>2, <3>1, <3>2, <3>3, <3>4
    <2>. HIDE DEF W
    <2>. QED BY <2>1, <2>2, <2>3, Zenon DEF IsReading, Requested, RewriteValue, InForce
  <1>. HIDE DEF W
  <1>13. TrueTo(W)'
    <2>. SUFFICES ASSUME NEW r \in Clean'
         PROVE  /\ \A u \in undo' : u.record = r =>
                     u.previous = W[u.merge][r] /\ merges'[u.merge].source \in W[u.merge][r]
                /\ \A n \in DOMAIN merges' :
                     InForce(n)' /\ ~UnderWork(n)' /\ merges'[n].source \in W[n][r] => Kept(n, r)'
                /\ \A n \in Merges : UnderWork(n)' =>
                     value'[r] = IF Kept(n, r)' THEN RewriteValue(W[n][r], n)' ELSE W[n][r]
                /\ WorkedOff' => value'[r] = W[MaxMerges + 1][r]
                /\ chunk' # None => (r \in DOMAIN chunk'.saw => chunk'.saw[r] = value'[r])
      BY Zenon DEF TrueTo, RewriteValue, UnderWork, Kept, InForce
    <2>1. r \in Clean /\ r \in Records
      BY <1>1 DEF Clean
    <2>2. \A n \in DOMAIN merges : W[n][r] = V[n][r]
      BY <1>2, <1>11, <2>1, BoundsAssumption
    <2>3. \A u \in undo' : u.record = r =>
            u.previous = W[u.merge][r] /\ merges'[u.merge].source \in W[u.merge][r]
      <3>. SUFFICES ASSUME NEW u \in undo, u.record = r
                    PROVE  u.previous = W[u.merge][r] /\ merges'[u.merge].source \in W[u.merge][r]
        BY <1>1
      <3>1. u.merge \in DOMAIN merges
        BY DEF CatalogInv
      <3>2. u.previous = V[u.merge][r] /\ merges[u.merge].source \in V[u.merge][r]
        BY <2>1 DEF Reads, TrueTo
      <3>. QED BY <1>3, <2>2, <3>1, <3>2
    <2>4. \A n : Kept(n, r)' <=> Kept(n, r)
      BY <1>1 DEF Kept
    <2>5. ASSUME NEW n \in DOMAIN merges', InForce(n)', ~UnderWork(n)', merges'[n].source \in W[n][r]
          PROVE  Kept(n, r)'
      <3>1. n # m
        BY <1>2, <1>8, <2>5
      <3>2. n \in DOMAIN merges /\ n \in Merges
        BY <1>2, <1>3, <2>5, <3>1, BoundsAssumption DEF Merges
      <3>3. InForce(n) /\ ~UnderWork(n) /\ merges[n].source \in V[n][r]
        BY <1>3, <1>7, <1>8, <2>2, <2>5, <3>2
      <3>. QED BY <2>1, <2>4, <3>2, <3>3 DEF Reads, TrueTo
    <2>6. ASSUME NEW n \in Merges, UnderWork(n)'
          PROVE  value'[r] = IF Kept(n, r)' THEN RewriteValue(W[n][r], n)' ELSE W[n][r]
      <3>1. n = m
        BY <1>8, <2>6
      <3>2. ~Kept(m, r)
        BY <1>2 DEF Kept, CatalogInv
      <3>3. W[m][r] = V[m][r]
        BY <1>2, <1>11, <2>1
      <3>4. value[r] = V[MaxMerges + 1][r]
        BY <1>1, <2>1 DEF Reads, TrueTo
      <3>. QED BY <1>1, <1>10, <2>1, <2>4, <3>1, <3>2, <3>3, <3>4
    <2>7. ~WorkedOff'
      BY <1>2, <1>5, JobInType DEF WorkedOff, Kinds, JobStatus
    <2>8. chunk' # None => (r \in DOMAIN chunk'.saw => chunk'.saw[r] = value'[r])
      BY <1>1, <2>1 DEF Reads, TrueTo
    <2>. QED BY <2>3, <2>5, <2>6, <2>7, <2>8
  <1>. QED BY <1>9, <1>12, <1>13 DEF Reads

(* The values read once the last merge in force is taken back, its own     *)
(* backfill waiting, running or done.                                      *)
LEMMA UndoOptionMergeReading ==
  ASSUME IInv, UInv, CatalogInv, AllApart, OneAtATime, NEW V, Reads(V), NEW m \in Merges,
         UndoOptionMerge(m), ~tangled'
  PROVE  OneAtATime' /\ \E W : Reads(W)'
  <1>. DEFINE W == [n \in 1..(MaxMerges + 1) |-> [r \in Records |-> IF n <= m THEN V[n][r] ELSE V[m][r]]]
  <1>1. /\ UNCHANGED <<merges, value, undo>> /\ UNCHANGED <<edited, erased, gone>>
        /\ UNCHANGED <<initial, chunk>>
        /\ m \in DOMAIN merges /\ InForce(m) /\ ~LaterInForce(m)
        /\ \A k \in Kinds, n \in Merges \ {m} : jobs[k][n].status \in {"none", "done"}
    BY DEF UndoOptionMerge, Requested
  <1>2. m \in Nat \ {0} /\ m \in 1..(MaxMerges + 1) /\ m \in 0..MaxMerges
    BY BoundsAssumption DEF Merges
  <1>3. /\ options'[merges[m].source].merge = 0
        /\ \A o \in Options : o # merges[m].source => options'[o] = options[o]
    <2>1. options' = [options EXCEPT ![merges[m].source] = [active |-> TRUE, merge |-> 0]]
      BY DEF UndoOptionMerge
    <2>2. merges[m].source \in Options
      BY <1>1, MergeFields DEF IInv
    <2>. QED BY <2>1, <2>2, Types DEF IInv
  <1>4. /\ jobs'["undo"][m] = JobIn("queued")
        /\ \A k \in Kinds, n \in Merges : <<k, n>> # <<"undo", m>> => jobs'[k][n] = jobs[k][n]
    <2>1. jobs' = [jobs EXCEPT !["undo"][m] = JobIn("queued")]
      BY DEF UndoOptionMerge
    <2>2. JobIn("queued") \in JobType /\ "undo" \in Kinds
      BY JobInType DEF JobStatus, Kinds
    <2>. QED BY <2>1, <2>2, Types DEF IInv
  <1>5. ~InForce(m)'
    BY <1>1, <1>2, <1>3 DEF InForce
  <1>6. \A n \in DOMAIN merges : n # m => (InForce(n)' <=> InForce(n))
    <2>. SUFFICES ASSUME NEW n \in DOMAIN merges, n # m PROVE InForce(n)' <=> InForce(n)
      OBVIOUS
    <2>1. merges[n].source \in Options /\ n \in Merges /\ n # 0
      BY MergeFields DEF IInv, Merges
    <2>2. CASE merges[n].source = merges[m].source
      BY <1>1, <1>3, <2>1, <2>2 DEF InForce
    <2>3. CASE merges[n].source # merges[m].source
      BY <1>1, <1>3, <2>1, <2>3 DEF InForce
    <2>. QED BY <2>2, <2>3
  <1>7. \A n \in Merges : (UnderWork(n)' <=> n = m) /\ (n # m => ~UnderWork(n))
    <2>1. \A n \in Merges : n # m => ~UnderWork(n) /\ ~UnderWork(n)'
      BY <1>1, <1>4 DEF UnderWork
    <2>2. UnderWork(m)'
      BY <1>4, JobInType DEF UnderWork, Kinds, JobStatus
    <2>. QED BY <2>1, <2>2
  <1>8. OneAtATime'
    <2>1. ~LaterInForce(m)'
      BY <1>1, <1>2, <1>6 DEF LaterInForce
    <2>. QED BY <1>7, <2>1 DEF OneAtATime
  <1>9. /\ \A n \in 1..(MaxMerges + 1), r \in Records : n <= m => W[n][r] = V[n][r]
        /\ \A n \in 1..(MaxMerges + 1), r \in Records : n > m => W[n][r] = V[m][r]
    BY <1>2
  <1>10. IsReading(W)'
    <2>1. W \in [1..(MaxMerges + 1) -> [Records -> SUBSET Options]]
      <3>1. \A n \in 1..(MaxMerges + 1), r \in Records : V[n][r] \in SUBSET Options
        BY DEF Reads, IsReading
      <3>. QED BY <1>2, <3>1
    <2>2. W[1] = initial'
      <3>1. W[1] = [r \in Records |-> V[1][r]]
        <4>1. 1 \in 1..(MaxMerges + 1) /\ 1 <= m
          BY <1>2, BoundsAssumption
        <4>2. W[1] = [r \in Records |-> IF 1 <= m THEN V[1][r] ELSE V[m][r]]
          BY <4>1, Zenon
        <4>. HIDE DEF W
        <4>. QED BY <4>1, <4>2
      <3>2. V[1] \in [Records -> SUBSET Options] /\ V[1] = initial
        BY BoundsAssumption DEF Reads, IsReading
      <3>. QED BY <1>1, <3>1, <3>2
    <2>3. ASSUME NEW n \in Merges, NEW r \in Records
          PROVE  W[n + 1][r] = IF Requested(n)' /\ InForce(n)' /\ merges'[n].source \in W[n][r]
                                 THEN RewriteValue(W[n][r], n)' ELSE W[n][r]
      <3>1. n \in 1..(MaxMerges + 1) /\ n + 1 \in 1..(MaxMerges + 1) /\ n \in Int
        BY BoundsAssumption DEF Merges
      <3>. HIDE DEF W
      <3>2. CASE n < m
        <4>1. W[n + 1][r] = V[n + 1][r] /\ W[n][r] = V[n][r]
          BY <1>2, <1>9, <3>1, <3>2
        <4>2. Requested(n)' <=> Requested(n)
          BY <1>1 DEF Requested
        <4>3. Requested(n) => (InForce(n)' <=> InForce(n))
          BY <1>2, <1>6, <3>1, <3>2 DEF Requested
        <4>4. V[n + 1][r] = IF Requested(n) /\ InForce(n) /\ merges[n].source \in V[n][r]
                              THEN RewriteValue(V[n][r], n) ELSE V[n][r]
          BY DEF Reads, IsReading
        <4>5. merges' = merges
          BY <1>1
        <4>. QED BY <4>1, <4>2, <4>3, <4>4, <4>5 DEF RewriteValue
      <3>3. CASE n = m
        <4>1. W[n + 1][r] = V[m][r] /\ W[n][r] = V[m][r]
          BY <1>2, <1>9, <3>1, <3>3
        <4>. QED BY <1>5, <3>3, <4>1
      <3>4. CASE n > m
        <4>1. W[n + 1][r] = V[m][r] /\ W[n][r] = V[m][r]
          BY <1>2, <1>9, <3>1, <3>4
        <4>2. Requested(n)' => ~InForce(n)'
          BY <1>1, <1>2, <1>6, <3>1, <3>4 DEF Requested, LaterInForce
        <4>. QED BY <4>1, <4>2
      <3>. QED BY <1>2, <3>1, <3>2, <3>3, <3>4
    <2>. HIDE DEF W
    <2>. QED BY <2>1, <2>2, <2>3, Zenon DEF IsReading, Requested, RewriteValue, InForce
  <1>. HIDE DEF W
  <1>11. ASSUME NEW r \in Clean
         PROVE  value[r] = IF Kept(m, r) THEN RewriteValue(V[m][r], m) ELSE V[m][r]
    <2>1. CASE UnderWork(m)
      BY <2>1 DEF Reads, TrueTo
    <2>2. CASE ~UnderWork(m)
      <3>1. WorkedOff
        BY <1>7, <2>2, Idle DEF IInv
      <3>2. value[r] = V[MaxMerges + 1][r] /\ r \in Records
        BY <3>1 DEF Reads, TrueTo, Clean
      <3>3. \A n \in DOMAIN merges : n > m => ~InForce(n)
        BY <1>1 DEF LaterInForce
      <3>4. V[m + 1][r] = V[MaxMerges + 1][r]
        BY <1>2, <3>2, <3>3, NoLaterMerge DEF Reads
      <3>5. V[m + 1][r] = IF merges[m].source \in V[m][r] THEN RewriteValue(V[m][r], m) ELSE V[m][r]
        BY <1>1, <3>2 DEF Reads, IsReading, Requested
      <3>6. merges[m].source \in V[m][r] <=> Kept(m, r)
        BY <1>1, <2>2 DEF Reads, TrueTo, Kept
      <3>. QED BY <3>2, <3>4, <3>5, <3>6
    <2>. QED BY <2>1, <2>2
  <1>12. ASSUME NEW u \in undo PROVE u.merge \in 1..(MaxMerges + 1) /\ u.merge <= m
    <2>1. u.merge \in DOMAIN merges /\ u.merge \in Merges /\ u.merge \in 1..(MaxMerges + 1)
      BY MergeFields, BoundsAssumption DEF CatalogInv, IInv, Merges
    <2>2. ASSUME u.merge > m PROVE FALSE
      <3>1. ~InForce(u.merge) /\ u.merge # m
        BY <1>1, <1>2, <2>1, <2>2 DEF LaterInForce
      <3>2. jobs["undo"][u.merge].status = "done"
        BY <1>1, <2>1, <3>1 DEF CatalogInv, Kinds
      <3>. QED BY <2>1, <3>2 DEF UInv, UndoneStaysUndone, UndoRows, AllApart, Apart
    <2>. QED BY <1>2, <2>1, <2>2
  <1>13. TrueTo(W)'
    <2>. SUFFICES ASSUME NEW r \in Clean'
         PROVE  /\ \A u \in undo' : u.record = r =>
                     u.previous = W[u.merge][r] /\ merges'[u.merge].source \in W[u.merge][r]
                /\ \A n \in DOMAIN merges' :
                     InForce(n)' /\ ~UnderWork(n)' /\ merges'[n].source \in W[n][r] => Kept(n, r)'
                /\ \A n \in Merges : UnderWork(n)' =>
                     value'[r] = IF Kept(n, r)' THEN RewriteValue(W[n][r], n)' ELSE W[n][r]
                /\ WorkedOff' => value'[r] = W[MaxMerges + 1][r]
                /\ chunk' # None => (r \in DOMAIN chunk'.saw => chunk'.saw[r] = value'[r])
      BY Zenon DEF TrueTo, RewriteValue, UnderWork, Kept, InForce
    <2>1. r \in Clean /\ r \in Records
      BY <1>1 DEF Clean
    <2>2. \A u \in undo' : u.record = r =>
            u.previous = W[u.merge][r] /\ merges'[u.merge].source \in W[u.merge][r]
      <3>. SUFFICES ASSUME NEW u \in undo, u.record = r
                    PROVE  u.previous = W[u.merge][r] /\ merges[u.merge].source \in W[u.merge][r]
        BY <1>1
      <3>1. u.previous = V[u.merge][r] /\ merges[u.merge].source \in V[u.merge][r]
        BY <2>1 DEF Reads, TrueTo
      <3>. QED BY <1>9, <1>12, <2>1, <3>1
    <2>3. \A n : Kept(n, r)' <=> Kept(n, r)
      BY <1>1 DEF Kept
    <2>4. ASSUME NEW n \in DOMAIN merges', InForce(n)', ~UnderWork(n)', merges'[n].source \in W[n][r]
          PROVE  Kept(n, r)'
      <3>1. n \in DOMAIN merges /\ n \in Merges /\ n # m /\ n \in Int /\ n \in 1..(MaxMerges + 1)
        BY <1>1, <1>5, <2>4, MergeFields, BoundsAssumption DEF IInv, Merges
      <3>2. InForce(n) /\ ~UnderWork(n)
        BY <1>6, <1>7, <2>4, <3>1
      <3>3. n <= m
        BY <1>1, <1>2, <3>1, <3>2 DEF LaterInForce
      <3>4. merges[n].source \in V[n][r]
        BY <1>1, <1>9, <2>1, <2>4, <3>1, <3>3
      <3>. QED BY <2>1, <2>3, <3>1, <3>2, <3>4 DEF Reads, TrueTo
    <2>5. ASSUME NEW n \in Merges, UnderWork(n)'
          PROVE  value'[r] = IF Kept(n, r)' THEN RewriteValue(W[n][r], n)' ELSE W[n][r]
      <3>1. n = m
        BY <1>7, <2>5
      <3>2. W[m][r] = V[m][r]
        BY <1>2, <1>9, <2>1
      <3>3. RewriteValue(W[m][r], m)' = RewriteValue(V[m][r], m)
        BY <1>1, <3>2 DEF RewriteValue
      <3>. QED BY <1>1, <1>11, <2>1, <2>3, <3>1, <3>2, <3>3
    <2>6. ~WorkedOff'
      BY <1>4, JobInType DEF WorkedOff, Kinds, JobStatus
    <2>7. chunk' # None => (r \in DOMAIN chunk'.saw => chunk'.saw[r] = value'[r])
      BY <1>1, <2>1 DEF Reads, TrueTo
    <2>. QED BY <2>2, <2>4, <2>5, <2>6, <2>7
  <1>. QED BY <1>8, <1>10, <1>13 DEF Reads

-----------------------------------------------------------------------------
(* Every step keeps the catalogue, and the records reading true *)


(* A step that leaves the catalogue alone, keeps the jobs asked for and    *)
(* adds rows only of requested merges.                                     *)
LEMMA SameCatalog ==
  ASSUME IInv, CatalogInv, UNCHANGED <<options, merges>>,
         \A k \in Kinds, m \in Merges : jobs[k][m].status # "none" => jobs'[k][m].status # "none",
         \A u \in undo' : u \in undo \/ u.merge \in DOMAIN merges
  PROVE  CatalogInv'
  <1>1. \A m \in DOMAIN merges : m \in Merges
    BY MergeFields DEF IInv
  <1>. QED BY <1>1 DEF CatalogInv, InForce, Kinds

(* An option that carries a mark stays inactive.                           *)
LEMMA UpdateOptionCatalog ==
  ASSUME IInv, CatalogInv, NEW o \in Options, UpdateOption(o)
  PROVE  CatalogInv'
  <1>1. UNCHANGED <<merges, jobs, undo>> /\ options' = [options EXCEPT ![o].active = ~@]
        /\ (options[o].active \/ options[o].merge = 0)
    BY DEF UpdateOption, queueVars
  <1>2. \A p \in Options : options'[p].merge = options[p].merge
    BY <1>1, Types DEF IInv, OptionType
  <1>3. \A p \in Options : p # o => options'[p].active = options[p].active
    BY <1>1, Types DEF IInv, OptionType
  <1>4. \A p \in Options : options'[p].active => options'[p].merge = 0
    BY <1>1, <1>2, <1>3 DEF CatalogInv
  <1>5. \A m \in DOMAIN merges : merges[m].source \in Options /\ merges[m].target \in Options
    BY MergeFields DEF IInv
  <1>. QED BY <1>1, <1>2, <1>4, <1>5 DEF CatalogInv, InForce

(* A new merge is the youngest, and its target carries no mark.            *)
LEMMA MergeOptionCatalog ==
  ASSUME IInv, CatalogInv, NEW s \in Options, NEW t \in Options, MergeOption(s, t)
  PROVE  CatalogInv'
  <1>0. PICK n : n = Len(merges) + 1
    OBVIOUS
  <1>1. /\ UNCHANGED undo /\ n \in Merges /\ n \in Nat \ {0} /\ DOMAIN merges = 1..(n - 1)
        /\ options[s].merge = 0 /\ s # t /\ options[t].active
    BY <1>0, Types, BoundsAssumption DEF MergeOption, Merges, IInv
  <1>2. /\ merges'[n] = [source |-> s, target |-> t] /\ DOMAIN merges' = 1..n
        /\ \A m \in DOMAIN merges : merges'[m] = merges[m]
    <2>1. merges' = Append(merges, [source |-> s, target |-> t])
      BY DEF MergeOption
    <2>. QED BY <1>0, <2>1, Types DEF IInv
  <1>3. options'[s] = [active |-> FALSE, merge |-> n] /\ \A o \in Options \ {s} : options'[o] = options[o]
    <2>1. options' = [options EXCEPT ![s] = [active |-> FALSE, merge |-> n]]
      BY <1>0 DEF MergeOption
    <2>. QED BY <2>1, Types DEF IInv
  <1>4. /\ jobs'["merge"][n] = JobIn("queued")
        /\ \A k \in Kinds, m \in Merges : <<k, m>> # <<"merge", n>> => jobs'[k][m] = jobs[k][m]
    <2>1. jobs' = [jobs EXCEPT !["merge"][n] = JobIn("queued")]
      BY <1>0 DEF MergeOption
    <2>2. JobIn("queued") \in JobType /\ "merge" \in Kinds
      BY JobInType DEF JobStatus, Kinds
    <2>. QED BY <1>1, <2>1, <2>2, Types DEF IInv
  <1>5. \A o \in Options : options'[o].active => options'[o].merge = 0
    <2>1. ~options'[s].active
      BY <1>3
    <2>. QED BY <1>3, <2>1 DEF CatalogInv
  <1>6. \A u \in undo' : u.merge \in DOMAIN merges'
    BY <1>1, <1>2 DEF CatalogInv
  <1>7. ASSUME NEW m \in DOMAIN merges'
        PROVE  /\ merges'[m].source # merges'[m].target
               /\ LET q == options'[merges'[m].target].merge IN q = 0 \/ q > m
               /\ jobs'["merge"][m].status # "none"
               /\ InForce(m)' \/ jobs'["undo"][m].status # "none"
    <2>1. CASE m = n
      <3>1. options[t].merge = 0 /\ options'[t].merge = 0
        BY <1>1, <1>3 DEF CatalogInv
      <3>2. jobs'["merge"][n].status # "none"
        BY <1>4, JobInType DEF JobStatus
      <3>3. options'[s].merge = n
        BY <1>3
      <3>. QED BY <1>1, <1>2, <2>1, <3>1, <3>2, <3>3 DEF InForce
    <2>2. CASE m # n
      <3>1. m \in DOMAIN merges /\ m \in Merges /\ m < n /\ m # 0 /\ merges'[m] = merges[m]
        <4>1. m \in DOMAIN merges
          BY <1>1, <1>2, <2>2
        <4>. QED BY <1>1, <1>2, <4>1, MergeFields DEF IInv
      <3>2. merges[m].source \in Options /\ merges[m].target \in Options
        BY <3>1, MergeFields DEF IInv
      <3>3. options'[s].merge = n
        BY <1>3
      <3>4. InForce(m)' <=> InForce(m)
        <4>1. CASE merges[m].source = s
          BY <1>1, <3>1, <3>3, <4>1, <2>2 DEF InForce
        <4>2. CASE merges[m].source # s
          BY <1>3, <3>1, <3>2, <4>2 DEF InForce
        <4>. QED BY <4>1, <4>2
      <3>5. LET q == options'[merges'[m].target].merge IN q = 0 \/ q > m
        <4>1. CASE merges[m].target = s
          BY <1>1, <3>1, <3>3, <4>1
        <4>2. CASE merges[m].target # s
          BY <1>3, <3>1, <3>2, <3>4, <4>2 DEF CatalogInv
        <4>. QED BY <4>1, <4>2
      <3>6. jobs'["merge"][m] = jobs["merge"][m] /\ jobs'["undo"][m] = jobs["undo"][m]
        BY <1>4, <2>2, <3>1 DEF Kinds
      <3>. QED BY <3>1, <3>4, <3>5, <3>6 DEF CatalogInv
    <2>. QED BY <2>1, <2>2
  <1>. QED BY <1>5, <1>6, <1>7, Zenon DEF CatalogInv, InForce

(* A merge that is not in force any more has an undo job.                  *)
LEMMA UndoOptionMergeCatalog ==
  ASSUME IInv, CatalogInv, NEW m \in Merges, UndoOptionMerge(m)
  PROVE  CatalogInv'
  <1>1. UNCHANGED <<merges, undo>> /\ m \in DOMAIN merges /\ InForce(m)
    BY DEF UndoOptionMerge, Requested
  <1>2. /\ options'[merges[m].source].merge = 0
        /\ \A o \in Options : o # merges[m].source => options'[o] = options[o]
    <2>1. options' = [options EXCEPT ![merges[m].source] = [active |-> TRUE, merge |-> 0]]
      BY DEF UndoOptionMerge
    <2>2. merges[m].source \in Options
      BY <1>1, MergeFields DEF IInv
    <2>. QED BY <2>1, <2>2, Types DEF IInv
  <1>3. /\ jobs'["undo"][m] = JobIn("queued")
        /\ \A k \in Kinds, n \in Merges : <<k, n>> # <<"undo", m>> => jobs'[k][n] = jobs[k][n]
    <2>1. jobs' = [jobs EXCEPT !["undo"][m] = JobIn("queued")]
      BY DEF UndoOptionMerge
    <2>2. JobIn("queued") \in JobType /\ "undo" \in Kinds
      BY JobInType DEF JobStatus, Kinds
    <2>. QED BY <2>1, <2>2, Types DEF IInv
  <1>4. jobs'["undo"][m].status # "none"
    BY <1>3, JobInType DEF JobStatus
  <1>5. \A o \in Options : options'[o].active => options'[o].merge = 0
    BY <1>2 DEF CatalogInv
  <1>6. ASSUME NEW n \in DOMAIN merges
        PROVE  /\ merges[n].source # merges[n].target
               /\ LET q == options'[merges[n].target].merge IN q = 0 \/ q > n
               /\ jobs'["merge"][n].status # "none"
               /\ InForce(n)' \/ jobs'["undo"][n].status # "none"
    <2>1. merges[n].source \in Options /\ merges[n].target \in Options /\ n \in Merges /\ n # 0 /\ m # 0
      BY MergeFields DEF IInv, Merges
    <2>3. LET q == options'[merges[n].target].merge IN q = 0 \/ q > n
      BY <1>2, <2>1 DEF CatalogInv
    <2>4. jobs'["merge"][n] = jobs["merge"][n]
      BY <1>3, <2>1 DEF Kinds
    <2>5. CASE n = m
      BY <1>4, <2>3, <2>4, <2>5 DEF CatalogInv
    <2>6. CASE n # m
      <3>1. jobs'["undo"][n] = jobs["undo"][n]
        BY <1>3, <2>1, <2>6 DEF Kinds
      <3>2. InForce(n) => InForce(n)'
        <4>1. CASE merges[n].source = merges[m].source
          BY <1>1, <2>6, <4>1 DEF InForce
        <4>2. CASE merges[n].source # merges[m].source
          BY <1>1, <1>2, <2>1, <4>2 DEF InForce
        <4>. QED BY <4>1, <4>2
      <3>. QED BY <2>3, <2>4, <3>1, <3>2 DEF CatalogInv
    <2>. QED BY <2>5, <2>6
  <1>7. \A u \in undo' : u.merge \in DOMAIN merges
    BY <1>1 DEF CatalogInv
  <1>. QED BY <1>1, <1>5, <1>6, <1>7, Zenon DEF CatalogInv, InForce

(* A job that was asked for stays so.                                      *)
LEMMA JobsStayAsked ==
  ASSUME IInv, NEW k \in Kinds, NEW m \in Merges, NEW x, x.status # "none",
         jobs' = [jobs EXCEPT ![k][m] = x]
  PROVE  \A l \in Kinds, n \in Merges : jobs[l][n].status # "none" => jobs'[l][n].status # "none"
  BY Types DEF IInv

(* The jobs leave the catalogue alone, and add rows of their own merge.    *)
LEMMA WorkerCatalog ==
  ASSUME IInv, CatalogInv, WorkerNext
  PROVE  CatalogInv'
  <1>1. ASSUME NEW k \in Kinds, NEW m \in Merges, TakeJob(k, m)
        PROVE  CatalogInv'
    <2>. DEFINE x == IF ~flag THEN JobIn("dropped")
                     ELSE IF k = "merge" /\ ~InForce(m) THEN JobIn("done")
                     ELSE [jobs[k][m] EXCEPT !.status = "running"]
    <2>1. UNCHANGED <<options, merges, undo>>
      BY <1>1 DEF TakeJob, Elsewhere, catalogVars
    <2>2. x.status # "none"
      <3>1. jobs[k][m] \in JobType
        BY JobFields DEF IInv
      <3>. QED BY <3>1, JobInType DEF JobType, JobStatus
    <2>3. jobs' = [jobs EXCEPT ![k][m] = x]
      BY <1>1, Types DEF TakeJob, IInv
    <2>. HIDE DEF x
    <2>. QED BY <2>1, <2>2, <2>3, JobsStayAsked, SameCatalog
  <1>2. ASSUME NEW k \in Kinds, NEW m \in Merges, AttemptFails(k, m) \/ Stall(k, m) \/ StrayFails(k, m)
        PROVE  CatalogInv'
    <2>1. UNCHANGED <<options, merges, undo>>
      BY <1>2 DEF AttemptFails, Stall, StrayFails, Elsewhere, catalogVars
    <2>2. \/ UNCHANGED jobs
          \/ jobs' = [jobs EXCEPT ![k][m] = AfterFailure(jobs[k][m])]
          \/ jobs' = [jobs EXCEPT ![k][m] = AfterStall(jobs[k][m])]
      BY <1>2, Types DEF AttemptFails, Stall, StrayFails, AfterFailure, AfterStall, IInv
    <2>3. AfterFailure(jobs[k][m]).status # "none" /\ AfterStall(jobs[k][m]).status # "none"
      BY JobFields, BrokenJobs DEF IInv
    <2>. QED BY <2>1, <2>2, <2>3, JobsStayAsked, SameCatalog
  <1>3. ASSUME NEW k \in Kinds, NEW m \in Merges, EndRun(k, m)
        PROVE  \A l \in Kinds, n \in Merges : jobs[l][n].status # "none" => jobs'[l][n].status # "none"
    BY <1>3, JobInType, JobsStayAsked DEF EndRun, JobStatus
  <1>4. ASSUME NEW m \in Merges, ScanChunk(m) \/ EndUndo(m)
        PROVE  CatalogInv'
    <2>1. UNCHANGED <<options, merges, undo>> /\ "merge" \in Kinds /\ "undo" \in Kinds
      BY <1>4 DEF ScanChunk, EndUndo, Elsewhere, catalogVars, Kinds
    <2>2. EndRun("merge", m) \/ EndRun("undo", m) \/ UNCHANGED jobs
      BY <1>4 DEF ScanChunk, EndUndo
    <2>. QED BY <1>3, <2>1, <2>2, SameCatalog
  <1>5. ASSUME UNCHANGED <<options, merges, jobs>>, \A u \in undo' : u \in undo \/ u.merge \in DOMAIN merges
        PROVE  CatalogInv'
    BY <1>5, SameCatalog
  <1>6. ASSUME NEW m \in Merges, RewriteChunk(m) PROVE CatalogInv'
    <2>1. UNCHANGED <<options, merges, jobs>> /\ chunk # None /\ chunk.merge = m
          /\ \A u \in undo' : u \in undo \/ u.merge = m
      BY <1>6 DEF RewriteChunk, Open, Elsewhere, catalogVars
    <2>2. m \in DOMAIN merges
      BY <2>1 DEF IInv, JobsWereRequested
    <2>. QED BY <1>5, <2>1, <2>2
  <1>7. ASSUME NEW m \in Merges, RestoreChunk(m) PROVE CatalogInv'
    BY <1>5, <1>7 DEF RestoreChunk, Elsewhere, catalogVars, queueVars
  <1>8. ASSUME PurgeUndo PROVE CatalogInv'
    BY <1>5, <1>8 DEF PurgeUndo, Elsewhere, catalogVars, queueVars
  <1>. QED BY <1>1, <1>2, <1>4, <1>6, <1>7, <1>8 DEF WorkerNext

(* Every step preserves the catalogue's invariant.                         *)
LEMMA NextCatalog ==
  ASSUME IInv, CatalogInv, [Next]_vars
  PROVE  CatalogInv'
  <1>1. ASSUME UNCHANGED <<options, merges, jobs>>, undo' \subseteq undo PROVE CatalogInv'
    BY <1>1, SameCatalog
  <1>2. CASE UNCHANGED vars
    BY <1>1, <1>2 DEF vars, catalogVars, queueVars
  <1>3. CASE AdminNext
    <2>1. ASSUME NEW p \in Pairs, MergeOption(p[1], p[2]) PROVE CatalogInv'
      BY <2>1, MergeOptionCatalog, PairsAssumption
    <2>2. ASSUME NEW m \in Merges, CloseWindow(m) PROVE CatalogInv'
      BY <1>1, <2>2 DEF CloseWindow, queueVars
    <2>3. ASSUME FlipFlag PROVE CatalogInv'
      BY <1>1, <2>3 DEF FlipFlag, catalogVars, queueVars
    <2>. QED BY <1>3, <2>1, <2>2, <2>3, UpdateOptionCatalog, UndoOptionMergeCatalog DEF AdminNext
  <1>4. CASE UserNext
    <2>1. UNCHANGED <<options, merges, jobs>> /\ undo' \subseteq undo
      BY <1>4 DEF UserNext, FetchCatalog, ReadRecord, WriteRecord, DeleteRecord, Erase, catalogVars, queueVars
    <2>. QED BY <1>1, <2>1
  <1>. QED BY <1>2, <1>3, <1>4, WorkerCatalog DEF Next

(* What users and the erasure touch is not clean any more.                 *)
LEMMA UserReading ==
  ASSUME IInv, OneAtATime, NEW V, Reads(V), UserNext
  PROVE  OneAtATime' /\ Reads(V)'
  <1>1. UNCHANGED <<options, merges, jobs, chunk, initial>>
    BY DEF UserNext, FetchCatalog, ReadRecord, WriteRecord, DeleteRecord, Erase, catalogVars, queueVars,
           historyVars
  <1>. DEFINE Quiet == /\ Clean' \subseteq Clean
                       /\ \A r \in Clean' : /\ value'[r] = value[r]
                                            /\ \A u : u.record = r => (u \in undo' <=> u \in undo)
  <1>2. Quiet
    <2>1. ASSUME UNCHANGED <<value, undo, edited, erased>>, gone \subseteq gone'
          PROVE  Quiet
      BY <2>1 DEF Clean
    <2>2. ASSUME NEW w \in Editors, NEW named \in BOOLEAN, NEW v \in SUBSET Options, WriteRecord(w, named, v)
          PROVE  Quiet
      <3>1. /\ value' = [value EXCEPT ![edits[w].record] = v] /\ UNCHANGED <<undo, erased, gone>>
            /\ edited' = edited \cup {edits[w].record}
        BY <2>2 DEF WriteRecord
      <3>2. edits[w].record \in Records
        BY <2>2 DEF WriteRecord, IInv, EditsHaveRecords, Busy
      <3>. QED BY <3>1, <3>2, Types DEF Clean, IInv
    <2>3. ASSUME NEW q \in Records, Erase(q)
          PROVE  Quiet
      <3>1. /\ value' = [value EXCEPT ![q] = {}] /\ undo' = {u \in undo : u.record # q}
            /\ gone \subseteq gone' /\ erased' = erased \cup {q} /\ edited' = edited \ {q}
        BY <2>3 DEF Erase
      <3>2. Clean' \subseteq Clean /\ q \notin Clean'
        BY <3>1 DEF Clean
      <3>. QED BY <3>1, <3>2, Types DEF Clean, IInv
    <2>4. ASSUME NEW q \in Records, DeleteRecord(q)
          PROVE  Quiet
      BY <2>1, <2>4 DEF DeleteRecord, historyVars
    <2>5. ASSUME NEW w \in Editors, NEW q \in Records, FetchCatalog(w, q)
          PROVE  Quiet
      BY <2>1, <2>5 DEF FetchCatalog, historyVars
    <2>6. ASSUME NEW w \in Editors, ReadRecord(w)
          PROVE  Quiet
      BY <2>1, <2>6 DEF ReadRecord, historyVars
    <2>. QED BY <2>2, <2>3, <2>4, <2>5, <2>6 DEF UserNext
  <1>. QED BY <1>1, <1>2, QuietReading

(* Steps that leave all of it alone.                                       *)
LEMMA StillReading ==
  ASSUME IInv, OneAtATime, NEW V, Reads(V),
         UNCHANGED <<merges, jobs, chunk, initial, value, undo, gone, edited, erased>>,
         \A o \in Options : options'[o].merge = options[o].merge
  PROVE  OneAtATime' /\ Reads(V)'
  <1>1. Clean' = Clean
    BY DEF Clean
  <1>. QED BY <1>1, QuietReading

(* An entanglement is not undone, a window does not open again, and what   *)
(* met has met.                                                            *)
LEMMA Monotone ==
  ASSUME IInv, [Next]_vars
  PROVE  (tangled => tangled') /\ expired \subseteq expired' /\ met \subseteq met'
  <1>1. CASE UNCHANGED vars
    BY <1>1 DEF vars, catalogVars, historyVars
  <1>2. CASE AdminNext
    <2>1. ASSUME NEW o \in Options, UpdateOption(o) PROVE UNCHANGED <<tangled, expired, met>>
      BY <2>1 DEF UpdateOption, historyVars
    <2>2. ASSUME NEW p \in Pairs, MergeOption(p[1], p[2]) PROVE (tangled => tangled') /\ UNCHANGED <<expired, met>>
      BY <2>2 DEF MergeOption
    <2>3. ASSUME NEW m \in Merges, UndoOptionMerge(m) PROVE (tangled => tangled') /\ UNCHANGED <<expired, met>>
      BY <2>3 DEF UndoOptionMerge
    <2>4. ASSUME NEW m \in Merges, CloseWindow(m) PROVE UNCHANGED <<tangled, met>> /\ expired \subseteq expired'
      BY <2>4 DEF CloseWindow, historyVars
    <2>5. ASSUME FlipFlag PROVE UNCHANGED <<tangled, expired, met>>
      BY <2>5 DEF FlipFlag, catalogVars, historyVars
    <2>. QED BY <1>2, <2>1, <2>2, <2>3, <2>4, <2>5 DEF AdminNext
  <1>3. CASE WorkerNext
    <2>1. ASSUME NEW k \in Kinds, NEW m \in Merges, TakeJob(k, m)
          PROVE  UNCHANGED <<tangled, expired>> /\ met \subseteq met'
      BY <2>1, MetType DEF TakeJob, Elsewhere, catalogVars
    <2>2. ASSUME NEW k \in Kinds, NEW m \in Merges, AttemptFails(k, m) \/ Stall(k, m) \/ StrayFails(k, m)
          PROVE  UNCHANGED <<tangled, expired, met>>
      BY <2>2 DEF AttemptFails, Stall, StrayFails, Elsewhere, catalogVars, historyVars
    <2>3. ASSUME NEW m \in Merges, ScanChunk(m) \/ RewriteChunk(m) \/ RestoreChunk(m) \/ EndUndo(m)
          PROVE  UNCHANGED <<tangled, expired, met>>
      BY <2>3 DEF ScanChunk, RewriteChunk, RestoreChunk, EndUndo, Elsewhere, catalogVars
    <2>4. ASSUME PurgeUndo PROVE UNCHANGED <<tangled, expired, met>>
      BY <2>4 DEF PurgeUndo, Elsewhere, catalogVars
    <2>. QED BY <1>3, <2>1, <2>2, <2>3, <2>4 DEF WorkerNext
  <1>4. CASE UserNext
    <2>1. UNCHANGED <<tangled, expired, met>>
      BY <1>4 DEF UserNext, FetchCatalog, ReadRecord, WriteRecord, DeleteRecord, Erase, catalogVars, historyVars
    <2>. QED BY <2>1
  <1>. QED BY <1>1, <1>2, <1>3, <1>4 DEF Next

(* Every step preserves the reading, as long as nothing is entangled and   *)
(* no backfill has met its undo.                                           *)
LEMMA NextReading ==
  ASSUME IInv, UInv, CatalogInv, ReadingInv, [Next]_vars
  PROVE  ReadingInv'
  <1>1. SUFFICES ASSUME ~tangled', expired' = {}, AllApart'
                 PROVE  OneAtATime' /\ \E V : Reads(V)'
    BY DEF ReadingInv
  <1>2. ~tangled /\ expired = {} /\ AllApart
    BY <1>1, Monotone DEF AllApart, Apart
  <1>3. OneAtATime
    BY <1>2 DEF ReadingInv
  <1>4. PICK V : Reads(V)
    BY <1>2 DEF ReadingInv
  <1>5. CASE UNCHANGED vars
    <2>1. UNCHANGED <<options, merges, jobs, chunk, initial, value, undo, gone, edited, erased>>
      BY <1>5 DEF vars, catalogVars, queueVars, historyVars
    <2>. QED BY <1>3, <1>4, <2>1, StillReading
  <1>6. CASE AdminNext
    <2>1. ASSUME NEW o \in Options, UpdateOption(o) PROVE OneAtATime' /\ Reads(V)'
      <3>1. /\ UNCHANGED <<merges, jobs, chunk, initial, value, undo, gone, edited, erased>>
            /\ options' = [options EXCEPT ![o].active = ~@]
        BY <2>1 DEF UpdateOption, queueVars, historyVars
      <3>2. \A p \in Options : options'[p].merge = options[p].merge
        BY <3>1, Types DEF IInv, OptionType
      <3>. QED BY <1>3, <1>4, <3>1, <3>2, StillReading
    <2>2. ASSUME NEW p \in Pairs, MergeOption(p[1], p[2]) PROVE OneAtATime' /\ \E W : Reads(W)'
      BY <1>1, <1>3, <1>4, <2>2, MergeOptionReading, PairsAssumption
    <2>3. ASSUME NEW m \in Merges, UndoOptionMerge(m) PROVE OneAtATime' /\ \E W : Reads(W)'
      BY <1>1, <1>2, <1>3, <1>4, <2>3, UndoOptionMergeReading
    <2>4. ASSUME NEW m \in Merges, CloseWindow(m) PROVE FALSE
      BY <1>1, <2>4 DEF CloseWindow
    <2>5. ASSUME FlipFlag PROVE OneAtATime' /\ Reads(V)'
      <3>1. UNCHANGED <<options, merges, jobs, chunk, initial, value, undo, gone, edited, erased>>
        BY <2>5 DEF FlipFlag, catalogVars, queueVars, historyVars
      <3>. QED BY <1>3, <1>4, <3>1, StillReading
    <2>. QED BY <1>6, <2>1, <2>2, <2>3, <2>4, <2>5 DEF AdminNext
  <1>7. CASE WorkerNext
    <2>1. ~PurgeUndo
      BY <1>2 DEF PurgeUndo
    <2>. QED BY <1>2, <1>3, <1>4, <1>7, <2>1, TakeJobReading, BrokenRunReading, ScanChunkReading,
                RewriteChunkReading, RestoreChunkReading, EndUndoReading DEF WorkerNext
  <1>8. CASE UserNext
    BY <1>3, <1>4, <1>8, UserReading
  <1>. QED BY <1>5, <1>6, <1>7, <1>8 DEF Next

(* At first nothing was merged, and every record reads as it is.           *)
LEMMA InitReading ==
  ASSUME Init
  PROVE  CatalogInv /\ ReadingInv
  <1>1. /\ merges = <<>> /\ undo = {} /\ value = initial
        /\ \A o \in Options : options[o].merge = 0
        /\ \A k \in Kinds, m \in Merges : jobs[k][m].status = "none"
        /\ chunk = None
    BY JobInType DEF Init, JobStatus
  <1>2. DOMAIN merges = {}
    BY <1>1
  <1>3. CatalogInv
    BY <1>1, <1>2 DEF CatalogInv
  <1>4. \A m \in Merges : ~UnderWork(m)
    BY <1>1 DEF UnderWork
  <1>5. OneAtATime
    BY <1>4 DEF OneAtATime
  <1>. DEFINE V == [n \in 1..(MaxMerges + 1) |-> initial]
  <1>6. initial \in [Records -> SUBSET Options]
    BY HoldingsAssumption DEF Init
  <1>7. IsReading(V)
    <2>1. V \in [1..(MaxMerges + 1) -> [Records -> SUBSET Options]] /\ V[1] = initial
      BY <1>6, BoundsAssumption
    <2>2. \A m \in Merges : m \in 1..(MaxMerges + 1) /\ m + 1 \in 1..(MaxMerges + 1)
      BY BoundsAssumption DEF Merges
    <2>3. \A m \in Merges, r \in Records : V[m + 1][r] = V[m][r] /\ ~Requested(m)
      BY <1>2, <2>2 DEF Requested
    <2>. HIDE DEF V
    <2>. QED BY <2>1, <2>3 DEF IsReading
  <1>8. TrueTo(V)
    <2>1. V[MaxMerges + 1] = initial
      BY BoundsAssumption
    <2>2. "merge" \in Kinds
      BY DEF Kinds
    <2>. HIDE DEF V
    <2>. QED BY <1>1, <1>2, <1>4, <2>1, <2>2 DEF TrueTo
  <1>. QED BY <1>3, <1>5, <1>7, <1>8 DEF ReadingInv, Reads

(* As long as every merge and undo was asked for when the earlier ones had *)
(* been worked off, and the backfill and the undo of a merge were not at   *)
(* work at the same time, a record that nobody touched ends up holding     *)
(* what it held at first, read through the merges in force: none is        *)
(* missed, rewritten twice or restored to another merge's value, whatever  *)
(* breaks off, stalls, is retried or dropped, or goes on without its lock. *)
THEOREM RecordsReadTrue == Spec => []RecordsReadAsTheOptionsSay
  <1>1. Init => UInv /\ CatalogInv /\ ReadingInv
    BY InitUInv, InitReading
  <1>2. IInv /\ UInv /\ CatalogInv /\ ReadingInv /\ [Next]_vars => UInv' /\ CatalogInv' /\ ReadingInv'
    BY NextUInv, NextCatalog, NextReading
  <1>3. IInv /\ UInv /\ CatalogInv /\ ReadingInv => RecordsReadAsTheOptionsSay
    <2>. SUFFICES ASSUME IInv, UInv, CatalogInv, ReadingInv, WorkedOff, ~tangled, expired = {},
                         \A m \in Merges : {m} \notin met,
                         NEW r \in Records \ (edited \cup erased \cup gone)
                  PROVE  value[r] = {Standing(o) : o \in initial[r]}
      BY DEF RecordsReadAsTheOptionsSay
    <2>1. PICK V : Reads(V)
      BY DEF ReadingInv, AllApart, Apart
    <2>2. value[r] = V[MaxMerges + 1][r]
      BY <2>1 DEF Reads, TrueTo, Clean
    <2>. QED BY <2>1, <2>2, ReadingIsStanding DEF Reads
  <1>. QED BY <1>1, <1>2, <1>3, Invariance, PTL DEF Spec

=============================================================================
