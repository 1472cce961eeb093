--------------------------- MODULE BrandingProofs ---------------------------
(***************************************************************************)
(* Proofs about the logo of a tenant for any number of uploads, worker     *)
(* processes and faults.                                                   *)
(***************************************************************************)
EXTENDS Branding, TLAPS

(* Jobs and runs come from events, events from uploads. *)
EventInv ==
  /\ \A k \in Kinds, a \in Uploads : job[<<k, a>>] # "none" => <<k, a>> \in outbox
  /\ \A k \in Kinds, a \in Uploads : Running(<<k, a>>) => job[<<k, a>>] # "none"
  /\ \A k \in Kinds, a \in Uploads : <<k, a>> \in outbox => row[a] # "absent"
  /\ \A a \in Uploads : pointer = a \/ removing = a => row[a] # "absent"

(* After a flip that was the last word no run of the pipeline is past its  *)
(* check of the row.                                                       *)
PipelineInv ==
  \A a \in Uploads, n \in Turns :
    <<"activate", a>> \in outbox /\ a \notin doubtful =>
      ~InPipeline(a, n)

(* No run of the job is under way or will ever be. *)
Over(j) == job[j] \in Terminal /\ ~Running(j)

(* Whatever has been seen under the pointer has been activated for good. *)
UsedInv ==
  \A a \in Uploads \ doubtful :
    (pointer = a \/ removing = a \/ a \in deleted \/ \E r \in Uploads \X Turns : previous[r] = a)
    => Over(<<"activate", a>>)

(* The sweep's candidates are beyond the reach of pipeline and activation. *)
SweepInv ==
  /\ \A a \in aged \cup doomed :
       /\ row[a] # "absent"
       /\ \A k \in {"process", "activate"} :
            /\ <<k, a>> \in outbox => job[<<k, a>>] \in Terminal
            /\ ~Running(<<k, a>>)
  /\ \A a \in doomed : pointer # a

(* The inductive invariant is well-typedness and the rest. *)
Rest ==
  /\ EventInv /\ PipelineInv /\ UsedInv /\ SweepInv
  /\ ActivationIsCausal /\ ActiveLogoServable

IInv == TypeOK /\ Rest

(* Job ids of different kinds or uploads differ. *)
LEMMA Distinct ==
  \A a, b \in Uploads, k, l \in {"process", "activate", "gc"} :
    /\ <<k, a>> = <<l, b>> => k = l /\ a = b
    /\ <<k, a>> # Sync /\ <<k, a>>[2] = a
BY DEF Sync

(* The ids and keys of an upload. *)
LEMMA Names ==
  \A a \in Uploads :
    /\ \A k \in {"process", "activate", "gc"} :
         /\ <<k, a>> \in Events /\ <<k, a>> \in Jobs
         /\ \A n \in Turns : <<<<k, a>>, n>> \in Runs
    /\ OriginalDir(a) \in Dirs /\ VariantDir(a) \in Dirs
BY DEF Kinds, Events, Jobs, Runs, Dirs, OriginalDir, VariantDir

(* Every initial state satisfies the inductive invariant. *)
LEMMA InitIInv == Init => IInv
<1> SUFFICES ASSUME Init PROVE IInv
  OBVIOUS
<1> USE NullAssumption, FaultsAssumption DEF Init, EmptyQueue
<1>1. TypeOK
  <2>1. job \in [Jobs -> JobState] /\ faults \in 0 .. MaxFaults
    BY DEF JobState
  <2>2. /\ row \in [Uploads -> {"absent", "pending", "failed", "ready", "gone"}]
        /\ previous \in [Uploads \X Turns -> Uploads \cup {Null}]
        /\ synced \in [Turns -> Uploads \cup {Null}]
        /\ step \in [Runs -> {"none", "start", "checked", "variants", "catch", "selected", "pointer", "row"}]
    OBVIOUS
  <2> QED BY <2>1, <2>2 DEF TypeOK
<1>2. EventInv
  BY Names DEF Kinds, EventInv, Running
<1>3. PipelineInv /\ SweepInv /\ ActivationIsCausal /\ ActiveLogoServable
  BY DEF PipelineInv, SweepInv, ActivationIsCausal, ActiveLogoServable
<1>4. UsedInv
  BY DEF UsedInv
<1> QED BY <1>1, <1>2, <1>3, <1>4 DEF IInv, Rest

(* The bound on faults is kept. *)
LEMMA FaultCount == faults \in 0 .. MaxFaults /\ Fault => faults' \in 0 .. MaxFaults
BY FaultsAssumption DEF Fault

(* Every step preserves well-typedness. *)
LEMMA NextTypeOK == TypeOK /\ [Next]_vars => TypeOK'
<1> SUFFICES ASSUME TypeOK, [Next]_vars PROVE TypeOK'
  OBVIOUS
<1> USE Names, FaultCount
    DEF TypeOK, asset, work, users, kc, fate, Touch, Terminal,
        JobState, Move, EndRun, HoldsLock, Turn, Proceed, At, Exists, PipelineOf, ActivationOf, Turns
<1>1. ASSUME NEW a \in Uploads, NEW n \in Turns,
             Process(a, n) \/ Activation(a, n) \/ GcAsset(a, n) \/ ProcessThrows(a, n)
      PROVE  TypeOK'
  <2>1. CASE ProcessSkip(a, n)
    BY <2>1 DEF ProcessSkip
  <2>2. CASE ProcessCheck(a, n)
    BY <2>2 DEF ProcessCheck
  <2>3. CASE ProcessVariants(a, n)
    BY <2>3 DEF ProcessVariants
  <2>4. CASE ProcessMissing(a, n)
    BY <2>4 DEF ProcessMissing
  <2>5. CASE ProcessReady(a, n)
    BY <2>5 DEF ProcessReady, FlipRow
  <2>6. CASE ProcessFailed(a, n)
    BY <2>6 DEF ProcessFailed
  <2>7. CASE ActivateSkip(a, n)
    BY <2>7 DEF ActivateSkip
  <2>8. CASE ActivateNotReady(a, n)
    BY <2>8 DEF ActivateNotReady
  <2>9. CASE ActivateCheck(a, n)
    BY <2>9 DEF ActivateCheck
  <2>10. CASE ActivateSelect(a, n)
    BY <2>10 DEF ActivateSelect
  <2>11. CASE Activate(a, n)
    BY <2>11 DEF Activate, Replaced
  <2>12. CASE GcAsset(a, n)
    BY <2>12 DEF GcAsset
  <2>13. CASE ProcessThrows(a, n)
    BY <2>13 DEF ProcessThrows, FlipRow
  <2> QED
    BY <1>1, <2>1, <2>2, <2>3, <2>4, <2>5, <2>6, <2>7,
       <2>8, <2>9, <2>10, <2>11, <2>12, <2>13 DEF Process, Activation
<1>2. ASSUME NEW a \in Uploads, UploadFails(a) \/ ReapFails(a) \/ Age(a) \/ Reap(a) PROVE TypeOK'
  <2>1. CASE UploadFails(a)
    BY <2>1 DEF UploadFails
  <2>2. CASE ReapFails(a)
    BY <2>2 DEF ReapFails
  <2>3. CASE Age(a)
    BY <2>3 DEF Age
  <2>4. CASE Reap(a)
    BY <2>4 DEF Reap
  <2> QED BY <1>2, <2>1, <2>2, <2>3, <2>4
<1>3. ASSUME NEW e \in Events, Park(e) \/ Dispatch(e) \/ \E n \in Turns : JobThrows(e, n)
      PROVE  TypeOK'
  <2>1. CASE Park(e)
    BY <2>1 DEF Park, Events, Jobs
  <2>2. ASSUME NEW n \in Turns, JobThrows(e, n) PROVE TypeOK'
    BY <2>2 DEF JobThrows, Events, Jobs, Dirs
  <2>3. CASE Dispatch(e)
    BY <2>3 DEF Dispatch, Enqueue, Events, Jobs
  <2> QED BY <1>3, <2>1, <2>2, <2>3 DEF TypeOK
<1>4. ASSUME NEW j \in Jobs, Stall(j) \/ TakeJob(j) PROVE TypeOK'
  <2>1. CASE Stall(j)
    BY <2>1 DEF Stall
  <2>2. CASE TakeJob(j)
    BY <2>2 DEF TakeJob
  <2> QED BY <1>4, <2>1, <2>2 DEF TypeOK
<1>5. CASE Operator
  <2>1. CASE RemoveRead
    BY <2>1 DEF RemoveRead
  <2>2. CASE Remove
    BY <2>2 DEF Remove
  <2>3. CASE RemoveFails
    BY <2>3 DEF RemoveFails
  <2>4. ASSUME NEW a \in Uploads, Upload(a) PROVE TypeOK'
    BY <2>4 DEF Upload
  <2> QED BY <1>5, <2>1, <2>2, <2>3, <2>4 DEF Operator
<1>6. CASE ParkSync \/ DispatchSync \/ SyncLogo \/ SweepSelect \/ \E n \in Turns : SyncThrows(n)
  <2>1. CASE ParkSync
    BY <2>1 DEF ParkSync
  <2>2. ASSUME NEW n \in Turns, SyncThrows(n) PROVE TypeOK'
    BY <2>2 DEF SyncThrows
  <2>3. CASE DispatchSync
    BY <2>3 DEF DispatchSync, Enqueue
  <2>4. ASSUME NEW n \in Turns, SyncPointer(n) PROVE TypeOK'
    BY <2>4 DEF SyncPointer
  <2>5. ASSUME NEW n \in Turns, SyncRow(n) PROVE TypeOK'
    BY <2>5 DEF SyncRow
  <2>6. ASSUME NEW n \in Turns, SyncPut(n) PROVE TypeOK'
    BY <2>6 DEF SyncPut
  <2>7. CASE SweepSelect
    BY <2>7 DEF SweepSelect, Orphans
  <2> QED BY <1>6, <2>1, <2>2, <2>3, <2>4, <2>5, <2>6, <2>7 DEF SyncLogo
<1>7. CASE UNCHANGED vars
  BY <1>7 DEF vars
<1> HIDE DEF TypeOK, asset, work, users, kc, fate, Touch, Terminal,
        JobState, Move, EndRun, HoldsLock, Turn, Proceed, At, Exists, PipelineOf, ActivationOf, Turns
<1> QED
  BY ONLY [Next]_vars, <1>1, <1>2, <1>3, <1>4, <1>5, <1>6, <1>7
  DEF Next, System, Disturbance, Relay, Pickup, Handler, Sweep, Time

(* Seen from the events about uploads: jobs and runs only come to an end. *)
Settles ==
  \A j \in Events :
    /\ Running(j)' => Running(j)
    /\ job[j] \in Terminal => job'[j] \in Terminal
    /\ job[j] = "none" <=> job'[j] = "none"

(* No further run of a pipeline is past its check. *)
PipelineKept == \A a \in Uploads, n \in Turns : InPipeline(a, n)' => InPipeline(a, n)

(* The end of a run settles its job, for good if it had the last word. *)
LEMMA EndRunSettles ==
  ASSUME TypeOK, NEW j \in Jobs, NEW n \in Turns, NEW outcome \in Terminal,
         EndRun(j, n, outcome)
  PROVE  /\ Settles /\ PipelineKept
         /\ LastWord(j, n) => Over(j)'
         /\ step'[<<j, n>>] = "none"
<1> USE DEF TypeOK, Jobs, Runs, EndRun, Move, Terminal, Turns
<1>1. /\ job' \in [Jobs -> JobState]
      /\ \A i \in Jobs : job'[i] = job[i] \/ (i = j /\ job'[i] = outcome /\ HoldsLock(j, n))
  BY DEF JobState
<1>2. \A r \in Runs : step'[r] = IF r = <<j, n>> THEN "none" ELSE step[r]
  OBVIOUS
<1>3. \A i \in Jobs : Running(i)' => Running(i)
  BY <1>2 DEF Running
<1>4. Settles
  BY <1>1, <1>3 DEF Settles, HoldsLock
<1>5. PipelineKept
  <2> SUFFICES ASSUME NEW a \in Uploads, NEW m \in Turns, InPipeline(a, m)' PROVE InPipeline(a, m)
    BY DEF PipelineKept
  <2>1. <<PipelineOf(a), m>> \in Runs
    BY Names DEF PipelineOf, Kinds
  <2> QED BY <2>1, <1>2 DEF InPipeline
<1>6. LastWord(j, n) => Over(j)'
  <2> SUFFICES ASSUME LastWord(j, n) PROVE job'[j] \in Terminal /\ ~Running(j)'
    BY DEF Over
  <2>1. job'[j] \in Terminal
    BY <1>1 DEF LastWord
  <2>2. \A m \in Turns : step'[<<j, m>>] = "none"
    BY <1>2 DEF LastWord
  <2> QED BY <2>1, <2>2 DEF Running
<1>7. step'[<<j, n>>] = "none"
  BY <1>2
<1> QED BY <1>4, <1>5, <1>6, <1>7

(* So does a further step of a run, unless it passes the pipeline's check. *)
LEMMA ProceedSettles ==
  ASSUME TypeOK, NEW j \in Jobs, NEW n \in Turns, NEW where,
         ~At(j, n, "none"), Proceed(j, n, where)
  PROVE  /\ Settles
         /\ (\A a \in Uploads : j = PipelineOf(a) => InPipeline(a, n)) => PipelineKept
         /\ \A a \in Uploads, m \in Turns :
              InPipeline(a, m)' => InPipeline(a, m) \/ (j = PipelineOf(a) /\ m = n)
<1> USE DEF TypeOK, Jobs, Runs, Proceed, At, Turns
<1>1. \A r \in Runs : step'[r] = IF r = <<j, n>> THEN where ELSE step[r]
  OBVIOUS
<1>2. \A i \in Jobs : Running(i)' => Running(i)
  BY <1>1 DEF Running
<1>3. Settles
  BY <1>2 DEF Settles
<1>4. ASSUME NEW a \in Uploads, NEW m \in Turns, InPipeline(a, m)'
      PROVE  InPipeline(a, m) \/ (j = PipelineOf(a) /\ m = n)
  <2>1. <<PipelineOf(a), m>> \in Runs
    BY Names DEF PipelineOf, Kinds
  <2> QED BY <2>1, <1>1, <1>4 DEF InPipeline
<1> QED BY <1>3, <1>4 DEF PipelineKept

(* Nothing happens to jobs and runs. *)
LEMMA IdleSettles == UNCHANGED <<job, step>> => Settles /\ PipelineKept
BY DEF Settles, PipelineKept, Running, InPipeline

(* A job that is over stays so. *)
LEMMA OverStays == ASSUME Settles, NEW j \in Events, Over(j) PROVE Over(j)'
BY DEF Settles, Over

(* What the record, the pointer and the events say is only disturbed by a  *)
(* step that changes one of them.                                          *)
LEMMA QuietStep ==
  ASSUME IInv, Settles, PipelineKept,
         UNCHANGED <<row, deleted, aged, pointer, outbox, previous, removing, doomed, doubtful>>
  PROVE  Rest'
<1> USE Names, OverStays DEF IInv, Rest, Kinds
<1>1. EventInv'
  BY DEF EventInv, Settles
<1>2. PipelineInv'
  BY DEF PipelineInv, PipelineKept
<1>3. UsedInv'
  BY DEF UsedInv
<1>4. SweepInv'
  <2>1. aged \subseteq Uploads /\ doomed \subseteq Uploads
    BY DEF TypeOK
  <2> QED BY <2>1 DEF SweepInv, Settles
<1>5. ActivationIsCausal' /\ ActiveLogoServable'
  BY DEF ActivationIsCausal, ActiveLogoServable, Servable
<1> QED BY <1>1, <1>2, <1>3, <1>4, <1>5

(* The kinds of jobs, and a run at a step is one under way. *)
LEMMA RunFacts ==
  ASSUME TypeOK, NEW a \in Uploads, NEW k \in Kinds, NEW n \in Turns
  PROVE  /\ <<k, a>> \in Events /\ <<k, a>> \in Jobs
         /\ step[<<<<k, a>>, n>>] # "none" => Running(<<k, a>>)
BY Names DEF Kinds, Running

(* The steps of the pipeline keep the rest of the invariant. *)
LEMMA ProcessRest ==
  ASSUME IInv, NEW a \in Uploads, NEW n \in Turns, Process(a, n) \/ ProcessThrows(a, n)
  PROVE  Rest'
<1> DEFINE j == PipelineOf(a)
<1> USE DEF IInv, asset, users, kc, fate
<1>1. /\ j \in Events /\ j \in Jobs /\ j = <<"process", a>>
      /\ step[<<j, n>>] # "none" => Running(j)
  BY RunFacts DEF PipelineOf, Kinds
<1>2. {"completed", "failed"} = Terminal
  BY DEF Terminal
<1>3. \A b \in Uploads : PipelineOf(b) = j => b = a
  BY DEF PipelineOf
<1> HIDE DEF j
<1>4. CASE ProcessSkip(a, n)
  <2>1. Settles /\ PipelineKept
    BY <1>1, <1>2, <1>4, EndRunSettles DEF ProcessSkip, j
  <2> QED BY <2>1, <1>4, QuietStep DEF ProcessSkip
<1>5. CASE ProcessCheck(a, n)
  <2>1. /\ Settles
        /\ \A b \in Uploads, m \in Turns : InPipeline(b, m)' => InPipeline(b, m) \/ b = a
    BY <1>1, <1>3, <1>5, ProceedSettles DEF ProcessCheck, At, j
  <2>2. <<"activate", a>> \in outbox => a \in doubtful
    BY <1>5 DEF ProcessCheck, Rest, ActivationIsCausal
  <2> USE <1>5, <2>1 DEF ProcessCheck, Rest, Kinds
  <2>3. EventInv'
    BY Names DEF EventInv, Settles
  <2>4. PipelineInv'
    BY <2>2 DEF PipelineInv
  <2>5. UsedInv'
    BY OverStays, Names DEF UsedInv
  <2>6. SweepInv'
    BY Names DEF SweepInv, Settles, TypeOK
  <2>7. ActivationIsCausal' /\ ActiveLogoServable'
    BY DEF ActivationIsCausal, ActiveLogoServable, Servable
  <2> QED BY <2>3, <2>4, <2>5, <2>6, <2>7
<1>6. CASE ProcessVariants(a, n) \/ ProcessMissing(a, n)
  <2>1. At(j, n, "checked") /\ \E where : Proceed(j, n, where)
    BY <1>6 DEF ProcessVariants, ProcessMissing, j
  <2>2. Settles /\ PipelineKept
    BY <1>1, <1>3, <2>1, ProceedSettles DEF At, InPipeline, j
  <2> QED BY <2>2, <1>6, QuietStep DEF ProcessVariants, ProcessMissing
<1>7. ASSUME FlipRow(a), At(j, n, "variants"), Settles, PipelineKept,
             \A m \in Turns : a \notin doubtful' => ~InPipeline(a, m)',
             doubtful' = doubtful \/ doubtful' = doubtful \cup {a},
             UNCHANGED <<deleted, pointer, previous, removing, doomed>>
      PROVE  Rest'
  <2> USE <1>7 DEF Rest, Kinds, FlipRow, Touch
  <2>1. Running(j) /\ row[a] # "absent" /\ <<"process", a>> \in outbox
    BY <1>1 DEF At, EventInv
  <2>2. /\ row' \in [Uploads -> {"absent", "pending", "failed", "ready", "gone"}]
        /\ \A b \in Uploads : row'[b] = row[b] \/ (b = a /\ row'[b] = "ready")
        /\ row'[a] \in {"ready", "gone"}
    BY <2>1 DEF TypeOK, Exists
  <2>3. EventInv'
    BY <2>1, <2>2, Names DEF EventInv, Settles
  <2>4. PipelineInv'
    BY DEF PipelineInv, PipelineKept
  <2>5. UsedInv'
    BY OverStays, Names DEF UsedInv
  <2>6. SweepInv'
    <3>1. a \notin aged \cup doomed
      BY <1>1, <2>1 DEF SweepInv
    <3>2. aged' \subseteq aged /\ aged \subseteq Uploads /\ doomed \subseteq Uploads
      BY DEF TypeOK
    <3> QED BY <3>1, <3>2, <2>2, Names DEF SweepInv, Settles
  <2>7. ActivationIsCausal'
    BY <2>2 DEF ActivationIsCausal
  <2>8. ActiveLogoServable'
    BY <2>2 DEF ActiveLogoServable, Servable
  <2> QED BY <2>3, <2>4, <2>5, <2>6, <2>7, <2>8
<1>8. CASE ProcessReady(a, n)
  <2>1. /\ Settles /\ PipelineKept /\ step'[<<j, n>>] = "none"
    BY <1>1, <1>2, <1>8, EndRunSettles DEF ProcessReady, j
  <2>2. \A m \in Turns : a \notin doubtful' => ~InPipeline(a, m)'
    <3> SUFFICES ASSUME NEW m \in Turns, a \notin doubtful' PROVE ~InPipeline(a, m)'
      OBVIOUS
    <3>1. ~Contested(a, n)
      BY <1>8 DEF ProcessReady
    <3>2. CASE m = n
      BY <3>2, <2>1 DEF InPipeline, j
    <3>3. CASE m # n
      BY <3>1, <3>3, <2>1 DEF Contested, PipelineKept
    <3> QED BY <3>2, <3>3
  <2> QED BY <2>1, <2>2, <1>7, <1>8 DEF ProcessReady, j
<1>9. CASE ProcessThrows(a, n)
  <2>1. Settles /\ PipelineKept
    BY <1>1, <1>3, <1>9, ProceedSettles DEF ProcessThrows, At, InPipeline, j
  <2>2. CASE UNCHANGED <<row, aged, outbox, doubtful>>
    BY <2>1, <2>2, <1>9, QuietStep DEF ProcessThrows
  <2>3. CASE At(j, n, "variants") /\ FlipRow(a) /\ doubtful' = doubtful \cup {a}
    BY <2>1, <2>3, <1>7, <1>9 DEF ProcessThrows
  <2> QED BY <1>9, <2>2, <2>3 DEF ProcessThrows, j
<1>10. CASE ProcessFailed(a, n)
  <2>1. Settles /\ PipelineKept
    BY <1>1, <1>2, <1>10, EndRunSettles DEF ProcessFailed, j
  <2>2. <<"activate", a>> \in outbox => a \in doubtful
    BY <1>10 DEF ProcessFailed, At, Rest, PipelineInv, InPipeline
  <2>3. pointer = a => a \in doubtful
    BY <2>2, RunFacts DEF Rest, UsedInv, Over, EventInv, Terminal, Kinds
  <2> USE <1>10, <2>1 DEF ProcessFailed, Rest, Kinds, Touch
  <2>4. Running(j) /\ row[a] # "absent"
    BY <1>1 DEF At, EventInv, j
  <2>5. /\ row' \in [Uploads -> {"absent", "pending", "failed", "ready", "gone"}]
        /\ \A b \in Uploads : row'[b] = row[b] \/ (b = a /\ row'[b] = "failed")
    BY DEF TypeOK, Exists
  <2>6. EventInv'
    BY <2>5, Names DEF EventInv, Settles
  <2>7. PipelineInv'
    BY DEF PipelineInv, PipelineKept
  <2>8. UsedInv'
    BY OverStays, Names DEF UsedInv
  <2>9. SweepInv'
    <3>1. aged' \subseteq aged /\ aged \subseteq Uploads /\ doomed \subseteq Uploads
      BY DEF TypeOK
    <3> QED BY <3>1, <2>5, Names DEF SweepInv, Settles
  <2>10. ActivationIsCausal'
    BY <2>2, <2>5 DEF ActivationIsCausal, PipelineInv
  <2>11. ActiveLogoServable'
    BY <2>3, <2>5 DEF ActiveLogoServable, Servable
  <2> QED BY <2>6, <2>7, <2>8, <2>9, <2>10, <2>11
<1> QED BY <1>4, <1>5, <1>6, <1>8, <1>9, <1>10 DEF Process

(* So do the steps of an activation. *)
LEMMA ActivationRest ==
  ASSUME IInv, NEW a \in Uploads, NEW n \in Turns, Activation(a, n)
  PROVE  Rest'
<1> DEFINE j == ActivationOf(a)
<1> USE DEF IInv, asset, users, kc, fate
<1>1. /\ j \in Events /\ j \in Jobs /\ j = <<"activate", a>>
      /\ step[<<j, n>>] # "none" => Running(j)
  BY RunFacts DEF ActivationOf, Kinds
<1>2. {"completed", "failed"} = Terminal
  BY DEF Terminal
<1>3. \A b \in Uploads : PipelineOf(b) # j
  BY DEF PipelineOf, ActivationOf
<1> HIDE DEF j
<1>4. CASE ActivateSkip(a, n) \/ ActivateNotReady(a, n)
  <2>1. Settles /\ PipelineKept
    BY <1>1, <1>2, <1>4, EndRunSettles DEF ActivateSkip, ActivateNotReady, j
  <2> QED BY <2>1, <1>4, QuietStep DEF ActivateSkip, ActivateNotReady
<1>5. CASE ActivateCheck(a, n)
  <2>1. Settles /\ PipelineKept
    BY <1>1, <1>3, <1>5, ProceedSettles DEF ActivateCheck, At, j
  <2> QED BY <2>1, <1>5, QuietStep DEF ActivateCheck
<1>6. CASE ActivateSelect(a, n)
  <2>1. Settles /\ PipelineKept
    BY <1>1, <1>3, <1>6, ProceedSettles DEF ActivateSelect, At, j
  <2> USE <1>6, <2>1 DEF ActivateSelect, Rest, Kinds
  <2>2. EventInv'
    BY Names DEF EventInv, Settles
  <2>3. PipelineInv'
    BY DEF PipelineInv, PipelineKept
  <2>4. UsedInv'
    <3>1. \A r \in Uploads \X Turns : previous'[r] = previous[r] \/ previous'[r] = pointer
      BY DEF TypeOK
    <3> QED BY <3>1, OverStays, Names DEF UsedInv
  <2>5. SweepInv'
    BY Names DEF SweepInv, Settles, TypeOK
  <2>6. ActivationIsCausal' /\ ActiveLogoServable'
    BY DEF ActivationIsCausal, ActiveLogoServable, Servable
  <2> QED BY <2>2, <2>3, <2>4, <2>5, <2>6
<1>7. CASE Activate(a, n)
  <2>1. /\ Settles /\ PipelineKept
        /\ LastWord(j, n) => Over(j)'
    BY <1>1, <1>2, <1>7, EndRunSettles DEF Activate, j
  <2>2. Running(j) /\ j \in outbox
    BY <1>1, <1>7 DEF Activate, At, EventInv, Rest, Kinds, j
  <2>3. /\ row[a] = "ready" \/ a \in doubtful
        /\ a \in deleted => a \in doubtful
        /\ a \notin aged \cup doomed
    BY <1>1, <1>7, <2>2 DEF Activate, Exists, Rest, ActivationIsCausal, UsedInv, SweepInv, Over
  <2>4. /\ a \notin Replaced(a, n) /\ Replaced(a, n) \subseteq Uploads
        /\ \A b \in Replaced(a, n) : previous[<<a, n>>] = b /\ row[b] # "absent"
    BY DEF Replaced, Exists
  <2>5. /\ doubtful \subseteq doubtful' /\ pointer' = a
        /\ a \notin doubtful' => Over(j)'
        /\ deleted' = deleted \cup Replaced(a, n) /\ aged' \subseteq aged
        /\ UNCHANGED <<row, outbox, removing, doomed>>
    BY <1>7, <2>1 DEF Activate, j
  <2>6. \A r \in Uploads \X Turns : previous'[r] = previous[r] \/ previous'[r] = Null
    BY <1>7 DEF Activate, TypeOK
  <2>7. row[a] # "absent"
    BY <1>7 DEF Activate, Exists
  <2> USE DEF Rest, Kinds
  <2>8. EventInv'
    BY <2>1, <2>5, <2>7, Names DEF EventInv, Settles
  <2>9. PipelineInv'
    BY <2>1, <2>5 DEF PipelineInv, PipelineKept
  <2>10. UsedInv'
    <3> SUFFICES ASSUME NEW b \in Uploads, b \notin doubtful',
                        pointer' = b \/ removing' = b \/ b \in deleted'
                          \/ \E r \in Uploads \X Turns : previous'[r] = b
                 PROVE  Over(<<"activate", b>>)'
      BY DEF UsedInv
    <3>1. CASE b = a
      BY <3>1, <1>1, <2>5
    <3>2. CASE b # a
      <4>1. \/ removing = b \/ b \in deleted
            \/ \E r \in Uploads \X Turns : previous[r] = b
        BY <3>2, <2>4, <2>5, <2>6, NullAssumption
      <4>2. Over(<<"activate", b>>)
        BY <4>1, <2>5 DEF UsedInv
      <4> QED BY <4>2, <2>1, OverStays, Names
    <3> QED BY <3>1, <3>2
  <2>11. SweepInv'
    <3>1. aged \subseteq Uploads /\ doomed \subseteq Uploads
      BY DEF TypeOK
    <3> QED BY <3>1, <2>1, <2>3, <2>5, Names DEF SweepInv, Settles
  <2>12. ActivationIsCausal'
    BY <2>5 DEF ActivationIsCausal
  <2>13. ActiveLogoServable'
    BY <2>3, <2>4, <2>5 DEF ActiveLogoServable, Servable
  <2> QED BY <2>8, <2>9, <2>10, <2>11, <2>12, <2>13
<1> QED BY <1>4, <1>5, <1>6, <1>7 DEF Activation

(* So do relay and queue. *)
LEMMA QueueRest ==
  ASSUME IInv,
         \/ \E e \in Events : Park(e) \/ Dispatch(e)
         \/ \E j \in Jobs : Stall(j) \/ TakeJob(j)
  PROVE  Rest'
<1> USE DEF IInv, asset, users, kc, fate
<1>1. ASSUME NEW e \in Events, Park(e) PROVE Rest'
  <2>1. Settles /\ PipelineKept
    BY <1>1, IdleSettles DEF Park
  <2> USE <1>1, <2>1 DEF Park, Rest, Kinds
  <2>2. EventInv'
    <3>1. job[e] = "none" /\ outbox' = outbox \ {e}
      OBVIOUS
    <3> QED BY <3>1, Names DEF EventInv, Settles
  <2>3. PipelineInv'
    BY DEF PipelineInv, PipelineKept
  <2>4. UsedInv'
    BY OverStays, Names DEF UsedInv
  <2>5. SweepInv'
    BY Names DEF SweepInv, Settles, TypeOK
  <2>6. ActivationIsCausal' /\ ActiveLogoServable'
    BY DEF ActivationIsCausal, ActiveLogoServable, Servable
  <2> QED BY <2>2, <2>3, <2>4, <2>5, <2>6
<1>2. ASSUME NEW e \in Events, Dispatch(e) PROVE Rest'
  <2>1. /\ \A j \in Jobs : job'[j] = job[j] \/ (j = e /\ job[j] = "none" /\ e \in outbox)
        /\ UNCHANGED <<row, deleted, aged, pointer, outbox, step, previous, removing, doomed, doubtful>>
    BY <1>2 DEF Dispatch, Enqueue, TypeOK
  <2>2. \A j \in Jobs : Running(j)' <=> Running(j)
    BY <2>1 DEF Running
  <2> USE <2>1, <2>2, Names DEF Rest, Kinds
  <2>3. EventInv'
    BY DEF EventInv
  <2>4. PipelineInv'
    BY DEF PipelineInv, InPipeline
  <2>5. UsedInv'
    BY DEF UsedInv, Over, Terminal
  <2>6. SweepInv'
    BY DEF SweepInv, TypeOK, Terminal
  <2>7. ActivationIsCausal' /\ ActiveLogoServable'
    BY DEF ActivationIsCausal, ActiveLogoServable, Servable
  <2> QED BY <2>3, <2>4, <2>5, <2>6, <2>7
<1>3. ASSUME NEW j \in Jobs, Stall(j) PROVE Rest'
  <2>1. /\ \A i \in Jobs : job'[i] = job[i] \/ (job[i] = "active" /\ job'[i] \in {"waiting", "failed"})
        /\ \A r \in Runs : step'[r] \in {step[r], "none"}
    BY <1>3 DEF Stall, Move, TypeOK
  <2>2. \A i \in Jobs : Running(i)' => Running(i)
    BY <2>1 DEF Running, Runs
  <2>3. Settles
    BY <2>1, <2>2 DEF Settles, Jobs, Terminal
  <2>4. PipelineKept
    BY <2>1, Names DEF PipelineKept, InPipeline, PipelineOf, Kinds
  <2> QED BY <1>3, <2>3, <2>4, QuietStep DEF Stall
<1>4. ASSUME NEW j \in Jobs, TakeJob(j) PROVE Rest'
  <2>1. /\ \A i \in Jobs : job'[i] = job[i] \/ (i = j /\ job[j] = "waiting" /\ job'[j] = "active")
        /\ job[j] = "waiting" /\ job'[j] = "active"
        /\ \A r \in Runs : step'[r] = step[r] \/ (r[1] = j /\ step'[r] = "start")
        /\ UNCHANGED <<row, deleted, aged, pointer, outbox, previous, removing, doomed, doubtful>>
    BY <1>4 DEF TakeJob, Move, TypeOK, Turn, Turns, Runs
  <2>2. \A i \in Jobs : Running(i)' => Running(i) \/ i = j
    BY <2>1 DEF Running, Runs
  <2>3. \A i \in Jobs : Over(i) => Over(i)'
    BY <2>1, <2>2 DEF Over, Terminal
  <2> USE <2>1, <2>2, Names DEF Rest, Kinds
  <2>4. EventInv'
    BY DEF EventInv
  <2>5. PipelineInv'
    BY DEF PipelineInv, InPipeline, PipelineOf
  <2>6. UsedInv'
    BY <2>3 DEF UsedInv
  <2>7. SweepInv'
    <3>1. aged \subseteq Uploads /\ doomed \subseteq Uploads
      BY DEF TypeOK
    <3>2. ASSUME NEW a \in aged \cup doomed, NEW k \in {"process", "activate"}
          PROVE  <<k, a>> # j
      BY <3>1, <3>2 DEF SweepInv, EventInv, Terminal
    <3>3. ASSUME NEW a \in aged \cup doomed, NEW k \in {"process", "activate"}
          PROVE  ~Running(<<k, a>>)' /\ <<k, a>> \in Jobs
      BY <3>1, <3>2, <3>3 DEF SweepInv
    <3>4. ASSUME NEW a \in aged \cup doomed, NEW k \in {"process", "activate"}, <<k, a>> \in outbox
          PROVE  job'[<<k, a>>] \in Terminal
      BY <3>2, <3>3, <3>4 DEF SweepInv
    <3> QED
      BY ONLY IInv, <2>1, <3>3, <3>4 DEF IInv, Rest, SweepInv
  <2>8. ActivationIsCausal' /\ ActiveLogoServable'
    BY DEF ActivationIsCausal, ActiveLogoServable, Servable
  <2> QED BY <2>4, <2>5, <2>6, <2>7, <2>8
<1> QED BY <1>1, <1>2, <1>3, <1>4

(* So do the API and the sweep. *)
LEMMA RowRest ==
  ASSUME IInv,
         \/ Operator \/ SweepSelect
         \/ \E a \in Uploads : UploadFails(a) \/ Age(a) \/ Reap(a) \/ ReapFails(a)
  PROVE  Rest'
<1> USE DEF IInv, asset, work, users, kc, fate
<1>1. UNCHANGED <<job, step, previous, doubtful>>
  BY DEF Operator, RemoveRead, Remove, RemoveFails, Upload, SweepSelect, UploadFails, Age, Reap, ReapFails
<1>2. /\ Settles /\ PipelineKept
      /\ \A j \in Jobs : (Running(j)' <=> Running(j)) /\ (Over(j)' <=> Over(j))
  BY <1>1, IdleSettles DEF Running, Over
<1> USE <1>1, <1>2, Names, NullAssumption DEF TypeOK, Rest, Kinds
<1>3. CASE SweepSelect \/ \E a \in Uploads : ReapFails(a)
  <2>1. /\ doomed' \subseteq doomed \cup (aged \ {pointer})
        /\ UNCHANGED <<row, deleted, aged, pointer, outbox, removing>>
    BY <1>3 DEF SweepSelect, Orphans, ReapFails
  <2>2. SweepInv'
    BY <2>1 DEF SweepInv
  <2>3. EventInv' /\ PipelineInv'
    BY <2>1 DEF EventInv, PipelineInv, InPipeline
  <2>4. UsedInv'
    BY <2>1 DEF UsedInv
  <2>5. ActivationIsCausal' /\ ActiveLogoServable'
    BY <2>1 DEF ActivationIsCausal, ActiveLogoServable, Servable
  <2> QED BY <2>2, <2>3, <2>4, <2>5
<1>4. CASE RemoveRead \/ RemoveFails
  <2>1. /\ removing' \in {pointer, Null}
        /\ UNCHANGED <<row, deleted, aged, pointer, outbox, doomed>>
    BY <1>4 DEF RemoveRead, RemoveFails
  <2>2. EventInv' /\ PipelineInv'
    BY <2>1 DEF EventInv, PipelineInv, InPipeline
  <2>3. UsedInv'
    BY <2>1 DEF UsedInv
  <2>4. SweepInv'
    BY <2>1 DEF SweepInv
  <2>5. ActivationIsCausal' /\ ActiveLogoServable'
    BY <2>1 DEF ActivationIsCausal, ActiveLogoServable, Servable
  <2> QED BY <2>2, <2>3, <2>4, <2>5
<1>5. CASE Remove
  <2>1. /\ removing \in Uploads /\ removing' = Null /\ pointer' = Null
        /\ deleted' \subseteq deleted \cup {removing} /\ aged' \subseteq aged
        /\ outbox' = outbox \cup {<<"gc", removing>>} /\ row[removing] # "absent"
        /\ UNCHANGED <<row, doomed>>
    BY <1>5 DEF Remove, Touch, EventInv
  <2>2. EventInv'
    BY <2>1 DEF EventInv
  <2>3. PipelineInv'
    BY <2>1 DEF PipelineInv, InPipeline
  <2>4. UsedInv'
    BY <2>1 DEF UsedInv
  <2>5. SweepInv'
    BY <2>1 DEF SweepInv
  <2>6. ActivationIsCausal' /\ ActiveLogoServable'
    BY <2>1 DEF ActivationIsCausal, ActiveLogoServable
  <2> QED BY <2>2, <2>3, <2>4, <2>5, <2>6
<1>6. ASSUME NEW a \in Uploads, Upload(a) \/ UploadFails(a) PROVE Rest'
  <2>1. /\ row[a] = "absent" /\ row'[a] \in {"pending", "gone"}
        /\ \A b \in Uploads \ {a} : row'[b] = row[b]
        /\ outbox' \subseteq outbox \cup {<<"process", a>>} /\ outbox \subseteq outbox'
        /\ UNCHANGED <<deleted, aged, pointer, removing, doomed>>
    BY <1>6 DEF Upload, UploadFails
  <2>2. EventInv'
    BY <2>1 DEF EventInv
  <2>3. PipelineInv'
    BY <2>1 DEF PipelineInv, InPipeline
  <2>4. UsedInv'
    BY <2>1 DEF UsedInv
  <2>5. SweepInv'
    BY <2>1 DEF SweepInv
  <2>6. ActivationIsCausal'
    BY <2>1 DEF ActivationIsCausal, EventInv
  <2>7. ActiveLogoServable'
    BY <2>1 DEF ActiveLogoServable, Servable, EventInv
  <2> QED BY <2>2, <2>3, <2>4, <2>5, <2>6, <2>7
<1>7. ASSUME NEW a \in Uploads, Age(a) PROVE Rest'
  <2>1. /\ aged' = aged \cup {a} /\ row[a] # "absent"
        /\ \A k \in {"process", "activate"} :
             /\ <<k, a>> \in outbox => job[<<k, a>>] \in Terminal
             /\ ~Running(<<k, a>>)
        /\ UNCHANGED <<row, deleted, pointer, outbox, removing, doomed>>
    BY <1>7 DEF Age, Exists, InProgress
  <2>2. SweepInv'
    BY <2>1 DEF SweepInv
  <2>3. EventInv' /\ PipelineInv'
    BY <2>1 DEF EventInv, PipelineInv, InPipeline
  <2>4. UsedInv'
    BY <2>1 DEF UsedInv
  <2>5. ActivationIsCausal' /\ ActiveLogoServable'
    BY <2>1 DEF ActivationIsCausal, ActiveLogoServable, Servable
  <2> QED BY <2>2, <2>3, <2>4, <2>5
<1>8. ASSUME NEW a \in Uploads, Reap(a) PROVE Rest'
  <2>1. /\ a \in doomed /\ row'[a] = "gone" /\ \A b \in Uploads \ {a} : row'[b] = row[b]
        /\ deleted' \subseteq deleted /\ aged' \subseteq aged /\ doomed' \subseteq doomed
        /\ pointer # a /\ pointer' = pointer
        /\ UNCHANGED <<outbox, removing>>
    BY <1>8 DEF Reap, SweepInv
  <2>2. EventInv'
    BY <2>1 DEF EventInv
  <2>3. PipelineInv'
    BY <2>1 DEF PipelineInv, InPipeline
  <2>4. UsedInv'
    BY <2>1 DEF UsedInv
  <2>5. SweepInv'
    BY <2>1 DEF SweepInv
  <2>6. ActivationIsCausal'
    BY <2>1 DEF ActivationIsCausal
  <2>7. ActiveLogoServable'
    BY <2>1 DEF ActiveLogoServable, Servable
  <2> QED BY <2>2, <2>3, <2>4, <2>5, <2>6, <2>7
<1> QED BY <1>3, <1>4, <1>5, <1>6, <1>7, <1>8 DEF Operator

(* So do collections and the sync, which the rest does not look at. *)
LEMMA OtherRest ==
  ASSUME IInv,
         \/ \E a \in Uploads, n \in Turns : GcAsset(a, n)
         \/ \E e \in Events, n \in Turns : JobThrows(e, n)
         \/ ParkSync \/ DispatchSync \/ SyncLogo \/ \E n \in Turns : SyncThrows(n)
         \/ UNCHANGED vars
  PROVE  Rest'
<1> USE DEF IInv, asset, users, kc, fate
<1>1. Sync \in Jobs /\ \A a \in Uploads : PipelineOf(a) # Sync
  BY DEF Jobs, Sync, PipelineOf
<1>2. {"completed", "failed"} = Terminal
  BY DEF Terminal
<1>3. ASSUME NEW a \in Uploads, NEW n \in Turns, GcAsset(a, n) PROVE Rest'
  <2>1. Settles /\ PipelineKept
    BY <1>2, <1>3, RunFacts, EndRunSettles DEF GcAsset, Kinds
  <2> QED BY <2>1, <1>3, QuietStep DEF GcAsset
<1>4. ASSUME NEW e \in Events, NEW n \in Turns, JobThrows(e, n) PROVE Rest'
  <2>1. Settles /\ PipelineKept
    BY <1>2, <1>4, EndRunSettles DEF JobThrows, Jobs
  <2> QED BY <2>1, <1>4, QuietStep DEF JobThrows
<1>5. ASSUME NEW n \in Turns, SyncPointer(n) \/ SyncRow(n) \/ SyncPut(n) \/ SyncThrows(n) PROVE Rest'
  <2>1. CASE SyncPointer(n) \/ SyncRow(n)
    <3>1. ~At(Sync, n, "none") /\ \E where : Proceed(Sync, n, where)
      BY <2>1 DEF SyncPointer, SyncRow, At
    <3>2. Settles /\ PipelineKept
      BY <3>1, <1>1, ProceedSettles
    <3> QED BY <2>1, <3>2, QuietStep DEF SyncPointer, SyncRow
  <2>2. CASE SyncPut(n) \/ SyncThrows(n)
    <3>1. Settles /\ PipelineKept
      BY <1>1, <1>2, <2>2, EndRunSettles DEF SyncPut, SyncThrows
    <3> QED BY <2>2, <3>1, QuietStep DEF SyncPut, SyncThrows
  <2> QED BY <1>5, <2>1, <2>2
<1>6. CASE ParkSync \/ UNCHANGED vars
  BY <1>6, IdleSettles, QuietStep DEF ParkSync, vars, work
<1>7. CASE DispatchSync
  <2>1. \A e \in Events : job'[e] = job[e]
    BY <1>7, <1>1 DEF DispatchSync, Enqueue, TypeOK, Jobs, Events, Kinds, Sync
  <2>2. step' = step
    BY <1>7 DEF DispatchSync
  <2>3. Settles /\ PipelineKept
    BY <2>1, <2>2 DEF Settles, PipelineKept, Running, InPipeline
  <2> QED BY <1>7, <2>3, QuietStep DEF DispatchSync
<1> QED BY <1>3, <1>4, <1>5, <1>6, <1>7 DEF SyncLogo

(* Every step preserves the rest of the inductive invariant. *)
LEMMA NextRest == IInv /\ [Next]_vars => Rest'
BY ProcessRest, ActivationRest, QueueRest, RowRest, OtherRest
DEF Next, System, Disturbance, Relay, Pickup, Handler, Sweep, Time

(* The inductive invariant holds throughout. *)
THEOREM Invariance == Spec => []IInv
<1>1. IInv /\ [Next]_vars => IInv'
  BY NextTypeOK, NextRest DEF IInv
<1> QED BY <1>1, InitIInv, PTL DEF Spec

(* Every reachable state of assets, queues and handlers is well typed. *)
THEOREM TypeCorrect == Spec => []TypeOK
<1>1. IInv => TypeOK
  BY DEF IInv
<1> QED BY <1>1, Invariance, PTL

(* The activation event never precedes the ready row, for any number of    *)
(* uploads, processes and faults, although a pipeline may be run twice.    *)
THEOREM ActivationFollowsPipeline == Spec => []ActivationIsCausal
<1>1. IInv => ActivationIsCausal
  BY DEF IInv, Rest
<1> QED BY <1>1, Invariance, PTL

(* The pointer shows a ready upload nobody removed, unless its flip or its *)
(* activation was not the last word of its job.                            *)
THEOREM PointerIsServable == Spec => []ActiveLogoServable
<1>1. IInv => ActiveLogoServable
  BY DEF IInv, Rest
<1> QED BY <1>1, Invariance, PTL

(* A row disappears only through the sweep. *)
LEMMA OnlySweepReaps ==
  ASSUME TypeOK, [Next]_vars, NEW a \in Uploads, Exists(a), row'[a] = "gone"
  PROVE  a \in doomed
<1> USE DEF TypeOK, Exists, asset, work, users, kc, fate, FlipRow
<1>1. ASSUME NEW b \in Uploads, NEW n \in Turns, Process(b, n) \/ ProcessThrows(b, n)
      PROVE  a \in doomed
  BY <1>1 DEF Process, ProcessSkip, ProcessCheck, ProcessVariants, ProcessMissing, ProcessReady,
              ProcessThrows, ProcessFailed
<1>2. ASSUME NEW b \in Uploads, NEW n \in Turns, Activation(b, n) \/ GcAsset(b, n)
      PROVE  a \in doomed
  BY <1>2 DEF Activation, ActivateSkip, ActivateNotReady, ActivateCheck, ActivateSelect, Activate, GcAsset
<1>3. ASSUME NEW e \in Events, Park(e) \/ Dispatch(e) \/ \E n \in Turns : JobThrows(e, n)
      PROVE  a \in doomed
  BY <1>3 DEF Park, JobThrows, Dispatch
<1>4. ASSUME NEW j \in Jobs, Stall(j) \/ TakeJob(j) PROVE a \in doomed
  BY <1>4 DEF Stall, TakeJob
<1>5. CASE Operator
  BY <1>5 DEF Operator, RemoveRead, Remove, RemoveFails, Upload
<1>6. CASE ParkSync \/ DispatchSync \/ SyncLogo \/ SweepSelect \/ \E n \in Turns : SyncThrows(n)
  BY <1>6 DEF ParkSync, SyncThrows, DispatchSync, SyncLogo, SyncPointer, SyncRow, SyncPut, SweepSelect
<1>7. ASSUME NEW b \in Uploads, UploadFails(b) \/ ReapFails(b) \/ Age(b) \/ Reap(b)
      PROVE  a \in doomed
  BY <1>7 DEF UploadFails, ReapFails, Age, Reap
<1>8. CASE UNCHANGED vars
  BY <1>8 DEF vars
<1> QED
  BY <1>1, <1>2, <1>3, <1>4, <1>5, <1>6, <1>7, <1>8
  DEF Next, System, Disturbance, Relay, Pickup, Handler, Sweep, Time

(* The sweep never reaps the upload the pointer shows, however old the     *)
(* list it works from.                                                     *)
THEOREM ActiveLogoIsSpared == Spec => SweepSparesActive
<1>1. IInv /\ [Next]_vars =>
        [\A a \in Uploads : Exists(a) /\ row'[a] = "gone" => pointer # a]_vars
  BY OnlySweepReaps DEF IInv, Rest, SweepInv
<1> QED BY <1>1, Invariance, PTL DEF Spec, SweepSparesActive

=============================================================================
