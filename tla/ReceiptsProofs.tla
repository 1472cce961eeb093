-------------------------- MODULE ReceiptsProofs ---------------------------
(***************************************************************************)
(* Proofs about Receipts, for any donations, workers and bounds: the       *)
(* invariants, and at the end the refinement of ReceiptBook.  The          *)
(* inductive invariant has seven parts: the types, which attempts have not *)
(* begun (Fresh), who holds the sequence row and with which number         *)
(* (Locks), what the bucket holds for whom (Own), how often a donation's   *)
(* job has run (Once), which configuration a run or the sweep works with   *)
(* (Confs) and how far the sweep got (Sweeps).                             *)
(***************************************************************************)
EXTENDS Receipts, TLAPS

Alive(d, n) == run[d][n].at \notin {"idle", "gone"}
Writing(d, n) == run[d][n].at \in {"uploading", "inserting"}

Fresh == \A d \in Donations, n \in Attempts : n > tries[d] => ~Alive(d, n)

Locks ==
  /\ SequenceIsNeverStranded
  /\ \A d \in Donations, n \in Attempts :
       Writing(d, n) /\ ~run[d][n].lost => holder = <<d, n>> /\ run[d][n].number = next + 1
  /\ GaplessNumbers
  /\ \A r \in receipts : r.number \in 1..next
  /\ \A r, q \in receipts : r.number = q.number => r = q
  /\ \A b \in sweep.batch : b.number \in 1..next

Stored(number, d, dek) == \E o \in bucket : o.number = number /\ o.of = d /\ o.dek = dek

Own ==
  /\ \A d \in Donations, n \in Attempts :
       run[d][n].at = "uploading" /\ run[d][n].lost => run[d][n].number \in severed
  /\ \A d \in Donations, n \in Attempts :
       run[d][n].at = "inserting" /\ ~run[d][n].lost /\ run[d][n].number \notin severed
         => Stored(run[d][n].number, d, KeyOf(d, n))
  /\ \A r \in receipts : r.number \notin severed => Stored(r.number, r.of, r.dek)
  /\ \A b \in sweep.batch, r \in receipts : b.number = r.number => b.dek = r.dek

Once ==
  \A d \in Donations \ rerun :
    /\ jobs[d] \in {"none", "waiting"} => tries[d] = 0
    /\ tries[d] <= 1
    /\ tries[d] = 0 => ~Alive(d, 1) /\ \A r \in receipts : r.of # d
    /\ Alive(d, 1) => \A r \in receipts : r.of # d
    /\ ~Alive(d, 2)
    /\ \A r \in receipts : r.of = d => r.number = printed[d]

Sound(c) == Configured(c) => c.active \in c.keys /\ c.active > 0

Confs ==
  /\ Sound(config)
  /\ \A p \in Pods :
       Sound(configs[p]) /\ (Configured(configs[p]) => configs[p].active \in config.keys)
  /\ \A d \in Donations, n \in Attempts :
       Alive(d, n) => /\ run[d][n].pod \in Pods
                      /\ \/ run[d][n].kek = 0
                         \/ /\ Configured(configs[run[d][n].pod])
                            /\ run[d][n].kek = configs[run[d][n].pod].active
  /\ sweep.at \in {"scan", "rewrap"} =>
       sweep.pod \in Pods /\ sweep.config = configs[sweep.pod] /\ Configured(sweep.config)
  /\ ReceiptsStayReadable

(* Row r does not concern the sweep any more, or it will meet it, or it    *)
(* has counted it as failed.                                               *)
Handled(r) == r.version = sweep.config.active \/ sweep.failed
Fetched(r) == \E b \in sweep.batch : b.number = r.number

Sweeps ==
  /\ sweep.at # "idle" => ~clean /\ Settled
  /\ sweep.at = "waiting" => sweep.batch = {} /\ sweep.cursor = 0
  /\ sweep.at = "scan" => sweep.batch = {}
  /\ sweep.at \in {"scan", "rewrap"} =>
       \A r \in receipts : Sealed(r) => Handled(r) \/ Fetched(r) \/ r.rank > sweep.cursor
  /\ sweep.at = "rewrap" /\ ~sweep.full =>
       \A r \in receipts : Sealed(r) => Handled(r) \/ Fetched(r)
  /\ sweep.pod # None => sweep.at \in {"scan", "rewrap"}
  /\ clean => Configured(config) /\ \A p \in Pods : configs[p].active = config.active
  /\ CleanSweepIsComplete

IInv == TypeOK /\ Fresh /\ Locks /\ Own /\ Once /\ Confs /\ Sweeps

-----------------------------------------------------------------------------
(* What the steps do to the runs *)

(* Replacing one run leaves the others. *)
LEMMA RunPut ==
  ASSUME run \in [Donations -> [Attempts -> RunRecord]], NEW d \in Donations, NEW n \in Attempts,
         NEW x \in RunRecord, run' = [run EXCEPT ![d][n] = x]
  PROVE  /\ run' \in [Donations -> [Attempts -> RunRecord]]
         /\ run'[d][n] = x
         /\ \A e \in Donations, m \in Attempts : <<e, m>> # <<d, n>> => run'[e][m] = run[e][m]
  OBVIOUS

LEMMA RunAtType ==
  ASSUME NEW at \in {"idle", "begun", "uploading", "inserting", "gone"}, NEW pod \in Pods \cup {None},
         NEW kek \in 0..MaxVersions
  PROVE  /\ RunAt(at, pod, kek) \in RunRecord
         /\ RunAt(at, pod, kek).at = at /\ RunAt(at, pod, kek).pod = pod
         /\ RunAt(at, pod, kek).kek = kek /\ ~RunAt(at, pod, kek).lost
  BY BoundsAssumption DEF RunAt, RunRecord

LEMMA NoRunType ==
  /\ NoRun \in RunRecord /\ NoRun.at = "idle" /\ NoRun.pod = None
  /\ Gone \in RunRecord /\ Gone.at = "gone" /\ Gone.pod = None
  BY BoundsAssumption, RunAtType, 0 \in 0..MaxVersions DEF NoRun, Gone

LEMMA SweepJobType ==
  ASSUME NEW at \in {"idle", "waiting"}, NEW f \in BOOLEAN, NEW a \in BOOLEAN
  PROVE  /\ SweepJob(at, f, a) \in SweepRecord
         /\ SweepJob(at, f, a).at = at /\ SweepJob(at, f, a).batch = {}
         /\ SweepJob(at, f, a).pod = None /\ SweepJob(at, f, a).cursor = 0
  BY BoundsAssumption DEF SweepJob, SweepRecord, NoConfig, Config, Row

LEMMA RunTypes ==
  ASSUME TypeOK, NEW d \in Donations, NEW n \in Attempts
  PROVE  /\ run[d][n] \in RunRecord /\ run[d][n].number \in Nat /\ run[d][n].kek \in 0..MaxVersions
         /\ KeyOf(d, n) \in KeyName \cup {None}
  BY NoneAssumption DEF TypeOK, RunRecord, KeyOf, KeyName

(* A run that ends. *)
LEMMA FinishEffect ==
  ASSUME TypeOK, NEW d \in Donations, NEW n \in Attempts, NEW s \in {"completed", "failed"},
         Finish(d, n, s)
  PROVE  /\ run' \in [Donations -> [Attempts -> RunRecord]]
         /\ run'[d][n] = NoRun
         /\ \A e \in Donations, m \in Attempts : <<e, m>> # <<d, n>> => run'[e][m] = run[e][m]
         /\ jobs' \in [Donations -> JobState] /\ tries' = tries
         /\ \A e \in Donations : jobs'[e] \in {"none", "waiting"} => jobs'[e] = jobs[e]
  <1>1. run' = [run EXCEPT ![d][n] = NoRun] /\ run \in [Donations -> [Attempts -> RunRecord]]
    BY DEF Finish, TypeOK
  <1>2. jobs \in [Donations -> JobState]
    BY DEF TypeOK
  <1>3. /\ jobs' \in [Donations -> JobState] /\ tries' = tries
        /\ \A e \in Donations : jobs'[e] \in {"none", "waiting"} => jobs'[e] = jobs[e]
    BY <1>2 DEF Finish, Move, JobState
  <1>4. /\ run' \in [Donations -> [Attempts -> RunRecord]]
        /\ run'[d][n] = NoRun
        /\ \A e \in Donations, m \in Attempts : <<e, m>> # <<d, n>> => run'[e][m] = run[e][m]
    <2>1. NoRun \in RunRecord
      BY NoRunType
    <2> QED
      BY ONLY <1>1, <2>1, RunPut
  <1> QED
    BY <1>3, <1>4

LEMMA AllocateEffect ==
  ASSUME TypeOK, NEW d \in Donations, NEW n \in Attempts, Allocate(d, n)
  PROVE  /\ run' \in [Donations -> [Attempts -> RunRecord]]
         /\ run'[d][n].at = "uploading" /\ run'[d][n].number = next + 1
         /\ run'[d][n].lost = run[d][n].lost /\ run'[d][n].pod = run[d][n].pod
         /\ run'[d][n].kek = run[d][n].kek
         /\ \A e \in Donations, m \in Attempts : <<e, m>> # <<d, n>> => run'[e][m] = run[e][m]
  <1>1. run \in [Donations -> [Attempts -> RunRecord]] /\ next + 1 \in Nat
    BY DEF TypeOK
  <1>2. run[d][n] \in RunRecord
    BY <1>1
  <1>5. next + 1 \in Nat
    BY <1>1
  <1> DEFINE x == [run[d][n] EXCEPT !.at = "uploading", !.number = next + 1]
  <1>3. /\ x \in RunRecord /\ x.at = "uploading" /\ x.number = next + 1
        /\ x.lost = run[d][n].lost /\ x.pod = run[d][n].pod /\ x.kek = run[d][n].kek
    BY <1>2, <1>5 DEF RunRecord
  <1>4. run' = [run EXCEPT ![d][n] = x]
    BY <1>1 DEF Allocate
  <1> QED
    BY <1>1, <1>3, <1>4, RunPut

LEMMA UploadEffect ==
  ASSUME TypeOK, NEW d \in Donations, NEW n \in Attempts, Upload(d, n)
  PROVE  /\ run' \in [Donations -> [Attempts -> RunRecord]]
         /\ run'[d][n].at = "inserting" /\ run'[d][n].number = run[d][n].number
         /\ run'[d][n].lost = run[d][n].lost /\ run'[d][n].pod = run[d][n].pod
         /\ run'[d][n].kek = run[d][n].kek
         /\ \A e \in Donations, m \in Attempts : <<e, m>> # <<d, n>> => run'[e][m] = run[e][m]
  <1>1. run \in [Donations -> [Attempts -> RunRecord]]
    BY DEF TypeOK
  <1>2. run[d][n] \in RunRecord
    BY <1>1
  <1> DEFINE x == [run[d][n] EXCEPT !.at = "inserting"]
  <1>3. /\ x \in RunRecord /\ x.at = "inserting" /\ x.number = run[d][n].number
        /\ x.lost = run[d][n].lost /\ x.pod = run[d][n].pod /\ x.kek = run[d][n].kek
    BY <1>2 DEF RunRecord
  <1>4. run' = [run EXCEPT ![d][n] = x]
    BY <1>1 DEF Upload
  <1> QED
    BY <1>1, <1>3, <1>4, RunPut

LEMMA LoseConnectionEffect ==
  ASSUME TypeOK, NEW d \in Donations, NEW n \in Attempts, LoseConnection(d, n)
  PROVE  /\ run' \in [Donations -> [Attempts -> RunRecord]]
         /\ run'[d][n].at = run[d][n].at /\ run'[d][n].number = run[d][n].number
         /\ run'[d][n].lost /\ run'[d][n].pod = run[d][n].pod
         /\ run'[d][n].kek = run[d][n].kek
         /\ \A e \in Donations, m \in Attempts : <<e, m>> # <<d, n>> => run'[e][m] = run[e][m]
  <1>1. run \in [Donations -> [Attempts -> RunRecord]]
    BY DEF TypeOK
  <1>2. run[d][n] \in RunRecord
    BY <1>1
  <1> DEFINE x == [run[d][n] EXCEPT !.lost = TRUE]
  <1>3. /\ x \in RunRecord /\ x.at = run[d][n].at /\ x.number = run[d][n].number
        /\ x.lost /\ x.pod = run[d][n].pod /\ x.kek = run[d][n].kek
    BY <1>2 DEF RunRecord
  <1>4. run' = [run EXCEPT ![d][n] = x]
    BY <1>1 DEF LoseConnection
  <1> QED
    BY <1>1, <1>3, <1>4, RunPut

LEMMA KilledEffect ==
  ASSUME TypeOK, NEW p \in Pods, Killed(p)
  PROVE  /\ run' \in [Donations -> [Attempts -> RunRecord]]
         /\ \A d \in Donations, n \in Attempts :
              run'[d][n] = IF run[d][n].pod = p THEN Gone ELSE run[d][n]
         /\ \A d \in Donations, n \in Attempts :
              holder' = <<d, n>> <=> holder = <<d, n>> /\ run[d][n].pod # p
         /\ sweep' \in SweepRecord
         /\ sweep' # sweep => sweep'.at = "gone" /\ sweep'.batch = {} /\ sweep.pod = p
  <1>1. run \in [Donations -> [Attempts -> RunRecord]] /\ sweep \in SweepRecord
    BY DEF TypeOK
  <1>2. Gone \in RunRecord
    BY NoRunType
  <1>3. \A d \in Donations, n \in Attempts :
          run'[d][n] = IF run[d][n].pod = p THEN Gone ELSE run[d][n]
    BY <1>1 DEF Killed
  <1>4. run' \in [Donations -> [Attempts -> RunRecord]]
    BY <1>1, <1>2 DEF Killed
  <1>5. \A d \in Donations, n \in Attempts :
          holder' = <<d, n>> <=> holder = <<d, n>> /\ run[d][n].pod # p
    <2> SUFFICES ASSUME NEW d \in Donations, NEW n \in Attempts
                 PROVE  holder' = <<d, n>> <=> holder = <<d, n>> /\ run[d][n].pod # p
      OBVIOUS
    <2>1. <<d, n>> # None
      BY NoneAssumption
    <2>2. CASE \E e \in Donations, m \in Attempts : holder = <<e, m>> /\ run[e][m].pod = p
      <3>1. holder' = None
        BY <2>2 DEF Killed
      <3>2. holder = <<d, n>> => run[d][n].pod = p
        BY <2>2
      <3> QED
        BY <2>1, <3>1, <3>2
    <2>3. CASE ~\E e \in Donations, m \in Attempts : holder = <<e, m>> /\ run[e][m].pod = p
      <3>1. holder' = holder
        BY <2>3 DEF Killed
      <3> QED
        BY <2>3, <3>1
    <2> QED
      BY <2>2, <2>3
  <1>6. /\ sweep' \in SweepRecord
        /\ sweep' # sweep => sweep'.at = "gone" /\ sweep'.batch = {} /\ sweep.pod = p
    BY <1>1 DEF Killed, SweepRecord
  <1> QED
    BY <1>3, <1>4, <1>5, <1>6

LEMMA PickUpEffect ==
  ASSUME TypeOK, NEW d \in Donations, NEW p \in Pods,
         NEW envelope \in FlagRead, PickUp(d, p, envelope)
  PROVE  /\ run' \in [Donations -> [Attempts -> RunRecord]]
         /\ tries[d] + 1 \in Attempts
         /\ \/ run' = run
            \/ /\ run'[d][tries[d] + 1].at = "begun" /\ run'[d][tries[d] + 1].pod = p
               /\ \/ run'[d][tries[d] + 1].kek = 0
                  \/ /\ Configured(configs[p])
                     /\ run'[d][tries[d] + 1].kek = configs[p].active
         /\ \A e \in Donations, m \in Attempts :
              <<e, m>> # <<d, tries[d] + 1>> => run'[e][m] = run[e][m]
  <1>1. /\ run \in [Donations -> [Attempts -> RunRecord]] /\ tries[d] + 1 \in Attempts
        /\ configs[p] \in Config /\ envelope \in BOOLEAN
    BY DEF FlagRead, TypeOK, PickUp, Attempts, MaxAttempts
  <1>2. CASE UNCHANGED run
    BY <1>1, <1>2
  <1>3. CASE run # run'
    <2> DEFINE kek == IF envelope THEN configs[p].active ELSE 0
               x == RunAt("begun", p, kek)
    <2>1. (envelope => Configured(configs[p])) /\ run' = [run EXCEPT ![d][tries[d] + 1] = x]
      BY <1>3 DEF PickUp
    <2>2. kek \in 0..MaxVersions
      BY <1>1, BoundsAssumption DEF Config
    <2>3. x \in RunRecord /\ x.at = "begun" /\ x.pod = p /\ x.kek = kek
      BY <2>2, RunAtType
    <2> HIDE DEF x
    <2>4. /\ run' \in [Donations -> [Attempts -> RunRecord]]
          /\ run'[d][tries[d] + 1] = x
          /\ \A e \in Donations, m \in Attempts :
               <<e, m>> # <<d, tries[d] + 1>> => run'[e][m] = run[e][m]
      BY ONLY <1>1, <2>1, <2>3, RunPut
    <2> QED
      BY <1>1, <2>1, <2>3, <2>4
  <1> QED
    BY <1>2, <1>3

-----------------------------------------------------------------------------
(* Steps that at most end runs, and leave the rest of a part alone *)

EndsRuns ==
  \A e \in Donations, m \in Attempts :
    \/ run'[e][m] = run[e][m] /\ (holder' = <<e, m>> <=> holder = <<e, m>>)
    \/ run'[e][m].at \in {"idle", "gone"} /\ holder' # <<e, m>>

LEMMA FreshKept ==
  ASSUME Fresh, EndsRuns, UNCHANGED tries
  PROVE  Fresh'
  BY DEF Fresh, EndsRuns, Alive

LEMMA LocksKept ==
  ASSUME Locks, EndsRuns, UNCHANGED <<next, issued>>, receipts' \subseteq receipts,
         \A b \in sweep'.batch : b \in sweep.batch \/ b \in receipts
  PROVE  Locks'
  <1>1. \A e \in Donations, m \in Attempts :
          Writing(e, m)' => Writing(e, m) /\ run'[e][m] = run[e][m]
                            /\ (holder' = <<e, m>> <=> holder = <<e, m>>)
    BY DEF EndsRuns, Writing
  <1>2. \A e \in Donations, m \in Attempts :
          holder' = <<e, m>> => holder = <<e, m>> /\ run'[e][m] = run[e][m]
    BY DEF EndsRuns
  <1> QED
    BY <1>1, <1>2 DEF Locks, SequenceIsNeverStranded, Writing, GaplessNumbers

LEMMA OwnKept ==
  ASSUME Own, EndsRuns, UNCHANGED <<bucket, severed>>, receipts' \subseteq receipts,
         sweep'.batch \subseteq sweep.batch
  PROVE  Own'
  BY DEF Own, EndsRuns, Stored, KeyOf

LEMMA OnceKept ==
  ASSUME Once, EndsRuns, UNCHANGED <<printed, tries>>, rerun \subseteq rerun',
         \A e \in Donations \ rerun' : jobs'[e] \in {"none", "waiting"} => tries[e] = 0,
         receipts' \subseteq receipts
  PROVE  Once'
  <1>1. \A e \in Donations, m \in {1, 2} : Alive(e, m)' => Alive(e, m)
    BY DEF EndsRuns, Alive, Attempts, MaxAttempts
  <1> QED
    BY <1>1 DEF Once

LEMMA ConfsKept ==
  ASSUME Confs, EndsRuns, UNCHANGED <<config, configs>>, receipts' \subseteq receipts,
         sweep'.at \in {"scan", "rewrap"} =>
           sweep.at \in {"scan", "rewrap"} /\ sweep'.pod = sweep.pod /\ sweep'.config = sweep.config
  PROVE  Confs'
  <1>1. \A e \in Donations, m \in Attempts : Alive(e, m)' => Alive(e, m) /\ run'[e][m] = run[e][m]
    BY DEF EndsRuns, Alive
  <1> QED
    BY <1>1 DEF Confs, ReceiptsStayReadable, Sealed, Sound, Configured

LEMMA SweepsKept ==
  ASSUME Sweeps, UNCHANGED <<config, configs, clean, sweep>>, receipts' \subseteq receipts
  PROVE  Sweeps'
  BY DEF Sweeps, Settled, Sealed, Handled, Fetched, CleanSweepIsComplete, Configured

-----------------------------------------------------------------------------
(* The steps of a receipt's run *)

LEMMA RouteEventKeeps ==
  ASSUME IInv, NEW d \in Donations, RouteEvent(d)
  PROVE  IInv'
  <1> USE DEF IInv
  <1>1. UNCHANGED <<donationVars, tries, run, rowVars, holder, bucket, keyVars, sweepVars,
                    troubles, historyVars>>
    BY DEF RouteEvent
  <1>2. /\ jobs' \in [Donations -> JobState] /\ jobs[d] = "none"
        /\ \A e \in Donations \ {d} : jobs'[e] = jobs[e]
    BY DEF RouteEvent, TypeOK, Enqueue, JobState
  <1>3. TypeOK'
    BY <1>1, <1>2 DEF TypeOK, donationVars, rowVars, keyVars, sweepVars, historyVars
  <1>4. EndsRuns
    BY <1>1 DEF EndsRuns
  <1>5. \A e \in Donations \ rerun' : jobs'[e] \in {"none", "waiting"} => tries[e] = 0
    BY <1>1, <1>2 DEF Once, historyVars
  <1> QED
    BY <1>1, <1>3, <1>4, <1>5, FreshKept, LocksKept, OwnKept, OnceKept, ConfsKept, SweepsKept
    DEF donationVars, rowVars, keyVars, sweepVars, historyVars

LEMMA PickUpKeeps ==
  ASSUME IInv, NEW d \in Donations, NEW p \in Pods,
         NEW envelope \in FlagRead, PickUp(d, p, envelope)
  PROVE  IInv'
  <1> USE DEF IInv
  <1> DEFINE k == tries[d] + 1
  <1>1. UNCHANGED <<donationVars, rowVars, holder, bucket, keyVars, sweepVars, troubles,
                    historyVars>>
    BY DEF PickUp
  <1>2. /\ jobs' \in [Donations -> JobState] /\ jobs[d] = "waiting"
        /\ jobs'[d] \notin {"none", "waiting"}
        /\ \A e \in Donations \ {d} : jobs'[e] = jobs[e]
    BY DEF PickUp, TypeOK, Move, JobState
  <1>3. /\ tries' \in [Donations -> 0..MaxAttempts] /\ tries'[d] = k
        /\ \A e \in Donations \ {d} : tries'[e] = tries[e]
    BY DEF PickUp, TypeOK, MaxAttempts
  <1>4. /\ run' \in [Donations -> [Attempts -> RunRecord]] /\ k \in Attempts
        /\ \/ run' = run
           \/ /\ run'[d][k].at = "begun" /\ run'[d][k].pod = p
              /\ \/ run'[d][k].kek = 0
                 \/ Configured(configs[p]) /\ run'[d][k].kek = configs[p].active
        /\ \A e \in Donations, m \in Attempts : <<e, m>> # <<d, k>> => run'[e][m] = run[e][m]
    BY PickUpEffect
  <1> HIDE DEF k
  <1>5. TypeOK'
    BY <1>1, <1>2, <1>3, <1>4 DEF TypeOK, donationVars, rowVars, keyVars, sweepVars, historyVars
  <1>8. Fresh'
    <2> SUFFICES ASSUME NEW e \in Donations, NEW m \in Attempts, m > tries'[e]
                 PROVE  ~Alive(e, m)'
      BY DEF Fresh
    <2>1. m > tries[e] /\ <<e, m>> # <<d, k>>
      BY <1>3 DEF k, TypeOK, Attempts
    <2> QED
      BY <1>4, <2>1 DEF Fresh, Alive
  <1>6. CASE run' = run
    <2>1. Once'
      BY <1>1, <1>2, <1>3, <1>6 DEF Once, Alive, donationVars, rowVars, historyVars, k
    <2>2. EndsRuns
      BY <1>1, <1>6 DEF EndsRuns
    <2> QED
      BY <1>1, <1>5, <1>6, <1>8, <2>1, <2>2, LocksKept, OwnKept, ConfsKept, SweepsKept
      DEF rowVars, keyVars, sweepVars, historyVars
  <1>7. CASE run'[d][k].at = "begun"
    <2>1. Locks'
      <3>1. \A e \in Donations, m \in Attempts : ~Writing(e, m)' => ~(holder' = <<e, m>>)
        <4> SUFFICES ASSUME NEW e \in Donations, NEW m \in Attempts, holder' = <<e, m>>
                     PROVE  Writing(e, m)'
          OBVIOUS
        <4>1. Writing(e, m)
          BY <1>1 DEF Locks, SequenceIsNeverStranded, Writing
        <4>2. <<e, m>> # <<d, k>>
          BY <1>4, <4>1 DEF Fresh, Alive, Writing, k, TypeOK
        <4> QED
          BY <1>4, <4>1, <4>2 DEF Writing
      <3>2. \A e \in Donations, m \in Attempts :
              Writing(e, m)' => Writing(e, m) /\ run'[e][m] = run[e][m]
        BY <1>4, <1>7 DEF Writing
      <3> QED
        BY <1>1, <3>1, <3>2
        DEF Locks, SequenceIsNeverStranded, Writing, GaplessNumbers, rowVars, sweepVars
    <2>2. Own'
      BY <1>1, <1>4, <1>7 DEF Own, Stored, KeyOf, rowVars, sweepVars, historyVars
    <2>3. Once'
      <3> SUFFICES ASSUME NEW e \in Donations \ rerun
                   PROVE  Once!(e)'
        BY <1>1 DEF Once, historyVars
      <3>1. CASE e = d
        <4>1. tries[d] = 0 /\ k = 1
          BY <1>2, <3>1 DEF Once, k
        <4>2. (\A r \in receipts : r.of # d) /\ ~Alive(d, 2) /\ run'[d][2] = run[d][2]
          BY <1>4, <3>1, <4>1 DEF Once, Attempts, MaxAttempts
        <4> QED
          BY <1>1, <1>2, <1>3, <3>1, <4>1, <4>2 DEF Alive, rowVars
      <3>2. CASE e # d
        <4>1. run'[e][1] = run[e][1] /\ run'[e][2] = run[e][2]
          BY <1>4, <3>2 DEF Attempts, MaxAttempts
        <4> QED
          BY <1>1, <1>2, <1>3, <3>2, <4>1 DEF Once, Alive, rowVars, donationVars
      <3> QED
        BY <3>1, <3>2
    <2>4. Confs'
      <3>1. \A e \in Donations, m \in Attempts :
              Alive(e, m)' => /\ run'[e][m].pod \in Pods
                              /\ \/ run'[e][m].kek = 0
                                 \/ /\ Configured(configs[run'[e][m].pod])
                                    /\ run'[e][m].kek = configs[run'[e][m].pod].active
        <4> SUFFICES ASSUME NEW e \in Donations, NEW m \in Attempts, Alive(e, m)'
                     PROVE  /\ run'[e][m].pod \in Pods
                            /\ \/ run'[e][m].kek = 0
                               \/ /\ Configured(configs[run'[e][m].pod])
                                  /\ run'[e][m].kek = configs[run'[e][m].pod].active
          OBVIOUS
        <4>1. CASE run'[e][m] = run[e][m]
          BY <4>1 DEF Confs, Alive
        <4>2. CASE <<e, m>> = <<d, k>>
          <5>1. run' # run \/ Alive(d, k)
            BY <4>2 DEF Alive
          <5> QED
            BY <1>4, <4>1, <4>2, <5>1
        <4> QED
          BY <1>4, <4>1, <4>2
      <3> QED
        BY <1>1, <3>1 DEF Confs, ReceiptsStayReadable, Sealed, Sound, Configured, rowVars, keyVars, sweepVars
    <2> QED
      BY <1>1, <1>5, <1>8, <2>1, <2>2, <2>3, <2>4, SweepsKept DEF rowVars, keyVars, sweepVars
  <1> QED
    BY <1>4, <1>6, <1>7

LEMMA AllocateKeeps ==
  ASSUME IInv, NEW d \in Donations, NEW n \in Attempts, Allocate(d, n)
  PROVE  IInv'
  <1> USE DEF IInv
  <1>1. /\ UNCHANGED <<donationVars, jobVars, rowVars, bucket, keyVars, sweepVars, troubles,
                       historyVars>>
        /\ holder = None /\ holder' = <<d, n>> /\ run[d][n].at = "begun" /\ ~run[d][n].lost
    BY DEF Allocate
  <1>2. /\ run' \in [Donations -> [Attempts -> RunRecord]]
        /\ run'[d][n].at = "uploading" /\ run'[d][n].number = next + 1
        /\ ~run'[d][n].lost /\ run'[d][n].pod = run[d][n].pod
        /\ run'[d][n].kek = run[d][n].kek
        /\ \A e \in Donations, m \in Attempts : <<e, m>> # <<d, n>> => run'[e][m] = run[e][m]
    BY <1>1, AllocateEffect
  <1>3. \A e \in Donations, m \in Attempts : Alive(e, m)' => Alive(e, m)
    BY <1>1, <1>2 DEF Alive
  <1>4. TypeOK'
    BY <1>1, <1>2 DEF TypeOK, KeyName, donationVars, jobVars, rowVars, keyVars, sweepVars, historyVars
  <1>5. Fresh'
    BY <1>1, <1>3 DEF Fresh, jobVars
  <1>6. Locks'
    <2>1. \A e \in Donations, m \in Attempts :
            Writing(e, m) => run[e][m].lost /\ <<e, m>> # <<d, n>>
      BY <1>1, NoneAssumption DEF Locks, Writing, KeyName
    <2>2. \A e \in Donations, m \in Attempts :
            Writing(e, m)' /\ ~run'[e][m].lost => <<e, m>> = <<d, n>>
      BY <1>2, <2>1 DEF Writing
    <2>3. SequenceIsNeverStranded'
      BY <1>1, <1>2 DEF SequenceIsNeverStranded
    <2> QED
      BY <1>1, <1>2, <2>2, <2>3 DEF Locks, GaplessNumbers, rowVars, sweepVars
  <1>7. Own'
    BY <1>1, <1>2 DEF Own, Stored, KeyOf, rowVars, sweepVars, historyVars
  <1>8. Once'
    <2>1. \A e \in Donations, m \in {1, 2} : Alive(e, m)' => Alive(e, m)
      BY <1>3 DEF Attempts, MaxAttempts
    <2> QED
      BY <1>1, <2>1 DEF Once, donationVars, jobVars, rowVars, historyVars
  <1>9. Confs'
    <2>1. \A e \in Donations, m \in Attempts :
            Alive(e, m)' => Alive(e, m) /\ run'[e][m].pod = run[e][m].pod /\ run'[e][m].kek = run[e][m].kek
      BY <1>2, <1>3
    <2> QED
      BY <1>1, <2>1
      DEF Confs, ReceiptsStayReadable, Sealed, Sound, Configured, rowVars, keyVars, sweepVars
  <1> QED
    BY <1>1, <1>4, <1>5, <1>6, <1>7, <1>8, <1>9, SweepsKept DEF rowVars, keyVars, sweepVars

LEMMA UploadKeeps ==
  ASSUME IInv, NEW d \in Donations, NEW n \in Attempts, Upload(d, n)
  PROVE  IInv'
  <1> USE DEF IInv
  <1> DEFINE number == run[d][n].number
             object == [number |-> number, of |-> d, dek |-> KeyOf(d, n)]
  <1>1. /\ UNCHANGED <<donationVars, jobVars, rowVars, holder, keyVars, sweepVars, troubles,
                       historyVars>>
        /\ run[d][n].at = "uploading"
        /\ bucket' = {o \in bucket : o.number # number} \cup {object}
    BY DEF Upload
  <1>2. /\ run' \in [Donations -> [Attempts -> RunRecord]]
        /\ run'[d][n].at = "inserting" /\ run'[d][n].number = number
        /\ run'[d][n].lost = run[d][n].lost /\ run'[d][n].pod = run[d][n].pod
        /\ run'[d][n].kek = run[d][n].kek
        /\ \A e \in Donations, m \in Attempts : <<e, m>> # <<d, n>> => run'[e][m] = run[e][m]
    BY UploadEffect
  <1>3. \A e \in Donations, m \in Attempts :
          /\ Alive(e, m)' => Alive(e, m)
          /\ run'[e][m].pod = run[e][m].pod /\ run'[e][m].kek = run[e][m].kek
          /\ run'[e][m].number = run[e][m].number /\ run'[e][m].lost = run[e][m].lost
          /\ Writing(e, m)' <=> Writing(e, m)
    BY <1>1, <1>2 DEF Alive, Writing
  <1>4. TypeOK'
    <2>1. object \in [number : Nat, of : Donations, dek : KeyName \cup {None}]
      BY RunTypes
    <2> HIDE DEF object
    <2> QED
      BY <1>1, <1>2, <2>1 DEF TypeOK, donationVars, jobVars, rowVars, keyVars, sweepVars, historyVars
  <1>5. Fresh'
    BY <1>1, <1>3 DEF Fresh, jobVars
  <1>6. Locks'
    <2>1. SequenceIsNeverStranded'
      BY <1>1, <1>3 DEF Locks, SequenceIsNeverStranded, Writing
    <2> QED
      BY <1>1, <1>3, <2>1 DEF Locks, GaplessNumbers, rowVars, sweepVars
  <1>7. Own'
    <2>1. object \in bucket' /\ object.number = number /\ object.of = d /\ object.dek = KeyOf(d, n)
      BY <1>1
    <2> HIDE DEF object
    <2>2. \A o \in bucket : o.number # number => o \in bucket'
      BY <1>1
    <2>3. \A e \in Donations, m \in Attempts : KeyOf(e, m)' = KeyOf(e, m)
      BY <1>3 DEF KeyOf
    <2>4. run[d][n].lost => number \in severed
      BY <1>1 DEF Own
    <2>5. ~run[d][n].lost => holder = <<d, n>> /\ number = next + 1
      BY <1>1 DEF Locks, Writing
    <2>6. \A r \in receipts : r.number \notin severed => r.number # number
      BY <2>4, <2>5 DEF Locks, TypeOK
    <2>7. ASSUME NEW e \in Donations, NEW m \in Attempts, <<e, m>> # <<d, n>>,
                 run[e][m].at = "inserting", ~run[e][m].lost, run[e][m].number \notin severed
          PROVE  run[e][m].number # number
      <3>1. holder = <<e, m>>
        BY <2>7 DEF Locks, Writing
      <3> QED
        BY <2>4, <2>5, <2>7, <3>1
    <2>8. ASSUME NEW e \in Donations, NEW m \in Attempts, run'[e][m].at = "inserting",
                 ~run'[e][m].lost, run'[e][m].number \notin severed
          PROVE  Stored(run[e][m].number, e, KeyOf(e, m))'
      <3>1. CASE <<e, m>> = <<d, n>>
        BY <1>2, <2>1, <2>3, <3>1 DEF Stored
      <3>2. CASE <<e, m>> # <<d, n>>
        <4>1. run'[e][m] = run[e][m]
          BY <1>2, <3>2
        <4>2. Stored(run[e][m].number, e, KeyOf(e, m)) /\ run[e][m].number # number
          BY <2>7, <2>8, <3>2, <4>1 DEF Own
        <4> QED
          BY <2>2, <2>3, <4>1, <4>2 DEF Stored
      <3> QED
        BY <3>1, <3>2
    <2>9. \A e \in Donations, m \in Attempts :
            run'[e][m].at = "uploading" => run[e][m].at = "uploading" /\ run'[e][m] = run[e][m]
      BY <1>2
    <2>10. ASSUME NEW r \in receipts, r.number \notin severed
           PROVE  Stored(r.number, r.of, r.dek)'
      BY <2>2, <2>6, <2>10 DEF Own, Stored
    <2> QED
      BY <1>1, <2>8, <2>9, <2>10 DEF Own, Stored, rowVars, sweepVars, historyVars
  <1>8. Once'
    <2>1. \A e \in Donations, m \in {1, 2} : Alive(e, m)' => Alive(e, m)
      BY <1>3 DEF Attempts, MaxAttempts
    <2> QED
      BY <1>1, <2>1 DEF Once, donationVars, jobVars, rowVars, historyVars
  <1>9. Confs'
    BY <1>1, <1>3
    DEF Confs, ReceiptsStayReadable, Sealed, Sound, Configured, rowVars, keyVars, sweepVars
  <1> QED
    BY <1>1, <1>4, <1>5, <1>6, <1>7, <1>8, <1>9, SweepsKept DEF rowVars, keyVars, sweepVars

LEMMA CommitKeeps ==
  ASSUME IInv, NEW d \in Donations, NEW n \in Attempts, NEW rank \in Ranks, NEW answered \in BOOLEAN,
         Commit(d, n, rank, answered)
  PROVE  IInv'
  <1> USE DEF IInv
  <1> DEFINE number == run[d][n].number
             row == ReceiptRow(d, n, rank)
  <1>1. /\ run[d][n].at = "inserting" /\ ~run[d][n].lost /\ Insertable(d, n)
        /\ receipts' = receipts \cup {row}
        /\ next' = number /\ issued' = issued \cup {number} /\ Release(d, n)
        /\ UNCHANGED <<donations, bucket, keyVars, sweepVars, historyVars>>
    BY DEF Commit
  <1>2. /\ run' \in [Donations -> [Attempts -> RunRecord]]
        /\ run'[d][n] = NoRun
        /\ \A e \in Donations, m \in Attempts : <<e, m>> # <<d, n>> => run'[e][m] = run[e][m]
        /\ jobs' \in [Donations -> JobState] /\ tries' = tries
        /\ \A e \in Donations : jobs'[e] \in {"none", "waiting"} => jobs'[e] = jobs[e]
    <2>1. \E state \in {"completed", "failed"} : Finish(d, n, state)
      BY DEF Commit
    <2> QED
      BY <2>1, FinishEffect
  <1>3. holder = <<d, n>> /\ number = next + 1
    BY <1>1 DEF Locks, Writing
  <1>4. holder' = None
    BY <1>1, <1>3 DEF Release
  <1>5. EndsRuns
    BY <1>2, <1>3, <1>4, NoRunType, NoneAssumption DEF EndsRuns, KeyName
  <1>6. number \in Nat /\ run[d][n].kek \in 0..MaxVersions /\ KeyOf(d, n) \in KeyName \cup {None}
    BY RunTypes
  <1>7. /\ row \in Row /\ row.number = number /\ row.of = d /\ row.dek = KeyOf(d, n)
        /\ row.version = run[d][n].kek /\ row.wrappedBy = run[d][n].kek
    BY <1>6 DEF ReceiptRow, Row
  <1> HIDE DEF row
  <1>8. Alive(d, n)
    BY <1>1 DEF Alive
  <1>9. /\ printed' \in [Donations -> Nat] /\ printed'[d] = number
        /\ \A e \in Donations \ {d} : printed'[e] = printed[e]
    BY <1>6 DEF Commit, TypeOK
  <1>10. troubles' \in Nat
    BY DEF Commit, Trouble, TypeOK
  <1>11. TypeOK'
    BY <1>1, <1>2, <1>4, <1>6, <1>7, <1>9, <1>10
    DEF TypeOK, keyVars, sweepVars, historyVars
  <1>12. Locks'
    <2>1. \A e \in Donations, m \in Attempts : ~(Writing(e, m)' /\ ~run'[e][m].lost)
      <3> SUFFICES ASSUME NEW e \in Donations, NEW m \in Attempts, Writing(e, m)', ~run'[e][m].lost
                   PROVE  FALSE
        OBVIOUS
      <3>1. <<e, m>> # <<d, n>>
        BY <1>2, NoRunType DEF Writing
      <3>2. run'[e][m] = run[e][m]
        BY <1>2, <3>1
      <3>3. holder = <<e, m>>
        BY <3>2 DEF Locks, Writing
      <3> QED
        BY <1>3, <3>1, <3>3
    <2>2. SequenceIsNeverStranded'
      BY <1>4, NoneAssumption DEF SequenceIsNeverStranded
    <2>3. GaplessNumbers'
      BY <1>1, <1>3 DEF Locks, GaplessNumbers, TypeOK
    <2>4. \A r \in receipts' : r.number \in 1..next'
      BY <1>1, <1>3, <1>7 DEF Locks, TypeOK
    <2>5. \A r, q \in receipts' : r.number = q.number => r = q
      BY <1>1, <1>7 DEF Locks, Insertable
    <2>6. \A b \in sweep'.batch : b.number \in 1..next'
      BY <1>1, <1>3 DEF Locks, TypeOK, sweepVars
    <2> QED
      BY <2>1, <2>2, <2>3, <2>4, <2>5, <2>6 DEF Locks
  <1>13. Own'
    <2>1. number \notin severed => Stored(row.number, row.of, row.dek)
      BY <1>1, <1>7 DEF Own
    <2>2. \A b \in sweep.batch : b.number # number
      BY <1>3 DEF Locks, TypeOK
    <2>3. \A e \in Donations, m \in Attempts :
            run'[e][m].at \in {"uploading", "inserting"} => run'[e][m] = run[e][m]
      BY <1>2, NoRunType
    <2>4. \A r \in receipts' : r.number \notin severed => Stored(r.number, r.of, r.dek)
      BY <1>1, <1>7, <2>1 DEF Own
    <2>5. \A b \in sweep.batch, r \in receipts' : b.number = r.number => b.dek = r.dek
      BY <1>1, <1>7, <2>2 DEF Own
    <2> QED
      BY <1>1, <2>3, <2>4, <2>5 DEF Own, Stored, KeyOf, sweepVars, historyVars
  <1>14. Once'
    <2>1. \A e \in Donations, m \in {1, 2} : Alive(e, m)' => Alive(e, m) /\ <<e, m>> # <<d, n>>
      BY <1>2, NoRunType DEF Alive, Attempts, MaxAttempts
    <2> SUFFICES ASSUME NEW e \in Donations \ rerun
                 PROVE  Once!(e)'
      BY <1>1 DEF Once, historyVars
    <2>2. CASE e # d
      <3>1. \A r \in receipts' : r.of = e => r \in receipts
        BY <1>1, <1>7, <2>2
      <3> QED
        BY <1>2, <1>9, <2>1, <2>2, <3>1 DEF Once
    <2>3. CASE e = d
      <3>1. n = 1 /\ Alive(d, 1)
        BY <1>8, <2>3 DEF Once, Attempts, MaxAttempts
      <3>2. tries[d] # 0 /\ ~Alive(d, 1)' /\ ~Alive(d, 2)'
        BY <2>1, <2>3, <3>1 DEF Once
      <3>3. \A r \in receipts' : r.of = d => r = row
        BY <1>1, <2>3, <3>1 DEF Once
      <3> QED
        BY <1>2, <1>7, <1>9, <2>3, <3>2, <3>3 DEF Once
    <2> QED
      BY <2>2, <2>3
  <1>15. Sealed(row) => /\ Configured(configs[run[d][n].pod]) /\ run[d][n].pod \in Pods
                        /\ row.version = configs[run[d][n].pod].active
    BY <1>7, <1>8 DEF Confs, Sealed, KeyOf
  <1>16. Confs'
    <2>1. Confs /\ (Sealed(row) => row.wrappedBy = row.version /\ row.version \in config.keys)
      BY <1>7, <1>15 DEF Confs
    <2>2. \A e \in Donations, m \in Attempts : Alive(e, m)' => Alive(e, m) /\ run'[e][m] = run[e][m]
      BY <1>5 DEF EndsRuns, Alive
    <2>3. UNCHANGED <<config, configs, sweep>>
      BY <1>1 DEF keyVars, sweepVars
    <2> QED
      BY <1>1, <2>1, <2>2, <2>3 DEF Confs, ReceiptsStayReadable, Sealed, Sound, Configured
  <1>17. Sweeps'
    <2>1. UNCHANGED <<config, configs, sweep, clean>>
      BY <1>1 DEF keyVars, sweepVars
    <2>2. sweep.at \in {"scan", "rewrap"} => (Sealed(row) => row.version = sweep.config.active)
      BY <1>15 DEF Sweeps, Settled, Confs
    <2>3. clean => (Sealed(row) => row.version = config.active)
      BY <1>15 DEF Sweeps
    <2> QED
      BY <1>1, <2>1, <2>2, <2>3
      DEF Sweeps, Settled, Sealed, Handled, Fetched, CleanSweepIsComplete, Configured
  <1> QED
    BY <1>5, <1>2, <1>11, <1>12, <1>13, <1>14, <1>16, <1>17, FreshKept

LEMMA ThrowKeeps ==
  ASSUME IInv, NEW d \in Donations, NEW n \in Attempts, Throw(d, n), troubles' \in Nat
  PROVE  IInv'
  <1> USE DEF IInv
  <1>1. /\ Release(d, n) /\ Finish(d, n, "failed")
        /\ UNCHANGED <<donationVars, rowVars, bucket, keyVars, sweepVars, historyVars>>
    BY DEF Throw
  <1>2. /\ run' \in [Donations -> [Attempts -> RunRecord]]
        /\ run'[d][n] = NoRun
        /\ \A e \in Donations, m \in Attempts : <<e, m>> # <<d, n>> => run'[e][m] = run[e][m]
        /\ jobs' \in [Donations -> JobState] /\ tries' = tries
        /\ \A e \in Donations : jobs'[e] \in {"none", "waiting"} => jobs'[e] = jobs[e]
    BY <1>1, FinishEffect
  <1>3. /\ holder' \in KeyName \cup {None} /\ holder' # <<d, n>>
        /\ holder # <<d, n>> => holder' = holder
        /\ holder = <<d, n>> => holder' = None
    <2>1. None # <<d, n>>
      BY NoneAssumption
    <2>2. holder \in KeyName \cup {None}
      BY DEF TypeOK
    <2> QED
      BY ONLY <1>1, <2>1, <2>2 DEF Release
  <1>4. EndsRuns
    BY <1>2, <1>3, NoRunType, NoneAssumption DEF EndsRuns, KeyName
  <1>5. TypeOK'
    BY <1>1, <1>2, <1>3 DEF TypeOK, donationVars, rowVars, keyVars, sweepVars, historyVars
  <1>6. \A e \in Donations \ rerun' : jobs'[e] \in {"none", "waiting"} => tries[e] = 0
    BY <1>1, <1>2 DEF Once, historyVars
  <1> QED
    BY <1>1, <1>2, <1>4, <1>5, <1>6, FreshKept, LocksKept, OwnKept, OnceKept, ConfsKept, SweepsKept
    DEF donationVars, rowVars, keyVars, sweepVars, historyVars

-----------------------------------------------------------------------------
(* What goes wrong, and the other users *)

LEMMA LoseConnectionKeeps ==
  ASSUME IInv, NEW d \in Donations, NEW n \in Attempts, LoseConnection(d, n)
  PROVE  IInv'
  <1> USE DEF IInv
  <1>1. /\ UNCHANGED <<donationVars, jobVars, rowVars, bucket, keyVars, sweepVars, rerun>>
        /\ Alive(d, n) /\ Release(d, n) /\ Trouble
        /\ severed' = IF run[d][n].at = "uploading" THEN severed \cup {run[d][n].number} ELSE severed
    BY DEF LoseConnection, Alive
  <1>2. /\ run' \in [Donations -> [Attempts -> RunRecord]]
        /\ run'[d][n].at = run[d][n].at /\ run'[d][n].number = run[d][n].number
        /\ run'[d][n].lost /\ run'[d][n].pod = run[d][n].pod
        /\ run'[d][n].kek = run[d][n].kek
        /\ \A e \in Donations, m \in Attempts : <<e, m>> # <<d, n>> => run'[e][m] = run[e][m]
    BY LoseConnectionEffect
  <1>3. \A e \in Donations, m \in Attempts :
          /\ run'[e][m].at = run[e][m].at /\ run'[e][m].number = run[e][m].number
          /\ run'[e][m].pod = run[e][m].pod /\ run'[e][m].kek = run[e][m].kek
          /\ ~run'[e][m].lost => ~run[e][m].lost /\ <<e, m>> # <<d, n>>
    BY <1>2
  <1>4. holder' \in KeyName \cup {None} /\ holder' # <<d, n>> /\ (holder # <<d, n>> => holder' = holder)
    <2>1. None # <<d, n>>
      BY NoneAssumption
    <2>2. holder \in KeyName \cup {None}
      BY DEF TypeOK
    <2> QED
      BY ONLY <1>1, <2>1, <2>2 DEF Release
  <1>5. run[d][n].number \in Nat
    BY RunTypes
  <1>6. TypeOK'
    <2>1. severed' \subseteq Nat
      <3>1. severed \subseteq Nat
        BY DEF TypeOK
      <3> QED
        BY ONLY <1>1, <1>5, <3>1
    <2>2. troubles' \in Nat
      BY <1>1 DEF TypeOK, Trouble
    <2> QED
      BY <1>1, <1>2, <1>4, <2>1, <2>2 DEF TypeOK, donationVars, jobVars, rowVars, keyVars, sweepVars
  <1>7. Fresh'
    BY <1>1, <1>3 DEF Fresh, Alive, jobVars
  <1>8. Locks'
    <2>1. \A e \in Donations, m \in Attempts :
            holder' = <<e, m>> => holder = <<e, m>> /\ run'[e][m] = run[e][m]
      <3> SUFFICES ASSUME NEW e \in Donations, NEW m \in Attempts, holder' = <<e, m>>
                   PROVE  holder = <<e, m>> /\ run'[e][m] = run[e][m]
        OBVIOUS
      <3>1. <<e, m>> # <<d, n>>
        BY <1>4
      <3>2. holder # <<d, n>>
        BY <1>1, <3>1, NoneAssumption DEF Release
      <3> QED
        BY <1>2, <1>4, <3>1, <3>2
    <2>2. ASSUME NEW e \in Donations, NEW m \in Attempts, Writing(e, m)', ~run'[e][m].lost
          PROVE  holder' = <<e, m>> /\ run'[e][m].number = next + 1
      <3>1. Writing(e, m) /\ ~run[e][m].lost /\ <<e, m>> # <<d, n>>
        BY <1>3, <2>2 DEF Writing
      <3>2. holder = <<e, m>> /\ run[e][m].number = next + 1
        BY <3>1 DEF Locks
      <3> QED
        BY <1>3, <1>4, <3>1, <3>2
    <2> QED
      BY <1>1, <2>1, <2>2 DEF Locks, SequenceIsNeverStranded, GaplessNumbers, rowVars, sweepVars
  <1>9. Own'
    <2>1. \A e \in Donations, m \in Attempts : KeyOf(e, m)' = KeyOf(e, m)
      BY <1>3 DEF KeyOf
    <2>2. severed \subseteq severed'
      BY <1>1
    <2>3. ASSUME NEW e \in Donations, NEW m \in Attempts, run'[e][m].at = "uploading", run'[e][m].lost
          PROVE  run'[e][m].number \in severed'
      <3>1. CASE <<e, m>> = <<d, n>>
        BY <1>1, <1>2, <2>3, <3>1
      <3>2. CASE <<e, m>> # <<d, n>>
        BY <1>2, <2>2, <2>3, <3>2 DEF Own
      <3> QED
        BY <3>1, <3>2
    <2>4. ASSUME NEW e \in Donations, NEW m \in Attempts, run'[e][m].at = "inserting",
                 ~run'[e][m].lost, run'[e][m].number \notin severed'
          PROVE  Stored(run[e][m].number, e, KeyOf(e, m))'
      <3>1. Stored(run[e][m].number, e, KeyOf(e, m))
        BY <1>3, <2>2, <2>4 DEF Own
      <3> QED
        BY <1>1, <1>3, <2>1, <3>1 DEF Stored
    <2>5. \A r \in receipts : r.number \notin severed' => Stored(r.number, r.of, r.dek)'
      BY <1>1, <2>2 DEF Own, Stored
    <2> QED
      BY <1>1, <1>3, <2>3, <2>4, <2>5 DEF Own, Stored, rowVars, sweepVars
  <1>10. Once'
    <2>1. \A e \in Donations, m \in {1, 2} : Alive(e, m)' <=> Alive(e, m)
      BY <1>3 DEF Alive, Attempts, MaxAttempts
    <2> QED
      BY <1>1, <2>1 DEF Once, donationVars, jobVars, rowVars
  <1>11. Confs'
    BY <1>1, <1>3
    DEF Confs, Alive, ReceiptsStayReadable, Sealed, Sound, Configured, rowVars, keyVars, sweepVars
  <1> QED
    BY <1>1, <1>6, <1>7, <1>8, <1>9, <1>10, <1>11, SweepsKept DEF rowVars, keyVars, sweepVars

LEMMA KilledEndsRuns ==
  ASSUME TypeOK, Locks, NEW p \in Pods, Killed(p)
  PROVE  EndsRuns /\ holder' \in KeyName \cup {None}
  <1>1. \A e \in Donations, m \in Attempts :
          /\ run'[e][m] = IF run[e][m].pod = p THEN Gone ELSE run[e][m]
          /\ holder' = <<e, m>> <=> holder = <<e, m>> /\ run[e][m].pod # p
    BY KilledEffect
  <1>2. EndsRuns
    BY <1>1, NoRunType DEF EndsRuns
  <1>3. holder' \in KeyName \cup {None}
    BY DEF Killed, TypeOK
  <1> QED
    BY <1>2, <1>3

LEMMA WorkerDiesKeeps ==
  ASSUME IInv, NEW p \in Pods, WorkerDies(p)
  PROVE  IInv'
  <1> USE DEF IInv
  <1>1. /\ UNCHANGED <<donationVars, jobVars, rowVars, bucket, keyVars, sweeps, historyVars>>
        /\ Killed(p) /\ Trouble
    BY DEF WorkerDies
  <1>2. /\ run' \in [Donations -> [Attempts -> RunRecord]] /\ sweep' \in SweepRecord
        /\ sweep' # sweep => sweep'.at = "gone" /\ sweep'.batch = {} /\ sweep.pod = p
    BY <1>1, KilledEffect
  <1>3. EndsRuns /\ holder' \in KeyName \cup {None}
    BY <1>1, KilledEndsRuns
  <1>4. TypeOK'
    BY <1>1, <1>2, <1>3
    DEF TypeOK, Trouble, donationVars, jobVars, rowVars, keyVars, historyVars
  <1>5. Sweeps'
    <2>1. CASE sweep' = sweep
      BY <1>1, <2>1, SweepsKept DEF rowVars, keyVars
    <2>2. CASE sweep' # sweep
      <3>1. sweep'.at = "gone" /\ sweep.at # "idle" /\ sweep'.pod = None
        BY <1>1, <1>2, <2>2, NoneAssumption DEF Sweeps, Killed, TypeOK, SweepRecord
      <3> QED
        BY <1>1, <3>1 DEF Sweeps, Settled, Configured, CleanSweepIsComplete, Sealed, rowVars, keyVars
    <2> QED
      BY <2>1, <2>2
  <1>6. \A e \in Donations \ rerun' : jobs'[e] \in {"none", "waiting"} => tries[e] = 0
    BY <1>1 DEF Once, jobVars, historyVars
  <1>7. sweep'.batch \subseteq sweep.batch
    BY <1>2
  <1>8. sweep'.at \in {"scan", "rewrap"} => sweep' = sweep
    BY <1>2
  <1> QED
    BY <1>1, <1>3, <1>4, <1>5, <1>6, <1>7, <1>8, FreshKept, LocksKept, OwnKept, OnceKept, ConfsKept
    DEF donationVars, jobVars, rowVars, keyVars, historyVars

LEMMA StallKeeps ==
  ASSUME IInv, NEW d \in Donations, Stall(d)
  PROVE  IInv'
  <1> USE DEF IInv
  <1>1. /\ UNCHANGED <<donationVars, tries, run, rowVars, holder, bucket, keyVars, sweepVars,
                       severed>>
        /\ rerun' = rerun \cup {d}
    BY DEF Stall
  <1>2. troubles' \in Nat
    BY DEF Stall, Trouble, TypeOK
  <1>3. jobs' \in [Donations -> JobState] /\ \A e \in Donations \ {d} : jobs'[e] = jobs[e]
    BY DEF Stall, Move, JobState, TypeOK
  <1>4. TypeOK'
    BY <1>1, <1>2, <1>3 DEF TypeOK, donationVars, rowVars, keyVars, sweepVars
  <1>5. EndsRuns
    BY <1>1 DEF EndsRuns
  <1>6. \A e \in Donations \ rerun' : jobs'[e] \in {"none", "waiting"} => tries[e] = 0
    BY <1>1, <1>3 DEF Once
  <1> QED
    BY <1>1, <1>4, <1>5, <1>6, FreshKept, LocksKept, OwnKept, OnceKept, ConfsKept, SweepsKept
    DEF donationVars, rowVars, keyVars, sweepVars

LEMMA DeleteDonationKeeps ==
  ASSUME IInv, NEW d \in Donations, DeleteDonation(d)
  PROVE  IInv'
  <1> USE DEF IInv
  <1>1. /\ UNCHANGED <<printed, jobVars, run, next, issued, holder, bucket, keyVars, sweepVars,
                       troubles, historyVars>>
        /\ receipts' \subseteq receipts
    BY DEF DeleteDonation
  <1>2. donations' \in [Donations -> BOOLEAN]
    BY DEF DeleteDonation, TypeOK
  <1>3. TypeOK'
    BY <1>1, <1>2 DEF TypeOK, jobVars, keyVars, sweepVars, historyVars
  <1>4. EndsRuns
    BY <1>1 DEF EndsRuns
  <1>5. \A e \in Donations \ rerun' : jobs'[e] \in {"none", "waiting"} => tries[e] = 0
    BY <1>1 DEF Once, jobVars, historyVars
  <1> QED
    BY <1>1, <1>3, <1>4, <1>5, FreshKept, LocksKept, OwnKept, OnceKept, ConfsKept, SweepsKept
    DEF jobVars, keyVars, sweepVars, historyVars

-----------------------------------------------------------------------------
(* The operator *)

LEMMA AddVersionKeeps ==
  ASSUME IInv, AddVersion
  PROVE  IInv'
  <1> USE DEF IInv
  <1>1. /\ UNCHANGED <<operatorKeeps, run, holder, configs, sweepVars>>
        /\ sweep.at = "idle" /\ clean' = FALSE /\ config.active < MaxVersions
        /\ config' = [keys |-> config.keys \cup {config.active + 1}, active |-> config.active + 1]
    BY DEF AddVersion
  <1>2. config' \in Config /\ config'.active \in config'.keys /\ config'.active > 0
        /\ config.keys \subseteq config'.keys
    BY <1>1, BoundsAssumption DEF TypeOK, Config, Versions
  <1>3. TypeOK'
    BY <1>1, <1>2
    DEF TypeOK, operatorKeeps, donationVars, jobVars, rowVars, sweepVars, historyVars
  <1>4. EndsRuns
    BY <1>1 DEF EndsRuns
  <1>5. \A e \in Donations \ rerun' : jobs'[e] \in {"none", "waiting"} => tries[e] = 0
    BY <1>1 DEF Once, operatorKeeps, jobVars, historyVars
  <1>6. Confs'
    BY <1>1, <1>2
    DEF Confs, Alive, ReceiptsStayReadable, Sound, operatorKeeps, rowVars, sweepVars
  <1>7. Sweeps'
    BY <1>1 DEF Sweeps, CleanSweepIsComplete, sweepVars
  <1> QED
    BY <1>1, <1>3, <1>4, <1>5, <1>6, <1>7, FreshKept, LocksKept, OwnKept, OnceKept
    DEF operatorKeeps, donationVars, jobVars, rowVars, sweepVars, historyVars

LEMMA RedeployKeeps ==
  ASSUME IInv, NEW p \in Pods, Redeploy(p)
  PROVE  IInv'
  <1> USE DEF IInv
  <1>1. /\ UNCHANGED <<operatorKeeps, config, clean, sweeps>>
        /\ Killed(p) /\ configs[p] # config /\ configs' = [configs EXCEPT ![p] = config]
    BY DEF Redeploy
  <1>2. /\ run' \in [Donations -> [Attempts -> RunRecord]] /\ sweep' \in SweepRecord
        /\ \A d \in Donations, n \in Attempts :
             run'[d][n] = IF run[d][n].pod = p THEN Gone ELSE run[d][n]
        /\ sweep' # sweep => sweep.pod = p
    BY <1>1, KilledEffect
  <1>3. EndsRuns /\ holder' \in KeyName \cup {None}
    BY <1>1, KilledEndsRuns
  <1>4. /\ configs' \in [Pods -> Config] /\ configs'[p] = config
        /\ \A q \in Pods \ {p} : configs'[q] = configs[q]
    BY <1>1 DEF TypeOK
  <1>5. sweep.at = "idle"
    BY <1>1 DEF Sweeps, Settled
  <1>6. sweep' = sweep
    BY <1>2, <1>5, NoneAssumption DEF Sweeps
  <1>7. TypeOK'
    BY <1>1, <1>2, <1>3, <1>4
    DEF TypeOK, operatorKeeps, donationVars, jobVars, rowVars, historyVars
  <1>8. \A e \in Donations \ rerun' : jobs'[e] \in {"none", "waiting"} => tries[e] = 0
    BY <1>1 DEF Once, operatorKeeps, jobVars, historyVars
  <1>9. Confs'
    <2>1. \A d \in Donations, n \in Attempts :
            Alive(d, n)' => Alive(d, n) /\ run'[d][n] = run[d][n] /\ run[d][n].pod # p
      BY <1>2, NoRunType DEF Alive
    <2>2. \A d \in Donations, n \in Attempts :
            Alive(d, n)' => run'[d][n].pod \in Pods /\ configs'[run'[d][n].pod] = configs[run[d][n].pod]
      BY <1>4, <2>1 DEF Confs
    <2>3. \A q \in Pods : configs'[q] = configs[q] \/ configs'[q] = config
      BY <1>4
    <2> QED
      BY <1>1, <1>5, <1>6, <2>1, <2>2, <2>3
      DEF Confs, ReceiptsStayReadable, Sound, operatorKeeps, rowVars
  <1>10. Sweeps'
    BY <1>1, <1>4, <1>5, <1>6 DEF Sweeps, CleanSweepIsComplete, operatorKeeps, rowVars
  <1>11. sweep'.batch \subseteq sweep.batch
    BY <1>6
  <1> QED
    BY <1>1, <1>3, <1>7, <1>8, <1>9, <1>10, <1>11, FreshKept, LocksKept, OwnKept, OnceKept
    DEF operatorKeeps, donationVars, jobVars, rowVars, historyVars

LEMMA TriggerSweepKeeps ==
  ASSUME IInv, NEW force \in BOOLEAN, TriggerSweep(force)
  PROVE  IInv'
  <1> USE DEF IInv
  <1>1. /\ UNCHANGED <<operatorKeeps, run, holder, config, configs>>
        /\ Settled /\ clean' = FALSE /\ sweeps' = sweeps + 1
        /\ sweep' = SweepJob("waiting", force, FALSE)
    BY DEF TriggerSweep
  <1>2. /\ sweep' \in SweepRecord /\ sweep'.at = "waiting" /\ sweep'.batch = {} /\ sweep'.pod = None
        /\ sweep'.cursor = 0
    BY <1>1, SweepJobType
  <1>3. TypeOK'
    <2>1. sweeps' \in Nat
      BY <1>1 DEF TypeOK
    <2>2. clean' \in BOOLEAN
      BY <1>1
    <2> QED
      BY <1>1, <1>2, <2>1, <2>2
      DEF TypeOK, operatorKeeps, donationVars, jobVars, rowVars, historyVars
  <1>4. EndsRuns
    BY <1>1 DEF EndsRuns
  <1>5. \A e \in Donations \ rerun' : jobs'[e] \in {"none", "waiting"} => tries[e] = 0
    BY <1>1 DEF Once, operatorKeeps, jobVars, historyVars
  <1>6. Sweeps'
    BY <1>1, <1>2 DEF Sweeps, Settled, CleanSweepIsComplete
  <1>7. sweep'.batch \subseteq sweep.batch /\ sweep'.at \notin {"scan", "rewrap"}
    BY <1>2
  <1> QED
    BY <1>1, <1>3, <1>4, <1>5, <1>6, <1>7, FreshKept, LocksKept, OwnKept, OnceKept, ConfsKept
    DEF operatorKeeps, donationVars, jobVars, rowVars, historyVars

LEMMA RetireVersionKeeps ==
  ASSUME IInv, RetireVersion
  PROVE  IInv'
  <1> USE DEF IInv
  <1>1. /\ UNCHANGED <<operatorKeeps, run, holder, configs, clean, sweepVars>>
        /\ Settled /\ clean
        /\ \A r \in receipts : Sealed(r) => r.version = config.active
        /\ config' = [config EXCEPT !.keys = {config.active}]
    BY DEF RetireVersion
  <1>2. Configured(config) /\ \A p \in Pods : configs[p].active = config.active
    BY <1>1 DEF Sweeps
  <1>3. config.active \in config.keys /\ config.active > 0
    BY <1>2 DEF Confs, Sound
  <1>4. config' \in Config /\ config'.active = config.active /\ config'.keys = {config.active}
    BY <1>1, <1>3 DEF TypeOK, Config
  <1>5. TypeOK'
    BY <1>1, <1>4
    DEF TypeOK, operatorKeeps, donationVars, jobVars, rowVars, sweepVars, historyVars
  <1>6. EndsRuns
    BY <1>1 DEF EndsRuns
  <1>7. \A e \in Donations \ rerun' : jobs'[e] \in {"none", "waiting"} => tries[e] = 0
    BY <1>1 DEF Once, operatorKeeps, jobVars, historyVars
  <1>8. Confs'
    BY <1>1, <1>2, <1>3, <1>4
    DEF Confs, Alive, ReceiptsStayReadable, Sealed, Sound, operatorKeeps, rowVars, sweepVars
  <1>9. Sweeps'
    <2>1. sweep.at = "idle"
      BY <1>1 DEF Sweeps
    <2> QED
      BY <1>1, <1>2, <1>4, <2>1
      DEF Sweeps, CleanSweepIsComplete, Configured, Sealed, operatorKeeps, rowVars, sweepVars
  <1> QED
    BY <1>1, <1>5, <1>6, <1>7, <1>8, <1>9, FreshKept, LocksKept, OwnKept, OnceKept
    DEF operatorKeeps, donationVars, jobVars, rowVars, sweepVars, historyVars

-----------------------------------------------------------------------------
(* The sweep *)

LEMMA SweepEnds ==
  ASSUME IInv, EndSweep, sweep.at \in {"scan", "rewrap"}, UNCHANGED <<config, configs, receipts>>,
         ~sweep.failed => \A r \in receipts : Sealed(r) => r.version = sweep.config.active
  PROVE  Sweeps' /\ sweep' \in SweepRecord /\ sweep'.at = "idle" /\ sweep'.batch = {} /\ clean' \in BOOLEAN
  <1> USE DEF IInv
  <1>1. sweep' = NoSweep /\ clean' = ~sweep.failed
    BY DEF EndSweep
  <1>2. sweep' \in SweepRecord /\ sweep'.at = "idle" /\ sweep'.batch = {} /\ sweep'.pod = None
    BY <1>1, SweepJobType DEF NoSweep
  <1>3. sweep.config = config /\ Configured(config) /\ \A p \in Pods : configs[p] = config
    BY DEF Sweeps, Settled, Confs
  <1>4. clean' => CleanSweepIsComplete'
    BY <1>1, <1>3 DEF CleanSweepIsComplete, Sealed
  <1>5. Sweeps'
    BY <1>2, <1>3, <1>4 DEF Sweeps, CleanSweepIsComplete, Configured
  <1>6. clean' \in BOOLEAN
    BY <1>1
  <1> QED
    BY <1>2, <1>5, <1>6

(* What a step of the sweep that leaves the rows alone has to show. *)
LEMMA SweepStepKeeps ==
  ASSUME IInv, UNCHANGED sweepKeeps, UNCHANGED receipts, troubles' \in Nat, clean' \in BOOLEAN,
         sweep' \in SweepRecord, Sweeps',
         \A b \in sweep'.batch : b \in sweep.batch \/ b \in receipts,
         sweep'.at \in {"scan", "rewrap"} =>
           sweep'.pod \in Pods /\ sweep'.config = configs[sweep'.pod] /\ Configured(sweep'.config)
  PROVE  IInv'
  <1> USE DEF IInv
  <1>1. TypeOK'
    BY DEF TypeOK, sweepKeeps, donationVars, jobVars, historyVars
  <1>2. EndsRuns
    BY DEF EndsRuns, sweepKeeps
  <1>3. \A e \in Donations \ rerun' : jobs'[e] \in {"none", "waiting"} => tries[e] = 0
    BY DEF Once, sweepKeeps, jobVars, historyVars
  <1>4. \A b \in sweep'.batch, r \in receipts : b.number = r.number => b.dek = r.dek
    BY DEF Locks, Own
  <1>5. Own'
    BY <1>4 DEF Own, Stored, KeyOf, sweepKeeps, historyVars
  <1>6. Confs'
    BY DEF Confs, Alive, ReceiptsStayReadable, sweepKeeps
  <1> QED
    BY <1>1, <1>2, <1>3, <1>5, <1>6, FreshKept, LocksKept, OnceKept
    DEF sweepKeeps, donationVars, jobVars, historyVars

LEMMA StartSweepKeeps ==
  ASSUME IInv, NEW p \in Pods, NEW envelope \in FlagRead, StartSweep(p, envelope)
  PROVE  IInv'
  <1> USE DEF IInv
  <1>1. UNCHANGED <<sweepKeeps, receipts, clean, troubles>> /\ sweep.at = "waiting"
    BY DEF StartSweep
  <1>2. UNCHANGED <<configs, config>>
    BY <1>1 DEF sweepKeeps
  <1>3. sweep \in SweepRecord /\ configs[p] \in Config
    BY DEF TypeOK
  <1>4. CASE sweep' = NoSweep
    <2>1. sweep' \in SweepRecord /\ sweep'.at = "idle" /\ sweep'.batch = {} /\ sweep'.pod = None
      BY <1>4, SweepJobType DEF NoSweep
    <2>2. Sweeps'
      BY <1>1, <1>2, <2>1 DEF Sweeps, CleanSweepIsComplete, Configured, Sealed
    <2>3. troubles' \in Nat /\ clean' \in BOOLEAN
      BY <1>1 DEF TypeOK
    <2> QED
      BY <1>1, <2>1, <2>2, <2>3, SweepStepKeeps
  <1>5. CASE sweep' = [sweep EXCEPT !.at = "scan", !.pod = p, !.config = configs[p]]
             /\ Configured(configs[p])
    <2>1. /\ sweep' \in SweepRecord /\ sweep'.at = "scan" /\ sweep'.pod = p
          /\ sweep'.config = configs[p] /\ sweep'.batch = sweep.batch /\ sweep'.cursor = sweep.cursor
      BY <1>3, <1>5 DEF SweepRecord
    <2>2. sweep.batch = {} /\ sweep.cursor = 0
      BY <1>1 DEF Sweeps
    <2>3. \A r \in receipts : r.rank > 0
      <3>1. receipts \subseteq Row
        BY DEF TypeOK
      <3>2. \A r \in Row : r.rank \in Ranks
        BY DEF Row
      <3>3. \A rank \in Ranks : rank > 0
        BY ONLY RanksAssumption
      <3> QED
        BY <3>1, <3>2, <3>3
    <2>4. Sweeps'
      BY <1>1, <1>2, <2>1, <2>2, <2>3, NoneAssumption
      DEF Sweeps, Settled, CleanSweepIsComplete, Configured, Sealed
    <2>5. troubles' \in Nat /\ clean' \in BOOLEAN
      BY <1>1 DEF TypeOK
    <2> QED
      BY <1>1, <1>5, <2>1, <2>2, <2>4, <2>5, SweepStepKeeps
  <1> QED
    BY <1>4, <1>5 DEF StartSweep

LEMMA ScanPageKeeps ==
  ASSUME IInv, ScanPage
  PROVE  IInv'
  <1> USE DEF IInv
  <1>1. UNCHANGED <<sweepKeeps, receipts, troubles>> /\ sweep.at = "scan"
    BY DEF ScanPage
  <1>2. UNCHANGED <<configs, config>> /\ troubles' \in Nat
    BY <1>1 DEF sweepKeeps, TypeOK
  <1>3. \A r \in receipts : Sealed(r) => Handled(r) \/ r \in Outdated
    BY <1>1 DEF Sweeps, Fetched, Handled, Outdated
  <1>4. CASE Outdated = {} /\ EndSweep
    <2>1. ~sweep.failed => \A r \in receipts : Sealed(r) => r.version = sweep.config.active
      BY <1>3, <1>4 DEF Handled
    <2>2. /\ Sweeps' /\ sweep' \in SweepRecord /\ sweep'.at = "idle" /\ sweep'.batch = {}
          /\ clean' \in BOOLEAN
      BY <1>1, <1>2, <1>4, <2>1, SweepEnds
    <2> QED
      BY <1>1, <1>2, <2>2, SweepStepKeeps
  <1>5. ASSUME NEW page \in SUBSET Outdated, NEW last \in page, IsPage(page),
               \A r \in page : r.rank <= last.rank, UNCHANGED clean,
               sweep' = [sweep EXCEPT !.at = "rewrap", !.batch = page, !.cursor = last.rank,
                                      !.full = Cardinality(page) = BatchSize]
        PROVE  IInv'
    <2>1. page \subseteq receipts /\ last.rank \in Nat /\ sweep \in SweepRecord
      BY <1>5, RanksAssumption DEF Outdated, TypeOK, Row
    <2>2. (Cardinality(page) = BatchSize) \in BOOLEAN /\ page \in SUBSET Row
      BY <2>1 DEF TypeOK
    <2>3. /\ sweep' \in SweepRecord /\ sweep'.at = "rewrap" /\ sweep'.batch = page
          /\ sweep'.cursor = last.rank /\ sweep'.full = (Cardinality(page) = BatchSize)
          /\ sweep'.pod = sweep.pod /\ sweep'.config = sweep.config /\ sweep'.failed = sweep.failed
      BY <1>5, <2>1, <2>2 DEF SweepRecord
    <2>4. \A r \in Outdated : r \notin page => r.rank > last.rank
      BY <1>5, RanksAssumption DEF IsPage, Outdated, TypeOK, Row
    <2>5. Cardinality(page) # BatchSize => page = Outdated
      BY <1>5 DEF IsPage
    <2>6. \A r \in receipts :
            Sealed(r) => \/ r.version = sweep'.config.active \/ sweep'.failed
                         \/ (\E b \in sweep'.batch : b.number = r.number)
                         \/ r.rank > sweep'.cursor /\ sweep'.full
      BY <1>3, <2>3, <2>4, <2>5 DEF Handled
    <2>7. Sweeps'
      BY <1>1, <1>2, <1>5, <2>3, <2>6
      DEF Sweeps, Settled, Handled, Fetched, Sealed, CleanSweepIsComplete, Configured
    <2>8. clean' \in BOOLEAN
      BY <1>5 DEF TypeOK
    <2>9. sweep.pod \in Pods /\ sweep.config = configs[sweep.pod] /\ Configured(sweep.config)
      BY <1>1 DEF Confs
    <2>10. \A b \in sweep'.batch : b \in receipts
      BY <2>1, <2>3
    <2> QED
      BY <1>1, <1>2, <2>3, <2>7, <2>8, <2>9, <2>10, SweepStepKeeps DEF Configured
  <1> QED
    BY <1>4, <1>5 DEF ScanPage

LEMMA TurnPageKeeps ==
  ASSUME IInv, TurnPage
  PROVE  IInv'
  <1> USE DEF IInv
  <1>1. UNCHANGED <<sweepKeeps, receipts, troubles>> /\ sweep.at = "rewrap" /\ sweep.batch = {}
    BY DEF TurnPage
  <1>2. UNCHANGED <<configs, config>> /\ troubles' \in Nat
    BY <1>1 DEF sweepKeeps, TypeOK
  <1>3. CASE sweep.full /\ sweep' = [sweep EXCEPT !.at = "scan"] /\ UNCHANGED clean
    <2>1. sweep \in SweepRecord
      BY DEF TypeOK
    <2>2. /\ sweep' \in SweepRecord /\ sweep'.at = "scan" /\ sweep'.batch = sweep.batch
          /\ sweep'.cursor = sweep.cursor
          /\ sweep'.pod = sweep.pod /\ sweep'.config = sweep.config /\ sweep'.failed = sweep.failed
      BY <1>3, <2>1 DEF SweepRecord
    <2>3. Sweeps'
      BY <1>1, <1>2, <1>3, <2>2
      DEF Sweeps, Settled, Handled, Fetched, Sealed, CleanSweepIsComplete, Configured
    <2>4. clean' \in BOOLEAN
      BY <1>3 DEF TypeOK
    <2>5. sweep.pod \in Pods /\ sweep.config = configs[sweep.pod] /\ Configured(sweep.config)
      BY <1>1 DEF Confs
    <2> QED
      BY <1>1, <1>2, <2>2, <2>3, <2>4, <2>5, SweepStepKeeps DEF Configured
  <1>4. CASE ~sweep.full /\ EndSweep
    <2>1. ~sweep.failed => \A r \in receipts : Sealed(r) => r.version = sweep.config.active
      BY <1>1, <1>4 DEF Sweeps, Handled, Fetched
    <2>2. /\ Sweeps' /\ sweep' \in SweepRecord /\ sweep'.at = "idle" /\ sweep'.batch = {}
          /\ clean' \in BOOLEAN
      BY <1>1, <1>2, <1>4, <2>1, SweepEnds
    <2> QED
      BY <1>1, <1>2, <2>2, SweepStepKeeps
  <1> QED
    BY <1>3, <1>4 DEF TurnPage

(* The sweep is given up, or put back in the queue. *)
LEMMA SweepRestartKeeps ==
  ASSUME IInv, UNCHANGED <<sweepKeeps, receipts, clean>>, troubles' \in Nat, sweep.at # "idle",
         NEW at \in {"idle", "waiting"}, NEW f \in BOOLEAN, NEW a \in BOOLEAN,
         sweep' = SweepJob(at, f, a)
  PROVE  IInv'
  <1> USE DEF IInv
  <1>1. /\ sweep' \in SweepRecord /\ sweep'.at = at /\ sweep'.batch = {} /\ sweep'.pod = None
        /\ sweep'.cursor = 0
    BY SweepJobType
  <1>2. Sweeps'
    BY <1>1 DEF Sweeps, Settled, CleanSweepIsComplete, Sealed, Configured, sweepKeeps
  <1>3. clean' \in BOOLEAN
    BY DEF TypeOK
  <1> QED
    BY <1>1, <1>2, <1>3, SweepStepKeeps

LEMMA SweepThrowsKeeps ==
  ASSUME IInv, SweepThrows
  PROVE  IInv'
  <1>1. troubles' \in Nat
    BY DEF IInv, TypeOK, SweepThrows, Trouble
  <1> QED
    BY <1>1, SweepRestartKeeps DEF SweepThrows, NoSweep

LEMMA StallSweepKeeps ==
  ASSUME IInv, StallSweep
  PROVE  IInv'
  <1>1. troubles' \in Nat /\ sweep.force \in BOOLEAN /\ sweep.at # "idle"
    BY DEF IInv, TypeOK, StallSweep, SweepRecord
  <1> QED
    BY <1>1, SweepRestartKeeps DEF StallSweep, NoSweep

LEMMA RewrappedType ==
  ASSUME TypeOK, NEW q \in Row, NEW r \in Row, sweep.at \in {"scan", "rewrap"}
  PROVE  /\ Rewrapped(q, r) \in Row
         /\ Rewrapped(q, r).number = q.number /\ Rewrapped(q, r).of = q.of
         /\ Rewrapped(q, r).rank = q.rank /\ Rewrapped(q, r).dek = r.dek
         /\ Rewrapped(q, r).version = sweep.config.active
         /\ Rewrapped(q, r).wrappedBy = sweep.config.active
  <1>1. sweep.config.active \in 0..MaxVersions
    <2>1. sweep.config \in Config
      BY DEF TypeOK, SweepRecord
    <2> QED
      BY <2>1 DEF Config
  <1>2. r.dek \in KeyName \cup {None}
    BY DEF Row
  <1> QED
    BY ONLY <1>1, <1>2, q \in Row DEF Rewrapped, Row

LEMMA RewrapRowKeeps ==
  ASSUME IInv, NEW r \in sweep.batch, RewrapRow(r)
  PROVE  IInv'
  <1> USE DEF IInv
  <1>1. UNCHANGED <<sweepKeeps, clean>> /\ sweep.at = "rewrap" /\ sweep \in SweepRecord
    BY DEF RewrapRow, TypeOK
  <1>2. sweep.pod \in Pods /\ sweep.config = configs[sweep.pod] /\ Configured(sweep.config)
    BY <1>1 DEF Confs
  <1>3. troubles' \in Nat /\ clean' \in BOOLEAN
    BY <1>1 DEF RewrapRow, Trouble, TypeOK
  <1>4. CASE RowFails(r) /\ UNCHANGED receipts
    <2>1. sweep' = [sweep EXCEPT !.batch = @ \ {r}, !.failed = TRUE]
      BY <1>4 DEF RowFails
    <2>2. /\ sweep' \in SweepRecord /\ sweep'.at = sweep.at /\ sweep'.batch = sweep.batch \ {r}
          /\ sweep'.pod = sweep.pod /\ sweep'.config = sweep.config /\ sweep'.failed
      BY <1>1, <2>1 DEF SweepRecord
    <2>3. Sweeps'
      BY <1>1, <1>4, <2>2
      DEF Sweeps, Settled, Handled, Fetched, Sealed, CleanSweepIsComplete, Configured, sweepKeeps
    <2>4. \A b \in sweep'.batch : b \in sweep.batch
      BY <2>2
    <2> QED
      BY <1>1, <1>2, <1>3, <1>4, <2>2, <2>3, <2>4, SweepStepKeeps DEF Configured
  <1>5. CASE /\ receipts' = {IF q.number = r.number THEN Rewrapped(q, r) ELSE q : q \in receipts}
             /\ sweep' = [sweep EXCEPT !.batch = @ \ {r}]
    <2>1. /\ sweep' \in SweepRecord /\ sweep'.at = sweep.at /\ sweep'.batch = sweep.batch \ {r}
          /\ sweep'.pod = sweep.pod /\ sweep'.config = sweep.config /\ sweep'.failed = sweep.failed
          /\ sweep'.full = sweep.full /\ sweep'.cursor = sweep.cursor
      BY <1>1, <1>5 DEF SweepRecord
    <2>2. receipts \subseteq Row /\ r \in Row
      BY <1>1 DEF TypeOK, SweepRecord
    <2>3. \A q \in receipts : q.number = r.number => q.dek = r.dek
      BY DEF Own
    <2> DEFINE active == sweep.config.active
               New(q) == IF q.number = r.number THEN Rewrapped(q, r) ELSE q
    <2>4. ASSUME NEW q \in receipts
          PROVE  /\ New(q) \in Row /\ New(q).number = q.number /\ New(q).of = q.of
                 /\ New(q).rank = q.rank /\ New(q).dek = q.dek
                 /\ \/ New(q).number # r.number /\ New(q) = q
                    \/ New(q).version = active /\ New(q).wrappedBy = active
      <3>1. CASE q.number = r.number
        BY <1>1, <2>2, <2>3, <3>1, RewrappedType
      <3>2. CASE q.number # r.number
        BY <2>2, <3>2
      <3> QED
        BY <3>1, <3>2
    <2> HIDE DEF New
    <2>5. receipts' = {New(q) : q \in receipts}
      BY <1>5 DEF New
    <2>6. \A y \in receipts' : \E q \in receipts :
            /\ y = New(q) /\ y \in Row /\ y.number = q.number /\ y.of = q.of /\ y.rank = q.rank
            /\ y.dek = q.dek
            /\ \/ y.number # r.number /\ y = q
               \/ y.version = active /\ y.wrappedBy = active
      BY <2>4, <2>5
    <2>7. TypeOK'
      <3>1. receipts' \subseteq Row
        BY <2>6
      <3> QED
        BY <1>1, <1>3, <2>1, <3>1 DEF TypeOK, sweepKeeps, donationVars, jobVars, historyVars
    <2>8. EndsRuns
      BY <1>1 DEF EndsRuns, sweepKeeps
    <2>9. Fresh'
      BY <1>1, <2>8, FreshKept DEF sweepKeeps, jobVars
    <2>10. Locks'
      <3>1. \A y \in receipts' : y.number \in 1..next
        BY <2>6 DEF Locks
      <3>2. \A y, z \in receipts' : y.number = z.number => y = z
        BY <2>6 DEF Locks
      <3>3. \A b \in sweep'.batch : b.number \in 1..next
        BY <2>1 DEF Locks
      <3> QED
        BY <1>1, <3>1, <3>2, <3>3
        DEF Locks, SequenceIsNeverStranded, Writing, GaplessNumbers, sweepKeeps
    <2>11. Own'
      <3>1. \A y \in receipts' : y.number \notin severed => Stored(y.number, y.of, y.dek)
        BY <2>6 DEF Own
      <3>2. \A b \in sweep'.batch, y \in receipts' : b.number = y.number => b.dek = y.dek
        BY <2>1, <2>6 DEF Own
      <3> QED
        BY <1>1, <3>1, <3>2 DEF Own, Stored, KeyOf, sweepKeeps, historyVars
    <2>12. Once'
      BY <1>1, <2>6 DEF Once, Alive, sweepKeeps, donationVars, jobVars, historyVars
    <2>13. Confs'
      <3>1. active \in config.keys
        BY <1>2 DEF Confs
      <3>2. \A y \in receipts' : Sealed(y) => y.wrappedBy = y.version /\ y.version \in config.keys
        BY <2>6, <3>1 DEF Confs, ReceiptsStayReadable, Sealed
      <3> QED
        BY <1>1, <2>1, <3>2 DEF Confs, Alive, ReceiptsStayReadable, Sealed, sweepKeeps
    <2>14. Sweeps'
      <3>1. ~clean /\ Settled /\ sweep.pod # None
        BY <1>1, <1>2, NoneAssumption DEF Sweeps
      <3>2. ASSUME NEW y \in receipts', Sealed(y)
            PROVE  \/ y.version = active \/ sweep.failed
                   \/ \E b \in sweep'.batch : b.number = y.number
                   \/ y.rank > sweep.cursor /\ sweep.full
        <4>1. CASE y.version = active
          BY <4>1
        <4>2. CASE y \in receipts /\ y.number # r.number
          BY <1>1, <2>1, <3>2, <4>2 DEF Sweeps, Handled, Fetched
        <4> QED
          BY <2>6, <4>1, <4>2
      <3> QED
        BY <1>1, <2>1, <3>1, <3>2
        DEF Sweeps, Settled, Handled, Fetched, Sealed, CleanSweepIsComplete, Configured, sweepKeeps
    <2> QED
      BY <2>7, <2>9, <2>10, <2>11, <2>12, <2>13, <2>14
  <1> QED
    BY <1>4, <1>5 DEF RewrapRow

-----------------------------------------------------------------------------
(* The invariant *)

LEMMA InitHolds == Init => IInv
  <1> SUFFICES ASSUME Init PROVE IInv
    OBVIOUS
  <1>1. /\ sweep \in SweepRecord /\ sweep.at = "idle" /\ sweep.batch = {} /\ sweep.pod = None
    BY SweepJobType DEF Init, NoSweep
  <1>2. config \in Config /\ Sound(config)
    BY BoundsAssumption DEF Init, Config, Versions, NoConfig, Sound, Configured
  <1>3. \A d \in Donations, n \in Attempts : run[d][n] = NoRun
    BY DEF Init
  <1>4. \A d \in Donations, n \in Attempts : ~Alive(d, n) /\ ~Writing(d, n)
    BY <1>3, NoRunType DEF Alive, Writing
  <1>5. jobs \in [Donations -> JobState]
    BY DEF Init, EmptyQueue, JobState
  <1>6. tries \in [Donations -> 0..MaxAttempts] /\ \A d \in Donations : tries[d] = 0
    BY DEF Init, MaxAttempts
  <1>7. run \in [Donations -> [Attempts -> RunRecord]]
    BY NoRunType DEF Init
  <1>8. configs \in [Pods -> Config] /\ \A p \in Pods : configs[p] = config
    BY <1>2 DEF Init
  <1>9. TypeOK
    BY <1>1, <1>2, <1>5, <1>6, <1>7, <1>8 DEF Init, TypeOK, Row
  <1>10. Locks
    BY <1>1, <1>4, NoneAssumption
    DEF Init, Locks, SequenceIsNeverStranded, GaplessNumbers
  <1>11. Own
    BY <1>1, <1>3, NoRunType DEF Init, Own
  <1>12. Once
    BY <1>4, <1>6 DEF Init, Once, Attempts, MaxAttempts
  <1>13. Confs
    BY <1>1, <1>2, <1>4, <1>8 DEF Init, Confs, ReceiptsStayReadable, Sound
  <1>14. Sweeps
    BY <1>1 DEF Init, Sweeps, CleanSweepIsComplete
  <1> QED
    BY <1>4, <1>9, <1>10, <1>11, <1>12, <1>13, <1>14 DEF IInv, Fresh

LEMMA NextKeeps ==
  ASSUME IInv, [Next]_vars
  PROVE  IInv'
  <1>1. CASE UNCHANGED vars
    <2>1. EndsRuns /\ UNCHANGED <<sweepKeeps, receipts, clean, troubles, sweep>>
      BY <1>1 DEF EndsRuns, vars, sweepKeeps, rowVars, keyVars, sweepVars
    <2>2. TypeOK' /\ Once' /\ Fresh' /\ Own' /\ Locks' /\ Confs' /\ Sweeps'
      <3>1. TypeOK'
        BY <2>1 DEF IInv, TypeOK, sweepKeeps, donationVars, jobVars, historyVars
      <3>2. \A e \in Donations \ rerun' : jobs'[e] \in {"none", "waiting"} => tries[e] = 0
        BY <2>1 DEF IInv, Once, sweepKeeps, jobVars, historyVars
      <3> QED
        BY <2>1, <3>1, <3>2, FreshKept, LocksKept, OwnKept, OnceKept, ConfsKept, SweepsKept
        DEF IInv, sweepKeeps, donationVars, jobVars, historyVars
    <2> QED
      BY <2>2 DEF IInv
  <1>2. ASSUME NEW d \in Donations, NEW n \in Attempts, RunStep(d, n) \/ RunFails(d, n)
        PROVE  IInv'
    <2>1. CASE Refused(d, n)
      <3>1. Throw(d, n) /\ troubles' \in Nat
        BY <2>1 DEF Refused, IInv, TypeOK
      <3> QED
        BY <3>1, ThrowKeeps
    <2>2. CASE RunThrows(d, n)
      <3>1. Throw(d, n) /\ troubles' \in Nat
        BY <2>2 DEF RunThrows, Trouble, IInv, TypeOK
      <3> QED
        BY <3>1, ThrowKeeps
    <2>3. CASE \E rank \in Ranks, answered \in BOOLEAN : Commit(d, n, rank, answered)
      BY <2>3, CommitKeeps
    <2> QED
      BY <1>2, <2>1, <2>2, <2>3, AllocateKeeps, UploadKeeps, LoseConnectionKeeps DEF RunStep, RunFails
  <1>3. ASSUME NEW d \in Donations,
               \/ RouteEvent(d) \/ Stall(d) \/ DeleteDonation(d)
               \/ \E p \in Pods, envelope \in FlagRead : PickUp(d, p, envelope)
        PROVE  IInv'
    BY <1>3, RouteEventKeeps, StallKeeps, DeleteDonationKeeps, PickUpKeeps
  <1>4. ASSUME Operator
        PROVE  IInv'
    BY <1>4, AddVersionKeeps, RetireVersionKeeps, RedeployKeeps, TriggerSweepKeeps DEF Operator
  <1>5. ASSUME SweepStep
        PROVE  IInv'
    BY <1>5, StartSweepKeeps, ScanPageKeeps, TurnPageKeeps, StallSweepKeeps, RewrapRowKeeps DEF SweepStep
  <1> QED
    BY <1>1, <1>2, <1>3, <1>4, <1>5, WorkerDiesKeeps, SweepThrowsKeeps DEF Next

THEOREM InvariantHolds == Spec => []IInv
  <1>1. IInv /\ [Next]_vars => IInv'
    BY NextKeeps
  <1> QED
    BY <1>1, InitHolds, PTL DEF Spec

-----------------------------------------------------------------------------
(* Every reachable state is well typed. *)
THEOREM TypeCorrect == Spec => []TypeOK
  <1>1. IInv => TypeOK
    BY DEF IInv
  <1> QED
    BY <1>1, InvariantHolds, PTL

(* The committed receipts of the year used exactly the numbers up to the   *)
(* sequence's value, for any number of workers and failures.               *)
THEOREM NumbersAreGapless == Spec => []GaplessNumbers
  <1>1. IInv => GaplessNumbers
    BY DEF IInv, Locks
  <1> QED
    BY <1>1, InvariantHolds, PTL

(* A run that holds the sequence row is alive and connected. *)
THEOREM SequenceIsFreed == Spec => []SequenceIsNeverStranded
  <1>1. IInv => SequenceIsNeverStranded
    BY DEF IInv, Locks
  <1> QED
    BY <1>1, InvariantHolds, PTL

(* A receipt's object is its own, although rolled-back runs wrote to the   *)
(* same key, unless an upload outlived its connection.                     *)
THEOREM ObjectsAreTheirOwn == Spec => []ReceiptsHoldTheirOwn
  <1>1. IInv => ReceiptsHoldTheirOwn
    BY DEF IInv, Own, Stored, ReceiptsHoldTheirOwn
  <1> QED
    BY <1>1, InvariantHolds, PTL

(* A donation whose job was never run again has at most one receipt, the   *)
(* one printed on it.                                                      *)
THEOREM ReceiptsAreUnique == Spec => []OneReceiptPerDonation
  <1>1. IInv => OneReceiptPerDonation
    BY DEF IInv, Once, OneReceiptPerDonation, TypeOK, Row
  <1> QED
    BY <1>1, InvariantHolds, PTL

(* Rotation keeps every sealed receipt readable with the operator's        *)
(* keyring, whatever runs, sweeps and redeploys interleave.                *)
THEOREM RotationKeepsReceipts == Spec => []ReceiptsStayReadable
  <1>1. IInv => ReceiptsStayReadable
    BY DEF IInv, Confs
  <1> QED
    BY <1>1, InvariantHolds, PTL

(* A sweep that ended clean left no sealed row on another version than the *)
(* active one, and none appears before the next rotation.                  *)
THEOREM CleanSweepsAreComplete == Spec => []CleanSweepIsComplete
  <1>1. IInv => CleanSweepIsComplete
    BY DEF IInv, Sweeps
  <1> QED
    BY <1>1, InvariantHolds, PTL

-----------------------------------------------------------------------------
(* Refinement: the receipts are kept like a ReceiptBook. *)

Entries == {[number |-> r.number, of |-> r.of] : r \in receipts}
Standing == {d \in Donations : donations[d]}

(* What most steps leave alone. *)
bookVars == <<next, printed, receipts, donations, rerun>>

(* A step of the book, or one nobody sees in it. *)
BookStep == Book!Next \/ UNCHANGED Book!book

LEMMA StutterShows ==
  ASSUME UNCHANGED bookVars
  PROVE  BookStep
  BY DEF bookVars, BookStep, Book!book

(* A commit issues the next number for a donation that still exists; it    *)
(* has no receipt yet unless its job was taken for stalled.                *)
LEMMA CommitIssues ==
  ASSUME IInv, NEW d \in Donations, NEW n \in Attempts, NEW rank \in Ranks, NEW answered \in BOOLEAN,
         Commit(d, n, rank, answered)
  PROVE  Book!Issue(d)
  <1> DEFINE number == run[d][n].number
  <1>1. /\ run[d][n].at = "inserting" /\ ~run[d][n].lost /\ donations[d]
        /\ receipts' = receipts \cup {ReceiptRow(d, n, rank)}
        /\ printed' = [printed EXCEPT ![d] = number]
        /\ next' = number
        /\ donations' = donations /\ rerun' = rerun
    BY DEF Commit, Insertable, historyVars
  <1>2. number = next + 1
    BY <1>1 DEF IInv, Locks, Writing
  <1>3. ReceiptRow(d, n, rank).number = number /\ ReceiptRow(d, n, rank).of = d
    BY DEF ReceiptRow
  <1>4. Entries' = Entries \cup {Book!Entry(number, d)}
    BY <1>1, <1>3 DEF Entries, Book!Entry
  <1>5. d \in rerun \/ \A r \in receipts : r.of # d
    <2>1. Alive(d, n)
      BY <1>1 DEF Alive
    <2> QED
      BY <2>1 DEF IInv, Once, Attempts, MaxAttempts
  <1>6. d \in rerun \/ \A e \in Entries : e.of # d
    BY <1>5 DEF Entries
  <1>7. d \in Standing /\ Standing' = Standing
    BY <1>1 DEF Standing
  <1> QED
    BY <1>1, <1>2, <1>4, <1>6, <1>7 DEF Book!Issue, Entries, Standing

(* The cascade strikes out what was issued for the donation. *)
LEMMA DeletionStrikes ==
  ASSUME IInv, NEW d \in Donations, DeleteDonation(d)
  PROVE  Book!Strike(d)
  <1>1. /\ donations[d] /\ donations' = [donations EXCEPT ![d] = FALSE]
        /\ receipts' = {r \in receipts : r.of # d}
        /\ UNCHANGED <<next, printed, rerun>>
    BY DEF DeleteDonation, historyVars
  <1>2. Entries' = {e \in Entries : e.of # d}
    BY <1>1 DEF Entries
  <1>3. d \in Standing /\ Standing' = Standing \ {d}
    BY <1>1 DEF Standing, IInv, TypeOK
  <1> QED
    BY <1>1, <1>2, <1>3 DEF Book!Strike, Entries, Standing

(* A job taken for stalled puts its donation in doubt. *)
LEMMA StallDoubts ==
  ASSUME NEW d \in Donations, Stall(d)
  PROVE  BookStep
  <1>1. rerun' = rerun \cup {d} /\ UNCHANGED <<next, printed, receipts, donations>>
    BY DEF Stall, rowVars, donationVars
  <1>2. CASE d \in rerun
    BY <1>1, <1>2, StutterShows DEF bookVars
  <1>3. CASE d \notin rerun
    BY <1>1, <1>3 DEF BookStep, Book!Next, Book!Doubt
  <1> QED
    BY <1>2, <1>3

(* A row wrapped anew keeps its number and its donation. *)
LEMMA RewrapShowsNothing ==
  ASSUME IInv, NEW r \in sweep.batch, RewrapRow(r)
  PROVE  BookStep
  <1>1. UNCHANGED <<next, printed, donations, rerun>>
    BY DEF RewrapRow, sweepKeeps, donationVars, historyVars
  <1>2. CASE UNCHANGED receipts
    BY <1>1, <1>2, StutterShows DEF bookVars
  <1>3. CASE receipts' = {IF q.number = r.number THEN Rewrapped(q, r) ELSE q : q \in receipts}
    <2>1. /\ receipts \subseteq Row /\ r \in Row /\ sweep \in SweepRecord
          /\ \A q \in receipts : q.number = r.number => q.dek = r.dek
      BY DEF IInv, TypeOK, Own, SweepRecord
    <2> DEFINE active == sweep.config.active
               New(q) == IF q.number = r.number THEN Rewrapped(q, r) ELSE q
    <2>2. ASSUME NEW q \in receipts
          PROVE  New(q).number = q.number /\ New(q).of = q.of
      BY <2>1 DEF Rewrapped, Row
    <2> HIDE DEF New
    <2>3. receipts' = {New(q) : q \in receipts}
      BY <1>3 DEF New
    <2>4. Entries' = {[number |-> New(q).number, of |-> New(q).of] : q \in receipts}
      BY <2>3 DEF Entries
    <2>5. Entries' = Entries
      BY <2>2, <2>4 DEF Entries
    <2> QED
      BY <1>1, <2>5 DEF BookStep, Book!book, Entries
  <1> QED
    BY <1>2, <1>3 DEF RewrapRow

LEMMA StepsShow ==
  ASSUME IInv, [Next]_vars
  PROVE  BookStep
  <1>1. ASSUME NEW d \in Donations, NEW n \in Attempts, RunStep(d, n) \/ RunFails(d, n)
        PROVE  BookStep
    <2>1. CASE \E rank \in Ranks, answered \in BOOLEAN : Commit(d, n, rank, answered)
      BY <2>1, CommitIssues DEF BookStep, Book!Next
    <2>2. CASE Allocate(d, n) \/ Upload(d, n) \/ LoseConnection(d, n)
      BY <2>2, StutterShows
      DEF Allocate, Upload, LoseConnection, bookVars, donationVars, rowVars, historyVars
    <2>3. CASE Refused(d, n) \/ RunThrows(d, n)
      BY <2>3, StutterShows DEF Refused, RunThrows, Throw, bookVars, donationVars, rowVars, historyVars
    <2> QED
      BY <1>1, <2>1, <2>2, <2>3 DEF RunStep, RunFails
  <1>2. ASSUME NEW d \in Donations,
               RouteEvent(d) \/ \E p \in Pods, envelope \in FlagRead : PickUp(d, p, envelope)
        PROVE  BookStep
    BY <1>2, StutterShows DEF RouteEvent, PickUp, bookVars, donationVars, rowVars, historyVars
  <1>3. ASSUME NEW d \in Donations, DeleteDonation(d)
        PROVE  BookStep
    BY <1>3, DeletionStrikes DEF BookStep, Book!Next
  <1>4. CASE \E p \in Pods : WorkerDies(p)
    BY <1>4, StutterShows DEF WorkerDies, bookVars, donationVars, rowVars, historyVars
  <1>5. CASE Operator
    BY <1>5, StutterShows
    DEF Operator, AddVersion, RetireVersion, Redeploy, TriggerSweep, operatorKeeps, bookVars,
        donationVars, rowVars, historyVars
  <1>6. CASE SweepStep \/ SweepThrows
    <2>1. CASE \E r \in sweep.batch : RewrapRow(r)
      BY <2>1, RewrapShowsNothing
    <2>2. CASE \/ \E p \in Pods, envelope \in FlagRead : StartSweep(p, envelope)
               \/ ScanPage \/ TurnPage \/ StallSweep \/ SweepThrows
      BY <2>2, StutterShows
      DEF StartSweep, ScanPage, TurnPage, StallSweep, SweepThrows, sweepKeeps, bookVars,
          donationVars, historyVars
    <2> QED
      BY <1>6, <2>1, <2>2 DEF SweepStep
  <1>7. CASE UNCHANGED vars
    BY <1>7, StutterShows DEF vars, bookVars, donationVars, rowVars, historyVars
  <1> QED
    BY <1>1, <1>2, <1>3, <1>4, <1>5, <1>6, <1>7, StallDoubts DEF Next

(* Generating, deleting, re-running and re-keying receipts implement the   *)
(* book: the numbers, the rows and what is printed on the donations never  *)
(* differ from one issued entry after the other.                           *)
THEOREM Refinement == Spec => ImplementsBook
  <1>1. Init => Book!Init
    BY DEF Init, Book!Init
  <1>2. IInv /\ [Next]_vars => [Book!Next]_(Book!book)
    BY StepsShow DEF BookStep
  <1> QED
    BY <1>1, <1>2, InvariantHolds, PTL DEF Spec, ImplementsBook, Book!Spec

=============================================================================
