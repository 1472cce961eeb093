--------------------------- MODULE DisputesProofs ---------------------------
(***************************************************************************)
(* Proofs about the provisional admin for any set of members, disputes,    *)
(* super-admins and overlapping runs of the nightly job: the invariants,   *)
(* when the office moves, and the refinement of Office.                    *)
(***************************************************************************)
EXTENDS Disputes, TLAPS

(* Only the founder ever has a window, so only the founder is accused, and *)
(* never by themselves; a call holds a dispute that exists.                *)
AccusedInv ==
  /\ provisional \subseteq {Founder}
  /\ \A d \in Ids : resolution[d] # "absent" =>
       accused[d] = Founder /\ disputer[d] \in Users \ {Founder}
  /\ \A u \in Users : opening[u] # Null => opening[u] = Founder /\ u # Founder
  /\ \A s \in Resolvers : target[s] # Null => resolution[target[s]] # "absent"

(* The partial unique index on open disputes. *)
OneOpenDispute ==
  \A c, d \in Ids : resolution[c] = "open" /\ resolution[d] = "open" => c = d

OfficeInv == OneFirstAdmin /\ ReplacedIsInOffice

(* A confirmed admin has no window left to be confirmed again. *)
ConfirmInv ==
  \A u \in Users : confirmed[u] <= 1 /\ (confirmed[u] = 1 => u \notin provisional)

IInv == TypeOK /\ AccusedInv /\ OfficeInv /\ OneOpenDispute /\ ConfirmInv

(* Every initial state satisfies the inductive invariant. *)
LEMMA InitIInv == Init => IInv
<1> SUFFICES ASSUME Init PROVE IInv
  OBVIOUS
<1> USE FounderAssumption, NullAssumption DEF Init
<1>1. TypeOK
  BY DEF TypeOK, Resolution
<1>2. AccusedInv
  BY DEF AccusedInv
<1>3. OfficeInv
  BY DEF OfficeInv, OneFirstAdmin, ReplacedIsInOffice
<1>4. OneOpenDispute
  BY DEF OneOpenDispute
<1>5. ConfirmInv
  BY DEF ConfirmInv
<1> QED BY <1>1, <1>2, <1>3, <1>4, <1>5 DEF IInv

(* A committed replacement takes the office from the founder, gives it to  *)
(* the disputer and leaves no window.                                      *)
LEMMA ReplaceSwaps ==
  ASSUME IInv, NEW s \in Resolvers, Replace(s)
  PROVE  /\ target[s] \in Ids
         /\ resolution[target[s]] = "open"
         /\ resolution' = [resolution EXCEPT ![target[s]] = "replaced"]
         /\ firstAdmin = {Founder}
         /\ firstAdmin' = {disputer[target[s]]}
         /\ provisional' = {}
         /\ disputer[target[s]] \in Users \ {Founder}
<1> USE DEF IInv, Replace, CanSwap, Swap, Close
<1>1. target[s] \in Ids /\ resolution[target[s]] = "open"
  BY DEF TypeOK
<1>2. accused[target[s]] = Founder /\ disputer[target[s]] \in Users \ {Founder}
  BY <1>1 DEF AccusedInv
<1>3. firstAdmin = {Founder}
  BY <1>2 DEF OfficeInv, OneFirstAdmin
<1>4. provisional' = {}
  BY <1>2 DEF AccusedInv
<1> QED BY <1>1, <1>2, <1>3, <1>4

(* Every step preserves well-typedness. *)
LEMMA NextTypeOK == IInv /\ [Next]_vars => TypeOK'
<1> SUFFICES ASSUME IInv, [Next]_vars PROVE TypeOK'
  OBVIOUS
<1> USE DEF IInv, TypeOK, rows, calls, jobs
<1>1. CASE Deadline
  BY <1>1 DEF Deadline
<1>2. ASSUME NEW u \in Users, Member(u) PROVE TypeOK'
  <2>1. CASE OpenRead(u)
    BY <2>1 DEF OpenRead
  <2>2. CASE OpenInsert(u)
    BY <2>2 DEF OpenInsert
  <2>3. CASE OpenRefused(u)
    BY <2>3 DEF OpenRefused
  <2> QED BY <1>2, <2>1, <2>2, <2>3 DEF Member
<1>3. ASSUME NEW s \in Resolvers, SuperAdmin(s) PROVE TypeOK'
  <2> USE DEF Return, Close
  <2>1. CASE ResolveRead(s)
    BY <2>1 DEF ResolveRead
  <2>2. CASE Replace(s)
    <3>1. /\ UNCHANGED <<past, disputer, accused, opening, jobs, confirmed, choice>>
          /\ target' = [target EXCEPT ![s] = Null]
      BY <2>2 DEF Replace
    <3>2. /\ firstAdmin' \subseteq Users
          /\ provisional' \subseteq Users
          /\ resolution' \in [Ids -> Resolution \cup {"absent", "open"}]
      BY <2>2, ReplaceSwaps DEF Resolution
    <3> QED BY <3>1, <3>2
  <2>3. CASE ResolveRefused(s)
    BY <2>3 DEF ResolveRefused
  <2>4. CASE Keep(s)
    BY <2>4 DEF Keep, Resolution
  <2>5. CASE Escalate(s)
    BY <2>5 DEF Escalate, Resolution
  <2> QED BY <1>3, <2>1, <2>2, <2>3, <2>4, <2>5 DEF SuperAdmin
<1>4. ASSUME NEW p \in Passes, Nightly(p) PROVE TypeOK'
  <2> USE DEF GoTo
  <2>1. CASE ExpireSelect(p)
    BY <2>1 DEF ExpireSelect
  <2>2. CASE ExpireCheck(p)
    BY <2>2 DEF ExpireCheck
  <2>3. CASE ExpireClear(p)
    BY <2>3 DEF ExpireClear
  <2>4. CASE ExpireAborted(p)
    BY <2>4 DEF ExpireAborted
  <2> QED BY <1>4, <2>1, <2>2, <2>3, <2>4 DEF Nightly
<1>5. CASE UNCHANGED vars
  BY <1>5 DEF vars
<1> QED BY <1>1, <1>2, <1>3, <1>4, <1>5 DEF Next

(* Every step preserves the rest of the inductive invariant. *)
LEMMA NextRest ==
  IInv /\ [Next]_vars => AccusedInv' /\ OfficeInv' /\ OneOpenDispute' /\ ConfirmInv'
<1> DEFINE Rest == AccusedInv /\ OfficeInv /\ OneOpenDispute /\ ConfirmInv
<1> SUFFICES ASSUME IInv, [Next]_vars PROVE Rest'
  OBVIOUS
<1> USE DEF IInv, TypeOK, OfficeInv, rows, calls, jobs
<1>1. CASE Deadline
  BY <1>1 DEF Deadline, AccusedInv, OneFirstAdmin, ReplacedIsInOffice, OneOpenDispute, ConfirmInv
<1>2. ASSUME NEW u \in Users, Member(u) PROVE Rest'
  <2>1. CASE OpenRead(u)
    <3>1. AccusedInv'
      BY <2>1 DEF OpenRead, AccusedInv, OneFirstAdmin
    <3> QED BY <2>1, <3>1 DEF OpenRead, OneFirstAdmin, ReplacedIsInOffice, OneOpenDispute, ConfirmInv
  <2>2. CASE OpenInsert(u)
    <3>1. AccusedInv'
      BY <2>2, NullAssumption DEF OpenInsert, AccusedInv
    <3>2. OneOpenDispute'
      BY <2>2 DEF OpenInsert, IsOpen, OneOpenDispute
    <3>3. ReplacedIsInOffice'
      BY <2>2 DEF OpenInsert, ReplacedIsInOffice
    <3> QED BY <2>2, <3>1, <3>2, <3>3 DEF OpenInsert, OneFirstAdmin, ConfirmInv
  <2>3. CASE OpenRefused(u)
    BY <2>3 DEF OpenRefused, AccusedInv, OneFirstAdmin, ReplacedIsInOffice, OneOpenDispute, ConfirmInv
  <2> QED BY <1>2, <2>1, <2>2, <2>3 DEF Member
<1>3. ASSUME NEW s \in Resolvers, SuperAdmin(s) PROVE Rest'
  <2>1. CASE ResolveRead(s)
    <3> UNCHANGED <<firstAdmin, provisional, rows, opening, confirmed>>
      BY <2>1 DEF ResolveRead
    <3>1. AccusedInv'
      BY <2>1 DEF ResolveRead, AccusedInv
    <3>2. OneFirstAdmin' /\ ReplacedIsInOffice' /\ OneOpenDispute' /\ ConfirmInv'
      BY DEF OneFirstAdmin, ReplacedIsInOffice, OneOpenDispute, ConfirmInv
    <3> QED BY <3>1, <3>2
  <2>2. CASE Replace(s)
    <3> DEFINE d == target[s]
    <3> USE <2>2, ReplaceSwaps
    <3> UNCHANGED <<disputer, accused, opening, confirmed>> /\ Return(s)
      BY DEF Replace
    <3>1. AccusedInv'
      BY NullAssumption DEF AccusedInv, Return
    <3>2. OneFirstAdmin'
      BY DEF OneFirstAdmin
    <3>3. ReplacedIsInOffice'
      <4> SUFFICES ASSUME NEW e \in Ids, resolution'[e] = "replaced"
                   PROVE  firstAdmin' = {disputer'[e]}
        BY DEF ReplacedIsInOffice
      <4>1. resolution[e] = "replaced" => disputer[e] = Founder
        BY DEF ReplacedIsInOffice
      <4>2. resolution[e] # "replaced"
        BY <4>1 DEF AccusedInv
      <4> QED BY <4>2
    <3>4. OneOpenDispute'
      BY DEF OneOpenDispute
    <3>5. ConfirmInv'
      BY DEF ConfirmInv
    <3> QED BY <3>1, <3>2, <3>3, <3>4, <3>5
  <2>3. CASE ResolveRefused(s)
    BY <2>3 DEF ResolveRefused, Return, AccusedInv, OneFirstAdmin, ReplacedIsInOffice, OneOpenDispute, ConfirmInv
  <2>4. CASE Keep(s)
    <3> USE <2>4 DEF Keep, Close, Return
    <3>1. target[s] \in Ids
      OBVIOUS
    <3>2. AccusedInv'
      BY <3>1, NullAssumption DEF AccusedInv
    <3>3. OneFirstAdmin' /\ ReplacedIsInOffice'
      BY <3>1 DEF OneFirstAdmin, ReplacedIsInOffice
    <3>4. OneOpenDispute' /\ ConfirmInv'
      BY <3>1 DEF OneOpenDispute, ConfirmInv
    <3> QED BY <3>2, <3>3, <3>4
  <2>5. CASE Escalate(s)
    <3> USE <2>5 DEF Escalate, Close, Return
    <3>1. target[s] \in Ids
      OBVIOUS
    <3>2. AccusedInv'
      BY <3>1, NullAssumption DEF AccusedInv
    <3>3. OneFirstAdmin' /\ ReplacedIsInOffice'
      BY <3>1 DEF OneFirstAdmin, ReplacedIsInOffice
    <3>4. OneOpenDispute' /\ ConfirmInv'
      BY <3>1 DEF OneOpenDispute, ConfirmInv
    <3> QED BY <3>2, <3>3, <3>4
  <2> QED BY <1>3, <2>1, <2>2, <2>3, <2>4, <2>5 DEF SuperAdmin
<1>4. ASSUME NEW p \in Passes, Nightly(p) PROVE Rest'
  <2>1. CASE ExpireClear(p)
    <3> UNCHANGED <<firstAdmin, rows, opening, calls>> /\ provisional' \subseteq provisional
      BY <2>1 DEF ExpireClear
    <3>1. AccusedInv' /\ OneFirstAdmin' /\ ReplacedIsInOffice' /\ OneOpenDispute'
      BY DEF AccusedInv, OneFirstAdmin, ReplacedIsInOffice, OneOpenDispute
    <3>2. ConfirmInv'
      BY <2>1 DEF ExpireClear, ConfirmInv
    <3> QED BY <3>1, <3>2
  <2>2. CASE ExpireSelect(p) \/ ExpireCheck(p) \/ ExpireAborted(p)
    <3> UNCHANGED <<firstAdmin, provisional, rows, opening, calls, confirmed>>
      BY <2>2 DEF ExpireSelect, ExpireCheck, ExpireAborted
    <3> QED BY DEF AccusedInv, OneFirstAdmin, ReplacedIsInOffice, OneOpenDispute, ConfirmInv
  <2> QED BY <1>4, <2>1, <2>2 DEF Nightly
<1>5. CASE UNCHANGED vars
  BY <1>5 DEF vars, AccusedInv, OneFirstAdmin, ReplacedIsInOffice, OneOpenDispute, ConfirmInv
<1> QED BY <1>1, <1>2, <1>3, <1>4, <1>5 DEF Next

(* The invariant holds in every reachable state. *)
THEOREM Invariance == Spec => []IInv
<1>1. IInv /\ [Next]_vars => IInv'
  BY NextTypeOK, NextRest DEF IInv
<1> QED BY InitIInv, <1>1, PTL DEF Spec

(* Every reachable state of calls, disputes and passes is well typed. *)
THEOREM TypeCorrect == Spec => []TypeOK
<1>1. IInv => TypeOK
  BY DEF IInv
<1> QED BY Invariance, <1>1, PTL

(* The tenant has exactly one first admin, and nobody else has a window:   *)
(* no interleaving of openDispute, resolveDispute and the job loses or     *)
(* doubles the office.                                                     *)
THEOREM OfficeIsNeverVacant == Spec => []OneFirstAdmin
<1>1. IInv => OneFirstAdmin
  BY DEF IInv, OfficeInv
<1> QED BY Invariance, <1>1, PTL

(* A dispute recorded as replaced has its disputer in office.              *)
THEOREM ReplacementsAreReal == Spec => []ReplacedIsInOffice
<1>1. IInv => ReplacedIsInOffice
  BY DEF IInv, OfficeInv
<1> QED BY Invariance, <1>1, PTL

(* At most one confirmation is emitted per admin, for any number of        *)
(* overlapping runs of the nightly job.                                    *)
THEOREM ConfirmationIsClaimed == Spec => []ConfirmedOnce
<1>1. IInv => ConfirmedOnce
  BY DEF IInv, ConfirmInv, ConfirmedOnce
<1> QED BY Invariance, <1>1, PTL

(* Only a committed replacement moves the office. *)
LEMMA OnlyReplaceMoves ==
  ASSUME [Next]_vars, firstAdmin' # firstAdmin
  PROVE  \E s \in Resolvers : Replace(s)
<1> USE DEF vars
<1>1. \A u \in Users : ~Member(u)
  BY DEF Member, OpenRead, OpenInsert, OpenRefused
<1>2. \A p \in Passes : ~Nightly(p)
  BY DEF Nightly, ExpireSelect, ExpireCheck, ExpireClear, ExpireAborted
<1>3. ~Deadline
  BY DEF Deadline
<1> QED BY <1>1, <1>2, <1>3 DEF Next, SuperAdmin, ResolveRead, ResolveRefused, Keep, Escalate

(* The office changes hands at most once in the life of a tenant: from the *)
(* founder to a disputer.                                                  *)
THEOREM OfficeChangesOnce ==
  Spec => [][firstAdmin' # firstAdmin => firstAdmin = {Founder}]_vars
<1>1. IInv /\ [Next]_vars => [firstAdmin' # firstAdmin => firstAdmin = {Founder}]_vars
  BY OnlyReplaceMoves, ReplaceSwaps
<1> QED BY Invariance, <1>1, PTL DEF Spec

(* Only an open dispute unseats an admin, whatever a call has read before. *)
THEOREM ClosedDisputesAreInert == Spec => OnlyOpenDisputesUnseat
<1> DEFINE A == firstAdmin' # firstAdmin =>
                  \E d \in Ids : resolution[d] = "open" /\ resolution'[d] = "replaced"
<1>1. IInv /\ [Next]_vars => [A]_vars
  <2> SUFFICES ASSUME IInv, [Next]_vars, firstAdmin' # firstAdmin
               PROVE  \E d \in Ids : resolution[d] = "open" /\ resolution'[d] = "replaced"
    OBVIOUS
  <2>1. PICK s \in Resolvers : Replace(s)
    BY OnlyReplaceMoves
  <2> QED BY <2>1, ReplaceSwaps DEF IInv, TypeOK
<1> QED BY Invariance, <1>1, PTL DEF Spec, OnlyOpenDisputesUnseat

-----------------------------------------------------------------------------
(* Refinement: the columns change like an Office. *)

Pending == {disputer[d] : d \in {c \in Ids : resolution[c] = "open"}}

(* What most steps leave alone. *)
officeVars == <<firstAdmin, provisional, resolution, disputer, confirmed>>

(* A step of the office, or one nobody sees in it. *)
OfficeStep == Trial!Next \/ UNCHANGED Trial!office

LEMMA NothingShows ==
  ASSUME UNCHANGED officeVars
  PROVE  OfficeStep
BY DEF officeVars, OfficeStep, Trial!office

(* Closing a dispute: it was the one pending, or was closed before and     *)
(* leaves the pending one alone.                                           *)
LEMMA ClosingPending ==
  ASSUME IInv, NEW d \in Ids, NEW r \in Resolution, Close(d, r), UNCHANGED disputer
  PROVE  Pending' \in {{}, Pending} /\ (resolution[d] = "open" => Pending' = {})
<1>1. /\ resolution' = [resolution EXCEPT ![d] = r] /\ r # "open"
      /\ resolution \in [Ids -> Resolution \cup {"absent", "open"}]
  BY DEF Close, Resolution, IInv, TypeOK
<1>2. \A c \in Ids : resolution'[c] = "open" <=> resolution[c] = "open" /\ c # d
  BY <1>1
<1>3. CASE resolution[d] = "open"
  <2>1. \A c \in Ids : resolution'[c] # "open"
    BY <1>2, <1>3 DEF IInv, OneOpenDispute
  <2> QED BY <1>3, <2>1 DEF Pending
<1>4. CASE resolution[d] # "open"
  <2>1. {c \in Ids : resolution'[c] = "open"} = {c \in Ids : resolution[c] = "open"}
    BY <1>2, <1>4
  <2> QED BY <1>4, <2>1 DEF Pending
<1> QED BY <1>3, <1>4

(* The INSERT succeeds only while no dispute is open, and its disputer is  *)
(* not the founder, however long ago the call has read the window.         *)
LEMMA InsertComplains ==
  ASSUME IInv, NEW u \in Users, OpenInsert(u)
  PROVE  Trial!Complain(u)
<1>1. PICK d \in Ids : /\ resolution' = [resolution EXCEPT ![d] = "open"]
                       /\ disputer' = [disputer EXCEPT ![d] = u]
  BY DEF OpenInsert
<1>2. u # Founder
  BY DEF OpenInsert, IInv, AccusedInv
<1>3. Pending = {}
  BY DEF OpenInsert, IsOpen, Pending
<1>4. {c \in Ids : resolution'[c] = "open"} = {d}
  BY <1>1 DEF OpenInsert, IsOpen, IInv, TypeOK
<1>5. disputer'[d] = u
  BY <1>1 DEF IInv, TypeOK
<1>6. Pending' = {u}
  BY <1>4, <1>5 DEF Pending
<1> QED BY <1>2, <1>3, <1>6 DEF OpenInsert, Pending, Trial!Complain

(* A replacement hands the office to the one member whose dispute is open. *)
LEMMA ReplaceHandsOver ==
  ASSUME IInv, NEW s \in Resolvers, Replace(s)
  PROVE  OfficeStep
<1> DEFINE d == target[s]
<1>1. /\ d \in Ids /\ resolution[d] = "open" /\ disputer[d] \in Users
      /\ firstAdmin = {Founder} /\ firstAdmin' = {disputer[d]} /\ provisional' = {}
  BY ReplaceSwaps
<1>2. UNCHANGED <<disputer, confirmed>> /\ Close(d, "replaced")
  BY DEF Replace
<1>3. Pending' = {}
  BY <1>1, <1>2, ClosingPending DEF Resolution
<1>4. PICK u \in Users : u = disputer[d]
  BY <1>1
<1>5. u \in Pending
  BY <1>1, <1>4 DEF Pending
<1>6. Trial!HandOver(u)
  BY <1>1, <1>2, <1>3, <1>4, <1>5 DEF Pending, Trial!HandOver
<1> QED BY <1>6 DEF OfficeStep, Trial!Next

(* The founder alone has a window, so 'kept' ends it, whichever dispute it *)
(* was decided on.                                                         *)
LEMMA KeepDismisses ==
  ASSUME IInv, NEW s \in Resolvers, Keep(s)
  PROVE  OfficeStep
<1> DEFINE d == target[s]
<1>1. /\ d \in Ids /\ provisional' = provisional \ {accused[d]} /\ Close(d, "kept")
      /\ UNCHANGED <<firstAdmin, disputer, confirmed>>
  BY DEF Keep, IInv, TypeOK
<1>2. accused[d] = Founder /\ provisional \subseteq {Founder}
  BY <1>1, NullAssumption DEF Keep, IInv, AccusedInv
<1>3. Pending' \in {{}, Pending}
  BY <1>1, ClosingPending DEF Resolution
<1>4. Trial!Dismiss
  BY <1>1, <1>2, <1>3 DEF Pending, Trial!Dismiss
<1> QED BY <1>4 DEF OfficeStep, Trial!Next

LEMMA EscalateRefers ==
  ASSUME IInv, NEW s \in Resolvers, Escalate(s)
  PROVE  OfficeStep
<1> DEFINE d == target[s]
<1>1. /\ d \in Ids /\ Close(d, "escalated_to_support")
      /\ UNCHANGED <<firstAdmin, provisional, disputer, confirmed>>
  BY DEF Escalate, IInv, TypeOK
<1>2. CASE Pending' = {}
  BY <1>1, <1>2 DEF OfficeStep, Pending, Trial!Next, Trial!Refer
<1>3. CASE Pending' = Pending
  BY <1>1, <1>3 DEF OfficeStep, Pending, Trial!office
<1>4. Pending' \in {{}, Pending}
  BY <1>1, ClosingPending DEF Resolution
<1> QED BY <1>2, <1>3, <1>4

(* The claim of the nightly job succeeds for the founder in office only.   *)
LEMMA ClearConfirms ==
  ASSUME IInv, NEW p \in Passes, ExpireClear(p)
  PROVE  OfficeStep
<1>1. CASE candidate[p] \in provisional \cap firstAdmin
  <2>1. candidate[p] = Founder /\ provisional = {Founder} /\ firstAdmin = {Founder}
    BY <1>1 DEF IInv, AccusedInv, OfficeInv, OneFirstAdmin
  <2>2. /\ provisional' = {} /\ confirmed' = [confirmed EXCEPT ![Founder] = @ + 1]
        /\ UNCHANGED <<firstAdmin, resolution, disputer>>
    BY <1>1, <2>1 DEF ExpireClear, rows
  <2> QED BY <2>1, <2>2 DEF OfficeStep, Trial!Next, Trial!Confirm
<1>2. CASE candidate[p] \notin provisional \cap firstAdmin
  BY <1>2, NothingShows DEF ExpireClear, rows, officeVars
<1> QED BY <1>1, <1>2

LEMMA StepsShow ==
  ASSUME IInv, [Next]_vars
  PROVE  OfficeStep
<1>1. CASE Deadline \/ UNCHANGED vars
  BY <1>1, NothingShows DEF Deadline, vars, rows, officeVars
<1>2. ASSUME NEW u \in Users, Member(u) PROVE OfficeStep
  <2>1. CASE OpenInsert(u)
    BY <2>1, InsertComplains DEF OfficeStep, Trial!Next
  <2> QED BY <1>2, <2>1, NothingShows DEF Member, OpenRead, OpenRefused, rows, officeVars
<1>3. ASSUME NEW s \in Resolvers, SuperAdmin(s) PROVE OfficeStep
  BY <1>3, ReplaceHandsOver, KeepDismisses, EscalateRefers, NothingShows
  DEF SuperAdmin, ResolveRead, ResolveRefused, rows, officeVars
<1>4. ASSUME NEW p \in Passes, Nightly(p) PROVE OfficeStep
  BY <1>4, ClearConfirms, NothingShows
  DEF Nightly, ExpireSelect, ExpireCheck, ExpireAborted, rows, officeVars
<1> QED BY <1>1, <1>2, <1>3, <1>4 DEF Next

(* Stale reads, overlapping calls and nightly passes change nothing about  *)
(* the office: it stays or passes as one step at a time would have it.     *)
THEOREM Refinement == Spec => ImplementsOffice
<1>1. Init => Trial!Init
  BY DEF Init, Trial!Init
<1>2. IInv /\ [Next]_vars => [Trial!Next]_(Trial!office)
  BY StepsShow DEF OfficeStep
<1> QED BY <1>1, <1>2, Invariance, PTL DEF Spec, ImplementsOffice, Trial!Spec

=============================================================================
