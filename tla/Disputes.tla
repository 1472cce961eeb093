------------------------------ MODULE Disputes ------------------------------
(***************************************************************************)
(* The grace period of the provisional admin of one self-serve tenant.     *)
(* Signup makes the founder first_admin with provisional_until set.  Until *)
(* the deadline a member may dispute this; a super-admin resolves the      *)
(* dispute; a nightly job confirms the admin once the deadline has passed. *)
(*                                                                         *)
(* Requests and passes read outside the transaction in which they write,   *)
(* so each is two or three steps here.  A transaction is one step.         *)
(***************************************************************************)
EXTENDS Naturals, FiniteSets

CONSTANTS
  Users,      \* members of the tenant
  Founder,    \* the member who signed the tenant up
  Ids,        \* bound: the disputes that may be opened
  Resolvers,  \* super-admins; one may also be a member of the tenant
  Passes,     \* overlapping runs of the nightly job
  Null        \* no value

ASSUME FounderAssumption == Founder \in Users
ASSUME NullAssumption ==
  Null \notin Users /\ Null \notin Resolvers /\ Null \notin Ids

Resolution == {"kept", "replaced", "escalated_to_support"}

VARIABLES
  firstAdmin,   \* users with first_admin = true
  provisional,  \* users with provisional_until set
  past,         \* the deadline has passed
  resolution,   \* tenant_admin_disputes, by id: "absent", "open" or closed
  disputer,     \* disputer_id of a dispute
  accused,      \* provisional_admin_id of a dispute
  opening,      \* provisional admin a member's openDispute call has read
  target,       \* dispute a super-admin's resolveDispute call has read
  choice,       \* and the resolution asked for
  pass,         \* where a run of the nightly job is
  candidate,    \* and the user it has selected
  confirmed     \* history: provisional_admin_confirmed events per user

rows  == <<resolution, disputer, accused>>
calls == <<target, choice>>
jobs  == <<pass, candidate>>
vars  == <<firstAdmin, provisional, past, rows, opening, calls, jobs, confirmed>>

IsOpen == \E d \in Ids : resolution[d] = "open"

-----------------------------------------------------------------------------
(* Opening a dispute *)

Deadline ==
  /\ ~past
  /\ past' = TRUE
  /\ UNCHANGED <<firstAdmin, provisional, rows, opening, calls, jobs, confirmed>>

(* The three SELECTs of openDispute; a call they refuse leaves no trace.   *)
OpenRead(u) ==
  /\ opening[u] = Null
  /\ u \notin firstAdmin
  /\ ~past
  /\ \E p \in firstAdmin \cap provisional : opening' = [opening EXCEPT ![u] = p]
  /\ UNCHANGED <<firstAdmin, provisional, past, rows, calls, jobs, confirmed>>

(* The INSERT: neither the window nor the admin is looked at again.        *)
OpenInsert(u) ==
  /\ opening[u] # Null
  /\ ~IsOpen
  /\ \E d \in Ids :
       /\ resolution[d] = "absent"
       /\ resolution' = [resolution EXCEPT ![d] = "open"]
       /\ disputer' = [disputer EXCEPT ![d] = u]
       /\ accused' = [accused EXCEPT ![d] = opening[u]]
  /\ opening' = [opening EXCEPT ![u] = Null]
  /\ UNCHANGED <<firstAdmin, provisional, past, calls, jobs, confirmed>>

(* The unique index on open disputes refuses it, or the transaction fails. *)
OpenRefused(u) ==
  /\ opening[u] # Null
  /\ opening' = [opening EXCEPT ![u] = Null]
  /\ UNCHANGED <<firstAdmin, provisional, past, rows, calls, jobs, confirmed>>

-----------------------------------------------------------------------------
(* Resolving a dispute *)

(* resolveDispute reads the dispute; a disputer cannot replace the admin   *)
(* in their own favour.                                                    *)
ResolveRead(s) ==
  /\ target[s] = Null
  /\ \E d \in Ids, r \in Resolution :
       /\ resolution[d] = "open"
       /\ r = "replaced" => disputer[d] # s
       /\ target' = [target EXCEPT ![s] = d]
       /\ choice' = [choice EXCEPT ![s] = r]
  /\ UNCHANGED <<firstAdmin, provisional, past, rows, opening, jobs, confirmed>>

Return(s) == target' = [target EXCEPT ![s] = Null] /\ UNCHANGED choice

(* The re-check under FOR UPDATE, and the index on first admins, which     *)
(* refuses the promotion while somebody else than the demoted user has it. *)
CanSwap(d) ==
  /\ resolution[d] = "open"
  /\ disputer[d] \notin firstAdmin
  /\ firstAdmin \subseteq {accused[d]}

Close(d, r) == resolution' = [resolution EXCEPT ![d] = r]

Swap_LosesAdmin(d) ==
  /\ firstAdmin' = firstAdmin \ {accused[d]}
  /\ provisional' = provisional \ {accused[d], disputer[d]}

Swap_KeepsWindow(d) ==
  /\ firstAdmin' = (firstAdmin \ {accused[d]}) \cup {disputer[d]}
  /\ provisional' = (provisional \ {accused[d]}) \cup {disputer[d]}

(* Demote the accused, promote the disputer, clear both windows. *)
Swap(d) ==
  /\ firstAdmin' = (firstAdmin \ {accused[d]}) \cup {disputer[d]}
  /\ provisional' = provisional \ {accused[d], disputer[d]}

Replace_TrustsRead(s) ==
  /\ target[s] # Null /\ choice[s] = "replaced"
  /\ disputer[target[s]] \notin firstAdmin
  /\ firstAdmin \subseteq {accused[target[s]]}
  /\ Swap(target[s])
  /\ Close(target[s], "replaced")
  /\ Return(s)
  /\ UNCHANGED <<past, disputer, accused, opening, jobs, confirmed>>

Replace_ClosesAnyway(s) ==
  /\ target[s] # Null /\ choice[s] = "replaced"
  /\ IF CanSwap(target[s]) THEN Swap(target[s]) ELSE UNCHANGED <<firstAdmin, provisional>>
  /\ Close(target[s], "replaced")
  /\ Return(s)
  /\ UNCHANGED <<past, disputer, accused, opening, jobs, confirmed>>

Replace(s) ==
  /\ target[s] # Null /\ choice[s] = "replaced"
  /\ CanSwap(target[s])
  /\ Swap(target[s])
  /\ Close(target[s], "replaced")
  /\ Return(s)
  /\ UNCHANGED <<past, disputer, accused, opening, jobs, confirmed>>

(* A call of any kind is refused by its re-check, or its transaction fails. *)
ResolveRefused(s) ==
  /\ target[s] # Null
  /\ Return(s)
  /\ UNCHANGED <<firstAdmin, provisional, past, rows, opening, jobs, confirmed>>

(* These two write on the strength of the read.  'kept' ends the grace     *)
(* period, 'escalated_to_support' leaves it running.                       *)
Keep(s) ==
  /\ target[s] # Null /\ choice[s] = "kept"
  /\ provisional' = provisional \ {accused[target[s]]}
  /\ Close(target[s], "kept")
  /\ Return(s)
  /\ UNCHANGED <<firstAdmin, past, disputer, accused, opening, jobs, confirmed>>

Escalate(s) ==
  /\ target[s] # Null /\ choice[s] = "escalated_to_support"
  /\ Close(target[s], "escalated_to_support")
  /\ Return(s)
  /\ UNCHANGED <<firstAdmin, provisional, past, disputer, accused, opening, jobs, confirmed>>

-----------------------------------------------------------------------------
(* The nightly job *)

GoTo(p, where) == pass' = [pass EXCEPT ![p] = where]

ExpireSelect(p) ==
  /\ pass[p] = "idle"
  /\ past
  /\ \E u \in firstAdmin \cap provisional : candidate' = [candidate EXCEPT ![p] = u]
  /\ GoTo(p, "check")
  /\ UNCHANGED <<firstAdmin, provisional, past, rows, opening, calls, confirmed>>

ExpireCheck_AnyDispute(p) ==
  /\ pass[p] = "check"
  /\ GoTo(p, IF \E d \in Ids : resolution[d] # "absent" THEN "idle" ELSE "clear")
  /\ UNCHANGED <<firstAdmin, provisional, past, rows, opening, calls, candidate, confirmed>>

(* Skip the tenant while a dispute is open. *)
ExpireCheck(p) ==
  /\ pass[p] = "check"
  /\ GoTo(p, IF IsOpen THEN "idle" ELSE "clear")
  /\ UNCHANGED <<firstAdmin, provisional, past, rows, opening, calls, candidate, confirmed>>

ExpireClear_NoClaim(p) ==
  /\ pass[p] = "clear"
  /\ provisional' = provisional \ {candidate[p]}
  /\ confirmed' = [confirmed EXCEPT ![candidate[p]] = @ + 1]
  /\ GoTo(p, "idle")
  /\ UNCHANGED <<firstAdmin, past, rows, opening, calls, candidate>>

(* UPDATE ... WHERE provisional_until IS NOT NULL AND first_admin RETURNING *)
(* claims the confirmation; the event is inserted when it returns a row.   *)
ExpireClear(p) ==
  /\ pass[p] = "clear"
  /\ IF candidate[p] \in provisional \cap firstAdmin
     THEN /\ provisional' = provisional \ {candidate[p]}
          /\ confirmed' = [confirmed EXCEPT ![candidate[p]] = @ + 1]
     ELSE UNCHANGED <<provisional, confirmed>>
  /\ GoTo(p, "idle")
  /\ UNCHANGED <<firstAdmin, past, rows, opening, calls, candidate>>

(* The error of one tenant is logged; a crash ends the pass anywhere. *)
ExpireAborted(p) ==
  /\ pass[p] # "idle"
  /\ GoTo(p, "idle")
  /\ UNCHANGED <<firstAdmin, provisional, past, rows, opening, calls, candidate, confirmed>>

-----------------------------------------------------------------------------
Init ==
  /\ firstAdmin = {Founder}
  /\ provisional = {Founder}
  /\ past = FALSE
  /\ resolution = [d \in Ids |-> "absent"]
  /\ disputer = [d \in Ids |-> Null]
  /\ accused = [d \in Ids |-> Null]
  /\ opening = [u \in Users |-> Null]
  /\ target = [s \in Resolvers |-> Null]
  /\ choice = [s \in Resolvers |-> "kept"]
  /\ pass = [p \in Passes |-> "idle"]
  /\ candidate = [p \in Passes |-> Founder]
  /\ confirmed = [u \in Users |-> 0]

Member(u) == OpenRead(u) \/ OpenInsert(u) \/ OpenRefused(u)

SuperAdmin(s) ==
  ResolveRead(s) \/ Replace(s) \/ ResolveRefused(s) \/ Keep(s) \/ Escalate(s)

Nightly(p) ==
  ExpireSelect(p) \/ ExpireCheck(p) \/ ExpireClear(p) \/ ExpireAborted(p)

Next ==
  \/ Deadline
  \/ \E u \in Users : Member(u)
  \/ \E s \in Resolvers : SuperAdmin(s)
  \/ \E p \in Passes : Nightly(p)

(* The job is repeatable: it runs every night and gets to the end of its   *)
(* loop; the database does not refuse its update every single night.       *)
Fairness ==
  \A p \in Passes :
    WF_vars(ExpireSelect(p)) /\ SF_vars(ExpireCheck(p)) /\ SF_vars(ExpireClear(p))

Spec == Init /\ [][Next]_vars
FairSpec == Spec /\ Fairness

-----------------------------------------------------------------------------
TypeOK ==
  /\ firstAdmin \subseteq Users
  /\ provisional \subseteq Users
  /\ past \in BOOLEAN
  /\ resolution \in [Ids -> Resolution \cup {"absent", "open"}]
  /\ disputer \in [Ids -> Users \cup {Null}]
  /\ accused \in [Ids -> Users \cup {Null}]
  /\ opening \in [Users -> Users \cup {Null}]
  /\ target \in [Resolvers -> Ids \cup {Null}]
  /\ choice \in [Resolvers -> Resolution]
  /\ pass \in [Passes -> {"idle", "check", "clear"}]
  /\ candidate \in [Passes -> Users]
  /\ confirmed \in [Users -> Nat]

(* The tenant has exactly one first admin at any moment, whatever disputes *)
(* were opened on stale reads and however they are resolved, and only that *)
(* admin can have a grace period running.                                  *)
OneFirstAdmin ==
  \E u \in Users : firstAdmin = {u} /\ provisional \subseteq {u}

(* A dispute recorded as replaced has its disputer in office: no stale     *)
(* dispute or late resolution takes the office away again behind it.       *)
ReplacedIsInOffice ==
  \A d \in Ids : resolution[d] = "replaced" => firstAdmin = {disputer[d]}

(* Overlapping runs of the job emit at most one confirmation per admin.    *)
ConfirmedOnce == \A u \in Users : confirmed[u] <= 1

(* Only an open dispute unseats an admin: a call that read the dispute     *)
(* before somebody else closed it must not.                                *)
OnlyOpenDisputesUnseat ==
  [][firstAdmin' # firstAdmin =>
       \E d \in Ids : resolution[d] = "open" /\ resolution'[d] = "replaced"]_vars

(* A window that has run out is closed eventually, unless a dispute is in  *)
(* the way again and again; in particular after an escalated dispute,      *)
(* which leaves the window to the nightly job.                             *)
LapsedWindowsClose == past /\ provisional # {} ~> provisional = {} \/ IsOpen

-----------------------------------------------------------------------------
(* The user columns and the open dispute, read as an office on trial. *)
Trial == INSTANCE Office WITH
  holders <- firstAdmin,
  trial   <- provisional,
  pending <- {disputer[d] : d \in {c \in Ids : resolution[c] = "open"}}

(* Members, super-admins and nightly passes that act on what they read     *)
(* long ago do together what one step at a time would do: the office       *)
(* passes at most once, to the member whose dispute is open, and whoever   *)
(* was put in is on no trial of their own and cannot be disputed out.      *)
ImplementsOffice == Trial!Spec

=============================================================================
