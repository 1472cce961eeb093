------------------------------- MODULE Office -------------------------------
(***************************************************************************)
(* What the grace period of a founder promises, with no request, nightly   *)
(* run or dispute row in sight.  The founder is first admin on trial.  One *)
(* member at a time may have a complaint pending.  The office passes once, *)
(* in one step, from the founder to the member whose complaint is pending, *)
(* who is not on trial; the trial ends with that, by a decision, or with   *)
(* one confirmation, and never begins again.                               *)
(***************************************************************************)
EXTENDS Naturals

CONSTANTS
  Users,
  Founder

VARIABLES
  holders,    \* the users in office
  trial,      \* the users on trial
  pending,    \* the members whose complaint is pending
  confirmed   \* confirmations per user

office == <<holders, trial, pending, confirmed>>

Init ==
  /\ holders = {Founder} /\ trial = {Founder} /\ pending = {}
  /\ confirmed = [u \in Users |-> 0]

(* A complaint may come in after the trial has ended. *)
Complain(u) ==
  /\ u # Founder /\ pending = {}
  /\ pending' = {u}
  /\ UNCHANGED <<holders, trial, confirmed>>

HandOver(u) ==
  /\ u \in pending /\ holders = {Founder}
  /\ holders' = {u} /\ trial' = {} /\ pending' = {}
  /\ UNCHANGED confirmed

(* A decision for the admin ends the trial.  It may come late: then the    *)
(* complaint it is about is closed already, and another one may be pending. *)
Dismiss ==
  /\ trial' = {} /\ pending' \in {{}, pending}
  /\ UNCHANGED <<holders, confirmed>>

(* The complaint goes elsewhere and the trial goes on. *)
Refer ==
  /\ pending' = {}
  /\ UNCHANGED <<holders, trial, confirmed>>

Confirm ==
  /\ trial = {Founder} /\ holders = {Founder}
  /\ trial' = {} /\ confirmed' = [confirmed EXCEPT ![Founder] = @ + 1]
  /\ UNCHANGED <<holders, pending>>

Next ==
  \/ \E u \in Users : Complain(u) \/ HandOver(u)
  \/ Dismiss \/ Refer \/ Confirm

Spec == Init /\ [][Next]_office

=============================================================================
