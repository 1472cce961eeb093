---------------------------- MODULE MCBulkEmail -----------------------------
(* Model checking values for BulkEmail: two recipients and two runs.       *)
EXTENDS BulkEmail, TLC

CONSTANTS ann, bob, w1, w2

MCRecipients == {ann, bob}
MCWorkers == {w1, w2}

(* Bounds: a behaviour has a fault or a change of the flag, not both, and  *)
(* at most one recipient is erased.                                        *)
FewDisturbances == faults + flips <= 1 /\ Cardinality(gone) <= 1

=============================================================================
