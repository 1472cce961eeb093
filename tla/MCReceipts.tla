----------------------------- MODULE MCReceipts -----------------------------
(* Model checking values for Receipts: two donations and two workers.      *)
EXTENDS Receipts, TLC

CONSTANTS d1, d2, p1, p2

MCDonations == {d1, d2}
MCPods == {p1, p2}
MCRanks == 1..2

MCSymmetry == Permutations(MCDonations) \cup Permutations(MCPods)

=============================================================================
