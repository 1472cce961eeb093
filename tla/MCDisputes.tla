----------------------------- MODULE MCDisputes -----------------------------
(* Model checking values for Disputes: two members beside the founder, one *)
(* of whom is also a super-admin, and a second super-admin.                *)
EXTENDS Disputes

CONSTANTS founder, ann, bob, eve, p1, p2

MCUsers == {founder, ann, bob}
MCResolvers == {bob, eve}
MCPasses == {p1, p2}
MCIds == 1..2

=============================================================================
