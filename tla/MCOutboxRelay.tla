--------------------------- MODULE MCOutboxRelay ----------------------------
(* Model checking values for OutboxRelay: two events, the last of which is *)
(* an inline e-mail, relayed by two replicas.                              *)
EXTENDS OutboxRelay

CONSTANTS r1, r2

MCEvents == 1..2
MCInline == {2}
MCReplicas == {r1, r2}

=============================================================================
