--------------------------- MODULE MCIdempotency ----------------------------
(* Model checking values for Idempotency: an original request and retries, *)
(* and a viewer who sends the same key.                                    *)
EXTENDS Idempotency

CONSTANTS q1, q2, q3, q4, viewer

MCRequests == {q1, q2, q3, q4, viewer}
MCPermitted == {q1, q2, q3, q4}

=============================================================================
