----------------------------- MODULE MCBranding -----------------------------
(* Two uploads of one tenant, so that one replaces the other. *)
EXTENDS Branding

CONSTANTS u1, u2

MCUploads == {u1, u2}
=============================================================================
