--------------------------- MODULE MCPhoneSession --------------------------
(* A small instance of PhoneSession: no symmetry, for the liveness property. *)
EXTENDS PhoneSession

CONSTANTS ann, bob, s1, s2, x1
=============================================================================
