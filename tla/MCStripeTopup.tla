--------------------------- MODULE MCStripeTopup ---------------------------
(* Instances of StripeTopup for TLC. *)
EXTENDS StripeTopup, TLC
=============================================================================
