--------------------------- MODULE MCPlayground ---------------------------
(* The instance of Playground for TLC. *)
EXTENDS Playground
=============================================================================
