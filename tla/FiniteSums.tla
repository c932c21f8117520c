----------------------------- MODULE FiniteSums -----------------------------
(***************************************************************************)
(* Sums of natural numbers over finite sets. A sum counts units: element s *)
(* contributes the f[s] pairs <<s, 1>>, ..., <<s, f[s]>>. Facts about sums *)
(* are facts about cardinalities this way, and can be proved; the value is *)
(* the one of MapThenSumSet of the community modules.                      *)
(***************************************************************************)
EXTENDS Integers, FiniteSets

Units(S, f) == UNION {{s} \X (1 .. f[s]) : s \in S}

SumOver(S, f) == Cardinality(Units(S, f))
=============================================================================
