---------------------------- MODULE MCCreditLots ----------------------------
(* Instances of CreditLots for TLC. *)
EXTENDS CreditLots, TLC

\* SumOver, which the proofs can unfold, is the sum of the community modules.
ASSUME SumOverIsTheSum ==
  \A S \in SUBSET (0 .. 3), f \in [0 .. 3 -> 0 .. 2] :
    SumOver(S, f) = MapThenSumSet(LAMBDA s : f[s], S)

\* An administrator may set a negative balance; the code checks no sign.
NegativeOverride == {-1}

\* Orders and requests are interchangeable.
Symmetry == Permutations(Orders) \cup Permutations(Requests)
=============================================================================
