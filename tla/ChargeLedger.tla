---------------------------- MODULE ChargeLedger ----------------------------
(***************************************************************************)
(* What billing promises of one account (the wallet, an API token, the     *)
(* subscriptions): the balance moves only together with the charge of one  *)
(* request, and a request that is closed is never charged or repaid again. *)
(*                                                                         *)
(* service/billing_session.go: "封装单次请求的预扣费/结算/退款生命周期".   *)
(***************************************************************************)
EXTENDS Integers

CONSTANTS Requests, Budget

VARIABLES
  balance,   \* what the account holds
  charge,    \* what each request has taken from it, net
  phase      \* "open", "held" (reserved) or "closed" (settled, repaid, rejected)

vars == <<balance, charge, phase>>

Init ==
  /\ balance = Budget
  /\ charge = [r \in Requests |-> 0]
  /\ phase = [r \in Requests |-> "open"]

\* The charge of r, and of nobody else, changes; the balance by as much.
Move(r) ==
  /\ balance' = balance + charge[r] - charge'[r]
  /\ \A q \in Requests \ {r} : charge'[q] = charge[q] /\ phase'[q] = phase[q]

Hold(r) == phase[r] = "open" /\ phase'[r] = "held" /\ Move(r)
Release(r) == phase[r] = "held" /\ phase'[r] = "open" /\ Move(r)
Close(r) == phase[r] # "closed" /\ phase'[r] = "closed" /\ Move(r)

Next == \E r \in Requests : Hold(r) \/ Release(r) \/ Close(r)

Spec == Init /\ [][Next]_vars
=============================================================================
