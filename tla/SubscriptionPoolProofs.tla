----------------------- MODULE SubscriptionPoolProofs -----------------------
(***************************************************************************)
(* Within a quota period, and as long as no commit is reported as failed,  *)
(* the subscriptions of module BillingSession are charged as module        *)
(* ChargeLedger says, for any number of requests and subscriptions, faults *)
(* and crashes.                                                            *)
(***************************************************************************)
EXTENDS BillingSessionProofs, FiniteSumTheorems

Used == [u \in Subs |-> subs[u].used]

\* What each request has taken from subscription u.
ChargeOn(u) == [r \in Requests |-> IF s[r].sub = u THEN SubCharge(r) ELSE 0]

\* A request that reserved on a subscription knows which one, and its record
\* says so until the refund marks it: without this a refund could find the
\* record refunded and give nothing back, or lower another subscription.
PoolSession(r) ==
  /\ pc[r] = "wallet" => s[r].source = "wallet"
  /\ s[r].source = "subscription" /\ pc[r] \in {"relaying", "settling", "unsettled", "refundFunding"}
       => record[r] = "consumed"
  /\ s[r].source = "subscription" /\ pc[r] \notin Reserving \cup {"rejected"} => s[r].sub \in Subs

\* No period ends and no commit is lost.
Quiet == budget.resets = 0 /\ budget.commits = 0 /\ \A u \in Subs : ~subs[u].due

\* The usage of a subscription is the sum of what the requests on it are charged.
\* It is what keeps PostConsumeUserSubscriptionDelta from clamping at zero.
PoolInv ==
  /\ Quiet
  /\ \A r \in Requests : PoolSession(r)
  /\ \A u \in Subs : subs[u].used = SumOver(Requests, ChargeOn(u))

\* The usage of v, and of no other subscription, follows the charge of r.
Follows(r, v) ==
  /\ s'[r].sub = v /\ (s[r].sub = v \/ SubCharge(r) = 0)
  /\ subs'[v].used = subs[v].used + SubCharge(r)' - SubCharge(r)
  /\ \A u \in Subs \ {v} : subs'[u].used = subs[u].used

\* No usage and no charge moves.
Rests(r) ==
  /\ \A u \in Subs : subs'[u].used = subs[u].used
  /\ SubCharge(r)' = SubCharge(r)
  /\ s'[r].sub = s[r].sub \/ SubCharge(r) = 0

PoolStep(r) ==
  /\ Quiet' /\ PoolSession(r)'
  /\ \A q \in Requests \ {r} : record'[q] = record[q]
  /\ Moves(SubPhase(r), SubCharge(r), SubPhase(r)', SubCharge(r)')
  /\ Rests(r) \/ \E v \in Subs : Follows(r, v)

-----------------------------------------------------------------------------
(* Charges and their sums. *)

LEMMA ChargeType ==
  ASSUME TypeOK, NEW r \in Requests
  PROVE SubCharge(r) \in Nat
  <1>1. s[r] \in Sessions
    BY DEF TypeOK
  <1>. QED
    BY <1>1 DEF SubCharge, Sessions

LEMMA ChargesType ==
  ASSUME TypeOK, NEW u
  PROVE NatOn(Requests, ChargeOn(u))
  BY ChargeType DEF ChargeOn, NatOn

\* The same after a step.
LEMMA TypeNext ==
  ASSUME TypeOK'
  PROVE /\ \A r \in Requests : SubCharge(r)' \in Nat
        /\ \A u : NatOn(Requests, ChargeOn(u)')
        /\ NatOn(Subs, Used')
  <1>1. ASSUME NEW r \in Requests PROVE SubCharge(r)' \in Nat
    <2>1. s'[r] \in Sessions
      BY DEF TypeOK
    <2>. QED
      BY <2>1 DEF SubCharge, Sessions
  <1>2. ASSUME NEW u PROVE NatOn(Requests, ChargeOn(u)')
    BY <1>1 DEF ChargeOn, NatOn
  <1>3. NatOn(Subs, Used')
    BY DEF TypeOK, Used, NatOn
  <1>. QED
    BY <1>1, <1>2, <1>3

LEMMA SubsFinite == IsFiniteSet(Subs)
  BY FS_Interval, BillingAssumption DEF Subs

LEMMA UsedType ==
  ASSUME TypeOK
  PROVE NatOn(Subs, Used)
  BY DEF TypeOK, Used, NatOn

\* A sum follows the one summand that changes.
LEMMA SumFollows ==
  ASSUME NEW S, IsFiniteSet(S), NEW x \in S, NEW f, NEW g, NatOn(S, f), NatOn(S, g),
         \A y \in S \ {x} : g[y] = f[y]
  PROVE SumOver(S, g) = SumOver(S, f) + g[x] - f[x]
  <1>1. /\ SumOver(S, f) = SumOver(S \ {x}, f) + f[x]
        /\ SumOver(S, g) = SumOver(S \ {x}, g) + g[x]
    BY SumRemove
  <1>2. SumOver(S \ {x}, f) = SumOver(S \ {x}, g)
    BY SumSame
  <1>3. IsFiniteSet(S \ {x}) /\ NatOn(S \ {x}, f)
    BY FS_RemoveElement DEF NatOn
  <1>4. SumOver(S \ {x}, f) \in Nat /\ f[x] \in Nat /\ g[x] \in Nat
    BY <1>3, SumType DEF NatOn
  <1>. QED
    BY <1>1, <1>2, <1>4

\* A subscription was used at least as much as each request on it is charged.
LEMMA UsageCoversCharge ==
  ASSUME TypeOK, PoolInv, NEW r \in Requests, s[r].sub \in Subs
  PROVE SubCharge(r) <= subs[s[r].sub].used
  <1>. DEFINE u == s[r].sub
  <1>1. subs[u].used = SumOver(Requests, ChargeOn(u))
    BY DEF PoolInv
  <1>2. NatOn(Requests, ChargeOn(u)) /\ IsFiniteSet(Requests)
    BY ChargesType, BillingAssumption
  <1>3. SumOver(Requests, ChargeOn(u)) = SumOver(Requests \ {r}, ChargeOn(u)) + ChargeOn(u)[r]
    BY <1>2, SumRemove
  <1>4. IsFiniteSet(Requests \ {r}) /\ NatOn(Requests \ {r}, ChargeOn(u))
    BY <1>2, FS_RemoveElement DEF NatOn
  <1>5. SumOver(Requests \ {r}, ChargeOn(u)) \in Nat
    BY <1>4, SumType
  <1>6. ChargeOn(u)[r] = SubCharge(r) /\ SubCharge(r) \in Nat
    BY ChargeType DEF ChargeOn
  <1>. QED
    BY <1>1, <1>3, <1>5, <1>6

-----------------------------------------------------------------------------
(* One lemma per kind of step: what it does to the subscriptions. *)

KeepsPool ==
  UNCHANGED <<subs, record>> /\ budget'.resets = budget.resets /\ budget'.commits = budget.commits

LEMMA KeepStep ==
  ASSUME IInv, PoolInv, NEW r \in Requests, Effect(r), KeepsPool,
         pc[r] # "refundRecord", pc'[r] # "refundRecord",
         PoolSession(r)', SubCharge(r)' = SubCharge(r),
         s'[r].sub = s[r].sub \/ SubCharge(r) = 0
  PROVE PoolStep(r)
  <1>1. Quiet'
    BY DEF PoolInv, Quiet, KeepsPool
  <1>2. SubPhase(r) = WalletPhase(r) /\ SubPhase(r)' = WalletPhase(r)'
    BY DEF SubPhase
  <1>3. Moves(SubPhase(r), SubCharge(r), SubPhase(r)', SubCharge(r)')
    BY <1>2 DEF Effect, WalletStep, Moves
  <1>4. Rests(r)
    BY DEF Rests, KeepsPool
  <1>. QED
    BY <1>1, <1>3, <1>4 DEF PoolStep, KeepsPool

\* Until the funding pays, and when it does not, nothing is charged.
LEMMA ReservingStep ==
  ASSUME IInv, PoolInv, NEW r \in Requests, Effect(r), KeepsPool,
         pc[r] \in Reserving, pc'[r] \in Reserving \cup {"rejected"},
         pc'[r] = "wallet" => s'[r].source = "wallet"
  PROVE PoolStep(r)
  <1>1. SubCharge(r) = 0
    BY DEF SubCharge
  <1>2. SubCharge(r)' = 0
    <2>1. pc'[r] = "rejected" => s'[r].kept = 0
      BY DEF Effect, SessionInv
    <2>. QED
      BY <2>1 DEF SubCharge, SubPhase, WalletPhase, Reserving, Holding
  <1>3. PoolSession(r)'
    BY DEF PoolSession, Reserving
  <1>. QED
    BY <1>1, <1>2, <1>3, KeepStep DEF Reserving

\* A session that pays from the wallet charges no subscription.
LEMMA WalletSourceStep ==
  ASSUME IInv, PoolInv, NEW r \in Requests, Effect(r), KeepsPool,
         s[r].source = "wallet", s'[r].source = "wallet"
  PROVE PoolStep(r)
  <1>1. SubCharge(r) = 0 /\ SubCharge(r)' = 0
    BY DEF SubCharge
  <1>2. PoolSession(r)'
    BY DEF PoolSession
  <1>3. pc[r] # "refundRecord" /\ pc'[r] # "refundRecord"
    BY DEF IInv, Effect, SessionInv
  <1>. QED
    BY <1>1, <1>2, <1>3, KeepStep

LEMMA InsufficientStep ==
  ASSUME IInv, NEW r \in Requests, NEW leak, Insufficient(r, leak)
  PROVE /\ pc'[r] \in Reserving \cup {"rejected"}
        /\ pc'[r] = "wallet" => s'[r].source = "wallet"
  <1>1. NewSession(r, "wallet", leak).source = "wallet"
    BY DEF NewSession, NoSession
  <1>. QED
    BY <1>1 DEF Insufficient, Goto, IInv, TypeOK, Reserving

LEMMA FaultKeeps ==
  ASSUME TypeOK, Fault
  PROVE budget'.resets = budget.resets /\ budget'.commits = budget.commits
  BY DEF TypeOK, Fault

LEMMA NewBillingSessionPool ==
  ASSUME IInv, PoolInv, NEW r \in Requests, NEW pref \in Preferences, NEW n \in Estimates,
         NewBillingSession(r, pref, n)
  PROVE PoolStep(r)
  <1>. DEFINE fresh(source) == [NoSession EXCEPT !.pref = pref, !.source = source,
                                                 !.est = n, !.tokenSeen = token]
  <1>1. PICK source \in {"wallet", "subscription"} :
          /\ s' = [s EXCEPT ![r] = fresh(source)]
          /\ pc' = [pc EXCEPT ![r] = IF source = "wallet" THEN "wallet" ELSE "token"]
    BY DEF NewBillingSession, Goto
  <1>2. fresh(source).source = source
    BY DEF NoSession
  <1>. HIDE DEF fresh
  <1>3. pc'[r] \in Reserving /\ (pc'[r] = "wallet" => s'[r].source = "wallet")
    BY <1>1, <1>2 DEF IInv, TypeOK, Reserving
  <1>4. pc[r] \in Reserving /\ KeepsPool
    BY DEF NewBillingSession, At, Reserving, KeepsPool
  <1>. QED
    BY <1>3, <1>4, NewBillingSessionEffect, ReservingStep

LEMMA ReservationPool ==
  ASSUME IInv, PoolInv, NEW r \in Requests,
         \/ TryWallet(r) \/ ReadToken(r) \/ DecreaseTokenQuota(r)
         \/ PreConsumeWallet(r) \/ ReservationFails(r) \/ RollbackToken(r)
  PROVE PoolStep(r)
  <1>. USE DEF Reserving, KeepsPool
  <1>1. CASE TryWallet(r)
    <2>1. Effect(r) /\ KeepsPool /\ pc[r] \in Reserving /\ s[r].source = "wallet"
      BY <1>1, TryWalletEffect DEF TryWallet, At, PoolInv, PoolSession
    <2>2. CASE Insufficient(r, s[r].leak)
      BY <2>1, <2>2, InsufficientStep, ReservingStep
    <2>3. CASE UNCHANGED s
      BY <2>1, <2>3, WalletSourceStep
    <2>. QED
      BY <1>1, <2>2, <2>3 DEF TryWallet
  <1>2. CASE ReadToken(r)
    <2>1. Effect(r) /\ KeepsPool /\ pc[r] \in Reserving /\ pc'[r] \in {"funding", "rejected", "take"}
      BY <1>2, ReadTokenEffect DEF ReadToken, At, Goto, IInv, TypeOK
    <2>. QED
      BY <2>1, ReservingStep
  <1>3. CASE DecreaseTokenQuota(r)
    <2>1. Effect(r) /\ KeepsPool /\ pc[r] \in Reserving /\ pc'[r] = "funding"
      BY <1>3, DecreaseTokenQuotaEffect DEF DecreaseTokenQuota, At, Goto, IInv, TypeOK
    <2>. QED
      BY <2>1, ReservingStep
  <1>4. CASE PreConsumeWallet(r)
    <2>1. Effect(r) /\ KeepsPool /\ s[r].source = "wallet"
      BY <1>4, PreConsumeWalletEffect DEF PreConsumeWallet
    <2>2. s'[r].source = "wallet"
      BY <1>4, <2>1, SessionNumbers DEF PreConsumeWallet, IInv, TypeOK, Sessions
    <2>. QED
      BY <2>1, <2>2, WalletSourceStep
  <1>5. CASE ReservationFails(r)
    <2>1. Effect(r) /\ pc[r] \in Reserving /\ pc'[r] \in {"abort", "rollback", "rejected"}
      BY <1>5, ReservationFailsEffect DEF ReservationFails, At, Goto, IInv, TypeOK
    <2>2. KeepsPool
      BY <1>5, FaultKeeps DEF ReservationFails, IInv
    <2>. QED
      BY <2>1, <2>2, ReservingStep
  <1>6. CASE RollbackToken(r)
    <2>1. Effect(r) /\ pc[r] \in Reserving
      BY <1>6, RollbackTokenEffect DEF RollbackToken, At
    <2>2. KeepsPool
      BY <1>6, FaultKeeps DEF RollbackToken, IInv
    <2>3. \/ \E leak : Insufficient(r, leak)
          \/ Goto(r, "rejected")
      BY <1>6 DEF RollbackToken
    <2>4. pc'[r] \in Reserving \cup {"rejected"} /\ (pc'[r] = "wallet" => s'[r].source = "wallet")
      BY <2>3, InsufficientStep DEF Goto, IInv, TypeOK
    <2>. QED
      BY <2>1, <2>2, <2>4, ReservingStep
  <1>. QED
    BY <1>1, <1>2, <1>3, <1>4, <1>5, <1>6

LEMMA PreConsumeUserSubscriptionPool ==
  ASSUME IInv, PoolInv, NEW r \in Requests, PreConsumeUserSubscription(r)
  PROVE PoolStep(r)
  <1>1. /\ pc[r] = "funding" /\ s[r].source = "subscription" /\ SubCharge(r) = 0
        /\ SubPhase(r) = "open"
    BY DEF PreConsumeUserSubscription, At, SubCharge, SubPhase, WalletPhase, Reserving
  <1>2. Effect(r) /\ s[r] \in Sessions /\ Amount(r) \in Nat /\ UNCHANGED budget
    BY PreConsumeUserSubscriptionEffect, SessionNumbers DEF IInv, PreConsumeUserSubscription
  <1>3. \A u \in Subs : MaybeReset(subs[u]) = subs[u]
    BY DEF MaybeReset, PoolInv, Quiet
  <1>4. ASSUME NEW payer \in Payers(Amount(r)),
               subs' = [u \in Subs |->
                          IF u > payer \/ ~subs[u].active THEN subs[u]
                          ELSE IF u < payer THEN MaybeReset(subs[u])
                          ELSE [MaybeReset(subs[u]) EXCEPT !.used = @ + Amount(r)]],
               record' = [record EXCEPT ![r] = "consumed"],
               s' = [s EXCEPT ![r].pre = Amount(r), ![r].sub = payer],
               Goto(r, "relaying")
        PROVE  PoolStep(r)
    <2>1. payer \in Subs /\ subs[payer].active
      BY DEF Payers, CanPay
    <2>2. /\ pc'[r] = "relaying" /\ s'[r].pre = Amount(r) /\ s'[r].sub = payer
          /\ s'[r].source = "subscription"
          /\ record'[r] = "consumed" /\ \A q \in Requests \ {r} : record'[q] = record[q]
      BY <1>1, <1>2, <1>4 DEF IInv, TypeOK, Sessions, Goto
    <2>3. SubPhase(r)' = "held" /\ SubCharge(r)' = Amount(r)
      BY <2>2 DEF SubPhase, WalletPhase, SubCharge, Reserving, Holding
    <2>4. ASSUME NEW u \in Subs
          PROVE /\ subs'[u].used = IF u = payer THEN subs[u].used + Amount(r) ELSE subs[u].used
                /\ subs'[u].due = subs[u].due
      <3>1. subs[u] \in [used : Nat, due : BOOLEAN, active : BOOLEAN]
        BY DEF IInv, TypeOK
      <3>2. u \in Int /\ payer \in Int
        BY <2>1 DEF Subs
      <3>3. CASE u = payer
        <4>1. subs'[u] = [subs[u] EXCEPT !.used = @ + Amount(r)]
          BY <1>3, <1>4, <2>1, <3>2, <3>3
        <4>. QED
          BY <3>1, <3>3, <4>1
      <3>4. CASE u # payer
        BY <1>3, <1>4, <3>2, <3>4
      <3>. QED
        BY <3>3, <3>4
    <2>5. Quiet'
      BY <1>2, <2>4 DEF Quiet, PoolInv
    <2>6. PoolSession(r)'
      BY <2>1, <2>2 DEF PoolSession
    <2>7. Follows(r, payer)
      <3>1. subs[payer].used \in Nat
        BY <2>1 DEF IInv, TypeOK
      <3>. QED
        BY <1>1, <1>2, <2>1, <2>2, <2>3, <2>4, <3>1 DEF Follows
    <2>8. Moves(SubPhase(r), SubCharge(r), SubPhase(r)', SubCharge(r)')
      BY <1>1, <2>3 DEF Moves
    <2>. QED
      BY <2>1, <2>2, <2>5, <2>6, <2>7, <2>8 DEF PoolStep
  <1>5. ASSUME Goto(r, "rollback"), UNCHANGED <<subs, record, s>>
        PROVE  PoolStep(r)
    <2>1. pc[r] \in Reserving /\ pc'[r] = "rollback" /\ pc'[r] \in Reserving /\ KeepsPool
      BY <1>1, <1>2, <1>5 DEF IInv, TypeOK, Goto, Reserving, KeepsPool
    <2>. QED
      BY <1>2, <2>1, ReservingStep
  <1>. QED
    BY <1>4, <1>5 DEF PreConsumeUserSubscription

\* The steps of the relay, of Settle and of Refund that leave the subscriptions alone.
LEMMA RelayPool ==
  ASSUME IInv, PoolInv, NEW r \in Requests,
         \/ RelayFails(r) \/ (\E n \in Actuals : RelaySucceeds(r, n)) \/ SettleExact(r)
         \/ SettleToken(r) \/ RefundToken(r) \/ FairUseRefund(r)
  PROVE PoolStep(r)
  <1>1. s[r] \in Sessions /\ PoolSession(r) /\ SessionInv(r)
    BY SessionNumbers DEF IInv, PoolInv
  <1>2. Effect(r)
    BY RelayFailsEffect, RelaySucceedsEffect, SettleExactEffect, SettleTokenEffect,
       RefundTokenEffect, FairUseRefundEffect
  <1>3. KeepsPool
    BY FaultKeeps DEF IInv, KeepsPool, RelayFails, RelaySucceeds, SettleExact, SettleToken,
       RefundToken, FairUseRefund
  <1>. DEFINE Same == /\ s'[r].source = s[r].source /\ s'[r].sub = s[r].sub
                      /\ s'[r].pre = s[r].pre /\ s'[r].kept = s[r].kept
  <1>4. CASE RelayFails(r)
    <2>1. /\ pc[r] = "relaying" /\ Same
          /\ \/ pc'[r] = "refundFunding"
             \/ pc'[r] = "failed" /\ ~NeedsRefund(r)
      BY <1>1, <1>4 DEF RelayFails, At, Goto, IInv, TypeOK, Sessions
    <2>2. pc'[r] = "failed" /\ s[r].source = "subscription" => s[r].pre = 0 /\ s[r].kept = 0
      BY <1>1, <2>1 DEF NeedsRefund, SessionInv, Sessions
    <2>3. SubCharge(r)' = SubCharge(r)
      BY <2>1, <2>2 DEF SubCharge, SubPhase, WalletPhase, Reserving, Holding
    <2>4. PoolSession(r)'
      BY <1>1, <1>3, <2>1 DEF PoolSession, KeepsPool, Reserving
    <2>. QED
      BY <1>2, <1>3, <2>1, <2>3, <2>4, KeepStep
  <1>5. CASE \E n \in Actuals : RelaySucceeds(r, n)
    <2>1. pc[r] = "relaying" /\ pc'[r] = "settling" /\ Same
      BY <1>1, <1>5 DEF RelaySucceeds, At, Goto, IInv, TypeOK, Sessions
    <2>2. SubCharge(r)' = SubCharge(r)
      BY <2>1 DEF SubCharge, SubPhase, WalletPhase, Reserving, Holding
    <2>3. PoolSession(r)'
      BY <1>1, <1>3, <2>1 DEF PoolSession, KeepsPool, Reserving
    <2>. QED
      BY <1>2, <1>3, <2>1, <2>2, <2>3, KeepStep
  <1>6. CASE SettleExact(r)
    <2>1. /\ pc[r] = "settling" /\ pc'[r] = "settled" /\ Same /\ s'[r].actual = s[r].actual
          /\ s[r].actual = s[r].pre
      BY <1>1, <1>6, NothingToSettle DEF SettleExact, At, Goto, IInv, TypeOK, Sessions
    <2>2. SubCharge(r)' = SubCharge(r)
      BY <2>1 DEF SubCharge, SubPhase, WalletPhase, Reserving, Holding
    <2>3. PoolSession(r)'
      BY <1>1, <1>3, <2>1 DEF PoolSession, KeepsPool, Reserving
    <2>. QED
      BY <1>2, <1>3, <2>1, <2>2, <2>3, KeepStep
  <1>7. CASE SettleToken(r)
    <2>1. pc[r] = "settleToken" /\ pc'[r] = "settled" /\ Same /\ s'[r].actual = s[r].actual
      BY <1>1, <1>7 DEF SettleToken, At, Goto, IInv, TypeOK, Sessions
    <2>2. SubCharge(r)' = SubCharge(r)
      BY <2>1 DEF SubCharge, SubPhase, WalletPhase, Reserving, Holding
    <2>3. PoolSession(r)'
      BY <1>1, <1>3, <2>1 DEF PoolSession, KeepsPool, Reserving
    <2>. QED
      BY <1>2, <1>3, <2>1, <2>2, <2>3, KeepStep
  <1>8. CASE RefundToken(r)
    <2>1. pc[r] = "refundToken" /\ pc'[r] = "failed" /\ Same
      BY <1>1, <1>8 DEF RefundToken, At, Goto, IInv, TypeOK, Sessions
    <2>2. SubCharge(r)' = SubCharge(r)
      BY <2>1 DEF SubCharge, SubPhase, WalletPhase, Reserving, Holding
    <2>3. PoolSession(r)'
      BY <1>1, <1>3, <2>1 DEF PoolSession, KeepsPool, Reserving
    <2>. QED
      BY <1>2, <1>3, <2>1, <2>2, <2>3, KeepStep
  <1>9. CASE FairUseRefund(r)
    <2>1. pc[r] = "unsettled" /\ pc'[r] = "refundFunding" /\ Same
      BY <1>1, <1>9 DEF FairUseRefund, NeedsRefund, SessionInv, At, Goto, IInv, TypeOK, Sessions
    <2>2. SubCharge(r)' = SubCharge(r)
      BY <2>1 DEF SubCharge, SubPhase, WalletPhase, Reserving, Holding
    <2>3. PoolSession(r)'
      BY <1>1, <1>3, <2>1 DEF PoolSession, KeepsPool, Reserving
    <2>. QED
      BY <1>2, <1>3, <2>1, <2>2, <2>3, KeepStep
  <1>. QED
    BY <1>4, <1>5, <1>6, <1>7, <1>8, <1>9

LEMMA WalletFundingPool ==
  ASSUME IInv, PoolInv, NEW r \in Requests, SettleWallet(r) \/ RefundWallet(r)
  PROVE PoolStep(r)
  <1>1. Effect(r) /\ s[r] \in Sessions /\ s[r].source = "wallet"
    BY SettleWalletEffect, RefundWalletEffect, SessionNumbers DEF IInv, SettleWallet, RefundWallet
  <1>2. KeepsPool
    BY FaultKeeps DEF IInv, KeepsPool, SettleWallet, RefundWallet
  <1>3. s'[r].source = "wallet"
    BY <1>1 DEF SettleWallet, RefundWallet, FundingSettled, IInv, TypeOK, Sessions
  <1>. QED
    BY <1>1, <1>2, <1>3, WalletSourceStep

\* The usage covers what is given back, so the clamp at zero is never needed.
LEMMA NoClamp ==
  ASSUME TypeOK, PoolInv, NEW r \in Requests, s[r].sub \in Subs,
         NEW delta \in Int, delta + SubCharge(r) >= 0
  PROVE UsedAfter(s[r].sub, delta) = subs[s[r].sub].used + delta
  <1>1. SubCharge(r) <= subs[s[r].sub].used /\ SubCharge(r) \in Nat
    BY UsageCoversCharge, ChargeType
  <1>2. subs[s[r].sub].used \in Nat
    BY DEF TypeOK
  <1>. QED
    BY <1>1, <1>2 DEF UsedAfter

\* A transaction that only changes the usage of the request's subscription.
LEMMA UsageStep ==
  ASSUME IInv, PoolInv, NEW r \in Requests, s[r].sub \in Subs, s'[r].sub = s[r].sub,
         NEW delta \in Int, delta = SubCharge(r)' - SubCharge(r), SubCharge(r)' \in Nat,
         subs' = [subs EXCEPT ![s[r].sub].used = UsedAfter(s[r].sub, delta)]
  PROVE Follows(r, s[r].sub) /\ \A u \in Subs : subs'[u].due = subs[u].due
  <1>1. SubCharge(r) \in Nat
    BY ChargeType DEF IInv
  <1>2. UsedAfter(s[r].sub, delta) = subs[s[r].sub].used + delta
    BY <1>1, NoClamp DEF IInv
  <1>3. ASSUME NEW u \in Subs
        PROVE /\ subs'[u].used = IF u = s[r].sub THEN UsedAfter(s[r].sub, delta) ELSE subs[u].used
              /\ subs'[u].due = subs[u].due
    BY DEF IInv, TypeOK
  <1>4. subs[s[r].sub].used \in Nat
    BY DEF IInv, TypeOK
  <1>. QED
    BY <1>1, <1>2, <1>3, <1>4 DEF Follows

LEMMA SettleSubscriptionPool ==
  ASSUME IInv, PoolInv, NEW r \in Requests, SettleSubscription(r)
  PROVE PoolStep(r)
  <1>1. s[r] \in Sessions /\ PoolSession(r) /\ SessionInv(r) /\ Effect(r)
    BY SessionNumbers, SettleSubscriptionEffect DEF IInv, PoolInv
  <1>2. /\ pc[r] = "settling" /\ s[r].source = "subscription" /\ s[r].sub \in Subs
        /\ s[r].pre \in Nat /\ s[r].actual \in Nat
    BY <1>1 DEF SettleSubscription, At, PoolSession, Reserving, Sessions
  <1>3. SubCharge(r) = s[r].pre /\ SubPhase(r) = "held"
    BY <1>2 DEF SubCharge, SubPhase, WalletPhase, Reserving, Holding
  <1>4. ASSUME subs' = [subs EXCEPT ![s[r].sub].used = UsedAfter(s[r].sub, Delta(r))],
               FundingSettled(r), UNCHANGED budget
        PROVE  PoolStep(r)
    <2>1. /\ pc'[r] \in {"settled", "settleToken"} /\ s'[r].source = "subscription"
          /\ s'[r].sub = s[r].sub /\ s'[r].actual = s[r].actual
      BY <1>1, <1>2, <1>4 DEF FundingSettled, Goto, IInv, TypeOK, Sessions
    <2>2. SubCharge(r)' = s[r].actual /\ SubPhase(r)' = "closed"
      BY <2>1 DEF SubCharge, SubPhase, WalletPhase, Reserving, Holding
    <2>3. Delta(r) \in Int /\ Delta(r) = SubCharge(r)' - SubCharge(r)
      BY <1>2, <1>3, <2>2 DEF Delta
    <2>4. Follows(r, s[r].sub) /\ \A u \in Subs : subs'[u].due = subs[u].due
      BY <1>2, <1>4, <2>1, <2>2, <2>3, UsageStep
    <2>5. Quiet'
      BY <1>4, <2>4 DEF Quiet, PoolInv
    <2>6. PoolSession(r)' /\ UNCHANGED record
      BY <1>2, <2>1 DEF PoolSession, SettleSubscription
    <2>7. Moves(SubPhase(r), SubCharge(r), SubPhase(r)', SubCharge(r)')
      BY <1>3, <2>2 DEF Moves
    <2>. QED
      BY <1>2, <2>4, <2>5, <2>6, <2>7 DEF PoolStep
  <1>5. ASSUME Goto(r, "unsettled"), UNCHANGED <<subs, s>>, UNCHANGED budget \/ Fault
        PROVE  PoolStep(r)
    <2>1. KeepsPool
      BY <1>5, FaultKeeps DEF IInv, KeepsPool, SettleSubscription
    <2>2. pc'[r] = "unsettled" /\ UNCHANGED s
      BY <1>5 DEF Goto, IInv, TypeOK
    <2>3. SubCharge(r)' = SubCharge(r)
      BY <1>2, <2>2 DEF SubCharge, SubPhase, WalletPhase, Reserving, Holding
    <2>4. PoolSession(r)'
      BY <1>1, <1>2, <2>1, <2>2 DEF PoolSession, KeepsPool, Reserving
    <2>. QED
      BY <1>1, <1>2, <2>1, <2>2, <2>3, <2>4, KeepStep
  <1>. QED
    BY <1>4, <1>5 DEF SettleSubscription

LEMMA RefundSubscriptionPool ==
  ASSUME IInv, PoolInv, NEW r \in Requests, RefundSubscription(r)
  PROVE PoolStep(r)
  <1>1. s[r] \in Sessions /\ PoolSession(r) /\ SessionInv(r) /\ Effect(r)
    BY SessionNumbers, RefundSubscriptionEffect DEF IInv, PoolInv
  <1>2. /\ pc[r] = "refundFunding" /\ s[r].source = "subscription" /\ s[r].sub \in Subs
        /\ s[r].pre \in Nat /\ s[r].kept = 0 /\ record[r] = "consumed"
    BY <1>1 DEF RefundSubscription, At, PoolSession, SessionInv, Reserving, Sessions
  <1>3. SubCharge(r) = s[r].pre /\ SubPhase(r) = "held" /\ UNCHANGED record
    BY <1>2 DEF SubCharge, SubPhase, WalletPhase, Reserving, Holding, RefundSubscription
  <1>4. ASSUME subs' = [subs EXCEPT ![s[r].sub].used = UsedAfter(s[r].sub, -s[r].pre)],
               Goto(r, "refundRecord"), UNCHANGED <<s, budget>>
        PROVE  PoolStep(r)
    <2>1. pc'[r] = "refundRecord" /\ s'[r] = s[r]
      BY <1>4 DEF Goto, IInv, TypeOK
    <2>2. SubCharge(r)' = 0 /\ SubPhase(r)' = "closed"
      BY <1>2, <2>1 DEF SubCharge, SubPhase, WalletPhase, Reserving, Holding
    <2>3. PICK delta \in Int : delta = -s[r].pre /\ delta = SubCharge(r)' - SubCharge(r)
      BY <1>2, <1>3, <2>2
    <2>4. Follows(r, s[r].sub) /\ \A u \in Subs : subs'[u].due = subs[u].due
      <3>1. subs' = [subs EXCEPT ![s[r].sub].used = UsedAfter(s[r].sub, delta)]
        BY <1>4, <2>3
      <3>2. s'[r].sub = s[r].sub /\ SubCharge(r)' \in Nat
        BY <2>1, <2>2
      <3>. QED
        BY <1>2, <2>3, <3>1, <3>2, UsageStep
    <2>5. Quiet'
      BY <1>4, <2>4 DEF Quiet, PoolInv
    <2>6. PoolSession(r)'
      BY <1>2, <2>1 DEF PoolSession
    <2>7. Moves(SubPhase(r), SubCharge(r), SubPhase(r)', SubCharge(r)')
      BY <1>3, <2>2 DEF Moves
    <2>. QED
      BY <1>2, <1>3, <2>4, <2>5, <2>6, <2>7 DEF PoolStep
  <1>5. ASSUME Fault, UNCHANGED subs,
               \/ s' = [s EXCEPT ![r].tries = @ + 1] /\ UNCHANGED pc
               \/ s' = [s EXCEPT ![r].kept = s[r].pre] /\ Goto(r, "refundToken")
        PROVE  PoolStep(r)
    <2>1. KeepsPool
      BY <1>3, <1>5, FaultKeeps DEF IInv, KeepsPool
    <2>2. /\ s'[r].source = s[r].source /\ s'[r].sub = s[r].sub /\ s'[r].pre = s[r].pre
          /\ \/ pc'[r] = "refundFunding"
             \/ pc'[r] = "refundToken" /\ s'[r].kept = s[r].pre
      BY <1>1, <1>2, <1>5 DEF Goto, IInv, TypeOK, Sessions
    <2>3. SubCharge(r)' = SubCharge(r)
      BY <1>2, <1>3, <2>2 DEF SubCharge, SubPhase, WalletPhase, Reserving, Holding
    <2>4. PoolSession(r)'
      BY <1>1, <1>2, <2>1, <2>2 DEF PoolSession, KeepsPool, Reserving
    <2>. QED
      BY <1>1, <1>2, <2>1, <2>2, <2>3, <2>4, KeepStep
  <1>. QED
    BY <1>2, <1>4, <1>5 DEF RefundSubscription

LEMMA MarkRefundedPool ==
  ASSUME IInv, PoolInv, NEW r \in Requests, MarkRefunded(r)
  PROVE PoolStep(r)
  <1>1. PoolSession(r) /\ SessionInv(r)
    BY DEF IInv, PoolInv
  <1>2. /\ pc[r] = "refundRecord" /\ s[r].source = "subscription" /\ s[r].sub \in Subs
        /\ s[r].kept = 0 /\ UNCHANGED subs
    BY <1>1 DEF MarkRefunded, At, PoolSession, SessionInv, Reserving
  <1>3. /\ record' = [record EXCEPT ![r] = "refunded"] /\ Goto(r, "refundToken")
        /\ UNCHANGED <<s, budget>>
    BY DEF MarkRefunded, PoolInv, Quiet
  <1>4. /\ pc'[r] = "refundToken" /\ s'[r] = s[r]
        /\ \A q \in Requests \ {r} : record'[q] = record[q]
    BY <1>3 DEF Goto, IInv, TypeOK
  <1>5. /\ SubCharge(r) = 0 /\ SubCharge(r)' = 0
        /\ SubPhase(r) = "closed" /\ SubPhase(r)' = "closed"
    BY <1>2, <1>4 DEF SubCharge, SubPhase, WalletPhase, Reserving, Holding
  <1>6. PoolSession(r)' /\ Quiet'
    BY <1>2, <1>3, <1>4 DEF PoolSession, PoolInv, Quiet
  <1>7. Rests(r)
    BY <1>2, <1>4, <1>5 DEF Rests
  <1>. QED
    BY <1>4, <1>5, <1>6, <1>7 DEF PoolStep, Moves

-----------------------------------------------------------------------------
(* Every step, and what follows for the sums. *)

LEMMA StepPool ==
  ASSUME IInv, PoolInv, [Next]_vars
  PROVE \/ \E r \in Requests : Effect(r) /\ PoolStep(r)
        \/ UNCHANGED <<subs, record, pc, s, budget>>
  <1>1. ASSUME NEW r \in Requests, Step(r) PROVE Effect(r) /\ PoolStep(r)
    <2>1. CASE \/ TryWallet(r) \/ ReadToken(r) \/ DecreaseTokenQuota(r)
               \/ PreConsumeWallet(r) \/ ReservationFails(r) \/ RollbackToken(r)
      BY <2>1, ReservationPool, TryWalletEffect, ReadTokenEffect, DecreaseTokenQuotaEffect,
         PreConsumeWalletEffect, ReservationFailsEffect, RollbackTokenEffect
    <2>2. CASE PreConsumeUserSubscription(r)
      BY <2>2, PreConsumeUserSubscriptionPool, PreConsumeUserSubscriptionEffect
    <2>3. CASE \/ RelayFails(r) \/ (\E n \in Actuals : RelaySucceeds(r, n)) \/ SettleExact(r)
               \/ SettleToken(r) \/ RefundToken(r)
      BY <2>3, RelayPool, RelayFailsEffect, RelaySucceedsEffect, SettleExactEffect,
         SettleTokenEffect, RefundTokenEffect
    <2>4. CASE SettleWallet(r) \/ RefundWallet(r)
      BY <2>4, WalletFundingPool, SettleWalletEffect, RefundWalletEffect
    <2>5. CASE SettleSubscription(r) \/ RefundSubscription(r) \/ MarkRefunded(r)
      BY <2>5, SettleSubscriptionPool, RefundSubscriptionPool, MarkRefundedPool,
         SettleSubscriptionEffect, RefundSubscriptionEffect, MarkRefundedEffect
    <2>. QED
      BY <1>1, <2>1, <2>2, <2>3, <2>4, <2>5 DEF Step
  <1>2. ASSUME NEW r \in Requests, NEW pref \in Preferences, NEW n \in Estimates,
               NewBillingSession(r, pref, n)
        PROVE Effect(r) /\ PoolStep(r)
    BY <1>2, NewBillingSessionEffect, NewBillingSessionPool
  <1>3. ASSUME NEW r \in Requests, FairUseRefund(r) PROVE Effect(r) /\ PoolStep(r)
    BY <1>3, FairUseRefundEffect, RelayPool
  <1>4. ASSUME NEW r \in Requests, Crash(r) PROVE UNCHANGED <<subs, record, pc, s, budget>>
    BY <1>4 DEF Crash
  <1>5. ASSUME NEW u \in Subs, PeriodEnds(u) \/ ResetDueSubscriptions(u) \/ SubscriptionEnds(u)
        PROVE FALSE
    BY <1>5 DEF PeriodEnds, ResetDueSubscriptions, SubscriptionEnds, PoolInv, Quiet
  <1>6. CASE UNCHANGED vars
    BY <1>6 DEF vars
  <1>. QED
    BY <1>1, <1>2, <1>3, <1>4, <1>5, <1>6 DEF Next

LEMMA ChargesFollow ==
  ASSUME IInv, IInv', PoolInv, NEW r \in Requests, Frame(r), PoolStep(r), NEW u \in Subs
  PROVE subs'[u].used = SumOver(Requests, ChargeOn(u)')
  <1>. DEFINE f == ChargeOn(u)  g == ChargeOn(u)'
  <1>1. /\ NatOn(Requests, f) /\ NatOn(Requests, g) /\ IsFiniteSet(Requests)
        /\ subs[u].used = SumOver(Requests, f)
    <2>1. TypeOK /\ TypeOK'
      BY DEF IInv
    <2>2. NatOn(Requests, g)
      BY <2>1, TypeNext
    <2>. QED
      BY <2>1, <2>2, ChargesType, BillingAssumption DEF PoolInv
  <1>2. \A q \in Requests \ {r} : g[q] = f[q]
    BY DEF Frame, ChargeOn, SubCharge, SubPhase, WalletPhase
  <1>3. /\ f[r] = IF s[r].sub = u THEN SubCharge(r) ELSE 0
        /\ g[r] = IF s'[r].sub = u THEN SubCharge(r)' ELSE 0
    BY DEF ChargeOn
  <1>. HIDE DEF f, g
  <1>4. SumOver(Requests, g) = SumOver(Requests, f) + g[r] - f[r]
    BY <1>1, <1>2, SumFollows
  <1>5. SumOver(Requests, f) \in Nat /\ SubCharge(r) \in Nat /\ SubCharge(r)' \in Nat
    <2>1. TypeOK /\ TypeOK'
      BY DEF IInv
    <2>. QED
      BY <1>1, <2>1, SumType, ChargeType, TypeNext
  <1>6. ASSUME Rests(r) PROVE subs'[u].used = SumOver(Requests, g)
    BY <1>1, <1>3, <1>4, <1>5, <1>6 DEF Rests
  <1>7. ASSUME NEW v \in Subs, Follows(r, v) PROVE subs'[u].used = SumOver(Requests, g)
    BY <1>1, <1>3, <1>4, <1>5, <1>7 DEF Follows
  <1>8. subs'[u].used = SumOver(Requests, g)
    BY <1>6, <1>7 DEF PoolStep
  <1>. QED
    BY <1>8 DEF g

LEMMA NextPoolInv ==
  ASSUME IInv, PoolInv, [Next]_vars
  PROVE PoolInv'
  <1>1. IInv'
    BY NextIInv
  <1>2. ASSUME NEW r \in Requests, Effect(r), PoolStep(r) PROVE PoolInv'
    <2>1. Frame(r) /\ Quiet'
      BY <1>2 DEF Effect, PoolStep
    <2>2. ASSUME NEW q \in Requests PROVE PoolSession(q)'
      <3>1. CASE q = r
        BY <1>2, <3>1 DEF PoolStep
      <3>2. CASE q # r
        <4>1. pc'[q] = pc[q] /\ s'[q] = s[q] /\ record'[q] = record[q] /\ PoolSession(q)
          BY <1>2, <2>1, <3>2 DEF Frame, PoolStep, PoolInv
        <4>. QED
          BY <4>1 DEF PoolSession
      <3>. QED
        BY <3>1, <3>2
    <2>3. \A u \in Subs : subs'[u].used = SumOver(Requests, ChargeOn(u)')
      BY <1>1, <1>2, <2>1, ChargesFollow
    <2>. QED
      BY <2>1, <2>2, <2>3 DEF PoolInv
  <1>3. CASE UNCHANGED <<subs, record, pc, s, budget>>
    BY <1>3 DEF PoolInv, Quiet, PoolSession, ChargeOn, SubCharge, SubPhase, WalletPhase
  <1>. QED
    BY <1>2, <1>3, StepPool

LEMMA UsedFollows ==
  ASSUME TypeOK, TypeOK', NEW r \in Requests, PoolStep(r)
  PROVE SumOver(Subs, Used') = SumOver(Subs, Used) + SubCharge(r)' - SubCharge(r)
  <1>1. NatOn(Subs, Used) /\ NatOn(Subs, Used') /\ IsFiniteSet(Subs)
    BY UsedType, SubsFinite, TypeNext
  <1>2. SumOver(Subs, Used) \in Nat /\ SubCharge(r) \in Nat /\ SubCharge(r)' \in Nat
    BY <1>1, SumType, ChargeType, TypeNext
  <1>3. \A u \in Subs : Used[u] = subs[u].used /\ Used'[u] = subs'[u].used
    BY DEF Used
  <1>4. CASE Rests(r)
    <2>1. SumOver(Subs, Used') = SumOver(Subs, Used)
      BY <1>3, <1>4, SumSame DEF Rests
    <2>. QED
      BY <1>2, <1>4, <2>1 DEF Rests
  <1>5. ASSUME NEW v \in Subs, Follows(r, v)
        PROVE SumOver(Subs, Used') = SumOver(Subs, Used) + SubCharge(r)' - SubCharge(r)
    <2>1. \A u \in Subs \ {v} : Used'[u] = Used[u]
      BY <1>3, <1>5 DEF Follows
    <2>2. SumOver(Subs, Used') = SumOver(Subs, Used) + Used'[v] - Used[v]
      BY <1>1, <2>1, SumFollows
    <2>3. Used[v] \in Nat /\ Used'[v] = Used[v] + SubCharge(r)' - SubCharge(r)
      BY <1>1, <1>3, <1>5 DEF Follows, NatOn
    <2>. QED
      BY <1>2, <2>2, <2>3
  <1>. QED
    BY <1>4, <1>5 DEF PoolStep

LEMMA PoolNext ==
  ASSUME IInv, PoolInv, [Next]_vars
  PROVE [Pool!Next]_(Pool!vars)
  <1>. DEFINE charge == [r \in Requests |-> SubCharge(r)]
              phase == [r \in Requests |-> SubPhase(r)]
              balance == NumSubs * SubTotal - SumOver(Subs, [u \in Subs |-> subs[u].used])
  <1>1. TypeOK /\ TypeOK'
    BY NextIInv DEF IInv
  <1>2. ASSUME NEW r \in Requests, Effect(r), PoolStep(r) PROVE [Pool!Next]_(Pool!vars)
    <2>1. \A q \in Requests \ {r} : charge'[q] = charge[q] /\ phase'[q] = phase[q]
      BY <1>2 DEF Effect, Frame, SubCharge, SubPhase, WalletPhase
    <2>2. /\ charge[r] = SubCharge(r) /\ charge'[r] = SubCharge(r)'
          /\ phase[r] = SubPhase(r) /\ phase'[r] = SubPhase(r)'
      OBVIOUS
    <2>3. /\ balance = NumSubs * SubTotal - SumOver(Subs, Used)
          /\ balance' = NumSubs * SubTotal - SumOver(Subs, Used')
      BY DEF Used
    <2>4. SubCharge(r) \in Nat /\ SubCharge(r)' \in Nat /\ SumOver(Subs, Used) \in Nat
          /\ NumSubs * SubTotal \in Int
      BY <1>1, ChargeType, TypeNext, UsedType, SubsFinite, SumType, BillingAssumption
    <2>5. balance' = balance + charge[r] - charge'[r]
      <3>1. SumOver(Subs, Used') = SumOver(Subs, Used) + SubCharge(r)' - SubCharge(r)
        BY <1>1, <1>2, UsedFollows
      <3>. HIDE DEF charge, balance
      <3>. QED
        BY <2>2, <2>3, <2>4, <3>1
    <2>6. Pool!Move(r)
      BY <2>1, <2>5 DEF Pool!Move
    <2>7. CASE phase[r] # "closed" /\ phase'[r] # phase[r]
      <3>1. phase[r] \in {"open", "held"} /\ phase'[r] \in {"open", "held", "closed"}
        BY <2>2, <2>7 DEF SubPhase, WalletPhase
      <3>2. Pool!Hold(r) \/ Pool!Release(r) \/ Pool!Close(r)
        BY <2>6, <2>7, <3>1 DEF Pool!Hold, Pool!Release, Pool!Close
      <3>. QED
        BY <3>2 DEF Pool!Next
    <2>8. CASE phase'[r] = phase[r] /\ charge'[r] = charge[r]
      <3>1. charge' = charge /\ phase' = phase
        BY <2>1, <2>8
      <3>2. balance' = balance
        <4>1. balance \in Int /\ charge[r] \in Int
          BY <2>2, <2>3, <2>4
        <4>. HIDE DEF charge, balance
        <4>. QED
          BY <2>5, <2>8, <4>1
      <3>. QED
        BY <3>1, <3>2 DEF Pool!vars
    <2>. QED
      BY <1>2, <2>2, <2>7, <2>8 DEF PoolStep, Moves
  <1>3. CASE UNCHANGED <<subs, record, pc, s, budget>>
    BY <1>3 DEF Pool!vars, SubCharge, SubPhase, WalletPhase
  <1>. QED
    BY <1>2, <1>3, StepPool

LEMMA InitPool ==
  ASSUME MaxResets = 0, MaxLostCommits = 0, Init
  PROVE PoolInv /\ Pool!Init
  <1>1. \A r \in Requests : pc[r] = "idle" /\ s[r] = NoSession /\ SubCharge(r) = 0
    BY DEF Init, SubCharge, Reserving
  <1>2. Quiet
    BY DEF Init, Quiet
  <1>3. \A r \in Requests : PoolSession(r)
    BY <1>1 DEF PoolSession, NoSession
  <1>4. ASSUME NEW u \in Subs PROVE subs[u].used = SumOver(Requests, ChargeOn(u))
    <2>1. \A r \in Requests : ChargeOn(u)[r] = 0
      BY <1>1 DEF ChargeOn
    <2>2. SumOver(Requests, ChargeOn(u)) = 0
      BY <2>1, SumZero
    <2>. QED
      BY <2>2 DEF Init
  <1>5. SumOver(Subs, [u \in Subs |-> subs[u].used]) = 0
    <2>. DEFINE f == [u \in Subs |-> subs[u].used]
    <2>1. \A u \in Subs : f[u] = 0
      BY DEF Init
    <2>. HIDE DEF f
    <2>2. SumOver(Subs, f) = 0
      BY <2>1, SumZero
    <2>. QED
      BY <2>2 DEF f
  <1>6. NumSubs * SubTotal - 0 = NumSubs * SubTotal
    BY BillingAssumption
  <1>7. Pool!Init
    BY <1>1, <1>5, <1>6 DEF Pool!Init, Init, SubPhase, WalletPhase, Reserving
  <1>. QED
    BY <1>2, <1>3, <1>4, <1>7 DEF PoolInv

-----------------------------------------------------------------------------
\* Within a quota period, and as long as no commit of RefundSubscriptionPreConsume
\* is reported as failed, BillingSession implements ChargeLedger on the
\* subscriptions: PreConsumeUserSubscription, PostConsumeUserSubscriptionDelta and
\* the refund move amount_used only together with the charge of their own request,
\* and a refunded or settled request is never charged or repaid again.
THEOREM SubscriptionsAreCharged ==
  ASSUME MaxResets = 0, MaxLostCommits = 0
  PROVE Spec => SubscriptionsCharged
  <1>1. Init => PoolInv /\ Pool!Init
    BY InitPool
  <1>2. IInv /\ PoolInv /\ [Next]_vars => PoolInv' /\ [Pool!Next]_(Pool!vars)
    BY NextPoolInv, PoolNext
  <1>. QED
    BY <1>1, <1>2, Inductive, PTL DEF Spec, SubscriptionsCharged, Pool!Spec

\* Under the same conditions RefundSubscriptionPreConsume is idempotent in effect:
\* the usage of a subscription always covers what its running requests reserved.
\* Run billing_refund_twice shows that one lost commit is enough to break this; no
\* statement that fails, crash or interleaving does.
THEOREM ReservationsAreCovered ==
  ASSUME MaxResets = 0, MaxLostCommits = 0
  PROVE Spec => []UsageCoversReservations
  <1>1. Init => PoolInv
    BY InitPool
  <1>2. IInv /\ PoolInv /\ [Next]_vars => PoolInv'
    BY NextPoolInv
  <1>3. IInv /\ PoolInv => UsageCoversReservations
    <2>. SUFFICES ASSUME IInv, PoolInv, NEW u \in Subs
                  PROVE subs[u].used >= SumOver({r \in Requests : s[r].sub = u /\ ~s[r].refunded},
                                                [r \in Requests |-> SubCharge(r)])
      BY DEF UsageCoversReservations
    <2>. DEFINE T == {r \in Requests : s[r].sub = u /\ ~s[r].refunded}
                f == [r \in Requests |-> SubCharge(r)]
                g == [r \in Requests |-> IF r \in T THEN SubCharge(r) ELSE 0]
    <2>1. /\ NatOn(T, f) /\ NatOn(Requests, g) /\ NatOn(Requests, ChargeOn(u))
          /\ IsFiniteSet(Requests)
      BY ChargeType, ChargesType, BillingAssumption DEF NatOn, IInv
    <2>2. /\ T \in SUBSET Requests
          /\ \A r \in T : g[r] = f[r]
          /\ \A r \in Requests \ T : g[r] = 0
      OBVIOUS
    <2>3. \A r \in Requests : g[r] <= ChargeOn(u)[r]
      BY ChargeType DEF ChargeOn, IInv
    <2>. HIDE DEF T, f, g
    <2>4. SumOver(T, f) = SumOver(Requests, g)
      BY <2>1, <2>2, SumMask
    <2>5. SumOver(Requests, g) <= SumOver(Requests, ChargeOn(u))
      BY <2>1, <2>3, SumMonotone
    <2>6. subs[u].used = SumOver(Requests, ChargeOn(u))
      BY DEF PoolInv
    <2>7. SumOver(Requests, g) \in Nat /\ SumOver(Requests, ChargeOn(u)) \in Nat
      BY <2>1, SumType
    <2>8. subs[u].used >= SumOver(T, f)
      BY <2>4, <2>5, <2>6, <2>7
    <2>. QED
      BY <2>8 DEF T, f
  <1>. QED
    BY <1>1, <1>2, <1>3, Inductive, PTL DEF Spec
=============================================================================
