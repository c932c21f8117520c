--------------------------- MODULE BillingSession ---------------------------
(***************************************************************************)
(* Billing of concurrent API requests of one user with one limited token:  *)
(* service/billing_session.go, service/billing.go, the funding sources of  *)
(* service/funding_source.go, PreConsumeTokenQuota, the subscription pool  *)
(* of model/subscription.go, and the part of controller/relay.go that      *)
(* drives them.                                                            *)
(*                                                                         *)
(* A step is one database transaction or one decision of the handler; two  *)
(* requests interleave between any two of them. The wallet is its total    *)
(* here (its promotional part and its lots are module CreditLots). Retries *)
(* of the relay on other channels do not touch the session and are left    *)
(* out; so are the charges that a realtime connection makes beside it.     *)
(***************************************************************************)
EXTENDS Integers, FiniteSets, FiniteSums

CONSTANTS
  Requests,
  Playground,      \* the requests made from the playground: no token
  Preferences,     \* billing preferences users choose from
  Estimates,       \* quota a request may reserve
  Actuals,         \* quota a request may turn out to cost
  InitialQuota,    \* the wallet
  InitialToken,    \* remain_quota of the token
  TrustQuota,      \* common.GetTrustQuota
  NumSubs,         \* subscriptions, by end time
  SubTotal,        \* amount_total of a subscription; 0: unlimited
  StrictSubs,      \* subscriptions with allow_wallet_overflow = false
  MaxResets,       \* bound: quota periods that end
  MaxFaults,       \* bound: statements that fail
  MaxLostCommits   \* bound: commits of RefundSubscriptionPreConsume that fail

ASSUME BillingAssumption ==
  /\ IsFiniteSet(Requests) /\ Playground \subseteq Requests
  /\ Preferences \subseteq {"subscription_first", "wallet_first", "subscription_only", "wallet_only"}
  /\ Estimates \subseteq Nat /\ Actuals \subseteq Nat
  /\ InitialQuota \in Nat /\ InitialToken \in Nat /\ TrustQuota \in Nat \ {0}
  /\ NumSubs \in Nat /\ SubTotal \in Nat /\ StrictSubs \subseteq 1 .. NumSubs
  /\ MaxResets \in Nat /\ MaxFaults \in Nat /\ MaxLostCommits \in Nat

VARIABLES
  quota,    \* users.quota
  token,    \* tokens.remain_quota
  subs,     \* user_subscriptions
  record,   \* subscription_pre_consume_records, by request
  pc,       \* where the handler, later the refund goroutine, of a request is
  s,        \* BillingSession and funding source of a request
  down,     \* requests whose process died
  budget    \* what is left of the three bounds

vars == <<quota, token, subs, record, pc, s, down, budget>>

Subs == 1 .. NumSubs
NoSub == 0

NoSession ==
  [pref |-> "wallet_only", source |-> "wallet", est |-> 0, tokenSeen |-> 0,
   pre |-> 0, tokenConsumed |-> 0, sub |-> NoSub, actual |-> 0, tries |-> 0,
   fundingSettled |-> FALSE, settled |-> FALSE, refunded |-> FALSE,
   kept |-> 0,    \* funding a failed refund did not give back
   leak |-> 0]    \* token quota a failed statement left wrong

\* preConsume, the relay, Settle, the refund goroutine, the ends.
Reserving == {"idle", "wallet", "token", "take", "funding", "rollback", "abort"}
Holding == {"relaying", "settling", "unsettled", "refundFunding", "refundRecord"}
Ended == {"rejected", "settled", "unsettled", "failed"}
PCs == Reserving \cup Holding \cup Ended \cup {"settleToken", "refundToken"}

Sessions ==
  [pref : {"subscription_first", "wallet_first", "subscription_only", "wallet_only"},
   source : {"wallet", "subscription"}, est : Nat, tokenSeen : Int,
   pre : Nat, tokenConsumed : Nat, sub : Subs \cup {NoSub}, actual : Nat, tries : 0 .. 3,
   fundingSettled : BOOLEAN, settled : BOOLEAN, refunded : BOOLEAN,
   kept : Nat, leak : Int]

TypeOK ==
  /\ quota \in Nat
  /\ token \in Int
  /\ subs \in [Subs -> [used : Nat, due : BOOLEAN, active : BOOLEAN]]
  /\ record \in [Requests -> {"none", "consumed", "refunded"}]
  /\ pc \in [Requests -> PCs]
  /\ s \in [Requests -> Sessions]
  /\ down \subseteq Requests
  /\ budget \in [resets : Nat, faults : Nat, commits : Nat]

Init ==
  /\ quota = InitialQuota
  /\ token = InitialToken
  /\ subs = [u \in Subs |-> [used |-> 0, due |-> FALSE, active |-> TRUE]]
  /\ record = [r \in Requests |-> "none"]
  /\ pc = [r \in Requests |-> "idle"]
  /\ s = [r \in Requests |-> NoSession]
  /\ down = {}
  /\ budget = [resets |-> MaxResets, faults |-> MaxFaults, commits |-> MaxLostCommits]

-----------------------------------------------------------------------------
(* Helpers. *)

At(r, label) == r \notin down /\ pc[r] = label
Goto(r, label) == pc' = [pc EXCEPT ![r] = label]

\* A statement fails: the code logs it and goes on.
Fault == budget.faults > 0 /\ budget' = [budget EXCEPT !.faults = @ - 1]

\* subConsume: a subscription always reserves at least 1.
Amount(r) == IF s[r].source = "subscription" /\ s[r].est = 0 THEN 1 ELSE s[r].est
Delta(r) == s[r].actual - s[r].pre

\* Mutant: Refund looks only at what was reserved.
NeedsRefundUnguarded(r) ==
  s[r].tokenConsumed > 0 \/ (s[r].source = "subscription" /\ s[r].pre > 0)

\* needsRefundLocked, with the flags Refund itself tests.
NeedsRefund(r) ==
  /\ ~s[r].settled /\ ~s[r].refunded /\ ~s[r].fundingSettled
  /\ s[r].tokenConsumed > 0 \/ (s[r].source = "subscription" /\ s[r].pre > 0)

HasActiveSubscription == \E u \in Subs : subs[u].active
AllowWalletOverflow == \A u \in StrictSubs : ~subs[u].active

\* maybeResetUserSubscriptionWithPlanTx.
MaybeReset(sub) == IF sub.due THEN [sub EXCEPT !.used = 0, !.due = FALSE] ELSE sub

CanPay(sub, n) == sub.active /\ (SubTotal = 0 \/ MaybeReset(sub).used + n <= SubTotal)

\* PreConsumeUserSubscription: the first active subscription with enough left.
Payers(n) == {u \in Subs : CanPay(subs[u], n)}

\* What a session leaves to the next one, for the other funding source.
NewSession(r, source, leak) ==
  [NoSession EXCEPT !.pref = s[r].pref, !.source = source, !.est = s[r].est,
                    !.tokenSeen = s[r].tokenSeen, !.leak = leak]

\* NewBillingSession after ErrorCodeInsufficientUserQuota: try the other funding
\* source where the preference allows it, else reject the request.
Insufficient(r, leak) ==
  IF s[r].pref = "wallet_first" /\ s[r].source = "wallet"
  THEN Goto(r, "token") /\ s' = [s EXCEPT ![r] = NewSession(r, "subscription", leak)]
  ELSE IF s[r].pref = "subscription_first" /\ s[r].source = "subscription" /\ AllowWalletOverflow
  THEN Goto(r, "wallet") /\ s' = [s EXCEPT ![r] = NewSession(r, "wallet", leak)]
  ELSE Goto(r, "rejected") /\ s' = [s EXCEPT ![r].leak = leak]

-----------------------------------------------------------------------------
(* NewBillingSession and preConsume. *)

NewBillingSession(r, pref, n) ==
  /\ At(r, "idle")
  /\ LET source == IF \/ pref = "subscription_only"
                      \/ pref = "subscription_first" /\ HasActiveSubscription
                   THEN "subscription" ELSE "wallet"
     IN /\ s' = [s EXCEPT ![r] = [NoSession EXCEPT !.pref = pref, !.source = source,
                                                   !.est = n, !.tokenSeen = token]]
        /\ Goto(r, IF source = "wallet" THEN "wallet" ELSE "token")
  /\ UNCHANGED <<quota, token, subs, record, down, budget>>

\* shouldTrust: with enough of both, as read earlier, nothing is reserved.
Trusted(r) == s[r].tokenSeen > TrustQuota /\ quota > TrustQuota

\* tryWallet: the balance is read, not reserved.
TryWallet(r) ==
  /\ At(r, "wallet")
  /\ IF quota <= 0 \/ quota < s[r].est
     THEN Insufficient(r, s[r].leak)
     ELSE /\ UNCHANGED s
          /\ Goto(r, IF s[r].est = 0 \/ Trusted(r) THEN "relaying" ELSE "token")
  /\ UNCHANGED <<quota, token, subs, record, down, budget>>

\* PreConsumeTokenQuota: the token is read here and charged in the next step.
ReadToken(r) ==
  /\ At(r, "token")
  /\ IF r \in Playground
     THEN /\ Goto(r, "funding")
          /\ s' = [s EXCEPT ![r].tokenConsumed = Amount(r)]
     ELSE /\ Goto(r, IF token < Amount(r) THEN "rejected" ELSE "take")
          /\ UNCHANGED s
  /\ UNCHANGED <<quota, token, subs, record, down, budget>>

\* DecreaseTokenQuota subtracts without a condition.
DecreaseTokenQuota(r) ==
  /\ At(r, "take")
  /\ token' = token - Amount(r)
  /\ s' = [s EXCEPT ![r].tokenConsumed = Amount(r)]
  /\ Goto(r, "funding")
  /\ UNCHANGED <<quota, subs, record, down, budget>>

\* WalletFunding.PreConsume: checked and charged in one transaction.
PreConsumeWallet(r) ==
  /\ At(r, "funding") /\ s[r].source = "wallet"
  /\ IF quota >= Amount(r)
     THEN /\ quota' = quota - Amount(r)
          /\ s' = [s EXCEPT ![r].pre = Amount(r)]
          /\ Goto(r, "relaying")
     ELSE /\ Goto(r, "abort")
          /\ UNCHANGED <<quota, s>>
  /\ UNCHANGED <<token, subs, record, down, budget>>

\* PreConsumeUserSubscription: resets that are due are saved up to the payer.
PreConsumeUserSubscription(r) ==
  /\ At(r, "funding") /\ s[r].source = "subscription"
  /\ \/ \E payer \in Payers(Amount(r)) :
          /\ \A u \in Payers(Amount(r)) : payer <= u
          /\ subs' = [u \in Subs |->
                        IF u > payer \/ ~subs[u].active THEN subs[u]
                        ELSE IF u < payer THEN MaybeReset(subs[u])
                        ELSE [MaybeReset(subs[u]) EXCEPT !.used = @ + Amount(r)]]
          /\ record' = [record EXCEPT ![r] = "consumed"]
          /\ s' = [s EXCEPT ![r].pre = Amount(r), ![r].sub = payer]
          /\ Goto(r, "relaying")
     \/ /\ Payers(Amount(r)) = {}
        /\ Goto(r, "rollback")
        /\ UNCHANGED <<subs, record, s>>
  /\ UNCHANGED <<quota, token, down, budget>>

\* A statement of the above fails: the request is rejected, after the token was
\* given back where it had been charged. When the read of the subscriptions fails
\* the code says that there is none, which is treated as a shortage.
ReservationFails(r) ==
  /\ r \notin down /\ pc[r] \in {"wallet", "token", "take", "funding"}
  /\ ~(pc[r] = "token" /\ r \in Playground)
  /\ Fault
  /\ \/ pc[r] # "funding" /\ Goto(r, "rejected")
     \/ pc[r] = "funding" /\ Goto(r, "abort")
     \/ pc[r] = "funding" /\ s[r].source = "subscription" /\ Goto(r, "rollback")
  /\ UNCHANGED <<quota, token, subs, record, s, down>>

\* Mutant: no rollback.
RollbackTokenForgotten(r) ==
  /\ At(r, "rollback") \/ At(r, "abort")
  /\ IF pc[r] = "rollback"
     THEN Insufficient(r, s[r].leak)
     ELSE Goto(r, "rejected") /\ UNCHANGED s
  /\ UNCHANGED <<quota, token, subs, record, down, budget>>

\* The funding failed: give the token its quota back. Only the shortage of a
\* subscription is recognised as one; any other error ends the request.
RollbackToken(r) ==
  /\ At(r, "rollback") \/ At(r, "abort")
  /\ \/ /\ token' = IF r \in Playground THEN token ELSE token + s[r].tokenConsumed
        /\ IF pc[r] = "rollback"
           THEN Insufficient(r, s[r].leak)
           ELSE Goto(r, "rejected") /\ UNCHANGED s
        /\ UNCHANGED budget
     \/ /\ r \notin Playground /\ Fault
        /\ IF pc[r] = "rollback"
           THEN Insufficient(r, s[r].leak + s[r].tokenConsumed)
           ELSE Goto(r, "rejected") /\ s' = [s EXCEPT ![r].leak = @ + s[r].tokenConsumed]
        /\ UNCHANGED token
  /\ UNCHANGED <<quota, subs, record, down>>

-----------------------------------------------------------------------------
(* The relay and Settle. *)

RelaySucceeds(r, n) ==
  /\ At(r, "relaying")
  /\ s' = [s EXCEPT ![r].actual = n]
  /\ Goto(r, "settling")
  /\ UNCHANGED <<quota, token, subs, record, down, budget>>

\* Relay's deferred call of Refund.
RelayFails(r) ==
  /\ At(r, "relaying")
  /\ IF NeedsRefund(r)
     THEN Goto(r, "refundFunding") /\ s' = [s EXCEPT ![r].refunded = TRUE]
     ELSE Goto(r, "failed") /\ UNCHANGED s
  /\ UNCHANGED <<quota, token, subs, record, down, budget>>

\* Settle with nothing to adjust.
SettleExact(r) ==
  /\ At(r, "settling") /\ Delta(r) = 0
  /\ s' = [s EXCEPT ![r].settled = TRUE]
  /\ Goto(r, "settled")
  /\ UNCHANGED <<quota, token, subs, record, down, budget>>

FundingSettled(r) ==
  IF r \in Playground
  THEN s' = [s EXCEPT ![r].fundingSettled = TRUE, ![r].settled = TRUE] /\ Goto(r, "settled")
  ELSE s' = [s EXCEPT ![r].fundingSettled = TRUE] /\ Goto(r, "settleToken")

\* WalletFunding.Settle: more is deducted, with a check, or the rest given back.
SettleWallet(r) ==
  /\ At(r, "settling") /\ s[r].source = "wallet" /\ Delta(r) # 0
  /\ \/ /\ quota >= Delta(r)
        /\ quota' = quota - Delta(r)
        /\ FundingSettled(r)
        /\ UNCHANGED budget
     \/ /\ quota < Delta(r)
        /\ Goto(r, "unsettled") /\ UNCHANGED <<quota, s, budget>>
     \/ /\ Fault
        /\ Goto(r, "unsettled") /\ UNCHANGED <<quota, s>>
  /\ UNCHANGED <<token, subs, record, down>>

\* Mutant: no clamp at zero.
UsedAfterUnclamped(u, delta) == subs[u].used + delta

\* PostConsumeUserSubscriptionDelta on the subscription that was reserved.
UsedAfter(u, delta) == IF subs[u].used + delta < 0 THEN 0 ELSE subs[u].used + delta

\* Mutant: the cost is added to the reservation instead of the difference.
SettleSubscriptionWhole(r) ==
  /\ At(r, "settling") /\ s[r].source = "subscription" /\ Delta(r) # 0
  /\ LET u == s[r].sub IN
     IF SubTotal = 0 \/ UsedAfter(u, s[r].actual) <= SubTotal
     THEN /\ subs' = [subs EXCEPT ![u].used = UsedAfter(u, s[r].actual)]
          /\ FundingSettled(r)
     ELSE Goto(r, "unsettled") /\ UNCHANGED <<subs, s>>
  /\ UNCHANGED <<quota, token, record, down, budget>>

\* Mutant: the total is not checked.
SettleSubscriptionUnchecked(r) ==
  /\ At(r, "settling") /\ s[r].source = "subscription" /\ Delta(r) # 0
  /\ subs' = [subs EXCEPT ![s[r].sub].used = UsedAfter(s[r].sub, Delta(r))]
  /\ FundingSettled(r)
  /\ UNCHANGED <<quota, token, record, down, budget>>

SettleSubscription(r) ==
  /\ At(r, "settling") /\ s[r].source = "subscription" /\ Delta(r) # 0
  /\ LET u == s[r].sub IN
     \/ /\ SubTotal = 0 \/ UsedAfter(u, Delta(r)) <= SubTotal
        /\ subs' = [subs EXCEPT ![u].used = UsedAfter(u, Delta(r))]
        /\ FundingSettled(r)
        /\ UNCHANGED budget
     \/ /\ SubTotal # 0 /\ UsedAfter(u, Delta(r)) > SubTotal
        /\ Goto(r, "unsettled") /\ UNCHANGED <<subs, s, budget>>
     \/ /\ Fault
        /\ Goto(r, "unsettled") /\ UNCHANGED <<subs, s>>
  /\ UNCHANGED <<quota, token, record, down>>

\* Mutant: waits for a token with enough left.
SettleTokenWaits(r) ==
  /\ At(r, "settleToken")
  /\ token >= Delta(r)
  /\ token' = token - Delta(r)
  /\ s' = [s EXCEPT ![r].settled = TRUE]
  /\ Goto(r, "settled")
  /\ UNCHANGED <<quota, subs, record, down, budget>>

\* The token follows the funding; when that fails the session is settled still.
SettleToken(r) ==
  /\ At(r, "settleToken")
  /\ \/ /\ token' = token - Delta(r)
        /\ s' = [s EXCEPT ![r].settled = TRUE]
        /\ UNCHANGED budget
     \/ /\ Fault
        /\ s' = [s EXCEPT ![r].settled = TRUE, ![r].leak = @ - Delta(r)]
        /\ UNCHANGED token
  /\ Goto(r, "settled")
  /\ UNCHANGED <<quota, subs, record, down>>

-----------------------------------------------------------------------------
(* Refund. *)

\* promoteDeepSeekFairUseRedisError: a request that was served is turned into
\* an error, and Refund is called after Settle.
FairUseRefund(r) ==
  /\ At(r, "settled") \/ At(r, "unsettled")
  /\ NeedsRefund(r)
  /\ s' = [s EXCEPT ![r].refunded = TRUE]
  /\ Goto(r, "refundFunding")
  /\ UNCHANGED <<quota, token, subs, record, down, budget>>

\* WalletFunding.Refund: one attempt.
RefundWallet(r) ==
  /\ At(r, "refundFunding") /\ s[r].source = "wallet"
  /\ \/ /\ quota' = quota + s[r].pre
        /\ UNCHANGED <<s, budget>>
     \/ /\ Fault
        /\ s' = [s EXCEPT ![r].kept = s[r].pre]
        /\ UNCHANGED quota
  /\ Goto(r, "refundToken")
  /\ UNCHANGED <<token, subs, record, down>>

\* RefundSubscriptionPreConsume, the inner transaction: the usage is lowered and
\* committed before the record is marked. refundWithRetry tries three times.
RefundSubscription(r) ==
  /\ At(r, "refundFunding") /\ s[r].source = "subscription"
  /\ \/ /\ record[r] = "consumed"
        /\ subs' = [subs EXCEPT ![s[r].sub].used = UsedAfter(s[r].sub, -s[r].pre)]
        /\ Goto(r, "refundRecord")
        /\ UNCHANGED <<s, budget>>
     \/ /\ record[r] = "refunded"
        /\ Goto(r, "refundToken")
        /\ UNCHANGED <<subs, s, budget>>
     \/ /\ Fault
        /\ IF s[r].tries < 2
           THEN s' = [s EXCEPT ![r].tries = @ + 1] /\ UNCHANGED pc
           ELSE s' = [s EXCEPT ![r].kept = s[r].pre] /\ Goto(r, "refundToken")
        /\ UNCHANGED subs
  /\ UNCHANGED <<quota, token, record, down>>

\* The outer transaction marks the record and commits, or reports an error,
\* whether it took effect or not, and is retried.
MarkRefunded(r) ==
  /\ At(r, "refundRecord")
  /\ \/ /\ record' = [record EXCEPT ![r] = "refunded"]
        /\ Goto(r, "refundToken")
        /\ UNCHANGED <<s, budget>>
     \/ /\ budget.commits > 0
        /\ budget' = [budget EXCEPT !.commits = @ - 1]
        /\ IF s[r].tries < 2
           THEN s' = [s EXCEPT ![r].tries = @ + 1] /\ Goto(r, "refundFunding")
           ELSE UNCHANGED s /\ Goto(r, "refundToken")
        /\ record' \in {record, [record EXCEPT ![r] = "refunded"]}
  /\ UNCHANGED <<quota, token, subs, down>>

RefundToken(r) ==
  /\ At(r, "refundToken")
  /\ \/ /\ token' = IF r \in Playground THEN token ELSE token + s[r].tokenConsumed
        /\ UNCHANGED <<s, budget>>
     \/ /\ r \notin Playground /\ s[r].tokenConsumed > 0 /\ Fault
        /\ s' = [s EXCEPT ![r].leak = @ + s[r].tokenConsumed]
        /\ UNCHANGED token
  /\ Goto(r, "failed")
  /\ UNCHANGED <<quota, subs, record, down>>

-----------------------------------------------------------------------------
(* The environment. *)

\* The process of a request dies; nothing resumes the session.
Crash(r) ==
  /\ r \notin down /\ pc[r] \notin {"idle"} \cup Ended
  /\ down' = down \cup {r}
  /\ UNCHANGED <<quota, token, subs, record, pc, s, budget>>

\* next_reset_time of a subscription passes.
PeriodEnds(u) ==
  /\ budget.resets > 0 /\ subs[u].active /\ ~subs[u].due
  /\ budget' = [budget EXCEPT !.resets = @ - 1]
  /\ subs' = [subs EXCEPT ![u].due = TRUE]
  /\ UNCHANGED <<quota, token, record, pc, s, down>>

\* The periodic ResetDueSubscriptions: a subscription that has ended is reset as
\* well, until its status says so.
ResetDueSubscriptions(u) ==
  /\ subs[u].due
  /\ subs' = [subs EXCEPT ![u] = MaybeReset(subs[u])]
  /\ UNCHANGED <<quota, token, record, pc, s, down, budget>>

\* end_time of a subscription passes.
SubscriptionEnds(u) ==
  /\ budget.resets > 0 /\ subs[u].active
  /\ subs' = [subs EXCEPT ![u].active = FALSE]
  /\ budget' = [budget EXCEPT !.resets = @ - 1]
  /\ UNCHANGED <<quota, token, record, pc, s, down>>

-----------------------------------------------------------------------------
\* What a request's handler and refund goroutine do on their own.
Step(r) ==
  \/ TryWallet(r) \/ ReadToken(r) \/ DecreaseTokenQuota(r)
  \/ PreConsumeWallet(r) \/ PreConsumeUserSubscription(r) \/ ReservationFails(r)
  \/ RollbackToken(r)
  \/ RelayFails(r) \/ (\E n \in Actuals : RelaySucceeds(r, n))
  \/ SettleExact(r) \/ SettleWallet(r) \/ SettleSubscription(r) \/ SettleToken(r)
  \/ RefundWallet(r) \/ RefundSubscription(r) \/ MarkRefunded(r) \/ RefundToken(r)

Next ==
  \/ \E r \in Requests : Step(r) \/ FairUseRefund(r) \/ Crash(r)
  \/ \E r \in Requests : \E pref \in Preferences : \E n \in Estimates :
       NewBillingSession(r, pref, n)
  \/ \E u \in Subs : PeriodEnds(u) \/ ResetDueSubscriptions(u) \/ SubscriptionEnds(u)

Spec == Init /\ [][Next]_vars

\* Handlers and goroutines are scheduled and every call they make returns; the
\* upstream answers or times out.
FairSpec == Spec /\ \A r \in Requests : WF_vars(Step(r))

-----------------------------------------------------------------------------
(* Properties. *)

WalletPhase(r) ==
  IF pc[r] \in Reserving THEN "open" ELSE IF pc[r] \in Holding THEN "held" ELSE "closed"

WalletCharge(r) ==
  IF s[r].source # "wallet" \/ pc[r] \in Reserving THEN 0
  ELSE IF pc[r] \in Holding THEN s[r].pre
  ELSE IF pc[r] \in {"settleToken", "settled"} THEN s[r].actual
  ELSE s[r].kept

Wallet == INSTANCE ChargeLedger WITH
  Budget <- InitialQuota,
  balance <- quota,
  charge <- [r \in Requests |-> WalletCharge(r)],
  phase <- [r \in Requests |-> WalletPhase(r)]

\* The wallet pays for a request what its session says: the estimate while it
\* runs, the actual cost once settled, nothing once rejected or refunded,
\* whatever the other requests do and wherever a statement or process fails,
\* and a settled or refunded request is never touched again.
WalletCharged == Wallet!Spec

TokenPhase(r) ==
  IF pc[r] \in {"idle", "wallet", "token", "take"} THEN "open"
  ELSE IF pc[r] \in {"settled", "failed", "rejected"} THEN "closed" ELSE "held"

TokenCharge(r) ==
  s[r].leak + (IF r \in Playground THEN 0
               ELSE IF TokenPhase(r) = "held" THEN s[r].tokenConsumed
               ELSE IF pc[r] = "settled" THEN s[r].actual ELSE 0)

Token == INSTANCE ChargeLedger WITH
  Budget <- InitialToken,
  balance <- token,
  charge <- [r \in Requests |-> TokenCharge(r)],
  phase <- [r \in Requests |-> TokenPhase(r)]

\* The same of the token, which is charged before and repaid after the funding
\* and never charged for a playground request; "leak" is what statements that
\* failed left wrong and the log reports.
TokenCharged == Token!Spec

SubPhase(r) == IF pc[r] = "refundRecord" THEN "closed" ELSE WalletPhase(r)

SubCharge(r) ==
  IF s[r].source # "subscription" \/ pc[r] \in Reserving THEN 0
  ELSE IF SubPhase(r) = "held" THEN s[r].pre
  ELSE IF pc[r] \in {"settleToken", "settled"} THEN s[r].actual
  ELSE s[r].kept

Pool == INSTANCE ChargeLedger WITH
  Budget <- NumSubs * SubTotal,
  balance <- NumSubs * SubTotal - SumOver(Subs, [u \in Subs |-> subs[u].used]),
  charge <- [r \in Requests |-> SubCharge(r)],
  phase <- [r \in Requests |-> SubPhase(r)]

\* The same of all subscriptions together, within a quota period.
SubscriptionsCharged == Pool!Spec

\* A subscription is never used beyond its total: concurrent reservations, late
\* settlements and refunds of an earlier period included.
UsageWithinTotal == SubTotal > 0 => \A u \in Subs : subs[u].used <= SubTotal

\* "RefundSubscriptionPreConsume is idempotent": a refund gives back what its
\* request reserved once, so the usage still covers what the others reserved.
UsageCoversReservations ==
  \A u \in Subs :
    subs[u].used >= SumOver({r \in Requests : s[r].sub = u /\ ~s[r].refunded},
                            [r \in Requests |-> SubCharge(r)])

\* Every request that starts ends: rejected, settled or refunded, unless its
\* process dies.
RequestsEnd ==
  \A r \in Requests : (pc[r] # "idle") ~> (pc[r] \in Ended \/ r \in down)
=============================================================================
