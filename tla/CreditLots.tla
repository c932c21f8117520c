----------------------------- MODULE CreditLots -----------------------------
(***************************************************************************)
(* The dual-balance wallet of one user: model/balance_credit_lot.go,       *)
(* model/user.go (quota, promo_quota), the WalletFunding half of           *)
(* service/funding_source.go, service/stripetopup/refund.go and the        *)
(* profile updates that write the user row back (User.UpdateWithTx).       *)
(*                                                                         *)
(* users.quota is the total balance, users.promo_quota its promotional     *)
(* part. A Stripe top-up also leaves credit lots, which record where the   *)
(* balance came from; balance from elsewhere (gifts, redemption codes,     *)
(* administrators) is untracked: in the totals, in no lot. A deduction     *)
(* takes promotional lots (soonest expiry first), untracked promotion,     *)
(* paid lots (oldest first), untracked cash, and remembers what it took    *)
(* from where, so that a request that fails or costs less gives back to    *)
(* the same places.                                                        *)
(*                                                                         *)
(* Every operation is one database transaction that locks the user row.    *)
(* Operators on a wallet value w return the value the transaction commits; *)
(* a transaction that returns an error commits nothing, the expiry it      *)
(* began with included.                                                    *)
(***************************************************************************)
EXTENDS Integers, FiniteSets, FiniteSetsExt, FiniteSums

CONSTANTS
  Orders,          \* Stripe top-up orders
  Requests,        \* API requests that reserve balance
  Handlers,        \* handlers that read the user row and save the profile
  PaidQuota,       \* paid credit of an order
  PromoQuota,      \* promotional credit of an order
  PromoLifetimes,  \* days to expiry of promotional credit; 0: never expires
  Amounts,         \* quota amounts of requests
  Gifts,           \* quota amounts added outside Stripe orders
  PlanPrices,      \* prices of the plans on sale for balance
  Overrides,       \* balances an administrator may set, of either sign
  MaxQuota,        \* common.MaxQuota; also the bound of the unchecked increments
  MaxTime          \* bound on the clock

ASSUME AmountAssumption ==
  /\ PaidQuota \in Nat /\ PromoQuota \in Nat /\ MaxQuota \in Nat /\ MaxTime \in Nat
  /\ Amounts \subseteq Nat \ {0} /\ Gifts \subseteq Nat \ {0} /\ PlanPrices \subseteq Nat /\ Overrides \subseteq Int
  /\ PromoLifetimes \subseteq Nat
  /\ IsFiniteSet(Orders) /\ IsFiniteSet(Requests)

VARIABLES
  wallet,     \* [quota, promo, lots]
  order,      \* status of the top-up order
  res,        \* what WalletFunding holds for a request
  profile,    \* promo_quota in a handler's copy of the user row; 0: none to write
  now         \* the clock

vars == <<wallet, order, res, profile, now>>

LotIds == 1 .. 2 * Cardinality(Orders)

\* The places a deduction takes from: a lot, untracked promotion, untracked cash.
FreePromo == 0
FreePaid == -1
Sources == LotIds \cup {FreePromo, FreePaid}

NoOrder == "no order"
NoLot == [order |-> NoOrder, type |-> "paid", original |-> 0, remaining |-> 0,
          expires |-> 0, status |-> "none", ledger |-> 0]
NoAlloc == [s \in Sources |-> 0]

Lots == [order : Orders \cup {NoOrder}, type : {"paid", "promotional"},
         original : Nat, remaining : Nat, expires : Nat,
         status : {"none", "active", "exhausted", "expired", "reversed"},
         ledger : Int]

\* "kept": the charge stands because giving it back failed.
ResStates == {"idle", "held", "settled", "refunded", "kept"}

TypeOK ==
  /\ wallet \in [quota : Int, promo : Nat, lots : [LotIds -> Lots]]
  /\ order \in [Orders -> {"open", "paid", "credited", "refunded", "manual_review"}]
  /\ res \in [Requests -> [state : ResStates, alloc : [Sources -> Nat]]]
  /\ profile \in [Handlers -> Nat]
  /\ now \in 0 .. MaxTime

Init ==
  /\ wallet = [quota |-> 0, promo |-> 0, lots |-> [l \in LotIds |-> NoLot]]
  /\ order = [o \in Orders |-> "open"]
  /\ res = [r \in Requests |-> [state |-> "idle", alloc |-> NoAlloc]]
  /\ profile = [h \in Handlers |-> 0]
  /\ now = 0

-----------------------------------------------------------------------------
(* Helpers. *)

Least(a, b) == IF a < b THEN a ELSE b
AtLeastZero(n) == IF n < 0 THEN 0 ELSE n

Total(alloc) == SumOver(Sources, alloc)
Remaining(w) == [l \in LotIds |-> w.lots[l].remaining]

IsPromo(w, s) == s = FreePromo \/ (s \in LotIds /\ w.lots[s].type = "promotional")

\* sumRemainingCreditLots over activeCreditLotsWithTx of the promotional type.
TrackedPromo(w) ==
  SumOver({l \in LotIds : w.lots[l].type = "promotional" /\ w.lots[l].status = "active"},
          Remaining(w))

TrackedPaid(w) ==
  SumOver({l \in LotIds : w.lots[l].type = "paid" /\ w.lots[l].status = "active"},
          Remaining(w))

\* ORDER BY expires_at, never-expiring last, then id.
ExpiresBefore(w, l, m) ==
  LET e == w.lots[l].expires
      f == w.lots[m].expires
  IN IF e = f THEN l < m ELSE f = 0 \/ (e # 0 /\ e < f)

\* Mutant: untracked cash before paid lots.
PrecedesCashFirst(w, s, u) ==
  IF IsPromo(w, s) # IsPromo(w, u) THEN IsPromo(w, s)
  ELSE IF s \notin LotIds \/ u \notin LotIds THEN s \notin LotIds /\ u \in LotIds
  ELSE IF IsPromo(w, s) THEN ExpiresBefore(w, s, u) ELSE s < u

\* s is used up before u is touched.
Precedes(w, s, u) ==
  IF IsPromo(w, s) # IsPromo(w, u) THEN IsPromo(w, s)
  ELSE IF s \notin LotIds \/ u \notin LotIds THEN s \in LotIds /\ u \notin LotIds
  ELSE IF IsPromo(w, s) THEN ExpiresBefore(w, s, u) ELSE s < u

-----------------------------------------------------------------------------
(* Transactions. *)

\* A lot row is saved, and a ledger row is written with it.
SavedLot(lot, remaining, status, change) ==
  [lot EXCEPT !.remaining = remaining, !.status = status, !.ledger = @ + change]

\* expireUserPromotionLotsWithTx: the removal is capped by both balances.
ExpireLots(w) ==
  LET due == {l \in LotIds : /\ w.lots[l].type = "promotional" /\ w.lots[l].status = "active"
                             /\ w.lots[l].remaining > 0
                             /\ w.lots[l].expires > 0 /\ w.lots[l].expires <= now}
      gone == SumOver(due, Remaining(w))
      remove == IF due = {} THEN 0 ELSE Least(gone, Least(w.promo, w.quota))
  IN [quota |-> w.quota - remove,
      promo |-> w.promo - remove,
      lots |-> [l \in LotIds |->
                  IF l \in due
                  THEN SavedLot(w.lots[l], 0, "expired", -w.lots[l].remaining)
                  ELSE w.lots[l]]]

\* Mutant: tracked promotion is counted as untracked as well.
AvailableTwice(w, n) ==
  [s \in Sources |->
     IF s = FreePaid THEN n
     ELSE IF s = FreePromo THEN w.promo
     ELSE IF w.lots[s].status = "active" THEN w.lots[s].remaining ELSE 0]

\* What a deduction of n finds at every source; untracked cash has no limit of
\* its own.
Available(w, n) ==
  [s \in Sources |->
     IF s = FreePaid THEN n
     ELSE IF s = FreePromo THEN AtLeastZero(w.promo - TrackedPromo(w))
     ELSE IF w.lots[s].status = "active" THEN w.lots[s].remaining ELSE 0]

\* What a deduction of n takes from every source.
Allocation(w, n) ==
  LET before(s) == SumOver({u \in Sources : Precedes(w, u, s)}, Available(w, n))
  IN [s \in Sources |-> Least(Available(w, n)[s], AtLeastZero(n - before(s)))]

PromoPart(w, alloc) == SumOver({s \in Sources : IsPromo(w, s)}, alloc)

\* decreaseUserQuotaWithLots: the wallet after a deduction of n that is possible.
CanDeduct(w, n) ==
  LET e == ExpireLots(w) IN e.quota >= n /\ e.promo >= PromoPart(e, Allocation(e, n))

\* Mutant: the aggregates are charged, the lots are not.
DeductedSkipsLots(w, n) ==
  LET e == ExpireLots(w)
  IN [e EXCEPT !.quota = @ - n, !.promo = @ - PromoPart(e, Allocation(e, n))]

Deducted(w, n) ==
  LET e == ExpireLots(w)
      a == Allocation(e, n)
  IN [quota |-> e.quota - n,
      promo |-> e.promo - PromoPart(e, a),
      lots |-> [l \in LotIds |->
                  IF a[l] = 0 THEN e.lots[l]
                  ELSE SavedLot(e.lots[l], e.lots[l].remaining - a[l],
                                IF e.lots[l].remaining = a[l] THEN "exhausted" ELSE "active", -a[l])]]

\* restoreUserQuotaSplitWithLots: all of the allocation or nothing.
CanRestore(w, alloc) ==
  /\ \A l \in {l \in LotIds : alloc[l] > 0} :
       /\ w.lots[l].remaining <= w.lots[l].original - alloc[l]
       /\ ~(w.lots[l].type = "promotional" /\ w.lots[l].expires > 0 /\ w.lots[l].expires <= now)
       /\ w.lots[l].status \notin {"expired", "reversed"}
  /\ Total(alloc) <= MaxQuota - w.quota

\* Mutant: no ledger entry for the restore.
RestoredUnlogged(w, alloc) ==
  [quota |-> w.quota + Total(alloc),
   promo |-> w.promo + PromoPart(w, alloc),
   lots |-> [l \in LotIds |->
               IF alloc[l] = 0 THEN w.lots[l]
               ELSE SavedLot(w.lots[l], w.lots[l].remaining + alloc[l], "active", 0)]]

\* Mutant: an exhausted lot stays exhausted.
RestoredStaysExhausted(w, alloc) ==
  [quota |-> w.quota + Total(alloc),
   promo |-> w.promo + PromoPart(w, alloc),
   lots |-> [l \in LotIds |->
               IF alloc[l] = 0 THEN w.lots[l]
               ELSE SavedLot(w.lots[l], w.lots[l].remaining + alloc[l], w.lots[l].status, alloc[l])]]

Restored(w, alloc) ==
  [quota |-> w.quota + Total(alloc),
   promo |-> w.promo + PromoPart(w, alloc),
   lots |-> [l \in LotIds |->
               IF alloc[l] = 0 THEN w.lots[l]
               ELSE SavedLot(w.lots[l], w.lots[l].remaining + alloc[l], "active", alloc[l])]]

\* Paid sources first, last taken first.
GivenBackBefore(w, u, s) ==
  IF IsPromo(w, u) # IsPromo(w, s) THEN IsPromo(w, s) ELSE Precedes(w, s, u)

\* takeWalletRefund: n of what was taken.
WalletRefund(w, alloc, n) ==
  LET before(s) == SumOver({u \in Sources : GivenBackBefore(w, u, s)}, alloc)
  IN [s \in Sources |-> Least(alloc[s], AtLeastZero(n - before(s)))]

-----------------------------------------------------------------------------
(* Money in. *)

NewLot(o, type, amount, expires) ==
  [order |-> o, type |-> type, original |-> amount, remaining |-> amount,
   expires |-> expires, status |-> "active", ledger |-> amount]

\* handleCheckoutPaid commits the payment before, and apart from, the credit.
MarkPaid(o) ==
  /\ order[o] = "open"
  /\ order' = [order EXCEPT ![o] = "paid"]
  /\ UNCHANGED <<wallet, res, profile, now>>

\* CreditStripeTopupOrder: balances, a paid and a promotional lot.
CreditStripeTopupOrder(o) ==
  /\ order[o] \in {"open", "paid"}
  /\ PaidQuota + PromoQuota > 0
  /\ wallet.quota <= MaxQuota - (PaidQuota + PromoQuota)
  /\ order' = [order EXCEPT ![o] = "credited"]
  /\ \E life \in PromoLifetimes :
       LET free == Min({l \in LotIds : wallet.lots[l].status = "none"})
           expires == IF life = 0 THEN 0 ELSE now + life
           paid == NewLot(o, "paid", PaidQuota, 0)
           promo == NewLot(o, "promotional", PromoQuota, expires)
       IN wallet' = [quota |-> wallet.quota + PaidQuota + PromoQuota,
                     promo |-> wallet.promo + PromoQuota,
                     lots |-> IF PaidQuota = 0 THEN [wallet.lots EXCEPT ![free] = promo]
                              ELSE IF PromoQuota = 0 THEN [wallet.lots EXCEPT ![free] = paid]
                              ELSE [wallet.lots EXCEPT ![free] = paid, ![free + 1] = promo]]
  /\ UNCHANGED <<res, profile, now>>

\* IncreaseUserCashQuota: redemption by other gateways, administrators.
IncreaseUserCashQuota(n) ==
  /\ wallet.quota + n <= MaxQuota
  /\ wallet' = [wallet EXCEPT !.quota = @ + n]
  /\ UNCHANGED <<order, res, profile, now>>

\* IncreaseUserPromoQuota: registration, invitation, check-in, campaigns.
IncreaseUserPromoQuota(n) ==
  /\ wallet.quota + n <= MaxQuota /\ wallet.promo + n <= MaxQuota
  /\ wallet' = [wallet EXCEPT !.quota = @ + n, !.promo = @ + n]
  /\ UNCHANGED <<order, res, profile, now>>

-----------------------------------------------------------------------------
(* WalletFunding. *)

PreConsume(r, n) ==
  /\ res[r].state = "idle"
  /\ CanDeduct(wallet, n)
  /\ wallet' = Deducted(wallet, n)
  /\ res' = [res EXCEPT ![r] = [state |-> "held", alloc |-> Allocation(ExpireLots(wallet), n)]]
  /\ UNCHANGED <<order, profile, now>>

\* Settle(delta > 0): deduct the rest; when that fails the reservation stays held.
SettleMore(r, n) ==
  /\ res[r].state = "held"
  /\ CanDeduct(wallet, n)
  /\ wallet' = Deducted(wallet, n)
  /\ res' = [res EXCEPT ![r] = [state |-> "settled", alloc |-> NoAlloc]]
  /\ UNCHANGED <<order, profile, now>>

\* Mutant: the split is not reduced and the session can still be refunded.
SettleLessKeepsSplit(r, n) ==
  LET back == WalletRefund(wallet, res[r].alloc, n) IN
  /\ res[r].state = "held"
  /\ n <= Total(res[r].alloc)
  /\ n = 0 \/ CanRestore(wallet, back)
  /\ wallet' = Restored(wallet, back)
  /\ UNCHANGED <<order, res, profile, now>>

\* Settle(delta <= 0): give the surplus back; when that fails the reservation
\* stays held.
SettleLess(r, n) ==
  LET back == WalletRefund(wallet, res[r].alloc, n) IN
  /\ res[r].state = "held"
  /\ n <= Total(res[r].alloc)
  /\ n = 0 \/ CanRestore(wallet, back)
  /\ wallet' = Restored(wallet, back)
  /\ res' = [res EXCEPT ![r] = [state |-> "settled", alloc |-> NoAlloc]]
  /\ UNCHANGED <<order, profile, now>>

\* Mutant: the split is not cleared after the restore.
RefundKeepsSplit(r) ==
  /\ res[r].state = "held"
  /\ CanRestore(wallet, res[r].alloc)
  /\ wallet' = Restored(wallet, res[r].alloc)
  /\ UNCHANGED <<order, res, profile, now>>

\* Refund is tried once: BillingSession.Refund logs an error and is over.
Refund(r) ==
  /\ res[r].state = "held"
  /\ IF CanRestore(wallet, res[r].alloc)
     THEN /\ wallet' = Restored(wallet, res[r].alloc)
          /\ res' = [res EXCEPT ![r] = [state |-> "refunded", alloc |-> NoAlloc]]
     ELSE /\ res' = [res EXCEPT ![r] = [state |-> "kept", alloc |-> NoAlloc]]
          /\ UNCHANGED wallet
  /\ UNCHANGED <<order, profile, now>>

-----------------------------------------------------------------------------
(* Money out. *)

\* ExpireUserPromotionLots, when the top-up page is opened.
ExpireUserPromotionLots ==
  /\ ExpireLots(wallet) # wallet
  /\ wallet' = ExpireLots(wallet)
  /\ UNCHANGED <<order, res, profile, now>>

\* ReconcileRefund of an order that was not paid.
ReconcileRefundUnpaid(o) ==
  /\ order[o] = "open"
  /\ order' = [order EXCEPT ![o] = "manual_review"]
  /\ UNCHANGED <<wallet, res, profile, now>>

\* Mutant: the promotional amount is not capped by the balance.
ReconcileLegacyRefundUncapped(o) ==
  LET reversePaid == Least(PaidQuota, AtLeastZero(wallet.quota - wallet.promo))
  IN /\ order[o] = "paid"
     /\ wallet' = [wallet EXCEPT !.quota = @ - PromoQuota - reversePaid, !.promo = @ - PromoQuota]
     /\ order' = [order EXCEPT ![o] = IF reversePaid < PaidQuota THEN "manual_review" ELSE "refunded"]
     /\ UNCHANGED <<res, profile, now>>

\* ReconcileRefund of an order that is paid and has no lots
\* (reconcileLegacyRefundWithTx): the order's amounts are taken from the
\* balances, as far as they reach and whatever they came from; no lot changes.
ReconcileLegacyRefund(o) ==
  LET reversePromo == Least(PromoQuota, wallet.promo)
      reversePaid == Least(PaidQuota, AtLeastZero(wallet.quota - wallet.promo))
  IN /\ order[o] = "paid"
     /\ wallet' = [wallet EXCEPT !.quota = @ - reversePromo - reversePaid,
                                 !.promo = @ - reversePromo]
     /\ order' = [order EXCEPT ![o] = IF reversePromo < PromoQuota \/ reversePaid < PaidQuota
                                      THEN "manual_review" ELSE "refunded"]
     /\ UNCHANGED <<res, profile, now>>

\* ReconcileRefund of a credited order: what is left in its lots is reversed.
ReconcileRefund(o) ==
  /\ order[o] = "credited"
  /\ LET mine == {l \in LotIds : /\ wallet.lots[l].order = o
                                 /\ wallet.lots[l].remaining > 0
                                 /\ wallet.lots[l].status # "reversed"}
         remove == SumOver(mine, Remaining(wallet))
         removePromo == SumOver({l \in mine : wallet.lots[l].type = "promotional"},
                                Remaining(wallet))
     IN IF wallet.quota < remove \/ wallet.promo < removePromo
        THEN /\ order' = [order EXCEPT ![o] = "manual_review"]
             /\ UNCHANGED wallet
        ELSE /\ order' = [order EXCEPT ![o] = "refunded"]
             /\ wallet' = [quota |-> wallet.quota - remove,
                           promo |-> wallet.promo - removePromo,
                           lots |-> [l \in LotIds |->
                                       IF l \in mine
                                       THEN SavedLot(wallet.lots[l], 0, "reversed",
                                                     -wallet.lots[l].remaining)
                                       ELSE wallet.lots[l]]]
  /\ UNCHANGED <<res, profile, now>>

\* PurchaseSubscriptionWithBalance: takes the price from quota alone.
PurchaseSubscriptionWithBalance(price) ==
  /\ wallet.quota >= price
  /\ wallet' = [wallet EXCEPT !.quota = @ - price]
  /\ UNCHANGED <<order, res, profile, now>>

\* ManageUser, add_quota with mode override: quota alone is set.
OverrideQuota(n) ==
  /\ wallet' = [wallet EXCEPT !.quota = n]
  /\ UNCHANGED <<order, res, profile, now>>

\* DecreaseUserQuota: an administrator's subtraction, a charge without a
\* reservation (PostConsumeQuota). What it took from where is forgotten.
DecreaseUserQuota(n) ==
  /\ CanDeduct(wallet, n)
  /\ wallet' = Deducted(wallet, n)
  /\ UNCHANGED <<order, res, profile, now>>

\* A handler loads the user row (a new access token, an affiliate code, a bound
\* account, a role change); it may return without saving it.
ReadUser(h) ==
  /\ profile' = [profile EXCEPT ![h] = wallet.promo]
  /\ UNCHANGED <<wallet, order, res, now>>

\* User.UpdateWithTx writes every non-zero field of that copy but quota,
\* used_quota and request_count.
UpdateWithTx(h) ==
  /\ profile[h] # 0
  /\ wallet' = [wallet EXCEPT !.promo = profile[h]]
  /\ profile' = [profile EXCEPT ![h] = 0]
  /\ UNCHANGED <<order, res, now>>

Tick ==
  /\ now < MaxTime
  /\ now' = now + 1
  /\ UNCHANGED <<wallet, order, res, profile>>

Next ==
  \/ \E o \in Orders : MarkPaid(o) \/ CreditStripeTopupOrder(o)
  \/ \E o \in Orders : ReconcileRefund(o) \/ ReconcileRefundUnpaid(o) \/ ReconcileLegacyRefund(o)
  \/ \E n \in Gifts : IncreaseUserCashQuota(n) \/ IncreaseUserPromoQuota(n)
  \/ \E r \in Requests : \E n \in Amounts :
       PreConsume(r, n) \/ SettleMore(r, n) \/ SettleLess(r, n)
  \/ \E r \in Requests : SettleLess(r, 0) \/ Refund(r)
  \/ ExpireUserPromotionLots
  \/ \E price \in PlanPrices : PurchaseSubscriptionWithBalance(price)
  \/ \E n \in Overrides : OverrideQuota(n)
  \/ \E n \in Amounts : DecreaseUserQuota(n)
  \/ \E h \in Handlers : ReadUser(h) \/ UpdateWithTx(h)
  \/ Tick

Spec == Init /\ [][Next]_vars

-----------------------------------------------------------------------------
(* Properties. *)

\* The audit trail explains every lot: the ledger rows of a lot add up to what
\* is left in it, through every partial use, restore, expiry and reversal.
LedgerMatchesLots ==
  \A l \in LotIds : wallet.lots[l].ledger = wallet.lots[l].remaining

\* No credit is minted: what a lot still holds and what requests may give back
\* to it never exceed what it was created with. It makes the "credit lot
\* restore invariant violated" error of the restore unreachable.
NoCreditMinted ==
  \A l \in LotIds :
    wallet.lots[l].remaining
      + SumOver({r \in Requests : res[r].state = "held"}, [r \in Requests |-> res[r].alloc[l]])
    <= wallet.lots[l].original

\* Tracked promotion is part of promo_quota.
PromoLotsWithinPromoQuota == TrackedPromo(wallet) <= wallet.promo

\* Only two writers ever break that: the refund of an order without lots and a
\* profile update that writes an old promo_quota back. Every other transaction
\* keeps it: no charge, restore, expiry, reversal, purchase or override leaves
\* promotional lots that the balance does not hold.
PromoCoverKept ==
  [][PromoLotsWithinPromoQuota
       => \/ PromoLotsWithinPromoQuota'
          \/ \E o \in Orders : ReconcileLegacyRefund(o)
          \/ \E h \in Handlers : UpdateWithTx(h)]_vars

\* The balances nest: tracked promotion is part of the promotion, promotion is
\* part of the total, and the paid lots fit into the cash part, so
\* ReconcileRefund finds the balance to reverse ("credit lot balance invariant
\* failed during refund").
LotsWithinBalances ==
  /\ PromoLotsWithinPromoQuota
  /\ wallet.promo <= wallet.quota
  /\ TrackedPaid(wallet) <= wallet.quota - wallet.promo

\* Only four writers ever break the nesting: those two, and the two that know
\* quota alone, a purchase with balance and an administrator's override. Every
\* other transaction keeps it, from any state it holds in.
NestingKept ==
  [][LotsWithinBalances
       => \/ LotsWithinBalances'
          \/ \E o \in Orders : ReconcileLegacyRefund(o)
          \/ \E h \in Handlers : UpdateWithTx(h)
          \/ \E price \in PlanPrices : PurchaseSubscriptionWithBalance(price)
          \/ \E n \in Overrides : OverrideQuota(n)]_vars

\* While promo_quota covers the promotional lots, a deduction that the balance
\* covers is never refused by the check "promotional balance invariant violated"
\* of decreaseUserQuotaWithLots, whatever expires with it.
CoveredChargesPass ==
  PromoLotsWithinPromoQuota
    => \A n \in Amounts :
         LET e == ExpireLots(wallet) IN e.quota >= n => CanDeduct(wallet, n)

\* Reserving and giving everything back at once is the identity, however many
\* sources the reservation drew on (expired lots aside).
RefundUndoesReserve ==
  \A n \in Amounts :
    LET e == ExpireLots(wallet)
        a == Allocation(e, n)
        d == Deducted(wallet, n)
    IN CanDeduct(wallet, n) /\ e.quota <= MaxQuota
         => CanRestore(d, a) /\ Restored(d, a) = e

\* An order that was paid back keeps no credit: its lots stay empty
\* ("reverses only the remaining paid/promotional lots created by the refunded
\* order").
RefundedOrderHoldsNoCredit ==
  \A l \in LotIds :
    wallet.lots[l].order # NoOrder /\ order[wallet.lots[l].order] = "refunded"
      => wallet.lots[l].remaining = 0

=============================================================================
