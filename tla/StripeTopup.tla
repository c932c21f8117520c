---------------------------- MODULE StripeTopup ----------------------------
(***************************************************************************)
(* One-time top-ups by Stripe Checkout: service/stripetopup/checkout.go,   *)
(* webhook.go and refund.go, model/stripe_topup_order.go, the event table  *)
(* of model/stripe_webhook_event.go, and the page the customer is sent to  *)
(* afterwards (web/default, stripe-topup-success.tsx).                     *)
(*                                                                         *)
(* A checkout writes an order, opens a session at Stripe and stores the    *)
(* session's id. Stripe reports what happens to the session and to the     *)
(* payment in events, which it sends again until one delivery is           *)
(* acknowledged, in no particular order. A handler claims an event by      *)
(* inserting its id, works in several transactions, and gives the claim up *)
(* when it failed in a way worth retrying. The process may die between any *)
(* two of these steps.                                                     *)
(*                                                                         *)
(* The orders are those of one user: quota is that user's balance. Orders  *)
(* carry no promotional credit: BuildQuote never grants any.               *)
(***************************************************************************)
EXTENDS Integers, FiniteSets

CONSTANTS
  Orders,      \* top-up orders
  Payers,      \* orders whose customer acts on the checkout page
  PaidQuota,   \* credit of an order
  Cash,        \* balance of the user from other sources
  MaxQuota,    \* common.MaxQuota
  MaxTries,    \* polls of the success page: 40 in the code
  MaxEvents    \* bound on the events Stripe raises

ASSUME TopupAssumption ==
  /\ Payers \subseteq Orders
  /\ PaidQuota \in Nat \ {0} /\ Cash \in Nat /\ MaxQuota \in Nat /\ MaxTries \in Nat
  /\ MaxEvents \in Nat /\ IsFiniteSet(Orders)

VARIABLES
  status,      \* stripe_topup_orders.status; "none": no row
  hasSession,  \* orders whose stripe_checkout_session_id is stored
  lot,         \* what is left of the credit of an order
  credits,     \* number of topup_paid_credit ledger rows of an order
  quota,       \* users.quota
  checkout,    \* progress of CreateCheckout
  session,     \* the Checkout session at Stripe
  paid,        \* money taken by Stripe, and whether it is what the order asks for
  sent,        \* events Stripe has raised
  acked,       \* events Stripe will not send again
  claimed,     \* rows of stripe_webhook_events
  handler,     \* progress of ProcessVerifiedEvent
  page         \* success page: [state, tries, shown]

order == <<status, hasSession, lot, credits, quota>>
stripe == <<session, paid, sent>>
webhook == <<acked, claimed, handler>>
vars == <<order, checkout, stripe, webhook, page>>

Statuses == {"none", "pending", "checkout_created", "paid", "credited",
             "failed", "expired", "refunded", "manual_review"}

PaymentEvents == {"completed", "async_payment_succeeded"}
EventTypes == PaymentEvents \cup
  {"completed_unpaid", "async_payment_failed", "expired", "payment_failed", "refunded", "dispute"}
Events == [type : EventTypes, order : Orders]

PageRecords == [state : {"closed", "polling", "stopped"}, tries : Nat, shown : Statuses]

TypeOK ==
  /\ status \in [Orders -> Statuses]
  /\ hasSession \subseteq Orders
  /\ lot \in [Orders -> 0 .. PaidQuota]
  /\ credits \in [Orders -> Nat]
  /\ quota \in Nat
  /\ checkout \in [Orders -> {"idle", "ordered", "opened", "returned", "over"}]
  /\ session \in [Orders -> {"none", "open", "processing", "complete", "expired", "failed"}]
  /\ paid \in [Orders -> {"no", "match", "mismatch"}]
  /\ sent \subseteq Events /\ acked \subseteq Events /\ claimed \subseteq Events
  /\ handler \in [Events -> {"idle", "claimed", "crediting", "failing", "dead"}]
  /\ page \in [Orders -> PageRecords]

Init ==
  /\ status = [o \in Orders |-> "none"]
  /\ hasSession = {}
  /\ lot = [o \in Orders |-> 0]
  /\ credits = [o \in Orders |-> 0]
  /\ quota = Cash
  /\ checkout = [o \in Orders |-> "idle"]
  /\ session = [o \in Orders |-> "none"]
  /\ paid = [o \in Orders |-> "no"]
  /\ sent = {} /\ acked = {} /\ claimed = {}
  /\ handler = [e \in Events |-> "idle"]
  /\ page = [o \in Orders |-> [state |-> "closed", tries |-> 0, shown |-> "none"]]

-----------------------------------------------------------------------------
(* CreateCheckout. *)

\* createReservedOrder. stripe_checkout_session_id is unique and the row is
\* written with the empty id: a second order without a session is refused.
CreateReservedOrder(o) ==
  /\ checkout[o] = "idle"
  /\ \A p \in Orders : status[p] # "none" => p \in hasSession
  /\ status' = [status EXCEPT ![o] = "pending"]
  /\ checkout' = [checkout EXCEPT ![o] = "ordered"]
  /\ UNCHANGED <<hasSession, lot, credits, quota, stripe, webhook, page>>

\* session.New
OpenSession(o) ==
  /\ checkout[o] = "ordered"
  /\ session' = [session EXCEPT ![o] = "open"]
  /\ checkout' = [checkout EXCEPT ![o] = "opened"]
  /\ UNCHANGED <<order, paid, sent, webhook, page>>

\* session.New reports an error, whether or not Stripe opened the session: the
\* order is marked failed, and that error is dropped.
OpenSessionFails(o) ==
  /\ checkout[o] = "ordered"
  /\ \E s \in {"none", "open"} : session' = [session EXCEPT ![o] = s]
  /\ \E s \in {"pending", "failed"} : status' = [status EXCEPT ![o] = s]
  /\ checkout' = [checkout EXCEPT ![o] = "over"]
  /\ UNCHANGED <<hasSession, lot, credits, quota, paid, sent, webhook, page>>

\* The session is stored and its address returned to the customer.
ReturnSession(o) ==
  /\ checkout[o] = "opened"
  /\ status' = [status EXCEPT ![o] = "checkout_created"]
  /\ hasSession' = hasSession \cup {o}
  /\ checkout' = [checkout EXCEPT ![o] = "returned"]
  /\ UNCHANGED <<lot, credits, quota, stripe, webhook, page>>

\* DB.Save fails: the customer never sees the session.
SaveSessionFails(o) ==
  /\ checkout[o] = "opened"
  /\ checkout' = [checkout EXCEPT ![o] = "over"]
  /\ UNCHANGED <<order, stripe, webhook, page>>

-----------------------------------------------------------------------------
(* Stripe and the customer. *)

Raise(type, o) ==
  /\ Cardinality(sent) < MaxEvents
  /\ sent' = sent \cup {[type |-> type, order |-> o]}

CustomerActs(o) == o \in Payers /\ checkout[o] = "returned" /\ session[o] = "open"

\* The customer pays and is sent to the success page.
Pay(o) ==
  /\ CustomerActs(o)
  /\ session' = [session EXCEPT ![o] = "complete"]
  /\ \E p \in {"match", "mismatch"} : paid' = [paid EXCEPT ![o] = p]
  /\ Raise("completed", o)
  /\ page' = [page EXCEPT ![o].state = "polling"]
  /\ UNCHANGED <<order, checkout, webhook>>

\* A payment method that confirms later: the session completes unpaid.
PayLater(o) ==
  /\ CustomerActs(o)
  /\ session' = [session EXCEPT ![o] = "processing"]
  /\ Raise("completed_unpaid", o)
  /\ page' = [page EXCEPT ![o].state = "polling"]
  /\ UNCHANGED <<order, paid, checkout, webhook>>

AsyncPaymentSucceeds(o) ==
  /\ session[o] = "processing"
  /\ session' = [session EXCEPT ![o] = "complete"]
  /\ \E p \in {"match", "mismatch"} : paid' = [paid EXCEPT ![o] = p]
  /\ Raise("async_payment_succeeded", o)
  /\ UNCHANGED <<order, checkout, webhook, page>>

AsyncPaymentFails(o) ==
  /\ session[o] = "processing"
  /\ session' = [session EXCEPT ![o] = "failed"]
  /\ Raise("async_payment_failed", o)
  /\ UNCHANGED <<order, paid, checkout, webhook, page>>

\* A declined card; the session stays open for another attempt.
Decline(o) ==
  /\ CustomerActs(o)
  /\ [type |-> "payment_failed", order |-> o] \notin sent
  /\ Raise("payment_failed", o)
  /\ UNCHANGED <<order, session, paid, checkout, webhook, page>>

\* A session outlives the request that opened it by hours.
Expire(o) ==
  /\ session[o] = "open" /\ checkout[o] \in {"returned", "over"}
  /\ session' = [session EXCEPT ![o] = "expired"]
  /\ Raise("expired", o)
  /\ UNCHANGED <<order, paid, checkout, webhook, page>>

\* The operator refunds the charge, or the customer's bank disputes it.
RefundOrDispute(o) ==
  /\ paid[o] # "no"
  /\ \E type \in {"refunded", "dispute"} :
       [type |-> type, order |-> o] \notin sent /\ Raise(type, o)
  /\ UNCHANGED <<order, session, paid, checkout, webhook, page>>

-----------------------------------------------------------------------------
(* ProcessVerifiedEvent. *)

\* TryInsertStripeWebhookEvent
Claim(e) ==
  /\ e \in sent \ (acked \cup claimed)
  /\ claimed' = claimed \cup {e}
  /\ handler' = [handler EXCEPT ![e] = "claimed"]
  /\ UNCHANGED <<order, checkout, stripe, acked, page>>

\* Another delivery of an event that has a row is acknowledged, whether the
\* handler is done, still at work or gone.
IgnoreDuplicate(e) ==
  /\ e \in claimed \ acked
  /\ acked' = acked \cup {e}
  /\ UNCHANGED <<order, checkout, stripe, claimed, handler, page>>

Done(e) == handler' = [handler EXCEPT ![e] = "idle"] /\ acked' = acked \cup {e}
Fail(e) == handler' = [handler EXCEPT ![e] = "failing"] /\ UNCHANGED acked

\* Mutant: a late event overwrites any status.
MarkStatusUnguarded(e, to) ==
  /\ status' = [status EXCEPT ![e.order] = to]
  /\ Done(e)

\* MarkStripeTopupOrderStatus(orderID, "*", to): what was credited or refunded
\* is left alone, with an error that is retried.
MarkStatus(e, to) ==
  IF status[e.order] \in {"credited", "refunded"}
  THEN Fail(e) /\ UNCHANGED status
  ELSE status' = [status EXCEPT ![e.order] = to] /\ Done(e)

\* Mutant: the amount of the event is not compared with the order's.
HandleCheckoutPaidUnchecked(e) ==
  LET o == e.order IN
  /\ handler[e] = "claimed" /\ e.type \in PaymentEvents
  /\ handler' = [handler EXCEPT ![e] = "crediting"]
  /\ status' = [status EXCEPT ![o] = IF @ \in {"pending", "checkout_created"} THEN "paid" ELSE @]
  /\ hasSession' = hasSession \cup {o}
  /\ UNCHANGED <<acked, lot, credits, quota, checkout, stripe, claimed, page>>

\* handleCheckoutPaid up to the credit. A payment that is not what the order
\* asks for goes to an operator, and the event counts as handled also when that
\* write failed. The result of marking the order paid is not looked at either.
HandleCheckoutPaid(e) ==
  LET o == e.order IN
  /\ handler[e] = "claimed" /\ e.type \in PaymentEvents
  /\ \/ /\ paid[o] = "mismatch"
        /\ \/ status[o] \notin {"credited", "refunded"} /\ status' = [status EXCEPT ![o] = "manual_review"]
           \/ UNCHANGED status
        /\ Done(e)
        /\ UNCHANGED hasSession
     \/ /\ paid[o] = "match"
        /\ \/ /\ status[o] \in {"pending", "checkout_created"}
              /\ status' = [status EXCEPT ![o] = "paid"]
              /\ hasSession' = hasSession \cup {o}
           \/ UNCHANGED <<status, hasSession>>
        /\ handler' = [handler EXCEPT ![e] = "crediting"]
        /\ UNCHANGED acked
  /\ UNCHANGED <<lot, credits, quota, checkout, stripe, claimed, page>>

Creditable == {"pending", "checkout_created", "paid"}

\* Mutant: an order that failed can still be credited.
CanCreditFailed(o) == status[o] \in Creditable \cup {"failed"} /\ quota <= MaxQuota - PaidQuota

\* Mutant: the status is not looked at again under the lock.
CanCreditAlways(o) == status[o] # "none" /\ quota <= MaxQuota - PaidQuota

CanCredit(o) == status[o] \in Creditable /\ quota <= MaxQuota - PaidQuota

\* CreditStripeTopupOrder, the transaction, but for the session that is stored
\* when the caller knows it.
CreditOrder(o) ==
  /\ CanCredit(o)
  /\ status' = [status EXCEPT ![o] = "credited"]
  /\ lot' = [lot EXCEPT ![o] = PaidQuota]
  /\ credits' = [credits EXCEPT ![o] = @ + 1]
  /\ quota' = quota + PaidQuota

\* handleCheckoutPaid, the credit.
CreditStripeTopupOrder(e) ==
  /\ handler[e] = "crediting"
  /\ \/ CreditOrder(e.order) /\ hasSession' = hasSession \cup {e.order} /\ Done(e)
     \/ status[e.order] = "credited" /\ Done(e) /\ UNCHANGED order
     \/ status[e.order] # "credited" /\ ~CanCredit(e.order) /\ Fail(e) /\ UNCHANGED order
  /\ UNCHANGED <<checkout, stripe, claimed, page>>

\* The transaction fails in the database.
CreditFails(e) ==
  /\ handler[e] = "crediting"
  /\ Fail(e)
  /\ UNCHANGED <<order, checkout, stripe, claimed, page>>

\* The events that only move the status; a completed session without payment
\* moves nothing.
HandleStatusEvent(e) ==
  /\ handler[e] = "claimed"
  /\ \/ e.type = "completed_unpaid" /\ Done(e) /\ UNCHANGED status
     \/ e.type \in {"async_payment_failed", "payment_failed"} /\ MarkStatus(e, "failed")
     \/ e.type = "expired" /\ MarkStatus(e, "expired")
     \/ e.type = "dispute" /\ MarkStatus(e, "manual_review")
  /\ UNCHANGED <<hasSession, lot, credits, quota, checkout, stripe, claimed, page>>

\* Mutant: the whole credit is taken back, used or not.
TakeBackAll(o) ==
  /\ credits[o] > 0
  /\ quota' = IF quota < PaidQuota THEN 0 ELSE quota - PaidQuota
  /\ lot' = [lot EXCEPT ![o] = 0]
  /\ status' = [status EXCEPT ![o] = "refunded"]

\* ReconcileRefund of an order with a lot: what is left of it is reversed.
TakeBack(o) ==
  /\ credits[o] > 0
  /\ IF quota < lot[o]
     THEN status' = [status EXCEPT ![o] = "manual_review"] /\ UNCHANGED <<lot, quota>>
     ELSE /\ quota' = quota - lot[o]
          /\ lot' = [lot EXCEPT ![o] = 0]
          /\ status' = [status EXCEPT ![o] = "refunded"]

\* Mutant: the balance is not looked at.
TakeBackLegacyUnchecked(o) ==
  /\ credits[o] = 0
  /\ quota' = quota - PaidQuota
  /\ status' = [status EXCEPT ![o] = "refunded"]
  /\ UNCHANGED lot

\* reconcileLegacyRefundWithTx: an order without lots takes its full amount
\* out of the balance, as far as that goes.
TakeBackLegacy(o) ==
  /\ credits[o] = 0
  /\ quota' = IF quota < PaidQuota THEN 0 ELSE quota - PaidQuota
  /\ status' = [status EXCEPT ![o] = IF quota < PaidQuota THEN "manual_review" ELSE "refunded"]
  /\ UNCHANGED lot

\* handleChargeRefunded: ReconcileRefund, one transaction.
HandleChargeRefunded(e) ==
  LET o == e.order IN
  /\ handler[e] = "claimed" /\ e.type = "refunded"
  /\ \/ status[o] = "refunded" /\ UNCHANGED <<status, lot, quota>>
     \/ /\ status[o] \notin {"refunded", "credited", "paid"}
        /\ status' = [status EXCEPT ![o] = "manual_review"]
        /\ UNCHANGED <<lot, quota>>
     \/ status[o] \in {"credited", "paid"} /\ (TakeBack(o) \/ TakeBackLegacy(o))
  /\ Done(e)
  /\ UNCHANGED <<hasSession, credits, checkout, stripe, claimed, page>>

\* Mutant: the claim of a failed handler is kept.
ReleaseKeepsClaim(e) ==
  /\ handler[e] = "failing"
  /\ handler' = [handler EXCEPT ![e] = "idle"]
  /\ UNCHANGED <<order, checkout, stripe, acked, claimed, page>>

\* A failed handler deletes the event row, so that the next delivery counts.
Release(e) ==
  /\ handler[e] = "failing"
  /\ claimed' = claimed \ {e}
  /\ handler' = [handler EXCEPT ![e] = "idle"]
  /\ UNCHANGED <<order, checkout, stripe, acked, page>>

\* The row cannot be deleted.
ReleaseFails(e) ==
  /\ handler[e] = "failing"
  /\ handler' = [handler EXCEPT ![e] = "dead"]
  /\ UNCHANGED <<order, checkout, stripe, acked, claimed, page>>

\* The process dies: requests under way end, what they wrote stays.
Crash ==
  /\ handler' = [e \in Events |-> IF handler[e] = "idle" THEN "idle" ELSE "dead"]
  /\ checkout' = [o \in Orders |-> IF checkout[o] \in {"ordered", "opened"} THEN "over" ELSE checkout[o]]
  /\ UNCHANGED <<order, stripe, acked, claimed, page>>

-----------------------------------------------------------------------------
(* Administrator, usage, success page. *)

\* An administrator retries orders that are stuck, not one whose checkout
\* request is still at work: its DB.Save would write the old row back. The
\* session passed on is the one the order has, if any.
AdminRetryTopupCredit(o) ==
  /\ checkout[o] \in {"returned", "over"}
  /\ CreditOrder(o)
  /\ UNCHANGED <<hasSession, checkout, stripe, webhook, page>>

\* Usage takes from a lot while there is one, then from the other cash.
Spend ==
  /\ quota > 0
  /\ quota' = quota - 1
  /\ \/ \E o \in Orders : lot[o] > 0 /\ lot' = [lot EXCEPT ![o] = @ - 1]
     \/ (\A o \in Orders : lot[o] = 0) /\ UNCHANGED lot
  /\ UNCHANGED <<status, hasSession, credits, checkout, stripe, webhook, page>>

\* The statuses at which the page stops asking.
PageFinal == {"credited", "failed", "expired", "manual_review", "refunded"}

\* tick: the answer is shown; a request that fails shows nothing new.
Poll(o) ==
  /\ page[o].state = "polling"
  /\ \E answer \in {page[o].shown, status[o]} :
       LET tries == page[o].tries + 1
           final == answer = status[o] /\ answer \in PageFinal
       IN page' = [page EXCEPT ![o] =
                     [state |-> IF final \/ tries >= MaxTries THEN "stopped" ELSE "polling",
                      tries |-> IF final THEN page[o].tries ELSE tries,
                      shown |-> answer]]
  /\ UNCHANGED <<order, checkout, stripe, webhook>>

-----------------------------------------------------------------------------
Handle(e) ==
  \/ HandleCheckoutPaid(e) \/ CreditStripeTopupOrder(e)
  \/ HandleStatusEvent(e) \/ HandleChargeRefunded(e)

Next ==
  \/ \E o \in Orders :
       \/ CreateReservedOrder(o) \/ OpenSession(o) \/ OpenSessionFails(o)
       \/ ReturnSession(o) \/ SaveSessionFails(o)
       \/ Pay(o) \/ PayLater(o) \/ AsyncPaymentSucceeds(o) \/ AsyncPaymentFails(o)
       \/ Decline(o) \/ Expire(o) \/ RefundOrDispute(o)
       \/ AdminRetryTopupCredit(o) \/ Poll(o)
  \/ \E e \in Events :
       Claim(e) \/ IgnoreDuplicate(e) \/ Handle(e) \/ CreditFails(e) \/ Release(e) \/ ReleaseFails(e)
  \/ Crash
  \/ Spend

Spec == Init /\ [][Next]_vars

\* Stripe sends an event again until it is acknowledged; a handler that runs
\* takes its steps, and the database does not fail for ever. Only the events
\* of payments need it for what is promised below.
Fairness ==
  \A e \in [type : PaymentEvents, order : Payers] :
    /\ WF_vars(Claim(e)) /\ WF_vars(HandleCheckoutPaid(e))
    /\ SF_vars(CreditStripeTopupOrder(e)) /\ WF_vars(Release(e) \/ ReleaseFails(e))

FairSpec == Spec /\ Fairness

-----------------------------------------------------------------------------
(* Properties. *)

\* An order is credited once, however its events are repeated, reordered and
\* interleaved with each other and with an administrator's retry.
CreditedAtMostOnce == \A o \in Orders : credits[o] <= 1

\* Only an administrator credits an order without Stripe having taken the
\* amount the order asks for.
CreditNeedsPayment ==
  [][\A o \in Orders :
       credits'[o] > credits[o] => paid[o] = "match" \/ AdminRetryTopupCredit(o)]_vars

\* Late events do not undo a credit: a credited order is only ever refunded
\* or, when the balance no longer covers its lot, handed to an operator.
CreditSticks ==
  [][\A o \in Orders :
       status[o] = "credited" => status'[o] \in {"credited", "refunded", "manual_review"}]_vars

\* A refund takes back what is left of the order's own credit ("reverses only
\* the remaining paid/promotional lots created by the refunded order"), with
\* one exception: an order paid but never credited takes its amount from
\* credit that is not its own.
RefundTakesOwnCredit ==
  [][\A o \in Orders :
       status[o] # "refunded" /\ status'[o] = "refunded"
         => quota - quota' = lot[o] \/ (status[o] = "paid" /\ credits[o] = 0)]_vars

\* Once the success page has said that a payment was not credited, it is not
\* credited any more: the statuses at which the page stops polling are the
\* ones CreditStripeTopupOrder refuses.
PageVerdictFinal ==
  [][\A o \in Orders :
       page[o].shown \in PageFinal => credits'[o] = credits[o]]_vars

\* What CreditedAtMostOnce, CreditSticks and RefundTakesOwnCredit rest on: the
\* status tells whether the order has its credit.
StatusTellsCredit ==
  \A o \in Orders :
    /\ status[o] \in Creditable \cup {"none"} => credits[o] = 0
    /\ status[o] = "credited" => credits[o] > 0

\* What CreditNeedsPayment rests on: nothing happens to a payment before the
\* checkout request ended, and a payment taken stays as it is.
CheckoutOrder ==
  \A o \in Orders :
    /\ checkout[o] = "idle" => status[o] = "none"
    /\ checkout[o] \in {"ordered", "opened"} => status[o] = "pending"
    /\ checkout[o] \in {"idle", "ordered", "opened"} => paid[o] = "no" /\ session[o] # "processing"
    /\ session[o] \in {"open", "processing"} => paid[o] = "no"

\* No event is raised before the checkout request ended, and a handler about
\* to credit has seen a matching payment.
EventOrder ==
  \A e \in Events :
    /\ e \in sent => checkout[e.order] \in {"returned", "over"}
    /\ handler[e] # "idle" => e \in sent
    /\ handler[e] = "crediting" => paid[e.order] = "match"

\* What PageVerdictFinal rests on.
PageShowsFinal ==
  \A o \in Orders : page[o].shown \in PageFinal => status[o] \notin Creditable \cup {"none"}

IInv ==
  TypeOK /\ CreditedAtMostOnce /\ StatusTellsCredit /\ CheckoutOrder /\ EventOrder /\ PageShowsFinal

\* The event of a payment was acknowledged without having been handled: its
\* claim outlived the handler, or a second delivery was acknowledged while a
\* first one was about to fail.
Lost(e) == handler[e] = "dead" \/ (e \in acked /\ e \notin claimed)

\* A payment Stripe took is credited, or given to an operator, unless its
\* event was lost, a failed attempt at paying marked the order failed, or the
\* balance is at its limit. These are all the ways in which a payment is left
\* without credit.
PaidOrdersSettle ==
  \A o \in Orders :
    paid[o] = "match" ~>
      \/ status[o] \in {"credited", "refunded", "manual_review"}
      \/ \E type \in PaymentEvents : Lost([type |-> type, order |-> o])
      \/ status[o] = "failed"
      \/ quota > MaxQuota - PaidQuota

\* "AdminRetryTopupCredit re-runs credit for paid orders stuck without
\* credit": an order Stripe was paid for, and that was neither credited nor
\* handed to an operator, is one the retry can credit.
RetryCreditsPaidOrders ==
  \A o \in Orders :
    paid[o] = "match" /\ status[o] \notin {"credited", "refunded", "manual_review"}
      => status[o] \in Creditable
=============================================================================
