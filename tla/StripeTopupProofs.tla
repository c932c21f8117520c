-------------------------- MODULE StripeTopupProofs --------------------------
(***************************************************************************)
(* Proofs about StripeTopup, for any number of orders, any amounts and any *)
(* bound on the events. The inductive invariant is IInv of that module:    *)
(* one lemma per action shows that the action keeps it.                    *)
(***************************************************************************)
EXTENDS StripeTopup, TLAPS

\* The initial states satisfy the inductive invariant.
LEMMA InitIInv == Init => IInv
  BY TopupAssumption DEF Init, IInv, TypeOK, CreditedAtMostOnce, StatusTellsCredit, CheckoutOrder,
     EventOrder, PageShowsFinal, PageRecords, Statuses, Creditable, PageFinal, Events

\* An event's order is an order, and an event of an order is an event.
LEMMA EventsAreRecords ==
  /\ \A e \in Events : e.order \in Orders /\ e.type \in EventTypes
  /\ \A o \in Orders, t \in EventTypes :
       [type |-> t, order |-> o] \in Events /\ [type |-> t, order |-> o].order = o
  BY DEF Events

\* CreateReservedOrder keeps the inductive invariant.
LEMMA CreateReservedOrderKeeps ==
  ASSUME IInv, NEW o \in Orders, CreateReservedOrder(o)
  PROVE  IInv'
<1>1. TypeOK'
  BY TopupAssumption, EventsAreRecords DEF IInv, TypeOK, Statuses, EventTypes, PaymentEvents, CreateReservedOrder, order, stripe, webhook
<1>2. CreditedAtMostOnce'
  BY TopupAssumption, EventsAreRecords DEF IInv, TypeOK, CreditedAtMostOnce, StatusTellsCredit, Creditable, CheckoutOrder, CreateReservedOrder, order, stripe, webhook
<1>3. StatusTellsCredit'
  BY TopupAssumption, EventsAreRecords DEF IInv, TypeOK, StatusTellsCredit, Creditable, CheckoutOrder, CreateReservedOrder, order, stripe, webhook
<1>4. CheckoutOrder'
  BY TopupAssumption, EventsAreRecords DEF IInv, TypeOK, CheckoutOrder, EventOrder, CreateReservedOrder, order, stripe, webhook
<1>5. PageShowsFinal'
  BY TopupAssumption, EventsAreRecords DEF IInv, TypeOK, PageShowsFinal, Creditable, PageFinal, CheckoutOrder, Statuses, PageRecords, CreateReservedOrder, order, stripe, webhook
<1>6. EventOrder'
  <2> SUFFICES ASSUME NEW f \in Events
               PROVE  /\ f \in sent' => checkout'[f.order] \in {"returned", "over"}
                      /\ handler'[f] # "idle" => f \in sent'
                      /\ handler'[f] = "crediting" => paid'[f.order] = "match"
    BY DEF EventOrder
  <2>1. f.order \in Orders
    BY EventsAreRecords
  <2>2. /\ f \in sent => checkout[f.order] \in {"returned", "over"}
        /\ handler[f] # "idle" => f \in sent
        /\ handler[f] = "crediting" => paid[f.order] = "match"
    BY DEF IInv, EventOrder
  <2> QED
    BY <2>1, <2>2, EventsAreRecords DEF IInv, TypeOK, CheckoutOrder, EventTypes, PaymentEvents, CreateReservedOrder, order, stripe, webhook
<1> QED  BY <1>1, <1>2, <1>3, <1>4, <1>5, <1>6 DEF IInv

\* OpenSession keeps the inductive invariant.
LEMMA OpenSessionKeeps ==
  ASSUME IInv, NEW o \in Orders, OpenSession(o)
  PROVE  IInv'
<1>1. TypeOK'
  BY TopupAssumption, EventsAreRecords DEF IInv, TypeOK, Statuses, EventTypes, PaymentEvents, OpenSession, order, stripe, webhook
<1>2. CreditedAtMostOnce'
  BY TopupAssumption, EventsAreRecords DEF IInv, TypeOK, CreditedAtMostOnce, StatusTellsCredit, Creditable, CheckoutOrder, OpenSession, order, stripe, webhook
<1>3. StatusTellsCredit'
  BY TopupAssumption, EventsAreRecords DEF IInv, TypeOK, StatusTellsCredit, Creditable, CheckoutOrder, OpenSession, order, stripe, webhook
<1>4. CheckoutOrder'
  BY TopupAssumption, EventsAreRecords DEF IInv, TypeOK, CheckoutOrder, EventOrder, OpenSession, order, stripe, webhook
<1>5. PageShowsFinal'
  BY TopupAssumption, EventsAreRecords DEF IInv, TypeOK, PageShowsFinal, Creditable, PageFinal, CheckoutOrder, Statuses, PageRecords, OpenSession, order, stripe, webhook
<1>6. EventOrder'
  <2> SUFFICES ASSUME NEW f \in Events
               PROVE  /\ f \in sent' => checkout'[f.order] \in {"returned", "over"}
                      /\ handler'[f] # "idle" => f \in sent'
                      /\ handler'[f] = "crediting" => paid'[f.order] = "match"
    BY DEF EventOrder
  <2>1. f.order \in Orders
    BY EventsAreRecords
  <2>2. /\ f \in sent => checkout[f.order] \in {"returned", "over"}
        /\ handler[f] # "idle" => f \in sent
        /\ handler[f] = "crediting" => paid[f.order] = "match"
    BY DEF IInv, EventOrder
  <2> QED
    BY <2>1, <2>2, EventsAreRecords DEF IInv, TypeOK, CheckoutOrder, EventTypes, PaymentEvents, OpenSession, order, stripe, webhook
<1> QED  BY <1>1, <1>2, <1>3, <1>4, <1>5, <1>6 DEF IInv

\* OpenSessionFails keeps the inductive invariant.
LEMMA OpenSessionFailsKeeps ==
  ASSUME IInv, NEW o \in Orders, OpenSessionFails(o)
  PROVE  IInv'
<1>1. TypeOK'
  <2>1. (status \in [Orders -> Statuses])'
    BY TopupAssumption, EventsAreRecords DEF IInv, TypeOK, Statuses, OpenSessionFails, order, stripe, webhook
  <2>2. (session \in [Orders -> {"none", "open", "processing", "complete", "expired", "failed"}])'
    BY TopupAssumption, EventsAreRecords DEF IInv, TypeOK, OpenSessionFails, order, stripe, webhook
  <2>3. (checkout \in [Orders -> {"idle", "ordered", "opened", "returned", "over"}])'
    BY TopupAssumption, EventsAreRecords DEF IInv, TypeOK, OpenSessionFails, order, stripe, webhook
  <2>4. UNCHANGED <<hasSession, lot, credits, quota, paid, sent, acked, claimed, handler, page>>
    BY DEF OpenSessionFails, order, stripe, webhook
  <2> QED  BY <2>1, <2>2, <2>3, <2>4 DEF IInv, TypeOK
<1>2. CreditedAtMostOnce'
  BY TopupAssumption, EventsAreRecords DEF IInv, TypeOK, CreditedAtMostOnce, StatusTellsCredit, Creditable, CheckoutOrder, OpenSessionFails, order, stripe, webhook
<1>3. StatusTellsCredit'
  BY TopupAssumption, EventsAreRecords DEF IInv, TypeOK, StatusTellsCredit, Creditable, CheckoutOrder, OpenSessionFails, order, stripe, webhook
<1>4. CheckoutOrder'
  BY TopupAssumption, EventsAreRecords DEF IInv, TypeOK, CheckoutOrder, EventOrder, OpenSessionFails, order, stripe, webhook
<1>5. PageShowsFinal'
  BY TopupAssumption, EventsAreRecords DEF IInv, TypeOK, PageShowsFinal, Creditable, PageFinal, CheckoutOrder, Statuses, PageRecords, OpenSessionFails, order, stripe, webhook
<1>6. EventOrder'
  <2> SUFFICES ASSUME NEW f \in Events
               PROVE  /\ f \in sent' => checkout'[f.order] \in {"returned", "over"}
                      /\ handler'[f] # "idle" => f \in sent'
                      /\ handler'[f] = "crediting" => paid'[f.order] = "match"
    BY DEF EventOrder
  <2>1. f.order \in Orders
    BY EventsAreRecords
  <2>2. /\ f \in sent => checkout[f.order] \in {"returned", "over"}
        /\ handler[f] # "idle" => f \in sent
        /\ handler[f] = "crediting" => paid[f.order] = "match"
    BY DEF IInv, EventOrder
  <2> QED
    BY <2>1, <2>2, EventsAreRecords DEF IInv, TypeOK, CheckoutOrder, EventTypes, PaymentEvents, OpenSessionFails, order, stripe, webhook
<1> QED  BY <1>1, <1>2, <1>3, <1>4, <1>5, <1>6 DEF IInv

\* ReturnSession keeps the inductive invariant.
LEMMA ReturnSessionKeeps ==
  ASSUME IInv, NEW o \in Orders, ReturnSession(o)
  PROVE  IInv'
<1>1. TypeOK'
  BY TopupAssumption, EventsAreRecords DEF IInv, TypeOK, Statuses, EventTypes, PaymentEvents, ReturnSession, order, stripe, webhook
<1>2. CreditedAtMostOnce'
  BY TopupAssumption, EventsAreRecords DEF IInv, TypeOK, CreditedAtMostOnce, StatusTellsCredit, Creditable, CheckoutOrder, ReturnSession, order, stripe, webhook
<1>3. StatusTellsCredit'
  BY TopupAssumption, EventsAreRecords DEF IInv, TypeOK, StatusTellsCredit, Creditable, CheckoutOrder, ReturnSession, order, stripe, webhook
<1>4. CheckoutOrder'
  BY TopupAssumption, EventsAreRecords DEF IInv, TypeOK, CheckoutOrder, EventOrder, ReturnSession, order, stripe, webhook
<1>5. PageShowsFinal'
  BY TopupAssumption, EventsAreRecords DEF IInv, TypeOK, PageShowsFinal, Creditable, PageFinal, CheckoutOrder, Statuses, PageRecords, ReturnSession, order, stripe, webhook
<1>6. EventOrder'
  <2> SUFFICES ASSUME NEW f \in Events
               PROVE  /\ f \in sent' => checkout'[f.order] \in {"returned", "over"}
                      /\ handler'[f] # "idle" => f \in sent'
                      /\ handler'[f] = "crediting" => paid'[f.order] = "match"
    BY DEF EventOrder
  <2>1. f.order \in Orders
    BY EventsAreRecords
  <2>2. /\ f \in sent => checkout[f.order] \in {"returned", "over"}
        /\ handler[f] # "idle" => f \in sent
        /\ handler[f] = "crediting" => paid[f.order] = "match"
    BY DEF IInv, EventOrder
  <2> QED
    BY <2>1, <2>2, EventsAreRecords DEF IInv, TypeOK, CheckoutOrder, EventTypes, PaymentEvents, ReturnSession, order, stripe, webhook
<1> QED  BY <1>1, <1>2, <1>3, <1>4, <1>5, <1>6 DEF IInv

\* SaveSessionFails keeps the inductive invariant.
LEMMA SaveSessionFailsKeeps ==
  ASSUME IInv, NEW o \in Orders, SaveSessionFails(o)
  PROVE  IInv'
<1>1. TypeOK'
  BY TopupAssumption, EventsAreRecords DEF IInv, TypeOK, Statuses, EventTypes, PaymentEvents, SaveSessionFails, order, stripe, webhook
<1>2. CreditedAtMostOnce'
  BY TopupAssumption, EventsAreRecords DEF IInv, TypeOK, CreditedAtMostOnce, StatusTellsCredit, Creditable, CheckoutOrder, SaveSessionFails, order, stripe, webhook
<1>3. StatusTellsCredit'
  BY TopupAssumption, EventsAreRecords DEF IInv, TypeOK, StatusTellsCredit, Creditable, CheckoutOrder, SaveSessionFails, order, stripe, webhook
<1>4. CheckoutOrder'
  BY TopupAssumption, EventsAreRecords DEF IInv, TypeOK, CheckoutOrder, EventOrder, SaveSessionFails, order, stripe, webhook
<1>5. PageShowsFinal'
  BY TopupAssumption, EventsAreRecords DEF IInv, TypeOK, PageShowsFinal, Creditable, PageFinal, CheckoutOrder, Statuses, PageRecords, SaveSessionFails, order, stripe, webhook
<1>6. EventOrder'
  <2> SUFFICES ASSUME NEW f \in Events
               PROVE  /\ f \in sent' => checkout'[f.order] \in {"returned", "over"}
                      /\ handler'[f] # "idle" => f \in sent'
                      /\ handler'[f] = "crediting" => paid'[f.order] = "match"
    BY DEF EventOrder
  <2>1. f.order \in Orders
    BY EventsAreRecords
  <2>2. /\ f \in sent => checkout[f.order] \in {"returned", "over"}
        /\ handler[f] # "idle" => f \in sent
        /\ handler[f] = "crediting" => paid[f.order] = "match"
    BY DEF IInv, EventOrder
  <2> QED
    BY <2>1, <2>2, EventsAreRecords DEF IInv, TypeOK, CheckoutOrder, EventTypes, PaymentEvents, SaveSessionFails, order, stripe, webhook
<1> QED  BY <1>1, <1>2, <1>3, <1>4, <1>5, <1>6 DEF IInv

\* Pay keeps the inductive invariant.
LEMMA PayKeeps ==
  ASSUME IInv, NEW o \in Orders, Pay(o)
  PROVE  IInv'
<1>1. TypeOK'
  <2>1. (session \in [Orders -> {"none", "open", "processing", "complete", "expired", "failed"}])'
    BY TopupAssumption, EventsAreRecords DEF IInv, TypeOK, Pay, order, stripe, webhook, Raise, CustomerActs
  <2>2. (paid \in [Orders -> {"no", "match", "mismatch"}])'
    BY TopupAssumption, EventsAreRecords DEF IInv, TypeOK, Pay, order, stripe, webhook, Raise, CustomerActs
  <2>3. (sent \subseteq Events)'
    BY EventsAreRecords DEF IInv, TypeOK, EventTypes, PaymentEvents, Pay, Raise
  <2>4. (page \in [Orders -> PageRecords])'
    <3>1. page \in [Orders -> PageRecords]
      BY DEF IInv, TypeOK
    <3>2. page' = [page EXCEPT ![o].state = "polling"]
      BY DEF Pay
    <3>3. [page[o] EXCEPT !.state = "polling"] \in PageRecords
      BY <3>1 DEF PageRecords
    <3>4. page' = [page EXCEPT ![o] = [page[o] EXCEPT !.state = "polling"]]
      BY <3>2
    <3> QED  BY <3>1, <3>3, <3>4
  <2>5. UNCHANGED <<status, hasSession, lot, credits, quota, checkout, acked, claimed, handler>>
    BY DEF Pay, order, stripe, webhook, Raise, CustomerActs
  <2> QED  BY <2>1, <2>2, <2>3, <2>4, <2>5 DEF IInv, TypeOK
<1>2. CreditedAtMostOnce'
  BY TopupAssumption, EventsAreRecords DEF IInv, TypeOK, CreditedAtMostOnce, StatusTellsCredit, Creditable, CheckoutOrder, Pay, order, stripe, webhook, Raise, CustomerActs
<1>3. StatusTellsCredit'
  BY TopupAssumption, EventsAreRecords DEF IInv, TypeOK, StatusTellsCredit, Creditable, CheckoutOrder, Pay, order, stripe, webhook, Raise, CustomerActs
<1>4. CheckoutOrder'
  BY TopupAssumption, EventsAreRecords DEF IInv, TypeOK, CheckoutOrder, EventOrder, Pay, order, stripe, webhook, Raise, CustomerActs
<1>5. PageShowsFinal'
  BY TopupAssumption, EventsAreRecords DEF IInv, TypeOK, PageShowsFinal, Creditable, PageFinal, CheckoutOrder, Statuses, PageRecords, Pay, order, stripe, webhook, Raise, CustomerActs
<1>6. EventOrder'
  <2> SUFFICES ASSUME NEW f \in Events
               PROVE  /\ f \in sent' => checkout'[f.order] \in {"returned", "over"}
                      /\ handler'[f] # "idle" => f \in sent'
                      /\ handler'[f] = "crediting" => paid'[f.order] = "match"
    BY DEF EventOrder
  <2>1. f.order \in Orders
    BY EventsAreRecords
  <2>2. /\ f \in sent => checkout[f.order] \in {"returned", "over"}
        /\ handler[f] # "idle" => f \in sent
        /\ handler[f] = "crediting" => paid[f.order] = "match"
    BY DEF IInv, EventOrder
  <2>3. sent \subseteq sent' /\ (f \in sent' => f \in sent \/ f.order = o)
    BY EventsAreRecords DEF Pay, Raise, EventTypes, PaymentEvents
  <2> QED
    BY <2>1, <2>2, <2>3 DEF IInv, TypeOK, CheckoutOrder, Pay, order, stripe, webhook, CustomerActs
<1> QED  BY <1>1, <1>2, <1>3, <1>4, <1>5, <1>6 DEF IInv

\* PayLater keeps the inductive invariant.
LEMMA PayLaterKeeps ==
  ASSUME IInv, NEW o \in Orders, PayLater(o)
  PROVE  IInv'
<1>1. TypeOK'
  <2>1. (session \in [Orders -> {"none", "open", "processing", "complete", "expired", "failed"}])'
    BY TopupAssumption, EventsAreRecords DEF IInv, TypeOK, PayLater, order, stripe, webhook, Raise, CustomerActs
  <2>2. (sent \subseteq Events)'
    BY EventsAreRecords DEF IInv, TypeOK, EventTypes, PaymentEvents, PayLater, Raise
  <2>3. (page \in [Orders -> PageRecords])'
    <3>1. page \in [Orders -> PageRecords]
      BY DEF IInv, TypeOK
    <3>2. page' = [page EXCEPT ![o].state = "polling"]
      BY DEF PayLater
    <3>3. [page[o] EXCEPT !.state = "polling"] \in PageRecords
      BY <3>1 DEF PageRecords
    <3>4. page' = [page EXCEPT ![o] = [page[o] EXCEPT !.state = "polling"]]
      BY <3>2
    <3> QED  BY <3>1, <3>3, <3>4
  <2>4. UNCHANGED <<status, hasSession, lot, credits, quota, checkout, paid, acked, claimed, handler>>
    BY DEF PayLater, order, stripe, webhook, Raise, CustomerActs
  <2> QED  BY <2>1, <2>2, <2>3, <2>4 DEF IInv, TypeOK
<1>2. CreditedAtMostOnce'
  BY TopupAssumption, EventsAreRecords DEF IInv, TypeOK, CreditedAtMostOnce, StatusTellsCredit, Creditable, CheckoutOrder, PayLater, order, stripe, webhook, Raise, CustomerActs
<1>3. StatusTellsCredit'
  BY TopupAssumption, EventsAreRecords DEF IInv, TypeOK, StatusTellsCredit, Creditable, CheckoutOrder, PayLater, order, stripe, webhook, Raise, CustomerActs
<1>4. CheckoutOrder'
  BY TopupAssumption, EventsAreRecords DEF IInv, TypeOK, CheckoutOrder, EventOrder, PayLater, order, stripe, webhook, Raise, CustomerActs
<1>5. PageShowsFinal'
  BY TopupAssumption, EventsAreRecords DEF IInv, TypeOK, PageShowsFinal, Creditable, PageFinal, CheckoutOrder, Statuses, PageRecords, PayLater, order, stripe, webhook, Raise, CustomerActs
<1>6. EventOrder'
  <2> SUFFICES ASSUME NEW f \in Events
               PROVE  /\ f \in sent' => checkout'[f.order] \in {"returned", "over"}
                      /\ handler'[f] # "idle" => f \in sent'
                      /\ handler'[f] = "crediting" => paid'[f.order] = "match"
    BY DEF EventOrder
  <2>1. f.order \in Orders
    BY EventsAreRecords
  <2>2. /\ f \in sent => checkout[f.order] \in {"returned", "over"}
        /\ handler[f] # "idle" => f \in sent
        /\ handler[f] = "crediting" => paid[f.order] = "match"
    BY DEF IInv, EventOrder
  <2>3. sent \subseteq sent' /\ (f \in sent' => f \in sent \/ f.order = o)
    BY EventsAreRecords DEF PayLater, Raise, EventTypes, PaymentEvents
  <2> QED
    BY <2>1, <2>2, <2>3 DEF IInv, TypeOK, CheckoutOrder, PayLater, order, stripe, webhook, CustomerActs
<1> QED  BY <1>1, <1>2, <1>3, <1>4, <1>5, <1>6 DEF IInv

\* AsyncPaymentSucceeds keeps the inductive invariant.
LEMMA AsyncPaymentSucceedsKeeps ==
  ASSUME IInv, NEW o \in Orders, AsyncPaymentSucceeds(o)
  PROVE  IInv'
<1>1. TypeOK'
  <2>1. (session \in [Orders -> {"none", "open", "processing", "complete", "expired", "failed"}])'
    BY TopupAssumption, EventsAreRecords DEF IInv, TypeOK, AsyncPaymentSucceeds, order, stripe, webhook, Raise
  <2>2. (paid \in [Orders -> {"no", "match", "mismatch"}])'
    BY TopupAssumption, EventsAreRecords DEF IInv, TypeOK, AsyncPaymentSucceeds, order, stripe, webhook, Raise
  <2>3. (sent \subseteq Events)'
    <3>1. [type |-> "async_payment_succeeded", order |-> o] \in Events
      BY EventsAreRecords DEF EventTypes, PaymentEvents
    <3>2. sent' = sent \cup {[type |-> "async_payment_succeeded", order |-> o]}
      BY DEF AsyncPaymentSucceeds, Raise
    <3> QED  BY <3>1, <3>2 DEF IInv, TypeOK
  <2>4. UNCHANGED <<status, hasSession, lot, credits, quota, checkout, acked, claimed, handler, page>>
    BY DEF AsyncPaymentSucceeds, order, stripe, webhook, Raise
  <2> QED  BY <2>1, <2>2, <2>3, <2>4 DEF IInv, TypeOK
<1>2. CreditedAtMostOnce'
  BY TopupAssumption, EventsAreRecords DEF IInv, TypeOK, CreditedAtMostOnce, StatusTellsCredit, Creditable, CheckoutOrder, AsyncPaymentSucceeds, order, stripe, webhook, Raise
<1>3. StatusTellsCredit'
  BY TopupAssumption, EventsAreRecords DEF IInv, TypeOK, StatusTellsCredit, Creditable, CheckoutOrder, AsyncPaymentSucceeds, order, stripe, webhook, Raise
<1>4. CheckoutOrder'
  BY TopupAssumption, EventsAreRecords DEF IInv, TypeOK, CheckoutOrder, EventOrder, AsyncPaymentSucceeds, order, stripe, webhook, Raise
<1>5. PageShowsFinal'
  BY TopupAssumption, EventsAreRecords DEF IInv, TypeOK, PageShowsFinal, Creditable, PageFinal, CheckoutOrder, Statuses, PageRecords, AsyncPaymentSucceeds, order, stripe, webhook, Raise
<1>6. EventOrder'
  <2> SUFFICES ASSUME NEW f \in Events
               PROVE  /\ f \in sent' => checkout'[f.order] \in {"returned", "over"}
                      /\ handler'[f] # "idle" => f \in sent'
                      /\ handler'[f] = "crediting" => paid'[f.order] = "match"
    BY DEF EventOrder
  <2>1. f.order \in Orders
    BY EventsAreRecords
  <2>2. /\ f \in sent => checkout[f.order] \in {"returned", "over"}
        /\ handler[f] # "idle" => f \in sent
        /\ handler[f] = "crediting" => paid[f.order] = "match"
    BY DEF IInv, EventOrder
  <2>3. sent \subseteq sent' /\ (f \in sent' => f \in sent \/ f.order = o)
    BY EventsAreRecords DEF AsyncPaymentSucceeds, Raise, EventTypes, PaymentEvents
  <2> QED
    BY <2>1, <2>2, <2>3 DEF IInv, TypeOK, CheckoutOrder, AsyncPaymentSucceeds, order, stripe, webhook
<1> QED  BY <1>1, <1>2, <1>3, <1>4, <1>5, <1>6 DEF IInv

\* AsyncPaymentFails keeps the inductive invariant.
LEMMA AsyncPaymentFailsKeeps ==
  ASSUME IInv, NEW o \in Orders, AsyncPaymentFails(o)
  PROVE  IInv'
<1>1. TypeOK'
  BY TopupAssumption, EventsAreRecords DEF IInv, TypeOK, Statuses, EventTypes, PaymentEvents, AsyncPaymentFails, order, stripe, webhook, Raise
<1>2. CreditedAtMostOnce'
  BY TopupAssumption, EventsAreRecords DEF IInv, TypeOK, CreditedAtMostOnce, StatusTellsCredit, Creditable, CheckoutOrder, AsyncPaymentFails, order, stripe, webhook, Raise
<1>3. StatusTellsCredit'
  BY TopupAssumption, EventsAreRecords DEF IInv, TypeOK, StatusTellsCredit, Creditable, CheckoutOrder, AsyncPaymentFails, order, stripe, webhook, Raise
<1>4. CheckoutOrder'
  BY TopupAssumption, EventsAreRecords DEF IInv, TypeOK, CheckoutOrder, EventOrder, AsyncPaymentFails, order, stripe, webhook, Raise
<1>5. PageShowsFinal'
  BY TopupAssumption, EventsAreRecords DEF IInv, TypeOK, PageShowsFinal, Creditable, PageFinal, CheckoutOrder, Statuses, PageRecords, AsyncPaymentFails, order, stripe, webhook, Raise
<1>6. EventOrder'
  <2> SUFFICES ASSUME NEW f \in Events
               PROVE  /\ f \in sent' => checkout'[f.order] \in {"returned", "over"}
                      /\ handler'[f] # "idle" => f \in sent'
                      /\ handler'[f] = "crediting" => paid'[f.order] = "match"
    BY DEF EventOrder
  <2>1. f.order \in Orders
    BY EventsAreRecords
  <2>2. /\ f \in sent => checkout[f.order] \in {"returned", "over"}
        /\ handler[f] # "idle" => f \in sent
        /\ handler[f] = "crediting" => paid[f.order] = "match"
    BY DEF IInv, EventOrder
  <2>3. sent \subseteq sent' /\ (f \in sent' => f \in sent \/ f.order = o)
    BY EventsAreRecords DEF AsyncPaymentFails, Raise, EventTypes, PaymentEvents
  <2> QED
    BY <2>1, <2>2, <2>3 DEF IInv, TypeOK, CheckoutOrder, AsyncPaymentFails, order, stripe, webhook
<1> QED  BY <1>1, <1>2, <1>3, <1>4, <1>5, <1>6 DEF IInv

\* Decline keeps the inductive invariant.
LEMMA DeclineKeeps ==
  ASSUME IInv, NEW o \in Orders, Decline(o)
  PROVE  IInv'
<1>1. TypeOK'
  <2>1. (sent \subseteq Events)'
    BY EventsAreRecords DEF IInv, TypeOK, EventTypes, PaymentEvents, Decline, Raise
  <2>2. UNCHANGED <<status, hasSession, lot, credits, quota, checkout, session, paid, acked, claimed, handler, page>>
    BY DEF Decline, order, stripe, webhook, Raise, CustomerActs
  <2> QED  BY <2>1, <2>2 DEF IInv, TypeOK
<1>2. CreditedAtMostOnce'
  BY TopupAssumption, EventsAreRecords DEF IInv, TypeOK, CreditedAtMostOnce, StatusTellsCredit, Creditable, CheckoutOrder, Decline, order, stripe, webhook, Raise, CustomerActs
<1>3. StatusTellsCredit'
  BY TopupAssumption, EventsAreRecords DEF IInv, TypeOK, StatusTellsCredit, Creditable, CheckoutOrder, Decline, order, stripe, webhook, Raise, CustomerActs
<1>4. CheckoutOrder'
  BY TopupAssumption, EventsAreRecords DEF IInv, TypeOK, CheckoutOrder, EventOrder, Decline, order, stripe, webhook, Raise, CustomerActs
<1>5. PageShowsFinal'
  BY TopupAssumption, EventsAreRecords DEF IInv, TypeOK, PageShowsFinal, Creditable, PageFinal, CheckoutOrder, Statuses, PageRecords, Decline, order, stripe, webhook, Raise, CustomerActs
<1>6. EventOrder'
  <2> SUFFICES ASSUME NEW f \in Events
               PROVE  /\ f \in sent' => checkout'[f.order] \in {"returned", "over"}
                      /\ handler'[f] # "idle" => f \in sent'
                      /\ handler'[f] = "crediting" => paid'[f.order] = "match"
    BY DEF EventOrder
  <2>1. f.order \in Orders
    BY EventsAreRecords
  <2>2. /\ f \in sent => checkout[f.order] \in {"returned", "over"}
        /\ handler[f] # "idle" => f \in sent
        /\ handler[f] = "crediting" => paid[f.order] = "match"
    BY DEF IInv, EventOrder
  <2>3. sent \subseteq sent' /\ (f \in sent' => f \in sent \/ f.order = o)
    BY EventsAreRecords DEF Decline, Raise, EventTypes, PaymentEvents
  <2> QED
    BY <2>1, <2>2, <2>3 DEF IInv, TypeOK, CheckoutOrder, Decline, order, stripe, webhook, CustomerActs
<1> QED  BY <1>1, <1>2, <1>3, <1>4, <1>5, <1>6 DEF IInv

\* Expire keeps the inductive invariant.
LEMMA ExpireKeeps ==
  ASSUME IInv, NEW o \in Orders, Expire(o)
  PROVE  IInv'
<1>1. TypeOK'
  <2>1. (session \in [Orders -> {"none", "open", "processing", "complete", "expired", "failed"}])'
    BY TopupAssumption, EventsAreRecords DEF IInv, TypeOK, Expire, order, stripe, webhook, Raise
  <2>2. (sent \subseteq Events)'
    BY EventsAreRecords DEF IInv, TypeOK, EventTypes, PaymentEvents, Expire, Raise
  <2>3. UNCHANGED <<status, hasSession, lot, credits, quota, checkout, paid, acked, claimed, handler, page>>
    BY DEF Expire, order, stripe, webhook, Raise
  <2> QED  BY <2>1, <2>2, <2>3 DEF IInv, TypeOK
<1>2. CreditedAtMostOnce'
  BY TopupAssumption, EventsAreRecords DEF IInv, TypeOK, CreditedAtMostOnce, StatusTellsCredit, Creditable, CheckoutOrder, Expire, order, stripe, webhook, Raise
<1>3. StatusTellsCredit'
  BY TopupAssumption, EventsAreRecords DEF IInv, TypeOK, StatusTellsCredit, Creditable, CheckoutOrder, Expire, order, stripe, webhook, Raise
<1>4. CheckoutOrder'
  BY TopupAssumption, EventsAreRecords DEF IInv, TypeOK, CheckoutOrder, EventOrder, Expire, order, stripe, webhook, Raise
<1>5. PageShowsFinal'
  BY TopupAssumption, EventsAreRecords DEF IInv, TypeOK, PageShowsFinal, Creditable, PageFinal, CheckoutOrder, Statuses, PageRecords, Expire, order, stripe, webhook, Raise
<1>6. EventOrder'
  <2> SUFFICES ASSUME NEW f \in Events
               PROVE  /\ f \in sent' => checkout'[f.order] \in {"returned", "over"}
                      /\ handler'[f] # "idle" => f \in sent'
                      /\ handler'[f] = "crediting" => paid'[f.order] = "match"
    BY DEF EventOrder
  <2>1. f.order \in Orders
    BY EventsAreRecords
  <2>2. /\ f \in sent => checkout[f.order] \in {"returned", "over"}
        /\ handler[f] # "idle" => f \in sent
        /\ handler[f] = "crediting" => paid[f.order] = "match"
    BY DEF IInv, EventOrder
  <2>3. sent \subseteq sent' /\ (f \in sent' => f \in sent \/ f.order = o)
    BY EventsAreRecords DEF Expire, Raise, EventTypes, PaymentEvents
  <2> QED
    BY <2>1, <2>2, <2>3 DEF IInv, TypeOK, CheckoutOrder, Expire, order, stripe, webhook
<1> QED  BY <1>1, <1>2, <1>3, <1>4, <1>5, <1>6 DEF IInv

\* RefundOrDispute keeps the inductive invariant.
LEMMA RefundOrDisputeKeeps ==
  ASSUME IInv, NEW o \in Orders, RefundOrDispute(o)
  PROVE  IInv'
<1>1. TypeOK'
  BY TopupAssumption, EventsAreRecords DEF IInv, TypeOK, Statuses, EventTypes, PaymentEvents, RefundOrDispute, order, stripe, webhook, Raise
<1>2. CreditedAtMostOnce'
  BY TopupAssumption, EventsAreRecords DEF IInv, TypeOK, CreditedAtMostOnce, StatusTellsCredit, Creditable, CheckoutOrder, RefundOrDispute, order, stripe, webhook, Raise
<1>3. StatusTellsCredit'
  BY TopupAssumption, EventsAreRecords DEF IInv, TypeOK, StatusTellsCredit, Creditable, CheckoutOrder, RefundOrDispute, order, stripe, webhook, Raise
<1>4. CheckoutOrder'
  BY TopupAssumption, EventsAreRecords DEF IInv, TypeOK, CheckoutOrder, EventOrder, RefundOrDispute, order, stripe, webhook, Raise
<1>5. PageShowsFinal'
  BY TopupAssumption, EventsAreRecords DEF IInv, TypeOK, PageShowsFinal, Creditable, PageFinal, CheckoutOrder, Statuses, PageRecords, RefundOrDispute, order, stripe, webhook, Raise
<1>6. EventOrder'
  <2> SUFFICES ASSUME NEW f \in Events
               PROVE  /\ f \in sent' => checkout'[f.order] \in {"returned", "over"}
                      /\ handler'[f] # "idle" => f \in sent'
                      /\ handler'[f] = "crediting" => paid'[f.order] = "match"
    BY DEF EventOrder
  <2>1. f.order \in Orders
    BY EventsAreRecords
  <2>2. /\ f \in sent => checkout[f.order] \in {"returned", "over"}
        /\ handler[f] # "idle" => f \in sent
        /\ handler[f] = "crediting" => paid[f.order] = "match"
    BY DEF IInv, EventOrder
  <2>3. sent \subseteq sent' /\ (f \in sent' => f \in sent \/ f.order = o)
    BY EventsAreRecords DEF RefundOrDispute, Raise, EventTypes, PaymentEvents
  <2> QED
    BY <2>1, <2>2, <2>3 DEF IInv, TypeOK, CheckoutOrder, RefundOrDispute, order, stripe, webhook
<1> QED  BY <1>1, <1>2, <1>3, <1>4, <1>5, <1>6 DEF IInv

\* AdminRetryTopupCredit keeps the inductive invariant.
LEMMA AdminRetryTopupCreditKeeps ==
  ASSUME IInv, NEW o \in Orders, AdminRetryTopupCredit(o)
  PROVE  IInv'
<1>1. TypeOK'
  <2>1. (status \in [Orders -> Statuses])'
    BY TopupAssumption, EventsAreRecords DEF IInv, TypeOK, Statuses, AdminRetryTopupCredit, order, stripe, webhook, CreditOrder, CanCredit
  <2>2. (hasSession \subseteq Orders)'
    BY TopupAssumption, EventsAreRecords DEF IInv, TypeOK, AdminRetryTopupCredit, order, stripe, webhook, CreditOrder, CanCredit
  <2>3. (lot \in [Orders -> 0 .. PaidQuota])'
    BY TopupAssumption, EventsAreRecords DEF IInv, TypeOK, AdminRetryTopupCredit, order, stripe, webhook, CreditOrder, CanCredit
  <2>4. (credits \in [Orders -> Nat])'
    BY TopupAssumption, EventsAreRecords DEF IInv, TypeOK, AdminRetryTopupCredit, order, stripe, webhook, CreditOrder, CanCredit
  <2>5. (quota \in Nat)'
    BY TopupAssumption, EventsAreRecords DEF IInv, TypeOK, AdminRetryTopupCredit, order, stripe, webhook, CreditOrder, CanCredit
  <2>6. UNCHANGED <<checkout, session, paid, sent, acked, claimed, handler, page>>
    BY DEF AdminRetryTopupCredit, order, stripe, webhook, CreditOrder, CanCredit
  <2> QED  BY <2>1, <2>2, <2>3, <2>4, <2>5, <2>6 DEF IInv, TypeOK
<1>2. CreditedAtMostOnce'
  BY TopupAssumption, EventsAreRecords DEF IInv, TypeOK, CreditedAtMostOnce, StatusTellsCredit, Creditable, CheckoutOrder, AdminRetryTopupCredit, order, stripe, webhook, CreditOrder, CanCredit
<1>3. StatusTellsCredit'
  BY TopupAssumption, EventsAreRecords DEF IInv, TypeOK, StatusTellsCredit, Creditable, CheckoutOrder, AdminRetryTopupCredit, order, stripe, webhook, CreditOrder, CanCredit
<1>4. CheckoutOrder'
  BY TopupAssumption, EventsAreRecords DEF IInv, TypeOK, CheckoutOrder, EventOrder, AdminRetryTopupCredit, order, stripe, webhook, CreditOrder, CanCredit
<1>5. PageShowsFinal'
  BY TopupAssumption, EventsAreRecords DEF IInv, TypeOK, PageShowsFinal, Creditable, PageFinal, CheckoutOrder, Statuses, PageRecords, AdminRetryTopupCredit, order, stripe, webhook, CreditOrder, CanCredit
<1>6. EventOrder'
  <2> SUFFICES ASSUME NEW f \in Events
               PROVE  /\ f \in sent' => checkout'[f.order] \in {"returned", "over"}
                      /\ handler'[f] # "idle" => f \in sent'
                      /\ handler'[f] = "crediting" => paid'[f.order] = "match"
    BY DEF EventOrder
  <2>1. f.order \in Orders
    BY EventsAreRecords
  <2>2. /\ f \in sent => checkout[f.order] \in {"returned", "over"}
        /\ handler[f] # "idle" => f \in sent
        /\ handler[f] = "crediting" => paid[f.order] = "match"
    BY DEF IInv, EventOrder
  <2> QED
    BY <2>1, <2>2, EventsAreRecords DEF IInv, TypeOK, CheckoutOrder, EventTypes, PaymentEvents, AdminRetryTopupCredit, order, stripe, webhook, CreditOrder, CanCredit
<1> QED  BY <1>1, <1>2, <1>3, <1>4, <1>5, <1>6 DEF IInv

\* Poll keeps the inductive invariant.
LEMMA PollKeeps ==
  ASSUME IInv, NEW o \in Orders, Poll(o)
  PROVE  IInv'
<1>1. TypeOK'
  <2>1. (page \in [Orders -> PageRecords])'
    <3>1. page[o] \in PageRecords
      BY DEF IInv, TypeOK
    <3>2. PICK answer \in {page[o].shown, status[o]} :
            LET tries == page[o].tries + 1
                final == answer = status[o] /\ answer \in PageFinal
            IN page' = [page EXCEPT ![o] =
                          [state |-> IF final \/ tries >= MaxTries THEN "stopped" ELSE "polling",
                           tries |-> IF final THEN page[o].tries ELSE tries,
                           shown |-> answer]]
      BY DEF Poll
    <3>3. answer \in Statuses
      BY <3>1, <3>2 DEF IInv, TypeOK, PageRecords
    <3>4. page[o].tries \in Nat
      BY <3>1 DEF PageRecords
    <3> QED  BY <3>2, <3>3, <3>4 DEF IInv, TypeOK, PageRecords
  <2>2. UNCHANGED <<status, hasSession, lot, credits, quota, checkout, session, paid, sent, acked, claimed, handler>>
    BY DEF Poll, order, stripe, webhook
  <2> QED  BY <2>1, <2>2 DEF IInv, TypeOK
<1>2. CreditedAtMostOnce'
  BY TopupAssumption, EventsAreRecords DEF IInv, TypeOK, CreditedAtMostOnce, StatusTellsCredit, Creditable, CheckoutOrder, Poll, order, stripe, webhook
<1>3. StatusTellsCredit'
  BY TopupAssumption, EventsAreRecords DEF IInv, TypeOK, StatusTellsCredit, Creditable, CheckoutOrder, Poll, order, stripe, webhook
<1>4. CheckoutOrder'
  BY TopupAssumption, EventsAreRecords DEF IInv, TypeOK, CheckoutOrder, EventOrder, Poll, order, stripe, webhook
<1>5. PageShowsFinal'
  BY TopupAssumption, EventsAreRecords DEF IInv, TypeOK, PageShowsFinal, Creditable, PageFinal, CheckoutOrder, Statuses, PageRecords, Poll, order, stripe, webhook
<1>6. EventOrder'
  <2> SUFFICES ASSUME NEW f \in Events
               PROVE  /\ f \in sent' => checkout'[f.order] \in {"returned", "over"}
                      /\ handler'[f] # "idle" => f \in sent'
                      /\ handler'[f] = "crediting" => paid'[f.order] = "match"
    BY DEF EventOrder
  <2>1. f.order \in Orders
    BY EventsAreRecords
  <2>2. /\ f \in sent => checkout[f.order] \in {"returned", "over"}
        /\ handler[f] # "idle" => f \in sent
        /\ handler[f] = "crediting" => paid[f.order] = "match"
    BY DEF IInv, EventOrder
  <2> QED
    BY <2>1, <2>2, EventsAreRecords DEF IInv, TypeOK, CheckoutOrder, EventTypes, PaymentEvents, Poll, order, stripe, webhook
<1> QED  BY <1>1, <1>2, <1>3, <1>4, <1>5, <1>6 DEF IInv

\* Claim keeps the inductive invariant.
LEMMA ClaimKeeps ==
  ASSUME IInv, NEW e \in Events, Claim(e)
  PROVE  IInv'
<1>1. TypeOK'
  BY TopupAssumption, EventsAreRecords DEF IInv, TypeOK, Statuses, EventTypes, PaymentEvents, Claim, order, stripe, webhook
<1>2. CreditedAtMostOnce'
  BY TopupAssumption, EventsAreRecords DEF IInv, TypeOK, CreditedAtMostOnce, StatusTellsCredit, Creditable, CheckoutOrder, Claim, order, stripe, webhook
<1>3. StatusTellsCredit'
  BY TopupAssumption, EventsAreRecords DEF IInv, TypeOK, StatusTellsCredit, Creditable, CheckoutOrder, Claim, order, stripe, webhook
<1>4. CheckoutOrder'
  BY TopupAssumption, EventsAreRecords DEF IInv, TypeOK, CheckoutOrder, EventOrder, Claim, order, stripe, webhook
<1>5. PageShowsFinal'
  BY TopupAssumption, EventsAreRecords DEF IInv, TypeOK, PageShowsFinal, Creditable, PageFinal, CheckoutOrder, Statuses, PageRecords, Claim, order, stripe, webhook
<1>6. EventOrder'
  <2> SUFFICES ASSUME NEW f \in Events
               PROVE  /\ f \in sent' => checkout'[f.order] \in {"returned", "over"}
                      /\ handler'[f] # "idle" => f \in sent'
                      /\ handler'[f] = "crediting" => paid'[f.order] = "match"
    BY DEF EventOrder
  <2>1. f.order \in Orders
    BY EventsAreRecords
  <2>2. /\ f \in sent => checkout[f.order] \in {"returned", "over"}
        /\ handler[f] # "idle" => f \in sent
        /\ handler[f] = "crediting" => paid[f.order] = "match"
    BY DEF IInv, EventOrder
  <2> QED
    BY <2>1, <2>2, EventsAreRecords DEF IInv, TypeOK, CheckoutOrder, EventTypes, PaymentEvents, Claim, order, stripe, webhook
<1> QED  BY <1>1, <1>2, <1>3, <1>4, <1>5, <1>6 DEF IInv

\* IgnoreDuplicate keeps the inductive invariant.
LEMMA IgnoreDuplicateKeeps ==
  ASSUME IInv, NEW e \in Events, IgnoreDuplicate(e)
  PROVE  IInv'
<1>1. TypeOK'
  BY TopupAssumption, EventsAreRecords DEF IInv, TypeOK, Statuses, EventTypes, PaymentEvents, IgnoreDuplicate, order, stripe, webhook
<1>2. CreditedAtMostOnce'
  BY TopupAssumption, EventsAreRecords DEF IInv, TypeOK, CreditedAtMostOnce, StatusTellsCredit, Creditable, CheckoutOrder, IgnoreDuplicate, order, stripe, webhook
<1>3. StatusTellsCredit'
  BY TopupAssumption, EventsAreRecords DEF IInv, TypeOK, StatusTellsCredit, Creditable, CheckoutOrder, IgnoreDuplicate, order, stripe, webhook
<1>4. CheckoutOrder'
  BY TopupAssumption, EventsAreRecords DEF IInv, TypeOK, CheckoutOrder, EventOrder, IgnoreDuplicate, order, stripe, webhook
<1>5. PageShowsFinal'
  BY TopupAssumption, EventsAreRecords DEF IInv, TypeOK, PageShowsFinal, Creditable, PageFinal, CheckoutOrder, Statuses, PageRecords, IgnoreDuplicate, order, stripe, webhook
<1>6. EventOrder'
  <2> SUFFICES ASSUME NEW f \in Events
               PROVE  /\ f \in sent' => checkout'[f.order] \in {"returned", "over"}
                      /\ handler'[f] # "idle" => f \in sent'
                      /\ handler'[f] = "crediting" => paid'[f.order] = "match"
    BY DEF EventOrder
  <2>1. f.order \in Orders
    BY EventsAreRecords
  <2>2. /\ f \in sent => checkout[f.order] \in {"returned", "over"}
        /\ handler[f] # "idle" => f \in sent
        /\ handler[f] = "crediting" => paid[f.order] = "match"
    BY DEF IInv, EventOrder
  <2> QED
    BY <2>1, <2>2, EventsAreRecords DEF IInv, TypeOK, CheckoutOrder, EventTypes, PaymentEvents, IgnoreDuplicate, order, stripe, webhook
<1> QED  BY <1>1, <1>2, <1>3, <1>4, <1>5, <1>6 DEF IInv

\* HandleCheckoutPaid keeps the inductive invariant.
LEMMA HandleCheckoutPaidKeeps ==
  ASSUME IInv, NEW e \in Events, HandleCheckoutPaid(e)
  PROVE  IInv'
<1>1. TypeOK'
  <2>1. (status \in [Orders -> Statuses])'
    BY TopupAssumption, EventsAreRecords DEF IInv, TypeOK, Statuses, HandleCheckoutPaid, order, stripe, webhook, Done
  <2>2. (hasSession \subseteq Orders)'
    BY TopupAssumption, EventsAreRecords DEF IInv, TypeOK, HandleCheckoutPaid, order, stripe, webhook, Done
  <2>3. (acked \subseteq Events)'
    BY TopupAssumption, EventsAreRecords DEF IInv, TypeOK, HandleCheckoutPaid, order, stripe, webhook, Done
  <2>4. (handler \in [Events -> {"idle", "claimed", "crediting", "failing", "dead"}])'
    BY TopupAssumption, EventsAreRecords DEF IInv, TypeOK, HandleCheckoutPaid, order, stripe, webhook, Done
  <2>5. UNCHANGED <<lot, credits, quota, checkout, session, paid, sent, claimed, page>>
    BY DEF HandleCheckoutPaid, order, stripe, webhook, Done
  <2> QED  BY <2>1, <2>2, <2>3, <2>4, <2>5 DEF IInv, TypeOK
<1>2. CreditedAtMostOnce'
  BY TopupAssumption, EventsAreRecords DEF IInv, TypeOK, CreditedAtMostOnce, StatusTellsCredit, Creditable, CheckoutOrder, HandleCheckoutPaid, order, stripe, webhook, Done
<1>3. StatusTellsCredit'
  BY TopupAssumption, EventsAreRecords DEF IInv, TypeOK, StatusTellsCredit, Creditable, CheckoutOrder, HandleCheckoutPaid, order, stripe, webhook, Done
<1>4. CheckoutOrder'
  BY TopupAssumption, EventsAreRecords DEF IInv, TypeOK, CheckoutOrder, EventOrder, HandleCheckoutPaid, order, stripe, webhook, Done
<1>5. PageShowsFinal'
  BY TopupAssumption, EventsAreRecords DEF IInv, TypeOK, PageShowsFinal, Creditable, PageFinal, CheckoutOrder, Statuses, PageRecords, HandleCheckoutPaid, order, stripe, webhook, Done
<1>6. EventOrder'
  <2> SUFFICES ASSUME NEW f \in Events
               PROVE  /\ f \in sent' => checkout'[f.order] \in {"returned", "over"}
                      /\ handler'[f] # "idle" => f \in sent'
                      /\ handler'[f] = "crediting" => paid'[f.order] = "match"
    BY DEF EventOrder
  <2>1. f.order \in Orders
    BY EventsAreRecords
  <2>2. /\ f \in sent => checkout[f.order] \in {"returned", "over"}
        /\ handler[f] # "idle" => f \in sent
        /\ handler[f] = "crediting" => paid[f.order] = "match"
    BY DEF IInv, EventOrder
  <2>3. CASE f = e
    BY <2>1, <2>2, <2>3 DEF IInv, TypeOK, HandleCheckoutPaid, order, stripe, webhook, Done
  <2>4. CASE f # e
    BY <2>1, <2>2, <2>4 DEF IInv, TypeOK, HandleCheckoutPaid, order, stripe, webhook, Done
  <2> QED  BY <2>3, <2>4
<1> QED  BY <1>1, <1>2, <1>3, <1>4, <1>5, <1>6 DEF IInv

\* CreditStripeTopupOrder keeps the inductive invariant.
LEMMA CreditStripeTopupOrderKeeps ==
  ASSUME IInv, NEW e \in Events, CreditStripeTopupOrder(e)
  PROVE  IInv'
<1>1. TypeOK'
  <2>1. (status \in [Orders -> Statuses])'
    BY TopupAssumption, EventsAreRecords DEF IInv, TypeOK, Statuses, CreditStripeTopupOrder, order, stripe, webhook, CreditOrder, CanCredit, Done, Fail
  <2>2. (hasSession \subseteq Orders)'
    BY TopupAssumption, EventsAreRecords DEF IInv, TypeOK, CreditStripeTopupOrder, order, stripe, webhook, CreditOrder, CanCredit, Done, Fail
  <2>3. (lot \in [Orders -> 0 .. PaidQuota])'
    BY TopupAssumption, EventsAreRecords DEF IInv, TypeOK, CreditStripeTopupOrder, order, stripe, webhook, CreditOrder, CanCredit, Done, Fail
  <2>4. (credits \in [Orders -> Nat])'
    BY TopupAssumption, EventsAreRecords DEF IInv, TypeOK, CreditStripeTopupOrder, order, stripe, webhook, CreditOrder, CanCredit, Done, Fail
  <2>5. (quota \in Nat)'
    BY TopupAssumption, EventsAreRecords DEF IInv, TypeOK, CreditStripeTopupOrder, order, stripe, webhook, CreditOrder, CanCredit, Done, Fail
  <2>6. (acked \subseteq Events)'
    BY TopupAssumption, EventsAreRecords DEF IInv, TypeOK, CreditStripeTopupOrder, order, stripe, webhook, CreditOrder, CanCredit, Done, Fail
  <2>7. (handler \in [Events -> {"idle", "claimed", "crediting", "failing", "dead"}])'
    BY TopupAssumption, EventsAreRecords DEF IInv, TypeOK, CreditStripeTopupOrder, order, stripe, webhook, CreditOrder, CanCredit, Done, Fail
  <2>8. UNCHANGED <<checkout, session, paid, sent, claimed, page>>
    BY DEF CreditStripeTopupOrder, order, stripe, webhook, CreditOrder, CanCredit, Done, Fail
  <2> QED  BY <2>1, <2>2, <2>3, <2>4, <2>5, <2>6, <2>7, <2>8 DEF IInv, TypeOK
<1>2. CreditedAtMostOnce'
  BY TopupAssumption, EventsAreRecords DEF IInv, TypeOK, CreditedAtMostOnce, StatusTellsCredit, Creditable, CheckoutOrder, CreditStripeTopupOrder, order, stripe, webhook, CreditOrder, CanCredit, Done, Fail
<1>3. StatusTellsCredit'
  BY TopupAssumption, EventsAreRecords DEF IInv, TypeOK, StatusTellsCredit, Creditable, CheckoutOrder, CreditStripeTopupOrder, order, stripe, webhook, CreditOrder, CanCredit, Done, Fail
<1>4. CheckoutOrder'
  BY TopupAssumption, EventsAreRecords DEF IInv, TypeOK, CheckoutOrder, EventOrder, CreditStripeTopupOrder, order, stripe, webhook, CreditOrder, CanCredit, Done, Fail
<1>5. PageShowsFinal'
  BY TopupAssumption, EventsAreRecords DEF IInv, TypeOK, PageShowsFinal, Creditable, PageFinal, CheckoutOrder, Statuses, PageRecords, CreditStripeTopupOrder, order, stripe, webhook, CreditOrder, CanCredit, Done, Fail
<1>6. EventOrder'
  <2> SUFFICES ASSUME NEW f \in Events
               PROVE  /\ f \in sent' => checkout'[f.order] \in {"returned", "over"}
                      /\ handler'[f] # "idle" => f \in sent'
                      /\ handler'[f] = "crediting" => paid'[f.order] = "match"
    BY DEF EventOrder
  <2>1. f.order \in Orders
    BY EventsAreRecords
  <2>2. /\ f \in sent => checkout[f.order] \in {"returned", "over"}
        /\ handler[f] # "idle" => f \in sent
        /\ handler[f] = "crediting" => paid[f.order] = "match"
    BY DEF IInv, EventOrder
  <2>3. CASE f = e
    BY <2>1, <2>2, <2>3 DEF IInv, TypeOK, CreditStripeTopupOrder, order, stripe, webhook, CreditOrder, CanCredit, Done, Fail
  <2>4. CASE f # e
    BY <2>1, <2>2, <2>4 DEF IInv, TypeOK, CreditStripeTopupOrder, order, stripe, webhook, CreditOrder, CanCredit, Done, Fail
  <2> QED  BY <2>3, <2>4
<1> QED  BY <1>1, <1>2, <1>3, <1>4, <1>5, <1>6 DEF IInv

\* HandleStatusEvent keeps the inductive invariant.
LEMMA HandleStatusEventKeeps ==
  ASSUME IInv, NEW e \in Events, HandleStatusEvent(e)
  PROVE  IInv'
<1>1. TypeOK'
  <2>1. (status \in [Orders -> Statuses])'
    BY TopupAssumption, EventsAreRecords DEF IInv, TypeOK, Statuses, HandleStatusEvent, order, stripe, webhook, MarkStatus, Done, Fail
  <2>2. (acked \subseteq Events)'
    BY TopupAssumption, EventsAreRecords DEF IInv, TypeOK, HandleStatusEvent, order, stripe, webhook, MarkStatus, Done, Fail
  <2>3. (handler \in [Events -> {"idle", "claimed", "crediting", "failing", "dead"}])'
    BY TopupAssumption, EventsAreRecords DEF IInv, TypeOK, HandleStatusEvent, order, stripe, webhook, MarkStatus, Done, Fail
  <2>4. UNCHANGED <<hasSession, lot, credits, quota, checkout, session, paid, sent, claimed, page>>
    BY DEF HandleStatusEvent, order, stripe, webhook, MarkStatus, Done, Fail
  <2> QED  BY <2>1, <2>2, <2>3, <2>4 DEF IInv, TypeOK
<1>2. CreditedAtMostOnce'
  BY TopupAssumption, EventsAreRecords DEF IInv, TypeOK, CreditedAtMostOnce, StatusTellsCredit, Creditable, CheckoutOrder, HandleStatusEvent, order, stripe, webhook, MarkStatus, Done, Fail
<1>3. StatusTellsCredit'
  BY TopupAssumption, EventsAreRecords DEF IInv, TypeOK, StatusTellsCredit, Creditable, CheckoutOrder, HandleStatusEvent, order, stripe, webhook, MarkStatus, Done, Fail
<1>4. CheckoutOrder'
  BY TopupAssumption, EventsAreRecords DEF IInv, TypeOK, CheckoutOrder, EventOrder, HandleStatusEvent, order, stripe, webhook, MarkStatus, Done, Fail
<1>5. PageShowsFinal'
  BY TopupAssumption, EventsAreRecords DEF IInv, TypeOK, PageShowsFinal, Creditable, PageFinal, CheckoutOrder, Statuses, PageRecords, HandleStatusEvent, order, stripe, webhook, MarkStatus, Done, Fail
<1>6. EventOrder'
  <2> SUFFICES ASSUME NEW f \in Events
               PROVE  /\ f \in sent' => checkout'[f.order] \in {"returned", "over"}
                      /\ handler'[f] # "idle" => f \in sent'
                      /\ handler'[f] = "crediting" => paid'[f.order] = "match"
    BY DEF EventOrder
  <2>1. f.order \in Orders
    BY EventsAreRecords
  <2>2. /\ f \in sent => checkout[f.order] \in {"returned", "over"}
        /\ handler[f] # "idle" => f \in sent
        /\ handler[f] = "crediting" => paid[f.order] = "match"
    BY DEF IInv, EventOrder
  <2>3. CASE f = e
    BY <2>1, <2>2, <2>3 DEF IInv, TypeOK, HandleStatusEvent, order, stripe, webhook, MarkStatus, Done, Fail
  <2>4. CASE f # e
    BY <2>1, <2>2, <2>4 DEF IInv, TypeOK, HandleStatusEvent, order, stripe, webhook, MarkStatus, Done, Fail
  <2> QED  BY <2>3, <2>4
<1> QED  BY <1>1, <1>2, <1>3, <1>4, <1>5, <1>6 DEF IInv

\* HandleChargeRefunded keeps the inductive invariant.
LEMMA HandleChargeRefundedKeeps ==
  ASSUME IInv, NEW e \in Events, HandleChargeRefunded(e)
  PROVE  IInv'
<1>1. TypeOK'
  <2>1. (status \in [Orders -> Statuses])'
    BY TopupAssumption, EventsAreRecords DEF IInv, TypeOK, Statuses, HandleChargeRefunded, order, stripe, webhook, TakeBack, TakeBackLegacy, Done
  <2>2. (lot \in [Orders -> 0 .. PaidQuota])'
    BY TopupAssumption, EventsAreRecords DEF IInv, TypeOK, HandleChargeRefunded, order, stripe, webhook, TakeBack, TakeBackLegacy, Done
  <2>3. (quota \in Nat)'
    BY TopupAssumption, EventsAreRecords DEF IInv, TypeOK, HandleChargeRefunded, order, stripe, webhook, TakeBack, TakeBackLegacy, Done
  <2>4. (acked \subseteq Events)'
    BY TopupAssumption, EventsAreRecords DEF IInv, TypeOK, HandleChargeRefunded, order, stripe, webhook, TakeBack, TakeBackLegacy, Done
  <2>5. (handler \in [Events -> {"idle", "claimed", "crediting", "failing", "dead"}])'
    BY TopupAssumption, EventsAreRecords DEF IInv, TypeOK, HandleChargeRefunded, order, stripe, webhook, TakeBack, TakeBackLegacy, Done
  <2>6. UNCHANGED <<hasSession, credits, checkout, session, paid, sent, claimed, page>>
    BY DEF HandleChargeRefunded, order, stripe, webhook, TakeBack, TakeBackLegacy, Done
  <2> QED  BY <2>1, <2>2, <2>3, <2>4, <2>5, <2>6 DEF IInv, TypeOK
<1>2. CreditedAtMostOnce'
  BY TopupAssumption, EventsAreRecords DEF IInv, TypeOK, CreditedAtMostOnce, StatusTellsCredit, Creditable, CheckoutOrder, HandleChargeRefunded, order, stripe, webhook, TakeBack, TakeBackLegacy, Done
<1>3. StatusTellsCredit'
  BY TopupAssumption, EventsAreRecords DEF IInv, TypeOK, StatusTellsCredit, Creditable, CheckoutOrder, HandleChargeRefunded, order, stripe, webhook, TakeBack, TakeBackLegacy, Done
<1>4. CheckoutOrder'
  BY TopupAssumption, EventsAreRecords DEF IInv, TypeOK, CheckoutOrder, EventOrder, HandleChargeRefunded, order, stripe, webhook, TakeBack, TakeBackLegacy, Done
<1>5. PageShowsFinal'
  BY TopupAssumption, EventsAreRecords DEF IInv, TypeOK, PageShowsFinal, Creditable, PageFinal, CheckoutOrder, Statuses, PageRecords, HandleChargeRefunded, order, stripe, webhook, TakeBack, TakeBackLegacy, Done
<1>6. EventOrder'
  <2> SUFFICES ASSUME NEW f \in Events
               PROVE  /\ f \in sent' => checkout'[f.order] \in {"returned", "over"}
                      /\ handler'[f] # "idle" => f \in sent'
                      /\ handler'[f] = "crediting" => paid'[f.order] = "match"
    BY DEF EventOrder
  <2>1. f.order \in Orders
    BY EventsAreRecords
  <2>2. /\ f \in sent => checkout[f.order] \in {"returned", "over"}
        /\ handler[f] # "idle" => f \in sent
        /\ handler[f] = "crediting" => paid[f.order] = "match"
    BY DEF IInv, EventOrder
  <2> QED
    BY <2>1, <2>2, EventsAreRecords DEF IInv, TypeOK, CheckoutOrder, EventTypes, PaymentEvents, HandleChargeRefunded, order, stripe, webhook, TakeBack, TakeBackLegacy, Done
<1> QED  BY <1>1, <1>2, <1>3, <1>4, <1>5, <1>6 DEF IInv

\* CreditFails keeps the inductive invariant.
LEMMA CreditFailsKeeps ==
  ASSUME IInv, NEW e \in Events, CreditFails(e)
  PROVE  IInv'
<1>1. TypeOK'
  BY TopupAssumption, EventsAreRecords DEF IInv, TypeOK, Statuses, EventTypes, PaymentEvents, CreditFails, order, stripe, webhook, Fail
<1>2. CreditedAtMostOnce'
  BY TopupAssumption, EventsAreRecords DEF IInv, TypeOK, CreditedAtMostOnce, StatusTellsCredit, Creditable, CheckoutOrder, CreditFails, order, stripe, webhook, Fail
<1>3. StatusTellsCredit'
  BY TopupAssumption, EventsAreRecords DEF IInv, TypeOK, StatusTellsCredit, Creditable, CheckoutOrder, CreditFails, order, stripe, webhook, Fail
<1>4. CheckoutOrder'
  BY TopupAssumption, EventsAreRecords DEF IInv, TypeOK, CheckoutOrder, EventOrder, CreditFails, order, stripe, webhook, Fail
<1>5. PageShowsFinal'
  BY TopupAssumption, EventsAreRecords DEF IInv, TypeOK, PageShowsFinal, Creditable, PageFinal, CheckoutOrder, Statuses, PageRecords, CreditFails, order, stripe, webhook, Fail
<1>6. EventOrder'
  <2> SUFFICES ASSUME NEW f \in Events
               PROVE  /\ f \in sent' => checkout'[f.order] \in {"returned", "over"}
                      /\ handler'[f] # "idle" => f \in sent'
                      /\ handler'[f] = "crediting" => paid'[f.order] = "match"
    BY DEF EventOrder
  <2>1. f.order \in Orders
    BY EventsAreRecords
  <2>2. /\ f \in sent => checkout[f.order] \in {"returned", "over"}
        /\ handler[f] # "idle" => f \in sent
        /\ handler[f] = "crediting" => paid[f.order] = "match"
    BY DEF IInv, EventOrder
  <2> QED
    BY <2>1, <2>2, EventsAreRecords DEF IInv, TypeOK, CheckoutOrder, EventTypes, PaymentEvents, CreditFails, order, stripe, webhook, Fail
<1> QED  BY <1>1, <1>2, <1>3, <1>4, <1>5, <1>6 DEF IInv

\* Release keeps the inductive invariant.
LEMMA ReleaseKeeps ==
  ASSUME IInv, NEW e \in Events, Release(e)
  PROVE  IInv'
<1>1. TypeOK'
  BY TopupAssumption, EventsAreRecords DEF IInv, TypeOK, Statuses, EventTypes, PaymentEvents, Release, order, stripe, webhook
<1>2. CreditedAtMostOnce'
  BY TopupAssumption, EventsAreRecords DEF IInv, TypeOK, CreditedAtMostOnce, StatusTellsCredit, Creditable, CheckoutOrder, Release, order, stripe, webhook
<1>3. StatusTellsCredit'
  BY TopupAssumption, EventsAreRecords DEF IInv, TypeOK, StatusTellsCredit, Creditable, CheckoutOrder, Release, order, stripe, webhook
<1>4. CheckoutOrder'
  BY TopupAssumption, EventsAreRecords DEF IInv, TypeOK, CheckoutOrder, EventOrder, Release, order, stripe, webhook
<1>5. PageShowsFinal'
  BY TopupAssumption, EventsAreRecords DEF IInv, TypeOK, PageShowsFinal, Creditable, PageFinal, CheckoutOrder, Statuses, PageRecords, Release, order, stripe, webhook
<1>6. EventOrder'
  <2> SUFFICES ASSUME NEW f \in Events
               PROVE  /\ f \in sent' => checkout'[f.order] \in {"returned", "over"}
                      /\ handler'[f] # "idle" => f \in sent'
                      /\ handler'[f] = "crediting" => paid'[f.order] = "match"
    BY DEF EventOrder
  <2>1. f.order \in Orders
    BY EventsAreRecords
  <2>2. /\ f \in sent => checkout[f.order] \in {"returned", "over"}
        /\ handler[f] # "idle" => f \in sent
        /\ handler[f] = "crediting" => paid[f.order] = "match"
    BY DEF IInv, EventOrder
  <2> QED
    BY <2>1, <2>2, EventsAreRecords DEF IInv, TypeOK, CheckoutOrder, EventTypes, PaymentEvents, Release, order, stripe, webhook
<1> QED  BY <1>1, <1>2, <1>3, <1>4, <1>5, <1>6 DEF IInv

\* ReleaseFails keeps the inductive invariant.
LEMMA ReleaseFailsKeeps ==
  ASSUME IInv, NEW e \in Events, ReleaseFails(e)
  PROVE  IInv'
<1>1. TypeOK'
  BY TopupAssumption, EventsAreRecords DEF IInv, TypeOK, Statuses, EventTypes, PaymentEvents, ReleaseFails, order, stripe, webhook
<1>2. CreditedAtMostOnce'
  BY TopupAssumption, EventsAreRecords DEF IInv, TypeOK, CreditedAtMostOnce, StatusTellsCredit, Creditable, CheckoutOrder, ReleaseFails, order, stripe, webhook
<1>3. StatusTellsCredit'
  BY TopupAssumption, EventsAreRecords DEF IInv, TypeOK, StatusTellsCredit, Creditable, CheckoutOrder, ReleaseFails, order, stripe, webhook
<1>4. CheckoutOrder'
  BY TopupAssumption, EventsAreRecords DEF IInv, TypeOK, CheckoutOrder, EventOrder, ReleaseFails, order, stripe, webhook
<1>5. PageShowsFinal'
  BY TopupAssumption, EventsAreRecords DEF IInv, TypeOK, PageShowsFinal, Creditable, PageFinal, CheckoutOrder, Statuses, PageRecords, ReleaseFails, order, stripe, webhook
<1>6. EventOrder'
  <2> SUFFICES ASSUME NEW f \in Events
               PROVE  /\ f \in sent' => checkout'[f.order] \in {"returned", "over"}
                      /\ handler'[f] # "idle" => f \in sent'
                      /\ handler'[f] = "crediting" => paid'[f.order] = "match"
    BY DEF EventOrder
  <2>1. f.order \in Orders
    BY EventsAreRecords
  <2>2. /\ f \in sent => checkout[f.order] \in {"returned", "over"}
        /\ handler[f] # "idle" => f \in sent
        /\ handler[f] = "crediting" => paid[f.order] = "match"
    BY DEF IInv, EventOrder
  <2> QED
    BY <2>1, <2>2, EventsAreRecords DEF IInv, TypeOK, CheckoutOrder, EventTypes, PaymentEvents, ReleaseFails, order, stripe, webhook
<1> QED  BY <1>1, <1>2, <1>3, <1>4, <1>5, <1>6 DEF IInv

\* Crash keeps the inductive invariant.
LEMMA CrashKeeps ==
  ASSUME IInv, Crash
  PROVE  IInv'
<1>1. TypeOK'
  BY TopupAssumption, EventsAreRecords DEF IInv, TypeOK, Statuses, EventTypes, PaymentEvents, Crash, order, stripe, webhook
<1>2. CreditedAtMostOnce'
  BY TopupAssumption, EventsAreRecords DEF IInv, TypeOK, CreditedAtMostOnce, StatusTellsCredit, Creditable, CheckoutOrder, Crash, order, stripe, webhook
<1>3. StatusTellsCredit'
  BY TopupAssumption, EventsAreRecords DEF IInv, TypeOK, StatusTellsCredit, Creditable, CheckoutOrder, Crash, order, stripe, webhook
<1>4. CheckoutOrder'
  BY TopupAssumption, EventsAreRecords DEF IInv, TypeOK, CheckoutOrder, EventOrder, Crash, order, stripe, webhook
<1>5. PageShowsFinal'
  BY TopupAssumption, EventsAreRecords DEF IInv, TypeOK, PageShowsFinal, Creditable, PageFinal, CheckoutOrder, Statuses, PageRecords, Crash, order, stripe, webhook
<1>6. EventOrder'
  <2> SUFFICES ASSUME NEW f \in Events
               PROVE  /\ f \in sent' => checkout'[f.order] \in {"returned", "over"}
                      /\ handler'[f] # "idle" => f \in sent'
                      /\ handler'[f] = "crediting" => paid'[f.order] = "match"
    BY DEF EventOrder
  <2>1. f.order \in Orders
    BY EventsAreRecords
  <2>2. /\ f \in sent => checkout[f.order] \in {"returned", "over"}
        /\ handler[f] # "idle" => f \in sent
        /\ handler[f] = "crediting" => paid[f.order] = "match"
    BY DEF IInv, EventOrder
  <2> QED
    BY <2>1, <2>2, EventsAreRecords DEF IInv, TypeOK, CheckoutOrder, EventTypes, PaymentEvents, Crash, order, stripe, webhook
<1> QED  BY <1>1, <1>2, <1>3, <1>4, <1>5, <1>6 DEF IInv

\* Spend keeps the inductive invariant.
LEMMA SpendKeeps ==
  ASSUME IInv, Spend
  PROVE  IInv'
<1>1. TypeOK'
  <2>1. (quota \in Nat)'
    BY TopupAssumption, EventsAreRecords DEF IInv, TypeOK, Spend, order, stripe, webhook
  <2>2. (lot \in [Orders -> 0 .. PaidQuota])'
    BY TopupAssumption, EventsAreRecords DEF IInv, TypeOK, Spend, order, stripe, webhook
  <2>3. UNCHANGED <<status, hasSession, credits, checkout, session, paid, sent, acked, claimed, handler, page>>
    BY DEF Spend, order, stripe, webhook
  <2> QED  BY <2>1, <2>2, <2>3 DEF IInv, TypeOK
<1>2. CreditedAtMostOnce'
  BY TopupAssumption, EventsAreRecords DEF IInv, TypeOK, CreditedAtMostOnce, StatusTellsCredit, Creditable, CheckoutOrder, Spend, order, stripe, webhook
<1>3. StatusTellsCredit'
  BY TopupAssumption, EventsAreRecords DEF IInv, TypeOK, StatusTellsCredit, Creditable, CheckoutOrder, Spend, order, stripe, webhook
<1>4. CheckoutOrder'
  BY TopupAssumption, EventsAreRecords DEF IInv, TypeOK, CheckoutOrder, EventOrder, Spend, order, stripe, webhook
<1>5. PageShowsFinal'
  BY TopupAssumption, EventsAreRecords DEF IInv, TypeOK, PageShowsFinal, Creditable, PageFinal, CheckoutOrder, Statuses, PageRecords, Spend, order, stripe, webhook
<1>6. EventOrder'
  <2> SUFFICES ASSUME NEW f \in Events
               PROVE  /\ f \in sent' => checkout'[f.order] \in {"returned", "over"}
                      /\ handler'[f] # "idle" => f \in sent'
                      /\ handler'[f] = "crediting" => paid'[f.order] = "match"
    BY DEF EventOrder
  <2>1. f.order \in Orders
    BY EventsAreRecords
  <2>2. /\ f \in sent => checkout[f.order] \in {"returned", "over"}
        /\ handler[f] # "idle" => f \in sent
        /\ handler[f] = "crediting" => paid[f.order] = "match"
    BY DEF IInv, EventOrder
  <2> QED
    BY <2>1, <2>2, EventsAreRecords DEF IInv, TypeOK, CheckoutOrder, EventTypes, PaymentEvents, Spend, order, stripe, webhook
<1> QED  BY <1>1, <1>2, <1>3, <1>4, <1>5, <1>6 DEF IInv

\* Every step keeps the inductive invariant.
LEMMA NextIInv == IInv /\ [Next]_vars => IInv'
<1> SUFFICES ASSUME IInv, [Next]_vars  PROVE IInv'
  OBVIOUS
<1>1. ASSUME NEW o \in Orders, CreateReservedOrder(o)  PROVE IInv'
  BY <1>1, CreateReservedOrderKeeps
<1>2. ASSUME NEW o \in Orders, OpenSession(o)  PROVE IInv'
  BY <1>2, OpenSessionKeeps
<1>3. ASSUME NEW o \in Orders, OpenSessionFails(o)  PROVE IInv'
  BY <1>3, OpenSessionFailsKeeps
<1>4. ASSUME NEW o \in Orders, ReturnSession(o)  PROVE IInv'
  BY <1>4, ReturnSessionKeeps
<1>5. ASSUME NEW o \in Orders, SaveSessionFails(o)  PROVE IInv'
  BY <1>5, SaveSessionFailsKeeps
<1>6. ASSUME NEW o \in Orders, Pay(o)  PROVE IInv'
  BY <1>6, PayKeeps
<1>7. ASSUME NEW o \in Orders, PayLater(o)  PROVE IInv'
  BY <1>7, PayLaterKeeps
<1>8. ASSUME NEW o \in Orders, AsyncPaymentSucceeds(o)  PROVE IInv'
  BY <1>8, AsyncPaymentSucceedsKeeps
<1>9. ASSUME NEW o \in Orders, AsyncPaymentFails(o)  PROVE IInv'
  BY <1>9, AsyncPaymentFailsKeeps
<1>10. ASSUME NEW o \in Orders, Decline(o)  PROVE IInv'
  BY <1>10, DeclineKeeps
<1>11. ASSUME NEW o \in Orders, Expire(o)  PROVE IInv'
  BY <1>11, ExpireKeeps
<1>12. ASSUME NEW o \in Orders, RefundOrDispute(o)  PROVE IInv'
  BY <1>12, RefundOrDisputeKeeps
<1>13. ASSUME NEW o \in Orders, AdminRetryTopupCredit(o)  PROVE IInv'
  BY <1>13, AdminRetryTopupCreditKeeps
<1>14. ASSUME NEW o \in Orders, Poll(o)  PROVE IInv'
  BY <1>14, PollKeeps
<1>15. ASSUME NEW e \in Events, Claim(e)  PROVE IInv'
  BY <1>15, ClaimKeeps
<1>16. ASSUME NEW e \in Events, IgnoreDuplicate(e)  PROVE IInv'
  BY <1>16, IgnoreDuplicateKeeps
<1>17. ASSUME NEW e \in Events, HandleCheckoutPaid(e)  PROVE IInv'
  BY <1>17, HandleCheckoutPaidKeeps
<1>18. ASSUME NEW e \in Events, CreditStripeTopupOrder(e)  PROVE IInv'
  BY <1>18, CreditStripeTopupOrderKeeps
<1>19. ASSUME NEW e \in Events, HandleStatusEvent(e)  PROVE IInv'
  BY <1>19, HandleStatusEventKeeps
<1>20. ASSUME NEW e \in Events, HandleChargeRefunded(e)  PROVE IInv'
  BY <1>20, HandleChargeRefundedKeeps
<1>21. ASSUME NEW e \in Events, CreditFails(e)  PROVE IInv'
  BY <1>21, CreditFailsKeeps
<1>22. ASSUME NEW e \in Events, Release(e)  PROVE IInv'
  BY <1>22, ReleaseKeeps
<1>23. ASSUME NEW e \in Events, ReleaseFails(e)  PROVE IInv'
  BY <1>23, ReleaseFailsKeeps
<1>24. CASE Crash
  BY <1>24, CrashKeeps
<1>25. CASE Spend
  BY <1>25, SpendKeeps
<1>26. CASE UNCHANGED vars
  BY <1>26 DEF vars, order, stripe, webhook, IInv, TypeOK, CreditedAtMostOnce, StatusTellsCredit,
     CheckoutOrder, EventOrder, PageShowsFinal
<1> QED
  BY <1>1, <1>2, <1>3, <1>4, <1>5, <1>6, <1>7, <1>8, <1>9, <1>10, <1>11, <1>12, <1>13, <1>14, <1>15, <1>16, <1>17, <1>18, <1>19, <1>20, <1>21, <1>22, <1>23, <1>24, <1>25, <1>26 DEF Next, Handle

\* The inductive invariant holds of every reachable state.
THEOREM Invariance == Spec => []IInv
  BY InitIInv, NextIInv, PTL DEF Spec

\* The variables keep their types.
THEOREM TypeCorrect == Spec => []TypeOK
<1>1. IInv => TypeOK
  BY DEF IInv
<1> QED  BY <1>1, Invariance, PTL

\* However often and in whatever order its events are delivered, and whatever
\* dies in between, CreditStripeTopupOrder credits an order at most once.
THEOREM CreditedOnce == Spec => []CreditedAtMostOnce
<1>1. IInv => CreditedAtMostOnce
  BY DEF IInv
<1> QED  BY <1>1, Invariance, PTL

\* A step that credits x: an administrator's, or that of a handler that is
\* about to credit it.
CreditStep(x) ==
  /\ status[x] \in Creditable
  /\ AdminRetryTopupCredit(x) \/ \E e \in Events : e.order = x /\ handler[e] = "crediting"

\* Nothing else changes the number of credits.
LEMMA OnlyCreditsCredit ==
  ASSUME IInv, [Next]_vars, NEW x \in Orders,
         credits'[x] # credits[x]
  PROVE  CreditStep(x)
<1>1. ASSUME NEW o \in Orders, CreateReservedOrder(o)  PROVE CreditStep(x)
  BY <1>1 DEF CreateReservedOrder, order, stripe, webhook
<1>2. ASSUME NEW o \in Orders, OpenSession(o)  PROVE CreditStep(x)
  BY <1>2 DEF OpenSession, order, stripe, webhook
<1>3. ASSUME NEW o \in Orders, OpenSessionFails(o)  PROVE CreditStep(x)
  BY <1>3 DEF OpenSessionFails, order, stripe, webhook
<1>4. ASSUME NEW o \in Orders, ReturnSession(o)  PROVE CreditStep(x)
  BY <1>4 DEF ReturnSession, order, stripe, webhook
<1>5. ASSUME NEW o \in Orders, SaveSessionFails(o)  PROVE CreditStep(x)
  BY <1>5 DEF SaveSessionFails, order, stripe, webhook
<1>6. ASSUME NEW o \in Orders, Pay(o)  PROVE CreditStep(x)
  BY <1>6 DEF Pay, order, stripe, webhook, Raise, CustomerActs
<1>7. ASSUME NEW o \in Orders, PayLater(o)  PROVE CreditStep(x)
  BY <1>7 DEF PayLater, order, stripe, webhook, Raise, CustomerActs
<1>8. ASSUME NEW o \in Orders, AsyncPaymentSucceeds(o)  PROVE CreditStep(x)
  BY <1>8 DEF AsyncPaymentSucceeds, order, stripe, webhook, Raise
<1>9. ASSUME NEW o \in Orders, AsyncPaymentFails(o)  PROVE CreditStep(x)
  BY <1>9 DEF AsyncPaymentFails, order, stripe, webhook, Raise
<1>10. ASSUME NEW o \in Orders, Decline(o)  PROVE CreditStep(x)
  BY <1>10 DEF Decline, order, stripe, webhook, Raise, CustomerActs
<1>11. ASSUME NEW o \in Orders, Expire(o)  PROVE CreditStep(x)
  BY <1>11 DEF Expire, order, stripe, webhook, Raise
<1>12. ASSUME NEW o \in Orders, RefundOrDispute(o)  PROVE CreditStep(x)
  BY <1>12 DEF RefundOrDispute, order, stripe, webhook, Raise
<1>13. ASSUME NEW o \in Orders, AdminRetryTopupCredit(o)  PROVE CreditStep(x)
  <2>1. o = x /\ status[o] \in Creditable
    BY <1>13 DEF AdminRetryTopupCredit, CreditOrder, CanCredit, IInv, TypeOK
  <2> QED  BY <1>13, <2>1 DEF CreditStep
<1>14. ASSUME NEW o \in Orders, Poll(o)  PROVE CreditStep(x)
  BY <1>14 DEF Poll, order, stripe, webhook
<1>15. ASSUME NEW e \in Events, Claim(e)  PROVE CreditStep(x)
  BY <1>15 DEF Claim, order, stripe, webhook
<1>16. ASSUME NEW e \in Events, IgnoreDuplicate(e)  PROVE CreditStep(x)
  BY <1>16 DEF IgnoreDuplicate, order, stripe, webhook
<1>17. ASSUME NEW e \in Events, HandleCheckoutPaid(e)  PROVE CreditStep(x)
  BY <1>17 DEF HandleCheckoutPaid, order, stripe, webhook, Done
<1>18. ASSUME NEW e \in Events, CreditStripeTopupOrder(e)  PROVE CreditStep(x)
  <2>1. e.order = x /\ status[x] \in Creditable /\ handler[e] = "crediting"
    BY <1>18, EventsAreRecords DEF CreditStripeTopupOrder, CreditOrder, CanCredit, IInv, TypeOK, order
  <2> QED  BY <2>1 DEF CreditStep
<1>19. ASSUME NEW e \in Events, HandleStatusEvent(e)  PROVE CreditStep(x)
  BY <1>19 DEF HandleStatusEvent, order, stripe, webhook, MarkStatus, Done, Fail
<1>20. ASSUME NEW e \in Events, HandleChargeRefunded(e)  PROVE CreditStep(x)
  BY <1>20 DEF HandleChargeRefunded, order, stripe, webhook, TakeBack, TakeBackLegacy, Done
<1>21. ASSUME NEW e \in Events, CreditFails(e)  PROVE CreditStep(x)
  BY <1>21 DEF CreditFails, order, stripe, webhook, Fail
<1>22. ASSUME NEW e \in Events, Release(e)  PROVE CreditStep(x)
  BY <1>22 DEF Release, order, stripe, webhook
<1>23. ASSUME NEW e \in Events, ReleaseFails(e)  PROVE CreditStep(x)
  BY <1>23 DEF ReleaseFails, order, stripe, webhook
<1>24. CASE Crash
  BY <1>24 DEF Crash, order
<1>25. CASE Spend
  BY <1>25 DEF Spend
<1>26. CASE UNCHANGED vars
  BY <1>26 DEF vars, order
<1> QED
  BY <1>1, <1>2, <1>3, <1>4, <1>5, <1>6, <1>7, <1>8, <1>9, <1>10, <1>11, <1>12, <1>13, <1>14, <1>15, <1>16, <1>17, <1>18, <1>19, <1>20, <1>21, <1>22, <1>23, <1>24, <1>25, <1>26 DEF Next, Handle

\* What a step may do to a credited order and to the balance when it refunds
\* an order.
StatusStep(x) ==
  /\ status[x] = "credited" => status'[x] \in {"credited", "refunded", "manual_review"}
  /\ status[x] # "refunded" /\ status'[x] = "refunded"
       => quota - quota' = lot[x] \/ (status[x] = "paid" /\ credits[x] = 0)

\* Every step respects it.
LEMMA StatusSteps ==
  ASSUME IInv, [Next]_vars, NEW x \in Orders
  PROVE  StatusStep(x)
<1>1. ASSUME NEW o \in Orders, CreateReservedOrder(o)  PROVE StatusStep(x)
  BY <1>1, EventsAreRecords DEF CreateReservedOrder, order, stripe, webhook, StatusStep, IInv, TypeOK, CheckoutOrder, Creditable, StatusTellsCredit
<1>2. ASSUME NEW o \in Orders, OpenSession(o)  PROVE StatusStep(x)
  BY <1>2 DEF OpenSession, order, stripe, webhook, StatusStep
<1>3. ASSUME NEW o \in Orders, OpenSessionFails(o)  PROVE StatusStep(x)
  BY <1>3, EventsAreRecords DEF OpenSessionFails, order, stripe, webhook, StatusStep, IInv, TypeOK, CheckoutOrder, Creditable, StatusTellsCredit
<1>4. ASSUME NEW o \in Orders, ReturnSession(o)  PROVE StatusStep(x)
  BY <1>4, EventsAreRecords DEF ReturnSession, order, stripe, webhook, StatusStep, IInv, TypeOK, CheckoutOrder, Creditable, StatusTellsCredit
<1>5. ASSUME NEW o \in Orders, SaveSessionFails(o)  PROVE StatusStep(x)
  BY <1>5 DEF SaveSessionFails, order, stripe, webhook, StatusStep
<1>6. ASSUME NEW o \in Orders, Pay(o)  PROVE StatusStep(x)
  BY <1>6 DEF Pay, order, stripe, webhook, Raise, CustomerActs, StatusStep
<1>7. ASSUME NEW o \in Orders, PayLater(o)  PROVE StatusStep(x)
  BY <1>7 DEF PayLater, order, stripe, webhook, Raise, CustomerActs, StatusStep
<1>8. ASSUME NEW o \in Orders, AsyncPaymentSucceeds(o)  PROVE StatusStep(x)
  BY <1>8 DEF AsyncPaymentSucceeds, order, stripe, webhook, Raise, StatusStep
<1>9. ASSUME NEW o \in Orders, AsyncPaymentFails(o)  PROVE StatusStep(x)
  BY <1>9 DEF AsyncPaymentFails, order, stripe, webhook, Raise, StatusStep
<1>10. ASSUME NEW o \in Orders, Decline(o)  PROVE StatusStep(x)
  BY <1>10 DEF Decline, order, stripe, webhook, Raise, CustomerActs, StatusStep
<1>11. ASSUME NEW o \in Orders, Expire(o)  PROVE StatusStep(x)
  BY <1>11 DEF Expire, order, stripe, webhook, Raise, StatusStep
<1>12. ASSUME NEW o \in Orders, RefundOrDispute(o)  PROVE StatusStep(x)
  BY <1>12 DEF RefundOrDispute, order, stripe, webhook, Raise, StatusStep
<1>13. ASSUME NEW o \in Orders, AdminRetryTopupCredit(o)  PROVE StatusStep(x)
  BY <1>13, EventsAreRecords DEF AdminRetryTopupCredit, order, stripe, webhook, CreditOrder, CanCredit, StatusStep, IInv, TypeOK, CheckoutOrder, Creditable, StatusTellsCredit
<1>14. ASSUME NEW o \in Orders, Poll(o)  PROVE StatusStep(x)
  BY <1>14 DEF Poll, order, stripe, webhook, StatusStep
<1>15. ASSUME NEW e \in Events, Claim(e)  PROVE StatusStep(x)
  BY <1>15 DEF Claim, order, stripe, webhook, StatusStep
<1>16. ASSUME NEW e \in Events, IgnoreDuplicate(e)  PROVE StatusStep(x)
  BY <1>16 DEF IgnoreDuplicate, order, stripe, webhook, StatusStep
<1>17. ASSUME NEW e \in Events, HandleCheckoutPaid(e)  PROVE StatusStep(x)
  BY <1>17, EventsAreRecords DEF HandleCheckoutPaid, order, stripe, webhook, Done, StatusStep, IInv, TypeOK, CheckoutOrder, Creditable, StatusTellsCredit
<1>18. ASSUME NEW e \in Events, CreditStripeTopupOrder(e)  PROVE StatusStep(x)
  BY <1>18, EventsAreRecords DEF CreditStripeTopupOrder, order, stripe, webhook, CreditOrder, CanCredit, Done, Fail, StatusStep, IInv, TypeOK, CheckoutOrder, Creditable, StatusTellsCredit
<1>19. ASSUME NEW e \in Events, HandleStatusEvent(e)  PROVE StatusStep(x)
  BY <1>19, EventsAreRecords DEF HandleStatusEvent, order, stripe, webhook, MarkStatus, Done, Fail, StatusStep, IInv, TypeOK, CheckoutOrder, Creditable, StatusTellsCredit
<1>20. ASSUME NEW e \in Events, HandleChargeRefunded(e)  PROVE StatusStep(x)
  BY <1>20, EventsAreRecords DEF HandleChargeRefunded, order, stripe, webhook, TakeBack, TakeBackLegacy, Done, StatusStep, IInv, TypeOK, CheckoutOrder, Creditable, StatusTellsCredit
<1>21. ASSUME NEW e \in Events, CreditFails(e)  PROVE StatusStep(x)
  BY <1>21 DEF CreditFails, order, stripe, webhook, Fail, StatusStep
<1>22. ASSUME NEW e \in Events, Release(e)  PROVE StatusStep(x)
  BY <1>22 DEF Release, order, stripe, webhook, StatusStep
<1>23. ASSUME NEW e \in Events, ReleaseFails(e)  PROVE StatusStep(x)
  BY <1>23 DEF ReleaseFails, order, stripe, webhook, StatusStep
<1>24. CASE Crash
  BY <1>24 DEF Crash, order, StatusStep
<1>25. CASE Spend
  BY <1>25 DEF Spend, StatusStep
<1>26. CASE UNCHANGED vars
  BY <1>26 DEF vars, order, StatusStep
<1> QED
  BY <1>1, <1>2, <1>3, <1>4, <1>5, <1>6, <1>7, <1>8, <1>9, <1>10, <1>11, <1>12, <1>13, <1>14, <1>15, <1>16, <1>17, <1>18, <1>19, <1>20, <1>21, <1>22, <1>23, <1>24, <1>25, <1>26 DEF Next, Handle

\* Only an administrator credits an order without a matching payment.
THEOREM CreditIsPaid == Spec => CreditNeedsPayment
<1>1. ASSUME IInv, [Next]_vars, NEW o \in Orders, credits'[o] > credits[o]
      PROVE  paid[o] = "match" \/ AdminRetryTopupCredit(o)
  <2>1. CreditStep(o)
    <3>1. credits'[o] # credits[o]
      BY <1>1 DEF IInv, TypeOK
    <3> QED  BY <1>1, <3>1, OnlyCreditsCredit
  <2> QED  BY <1>1, <2>1 DEF CreditStep, IInv, EventOrder
<1>2. IInv /\ [Next]_vars
        => [\A o \in Orders :
              credits'[o] > credits[o] => paid[o] = "match" \/ AdminRetryTopupCredit(o)]_vars
  BY <1>1
<1> QED  BY <1>2, Invariance, PTL DEF Spec, CreditNeedsPayment

\* No event of a failed, expired or disputed payment undoes a credit.
THEOREM CreditStays == Spec => CreditSticks
<1>1. IInv /\ [Next]_vars
        => [\A o \in Orders :
              status[o] = "credited" => status'[o] \in {"credited", "refunded", "manual_review"}]_vars
  BY StatusSteps DEF StatusStep
<1> QED  BY <1>1, Invariance, PTL DEF Spec, CreditSticks

\* ReconcileRefund takes back what is left of the order's own credit, except
\* for an order that was paid and never credited.
THEOREM RefundIsOwn == Spec => RefundTakesOwnCredit
<1>1. IInv /\ [Next]_vars
        => [\A o \in Orders :
              status[o] # "refunded" /\ status'[o] = "refunded"
                => quota - quota' = lot[o] \/ (status[o] = "paid" /\ credits[o] = 0)]_vars
  BY StatusSteps DEF StatusStep
<1> QED  BY <1>1, Invariance, PTL DEF Spec, RefundTakesOwnCredit

\* The success page stops polling only at a status that is never credited
\* afterwards.
THEOREM VerdictIsFinal == Spec => PageVerdictFinal
<1>1. ASSUME IInv, [Next]_vars, NEW o \in Orders, page[o].shown \in PageFinal
      PROVE  credits'[o] = credits[o]
  BY <1>1, OnlyCreditsCredit DEF CreditStep, IInv, PageShowsFinal
<1>2. IInv /\ [Next]_vars
        => [\A o \in Orders : page[o].shown \in PageFinal => credits'[o] = credits[o]]_vars
  BY <1>1
<1> QED  BY <1>2, Invariance, PTL DEF Spec, PageVerdictFinal

=============================================================================
