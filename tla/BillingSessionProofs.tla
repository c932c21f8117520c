------------------------ MODULE BillingSessionProofs ------------------------
(***************************************************************************)
(* Proofs about module BillingSession, for any number of requests, any     *)
(* prices, balances and subscriptions and any number of faults, lost       *)
(* commits, resets and crashes: the state is well typed, and the wallet    *)
(* and the token are charged as module ChargeLedger says.                  *)
(***************************************************************************)
EXTENDS BillingSession, TLAPS

\* What a session knows at each point of its life. Without it a step could give
\* back more than was taken: the token's share must equal the funding's, nothing
\* may be marked settled while it can still be refunded, and a session that
\* falls back to the other source must start from nothing.
SessionInv(r) ==
  /\ pc[r] = "idle" => s[r] = NoSession
  /\ pc[r] \notin {"refundToken", "failed"} => s[r].kept = 0
  /\ pc[r] \in {"wallet", "token", "take"} => s[r].tokenConsumed = 0 /\ s[r].pre = 0
  /\ pc[r] \in {"funding", "rollback", "abort"} =>
       s[r].tokenConsumed = Amount(r) /\ s[r].pre = 0
  /\ pc[r] \in {"relaying", "settling", "unsettled", "refundFunding", "refundRecord",
                "settleToken"} =>
       s[r].pre = s[r].tokenConsumed
  /\ pc[r] \in {"wallet", "token", "take", "funding", "rollback", "abort",
                "relaying", "settling", "unsettled"} =>
       ~s[r].settled /\ ~s[r].refunded /\ ~s[r].fundingSettled
  /\ pc[r] = "settled" => s[r].settled
  /\ pc[r] \in {"take", "settleToken"} => r \notin Playground
  /\ pc[r] = "refundRecord" => s[r].source = "subscription"

IInv == TypeOK /\ \A r \in Requests : SessionInv(r)

\* A step of request r leaves the other requests alone.
Frame(r) == \A q \in Requests \ {r} : pc'[q] = pc[q] /\ s'[q] = s[q]

\* The phase of a request moves on from one that is not closed, or the request
\* is left as it was.
Moves(phase, charge, phaseAfter, chargeAfter) ==
  \/ phase # "closed" /\ phaseAfter # phase
  \/ phaseAfter = phase /\ chargeAfter = charge

WalletStep(r) ==
  /\ quota' = quota + WalletCharge(r) - WalletCharge(r)'
  /\ Moves(WalletPhase(r), WalletCharge(r), WalletPhase(r)', WalletCharge(r)')

TokenStep(r) ==
  /\ token' = token + TokenCharge(r) - TokenCharge(r)'
  /\ Moves(TokenPhase(r), TokenCharge(r), TokenPhase(r)', TokenCharge(r)')

Effect(r) == Frame(r) /\ TypeOK' /\ SessionInv(r)' /\ WalletStep(r) /\ TokenStep(r)

LEMMA InitIInv == Init => IInv
  <1>. SUFFICES ASSUME Init PROVE IInv
    OBVIOUS
  <1>1. NoSession \in Sessions
    BY DEF NoSession, Sessions, NoSub
  <1>2. TypeOK
    BY <1>1, BillingAssumption DEF Init, TypeOK, PCs, Reserving, Subs
  <1>3. ASSUME NEW r \in Requests PROVE SessionInv(r)
    <2>1. pc[r] = "idle" /\ s[r] = NoSession
      BY DEF Init
    <2>. QED
      BY <2>1 DEF SessionInv, NoSession
  <1>. QED
    BY <1>2, <1>3 DEF IInv

\* The numbers of a session, and what is computed from them.
LEMMA SessionNumbers ==
  ASSUME TypeOK, NEW r \in Requests
  PROVE /\ s[r] \in Sessions /\ s[r].est \in Nat /\ s[r].pre \in Nat
        /\ s[r].tokenConsumed \in Nat /\ s[r].actual \in Nat /\ s[r].leak \in Int
        /\ Amount(r) \in Nat /\ Delta(r) \in Int
  BY DEF TypeOK, Sessions, Amount, Delta

LEMMA NothingToSettle ==
  ASSUME TypeOK, NEW r \in Requests, Delta(r) = 0
  PROVE s[r].actual = s[r].pre
  BY SessionNumbers DEF Delta

LEMMA MaybeResetType ==
  ASSUME TypeOK, NEW u \in Subs
  PROVE MaybeReset(subs[u]) \in [used : Nat, due : BOOLEAN, active : BOOLEAN]
  <1>1. subs[u] \in [used : Nat, due : BOOLEAN, active : BOOLEAN]
    BY DEF TypeOK
  <1>. QED
    BY <1>1 DEF MaybeReset

\* A session for the other funding source starts from nothing.
LEMMA NewSessionIsFresh ==
  ASSUME TypeOK, NEW r \in Requests, NEW source \in {"wallet", "subscription"}, NEW leak \in Int
  PROVE /\ NewSession(r, source, leak) \in Sessions
        /\ NewSession(r, source, leak).leak = leak
        /\ NewSession(r, source, leak).kept = 0
        /\ NewSession(r, source, leak).pre = 0
        /\ NewSession(r, source, leak).tokenConsumed = 0
        /\ ~NewSession(r, source, leak).settled
        /\ ~NewSession(r, source, leak).refunded
        /\ ~NewSession(r, source, leak).fundingSettled
  <1>1. s[r] \in Sessions
    BY DEF TypeOK
  <1>2. s[r].pref \in {"subscription_first", "wallet_first", "subscription_only", "wallet_only"}
        /\ s[r].est \in Nat /\ s[r].tokenSeen \in Int
    BY <1>1 DEF Sessions
  <1>3. NoSession \in Sessions
    BY DEF NoSession, Sessions, NoSub
  <1>4. NewSession(r, source, leak) \in Sessions
    BY <1>2, <1>3 DEF NewSession, Sessions
  <1>. QED
    BY <1>4 DEF NewSession, NoSession

\* Insufficient tries the other source or rejects; either way the request owes
\* only what failed statements left wrong.
LEMMA InsufficientEffect ==
  ASSUME IInv, NEW r \in Requests, NEW leak \in Int,
         pc[r] \in {"wallet", "rollback"}, Insufficient(r, leak)
  PROVE /\ Frame(r) /\ s' \in [Requests -> Sessions] /\ pc' \in [Requests -> PCs]
        /\ SessionInv(r)'
        /\ WalletCharge(r)' = 0 /\ WalletPhase(r)' \in {"open", "closed"}
        /\ TokenCharge(r)' = leak /\ TokenPhase(r)' \in {"open", "closed"}
        /\ s'[r].leak = leak
  <1>. DEFINE Goes(label, x) == pc' = [pc EXCEPT ![r] = label] /\ s' = [s EXCEPT ![r] = x]
  <1>1. \/ Goes("token", NewSession(r, "subscription", leak))
        \/ Goes("wallet", NewSession(r, "wallet", leak))
        \/ Goes("rejected", [s[r] EXCEPT !.leak = leak])
    BY DEF Insufficient, Goto
  <1>2. CASE Goes("token", NewSession(r, "subscription", leak))
    <2>1. /\ Frame(r) /\ pc'[r] = "token" /\ s'[r] = NewSession(r, "subscription", leak)
          /\ s' \in [Requests -> Sessions] /\ pc' \in [Requests -> PCs]
      BY <1>2, NewSessionIsFresh DEF IInv, TypeOK, Frame, PCs, Reserving
    <2>. QED
      BY <2>1, NewSessionIsFresh
      DEF IInv, SessionInv, WalletCharge, WalletPhase, TokenCharge, TokenPhase, Reserving
  <1>3. CASE Goes("wallet", NewSession(r, "wallet", leak))
    <2>1. /\ Frame(r) /\ pc'[r] = "wallet" /\ s'[r] = NewSession(r, "wallet", leak)
          /\ s' \in [Requests -> Sessions] /\ pc' \in [Requests -> PCs]
      BY <1>3, NewSessionIsFresh DEF IInv, TypeOK, Frame, PCs, Reserving
    <2>. QED
      BY <2>1, NewSessionIsFresh
      DEF IInv, SessionInv, WalletCharge, WalletPhase, TokenCharge, TokenPhase, Reserving
  <1>4. CASE Goes("rejected", [s[r] EXCEPT !.leak = leak])
    <2>1. s[r] \in Sessions /\ [s[r] EXCEPT !.leak = leak] \in Sessions /\ s[r].kept = 0
      BY SessionNumbers DEF IInv, SessionInv, Sessions
    <2>2. /\ Frame(r) /\ pc'[r] = "rejected" /\ s'[r] = [s[r] EXCEPT !.leak = leak]
          /\ s' \in [Requests -> Sessions] /\ pc' \in [Requests -> PCs]
      BY <1>4, <2>1 DEF IInv, TypeOK, Frame, PCs, Ended
    <2>3. s'[r].kept = 0 /\ s'[r].leak = leak
      BY <2>1, <2>2 DEF Sessions
    <2>. QED
      BY <2>2, <2>3
      DEF SessionInv, WalletCharge, WalletPhase, TokenCharge, TokenPhase, Reserving, Holding
  <1>. QED
    BY <1>1, <1>2, <1>3, <1>4

-----------------------------------------------------------------------------
(* One lemma per action: what it does to its own request and to the accounts. *)

LEMMA NewBillingSessionEffect ==
  ASSUME IInv, NEW r \in Requests, NEW pref \in Preferences, NEW n \in Estimates,
         NewBillingSession(r, pref, n)
  PROVE Effect(r)
  <1>. DEFINE fresh(source) == [NoSession EXCEPT !.pref = pref, !.source = source,
                                                 !.est = n, !.tokenSeen = token]
  <1>1. PICK source \in {"wallet", "subscription"} :
          /\ s' = [s EXCEPT ![r] = fresh(source)]
          /\ pc' = [pc EXCEPT ![r] = IF source = "wallet" THEN "wallet" ELSE "token"]
    BY DEF NewBillingSession, Goto
  <1>2. /\ fresh(source).kept = 0 /\ fresh(source).leak = 0
        /\ fresh(source).pre = 0 /\ fresh(source).tokenConsumed = 0
        /\ ~fresh(source).settled /\ ~fresh(source).refunded /\ ~fresh(source).fundingSettled
    BY DEF NoSession
  <1>3. fresh(source) \in Sessions
    <2>1. pref \in {"subscription_first", "wallet_first", "subscription_only", "wallet_only"}
          /\ n \in Nat /\ token \in Int
      BY BillingAssumption DEF IInv, TypeOK
    <2>2. NoSession \in Sessions
      BY DEF NoSession, Sessions, NoSub
    <2>. QED
      BY <2>1, <2>2 DEF Sessions
  <1>. HIDE DEF fresh
  <1>4. Frame(r) /\ s'[r] = fresh(source) /\ pc'[r] \in {"wallet", "token"}
    BY <1>1 DEF IInv, TypeOK, Frame
  <1>5. TypeOK'
    BY <1>1, <1>3 DEF IInv, TypeOK, NewBillingSession, PCs, Reserving
  <1>6. SessionInv(r)'
    BY <1>2, <1>4 DEF SessionInv
  <1>7. pc[r] = "idle" /\ s[r].leak = 0 /\ quota' = quota /\ token' = token
    BY DEF IInv, SessionInv, NoSession, NewBillingSession, At
  <1>8. quota \in Int /\ token \in Int
    BY DEF IInv, TypeOK
  <1>9. WalletStep(r)
    BY <1>4, <1>7, <1>8 DEF WalletStep, Moves, WalletCharge, WalletPhase, Reserving
  <1>10. TokenStep(r)
    BY <1>2, <1>4, <1>7, <1>8 DEF TokenStep, Moves, TokenCharge, TokenPhase
  <1>. QED
    BY <1>4, <1>5, <1>6, <1>9, <1>10 DEF Effect

LEMMA TryWalletEffect ==
  ASSUME IInv, NEW r \in Requests, TryWallet(r)
  PROVE Effect(r)
  <1>1. /\ pc[r] = "wallet" /\ s[r].leak \in Int /\ quota \in Int /\ token \in Int
        /\ s[r].tokenConsumed = 0 /\ s[r].pre = 0
    BY SessionNumbers DEF IInv, TypeOK, SessionInv, TryWallet, At
  <1>2. CASE quota <= 0 \/ quota < s[r].est
    <2>1. Insufficient(r, s[r].leak)
      BY <1>2 DEF TryWallet
    <2>2. /\ Frame(r) /\ s' \in [Requests -> Sessions] /\ pc' \in [Requests -> PCs]
          /\ SessionInv(r)'
          /\ WalletCharge(r)' = 0 /\ WalletPhase(r)' \in {"open", "closed"}
          /\ TokenCharge(r)' = s[r].leak /\ TokenPhase(r)' \in {"open", "closed"}
      BY <1>1, <2>1, InsufficientEffect
    <2>3. TypeOK'
      BY <2>2 DEF IInv, TypeOK, TryWallet
    <2>4. /\ WalletCharge(r) = 0 /\ WalletPhase(r) = "open"
          /\ TokenCharge(r) = s[r].leak /\ TokenPhase(r) = "open"
      BY <1>1 DEF WalletCharge, WalletPhase, TokenCharge, TokenPhase, Reserving
    <2>5. quota' = quota /\ token' = token
      BY DEF TryWallet
    <2>. QED
      BY <1>1, <2>2, <2>3, <2>4, <2>5 DEF Effect, WalletStep, TokenStep, Moves
  <1>3. CASE ~(quota <= 0 \/ quota < s[r].est)
    <2>1. /\ UNCHANGED <<quota, token, s, subs, record, down, budget>>
          /\ \/ pc' = [pc EXCEPT ![r] = "relaying"]
             \/ pc' = [pc EXCEPT ![r] = "token"]
      BY <1>3 DEF TryWallet, Goto
    <2>2. Frame(r) /\ TypeOK' /\ pc'[r] \in {"relaying", "token"}
      BY <2>1 DEF IInv, TypeOK, Frame, PCs, Reserving, Holding
    <2>3. SessionInv(r)'
      BY <1>1, <2>1, <2>2 DEF IInv, SessionInv
    <2>4. WalletStep(r)
      BY <1>1, <2>1, <2>2 DEF WalletStep, Moves, WalletCharge, WalletPhase, Reserving, Holding
    <2>5. TokenStep(r)
      BY <1>1, <2>1, <2>2 DEF TokenStep, Moves, TokenCharge, TokenPhase
    <2>. QED
      BY <2>2, <2>3, <2>4, <2>5 DEF Effect
  <1>. QED
    BY <1>2, <1>3

LEMMA ReadTokenEffect ==
  ASSUME IInv, NEW r \in Requests, ReadToken(r)
  PROVE Effect(r)
  <1>. USE DEF IInv, TypeOK, ReadToken, Goto, At
  <1>1. Frame(r)
    BY DEF Frame
  <1>2. TypeOK'
    <2>1. /\ s[r] \in Sessions /\ s[r].pre \in Nat /\ s[r].tokenConsumed \in Nat
          /\ s[r].leak \in Int /\ Amount(r) \in Nat /\ Delta(r) \in Int
      BY SessionNumbers
    <2>2. /\ [s[r] EXCEPT !.tokenConsumed = Amount(r)] \in Sessions
      BY <2>1 DEF Sessions
    <2>3. s' \in [Requests -> Sessions]
      BY <2>1, <2>2
    <2>. QED
      BY <2>1, <2>3 DEF PCs, Reserving, Holding, Ended
  <1>3. SessionInv(r)'
    BY DEF SessionInv, Sessions, Amount
  <1>4. WalletStep(r)
    BY DEF SessionInv, Sessions, WalletStep, Moves, WalletCharge, WalletPhase, Reserving, Holding
  <1>5. TokenStep(r)
    <2>1. /\ s[r].leak \in Int /\ s[r].tokenConsumed \in Nat /\ s[r].pre \in Nat
          /\ Amount(r) \in Nat /\ token \in Int
      BY SessionNumbers
    <2>2. /\ token' = token /\ pc[r] = "token" /\ s'[r].leak = s[r].leak
          /\ IF r \in Playground THEN pc'[r] = "funding" ELSE pc'[r] \in {"rejected", "take"}
      BY <2>1 DEF Sessions
    <2>. QED
      BY <2>1, <2>2 DEF TokenStep, Moves, TokenCharge, TokenPhase
  <1>. QED
    BY <1>1, <1>2, <1>3, <1>4, <1>5 DEF Effect

LEMMA DecreaseTokenQuotaEffect ==
  ASSUME IInv, NEW r \in Requests, DecreaseTokenQuota(r)
  PROVE Effect(r)
  <1>. USE DEF IInv, TypeOK, DecreaseTokenQuota, Goto, At
  <1>1. Frame(r)
    BY DEF Frame
  <1>2. TypeOK'
    <2>1. /\ s[r] \in Sessions /\ s[r].pre \in Nat /\ s[r].tokenConsumed \in Nat
          /\ s[r].leak \in Int /\ Amount(r) \in Nat /\ Delta(r) \in Int
      BY SessionNumbers
    <2>2. /\ [s[r] EXCEPT !.tokenConsumed = Amount(r)] \in Sessions
      BY <2>1 DEF Sessions
    <2>3. s' \in [Requests -> Sessions]
      BY <2>1, <2>2
    <2>. QED
      BY <2>1, <2>3 DEF PCs, Reserving, Holding, Ended
  <1>3. SessionInv(r)'
    BY DEF SessionInv, Sessions, Amount
  <1>4. WalletStep(r)
    BY DEF SessionInv, Sessions, WalletStep, Moves, WalletCharge, WalletPhase, Reserving, Holding
  <1>5. TokenStep(r)
    <2>1. s[r].leak \in Int /\ Amount(r) \in Nat /\ token \in Int
      BY SessionNumbers
    <2>2. /\ token' = token - Amount(r) /\ s'[r].leak = s[r].leak /\ s'[r].tokenConsumed = Amount(r)
          /\ pc[r] = "take" /\ pc'[r] = "funding" /\ r \notin Playground
      BY DEF SessionInv, Sessions
    <2>. QED
      BY <2>1, <2>2 DEF TokenStep, Moves, TokenCharge, TokenPhase
  <1>. QED
    BY <1>1, <1>2, <1>3, <1>4, <1>5 DEF Effect

LEMMA PreConsumeWalletEffect ==
  ASSUME IInv, NEW r \in Requests, PreConsumeWallet(r)
  PROVE Effect(r)
  <1>. USE DEF IInv, TypeOK, PreConsumeWallet, Goto, At
  <1>1. Frame(r)
    BY DEF Frame
  <1>2. TypeOK'
    <2>1. /\ s[r] \in Sessions /\ s[r].pre \in Nat /\ s[r].tokenConsumed \in Nat
          /\ s[r].leak \in Int /\ Amount(r) \in Nat /\ Delta(r) \in Int
      BY SessionNumbers
    <2>2. /\ [s[r] EXCEPT !.pre = Amount(r)] \in Sessions
      BY <2>1 DEF Sessions
    <2>3. s' \in [Requests -> Sessions]
      BY <2>1, <2>2
    <2>. QED
      BY <2>1, <2>3 DEF PCs, Reserving, Holding, Ended
  <1>3. SessionInv(r)'
    BY DEF SessionInv, Sessions, Amount
  <1>4. WalletStep(r)
    BY DEF SessionInv, Sessions, WalletStep, Moves, WalletCharge, WalletPhase, Reserving, Holding, Amount
  <1>5. TokenStep(r)
    <2>1. /\ s[r].leak \in Int /\ s[r].tokenConsumed \in Nat /\ s[r].pre \in Nat
          /\ Amount(r) \in Nat /\ token \in Int
      BY SessionNumbers
    <2>2. /\ token' = token /\ s'[r].leak = s[r].leak /\ s'[r].tokenConsumed = s[r].tokenConsumed
          /\ pc[r] = "funding" /\ pc'[r] \in {"relaying", "abort"}
      BY <2>1 DEF Sessions
    <2>. QED
      BY <2>1, <2>2 DEF TokenStep, Moves, TokenCharge, TokenPhase
  <1>. QED
    BY <1>1, <1>2, <1>3, <1>4, <1>5 DEF Effect

LEMMA PreConsumeUserSubscriptionEffect ==
  ASSUME IInv, NEW r \in Requests, PreConsumeUserSubscription(r)
  PROVE Effect(r)
  <1>1. /\ pc[r] = "funding" /\ s[r].source = "subscription" /\ s[r].kept = 0
        /\ s[r].tokenConsumed = Amount(r) /\ s[r].pre = 0
        /\ ~s[r].settled /\ ~s[r].refunded /\ ~s[r].fundingSettled
    BY DEF IInv, SessionInv, PreConsumeUserSubscription, At
  <1>2. /\ s[r] \in Sessions /\ Amount(r) \in Nat /\ s[r].leak \in Int
        /\ quota \in Int /\ token \in Int
    BY SessionNumbers DEF IInv, TypeOK
  <1>3. quota' = quota /\ token' = token /\ UNCHANGED <<down, budget>>
    BY DEF PreConsumeUserSubscription
  <1>4. ASSUME NEW payer \in Payers(Amount(r)),
               subs' = [u \in Subs |->
                          IF u > payer \/ ~subs[u].active THEN subs[u]
                          ELSE IF u < payer THEN MaybeReset(subs[u])
                          ELSE [MaybeReset(subs[u]) EXCEPT !.used = @ + Amount(r)]],
               record' = [record EXCEPT ![r] = "consumed"],
               s' = [s EXCEPT ![r].pre = Amount(r), ![r].sub = payer],
               Goto(r, "relaying")
        PROVE  Effect(r)
    <2>1. payer \in Subs
      BY DEF Payers
    <2>2. [s[r] EXCEPT !.pre = Amount(r), !.sub = payer] \in Sessions
      BY <1>2, <2>1 DEF Sessions
    <2>3. /\ s'[r] = [s[r] EXCEPT !.pre = Amount(r), !.sub = payer]
          /\ s' \in [Requests -> Sessions] /\ Frame(r) /\ pc'[r] = "relaying"
          /\ pc' \in [Requests -> PCs]
      BY <1>4, <2>2 DEF IInv, TypeOK, Frame, Goto, PCs, Holding
    <2>4. /\ s'[r].pre = Amount(r) /\ s'[r].tokenConsumed = s[r].tokenConsumed
          /\ s'[r].kept = s[r].kept /\ s'[r].leak = s[r].leak /\ s'[r].source = s[r].source
          /\ s'[r].settled = s[r].settled /\ s'[r].refunded = s[r].refunded
          /\ s'[r].fundingSettled = s[r].fundingSettled
      BY <1>2, <2>3 DEF Sessions
    <2>5. subs' \in [Subs -> [used : Nat, due : BOOLEAN, active : BOOLEAN]]
      <3>1. ASSUME NEW u \in Subs
            PROVE /\ MaybeReset(subs[u]) \in [used : Nat, due : BOOLEAN, active : BOOLEAN]
                  /\ [MaybeReset(subs[u]) EXCEPT !.used = @ + Amount(r)]
                       \in [used : Nat, due : BOOLEAN, active : BOOLEAN]
        <4>1. MaybeReset(subs[u]) \in [used : Nat, due : BOOLEAN, active : BOOLEAN]
          BY MaybeResetType DEF IInv
        <4>. QED
          BY <1>2, <4>1
      <3>. QED
        BY <1>4, <3>1 DEF IInv, TypeOK
    <2>6. TypeOK'
      BY <1>3, <1>4, <2>3, <2>5 DEF IInv, TypeOK
    <2>7. SessionInv(r)'
      BY <1>1, <2>3, <2>4 DEF SessionInv
    <2>8. WalletStep(r)
      BY <1>1, <1>2, <1>3, <2>3, <2>4
      DEF WalletStep, Moves, WalletCharge, WalletPhase, Reserving, Holding
    <2>9. TokenStep(r)
      BY <1>1, <1>2, <1>3, <2>3, <2>4 DEF TokenStep, Moves, TokenCharge, TokenPhase
    <2>. QED
      BY <2>3, <2>6, <2>7, <2>8, <2>9 DEF Effect
  <1>5. ASSUME Goto(r, "rollback"), UNCHANGED <<subs, record, s>>
        PROVE  Effect(r)
    <2>1. Frame(r) /\ TypeOK' /\ pc'[r] = "rollback"
      BY <1>3, <1>5 DEF IInv, TypeOK, Frame, Goto, PCs, Reserving
    <2>2. SessionInv(r)'
      BY <1>1, <1>5, <2>1 DEF SessionInv, Amount
    <2>3. WalletStep(r) /\ TokenStep(r)
      BY <1>1, <1>2, <1>3, <1>5, <2>1
      DEF WalletStep, TokenStep, Moves, WalletCharge, WalletPhase, TokenCharge, TokenPhase,
          Reserving
    <2>. QED
      BY <2>1, <2>2, <2>3 DEF Effect
  <1>. QED
    BY <1>4, <1>5 DEF PreConsumeUserSubscription

LEMMA ReservationFailsEffect ==
  ASSUME IInv, NEW r \in Requests, ReservationFails(r)
  PROVE Effect(r)
  <1>. USE DEF IInv, TypeOK, ReservationFails, Goto, At
  <1>1. Frame(r)
    BY DEF Frame
  <1>2. TypeOK'
    <2>1. /\ s[r] \in Sessions /\ s[r].pre \in Nat /\ s[r].tokenConsumed \in Nat
          /\ s[r].leak \in Int /\ Amount(r) \in Nat /\ Delta(r) \in Int
      BY SessionNumbers
    <2>. QED
      BY <2>1 DEF PCs, Reserving, Holding, Ended, Fault
  <1>3. SessionInv(r)'
    BY DEF SessionInv, Sessions, Amount
  <1>4. WalletStep(r)
    BY DEF SessionInv, Sessions, WalletStep, Moves, WalletCharge, WalletPhase, Reserving, Holding
  <1>5. TokenStep(r)
    BY DEF SessionInv, Sessions, TokenStep, Moves, TokenCharge, TokenPhase
  <1>. QED
    BY <1>1, <1>2, <1>3, <1>4, <1>5 DEF Effect

LEMMA RollbackTokenEffect ==
  ASSUME IInv, NEW r \in Requests, RollbackToken(r)
  PROVE Effect(r)
  <1>1. /\ pc[r] \in {"rollback", "abort"} /\ s[r].kept = 0
        /\ s[r] \in Sessions /\ s[r].leak \in Int /\ s[r].tokenConsumed \in Nat
        /\ quota \in Int /\ token \in Int
    BY SessionNumbers DEF IInv, TypeOK, SessionInv, RollbackToken, At
  <1>2. /\ quota' = quota /\ UNCHANGED <<subs, record, down>>
        /\ budget' \in [resets : Nat, faults : Nat, commits : Nat]
    BY DEF RollbackToken, Fault, IInv, TypeOK
  <1>3. WalletCharge(r) = 0 /\ WalletPhase(r) = "open" /\ TokenPhase(r) = "held"
    BY <1>1 DEF WalletCharge, WalletPhase, TokenPhase, Reserving
  <1>4. PICK leak \in Int :
          /\ token' = token + TokenCharge(r) - leak
          /\ IF pc[r] = "rollback" THEN Insufficient(r, leak)
             ELSE Goto(r, "rejected") /\ s' = [s EXCEPT ![r].leak = leak]
    <2>1. CASE token' = (IF r \in Playground THEN token ELSE token + s[r].tokenConsumed)
               /\ (IF pc[r] = "rollback" THEN Insufficient(r, s[r].leak)
                   ELSE Goto(r, "rejected") /\ UNCHANGED s)
      <3>1. token' = token + TokenCharge(r) - s[r].leak
        BY <1>1, <1>3, <2>1 DEF TokenCharge
      <3>2. UNCHANGED s => s' = [s EXCEPT ![r].leak = s[r].leak]
        BY DEF IInv, TypeOK, Sessions
      <3>. QED
        BY <1>1, <2>1, <3>1, <3>2
    <2>2. CASE r \notin Playground /\ token' = token
               /\ (IF pc[r] = "rollback" THEN Insufficient(r, s[r].leak + s[r].tokenConsumed)
                   ELSE Goto(r, "rejected")
                        /\ s' = [s EXCEPT ![r].leak = @ + s[r].tokenConsumed])
      <3>1. token' = token + TokenCharge(r) - (s[r].leak + s[r].tokenConsumed)
            /\ s[r].leak + s[r].tokenConsumed \in Int
        BY <1>1, <1>3, <2>2 DEF TokenCharge
      <3>. QED
        BY <2>2, <3>1
    <2>. QED
      BY <2>1, <2>2 DEF RollbackToken
  <1>5. /\ Frame(r) /\ s' \in [Requests -> Sessions] /\ pc' \in [Requests -> PCs]
        /\ SessionInv(r)'
        /\ WalletCharge(r)' = 0 /\ WalletPhase(r)' \in {"open", "closed"}
        /\ TokenCharge(r)' = leak /\ TokenPhase(r)' \in {"open", "closed"}
    <2>1. CASE pc[r] = "rollback"
      BY <1>4, <2>1, InsufficientEffect
    <2>2. CASE pc[r] # "rollback"
      <3>1. [s[r] EXCEPT !.leak = leak] \in Sessions
        BY <1>1 DEF Sessions
      <3>2. /\ Frame(r) /\ s' \in [Requests -> Sessions] /\ pc' \in [Requests -> PCs]
            /\ pc'[r] = "rejected" /\ s'[r] = [s[r] EXCEPT !.leak = leak]
        BY <1>4, <2>2, <3>1 DEF IInv, TypeOK, Frame, Goto, PCs, Ended
      <3>3. s'[r].kept = 0 /\ s'[r].leak = leak
        BY <1>1, <3>2 DEF Sessions
      <3>. QED
        BY <3>2, <3>3
        DEF SessionInv, WalletCharge, WalletPhase, TokenCharge, TokenPhase, Reserving, Holding
    <2>. QED
      BY <2>1, <2>2
  <1>6. TypeOK'
    <2>1. TokenCharge(r) \in Int
      BY <1>1, <1>3 DEF TokenCharge
    <2>. QED
      BY <1>1, <1>2, <1>4, <1>5, <2>1 DEF IInv, TypeOK
  <1>7. WalletStep(r)
    BY <1>1, <1>2, <1>3, <1>5 DEF WalletStep, Moves
  <1>8. TokenStep(r)
    BY <1>3, <1>4, <1>5 DEF TokenStep, Moves
  <1>. QED
    BY <1>5, <1>6, <1>7, <1>8 DEF Effect

LEMMA RelaySucceedsEffect ==
  ASSUME IInv, NEW r \in Requests, NEW n \in Actuals, RelaySucceeds(r, n)
  PROVE Effect(r)
  <1>. USE DEF IInv, TypeOK, RelaySucceeds, Goto, At
  <1>1. Frame(r)
    BY DEF Frame
  <1>2. TypeOK'
    <2>1. /\ s[r] \in Sessions /\ s[r].pre \in Nat /\ s[r].tokenConsumed \in Nat
          /\ s[r].leak \in Int /\ Amount(r) \in Nat /\ Delta(r) \in Int /\ n \in Nat
      BY SessionNumbers, BillingAssumption
    <2>2. /\ [s[r] EXCEPT !.actual = n] \in Sessions
      BY <2>1 DEF Sessions
    <2>3. s' \in [Requests -> Sessions]
      BY <2>1, <2>2
    <2>. QED
      BY <2>1, <2>3 DEF PCs, Reserving, Holding, Ended
  <1>3. SessionInv(r)'
    BY DEF SessionInv, Sessions
  <1>4. WalletStep(r)
    BY DEF SessionInv, Sessions, WalletStep, Moves, WalletCharge, WalletPhase, Reserving, Holding
  <1>5. TokenStep(r)
    BY DEF SessionInv, Sessions, TokenStep, Moves, TokenCharge, TokenPhase
  <1>. QED
    BY <1>1, <1>2, <1>3, <1>4, <1>5 DEF Effect

LEMMA RelayFailsEffect ==
  ASSUME IInv, NEW r \in Requests, RelayFails(r)
  PROVE Effect(r)
  <1>. USE DEF IInv, TypeOK, RelayFails, Goto, At
  <1>1. Frame(r)
    BY DEF Frame
  <1>2. TypeOK'
    <2>1. /\ s[r] \in Sessions /\ s[r].pre \in Nat /\ s[r].tokenConsumed \in Nat
          /\ s[r].leak \in Int /\ Amount(r) \in Nat /\ Delta(r) \in Int
      BY SessionNumbers
    <2>2. /\ [s[r] EXCEPT !.refunded = TRUE] \in Sessions
      BY <2>1 DEF Sessions
    <2>3. s' \in [Requests -> Sessions]
      BY <2>1, <2>2
    <2>. QED
      BY <2>1, <2>3 DEF PCs, Reserving, Holding, Ended
  <1>3. SessionInv(r)'
    BY DEF SessionInv, Sessions, NeedsRefund
  <1>4. WalletStep(r)
    BY DEF SessionInv, Sessions, WalletStep, Moves, WalletCharge, WalletPhase, Reserving, Holding, NeedsRefund
  <1>5. TokenStep(r)
    BY DEF SessionInv, Sessions, TokenStep, Moves, TokenCharge, TokenPhase, NeedsRefund
  <1>. QED
    BY <1>1, <1>2, <1>3, <1>4, <1>5 DEF Effect

LEMMA SettleExactEffect ==
  ASSUME IInv, NEW r \in Requests, SettleExact(r)
  PROVE Effect(r)
  <1>. USE DEF IInv, TypeOK, SettleExact, Goto, At
  <1>1. Frame(r)
    BY DEF Frame
  <1>2. TypeOK'
    <2>1. /\ s[r] \in Sessions /\ s[r].pre \in Nat /\ s[r].tokenConsumed \in Nat
          /\ s[r].leak \in Int /\ Amount(r) \in Nat /\ Delta(r) \in Int
      BY SessionNumbers
    <2>2. /\ [s[r] EXCEPT !.settled = TRUE] \in Sessions
      BY <2>1 DEF Sessions
    <2>3. s' \in [Requests -> Sessions]
      BY <2>1, <2>2
    <2>. QED
      BY <2>1, <2>3 DEF PCs, Reserving, Holding, Ended
  <1>3. SessionInv(r)'
    BY DEF SessionInv, Sessions, Delta
  <1>4. WalletStep(r)
    BY DEF SessionInv, Sessions, WalletStep, Moves, WalletCharge, WalletPhase, Reserving, Holding, Delta
  <1>5. TokenStep(r)
    <2>1. /\ s[r].leak \in Int /\ s[r].tokenConsumed \in Nat /\ s[r].pre \in Nat
          /\ s[r].actual \in Nat /\ token \in Int
      BY SessionNumbers
    <2>2. /\ token' = token /\ s'[r].leak = s[r].leak /\ s'[r].actual = s[r].actual
          /\ pc[r] = "settling" /\ pc'[r] = "settled"
      BY DEF Sessions
    <2>3. s[r].pre = s[r].tokenConsumed
      BY DEF SessionInv
    <2>4. s[r].actual = s[r].pre
      BY NothingToSettle
    <2>. QED
      BY <2>1, <2>2, <2>3, <2>4 DEF TokenStep, Moves, TokenCharge, TokenPhase
  <1>. QED
    BY <1>1, <1>2, <1>3, <1>4, <1>5 DEF Effect

LEMMA SettleWalletEffect ==
  ASSUME IInv, NEW r \in Requests, SettleWallet(r)
  PROVE Effect(r)
  <1>. USE DEF IInv, TypeOK, SettleWallet, Goto, At
  <1>1. Frame(r)
    BY DEF Frame, FundingSettled
  <1>2. TypeOK'
    <2>1. /\ s[r] \in Sessions /\ s[r].pre \in Nat /\ s[r].tokenConsumed \in Nat
          /\ s[r].leak \in Int /\ Amount(r) \in Nat /\ Delta(r) \in Int
      BY SessionNumbers
    <2>2. /\ [s[r] EXCEPT !.fundingSettled = TRUE] \in Sessions
          /\ [s[r] EXCEPT !.fundingSettled = TRUE, !.settled = TRUE] \in Sessions
      BY <2>1 DEF Sessions
    <2>3. s' \in [Requests -> Sessions]
      BY <2>1, <2>2 DEF FundingSettled
    <2>. QED
      BY <2>1, <2>3 DEF PCs, Reserving, Holding, Ended, FundingSettled, Fault
  <1>3. SessionInv(r)'
    BY DEF SessionInv, Sessions, FundingSettled
  <1>4. WalletStep(r)
    BY DEF SessionInv, Sessions, WalletStep, Moves, WalletCharge, WalletPhase, Reserving, Holding, FundingSettled, Delta
  <1>5. TokenStep(r)
    BY DEF SessionInv, Sessions, TokenStep, Moves, TokenCharge, TokenPhase, FundingSettled
  <1>. QED
    BY <1>1, <1>2, <1>3, <1>4, <1>5 DEF Effect

LEMMA SettleSubscriptionEffect ==
  ASSUME IInv, NEW r \in Requests, SettleSubscription(r)
  PROVE Effect(r)
  <1>. USE DEF IInv, TypeOK, SettleSubscription, Goto, At
  <1>1. Frame(r)
    BY DEF Frame, FundingSettled
  <1>2. TypeOK'
    <2>1. /\ s[r] \in Sessions /\ s[r].pre \in Nat /\ s[r].tokenConsumed \in Nat
          /\ s[r].leak \in Int /\ Amount(r) \in Nat /\ Delta(r) \in Int
      BY SessionNumbers
    <2>2. /\ [s[r] EXCEPT !.fundingSettled = TRUE] \in Sessions
          /\ [s[r] EXCEPT !.fundingSettled = TRUE, !.settled = TRUE] \in Sessions
      BY <2>1 DEF Sessions
    <2>3. s' \in [Requests -> Sessions]
      BY <2>1, <2>2 DEF FundingSettled
    <2>. QED
      BY <2>1, <2>3 DEF PCs, Reserving, Holding, Ended, FundingSettled, Fault, UsedAfter
  <1>3. SessionInv(r)'
    BY DEF SessionInv, Sessions, FundingSettled
  <1>4. WalletStep(r)
    BY DEF SessionInv, Sessions, WalletStep, Moves, WalletCharge, WalletPhase, Reserving, Holding, FundingSettled
  <1>5. TokenStep(r)
    BY DEF SessionInv, Sessions, TokenStep, Moves, TokenCharge, TokenPhase, FundingSettled
  <1>. QED
    BY <1>1, <1>2, <1>3, <1>4, <1>5 DEF Effect

LEMMA SettleTokenEffect ==
  ASSUME IInv, NEW r \in Requests, SettleToken(r)
  PROVE Effect(r)
  <1>. USE DEF IInv, TypeOK, SettleToken, Goto, At
  <1>1. Frame(r)
    BY DEF Frame
  <1>2. TypeOK'
    <2>1. /\ s[r] \in Sessions /\ s[r].pre \in Nat /\ s[r].tokenConsumed \in Nat
          /\ s[r].leak \in Int /\ Amount(r) \in Nat /\ Delta(r) \in Int
      BY SessionNumbers
    <2>a. s[r].leak - Delta(r) \in Int /\ token - Delta(r) \in Int
      BY <2>1
    <2>2. /\ [s[r] EXCEPT !.settled = TRUE] \in Sessions
          /\ [s[r] EXCEPT !.settled = TRUE, !.leak = s[r].leak - Delta(r)] \in Sessions
      BY <2>1, <2>a DEF Sessions
    <2>3. s' \in [Requests -> Sessions]
      BY <2>1, <2>2
    <2>. QED
      BY <2>1, <2>3 DEF PCs, Reserving, Holding, Ended, Fault
  <1>3. SessionInv(r)'
    BY DEF SessionInv, Sessions
  <1>4. WalletStep(r)
    BY DEF SessionInv, Sessions, WalletStep, Moves, WalletCharge, WalletPhase, Reserving, Holding
  <1>5. TokenStep(r)
    BY DEF SessionInv, Sessions, TokenStep, Moves, TokenCharge, TokenPhase, Delta
  <1>. QED
    BY <1>1, <1>2, <1>3, <1>4, <1>5 DEF Effect

LEMMA FairUseRefundEffect ==
  ASSUME IInv, NEW r \in Requests, FairUseRefund(r)
  PROVE Effect(r)
  <1>. USE DEF IInv, TypeOK, FairUseRefund, Goto, At
  <1>1. Frame(r)
    BY DEF Frame
  <1>2. TypeOK'
    <2>1. /\ s[r] \in Sessions /\ s[r].pre \in Nat /\ s[r].tokenConsumed \in Nat
          /\ s[r].leak \in Int /\ Amount(r) \in Nat /\ Delta(r) \in Int
      BY SessionNumbers
    <2>2. /\ [s[r] EXCEPT !.refunded = TRUE] \in Sessions
      BY <2>1 DEF Sessions
    <2>3. s' \in [Requests -> Sessions]
      BY <2>1, <2>2
    <2>. QED
      BY <2>1, <2>3 DEF PCs, Reserving, Holding, Ended
  <1>3. SessionInv(r)'
    BY DEF SessionInv, Sessions, NeedsRefund
  <1>4. WalletStep(r)
    BY DEF SessionInv, Sessions, WalletStep, Moves, WalletCharge, WalletPhase, Reserving, Holding, NeedsRefund
  <1>5. TokenStep(r)
    BY DEF SessionInv, Sessions, TokenStep, Moves, TokenCharge, TokenPhase, NeedsRefund
  <1>. QED
    BY <1>1, <1>2, <1>3, <1>4, <1>5 DEF Effect

LEMMA RefundWalletEffect ==
  ASSUME IInv, NEW r \in Requests, RefundWallet(r)
  PROVE Effect(r)
  <1>. USE DEF IInv, TypeOK, RefundWallet, Goto, At
  <1>1. Frame(r)
    BY DEF Frame
  <1>2. TypeOK'
    <2>1. /\ s[r] \in Sessions /\ s[r].pre \in Nat /\ s[r].tokenConsumed \in Nat
          /\ s[r].leak \in Int /\ Amount(r) \in Nat /\ Delta(r) \in Int
      BY SessionNumbers
    <2>2. /\ [s[r] EXCEPT !.kept = s[r].pre] \in Sessions
      BY <2>1 DEF Sessions
    <2>3. s' \in [Requests -> Sessions]
      BY <2>1, <2>2
    <2>4. quota' \in Nat
      BY <2>1
    <2>5. budget' \in [resets : Nat, faults : Nat, commits : Nat]
      BY DEF Fault
    <2>6. pc' \in [Requests -> PCs]
      BY DEF PCs, Reserving, Holding, Ended
    <2>. QED
      BY <2>3, <2>4, <2>5, <2>6
  <1>3. SessionInv(r)'
    BY DEF SessionInv, Sessions
  <1>4. WalletStep(r)
    BY DEF SessionInv, Sessions, WalletStep, Moves, WalletCharge, WalletPhase, Reserving, Holding
  <1>5. TokenStep(r)
    BY DEF SessionInv, Sessions, TokenStep, Moves, TokenCharge, TokenPhase
  <1>. QED
    BY <1>1, <1>2, <1>3, <1>4, <1>5 DEF Effect

LEMMA RefundSubscriptionEffect ==
  ASSUME IInv, NEW r \in Requests, RefundSubscription(r)
  PROVE Effect(r)
  <1>. USE DEF IInv, TypeOK, RefundSubscription, Goto, At
  <1>1. Frame(r)
    BY DEF Frame
  <1>2. TypeOK'
    <2>1. /\ s[r] \in Sessions /\ s[r].pre \in Nat /\ s[r].tokenConsumed \in Nat
          /\ s[r].leak \in Int /\ Amount(r) \in Nat /\ Delta(r) \in Int
      BY SessionNumbers
    <2>a. s[r].tries < 2 => s[r].tries + 1 \in 0 .. 3
      BY <2>1 DEF Sessions
    <2>2. /\ [s[r] EXCEPT !.kept = s[r].pre] \in Sessions
          /\ s[r].tries < 2 => [s[r] EXCEPT !.tries = s[r].tries + 1] \in Sessions
      BY <2>1, <2>a DEF Sessions
    <2>3. s' \in [Requests -> Sessions]
      BY <2>1, <2>2
    <2>. QED
      BY <2>1, <2>3 DEF PCs, Reserving, Holding, Ended, Fault, UsedAfter
  <1>3. SessionInv(r)'
    BY DEF SessionInv, Sessions
  <1>4. WalletStep(r)
    <2>1. /\ quota' = quota /\ s[r].source = "subscription" /\ s'[r].source = "subscription"
          /\ pc[r] = "refundFunding" /\ pc'[r] \in {"refundFunding", "refundRecord", "refundToken"}
      BY DEF Sessions
    <2>. QED
      BY <2>1 DEF WalletStep, Moves, WalletCharge, WalletPhase, Reserving, Holding
  <1>5. TokenStep(r)
    <2>1. /\ s[r].leak \in Int /\ s[r].tokenConsumed \in Nat /\ s[r].pre \in Nat
          /\ Amount(r) \in Nat /\ token \in Int
      BY SessionNumbers
    <2>2. /\ token' = token /\ s'[r].leak = s[r].leak /\ s'[r].tokenConsumed = s[r].tokenConsumed
          /\ pc[r] = "refundFunding" /\ pc'[r] \in {"refundFunding", "refundRecord", "refundToken"}
      BY <2>1 DEF Sessions
    <2>. QED
      BY <2>1, <2>2 DEF TokenStep, Moves, TokenCharge, TokenPhase
  <1>. QED
    BY <1>1, <1>2, <1>3, <1>4, <1>5 DEF Effect

LEMMA MarkRefundedEffect ==
  ASSUME IInv, NEW r \in Requests, MarkRefunded(r)
  PROVE Effect(r)
  <1>. USE DEF IInv, TypeOK, MarkRefunded, Goto, At
  <1>1. Frame(r)
    BY DEF Frame
  <1>2. TypeOK'
    <2>1. /\ s[r] \in Sessions /\ s[r].pre \in Nat /\ s[r].tokenConsumed \in Nat
          /\ s[r].leak \in Int /\ Amount(r) \in Nat /\ Delta(r) \in Int
      BY SessionNumbers
    <2>a. s[r].tries < 2 => s[r].tries + 1 \in 0 .. 3
      BY <2>1 DEF Sessions
    <2>2. s[r].tries < 2 => [s[r] EXCEPT !.tries = s[r].tries + 1] \in Sessions
      BY <2>1, <2>a DEF Sessions
    <2>3. s' \in [Requests -> Sessions]
      BY <2>1, <2>2
    <2>. QED
      BY <2>1, <2>3 DEF PCs, Reserving, Holding, Ended
  <1>3. SessionInv(r)'
    BY DEF SessionInv, Sessions
  <1>4. WalletStep(r)
    BY DEF SessionInv, Sessions, WalletStep, Moves, WalletCharge, WalletPhase, Reserving, Holding
  <1>5. TokenStep(r)
    BY DEF SessionInv, Sessions, TokenStep, Moves, TokenCharge, TokenPhase
  <1>. QED
    BY <1>1, <1>2, <1>3, <1>4, <1>5 DEF Effect

LEMMA RefundTokenEffect ==
  ASSUME IInv, NEW r \in Requests, RefundToken(r)
  PROVE Effect(r)
  <1>. USE DEF IInv, TypeOK, RefundToken, Goto, At
  <1>1. Frame(r)
    BY DEF Frame
  <1>2. TypeOK'
    <2>1. /\ s[r] \in Sessions /\ s[r].pre \in Nat /\ s[r].tokenConsumed \in Nat
          /\ s[r].leak \in Int /\ Amount(r) \in Nat /\ Delta(r) \in Int
      BY SessionNumbers
    <2>a. s[r].leak + s[r].tokenConsumed \in Int /\ token' \in Int
      BY <2>1
    <2>2. [s[r] EXCEPT !.leak = s[r].leak + s[r].tokenConsumed] \in Sessions
      BY <2>1, <2>a DEF Sessions
    <2>3. s' \in [Requests -> Sessions]
      BY <2>1, <2>2
    <2>5. budget' \in [resets : Nat, faults : Nat, commits : Nat]
      BY DEF Fault
    <2>6. pc' \in [Requests -> PCs]
      BY DEF PCs, Reserving, Holding, Ended
    <2>. QED
      BY <2>a, <2>3, <2>5, <2>6
  <1>3. SessionInv(r)'
    BY DEF SessionInv, Sessions
  <1>4. WalletStep(r)
    BY DEF SessionInv, Sessions, WalletStep, Moves, WalletCharge, WalletPhase, Reserving, Holding
  <1>5. TokenStep(r)
    BY DEF SessionInv, Sessions, TokenStep, Moves, TokenCharge, TokenPhase
  <1>. QED
    BY <1>1, <1>2, <1>3, <1>4, <1>5 DEF Effect

\* What the environment does is no business of the accounts.
LEMMA EnvironmentEffect ==
  ASSUME IInv,
         \/ \E r \in Requests : Crash(r)
         \/ \E u \in Subs : PeriodEnds(u) \/ ResetDueSubscriptions(u) \/ SubscriptionEnds(u)
  PROVE TypeOK' /\ UNCHANGED <<quota, token, pc, s>>
  <1>1. CASE \E r \in Requests : Crash(r)
    BY <1>1 DEF IInv, TypeOK, Crash
  <1>2. ASSUME NEW u \in Subs, PeriodEnds(u) PROVE TypeOK' /\ UNCHANGED <<quota, token, pc, s>>
    <2>1. subs[u] \in [used : Nat, due : BOOLEAN, active : BOOLEAN]
      BY DEF IInv, TypeOK
    <2>2. [subs[u] EXCEPT !.due = TRUE] \in [used : Nat, due : BOOLEAN, active : BOOLEAN]
      BY <2>1
    <2>3. subs' \in [Subs -> [used : Nat, due : BOOLEAN, active : BOOLEAN]]
      BY <1>2, <2>2 DEF IInv, TypeOK, PeriodEnds
    <2>4. budget' \in [resets : Nat, faults : Nat, commits : Nat]
      BY <1>2 DEF IInv, TypeOK, PeriodEnds
    <2>. QED
      BY <1>2, <2>3, <2>4 DEF IInv, TypeOK, PeriodEnds
  <1>3. ASSUME NEW u \in Subs, ResetDueSubscriptions(u)
        PROVE TypeOK' /\ UNCHANGED <<quota, token, pc, s>>
    BY <1>3, MaybeResetType DEF IInv, TypeOK, ResetDueSubscriptions
  <1>4. ASSUME NEW u \in Subs, SubscriptionEnds(u)
        PROVE TypeOK' /\ UNCHANGED <<quota, token, pc, s>>
    <2>1. subs[u] \in [used : Nat, due : BOOLEAN, active : BOOLEAN]
      BY DEF IInv, TypeOK
    <2>2. [subs[u] EXCEPT !.active = FALSE] \in [used : Nat, due : BOOLEAN, active : BOOLEAN]
      BY <2>1
    <2>3. subs' \in [Subs -> [used : Nat, due : BOOLEAN, active : BOOLEAN]]
      BY <1>4, <2>2 DEF IInv, TypeOK, SubscriptionEnds
    <2>4. budget' \in [resets : Nat, faults : Nat, commits : Nat]
      BY <1>4 DEF IInv, TypeOK, SubscriptionEnds
    <2>. QED
      BY <1>4, <2>3, <2>4 DEF IInv, TypeOK, SubscriptionEnds
  <1>. QED
    BY <1>1, <1>2, <1>3, <1>4

\* Every step is one request's, with the effect above, or touches no request.
LEMMA StepEffect ==
  ASSUME IInv, [Next]_vars
  PROVE \/ \E r \in Requests : Effect(r)
        \/ TypeOK' /\ UNCHANGED <<quota, token, pc, s>>
  <1>1. ASSUME NEW r \in Requests, Step(r) PROVE Effect(r)
    <2>1. CASE TryWallet(r) \/ ReadToken(r) \/ DecreaseTokenQuota(r) \/ PreConsumeWallet(r)
      BY <2>1, TryWalletEffect, ReadTokenEffect, DecreaseTokenQuotaEffect, PreConsumeWalletEffect
    <2>2. CASE PreConsumeUserSubscription(r) \/ ReservationFails(r) \/ RollbackToken(r)
      BY <2>2, PreConsumeUserSubscriptionEffect, ReservationFailsEffect, RollbackTokenEffect
    <2>3. CASE RelayFails(r) \/ (\E n \in Actuals : RelaySucceeds(r, n)) \/ SettleExact(r)
      BY <2>3, RelayFailsEffect, RelaySucceedsEffect, SettleExactEffect
    <2>4. CASE SettleWallet(r) \/ SettleSubscription(r) \/ SettleToken(r)
      BY <2>4, SettleWalletEffect, SettleSubscriptionEffect, SettleTokenEffect
    <2>5. CASE RefundWallet(r) \/ RefundSubscription(r) \/ MarkRefunded(r) \/ RefundToken(r)
      BY <2>5, RefundWalletEffect, RefundSubscriptionEffect, MarkRefundedEffect, RefundTokenEffect
    <2>. QED
      BY <1>1, <2>1, <2>2, <2>3, <2>4, <2>5 DEF Step
  <1>2. ASSUME NEW r \in Requests, NEW pref \in Preferences, NEW n \in Estimates,
               NewBillingSession(r, pref, n)
        PROVE Effect(r)
    BY <1>2, NewBillingSessionEffect
  <1>3. ASSUME NEW r \in Requests, FairUseRefund(r) PROVE Effect(r)
    BY <1>3, FairUseRefundEffect
  <1>4. CASE UNCHANGED vars
    BY <1>4 DEF IInv, TypeOK, vars
  <1>. QED
    BY <1>1, <1>2, <1>3, <1>4, EnvironmentEffect DEF Next

LEMMA NextIInv ==
  ASSUME IInv, [Next]_vars
  PROVE IInv'
  <1>1. ASSUME NEW r \in Requests, Effect(r) PROVE IInv'
    <2>1. ASSUME NEW q \in Requests PROVE SessionInv(q)'
      <3>1. CASE q = r
        BY <1>1, <3>1 DEF Effect
      <3>2. CASE q # r
        <4>1. pc'[q] = pc[q] /\ s'[q] = s[q] /\ SessionInv(q)
          BY <1>1, <3>2 DEF Effect, Frame, IInv
        <4>. QED
          BY <4>1 DEF SessionInv, Amount
      <3>. QED
        BY <3>1, <3>2
    <2>. QED
      BY <1>1, <2>1 DEF Effect, IInv
  <1>2. CASE TypeOK' /\ UNCHANGED <<quota, token, pc, s>>
    BY <1>2 DEF IInv, SessionInv, Amount
  <1>. QED
    BY <1>1, <1>2, StepEffect

LEMMA WalletNext ==
  ASSUME IInv, [Next]_vars
  PROVE [Wallet!Next]_(Wallet!vars)
  <1>. DEFINE charge == [r \in Requests |-> WalletCharge(r)]
              phase == [r \in Requests |-> WalletPhase(r)]
  <1>1. ASSUME NEW r \in Requests, Effect(r) PROVE [Wallet!Next]_(Wallet!vars)
    <2>1. \A q \in Requests \ {r} : charge'[q] = charge[q] /\ phase'[q] = phase[q]
      BY <1>1 DEF Effect, Frame, WalletCharge, WalletPhase
    <2>2. /\ charge[r] = WalletCharge(r) /\ charge'[r] = WalletCharge(r)'
          /\ phase[r] = WalletPhase(r) /\ phase'[r] = WalletPhase(r)'
      OBVIOUS
    <2>3. Wallet!Move(r)
      BY <1>1, <2>1, <2>2 DEF Effect, WalletStep, Wallet!Move
    <2>4. CASE phase[r] # "closed" /\ phase'[r] # phase[r]
      <3>1. phase[r] \in {"open", "held"} /\ phase'[r] \in {"open", "held", "closed"}
        BY <2>2, <2>4 DEF WalletPhase
      <3>2. Wallet!Hold(r) \/ Wallet!Release(r) \/ Wallet!Close(r)
        BY <2>3, <2>4, <3>1 DEF Wallet!Hold, Wallet!Release, Wallet!Close
      <3>. QED
        BY <3>2 DEF Wallet!Next
    <2>5. CASE phase'[r] = phase[r] /\ charge'[r] = charge[r]
      <3>1. charge' = charge /\ phase' = phase
        BY <2>1, <2>5
      <3>2. quota' = quota
        <4>1. WalletCharge(r) \in Int /\ quota \in Int
          BY DEF IInv, TypeOK, Sessions, WalletCharge
        <4>. QED
          BY <1>1, <2>2, <2>5, <4>1 DEF Effect, WalletStep
      <3>. QED
        BY <3>1, <3>2 DEF Wallet!vars
    <2>. QED
      BY <1>1, <2>2, <2>4, <2>5 DEF Effect, WalletStep, Moves
  <1>2. CASE UNCHANGED <<quota, token, pc, s>>
    BY <1>2 DEF Wallet!vars, WalletCharge, WalletPhase
  <1>. QED
    BY <1>1, <1>2, StepEffect

LEMMA TokenNext ==
  ASSUME IInv, [Next]_vars
  PROVE [Token!Next]_(Token!vars)
  <1>. DEFINE charge == [r \in Requests |-> TokenCharge(r)]
              phase == [r \in Requests |-> TokenPhase(r)]
  <1>1. ASSUME NEW r \in Requests, Effect(r) PROVE [Token!Next]_(Token!vars)
    <2>1. \A q \in Requests \ {r} : charge'[q] = charge[q] /\ phase'[q] = phase[q]
      BY <1>1 DEF Effect, Frame, TokenCharge, TokenPhase
    <2>2. /\ charge[r] = TokenCharge(r) /\ charge'[r] = TokenCharge(r)'
          /\ phase[r] = TokenPhase(r) /\ phase'[r] = TokenPhase(r)'
      OBVIOUS
    <2>3. Token!Move(r)
      BY <1>1, <2>1, <2>2 DEF Effect, TokenStep, Token!Move
    <2>4. CASE phase[r] # "closed" /\ phase'[r] # phase[r]
      <3>1. phase[r] \in {"open", "held"} /\ phase'[r] \in {"open", "held", "closed"}
        BY <2>2, <2>4 DEF TokenPhase
      <3>2. Token!Hold(r) \/ Token!Release(r) \/ Token!Close(r)
        BY <2>3, <2>4, <3>1 DEF Token!Hold, Token!Release, Token!Close
      <3>. QED
        BY <3>2 DEF Token!Next
    <2>5. CASE phase'[r] = phase[r] /\ charge'[r] = charge[r]
      <3>1. charge' = charge /\ phase' = phase
        BY <2>1, <2>5
      <3>2. token' = token
        <4>1. TokenCharge(r) \in Int /\ token \in Int
          BY DEF IInv, TypeOK, Sessions, TokenCharge
        <4>. QED
          BY <1>1, <2>2, <2>5, <4>1 DEF Effect, TokenStep
      <3>. QED
        BY <3>1, <3>2 DEF Token!vars
    <2>. QED
      BY <1>1, <2>2, <2>4, <2>5 DEF Effect, TokenStep, Moves
  <1>2. CASE UNCHANGED <<quota, token, pc, s>>
    BY <1>2 DEF Token!vars, TokenCharge, TokenPhase
  <1>. QED
    BY <1>1, <1>2, StepEffect

\* A subscription that stays within its total, reset or not, or after a refund.
LEMMA UsageShrinks ==
  ASSUME TypeOK, UsageWithinTotal, SubTotal > 0, NEW u \in Subs, NEW n \in Nat
  PROVE /\ MaybeReset(subs[u]).used <= SubTotal
        /\ UsedAfter(u, -n) <= SubTotal
  <1>1. /\ subs[u] \in [used : Nat, due : BOOLEAN, active : BOOLEAN]
        /\ subs[u].used <= SubTotal /\ SubTotal \in Nat
    BY BillingAssumption DEF TypeOK, UsageWithinTotal
  <1>. QED
    BY <1>1 DEF MaybeReset, UsedAfter

LEMMA UsageNext ==
  ASSUME IInv, UsageWithinTotal, [Next]_vars
  PROVE UsageWithinTotal'
  <1>. SUFFICES ASSUME SubTotal > 0, NEW u \in Subs PROVE subs'[u].used <= SubTotal
    BY DEF UsageWithinTotal
  <1>1. /\ subs \in [Subs -> [used : Nat, due : BOOLEAN, active : BOOLEAN]]
        /\ subs[u].used <= SubTotal /\ SubTotal \in Nat
    BY BillingAssumption DEF IInv, TypeOK, UsageWithinTotal
  <1>2. MaybeReset(subs[u]).used <= SubTotal
    BY UsageShrinks DEF IInv
  <1>3. ASSUME NEW r \in Requests, PreConsumeUserSubscription(r)
        PROVE subs'[u].used <= SubTotal
    <2>1. CASE subs' = subs
      BY <1>1, <2>1
    <2>2. ASSUME NEW payer \in Payers(Amount(r)),
                 subs' = [v \in Subs |->
                            IF v > payer \/ ~subs[v].active THEN subs[v]
                            ELSE IF v < payer THEN MaybeReset(subs[v])
                            ELSE [MaybeReset(subs[v]) EXCEPT !.used = @ + Amount(r)]]
          PROVE subs'[u].used <= SubTotal
      <3>1. payer \in Subs /\ MaybeReset(subs[payer]).used + Amount(r) <= SubTotal
        BY BillingAssumption DEF Payers, CanPay
      <3>2. payer \in Int /\ u \in Int
        BY <3>1 DEF Subs
      <3>3. MaybeReset(subs[u]) \in [used : Nat, due : BOOLEAN, active : BOOLEAN]
        BY MaybeResetType DEF IInv
      <3>4. CASE u > payer \/ ~subs[u].active
        BY <1>1, <2>2, <3>4
      <3>5. CASE u < payer /\ subs[u].active
        BY <1>2, <2>2, <3>2, <3>5
      <3>6. CASE u = payer /\ subs[u].active
        BY <2>2, <3>1, <3>2, <3>3, <3>6
      <3>. QED
        BY <3>2, <3>4, <3>5, <3>6
    <2>. QED
      BY <1>3, <2>1, <2>2 DEF PreConsumeUserSubscription
  <1>4. ASSUME NEW r \in Requests, SettleSubscription(r)
        PROVE subs'[u].used <= SubTotal
    <2>1. CASE subs' = subs
      BY <1>1, <2>1
    <2>2. CASE /\ SubTotal = 0 \/ UsedAfter(s[r].sub, Delta(r)) <= SubTotal
               /\ subs' = [subs EXCEPT ![s[r].sub].used = UsedAfter(s[r].sub, Delta(r))]
      BY <1>1, <2>2
    <2>. QED
      BY <1>4, <2>1, <2>2 DEF SettleSubscription
  <1>5. ASSUME NEW r \in Requests, RefundSubscription(r)
        PROVE subs'[u].used <= SubTotal
    <2>1. CASE subs' = subs
      BY <1>1, <2>1
    <2>2. CASE subs' = [subs EXCEPT ![s[r].sub].used = UsedAfter(s[r].sub, -s[r].pre)]
      <3>1. s[r].pre \in Nat
        BY SessionNumbers DEF IInv
      <3>2. UsedAfter(u, -s[r].pre) <= SubTotal
        BY <3>1, UsageShrinks DEF IInv
      <3>3. CASE s[r].sub = u
        BY <1>1, <2>2, <3>2, <3>3
      <3>4. CASE s[r].sub # u
        BY <1>1, <2>2, <3>4
      <3>. QED
        BY <3>3, <3>4
    <2>. QED
      BY <1>5, <2>1, <2>2 DEF RefundSubscription
  <1>6. ASSUME NEW v \in Subs, PeriodEnds(v) \/ ResetDueSubscriptions(v) \/ SubscriptionEnds(v)
        PROVE subs'[u].used <= SubTotal
    BY <1>1, <1>2, <1>6 DEF PeriodEnds, ResetDueSubscriptions, SubscriptionEnds
  <1>7. CASE subs' = subs
    BY <1>1, <1>7
  <1>8. ASSUME NEW r \in Requests, Step(r)
        PROVE \/ subs' = subs
              \/ PreConsumeUserSubscription(r) \/ SettleSubscription(r) \/ RefundSubscription(r)
    BY <1>8 DEF Step, TryWallet, ReadToken, DecreaseTokenQuota, PreConsumeWallet, ReservationFails,
       RollbackToken, RelayFails, RelaySucceeds, SettleExact, SettleWallet, SettleToken,
       RefundWallet, MarkRefunded, RefundToken
  <1>9. ASSUME NEW r \in Requests,
               \/ FairUseRefund(r) \/ Crash(r)
               \/ \E pref \in Preferences : \E n \in Estimates : NewBillingSession(r, pref, n)
        PROVE subs' = subs
    BY <1>9 DEF FairUseRefund, Crash, NewBillingSession
  <1>10. CASE UNCHANGED vars
    BY <1>7, <1>10 DEF vars
  <1>. QED
    BY <1>3, <1>4, <1>5, <1>6, <1>7, <1>8, <1>9, <1>10 DEF Next

LEMMA Inductive == Spec => []IInv
  <1>1. IInv /\ [Next]_vars => IInv'
    BY NextIInv
  <1>. QED
    BY InitIInv, <1>1, PTL DEF Spec

-----------------------------------------------------------------------------
\* No interleaving of any number of requests, failures and crashes makes the
\* wallet or a subscription's usage negative: WalletFunding checks and deducts
\* in one transaction, PostConsumeUserSubscriptionDelta clamps.
THEOREM TypeCorrect == Spec => []TypeOK
  <1>1. IInv => TypeOK
    BY DEF IInv
  <1>. QED
    BY Inductive, <1>1, PTL

\* PreConsumeUserSubscription and PostConsumeUserSubscriptionDelta never let a
\* subscription's amount_used pass its amount_total, whatever is reserved, settled,
\* refunded (even twice) or reset in between.
THEOREM UsageIsBounded == Spec => []UsageWithinTotal
  <1>1. Init => UsageWithinTotal
    BY BillingAssumption DEF Init, UsageWithinTotal
  <1>2. IInv /\ UsageWithinTotal /\ [Next]_vars => UsageWithinTotal'
    BY UsageNext
  <1>. QED
    BY <1>1, <1>2, Inductive, PTL DEF Spec

\* BillingSession implements ChargeLedger on the wallet: preConsume, Settle and
\* Refund move users.quota only together with the charge of their own request.
THEOREM WalletIsCharged == Spec => WalletCharged
  <1>1. Init => Wallet!Init
    BY DEF Init, Wallet!Init, WalletCharge, WalletPhase, Reserving
  <1>2. IInv /\ [Next]_vars => [Wallet!Next]_(Wallet!vars)
    BY WalletNext
  <1>. QED
    BY <1>1, <1>2, Inductive, PTL DEF Spec, WalletCharged, Wallet!Spec

\* BillingSession implements ChargeLedger on the token, which PreConsumeTokenQuota
\* charges before the funding and Settle, Refund and the rollback adjust after it.
THEOREM TokenIsCharged == Spec => TokenCharged
  <1>1. Init => Token!Init
    BY DEF Init, Token!Init, TokenCharge, TokenPhase, NoSession
  <1>2. IInv /\ [Next]_vars => [Token!Next]_(Token!vars)
    BY TokenNext
  <1>. QED
    BY <1>1, <1>2, Inductive, PTL DEF Spec, TokenCharged, Token!Spec
=============================================================================
