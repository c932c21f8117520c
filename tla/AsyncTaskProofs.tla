--------------------------- MODULE AsyncTaskProofs ---------------------------
(***************************************************************************)
(* Proofs about AsyncTask, for any number of tasks, passes and queries and *)
(* any quotas. The inductive invariant is IInv of that module.             *)
(*                                                                         *)
(* TaskFrame and StepKeeps carry what a step leaves alone: a task that the *)
(* step does not touch, and the invariants of all tasks but the one an     *)
(* actor holds. What remains for the lemma of an action is VideoInv of the *)
(* task it works on.                                                       *)
(***************************************************************************)
EXTENDS AsyncTask, TLAPS

\* An actor's step leaves other actors alone.
OthersRest(a) == \A b \in Pollers \cup Users : b # a => actor'[b] = actor[b]

\* The initial states satisfy the inductive invariant.
LEMMA InitIInv == Init => IInv
<1> SUFFICES ASSUME Init PROVE IInv
  OBVIOUS
<1>1. TypeOK
  BY TaskAssumption DEF Init, TypeOK, Statuses
<1>2. \A a \in Pollers \cup Users : actor[a] = Idle
  BY DEF Init
<1>3. /\ \A t \in Tasks : /\ row[t].status = "none" /\ submit[t] = "idle" /\ charged[t] = 0 /\ token[t] = 0
                          /\ short[t] = 0 /\ tokenShort[t] = 0
      /\ unread = {}
  BY DEF Init
<1>4. HeldRows /\ SubmittedRows
  BY <1>2, <1>3 DEF HeldRows, SubmittedRows
<1>5. \A t \in Tasks : VideoInv(t)
  BY <1>2, <1>3 DEF VideoInv, OpenCharge, Open, Holds, OneBiller, Accounted, Paid, PaidToken
<1> QED  BY <1>1, <1>4, <1>5 DEF IInv, On

\* What an actor holds is a record of the fields of Works.
LEMMA HeldFields ==
  ASSUME TypeOK, NEW a \in Pollers \cup Users, actor[a] # Idle
  PROVE  /\ actor[a] \in Works /\ actor[a].pc \in Steps /\ actor[a].task \in Tasks
         /\ actor[a].snap \in Statuses /\ actor[a].answer \in Statuses /\ actor[a].quota \in Nat
         /\ actor[a].done \in BOOLEAN
<1>1. actor[a] \in Works
  BY DEF TypeOK
<1> QED  BY <1>1 DEF Works

\* No record of Works is Idle.
LEMMA WorksAreNotIdle == \A w \in Works : w # Idle
<1> SUFFICES ASSUME NEW w \in Works, w = Idle PROVE FALSE
  OBVIOUS
<1>1. w.pc \in Steps
  BY DEF Works
<1>2. w.pc = "idle"
  BY DEF Idle
<1> QED  BY <1>1, <1>2 DEF Steps

\* What Rest does.
LEMMA RestEffect ==
  ASSUME TypeOK, NEW a \in Pollers \cup Users, Rest(a)
  PROVE  /\ actor' \in [Pollers \cup Users -> Works \cup {Idle}]
         /\ actor'[a] = Idle /\ OthersRest(a)
  BY DEF TypeOK, Rest, OthersRest

\* What Goto does.
LEMMA GotoEffect ==
  ASSUME TypeOK, NEW a \in Pollers \cup Users, actor[a] # Idle, NEW s \in Steps, Goto(a, s)
  PROVE  /\ actor' \in [Pollers \cup Users -> Works \cup {Idle}]
         /\ actor'[a] # Idle /\ actor'[a].pc = s /\ actor'[a].task = actor[a].task
         /\ actor'[a].snap = actor[a].snap /\ actor'[a].answer = actor[a].answer
         /\ actor'[a].quota = actor[a].quota /\ OthersRest(a)
<1>1. actor[a] \in Works
  BY HeldFields
<1> DEFINE w == [actor[a] EXCEPT !.pc = s]
<1>2. w \in Works /\ w.pc = s /\ w.task = actor[a].task /\ w.snap = actor[a].snap
      /\ w.answer = actor[a].answer /\ w.quota = actor[a].quota
  BY <1>1 DEF Works
<1>3. actor' = [actor EXCEPT ![a] = w]
  BY DEF Goto
<1>4. actor'[a] = w /\ OthersRest(a) /\ actor' \in [Pollers \cup Users -> Works \cup {Idle}]
  BY <1>2, <1>3 DEF TypeOK, OthersRest
<1> QED  BY <1>2, <1>4, WorksAreNotIdle

\* What Hold does.
LEMMA HoldEffect ==
  ASSUME TypeOK, NEW a \in Pollers \cup Users, NEW t \in Tasks, NEW s \in Steps,
         NEW answer \in Statuses, Hold(a, t, s, answer)
  PROVE  /\ actor' \in [Pollers \cup Users -> Works \cup {Idle}]
         /\ actor'[a] # Idle /\ actor'[a].pc = s /\ actor'[a].task = t
         /\ actor'[a].snap = row[t].status /\ actor'[a].answer = answer
         /\ actor'[a].quota = row[t].quota /\ OthersRest(a)
<1> DEFINE w == [pc |-> s, task |-> t, snap |-> row[t].status, answer |-> answer, quota |-> row[t].quota,
                done |-> answer = "FAILURE"]
<1>1. row[t].status \in Statuses /\ row[t].quota \in Nat
  BY DEF TypeOK
<1>2. w \in Works
  BY <1>1 DEF Works
<1>3. actor' = [actor EXCEPT ![a] = w]
  BY DEF Hold
<1>4. actor'[a] = w /\ OthersRest(a) /\ actor' \in [Pollers \cup Users -> Works \cup {Idle}]
  BY <1>2, <1>3 DEF TypeOK, OthersRest
<1> QED  BY <1>2, <1>4, WorksAreNotIdle

\* What storing the answer does.
LEMMA AnswerEffect ==
  ASSUME TypeOK, NEW a \in Pollers \cup Users, actor[a] # Idle, NEW answer \in Statuses, NEW done \in BOOLEAN,
         NEW s \in {"polled", "sunoRefund", "sunoSave"}, Answer(a, answer, done, s)
  PROVE  /\ actor' \in [Pollers \cup Users -> Works \cup {Idle}]
         /\ actor'[a] # Idle /\ actor'[a].pc = s /\ actor'[a].task = actor[a].task
         /\ actor'[a].snap = actor[a].snap /\ actor'[a].answer = answer
         /\ actor'[a].quota = actor[a].quota /\ OthersRest(a)
<1>1. actor[a] \in Works
  BY HeldFields
<1> DEFINE u == [actor[a] EXCEPT !.answer = answer]
           v == [u EXCEPT !.done = done]
           w == [v EXCEPT !.pc = s]
<1>2. u \in Works /\ u.task = actor[a].task /\ u.snap = actor[a].snap /\ u.quota = actor[a].quota /\ u.answer = answer
  BY <1>1 DEF Works
<1>2a. v \in Works /\ v.task = u.task /\ v.snap = u.snap /\ v.quota = u.quota /\ v.answer = u.answer
  BY <1>2 DEF Works
<1>3. w \in Works /\ w.pc = s /\ w.task = v.task /\ w.snap = v.snap /\ w.quota = v.quota /\ w.answer = v.answer
  BY <1>2a DEF Works, Steps
<1>4. actor' = [actor EXCEPT ![a] = w]
  BY DEF TypeOK, Answer
<1> HIDE DEF u, v, w
<1>5. actor'[a] = w /\ OthersRest(a) /\ actor' \in [Pollers \cup Users -> Works \cup {Idle}]
  BY <1>3, <1>4 DEF TypeOK, OthersRest
<1> QED  BY <1>2, <1>2a, <1>3, <1>5, WorksAreNotIdle


\* A task that a step does not touch keeps its invariant.
LEMMA TaskFrame ==
  ASSUME NEW t \in Tasks, VideoInv(t),
         row'[t] = row[t], charged'[t] = charged[t], token'[t] = token[t],
         short'[t] = short[t], tokenShort'[t] = tokenShort[t], t \in unread' <=> t \in unread,
         dropped \subseteq dropped',
         \A a \in Pollers \cup Users : Holds(a, t) \/ Holds(a, t)' => actor'[a] = actor[a]
  PROVE  VideoInv(t)'
<1>1. OpenCharge(t)'
  BY DEF VideoInv, OpenCharge, Open, FullCharge, Paid, PaidToken
<1>2. \A a \in Pollers \cup Users : Holds(a, t)' => Holds(a, t) /\ actor'[a] = actor[a]
  BY DEF Holds
<1>3. \A a \in Pollers \cup Users : Holds(a, t)' => HeldCharge(a, t)'
  BY <1>2 DEF VideoInv, HeldCharge, FullCharge, Open, Paid, PaidToken
<1>4. OneBiller(t)'
  BY <1>2 DEF VideoInv, OneBiller
<1>5. t \notin unread' => Accounted(t)'
  <2> SUFFICES ASSUME t \notin unread', row'[t].status = "FAILURE", Paid(t)' > 0, t \notin dropped'
               PROVE  \E p \in Pollers : Refunds(p, t)'
    BY DEF Accounted
  <2>1. PICK p \in Pollers : Refunds(p, t)
    BY DEF VideoInv, Accounted, Paid
  <2>2. actor'[p] = actor[p]
    BY <2>1 DEF Refunds, Held, Holds
  <2> QED  BY <2>1, <2>2 DEF Refunds, Held
<1> QED  BY <1>1, <1>3, <1>4, <1>5 DEF VideoInv, Paid, PaidToken

\* An actor's step keeps the inductive invariant when it keeps the types and
\* what concerns the task the actor holds.
LEMMA StepKeeps ==
  ASSUME IInv, NEW p \in Pollers \cup Users, actor[p] # Idle, OthersRest(p), TypeOK',
         UNCHANGED <<platform, submit, short, tokenShort>>, dropped \subseteq dropped',
         \A t \in Tasks : t # actor[p].task
           => /\ row'[t] = row[t] /\ charged'[t] = charged[t] /\ token'[t] = token[t]
              /\ t \in unread' <=> t \in unread,
         row'[actor[p].task].status # "none",
         actor'[p] # Idle => /\ actor'[p].task = actor[p].task
                             /\ actor'[p].pc \in {"sunoRefund", "sunoSave"} => platform[actor[p].task] = "suno"
                             /\ actor'[p].pc # "read" => actor'[p].answer # "none",
         \A t \in Tasks : t = actor[p].task /\ platform[t] = "video" => VideoInv(t)'
  PROVE  IInv'
<1>1. HeldRows'
  <2> SUFFICES ASSUME NEW a \in Pollers \cup Users, actor'[a] # Idle
               PROVE  /\ row'[actor'[a].task].status # "none"
                      /\ a \in Users => platform'[actor'[a].task] = "gemini"
                      /\ actor'[a].pc \in {"sunoRefund", "sunoSave"} => platform'[actor'[a].task] = "suno"
                      /\ actor'[a].pc # "read" => actor'[a].answer # "none"
    BY DEF HeldRows
  <2>1. CASE a = p
    BY <2>1 DEF IInv, HeldRows
  <2>2. CASE a # p
    <3>1. actor'[a] = actor[a] /\ actor[a].task \in Tasks
      BY <2>2, HeldFields DEF IInv, OthersRest
    <3>2. row'[actor[a].task].status # "none"
      BY <3>1 DEF IInv, HeldRows
    <3> QED  BY <3>1, <3>2 DEF IInv, HeldRows
  <2> QED  BY <2>1, <2>2
<1>2. actor[p].task \in Tasks /\ submit[actor[p].task] = "over"
  BY HeldFields DEF IInv, HeldRows, SubmittedRows
<1>3. SubmittedRows'
  BY <1>2 DEF IInv, SubmittedRows, FullCharge, Paid, PaidToken
<1>4. ASSUME NEW t \in Tasks, platform[t] = "video", t # actor[p].task
      PROVE  VideoInv(t)'
  <2>1. VideoInv(t)
    BY <1>4 DEF IInv, On
  <2>2. ASSUME NEW a \in Pollers \cup Users, Holds(a, t) \/ Holds(a, t)'
        PROVE  actor'[a] = actor[a]
    BY <1>4, <2>2 DEF Holds, OthersRest
  <2> QED  BY <1>4, <2>1, <2>2, TaskFrame
<1>5. \A t \in On("video")' : VideoInv(t)'
  BY <1>4 DEF On
<1> QED  BY <1>1, <1>3, <1>5 DEF IInv


\* Nobody holds a task whose submission is not over.
LEMMA NobodyHolds ==
  ASSUME IInv, NEW t \in Tasks, submit[t] # "over", NEW a \in Pollers \cup Users
  PROVE  ~Holds(a, t)
  BY DEF IInv, HeldRows, SubmittedRows, Holds


\* PreCharge keeps the inductive invariant.
LEMMA PreChargeKeeps ==
  ASSUME IInv, NEW t \in Tasks, PreCharge(t)
  PROVE  IInv'
<1>1. TypeOK'
  BY TaskAssumption DEF IInv, TypeOK, Statuses, Finished, PreCharge, history
<1>2. HeldRows'
  BY HeldFields DEF IInv, TypeOK, HeldRows, SubmittedRows, PreCharge
<1>3. charged'[t] >= 0 /\ token'[t] >= 0 /\ short'[t] = 0 /\ tokenShort'[t] = 0
  BY TaskAssumption DEF IInv, TypeOK, SubmittedRows, FullCharge, Paid, PaidToken, PreCharge, history
<1>3a. SubmittedRows'
  BY <1>3 DEF IInv, TypeOK, SubmittedRows, FullCharge, Paid, PaidToken, PreCharge, history
<1>4. ASSUME NEW u \in Tasks, platform[u] = "video"
      PROVE  VideoInv(u)'
  <2>1. VideoInv(u)
    BY <1>4 DEF IInv, On
  <2>2. CASE u # t
    BY <2>1, <2>2, TaskFrame DEF PreCharge, IInv, TypeOK, history
  <2>3. CASE u = t
    <3>1. \A a \in Pollers \cup Users : ~Holds(a, t)'
      BY NobodyHolds DEF PreCharge, Holds
    <3>2. row'[t].status \notin Finished /\ OpenCharge(t)' /\ t \notin unread'
      BY <1>3, <1>4, <2>1, <2>3 DEF PreCharge, IInv, TypeOK, SubmittedRows, OpenCharge, Open, Finished, VideoInv, history
    <3>3. Paid(t)' >= 0 /\ PaidToken(t)' >= 0
      BY <1>1, <1>3 DEF FullCharge, Paid, PaidToken, TypeOK
    <3> QED  BY <2>3, <3>1, <3>2, <3>3 DEF VideoInv, OneBiller, Accounted, Finished
  <2> QED  BY <2>2, <2>3
<1> QED  BY <1>1, <1>2, <1>3a, <1>4 DEF IInv, On, PreCharge


\* SettleSubmission keeps the inductive invariant.
LEMMA SettleSubmissionKeeps ==
  ASSUME IInv, NEW t \in Tasks, SettleSubmission(t)
  PROVE  IInv'
<1>0. PICK quota \in Quotas :
        /\ row' = [row EXCEPT ![t].quota = quota]
        /\ charged' \in {charged, [charged EXCEPT ![t] = quota]}
        /\ token' \in {token, [token EXCEPT ![t] = quota]}
        /\ short' = [short EXCEPT ![t] = quota - charged'[t]]
        /\ tokenShort' = [tokenShort EXCEPT ![t] = quota - token'[t]]
  BY DEF SettleSubmission
<1>1. TypeOK'
  <2>1. quota \in Nat /\ row' \in [Tasks -> [status : Statuses, quota : Nat, done : BOOLEAN]]
    BY <1>0, TaskAssumption DEF IInv, TypeOK
  <2>2. charged' \in [Tasks -> Int] /\ token' \in [Tasks -> Int]
    BY <1>0, <2>1 DEF IInv, TypeOK
  <2>3. short' \in [Tasks -> Int] /\ tokenShort' \in [Tasks -> Int]
    BY <1>0, <2>1, <2>2 DEF IInv, TypeOK
  <2> QED  BY <2>1, <2>2, <2>3 DEF IInv, TypeOK, SettleSubmission
<1>2. HeldRows'
  BY HeldFields DEF IInv, TypeOK, HeldRows, SubmittedRows, SettleSubmission
<1>3. FullCharge(t)'
  BY TaskAssumption DEF IInv, TypeOK, SubmittedRows, FullCharge, Paid, PaidToken, SettleSubmission, history
<1>3a. SubmittedRows'
  BY <1>3 DEF IInv, TypeOK, SubmittedRows, FullCharge, Paid, PaidToken, SettleSubmission, history
<1>4. ASSUME NEW u \in Tasks, platform[u] = "video"
      PROVE  VideoInv(u)'
  <2>1. VideoInv(u)
    BY <1>4 DEF IInv, On
  <2>2. CASE u # t
    BY <2>1, <2>2, TaskFrame DEF SettleSubmission, IInv, TypeOK, history
  <2>3. CASE u = t
    <3>1. \A a \in Pollers \cup Users : ~Holds(a, t)'
      BY NobodyHolds DEF SettleSubmission, Holds
    <3>2. row'[t].status \notin Finished /\ OpenCharge(t)' /\ t \notin unread'
      BY <1>3, <1>4, <2>1, <2>3 DEF SettleSubmission, IInv, TypeOK, SubmittedRows, OpenCharge, Open, Finished, VideoInv, history
    <3>3. Paid(t)' >= 0 /\ PaidToken(t)' >= 0
      BY <1>1, <1>3 DEF FullCharge, Paid, PaidToken, TypeOK
    <3> QED  BY <2>3, <3>1, <3>2, <3>3 DEF VideoInv, OneBiller, Accounted, Finished
  <2> QED  BY <2>2, <2>3
<1> QED  BY <1>1, <1>2, <1>3a, <1>4 DEF IInv, On, SettleSubmission


\* Insert keeps the inductive invariant.
LEMMA InsertKeeps ==
  ASSUME IInv, NEW t \in Tasks, Insert(t)
  PROVE  IInv'
<1>1. TypeOK'
  BY TaskAssumption DEF IInv, TypeOK, Statuses, Finished, Insert, history
<1>2. HeldRows'
  BY HeldFields DEF IInv, TypeOK, HeldRows, SubmittedRows, Insert
<1>3. FullCharge(t)'
  BY TaskAssumption DEF IInv, TypeOK, SubmittedRows, FullCharge, Paid, PaidToken, Insert, history
<1>3a. SubmittedRows'
  BY <1>3 DEF IInv, TypeOK, SubmittedRows, FullCharge, Paid, PaidToken, Insert, history
<1>4. ASSUME NEW u \in Tasks, platform[u] = "video"
      PROVE  VideoInv(u)'
  <2>1. VideoInv(u)
    BY <1>4 DEF IInv, On
  <2>2. CASE u # t
    BY <2>1, <2>2, TaskFrame DEF Insert, IInv, TypeOK, history
  <2>3. CASE u = t
    <3>1. \A a \in Pollers \cup Users : ~Holds(a, t)'
      BY NobodyHolds DEF Insert, Holds
    <3>2. row'[t].status \notin Finished /\ OpenCharge(t)' /\ t \notin unread'
      BY <1>3, <1>4, <2>1, <2>3 DEF Insert, IInv, TypeOK, SubmittedRows, OpenCharge, Open, Finished, VideoInv, history
    <3>3. Paid(t)' >= 0 /\ PaidToken(t)' >= 0
      BY <1>1, <1>3 DEF FullCharge, Paid, PaidToken, TypeOK
    <3> QED  BY <2>3, <3>1, <3>2, <3>3 DEF VideoInv, OneBiller, Accounted, Finished
  <2> QED  BY <2>2, <2>3
<1> QED  BY <1>1, <1>2, <1>3a, <1>4 DEF IInv, On, Insert


\* InsertFails keeps the inductive invariant.
LEMMA InsertFailsKeeps ==
  ASSUME IInv, NEW t \in Tasks, InsertFails(t)
  PROVE  IInv'
<1>1. TypeOK'
  BY TaskAssumption DEF IInv, TypeOK, Statuses, Finished, InsertFails, history
<1>2. HeldRows'
  BY HeldFields DEF IInv, TypeOK, HeldRows, SubmittedRows, InsertFails
<1>3. SubmittedRows'
  BY DEF IInv, TypeOK, SubmittedRows, FullCharge, Paid, PaidToken, InsertFails, history
<1>4. ASSUME NEW u \in Tasks, platform[u] = "video"
      PROVE  VideoInv(u)'
  <2>1. VideoInv(u)
    BY <1>4 DEF IInv, On
  <2> QED  BY <2>1, TaskFrame DEF InsertFails, history
<1> QED  BY <1>1, <1>2, <1>3, <1>4 DEF IInv, On, InsertFails


\* TimeOut keeps the inductive invariant.
LEMMA TimeOutKeeps ==
  ASSUME IInv, NEW t \in Tasks, TimeOut(t)
  PROVE  IInv'
<1>1. TypeOK'
  BY TaskAssumption DEF IInv, TypeOK, Statuses, Finished, TimeOut, history
<1>2. HeldRows'
  BY HeldFields DEF IInv, TypeOK, HeldRows, SubmittedRows, TimeOut
<1>3. SubmittedRows'
  BY DEF IInv, TypeOK, SubmittedRows, FullCharge, Paid, PaidToken, TimeOut, history
<1>4. ASSUME NEW u \in Tasks, platform[u] = "video"
      PROVE  VideoInv(u)'
  <2>1. VideoInv(u)
    BY <1>4 DEF IInv, On
  <2> QED  BY <2>1, TaskFrame DEF TimeOut, history
<1> QED  BY <1>1, <1>2, <1>3, <1>4 DEF IInv, On, TimeOut


\* ProviderEnds keeps the inductive invariant.
LEMMA ProviderEndsKeeps ==
  ASSUME IInv, NEW t \in Tasks, ProviderEnds(t)
  PROVE  IInv'
<1>1. TypeOK'
  BY TaskAssumption DEF IInv, TypeOK, Statuses, Finished, ProviderEnds, history
<1>2. HeldRows'
  BY HeldFields DEF IInv, TypeOK, HeldRows, SubmittedRows, ProviderEnds
<1>3. SubmittedRows'
  BY DEF IInv, TypeOK, SubmittedRows, FullCharge, Paid, PaidToken, ProviderEnds, history
<1>4. ASSUME NEW u \in Tasks, platform[u] = "video"
      PROVE  VideoInv(u)'
  <2>1. VideoInv(u)
    BY <1>4 DEF IInv, On
  <2> QED  BY <2>1, TaskFrame DEF ProviderEnds, history
<1> QED  BY <1>1, <1>2, <1>3, <1>4 DEF IInv, On, ProviderEnds


\* Reading a row keeps the inductive invariant: the row exists, a query reads one
\* of Gemini, and a pass one that has not ended.
LEMMA HoldKeeps ==
  ASSUME IInv, NEW p \in Pollers \cup Users, NEW t \in Tasks, actor[p] = Idle,
         NEW s \in {"read", "swept"}, NEW answer \in {"none", "FAILURE"},
         s = "swept" => answer = "FAILURE", Hold(p, t, s, answer),
         row[t].status # "none", p \in Users => platform[t] = "gemini",
         platform[t] = "gemini" \/ Open(t),
         UNCHANGED <<platform, row, upstream, submit, old, charged, token, history>>
  PROVE  IInv'
<1>0. s \in Steps /\ answer \in Statuses
  BY DEF Steps, Statuses
<1>1. /\ actor' \in [Pollers \cup Users -> Works \cup {Idle}]
      /\ actor'[p] # Idle /\ actor'[p].pc = s /\ actor'[p].task = t
      /\ actor'[p].snap = row[t].status /\ actor'[p].answer = answer
      /\ actor'[p].quota = row[t].quota /\ OthersRest(p)
  BY <1>0, HoldEffect DEF IInv
<1>2. TypeOK' /\ SubmittedRows'
  BY <1>1 DEF IInv, TypeOK, SubmittedRows, FullCharge, Paid, PaidToken, history
<1>3. HeldRows'
  BY <1>1 DEF IInv, HeldRows, OthersRest
<1>4. ASSUME NEW u \in Tasks, platform[u] = "video"
      PROVE  VideoInv(u)'
  <2>1. VideoInv(u)
    BY <1>4 DEF IInv, On
  <2>2. \A a \in Pollers \cup Users : a # p => actor'[a] = actor[a]
    BY <1>1 DEF OthersRest
  <2>3. \A a \in Pollers \cup Users : Holds(a, u)' => HeldCharge(a, u)'
    <3> SUFFICES ASSUME NEW a \in Pollers \cup Users, Holds(a, u)'
                 PROVE  HeldCharge(a, u)'
      OBVIOUS
    <3>1. CASE a = p
      <4>1. u = t /\ Open(u)
        BY <1>1, <1>4, <3>1 DEF Holds
      <4> QED  BY <1>1, <2>1, <3>1, <4>1 DEF HeldCharge, Open, Billing
    <3>2. CASE a # p
      BY <2>1, <2>2, <3>2 DEF VideoInv, Holds, HeldCharge, FullCharge, Open, Paid, PaidToken, history
    <3> QED  BY <3>1, <3>2
  <2>4. OneBiller(u)'
    BY <1>1, <2>1, <2>2 DEF VideoInv, OneBiller, Holds, Billing
  <2>5. u \notin unread' => Accounted(u)'
    <3> SUFFICES ASSUME u \notin unread, row[u].status = "FAILURE", Paid(u) > 0, u \notin dropped
                 PROVE  \E q \in Pollers : Refunds(q, u)'
      BY DEF Accounted, Paid, history
    <3>1. PICK q \in Pollers : Refunds(q, u)
      BY <2>1 DEF VideoInv, Accounted
    <3> QED  BY <2>2, <3>1 DEF Refunds, Held
  <2> QED  BY <2>1, <2>3, <2>4, <2>5 DEF VideoInv, OpenCharge, Open, FullCharge, Paid, PaidToken, history
<1> QED  BY <1>2, <1>3, <1>4 DEF IInv, On


\* Sweep keeps the inductive invariant.
LEMMA SweepKeeps ==
  ASSUME IInv, NEW p \in Pollers, NEW t \in Tasks, Sweep(p, t)
  PROVE  IInv'
<1>1. p \in Pollers \cup Users /\ (p \in Users => platform[t] = "gemini")
  BY TaskAssumption DEF Sweep
<1>2. row[t].status # "none" /\ (platform[t] = "gemini" \/ Open(t))
  BY DEF Sweep, Unfinished, Open
<1> QED  BY <1>1, <1>2, HoldKeeps DEF Sweep


\* Poll keeps the inductive invariant.
LEMMA PollKeeps ==
  ASSUME IInv, NEW p \in Pollers, NEW t \in Tasks, Poll(p, t)
  PROVE  IInv'
<1>1. p \in Pollers \cup Users /\ (p \in Users => platform[t] = "gemini")
  BY TaskAssumption DEF Poll
<1>2. row[t].status # "none" /\ (platform[t] = "gemini" \/ Open(t))
  BY DEF Poll, Unfinished, Open
<1> QED  BY <1>1, <1>2, HoldKeeps DEF Poll


\* Query keeps the inductive invariant.
LEMMA QueryKeeps ==
  ASSUME IInv, NEW p \in Users, NEW t \in Tasks, Query(p, t)
  PROVE  IInv'
<1>1. p \in Pollers \cup Users /\ (p \in Users => platform[t] = "gemini")
  BY TaskAssumption DEF Query
<1>2. row[t].status # "none" /\ (platform[t] = "gemini" \/ Open(t))
  BY DEF Query, Unfinished, Open
<1> QED  BY <1>1, <1>2, HoldKeeps DEF Query


\* The facts about the task an actor holds.
LEMMA HeldTask ==
  ASSUME IInv, NEW p \in Pollers \cup Users, actor[p] # Idle
  PROVE  /\ actor[p].task \in Tasks /\ row[actor[p].task].status # "none"
         /\ row[actor[p].task].status \in Statuses
         /\ actor[p].answer \in Statuses /\ actor[p].quota \in Nat /\ actor[p].done \in BOOLEAN
         /\ platform[actor[p].task] = "video" =>
              VideoInv(actor[p].task) /\ HeldCharge(p, actor[p].task)
<1>1. /\ actor[p].task \in Tasks /\ actor[p].answer \in Statuses /\ actor[p].quota \in Nat
      /\ actor[p].done \in BOOLEAN
  BY HeldFields DEF IInv
<1>2. row[actor[p].task].status # "none" /\ row[actor[p].task].status \in Statuses
  BY <1>1 DEF IInv, HeldRows, TypeOK
<1>3. platform[actor[p].task] = "video" => VideoInv(actor[p].task)
  BY <1>1 DEF IInv, On
<1>4. Holds(p, actor[p].task)
  BY DEF Holds
<1> QED  BY <1>1, <1>2, <1>3, <1>4 DEF VideoInv

\* An actor that gives its row up, or goes on to another step that is no billing,
\* without having moved row or charge, leaves the task as it was. A pass about to
\* refund is excepted, unless the refund counts as lost.
LEMMA StillTask ==
  ASSUME IInv, NEW p \in Pollers \cup Users, actor[p] # Idle, OthersRest(p),
         NEW t \in Tasks, t = actor[p].task, platform[t] = "video",
         actor'[p] # Idle => /\ actor[p].pc = "read" /\ actor'[p].pc = "polled" /\ actor'[p].task = t
                             /\ actor'[p].quota = actor[p].quota /\ actor'[p].snap = actor[p].snap,
         actor[p].pc = "refund" => t \in dropped',
         UNCHANGED <<row, charged, token, unread, short, tokenShort>>, dropped \subseteq dropped'
  PROVE  VideoInv(t)'
<1>1. VideoInv(t) /\ HeldCharge(p, t)
  BY HeldTask
<1>2. ASSUME NEW a \in Pollers \cup Users, Holds(a, t)'
      PROVE  HeldCharge(a, t)' /\ (actor'[a].pc \in Billing => Holds(a, t) /\ actor[a].pc \in Billing)
  <2>1. CASE a = p
    BY <1>1, <1>2, <2>1 DEF Holds, HeldCharge, Open, Billing
  <2>2. CASE a # p
    <3>1. actor'[a] = actor[a] /\ Holds(a, t)
      BY <1>2, <2>2 DEF OthersRest, Holds
    <3> QED  BY <1>1, <3>1 DEF VideoInv, HeldCharge, FullCharge, Open, Paid, PaidToken
  <2> QED  BY <2>1, <2>2
<1>3. OneBiller(t)'
  BY <1>1, <1>2 DEF VideoInv, OneBiller
<1>4. t \notin unread' => Accounted(t)'
  <2> SUFFICES ASSUME t \notin unread, row[t].status = "FAILURE", Paid(t) > 0, t \notin dropped'
               PROVE  \E q \in Pollers : Refunds(q, t)'
    BY DEF Accounted, Paid
  <2>1. PICK q \in Pollers : Refunds(q, t)
    BY <1>1 DEF VideoInv, Accounted
  <2>2. q # p
    BY <2>1 DEF Refunds, Held
  <2> QED  BY <2>1, <2>2 DEF Refunds, Held, OthersRest
<1> QED  BY <1>1, <1>2, <1>3, <1>4 DEF VideoInv, OpenCharge, Open, FullCharge, Paid, PaidToken

\* An actor that gives its row up without having moved anything.
LEMMA RestKeeps ==
  ASSUME IInv, NEW p \in Pollers \cup Users, actor[p] # Idle, Rest(p),
         dropped \subseteq dropped', dropped' \subseteq dropped \cup {actor[p].task},
         actor[p].pc = "refund" => actor[p].task \in dropped',
         UNCHANGED <<platform, row, upstream, submit, old, charged, token, unread, short, tokenShort>>
  PROVE  IInv'
<1>1. /\ actor' \in [Pollers \cup Users -> Works \cup {Idle}]
      /\ actor'[p] = Idle /\ OthersRest(p)
  BY RestEffect DEF IInv
<1>2. TypeOK'
  BY <1>1, HeldTask DEF IInv, TypeOK
<1>3. \A t \in Tasks : t = actor[p].task /\ platform[t] = "video" => VideoInv(t)'
  BY <1>1, StillTask
<1> QED  BY <1>1, <1>2, <1>3, HeldTask, StepKeeps

\* Ask and AskSuno keep the inductive invariant.
LEMMA AskKeeps ==
  ASSUME IInv, NEW p \in Pollers \cup Users, Ask(p) \/ AskSuno(p)
  PROVE  IInv'
<1>1. actor[p] # Idle /\ actor[p].pc = "read" /\ actor[p].task \in Tasks
  BY HeldTask DEF Ask, AskSuno, Held
<1>2. PICK answer \in Statuses \ {"none"}, done \in BOOLEAN, s \in {"polled", "sunoRefund", "sunoSave"} :
        /\ Answer(p, answer, done, s)
        /\ platform[actor[p].task] # "suno" <=> s = "polled"
  <2>1. upstream[actor[p].task] \in Statuses \ {"none"} /\ "FAILURE" \in Statuses \ {"none"}
    BY <1>1 DEF IInv, TypeOK, Statuses
  <2>2. CASE Ask(p)
    <3>1. PICK answer \in {upstream[actor[p].task], "FAILURE"}, full \in BOOLEAN :
            Answer(p, answer, full \/ answer \in Finished, "polled")
      BY <2>2 DEF Ask
    <3> QED  BY <2>1, <2>2, <3>1 DEF Ask
  <2>3. CASE AskSuno(p)
    <3> DEFINE status == upstream[actor[p].task]
    <3>1. PICK reason \in BOOLEAN :
            Answer(p, status, (reason \/ status = "FAILURE") \/ status = "SUCCESS",
                   IF reason \/ status = "FAILURE" THEN "sunoRefund" ELSE "sunoSave")
      BY <2>3 DEF AskSuno
    <3> DEFINE done == (reason \/ status = "FAILURE") \/ status = "SUCCESS"
               s == IF reason \/ status = "FAILURE" THEN "sunoRefund" ELSE "sunoSave"
    <3>2. done \in BOOLEAN /\ s \in {"polled", "sunoRefund", "sunoSave"} /\ s # "polled"
      OBVIOUS
    <3>3. Answer(p, status, done, s)
      BY <3>1
    <3>4. platform[actor[p].task] = "suno"
      BY <2>3 DEF AskSuno
    <3> HIDE DEF done, s
    <3> QED  BY <2>1, <3>2, <3>3, <3>4
  <2> QED  BY <2>2, <2>3
<1>3. /\ actor' \in [Pollers \cup Users -> Works \cup {Idle}]
      /\ actor'[p] # Idle /\ actor'[p].pc = s /\ actor'[p].task = actor[p].task
      /\ actor'[p].snap = actor[p].snap /\ actor'[p].answer = answer
      /\ actor'[p].quota = actor[p].quota /\ OthersRest(p)
  <2>1. TypeOK /\ answer \in Statuses /\ Answer(p, answer, done, s)
    BY <1>2 DEF IInv
  <2> HIDE <1>2
  <2> QED  BY <1>1, <2>1, AnswerEffect
<1>4. UNCHANGED <<platform, row, upstream, submit, old, charged, token, dropped, unread, short, tokenShort>>
  BY DEF Ask, AskSuno, history
<1>5. TypeOK'
  BY <1>3, <1>4 DEF IInv, TypeOK
<1>6. \A t \in Tasks : t = actor[p].task /\ platform[t] = "video" => VideoInv(t)'
  BY <1>1, <1>2, <1>3, <1>4, StillTask
<1> QED  BY <1>1, <1>2, <1>3, <1>4, <1>5, <1>6, HeldTask, StepKeeps


\* What Write does.
LEMMA WriteEffect ==
  ASSUME IInv, NEW p \in Pollers \cup Users, actor[p] # Idle, Write(p)
  PROVE  /\ row' \in [Tasks -> [status : Statuses, quota : Nat, done : BOOLEAN]]
         /\ row'[actor[p].task].status = actor[p].answer /\ row'[actor[p].task].quota = actor[p].quota
         /\ \A t \in Tasks : t # actor[p].task => row'[t] = row[t]
  BY HeldTask DEF IInv, TypeOK, Write

\* A video row moved by compare-and-set: it was unfinished, so nobody was billing,
\* and if it has ended now the one that moved it is about to bill.
LEMMA MovedTask ==
  ASSUME IInv, NEW p \in Pollers, actor[p] # Idle, actor[p].pc \in {"polled", "swept"}, OthersRest(p),
         NEW t \in Tasks, t = actor[p].task, platform[t] = "video", Won(p), Write(p),
         \/ actor[p].answer = "IN_PROGRESS" /\ actor'[p] = Idle
         \/ /\ actor'[p] # Idle /\ actor'[p].task = t /\ actor'[p].quota = actor[p].quota
            /\ \/ actor[p].answer = "FAILURE" /\ actor'[p].pc = "refund"
               \/ actor[p].answer = "SUCCESS" /\ actor'[p].pc = "settle",
         UNCHANGED <<charged, token, dropped, unread, short, tokenShort>>
  PROVE  VideoInv(t)'
<1>1. t \in Tasks /\ VideoInv(t) /\ HeldCharge(p, t)
  BY HeldTask
<1>2. Open(t) /\ actor[p].quota = row[t].quota /\ t \notin unread
  BY <1>1 DEF HeldCharge, Won, Open, VideoInv
<1>4. row'[t].status = actor[p].answer /\ row'[t].quota = row[t].quota
  BY <1>2, WriteEffect
<1>3. FullCharge(t) /\ FullCharge(t)' /\ Paid(t)' > 0 /\ PaidToken(t)' > 0
  BY <1>1, <1>2, <1>4 DEF VideoInv, OpenCharge, FullCharge, Paid, PaidToken
<1>5. ASSUME NEW a \in Pollers \cup Users, a # p, Holds(a, t)'
      PROVE  actor'[a].pc \notin Billing /\ HeldCharge(a, t)'
  <2>1. actor'[a] = actor[a] /\ Holds(a, t)
    BY <1>5 DEF OthersRest, Holds
  <2>2. actor[a].pc \notin Billing
    BY <1>1, <1>2, <2>1 DEF VideoInv, HeldCharge, Open, Finished
  <2> QED  BY <1>1, <1>2, <1>4, <2>1, <2>2 DEF VideoInv, HeldCharge, Open, Billing
<1>6. Holds(p, t)' => HeldCharge(p, t)'
  BY <1>2, <1>3, <1>4 DEF Holds, HeldCharge, Billing, Finished
<1>7. OneBiller(t)'
  BY <1>5 DEF OneBiller
<1>8. Accounted(t)'
  BY <1>4 DEF Accounted, Refunds, Held
<1>9. Paid(t)' >= 0 /\ PaidToken(t)' >= 0 /\ t \notin unread'
  BY <1>2, <1>3, <1>4 DEF IInv, TypeOK, FullCharge, Paid, PaidToken
<1> QED  BY <1>3, <1>4, <1>5, <1>6, <1>7, <1>8, <1>9 DEF VideoInv, OpenCharge

\* Advance keeps the inductive invariant.
LEMMA AdvanceKeeps ==
  ASSUME IInv, NEW p \in Pollers, Advance(p)
  PROVE  IInv'
<1>1. actor[p] # Idle /\ actor[p].pc \in {"polled", "swept"} /\ p \in Pollers \cup Users
  BY DEF Advance, Held
<1>2. UNCHANGED <<platform, upstream, submit, old, charged, token, dropped, unread, short, tokenShort>>
  BY DEF Advance, history
<1>3. CASE ~Won(p)
  BY <1>1, <1>2, <1>3, RestKeeps DEF Advance
<1>4. CASE Won(p)
  <2>1. /\ Write(p)
        /\ \/ actor[p].answer = "FAILURE" /\ Goto(p, "refund")
           \/ actor[p].answer = "SUCCESS" /\ Goto(p, "settle")
           \/ actor[p].answer = "IN_PROGRESS" /\ Rest(p)
    BY <1>4 DEF Advance
  <2>2. /\ actor' \in [Pollers \cup Users -> Works \cup {Idle}] /\ OthersRest(p)
        /\ \/ actor[p].answer = "IN_PROGRESS" /\ actor'[p] = Idle
           \/ /\ actor'[p] # Idle /\ actor'[p].task = actor[p].task /\ actor'[p].quota = actor[p].quota
              /\ actor'[p].answer = actor[p].answer
              /\ \/ actor[p].answer = "FAILURE" /\ actor'[p].pc = "refund"
                 \/ actor[p].answer = "SUCCESS" /\ actor'[p].pc = "settle"
    <3>1. CASE Rest(p) /\ actor[p].answer = "IN_PROGRESS"
      BY <1>1, <3>1, RestEffect DEF IInv
    <3>2. CASE Goto(p, "refund") /\ actor[p].answer = "FAILURE"
      BY <1>1, <3>2, GotoEffect DEF IInv, Steps
    <3>3. CASE Goto(p, "settle") /\ actor[p].answer = "SUCCESS"
      BY <1>1, <3>3, GotoEffect DEF IInv, Steps
    <3> QED  BY <2>1, <3>1, <3>2, <3>3
  <2>3. /\ row' \in [Tasks -> [status : Statuses, quota : Nat, done : BOOLEAN]]
        /\ row'[actor[p].task].status = actor[p].answer
        /\ \A t \in Tasks : t # actor[p].task => row'[t] = row[t]
    BY <1>1, <2>1, WriteEffect
  <2>4. TypeOK'
    BY <1>2, <2>2, <2>3 DEF IInv, TypeOK
  <2>5. \A t \in Tasks : t = actor[p].task /\ platform[t] = "video" => VideoInv(t)'
    BY <1>1, <1>2, <1>4, <2>1, <2>2, MovedTask
  <2> QED  BY <1>1, <1>2, <2>2, <2>3, <2>4, <2>5, StepKeeps
<1> QED  BY <1>3, <1>4

\* A row that is not that of a video task may be written at any time.
LEMMA OtherWriteKeeps ==
  ASSUME IInv, NEW p \in Pollers \cup Users, actor[p] # Idle, actor[p].pc # "read",
         platform[actor[p].task] # "video", Write(p), Rest(p),
         UNCHANGED <<platform, upstream, submit, old, charged, token, dropped, unread, short, tokenShort>>
  PROVE  IInv'
<1>1. /\ actor' \in [Pollers \cup Users -> Works \cup {Idle}]
      /\ actor'[p] = Idle /\ OthersRest(p)
  BY RestEffect DEF IInv
<1>2. /\ row' \in [Tasks -> [status : Statuses, quota : Nat, done : BOOLEAN]]
      /\ row'[actor[p].task].status = actor[p].answer
      /\ \A t \in Tasks : t # actor[p].task => row'[t] = row[t]
  BY WriteEffect
<1>3. actor[p].answer # "none"
  BY DEF IInv, HeldRows
<1>4. TypeOK'
  BY <1>1, <1>2 DEF IInv, TypeOK
<1> QED  BY <1>1, <1>2, <1>3, <1>4, StepKeeps

\* SunoSave and AdvanceByQuery keep the inductive invariant.
LEMMA UnguardedKeeps ==
  ASSUME IInv, NEW p \in Pollers \cup Users, SunoSave(p) \/ (p \in Users /\ AdvanceByQuery(p))
  PROVE  IInv'
<1>1. /\ actor[p] # Idle /\ actor[p].pc \in {"sunoSave", "polled"} /\ Rest(p)
      /\ Write(p) \/ UNCHANGED row
      /\ UNCHANGED <<platform, upstream, submit, old, charged, token, dropped, unread, short, tokenShort>>
  BY DEF SunoSave, AdvanceByQuery, Held, history
<1>2. platform[actor[p].task] # "video"
  BY <1>1 DEF IInv, HeldRows, SunoSave, AdvanceByQuery, Held
<1>3. CASE UNCHANGED row
  BY <1>1, <1>3, RestKeeps
<1>4. CASE Write(p)
  BY <1>1, <1>2, <1>4, OtherWriteKeeps
<1> QED  BY <1>1, <1>3, <1>4

\* FailWithChannel keeps the inductive invariant: the task counts as
\* unread from then on.
LEMMA FailWithChannelKeeps ==
  ASSUME IInv, NEW p \in Pollers, FailWithChannel(p)
  PROVE  IInv'
<1>1. /\ actor[p] # Idle /\ p \in Pollers \cup Users /\ unread' = unread \cup {actor[p].task}
      /\ UNCHANGED <<platform, upstream, submit, old, charged, token, dropped, short, tokenShort>>
  BY DEF FailWithChannel, Held
<1>2. /\ actor' \in [Pollers \cup Users -> Works \cup {Idle}]
      /\ actor'[p] = Idle /\ OthersRest(p)
  BY <1>1, RestEffect DEF IInv, FailWithChannel
<1>3. actor[p].task \in Tasks
  BY <1>1, HeldTask
<1>4. /\ row' \in [Tasks -> [status : Statuses, quota : Nat, done : BOOLEAN]]
      /\ row'[actor[p].task].status = "FAILURE" /\ row'[actor[p].task].quota = row[actor[p].task].quota
      /\ \A t \in Tasks : t # actor[p].task => row'[t] = row[t]
  BY <1>3 DEF IInv, TypeOK, FailWithChannel, Statuses
<1>5. TypeOK'
  BY <1>1, <1>2, <1>3, <1>4 DEF IInv, TypeOK
<1>6. ASSUME NEW t \in Tasks, t = actor[p].task, platform[t] = "video"
      PROVE  VideoInv(t)'
  <2>1. VideoInv(t)
    BY <1>1, <1>6, HeldTask
  <2>2. \A a \in Pollers \cup Users : Holds(a, t)' => Holds(a, t) /\ actor'[a] = actor[a]
    BY <1>2 DEF Holds, OthersRest
  <2>3. \A a \in Pollers \cup Users : Holds(a, t)' => HeldCharge(a, t)'
    BY <1>1, <1>4, <1>6, <2>1, <2>2 DEF VideoInv, HeldCharge, FullCharge, Finished, Open, Paid, PaidToken
  <2>4. OneBiller(t)'
    BY <2>1, <2>2 DEF VideoInv, OneBiller
  <2>5. OpenCharge(t)' /\ t \in unread'
    BY <1>1, <1>4, <1>6 DEF OpenCharge, Open
  <2> QED  BY <1>1, <1>4, <1>6, <2>1, <2>3, <2>4, <2>5 DEF VideoInv, Paid, PaidToken
<1> QED  BY <1>1, <1>2, <1>4, <1>5, <1>6, StepKeeps


\* What Adjust does.
LEMMA AdjustEffect ==
  ASSUME TypeOK, NEW t \in Tasks, NEW delta \in Int, Adjust(t, delta)
  PROVE  /\ charged' \in [Tasks -> Int] /\ token' \in [Tasks -> Int]
         /\ charged'[t] = charged[t] + delta /\ token'[t] \in {token[t], token[t] + delta}
         /\ \A u \in Tasks : u # t => charged'[u] = charged[u] /\ token'[u] = token[u]
  BY DEF TypeOK, Adjust

\* A biller that moves the charge: it was the only one, so what others know of the
\* task does not depend on the charge.
LEMMA BilledTask ==
  ASSUME IInv, NEW p \in Pollers \cup Users, actor[p] # Idle, actor[p].pc \in Billing, OthersRest(p),
         NEW t \in Tasks, t = actor[p].task, platform[t] = "video", row'[t].status = row[t].status,
         Paid(t)' >= 0, PaidToken(t)' >= 0, row[t].status = "SUCCESS" => Paid(t)' > 0,
         Holds(p, t)' => HeldCharge(p, t)',
         row[t].status = "FAILURE" /\ Paid(t)' > 0
           => t \in dropped' \/ (actor[p].pc # "refund" /\ Paid(t) > 0),
         UNCHANGED <<dropped, unread>>
  PROVE  VideoInv(t)'
<1>1. VideoInv(t) /\ HeldCharge(p, t) /\ Holds(p, t)
  BY HeldTask DEF Holds
<1>2. row[t].status \in Finished
  BY <1>1 DEF HeldCharge
<1>3. ASSUME NEW a \in Pollers \cup Users, a # p, Holds(a, t)'
      PROVE  actor'[a].pc \notin Billing /\ HeldCharge(a, t)'
  <2>1. actor'[a] = actor[a] /\ Holds(a, t)
    BY <1>3 DEF OthersRest, Holds
  <2>2. actor[a].pc \notin Billing
    BY <1>1, <1>3, <2>1 DEF VideoInv, OneBiller
  <2> QED  BY <1>1, <1>2, <2>1, <2>2 DEF VideoInv, HeldCharge, Billing, Open, Finished
<1>4. OneBiller(t)'
  BY <1>3 DEF OneBiller
<1>5. OpenCharge(t)'
  BY <1>2 DEF OpenCharge, Open, Finished
<1>6. t \notin unread' => Accounted(t)'
  <2> SUFFICES ASSUME t \notin unread', row'[t].status = "FAILURE", Paid(t)' > 0, t \notin dropped'
               PROVE  \E q \in Pollers : Refunds(q, t)'
    BY DEF Accounted
  <2>1. PICK q \in Pollers : Refunds(q, t)
    BY <1>1 DEF VideoInv, Accounted
  <2>2. q # p
    BY <2>1 DEF Refunds, Held
  <2> QED  BY <2>1, <2>2 DEF Refunds, Held, OthersRest
<1> QED  BY <1>1, <1>3, <1>4, <1>5, <1>6 DEF VideoInv

\* Refund keeps the inductive invariant: the whole charge comes back.
LEMMA RefundKeeps ==
  ASSUME IInv, NEW p \in Pollers, Refund(p)
  PROVE  IInv'
<1>1. /\ actor[p] # Idle /\ p \in Pollers \cup Users /\ actor[p].pc \in {"refund", "sunoRefund"}
      /\ UNCHANGED <<platform, row, upstream, submit, old, dropped, unread, short, tokenShort>>
  BY DEF Refund, Held, history
<1>2. actor[p].task \in Tasks /\ actor[p].quota \in Nat /\ row[actor[p].task].status # "none"
  BY <1>1, HeldTask
<1>3. /\ charged' \in [Tasks -> Int] /\ token' \in [Tasks -> Int]
      /\ charged'[actor[p].task] = charged[actor[p].task] + (- actor[p].quota)
      /\ token'[actor[p].task] \in {token[actor[p].task], token[actor[p].task] + (- actor[p].quota)}
      /\ \A u \in Tasks : u # actor[p].task => charged'[u] = charged[u] /\ token'[u] = token[u]
  BY <1>2, AdjustEffect DEF IInv, Refund
<1>4. CASE actor[p].pc = "refund"
  <2>1. /\ actor' \in [Pollers \cup Users -> Works \cup {Idle}]
        /\ actor'[p] = Idle /\ OthersRest(p)
    BY <1>1, <1>4, RestEffect DEF IInv, Refund
  <2>2. TypeOK'
    BY <1>1, <1>3, <2>1 DEF IInv, TypeOK
  <2>3. ASSUME NEW t \in Tasks, t = actor[p].task, platform[t] = "video"
        PROVE  VideoInv(t)'
    <3>1. FullCharge(t) /\ actor[p].quota = row[t].quota /\ row[t].status = "FAILURE"
      BY <1>1, <1>4, <2>3, HeldTask DEF HeldCharge
    <3>2. Paid(t)' = 0 /\ PaidToken(t)' >= 0
      BY <1>1, <1>2, <1>3, <2>3, <3>1 DEF FullCharge, Paid, PaidToken, IInv, TypeOK
    <3> QED  BY <1>1, <1>4, <2>1, <2>3, <3>1, <3>2, BilledTask DEF Billing, Holds
  <2> QED  BY <1>1, <1>2, <1>3, <2>1, <2>2, <2>3, StepKeeps
<1>5. CASE actor[p].pc = "sunoRefund"
  <2>1. /\ actor' \in [Pollers \cup Users -> Works \cup {Idle}]
        /\ actor'[p] # Idle /\ actor'[p].pc = "sunoSave" /\ actor'[p].task = actor[p].task
        /\ actor'[p].snap = actor[p].snap /\ actor'[p].answer = actor[p].answer
        /\ actor'[p].quota = actor[p].quota /\ OthersRest(p)
    BY <1>1, <1>5, GotoEffect DEF IInv, Refund, Steps
  <2>2. TypeOK'
    BY <1>1, <1>3, <2>1 DEF IInv, TypeOK
  <2>3. platform[actor[p].task] = "suno" /\ actor[p].answer # "none"
    BY <1>1, <1>5 DEF IInv, HeldRows
  <2> QED  BY <1>1, <1>2, <1>3, <2>1, <2>2, <2>3, StepKeeps
<1> QED  BY <1>1, <1>4, <1>5

\* RefundFails keeps the inductive invariant.
LEMMA RefundFailsKeeps ==
  ASSUME IInv, NEW p \in Pollers, RefundFails(p)
  PROVE  IInv'
<1>1. /\ actor[p] # Idle /\ p \in Pollers \cup Users /\ actor[p].pc \in {"refund", "sunoRefund"}
      /\ dropped' = dropped \cup {actor[p].task}
      /\ UNCHANGED <<platform, row, upstream, submit, old, charged, token, unread, short, tokenShort>>
  BY DEF RefundFails, Held
<1>2. CASE actor[p].pc = "refund"
  BY <1>1, <1>2, RestKeeps DEF RefundFails
<1>3. CASE actor[p].pc = "sunoRefund"
  <2>1. /\ actor' \in [Pollers \cup Users -> Works \cup {Idle}]
        /\ actor'[p] # Idle /\ actor'[p].pc = "sunoSave" /\ actor'[p].task = actor[p].task
        /\ actor'[p].snap = actor[p].snap /\ actor'[p].answer = actor[p].answer
        /\ actor'[p].quota = actor[p].quota /\ OthersRest(p)
    BY <1>1, <1>3, GotoEffect DEF IInv, RefundFails, Steps
  <2>2. TypeOK'
    BY <1>1, <2>1, HeldTask DEF IInv, TypeOK
  <2>3. platform[actor[p].task] = "suno" /\ actor[p].answer # "none"
    BY <1>1, <1>3 DEF IInv, HeldRows
  <2> QED  BY <1>1, <2>1, <2>2, <2>3, HeldTask, StepKeeps
<1> QED  BY <1>1, <1>2, <1>3

\* Settle keeps the inductive invariant: the charge becomes the actual one.
LEMMA SettleKeeps ==
  ASSUME IInv, NEW p \in Pollers, Settle(p)
  PROVE  IInv'
<1>1. /\ actor[p] # Idle /\ p \in Pollers \cup Users /\ actor[p].pc = "settle"
      /\ UNCHANGED <<platform, row, upstream, submit, old, dropped, unread, short, tokenShort>>
  BY DEF Settle, Held, history
<1>2. CASE Rest(p) /\ UNCHANGED <<charged, token>>
  BY <1>1, <1>2, RestKeeps
<1>3. ASSUME NEW actual \in Actuals, Adjust(actor[p].task, actual - actor[p].quota),
             actor' = [actor EXCEPT ![p].pc = "settleRow", ![p].quota = actual]
      PROVE  IInv'
  <2>1. /\ actor[p].task \in Tasks /\ actor[p].quota \in Nat /\ row[actor[p].task].status # "none"
        /\ actor[p].answer # "none" /\ actual \in Nat \ {0} /\ actor[p] \in Works
    BY <1>1, <1>3, HeldTask, HeldFields, TaskAssumption DEF IInv, HeldRows
  <2>2. /\ charged' \in [Tasks -> Int] /\ token' \in [Tasks -> Int]
        /\ charged'[actor[p].task] = charged[actor[p].task] + (actual - actor[p].quota)
        /\ token'[actor[p].task] \in {token[actor[p].task], token[actor[p].task] + (actual - actor[p].quota)}
        /\ \A u \in Tasks : u # actor[p].task => charged'[u] = charged[u] /\ token'[u] = token[u]
    BY <1>3, <2>1, AdjustEffect DEF IInv
  <2>3. /\ actor' \in [Pollers \cup Users -> Works \cup {Idle}]
        /\ actor'[p] # Idle /\ actor'[p].pc = "settleRow" /\ actor'[p].task = actor[p].task
        /\ actor'[p].snap = actor[p].snap /\ actor'[p].answer = actor[p].answer
        /\ actor'[p].quota = actual /\ OthersRest(p)
    <3> DEFINE v == [actor[p] EXCEPT !.pc = "settleRow"]
               w == [v EXCEPT !.quota = actual]
    <3>1. v \in Works /\ v.pc = "settleRow" /\ v.task = actor[p].task /\ v.snap = actor[p].snap
          /\ v.answer = actor[p].answer
      BY <2>1 DEF Works, Steps
    <3>2. w \in Works /\ w.pc = v.pc /\ w.task = v.task /\ w.snap = v.snap /\ w.answer = v.answer
          /\ w.quota = actual
      BY <2>1, <3>1 DEF Works
    <3>3. actor' = [actor EXCEPT ![p] = w]
      BY <1>1, <1>3 DEF IInv, TypeOK
    <3> HIDE DEF v, w
    <3>4. actor'[p] = w /\ OthersRest(p) /\ actor' \in [Pollers \cup Users -> Works \cup {Idle}]
      BY <1>1, <3>2, <3>3 DEF IInv, TypeOK, OthersRest
    <3> QED  BY <3>1, <3>2, <3>4, WorksAreNotIdle
  <2>4. TypeOK'
    BY <1>1, <2>2, <2>3 DEF IInv, TypeOK
  <2>5. ASSUME NEW t \in Tasks, t = actor[p].task, platform[t] = "video"
        PROVE  VideoInv(t)'
    <3>1. FullCharge(t) /\ actor[p].quota = row[t].quota /\ row[t].status \in Finished /\ VideoInv(t)
      BY <1>1, <2>5, HeldTask DEF HeldCharge, Billing
    <3>2. Paid(t) > 0 /\ Paid(t)' > 0 /\ Paid(t)' >= 0 /\ PaidToken(t)' >= 0
      BY <1>1, <2>1, <2>2, <2>5, <3>1 DEF FullCharge, Paid, PaidToken, IInv, TypeOK
    <3>3. HeldCharge(p, t)'
      BY <1>1, <2>3, <2>5, <3>1, <3>2 DEF HeldCharge, Billing, Paid
    <3>4. actor[p].pc \in Billing /\ actor[p].pc # "refund" /\ row'[t].status = row[t].status
      BY <1>1 DEF Billing
    <3> QED  BY <1>1, <2>3, <2>5, <3>2, <3>3, <3>4, BilledTask
  <2> QED  BY <1>1, <2>1, <2>2, <2>3, <2>4, <2>5, StepKeeps
<1> QED  BY <1>2, <1>3 DEF Settle

\* SettleRow keeps the inductive invariant.
LEMMA SettleRowKeeps ==
  ASSUME IInv, NEW p \in Pollers, SettleRow(p)
  PROVE  IInv'
<1>1. /\ actor[p] # Idle /\ p \in Pollers \cup Users /\ actor[p].pc = "settleRow"
      /\ UNCHANGED <<platform, upstream, submit, old, charged, token, dropped, unread, short, tokenShort>>
  BY DEF SettleRow, Held, history
<1>2. /\ actor' \in [Pollers \cup Users -> Works \cup {Idle}]
      /\ actor'[p] = Idle /\ OthersRest(p)
  BY <1>1, RestEffect DEF IInv, SettleRow
<1>3. actor[p].task \in Tasks /\ actor[p].quota \in Nat /\ row[actor[p].task].status # "none"
  BY <1>1, HeldTask
<1>4. /\ row' \in [Tasks -> [status : Statuses, quota : Nat, done : BOOLEAN]]
      /\ row'[actor[p].task].status = row[actor[p].task].status
      /\ \A t \in Tasks : t # actor[p].task => row'[t] = row[t]
  BY <1>3 DEF IInv, TypeOK, SettleRow
<1>5. TypeOK'
  BY <1>1, <1>2, <1>4 DEF IInv, TypeOK
<1>6. ASSUME NEW t \in Tasks, t = actor[p].task, platform[t] = "video"
      PROVE  VideoInv(t)'
  <2>1. VideoInv(t)
    BY <1>1, <1>6, HeldTask
  <2> QED  BY <1>1, <1>2, <1>4, <1>6, <2>1, BilledTask DEF VideoInv, Billing, Holds, Paid, PaidToken
<1> QED  BY <1>1, <1>2, <1>3, <1>4, <1>5, <1>6, StepKeeps

\* Crash keeps the inductive invariant.
LEMMA CrashKeeps ==
  ASSUME IInv, NEW p \in Pollers \cup Users, Crash(p)
  PROVE  IInv'
  BY RestKeeps DEF Crash

\* Every step keeps the inductive invariant.
LEMMA NextIInv == IInv /\ [Next]_vars => IInv'
<1> SUFFICES ASSUME IInv, [Next]_vars PROVE IInv'
  OBVIOUS
<1>1. CASE UNCHANGED vars
  BY <1>1 DEF vars, IInv, TypeOK, HeldRows, SubmittedRows, VideoInv, On, OpenCharge, Open, Holds,
     HeldCharge, FullCharge, OneBiller, Accounted, Refunds, Held, Paid, PaidToken, history
<1>2. ASSUME NEW t \in Tasks,
             \/ PreCharge(t) \/ SettleSubmission(t) \/ Insert(t) \/ InsertFails(t)
             \/ TimeOut(t) \/ ProviderEnds(t)
      PROVE  IInv'
  BY <1>2, PreChargeKeeps, SettleSubmissionKeeps, InsertKeeps, InsertFailsKeeps, TimeOutKeeps,
     ProviderEndsKeeps
<1>3. ASSUME NEW t \in Tasks, NEW p \in Pollers, Sweep(p, t) \/ Poll(p, t)
      PROVE  IInv'
  BY <1>3, SweepKeeps, PollKeeps
<1>4. ASSUME NEW t \in Tasks, NEW u \in Users, Query(u, t)
      PROVE  IInv'
  BY <1>4, QueryKeeps
<1>5. ASSUME NEW a \in Pollers \cup Users, Ask(a) \/ AskSuno(a) \/ AskFails(a) \/ Crash(a)
      PROVE  IInv'
  <2>1. CASE AskFails(a)
    BY <2>1, RestKeeps DEF AskFails, Held, history
  <2> QED  BY <1>5, <2>1, AskKeeps, CrashKeeps
<1>6. ASSUME NEW p \in Pollers, PollerStep(p)
      PROVE  IInv'
  <2>1. CASE AdvanceFails(p)
    BY <2>1, RestKeeps DEF AdvanceFails, Held, history
  <2>2. CASE Ask(p) \/ AskSuno(p) \/ AskFails(p)
    BY <1>5, <2>2
  <2>3. CASE SunoSave(p)
    BY <2>3, UnguardedKeeps
  <2> QED  BY <1>6, <2>1, <2>2, <2>3, FailWithChannelKeeps, AdvanceKeeps, RefundKeeps, RefundFailsKeeps,
         SettleKeeps, SettleRowKeeps DEF PollerStep
<1>7. ASSUME NEW u \in Users, AdvanceByQuery(u)
      PROVE  IInv'
  BY <1>7, UnguardedKeeps
<1> QED  BY <1>1, <1>2, <1>3, <1>4, <1>5, <1>6, <1>7 DEF Next

\* The inductive invariant holds throughout.
THEOREM Invariance == Spec => []IInv
  BY InitIInv, NextIInv, PTL DEF Spec

\* The variables keep their types; in particular no quota stored is negative.
THEOREM TypeCorrect == Spec => []TypeOK
<1>1. IInv => TypeOK
  BY DEF IInv
<1> QED  BY <1>1, Invariance, PTL

\* A video task is refunded at most once and for no more than its row says was
\* charged, whichever passes and sweeps overlap.
THEOREM RefundedOnce == Spec => []RefundedAtMostOnce
<1>1. IInv => RefundedAtMostOnce
  BY DEF IInv, VideoInv, RefundedAtMostOnce
<1> QED  BY <1>1, Invariance, PTL

\* A video task whose result was delivered stays charged.
THEOREM SuccessCharged == Spec => []SuccessIsCharged
<1>1. IInv => SuccessIsCharged
  BY DEF IInv, VideoInv, SuccessIsCharged
<1> QED  BY <1>1, Invariance, PTL

\* A failed video task whose charge was not returned has a pass about to refund
\* it, or its refund was lost by a crash or an error, or its channel could not be
\* read.
THEOREM FailureRefunded == Spec => []FailureIsRefunded
<1>1. IInv => FailureIsRefunded
  BY DEF IInv, VideoInv, FailureIsRefunded
<1> QED  BY <1>1, Invariance, PTL

\* A video task that has ended stays as it ended: Advance writes only what was
\* unfinished, and FailWithChannel marks what it reverses, once.
THEOREM EndFinal == Spec => EndIsFinal
<1> DEFINE Final == \A t \in On("video") :
                      row[t].status \in Finished => row'[t].status = row[t].status \/ t \in unread' \ unread
<1>1. IInv /\ [Next]_vars => Final
  <2> SUFFICES ASSUME IInv, [Next]_vars, NEW t \in Tasks, platform[t] = "video",
                      row[t].status \in Finished
               PROVE  row'[t].status = row[t].status \/ t \in unread' \ unread
    BY DEF On
  <2>1. CASE UNCHANGED row
    BY <2>1
  <2>2. ASSUME NEW u \in Tasks, Insert(u) \/ SettleSubmission(u)
        PROVE  row'[t].status = row[t].status
    BY <2>2 DEF Insert, SettleSubmission, IInv, TypeOK, SubmittedRows, Finished
  <2>3. ASSUME NEW p \in Pollers \cup Users, actor[p] # Idle, SettleRow(p)
        PROVE  row'[t].status = row[t].status
    <3>1. actor[p].task \in Tasks
      BY <2>3, HeldTask
    <3> QED  BY <2>3, <3>1 DEF SettleRow, IInv, TypeOK
  <2>3a. ASSUME NEW p \in Pollers \cup Users, actor[p] # Idle, FailWithChannel(p)
         PROVE  row'[t].status = row[t].status \/ t \in unread' \ unread
    <3>1. actor[p].task \in Tasks
      BY <2>3a, HeldTask
    <3>2. t \in unread => row[t].status = "FAILURE"
      BY DEF IInv, On, VideoInv
    <3> QED  BY <2>3a, <3>1, <3>2 DEF FailWithChannel, IInv, TypeOK
  <2>4. ASSUME NEW p \in Pollers \cup Users, Write(p), actor[p] # Idle,
               (actor[p].pc \in {"polled", "swept"} /\ Won(p)) \/ platform[actor[p].task] # "video"
        PROVE  row'[t].status = row[t].status
    <3>1. CASE t # actor[p].task
      BY <2>4, <3>1, WriteEffect
    <3>2. CASE t = actor[p].task
      <4>1. actor[p].snap \in {"SUBMITTED", "IN_PROGRESS"} /\ Won(p)
        BY <2>4, <3>2, HeldTask DEF HeldCharge
      <4> QED  BY <3>2, <4>1 DEF Won, Finished
    <3> QED  BY <3>1, <3>2
  <2>5. ASSUME NEW p \in Pollers \cup Users, SunoSave(p) \/ (p \in Users /\ AdvanceByQuery(p))
        PROVE  row'[t].status = row[t].status
    <3>1. actor[p] # Idle /\ platform[actor[p].task] # "video" /\ (Write(p) \/ UNCHANGED row)
      BY <2>5 DEF IInv, HeldRows, SunoSave, AdvanceByQuery, Held
    <3> QED  BY <2>1, <2>4, <3>1
  <2>6. ASSUME NEW p \in Pollers, Advance(p)
        PROVE  row'[t].status = row[t].status
    <3>1. actor[p] # Idle /\ actor[p].pc \in {"polled", "swept"} /\ (UNCHANGED row \/ (Won(p) /\ Write(p)))
      BY <2>6 DEF Advance, Held
    <3> QED  BY <2>1, <2>4, <3>1
  <2>7. ASSUME NEW p \in Pollers, PollerStep(p)
        PROVE  row'[t].status = row[t].status \/ t \in unread' \ unread
    <3>1. CASE Ask(p) \/ AskSuno(p) \/ AskFails(p) \/ AdvanceFails(p) \/ Refund(p) \/ RefundFails(p) \/ Settle(p)
      BY <2>1, <3>1 DEF Ask, AskSuno, AskFails, AdvanceFails, Refund, RefundFails, Settle
    <3>2. CASE FailWithChannel(p) \/ SettleRow(p)
      BY <2>3, <2>3a, <3>2 DEF FailWithChannel, SettleRow, Held
    <3> QED  BY <2>5, <2>6, <2>7, <3>1, <3>2 DEF PollerStep
  <2>8. CASE UNCHANGED vars
    BY <2>1, <2>8 DEF vars
  <2>9. ASSUME NEW u \in Tasks,
               \/ PreCharge(u) \/ InsertFails(u) \/ TimeOut(u) \/ ProviderEnds(u)
               \/ \E p \in Pollers : Sweep(p, u) \/ Poll(p, u)
               \/ \E q \in Users : Query(q, u)
        PROVE  row'[t].status = row[t].status
    BY <2>1, <2>9 DEF PreCharge, InsertFails, TimeOut, ProviderEnds, Sweep, Poll, Query
  <2>10. ASSUME NEW a \in Pollers \cup Users, Ask(a) \/ AskSuno(a) \/ AskFails(a) \/ Crash(a)
         PROVE  row'[t].status = row[t].status
    BY <2>1, <2>10 DEF Ask, AskSuno, AskFails, Crash
  <2> QED  BY <2>2, <2>5, <2>7, <2>8, <2>9, <2>10 DEF Next
<1>2. IInv /\ [Next]_vars => [Final]_vars
  BY <1>1
<1> QED  BY <1>2, Invariance, PTL DEF Spec, EndIsFinal
=============================================================================
