----------------------------- MODULE AsyncTask -----------------------------
(***************************************************************************)
(* Asynchronous tasks (video, music) and their billing:                    *)
(* controller/relay.go RelayTask, service/task_polling.go,                 *)
(* service/task_billing.go, model/task.go and the realtime query of        *)
(* relay/relay_task.go.                                                    *)
(*                                                                         *)
(* A task is charged before it is submitted, at the price of the first     *)
(* channel; the channel that takes it may have another price, and the      *)
(* difference is settled then, which may fail. Polling passes read         *)
(* unfinished rows, ask the provider, move the row with a compare-and-set  *)
(* on its status, and whoever wins settles or refunds what the row says.   *)
(* A pass that lost its lease finishes the task it is at, and the channels *)
(* of one pass run in parallel, so several Pollers hold rows at a time.    *)
(* The customer's query of a Gemini or Vertex task writes the row as well. *)
(* Suno rows are refunded first and saved unconditionally.                 *)
(*                                                                         *)
(* The provider runs a task to one end; besides, any query but Suno's may  *)
(* get an error body, which every reader takes for a failure of the task.  *)
(***************************************************************************)
EXTENDS Integers, FiniteSets

CONSTANTS
  Tasks,       \* tasks
  Platforms,   \* of "suno", "gemini" (Gemini and Vertex) and "video" (all others)
  Pollers,     \* polling passes that may overlap
  Users,       \* customers' queries
  Quotas,      \* prices of a task on the channels it may be sent to
  Actuals,     \* quotas the settlement may compute
  MaxExtra     \* bound on what is refunded beyond the charge

ASSUME TaskAssumption ==
  /\ Platforms \subseteq {"suno", "gemini", "video"}
  /\ Pollers \cap Users = {}
  /\ Quotas \subseteq Nat \ {0} /\ Actuals \subseteq Nat \ {0} /\ MaxExtra \in Nat

VARIABLES
  platform,   \* the platform a task was submitted to
  row,        \* [status, quota, done] of the tasks row; done: progress is "100%"
  upstream,   \* external: how far the provider is with the task
  submit,     \* progress of RelayTask after the provider took the task
  old,        \* tasks older than TaskTimeoutMinutes
  charged,    \* net charge of the wallet or subscription for the task
  token,      \* net charge of the token
  actor,      \* what a pass or a query holds in memory
  dropped,    \* history: tasks whose refund a crash or an error lost
  unread,     \* history: tasks failed because their channel could not be read
  short,      \* history: what the row says was charged and the funding was not
  tokenShort  \* history: the same of the token

history == <<dropped, unread, short, tokenShort>>
vars == <<platform, row, upstream, submit, old, charged, token, actor, history>>

Statuses == {"none", "SUBMITTED", "IN_PROGRESS", "SUCCESS", "FAILURE"}
Finished == {"SUCCESS", "FAILURE"}
Open(t) == row[t].status \in {"SUBMITTED", "IN_PROGRESS"}

\* What the sweep and the passes look for; an open row at 100% is out of reach.
Unfinished(t) == Open(t) /\ ~row[t].done

Idle == [pc |-> "idle"]
Steps == {"read", "polled", "swept", "refund", "settle", "settleRow", "sunoRefund", "sunoSave"}
Works == [pc : Steps, task : Tasks, snap : Statuses, answer : Statuses, quota : Nat,
          done : BOOLEAN]

TypeOK ==
  /\ row \in [Tasks -> [status : Statuses, quota : Nat, done : BOOLEAN]]
  /\ platform \in [Tasks -> Platforms]
  /\ upstream \in [Tasks -> {"IN_PROGRESS", "SUCCESS", "FAILURE"}]
  /\ submit \in [Tasks -> {"idle", "charged", "settled", "over"}]
  /\ old \subseteq Tasks /\ dropped \subseteq Tasks /\ unread \subseteq Tasks
  /\ short \in [Tasks -> Int] /\ tokenShort \in [Tasks -> Int]
  /\ charged \in [Tasks -> Int] /\ token \in [Tasks -> Int]
  /\ actor \in [Pollers \cup Users -> Works \cup {Idle}]

Init ==
  /\ platform \in [Tasks -> Platforms]
  /\ row = [t \in Tasks |-> [status |-> "none", quota |-> 0, done |-> FALSE]]
  /\ upstream = [t \in Tasks |-> "IN_PROGRESS"]
  /\ submit = [t \in Tasks |-> "idle"]
  /\ old = {} /\ dropped = {} /\ unread = {}
  /\ short = [t \in Tasks |-> 0] /\ tokenShort = [t \in Tasks |-> 0]
  /\ charged = [t \in Tasks |-> 0] /\ token = [t \in Tasks |-> 0]
  /\ actor = [a \in Pollers \cup Users |-> Idle]

-----------------------------------------------------------------------------
(* RelayTask. *)

\* PreConsumeBilling at the first attempt; later attempts only set the price.
PreCharge(t) ==
  /\ submit[t] = "idle"
  /\ submit' = [submit EXCEPT ![t] = "charged"]
  /\ \E pre \in Quotas :
       /\ charged' = [charged EXCEPT ![t] = pre]
       /\ token' = [token EXCEPT ![t] = pre]
  /\ UNCHANGED <<platform, row, upstream, old, actor, history>>

\* SettleBilling, after the provider accepted the task: the funding and then
\* the token move to the price of the channel that took it. The row gets that
\* price whether both, the funding alone or neither could be moved; a failure
\* is only logged.
SettleSubmission(t) ==
  /\ submit[t] = "charged"
  /\ submit' = [submit EXCEPT ![t] = "settled"]
  /\ \E quota \in Quotas :
       /\ row' = [row EXCEPT ![t].quota = quota]
       /\ \/ /\ charged' = [charged EXCEPT ![t] = quota]
             /\ token' \in {token, [token EXCEPT ![t] = quota]}
          \/ UNCHANGED <<charged, token>>
       /\ short' = [short EXCEPT ![t] = quota - charged'[t]]
       /\ tokenShort' = [tokenShort EXCEPT ![t] = quota - token'[t]]
  /\ UNCHANGED <<platform, upstream, old, actor, dropped, unread>>

Insert(t) ==
  /\ submit[t] = "settled"
  /\ submit' = [submit EXCEPT ![t] = "over"]
  /\ row' = [row EXCEPT ![t].status = "SUBMITTED"]
  /\ UNCHANGED <<platform, upstream, old, charged, token, actor, history>>

\* The error is logged, or the process died: nobody knows the task.
InsertFails(t) ==
  /\ submit[t] = "settled"
  /\ submit' = [submit EXCEPT ![t] = "over"]
  /\ UNCHANGED <<platform, row, upstream, old, charged, token, actor, history>>

\* The task gets older than TaskTimeoutMinutes, which is not 0.
TimeOut(t) ==
  /\ Open(t) /\ t \notin old
  /\ old' = old \cup {t}
  /\ UNCHANGED <<platform, row, upstream, submit, charged, token, actor, history>>

\* External: the provider is done with the task.
ProviderEnds(t) ==
  /\ submit[t] \in {"settled", "over"} /\ upstream[t] = "IN_PROGRESS"
  /\ \E end \in Finished : upstream' = [upstream EXCEPT ![t] = end]
  /\ UNCHANGED <<platform, row, submit, old, charged, token, actor, history>>

-----------------------------------------------------------------------------
(* Reading rows and asking the provider. *)

Hold(a, t, pc, answer) ==
  actor' = [actor EXCEPT ![a] = [pc |-> pc, task |-> t, snap |-> row[t].status,
                                 answer |-> answer, quota |-> row[t].quota,
                                 done |-> answer = "FAILURE"]]
Goto(a, pc) == actor' = [actor EXCEPT ![a].pc = pc]
Rest(a) == actor' = [actor EXCEPT ![a] = Idle]
Held(a, pc) == actor[a] # Idle /\ actor[a].pc = pc

\* Mutant: only rows that never progressed are swept.
SweepSubmitted(p, t) ==
  /\ actor[p] = Idle
  /\ row[t].status = "SUBMITTED" /\ t \in old
  /\ Hold(p, t, "swept", "FAILURE")
  /\ UNCHANGED <<platform, row, upstream, submit, old, charged, token, history>>

\* sweepTimedOutTasks, the read.
Sweep(p, t) ==
  /\ actor[p] = Idle
  /\ Unfinished(t) /\ t \in old
  /\ Hold(p, t, "swept", "FAILURE")
  /\ UNCHANGED <<platform, row, upstream, submit, old, charged, token, history>>

\* GetAllUnFinishSyncTasks, the read.
Poll(p, t) ==
  /\ actor[p] = Idle
  /\ Unfinished(t)
  /\ Hold(p, t, "read", "none")
  /\ UNCHANGED <<platform, row, upstream, submit, old, charged, token, history>>

\* GetByTaskId for the customer's query; the row may be in any state.
Query(u, t) ==
  /\ actor[u] = Idle
  /\ platform[t] = "gemini" /\ row[t].status # "none"
  /\ Hold(u, t, "read", "none")
  /\ UNCHANGED <<platform, row, upstream, submit, old, charged, token, history>>

Answer(a, status, done, pc) ==
  actor' = [actor EXCEPT ![a].answer = status, ![a].done = done, ![a].pc = pc]

\* FetchTask and ParseTaskResult. A pass also takes the progress the provider
\* reports, which may be 100% before the end.
Ask(a) ==
  /\ Held(a, "read") /\ platform[actor[a].task] # "suno"
  /\ \E status \in {upstream[actor[a].task], "FAILURE"}, full \in BOOLEAN :
       /\ full => a \in Pollers
       /\ Answer(a, status, full \/ status \in Finished, "polled")
  /\ UNCHANGED <<platform, row, upstream, submit, old, charged, token, history>>

\* updateSunoTasks: an answer with a fail reason is refunded and put at 100%,
\* whatever status it has, and worked on without another look at the row.
AskSuno(p) ==
  /\ Held(p, "read") /\ platform[actor[p].task] = "suno"
  /\ \E reason \in BOOLEAN :
       LET status == upstream[actor[p].task]
           failed == reason \/ status = "FAILURE"
       IN  Answer(p, status, failed \/ status = "SUCCESS",
                  IF failed THEN "sunoRefund" ELSE "sunoSave")
  /\ UNCHANGED <<platform, row, upstream, submit, old, charged, token, history>>

\* No answer, a rate limit, one that cannot be read, or a Suno answer with
\* nothing new: the next pass asks again.
AskFails(a) ==
  /\ Held(a, "read")
  /\ Rest(a)
  /\ UNCHANGED <<platform, row, upstream, submit, old, charged, token, history>>

-----------------------------------------------------------------------------
(* Moving the row. *)

\* Mutant: the update is not guarded by the status that was read.
WonAlways(a) == TRUE

\* UpdateWithStatus: the row is written if its status is still the one read.
Won(a) == row[actor[a].task].status = actor[a].snap
Write(a) ==
  row' = [row EXCEPT ![actor[a].task] = [status |-> actor[a].answer,
                                           quota |-> actor[a].quota, done |-> actor[a].done]]

\* Mutant: the billing is done whether the row was moved or not.
AdvanceBillsAnyway(p) ==
  /\ Held(p, "swept") \/ Held(p, "polled")
  /\ IF Won(p) THEN Write(p) ELSE UNCHANGED row
  /\ \/ actor[p].answer = "FAILURE" /\ Goto(p, "refund")
     \/ actor[p].answer = "SUCCESS" /\ Goto(p, "settle")
     \/ actor[p].answer = "IN_PROGRESS" /\ Rest(p)
  /\ UNCHANGED <<platform, upstream, submit, old, charged, token, history>>

\* Mutant: a swept task is failed without its refund.
AdvanceSweepsOnly(p) ==
  /\ Held(p, "swept") \/ Held(p, "polled")
  /\ IF ~Won(p)
     THEN Rest(p) /\ UNCHANGED row
     ELSE /\ Write(p)
          /\ \/ actor[p].answer = "FAILURE" /\ actor[p].pc = "polled" /\ Goto(p, "refund")
             \/ actor[p].answer = "SUCCESS" /\ Goto(p, "settle")
             \/ (actor[p].answer = "IN_PROGRESS" \/ actor[p].pc = "swept") /\ Rest(p)
  /\ UNCHANGED <<platform, upstream, submit, old, charged, token, history>>

\* sweepTimedOutTasks and updateVideoSingleTask: who moves the task to its end
\* does the billing.
Advance(p) ==
  /\ Held(p, "swept") \/ Held(p, "polled")
  /\ IF ~Won(p)
     THEN Rest(p) /\ UNCHANGED row
     ELSE /\ Write(p)
          /\ \/ actor[p].answer = "FAILURE" /\ Goto(p, "refund")
             \/ actor[p].answer = "SUCCESS" /\ Goto(p, "settle")
             \/ actor[p].answer = "IN_PROGRESS" /\ Rest(p)
  /\ UNCHANGED <<platform, upstream, submit, old, charged, token, history>>

\* The write fails in the database, or nothing has changed: no billing.
AdvanceFails(p) ==
  /\ Held(p, "swept") \/ Held(p, "polled")
  /\ Rest(p)
  /\ UNCHANGED <<platform, row, upstream, submit, old, charged, token, history>>

\* updateVideoTasks, updateSunoTasks: the channel is deleted or cannot be read,
\* and the rows read before are failed whatever has become of them, without a
\* refund. RunTaskPollingOnce does the same to rows without an upstream id.
FailWithChannel(p) ==
  /\ Held(p, "read")
  /\ row' = [row EXCEPT ![actor[p].task].status = "FAILURE", ![actor[p].task].done = TRUE]
  /\ unread' = unread \cup {actor[p].task}
  /\ Rest(p)
  /\ UNCHANGED <<platform, upstream, submit, old, charged, token, dropped, short, tokenShort>>

\* tryRealtimeFetch: the row is moved, to an end or back from one, unless it
\* was moved since, nothing in it has changed, or the write fails, which is
\* ignored; there is no billing.
AdvanceByQuery(u) ==
  /\ Held(u, "polled")
  /\ \/ Won(u) /\ Write(u)
     \/ UNCHANGED row
  /\ Rest(u)
  /\ UNCHANGED <<platform, upstream, submit, old, charged, token, history>>

-----------------------------------------------------------------------------
(* RefundTaskQuota and RecalculateTaskQuota. *)

\* taskAdjustFunding, then taskAdjustTokenQuota, whose error is only logged; a
\* crash between the two leaves the token as that error does.
Adjust(t, delta) ==
  /\ charged' = [charged EXCEPT ![t] = @ + delta]
  /\ token' \in {token, [token EXCEPT ![t] = @ + delta]}

Refund(p) ==
  /\ Held(p, "refund") \/ Held(p, "sunoRefund")
  /\ charged[actor[p].task] - actor[p].quota >= - MaxExtra
  /\ Adjust(actor[p].task, - actor[p].quota)
  /\ IF actor[p].pc = "refund" THEN Rest(p) ELSE Goto(p, "sunoSave")
  /\ UNCHANGED <<platform, row, upstream, submit, old, history>>

\* The refund fails: the token is not touched either. A Suno row is saved all
\* the same.
RefundFails(p) ==
  /\ Held(p, "refund") \/ Held(p, "sunoRefund")
  /\ dropped' = dropped \cup {actor[p].task}
  /\ IF actor[p].pc = "refund" THEN Rest(p) ELSE Goto(p, "sunoSave")
  /\ UNCHANGED <<platform, row, upstream, submit, old, charged, token, unread, short, tokenShort>>

\* updateSunoTasks: task.Update saves the row over whatever is there.
SunoSave(p) ==
  /\ Held(p, "sunoSave")
  /\ Write(p)
  /\ Rest(p)
  /\ UNCHANGED <<platform, upstream, submit, old, charged, token, history>>

\* Mutant: the difference is stored for the quota.
SettleKeepsDelta(p) ==
  /\ Held(p, "settle")
  /\ \/ Rest(p) /\ UNCHANGED <<charged, token>>
     \/ \E actual \in Actuals \ {actor[p].quota} :
          /\ Adjust(actor[p].task, actual - actor[p].quota)
          /\ actor' = [actor EXCEPT ![p].pc = "settleRow", ![p].quota = actual - actor[p].quota]
  /\ UNCHANGED <<platform, row, upstream, submit, old, history>>

\* settleTaskBillingOnComplete: the charge stays as it is (by call, no other
\* amount, or the adjustment fails), or RecalculateTaskQuota moves it.
Settle(p) ==
  /\ Held(p, "settle")
  /\ \/ Rest(p) /\ UNCHANGED <<charged, token>>
     \/ \E actual \in Actuals \ {actor[p].quota} :
          /\ Adjust(actor[p].task, actual - actor[p].quota)
          /\ actor' = [actor EXCEPT ![p].pc = "settleRow", ![p].quota = actual]
  /\ UNCHANGED <<platform, row, upstream, submit, old, history>>

\* UpdateQuota
SettleRow(p) ==
  /\ Held(p, "settleRow")
  /\ row' = [row EXCEPT ![actor[p].task].quota = actor[p].quota]
  /\ Rest(p)
  /\ UNCHANGED <<platform, upstream, submit, old, charged, token, history>>

\* The process of a pass or a query dies.
Crash(a) ==
  /\ actor[a] # Idle
  /\ dropped' = IF actor[a].pc = "refund" THEN dropped \cup {actor[a].task} ELSE dropped
  /\ Rest(a)
  /\ UNCHANGED <<platform, row, upstream, submit, old, charged, token, unread, short, tokenShort>>

-----------------------------------------------------------------------------
PollerStep(p) ==
  \/ Ask(p) \/ AskSuno(p) \/ AskFails(p) \/ FailWithChannel(p) \/ Advance(p) \/ AdvanceFails(p)
  \/ Refund(p) \/ RefundFails(p) \/ SunoSave(p) \/ Settle(p) \/ SettleRow(p)

Next ==
  \/ \E t \in Tasks :
       \/ PreCharge(t) \/ SettleSubmission(t) \/ Insert(t) \/ InsertFails(t)
       \/ TimeOut(t) \/ ProviderEnds(t)
       \/ \E p \in Pollers : Sweep(p, t) \/ Poll(p, t)
       \/ \E u \in Users : Query(u, t)
  \/ \E p \in Pollers : PollerStep(p)
  \/ \E u \in Users : Ask(u) \/ AskFails(u) \/ AdvanceByQuery(u)
  \/ \E a \in Pollers \cup Users : Crash(a)

Spec == Init /\ [][Next]_vars

\* Time passes; a started pass goes on or dies; passes recur while rows are
\* unfinished, each starts with a sweep, and not every sweep dies or fails to
\* write.
Fairness ==
  /\ \A t \in Tasks :
       /\ WF_vars(TimeOut(t))
       /\ SF_vars(\E p \in Pollers : Sweep(p, t))
       /\ SF_vars(\E p \in Pollers : Held(p, "swept") /\ actor[p].task = t /\ Advance(p))
  /\ \A p \in Pollers : WF_vars(PollerStep(p))

FairSpec == Spec /\ Fairness

-----------------------------------------------------------------------------
(* Properties. The customer's query moves a Gemini row without billing and   *)
(* back from its end; a Suno row is refunded before it is written, and       *)
(* written over whatever is there. Video tasks have neither.                 *)

On(name) == {t \in Tasks : platform[t] = name}

\* What the task has paid if its row is right about the charge.
Paid(t) == charged[t] + short[t]
PaidToken(t) == token[t] + tokenShort[t]

\* A task is refunded at most once, and for no more than its row says was
\* charged: with overlapping passes and sweeps, the compare-and-set leaves one
\* of them to do it.
RefundedAtMostOnce == \A t \in On("video") : Paid(t) >= 0 /\ PaidToken(t) >= 0

\* A result that was delivered stays charged: no task ends in SUCCESS with its
\* charge returned, however late the sweep or another pass is.
SuccessIsCharged == \A t \in On("video") : row[t].status = "SUCCESS" => Paid(t) > 0

\* A task that has ended stays as it ended: no pass that read the row before
\* revives or reverses it, save for one that could not read the channel, whose
\* write is not guarded.
EndIsFinal ==
  [][\A t \in On("video") :
       row[t].status \in Finished => row'[t].status = row[t].status \/ t \in unread' \ unread]_vars

\* A pass that is about to give the charge of t back.
Refunds(p, t) == Held(p, "refund") /\ actor[p].task = t

\* A failed task whose charge was not returned has a pass about to refund it,
\* unless a crash or an error lost the refund.
Accounted(t) ==
  row[t].status = "FAILURE" /\ Paid(t) > 0 => t \in dropped \/ \E p \in Pollers : Refunds(p, t)

\* The same holds of all tasks whose channel could be read.
FailureIsRefunded == \A t \in On("video") : t \notin unread => Accounted(t)

\* What the properties of video tasks rest on. A pass or query holds a row that
\* exists, a query one of Gemini, and only Suno rows are saved unguarded.
HeldRows ==
  \A a \in Pollers \cup Users : actor[a] # Idle =>
    /\ row[actor[a].task].status # "none"
    /\ a \in Users => platform[actor[a].task] = "gemini"
    /\ actor[a].pc \in {"sunoRefund", "sunoSave"} => platform[actor[a].task] = "suno"
    /\ actor[a].pc # "read" => actor[a].answer # "none"

\* Funding and token were charged what the row says, or lack what the settlement
\* of the submission could not move.
FullCharge(t) == Paid(t) = row[t].quota /\ PaidToken(t) = row[t].quota /\ row[t].quota > 0

\* A row exists when the submission is over, and the task was charged before.
SubmittedRows ==
  \A t \in Tasks :
    /\ submit[t] # "over" => row[t].status = "none"
    /\ submit[t] \in {"idle", "charged"} =>
         charged[t] >= 0 /\ token[t] >= 0 /\ short[t] = 0 /\ tokenShort[t] = 0
    /\ submit[t] = "settled" => FullCharge(t)

Holds(a, t) == actor[a] # Idle /\ actor[a].task = t
Billing == {"refund", "settle", "settleRow"}

\* Until a video task ends, it has paid what its row says, or is short of it by
\* what the settlement could not move.
OpenCharge(t) == Open(t) => FullCharge(t)

\* What a pass knows of the video task it holds: it read the row before the
\* end, or it is the one that ended it and the charge is as it read it.
HeldCharge(a, t) ==
  /\ actor[a].pc \in {"read", "polled", "swept"}
       => /\ actor[a].snap \in {"SUBMITTED", "IN_PROGRESS"}
          /\ Open(t) => actor[a].quota = row[t].quota
  /\ actor[a].pc \in Billing => row[t].status \in Finished
  /\ actor[a].pc \in {"refund", "settle"} => actor[a].quota = row[t].quota /\ FullCharge(t)
  /\ actor[a].pc = "refund" => row[t].status = "FAILURE"
  /\ actor[a].pc = "settleRow" => Paid(t) > 0

\* One pass bills a task.
OneBiller(t) ==
  \A a, b \in Pollers \cup Users :
    Holds(a, t) /\ Holds(b, t) /\ actor[a].pc \in Billing /\ actor[b].pc \in Billing => a = b

VideoInv(t) ==
  /\ OpenCharge(t)
  /\ \A a \in Pollers \cup Users : Holds(a, t) => HeldCharge(a, t)
  /\ OneBiller(t)
  /\ Paid(t) >= 0 /\ PaidToken(t) >= 0
  /\ row[t].status = "SUCCESS" => Paid(t) > 0
  /\ t \in unread => row[t].status = "FAILURE"
  /\ t \notin unread => Accounted(t)

IInv == TypeOK /\ HeldRows /\ SubmittedRows /\ \A t \in On("video") : VideoInv(t)

\* An open row at 100%, which neither the passes nor the sweep will read.
Stuck(t) == Open(t) /\ row[t].done

\* Every task ends, if only by the timeout, unless an answer put it at 100%
\* before its end.
TasksEnd == \A t \in Tasks : row[t].status # "none" ~> row[t].status \in Finished \/ Stuck(t)

\* "When an asynchronous task fails, the quota charged in advance is returned
\* to the user" (RefundTaskQuota), here of the tasks a customer's query moves.
QueriedFailureIsRefunded == \A t \in On("gemini") : t \notin unread => Accounted(t)
=============================================================================
