----------------------------- MODULE SystemTask -----------------------------
(***************************************************************************)
(* The lease-locked background task runner: model/system_task.go (the two  *)
(* tables) and service/system_task.go (the runner loop of a master node).  *)
(* One task type is modelled: every statement filters on the type or on a  *)
(* task of it, and the lock table has one row per type.                    *)
(*                                                                         *)
(* A runner's pass is one goroutine: stale-lock cleanup, then the claim.   *)
(* A claimed task runs in a goroutine of its own beside a heartbeat. Every *)
(* SQL statement is one step; anything may happen between two of them.     *)
(*                                                                         *)
(* Time is relative. lock.left is locked_until - now in ticks (negative    *)
(* once the lease has run out); age[r] is how many ticks ago the pass of r *)
(* read the clock. A pass that read the clock age[r] ticks ago and writes  *)
(* locked_until = clock + TTL leaves TTL - age[r] ticks of lease, and its  *)
(* test "locked_until < clock" is lock.left < -age[r].                     *)
(***************************************************************************)
EXTENDS Integers, FiniteSets

CONSTANTS
  Tasks,      \* identifiers of system_tasks rows
  Runners,    \* runner identifiers; NodeName plus 8 random characters, so a restart is a new one
  None,
  TTL,        \* systemTaskLockTTL in ticks
  MaxStall    \* bound: ticks a pass may take from reading the clock to its last statement

ASSUME NoneAssumption == None \notin Tasks \cup Runners
ASSUME StallAssumption ==
  /\ TTL \in Nat
  /\ MaxStall \in Nat
  /\ TTL > 0

VARIABLES
  status,     \* system_tasks.status, "absent" before the row exists
  lockedBy,   \* system_tasks.locked_by
  activeKey,  \* the task holding the unique active_key of the type, or None
  lock,       \* the system_task_locks row of the type, or NoLock
  alive,      \* the runner process has not crashed
  pc,         \* where the pass of a runner is
  target,     \* the task the pass works on
  snapBy,     \* cleanup: locked_by of the stale row that was read
  expired,    \* claim: task_id of the expired row that was taken over, or None
  age,        \* ticks since the pass read the clock
  job         \* [runner][task]: the goroutine executing a claimed task

taskVars == <<status, lockedBy, activeKey>>
passVars == <<pc, target, snapBy, expired, age>>
vars == <<taskVars, lock, alive, passVars, job>>

Terminal == {"succeeded", "failed"}
Statuses == {"absent", "pending", "running"} \cup Terminal
PassPCs == {"idle", "expireMark", "expireDelete", "claimAcquire", "claimMark", "claimRun"}
JobStates == {"none", "run", "cancelled", "release", "done"}

NoLock == [task |-> None, by |-> None, left |-> 0]
Leases == [task : Tasks, by : Runners, left : Int]

TypeOK ==
  /\ status \in [Tasks -> Statuses]
  /\ lockedBy \in [Tasks -> Runners \cup {None}]
  /\ activeKey \in Tasks \cup {None}
  /\ lock \in Leases \cup {NoLock}
  /\ alive \in [Runners -> BOOLEAN]
  /\ pc \in [Runners -> PassPCs]
  /\ target \in [Runners -> Tasks \cup {None}]
  /\ snapBy \in [Runners -> Runners \cup {None}]
  /\ expired \in [Runners -> Tasks \cup {None}]
  /\ age \in [Runners -> 0 .. MaxStall]
  /\ job \in [Runners -> [Tasks -> JobStates]]

Init ==
  /\ status = [t \in Tasks |-> "absent"]
  /\ lockedBy = [t \in Tasks |-> None]
  /\ activeKey = None
  /\ lock = NoLock
  /\ alive = [r \in Runners |-> TRUE]
  /\ pc = [r \in Runners |-> "idle"]
  /\ target = [r \in Runners |-> None]
  /\ snapBy = [r \in Runners |-> None]
  /\ expired = [r \in Runners |-> None]
  /\ age = [r \in Runners |-> 0]
  /\ job = [r \in Runners |-> [t \in Tasks |-> "none"]]

-----------------------------------------------------------------------------
(* Statements on the two tables. *)

\* The lock row names this task and this runner.
LockedFor(t, r) == lock.task = t /\ lock.by = r

\* The lease as a statement sees it whose clock reading is a ticks old.
LeaseValid(a) == lock.left >= -a

\* Mutant: the release blanks the owner instead of deleting the row.
ReleaseBlanksOwner(t, r) ==
  lock' = IF LockedFor(t, r) THEN [lock EXCEPT !.by = None] ELSE lock

ReleaseSystemTaskLock(t, r) ==
  lock' = IF LockedFor(t, r) THEN NoLock ELSE lock

\* Mutant: the failed task keeps its active_key.
MarkKeepsActiveKey(t) ==
  /\ status' = [status EXCEPT ![t] = IF @ = "running" THEN "failed" ELSE @]
  /\ UNCHANGED <<lockedBy, activeKey>>

MarkSystemTaskLeaseExpired(t) ==
  IF status[t] = "running"
  THEN /\ status' = [status EXCEPT ![t] = "failed"]
       /\ activeKey' = None
       /\ UNCHANGED lockedBy
  ELSE UNCHANGED taskVars

\* The pass returns: its local variables are gone.
PassReturns(r) ==
  /\ pc' = [pc EXCEPT ![r] = "idle"]
  /\ target' = [target EXCEPT ![r] = None]
  /\ snapBy' = [snapBy EXCEPT ![r] = None]
  /\ expired' = [expired EXCEPT ![r] = None]
  /\ age' = [age EXCEPT ![r] = 0]

-----------------------------------------------------------------------------
(* Creation. The active row is looked up first, but the unique active_key  *)
(* of the insert decides races. The scheduler's interval is abstracted: a  *)
(* scheduled task may become due at any time after the last one ended.     *)

GetActiveSystemTask == {t \in Tasks : status[t] \in {"pending", "running"}}

CreateSystemTask(t) ==
  /\ status[t] = "absent"
  /\ activeKey = None
  /\ status' = [status EXCEPT ![t] = "pending"]
  /\ activeKey' = t
  /\ UNCHANGED <<lockedBy, lock, alive, passVars, job>>

\* EnqueueSystemTask, and StartLogCleanupTask in the same form.
EnqueueSystemTask(t) == GetActiveSystemTask = {} /\ CreateSystemTask(t)

\* The scheduler is part of a runner's pass.
RunSystemTaskScheduler(r, t) ==
  /\ alive[r] /\ pc[r] = "idle"
  /\ GetActiveSystemTask = {}
  /\ CreateSystemTask(t)

-----------------------------------------------------------------------------
(* ExpireStaleSystemTaskLocks: read the stale rows, then for each mark the *)
(* task and delete the row.                                                *)

ExpireFind(r) ==
  /\ alive[r] /\ pc[r] = "idle"
  /\ lock # NoLock /\ ~LeaseValid(0)
  /\ pc' = [pc EXCEPT ![r] = "expireMark"]
  /\ target' = [target EXCEPT ![r] = lock.task]
  /\ snapBy' = [snapBy EXCEPT ![r] = lock.by]
  /\ UNCHANGED <<taskVars, lock, alive, expired, age, job>>

\* Mutant: the cleanup deletes stale rows without failing their tasks.
ExpireSkipsMark(r) ==
  /\ alive[r] /\ pc[r] = "expireMark"
  /\ pc' = [pc EXCEPT ![r] = "expireDelete"]
  /\ UNCHANGED <<taskVars, lock, alive, target, snapBy, expired, age, job>>

ExpireMark(r) ==
  /\ alive[r] /\ pc[r] = "expireMark"
  /\ MarkSystemTaskLeaseExpired(target[r])
  /\ pc' = [pc EXCEPT ![r] = "expireDelete"]
  /\ UNCHANGED <<lock, alive, target, snapBy, expired, age, job>>

\* Mutant: the delete does not test locked_until again.
ExpireDeleteUnchecked(r) ==
  /\ alive[r] /\ pc[r] = "expireDelete"
  /\ ReleaseSystemTaskLock(target[r], snapBy[r])
  /\ PassReturns(r)
  /\ UNCHANGED <<taskVars, alive, job>>

ExpireDelete(r) ==
  /\ alive[r] /\ pc[r] = "expireDelete"
  /\ lock' = IF LockedFor(target[r], snapBy[r]) /\ ~LeaseValid(age[r])
             THEN NoLock ELSE lock
  /\ PassReturns(r)
  /\ UNCHANGED <<taskVars, alive, job>>

\* The mark or the delete fails: the cleanup returns, the pass logs it.
ExpireError(r) ==
  /\ alive[r] /\ pc[r] \in {"expireMark", "expireDelete"}
  /\ PassReturns(r)
  /\ UNCHANGED <<taskVars, lock, alive, job>>

-----------------------------------------------------------------------------
(* runSystemTaskClaimPass and ClaimSystemTask. *)

ClaimFind(r) ==
  /\ alive[r] /\ pc[r] = "idle"
  /\ \E t \in Tasks :
       /\ status[t] = "pending"
       /\ target' = [target EXCEPT ![r] = t]
  /\ pc' = [pc EXCEPT ![r] = "claimAcquire"]
  /\ UNCHANGED <<taskVars, lock, alive, snapBy, expired, age, job>>

\* Mutant: a lease that ends this very second counts as expired.
ClaimAcquireOffByOne(r) ==
  /\ alive[r] /\ pc[r] = "claimAcquire"
  /\ IF lock = NoLock \/ lock.left <= -age[r]
     THEN /\ lock' = [task |-> target[r], by |-> r, left |-> TTL - age[r]]
          /\ expired' = [expired EXCEPT ![r] = lock.task]
          /\ pc' = [pc EXCEPT ![r] = "claimMark"]
          /\ UNCHANGED <<target, snapBy, age>>
     ELSE /\ PassReturns(r)
          /\ UNCHANGED lock
  /\ UNCHANGED <<taskVars, alive, job>>

\* acquireSystemTaskLock: insert the row, or take over an expired one.
ClaimAcquire(r) ==
  /\ alive[r] /\ pc[r] = "claimAcquire"
  /\ IF lock = NoLock \/ ~LeaseValid(age[r])
     THEN /\ lock' = [task |-> target[r], by |-> r, left |-> TTL - age[r]]
          /\ expired' = [expired EXCEPT ![r] = lock.task]
          /\ pc' = [pc EXCEPT ![r] = "claimMark"]
          /\ UNCHANGED <<target, snapBy, age>>
     ELSE /\ PassReturns(r)
          /\ UNCHANGED lock
  /\ UNCHANGED <<taskVars, alive, job>>

ClaimMark(r) ==
  /\ alive[r] /\ pc[r] = "claimMark"
  /\ IF expired[r] \notin {None, target[r]}
     THEN MarkSystemTaskLeaseExpired(expired[r])
     ELSE UNCHANGED taskVars
  /\ pc' = [pc EXCEPT ![r] = "claimRun"]
  /\ UNCHANGED <<lock, alive, target, snapBy, expired, age, job>>

\* Mutant: the update does not test that the row is still pending.
ClaimRunUnchecked(r) ==
  /\ alive[r] /\ pc[r] = "claimRun"
  /\ status' = [status EXCEPT ![target[r]] = "running"]
  /\ lockedBy' = [lockedBy EXCEPT ![target[r]] = r]
  /\ job' = [job EXCEPT ![r][target[r]] = "run"]
  /\ PassReturns(r)
  /\ UNCHANGED <<activeKey, lock, alive>>

\* The compare-and-set pending -> running. When it wins, the row is read back
\* and the handler dispatched; that read may fail, and then nothing is.
ClaimRun(r) ==
  /\ alive[r] /\ pc[r] = "claimRun"
  /\ LET t == target[r] IN
     IF status[t] = "pending"
     THEN /\ status' = [status EXCEPT ![t] = "running"]
          /\ lockedBy' = [lockedBy EXCEPT ![t] = r]
          /\ job' \in {job, [job EXCEPT ![r][t] = "run"]}
          /\ UNCHANGED <<activeKey, lock>>
     ELSE /\ ReleaseSystemTaskLock(t, r)
          /\ UNCHANGED <<taskVars, job>>
  /\ PassReturns(r)
  /\ UNCHANGED alive

\* A statement of the claim fails: the lock is released, and the error of
\* the release itself is dropped.
ClaimError(r) ==
  /\ alive[r]
  /\ \/ pc[r] = "claimMark" /\ expired[r] \notin {None, target[r]}
     \/ pc[r] = "claimRun"
  /\ ReleaseSystemTaskLock(target[r], r) \/ UNCHANGED lock
  /\ PassReturns(r)
  /\ UNCHANGED <<taskVars, alive, job>>

-----------------------------------------------------------------------------
(* The claimed task: runWithLeaseHeartbeat around the handler. Their       *)
(* statements read the clock themselves, at most MaxStall ticks before the *)
(* database executes them.                                                 *)

SetJob(r, t, s) == job' = [job EXCEPT ![r][t] = s]

\* RenewSystemTaskLock succeeds; the heartbeat stops when the handler returns.
Heartbeat(r, t) ==
  /\ alive[r] /\ job[r][t] \in {"run", "release"}
  /\ LockedFor(t, r)
  /\ \E a \in 0 .. MaxStall :
       /\ LeaseValid(a)
       /\ TTL - a >= lock.left   \* read after the claim and the last renewal did
       /\ lock' = [lock EXCEPT !.left = TTL - a]
  /\ UNCHANGED <<taskVars, alive, passVars, job>>

\* The renewal fails (lock lost or database error): the context is cancelled.
HeartbeatFails(r, t) ==
  /\ alive[r] /\ job[r][t] = "run"
  /\ SetJob(r, t, "cancelled")
  /\ UNCHANGED <<taskVars, lock, alive, passVars>>

\* FinishSystemTask: guarded update of the row, then the release.
Finish(r, t) ==
  /\ alive[r] /\ job[r][t] \in {"run", "cancelled"}
  /\ \E s \in Terminal, a \in 0 .. MaxStall :
       IF /\ status[t] = "running" /\ lockedBy[t] = r
          /\ LockedFor(t, r) /\ LeaseValid(a)
       THEN /\ status' = [status EXCEPT ![t] = s]
            /\ activeKey' = None
            /\ SetJob(r, t, "release")
            /\ UNCHANGED lockedBy
       ELSE /\ SetJob(r, t, "done")
            /\ UNCHANGED taskVars
  /\ UNCHANGED <<lock, alive, passVars>>

FinishRelease(r, t) ==
  /\ alive[r] /\ job[r][t] = "release"
  /\ ReleaseSystemTaskLock(t, r)
  /\ SetJob(r, t, "done")
  /\ UNCHANGED <<taskVars, alive, passVars>>

\* UpdateSystemTaskState or FinishSystemTask returns an error: the handler
\* logs it and returns with the row as it is.
HandlerGivesUp(r, t) ==
  /\ alive[r] /\ job[r][t] \in {"run", "cancelled", "release"}
  /\ SetJob(r, t, "done")
  /\ UNCHANGED <<taskVars, lock, alive, passVars>>

-----------------------------------------------------------------------------
(* The environment. *)

\* Nothing runs further on r. The last runner stays: a dead cluster recovers nothing.
Crash(r) ==
  /\ alive[r] /\ \E q \in Runners \ {r} : alive[q]
  /\ alive' = [alive EXCEPT ![r] = FALSE]
  /\ job' = [job EXCEPT ![r] = [t \in Tasks |-> IF job[r][t] = "none" THEN "none" ELSE "done"]]
  /\ PassReturns(r)
  /\ UNCHANGED <<taskVars, lock>>

Tick ==
  /\ \A r \in Runners : pc[r] # "idle" => age[r] < MaxStall
  /\ age' = [r \in Runners |-> IF pc[r] = "idle" THEN 0 ELSE age[r] + 1]
  /\ lock' = IF lock # NoLock /\ lock.left >= -MaxStall
             THEN [lock EXCEPT !.left = @ - 1] ELSE lock
  /\ UNCHANGED <<taskVars, alive, pc, target, snapBy, expired, job>>

PassProgress(r) ==
  \/ ExpireFind(r) \/ ExpireMark(r) \/ ExpireDelete(r)
  \/ ClaimFind(r) \/ ClaimAcquire(r) \/ ClaimMark(r) \/ ClaimRun(r)

PassStep(r) == PassProgress(r) \/ ExpireError(r) \/ ClaimError(r)

JobStep(r, t) ==
  \/ Heartbeat(r, t) \/ HeartbeatFails(r, t)
  \/ Finish(r, t) \/ FinishRelease(r, t) \/ HandlerGivesUp(r, t)

Next ==
  \/ \E t \in Tasks : EnqueueSystemTask(t)
  \/ \E r \in Runners, t \in Tasks : RunSystemTaskScheduler(r, t)
  \/ \E r \in Runners : PassStep(r)
  \/ \E r \in Runners, t \in Tasks : JobStep(r, t)
  \/ \E r \in Runners : Crash(r)
  \/ Tick

Spec == Init /\ [][Next]_vars

(***************************************************************************)
(* Fairness: the ticker and the wakeups keep a live runner in its pass,    *)
(* a statement of the cleanup and the compare-and-set of a claim do not    *)
(* fail with a database error every time they are tried, a handler ends,   *)
(* time goes on.                                                           *)
(***************************************************************************)
Fairness ==
  /\ \A r \in Runners :
       /\ WF_vars(PassProgress(r))
       /\ SF_vars(ClaimRun(r))
       /\ \A t \in Tasks : WF_vars(Finish(r, t) \/ FinishRelease(r, t))
  /\ SF_vars(\E r \in Runners : ExpireMark(r))
  /\ SF_vars(\E r \in Runners : ExpireDelete(r))
  /\ WF_vars(Tick)

FairSpec == Spec /\ Fairness

-----------------------------------------------------------------------------
(* Properties. *)

\* No task is executed twice: over all runners, crashes and takeovers, the
\* handler of a task is dispatched at most once (ClaimSystemTask's
\* compare-and-set is the only door to gopool.Go).
ExecutedAtMostOnce ==
  \A t \in Tasks : \A r, q \in Runners :
    job[r][t] # "none" /\ job[q][t] # "none" => r = q

\* A running task always has the lock row that its recovery goes through:
\* ExpireStaleSystemTaskLocks finds stuck tasks by their lock row alone, so a
\* running task without one would hold the active_key of its type forever.
RunningIsLeased ==
  \A t \in Tasks : status[t] = "running" => LockedFor(t, lockedBy[t])

\* The active_key of the type is held exactly while a task is pending or
\* running: never leaked by a task that ended, never lost by one that has not.
ActiveKeyIsExact ==
  \A t \in Tasks : status[t] \in {"pending", "running"} <=> activeKey = t

\* A handler is dispatched under an unexpired lease of its own, and while
\* another runner's handler of the type still runs only if that one has lost
\* its lease.
StartsAreLeased ==
  [][\A r \in Runners, t \in Tasks :
       job[r][t] = "none" /\ job'[r][t] = "run" =>
         /\ LockedFor(t, r) /\ LeaseValid(0)
         /\ \A q \in Runners, u \in Tasks :
              q # r /\ job[q][u] = "run" => ~LockedFor(u, q)]_vars

\* Every task ends: whatever crashes, the leases run out and a live runner
\* executes the task or marks it failed.
EveryTaskEnds ==
  \A t \in Tasks : status[t] = "pending" ~> status[t] \in Terminal

=============================================================================
