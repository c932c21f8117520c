-------------------------- MODULE SystemTaskProofs --------------------------
(***************************************************************************)
(* Proofs about SystemTask for every set of tasks and runners and every    *)
(* lease length, provided a pass ends within one lease (StallBound).       *)
(***************************************************************************)
EXTENDS SystemTask, TLAPS

\* A pass executes its last statement within one lease of reading the clock.
StallBound == MaxStall <= TTL

ClaimPCs == {"claimAcquire", "claimMark", "claimRun"}

\* What the pass holds in its locals while it is under way.
PassLocals ==
  \A r \in Runners :
    /\ pc[r] \in ClaimPCs =>
         /\ target[r] \in Tasks
         /\ status[target[r]] # "absent"
         /\ job[r][target[r]] = "none"
         /\ lockedBy[target[r]] # r
    /\ pc[r] \in {"expireMark", "expireDelete"} => target[r] \in Tasks

\* A runner past acquireSystemTaskLock still holds the lease it wrote.
ClaimHolds ==
  \A r \in Runners :
    pc[r] \in {"claimMark", "claimRun"} =>
      LockedFor(target[r], r) /\ lock.left >= TTL - age[r]

\* A task that nobody claimed names no runner; a dispatched one names its own.
ClaimedOnce ==
  /\ \A t \in Tasks : status[t] \in {"absent", "pending"} => lockedBy[t] = None
  /\ \A t \in Tasks : status[t] = "running" => lockedBy[t] \in Runners
  /\ \A r \in Runners, t \in Tasks :
       job[r][t] # "none" => lockedBy[t] = r /\ status[t] \notin {"absent", "pending"}
  /\ \A r \in Runners, t \in Tasks : job[r][t] = "release" => status[t] # "running"

\* A claim that found its task pending cannot take the lock over from a task
\* that started after it looked.
StaleClaimIsHarmless ==
  \A r \in Runners, t \in Tasks :
    pc[r] = "claimAcquire" /\ status[t] = "running" => lock.left >= -age[r]

\* The row that the cleanup is about to delete is not that of a running task.
CleanupIsHarmless ==
  \A r \in Runners :
    /\ pc[r] = "expireDelete"
    /\ LockedFor(target[r], snapBy[r])
    /\ lock.left < -age[r]
    => status[target[r]] # "running"

IInv ==
  /\ TypeOK
  /\ ActiveKeyIsExact
  /\ RunningIsLeased
  /\ PassLocals
  /\ ClaimHolds
  /\ ClaimedOnce
  /\ StaleClaimIsHarmless
  /\ CleanupIsHarmless

-----------------------------------------------------------------------------

\* The empty tables satisfy the inductive invariant.
LEMMA InitIInv == Init => IInv
  BY NoneAssumption, StallAssumption
  DEF Init, IInv, TypeOK, ActiveKeyIsExact, RunningIsLeased, PassLocals, ClaimHolds, ClaimedOnce,
      StaleClaimIsHarmless, CleanupIsHarmless, Statuses, Terminal, PassPCs, JobStates, ClaimPCs

\* Every statement of a pass, of a handler or of its heartbeat, a crash and the
\* passage of time preserve the inductive invariant.
LEMMA StepIInv == ASSUME StallBound, IInv, [Next]_vars PROVE IInv'
<1> USE NoneAssumption, StallAssumption DEF StallBound, IInv, taskVars, passVars
<1> USE DEF Terminal, ClaimPCs
<1>1. ASSUME NEW t \in Tasks, CreateSystemTask(t) PROVE IInv'
  <2>1. TypeOK'
    BY <1>1 DEF CreateSystemTask, TypeOK, Statuses, PassPCs, JobStates, Leases, NoLock
  <2>2. ActiveKeyIsExact'
    BY <1>1 DEF CreateSystemTask, TypeOK, ActiveKeyIsExact
  <2>3. RunningIsLeased'
    BY <1>1 DEF CreateSystemTask, TypeOK, RunningIsLeased, LockedFor, Leases, NoLock
  <2>4. PassLocals'
    BY <1>1 DEF CreateSystemTask, TypeOK, PassLocals
  <2>5. ClaimedOnce'
    BY <1>1 DEF CreateSystemTask, TypeOK, ClaimedOnce
  <2>6. StaleClaimIsHarmless'
    BY <1>1 DEF CreateSystemTask, TypeOK, StaleClaimIsHarmless, Leases, NoLock
  <2>7. CleanupIsHarmless'
    BY <1>1 DEF CreateSystemTask, TypeOK, CleanupIsHarmless, LockedFor, Leases, NoLock
  <2>8. ClaimHolds'
    BY <1>1 DEF CreateSystemTask, ClaimHolds, LockedFor
  <2> QED BY <2>1, <2>2, <2>3, <2>4, <2>5, <2>6, <2>7, <2>8
<1>2. ASSUME NEW r \in Runners, ExpireFind(r) PROVE IInv'
  <2>1. TypeOK'
    BY <1>2 DEF ExpireFind, LeaseValid, TypeOK, Statuses, PassPCs, JobStates, Leases, NoLock
  <2>2. PassLocals'
    BY <1>2 DEF ExpireFind, LeaseValid, TypeOK, PassLocals, Leases, NoLock
  <2>3. ClaimHolds'
    BY <1>2 DEF ExpireFind, LeaseValid, TypeOK, ClaimHolds, LockedFor, Leases, NoLock
  <2>4. StaleClaimIsHarmless'
    BY <1>2 DEF ExpireFind, LeaseValid, TypeOK, StaleClaimIsHarmless, Leases, NoLock
  <2>5. CleanupIsHarmless'
    BY <1>2 DEF ExpireFind, LeaseValid, TypeOK, CleanupIsHarmless, LockedFor, Leases, NoLock
  <2>6. ActiveKeyIsExact' /\ RunningIsLeased' /\ ClaimedOnce'
    BY <1>2 DEF ExpireFind, ActiveKeyIsExact, RunningIsLeased, ClaimedOnce, LockedFor
  <2> QED BY <2>1, <2>2, <2>3, <2>4, <2>5, <2>6
<1>3. ASSUME NEW r \in Runners, ExpireMark(r) PROVE IInv'
  <2>1. TypeOK'
    BY <1>3 DEF ExpireMark, MarkSystemTaskLeaseExpired, TypeOK, Statuses, PassPCs, JobStates, Leases, NoLock
  <2>2. ActiveKeyIsExact'
    BY <1>3 DEF ExpireMark, MarkSystemTaskLeaseExpired, TypeOK, ActiveKeyIsExact, PassLocals
  <2>3. RunningIsLeased'
    BY <1>3 DEF ExpireMark, MarkSystemTaskLeaseExpired, TypeOK, RunningIsLeased, LockedFor, Leases, NoLock
  <2>4. PassLocals'
    BY <1>3 DEF ExpireMark, MarkSystemTaskLeaseExpired, TypeOK, PassLocals
  <2>5. ClaimHolds'
    BY <1>3 DEF ExpireMark, MarkSystemTaskLeaseExpired, TypeOK, ClaimHolds, LockedFor, Leases, NoLock
  <2>6. ClaimedOnce'
    BY <1>3 DEF ExpireMark, MarkSystemTaskLeaseExpired, TypeOK, ClaimedOnce, PassLocals, Statuses, JobStates
  <2>7. StaleClaimIsHarmless'
    BY <1>3 DEF ExpireMark, MarkSystemTaskLeaseExpired, TypeOK, StaleClaimIsHarmless, Leases, NoLock
  <2>8. CleanupIsHarmless'
    BY <1>3 DEF ExpireMark, MarkSystemTaskLeaseExpired, TypeOK, CleanupIsHarmless, LockedFor, Leases, NoLock
  <2> QED BY <2>1, <2>2, <2>3, <2>4, <2>5, <2>6, <2>7, <2>8
<1>4. ASSUME NEW r \in Runners, ExpireDelete(r) PROVE IInv'
  <2>1. TypeOK'
    BY <1>4 DEF ExpireDelete, PassReturns, LockedFor, LeaseValid, TypeOK, Statuses, PassPCs, JobStates, Leases, NoLock
  <2>2. RunningIsLeased'
    BY <1>4 DEF ExpireDelete, PassReturns, LockedFor, LeaseValid, TypeOK, RunningIsLeased, Leases, NoLock, CleanupIsHarmless, PassLocals
  <2>3. PassLocals'
    BY <1>4 DEF ExpireDelete, PassReturns, LockedFor, LeaseValid, TypeOK, PassLocals
  <2>4. ClaimHolds'
    BY <1>4 DEF ExpireDelete, PassReturns, LockedFor, LeaseValid, TypeOK, ClaimHolds, Leases, NoLock
  <2>5. StaleClaimIsHarmless'
    BY <1>4 DEF ExpireDelete, PassReturns, LockedFor, LeaseValid, TypeOK, StaleClaimIsHarmless, Leases, NoLock
  <2>6. CleanupIsHarmless'
    BY <1>4 DEF ExpireDelete, PassReturns, LockedFor, LeaseValid, TypeOK, CleanupIsHarmless, Leases, NoLock
  <2>7. ActiveKeyIsExact' /\ ClaimedOnce'
    BY <1>4 DEF ExpireDelete, ActiveKeyIsExact, ClaimedOnce
  <2> QED BY <2>1, <2>2, <2>3, <2>4, <2>5, <2>6, <2>7
<1>5. ASSUME NEW r \in Runners, ClaimFind(r) PROVE IInv'
  <2>1. TypeOK'
    BY <1>5 DEF ClaimFind, TypeOK, Statuses, PassPCs, JobStates, Leases, NoLock
  <2>2. PassLocals'
    BY <1>5 DEF ClaimFind, TypeOK, PassLocals, ClaimedOnce
  <2>3. ClaimHolds'
    BY <1>5 DEF ClaimFind, TypeOK, ClaimHolds, LockedFor, Leases, NoLock
  <2>4. StaleClaimIsHarmless'
    BY <1>5 DEF ClaimFind, TypeOK, StaleClaimIsHarmless, Leases, NoLock, ActiveKeyIsExact
  <2>5. CleanupIsHarmless'
    BY <1>5 DEF ClaimFind, TypeOK, CleanupIsHarmless, LockedFor, Leases, NoLock
  <2>6. ActiveKeyIsExact' /\ RunningIsLeased' /\ ClaimedOnce'
    BY <1>5 DEF ClaimFind, ActiveKeyIsExact, RunningIsLeased, ClaimedOnce, LockedFor
  <2> QED BY <2>1, <2>2, <2>3, <2>4, <2>5, <2>6
<1>6. ASSUME NEW r \in Runners, ClaimAcquire(r) PROVE IInv'
  <2>1. TypeOK'
    <3>1. lock' \in Leases \cup {NoLock}
      BY <1>6 DEF ClaimAcquire, TypeOK, PassLocals, Leases
    <3>2. lock.task \in Tasks \cup {None}
      BY DEF TypeOK, Leases, NoLock
    <3>3. expired' \in [Runners -> Tasks \cup {None}]
      BY <3>2, <1>6 DEF ClaimAcquire, PassReturns, TypeOK
    <3>4. /\ pc' \in [Runners -> PassPCs]
          /\ target' \in [Runners -> Tasks \cup {None}]
          /\ snapBy' \in [Runners -> Runners \cup {None}]
          /\ age' \in [Runners -> 0 .. MaxStall]
      <4>1. CASE PassReturns(r)
        BY <4>1 DEF PassReturns, TypeOK, PassPCs
      <4>2. CASE pc' = [pc EXCEPT ![r] = "claimMark"] /\ UNCHANGED <<target, snapBy, age>>
        BY <4>2 DEF TypeOK, PassPCs
      <4> QED BY <4>1, <4>2, <1>6 DEF ClaimAcquire
    <3> QED BY <3>1, <3>3, <3>4, <1>6 DEF ClaimAcquire, TypeOK
  <2>2. RunningIsLeased'
    BY <1>6 DEF ClaimAcquire, PassReturns, LeaseValid, TypeOK, RunningIsLeased, LockedFor, Leases, NoLock, StaleClaimIsHarmless, ClaimedOnce
  <2>3. PassLocals'
    BY <1>6 DEF ClaimAcquire, PassReturns, LeaseValid, TypeOK, PassLocals, Leases, NoLock
  <2>4. ClaimHolds'
    BY <1>6 DEF ClaimAcquire, PassReturns, LeaseValid, TypeOK, ClaimHolds, LockedFor, Leases, NoLock
  <2>5. StaleClaimIsHarmless'
    BY <1>6 DEF ClaimAcquire, PassReturns, LeaseValid, TypeOK, StaleClaimIsHarmless, Leases, NoLock
  <2>6. CleanupIsHarmless'
    BY <1>6 DEF ClaimAcquire, PassReturns, LeaseValid, TypeOK, CleanupIsHarmless, LockedFor, Leases, NoLock
  <2>7. ActiveKeyIsExact' /\ ClaimedOnce'
    BY <1>6 DEF ClaimAcquire, ActiveKeyIsExact, ClaimedOnce
  <2> QED BY <2>1, <2>2, <2>3, <2>4, <2>5, <2>6, <2>7
<1>7. ASSUME NEW r \in Runners, ClaimMark(r) PROVE IInv'
  <2>1. TypeOK'
    BY <1>7 DEF ClaimMark, MarkSystemTaskLeaseExpired, TypeOK, Statuses, PassPCs, JobStates, Leases, NoLock
  <2>2. ActiveKeyIsExact'
    BY <1>7 DEF ClaimMark, MarkSystemTaskLeaseExpired, TypeOK, ActiveKeyIsExact
  <2>3. RunningIsLeased'
    BY <1>7 DEF ClaimMark, MarkSystemTaskLeaseExpired, TypeOK, RunningIsLeased, LockedFor, Leases, NoLock
  <2>4. PassLocals'
    BY <1>7 DEF ClaimMark, MarkSystemTaskLeaseExpired, TypeOK, PassLocals
  <2>5. ClaimHolds'
    BY <1>7 DEF ClaimMark, MarkSystemTaskLeaseExpired, TypeOK, ClaimHolds, LockedFor, Leases, NoLock
  <2>6. ClaimedOnce'
    BY <1>7 DEF ClaimMark, MarkSystemTaskLeaseExpired, TypeOK, ClaimedOnce, Statuses, JobStates
  <2>7. StaleClaimIsHarmless'
    BY <1>7 DEF ClaimMark, MarkSystemTaskLeaseExpired, TypeOK, StaleClaimIsHarmless, Leases, NoLock
  <2>8. CleanupIsHarmless'
    BY <1>7 DEF ClaimMark, MarkSystemTaskLeaseExpired, TypeOK, CleanupIsHarmless, LockedFor, Leases, NoLock
  <2> QED BY <2>1, <2>2, <2>3, <2>4, <2>5, <2>6, <2>7, <2>8
<1>8. ASSUME NEW r \in Runners, ClaimRun(r) PROVE IInv'
  <2>1. TypeOK'
    <3>1. target[r] \in Tasks
      BY <1>8 DEF ClaimRun, PassLocals
    <3>2. [job EXCEPT ![r][target[r]] = "run"] \in [Runners -> [Tasks -> JobStates]]
      BY <3>1 DEF TypeOK, JobStates
    <3>3. job' \in [Runners -> [Tasks -> JobStates]]
      BY <3>2, <1>8 DEF ClaimRun, TypeOK
    <3>4. lock' \in Leases \cup {NoLock}
      BY <1>8 DEF ClaimRun, ReleaseSystemTaskLock, TypeOK
    <3>5. /\ status' \in [Tasks -> Statuses]
          /\ lockedBy' \in [Tasks -> Runners \cup {None}]
          /\ activeKey' \in Tasks \cup {None}
      <4>1. CASE status[target[r]] = "pending"
        <5>1. /\ status' = [status EXCEPT ![target[r]] = "running"]
              /\ lockedBy' = [lockedBy EXCEPT ![target[r]] = r]
              /\ activeKey' = activeKey
          BY <4>1, <1>8 DEF ClaimRun
        <5> QED BY <3>1, <5>1 DEF TypeOK, Statuses
      <4>2. CASE status[target[r]] # "pending"
        BY <4>2, <1>8 DEF ClaimRun, TypeOK
      <4> QED BY <4>1, <4>2
    <3>6. /\ pc' \in [Runners -> PassPCs]
          /\ target' \in [Runners -> Tasks \cup {None}]
          /\ snapBy' \in [Runners -> Runners \cup {None}]
          /\ expired' \in [Runners -> Tasks \cup {None}]
          /\ age' \in [Runners -> 0 .. MaxStall]
      BY <1>8 DEF ClaimRun, PassReturns, TypeOK, PassPCs
    <3> QED BY <3>3, <3>4, <3>5, <3>6, <1>8 DEF ClaimRun, TypeOK
  <2>2. ActiveKeyIsExact'
    BY <1>8 DEF ClaimRun, PassReturns, ReleaseSystemTaskLock, LockedFor, TypeOK, ActiveKeyIsExact
  <2>3. RunningIsLeased'
    BY <1>8 DEF ClaimRun, PassReturns, ReleaseSystemTaskLock, LockedFor, TypeOK, RunningIsLeased, Leases, NoLock, PassLocals, ClaimHolds, ClaimedOnce, ActiveKeyIsExact
  <2>4. PassLocals'
    BY <1>8 DEF ClaimRun, PassReturns, ReleaseSystemTaskLock, LockedFor, TypeOK, PassLocals
  <2>5. ClaimHolds'
    BY <1>8 DEF ClaimRun, PassReturns, ReleaseSystemTaskLock, LockedFor, TypeOK, ClaimHolds, Leases, NoLock
  <2>6. ClaimedOnce'
    <3>1. target[r] \in Tasks
      BY <1>8 DEF ClaimRun, PassLocals
    <3>2. CASE status[target[r]] # "pending"
      BY <3>1, <3>2, <1>8 DEF ClaimRun, ClaimedOnce
    <3>3. CASE status[target[r]] = "pending"
      <4>1. /\ status' = [status EXCEPT ![target[r]] = "running"]
            /\ lockedBy' = [lockedBy EXCEPT ![target[r]] = r]
        BY <3>3, <1>8 DEF ClaimRun
      <4>2. \A q \in Runners, t \in Tasks :
              \/ job'[q][t] = job[q][t]
              \/ q = r /\ t = target[r] /\ job'[q][t] = "run"
        BY <3>1, <3>3, <1>8 DEF ClaimRun, TypeOK
      <4> QED BY <3>1, <3>3, <4>1, <4>2 DEF ClaimedOnce, TypeOK
    <3> QED BY <3>2, <3>3
  <2>7. StaleClaimIsHarmless'
    BY <1>8 DEF ClaimRun, PassReturns, ReleaseSystemTaskLock, LockedFor, TypeOK, StaleClaimIsHarmless, Leases, NoLock, ClaimHolds
  <2>8. CleanupIsHarmless'
    BY <1>8 DEF ClaimRun, PassReturns, ReleaseSystemTaskLock, LockedFor, TypeOK, CleanupIsHarmless, Leases, NoLock, ClaimHolds, PassLocals
  <2> QED BY <2>1, <2>2, <2>3, <2>4, <2>5, <2>6, <2>7, <2>8
<1>9. ASSUME NEW r \in Runners, ClaimError(r) PROVE IInv'
  <2>1. TypeOK'
    BY <1>9 DEF ClaimError, PassReturns, ReleaseSystemTaskLock, LockedFor, TypeOK, Statuses, PassPCs, JobStates, Leases, NoLock
  <2>2. RunningIsLeased'
    BY <1>9 DEF ClaimError, PassReturns, ReleaseSystemTaskLock, LockedFor, TypeOK, RunningIsLeased, Leases, NoLock, PassLocals, ClaimHolds, ClaimedOnce
  <2>3. PassLocals'
    BY <1>9 DEF ClaimError, PassReturns, ReleaseSystemTaskLock, LockedFor, TypeOK, PassLocals
  <2>4. ClaimHolds'
    BY <1>9 DEF ClaimError, PassReturns, ReleaseSystemTaskLock, LockedFor, TypeOK, ClaimHolds, Leases, NoLock
  <2>5. StaleClaimIsHarmless'
    BY <1>9 DEF ClaimError, PassReturns, ReleaseSystemTaskLock, LockedFor, TypeOK, StaleClaimIsHarmless, Leases, NoLock
  <2>6. CleanupIsHarmless'
    BY <1>9 DEF ClaimError, PassReturns, ReleaseSystemTaskLock, LockedFor, TypeOK, CleanupIsHarmless, Leases, NoLock
  <2>7. ActiveKeyIsExact' /\ ClaimedOnce'
    BY <1>9 DEF ClaimError, ActiveKeyIsExact, ClaimedOnce
  <2> QED BY <2>1, <2>2, <2>3, <2>4, <2>5, <2>6, <2>7
<1>10. ASSUME NEW r \in Runners, NEW t \in Tasks, Heartbeat(r, t) PROVE IInv'
  <2>1. TypeOK'
    BY <1>10 DEF Heartbeat, LockedFor, LeaseValid, TypeOK, Statuses, PassPCs, JobStates, Leases, NoLock
  <2>2. RunningIsLeased'
    BY <1>10 DEF Heartbeat, LockedFor, LeaseValid, TypeOK, RunningIsLeased, Leases, NoLock
  <2>3. ClaimHolds'
    BY <1>10 DEF Heartbeat, LockedFor, LeaseValid, TypeOK, ClaimHolds, Leases, NoLock
  <2>4. StaleClaimIsHarmless'
    BY <1>10 DEF Heartbeat, LockedFor, LeaseValid, TypeOK, StaleClaimIsHarmless, Leases, NoLock
  <2>5. CleanupIsHarmless'
    BY <1>10 DEF Heartbeat, LockedFor, LeaseValid, TypeOK, CleanupIsHarmless, Leases, NoLock
  <2>6. ActiveKeyIsExact' /\ PassLocals' /\ ClaimedOnce'
    BY <1>10 DEF Heartbeat, ActiveKeyIsExact, PassLocals, ClaimedOnce
  <2> QED BY <2>1, <2>2, <2>3, <2>4, <2>5, <2>6
<1>11. ASSUME NEW r \in Runners, NEW t \in Tasks, HeartbeatFails(r, t) PROVE IInv'
  <2>1. TypeOK'
    BY <1>11 DEF HeartbeatFails, SetJob, TypeOK, Statuses, PassPCs, JobStates, Leases, NoLock
  <2>2. PassLocals'
    BY <1>11 DEF HeartbeatFails, SetJob, TypeOK, PassLocals
  <2>3. ClaimedOnce'
    BY <1>11 DEF HeartbeatFails, SetJob, TypeOK, ClaimedOnce
  <2>4. ActiveKeyIsExact' /\ RunningIsLeased' /\ ClaimHolds' /\ StaleClaimIsHarmless' /\ CleanupIsHarmless'
    BY <1>11 DEF HeartbeatFails, SetJob, ActiveKeyIsExact, RunningIsLeased, ClaimHolds, StaleClaimIsHarmless, CleanupIsHarmless, LockedFor
  <2> QED BY <2>1, <2>2, <2>3, <2>4
<1>12. ASSUME NEW r \in Runners, NEW t \in Tasks, Finish(r, t) PROVE IInv'
  <2>1. TypeOK'
    <3>1. \A s \in {"release", "done"} : [job EXCEPT ![r][t] = s] \in [Runners -> [Tasks -> JobStates]]
      BY DEF TypeOK, JobStates
    <3>2. job' \in [Runners -> [Tasks -> JobStates]]
      BY <3>1, <1>12 DEF Finish, SetJob
    <3> QED BY <3>2, <1>12 DEF Finish, TypeOK, Statuses
  <2>2. ActiveKeyIsExact'
    BY <1>12 DEF Finish, SetJob, LockedFor, LeaseValid, TypeOK, ActiveKeyIsExact
  <2>3. RunningIsLeased'
    BY <1>12 DEF Finish, SetJob, LockedFor, LeaseValid, TypeOK, RunningIsLeased, Leases, NoLock
  <2>4. PassLocals'
    BY <1>12 DEF Finish, SetJob, LockedFor, LeaseValid, TypeOK, PassLocals
  <2>5. ClaimedOnce'
    <3>1. lockedBy' = lockedBy /\ job[r][t] # "none"
      BY <1>12 DEF Finish
    <3>2. \/ /\ status[t] = "running"
             /\ \E s \in Terminal : status' = [status EXCEPT ![t] = s]
             /\ job' = [job EXCEPT ![r][t] = "release"]
          \/ /\ status' = status
             /\ job' = [job EXCEPT ![r][t] = "done"]
      BY <1>12 DEF Finish, SetJob
    <3>3. \A q \in Runners, u \in Tasks :
            \/ job'[q][u] = job[q][u]
            \/ q = r /\ u = t /\ job'[q][u] = "done"
            \/ q = r /\ u = t /\ job'[q][u] = "release" /\ status'[t] \in Terminal
      BY <3>2 DEF TypeOK
    <3>4. \A u \in Tasks : status'[u] # status[u] => status[u] = "running" /\ status'[u] \in Terminal
      BY <3>2 DEF TypeOK
    <3> QED BY <3>1, <3>3, <3>4 DEF ClaimedOnce
  <2>6. StaleClaimIsHarmless'
    BY <1>12 DEF Finish, SetJob, LockedFor, LeaseValid, TypeOK, StaleClaimIsHarmless, Leases, NoLock
  <2>7. CleanupIsHarmless'
    BY <1>12 DEF Finish, SetJob, LockedFor, LeaseValid, TypeOK, CleanupIsHarmless, Leases, NoLock
  <2>8. ClaimHolds'
    BY <1>12 DEF Finish, SetJob, ClaimHolds, LockedFor
  <2> QED BY <2>1, <2>2, <2>3, <2>4, <2>5, <2>6, <2>7, <2>8
<1>13. ASSUME NEW r \in Runners, NEW t \in Tasks, FinishRelease(r, t) PROVE IInv'
  <2>1. TypeOK'
    BY <1>13 DEF FinishRelease, SetJob, ReleaseSystemTaskLock, LockedFor, TypeOK, Statuses, PassPCs, JobStates, Leases, NoLock
  <2>2. RunningIsLeased'
    BY <1>13 DEF FinishRelease, SetJob, ReleaseSystemTaskLock, LockedFor, TypeOK, RunningIsLeased, Leases, NoLock, ClaimedOnce
  <2>3. PassLocals'
    BY <1>13 DEF FinishRelease, SetJob, ReleaseSystemTaskLock, LockedFor, TypeOK, PassLocals
  <2>4. ClaimHolds'
    BY <1>13 DEF FinishRelease, SetJob, ReleaseSystemTaskLock, LockedFor, TypeOK, ClaimHolds, Leases, NoLock, PassLocals, ClaimedOnce
  <2>5. ClaimedOnce'
    BY <1>13 DEF FinishRelease, SetJob, ReleaseSystemTaskLock, LockedFor, TypeOK, ClaimedOnce
  <2>6. StaleClaimIsHarmless'
    BY <1>13 DEF FinishRelease, SetJob, ReleaseSystemTaskLock, LockedFor, TypeOK, StaleClaimIsHarmless, Leases, NoLock
  <2>7. CleanupIsHarmless'
    BY <1>13 DEF FinishRelease, SetJob, ReleaseSystemTaskLock, LockedFor, TypeOK, CleanupIsHarmless, Leases, NoLock
  <2>8. ActiveKeyIsExact'
    BY <1>13 DEF FinishRelease, ActiveKeyIsExact
  <2> QED BY <2>1, <2>2, <2>3, <2>4, <2>5, <2>6, <2>7, <2>8
<1>14. ASSUME NEW r \in Runners, NEW t \in Tasks, HandlerGivesUp(r, t) PROVE IInv'
  <2>1. TypeOK'
    BY <1>14 DEF HandlerGivesUp, SetJob, TypeOK, Statuses, PassPCs, JobStates, Leases, NoLock
  <2>2. PassLocals'
    BY <1>14 DEF HandlerGivesUp, SetJob, TypeOK, PassLocals
  <2>3. ClaimedOnce'
    BY <1>14 DEF HandlerGivesUp, SetJob, TypeOK, ClaimedOnce
  <2>4. ActiveKeyIsExact' /\ RunningIsLeased' /\ ClaimHolds' /\ StaleClaimIsHarmless' /\ CleanupIsHarmless'
    BY <1>14 DEF HandlerGivesUp, SetJob, ActiveKeyIsExact, RunningIsLeased, ClaimHolds, StaleClaimIsHarmless, CleanupIsHarmless, LockedFor
  <2> QED BY <2>1, <2>2, <2>3, <2>4
<1>15. ASSUME NEW r \in Runners, Crash(r) PROVE IInv'
  <2>1. TypeOK'
    BY <1>15 DEF Crash, PassReturns, TypeOK, Statuses, PassPCs, JobStates, Leases, NoLock
  <2>2. PassLocals'
    BY <1>15 DEF Crash, PassReturns, TypeOK, PassLocals
  <2>3. ClaimHolds'
    BY <1>15 DEF Crash, PassReturns, TypeOK, ClaimHolds, LockedFor, Leases, NoLock
  <2>4. ClaimedOnce'
    BY <1>15 DEF Crash, PassReturns, TypeOK, ClaimedOnce
  <2>5. StaleClaimIsHarmless'
    BY <1>15 DEF Crash, PassReturns, TypeOK, StaleClaimIsHarmless, Leases, NoLock
  <2>6. CleanupIsHarmless'
    BY <1>15 DEF Crash, PassReturns, TypeOK, CleanupIsHarmless, LockedFor, Leases, NoLock
  <2>7. ActiveKeyIsExact' /\ RunningIsLeased'
    BY <1>15 DEF Crash, ActiveKeyIsExact, RunningIsLeased, LockedFor
  <2> QED BY <2>1, <2>2, <2>3, <2>4, <2>5, <2>6, <2>7
<1>16. ASSUME Tick PROVE IInv'
  <2>1. TypeOK'
    <3>1. lock' \in Leases \cup {NoLock}
      BY <1>16 DEF Tick, TypeOK, Leases
    <3>2. age' \in [Runners -> 0 .. MaxStall]
      BY <1>16 DEF Tick, TypeOK
    <3> QED BY <3>1, <3>2, <1>16 DEF Tick, TypeOK
  <2>2. RunningIsLeased'
    BY <1>16 DEF Tick, TypeOK, RunningIsLeased, LockedFor, Leases, NoLock
  <2>3. ClaimHolds'
    BY <1>16 DEF Tick, TypeOK, ClaimHolds, LockedFor, Leases, NoLock
  <2>4. StaleClaimIsHarmless'
    BY <1>16 DEF Tick, TypeOK, StaleClaimIsHarmless, Leases, NoLock
  <2>5. CleanupIsHarmless'
    BY <1>16 DEF Tick, TypeOK, CleanupIsHarmless, LockedFor, Leases, NoLock
  <2>6. ActiveKeyIsExact' /\ PassLocals' /\ ClaimedOnce'
    BY <1>16 DEF Tick, ActiveKeyIsExact, PassLocals, ClaimedOnce
  <2> QED BY <2>1, <2>2, <2>3, <2>4, <2>5, <2>6
<1>17. ASSUME NEW r \in Runners, ExpireError(r) PROVE IInv'
  <2>1. TypeOK'
    BY <1>17 DEF ExpireError, PassReturns, TypeOK, PassPCs
  <2>2. PassLocals' /\ ClaimHolds' /\ StaleClaimIsHarmless' /\ CleanupIsHarmless'
    BY <1>17 DEF ExpireError, PassReturns, LockedFor, TypeOK, PassLocals, ClaimHolds, StaleClaimIsHarmless,
        CleanupIsHarmless
  <2>3. ActiveKeyIsExact' /\ RunningIsLeased' /\ ClaimedOnce'
    BY <1>17 DEF ExpireError, ActiveKeyIsExact, RunningIsLeased, ClaimedOnce, LockedFor
  <2> QED BY <2>1, <2>2, <2>3
<1>18. CASE UNCHANGED vars
  BY <1>18 DEF vars, TypeOK, ActiveKeyIsExact, RunningIsLeased, PassLocals, ClaimHolds, ClaimedOnce,
      StaleClaimIsHarmless, CleanupIsHarmless, LockedFor
<1> QED BY <1>1, <1>2, <1>3, <1>4, <1>5, <1>6, <1>7, <1>8, <1>9, <1>10, <1>11, <1>12, <1>13, <1>14, <1>15, <1>16, <1>17, <1>18 DEF Next, EnqueueSystemTask, RunSystemTaskScheduler,
       PassStep, PassProgress, JobStep

-----------------------------------------------------------------------------
(* The theorems. *)

\* The inductive invariant holds in every reachable state of the runner.
LEMMA Invariance == ASSUME StallBound PROVE Spec => []IInv
<1>1. IInv /\ [Next]_vars => IInv'
  BY StepIInv
<1> QED BY <1>1, InitIInv, PTL DEF Spec

\* The runner never leaves the types of its tables and locals.
THEOREM TypeCorrect == ASSUME StallBound PROVE Spec => []TypeOK
<1>1. IInv => TypeOK
  BY DEF IInv
<1> QED BY <1>1, Invariance, PTL

\* ClaimSystemTask: a running task is never without the lock row that
\* ExpireStaleSystemTaskLocks would find it by.
THEOREM RunningTasksAreLeased == ASSUME StallBound PROVE Spec => []RunningIsLeased
<1>1. IInv => RunningIsLeased
  BY DEF IInv
<1> QED BY <1>1, Invariance, PTL

\* Over all runners, crashes and takeovers a task is dispatched at most once.
THEOREM TasksExecuteAtMostOnce == ASSUME StallBound PROVE Spec => []ExecutedAtMostOnce
<1>1. IInv => ExecutedAtMostOnce
  BY DEF IInv, ClaimedOnce, ExecutedAtMostOnce
<1> QED BY <1>1, Invariance, PTL

\* The unique active_key is held exactly by the pending or running task.
THEOREM ActiveKeyExact == ASSUME StallBound PROVE Spec => []ActiveKeyIsExact
<1>1. IInv => ActiveKeyIsExact
  BY DEF IInv
<1> QED BY <1>1, Invariance, PTL

\* A handler starts under a valid lease, never beside a runner that still has one.
THEOREM HandlersStartLeased == ASSUME StallBound PROVE Spec => StartsAreLeased
<1> DEFINE Started(r, t) == job[r][t] = "none" /\ job'[r][t] = "run"
<1> DEFINE Leased(r, t) ==
      /\ LockedFor(t, r) /\ LeaseValid(0)
      /\ \A q \in Runners, u \in Tasks : q # r /\ job[q][u] = "run" => ~LockedFor(u, q)
<1>1. ASSUME IInv, Next, NEW r \in Runners, NEW t \in Tasks, Started(r, t) PROVE Leased(r, t)
  <2>1. ClaimRun(r) /\ target[r] = t
    <3>1. ASSUME NEW q \in Runners, NEW u \in Tasks, JobStep(q, u) PROVE FALSE
      BY <1>1, <3>1 DEF IInv, TypeOK, JobStep, Heartbeat, HeartbeatFails, Finish, FinishRelease,
        HandlerGivesUp, SetJob
    <3>2. ASSUME NEW q \in Runners, Crash(q) PROVE FALSE
      BY <1>1, <3>2 DEF IInv, TypeOK, Crash
    <3>3. ASSUME NEW q \in Runners, PassStep(q) PROVE ClaimRun(q)
      BY <1>1, <3>3 DEF PassStep, PassProgress, ExpireFind, ExpireMark, ExpireDelete, ExpireError, ClaimFind,
        ClaimAcquire, ClaimMark, ClaimError
    <3>4. ASSUME NEW q \in Runners, ClaimRun(q) PROVE q = r /\ target[q] = t
      BY <1>1, <3>4 DEF IInv, TypeOK, PassLocals, ClaimRun, ClaimPCs
    <3>5. job' # job
      BY <1>1
    <3> QED BY <1>1, <3>1, <3>2, <3>3, <3>4, <3>5 DEF Next, EnqueueSystemTask,
         RunSystemTaskScheduler, CreateSystemTask, Tick
  <2>2. LockedFor(t, r) /\ lock.left >= TTL - age[r]
    BY <1>1, <2>1 DEF IInv, ClaimHolds, ClaimRun
  <2>3. LeaseValid(0)
    BY <1>1, <2>2, StallAssumption DEF LeaseValid, StallBound, IInv, TypeOK, Leases, NoLock
  <2> QED BY <2>2, <2>3 DEF LockedFor
<1>2. IInv /\ [Next]_vars =>
        [\A r \in Runners, t \in Tasks : Started(r, t) => Leased(r, t)]_vars
  BY <1>1
<1> QED BY <1>2, Invariance, PTL DEF Spec, StartsAreLeased
=============================================================================
