----------------------------- MODULE SystemTasks -----------------------------
(***************************************************************************)
(* The background-task runner (service/system_task.go over                 *)
(* model/system_task.go) for one task type.  Every master node runs one    *)
(* loop: expire stale locks, schedule, claim one pending task, run its     *)
(* handler in a goroutine with a heartbeat that renews the per-type lock.  *)
(* Types do not interact: every statement is filtered by type or task_id.  *)
(*                                                                         *)
(* Time: a lock row is "live" while locked_until >= now.  It lapses when   *)
(* nobody renews it, or when the holder stalls for a whole TTL (MaxStalls  *)
(* bounds those).  A stale pass and a claim read the clock once, when they *)
(* start: r \in lapsed says the row had lapsed by then, and not been        *)
(* rewritten since, which is what their locked_until < now tests.          *)
(* A restarted process draws a new runner id, so a crashed runner never    *)
(* comes back; another member of Runners stands for it.                    *)
(***************************************************************************)
EXTENDS Naturals, FiniteSets

CONSTANTS
    MaxTasks,   \* task rows ever created (bound)
    Runners,    \* runner ids, one per process of a master node
    NoRunner,   \* the empty locked_by
    MaxStalls,  \* stalls longer than the lock TTL while holding the lock (bound)
    MaxFaults   \* failed database calls (bound)

ASSUME SystemTasksAssumption ==
    /\ MaxTasks \in Nat
    /\ MaxStalls \in Nat
    /\ MaxFaults \in Nat
    /\ NoRunner \notin Runners

VARIABLES
    status,     \* system_tasks.status, "absent" before the insert
    lockedBy,   \* system_tasks.locked_by
    activeKey,  \* the tasks whose active_key is set (a unique column)
    lock,       \* the row of system_task_locks of this type, NoLock if none
    pc,         \* pc[r]: where the loop of runner r stands
    cur,        \* cur[r]: the pending task the claim pass works on
    seen,       \* seen[r]: the lock row read by the statement before
    lapsed,     \* runners for which locked_until < the clock they read
    exec,       \* exec[r]: tasks whose handler runs on r
    beating,    \* beating[r]: tasks of exec[r] whose heartbeat still renews
    releasing,  \* releasing[r]: finished tasks whose lock is not yet released
    alive,      \* runners that have not crashed
    stalls,     \* stalls so far
    faults      \* failed database calls so far

taskVars == <<status, lockedBy, activeKey>>
loopVars == <<pc, cur, seen, lapsed>>
jobVars == <<exec, beating, releasing>>
envVars == <<alive, stalls, faults>>
vars == <<taskVars, lock, loopVars, jobVars, envVars>>

Ids == 1 .. MaxTasks
Active == {"pending", "running"}
Terminal == {"succeeded", "failed"}
NoLock == [task |-> 0, by |-> NoRunner, live |-> FALSE]
Held(t, r) == lock.task = t /\ lock.by = r
LiveHeld(t, r) == Held(t, r) /\ lock.live

TypeOK ==
    /\ status \in [Ids -> {"absent"} \cup Active \cup Terminal]
    /\ lockedBy \in [Ids -> Runners \cup {NoRunner}]
    /\ activeKey \in SUBSET Ids
    /\ lock \in [task : 0 .. MaxTasks, by : Runners \cup {NoRunner}, live : BOOLEAN]
    /\ pc \in [Runners -> {"pass", "mark", "delete", "schedule", "claim",
                           "acquire", "demote", "start"}]
    /\ cur \in [Runners -> 0 .. MaxTasks]
    /\ seen \in [Runners -> [task : 0 .. MaxTasks, by : Runners \cup {NoRunner},
                             live : BOOLEAN]]
    /\ lapsed \in SUBSET Runners
    /\ exec \in [Runners -> SUBSET Ids]
    /\ beating \in [Runners -> SUBSET Ids]
    /\ releasing \in [Runners -> SUBSET Ids]
    /\ alive \in SUBSET Runners
    /\ stalls \in 0 .. MaxStalls
    /\ faults \in 0 .. MaxFaults

Init ==
    /\ status = [t \in Ids |-> "absent"]
    /\ lockedBy = [t \in Ids |-> NoRunner]
    /\ activeKey = {}
    /\ lock = NoLock
    /\ pc = [r \in Runners |-> "pass"]
    /\ cur = [r \in Runners |-> 0]
    /\ seen = [r \in Runners |-> NoLock]
    /\ lapsed = {}
    /\ exec = [r \in Runners |-> {}]
    /\ beating = [r \in Runners |-> {}]
    /\ releasing = [r \in Runners |-> {}]
    /\ alive = Runners
    /\ stalls = 0
    /\ faults = 0

Goto(r, l) == pc' = [pc EXCEPT ![r] = l]

Fault ==
    /\ faults < MaxFaults
    /\ faults' = faults + 1
    /\ UNCHANGED <<alive, stalls>>

(***************************************************************************)
(* CreateSystemTask: the insert succeeds unless the unique index on        *)
(* active_key already holds this type.  Ids are handed out in order.       *)
(***************************************************************************)
Mut_KeyFree == TRUE
KeyFree == activeKey = {}

CreateSystemTask(t) ==
    /\ status[t] = "absent"
    /\ \A u \in Ids : u < t => status[u] # "absent"
    /\ KeyFree
    /\ status' = [status EXCEPT ![t] = "pending"]
    /\ activeKey' = activeKey \cup {t}
    /\ UNCHANGED lockedBy

\* EnqueueSystemTask and StartLogCleanupTask, from an API request on any node.
EnqueueSystemTask ==
    /\ \E t \in Ids : CreateSystemTask(t)
    /\ UNCHANGED <<lock, loopVars, jobVars, envVars>>

\* MarkSystemTaskLeaseExpired: filtered by task_id and status only.
Mut_Expirable_AnyStatus(t) == t \in Ids /\ status[t] # "absent"
Mut_Expirable_Pending(t) == t \in Ids /\ status[t] = "pending"
Expirable(t) == t \in Ids /\ status[t] = "running"

MarkSystemTaskLeaseExpired(t) ==
    /\ IF Expirable(t)
         THEN /\ status' = [status EXCEPT ![t] = "failed"]
              /\ activeKey' = activeKey \ {t}
         ELSE UNCHANGED <<status, activeKey>>
    /\ UNCHANGED lockedBy

\* ReleaseSystemTaskLock: deletes the row only if it names this task and runner.
Mut_ReleaseSystemTaskLock(t, r) == lock' = IF lock.task = t THEN [lock EXCEPT !.by = 0] ELSE lock
ReleaseSystemTaskLock(t, r) == lock' = IF Held(t, r) THEN NoLock ELSE lock

-----------------------------------------------------------------------------
(***************************************************************************)
(* runPass: the stale-lock pass and the scheduler are throttled, so a pass *)
(* may skip either; then it always tries to claim.                         *)
(***************************************************************************)
SkipStale(r) ==
    /\ pc[r] = "pass"
    /\ Goto(r, "schedule")
    /\ UNCHANGED <<taskVars, lock, cur, seen, lapsed, jobVars, envVars>>

\* ExpireStaleSystemTaskLocks reads the stale lock, if there is one.
Mut_LockIsStale == lock.task # 0
LockIsStale == lock.task # 0 /\ ~lock.live

ReadStale(r) ==
    /\ pc[r] = "pass"
    /\ IF LockIsStale
         THEN /\ Goto(r, "mark")
              /\ seen' = [seen EXCEPT ![r] = lock]
              /\ lapsed' = lapsed \cup {r}
         ELSE Goto(r, "schedule") /\ UNCHANGED <<seen, lapsed>>
    /\ UNCHANGED <<taskVars, lock, cur, jobVars, envVars>>

MarkStale(r) ==
    /\ pc[r] = "mark"
    /\ MarkSystemTaskLeaseExpired(seen[r].task)
    /\ Goto(r, "delete")
    /\ UNCHANGED <<lock, cur, seen, lapsed, jobVars, envVars>>

\* The delete repeats the whole condition, locked_until included.
DeleteStale(r) ==
    /\ pc[r] = "delete"
    /\ lock' = IF Held(seen[r].task, seen[r].by) /\ r \in lapsed THEN NoLock ELSE lock
    /\ Goto(r, "schedule")
    /\ seen' = [seen EXCEPT ![r] = NoLock]
    /\ lapsed' = lapsed \ {r}
    /\ UNCHANGED <<taskVars, cur, jobVars, envVars>>

\* A database error in the stale pass ends it; the rest of the pass goes on.
StaleFault(r) ==
    /\ pc[r] \in {"mark", "delete"}
    /\ Fault
    /\ Goto(r, "schedule")
    /\ seen' = [seen EXCEPT ![r] = NoLock]
    /\ lapsed' = lapsed \ {r}
    /\ UNCHANGED <<taskVars, lock, cur, jobVars>>

\* runSystemTaskScheduler: not due, already active, or one new row.
Schedule(r) ==
    /\ pc[r] = "schedule"
    /\ Goto(r, "claim")
    /\ \/ \E t \in Ids : CreateSystemTask(t)
       \/ UNCHANGED taskVars
    /\ UNCHANGED <<lock, cur, seen, lapsed, jobVars, envVars>>

\* runSystemTaskClaimPass: look up the earliest pending row of the type;
\* ClaimSystemTask reads the clock and finds the row still pending.
FindPending(r) ==
    /\ pc[r] = "claim"
    /\ \/ \E t \in Ids :
            /\ status[t] = "pending"
            /\ \A u \in Ids : status[u] = "pending" => t <= u
            /\ cur' = [cur EXCEPT ![r] = t]
            /\ lapsed' = IF LockIsStale THEN lapsed \cup {r} ELSE lapsed
            /\ Goto(r, "acquire")
       \/ /\ \A t \in Ids : status[t] # "pending"
          /\ Goto(r, "pass")
          /\ UNCHANGED <<cur, lapsed>>
    /\ UNCHANGED <<taskVars, lock, seen, jobVars, envVars>>

\* Leave the claim: the loop waits for the ticker or a wakeup.
ClaimOver(r) ==
    /\ Goto(r, "pass")
    /\ cur' = [cur EXCEPT ![r] = 0]
    /\ seen' = [seen EXCEPT ![r] = NoLock]
    /\ lapsed' = lapsed \ {r}

\* acquireSystemTaskLock: insert the row, or take over one that has lapsed.
AcquireLock(r) ==
    /\ pc[r] = "acquire"
    /\ lock.task = 0 \/ r \in lapsed
    /\ lock' = [task |-> cur[r], by |-> r, live |-> TRUE]
    /\ lapsed' = {}
    /\ seen' = [seen EXCEPT ![r] = lock]
    /\ Goto(r, IF lock.task \in {0, cur[r]} THEN "start" ELSE "demote")
    /\ UNCHANGED <<taskVars, cur, jobVars, envVars>>

AcquireRefused(r) ==
    /\ pc[r] = "acquire"
    /\ \/ lock.task # 0 /\ r \notin lapsed /\ UNCHANGED envVars
       \/ Fault
    /\ ClaimOver(r)
    /\ UNCHANGED <<taskVars, lock, jobVars>>

\* The lock taken over belonged to another task: that one has lost its lease.
DemoteExpired(r) ==
    /\ pc[r] = "demote"
    /\ MarkSystemTaskLeaseExpired(seen[r].task)
    /\ Goto(r, "start")
    /\ UNCHANGED <<lock, cur, seen, lapsed, jobVars, envVars>>

\* The conditional update pending -> running; then the handler is dispatched.
Mut_StillPending(r) == status[cur[r]] \in Active
StillPending(r) == status[cur[r]] = "pending"

StartTask(r) ==
    /\ pc[r] = "start"
    /\ StillPending(r)
    /\ status' = [status EXCEPT ![cur[r]] = "running"]
    /\ lockedBy' = [lockedBy EXCEPT ![cur[r]] = r]
    /\ \/ /\ exec' = [exec EXCEPT ![r] = @ \cup {cur[r]}]
          /\ beating' = [beating EXCEPT ![r] = @ \cup {cur[r]}]
          /\ UNCHANGED envVars
       \/ Fault /\ UNCHANGED <<exec, beating>>   \* the reload of the row fails
    /\ ClaimOver(r)
    /\ UNCHANGED <<activeKey, lock, releasing>>

\* No row updated: the lock just acquired is given back.
StartMissed(r) ==
    /\ pc[r] = "start"
    /\ ~StillPending(r)
    /\ ReleaseSystemTaskLock(cur[r], r)
    /\ ClaimOver(r)
    /\ UNCHANGED <<taskVars, jobVars, envVars>>

\* A database error after the acquire: release, whose own error is ignored.
ClaimFault(r) ==
    /\ pc[r] \in {"demote", "start"}
    /\ Fault
    /\ ReleaseSystemTaskLock(cur[r], r) \/ UNCHANGED lock
    /\ ClaimOver(r)
    /\ UNCHANGED <<taskVars, jobVars>>

-----------------------------------------------------------------------------
(***************************************************************************)
(* Handlers.  FinishSystemTask needs the task running, locked_by this      *)
(* runner, and a live lock row for both; the release is a second statement.*)
(***************************************************************************)
FinishSystemTask(r, t, s) ==
    /\ t \in exec[r]
    /\ status[t] = "running" /\ lockedBy[t] = r /\ LiveHeld(t, r)
    /\ status' = [status EXCEPT ![t] = s]
    /\ activeKey' = activeKey \ {t}
    /\ releasing' = [releasing EXCEPT ![r] = @ \cup {t}]
    /\ exec' = [exec EXCEPT ![r] = @ \ {t}]
    /\ UNCHANGED <<lockedBy, lock, loopVars, beating, envVars>>

\* The release after a finish; the heartbeat is stopped once fn returns.
FinishRelease(r, t) ==
    /\ t \in releasing[r]
    /\ \/ ReleaseSystemTaskLock(t, r) /\ UNCHANGED envVars
       \/ Fault /\ UNCHANGED lock
    /\ releasing' = [releasing EXCEPT ![r] = @ \ {t}]
    /\ beating' = [beating EXCEPT ![r] = @ \ {t}]
    /\ UNCHANGED <<taskVars, loopVars, exec>>

\* The handler returns without a terminal status: ErrSystemTaskLockLost from
\* its state update or its finish, or a database error there.
HandlerGivesUp(r, t) ==
    /\ t \in exec[r]
    /\ \/ /\ ~(status[t] = "running" /\ lockedBy[t] = r /\ LiveHeld(t, r))
          /\ UNCHANGED envVars
       \/ Fault
    /\ exec' = [exec EXCEPT ![r] = @ \ {t}]
    /\ beating' = [beating EXCEPT ![r] = @ \ {t}]
    /\ UNCHANGED <<taskVars, lock, loopVars, releasing>>

\* RenewSystemTaskLock fails: the context is cancelled, no renewal follows.
\* (A renewal that succeeds leaves a live lock live.)
HeartbeatStops(r, t) ==
    /\ t \in beating[r]
    /\ \/ ~LiveHeld(t, r) /\ UNCHANGED envVars
       \/ Fault
    /\ beating' = [beating EXCEPT ![r] = @ \ {t}]
    /\ UNCHANGED <<taskVars, lock, loopVars, exec, releasing>>

-----------------------------------------------------------------------------
\* Somebody will renew or release the lock in time unless it stalls.
Attended ==
    /\ lock.by \in alive
    /\ \/ lock.task \in beating[lock.by]
       \/ pc[lock.by] \in {"demote", "start"} /\ cur[lock.by] = lock.task

\* locked_until passes with nobody renewing the lock.
LeaseLapses ==
    /\ lock.live /\ ~Attended
    /\ lock' = [lock EXCEPT !.live = FALSE]
    /\ UNCHANGED <<taskVars, loopVars, jobVars, envVars>>

\* locked_until passes because the holder stalled for a whole TTL.
HolderStalls ==
    /\ lock.live /\ Attended
    /\ stalls < MaxStalls
    /\ stalls' = stalls + 1
    /\ lock' = [lock EXCEPT !.live = FALSE]
    /\ UNCHANGED <<taskVars, loopVars, jobVars, alive, faults>>

\* A process dies with its loop, its handlers and its heartbeats.
Crash(r) ==
    /\ r \in alive
    /\ alive # {r}
    /\ alive' = alive \ {r}
    /\ pc' = [pc EXCEPT ![r] = "pass"]
    /\ cur' = [cur EXCEPT ![r] = 0]
    /\ seen' = [seen EXCEPT ![r] = NoLock]
    /\ lapsed' = lapsed \ {r}
    /\ exec' = [exec EXCEPT ![r] = {}]
    /\ beating' = [beating EXCEPT ![r] = {}]
    /\ releasing' = [releasing EXCEPT ![r] = {}]
    /\ UNCHANGED <<taskVars, lock, stalls, faults>>

Pass(r) ==
    /\ r \in alive
    /\ \/ SkipStale(r) \/ ReadStale(r) \/ MarkStale(r) \/ DeleteStale(r)
       \/ StaleFault(r) \/ Schedule(r) \/ FindPending(r)
       \/ AcquireLock(r) \/ AcquireRefused(r) \/ DemoteExpired(r)
       \/ StartTask(r) \/ StartMissed(r) \/ ClaimFault(r)

Job(r, t) ==
    /\ r \in alive
    /\ \/ \E s \in Terminal : FinishSystemTask(r, t, s)
       \/ FinishRelease(r, t)
       \/ HandlerGivesUp(r, t)
       \/ HeartbeatStops(r, t)

Next ==
    \/ EnqueueSystemTask
    \/ \E r \in Runners : Pass(r)
    \/ \E r \in Runners, t \in Ids : Job(r, t)
    \/ LeaseLapses
    \/ HolderStalls
    \/ \E r \in Runners : Crash(r)

Spec == Init /\ [][Next]_vars

(***************************************************************************)
(* Fairness.  The loop of a live runner is driven by a ticker; its         *)
(* stale-lock pass comes round on every second tick at the latest (strong  *)
(* fairness: it is enabled at the start of each pass); handlers return;    *)
(* time passes.  Nothing is fair about stalls, crashes and database errors.*)
(***************************************************************************)
Fairness ==
    /\ \A r \in Runners :
        /\ WF_vars(Pass(r))
        /\ SF_vars(r \in alive /\ ReadStale(r))
    /\ \A r \in Runners, t \in Ids :
        /\ WF_vars(r \in alive /\ (HandlerGivesUp(r, t)
                                     \/ \E s \in Terminal : FinishSystemTask(r, t, s)))
        /\ WF_vars(r \in alive /\ FinishRelease(r, t))
    /\ WF_vars(LeaseLapses)

FairSpec == Spec /\ Fairness

-----------------------------------------------------------------------------
(***************************************************************************)
(* Properties.                                                             *)
(***************************************************************************)
\* The unique active_key does its work: whatever the interleaving of schedulers,
\* API requests, expiries and finishes, at most one row of the type is active.
OneActiveTask ==
    \A t, u \in Ids : status[t] \in Active /\ status[u] \in Active => t = u

\* No task is ever executed by two runners, not even after its lease lapsed and
\* another runner took the lock over.
ExclusiveExecution ==
    \A r, q \in Runners :
        r # q => (exec[r] \cup releasing[r]) \cap (exec[q] \cup releasing[q]) = {}

\* Every change of the two task columns is a step of the promised life cycle:
\* each task is handed out once and a terminal status is final.
Lifecycle == INSTANCE SystemTaskLifecycle WITH status <- status, lockedBy <- lockedBy
ImplementsLifecycle == Lifecycle!Spec

\* While no process stalls for a whole lock TTL and no database call fails, two
\* handlers of the type never run at the same time, crashes notwithstanding.
SingleHandler ==
    stalls = 0 /\ faults = 0 =>
      \A r, q \in Runners : \A t \in exec[r], u \in exec[q] : r = q /\ t = u

\* "an arbitrarily long handler stays alive as long as the heartbeat succeeds"
\* (comment of runWithLeaseHeartbeat): a running task whose handler renews a live
\* lock leaves "running" only by its own finish.
HeartbeatProtects ==
    [][\A r \in Runners : \A t \in exec[r] \cap beating[r] :
          status[t] = "running" /\ LiveHeld(t, r) /\ status'[t] # "running"
             => t \in releasing'[r]]_vars

\* The runner is there to "mark expired leases failed" (comment of
\* systemTaskRunnerIdleInterval): a running task that nobody executes any more
\* does not stay running, which would block its type for ever.
OrphansAreFailed ==
    \A t \in Ids :
        (status[t] = "running" /\ \A r \in Runners : t \notin exec[r])
            ~> status[t] # "running"

\* Every task that is created reaches a terminal status, whoever crashes, so
\* the type can be scheduled again - unless a runner stalls beyond a lock TTL
\* at some time, when OrphansAreFailed shows what may happen.
TasksTerminate ==
    \A t \in Ids :
        status[t] = "pending" ~> (status[t] \in Terminal \/ stalls > 0)
=============================================================================
