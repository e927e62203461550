-------------------------- MODULE SystemTasksProofs --------------------------
(***************************************************************************)
(* Proofs about SystemTasks, for any number of tasks, runners, stalls and  *)
(* failed database calls.  The properties are not inductive alone:         *)
(* OneActiveTask needs the active key to mirror the status, and            *)
(* ExclusiveExecution needs every executing runner to be the one named in  *)
(* locked_by, which only the pending -> running update ever writes.        *)
(***************************************************************************)
EXTENDS SystemTasks, TLAPS

KeyMirrorsStatus == activeKey = {t \in Ids : status[t] \in Active}

OneKey == \A t, u \in activeKey : t = u

ExecutorIsOwner ==
    \A r \in Runners : \A t \in exec[r] \cup releasing[r] :
        lockedBy[t] = r /\ status[t] \notin {"absent", "pending"}

ClaimNamesTask ==
    \A r \in Runners : pc[r] \in {"acquire", "demote", "start"} => cur[r] \in Ids

Inv == TypeOK /\ KeyMirrorsStatus /\ OneKey /\ ExecutorIsOwner /\ ClaimNamesTask

-----------------------------------------------------------------------------
\* Inserting a row keeps the key and the status in step, and the key unique.
LEMMA CreateKeeps ==
    ASSUME Inv, NEW t \in Ids, CreateSystemTask(t),
           UNCHANGED <<lock, jobVars, envVars, cur, seen, lapsed>>,
           pc' \in [Runners -> {"pass", "mark", "delete", "schedule", "claim",
                                "acquire", "demote", "start"}],
           \A r \in Runners : pc'[r] \in {"acquire", "demote", "start"} => pc'[r] = pc[r]
    PROVE  Inv'
<1> USE DEF Inv, CreateSystemTask, Active, Terminal, Ids, loopVars, jobVars, envVars
<1>1. TypeOK'
  BY DEF TypeOK
<1>2. KeyMirrorsStatus' /\ OneKey'
  BY DEF TypeOK, KeyMirrorsStatus, OneKey, KeyFree
<1>3. ExecutorIsOwner'
  BY DEF TypeOK, ExecutorIsOwner
<1>4. ClaimNamesTask'
  BY DEF TypeOK, ClaimNamesTask
<1> QED
  BY <1>1, <1>2, <1>3, <1>4

\* Failing a running task clears its key in the same update and hands it to nobody.
LEMMA MarkKeeps ==
    ASSUME Inv, NEW t \in 0 .. MaxTasks, MarkSystemTaskLeaseExpired(t),
           UNCHANGED <<lock, jobVars, envVars, cur, seen, lapsed>>,
           pc' \in [Runners -> {"pass", "mark", "delete", "schedule", "claim",
                                "acquire", "demote", "start"}],
           \A r \in Runners : pc'[r] \in {"acquire", "demote", "start"}
                                 => pc[r] \in {"acquire", "demote", "start"}
    PROVE  Inv'
<1> USE DEF Inv, MarkSystemTaskLeaseExpired, Expirable, Active, Terminal, Ids,
            loopVars, jobVars, envVars
<1>1. TypeOK'
  BY DEF TypeOK
<1>2. KeyMirrorsStatus' /\ OneKey'
  BY DEF TypeOK, KeyMirrorsStatus, OneKey
<1>3. ExecutorIsOwner'
  <2> SUFFICES ASSUME NEW r \in Runners, NEW u \in exec[r] \cup releasing[r]
               PROVE  lockedBy'[u] = r /\ status'[u] \notin {"absent", "pending"}
    BY DEF ExecutorIsOwner
  <2>1. u \in Ids /\ lockedBy[u] = r /\ status[u] \notin {"absent", "pending"}
    BY DEF TypeOK, ExecutorIsOwner
  <2>2. status'[u] \in {status[u], "failed"}
    BY <2>1 DEF TypeOK
  <2> QED
    BY <2>1, <2>2
<1>4. ClaimNamesTask'
  BY DEF TypeOK, ClaimNamesTask
<1> QED
  BY <1>1, <1>2, <1>3, <1>4

\* A step of the loop that does not touch the task table.
LEMMA LoopKeeps ==
    ASSUME Inv, TypeOK', UNCHANGED <<taskVars, jobVars>>,
           \A r \in Runners : pc'[r] \in {"acquire", "demote", "start"} => cur'[r] \in Ids
    PROVE  Inv'
BY DEF Inv, KeyMirrorsStatus, OneKey, ExecutorIsOwner, ClaimNamesTask, taskVars, jobVars, Ids

-----------------------------------------------------------------------------
LEMMA InitInv == ASSUME Init PROVE Inv
<1> USE DEF Init, Ids, Active, Terminal, NoLock
<1>1. TypeOK
  BY SystemTasksAssumption DEF TypeOK, SystemTasksAssumption
<1> QED
  BY <1>1 DEF Inv, KeyMirrorsStatus, OneKey, ExecutorIsOwner, ClaimNamesTask

LEMMA ReleaseType ==
    ASSUME TypeOK, NEW t, NEW r, ReleaseSystemTaskLock(t, r) \/ UNCHANGED lock
    PROVE  lock' \in [task : 0 .. MaxTasks, by : Runners \cup {NoRunner}, live : BOOLEAN]
<1>1. NoLock \in [task : 0 .. MaxTasks, by : Runners \cup {NoRunner}, live : BOOLEAN]
  BY SystemTasksAssumption DEF NoLock, SystemTasksAssumption
<1> QED
  BY <1>1 DEF ReleaseSystemTaskLock, TypeOK

LEMMA PassInv == ASSUME Inv, NEW r \in Runners, Pass(r) PROVE Inv'
<1> USE DEF Inv, Goto, Fault, ClaimOver, NoLock
<1>1. CASE SkipStale(r)
  <2>1. TypeOK'
    BY <1>1 DEF SkipStale, TypeOK, taskVars, jobVars, envVars
  <2> QED
    BY <1>1, <2>1, LoopKeeps DEF SkipStale, TypeOK, ClaimNamesTask
<1>2. CASE ReadStale(r)
  <2>1. TypeOK'
    <3>1. /\ pc' \in [Runners -> {"pass", "mark", "delete", "schedule", "claim",
                                 "acquire", "demote", "start"}]
          /\ seen' \in [Runners -> [task : 0 .. MaxTasks, by : Runners \cup {NoRunner},
                                    live : BOOLEAN]]
          /\ lapsed' \in SUBSET Runners
      <4>1. CASE LockIsStale
        <5>1. /\ pc' = [pc EXCEPT ![r] = "mark"]
              /\ seen' = [seen EXCEPT ![r] = lock]
              /\ lapsed' = lapsed \cup {r}
          BY <1>2, <4>1 DEF ReadStale
        <5>2. lock \in [task : 0 .. MaxTasks, by : Runners \cup {NoRunner}, live : BOOLEAN]
          BY DEF TypeOK
        <5> QED
          BY <5>1, <5>2 DEF TypeOK
      <4>2. CASE ~LockIsStale
        BY <1>2, <4>2 DEF ReadStale, TypeOK
      <4> QED
        BY <4>1, <4>2
    <3> QED
      BY <1>2, <3>1 DEF ReadStale, TypeOK, taskVars, jobVars, envVars
  <2> QED
    BY <1>2, <2>1, LoopKeeps DEF ReadStale, TypeOK, ClaimNamesTask
<1>3. CASE MarkStale(r)
  BY <1>3, MarkKeeps DEF MarkStale, TypeOK
<1>4. CASE DeleteStale(r)
  <2>1. TypeOK'
    BY <1>4, SystemTasksAssumption DEF SystemTasksAssumption, DeleteStale, TypeOK, taskVars, jobVars, envVars
  <2> QED
    BY <1>4, <2>1, LoopKeeps DEF DeleteStale, TypeOK, ClaimNamesTask
<1>5. CASE StaleFault(r)
  <2>1. TypeOK'
    BY <1>5, SystemTasksAssumption
    DEF StaleFault, TypeOK, taskVars, jobVars, SystemTasksAssumption
  <2> QED
    BY <1>5, <2>1, LoopKeeps DEF StaleFault, TypeOK, ClaimNamesTask
<1>6. CASE Schedule(r)
  <2>1. CASE \E t \in Ids : CreateSystemTask(t)
    BY <1>6, <2>1, CreateKeeps DEF Schedule, TypeOK
  <2>2. CASE UNCHANGED taskVars
    <3>1. TypeOK'
      BY <1>6, <2>2 DEF Schedule, TypeOK, taskVars, jobVars, envVars
    <3> QED
      BY <1>6, <2>2, <3>1, LoopKeeps DEF Schedule, TypeOK, ClaimNamesTask
  <2> QED
    BY <1>6, <2>1, <2>2 DEF Schedule
<1>7. CASE FindPending(r)
  <2>1. TypeOK'
    <3>1. lapsed' \in SUBSET Runners
      BY <1>7 DEF FindPending, TypeOK
    <3>2. cur' \in [Runners -> 0 .. MaxTasks]
      <4>1. CASE \E t \in Ids : cur' = [cur EXCEPT ![r] = t]
        <5> PICK t \in Ids : cur' = [cur EXCEPT ![r] = t]
          BY <4>1
        <5>1. t \in 0 .. MaxTasks
          BY SystemTasksAssumption DEF Ids, SystemTasksAssumption
        <5> QED
          BY <5>1 DEF TypeOK
      <4>2. CASE UNCHANGED cur
        BY <4>2 DEF TypeOK
      <4> QED
        BY <1>7, <4>1, <4>2 DEF FindPending
    <3> QED
      BY <1>7, <3>1, <3>2 DEF FindPending, TypeOK, taskVars, jobVars, envVars
  <2> QED
    BY <1>7, <2>1, LoopKeeps DEF FindPending, TypeOK, ClaimNamesTask
<1>8. CASE AcquireLock(r)
  <2>1. TypeOK'
    BY <1>8 DEF AcquireLock, TypeOK, taskVars, jobVars, envVars
  <2> QED
    BY <1>8, <2>1, LoopKeeps DEF AcquireLock, TypeOK, ClaimNamesTask
<1>9. CASE AcquireRefused(r)
  <2>1. TypeOK'
    BY <1>9, SystemTasksAssumption
    DEF AcquireRefused, TypeOK, taskVars, jobVars, envVars, SystemTasksAssumption
  <2> QED
    BY <1>9, <2>1, LoopKeeps DEF AcquireRefused, TypeOK, ClaimNamesTask
<1>10. CASE DemoteExpired(r)
  BY <1>10, MarkKeeps DEF DemoteExpired, TypeOK
<1>11. CASE StartTask(r)
  <2> USE <1>11 DEF StartTask, StillPending
  <2>1. cur[r] \in Ids
    BY DEF ClaimNamesTask
  <2>2. TypeOK'
    <3>1. /\ status' \in [Ids -> {"absent"} \cup Active \cup Terminal]
          /\ lockedBy' \in [Ids -> Runners \cup {NoRunner}]
      BY <2>1 DEF TypeOK, Active
    <3>2. /\ exec' \in [Runners -> SUBSET Ids]
          /\ beating' \in [Runners -> SUBSET Ids]
      <4>1. CASE UNCHANGED <<exec, beating>>
        BY <4>1 DEF TypeOK
      <4>2. CASE /\ exec' = [exec EXCEPT ![r] = @ \cup {cur[r]}]
                 /\ beating' = [beating EXCEPT ![r] = @ \cup {cur[r]}]
        BY <2>1, <4>2 DEF TypeOK
      <4> QED
        BY <4>1, <4>2
    <3>3. faults' \in 0 .. MaxFaults /\ alive' \in SUBSET Runners /\ stalls' \in 0 .. MaxStalls
      BY SystemTasksAssumption DEF TypeOK, envVars, SystemTasksAssumption
    <3>4. /\ cur' \in [Runners -> 0 .. MaxTasks]
          /\ seen' \in [Runners -> [task : 0 .. MaxTasks, by : Runners \cup {NoRunner},
                                    live : BOOLEAN]]
      BY SystemTasksAssumption DEF TypeOK, SystemTasksAssumption
    <3> QED
      BY <3>1, <3>2, <3>3, <3>4 DEF TypeOK
  <2>3. KeyMirrorsStatus' /\ OneKey'
    BY <2>1 DEF TypeOK, KeyMirrorsStatus, OneKey, Active
  <2>4. ExecutorIsOwner'
    BY <2>1 DEF TypeOK, ExecutorIsOwner
  <2>5. ClaimNamesTask'
    BY DEF TypeOK, ClaimNamesTask
  <2> QED
    BY <2>2, <2>3, <2>4, <2>5
<1>12. CASE StartMissed(r)
  <2>1. TypeOK'
    BY <1>12, SystemTasksAssumption DEF SystemTasksAssumption, StartMissed, TypeOK, ReleaseSystemTaskLock, taskVars, jobVars, envVars
  <2> QED
    BY <1>12, <2>1, LoopKeeps DEF StartMissed, TypeOK, ClaimNamesTask
<1>13. CASE ClaimFault(r)
  <2>1. TypeOK'
    <3>1. lock' \in [task : 0 .. MaxTasks, by : Runners \cup {NoRunner}, live : BOOLEAN]
      BY <1>13, ReleaseType DEF ClaimFault
    <3>2. faults' \in 0 .. MaxFaults
      BY <1>13, SystemTasksAssumption DEF ClaimFault, TypeOK, SystemTasksAssumption
    <3> QED
      BY <1>13, <3>1, <3>2, SystemTasksAssumption
      DEF ClaimFault, TypeOK, taskVars, jobVars, SystemTasksAssumption
  <2> QED
    BY <1>13, <2>1, LoopKeeps DEF ClaimFault, TypeOK, ClaimNamesTask
<1> QED
  BY <1>1, <1>2, <1>3, <1>4, <1>5, <1>6, <1>7, <1>8, <1>9, <1>10, <1>11, <1>12, <1>13
  DEF Pass

LEMMA JobInv == ASSUME Inv, NEW r \in Runners, NEW t \in Ids, Job(r, t) PROVE Inv'
<1> USE DEF Inv, Fault, NoLock
<1>1. CASE \E s \in Terminal : FinishSystemTask(r, t, s)
  <2> PICK s \in Terminal : FinishSystemTask(r, t, s)
    BY <1>1
  <2> USE DEF FinishSystemTask, Terminal
  <2>1. TypeOK'
    BY DEF TypeOK, Active, loopVars, envVars
  <2>2. KeyMirrorsStatus' /\ OneKey'
    BY DEF TypeOK, KeyMirrorsStatus, OneKey, Active
  <2>3. ExecutorIsOwner'
    BY DEF TypeOK, ExecutorIsOwner
  <2> QED
    BY <2>1, <2>2, <2>3 DEF ClaimNamesTask, loopVars, Ids
<1>2. CASE FinishRelease(r, t) \/ HandlerGivesUp(r, t) \/ HeartbeatStops(r, t)
  <2> USE <1>2 DEF FinishRelease, HandlerGivesUp, HeartbeatStops
  <2>1. TypeOK'
    <3>1. lock' \in [task : 0 .. MaxTasks, by : Runners \cup {NoRunner}, live : BOOLEAN]
      BY ReleaseType
    <3>2. faults' \in 0 .. MaxFaults /\ alive' \in SUBSET Runners /\ stalls' \in 0 .. MaxStalls
      BY SystemTasksAssumption DEF TypeOK, envVars, SystemTasksAssumption
    <3>3. /\ exec' \in [Runners -> SUBSET Ids]
          /\ beating' \in [Runners -> SUBSET Ids]
          /\ releasing' \in [Runners -> SUBSET Ids]
      BY DEF TypeOK
    <3> QED
      BY <3>1, <3>2, <3>3 DEF TypeOK, taskVars, loopVars
  <2>2. ExecutorIsOwner'
    BY DEF TypeOK, ExecutorIsOwner, taskVars
  <2> QED
    BY <2>1, <2>2 DEF ClaimNamesTask, KeyMirrorsStatus, OneKey, taskVars, loopVars, Ids
<1> QED
  BY <1>1, <1>2 DEF Job

LEMMA EnvironmentInv ==
    ASSUME Inv,
           \/ EnqueueSystemTask \/ LeaseLapses \/ HolderStalls
           \/ \E r \in Runners : Crash(r)
    PROVE  Inv'
<1> USE DEF Inv, NoLock
<1>1. CASE EnqueueSystemTask
  BY <1>1, CreateKeeps DEF EnqueueSystemTask, TypeOK, loopVars
<1>2. CASE LeaseLapses \/ HolderStalls
  <2>1. TypeOK'
    <3>1. lock' \in [task : 0 .. MaxTasks, by : Runners \cup {NoRunner}, live : BOOLEAN]
      BY <1>2 DEF LeaseLapses, HolderStalls, TypeOK
    <3>2. alive' = alive /\ faults' = faults /\ stalls' \in 0 .. MaxStalls
      BY <1>2, SystemTasksAssumption
      DEF LeaseLapses, HolderStalls, TypeOK, envVars, SystemTasksAssumption
    <3> QED
      BY <1>2, <3>1, <3>2
      DEF LeaseLapses, HolderStalls, TypeOK, taskVars, loopVars, jobVars
  <2> QED
    BY <1>2, <2>1, LoopKeeps
    DEF LeaseLapses, HolderStalls, TypeOK, ClaimNamesTask, loopVars
<1>3. CASE \E r \in Runners : Crash(r)
  <2> PICK r \in Runners : Crash(r)
    BY <1>3
  <2> USE DEF Crash
  <2>1. TypeOK'
    BY SystemTasksAssumption DEF TypeOK, taskVars, SystemTasksAssumption
  <2>2. ExecutorIsOwner'
    BY DEF TypeOK, ExecutorIsOwner, taskVars
  <2>3. ClaimNamesTask'
    BY DEF TypeOK, ClaimNamesTask, Ids
  <2> QED
    BY <2>1, <2>2, <2>3 DEF KeyMirrorsStatus, OneKey, taskVars, Ids
<1> QED
  BY <1>1, <1>2, <1>3

LEMMA StepInv == ASSUME Inv, [Next]_vars PROVE Inv'
<1>1. CASE Next
  BY <1>1, PassInv, JobInv, EnvironmentInv DEF Next
<1>2. CASE UNCHANGED vars
  BY <1>2
  DEF Inv, TypeOK, KeyMirrorsStatus, OneKey, ExecutorIsOwner, ClaimNamesTask,
      vars, taskVars, loopVars, jobVars, envVars, Ids
<1> QED
  BY <1>1, <1>2

LEMMA Invariance == Spec => []Inv
BY InitInv, StepInv, PTL DEF Spec

-----------------------------------------------------------------------------
\* Every column keeps its type and every counter its bound, in all behaviours.
THEOREM TypeCorrectness == Spec => []TypeOK
BY Invariance, PTL DEF Inv

\* At most one row of the type is ever pending or running, however many nodes
\* schedule, enqueue, expire and finish tasks at once.
THEOREM OneActiveTaskAlways == Spec => []OneActiveTask
<1>1. Inv => OneActiveTask
  BY DEF Inv, KeyMirrorsStatus, OneKey, OneActiveTask
<1> QED
  BY <1>1, Invariance, PTL

\* No task is executed by two runners, even after its lease lapsed.
THEOREM ExclusiveExecutionAlways == Spec => []ExclusiveExecution
<1>1. Inv => ExclusiveExecution
  BY DEF Inv, ExecutorIsOwner, ExclusiveExecution
<1> QED
  BY <1>1, Invariance, PTL

-----------------------------------------------------------------------------
(***************************************************************************)
(* One handler at a time.  Here the lock does enter: while nobody stalled  *)
(* and no call failed, whoever executes a task, or is about to, holds the  *)
(* live lock for it, and a lock seen to have lapsed has not come to life   *)
(* again.                                                                  *)
(***************************************************************************)
Quiet == stalls = 0 /\ faults = 0

Starting(r) == pc[r] \in {"demote", "start"}

LapsedIsDead == (lapsed # {} \/ lock.task = 0) => ~lock.live

HandlersHoldLock ==
    Quiet => \A r \in Runners : \A t \in exec[r] :
        LiveHeld(t, r) /\ t \in beating[r] /\ r \in alive

StarterHoldsLock ==
    Quiet => \A r \in Runners : Starting(r) =>
        LiveHeld(cur[r], r) /\ r \in alive /\ \A q \in Runners : exec[q] = {}

\* A runner that claims a task does not execute or release it, and a task it
\* releases it no longer executes.
ClaimIsFresh ==
    \A r \in Runners :
        /\ pc[r] \in {"acquire", "demote", "start"} => cur[r] \notin exec[r] \cup releasing[r]
        /\ exec[r] \cap releasing[r] = {}

LockInv == LapsedIsDead /\ HandlersHoldLock /\ StarterHoldsLock /\ ClaimIsFresh

LEMMA LockInit == ASSUME Init PROVE LockInv
BY SMT DEF Init, LockInv, LapsedIsDead, HandlersHoldLock, StarterHoldsLock, ClaimIsFresh,
       Starting, NoLock

LEMMA LockPass == ASSUME Inv, Inv', LockInv, NEW r \in Runners, Pass(r) PROVE LockInv'
<1> USE DEF Inv, TypeOK, LockInv, Goto, ClaimOver, NoLock, Held, LiveHeld, Quiet, Starting
<1>1. CASE SkipStale(r) \/ MarkStale(r) \/ Schedule(r) \/ DemoteExpired(r)
  <2> USE <1>1 DEF SkipStale, MarkStale, Schedule, DemoteExpired, jobVars, envVars
  <2>1. LapsedIsDead' /\ HandlersHoldLock'
    BY DEF LapsedIsDead, HandlersHoldLock
  <2>2. StarterHoldsLock'
    BY DEF StarterHoldsLock
  <2>3. ClaimIsFresh'
    BY DEF ClaimIsFresh
  <2> QED
    BY <2>1, <2>2, <2>3
<1>2. CASE ReadStale(r)
  <2> USE <1>2 DEF ReadStale, LockIsStale, jobVars, envVars
  <2>1. LapsedIsDead' /\ HandlersHoldLock'
    BY DEF LapsedIsDead, HandlersHoldLock
  <2>2. StarterHoldsLock' /\ ClaimIsFresh'
    BY DEF StarterHoldsLock, ClaimIsFresh
  <2> QED
    BY <2>1, <2>2
<1>3. CASE DeleteStale(r)
  <2> USE <1>3 DEF DeleteStale, jobVars, envVars
  <2>1. LapsedIsDead'
    BY DEF LapsedIsDead
  <2>2. HandlersHoldLock'
    BY DEF LapsedIsDead, HandlersHoldLock
  <2>3. StarterHoldsLock'
    BY DEF LapsedIsDead, StarterHoldsLock
  <2>4. ClaimIsFresh'
    BY DEF ClaimIsFresh
  <2> QED
    BY <2>1, <2>2, <2>3, <2>4
<1>4. CASE StaleFault(r) \/ ClaimFault(r) \/ (AcquireRefused(r) /\ Fault)
  <2> USE <1>4 DEF StaleFault, ClaimFault, AcquireRefused, Fault, jobVars
  <2>1. ~Quiet'
    OBVIOUS
  <2>2. LapsedIsDead'
    BY DEF LapsedIsDead, ReleaseSystemTaskLock
  <2>3. ClaimIsFresh'
    BY DEF ClaimIsFresh
  <2> QED
    BY <2>1, <2>2, <2>3 DEF HandlersHoldLock, StarterHoldsLock
<1>5. CASE FindPending(r)
  <2> USE <1>5 DEF FindPending, LockIsStale, jobVars, envVars
  <2>1. LapsedIsDead' /\ HandlersHoldLock'
    BY DEF LapsedIsDead, HandlersHoldLock
  <2>2. StarterHoldsLock'
    BY DEF StarterHoldsLock
  <2>3. ClaimIsFresh'
    BY DEF ClaimIsFresh, ExecutorIsOwner
  <2> QED
    BY <2>1, <2>2, <2>3
<1>6. CASE AcquireLock(r)
  <2> USE <1>6 DEF AcquireLock, jobVars, envVars
  <2>1. ~lock.live
    BY DEF LapsedIsDead
  <2>2. Quiet => \A q \in Runners : exec[q] = {} /\ ~Starting(q)
    BY <2>1 DEF HandlersHoldLock, StarterHoldsLock
  <2>3. LapsedIsDead'
    BY DEF LapsedIsDead, ClaimNamesTask, Ids
  <2>4. r \in alive
    BY DEF Pass
  <2>5. HandlersHoldLock'
    BY <2>2 DEF HandlersHoldLock
  <2>6. StarterHoldsLock'
    BY <2>2, <2>4 DEF StarterHoldsLock
  <2>7. ClaimIsFresh'
    BY DEF ClaimIsFresh
  <2> QED
    BY <2>3, <2>5, <2>6, <2>7
<1>7. CASE AcquireRefused(r) /\ UNCHANGED envVars
  <2> USE <1>7 DEF AcquireRefused, jobVars, envVars
  <2>1. LapsedIsDead' /\ HandlersHoldLock'
    BY DEF LapsedIsDead, HandlersHoldLock
  <2>2. StarterHoldsLock' /\ ClaimIsFresh'
    BY DEF StarterHoldsLock, ClaimIsFresh
  <2> QED
    BY <2>1, <2>2
<1>8. CASE StartTask(r)
  <2> USE <1>8 DEF StartTask
  <2>1. LapsedIsDead'
    BY DEF LapsedIsDead
  <2>2. CASE Fault
    <3>1. ~Quiet'
      BY <2>2 DEF Fault
    <3>2. ClaimIsFresh'
      BY DEF ClaimIsFresh, ExecutorIsOwner, StillPending
    <3> QED
      BY <2>1, <3>1, <3>2 DEF HandlersHoldLock, StarterHoldsLock
  <2>3. CASE /\ exec' = [exec EXCEPT ![r] = @ \cup {cur[r]}]
             /\ beating' = [beating EXCEPT ![r] = @ \cup {cur[r]}]
             /\ UNCHANGED envVars
    <3> USE <2>3 DEF envVars
    <3>1. Quiet => /\ LiveHeld(cur[r], r) /\ r \in alive
                   /\ \A q \in Runners : exec[q] = {}
      BY DEF StarterHoldsLock
    <3>2. HandlersHoldLock'
      BY <3>1 DEF HandlersHoldLock
    <3>3. Quiet => \A q \in Runners : Starting(q) => q = r
      BY <3>1 DEF StarterHoldsLock
    <3>4. StarterHoldsLock'
      BY <3>3 DEF StarterHoldsLock
    <3>5. cur[r] \notin exec[r] \cup releasing[r]
      BY DEF ClaimIsFresh
    <3>6. ClaimIsFresh'
      BY <3>5 DEF ClaimIsFresh
    <3> QED
      BY <2>1, <3>2, <3>4, <3>6
  <2> QED
    BY <2>2, <2>3
<1>9. CASE StartMissed(r)
  <2> USE <1>9 DEF StartMissed, ReleaseSystemTaskLock, jobVars, envVars
  <2>1. LapsedIsDead'
    BY DEF LapsedIsDead
  <2>2. HandlersHoldLock'
    BY DEF HandlersHoldLock, StarterHoldsLock
  <2>3. Quiet => \A q \in Runners : Starting(q) => q = r
    BY DEF StarterHoldsLock
  <2>4. StarterHoldsLock'
    BY <2>3 DEF StarterHoldsLock
  <2>5. ClaimIsFresh'
    BY DEF ClaimIsFresh
  <2> QED
    BY <2>1, <2>2, <2>4, <2>5
<1> QED
  BY <1>1, <1>2, <1>3, <1>4, <1>5, <1>6, <1>7, <1>8, <1>9 DEF Pass, AcquireRefused

LEMMA LockJob ==
    ASSUME Inv, Inv', LockInv, NEW r \in Runners, NEW t \in Ids, Job(r, t)
    PROVE  LockInv'
<1> USE DEF Inv, TypeOK, LockInv, NoLock, Held, LiveHeld, Quiet, Starting, Fault
<1>1. CASE \E s \in Terminal : FinishSystemTask(r, t, s)
  <2> USE <1>1 DEF FinishSystemTask, loopVars, envVars
  <2>1. LapsedIsDead' /\ HandlersHoldLock'
    BY DEF LapsedIsDead, HandlersHoldLock
  <2>2. StarterHoldsLock'
    BY DEF StarterHoldsLock
  <2>3. ClaimIsFresh'
    BY DEF ClaimIsFresh
  <2> QED
    BY <2>1, <2>2, <2>3
<1>2. CASE FinishRelease(r, t)
  <2> USE <1>2 DEF FinishRelease, ReleaseSystemTaskLock, loopVars, envVars
  <2>1. LapsedIsDead'
    BY DEF LapsedIsDead
  <2>2. HandlersHoldLock'
    BY DEF HandlersHoldLock, ClaimIsFresh
  <2>3. StarterHoldsLock'
    BY DEF StarterHoldsLock, ClaimIsFresh
  <2>4. ClaimIsFresh'
    BY DEF ClaimIsFresh
  <2> QED
    BY <2>1, <2>2, <2>3, <2>4
<1>3. CASE HandlerGivesUp(r, t) \/ HeartbeatStops(r, t)
  <2> USE <1>3 DEF HandlerGivesUp, HeartbeatStops, loopVars, envVars
  <2>1. LapsedIsDead' /\ HandlersHoldLock'
    BY DEF LapsedIsDead, HandlersHoldLock
  <2>2. StarterHoldsLock'
    BY DEF StarterHoldsLock
  <2>3. ClaimIsFresh'
    BY DEF ClaimIsFresh
  <2> QED
    BY <2>1, <2>2, <2>3
<1> QED
  BY <1>1, <1>2, <1>3 DEF Job

LEMMA LockEnvironment ==
    ASSUME Inv, Inv', LockInv,
           \/ EnqueueSystemTask \/ LeaseLapses \/ HolderStalls
           \/ \E r \in Runners : Crash(r)
    PROVE  LockInv'
<1> USE DEF Inv, TypeOK, LockInv, NoLock, Held, LiveHeld, Quiet, Starting
<1>1. CASE EnqueueSystemTask
  BY <1>1 DEF EnqueueSystemTask, loopVars, jobVars, envVars, LapsedIsDead,
              HandlersHoldLock, StarterHoldsLock, ClaimIsFresh
<1>2. CASE LeaseLapses
  <2> USE <1>2 DEF LeaseLapses, loopVars, jobVars, envVars
  <2>1. Quiet => \A r \in Runners : exec[r] = {} /\ ~Starting(r)
    BY DEF HandlersHoldLock, StarterHoldsLock, Attended
  <2>2. LapsedIsDead' /\ HandlersHoldLock' /\ StarterHoldsLock'
    BY <2>1 DEF LapsedIsDead, HandlersHoldLock, StarterHoldsLock
  <2> QED
    BY <2>2 DEF ClaimIsFresh
<1>3. CASE HolderStalls
  <2> USE <1>3 DEF HolderStalls, loopVars, jobVars
  <2>1. ~Quiet'
    OBVIOUS
  <2> QED
    BY <2>1 DEF LapsedIsDead, HandlersHoldLock, StarterHoldsLock, ClaimIsFresh
<1>4. CASE \E r \in Runners : Crash(r)
  <2> PICK r \in Runners : Crash(r)
    BY <1>4
  <2> USE DEF Crash
  <2>1. LapsedIsDead' /\ HandlersHoldLock'
    BY DEF LapsedIsDead, HandlersHoldLock
  <2>2. StarterHoldsLock'
    BY DEF StarterHoldsLock
  <2>3. ClaimIsFresh'
    BY DEF ClaimIsFresh
  <2> QED
    BY <2>1, <2>2, <2>3
<1> QED
  BY <1>1, <1>2, <1>3, <1>4

LEMMA LockInvariance == Spec => []LockInv
<1>1. ASSUME Inv, Inv', LockInv, [Next]_vars PROVE LockInv'
  <2>1. CASE Next
    BY <1>1, <2>1, LockPass, LockJob, LockEnvironment DEF Next
  <2>2. CASE UNCHANGED vars
    BY <1>1, <2>2
    DEF LockInv, LapsedIsDead, HandlersHoldLock, StarterHoldsLock, ClaimIsFresh, Quiet,
        Starting, Held, LiveHeld, vars, taskVars, loopVars, jobVars, envVars
  <2> QED
    BY <1>1, <2>1, <2>2
<1> QED
  BY <1>1, LockInit, Invariance, PTL DEF Spec

\* Without stalls and failed calls two handlers of the type never run at once, whatever
\* crashes, takeovers and stale-lock passes come in between.
THEOREM SingleHandlerAlways == Spec => []SingleHandler
<1>1. Inv /\ LockInv => SingleHandler
  BY DEF Inv, TypeOK, LockInv, HandlersHoldLock, SingleHandler, Quiet, LiveHeld, Held
<1> QED
  BY <1>1, Invariance, LockInvariance, PTL

-----------------------------------------------------------------------------
\* The runner implements the life cycle it promises: each step either leaves
\* the two task columns alone or creates, hands out or ends one task.
THEOREM Refinement == Spec => ImplementsLifecycle
<1>1. Init => Lifecycle!Init
  BY DEF Init, Lifecycle!Init, Ids, Lifecycle!Ids
<1>2. ASSUME Inv, [Next]_vars
      PROVE  [Lifecycle!Next]_(Lifecycle!vars)
  <2> USE DEF Inv, Lifecycle!vars, Lifecycle!Ids, Ids
  <2>1. ASSUME NEW t \in Ids, CreateSystemTask(t)
        PROVE  Lifecycle!Next
    <3>1. \A u \in Ids : status[u] \notin Lifecycle!Active
      BY <1>2, <2>1 DEF CreateSystemTask, KeyFree, KeyMirrorsStatus, Active, Lifecycle!Active
    <3> QED
      BY <2>1, <3>1 DEF CreateSystemTask, Lifecycle!Next, Lifecycle!Create
  <2>2. ASSUME NEW t, MarkSystemTaskLeaseExpired(t)
        PROVE  Lifecycle!Next \/ UNCHANGED Lifecycle!vars
    BY <2>2
    DEF MarkSystemTaskLeaseExpired, Expirable, Lifecycle!Next, Lifecycle!End,
        Lifecycle!Terminal
  <2>3. ASSUME NEW r \in Runners, StartTask(r)
        PROVE  Lifecycle!Next
    <3>1. cur[r] \in Ids
      BY <1>2, <2>3 DEF ClaimNamesTask, StartTask
    <3> QED
      BY <2>3, <3>1 DEF StartTask, StillPending, Lifecycle!Next, Lifecycle!Hand
  <2>4. ASSUME NEW r \in Runners, NEW t \in Ids, NEW s \in Terminal,
               FinishSystemTask(r, t, s)
        PROVE  Lifecycle!Next
    BY <2>4
    DEF FinishSystemTask, Terminal, Lifecycle!Next, Lifecycle!End, Lifecycle!Terminal
  <2>5. ASSUME NEW r \in Runners, Pass(r)
        PROVE  Lifecycle!Next \/ UNCHANGED Lifecycle!vars
    BY <2>5, <2>1, <2>2, <2>3
    DEF Pass, SkipStale, ReadStale, MarkStale, DeleteStale, StaleFault, Schedule,
        FindPending, AcquireLock, AcquireRefused, DemoteExpired, StartMissed,
        ClaimFault, taskVars
  <2>6. ASSUME NEW r \in Runners, NEW t \in Ids, Job(r, t)
        PROVE  Lifecycle!Next \/ UNCHANGED Lifecycle!vars
    BY <2>6, <2>4 DEF Job, FinishRelease, HandlerGivesUp, HeartbeatStops, taskVars
  <2>7. CASE EnqueueSystemTask
    BY <2>7, <2>1 DEF EnqueueSystemTask
  <2>8. CASE LeaseLapses \/ HolderStalls \/ \E r \in Runners : Crash(r)
    BY <2>8 DEF LeaseLapses, HolderStalls, Crash, taskVars
  <2>9. CASE UNCHANGED vars
    BY <2>9 DEF vars, taskVars
  <2> QED
    BY <1>2, <2>5, <2>6, <2>7, <2>8, <2>9 DEF Next
<1> QED
  BY <1>1, <1>2, Invariance, PTL DEF Spec, ImplementsLifecycle, Lifecycle!Spec
=============================================================================
