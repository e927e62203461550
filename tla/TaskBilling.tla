---------------------------- MODULE TaskBilling ----------------------------
(***************************************************************************)
(* The charge of an asynchronous task from submission to its end.  The     *)
(* task is a row (model/task.go) that carries the quota charged for it.    *)
(* Pollers (service/task_polling.go), the sweep of timed-out tasks, the    *)
(* user's own queries (relay/relay_task.go) and the worker of a local      *)
(* image task (relay/image_task_handler.go) each read the row, learn the   *)
(* outcome, write the whole row back guarded by the status they read, and, *)
(* when they moved it to a final status, refund or settle                  *)
(* (service/task_billing.go).                                              *)
(*                                                                         *)
(* The upstream does not take an outcome back.  A failed write of the row  *)
(* is as if its actor had not come by and has no action.                   *)
(***************************************************************************)
EXTENDS Integers, FiniteSets

CONSTANTS
    Tasks, NoTask,
    Actors,      \* goroutines of any node that may work on a task
    Kinds,       \* the kinds of task this instance has
    Quotas,      \* charged at submission (bound)
    Costs,       \* real costs; Unmeasured when the upstream reports none (bound)
    TimeoutMinutes, \* constant.TaskTimeoutMinutes; no sweep unless it is positive
    MaxEndQueries, \* queries of tasks that have ended (bound)
    MaxTroubles  \* failed insertions, funding moves and saves of the quota, polls that
                 \* find the channel deleted, actors lost with their process (bound)

Unmeasured == -1
Final == {"SUCCESS", "FAILURE"}
Active == {"submitted", "running"}

\* Video tasks priced by usage; "suno" and "legacy" have a fixed price.
Metered == {"seedance", "configurable", "gemini"}
Images == {"image", "local"}

ASSUME TaskBillingAssumption ==
    /\ NoTask \notin Tasks
    /\ Kinds \subseteq Metered \cup Images \cup {"suno", "legacy"}
    /\ Quotas \subseteq Nat \ {0} /\ Costs \subseteq Nat \cup {Unmeasured}
    /\ TimeoutMinutes \in Int /\ MaxEndQueries \in Nat /\ MaxTroubles \in Nat

VARIABLES
    kind,        \* of each task
    status,      \* of the row: "none" before, "unsaved" when the insertion failed
    quota,       \* tasks.quota
    costSettled, \* tasks whose row says CostSettled
    full,        \* unended tasks whose row says "100%"
    bound,       \* local image tasks handed to an upstream task
    launched,    \* local image tasks whose worker has started
    late,        \* tasks older than TaskTimeoutMinutes
    outcome,     \* what the upstream made of the task
    cost,        \* and its real cost
    pc,          \* where each actor stands
    mem,         \* its copy of the row
    net,         \* charged and not given back
    wins,        \* moves to a final status by a guarded write
    reopened,    \* tasks a query took out of a final status
    silent,      \* tasks a query ended without billing
    gone,        \* tasks failed in bulk
    unpaid,      \* tasks whose refund or settlement was lost
    misrecorded, \* tasks whose row missed its new quota
    base,        \* charged at submission
    endQueries, troubles  \* counted against their bounds

row == <<status, quota, costSettled, full, bound>>
fixed == <<kind, base>>
upstream == <<late, outcome, cost>>
actors == <<pc, mem>>
ghosts == <<wins, reopened, silent, gone>>
losses == <<unpaid, misrecorded>>
counters == <<endQueries, troubles>>
vars == <<row, fixed, launched, upstream, actors, net, ghosts, losses, counters>>

Nothing == [task |-> NoTask, status |-> "none", quota |-> 0, settled |-> "no",
            version |-> "current", role |-> "none", answer |-> "none"]
Reading == {"read", "answered", "work"}  \* has yet to write the row
Places == {"idle", "read", "answered", "work", "refund", "settle", "saveQuota", "mark"}

TypeOK ==
    /\ kind \in [Tasks -> Kinds]
    /\ status \in [Tasks -> {"none", "unsaved"} \cup Active \cup Final]
    /\ quota \in [Tasks -> Nat] /\ base \in [Tasks -> Nat] /\ net \in [Tasks -> Int]
    /\ outcome \in [Tasks -> {"pending"} \cup Final] /\ cost \in [Tasks -> Nat \cup {Unmeasured}]
    /\ pc \in [Actors -> Places]
    /\ mem \in [Actors -> [task : Tasks \cup {NoTask},
                           status : {"none"} \cup Active \cup Final, quota : Nat,
                           settled : {"no", "yes"}, version : {"current", "old"},
                           role : {"none", "poll", "sweep", "query", "worker"},
                           answer : {"none"} \cup Active \cup Final]]
    /\ \A a \in Actors : pc[a] = "idle" <=> mem[a].task = NoTask
    /\ wins \in [Tasks -> Nat]
    /\ \A s \in {costSettled, full, bound, launched, late,
                 reopened, silent, gone, unpaid, misrecorded} : s \subseteq Tasks
    /\ endQueries \in 0..MaxEndQueries /\ troubles \in 0..MaxTroubles

Init ==
    /\ kind \in [Tasks -> Kinds]
    /\ status = [t \in Tasks |-> "none"]
    /\ quota = [t \in Tasks |-> 0] /\ base = [t \in Tasks |-> 0] /\ net = [t \in Tasks |-> 0]
    /\ outcome = [t \in Tasks |-> "pending"] /\ cost = [t \in Tasks |-> Unmeasured]
    /\ pc = [a \in Actors |-> "idle"] /\ mem = [a \in Actors |-> Nothing]
    /\ wins = [t \in Tasks |-> 0]
    /\ costSettled = {} /\ full = {} /\ bound = {} /\ launched = {} /\ late = {}
    /\ reopened = {} /\ silent = {} /\ gone = {} /\ unpaid = {} /\ misrecorded = {}
    /\ endQueries = 0 /\ troubles = 0

Stored(t) == status[t] \in Active \cup Final

(***************************************************************************)
(* Submission and the world                                                *)
(***************************************************************************)
\* RelayTask settles the submission's charge, then inserts the row; the image
\* handlers insert it with the quota the session has taken.
Submit(t) == \E q \in Quotas :
    /\ status[t] = "none"
    /\ status' = [status EXCEPT ![t] = "submitted"]
    /\ quota' = [quota EXCEPT ![t] = q]
    /\ base' = [base EXCEPT ![t] = q]
    /\ net' = [net EXCEPT ![t] = q]
    /\ UNCHANGED <<costSettled, full, bound, kind, launched, upstream, actors, ghosts, losses, counters>>

\* The charge stands though there is no row; the image handlers' error has the
\* session refunded instead.
InsertFails(t) == \E q \in Quotas :
    /\ status[t] = "none" /\ kind[t] \notin Images /\ troubles < MaxTroubles
    /\ status' = [status EXCEPT ![t] = "unsaved"]
    /\ net' = [net EXCEPT ![t] = q]
    /\ troubles' = troubles + 1
    /\ UNCHANGED <<quota, costSettled, full, bound, fixed, launched, upstream, actors, ghosts, losses,
                   endQueries>>

UpstreamEnds(t) ==
    /\ Stored(t) /\ outcome[t] = "pending"
    /\ \E o \in Final, c \in Costs :
        /\ outcome' = [outcome EXCEPT ![t] = o]
        /\ cost' = [cost EXCEPT ![t] = c]
    /\ UNCHANGED <<row, fixed, launched, late, actors, net, ghosts, losses, counters>>

GrowLate(t) ==
    /\ status[t] \in Active /\ t \notin late
    /\ late' = late \cup {t}
    /\ UNCHANGED <<row, fixed, launched, outcome, cost, actors, net, ghosts, losses, counters>>

(***************************************************************************)
(* Reading the row                                                         *)
(***************************************************************************)
Copy(t, role, answer) ==
    [task |-> t, status |-> status[t], quota |-> quota[t],
     settled |-> IF t \in costSettled THEN "yes" ELSE "no",
     version |-> "current", role |-> role, answer |-> answer]

\* GetAllUnFinishSyncTasks; an image task is polled once it has an upstream id.
PollRead(a, t) ==
    /\ pc[a] = "idle" /\ status[t] \in Active
    /\ kind[t] = "local" => t \in bound
    /\ pc' = [pc EXCEPT ![a] = "read"]
    /\ mem' = [mem EXCEPT ![a] = Copy(t, "poll", "none")]
    /\ UNCHANGED <<row, fixed, launched, upstream, net, ghosts, losses, counters>>

\* GetTimedOutUnfinishedTasks, which passes over a row at "100%"
SweepRead(a, t) ==
    /\ TimeoutMinutes > 0
    /\ pc[a] = "idle" /\ status[t] \in Active /\ t \in late /\ t \notin full
    /\ pc' = [pc EXCEPT ![a] = "answered"]
    /\ mem' = [mem EXCEPT ![a] = Copy(t, "sweep", "FAILURE")]
    /\ UNCHANGED <<row, fixed, launched, upstream, net, ghosts, losses, counters>>

\* A user's query reads the row whatever its status; for a Seedance task that has
\* ended it only answers.
QueryRead(a, t) ==
    /\ pc[a] = "idle" /\ Stored(t) /\ kind[t] \in Metered
    /\ IF status[t] \in Active THEN UNCHANGED endQueries
       ELSE /\ kind[t] # "seedance" /\ endQueries < MaxEndQueries
            /\ endQueries' = endQueries + 1
    /\ pc' = [pc EXCEPT ![a] = "read"]
    /\ mem' = [mem EXCEPT ![a] = Copy(t, "query", "none")]
    /\ UNCHANGED <<row, fixed, launched, upstream, net, ghosts, losses, troubles>>

\* The upstream's answer, as of now
Ask(a) ==
    /\ pc[a] = "read"
    /\ \E s \in (IF outcome[mem[a].task] = "pending" THEN Active ELSE {outcome[mem[a].task]}) :
           mem' = [mem EXCEPT ![a].answer = s]
    /\ pc' = [pc EXCEPT ![a] = "answered"]
    /\ UNCHANGED <<row, fixed, launched, upstream, net, ghosts, losses, counters>>

(***************************************************************************)
(* Writing it back                                                         *)
(***************************************************************************)
Mut_Wins_Unguarded(a) == mem[a].version = "current"
Mut_Wins_NewStatus(a) == mem[a].answer = status[mem[a].task] /\ mem[a].version = "current"

\* UpdateWithStatus: the row still has the status, and the version, that was read.
Wins(a) == mem[a].status = status[mem[a].task] /\ mem[a].version = "current"

\* The sweep forgives the charge of a legacy task along with its failure: nothing to
\* refund.
QuotaWritten(a) ==
    IF mem[a].role = "sweep" /\ kind[mem[a].task] = "legacy" THEN 0 ELSE mem[a].quota

Ends(a) == mem[a].answer \in Final /\ mem[a].answer # mem[a].status

\* tryRealtimeFetch saves a final status and leaves the charge alone.
Silent(a) == mem[a].role = "query" /\ kind[mem[a].task] = "gemini"

Mut_Billing(a) ==
    IF Ends(a) /\ ~Silent(a) /\ mem[a].answer = "SUCCESS"
       /\ kind[mem[a].task] \in Metered \cup Images THEN "settle" ELSE "idle"

\* What the winner of a final status goes on to do
Billing(a) ==
    IF ~Ends(a) \/ Silent(a) THEN "idle"
    ELSE IF mem[a].answer = "FAILURE" THEN "refund"
    ELSE IF kind[mem[a].task] \in Metered \cup Images THEN "settle" ELSE "idle"

Unbilled == <<fixed, launched, upstream>>

\* The progress that is written: the upstream's own number, which may be "100%" before
\* the end; suno's is not read.
WriteProgress(a) == LET t == mem[a].task IN
    IF mem[a].answer \in Active /\ kind[t] # "suno"
    THEN full' \in {full \cup {t}, full \ {t}}
    ELSE full' = full \ {t}

\* The row is written whole, the quota that was read included.
Write(a) == LET t == mem[a].task IN
    /\ pc[a] = "answered" /\ Wins(a)
    /\ status' = [status EXCEPT ![t] = mem[a].answer]
    /\ quota' = [quota EXCEPT ![t] = QuotaWritten(a)]
    /\ costSettled' = IF mem[a].settled = "yes" THEN costSettled \cup {t} ELSE costSettled \ {t}
    /\ WriteProgress(a)
    /\ pc' = [pc EXCEPT ![a] = Billing(a)]
    /\ mem' = [mem EXCEPT ![a] = IF Billing(a) = "idle" THEN Nothing
                                 ELSE [@ EXCEPT !.quota = QuotaWritten(a), !.status = mem[a].answer]]
    /\ wins' = IF Ends(a) THEN [wins EXCEPT ![t] = @ + 1] ELSE wins
    /\ reopened' = IF mem[a].status \in Final /\ mem[a].answer # mem[a].status
                   THEN reopened \cup {t} ELSE reopened
    /\ silent' = IF Ends(a) /\ Silent(a) THEN silent \cup {t} ELSE silent
    /\ UNCHANGED <<bound, Unbilled, net, gone, losses, counters>>

WriteLost(a) ==
    /\ pc[a] = "answered" /\ ~Wins(a)
    /\ pc' = [pc EXCEPT ![a] = "idle"]
    /\ mem' = [mem EXCEPT ![a] = Nothing]
    /\ UNCHANGED <<row, Unbilled, net, ghosts, losses, counters>>

\* The channel of a polled task is gone: TaskBulkUpdateByID fails the task, whatever
\* its status, and advances the version.
ChannelGone(a) == LET t == mem[a].task IN
    /\ pc[a] = "read" /\ mem[a].role = "poll" /\ troubles < MaxTroubles
    /\ status' = [status EXCEPT ![t] = "FAILURE"]
    /\ full' = full \ {t}
    /\ gone' = gone \cup {t}
    /\ troubles' = troubles + 1
    /\ pc' = [pc EXCEPT ![a] = "idle"]
    /\ mem' = [b \in Actors |-> IF b = a THEN Nothing
                                ELSE IF mem[b].task = t /\ pc[b] \in Reading THEN [mem[b] EXCEPT !.version = "old"]
                                ELSE mem[b]]
    /\ UNCHANGED <<quota, costSettled, bound, Unbilled, net, wins, reopened, silent, losses, endQueries>>

(***************************************************************************)
(* The worker of a local image task                                        *)
(***************************************************************************)
\* runLocalImageAsyncTask moves the row it has just inserted to "running".
WorkerStart(a, t) ==
    /\ pc[a] = "idle" /\ kind[t] = "local" /\ Stored(t) /\ t \notin launched
    /\ launched' = launched \cup {t}
    /\ IF status[t] = "submitted"
       THEN /\ status' = [status EXCEPT ![t] = "running"]
            /\ pc' = [pc EXCEPT ![a] = "work"]
            /\ mem' = [mem EXCEPT ![a] = [Copy(t, "worker", "none") EXCEPT !.status = "running"]]
       ELSE UNCHANGED <<status, actors>>
    /\ UNCHANGED <<quota, costSettled, full, bound, fixed, upstream, net, ghosts, losses, counters>>

\* bindLocalImageAsyncTaskToUpstream, when the upstream answers with a task of its own
WorkerBinds(a) == LET t == mem[a].task IN
    /\ pc[a] = "work"
    /\ IF Wins(a)
       THEN /\ status' = [status EXCEPT ![t] = "submitted"]
            /\ full' = full \ {t}
            /\ bound' = bound \cup {t}
       ELSE UNCHANGED <<status, full, bound>>
    /\ pc' = [pc EXCEPT ![a] = "idle"]
    /\ mem' = [mem EXCEPT ![a] = Nothing]
    /\ UNCHANGED <<quota, costSettled, Unbilled, net, ghosts, losses, counters>>

\* The row is read again before finishLocalImageAsyncTask.
WorkerReload(a) == LET t == mem[a].task IN
    /\ pc[a] = "work" /\ outcome[t] # "pending"
    /\ IF status[t] \in Final
       THEN /\ pc' = [pc EXCEPT ![a] = "idle"]
            /\ mem' = [mem EXCEPT ![a] = Nothing]
       ELSE /\ pc' = [pc EXCEPT ![a] = "answered"]
            /\ mem' = [mem EXCEPT ![a] = Copy(t, "worker", outcome[t])]
    /\ UNCHANGED <<row, Unbilled, net, ghosts, losses, counters>>

(***************************************************************************)
(* Billing the final status                                                *)
(***************************************************************************)
Mut_BySession(a) == TRUE

\* The session that charged a local task refunds it; its row keeps the quota.
BySession(a) == mem[a].role = "worker"

AfterFunding(a) == IF kind[mem[a].task] \in Metered THEN "mark" ELSE "saveQuota"

Finish(a) ==
    /\ pc' = [pc EXCEPT ![a] = "idle"]
    /\ mem' = [mem EXCEPT ![a] = Nothing]

\* RefundTaskQuota, up to the log that marks the cost settled
Refund(a) == LET t == mem[a].task IN
    /\ pc[a] = "refund"
    /\ net' = [net EXCEPT ![t] = @ - mem[a].quota]
    /\ IF BySession(a) \/ mem[a].quota = 0 THEN Finish(a)
       ELSE /\ pc' = [pc EXCEPT ![a] = AfterFunding(a)]
            /\ mem' = [mem EXCEPT ![a].quota = 0]
    /\ UNCHANGED <<row, Unbilled, ghosts, losses, counters>>

Mut_Actual_Unchecked(a) == cost[mem[a].task]
Mut_Actual_Free(a) == IF cost[mem[a].task] = Unmeasured THEN 0 ELSE cost[mem[a].task]

\* What a settlement charges in all
Actual(a) == IF cost[mem[a].task] = Unmeasured THEN mem[a].quota ELSE cost[mem[a].task]

\* Nothing is left to settle when the copy of the row says so, or an image's upstream
\* reports no usage.
Settled(a) == mem[a].settled = "yes" \/ (kind[mem[a].task] \in Images /\ cost[mem[a].task] = Unmeasured)

\* recalculateTaskQuota and settleImageTaskActualQuota, up to the quota of the row
Settle(a) == LET t == mem[a].task IN
    /\ pc[a] = "settle"
    /\ IF Settled(a) THEN Finish(a) /\ UNCHANGED net
       ELSE /\ net' = [net EXCEPT ![t] = @ + Actual(a) - mem[a].quota]
            /\ pc' = [pc EXCEPT ![a] = "saveQuota"]
            /\ mem' = [mem EXCEPT ![a].quota = Actual(a)]
    /\ UNCHANGED <<row, Unbilled, ghosts, losses, counters>>

\* The funding move is refused: the error is logged and nobody tries again.
FundingFails(a) == LET t == mem[a].task IN
    /\ troubles < MaxTroubles
    /\ \/ pc[a] = "refund" /\ mem[a].quota # 0
       \/ pc[a] = "settle" /\ ~Settled(a) /\ Actual(a) # mem[a].quota
    /\ troubles' = troubles + 1
    /\ unpaid' = unpaid \cup {t}
    /\ Finish(a)
    /\ UNCHANGED <<row, fixed, launched, upstream, net, ghosts, misrecorded, endQueries>>

\* Task.UpdateQuota.  A settlement marks the cost after it, a refund before.
AfterSave(a) == IF mem[a].answer = "SUCCESS" /\ kind[mem[a].task] \in Metered THEN "mark" ELSE "idle"

GoOn(a, p) ==
    /\ pc' = [pc EXCEPT ![a] = p]
    /\ mem' = IF p = "idle" THEN [mem EXCEPT ![a] = Nothing] ELSE mem

SaveQuota(a) ==
    /\ pc[a] = "saveQuota"
    /\ quota' = [quota EXCEPT ![mem[a].task] = mem[a].quota]
    /\ GoOn(a, AfterSave(a))
    /\ UNCHANGED <<status, costSettled, full, bound, Unbilled, net, ghosts, losses, counters>>

SaveQuotaFails(a) ==
    /\ pc[a] = "saveQuota" /\ troubles < MaxTroubles
    /\ troubles' = troubles + 1
    /\ misrecorded' = misrecorded \cup {mem[a].task}
    /\ GoOn(a, AfterSave(a))
    /\ UNCHANGED <<row, fixed, launched, upstream, net, ghosts, unpaid, endQueries>>

\* markTaskCostSettled
Mark(a) ==
    /\ pc[a] = "mark"
    /\ costSettled' = costSettled \cup {mem[a].task}
    /\ GoOn(a, IF mem[a].answer = "FAILURE" THEN "saveQuota" ELSE "idle")
    /\ UNCHANGED <<status, quota, full, bound, Unbilled, net, ghosts, losses, counters>>

\* The process ends: what the actor still had to do is lost.
Crash(a) == LET t == mem[a].task IN
    /\ pc[a] # "idle" /\ troubles < MaxTroubles
    /\ troubles' = troubles + 1
    /\ unpaid' = IF pc[a] \in {"refund", "settle"} THEN unpaid \cup {t} ELSE unpaid
    /\ misrecorded' = IF pc[a] \in {"saveQuota", "mark"} THEN misrecorded \cup {t} ELSE misrecorded
    /\ Finish(a)
    /\ UNCHANGED <<row, fixed, launched, upstream, net, ghosts, endQueries>>

Step(a) ==
    \/ Ask(a) \/ Write(a) \/ WriteLost(a) \/ ChannelGone(a)
    \/ WorkerBinds(a) \/ WorkerReload(a)
    \/ Refund(a) \/ Settle(a) \/ SaveQuota(a) \/ Mark(a)

Next ==
    \/ \E t \in Tasks : Submit(t) \/ InsertFails(t) \/ UpstreamEnds(t) \/ GrowLate(t)
    \/ \E a \in Actors, t \in Tasks :
           PollRead(a, t) \/ SweepRead(a, t) \/ QueryRead(a, t) \/ WorkerStart(a, t)
    \/ \E a \in Actors :
           Step(a) \/ FundingFails(a) \/ SaveQuotaFails(a) \/ Crash(a)

\* A goroutine runs on, the upstream ends every task, the clock passes the timeout and
\* the sweep comes round every fifteen seconds on some node.
Fairness ==
    /\ \A a \in Actors : WF_vars(Step(a))
    /\ \A t \in Tasks : WF_vars(UpstreamEnds(t)) /\ WF_vars(GrowLate(t))
    /\ \A t \in Tasks : SF_vars(\E a \in Actors : SweepRead(a, t))

Spec == Init /\ [][Next]_vars
FairSpec == Spec /\ Fairness

(***************************************************************************)
(* Properties                                                              *)
(***************************************************************************)
BeingBilled(t) == \E a \in Actors : mem[a].task = t /\ pc[a] \in {"refund", "settle", "saveQuota", "mark"}

\* Nothing outside the guarded writes and their billing has touched the task.
Ordinary(t) == t \notin reopened \cup silent \cup gone \cup unpaid

\* Pollers of several nodes, the sweep, queries and the worker all try to end a task:
\* one guarded write does, so the end is billed once, unless a query takes the task out
\* of its final status again (the run task_reopened).
BilledOnce == \A t \in Tasks \ reopened : wins[t] <= 1

\* A task that failed by a guarded write costs nothing once its billing is done, whoever
\* of the actors won and whatever it had read.
FailureRefunded == \A t \in Tasks :
    status[t] = "FAILURE" /\ kind[t] # "legacy" /\ Ordinary(t) /\ ~BeingBilled(t) => net[t] = 0

\* A task that succeeded costs what the upstream reported, or the charge of its
\* submission when it has a fixed price or nothing was reported.
SuccessCharged == \A t \in Tasks :
    status[t] = "SUCCESS" /\ Ordinary(t) /\ ~BeingBilled(t)
        => net[t] = IF cost[t] = Unmeasured \/ kind[t] \in {"suno", "legacy"}
                    THEN base[t] ELSE cost[t]

\* Faults and crashes lose refunds, they never pay one twice: short of a reopened task,
\* nobody is given back more than was charged.
NeverOverRefunded == \A t \in Tasks \ reopened : net[t] >= 0

\* The row keeps the quota that is charged, so that a retry or an audit by hand can go by
\* it; a row that open queries may write whole, and a local image its session has
\* refunded, are left out.
RowMatchesCharge == \A t \in Tasks :
    Stored(t) /\ Ordinary(t) /\ t \notin misrecorded /\ ~BeingBilled(t)
        /\ kind[t] \notin {"configurable", "gemini", "local", "legacy"}
        => quota[t] = net[t]

\* With a timeout set, each task ends, at the latest by the sweep, though answers never
\* come, actors crash and writes are lost to others; except one that reads "100%" from
\* some time on, which the sweep passes over (GetTimedOutUnfinishedTasks): it ends only
\* when a later poll or query brings the end.
TasksEnd == \A t \in Tasks :
    TimeoutMinutes > 0 /\ Stored(t)
        ~> (status[t] \in Final /\ ~BeingBilled(t)) \/ [](status[t] \in Active /\ t \in full)

\* The guarded writes are there so that overlapping polls, sweeps and nodes do not refund
\* twice (service/task_polling.go:415).
RefundedOnce == \A t \in Tasks : net[t] >= 0

\* RefundTaskQuota gives funding and token quota back when an asynchronous task fails
\* (service/task_billing.go:230-231); faults, crashes and missing channels apart.
FailedTasksRefunded == \A t \in Tasks :
    status[t] = "FAILURE" /\ kind[t] # "legacy" /\ t \notin gone \cup unpaid /\ ~BeingBilled(t)
        => net[t] = 0
=============================================================================
