------------------------- MODULE SubscriptionQuota -------------------------
(***************************************************************************)
(* The quota of one subscription (model/subscription.go): advances keyed   *)
(* by the id of their request, adjustments by a delta, resets at the end   *)
(* of a period, expiry, the clean-up of old records, and the refund, which *)
(* opens a second transaction while it holds the first.  A refund is tried *)
(* three times (service/funding_source.go).                                *)
(*                                                                         *)
(* A transaction that is not nested is one step.  Time is what the code    *)
(* compares it with: the reset is due or not, the subscription is over or  *)
(* not.                                                                    *)
(***************************************************************************)
EXTENDS Integers, FiniteSetsExt

CONSTANTS
    Requests,    \* one request id each
    Total,       \* user_subscriptions.amount_total, limited
    Amounts,     \* advances and real costs (bound)
    MaxPeriods,  \* periods after the first (bound)
    MaxFaults,   \* failed transactions, the marking of a record apart (bound)
    MaxMarkFaults, \* failures to mark a record refunded (bound)
    Pools,       \* sizes the pool of database connections may have (bound)
    Databases    \* the databases it may run on, out of "sqlite" and "server"

ASSUME SubscriptionQuotaAssumption ==
    /\ IsFiniteSet(Requests) /\ Total \in Nat \ {0} /\ Amounts \subseteq Nat \ {0}
    /\ MaxPeriods \in Nat /\ MaxFaults \in Nat /\ MaxMarkFaults \in Nat
    /\ Pools \subseteq Nat \ {0} /\ Databases \subseteq {"sqlite", "server"}

VARIABLES
    database,   \* fixed by the deployment; on SQLite an open read keeps others from committing
    conns,      \* connections of its pool (SQL_MAX_OPEN_CONNS)
    used,       \* amount_used
    nextReset,  \* "later", or "passed" by the clock
    status,     \* "active", "over" (end_time passed, not noticed yet), "expired"
    record,     \* subscription_pre_consume_records.status of each request id
    advance,    \* pre_consumed
    pc,         \* where each request stands
    tries,      \* attempts of refundWithRetry so far
    period,     \* the current period
    since,      \* the period in which the request's advance was taken
    net,        \* what the request has taken and not given back
    lateBack,   \* given back in this period by requests of earlier ones
    faults,     \* failed transactions
    markFaults  \* failures to mark a record

ledger == <<used, nextReset, status>>
ghosts == <<period, since, net, lateBack>>
failures == <<faults, markFaults>>
deployment == <<database, conns>>
vars == <<deployment, ledger, record, advance, pc, tries, ghosts, failures>>

MaxAttempts == 3
Places == {"new", "refused", "advanced", "settled", "refund", "locked", "mark",
           "refunded", "abandoned", "crashed"}
Ended == {"refused", "settled", "refunded", "abandoned", "crashed"}

TypeOK ==
    /\ database \in Databases /\ conns \in Pools
    /\ used \in Nat /\ nextReset \in {"later", "passed"} /\ status \in {"active", "over", "expired"}
    /\ record \in [Requests -> {"none", "consumed", "refunded"}]
    /\ advance \in [Requests -> Nat]
    /\ pc \in [Requests -> Places]
    /\ tries \in [Requests -> 0 .. MaxAttempts]
    /\ period \in 0 .. MaxPeriods /\ since \in [Requests -> 0 .. MaxPeriods]
    /\ net \in [Requests -> Int] /\ lateBack \in Nat
    /\ faults \in 0 .. MaxFaults /\ markFaults \in 0 .. MaxMarkFaults

Init ==
    /\ database \in Databases /\ conns \in Pools
    /\ used = 0 /\ nextReset = "later" /\ status = "active"
    /\ record = [r \in Requests |-> "none"] /\ advance = [r \in Requests |-> 0]
    /\ pc = [r \in Requests |-> "new"] /\ tries = [r \in Requests |-> 0]
    /\ period = 0 /\ since = [r \in Requests |-> 0]
    /\ net = [r \in Requests |-> 0] /\ lateBack = 0
    /\ faults = 0 /\ markFaults = 0

Goto(r, l) == pc' = [pc EXCEPT ![r] = l]

Fault == faults < MaxFaults /\ faults' = faults + 1 /\ UNCHANGED markFaults
NoFault == UNCHANGED failures

RowLocks == database = "server"

Due == nextReset = "passed"

\* Connections held by the outer transaction of a refund.
OuterOpen == {r \in Requests : pc[r] \in {"locked", "mark"}}
ConnFree == Cardinality(OuterOpen) < conns

\* On SQLite the commit of one connection waits for the open reads of the others,
\* and gives up.
CommitPasses == RowLocks \/ OuterOpen = {}

-----------------------------------------------------------------------------
(***************************************************************************)
(* Time.                                                                   *)
(***************************************************************************)
PeriodEnds ==
    /\ status = "active" /\ nextReset = "later" /\ period < MaxPeriods
    /\ nextReset' = "passed"
    /\ UNCHANGED <<used, status, record, advance, pc, tries, ghosts, failures>>

SubscriptionEnds ==
    /\ status = "active"
    /\ status' = "over"
    /\ UNCHANGED <<used, nextReset, record, advance, pc, tries, ghosts, failures>>

ExpireDueSubscriptions ==
    /\ status = "over" /\ ConnFree /\ CommitPasses
    /\ status' = "expired"
    /\ UNCHANGED <<used, nextReset, record, advance, pc, tries, ghosts, failures>>

NewPeriod == period' = period + 1 /\ lateBack' = 0

\* maybeResetUserSubscriptionWithPlanTx, by the maintenance task of the master node,
\* which looks at active rows only: one that is over and not yet marked is active.
ResetDueSubscriptions ==
    /\ Due /\ status # "expired" /\ ConnFree /\ CommitPasses
    /\ used' = 0 /\ nextReset' = "later" /\ NewPeriod
    /\ UNCHANGED <<status, record, advance, pc, tries, since, net, failures>>

\* Records untouched for a week go; no request lasts as long.
CleanupSubscriptionPreConsumeRecords ==
    /\ ConnFree /\ CommitPasses
    /\ \E r \in Requests :
        /\ pc[r] \in Ended /\ record[r] # "none"
        /\ record' = [record EXCEPT ![r] = "none"]
    /\ UNCHANGED <<ledger, advance, pc, tries, ghosts, failures>>

-----------------------------------------------------------------------------
(***************************************************************************)
(* The advance.                                                            *)
(***************************************************************************)
\* A request id that has a record already gets that record back, or an error, and
\* changes nothing: the ids are new here.  A due reset is part of the transaction, and
\* lost with it when it is rolled back.
Mut_UsedBefore == 0
UsedBefore == IF Due THEN 0 ELSE used

Mut_Fits(a) == Total - UsedBefore >= a - 1
Fits(a) == Total - UsedBefore >= a

PreConsumeUserSubscription(r, a) ==
    /\ pc[r] = "new" /\ ConnFree /\ CommitPasses
    /\ status = "active" /\ Fits(a)
    /\ used' = UsedBefore + a
    /\ nextReset' = "later"
    /\ IF Due THEN NewPeriod ELSE UNCHANGED <<period, lateBack>>
    /\ record' = [record EXCEPT ![r] = "consumed"]
    /\ advance' = [advance EXCEPT ![r] = a]
    /\ since' = [since EXCEPT ![r] = period']
    /\ net' = [net EXCEPT ![r] = a]
    /\ Goto(r, "advanced")
    /\ NoFault
    /\ UNCHANGED <<status, tries>>

PreConsumeRefused(r, a) ==
    /\ pc[r] = "new" /\ ConnFree
    /\ \/ (status # "active" \/ ~Fits(a) \/ ~CommitPasses) /\ NoFault
       \/ Fault
    /\ Goto(r, "refused")
    /\ UNCHANGED <<ledger, record, advance, tries, ghosts>>

-----------------------------------------------------------------------------
(***************************************************************************)
(* PostConsumeUserSubscriptionDelta, on its own or inside a refund.        *)
(***************************************************************************)
Mut_AfterDelta_Unclamped(d) == used + d
Mut_AfterDelta_NoRefund(d) == IF d < 0 THEN used ELSE used + d
AfterDelta(d) == IF used + d < 0 THEN 0 ELSE used + d

DeltaFits(d) == AfterDelta(d) <= Total

ApplyDelta(r, d) ==
    /\ used' = AfterDelta(d)
    /\ net' = [net EXCEPT ![r] = @ + d]
    /\ lateBack' = IF since[r] < period /\ d < 0 THEN lateBack - d ELSE lateBack
    /\ UNCHANGED <<nextReset, status, period, since>>

\* SubscriptionFunding.Settle; a refused settlement leaves the advance in place.
Settle(r, cost) ==
    /\ pc[r] = "advanced" /\ ConnFree /\ CommitPasses
    /\ DeltaFits(cost - advance[r])
    /\ ApplyDelta(r, cost - advance[r])
    /\ Goto(r, "settled")
    /\ NoFault
    /\ UNCHANGED <<record, advance, tries>>

\* A failed request: the session asks for the refund.
RequestFails(r) ==
    /\ pc[r] = "advanced"
    /\ Goto(r, "refund")
    /\ NoFault
    /\ UNCHANGED <<ledger, record, advance, tries, ghosts>>

-----------------------------------------------------------------------------
(***************************************************************************)
(* RefundSubscriptionPreConsume, attempted by refundWithRetry.             *)
(***************************************************************************)
Mut_Attempt(r, l) == Goto(r, l) /\ UNCHANGED tries
Attempt(r, l) == tries' = [tries EXCEPT ![r] = @ + 1] /\ Goto(r, l)

\* The attempt fails; the outer transaction, if open, is rolled back.
AttemptFails(r) == Goto(r, IF tries[r] < MaxAttempts THEN "refund" ELSE "abandoned")

Mut_AlreadyRefunded(r) == record[r] # "none"
AlreadyRefunded(r) == record[r] = "refunded"

\* The outer transaction locks the record.
LockRecord(r) ==
    /\ pc[r] = "refund" /\ ConnFree
    /\ Attempt(r, IF AlreadyRefunded(r) THEN "refunded" ELSE "locked")
    /\ NoFault
    /\ UNCHANGED <<ledger, record, advance, ghosts>>

LockRecordFails(r) ==
    /\ pc[r] = "refund" /\ ConnFree
    /\ tries' = [tries EXCEPT ![r] = @ + 1]
    /\ Goto(r, IF tries'[r] < MaxAttempts THEN "refund" ELSE "abandoned")
    /\ Fault
    /\ UNCHANGED <<ledger, record, advance, ghosts>>

\* The inner transaction takes a connection of its own and commits by itself.
GiveBack(r) ==
    /\ pc[r] = "locked" /\ ConnFree /\ RowLocks
    /\ ApplyDelta(r, -advance[r])
    /\ Goto(r, "mark")
    /\ NoFault
    /\ UNCHANGED <<record, advance, tries>>

GiveBackFails(r) ==
    /\ pc[r] = "locked" /\ ConnFree
    /\ \/ ~RowLocks /\ NoFault
       \/ Fault
    /\ AttemptFails(r)
    /\ UNCHANGED <<ledger, record, advance, tries, ghosts>>

\* The outer transaction saves the record and commits.
Mut_MarkRefunded(r) ==
    /\ pc[r] = "mark"
    /\ AttemptFails(r)
    /\ NoFault
    /\ UNCHANGED <<ledger, record, advance, tries, ghosts>>
MarkRefunded(r) ==
    /\ pc[r] = "mark"
    /\ record' = [record EXCEPT ![r] = "refunded"]
    /\ Goto(r, "refunded")
    /\ NoFault
    /\ UNCHANGED <<ledger, advance, tries, ghosts>>

MarkRefundedFails(r) ==
    /\ pc[r] = "mark"
    /\ markFaults < MaxMarkFaults /\ markFaults' = markFaults + 1
    /\ AttemptFails(r)
    /\ UNCHANGED <<ledger, record, advance, tries, ghosts, faults>>

\* The process dies: an open outer transaction is rolled back, nobody retries.
Crash(r) ==
    /\ pc[r] \notin Ended
    /\ Goto(r, "crashed")
    /\ NoFault
    /\ UNCHANGED <<ledger, record, advance, tries, ghosts>>

-----------------------------------------------------------------------------
Maintain ==
    \/ ExpireDueSubscriptions \/ ResetDueSubscriptions
    \/ CleanupSubscriptionPreConsumeRecords

Refund(r) ==
    \/ LockRecord(r) \/ LockRecordFails(r)
    \/ GiveBack(r) \/ GiveBackFails(r)
    \/ MarkRefunded(r) \/ MarkRefundedFails(r)

Request(r) ==
    \/ \E a \in Amounts : PreConsumeUserSubscription(r, a) \/ PreConsumeRefused(r, a)
    \/ \E cost \in Amounts : Settle(r, cost)
    \/ RequestFails(r) \/ Refund(r)

Next ==
    /\ \/ PeriodEnds \/ SubscriptionEnds \/ Maintain
       \/ \E r \in Requests : Request(r) \/ Crash(r)
    /\ UNCHANGED deployment

Spec == Init /\ [][Next]_vars

\* The goroutine of a refund goes on until it is done; nothing else has to happen.
FairSpec == Spec /\ \A r \in Requests : WF_vars(Refund(r) /\ UNCHANGED deployment)

-----------------------------------------------------------------------------
(***************************************************************************)
(* Properties.                                                             *)
(***************************************************************************)
\* Advances, reserves and settlements of concurrent requests, resets and refunds
\* never take the subscription past its total (PostConsumeUserSubscriptionDelta).
UsedWithinTotal == used <= Total

Sum(S) == MapThenSumSet(LAMBDA r : net[r], S)

\* Unless saving a record failed, the period's usage never falls below what its own requests hold, except for what
\* requests of an earlier period gave back: a refund clears nobody else's usage.
UsageCovered ==
    markFaults = 0 =>
      used + lateBack >= Sum({r \in Requests : since[r] = period /\ net[r] > 0})

\* Until the first reset, usage is exactly what the requests hold.
UsageExact == period = 0 /\ markFaults = 0 => used = Sum(Requests)

\* Unless saving a record failed, a request gives back no more than it advanced,
\* however often the refund is tried.
NoDoubleRefund == markFaults = 0 => \A r \in Requests : net[r] >= 0

\* "RefundSubscriptionPreConsume is idempotent" (its comment), so that it may be
\* retried after any failure: the quota never comes back twice.
RefundIdempotent == \A r \in Requests : net[r] >= 0

\* With row locks, a refund that went through, or was never hit by a failure, has
\* given the advance back.
RefundRestores ==
    RowLocks /\ markFaults = 0 =>
        \A r \in Requests :
            (pc[r] = "refunded" \/ (pc[r] = "abandoned" /\ faults = 0)) => net[r] = 0

\* "refunds pre-consumed subscription quota by requestId" (comment of
\* RefundSubscriptionPreConsume): where nothing failed, no refund is abandoned.
RefundSucceeds ==
    faults = 0 /\ markFaults = 0 => \A r \in Requests : pc[r] # "abandoned"

\* Refunds hold every connection of the pool, and each waits for one more to give its
\* advance back (subscription.go:1493): database/sql lets them wait without a limit.
Exhausted == Cardinality({r \in Requests : pc[r] = "locked"}) >= conns

\* A refund that was asked for comes to an end through its three attempts, whatever fails
\* and on either database, unless from some time on the pool is exhausted for ever.
RefundEnds == \A r \in Requests : pc[r] = "refund" ~> pc[r] \in Ended \/ []Exhausted
=============================================================================
