---------------------- MODULE SubscriptionQuotaProofs ----------------------
(***************************************************************************)
(* Proofs about SubscriptionQuota, for any set of requests, any total and  *)
(* any number of periods and of failed transactions.  What a request holds *)
(* is accounted for by its place until saving a record fails for the first *)
(* time, which is when a refund can be given twice.                        *)
(***************************************************************************)
EXTENDS SubscriptionQuota, FiniteSums, TLAPS

\* Only a transaction that fits raises used; every other one lowers it.  A reset that
\* is due was scheduled before the last period.
Bounded == used \in 0 .. Total /\ (Due => period < MaxPeriods)

\* A request that may still attempt its refund has attempts left.
Tried(r) == pc[r] \in {"new", "advanced", "refund"} => tries[r] < MaxAttempts

\* What a request holds, by the place it is in.
Held(r) ==
    /\ pc[r] \in {"new", "refused"} => net[r] = 0
    /\ pc[r] \in {"advanced", "refund", "locked"} =>
         /\ net[r] = advance[r]
         /\ record[r] = "consumed"
    /\ pc[r] \in {"mark", "refunded"} => net[r] = 0
    /\ pc[r] = "abandoned" /\ RowLocks => faults > 0
    /\ net[r] >= 0

Inv ==
    /\ TypeOK /\ Bounded
    /\ \A r \in Requests : Tried(r)
    /\ markFaults = 0 => \A r \in Requests : Held(r)

-----------------------------------------------------------------------------
LEMMA InitInv == Init => Inv
<1> USE SubscriptionQuotaAssumption DEF SubscriptionQuotaAssumption
<1> SUFFICES ASSUME Init PROVE Inv
  OBVIOUS
<1>1. TypeOK
  BY DEF Init, TypeOK, Places, MaxAttempts
<1>2. Bounded
  BY DEF Init, Bounded, Due
<1>4. \A r \in Requests : Tried(r)
  BY DEF Init, Tried, MaxAttempts
<1>3. \A r \in Requests : Held(r)
  BY DEF Init, Held, RowLocks
<1> QED
  BY <1>1, <1>2, <1>3, <1>4 DEF Inv

\* A step of request r that keeps used within the total and what r holds accounted for.
StepOf(r) ==
    /\ TypeOK' /\ Bounded' /\ Tried(r)'
    /\ markFaults' = 0 => Held(r)'
    /\ \A q \in Requests : q # r =>
         pc'[q] = pc[q] /\ net'[q] = net[q] /\ advance'[q] = advance[q] /\ record'[q] = record[q]
         /\ tries'[q] = tries[q]
    /\ faults' >= faults /\ markFaults' >= markFaults /\ UNCHANGED deployment

LEMMA StepKeeps ==
    ASSUME Inv, NEW r \in Requests, StepOf(r)
    PROVE  Inv'
<1>1. faults \in Nat /\ faults' \in Nat /\ markFaults \in Nat /\ markFaults' \in Nat
  BY SubscriptionQuotaAssumption DEF SubscriptionQuotaAssumption, StepOf, Inv, TypeOK
<1>2. ASSUME markFaults' = 0, NEW q \in Requests PROVE Held(q)'
  <2>1. CASE q = r
    BY <1>2, <2>1 DEF StepOf
  <2>2. CASE q # r
    BY <1>1, <1>2, <2>2 DEF Inv, StepOf, Held, RowLocks, deployment
  <2> QED
    BY <2>1, <2>2
<1>3. ASSUME NEW q \in Requests PROVE Tried(q)'
  BY DEF Inv, StepOf, Tried
<1> QED
  BY <1>2, <1>3 DEF Inv, StepOf

-----------------------------------------------------------------------------
\* One step per action of a request; the invariant of the request itself, then its types.
LEMMA RequestInv == ASSUME Inv, NEW r \in Requests, Request(r) \/ Crash(r), UNCHANGED deployment PROVE Inv'
<1> USE SubscriptionQuotaAssumption DEF SubscriptionQuotaAssumption, Places, Ended, MaxAttempts,
        deployment, ledger, ghosts, failures, Due, RowLocks, Goto, NoFault, Fault, NewPeriod
<1>t. TypeOK /\ Bounded /\ Tried(r) /\ (markFaults = 0 => Held(r))
  BY DEF Inv
<1>1. ASSUME NEW a \in Amounts, PreConsumeUserSubscription(r, a) PROVE StepOf(r)
  <2>1. TypeOK' /\ Bounded' /\ Tried(r)' /\ faults' >= faults /\ markFaults' >= markFaults
    BY <1>t, <1>1 DEF TypeOK, Bounded, Tried, Held, PreConsumeUserSubscription, Fits, UsedBefore
  <2>2. markFaults' = 0 => Held(r)'
    BY <1>t, <1>1 DEF TypeOK, Held, PreConsumeUserSubscription, Fits, UsedBefore
  <2>3. \A q \in Requests : q # r =>
          pc'[q] = pc[q] /\ net'[q] = net[q] /\ advance'[q] = advance[q] /\ record'[q] = record[q]
          /\ tries'[q] = tries[q]
    BY <1>t, <1>1 DEF TypeOK, PreConsumeUserSubscription, Fits, UsedBefore
  <2> QED
    BY <2>1, <2>2, <2>3 DEF StepOf
<1>2. ASSUME NEW a \in Amounts, PreConsumeRefused(r, a) PROVE StepOf(r)
  <2>1. TypeOK' /\ Bounded' /\ Tried(r)' /\ faults' >= faults /\ markFaults' >= markFaults
    BY <1>t, <1>2 DEF TypeOK, Bounded, Tried, Held, PreConsumeRefused
  <2>2. markFaults' = 0 => Held(r)'
    BY <1>t, <1>2 DEF TypeOK, Held, PreConsumeRefused
  <2>3. \A q \in Requests : q # r =>
          pc'[q] = pc[q] /\ net'[q] = net[q] /\ advance'[q] = advance[q] /\ record'[q] = record[q]
          /\ tries'[q] = tries[q]
    BY <1>t, <1>2 DEF TypeOK, PreConsumeRefused
  <2> QED
    BY <2>1, <2>2, <2>3 DEF StepOf
<1>3. ASSUME NEW c \in Amounts, Settle(r, c) PROVE StepOf(r)
  <2>1. TypeOK' /\ Bounded' /\ Tried(r)' /\ faults' >= faults /\ markFaults' >= markFaults
    BY <1>t, <1>3 DEF TypeOK, Bounded, Tried, Held, Settle, ApplyDelta, AfterDelta, DeltaFits
  <2>2. markFaults' = 0 => Held(r)'
    BY <1>t, <1>3 DEF TypeOK, Held, Settle, ApplyDelta, AfterDelta, DeltaFits
  <2>3. \A q \in Requests : q # r =>
          pc'[q] = pc[q] /\ net'[q] = net[q] /\ advance'[q] = advance[q] /\ record'[q] = record[q]
          /\ tries'[q] = tries[q]
    BY <1>t, <1>3 DEF TypeOK, Settle, ApplyDelta, AfterDelta, DeltaFits
  <2> QED
    BY <2>1, <2>2, <2>3 DEF StepOf
<1>4. ASSUME RequestFails(r) PROVE StepOf(r)
  <2>1. TypeOK' /\ Bounded' /\ Tried(r)' /\ faults' >= faults /\ markFaults' >= markFaults
    BY <1>t, <1>4 DEF TypeOK, Bounded, Tried, Held, RequestFails
  <2>2. markFaults' = 0 => Held(r)'
    BY <1>t, <1>4 DEF TypeOK, Held, RequestFails
  <2>3. \A q \in Requests : q # r =>
          pc'[q] = pc[q] /\ net'[q] = net[q] /\ advance'[q] = advance[q] /\ record'[q] = record[q]
          /\ tries'[q] = tries[q]
    BY <1>t, <1>4 DEF TypeOK, RequestFails
  <2> QED
    BY <2>1, <2>2, <2>3 DEF StepOf
<1>5. ASSUME LockRecord(r) PROVE StepOf(r)
  <2>1. TypeOK' /\ Bounded' /\ Tried(r)' /\ faults' >= faults /\ markFaults' >= markFaults
    BY <1>t, <1>5 DEF TypeOK, Bounded, Tried, Held, LockRecord, Attempt, AlreadyRefunded
  <2>2. markFaults' = 0 => Held(r)'
    BY <1>t, <1>5 DEF TypeOK, Held, LockRecord, Attempt, AlreadyRefunded
  <2>3. \A q \in Requests : q # r =>
          pc'[q] = pc[q] /\ net'[q] = net[q] /\ advance'[q] = advance[q] /\ record'[q] = record[q]
          /\ tries'[q] = tries[q]
    BY <1>t, <1>5 DEF TypeOK, LockRecord, Attempt, AlreadyRefunded
  <2> QED
    BY <2>1, <2>2, <2>3 DEF StepOf
<1>6. ASSUME LockRecordFails(r) PROVE StepOf(r)
  <2>1. TypeOK' /\ Bounded' /\ Tried(r)' /\ faults' >= faults /\ markFaults' >= markFaults
    BY <1>t, <1>6 DEF TypeOK, Bounded, Tried, Held, LockRecordFails
  <2>2. markFaults' = 0 => Held(r)'
    BY <1>t, <1>6 DEF TypeOK, Held, LockRecordFails
  <2>3. \A q \in Requests : q # r =>
          pc'[q] = pc[q] /\ net'[q] = net[q] /\ advance'[q] = advance[q] /\ record'[q] = record[q]
          /\ tries'[q] = tries[q]
    BY <1>t, <1>6 DEF TypeOK, LockRecordFails
  <2> QED
    BY <2>1, <2>2, <2>3 DEF StepOf
<1>7. ASSUME GiveBack(r) PROVE StepOf(r)
  <2>1. TypeOK' /\ Bounded' /\ Tried(r)' /\ faults' >= faults /\ markFaults' >= markFaults
    BY <1>t, <1>7 DEF TypeOK, Bounded, Tried, Held, GiveBack, ApplyDelta, AfterDelta
  <2>2. markFaults' = 0 => Held(r)'
    BY <1>t, <1>7 DEF TypeOK, Held, GiveBack, ApplyDelta, AfterDelta
  <2>3. \A q \in Requests : q # r =>
          pc'[q] = pc[q] /\ net'[q] = net[q] /\ advance'[q] = advance[q] /\ record'[q] = record[q]
          /\ tries'[q] = tries[q]
    BY <1>t, <1>7 DEF TypeOK, GiveBack, ApplyDelta, AfterDelta
  <2> QED
    BY <2>1, <2>2, <2>3 DEF StepOf
<1>8. ASSUME GiveBackFails(r) PROVE StepOf(r)
  <2>1. TypeOK' /\ Bounded' /\ Tried(r)' /\ faults' >= faults /\ markFaults' >= markFaults
    BY <1>t, <1>8 DEF TypeOK, Bounded, Tried, Held, GiveBackFails, AttemptFails
  <2>2. markFaults' = 0 => Held(r)'
    BY <1>t, <1>8 DEF TypeOK, Held, GiveBackFails, AttemptFails
  <2>3. \A q \in Requests : q # r =>
          pc'[q] = pc[q] /\ net'[q] = net[q] /\ advance'[q] = advance[q] /\ record'[q] = record[q]
          /\ tries'[q] = tries[q]
    BY <1>t, <1>8 DEF TypeOK, GiveBackFails, AttemptFails
  <2> QED
    BY <2>1, <2>2, <2>3 DEF StepOf
<1>9. ASSUME MarkRefunded(r) PROVE StepOf(r)
  <2>1. TypeOK' /\ Bounded' /\ Tried(r)' /\ faults' >= faults /\ markFaults' >= markFaults
    BY <1>t, <1>9 DEF TypeOK, Bounded, Tried, Held, MarkRefunded
  <2>2. markFaults' = 0 => Held(r)'
    BY <1>t, <1>9 DEF TypeOK, Held, MarkRefunded
  <2>3. \A q \in Requests : q # r =>
          pc'[q] = pc[q] /\ net'[q] = net[q] /\ advance'[q] = advance[q] /\ record'[q] = record[q]
          /\ tries'[q] = tries[q]
    BY <1>t, <1>9 DEF TypeOK, MarkRefunded
  <2> QED
    BY <2>1, <2>2, <2>3 DEF StepOf
<1>10. ASSUME MarkRefundedFails(r) PROVE StepOf(r)
  <2>1. TypeOK' /\ Bounded' /\ Tried(r)' /\ faults' >= faults /\ markFaults' >= markFaults
    BY <1>t, <1>10 DEF TypeOK, Bounded, Tried, Held, MarkRefundedFails, AttemptFails
  <2>2. markFaults' = 0 => Held(r)'
    BY <1>t, <1>10 DEF TypeOK, Held, MarkRefundedFails, AttemptFails
  <2>3. \A q \in Requests : q # r =>
          pc'[q] = pc[q] /\ net'[q] = net[q] /\ advance'[q] = advance[q] /\ record'[q] = record[q]
          /\ tries'[q] = tries[q]
    BY <1>t, <1>10 DEF TypeOK, MarkRefundedFails, AttemptFails
  <2> QED
    BY <2>1, <2>2, <2>3 DEF StepOf
<1>11. ASSUME Crash(r) PROVE StepOf(r)
  <2>1. TypeOK' /\ Bounded' /\ Tried(r)' /\ faults' >= faults /\ markFaults' >= markFaults
    BY <1>t, <1>11 DEF TypeOK, Bounded, Tried, Held, Crash
  <2>2. markFaults' = 0 => Held(r)'
    BY <1>t, <1>11 DEF TypeOK, Held, Crash
  <2>3. \A q \in Requests : q # r =>
          pc'[q] = pc[q] /\ net'[q] = net[q] /\ advance'[q] = advance[q] /\ record'[q] = record[q]
          /\ tries'[q] = tries[q]
    BY <1>t, <1>11 DEF TypeOK, Crash
  <2> QED
    BY <2>1, <2>2, <2>3 DEF StepOf
<1> QED
  BY <1>1, <1>2, <1>3, <1>4, <1>5, <1>6, <1>7, <1>8, <1>9, <1>10, <1>11, StepKeeps DEF Request, Refund

\* Time and maintenance change no request, but for a record nobody needs any more.
LEMMA MaintainInv ==
    ASSUME Inv, PeriodEnds \/ SubscriptionEnds \/ Maintain, UNCHANGED deployment
    PROVE  Inv'
<1> USE SubscriptionQuotaAssumption DEF SubscriptionQuotaAssumption, Places, Ended, MaxAttempts,
        deployment, ledger, ghosts, failures, Due, RowLocks, Goto, NoFault, Fault, NewPeriod
<1>t. TypeOK /\ Bounded
  BY DEF Inv
<1> USE DEF PeriodEnds, SubscriptionEnds, Maintain, ExpireDueSubscriptions,
        ResetDueSubscriptions, CleanupSubscriptionPreConsumeRecords
<1>1. TypeOK' /\ Bounded' /\ UNCHANGED markFaults
  BY <1>t DEF TypeOK, Bounded
<1>2. ASSUME markFaults' = 0, NEW r \in Requests PROVE Held(r)'
  BY <1>t, <1>1, <1>2 DEF Inv, TypeOK, Held
<1>3. ASSUME NEW r \in Requests PROVE Tried(r)'
  BY DEF Inv, Tried
<1> QED
  BY <1>1, <1>2, <1>3 DEF Inv

LEMMA StepInv == Inv /\ [Next]_vars => Inv'
<1> SUFFICES ASSUME Inv, [Next]_vars PROVE Inv'
  OBVIOUS
<1>1. CASE UNCHANGED vars
  BY <1>1 DEF Inv, TypeOK, Bounded, Tried, Held, vars, deployment, Due, RowLocks, ledger, ghosts, failures
<1> QED
  BY <1>1, RequestInv, MaintainInv DEF Next

THEOREM Invariance == Spec => []Inv
BY InitInv, StepInv, PTL DEF Spec

-----------------------------------------------------------------------------
\* Columns, records and counters keep their types: amount_used is never negative.
THEOREM TypeCorrectness == Spec => []TypeOK
<1>1. Inv => TypeOK
  BY DEF Inv
<1> QED
  BY <1>1, Invariance, PTL

\* Whatever requests, resets and refunds interleave, the total is never exceeded.
THEOREM UsedWithinTotalAlways == Spec => []UsedWithinTotal
<1>1. Inv => UsedWithinTotal
  BY SubscriptionQuotaAssumption DEF SubscriptionQuotaAssumption, Inv, Bounded, UsedWithinTotal
<1> QED
  BY <1>1, Invariance, PTL

\* Until saving a record fails, a refund that is tried again gives back only once.
THEOREM NoDoubleRefundAlways == Spec => []NoDoubleRefund
<1>1. Inv => NoDoubleRefund
  BY DEF Inv, Held, NoDoubleRefund
<1> QED
  BY <1>1, Invariance, PTL

\* With row locks, a refund gives the advance back unless a failed transaction
\* stopped it.
THEOREM RefundRestoresAlways == Spec => []RefundRestores
<1>1. Inv => RefundRestores
  BY SubscriptionQuotaAssumption DEF SubscriptionQuotaAssumption, Inv, TypeOK, Held, RowLocks, RefundRestores
<1> QED
  BY <1>1, Invariance, PTL

-----------------------------------------------------------------------------
(***************************************************************************)
(* Usage against what the requests hold.                                   *)
(***************************************************************************)
\* What the requests of this period hold, a column that is 0 for every other.
Current == [r \in Requests |-> IF since[r] = period THEN net[r] ELSE 0]

Exact == period = 0 => used = SumOf(net, Requests)
Covered == used + lateBack >= SumOf(Current, Requests)

Usage ==
    /\ \A r \in Requests : since[r] <= period
    /\ markFaults = 0 => Exact /\ Covered

\* What a step may do to the columns that Usage is about: nothing, an advance,
\* a new period, or a delta that takes no more than the request holds.
Idle == UNCHANGED <<used, period, since, net, lateBack>>

Advances(r, a) ==
    /\ net[r] = 0 /\ a \in Nat
    /\ net' = [net EXCEPT ![r] = a] /\ since' = [since EXCEPT ![r] = period']
    /\ \/ used' = used + a /\ UNCHANGED <<period, lateBack>>
       \/ used' = a /\ NewPeriod

Resets == used' = 0 /\ NewPeriod /\ UNCHANGED <<since, net>>

Moves(r, d) == d \in Int /\ net[r] + d >= 0 /\ ApplyDelta(r, d)

Columns(r) == Idle \/ (\E a \in Nat : Advances(r, a)) \/ Resets \/ (\E d \in Int : Moves(r, d))

Counts == \A r \in Requests : net[r] \in Nat /\ since[r] \in Nat

LEMMA IdleUsage ==
    ASSUME Usage, Idle, markFaults' = 0 => markFaults = 0
    PROVE  Usage'
<1>1. Current' = Current
  BY DEF Idle, Current
<1> QED
  BY <1>1 DEF Idle, Usage, Exact, Covered

\* Nothing is held in a period that has just begun.
LEMMA NewPeriodUsage ==
    ASSUME TypeOK, \A r \in Requests : since[r] <= period,
           NEW r \in Requests, NEW a \in Nat,
           NewPeriod, used' = a, \A q \in Requests \ {r} : since'[q] = since[q] /\ net'[q] = net[q],
           \/ since'[r] = period' /\ net'[r] = a
           \/ since'[r] = since[r] /\ a = 0
    PROVE  Usage'
<1> USE SubscriptionQuotaAssumption DEF SubscriptionQuotaAssumption, NewPeriod
<1> DEFINE g == Current'
<1>1. period \in Nat /\ period' = period + 1 /\ \A q \in Requests : since[q] \in Nat
  BY DEF TypeOK
<1>2. \A q \in Requests : since'[q] <= period'
  BY <1>1
<1>3. \A q \in Requests \ {r} : g[q] = 0
  BY <1>1 DEF Current
<1>4. g[r] = a
  BY <1>1 DEF Current
<1>5. SumOf(g, Requests) = a
  <2>1. SumOf(g, {r}) = SumOf(g, Requests)
    BY <1>3, <1>4, SumOfSupport
  <2>2. SumOf(g, {}) = 0 /\ IsFiniteSet({})
    BY SumOfEmpty, FS_EmptySet
  <2>3. SumOf(g, {} \cup {r}) = g[r] + SumOf(g, {})
    BY <1>4, <2>2, SumOfAdd
  <2>4. {} \cup {r} = {r}
    OBVIOUS
  <2> QED  BY <1>4, <2>1, <2>2, <2>3, <2>4
<1>6. lateBack' = 0 /\ period' # 0
  BY <1>1
<1> QED  BY <1>2, <1>5, <1>6 DEF Usage, Exact, Covered

\* Within a period, usage and the columns move together.
LEMMA DeltaUsage ==
    ASSUME TypeOK, Counts, Usage, markFaults' = 0 => markFaults = 0,
           NEW r \in Requests, NEW d \in Int, net[r] + d >= 0,
           net' = [net EXCEPT ![r] = @ + d], UNCHANGED period,
           \/ since' = since \/ (since' = [since EXCEPT ![r] = period'] /\ net[r] = 0),
           used' = AfterDelta(d),
           lateBack' = IF since'[r] < period /\ d < 0 THEN lateBack - d ELSE lateBack
    PROVE  Usage'
<1> USE SubscriptionQuotaAssumption DEF SubscriptionQuotaAssumption
<1>1. used \in Nat /\ lateBack \in Nat /\ period \in Nat /\ net \in [Requests -> Int] /\ since \in [Requests -> Nat]
  BY DEF TypeOK
<1>2. \A q \in Requests : since'[q] <= period' /\ net'[q] \in Int
  BY <1>1 DEF Usage
<1>3. net'[r] = net[r] + d /\ \A q \in Requests : q # r => net'[q] = net[q] /\ since'[q] = since[q]
  BY <1>1
<1>4. ASSUME markFaults' = 0 PROVE Exact'
  <2>1. SUFFICES ASSUME period = 0 PROVE used' = SumOf(net', Requests)
    BY DEF Exact
  <2>2. used = SumOf(net, Requests)
    BY <1>4, <2>1 DEF Usage, Exact
  <2>3. SumOf(net', Requests) = SumOf(net, Requests) + net'[r] - net[r]
    <3> DEFINE g == net'
    <3>1. \A q \in Requests : net[q] \in Int /\ g[q] \in Int
      BY <1>1, <1>2
    <3>2. \A q \in Requests : q # r => g[q] = net[q]
      BY <1>3
    <3> HIDE DEF g
    <3>3. SumOf(g, Requests) = SumOf(net, Requests) + g[r] - net[r]
      BY <3>1, <3>2, SumOfUpdate
    <3> QED  BY <3>3 DEF g
  <2>4. net[r] <= SumOf(net, Requests)
    <3>1. SumOf(net, {r}) <= SumOf(net, Requests)
      BY <1>1, SumOfPart DEF Counts
    <3>2. SumOf(net, {}) = 0 /\ IsFiniteSet({}) /\ {} \cup {r} = {r}
      BY SumOfEmpty, FS_EmptySet
    <3>3. SumOf(net, {} \cup {r}) = net[r] + SumOf(net, {})
      BY <1>1, <3>2, SumOfAdd
    <3> QED  BY <1>1, <3>1, <3>2, <3>3
  <2>5. net[r] \in Int
    BY <1>1
  <2> QED  BY <1>1, <1>3, <2>2, <2>3, <2>4, <2>5 DEF AfterDelta
<1>5. ASSUME markFaults' = 0 PROVE Covered'
  <2> DEFINE g == Current'
  <2>1. \A q \in Requests : Current[q] \in Int /\ g[q] \in Int
    BY <1>1, <1>2 DEF Current
  <2>2. \A q \in Requests : q # r => g[q] = Current[q]
    BY <1>1, <1>3 DEF Current
  <2>3. SumOf(g, Requests) = SumOf(Current, Requests) + g[r] - Current[r]
    BY <2>1, <2>2, SumOfUpdate
  <2>4. SumOf(Current, Requests) \in Int
    BY <2>1, SumOfType
  <2>5. used + lateBack >= SumOf(Current, Requests)
    BY <1>5 DEF Usage, Covered
  <2>6. CASE since'[r] = period
    <3>1. g[r] - Current[r] = d
      BY <1>1, <1>3, <2>6 DEF Current
    <3>2. used' >= used + d /\ lateBack' = lateBack /\ used' \in Int
      BY <1>1, <2>6 DEF AfterDelta
    <3> QED  BY <1>1, <2>1, <2>3, <2>4, <2>5, <3>1, <3>2 DEF Covered
  <2>7. CASE since'[r] # period
    <3>1. g[r] = 0 /\ Current[r] = 0 /\ since'[r] < period
      BY <1>1, <1>2, <2>7 DEF Current
    <3>2. used' + lateBack' >= used + lateBack /\ used' \in Int /\ lateBack' \in Int
      BY <1>1, <3>1 DEF AfterDelta
    <3> QED  BY <1>1, <2>1, <2>3, <2>4, <2>5, <3>1, <3>2 DEF Covered
  <2> QED  BY <2>6, <2>7
<1> QED  BY <1>2, <1>4, <1>5 DEF Usage

LEMMA ColumnsUsage ==
    ASSUME TypeOK, Counts, Usage, markFaults' = 0 => markFaults = 0,
           NEW r \in Requests, Columns(r)
    PROVE  Usage'
<1>t. net \in [Requests -> Int] /\ since \in [Requests -> Nat] /\ used \in Nat
  BY SubscriptionQuotaAssumption DEF SubscriptionQuotaAssumption, TypeOK
<1>1. CASE Idle
  BY <1>1, IdleUsage
<1>2. ASSUME NEW a \in Nat, Advances(r, a) PROVE Usage'
  <2>1. CASE used' = a /\ NewPeriod
    <3>1. since'[r] = period' /\ net'[r] = a /\ \A q \in Requests \ {r} : since'[q] = since[q] /\ net'[q] = net[q]
      BY <1>t, <1>2 DEF Advances
    <3> QED  BY <2>1, <3>1, NewPeriodUsage DEF Usage
  <2>2. CASE used' = used + a /\ UNCHANGED <<period, lateBack>>
    <3>1. net' = [net EXCEPT ![r] = @ + a] /\ net[r] + a >= 0
      BY <1>t, <1>2 DEF Advances
    <3>2. used' = AfterDelta(a)
      BY <1>t, <2>2 DEF AfterDelta
    <3>3. since' = [since EXCEPT ![r] = period'] /\ net[r] = 0
      BY <1>2 DEF Advances
    <3>4. lateBack' = IF since'[r] < period /\ a < 0 THEN lateBack - a ELSE lateBack
      BY <2>2
    <3>5. a \in Int /\ net[r] + a >= 0 /\ period' = period
      BY <2>2, <3>1
    <3>6. net' = [net EXCEPT ![r] = @ + a]
      BY <3>1
    <3> QED  BY <3>2, <3>3, <3>4, <3>5, <3>6, DeltaUsage
  <2> QED  BY <1>2, <2>1, <2>2 DEF Advances
<1>3. CASE Resets
  BY <1>3, NewPeriodUsage DEF Resets, Usage
<1>4. ASSUME NEW d \in Int, Moves(r, d) PROVE Usage'
  <2>1. ApplyDelta(r, d) /\ net[r] + d >= 0
    BY <1>4 DEF Moves
  <2> QED  BY <2>1, DeltaUsage DEF ApplyDelta
<1> QED  BY <1>1, <1>2, <1>3, <1>4 DEF Columns

\* Every action moves the columns in one of these ways, while no record was lost.
LEMMA RequestColumns ==
    ASSUME Inv, markFaults = 0, NEW r \in Requests, Request(r) \/ Crash(r)
    PROVE  Columns(r)
<1> USE SubscriptionQuotaAssumption DEF SubscriptionQuotaAssumption
<1>t. Held(r) /\ net \in [Requests -> Int] /\ advance \in [Requests -> Nat] /\ used \in Nat
  BY DEF Inv, TypeOK
<1>1. ASSUME NEW a \in Amounts, PreConsumeUserSubscription(r, a) PROVE Columns(r)
  <2>1. net[r] = 0 /\ a \in Nat
    BY <1>t, <1>1 DEF Held, PreConsumeUserSubscription
  <2>2. Advances(r, a)
    BY <1>1, <2>1 DEF Advances, PreConsumeUserSubscription, UsedBefore
  <2> QED  BY <2>1, <2>2 DEF Columns
<1>2. ASSUME NEW c \in Amounts, Settle(r, c) PROVE Columns(r)
  <2>1. net[r] = advance[r] /\ c - advance[r] \in Int /\ net[r] + (c - advance[r]) >= 0
    BY <1>t, <1>2 DEF Held, Settle
  <2>2. Moves(r, c - advance[r])
    BY <1>2, <2>1 DEF Moves, Settle
  <2> QED  BY <2>1, <2>2 DEF Columns
<1>3. ASSUME GiveBack(r) PROVE Columns(r)
  <2>1. net[r] = advance[r] /\ -advance[r] \in Int /\ net[r] + (-advance[r]) >= 0
    BY <1>t, <1>3 DEF Held, GiveBack
  <2>2. Moves(r, -advance[r])
    BY <1>3, <2>1 DEF Moves, GiveBack
  <2> QED  BY <2>1, <2>2 DEF Columns
<1>4. ASSUME \/ \E a \in Amounts : PreConsumeRefused(r, a)
             \/ RequestFails(r) \/ LockRecord(r) \/ LockRecordFails(r) \/ GiveBackFails(r)
             \/ MarkRefunded(r) \/ MarkRefundedFails(r) \/ Crash(r)
      PROVE  Columns(r)
  BY <1>4 DEF PreConsumeRefused, RequestFails, LockRecord, LockRecordFails, GiveBackFails,
         MarkRefunded, MarkRefundedFails, Crash, Columns, Idle, ledger, ghosts
<1> QED
  BY <1>1, <1>2, <1>3, <1>4 DEF Request, Refund

\* A request's period is never later than the current one, whatever fails.
LEMMA SinceKept ==
    ASSUME TypeOK, \A r \in Requests : since[r] <= period, [Next]_vars
    PROVE  \A r \in Requests : since'[r] <= period'
<1> USE SubscriptionQuotaAssumption DEF SubscriptionQuotaAssumption, ledger, ghosts, failures
<1>t. since \in [Requests -> Nat] /\ period \in Nat
  BY DEF TypeOK
<1>1. ASSUME period' \in {period, period + 1}, since' = since PROVE \A r \in Requests : since'[r] <= period'
  BY <1>t, <1>1
<1>2. ASSUME NEW q \in Requests, NEW a \in Amounts, PreConsumeUserSubscription(q, a)
      PROVE  \A r \in Requests : since'[r] <= period'
  BY <1>t, <1>2 DEF PreConsumeUserSubscription, NewPeriod
<1>3. CASE UNCHANGED vars
  BY <1>1, <1>3 DEF vars
<1>4. CASE PeriodEnds \/ SubscriptionEnds \/ Maintain
  BY <1>1, <1>4 DEF PeriodEnds, SubscriptionEnds, Maintain, ExpireDueSubscriptions,
     ResetDueSubscriptions, CleanupSubscriptionPreConsumeRecords, NewPeriod
<1>5. ASSUME NEW q \in Requests, Crash(q) \/ RequestFails(q) \/ (\E a \in Amounts : PreConsumeRefused(q, a))
      PROVE  \A r \in Requests : since'[r] <= period'
  BY <1>1, <1>5 DEF Crash, RequestFails, PreConsumeRefused
<1>6. ASSUME NEW q \in Requests, (\E c \in Amounts : Settle(q, c)) \/ Refund(q)
      PROVE  \A r \in Requests : since'[r] <= period'
  BY <1>1, <1>6 DEF Settle, Refund, LockRecord, LockRecordFails, GiveBack, GiveBackFails,
     MarkRefunded, MarkRefundedFails, ApplyDelta
<1> QED
  BY <1>2, <1>3, <1>4, <1>5, <1>6 DEF Next, Request

\* Records that could not be saved are never forgotten.
LEMMA MarkFaultsGrow ==
    ASSUME TypeOK, [Next]_vars, markFaults' = 0
    PROVE  markFaults = 0
<1>t. markFaults \in Nat
  BY SubscriptionQuotaAssumption DEF SubscriptionQuotaAssumption, TypeOK
<1> QED
  BY <1>t DEF Next, vars, failures, Request, Refund, Maintain, PeriodEnds, SubscriptionEnds,
     ExpireDueSubscriptions, ResetDueSubscriptions, CleanupSubscriptionPreConsumeRecords,
     PreConsumeUserSubscription, PreConsumeRefused, Settle, RequestFails, LockRecord,
     LockRecordFails, GiveBack, GiveBackFails, MarkRefunded, MarkRefundedFails, Crash, NoFault, Fault

LEMMA UsageStep == Inv /\ Usage /\ [Next]_vars => Usage'
<1> SUFFICES ASSUME Inv, Usage, [Next]_vars PROVE Usage'
  OBVIOUS
<1>t. TypeOK
  BY DEF Inv
<1>1. CASE markFaults' # 0
  BY <1>t, <1>1, SinceKept DEF Usage
<1>2. CASE markFaults' = 0
  <2>1. markFaults = 0
    BY <1>t, <1>2, MarkFaultsGrow
  <2>2. Counts
    BY <1>t, <2>1, SubscriptionQuotaAssumption
       DEF SubscriptionQuotaAssumption, Counts, Inv, TypeOK, Held
  <2>3. ASSUME NEW r \in Requests, Request(r) \/ Crash(r) PROVE Usage'
    <3>1. Columns(r)
      BY <2>1, <2>3, RequestColumns
    <3> QED  BY <1>t, <2>1, <2>2, <3>1, ColumnsUsage
  <2>4. CASE PeriodEnds \/ SubscriptionEnds \/ ExpireDueSubscriptions
             \/ CleanupSubscriptionPreConsumeRecords \/ UNCHANGED vars
    <3>1. Idle
      BY <2>4 DEF Idle, PeriodEnds, SubscriptionEnds, ExpireDueSubscriptions,
         CleanupSubscriptionPreConsumeRecords, ledger, ghosts, vars
    <3> QED  BY <2>1, <3>1, IdleUsage
  <2>5. CASE ResetDueSubscriptions
    <3>1. Resets
      BY <2>5 DEF Resets, ResetDueSubscriptions
    <3>2. CASE Requests = {}
      <4>1. SumOf(Current, Requests)' = 0 /\ SumOf(net, Requests)' = 0
        BY <3>2, SumOfEmpty
      <4>2. used' = 0 /\ lateBack' = 0
        BY <3>1 DEF Resets, NewPeriod
      <4> QED  BY <3>2, <4>1, <4>2 DEF Usage, Exact, Covered
    <3>3. CASE Requests # {}
      <4>1. PICK r \in Requests : TRUE
        BY <3>3
      <4> QED  BY <1>t, <2>1, <2>2, <3>1, ColumnsUsage DEF Columns
    <3> QED  BY <3>2, <3>3
  <2> QED
    BY <2>3, <2>4, <2>5 DEF Next, Maintain
<1> QED  BY <1>1, <1>2

LEMMA InitUsage == Init => Usage
<1> SUFFICES ASSUME Init PROVE Usage
  OBVIOUS
<1>1. \A r \in Requests : net[r] = 0 /\ Current[r] = 0
  BY DEF Init, Current
<1>2. SumOf(net, Requests) = 0 /\ SumOf(Current, Requests) = 0
  BY <1>1, SumOfZero, SubscriptionQuotaAssumption DEF SubscriptionQuotaAssumption
<1> QED  BY <1>2 DEF Init, Usage, Exact, Covered

LEMMA UsageAlways == Spec => []Usage
BY InitUsage, UsageStep, Invariance, PTL DEF Spec

\* Until the first reset, amount_used is the sum of what the requests hold, for any
\* number of them, as long as no record of a refund was lost.
THEOREM UsageExactAlways == Spec => []UsageExact
<1>1. Usage => UsageExact
  BY DEF Usage, Exact, UsageExact, Sum, SumOf
<1> QED
  BY <1>1, UsageAlways, PTL

\* Later too, amount_used covers what the requests of the period hold, but for what
\* requests of an earlier one gave back.
THEOREM UsageCoveredAlways == Spec => []UsageCovered
<1>1. Inv /\ Usage => UsageCovered
  <2> SUFFICES ASSUME Inv, Usage, markFaults = 0
               PROVE  used + lateBack >= Sum({r \in Requests : since[r] = period /\ net[r] > 0})
    BY DEF UsageCovered
  <2> USE SubscriptionQuotaAssumption DEF SubscriptionQuotaAssumption
  <2> DEFINE T == {r \in Requests : since[r] = period /\ net[r] > 0}
  <2>1. \A r \in Requests : net[r] \in Int /\ net[r] >= 0
    BY DEF Inv, TypeOK, Held
  <2>2. \A r \in T : Current[r] \in Int /\ Current[r] = net[r]
    BY <2>1 DEF Current
  <2>3. \A r \in Requests \ T : Current[r] = 0
    BY <2>1 DEF Current
  <2>4. T \in SUBSET Requests /\ IsFiniteSet(T)
    BY FS_Subset
  <2> HIDE DEF T
  <2>5. SumOf(Current, T) = SumOf(Current, Requests)
    BY <2>2, <2>3, <2>4, SumOfSupport
  <2>6. SumOf(Current, T) = SumOf(net, T)
    BY <2>2, <2>4, SumOfSame
  <2>7. Sum(T) = SumOf(net, T)
    BY DEF Sum, SumOf
  <2>8. used + lateBack >= SumOf(Current, Requests)
    BY DEF Usage, Covered
  <2> QED  BY <2>5, <2>6, <2>7, <2>8 DEF T
<1> QED
  BY <1>1, Invariance, UsageAlways, PTL
=============================================================================
