------------------------ MODULE BillingSessionProofs ------------------------
(***************************************************************************)
(* Proofs about BillingSession, for any set of sessions, any quotas and    *)
(* any number of failed calls.  The invariant says, for every place a      *)
(* session can be in, how what it has really taken from its funding source *)
(* and from the token relates to the fields the code keeps: exactly while  *)
(* no call failed, from above otherwise.  A step touches one session only, *)
(* so the others are carried over by one lemma.                            *)
(***************************************************************************)
EXTENDS BillingSession, FiniteSums, TLAPS

\* What the token is down by, when the session keeps tokenConsumed for it.
TokenHeld(s) == IF s \in Playground THEN 0 ELSE tokenConsumed[s]

\* The reserve taken from the funding and not yet from the token.
Pending(s) == IF pc[s] \in {"reserveToken", "unreserve"} THEN amount[s] ELSE 0

Starting(s) ==
    /\ pc[s] \in {"new", "token", "fund", "unwind", "rejected"} =>
         fundTaken[s] = 0 /\ extra[s] = 0
    /\ pc[s] \in {"new", "token"} => tokenTaken[s] = 0 /\ tokenConsumed[s] = 0
    /\ pc[s] \in {"token", "fund"} => amount[s] >= 0 /\ (OwnProvider(s) => amount[s] = 0)
    /\ pc[s] = "fund" => tokenConsumed[s] = amount[s]
    /\ pc[s] \in {"fund", "unwind"} => tokenTaken[s] = TokenHeld(s)
    /\ pc[s] = "rejected" =>
         tokenTaken[s] >= 0 /\ (faults = 0 => tokenTaken[s] = 0)

Advanced(s) ==
    pc[s] \in {"open", "reserveToken", "unreserve", "refundFunding"} =>
        /\ tokenTaken[s] = TokenHeld(s)
        /\ tokenConsumed[s] = pre[s]
        /\ extra[s] <= pre[s]
        /\ Pending(s) >= 0
        /\ fundTaken[s] >= pre[s] + Pending(s)
        /\ faults = 0 => fundTaken[s] = pre[s] + Pending(s)
        /\ Wallet(s) => consumed[s] = fundTaken[s]
        /\ OwnProvider(s) => fundTaken[s] = 0 /\ pc[s] = "open"

Settling(s) ==
    /\ pc[s] = "settleToken" =>
         /\ ~OwnProvider(s)
         /\ tokenTaken[s] = TokenHeld(s)
         /\ tokenConsumed[s] = pre[s]
         /\ amount[s] = charge[s] - pre[s]
    /\ pc[s] \in {"settleToken", "settled"} =>
         /\ fundTaken[s] >= 0
         /\ ~OwnProvider(s) => fundTaken[s] >= charge[s]
         /\ ~OwnProvider(s) /\ faults = 0 => fundTaken[s] = charge[s]
    /\ pc[s] = "settled" =>
         /\ tokenTaken[s] >= 0
         /\ ~OwnProvider(s) /\ faults = 0 /\ s \notin Playground => tokenTaken[s] = charge[s]

Refunding(s) ==
    /\ pc[s] = "refundExtra" =>
         /\ fundTaken[s] >= ExtraRefund(s)
         /\ faults = 0 => fundTaken[s] = ExtraRefund(s)
    /\ pc[s] \in {"refundExtra", "refundToken"} => tokenTaken[s] = TokenHeld(s)
    /\ pc[s] \in {"refundToken", "refunded", "closed"} =>
         /\ fundTaken[s] >= 0
         /\ faults = 0 => fundTaken[s] = 0
    /\ pc[s] \in {"refunded", "closed"} =>
         /\ tokenTaken[s] >= 0
         /\ faults = 0 => tokenTaken[s] = 0
    /\ pc[s] = "crashed" => fundTaken[s] >= 0 /\ tokenTaken[s] >= 0

SessionInv(s) == Starting(s) /\ Advanced(s) /\ Settling(s) /\ Refunding(s)

Inv == TypeOK /\ \A s \in Sessions : SessionInv(s)

-----------------------------------------------------------------------------
\* Session t is as it was.
Same(t) ==
    /\ pc'[t] = pc[t] /\ amount'[t] = amount[t] /\ pre'[t] = pre[t]
    /\ tokenConsumed'[t] = tokenConsumed[t] /\ consumed'[t] = consumed[t]
    /\ extra'[t] = extra[t] /\ charge'[t] = charge[t]
    /\ fundTaken'[t] = fundTaken[t] /\ tokenTaken'[t] = tokenTaken[t]

LEMMA SameKeeps ==
    ASSUME NEW t \in Sessions, SessionInv(t), Same(t), faults \in Nat,
           faults' = faults \/ faults' = faults + 1
    PROVE  SessionInv(t)'
<1> USE DEF Same, TokenHeld, Wallet, Subscription, OwnProvider
<1>1. Starting(t)'
  BY DEF SessionInv, Starting
<1>2. Advanced(t)'
  BY DEF SessionInv, Advanced, Pending
<1>3. Settling(t)'
  BY DEF SessionInv, Settling
<1>4. Refunding(t)'
  BY DEF SessionInv, Refunding, ExtraRefund
<1> QED
  BY <1>1, <1>2, <1>3, <1>4 DEF SessionInv

\* A step of session s, as far as every session is concerned.
StepOf(s) ==
    /\ TypeOK'
    /\ SessionInv(s)'
    /\ \A t \in Sessions : t # s => Same(t)
    /\ faults' = faults \/ faults' = faults + 1

LEMMA StepKeeps ==
    ASSUME Inv, NEW s \in Sessions, StepOf(s)
    PROVE  Inv'
<1>1. ASSUME NEW t \in Sessions PROVE SessionInv(t)'
  <2>1. faults \in Nat
    BY DEF Inv, TypeOK
  <2>2. CASE t = s
    BY <2>2 DEF StepOf
  <2>3. CASE t # s
    BY <2>1, <2>3, SameKeeps DEF Inv, StepOf
  <2> QED
    BY <2>2, <2>3
<1> QED
  BY <1>1 DEF Inv, StepOf

-----------------------------------------------------------------------------
LEMMA StartInv == ASSUME Inv, NEW s \in Sessions, Start(s) PROVE Inv'
<1> USE BillingSessionAssumption DEF BillingSessionAssumption, TypeOK, Steps, Sources,
        Goto, Add, NoFault, Fault, sessionVars, Same, TakeToken, TokenHeld, Pending,
        Wallet, Subscription, OwnProvider
<1>s. TypeOK /\ SessionInv(s) /\ faults \in Nat
  BY DEF Inv
<1>1. ASSUME NEW q \in Estimates, NewBillingSession(s, q) PROVE StepOf(s)
  BY <1>s, <1>1
  DEF StepOf, SessionInv, Starting, Advanced, Settling, Refunding, NewBillingSession,
      Admit, Proceed, MayTrust, MustTrust
<1>2. ASSUME NEW q \in Estimates, NewBillingSessionRefused(s, q) PROVE StepOf(s)
  BY <1>s, <1>2
  DEF StepOf, SessionInv, Starting, Advanced, Settling, Refunding, NewBillingSessionRefused
<1>3. CASE PreConsumeToken(s)
  <2>1. StepOf(s)
    BY <1>s, <1>3
    DEF StepOf, SessionInv, Starting, Advanced, Settling, Refunding, PreConsumeToken
  <2> QED
    BY <2>1, StepKeeps
<1>4. CASE PreConsumeTokenRefused(s)
  <2>1. StepOf(s)
    BY <1>s, <1>4
    DEF StepOf, SessionInv, Starting, Advanced, Settling, Refunding, PreConsumeTokenRefused
  <2> QED
    BY <2>1, StepKeeps
<1>5. CASE PreConsumeFunding(s)
  <2>1. StepOf(s)
    BY <1>s, <1>5
    DEF StepOf, SessionInv, Starting, Advanced, Settling, Refunding, PreConsumeFunding
  <2> QED
    BY <2>1, StepKeeps
<1>6. CASE PreConsumeFundingRefused(s)
  <2>1. StepOf(s)
    BY <1>s, <1>6
    DEF StepOf, SessionInv, Starting, Advanced, Settling, Refunding, PreConsumeFundingRefused
  <2> QED
    BY <2>1, StepKeeps
<1>7. CASE RollbackToken(s)
  <2>1. StepOf(s)
    BY <1>s, <1>7
    DEF StepOf, SessionInv, Starting, Advanced, Settling, Refunding, RollbackToken
  <2> QED
    BY <2>1, StepKeeps
<1> QED
  BY <1>1, <1>2, <1>3, <1>4, <1>5, <1>6, <1>7, StepKeeps DEF Start

LEMMA RaiseInv == ASSUME Inv, NEW s \in Sessions, Raise(s) PROVE Inv'
<1> USE BillingSessionAssumption DEF BillingSessionAssumption, TypeOK, Steps, Sources,
        Goto, Add, NoFault, Fault, sessionVars, Same, TakeToken, TokenHeld, Pending,
        Wallet, Subscription, OwnProvider
<1>s. TypeOK /\ SessionInv(s) /\ faults \in Nat
  BY DEF Inv
<1>1. ASSUME NEW q \in Estimates, Reserve(s, q) PROVE StepOf(s)
  BY <1>s, <1>1
  DEF StepOf, SessionInv, Starting, Advanced, Settling, Refunding, Reserve, Raises
<1>2. CASE ReserveRefused(s)
  <2>1. StepOf(s)
    BY <1>s, <1>2
    DEF StepOf, SessionInv, Starting, Advanced, Settling, Refunding, ReserveRefused
  <2> QED
    BY <2>1, StepKeeps
<1>3. CASE ReserveToken(s)
  <2>1. StepOf(s)
    BY <1>s, <1>3
    DEF StepOf, SessionInv, Starting, Advanced, Settling, Refunding, ReserveToken
  <2> QED
    BY <2>1, StepKeeps
<1>4. CASE ReserveTokenRefused(s)
  <2>1. StepOf(s)
    BY <1>s, <1>4
    DEF StepOf, SessionInv, Starting, Advanced, Settling, Refunding, ReserveTokenRefused
  <2> QED
    BY <2>1, StepKeeps
<1>5. CASE RollbackFundingReserve(s)
  <2>1. StepOf(s)
    BY <1>s, <1>5
    DEF StepOf, SessionInv, Starting, Advanced, Settling, Refunding,
        RollbackFundingReserve, ReserveUndo
  <2> QED
    BY <2>1, StepKeeps
<1> QED
  BY <1>1, <1>2, <1>3, <1>4, <1>5, StepKeeps DEF Raise

LEMMA FinishInv == ASSUME Inv, NEW s \in Sessions, Finish(s) PROVE Inv'
<1> USE BillingSessionAssumption DEF BillingSessionAssumption, TypeOK, Steps, Sources,
        Goto, Add, NoFault, Fault, sessionVars, Same, TakeToken, TokenHeld, Pending,
        Wallet, Subscription, OwnProvider
<1>s. TypeOK /\ SessionInv(s) /\ faults \in Nat
  BY DEF Inv
<1>1. ASSUME NEW a \in Actuals, Settle(s, a) PROVE StepOf(s)
  BY <1>s, <1>1
  DEF StepOf, SessionInv, Starting, Advanced, Settling, Refunding, Settle, SettleDelta
<1>2. ASSUME NEW a \in Actuals, SettleRefused(s, a) PROVE StepOf(s)
  BY <1>s, <1>2
  DEF StepOf, SessionInv, Starting, Advanced, Settling, Refunding, SettleRefused
<1>3. CASE SettleToken(s)
  <2>1. StepOf(s)
    BY <1>s, <1>3
    DEF StepOf, SessionInv, Starting, Advanced, Settling, Refunding, SettleToken
  <2> QED
    BY <2>1, StepKeeps
<1>4. CASE Refund(s)
  <2>1. StepOf(s)
    BY <1>s, <1>4
    DEF StepOf, SessionInv, Starting, Advanced, Settling, Refunding,
        Refund, Unsettled, NeedsRefund
  <2> QED
    BY <2>1, StepKeeps
<1>5. CASE RefundFunding(s)
  <2>1. StepOf(s)
    BY <1>s, <1>5
    DEF StepOf, SessionInv, Starting, Advanced, Settling, Refunding,
        RefundFunding, FundingRefund, ExtraRefund
  <2> QED
    BY <2>1, StepKeeps
<1>6. CASE RefundExtra(s)
  <2>1. StepOf(s)
    BY <1>s, <1>6
    DEF StepOf, SessionInv, Starting, Advanced, Settling, Refunding,
        RefundExtra, ExtraRefund
  <2> QED
    BY <2>1, StepKeeps
<1>7. CASE RefundToken(s)
  <2>1. StepOf(s)
    BY <1>s, <1>7
    DEF StepOf, SessionInv, Starting, Advanced, Settling, Refunding, RefundToken
  <2> QED
    BY <2>1, StepKeeps
<1> QED
  BY <1>1, <1>2, <1>3, <1>4, <1>5, <1>6, <1>7, StepKeeps DEF Finish

\* Wherever a session dies, nothing it held was given back twice.
LEMMA CrashInv == ASSUME Inv, NEW s \in Sessions, Crash(s) PROVE Inv'
<1> USE BillingSessionAssumption DEF BillingSessionAssumption, TypeOK, Steps, Sources,
        Goto, Add, NoFault, Fault, sessionVars, Same, TakeToken, TokenHeld, Pending,
        Wallet, Subscription, OwnProvider
<1>s. TypeOK /\ SessionInv(s) /\ faults \in Nat
  BY DEF Inv
<1>1. StepOf(s)
  BY <1>s
  DEF StepOf, SessionInv, Starting, Advanced, Settling, Refunding, Crash, Ended, ExtraRefund
<1> QED
  BY <1>1, StepKeeps

LEMMA InitInv == Init => Inv
BY BillingSessionAssumption
DEF BillingSessionAssumption, Init, Inv, TypeOK, SessionInv, Starting, Advanced, Settling,
    Refunding, Zero, Steps, TokenHeld, Pending

LEMMA StepInv == Inv /\ [Next]_vars => Inv'
<1> SUFFICES ASSUME Inv, [Next]_vars PROVE Inv'
  OBVIOUS
<1>1. CASE \E s \in Sessions : Start(s) \/ Raise(s) \/ Finish(s) \/ Crash(s)
  BY <1>1, StartInv, RaiseInv, FinishInv, CrashInv
<1>2. CASE UNCHANGED vars
  <2>1. ASSUME NEW t \in Sessions PROVE SessionInv(t)'
    BY <1>2, SameKeeps DEF Inv, TypeOK, vars, sessionVars, Same
  <2> QED
    BY <1>2, <2>1 DEF Inv, TypeOK, vars, sessionVars
<1> QED
  BY <1>1, <1>2 DEF Next, AllEnded

THEOREM Invariance == Spec => []Inv
BY InitInv, StepInv, PTL DEF Spec

-----------------------------------------------------------------------------
\* The fields of a session keep their types, and no more calls fail than the bound.
THEOREM TypeCorrectness == Spec => []TypeOK
<1>1. Inv => TypeOK
  BY DEF Inv
<1> QED
  BY <1>1, Invariance, PTL

\* Whatever fails and whenever a session dies, none gives back more than it took.
THEOREM NoFreeQuotaAlways == Spec => []NoFreeQuota
<1>1. Inv => NoFreeQuota
  BY DEF Inv, TypeOK, Steps, SessionInv, Starting, Advanced, Settling, Refunding,
     NoFreeQuota, TokenHeld, Pending, ExtraRefund, Wallet, Subscription, OwnProvider
<1> QED
  BY <1>1, Invariance, PTL

\* Without a failed call, a settled session has cost exactly what it used.
THEOREM SettledExactlyAlways == Spec => []SettledExactly
<1>1. Inv => SettledExactly
  BY DEF Inv, TypeOK, Steps, SessionInv, Starting, Advanced, Settling, Refunding,
     SettledExactly, TokenHeld, Pending, ExtraRefund, Wallet, Subscription, OwnProvider
<1> QED
  BY <1>1, Invariance, PTL

\* With failed calls, the funding of a settled session is still down by what it used.
THEOREM SettledCoveredAlways == Spec => []SettledCovered
<1>1. Inv => SettledCovered
  BY DEF Inv, TypeOK, Steps, SessionInv, Starting, Advanced, Settling, Refunding,
     SettledCovered, TokenHeld, Pending, ExtraRefund, Wallet, Subscription, OwnProvider
<1> QED
  BY <1>1, Invariance, PTL

\* Without a failed call, a refused or refunded session leaves no trace.
THEOREM NothingLeftBehindAlways == Spec => []NothingLeftBehind
<1>1. Inv => NothingLeftBehind
  BY DEF Inv, TypeOK, Steps, SessionInv, Starting, Advanced, Settling, Refunding,
     NothingLeftBehind, TokenHeld, Pending, ExtraRefund, Wallet, Subscription, OwnProvider
<1> QED
  BY <1>1, Invariance, PTL

\* Without a failed call, the recorded advance is what both ledgers are down by.
THEOREM AdvanceReconcilesAlways == Spec => []AdvanceReconciles
<1>1. Inv => AdvanceReconciles
  BY DEF Inv, TypeOK, Steps, SessionInv, Starting, Advanced, Settling, Refunding,
     AdvanceReconciles, TokenHeld, Pending, ExtraRefund, Wallet, Subscription, OwnProvider
<1> QED
  BY <1>1, Invariance, PTL

-----------------------------------------------------------------------------
(***************************************************************************)
(* The ledgers that sessions share.  Of what a wallet session has taken,   *)
(* the part up to its first advance was checked against the balance;       *)
(* reserves, settlements and trusted sessions go beyond it.                *)
(***************************************************************************)
WalletSessions == {s \in Sessions : Wallet(s)}
SubSessions == {s \in Sessions : Subscription(s)}

FirstAdvance(s) == pre[s] - extra[s]
Checked == [s \in Sessions |-> IF fundTaken[s] <= FirstAdvance(s) THEN fundTaken[s]
                                                                  ELSE FirstAdvance(s)]

\* Without a settlement above the advance, consumed covers what was taken.
WalletHeld(s) == Wallet(s) /\ charge[s] <= pre[s] => fundTaken[s] <= consumed[s]

Ledgers ==
    /\ SubTotal > 0 => SumOf(fundTaken, SubSessions) <= SubTotal
    /\ SumOf(Checked, WalletSessions) <= WalletQuota
    /\ \A s \in Sessions : WalletHeld(s) /\ FirstAdvance(s) >= 0

\* What a step of session s may do to the ledgers.
LedgerStep(s) ==
    /\ WalletHeld(s)' /\ FirstAdvance(s)' >= 0
    /\ Subscription(s) /\ SubTotal > 0 =>
         \/ fundTaken'[s] <= fundTaken[s]
         \/ SubUsed + (fundTaken'[s] - fundTaken[s]) <= SubTotal
    /\ Wallet(s) =>
         \/ Checked'[s] <= Checked[s]
         \/ Checked[s] = 0 /\ Checked'[s] <= WalletBalance

LEMMA SharedSums ==
    /\ IsFiniteSet(WalletSessions) /\ IsFiniteSet(SubSessions)
    /\ SubUsed = SumOf(fundTaken, SubSessions)
    /\ WalletBalance = WalletQuota - SumOf(fundTaken, WalletSessions)
<1>1. WalletSessions \subseteq Sessions /\ SubSessions \subseteq Sessions
  BY DEF WalletSessions, SubSessions
<1>2. IsFiniteSet(WalletSessions) /\ IsFiniteSet(SubSessions)
  BY <1>1, FS_Subset, BillingSessionAssumption DEF BillingSessionAssumption
<1> QED
  BY <1>2 DEF SubUsed, WalletBalance, Taken, SumOf, WalletSessions, SubSessions

LEMMA LedgerStepKeeps ==
    ASSUME TypeOK, TypeOK', Ledgers, NEW s \in Sessions, LedgerStep(s),
           \A t \in Sessions : t # s => Same(t)
    PROVE  Ledgers'
<1> USE BillingSessionAssumption DEF BillingSessionAssumption
<1> DEFINE taken == fundTaken'
           checked == Checked'
<1>t. \A t \in Sessions : /\ fundTaken[t] \in Int /\ taken[t] \in Int
                          /\ Checked[t] \in Int /\ checked[t] \in Int
                          /\ pre[t] \in Nat /\ extra[t] \in Nat
  BY DEF TypeOK, Checked, FirstAdvance
<1>s. \A t \in Sessions : t # s => taken[t] = fundTaken[t] /\ checked[t] = Checked[t]
  BY DEF Same, Checked, FirstAdvance
<1>f. /\ IsFiniteSet(WalletSessions) /\ IsFiniteSet(SubSessions)
      /\ WalletSessions \in SUBSET Sessions /\ SubSessions \in SUBSET Sessions
  BY SharedSums DEF WalletSessions, SubSessions
<1>1. \A t \in Sessions : WalletHeld(t)' /\ FirstAdvance(t)' >= 0
  <2>1. ASSUME NEW t \in Sessions, t # s PROVE WalletHeld(t)' /\ FirstAdvance(t)' >= 0
    BY <2>1 DEF Ledgers, WalletHeld, FirstAdvance, Same, Wallet
  <2> QED  BY <2>1 DEF LedgerStep
<1>2. SubTotal > 0 => SumOf(taken, SubSessions) <= SubTotal
  <2> HIDE DEF taken, checked
  <2>0. SUFFICES ASSUME SubTotal > 0 PROVE SumOf(taken, SubSessions) <= SubTotal
    OBVIOUS
  <2>1. SumOf(fundTaken, SubSessions) \in Int /\ SumOf(taken, SubSessions) \in Int
    BY <1>t, <1>f, SumOfType
  <2>2. SumOf(fundTaken, SubSessions) <= SubTotal
    BY <2>0 DEF Ledgers
  <2>3. CASE s \notin SubSessions
    <3>1. SumOf(fundTaken, SubSessions) = SumOf(taken, SubSessions)
      BY <1>t, <1>s, <1>f, <2>3, SumOfSame
    <3> QED  BY <2>2, <3>1
  <2>4. CASE s \in SubSessions
    <3>1. SumOf(taken, SubSessions) = SumOf(fundTaken, SubSessions) + taken[s] - fundTaken[s]
      BY <1>t, <1>s, <1>f, <2>4, SumOfUpdate
    <3>2. \/ taken[s] <= fundTaken[s]
          \/ SumOf(fundTaken, SubSessions) + (taken[s] - fundTaken[s]) <= SubTotal
      BY <2>0, <2>4, SharedSums DEF LedgerStep, SubSessions, taken
    <3> QED  BY <1>t, <2>1, <2>2, <3>1, <3>2
  <2> QED  BY <2>3, <2>4
<1>3. SumOf(checked, WalletSessions) <= WalletQuota
  <2> HIDE DEF taken, checked
  <2>1. /\ SumOf(Checked, WalletSessions) \in Int /\ SumOf(checked, WalletSessions) \in Int
        /\ SumOf(fundTaken, WalletSessions) \in Int
    BY <1>t, <1>f, SumOfType
  <2>2. SumOf(Checked, WalletSessions) <= WalletQuota
    BY DEF Ledgers
  <2>3. CASE s \notin WalletSessions
    <3>1. SumOf(Checked, WalletSessions) = SumOf(checked, WalletSessions)
      BY <1>t, <1>s, <1>f, <2>3, SumOfSame
    <3> QED  BY <2>2, <3>1
  <2>4. CASE s \in WalletSessions
    <3>1. SumOf(checked, WalletSessions) = SumOf(Checked, WalletSessions) + checked[s] - Checked[s]
      BY <1>t, <1>s, <1>f, <2>4, SumOfUpdate
    <3>2. CASE checked[s] <= Checked[s]
      BY <1>t, <2>1, <2>2, <3>1, <3>2
    <3>3. CASE Checked[s] = 0 /\ checked[s] <= WalletBalance
      <4>1. \A t \in Sessions : Checked[t] <= fundTaken[t]
        BY <1>t DEF Checked, FirstAdvance
      <4>2. SumOf(Checked, WalletSessions) <= SumOf(fundTaken, WalletSessions)
        BY <1>t, <1>f, <4>1, SumOfMonotone
      <4>3. checked[s] <= WalletQuota - SumOf(fundTaken, WalletSessions)
        BY <3>3, SharedSums
      <4> QED  BY <1>t, <2>1, <3>1, <3>3, <4>2, <4>3
    <3> QED  BY <2>4, <3>2, <3>3 DEF LedgerStep, WalletSessions, checked
  <2> QED  BY <2>3, <2>4
<1> QED
  BY <1>1, <1>2, <1>3 DEF Ledgers, SubSessions, WalletSessions, Wallet, Subscription

-----------------------------------------------------------------------------
\* The columns of the ledgers are left alone.
SameLedger == UNCHANGED <<pre, extra, consumed, charge, fundTaken>>

\* A session leaves the others as they are.
LEMMA StepSame ==
    ASSUME TypeOK, NEW s \in Sessions, Start(s) \/ Raise(s) \/ Finish(s) \/ Crash(s),
           NEW t \in Sessions, t # s
    PROVE  Same(t)
<1> USE DEF TypeOK, Same, sessionVars, Goto, Add, TakeToken
<1>1. ASSUME Start(s) PROVE Same(t)
  BY <1>1 DEF Start, NewBillingSession, Admit, Proceed, NewBillingSessionRefused, PreConsumeToken,
     PreConsumeTokenRefused, PreConsumeFunding, PreConsumeFundingRefused, RollbackToken
<1>2. ASSUME Raise(s) PROVE Same(t)
  BY <1>2 DEF Raise, Reserve, ReserveRefused, ReserveToken, ReserveTokenRefused, RollbackFundingReserve
<1>3. ASSUME Finish(s) PROVE Same(t)
  BY <1>3 DEF Finish, Settle, SettleRefused, SettleToken, Refund, RefundFunding, RefundExtra, RefundToken
<1>4. ASSUME Crash(s) PROVE Same(t)
  BY <1>4 DEF Crash
<1> QED  BY <1>1, <1>2, <1>3, <1>4

\* One step for each action that moves them.
LEMMA ActionLedger ==
    ASSUME Inv, Inv', Ledgers, NEW s \in Sessions, Start(s) \/ Raise(s) \/ Finish(s) \/ Crash(s)
    PROVE  LedgerStep(s) /\ \A t \in Sessions : t # s => Same(t)
<1> USE BillingSessionAssumption DEF BillingSessionAssumption
<1>t. /\ fundTaken \in [Sessions -> Int] /\ pre \in [Sessions -> Nat] /\ extra \in [Sessions -> Nat]
      /\ consumed \in [Sessions -> Nat] /\ charge \in [Sessions -> Nat] /\ amount \in [Sessions -> Int]
      /\ Checked[s] = IF fundTaken[s] <= FirstAdvance(s) THEN fundTaken[s] ELSE FirstAdvance(s)
      /\ Checked'[s] = IF fundTaken'[s] <= FirstAdvance(s)' THEN fundTaken'[s] ELSE FirstAdvance(s)'
  BY DEF Inv, TypeOK, Checked
<1>i. SessionInv(s) /\ SessionInv(s)' /\ WalletHeld(s) /\ FirstAdvance(s) >= 0
  BY DEF Inv, Ledgers
<1>u. ASSUME SameLedger PROVE LedgerStep(s)
  BY <1>t, <1>i, <1>u DEF SameLedger, LedgerStep, WalletHeld, FirstAdvance, Wallet
<1>1. ASSUME PreConsumeFunding(s) PROVE LedgerStep(s)
  <2>1. fundTaken[s] = 0 /\ extra[s] = 0 /\ amount[s] \in Nat
    BY <1>t, <1>i, <1>1 DEF SessionInv, Starting, PreConsumeFunding
  <2>2. fundTaken'[s] = amount[s] /\ pre'[s] = amount[s] /\ extra'[s] = 0
    BY <1>t, <1>1, <2>1 DEF PreConsumeFunding, Add
  <2>3. Wallet(s) => consumed'[s] = amount[s]
    BY <1>t, <1>1 DEF PreConsumeFunding
  <2>4. Checked[s] = 0 /\ Checked'[s] = amount[s] /\ FirstAdvance(s)' = amount[s]
    BY <1>t, <2>1, <2>2 DEF FirstAdvance
  <2>5. Wallet(s) => amount[s] = 0 \/ amount[s] <= WalletBalance
    <3>1. WalletBalance \in Int
      <4>1. SumOf(fundTaken, WalletSessions) \in Int
        BY <1>t, SharedSums, SumOfType DEF WalletSessions
      <4> QED  BY <4>1, SharedSums
    <3> QED  BY <1>1, <2>1, <3>1 DEF PreConsumeFunding, FundEnough, Wallet, Subscription, OwnProvider
  <2>6. Subscription(s) /\ SubTotal > 0 => SubUsed + amount[s] <= SubTotal
    BY <1>1 DEF PreConsumeFunding, FundEnough, SubEnough, Wallet, Subscription, OwnProvider
  <2>7. WalletHeld(s)'
    BY <2>1, <2>2, <2>3 DEF WalletHeld, Wallet
  <2> QED  BY <2>1, <2>2, <2>4, <2>5, <2>6, <2>7 DEF LedgerStep
<1>2. ASSUME NEW q \in Estimates, Reserve(s, q) PROVE LedgerStep(s)
  <2>1. /\ fundTaken[s] >= pre[s] /\ q > pre[s] /\ q \in Nat
        /\ Wallet(s) => consumed[s] = fundTaken[s]
    <3>1. pc[s] = "open" /\ q > pre[s] /\ q \in Nat
      BY <1>2 DEF Reserve, Raises
    <3>2. fundTaken[s] >= pre[s] + 0 /\ (Wallet(s) => consumed[s] = fundTaken[s])
      BY <1>i, <3>1 DEF SessionInv, Advanced, Pending
    <3> QED  BY <1>t, <3>1, <3>2
  <2>2. fundTaken'[s] = fundTaken[s] + (q - pre[s]) /\ pre' = pre /\ extra' = extra
        /\ (Wallet(s) => consumed'[s] = consumed[s] + (q - pre[s]))
    BY <1>t, <1>2 DEF Reserve, Add
  <2>3. Subscription(s) /\ SubTotal > 0 => SubUsed + (q - pre[s]) <= SubTotal
    BY <1>2 DEF Reserve, FundAdjustable, SubEnough
  <2>4. WalletHeld(s)'
    BY <1>t, <2>1, <2>2 DEF WalletHeld, Wallet
  <2>5. FirstAdvance(s)' = FirstAdvance(s) /\ FirstAdvance(s) \in Int /\ FirstAdvance(s) <= pre[s]
    BY <1>t, <2>2 DEF FirstAdvance
  <2>6. Checked'[s] <= Checked[s]
    BY <1>t, <2>1, <2>2, <2>5
  <2>7. fundTaken'[s] - fundTaken[s] = q - pre[s]
    BY <1>t, <2>1, <2>2
  <2> QED  BY <1>i, <2>3, <2>4, <2>5, <2>6, <2>7 DEF LedgerStep
<1>3. ASSUME ReserveToken(s) PROVE LedgerStep(s)
  <2>1. /\ consumed' = consumed /\ fundTaken' = fundTaken /\ charge' = charge
        /\ pre'[s] = pre[s] + amount[s] /\ extra'[s] = extra[s] + amount[s]
    BY <1>t, <1>3 DEF ReserveToken, Add
  <2>2. Wallet(s) => consumed[s] = fundTaken[s]
    BY <1>i, <1>3 DEF SessionInv, Advanced, ReserveToken
  <2>3. FirstAdvance(s)' = FirstAdvance(s)
    BY <1>t, <2>1 DEF FirstAdvance
  <2>4. Checked'[s] <= Checked[s] /\ fundTaken'[s] <= fundTaken[s] /\ (WalletHeld(s)')
    BY <1>t, <2>1, <2>2, <2>3 DEF WalletHeld, Wallet, FirstAdvance
  <2> QED  BY <1>i, <2>3, <2>4 DEF LedgerStep
<1>4. ASSUME RollbackFundingReserve(s) PROVE LedgerStep(s)
  <2>1. pre' = pre /\ extra' = extra /\ charge' = charge /\ amount[s] >= 0
        /\ (Wallet(s) => consumed[s] = fundTaken[s])
    BY <1>i, <1>4 DEF SessionInv, Advanced, Pending, RollbackFundingReserve
  <2>2. \/ /\ fundTaken'[s] = fundTaken[s] - amount[s]
           /\ Wallet(s) => consumed'[s] = consumed[s] - amount[s]
        \/ UNCHANGED <<fundTaken, consumed>>
    BY <1>t, <1>4 DEF RollbackFundingReserve, ReserveUndo, Add
  <2>3. FirstAdvance(s)' = FirstAdvance(s) /\ FirstAdvance(s) \in Int
    BY <1>t, <2>1 DEF FirstAdvance
  <2>4. Checked'[s] <= Checked[s] /\ fundTaken'[s] <= fundTaken[s]
    BY <1>t, <2>1, <2>2, <2>3
  <2>5. WalletHeld(s)'
    BY <1>t, <2>1, <2>2 DEF WalletHeld, Wallet
  <2> QED  BY <1>i, <2>3, <2>4, <2>5 DEF LedgerStep
<1>5. ASSUME NEW a \in Actuals, Settle(s, a) PROVE LedgerStep(s)
  <2>1. /\ pre' = pre /\ extra' = extra /\ consumed' = consumed /\ charge'[s] = a /\ a \in Nat
        /\ fundTaken[s] >= pre[s] \/ OwnProvider(s)
        /\ Wallet(s) => consumed[s] = fundTaken[s]
    BY <1>t, <1>i, <1>5 DEF SessionInv, Advanced, Pending, Settle
  <2>2. \/ fundTaken' = fundTaken
        \/ fundTaken'[s] = fundTaken[s] + (a - pre[s])
    BY <1>t, <1>5 DEF Settle, SettleDelta, Add
  <2>3. Subscription(s) /\ SubTotal > 0 =>
          fundTaken' = fundTaken \/ SubUsed + (a - pre[s]) <= SubTotal
    BY <1>5 DEF Settle, FundAdjustable, SubEnough, SettleDelta
  <2>4. FirstAdvance(s)' = FirstAdvance(s) /\ FirstAdvance(s) \in Int /\ FirstAdvance(s) <= pre[s]
    BY <1>t, <2>1 DEF FirstAdvance
  <2>5. WalletHeld(s)'
    BY <1>t, <2>1, <2>2 DEF WalletHeld, Wallet
  <2>6. Wallet(s) => Checked'[s] <= Checked[s]
    BY <1>t, <2>1, <2>2, <2>4 DEF Wallet, OwnProvider
  <2>7. Subscription(s) /\ SubTotal > 0 =>
         \/ fundTaken'[s] <= fundTaken[s]
         \/ SubUsed + (fundTaken'[s] - fundTaken[s]) <= SubTotal
    <3>1. CASE fundTaken' = fundTaken
      BY <1>t, <3>1
    <3>2. CASE fundTaken'[s] = fundTaken[s] + (a - pre[s])
      <4>1. fundTaken'[s] - fundTaken[s] = a - pre[s]
        BY <1>t, <2>1, <3>2
      <4> QED  BY <2>3, <4>1, <3>1
    <3> QED  BY <2>2, <3>1, <3>2
  <2> QED  BY <1>i, <2>4, <2>5, <2>6, <2>7 DEF LedgerStep
<1>6. ASSUME RefundFunding(s) \/ RefundExtra(s) PROVE LedgerStep(s)
  <2>1. pre' = pre /\ extra' = extra /\ charge' = charge /\ consumed' = consumed
    BY <1>6 DEF RefundFunding, RefundExtra, sessionVars
  <2>2. fundTaken'[s] <= fundTaken[s]
    <3>1. CASE RefundFunding(s)
      BY <1>t, <1>i, <3>1 DEF RefundFunding, FundingRefund, FirstAdvance, Add
    <3>2. CASE RefundExtra(s)
      BY <1>t, <3>2 DEF RefundExtra, ExtraRefund, Add
    <3> QED  BY <1>6, <3>1, <3>2
  <2>3. fundTaken'[s] \in Int
    BY DEF Inv, TypeOK
  <2>4. FirstAdvance(s)' = FirstAdvance(s) /\ FirstAdvance(s) \in Int
    BY <1>t, <2>1 DEF FirstAdvance
  <2>5. Checked'[s] <= Checked[s] /\ (WalletHeld(s)')
    BY <1>t, <1>i, <2>1, <2>2, <2>3, <2>4 DEF WalletHeld, Wallet
  <2> QED  BY <1>i, <2>2, <2>4, <2>5 DEF LedgerStep
<1>7. ASSUME \/ \E q \in Estimates : NewBillingSession(s, q) \/ NewBillingSessionRefused(s, q)
             \/ PreConsumeToken(s) \/ PreConsumeTokenRefused(s) \/ PreConsumeFundingRefused(s)
             \/ RollbackToken(s) \/ ReserveRefused(s) \/ ReserveTokenRefused(s)
             \/ \E a \in Actuals : SettleRefused(s, a)
             \/ SettleToken(s) \/ Refund(s) \/ RefundToken(s) \/ Crash(s)
      PROVE  SameLedger
  BY <1>7 DEF SameLedger, sessionVars, NewBillingSession, Admit, NewBillingSessionRefused,
     PreConsumeToken, PreConsumeTokenRefused, PreConsumeFundingRefused, RollbackToken,
     ReserveRefused, ReserveTokenRefused, SettleRefused, SettleToken, Refund, RefundToken, Crash
<1>8. LedgerStep(s)
  BY <1>u, <1>1, <1>2, <1>3, <1>4, <1>5, <1>6, <1>7 DEF Start, Raise, Finish
<1> QED
  BY <1>8, StepSame DEF Inv

LEMMA LedgersStep == Inv /\ Inv' /\ Ledgers /\ [Next]_vars => Ledgers'
<1> SUFFICES ASSUME Inv, Inv', Ledgers, [Next]_vars PROVE Ledgers'
  OBVIOUS
<1>1. ASSUME NEW s \in Sessions, Start(s) \/ Raise(s) \/ Finish(s) \/ Crash(s) PROVE Ledgers'
  BY <1>1, ActionLedger, LedgerStepKeeps DEF Inv
<1>2. CASE UNCHANGED vars
  BY <1>2 DEF vars, sessionVars, Ledgers, Checked, FirstAdvance, WalletHeld, SubSessions,
     WalletSessions, Wallet, Subscription
<1> QED
  BY <1>1, <1>2 DEF Next, AllEnded

LEMMA InitLedgers == Init => Ledgers
<1> SUFFICES ASSUME Init PROVE Ledgers
  OBVIOUS
<1>1. \A s \in Sessions : /\ fundTaken[s] = 0 /\ Checked[s] = 0 /\ FirstAdvance(s) = 0
                          /\ WalletHeld(s)
  BY DEF Init, Zero, Checked, FirstAdvance, WalletHeld
<1>2. SumOf(fundTaken, SubSessions) = 0 /\ SumOf(Checked, WalletSessions) = 0
  BY <1>1, SharedSums, SumOfZero DEF SubSessions, WalletSessions
<1> QED
  BY <1>1, <1>2, BillingSessionAssumption DEF BillingSessionAssumption, Ledgers

LEMMA LedgersAlways == Spec => []Ledgers
BY InitLedgers, LedgersStep, Invariance, PTL DEF Spec

\* However many sessions share them, advances overdraw neither the subscription nor
\* the wallet: one below zero has a trusted, raised or dearer session to explain it.
THEOREM NoOverdraftAlways == Spec => []NoOverdraft
<1>1. Inv /\ Ledgers => NoOverdraft
  <2> SUFFICES ASSUME Inv, Ledgers PROVE NoOverdraft
    OBVIOUS
  <2> USE BillingSessionAssumption DEF BillingSessionAssumption
  <2>1. SubTotal > 0 => SubUsed <= SubTotal
    BY SharedSums DEF Ledgers
  <2>2. ASSUME WalletBalance < 0,
               \A s \in Sessions : Wallet(s) =>
                 ~(s \in trusted \/ consumed[s] > pre[s] - extra[s] \/ charge[s] > pre[s])
        PROVE  FALSE
    <3>1. \A s \in Sessions : /\ fundTaken[s] \in Int /\ consumed[s] \in Int /\ charge[s] \in Int
                              /\ pre[s] \in Int /\ extra[s] \in Int
      BY DEF Inv, TypeOK
    <3>2. \A s \in WalletSessions : fundTaken[s] <= FirstAdvance(s)
      BY <2>2, <3>1 DEF WalletSessions, Ledgers, WalletHeld, FirstAdvance
    <3>3. \A s \in WalletSessions : fundTaken[s] \in Int /\ fundTaken[s] = Checked[s]
      BY <3>1, <3>2 DEF WalletSessions, Checked
    <3>4. SumOf(fundTaken, WalletSessions) = SumOf(Checked, WalletSessions)
      BY <3>3, SharedSums, SumOfSame
    <3>5. SumOf(fundTaken, WalletSessions) \in Int
      BY <3>3, SharedSums, SumOfType
    <3> QED  BY <2>2, <3>4, <3>5, SharedSums DEF Ledgers
  <2> QED  BY <2>1, <2>2 DEF NoOverdraft
<1> QED
  BY <1>1, Invariance, LedgersAlways, PTL
=============================================================================
