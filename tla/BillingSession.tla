--------------------------- MODULE BillingSession ---------------------------
(***************************************************************************)
(* One billing session per relayed request (service/billing_session.go):   *)
(* quota is taken in advance from the token and from a funding source,     *)
(* topped up before a dearer attempt, and finally settled to what was      *)
(* really used or given back.  Sessions of one user share the wallet, the  *)
(* token and the subscription; each database call is a step of its own and *)
(* may fail.  The session mutex makes Settle, Reserve and Refund of one    *)
(* session exclusive, which pc stands for.                                 *)
(*                                                                         *)
(* A ledger column is its initial amount minus what each session has taken *)
(* from it.  The caches in front of the columns are left out.              *)
(***************************************************************************)
EXTENDS Integers, FiniteSetsExt

CONSTANTS
    Sessions,     \* requests of one user with one token
    Source,       \* Source[s]: "wallet", "subscription" or "user_owned_provider"
    Playground,   \* sessions started from the playground, which use no token
    Forced,       \* sessions with ForcePreConsume (asynchronous tasks)
    Estimates,    \* quotas a request may be estimated at (bound)
    Actuals,      \* quotas a request may really cost (bound)
    WalletQuota,  \* users.quota at the start
    TokenQuota,   \* tokens.remain_quota at the start
    Unlimited,    \* tokens.unlimited_quota
    SubTotal,     \* user_subscriptions.amount_total, 0 when unlimited
    TrustQuota,   \* common.GetTrustQuota()
    MaxFaults     \* failed database calls (bound)

Sources == {"wallet", "subscription", "user_owned_provider"}

ASSUME BillingSessionAssumption ==
    /\ IsFiniteSet(Sessions) /\ Source \in [Sessions -> Sources]
    /\ Playground \subseteq Sessions /\ Forced \subseteq Sessions
    /\ Estimates \subseteq Nat /\ Actuals \subseteq Nat
    /\ WalletQuota \in Nat /\ TokenQuota \in Nat /\ Unlimited \in BOOLEAN
    /\ SubTotal \in Nat /\ TrustQuota \in Nat /\ MaxFaults \in Nat

VARIABLES
    pc,             \* where the session stands
    amount,         \* the amount of the call under way
    pre,            \* preConsumedQuota
    tokenConsumed,  \* tokenConsumed
    consumed,       \* WalletFunding.consumed
    extra,          \* extraReserved
    trusted,        \* the sessions that bypass the advance
    charge,         \* the quota passed to Settle
    fundTaken,      \* net quota the session took from its funding source
    tokenTaken,     \* net quota the session took from the token
    faults          \* failed database calls so far

sessionVars == <<amount, pre, tokenConsumed, consumed, extra, trusted, charge>>
vars == <<pc, sessionVars, fundTaken, tokenTaken, faults>>

Steps == {"new", "token", "fund", "unwind", "rejected", "open", "reserveToken",
          "unreserve", "settleToken", "settled", "refundFunding", "refundExtra",
          "refundToken", "refunded", "closed", "crashed"}
Ended == {"rejected", "settled", "refunded", "closed", "crashed"}

TypeOK ==
    /\ pc \in [Sessions -> Steps]
    /\ amount \in [Sessions -> Int] /\ pre \in [Sessions -> Nat]
    /\ tokenConsumed \in [Sessions -> Nat] /\ consumed \in [Sessions -> Nat]
    /\ extra \in [Sessions -> Nat] /\ trusted \in SUBSET Sessions
    /\ charge \in [Sessions -> Nat]
    /\ fundTaken \in [Sessions -> Int] /\ tokenTaken \in [Sessions -> Int]
    /\ faults \in 0 .. MaxFaults

Zero == [s \in Sessions |-> 0]

Init ==
    /\ pc = [s \in Sessions |-> "new"]
    /\ amount = Zero /\ pre = Zero /\ tokenConsumed = Zero /\ consumed = Zero
    /\ extra = Zero /\ trusted = {} /\ charge = Zero
    /\ fundTaken = Zero /\ tokenTaken = Zero
    /\ faults = 0

Wallet(s) == Source[s] = "wallet"
Subscription(s) == Source[s] = "subscription"
OwnProvider(s) == Source[s] = "user_owned_provider"

Taken(col, S) == MapThenSumSet(LAMBDA s : col[s], S)
WalletBalance == WalletQuota - Taken(fundTaken, {s \in Sessions : Wallet(s)})
SubUsed == Taken(fundTaken, {s \in Sessions : Subscription(s)})
TokenRemain == TokenQuota - Taken(tokenTaken, Sessions)

-----------------------------------------------------------------------------
(***************************************************************************)
(* The ledger calls.                                                       *)
(***************************************************************************)
Goto(s, l) == pc' = [pc EXCEPT ![s] = l]

Add(col, s, n) == [col EXCEPT ![s] = @ + n]

NoFault == UNCHANGED faults
Fault == faults < MaxFaults /\ faults' = faults + 1

\* TryReserveTokenQuota by way of PreConsumeTokenQuota.
TokenEnough(s, n) == Unlimited \/ s \in Playground \/ TokenRemain >= n
TakeToken(s, n) == tokenTaken' = IF s \in Playground THEN tokenTaken ELSE Add(tokenTaken, s, n)

\* PostConsumeUserSubscriptionDelta and the check of the pre-consume.
SubEnough(n) == SubTotal = 0 \/ SubUsed + n <= SubTotal

\* FundingSource.PreConsume: conditional, unlike the later adjustments.
Mut_FundEnough(s, n) == Subscription(s) => SubEnough(n)
FundEnough(s, n) ==
    \/ Wallet(s) /\ (n = 0 \/ WalletBalance >= n)
    \/ Subscription(s) /\ SubEnough(n)
    \/ OwnProvider(s)

\* What a wallet may be overdrawn by, a subscription may not.
FundAdjustable(s, n) == Subscription(s) => SubEnough(n)

-----------------------------------------------------------------------------
(***************************************************************************)
(* NewBillingSession and preConsume: admission, token, then funding.       *)
(***************************************************************************)
\* shouldTrust; the token half compares a snapshot taken by the auth middleware,
\* so either outcome is possible for a limited token.
MayTrust(s) ==
    /\ s \notin Forced /\ TrustQuota > 0
    /\ Wallet(s) /\ WalletBalance > TrustQuota

MustTrust(s) == MayTrust(s) /\ Unlimited

Proceed(s, n) ==
    /\ amount' = [amount EXCEPT ![s] = n]
    /\ Goto(s, IF n > 0 THEN "token" ELSE "fund")

Admit(s, q) ==
    /\ \/ /\ Wallet(s) /\ WalletBalance > 0 /\ WalletBalance >= q
          /\ \/ /\ MayTrust(s)
                /\ trusted' = trusted \cup {s}
                /\ Proceed(s, 0)
             \/ /\ ~MustTrust(s)
                /\ Proceed(s, q)
                /\ UNCHANGED trusted
       \/ /\ Subscription(s)
          /\ Proceed(s, IF q = 0 THEN 1 ELSE q)
          /\ UNCHANGED trusted
       \/ /\ OwnProvider(s)
          /\ Proceed(s, 0)
          /\ UNCHANGED trusted
    /\ UNCHANGED <<pre, tokenConsumed, consumed, extra, charge>>

NewBillingSession(s, q) ==
    /\ pc[s] = "new"
    /\ Admit(s, q)
    /\ NoFault
    /\ UNCHANGED <<fundTaken, tokenTaken>>

\* The wallet is empty, too small, or cannot be read.
NewBillingSessionRefused(s, q) ==
    /\ pc[s] = "new" /\ Wallet(s)
    /\ \/ (WalletBalance <= 0 \/ WalletBalance < q) /\ NoFault
       \/ Fault
    /\ Goto(s, "rejected")
    /\ UNCHANGED <<sessionVars, fundTaken, tokenTaken>>

PreConsumeToken(s) ==
    /\ pc[s] = "token"
    /\ TokenEnough(s, amount[s])
    /\ TakeToken(s, amount[s])
    /\ tokenConsumed' = [tokenConsumed EXCEPT ![s] = amount[s]]
    /\ Goto(s, "fund")
    /\ NoFault
    /\ UNCHANGED <<amount, pre, consumed, extra, trusted, charge, fundTaken>>

PreConsumeTokenRefused(s) ==
    /\ pc[s] = "token"
    /\ \/ ~TokenEnough(s, amount[s]) /\ NoFault
       \/ s \notin Playground /\ Fault
    /\ Goto(s, "rejected")
    /\ UNCHANGED <<sessionVars, fundTaken, tokenTaken>>

PreConsumeFunding(s) ==
    /\ pc[s] = "fund"
    /\ FundEnough(s, amount[s])
    /\ fundTaken' = Add(fundTaken, s, amount[s])
    /\ consumed' = [consumed EXCEPT ![s] = IF Wallet(s) THEN amount[s] ELSE 0]
    /\ pre' = [pre EXCEPT ![s] = amount[s]]
    /\ Goto(s, "open")
    /\ NoFault
    /\ UNCHANGED <<amount, tokenConsumed, extra, trusted, charge, tokenTaken>>

PreConsumeFundingRefused(s) ==
    /\ pc[s] = "fund" /\ ~OwnProvider(s)
    /\ \/ ~FundEnough(s, amount[s]) /\ NoFault
       \/ amount[s] > 0 /\ Fault
    /\ Goto(s, IF tokenConsumed[s] > 0 THEN "unwind" ELSE "rejected")
    /\ UNCHANGED <<sessionVars, fundTaken, tokenTaken>>

\* preConsume gives the token quota back; a failure here is only logged.
RollbackToken(s) ==
    /\ pc[s] = "unwind"
    /\ \/ TakeToken(s, -tokenConsumed[s]) /\ NoFault
       \/ s \notin Playground /\ Fault /\ UNCHANGED tokenTaken
    /\ tokenConsumed' = [tokenConsumed EXCEPT ![s] = 0]
    /\ Goto(s, "rejected")
    /\ UNCHANGED <<amount, pre, consumed, extra, trusted, charge, fundTaken>>

-----------------------------------------------------------------------------
(***************************************************************************)
(* Reserve: raise the advance to a target before a dearer attempt.         *)
(***************************************************************************)
Mut_Raises(s, target) == target # pre[s]
Raises(s, target) == target > pre[s]

Reserve(s, target) ==
    /\ pc[s] = "open"
    /\ s \notin trusted /\ Raises(s, target) /\ ~OwnProvider(s)
    /\ FundAdjustable(s, target - pre[s])
    /\ amount' = [amount EXCEPT ![s] = target - pre[s]]
    /\ fundTaken' = Add(fundTaken, s, target - pre[s])
    /\ consumed' = IF Wallet(s) THEN Add(consumed, s, target - pre[s]) ELSE consumed
    /\ Goto(s, "reserveToken")
    /\ NoFault
    /\ UNCHANGED <<pre, tokenConsumed, extra, trusted, charge, tokenTaken>>

\* The funding cannot be raised: the session is as it was.
ReserveRefused(s) ==
    /\ pc[s] = "open" /\ s \notin trusted /\ ~OwnProvider(s)
    /\ Fault
    /\ UNCHANGED <<pc, sessionVars, fundTaken, tokenTaken>>

ReserveToken(s) ==
    /\ pc[s] = "reserveToken"
    /\ TokenEnough(s, amount[s])
    /\ TakeToken(s, amount[s])
    /\ pre' = Add(pre, s, amount[s])
    /\ tokenConsumed' = Add(tokenConsumed, s, amount[s])
    /\ extra' = Add(extra, s, amount[s])
    /\ Goto(s, "open")
    /\ NoFault
    /\ UNCHANGED <<amount, consumed, trusted, charge, fundTaken>>

ReserveTokenRefused(s) ==
    /\ pc[s] = "reserveToken"
    /\ \/ ~TokenEnough(s, amount[s]) /\ NoFault
       \/ s \notin Playground /\ Fault
    /\ Goto(s, "unreserve")
    /\ UNCHANGED <<sessionVars, fundTaken, tokenTaken>>

\* rollbackFundingReserve; when it fails, consumed keeps the amount.
Mut_ReserveUndo(s) == 0
ReserveUndo(s) == amount[s]

RollbackFundingReserve(s) ==
    /\ pc[s] = "unreserve"
    /\ \/ /\ fundTaken' = Add(fundTaken, s, -ReserveUndo(s))
          /\ consumed' = IF Wallet(s) THEN Add(consumed, s, -amount[s]) ELSE consumed
          /\ NoFault
       \/ Fault /\ UNCHANGED <<fundTaken, consumed>>
    /\ Goto(s, "open")
    /\ UNCHANGED <<amount, pre, tokenConsumed, extra, trusted, charge, tokenTaken>>

-----------------------------------------------------------------------------
(***************************************************************************)
(* Settle: funding first, then the token.                                  *)
(***************************************************************************)
Mut_SettleDelta_NoReserve(s, actual) == actual - (pre[s] - extra[s])
Mut_SettleDelta_Twice(s, actual) == actual - pre[s] - extra[s]
SettleDelta(s, actual) == actual - pre[s]

Settle(s, actual) ==
    /\ pc[s] = "open"
    /\ charge' = [charge EXCEPT ![s] = actual]
    /\ \/ /\ actual = pre[s] \/ OwnProvider(s)
          /\ Goto(s, "settled")
          /\ UNCHANGED <<amount, fundTaken>>
       \/ /\ actual # pre[s] /\ ~OwnProvider(s)
          /\ FundAdjustable(s, SettleDelta(s, actual))
          /\ fundTaken' = Add(fundTaken, s, SettleDelta(s, actual))
          /\ amount' = [amount EXCEPT ![s] = SettleDelta(s, actual)]
          /\ Goto(s, "settleToken")
    /\ NoFault
    /\ UNCHANGED <<pre, tokenConsumed, consumed, extra, trusted, tokenTaken>>

\* The funding could not be adjusted: nothing is settled, Refund still may be.
SettleRefused(s, actual) ==
    /\ pc[s] = "open" /\ actual # pre[s] /\ ~OwnProvider(s)
    /\ \/ ~FundAdjustable(s, SettleDelta(s, actual)) /\ NoFault
       \/ Fault
    /\ UNCHANGED <<pc, sessionVars, fundTaken, tokenTaken>>

SettleToken(s) ==
    /\ pc[s] = "settleToken"
    /\ \/ TakeToken(s, amount[s]) /\ NoFault
       \/ s \notin Playground /\ Fault /\ UNCHANGED tokenTaken
    /\ Goto(s, "settled")
    /\ UNCHANGED <<sessionVars, fundTaken>>

-----------------------------------------------------------------------------
(***************************************************************************)
(* Refund: once, never after a settlement, in a goroutine of its own.  The *)
(* relay calls it when the request has failed, and calls nothing after it. *)
(***************************************************************************)
NeedsRefund(s) ==
    \/ tokenConsumed[s] > 0
    \/ Subscription(s) /\ pre[s] > extra[s]

Mut_Unsettled(s) == pc[s] \in {"open", "settled"}
Unsettled(s) == pc[s] = "open"

Refund(s) ==
    /\ Unsettled(s)
    /\ Goto(s, IF NeedsRefund(s) THEN "refundFunding" ELSE "closed")
    /\ NoFault
    /\ UNCHANGED <<sessionVars, fundTaken, tokenTaken>>

\* FundingSource.Refund: consumed for a wallet, the recorded advance otherwise.
Mut_FundingRefund(s) == pre[s] - extra[s]
FundingRefund(s) == IF Wallet(s) THEN consumed[s] ELSE pre[s] - extra[s]

RefundFunding(s) ==
    /\ pc[s] = "refundFunding"
    /\ \/ fundTaken' = Add(fundTaken, s, -FundingRefund(s)) /\ NoFault
       \/ FundingRefund(s) > 0 /\ Fault /\ UNCHANGED fundTaken
    /\ Goto(s, "refundExtra")
    /\ UNCHANGED <<sessionVars, tokenTaken>>

\* extraReserved is given back apart for a subscription only.
ExtraRefund(s) == IF Subscription(s) THEN extra[s] ELSE 0

RefundExtra(s) ==
    /\ pc[s] = "refundExtra"
    /\ \/ fundTaken' = Add(fundTaken, s, -ExtraRefund(s)) /\ NoFault
       \/ ExtraRefund(s) > 0 /\ Fault /\ UNCHANGED fundTaken
    /\ Goto(s, "refundToken")
    /\ UNCHANGED <<sessionVars, tokenTaken>>

RefundToken(s) ==
    /\ pc[s] = "refundToken"
    /\ \/ TakeToken(s, -tokenConsumed[s]) /\ NoFault
       \/ s \notin Playground /\ Fault /\ UNCHANGED tokenTaken
    /\ Goto(s, "refunded")
    /\ UNCHANGED <<sessionVars, fundTaken>>

\* The process dies with the session: nothing is ever given back.
Crash(s) ==
    /\ pc[s] \notin Ended
    /\ Goto(s, "crashed")
    /\ NoFault
    /\ UNCHANGED <<sessionVars, fundTaken, tokenTaken>>

-----------------------------------------------------------------------------
Start(s) ==
    \/ \E q \in Estimates : NewBillingSession(s, q) \/ NewBillingSessionRefused(s, q)
    \/ PreConsumeToken(s) \/ PreConsumeTokenRefused(s)
    \/ PreConsumeFunding(s) \/ PreConsumeFundingRefused(s)
    \/ RollbackToken(s)

Raise(s) ==
    \/ \E q \in Estimates : Reserve(s, q)
    \/ ReserveRefused(s)
    \/ ReserveToken(s) \/ ReserveTokenRefused(s)
    \/ RollbackFundingReserve(s)

Finish(s) ==
    \/ \E a \in Actuals : Settle(s, a) \/ SettleRefused(s, a)
    \/ SettleToken(s)
    \/ Refund(s)
    \/ RefundFunding(s) \/ RefundExtra(s) \/ RefundToken(s)

\* Every request has ended; anything else without a successor is a deadlock.
AllEnded == (\A s \in Sessions : pc[s] \in Ended) /\ UNCHANGED vars

Next ==
    \/ \E s \in Sessions : Start(s) \/ Raise(s) \/ Finish(s) \/ Crash(s)
    \/ AllEnded

Spec == Init /\ [][Next]_vars

-----------------------------------------------------------------------------
(***************************************************************************)
(* Properties.                                                             *)
(***************************************************************************)
\* No session ever gives back more than it took, whichever of its calls fail and
\* wherever it dies: a refund never meets a settled, refunded or rolled-back advance.
NoFreeQuota == \A s \in Sessions : fundTaken[s] >= 0 /\ tokenTaken[s] >= 0

\* Settle charges what was used (comment of Settle):
\* as long as no database call failed, funding and token are both down by exactly
\* the settled quota, whatever was advanced, reserved and rolled back before.
SettledExactly ==
    \A s \in Sessions :
        pc[s] = "settled" /\ faults = 0 /\ ~OwnProvider(s) =>
            /\ fundTaken[s] = charge[s]
            /\ s \notin Playground => tokenTaken[s] = charge[s]

\* A failed call can cost the user, never the platform: the funding of a settled
\* request is down by at least the quota it used.
SettledCovered ==
    \A s \in Sessions :
        pc[s] = "settled" /\ ~OwnProvider(s) => fundTaken[s] >= charge[s]

\* A request that was refused or refunded leaves no trace in the ledgers, as long
\* as no database call failed (comment of preConsume).
NothingLeftBehind ==
    \A s \in Sessions :
        pc[s] \in {"rejected", "refunded", "closed"} /\ faults = 0 =>
            fundTaken[s] = 0 /\ tokenTaken[s] = 0

\* The advance written to the log is the advance really taken from the funding
\* (comment of reserveFunding), and between calls also from the token.
AdvanceReconciles ==
    \A s \in Sessions :
        pc[s] = "open" /\ faults = 0 =>
            /\ fundTaken[s] = pre[s]
            /\ s \notin Playground => tokenTaken[s] = pre[s]

\* Concurrent requests never overdraw by their advances: a subscription stays
\* within its total, and a wallet below zero is explained by a session that was
\* trusted, reserved more, or settled above its advance (comment of reserveFunding).
NoOverdraft ==
    /\ SubTotal > 0 => SubUsed <= SubTotal
    /\ WalletBalance < 0 =>
         \E s \in Sessions :
            /\ Wallet(s)
            /\ s \in trusted \/ consumed[s] > pre[s] - extra[s] \/ charge[s] > pre[s]
=============================================================================
