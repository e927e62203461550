----------------------------- MODULE QuotaCache -----------------------------
(***************************************************************************)
(* One user's wallet in three places: the row of the users table, the      *)
(* Quota field of the user's Redis hash, and the batch store of the        *)
(* process (model/quota_reserve.go, model/user_cache.go, model/user.go,    *)
(* model/utils.go).  Reservations ask the hash first and fall back to the  *)
(* row; everything else changes the row, or the store, and the hash side   *)
(* by side, in goroutines of its own.                                      *)
(*                                                                         *)
(* One Redis script, one database statement and one access to the store    *)
(* under its mutex are one step each.  One process; Redis and the database *)
(* survive its crash.                                                      *)
(***************************************************************************)
EXTENDS Integers, FiniteSetsExt

CONSTANTS
    Procs,       \* requests and tasks of the process
    Initial,     \* the wallet at the start (bound)
    Amounts,     \* of reservations, refunds and charges (bound)
    MaxOps,      \* operations begun (bound)
    MaxFailures  \* failed calls and crashes (bound)

ASSUME QuotaCacheAssumption ==
    /\ IsFiniteSet(Procs) /\ Initial \in Nat /\ Amounts \subseteq Nat \ {0}
    /\ MaxOps \in Nat /\ MaxFailures \in Nat

VARIABLES
    batch,     \* BatchUpdateEnabled
    quota,     \* users.quota
    shown,     \* the hash has its Quota field
    cached,    \* the field, 0 without a hash
    store,     \* the batch store's sum for this user
    flushing,  \* the sum batchUpdate has swapped out and not applied
    pc,        \* where each process stands
    amount,    \* what it reserves, or by how much it moves the wallet
    got,       \* the row's quota it read
    todo,      \* the halves of its movement that are left
    given, taken,  \* what the wallet was moved by, see QuotaCell
    lost,      \* movements that were shown and never reached the row
    suspect,   \* something happened that may leave the cache above the wallet
    ops, failures  \* counted against their bounds

places == <<quota, store, flushing>>
cache == <<shown, cached>>
local == <<pc, amount, got, todo>>
ledger == <<given, taken, lost>>
quotaVars == <<batch, places, cache, local, ledger, suspect, ops, failures>>

Halves == {"cache", "record"}
Balance == given - taken

QuotaTypeOK ==
    /\ batch \in BOOLEAN /\ shown \in BOOLEAN /\ suspect \in BOOLEAN
    /\ quota \in Int /\ cached \in Int /\ store \in Int /\ flushing \in Int
    /\ ~shown => cached = 0
    /\ ~batch => store = 0 /\ flushing = 0
    /\ pc \in [Procs -> {"idle", "ask", "look", "fill", "retry", "fallback", "persist",
                         "compensate", "move"}]
    /\ amount \in [Procs -> Int] /\ got \in [Procs -> Int]
    /\ todo \in [Procs -> SUBSET Halves]
    /\ \A p \in Procs : todo[p] # {} <=> pc[p] = "move"
    /\ given \in Int /\ taken \in Nat /\ lost \in Int
    /\ ops \in 0..MaxOps /\ failures \in 0..MaxFailures

QuotaInit ==
    /\ batch \in BOOLEAN
    /\ quota = Initial /\ shown = FALSE /\ cached = 0 /\ store = 0 /\ flushing = 0
    /\ pc = [p \in Procs |-> "idle"] /\ amount = [p \in Procs |-> 0]
    /\ got = [p \in Procs |-> 0] /\ todo = [p \in Procs |-> {}]
    /\ given = Initial /\ taken = 0 /\ lost = 0
    /\ suspect = FALSE /\ ops = 0 /\ failures = 0

Fault == failures < MaxFailures /\ failures' = failures + 1
NoFault == UNCHANGED failures

Goto(p, place) == pc' = [pc EXCEPT ![p] = place]

\* Recorded movements that the row does not show yet, or that it shows and
\* whose cache half is still to come.
Outstanding ==
    \/ store # 0 \/ flushing # 0 \/ lost # 0
    \/ \E p \in Procs : pc[p] \in {"persist", "compensate", "move"}

\* A charge that has been recorded and not taken from the hash, or a refund the
\* hash shows and that is not recorded.
HashAhead == \E p \in Procs :
    \/ amount[p] < 0 /\ todo[p] = {"cache"}
    \/ amount[p] > 0 /\ todo[p] = {"record"}

Suspect(condition) == suspect' = (suspect \/ condition)

(***************************************************************************)
(* TryReserveUserQuota                                                     *)
(***************************************************************************)
BeginReserve(p) == \E n \in Amounts :
    /\ pc[p] = "idle" /\ ops < MaxOps
    /\ ops' = ops + 1
    /\ Goto(p, "ask")
    /\ amount' = [amount EXCEPT ![p] = n]
    /\ UNCHANGED <<batch, places, cache, got, todo, ledger, suspect, failures>>

\* A request that only reads the user, and fills the hash on the way.
Visit(p) ==
    /\ pc[p] = "idle" /\ ops < MaxOps /\ ~shown
    /\ ops' = ops + 1
    /\ Goto(p, "look")
    /\ amount' = [amount EXCEPT ![p] = 0]
    /\ UNCHANGED <<batch, places, cache, got, todo, ledger, suspect, failures>>

\* userQuotaReserveScript checks and takes in one step.
Reserve(p) ==
    /\ pc[p] \in {"ask", "retry"} /\ shown /\ cached >= amount[p]
    /\ cached' = cached - amount[p]
    /\ taken' = taken + amount[p]
    /\ Suspect(HashAhead)
    /\ Goto(p, "persist")
    /\ UNCHANGED <<batch, places, shown, amount, got, todo, given, lost, ops, failures>>

Insufficient(p) ==
    /\ pc[p] \in {"ask", "retry"} /\ shown /\ cached < amount[p]
    /\ Goto(p, "idle")
    /\ UNCHANGED <<batch, places, cache, amount, got, todo, ledger, suspect, ops, failures>>

\* A miss is filled once; a second miss, and any error, asks the row instead.
Miss(p) ==
    /\ pc[p] \in {"ask", "retry"}
    /\ \/ ~shown /\ pc[p] = "ask" /\ Goto(p, "look") /\ NoFault
       \/ ~shown /\ pc[p] = "retry" /\ Goto(p, "fallback") /\ NoFault
       \/ Fault /\ Goto(p, "fallback")
    /\ UNCHANGED <<batch, places, cache, amount, got, todo, ledger, suspect, ops>>

\* GetUserCache: a hash somebody else has filled, or the row.
Look(p) ==
    /\ pc[p] = "look"
    /\ IF shown
       THEN Goto(p, IF amount[p] = 0 THEN "idle" ELSE "retry") /\ UNCHANGED got
       ELSE Goto(p, "fill") /\ got' = [got EXCEPT ![p] = quota]
    /\ UNCHANGED <<batch, places, cache, amount, todo, ledger, suspect, ops, failures>>

\* Writes the quota over one that is there.
Mut_FillQuota(p) ==
    /\ pc[p] = "fill"
    /\ shown' = TRUE /\ cached' = got[p]
    /\ IF shown THEN UNCHANGED suspect ELSE suspect' = (got[p] # quota \/ Outstanding)
    /\ Goto(p, IF amount[p] = 0 THEN "idle" ELSE "retry")
    /\ got' = [got EXCEPT ![p] = 0]
    /\ UNCHANGED <<batch, places, amount, todo, ledger, ops, failures>>

\* The fill writes the quota only where the hash has none; a failed one leaves the
\* hash alone.  A pending authentication fence (UserAuthFence) refuses the whole query,
\* and a reservation asks the row instead.
FillQuota(p) ==
    /\ pc[p] = "fill"
    /\ \/ /\ \/ /\ ~shown
                /\ shown' = TRUE /\ cached' = got[p]
                /\ suspect' = (got[p] # quota \/ Outstanding)
                /\ NoFault
             \/ shown /\ UNCHANGED <<cache, suspect>> /\ NoFault
             \/ Fault /\ UNCHANGED <<cache, suspect>>
          /\ Goto(p, IF amount[p] = 0 THEN "idle" ELSE "retry")
       \/ /\ Goto(p, IF amount[p] = 0 THEN "idle" ELSE "fallback")
          /\ UNCHANGED <<cache, suspect, failures>>
    /\ got' = [got EXCEPT ![p] = 0]
    /\ UNCHANGED <<batch, places, amount, todo, ledger, ops>>

\* reserveUserQuotaDB: neither the hash nor what the store holds is looked at.
Fallback(p) ==
    /\ pc[p] = "fallback"
    /\ IF quota >= amount[p]
       THEN /\ quota' = quota - amount[p] /\ taken' = taken + amount[p]
            /\ Suspect(shown \/ Outstanding)
       ELSE UNCHANGED <<quota, taken, suspect>>
    /\ Goto(p, "idle")
    /\ UNCHANGED <<batch, store, flushing, cache, amount, got, todo, given, lost, ops, failures>>

\* Queues for an updater that does not run.
Mut_Add(d) == store' = store + d /\ UNCHANGED <<quota, flushing>>

\* addNewRecord, or the row.
Add(d) ==
    /\ IF batch THEN store' = store + d /\ UNCHANGED quota ELSE quota' = quota + d /\ UNCHANGED store
    /\ UNCHANGED flushing

\* persistUserQuotaDelta
Persist(p) ==
    /\ pc[p] = "persist"
    /\ Add(-amount[p])
    /\ Goto(p, "idle")
    /\ UNCHANGED <<batch, cache, amount, got, todo, ledger, suspect, ops, failures>>

PersistFails(p) ==
    /\ pc[p] = "persist" /\ ~batch /\ Fault
    /\ given' = given + amount[p]
    /\ Goto(p, "compensate")
    /\ UNCHANGED <<batch, places, cache, amount, got, todo, taken, lost, suspect, ops>>

\* The deltas skip a hash that is not there.
ApplyDelta(d) == cached' = IF shown THEN cached + d ELSE cached

Compensate(p) ==
    /\ pc[p] = "compensate"
    /\ \/ ApplyDelta(amount[p]) /\ NoFault
       \/ Fault /\ UNCHANGED cached
    /\ Goto(p, "idle")
    /\ UNCHANGED <<batch, places, shown, amount, got, todo, ledger, suspect, ops>>

(***************************************************************************)
(* Refunds, charges and credits                                            *)
(***************************************************************************)
\* IncreaseUserQuota and DecreaseUserQuota start the cache half in a goroutine;
\* a credit does it after its transaction.
BeginMove(p) == \E n \in Amounts, sign \in {1, -1} :
    /\ pc[p] = "idle" /\ ops < MaxOps
    /\ ops' = ops + 1
    /\ Goto(p, "move")
    /\ amount' = [amount EXCEPT ![p] = sign * n]
    /\ todo' = [todo EXCEPT ![p] = Halves]
    /\ UNCHANGED <<batch, places, cache, got, ledger, suspect, failures>>

HalfDone(p, half) ==
    /\ todo' = [todo EXCEPT ![p] = @ \ {half}]
    /\ IF todo[p] = {half} THEN Goto(p, "idle") ELSE UNCHANGED pc

MoveCache(p) ==
    /\ "cache" \in todo[p]
    /\ HalfDone(p, "cache")
    /\ \/ ApplyDelta(amount[p]) /\ UNCHANGED suspect /\ NoFault
       \/ Fault /\ UNCHANGED cached /\ Suspect(shown /\ amount[p] < 0)
    /\ UNCHANGED <<batch, places, shown, amount, got, ledger, ops>>

\* Through the store in batch mode, unless the caller asked for the database.
MoveRecord(p) ==
    /\ "record" \in todo[p]
    /\ HalfDone(p, "record")
    /\ \/ /\ \/ Add(amount[p])
             \/ batch /\ quota' = quota + amount[p] /\ UNCHANGED <<store, flushing>>
          /\ given' = given + amount[p] /\ UNCHANGED suspect /\ NoFault
       \/ Fault /\ UNCHANGED <<places, given>> /\ Suspect(amount[p] > 0)
    /\ UNCHANGED <<batch, cache, amount, got, taken, lost, ops>>

(***************************************************************************)
(* The batch updater, expiry, crashes                                      *)
(***************************************************************************)
\* The store is read and not replaced.
Mut_Swap ==
    /\ store # 0 /\ flushing = 0
    /\ flushing' = store
    /\ UNCHANGED <<batch, quota, store, cache, local, ledger, suspect, ops, failures>>

Swap ==
    /\ store # 0 /\ flushing = 0
    /\ flushing' = store /\ store' = 0
    /\ UNCHANGED <<batch, quota, cache, local, ledger, suspect, ops, failures>>

\* A failed update is logged, and the sum forgotten.
ApplyBatch ==
    /\ flushing # 0 /\ flushing' = 0
    /\ \/ quota' = quota + flushing /\ UNCHANGED <<lost, suspect>> /\ NoFault
       \/ Fault /\ lost' = lost + flushing /\ suspect' = TRUE /\ UNCHANGED quota
    /\ UNCHANGED <<batch, store, cache, local, given, taken, ops>>

QuotaExpires ==
    /\ shown /\ shown' = FALSE /\ cached' = 0
    /\ UNCHANGED <<batch, places, local, ledger, suspect, ops, failures>>

\* What has been taken from the hash and not been recorded was never granted.
Held == [p \in Procs |-> IF pc[p] = "persist" THEN amount[p] ELSE 0]
Unrecorded == MapThenSumSet(LAMBDA p : Held[p], Procs)

Crash ==
    /\ Fault
    /\ store' = 0 /\ flushing' = 0 /\ lost' = lost + store + flushing
    /\ given' = given + Unrecorded
    /\ Suspect(Outstanding)
    /\ pc' = [p \in Procs |-> "idle"] /\ amount' = [p \in Procs |-> 0]
    /\ got' = [p \in Procs |-> 0] /\ todo' = [p \in Procs |-> {}]
    /\ UNCHANGED <<batch, quota, cache, taken, ops>>

Process(p) ==
    \/ BeginReserve(p) \/ Visit(p) \/ Reserve(p) \/ Insufficient(p) \/ Miss(p) \/ Look(p) \/ FillQuota(p)
    \/ Fallback(p) \/ Persist(p) \/ PersistFails(p) \/ Compensate(p)
    \/ BeginMove(p) \/ MoveCache(p) \/ MoveRecord(p)

QuotaNext == (\E p \in Procs : Process(p)) \/ Swap \/ ApplyBatch \/ QuotaExpires \/ Crash

QuotaSpec == QuotaInit /\ [][QuotaNext]_quotaVars

(***************************************************************************)
(* Properties                                                              *)
(***************************************************************************)
\* Every reservation that was granted, and every movement, reaches the row or the
\* store exactly once, through flushes, fallbacks, failed writes and crashes;
\* only a failed flush or a crash loses one, and then it is known which.
Conserved == quota + store + flushing + lost = Balance + Unrecorded

\* While nothing happened that may leave the hash above the wallet - a fill from
\* a row that was read too early or that lags, a fallback past the hash, a hash
\* that is ahead of the record, a movement half done, a lost one -, a
\* reservation takes only what the wallet has.
Cell == INSTANCE QuotaCell WITH given <- given, taken <- taken, suspect <- suspect
ImplementsCell == Cell!Spec
=============================================================================
