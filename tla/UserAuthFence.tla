--------------------------- MODULE UserAuthFence ---------------------------
(***************************************************************************)
(* The version fence of one user's authentication state                    *)
(* (model/user_auth_cache.go, model/user_cache.go).  The row of the users  *)
(* table carries a version that every security change raises.  Redis keeps *)
(* a hash copied from the row, a pending fence published before the        *)
(* change's transaction is decided, and a committed floor.  Requests read  *)
(* the hash, fall back to the row, and fill the hash with what they found, *)
(* arbitrarily late.                                                       *)
(*                                                                         *)
(* Each Redis command or script, each database statement and each commit   *)
(* is one step.  A lost process and a failed call look the same to the     *)
(* others: the actor goes back to "idle".  Redis does not lose keys.       *)
(***************************************************************************)
EXTENDS Naturals

CONSTANTS
    Readers,     \* requests that authenticate the user
    Writers,     \* goroutines that change the user or refresh the hash
    MaxChanges,  \* transactions begun (bound)
    MaxFaults    \* failed Redis commands (bound)

ASSUME UserAuthFenceAssumption == MaxChanges \in Nat /\ MaxFaults \in Nat

VARIABLES
    version,    \* users.auth_version, committed
    deletedAt,  \* the version that carries deleted_at, 0 before
    erased,     \* the row was deleted for good
    hash,       \* AuthVersion of the user's hash, 0 without one
    fence,      \* the pending fence, 0 without one
    floor,      \* the committed version floor, 0 without one
    written,    \* whether the hash was last written before or after the fence was set
    rpc,        \* where each reader stands
    rgot,       \* the version a reader holds
    since,      \* the version when its query began, 0 without one
    answer,     \* what the last query to end returned, 0 for an error or when
                \* another has begun since
    wpc,        \* where each writer stands
    kind,       \* of the transaction it is in
    wgot,       \* the version it read or is about to write
    late,       \* a fence ran out before those it was raised against had ended
    changes, faults  \* counted against their bounds

row == <<version, deletedAt, erased>>
redis == <<hash, fence, floor, written>>
readers == <<rpc, rgot, since, answer>>
writers == <<wpc, kind, wgot>>
vars == <<row, redis, readers, writers, late, changes, faults>>

\* delete: User.Delete; change: every other transaction that raises the version.
Kinds == {"none", "change", "delete"}
InTransaction == {"locked", "fenced", "updated"}

AuthTypes ==
    /\ version \in Nat \ {0} /\ deletedAt \in Nat /\ erased \in BOOLEAN
    /\ hash \in Nat /\ fence \in Nat /\ floor \in Nat /\ written \in {"before", "after"}
    /\ rpc \in [Readers -> {"idle", "asking", "hit", "miss", "row", "guarded"}]
    /\ rgot \in [Readers -> Nat] /\ since \in [Readers -> Nat] /\ answer \in Nat
    /\ wpc \in [Writers -> {"idle", "committed", "publish", "field", "promote", "invalidate"} \cup InTransaction]
    /\ kind \in [Writers -> Kinds] /\ wgot \in [Writers -> Nat]
    /\ \A r \in Readers : since[r] = 0 <=> rpc[r] = "idle"
    /\ late \in BOOLEAN
    /\ changes \in 0..MaxChanges /\ faults \in 0..MaxFaults

\* The hash shows only committed versions, and a fence is at most one change ahead of
\* the row, whatever is rolled back, read again or delayed.
TypeOK ==
    /\ AuthTypes
    /\ hash <= version /\ deletedAt <= version /\ fence <= version + 1

Init ==
    /\ version = 1 /\ deletedAt = 0 /\ erased = FALSE
    /\ hash = 0 /\ fence = 0 /\ floor = 0 /\ written = "after"
    /\ rpc = [r \in Readers |-> "idle"] /\ rgot = [r \in Readers |-> 0]
    /\ since = [r \in Readers |-> 0] /\ answer = 0
    /\ wpc = [w \in Writers |-> "idle"] /\ kind = [w \in Writers |-> "none"]
    /\ wgot = [w \in Writers |-> 0]
    /\ late = FALSE /\ changes = 0 /\ faults = 0

\* Forgets versions that were committed and published.
Mut_EffectiveFloor == fence

\* getUserAuthVersionFloor
EffectiveFloor == IF fence > floor THEN fence ELSE floor

\* GetUserById finds no deleted row.
Present == deletedAt = 0 /\ ~erased

RedisFails == faults < MaxFaults /\ faults' = faults + 1

(***************************************************************************)
(* The scripts                                                             *)
(***************************************************************************)
\* The refusal the two guarded scripts share.
Accepts(v) == fence <= v /\ floor <= v /\ hash <= v

\* What they share beyond it: the floor rises, a fence of this version goes.
Promote(v) == floor' = v /\ fence' = 0

\* writeUserCache; without the quota it only refreshes a hash that is there.
WriteHash(v, includeQuota) ==
    /\ Promote(v)
    /\ IF includeQuota \/ hash # 0
       THEN hash' = v /\ written' = "after"
       ELSE UNCHANGED <<hash, written>>

\* updateUserCacheFieldAtVersion leaves the hash's version and expiry alone.
WriteField(v) == Promote(v) /\ UNCHANGED <<hash, written>>

\* SetUserAuthVersionFence; an equal fence starts a new term.
RaiseFence(v) ==
    /\ fence' = IF fence < v THEN v ELSE fence
    /\ written' = IF fence <= v THEN "before" ELSE written

\* publishCommittedUserAuthVersion
PromoteCommitted(v) ==
    /\ floor' = IF floor < v THEN v ELSE floor
    /\ fence' = IF fence <= v THEN 0 ELSE fence

(***************************************************************************)
(* A request: GetUserCache                                                 *)
(***************************************************************************)
Begin(r) ==
    /\ rpc[r] = "idle"
    /\ rpc' = [rpc EXCEPT ![r] = "asking"]
    /\ since' = [since EXCEPT ![r] = version]
    /\ answer' = 0
    /\ UNCHANGED <<row, redis, writers, rgot, late, changes, faults>>

Return(r, v) ==
    /\ rpc' = [rpc EXCEPT ![r] = "idle"]
    /\ rgot' = [rgot EXCEPT ![r] = 0]
    /\ since' = [since EXCEPT ![r] = 0]
    /\ answer' = v

Hold(r, place, v) ==
    /\ rpc' = [rpc EXCEPT ![r] = place]
    /\ rgot' = [rgot EXCEPT ![r] = v]
    /\ UNCHANGED <<since, answer>>

ReadHash(r) ==
    /\ rpc[r] = "asking"
    /\ \/ hash # 0 /\ Hold(r, "hit", hash) /\ UNCHANGED faults
       \/ hash = 0 /\ Hold(r, "miss", 0) /\ UNCHANGED faults
       \/ RedisFails /\ Hold(r, "miss", 0)
    /\ UNCHANGED <<row, redis, writers, late, changes>>

\* Every error of cacheGetUserBase, a version below the floor among them, sends
\* the request to the database.
CheckFloor(r) ==
    /\ rpc[r] = "hit"
    /\ \/ EffectiveFloor > rgot[r] /\ Hold(r, "miss", 0) /\ UNCHANGED faults
       \/ EffectiveFloor <= rgot[r] /\ Return(r, rgot[r]) /\ UNCHANGED faults
       \/ RedisFails /\ Hold(r, "miss", 0)
    /\ UNCHANGED <<row, redis, writers, late, changes>>

ReadRow(r) ==
    /\ rpc[r] = "miss"
    /\ IF Present THEN Hold(r, "row", version) ELSE Return(r, 0)
    /\ UNCHANGED <<row, redis, writers, late, changes, faults>>

GuardRow(r) ==
    /\ rpc[r] = "row"
    /\ \/ EffectiveFloor > rgot[r] /\ Return(r, 0) /\ UNCHANGED faults
       \/ EffectiveFloor <= rgot[r] /\ Hold(r, "guarded", rgot[r]) /\ UNCHANGED faults
       \/ RedisFails /\ Hold(r, "guarded", rgot[r])
    /\ UNCHANGED <<row, redis, writers, late, changes>>

\* populateUserCache: only a refusal by the script is the request's error.
Fill(r) ==
    /\ rpc[r] = "guarded"
    /\ \/ Accepts(rgot[r]) /\ WriteHash(rgot[r], TRUE) /\ Return(r, rgot[r]) /\ UNCHANGED faults
       \/ ~Accepts(rgot[r]) /\ Return(r, 0) /\ UNCHANGED <<redis, faults>>
       \/ RedisFails /\ Return(r, rgot[r]) /\ UNCHANGED redis
    /\ UNCHANGED <<row, writers, late, changes>>

GiveUp(r) ==
    /\ rpc[r] # "idle" /\ Return(r, 0)
    /\ UNCHANGED <<row, redis, writers, late, changes, faults>>

(***************************************************************************)
(* A change of the user                                                    *)
(***************************************************************************)
MoveTo(w, place, k, v) ==
    /\ wpc' = [wpc EXCEPT ![w] = place]
    /\ kind' = [kind EXCEPT ![w] = k]
    /\ wgot' = [wgot EXCEPT ![w] = v]

Done(w) == MoveTo(w, "idle", "none", 0)

\* The row is locked for update where the database can do it.  SQLite cannot:
\* two transactions may read one version there, and the second one's update
\* fails or reads again.
LockUser(w) == \E k \in {"change", "delete"} :
    /\ wpc[w] = "idle" /\ changes < MaxChanges /\ ~erased
    /\ changes' = changes + 1
    /\ MoveTo(w, "locked", k, version + 1)
    /\ UNCHANGED <<row, redis, readers, late, faults>>

\* Publishes the permanent floor before the transaction is decided.
Mut_SetFence(w) ==
    /\ wpc[w] = "locked"
    /\ PromoteCommitted(wgot[w])
    /\ MoveTo(w, "fenced", kind[w], wgot[w])
    /\ UNCHANGED <<row, hash, written, readers, late, changes, faults>>

\* A fence that cannot be published ends the transaction.
SetFence(w) ==
    /\ wpc[w] = "locked"
    /\ RaiseFence(wgot[w])
    /\ MoveTo(w, "fenced", kind[w], wgot[w])
    /\ UNCHANGED <<row, hash, floor, readers, late, changes, faults>>

\* Refreshes the hash inside the transaction, before it is decided.
Mut_UpdateVersion(w) ==
    /\ wpc[w] = "fenced" /\ \A x \in Writers : wpc[x] # "updated"
    /\ wgot[w] = version + 1 /\ ~erased
    /\ hash' = IF hash # 0 THEN wgot[w] ELSE 0
    /\ MoveTo(w, "updated", kind[w], wgot[w])
    /\ UNCHANGED <<row, fence, floor, written, readers, late, changes, faults>>

\* One uncommitted update of the row at a time; guarded by the version read.
UpdateVersion(w) ==
    /\ wpc[w] = "fenced" /\ \A x \in Writers : wpc[x] # "updated"
    /\ wgot[w] = version + 1 /\ ~erased
    /\ MoveTo(w, "updated", kind[w], wgot[w])
    /\ UNCHANGED <<row, redis, readers, late, changes, faults>>

\* No row matched: read the version again.
Reread(w) ==
    /\ wpc[w] = "fenced" /\ wgot[w] # version + 1 /\ ~erased
    /\ MoveTo(w, "locked", kind[w], version + 1)
    /\ UNCHANGED <<row, redis, readers, late, changes, faults>>

\* Update and Edit publish the row they read back within the transaction, the
\* others read it after the commit.
Commit(w) ==
    /\ wpc[w] = "updated"
    /\ version' = wgot[w]
    /\ deletedAt' = IF kind[w] = "delete" /\ deletedAt = 0 THEN wgot[w] ELSE deletedAt
    /\ \/ kind[w] = "change" /\ MoveTo(w, "committed", "none", 0)
       \/ kind[w] = "change" /\ Present /\ MoveTo(w, "publish", "none", wgot[w])
       \/ kind[w] = "delete" /\ MoveTo(w, "promote", "none", wgot[w])
    /\ UNCHANGED <<erased, redis, readers, late, changes, faults>>

\* PublishUserAuthCache reads the row after the commit.
ReadCommitted(w) ==
    /\ wpc[w] = "committed"
    /\ IF Present THEN MoveTo(w, "publish", "none", version) ELSE Done(w)
    /\ UNCHANGED <<row, redis, readers, late, changes, faults>>

\* An Edit that changes nothing about authentication publishes the row it read;
\* so do the refreshes of single fields.
ReadProfile(w) ==
    /\ wpc[w] = "idle" /\ changes < MaxChanges /\ Present
    /\ changes' = changes + 1
    /\ \E place \in {"publish", "field"} : MoveTo(w, place, "none", version)
    /\ UNCHANGED <<row, redis, readers, late, faults>>

\* updateUserCache
Publish(w) ==
    /\ wpc[w] = "publish"
    /\ IF Accepts(wgot[w]) THEN WriteHash(wgot[w], FALSE) ELSE UNCHANGED redis
    /\ Done(w)
    /\ UNCHANGED <<row, readers, late, changes, faults>>

RefreshField(w) ==
    /\ wpc[w] = "field"
    /\ IF Accepts(wgot[w]) THEN WriteField(wgot[w]) ELSE UNCHANGED redis
    /\ Done(w)
    /\ UNCHANGED <<row, readers, late, changes, faults>>

PublishCommitted(w) ==
    /\ wpc[w] = "promote"
    /\ PromoteCommitted(wgot[w])
    /\ MoveTo(w, "invalidate", "none", 0)
    /\ UNCHANGED <<row, hash, written, readers, late, changes, faults>>

\* HardDelete removes the row without a fence or a floor.
Erase(w) ==
    /\ wpc[w] = "idle" /\ changes < MaxChanges /\ ~erased
    /\ \A x \in Writers : wpc[x] # "updated"
    /\ changes' = changes + 1
    /\ erased' = TRUE
    /\ version' = version + 1  \* of the row that is no more
    /\ MoveTo(w, "invalidate", "none", 0)
    /\ UNCHANGED <<deletedAt, redis, readers, late, faults>>

Invalidate(w) ==
    /\ wpc[w] = "invalidate"
    /\ hash' = 0
    /\ Done(w)
    /\ UNCHANGED <<row, fence, floor, written, readers, late, changes, faults>>

\* The transaction is rolled back, or what follows the commit never happens.
Abandon(w) ==
    /\ wpc[w] # "idle" /\ Done(w)
    /\ UNCHANGED <<row, redis, readers, late, changes, faults>>

(***************************************************************************)
(* Expiry                                                                  *)
(***************************************************************************)
HashExpires ==
    /\ hash # 0 /\ hash' = 0
    /\ UNCHANGED <<row, fence, floor, written, readers, writers, late, changes, faults>>

\* Who still carries an older state, or is about to commit a newer one.
Stragglers ==
    \/ \E r \in Readers : rpc[r] \in {"hit", "row", "guarded"} /\ rgot[r] < version
    \/ \E w \in Writers : wpc[w] = "publish" /\ wgot[w] < version
    \/ \E w \in Writers : wpc[w] \in {"fenced", "updated"}

\* Set without a time to live.
Mut_FenceExpires ==
    /\ fence # 0 /\ fence <= floor
    /\ fence' = 0
    /\ UNCHANGED <<row, hash, floor, written, readers, writers, late, changes, faults>>

\* userAuthFenceTTLSeconds: a hash written before the fence expires before it.
FenceExpires ==
    /\ fence # 0
    /\ hash = 0 \/ written = "after"
    /\ fence' = 0
    /\ \/ Stragglers /\ late' = TRUE
       \/ ~Stragglers /\ UNCHANGED late
    /\ UNCHANGED <<row, hash, floor, written, readers, writers, changes, faults>>

Reader(r) ==
    \/ Begin(r) \/ ReadHash(r) \/ CheckFloor(r) \/ ReadRow(r) \/ GuardRow(r)
    \/ Fill(r) \/ GiveUp(r)

Writer(w) ==
    \/ LockUser(w) \/ SetFence(w) \/ UpdateVersion(w) \/ Reread(w) \/ Commit(w)
    \/ ReadCommitted(w) \/ ReadProfile(w) \/ Publish(w) \/ RefreshField(w)
    \/ PublishCommitted(w) \/ Erase(w) \/ Invalidate(w) \/ Abandon(w)

Next ==
    \/ \E r \in Readers : Reader(r)
    \/ \E w \in Writers : Writer(w)
    \/ HashExpires \/ FenceExpires

Spec == Init /\ [][Next]_vars

\* Redis drops a key whose time has come; nothing else is sure to happen.
FairSpec == Spec /\ WF_vars(HashExpires) /\ WF_vars(FenceExpires)

(***************************************************************************)
(* Properties                                                              *)
(***************************************************************************)
\* The permanent floor never passes the database (it would lock the user out
\* for good): publishCommittedUserAuthVersion and the scripts promote only
\* versions that were committed, whatever was rolled back meanwhile.
FloorIsCommitted == floor <= version

\* Requests see a register of the authentication version: however late a fill
\* or a publication arrives, and wherever a writer stops, no request that began
\* after a committed change is answered with an older version.
Register == INSTANCE AuthRegister WITH
    version <- version, deletedAt <- deletedAt, erased <- erased, late <- late,
    since <- since, answer <- answer
ImplementsRegister == Register!Spec

\* A fence whose transaction was rolled back heals without repair: a version
\* nobody committed does not refuse the user's requests for ever.
FenceHeals == fence > version ~> fence <= version
=============================================================================
