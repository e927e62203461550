--------------------------- MODULE LoginSession ---------------------------
(***************************************************************************)
(* One login session (model/user_session.go, service/auth_session.go): its *)
(* row in user_sessions, which decides, and the snapshots of it in the     *)
(* Redis instances, which requests look at first.  A snapshot of an active *)
(* session lives until a deadline taken before its row was read; a denial  *)
(* (the fence before a revocation, the tombstone after it) lives for TTL   *)
(* from its publication, so the two are a race between clocks.  All clocks *)
(* agree.  Refresh secrets are derived from one another: a token is its    *)
(* place in that chain.                                                    *)
(*                                                                         *)
(* Each Redis script, each statement or transaction and each look at the   *)
(* clock is one step.  Abandon is a lost process and a failed database     *)
(* call, a transaction that SQLite, which locks no rows, refuses to the    *)
(* later of two writers included.                                          *)
(***************************************************************************)
EXTENDS Naturals

CONSTANTS
    Requests,    \* goroutines that serve them, one after the other
    Caches,      \* Redis instances, one or one for each node
    None,        \* no request, no cache
    TTL,         \* userCacheTTLSeconds
    Grace,       \* RefreshReplayWindow
    Expiry,      \* expires_at
    MaxTime,     \* end of time (bound)
    MaxToken,    \* rotations (bound)
    MaxVersion,  \* changes of the version, plus one (bound)
    MaxBegun     \* requests (bound)

ASSUME LoginSessionAssumption ==
    /\ None \notin Requests \cup Caches
    /\ {TTL, Expiry, MaxVersion} \subseteq Nat \ {0}
    /\ {Grace, MaxTime, MaxToken, MaxBegun} \subseteq Nat

VARIABLES
    now,        \* the clock
    status,     \* of the row
    version,    \* of the row
    token,      \* the chain's place of refresh_hash; previous_refresh_hash is the one before
    graceUntil, \* previous_valid_until
    lock,       \* who has locked the row
    hash,       \* the snapshot in each Redis
    pc,         \* where each request stands
    req,        \* what it holds, and for the properties when it began, and whether after a
                \* revocation had been published there
    told,       \* the caches where a committed revocation has been published
    ended,      \* when the row stopped to be active with a version
    begun,      \* requests counted against their bound
    rotated     \* when the last rotation was written, 0 if that took longer than the grace

row == <<status, version, token, graceUntil>>
local == <<pc, req>>
ghosts == <<told, ended, rotated, begun>>
vars == <<now, row, lock, hash, local, ghosts>>

Kinds == {"none", "validate", "refresh", "rotate", "reuse", "revoke", "revokeAll", "logout", "advance"}
Resting == {"idle", "accepted"}
Places == {"lookup", "observe", "read", "bury", "fill", "settle", "confirm", "clock",
           "compare", "swap", "candidate", "fence", "retire", "raise"} \cup Resting

Times == 0..MaxTime
Never == MaxTime + TTL + 1
Versions == 1..MaxVersion
Tokens == 0..MaxToken
Snapshots == [status : {"none", "active", "deny"}, version : Versions \cup {0}, until : Nat]
Locals == [kind : Kinds, cache : Caches \cup {None}, token : Tokens,
           at : Times, deadline : Nat, version : Versions \cup {0},
           began : Times, since : {"before", "after"}]

NoSnapshot == [status |-> "none", version |-> 0, until |-> 0]
NoLocals == [kind |-> "none", cache |-> None, token |-> 0, at |-> 0, deadline |-> 0, version |-> 0,
             began |-> 0, since |-> "before"]

TypeOK ==
    /\ now \in Times
    /\ status \in {"active", "revoked"} /\ version \in Versions
    /\ token \in Tokens /\ graceUntil \in Nat
    /\ lock \in Requests \cup {None}
    /\ hash \in [Caches -> Snapshots]
    /\ pc \in [Requests -> Places] /\ req \in [Requests -> Locals]
    /\ told \subseteq Caches
    /\ ended \in [Versions -> Nat]
    /\ rotated \in Times /\ begun \in 0..MaxBegun

Least(a, b) == IF a < b THEN a ELSE b

\* CreateUserSession; its own fill of the cache may have been late or have failed.
Init ==
    /\ now = 0
    /\ status = "active" /\ version = 1 /\ token = 0 /\ graceUntil = 0
    /\ lock = None
    /\ hash \in [Caches -> {NoSnapshot, [status |-> "active", version |-> 1, until |-> Least(TTL, Expiry)]}]
    /\ pc = [r \in Requests |-> "idle"] /\ req = [r \in Requests |-> NoLocals]
    /\ told = {}
    /\ ended = [v \in Versions |-> Never]
    /\ rotated = 0 /\ begun = 0

\* The row as a query with this clock's reading finds it.
Usable(time) == status = "active" /\ time < Expiry

(***************************************************************************)
(* The script of writeUserSessionCache                                     *)
(***************************************************************************)
\* Would a late snapshot overwrite a denial?
Mut_Stores(c, kept, v) == hash[c].version <= v

Stores(c, kept, v) ==
    /\ hash[c].version <= v
    /\ kept = "active" => hash[c].status # "deny"

\* A snapshot filled late that starts a whole window.
Mut_ActiveUntil(deadline) == Least(now + TTL, Expiry)

\* An active snapshot inherits what is left of its window,
ActiveUntil(deadline) == Least(deadline, Expiry)

\* a denial starts its own; it outlives the session by a second.
DenyUntil == IF now < Expiry THEN Least(now + TTL, Expiry) ELSE now + 1

Put(c, kept, v, until) ==
    hash' = [hash EXCEPT ![c] = [status |-> kept, version |-> v, until |-> until]]

\* Whether a request begins where a committed revocation has been published.
Since(c) == IF c \in told THEN "after" ELSE "before"

(***************************************************************************)
(* What requests do next                                                   *)
(***************************************************************************)
Go(r, place, locals) ==
    /\ pc' = [pc EXCEPT ![r] = place]
    /\ req' = [req EXCEPT ![r] = locals]

Refuse(r) == Go(r, "idle", NoLocals)

\* GetUserSessionCached has found the session active: a refresh goes on, the others, the
\* callers of writeUserSessionCache too, return it.
Accept(r, v) ==
    IF req[r].kind = "refresh"
    THEN Go(r, "clock", [req[r] EXCEPT !.kind = "rotate", !.deadline = 0, !.version = 0])
    ELSE Go(r, "accepted", [NoLocals EXCEPT !.version = v, !.began = req[r].began, !.since = req[r].since])

\* A browser presents a token that it was given.
BeginQuery(r, kind, c, t) ==
    /\ pc[r] \in Resting /\ begun < MaxBegun /\ begun' = begun + 1
    /\ t <= token /\ (kind = "validate" => t = 0)
    /\ Go(r, "lookup", [NoLocals EXCEPT !.kind = kind, !.cache = c, !.token = t, !.began = now,
                                        !.since = Since(c)])
    /\ UNCHANGED <<now, row, lock, hash, told, ended, rotated>>

\* All three look at the clock first.
BeginRevoke(r, kind, c, t) ==
    /\ pc[r] \in Resting /\ begun < MaxBegun /\ begun' = begun + 1
    /\ t <= token /\ (kind # "logout" => t = 0)
    /\ Go(r, "candidate", [NoLocals EXCEPT !.kind = kind, !.cache = c, !.token = t, !.at = now])
    /\ UNCHANGED <<now, row, lock, hash, told, ended, rotated>>

\* With the version of the access token, and the deadline before the transaction.
BeginAdvance(r, c) ==
    /\ pc[r] \in Resting /\ begun < MaxBegun /\ begun' = begun + 1
    /\ Go(r, "raise", [NoLocals EXCEPT !.kind = "advance", !.cache = c, !.version = version,
                                       !.at = now, !.deadline = now + TTL, !.began = now,
                                       !.since = Since(c)])
    /\ UNCHANGED <<now, row, lock, hash, told, ended, rotated>>

(***************************************************************************)
(* GetUserSessionCached                                                    *)
(***************************************************************************)
\* getUserSessionCache: a denial never falls back to the row, a failed call does.
Lookup(r) ==
    /\ pc[r] = "lookup"
    /\ LET seen == hash[req[r].cache] IN
       \/ seen.status = "active" /\ now < Expiry /\ Accept(r, seen.version)
       \/ seen.status = "deny" /\ Refuse(r)
       \/ Go(r, "observe", req[r])
    /\ UNCHANGED <<now, row, lock, hash, ghosts>>

\* userSessionCacheDeadline, before the row is read
Observe(r) ==
    /\ pc[r] = "observe"
    /\ Go(r, IF req[r].kind = "rotate" THEN "compare" ELSE "read",
          [req[r] EXCEPT !.deadline = now + TTL])
    /\ UNCHANGED <<now, row, lock, hash, ghosts>>

Read(r) ==
    /\ pc[r] = "read"
    /\ \/ Usable(now) /\ Go(r, "fill", [req[r] EXCEPT !.version = version])
       \/ ~Usable(now) /\ Go(r, "bury", [NoLocals EXCEPT !.cache = req[r].cache, !.version = version])
    /\ UNCHANGED <<now, row, lock, hash, ghosts>>

\* Only AdvanceUserSessionAuthVersion takes a failed call for a refusal; one that failed
\* may have stored the snapshot.
Fill(r) ==
    /\ pc[r] = "fill"
    /\ LET my == req[r] IN
       \/ /\ now >= my.deadline
          /\ Go(r, "confirm", my)
          /\ UNCHANGED hash
       \/ /\ now < my.deadline /\ now < Expiry
          /\ Stores(my.cache, "active", my.version)
          /\ Put(my.cache, "active", my.version, ActiveUntil(my.deadline))
          /\ \/ Go(r, "settle", my)
             \/ my.kind # "advance" /\ Accept(r, my.version)
       \/ /\ now < my.deadline
          /\ now >= Expiry \/ ~Stores(my.cache, "active", my.version)
          /\ Refuse(r)
          /\ UNCHANGED hash
       \/ /\ now < my.deadline
          /\ IF my.kind = "advance" THEN Refuse(r) ELSE Accept(r, my.version)
          /\ UNCHANGED hash
    /\ UNCHANGED <<now, row, lock, ghosts>>

\* The deadline and the expiry once more when the script has returned.
Settle(r) ==
    /\ pc[r] = "settle"
    /\ LET my == req[r] IN
       IF now >= my.deadline THEN Go(r, "confirm", my)
       ELSE IF now >= Expiry THEN Refuse(r) ELSE Accept(r, my.version)
    /\ UNCHANGED <<now, row, lock, hash, ghosts>>

\* confirmUserSessionActiveSnapshot
Confirm(r) ==
    /\ pc[r] = "confirm"
    /\ IF Usable(now) /\ version = req[r].version THEN Accept(r, req[r].version) ELSE Refuse(r)
    /\ UNCHANGED <<now, row, lock, hash, ghosts>>

(***************************************************************************)
(* RefreshLoginSession and RotateUserSessionRefresh                        *)
(***************************************************************************)
\* The user is asked for; changed since the login, the session is revoked.
Clock(r) ==
    /\ pc[r] = "clock"
    /\ \/ Go(r, "observe", [req[r] EXCEPT !.at = now])
       \/ Go(r, "candidate", [NoLocals EXCEPT !.kind = "revoke", !.cache = req[r].cache, !.at = now])
    /\ UNCHANGED <<now, row, lock, hash, ghosts>>

\* The row's digest, the one before it in time or too late, or a digest that is neither.
Compare(r) ==
    /\ pc[r] = "compare"
    /\ LET my == req[r] IN
       \/ Usable(my.at) /\ my.token = token /\ Go(r, "swap", [my EXCEPT !.version = version])
       \/ Usable(my.at) /\ my.token + 1 = token /\ my.at <= graceUntil /\ Accept(r, version)
       \/ /\ Usable(my.at) /\ my.token + 1 = token /\ my.at > graceUntil
          /\ Go(r, "fence", [NoLocals EXCEPT !.kind = "reuse", !.cache = my.cache, !.at = my.at,
                                                   !.version = version])
       \/ ~Usable(my.at) /\ Refuse(r)
       \/ my.token + 1 < token /\ Refuse(r)
    /\ UNCHANGED <<now, row, lock, hash, ghosts>>

\* A rotation that leaves the window of an earlier one in place.
Mut_Rotate(at, t) == token' = t + 1 /\ UNCHANGED graceUntil

Rotate(at, t) == token' = t + 1 /\ graceUntil' = at + Grace

\* The update names the digest it replaces; a loser reads again.
Swap(r) ==
    /\ pc[r] = "swap" /\ lock = None
    /\ LET my == req[r] IN
       \/ /\ Usable(my.at) /\ token = my.token /\ token < MaxToken
          /\ Rotate(my.at, my.token)
          /\ rotated' = IF now <= my.at + Grace THEN now ELSE 0
          /\ Go(r, "fill", my)
       \/ /\ ~Usable(my.at) \/ token # my.token
          /\ Go(r, "observe", my)
          /\ UNCHANGED <<token, graceUntil, rotated>>
    /\ UNCHANGED <<now, status, version, lock, hash, told, ended, begun>>

(***************************************************************************)
(* RevokeUserSession, revokeUserSessions, RevokeUserSessionByRefreshHash   *)
(***************************************************************************)
\* Possession of the session's id alone does not log out.
Presents(my) ==
    my.kind = "logout" =>
        \/ my.token = token
        \/ my.token + 1 = token /\ my.at <= graceUntil

\* The logout reads the row for update.
Candidate(r) ==
    /\ pc[r] = "candidate"
    /\ LET my == req[r] IN
       /\ my.kind = "logout" => lock = None
       /\ IF Usable(my.at) /\ Presents(my)
          THEN /\ Go(r, "fence", [my EXCEPT !.version = version, !.token = 0])
               /\ lock' = IF my.kind = "logout" THEN r ELSE lock
          ELSE Refuse(r) /\ UNCHANGED lock
    /\ UNCHANGED <<now, row, hash, ghosts>>

\* No revocation without its fence: a refused or failed one makes the call return an error,
\* and the row stays active (Abandon).
Fence(r) ==
    /\ pc[r] = "fence"
    /\ LET my == req[r] IN
       /\ Stores(my.cache, "deny", my.version)
       /\ Put(my.cache, "deny", my.version, DenyUntil)
       /\ Go(r, "retire", my)
    /\ UNCHANGED <<now, row, lock, ghosts>>

\* The bulk revocation reads the row again under the lock.
Retire(r) ==
    /\ pc[r] = "retire" /\ lock \in {None, r}
    /\ LET my == req[r] IN
       IF status = "active" /\ (my.kind = "revokeAll" \/ my.at < Expiry)
       THEN /\ status' = "revoked"
            /\ ended' = [ended EXCEPT ![version] = now]
            /\ Go(r, "bury", [NoLocals EXCEPT !.cache = my.cache,
                                  !.version = IF my.kind = "revokeAll" THEN version ELSE my.version])
       ELSE UNCHANGED <<status, ended>> /\ Refuse(r)
    /\ lock' = None
    /\ UNCHANGED <<now, version, token, graceUntil, hash, told, rotated, begun>>

\* The tombstone, and the denial that GetUserSessionCached leaves; a failure of either is
\* only logged.
Bury(r) ==
    /\ pc[r] = "bury"
    /\ LET my == req[r] IN
       /\ Stores(my.cache, "deny", my.version)
       /\ Put(my.cache, "deny", my.version, DenyUntil)
       /\ told' = IF status = "revoked" THEN told \cup {my.cache} ELSE told
    /\ Refuse(r)
    /\ UNCHANGED <<now, row, lock, ended, rotated, begun>>

(***************************************************************************)
(* AdvanceUserSessionAuthVersion                                           *)
(***************************************************************************)
Raise(r) ==
    /\ pc[r] = "raise" /\ lock = None
    /\ LET my == req[r] IN
       IF Usable(my.at) /\ version = my.version
       THEN /\ version < MaxVersion
            /\ version' = version + 1
            /\ ended' = [ended EXCEPT ![version] = now]
            /\ Go(r, "fill", [my EXCEPT !.version = version + 1])
       ELSE Refuse(r) /\ UNCHANGED <<version, ended>>
    /\ UNCHANGED <<now, status, token, graceUntil, lock, hash, told, rotated, begun>>

(***************************************************************************)
(* Failures and time                                                       *)
(***************************************************************************)
\* A refused or failed call whose caller returns an error or logs it, a lost process; an
\* open transaction is rolled back.
Abandon(r) ==
    /\ pc[r] \notin Resting
    /\ Refuse(r)
    /\ lock' = IF lock = r THEN None ELSE lock
    /\ UNCHANGED <<now, row, hash, ghosts>>

\* Redis drops what has lapsed.
Tick ==
    /\ now < MaxTime
    /\ now' = now + 1
    /\ hash' = [c \in Caches |-> IF hash[c].until > now + 1 THEN hash[c] ELSE NoSnapshot]
    /\ UNCHANGED <<row, lock, local, ghosts>>

AllEnded ==
    /\ now = MaxTime /\ begun = MaxBegun
    /\ \A r \in Requests : pc[r] \in Resting
    /\ UNCHANGED vars

Step(r) ==
    \/ \E c \in Caches :
          \/ \E kind \in {"validate", "refresh"}, t \in Tokens : BeginQuery(r, kind, c, t)
          \/ \E kind \in {"revoke", "revokeAll", "logout"}, t \in Tokens : BeginRevoke(r, kind, c, t)
          \/ BeginAdvance(r, c)
    \/ Lookup(r) \/ Observe(r) \/ Read(r) \/ Fill(r) \/ Settle(r) \/ Confirm(r)
    \/ Clock(r) \/ Compare(r) \/ Swap(r)
    \/ Candidate(r) \/ Fence(r) \/ Retire(r) \/ Bury(r)
    \/ Raise(r)
    \/ Abandon(r)

Next == (\E r \in Requests : Step(r)) \/ Tick \/ AllEnded

Spec == Init /\ [][Next]_vars

(***************************************************************************)
(* Properties                                                              *)
(***************************************************************************)
\* "a stale active snapshot cannot outlive a short deny tombstone and reactivate a revoked
\* Session after the tombstone expires" (comment of writeUserSessionCache): once a
\* revocation is committed and published, no request that begins later at that Redis finds
\* the session active, whatever is delayed.
RevokedIsOut == \A r \in Requests : pc[r] = "accepted" => req[r].since = "before"

\* Whatever fails, and with a Redis for each node: what a request accepts was the row's
\* state less than TTL before it began (docs/authentication.md:22).
BoundedStaleness == \A r \in Requests :
    pc[r] = "accepted" => req[r].began < ended[req[r].version] + TTL

\* Of refreshes that overlap, none takes another for a theft: the session is ended for a
\* reused token only by a request that came after the rotation was written, unless the
\* rotation itself took longer than the grace.
RaceKeepsSession == [][\A r \in Requests :
    (req[r].kind = "rotate" /\ req'[r].kind = "reuse") =>
        req[r].at > rotated]_vars

=============================================================================
