------------------------ MODULE LoginSessionProofs ------------------------
(***************************************************************************)
(* Proofs about LoginSession, for any requests, any Redis instances and    *)
(* every bound.                                                            *)
(*                                                                         *)
(* The argument is about deadlines.  Whoever holds an active snapshot of a *)
(* version holds a deadline at most TTL after the row stopped to have that *)
(* version, and, once the session is revoked, at most TTL after that       *)
(* (Window).  Where a revocation was published, a denial stands until then *)
(* or the time has come (Closed); either way no snapshot can be stored.    *)
(***************************************************************************)
EXTENDS LoginSession, TLAPS

Window(v, time) ==
    /\ time <= now + TTL
    /\ time <= ended[v] + TTL
    /\ status = "revoked" => time <= ended[version] + TTL

RowInv ==
    /\ \A v \in Versions : ended[v] <= now \/ ended[v] = Never
    /\ status = "active" => \A v \in Versions : v >= version => ended[v] = Never
    /\ status = "revoked" => ended[version] <= now
    /\ rotated <= graceUntil

CacheInv == \A c \in Caches :
    /\ hash[c].status # "none" => now < hash[c].until
    /\ hash[c].status = "active" =>
          hash[c].version \in Versions /\ Window(hash[c].version, hash[c].until)

\* No snapshot read before the revocation can be stored from this time on.
Closed(time) == time >= Expiry \/ time >= ended[version] + TTL

ToldInv == \A c \in told :
    /\ status = "revoked"
    /\ hash[c].status # "active"
    /\ hash[c].status = "deny" => Closed(hash[c].until)
    /\ hash[c].status = "none" => Closed(now)

\* What a request may hold at a place.
Own(place, my) ==
    /\ my.began <= now
    /\ place \notin Resting => my.cache \in Caches
    /\ place \in {"read", "compare", "raise"} => my.deadline <= now + TTL
    /\ place \in {"swap", "fill", "settle", "confirm"} =>
          my.version \in Versions /\ Window(my.version, my.deadline)
    /\ place = "accepted" => my.version \in Versions /\ my.began < ended[my.version] + TTL
    /\ my.since = "after" =>
          /\ place \in {"lookup", "observe", "read", "raise"}
          /\ my.kind # "rotate"
          /\ my.cache \in told

RequestInv == \A r \in Requests : Own(pc[r], req[r])

IInv == TypeOK /\ RowInv /\ CacheInv /\ ToldInv /\ RequestInv

USE LoginSessionAssumption DEF LoginSessionAssumption

LEMMA Numbers ==
    /\ TTL \in Nat \ {0} /\ Expiry \in Nat \ {0} /\ MaxVersion \in Nat \ {0}
    /\ Grace \in Nat /\ MaxTime \in Nat /\ MaxToken \in Nat /\ MaxBegun \in Nat
  OBVIOUS

LEMMA Blank == NoLocals \in Locals /\ NoSnapshot \in Snapshots
  BY Numbers DEF NoLocals, Locals, NoSnapshot, Snapshots, Kinds, Times, Tokens

LEMMA InitIInv == Init => IInv
<1> SUFFICES ASSUME Init PROVE IInv
  OBVIOUS
<1>1. \A c \in Caches :
        /\ hash[c] \in Snapshots
        /\ hash[c].status # "none" => hash[c].status = "active" /\ hash[c].version = 1
                                      /\ hash[c].until <= TTL /\ 0 < hash[c].until
  BY Numbers, Blank, SMTT(30) DEF Init, Snapshots, NoSnapshot, Versions, Least
<1>2. hash \in [Caches -> Snapshots]
  BY <1>1 DEF Init
<1>3. TypeOK
  BY <1>2, Numbers, Blank, SMTT(30) DEF Init, TypeOK, Times, Versions, Tokens, Places, Resting, Never
<1>4. 1 \in Versions /\ Never \in Nat /\ TTL <= Never /\ \A v \in Versions : ended[v] = Never
  BY Numbers DEF Init, Versions, Never
<1>5. RowInv /\ ToldInv
  BY <1>4 DEF Init, RowInv, ToldInv
<1>6. CacheInv
  <2> SUFFICES ASSUME NEW c \in Caches
               PROVE /\ hash[c].status # "none" => now < hash[c].until
                     /\ hash[c].status = "active" =>
                           hash[c].version \in Versions /\ Window(hash[c].version, hash[c].until)
    BY DEF CacheInv
  <2>1. hash[c].until \in Nat
    BY <1>1 DEF Snapshots
  <2> QED
    BY <1>1, <1>4, <2>1, Numbers DEF Init, Window
<1>7. RequestInv
  <2>1. NoLocals.began = 0 /\ NoLocals.since = "before"
    BY DEF NoLocals
  <2>2. \A r \in Requests : pc[r] = "idle" /\ req[r] = NoLocals
    BY DEF Init
  <2>3. now = 0
    BY DEF Init
  <2>4. Own("idle", NoLocals)
    BY <2>1, <2>3 DEF Own, Resting
  <2> QED
    BY <2>2, <2>4, Zenon DEF RequestInv
<1> QED
  BY <1>3, <1>5, <1>6, <1>7 DEF IInv

\* What one request does leaves the others what they hold.
LEMMA OthersKeep ==
    ASSUME IInv, UNCHANGED <<now, status, version, ended>>, told \subseteq told',
           NEW r \in Requests, NEW place \in Places, NEW my \in Locals,
           Go(r, place, my), Own(place, my)
    PROVE /\ pc' \in [Requests -> Places] /\ req' \in [Requests -> Locals]
          /\ RequestInv'
<1>1. pc' \in [Requests -> Places] /\ req' \in [Requests -> Locals]
  BY DEF IInv, TypeOK, Go
<1>2. ASSUME NEW q \in Requests PROVE Own(pc[q], req[q])'
  <2>1. CASE q = r
    BY <2>1 DEF IInv, TypeOK, Go, Own, Window
  <2>2. CASE q # r
    <3>1. pc'[q] = pc[q] /\ req'[q] = req[q] /\ Own(pc[q], req[q])
      BY <2>2 DEF IInv, TypeOK, RequestInv, Go
    <3> QED
      BY <3>1 DEF Own, Window
  <2> QED
    BY <2>1, <2>2
<1> QED
  BY <1>1, <1>2 DEF RequestInv

\* A step that touches neither the row, nor a snapshot, nor the clock.
Quiet ==
    /\ UNCHANGED <<now, status, version, graceUntil, hash, told, ended, rotated>>
    /\ token' \in Tokens /\ lock' \in Requests \cup {None} /\ begun' \in 0..MaxBegun

LEMMA QuietKeeps ==
    ASSUME IInv, Quiet, NEW r \in Requests, NEW place \in Places, NEW my \in Locals,
           Go(r, place, my), Own(place, my)
    PROVE IInv'
<1>1. pc' \in [Requests -> Places] /\ req' \in [Requests -> Locals] /\ RequestInv'
  BY OthersKeep DEF Quiet
<1>2. TypeOK'
  BY <1>1 DEF IInv, TypeOK, Quiet
<1>3. RowInv' /\ CacheInv' /\ ToldInv'
  BY DEF IInv, RowInv, CacheInv, ToldInv, Window, Closed, Quiet
<1> QED
  BY <1>1, <1>2, <1>3 DEF IInv

\* A request that is refused holds nothing any more.
LEMMA OwnNothing == IInv => "idle" \in Places /\ NoLocals \in Locals /\ Own("idle", NoLocals)
<1>1. NoLocals.began = 0 /\ NoLocals.since = "before"
  BY DEF NoLocals
<1>2. IInv => 0 <= now
  BY Numbers DEF IInv, TypeOK, Times
<1> QED
  BY <1>1, <1>2, Blank DEF Own, Places, Resting

LEMMA RefuseKeeps ==
    ASSUME IInv, Quiet, NEW r \in Requests, Refuse(r)
    PROVE IInv'
  BY OwnNothing, QuietKeeps DEF Refuse

\* What a request is given: the session as the row had it less than TTL before it began.
LEMMA OwnAccepted ==
    ASSUME IInv, NEW r \in Requests, NEW v \in Versions, pc[r] \notin Resting,
           req[r].began < ended[v] + TTL, req[r].since # "after", Accept(r, v)
    PROVE \E place \in Places, my \in Locals : Go(r, place, my) /\ Own(place, my)
<1>1. req[r] \in Locals /\ req[r].began <= now /\ req[r].cache \in Caches /\ 0 <= now
  BY Numbers DEF IInv, TypeOK, RequestInv, Own, Times
<1>2. CASE req[r].kind = "refresh"
  <2> DEFINE my == [req[r] EXCEPT !.kind = "rotate", !.deadline = 0, !.version = 0]
  <2>1. my \in Locals /\ my.began = req[r].began /\ my.cache = req[r].cache /\ my.since = req[r].since
    BY <1>1 DEF Locals, Kinds
  <2>2. Go(r, "clock", my)
    BY <1>2 DEF Accept
  <2>3. "clock" \in Places /\ Own("clock", my)
    BY <1>1, <2>1 DEF Own, Places, Resting
  <2> QED
    BY <2>1, <2>2, <2>3
<1>3. CASE req[r].kind # "refresh"
  <2> DEFINE my == [NoLocals EXCEPT !.version = v, !.began = req[r].began, !.since = req[r].since]
  <2>1. my \in Locals /\ my.began = req[r].began /\ my.version = v /\ my.since = req[r].since
    BY <1>1, Blank DEF Locals, NoLocals
  <2>2. Go(r, "accepted", my)
    BY <1>3 DEF Accept
  <2>3. "accepted" \in Places /\ Own("accepted", my)
    BY <1>1, <2>1 DEF Own, Places, Resting
  <2> QED
    BY <2>1, <2>2, <2>3
<1> QED
  BY <1>2, <1>3

LEMMA AcceptKeeps ==
    ASSUME IInv, Quiet, NEW r \in Requests, NEW v \in Versions, pc[r] \notin Resting,
           req[r].began < ended[v] + TTL, req[r].since # "after", Accept(r, v)
    PROVE IInv'
  BY OwnAccepted, QuietKeeps

\* Requests that begin.
LEMMA BeginKeeps ==
    ASSUME IInv, NEW r \in Requests, NEW c \in Caches, NEW t \in Tokens,
           NEW kind \in {"validate", "refresh", "revoke", "revokeAll", "logout"},
           \/ kind \in {"validate", "refresh"} /\ BeginQuery(r, kind, c, t)
           \/ kind \in {"revoke", "revokeAll", "logout"} /\ BeginRevoke(r, kind, c, t)
           \/ BeginAdvance(r, c)
    PROVE IInv'
<1>1. /\ now \in Times /\ version \in Versions /\ now \in Nat /\ token \in Tokens
      /\ lock \in Requests \cup {None} /\ begun \in 0..MaxBegun /\ Tokens \subseteq Nat
  BY Numbers DEF IInv, TypeOK, Times, Tokens
<1>2. /\ Since(c) \in {"before", "after"} /\ (Since(c) = "after" => c \in told)
      /\ NoLocals.since = "before" /\ NoLocals.began = 0
  BY DEF Since, NoLocals
<1>3. CASE kind \in {"validate", "refresh"} /\ BeginQuery(r, kind, c, t)
  <2> DEFINE my == [NoLocals EXCEPT !.kind = kind, !.cache = c, !.token = t, !.began = now,
                                    !.since = Since(c)]
  <2>1. /\ my \in Locals /\ my.began = now /\ my.cache = c /\ my.since = Since(c)
        /\ my.kind # "rotate"
    BY <1>1, <1>2, <1>3, Blank DEF Locals, NoLocals, Kinds
  <2>2. "lookup" \in Places /\ Own("lookup", my)
    BY <1>1, <1>2, <2>1 DEF Own, Places, Resting
  <2>3. Go(r, "lookup", my) /\ Quiet
    BY <1>1, <1>3, Numbers DEF BeginQuery, Quiet, row, ghosts
  <2> QED
    BY <2>1, <2>2, <2>3, QuietKeeps
<1>4. CASE kind \in {"revoke", "revokeAll", "logout"} /\ BeginRevoke(r, kind, c, t)
  <2> DEFINE my == [NoLocals EXCEPT !.kind = kind, !.cache = c, !.token = t, !.at = now]
  <2>1. my \in Locals /\ my.began = 0 /\ my.cache = c /\ my.since = "before"
    BY <1>1, <1>2, <1>4, Blank DEF Locals, NoLocals, Kinds
  <2>2. "candidate" \in Places /\ Own("candidate", my)
    BY <1>1, <2>1 DEF Own, Places, Resting
  <2>3. Go(r, "candidate", my) /\ Quiet
    BY <1>1, <1>4, Numbers DEF BeginRevoke, Quiet, row, ghosts
  <2> QED
    BY <2>1, <2>2, <2>3, QuietKeeps
<1>5. CASE BeginAdvance(r, c)
  <2> DEFINE my == [NoLocals EXCEPT !.kind = "advance", !.cache = c, !.version = version,
                                    !.at = now, !.deadline = now + TTL, !.began = now,
                                    !.since = Since(c)]
  <2>0. now + TTL \in Nat
    BY <1>1, Numbers
  <2>1. /\ my \in Locals /\ my.began = now /\ my.cache = c /\ my.since = Since(c)
        /\ my.kind # "rotate" /\ my.deadline = now + TTL
    BY <1>1, <1>2, <2>0, Blank DEF Locals, NoLocals, Kinds
  <2>2. "raise" \in Places /\ Own("raise", my)
    BY <1>1, <1>2, <2>1, Numbers DEF Own, Places, Resting
  <2>3. Go(r, "raise", my) /\ Quiet
    BY <1>1, <1>5, Numbers DEF BeginAdvance, Quiet, row, ghosts
  <2> QED
    BY <2>1, <2>2, <2>3, QuietKeeps
<1> QED
  BY <1>3, <1>4, <1>5

\* Steps that change only what the request holds have every other variable as it was.
LEMMA QuietStep ==
    ASSUME IInv, UNCHANGED <<now, row, hash, ghosts>>, lock' \in Requests \cup {None}
    PROVE Quiet
  BY DEF IInv, TypeOK, Quiet, row, ghosts

LEMMA LookupKeeps == ASSUME IInv, NEW r \in Requests, Lookup(r) PROVE IInv'
<1> DEFINE my == req[r]
           seen == hash[my.cache]
<1>1. /\ pc[r] = "lookup" /\ my \in Locals /\ Own("lookup", my) /\ my.cache \in Caches
      /\ lock \in Requests \cup {None} /\ my.began <= now /\ my.began \in Nat /\ now \in Nat
      /\ ended \in [Versions -> Nat]
  BY Numbers DEF Lookup, IInv, TypeOK, RequestInv, Own, Resting, Locals, Times
<1>2. Quiet
  BY <1>1, QuietStep DEF Lookup
<1>3. CASE seen.status = "active" /\ Accept(r, seen.version)
  <2>1. seen.version \in Versions /\ seen.until <= ended[seen.version] + TTL /\ now < seen.until
    BY <1>1, <1>3 DEF IInv, CacheInv, Window
  <2>2. seen.until \in Nat /\ ended[seen.version] \in Nat
    BY <1>1, <2>1 DEF IInv, TypeOK, Snapshots
  <2>3. my.began < ended[seen.version] + TTL
    BY <1>1, <2>1, <2>2, Numbers
  <2>4. my.since # "after"
    BY <1>1, <1>3 DEF IInv, ToldInv, Own
  <2> QED
    BY <1>1, <1>2, <1>3, <2>1, <2>3, <2>4, AcceptKeeps DEF Resting
<1>4. CASE Refuse(r)
  BY <1>2, <1>4, RefuseKeeps
<1>5. CASE Go(r, "observe", my)
  <2>1. "observe" \in Places /\ Own("observe", my)
    BY <1>1 DEF Own, Places, Resting
  <2> QED
    BY <1>1, <1>2, <1>5, <2>1, QuietKeeps
<1> QED
  BY <1>3, <1>4, <1>5 DEF Lookup

LEMMA ObserveKeeps == ASSUME IInv, NEW r \in Requests, Observe(r) PROVE IInv'
<1> DEFINE old == req[r]
           my == [old EXCEPT !.deadline = now + TTL]
<1>1. /\ old \in Locals /\ Own("observe", old) /\ lock \in Requests \cup {None} /\ now \in Nat
  BY Numbers DEF Observe, IInv, TypeOK, RequestInv, Times
<1>2. Quiet
  BY <1>1, QuietStep DEF Observe
<1>3. /\ my \in Locals /\ my.began = old.began /\ my.cache = old.cache /\ my.since = old.since
      /\ my.kind = old.kind /\ my.deadline = now + TTL
  BY <1>1, Numbers DEF Locals
<1>4. CASE old.kind = "rotate"
  <2>1. "compare" \in Places /\ Own("compare", my)
    BY <1>1, <1>3, <1>4, Numbers DEF Own, Places, Resting
  <2> QED
    BY <1>2, <1>3, <1>4, <2>1, QuietKeeps DEF Observe
<1>5. CASE old.kind # "rotate"
  <2>1. "read" \in Places /\ Own("read", my)
    BY <1>1, <1>3, <1>5, Numbers DEF Own, Places, Resting
  <2> QED
    BY <1>2, <1>3, <1>5, <2>1, QuietKeeps DEF Observe
<1> QED
  BY <1>4, <1>5

\* The types of what the steps below look at.
LEMMA Grounds ==
    ASSUME IInv, NEW r \in Requests
    PROVE /\ req[r] \in Locals /\ Own(pc[r], req[r])
          /\ now \in Nat /\ req[r].began \in Nat /\ req[r].deadline \in Nat /\ req[r].at \in Nat
          /\ req[r].began <= now
          /\ version \in Versions /\ Versions \subseteq Nat /\ token \in Tokens
          /\ lock \in Requests \cup {None}
          /\ ended \in [Versions -> Nat] /\ Never \in Nat /\ now + TTL <= Never
<1>1. /\ req[r] \in Locals /\ Own(pc[r], req[r]) /\ now \in Times /\ now \in Nat
      /\ version \in Versions /\ token \in Tokens
      /\ lock \in Requests \cup {None} /\ ended \in [Versions -> Nat]
  BY Numbers DEF IInv, TypeOK, RequestInv, Times
<1>2. req[r].began \in Times /\ req[r].deadline \in Nat /\ req[r].at \in Times
  BY <1>1 DEF Locals
<1>3. Versions \subseteq Nat /\ Times \subseteq Nat /\ Never \in Nat /\ now + TTL <= Never
  BY <1>1, Numbers DEF Versions, Times, Never
<1>4. req[r].began <= now
  BY <1>1 DEF Own
<1> QED
  BY <1>1, <1>2, <1>3, <1>4

\* The row that a query finds usable has not ended.
LEMMA UsableStands ==
    ASSUME IInv, NEW time \in Nat, Usable(time)
    PROVE /\ status = "active" /\ ended[version] = Never
  BY Numbers DEF IInv, TypeOK, RowInv, Usable, Versions

LEMMA ReadKeeps == ASSUME IInv, NEW r \in Requests, Read(r) PROVE IInv'
<1>1. Quiet
  BY Grounds, QuietStep DEF Read
<1>2. pc[r] = "read"
  BY DEF Read
<1>3. req[r].cache \in Caches
  BY <1>2, Grounds DEF Own, Resting
<1>4. CASE Usable(now) /\ Go(r, "fill", [req[r] EXCEPT !.version = version])
  <2> DEFINE my == [req[r] EXCEPT !.version = version]
  <2>1. status = "active" /\ ended[version] = Never
    BY <1>4, Grounds, UsableStands
  <2>2. /\ my \in Locals /\ my.version = version /\ my.deadline = req[r].deadline
        /\ my.began = req[r].began /\ my.cache = req[r].cache /\ my.since = req[r].since
    BY Grounds DEF Locals
  <2>3. my.deadline <= now + TTL
    BY <1>2, <2>2, Grounds DEF Own
  <2>4. Window(my.version, my.deadline)
    BY <2>1, <2>2, <2>3, Grounds, Numbers DEF Window
  <2>5. my.since # "after"
    BY <2>1, <2>2, Grounds DEF Own, IInv, ToldInv
  <2>6. "fill" \in Places /\ Own("fill", my)
    BY <1>3, <2>2, <2>4, <2>5, Grounds DEF Own, Places, Resting
  <2> QED
    BY <1>1, <1>4, <2>2, <2>6, QuietKeeps
<1>5. CASE Go(r, "bury", [NoLocals EXCEPT !.cache = req[r].cache, !.version = version])
  <2> DEFINE my == [NoLocals EXCEPT !.cache = req[r].cache, !.version = version]
  <2>1. my \in Locals /\ my.began = 0 /\ my.cache = req[r].cache /\ my.since = "before"
    BY <1>3, Grounds, Blank DEF Locals, NoLocals
  <2>2. "bury" \in Places /\ Own("bury", my)
    BY <1>3, <2>1, Grounds DEF Own, Places, Resting
  <2> QED
    BY <1>1, <1>5, <2>1, <2>2, QuietKeeps
<1> QED
  BY <1>4, <1>5 DEF Read

\* Whoever holds a snapshot to store began less than TTL after its version ended.
LEMMA OwnWindow ==
    ASSUME IInv, NEW r \in Requests, pc[r] \in {"fill", "settle", "confirm"}
    PROVE /\ req[r].version \in Versions /\ Window(req[r].version, req[r].deadline)
          /\ req[r].since # "after" /\ pc[r] \notin Resting /\ req[r].cache \in Caches
          /\ now < req[r].deadline => req[r].began < ended[req[r].version] + TTL
<1>1. /\ req[r].version \in Versions /\ Window(req[r].version, req[r].deadline)
      /\ req[r].since # "after" /\ pc[r] \notin Resting /\ req[r].cache \in Caches
  BY Grounds DEF Own, Resting
<1>2. ended[req[r].version] \in Nat
  BY <1>1, Grounds
<1> QED
  BY <1>1, <1>2, Grounds, Numbers DEF Window

LEMMA SettleKeeps == ASSUME IInv, NEW r \in Requests, Settle(r) PROVE IInv'
<1>1. Quiet
  BY Grounds, QuietStep DEF Settle
<1>2. pc[r] = "settle"
  BY DEF Settle
<1>3. CASE Go(r, "confirm", req[r])
  <2>1. "confirm" \in Places /\ Own("confirm", req[r])
    BY <1>2, OwnWindow, Grounds DEF Own, Places, Resting
  <2> QED
    BY <1>1, <1>3, <2>1, Grounds, QuietKeeps
<1>4. CASE Refuse(r)
  BY <1>1, <1>4, RefuseKeeps
<1>5. CASE now < req[r].deadline /\ Accept(r, req[r].version)
  BY <1>1, <1>2, <1>5, OwnWindow, AcceptKeeps
<1> QED
  BY <1>3, <1>4, <1>5, Grounds DEF Settle

LEMMA ConfirmKeeps == ASSUME IInv, NEW r \in Requests, Confirm(r) PROVE IInv'
<1>1. Quiet
  BY Grounds, QuietStep DEF Confirm
<1>2. pc[r] = "confirm"
  BY DEF Confirm
<1>3. CASE Refuse(r)
  BY <1>1, <1>3, RefuseKeeps
<1>4. CASE Usable(now) /\ version = req[r].version /\ Accept(r, req[r].version)
  <2>1. ended[version] = Never
    BY <1>4, Grounds, UsableStands
  <2>2. req[r].began < ended[req[r].version] + TTL
    BY <1>4, <2>1, Grounds, Numbers
  <2> QED
    BY <1>1, <1>2, <1>4, <2>2, OwnWindow, AcceptKeeps
<1> QED
  BY <1>3, <1>4 DEF Confirm

\* A place that holds a cache and nothing that ages.
LEMMA OwnPlain ==
    ASSUME IInv, NEW place \in {"clock", "observe", "candidate", "fence", "retire", "bury"},
           NEW my \in Locals, my.began <= now, my.cache \in Caches, my.since = "before"
    PROVE place \in Places /\ Own(place, my)
  BY DEF Own, Places, Resting

LEMMA ClockKeeps == ASSUME IInv, NEW r \in Requests, Clock(r) PROVE IInv'
<1>1. Quiet
  BY Grounds, QuietStep DEF Clock
<1>2. pc[r] = "clock"
  BY DEF Clock
<1>3. req[r].cache \in Caches /\ req[r].since = "before" /\ now \in Times
  BY <1>2, Grounds DEF Own, Resting, Locals, IInv, TypeOK
<1>4. CASE Go(r, "observe", [req[r] EXCEPT !.at = now])
  <2> DEFINE my == [req[r] EXCEPT !.at = now]
  <2>1. my \in Locals /\ my.began = req[r].began /\ my.cache = req[r].cache /\ my.since = req[r].since
    BY <1>3, Grounds DEF Locals
  <2>2. "observe" \in Places /\ Own("observe", my)
    BY <1>3, <2>1, Grounds, OwnPlain
  <2> QED
    BY <1>1, <1>4, <2>1, <2>2, QuietKeeps
<1>5. CASE Go(r, "candidate", [NoLocals EXCEPT !.kind = "revoke", !.cache = req[r].cache, !.at = now])
  <2> DEFINE my == [NoLocals EXCEPT !.kind = "revoke", !.cache = req[r].cache, !.at = now]
  <2>1. my \in Locals /\ my.began = 0 /\ my.cache = req[r].cache /\ my.since = "before"
    BY <1>3, Blank DEF Locals, NoLocals, Kinds
  <2>2. my.began <= now /\ my.cache \in Caches
    BY <1>3, <2>1, Grounds
  <2>3. "candidate" \in Places /\ Own("candidate", my)
    <3> HIDE DEF my
    <3> QED
      BY <2>1, <2>2, OwnPlain
  <2> QED
    BY <1>1, <1>5, <2>1, <2>3, QuietKeeps
<1> QED
  BY <1>4, <1>5 DEF Clock

LEMMA CompareKeeps == ASSUME IInv, NEW r \in Requests, Compare(r) PROVE IInv'
<1> DEFINE old == req[r]
<1>1. Quiet
  BY Grounds, QuietStep DEF Compare
<1>2. pc[r] = "compare"
  BY DEF Compare
<1>3. /\ old.cache \in Caches /\ old.since = "before" /\ old.at \in Times
      /\ old.deadline <= now + TTL /\ pc[r] \notin Resting
  BY <1>2, Grounds DEF Own, Resting, Locals
<1>4. CASE Usable(old.at) /\ Go(r, "swap", [old EXCEPT !.version = version])
  <2> DEFINE my == [old EXCEPT !.version = version]
  <2>1. status = "active" /\ ended[version] = Never
    BY <1>4, Grounds, UsableStands
  <2>2. /\ my \in Locals /\ my.version = version /\ my.deadline = old.deadline
        /\ my.began = old.began /\ my.cache = old.cache /\ my.since = old.since
    BY Grounds DEF Locals
  <2>3. Window(my.version, my.deadline)
    BY <1>3, <2>1, <2>2, Grounds, Numbers DEF Window
  <2>4. "swap" \in Places /\ Own("swap", my)
    BY <1>3, <2>2, <2>3, Grounds DEF Own, Places, Resting
  <2> QED
    BY <1>1, <1>4, <2>2, <2>4, QuietKeeps
<1>5. CASE Usable(old.at) /\ Accept(r, version)
  <2>1. ended[version] = Never
    BY <1>5, Grounds, UsableStands
  <2>2. old.began < ended[version] + TTL
    BY <2>1, Grounds, Numbers
  <2>3. old.since # "after" /\ version \in Versions
    BY <1>3, Grounds
  <2> QED
    BY <1>1, <1>3, <1>5, <2>2, <2>3, AcceptKeeps
<1>6. CASE Go(r, "fence", [NoLocals EXCEPT !.kind = "reuse", !.cache = old.cache, !.at = old.at,
                                           !.version = version])
  <2> DEFINE my == [NoLocals EXCEPT !.kind = "reuse", !.cache = old.cache, !.at = old.at,
                                    !.version = version]
  <2>1. my \in Locals /\ my.began = 0 /\ my.cache = old.cache /\ my.since = "before"
    BY <1>3, Grounds, Blank DEF Locals, NoLocals, Kinds
  <2>2. my.began <= now /\ my.cache \in Caches
    BY <1>3, <2>1, Grounds
  <2>3. "fence" \in Places /\ Own("fence", my)
    <3> HIDE DEF my
    <3> QED
      BY <2>1, <2>2, OwnPlain
  <2> QED
    BY <1>1, <1>6, <2>1, <2>3, QuietKeeps
<1>7. CASE Refuse(r)
  BY <1>1, <1>7, RefuseKeeps
<1> QED
  BY <1>4, <1>5, <1>6, <1>7 DEF Compare

LEMMA CandidateKeeps == ASSUME IInv, NEW r \in Requests, Candidate(r) PROVE IInv'
<1> DEFINE my == [req[r] EXCEPT !.version = version, !.token = 0]
<1>1. lock' \in Requests \cup {None}
  BY Grounds DEF Candidate
<1>2. Quiet
  BY <1>1, QuietStep, Grounds DEF Candidate, Quiet, row, ghosts, IInv, TypeOK
<1>3. pc[r] = "candidate"
  BY DEF Candidate
<1>4. CASE Go(r, "fence", my)
  <2>1. 0 \in Tokens
    BY Numbers DEF Tokens
  <2>2. my \in Locals /\ my.began = req[r].began /\ my.cache = req[r].cache /\ my.since = req[r].since
    BY <2>1, Grounds DEF Locals
  <2>3. req[r].cache \in Caches /\ req[r].since = "before"
    BY <1>3, Grounds DEF Own, Resting, Locals
  <2>4. "fence" \in Places /\ Own("fence", my)
    BY <2>2, <2>3, Grounds, OwnPlain
  <2> QED
    BY <1>2, <1>4, <2>2, <2>4, QuietKeeps
<1>5. CASE Refuse(r)
  BY <1>2, <1>5, RefuseKeeps
<1> QED
  BY <1>4, <1>5 DEF Candidate

LEMMA AbandonKeeps == ASSUME IInv, NEW r \in Requests, Abandon(r) PROVE IInv'
<1>1. lock' \in Requests \cup {None}
  BY Grounds DEF Abandon
<1>2. Quiet
  BY <1>1, QuietStep DEF Abandon
<1> QED
  BY <1>2, RefuseKeeps DEF Abandon

LEMMA SwapKeeps == ASSUME IInv, NEW r \in Requests, Swap(r) PROVE IInv'
<1> DEFINE my == req[r]
<1>1. /\ pc[r] = "swap" /\ my.version \in Versions /\ Window(my.version, my.deadline)
      /\ my.cache \in Caches /\ my.since = "before"
  BY Grounds DEF Swap, Own, Resting, Locals
<1>2. CASE Go(r, "observe", my) /\ UNCHANGED <<token, graceUntil, rotated>>
  <2>1. Quiet
    BY <1>2, Grounds DEF Swap, Quiet, IInv, TypeOK
  <2>2. "observe" \in Places /\ Own("observe", my)
    BY <1>1, Grounds, OwnPlain
  <2> QED
    BY <1>2, <2>1, <2>2, Grounds, QuietKeeps
<1>3. CASE /\ token = my.token /\ token < MaxToken /\ Rotate(my.at, my.token)
           /\ rotated' = (IF now <= my.at + Grace THEN now ELSE 0) /\ Go(r, "fill", my)
  <2>1. token' \in Tokens /\ graceUntil' \in Nat /\ graceUntil' = my.at + Grace
    BY <1>3, Grounds, Numbers DEF Rotate, Tokens
  <2>2. rotated' \in Times /\ rotated' <= graceUntil'
    BY <1>3, <2>1, Grounds, Numbers DEF IInv, TypeOK, Times
  <2>3. "fill" \in Places /\ Own("fill", my)
    BY <1>1, Grounds DEF Own, Places, Resting
  <2>4. UNCHANGED <<now, status, version, ended, hash, told, lock, begun>>
    BY DEF Swap
  <2>5. pc' \in [Requests -> Places] /\ req' \in [Requests -> Locals] /\ RequestInv'
    BY <1>3, <2>3, <2>4, Grounds, OthersKeep
  <2>6. TypeOK'
    BY <2>1, <2>2, <2>4, <2>5 DEF IInv, TypeOK
  <2>7. RowInv' /\ CacheInv' /\ ToldInv'
    BY <2>2, <2>4 DEF IInv, RowInv, CacheInv, ToldInv, Window, Closed
  <2> QED
    BY <2>5, <2>6, <2>7 DEF IInv
<1> QED
  BY <1>2, <1>3 DEF Swap

\* The snapshots are changed at one Redis.
LEMMA PutTyped ==
    ASSUME IInv, NEW c \in Caches, NEW kept \in {"active", "deny"}, NEW v \in Versions \cup {0},
           NEW until \in Nat, Put(c, kept, v, until)
    PROVE /\ hash' \in [Caches -> Snapshots]
          /\ hash'[c].status = kept /\ hash'[c].version = v /\ hash'[c].until = until
          /\ \A d \in Caches : d # c => hash'[d] = hash[d]
<1>1. [status |-> kept, version |-> v, until |-> until] \in Snapshots
  BY DEF Snapshots
<1>2. hash \in [Caches -> Snapshots]
  BY DEF IInv, TypeOK
<1> QED
  BY <1>1, <1>2 DEF Put

\* A late snapshot is stored only where no revocation has been published.
LEMMA FillStores ==
    ASSUME IInv, NEW r \in Requests, pc[r] = "fill",
           now < req[r].deadline, now < Expiry, Stores(req[r].cache, "active", req[r].version),
           Put(req[r].cache, "active", req[r].version, ActiveUntil(req[r].deadline)),
           UNCHANGED <<now, status, version, told, ended>>
    PROVE hash' \in [Caches -> Snapshots] /\ CacheInv' /\ ToldInv'
<1> DEFINE c == req[r].cache
           v == req[r].version
           until == ActiveUntil(req[r].deadline)
<1>1. /\ c \in Caches /\ v \in Versions /\ Window(v, req[r].deadline)
      /\ v \in Versions \cup {0}
  BY OwnWindow
<1>2. until \in Nat /\ now < until /\ until <= req[r].deadline
  BY Grounds, Numbers DEF ActiveUntil, Least
<1>3. /\ hash' \in [Caches -> Snapshots]
      /\ hash'[c].status = "active" /\ hash'[c].version = v /\ hash'[c].until = until
      /\ \A d \in Caches : d # c => hash'[d] = hash[d]
  BY <1>1, <1>2, PutTyped
<1>4. ended[v] \in Nat /\ ended[version] \in Nat /\ now \in Nat /\ req[r].deadline \in Nat
  BY <1>1, Grounds
<1>5. Window(v, until)
  <2> HIDE DEF until
  <2> QED
    BY <1>1, <1>2, <1>4, Numbers DEF Window
<1>6. c \notin told
  <2> SUFFICES ASSUME c \in told PROVE FALSE
    OBVIOUS
  <2>1. status = "revoked" /\ hash[c].status # "active" /\ hash[c].status # "deny"
    BY DEF IInv, ToldInv, Stores
  <2>2. hash[c].status = "none"
    BY <1>1, <2>1 DEF IInv, TypeOK, Snapshots
  <2>3. Closed(now)
    BY <2>2 DEF IInv, ToldInv
  <2>4. now < ended[version] + TTL
    BY <1>1, <1>4, <2>1, Numbers DEF Window
  <2> QED
    BY <1>4, <2>3, <2>4, Numbers DEF Closed
<1>7. CacheInv'
  <2> SUFFICES ASSUME NEW d \in Caches
               PROVE /\ hash'[d].status # "none" => now < hash'[d].until
                     /\ hash'[d].status = "active" =>
                          hash'[d].version \in Versions /\ Window(hash'[d].version, hash'[d].until)
    BY DEF CacheInv, Window
  <2>1. CASE d = c
    BY <1>1, <1>2, <1>3, <1>5, <2>1
  <2>2. CASE d # c
    BY <1>3, <2>2 DEF IInv, CacheInv
  <2> QED
    BY <2>1, <2>2
<1>8. ToldInv'
  <2>1. \A d \in told : hash'[d] = hash[d]
    BY <1>3, <1>6 DEF IInv, TypeOK
  <2> QED
    BY <2>1 DEF IInv, ToldInv, Closed
<1> QED
  BY <1>3, <1>7, <1>8

LEMMA FillKeeps == ASSUME IInv, NEW r \in Requests, Fill(r) PROVE IInv'
<1> DEFINE my == req[r]
<1>1. pc[r] = "fill" /\ my \in Locals /\ UNCHANGED <<now, row, lock, ghosts>>
  BY Grounds DEF Fill
<1>2. my.version \in Versions /\ my.since # "after" /\ pc[r] \notin Resting
  BY <1>1, OwnWindow
<1>3. now < my.deadline => my.began < ended[my.version] + TTL
  BY <1>1, OwnWindow
<1>4. UNCHANGED hash => Quiet
  BY <1>1, Grounds, QuietStep
<1>5. CASE Go(r, "confirm", my) /\ UNCHANGED hash
  <2>1. "confirm" \in Places /\ Own("confirm", my)
    BY <1>1, OwnWindow, Grounds DEF Own, Places, Resting
  <2> QED
    BY <1>1, <1>4, <1>5, <2>1, QuietKeeps
<1>6. CASE /\ now < my.deadline /\ now < Expiry
           /\ Stores(my.cache, "active", my.version)
           /\ Put(my.cache, "active", my.version, ActiveUntil(my.deadline))
           /\ Go(r, "settle", my) \/ Accept(r, my.version)
  <2>1. \E place \in Places, mine \in Locals : Go(r, place, mine) /\ Own(place, mine)
    <3>1. CASE Go(r, "settle", my)
      <4>1. "settle" \in Places /\ Own("settle", my)
        BY <1>1, OwnWindow, Grounds DEF Own, Places, Resting
      <4> QED
        BY <1>1, <3>1, <4>1
    <3>2. CASE Accept(r, my.version)
      BY <1>2, <1>3, <1>6, <3>2, OwnAccepted
    <3> QED
      BY <1>6, <3>1, <3>2
  <2>2. UNCHANGED <<now, status, version, told, ended>>
    BY <1>1 DEF row, ghosts
  <2>3. hash' \in [Caches -> Snapshots] /\ CacheInv' /\ ToldInv'
    BY <1>1, <1>6, <2>2, FillStores
  <2>4. pc' \in [Requests -> Places] /\ req' \in [Requests -> Locals] /\ RequestInv'
    BY <2>1, <2>2, OthersKeep
  <2>5. TypeOK' /\ RowInv'
    BY <1>1, <2>3, <2>4 DEF IInv, TypeOK, RowInv, row, ghosts
  <2> QED
    BY <2>3, <2>4, <2>5 DEF IInv
<1>7. CASE Refuse(r) /\ UNCHANGED hash
  BY <1>4, <1>7, RefuseKeeps
<1>8. CASE now < my.deadline /\ Accept(r, my.version) /\ UNCHANGED hash
  BY <1>2, <1>3, <1>4, <1>8, AcceptKeeps
<1> QED
  BY <1>5, <1>6, <1>7, <1>8 DEF Fill

\* A denial stands until no earlier snapshot can be stored.
LEMMA DenyStores ==
    ASSUME IInv, NEW c \in Caches, NEW v \in Versions \cup {0}, Put(c, "deny", v, DenyUntil),
           UNCHANGED <<now, status, version, ended>>,
           \/ told' = told
           \/ told' = told \cup {c} /\ status = "revoked"
    PROVE hash' \in [Caches -> Snapshots] /\ CacheInv' /\ ToldInv'
<1>1. /\ now \in Nat /\ ended \in [Versions -> Nat] /\ version \in Versions
      /\ told \subseteq Caches
  BY Numbers DEF IInv, TypeOK, Times
<1>2. /\ DenyUntil \in Nat /\ now < DenyUntil
      /\ DenyUntil >= Expiry \/ DenyUntil = now + TTL
  BY <1>1, Numbers DEF DenyUntil, Least
<1>3. /\ hash' \in [Caches -> Snapshots]
      /\ hash'[c].status = "deny" /\ hash'[c].until = DenyUntil
      /\ \A d \in Caches : d # c => hash'[d] = hash[d]
  BY <1>2, PutTyped
<1>4. status = "revoked" => Closed(DenyUntil)
  <2>1. ended[version] \in Nat
    BY <1>1
  <2>2. status = "revoked" => ended[version] <= now
    BY DEF IInv, RowInv
  <2> QED
    BY <1>1, <1>2, <2>1, <2>2, Numbers DEF Closed
<1>5. CacheInv'
  <2> SUFFICES ASSUME NEW d \in Caches
               PROVE /\ hash'[d].status # "none" => now < hash'[d].until
                     /\ hash'[d].status = "active" =>
                          hash'[d].version \in Versions /\ Window(hash'[d].version, hash'[d].until)
    BY DEF CacheInv, Window
  <2>1. CASE d = c
    BY <1>2, <1>3, <2>1
  <2>2. CASE d # c
    BY <1>3, <2>2 DEF IInv, CacheInv
  <2> QED
    BY <2>1, <2>2
<1>6. ToldInv'
  <2> SUFFICES ASSUME NEW d \in told'
               PROVE /\ status = "revoked"
                     /\ hash'[d].status # "active"
                     /\ hash'[d].status = "deny" => Closed(hash'[d].until)
                     /\ hash'[d].status = "none" => Closed(now)
    BY DEF ToldInv, Closed
  <2>1. status = "revoked"
    BY DEF IInv, ToldInv
  <2>2. CASE d = c
    BY <1>3, <1>4, <2>1, <2>2
  <2>3. CASE d # c
    <3>1. d \in told /\ hash'[d] = hash[d]
      BY <1>1, <1>3, <2>3
    <3> QED
      BY <2>1, <3>1 DEF IInv, ToldInv
  <2> QED
    BY <2>2, <2>3
<1> QED
  BY <1>3, <1>5, <1>6

LEMMA FenceKeeps == ASSUME IInv, NEW r \in Requests, Fence(r) PROVE IInv'
<1> DEFINE my == req[r]
<1>1. /\ pc[r] = "fence" /\ my \in Locals /\ UNCHANGED <<now, row, lock, ghosts>>
      /\ Put(my.cache, "deny", my.version, DenyUntil) /\ Go(r, "retire", my)
  BY Grounds DEF Fence
<1>2. my.cache \in Caches /\ my.since = "before" /\ my.version \in Versions \cup {0}
  BY <1>1, Grounds DEF Own, Resting, Locals
<1>3. UNCHANGED <<now, status, version, ended>> /\ told' = told
  BY <1>1 DEF row, ghosts
<1>4. hash' \in [Caches -> Snapshots] /\ CacheInv' /\ ToldInv'
  BY <1>1, <1>2, <1>3, DenyStores
<1>5. "retire" \in Places /\ Own("retire", my)
  BY <1>2, Grounds, OwnPlain
<1>6. pc' \in [Requests -> Places] /\ req' \in [Requests -> Locals] /\ RequestInv'
  BY <1>1, <1>3, <1>5, OthersKeep
<1>7. TypeOK' /\ RowInv'
  BY <1>1, <1>4, <1>6 DEF IInv, TypeOK, RowInv, row, ghosts
<1> QED
  BY <1>4, <1>6, <1>7 DEF IInv

LEMMA BuryKeeps == ASSUME IInv, NEW r \in Requests, Bury(r) PROVE IInv'
<1> DEFINE my == req[r]
<1>1. /\ pc[r] = "bury" /\ my \in Locals
      /\ UNCHANGED <<now, row, lock, ended, rotated, begun>>
      /\ Put(my.cache, "deny", my.version, DenyUntil) /\ Refuse(r)
      /\ told' = IF status = "revoked" THEN told \cup {my.cache} ELSE told
  BY Grounds DEF Bury
<1>2. my.cache \in Caches /\ my.version \in Versions \cup {0}
  BY <1>1, Grounds DEF Own, Resting, Locals
<1>3. UNCHANGED <<now, status, version, ended>> /\ told \subseteq told'
  BY <1>1 DEF row
<1>4. \/ told' = told
      \/ told' = told \cup {my.cache} /\ status = "revoked"
  BY <1>1
<1>5. hash' \in [Caches -> Snapshots] /\ CacheInv' /\ ToldInv'
  BY <1>1, <1>2, <1>3, <1>4, DenyStores
<1>6. pc' \in [Requests -> Places] /\ req' \in [Requests -> Locals] /\ RequestInv'
  BY <1>1, <1>3, OwnNothing, OthersKeep DEF Refuse
<1>7. told' \subseteq Caches
  BY <1>2, <1>4 DEF IInv, TypeOK
<1>8. UNCHANGED <<now, status, version, token, graceUntil, lock, ended, rotated, begun>>
  BY <1>1 DEF row
<1>9. TypeOK' /\ RowInv'
  BY <1>5, <1>6, <1>7, <1>8 DEF IInv, TypeOK, RowInv
<1> QED
  BY <1>5, <1>6, <1>9 DEF IInv

\* A version of the row that ends, by its successor or by the revocation.
LEMMA VersionEnds ==
    ASSUME IInv, status = "active", UNCHANGED <<now, hash, told, rotated, graceUntil>>,
           ended' = [ended EXCEPT ![version] = now],
           \/ status' = "revoked" /\ version' = version
           \/ status' = "active" /\ version' = version + 1 /\ version < MaxVersion
    PROVE /\ version' \in Versions /\ ended' \in [Versions -> Nat]
          /\ RowInv' /\ CacheInv' /\ ToldInv'
          /\ \A v \in Versions, time \in Nat : Window(v, time) => Window(v, time)'
          /\ \A v \in Versions, time \in Nat :
                time <= now /\ time < ended[v] + TTL => time < ended'[v] + TTL
<1>1. /\ now \in Nat /\ version \in Versions /\ Versions \subseteq Nat
      /\ ended \in [Versions -> Nat] /\ Never \in Nat /\ TTL \in Nat \ {0}
  BY Numbers DEF IInv, TypeOK, Times, Versions, Never
<1>2. version' \in Versions /\ ended' \in [Versions -> Nat] /\ ended'[version] = now
  BY <1>1, Numbers DEF Versions
<1>3. \A v \in Versions : v # version => ended'[v] = ended[v]
  BY <1>1
<1>4. /\ \A v \in Versions : ended[v] <= now \/ ended[v] = Never
      /\ \A v \in Versions : v >= version => ended[v] = Never
  BY DEF IInv, RowInv
<1>5. \A v \in Versions : ended'[v] <= now \/ ended'[v] = Never
  BY <1>1, <1>2, <1>3, <1>4
<1>6. status' = "active" => \A v \in Versions : v >= version' => ended'[v] = Never
  BY <1>1, <1>3, <1>4
<1>7. RowInv'
  BY <1>1, <1>2, <1>5, <1>6 DEF IInv, RowInv
<1>8. told = {}
  BY DEF IInv, ToldInv
<1>9. ASSUME NEW v \in Versions, NEW time \in Nat, Window(v, time) PROVE Window(v, time)'
  BY <1>1, <1>2, <1>3, <1>9 DEF Window
<1>10. ASSUME NEW c \in Caches, hash[c].status = "active" PROVE hash[c].until \in Nat
  BY DEF IInv, TypeOK, Snapshots
<1>11. CacheInv'
  BY <1>9, <1>10 DEF IInv, CacheInv, Window
<1>12. ASSUME NEW v \in Versions, NEW time \in Nat, time <= now, time < ended[v] + TTL
       PROVE time < ended'[v] + TTL
  BY <1>1, <1>2, <1>3, <1>12
<1> QED
  BY <1>2, <1>7, <1>8, <1>9, <1>11, <1>12 DEF ToldInv

\* The others hold what they held.
LEMMA EndsKeepOthers ==
    ASSUME IInv, status = "active", UNCHANGED <<now, hash, told, rotated, graceUntil>>,
           ended' = [ended EXCEPT ![version] = now],
           \/ status' = "revoked" /\ version' = version
           \/ status' = "active" /\ version' = version + 1 /\ version < MaxVersion,
           NEW q \in Requests, pc'[q] = pc[q], req'[q] = req[q]
    PROVE Own(pc[q], req[q])'
<1>1. /\ \A v \in Versions, time \in Nat : Window(v, time) => Window(v, time)'
      /\ \A v \in Versions, time \in Nat :
            time <= now /\ time < ended[v] + TTL => time < ended'[v] + TTL
  BY VersionEnds
<1>2. /\ Own(pc[q], req[q]) /\ req[q].began \in Nat /\ req[q].deadline \in Nat
      /\ req[q].began <= now
  BY Grounds
<1>3. pc[q] \in {"swap", "fill", "settle", "confirm"} =>
        req[q].version \in Versions /\ Window(req[q].version, req[q].deadline)'
  BY <1>1, <1>2 DEF Own
<1>4. pc[q] = "accepted" =>
        req[q].version \in Versions /\ req[q].began < ended'[req[q].version] + TTL
  BY <1>1, <1>2 DEF Own
<1> QED
  BY <1>2, <1>3, <1>4 DEF Own, Window

LEMMA RetireKeeps == ASSUME IInv, NEW r \in Requests, Retire(r) PROVE IInv'
<1> DEFINE old == req[r]
<1>1. pc[r] = "retire" /\ old.cache \in Caches /\ old.version \in Versions \cup {0}
  BY Grounds DEF Retire, Own, Resting, Locals
<1>2. /\ lock' = None
      /\ UNCHANGED <<now, version, token, graceUntil, hash, told, rotated, begun>>
  BY DEF Retire
<1>3. CASE UNCHANGED <<status, ended>> /\ Refuse(r)
  <2>1. Quiet
    BY <1>2, <1>3, Grounds DEF Quiet, IInv, TypeOK
  <2> QED
    BY <1>3, <2>1, RefuseKeeps
<1>4. ASSUME status = "active", status' = "revoked", ended' = [ended EXCEPT ![version] = now],
             NEW v \in Versions \cup {0},
             Go(r, "bury", [NoLocals EXCEPT !.cache = old.cache, !.version = v])
      PROVE IInv'
  <2> DEFINE my == [NoLocals EXCEPT !.cache = old.cache, !.version = v]
  <2>1. my \in Locals /\ my.began = 0 /\ my.cache = old.cache /\ my.since = "before"
    BY <1>1, Blank DEF Locals, NoLocals
  <2>2. version' \in Versions /\ ended' \in [Versions -> Nat] /\ RowInv' /\ CacheInv' /\ ToldInv'
    BY <1>2, <1>4, VersionEnds
  <2>3. "bury" \in Places /\ pc' = [pc EXCEPT ![r] = "bury"] /\ req' = [req EXCEPT ![r] = my]
    BY <1>4 DEF Go, Places
  <2>4. pc' \in [Requests -> Places] /\ req' \in [Requests -> Locals]
        /\ pc'[r] = "bury" /\ req'[r] = my
    BY <2>1, <2>3 DEF IInv, TypeOK
  <2>5. ASSUME NEW q \in Requests PROVE Own(pc[q], req[q])'
    <3>1. CASE q = r
      <4>1. req'[r].began <= now' /\ req'[r].cache \in Caches /\ req'[r].since = "before"
        BY <1>1, <1>2, <2>1, <2>4, Grounds
      <4> QED
        BY <2>4, <3>1, <4>1 DEF Own, Resting
    <3>2. CASE q # r
      <4>1. pc'[q] = pc[q] /\ req'[q] = req[q]
        BY <2>3, <3>2 DEF IInv, TypeOK
      <4> QED
        BY <1>2, <1>4, <4>1, EndsKeepOthers
    <3> QED
      BY <3>1, <3>2
  <2>6. RequestInv'
    BY <2>5 DEF RequestInv
  <2>7. TypeOK'
    BY <1>2, <1>4, <2>2, <2>4 DEF IInv, TypeOK
  <2> QED
    BY <2>2, <2>6, <2>7 DEF IInv
<1> QED
  BY <1>1, <1>3, <1>4, Grounds DEF Retire

LEMMA RaiseKeeps == ASSUME IInv, NEW r \in Requests, Raise(r) PROVE IInv'
<1> DEFINE old == req[r]
<1>1. /\ pc[r] = "raise" /\ old.cache \in Caches /\ old.deadline <= now + TTL
      /\ old.at \in Nat
  BY Grounds DEF Raise, Own, Resting
<1>2. UNCHANGED <<now, status, token, graceUntil, lock, hash, told, rotated, begun>>
  BY DEF Raise
<1>3. CASE UNCHANGED <<version, ended>> /\ Refuse(r)
  <2>1. Quiet
    BY <1>2, <1>3, Grounds DEF Quiet, IInv, TypeOK
  <2> QED
    BY <1>3, <2>1, RefuseKeeps
<1>4. CASE /\ Usable(old.at) /\ version < MaxVersion /\ version' = version + 1
           /\ ended' = [ended EXCEPT ![version] = now]
           /\ Go(r, "fill", [old EXCEPT !.version = version + 1])
  <2> DEFINE my == [old EXCEPT !.version = version + 1]
  <2>1. status = "active"
    BY <1>4 DEF Usable
  <2>2. version' \in Versions /\ ended' \in [Versions -> Nat] /\ RowInv' /\ CacheInv' /\ ToldInv'
    BY <1>2, <1>4, <2>1, VersionEnds
  <2>3. /\ my \in Locals /\ my.version = version' /\ my.deadline = old.deadline
        /\ my.began = old.began /\ my.cache = old.cache /\ my.since = old.since
    BY <1>4, <2>2, Grounds DEF Locals
  <2>4. "fill" \in Places /\ pc' = [pc EXCEPT ![r] = "fill"] /\ req' = [req EXCEPT ![r] = my]
    BY <1>4 DEF Go, Places
  <2>5. pc' \in [Requests -> Places] /\ req' \in [Requests -> Locals]
        /\ pc'[r] = "fill" /\ req'[r] = my
    BY <2>3, <2>4 DEF IInv, TypeOK
  <2>6. ASSUME NEW q \in Requests PROVE Own(pc[q], req[q])'
    <3>1. CASE q = r
      <4>1. /\ req'[r].began <= now' /\ req'[r].cache \in Caches /\ req'[r].since # "after"
            /\ req'[r].version = version' /\ req'[r].deadline <= now + TTL
            /\ req'[r].deadline \in Nat
        BY <1>1, <1>2, <2>1, <2>3, <2>5, Grounds DEF Own, IInv, ToldInv
      <4>2. ended'[version'] = Never
        BY <1>2, <2>1, <2>2, Grounds DEF RowInv
      <4>3. Window(req[r].version, req[r].deadline)'
        BY <1>2, <2>1, <4>1, <4>2, Grounds, Numbers DEF Window
      <4> QED
        BY <2>2, <2>5, <3>1, <4>1, <4>3 DEF Own, Resting
    <3>2. CASE q # r
      <4>1. pc'[q] = pc[q] /\ req'[q] = req[q]
        BY <2>4, <3>2 DEF IInv, TypeOK
      <4> QED
        BY <1>2, <1>4, <2>1, <4>1, EndsKeepOthers
    <3> QED
      BY <3>1, <3>2
  <2>7. RequestInv'
    BY <2>6 DEF RequestInv
  <2>8. TypeOK'
    BY <1>2, <2>2, <2>5 DEF IInv, TypeOK
  <2> QED
    BY <2>2, <2>7, <2>8 DEF IInv
<1> QED
  BY <1>3, <1>4 DEF Raise

LEMMA TickKeeps == ASSUME IInv, Tick PROVE IInv'
<1>1. /\ now \in Nat /\ now' = now + 1 /\ now' \in Times /\ now' \in Nat
      /\ UNCHANGED <<row, local, ghosts>>
      /\ hash' = [c \in Caches |-> IF hash[c].until > now + 1 THEN hash[c] ELSE NoSnapshot]
      /\ ended \in [Versions -> Nat] /\ version \in Versions /\ told \subseteq Caches
  BY Numbers DEF Tick, IInv, TypeOK, Times
<1>2. \A c \in Caches : hash[c].until \in Nat /\ hash[c].status \in {"none", "active", "deny"}
  BY DEF IInv, TypeOK, Snapshots
<1>3. \A c \in Caches : \/ hash'[c] = hash[c] /\ hash[c].until > now'
                        \/ hash'[c].status = "none" /\ hash[c].until <= now'
  BY <1>1, <1>2 DEF NoSnapshot
<1>4. TypeOK'
  <2>1. hash' \in [Caches -> Snapshots]
    BY <1>1, Blank DEF IInv, TypeOK
  <2> QED
    BY <1>1, <2>1 DEF IInv, TypeOK, Tick, row, local, ghosts
<1>5. RowInv'
  <2>1. \A v \in Versions : ended[v] \in Nat
    BY <1>1
  <2> QED
    BY <1>1, <2>1 DEF IInv, RowInv, row, ghosts
<1>6. \A v \in Versions, time \in Nat : Window(v, time) => Window(v, time)'
  BY <1>1, Numbers DEF Window, row, ghosts
<1>7. CacheInv'
  <2> SUFFICES ASSUME NEW c \in Caches
               PROVE /\ hash'[c].status # "none" => now' < hash'[c].until
                     /\ hash'[c].status = "active" =>
                          hash'[c].version \in Versions /\ Window(hash[c].version, hash[c].until)'
    BY DEF CacheInv, Window
  <2>1. CASE hash'[c].status = "none"
    BY <2>1
  <2>2. CASE hash'[c] = hash[c] /\ hash[c].until > now'
    BY <1>1, <1>2, <1>6, <2>2 DEF IInv, CacheInv
  <2> QED
    BY <1>3, <2>1, <2>2
<1>8. ToldInv'
  <2> SUFFICES ASSUME NEW c \in told
               PROVE /\ status = "revoked"
                     /\ hash'[c].status # "active"
                     /\ hash'[c].status = "deny" => Closed(hash'[c].until)
                     /\ hash'[c].status = "none" => Closed(now')
    BY <1>1 DEF ToldInv, Closed, row, ghosts
  <2>1. /\ c \in Caches /\ status = "revoked" /\ hash[c].status # "active"
        /\ hash[c].status = "deny" => Closed(hash[c].until)
        /\ hash[c].status = "none" => Closed(now)
    BY <1>1 DEF IInv, ToldInv
  <2>2. CASE hash'[c] = hash[c] /\ hash[c].until > now'
    BY <1>1, <2>1, <2>2, Numbers DEF Closed
  <2>3. CASE hash'[c].status = "none" /\ hash[c].until <= now'
    <3>1. Closed(now')
      BY <1>1, <1>2, <2>1, <2>3, Numbers DEF Closed
    <3> QED
      BY <2>1, <2>3, <3>1
  <2> QED
    BY <1>3, <2>1, <2>2, <2>3
<1>9. RequestInv'
  <2> SUFFICES ASSUME NEW r \in Requests PROVE Own(pc[r], req[r])'
    BY DEF RequestInv
  <2>1. /\ Own(pc[r], req[r]) /\ req[r].began \in Nat /\ req[r].deadline \in Nat
    BY Grounds
  <2>2. pc'[r] = pc[r] /\ req'[r] = req[r] /\ told' = told /\ ended' = ended
    BY <1>1 DEF local, ghosts
  <2>3. pc[r] \in {"swap", "fill", "settle", "confirm"} =>
          Window(req[r].version, req[r].deadline)'
    BY <1>6, <2>1, <2>2 DEF Own
  <2> QED
    BY <1>1, <2>1, <2>2, <2>3, Numbers DEF Own, Window
<1> QED
  BY <1>4, <1>5, <1>7, <1>8, <1>9 DEF IInv

LEMMA StepInvariant == IInv /\ [Next]_vars => IInv'
<1> SUFFICES ASSUME IInv, [Next]_vars PROVE IInv'
  OBVIOUS
<1>1. ASSUME NEW r \in Requests, Step(r) PROVE IInv'
  <2>1. CASE \E c \in Caches :
               \/ \E kind \in {"validate", "refresh"}, t \in Tokens : BeginQuery(r, kind, c, t)
               \/ \E kind \in {"revoke", "revokeAll", "logout"}, t \in Tokens : BeginRevoke(r, kind, c, t)
               \/ BeginAdvance(r, c)
    <3> PICK c \in Caches :
               \/ \E kind \in {"validate", "refresh"}, t \in Tokens : BeginQuery(r, kind, c, t)
               \/ \E kind \in {"revoke", "revokeAll", "logout"}, t \in Tokens : BeginRevoke(r, kind, c, t)
               \/ BeginAdvance(r, c)
      BY <2>1
    <3>1. ASSUME NEW kind \in {"validate", "refresh"}, NEW t \in Tokens, BeginQuery(r, kind, c, t)
          PROVE IInv'
      BY <3>1, BeginKeeps
    <3>2. ASSUME NEW kind \in {"revoke", "revokeAll", "logout"}, NEW t \in Tokens,
                 BeginRevoke(r, kind, c, t)
          PROVE IInv'
      BY <3>2, BeginKeeps
    <3>3. CASE BeginAdvance(r, c)
      <4>1. 0 \in Tokens /\ "validate" \in {"validate", "refresh", "revoke", "revokeAll", "logout"}
        BY Numbers DEF Tokens
      <4> QED
        BY <3>3, <4>1, BeginKeeps
    <3> QED
      BY <3>1, <3>2, <3>3
  <2>2. CASE Lookup(r) \/ Observe(r) \/ Read(r) \/ Fill(r) \/ Settle(r) \/ Confirm(r)
    BY <2>2, LookupKeeps, ObserveKeeps, ReadKeeps, FillKeeps, SettleKeeps, ConfirmKeeps
  <2>3. CASE Clock(r) \/ Compare(r) \/ Swap(r)
    BY <2>3, ClockKeeps, CompareKeeps, SwapKeeps
  <2>4. CASE Candidate(r) \/ Fence(r) \/ Retire(r) \/ Bury(r)
    BY <2>4, CandidateKeeps, FenceKeeps, RetireKeeps, BuryKeeps
  <2>5. CASE Raise(r) \/ Abandon(r)
    BY <2>5, RaiseKeeps, AbandonKeeps
  <2> QED
    BY <1>1, <2>1, <2>2, <2>3, <2>4, <2>5 DEF Step
<1>2. CASE Tick
  BY <1>2, TickKeeps
<1>3. CASE UNCHANGED vars
  BY <1>3 DEF IInv, TypeOK, RowInv, CacheInv, ToldInv, RequestInv, Own, Window, Closed, vars,
              row, local, ghosts
<1> QED
  BY <1>1, <1>2, <1>3 DEF Next, AllEnded

LEMMA Invariance == Spec => []IInv
  BY InitIInv, StepInvariant, PTL DEF Spec

\* Whatever the number of requests and of Redis instances, every variable keeps its type.
THEOREM TypeCorrect == Spec => []TypeOK
<1>1. IInv => TypeOK
  BY DEF IInv
<1> QED
  BY <1>1, Invariance, PTL

\* Once a revocation is committed and its tombstone published (revokeUserSessions,
\* RevokeUserSession), no later request at that Redis finds the session active, however
\* late a snapshot is written: the deadline that writeUserSessionCache gives an active
\* snapshot ends before the tombstone does.
THEOREM RevokedIsOutAlways == Spec => []RevokedIsOut
<1>1. IInv => RevokedIsOut
  BY Grounds DEF IInv, TypeOK, RequestInv, Own, RevokedIsOut, Locals
<1> QED
  BY <1>1, Invariance, PTL

\* What GetUserSessionCached returns was the row's state less than the cache's TTL before
\* the request began, with any number of Redis instances that share nothing.
THEOREM BoundedStalenessAlways == Spec => []BoundedStaleness
<1>1. IInv => BoundedStaleness
  BY DEF IInv, RequestInv, Own, BoundedStaleness
<1> QED
  BY <1>1, Invariance, PTL

\* What a request does to the kinds that the requests have.
Spares(q) ==
    /\ \A p \in Requests : p # q => req'[p] = req[p]
    /\ req[q].kind # "reuse" => req'[q].kind # "reuse"

LEMMA GoSpares ==
    ASSUME IInv, NEW q \in Requests, NEW place, NEW my, Go(q, place, my),
           my.kind = req[q].kind \/ my.kind # "reuse"
    PROVE Spares(q)
  BY DEF IInv, TypeOK, Go, Spares

LEMMA RefuseSpares == ASSUME IInv, NEW q \in Requests, Refuse(q) PROVE Spares(q)
  BY DEF IInv, TypeOK, Go, Refuse, Spares, NoLocals

LEMMA AcceptSpares == ASSUME IInv, NEW q \in Requests, NEW v, Accept(q, v) PROVE Spares(q)
<1> DEFINE on == [req[q] EXCEPT !.kind = "rotate", !.deadline = 0, !.version = 0]
           got == [NoLocals EXCEPT !.version = v, !.began = req[q].began, !.since = req[q].since]
<1>1. on.kind # "reuse"
  BY DEF IInv, TypeOK, Locals
<1>2. got.kind # "reuse"
  BY DEF NoLocals
<1>3. CASE Go(q, "clock", on)
  BY <1>1, <1>3, GoSpares
<1>4. CASE Go(q, "accepted", got)
  BY <1>2, <1>4, GoSpares
<1> QED
  BY <1>3, <1>4 DEF Accept

\* Only the comparison of RotateUserSessionRefresh finds a token reused.
LEMMA OnlyCompare ==
    ASSUME IInv, NEW q \in Requests, Step(q)
    PROVE Spares(q) \/ Compare(q)
<1>1. req \in [Requests -> Locals] /\ req[q] \in Locals
  BY DEF IInv, TypeOK
<1>2. ASSUME NEW place, Go(q, place, req[q]) PROVE Spares(q)
  BY <1>2, GoSpares
<1>3. ASSUME NEW c \in Caches, NEW kind \in {"validate", "refresh"}, NEW t \in Tokens,
             BeginQuery(q, kind, c, t)
      PROVE Spares(q)
  <2> DEFINE my == [NoLocals EXCEPT !.kind = kind, !.cache = c, !.token = t, !.began = now,
                                    !.since = Since(c)]
  <2>1. my.kind # "reuse"
    BY DEF NoLocals
  <2> QED
    BY <1>3, <2>1, GoSpares DEF BeginQuery
<1>4. ASSUME NEW c \in Caches, NEW kind \in {"revoke", "revokeAll", "logout"}, NEW t \in Tokens,
             BeginRevoke(q, kind, c, t)
      PROVE Spares(q)
  <2> DEFINE my == [NoLocals EXCEPT !.kind = kind, !.cache = c, !.token = t, !.at = now]
  <2>1. my.kind # "reuse"
    BY DEF NoLocals
  <2> QED
    BY <1>4, <2>1, GoSpares DEF BeginRevoke
<1>5. ASSUME NEW c \in Caches, BeginAdvance(q, c) PROVE Spares(q)
  <2> DEFINE my == [NoLocals EXCEPT !.kind = "advance", !.cache = c, !.version = version,
                                    !.at = now, !.deadline = now + TTL, !.began = now,
                                    !.since = Since(c)]
  <2>1. my.kind # "reuse"
    BY DEF NoLocals
  <2> QED
    BY <1>5, <2>1, GoSpares DEF BeginAdvance
<1>6. CASE Lookup(q)
  BY <1>2, <1>6, RefuseSpares, AcceptSpares DEF Lookup
<1>7. CASE Settle(q) \/ Confirm(q)
  BY <1>2, <1>7, RefuseSpares, AcceptSpares DEF Settle, Confirm
<1>8. CASE Fill(q)
  BY <1>2, <1>8, RefuseSpares, AcceptSpares DEF Fill
<1>9. CASE Observe(q)
  <2> DEFINE my == [req[q] EXCEPT !.deadline = now + TTL]
  <2>1. my.kind = req[q].kind
    BY <1>1 DEF Locals
  <2> QED
    BY <1>9, <2>1, GoSpares DEF Observe
<1>10. ASSUME NEW v, NEW place, Go(q, place, [req[q] EXCEPT !.version = v]) PROVE Spares(q)
  <2> DEFINE my == [req[q] EXCEPT !.version = v]
  <2>1. my.kind = req[q].kind
    BY <1>1 DEF Locals
  <2> QED
    BY <1>10, <2>1, GoSpares
<1>11. ASSUME NEW c, NEW v, NEW place, Go(q, place, [NoLocals EXCEPT !.cache = c, !.version = v])
       PROVE Spares(q)
  <2> DEFINE my == [NoLocals EXCEPT !.cache = c, !.version = v]
  <2>1. my.kind # "reuse"
    BY DEF NoLocals
  <2> QED
    BY <1>11, <2>1, GoSpares
<1>12. CASE Read(q)
  BY <1>10, <1>11, <1>12, Zenon DEF Read
<1>13. CASE Clock(q)
  <2>1. ASSUME Go(q, "observe", [req[q] EXCEPT !.at = now]) PROVE Spares(q)
    <3> DEFINE my == [req[q] EXCEPT !.at = now]
    <3>1. my.kind = req[q].kind
      BY <1>1 DEF Locals
    <3> QED
      BY <2>1, <3>1, GoSpares
  <2>2. ASSUME Go(q, "candidate", [NoLocals EXCEPT !.kind = "revoke", !.cache = req[q].cache, !.at = now])
        PROVE Spares(q)
    <3> DEFINE my == [NoLocals EXCEPT !.kind = "revoke", !.cache = req[q].cache, !.at = now]
    <3>1. my.kind # "reuse"
      BY DEF NoLocals
    <3> QED
      BY <2>2, <3>1, GoSpares
  <2> QED
    BY <1>13, <2>1, <2>2, Zenon DEF Clock
<1>14. CASE Swap(q)
  BY <1>2, <1>14 DEF Swap
<1>15. CASE Candidate(q)
  <2>1. ASSUME Go(q, "fence", [req[q] EXCEPT !.version = version, !.token = 0]) PROVE Spares(q)
    <3> DEFINE my == [req[q] EXCEPT !.version = version, !.token = 0]
    <3>1. my.kind = req[q].kind
      BY <1>1 DEF Locals
    <3> QED
      BY <2>1, <3>1, GoSpares
  <2> QED
    BY <1>15, <2>1, RefuseSpares DEF Candidate
<1>16. CASE Fence(q)
  BY <1>2, <1>16 DEF Fence
<1>17. CASE Retire(q)
  BY <1>11, <1>17, RefuseSpares DEF Retire
<1>18. CASE Raise(q)
  BY <1>10, <1>18, RefuseSpares DEF Raise
<1>19. CASE Bury(q) \/ Abandon(q)
  BY <1>19, RefuseSpares DEF Bury, Abandon
<1> QED
  BY <1>3, <1>4, <1>5, <1>6, <1>7, <1>8, <1>9, <1>12, <1>13, <1>14, <1>15, <1>16, <1>17, <1>18,
     <1>19 DEF Step

\* RotateUserSessionRefresh takes a refresh for a theft only if it looked at the clock after
\* the last rotation was written: the window that the row names covers that moment.
THEOREM RaceKeepsSessionAlways == Spec => RaceKeepsSession
<1> DEFINE Race == \A r \in Requests :
                     (req[r].kind = "rotate" /\ req'[r].kind = "reuse") => req[r].at > rotated
<1>1. IInv /\ [Next]_vars => [Race]_vars
  <2> SUFFICES ASSUME IInv, Next, NEW r \in Requests, req[r].kind = "rotate", req'[r].kind = "reuse"
               PROVE req[r].at > rotated
    OBVIOUS
  <2>1. CASE \E q \in Requests : Step(q)
    <3> PICK q \in Requests : Step(q)
      BY <2>1
    <3>1. q = r /\ Compare(r)
      <4>1. Compare(q)
        BY OnlyCompare DEF Spares
      <4>2. \A p \in Requests : p # q => req'[p] = req[p]
        BY <4>1 DEF Compare, Go, Accept, Refuse, IInv, TypeOK
      <4> QED
        BY <4>1, <4>2
    <3>2. CASE req[r].at > graceUntil
      <4>1. rotated \in Nat /\ graceUntil \in Nat /\ rotated <= graceUntil
        BY Numbers DEF IInv, TypeOK, RowInv, Times
      <4> QED
        BY <3>2, <4>1, Grounds
    <3>3. CASE Accept(r, version) \/ Refuse(r)
      BY <3>3, RefuseSpares, AcceptSpares DEF Spares
    <3>4. CASE Go(r, "swap", [req[r] EXCEPT !.version = version])
      BY <3>4, Grounds DEF Go, Locals, IInv, TypeOK
    <3> QED
      BY <3>1, <3>2, <3>3, <3>4 DEF Compare
  <2>2. CASE Tick \/ AllEnded
    BY <2>2 DEF Tick, AllEnded, vars, local
  <2> QED
    BY <2>1, <2>2 DEF Next
<1> QED
  BY <1>1, Invariance, PTL DEF Spec, RaceKeepsSession

=============================================================================
