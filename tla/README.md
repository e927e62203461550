# Formal models of the Modelsell API gateway

The program is a Go server (a derivative of New API) that resells access to AI
models: it authenticates a token, chooses a provider's channel, takes an advance
from the user's balance, relays the request, and settles or gives back the
advance; long-running provider tasks are polled by a background runner and billed
when they end. These TLA+ modules model the parts of it whose correctness depends
on order: money that moves in several database calls, rows that several nodes
write, copies in a cache that must not outlive what they were copied from, and
background work that must be done once and must be done. One module is about the
browser: the playground, where answers of several requests meet in one list. Paths
are those of the repository, under `src/`.

`X` below stands for a module; `MCX` instantiates it for TLC, `X_*.cfg` are its
runs and `XProofs` its theorems; those of the two modules about a user's Redis hash
are together in `UserCacheProofs`, and `FiniteSums` has the lemmas about sums.
`PROJECT.json` maps each definition to the lines it stands for and lists runs,
mutants, findings, hazards and theorems.

    tlc -config SystemTasks.cfg SystemTasks.tla
    tlapm SystemTasksProofs.tla

## 1. Inventory

### Modelled

| Part | State | Operations | Hard because | Correct when | Modules |
|---|---|---|---|---|---|
| Background task runner (`model/system_task.go`, `service/system_task.go`) | `system_tasks` rows with a unique `active_key`; `system_task_locks`, one row per type with an expiry | create, schedule, take or take over the lock, claim, renew, finish, release, expire stale locks | several master nodes; each operation is several statements without a transaction; processes die or stall between them | one active row per type, a task runs once, ends once, and ends | `SystemTasks`, `SystemTaskLifecycle` |
| Billing session (`service/billing_session.go`, `funding_source.go`, `billing.go`) | per request: advance, token advance, extra reserve, `settled`, `fundingSettled`, `refunded`, `trusted`; shared: wallet, token and subscription balances | admit, trust, pre-consume, reserve, settle, refund, each half with its undo | two ledgers, no transaction over both; parallel requests of one user; calls that fail; an asynchronous refund | both ledgers are down by what was used, or by nothing, and never give back more than they took | `BillingSession` |
| Subscription quota (`model/subscription.go`, `service/subscription_reset_task.go`, `model/locking.go`) | `user_subscriptions` row; `subscription_pre_consume_records` by request id | advance, delta, lazy and scheduled reset, expiry, clean-up, refund with retries | the refund opens a second transaction inside its own; SQLite has no row locks; a reset in the middle of a request | usage is what the requests of the period hold, within the total | `SubscriptionQuota` |
| Asynchronous tasks (`service/task_polling.go`, `service/task_billing.go`, `model/task.go`, `relay/relay_task.go`, `relay/image_task_handler.go`, `controller/relay.go`) | `tasks` row: status, quota, cost mark, image version; copies of it in pollers, sweep, queries and the local image worker | submit, poll, sweep, query, bulk failure, guarded write, refund, settle | all of them may end the same task from copies read earlier; rows are written whole; billing comes after the write | a task is billed once; a failure costs nothing, a success its price | `TaskBilling` |
| User authentication fence (`model/user_auth_cache.go`, `user_cache.go`, `user.go`) | `users.auth_version` and deletion; in Redis a hash copied from the row, a pending fence, a committed floor; copies in requests and writers | look up, fill, change, soft and hard delete, publish, refresh a field, expire | a fill may arrive after any number of changes; a process dies between fence, commit and publication | no request that began after a change is answered with an older version; a rolled-back fence heals | `UserAuthFence`, `AuthRegister` |
| Login sessions (`model/user_session.go`, `service/auth_session.go`) | `user_sessions` row: status, version, refresh digest and the one before it with its grace; in each Redis a snapshot or a denial that lapses | validate, refresh, revoke one or all, log out by refresh token, advance the version, lapse | a snapshot read before a revocation may be stored after the denial has lapsed; nodes may have a Redis each; two tabs present one refresh token | a published revocation stays; what is accepted is less than a cache's TTL old; overlapping refreshes are no theft | `LoginSession` |
| Quota cache and batch updater (`model/quota_reserve.go`, `user_cache.go`, `utils.go`, `user.go`) | the wallet as a row, as a field of a Redis hash, and as sums in memory | reserve, fill, fall back, persist, compensate, add, flush, expire, crash | the three are changed one after the other, by goroutines of their own; a fallback reads a row the flush has not reached | every movement reaches the row once or is known to be lost; a reservation takes only what is there | `QuotaCache`, `QuotaCell` |
| Web playground (`web/default/src/features/playground`) | the list of messages, the list as last rendered, one reference to "the" stream, one flag "complete", the saved list | submit, suggest, regenerate, edit, delete, stop, render, reload; chunk, end, error, answer | every answer is written into the last message; handlers use the list they were rendered with; a page may be left in the middle | a message that waits has a request that can still answer it, and shows no other's answer | `Playground` |

The background runner drives the task poller and the subscription maintenance
(`system_task_handlers`); the billing session calls the subscription quota through
`SubscriptionFunding`, and the wallet and the token through `model/quota_reserve.go`;
submitting a task settles a billing session and leaves its charge to the task.
The hash of `UserAuthFence` and that of `QuotaCache` are one Redis key: the fence
decides whether a fill is accepted at all, which `QuotaCache` has as a fill that may
be refused, so that the reservation goes to the row; the quota is a field the fence's
writers leave alone. The playground
sends ordinary requests through the billing session.

### Not modelled

| Part | State and operations | Hard because | Should hold |
|---|---|---|---|
| Token cache fence (`model/token_cache.go`) | fence with a life time; mutate, read, publish | the fence may run out before a slow reader publishes (line 33) | a changed token is not served from an old row |
| Top-up, redemption, affiliate reward (`model/topup.go`, `redemption.go`) | orders, codes, balances | callback, administrator and retry complete one order; two users redeem a code where row locks do nothing (`redemption.go:165`) | credited once, rewarded once |
| Stripe automatic recharge (`service/stripe_auto_recharge.go`) | claim, pending payment, order | the webhook comes before the scheduler's own record (line 431) | one payment in flight, one credit per payment |
| On-chain payments (`model/crypto_payment.go`) | orders, scan cursors, transfers | expiry races completion; cursors and reorganisations | a transfer pays one order |
| Agent ledger (`service/agent`, `model/agent.go`) | profit entries, withdrawals | settlement repeated per log entry | a charge moves its profit once |
| Workspaces (`model/workspace*.go`) | member tokens, reset dates | reset races use and a cache fill | the new quota is the one served |
| Billing statements (`model/billing_*.go`) | statements in the log database, adjustments of the balance in the main one | two databases, retries (`billing_statement_workflow.go:451`) | an adjustment moves the balance once |
| Asset bindings (`model/asset_binding*.go`) | provider assets, claims, lock plans | order of locks | one owner |
| Channel selection and retry (`service/channel_select.go`, `smart_retry.go`, ...) | per request: group, priority, attempt | group and priority exhausted in different orders | every candidate tried before giving up |
| Shared work, limiters (`pkg/inflight`, `common/limiter`) | waiters, buckets | last waiter against a newcomer; limits at their edge | a call lives until its last waiter leaves |
| Desktop shell (`electron/main.js`) | one server process, one window | the end of the process, the wait for its port and quitting race | quitting ends the server |
| Configurable resources, Midjourney, task image retention, channel health | as their names say | twins or extensions of `TaskBilling`, or statistics | |
| Expression prices, relay adaptors, authorisation, logs, options, other web pages | data, conversion, configuration, display | no protocol among actors | |

Most of the repository by lines is the last row: the pages of two web front ends,
which show and edit what the server keeps, and the conversions of its adaptors. They
hold no state that several actors race for, and a model of them would repeat them.
The state machines are in the server, and of those the modules take the ones money,
access and background work go through.

## 2. Plan

Done, in this order: the task runner with its life cycle, the billing session, the
subscription, the asynchronous tasks, the authentication fence, the quota cache, the
playground, the login sessions. Open, in the order of what they would add:

1. Compositions: `BillingSession` over `SubscriptionQuota`, with the dedicated token
   that a reset rewrites (`model/subscription.go:1355`), and over `QuotaCache`, with
   its cell in the place of `WalletBalance`; an abstract charge (open, settled at a
   price, or void) that a session, and a session followed by its task, implement.
2. The token's fence, which unlike the user's expires by a fixed time.
3. Payments (`topup`, `redemption`, Stripe): one abstract order credited once.
4. `inflight`; channel selection as a recursive function checked
   against its definition; the submission billing of configurable resources.
5. Proofs: once an abstract charge exists, that sessions and tasks implement it.

Runs stay few, one per question, since each repeats its state space.

## 3. The modules

### SystemTasks and SystemTaskLifecycle

One task type. `status`, `lockedBy` and `activeKey` are columns of `system_tasks`,
the lock variables are the row of `system_task_locks`, `exec`, `beating` and
`releasing` are the goroutines of each process: the handlers it runs, those whose heartbeat still
renews, and those that have finished and still have to release. A pass of a
runner is cut at its database statements: read stale locks, fail their tasks, delete
them (`ReadStale`, `MarkStale`, `DeleteStale`), schedule (`Schedule`), look for a
pending task (`FindPending`), take the lock (`AcquireLock`), fail the task it was
taken from (`DemoteExpired`), set the task running (`StartTask`). Time is only what
the statements compare: the lock's life may lapse while nobody renews it
(`LeaseLapses`), and a process may stall for a whole life of the lock
(`HolderStalls`, at most `MaxStalls`) or die (`Crash`). Failed calls are counted by
`MaxFaults`, rows by `MaxTasks`. The life cycle, which the table promises to
everybody else, knows status and owner only: created when none is active, handed out once, ended
once.

### BillingSession

Each session is a request with a funding source (`Source`), sharing one wallet, one
token and one subscription. `pc` cuts the code at its database calls; `pre`,
`tokenConsumed`, `consumed`, `extra` and `trusted` are the fields of the session;
the flags `settled`, `fundingSettled` and `refunded` are places of `pc`.
`fundTaken` and `tokenTaken` are ghosts: what the two ledgers are really down by for
this session, from which the balances follow. The steps that may fail have a failing
twin or branch counted by `MaxFaults`. `MayTrust` and `MustTrust` leave open what
the cached token quota said when the request arrived. A session is closed by the
relay's deferred code: `Settle` or `Refund`, not both. The code's `Settle` does not
look at `refunded`, so this order is an assumption on its callers.
`WalletBalance`, `TokenRemain` and `SubUsed` are single cells; `QuotaCache` is the
detailed form of the first, with its own abstract cell. One subscription's advance and its
adjustments are one step here and detailed in `SubscriptionQuota`.

### SubscriptionQuota

One limited subscription; the plan's reset gives the same total back. A transaction
is one step, except that of the refund: `LockRecord` opens it, `GiveBack` is the
nested, independently committed `PostConsumeUserSubscriptionDelta`, `MarkRefunded`
saves the record and commits. An open outer transaction holds a connection
(`OuterOpen`) of a pool whose size, `conns`, is one of `Pools`; `database/sql` lets
who finds none free wait without a limit, so that as many open refunds as there are
connections wait for one another for ever (`Exhausted`). And on SQLite, where
`lockForUpdate` locks nothing, an open read keeps other connections from committing
(`CommitPasses`, rollback journal, the driver's default). `refundWithRetry` tries `MaxAttempts` = 3 times, the constant of
the code. The period is over when the clock passes `next_reset_time`; the first
advance, or the maintenance task, notices. `since`, `net` and `lateBack` are ghosts.
A request asks for its advance once: the answer to a request id that has a record
already is left out.

### TaskBilling

A task has a `kind`, which decides the code that serves it: `seedance` and
`configurable` (query answers upstream and may write), `gemini` (real-time query),
`suno`, `image`, `local` (an image generated by a worker of this process), `legacy`
(submitted before refunds existed). Row: `status`, `quota`, `costSettled`, `full`
(its progress says "100%"), and whether its image version was advanced. An actor of any role (poll, sweep, query,
worker) has a copy of the row in `mem`, made at some earlier time, gets an answer
from upstream (`Ask`), writes the row if its status is still the one it had read
(`Wins`), and then bills: refund, or settle, save the quota, mark the cost settled.
The progress that an answer brings is the upstream's own number, so that a task may
be at "100%" before it has ended (`WriteProgress`); the sweep selects neither such a
row nor, with `TimeoutMinutes` at zero, any (`SweepRead`).
The steps in between can be interrupted by every other actor, by a crash or by a
funding call that fails (`MaxTroubles` together). Queries of an already ended task
are counted by `MaxEndQueries`. `net` is what the user has paid for the task, `base`
the charge at submission, `wins` counts billed ends; `reopened`, `silent`, `gone`
and `unpaid` remember what else happened to it: taken out of a final status by a
query, failed by a query that bills nothing, failed in bulk for a missing channel,
refund refused or lost with its process.
Assumed: the upstream never takes an outcome back; a database write of the row that
fails is as if not tried; an image version matters only to writes that lose to a
bulk failure; costs of kinds with deferred cost are those of metered kinds; the log
entry of a settlement gets an id.

### UserAuthFence and AuthRegister

One user, his row (`version`, `deletedAt`, `erased`), the three Redis keys (`hash`,
`fence`, `floor`, each the version it carries, 0 for none), and what requests and
writers hold in memory (`rpc`, `rgot`, `wpc`, `kind`, `wgot`). Every Redis command or
script is one step, so is every statement and commit. The two guarded scripts share
`Accepts` and `Promote`. A writer that is rolled back, fails or dies is the same to
the others (`Abandon`); a request whose client has gone is `GiveUp`. Failed commands are
counted by `MaxFaults`, transactions by `MaxChanges`. The life times of the code
(a fence outlives every hash written before it) are the guard of `FenceExpires`:
`written` says whether the hash is younger than the fence. That a fence may still
run out under somebody who has held an old row for longer than its whole life is not
forbidden but remembered in `late`, and ends the promise. `AuthRegister` is that
promise: a request is answered with a version that was current since it began, or
refused; after a deletion it is never answered. `since` and `answer` are there to
state it. Assumed: Redis loses no keys; users were given a version at start-up
(`InitializeUserAuthVersions`).

### LoginSession

One session: its row (`status`, `version`, `token`, `graceUntil`), who has it locked
(`lock`), its snapshot in each Redis (`hash`), and what each request holds (`pc`,
`req`). The rule under test compares clocks, so this module has one: `now`, which all
nodes share, with TTL, grace and expiry in its units; a snapshot carries the time it
lapses at. A look-up that misses takes its deadline (`Observe`), reads the row, stores
what is left of the window (`Fill`, the script with its two refusals in `Stores`), looks
at the clock again (`Settle`) and, too late, asks the row once more (`Confirm`).
Revocations are cut into candidate, fence, transaction and tombstone; a logout holds
the row's lock across its fence. A refresh is a look-up, the question for the user, whose
answer is left open (`Clock`), and the loop of the rotation. The code tries that loop
three times, the model as often as it loses. Refresh secrets are derived from one another,
so a token is its place in that chain, and the row's previous digest is the place before.
`told`, `ended`, `began`, `since` and `rotated` are ghosts: where a committed
revocation has been published, when each version stopped to be the row's, when a
request began and whether after a publication there, when the last rotation was written.
Assumed: clocks agree; Redis loses no key before its time; the fill of
`CreateUserSession`, which is a reader's, has happened or was lost. A tombstone that
cannot be written is only logged (`user_session.go:591`); then the first property, which
speaks of published revocations, says nothing, and the second bounds what is left.

### QuotaCache and QuotaCell

One wallet in its row, in its Redis hash (`shown`, `cached`) and in the batch store of
one process (`store`, and `flushing` for what `batchUpdate` has swapped out), with
and without the batch mode. `pc` follows `TryReserveUserQuota` through the hash, the
fill, the second try, the fallback and the compensation; a refund, a charge or a
credit moves the hash and the record by halves, in any order (`todo`). A crash
forgets what is in memory; a failed flush is logged and forgotten, as in the code.
`given`, `taken` and `lost` are ghosts, the books of what was promised to whom.
`suspect` remembers the events after which the hash may hold more than the wallet: a fill
from a row that is behind, a fallback past a hash, a half that failed or is ahead.
They are all in the code and none of them is a fault of the model; the property is
about everything else. `Unrecorded` is what running reservations have taken from the
hash and not yet written; a crash gives it back in the books, for no caller was told.
Names begin with `Quota` where the fence, which lives in the same hash, has the plain
ones, so that one module can speak of both.

### Playground

`messages` is what the next state updater of React sees, `shown` and `generating` are
those of the last render, which the handlers of clicks have captured; a click may
therefore work on an older list (`Stale`). `source` and `complete` are the two
references of `use-stream-request.ts`, shared by all requests. Each request is
`unused`, under way as a stream or in one piece (`plain`), or `over`; what sse.js and
axios deliver is external. A message says for which request it was made (`of`, a
ghost) and of which requests it shows something (`parts`); texts and reasoning are
left out. Reloading takes either list, since an updater saves when it is applied or when
it is rendered. `strays` names the four things after which the page promises
nothing: a request sent during another (a suggestion or an open editor is not
disabled, an answer in one piece does not disable anything), a click on an outdated
list, an answer without a choice, a stream that ends without `[DONE]`.

## 4. Runs

| Run | Instance | What it shows |
|---|---|---|
| `tasks` | 2 runners, 2 tasks, 1 stall, 1 failed call | one active row; no task executed by two runners; no two handlers at once unless there was a stall or a fault; every step is a step of the life cycle; every created task reaches a final status unless a runner stalled |
| `tasks_heartbeat` (violation) | 3 runners, 1 task | a stale-lock pass fails the task of a live holder |
| `billing` | 4 sessions: two on the wallet (one in the playground, one forced to advance), one on a subscription, one of the user's own provider; wallet 5, token 4, total 3, trust limit 3, estimates {1,3}, costs {0,4}, 1 failed call | ledgers end at what was used; nothing is given back twice; advances alone never overdraw; across sources, with the extra reserve of subscriptions |
| `subscription_promises` | 2 requests, total 3, amounts {1,2}, 2 periods, 1 failed transaction, 1 failed save, pools of 2 and 3 connections, server and SQLite | usage within the total and equal to what requests hold; refunds restore, and end unless the pool is exhausted for ever |
| `subscription_retry` (violation) | as above, 1 failed save only, 3 connections | an advance is given back twice |
| `task_ends` | 1 task of any of 7 kinds, 2 actors of any role, 1 query after the end, 1 trouble; a timeout set; charge 2, real cost none or 3 | one end is billed; failures cost nothing, successes their price; nobody gains from faults; tasks end, unless they stay at "100%" |
| `task_reopened` (violation) | as above, configurable, real cost 1, no trouble | a refunded task is settled on top |
| `task_silent` (violation) | as above, gemini, no trouble | a failed task keeps its charge |
| `auth_fence` | 2 requests, 2 writers, 2 changes, 1 failed command | requests see a register of the version; the floor never passes the database; a rolled-back fence heals |
| `login_session` | 2 goroutines, 3 requests of any kind, 2 Redis instances; TTL 2, grace 1, expiry 3, 4 moments, 1 rotation, 2 versions | a published revocation is not undone by a late snapshot; what is accepted was true less than a TTL before; overlapping refreshes end no session |
| `quota_cache` | 3 processes, 3 operations of 1 or 2, wallet 2, 1 fault or crash, batch mode on and off | every movement reaches the row once or is known to be lost; reservations take what the wallet has |
| `playground` | 3 requests, 4 messages | nothing waits for an answer that cannot come; no message shows another request's answer |

Why the bounds are enough to be interesting: two processes and two rows let a task
be created while the lock of its predecessor is still there; a third runner is
needed for the heartbeat counterexample (one that holds, one that crashed, one that
read too early). Quotas and estimates are chosen so that a second request finds too
little of the wallet, of the token, or of both, and so that a cost may be below, at
or above the advance. A refusal for lack of quota is no fault, so that with one fault
the undo of a refused advance or reserve may fail as well. Two refunds exhaust the
pool of two and leave the pool of three one connection, so that both ends of
`RefundEnds` occur.
Tasks do not share state in `TaskBilling`, apart from their actors, so that one task
with two actors has every interleaving of a pair; the theorems cover more. Two
changes let the first one's slow reader meet the second one's fence, and the
second writer refresh the hash between them. Four moments let a denial of two lapse while somebody still
holds what he read before it; the third request finds what he stored; the second
Redis is the one nobody tells. Requests and Redis instances are interchangeable (symmetry, for
safety only). Three operations of the wallet are a fill, the
reservation that overtakes it, and a refund that is half done; two is more than the
wallet has after one of one. Three requests let a late answer of the first fall into the
message of the third; four messages are two exchanges, or one with two
regenerations. Every
property was shown to depend on the code by at least one mutant that breaks it
(a dropped guard, a swapped order, a missing undo: the definitions `Mut_*`).

Deadlock is checked except in `SubscriptionQuota`, `TaskBilling` and `QuotaCache`:
there, everything may have ended.

### Fairness

* `SystemTasks`: the pass of a live runner goes on (weak; a ticker drives it), its
  stale-lock reading comes round (strong; every second tick at the latest, and it is
  possible again at the start of each pass), the handlers of the repository end and
  their locks are released (weak), and a lock that nobody renews lapses (weak).
  Crashes, stalls and failed calls are never fair.
* `SubscriptionQuota`: only the attempts of a refund, a loop with three rounds. A
  nested transaction that finds no free connection is not enabled, and may stay so.
* `TaskBilling`: an actor that has read a row goes on (goroutines run); an upstream
  task ends; a task that stays open becomes late; the sweep, which every node starts
  every 15 s, reads a late task again as often as it can (strong: the actors of the
  model are at times all busy). Queries, polls, crashes and troubles are not fair:
  what ends a task at the latest is the sweep, except a row at "100%", for which
  nothing is promised.
* `UserAuthFence`: the two expiries, because Redis drops a key whose time has come.
  No request, writer or retry is fair; that a fence heals rests on its life time
  alone, and on transactions not beginning for ever (`MaxChanges`).

### Findings

1. `tasks_heartbeat`: `ExpireStaleSystemTaskLocks` fails the task of a lock it read
   earlier without looking at the lock again (`model/system_task.go:390`).
2. `subscription_retry`: the refund's inner transaction is independent of the outer
   one (`model/subscription.go:1493`); if the outer fails, the retry pays again.
3. `task_reopened`: `tryConfigurableFetch` may write over a final status
   (`relay/relay_task.go:767`) with a copy whose quota was already refunded.
4. `task_silent`: `tryRealtimeFetch` (`relay/relay_task.go:556`) ends a task with a
   failure and bills nothing.

Some further statements have no run of their own. `SystemTasks.OrphansAreFailed`: `ClaimSystemTask` sets a task running without its
lock in the condition (`model/system_task.go:270`), so that a claimer that stalls for
the lock's life leaves a running row without a lock, which blocks its type.
`SubscriptionQuota.RefundSucceeds`: since the refund opens a second transaction while
the first holds SQLite's lock, no refund succeeds there; and on any database as many simultaneous refunds as the
pool has connections wait for ever, which `RefundEnds` names as its exception. The
same holds of `TasksEnd` and a task whose upstream reports it running at 100%: the
sweep does not select it (`model/task.go:439`), and if no later answer arrives it
stays open with its charge. `HardDelete` (`model/user.go:991`) raises no fence, although the
comment of `IncrementUserAuthVersionWithTx` speaks of hard deletion: a copy that a failed
invalidation leaves, or a delayed fill brings back, is served until it expires, which the
register therefore allows. And the exceptions of
`NothingStuck` and `OwnAnswers` are what the playground really does: with a second
request under way the first stream can no longer be stopped, and writes into the
newer message; a stream without `[DONE]` and an answer without a choice leave a
message that waits until the page is loaded again.

## 5. Proofs

Seven modules of theorems about the program and one of lemmas about sums, for every
value of the constants under the assumption named in each module (natural-number
bounds, `NoRunner` and `NoTask` outside their sets, known kinds and sources, and,
where something is summed over actors, a finite set of them: a process never has
infinitely many requests). Each goes the same way: an invariant, that the initial
predicate implies it, that every step keeps it with one step of the proof per action,
and one theorem per property. Every invariant was checked by TLC on an instance
before it was proved.

* `FiniteSums`: the sum of a column `f` over a finite set, `SumOf(f, S)`, which is
  what `MapThenSumSet` computes in the models. The community module defines it by a
  recursion over subsets, and induction is not at hand (its theorem takes an operator).
  The lemmas therefore go by a smallest counterexample: proper inclusion is
  well-founded on the subsets of a finite set, a false sum has a smallest subset where
  it is false, and taking one element from that gives a smaller one. On it rest that
  the recursion has one solution (`IterateIsSums`), that any element may be taken first
  (`SumOfRemove`), and what the models use: a step that changes one actor changes the
  sum by what it changes of that actor (`SumOfUpdate`), a larger column has the larger
  sum (`SumOfMonotone`), a part of a column without negative entries is at most the
  whole (`SumOfPart`), entries that are zero do not count (`SumOfSupport`, `SumOfZero`).
* `SystemTasksProofs`: `TypeOK`, `OneActiveTask`, `ExclusiveExecution`,
  `SingleHandler`, and `Refinement`, that the runner implements the life cycle. The
  properties are not inductive: at most one active row needs `active_key` to mirror
  the status, and exclusive execution needs the executing runner to be the one that
  the pending -> running update named, since that update is the only writer of
  `locked_by`. The lock does not enter these arguments at all; it is what
  `SingleHandler` rests on. While nothing stalls and no call fails, whoever executes, or
  has claimed and is about to, holds the lock and it is live; and a lock that a sweep
  saw lapsed is not one that somebody has claimed since.
* `BillingSessionProofs`: all of the per-session properties. The invariant says for
  each place of a session how the ghosts follow from the fields the code keeps:
  equal while no call failed, at least as much afterwards. It needs, for instance,
  that an undone reserve is still counted in `consumed`, so that a later refund
  gives it back once. `NoOverdraft`, about all sessions of a wallet together, is the
  invariant `Ledgers`: each session has a share of what the checked debits took
  (`Checked`, the smaller of what it really took and its advance without the extra
  reserve), the wallet covers the sum of the shares, and a step of one session moves
  only its own share, upwards only by a debit that found enough. A subscription's
  total covers the whole of what its sessions took, since all its debits are checked.
* `SubscriptionQuotaProofs`: `TypeOK`, `UsedWithinTotal`, `NoDoubleRefund`,
  `RefundRestores`, `UsageExact`, `UsageCovered`. Until saving a record fails for the first time, what a request
  holds is fixed by its place; after it nothing is claimed, which is the finding. The
  two properties about usage are one invariant (`Usage`): the row is the sum of what
  its period's requests hold, short of it by no more than requests of earlier periods
  gave back into it. It is kept because a delta changes the row and one request's
  share by the same amount, a reset sets the row to zero and starts a period that
  nobody belongs to yet, and no request gives back more than it holds: in its own
  period the row has that much, and what a request of an earlier one takes from the
  row is counted in `lateBack`.
* `TaskBillingProofs`: `TypeOK`, `BilledOnce`, `FailureRefunded`, `SuccessCharged`,
  `NeverOverRefunded`, `RowMatchesCharge`. Until a query reopens a task, a row before its end was never
  billed and every copy of such a row carries the charge of the submission; so the
  one actor whose guarded write wins bills from the right quota, and no second
  biller can exist beside it. For `RowMatchesCharge`, nobody who has yet to write
  holds a copy of a row that has ended, so that the row is the biller's alone from
  the charge to the save of its quota.

* `UserCacheProofs`, the fence: `TypeOK` (with its bounds: the hash never ahead of the
  row, a fence by one version at most), `FloorIsCommitted`, and that it implements
  the register, for any number of requests and writers. The invariant has a part for
  each place where an old version may hide: the hash, a request, a writer. Unless a
  fence ran out too early, an old version in the hash or in a writer is below the
  fence or the floor, and one that a request has already checked belongs to a
  request that began before the change. At most one update is uncommitted at a
  time, and from the fence to the publication there is always a key that refuses.
* `UserCacheProofs`, the wallet: `QuotaTypeOK`, `Conserved`, and that row, hash and
  batch store implement the cell (`CellImplemented`), for any finite set of processes
  and any amounts. `Conserved` is inductive with the types: every action moves its
  two sides alike, a crash by the whole sum of what was held. The refinement needs
  `HashBelow`: until one of the named events, the hash shows no more than the wallet
  plus the sum, over the processes, of what a movement half done makes it run ahead
  (`Ahead`). A reservation that the hash grants while no movement is ahead
  (`HashAhead`) finds that sum at most zero, hence enough in the wallet; one that the
  row grants while nothing is outstanding finds a row that is the wallet
  (`NothingOutstanding`). It also needs that a process that only visits never gets
  past its fill (`Asking`).
* `LoginSessionProofs`: `TypeOK`, `RevokedIsOut`, `BoundedStaleness` and
  `RaceKeepsSession`, for any requests, any Redis instances and every bound. Whoever has
  an active snapshot of a version, in Redis or in hand, has a deadline at most TTL after the
  row ceased to have that version, and at most TTL after the revocation (`Window`); where a
  revocation was published, a denial stands until that time or it has come (`Closed`). So
  a late fill meets the denial or its own deadline. That the row's grace covers the moment
  its last rotation was written is what keeps a race from looking like a theft.
* `PlaygroundProofs`: `TypeOK`, `NothingStuck`, `OwnAnswers`, for any requests and any
  number of messages. While nothing has gone astray the last message waits for
  whatever request is under way, which makes that request unique, so that "the last
  message" is the right one to write to. What makes it inductive is about the screen:
  if the list shown is the current one, the page also knows whether a stream is under
  way, since a new message has a key no rendered one has; so no click that the
  buttons allow can meet a stream. Lemmas on lists (`AddSound`, `PrefixSound`,
  `RemoveSound`, `ReplaceSound`, `SanitizeSound`) carry the argument.

Only model-checked: everything temporal beyond safety (`TasksTerminate`,
`RefundEnds`, `TasksEnd`, `FenceHeals`), since fairness and ENABLED are out of the
prover's reach. The runs that expect a violation have nothing to prove: their
properties are false. All other properties of the runs are theorems.

## 6. Left out

Task types other than one do not share rows and are one instance each. Payload,
result and error texts, notifications, logs, statistics and agent shares of a charge
are not in the models; usage counters (`used_quota`, request counts) follow the same
calls and are not checked. Administrative operations on a subscription (reset,
deletion, change of plan) and the choice among several subscriptions are missing.
A token's balance has the same three places as the wallet (`model/token_cache.go`)
and is not modelled a second time. Of login sessions, the limits on creating them, their
list and the clean-up of old rows are left out, as is the comparison of an access token's
versions with what the look-up returned. Of the playground, the choice of model, group
and parameters and the parsing of `<think>` tags are left out, and so is that a message
without text has no buttons: `HasActions` allows a few clicks more than the page.
