----------------------------- MODULE QuotaCell -----------------------------
(***************************************************************************)
(* What callers of TryReserveUserQuota rely on: a wallet is one number,    *)
(* and a reservation takes from it only what is there.  "suspect" says     *)
(* that the cached balance may be above the real one, which ends that      *)
(* promise until the cache is filled anew.                                 *)
(***************************************************************************)
EXTENDS Integers

VARIABLES
    given,    \* what was credited, less what was charged without asking
    taken,    \* what reservations took
    suspect   \* the cached balance may be too high

vars == <<given, taken, suspect>>

Init == given \in Nat /\ taken = 0 /\ suspect = FALSE

\* TryReserveUserQuota "atomically checks and deducts".
Reserve ==
    /\ taken' > taken /\ given' = given
    /\ given - taken' >= 0 \/ suspect'
    /\ suspect' \in BOOLEAN

\* Credits, refunds, charges beyond a reservation, and reservations that could
\* not be recorded.
Move ==
    /\ given' \in Int /\ taken' = taken
    /\ suspect' \in BOOLEAN

Next == Reserve \/ Move

Spec == Init /\ [][Next]_vars
=============================================================================
