---------------------------- MODULE AuthRegister ----------------------------
(***************************************************************************)
(* What the users of the authentication cache may rely on: one user's      *)
(* authentication version behaves like a register.  A query is answered    *)
(* with a version that was current at some moment since it began, a query  *)
(* that began after the user was deleted is never answered, and any query  *)
(* may be refused.  The promise ends when a pending fence runs out while   *)
(* somebody still holds what it was raised against ("late"), and when the  *)
(* user is erased from the table.                                          *)
(***************************************************************************)
EXTENDS Naturals

CONSTANT Readers

VARIABLES
    version,    \* the committed authentication version
    deletedAt,  \* the version at which the user was deleted, 0 before
    erased,     \* the row is gone
    late,       \* a fence ran out too early
    since,      \* the version when a query under way began, 0 without one
    answer      \* what the last query to end returned, 0 for an error or when
                \* another has begun since

vars == <<version, deletedAt, erased, late, since, answer>>

Init ==
    /\ version = 1 /\ deletedAt = 0 /\ erased = FALSE /\ late = FALSE
    /\ since = [r \in Readers |-> 0] /\ answer = 0

Change ==
    /\ ~erased
    /\ version' = version + 1
    /\ deletedAt' \in {deletedAt, IF deletedAt = 0 THEN version + 1 ELSE deletedAt}
    /\ erased' \in BOOLEAN
    /\ UNCHANGED <<late, since, answer>>

Ask(r) ==
    /\ since[r] = 0
    /\ since' = [since EXCEPT ![r] = version]
    /\ answer' = 0
    /\ UNCHANGED <<version, deletedAt, erased, late>>

Refuse(r) ==
    /\ since[r] # 0
    /\ since' = [since EXCEPT ![r] = 0]
    /\ answer' = 0
    /\ UNCHANGED <<version, deletedAt, erased, late>>

Reply(r) == \E v \in 1..version :
    /\ since[r] # 0
    /\ v >= since[r] \/ late \/ erased
    /\ deletedAt = 0 \/ v < deletedAt
    /\ since' = [since EXCEPT ![r] = 0]
    /\ answer' = v
    /\ UNCHANGED <<version, deletedAt, erased, late>>

RunOut ==
    /\ late' = TRUE
    /\ UNCHANGED <<version, deletedAt, erased, since, answer>>

Next == Change \/ RunOut \/ \E r \in Readers : Ask(r) \/ Refuse(r) \/ Reply(r)

Spec == Init /\ [][Next]_vars
=============================================================================
