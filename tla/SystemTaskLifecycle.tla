------------------------ MODULE SystemTaskLifecycle ------------------------
(***************************************************************************)
(* What the background-task table promises to the rest of the program,     *)
(* for one task type: tasks go pending -> running -> succeeded or failed,  *)
(* each is handed to at most one runner, and there is at most one active   *)
(* (pending or running) task of the type at any time.                      *)
(***************************************************************************)
EXTENDS Naturals

CONSTANTS
    MaxTasks,   \* rows of the type ever created (bound of the model)
    Runners,    \* runner ids of the master nodes
    NoRunner    \* the empty locked_by

VARIABLES
    status,     \* status[t]: the task's status, "absent" before creation
    lockedBy    \* lockedBy[t]: the runner the task was handed to

vars == <<status, lockedBy>>

Ids == 1 .. MaxTasks
Active == {"pending", "running"}
Terminal == {"succeeded", "failed"}

Init ==
    /\ status = [t \in Ids |-> "absent"]
    /\ lockedBy = [t \in Ids |-> NoRunner]

Create(t) ==
    /\ status[t] = "absent"
    /\ \A u \in Ids : status[u] \notin Active
    /\ status' = [status EXCEPT ![t] = "pending"]
    /\ UNCHANGED lockedBy

Hand(t, r) ==
    /\ status[t] = "pending"
    /\ status' = [status EXCEPT ![t] = "running"]
    /\ lockedBy' = [lockedBy EXCEPT ![t] = r]

End(t, s) ==
    /\ status[t] = "running"
    /\ status' = [status EXCEPT ![t] = s]
    /\ UNCHANGED lockedBy

Next ==
    \E t \in Ids :
        \/ Create(t)
        \/ \E r \in Runners : Hand(t, r)
        \/ \E s \in Terminal : End(t, s)

Spec == Init /\ [][Next]_vars
=============================================================================
