---------------------------- MODULE TaskContract ----------------------------
(***************************************************************************)
(* What a Task (include/isml/task/task.hpp) promises its holder, as the   *)
(* documentation of TaskBase::Status and TaskBase::CancellationResult      *)
(* states it. A task is created; it is either cancelled or started, never *)
(* both; a started task is resolved once (its result or its exception is  *)
(* available to getResult), and a cancelled task is rejected once (the    *)
(* "canceled task" exception is available). Nothing leaves a resolved or  *)
(* rejected task. The contract says what may happen, not that it will.    *)
(***************************************************************************)
CONSTANT Tasks

VARIABLE task    \* the phase of every task, as its holder sees it

Phases == {"Created", "Running", "Resolved", "Cancelled", "Rejected"}

Init == task = [t \in Tasks |-> "Created"]

\* One task moves from one phase to the next.
Move(t, from, to) ==
    /\ task[t] = from
    /\ task' = [task EXCEPT ![t] = to]

Next ==
    \E t \in Tasks :
        \/ Move(t, "Created", "Running")
        \/ Move(t, "Created", "Cancelled")
        \/ Move(t, "Running", "Resolved")
        \/ Move(t, "Cancelled", "Rejected")

Spec == Init /\ [][Next]_task
====
