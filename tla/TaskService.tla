----------------------------- MODULE TaskService -----------------------------
(***************************************************************************)
(* What an executor of async_executor.hpp promises to its callers, with no *)
(* queue, thread or cache in sight: a task that was submitted is executed  *)
(* once, its result is handed out once, and join() returns only when       *)
(* nothing that was submitted is left to execute.                          *)
(***************************************************************************)

CONSTANT Tasks

VARIABLES
  status,     \* how far each task has come
  lifecycle   \* "open", then "stopping" once stop() was called, then "joined"

vars == <<status, lifecycle>>

Init ==
  /\ status = [t \in Tasks |-> "new"]
  /\ lifecycle = "open"

Advance(t, from, to) ==
  /\ status[t] = from
  /\ status' = [status EXCEPT ![t] = to]
  /\ UNCHANGED lifecycle

Submit(t)  == lifecycle = "open" /\ Advance(t, "new", "submitted")
Execute(t) == Advance(t, "submitted", "executed")
Deliver(t) == Advance(t, "executed", "delivered")

Close ==
  /\ lifecycle = "open"
  /\ lifecycle' = "stopping"
  /\ UNCHANGED status

Join ==
  /\ lifecycle = "stopping"
  /\ \A t \in Tasks : status[t] # "submitted"
  /\ lifecycle' = "joined"
  /\ UNCHANGED status

Next ==
  \/ \E t \in Tasks : Submit(t) \/ Execute(t) \/ Deliver(t)
  \/ Close
  \/ Join

Spec == Init /\ [][Next]_vars
==============================================================================
