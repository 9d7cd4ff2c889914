----------------------------- MODULE MCExecutor -----------------------------
(***************************************************************************)
(* Instances of Executor for TLC.  Queues of two slots and at most five    *)
(* tasks make both queues fill up, workers finish out of order, and the    *)
(* sentinels of join() queue behind work that is still waiting.            *)
(***************************************************************************)
EXTENDS Executor

AllTasks == Tasks
EvenTasks == {t \in Tasks : t % 2 = 0}
=============================================================================
