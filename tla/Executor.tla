------------------------------ MODULE Executor ------------------------------
(***************************************************************************)
(* ExecutorCore (async_executor.hpp) with FunctionWorkerDriver             *)
(* (function_executor.hpp): a bounded task queue, a bounded result queue,  *)
(* worker threads, a submitter, and a reaper with a cache of out-of-order  *)
(* results.  One Worker is SingleWorkerFunctionExecutor, several are       *)
(* MultiWorkerFunctionExecutor.                                            *)
(*                                                                         *)
(* Tasks carry increasing request ids (Loader::next_executor_request_id)   *)
(* and a result stands for the id it answers.  A payload that throws ends  *)
(* the process (worker_loop rethrows), so payloads here return.            *)
(***************************************************************************)
EXTENDS Naturals, Sequences, FiniteSets

CONSTANTS
  NumTasks,             \* bound: how many tasks the submitter ever submits
  NeedsResult,          \* the tasks submitted with needs_result = true
  Workers,              \* the worker threads start() creates
  TaskQueueCapacity,
  ResultQueueCapacity,
  SameThread,           \* TRUE when one thread is both Submitter and Reaper
  MaxOutstanding        \* the caller's bound on tasks submitted, not reaped

Tasks == 0 .. NumTasks - 1

\* The stop sentinel (EXECUTOR_STOP_REQUEST_ID = -1): no task has this id.
STOP == NumTasks

NONE == NumTasks + 1

ASSUME ExecutorAssumption ==
  /\ NumTasks \in Nat
  /\ NeedsResult \subseteq Tasks
  /\ IsFiniteSet(Workers) /\ Workers # {}
  /\ TaskQueueCapacity \in Nat \ {0}
  /\ ResultQueueCapacity \in Nat \ {0}
  /\ SameThread \in BOOLEAN
  /\ MaxOutstanding \in Nat \ {0}

VARIABLES
  task_queue,          \* task ids and stop sentinels, oldest first
  result_queue,        \* ids of computed results, oldest first
  completed_results,   \* results the reaper popped while looking for another
  worker,              \* per thread: where it is, and its pending task
  submitter,           \* "idle", or "pushing" inside submit()
  next_id,             \* the next id to submit: 0 .. next_id-1 are submitted
  lifecycle,           \* "open", "stopping" inside join(), "joined"
  stops_left,          \* sentinels stop() has still to push
  reaper,              \* the reaper's call in progress, or op = "none"
  executed,            \* tasks whose payload has run
  reaped               \* tasks whose result was handed to the caller

vars == <<task_queue, result_queue, completed_results, worker, submitter,
          next_id, lifecycle, stops_left, reaper, executed, reaped>>

Submitted == 0 .. next_id - 1
Outstanding == next_id - Cardinality(reaped)
Idle == [op |-> "none", id |-> NONE]
Polling == [at |-> "polling", task |-> NONE]

\* When one thread plays both roles it is in at most one call at a time.
SubmitterFree == submitter = "idle" /\ (SameThread => reaper = Idle)
ReaperFree == reaper = Idle /\ (SameThread => submitter = "idle" /\ lifecycle # "stopping")

Init ==
  /\ task_queue = <<>>
  /\ result_queue = <<>>
  /\ completed_results = {}
  /\ worker = [w \in Workers |-> Polling]
  /\ submitter = "idle"
  /\ next_id = 0
  /\ lifecycle = "open"
  /\ stops_left = 0
  /\ reaper = Idle
  /\ executed = {}
  /\ reaped = {}
-----------------------------------------------------------------------------
(* Submitter and lifecycle side.                                           *)

\* Mutant: the bounded push overwrites one slot too many.
TaskRoomOffByOne == Len(task_queue) <= TaskQueueCapacity
TaskRoom == Len(task_queue) < TaskQueueCapacity

\* Mutant: the newest item overtakes the others.
EnqueueFront(item) == <<item>> \o task_queue
Enqueue(item) == Append(task_queue, item)

\* Mutant: the caller forgets to bound what it leaves unreaped.
MaySubmitUnbounded == lifecycle = "open"
MaySubmit == lifecycle = "open" /\ Outstanding < MaxOutstanding

\* submit() passes its checks and enters task_queue.push.
Submit ==
  /\ SubmitterFree
  /\ MaySubmit
  /\ next_id < NumTasks
  /\ submitter' = "pushing"
  /\ UNCHANGED <<task_queue, result_queue, completed_results, worker, next_id,
                 lifecycle, stops_left, reaper, executed, reaped>>

\* push() spins until the bounded queue has room.
PushTask ==
  /\ submitter = "pushing"
  /\ TaskRoom
  /\ task_queue' = Enqueue(next_id)
  /\ next_id' = next_id + 1
  /\ submitter' = "idle"
  /\ UNCHANGED <<result_queue, completed_results, worker, lifecycle,
                 stops_left, reaper, executed, reaped>>

\* Mutant: one sentinel whatever the number of workers.
OneSentinel == 1
SentinelCount == Cardinality(Workers)

\* join() calls stop(): no submit() is accepted any more.
Close ==
  /\ SubmitterFree
  /\ lifecycle = "open"
  /\ lifecycle' = "stopping"
  /\ stops_left' = SentinelCount
  /\ UNCHANGED <<task_queue, result_queue, completed_results, worker,
                 submitter, next_id, reaper, executed, reaped>>

PushStop ==
  /\ stops_left > 0
  /\ TaskRoom
  /\ task_queue' = Enqueue(STOP)
  /\ stops_left' = stops_left - 1
  /\ UNCHANGED <<result_queue, completed_results, worker, submitter, next_id,
                 lifecycle, reaper, executed, reaped>>

\* Mutant: join() returns after the first worker it meets.
SomeExited == \E w \in Workers : worker[w].at = "exited"
AllExited == \A w \in Workers : worker[w].at = "exited"

\* join() returns once every worker thread has left its loop.
JoinWorkers ==
  /\ lifecycle = "stopping"
  /\ stops_left = 0
  /\ AllExited
  /\ lifecycle' = "joined"
  /\ UNCHANGED <<task_queue, result_queue, completed_results, worker,
                 submitter, next_id, stops_left, reaper, executed, reaped>>
-----------------------------------------------------------------------------
(* Worker side: worker_loop with a driver that holds one task.             *)

\* try_pop yields a task (add_task, no room for another) or a sentinel.
Take(w) ==
  /\ worker[w].at = "polling"
  /\ task_queue # <<>>
  /\ task_queue' = Tail(task_queue)
  /\ worker' = [worker EXCEPT ![w] =
                  IF Head(task_queue) = STOP
                    THEN [at |-> "exited", task |-> NONE]
                    ELSE [at |-> "running", task |-> Head(task_queue)]]
  /\ UNCHANGED <<result_queue, completed_results, submitter, next_id,
                 lifecycle, stops_left, reaper, executed, reaped>>

\* Mutant: the driver does not forget the task it has run.
AfterPayloadKept(w) ==
  IF worker[w].task \in NeedsResult
    THEN [at |-> "pushing", task |-> worker[w].task]
    ELSE worker[w]
AfterPayload(w) ==
  IF worker[w].task \in NeedsResult
    THEN [at |-> "pushing", task |-> worker[w].task]
    ELSE Polling

\* process_tasks() runs the payload and returns at most one result.
Process(w) ==
  /\ worker[w].at = "running"
  /\ executed' = executed \cup {worker[w].task}
  /\ worker' = [worker EXCEPT ![w] = AfterPayload(w)]
  /\ UNCHANGED <<task_queue, result_queue, completed_results, submitter,
                 next_id, lifecycle, stops_left, reaper, reaped>>

\* result_queue.push spins until the bounded queue has room.
PushResult(w) ==
  /\ worker[w].at = "pushing"
  /\ Len(result_queue) < ResultQueueCapacity
  /\ result_queue' = Append(result_queue, worker[w].task)
  /\ worker' = [worker EXCEPT ![w] = Polling]
  /\ UNCHANGED <<task_queue, completed_results, submitter, next_id,
                 lifecycle, stops_left, reaper, executed, reaped>>
-----------------------------------------------------------------------------
(* Reaper side.  reap() and try_reap() take the result out; ready() and    *)
(* wait() leave it in the cache.                                           *)

Takes(op) == op \in {"reap", "try_reap"}
Blocks(op) == op \in {"reap", "wait"}

\* Mutant: reap() of a cached result leaves it in completed_results.
CacheKeeping(t) == completed_results
CacheWithout(t) == completed_results \ {t}

\* Mutant: results of other requests are dropped, not cached.
CacheDropping(r) == completed_results
CacheWith(r) == completed_results \cup {r}

\* The result is already cached: reap and try_reap take it at once.
ReapCached(t) ==
  /\ ReaperFree
  /\ t \in completed_results
  /\ completed_results' = CacheWithout(t)
  /\ reaped' = reaped \cup {t}
  /\ UNCHANGED <<task_queue, result_queue, worker, submitter, next_id,
                 lifecycle, stops_left, reaper, executed>>

\* Otherwise the call goes on to drain result_queue looking for t.
BeginReap(op, t) ==
  /\ ReaperFree
  /\ t \in (Submitted \cap NeedsResult) \ (reaped \cup completed_results)
  /\ reaper' = [op |-> op, id |-> t]
  /\ UNCHANGED <<task_queue, result_queue, completed_results, worker,
                 submitter, next_id, lifecycle, stops_left, executed, reaped>>

\* cache_until_ready / take_until_ready: one try_pop that yields a result.
PopResult ==
  /\ reaper # Idle
  /\ result_queue # <<>>
  /\ result_queue' = Tail(result_queue)
  /\ LET r == Head(result_queue)
         found == r = reaper.id
     IN /\ reaper' = IF found THEN Idle ELSE reaper
        /\ IF found /\ Takes(reaper.op)
             THEN reaped' = reaped \cup {r} /\ UNCHANGED completed_results
             ELSE completed_results' = CacheWith(r) /\ UNCHANGED reaped
  /\ UNCHANGED <<task_queue, worker, submitter, next_id, lifecycle,
                 stops_left, executed>>

\* The same try_pop on an empty queue: try_reap() and ready() return false.
GiveUp ==
  /\ reaper # Idle
  /\ ~Blocks(reaper.op)
  /\ result_queue = <<>>
  /\ reaper' = Idle
  /\ UNCHANGED <<task_queue, result_queue, completed_results, worker,
                 submitter, next_id, lifecycle, stops_left, executed, reaped>>
-----------------------------------------------------------------------------
\* Joined and every result handed out: nothing is left to do.
Finished ==
  /\ lifecycle = "joined"
  /\ reaper = Idle
  /\ reaped = Submitted \cap NeedsResult
  /\ UNCHANGED vars

WorkerStep(w) == Take(w) \/ Process(w) \/ PushResult(w)

Reap(t) ==
  \/ ReapCached(t)
  \/ \E op \in {"reap", "try_reap", "ready", "wait"} : BeginReap(op, t)

Next ==
  \/ Submit \/ PushTask \/ Close \/ PushStop \/ JoinWorkers
  \/ \E w \in Workers : WorkerStep(w)
  \/ \E t \in Tasks : Reap(t)
  \/ PopResult \/ GiveUp
  \/ Finished

\* A call in progress goes on and every worker thread is scheduled.  Nothing
\* obliges the caller to submit, to reap or to join.
Fairness ==
  /\ WF_vars(PushTask)
  /\ WF_vars(PushStop)
  /\ WF_vars(JoinWorkers)
  /\ WF_vars(PopResult)
  /\ WF_vars(GiveUp)
  /\ \A w \in Workers : WF_vars(WorkerStep(w))

Spec == Init /\ [][Next]_vars /\ Fairness

\* "callers must keep a Reaper running": a caller that goes on reaping.
LiveReaper == WF_vars(\E t \in Tasks : ReapCached(t) \/ BeginReap("reap", t))

SpecWithReaper == Spec /\ LiveReaper
-----------------------------------------------------------------------------
(* What a correct executor guarantees.                                     *)

Held(place) == {worker[w].task : w \in {v \in Workers : worker[v].at = place}}
InQueue(q) == {q[i] : i \in 1 .. Len(q)}

\* Every variable keeps its type, and neither bounded queue overflows.
TypeOK ==
  /\ task_queue \in Seq(Tasks \cup {STOP})
  /\ Len(task_queue) <= TaskQueueCapacity
  /\ result_queue \in Seq(Tasks)
  /\ Len(result_queue) <= ResultQueueCapacity
  /\ completed_results \subseteq Tasks
  /\ worker \in [Workers -> [at : {"polling", "running", "pushing", "exited"},
                             task : Tasks \cup {NONE}]]
  /\ submitter \in {"idle", "pushing"}
  /\ next_id \in 0 .. NumTasks
  /\ lifecycle \in {"open", "stopping", "joined"}
  /\ stops_left \in Nat
  /\ reaper \in [op : {"none", "reap", "try_reap", "ready", "wait"},
                 id : Tasks \cup {NONE}]
  /\ executed \subseteq Tasks
  /\ reaped \subseteq Tasks

\* A task that has run is not waiting to run again.
RunsOnce == executed \cap (InQueue(task_queue) \cup Held("running")) = {}

\* The result of an executed task exists exactly once on its way from the
\* worker over result_queue and the reaper's cache to the caller, however
\* completions and reaps are ordered: none is lost, none is delivered twice.
ResultInOnePlace ==
  LET places == <<Held("pushing"), InQueue(result_queue), completed_results, reaped>>
  IN /\ \A i, j \in 1 .. 4 : i # j => places[i] \cap places[j] = {}
     /\ UNION {places[i] : i \in 1 .. 4} = executed \cap NeedsResult

\* join() does not return before every submitted task has run: the sentinels
\* travel behind the tasks in the same queue, one for each worker.
JoinDrains == lifecycle = "joined" => Submitted \subseteq executed

\* With one worker tasks run in submission order, which is what lets the
\* loader's cuda and wait threads complete chunks in order.
SingleWorkerInOrder ==
  Cardinality(Workers) = 1 => \A t \in executed : 0 .. t \subseteq executed

\* Every submitted task runs: submit() and the result queue cannot block each
\* other for ever when someone reaps, or the caller bounds what is outstanding.
EveryTaskRuns == \A t \in Tasks : t \in Submitted ~> t \in executed

\* A blocking reap() or wait() returns, whatever order results arrive in.
ReapReturns == reaper # Idle ~> reaper = Idle

\* join() returns.
JoinReturns == lifecycle = "stopping" ~> lifecycle = "joined"

\* The executor implements the service it promises to its callers.
Service == INSTANCE TaskService WITH
  status <- [t \in Tasks |->
               CASE t \in reaped -> "delivered"
                 [] t \in executed \ reaped -> "executed"
                 [] t \in Submitted \ (executed \cup reaped) -> "submitted"
                 [] OTHER -> "new"]

ImplementsService == Service!Spec
=============================================================================
