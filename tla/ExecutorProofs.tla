--------------------------- MODULE ExecutorProofs ---------------------------
(***************************************************************************)
(* Theorems about Executor, for any number of tasks and workers and any    *)
(* capacity of the queues: its safety properties, and that it implements   *)
(* TaskService.                                                            *)
(***************************************************************************)
EXTENDS Executor, TLAPS, FiniteSetTheorems, SequenceTheorems

(* The inductive invariant, in named parts.                                *)

\* Ids increase along the queue, and sentinels come last.
InOrder(q) ==
  \A i, j \in 1 .. Len(q) : i < j /\ q[j] # STOP => q[i] < q[j]

NoDuplicates(q) == \A i, j \in 1 .. Len(q) : i # j => q[i] # q[j]

QueueOfSubmitted ==
  /\ InOrder(task_queue)
  /\ \A u \in InQueue(task_queue) : u # STOP => u < next_id

\* What has been taken off the queue is older than what is in it.
TakenInOrder ==
  /\ \A t \in executed : t < next_id /\ \A u \in InQueue(task_queue) : t < u
  /\ \A w \in Workers : worker[w].at \in {"running", "pushing"} =>
       /\ worker[w].task \in Tasks
       /\ worker[w].task < next_id
       /\ \A u \in InQueue(task_queue) : worker[w].task < u

NoneLost ==
  \A t \in Submitted :
    \/ t \in InQueue(task_queue)
    \/ \E w \in Workers : worker[w] = [at |-> "running", task |-> t]
    \/ t \in executed

WorkersApart ==
  /\ \A w \in Workers : worker[w].at = "running" => worker[w].task \notin executed
  /\ \A v, w \in Workers :
       /\ v # w
       /\ worker[v].at \in {"running", "pushing"}
       /\ worker[w].at \in {"running", "pushing"}
       => worker[v].task # worker[w].task

ResultsApart ==
  /\ NoDuplicates(result_queue)
  /\ InQueue(result_queue) \subseteq executed \cap NeedsResult
  /\ completed_results \subseteq executed \cap NeedsResult
  /\ reaped \subseteq executed \cap NeedsResult
  /\ InQueue(result_queue) \cap completed_results = {}
  /\ InQueue(result_queue) \cap reaped = {}
  /\ completed_results \cap reaped = {}
  /\ \A w \in Workers : worker[w].at = "pushing" =>
       /\ worker[w].task \in executed \cap NeedsResult
       /\ worker[w].task \notin InQueue(result_queue) \cup completed_results \cup reaped

NoResultLost ==
  \A t \in executed \cap NeedsResult :
    \/ \E w \in Workers : worker[w] = [at |-> "pushing", task |-> t]
    \/ t \in InQueue(result_queue) \cup completed_results \cup reaped

\* Sentinels are pushed after the last submit(), and a worker that has met one
\* has left no task behind it in the queue.
StopsLast ==
  /\ submitter = "pushing" => lifecycle = "open" /\ next_id < NumTasks
  /\ stops_left > 0 => lifecycle = "stopping"
  /\ STOP \in InQueue(task_queue) => lifecycle # "open"
  /\ \A w \in Workers : worker[w].at = "exited" =>
       lifecycle # "open" /\ InQueue(task_queue) \subseteq {STOP}
  /\ lifecycle = "joined" => AllExited

OneByOne ==
  Cardinality(Workers) = 1 =>
    \A w \in Workers, t \in executed : worker[w].at = "running" => t < worker[w].task

IInv ==
  /\ TypeOK /\ QueueOfSubmitted /\ TakenInOrder /\ NoneLost /\ WorkersApart
  /\ ResultsApart /\ NoResultLost /\ StopsLast /\ OneByOne
-----------------------------------------------------------------------------
(* Queues.                                                                 *)

LEMMA QueueElements ==
  ASSUME NEW S, NEW q \in Seq(S)
  PROVE  InQueue(q) \subseteq S
BY DEF InQueue

LEMMA AppendQueue ==
  ASSUME NEW S, NEW q \in Seq(S), NEW x \in S
  PROVE  /\ Append(q, x) \in Seq(S)
         /\ Len(Append(q, x)) = Len(q) + 1
         /\ InQueue(Append(q, x)) = InQueue(q) \cup {x}
<1>1. /\ Append(q, x) \in Seq(S)
      /\ Len(Append(q, x)) = Len(q) + 1
      /\ \A i \in 1 .. Len(q) : Append(q, x)[i] = q[i]
      /\ Append(q, x)[Len(q) + 1] = x
  OBVIOUS
<1>2. Len(q) \in Nat
  OBVIOUS
<1>3. InQueue(q) \cup {x} \subseteq InQueue(Append(q, x))
  BY <1>1, <1>2 DEF InQueue
<1>4. InQueue(Append(q, x)) \subseteq InQueue(q) \cup {x}
  <2> SUFFICES ASSUME NEW i \in 1 .. Len(q) + 1
               PROVE  Append(q, x)[i] \in InQueue(q) \cup {x}
    BY <1>1 DEF InQueue
  <2>1. i \in 1 .. Len(q) \/ i = Len(q) + 1
    BY <1>2
  <2> QED
    BY <1>1, <2>1 DEF InQueue
<1> QED
  BY <1>1, <1>3, <1>4

LEMMA TailQueue ==
  ASSUME NEW S, NEW q \in Seq(S), q # <<>>
  PROVE  /\ Tail(q) \in Seq(S)
         /\ Head(q) \in S
         /\ Len(Tail(q)) = Len(q) - 1
         /\ Len(q) \in Nat \ {0}
         /\ Head(q) = q[1]
         /\ \A i \in 1 .. Len(Tail(q)) : i + 1 \in 2 .. Len(q) /\ Tail(q)[i] = q[i + 1]
         /\ InQueue(q) = InQueue(Tail(q)) \cup {Head(q)}
<1>1. /\ Tail(q) \in Seq(S)
      /\ Head(q) \in S
      /\ Len(Tail(q)) = Len(q) - 1
      /\ Len(q) \in Nat \ {0}
      /\ Head(q) = q[1]
  OBVIOUS
<1>2. \A i \in 1 .. Len(Tail(q)) : i + 1 \in 2 .. Len(q) /\ Tail(q)[i] = q[i + 1]
  BY <1>1
<1>3. InQueue(Tail(q)) \cup {Head(q)} \subseteq InQueue(q)
  BY <1>1, <1>2 DEF InQueue
<1>4. InQueue(q) \subseteq InQueue(Tail(q)) \cup {Head(q)}
  <2> SUFFICES ASSUME NEW i \in 1 .. Len(q)
               PROVE  q[i] \in InQueue(Tail(q)) \cup {Head(q)}
    BY DEF InQueue
  <2>1. CASE i = 1
    BY <1>1, <2>1
  <2>2. CASE i # 1
    <3>1. i - 1 \in 1 .. Len(Tail(q)) /\ Tail(q)[i - 1] = q[(i - 1) + 1]
      BY <1>1, <1>2, <2>2
    <3>2. (i - 1) + 1 = i
      OBVIOUS
    <3> QED
      BY <3>1, <3>2 DEF InQueue
  <2> QED
    BY <2>1, <2>2
<1> QED
  BY <1>1, <1>2, <1>3, <1>4

\* The oldest item of an ordered queue precedes the others, unless they are
\* sentinels.
LEMMA TailInOrder ==
  ASSUME NEW q \in Seq(Tasks \cup {STOP}), q # <<>>, InOrder(q)
  PROVE  /\ InOrder(Tail(q))
         /\ \A u \in InQueue(Tail(q)) : u # STOP => Head(q) < u
<1>1. InOrder(Tail(q))
  BY TailQueue DEF InOrder
<1>2. \A u \in InQueue(Tail(q)) : u # STOP => Head(q) < u
  BY TailQueue DEF InOrder, InQueue
<1> QED
  BY <1>1, <1>2

LEMMA AppendInOrder ==
  ASSUME NEW q \in Seq(Tasks \cup {STOP}), NEW x \in Tasks \cup {STOP}, InOrder(q),
         x # STOP => \A u \in InQueue(q) : u < x
  PROVE  InOrder(Append(q, x))
<1>1. /\ Len(Append(q, x)) = Len(q) + 1 /\ Len(q) \in Nat
      /\ \A i \in 1 .. Len(q) : Append(q, x)[i] = q[i]
      /\ Append(q, x)[Len(q) + 1] = x
  OBVIOUS
<1> SUFFICES ASSUME NEW i \in 1 .. Len(q) + 1, NEW j \in 1 .. Len(q) + 1,
                    i < j, Append(q, x)[j] # STOP
             PROVE  Append(q, x)[i] < Append(q, x)[j]
  BY <1>1 DEF InOrder
<1>2. i \in 1 .. Len(q)
  BY <1>1
<1>3. CASE j \in 1 .. Len(q)
  BY <1>1, <1>2, <1>3 DEF InOrder
<1>4. CASE j = Len(q) + 1
  BY <1>1, <1>2, <1>4 DEF InQueue
<1> QED
  BY <1>1, <1>3, <1>4

LEMMA TailNoDuplicates ==
  ASSUME NEW S, NEW q \in Seq(S), q # <<>>, NoDuplicates(q)
  PROVE  NoDuplicates(Tail(q)) /\ Head(q) \notin InQueue(Tail(q))
<1>1. NoDuplicates(Tail(q))
  BY TailQueue DEF NoDuplicates
<1>2. Head(q) \notin InQueue(Tail(q))
  BY TailQueue DEF NoDuplicates, InQueue
<1> QED
  BY <1>1, <1>2

LEMMA AppendNoDuplicates ==
  ASSUME NEW S, NEW q \in Seq(S), NEW x \in S, NoDuplicates(q), x \notin InQueue(q)
  PROVE  NoDuplicates(Append(q, x))
<1>1. /\ Len(Append(q, x)) = Len(q) + 1 /\ Len(q) \in Nat
      /\ \A i \in 1 .. Len(q) : Append(q, x)[i] = q[i]
      /\ Append(q, x)[Len(q) + 1] = x
  OBVIOUS
<1>2. \A i \in 1 .. Len(q) : q[i] # x
  BY DEF InQueue
<1>3. \A i \in 1 .. Len(q) + 1 : i \in 1 .. Len(q) \/ i = Len(q) + 1
  BY <1>1
<1> QED
  BY <1>1, <1>2, <1>3 DEF NoDuplicates
-----------------------------------------------------------------------------
(* The invariant is inductive.                                             *)

LEMMA Ids ==
  /\ NumTasks \in Nat /\ STOP \in Nat /\ NONE \in Nat
  /\ Tasks \subseteq Nat
  /\ STOP \notin Tasks /\ NONE \notin Tasks /\ NONE # STOP
  /\ \A t \in Tasks : t < STOP
BY ExecutorAssumption DEF Tasks, STOP, NONE

LEMMA InitIInv == Init => IInv
<1> SUFFICES ASSUME Init PROVE IInv
  OBVIOUS
<1>1. TypeOK
  BY Ids, ExecutorAssumption DEF Init, TypeOK, Idle, Polling
<1>2. InQueue(task_queue) = {} /\ InQueue(result_queue) = {}
  BY DEF Init, InQueue
<1>3. QueueOfSubmitted
  BY <1>2 DEF Init, QueueOfSubmitted, InOrder
<1>4. TakenInOrder /\ WorkersApart /\ OneByOne
  BY DEF Init, TakenInOrder, WorkersApart, OneByOne, Polling
<1>5. NoneLost
  BY DEF Init, NoneLost, Submitted
<1>6. ResultsApart /\ NoResultLost
  BY <1>2 DEF Init, ResultsApart, NoResultLost, NoDuplicates, Polling
<1>7. StopsLast
  BY <1>2 DEF Init, StopsLast, Polling
<1> QED
  BY <1>1, <1>3, <1>4, <1>5, <1>6, <1>7 DEF IInv

\* Steps that move no task and no result.
LEMMA QuietStep ==
  ASSUME IInv, TypeOK', StopsLast',
         UNCHANGED <<task_queue, result_queue, completed_results, worker, next_id,
                     executed, reaped>>
  PROVE  IInv'
<1>1. QueueOfSubmitted'
  BY DEF IInv, QueueOfSubmitted, InOrder, InQueue
<1>2. TakenInOrder' /\ WorkersApart' /\ OneByOne'
  BY DEF IInv, TakenInOrder, WorkersApart, OneByOne, InQueue
<1>3. NoneLost'
  BY DEF IInv, NoneLost, Submitted, InQueue
<1>4. ResultsApart' /\ NoResultLost'
  BY DEF IInv, ResultsApart, NoResultLost, NoDuplicates, InQueue
<1> QED
  BY <1>1, <1>2, <1>3, <1>4 DEF IInv

LEMMA SubmitStep ==
  ASSUME IInv, Submit
  PROVE  IInv'
<1>1. TypeOK'
  BY DEF IInv, TypeOK, Submit
<1>2. StopsLast'
  BY DEF IInv, StopsLast, Submit, MaySubmit, AllExited, InQueue
<1> QED
  BY <1>1, <1>2, QuietStep DEF Submit

LEMMA CloseStep ==
  ASSUME IInv, Close
  PROVE  IInv'
<1>1. SentinelCount \in Nat
  BY ExecutorAssumption, FS_CardinalityType DEF SentinelCount
<1>2. TypeOK'
  BY <1>1 DEF IInv, TypeOK, Close
<1>3. StopsLast'
  BY DEF IInv, StopsLast, Close, SubmitterFree, AllExited, InQueue
<1> QED
  BY <1>2, <1>3, QuietStep DEF Close

LEMMA JoinWorkersStep ==
  ASSUME IInv, JoinWorkers
  PROVE  IInv'
<1>1. TypeOK'
  BY DEF IInv, TypeOK, JoinWorkers
<1>2. StopsLast'
  <2>1. stops_left' = 0 /\ ~(0 > 0)
    BY DEF JoinWorkers
  <2>2. submitter' # "pushing" /\ lifecycle' = "joined" /\ AllExited'
    BY DEF IInv, StopsLast, JoinWorkers, AllExited
  <2>3. InQueue(task_queue)' = InQueue(task_queue) /\ worker' = worker
    BY DEF JoinWorkers, InQueue
  <2> QED
    BY <2>1, <2>2, <2>3 DEF IInv, StopsLast
<1> QED
  BY <1>1, <1>2, QuietStep DEF JoinWorkers

LEMMA ReaperStep ==
  ASSUME IInv,
         \/ GiveUp
         \/ \E t \in Tasks, op \in {"reap", "try_reap", "ready", "wait"} : BeginReap(op, t)
  PROVE  IInv'
<1>1. TypeOK'
  BY DEF IInv, TypeOK, GiveUp, BeginReap, Idle
<1>2. /\ UNCHANGED <<task_queue, result_queue, completed_results, worker, next_id,
                     executed, reaped>>
      /\ UNCHANGED <<submitter, lifecycle, stops_left>>
  BY DEF GiveUp, BeginReap
<1>3. StopsLast'
  BY <1>2 DEF IInv, StopsLast, AllExited, InQueue
<1> QED
  BY <1>1, <1>2, <1>3, QuietStep

\* Pushing leaves workers and results alone.
LEMMA PushFrame ==
  ASSUME IInv,
         UNCHANGED <<result_queue, completed_results, worker, executed, reaped>>
  PROVE  WorkersApart' /\ ResultsApart' /\ NoResultLost' /\ OneByOne'
<1>1. WorkersApart' /\ OneByOne'
  BY DEF IInv, WorkersApart, OneByOne
<1>2. ResultsApart' /\ NoResultLost'
  BY DEF IInv, ResultsApart, NoResultLost, NoDuplicates, InQueue
<1> QED
  BY <1>1, <1>2

LEMMA PushTaskStep ==
  ASSUME IInv, PushTask
  PROVE  IInv'
<1>1. /\ task_queue \in Seq(Tasks \cup {STOP}) /\ next_id \in Nat
      /\ task_queue' = Append(task_queue, next_id) /\ next_id' = next_id + 1
      /\ submitter' = "idle" /\ TaskRoom
      /\ UNCHANGED <<result_queue, completed_results, worker, lifecycle, stops_left,
                     reaper, executed, reaped>>
  BY Ids DEF IInv, TypeOK, PushTask, Enqueue
<1>2. lifecycle = "open" /\ next_id \in Tasks /\ next_id # STOP /\ next_id + 1 \in 0 .. NumTasks
  BY <1>1, Ids DEF IInv, StopsLast, PushTask, Tasks
<1>3. /\ task_queue' \in Seq(Tasks \cup {STOP})
      /\ Len(task_queue') = Len(task_queue) + 1
      /\ InQueue(task_queue') = InQueue(task_queue) \cup {next_id}
  <2>1. next_id \in Tasks \cup {STOP}
    BY <1>2
  <2> QED
    BY <1>1, <2>1, AppendQueue
<1>4. STOP \notin InQueue(task_queue) /\ \A w \in Workers : worker[w].at # "exited"
  BY <1>2 DEF IInv, StopsLast
<1>5. TypeOK'
  <2>1. Len(task_queue') <= TaskQueueCapacity
    BY <1>1, <1>3, ExecutorAssumption DEF TaskRoom
  <2> QED
    BY <1>1, <1>2, <1>3, <2>1 DEF IInv, TypeOK
<1>6. QueueOfSubmitted'
  <2>1. \A u \in InQueue(task_queue) : u < next_id
    BY <1>4 DEF IInv, QueueOfSubmitted
  <2>2. InOrder(task_queue')
    BY <1>1, <1>2, <2>1, AppendInOrder DEF IInv, QueueOfSubmitted
  <2>3. \A u \in InQueue(task_queue') : u # STOP => u < next_id'
    <3> SUFFICES ASSUME NEW u \in InQueue(task_queue') PROVE u < next_id + 1
      BY <1>1
    <3>1. u \in Tasks \cup {STOP}
      BY <1>3, QueueElements
    <3>2. u \in Nat
      BY <3>1, Ids
    <3> QED
      BY <1>1, <1>3, <2>1, <3>2
  <2> QED
    BY <2>2, <2>3 DEF QueueOfSubmitted
<1>7. TakenInOrder'
  <2>1. \A t \in Tasks : t < next_id => t < next_id + 1
    BY <1>1, Ids
  <2>2. executed \subseteq Tasks
    BY DEF IInv, TypeOK
  <2> QED
    BY <1>1, <1>3, <2>1, <2>2 DEF IInv, TakenInOrder
<1>8. NoneLost'
  <2>1. Submitted' = Submitted \cup {next_id}
    BY <1>1 DEF Submitted
  <2> QED
    BY <1>1, <1>3, <2>1 DEF IInv, NoneLost
<1>9. StopsLast'
  BY <1>1, <1>2, <1>3, <1>4, Ids DEF IInv, StopsLast, AllExited
<1> QED
  BY <1>1, <1>5, <1>6, <1>7, <1>8, <1>9, PushFrame DEF IInv

LEMMA PushStopStep ==
  ASSUME IInv, PushStop
  PROVE  IInv'
<1>1. /\ task_queue \in Seq(Tasks \cup {STOP}) /\ stops_left \in Nat
      /\ task_queue' = Append(task_queue, STOP) /\ stops_left' = stops_left - 1
      /\ stops_left > 0 /\ TaskRoom
      /\ UNCHANGED <<result_queue, completed_results, worker, submitter, next_id, lifecycle,
                     reaper, executed, reaped>>
  BY DEF IInv, TypeOK, PushStop, Enqueue
<1>2. lifecycle = "stopping"
  BY <1>1 DEF IInv, StopsLast
<1>3. /\ task_queue' \in Seq(Tasks \cup {STOP})
      /\ Len(task_queue') = Len(task_queue) + 1
      /\ InQueue(task_queue') = InQueue(task_queue) \cup {STOP}
  BY <1>1, AppendQueue
<1>4. TypeOK'
  <2>1. Len(task_queue') <= TaskQueueCapacity
    BY <1>1, <1>3, ExecutorAssumption DEF TaskRoom
  <2>2. stops_left' \in Nat
    BY <1>1
  <2> QED
    BY <1>1, <1>3, <2>1, <2>2 DEF IInv, TypeOK
<1>5. QueueOfSubmitted'
  <2>1. InOrder(task_queue')
    BY <1>1, AppendInOrder DEF IInv, QueueOfSubmitted
  <2> QED
    BY <1>1, <1>3, <2>1 DEF IInv, QueueOfSubmitted
<1>6. TakenInOrder'
  <2>1. executed \subseteq Tasks
    BY DEF IInv, TypeOK
  <2> QED
    BY <1>1, <1>3, <2>1, Ids DEF IInv, TakenInOrder
<1>7. NoneLost'
  BY <1>1, <1>3 DEF IInv, NoneLost, Submitted
<1>8. StopsLast'
  BY <1>1, <1>2, <1>3 DEF IInv, StopsLast, AllExited
<1> QED
  BY <1>1, <1>4, <1>5, <1>6, <1>7, <1>8, PushFrame DEF IInv

\* A result stays with its worker while the worker does not push it.
LEMMA ResultKept ==
  ASSUME NoResultLost,
         UNCHANGED <<result_queue, completed_results, executed, reaped>>,
         \A v \in Workers : worker[v].at = "pushing" => worker'[v] = worker[v]
  PROVE  NoResultLost'
<1>1. InQueue(result_queue)' = InQueue(result_queue)
  BY DEF InQueue
<1> SUFFICES ASSUME NEW t \in executed \cap NeedsResult,
                    t \notin InQueue(result_queue) \cup completed_results \cup reaped
             PROVE  \E w \in Workers : worker'[w] = [at |-> "pushing", task |-> t]
  BY <1>1 DEF NoResultLost
<1>2. PICK w \in Workers : worker[w] = [at |-> "pushing", task |-> t]
  BY DEF NoResultLost
<1>3. worker'[w] = worker[w]
  BY <1>2
<1> QED
  BY <1>2, <1>3

LEMMA TakeStep ==
  ASSUME IInv, NEW w \in Workers, Take(w)
  PROVE  IInv'
<1> DEFINE h == Head(task_queue)
<1>1. /\ task_queue \in Seq(Tasks \cup {STOP}) /\ task_queue # <<>>
      /\ worker[w].at = "polling"
      /\ task_queue' = Tail(task_queue)
      /\ worker' = [worker EXCEPT ![w] = IF h = STOP
                                           THEN [at |-> "exited", task |-> NONE]
                                           ELSE [at |-> "running", task |-> h]]
      /\ UNCHANGED <<result_queue, completed_results, submitter, next_id, lifecycle,
                     stops_left, reaper, executed, reaped>>
  BY DEF IInv, TypeOK, Take
<1>2. /\ task_queue' \in Seq(Tasks \cup {STOP})
      /\ h \in Tasks \cup {STOP}
      /\ Len(task_queue') = Len(task_queue) - 1 /\ Len(task_queue) \in Nat
      /\ InQueue(task_queue) = InQueue(task_queue') \cup {h}
  BY <1>1, TailQueue
<1>3. /\ InOrder(task_queue')
      /\ \A u \in InQueue(task_queue') : u # STOP => h < u
  BY <1>1, TailInOrder DEF IInv, QueueOfSubmitted
<1>4. /\ \A v \in Workers \ {w} : worker'[v] = worker[v]
      /\ worker'[w] = IF h = STOP THEN [at |-> "exited", task |-> NONE]
                                  ELSE [at |-> "running", task |-> h]
  BY <1>1 DEF IInv, TypeOK
<1>5. h # STOP => /\ h \in Tasks /\ h < next_id
                  /\ \A u \in InQueue(task_queue') : h < u
                  /\ \A t \in executed : t < h
                  /\ \A v \in Workers : worker[v].at \in {"running", "pushing"} => worker[v].task < h
  <2> SUFFICES ASSUME h # STOP
               PROVE  /\ h \in Tasks /\ h < next_id
                      /\ \A u \in InQueue(task_queue') : h < u
                      /\ \A t \in executed : t < h
                      /\ \A v \in Workers : worker[v].at \in {"running", "pushing"} => worker[v].task < h
    OBVIOUS
  <2>1. h \in Tasks /\ h \in InQueue(task_queue)
    BY <1>2
  <2>2. h < STOP
    BY <2>1, Ids
  <2> QED
    BY <1>3, <2>1, <2>2 DEF IInv, QueueOfSubmitted, TakenInOrder
<1>6. TypeOK'
  <2>1. Len(task_queue') <= TaskQueueCapacity
    BY <1>2, ExecutorAssumption DEF IInv, TypeOK
  <2>2. worker' \in [Workers -> [at : {"polling", "running", "pushing", "exited"},
                                 task : Tasks \cup {NONE}]]
    BY <1>1, <1>2 DEF IInv, TypeOK
  <2> QED
    BY <1>1, <1>2, <2>1, <2>2 DEF IInv, TypeOK
<1>7. QueueOfSubmitted'
  BY <1>1, <1>2, <1>3 DEF IInv, QueueOfSubmitted
<1>8. TakenInOrder'
  <2>1. \A t \in executed' : t < next_id' /\ \A u \in InQueue(task_queue)' : t < u
    BY <1>1, <1>2 DEF IInv, TakenInOrder
  <2>2. ASSUME NEW v \in Workers, worker'[v].at \in {"running", "pushing"}
        PROVE  /\ worker'[v].task \in Tasks
               /\ worker'[v].task < next_id'
               /\ \A u \in InQueue(task_queue)' : worker'[v].task < u
    <3>1. CASE v = w
      BY <1>1, <1>4, <1>5, <2>2, <3>1
    <3>2. CASE v # w
      BY <1>1, <1>2, <1>4, <2>2, <3>2 DEF IInv, TakenInOrder
    <3> QED
      BY <3>1, <3>2
  <2> QED
    BY <2>1, <2>2 DEF TakenInOrder
<1>9. NoneLost'
  <2> SUFFICES ASSUME NEW t \in Submitted
               PROVE  \/ t \in InQueue(task_queue')
                      \/ \E v \in Workers : worker'[v] = [at |-> "running", task |-> t]
                      \/ t \in executed
    BY <1>1 DEF NoneLost, Submitted
  <2>1. CASE t \in InQueue(task_queue)
    <3>1. t # STOP
      BY Ids DEF IInv, TypeOK, Submitted, STOP
    <3> QED
      BY <1>2, <1>4, <2>1, <3>1
  <2>2. CASE \E v \in Workers : worker[v] = [at |-> "running", task |-> t]
    BY <1>1, <1>4, <2>2
  <2>3. CASE t \in executed
    BY <2>3
  <2> QED
    BY <2>1, <2>2, <2>3 DEF IInv, NoneLost
<1>10. WorkersApart'
  <2>1. \A t \in Nat : ~(t < t)
    OBVIOUS
  <2>2. h # STOP => h \in Nat /\ h \notin executed
    BY <1>5, <2>1, Ids
  <2>3. \A v \in Workers : worker'[v].at = "running" => worker'[v].task \notin executed'
    BY <1>1, <1>4, <2>2 DEF IInv, WorkersApart
  <2>4. h # STOP => \A v \in Workers : worker[v].at \in {"running", "pushing"} => worker[v].task # h
    BY <1>5, <2>1, <2>2
  <2>5. ASSUME NEW v \in Workers, NEW x \in Workers, v # x,
               worker'[v].at \in {"running", "pushing"}, worker'[x].at \in {"running", "pushing"}
        PROVE  worker'[v].task # worker'[x].task
    <3>1. CASE v # w /\ x # w
      BY <1>4, <2>5, <3>1 DEF IInv, WorkersApart
    <3>2. CASE v = w
      BY <1>4, <2>4, <2>5, <3>2
    <3>3. CASE x = w
      BY <1>4, <2>4, <2>5, <3>3
    <3> QED
      BY <3>1, <3>2, <3>3
  <2> QED
    BY <2>3, <2>5 DEF WorkersApart
<1>11. ResultsApart'
  <2>1. \A v \in Workers : worker'[v].at = "pushing" => worker'[v] = worker[v]
    BY <1>4
  <2> QED
    BY <1>1, <2>1 DEF IInv, ResultsApart, NoDuplicates, InQueue
<1>12. NoResultLost'
  <2>1. \A v \in Workers : worker[v].at = "pushing" => worker'[v] = worker[v]
    BY <1>1, <1>4
  <2> QED
    BY <1>1, <2>1, ResultKept DEF IInv
<1>13. StopsLast'
  <2>1. h = STOP => lifecycle # "open" /\ InQueue(task_queue') \subseteq {STOP}
    <3> SUFFICES ASSUME h = STOP
                 PROVE  lifecycle # "open" /\ InQueue(task_queue') \subseteq {STOP}
      OBVIOUS
    <3>1. lifecycle # "open"
      BY <1>2 DEF IInv, StopsLast
    <3>2. ASSUME NEW u \in InQueue(task_queue'), u # STOP PROVE FALSE
      <4>1. u \in Tasks
        BY <1>2, <3>2, QueueElements
      <4>2. h < u /\ u < STOP /\ STOP \in Nat /\ u \in Nat
        BY <1>3, <3>2, <4>1, Ids
      <4> QED
        BY <4>2
    <3> QED
      BY <3>1, <3>2
  <2>2. lifecycle # "joined"
    BY <1>1 DEF IInv, StopsLast, AllExited
  <2> QED
    BY <1>1, <1>2, <1>4, <2>1, <2>2 DEF IInv, StopsLast
<1>14. OneByOne'
  BY <1>1, <1>4, <1>5 DEF IInv, OneByOne
<1> QED
  BY <1>6, <1>7, <1>8, <1>9, <1>10, <1>11, <1>12, <1>13, <1>14 DEF IInv

LEMMA OneWorker ==
  ASSUME Cardinality(Workers) = 1, NEW v \in Workers, NEW w \in Workers
  PROVE  v = w
BY ExecutorAssumption, FS_Singleton

LEMMA ProcessStep ==
  ASSUME IInv, NEW w \in Workers, Process(w)
  PROVE  IInv'
<1> DEFINE t == worker[w].task
<1>1. /\ worker[w].at = "running"
      /\ executed' = executed \cup {t}
      /\ UNCHANGED <<task_queue, result_queue, completed_results, submitter, next_id,
                     lifecycle, stops_left, reaper, reaped>>
  BY DEF Process
<1>2. /\ t \in Tasks /\ t < next_id /\ t \notin executed
      /\ \A u \in InQueue(task_queue) : t < u
  BY <1>1 DEF IInv, TakenInOrder, WorkersApart
<1>3. /\ \A v \in Workers \ {w} : worker'[v] = worker[v]
      /\ t \in NeedsResult => worker'[w] = [at |-> "pushing", task |-> t]
      /\ t \notin NeedsResult => worker'[w] = Polling
      /\ worker' \in [Workers -> [at : {"polling", "running", "pushing", "exited"},
                                 task : Tasks \cup {NONE}]]
  BY <1>2 DEF IInv, TypeOK, Process, AfterPayload, Polling
<1>4. TypeOK'
  BY <1>1, <1>2, <1>3 DEF IInv, TypeOK
<1>5. QueueOfSubmitted'
  BY <1>1 DEF IInv, QueueOfSubmitted, InOrder, InQueue
<1>6. TakenInOrder'
  BY <1>1, <1>2, <1>3 DEF IInv, TakenInOrder, InQueue, Polling
<1>7. NoneLost'
  <2>1. \A v \in Workers, u \in Submitted :
          worker[v] = [at |-> "running", task |-> u] => v # w \/ u = t
    OBVIOUS
  <2> QED
    BY <1>1, <1>3, <2>1 DEF IInv, NoneLost, Submitted, InQueue
<1>8. WorkersApart'
  <2>1. \A v \in Workers : worker'[v].at \in {"running", "pushing"} =>
          /\ worker[v].at \in {"running", "pushing"}
          /\ worker'[v].task = worker[v].task
          /\ worker'[v].at = "running" => v # w /\ worker[v].at = "running"
    BY <1>1, <1>3 DEF Polling
  <2>2. \A v \in Workers \ {w} : worker[v].at = "running" => worker[v].task # t
    BY <1>1 DEF IInv, WorkersApart
  <2> QED
    BY <1>1, <2>1, <2>2 DEF IInv, WorkersApart
<1>9. ResultsApart'
  <2>1. t \notin InQueue(result_queue) \cup completed_results \cup reaped
    BY <1>2 DEF IInv, ResultsApart
  <2>2. \A v \in Workers : worker'[v].at = "pushing" =>
          \/ worker'[v] = worker[v]
          \/ worker'[v].task = t /\ t \in NeedsResult
    BY <1>3 DEF Polling
  <2> QED
    BY <1>1, <2>1, <2>2 DEF IInv, ResultsApart, NoDuplicates, InQueue
<1>10. NoResultLost'
  <2>1. \A v \in Workers : worker[v].at = "pushing" => worker'[v] = worker[v]
    BY <1>1, <1>3
  <2> QED
    BY <1>1, <1>3, <2>1 DEF IInv, NoResultLost, InQueue
<1>11. StopsLast'
  <2>1. lifecycle # "joined"
    BY <1>1 DEF IInv, StopsLast, AllExited
  <2>2. \A v \in Workers : worker'[v].at = "exited" => worker[v].at = "exited"
    BY <1>3 DEF Polling
  <2> QED
    BY <1>1, <2>1, <2>2 DEF IInv, StopsLast, InQueue
<1>12. OneByOne'
  <2>1. worker'[w].at # "running"
    BY <1>3 DEF Polling
  <2>2. Cardinality(Workers) = 1 => \A v \in Workers : v = w
    BY OneWorker
  <2> QED
    BY <2>1, <2>2 DEF OneByOne
<1> QED
  BY <1>4, <1>5, <1>6, <1>7, <1>8, <1>9, <1>10, <1>11, <1>12 DEF IInv

LEMMA PushResultStep ==
  ASSUME IInv, NEW w \in Workers, PushResult(w)
  PROVE  IInv'
<1> DEFINE t == worker[w].task
<1>1. /\ worker[w].at = "pushing"
      /\ Len(result_queue) < ResultQueueCapacity
      /\ result_queue \in Seq(Tasks)
      /\ result_queue' = Append(result_queue, t)
      /\ UNCHANGED <<task_queue, completed_results, submitter, next_id, lifecycle,
                     stops_left, reaper, executed, reaped>>
  BY DEF IInv, TypeOK, PushResult
<1>2. /\ t \in Tasks
      /\ t \in executed \cap NeedsResult
      /\ t \notin InQueue(result_queue) \cup completed_results \cup reaped
  BY <1>1 DEF IInv, TakenInOrder, ResultsApart
<1>3. /\ result_queue' \in Seq(Tasks)
      /\ Len(result_queue') = Len(result_queue) + 1
      /\ InQueue(result_queue') = InQueue(result_queue) \cup {t}
  BY <1>1, <1>2, AppendQueue
<1>4. /\ \A v \in Workers \ {w} : worker'[v] = worker[v]
      /\ worker'[w] = Polling
      /\ worker' \in [Workers -> [at : {"polling", "running", "pushing", "exited"},
                                 task : Tasks \cup {NONE}]]
  BY DEF IInv, TypeOK, PushResult, Polling
<1>5. TypeOK'
  <2>1. Len(result_queue') <= ResultQueueCapacity
    BY <1>1, <1>3, ExecutorAssumption
  <2> QED
    BY <1>1, <1>3, <1>4, <2>1 DEF IInv, TypeOK
<1>6. \A v \in Workers : worker'[v].at # "polling" => v # w /\ worker'[v] = worker[v]
  BY <1>4 DEF Polling
<1>7. QueueOfSubmitted'
  BY <1>1 DEF IInv, QueueOfSubmitted, InOrder, InQueue
<1>8. TakenInOrder'
  BY <1>1, <1>6 DEF IInv, TakenInOrder, InQueue
<1>9. NoneLost'
  BY <1>1, <1>4 DEF IInv, NoneLost, Submitted, InQueue
<1>10. WorkersApart' /\ OneByOne'
  BY <1>1, <1>6 DEF IInv, WorkersApart, OneByOne
<1>11. ResultsApart'
  <2>1. NoDuplicates(result_queue')
    BY <1>1, <1>2, AppendNoDuplicates DEF IInv, ResultsApart
  <2>2. \A v \in Workers : worker'[v].at = "pushing" =>
          worker'[v] = worker[v] /\ worker[v].task # t
    BY <1>1, <1>6 DEF IInv, WorkersApart
  <2> QED
    BY <1>1, <1>2, <1>3, <2>1, <2>2 DEF IInv, ResultsApart
<1>12. NoResultLost'
  BY <1>1, <1>3, <1>4 DEF IInv, NoResultLost
<1>13. StopsLast'
  <2>1. lifecycle # "joined"
    BY <1>1 DEF IInv, StopsLast, AllExited
  <2> QED
    BY <1>1, <1>6, <2>1 DEF IInv, StopsLast, InQueue
<1> QED
  BY <1>5, <1>7, <1>8, <1>9, <1>10, <1>11, <1>12, <1>13 DEF IInv

\* Handing out or caching a result leaves tasks and workers alone.
LEMMA ReapFrame ==
  ASSUME IInv,
         UNCHANGED <<task_queue, worker, submitter, next_id, lifecycle, stops_left, executed>>
  PROVE  QueueOfSubmitted' /\ TakenInOrder' /\ NoneLost' /\ WorkersApart' /\ StopsLast' /\ OneByOne'
<1>1. QueueOfSubmitted' /\ TakenInOrder'
  BY DEF IInv, QueueOfSubmitted, TakenInOrder, InOrder, InQueue
<1>2. NoneLost' /\ WorkersApart' /\ OneByOne'
  BY DEF IInv, NoneLost, WorkersApart, OneByOne, Submitted, InQueue
<1>3. StopsLast'
  BY DEF IInv, StopsLast, AllExited, InQueue
<1> QED
  BY <1>1, <1>2, <1>3

LEMMA ReapCachedStep ==
  ASSUME IInv, NEW t \in Tasks, ReapCached(t)
  PROVE  IInv'
<1>1. /\ t \in completed_results
      /\ completed_results' = completed_results \ {t}
      /\ reaped' = reaped \cup {t}
      /\ UNCHANGED <<task_queue, result_queue, worker, submitter, next_id, lifecycle,
                     stops_left, reaper, executed>>
  BY DEF ReapCached, CacheWithout
<1>2. TypeOK'
  BY <1>1 DEF IInv, TypeOK
<1>3. ResultsApart'
  BY <1>1 DEF IInv, ResultsApart, NoDuplicates, InQueue
<1>4. NoResultLost'
  BY <1>1 DEF IInv, NoResultLost, InQueue
<1> QED
  BY <1>1, <1>2, <1>3, <1>4, ReapFrame DEF IInv

LEMMA PopResultStep ==
  ASSUME IInv, PopResult
  PROVE  IInv'
<1> DEFINE r == Head(result_queue)
<1>1. /\ result_queue \in Seq(Tasks) /\ result_queue # <<>>
      /\ result_queue' = Tail(result_queue)
      /\ reaper' \in {Idle, reaper}
      /\ \/ reaped' = reaped \cup {r} /\ completed_results' = completed_results
         \/ completed_results' = completed_results \cup {r} /\ reaped' = reaped
      /\ UNCHANGED <<task_queue, worker, submitter, next_id, lifecycle, stops_left, executed>>
  BY DEF IInv, TypeOK, PopResult, CacheWith
<1>2. /\ result_queue' \in Seq(Tasks)
      /\ r \in Tasks
      /\ Len(result_queue') = Len(result_queue) - 1 /\ Len(result_queue) \in Nat
      /\ InQueue(result_queue) = InQueue(result_queue') \cup {r}
  BY <1>1, TailQueue
<1>3. NoDuplicates(result_queue') /\ r \notin InQueue(result_queue')
  BY <1>1, TailNoDuplicates DEF IInv, ResultsApart
<1>4. TypeOK'
  <2>1. Len(result_queue') <= ResultQueueCapacity
    BY <1>2, ExecutorAssumption DEF IInv, TypeOK
  <2> QED
    BY <1>1, <1>2, <2>1 DEF IInv, TypeOK, Idle
<1>5. ResultsApart'
  BY <1>1, <1>2, <1>3 DEF IInv, ResultsApart
<1>6. NoResultLost'
  BY <1>1, <1>2 DEF IInv, NoResultLost
<1> QED
  BY <1>1, <1>4, <1>5, <1>6, ReapFrame DEF IInv

LEMMA NextIInv ==
  ASSUME IInv, [Next]_vars
  PROVE  IInv'
<1>1. CASE Submit
  BY <1>1, SubmitStep
<1>2. CASE PushTask
  BY <1>2, PushTaskStep
<1>3. CASE Close
  BY <1>3, CloseStep
<1>4. CASE PushStop
  BY <1>4, PushStopStep
<1>5. CASE JoinWorkers
  BY <1>5, JoinWorkersStep
<1>6. CASE \E w \in Workers : WorkerStep(w)
  BY <1>6, TakeStep, ProcessStep, PushResultStep DEF WorkerStep
<1>7. CASE \E t \in Tasks : Reap(t)
  <2> PICK t \in Tasks : Reap(t)
    BY <1>7
  <2>1. CASE ReapCached(t)
    BY <2>1, ReapCachedStep
  <2>2. CASE \E op \in {"reap", "try_reap", "ready", "wait"} : BeginReap(op, t)
    BY <2>2, ReaperStep
  <2> QED
    BY <2>1, <2>2 DEF Reap
<1>8. CASE PopResult
  BY <1>8, PopResultStep
<1>9. CASE GiveUp
  BY <1>9, ReaperStep
<1>10. CASE UNCHANGED vars
  <2>1. TypeOK'
    BY <1>10 DEF IInv, TypeOK, vars
  <2>2. StopsLast'
    BY <1>10 DEF IInv, StopsLast, AllExited, InQueue, vars
  <2> QED
    BY <1>10, <2>1, <2>2, QuietStep DEF vars
<1>11. CASE Finished
  BY <1>10, <1>11 DEF Finished
<1> QED
  BY <1>1, <1>2, <1>3, <1>4, <1>5, <1>6, <1>7, <1>8, <1>9, <1>10, <1>11 DEF Next

\* The invariant holds throughout: tasks leave the queue in the order submit()
\* pushed them, and every result has exactly one holder.
THEOREM Inductive == Spec => []IInv
BY InitIInv, NextIInv, PTL DEF Spec
-----------------------------------------------------------------------------
(* The properties.                                                         *)

\* Every variable keeps its type, and task_queue and result_queue stay within
\* their capacities: push() spins on a full queue.
THEOREM TypeCorrect == Spec => []TypeOK
<1>1. IInv => TypeOK
  BY DEF IInv
<1> QED
  BY <1>1, Inductive, PTL

\* No payload runs twice: an executed task is neither queued nor in the hands of
\* a worker that has still to run it.
THEOREM ExecutedOnce == Spec => []RunsOnce
<1>1. IInv => RunsOnce
  <2> SUFFICES ASSUME IInv, NEW t \in executed
               PROVE  t \notin InQueue(task_queue) /\ t \notin Held("running")
    BY DEF RunsOnce
  <2>1. t \in Nat
    BY Ids DEF IInv, TypeOK
  <2>2. t \notin InQueue(task_queue)
    <3>1. ~(t < t)
      BY <2>1
    <3> QED
      BY <3>1 DEF IInv, TakenInOrder
  <2>3. t \notin Held("running")
    BY DEF IInv, WorkersApart, Held
  <2> QED
    BY <2>2, <2>3
<1> QED
  BY <1>1, Inductive, PTL

\* The result of an executed task is in one place only, however workers finish
\* and callers reap: with the worker, in result_queue, in completed_results, or
\* handed out.
THEOREM OnePlace == Spec => []ResultInOnePlace
<1>1. IInv => ResultInOnePlace
  <2> SUFFICES ASSUME IInv PROVE ResultInOnePlace
    OBVIOUS
  <2> DEFINE held == Held("pushing")
             queued == InQueue(result_queue)
             places == <<held, queued, completed_results, reaped>>
  <2>1. /\ held \cap queued = {} /\ held \cap completed_results = {} /\ held \cap reaped = {}
        /\ held \subseteq executed \cap NeedsResult
    BY DEF IInv, ResultsApart, Held
  <2>2. /\ queued \cap completed_results = {} /\ queued \cap reaped = {}
        /\ completed_results \cap reaped = {}
        /\ queued \cup completed_results \cup reaped \subseteq executed \cap NeedsResult
    BY DEF IInv, ResultsApart
  <2>3. executed \cap NeedsResult \subseteq held \cup queued \cup completed_results \cup reaped
    <3> SUFFICES ASSUME NEW t \in executed \cap NeedsResult,
                        t \notin queued \cup completed_results \cup reaped
                 PROVE  t \in held
      OBVIOUS
    <3>1. PICK w \in Workers : worker[w] = [at |-> "pushing", task |-> t]
      BY DEF IInv, NoResultLost
    <3>2. worker[w].at = "pushing" /\ worker[w].task = t
      BY <3>1
    <3> QED
      BY <3>2 DEF Held
  <2> HIDE DEF held, queued
  <2>4. places[1] = held /\ places[2] = queued /\ places[3] = completed_results /\ places[4] = reaped
    OBVIOUS
  <2>5. 1 .. 4 = {1, 2, 3, 4}
    OBVIOUS
  <2> HIDE DEF places
  <2>6. \A i, j \in 1 .. 4 : i # j => places[i] \cap places[j] = {}
    BY <2>1, <2>2, <2>4, <2>5
  <2>7. UNION {places[i] : i \in 1 .. 4} = held \cup queued \cup completed_results \cup reaped
    BY <2>4, <2>5
  <2>8. UNION {places[i] : i \in 1 .. 4} = executed \cap NeedsResult
    BY <2>1, <2>2, <2>3, <2>7
  <2> QED
    BY <2>6, <2>8 DEF ResultInOnePlace, places, held, queued
<1> QED
  BY <1>1, Inductive, PTL

\* Workers that have all met a sentinel have left no task behind.
LEMMA AllRan ==
  ASSUME IInv, AllExited
  PROVE  Submitted \subseteq executed
<1> SUFFICES ASSUME NEW t \in Submitted PROVE t \in executed
  OBVIOUS
<1>1. PICK w \in Workers : TRUE
  BY ExecutorAssumption
<1>2. \A v \in Workers : worker[v].at = "exited"
  BY DEF AllExited
<1>3. InQueue(task_queue) \subseteq {STOP}
  BY <1>1, <1>2 DEF IInv, StopsLast
<1>4. t # STOP
  BY Ids DEF IInv, TypeOK, Submitted, STOP
<1>5. \A v \in Workers : worker[v] # [at |-> "running", task |-> t]
  BY <1>2
<1> QED
  BY <1>3, <1>4, <1>5 DEF IInv, NoneLost

\* Once join() has returned every submitted task has run: the sentinels travel
\* behind the tasks in the same queue, one for each worker.
THEOREM DrainedByJoin == Spec => []JoinDrains
<1>1. IInv => JoinDrains
  BY AllRan DEF IInv, StopsLast, JoinDrains
<1> QED
  BY <1>1, Inductive, PTL

\* A SingleWorkerFunctionExecutor runs its tasks in the order of submit().
THEOREM InSubmissionOrder == Spec => []SingleWorkerInOrder
<1>1. IInv => SingleWorkerInOrder
  <2> SUFFICES ASSUME IInv, Cardinality(Workers) = 1, NEW t \in executed, NEW u \in 0 .. t
               PROVE  u \in executed
    BY DEF SingleWorkerInOrder
  <2>1. t \in Nat /\ t < next_id /\ next_id \in Nat
    BY Ids DEF IInv, TypeOK, TakenInOrder
  <2>2. u \in Submitted /\ u \in Nat /\ u <= t
    BY <2>1 DEF Submitted
  <2>3. u \notin InQueue(task_queue)
    <3>1. ~(t < u)
      BY <2>1, <2>2
    <3> QED
      BY <3>1 DEF IInv, TakenInOrder
  <2>4. \A w \in Workers : worker[w] # [at |-> "running", task |-> u]
    <3>1. ~(t < u)
      BY <2>1, <2>2
    <3> QED
      BY <3>1 DEF IInv, OneByOne
  <2> QED
    BY <2>2, <2>3, <2>4 DEF IInv, NoneLost
<1> QED
  BY <1>1, Inductive, PTL
-----------------------------------------------------------------------------
(* The executor implements TaskService.                                    *)

Progress(t) ==
  CASE t \in reaped -> "delivered"
    [] t \in executed \ reaped -> "executed"
    [] t \in Submitted \ (executed \cup reaped) -> "submitted"
    [] OTHER -> "new"

Status == [t \in Tasks |-> Progress(t)]

\* What the invariant says of a task's progress.
LEMMA ProgressOf ==
  ASSUME IInv, NEW t \in Tasks
  PROVE  /\ t \in reaped => Progress(t) = "delivered"
         /\ t \in executed \ reaped => Progress(t) = "executed"
         /\ t \in Submitted \ executed => Progress(t) = "submitted"
         /\ t \notin Submitted => Progress(t) = "new"
<1>1. reaped \subseteq executed
  BY DEF IInv, ResultsApart
<1>2. executed \subseteq Submitted
  <2> SUFFICES ASSUME NEW u \in executed PROVE u \in Submitted
    OBVIOUS
  <2>1. u \in Nat /\ next_id \in Nat /\ u < next_id
    BY Ids DEF IInv, TypeOK, TakenInOrder
  <2> QED
    BY <2>1 DEF Submitted
<1> QED
  BY <1>1, <1>2 DEF Progress

\* One task advances and the others stay.
LEMMA OneAdvances ==
  ASSUME NEW t \in Tasks, NEW from, NEW to,
         Progress(t) = from, Progress(t)' = to,
         \A u \in Tasks \ {t} : Progress(u)' = Progress(u)
  PROVE  Status[t] = from /\ Status' = [Status EXCEPT ![t] = to]
BY DEF Status

\* Steps that submit, run and hand out nothing leave every task where it is.
LEMMA NoneAdvances ==
  ASSUME UNCHANGED <<next_id, executed, reaped>>
  PROVE  Status' = Status
BY DEF Status, Progress, Submitted

LEMMA InitService == Init => Service!Init
<1> SUFFICES ASSUME Init PROVE Service!Init
  OBVIOUS
<1>1. reaped = {} /\ executed = {} /\ Submitted = {} /\ lifecycle = "open"
  BY DEF Init, Submitted
<1>2. Status = [t \in Tasks |-> "new"]
  BY <1>1 DEF Status, Progress
<1> QED
  BY <1>1, <1>2 DEF Service!Init, Status, Progress

LEMMA PushTaskService ==
  ASSUME IInv, IInv', PushTask
  PROVE  Service!Next
<1>1. lifecycle = "open" /\ next_id \in Tasks /\ next_id \in Nat
  BY Ids DEF IInv, TypeOK, StopsLast, PushTask, Tasks
<1>2. next_id' = next_id + 1 /\ UNCHANGED <<lifecycle, executed, reaped>>
  BY DEF PushTask
<1>3. next_id \notin Submitted /\ Submitted' = Submitted \cup {next_id}
  BY <1>1, <1>2 DEF Submitted
<1>4. next_id \notin executed /\ next_id \notin reaped
  <2>1. ~(next_id < next_id)
    BY <1>1
  <2> QED
    BY <2>1 DEF IInv, TakenInOrder, ResultsApart
<1> DEFINE n == next_id
<1>5. Progress(n) = "new"
  BY <1>1, <1>3, ProgressOf
<1>6. Status' = [Status EXCEPT ![n] = "submitted"] /\ Status[n] = "new"
  BY <1>1, <1>2, <1>3, <1>4, <1>5 DEF Status, Progress
<1> QED
  BY <1>1, <1>2, <1>6 DEF Service!Next, Service!Submit, Service!Advance, Status, Progress

LEMMA ProcessService ==
  ASSUME IInv, IInv', NEW w \in Workers, Process(w)
  PROVE  Service!Next
<1> DEFINE t == worker[w].task
<1>1. executed' = executed \cup {t} /\ UNCHANGED <<lifecycle, next_id, reaped>>
  BY DEF Process
<1>2. t \in Tasks /\ t \notin executed /\ t < next_id
  BY DEF IInv, TakenInOrder, WorkersApart, Process
<1>3. t \in Submitted /\ Submitted' = Submitted /\ t \notin reaped
  <2>1. t \in Nat
    BY <1>2, Ids
  <2>2. next_id \in Nat
    BY Ids DEF IInv, TypeOK
  <2>3. t \notin reaped
    BY <1>2 DEF IInv, ResultsApart
  <2> QED
    BY <1>1, <1>2, <2>1, <2>2, <2>3 DEF Submitted
<1>4. Progress(t) = "submitted"
  BY <1>2, <1>3, ProgressOf
<1>5. Status' = [Status EXCEPT ![t] = "executed"] /\ Status[t] = "submitted"
  BY <1>1, <1>2, <1>3, <1>4 DEF Status, Progress
<1> QED
  BY <1>1, <1>2, <1>5 DEF Service!Next, Service!Execute, Service!Advance, Status, Progress

LEMMA DeliverService ==
  ASSUME IInv, NEW t \in executed \ reaped,
         reaped' = reaped \cup {t}, UNCHANGED <<lifecycle, next_id, executed>>
  PROVE  Service!Next
<1>1. t \in Tasks /\ Submitted' = Submitted
  BY DEF IInv, TypeOK, Submitted
<1>2. Progress(t) = "executed"
  BY <1>1, ProgressOf
<1>3. Status' = [Status EXCEPT ![t] = "delivered"] /\ Status[t] = "executed"
  BY <1>1, <1>2 DEF Status, Progress
<1> QED
  BY <1>1, <1>3 DEF Service!Next, Service!Deliver, Service!Advance, Status, Progress

LEMMA StepService ==
  ASSUME IInv, IInv', [Next]_vars
  PROVE  [Service!Next]_(Service!vars)
<1> DEFINE Stays == UNCHANGED <<next_id, executed, reaped>>
<1>1. Stays /\ UNCHANGED lifecycle => UNCHANGED Service!vars
  BY NoneAdvances DEF Service!vars, Status, Progress
<1>2. CASE Submit \/ PushStop \/ GiveUp \/ UNCHANGED vars \/ Finished
  <2>1. Stays /\ UNCHANGED lifecycle
    BY <1>2 DEF Submit, PushStop, GiveUp, Finished, vars
  <2> QED
    BY <1>1, <2>1
<1>3. CASE PushTask
  BY <1>3, PushTaskService
<1>4. CASE Close
  <2>1. Stays /\ lifecycle = "open" /\ lifecycle' = "stopping"
    BY <1>4 DEF Close
  <2>2. Status' = Status
    BY <2>1, NoneAdvances
  <2> QED
    BY <2>1, <2>2 DEF Service!Next, Service!Close, Status, Progress
<1>5. CASE JoinWorkers
  <2>1. Stays /\ lifecycle = "stopping" /\ lifecycle' = "joined"
    BY <1>5 DEF JoinWorkers
  <2>2. Status' = Status
    BY <2>1, NoneAdvances
  <2>3. Submitted \subseteq executed
    BY <1>5, AllRan DEF JoinWorkers
  <2>4. \A t \in Tasks : Status[t] # "submitted"
    BY <2>3, ProgressOf DEF Status
  <2> QED
    BY <2>1, <2>2, <2>4 DEF Service!Next, Service!Join, Status, Progress
<1>6. CASE \E w \in Workers : WorkerStep(w)
  <2> PICK w \in Workers : WorkerStep(w)
    BY <1>6
  <2>1. CASE Take(w) \/ PushResult(w)
    BY <1>1, <2>1 DEF Take, PushResult
  <2>2. CASE Process(w)
    BY <2>2, ProcessService
  <2> QED
    BY <2>1, <2>2 DEF WorkerStep
<1>7. CASE \E t \in Tasks : Reap(t)
  <2> PICK t \in Tasks : Reap(t)
    BY <1>7
  <2>1. CASE ReapCached(t)
    <3>1. /\ t \in completed_results /\ reaped' = reaped \cup {t}
          /\ UNCHANGED <<lifecycle, next_id, executed>>
      BY <2>1 DEF ReapCached
    <3>2. t \in executed \ reaped
      BY <3>1 DEF IInv, ResultsApart
    <3> QED
      BY <3>1, <3>2, DeliverService
  <2>2. CASE \E op \in {"reap", "try_reap", "ready", "wait"} : BeginReap(op, t)
    BY <1>1, <2>2 DEF BeginReap
  <2> QED
    BY <2>1, <2>2 DEF Reap
<1>8. CASE PopResult
  <2> DEFINE r == Head(result_queue)
  <2>1. /\ result_queue # <<>> /\ UNCHANGED <<lifecycle, next_id, executed>>
        /\ reaped' = reaped \cup {r} \/ UNCHANGED reaped
    BY <1>8 DEF PopResult
  <2>2. r \in InQueue(result_queue)
    BY <2>1, TailQueue DEF IInv, TypeOK
  <2>3. r \in executed \ reaped
    BY <2>2 DEF IInv, ResultsApart
  <2> QED
    BY <1>1, <2>1, <2>3, DeliverService
<1> QED
  BY <1>2, <1>3, <1>4, <1>5, <1>6, <1>7, <1>8 DEF Next

\* With its queues, threads and result cache an executor still does only what
\* TaskService allows: a submitted task is executed once and delivered at most
\* once, and join() returns with nothing left to execute.
THEOREM ExecutorImplementsService == Spec => ImplementsService
<1>1. Init => Service!Init
  BY InitService
<1>2. IInv /\ IInv' /\ [Next]_vars => [Service!Next]_(Service!vars)
  BY StepService
<1> QED
  BY <1>1, <1>2, Inductive, PTL DEF Spec, ImplementsService, Service!Spec
=============================================================================
