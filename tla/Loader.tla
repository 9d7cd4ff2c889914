------------------------------- MODULE Loader -------------------------------
(***************************************************************************)
(* One Loader (loader_common.cpp) on one rank, end to end: the Python      *)
(* thread that iterates over the tensors, the two RPC queues, the loader   *)
(* thread (run, can_step, step, wait_step, get_tensor_ptr, close), and the *)
(* pipeline each chunk goes through: reads into a host window, cuda_func   *)
(* on cuda_thread, the copy on the CUDA stream, wait_func on wait_thread.  *)
(*                                                                         *)
(* The executors are FIFO with one worker (SingleWorkerInOrder and         *)
(* ResultInOnePlace of Executor), so an executor's progress is the id of   *)
(* the last chunk it has finished.  The layout compute_layout produces is  *)
(* a constant of this module, which must satisfy LayoutContract.           *)
(* The pipeline is the staged one (io_uring, libaio, mapped files): reads  *)
(* land in host windows and are copied to the device in stream order.      *)
(***************************************************************************)
EXTENDS LayoutContract, Sequences, FiniteSets

CONSTANTS
  IoDepth,                \* io_depth: host windows, events, iocb groups
  MaxPrefetchChunks,      \* capacity of every executor queue
  EarlyExit               \* may the context be left before the last tensor?

NoTensor == -1
NoChunk == -1
Cursor == Chunks \cup {NoChunk}

ASSUME SizesAssumption ==
  /\ NumChunks \in Nat \ {0}
  /\ NumTensors \in Nat \ {0}
  /\ IoDepth \in Nat \ {0}
  /\ MaxPrefetchChunks \in Nat \ {0}
  /\ EarlyExit \in BOOLEAN

\* The layout is one that compute_layout may produce.
ASSUME LayoutAssumption == Contract

VARIABLES
  \* Python thread (safe_open and LoaderManager)
  client,               \* "new", "opening", "idle", "getting", "closing", "closed"
  next_tensor,          \* the next index tensors() asks for
  held,                 \* the tensor last yielded and still valid, or NoTensor
  latest_req_id,
  \* RPC queues
  input_queue, output_queue,
  \* loader thread
  pc,                   \* where it is
  after,                \* where step() or poll_read_chunk() returns to
  request,              \* id of the request being served
  opened,               \* open() has filled tensors and chunks
  stop,
  current_tensor_index,
  chunk_reading,        \* last chunk posted
  chunk_read,           \* last chunk known complete
  joined,               \* executors stopped and joined, buffers freed
  \* pipeline: ids of the last chunk past each point
  cuda_submitted, wait_submitted,
  reads,                \* chunks whose reads have completed
  window,               \* per host window: the chunk whose data it holds
  cuda_done,            \* cuda_func has run: copy enqueued, event recorded
  event,                \* per cuda_event: the chunk it was last recorded for
  dev_done,             \* copied to the device
  wait_reaped,          \* wait_func has reaped cuda_func
  wait_done,            \* wait_func has run, its result is in the queue
  mem                   \* per device slot: the chunk whose data it holds

clientVars == <<client, next_tensor, held, latest_req_id>>
rpcVars == <<input_queue, output_queue>>
serveVars == <<request, opened, stop, current_tensor_index>>
postVars == <<chunk_reading, cuda_submitted, wait_submitted>>
gpuVars == <<reads, window, cuda_done, event, dev_done, wait_reaped, wait_done, mem>>
vars == <<clientVars, rpcVars, pc, after, serveVars, postVars, chunk_read,
          joined, gpuVars>>

\* Mutant: two consecutive chunks share a host window.
WindowOfShared(c) == (c \div 2) % IoDepth
WindowOf(c) == c % IoDepth

\* An exception that leaves run_loader ends the whole process.
Alive == pc # "crashed"

Init ==
  /\ client = "new" /\ next_tensor = 0 /\ held = NoTensor /\ latest_req_id = 0
  /\ input_queue = <<>> /\ output_queue = <<>>
  /\ pc = "top" /\ after = "top" /\ request = 0
  /\ opened = FALSE /\ stop = FALSE /\ current_tensor_index = 0
  /\ chunk_reading = NoChunk /\ chunk_read = NoChunk /\ joined = FALSE
  /\ cuda_submitted = NoChunk /\ wait_submitted = NoChunk
  /\ reads = {} /\ window = [i \in 0 .. IoDepth - 1 |-> NoChunk]
  /\ cuda_done = NoChunk /\ event = [i \in 0 .. IoDepth - 1 |-> NoChunk]
  /\ dev_done = NoChunk /\ wait_reaped = NoChunk /\ wait_done = NoChunk
  /\ mem = [x \in Slots |-> NoChunk]
-----------------------------------------------------------------------------
(* Python thread: LoaderManager::call pushes a request, get_result blocks  *)
(* for its response.                                                       *)

Call(op, tensor, waiting) ==
  /\ Alive
  /\ latest_req_id' = latest_req_id + 1
  /\ input_queue' = Append(input_queue,
                           [id |-> latest_req_id', op |-> op, tensor |-> tensor])
  /\ client' = waiting
  /\ held' = NoTensor
  /\ UNCHANGED <<next_tensor, output_queue, pc, after, serveVars, postVars,
                 chunk_read, joined, gpuVars>>

ClientOpen == client = "new" /\ Call("OPEN", NoTensor, "opening")

\* tensors() asks for the next tensor only after synchronizing the stream
\* that used the one it yielded before.
ClientGet ==
  /\ client = "idle"
  /\ next_tensor < NumTensors
  /\ Call("GET_TENSOR_PTR", next_tensor, "getting")

\* __exit__: legal after the last tensor, and before it.
ClientClose ==
  /\ client = "idle"
  /\ EarlyExit \/ next_tensor = NumTensors
  /\ Call("CLOSE", NoTensor, "closing")

\* get_result discards responses to other requests.
ClientReceive ==
  /\ Alive
  /\ client \in {"opening", "getting", "closing"}
  /\ output_queue # <<>>
  /\ output_queue' = Tail(output_queue)
  /\ IF Head(output_queue) = latest_req_id
       THEN /\ client' = IF client = "closing" THEN "closed" ELSE "idle"
            /\ held' = IF client = "getting" THEN next_tensor ELSE held
            /\ next_tensor' = IF client = "getting" THEN next_tensor + 1 ELSE next_tensor
       ELSE UNCHANGED <<client, held, next_tensor>>
  /\ UNCHANGED <<latest_req_id, input_queue, pc, after, serveVars, postVars,
                 chunk_read, joined, gpuVars>>
-----------------------------------------------------------------------------
(* Loader thread.                                                          *)

Goto(label) == pc' = label /\ UNCHANGED after

\* Mutant: prefetching runs one chunk past the bound.
PrefetchBoundPlusOne(t) == PrefetchChunk[t] + 1
PrefetchBound(t) == PrefetchChunk[t]

\* can_step(): FALSE before open(), otherwise compare with the bound; beyond
\* the bound it throws.
CanStep == opened /\ chunk_reading < PrefetchBound(current_tensor_index)
CanStepThrows == opened /\ chunk_reading > PrefetchBound(current_tensor_index)

\* Where a thread goes whose exception, when bad holds, ends the process.
Unless(bad, label) == IF bad THEN "crashed" ELSE label

\* Mutant: run() waits for a request although it could prefetch.
AlwaysReceive == TRUE
MustReceive == ~CanStep \/ input_queue # <<>>

\* run(): leave the loop, take a request, or step.
Exit ==
  /\ pc = "top" /\ stop
  /\ Goto("exited")
  /\ UNCHANGED <<clientVars, rpcVars, serveVars, postVars, chunk_read, joined, gpuVars>>

TopReceive ==
  /\ pc = "top" /\ ~stop
  /\ MustReceive
  /\ Goto(Unless(CanStepThrows, "receive"))
  /\ UNCHANGED <<clientVars, rpcVars, serveVars, postVars, chunk_read, joined, gpuVars>>

TopStep ==
  /\ pc = "top" /\ ~stop
  /\ ~MustReceive
  /\ Goto("try_step")
  /\ UNCHANGED <<clientVars, rpcVars, serveVars, postVars, chunk_read, joined, gpuVars>>

\* input_queue->pop and dispatch to open(), get_tensor_ptr() or close().
Serve(op) ==
  /\ pc = "receive"
  /\ input_queue # <<>>
  /\ Head(input_queue).op = op
  /\ input_queue' = Tail(input_queue)
  /\ request' = Head(input_queue).id
  /\ UNCHANGED <<clientVars, output_queue, postVars, chunk_read, joined, gpuVars>>

ServeOpen ==
  /\ Serve("OPEN")
  /\ opened' = TRUE
  /\ Goto("reply")
  /\ UNCHANGED <<stop, current_tensor_index>>

\* Mutant: get_tensor_ptr rejects the current index as well.
RejectsNotAfter(index) == index \notin Tensors \/ index <= current_tensor_index
Rejects(index) == index \notin Tensors \/ index < current_tensor_index

\* get_tensor_ptr rejects an index that is out of range or goes backwards.
ServeGet ==
  /\ Serve("GET_TENSOR_PTR")
  /\ LET index == Head(input_queue).tensor
     IN /\ current_tensor_index' = IF Rejects(index) THEN current_tensor_index ELSE index
        /\ Goto(Unless(Rejects(index), "wait_step"))
  /\ UNCHANGED <<opened, stop>>

\* Mutant: close() does not set stop.
ServeCloseWithoutStop ==
  /\ Serve("CLOSE")
  /\ Goto("join_cuda")
  /\ UNCHANGED <<opened, stop, current_tensor_index>>

ServeClose ==
  /\ Serve("CLOSE")
  /\ stop' = TRUE
  /\ Goto("join_cuda")
  /\ UNCHANGED <<opened, current_tensor_index>>

-----------------------------------------------------------------------------
(* post_read_chunk, poll_read_chunk, wait_read_chunk, step and wait_step.  *)

\* One reap or successful try_reap of the next chunk's completion request.
CanReap == wait_done > chunk_read
ReapNext == CanReap /\ chunk_read' = chunk_read + 1

\* post_read_chunk begins by advancing chunk_reading.
BeginPost(return_to) ==
  /\ CanStep
  /\ chunk_reading' = chunk_reading + 1
  /\ pc' = "window"
  /\ after' = return_to
  /\ UNCHANGED <<clientVars, rpcVars, serveVars, chunk_read, joined,
                 cuda_submitted, wait_submitted, gpuVars>>

TryStep == pc = "try_step" /\ BeginPost("top")

TryPoll ==
  /\ pc = "try_step"
  /\ ~CanStep
  /\ pc' = Unless(CanStepThrows, "poll")
  /\ after' = "top"
  /\ UNCHANGED <<clientVars, rpcVars, serveVars, postVars, chunk_read, joined, gpuVars>>

Smaller(a, b) == IF a <= b THEN a ELSE b

\* Mutants: the window is reused one chunk too early; the capacity of the
\* executors' queues is not considered.
WaitChunkIdOffByOne(c) == c - Smaller(MaxPrefetchChunks, IoDepth) - 1
WaitChunkIdIoDepthOnly(c) == c - IoDepth
WaitChunkId(c) == c - Smaller(MaxPrefetchChunks, IoDepth)

\* Wait until the previous use of this chunk's window, event and queue slot
\* is over.
WindowWait ==
  /\ pc = "window"
  /\ chunk_read < WaitChunkId(chunk_reading)
  /\ ReapNext
  /\ UNCHANGED <<clientVars, rpcVars, pc, after, serveVars, postVars, joined, gpuVars>>

WindowFree ==
  /\ pc = "window"
  /\ chunk_read >= WaitChunkId(chunk_reading)
  /\ Goto("issue")
  /\ UNCHANGED <<clientVars, rpcVars, serveVars, postVars, chunk_read, joined, gpuVars>>

\* The backend issues the reads and hands cuda_func to cuda_thread.
IssueReads ==
  /\ pc = "issue" /\ ~joined
  /\ cuda_submitted - cuda_done < MaxPrefetchChunks
  /\ cuda_submitted' = chunk_reading
  /\ Goto("complete")
  /\ UNCHANGED <<clientVars, rpcVars, serveVars, chunk_reading, wait_submitted,
                 chunk_read, joined, gpuVars>>

\* wait_func goes to wait_thread; its id becomes the chunk's request.
SubmitWait ==
  /\ pc = "complete"
  /\ wait_submitted - wait_done < MaxPrefetchChunks
  /\ wait_submitted' = chunk_reading
  /\ Goto("poll")
  /\ UNCHANGED <<clientVars, rpcVars, serveVars, chunk_reading, cuda_submitted,
                 chunk_read, joined, gpuVars>>

\* ExecutorCore::submit throws "executor is stopped" after join().
IssueOnStopped ==
  /\ pc = "issue" /\ joined
  /\ Goto("crashed")
  /\ UNCHANGED <<clientVars, rpcVars, serveVars, postVars, chunk_read, joined, gpuVars>>

PollReap ==
  /\ pc = "poll"
  /\ chunk_read < chunk_reading
  /\ ReapNext
  /\ UNCHANGED <<clientVars, rpcVars, pc, after, serveVars, postVars, joined, gpuVars>>

PollEnd ==
  /\ pc = "poll"
  /\ chunk_read = chunk_reading \/ ~CanReap
  /\ Goto(after)
  /\ UNCHANGED <<clientVars, rpcVars, serveVars, postVars, chunk_read, joined, gpuVars>>

\* Mutant: the tensor is handed out one chunk early.
TensorReadEarly == chunk_read >= LastChunk[current_tensor_index] - 1
TensorRead == chunk_read >= LastChunk[current_tensor_index]

\* wait_step: done, prefetch another chunk meanwhile, or block.
WaitStepDone ==
  /\ pc = "wait_step" /\ TensorRead
  /\ Goto("reply")
  /\ UNCHANGED <<clientVars, rpcVars, serveVars, postVars, chunk_read, joined, gpuVars>>

WaitStepPost == pc = "wait_step" /\ ~TensorRead /\ BeginPost("wait_step")

\* wait_read_chunk throws when the chunk has not been posted.
WaitStepBlock ==
  /\ pc = "wait_step" /\ ~TensorRead
  /\ ~CanStep
  /\ Goto(Unless(CanStepThrows \/ LastChunk[current_tensor_index] > chunk_reading,
                 "wait_read"))
  /\ UNCHANGED <<clientVars, rpcVars, serveVars, postVars, chunk_read, joined, gpuVars>>

\* wait_read_chunk(last chunk of the tensor).
WaitRead ==
  /\ pc = "wait_read" /\ ~TensorRead
  /\ ReapNext
  /\ UNCHANGED <<clientVars, rpcVars, pc, after, serveVars, postVars, joined, gpuVars>>

WaitReadDone ==
  /\ pc = "wait_read" /\ TensorRead
  /\ Goto("wait_step")
  /\ UNCHANGED <<clientVars, rpcVars, serveVars, postVars, chunk_read, joined, gpuVars>>

\* The response, then run() goes on with try_step().
Reply ==
  /\ pc = "reply"
  /\ output_queue' = Append(output_queue, request)
  /\ Goto("try_step")
  /\ UNCHANGED <<clientVars, input_queue, serveVars, postVars, chunk_read, joined, gpuVars>>

\* Mutant: close() joins cuda_thread and goes on to free the buffers.
WaitThreadNotJoined == TRUE
WaitThreadDrained == wait_done = wait_submitted

\* close(): destroy_threads joins cuda_thread, then wait_thread, each after it
\* has run what was submitted; then streams, buffers and files are released.
JoinCuda ==
  /\ pc = "join_cuda"
  /\ cuda_done = cuda_submitted
  /\ Goto("join_wait")
  /\ UNCHANGED <<clientVars, rpcVars, serveVars, postVars, chunk_read, joined, gpuVars>>

JoinWaitAndFree ==
  /\ pc = "join_wait"
  /\ WaitThreadDrained
  /\ joined' = TRUE
  /\ Goto("reply")
  /\ UNCHANGED <<clientVars, rpcVars, serveVars, postVars, chunk_read, gpuVars>>

-----------------------------------------------------------------------------
(* Storage, cuda_thread, CUDA stream and wait_thread.                      *)

LoaderAndClient == <<clientVars, rpcVars, pc, after, serveVars, postVars,
                     chunk_read, joined>>

\* The reads of an issued chunk complete, in any order between chunks.
ReadsComplete(c) ==
  /\ Alive
  /\ c \in 0 .. cuda_submitted
  /\ c \notin reads
  /\ reads' = reads \cup {c}
  /\ window' = [window EXCEPT ![WindowOf(c)] = c]
  /\ UNCHANGED <<LoaderAndClient, cuda_done, event, dev_done, wait_reaped, wait_done, mem>>

\* cuda_func of the next chunk: wait for its reads, enqueue the copy, record
\* the event; then the worker finds room for its result.
CudaRun ==
  LET c == cuda_done + 1
  IN /\ Alive
     /\ c <= cuda_submitted
     /\ c \in reads
     /\ cuda_done - wait_reaped < MaxPrefetchChunks
     /\ cuda_done' = c
     /\ event' = [event EXCEPT ![WindowOf(c)] = c]
     /\ UNCHANGED <<LoaderAndClient, reads, window, dev_done, wait_reaped, wait_done, mem>>

\* The stream copies what the window holds by then.
StreamCopy ==
  LET c == dev_done + 1
  IN /\ Alive
     /\ c <= cuda_done
     /\ dev_done' = c
     /\ mem' = [x \in Slots |-> IF x \in ChunkSlots[c] THEN window[WindowOf(c)] ELSE mem[x]]
     /\ UNCHANGED <<LoaderAndClient, reads, window, cuda_done, event, wait_reaped, wait_done>>

\* Mutant: wait_func does not synchronize with the event.
EventPassedUnchecked(c) == TRUE
EventPassed(c) == event[WindowOf(c)] <= dev_done

\* wait_func of the next chunk reaps cuda_func, then synchronizes with the
\* event; then the worker finds room for its result.
WaitReap ==
  LET c == wait_done + 1
  IN /\ Alive
     /\ wait_reaped = wait_done
     /\ c <= wait_submitted
     /\ c <= cuda_done
     /\ wait_reaped' = c
     /\ UNCHANGED <<LoaderAndClient, reads, window, cuda_done, event, dev_done, wait_done, mem>>

WaitRun ==
  LET c == wait_done + 1
  IN /\ Alive
     /\ wait_reaped = c
     /\ EventPassed(c)
     /\ wait_done - chunk_read < MaxPrefetchChunks
     /\ wait_done' = c
     /\ UNCHANGED <<LoaderAndClient, reads, window, cuda_done, event, dev_done, wait_reaped, mem>>
-----------------------------------------------------------------------------
ServeRequest == ServeOpen \/ ServeGet \/ ServeClose

LoaderThread ==
  \/ Exit \/ TopReceive \/ TopStep \/ ServeRequest
  \/ TryStep \/ TryPoll
  \/ WindowWait \/ WindowFree \/ IssueReads \/ SubmitWait \/ IssueOnStopped
  \/ PollReap \/ PollEnd
  \/ WaitStepDone \/ WaitStepPost \/ WaitStepBlock \/ WaitRead \/ WaitReadDone
  \/ JoinCuda \/ JoinWaitAndFree \/ Reply

Client == ClientOpen \/ ClientGet \/ ClientClose \/ ClientReceive

\* The process is over, or the loader thread has left and nobody asks for more.
Terminated ==
  /\ pc = "crashed" \/ (pc = "exited" /\ client = "closed")
  /\ UNCHANGED vars

Next ==
  \/ Client
  \/ LoaderThread
  \/ \E c \in Chunks : ReadsComplete(c)
  \/ CudaRun \/ StreamCopy \/ WaitReap \/ WaitRun
  \/ Terminated

\* Every thread keeps being scheduled, reads and copies complete.  Nothing
\* obliges the Python thread to ask for a tensor or to leave the context.
Fairness ==
  /\ WF_vars(LoaderThread)
  /\ WF_vars(ClientReceive)
  /\ \A c \in Chunks : WF_vars(ReadsComplete(c))
  /\ WF_vars(CudaRun)
  /\ WF_vars(StreamCopy)
  /\ WF_vars(WaitReap)
  /\ WF_vars(WaitRun)

Spec == Init /\ [][Next]_vars /\ Fairness
-----------------------------------------------------------------------------
(* What a correct loader guarantees.                                       *)

Request == [id : Nat, op : {"OPEN", "GET_TENSOR_PTR", "CLOSE"},
            tensor : Tensors \cup {NoTensor}]

ClientTypeOK ==
  /\ client \in {"new", "opening", "idle", "getting", "closing", "closed"}
  /\ next_tensor \in 0 .. NumTensors
  /\ held \in Tensors \cup {NoTensor}
  /\ latest_req_id \in Nat
  /\ input_queue \in Seq(Request)
  /\ output_queue \in Seq(Nat)

LoaderTypeOK ==
  /\ pc \in {"top", "receive", "try_step", "window", "issue", "complete", "poll",
             "wait_step", "wait_read", "join_cuda", "join_wait", "reply",
             "exited", "crashed"}
  /\ after \in {"top", "wait_step"}
  /\ request \in Nat
  /\ opened \in BOOLEAN /\ stop \in BOOLEAN /\ joined \in BOOLEAN
  /\ current_tensor_index \in Tensors

PipelineTypeOK ==
  /\ chunk_reading \in Cursor /\ chunk_read \in Cursor
  /\ cuda_submitted \in Cursor /\ wait_submitted \in Cursor
  /\ cuda_done \in Cursor /\ dev_done \in Cursor
  /\ wait_reaped \in Cursor /\ wait_done \in Cursor
  /\ reads \subseteq Chunks
  /\ window \in [0 .. IoDepth - 1 -> Cursor]
  /\ event \in [0 .. IoDepth - 1 -> Cursor]
  /\ mem \in [Slots -> Cursor]

\* Every variable keeps its type.
TypeOK == ClientTypeOK /\ LoaderTypeOK /\ PipelineTypeOK

\* The chunks a read or a copy of which may still be writing.
InFlight == dev_done + 1 .. cuda_submitted

\* A tensor the caller holds, from the response of get_tensor_ptr to the next
\* request, is complete and nothing is overwriting it: its slots hold its own
\* chunks, and no chunk in flight is copied to them.  Prefetching goes on at
\* the same time, up to prefetch_chunk_id.
HeldTensorIntact ==
  held # NoTensor =>
    \A x \in TensorSlots[held] :
      /\ mem[x] \in FirstChunk[held] .. LastChunk[held]
      /\ \A c \in InFlight : x \notin ChunkSlots[c]

\* Two chunks in flight never share a host window, an event or an iocb group:
\* post_read_chunk waits for chunk_id - io_depth first.
WindowExclusive ==
  \A c, d \in InFlight : c # d => WindowOf(c) # WindowOf(d)

\* A chunk reported complete is on the device: the event wait_func
\* synchronizes with was recorded after this chunk's copy.
CompleteMeansCopied == wait_done <= dev_done

\* The loader thread is both submitter and reaper of wait_thread, and wait_thread
\* reaps cuda_thread.  No task or result queue is full when one of them has to
\* push, so none stalls while the other waits for it: post_read_chunk leaves no
\* more chunks outstanding than a queue holds.
SubmitNeverBlocks ==
  /\ pc = "issue" => cuda_submitted - cuda_done < MaxPrefetchChunks
  /\ pc = "complete" => wait_submitted - wait_done < MaxPrefetchChunks
  /\ cuda_done < cuda_submitted => cuda_done - wait_reaped < MaxPrefetchChunks
  /\ wait_done < wait_submitted => wait_done - chunk_read < MaxPrefetchChunks

\* Streams, host windows and the device buffer are released only when no read
\* and no copy is still under way.
FreedWhenQuiet == joined => InFlight = {}

\* Neither an internal assertion nor a stopped executor ends the process.
NeverCrashes == pc # "crashed"

Stages == INSTANCE ChunkStages WITH
  posted <- cuda_submitted, landed <- 0 .. dev_done,
  reported <- wait_done, read <- chunk_read,
  Depth <- Smaller(MaxPrefetchChunks, IoDepth)

\* The pipeline behind the loader thread is what ChunkStages promises, and
\* what ChunkIO shows of each backend: chunks are reported in order, each after
\* its data are on the device, and post_read_chunk keeps to the depth.
ImplementsStages == Stages!Spec

Phase == IF client \in {"new", "opening"} THEN "new"
         ELSE IF client = "closed" THEN "closed" ELSE "open"
Current == IF held # NoTensor /\ HeldTensorIntact THEN held ELSE NoTensor

Stream == INSTANCE TensorStream WITH
  phase <- Phase, delivered <- next_tensor, current <- Current

\* To its user a session is a stream of tensors: all of them in order, each
\* complete when it is handed out and unchanged until the next request,
\* whatever is prefetched into the same buffer meanwhile.
ImplementsStream == Stream!Spec

\* Every call of the Python thread returns: posting, window waits, the two
\* executors, the stream and the RPC queues never wait for each other.
CallsReturn ==
  client \in {"opening", "getting", "closing"} ~> client \in {"idle", "closed"}

\* While the caller works on a tensor, prefetching proceeds to its bound with
\* no further call.
PrefetchProceeds ==
  \A t \in Tensors :
    held = t ~> chunk_reading = PrefetchChunk[t] \/ held # t

\* After close() has been answered the loader thread leaves run().
ThreadEnds == client = "closed" ~> pc = "exited"
=============================================================================
