# InstantTensor in TLA+

InstantTensor loads the tensors of safetensors files into GPU memory. A Python
context manager (`safe_open`) iterates over the tensors in file order; a C++
loader thread reads the files chunk by chunk ahead of the caller, copies the
chunks into a device buffer that is used as a ring, and hands out pointers into
it. These modules specify the parts whose correctness depends on order: threads,
queues, the reuse of windows and of the device buffer, and the arithmetic that
decides what may be overwritten when.

Paths below are relative to `src/`; `loader_common.cpp` etc. are in `csrc/`,
headers in `csrc/instant_tensor/`.

## 1. Inventory

### Components, their state and operations

| component | source | state | operations |
|---|---|---|---|
| Task executors | `async_executor.hpp`, `function_executor.hpp`, `queue.hpp` | bounded task and result queues, worker threads, the reaper's cache `completed_results`, open/stopped/joined flags | `submit`, `ready`, `wait`, `try_reap`, `reap`, `stop`, `join`, `worker_loop` |
| Loader thread | `loader_common.cpp`, `loader.hpp` | `current_tensor_index`, `chunk_reading`, `chunk_read`, `stop`, `tensors`, `chunks` | `run`, `dispatch`, `open`, `get_tensor_ptr`, `close`, `can_step`, `try_step`, `step`, `wait_step`, `post_/poll_/wait_read_chunk` |
| Chunk pipeline | the `loader_io_*.cpp` backends, CUDA | `io_depth` host windows, CUDA events and iocb groups, each reused every `io_depth` chunks; the CUDA stream | reads into a window, `cuda_func` on `cuda_thread`, the copy, `wait_func` on `wait_thread` |
| Layout | `compute_layout`, `init_buffer` in `loader_common.cpp` | chunk table, tensor table | one pass over the tensor offsets |
| RPC and manager | `main.cpp`, `queue.hpp`, `types.hpp` | input and output queue per handle, `latest_req_id`, `device_idx` | `call`, `get_result`, `open`, `get_tensor`, `close` |
| Distributed loading | backends, `_impl.py` | NCCL stream, communicator | AllGather per chunk, collective choice of the memory limit |
| Python front end | `src/instanttensor/_impl.py` | metadata, handle, I/O parameters | `__init__`, `_determine_*`, `__enter__`, `tensors()`, `__exit__`, backend selection |
| Host buffer cache | `io_context.hpp` | cached pinned buffers | `get`, `put` |
| Bindings | `dl_binding/*`, `dlpack_utils.hpp` | dlopen tables | none with state of their own |

### How they interact

The Python thread and the loader thread share nothing but the two RPC queues: a
call pushes a request and then blocks for the response with its id. Between
calls the loader thread goes on prefetching; `run()` receives a request when
there is one or when it cannot step, and steps otherwise. Posting a chunk submits
`cuda_func` to `cuda_thread` and `wait_func` to `wait_thread`; `wait_func` reaps
`cuda_func` and synchronizes with the chunk's CUDA event; the loader thread reaps
`wait_func`, which is how it learns that a chunk has been loaded. `wait_thread`
is thus a worker of one executor and the reaper of another, and the loader thread
is submitter of both and reaper of one. The device buffer is shared by the copies
in flight and by the caller, who reads a tensor in it between two calls; only the
bound `prefetch_chunk_id` keeps them apart.

### What is hard, and what makes each part correct

* **Executors.** Bounded queues on both sides: a submitter that is also the reaper
  can deadlock with the worker. Results arrive out of order and are cached;
  each must be delivered once. `join()` sends one sentinel per worker behind the
  work that is queued. Correct: no result lost or delivered twice, every task runs
  once, `join()` returns and leaves nothing behind, one worker means order.
* **Loader and pipeline.** Windows and events are reused while earlier chunks are
  still being copied; prefetching runs concurrently with the caller's reads from
  the same buffer; requests arrive at any point of it; `close()` frees what the
  pipeline uses. Correct: a tensor that was handed out is complete and stays
  intact until the next call; every call returns; nothing is freed while in use.
* **Layout.** Page residues, padding, wrap-around and several files decide where
  a chunk goes. Correct: tensors are complete, aligned, inside the buffer, and the
  prefetch bound is neither too far nor too near.
* **Backends.** A thread or a rank may have nothing to read of a chunk; completions of
  different chunks mix; the last page of a file is submitted by another thread; a pool's
  queue may be shorter than one chunk's tasks; events are recorded twice when there is a
  process group. Correct: a chunk is reported only once every rank's part of it is on the
  device, and it is reported.
* **Manager, cache, front end.** Several sessions in one process: handles, responses,
  queues freed by the loader thread, host buffers that pass from one loader to another,
  parameters that all ranks must agree on. Correct: sessions do not notice each other.

`PROJECT.json` lists the hazards line by line.

## 2. Modules

| module | what it is |
|---|---|
| `TaskService` | what an executor promises: submitted tasks run once, results are delivered once, joining waits for all |
| `ChunkStages` | what the chunk pipeline of a rank promises: posted in order, reported in order, each only when it is on the device |
| `TensorStream` | what a session promises its user: each tensor once, in order, readable until the next request |
| `Executor` | `ExecutorCore` with `FunctionWorkerDriver`; refines `TaskService` |
| `ExecutorProofs` | theorems about `Executor` and their proofs |
| `MCExecutor` | instances of it |
| `Layout` | `compute_layout` and the sizes of `init_buffer` as operators on a record of the function's local variables |
| `LayoutContract` | what the loader needs of a layout; `Loader` assumes it, `LayoutProofs` proves it |
| `LayoutSteps` | `Layout` as a state machine, and the properties of the result |
| `LayoutInv`, `LayoutProofs` | its inductive invariant in named parts; theorems and their proofs |
| `MCLayout` | inputs for it |
| `Loader` | client, RPC queues, loader thread and chunk pipeline of one rank; implements `ChunkStages` and `TensorStream` |
| `LoaderInv` | the inductive invariant of `Loader`, in named parts |
| `LoaderProofs` | theorems about `Loader` and their proofs |
| `LoaderRefinement` | theorems that `Loader` implements the two |
| `MCLoader` | instances on a ring of equal slots |
| `MCLoaderLayout` | an instance on a layout that `Layout` computes, spelled out and checked against it |
| `ChunkIO` | every backend's `post_read_chunk`, read by read, on all ranks of a group, with kernel or worker pool, streams, AllGather and `wait_thread`; implements `ChunkStages` on every rank |
| `ChunkIOInv`, `ChunkIOProofs` | its inductive invariant in named parts; theorems, the refinement included, and their proofs |
| `MCChunkIO` | an instance of it |
| `FrontEnd` | backend selection, I/O parameters and buffer size as operators |
| `FrontEndProofs` | lemmas about those operators: the backend chosen is available, parameters stay positive, the agreed limit is no more than any rank's, the buffer holds every tensor |
| `Manager` | several `safe_open` objects, `LoaderManager`, loader threads and host buffer cache; each object implements `TensorStream` |
| `ManagerInv`, `ManagerProofs` | its inductive invariant in named parts; theorems, the refinement included, and their proofs |
| `MCManager` | instances of it |
| `OrderLemmas` | facts about numbers and queues that several proofs need |

`ChunkStages` ties the two views of the pipeline together: `Loader` has one completion per
chunk and one rank but the whole of the loader thread and the device buffer, `ChunkIO` has
the single reads, all backends and all ranks but a loader thread that only posts and reaps. `TensorStream`
does the same for a session: `Loader` has one with its data, `Manager` several with
their handles.

### Correspondence with the code

**`Executor`.** `task_queue`, `result_queue`, `completed_results`, and
`lifecycle` are the members of `ExecutorCore`; `worker[w]` is where thread `w` is
in `worker_loop` and the one task its driver holds. `submit()` is `Submit`, the checks,
followed by `PushTask`, the push that spins until there is room. `join()` is `Close`, one
`PushStop` per worker and `JoinWorkers`. A reaper call is `BeginReap` and then
one `PopResult` per `try_pop`, or `GiveUp` when a non-blocking call finds the queue
empty; `ReapCached` is a call that finds its result in the cache. `executed` and `reaped` are
history. A payload that throws ends the process, so payloads return.

**`Layout`.** The record `s` has the locals of `compute_layout` as fields
(`file`, `file_offset`, `device_offset` and `current_size` for the `chunk_...` ones).
`FinishChunk`, `ResetBufferOffset` and `ResetFile` are its three lambdas;
`PlaceTensor`, `SplitChunk` and `RecordTensor` the loop body before, inside and after the
inner `while`; `NextFile` its `continue` branch; `Finish` what follows the loop. The while
loops over `in_buffer_tensor_id` are closed forms (`FirstNotBelow`, `Leave`). The `throw`s set
`failed`. `tensor_id` is the length of `tensors`. Sizes are unbounded integers; the code's
`size_t` cannot overflow for files and buffers of a real size.

**`Loader`.** `pc` is where the loader thread is: `top` (the loop of `run()`), `receive` (the
blocking pop), `try_step`, then `window` (`wait_read_chunk(wait_chunk_id)`), `issue` and
`complete` (the backend's reads with its submit to `cuda_thread`, and its submit to
`wait_thread`), `poll` (`poll_read_chunk`), `wait_step` and `wait_read`
(`get_tensor_ptr`), `join_cuda` and `join_wait` (`close`), `reply`.
`after` is the caller of `step()`. The executors are replaced by what `Executor`
guarantees of them, order and single delivery: the cursor `cuda_done` is the
last chunk whose `cuda_func` has run, `wait_reaped` and `wait_done` how far
`wait_thread` has come, `dev_done` the last chunk whose copy has been done by
the stream. `reads` and `window` say which chunks' reads have completed and
whose data each host window holds; a copy takes what the window holds when it
happens. `event[i]` is the chunk event `i` was last recorded for, and
`cudaEventSynchronize` waits for *that*. `mem[x]` is the chunk whose bytes are at device
slot `x`. `opened` stands for all that `open()` sets up.

An exception in the loader thread or an executor leaves a detached thread and
ends the process: `pc = "crashed"`.

The client does what `safe_open` does: opens, asks for tensors
one after the other, holds each until it asks for the next, and leaves the
context. `EarlyExit` says whether it may leave before the last tensor.

**`ChunkIO`.** A read is `<<c, i>>`, the part of chunk `c` that thread `i` of the rank reads;
`ThreadSize` is the expression all backends use for its size, and `ReadsOf` leaves out the
empty ones. `BeginPost`, `SubmitRead` and `HandOver` are `post_read_chunk_*` on the loader
thread. A read is then queued (`tasks`, for a worker or
`last_page_reader_thread`), with the kernel or a worker (`inflight`), completed
(`completions`: CQEs, aio events or results of the pool) and consumed by some chunk's `cuda_func`
(`Collect`): counted down in `unfinished_cnt` of its own chunk, or cached in the pool's
`completed_results`. `buffer` says whose data a part of a host window holds.
`CudaFuncEnd` enqueues copy and AllGather and records the event; `StreamCopy`, `AllGather` and
`WaitFunc` are what streams and `wait_thread` do. The code's `wait_func` waits for the
event its window has, so `EventPassed` looks at `event`, never at the chunk. `mapped` is
the mmap backend with `INSTANTTENSOR_USE_INTERNAL_MEMORY_REGISTER`. URING and URING_BUFFERED, AIO and
AIO_BUFFERED differ in flags and alignment only. (The comments at
`loader_io_uring.cpp:7-15` and `:315` speak of a `uring_thread`; there is none any more, the loader thread
submits, and so does the model.)

**`FrontEnd`.** Sizes are in MiB, `None` is -1, and an environment variable counts as an
argument that was given. `90%` is written without fractions. `avails` has each rank's free
memory times `max_free_mem_usage`. Arguments are positive numbers or left out (`ArgumentRecord`): the code does
not check that, and would divide by a zero.

**`Manager`.** `stage`, `iterated`, `invalidated` and `loader_handle` are the fields of
`safe_open`; `next_tensor` and `held` where its generator is. `latest_req_id[h]` is the
entry of `loader_handle_to_queue`, absent after `close()`; `call` is the call that holds
the GIL, which the extension never releases. A loader serves a request in one
step, since `Loader` has the details; `ServeOpen` takes a host buffer, from the cache
if one fits, and `ServeClose` puts it back. `EndThread` destroys the loader and both queues,
whether or not the caller has popped the response to CLOSE: if it has not, it reads freed memory, and
the process may end (`crashed`) or go on with what it finds there, still the response. Nothing in the code
makes the loader wait; it has `try_step()` and its destructor to run after the push, while the
caller spins on the queue. Nor does the code keep a user from resuming a generator or entering a context again after
`__exit__`: `NextTensor` and `Leave` can happen then, find no queues, and end the process. No
document of the repository speaks of either case, so no property says they cannot happen; `CallsReturn` names them as
exceptions, and `NoNullHandle` is about calls inside a context and the first step of `tensors()`.

## 3. Runs

Executor:

| run | instance | shows |
|---|---|---|
| `executor_pool` | 2 workers, 4 tasks, 2 with results, queues of 2 and 1, separate reaper | no result is lost, doubled or misdelivered; tasks run once; `join()` drains; every call returns; refinement of `TaskService` |
| `executor_bounded` | 1 worker, 6 tasks, one thread submits and reaps and never has to reap | submission order, on which `Loader` relies; bounding what is outstanding by the queue capacity, which is what `post_read_chunk` does, is enough for `submit()` and `join()` to return |

Queues of one or two slots fill up and drain several times with this many tasks; two workers are
the fewest that can finish out of order or steal each other's sentinel.

Layout (pages of 4 bytes, alignment 2, chunks of 8 bytes per rank, buffers of 40 to 90):

| run | inputs | shows |
|---|---|---|
| `layout_ranks` | two ranks; all 18432 lists of five tensors of 0, 3, 20 or 42 bytes over at most two files, data beginning on a page or not, smallest buffer allowed | the internal checks hold; every byte of a tensor is in place from `last_chunk_id` to `prefetch_chunk_id`; bounds are ordered, and without empty tensors cannot be further; tensors and their chunks are inside the buffer; tensors are aligned |
| `layout_buffer` | one rank, four tensors of 3, 20 or 34 bytes | *violated*: a chunk of header bytes beyond the buffer |
| `layout_empty` | two tensors, empty ones included | *violated*: the `last_chunk_id` of an empty tensor does not exist, or is beyond the tensor's own `prefetch_chunk_id` |
| `layout_keep` | eight tensors of 5 bytes in up to eight files, buffer as large as their total | *violated*: tensors are placed over each other although the buffer is no smaller than they are |

In these instances layers hold one to five tensors and the buffer wraps around up
to four times; tensors begin anywhere in a page, and are smaller and larger than a
chunk. With two ranks a chunk's padding is written as well, which contains what a single rank
writes.

Loader:

| run | instance | shows |
|---|---|---|
| `loader_full` | 10 chunks, 5 tensors in 2 files, a buffer of 54 bytes, `io_depth` 3, queues of 4 | on a layout that `Layout` computes (`LayoutIsComputed` and `LayoutAssumption` are checked of it): tensors intact, windows exclusive, completion means copied, no exception; calls return, prefetching proceeds by itself, the thread ends; `ChunkStages` and `TensorStream` are implemented |
| `loader_early` | 9 chunks, 6 tensors, ring of 6 slots, `io_depth` 6, queues of 2; the context may be left at any point | tensors intact; nothing is freed while a read or copy is under way; no queue is full when its producer pushes, although `io_depth` is larger than the queues |
| `loader_stopped` | early exit | *violated*: `NeverCrashes`, see findings |

Chunk ids are not abstracted, so the bounds are on the length of a session. Nine or
ten chunks pass through a buffer of five or six and three windows: each is reused
with a tensor held, tensors span one, two and three chunks and share chunks with
their neighbours, and prefetching is stopped by the bound, by the window and by
the end of the files. `MAX_PREFETCH_CHUNKS` is 1024 in the code, 2 and 4 here;
both orders of it and `io_depth` occur.

Backends:

| run | instance | shows |
|---|---|---|
| `backends` | five backends, one rank with two threads or two ranks with one; 3 chunks of 4, 3 and 1 bytes in pages of 2; 2 windows, queues of 2; cuFile may read short | counters exact; `ChunkStages` implemented on every rank, with the data of all ranks; what all have posted is reported |

The first chunk fills every part, the second ends inside a page (so libaio's
last-page thread runs while other reads are with the kernel), the third leaves a thread
or a rank without a read and reuses the first one's window. A pool of two threads with a queue of two fills up.

Manager:

| run | instance | shows |
|---|---|---|
| `manager` | three objects: all defaults, files in memory, all arguments given; two ranks whose free memory is the same or very different; cached host buffers | no call inside a context goes through an erased handle; host buffers exclusive and large enough; parameters possible on every rank; every object a `TensorStream`; calls return and threads end, but for the two cases of section 2 in which the process may end instead |
| `manager_device` | two objects on different devices | *violated*: `TensorsOnOwnDevice`, see findings |

Three sessions are the fewest in which a handle could be taken from the number of open ones
and collide, and a cached buffer be offered to two loaders. The memory limit rejects one
of them, shrinks `io_depth` of another and both parameters of the third.

Deadlock is checked in all runs but `backends`, where ranks may stop posting. `Finished`, `Done` and `Terminated` are the states in which
the modelled program has stopped.

### Fairness

`Executor`: a call that is in progress goes on (each `push` and `pop` loop spins
in a thread that is scheduled), and worker threads are scheduled. Nothing obliges the caller to
submit, reap or join. `SpecWithReaper` adds a caller who goes on reaping, which is what the
comment on `submit()` asks for; `executor_bounded` does without.
`Loader`: loader thread, `cuda_thread` and `wait_thread` are scheduled, reads and copies
complete, and the Python thread receives a response that is there. It is not
obliged to ask for a tensor or to leave the context, so `PrefetchProceeds` holds
while the caller does nothing. Weak fairness is enough throughout: no action that one of these
threads waits for is disabled again before it is taken. Each thread has one fairness condition
for all of its steps.
`ChunkIO`: every thread, worker and stream goes on, reads complete, and AllGather runs when all ranks
have come to it. Nothing obliges a rank to post, which is why `EveryChunkReported` speaks of
chunks that all ranks have begun to post.
`Manager`: loader threads answer and end (`CallsReturn` and `ThreadEnds` of `Loader`), and
`get_result` goes on looking. Nothing obliges the user to do anything.

### Findings

* `loader_stopped`: `run()` calls `try_step()` after every request, CLOSE included.
  With chunks left to prefetch it posts one to executors that `close()` has just
  joined, and `submit()` throws.
* `layout_buffer`: the header bytes in front of a file that begins at the very end
  of the buffer are emitted as a chunk beyond it.
* `layout_empty`: an empty tensor is given the id of the chunk being filled, although it has no byte
  in it: one that may never be emitted, or that the tensor's own prefetch bound keeps from being posted.
* `layout_keep`: a buffer of `total_tensor_size` bytes may wrap around when there are many
  files; README and warning say it does not.
* `manager_device`: the manager has one `device_idx` for all handles; a second context on another
  device relabels the tensors of the first.

## 4. Proofs

`LoaderProofs` proves, for every layout, `io_depth`, queue capacity and number of tensors and
chunks allowed by `SizesAssumption` and `LayoutAssumption`:

| theorem | property |
|---|---|
| `TypeCorrect` | `TypeOK`: in particular no cursor runs past the last chunk |
| `HeldTensorStaysIntact` | `HeldTensorIntact` |
| `WindowsStayExclusive` | `WindowExclusive` |
| `CompletionMeansCopied` | `CompleteMeansCopied` |
| `SubmitNeverStalls` | `SubmitNeverBlocks` |
| `FreedOnlyWhenQuiet` | `FreedWhenQuiet`, early exits included |
| `CompleteSessionNeverCrashes` | `NeverCrashes`, assuming `~EarlyExit` |

`LoaderRefinement` proves with the same invariant

| theorem | property |
|---|---|
| `LoaderImplementsStages` | `ImplementsStages`: the pipeline behind the loader thread is a `ChunkStages` |
| `LoaderImplementsStream` | `ImplementsStream`: the session is a `TensorStream` |

by mapping the initial states and, action by action, each step to a step of the abstract
specification or a stutter. `BoundedOutstanding` gives the guard of `Post`, `WindowsKept`
that of `Report`.

**Assumptions.** Sizes are positive. `LayoutAssumption` is what the loader needs of
`compute_layout`: every slot of a tensor is written by one of the tensor's
chunks, and by no chunk after them up to `prefetch_chunk_id`; the bounds never
decrease and are not before the tensor's own last chunk; the last tensor ends with the last
chunk. That is `Contract` of `LayoutContract`, and `ContractMet` of `LayoutProofs` proves it of every
layout that `compute_layout` computes, but for those with an empty tensor whose last chunk cannot be reached
(finding `layout_empty`).

**Argument.** None of the properties is inductive: what a slot holds depends on
which chunks have been posted, and that on which request was answered last. `IInv`
(`LoaderInv`) adds:

* `StagesInOrder`: reaped ≤ waited ≤ copied ≤ `cuda_func` run ≤ submitted, and reads complete
  before `cuda_func`;
* `PostingProgress`: `pc` tells exactly which of a chunk's two tasks have been submitted;
* `BoundedOutstanding`: at most min(`io_depth`, `MAX_PREFETCH_CHUNKS`) chunks are posted and not
  reaped. From it follow the exclusive windows, and that no queue is full;
* `WindowsKept`: a window keeps its chunk until it is copied, an event its record until its
  chunk is reaped; so a copy moves the right data and `wait_func` waits for the right copy;
* `LastCopyWins`: each slot holds the last chunk copied to it;
* `WithinPrefetch`: nothing is posted beyond the bound of the current tensor;
* `CallInOnePlace`, `SessionPhase`, `CurrentTensor`: a call is in the input queue, being served,
  or in the output queue, and has had its effect when it is answered; the
  loader's current tensor is the caller's;
* `Released`, `CrashOnlyAfterEarlyExit`: what holds after `close()`.

A held tensor is then intact because its chunks have been copied (`CurrentTensor`,
`StagesInOrder`), the last copy to each of its slots came from them (`LastCopyWins` and the
layout), and what is in flight is within its bound (`WithinPrefetch`). `NextIInv` has a lemma
per action, with a step for each part the action can disturb.

`ExecutorProofs` proves, for any number of tasks, set of workers and capacity of the queues:

| theorem | property |
|---|---|
| `TypeCorrect` | `TypeOK`: neither queue overflows |
| `ExecutedOnce` | `RunsOnce` |
| `OnePlace` | `ResultInOnePlace` |
| `DrainedByJoin` | `JoinDrains` |
| `InSubmissionOrder` | `SingleWorkerInOrder`, the order `Loader` assumes of `cuda_thread` and `wait_thread` |
| `ExecutorImplementsService` | `ImplementsService`: the executor is a `TaskService` |

from `ExecutorAssumption` alone: there is at least one worker, and queues hold at least one item.

**Argument.** `IInv` of `ExecutorProofs` says

* `QueueOfSubmitted`, `TakenInOrder`: ids increase along the task queue, sentinels come last, and
  whatever has been taken is older than what is queued; so no task comes back;
* `NoneLost`: a submitted task is queued, with a worker, or has run;
* `WorkersApart`: no two workers hold the same task;
* `ResultsApart`, `NoResultLost`: the four places a result can be in are disjoint, `result_queue` has
  no id twice, and together they hold the result of every executed task that needs one;
* `StopsLast`: sentinels are pushed after the last `submit()`, and when a worker has met one only
  sentinels are left in the queue. `JoinDrains` follows: once all have left, no worker holds a task and the queue
  has none;
* `OneByOne`: what a single worker runs is younger than all it has run.

Steps that move no task and no result share a lemma (`QuietStep`); the others have one each. In
the refinement `PushTask` is `Submit`, `Process` is `Execute`, `ReapCached` and a
`PopResult` that finds its id are `Deliver`.

`LayoutProofs` proves, for every list of offsets, buffer size, alignment, number of threads and ranks:

| theorem | property |
|---|---|
| `LayoutNeverFails` | `NoInternalError` |
| `PrefetchKeeps` | `PrefetchKeepsTensor`: a tensor is complete from its last chunk on, and stays so up to its bound |
| `PrefetchGoesOn` | `PrefetchReaches` |
| `PrefetchIsFurthest` | `PrefetchFurthest`: the chunk after a bound takes bytes of a tensor the bound protects |
| `ChunksWithTensorsFit` | `TensorsInBuffer` |
| `AddressesAligned` | `TensorsAligned` |
| `ContractMet` | the result is a model of `LayoutContract` |

It assumes of the constants that sizes are positive and the page size is a multiple of the tensor alignment
and divides the chunk size (`LayoutSizesAssumption`), and of the offsets what `safe_open` makes sure of
(`WellFormed`): files come in order, each with its end, tensors in a file are contiguous, and none is larger than
the buffer.

**Argument.** `IInv` (`LayoutInv`) follows every byte of every tensor through the loop. `CurrentLayer`: a
byte of a tensor placed since the last wrap-around is in a chunk that has been emitted, or pending in the
one being filled. `LayerBefore`: a byte of a tensor of the layer before is in an emitted chunk and no chunk
since was copied over it, for as long as the tensor has not left (`Leave`). `Left`: a
tensor that has left has its bound, and no chunk up to it was copied over one of its bytes. Chunks of a layer are
emitted from left to right, so that finishing a chunk endangers only what `Leave` removes.
`Position` and `Address` tie the cursors of the loop to the offsets; `PendingFits`, `SplitFits`
and `InBufferOrHeader` keep chunks with a tensor in the buffer.

For `PrefetchFurthest`, `Blocks` names, for each bound, the tensor whose first byte the next chunk takes. When a
tensor leaves at a wrap-around that chunk does not exist yet; it will be the first of a layer, and take every
address at which the first tensor of a layer can begin (`LayerBegins`). `NotPassed` says that a tensor still in the buffer begins
no earlier than where filling goes on, so that the chunk it leaves with takes its first byte; after
`NextFile` it may begin in the gap that aligns the file's first tensor. `finish_chunk` compares with the end of a chunk
only and lets a tensor in that gap leave too, although the chunk does not touch it. `PrefetchFurthest` therefore counts
this gap (`Padding`) as taken, and is about layouts without empty tensors, which lose nothing to any chunk.

`ChunkIOProofs` proves, for every backend, number of threads and ranks, `io_depth`, page and chunk size:

| theorem | property |
|---|---|
| `TypeCorrect` | `TypeOK`: no cursor runs past the last chunk, no counter below zero |
| `CountersAreExact` | `CountersExact` |
| `BackendsImplementStages` | `ImplementsStages`: every rank is a `ChunkStages`, with the data of all ranks |

from `ConstantsAssumption` (sizes are positive). The third assumes `NoShortReads`: io_uring and libaio
return what was asked for, as the code's comments say, and mmap reads by `memcpy`, which cannot be short (its
`cuda_func` reaps the tasks and ignores their results). Only cuFile may read short: its `cuda_func` alone compares
results with the sizes asked for.

**Argument.** `IInv` (`ChunkIOInv`) has for each rank: `PlacesApart`, a read is in one place, from
`to_submit` to `collected`; `ReadsUnderWay`, it belongs to a chunk that is being posted or posted and
that `cuda_func` has not finished; `CountersKept`, so each counter is the number of such reads of its
chunk; `NothingSkipped`, a read that nobody waits for any more has been read; `WindowWhole`, so the window is whole when the
copy is enqueued, and stays so until it is copied, because at most `io_depth` chunks are posted and not reaped
(`CursorsInOrder`) and reaping follows the copy; `EventsKept`, the event `wait_func` waits for is the
chunk's own; `GatherInOrder` and `PartsOnDevice`, what the AllGather has passed is on every device.
In the refinement `BeginPost` is `Post`, `WaitFunc` is `Report` and `Reap` is `Reap`; the step that puts a
rank's last missing part on the device is `Land`: a cuFile read, a copy or an AllGather.

`ManagerProofs` proves, for any number of `safe_open` objects, tensors and ranks, and whatever the
arguments, devices, free memory and available backends:

| theorem | property |
|---|---|
| `TypeCorrect` | `TypeOK`: in particular handles do not run out |
| `NoNullHandles` | `NoNullHandle`: inside its context a session's calls find their queues |
| `BuffersExclusive` | `HostBuffersExclusive`: a host buffer is at one loader, large enough for it, or in the cache |
| `OpensWithinLimits` | `OpenedWithinLimits` |
| `SessionsImplementStreams` | `ImplementsStreams`: every object is a `TensorStream`, whatever the others do |

**Assumptions.** `ConstantsAssumption`: there are one or more tensors in an object's files, one or more ranks and
processors, and arguments are an `ArgumentRecord`. Nothing is assumed of the order in which the caller pops and the
loader thread ends.

**Argument.** `IInv` (`ManagerInv`) has

* `CallInOnePlace`: the request of the call in progress is in the input queue of its handle, or its response in
  the output queue, and all other queues are empty. What the response says of the session and
  of its loader is tied to that place (`Opening`, `Getting`, `Closing`), so it still holds when
  `get_result` reads it;
* `HandlesCounted`: as many handles have been given out as sessions have been opened, so each is new;
* `SessionsInOrder`: from `_open` to `__exit__` a session's handle has an entry and a running thread that
  serves no other; afterwards no call can be made through it. `NoNullHandles` follows;
* `HeldIsLast`: what the user may read is the tensor delivered last;
* `ParametersWithinLimits`: what `Construct` accepts, by the lemmas of `FrontEndProofs`;
* `BuffersInOnePlace`: ids of host buffers at loaders and in the cache are distinct, and were allocated.

In the refinement the `Receive` of a response to OPEN is `Open`, to GET_TENSOR_PTR `Deliver`, to CLOSE
`Close`; `NextTensor` and `Leave` are `Release` of the tensor the user held. All other steps stutter, and
so does every step for the sessions it is not about.

**Induction.** What holds of every argument of the recursive function `SumOf` (`FrontEnd`) is proved by taking the
least counterexample (`Least` in `OrderLemmas`, about one set of numbers at a time) and refuting it.

**Model-checked only.** Liveness (`CallsReturn` of `Loader` and of `Manager`, `PrefetchProceeds`,
`ThreadEnds`, `EveryTaskRuns`, `ReapReturns`, `JoinReturns`, `EveryChunkReported`), which depends on
fairness and is beyond the proof system. The five violated properties are
shown by their counterexamples.

## 5. Not modelled

* I/O errors, CUDA errors and exceptions in payloads: each ends the process. (cuFile's short
  reads are modelled up to that point.) A short read under libaio or io_uring is taken for whole
  by the code and for impossible by its comment (`loader_io_aio.cpp:117`); with one,
  `ImplementsStages` of `ChunkIO` fails, as it should.
* Opening, registering and closing files and rings; the io_depth statistics thread.
* A rank that leaves its context while others go on: they wait in their AllGather for
  ever, as in any collective.
* The deleter of a cached host buffer, which refers to the loader that allocated it.
* `keys()`, `metadata()` and the like, parsing of headers and of environment variables;
  distributed metadata reading, which is switched off.
* The memory a process uses between `__init__` and `open()`.
* DLPack conversion, dlopen tables, tests, benchmarks, build: no state of their own, or not part of
  the library.

## 6. Plan

1. *Done:* all modules of section 2; every safety property and refinement that a run checks is also a theorem.
2. Open: the hazards of section 5, which would need the rank's lifetime (communicator and streams) and the
   lifetime of a `Loader` that a cached buffer's deleter refers to in the models.
