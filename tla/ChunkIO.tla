------------------------------- MODULE ChunkIO -------------------------------
(***************************************************************************)
(* How the backends read one chunk after another, read by read, on every   *)
(* rank of a process group: post_read_chunk_uring, _aio, _inmem and        *)
(* _cufile, with the kernel or the worker pool that completes the reads,   *)
(* cuda_thread, the two CUDA streams, NCCL's AllGather and wait_thread.    *)
(* Loader has the rest of the loader thread; here it posts chunks whenever *)
(* post_read_chunk may, and a rank may stop posting at any time.           *)
(*                                                                         *)
(* "mapped" is the mmap backend with use_internal_memory_register, which   *)
(* copies to the device straight from the mapped file.  An ncclAllGather   *)
(* is one joint step of all ranks; enqueuing it never blocks.              *)
(***************************************************************************)
EXTENDS Integers, Sequences, FiniteSets

CONSTANTS
  Sessions,            \* what open() may be called with: the backend, the size
                       \* of the process group and num_threads
  NumChunks,
  ChunkSize,           \* Chunk::size per chunk
  ThreadAlignment,     \* PAGE_SIZE in the code
  IoDepth,
  MaxPrefetchChunks,   \* MAX_PREFETCH_CHUNKS: also the capacity of the pool's queues
  ShortReadBackends    \* where a read may return less than it was asked for

ASSUME ConstantsAssumption ==
  /\ \A s \in Sessions : /\ s.backend \in {"uring", "aio", "mmap", "mapped", "cufile"}
                          /\ {s.world_size, s.num_threads} \subseteq Nat \ {0}
  /\ {NumChunks, ThreadAlignment, IoDepth, MaxPrefetchChunks} \subseteq Nat \ {0}
  /\ ChunkSize \in [0 .. NumChunks - 1 -> Nat \ {0}]

Chunks == 0 .. NumChunks - 1
AllRanks == UNION {0 .. s.world_size - 1 : s \in Sessions}
NoChunk == -1
Cursor == Chunks \cup {NoChunk}

VARIABLES
  session,        \* what open() was called with, the same on every rank
  \* loader thread of each rank
  chunk_reading,  \* the chunk being posted, or the last one posted
  to_submit,      \* its reads that are not submitted yet
  posted,         \* last chunk whose cuda_func and wait_func are submitted
  chunk_read,     \* last chunk reaped
  \* reads of each rank
  tasks,          \* queued for the worker pool or last_page_reader_thread
  inflight,       \* with the kernel or a worker
  completions,    \* completed, not consumed: CQEs, aio events, pool results
  collected,      \* completed_results of the pool's executor
  unfinished,     \* Chunk::extra_data.unfinished_cnt
  buffer,         \* pieces whose data are in a host window (cufile: in place)
  failed,         \* the rank's process has ended with an exception
  \* device of each rank
  cuda_done,      \* last chunk whose cuda_func has run
  copied,         \* last chunk cuda_stream has copied
  event,          \* per cuda_event: the chunk it was last recorded for
  device,         \* <<c, q>>: rank q's part of chunk c is on the device
  wait_done,      \* last chunk whose wait_func has run
  gathered        \* last chunk AllGathered, by all ranks

postVars == <<chunk_reading, to_submit, posted, chunk_read>>
readVars == <<tasks, inflight, completions, collected, unfinished, buffer, failed>>
deviceVars == <<cuda_done, copied, event, device, wait_done, gathered>>
vars == <<session, postVars, readVars, deviceVars>>

NumThreads == session.num_threads
Ranks == 0 .. session.world_size - 1
Distributed == session.world_size > 1
Backend(set) == session.backend \in set
Staged == Backend({"uring", "aio", "mmap"})
Pooled == Backend({"mmap", "cufile"})
-----------------------------------------------------------------------------
(* Which part of a chunk a thread of a rank reads.                         *)

Smaller(a, b) == IF a <= b THEN a ELSE b
RoundUp(x, a) == ((x + a - 1) \div a) * a

PaddedThreadSize(c) ==
  RoundUp(ChunkSize[c], ThreadAlignment * NumThreads * session.world_size)
    \div (NumThreads * session.world_size)

\* min(max(chunk.size - rank_offset - thread_offset, 0), padded_thread_size)
ThreadSize(r, c, i) ==
  LET left == ChunkSize[c] - PaddedThreadSize(c) * (NumThreads * r + i)
  IN IF left < 0 THEN 0 ELSE Smaller(left, PaddedThreadSize(c))

\* A rank whose part of the chunk is empty has no reads.
ReadsOf(r, c) ==
  IF Backend({"mapped"}) THEN {}
  ELSE {<<c, i>> : i \in {j \in 0 .. NumThreads - 1 : ThreadSize(r, c, j) > 0}}

UnalignedLastPage(r, c) ==
  \E i \in 0 .. NumThreads - 1 : ThreadSize(r, c, i) % ThreadAlignment # 0

WindowOf(c) == c % IoDepth

Depth == Smaller(MaxPrefetchChunks, IoDepth)
-----------------------------------------------------------------------------
Init ==
  /\ session \in Sessions
  /\ chunk_reading = [r \in AllRanks |-> NoChunk]
  /\ to_submit = [r \in AllRanks |-> {}]
  /\ posted = [r \in AllRanks |-> NoChunk]
  /\ chunk_read = [r \in AllRanks |-> NoChunk]
  /\ tasks = [r \in AllRanks |-> <<>>]
  /\ inflight = [r \in AllRanks |-> {}]
  /\ completions = [r \in AllRanks |-> {}]
  /\ collected = [r \in AllRanks |-> {}]
  /\ unfinished = [r \in AllRanks |-> [c \in Chunks |-> 0]]
  /\ buffer = [r \in AllRanks |-> {}]
  /\ failed = [r \in AllRanks |-> FALSE]
  /\ cuda_done = [r \in AllRanks |-> NoChunk]
  /\ copied = [r \in AllRanks |-> NoChunk]
  /\ event = [r \in AllRanks |-> [w \in 0 .. IoDepth - 1 |-> NoChunk]]
  /\ device = [r \in AllRanks |-> {}]
  /\ wait_done = [r \in AllRanks |-> NoChunk]
  /\ gathered = NoChunk

Running(r) == r \in Ranks /\ ~failed[r]
-----------------------------------------------------------------------------
(* Loader thread.                                                          *)

\* Mutant: the counter starts at num_threads, not at the number of reads.
CountOfThreads(r, c) == NumThreads
\* Mutant: the unaligned last page is counted once more, as a read of its own.
CountLastPageTwice(r, c) ==
  Cardinality(ReadsOf(r, c)) + (IF UnalignedLastPage(r, c) THEN 1 ELSE 0)
InitialCount(r, c) == Cardinality(ReadsOf(r, c))

\* post_read_chunk, once the previous use of the window is over: prepare the
\* reads and, for uring and aio, set the chunk's counter before any is submitted.
BeginPost(r) ==
  LET c == chunk_reading[r] + 1
  IN /\ Running(r)
     /\ chunk_reading[r] = posted[r]
     /\ c \in Chunks
     /\ chunk_read[r] >= c - Depth
     /\ chunk_reading' = [chunk_reading EXCEPT ![r] = c]
     /\ to_submit' = [to_submit EXCEPT ![r] = ReadsOf(r, c)]
     /\ unfinished' = IF Backend({"uring", "aio"})
                        THEN [unfinished EXCEPT ![r][c] = InitialCount(r, c)]
                        ELSE unfinished
     /\ UNCHANGED <<session, posted, chunk_read, tasks, inflight, completions,
                    collected, buffer, failed, deviceVars>>

\* The pool's queue takes a task only if it has room; aio leaves a chunk with an
\* unaligned end to last_page_reader_thread; io_uring_submit and io_submit may
\* take part of the reads, and are called again for the rest.
SubmitRead(r) ==
  LET c == chunk_reading[r]
      x == CHOOSE y \in to_submit[r] : \A z \in to_submit[r] : y[2] <= z[2]
      queue == Pooled \/ (Backend({"aio"}) /\ UnalignedLastPage(r, c))
  IN /\ Running(r)
     /\ to_submit[r] # {}
     /\ Pooled => Len(tasks[r]) < MaxPrefetchChunks
     /\ to_submit' = [to_submit EXCEPT ![r] = @ \ {x}]
     /\ tasks' = IF queue THEN [tasks EXCEPT ![r] = Append(@, x)] ELSE tasks
     /\ inflight' = IF queue THEN inflight ELSE [inflight EXCEPT ![r] = @ \cup {x}]
     /\ UNCHANGED <<session, chunk_reading, posted, chunk_read, completions, collected,
                    unfinished, buffer, failed, deviceVars>>

\* The last thing cuda_func does: enqueue the copy and the AllGather, and record
\* the event, on nccl_stream if there is a group.  cuFile alone copies nothing,
\* and without a group records nothing.
Enqueue(r, c) ==
  /\ cuda_done' = [cuda_done EXCEPT ![r] = c]
  /\ event' = IF Backend({"cufile"}) /\ ~Distributed
                THEN event
                ELSE [event EXCEPT ![r][WindowOf(c)] = c]
  /\ UNCHANGED <<copied, device, wait_done, gathered>>

\* cuda_func and wait_func are submitted.  The mapped backend has no cuda_func:
\* the loader thread enqueues the copy itself.
HandOver(r) ==
  LET c == chunk_reading[r]
  IN /\ Running(r)
     /\ posted[r] < c
     /\ to_submit[r] = {}
     /\ posted' = [posted EXCEPT ![r] = c]
     /\ IF Backend({"mapped"}) THEN Enqueue(r, c) ELSE UNCHANGED deviceVars
     /\ UNCHANGED <<session, chunk_reading, to_submit, chunk_read, readVars>>

\* wait_read_chunk and poll_read_chunk reap the next completion request.
Reap(r) ==
  /\ Running(r)
  /\ chunk_reading[r] = posted[r]
  /\ chunk_read[r] < wait_done[r]
  /\ chunk_read' = [chunk_read EXCEPT ![r] = @ + 1]
  /\ UNCHANGED <<session, chunk_reading, to_submit, posted, readVars, deviceVars>>
-----------------------------------------------------------------------------
(* Kernel, worker pool and last_page_reader_thread.                        *)

\* A free worker takes the next task, or last_page_reader_thread submits the
\* next read of its aio_func.
StartTask(r) ==
  /\ Running(r)
  /\ tasks[r] # <<>>
  /\ Pooled => Cardinality(inflight[r]) < NumThreads
  /\ tasks' = [tasks EXCEPT ![r] = Tail(@)]
  /\ inflight' = [inflight EXCEPT ![r] = @ \cup {Head(tasks[r])}]
  /\ UNCHANGED <<session, postVars, completions, collected, unfinished, buffer,
                 failed, deviceVars>>

\* A read completes.  Its data replace what its part of the host window held;
\* after a short read the window keeps part of that.  A worker needs room in the
\* result queue.
CompleteRead(r, x, whole) ==
  /\ Running(r)
  /\ x \in inflight[r]
  /\ whole \/ Backend(ShortReadBackends)
  /\ Pooled => Cardinality(completions[r]) < MaxPrefetchChunks
  /\ inflight' = [inflight EXCEPT ![r] = @ \ {x}]
  /\ completions' = [completions EXCEPT ![r] = @ \cup {<<x, whole>>}]
  /\ buffer' = IF ~whole THEN buffer
               ELSE [buffer EXCEPT ![r] =
                       {y \in @ : Staged => <<WindowOf(y[1]), y[2]>> # <<WindowOf(x[1]), x[2]>>}
                         \cup {x}]
  /\ UNCHANGED <<session, postVars, tasks, collected, unfinished, failed, deviceVars>>
-----------------------------------------------------------------------------
(* cuda_thread.                                                            *)

\* Mutant: a completion is counted for the chunk cuda_func is waiting for.
CountedForOwn(r, S, c) ==
  [unfinished EXCEPT ![r][c] = @ - Cardinality(S)]
Counted(r, S, c) ==
  [unfinished EXCEPT ![r] = [d \in Chunks |->
     @[d] - Cardinality({y \in S : y[1][1] = d})]]

LastPageReaped(r, c) == \A k \in DOMAIN tasks[r] : tasks[r][k][1] # c

\* cuda_func of the next chunk consumes completions, its own or those of chunks
\* posted meanwhile: one CQE (uring); as many events as it still misses, or
\* fewer if io_getevents is interrupted (aio); one result of the pool, cached
\* until its chunk comes up.
Collect(r, S) ==
  LET c == cuda_done[r] + 1
  IN /\ Running(r)
     /\ c <= posted[r]
     /\ S # {} /\ S \subseteq completions[r]
     /\ \/ Backend({"uring"}) /\ unfinished[r][c] > 0 /\ Cardinality(S) = 1
        \/ Backend({"aio"}) /\ LastPageReaped(r, c) /\ Cardinality(S) <= unfinished[r][c]
        \/ Pooled /\ Cardinality(S) = 1
           /\ ~(ReadsOf(r, c) \subseteq {y[1] : y \in collected[r]})
     /\ completions' = [completions EXCEPT ![r] = @ \ S]
     /\ IF Pooled
          THEN /\ collected' = [collected EXCEPT ![r] = @ \cup S]
               /\ UNCHANGED unfinished
          ELSE /\ unfinished' = Counted(r, S, c)
               /\ UNCHANGED collected
     /\ UNCHANGED <<session, postVars, tasks, inflight, buffer, failed, deviceVars>>

\* All reads of the chunk are accounted for.  cuFile's cuda_func alone looks at what
\* they returned; that of the mmap backend reaps its tasks and ignores their results.
ReadsAccounted(r, c) ==
  IF Pooled
    THEN \A x \in ReadsOf(r, c) : \E whole \in BOOLEAN :
           <<x, whole>> \in collected[r] /\ (Backend({"cufile"}) => whole)
    ELSE unfinished[r][c] = 0 /\ LastPageReaped(r, c)

CudaFuncEnd(r) ==
  LET c == cuda_done[r] + 1
  IN /\ Running(r)
     /\ c <= posted[r]
     /\ ReadsAccounted(r, c)
     /\ Enqueue(r, c)
     /\ collected' = [collected EXCEPT ![r] = {y \in @ : y[1][1] # c}]
     /\ UNCHANGED <<session, postVars, tasks, inflight, completions, unfinished,
                    buffer, failed>>

\* cuFile's cuda_func compares each result with the size asked for and throws.
CudaFuncThrows(r) ==
  /\ Running(r)
  /\ Backend({"cufile"})
  /\ \E y \in collected[r] : y[1][1] = cuda_done[r] + 1 /\ ~y[2]
  /\ failed' = [failed EXCEPT ![r] = TRUE]
  /\ UNCHANGED <<session, postVars, tasks, inflight, completions, collected,
                 unfinished, buffer, deviceVars>>
-----------------------------------------------------------------------------
(* CUDA streams, NCCL and wait_thread.                                     *)

\* All of the rank's reads of the chunk are in the window (cufile: in place).
Held(r, c) == ReadsOf(r, c) \subseteq buffer[r]

\* The rank's own part of the chunk is on its device.
OwnPart(r, c) == IF Backend({"cufile"}) THEN Held(r, c) ELSE <<c, r>> \in device[r]

\* cuda_stream copies what the window (mapped: the file) holds by then.
StreamCopy(r) ==
  LET c == copied[r] + 1
  IN /\ Running(r)
     /\ ~Backend({"cufile"})
     /\ c <= cuda_done[r]
     /\ copied' = [copied EXCEPT ![r] = c]
     /\ device' = IF Held(r, c) THEN [device EXCEPT ![r] = @ \cup {<<c, r>>}] ELSE device
     /\ UNCHANGED <<session, postVars, readVars, cuda_done, event, wait_done, gathered>>

GatherReady(r, c) == c <= cuda_done[r] /\ (Backend({"cufile"}) \/ c <= copied[r])

\* nccl_stream of every rank has come to the same AllGather: each rank's part is
\* sent to all.
AllGather ==
  LET c == gathered + 1
  IN /\ Distributed
     /\ \A r \in Ranks : Running(r) /\ GatherReady(r, c)
     /\ gathered' = c
     /\ device' = [r \in AllRanks |-> device[r] \cup
                     {<<c, q>> : q \in {p \in Ranks : OwnPart(p, c)}}]
     /\ UNCHANGED <<session, postVars, readVars, cuda_done, copied, event, wait_done>>

\* Mutant: the event is recorded on cuda_stream only.
EventOfCopy(r, c) == c <= copied[r]
\* The stream the event was recorded on is past it.
EventPassed(r, c) == c <= IF Distributed THEN gathered ELSE copied[r]

\* wait_func: reap cuda_func (mapped: nothing), then cudaEventSynchronize, which
\* returns at once if the event was never recorded.
WaitFunc(r) ==
  LET c == wait_done[r] + 1
  IN /\ Running(r)
     /\ c <= posted[r]
     /\ c <= cuda_done[r]
     /\ EventPassed(r, event[r][WindowOf(c)])
     /\ wait_done' = [wait_done EXCEPT ![r] = c]
     /\ UNCHANGED <<session, postVars, readVars, cuda_done, copied, event, device, gathered>>
-----------------------------------------------------------------------------
Next ==
  \/ \E r \in AllRanks :
       \/ BeginPost(r) \/ SubmitRead(r) \/ HandOver(r) \/ Reap(r)
       \/ StartTask(r)
       \/ \E x \in inflight[r], whole \in BOOLEAN : CompleteRead(r, x, whole)
       \/ \E S \in SUBSET completions[r] : Collect(r, S)
       \/ CudaFuncEnd(r) \/ CudaFuncThrows(r)
       \/ StreamCopy(r) \/ WaitFunc(r)
  \/ AllGather

\* Every thread, worker and stream keeps being scheduled, reads complete and
\* io_getevents is not interrupted for ever.  Nothing obliges a rank to post.
Fairness ==
  /\ \A r \in AllRanks :
       /\ WF_vars(SubmitRead(r)) /\ WF_vars(HandOver(r))
       /\ WF_vars(StartTask(r))
       /\ WF_vars(\E x \in inflight[r], whole \in BOOLEAN : CompleteRead(r, x, whole))
       /\ WF_vars(\E S \in SUBSET completions[r] : Collect(r, S))
       /\ WF_vars(CudaFuncEnd(r)) /\ WF_vars(CudaFuncThrows(r))
       /\ WF_vars(StreamCopy(r)) /\ WF_vars(WaitFunc(r))
  /\ WF_vars(AllGather)

Spec == Init /\ [][Next]_vars /\ Fairness
-----------------------------------------------------------------------------
(* What a correct backend guarantees.                                      *)

Piece == Chunks \X (0 .. NumThreads - 1)

\* Every variable keeps its type.
TypeOK ==
  /\ session \in Sessions
  /\ \A cursor \in {chunk_reading, posted, chunk_read, cuda_done, copied, wait_done} :
       cursor \in [AllRanks -> Cursor]
  /\ gathered \in Cursor
  /\ to_submit \in [AllRanks -> SUBSET Piece]
  /\ tasks \in [AllRanks -> Seq(Piece)]
  /\ inflight \in [AllRanks -> SUBSET Piece]
  /\ completions \in [AllRanks -> SUBSET (Piece \X BOOLEAN)]
  /\ collected \in [AllRanks -> SUBSET (Piece \X BOOLEAN)]
  /\ unfinished \in [AllRanks -> [Chunks -> 0 .. NumThreads]]
  /\ buffer \in [AllRanks -> SUBSET Piece]
  /\ failed \in [AllRanks -> BOOLEAN]
  /\ event \in [AllRanks -> [0 .. IoDepth - 1 -> Cursor]]
  /\ device \in [AllRanks -> SUBSET (Chunks \X AllRanks)]

Queued(r) == {tasks[r][k] : k \in DOMAIN tasks[r]}

\* unfinished_cnt of every chunk, also of those whose completions another
\* chunk's cuda_func consumes, is the number of its reads that are submitted or
\* about to be and whose completion nobody has consumed (loader_io_uring.cpp:340).
CountersExact ==
  Backend({"uring", "aio"}) =>
    \A r \in Ranks, c \in Chunks :
      unfinished[r][c] =
        Cardinality({x \in to_submit[r] \cup Queued(r) \cup inflight[r]
                             \cup {y[1] : y \in completions[r]} : x[1] = c})

\* The data of the chunk, every rank's part of it, are on this rank's device.
OnDevice(r, c) == OwnPart(r, c) /\ \A q \in Ranks \ {r} : <<c, q>> \in device[r]

Stages(r) == INSTANCE ChunkStages WITH
  posted <- chunk_reading[r], reported <- wait_done[r], read <- chunk_read[r],
  landed <- {c \in 0 .. chunk_reading[r] : r \in Ranks /\ OnDevice(r, c)}

\* On every rank the backend reports chunks in order, and a chunk only once the
\* parts of all ranks are on the device.
ImplementsStages ==
  /\ \A r \in AllRanks : Stages(r)!Init
  /\ [][\A r \in AllRanks : [Stages(r)!Next]_(Stages(r)!vars)]_vars

\* A chunk that every rank has begun to post is reported on every rank, even if
\* some rank posts nothing more: submission, pool, counters, streams and
\* AllGather never wait for each other in a cycle.
EveryChunkReported ==
  \A r \in AllRanks, c \in Chunks :
    (r \in Ranks /\ \A q \in Ranks : chunk_reading[q] >= c)
      ~> (wait_done[r] >= c \/ \E q \in Ranks : failed[q])
==============================================================================
