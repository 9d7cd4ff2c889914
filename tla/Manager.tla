------------------------------- MODULE Manager -------------------------------
(***************************************************************************)
(* The life of several safe_open objects in one process: __init__,         *)
(* __enter__, tensors() and __exit__ (_impl.py), LoaderManager with its    *)
(* handles and RPC queues (main.cpp), one loader thread per open handle,   *)
(* and the cache of host buffers they share (io_context.hpp).  What a      *)
(* loader does between two requests is in Loader; here it serves each      *)
(* request in one step.                                                    *)
(*                                                                         *)
(* A call into the extension keeps the GIL until its response is there, so *)
(* one call is in progress at a time, whatever Python threads there are.   *)
(* Nothing keeps the user from resuming a generator after its context has  *)
(* been left, or from leaving the context twice; nothing makes a loader    *)
(* wait for the caller of close() before it frees their queues.  Both end  *)
(* in a pointer to nothing: crashed.  tensors() is called inside a context *)
(* or after it, not before.                                                *)
(***************************************************************************)
EXTENDS FrontEnd

CONSTANTS
  Sessions,        \* safe_open objects
  Arguments,       \* per session: what it is constructed with
  TensorSizes,     \* per session: the sizes of its tensors
  Device,          \* per session: the index of its device
  InMemory,        \* per session: are its files on tmpfs or ramfs?
  WorldSize,
  CpuCount,
  Avails,          \* what the ranks' free device memory may allow: functions
                   \* of the rank
  Available,       \* backends the system has
  CacheBuffer,     \* INSTANTTENSOR_CACHE_BUFFER
  UseInternalMemoryRegister

\* What safe_open may be called with; None stands for an argument that is left out.
\* Nothing checks the numbers: with a chunk_size, concurrency or io_depth of zero
\* _determine_io_params or the loader would divide by zero.
ArgumentRecord ==
  [backend : Seq(Candidate),
   chunk_size : (Nat \ {0}) \cup {None}, concurrency : (Nat \ {0}) \cup {None},
   io_depth : (Nat \ {0}) \cup {None}, buffer_size : Nat \cup {None}]

ASSUME ConstantsAssumption ==
  /\ IsFiniteSet(Sessions)
  /\ {WorldSize, CpuCount} \subseteq Nat \ {0}
  /\ Avails \subseteq [0 .. WorldSize - 1 -> Nat]
  /\ Available \subseteq Backends
  /\ {CacheBuffer, UseInternalMemoryRegister} \subseteq BOOLEAN
  /\ \A s \in Sessions : TensorSizes[s] \in Seq(Nat) /\ TensorSizes[s] # <<>>
  /\ \A s \in Sessions : Arguments[s] \in ArgumentRecord

Handles == 0 .. Cardinality(Sessions) - 1
NoTensor == -1
NoEntry == -1
NoCall == [op |-> "none"]
NoSession == "none"
NoHostBuffer == [id |-> 0, size |-> 0]

VARIABLES
  \* safe_open objects
  stage,            \* "new", "rejected", "constructed", "entered", "left"
  params,           \* per session: what __init__ has worked out
  loader_handle,
  iterated, invalidated,
  next_tensor,      \* the next index its generator asks for
  held,             \* the tensor it yielded last, while the user may read it
  \* LoaderManager
  call,             \* the call in progress
  latest_req_id,    \* per entry of loader_handle_to_queue
  loader_id_iter,
  device_idx,
  \* loaders
  input_queue, output_queue,
  thread,           \* "none", "running", "leaving", "gone"
  serves,           \* the session a loader was opened for
  host_buffer,
  \* process
  cached_host_buffers,
  allocated,        \* number of host buffers allocated so far
  finished,         \* cleanup() has run at exit
  crashed           \* the process has ended, or its one call is stuck, on a
                    \* null or freed queue

objectVars == <<stage, params, loader_handle, iterated, invalidated, next_tensor, held>>
tableVars == <<latest_req_id, loader_id_iter, device_idx>>
loaderVars == <<thread, serves, host_buffer>>
processVars == <<cached_host_buffers, allocated, finished, crashed>>
vars == <<objectVars, call, tableVars, input_queue, output_queue, loaderVars, processVars>>

TensorCount(s) == Len(TensorSizes[s])

Init ==
  /\ stage = [s \in Sessions |-> "new"]
  /\ params = [s \in Sessions |-> <<>>]
  /\ loader_handle = [s \in Sessions |-> None]
  /\ iterated = [s \in Sessions |-> FALSE]
  /\ invalidated = [s \in Sessions |-> FALSE]
  /\ next_tensor = [s \in Sessions |-> 0]
  /\ held = [s \in Sessions |-> <<>>]
  /\ call = NoCall
  /\ latest_req_id = [h \in Handles |-> NoEntry]
  /\ loader_id_iter = 0
  /\ device_idx = 0
  /\ input_queue = [h \in Handles |-> <<>>]
  /\ output_queue = [h \in Handles |-> <<>>]
  /\ thread = [h \in Handles |-> "none"]
  /\ serves = [h \in Handles |-> NoSession]
  /\ host_buffer = [h \in Handles |-> NoHostBuffer]
  /\ cached_host_buffers = <<>>
  /\ allocated = 0
  /\ finished = FALSE
  /\ crashed = FALSE

\* Python runs: the process lives and no call holds the GIL.
Python == ~crashed /\ ~finished /\ call = NoCall
-----------------------------------------------------------------------------
(* safe_open.__init__ up to load_now: parameters, or an exception.         *)

Construct(s, avails) ==
  LET backend == select_backend(Candidates(Arguments[s].backend, InMemory[s]),
                                Supported(InMemory[s]), Available)
      avail == AgreedAvail(0, avails)
      p == Shrink(GivenParams(Arguments[s],
                              DefaultParams(backend, InMemory[s], WorldSize, CpuCount)),
                  WorldSize, avail)
  IN /\ Python
     /\ stage[s] = "new"
     /\ IF backend = NoBackend \/ InFlightBytes(p, WorldSize) > avail
          THEN stage' = [stage EXCEPT ![s] = "rejected"] /\ UNCHANGED params
          ELSE /\ stage' = [stage EXCEPT ![s] = "constructed"]
               /\ params' = [params EXCEPT ![s] =
                    [backend |-> backend, chunk_size |-> p.chunk_size,
                     concurrency |-> p.concurrency, io_depth |-> p.io_depth,
                     buffer_size |-> BufferSize(Arguments[s].buffer_size, TensorSizes[s],
                                                p, WorldSize),
                     avails |-> avails]]
     /\ UNCHANGED <<loader_handle, iterated, invalidated, next_tensor, held, call,
                    tableVars, input_queue, output_queue, loaderVars, processVars>>
-----------------------------------------------------------------------------
(* LoaderManager.                                                          *)

\* open: the handle's queues and thread, then the OPEN request.
\* Mutant: a handle is the number of those in use.
CountOfEntries == Cardinality({h \in Handles : latest_req_id[h] # NoEntry})
NewHandle == loader_id_iter

\* _open, from __init__ (load_now) or from __enter__.
Open(s) ==
  LET h == NewHandle
  IN /\ Python
     /\ stage[s] = "constructed"
     /\ loader_handle[s] = None
     /\ device_idx' = Device[s]
     /\ loader_id_iter' = loader_id_iter + 1
     /\ thread' = [thread EXCEPT ![h] = "running"]
     /\ latest_req_id' = [latest_req_id EXCEPT ![h] = 1]
     /\ input_queue' = [input_queue EXCEPT ![h] = Append(@, [id |-> 1, op |-> "OPEN", args |-> s])]
     /\ call' = [op |-> "OPEN", session |-> s, handle |-> h, id |-> 1]
     /\ UNCHANGED <<objectVars, output_queue, serves, host_buffer, processVars>>

\* call: operator[] makes an entry with null queues for a handle that has none.
Call(s, op, args) ==
  LET h == loader_handle[s]
      id == latest_req_id[h] + 1
  IN IF latest_req_id[h] = NoEntry
       THEN crashed' = TRUE /\ UNCHANGED <<call, latest_req_id, input_queue>>
       ELSE /\ latest_req_id' = [latest_req_id EXCEPT ![h] = id]
            /\ input_queue' = [input_queue EXCEPT ![h] =
                                 Append(@, [id |-> id, op |-> op, args |-> args])]
            /\ call' = [op |-> op, session |-> s, handle |-> h, id |-> id]
            /\ UNCHANGED crashed

Enter(s) ==
  /\ Python
  /\ stage[s] = "constructed"
  /\ loader_handle[s] # None
  /\ stage' = [stage EXCEPT ![s] = "entered"]
  /\ UNCHANGED <<params, loader_handle, iterated, invalidated, next_tensor, held, call,
                 tableVars, input_queue, output_queue, loaderVars, processVars>>

MayIterate(s) == ~invalidated[s] /\ ~iterated[s]

\* The first step of a generator, inside the context or after it; the checks
\* raise RuntimeError.
FirstTensor(s) ==
  /\ Python
  /\ stage[s] \in {"entered", "left"}
  /\ MayIterate(s)
  /\ iterated' = [iterated EXCEPT ![s] = TRUE]
  /\ Call(s, "GET_TENSOR_PTR", 0)
  /\ UNCHANGED <<stage, params, loader_handle, invalidated, next_tensor, held,
                 loader_id_iter, device_idx, output_queue, loaderVars,
                 cached_host_buffers, allocated, finished>>

\* The generator goes on, inside the context or after it: the user is done with
\* the tensor it yielded.  Only its first step looks at _invalidated.
NextTensor(s) ==
  /\ Python
  /\ stage[s] \in {"entered", "left"}
  /\ next_tensor[s] \in 1 .. TensorCount(s) - 1
  /\ held' = [held EXCEPT ![s] = <<>>]
  /\ Call(s, "GET_TENSOR_PTR", next_tensor[s])
  /\ UNCHANGED <<stage, params, loader_handle, iterated, invalidated, next_tensor,
                 loader_id_iter, device_idx, output_queue, loaderVars,
                 cached_host_buffers, allocated, finished>>

\* __exit__, after the last tensor or before it, and once more when a context that
\* has been left is entered again (__enter__ finds a handle and opens nothing).
Leave(s) ==
  /\ Python
  /\ stage[s] \in {"entered", "left"}
  /\ invalidated' = [invalidated EXCEPT ![s] = TRUE]
  /\ stage' = [stage EXCEPT ![s] = "left"]
  /\ held' = [held EXCEPT ![s] = <<>>]
  /\ Call(s, "CLOSE", None)
  /\ UNCHANGED <<params, loader_handle, iterated, next_tensor, loader_id_iter, device_idx,
                 output_queue, loaderVars, cached_host_buffers, allocated, finished>>

\* get_result pops responses until it finds its own, and the method goes on.
Returned(s, op, result) ==
  CASE op = "OPEN" ->
         /\ loader_handle' = [loader_handle EXCEPT ![s] = call.handle]
         /\ UNCHANGED <<next_tensor, held, latest_req_id>>
    [] op = "GET_TENSOR_PTR" ->
         /\ held' = [held EXCEPT ![s] =
                       <<[file |-> result.file, index |-> result.index,
                          loader |-> result.loader, device |-> device_idx]>>]
         /\ next_tensor' = [next_tensor EXCEPT ![s] = @ + 1]
         /\ UNCHANGED <<loader_handle, latest_req_id>>
    [] op = "CLOSE" ->
         /\ latest_req_id' = [latest_req_id EXCEPT ![call.handle] = NoEntry]
         /\ UNCHANGED <<loader_handle, next_tensor, held>>

Receive ==
  LET h == call.handle
      response == Head(output_queue[h])
  IN /\ ~crashed /\ call # NoCall
     /\ output_queue[h] # <<>>
     /\ output_queue' = [output_queue EXCEPT ![h] = Tail(@)]
     /\ IF response.id = call.id
          THEN Returned(call.session, call.op, response.result) /\ call' = NoCall
          ELSE UNCHANGED <<loader_handle, next_tensor, held, latest_req_id, call>>
     /\ UNCHANGED <<stage, params, iterated, invalidated, loader_id_iter, device_idx,
                    input_queue, loaderVars, processVars>>

\* atexit: cleanup() destroys the cache.
Cleanup ==
  /\ Python
  /\ finished' = TRUE
  /\ cached_host_buffers' = <<>>
  /\ UNCHANGED <<objectVars, call, tableVars, input_queue, output_queue, loaderVars,
                 allocated, crashed>>
-----------------------------------------------------------------------------
(* Loader threads and the host buffer cache.                               *)

NeedHostBuffer(p) ==
  p.backend # "CUFILE" /\ ~(p.backend = "MMAP" /\ UseInternalMemoryRegister)

HostBufferSize(p) == p.io_depth * p.chunk_size * p.concurrency

FirstFit(size) == SelectInSeq(cached_host_buffers, LAMBDA e : e.size >= size)

\* Mutant: get() leaves the buffer in the cache.
CacheKept(i) == cached_host_buffers
CacheWithout(i) == RemoveAt(cached_host_buffers, i)

\* init_buffer: get() from the cache, or allocate.
TakeHostBuffer(h, size) ==
  LET i == FirstFit(size)
  IN IF i # 0
       THEN /\ host_buffer' = [host_buffer EXCEPT ![h] = cached_host_buffers[i]]
            /\ cached_host_buffers' = CacheWithout(i)
            /\ UNCHANGED allocated
       ELSE /\ allocated' = allocated + 1
            /\ host_buffer' = [host_buffer EXCEPT ![h] = [id |-> allocated + 1, size |-> size]]
            /\ UNCHANGED cached_host_buffers

\* Pop a request of this kind, dispatch it, push the response.
Serve(h, op, result) ==
  /\ ~crashed
  /\ thread[h] = "running"
  /\ input_queue[h] # <<>>
  /\ Head(input_queue[h]).op = op
  /\ input_queue' = [input_queue EXCEPT ![h] = Tail(@)]
  /\ output_queue' = [output_queue EXCEPT ![h] =
                        Append(@, [id |-> Head(input_queue[h]).id, result |-> result])]
  /\ UNCHANGED <<objectVars, call, tableVars, finished, crashed>>

ServeOpen(h) ==
  LET s == Head(input_queue[h]).args
  IN /\ Serve(h, "OPEN", None)
     /\ serves' = [serves EXCEPT ![h] = s]
     /\ IF NeedHostBuffer(params[s])
          THEN TakeHostBuffer(h, HostBufferSize(params[s]))
          ELSE UNCHANGED <<host_buffer, cached_host_buffers, allocated>>
     /\ UNCHANGED thread

ServeGet(h) ==
  /\ Serve(h, "GET_TENSOR_PTR",
           [file |-> serves[h], index |-> Head(input_queue[h]).args, loader |-> h])
  /\ UNCHANGED <<loaderVars, cached_host_buffers, allocated>>

AfterClose == "leaving"

\* close: destroy_buffer puts the host buffer into the cache or frees it.
ServeClose(h) ==
  /\ Serve(h, "CLOSE", None)
  /\ thread' = [thread EXCEPT ![h] = AfterClose]
  /\ host_buffer' = [host_buffer EXCEPT ![h] = NoHostBuffer]
  /\ cached_host_buffers' = IF NeedHostBuffer(params[serves[h]]) /\ CacheBuffer
                              THEN Append(cached_host_buffers, host_buffer[h])
                              ELSE cached_host_buffers
  /\ UNCHANGED <<serves, allocated>>

\* run() has returned: the Loader goes, and with it both queues.  A caller that
\* has not popped the last response pops from freed memory: what it reads may
\* still be the response.
EndThread(h) ==
  /\ ~crashed
  /\ thread[h] = "leaving"
  /\ thread' = [thread EXCEPT ![h] = "gone"]
  /\ crashed' \in {FALSE, output_queue[h] # <<>>}
  /\ UNCHANGED <<objectVars, call, tableVars, input_queue, output_queue, serves, host_buffer,
                 cached_host_buffers, allocated, finished>>
-----------------------------------------------------------------------------
\* The process has ended, or the user has nothing more to do.
Terminated == (crashed \/ finished) /\ UNCHANGED vars

LoaderThread(h) == ServeOpen(h) \/ ServeGet(h) \/ ServeClose(h) \/ EndThread(h)

Next ==
  \/ \E s \in Sessions :
       \/ \E avails \in Avails : Construct(s, avails)
       \/ Open(s) \/ Enter(s) \/ FirstTensor(s) \/ NextTensor(s) \/ Leave(s)
  \/ Receive
  \/ Cleanup
  \/ \E h \in Handles : LoaderThread(h)
  \/ Terminated

\* Loader threads answer (CallsReturn of Loader), and get_result keeps looking.
Fairness == WF_vars(Receive) /\ \A h \in Handles : WF_vars(LoaderThread(h))

Spec == Init /\ [][Next]_vars /\ Fairness
-----------------------------------------------------------------------------
(* What the manager and the front end guarantee.                           *)

HostBuffer == [id : Nat, size : Nat]

\* Every variable keeps its type.
TypeOK ==
  /\ stage \in [Sessions -> {"new", "rejected", "constructed", "entered", "left"}]
  /\ loader_handle \in [Sessions -> Handles \cup {None}]
  /\ iterated \in [Sessions -> BOOLEAN] /\ invalidated \in [Sessions -> BOOLEAN]
  /\ \A s \in Sessions :
       /\ next_tensor[s] \in 0 .. TensorCount(s)
       /\ \A i \in DOMAIN held[s] : /\ held[s][i].file \in Sessions
                                    /\ held[s][i].index \in 0 .. TensorCount(s) - 1
                                    /\ held[s][i].loader \in Handles
       /\ stage[s] \in {"constructed", "entered", "left"} => params[s].backend \in Available
  /\ latest_req_id \in [Handles -> Nat \cup {NoEntry}]
  /\ loader_id_iter \in 0 .. Cardinality(Sessions)
  /\ thread \in [Handles -> {"none", "running", "leaving", "gone"}]
  /\ serves \in [Handles -> Sessions \cup {NoSession}]
  /\ host_buffer \in [Handles -> HostBuffer]
  /\ cached_host_buffers \in Seq(HostBuffer)
  /\ finished \in BOOLEAN /\ crashed \in BOOLEAN

\* Inside its context a session's calls find their queues, and so does tensors()
\* wherever it is called, whatever the other sessions open and close: a handle
\* belongs to one session and is erased by its close() only.
NoNullHandle ==
  [][\A s \in Sessions :
       FirstTensor(s) \/ (stage[s] = "entered" /\ (NextTensor(s) \/ Leave(s))) => ~crashed']_vars

\* A host buffer belongs to one open loader or to the cache, and is as large as
\* the windows of its loader together.
HostBuffersExclusive ==
  LET cached == {cached_host_buffers[i].id : i \in DOMAIN cached_host_buffers}
  IN /\ Cardinality(cached) = Len(cached_host_buffers)
     /\ \A h \in Handles : host_buffer[h].id # 0 =>
          /\ host_buffer[h].id \notin cached
          /\ \A g \in Handles \ {h} : host_buffer[g].id # host_buffer[h].id
          /\ host_buffer[h].size >= HostBufferSize(params[serves[h]])

\* What a session is opened with is possible on every rank: the chunks in flight
\* fit the memory each rank may use, and the buffer holds the largest tensor.
OpenedWithinLimits ==
  \A s \in Sessions : stage[s] \in {"constructed", "entered", "left"} =>
    /\ \A r \in 0 .. WorldSize - 1 : InFlightBytes(params[s], WorldSize) <= params[s].avails[r]
    /\ params[s].io_depth >= 1 /\ params[s].concurrency >= 1
    /\ \A i \in 1 .. TensorCount(s) : params[s].buffer_size >= TensorSizes[s][i]

\* The user sees each tensor on the device of its session.
TensorsOnOwnDevice ==
  \A s \in Sessions : \A i \in DOMAIN held[s] : held[s][i].device = Device[s]

\* The tensor the user of session s may read: its own, in a device buffer that
\* has not been freed.
Readable(s) ==
  IF held[s] # <<>> /\ held[s][1].file = s /\ thread[held[s][1].loader] = "running"
    THEN held[s][1].index ELSE NoTensor

Stream(s) == INSTANCE TensorStream WITH
  NumTensors <- TensorCount(s),
  phase <- IF loader_handle[s] = None THEN "new"
           ELSE IF latest_req_id[loader_handle[s]] = NoEntry THEN "closed" ELSE "open",
  delivered <- next_tensor[s],
  current <- Readable(s)

\* Sessions that are open side by side do not notice each other: each is the
\* stream of its own tensors.
ImplementsStreams ==
  /\ \A s \in Sessions : Stream(s)!Init
  /\ [][\A s \in Sessions : [Stream(s)!Next]_(Stream(s)!vars)]_vars

\* The threads and get_result make progress together: an OPEN and a GET_TENSOR_PTR
\* always return.  A CLOSE returns and the thread of its context ends, unless the
\* loader frees the queues before the response is popped (EndThread) or the context
\* had been left before (Leave): then the process may end instead.
CallsReturn ==
  \A s \in Sessions :
    /\ (call.op \in {"OPEN", "GET_TENSOR_PTR"} /\ call.session = s) ~> (call = NoCall)
    /\ (call.op = "CLOSE" /\ call.session = s) ~> (call = NoCall \/ crashed)
    /\ invalidated[s] ~>
         (crashed \/ \E h \in Handles : serves[h] = s /\ thread[h] = "gone")
==============================================================================
