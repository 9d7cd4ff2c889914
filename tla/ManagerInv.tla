----------------------------- MODULE ManagerInv -----------------------------
(***************************************************************************)
(* The inductive invariant of Manager.                                     *)
(*                                                                         *)
(* Its centre is that a call is in one place: the request lies in the      *)
(* input queue of its handle, or the response lies in the output queue,    *)
(* and all other queues are empty (CallInOnePlace).  What a response says *)
(* about the session and the loader is tied to that place, so that it      *)
(* still holds when get_result reads it.                                   *)
(***************************************************************************)
EXTENDS Manager

\* The domains TypeOK leaves open.
ShapeOK ==
  /\ DOMAIN params = Sessions /\ DOMAIN next_tensor = Sessions /\ DOMAIN held = Sessions
  /\ DOMAIN input_queue = Handles /\ DOMAIN output_queue = Handles
  /\ allocated \in Nat

\* A session takes a handle once, so that handles do not run out; the loader of
\* a handle not yet given out has no host buffer.
OpenedSessions ==
  {s \in Sessions : loader_handle[s] # None \/ (call.op = "OPEN" /\ call.session = s)}

HandlesCounted ==
  /\ loader_id_iter = Cardinality(OpenedSessions)
  /\ \A h \in Handles : h >= loader_id_iter => host_buffer[h].id = 0
-----------------------------------------------------------------------------
(* The call in progress.                                                   *)

CallRecord ==
  [op : {"OPEN", "GET_TENSOR_PTR", "CLOSE"}, session : Sessions, handle : Handles, id : Nat]

Asked(args) ==
  /\ input_queue[call.handle] = <<[id |-> call.id, op |-> call.op, args |-> args]>>
  /\ output_queue[call.handle] = <<>>

Answered(result) ==
  /\ input_queue[call.handle] = <<>>
  /\ output_queue[call.handle] = <<[id |-> call.id, result |-> result]>>

\* A loader has the host buffer its session needs.
Equipped(h) == NeedHostBuffer(params[serves[h]]) => host_buffer[h].id # 0

\* The handle of an OPEN is new.
Opening(s, h) ==
  /\ stage[s] = "constructed" /\ loader_handle[s] = None
  /\ h < loader_id_iter /\ \A t \in Sessions : loader_handle[t] # h
  /\ latest_req_id[h] # NoEntry /\ thread[h] = "running"
  /\ \/ Asked(s) /\ host_buffer[h].id = 0
     \/ Answered(None) /\ serves[h] = s /\ Equipped(h)

Getting(s, h) ==
  /\ stage[s] = "entered" /\ loader_handle[s] = h
  /\ iterated[s] /\ held[s] = <<>> /\ next_tensor[s] < TensorCount(s)
  /\ \/ Asked(next_tensor[s])
     \/ Answered([file |-> s, index |-> next_tensor[s], loader |-> h])

\* The entry of the handle goes when the response has been read, the thread before
\* or after.
Closing(s, h) ==
  /\ stage[s] = "left" /\ loader_handle[s] = h
  /\ latest_req_id[h] # NoEntry
  /\ \/ Asked(None) /\ thread[h] = "running" /\ Equipped(h)
     \/ Answered(None) /\ thread[h] \in {"leaving", "gone"}

CallInOnePlace ==
  /\ \A h \in Handles :
       (call.op = "none" \/ h # call.handle) => input_queue[h] = <<>> /\ output_queue[h] = <<>>
  /\ \/ call = NoCall
     \/ /\ call \in CallRecord
        /\ call.op = "OPEN" => Opening(call.session, call.handle)
        /\ call.op = "GET_TENSOR_PTR" => Getting(call.session, call.handle)
        /\ call.op = "CLOSE" => Closing(call.session, call.handle)
-----------------------------------------------------------------------------
(* Sessions and their loaders.                                             *)

\* From _open to __exit__ the handle has an entry and a running thread that serves
\* no other session.
LoaderOfSession(s, h) ==
  /\ h < loader_id_iter /\ serves[h] = s
  /\ stage[s] # "left" => latest_req_id[h] # NoEntry /\ thread[h] = "running" /\ Equipped(h)
  /\ stage[s] = "left" =>
       \/ call.op = "CLOSE" /\ call.session = s
       \/ latest_req_id[h] = NoEntry /\ thread[h] \in {"leaving", "gone"}

SessionsInOrder ==
  \A s \in Sessions :
    /\ stage[s] \in {"new", "rejected"} => loader_handle[s] = None
    /\ stage[s] \in {"entered", "left"} => loader_handle[s] # None
    /\ invalidated[s] <=> stage[s] = "left"
    /\ next_tensor[s] # 0 => iterated[s]
    /\ loader_handle[s] # None => LoaderOfSession(s, loader_handle[s])

\* What the user may read is the last tensor of an open session.
HeldIsLast ==
  \A s \in Sessions :
    /\ DOMAIN held[s] \subseteq {1}
    /\ held[s] # <<>> =>
         /\ stage[s] = "entered" /\ next_tensor[s] > 0
         /\ held[s][1].file = s /\ held[s][1].index = next_tensor[s] - 1
         /\ held[s][1].loader = loader_handle[s]
-----------------------------------------------------------------------------
(* Parameters, host buffers and the process.                               *)

Constructed == {"constructed", "entered", "left"}

ParametersWithinLimits ==
  \A s \in Sessions : stage[s] \in Constructed =>
    /\ params[s].chunk_size \in Nat \ {0} /\ params[s].concurrency \in Nat \ {0}
    /\ params[s].io_depth \in Nat \ {0} /\ params[s].buffer_size \in Nat
    /\ \A r \in 0 .. WorldSize - 1 : InFlightBytes(params[s], WorldSize) <= params[s].avails[r]
    /\ \A i \in 1 .. TensorCount(s) : params[s].buffer_size >= TensorSizes[s][i]

\* A host buffer is in one place: at one loader, large enough for it, or once in
\* the cache.
BuffersInOnePlace ==
  /\ \A i \in DOMAIN cached_host_buffers : cached_host_buffers[i].id \in 1 .. allocated
  /\ \A i, j \in DOMAIN cached_host_buffers :
       i # j => cached_host_buffers[i].id # cached_host_buffers[j].id
  /\ \A h \in Handles : host_buffer[h].id # 0 =>
       /\ host_buffer[h].id \in 1 .. allocated
       /\ \A i \in DOMAIN cached_host_buffers : cached_host_buffers[i].id # host_buffer[h].id
       /\ \A g \in Handles \ {h} : host_buffer[g].id # host_buffer[h].id
       /\ serves[h] \in Sessions /\ stage[serves[h]] \in Constructed
       /\ host_buffer[h].size >= HostBufferSize(params[serves[h]])

IInv ==
  /\ TypeOK /\ ShapeOK
  /\ HandlesCounted
  /\ CallInOnePlace
  /\ SessionsInOrder
  /\ HeldIsLast
  /\ ParametersWithinLimits
  /\ BuffersInOnePlace
==============================================================================
