---------------------------- MODULE ManagerProofs ----------------------------
(***************************************************************************)
(* Manager keeps its types, its parameters and host buffers, and each      *)
(* session is the stream of its own tensors, for any number of sessions    *)
(* with any arguments.                                                     *)
(***************************************************************************)
EXTENDS ManagerInv, FrontEndProofs

\* The constants, one by one.
LEMMA ConstantFacts ==
  /\ IsFiniteSet(Sessions) /\ Cardinality(Sessions) \in Nat
  /\ WorldSize \in Positive /\ CpuCount \in Positive
  /\ Available \subseteq Backends
  /\ \A avails \in Avails : avails \in [0 .. WorldSize - 1 -> Nat]
  /\ \A s \in Sessions : /\ TensorSizes[s] \in Seq(Nat) /\ TensorSizes[s] # <<>>
                         /\ TensorCount(s) \in Nat /\ TensorCount(s) > 0
                         /\ DOMAIN TensorSizes[s] = 1 .. TensorCount(s)
                         /\ Arguments[s] \in ArgumentRecord
<1>1. IsFiniteSet(Sessions) /\ Cardinality(Sessions) \in Nat
  BY ConstantsAssumption, FS_CardinalityType
<1>2. \A s \in Sessions : /\ TensorSizes[s] \in Seq(Nat) /\ TensorSizes[s] # <<>>
                          /\ Arguments[s] \in ArgumentRecord
  BY ConstantsAssumption
<1>3. \A s \in Sessions : /\ TensorCount(s) \in Nat /\ TensorCount(s) > 0
                          /\ DOMAIN TensorSizes[s] = 1 .. TensorCount(s)
  BY <1>2 DEF TensorCount
<1>4. /\ WorldSize \in Positive /\ CpuCount \in Positive
      /\ Available \subseteq Backends
      /\ \A avails \in Avails : avails \in [0 .. WorldSize - 1 -> Nat]
  BY ConstantsAssumption DEF Positive
<1> QED
  BY <1>1, <1>2, <1>3, <1>4

\* When no call is in progress all queues are empty.
LEMMA Quiet ==
  ASSUME CallInOnePlace, call = NoCall
  PROVE  /\ call.op = "none"
         /\ \A h \in Handles : input_queue[h] = <<>> /\ output_queue[h] = <<>>
BY DEF CallInOnePlace, NoCall

\* A session is served by its handle alone.
LEMMA OwnHandle ==
  ASSUME SessionsInOrder, NEW s \in Sessions, NEW t \in Sessions,
         loader_handle[s] # None, loader_handle[s] = loader_handle[t]
  PROVE  s = t
BY DEF SessionsInOrder, LoaderOfSession

THEOREM InitInv == Init => IInv
<1> SUFFICES ASSUME Init PROVE IInv
  OBVIOUS
<1> USE DEF Init
<1>1. TypeOK
  <2>1. 0 \in 0 .. Cardinality(Sessions)
    BY ConstantFacts
  <2>2. cached_host_buffers \in Seq(HostBuffer)
    OBVIOUS
  <2>3. host_buffer \in [Handles -> HostBuffer]
    BY DEF HostBuffer, NoHostBuffer
  <2>4. \A s \in Sessions :
       /\ next_tensor[s] \in 0 .. TensorCount(s)
       /\ \A i \in DOMAIN held[s] : /\ held[s][i].file \in Sessions
                                    /\ held[s][i].index \in 0 .. TensorCount(s) - 1
                                    /\ held[s][i].loader \in Handles
       /\ stage[s] \in {"constructed", "entered", "left"} => params[s].backend \in Available
    BY ConstantFacts
  <2> QED
    BY <2>1, <2>2, <2>3, <2>4 DEF TypeOK
<1>2. ShapeOK
  BY DEF ShapeOK
<1>3. HandlesCounted
  <2>1. OpenedSessions = {}
    BY DEF OpenedSessions, NoCall
  <2> QED
    BY <2>1, FS_EmptySet DEF HandlesCounted, NoHostBuffer
<1>4. CallInOnePlace
  BY DEF CallInOnePlace
<1>5. SessionsInOrder
  BY DEF SessionsInOrder
<1>6. HeldIsLast /\ ParametersWithinLimits
  BY DEF HeldIsLast, ParametersWithinLimits, Constructed
<1>7. BuffersInOnePlace
  BY DEF BuffersInOnePlace, NoHostBuffer
<1> QED
  BY <1>1, <1>2, <1>3, <1>4, <1>5, <1>6, <1>7 DEF IInv
-----------------------------------------------------------------------------
(* Every step keeps the invariant: the steps of a session.                 *)

\* What an accepted session has worked out.
LEMMA AcceptedParams ==
  ASSUME NEW s \in Sessions, NEW avails \in Avails, Construct(s, avails),
         stage'[s] # "rejected", ShapeOK, TypeOK
  PROVE  LET p == params'[s]
         IN /\ stage' = [stage EXCEPT ![s] = "constructed"]
            /\ params' = [params EXCEPT ![s] = p]
            /\ p.backend \in Available
            /\ p.chunk_size \in Positive /\ p.concurrency \in Positive /\ p.io_depth \in Positive
            /\ p.buffer_size \in Nat
            /\ \A r \in 0 .. WorldSize - 1 : InFlightBytes(p, WorldSize) <= p.avails[r]
            /\ \A i \in 1 .. TensorCount(s) : p.buffer_size >= TensorSizes[s][i]
<1> DEFINE given == Arguments[s]
           b == select_backend(Candidates(given.backend, InMemory[s]),
                               Supported(InMemory[s]), Available)
           m == AgreedAvail(0, avails)
           q == Shrink(GivenParams(given, DefaultParams(b, InMemory[s], WorldSize, CpuCount)),
                       WorldSize, m)
           size == BufferSize(given.buffer_size, TensorSizes[s], q, WorldSize)
<1>1. /\ b # NoBackend /\ ~(InFlightBytes(q, WorldSize) > m)
      /\ stage' = [stage EXCEPT ![s] = "constructed"]
      /\ params' = [params EXCEPT ![s] =
           [backend |-> b, chunk_size |-> q.chunk_size, concurrency |-> q.concurrency,
            io_depth |-> q.io_depth, buffer_size |-> size, avails |-> avails]]
  <2>1. b = NoBackend \/ InFlightBytes(q, WorldSize) > m =>
          stage' = [stage EXCEPT ![s] = "rejected"]
    BY Zenon DEF Construct
  <2>2. ~(b = NoBackend \/ InFlightBytes(q, WorldSize) > m)
    BY <2>1 DEF TypeOK
  <2> QED
    BY <2>2, Zenon DEF Construct
<1>2. b \in Available
  BY <1>1, SelectedIsAvailable
<1>3. /\ given.buffer_size \in Nat \cup {None}
      /\ \A f \in {"chunk_size", "concurrency", "io_depth"} : given[f] \in Positive \cup {None}
  BY ConstantFacts DEF ArgumentRecord, Positive
<1> HIDE DEF given, b, m, q, size
<1>4. m \in Nat /\ \A r \in 0 .. WorldSize - 1 : m <= avails[r]
  BY ConstantFacts, AgreedIsLeast DEF m
<1>5. q \in ParamRecord
  BY <1>3, <1>4, ConstantFacts, ParamsPositive, ShrinkPositive DEF q
<1>6. size \in Nat /\ \A i \in 1 .. TensorCount(s) : TensorSizes[s][i] <= size
  BY <1>3, <1>5, ConstantFacts, BufferHoldsAll DEF size
<1>7. q.chunk_size \in Positive /\ q.concurrency \in Positive /\ q.io_depth \in Positive
  BY <1>5 DEF ParamRecord
<1>8. PICK p : p = [backend |-> b, chunk_size |-> q.chunk_size, concurrency |-> q.concurrency,
                    io_depth |-> q.io_depth, buffer_size |-> size, avails |-> avails]
  OBVIOUS
<1>9. params'[s] = p /\ params' = [params EXCEPT ![s] = p]
  BY <1>1, <1>8 DEF ShapeOK
<1>10. InFlightBytes(p, WorldSize) = InFlightBytes(q, WorldSize)
  BY <1>8 DEF InFlightBytes
<1>11. InFlightBytes(q, WorldSize) \in Int
  <2>1. q.chunk_size * q.concurrency * q.io_depth * WorldSize \in Positive
    BY <1>7, ConstantFacts, Product
  <2> QED
    BY <2>1 DEF InFlightBytes, Positive
<1>12. \A r \in 0 .. WorldSize - 1 : InFlightBytes(q, WorldSize) <= avails[r]
  <2> SUFFICES ASSUME NEW r \in 0 .. WorldSize - 1
               PROVE  InFlightBytes(q, WorldSize) <= avails[r]
    OBVIOUS
  <2>1. avails[r] \in Nat /\ m <= avails[r]
    BY <1>4, ConstantFacts
  <2>2. InFlightBytes(q, WorldSize) <= m
    BY <1>1, <1>4, <1>11
  <2> QED
    BY <1>4, <1>11, <2>1, <2>2
<1>13. \A r \in 0 .. WorldSize - 1 : InFlightBytes(p, WorldSize) <= p.avails[r]
  BY <1>8, <1>10, <1>12
<1>14. \A i \in 1 .. TensorCount(s) : p.buffer_size >= TensorSizes[s][i]
  <2> SUFFICES ASSUME NEW i \in 1 .. TensorCount(s) PROVE p.buffer_size >= TensorSizes[s][i]
    OBVIOUS
  <2>1. TensorSizes[s][i] \in Nat
    BY ConstantFacts
  <2> QED
    BY <1>6, <1>8, <2>1
<1>15. /\ p.backend \in Available /\ p.chunk_size \in Positive /\ p.concurrency \in Positive
       /\ p.io_depth \in Positive /\ p.buffer_size \in Nat
  BY <1>2, <1>6, <1>7, <1>8
<1> QED
  BY <1>1, <1>9, <1>13, <1>14, <1>15
LEMMA ConstructStep ==
  ASSUME IInv, NEW s \in Sessions, NEW avails \in Avails, Construct(s, avails)
  PROVE  IInv'
<1>1. /\ call = NoCall /\ call' = call /\ stage[s] = "new"
      /\ UNCHANGED <<loader_handle, iterated, invalidated, next_tensor, held>>
      /\ UNCHANGED <<latest_req_id, loader_id_iter, input_queue, output_queue>>
      /\ UNCHANGED <<thread, serves, host_buffer, cached_host_buffers, allocated, finished, crashed>>
  BY DEF Construct, Python, tableVars, loaderVars, processVars
<1>2. TypeOK /\ ShapeOK
  BY DEF IInv
<1>3. \/ stage' = [stage EXCEPT ![s] = "rejected"] /\ params' = params
      \/ /\ stage' = [stage EXCEPT ![s] = "constructed"]
         /\ params' = [params EXCEPT ![s] = params'[s]]
  <2>1. CASE stage'[s] = "rejected"
    <3>1. \/ stage' = [stage EXCEPT ![s] = "rejected"] /\ params' = params
          \/ stage' = [stage EXCEPT ![s] = "constructed"]
      BY Zenon DEF Construct
    <3> QED
      BY <1>2, <2>1, <3>1 DEF TypeOK
  <2>2. CASE stage'[s] # "rejected"
    BY <1>2, <2>2, AcceptedParams
  <2> QED
    BY <2>1, <2>2
<1>4. /\ \A t \in Sessions : t # s => stage'[t] = stage[t] /\ params'[t] = params[t]
      /\ stage' \in [Sessions -> {"new", "rejected", "constructed", "entered", "left"}]
      /\ stage'[s] \in {"rejected", "constructed"}
      /\ DOMAIN params' = Sessions
  <2>1. stage \in [Sessions -> {"new", "rejected", "constructed", "entered", "left"}]
        /\ DOMAIN params = Sessions
    BY <1>2 DEF TypeOK, ShapeOK
  <2> QED
    BY <1>3, <2>1
<1>5. loader_handle[s] = None
  BY <1>1 DEF IInv, SessionsInOrder
<1>6. TypeOK'
  <2>1. ASSUME NEW t \in Sessions, stage'[t] \in {"constructed", "entered", "left"}
        PROVE  params'[t].backend \in Available
    <3>1. CASE t = s
      BY <1>2, <1>4, <2>1, <3>1, AcceptedParams
    <3>2. CASE t # s
      BY <1>2, <1>4, <2>1, <3>2 DEF TypeOK
    <3> QED
      BY <3>1, <3>2
  <2> QED
    BY <1>1, <1>2, <1>4, <2>1 DEF TypeOK, TensorCount
<1>7. ShapeOK'
  BY <1>1, <1>2, <1>4 DEF ShapeOK
<1>8. HandlesCounted'
  <2>1. OpenedSessions' = OpenedSessions
    BY <1>1 DEF OpenedSessions
  <2> QED
    BY <1>1, <2>1 DEF IInv, HandlesCounted
<1>9. CallInOnePlace'
  BY <1>1 DEF IInv, CallInOnePlace
<1>10. SessionsInOrder'
  <2> SUFFICES ASSUME NEW t \in Sessions
               PROVE  /\ stage'[t] \in {"new", "rejected"} => loader_handle[t] = None
                      /\ stage'[t] \in {"entered", "left"} => loader_handle[t] # None
                      /\ invalidated[t] <=> stage'[t] = "left"
                      /\ next_tensor[t] # 0 => iterated[t]
                      /\ loader_handle[t] # None => LoaderOfSession(t, loader_handle[t])'
    BY <1>1 DEF SessionsInOrder
  <2>1. CASE t = s
    BY <1>1, <1>4, <1>5, <2>1 DEF IInv, SessionsInOrder
  <2>2. CASE t # s
    <3>1. loader_handle[t] # None => LoaderOfSession(t, loader_handle[t])
      BY DEF IInv, SessionsInOrder
    <3>2. loader_handle[t] # None => LoaderOfSession(t, loader_handle[t])'
      BY <1>1, <1>4, <2>2, <3>1 DEF LoaderOfSession, Equipped, NeedHostBuffer
    <3> QED
      BY <1>4, <2>2, <3>2 DEF IInv, SessionsInOrder
  <2> QED
    BY <2>1, <2>2
<1>11. HeldIsLast'
  <2>1. held[s] = <<>>
    BY <1>1 DEF IInv, HeldIsLast
  <2> QED
    BY <1>1, <1>4, <2>1 DEF IInv, HeldIsLast
<1>12. ParametersWithinLimits'
  <2> SUFFICES ASSUME NEW t \in Sessions, stage'[t] \in Constructed
               PROVE  /\ params'[t].chunk_size \in Positive /\ params'[t].concurrency \in Positive
                      /\ params'[t].io_depth \in Positive /\ params'[t].buffer_size \in Nat
                      /\ \A r \in 0 .. WorldSize - 1 :
                           InFlightBytes(params'[t], WorldSize) <= params'[t].avails[r]
                      /\ \A i \in 1 .. TensorCount(t) : params'[t].buffer_size >= TensorSizes[t][i]
    BY DEF ParametersWithinLimits, Positive, TensorCount
  <2>1. CASE t = s
    BY <1>2, <1>4, <2>1, AcceptedParams DEF Constructed
  <2>2. CASE t # s
    BY <1>4, <2>2 DEF IInv, ParametersWithinLimits, Positive
  <2> QED
    BY <2>1, <2>2
<1>13. BuffersInOnePlace'
  <2>1. BuffersInOnePlace
    BY DEF IInv
  <2>2. \A h \in Handles : host_buffer[h].id # 0 => serves[h] # s
    BY <1>1, <2>1 DEF BuffersInOnePlace, Constructed
  <2> QED
    BY <1>1, <1>4, <2>1, <2>2 DEF BuffersInOnePlace
<1> QED
  BY <1>6, <1>7, <1>8, <1>9, <1>10, <1>11, <1>12, <1>13 DEF IInv
LEMMA OpenStep ==
  ASSUME IInv, NEW s \in Sessions, Open(s)
  PROVE  IInv'
<1> DEFINE Request == [id |-> 1, op |-> "OPEN", args |-> s]
<1>0. PICK h : h = loader_id_iter
  OBVIOUS
<1>1. /\ call = NoCall /\ stage[s] = "constructed" /\ loader_handle[s] = None
      /\ loader_id_iter = h /\ loader_id_iter' = h + 1
      /\ thread' = [thread EXCEPT ![h] = "running"]
      /\ latest_req_id' = [latest_req_id EXCEPT ![h] = 1]
      /\ input_queue' = [input_queue EXCEPT ![h] = Append(@, Request)]
      /\ call' = [op |-> "OPEN", session |-> s, handle |-> h, id |-> 1]
      /\ UNCHANGED <<stage, params, loader_handle, iterated, invalidated, next_tensor, held>>
      /\ UNCHANGED <<output_queue, serves, host_buffer>>
      /\ UNCHANGED <<cached_host_buffers, allocated, finished, crashed>>
  BY <1>0 DEF Open, Python, NewHandle, objectVars, processVars
<1>2. TypeOK /\ ShapeOK /\ CallInOnePlace /\ SessionsInOrder
  BY DEF IInv
<1>3. /\ OpenedSessions' = OpenedSessions \cup {s} /\ s \notin OpenedSessions
      /\ OpenedSessions \subseteq Sessions
  BY <1>1 DEF OpenedSessions, NoCall
<1>4. h \in Handles /\ h + 1 \in 0 .. Cardinality(Sessions) /\ h + 1 = Cardinality(OpenedSessions')
  <2>1. IsFiniteSet(OpenedSessions)
    BY <1>3, ConstantFacts, FS_Subset
  <2>2. h = Cardinality(OpenedSessions) /\ h \in Nat
    BY <1>1, <1>2, ConstantFacts DEF IInv, HandlesCounted, TypeOK
  <2>3. Cardinality(OpenedSessions') = h + 1
    BY <1>3, <2>1, <2>2, FS_AddElement
  <2>4. OpenedSessions' \subseteq Sessions
    BY <1>3
  <2>5. Cardinality(OpenedSessions') <= Cardinality(Sessions)
    BY <2>4, ConstantFacts, FS_Subset
  <2> QED
    BY <2>2, <2>3, <2>5, ConstantFacts DEF Handles
<1>5. \A t \in Sessions : loader_handle[t] # None => loader_handle[t] < h /\ loader_handle[t] # h
  <2> SUFFICES ASSUME NEW t \in Sessions, loader_handle[t] # None
               PROVE  loader_handle[t] < h /\ loader_handle[t] # h
    OBVIOUS
  <2>1. loader_handle[t] < h /\ loader_handle[t] \in Int /\ h \in Int
    BY <1>1, <1>2, ConstantFacts DEF SessionsInOrder, LoaderOfSession, TypeOK, Handles
  <2> QED
    BY <2>1
<1>6. input_queue[h] = <<>> /\ output_queue[h] = <<>> /\ host_buffer[h].id = 0 /\ call.op = "none"
  <2>1. h \in Int
    BY <1>4 DEF Handles
  <2> QED
    BY <1>1, <1>2, <1>4, <2>1, Quiet DEF IInv, HandlesCounted
<1>7. /\ input_queue'[h] = <<Request>> /\ thread'[h] = "running" /\ latest_req_id'[h] = 1
      /\ \A g \in Handles : g # h => /\ input_queue'[g] = input_queue[g]
                                     /\ thread'[g] = thread[g]
                                     /\ latest_req_id'[g] = latest_req_id[g]
  <2>1. input_queue'[h] = Append(<<>>, Request)
    BY <1>1, <1>2, <1>4, <1>6 DEF ShapeOK
  <2>2. input_queue'[h] = <<Request>>
    BY <2>1
  <2> QED
    BY <1>1, <1>2, <1>4, <2>2 DEF ShapeOK, TypeOK
<1>8. TypeOK'
  <2>1. latest_req_id' \in [Handles -> Nat \cup {NoEntry}]
    BY <1>1, <1>2, <1>4 DEF TypeOK
  <2>2. thread' \in [Handles -> {"none", "running", "leaving", "gone"}]
    BY <1>1, <1>2, <1>4 DEF TypeOK
  <2> QED
    BY <1>1, <1>2, <1>4, <2>1, <2>2 DEF TypeOK, TensorCount
<1>9. ShapeOK'
  BY <1>1, <1>2, <1>4 DEF ShapeOK
<1>10. HandlesCounted'
  <2> SUFFICES ASSUME NEW g \in Handles, g >= h + 1 PROVE host_buffer[g].id = 0
    BY <1>1, <1>4 DEF HandlesCounted
  <2>1. g \in Int /\ h \in Int
    BY <1>4 DEF Handles
  <2>2. g >= h
    BY <2>1
  <2> QED
    BY <1>1, <2>2 DEF IInv, HandlesCounted
<1>11. CallInOnePlace'
  <2>1. call'.op = "OPEN" /\ call'.session = s /\ call'.handle = h /\ call'.id = 1
        /\ call' \in CallRecord
    BY <1>1, <1>4 DEF CallRecord
  <2>2. Asked(s)'
    BY <1>1, <1>6, <1>7, <2>1 DEF Asked
  <2>3. h < loader_id_iter'
    BY <1>1, <1>4 DEF Handles
  <2>4. \A t \in Sessions : loader_handle'[t] # h
    <3>1. h # None
      BY <1>4 DEF Handles, None
    <3> QED
      BY <1>1, <1>5, <3>1
  <2>5. latest_req_id'[h] # NoEntry
    BY <1>7 DEF NoEntry
  <2>6. Opening(s, h)'
    BY <1>1, <1>6, <1>7, <2>2, <2>3, <2>4, <2>5 DEF Opening
  <2>7. \A g \in Handles : g # h => input_queue'[g] = <<>> /\ output_queue'[g] = <<>>
    BY <1>1, <1>2, <1>7, Quiet
  <2> QED
    BY <2>1, <2>6, <2>7 DEF CallInOnePlace
<1>12. SessionsInOrder'
  <2> SUFFICES ASSUME NEW t \in Sessions, loader_handle[t] # None
               PROVE  LoaderOfSession(t, loader_handle[t])'
    BY <1>1, <1>2 DEF SessionsInOrder
  <2> DEFINE g == loader_handle[t]
  <2>1. LoaderOfSession(t, g)
    BY <1>2 DEF SessionsInOrder
  <2>2. g \in Handles /\ g # h /\ g < h + 1 /\ loader_handle' = loader_handle
    BY <1>1, <1>2, <1>4, <1>5 DEF TypeOK, Handles
  <2>3. stage[t] = "left" => latest_req_id[g] = NoEntry /\ thread[g] \in {"leaving", "gone"}
    BY <1>6, <2>1 DEF LoaderOfSession
  <2> QED
    BY <1>1, <1>7, <2>1, <2>2, <2>3 DEF LoaderOfSession, Equipped
<1>13. HeldIsLast'
  BY <1>1 DEF IInv, HeldIsLast
<1>14. ParametersWithinLimits'
  BY <1>1 DEF IInv, ParametersWithinLimits, TensorCount
<1>15. BuffersInOnePlace'
  BY <1>1 DEF IInv, BuffersInOnePlace
<1> QED
  BY <1>8, <1>9, <1>10, <1>11, <1>12, <1>13, <1>14, <1>15 DEF IInv
LEMMA EnterStep ==
  ASSUME IInv, NEW s \in Sessions, Enter(s)
  PROVE  IInv'
<1>1. /\ call = NoCall /\ stage[s] = "constructed" /\ loader_handle[s] # None
      /\ stage' = [stage EXCEPT ![s] = "entered"]
      /\ UNCHANGED <<params, loader_handle, iterated, invalidated, next_tensor, held, call>>
      /\ UNCHANGED <<latest_req_id, loader_id_iter, input_queue, output_queue>>
      /\ UNCHANGED <<thread, serves, host_buffer, cached_host_buffers, allocated, finished, crashed>>
  BY DEF Enter, Python, tableVars, loaderVars, processVars
<1>2. TypeOK /\ ShapeOK /\ CallInOnePlace /\ SessionsInOrder
  BY DEF IInv
<1>3. /\ stage'[s] = "entered" /\ \A t \in Sessions : t # s => stage'[t] = stage[t]
      /\ stage' \in [Sessions -> {"new", "rejected", "constructed", "entered", "left"}]
  BY <1>1, <1>2 DEF TypeOK
<1>4. \A t \in Sessions : stage'[t] \in Constructed <=> stage[t] \in Constructed
  BY <1>1, <1>3 DEF Constructed
<1>5. TypeOK'
  BY <1>1, <1>2, <1>3, <1>4 DEF TypeOK, TensorCount, Constructed
<1>6. ShapeOK'
  BY <1>1, <1>2 DEF ShapeOK
<1>7. HandlesCounted'
  <2>1. OpenedSessions' = OpenedSessions
    BY <1>1 DEF OpenedSessions
  <2> QED
    BY <1>1, <2>1 DEF IInv, HandlesCounted
<1>8. CallInOnePlace'
  BY <1>1, <1>2 DEF CallInOnePlace
<1>9. SessionsInOrder'
  <2> SUFFICES ASSUME NEW t \in Sessions
               PROVE  /\ stage'[t] \in {"new", "rejected"} => loader_handle[t] = None
                      /\ stage'[t] \in {"entered", "left"} => loader_handle[t] # None
                      /\ invalidated[t] <=> stage'[t] = "left"
                      /\ next_tensor[t] # 0 => iterated[t]
                      /\ loader_handle[t] # None => LoaderOfSession(t, loader_handle[t])'
    BY <1>1 DEF SessionsInOrder
  <2>1. stage'[t] = "left" <=> stage[t] = "left"
    BY <1>1, <1>3
  <2>2. loader_handle[t] # None => LoaderOfSession(t, loader_handle[t])'
    BY <1>1, <1>2, <2>1 DEF LoaderOfSession, Equipped, SessionsInOrder
  <2>3. stage'[t] \in {"new", "rejected"} => loader_handle[t] = None
    BY <1>2, <1>3 DEF SessionsInOrder
  <2>4. stage'[t] \in {"entered", "left"} => loader_handle[t] # None
    BY <1>1, <1>2, <1>3 DEF SessionsInOrder
  <2> QED
    BY <1>2, <2>1, <2>2, <2>3, <2>4 DEF SessionsInOrder
<1>10. HeldIsLast'
  BY <1>1, <1>3 DEF IInv, HeldIsLast
<1>11. ParametersWithinLimits'
  BY <1>1, <1>4 DEF IInv, ParametersWithinLimits, TensorCount
<1>12. BuffersInOnePlace'
  BY <1>1, <1>4 DEF IInv, BuffersInOnePlace
<1> QED
  BY <1>5, <1>6, <1>7, <1>8, <1>9, <1>10, <1>11, <1>12 DEF IInv

Requested(s, h, op, args) ==
  \E id \in Nat :
    /\ latest_req_id' = [latest_req_id EXCEPT ![h] = id]
    /\ call' = [op |-> op, session |-> s, handle |-> h, id |-> id]
    /\ input_queue' = [input_queue EXCEPT ![h] = <<[id |-> id, op |-> op, args |-> args]>>]

\* A call from inside the context finds its entry, and becomes a request.
LEMMA CallFacts ==
  ASSUME TypeOK, ShapeOK, CallInOnePlace, SessionsInOrder, NEW s \in Sessions, NEW op, NEW args,
         call = NoCall, stage[s] = "entered", Call(s, op, args), NEW h, h = loader_handle[s]
  PROVE  /\ h \in Handles /\ serves[h] = s /\ thread[h] = "running" /\ Equipped(h)
         /\ UNCHANGED crashed
         /\ Requested(s, h, op, args)
<1>2. LoaderOfSession(s, h) /\ h \in Handles
  BY DEF SessionsInOrder, TypeOK
<1>3. serves[h] = s /\ thread[h] = "running" /\ Equipped(h) /\ latest_req_id[h] # NoEntry
  BY <1>2 DEF LoaderOfSession
<1>4. PICK id : id = latest_req_id[h] + 1
  OBVIOUS
<1>5. id \in Nat
  BY <1>2, <1>3, <1>4 DEF TypeOK, NoEntry
<1>6. PICK request : request = [id |-> id, op |-> op, args |-> args]
  OBVIOUS
<1>7. /\ latest_req_id' = [latest_req_id EXCEPT ![h] = id]
      /\ input_queue' = [input_queue EXCEPT ![h] = Append(@, request)]
      /\ call' = [op |-> op, session |-> s, handle |-> h, id |-> id]
      /\ UNCHANGED crashed
  BY <1>3, <1>4, <1>6, Zenon DEF Call
<1>8. Append(input_queue[h], request) = <<request>>
  <2>1. input_queue[h] = <<>>
    BY <1>2, Quiet
  <2> QED
    BY <2>1
<1>9. input_queue' = [input_queue EXCEPT ![h] = <<request>>]
  BY <1>7, <1>8
<1>10. Requested(s, h, op, args)
  BY <1>5, <1>6, <1>7, <1>9 DEF Requested
<1> QED
  BY <1>2, <1>3, <1>7, <1>10

\* A get_tensor or a close from inside the context keeps the invariant.
LEMMA RequestStep ==
  ASSUME IInv, NEW s \in Sessions, NEW op \in {"GET_TENSOR_PTR", "CLOSE"}, NEW args,
         call = NoCall, stage[s] = "entered", Call(s, op, args),
         op = "GET_TENSOR_PTR" =>
           /\ args = next_tensor[s] /\ next_tensor[s] < TensorCount(s)
           /\ iterated' = [iterated EXCEPT ![s] = TRUE]
           /\ UNCHANGED <<stage, invalidated>>,
         op = "CLOSE" =>
           /\ args = None
           /\ stage' = [stage EXCEPT ![s] = "left"]
           /\ invalidated' = [invalidated EXCEPT ![s] = TRUE]
           /\ UNCHANGED iterated,
         DOMAIN held' = Sessions, held'[s] = <<>>,
         \A t \in Sessions : t # s => held'[t] = held[t],
         UNCHANGED <<params, loader_handle, next_tensor, loader_id_iter, output_queue>>,
         UNCHANGED <<thread, serves, host_buffer, cached_host_buffers, allocated, finished>>
  PROVE  IInv'
<1>1. TypeOK /\ ShapeOK /\ CallInOnePlace /\ SessionsInOrder
  BY DEF IInv
<1>2. PICK h : h = loader_handle[s]
  OBVIOUS
<1>3. /\ h \in Handles /\ h # None /\ serves[h] = s /\ thread[h] = "running" /\ Equipped(h)
      /\ UNCHANGED crashed /\ Requested(s, h, op, args)
  BY <1>1, <1>2, CallFacts DEF Handles, None
<1>4. PICK id \in Nat :
        /\ latest_req_id' = [latest_req_id EXCEPT ![h] = id]
        /\ call' = [op |-> op, session |-> s, handle |-> h, id |-> id]
        /\ input_queue' = [input_queue EXCEPT ![h] = <<[id |-> id, op |-> op, args |-> args]>>]
  BY <1>3, Zenon DEF Requested
<1>5. /\ call' \in CallRecord /\ call'.op = op /\ call'.session = s /\ call'.handle = h
      /\ call'.id = id /\ call.op = "none"
  BY <1>1, <1>3, <1>4, Quiet DEF CallRecord
<1>6. /\ latest_req_id'[h] # NoEntry /\ latest_req_id' \in [Handles -> Nat \cup {NoEntry}]
      /\ \A g \in Handles : g # h => /\ latest_req_id'[g] = latest_req_id[g]
                                     /\ input_queue'[g] = input_queue[g]
      /\ input_queue'[h] = <<[id |-> id, op |-> op, args |-> args]>>
      /\ DOMAIN input_queue' = Handles
  BY <1>1, <1>3, <1>4 DEF TypeOK, ShapeOK, NoEntry
<1>7. /\ stage' \in [Sessions -> {"new", "rejected", "constructed", "entered", "left"}]
      /\ \A t \in Sessions : t # s => /\ stage'[t] = stage[t] /\ invalidated'[t] = invalidated[t]
                                      /\ iterated'[t] = iterated[t]
      /\ stage'[s] \in {"entered", "left"} /\ (stage'[s] = "left" <=> op = "CLOSE")
      /\ (invalidated'[s] <=> op = "CLOSE") /\ invalidated' \in [Sessions -> BOOLEAN]
      /\ iterated' \in [Sessions -> BOOLEAN] /\ (iterated[s] => iterated'[s])
      /\ (op = "GET_TENSOR_PTR" => iterated'[s])
  <2>1. CASE op = "GET_TENSOR_PTR"
    <3>1. ~invalidated[s]
      BY <1>1 DEF SessionsInOrder
    <3>2. iterated' = [iterated EXCEPT ![s] = TRUE] /\ stage' = stage /\ invalidated' = invalidated
      BY <2>1
    <3>3. /\ iterated' \in [Sessions -> BOOLEAN] /\ iterated'[s]
          /\ \A t \in Sessions : t # s => iterated'[t] = iterated[t]
      BY <1>1, <3>2 DEF TypeOK
    <3> QED
      BY <1>1, <2>1, <3>1, <3>2, <3>3 DEF TypeOK
  <2>2. CASE op = "CLOSE"
    <3>1. /\ invalidated' = [invalidated EXCEPT ![s] = TRUE] /\ iterated' = iterated
          /\ stage' = [stage EXCEPT ![s] = "left"]
      BY <2>2
    <3>2. /\ invalidated' \in [Sessions -> BOOLEAN] /\ invalidated'[s]
          /\ \A t \in Sessions : t # s => invalidated'[t] = invalidated[t]
      BY <1>1, <3>1 DEF TypeOK
    <3>3. /\ stage' \in [Sessions -> {"new", "rejected", "constructed", "entered", "left"}]
          /\ stage'[s] = "left" /\ \A t \in Sessions : t # s => stage'[t] = stage[t]
      BY <1>1, <3>1 DEF TypeOK
    <3> QED
      BY <1>1, <2>2, <3>1, <3>2, <3>3 DEF TypeOK
  <2> QED
    BY <2>1, <2>2
<1>8. \A t \in Sessions : stage'[t] \in Constructed <=> stage[t] \in Constructed
  BY <1>7 DEF Constructed
<1>9. TypeOK'
  <2>1. ASSUME NEW t \in Sessions
        PROVE  /\ next_tensor'[t] \in 0 .. TensorCount(t)
               /\ \A i \in DOMAIN held'[t] : /\ held'[t][i].file \in Sessions
                                             /\ held'[t][i].index \in 0 .. TensorCount(t) - 1
                                             /\ held'[t][i].loader \in Handles
               /\ stage'[t] \in {"constructed", "entered", "left"} =>
                    params'[t].backend \in Available
    <3>1. next_tensor'[t] \in 0 .. TensorCount(t)
          /\ (stage'[t] \in {"constructed", "entered", "left"} => params'[t].backend \in Available)
      BY <1>1, <1>8 DEF TypeOK, Constructed
    <3>2. CASE t = s
      BY <3>1, <3>2
    <3>3. CASE t # s
      BY <1>1, <3>1, <3>3 DEF TypeOK
    <3> QED
      BY <3>2, <3>3
  <2> QED
    BY <1>1, <1>3, <1>6, <1>7, <2>1 DEF TypeOK, TensorCount
<1>10. ShapeOK'
  BY <1>1, <1>6 DEF ShapeOK
<1>11. HandlesCounted'
  <2>1. OpenedSessions' = OpenedSessions
    BY <1>5 DEF OpenedSessions
  <2> QED
    BY <2>1 DEF IInv, HandlesCounted
<1>12. CallInOnePlace'
  <2>1. \A g \in Handles : g # h => input_queue'[g] = <<>> /\ output_queue'[g] = <<>>
    BY <1>1, <1>6, Quiet
  <2>2. Asked(args)'
    BY <1>1, <1>3, <1>5, <1>6, Quiet DEF Asked
  <2>3. CASE op = "GET_TENSOR_PTR"
    <3>1. Getting(s, h)'
      BY <1>2, <1>7, <2>2, <2>3 DEF Getting, TensorCount
    <3> QED
      BY <1>5, <2>1, <2>3, <3>1 DEF CallInOnePlace
  <2>4. CASE op = "CLOSE"
    <3>1. Equipped(h)'
      BY <1>3 DEF Equipped
    <3>2. Closing(s, h)'
      BY <1>2, <1>3, <1>6, <1>7, <2>2, <2>4, <3>1 DEF Closing
    <3> QED
      BY <1>5, <2>1, <2>4, <3>2 DEF CallInOnePlace
  <2> QED
    BY <2>3, <2>4
<1>13. SessionsInOrder'
  <2> SUFFICES ASSUME NEW t \in Sessions
               PROVE  /\ stage'[t] \in {"new", "rejected"} => loader_handle[t] = None
                      /\ stage'[t] \in {"entered", "left"} => loader_handle[t] # None
                      /\ invalidated'[t] <=> stage'[t] = "left"
                      /\ next_tensor[t] # 0 => iterated'[t]
                      /\ loader_handle[t] # None => LoaderOfSession(t, loader_handle[t])'
    BY DEF SessionsInOrder
  <2>1. CASE t = s
    <3>1. LoaderOfSession(s, h)
      BY <1>1, <1>2, <1>3 DEF SessionsInOrder
    <3>2. LoaderOfSession(s, h)'
      BY <1>3, <1>5, <1>6, <1>7, <3>1 DEF LoaderOfSession, Equipped
    <3>3. LoaderOfSession(s, loader_handle[s])'
      BY <1>2, <3>2
    <3> QED
      BY <1>1, <1>2, <1>3, <1>7, <2>1, <3>3 DEF SessionsInOrder
  <2>2. CASE t # s
    <3>1. ASSUME loader_handle[t] # None PROVE LoaderOfSession(t, loader_handle[t])'
      <4>1. PICK g : g = loader_handle[t]
        OBVIOUS
      <4>2. LoaderOfSession(t, g) /\ g \in Handles /\ g # h
        BY <1>1, <1>2, <1>3, <2>2, <3>1, <4>1, OwnHandle DEF SessionsInOrder, TypeOK
      <4>3. LoaderOfSession(t, g)'
        BY <1>5, <1>6, <1>7, <2>2, <4>2 DEF LoaderOfSession, Equipped
      <4> QED
        BY <4>1, <4>3
    <3> QED
      BY <1>1, <1>7, <2>2, <3>1 DEF SessionsInOrder
  <2> QED
    BY <2>1, <2>2
<1>14. HeldIsLast'
  <2> SUFFICES ASSUME NEW t \in Sessions
               PROVE  /\ DOMAIN held'[t] \subseteq {1}
                      /\ held'[t] # <<>> =>
                           /\ stage'[t] = "entered" /\ next_tensor'[t] > 0
                           /\ held'[t][1].file = t /\ held'[t][1].index = next_tensor'[t] - 1
                           /\ held'[t][1].loader = loader_handle'[t]
    BY DEF HeldIsLast
  <2>1. CASE t = s
    BY <2>1
  <2>2. CASE t # s
    BY <1>7, <2>2 DEF IInv, HeldIsLast
  <2> QED
    BY <2>1, <2>2
<1>15. ParametersWithinLimits'
  BY <1>8 DEF IInv, ParametersWithinLimits, TensorCount
<1>16. BuffersInOnePlace'
  BY <1>1, <1>8 DEF IInv, BuffersInOnePlace
<1> QED
  BY <1>9, <1>10, <1>11, <1>12, <1>13, <1>14, <1>15, <1>16 DEF IInv

LEMMA FirstTensorStep ==
  ASSUME IInv, NEW s \in Sessions, FirstTensor(s)
  PROVE  IInv'
<1>1. /\ call = NoCall /\ stage[s] \in {"entered", "left"} /\ ~invalidated[s] /\ ~iterated[s]
      /\ iterated' = [iterated EXCEPT ![s] = TRUE]
      /\ Call(s, "GET_TENSOR_PTR", 0)
      /\ UNCHANGED <<stage, params, loader_handle, invalidated, next_tensor, held>>
      /\ UNCHANGED <<loader_id_iter, output_queue, thread, serves, host_buffer>>
      /\ UNCHANGED <<cached_host_buffers, allocated, finished>>
  BY DEF FirstTensor, Python, MayIterate, loaderVars
<1>2. stage[s] = "entered"
  BY <1>1 DEF IInv, SessionsInOrder
<1>3. next_tensor[s] = 0
  BY <1>1 DEF IInv, SessionsInOrder
<1>4. held[s] = <<>>
  BY <1>3 DEF IInv, HeldIsLast
<1>5. next_tensor[s] < TensorCount(s)
  BY <1>3, ConstantFacts
<1>6. DOMAIN held' = Sessions
  BY <1>1 DEF IInv, ShapeOK
<1> QED
  BY <1>1, <1>2, <1>3, <1>4, <1>5, <1>6, RequestStep

\* A step that only ends the process keeps the invariant.
LEMMA CrashStep ==
  ASSUME IInv, crashed' \in BOOLEAN,
         DOMAIN held' = Sessions, \A t \in Sessions : held'[t] = held[t],
         UNCHANGED <<stage, params, loader_handle, iterated, invalidated, next_tensor>>,
         UNCHANGED <<call, latest_req_id, loader_id_iter, input_queue, output_queue>>,
         UNCHANGED <<thread, serves, host_buffer, cached_host_buffers, allocated, finished>>
  PROVE  IInv'
<1>1. TypeOK' /\ ShapeOK'
  BY DEF IInv, TypeOK, ShapeOK, TensorCount
<1>2. HandlesCounted' /\ HeldIsLast' /\ ParametersWithinLimits'
  BY DEF IInv, HandlesCounted, OpenedSessions, HeldIsLast, ParametersWithinLimits, TensorCount
<1>3. CallInOnePlace'
  <2>1. CallInOnePlace
    BY DEF IInv
  <2>2. /\ \A s, h : Opening(s, h)' <=> Opening(s, h)
        /\ \A s \in Sessions, h \in Handles : Getting(s, h)' <=> Getting(s, h)
        /\ \A s, h : Closing(s, h)' <=> Closing(s, h)
    BY DEF Opening, Getting, Closing, Asked, Answered, Equipped, TensorCount
  <2>3. call # NoCall => call.session \in Sessions /\ call.handle \in Handles
    BY <2>1 DEF CallInOnePlace, CallRecord
  <2> QED
    BY <2>1, <2>2, <2>3 DEF CallInOnePlace, NoCall
<1>4. SessionsInOrder' /\ BuffersInOnePlace'
  BY DEF IInv, SessionsInOrder, LoaderOfSession, Equipped, BuffersInOnePlace
<1> QED
  BY <1>1, <1>2, <1>3, <1>4 DEF IInv

\* A call after the context has been left meets the entry that close() has erased.
LEMMA ErasedFacts ==
  ASSUME TypeOK, SessionsInOrder, NEW s \in Sessions, NEW op, NEW args,
         call = NoCall, stage[s] = "left", Call(s, op, args)
  PROVE  crashed' = TRUE /\ UNCHANGED <<call, latest_req_id, input_queue>>
<1>1. latest_req_id[loader_handle[s]] = NoEntry
  BY DEF SessionsInOrder, LoaderOfSession, NoCall
<1> QED
  BY <1>1, Zenon DEF Call

LEMMA NextTensorStep ==
  ASSUME IInv, NEW s \in Sessions, NextTensor(s)
  PROVE  IInv'
<1>1. /\ call = NoCall /\ stage[s] \in {"entered", "left"}
      /\ next_tensor[s] \in 1 .. TensorCount(s) - 1
      /\ held' = [held EXCEPT ![s] = <<>>]
      /\ Call(s, "GET_TENSOR_PTR", next_tensor[s])
      /\ UNCHANGED <<stage, params, loader_handle, iterated, invalidated, next_tensor>>
      /\ UNCHANGED <<loader_id_iter, output_queue, thread, serves, host_buffer>>
      /\ UNCHANGED <<cached_host_buffers, allocated, finished>>
  BY DEF NextTensor, Python, loaderVars
<1>2. next_tensor[s] < TensorCount(s) /\ next_tensor[s] # 0
  BY <1>1, ConstantFacts
<1>3. iterated \in [Sessions -> BOOLEAN] /\ iterated[s]
  BY <1>2 DEF IInv, SessionsInOrder, TypeOK
<1>4. iterated' = [iterated EXCEPT ![s] = TRUE]
  <2>1. iterated[s] = TRUE
    BY <1>3
  <2>2. [iterated EXCEPT ![s] = TRUE] = iterated
    BY <1>3, <2>1
  <2> QED
    BY <1>1, <2>2
<1>5. DOMAIN held' = Sessions /\ held'[s] = <<>> /\ \A t \in Sessions : t # s => held'[t] = held[t]
  BY <1>1 DEF IInv, ShapeOK
<1>6. CASE stage[s] = "entered"
  BY <1>1, <1>2, <1>4, <1>5, <1>6, RequestStep
<1>7. CASE stage[s] = "left"
  <2>1. crashed' = TRUE /\ UNCHANGED <<call, latest_req_id, input_queue>>
    BY <1>1, <1>7, ErasedFacts DEF IInv
  <2>2. held[s] = <<>>
    BY <1>7 DEF IInv, HeldIsLast
  <2> QED
    BY <1>1, <1>5, <2>1, <2>2, CrashStep
<1> QED
  BY <1>1, <1>6, <1>7

LEMMA LeaveStep ==
  ASSUME IInv, NEW s \in Sessions, Leave(s)
  PROVE  IInv'
<1>1. /\ call = NoCall /\ stage[s] \in {"entered", "left"}
      /\ invalidated' = [invalidated EXCEPT ![s] = TRUE]
      /\ stage' = [stage EXCEPT ![s] = "left"]
      /\ held' = [held EXCEPT ![s] = <<>>]
      /\ Call(s, "CLOSE", None)
      /\ UNCHANGED <<params, loader_handle, iterated, next_tensor, loader_id_iter, output_queue>>
      /\ UNCHANGED <<thread, serves, host_buffer, cached_host_buffers, allocated, finished>>
  BY DEF Leave, Python, loaderVars
<1>2. DOMAIN held' = Sessions /\ held'[s] = <<>> /\ \A t \in Sessions : t # s => held'[t] = held[t]
  BY <1>1 DEF IInv, ShapeOK
<1>3. CASE stage[s] = "entered"
  BY <1>1, <1>2, <1>3, RequestStep
<1>4. CASE stage[s] = "left"
  <2>1. crashed' = TRUE /\ UNCHANGED <<call, latest_req_id, input_queue>>
    BY <1>1, <1>4, ErasedFacts DEF IInv
  <2>2. held[s] = <<>> /\ invalidated[s]
    BY <1>4 DEF IInv, HeldIsLast, SessionsInOrder
  <2>3. stage' = stage /\ invalidated' = invalidated
    <3>1. /\ stage \in [Sessions -> {"new", "rejected", "constructed", "entered", "left"}]
          /\ invalidated \in [Sessions -> BOOLEAN] /\ invalidated[s] = TRUE
      BY <2>2 DEF IInv, TypeOK
    <3>2. [stage EXCEPT ![s] = "left"] = stage
      BY <1>4, <3>1
    <3>3. [invalidated EXCEPT ![s] = TRUE] = invalidated
      BY <3>1
    <3> QED
      BY <1>1, <3>2, <3>3
  <2> QED
    BY <1>1, <1>2, <2>1, <2>2, <2>3, CrashStep
<1> QED
  BY <1>1, <1>3, <1>4
-----------------------------------------------------------------------------
(* The steps that read a response, and the end of the process.             *)

\* Where there is a response it is the one the caller waits for.
LEMMA ResponseFacts ==
  ASSUME CallInOnePlace, call # NoCall, output_queue[call.handle] # <<>>
  PROVE  /\ call \in CallRecord
         /\ Head(output_queue[call.handle]).id = call.id
         /\ Tail(output_queue[call.handle]) = <<>>
         /\ input_queue[call.handle] = <<>>
         /\ call.op = "OPEN" => Opening(call.session, call.handle) /\ Answered(None)
                                /\ serves[call.handle] = call.session /\ Equipped(call.handle)
         /\ call.op = "GET_TENSOR_PTR" =>
              /\ Getting(call.session, call.handle)
              /\ Head(output_queue[call.handle]).result =
                   [file |-> call.session, index |-> next_tensor[call.session],
                    loader |-> call.handle]
         /\ call.op = "CLOSE" => Closing(call.session, call.handle) /\ Answered(None)
                                 /\ thread[call.handle] \in {"leaving", "gone"}
<1>1. call \in CallRecord /\ call.op \in {"OPEN", "GET_TENSOR_PTR", "CLOSE"}
  BY DEF CallInOnePlace, CallRecord
<1>2. \A args : ~Asked(args)
  BY DEF Asked
<1>3. ASSUME NEW result, Answered(result)
      PROVE  /\ Head(output_queue[call.handle]).id = call.id
             /\ Head(output_queue[call.handle]).result = result
             /\ Tail(output_queue[call.handle]) = <<>>
             /\ input_queue[call.handle] = <<>>
  BY <1>3 DEF Answered
<1>4. CASE call.op = "OPEN"
  <2>1. /\ Opening(call.session, call.handle) /\ Answered(None)
        /\ serves[call.handle] = call.session /\ Equipped(call.handle)
    BY <1>2, <1>4 DEF CallInOnePlace, Opening, NoCall
  <2> QED
    BY <1>1, <1>3, <1>4, <2>1
<1>5. CASE call.op = "GET_TENSOR_PTR"
  <2>1. /\ Getting(call.session, call.handle)
        /\ Answered([file |-> call.session, index |-> next_tensor[call.session],
                     loader |-> call.handle])
    BY <1>2, <1>5 DEF CallInOnePlace, Getting, NoCall
  <2> QED
    BY <1>1, <1>3, <1>5, <2>1
<1>6. CASE call.op = "CLOSE"
  <2>1. Closing(call.session, call.handle) /\ Answered(None)
        /\ thread[call.handle] \in {"leaving", "gone"}
    BY <1>2, <1>6 DEF CallInOnePlace, Closing, NoCall
  <2> QED
    BY <1>1, <1>3, <1>6, <2>1
<1> QED
  BY <1>1, <1>4, <1>5, <1>6

\* What Receive does in every case.
LEMMA ReceiveFacts ==
  ASSUME IInv, Receive
  PROVE  /\ ~crashed /\ call # NoCall /\ output_queue[call.handle] # <<>>
         /\ call' = NoCall /\ call'.op = "none"
         /\ Returned(call.session, call.op, Head(output_queue[call.handle]).result)
         /\ UNCHANGED <<stage, params, iterated, invalidated, loader_id_iter, input_queue>>
         /\ UNCHANGED <<thread, serves, host_buffer, cached_host_buffers, allocated>>
         /\ UNCHANGED <<finished, crashed>>
         /\ DOMAIN output_queue' = Handles
         /\ \A h \in Handles : input_queue'[h] = <<>> /\ output_queue'[h] = <<>>
<1>1. /\ ~crashed /\ call # NoCall /\ output_queue[call.handle] # <<>>
      /\ output_queue' = [output_queue EXCEPT ![call.handle] = Tail(@)]
      /\ UNCHANGED <<stage, params, iterated, invalidated, loader_id_iter, input_queue>>
      /\ UNCHANGED <<thread, serves, host_buffer, cached_host_buffers, allocated>>
      /\ UNCHANGED <<finished, crashed>>
  BY DEF Receive, loaderVars, processVars
<1>2. /\ call \in CallRecord /\ Head(output_queue[call.handle]).id = call.id
      /\ Tail(output_queue[call.handle]) = <<>> /\ input_queue[call.handle] = <<>>
  BY <1>1, ResponseFacts DEF IInv
<1>3. /\ Returned(call.session, call.op, Head(output_queue[call.handle]).result)
      /\ call' = NoCall
  BY <1>2, Zenon DEF Receive
<1>4. /\ DOMAIN output_queue' = Handles
      /\ \A h \in Handles : input_queue'[h] = <<>> /\ output_queue'[h] = <<>>
  <2>1. /\ \A h \in Handles : h # call.handle => input_queue[h] = <<>> /\ output_queue[h] = <<>>
        /\ DOMAIN output_queue = Handles /\ DOMAIN input_queue = Handles
    BY DEF IInv, CallInOnePlace, ShapeOK
  <2>2. output_queue' = [output_queue EXCEPT ![call.handle] = <<>>]
    BY <1>1, <1>2
  <2> QED
    BY <1>1, <1>2, <2>1, <2>2 DEF CallRecord
<1> QED
  BY <1>1, <1>3, <1>4 DEF NoCall

LEMMA ReceiveOpenStep ==
  ASSUME IInv, Receive, call.op = "OPEN"
  PROVE  IInv'
<1>1. PICK s, h : s = call.session /\ h = call.handle
  OBVIOUS
<1>2. TypeOK /\ ShapeOK /\ SessionsInOrder /\ CallInOnePlace
  BY DEF IInv
<1>3. /\ call' = NoCall /\ call'.op = "none"
      /\ UNCHANGED <<stage, params, iterated, invalidated, loader_id_iter, input_queue>>
      /\ UNCHANGED <<thread, serves, host_buffer, cached_host_buffers, allocated>>
      /\ UNCHANGED <<finished, crashed>>
      /\ DOMAIN output_queue' = Handles /\ DOMAIN input_queue' = Handles
      /\ \A g \in Handles : input_queue'[g] = <<>> /\ output_queue'[g] = <<>>
  BY <1>2, ReceiveFacts DEF ShapeOK
<1>4. /\ loader_handle' = [loader_handle EXCEPT ![s] = h]
      /\ UNCHANGED <<next_tensor, held, latest_req_id>>
  BY <1>1, ReceiveFacts, Zenon DEF Returned
<1>5. /\ s \in Sessions /\ h \in Handles /\ Opening(s, h) /\ serves[h] = s /\ Equipped(h)
  <2>1. call # NoCall /\ output_queue[call.handle] # <<>>
    BY ReceiveFacts
  <2> QED
    BY <1>1, <1>2, <2>1, ResponseFacts DEF CallRecord
<1>6. /\ stage[s] = "constructed" /\ loader_handle[s] = None /\ h < loader_id_iter
      /\ latest_req_id[h] # NoEntry /\ thread[h] = "running" /\ h # None
  BY <1>5 DEF Opening, Handles, None
<1>7. /\ loader_handle' \in [Sessions -> Handles \cup {None}]
      /\ loader_handle'[s] = h /\ \A t \in Sessions : t # s => loader_handle'[t] = loader_handle[t]
  BY <1>2, <1>4, <1>5 DEF TypeOK
<1>8. TypeOK'
  BY <1>2, <1>3, <1>4, <1>7 DEF TypeOK, TensorCount
<1>9. ShapeOK'
  BY <1>2, <1>3, <1>4 DEF ShapeOK
<1>10. HandlesCounted'
  <2>1. OpenedSessions' = OpenedSessions
    BY <1>1, <1>3, <1>5, <1>6, <1>7 DEF OpenedSessions
  <2> QED
    BY <1>3, <2>1 DEF IInv, HandlesCounted
<1>11. CallInOnePlace'
  BY <1>3 DEF CallInOnePlace
<1>12. SessionsInOrder'
  <2> SUFFICES ASSUME NEW t \in Sessions
               PROVE  /\ stage[t] \in {"new", "rejected"} => loader_handle'[t] = None
                      /\ stage[t] \in {"entered", "left"} => loader_handle'[t] # None
                      /\ loader_handle'[t] # None => LoaderOfSession(t, loader_handle[t])'
    BY <1>2, <1>3, <1>4 DEF SessionsInOrder
  <2>1. CASE t = s
    <3>1. LoaderOfSession(s, h)'
      BY <1>3, <1>4, <1>5, <1>6 DEF LoaderOfSession, Equipped
    <3> QED
      BY <1>6, <1>7, <2>1, <3>1
  <2>2. CASE t # s
    <3>1. PICK g : g = loader_handle[t]
      OBVIOUS
    <3>2. g # None => LoaderOfSession(t, g)'
      BY <1>1, <1>2, <1>3, <1>4, <2>2, <3>1 DEF LoaderOfSession, Equipped, SessionsInOrder
    <3> QED
      BY <1>2, <1>7, <2>2, <3>1, <3>2 DEF SessionsInOrder
  <2> QED
    BY <2>1, <2>2
<1>13. HeldIsLast'
  <2>1. held[s] = <<>>
    BY <1>5, <1>6 DEF IInv, HeldIsLast
  <2> QED
    BY <1>3, <1>4, <1>7, <2>1 DEF IInv, HeldIsLast
<1>14. ParametersWithinLimits'
  BY <1>3 DEF IInv, ParametersWithinLimits, TensorCount
<1>15. BuffersInOnePlace'
  BY <1>3 DEF IInv, BuffersInOnePlace
<1> QED
  BY <1>8, <1>9, <1>10, <1>11, <1>12, <1>13, <1>14, <1>15 DEF IInv
LEMMA ReceiveGetStep ==
  ASSUME IInv, Receive, call.op = "GET_TENSOR_PTR"
  PROVE  IInv'
<1>1. PICK s, h : s = call.session /\ h = call.handle
  OBVIOUS
<1>2. TypeOK /\ ShapeOK /\ SessionsInOrder /\ CallInOnePlace
  BY DEF IInv
<1>3. /\ call' = NoCall /\ call'.op = "none"
      /\ UNCHANGED <<stage, params, iterated, invalidated, loader_id_iter, input_queue>>
      /\ UNCHANGED <<thread, serves, host_buffer, cached_host_buffers, allocated>>
      /\ UNCHANGED <<finished, crashed>>
      /\ DOMAIN output_queue' = Handles /\ DOMAIN input_queue' = Handles
      /\ \A g \in Handles : input_queue'[g] = <<>> /\ output_queue'[g] = <<>>
  BY <1>2, ReceiveFacts DEF ShapeOK
<1>4. /\ s \in Sessions /\ h \in Handles /\ Getting(s, h)
      /\ Head(output_queue[call.handle]).result =
           [file |-> s, index |-> next_tensor[s], loader |-> h]
  <2>1. call # NoCall /\ output_queue[call.handle] # <<>>
    BY ReceiveFacts
  <2> QED
    BY <1>1, <1>2, <2>1, ResponseFacts DEF CallRecord
<1>5. PICK result : result = Head(output_queue[call.handle]).result
  OBVIOUS
<1>6. PICK tensor : tensor = [file |-> result.file, index |-> result.index,
                              loader |-> result.loader, device |-> device_idx]
  OBVIOUS
<1>7. /\ held' = [held EXCEPT ![s] = <<tensor>>]
      /\ next_tensor' = [next_tensor EXCEPT ![s] = @ + 1]
      /\ UNCHANGED <<loader_handle, latest_req_id>>
  BY <1>1, <1>5, <1>6, ReceiveFacts, Zenon DEF Returned
<1>8. tensor.file = s /\ tensor.index = next_tensor[s] /\ tensor.loader = h
  BY <1>4, <1>5, <1>6
<1>9. /\ stage[s] = "entered" /\ loader_handle[s] = h /\ iterated[s]
      /\ next_tensor[s] \in Nat /\ next_tensor[s] < TensorCount(s) /\ TensorCount(s) \in Nat
  BY <1>2, <1>4, ConstantFacts DEF Getting, TypeOK
<1>10. /\ DOMAIN held' = Sessions /\ held'[s] = <<tensor>>
       /\ \A t \in Sessions : t # s => held'[t] = held[t]
  BY <1>2, <1>4, <1>7 DEF ShapeOK
<1>11. /\ DOMAIN next_tensor' = Sessions /\ next_tensor'[s] = next_tensor[s] + 1
       /\ \A t \in Sessions : t # s => next_tensor'[t] = next_tensor[t]
  BY <1>2, <1>4, <1>7 DEF ShapeOK
<1>12. DOMAIN <<tensor>> = {1} /\ <<tensor>>[1] = tensor /\ <<tensor>> # <<>>
  OBVIOUS
<1>13. TypeOK'
  <2>1. ASSUME NEW t \in Sessions
        PROVE  /\ next_tensor'[t] \in 0 .. TensorCount(t)
               /\ \A i \in DOMAIN held'[t] : /\ held'[t][i].file \in Sessions
                                             /\ held'[t][i].index \in 0 .. TensorCount(t) - 1
                                             /\ held'[t][i].loader \in Handles
    <3>1. CASE t = s
      <4>1. next_tensor'[t] \in 0 .. TensorCount(t)
        BY <1>9, <1>11, <3>1
      <4>2. next_tensor[s] \in 0 .. TensorCount(t) - 1
        BY <1>9, <3>1
      <4>3. \A i \in DOMAIN held'[t] : held'[t][i] = tensor
        BY <1>10, <1>12, <3>1
      <4> QED
        BY <1>4, <1>8, <3>1, <4>1, <4>2, <4>3
    <3>2. CASE t # s
      BY <1>2, <1>10, <1>11, <3>2 DEF TypeOK
    <3> QED
      BY <3>1, <3>2
  <2> QED
    BY <1>2, <1>3, <1>7, <2>1 DEF TypeOK, TensorCount
<1>14. ShapeOK'
  BY <1>2, <1>3, <1>10, <1>11 DEF ShapeOK
<1>15. HandlesCounted'
  <2>1. OpenedSessions' = OpenedSessions
    BY <1>3, <1>7 DEF OpenedSessions
  <2> QED
    BY <1>3, <2>1 DEF IInv, HandlesCounted
<1>16. CallInOnePlace'
  BY <1>3 DEF CallInOnePlace
<1>17. SessionsInOrder'
  <2> SUFFICES ASSUME NEW t \in Sessions
               PROVE  /\ next_tensor'[t] # 0 => iterated[t]
                      /\ loader_handle[t] # None => LoaderOfSession(t, loader_handle[t])'
    BY <1>2, <1>3, <1>7 DEF SessionsInOrder
  <2>1. next_tensor'[t] # 0 => iterated[t]
    BY <1>2, <1>9, <1>11 DEF SessionsInOrder
  <2>2. loader_handle[t] # None => LoaderOfSession(t, loader_handle[t])'
    BY <1>2, <1>3, <1>7 DEF LoaderOfSession, Equipped, SessionsInOrder
  <2> QED
    BY <2>1, <2>2
<1>18. HeldIsLast'
  <2> SUFFICES ASSUME NEW t \in Sessions
               PROVE  /\ DOMAIN held'[t] \subseteq {1}
                      /\ held'[t] # <<>> =>
                           /\ stage'[t] = "entered" /\ next_tensor'[t] > 0
                           /\ held'[t][1].file = t /\ held'[t][1].index = next_tensor'[t] - 1
                           /\ held'[t][1].loader = loader_handle'[t]
    BY DEF HeldIsLast
  <2>1. CASE t = s
    <3>1. next_tensor'[t] > 0 /\ next_tensor'[t] - 1 = next_tensor[s]
      BY <1>9, <1>11, <2>1
    <3>2. held'[t][1] = tensor /\ DOMAIN held'[t] = {1}
      BY <1>10, <1>12, <2>1
    <3> QED
      BY <1>3, <1>7, <1>8, <1>9, <2>1, <3>1, <3>2
  <2>2. CASE t # s
    BY <1>3, <1>7, <1>10, <1>11, <2>2 DEF IInv, HeldIsLast
  <2> QED
    BY <2>1, <2>2
<1>19. ParametersWithinLimits'
  BY <1>3 DEF IInv, ParametersWithinLimits, TensorCount
<1>20. BuffersInOnePlace'
  BY <1>3 DEF IInv, BuffersInOnePlace
<1> QED
  BY <1>13, <1>14, <1>15, <1>16, <1>17, <1>18, <1>19, <1>20 DEF IInv

LEMMA ReceiveCloseStep ==
  ASSUME IInv, Receive, call.op = "CLOSE"
  PROVE  IInv'
<1>1. PICK s, h : s = call.session /\ h = call.handle
  OBVIOUS
<1>2. TypeOK /\ ShapeOK /\ SessionsInOrder /\ CallInOnePlace
  BY DEF IInv
<1>3. /\ call' = NoCall /\ call'.op = "none"
      /\ UNCHANGED <<stage, params, iterated, invalidated, loader_id_iter, input_queue>>
      /\ UNCHANGED <<thread, serves, host_buffer, cached_host_buffers, allocated>>
      /\ UNCHANGED <<finished, crashed>>
      /\ DOMAIN output_queue' = Handles /\ DOMAIN input_queue' = Handles
      /\ \A g \in Handles : input_queue'[g] = <<>> /\ output_queue'[g] = <<>>
  BY <1>2, ReceiveFacts DEF ShapeOK
<1>4. /\ latest_req_id' = [latest_req_id EXCEPT ![h] = NoEntry]
      /\ UNCHANGED <<loader_handle, next_tensor, held>>
  BY <1>1, ReceiveFacts, Zenon DEF Returned
<1>5. /\ s \in Sessions /\ h \in Handles /\ Closing(s, h) /\ thread[h] \in {"leaving", "gone"}
  <2>1. call # NoCall /\ output_queue[call.handle] # <<>>
    BY ReceiveFacts
  <2> QED
    BY <1>1, <1>2, <2>1, ResponseFacts DEF CallRecord
<1>6. stage[s] = "left" /\ loader_handle[s] = h /\ h # None
  BY <1>5 DEF Closing, Handles, None
<1>7. /\ latest_req_id' \in [Handles -> Nat \cup {NoEntry}] /\ latest_req_id'[h] = NoEntry
      /\ \A g \in Handles : g # h => latest_req_id'[g] = latest_req_id[g]
  BY <1>2, <1>4, <1>5 DEF TypeOK
<1>8. TypeOK'
  BY <1>2, <1>3, <1>4, <1>7 DEF TypeOK, TensorCount
<1>9. ShapeOK'
  BY <1>2, <1>3, <1>4 DEF ShapeOK
<1>10. HandlesCounted'
  <2>1. OpenedSessions' = OpenedSessions
    BY <1>3, <1>4 DEF OpenedSessions
  <2> QED
    BY <1>3, <2>1 DEF IInv, HandlesCounted
<1>11. CallInOnePlace'
  BY <1>3 DEF CallInOnePlace
<1>12. SessionsInOrder'
  <2> SUFFICES ASSUME NEW t \in Sessions, loader_handle[t] # None
               PROVE  LoaderOfSession(t, loader_handle[t])'
    BY <1>2, <1>3, <1>4 DEF SessionsInOrder
  <2>1. PICK g : g = loader_handle[t]
    OBVIOUS
  <2>2. LoaderOfSession(t, g) /\ g \in Handles
    BY <1>2, <2>1 DEF SessionsInOrder, TypeOK
  <2>3. CASE t = s
    <3>1. LoaderOfSession(t, h)'
      BY <1>3, <1>4, <1>5, <1>6, <1>7, <2>1, <2>2, <2>3 DEF LoaderOfSession
    <3> QED
      BY <1>4, <1>6, <2>3, <3>1
  <2>4. CASE t # s
    <3>1. g # h
      BY <1>2, <1>5, <1>6, <2>1, <2>4, OwnHandle
    <3>2. LoaderOfSession(t, g)'
      BY <1>1, <1>3, <1>4, <1>7, <2>2, <2>4, <3>1 DEF LoaderOfSession, Equipped
    <3> QED
      BY <1>4, <2>1, <3>2
  <2> QED
    BY <2>3, <2>4
<1>13. HeldIsLast'
  BY <1>3, <1>4 DEF IInv, HeldIsLast
<1>14. ParametersWithinLimits'
  BY <1>3 DEF IInv, ParametersWithinLimits, TensorCount
<1>15. BuffersInOnePlace'
  BY <1>3 DEF IInv, BuffersInOnePlace
<1> QED
  BY <1>8, <1>9, <1>10, <1>11, <1>12, <1>13, <1>14, <1>15 DEF IInv

LEMMA CleanupStep ==
  ASSUME IInv, Cleanup
  PROVE  IInv'
<1>1. /\ finished' = TRUE /\ cached_host_buffers' = <<>>
      /\ UNCHANGED <<stage, params, loader_handle, iterated, invalidated, next_tensor, held>>
      /\ UNCHANGED <<call, latest_req_id, loader_id_iter, input_queue, output_queue>>
      /\ UNCHANGED <<thread, serves, host_buffer, allocated, crashed>>
  BY DEF Cleanup, objectVars, tableVars, loaderVars
<1>2. cached_host_buffers' \in Seq(HostBuffer) /\ DOMAIN cached_host_buffers' = {}
  BY <1>1
<1>3. TypeOK'
  BY <1>1, <1>2 DEF IInv, TypeOK, TensorCount
<1>4. ShapeOK'
  BY <1>1 DEF IInv, ShapeOK
<1>5. HandlesCounted'
  <2>1. OpenedSessions' = OpenedSessions
    BY <1>1 DEF OpenedSessions
  <2> QED
    BY <1>1, <2>1 DEF IInv, HandlesCounted
<1>6. CallInOnePlace'
  <2>1. CallInOnePlace
    BY DEF IInv
  <2>2. /\ \A s, h : Opening(s, h)' <=> Opening(s, h)
        /\ \A s, h : Getting(s, h)' <=> Getting(s, h)
        /\ \A s, h : Closing(s, h)' <=> Closing(s, h)
    BY <1>1 DEF Opening, Getting, Closing, Asked, Answered, Equipped, TensorCount
  <2> QED
    BY <1>1, <2>1, <2>2 DEF CallInOnePlace
<1>7. SessionsInOrder'
  BY <1>1 DEF IInv, SessionsInOrder, LoaderOfSession, Equipped
<1>8. HeldIsLast' /\ ParametersWithinLimits'
  BY <1>1 DEF IInv, HeldIsLast, ParametersWithinLimits, TensorCount
<1>9. BuffersInOnePlace'
  BY <1>1, <1>2 DEF IInv, BuffersInOnePlace
<1> QED
  BY <1>3, <1>4, <1>5, <1>6, <1>7, <1>8, <1>9 DEF IInv
-----------------------------------------------------------------------------
(* The steps of a loader thread.                                           *)

\* A sequence without one of its elements.
LEMMA Removed ==
  ASSUME NEW S, NEW q \in Seq(S), NEW i \in 1 .. Len(q)
  PROVE  /\ RemoveAt(q, i) \in Seq(S)
         /\ DOMAIN RemoveAt(q, i) = 1 .. Len(q) - 1
         /\ \A j \in 1 .. Len(q) - 1 :
              RemoveAt(q, i)[j] = IF j < i THEN q[j] ELSE q[j + 1]
<1> DEFINE a == SubSeq(q, 1, i - 1)
           b == SubSeq(q, i + 1, Len(q))
<1>0. PICK n \in Nat : n = Len(q) /\ DOMAIN q = 1 .. n
  OBVIOUS
<1>1. i \in 1 .. n /\ \A j \in 1 .. n : q[j] \in S
  BY <1>0
<1>2. /\ a \in Seq(S) /\ Len(a) = i - 1 /\ \A j \in 1 .. i - 1 : a[j] = q[j]
  BY <1>0, <1>1
<1>3. b \in Seq(S) /\ Len(b) = n - i /\ \A j \in 1 .. n - i : b[j] = q[i + j]
  BY <1>0, <1>1
<1> HIDE DEF a, b
<1>4. a \o b \in Seq(S) /\ Len(a \o b) = n - 1 /\ DOMAIN (a \o b) = 1 .. n - 1
  <2>1. a \o b \in Seq(S) /\ Len(a \o b) = Len(a) + Len(b)
    BY <1>2, <1>3
  <2>2. Len(a) + Len(b) = n - 1
    BY <1>1, <1>2, <1>3
  <2> QED
    BY <2>1, <2>2
<1>5. ASSUME NEW j \in 1 .. n - 1
      PROVE  (a \o b)[j] = IF j < i THEN q[j] ELSE q[j + 1]
  <2>1. CASE j < i
    <3>1. j \in 1 .. i - 1 /\ j \in 1 .. Len(a)
      BY <1>1, <1>2, <2>1
    <3>2. (a \o b)[j] = a[j]
      BY <1>2, <1>3, <3>1
    <3> QED
      BY <1>2, <2>1, <3>1, <3>2
  <2>2. CASE ~(j < i)
    <3>1. j - (i - 1) \in 1 .. n - i /\ i + (j - (i - 1)) = j + 1 /\ j > Len(a)
      BY <1>1, <1>2, <2>2
    <3>2. (a \o b)[j] = b[j - (i - 1)]
      BY <1>2, <1>3, <1>4, <3>1
    <3> QED
      BY <1>3, <2>2, <3>1, <3>2
  <2> QED
    BY <2>1, <2>2
<1>6. RemoveAt(q, i) = a \o b
  BY DEF RemoveAt, a, b
<1> QED
  BY <1>0, <1>4, <1>5, <1>6

\* A request a loader finds is the call in progress.
LEMMA RequestFacts ==
  ASSUME CallInOnePlace, NEW h \in Handles, input_queue[h] # <<>>
  PROVE  /\ call \in CallRecord /\ call # NoCall /\ call.handle = h
         /\ Head(input_queue[h]).id = call.id /\ Head(input_queue[h]).op = call.op
         /\ Tail(input_queue[h]) = <<>> /\ output_queue[h] = <<>>
         /\ call.op = "OPEN" => /\ Opening(call.session, h) /\ host_buffer[h].id = 0
                                /\ Head(input_queue[h]).args = call.session
         /\ call.op = "GET_TENSOR_PTR" =>
              Getting(call.session, h) /\ Head(input_queue[h]).args = next_tensor[call.session]
         /\ call.op = "CLOSE" => Closing(call.session, h) /\ Equipped(h)
<1>1. call.op # "none" /\ call.handle = h
  BY DEF CallInOnePlace
<1>2. call \in CallRecord /\ call # NoCall
  BY <1>1 DEF CallInOnePlace, NoCall
<1>3. \A result : ~Answered(result)
  BY <1>1 DEF Answered
<1>4. ASSUME NEW args, Asked(args)
      PROVE  /\ Head(input_queue[h]).id = call.id /\ Head(input_queue[h]).op = call.op
             /\ Head(input_queue[h]).args = args
             /\ Tail(input_queue[h]) = <<>> /\ output_queue[h] = <<>>
  BY <1>1, <1>4 DEF Asked
<1>5. CASE call.op = "OPEN"
  <2>1. Opening(call.session, h) /\ Asked(call.session) /\ host_buffer[h].id = 0
    BY <1>1, <1>2, <1>3, <1>5 DEF CallInOnePlace, Opening
  <2> QED
    BY <1>1, <1>2, <1>4, <1>5, <2>1
<1>6. CASE call.op = "GET_TENSOR_PTR"
  <2>1. Getting(call.session, h) /\ Asked(next_tensor[call.session])
    BY <1>1, <1>2, <1>3, <1>6 DEF CallInOnePlace, Getting
  <2> QED
    BY <1>1, <1>2, <1>4, <1>6, <2>1
<1>7. CASE call.op = "CLOSE"
  <2>1. Closing(call.session, h) /\ Asked(None) /\ Equipped(h)
    BY <1>1, <1>2, <1>3, <1>7 DEF CallInOnePlace, Closing
  <2> QED
    BY <1>1, <1>2, <1>4, <1>7, <2>1
<1>8. call.op \in {"OPEN", "GET_TENSOR_PTR", "CLOSE"}
  BY <1>2 DEF CallRecord
<1> QED
  BY <1>5, <1>6, <1>7, <1>8

\* Serving moves the call from the input queue to the output queue.
LEMMA ServeFacts ==
  ASSUME IInv, NEW h \in Handles, NEW op, NEW result, Serve(h, op, result)
  PROVE  /\ input_queue[h] # <<>> /\ call.op = op /\ thread[h] = "running"
         /\ Answered(result)' /\ call'.handle = h
         /\ DOMAIN input_queue' = Handles /\ DOMAIN output_queue' = Handles
         /\ \A g \in Handles : g # h => input_queue'[g] = <<>> /\ output_queue'[g] = <<>>
         /\ UNCHANGED <<stage, params, loader_handle, iterated, invalidated, next_tensor, held>>
         /\ UNCHANGED <<call, latest_req_id, loader_id_iter, finished, crashed>>
<1>1. /\ thread[h] = "running" /\ input_queue[h] # <<>> /\ Head(input_queue[h]).op = op
      /\ input_queue' = [input_queue EXCEPT ![h] = Tail(@)]
      /\ output_queue' = [output_queue EXCEPT ![h] =
                            Append(@, [id |-> Head(input_queue[h]).id, result |-> result])]
      /\ UNCHANGED <<stage, params, loader_handle, iterated, invalidated, next_tensor, held>>
      /\ UNCHANGED <<call, latest_req_id, loader_id_iter, finished, crashed>>
  BY DEF Serve, objectVars, tableVars
<1>2. /\ call.handle = h /\ Head(input_queue[h]).id = call.id /\ Head(input_queue[h]).op = call.op
      /\ Tail(input_queue[h]) = <<>> /\ output_queue[h] = <<>> /\ call.op # "none"
  BY <1>1, RequestFacts DEF IInv, CallRecord
<1>3. PICK response : response = [id |-> call.id, result |-> result]
  OBVIOUS
<1>4. Append(<<>>, response) = <<response>>
  OBVIOUS
<1>5. /\ input_queue' = [input_queue EXCEPT ![h] = <<>>]
      /\ output_queue' = [output_queue EXCEPT ![h] = <<response>>]
  <2>1. input_queue' = [input_queue EXCEPT ![h] = <<>>]
    BY <1>1, <1>2
  <2>2. output_queue' = [output_queue EXCEPT ![h] = Append(<<>>, response)]
    BY <1>1, <1>2, <1>3
  <2> QED
    BY <1>4, <2>1, <2>2
<1>6. DOMAIN input_queue = Handles /\ DOMAIN output_queue = Handles
  BY DEF IInv, ShapeOK
<1>7. Answered(result)'
  BY <1>1, <1>2, <1>3, <1>5, <1>6 DEF Answered
<1>8. \A g \in Handles : g # h => input_queue'[g] = <<>> /\ output_queue'[g] = <<>>
  BY <1>2, <1>5, <1>6 DEF IInv, CallInOnePlace
<1> QED
  BY <1>1, <1>2, <1>5, <1>6, <1>7, <1>8
LEMMA ServeGetStep ==
  ASSUME IInv, NEW h \in Handles, ServeGet(h)
  PROVE  IInv'
<1>1. PICK result : result = [file |-> serves[h], index |-> Head(input_queue[h]).args, loader |-> h]
  OBVIOUS
<1>2. /\ Serve(h, "GET_TENSOR_PTR", result)
      /\ UNCHANGED <<thread, serves, host_buffer, cached_host_buffers, allocated>>
  BY <1>1 DEF ServeGet, loaderVars
<1>3. /\ input_queue[h] # <<>> /\ call.op = "GET_TENSOR_PTR"
      /\ Answered(result)' /\ call'.handle = h
      /\ DOMAIN input_queue' = Handles /\ DOMAIN output_queue' = Handles
      /\ \A g \in Handles : g # h => input_queue'[g] = <<>> /\ output_queue'[g] = <<>>
      /\ UNCHANGED <<stage, params, loader_handle, iterated, invalidated, next_tensor, held>>
      /\ UNCHANGED <<call, latest_req_id, loader_id_iter, finished, crashed>>
  BY <1>2, ServeFacts
<1>4. PICK s : s = call.session
  OBVIOUS
<1>5. /\ call \in CallRecord /\ s \in Sessions
      /\ Getting(s, h) /\ Head(input_queue[h]).args = next_tensor[s]
  BY <1>3, <1>4, RequestFacts DEF IInv, CallRecord
<1>6. TypeOK'
  BY <1>2, <1>3 DEF IInv, TypeOK, TensorCount
<1>7. ShapeOK'
  BY <1>2, <1>3 DEF IInv, ShapeOK
<1>8. HandlesCounted'
  <2>1. OpenedSessions' = OpenedSessions
    BY <1>3 DEF OpenedSessions
  <2> QED
    BY <1>2, <1>3, <2>1 DEF IInv, HandlesCounted
<1>9. SessionsInOrder'
  BY <1>2, <1>3 DEF IInv, SessionsInOrder, LoaderOfSession, Equipped
<1>10. CallInOnePlace'
  <2>1. loader_handle[s] = h /\ h # None
    BY <1>5 DEF Getting, Handles, None
  <2>2. serves[h] = s
    BY <1>5, <2>1 DEF IInv, SessionsInOrder, LoaderOfSession
  <2>3. result = [file |-> s, index |-> next_tensor[s], loader |-> h]
    BY <1>1, <1>5, <2>2
  <2>4. /\ stage[s] = "entered" /\ loader_handle[s] = h
        /\ iterated[s] /\ held[s] = <<>> /\ next_tensor[s] < TensorCount(s)
    BY <1>5 DEF Getting
  <2>5. Answered([file |-> s, index |-> next_tensor[s], loader |-> h])'
    BY <1>3, <2>3
  <2>6. Getting(s, h)'
    BY <1>3, <2>4, <2>5 DEF Getting, TensorCount
  <2> QED
    BY <1>3, <1>4, <1>5, <2>6 DEF CallInOnePlace
<1>11. HeldIsLast' /\ ParametersWithinLimits'
  BY <1>2, <1>3 DEF IInv, HeldIsLast, ParametersWithinLimits, TensorCount
<1>12. BuffersInOnePlace'
  BY <1>2, <1>3 DEF IInv, BuffersInOnePlace
<1> QED
  BY <1>6, <1>7, <1>8, <1>9, <1>10, <1>11, <1>12 DEF IInv

LEMMA ServeCloseStep ==
  ASSUME IInv, NEW h \in Handles, ServeClose(h)
  PROVE  IInv'
<1>1. /\ Serve(h, "CLOSE", None)
      /\ thread' = [thread EXCEPT ![h] = "leaving"]
      /\ host_buffer' = [host_buffer EXCEPT ![h] = NoHostBuffer]
      /\ cached_host_buffers' = IF NeedHostBuffer(params[serves[h]]) /\ CacheBuffer
                                  THEN Append(cached_host_buffers, host_buffer[h])
                                  ELSE cached_host_buffers
      /\ UNCHANGED <<serves, allocated>>
  BY DEF ServeClose, AfterClose
<1>2. /\ input_queue[h] # <<>> /\ call.op = "CLOSE" /\ thread[h] = "running"
      /\ Answered(None)' /\ call'.handle = h
      /\ DOMAIN input_queue' = Handles /\ DOMAIN output_queue' = Handles
      /\ \A g \in Handles : g # h => input_queue'[g] = <<>> /\ output_queue'[g] = <<>>
      /\ UNCHANGED <<stage, params, loader_handle, iterated, invalidated, next_tensor, held>>
      /\ UNCHANGED <<call, latest_req_id, loader_id_iter, finished, crashed>>
  BY <1>1, ServeFacts
<1>3. PICK s : s = call.session
  OBVIOUS
<1>4. call \in CallRecord /\ s \in Sessions /\ Closing(s, h) /\ Equipped(h)
  BY <1>2, <1>3, RequestFacts DEF IInv, CallRecord
<1>5. stage[s] = "left" /\ loader_handle[s] = h /\ latest_req_id[h] # NoEntry /\ h # None
  BY <1>4 DEF Closing, Handles, None
<1>6. TypeOK /\ ShapeOK /\ SessionsInOrder /\ BuffersInOnePlace
  BY DEF IInv
<1>7. /\ thread' \in [Handles -> {"none", "running", "leaving", "gone"}] /\ thread'[h] = "leaving"
      /\ host_buffer' \in [Handles -> HostBuffer] /\ host_buffer'[h].id = 0
      /\ \A g \in Handles : g # h => thread'[g] = thread[g] /\ host_buffer'[g] = host_buffer[g]
  <2>1. NoHostBuffer \in HostBuffer /\ NoHostBuffer.id = 0
    BY DEF NoHostBuffer, HostBuffer
  <2> QED
    BY <1>1, <1>6, <2>1 DEF TypeOK
<1>8. TypeOK'
  <2>1. cached_host_buffers' \in Seq(HostBuffer)
    <3>1. cached_host_buffers \in Seq(HostBuffer) /\ host_buffer[h] \in HostBuffer
      BY <1>6 DEF TypeOK
    <3>2. Append(cached_host_buffers, host_buffer[h]) \in Seq(HostBuffer)
      BY <3>1
    <3> QED
      BY <1>1, <3>1, <3>2
  <2> QED
    BY <1>1, <1>2, <1>6, <1>7, <2>1 DEF TypeOK, TensorCount
<1>9. ShapeOK'
  BY <1>1, <1>2, <1>6 DEF ShapeOK
<1>10. HandlesCounted'
  <2>1. OpenedSessions' = OpenedSessions
    BY <1>2 DEF OpenedSessions
  <2> QED
    BY <1>2, <1>7, <2>1 DEF IInv, HandlesCounted
<1>11. CallInOnePlace'
  <2>1. Closing(s, h)'
    BY <1>2, <1>5, <1>7 DEF Closing
  <2> QED
    BY <1>2, <1>3, <1>4, <2>1 DEF CallInOnePlace
<1>12. SessionsInOrder'
  <2> SUFFICES ASSUME NEW t \in Sessions, loader_handle[t] # None
               PROVE  LoaderOfSession(t, loader_handle[t])'
    BY <1>2, <1>6 DEF SessionsInOrder
  <2>1. PICK g : g = loader_handle[t]
    OBVIOUS
  <2>2. LoaderOfSession(t, g) /\ g \in Handles
    BY <1>6, <2>1 DEF SessionsInOrder, TypeOK
  <2>3. LoaderOfSession(t, g)'
    <3>1. CASE t = s
      BY <1>1, <1>2, <1>3, <1>5, <2>1, <2>2, <3>1 DEF LoaderOfSession
    <3>2. CASE t # s
      <4>1. g # h
        BY <1>4, <1>5, <1>6, <2>1, <3>2, OwnHandle
      <4> QED
        BY <1>1, <1>2, <1>7, <2>2, <3>2, <4>1 DEF LoaderOfSession, Equipped
    <3> QED
      BY <3>1, <3>2
  <2> QED
    BY <1>2, <2>1, <2>3
<1>13. HeldIsLast' /\ ParametersWithinLimits'
  BY <1>2 DEF IInv, HeldIsLast, ParametersWithinLimits, TensorCount
<1>14. BuffersInOnePlace'
  <2>1. CASE NeedHostBuffer(params[serves[h]]) /\ CacheBuffer
    <3>1. host_buffer[h].id # 0
      BY <1>4, <2>1 DEF Equipped
    <3>2. PICK n \in Nat : n = Len(cached_host_buffers) /\ DOMAIN cached_host_buffers = 1 .. n
      BY <1>6 DEF TypeOK
    <3>3. /\ DOMAIN cached_host_buffers' = 1 .. n + 1
          /\ cached_host_buffers'[n + 1] = host_buffer[h]
          /\ \A i \in 1 .. n : cached_host_buffers'[i] = cached_host_buffers[i]
      <4>1. cached_host_buffers' = Append(cached_host_buffers, host_buffer[h])
        BY <1>1, <2>1
      <4>2. cached_host_buffers \in Seq(HostBuffer)
        BY <1>6 DEF TypeOK
      <4> QED
        BY <3>2, <4>1, <4>2
    <3>4. \A i \in 1 .. n + 1 : i \in 1 .. n \/ i = n + 1
      BY <3>2
    <3>5. /\ host_buffer[h].id \in 1 .. allocated
          /\ \A i \in 1 .. n : cached_host_buffers[i].id # host_buffer[h].id
      BY <1>6, <3>1, <3>2 DEF BuffersInOnePlace
    <3>6. \A i \in 1 .. n + 1 : cached_host_buffers'[i].id \in 1 .. allocated
      BY <1>6, <3>2, <3>3, <3>4, <3>5 DEF BuffersInOnePlace
    <3>7. \A i, j \in 1 .. n + 1 :
            i # j => cached_host_buffers'[i].id # cached_host_buffers'[j].id
      BY <1>6, <3>2, <3>3, <3>4, <3>5 DEF BuffersInOnePlace
    <3>8. \A g \in Handles : g # h /\ host_buffer[g].id # 0 =>
            \A i \in 1 .. n + 1 : cached_host_buffers'[i].id # host_buffer[g].id
      BY <1>6, <3>1, <3>2, <3>3, <3>4 DEF BuffersInOnePlace
    <3>9. \A g \in Handles : g # h /\ host_buffer[g].id # 0 =>
            /\ host_buffer[g].id \in 1 .. allocated
            /\ \A k \in Handles \ {g} : host_buffer'[k].id # host_buffer[g].id
            /\ serves[g] \in Sessions /\ stage[serves[g]] \in Constructed
            /\ host_buffer[g].size >= HostBufferSize(params[serves[g]])
      BY <1>6, <1>7 DEF BuffersInOnePlace
    <3> QED
      BY <1>1, <1>2, <1>7, <3>3, <3>6, <3>7, <3>8, <3>9 DEF BuffersInOnePlace
  <2>2. CASE ~(NeedHostBuffer(params[serves[h]]) /\ CacheBuffer)
    <3>1. cached_host_buffers' = cached_host_buffers
      BY <1>1, <2>2
    <3>2. \A g \in Handles : host_buffer'[g].id # 0 =>
            /\ g # h /\ host_buffer'[g] = host_buffer[g]
            /\ \A k \in Handles \ {g} : host_buffer'[k].id # host_buffer'[g].id
      BY <1>6, <1>7 DEF BuffersInOnePlace
    <3> QED
      BY <1>1, <1>2, <1>6, <3>1, <3>2 DEF BuffersInOnePlace
  <2> QED
    BY <2>1, <2>2
<1> QED
  BY <1>8, <1>9, <1>10, <1>11, <1>12, <1>13, <1>14 DEF IInv
\* get() hands over a buffer that is large enough and in no other place.
LEMMA TakenFacts ==
  ASSUME IInv, NEW h \in Handles, host_buffer[h].id = 0, NEW size \in Nat,
         TakeHostBuffer(h, size)
  PROVE  /\ host_buffer' \in [Handles -> HostBuffer]
         /\ \A g \in Handles : g # h => host_buffer'[g] = host_buffer[g]
         /\ host_buffer'[h].id # 0 /\ host_buffer'[h].size >= size
         /\ cached_host_buffers' \in Seq(HostBuffer)
         /\ allocated' \in Nat /\ allocated' >= allocated
         /\ host_buffer'[h].id \in 1 .. allocated'
         /\ \A i \in DOMAIN cached_host_buffers' :
              /\ cached_host_buffers'[i].id \in 1 .. allocated
              /\ cached_host_buffers'[i].id # host_buffer'[h].id
              /\ \A j \in DOMAIN cached_host_buffers' :
                   i # j => cached_host_buffers'[i].id # cached_host_buffers'[j].id
              /\ \A g \in Handles : g # h => cached_host_buffers'[i].id # host_buffer[g].id
         /\ \A g \in Handles : g # h => host_buffer[g].id # host_buffer'[h].id
<1> DEFINE Fits(e) == e.size >= size
<1>1. PICK cached, n, k : /\ cached = cached_host_buffers /\ n = Len(cached)
                          /\ k = SelectInSeq(cached_host_buffers, Fits)
  OBVIOUS
<1>2. FirstFit(size) = k
  BY <1>1 DEF FirstFit
<1>3. /\ cached \in Seq(HostBuffer) /\ n \in Nat /\ DOMAIN cached = 1 .. n /\ allocated \in Nat
      /\ host_buffer \in [Handles -> HostBuffer]
  BY <1>1 DEF IInv, TypeOK, ShapeOK
<1>4. BuffersInOnePlace
  BY DEF IInv
<1>5. /\ \A i \in 1 .. n : cached[i] \in HostBuffer /\ cached[i].id \in 1 .. allocated
      /\ \A i, j \in 1 .. n : i # j => cached[i].id # cached[j].id
      /\ \A g \in Handles, i \in 1 .. n : cached[i].id # host_buffer[g].id
      /\ \A g \in Handles : host_buffer[g].id \in 0 .. allocated
  <2>1. \A i \in 1 .. n : cached[i] \in HostBuffer
    BY <1>3
  <2>2. /\ \A i \in 1 .. n : cached[i].id \in 1 .. allocated
        /\ \A i, j \in 1 .. n : i # j => cached[i].id # cached[j].id
    BY <1>1, <1>3, <1>4 DEF BuffersInOnePlace
  <2>3. \A g \in Handles : host_buffer[g].id \in 0 .. allocated
    <3> SUFFICES ASSUME NEW g \in Handles PROVE host_buffer[g].id \in 0 .. allocated
      OBVIOUS
    <3>1. CASE host_buffer[g].id = 0
      BY <1>3, <3>1
    <3>2. CASE host_buffer[g].id # 0
      BY <1>3, <1>4, <3>2 DEF BuffersInOnePlace
    <3> QED
      BY <3>1, <3>2
  <2>4. ASSUME NEW g \in Handles, NEW i \in 1 .. n PROVE cached[i].id # host_buffer[g].id
    <3>1. CASE host_buffer[g].id = 0
      BY <1>3, <2>2, <3>1
    <3>2. CASE host_buffer[g].id # 0
      BY <1>1, <1>3, <1>4, <3>2 DEF BuffersInOnePlace
    <3> QED
      BY <3>1, <3>2
  <2> QED
    BY <2>1, <2>2, <2>3, <2>4
<1>6. CASE k # 0
  <2>1. k \in 1 .. n /\ cached[k].size >= size
    <3> DEFINE I == {i \in 1 .. n : Fits(cached[i])}
    <3>1. k = IF I # {} THEN Min(I) ELSE 0
      BY <1>1 DEF SelectInSeq
    <3>2. I # {} /\ I \in SUBSET Nat
      BY <1>6, <3>1
    <3>3. Min(I) \in I
      BY <3>2, MinIsLeast
    <3> QED
      BY <3>1, <3>2, <3>3
  <2>2. /\ host_buffer' = [host_buffer EXCEPT ![h] = cached[k]]
        /\ cached_host_buffers' = RemoveAt(cached, k)
        /\ allocated' = allocated
    BY <1>1, <1>2, <1>6 DEF TakeHostBuffer, CacheWithout
  <2>3. /\ host_buffer' \in [Handles -> HostBuffer] /\ host_buffer'[h] = cached[k]
        /\ \A g \in Handles : g # h => host_buffer'[g] = host_buffer[g]
    BY <1>3, <1>5, <2>1, <2>2
  <2>4. /\ cached_host_buffers' \in Seq(HostBuffer)
        /\ DOMAIN cached_host_buffers' = 1 .. n - 1
        /\ \A i \in 1 .. n - 1 :
             cached_host_buffers'[i] = IF i < k THEN cached[i] ELSE cached[i + 1]
    <3>1. PICK less : less = RemoveAt(cached, k)
      OBVIOUS
    <3>2. k \in 1 .. Len(cached) /\ n = Len(cached)
      BY <1>1, <2>1
    <3>3. /\ less \in Seq(HostBuffer) /\ DOMAIN less = 1 .. Len(cached) - 1
          /\ \A i \in 1 .. Len(cached) - 1 : less[i] = IF i < k THEN cached[i] ELSE cached[i + 1]
      BY <1>3, <3>1, <3>2, Removed
    <3> QED
      BY <2>2, <3>1, <3>2, <3>3
  <2> DEFINE Was(i) == IF i < k THEN i ELSE i + 1
  <2>5. /\ \A i \in 1 .. n - 1 : Was(i) \in 1 .. n /\ Was(i) # k
        /\ \A i, j \in 1 .. n - 1 : i # j => Was(i) # Was(j)
    BY <1>3, <2>1
  <2>6. \A i \in 1 .. n - 1 : cached_host_buffers'[i] = cached[Was(i)]
    BY <2>4
  <2> HIDE DEF Was
  <2>7. ASSUME NEW i \in DOMAIN cached_host_buffers'
        PROVE  /\ cached_host_buffers'[i].id \in 1 .. allocated
               /\ cached_host_buffers'[i].id # host_buffer'[h].id
               /\ \A j \in DOMAIN cached_host_buffers' :
                    i # j => cached_host_buffers'[i].id # cached_host_buffers'[j].id
               /\ \A g \in Handles : g # h => cached_host_buffers'[i].id # host_buffer[g].id
    <3>1. i \in 1 .. n - 1 /\ Was(i) \in 1 .. n /\ Was(i) # k
          /\ cached_host_buffers'[i] = cached[Was(i)]
      BY <2>4, <2>5, <2>6
    <3>2. ASSUME NEW j \in DOMAIN cached_host_buffers', i # j
          PROVE  cached_host_buffers'[i].id # cached_host_buffers'[j].id
      <4>1. j \in 1 .. n - 1 /\ Was(j) \in 1 .. n /\ Was(i) # Was(j)
            /\ cached_host_buffers'[j] = cached[Was(j)]
        BY <2>4, <2>5, <2>6, <3>1, <3>2
      <4> QED
        BY <1>5, <3>1, <4>1
    <3> QED
      BY <1>5, <2>1, <2>3, <3>1, <3>2
  <2>8. cached[k].id \in 1 .. allocated /\ cached[k].id # 0
    BY <1>3, <1>5, <2>1
  <2>9. \A g \in Handles : host_buffer[g].id # cached[k].id
    BY <1>5, <2>1
  <2> QED
    BY <1>3, <2>1, <2>2, <2>3, <2>4, <2>7, <2>8, <2>9
<1>7. CASE k = 0
  <2>1. /\ allocated' = allocated + 1
        /\ host_buffer' = [host_buffer EXCEPT ![h] = [id |-> allocated + 1, size |-> size]]
        /\ cached_host_buffers' = cached
    BY <1>1, <1>2, <1>7 DEF TakeHostBuffer
  <2>2. PICK new : new = [id |-> allocated + 1, size |-> size]
    OBVIOUS
  <2>3. new \in HostBuffer /\ new.id = allocated + 1 /\ new.size = size
    BY <1>3, <2>2 DEF HostBuffer
  <2>4. /\ host_buffer' \in [Handles -> HostBuffer] /\ host_buffer'[h] = new
        /\ \A g \in Handles : g # h => host_buffer'[g] = host_buffer[g]
    BY <1>3, <2>1, <2>2, <2>3
  <2>5. /\ \A x \in 0 .. allocated : x # allocated + 1
        /\ 1 .. allocated \subseteq 0 .. allocated
        /\ allocated + 1 \in 1 .. allocated + 1 /\ allocated + 1 \in Nat
        /\ allocated + 1 >= allocated /\ allocated + 1 # 0 /\ size >= size
    BY <1>3
  <2>6. \A g \in Handles : host_buffer[g].id # new.id
    BY <1>5, <2>3, <2>5
  <2>7. \A i \in 1 .. n : cached[i].id # new.id
    BY <1>5, <2>3, <2>5
  <2> QED
    BY <1>3, <1>5, <2>1, <2>3, <2>4, <2>5, <2>6, <2>7
<1> QED
  BY <1>6, <1>7
LEMMA ServeOpenStep ==
  ASSUME IInv, NEW h \in Handles, ServeOpen(h)
  PROVE  IInv'
<1>1. PICK s : s = call.session
  OBVIOUS
<1>2. Serve(h, "OPEN", None)
  BY DEF ServeOpen
<1>3. /\ input_queue[h] # <<>> /\ call.op = "OPEN" /\ thread[h] = "running"
      /\ Answered(None)' /\ call'.handle = h
      /\ DOMAIN input_queue' = Handles /\ DOMAIN output_queue' = Handles
      /\ \A g \in Handles : g # h => input_queue'[g] = <<>> /\ output_queue'[g] = <<>>
      /\ UNCHANGED <<stage, params, loader_handle, iterated, invalidated, next_tensor, held>>
      /\ UNCHANGED <<call, latest_req_id, loader_id_iter, finished, crashed>>
  BY <1>2, ServeFacts
<1>4. /\ call \in CallRecord /\ s \in Sessions /\ Opening(s, h) /\ host_buffer[h].id = 0
      /\ Head(input_queue[h]).args = s
  BY <1>1, <1>3, RequestFacts DEF IInv, CallRecord
<1>5. /\ serves' = [serves EXCEPT ![h] = s] /\ UNCHANGED thread
      /\ IF NeedHostBuffer(params[s])
           THEN TakeHostBuffer(h, HostBufferSize(params[s]))
           ELSE UNCHANGED <<host_buffer, cached_host_buffers, allocated>>
  BY <1>4 DEF ServeOpen
<1>6. /\ stage[s] = "constructed" /\ loader_handle[s] = None /\ h < loader_id_iter
      /\ latest_req_id[h] # NoEntry
      /\ \A t \in Sessions : loader_handle[t] # h
  BY <1>4 DEF Opening
<1>7. TypeOK /\ ShapeOK /\ SessionsInOrder /\ BuffersInOnePlace
  BY DEF IInv
<1>8. HostBufferSize(params[s]) \in Nat
  <2>1. params[s].io_depth \in Positive /\ params[s].chunk_size \in Positive
        /\ params[s].concurrency \in Positive
    BY <1>4, <1>6 DEF IInv, ParametersWithinLimits, Constructed, Positive
  <2>2. params[s].io_depth * params[s].chunk_size * params[s].concurrency \in Positive
    BY <2>1, Product
  <2> QED
    BY <2>2 DEF HostBufferSize, Positive
<1>9. /\ serves' \in [Handles -> Sessions \cup {NoSession}] /\ serves'[h] = s
      /\ \A g \in Handles : g # h => serves'[g] = serves[g]
  BY <1>4, <1>5, <1>7 DEF TypeOK
<1>10. /\ host_buffer' \in [Handles -> HostBuffer] /\ cached_host_buffers' \in Seq(HostBuffer)
       /\ allocated' \in Nat
       /\ \A g \in Handles : g # h => host_buffer'[g] = host_buffer[g]
       /\ (NeedHostBuffer(params[s]) => host_buffer'[h].id # 0)
       /\ BuffersInOnePlace'
  <2>1. CASE NeedHostBuffer(params[s])
    <3>0. TakeHostBuffer(h, HostBufferSize(params[s]))
      BY <1>5, <2>1
    <3>1. /\ host_buffer' \in [Handles -> HostBuffer]
          /\ \A g \in Handles : g # h => host_buffer'[g] = host_buffer[g]
          /\ host_buffer'[h].id # 0 /\ host_buffer'[h].size >= HostBufferSize(params[s])
          /\ cached_host_buffers' \in Seq(HostBuffer)
          /\ allocated' \in Nat /\ allocated' >= allocated
          /\ host_buffer'[h].id \in 1 .. allocated'
      BY <1>4, <1>8, <3>0, TakenFacts
    <3>2. /\ \A i \in DOMAIN cached_host_buffers' :
               /\ cached_host_buffers'[i].id \in 1 .. allocated
               /\ cached_host_buffers'[i].id # host_buffer'[h].id
               /\ \A j \in DOMAIN cached_host_buffers' :
                    i # j => cached_host_buffers'[i].id # cached_host_buffers'[j].id
               /\ \A g \in Handles : g # h => cached_host_buffers'[i].id # host_buffer[g].id
          /\ \A g \in Handles : g # h => host_buffer[g].id # host_buffer'[h].id
      BY <1>4, <1>8, <3>0, TakenFacts
    <3>3. 1 .. allocated \subseteq 1 .. allocated'
      BY <1>7, <3>1 DEF ShapeOK
    <3>4. \A g \in Handles : g # h /\ host_buffer[g].id # 0 =>
            /\ host_buffer[g].id \in 1 .. allocated
            /\ \A k \in Handles \ {g} : k # h => host_buffer[k].id # host_buffer[g].id
            /\ serves[g] \in Sessions /\ stage[serves[g]] \in Constructed
            /\ host_buffer[g].size >= HostBufferSize(params[serves[g]])
      BY <1>7 DEF BuffersInOnePlace
    <3>5. stage[s] \in Constructed
      BY <1>6 DEF Constructed
    <3>6. ASSUME NEW g \in Handles, host_buffer'[g].id # 0
          PROVE  /\ host_buffer'[g].id \in 1 .. allocated'
                 /\ \A i \in DOMAIN cached_host_buffers' :
                      cached_host_buffers'[i].id # host_buffer'[g].id
                 /\ \A k \in Handles \ {g} : host_buffer'[k].id # host_buffer'[g].id
                 /\ serves'[g] \in Sessions /\ stage'[serves'[g]] \in Constructed
                 /\ host_buffer'[g].size >= HostBufferSize(params'[serves'[g]])
      <4>1. CASE g = h
        BY <1>3, <1>4, <1>9, <3>1, <3>2, <3>5, <4>1
      <4>2. CASE g # h
        <5>1. host_buffer'[g] = host_buffer[g] /\ host_buffer[g].id # 0 /\ serves'[g] = serves[g]
          BY <1>9, <3>1, <3>6, <4>2
        <5>2. \A i \in DOMAIN cached_host_buffers' :
                cached_host_buffers'[i].id # host_buffer[g].id
          BY <3>2, <4>2
        <5>3. ASSUME NEW k \in Handles \ {g} PROVE host_buffer'[k].id # host_buffer[g].id
          <6>1. CASE k = h
            BY <3>2, <4>2, <6>1
          <6>2. CASE k # h
            BY <3>1, <3>4, <4>2, <5>1, <6>2
          <6> QED
            BY <6>1, <6>2
        <5>4. /\ host_buffer[g].id \in 1 .. allocated'
              /\ serves[g] \in Sessions /\ stage[serves[g]] \in Constructed
              /\ host_buffer[g].size >= HostBufferSize(params[serves[g]])
          BY <3>3, <3>4, <4>2, <5>1
        <5> QED
          BY <1>3, <5>1, <5>2, <5>3, <5>4
      <4> QED
        BY <4>1, <4>2
    <3>7. \A i \in DOMAIN cached_host_buffers' : cached_host_buffers'[i].id \in 1 .. allocated'
      BY <3>2, <3>3
    <3>8. BuffersInOnePlace'
      BY <3>2, <3>6, <3>7 DEF BuffersInOnePlace
    <3> QED
      BY <3>1, <3>8
  <2>2. CASE ~NeedHostBuffer(params[s])
    <3>1. UNCHANGED <<host_buffer, cached_host_buffers, allocated>>
      BY <1>5, <2>2
    <3>2. \A g \in Handles : host_buffer[g].id # 0 => serves'[g] = serves[g]
      BY <1>4, <1>9
    <3>3. BuffersInOnePlace'
      BY <1>3, <1>7, <3>1, <3>2 DEF BuffersInOnePlace
    <3> QED
      BY <1>7, <2>2, <3>1, <3>3 DEF TypeOK, ShapeOK
  <2> QED
    BY <2>1, <2>2
<1>11. TypeOK'
  BY <1>3, <1>5, <1>7, <1>9, <1>10 DEF TypeOK, TensorCount
<1>12. ShapeOK'
  BY <1>3, <1>7, <1>10 DEF ShapeOK
<1>13. HandlesCounted'
  <2>1. OpenedSessions' = OpenedSessions
    BY <1>3 DEF OpenedSessions
  <2>2. ASSUME NEW g \in Handles, g >= loader_id_iter PROVE g # h
    <3>1. g \in Int /\ h \in Int /\ loader_id_iter \in Int
      BY <1>7 DEF TypeOK, Handles
    <3> QED
      BY <1>6, <2>2, <3>1
  <2> QED
    BY <1>3, <1>10, <2>1, <2>2 DEF IInv, HandlesCounted
<1>14. CallInOnePlace'
  <2>1. Equipped(h)'
    BY <1>3, <1>9, <1>10 DEF Equipped, NeedHostBuffer
  <2>2. Opening(s, h)'
    BY <1>3, <1>5, <1>6, <1>9, <2>1 DEF Opening
  <2> QED
    BY <1>1, <1>3, <1>4, <2>2 DEF CallInOnePlace
<1>15. SessionsInOrder'
  <2> SUFFICES ASSUME NEW t \in Sessions, loader_handle[t] # None
               PROVE  LoaderOfSession(t, loader_handle[t])'
    BY <1>3, <1>7 DEF SessionsInOrder
  <2>1. PICK g : g = loader_handle[t]
    OBVIOUS
  <2>2. LoaderOfSession(t, g) /\ g \in Handles /\ g # h
    BY <1>6, <1>7, <2>1 DEF SessionsInOrder, TypeOK
  <2>3. LoaderOfSession(t, g)'
    BY <1>3, <1>5, <1>9, <1>10, <2>2 DEF LoaderOfSession, Equipped
  <2> QED
    BY <1>3, <2>1, <2>3
<1>16. HeldIsLast' /\ ParametersWithinLimits'
  BY <1>3 DEF IInv, HeldIsLast, ParametersWithinLimits, TensorCount
<1> QED
  BY <1>10, <1>11, <1>12, <1>13, <1>14, <1>15, <1>16 DEF IInv

LEMMA EndThreadStep ==
  ASSUME IInv, NEW h \in Handles, EndThread(h)
  PROVE  IInv'
<1>1. /\ thread[h] = "leaving"
      /\ thread' = [thread EXCEPT ![h] = "gone"]
      /\ crashed' \in BOOLEAN
      /\ UNCHANGED <<stage, params, loader_handle, iterated, invalidated, next_tensor, held>>
      /\ UNCHANGED <<call, latest_req_id, loader_id_iter, input_queue, output_queue>>
      /\ UNCHANGED <<serves, host_buffer, cached_host_buffers, allocated, finished>>
  BY DEF EndThread, objectVars, tableVars
<1>2. TypeOK /\ ShapeOK /\ SessionsInOrder /\ CallInOnePlace
  BY DEF IInv
<1>3. /\ thread' \in [Handles -> {"none", "running", "leaving", "gone"}] /\ thread'[h] = "gone"
      /\ \A g \in Handles : g # h => thread'[g] = thread[g]
  BY <1>1, <1>2 DEF TypeOK
<1>4. TypeOK'
  <2>1. crashed' \in BOOLEAN
    BY <1>1
  <2> QED
    BY <1>1, <1>2, <1>3, <2>1 DEF TypeOK, TensorCount
<1>5. ShapeOK'
  BY <1>1, <1>2 DEF ShapeOK
<1>6. HandlesCounted'
  <2>1. OpenedSessions' = OpenedSessions
    BY <1>1 DEF OpenedSessions
  <2> QED
    BY <1>1, <2>1 DEF IInv, HandlesCounted
<1>7. \A g \in Handles : /\ thread[g] = "running" => thread'[g] = "running"
                         /\ thread[g] \in {"leaving", "gone"} => thread'[g] \in {"leaving", "gone"}
  BY <1>1, <1>3
<1>8. CallInOnePlace'
  <2>1. /\ \A args : Asked(args)' <=> Asked(args)
        /\ \A result : Answered(result)' <=> Answered(result)
        /\ \A g : Equipped(g)' <=> Equipped(g)
    BY <1>1 DEF Asked, Answered, Equipped
  <2>2. \A s \in Sessions, g \in Handles : Opening(s, g) => Opening(s, g)'
    BY <1>1, <1>7, <2>1 DEF Opening
  <2>3. \A s \in Sessions, g \in Handles : Getting(s, g) => Getting(s, g)'
    BY <1>1, <2>1 DEF Getting, TensorCount
  <2>4. \A s \in Sessions, g \in Handles : Closing(s, g) => Closing(s, g)'
    BY <1>1, <1>7, <2>1 DEF Closing
  <2>5. CASE call = NoCall
    BY <1>1, <1>2, <2>5 DEF CallInOnePlace
  <2>6. CASE call # NoCall
    <3>1. call \in CallRecord /\ call.session \in Sessions /\ call.handle \in Handles
      BY <1>2, <2>6 DEF CallInOnePlace, CallRecord
    <3> QED
      BY <1>1, <1>2, <2>2, <2>3, <2>4, <2>6, <3>1 DEF CallInOnePlace
  <2> QED
    BY <2>5, <2>6
<1>9. SessionsInOrder'
  <2> SUFFICES ASSUME NEW t \in Sessions, loader_handle[t] # None
               PROVE  LoaderOfSession(t, loader_handle[t])'
    BY <1>1, <1>2 DEF SessionsInOrder
  <2>1. PICK g : g = loader_handle[t]
    OBVIOUS
  <2>2. LoaderOfSession(t, g) /\ g \in Handles
    BY <1>2, <2>1 DEF SessionsInOrder, TypeOK
  <2>3. LoaderOfSession(t, g)'
    BY <1>1, <1>7, <2>2 DEF LoaderOfSession, Equipped
  <2> QED
    BY <1>1, <2>1, <2>3
<1>10. HeldIsLast' /\ ParametersWithinLimits'
  BY <1>1 DEF IInv, HeldIsLast, ParametersWithinLimits, TensorCount
<1>11. BuffersInOnePlace'
  BY <1>1 DEF IInv, BuffersInOnePlace
<1> QED
  BY <1>4, <1>5, <1>6, <1>8, <1>9, <1>10, <1>11 DEF IInv
-----------------------------------------------------------------------------
(* The invariant, and what follows from it.                                *)

THEOREM StepInv == IInv /\ [Next]_vars => IInv'
<1> SUFFICES ASSUME IInv, [Next]_vars PROVE IInv'
  OBVIOUS
<1>1. CASE \E s \in Sessions : \E avails \in Avails : Construct(s, avails)
  BY <1>1, ConstructStep
<1>2. CASE \E s \in Sessions : Open(s)
  BY <1>2, OpenStep
<1>3. CASE \E s \in Sessions : Enter(s)
  BY <1>3, EnterStep
<1>4. CASE \E s \in Sessions : FirstTensor(s)
  BY <1>4, FirstTensorStep
<1>5. CASE \E s \in Sessions : NextTensor(s)
  BY <1>5, NextTensorStep
<1>6. CASE \E s \in Sessions : Leave(s)
  BY <1>6, LeaveStep
<1>7. CASE Receive
  <2>1. call.op \in {"OPEN", "GET_TENSOR_PTR", "CLOSE"}
    BY <1>7, ReceiveFacts DEF IInv, CallInOnePlace, CallRecord
  <2> QED
    BY <1>7, <2>1, ReceiveOpenStep, ReceiveGetStep, ReceiveCloseStep
<1>8. CASE Cleanup
  BY <1>8, CleanupStep
<1>9. CASE \E h \in Handles : LoaderThread(h)
  BY <1>9, ServeOpenStep, ServeGetStep, ServeCloseStep, EndThreadStep DEF LoaderThread
<1>10. CASE UNCHANGED vars
  <2>1. /\ UNCHANGED <<stage, params, loader_handle, iterated, invalidated, next_tensor, held>>
        /\ UNCHANGED <<call, latest_req_id, loader_id_iter, input_queue, output_queue>>
        /\ UNCHANGED <<thread, serves, host_buffer, cached_host_buffers, allocated>>
        /\ UNCHANGED <<finished, crashed>>
    BY <1>10 DEF vars, objectVars, tableVars, loaderVars, processVars
  <2> QED
    BY <2>1, CrashStep DEF IInv, TypeOK, ShapeOK
<1> QED
  BY <1>1, <1>2, <1>3, <1>4, <1>5, <1>6, <1>7, <1>8, <1>9, <1>10 DEF Next, Terminated

THEOREM Invariance == Spec => []IInv
BY InitInv, StepInv, PTL DEF Spec

\* Every variable keeps its type: no handle is given out beyond the number of
\* sessions, and no session hands out more tensors than it has.
THEOREM TypeCorrect == Spec => []TypeOK
<1>1. IInv => TypeOK
  BY DEF IInv
<1> QED
  BY <1>1, Invariance, PTL

\* Inside its context a session's calls find their queues, and so does tensors()
\* wherever it is called, whatever the other sessions open and close.
THEOREM NoNullHandles == Spec => NoNullHandle
<1>1. ASSUME IInv, NEW s \in Sessions, NEW op, NEW args, call = NoCall, ~crashed,
             stage[s] = "entered", Call(s, op, args)
      PROVE  ~crashed'
  BY <1>1, CallFacts DEF IInv
<1>2. ASSUME IInv, NEW s \in Sessions, FirstTensor(s)
      PROVE  ~crashed'
  <2>1. /\ call = NoCall /\ ~crashed /\ stage[s] \in {"entered", "left"} /\ ~invalidated[s]
        /\ Call(s, "GET_TENSOR_PTR", 0)
    BY <1>2 DEF FirstTensor, Python, MayIterate
  <2>2. stage[s] = "entered"
    BY <1>2, <2>1 DEF IInv, SessionsInOrder
  <2> QED
    BY <1>1, <1>2, <2>1, <2>2
<1>3. ASSUME IInv, NEW s \in Sessions, stage[s] = "entered", NextTensor(s)
      PROVE  ~crashed'
  BY <1>1, <1>3 DEF NextTensor, Python
<1>4. ASSUME IInv, NEW s \in Sessions, stage[s] = "entered", Leave(s)
      PROVE  ~crashed'
  BY <1>1, <1>4 DEF Leave, Python
<1>5. IInv =>
        [\A s \in Sessions :
           FirstTensor(s) \/ (stage[s] = "entered" /\ (NextTensor(s) \/ Leave(s))) => ~crashed']_vars
  BY <1>2, <1>3, <1>4
<1> QED
  BY <1>5, Invariance, PTL DEF NoNullHandle

\* Whatever the arguments, a session that is opened fits the memory of every rank,
\* and its buffer holds its largest tensor.
THEOREM OpensWithinLimits == Spec => []OpenedWithinLimits
<1>1. IInv => OpenedWithinLimits
  <2> SUFFICES ASSUME IInv, NEW s \in Sessions, stage[s] \in {"constructed", "entered", "left"}
               PROVE  /\ \A r \in 0 .. WorldSize - 1 :
                           InFlightBytes(params[s], WorldSize) <= params[s].avails[r]
                      /\ params[s].io_depth >= 1 /\ params[s].concurrency >= 1
                      /\ \A i \in 1 .. TensorCount(s) :
                           params[s].buffer_size >= TensorSizes[s][i]
    BY DEF OpenedWithinLimits
  <2> QED
    BY DEF IInv, ParametersWithinLimits, Constructed
<1> QED
  BY <1>1, Invariance, PTL
\* A host buffer is at one loader, large enough for it, or once in the cache.
THEOREM BuffersExclusive == Spec => []HostBuffersExclusive
<1>1. IInv => HostBuffersExclusive
  <2> SUFFICES ASSUME IInv PROVE HostBuffersExclusive
    OBVIOUS
  <2>1. BuffersInOnePlace /\ cached_host_buffers \in Seq(HostBuffer)
    BY DEF IInv, TypeOK
  <2> DEFINE cached == {cached_host_buffers[i].id : i \in DOMAIN cached_host_buffers}
  <2>2. PICK n \in Nat : n = Len(cached_host_buffers) /\ DOMAIN cached_host_buffers = 1 .. n
    BY <2>1
  <2>3. Cardinality(cached) = n
    <3>1. PICK f : f = [i \in 1 .. n |-> cached_host_buffers[i].id]
      OBVIOUS
    <3>2. /\ f \in [1 .. n -> cached] /\ \A x \in cached : \E i \in 1 .. n : f[i] = x
          /\ \A i, j \in 1 .. n : f[i] = f[j] => i = j
      BY <2>1, <2>2, <3>1 DEF BuffersInOnePlace
    <3>3. f \in Bijection(1 .. n, cached)
      BY <3>2, Zenon DEF Bijection, Injection, Surjection, IsInjective
    <3> QED
      BY <3>3, FS_CountingElements DEF ExistsBijection
  <2>4. ASSUME NEW h \in Handles, host_buffer[h].id # 0
        PROVE  /\ host_buffer[h].id \notin cached
               /\ \A g \in Handles \ {h} : host_buffer[g].id # host_buffer[h].id
               /\ host_buffer[h].size >= HostBufferSize(params[serves[h]])
    BY <2>1, <2>4 DEF BuffersInOnePlace
  <2> QED
    BY <2>2, <2>3, <2>4 DEF HostBuffersExclusive
<1> QED
  BY <1>1, Invariance, PTL
-----------------------------------------------------------------------------
(* Every session is a TensorStream: what the user sees of a step.          *)

Phase(s) == IF loader_handle[s] = None THEN "new"
            ELSE IF latest_req_id[loader_handle[s]] = NoEntry THEN "closed" ELSE "open"

\* What the user holds is readable.
LEMMA ReadableIsHeld ==
  ASSUME IInv, NEW s \in Sessions
  PROVE  Readable(s) = IF held[s] # <<>> THEN next_tensor[s] - 1 ELSE NoTensor
<1>1. CASE held[s] = <<>>
  BY <1>1 DEF Readable
<1>2. CASE held[s] # <<>>
  <2>1. /\ stage[s] = "entered" /\ held[s][1].file = s /\ held[s][1].index = next_tensor[s] - 1
        /\ held[s][1].loader = loader_handle[s]
    BY <1>2 DEF IInv, HeldIsLast
  <2>2. thread[loader_handle[s]] = "running"
    BY <2>1 DEF IInv, SessionsInOrder, LoaderOfSession
  <2> QED
    BY <1>2, <2>1, <2>2 DEF Readable
<1> QED
  BY <1>1, <1>2

\* What moves a stream: a call drops the tensor, a response opens, delivers or
\* closes.
SamePhases == \A s \in Sessions : Phase(s)' = Phase(s)

Drops(t) ==
  /\ SamePhases /\ UNCHANGED next_tensor
  /\ held'[t] = <<>>
  /\ \A s \in Sessions : s # t => held'[s] = held[s]

Opens(t) ==
  /\ Phase(t) = "new" /\ Phase(t)' = "open"
  /\ \A s \in Sessions : s # t => Phase(s)' = Phase(s)
  /\ UNCHANGED <<next_tensor, held>>

Delivers(t) ==
  /\ SamePhases /\ Phase(t) = "open"
  /\ held[t] = <<>> /\ held'[t] # <<>>
  /\ next_tensor[t] < TensorCount(t) /\ next_tensor'[t] = next_tensor[t] + 1
  /\ \A s \in Sessions : s # t => held'[s] = held[s] /\ next_tensor'[s] = next_tensor[s]

Closes(t) ==
  /\ Phase(t) = "open" /\ Phase(t)' = "closed"
  /\ \A s \in Sessions : s # t => Phase(s)' = Phase(s)
  /\ held[t] = <<>>
  /\ UNCHANGED <<next_tensor, held>>

\* A call, of an open session or of a closed one.
LEMMA CallDrops ==
  ASSUME IInv, NEW t \in Sessions, NEW op, NEW args, call = NoCall,
         stage[t] \in {"entered", "left"}, Call(t, op, args),
         UNCHANGED <<loader_handle, next_tensor>>,
         held'[t] = <<>>, \A s \in Sessions : s # t => held'[s] = held[s]
  PROVE  Drops(t)
<1>1. PICK h : h = loader_handle[t]
  OBVIOUS
<1>2. TypeOK /\ ShapeOK /\ SessionsInOrder /\ CallInOnePlace
  BY DEF IInv
<1>3. \A g \in Handles : latest_req_id'[g] = NoEntry <=> latest_req_id[g] = NoEntry
  <2>1. CASE stage[t] = "entered"
    <3>1. h \in Handles /\ Requested(t, h, op, args)
      BY <1>1, <1>2, <2>1, CallFacts
    <3>2. latest_req_id[h] # NoEntry
      BY <1>1, <1>2, <2>1, <3>1 DEF SessionsInOrder, LoaderOfSession, Handles, None
    <3>3. PICK id \in Nat : latest_req_id' = [latest_req_id EXCEPT ![h] = id]
      BY <3>1, Zenon DEF Requested
    <3> QED
      BY <1>2, <3>1, <3>2, <3>3 DEF TypeOK, NoEntry
  <2>2. CASE stage[t] = "left"
    BY <1>2, <2>2, ErasedFacts
  <2> QED
    BY <2>1, <2>2
<1>4. ASSUME NEW s \in Sessions PROVE Phase(s)' = Phase(s)
  <2>1. loader_handle[s] = None \/ loader_handle[s] \in Handles
    BY <1>2 DEF TypeOK
  <2> QED
    BY <1>3, <2>1 DEF Phase
<1> QED
  BY <1>4 DEF Drops, SamePhases

\* The kinds of steps a stream can tell apart.
LEMMA StepKinds ==
  ASSUME IInv, [Next]_vars
  PROVE  \/ SamePhases /\ UNCHANGED <<next_tensor, held>>
         \/ \E t \in Sessions : Drops(t) \/ Opens(t) \/ Delivers(t) \/ Closes(t)
<1>0. TypeOK /\ ShapeOK /\ SessionsInOrder /\ CallInOnePlace /\ HeldIsLast
  BY DEF IInv
<1>1. CASE UNCHANGED <<loader_handle, latest_req_id, next_tensor, held>>
  BY <1>1 DEF SamePhases, Phase
<1>2. ASSUME NEW t \in Sessions, Open(t)
      PROVE  SamePhases /\ UNCHANGED <<next_tensor, held>>
  <2>1. PICK h : h = loader_id_iter
    OBVIOUS
  <2>2. /\ latest_req_id' = [latest_req_id EXCEPT ![h] = 1]
        /\ UNCHANGED <<loader_handle, next_tensor, held>>
    BY <1>2, <2>1 DEF Open, NewHandle, objectVars
  <2>3. ASSUME NEW s \in Sessions PROVE Phase(s)' = Phase(s)
    <3>1. CASE loader_handle[s] = None
      BY <2>2, <3>1 DEF Phase
    <3>2. CASE loader_handle[s] # None
      <4>1. loader_handle[s] \in Handles /\ loader_handle[s] < h /\ h \in Int
        BY <1>0, <2>1, <3>2 DEF TypeOK, SessionsInOrder, LoaderOfSession
      <4>2. loader_handle[s] # h
        BY <4>1 DEF Handles
      <4>3. latest_req_id'[loader_handle[s]] = latest_req_id[loader_handle[s]]
        BY <1>0, <2>2, <4>1, <4>2 DEF TypeOK
      <4> QED
        BY <2>2, <4>3 DEF Phase
    <3> QED
      BY <3>1, <3>2
  <2> QED
    BY <2>2, <2>3 DEF SamePhases
<1>3. ASSUME NEW t \in Sessions, FirstTensor(t)
      PROVE  Drops(t)
  <2>1. /\ call = NoCall /\ stage[t] \in {"entered", "left"} /\ ~invalidated[t] /\ ~iterated[t]
        /\ Call(t, "GET_TENSOR_PTR", 0)
        /\ UNCHANGED <<loader_handle, next_tensor, held>>
    BY <1>3 DEF FirstTensor, Python, MayIterate
  <2>2. stage[t] = "entered" /\ held[t] = <<>>
    BY <1>0, <2>1 DEF SessionsInOrder, HeldIsLast
  <2> QED
    BY <2>1, <2>2, CallDrops
<1>4. ASSUME NEW t \in Sessions, NextTensor(t)
      PROVE  Drops(t)
  <2>1. /\ call = NoCall /\ stage[t] \in {"entered", "left"}
        /\ held' = [held EXCEPT ![t] = <<>>]
        /\ Call(t, "GET_TENSOR_PTR", next_tensor[t])
        /\ UNCHANGED <<loader_handle, next_tensor>>
    BY <1>4 DEF NextTensor, Python
  <2>2. held'[t] = <<>> /\ \A s \in Sessions : s # t => held'[s] = held[s]
    BY <1>0, <2>1 DEF ShapeOK
  <2> QED
    BY <2>1, <2>2, CallDrops
<1>5. ASSUME NEW t \in Sessions, Leave(t)
      PROVE  Drops(t)
  <2>1. /\ call = NoCall /\ stage[t] \in {"entered", "left"}
        /\ held' = [held EXCEPT ![t] = <<>>]
        /\ Call(t, "CLOSE", None)
        /\ UNCHANGED <<loader_handle, next_tensor>>
    BY <1>5 DEF Leave, Python
  <2>2. held'[t] = <<>> /\ \A s \in Sessions : s # t => held'[s] = held[s]
    BY <1>0, <2>1 DEF ShapeOK
  <2> QED
    BY <2>1, <2>2, CallDrops
<1>6. ASSUME Receive
      PROVE  \E t \in Sessions : Opens(t) \/ Delivers(t) \/ Closes(t)
  <2>1. /\ call # NoCall /\ output_queue[call.handle] # <<>>
        /\ Returned(call.session, call.op, Head(output_queue[call.handle]).result)
    BY <1>6, ReceiveFacts
  <2>2. PICK t, h, response :
          t = call.session /\ h = call.handle /\ response = Head(output_queue[h])
    OBVIOUS
  <2>3. /\ t \in Sessions /\ h \in Handles /\ call.op \in {"OPEN", "GET_TENSOR_PTR", "CLOSE"}
        /\ call.op = "OPEN" => Opening(t, h)
        /\ call.op = "GET_TENSOR_PTR" => Getting(t, h)
        /\ call.op = "CLOSE" => Closing(t, h)
    BY <1>0, <2>1, <2>2, ResponseFacts DEF CallRecord
  <2>4. h # None
    BY <2>3 DEF Handles, None
  <2>5. \A s \in Sessions : loader_handle[s] = None \/ loader_handle[s] \in Handles
    BY <1>0 DEF TypeOK
  <2>6. CASE call.op = "OPEN"
    <3>1. /\ loader_handle' = [loader_handle EXCEPT ![t] = h]
          /\ UNCHANGED <<next_tensor, held, latest_req_id>>
      BY <2>1, <2>2, <2>6, Zenon DEF Returned
    <3>2. loader_handle[t] = None /\ latest_req_id[h] # NoEntry
      BY <2>3, <2>6 DEF Opening
    <3>3. /\ loader_handle'[t] = h
          /\ \A s \in Sessions : s # t => loader_handle'[s] = loader_handle[s]
      BY <1>0, <2>3, <3>1 DEF TypeOK
    <3>4. Opens(t)
      BY <2>4, <3>1, <3>2, <3>3 DEF Opens, Phase
    <3> QED
      BY <2>3, <3>4
  <2>7. CASE call.op = "GET_TENSOR_PTR"
    <3>1. PICK tensor : tensor = [file |-> response.result.file, index |-> response.result.index,
                                  loader |-> response.result.loader, device |-> device_idx]
      OBVIOUS
    <3>2. /\ held' = [held EXCEPT ![t] = <<tensor>>]
          /\ next_tensor' = [next_tensor EXCEPT ![t] = @ + 1]
          /\ UNCHANGED <<loader_handle, latest_req_id>>
      BY <2>1, <2>2, <2>7, <3>1, Zenon DEF Returned
    <3>3. /\ held'[t] = <<tensor>> /\ next_tensor'[t] = next_tensor[t] + 1
          /\ \A s \in Sessions : s # t => held'[s] = held[s] /\ next_tensor'[s] = next_tensor[s]
      BY <1>0, <2>3, <3>2 DEF ShapeOK
    <3>4. /\ stage[t] = "entered" /\ loader_handle[t] = h /\ held[t] = <<>>
          /\ next_tensor[t] < TensorCount(t)
      BY <2>3, <2>7 DEF Getting
    <3>5. latest_req_id[h] # NoEntry
      BY <1>0, <2>3, <2>4, <3>4 DEF SessionsInOrder, LoaderOfSession
    <3>6. SamePhases /\ Phase(t) = "open"
      BY <2>4, <3>2, <3>4, <3>5 DEF SamePhases, Phase
    <3>7. <<tensor>> # <<>>
      OBVIOUS
    <3>8. Delivers(t)
      BY <3>3, <3>4, <3>6, <3>7 DEF Delivers
    <3> QED
      BY <2>3, <3>8
  <2>8. CASE call.op = "CLOSE"
    <3>1. /\ latest_req_id' = [latest_req_id EXCEPT ![h] = NoEntry]
          /\ UNCHANGED <<loader_handle, next_tensor, held>>
      BY <2>1, <2>2, <2>8, Zenon DEF Returned
    <3>2. stage[t] = "left" /\ loader_handle[t] = h /\ latest_req_id[h] # NoEntry
      BY <2>3, <2>8 DEF Closing
    <3>3. /\ latest_req_id'[h] = NoEntry
          /\ \A g \in Handles : g # h => latest_req_id'[g] = latest_req_id[g]
      BY <1>0, <2>3, <3>1 DEF TypeOK
    <3>4. ASSUME NEW s \in Sessions, s # t PROVE Phase(s)' = Phase(s)
      <4>1. loader_handle[s] # h
        BY <1>0, <2>3, <2>4, <3>2, <3>4, OwnHandle
      <4> QED
        BY <2>5, <3>1, <3>3, <4>1 DEF Phase
    <3>5. Phase(t) = "open" /\ Phase(t)' = "closed"
      BY <2>4, <3>1, <3>2, <3>3 DEF Phase
    <3>6. held[t] = <<>>
      BY <1>0, <2>3, <3>2 DEF HeldIsLast
    <3>7. Closes(t)
      BY <3>1, <3>4, <3>5, <3>6 DEF Closes
    <3> QED
      BY <2>3, <3>7
  <2> QED
    BY <2>3, <2>6, <2>7, <2>8
<1>7. ASSUME NEW t \in Sessions, NEW avails \in Avails, Construct(t, avails)
      PROVE  UNCHANGED <<loader_handle, latest_req_id, next_tensor, held>>
  BY <1>7 DEF Construct, tableVars
<1>8. ASSUME NEW t \in Sessions, Enter(t)
      PROVE  UNCHANGED <<loader_handle, latest_req_id, next_tensor, held>>
  BY <1>8 DEF Enter, tableVars
<1>9. ASSUME Cleanup \/ UNCHANGED vars
      PROVE  UNCHANGED <<loader_handle, latest_req_id, next_tensor, held>>
  BY <1>9 DEF Cleanup, vars, objectVars, tableVars
<1>10. ASSUME NEW h \in Handles, LoaderThread(h)
       PROVE  UNCHANGED <<loader_handle, latest_req_id, next_tensor, held>>
  BY <1>10 DEF LoaderThread, ServeOpen, ServeGet, ServeClose, Serve, EndThread, objectVars, tableVars
<1> QED
  BY <1>1, <1>2, <1>3, <1>4, <1>5, <1>6, <1>7, <1>8, <1>9, <1>10 DEF Next, Terminated

LEMMA StreamNext ==
  ASSUME IInv, IInv', [Next]_vars, NEW s \in Sessions
  PROVE  [Stream(s)!Next]_(Stream(s)!vars)
<1>1. /\ Readable(s) = IF held[s] # <<>> THEN next_tensor[s] - 1 ELSE NoTensor
      /\ (Readable(s) = IF held[s] # <<>> THEN next_tensor[s] - 1 ELSE NoTensor)'
  <2>1. Readable(s) = IF held[s] # <<>> THEN next_tensor[s] - 1 ELSE NoTensor
    BY ReadableIsHeld
  <2>2. (Readable(s) = IF held[s] # <<>> THEN next_tensor[s] - 1 ELSE NoTensor)'
    BY ReadableIsHeld, PTL
  <2> QED
    BY <2>1, <2>2
<1>2. /\ next_tensor[s] \in Nat
      /\ held[s] # <<>> => next_tensor[s] - 1 # NoTensor
  <2>1. next_tensor[s] \in Nat
    BY ConstantFacts DEF IInv, TypeOK
  <2>2. held[s] # <<>> => next_tensor[s] > 0
    BY DEF IInv, HeldIsLast
  <2> QED
    BY <2>1, <2>2 DEF NoTensor
<1>3. CASE Phase(s)' = Phase(s) /\ next_tensor'[s] = next_tensor[s] /\ held'[s] = held[s]
  BY <1>1, <1>3 DEF Stream!vars, Phase
<1>4. CASE Drops(s)
  <2>1. Phase(s)' = Phase(s) /\ next_tensor'[s] = next_tensor[s] /\ held'[s] = <<>>
    BY <1>4 DEF Drops, SamePhases
  <2>2. CASE held[s] = <<>>
    BY <1>3, <2>1, <2>2
  <2>3. CASE held[s] # <<>>
    <3>1. Stream(s)!Release
      BY <1>1, <1>2, <2>1, <2>3 DEF Stream!Release, Stream!NoTensor, NoTensor, Phase
    <3> QED
      BY <3>1 DEF Stream!Next
  <2> QED
    BY <2>2, <2>3
<1>5. CASE Opens(s)
  <2>1. Stream(s)!Open
    BY <1>1, <1>5 DEF Opens, Stream!Open, Phase
  <2> QED
    BY <2>1 DEF Stream!Next
<1>6. CASE Delivers(s)
  <2>1. /\ Phase(s) = "open" /\ Phase(s)' = Phase(s) /\ held[s] = <<>> /\ held'[s] # <<>>
        /\ next_tensor[s] < TensorCount(s) /\ next_tensor'[s] = next_tensor[s] + 1
    BY <1>6 DEF Delivers, SamePhases
  <2>2. Readable(s) = NoTensor /\ Readable(s)' = next_tensor[s]
    BY <1>1, <1>2, <2>1
  <2>3. Stream(s)!Deliver
    BY <2>1, <2>2 DEF Stream!Deliver, Stream!NoTensor, NoTensor, Phase
  <2> QED
    BY <2>3 DEF Stream!Next
<1>7. CASE Closes(s)
  <2>1. Stream(s)!Close
    BY <1>1, <1>7 DEF Closes, Stream!Close, Stream!NoTensor, NoTensor, Phase
  <2> QED
    BY <2>1 DEF Stream!Next
<1>8. ASSUME NEW t \in Sessions, t # s, Drops(t) \/ Opens(t) \/ Delivers(t) \/ Closes(t)
      PROVE  Phase(s)' = Phase(s) /\ next_tensor'[s] = next_tensor[s] /\ held'[s] = held[s]
  BY <1>8 DEF Drops, Opens, Delivers, Closes, SamePhases
<1>9. CASE SamePhases /\ UNCHANGED <<next_tensor, held>>
  BY <1>3, <1>9 DEF SamePhases
<1> QED
  BY <1>3, <1>4, <1>5, <1>6, <1>7, <1>8, <1>9, StepKinds

\* Each safe_open object is the stream of its own tensors, whatever the others do.
THEOREM SessionsImplementStreams == Spec => ImplementsStreams
<1>1. Init => \A s \in Sessions : Stream(s)!Init
  BY DEF Init, Stream!Init, Stream!NoTensor, Readable, NoTensor
<1>2. IInv /\ IInv' /\ [Next]_vars =>
        [\A s \in Sessions : [Stream(s)!Next]_(Stream(s)!vars)]_vars
  BY StreamNext
<1> QED
  BY <1>1, <1>2, InitInv, StepInv, PTL DEF Spec, ImplementsStreams
==============================================================================
