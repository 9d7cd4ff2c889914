-------------------------- MODULE LoaderRefinement --------------------------
(***************************************************************************)
(* Loader implements its two abstractions, for every layout and all sizes: *)
(* its pipeline the stages of ChunkStages, its session the TensorStream.   *)
(***************************************************************************)
EXTENDS LoaderProofs

-----------------------------------------------------------------------------
(* ChunkStages: each cursor is moved by one kind of action.                *)

LEMMA StagesFrame ==
  ASSUME [Next]_vars
  PROVE  \/ UNCHANGED <<cuda_submitted, dev_done, wait_done, chunk_read>>
         \/ IssueReads /\ UNCHANGED <<dev_done, wait_done, chunk_read>>
         \/ StreamCopy /\ UNCHANGED <<cuda_submitted, wait_done, chunk_read>>
         \/ WaitRun /\ UNCHANGED <<cuda_submitted, dev_done, chunk_read>>
         \/ ReapNext /\ UNCHANGED <<cuda_submitted, dev_done, wait_done>>
BY DEF Next, vars, Client, ClientOpen, ClientGet, ClientClose, Call, ClientReceive, LoaderThread,
       Exit, TopReceive, TopStep, ServeRequest, ServeOpen, ServeGet, ServeClose, Serve, TryStep,
       TryPoll, WindowWait, WindowFree, IssueReads, SubmitWait, IssueOnStopped, PollReap, PollEnd,
       WaitStepDone, WaitStepPost, WaitStepBlock, WaitRead, WaitReadDone, Reply, JoinCuda,
       JoinWaitAndFree, BeginPost, ReadsComplete, CudaRun, StreamCopy, WaitReap, WaitRun,
       LoaderAndClient, Terminated, postVars, gpuVars

LEMMA StagesInit == Init => Stages!Init
BY DEF Init, Stages!Init, NoChunk

LEMMA StagesNext ==
  ASSUME IInv, IInv', [Next]_vars
  PROVE  [Stages!Next]_(Stages!vars)
<1>0. /\ \A c \in {cuda_submitted, dev_done, wait_done, chunk_read, chunk_reading, cuda_done} : c \in Int
      /\ Depth \in Int
  BY CursorsAreInt, SizesAssumption DEF IInv, TypeOK, Depth, Smaller
<1>1. CASE UNCHANGED <<cuda_submitted, dev_done, wait_done, chunk_read>>
  BY <1>1 DEF Stages!vars
<1>2. CASE IssueReads /\ UNCHANGED <<dev_done, wait_done, chunk_read>>
  <2>1. cuda_submitted = chunk_reading - 1 /\ chunk_reading - chunk_read <= Depth
    BY <1>2 DEF IssueReads, IInv, PostingProgress, BoundedOutstanding
  <2>2. chunk_reading \in Chunks
    BY <1>2 DEF IssueReads, IInv, WithinPrefetch, Posting
  <2>3. Stages!Post
    BY <1>0, <1>2, <2>1, <2>2, SizesAssumption DEF IssueReads, Stages!Post, Chunks, Depth
  <2> QED
    BY <2>3 DEF Stages!Next
<1>3. CASE StreamCopy /\ UNCHANGED <<cuda_submitted, wait_done, chunk_read>>
  <2>1. dev_done' = dev_done + 1 /\ dev_done + 1 <= cuda_submitted
    BY <1>0, <1>3 DEF StreamCopy, IInv, StagesInOrder
  <2>2. dev_done >= -1 /\ dev_done + 1 \in 0 .. NumChunks - 1
    BY <1>0, <2>1, CursorRange, SizesAssumption DEF IInv, TypeOK, PipelineTypeOK
  <2>3. Stages!Land(dev_done + 1)
    BY <1>0, <1>3, <2>1, <2>2 DEF Stages!Land
  <2> QED
    BY <2>2, <2>3 DEF Stages!Next
<1>4. CASE WaitRun /\ UNCHANGED <<cuda_submitted, dev_done, chunk_read>>
  <2>1. wait_done' = wait_done + 1 /\ wait_done + 1 <= dev_done /\ wait_done >= -1
    BY <1>0, <1>4, CursorRange, SizesAssumption
    DEF WaitRun, IInv, StagesInOrder, TypeOK, PipelineTypeOK
  <2>2. Stages!Report
    BY <1>0, <1>4, <2>1 DEF Stages!Report
  <2> QED
    BY <2>2 DEF Stages!Next
<1>5. CASE ReapNext /\ UNCHANGED <<cuda_submitted, dev_done, wait_done>>
  BY <1>0, <1>5 DEF ReapNext, CanReap, Stages!Next, Stages!Reap
<1> QED
  BY <1>1, <1>2, <1>3, <1>4, <1>5, StagesFrame

\* The pipeline of Loader promises what ChunkStages says: posted in order and at
\* most min(io_depth, MAX_PREFETCH_CHUNKS) ahead, reported in order and only
\* once on the device.
THEOREM LoaderImplementsStages == Spec => ImplementsStages
<1>1. Spec => Stages!Init
  BY StagesInit DEF Spec
<1>2. IInv /\ IInv' /\ [Next]_vars => [Stages!Next]_(Stages!vars)
  BY StagesNext
<1> QED
  BY <1>1, <1>2, Inductive, PTL DEF Spec, ImplementsStages, Stages!Spec

-----------------------------------------------------------------------------
(* TensorStream: only calls and responses change what the user has.        *)

LEMMA CurrentIsHeld == IInv => Current = held
BY IntactFromInv DEF Current

LEMMA StreamFrame ==
  ASSUME [Next]_vars
  PROVE  UNCHANGED clientVars \/ ClientOpen \/ ClientGet \/ ClientClose \/ ClientReceive
BY DEF Next, vars, Client, LoaderThread,
       Exit, TopReceive, TopStep, ServeRequest, ServeOpen, ServeGet, ServeClose, Serve, TryStep,
       TryPoll, WindowWait, WindowFree, IssueReads, SubmitWait, IssueOnStopped, PollReap, PollEnd,
       WaitStepDone, WaitStepPost, WaitStepBlock, WaitRead, WaitReadDone, Reply, JoinCuda,
       JoinWaitAndFree, BeginPost, ReadsComplete, CudaRun, StreamCopy, WaitReap, WaitRun,
       LoaderAndClient, Terminated

\* What a step does to the session, in terms of phase, next_tensor and held.
LEMMA SessionStepAbstract ==
  ASSUME IInv, [Next]_vars
  PROVE  \/ UNCHANGED <<Phase, next_tensor, held>>
         \/ Phase = "new" /\ Phase' = "open" /\ UNCHANGED <<next_tensor, held>>
         \/ /\ Phase = "open" /\ held = NoTensor /\ next_tensor < NumTensors
            /\ held' = next_tensor /\ next_tensor' = next_tensor + 1 /\ UNCHANGED Phase
         \/ held # NoTensor /\ held' = NoTensor /\ UNCHANGED <<Phase, next_tensor>>
         \/ /\ Phase = "open" /\ held = NoTensor
            /\ Phase' = "closed" /\ UNCHANGED <<next_tensor, held>>
<1>0. held # NoTensor => client = "idle"
  BY DEF IInv, CurrentTensor
<1>1. CASE UNCHANGED clientVars
  BY <1>1 DEF clientVars, Phase
<1>2. CASE ClientOpen
  BY <1>0, <1>2 DEF ClientOpen, Call, Phase
<1>3. CASE ClientGet \/ ClientClose
  BY <1>3 DEF ClientGet, ClientClose, Call, Phase
<1>4. CASE ClientReceive
  <2>1. client = "getting" => next_tensor < NumTensors
    BY DEF IInv, CallInOnePlace
  <2> QED
    BY <1>0, <1>4, <2>1 DEF ClientReceive, Phase
<1> QED
  BY <1>1, <1>2, <1>3, <1>4, StreamFrame

LEMMA StreamNext ==
  ASSUME IInv, IInv', [Next]_vars
  PROVE  [Stream!Next]_(Stream!vars)
<1>0. (IInv => Current = held)'
  BY CurrentIsHeld, PTL
<1>1. Current = held /\ Current' = held'
  BY <1>0, CurrentIsHeld
<1>2. UNCHANGED <<Phase, next_tensor, Current>> => UNCHANGED Stream!vars
  BY DEF Stream!vars
<1>3. Phase = "new" /\ Phase' = "open" /\ UNCHANGED <<next_tensor, Current>> => Stream!Open
  BY DEF Stream!Open
<1>4. /\ Phase = "open" /\ Current = NoTensor /\ next_tensor < NumTensors
      /\ Current' = next_tensor /\ next_tensor' = next_tensor + 1 /\ UNCHANGED Phase
      => Stream!Deliver
  BY DEF Stream!Deliver, Stream!NoTensor, NoTensor
<1>5. Current # NoTensor /\ Current' = NoTensor /\ UNCHANGED <<Phase, next_tensor>>
      => Stream!Release
  BY DEF Stream!Release, Stream!NoTensor, NoTensor
<1>6. /\ Phase = "open" /\ Current = NoTensor
      /\ Phase' = "closed" /\ UNCHANGED <<next_tensor, Current>>
      => Stream!Close
  BY DEF Stream!Close, Stream!NoTensor, NoTensor
<1> QED
  BY <1>1, <1>2, <1>3, <1>4, <1>5, <1>6, SessionStepAbstract DEF Stream!Next

\* A session is a TensorStream: every tensor once and in order, complete when it
\* is handed out and intact while it is held, for every layout, all sizes, and
\* also when the context is left early.
THEOREM LoaderImplementsStream == Spec => ImplementsStream
<1>1. Init => Stream!Init
  BY DEF Init, Stream!Init, Stream!NoTensor, NoTensor, Phase, Current
<1>2. IInv /\ IInv' /\ [Next]_vars => [Stream!Next]_(Stream!vars)
  BY StreamNext
<1> QED
  BY <1>1, <1>2, Inductive, PTL DEF Spec, ImplementsStream, Stream!Spec
=============================================================================
