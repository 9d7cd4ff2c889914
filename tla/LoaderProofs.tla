---------------------------- MODULE LoaderProofs ----------------------------
(***************************************************************************)
(* IInv is an inductive invariant of Loader, for every layout that         *)
(* satisfies LayoutAssumption and all sizes, and what follows from it.     *)
(***************************************************************************)
EXTENDS LoaderInv, SequenceTheorems, TLAPS

LEMMA InitIInv == Init => IInv
<1> SUFFICES ASSUME Init PROVE IInv
  OBVIOUS
<1> USE SizesAssumption DEF Init, Chunks, Tensors, NoTensor, NoChunk, Cursor
<1>1. ClientTypeOK
  <2>1. input_queue \in Seq(Request) /\ output_queue \in Seq(Nat)
    OBVIOUS
  <2> QED
    BY <2>1 DEF ClientTypeOK
<1>2. LoaderTypeOK
  BY DEF LoaderTypeOK
<1>3. PipelineTypeOK
  <2>1. window \in [0 .. IoDepth - 1 -> Cursor] /\ event \in [0 .. IoDepth - 1 -> Cursor]
    OBVIOUS
  <2>2. mem \in [Slots -> Cursor]
    OBVIOUS
  <2> QED
    BY <2>1, <2>2 DEF PipelineTypeOK
<1>4. StagesInOrder /\ PostingProgress
  BY DEF StagesInOrder, PostingProgress, Posting
<1>5. BoundedOutstanding /\ WindowsKept
  BY DEF BoundedOutstanding, WindowsKept, Depth, Smaller
<1>6. LastCopyWins
  BY DEF LastCopyWins
<1>7. WithinPrefetch /\ SessionPhase
  BY DEF WithinPrefetch, SessionPhase, Posting
<1>8. CallInOnePlace
  BY DEF CallInOnePlace, Serving, Posting
<1>9. CurrentTensor
  BY DEF CurrentTensor
<1>10. Released /\ CrashOnlyAfterEarlyExit
  BY DEF Released, CrashOnlyAfterEarlyExit, Posting
<1> QED
  BY <1>1, <1>2, <1>3, <1>4, <1>5, <1>6, <1>7, <1>8, <1>9, <1>10 DEF IInv, TypeOK

-----------------------------------------------------------------------------
(* Which actions change which variables.                                   *)

LEMMA RpcFrame ==
  ASSUME [Next]_vars
  PROVE  \/ UNCHANGED <<clientVars, rpcVars>>
         \/ Client \/ ServeRequest \/ Reply
BY DEF Next, vars, LoaderThread, Exit, TopReceive, TopStep, TryStep, TryPoll, WindowWait,
       WindowFree, IssueReads, SubmitWait, IssueOnStopped, PollReap, PollEnd, WaitStepDone,
       WaitStepPost, WaitStepBlock, WaitRead, WaitReadDone, JoinCuda, JoinWaitAndFree,
       BeginPost, ReadsComplete, CudaRun, StreamCopy, WaitReap, WaitRun, LoaderAndClient, Terminated

LEMMA GpuFrame ==
  ASSUME [Next]_vars
  PROVE  \/ UNCHANGED gpuVars
         \/ UNCHANGED LoaderAndClient
            /\ (CudaRun \/ StreamCopy \/ WaitReap \/ WaitRun \/ \E c \in Chunks : ReadsComplete(c))
BY DEF Next, vars, LoaderThread, Exit, TopReceive, TopStep, TryStep, TryPoll, WindowWait,
       WindowFree, IssueReads, SubmitWait, IssueOnStopped, PollReap, PollEnd, WaitStepDone,
       WaitStepPost, WaitStepBlock, WaitRead, WaitReadDone, JoinCuda, JoinWaitAndFree, Reply,
       BeginPost, ReadsComplete, CudaRun, StreamCopy, WaitReap, WaitRun, Terminated,
       ServeRequest, ServeOpen, ServeGet, ServeClose, Serve,
       Client, ClientOpen, ClientGet, ClientClose, ClientReceive, Call

LEMMA ReadFrame ==
  ASSUME [Next]_vars
  PROVE  \/ UNCHANGED chunk_read
         \/ ReapNext /\ UNCHANGED <<pc, postVars, serveVars, joined, gpuVars>>
BY DEF Next, vars, LoaderThread, Exit, TopReceive, TopStep, TryStep, TryPoll, WindowWait,
       WindowFree, IssueReads, SubmitWait, IssueOnStopped, PollReap, PollEnd, WaitStepDone,
       WaitStepPost, WaitStepBlock, WaitRead, WaitReadDone, JoinCuda, JoinWaitAndFree, Reply,
       BeginPost, ReadsComplete, CudaRun, StreamCopy, WaitReap, WaitRun, LoaderAndClient, Terminated,
       ServeRequest, ServeOpen, ServeGet, ServeClose, Serve,
       Client, ClientOpen, ClientGet, ClientClose, ClientReceive, Call

LEMMA PostFrame ==
  ASSUME [Next]_vars
  PROVE  \/ UNCHANGED postVars
         \/ TryStep \/ WaitStepPost \/ IssueReads \/ SubmitWait
BY DEF Next, vars, LoaderThread, Exit, TopReceive, TopStep, TryPoll, WindowWait,
       WindowFree, IssueOnStopped, PollReap, PollEnd, WaitStepDone,
       WaitStepBlock, WaitRead, WaitReadDone, JoinCuda, JoinWaitAndFree, Reply,
       ReadsComplete, CudaRun, StreamCopy, WaitReap, WaitRun, LoaderAndClient, Terminated,
       ServeRequest, ServeOpen, ServeGet, ServeClose, Serve,
       Client, ClientOpen, ClientGet, ClientClose, ClientReceive, Call

LEMMA ServeFrame ==
  ASSUME [Next]_vars
  PROVE  \/ UNCHANGED <<serveVars, joined>>
         \/ ServeRequest
         \/ JoinWaitAndFree
BY DEF Next, vars, LoaderThread, Exit, TopReceive, TopStep, TryStep, TryPoll, WindowWait,
       WindowFree, IssueReads, SubmitWait, IssueOnStopped, PollReap, PollEnd, WaitStepDone,
       WaitStepPost, WaitStepBlock, WaitRead, WaitReadDone, JoinCuda, Reply,
       BeginPost, ReadsComplete, CudaRun, StreamCopy, WaitReap, WaitRun, LoaderAndClient, Terminated,
       Client, ClientOpen, ClientGet, ClientClose, ClientReceive, Call

LEMMA PipelineFrame ==
  ASSUME [Next]_vars
  PROVE  \/ UNCHANGED <<postVars, chunk_read, gpuVars>>
         \/ ReapNext /\ UNCHANGED <<pc, postVars, serveVars, joined, gpuVars>>
         \/ TryStep \/ WaitStepPost \/ IssueReads \/ SubmitWait
         \/ UNCHANGED LoaderAndClient
            /\ (CudaRun \/ StreamCopy \/ WaitReap \/ WaitRun \/ \E c \in Chunks : ReadsComplete(c))
BY GpuFrame, ReadFrame, PostFrame

LEMMA ThreadFrame ==
  ASSUME [Next]_vars
  PROVE  \/ UNCHANGED <<pc, after, serveVars, joined>>
         \/ LoaderThread
BY DEF Next, vars, Client, ClientOpen, ClientGet, ClientClose, ClientReceive, Call,
       ReadsComplete, CudaRun, StreamCopy, WaitReap, WaitRun, LoaderAndClient, Terminated

-----------------------------------------------------------------------------
(* Windows are numbered modulo IoDepth.                                    *)

LEMMA WindowRange ==
  ASSUME NEW c \in Int
  PROVE  WindowOf(c) \in 0 .. IoDepth - 1
BY SizesAssumption DEF WindowOf

\* Two different chunks less than IoDepth apart use different windows.
LEMMA WindowsApart ==
  ASSUME NEW c \in Int, NEW d \in Int, c < d, d - c < IoDepth
  PROVE  WindowOf(c) # WindowOf(d)
<1> DEFINE D == IoDepth
<1>1. D \in Nat \ {0}
  BY SizesAssumption
<1>2. c = D * (c \div D) + (c % D) /\ d = D * (d \div D) + (d % D)
      /\ c \div D \in Int /\ d \div D \in Int
  BY <1>1
<1> SUFFICES ASSUME c % D = d % D PROVE FALSE
  BY DEF WindowOf
<1>3. PICK j \in Int : j = (d \div D) - (c \div D)
  BY <1>2
<1>4. d - c = D * j
  BY <1>1, <1>2, <1>3
<1>5. 0 < D * j /\ D * j < D
  BY <1>1, <1>4
<1> QED
  BY <1>1, <1>5

-----------------------------------------------------------------------------
LEMMA ClientTypeStep == IInv /\ [Next]_vars => ClientTypeOK'
<1> SUFFICES ASSUME IInv, [Next]_vars PROVE ClientTypeOK'
  OBVIOUS
<1>0. ClientTypeOK /\ LoaderTypeOK
  BY DEF IInv, TypeOK
<1> USE <1>0 DEF ClientTypeOK
<1>1. CASE UNCHANGED <<clientVars, rpcVars>>
  BY <1>1 DEF clientVars, rpcVars
<1>2. CASE Client
  <2>1. ASSUME NEW op \in {"OPEN", "GET_TENSOR_PTR", "CLOSE"}, NEW t \in Tensors \cup {NoTensor},
               NEW waiting \in {"opening", "getting", "closing"}, Call(op, t, waiting)
        PROVE  ClientTypeOK'
    <3>1. latest_req_id' \in Nat
      BY <2>1 DEF Call
    <3>2. [id |-> latest_req_id', op |-> op, tensor |-> t] \in Request
      BY <2>1, <3>1 DEF Request
    <3> QED
      BY <2>1, <3>1, <3>2 DEF Call
  <2>2. CASE ClientOpen
    BY <2>2, <2>1 DEF ClientOpen
  <2>3. CASE ClientGet
    BY <2>3, <2>1, SizesAssumption DEF ClientGet, Tensors
  <2>4. CASE ClientClose
    BY <2>4, <2>1 DEF ClientClose
  <2>5. CASE ClientReceive
    <3>1. client = "getting" => next_tensor \in Tensors
      BY SizesAssumption DEF IInv, CallInOnePlace, Tensors
    <3>2. output_queue' \in Seq(Nat)
      BY <2>5 DEF ClientReceive
    <3> QED
      BY <2>5, <3>1, <3>2, SizesAssumption DEF ClientReceive, Tensors
  <2> QED
    BY <1>2, <2>2, <2>3, <2>4, <2>5 DEF Client
<1>3. CASE ServeRequest
  <2>1. input_queue # <<>> /\ input_queue' = Tail(input_queue)
        /\ UNCHANGED <<clientVars, output_queue>>
    BY <1>3 DEF ServeRequest, ServeOpen, ServeGet, ServeClose, Serve
  <2>2. ASSUME NEW S, NEW s \in Seq(S), s # <<>>
        PROVE  Tail(s) \in Seq(S)
    BY <2>2
  <2>3. Tail(input_queue) \in Seq(Request)
    BY <2>1, <2>2
  <2> QED
    BY <2>1, <2>3 DEF clientVars
<1>4. CASE Reply
  <2>1. Append(output_queue, request) \in Seq(Nat)
    BY DEF LoaderTypeOK
  <2> QED
    BY <1>4, <2>1 DEF Reply, clientVars
<1> QED
  BY <1>1, <1>2, <1>3, <1>4, RpcFrame

LEMMA CursorRange == Cursor = -1 .. NumChunks - 1
BY SizesAssumption DEF Cursor, Chunks, NoChunk

LEMMA LoaderTypeStep == IInv /\ [Next]_vars => LoaderTypeOK'
<1> SUFFICES ASSUME IInv, [Next]_vars PROVE LoaderTypeOK'
  OBVIOUS
<1>0. ClientTypeOK /\ LoaderTypeOK
  BY DEF IInv, TypeOK
<1> USE <1>0 DEF LoaderTypeOK
<1>1. CASE UNCHANGED <<pc, after, serveVars, joined>>
  BY <1>1 DEF serveVars
<1>2. CASE ServeRequest
  <2>1. input_queue # <<>> => Head(input_queue) \in Request
    BY DEF ClientTypeOK
  <2>2. request' \in Nat
    BY <1>2, <2>1 DEF ServeRequest, ServeOpen, ServeGet, ServeClose, Serve, Request
  <2> QED
    BY <1>2, <2>2 DEF ServeRequest, ServeOpen, ServeGet, ServeClose, Serve, Goto, Unless, Rejects
<1>3. CASE LoaderThread /\ ~ServeRequest
  BY <1>3 DEF LoaderThread, Exit, TopReceive, TopStep, TryStep, TryPoll, WindowWait,
       WindowFree, IssueReads, SubmitWait, IssueOnStopped, PollReap, PollEnd, WaitStepDone,
       WaitStepPost, WaitStepBlock, WaitRead, WaitReadDone, JoinCuda, JoinWaitAndFree, Reply,
       BeginPost, Goto, Unless, serveVars
<1> QED
  BY <1>1, <1>2, <1>3, ThreadFrame

LEMMA PipelineTypeStep == IInv /\ [Next]_vars => PipelineTypeOK'
<1> SUFFICES ASSUME IInv, [Next]_vars PROVE PipelineTypeOK'
  OBVIOUS
<1>0. PipelineTypeOK /\ LoaderTypeOK
  BY DEF IInv, TypeOK
<1> USE <1>0
<1>1. chunk_read' \in Cursor
  <2>1. CASE UNCHANGED chunk_read
    BY <2>1 DEF PipelineTypeOK
  <2>2. CASE ReapNext
    BY <2>2, CursorRange, SizesAssumption DEF PipelineTypeOK, ReapNext, CanReap
  <2> QED
    BY <2>1, <2>2, ReadFrame
<1>2. chunk_reading' \in Cursor /\ cuda_submitted' \in Cursor /\ wait_submitted' \in Cursor
  <2>1. CASE UNCHANGED postVars
    BY <2>1 DEF PipelineTypeOK, postVars
  <2>2. CASE TryStep \/ WaitStepPost
    <3>1. PrefetchChunk[current_tensor_index] \in Chunks
      BY LayoutAssumption DEF Contract, LoaderTypeOK
    <3> QED
      BY <2>2, <3>1, CursorRange, SizesAssumption
      DEF PipelineTypeOK, TryStep, WaitStepPost, BeginPost, CanStep, PrefetchBound, Chunks
  <2>3. CASE IssueReads \/ SubmitWait
    BY <2>3 DEF PipelineTypeOK, IssueReads, SubmitWait
  <2> QED
    BY <2>1, <2>2, <2>3, PostFrame
<1>3. /\ cuda_done' \in Cursor /\ dev_done' \in Cursor
      /\ wait_reaped' \in Cursor /\ wait_done' \in Cursor
      /\ reads' \subseteq Chunks
  <2>1. CASE UNCHANGED gpuVars
    BY <2>1 DEF PipelineTypeOK, gpuVars
  <2>2. CASE CudaRun
    <3>1. cuda_done + 1 \in Cursor
      BY <2>2, CursorRange, SizesAssumption DEF PipelineTypeOK, CudaRun
    <3> QED
      BY <2>2, <3>1 DEF PipelineTypeOK, CudaRun
  <2>4. CASE StreamCopy
    <3>1. dev_done + 1 \in Cursor
      BY <2>4, CursorRange, SizesAssumption DEF PipelineTypeOK, StreamCopy
    <3> QED
      BY <2>4, <3>1 DEF PipelineTypeOK, StreamCopy
  <2>5. CASE WaitReap
    <3>1. wait_done + 1 \in Cursor
      BY <2>5, CursorRange, SizesAssumption DEF PipelineTypeOK, WaitReap
    <3> QED
      BY <2>5, <3>1 DEF PipelineTypeOK, WaitReap
  <2>6. CASE WaitRun
    BY <2>6 DEF PipelineTypeOK, WaitRun
  <2>3. CASE \E c \in Chunks : ReadsComplete(c)
    BY <2>3 DEF PipelineTypeOK, ReadsComplete
  <2> QED
    BY <2>1, <2>2, <2>3, <2>4, <2>5, <2>6, GpuFrame
<1>4. /\ window' \in [0 .. IoDepth - 1 -> Cursor]
      /\ event' \in [0 .. IoDepth - 1 -> Cursor]
      /\ mem' \in [Slots -> Cursor]
  <2>1. CASE UNCHANGED <<window, event, mem>>
    BY <2>1 DEF PipelineTypeOK
  <2>2. CASE CudaRun
    BY <2>2, <1>3 DEF PipelineTypeOK, CudaRun
  <2>3. CASE \E c \in Chunks : ReadsComplete(c)
    BY <2>3 DEF PipelineTypeOK, ReadsComplete, Cursor
  <2>4. CASE StreamCopy
    <3>1. dev_done + 1 \in Cursor
      BY <2>4, <1>3 DEF StreamCopy
    <3>2. WindowOf(dev_done + 1) \in 0 .. IoDepth - 1
      BY <3>1, CursorRange, SizesAssumption, WindowRange
    <3> QED
      BY <2>4, <3>2 DEF PipelineTypeOK, StreamCopy
  <2> QED
    BY <2>1, <2>2, <2>3, <2>4, GpuFrame DEF gpuVars, WaitReap, WaitRun
<1> QED
  BY <1>1, <1>2, <1>3, <1>4 DEF PipelineTypeOK
-----------------------------------------------------------------------------
(* The pipeline.                                                           *)

LEMMA CursorsAreInt ==
  ASSUME PipelineTypeOK
  PROVE  /\ chunk_reading \in Int /\ chunk_read \in Int
         /\ cuda_submitted \in Int /\ wait_submitted \in Int
         /\ cuda_done \in Int /\ dev_done \in Int
         /\ wait_reaped \in Int /\ wait_done \in Int
         /\ chunk_read >= -1 /\ dev_done >= -1 /\ cuda_done >= -1 /\ wait_done >= -1
         /\ reads \subseteq Nat
BY SizesAssumption, CursorRange DEF PipelineTypeOK, Chunks

LEMMA StagesStep == IInv /\ [Next]_vars => StagesInOrder'
<1> SUFFICES ASSUME IInv, [Next]_vars PROVE StagesInOrder'
  OBVIOUS
<1>0. /\ StagesInOrder /\ PostingProgress /\ WindowsKept
      /\ PipelineTypeOK
  BY DEF IInv, TypeOK
<1> USE <1>0, CursorsAreInt DEF StagesInOrder
<1>1. CASE UNCHANGED <<postVars, chunk_read, gpuVars>>
  BY <1>1 DEF postVars, gpuVars
<1>2. CASE ReapNext /\ UNCHANGED <<pc, postVars, serveVars, joined, gpuVars>>
  BY <1>2 DEF ReapNext, CanReap, postVars, gpuVars
<1>3. CASE TryStep \/ WaitStepPost
  BY <1>3 DEF TryStep, WaitStepPost, BeginPost, gpuVars
<1>4. CASE IssueReads
  BY <1>4 DEF IssueReads, PostingProgress, gpuVars
<1>5. CASE SubmitWait
  BY <1>5 DEF SubmitWait, PostingProgress, gpuVars
<1> DEFINE Rest == UNCHANGED LoaderAndClient
<1>6. CASE CudaRun /\ Rest
  BY <1>6 DEF CudaRun, LoaderAndClient, postVars
<1>7. CASE StreamCopy /\ Rest
  BY <1>7 DEF StreamCopy, LoaderAndClient, postVars
<1>8. CASE WaitReap /\ Rest
  BY <1>8 DEF WaitReap, LoaderAndClient, postVars
<1>9. CASE WaitRun /\ Rest
  <2>1. event[WindowOf(wait_done + 1)] = wait_done + 1
    BY <1>9 DEF WaitRun, WindowsKept
  <2>2. wait_done + 1 <= dev_done
    BY <1>9, <2>1 DEF WaitRun, EventPassed
  <2> QED
    BY <1>9, <2>2 DEF WaitRun, LoaderAndClient, postVars
<1>10. CASE Rest /\ \E c \in Chunks : ReadsComplete(c)
  BY <1>10 DEF ReadsComplete, LoaderAndClient, postVars
<1> QED
  BY <1>1, <1>2, <1>3, <1>4, <1>5, <1>6, <1>7, <1>8, <1>9, <1>10, PipelineFrame

LEMMA PostingStep == IInv /\ [Next]_vars => PostingProgress'
<1> SUFFICES ASSUME IInv, [Next]_vars PROVE PostingProgress'
  OBVIOUS
<1>0. PostingProgress /\ PipelineTypeOK
  BY DEF IInv, TypeOK
<1> USE <1>0, CursorsAreInt DEF PostingProgress, Posting
<1>1. CASE UNCHANGED <<pc, postVars>>
  BY <1>1 DEF postVars
<1>2. CASE TryStep \/ WaitStepPost
  BY <1>2 DEF TryStep, WaitStepPost, BeginPost
<1>3. CASE IssueReads
  BY <1>3 DEF IssueReads, Goto
<1>4. CASE SubmitWait
  BY <1>4 DEF SubmitWait, Goto
<1>5. CASE ServeRequest
  BY <1>5 DEF ServeRequest, ServeOpen, ServeGet, ServeClose, Serve, Goto, Unless, postVars
<1>6. CASE PollEnd
  BY <1>6 DEF PollEnd, Goto, postVars, LoaderTypeOK, IInv, TypeOK
<1>7. CASE Exit \/ TopReceive \/ TopStep \/ TryPoll \/ WindowWait \/ WindowFree \/ IssueOnStopped
  BY <1>7 DEF Exit, TopReceive, TopStep, TryPoll, WindowWait, WindowFree, IssueOnStopped,
              Goto, Unless, postVars
<1>8. CASE PollReap \/ WaitStepDone \/ WaitStepBlock \/ WaitRead \/ WaitReadDone
           \/ JoinCuda \/ JoinWaitAndFree \/ Reply
  BY <1>8 DEF PollReap, WaitStepDone, WaitStepBlock, WaitRead, WaitReadDone, JoinCuda,
              JoinWaitAndFree, Reply, Goto, Unless, postVars
<1>9. UNCHANGED <<pc, postVars>> \/ LoaderThread
  BY ThreadFrame, PostFrame DEF LoaderThread
<1> QED
  BY <1>1, <1>2, <1>3, <1>4, <1>5, <1>6, <1>7, <1>8, <1>9 DEF LoaderThread

LEMMA BoundedStep == IInv /\ [Next]_vars => BoundedOutstanding'
<1> SUFFICES ASSUME IInv, [Next]_vars PROVE BoundedOutstanding'
  OBVIOUS
<1>0. BoundedOutstanding /\ PostingProgress /\ PipelineTypeOK
  BY DEF IInv, TypeOK
<1>d. Depth \in Nat \ {0}
  BY SizesAssumption DEF Depth, Smaller
<1> USE <1>0, <1>d, CursorsAreInt DEF BoundedOutstanding
<1>1. CASE UNCHANGED <<postVars, chunk_read>>
  <2>1. CASE pc' = "issue" /\ pc # "issue"
    <3>1. WindowFree
      BY <2>1, ThreadFrame
      DEF LoaderThread, Exit, TopReceive, TopStep, TryStep, TryPoll, WindowWait,
       IssueReads, SubmitWait, IssueOnStopped, PollReap, PollEnd, WaitStepDone,
       WaitStepPost, WaitStepBlock, WaitRead, WaitReadDone, JoinCuda, JoinWaitAndFree, Reply,
       BeginPost, Goto, Unless, ServeRequest, ServeOpen, ServeGet, ServeClose, LoaderTypeOK, IInv, TypeOK
    <3> QED
      BY <1>1, <3>1 DEF WindowFree, WaitChunkId, Depth, postVars
  <2>2. CASE pc' # "issue" \/ pc = "issue"
    BY <1>1, <2>2 DEF postVars
  <2> QED
    BY <2>1, <2>2
<1>2. CASE ReapNext /\ UNCHANGED <<pc, postVars, serveVars, joined, gpuVars>>
  BY <1>2 DEF ReapNext, postVars
<1>3. CASE TryStep \/ WaitStepPost
  BY <1>3 DEF TryStep, WaitStepPost, BeginPost
<1>4. CASE IssueReads
  BY <1>4 DEF IssueReads, Goto
<1>5. CASE SubmitWait
  BY <1>5 DEF SubmitWait, Goto
<1> QED
  BY <1>1, <1>2, <1>3, <1>4, <1>5, PipelineFrame DEF LoaderAndClient

\* The chunks that windows and events are kept for are less than IoDepth apart.
LEMMA OutstandingApart ==
  ASSUME IInv,
         NEW c \in chunk_read + 1 .. cuda_submitted,
         NEW d \in chunk_read + 1 .. cuda_submitted,
         c # d
  PROVE  WindowOf(c) # WindowOf(d)
<1>1. Depth \in Int /\ Depth <= IoDepth /\ IoDepth \in Int
  BY SizesAssumption DEF Depth, Smaller
<1>2. c \in Int /\ d \in Int /\ (c < d \/ d < c) /\ c - d < Depth /\ d - c < Depth
  BY <1>1, CursorsAreInt DEF IInv, TypeOK, BoundedOutstanding
<1> QED
  BY <1>1, <1>2, WindowsApart

LEMMA WindowsStep == IInv /\ [Next]_vars => WindowsKept'
<1> SUFFICES ASSUME IInv, [Next]_vars PROVE WindowsKept'
  OBVIOUS
<1>0. WindowsKept /\ StagesInOrder /\ PipelineTypeOK
  BY DEF IInv, TypeOK
<1>s. StagesInOrder'
  BY StagesStep
<1>p. PipelineTypeOK'
  BY PipelineTypeStep
<1>w. \A c \in Nat : WindowOf(c) \in 0 .. IoDepth - 1
  BY WindowRange
<1> USE <1>0, CursorsAreInt
<1>1. CASE UNCHANGED gpuVars /\ (UNCHANGED chunk_read \/ ReapNext)
  BY <1>1 DEF WindowsKept, StagesInOrder, gpuVars, ReapNext, CanReap, WindowOf
<1> DEFINE Rest == UNCHANGED LoaderAndClient
<1>2. CASE CudaRun /\ Rest
  <2> DEFINE n == cuda_done + 1
  <2>1. /\ n \in chunk_read + 1 .. cuda_submitted
        /\ cuda_done' = n
        /\ event' = [event EXCEPT ![WindowOf(n)] = n]
        /\ UNCHANGED <<chunk_read, reads, window, dev_done>>
        /\ n \in Nat
    BY <1>2 DEF CudaRun, LoaderAndClient, postVars, StagesInOrder
  <2>2. ASSUME NEW c \in chunk_read + 1 .. n PROVE event'[WindowOf(c)] = c
    <3>1. CASE c = n
      BY <3>1, <2>1, <1>w DEF PipelineTypeOK
    <3>2. CASE c # n
      <4>1. c \in chunk_read + 1 .. cuda_done /\ c \in chunk_read + 1 .. cuda_submitted /\ c \in Nat
        BY <3>2, <2>1
      <4>2. WindowOf(c) # WindowOf(n)
        BY <4>1, <3>2, <2>1, OutstandingApart
      <4> QED
        BY <4>1, <4>2, <2>1, <1>w DEF PipelineTypeOK, WindowsKept
    <3> QED
      BY <3>1, <3>2
  <2> QED
    BY <2>1, <2>2 DEF WindowsKept, WindowOf
<1>3. CASE Rest /\ \E c \in Chunks : ReadsComplete(c)
  <2>1. PICK n \in Chunks : ReadsComplete(n)
    BY <1>3
  <2>2. /\ n \in chunk_read + 1 .. cuda_submitted
        /\ n \in Nat /\ n \notin reads
        /\ reads' = reads \cup {n}
        /\ window' = [window EXCEPT ![WindowOf(n)] = n]
        /\ UNCHANGED <<chunk_read, cuda_done, event, dev_done>>
    BY <2>1, <1>3 DEF ReadsComplete, LoaderAndClient, StagesInOrder
  <2>3. ASSUME NEW c \in reads, c > dev_done PROVE window'[WindowOf(c)] = c
    <3>1. c \in chunk_read + 1 .. cuda_submitted /\ c # n /\ c \in Nat
      BY <2>2, <2>3 DEF StagesInOrder
    <3>2. WindowOf(c) # WindowOf(n)
      BY <3>1, <2>2, OutstandingApart
    <3> QED
      BY <3>1, <3>2, <2>2, <2>3, <1>w DEF PipelineTypeOK, WindowsKept
  <2>4. window'[WindowOf(n)] = n
    BY <2>2, <1>w DEF PipelineTypeOK
  <2> QED
    BY <2>2, <2>3, <2>4 DEF WindowsKept, WindowOf
<1>4. CASE (StreamCopy \/ WaitReap \/ WaitRun) /\ Rest
  BY <1>4 DEF StreamCopy, WaitReap, WaitRun, WindowsKept, LoaderAndClient, WindowOf
<1> QED
  BY <1>1, <1>2, <1>3, <1>4, GpuFrame, ReadFrame DEF LoaderAndClient

LEMMA LastCopyStep == IInv /\ [Next]_vars => LastCopyWins'
<1> SUFFICES ASSUME IInv, [Next]_vars PROVE LastCopyWins'
  OBVIOUS
<1>0. LastCopyWins /\ WindowsKept /\ StagesInOrder /\ PipelineTypeOK
  BY DEF IInv, TypeOK
<1> USE <1>0, CursorsAreInt
<1>1. CASE UNCHANGED <<mem, dev_done>>
  BY <1>1 DEF LastCopyWins
<1>2. CASE StreamCopy
  <2> DEFINE n == dev_done + 1
  <2>1. n \in 0 .. cuda_done /\ n \in reads /\ dev_done' = n /\ n \in Nat
    BY <1>2 DEF StreamCopy, StagesInOrder
  <2>2. window[WindowOf(n)] = n
    BY <2>1 DEF WindowsKept
  <2>3. mem' = [x \in Slots |-> IF x \in ChunkSlots[n] THEN n ELSE mem[x]]
    BY <1>2, <2>2 DEF StreamCopy
  <2>4. ASSUME NEW x \in Slots
        PROVE  /\ \A c \in 0 .. n : x \in ChunkSlots[c] => c <= mem'[x]
               /\ mem'[x] <= n
               /\ mem'[x] # NoChunk => x \in ChunkSlots[mem'[x]]
    <3>1. mem[x] \in Int /\ mem[x] <= dev_done
      BY CursorRange, SizesAssumption DEF PipelineTypeOK, LastCopyWins
    <3> QED
      BY <2>1, <2>3, <3>1 DEF LastCopyWins
  <2> QED
    BY <2>1, <2>4 DEF LastCopyWins
<1> QED
  BY <1>1, <1>2, GpuFrame DEF gpuVars, CudaRun, WaitReap, WaitRun, ReadsComplete
-----------------------------------------------------------------------------
(* The session: the client, its one request, and what the loader thread    *)
(* does about it.                                                          *)

LEMMA SessionTypes ==
  ASSUME IInv
  PROVE  /\ current_tensor_index \in Nat /\ current_tensor_index \in Tensors
         /\ next_tensor \in Nat /\ NumTensors \in Nat
         /\ LastChunk[current_tensor_index] \in Int
         /\ PrefetchChunk[current_tensor_index] \in Int
         /\ LastChunk[current_tensor_index] <= PrefetchChunk[current_tensor_index]
BY SizesAssumption, LayoutAssumption
DEF Contract, IInv, TypeOK, ClientTypeOK, LoaderTypeOK, Tensors, Chunks

\* can_step() does not throw, and what wait_step() waits for has been posted.
LEMMA NoThrow ==
  ASSUME IInv
  PROVE  /\ ~CanStepThrows
         /\ pc = "wait_step" /\ ~CanStep => LastChunk[current_tensor_index] <= chunk_reading
<1>1. chunk_reading \in Int
  BY CursorsAreInt DEF IInv, TypeOK
<1> QED
  BY <1>1, SessionTypes
  DEF IInv, WithinPrefetch, CanStepThrows, CanStep, PrefetchBound

\* Actions of the loader thread that neither take nor answer a request, and
\* lead neither to a reply nor out of a session.
QuietThread ==
  \/ Exit \/ TopReceive \/ TopStep \/ TryStep \/ TryPoll
  \/ WindowWait \/ WindowFree \/ IssueReads \/ SubmitWait \/ IssueOnStopped
  \/ PollReap \/ PollEnd \/ WaitStepPost \/ WaitStepBlock \/ WaitRead \/ WaitReadDone

\* A call being served stays in service, and no other one begins.
LEMMA QuietKeepsServing ==
  ASSUME IInv, QuietThread
  PROVE  /\ Serving' <=> Serving
         /\ pc' \notin {"join_cuda", "join_wait", "reply"}
         /\ pc \notin {"join_cuda", "join_wait", "reply"}
         /\ UNCHANGED <<clientVars, rpcVars, serveVars, joined>>
<1> USE DEF Serving, Posting, serveVars
<1>1. CASE Exit \/ TopReceive \/ TopStep \/ TryStep \/ TryPoll
  BY <1>1, NoThrow DEF Exit, TopReceive, TopStep, TryStep, TryPoll, BeginPost, Goto, Unless
<1>2. CASE WindowWait \/ WindowFree \/ IssueReads \/ SubmitWait
  BY <1>2 DEF WindowWait, WindowFree, IssueReads, SubmitWait, Goto
<1>3. CASE IssueOnStopped
  <2>1. stop
    BY <1>3 DEF IssueOnStopped, IInv, SessionPhase
  <2>2. client \in {"closing", "closed"}
    BY <2>1 DEF IInv, SessionPhase
  <2>3. ~Serving
    BY <1>3, <2>2 DEF IInv, CallInOnePlace, IssueOnStopped, Sent, InService, Answered
  <2> QED
    BY <1>3, <2>3 DEF IssueOnStopped, Goto
<1>4. CASE PollReap \/ PollEnd
  BY <1>4 DEF PollReap, PollEnd, Goto, IInv, TypeOK, LoaderTypeOK
<1>5. CASE WaitStepPost \/ WaitStepBlock \/ WaitRead \/ WaitReadDone
  BY <1>5, NoThrow, CursorsAreInt, SessionTypes
  DEF WaitStepPost, WaitStepBlock, WaitRead, WaitReadDone, BeginPost, Goto, Unless, IInv, TypeOK
<1> QED
  BY <1>1, <1>2, <1>3, <1>4, <1>5 DEF QuietThread

LEMMA SessionFrame ==
  ASSUME [Next]_vars
  PROVE  \/ UNCHANGED <<clientVars, rpcVars, pc, after, serveVars, joined>>
         \/ QuietThread \/ Client \/ ServeRequest \/ Reply
         \/ WaitStepDone \/ JoinCuda \/ JoinWaitAndFree
BY DEF Next, vars, LoaderThread, QuietThread, ReadsComplete, CudaRun, StreamCopy, WaitReap,
       WaitRun, LoaderAndClient, Terminated

\* What has been read stays read while the current tensor does not change.
LEMMA TensorReadStays ==
  ASSUME IInv, [Next]_vars, UNCHANGED current_tensor_index, TensorRead
  PROVE  TensorRead'
<1>1. chunk_read \in Int
  BY CursorsAreInt DEF IInv, TypeOK
<1> QED
  BY <1>1, SessionTypes, ReadFrame DEF TensorRead, ReapNext

LEMMA CallStep == IInv /\ [Next]_vars => CallInOnePlace'
<1> SUFFICES ASSUME IInv, [Next]_vars PROVE CallInOnePlace'
  OBVIOUS
<1>0. /\ CallInOnePlace /\ SessionPhase /\ CurrentTensor
      /\ ClientTypeOK /\ LoaderTypeOK
  BY DEF IInv, TypeOK
<1> USE <1>0
<1>1. CASE UNCHANGED <<clientVars, rpcVars, pc, after, serveVars, joined>>
  <2>1. (Serving' <=> Serving) /\ (TensorRead => TensorRead')
    BY <1>1, TensorReadStays DEF Serving, Posting, serveVars
  <2> QED
    BY <1>1, <2>1 DEF CallInOnePlace, Sent, InService, Answered, clientVars, rpcVars, serveVars
<1>2. CASE QuietThread
  <2>1. /\ (Serving' <=> Serving)
        /\ pc' \notin {"join_cuda", "join_wait", "reply"}
        /\ pc \notin {"join_cuda", "join_wait", "reply"}
        /\ UNCHANGED <<clientVars, rpcVars, serveVars, joined>>
    BY <1>2, QuietKeepsServing
  <2>2. TensorRead => TensorRead'
    BY <2>1, TensorReadStays DEF serveVars
  <2> QED
    BY <2>1, <2>2 DEF CallInOnePlace, Sent, InService, Answered, clientVars, rpcVars, serveVars
<1>3. CASE ClientOpen \/ ClientGet \/ ClientClose
  <2>1. UNCHANGED <<output_queue, next_tensor, pc, after, opened, stop>> /\ (Serving' <=> Serving)
    BY <1>3 DEF ClientOpen, ClientGet, ClientClose, Call, Serving, Posting, serveVars
  <2>2. input_queue = <<>> /\ output_queue = <<>> /\ ~Serving
    BY <1>3 DEF ClientOpen, ClientGet, ClientClose, CallInOnePlace
  <2>3. CASE ClientOpen
    BY <2>1, <2>2, <2>3 DEF CallInOnePlace, Sent, ClientOpen, Call, SessionPhase
  <2>4. CASE ClientGet
    BY <2>1, <2>2, <2>4 DEF CallInOnePlace, Sent, ClientGet, Call
  <2>5. CASE ClientClose
    BY <2>1, <2>2, <2>5 DEF CallInOnePlace, Sent, ClientClose, Call, SessionPhase
  <2> QED
    BY <1>3, <2>3, <2>4, <2>5
<1>4. CASE ClientReceive
  <2>1. Answered
    BY <1>4 DEF ClientReceive, CallInOnePlace, Sent, InService
  <2>2. /\ client' \in {"idle", "closed"} /\ output_queue' = <<>>
        /\ UNCHANGED <<input_queue, pc, after>>
    BY <1>4, <2>1 DEF ClientReceive, Answered
  <2> QED
    BY <2>1, <2>2 DEF Answered, CallInOnePlace, Serving, Posting
<1>5. CASE ServeRequest
  <2>1. /\ UNCHANGED <<clientVars, output_queue, chunk_read, after>>
        /\ pc = "receive" /\ input_queue # <<>>
        /\ input_queue' = Tail(input_queue) /\ request' = Head(input_queue).id
    BY <1>5 DEF ServeRequest, ServeOpen, ServeGet, ServeClose, Serve, Goto
  <2>2. CASE client = "opening"
    <3>1. Sent("OPEN", NoTensor)
      BY <2>1, <2>2 DEF CallInOnePlace, InService, Answered
    <3>2. input_queue' = <<>> /\ request' = latest_req_id /\ ServeOpen
      BY <1>5, <2>1, <3>1 DEF Sent, ServeRequest, ServeOpen, ServeGet, ServeClose, Serve
    <3> QED
      BY <2>1, <2>2, <3>1, <3>2
      DEF CallInOnePlace, Sent, InService, Serving, ServeOpen, Goto, clientVars
  <2>3. CASE client = "getting"
    <3>1. Sent("GET_TENSOR_PTR", next_tensor) /\ next_tensor \in Tensors
      BY <2>1, <2>3, SizesAssumption DEF CallInOnePlace, InService, Answered, ClientTypeOK, Tensors
    <3>2. input_queue' = <<>> /\ request' = latest_req_id /\ ServeGet
          /\ Head(input_queue).tensor = next_tensor
      BY <1>5, <2>1, <3>1 DEF Sent, ServeRequest, ServeOpen, ServeGet, ServeClose, Serve
    <3>3. ~Rejects(next_tensor)
      BY <2>3, <3>1, SessionTypes DEF Rejects, CurrentTensor
    <3>4. current_tensor_index' = next_tensor /\ pc' = "wait_step"
      BY <3>2, <3>3 DEF ServeGet, Goto, Unless
    <3> QED
      BY <2>1, <2>3, <3>1, <3>2, <3>4
      DEF CallInOnePlace, Sent, InService, Serving, clientVars
  <2>4. CASE client = "closing"
    <3>1. Sent("CLOSE", NoTensor)
      BY <2>1, <2>4 DEF CallInOnePlace, InService, Answered
    <3>2. input_queue' = <<>> /\ request' = latest_req_id /\ ServeClose
      BY <1>5, <2>1, <3>1 DEF Sent, ServeRequest, ServeOpen, ServeGet, ServeClose, Serve
    <3> QED
      BY <2>1, <2>4, <3>1, <3>2
      DEF CallInOnePlace, Sent, InService, Serving, ServeClose, Goto, clientVars
  <2> QED
    BY <2>1, <2>2, <2>3, <2>4 DEF CallInOnePlace, ClientTypeOK
<1>6. CASE Reply
  <2>1. InService
    BY <1>6 DEF Reply, CallInOnePlace, Serving, Sent, Answered, ClientTypeOK
  <2>2. /\ output_queue' = <<latest_req_id>> /\ ~Serving'
        /\ UNCHANGED <<clientVars, input_queue, serveVars, chunk_read>>
    BY <1>6, <2>1 DEF Reply, InService, Goto, Serving, Posting
  <2> QED
    BY <1>6, <2>1, <2>2
    DEF CallInOnePlace, InService, Sent, Answered, Reply, TensorRead, clientVars, serveVars
<1>7. CASE WaitStepDone
  <2>1. InService /\ client = "getting"
    BY <1>7 DEF WaitStepDone, CallInOnePlace, Serving, Sent, Answered, ClientTypeOK
  <2>2. /\ pc' = "reply" /\ TensorRead' /\ Serving'
        /\ UNCHANGED <<clientVars, rpcVars, serveVars>>
    BY <1>7 DEF WaitStepDone, Goto, Serving, TensorRead, serveVars
  <2> QED
    BY <1>7, <2>1, <2>2
    DEF CallInOnePlace, InService, Sent, Answered, WaitStepDone, clientVars, rpcVars, serveVars
<1>8. CASE JoinCuda \/ JoinWaitAndFree
  <2>1. InService /\ client = "closing"
    BY <1>8 DEF JoinCuda, JoinWaitAndFree, CallInOnePlace, Serving, Sent, Answered, ClientTypeOK
  <2>2. /\ pc' \in {"join_wait", "reply"} /\ Serving'
        /\ UNCHANGED <<clientVars, rpcVars, serveVars>>
    BY <1>8 DEF JoinCuda, JoinWaitAndFree, Goto, Serving
  <2> QED
    BY <1>8, <2>1, <2>2
    DEF CallInOnePlace, InService, Sent, Answered, JoinCuda, JoinWaitAndFree, clientVars, rpcVars, serveVars
<1> QED
  BY <1>1, <1>2, <1>3, <1>4, <1>5, <1>6, <1>7, <1>8, SessionFrame DEF Client

LEMMA SessionStep == IInv /\ [Next]_vars => SessionPhase'
<1> SUFFICES ASSUME IInv, [Next]_vars PROVE SessionPhase'
  OBVIOUS
<1>0. /\ CallInOnePlace /\ SessionPhase /\ ClientTypeOK
  BY DEF IInv, TypeOK
<1> USE <1>0
<1>1. CASE UNCHANGED <<clientVars, rpcVars, pc, after, serveVars, joined>>
  BY <1>1 DEF SessionPhase, clientVars, serveVars
<1>2. CASE QuietThread
  <2>1. UNCHANGED <<clientVars, serveVars, joined>>
    BY <1>2, QuietKeepsServing
  <2>2. pc' = "exited" => stop
    BY <1>2, NoThrow
    DEF QuietThread, Exit, TopReceive, TopStep, TryStep, TryPoll, WindowWait, WindowFree,
        IssueReads, SubmitWait, IssueOnStopped, PollReap, PollEnd, WaitStepPost, WaitStepBlock,
        WaitRead, WaitReadDone, BeginPost, Goto, Unless, SessionPhase, IInv, TypeOK, LoaderTypeOK
  <2> QED
    BY <2>1, <2>2 DEF SessionPhase, clientVars, serveVars
<1>3. CASE ClientOpen \/ ClientGet \/ ClientClose
  BY <1>3 DEF ClientOpen, ClientGet, ClientClose, Call, SessionPhase, serveVars
<1>4. CASE ClientReceive
  <2>1. Answered
    BY <1>4 DEF ClientReceive, CallInOnePlace, Sent, InService
  <2> QED
    BY <1>4, <2>1
    DEF ClientReceive, Answered, CallInOnePlace, Sent, InService, SessionPhase, serveVars, ClientTypeOK
<1>5. CASE ServeRequest
  <2>1. UNCHANGED <<clientVars, joined>> /\ input_queue # <<>> /\ pc' # "exited"
        /\ (opened => opened') /\ (stop => stop')
    BY <1>5 DEF ServeRequest, ServeOpen, ServeGet, ServeClose, Serve, Goto, Unless
  <2>2. opened' # opened => ServeOpen
    BY <1>5 DEF ServeRequest, ServeOpen, ServeGet, ServeClose
  <2>3. stop' # stop => ServeClose
    BY <1>5 DEF ServeRequest, ServeOpen, ServeGet, ServeClose
  <2>4. ServeOpen => client = "opening"
    BY DEF ServeOpen, Serve, CallInOnePlace, Sent, InService, Answered, ClientTypeOK
  <2>5. ServeClose => client = "closing"
    BY DEF ServeClose, Serve, CallInOnePlace, Sent, InService, Answered, ClientTypeOK
  <2> QED
    BY <2>1, <2>2, <2>3, <2>4, <2>5 DEF SessionPhase, clientVars
<1>6. CASE Reply \/ WaitStepDone
  BY <1>6 DEF Reply, WaitStepDone, Goto, SessionPhase, clientVars, serveVars
<1>7. CASE JoinCuda \/ JoinWaitAndFree
  <2>1. stop
    BY <1>7
    DEF JoinCuda, JoinWaitAndFree, CallInOnePlace, Serving, Sent, InService, Answered, ClientTypeOK
  <2> QED
    BY <1>7, <2>1 DEF JoinCuda, JoinWaitAndFree, Goto, SessionPhase, clientVars, serveVars
<1> QED
  BY <1>1, <1>2, <1>3, <1>4, <1>5, <1>6, <1>7, SessionFrame DEF Client

LEMMA CurrentStep == IInv /\ [Next]_vars => CurrentTensor'
<1> SUFFICES ASSUME IInv, [Next]_vars PROVE CurrentTensor'
  OBVIOUS
<1>0. /\ CallInOnePlace /\ SessionPhase /\ CurrentTensor
      /\ ClientTypeOK /\ LoaderTypeOK
  BY DEF IInv, TypeOK
<1> USE <1>0
<1>1. CASE UNCHANGED <<clientVars, serveVars>>
  <2>1. TensorRead => TensorRead'
    BY <1>1, TensorReadStays DEF serveVars
  <2> QED
    BY <1>1, <2>1 DEF CurrentTensor, clientVars, serveVars
<1>2. CASE ClientOpen \/ ClientGet \/ ClientClose
  <2>1. TensorRead => TensorRead'
    BY <1>2, TensorReadStays DEF ClientOpen, ClientGet, ClientClose, Call, serveVars
  <2> QED
    BY <1>2, <2>1, SessionTypes
    DEF ClientOpen, ClientGet, ClientClose, Call, CurrentTensor, serveVars, SessionPhase
<1>3. CASE ClientReceive
  <2>1. Answered
    BY <1>3 DEF ClientReceive, CallInOnePlace, Sent, InService
  <2>2. TensorRead => TensorRead'
    BY <1>3, TensorReadStays DEF ClientReceive, serveVars
  <2>3. /\ UNCHANGED current_tensor_index
        /\ client = "getting" => client' = "idle" /\ held' = next_tensor
                                 /\ next_tensor' = next_tensor + 1
        /\ client # "getting" => UNCHANGED <<held, next_tensor>> /\ client' # "getting"
        /\ client \in {"opening", "getting", "closing"}
    BY <1>3, <2>1 DEF ClientReceive, Answered, serveVars
  <2>4. CASE client = "getting"
    <3>1. current_tensor_index = next_tensor /\ TensorRead
      BY <2>1, <2>4 DEF CallInOnePlace, Sent, InService, Answered
    <3> QED
      BY <2>2, <2>3, <2>4, <3>1, SessionTypes DEF CurrentTensor
  <2>5. CASE client # "getting"
    <3>1. held = NoTensor
      BY <2>3, <2>5 DEF CurrentTensor
    <3> QED
      BY <2>2, <2>3, <2>5, <3>1, SessionTypes DEF CurrentTensor
  <2> QED
    BY <2>4, <2>5
<1>4. CASE ServeRequest
  <2>1. UNCHANGED <<clientVars, chunk_read>> /\ input_queue # <<>>
        /\ (ServeOpen \/ ServeGet \/ ServeClose)
    BY <1>4 DEF ServeRequest, ServeOpen, ServeGet, ServeClose, Serve
  <2>2. CASE ServeGet
    <3>1. client = "getting" /\ Sent("GET_TENSOR_PTR", next_tensor)
      BY <2>2 DEF ServeGet, Serve, CallInOnePlace, Sent, InService, Answered, ClientTypeOK
    <3>2. current_tensor_index' \in {current_tensor_index, next_tensor}
      BY <2>2, <3>1 DEF ServeGet, Sent
    <3> QED
      BY <2>1, <3>1, <3>2, SessionTypes DEF CurrentTensor, clientVars
  <2>3. CASE ServeOpen \/ ServeClose
    <3>1. UNCHANGED current_tensor_index
      BY <2>3 DEF ServeOpen, ServeClose
    <3> QED
      BY <2>1, <3>1, TensorReadStays DEF CurrentTensor, clientVars
  <2> QED
    BY <2>1, <2>2, <2>3
<1>5. UNCHANGED <<clientVars, serveVars>> \/ Client \/ ServeRequest
  BY SessionFrame, QuietKeepsServing DEF Reply, WaitStepDone, JoinCuda, JoinWaitAndFree
<1> QED
  BY <1>1, <1>2, <1>3, <1>4, <1>5 DEF Client

\* post_read_chunk is entered from try_step() and wait_step() only.
LEMMA PostingEntered ==
  ASSUME IInv, [Next]_vars, pc' \in Posting, pc \notin Posting
  PROVE  TryStep \/ WaitStepPost
<1> USE DEF Posting
<1>1. LoaderThread
  BY ThreadFrame
<1>2. ~ServeRequest
  BY DEF ServeRequest, ServeOpen, ServeGet, ServeClose, Goto, Unless
<1>3. ~(Exit \/ TopReceive \/ TopStep \/ TryPoll \/ WindowWait \/ WindowFree \/ IssueReads
        \/ SubmitWait \/ IssueOnStopped)
  BY DEF Exit, TopReceive, TopStep, TryPoll, WindowWait, WindowFree, IssueReads, SubmitWait,
         IssueOnStopped, Goto, Unless
<1>4. ~(PollReap \/ PollEnd \/ WaitStepDone \/ WaitStepBlock \/ WaitRead \/ WaitReadDone)
  BY DEF PollReap, PollEnd, WaitStepDone, WaitStepBlock, WaitRead, WaitReadDone, Goto, Unless,
         IInv, TypeOK, LoaderTypeOK
<1>5. ~(JoinCuda \/ JoinWaitAndFree \/ Reply)
  BY DEF JoinCuda, JoinWaitAndFree, Reply, Goto
<1> QED
  BY <1>1, <1>2, <1>3, <1>4, <1>5 DEF LoaderThread

LEMMA PrefetchStep == IInv /\ [Next]_vars => WithinPrefetch'
<1> SUFFICES ASSUME IInv, [Next]_vars PROVE WithinPrefetch'
  OBVIOUS
<1>0. /\ WithinPrefetch /\ CallInOnePlace /\ SessionPhase /\ CurrentTensor
      /\ ClientTypeOK /\ LoaderTypeOK /\ PipelineTypeOK
  BY DEF IInv, TypeOK
<1>t. LoaderTypeOK' /\ PipelineTypeOK'
  BY LoaderTypeStep, PipelineTypeStep
<1> USE <1>0
<1>1. opened' => chunk_reading' <= PrefetchChunk[current_tensor_index']
  <2>1. CASE UNCHANGED <<chunk_reading, opened, current_tensor_index>>
    BY <2>1 DEF WithinPrefetch
  <2>2. CASE TryStep \/ WaitStepPost
    <3>1. /\ chunk_reading' = chunk_reading + 1
          /\ chunk_reading < PrefetchChunk[current_tensor_index]
          /\ UNCHANGED current_tensor_index
      BY <2>2 DEF TryStep, WaitStepPost, BeginPost, CanStep, PrefetchBound, serveVars
    <3>2. chunk_reading \in Int /\ PrefetchChunk[current_tensor_index] \in Int
      BY CursorsAreInt, SessionTypes
    <3> QED
      BY <3>1, <3>2
  <2>3. CASE ServeOpen
    <3>1. CASE opened
      BY <2>3, <3>1 DEF ServeOpen, Serve, postVars, WithinPrefetch
    <3>2. CASE ~opened
      <4>1. chunk_reading' = -1 /\ UNCHANGED current_tensor_index
        BY <2>3, <3>2 DEF ServeOpen, Serve, postVars, WithinPrefetch, NoChunk
      <4> QED
        BY <4>1, SessionTypes, LayoutAssumption, SizesAssumption DEF Contract, Chunks
    <3> QED
      BY <3>1, <3>2
  <2>4. CASE ServeGet
    <3>1. /\ current_tensor_index' \in Tensors /\ current_tensor_index <= current_tensor_index'
          /\ UNCHANGED <<chunk_reading, opened>>
      BY <2>4, SessionTypes, SizesAssumption DEF ServeGet, Serve, Rejects, postVars, Tensors
    <3>2. PrefetchChunk[current_tensor_index] <= PrefetchChunk[current_tensor_index']
          /\ PrefetchChunk[current_tensor_index'] \in Int
      BY <3>1, SessionTypes, LayoutAssumption DEF Contract, Chunks
    <3> QED
      BY <3>1, <3>2, SessionTypes, CursorsAreInt DEF WithinPrefetch
  <2>5. CASE ServeClose
    BY <2>5 DEF ServeClose, Serve, postVars, WithinPrefetch
  <2>6. UNCHANGED postVars \/ TryStep \/ WaitStepPost \/ UNCHANGED <<chunk_reading, serveVars>>
    BY PostFrame DEF IssueReads, SubmitWait
  <2>7. UNCHANGED serveVars \/ ServeOpen \/ ServeGet \/ ServeClose
    BY ServeFrame DEF ServeRequest, JoinWaitAndFree
  <2> QED
    BY <2>1, <2>2, <2>3, <2>4, <2>5, <2>6, <2>7 DEF postVars, serveVars
<1>2. ~opened' => chunk_reading' = NoChunk /\ pc' \in {"top", "receive"}
  <2> SUFFICES ASSUME ~opened' PROVE chunk_reading' = NoChunk /\ pc' \in {"top", "receive"}
    OBVIOUS
  <2>1. ~opened
    <3>1. UNCHANGED <<serveVars, joined>> \/ ServeOpen \/ ServeGet \/ ServeClose \/ JoinWaitAndFree
      BY ServeFrame DEF ServeRequest
    <3> QED
      BY <3>1 DEF ServeOpen, ServeGet, ServeClose, JoinWaitAndFree, serveVars
  <2>2. chunk_reading = NoChunk /\ pc \in {"top", "receive"} /\ ~stop /\ ~CanStep /\ ~CanStepThrows
    BY <2>1 DEF WithinPrefetch, SessionPhase, CanStep, CanStepThrows
  <2>3. CASE UNCHANGED <<pc, chunk_reading>>
    BY <2>2, <2>3
  <2>4. CASE TopReceive
    BY <2>2, <2>4 DEF TopReceive, Goto, Unless, postVars
  <2>5. ~ServeOpen /\ ~ServeGet /\ ~ServeClose
    BY <2>1 DEF ServeOpen, ServeGet, ServeClose, Serve, CallInOnePlace, Sent, InService, Answered,
               SessionPhase, ClientTypeOK
  <2>6. UNCHANGED <<pc, chunk_reading>> \/ TopReceive
    BY <2>2, <2>5, ThreadFrame, PostFrame
    DEF LoaderThread, ServeRequest, Exit, TopStep, TryStep, TryPoll, WindowWait,
       WindowFree, IssueReads, SubmitWait, IssueOnStopped, PollReap, PollEnd, WaitStepDone,
       WaitStepPost, WaitStepBlock, WaitRead, WaitReadDone, JoinCuda, JoinWaitAndFree, Reply,
       MustReceive, postVars
  <2> QED
    BY <2>3, <2>4, <2>6
<1>3. pc' \in Posting => chunk_reading' \in Chunks
  <2>1. CASE TryStep \/ WaitStepPost
    BY <2>1, <1>t, CursorsAreInt, CursorRange, SizesAssumption
    DEF TryStep, WaitStepPost, BeginPost, PipelineTypeOK, Chunks
  <2>2. CASE UNCHANGED chunk_reading /\ (pc' \in Posting => pc \in Posting)
    BY <2>2 DEF WithinPrefetch
  <2>3. (TryStep \/ WaitStepPost) \/ UNCHANGED chunk_reading
    BY PostFrame DEF postVars, IssueReads, SubmitWait
  <2>4. (TryStep \/ WaitStepPost) \/ (pc' \in Posting => pc \in Posting)
    BY PostingEntered
  <2> QED
    BY <2>1, <2>2, <2>3, <2>4
<1> QED
  BY <1>1, <1>2, <1>3 DEF WithinPrefetch

LEMMA ReleasedStep == IInv /\ [Next]_vars => Released'
<1> SUFFICES ASSUME IInv, [Next]_vars PROVE Released'
  OBVIOUS
<1>0. Released /\ StagesInOrder /\ PostingProgress /\ PipelineTypeOK
  BY DEF IInv, TypeOK
<1> USE <1>0, CursorsAreInt
<1>1. CASE JoinWaitAndFree
  BY <1>1 DEF JoinWaitAndFree, WaitThreadDrained, PostingProgress, Posting, Released, postVars, gpuVars
<1>2. CASE UNCHANGED joined
  <2>1. CASE joined /\ (IssueReads \/ SubmitWait)
    BY <2>1 DEF IssueReads, SubmitWait, Released, PostingProgress
  <2>2. CASE joined /\ (WaitRun \/ WaitReap)
    BY <2>2 DEF WaitRun, WaitReap, Released, StagesInOrder
  <2>3. CASE UNCHANGED <<cuda_submitted, wait_submitted, wait_done>>
    BY <1>2, <2>3 DEF Released
  <2>4. UNCHANGED <<cuda_submitted, wait_submitted, wait_done>>
        \/ IssueReads \/ SubmitWait \/ WaitRun \/ WaitReap
    BY PipelineFrame
    DEF postVars, gpuVars, ReapNext, TryStep, WaitStepPost, BeginPost, LoaderAndClient, CudaRun,
        StreamCopy, ReadsComplete
  <2> QED
    BY <1>2, <2>1, <2>2, <2>3, <2>4 DEF Released
<1>3. UNCHANGED joined \/ JoinWaitAndFree
  BY ServeFrame DEF ServeRequest, ServeOpen, ServeGet, ServeClose, Serve
<1> QED
  BY <1>1, <1>2, <1>3

\* After a session that was not left early everything has been read.
LEMMA NothingLeft ==
  ASSUME IInv, ~EarlyExit, joined
  PROVE  ~CanStep /\ pc # "wait_step"
<1>1. client \in {"closing", "closed"} /\ next_tensor = NumTensors /\ opened
  BY DEF IInv, SessionPhase
<1>2. pc # "wait_step"
  BY <1>1 DEF IInv, CallInOnePlace, Serving, Sent, InService, Answered
<1>3. current_tensor_index = NumTensors - 1 /\ TensorRead
  BY <1>1, SizesAssumption, SessionTypes DEF IInv, CurrentTensor
<1>4. NumChunks - 1 <= chunk_read
  BY <1>3, LayoutAssumption DEF Contract, TensorRead
<1>5. chunk_read <= chunk_reading /\ chunk_reading \in Int /\ chunk_read \in Int
  BY CursorsAreInt DEF IInv, TypeOK, StagesInOrder, PostingProgress
<1>6. PrefetchChunk[current_tensor_index] \in Chunks
  BY SessionTypes, LayoutAssumption DEF Contract
<1> QED
  BY <1>2, <1>4, <1>5, <1>6, SizesAssumption DEF CanStep, PrefetchBound, Chunks

LEMMA CrashStep == IInv /\ [Next]_vars => CrashOnlyAfterEarlyExit'
<1> SUFFICES ASSUME IInv, [Next]_vars, ~EarlyExit
             PROVE  pc' # "crashed" /\ ~(joined' /\ pc' \in Posting)
  BY DEF CrashOnlyAfterEarlyExit
<1>0. pc # "crashed" /\ ~(joined /\ pc \in Posting)
  BY DEF IInv, CrashOnlyAfterEarlyExit
<1>1. pc' # "crashed"
  <2> SUFFICES ASSUME pc' = "crashed" PROVE FALSE
    OBVIOUS
  <2>1. LoaderThread
    BY <1>0, ThreadFrame
  <2>2. ~ServeRequest
    <3>1. ~ServeOpen /\ ~ServeClose
      BY DEF ServeOpen, ServeClose, Goto
    <3>2. SUFFICES ASSUME ServeGet PROVE FALSE
      BY <3>1 DEF ServeRequest
    <3>3. client = "getting" /\ Head(input_queue).tensor = next_tensor
      BY <3>2 DEF ServeGet, Serve, IInv, TypeOK, ClientTypeOK, CallInOnePlace, Sent, InService, Answered
    <3>4. next_tensor \in Tensors /\ current_tensor_index <= next_tensor
      BY <3>3, SessionTypes, SizesAssumption DEF IInv, CallInOnePlace, CurrentTensor, Tensors
    <3> QED
      BY <3>2, <3>3, <3>4, SessionTypes DEF ServeGet, Rejects, Goto, Unless
  <2>3. ~(Exit \/ TopReceive \/ TopStep \/ TryStep \/ TryPoll \/ WindowWait \/ WindowFree
          \/ IssueReads \/ SubmitWait)
    BY NoThrow DEF Exit, TopReceive, TopStep, TryStep, TryPoll, WindowWait, WindowFree, IssueReads,
           SubmitWait, BeginPost, Goto, Unless, IInv, TypeOK, LoaderTypeOK
  <2>4. ~IssueOnStopped
    BY <1>0 DEF IssueOnStopped, Posting
  <2>5. ~(PollReap \/ PollEnd \/ WaitStepDone \/ WaitStepPost \/ WaitRead \/ WaitReadDone)
    BY DEF PollReap, PollEnd, WaitStepDone, WaitStepPost, WaitRead, WaitReadDone, BeginPost, Goto,
           IInv, TypeOK, LoaderTypeOK
  <2>6. ~WaitStepBlock
    BY NoThrow, SessionTypes, CursorsAreInt DEF WaitStepBlock, Goto, Unless, IInv, TypeOK
  <2>7. ~(JoinCuda \/ JoinWaitAndFree \/ Reply)
    BY DEF JoinCuda, JoinWaitAndFree, Reply, Goto
  <2> QED
    BY <2>1, <2>2, <2>3, <2>4, <2>5, <2>6, <2>7 DEF LoaderThread
<1>2. ~(joined' /\ pc' \in Posting)
  <2>1. UNCHANGED joined \/ pc' = "reply"
    BY ServeFrame DEF ServeRequest, ServeOpen, ServeGet, ServeClose, Serve, JoinWaitAndFree, Goto
  <2>2. SUFFICES ASSUME joined, pc' \in Posting PROVE FALSE
    BY <2>1 DEF Posting
  <2>3. TryStep \/ WaitStepPost
    BY <1>0, <2>2, PostingEntered
  <2> QED
    BY <2>2, <2>3, NothingLeft DEF TryStep, WaitStepPost, BeginPost
<1> QED
  BY <1>1, <1>2

-----------------------------------------------------------------------------
(* The invariant, and what follows from it.                                *)

LEMMA NextIInv == IInv /\ [Next]_vars => IInv'
BY ClientTypeStep, LoaderTypeStep, PipelineTypeStep, StagesStep, PostingStep, BoundedStep,
   WindowsStep, LastCopyStep, PrefetchStep, CallStep, SessionStep, CurrentStep, ReleasedStep,
   CrashStep
DEF IInv, TypeOK

LEMMA Inductive == Spec => []IInv
BY InitIInv, NextIInv, PTL DEF Spec

\* Types are kept: in particular no cursor runs past the last chunk, and every
\* index the client asks for and the loader serves is a tensor's.
THEOREM TypeCorrect == Spec => []TypeOK
<1>1. IInv => TypeOK
  BY DEF IInv
<1> QED
  BY <1>1, Inductive, PTL

\* In every state of the invariant a held tensor is intact.
LEMMA IntactFromInv == IInv => HeldTensorIntact
<1> SUFFICES ASSUME IInv, held # NoTensor, NEW x \in TensorSlots[held]
             PROVE  /\ mem[x] \in FirstChunk[held] .. LastChunk[held]
                    /\ \A c \in InFlight : x \notin ChunkSlots[c]
  BY DEF HeldTensorIntact
<1>0. /\ StagesInOrder /\ PostingProgress /\ WithinPrefetch /\ LastCopyWins
      /\ CurrentTensor /\ SessionPhase /\ PipelineTypeOK /\ ClientTypeOK
  BY DEF IInv, TypeOK
<1>1. /\ held \in Tensors /\ current_tensor_index = held /\ TensorRead /\ opened
  BY <1>0, SessionTypes, SizesAssumption
  DEF ClientTypeOK, CurrentTensor, SessionPhase, Tensors, NoTensor
<1>2. /\ x \in Slots
      /\ FirstChunk[held] \in Nat /\ LastChunk[held] \in Nat /\ PrefetchChunk[held] \in Nat
      /\ \A c \in LastChunk[held] + 1 .. PrefetchChunk[held] : x \notin ChunkSlots[c]
  BY <1>1, LayoutAssumption, SizesAssumption DEF Contract, Chunks
<1>3. LastChunk[held] <= dev_done /\ cuda_submitted <= PrefetchChunk[held] /\ dev_done <= cuda_submitted
  BY <1>0, <1>1, <1>2, CursorsAreInt DEF TensorRead, StagesInOrder, PostingProgress, WithinPrefetch
<1>4. \A c \in InFlight : x \notin ChunkSlots[c]
  BY <1>0, <1>2, <1>3, CursorsAreInt DEF InFlight
<1>5. PICK c \in FirstChunk[held] .. LastChunk[held] : x \in ChunkSlots[c]
  BY <1>1, LayoutAssumption DEF Contract
<1>6. mem[x] \in Int /\ c <= mem[x] /\ mem[x] <= dev_done /\ x \in ChunkSlots[mem[x]]
  <2>1. mem[x] \in Int
    BY <1>0, <1>2, CursorRange, SizesAssumption DEF PipelineTypeOK
  <2>2. c \in 0 .. dev_done
    BY <1>0, <1>2, <1>3, <1>5, CursorsAreInt
  <2> QED
    BY <1>0, <1>2, <1>5, <2>1, <2>2 DEF LastCopyWins, NoChunk
<1>7. mem[x] \notin LastChunk[held] + 1 .. PrefetchChunk[held]
  BY <1>2, <1>6
<1> QED
  BY <1>0, <1>2, <1>3, <1>4, <1>5, <1>6, <1>7, CursorsAreInt

\* The tensor the caller holds is complete and is not being overwritten while
\* the loader prefetches: what get_tensor_ptr and prefetch_chunk_id promise.
THEOREM HeldTensorStaysIntact == Spec => []HeldTensorIntact
BY IntactFromInv, Inductive, PTL

\* Two chunks in flight never share a host window, whatever io_depth and the
\* queue capacity are.
THEOREM WindowsStayExclusive == Spec => []WindowExclusive
<1>1. IInv => WindowExclusive
  <2> SUFFICES ASSUME IInv, NEW c \in InFlight, NEW d \in InFlight, c # d
               PROVE  WindowOf(c) # WindowOf(d)
    BY DEF WindowExclusive
  <2>1. c \in chunk_read + 1 .. cuda_submitted /\ d \in chunk_read + 1 .. cuda_submitted
    BY CursorsAreInt DEF IInv, TypeOK, StagesInOrder, InFlight
  <2> QED
    BY <2>1, OutstandingApart
<1> QED
  BY <1>1, Inductive, PTL

\* What wait_func reports complete has been copied: the event it synchronizes
\* with is its own chunk's, not one recorded later in the same window.
THEOREM CompletionMeansCopied == Spec => []CompleteMeansCopied
<1>1. IInv => CompleteMeansCopied
  BY DEF IInv, StagesInOrder, CompleteMeansCopied
<1> QED
  BY <1>1, Inductive, PTL

\* No executor queue is ever full when its producer has to push.
THEOREM SubmitNeverStalls == Spec => []SubmitNeverBlocks
<1>1. IInv => SubmitNeverBlocks
  <2>1. Depth \in Int /\ Depth <= MaxPrefetchChunks /\ MaxPrefetchChunks \in Int
    BY SizesAssumption DEF Depth, Smaller
  <2> QED
    BY <2>1, CursorsAreInt
    DEF IInv, TypeOK, StagesInOrder, PostingProgress, BoundedOutstanding, SubmitNeverBlocks
<1> QED
  BY <1>1, Inductive, PTL

\* close() releases streams and buffers only when nothing is under way, even
\* when the context is left before the last tensor.
THEOREM FreedOnlyWhenQuiet == Spec => []FreedWhenQuiet
<1>1. IInv => FreedWhenQuiet
  BY CursorsAreInt DEF IInv, TypeOK, StagesInOrder, Released, FreedWhenQuiet, InFlight
<1> QED
  BY <1>1, Inductive, PTL

\* A session in which every tensor is asked for never ends in an exception.
THEOREM CompleteSessionNeverCrashes ==
  ASSUME ~EarlyExit
  PROVE  Spec => []NeverCrashes
<1>1. IInv => NeverCrashes
  BY DEF IInv, CrashOnlyAfterEarlyExit, NeverCrashes
<1> QED
  BY <1>1, Inductive, PTL
=============================================================================
