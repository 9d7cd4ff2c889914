------------------------------ MODULE LoaderInv ------------------------------
(***************************************************************************)
(* The inductive invariant of Loader, as named parts.  Each part says what *)
(* one group of actions maintains; LoaderProofs proves that together they  *)
(* are inductive and imply the properties stated in Loader.                *)
(***************************************************************************)
EXTENDS Loader

\* What post_read_chunk leaves outstanding at most.
Depth == Smaller(MaxPrefetchChunks, IoDepth)

Posting == {"window", "issue", "complete"}

\* Each stage of the pipeline is at most as far as the one before it.
StagesInOrder ==
  /\ chunk_read <= wait_done
  /\ wait_done <= dev_done
  /\ wait_done <= wait_reaped /\ wait_reaped <= wait_done + 1
  /\ wait_reaped <= cuda_done
  /\ wait_reaped <= wait_submitted
  /\ dev_done <= cuda_done
  /\ cuda_done <= cuda_submitted
  /\ wait_done <= wait_submitted
  /\ \A c \in 0 .. cuda_done : c \in reads
  /\ \A c \in reads : c <= cuda_submitted

\* Where the thread is inside post_read_chunk tells what it has handed over.
PostingProgress ==
  /\ pc \in {"window", "issue"} =>
       cuda_submitted = chunk_reading - 1 /\ wait_submitted = chunk_reading - 1
  /\ pc = "complete" =>
       cuda_submitted = chunk_reading /\ wait_submitted = chunk_reading - 1
  /\ pc \notin Posting \cup {"crashed"} =>
       cuda_submitted = chunk_reading /\ wait_submitted = chunk_reading
  /\ cuda_submitted <= chunk_reading
  /\ wait_submitted <= cuda_submitted

\* At most Depth chunks are posted and not yet known complete.
BoundedOutstanding ==
  /\ cuda_submitted - chunk_read <= Depth
  /\ pc = "issue" => chunk_reading - chunk_read <= Depth

\* A window keeps a chunk's data until it is copied, an event its record
\* until the chunk is reaped.
WindowsKept ==
  /\ \A c \in reads : c > dev_done => window[WindowOf(c)] = c
  /\ \A c \in chunk_read + 1 .. cuda_done : event[WindowOf(c)] = c

\* Each device slot holds the last chunk copied to it.
LastCopyWins ==
  \A x \in Slots :
    /\ \A c \in 0 .. dev_done : x \in ChunkSlots[c] => c <= mem[x]
    /\ mem[x] <= dev_done
    /\ mem[x] # NoChunk => x \in ChunkSlots[mem[x]]

\* Nothing is posted beyond the bound of the current tensor.
WithinPrefetch ==
  /\ opened => chunk_reading <= PrefetchChunk[current_tensor_index]
  /\ ~opened => chunk_reading = NoChunk /\ pc \in {"top", "receive"}
  /\ pc \in Posting => chunk_reading \in Chunks

\* The loader thread is working on a request it has not answered.
Serving ==
  \/ pc \in {"wait_step", "wait_read", "join_cuda", "join_wait", "reply"}
  \/ pc \in Posting \cup {"poll"} /\ after = "wait_step"

Sent(op, t) ==
  /\ input_queue = <<[id |-> latest_req_id, op |-> op, tensor |-> t]>>
  /\ output_queue = <<>>
  /\ ~Serving

InService ==
  /\ input_queue = <<>>
  /\ output_queue = <<>>
  /\ Serving
  /\ request = latest_req_id

Answered ==
  /\ input_queue = <<>>
  /\ output_queue = <<latest_req_id>>
  /\ ~Serving

\* A call is in exactly one place: in the input queue, being served, or in the
\* output queue; and it has had its effect once it is answered.
CallInOnePlace ==
  /\ client \in {"new", "idle", "closed"} =>
       input_queue = <<>> /\ output_queue = <<>> /\ ~Serving
  /\ client = "opening" =>
       \/ Sent("OPEN", NoTensor) /\ ~opened
       \/ InService /\ opened /\ pc = "reply"
       \/ Answered /\ opened
  /\ client = "getting" =>
       /\ next_tensor < NumTensors
       /\ \/ Sent("GET_TENSOR_PTR", next_tensor)
          \/ /\ InService
             /\ current_tensor_index = next_tensor
             /\ pc \notin {"join_cuda", "join_wait"}
             /\ pc = "reply" => TensorRead
          \/ Answered /\ current_tensor_index = next_tensor /\ TensorRead
  /\ client = "closing" =>
       \/ Sent("CLOSE", NoTensor) /\ ~stop
       \/ InService /\ pc \in {"join_cuda", "join_wait", "reply"} /\ stop
       \/ Answered /\ stop

\* How far the session has come.
SessionPhase ==
  /\ client = "new" => ~opened
  /\ client \in {"idle", "getting", "closing", "closed"} => opened
  /\ stop => client \in {"closing", "closed"}
  /\ joined => stop
  /\ pc = "exited" => stop
  /\ client = "closed" => stop
  /\ client \in {"closing", "closed"} => EarlyExit \/ next_tensor = NumTensors
  /\ client \in {"new", "opening"} => next_tensor = 0

\* The loader's current tensor is the last one the caller asked for, and it
\* has been read unless the call is still being served.
CurrentTensor ==
  /\ next_tensor = 0 /\ client # "getting" => current_tensor_index = 0
  /\ next_tensor > 0 /\ client # "getting" =>
       current_tensor_index = next_tensor - 1 /\ TensorRead
  /\ client = "getting" => current_tensor_index <= next_tensor
  /\ held # NoTensor => client = "idle" /\ next_tensor = held + 1

\* close() has waited for everything that was submitted.
Released ==
  joined => wait_done = wait_submitted /\ wait_submitted = cuda_submitted

\* Only a context left early can end the process.
CrashOnlyAfterEarlyExit ==
  ~EarlyExit => pc # "crashed" /\ ~(joined /\ pc \in Posting)

IInv ==
  /\ TypeOK
  /\ StagesInOrder
  /\ PostingProgress
  /\ BoundedOutstanding
  /\ WindowsKept
  /\ LastCopyWins
  /\ WithinPrefetch
  /\ CallInOnePlace
  /\ SessionPhase
  /\ CurrentTensor
  /\ Released
  /\ CrashOnlyAfterEarlyExit
==============================================================================
