---------------------------- MODULE LayoutSteps ----------------------------
(***************************************************************************)
(* compute_layout as a state machine, one part of its loop at a time, and  *)
(* what the loader and the caller rely on the result for.                  *)
(***************************************************************************)
EXTENDS Layout, FiniteSetsExt

VARIABLE layout

Init == layout \in {Start(input) : input \in Inputs}

\* A check that fails throws, and nothing follows.
Do(guard, result) == guard /\ ~layout.failed /\ layout' = result

Place  == Do(AtTensor(layout), PlaceTensor(layout))
Turn   == Do(AtFileEnd(layout), NextFile(layout))
Split  == Do(layout.pc = "split" /\ Overflows(layout), SplitChunk(layout))
Record == Do(layout.pc = "split" /\ ~Overflows(layout), RecordTensor(layout))
End    == Do(AtEnd(layout), Finish(layout))

Done == layout.pc = "done" /\ UNCHANGED layout

Next == Place \/ Turn \/ Split \/ Record \/ End \/ Done

Spec == Init /\ [][Next]_layout
-----------------------------------------------------------------------------
(* What the loader and the caller rely on.                                 *)

Complete == layout.pc = "done"
ChunkIds == 0 .. Len(layout.chunks) - 1
TensorIds == 0 .. Len(layout.tensors) - 1

\* The internal checks of compute_layout never fail: at the end of a layer or a
\* file less than a page is left over, and chunks begin on pages.
NoInternalError == ~layout.failed

\* While a tensor is in use, with any number of chunks loaded from its
\* last_chunk_id up to its prefetch_chunk_id, each byte of its region holds the
\* byte of the file that belongs there: the newest chunk written to it is at
\* most last_chunk_id and carries it.
PrefetchKeepsTensor ==
  Complete =>
    \A t \in TensorIds : \A x \in Region(layout, t) :
      LET m == Tensor(layout, t)
      IN \E c \in 0 .. m.last_chunk_id :
           /\ c \in ChunkIds
           /\ Carries(layout, c, t, x)
           /\ \A d \in c + 1 .. m.prefetch_chunk_id : x \notin Written(layout, d)

\* Loading a tensor that has data never runs into the bound of the tensor
\* itself, and bounds never go back: can_step relies on both.  The last tensor
\* ends with the last chunk, so nothing is left to load after it.
PrefetchReaches ==
  Complete =>
    \A t \in TensorIds :
      LET m == Tensor(layout, t)
      IN /\ m.size > 0 => m.last_chunk_id \in ChunkIds /\ m.last_chunk_id <= m.prefetch_chunk_id
         /\ m.prefetch_chunk_id < Len(layout.chunks)
         /\ t + 1 \in TensorIds =>
              m.prefetch_chunk_id <= Tensor(layout, t + 1).prefetch_chunk_id
         /\ t + 1 \notin TensorIds /\ m.size > 0 => m.last_chunk_id = Len(layout.chunks) - 1

\* No tensor leaves the device buffer, and neither does a chunk that carries one.
TensorsInBuffer ==
  Complete =>
    \A t \in TensorIds : \A x \in Region(layout, t) : \A c \in ChunkIds :
      Carries(layout, c, t, x) => Written(layout, c) \subseteq 0 .. layout.buffer_size - 1

\* Every tensor is aligned to its dtype: the first of a file or of a layer is
\* aligned to first_tensor_alignment, the others follow the one before them.
TensorsAligned ==
  \A t \in TensorIds :
    LET m == Tensor(layout, t)
    IN \/ m.device_buffer_offset % FirstTensorAlignment = 0
       \/ /\ t > 0
          /\ Tensor(layout, t - 1).file = m.file
          /\ m.device_buffer_offset =
               Tensor(layout, t - 1).device_buffer_offset + Tensor(layout, t - 1).size

\* init_buffer: the three paddings it adds are all the padding there is, so no
\* chunk leaves the device buffer.
ChunksInBuffer ==
  \A c \in ChunkIds : Written(layout, c) \subseteq 0 .. layout.buffer_size - 1

\* types.hpp: last_chunk_id is the "last chunk that holds the tensor's data" and
\* prefetch_chunk_id "the furthest prefetchable chunk", so the one is not after
\* the other.
LastChunkReachable ==
  Complete =>
    \A t \in TensorIds :
      Tensor(layout, t).last_chunk_id <= Tensor(layout, t).prefetch_chunk_id

NoEmptyTensor(s) == \A t \in 0 .. NextTensorId(s) - 1 : Tensor(s, t).size > 0

\* types.hpp: prefetch_chunk_id is "the furthest prefetchable chunk": with one
\* chunk more, this tensor or one read after it, already complete in the buffer,
\* loses bytes to it.  A small tensor may lie in the padding before a file's first
\* chunk and lose none; finish_chunk looks at where a chunk ends only, and lets it
\* block the chunk all the same.  An empty tensor has nothing to lose.
PrefetchFurthest ==
  Complete /\ NoEmptyTensor(layout) =>
    \A t \in TensorIds :
      LET next == Tensor(layout, t).prefetch_chunk_id + 1
      IN next \in ChunkIds =>
           \E u \in TensorIds :
             /\ u >= t /\ Tensor(layout, u).last_chunk_id < next
             /\ Region(layout, u) \cap (Reserved(layout, next) \cup Padding(layout, next)) # {}

\* The chunks that carry a byte of tensor t, and the first of them.
CarryingChunks(t) == {c \in ChunkIds : \E x \in Region(layout, t) : Carries(layout, c, t, x)}
FirstChunkOf(t) ==
  IF CarryingChunks(t) = {} THEN Tensor(layout, t).last_chunk_id ELSE Min(CarryingChunks(t))

Computed == INSTANCE LayoutContract WITH
  NumChunks <- Len(layout.chunks),
  NumTensors <- Len(layout.tensors),
  FirstChunk <- [t \in TensorIds |-> FirstChunkOf(t)],
  LastChunk <- [t \in TensorIds |-> Tensor(layout, t).last_chunk_id],
  PrefetchChunk <- [t \in TensorIds |-> Tensor(layout, t).prefetch_chunk_id],
  ChunkSlots <- [c \in ChunkIds |-> Written(layout, c)],
  TensorSlots <- [t \in TensorIds |-> Region(layout, t)],
  Slots <- Nat

\* What Loader assumes of its layout holds of the one compute_layout ends with,
\* unless it has an empty tensor that LastChunkReachable speaks of.
MeetsContract ==
  Complete /\ LastChunkReachable =>
    /\ Len(layout.chunks) > 0 /\ Len(layout.tensors) > 0
    /\ Computed!Contract

\* README: keeping tensors may "silently corrupt data when buffer_size <
\* total_tensor_size", and only then: when all tensors fit, none is placed over
\* another.
AllStayIfTheyFit ==
  Complete /\ MapThenSumSet(LAMBDA t : Tensor(layout, t).size, TensorIds) <= layout.requested =>
    \A t, u \in TensorIds : t # u => Region(layout, t) \cap Region(layout, u) = {}
=============================================================================
