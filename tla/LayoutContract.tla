--------------------------- MODULE LayoutContract ---------------------------
(***************************************************************************)
(* What the loader needs of the layout compute_layout produces, in terms   *)
(* of the tables of chunks and tensors it reads while it loads.  Loader    *)
(* takes a layout of this kind as a constant; LayoutProofs shows that the  *)
(* layouts of compute_layout are of this kind.                             *)
(***************************************************************************)
EXTENDS Integers

CONSTANTS
  NumChunks, NumTensors,
  FirstChunk, LastChunk,  \* per tensor: the chunks that carry its data
  PrefetchChunk,          \* per tensor: TensorMetadate::prefetch_chunk_id
  ChunkSlots,             \* per chunk: the device buffer slots it is copied to
  TensorSlots,            \* per tensor: the device buffer slots it is read from
  Slots                   \* the slots of the device buffer

Chunks == 0 .. NumChunks - 1
Tensors == 0 .. NumTensors - 1

\* types.hpp documents last_chunk_id as the "last chunk that holds the tensor's
\* data" and prefetch_chunk_id as "the furthest prefetchable chunk without
\* overwriting current tensor's data".
Contract ==
  /\ FirstChunk \in [Tensors -> Chunks]
  /\ LastChunk \in [Tensors -> Chunks]
  /\ PrefetchChunk \in [Tensors -> Chunks]
  /\ ChunkSlots \in [Chunks -> SUBSET Slots]
  /\ TensorSlots \in [Tensors -> SUBSET Slots]
  /\ \A t \in Tensors : /\ FirstChunk[t] <= LastChunk[t]
                        /\ LastChunk[t] <= PrefetchChunk[t]
  /\ \A t, u \in Tensors : t <= u => PrefetchChunk[t] <= PrefetchChunk[u]
  /\ \A t \in Tensors : \A x \in TensorSlots[t] :
       /\ \E c \in FirstChunk[t] .. LastChunk[t] : x \in ChunkSlots[c]
       /\ \A c \in LastChunk[t] + 1 .. PrefetchChunk[t] : x \notin ChunkSlots[c]
  /\ LastChunk[NumTensors - 1] = NumChunks - 1
=============================================================================
