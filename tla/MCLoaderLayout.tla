--------------------------- MODULE MCLoaderLayout ---------------------------
(***************************************************************************)
(* Loader running on a layout compute_layout produces, byte by byte: five  *)
(* tensors in two files, the second of which begins in the middle of a     *)
(* page, and a buffer of 54 bytes that they do not fit into.  Chunk 5 holds *)
(* nothing but the end of the second file's header.  The tables below      *)
(* spell the layout out; LayoutIsComputed checks them against Layout.      *)
(***************************************************************************)
EXTENDS Loader

CONSTANTS
  Inputs, ThreadAlignment, FirstTensorAlignment, NumThreads, WorldSize, ThreadChunkSize

L == INSTANCE Layout

TwoFiles ==
  [offsets |-> <<[file |-> 0, at |-> 5], [file |-> 0, at |-> 13], [file |-> 0, at |-> 27],
                 [file |-> 0, at |-> 38], [file |-> 1, at |-> 7], [file |-> 1, at |-> 31],
                 [file |-> 1, at |-> 36]>>,
   buffer_size |-> 24]

OneInput == {TwoFiles}

\* Per chunk and per tensor: where it is in the device buffer, and its size.
ChunkPlaces == << <<1, 8>>, <<9, 8>>, <<17, 8>>, <<25, 8>>, <<33, 2>>, <<39, 3>>,
                  <<1, 8>>, <<9, 8>>, <<17, 8>>, <<25, 8>> >>
TensorPlaces == << <<2, 8>>, <<10, 14>>, <<24, 11>>, <<4, 24>>, <<28, 5>> >>

BytesOf(place) == place[1] .. place[1] + place[2] - 1

TableChunkSlots == [c \in Chunks |-> BytesOf(ChunkPlaces[c + 1])]
TableTensorSlots == [t \in Tensors |-> BytesOf(TensorPlaces[t + 1])]
TableFirst == [t \in Tensors |-> <<0, 1, 2, 6, 9>>[t + 1]]
TableLast == [t \in Tensors |-> <<1, 2, 4, 9, 9>>[t + 1]]
TablePrefetch == [t \in Tensors |-> <<5, 6, 7, 9, 9>>[t + 1]]
TableSlots == 0 .. 53

ASSUME LayoutIsComputed ==
  LET s == L!ComputeLayout(TwoFiles, 40)
  IN /\ s.pc = "done" /\ ~s.failed
     /\ Len(s.chunks) = NumChunks /\ Len(s.tensors) = NumTensors
     /\ s.buffer_size = Cardinality(Slots)
     /\ \A c \in Chunks : ChunkSlots[c] = L!Written(s, c)
     /\ \A t \in Tensors :
          /\ TensorSlots[t] = L!Region(s, t)
          /\ LastChunk[t] = L!Tensor(s, t).last_chunk_id
          /\ PrefetchChunk[t] = L!Tensor(s, t).prefetch_chunk_id
          /\ L!Carries(s, FirstChunk[t], t, L!Tensor(s, t).device_buffer_offset)
=============================================================================
