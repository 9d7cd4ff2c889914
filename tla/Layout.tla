------------------------------- MODULE Layout -------------------------------
(***************************************************************************)
(* compute_layout (loader_common.cpp): the byte stream of the files is cut *)
(* into chunks, and the device buffer is filled from left to right; when a *)
(* tensor does not fit any more, filling starts again at the left and the  *)
(* tensors of the layer before are overwritten one after the other.        *)
(*                                                                         *)
(* The function's local variables are the fields of one record, its three  *)
(* lambdas and the parts of its loop are operators on that record.  Ids of *)
(* chunks, tensors and offsets start at 0 as in the code; Chunk, Tensor    *)
(* and Offset look them up in the sequences that hold them.                *)
(***************************************************************************)
EXTENDS Integers, Sequences

CONSTANTS
  Inputs,                \* the [offsets, buffer_size] open() may be called with
  ThreadAlignment,       \* PAGE_SIZE
  FirstTensorAlignment,
  NumThreads, WorldSize,
  ThreadChunkSize,       \* already rounded up by init_buffer
  IoDepth

\* The first offset of a file is where its data begin, after its header.
FirstOfFile(offsets, k) == k = 1 \/ offsets[k - 1].file # offsets[k].file

\* Data offsets are contiguous within a file, and a file has a tensor at least;
\* the buffer is no smaller than a tensor (_determine_buffer_size).
WellFormed(input) ==
  LET offsets == input.offsets
      n == Len(offsets)
  IN /\ offsets \in Seq([file : Nat, at : Nat])
     /\ n > 1
     /\ offsets[1].file = 0
     /\ \A k \in 1 .. n - 1 :
          \/ offsets[k + 1].file = offsets[k].file + 1
          \/ /\ offsets[k + 1].file = offsets[k].file
             /\ offsets[k + 1].at >= offsets[k].at
             /\ offsets[k + 1].at - offsets[k].at <= input.buffer_size
     /\ \A k \in 1 .. n :
          FirstOfFile(offsets, k) => k < n /\ offsets[k + 1].file = offsets[k].file
     /\ input.buffer_size \in Nat

ASSUME LayoutSizesAssumption ==
  /\ ThreadAlignment \in Nat \ {0}
  /\ FirstTensorAlignment \in Nat \ {0}
  /\ ThreadAlignment % FirstTensorAlignment = 0
  /\ NumThreads \in Nat \ {0}
  /\ WorldSize \in Nat \ {0}
  /\ ThreadChunkSize \in Nat \ {0}
  /\ ThreadChunkSize % ThreadAlignment = 0
  /\ IoDepth \in Nat \ {0}

ASSUME InputsAssumption == \A input \in Inputs : WellFormed(input)

RoundDown(x, y) == (x \div y) * y
RoundUp(x, y) == RoundDown(x + y - 1, y)
Larger(a, b) == IF a >= b THEN a ELSE b

WorldChunkAlignment == ThreadAlignment * NumThreads * WorldSize
WorldChunkSize == ThreadChunkSize * NumThreads * WorldSize

\* Mutant: no allowance for padding.
BufferUnpadded(requested) == Larger(requested, IoDepth * WorldChunkSize)

\* init_buffer: room for io_depth chunks, and for three times the padding.
BufferSize(requested) ==
  Larger(requested, IoDepth * WorldChunkSize)
    + 3 * (FirstTensorAlignment + ThreadAlignment + WorldChunkAlignment)
-----------------------------------------------------------------------------
Chunk(s, c) == s.chunks[c + 1]
Tensor(s, t) == s.tensors[t + 1]
Offset(s, i) == s.offsets[i + 1]
NumOffsets(s) == Len(s.offsets)
NextTensorId(s) == Len(s.tensors)

FailIf(bad, s) == [s EXCEPT !.failed = @ \/ bad]

\* The earliest tensor of the layer before whose address is not below end.
FirstNotBelow(s, end) ==
  CHOOSE u \in s.in_buffer .. s.left_most :
    /\ \A v \in s.in_buffer .. u - 1 : Tensor(s, v).device_buffer_offset < end
    /\ u = s.left_most \/ Tensor(s, u).device_buffer_offset >= end

\* Mutant: the new chunk is taken to reach no further than where it begins.
FirstKeptFromStart(s) ==
  FirstNotBelow(s, Chunk(s, Len(s.chunks) - 1).device_buffer_offset)

\* The earliest tensor of the layer before that the new chunk leaves alone.
FirstKept(s) == FirstNotBelow(s, s.device_offset)

\* Tensors in_buffer .. upto-1 leave the buffer: nothing after chunk_id may be
\* prefetched while one of them is in use.
Leave(s, upto, chunk_id) ==
  [s EXCEPT
     !.tensors = [k \in DOMAIN s.tensors |->
                    IF k - 1 \in s.in_buffer .. upto - 1
                      THEN [s.tensors[k] EXCEPT !.prefetch_chunk_id = chunk_id]
                      ELSE s.tensors[k]],
     !.in_buffer = upto]

\* Mutant: the chunk before the previous one is taken for the previous one.
PrevChunkIdEarly(s) == Len(s.chunks) - 3
PrevChunkId(s) == Len(s.chunks) - 2

\* Mutant: the last, partial page is not read again.
RereadNothing(size) == 0
Reread(size) == size % ThreadAlignment

\* finish_chunk: emit the chunk; what follows re-reads its last, partial page.
FinishChunk(s) ==
  IF s.current_size = 0
    THEN s
    ELSE LET chunk == [size |-> s.current_size, file |-> s.file,
                       file_offset |-> s.file_offset,
                       device_buffer_offset |-> s.device_offset]
             emitted == [s EXCEPT
                           !.chunks = Append(@, chunk),
                           !.file_offset = @ + RoundDown(s.current_size, ThreadAlignment),
                           !.device_offset = @ + RoundUp(s.current_size, WorldChunkAlignment),
                           !.current_size = Reread(@)]
         IN FailIf(s.file_offset % ThreadAlignment # 0,
                   Leave(emitted, FirstKept(emitted), PrevChunkId(emitted)))

\* Mutant: the device offset ignores the bytes before the first tensor.
AlignedStartNoResidue(base, residue) == base + FirstTensorAlignment

\* Where a chunk begins so that the first tensor in it is aligned.
AlignedStart(base, residue) ==
  base + FirstTensorAlignment - (residue % FirstTensorAlignment)

\* reset_chunk_buffer_offset: a new layer begins at the left end of the buffer.
ResetBufferOffset(s, new_left_most) ==
  LET left == Leave(s, s.left_most, Len(s.chunks) - 1)
  IN FailIf(s.current_size >= ThreadAlignment,
            [left EXCEPT !.device_offset = AlignedStart(0, s.current_size),
                         !.left_most = new_left_most])

\* reset_chunk_file: go on with the next file, from the page its data begin on.
ResetFile(s, file, at) ==
  LET residue == at % ThreadAlignment
  IN FailIf(s.current_size >= ThreadAlignment,
            [s EXCEPT
               !.file = file,
               !.file_offset = RoundDown(at, ThreadAlignment),
               !.current_size = residue,
               !.device_offset =
                  AlignedStart(RoundUp(s.device_offset, FirstTensorAlignment), residue)])
-----------------------------------------------------------------------------
(* The loop over tensor_offsets.  A step covers an iteration, or one part  *)
(* of it: before, each iteration of, and after its inner while loop.       *)

Start(input) ==
  ResetFile([offsets |-> input.offsets, requested |-> input.buffer_size,
             buffer_size |-> BufferSize(input.buffer_size),
             chunks |-> <<>>, tensors |-> <<>>,
             file |-> 0, file_offset |-> 0, device_offset |-> 0, current_size |-> 0,
             in_buffer |-> 0, left_most |-> 0,
             i |-> 0, placed_at |-> 0, size_left |-> 0, pc |-> "next", failed |-> FALSE],
            input.offsets[1].file, input.offsets[1].at)

\* The loop has reached an offset that begins a tensor, ends a file, or ends all.
AtTensor(s) ==
  s.pc = "next" /\ s.i < NumOffsets(s) - 1 /\ Offset(s, s.i + 1).file = Offset(s, s.i).file
AtFileEnd(s) ==
  s.pc = "next" /\ s.i < NumOffsets(s) - 1 /\ Offset(s, s.i + 1).file # Offset(s, s.i).file
AtEnd(s) == s.pc = "next" /\ s.i = NumOffsets(s) - 1

\* The last offset of a file: finish its chunk and turn to the next file.
NextFile(s) ==
  LET next == Offset(s, s.i + 1)
  IN [ResetFile(FinishChunk(s), next.file, next.at) EXCEPT !.i = @ + 1]

TensorSize(s) == Offset(s, s.i + 1).at - Offset(s, s.i).at

\* Mutant: the part of the tensor's chunk that is already there is not counted.
FitsWithoutResidue(s) ==
  s.device_offset + RoundUp(TensorSize(s), WorldChunkAlignment) <= s.buffer_size
Fits(s) ==
  s.device_offset + RoundUp(s.current_size + TensorSize(s), WorldChunkAlignment)
    <= s.buffer_size

\* Decide where the tensor goes, at the left end if it does not fit.
PlaceTensor(s) ==
  LET size == TensorSize(s)
      checked == FailIf(\/ s.current_size # Offset(s, s.i).at - s.file_offset
                        \/ size > s.buffer_size, s)
      fitted == IF Fits(s) THEN checked
                           ELSE ResetBufferOffset(FinishChunk(checked), NextTensorId(s))
  IN [fitted EXCEPT
        !.placed_at = Offset(s, s.i).at - fitted.file_offset + fitted.device_offset,
        !.size_left = size,
        !.pc = "split"]

Overflows(s) == s.current_size + s.size_left > WorldChunkSize

\* One iteration of the inner loop: fill the current chunk and finish it.
SplitChunk(s) ==
  FinishChunk([s EXCEPT !.size_left = @ - (WorldChunkSize - s.current_size),
                        !.current_size = WorldChunkSize])

\* Mutant: the tensor is recorded with the chunk before its last one.
LastChunkIdEarly(s) == Len(s.chunks) - 1
LastChunkId(s) == Len(s.chunks)

\* The rest of the tensor goes to the current chunk, and the tensor is recorded.
RecordTensor(s) ==
  [s EXCEPT
     !.current_size = @ + s.size_left,
     !.size_left = 0,
     !.tensors = Append(@, [size |-> TensorSize(s), file |-> Offset(s, s.i).file,
                            file_offset |-> Offset(s, s.i).at,
                            device_buffer_offset |-> s.placed_at,
                            last_chunk_id |-> LastChunkId(s),
                            prefetch_chunk_id |-> 0]),
     !.i = @ + 1,
     !.pc = "next"]

\* After the loop: the last chunk, and the tensors still in the buffer.
Finish(s) ==
  LET n == NextTensorId(s)
  IN [ResetBufferOffset(ResetBufferOffset(FinishChunk(s), n), n) EXCEPT !.pc = "done"]

Step(s) ==
  CASE AtTensor(s)                        -> PlaceTensor(s)
    [] AtFileEnd(s)                       -> NextFile(s)
    [] AtEnd(s)                           -> Finish(s)
    [] s.pc = "split" /\ Overflows(s)     -> SplitChunk(s)
    [] s.pc = "split" /\ ~Overflows(s)    -> RecordTensor(s)
    [] OTHER                              -> s

\* The layout of an input, after enough steps to reach the end.
ComputeLayout(input, steps) ==
  LET after[n \in 0 .. steps] == IF n = 0 THEN Start(input) ELSE Step(after[n - 1])
  IN after[steps]
-----------------------------------------------------------------------------
\* The device bytes set aside for a chunk.
Reserved(s, c) ==
  LET k == Chunk(s, c)
  IN k.device_buffer_offset ..
       k.device_buffer_offset + RoundUp(k.size, WorldChunkAlignment) - 1

\* The device bytes before the first chunk of a file that align its first tensor.
Padding(s, c) ==
  IF c > 0 /\ Chunk(s, c - 1).file # Chunk(s, c).file
    THEN LET before == Chunk(s, c - 1)
         IN before.device_buffer_offset + RoundUp(before.size, WorldChunkAlignment)
              .. Chunk(s, c).device_buffer_offset - 1
    ELSE {}

\* The device bytes a chunk is copied to: AllGather copies the padding as well.
Written(s, c) ==
  LET k == Chunk(s, c)
  IN IF WorldSize > 1 THEN Reserved(s, c)
       ELSE k.device_buffer_offset .. k.device_buffer_offset + k.size - 1

Region(s, t) ==
  LET m == Tensor(s, t)
  IN m.device_buffer_offset .. m.device_buffer_offset + m.size - 1

\* Chunk c puts the byte of tensor t that belongs at device byte x there.
Carries(s, c, t, x) ==
  LET k == Chunk(s, c)
      m == Tensor(s, t)
      at == m.file_offset + (x - m.device_buffer_offset)
  IN /\ k.file = m.file
     /\ at \in k.file_offset .. k.file_offset + k.size - 1
     /\ k.device_buffer_offset + (at - k.file_offset) = x
=============================================================================
