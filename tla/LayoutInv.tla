----------------------------- MODULE LayoutInv -----------------------------
(***************************************************************************)
(* The inductive invariant of LayoutSteps, in parts.  Chunks are emitted   *)
(* from left to right within a layer; a byte of a tensor of the current    *)
(* layer has either been emitted or is pending in the chunk being filled,  *)
(* the bytes of the layer before are emitted and not written over since,   *)
(* and those of tensors that have left the buffer were not written over    *)
(* until the chunk they left with.                                         *)
(***************************************************************************)
EXTENDS LayoutSteps

OffsetRecord == [file : Nat, at : Nat]
ChunkRecord ==
  [size : Nat \ {0}, file : Nat, file_offset : Nat, device_buffer_offset : Nat]
TensorRecord ==
  [size : Nat, file : Nat, file_offset : Nat, device_buffer_offset : Nat,
   last_chunk_id : Nat, prefetch_chunk_id : Int]

LayoutRecord ==
  [offsets : Seq(OffsetRecord), requested : Nat, buffer_size : Nat,
   chunks : Seq(ChunkRecord), tensors : Seq(TensorRecord),
   file : Nat, file_offset : Nat, device_offset : Nat, current_size : Nat,
   in_buffer : Nat, left_most : Nat,
   i : Nat, placed_at : Nat, size_left : Nat,
   pc : {"next", "split", "done"}, failed : BOOLEAN]

\* The arguments are those of the call, throughout.
FromInput(s) ==
  /\ WellFormed([offsets |-> s.offsets, buffer_size |-> s.requested])
  /\ s.buffer_size = BufferSize(s.requested)
-----------------------------------------------------------------------------
(* Where the loop is in the files.                                         *)

Cursor(s) ==
  /\ s.file_offset % ThreadAlignment = 0
  /\ s.current_size <= WorldChunkSize
  /\ s.in_buffer <= s.left_most
  /\ s.left_most <= NextTensorId(s)

\* Between two tensors the chunk being filled ends where the next one begins.
BetweenTensors(s) ==
  /\ s.i < NumOffsets(s)
  /\ s.file = Offset(s, s.i).file
  /\ s.file_offset + s.current_size = Offset(s, s.i).at

WithinTensor(s) ==
  /\ s.i < NumOffsets(s) - 1
  /\ s.file = Offset(s, s.i).file
  /\ s.file = Offset(s, s.i + 1).file
  /\ s.file_offset + s.current_size + s.size_left = Offset(s, s.i + 1).at
  /\ s.file_offset + s.current_size >= Offset(s, s.i).at
  /\ s.placed_at + s.file_offset = s.device_offset + Offset(s, s.i).at
  /\ s.size_left > 0 \/ TensorSize(s) = 0

Position(s) ==
  /\ s.pc = "next" => BetweenTensors(s)
  /\ s.pc = "split" => WithinTensor(s)

\* Where the next tensor goes, or the current one went.
Address(s) == IF s.pc = "split" THEN s.placed_at ELSE s.device_offset + s.current_size
-----------------------------------------------------------------------------
(* Where each byte of a tensor is.  Byte x of the device buffer is the one *)
(* for byte "at" of the current file.                                      *)

\* No chunk after c and up to d is copied over x.
Untouched(s, c, d, x) ==
  \A e \in 0 .. Len(s.chunks) - 1 : c < e /\ e <= d => x \notin Reserved(s, e)

CarriesByte(s, c, file, at, x) ==
  LET k == Chunk(s, c)
  IN /\ k.file = file
     /\ at \in k.file_offset .. k.file_offset + k.size - 1
     /\ k.device_buffer_offset + (at - k.file_offset) = x

\* A chunk up to last carries the byte, and none up to d is copied over it.
Emitted(s, file, at, x, last, d) ==
  \E c \in 0 .. Len(s.chunks) - 1 :
    c <= last /\ CarriesByte(s, c, file, at, x) /\ Untouched(s, c, d, x)

\* The chunk being filled will carry the byte.
Pending(s, file, at, x) ==
  /\ file = s.file
  /\ s.file_offset <= at /\ at < s.file_offset + s.current_size
  /\ x = s.device_offset + (at - s.file_offset)

\* The byte of the file that belongs at byte x of tensor t.
AtOf(s, t, x) == Tensor(s, t).file_offset + (x - Tensor(s, t).device_buffer_offset)

EmittedOf(s, t, x, d) ==
  Emitted(s, Tensor(s, t).file, AtOf(s, t, x), x, Tensor(s, t).last_chunk_id, d)

Latest(s) == Len(s.chunks) - 1

\* Tensors that have left the buffer: final.
Left(s) ==
  \A t \in 0 .. s.in_buffer - 1 :
    LET m == Tensor(s, t)
    IN /\ m.prefetch_chunk_id <= Latest(s)
       /\ m.size > 0 => m.last_chunk_id <= m.prefetch_chunk_id
       /\ \A x \in Region(s, t) : EmittedOf(s, t, x, m.prefetch_chunk_id)
       /\ \A u \in 0 .. t : Tensor(s, u).prefetch_chunk_id <= m.prefetch_chunk_id

\* Tensors of the layer before that are still in the buffer.
LayerBefore(s) ==
  \A t \in s.in_buffer .. s.left_most - 1 :
    /\ Tensor(s, t).size > 0 => Tensor(s, t).last_chunk_id <= Latest(s)
    /\ \A x \in Region(s, t) : EmittedOf(s, t, x, Latest(s))
    /\ \A u \in t .. s.left_most - 1 :
         Tensor(s, t).device_buffer_offset <= Tensor(s, u).device_buffer_offset

\* Tensors of the current layer.
CurrentLayer(s) ==
  \A t \in s.left_most .. NextTensorId(s) - 1 :
    LET m == Tensor(s, t)
    IN /\ m.last_chunk_id <= Len(s.chunks)
       /\ m.size > 0 /\ m.last_chunk_id = Len(s.chunks) => s.current_size > 0
       /\ m.device_buffer_offset <= Address(s)
       /\ \A x \in Region(s, t) :
            \/ x < s.device_offset /\ EmittedOf(s, t, x, Latest(s))
            \/ m.last_chunk_id = Len(s.chunks) /\ Pending(s, m.file, AtOf(s, t, x), x)
       /\ \A u \in t .. NextTensorId(s) - 1 :
            m.device_buffer_offset <= Tensor(s, u).device_buffer_offset

\* The part of the current tensor that is already in a chunk.
BeingPlaced(s) ==
  \A at \in Offset(s, s.i).at .. s.file_offset + s.current_size - 1 :
    LET x == s.placed_at + (at - Offset(s, s.i).at)
    IN \/ x < s.device_offset /\ Emitted(s, s.file, at, x, Latest(s), Latest(s))
       \/ Pending(s, s.file, at, x)

\* After finish_chunk: nothing is pending.
Settled(s) ==
  /\ s.current_size < ThreadAlignment
  /\ \A t \in s.left_most .. NextTensorId(s) - 1 :
       LET m == Tensor(s, t)
       IN /\ m.size > 0 => m.last_chunk_id <= Latest(s)
          /\ m.device_buffer_offset <= s.device_offset
          /\ \A x \in Region(s, t) : x < s.device_offset /\ EmittedOf(s, t, x, Latest(s))
-----------------------------------------------------------------------------
(* The device buffer is never left by a chunk with tensors in it.          *)

ChunkInBuffer(s, c) ==
  Chunk(s, c).device_buffer_offset + RoundUp(Chunk(s, c).size, WorldChunkAlignment)
    <= s.buffer_size

ChunkEnd(s, c) == Chunk(s, c).file_offset + Chunk(s, c).size

\* The other chunks only hold the end of a file's header.
HeaderOnly(s, c) ==
  /\ \A t \in 0 .. NextTensorId(s) - 1 :
       Tensor(s, t).file = Chunk(s, c).file => Tensor(s, t).file_offset >= ChunkEnd(s, c)
  /\ s.pc # "done" /\ Chunk(s, c).file = s.file => ChunkEnd(s, c) <= Offset(s, s.i).at

InBufferOrHeader(s) ==
  \A c \in 0 .. Len(s.chunks) - 1 :
    Chunk(s, c).file <= s.file /\ (ChunkInBuffer(s, c) \/ HeaderOnly(s, c))

FilesSoFar(s) == \A t \in 0 .. NextTensorId(s) - 1 : Tensor(s, t).file <= s.file

\* The chunk being filled fits, or belongs to a file without a tensor so far.
PendingFits(s) ==
  \/ s.device_offset + RoundUp(s.current_size, WorldChunkAlignment) <= s.buffer_size
  \/ \A t \in 0 .. NextTensorId(s) - 1 : Tensor(s, t).file # s.file

\* The current tensor fits as a whole.
SplitFits(s) ==
  s.device_offset + RoundUp(s.current_size + s.size_left, WorldChunkAlignment) <= s.buffer_size

\* The tensor just recorded ends in the chunk being filled.
JustRecorded(s) ==
  s.i > 0 /\ Offset(s, s.i - 1).file = Offset(s, s.i).file =>
    /\ NextTensorId(s) > 0
    /\ Tensor(s, NextTensorId(s) - 1).last_chunk_id = Len(s.chunks)
    /\ Tensor(s, NextTensorId(s) - 1).size > 0 => s.current_size > 0

\* All tensors have left, the last one with the last chunk or, empty, after it.
AllLeft(s) ==
  LET n == NextTensorId(s)
  IN s.in_buffer = n /\ n > 0 /\ Tensor(s, n - 1).last_chunk_id >= Latest(s)
-----------------------------------------------------------------------------
(* Addresses.                                                              *)

AlignedTensor(s, t) ==
  LET m == Tensor(s, t)
  IN \/ m.device_buffer_offset % FirstTensorAlignment = 0
     \/ /\ t > 0
        /\ Tensor(s, t - 1).file = m.file
        /\ m.device_buffer_offset =
             Tensor(s, t - 1).device_buffer_offset + Tensor(s, t - 1).size

AddressAligned(s) ==
  \/ Address(s) % FirstTensorAlignment = 0
  \/ /\ NextTensorId(s) > 0
     /\ Tensor(s, NextTensorId(s) - 1).file = s.file
     /\ Address(s) = Tensor(s, NextTensorId(s) - 1).device_buffer_offset
                       + Tensor(s, NextTensorId(s) - 1).size

Aligned(s) == \A t \in 0 .. NextTensorId(s) - 1 : AlignedTensor(s, t)
-----------------------------------------------------------------------------
(* The bounds are no tighter than they need be.                            *)

\* By the time of chunk "next", tensor u is complete, and the chunk takes its first
\* byte: it does already, or it will, as the first chunk of a layer.
Blocks(s, next, u) ==
  LET m == Tensor(s, u)
  IN /\ m.last_chunk_id < next
     /\ IF next <= Latest(s)
          THEN m.device_buffer_offset \in Reserved(s, next) \cup Padding(s, next)
          ELSE \/ s.pc = "done"
               \/ /\ s.device_offset <= FirstTensorAlignment
                  /\ m.device_buffer_offset \in FirstTensorAlignment .. ThreadAlignment

Furthest(s) ==
  \A t \in 0 .. s.in_buffer - 1 :
    /\ Tensor(s, t).prefetch_chunk_id >= -1
    /\ \E u \in t .. NextTensorId(s) - 1 : Blocks(s, Tensor(s, t).prefetch_chunk_id + 1, u)

\* The chunk being filled has not passed a tensor of the layer before, except that
\* the first chunk of a file leaves padding behind it.
NotPassed(s) ==
  \A t \in s.in_buffer .. s.left_most - 1 :
    LET at == Tensor(s, t).device_buffer_offset
    IN \/ at >= s.device_offset
       \/ /\ Len(s.chunks) > 0
          /\ Chunk(s, Latest(s)).file # s.file
          /\ at >= Chunk(s, Latest(s)).device_buffer_offset
                     + RoundUp(Chunk(s, Latest(s)).size, WorldChunkAlignment)

\* The first tensor of a layer begins on the first page, after the alignment.
LayerBegins(s) ==
  /\ s.left_most < NextTensorId(s) =>
       Tensor(s, s.left_most).device_buffer_offset \in FirstTensorAlignment .. ThreadAlignment
  /\ s.pc # "done" => s.device_offset > 0

\* A layer without a tensor so far.
NewLayerBegins(s) ==
  s.left_most = NextTensorId(s) =>
    /\ s.pc = "next" => s.i = 0 /\ NextTensorId(s) = 0
    /\ s.pc # "done" => Address(s) \in FirstTensorAlignment .. ThreadAlignment

TightBounds(s) == NoEmptyTensor(s) => Furthest(s) /\ NotPassed(s)

Bounded(s) == TightBounds(s) /\ LayerBegins(s) /\ NewLayerBegins(s)
-----------------------------------------------------------------------------
\* What holds between the parts of a step as well.
Core(s) ==
  /\ s \in LayoutRecord
  /\ ~s.failed
  /\ FromInput(s)
  /\ Cursor(s)
  /\ Position(s)
  /\ Left(s) /\ LayerBefore(s) /\ CurrentLayer(s)
  /\ InBufferOrHeader(s) /\ FilesSoFar(s)
  /\ Aligned(s)

Consistent(s) ==
  /\ Core(s)
  /\ s.pc = "next" => PendingFits(s) /\ JustRecorded(s) /\ AddressAligned(s)
  /\ s.pc = "split" => SplitFits(s) /\ BeingPlaced(s) /\ AddressAligned(s)
  /\ s.pc = "done" => AllLeft(s)

IInv == Consistent(layout) /\ Bounded(layout)
=============================================================================
