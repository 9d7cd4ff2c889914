---------------------------- MODULE LayoutProofs ----------------------------
(***************************************************************************)
(* Proofs about compute_layout, for every input, alignment, chunk size,    *)
(* number of threads, ranks and chunks in flight: IInv of LayoutInv is     *)
(* inductive and implies the properties of LayoutSteps.                    *)
(***************************************************************************)
EXTENDS LayoutInv, OrderLemmas, TLAPS

(* Arithmetic of the rounding operators.                                   *)

\* Adding a multiple does not change a remainder.
LEMMA AddMultiple ==
  ASSUME NEW x \in Int, NEW z \in Int, NEW y \in Nat \ {0}, x % y = 0
  PROVE  (x + z) % y = z % y
<1> DEFINE k == x \div y
           q == z \div y
           r == z % y
<1>1. k \in Int /\ x = y * k /\ q \in Int /\ r \in 0 .. y - 1 /\ z = (y * q) + r
  OBVIOUS
<1>2. x + z = y * (k + q) + r
  BY <1>1
<1> HIDE DEF k, q, r
<1>3. \A n \in Int : (y * n + r) % y = r
  BY <1>1
<1> QED
  BY <1>1, <1>2, <1>3, SMTT(30) DEF r

LEMMA MultipleOfProduct ==
  ASSUME NEW k \in Int, NEW y \in Nat \ {0}
  PROVE  (k * y) % y = 0
OBVIOUS

\* A multiple of a multiple is a multiple.
LEMMA MultipleTransitive ==
  ASSUME NEW x \in Int, NEW y \in Nat \ {0}, NEW z \in Nat \ {0}, x % y = 0, y % z = 0
  PROVE  x % z = 0
<1> DEFINE k == x \div y
           q == y \div z
<1>1. k \in Int /\ x = k * y /\ q \in Int /\ y = q * z
  OBVIOUS
<1> HIDE DEF k, q
<1>2. x = (k * q) * z
  BY <1>1
<1>3. k * q \in Int
  BY <1>1
<1> QED
  BY <1>2, <1>3, MultipleOfProduct

\* What RoundDown and RoundUp return.
LEMMA RoundDownFacts ==
  ASSUME NEW x \in Nat, NEW y \in Nat \ {0}
  PROVE  /\ RoundDown(x, y) \in Nat
         /\ RoundDown(x, y) % y = 0
         /\ x % y \in Nat /\ x % y < y
         /\ RoundDown(x, y) + (x % y) = x
BY DEF RoundDown

LEMMA RoundUpFacts ==
  ASSUME NEW x \in Nat, NEW y \in Nat \ {0}
  PROVE  /\ RoundUp(x, y) \in Nat
         /\ RoundUp(x, y) >= x
         /\ RoundUp(x, y) < x + y
         /\ RoundUp(x, y) % y = 0
BY DEF RoundUp, RoundDown

\* Rounding up x plus a multiple adds the multiple.
LEMMA RoundUpPlusMultiple ==
  ASSUME NEW x \in Nat, NEW k \in Nat, NEW y \in Nat \ {0}
  PROVE  RoundUp(x + k * y, y) = RoundUp(x, y) + k * y
<1> DEFINE z == x + y - 1
           q == z \div y
           r == z % y
<1>1. z \in Nat /\ q \in Nat /\ r \in 0 .. y - 1 /\ z = (y * q) + r
  OBVIOUS
<1>2. x + k * y + y - 1 = y * (q + k) + r
  BY <1>1
<1>3. \A n \in Nat, s \in 0 .. y - 1 : (y * n + s) \div y = n
  OBVIOUS
<1> HIDE DEF r
<1>4. (x + k * y + y - 1) \div y = q + k
  BY <1>1, <1>2, <1>3
<1> HIDE DEF q
<1>5. (q + k) * y = q * y + k * y
  BY <1>1
<1> QED
  BY <1>4, <1>5 DEF RoundUp, RoundDown, q, z

\* The sizes compute_layout works with.
LEMMA Sizes ==
  /\ ThreadAlignment \in Nat \ {0} /\ FirstTensorAlignment \in Nat \ {0}
  /\ WorldChunkAlignment \in Nat \ {0} /\ WorldChunkSize \in Nat \ {0}
  /\ ThreadAlignment % FirstTensorAlignment = 0
  /\ ThreadAlignment <= WorldChunkAlignment
  /\ ThreadAlignment <= WorldChunkSize
  /\ WorldChunkAlignment % FirstTensorAlignment = 0
<1> DEFINE parts == NumThreads * WorldSize
<1>1. parts \in Nat \ {0}
  BY LayoutSizesAssumption
<1>2. /\ WorldChunkAlignment = parts * ThreadAlignment
      /\ WorldChunkSize = parts * ThreadChunkSize
  BY LayoutSizesAssumption DEF WorldChunkAlignment, WorldChunkSize
<1> HIDE DEF parts
<1>3. \A a \in Nat \ {0} : parts * a \in Nat \ {0} /\ parts * a >= a
  BY <1>1
<1>4. ThreadAlignment <= ThreadChunkSize
  BY LayoutSizesAssumption
<1>5. WorldChunkAlignment % ThreadAlignment = 0
  BY <1>1, <1>2, LayoutSizesAssumption, MultipleOfProduct
<1>6. WorldChunkAlignment \in Nat \ {0} /\ WorldChunkSize \in Nat \ {0}
  BY <1>2, <1>3, LayoutSizesAssumption
<1>7. WorldChunkAlignment % FirstTensorAlignment = 0
  <2>1. /\ WorldChunkAlignment \in Int
        /\ ThreadAlignment \in Nat \ {0} /\ FirstTensorAlignment \in Nat \ {0}
        /\ ThreadAlignment % FirstTensorAlignment = 0
    BY <1>6, LayoutSizesAssumption
  <2> QED
    BY <1>5, <2>1, MultipleTransitive, Zenon
<1> QED
  BY <1>2, <1>3, <1>4, <1>6, <1>7, LayoutSizesAssumption

\* A full chunk is a whole number of pages on every thread of every rank.
LEMMA WholeChunk ==
  /\ WorldChunkSize % ThreadAlignment = 0
  /\ RoundDown(WorldChunkSize, ThreadAlignment) = WorldChunkSize
  /\ RoundUp(WorldChunkSize, WorldChunkAlignment) = WorldChunkSize
  /\ \A x \in Nat : RoundUp(x + WorldChunkSize, WorldChunkAlignment)
                      = RoundUp(x, WorldChunkAlignment) + WorldChunkSize
<1> DEFINE pages == ThreadChunkSize \div ThreadAlignment
           parts == NumThreads * WorldSize
<1>1. pages \in Nat /\ ThreadChunkSize = pages * ThreadAlignment
  BY LayoutSizesAssumption
<1>2. parts \in Nat
  BY LayoutSizesAssumption
<1> HIDE DEF pages, parts
<1>3. WorldChunkSize = pages * WorldChunkAlignment
  <2>1. WorldChunkSize = ThreadChunkSize * parts /\ WorldChunkAlignment = ThreadAlignment * parts
    BY LayoutSizesAssumption DEF WorldChunkSize, WorldChunkAlignment, parts
  <2> QED
    BY <1>1, <1>2, <2>1, LayoutSizesAssumption
<1>4. \A x \in Nat : RoundUp(x + WorldChunkSize, WorldChunkAlignment)
                      = RoundUp(x, WorldChunkAlignment) + WorldChunkSize
  BY <1>1, <1>3, Sizes, RoundUpPlusMultiple, ZenonT(30)
<1>5. RoundUp(0, WorldChunkAlignment) = 0
  <2>1. \A y \in Nat \ {0} : (y - 1) \div y = 0
    OBVIOUS
  <2> QED
    BY <2>1, Sizes DEF RoundUp, RoundDown
<1>6. WorldChunkSize % ThreadAlignment = 0
  <2>1. WorldChunkSize = (pages * parts) * ThreadAlignment
    BY <1>1, <1>2, LayoutSizesAssumption DEF WorldChunkSize, parts
  <2>2. pages * parts \in Nat
    BY <1>1, <1>2
  <2> QED
    BY <2>1, <2>2, MultipleOfProduct, Sizes
<1>7. RoundUp(WorldChunkSize, WorldChunkAlignment) = WorldChunkSize
  <2>1. RoundUp(0 + WorldChunkSize, WorldChunkAlignment) = 0 + WorldChunkSize
    BY <1>4, <1>5
  <2> QED
    BY <2>1, Sizes
<1>8. RoundDown(WorldChunkSize, ThreadAlignment) = WorldChunkSize
  BY <1>6, Sizes, RoundDownFacts
<1> QED
  BY <1>4, <1>6, <1>7, <1>8

\* A chunk placed at AlignedStart has its first tensor aligned, less than
\* first_tensor_alignment bytes further than it need be.
LEMMA AlignedStartFacts ==
  ASSUME NEW base \in Nat, NEW residue \in Nat, base % FirstTensorAlignment = 0
  PROVE  /\ AlignedStart(base, residue) \in Nat
         /\ base < AlignedStart(base, residue)
         /\ AlignedStart(base, residue) <= base + FirstTensorAlignment
         /\ (AlignedStart(base, residue) + residue) % FirstTensorAlignment = 0
<1> DEFINE F == FirstTensorAlignment
           q == residue \div F
           r == residue % F
<1>1. F \in Nat \ {0}
  BY Sizes
<1>2. q \in Nat /\ r \in 0 .. F - 1 /\ residue = (q * F) + r
  BY <1>1
<1>3. AlignedStart(base, residue) = base + F - r
  BY DEF AlignedStart
<1> HIDE DEF F, q, r
<1>4. AlignedStart(base, residue) + residue = base + (q + 1) * F
  BY <1>1, <1>2, <1>3
<1>5. (base + (q + 1) * F) % F = 0
  <2> DEFINE z == (q + 1) * F
  <2>1. q + 1 \in Int /\ z \in Int
    BY <1>1, <1>2
  <2>2. z % F = 0
    BY <1>1, <2>1, MultipleOfProduct
  <2>3. base \in Int /\ base % F = 0
    BY DEF F
  <2> HIDE DEF z
  <2>4. (base + z) % F = z % F
    BY <1>1, <2>1, <2>3, AddMultiple
  <2> QED
    BY <2>2, <2>4 DEF z
<1> QED
  BY <1>1, <1>2, <1>3, <1>4, <1>5 DEF F

-----------------------------------------------------------------------------
(* The fields of the layout after each of the function's lambdas.          *)

\* What a change of prefetch bounds leaves alone.
SameTensors(s, r) ==
  /\ NextTensorId(r) = NextTensorId(s)
  /\ \A t \in 0 .. NextTensorId(s) - 1 :
       /\ Tensor(r, t).size = Tensor(s, t).size
       /\ Tensor(r, t).file = Tensor(s, t).file
       /\ Tensor(r, t).file_offset = Tensor(s, t).file_offset
       /\ Tensor(r, t).device_buffer_offset = Tensor(s, t).device_buffer_offset
       /\ Tensor(r, t).last_chunk_id = Tensor(s, t).last_chunk_id

\* Tensors in_buffer .. upto-1 leave with chunk c, the others keep their bound.
LeaveWith(s, r, upto, c) ==
  \A t \in 0 .. NextTensorId(s) - 1 :
    Tensor(r, t).prefetch_chunk_id =
      IF t \in s.in_buffer .. upto - 1 THEN c ELSE Tensor(s, t).prefetch_chunk_id

SameInput(s, r) ==
  r.offsets = s.offsets /\ r.requested = s.requested /\ r.buffer_size = s.buffer_size

SameLoop(s, r) ==
  r.i = s.i /\ r.placed_at = s.placed_at /\ r.size_left = s.size_left /\ r.pc = s.pc

LEMMA WithBound ==
  ASSUME NEW m \in TensorRecord, NEW c \in Int
  PROVE  LET k == [m EXCEPT !.prefetch_chunk_id = c]
         IN /\ k \in TensorRecord
            /\ k.size = m.size /\ k.file = m.file /\ k.file_offset = m.file_offset
            /\ k.device_buffer_offset = m.device_buffer_offset
            /\ k.last_chunk_id = m.last_chunk_id
            /\ k.prefetch_chunk_id = c
BY DEF TensorRecord

LEMMA LeaveFields ==
  ASSUME NEW s \in LayoutRecord, NEW upto \in Nat, NEW c \in Int
  PROVE  LET r == Leave(s, upto, c)
         IN /\ r \in LayoutRecord
            /\ SameTensors(s, r) /\ LeaveWith(s, r, upto, c)
            /\ r.in_buffer = upto
            /\ SameInput(s, r) /\ SameLoop(s, r)
            /\ r.chunks = s.chunks /\ r.file = s.file /\ r.file_offset = s.file_offset
            /\ r.device_offset = s.device_offset /\ r.current_size = s.current_size
            /\ r.left_most = s.left_most /\ r.failed = s.failed
<1> DEFINE ts == [k \in DOMAIN s.tensors |->
                    IF k - 1 \in s.in_buffer .. upto - 1
                      THEN [s.tensors[k] EXCEPT !.prefetch_chunk_id = c]
                      ELSE s.tensors[k]]
           r == Leave(s, upto, c)
<1>1. s.tensors \in Seq(TensorRecord) /\ s.in_buffer \in Nat
  BY DEF LayoutRecord
<1>2. DOMAIN s.tensors = 1 .. Len(s.tensors) /\ Len(s.tensors) \in Nat
  BY <1>1
<1>4. DOMAIN ts = 1 .. Len(s.tensors)
  BY <1>2
<1>0. \A k \in 1 .. Len(s.tensors) :
        ts[k] = IF k - 1 \in s.in_buffer .. upto - 1
                  THEN [s.tensors[k] EXCEPT !.prefetch_chunk_id = c]
                  ELSE s.tensors[k]
  BY <1>2
<1>9. ts = [k \in 1 .. Len(s.tensors) |-> ts[k]]
  BY <1>2
<1>6. r = [s EXCEPT !.tensors = ts, !.in_buffer = upto]
  BY DEF Leave
<1> HIDE DEF ts
<1>3. ASSUME NEW k \in 1 .. Len(s.tensors)
      PROVE  /\ ts[k] \in TensorRecord
             /\ ts[k].size = s.tensors[k].size
             /\ ts[k].file = s.tensors[k].file
             /\ ts[k].file_offset = s.tensors[k].file_offset
             /\ ts[k].device_buffer_offset = s.tensors[k].device_buffer_offset
             /\ ts[k].last_chunk_id = s.tensors[k].last_chunk_id
             /\ ts[k].prefetch_chunk_id =
                  IF k - 1 \in s.in_buffer .. upto - 1 THEN c ELSE s.tensors[k].prefetch_chunk_id
  <2>1. s.tensors[k] \in TensorRecord
    BY <1>1
  <2>2. CASE k - 1 \in s.in_buffer .. upto - 1
    <3>1. ts[k] = [s.tensors[k] EXCEPT !.prefetch_chunk_id = c]
      BY <1>0, <2>2
    <3> QED
      BY <2>1, <2>2, <3>1, WithBound
  <2>3. CASE k - 1 \notin s.in_buffer .. upto - 1
    <3>1. ts[k] = s.tensors[k]
      BY <1>0, <2>3
    <3> QED
      BY <2>1, <2>3, <3>1
  <2> QED
    BY <2>2, <2>3
<1>5. ts \in Seq(TensorRecord) /\ Len(ts) = Len(s.tensors)
  <2>1. ts \in [1 .. Len(s.tensors) -> TensorRecord]
    BY <1>3, <1>4, <1>9
  <2> QED
    BY <1>2, <2>1
<1>7. /\ r \in LayoutRecord
      /\ r.tensors = ts
      /\ r.in_buffer = upto
      /\ SameInput(s, r) /\ SameLoop(s, r)
      /\ r.chunks = s.chunks /\ r.file = s.file /\ r.file_offset = s.file_offset
      /\ r.device_offset = s.device_offset /\ r.current_size = s.current_size
      /\ r.left_most = s.left_most /\ r.failed = s.failed
  BY <1>5, <1>6 DEF LayoutRecord, SameInput, SameLoop
<1> HIDE DEF r
<1>8. SameTensors(s, r) /\ LeaveWith(s, r, upto, c)
  <2>1. \A t \in 0 .. Len(s.tensors) - 1 : t + 1 \in 1 .. Len(s.tensors) /\ (t + 1) - 1 = t
    BY <1>2
  <2> QED
    BY <1>3, <1>5, <1>7, <2>1 DEF SameTensors, LeaveWith, Tensor, NextTensorId
<1> QED
  BY <1>7, <1>8 DEF r

\* Lookups in the tables.
LEMMA Lookups ==
  ASSUME NEW s \in LayoutRecord
  PROVE  /\ NextTensorId(s) \in Nat /\ Len(s.chunks) \in Nat
         /\ \A t \in 0 .. NextTensorId(s) - 1 :
              /\ Tensor(s, t).size \in Nat /\ Tensor(s, t).file \in Nat
              /\ Tensor(s, t).file_offset \in Nat
              /\ Tensor(s, t).device_buffer_offset \in Nat
              /\ Tensor(s, t).last_chunk_id \in Nat
              /\ Tensor(s, t).prefetch_chunk_id \in Int
         /\ \A c \in 0 .. Len(s.chunks) - 1 :
              /\ Chunk(s, c).size \in Nat \ {0} /\ Chunk(s, c).file \in Nat
              /\ Chunk(s, c).file_offset \in Nat
              /\ Chunk(s, c).device_buffer_offset \in Nat
<1>1. s.tensors \in Seq(TensorRecord) /\ s.chunks \in Seq(ChunkRecord)
  BY DEF LayoutRecord
<1>2. ASSUME NEW t \in 0 .. NextTensorId(s) - 1 PROVE Tensor(s, t) \in TensorRecord
  <2>1. t + 1 \in 1 .. Len(s.tensors)
    BY <1>1 DEF NextTensorId
  <2> QED
    BY <1>1, <2>1 DEF Tensor
<1>3. ASSUME NEW c \in 0 .. Len(s.chunks) - 1 PROVE Chunk(s, c) \in ChunkRecord
  <2>1. c + 1 \in 1 .. Len(s.chunks)
    BY <1>1
  <2> QED
    BY <1>1, <2>1 DEF Chunk
<1>4. NextTensorId(s) \in Nat /\ Len(s.chunks) \in Nat
  BY <1>1 DEF NextTensorId
<1> QED
  BY <1>2, <1>3, <1>4 DEF TensorRecord, ChunkRecord

\* What is known of the arguments.
LEMMA InputFacts ==
  ASSUME NEW s, FromInput(s)
  PROVE  /\ NumOffsets(s) \in Nat /\ NumOffsets(s) > 1
         /\ \A k \in 0 .. NumOffsets(s) - 1 : Offset(s, k).file \in Nat /\ Offset(s, k).at \in Nat
         /\ \A k \in 0 .. NumOffsets(s) - 2 :
              \/ Offset(s, k + 1).file = Offset(s, k).file + 1
              \/ /\ Offset(s, k + 1).file = Offset(s, k).file
                 /\ Offset(s, k + 1).at >= Offset(s, k).at
                 /\ Offset(s, k + 1).at - Offset(s, k).at <= s.requested
         /\ Offset(s, NumOffsets(s) - 2).file = Offset(s, NumOffsets(s) - 1).file
         /\ s.requested \in Nat /\ s.buffer_size \in Nat
         /\ s.buffer_size >=
              s.requested + FirstTensorAlignment + ThreadAlignment + WorldChunkAlignment
<1> DEFINE os == s.offsets
           n == Len(os)
<1>1. /\ os \in Seq([file : Nat, at : Nat]) /\ n > 1 /\ s.requested \in Nat
      /\ \A k \in 1 .. n - 1 :
           \/ os[k + 1].file = os[k].file + 1
           \/ /\ os[k + 1].file = os[k].file
              /\ os[k + 1].at >= os[k].at
              /\ os[k + 1].at - os[k].at <= s.requested
      /\ \A k \in 1 .. n : FirstOfFile(os, k) => k < n /\ os[k + 1].file = os[k].file
  BY DEF FromInput, WellFormed
<1>2. n \in Nat /\ NumOffsets(s) = n
  BY <1>1 DEF NumOffsets
<1>3. ASSUME NEW k \in 0 .. n - 1 PROVE Offset(s, k).file \in Nat /\ Offset(s, k).at \in Nat
  <2>1. k + 1 \in 1 .. n
    BY <1>2
  <2>2. os[k + 1] \in [file : Nat, at : Nat]
    <3>1. \A S : os \in Seq(S) => os[k + 1] \in S
      BY <2>1
    <3> QED
      BY <1>1, <3>1, Zenon
  <2> QED
    BY <2>2 DEF Offset
<1>4. ASSUME NEW k \in 0 .. n - 2
      PROVE  \/ Offset(s, k + 1).file = Offset(s, k).file + 1
             \/ /\ Offset(s, k + 1).file = Offset(s, k).file
                /\ Offset(s, k + 1).at >= Offset(s, k).at
                /\ Offset(s, k + 1).at - Offset(s, k).at <= s.requested
  <2>1. k + 1 \in 1 .. n - 1
    BY <1>2
  <2> QED
    BY <1>1, <2>1 DEF Offset
<1>5. Offset(s, n - 2).file = Offset(s, n - 1).file
  <2>1. n \in 1 .. n /\ ~(n < n) /\ n # 1
    BY <1>1, <1>2, SMTT(30)
  <2>2. os[n - 1].file = os[n].file
    BY <1>1, <2>1 DEF FirstOfFile
  <2>3. (n - 2) + 1 = n - 1 /\ (n - 1) + 1 = n
    BY <1>2
  <2> QED
    BY <2>2, <2>3 DEF Offset
<1>6. /\ s.buffer_size \in Nat
      /\ s.buffer_size >=
           s.requested + FirstTensorAlignment + ThreadAlignment + WorldChunkAlignment
  <2> DEFINE larger == Larger(s.requested, IoDepth * WorldChunkSize)
             padding == FirstTensorAlignment + ThreadAlignment + WorldChunkAlignment
  <2>1. IoDepth * WorldChunkSize \in Nat
    BY LayoutSizesAssumption, Sizes
  <2>2. larger \in Nat /\ larger >= s.requested
    BY <1>1, <2>1 DEF Larger
  <2>3. padding \in Nat
    BY Sizes
  <2>4. s.buffer_size = larger + 3 * padding
    BY DEF FromInput, BufferSize
  <2> HIDE DEF larger, padding
  <2>5. s.buffer_size \in Nat /\ s.buffer_size >= s.requested + padding
    BY <1>1, <2>2, <2>3, <2>4
  <2> QED
    BY <1>1, <2>5, Sizes DEF padding
<1> QED
  BY <1>1, <1>2, <1>3, <1>4, <1>5, <1>6

\* The loop of finish_chunk stops at the first tensor that is not below end.
LEMMA FirstNotBelowFacts ==
  ASSUME NEW s \in LayoutRecord, NEW end \in Nat, Cursor(s)
  PROVE  LET u == FirstNotBelow(s, end)
         IN /\ u \in s.in_buffer .. s.left_most
            /\ \A v \in s.in_buffer .. u - 1 : Tensor(s, v).device_buffer_offset < end
            /\ u = s.left_most \/ Tensor(s, u).device_buffer_offset >= end
<1> DEFINE Stop(u) == u = s.left_most \/ Tensor(s, u).device_buffer_offset >= end
           T == {u \in s.in_buffer .. s.left_most : Stop(u)}
<1>1. /\ s.in_buffer \in Nat /\ s.left_most \in Nat /\ s.in_buffer <= s.left_most
      /\ s.left_most <= Len(s.tensors) /\ s.tensors \in Seq(TensorRecord)
  BY DEF LayoutRecord, Cursor, NextTensorId
<1>2. \A v \in 0 .. Len(s.tensors) - 1 : Tensor(s, v).device_buffer_offset \in Nat
  BY Lookups DEF NextTensorId
<1>3. T \in SUBSET Nat /\ T # {}
  BY <1>1
<1>4. PICK u \in T : \A v \in T : u <= v
  BY <1>3, Least
<1>5. \A v \in s.in_buffer .. u - 1 : Tensor(s, v).device_buffer_offset < end
  <2> SUFFICES ASSUME NEW v \in s.in_buffer .. u - 1
               PROVE  Tensor(s, v).device_buffer_offset < end
    OBVIOUS
  <2>1. v \notin T /\ v \in s.in_buffer .. s.left_most /\ v # s.left_most
    BY <1>1, <1>4
  <2>2. v \in 0 .. Len(s.tensors) - 1
    BY <1>1, <2>1
  <2> QED
    BY <1>2, <2>1, <2>2
<1>6. /\ u \in s.in_buffer .. s.left_most
      /\ \A v \in s.in_buffer .. u - 1 : Tensor(s, v).device_buffer_offset < end
      /\ u = s.left_most \/ Tensor(s, u).device_buffer_offset >= end
  BY <1>4, <1>5
<1> QED
  BY <1>6 DEF FirstNotBelow

\* From s, finish_chunk has emitted a chunk and led to r.
Finished(s, r) ==
  LET n == Len(s.chunks)
  IN /\ r \in LayoutRecord /\ ~r.failed
     /\ SameTensors(s, r) /\ LeaveWith(s, r, r.in_buffer, n - 1)
     /\ SameInput(s, r) /\ SameLoop(s, r)
     /\ r.file = s.file /\ r.left_most = s.left_most
     /\ Len(r.chunks) = n + 1
     /\ \A c \in 0 .. n - 1 : Chunk(r, c) = Chunk(s, c)
     /\ Chunk(r, n).size = s.current_size
     /\ Chunk(r, n).file = s.file
     /\ Chunk(r, n).file_offset = s.file_offset
     /\ Chunk(r, n).device_buffer_offset = s.device_offset
     /\ r.file_offset % ThreadAlignment = 0
     /\ r.file_offset = s.file_offset + RoundDown(s.current_size, ThreadAlignment)
     /\ r.device_offset = s.device_offset + RoundUp(s.current_size, WorldChunkAlignment)
     /\ r.current_size = s.current_size % ThreadAlignment
     /\ r.in_buffer \in s.in_buffer .. s.left_most
     /\ \A t \in r.in_buffer .. s.left_most - 1 :
          Tensor(s, t).device_buffer_offset >= r.device_offset
     /\ \A t \in s.in_buffer .. r.in_buffer - 1 :
          Tensor(s, t).device_buffer_offset < r.device_offset

LEMMA FinishChunkFields ==
  ASSUME NEW s \in LayoutRecord, s.current_size > 0, Cursor(s), ~s.failed, LayerBefore(s)
  PROVE  Finished(s, FinishChunk(s))
<1> DEFINE n == Len(s.chunks)
           chunk == [size |-> s.current_size, file |-> s.file, file_offset |-> s.file_offset,
                     device_buffer_offset |-> s.device_offset]
           cs == Append(s.chunks, chunk)
           fo == s.file_offset + RoundDown(s.current_size, ThreadAlignment)
           do == s.device_offset + RoundUp(s.current_size, WorldChunkAlignment)
           rest == s.current_size % ThreadAlignment
           e == [s EXCEPT !.chunks = cs, !.file_offset = fo, !.device_offset = do,
                          !.current_size = rest]
           u == FirstNotBelow(e, do)
           r == Leave(e, u, n - 1)
<1>1. /\ s.chunks \in Seq(ChunkRecord) /\ s.tensors \in Seq(TensorRecord)
      /\ s.file_offset \in Nat /\ s.device_offset \in Nat /\ s.current_size \in Nat \ {0}
      /\ s.file \in Nat /\ n \in Nat
  BY DEF LayoutRecord
<1>2. /\ fo \in Nat /\ do \in Nat /\ rest \in Nat /\ rest < ThreadAlignment
      /\ fo % ThreadAlignment = 0
  <2> DEFINE down == RoundDown(s.current_size, ThreadAlignment)
             up == RoundUp(s.current_size, WorldChunkAlignment)
  <2>1. /\ down \in Nat /\ down % ThreadAlignment = 0
        /\ rest \in Nat /\ rest < ThreadAlignment
    BY <1>1, Sizes, RoundDownFacts
  <2>2. up \in Nat
    BY <1>1, Sizes, RoundUpFacts
  <2> HIDE DEF down, up, rest
  <2>3. (s.file_offset + down) % ThreadAlignment = 0
    <3>1. s.file_offset \in Int /\ down \in Int /\ s.file_offset % ThreadAlignment = 0
      BY <1>1, <2>1 DEF Cursor
    <3> QED
      BY <2>1, <3>1, Sizes, AddMultiple
  <2> QED
    BY <1>1, <2>1, <2>2, <2>3 DEF down, up
<1>3. chunk \in ChunkRecord
  BY <1>1 DEF ChunkRecord
<1>4. /\ cs \in Seq(ChunkRecord) /\ Len(cs) = n + 1
      /\ \A c \in 1 .. n : cs[c] = s.chunks[c]
      /\ cs[n + 1] = chunk
  BY <1>1, <1>3
<1>5. /\ chunk.size = s.current_size /\ chunk.file = s.file
      /\ chunk.file_offset = s.file_offset /\ chunk.device_buffer_offset = s.device_offset
  OBVIOUS
<1>6. FinishChunk(s) = FailIf(s.file_offset % ThreadAlignment # 0, r)
  BY <1>1, <1>4 DEF FinishChunk, Reread, FirstKept, PrevChunkId
<1> HIDE DEF chunk, cs, fo, do, rest
<1>7. /\ e \in LayoutRecord
      /\ e.chunks = cs /\ e.file_offset = fo /\ e.device_offset = do /\ e.current_size = rest
      /\ e.tensors = s.tensors /\ e.in_buffer = s.in_buffer /\ e.left_most = s.left_most
      /\ e.failed = s.failed /\ e.file = s.file
      /\ SameInput(s, e) /\ SameLoop(s, e)
  BY <1>2, <1>4 DEF LayoutRecord, SameInput, SameLoop
<1> HIDE DEF e
<1>8. Cursor(e)
  BY <1>2, <1>7, Sizes DEF Cursor, NextTensorId, LayoutRecord
<1>9. /\ u \in s.in_buffer .. s.left_most
      /\ u = s.left_most \/ Tensor(s, u).device_buffer_offset >= do
      /\ \A t \in s.in_buffer .. u - 1 : Tensor(s, t).device_buffer_offset < do
  BY <1>2, <1>7, <1>8, FirstNotBelowFacts DEF Tensor
<1> HIDE DEF u
<1>10. u \in Nat /\ n - 1 \in Int
  BY <1>1, <1>9 DEF LayoutRecord
<1>11. /\ r \in LayoutRecord
       /\ SameTensors(e, r) /\ LeaveWith(e, r, u, n - 1)
       /\ r.in_buffer = u
       /\ SameInput(e, r) /\ SameLoop(e, r)
       /\ r.chunks = cs /\ r.file = s.file /\ r.file_offset = fo
       /\ r.device_offset = do /\ r.current_size = rest
       /\ r.left_most = s.left_most /\ r.failed = s.failed
  BY <1>7, <1>10, LeaveFields
<1> HIDE DEF r
<1>12. FinishChunk(s) = r
  <2>1. FinishChunk(s) = [r EXCEPT !.failed = @ \/ FALSE]
    BY <1>6 DEF Cursor, FailIf
  <2> QED
    BY <1>11, <2>1 DEF LayoutRecord
<1>13. \A t \in u .. s.left_most - 1 : Tensor(s, t).device_buffer_offset >= do
  <2> SUFFICES ASSUME NEW t \in u .. s.left_most - 1
               PROVE  Tensor(s, t).device_buffer_offset >= do
    OBVIOUS
  <2>1. u \in s.in_buffer .. s.left_most - 1 /\ u # s.left_most
    BY <1>9, <1>10 DEF LayoutRecord
  <2>2. Tensor(s, u).device_buffer_offset <= Tensor(s, t).device_buffer_offset
    BY <2>1 DEF LayerBefore
  <2>3. Tensor(s, u).device_buffer_offset \in Nat /\ Tensor(s, t).device_buffer_offset \in Nat
    <3>1. u \in 0 .. NextTensorId(s) - 1 /\ t \in 0 .. NextTensorId(s) - 1
      BY <2>1, <1>10, Lookups, SMTT(30) DEF Cursor, LayoutRecord
    <3> QED
      BY <3>1, Lookups
  <2> QED
    BY <1>2, <1>9, <2>1, <2>2, <2>3
<1>14. SameTensors(s, r) /\ LeaveWith(s, r, u, n - 1)
  BY <1>7, <1>11 DEF SameTensors, LeaveWith, Tensor, NextTensorId
<1>15. SameInput(s, r) /\ SameLoop(s, r)
  BY <1>7, <1>11 DEF SameInput, SameLoop
<1>16. /\ \A c \in 0 .. n - 1 : Chunk(r, c) = Chunk(s, c)
       /\ Chunk(r, n) = chunk
  BY <1>1, <1>4, <1>11 DEF Chunk
<1> QED
  BY <1>2, <1>4, <1>5, <1>9, <1>11, <1>12, <1>13, <1>14, <1>15, <1>16 DEF Finished, fo, do, rest

LEMMA ResetBufferOffsetFields ==
  ASSUME NEW s \in LayoutRecord, NEW new \in Nat, s.current_size < ThreadAlignment, ~s.failed
  PROVE  LET r == ResetBufferOffset(s, new)
         IN /\ r \in LayoutRecord /\ ~r.failed
            /\ SameTensors(s, r) /\ LeaveWith(s, r, s.left_most, Len(s.chunks) - 1)
            /\ SameInput(s, r) /\ SameLoop(s, r)
            /\ r.in_buffer = s.left_most /\ r.left_most = new
            /\ r.chunks = s.chunks /\ r.file = s.file
            /\ r.file_offset = s.file_offset /\ r.current_size = s.current_size
            /\ r.device_offset = AlignedStart(0, s.current_size)
<1> DEFINE l == Leave(s, s.left_most, Len(s.chunks) - 1)
           start == AlignedStart(0, s.current_size)
           r == [l EXCEPT !.device_offset = start, !.left_most = new]
<1>1. /\ s.left_most \in Nat /\ Len(s.chunks) - 1 \in Int /\ s.current_size \in Nat
      /\ s.failed = FALSE
  BY DEF LayoutRecord
<1>2. start \in Nat
  <2>1. 0 % FirstTensorAlignment = 0
    BY Sizes
  <2> QED
    BY <1>1, <2>1, AlignedStartFacts
<1>3. ResetBufferOffset(s, new) = FailIf(FALSE, r)
  <2>1. (s.current_size >= ThreadAlignment) = FALSE
    BY <1>1, Sizes
  <2> QED
    BY <2>1 DEF ResetBufferOffset
<1> HIDE DEF start
<1>4. /\ l \in LayoutRecord
      /\ SameTensors(s, l) /\ LeaveWith(s, l, s.left_most, Len(s.chunks) - 1)
      /\ l.in_buffer = s.left_most
      /\ SameInput(s, l) /\ SameLoop(s, l)
      /\ l.chunks = s.chunks /\ l.file = s.file /\ l.file_offset = s.file_offset
      /\ l.current_size = s.current_size /\ l.failed = FALSE
  <2> DEFINE upto == s.left_most
             c == Len(s.chunks) - 1
  <2>1. upto \in Nat /\ c \in Int
    BY <1>1
  <2> HIDE DEF upto, c
  <2> DEFINE k == Leave(s, upto, c)
  <2>2. /\ k \in LayoutRecord
        /\ SameTensors(s, k) /\ LeaveWith(s, k, upto, c)
        /\ k.in_buffer = upto
        /\ SameInput(s, k) /\ SameLoop(s, k)
        /\ k.chunks = s.chunks /\ k.file = s.file /\ k.file_offset = s.file_offset
        /\ k.current_size = s.current_size /\ k.failed = s.failed
    BY <2>1, LeaveFields, Zenon
  <2>3. k = l
    BY DEF upto, c
  <2> QED
    BY <1>1, <2>2, <2>3, Zenon DEF upto, c
<1> HIDE DEF l
<1>5. /\ r \in LayoutRecord /\ r.failed = FALSE /\ r.tensors = l.tensors
      /\ SameInput(s, r) /\ SameLoop(s, r)
      /\ r.in_buffer = s.left_most /\ r.left_most = new
      /\ r.chunks = s.chunks /\ r.file = s.file
      /\ r.file_offset = s.file_offset /\ r.current_size = s.current_size
      /\ r.device_offset = start
  BY <1>2, <1>4 DEF LayoutRecord, SameInput, SameLoop
<1> HIDE DEF r
<1>6. ResetBufferOffset(s, new) = r
  BY <1>3, <1>5 DEF FailIf, LayoutRecord
<1>7. SameTensors(s, r) /\ LeaveWith(s, r, s.left_most, Len(s.chunks) - 1)
  BY <1>4, <1>5 DEF SameTensors, LeaveWith, Tensor, NextTensorId
<1> QED
  BY <1>5, <1>6, <1>7 DEF start

\* From s, reset_chunk_file has led to r.
TurnedTo(s, r, file, at) ==
  /\ r \in LayoutRecord /\ ~r.failed
  /\ SameInput(s, r) /\ SameLoop(s, r)
  /\ r.tensors = s.tensors /\ r.chunks = s.chunks
  /\ r.in_buffer = s.in_buffer /\ r.left_most = s.left_most
  /\ r.file = file
  /\ r.file_offset % ThreadAlignment = 0
  /\ r.current_size < ThreadAlignment
  /\ r.file_offset + r.current_size = at
  /\ r.device_offset >= s.device_offset
  /\ (r.device_offset + r.current_size) % FirstTensorAlignment = 0

LEMMA ResetFileFields ==
  ASSUME NEW s \in LayoutRecord, NEW file \in Nat, NEW at \in Nat,
         s.current_size < ThreadAlignment, ~s.failed
  PROVE  TurnedTo(s, ResetFile(s, file, at), file, at)
<1> DEFINE residue == at % ThreadAlignment
           down == RoundDown(at, ThreadAlignment)
           up == RoundUp(s.device_offset, FirstTensorAlignment)
           start == AlignedStart(up, residue)
           r == [s EXCEPT !.file = file, !.file_offset = down, !.current_size = residue,
                          !.device_offset = start]
<1>1. /\ s.device_offset \in Nat /\ s.current_size \in Nat
      /\ s.failed = FALSE
  BY DEF LayoutRecord
<1>2. /\ residue \in Nat /\ residue < ThreadAlignment
      /\ down \in Nat /\ down % ThreadAlignment = 0 /\ down + residue = at
  BY Sizes, RoundDownFacts
<1>3. up \in Nat /\ up >= s.device_offset /\ up % FirstTensorAlignment = 0
  BY <1>1, Sizes, RoundUpFacts
<1>4. ResetFile(s, file, at) = FailIf(FALSE, r)
  <2>1. (s.current_size >= ThreadAlignment) = FALSE
    BY <1>1, Sizes
  <2> QED
    BY <2>1 DEF ResetFile
<1> HIDE DEF residue, down, up
<1>5. /\ start \in Nat /\ up < start
      /\ (start + residue) % FirstTensorAlignment = 0
  BY <1>2, <1>3, AlignedStartFacts
<1> HIDE DEF start
<1>6. /\ r \in LayoutRecord /\ r.failed = FALSE
      /\ r.tensors = s.tensors /\ r.chunks = s.chunks
      /\ r.in_buffer = s.in_buffer /\ r.left_most = s.left_most
      /\ r.file = file /\ r.file_offset = down /\ r.current_size = residue
      /\ r.device_offset = start
      /\ SameInput(s, r) /\ SameLoop(s, r)
  BY <1>1, <1>2, <1>5 DEF LayoutRecord, SameInput, SameLoop
<1> HIDE DEF r
<1>7. ResetFile(s, file, at) = r
  BY <1>4, <1>6 DEF FailIf, LayoutRecord
<1>8. r.device_offset >= s.device_offset
  BY <1>1, <1>3, <1>5, <1>6
<1> QED
  BY <1>2, <1>5, <1>6, <1>7, <1>8 DEF TurnedTo
-----------------------------------------------------------------------------
(* finish_chunk keeps Core and leaves nothing pending.                     *)

\* The device bytes of the chunk just emitted, and the sizes around it.
LEMMA EmittedChunk ==
  ASSUME NEW s \in LayoutRecord, NEW r, Finished(s, r), s.current_size > 0
  PROVE  /\ Reserved(r, Len(s.chunks)) = s.device_offset .. r.device_offset - 1
         /\ r.device_offset >= s.device_offset + s.current_size
         /\ r.file_offset + r.current_size = s.file_offset + s.current_size
         /\ r.current_size < ThreadAlignment
         /\ \A c \in 0 .. Len(s.chunks) - 1 : Reserved(r, c) = Reserved(s, c)
<1> DEFINE down == RoundDown(s.current_size, ThreadAlignment)
           up == RoundUp(s.current_size, WorldChunkAlignment)
           rest == s.current_size % ThreadAlignment
<1>1. /\ down \in Nat /\ rest \in Nat /\ rest < ThreadAlignment
      /\ down + rest = s.current_size
  BY Sizes, RoundDownFacts DEF LayoutRecord
<1>2. up \in Nat /\ up >= s.current_size
  BY Sizes, RoundUpFacts DEF LayoutRecord
<1>3. Reserved(r, Len(s.chunks)) = s.device_offset .. s.device_offset + up - 1
  BY DEF Reserved, Finished
<1>4. /\ r.file_offset = s.file_offset + down /\ r.device_offset = s.device_offset + up
      /\ r.current_size = rest
  BY DEF Finished
<1>5. /\ s.device_offset \in Nat /\ s.file_offset \in Nat /\ s.current_size \in Nat
  BY DEF LayoutRecord
<1>6. \A c \in 0 .. Len(s.chunks) - 1 : Reserved(r, c) = Reserved(s, c)
  BY DEF Reserved, Finished
<1> HIDE DEF down, up, rest
<1>7. Reserved(r, Len(s.chunks)) = s.device_offset .. r.device_offset - 1
  BY <1>2, <1>3, <1>4, <1>5
<1>8. /\ r.device_offset >= s.device_offset + s.current_size
      /\ r.file_offset + r.current_size = s.file_offset + s.current_size
      /\ r.current_size < ThreadAlignment
  BY <1>1, <1>2, <1>4, <1>5
<1> QED
  BY <1>6, <1>7, <1>8

\* An emitted byte stays so, in the chunks there were already ...
LEMMA EmittedKept ==
  ASSUME NEW s \in LayoutRecord, NEW r, Finished(s, r), s.current_size > 0,
         NEW file, NEW at, NEW x, NEW last, NEW d \in Int, d < Len(s.chunks),
         Emitted(s, file, at, x, last, d)
  PROVE  Emitted(r, file, at, x, last, d)
<1> DEFINE n == Len(s.chunks)
<1>1. PICK c \in 0 .. n - 1 :
        c <= last /\ CarriesByte(s, c, file, at, x) /\ Untouched(s, c, d, x)
  BY DEF Emitted
<1>2. n \in Nat /\ Len(r.chunks) = n + 1 /\ c \in 0 .. Len(r.chunks) - 1
  BY Lookups DEF Finished
<1>3. CarriesByte(r, c, file, at, x)
  BY <1>1 DEF CarriesByte, Finished
<1>4. Untouched(r, c, d, x)
  <2> SUFFICES ASSUME NEW e \in 0 .. n, c < e /\ e <= d PROVE x \notin Reserved(r, e)
    BY <1>2 DEF Untouched
  <2>1. e \in 0 .. n - 1
    BY <1>2
  <2> QED
    BY <1>1, <2>1, EmittedChunk DEF Untouched
<1> QED
  BY <1>1, <1>2, <1>3, <1>4 DEF Emitted

\* ... and in the new one, unless it is copied over the byte.
LEMMA EmittedBeside ==
  ASSUME NEW s \in LayoutRecord, NEW r, Finished(s, r), s.current_size > 0,
         NEW file, NEW at, NEW x, NEW last,
         Emitted(s, file, at, x, last, Latest(s)),
         x \notin s.device_offset .. r.device_offset - 1
  PROVE  Emitted(r, file, at, x, last, Latest(r))
<1> DEFINE n == Len(s.chunks)
<1>1. PICK c \in 0 .. n - 1 :
        c <= last /\ CarriesByte(s, c, file, at, x) /\ Untouched(s, c, n - 1, x)
  BY DEF Emitted, Latest
<1>2. n \in Nat /\ Len(r.chunks) = n + 1 /\ c \in 0 .. Len(r.chunks) - 1 /\ Latest(r) = n
  BY Lookups DEF Finished, Latest
<1>3. CarriesByte(r, c, file, at, x)
  BY <1>1 DEF CarriesByte, Finished
<1>4. Untouched(r, c, n, x)
  <2> SUFFICES ASSUME NEW e \in 0 .. n, c < e PROVE x \notin Reserved(r, e)
    BY <1>2 DEF Untouched
  <2>1. CASE e = n
    BY <2>1, EmittedChunk
  <2>2. CASE e \in 0 .. n - 1
    BY <1>1, <1>2, <2>2, EmittedChunk DEF Untouched
  <2> QED
    BY <1>2, <2>1, <2>2
<1> QED
  BY <1>1, <1>2, <1>3, <1>4 DEF Emitted

\* What was pending is emitted.
LEMMA PendingEmitted ==
  ASSUME NEW s \in LayoutRecord, NEW r, Finished(s, r), s.current_size > 0,
         NEW file, NEW at \in Int, NEW x \in Int, NEW last \in Int,
         Pending(s, file, at, x), last >= Len(s.chunks)
  PROVE  x < r.device_offset /\ Emitted(r, file, at, x, last, Latest(r))
<1> DEFINE n == Len(s.chunks)
<1>1. n \in Nat /\ Len(r.chunks) = n + 1 /\ Latest(r) = n
  BY Lookups DEF Finished, Latest
<1>0. s.file_offset \in Nat /\ s.current_size \in Nat /\ s.device_offset \in Nat
  BY DEF LayoutRecord
<1>2. CarriesByte(r, n, file, at, x)
  <2>1. /\ Chunk(r, n).size = s.current_size /\ Chunk(r, n).file = s.file
        /\ Chunk(r, n).file_offset = s.file_offset
        /\ Chunk(r, n).device_buffer_offset = s.device_offset
    BY DEF Finished
  <2> QED
    BY <1>0, <2>1 DEF CarriesByte, Pending
<1>3. Untouched(r, n, n, x)
  BY <1>1 DEF Untouched
<1>4. x < r.device_offset
  <2>1. x < s.device_offset + s.current_size
    BY <1>0 DEF Pending
  <2>2. r.device_offset >= s.device_offset + s.current_size
    BY EmittedChunk
  <2>3. r.device_offset \in Nat /\ s.device_offset \in Nat /\ s.current_size \in Nat
    BY DEF LayoutRecord, Finished
  <2> QED
    BY <2>1, <2>2, <2>3
<1> QED
  BY <1>1, <1>2, <1>3, <1>4 DEF Emitted

\* The bytes of a tensor are the same ones after finish_chunk.
LEMMA SameBytes ==
  ASSUME NEW s, NEW r, SameTensors(s, r), NEW t \in 0 .. NextTensorId(s) - 1
  PROVE  /\ Region(r, t) = Region(s, t)
         /\ \A x : AtOf(r, t, x) = AtOf(s, t, x)
         /\ \A x, d : EmittedOf(r, t, x, d)
                        <=> Emitted(r, Tensor(s, t).file, AtOf(s, t, x), x,
                                    Tensor(s, t).last_chunk_id, d)
BY DEF SameTensors, Region, AtOf, EmittedOf

\* A byte of a tensor is a number.
LEMMA BytesAreNumbers ==
  ASSUME NEW s \in LayoutRecord, NEW t \in 0 .. NextTensorId(s) - 1, NEW x \in Region(s, t)
  PROVE  /\ x \in Nat /\ AtOf(s, t, x) \in Int
         /\ x >= Tensor(s, t).device_buffer_offset
         /\ x < Tensor(s, t).device_buffer_offset + Tensor(s, t).size
         /\ AtOf(s, t, x) >= Tensor(s, t).file_offset
         /\ AtOf(s, t, x) < Tensor(s, t).file_offset + Tensor(s, t).size
<1>1. /\ Tensor(s, t).size \in Nat /\ Tensor(s, t).file_offset \in Nat
      /\ Tensor(s, t).device_buffer_offset \in Nat
  BY Lookups
<1> QED
  BY <1>1 DEF Region, AtOf

\* The counters of the two records.
LEMMA FinishedCounts ==
  ASSUME NEW s \in LayoutRecord, NEW r, Finished(s, r), Cursor(s)
  PROVE  /\ Len(s.chunks) \in Nat /\ Latest(s) = Len(s.chunks) - 1
         /\ Len(r.chunks) = Len(s.chunks) + 1 /\ Latest(r) = Len(s.chunks)
         /\ s.in_buffer \in Nat /\ s.left_most \in Nat /\ NextTensorId(s) \in Nat
         /\ s.left_most <= NextTensorId(s) /\ NextTensorId(r) = NextTensorId(s)
         /\ r.left_most = s.left_most /\ r.in_buffer \in s.in_buffer .. s.left_most
         /\ SameTensors(s, r) /\ r \in LayoutRecord
<1>1. Len(s.chunks) \in Nat /\ NextTensorId(s) \in Nat
  BY Lookups
<1>2. s.in_buffer \in Nat /\ s.left_most \in Nat /\ s.left_most <= NextTensorId(s)
  BY DEF LayoutRecord, Cursor
<1>3. /\ Len(r.chunks) = Len(s.chunks) + 1 /\ SameTensors(s, r) /\ r \in LayoutRecord
      /\ r.left_most = s.left_most /\ r.in_buffer \in s.in_buffer .. s.left_most
  BY DEF Finished
<1>4. NextTensorId(r) = NextTensorId(s)
  BY <1>3 DEF SameTensors
<1> QED
  BY <1>1, <1>2, <1>3, <1>4 DEF Latest

\* A byte of a tensor that is in a chunk stays there.
LEMMA EmittedOfKept ==
  ASSUME NEW s \in LayoutRecord, NEW r, Finished(s, r), s.current_size > 0,
         NEW t \in 0 .. NextTensorId(s) - 1, NEW x, NEW d \in Int, d < Len(s.chunks),
         EmittedOf(s, t, x, d)
  PROVE  EmittedOf(r, t, x, d)
<1>1. SameTensors(s, r)
  BY DEF Finished
<1>2. Emitted(r, Tensor(s, t).file, AtOf(s, t, x), x, Tensor(s, t).last_chunk_id, d)
  BY EmittedKept, Zenon DEF EmittedOf
<1> QED
  BY <1>1, <1>2, SameBytes, Zenon

LEMMA FinishLeft ==
  ASSUME NEW s \in LayoutRecord, NEW r, Finished(s, r), s.current_size > 0,
         Cursor(s), Left(s), LayerBefore(s)
  PROVE  Left(r)
<1> DEFINE n == Len(s.chunks)
           m(t) == Tensor(s, t)
           bound(t) == Tensor(r, t).prefetch_chunk_id
<1>1. /\ n \in Nat /\ Latest(s) = n - 1 /\ Latest(r) = n
      /\ r.left_most = s.left_most /\ r.in_buffer \in s.in_buffer .. s.left_most
      /\ s.in_buffer \in Nat /\ s.left_most \in Nat /\ s.left_most <= NextTensorId(s)
      /\ NextTensorId(s) \in Nat
      /\ SameTensors(s, r)
  BY FinishedCounts
<1>7. LeaveWith(s, r, r.in_buffer, n - 1)
  BY DEF Finished
<1>2. \A t \in 0 .. s.in_buffer - 1 : bound(t) = m(t).prefetch_chunk_id /\ bound(t) <= n - 1
  BY <1>1, <1>7 DEF LeaveWith, Left
<1>3. \A t \in s.in_buffer .. r.in_buffer - 1 : bound(t) = n - 1
  BY <1>1, <1>7 DEF LeaveWith
<1> SUFFICES ASSUME NEW t \in 0 .. r.in_buffer - 1
             PROVE  /\ bound(t) <= n
                    /\ Tensor(r, t).size > 0 => Tensor(r, t).last_chunk_id <= bound(t)
                    /\ \A x \in Region(r, t) : EmittedOf(r, t, x, bound(t))
                    /\ \A u \in 0 .. t : bound(u) <= bound(t)
  BY <1>1 DEF Left
<1>4. /\ t \in 0 .. NextTensorId(s) - 1
      /\ Tensor(r, t).size = m(t).size /\ Tensor(r, t).last_chunk_id = m(t).last_chunk_id
  BY <1>1 DEF SameTensors
<1>5. CASE t \in 0 .. s.in_buffer - 1
  <2>1. bound(t) = m(t).prefetch_chunk_id /\ bound(t) <= n - 1 /\ bound(t) \in Int
    BY <1>2, <1>4, <1>5, Lookups
  <2>2. \A x \in Region(r, t) : EmittedOf(r, t, x, bound(t))
    <3> SUFFICES ASSUME NEW x \in Region(s, t) PROVE EmittedOf(r, t, x, bound(t))
      BY <1>1, <1>4, SameBytes
    <3>1. EmittedOf(s, t, x, bound(t))
      BY <1>5, <2>1 DEF Left
    <3> QED
      BY <1>1, <1>4, <2>1, <3>1, EmittedOfKept
  <2>3. \A u \in 0 .. t : bound(u) <= bound(t)
    <3> SUFFICES ASSUME NEW u \in 0 .. t PROVE bound(u) <= bound(t)
      OBVIOUS
    <3>1. m(u).prefetch_chunk_id <= m(t).prefetch_chunk_id
      BY <1>5 DEF Left
    <3> QED
      BY <1>1, <1>2, <1>5, <3>1
  <2>4. m(t).size > 0 => m(t).last_chunk_id <= m(t).prefetch_chunk_id
    BY <1>5 DEF Left
  <2> QED
    BY <1>1, <1>4, <2>1, <2>2, <2>3, <2>4
<1>6. CASE t \in s.in_buffer .. r.in_buffer - 1
  <2>1. bound(t) = n - 1
    BY <1>3, <1>6
  <2>2. t \in s.in_buffer .. s.left_most - 1
    BY <1>1, <1>6
  <2>3. \A x \in Region(r, t) : EmittedOf(r, t, x, bound(t))
    <3> SUFFICES ASSUME NEW x \in Region(s, t) PROVE EmittedOf(r, t, x, n - 1)
      BY <1>1, <1>4, <2>1, SameBytes
    <3>1. EmittedOf(s, t, x, n - 1)
      BY <1>1, <2>2 DEF LayerBefore
    <3> QED
      BY <1>1, <1>4, <3>1, EmittedOfKept
  <2>4. \A u \in 0 .. t : bound(u) <= bound(t)
    BY <1>1, <1>2, <1>3, <2>1, <2>2
  <2>5. m(t).size > 0 => m(t).last_chunk_id <= n - 1
    BY <1>1, <2>2 DEF LayerBefore
  <2> QED
    BY <1>1, <1>4, <2>1, <2>3, <2>4, <2>5
<1> QED
  BY <1>1, <1>5, <1>6

LEMMA FinishLayerBefore ==
  ASSUME NEW s \in LayoutRecord, NEW r, Finished(s, r), s.current_size > 0,
         Cursor(s), LayerBefore(s)
  PROVE  LayerBefore(r)
<1> DEFINE n == Len(s.chunks)
<1>1. /\ n \in Nat /\ Latest(s) = n - 1 /\ Latest(r) = n
      /\ r.left_most = s.left_most /\ r.in_buffer \in s.in_buffer .. s.left_most
      /\ s.in_buffer \in Nat /\ s.left_most \in Nat /\ s.left_most <= NextTensorId(s)
      /\ NextTensorId(s) \in Nat /\ SameTensors(s, r)
      /\ r.device_offset \in Nat
  <2>1. /\ n \in Nat /\ Latest(s) = n - 1 /\ Latest(r) = n
        /\ r.left_most = s.left_most /\ r.in_buffer \in s.in_buffer .. s.left_most
        /\ s.in_buffer \in Nat /\ s.left_most \in Nat /\ s.left_most <= NextTensorId(s)
        /\ NextTensorId(s) \in Nat /\ SameTensors(s, r) /\ r \in LayoutRecord
    BY FinishedCounts
  <2>2. r.device_offset \in Nat
    BY <2>1 DEF LayoutRecord
  <2> QED
    BY <2>1, <2>2
<1> SUFFICES ASSUME NEW t \in r.in_buffer .. s.left_most - 1
             PROVE  /\ Tensor(r, t).size > 0 => Tensor(r, t).last_chunk_id <= n
                    /\ \A x \in Region(r, t) : EmittedOf(r, t, x, n)
                    /\ \A u \in t .. s.left_most - 1 :
                         Tensor(r, t).device_buffer_offset <= Tensor(r, u).device_buffer_offset
  BY <1>1 DEF LayerBefore
<1>2. t \in 0 .. NextTensorId(s) - 1 /\ t \in s.in_buffer .. s.left_most - 1
  BY <1>1
<1>3. Tensor(r, t).size > 0 => Tensor(r, t).last_chunk_id <= n
  <2>1. Tensor(s, t).size > 0 => Tensor(s, t).last_chunk_id <= n - 1
    BY <1>1, <1>2 DEF LayerBefore
  <2> QED
    BY <1>1, <1>2, <2>1, Lookups DEF SameTensors
<1>4. ASSUME NEW x \in Region(s, t) PROVE EmittedOf(r, t, x, n)
  <2>1. EmittedOf(s, t, x, n - 1)
    BY <1>1, <1>2 DEF LayerBefore
  <2>2. Tensor(s, t).device_buffer_offset >= r.device_offset
    BY DEF Finished
  <2>3. x \notin s.device_offset .. r.device_offset - 1
    BY <1>1, <1>2, <2>2, BytesAreNumbers, Lookups
  <2>4. Emitted(s, Tensor(s, t).file, AtOf(s, t, x), x, Tensor(s, t).last_chunk_id, Latest(s))
    BY <1>1, <2>1 DEF EmittedOf
  <2>5. Emitted(r, Tensor(s, t).file, AtOf(s, t, x), x, Tensor(s, t).last_chunk_id, Latest(r))
    BY <2>3, <2>4, EmittedBeside
  <2> QED
    BY <1>1, <1>2, <2>5, SameBytes
<1>5. ASSUME NEW u \in t .. s.left_most - 1
      PROVE  Tensor(r, t).device_buffer_offset <= Tensor(r, u).device_buffer_offset
  <2>1. Tensor(s, t).device_buffer_offset <= Tensor(s, u).device_buffer_offset
    BY <1>2 DEF LayerBefore
  <2>2. u \in 0 .. NextTensorId(s) - 1
    BY <1>1
  <2> QED
    BY <1>1, <1>2, <2>1, <2>2 DEF SameTensors
<1> QED
  BY <1>1, <1>2, <1>3, <1>4, <1>5, SameBytes

LEMMA FinishCurrentLayer ==
  ASSUME NEW s \in LayoutRecord, NEW r, Finished(s, r), s.current_size > 0,
         Cursor(s), CurrentLayer(s), Address(s) <= s.device_offset + s.current_size
  PROVE  CurrentLayer(r) /\ Settled(r)
<1> DEFINE n == Len(s.chunks)
<1>1. /\ n \in Nat /\ Latest(s) = n - 1 /\ Latest(r) = n /\ Len(r.chunks) = n + 1
      /\ r.left_most = s.left_most /\ s.left_most \in Nat
      /\ NextTensorId(s) \in Nat /\ NextTensorId(r) = NextTensorId(s)
      /\ SameTensors(s, r) /\ r \in LayoutRecord
  BY FinishedCounts
<1>2. /\ r.device_offset >= s.device_offset + s.current_size
      /\ r.current_size < ThreadAlignment
      /\ r.device_offset \in Nat /\ s.device_offset \in Nat
      /\ s.current_size \in Nat /\ r.current_size \in Nat /\ s.placed_at \in Nat
  BY <1>1, EmittedChunk DEF LayoutRecord
<1>3. Address(s) <= r.device_offset /\ Address(s) <= Address(r)
      /\ Address(s) \in Nat /\ Address(r) \in Nat
  <2>1. r.placed_at = s.placed_at /\ r.pc = s.pc
    BY DEF Finished, SameLoop
  <2> QED
    BY <1>2, <2>1 DEF Address
<1>4. ASSUME NEW t \in s.left_most .. NextTensorId(s) - 1
      PROVE  /\ t \in 0 .. NextTensorId(s) - 1
             /\ Tensor(s, t).last_chunk_id <= n
             /\ Tensor(s, t).device_buffer_offset <= Address(s)
             /\ \A u \in t .. NextTensorId(s) - 1 :
                  Tensor(s, t).device_buffer_offset <= Tensor(s, u).device_buffer_offset
  BY <1>1 DEF CurrentLayer
<1>5. ASSUME NEW t \in s.left_most .. NextTensorId(s) - 1, NEW x \in Region(s, t)
      PROVE  x < r.device_offset /\ EmittedOf(r, t, x, n)
  <2>1. t \in 0 .. NextTensorId(s) - 1
    BY <1>4
  <2>2. x \in Nat /\ AtOf(s, t, x) \in Int /\ Tensor(s, t).last_chunk_id \in Int
    BY <2>1, BytesAreNumbers, Lookups
  <2>3. x < r.device_offset
         /\ Emitted(r, Tensor(s, t).file, AtOf(s, t, x), x, Tensor(s, t).last_chunk_id, n)
    <3>1. CASE x < s.device_offset /\ EmittedOf(s, t, x, n - 1)
      <4>1. Emitted(s, Tensor(s, t).file, AtOf(s, t, x), x, Tensor(s, t).last_chunk_id, Latest(s))
        BY <1>1, <3>1 DEF EmittedOf
      <4>2. x \notin s.device_offset .. r.device_offset - 1
        BY <1>2, <2>2, <3>1
      <4>3. Emitted(r, Tensor(s, t).file, AtOf(s, t, x), x, Tensor(s, t).last_chunk_id, Latest(r))
        BY <4>1, <4>2, EmittedBeside
      <4> QED
        BY <1>1, <1>2, <2>2, <3>1, <4>3
    <3>2. CASE /\ Tensor(s, t).last_chunk_id = n
               /\ Pending(s, Tensor(s, t).file, AtOf(s, t, x), x)
      <4>1. Tensor(s, t).last_chunk_id >= Len(s.chunks)
        BY <1>1, <3>2
      <4>2. /\ x < r.device_offset
            /\ Emitted(r, Tensor(s, t).file, AtOf(s, t, x), x,
                       Tensor(s, t).last_chunk_id, Latest(r))
        <5>1. x \in Int
          BY <2>2
        <5> QED
          BY <2>2, <3>2, <4>1, <5>1, PendingEmitted, Zenon
      <4> QED
        BY <1>1, <4>2
    <3> QED
      BY <1>1, <3>1, <3>2 DEF CurrentLayer
  <2> QED
    BY <1>1, <2>1, <2>3, SameBytes
<1>6. ASSUME NEW t \in s.left_most .. NextTensorId(s) - 1
      PROVE  /\ Tensor(r, t).last_chunk_id = Tensor(s, t).last_chunk_id
             /\ Tensor(r, t).device_buffer_offset = Tensor(s, t).device_buffer_offset
             /\ Tensor(r, t).last_chunk_id \in Nat /\ Tensor(r, t).device_buffer_offset \in Nat
             /\ Region(r, t) = Region(s, t)
  BY <1>1, <1>4, SameBytes, Lookups DEF SameTensors
<1>7. CurrentLayer(r)
  <2> SUFFICES ASSUME NEW t \in s.left_most .. NextTensorId(s) - 1
               PROVE  /\ Tensor(r, t).last_chunk_id <= n + 1
                      /\ Tensor(r, t).last_chunk_id # n + 1
                      /\ Tensor(r, t).device_buffer_offset <= Address(r)
                      /\ \A x \in Region(r, t) :
                           x < r.device_offset /\ EmittedOf(r, t, x, Latest(r))
                      /\ \A u \in t .. NextTensorId(s) - 1 :
                           Tensor(r, t).device_buffer_offset <= Tensor(r, u).device_buffer_offset
    BY <1>1 DEF CurrentLayer
  <2>1. \A u \in t .. NextTensorId(s) - 1 :
          Tensor(r, t).device_buffer_offset <= Tensor(r, u).device_buffer_offset
    BY <1>1, <1>4, <1>6
  <2>2. \A x \in Region(r, t) : x < r.device_offset /\ EmittedOf(r, t, x, Latest(r))
    BY <1>1, <1>5, <1>6
  <2> QED
    BY <1>1, <1>3, <1>4, <1>6, <2>1, <2>2, SMTT(30)
<1>8. Settled(r)
  <2> SUFFICES ASSUME NEW t \in s.left_most .. NextTensorId(s) - 1
               PROVE  /\ Tensor(r, t).last_chunk_id <= n
                      /\ Tensor(r, t).device_buffer_offset <= r.device_offset
                      /\ \A x \in Region(r, t) :
                           x < r.device_offset /\ EmittedOf(r, t, x, Latest(r))
    BY <1>1, <1>2 DEF Settled
  <2>1. \A x \in Region(r, t) : x < r.device_offset /\ EmittedOf(r, t, x, Latest(r))
    BY <1>1, <1>5, <1>6
  <2>2. Tensor(s, t).last_chunk_id <= n /\ Tensor(s, t).device_buffer_offset <= Address(s)
    BY <1>4
  <2>3. /\ Tensor(r, t).last_chunk_id = Tensor(s, t).last_chunk_id
        /\ Tensor(r, t).device_buffer_offset = Tensor(s, t).device_buffer_offset
        /\ Tensor(r, t).device_buffer_offset \in Nat
    BY <1>6
  <2>4. Tensor(r, t).device_buffer_offset <= r.device_offset
    BY <1>2, <1>3, <2>2, <2>3
  <2> QED
    BY <2>1, <2>2, <2>3, <2>4
<1> QED
  BY <1>7, <1>8

\* The part of a tensor that was pending is emitted too.
LEMMA FinishBeingPlaced ==
  ASSUME NEW s \in LayoutRecord, NEW r, Finished(s, r), s.current_size > 0,
         Cursor(s), BeingPlaced(s), WithinTensor(s), Offset(s, s.i).at \in Nat
  PROVE  BeingPlaced(r)
<1> DEFINE n == Len(s.chunks)
           begin == Offset(s, s.i).at
<1>1. /\ n \in Nat /\ Latest(s) = n - 1 /\ Latest(r) = n
  BY FinishedCounts
<1>2. /\ r.device_offset >= s.device_offset + s.current_size
      /\ r.file_offset + r.current_size = s.file_offset + s.current_size
      /\ s.device_offset \in Nat /\ r.device_offset \in Nat
      /\ s.current_size \in Nat /\ s.placed_at \in Nat /\ s.file_offset \in Nat
      /\ r.current_size \in Nat /\ r.file_offset \in Nat
  BY EmittedChunk DEF LayoutRecord, Finished
<1>3. /\ r.placed_at = s.placed_at /\ Offset(r, r.i).at = begin /\ r.file = s.file
  BY DEF Finished, SameLoop, SameInput, Offset
<1> SUFFICES ASSUME NEW at \in Offset(r, r.i).at .. r.file_offset + r.current_size - 1
             PROVE  LET x == r.placed_at + (at - Offset(r, r.i).at)
                    IN x < r.device_offset /\ Emitted(r, r.file, at, x, Latest(r), Latest(r))
  BY DEF BeingPlaced
<1> DEFINE x == s.placed_at + (at - begin)
<1>4. at \in Int /\ x \in Int /\ at \in begin .. s.file_offset + s.current_size - 1
  BY <1>2, <1>3
<1>7. x = r.placed_at + (at - Offset(r, r.i).at)
  BY <1>3
<1>8. \/ x < s.device_offset /\ Emitted(s, s.file, at, x, Latest(s), Latest(s))
      \/ Pending(s, s.file, at, x)
  BY <1>4 DEF BeingPlaced
<1> HIDE DEF x
<1>5. CASE x < s.device_offset /\ Emitted(s, s.file, at, x, Latest(s), Latest(s))
  <2>1. x \notin s.device_offset .. r.device_offset - 1
    BY <1>2, <1>4, <1>5
  <2>2. Emitted(r, s.file, at, x, Latest(s), Latest(r))
    BY <1>5, <2>1, EmittedBeside
  <2>3. Emitted(r, s.file, at, x, Latest(r), Latest(r))
    <3>1. PICK c \in 0 .. Len(r.chunks) - 1 :
            c <= n - 1 /\ CarriesByte(r, c, s.file, at, x) /\ Untouched(r, c, Latest(r), x)
      BY <1>1, <2>2 DEF Emitted
    <3>2. c <= Latest(r)
      BY <1>1, <3>1
    <3> QED
      BY <3>1, <3>2 DEF Emitted
  <2> QED
    BY <1>2, <1>3, <1>4, <1>5, <1>7, <2>3
<1>6. CASE Pending(s, s.file, at, x)
  <2>1. Latest(r) \in Int /\ Latest(r) >= Len(s.chunks)
    BY <1>1
  <2> QED
    BY <1>3, <1>4, <1>6, <1>7, <2>1, PendingEmitted
<1> QED
  BY <1>5, <1>6, <1>8

LEMMA FinishBuffer ==
  ASSUME NEW s \in LayoutRecord, NEW r, Finished(s, r), s.current_size > 0, s.pc # "done",
         InBufferOrHeader(s), FilesSoFar(s), Aligned(s),
         \/ s.device_offset + RoundUp(s.current_size, WorldChunkAlignment) <= s.buffer_size
         \/ /\ \A t \in 0 .. NextTensorId(s) - 1 : Tensor(s, t).file # s.file
            /\ s.file_offset + s.current_size = Offset(s, s.i).at
  PROVE  InBufferOrHeader(r) /\ FilesSoFar(r) /\ Aligned(r)
<1> DEFINE n == Len(s.chunks)
<1>1. /\ n \in Nat /\ Len(r.chunks) = n + 1 /\ NextTensorId(r) = NextTensorId(s)
      /\ NextTensorId(s) \in Nat /\ SameTensors(s, r)
      /\ r.file = s.file /\ r.buffer_size = s.buffer_size
      /\ Offset(r, r.i) = Offset(s, s.i) /\ r.pc = s.pc
  BY Lookups DEF Finished, SameTensors, SameInput, SameLoop, Offset
<1>2. ASSUME NEW c \in 0 .. n - 1
      PROVE  Chunk(r, c).file <= r.file /\ (ChunkInBuffer(r, c) \/ HeaderOnly(r, c))
  <2>1. Chunk(r, c) = Chunk(s, c)
    BY DEF Finished
  <2>2. ChunkInBuffer(s, c) => ChunkInBuffer(r, c)
    BY <1>1, <2>1 DEF ChunkInBuffer
  <2>3. HeaderOnly(s, c) => HeaderOnly(r, c)
    BY <1>1, <2>1 DEF HeaderOnly, ChunkEnd, SameTensors
  <2> QED
    BY <1>1, <2>1, <2>2, <2>3 DEF InBufferOrHeader
<1>3. Chunk(r, n).file <= r.file /\ (ChunkInBuffer(r, n) \/ HeaderOnly(r, n))
  <2>1. /\ Chunk(r, n).size = s.current_size /\ Chunk(r, n).file = s.file
        /\ Chunk(r, n).file_offset = s.file_offset
        /\ Chunk(r, n).device_buffer_offset = s.device_offset
    BY DEF Finished
  <2>2. s.file \in Nat /\ s.file_offset \in Nat /\ s.current_size \in Nat
    BY DEF LayoutRecord
  <2>3. CASE s.device_offset + RoundUp(s.current_size, WorldChunkAlignment) <= s.buffer_size
    BY <1>1, <2>1, <2>2, <2>3 DEF ChunkInBuffer
  <2>4. CASE /\ \A t \in 0 .. NextTensorId(s) - 1 : Tensor(s, t).file # s.file
             /\ s.file_offset + s.current_size = Offset(s, s.i).at
    <3>1. ChunkEnd(r, n) = Offset(r, r.i).at
      BY <1>1, <2>1, <2>4 DEF ChunkEnd
    <3>2. s.file_offset + s.current_size \in Nat
      BY <2>2
    <3>3. ChunkEnd(r, n) <= Offset(r, r.i).at
      BY <2>4, <3>1, <3>2, <1>1
    <3> QED
      BY <1>1, <2>1, <2>2, <2>4, <3>3 DEF HeaderOnly, SameTensors
  <2> QED
    BY <2>3, <2>4
<1>4. InBufferOrHeader(r)
  BY <1>1, <1>2, <1>3 DEF InBufferOrHeader
<1>5. FilesSoFar(r)
  BY <1>1 DEF FilesSoFar, SameTensors
<1>6. Aligned(r)
  <2> SUFFICES ASSUME NEW t \in 0 .. NextTensorId(s) - 1 PROVE AlignedTensor(r, t)
    BY <1>1 DEF Aligned
  <2>1. AlignedTensor(s, t)
    BY DEF Aligned
  <2>2. t > 0 => t - 1 \in 0 .. NextTensorId(s) - 1
    BY <1>1
  <2> QED
    BY <1>1, <2>1, <2>2 DEF AlignedTensor, SameTensors
<1> QED
  BY <1>4, <1>5, <1>6

\* The numbers of a record, to cite.
LEMMA Numbers ==
  ASSUME NEW s \in LayoutRecord
  PROVE  /\ s.file \in Nat /\ s.file_offset \in Nat /\ s.device_offset \in Nat
         /\ s.current_size \in Nat /\ s.in_buffer \in Nat /\ s.left_most \in Nat
         /\ s.i \in Nat /\ s.placed_at \in Nat /\ s.size_left \in Nat
         /\ s.pc \in {"next", "split", "done"}
BY DEF LayoutRecord

\* The offsets around the cursor.
LEMMA CursorOffsets ==
  ASSUME NEW s, Core(s), s.pc # "done"
  PROVE  /\ Offset(s, s.i).at \in Nat /\ Offset(s, s.i).file \in Nat
         /\ s.pc = "next" => Address(s) = s.device_offset + s.current_size
         /\ s.pc = "split" => /\ Address(s) = s.placed_at
                              /\ Offset(s, s.i + 1).at \in Nat
                              /\ TensorSize(s) = Offset(s, s.i + 1).at - Offset(s, s.i).at
                              /\ TensorSize(s) \in Nat /\ TensorSize(s) <= s.requested
         /\ Address(s) <= s.device_offset + s.current_size
<1>1. s \in LayoutRecord /\ FromInput(s) /\ Position(s)
  BY DEF Core
<1>2. s.i \in 0 .. NumOffsets(s) - 1
  BY <1>1, Numbers, InputFacts DEF Position, BetweenTensors, WithinTensor
<1>3. Offset(s, s.i).at \in Nat /\ Offset(s, s.i).file \in Nat
  BY <1>1, <1>2, InputFacts
<1>4. CASE s.pc = "next"
  BY <1>1, <1>3, <1>4, Numbers DEF Address
<1>5. CASE s.pc = "split"
  <2>1. /\ s.i < NumOffsets(s) - 1
        /\ Offset(s, s.i + 1).file = Offset(s, s.i).file
        /\ s.file_offset + s.current_size >= Offset(s, s.i).at
        /\ s.placed_at + s.file_offset = s.device_offset + Offset(s, s.i).at
    BY <1>1, <1>5 DEF Position, WithinTensor
  <2>2. s.i \in 0 .. NumOffsets(s) - 2 /\ s.i + 1 \in 0 .. NumOffsets(s) - 1
    BY <1>1, <1>2, <2>1, Numbers, InputFacts
  <2>3. Offset(s, s.i + 1).at \in Nat
    BY <1>1, <2>2, InputFacts
  <2>4. /\ Offset(s, s.i + 1).at >= Offset(s, s.i).at
        /\ Offset(s, s.i + 1).at - Offset(s, s.i).at <= s.requested
    BY <1>1, <1>3, <2>1, <2>2, InputFacts
  <2>5. TensorSize(s) = Offset(s, s.i + 1).at - Offset(s, s.i).at
    BY DEF TensorSize
  <2>6. s.placed_at <= s.device_offset + s.current_size
    BY <1>1, <1>3, <2>1, Numbers
  <2> QED
    BY <1>3, <1>5, <2>3, <2>4, <2>5, <2>6 DEF Address
<1> QED
  BY <1>1, <1>4, <1>5, Numbers

\* finish_chunk keeps Core, and nothing is pending after it.
LEMMA FinishChunkCore ==
  ASSUME NEW s, Core(s), s.pc # "done",
         s.pc = "next" => PendingFits(s),
         s.pc = "split" => /\ s.current_size = WorldChunkSize
                           /\ s.device_offset + WorldChunkSize <= s.buffer_size
  PROVE  LET r == FinishChunk(s)
         IN /\ Core(r)
            /\ Settled(r)
            /\ SameTensors(s, r) /\ SameInput(s, r) /\ SameLoop(s, r)
            /\ r.file = s.file /\ r.left_most = s.left_most
            /\ r.file_offset + r.current_size = s.file_offset + s.current_size
            /\ s.current_size = 0 => r = s
            /\ s.current_size > 0 => Finished(s, r)
<1> DEFINE r == FinishChunk(s)
<1>1. /\ s \in LayoutRecord /\ ~s.failed /\ FromInput(s) /\ Cursor(s) /\ Position(s)
      /\ Left(s) /\ LayerBefore(s) /\ CurrentLayer(s)
      /\ InBufferOrHeader(s) /\ FilesSoFar(s) /\ Aligned(s)
  BY DEF Core
<1>2. s.current_size \in Nat /\ s.pc \in {"next", "split"}
  BY <1>1, Numbers
<1>3. CASE s.current_size = 0
  <2>1. r = s
    BY <1>3 DEF FinishChunk
  <2>2. Settled(s)
    <3>1. s.pc = "next"
      BY <1>2, <1>3, Sizes
    <3>2. Address(s) = s.device_offset
      BY <1>1, <1>3, <3>1, CursorOffsets, Numbers
    <3>3. ASSUME NEW t \in s.left_most .. NextTensorId(s) - 1
          PROVE  /\ Tensor(s, t).size > 0 => Tensor(s, t).last_chunk_id <= Latest(s)
                 /\ Tensor(s, t).device_buffer_offset <= s.device_offset
                 /\ \A x \in Region(s, t) : x < s.device_offset /\ EmittedOf(s, t, x, Latest(s))
      <4>1. \A at, x, file : ~Pending(s, file, at, x) \/ at \notin Int
        BY <1>1, <1>3, Numbers DEF Pending
      <4>2. t \in 0 .. NextTensorId(s) - 1
        BY <1>1, Numbers, Lookups
      <4>3. \A x \in Region(s, t) : AtOf(s, t, x) \in Int
        BY <1>1, <4>2, BytesAreNumbers
      <4>4. \A x \in Region(s, t) : x < s.device_offset /\ EmittedOf(s, t, x, Latest(s))
        BY <1>1, <4>1, <4>3 DEF CurrentLayer
      <4>5. Tensor(s, t).size > 0 => Tensor(s, t).last_chunk_id <= Latest(s)
        <5>1. /\ Tensor(s, t).last_chunk_id <= Len(s.chunks)
              /\ Tensor(s, t).size > 0 => Tensor(s, t).last_chunk_id # Len(s.chunks)
          BY <1>1, <1>3 DEF CurrentLayer
        <5>2. Tensor(s, t).last_chunk_id \in Nat /\ Len(s.chunks) \in Nat
          BY <1>1, <4>2, Lookups
        <5> QED
          BY <5>1, <5>2 DEF Latest
      <4>6. Tensor(s, t).device_buffer_offset <= s.device_offset
        BY <1>1, <3>2 DEF CurrentLayer
      <4> QED
        BY <4>4, <4>5, <4>6
    <3>4. s.current_size < ThreadAlignment
      BY <1>3, Sizes
    <3> QED
      BY <3>3, <3>4 DEF Settled
  <2> QED
    BY <1>3, <2>1, <2>2 DEF SameTensors, SameInput, SameLoop
<1>4. CASE s.current_size > 0
  <2>1. Finished(s, r)
    BY <1>1, <1>4, FinishChunkFields
  <2> HIDE DEF r
  <2>2. /\ r \in LayoutRecord /\ ~r.failed /\ SameTensors(s, r)
        /\ SameInput(s, r) /\ SameLoop(s, r) /\ r.file = s.file /\ r.left_most = s.left_most
    BY <2>1 DEF Finished
  <2>3. /\ r.file_offset + r.current_size = s.file_offset + s.current_size
        /\ r.current_size < ThreadAlignment
    BY <1>1, <1>4, <2>1, EmittedChunk
  <2>4. FromInput(r)
    BY <1>1, <2>2 DEF FromInput, SameInput
  <2>5. Cursor(r)
    <3>1. r.file_offset % ThreadAlignment = 0
      BY <2>1 DEF Finished
    <3>2. r.current_size <= WorldChunkSize
      BY <2>2, <2>3, Sizes, Numbers
    <3> QED
      BY <1>1, <2>1, <3>1, <3>2, FinishedCounts DEF Cursor
  <2>6. Position(r)
    <3>1. /\ NumOffsets(r) = NumOffsets(s) /\ r.i = s.i /\ r.pc = s.pc
          /\ r.placed_at = s.placed_at /\ r.size_left = s.size_left
          /\ \A k : Offset(r, k) = Offset(s, k)
          /\ TensorSize(r) = TensorSize(s)
      BY <2>2 DEF SameInput, SameLoop, NumOffsets, Offset, TensorSize
    <3>2. CASE s.pc = "next"
      BY <1>1, <2>2, <2>3, <3>1, <3>2 DEF Position, BetweenTensors
    <3>3. CASE s.pc = "split"
      <4>1. /\ r.file_offset = s.file_offset + WorldChunkSize
            /\ r.device_offset = s.device_offset + WorldChunkSize
        BY <2>1, <3>3, WholeChunk DEF Finished
      <4>2. r.placed_at + r.file_offset = r.device_offset + Offset(r, r.i).at
        <5>1. s.placed_at + s.file_offset = s.device_offset + Offset(s, s.i).at
          BY <1>1, <3>3 DEF Position, WithinTensor
        <5>2. Offset(s, s.i).at \in Nat
          BY CursorOffsets
        <5> QED
          BY <1>1, <3>1, <4>1, <5>1, <5>2, Numbers, Sizes
      <4>3. WithinTensor(s)
        BY <1>1, <3>3 DEF Position
      <4>4. WithinTensor(r)
        BY <2>2, <2>3, <3>1, <4>2, <4>3 DEF WithinTensor
      <4> QED
        BY <3>1, <3>3, <4>4 DEF Position
    <3> QED
      BY <1>2, <3>2, <3>3
  <2>7. Left(r) /\ LayerBefore(r)
    BY <1>1, <1>4, <2>1, FinishLeft, FinishLayerBefore
  <2>8. CurrentLayer(r) /\ Settled(r)
    BY <1>1, <1>4, <2>1, CursorOffsets, FinishCurrentLayer
  <2>9. InBufferOrHeader(r) /\ FilesSoFar(r) /\ Aligned(r)
    <3>1. \/ s.device_offset + RoundUp(s.current_size, WorldChunkAlignment) <= s.buffer_size
          \/ /\ \A t \in 0 .. NextTensorId(s) - 1 : Tensor(s, t).file # s.file
             /\ s.file_offset + s.current_size = Offset(s, s.i).at
      <4>1. CASE s.pc = "next"
        BY <1>1, <4>1 DEF Position, BetweenTensors, PendingFits
      <4>2. CASE s.pc = "split"
        BY <4>2, WholeChunk
      <4> QED
        BY <1>2, <4>1, <4>2
    <3> QED
      BY <1>1, <1>4, <2>1, <3>1, FinishBuffer
  <2>10. Core(r)
    BY <2>2, <2>4, <2>5, <2>6, <2>7, <2>8, <2>9 DEF Core
  <2> QED
    BY <1>4, <2>1, <2>2, <2>3, <2>8, <2>10 DEF r
<1> QED
  BY <1>2, <1>3, <1>4
-----------------------------------------------------------------------------
(* A new layer.                                                            *)

\* The tensors of the layer before leave, the current one takes its place.
LEMMA NewLayer ==
  ASSUME NEW s, Core(s), Settled(s), s.pc = "next"
  PROVE  LET r == ResetBufferOffset(s, NextTensorId(s))
         IN /\ Core(r) /\ Settled(r)
            /\ SameTensors(s, r) /\ SameInput(s, r) /\ SameLoop(s, r)
            /\ r.file = s.file /\ r.chunks = s.chunks
            /\ r.in_buffer = s.left_most /\ r.left_most = NextTensorId(s)
            /\ r.file_offset = s.file_offset /\ r.current_size = s.current_size
            /\ r.device_offset = AlignedStart(0, s.current_size)
<1> DEFINE r == ResetBufferOffset(s, NextTensorId(s))
           m == NextTensorId(s)
           n == Len(s.chunks)
<1>1. /\ s \in LayoutRecord /\ ~s.failed /\ FromInput(s) /\ Cursor(s) /\ Position(s)
      /\ Left(s) /\ LayerBefore(s) /\ CurrentLayer(s)
      /\ InBufferOrHeader(s) /\ FilesSoFar(s) /\ Aligned(s)
  BY DEF Core
<1>2. m \in Nat /\ n \in Nat /\ s.current_size < ThreadAlignment
  BY <1>1, Lookups DEF Settled
<1>3. /\ r \in LayoutRecord /\ ~r.failed
      /\ SameTensors(s, r) /\ LeaveWith(s, r, s.left_most, n - 1)
      /\ SameInput(s, r) /\ SameLoop(s, r)
      /\ r.in_buffer = s.left_most /\ r.left_most = m
      /\ r.chunks = s.chunks /\ r.file = s.file
      /\ r.file_offset = s.file_offset /\ r.current_size = s.current_size
      /\ r.device_offset = AlignedStart(0, s.current_size)
  BY <1>1, <1>2, ResetBufferOffsetFields
<1> HIDE DEF r
<1>4. /\ s.in_buffer \in Nat /\ s.left_most \in Nat
      /\ s.in_buffer <= s.left_most /\ s.left_most <= m
      /\ NextTensorId(r) = m /\ Latest(r) = n - 1 /\ Latest(s) = n - 1
  BY <1>1, <1>3, Numbers DEF Cursor, SameTensors, Latest
<1>5. \A file, at, x, last, d : Emitted(s, file, at, x, last, d) => Emitted(r, file, at, x, last, d)
  BY <1>3 DEF Emitted, CarriesByte, Untouched, Reserved, Chunk
<1>6. ASSUME NEW t \in 0 .. m - 1, NEW d, \A x \in Region(s, t) : EmittedOf(s, t, x, d)
      PROVE  \A x \in Region(r, t) : EmittedOf(r, t, x, d)
  <2> SUFFICES ASSUME NEW x \in Region(s, t) PROVE EmittedOf(r, t, x, d)
    BY <1>3, SameBytes
  <2>1. Emitted(s, Tensor(s, t).file, AtOf(s, t, x), x, Tensor(s, t).last_chunk_id, d)
    BY <1>6 DEF EmittedOf
  <2>2. Emitted(r, Tensor(s, t).file, AtOf(s, t, x), x, Tensor(s, t).last_chunk_id, d)
    BY <1>5, <2>1
  <2> QED
    BY <1>3, <2>2, SameBytes
<1>7. Left(r)
  <2> SUFFICES ASSUME NEW t \in 0 .. s.left_most - 1
               PROVE  /\ Tensor(r, t).prefetch_chunk_id <= n - 1
                      /\ Tensor(r, t).size > 0 =>
                           Tensor(r, t).last_chunk_id <= Tensor(r, t).prefetch_chunk_id
                      /\ \A x \in Region(r, t) :
                           EmittedOf(r, t, x, Tensor(r, t).prefetch_chunk_id)
                      /\ \A u \in 0 .. t :
                           Tensor(r, u).prefetch_chunk_id <= Tensor(r, t).prefetch_chunk_id
    BY <1>3, <1>4 DEF Left
  <2>1. /\ t \in 0 .. m - 1
        /\ Tensor(r, t).size = Tensor(s, t).size
        /\ Tensor(r, t).last_chunk_id = Tensor(s, t).last_chunk_id
    <3>1. t \in 0 .. m - 1
      BY <1>2, <1>4
    <3> QED
      BY <1>3, <3>1 DEF SameTensors
  <2>2. \A u \in 0 .. s.in_buffer - 1 :
          /\ Tensor(r, u).prefetch_chunk_id = Tensor(s, u).prefetch_chunk_id
          /\ Tensor(r, u).prefetch_chunk_id <= n - 1
    BY <1>1, <1>2, <1>3, <1>4 DEF LeaveWith, Left
  <2>3. \A u \in s.in_buffer .. s.left_most - 1 : Tensor(r, u).prefetch_chunk_id = n - 1
    BY <1>2, <1>3, <1>4 DEF LeaveWith
  <2>4. CASE t \in 0 .. s.in_buffer - 1
    <3>1. /\ Tensor(s, t).size > 0 =>
               Tensor(s, t).last_chunk_id <= Tensor(s, t).prefetch_chunk_id
          /\ \A x \in Region(s, t) : EmittedOf(s, t, x, Tensor(s, t).prefetch_chunk_id)
          /\ \A u \in 0 .. t : Tensor(s, u).prefetch_chunk_id <= Tensor(s, t).prefetch_chunk_id
      BY <1>1, <2>4 DEF Left
    <3>2. \A u \in 0 .. t : u \in 0 .. s.in_buffer - 1
      BY <1>4, <2>4
    <3>3. \A x \in Region(r, t) : EmittedOf(r, t, x, Tensor(s, t).prefetch_chunk_id)
      BY <1>6, <2>1, <3>1
    <3> QED
      BY <2>1, <2>2, <2>4, <3>1, <3>2, <3>3
  <2>5. CASE t \in s.in_buffer .. s.left_most - 1
    <3>1. /\ Tensor(s, t).size > 0 => Tensor(s, t).last_chunk_id <= n - 1
          /\ \A x \in Region(s, t) : EmittedOf(s, t, x, n - 1)
      BY <1>1, <1>4, <2>5 DEF LayerBefore
    <3>2. \A x \in Region(r, t) : EmittedOf(r, t, x, n - 1)
      BY <1>6, <2>1, <3>1
    <3>3. \A u \in 0 .. t : Tensor(r, u).prefetch_chunk_id <= n - 1
      BY <1>2, <1>4, <2>2, <2>3, <2>5
    <3> QED
      BY <1>2, <2>1, <2>3, <2>5, <3>1, <3>2, <3>3
  <2> QED
    BY <1>4, <2>4, <2>5
<1>8. LayerBefore(r)
  <2> SUFFICES ASSUME NEW t \in s.left_most .. m - 1
               PROVE  /\ Tensor(r, t).size > 0 => Tensor(r, t).last_chunk_id <= n - 1
                      /\ \A x \in Region(r, t) : EmittedOf(r, t, x, n - 1)
                      /\ \A u \in t .. m - 1 :
                           Tensor(r, t).device_buffer_offset <= Tensor(r, u).device_buffer_offset
    BY <1>3, <1>4 DEF LayerBefore
  <2>1. t \in 0 .. m - 1
    BY <1>4
  <2>2. /\ Tensor(s, t).size > 0 => Tensor(s, t).last_chunk_id <= n - 1
        /\ \A x \in Region(s, t) : EmittedOf(s, t, x, n - 1)
    BY <1>4 DEF Settled
  <2>3. \A u \in t .. m - 1 :
          Tensor(s, t).device_buffer_offset <= Tensor(s, u).device_buffer_offset
    BY <1>1 DEF CurrentLayer
  <2>4. \A u \in t .. m - 1 : u \in 0 .. m - 1
    BY <1>4
  <2> QED
    BY <1>3, <1>6, <2>1, <2>2, <2>3, <2>4 DEF SameTensors
<1>9. CurrentLayer(r) /\ Settled(r)
  <2>1. r.left_most .. NextTensorId(r) - 1 = {}
    BY <1>2, <1>3, <1>4
  <2> QED
    BY <1>2, <1>3, <2>1 DEF CurrentLayer, Settled
<1>10. FromInput(r) /\ Cursor(r) /\ Position(r)
  <2>1. FromInput(r)
    BY <1>1, <1>3 DEF FromInput, SameInput
  <2>2. Cursor(r)
    BY <1>1, <1>3, <1>4, <1>2 DEF Cursor
  <2>3. Position(r)
    BY <1>1, <1>3 DEF Position, BetweenTensors, SameInput, SameLoop, NumOffsets, Offset
  <2> QED
    BY <2>1, <2>2, <2>3
<1>11. InBufferOrHeader(r)
  <2> SUFFICES ASSUME NEW c \in 0 .. n - 1
               PROVE  Chunk(r, c).file <= r.file /\ (ChunkInBuffer(r, c) \/ HeaderOnly(r, c))
    BY <1>3 DEF InBufferOrHeader
  <2>1. Chunk(r, c) = Chunk(s, c) /\ Offset(r, r.i) = Offset(s, s.i) /\ r.pc = s.pc
    BY <1>3 DEF Chunk, Offset, SameInput, SameLoop
  <2>2. ChunkInBuffer(s, c) => ChunkInBuffer(r, c)
    BY <1>3, <2>1 DEF ChunkInBuffer, SameInput
  <2>3. HeaderOnly(s, c) => HeaderOnly(r, c)
    BY <1>3, <1>4, <2>1 DEF HeaderOnly, ChunkEnd, SameTensors
  <2> QED
    BY <1>1, <1>3, <2>1, <2>2, <2>3 DEF InBufferOrHeader
<1>12. FilesSoFar(r)
  BY <1>1, <1>3, <1>4 DEF FilesSoFar, SameTensors
<1>13. Aligned(r)
  <2> SUFFICES ASSUME NEW t \in 0 .. m - 1 PROVE AlignedTensor(r, t)
    BY <1>4 DEF Aligned
  <2>1. AlignedTensor(s, t)
    BY <1>1 DEF Aligned
  <2>2. t > 0 => t - 1 \in 0 .. m - 1
    BY <1>2
  <2> QED
    BY <1>3, <2>1, <2>2 DEF AlignedTensor, SameTensors
<1>14. Core(r)
  BY <1>3, <1>7, <1>8, <1>9, <1>10, <1>11, <1>12, <1>13 DEF Core
<1> QED
  BY <1>3, <1>9, <1>14 DEF r
-----------------------------------------------------------------------------
(* The steps of the loop keep the invariant.                               *)

\* Emitted and the rest of what is said of a byte only depend on the chunks.
LEMMA SameChunks ==
  ASSUME NEW s, NEW r, r.chunks = s.chunks
  PROVE  /\ \A c : Chunk(r, c) = Chunk(s, c)
         /\ Latest(r) = Latest(s)
         /\ \A file, at, x, last, d :
              Emitted(r, file, at, x, last, d) <=> Emitted(s, file, at, x, last, d)
BY DEF Emitted, CarriesByte, Untouched, Reserved, Chunk, Latest

\* reset_chunk_file at the end of a file, and on to the next offset.
LEMMA NewFile ==
  ASSUME NEW f, Core(f), Settled(f), AtFileEnd(f)
  PROVE  Consistent([ResetFile(f, Offset(f, f.i + 1).file, Offset(f, f.i + 1).at)
                       EXCEPT !.i = @ + 1])
<1> DEFINE next == Offset(f, f.i + 1)
           g == ResetFile(f, next.file, next.at)
           r == [g EXCEPT !.i = @ + 1]
           m == NextTensorId(f)
<1>1. /\ f \in LayoutRecord /\ ~f.failed /\ FromInput(f) /\ Cursor(f) /\ Position(f)
      /\ Left(f) /\ LayerBefore(f) /\ CurrentLayer(f)
      /\ InBufferOrHeader(f) /\ FilesSoFar(f) /\ Aligned(f)
  BY DEF Core
<1>2. /\ f.pc = "next" /\ f.i < NumOffsets(f) - 1 /\ next.file # Offset(f, f.i).file
      /\ f.file = Offset(f, f.i).file
  BY <1>1 DEF AtFileEnd, Position, BetweenTensors
<1>3. /\ f.i \in 0 .. NumOffsets(f) - 2 /\ f.i + 1 \in 0 .. NumOffsets(f) - 1
      /\ NumOffsets(f) \in Nat /\ f.i \in Nat
  BY <1>1, <1>2, Numbers, InputFacts
<1>4. next.file \in Nat /\ next.at \in Nat /\ next.file = f.file + 1
  BY <1>1, <1>2, <1>3, InputFacts
<1> HIDE DEF next
<1>5. /\ g \in LayoutRecord /\ ~g.failed /\ SameInput(f, g) /\ SameLoop(f, g)
      /\ g.tensors = f.tensors /\ g.chunks = f.chunks
      /\ g.in_buffer = f.in_buffer /\ g.left_most = f.left_most
      /\ g.file = next.file /\ g.file_offset % ThreadAlignment = 0
      /\ g.current_size < ThreadAlignment
      /\ g.file_offset + g.current_size = next.at
      /\ g.device_offset >= f.device_offset
      /\ (g.device_offset + g.current_size) % FirstTensorAlignment = 0
  <2>1. f.current_size < ThreadAlignment
    BY DEF Settled
  <2>2. next.file \in Nat /\ next.at \in Nat /\ f \in LayoutRecord /\ ~f.failed
    BY <1>1, <1>4
  <2>3. TurnedTo(f, ResetFile(f, next.file, next.at), next.file, next.at)
    BY <2>1, <2>2, ResetFileFields, Zenon
  <2> HIDE DEF g
  <2>4. TurnedTo(f, g, next.file, next.at)
    BY <2>3 DEF g
  <2> QED
    BY <2>4 DEF TurnedTo
<1> HIDE DEF g
<1>6. /\ r \in LayoutRecord /\ ~r.failed /\ SameInput(f, r)
      /\ r.tensors = f.tensors /\ r.chunks = f.chunks
      /\ r.in_buffer = f.in_buffer /\ r.left_most = f.left_most
      /\ r.file = next.file /\ r.file_offset % ThreadAlignment = 0
      /\ r.current_size < ThreadAlignment
      /\ r.file_offset + r.current_size = next.at
      /\ r.device_offset >= f.device_offset
      /\ (r.device_offset + r.current_size) % FirstTensorAlignment = 0
      /\ r.i = f.i + 1 /\ r.pc = "next"
  <2>1. g.i = f.i /\ g.i \in Nat /\ g.pc = "next"
    BY <1>2, <1>3, <1>5 DEF SameLoop
  <2>0. g \in LayoutRecord
    BY <1>5
  <2>2. r \in LayoutRecord
    <3>1. g.i + 1 \in Nat
      BY <2>1
    <3> QED
      BY <2>0, <3>1 DEF LayoutRecord
  <2>3. /\ r.failed = g.failed /\ r.tensors = g.tensors /\ r.chunks = g.chunks
        /\ r.in_buffer = g.in_buffer /\ r.left_most = g.left_most
        /\ r.file = g.file /\ r.file_offset = g.file_offset /\ r.current_size = g.current_size
        /\ r.device_offset = g.device_offset /\ r.pc = g.pc /\ r.i = g.i + 1
        /\ r.offsets = g.offsets /\ r.requested = g.requested /\ r.buffer_size = g.buffer_size
    BY <2>0 DEF LayoutRecord
  <2>4. SameInput(f, r)
    BY <1>5, <2>3 DEF SameInput
  <2> HIDE DEF r
  <2> QED
    BY <1>5, <2>1, <2>2, <2>3, <2>4
<1> HIDE DEF r
<1>7. /\ \A k : Offset(r, k) = Offset(f, k)
      /\ NumOffsets(r) = NumOffsets(f)
      /\ \A t : Tensor(r, t) = Tensor(f, t) /\ Region(r, t) = Region(f, t)
      /\ \A t, x, d : EmittedOf(r, t, x, d) <=> EmittedOf(f, t, x, d)
      /\ \A c : Chunk(r, c) = Chunk(f, c)
      /\ NextTensorId(r) = m /\ Latest(r) = Latest(f)
  BY <1>6, SameChunks
    DEF SameInput, Offset, NumOffsets, Tensor, Region, AtOf, EmittedOf, NextTensorId
<1>8. FromInput(r)
  BY <1>1, <1>6 DEF FromInput, SameInput
<1>9. Cursor(r)
  BY <1>1, <1>6, <1>7, Sizes, Numbers DEF Cursor
<1>10. BetweenTensors(r) /\ Position(r)
  BY <1>3, <1>6, <1>7 DEF BetweenTensors, Position, next
<1>11. Left(r) /\ LayerBefore(r)
  BY <1>1, <1>6, <1>7 DEF Left, LayerBefore
<1>12. m \in Nat /\ \A t \in f.left_most .. m - 1 : t \in 0 .. m - 1
  BY <1>1, Lookups, Numbers
<1>13. CurrentLayer(r)
  <2> SUFFICES ASSUME NEW t \in f.left_most .. m - 1
               PROVE  /\ Tensor(f, t).last_chunk_id <= Len(f.chunks)
                      /\ Tensor(f, t).size > 0 => Tensor(f, t).last_chunk_id # Len(f.chunks)
                      /\ Tensor(f, t).device_buffer_offset <= Address(r)
                      /\ \A x \in Region(f, t) :
                           x < r.device_offset /\ EmittedOf(f, t, x, Latest(f))
                      /\ \A u \in t .. m - 1 :
                           Tensor(f, t).device_buffer_offset <= Tensor(f, u).device_buffer_offset
    BY <1>6, <1>7 DEF CurrentLayer
  <2>1. /\ Tensor(f, t).last_chunk_id <= Len(f.chunks)
        /\ \A u \in t .. m - 1 :
             Tensor(f, t).device_buffer_offset <= Tensor(f, u).device_buffer_offset
    BY <1>1 DEF CurrentLayer
  <2>2. /\ Tensor(f, t).size > 0 => Tensor(f, t).last_chunk_id <= Latest(f)
        /\ Tensor(f, t).device_buffer_offset <= f.device_offset
        /\ \A x \in Region(f, t) : x < f.device_offset /\ EmittedOf(f, t, x, Latest(f))
    BY DEF Settled
  <2>3. Tensor(f, t).size > 0 => Tensor(f, t).last_chunk_id # Len(f.chunks)
    BY <1>1, <1>12, <2>2, Lookups DEF Latest
  <2>4. Tensor(f, t).device_buffer_offset <= Address(r)
    <3>1. Address(r) = r.device_offset + r.current_size
      BY <1>6 DEF Address
    <3>2. Tensor(f, t).device_buffer_offset \in Nat
      BY <1>1, <1>12, Lookups
    <3> QED
      BY <1>1, <1>6, <2>2, <3>1, <3>2, Numbers
  <2>5. \A x \in Region(f, t) : x < r.device_offset
    <3>1. \A x \in Region(f, t) : x \in Nat
      BY <1>1, <1>12, BytesAreNumbers
    <3> QED
      BY <1>1, <1>6, <2>2, <3>1, Numbers
  <2> QED
    BY <2>1, <2>2, <2>3, <2>4, <2>5
<1>14. InBufferOrHeader(r)
  <2> SUFFICES ASSUME NEW c \in 0 .. Len(f.chunks) - 1
               PROVE  Chunk(r, c).file <= r.file /\ (ChunkInBuffer(r, c) \/ HeaderOnly(r, c))
    BY <1>6 DEF InBufferOrHeader
  <2>1. Chunk(f, c).file \in Nat /\ Chunk(f, c).file <= f.file /\ f.file \in Nat
    BY <1>1, Lookups, Numbers DEF InBufferOrHeader
  <2>2. ChunkInBuffer(f, c) => ChunkInBuffer(r, c)
    BY <1>6, <1>7 DEF ChunkInBuffer, SameInput
  <2>3. Chunk(r, c).file < r.file
    BY <1>4, <1>6, <1>7, <2>1
  <2>4. HeaderOnly(f, c) => HeaderOnly(r, c)
    BY <1>4, <1>6, <1>7, <2>1, <2>3 DEF HeaderOnly, ChunkEnd
  <2> QED
    BY <1>1, <1>4, <1>6, <1>7, <2>1, <2>2, <2>3, <2>4 DEF InBufferOrHeader
<1>15. \A t \in 0 .. m - 1 : Tensor(f, t).file < r.file
  BY <1>1, <1>4, <1>6, Lookups, Numbers, SMTT(30) DEF FilesSoFar
<1>16. FilesSoFar(r) /\ PendingFits(r)
  <2>1. \A t \in 0 .. m - 1 : Tensor(f, t).file <= r.file /\ Tensor(f, t).file # r.file
    BY <1>1, <1>4, <1>6, <1>15, Lookups
  <2> QED
    BY <1>7, <2>1 DEF FilesSoFar, PendingFits
<1>17. Aligned(r)
  BY <1>1, <1>7 DEF Aligned, AlignedTensor
<1>18. JustRecorded(r)
  <2>1. r.i - 1 = f.i
    BY <1>3, <1>6
  <2>2. Offset(r, r.i - 1).file # Offset(r, r.i).file
    BY <1>2, <1>6, <1>7, <2>1 DEF next
  <2> QED
    BY <2>2 DEF JustRecorded
<1>19. AddressAligned(r)
  BY <1>6 DEF AddressAligned, Address
<1>20. Core(r)
  BY <1>1, <1>6, <1>8, <1>9, <1>10, <1>11, <1>13, <1>14, <1>16, <1>17 DEF Core
<1> QED
  BY <1>6, <1>16, <1>18, <1>19, <1>20 DEF Consistent, r, g, next

\* What finish_chunk leaves of the place in the loop.
LEMMA SamePlace ==
  ASSUME NEW s, NEW r, SameInput(s, r), SameLoop(s, r)
  PROVE  /\ \A k : Offset(r, k) = Offset(s, k)
         /\ NumOffsets(r) = NumOffsets(s)
         /\ r.i = s.i /\ r.pc = s.pc
         /\ TensorSize(r) = TensorSize(s)
         /\ AtTensor(s) <=> AtTensor(r)
         /\ AtFileEnd(s) <=> AtFileEnd(r)
         /\ AtEnd(s) <=> AtEnd(r)
BY DEF SameInput, SameLoop, Offset, NumOffsets, TensorSize, AtTensor, AtFileEnd, AtEnd

LEMMA TurnConsistent ==
  ASSUME NEW s, Consistent(s), AtFileEnd(s)
  PROVE  Consistent(NextFile(s))
<1> DEFINE f == FinishChunk(s)
<1>1. Core(s) /\ s.pc = "next" /\ PendingFits(s)
  BY DEF Consistent, AtFileEnd
<1>2. Core(f) /\ Settled(f) /\ SameInput(s, f) /\ SameLoop(s, f)
  BY <1>1, FinishChunkCore
<1> HIDE DEF f
<1>3. AtFileEnd(f) /\ Offset(f, f.i + 1) = Offset(s, s.i + 1)
  BY <1>2, SamePlace
<1>4. Consistent([ResetFile(f, Offset(f, f.i + 1).file, Offset(f, f.i + 1).at)
                    EXCEPT !.i = @ + 1])
  BY <1>2, <1>3, NewFile
<1> QED
  BY <1>3, <1>4 DEF NextFile, f

LEMMA StartConsistent ==
  ASSUME NEW input \in Inputs
  PROVE  Consistent(Start(input))
<1> DEFINE s == [offsets |-> input.offsets, requested |-> input.buffer_size,
                 buffer_size |-> BufferSize(input.buffer_size),
                 chunks |-> <<>>, tensors |-> <<>>,
                 file |-> 0, file_offset |-> 0, device_offset |-> 0, current_size |-> 0,
                 in_buffer |-> 0, left_most |-> 0,
                 i |-> 0, placed_at |-> 0, size_left |-> 0, pc |-> "next", failed |-> FALSE]
           first == Offset(s, 0)
           r == Start(input)
<1>1. FromInput(s)
  BY InputsAssumption DEF FromInput, WellFormed
<1>2. s \in LayoutRecord /\ ~s.failed /\ s.current_size = 0
  <2>1. input.buffer_size \in Nat /\ BufferSize(input.buffer_size) \in Nat
    BY <1>1, InputFacts
  <2>2. input.offsets \in Seq(OffsetRecord)
    BY InputsAssumption DEF WellFormed, OffsetRecord
  <2> QED
    BY <2>1, <2>2 DEF LayoutRecord
<1>3. first.file \in Nat /\ first.at \in Nat
  <2>1. 0 \in 0 .. NumOffsets(s) - 1
    BY <1>1, InputFacts
  <2> QED
    BY <1>1, <2>1, InputFacts
<1>4. r = ResetFile(s, first.file, first.at)
  BY DEF Start, Offset
<1>5. /\ s.chunks = <<>> /\ s.tensors = <<>> /\ s.in_buffer = 0 /\ s.left_most = 0
      /\ s.i = 0 /\ s.pc = "next"
  OBVIOUS
<1> HIDE DEF s, first, r
<1>6. TurnedTo(s, r, first.file, first.at)
  <2>1. s.current_size < ThreadAlignment
    BY <1>2, Sizes
  <2>2. TurnedTo(s, ResetFile(s, first.file, first.at), first.file, first.at)
    BY <1>2, <1>3, <2>1, ResetFileFields, Zenon
  <2> QED
    BY <1>4, <2>2
<1>7. /\ r \in LayoutRecord /\ ~r.failed /\ SameInput(s, r)
      /\ r.chunks = <<>> /\ r.tensors = <<>> /\ r.in_buffer = 0 /\ r.left_most = 0
      /\ r.i = 0 /\ r.pc = "next"
      /\ r.file = first.file /\ r.file_offset + r.current_size = first.at
      /\ r.current_size < ThreadAlignment /\ r.file_offset % ThreadAlignment = 0
      /\ (r.device_offset + r.current_size) % FirstTensorAlignment = 0
  BY <1>5, <1>6 DEF TurnedTo, SameLoop
<1>8. NextTensorId(r) = 0 /\ Len(r.chunks) = 0
  BY <1>7 DEF NextTensorId
<1>9. FromInput(r)
  BY <1>1, <1>7 DEF FromInput, SameInput
<1>10. Cursor(r)
  BY <1>7, <1>8, Sizes, Numbers DEF Cursor
<1>11. Position(r)
  <2>1. r.i < NumOffsets(r)
    BY <1>7, <1>9, InputFacts
  <2>2. Offset(r, r.i) = first
    BY <1>7 DEF Offset, SameInput, first
  <2> QED
    BY <1>7, <2>1, <2>2 DEF Position, BetweenTensors
<1>12. Left(r) /\ LayerBefore(r) /\ CurrentLayer(r)
  BY <1>7, <1>8 DEF Left, LayerBefore, CurrentLayer
<1>13. InBufferOrHeader(r) /\ FilesSoFar(r) /\ Aligned(r) /\ PendingFits(r)
  BY <1>8 DEF InBufferOrHeader, FilesSoFar, Aligned, PendingFits
<1>14. JustRecorded(r) /\ AddressAligned(r)
  BY <1>7 DEF JustRecorded, AddressAligned, Address
<1> QED
  BY <1>7, <1>9, <1>10, <1>11, <1>12, <1>13, <1>14 DEF Consistent, Core, r

\* Where there is room for a tensor, it can be split.
LEMMA Placed ==
  ASSUME NEW f, Core(f), AtTensor(f), AddressAligned(f), Fits(f)
  PROVE  Consistent([f EXCEPT !.placed_at = Offset(f, f.i).at - f.file_offset + f.device_offset,
                              !.size_left = TensorSize(f),
                              !.pc = "split"])
<1> DEFINE place == Offset(f, f.i).at - f.file_offset + f.device_offset
           size == TensorSize(f)
           r == [f EXCEPT !.placed_at = place, !.size_left = size, !.pc = "split"]
<1>1. /\ f \in LayoutRecord /\ ~f.failed /\ FromInput(f) /\ Cursor(f) /\ Position(f)
      /\ Left(f) /\ LayerBefore(f) /\ CurrentLayer(f)
      /\ InBufferOrHeader(f) /\ FilesSoFar(f) /\ Aligned(f)
  BY DEF Core
<1>2. /\ f.pc = "next" /\ f.i < NumOffsets(f) - 1
      /\ Offset(f, f.i + 1).file = Offset(f, f.i).file
      /\ f.file = Offset(f, f.i).file
      /\ f.file_offset + f.current_size = Offset(f, f.i).at
  BY <1>1 DEF AtTensor, Position, BetweenTensors
<1>3. /\ f.i \in 0 .. NumOffsets(f) - 2 /\ f.i + 1 \in 0 .. NumOffsets(f) - 1
      /\ f.i \in 0 .. NumOffsets(f) - 1
  BY <1>1, <1>2, Numbers, InputFacts
<1>4. /\ Offset(f, f.i).at \in Nat /\ Offset(f, f.i + 1).at \in Nat
      /\ Offset(f, f.i + 1).at >= Offset(f, f.i).at
  BY <1>1, <1>2, <1>3, InputFacts
<1>5. /\ size \in Nat /\ size = Offset(f, f.i + 1).at - Offset(f, f.i).at
      /\ place \in Nat /\ place = f.device_offset + f.current_size
  BY <1>1, <1>2, <1>4, Numbers DEF TensorSize
<1> HIDE DEF place, size
<1>6. /\ r \in LayoutRecord /\ r.failed = f.failed
      /\ r.placed_at = place /\ r.size_left = size /\ r.pc = "split"
      /\ SameInput(f, r) /\ r.i = f.i
      /\ r.tensors = f.tensors /\ r.chunks = f.chunks
      /\ r.in_buffer = f.in_buffer /\ r.left_most = f.left_most
      /\ r.file = f.file /\ r.file_offset = f.file_offset
      /\ r.device_offset = f.device_offset /\ r.current_size = f.current_size
  BY <1>1, <1>5 DEF LayoutRecord, SameInput
<1> HIDE DEF r
<1>7. /\ \A k : Offset(r, k) = Offset(f, k)
      /\ NumOffsets(r) = NumOffsets(f)
      /\ \A t : Tensor(r, t) = Tensor(f, t) /\ Region(r, t) = Region(f, t)
      /\ \A t, x, d : EmittedOf(r, t, x, d) <=> EmittedOf(f, t, x, d)
      /\ \A c : Chunk(r, c) = Chunk(f, c)
      /\ NextTensorId(r) = NextTensorId(f) /\ Latest(r) = Latest(f)
      /\ \A t, x : AtOf(r, t, x) = AtOf(f, t, x)
      /\ TensorSize(r) = size
  BY <1>6, SameChunks
    DEF SameInput, Offset, NumOffsets, Tensor, Region, AtOf, EmittedOf, NextTensorId, TensorSize, size
<1>8. FromInput(r) /\ Cursor(r)
  BY <1>1, <1>6, <1>7 DEF FromInput, SameInput, Cursor
<1>9. Address(r) = Address(f)
  BY <1>2, <1>5, <1>6 DEF Address
<1>10. WithinTensor(r) /\ Position(r)
  <2>1. f.file_offset + f.current_size + size = Offset(f, f.i + 1).at
    BY <1>1, <1>2, <1>4, <1>5, Numbers
  <2>2. /\ f.file_offset + f.current_size >= Offset(f, f.i).at
        /\ place + f.file_offset = f.device_offset + Offset(f, f.i).at
    BY <1>1, <1>2, <1>4, <1>5, Numbers
  <2>3. size > 0 \/ size = 0
    BY <1>5
  <2> QED
    BY <1>2, <1>6, <1>7, <2>1, <2>2, <2>3 DEF WithinTensor, Position
<1>11. Left(r) /\ LayerBefore(r)
  BY <1>1, <1>6, <1>7 DEF Left, LayerBefore
<1>12. CurrentLayer(r)
  BY <1>1, <1>6, <1>7, <1>9 DEF CurrentLayer, Pending
<1>13. InBufferOrHeader(r) /\ FilesSoFar(r)
  BY <1>1, <1>2, <1>6, <1>7
    DEF InBufferOrHeader, ChunkInBuffer, HeaderOnly, ChunkEnd, FilesSoFar, SameInput
<1>14. Aligned(r) /\ AddressAligned(r)
  BY <1>1, <1>6, <1>7, <1>9 DEF Aligned, AlignedTensor, AddressAligned
<1>15. SplitFits(r)
  BY <1>6 DEF SplitFits, Fits, SameInput, size
<1>16. BeingPlaced(r)
  <2> SUFFICES ASSUME NEW at \in Offset(r, r.i).at .. r.file_offset + r.current_size - 1
               PROVE  FALSE
    BY DEF BeingPlaced
  <2>1. /\ Offset(r, r.i).at \in Nat /\ r.file_offset + r.current_size = Offset(r, r.i).at
        /\ r.file_offset \in Nat /\ r.current_size \in Nat
    BY <1>2, <1>4, <1>6, <1>7, Numbers
  <2> QED
    BY <2>1
<1>17. Core(r)
  BY <1>1, <1>6, <1>8, <1>10, <1>11, <1>12, <1>13, <1>14 DEF Core
<1> QED
  BY <1>6, <1>14, <1>15, <1>16, <1>17 DEF Consistent, r, place, size

\* At the left end of the buffer there is room for every tensor.
LEMMA RoomAtLeft ==
  ASSUME NEW f, Core(f), Settled(f), AtTensor(f),
         f.device_offset = AlignedStart(0, f.current_size)
  PROVE  Fits(f) /\ AddressAligned(f)
<1> DEFINE size == TensorSize(f)
           up == RoundUp(f.current_size + size, WorldChunkAlignment)
<1>1. f \in LayoutRecord /\ FromInput(f) /\ f.pc = "next" /\ f.i < NumOffsets(f) - 1
  BY DEF Core, AtTensor
<1>2. size \in Nat /\ size <= f.requested
  <2>1. /\ f.i \in 0 .. NumOffsets(f) - 2 /\ f.i + 1 \in 0 .. NumOffsets(f) - 1
        /\ f.i \in 0 .. NumOffsets(f) - 1
    BY <1>1, Numbers, InputFacts
  <2>2. Offset(f, f.i).at \in Nat /\ Offset(f, f.i + 1).at \in Nat /\ Offset(f, f.i).file \in Nat
    BY <1>1, <2>1, InputFacts
  <2>3. /\ Offset(f, f.i + 1).at >= Offset(f, f.i).at
        /\ Offset(f, f.i + 1).at - Offset(f, f.i).at <= f.requested
    BY <1>1, <2>1, <2>2, InputFacts DEF AtTensor
  <2> QED
    BY <2>2, <2>3 DEF TensorSize
<1>3. f.current_size \in Nat /\ f.current_size < ThreadAlignment
  BY <1>1, Numbers DEF Settled
<1>4. /\ f.device_offset \in Nat /\ f.device_offset <= FirstTensorAlignment
      /\ (f.device_offset + f.current_size) % FirstTensorAlignment = 0
  <2>1. 0 % FirstTensorAlignment = 0
    BY Sizes
  <2>2. /\ AlignedStart(0, f.current_size) \in Nat
        /\ AlignedStart(0, f.current_size) <= 0 + FirstTensorAlignment
        /\ (AlignedStart(0, f.current_size) + f.current_size) % FirstTensorAlignment = 0
    BY <1>3, <2>1, AlignedStartFacts
  <2> QED
    BY <2>2, Sizes
<1> HIDE DEF size
<1>5. up \in Nat /\ up < f.current_size + size + WorldChunkAlignment
  <2>1. f.current_size + size \in Nat
    BY <1>2, <1>3
  <2> QED
    BY <2>1, Sizes, RoundUpFacts
<1> HIDE DEF up
<1>6. f.device_offset + up <= f.buffer_size
  <2>1. /\ f.requested \in Nat /\ f.buffer_size \in Nat
        /\ f.buffer_size >=
             f.requested + FirstTensorAlignment + ThreadAlignment + WorldChunkAlignment
    BY <1>1, InputFacts
  <2>2. f.device_offset <= FirstTensorAlignment
    BY <1>4
  <2>3. f.device_offset \in Nat
    BY <1>4
  <2> QED
    BY <1>2, <1>3, <1>5, <2>1, <2>2, <2>3, Sizes
<1>7. Fits(f)
  BY <1>6 DEF Fits, up, size
<1>8. AddressAligned(f)
  BY <1>1, <1>4 DEF AddressAligned, Address
<1> QED
  BY <1>7, <1>8

\* The layout the tensor is placed in.
Fitted(s) ==
  IF Fits(s) THEN s ELSE ResetBufferOffset(FinishChunk(s), NextTensorId(s))

\* The two checks of the loop pass.
LEMMA PlaceChecks ==
  ASSUME NEW s, Core(s), AtTensor(s)
  PROVE  PlaceTensor(s) =
           [Fitted(s) EXCEPT
              !.placed_at = Offset(s, s.i).at - Fitted(s).file_offset + Fitted(s).device_offset,
              !.size_left = TensorSize(s),
              !.pc = "split"]
<1> DEFINE checked == FailIf(\/ s.current_size # Offset(s, s.i).at - s.file_offset
                             \/ TensorSize(s) > s.buffer_size, s)
<1>1. s.pc = "next"
  BY DEF AtTensor
<1>2. s \in LayoutRecord /\ FromInput(s) /\ Position(s) /\ ~s.failed
  BY DEF Core
<1>3. checked = s
  <2>1. s.current_size = Offset(s, s.i).at - s.file_offset
    <3>1. s.file_offset + s.current_size = Offset(s, s.i).at
      BY <1>1, <1>2 DEF Position, BetweenTensors
    <3> QED
      BY <1>2, <3>1, Numbers
  <2>2. ~(TensorSize(s) > s.buffer_size)
    <3>1. /\ s.i < NumOffsets(s) - 1 /\ Offset(s, s.i + 1).file = Offset(s, s.i).file
      BY DEF AtTensor
    <3>2. s.i \in 0 .. NumOffsets(s) - 2 /\ s.i \in 0 .. NumOffsets(s) - 1
                /\ s.i + 1 \in 0 .. NumOffsets(s) - 1
      BY <1>2, <3>1, Numbers, InputFacts
    <3>3. /\ Offset(s, s.i).at \in Nat /\ Offset(s, s.i + 1).at \in Nat
          /\ Offset(s, s.i).file \in Nat
          /\ s.requested \in Nat /\ s.buffer_size \in Nat
      BY <1>2, <3>2, InputFacts
    <3>4. Offset(s, s.i + 1).at - Offset(s, s.i).at <= s.requested
      BY <1>2, <3>1, <3>2, <3>3, InputFacts
    <3>5. s.buffer_size >=
             s.requested + FirstTensorAlignment + ThreadAlignment + WorldChunkAlignment
      BY <1>2, InputFacts
    <3>6. TensorSize(s) \in Int /\ TensorSize(s) <= s.requested
      BY <3>3, <3>4 DEF TensorSize
    <3> QED
      BY <3>3, <3>5, <3>6, Sizes
  <2>3. checked = [s EXCEPT !.failed = @ \/ FALSE]
    BY <2>1, <2>2 DEF FailIf
  <2> HIDE DEF checked
  <2>4. checked = [s EXCEPT !.failed = FALSE] /\ s.failed = FALSE
    BY <1>2, <2>3 DEF LayoutRecord
  <2> QED
    BY <1>2, <2>4 DEF LayoutRecord
<1> QED
  BY <1>3 DEF PlaceTensor, Fitted

LEMMA PlaceConsistent ==
  ASSUME NEW s, Consistent(s), AtTensor(s)
  PROVE  Consistent(PlaceTensor(s))
<1> DEFINE fitted == Fitted(s)
<1>1. Core(s) /\ s.pc = "next" /\ PendingFits(s) /\ AddressAligned(s)
  BY DEF Consistent, AtTensor
<1>4. /\ Core(fitted) /\ AtTensor(fitted) /\ AddressAligned(fitted) /\ Fits(fitted)
      /\ SameInput(s, fitted) /\ SameLoop(s, fitted)
  <2>1. CASE Fits(s)
    BY <1>1, <2>1 DEF SameInput, SameLoop, Fitted
  <2>2. CASE ~Fits(s)
    <3> DEFINE f == FinishChunk(s)
               r == ResetBufferOffset(f, NextTensorId(f))
    <3>1. /\ Core(f) /\ Settled(f) /\ SameTensors(s, f)
          /\ SameInput(s, f) /\ SameLoop(s, f)
      BY <1>1, FinishChunkCore
    <3>2. NextTensorId(f) = NextTensorId(s) /\ AtTensor(f) /\ f.pc = "next"
      BY <1>1, <3>1, SamePlace DEF SameTensors
    <3> HIDE DEF f
    <3>3. /\ Core(r) /\ Settled(r) /\ SameInput(f, r) /\ SameLoop(f, r)
          /\ r.current_size = f.current_size
          /\ r.device_offset = AlignedStart(0, f.current_size)
      BY <3>1, <3>2, NewLayer
    <3>4. fitted = r
      BY <2>2, <3>2 DEF f, Fitted
    <3> HIDE DEF r
    <3>5. AtTensor(r)
      BY <3>2, <3>3, SamePlace
    <3>6. Fits(r) /\ AddressAligned(r)
      BY <3>3, <3>5, RoomAtLeft
    <3>7. SameInput(s, r) /\ SameLoop(s, r)
      BY <3>1, <3>3 DEF SameInput, SameLoop
    <3> QED
      BY <3>3, <3>4, <3>5, <3>6, <3>7
  <2> QED
    BY <2>1, <2>2
<1>5. PlaceTensor(s) =
        [fitted EXCEPT !.placed_at = Offset(s, s.i).at - fitted.file_offset + fitted.device_offset,
                       !.size_left = TensorSize(s),
                       !.pc = "split"]
  BY <1>1, PlaceChecks
<1> HIDE DEF fitted
<1>6. Offset(s, s.i) = Offset(fitted, fitted.i) /\ TensorSize(s) = TensorSize(fitted)
  BY <1>4, SamePlace
<1>7. Consistent([fitted EXCEPT
        !.placed_at = Offset(fitted, fitted.i).at - fitted.file_offset + fitted.device_offset,
        !.size_left = TensorSize(fitted),
        !.pc = "split"])
  BY <1>4, Placed
<1> QED
  BY <1>5, <1>6, <1>7

\* The chunk of a tensor that does not fit in it, filled up.
LEMMA Filled ==
  ASSUME NEW s, Consistent(s), s.pc = "split", Overflows(s)
  PROVE  LET r == [s EXCEPT !.size_left = @ - (WorldChunkSize - s.current_size),
                            !.current_size = WorldChunkSize]
         IN /\ Core(r) /\ BeingPlaced(r) /\ WithinTensor(r) /\ r.pc = "split"
            /\ r.current_size = WorldChunkSize
            /\ r.size_left + WorldChunkSize = s.current_size + s.size_left
            /\ r.device_offset = s.device_offset
            /\ r.placed_at = s.placed_at /\ r.file = s.file
            /\ r.buffer_size = s.buffer_size
            /\ r.device_offset + WorldChunkSize <= r.buffer_size
            /\ SameTensors(s, r)
<1> DEFINE left == s.size_left - (WorldChunkSize - s.current_size)
           r == [s EXCEPT !.size_left = left, !.current_size = WorldChunkSize]
           begin == Offset(s, s.i).at
<1>1. /\ s \in LayoutRecord /\ ~s.failed /\ FromInput(s) /\ Cursor(s) /\ Position(s)
      /\ Left(s) /\ LayerBefore(s) /\ CurrentLayer(s)
      /\ InBufferOrHeader(s) /\ FilesSoFar(s) /\ Aligned(s)
      /\ SplitFits(s) /\ BeingPlaced(s) /\ Core(s)
  BY DEF Consistent, Core
<1>2. /\ s.current_size \in Nat /\ s.size_left \in Nat /\ s.file_offset \in Nat
      /\ s.device_offset \in Nat /\ s.placed_at \in Nat /\ WorldChunkSize \in Nat \ {0}
      /\ s.current_size <= WorldChunkSize
      /\ s.current_size + s.size_left > WorldChunkSize
  BY <1>1, Numbers, Sizes DEF Cursor, Overflows
<1>3. left \in Nat /\ left > 0 /\ left + WorldChunkSize = s.current_size + s.size_left
  BY <1>2
<1> HIDE DEF left
<1>4. /\ r \in LayoutRecord /\ r.failed = s.failed
      /\ r.size_left = left /\ r.current_size = WorldChunkSize
      /\ SameInput(s, r) /\ r.i = s.i /\ r.pc = "split" /\ r.placed_at = s.placed_at
      /\ r.tensors = s.tensors /\ r.chunks = s.chunks
      /\ r.in_buffer = s.in_buffer /\ r.left_most = s.left_most
      /\ r.file = s.file /\ r.file_offset = s.file_offset
      /\ r.device_offset = s.device_offset
  BY <1>1, <1>2, <1>3 DEF LayoutRecord, SameInput
<1> HIDE DEF r
<1>5. /\ \A k : Offset(r, k) = Offset(s, k)
      /\ NumOffsets(r) = NumOffsets(s)
      /\ \A t : Tensor(r, t) = Tensor(s, t) /\ Region(r, t) = Region(s, t)
      /\ \A t, x, d : EmittedOf(r, t, x, d) <=> EmittedOf(s, t, x, d)
      /\ \A file, at, x, last, d :
           Emitted(r, file, at, x, last, d) <=> Emitted(s, file, at, x, last, d)
      /\ \A c : Chunk(r, c) = Chunk(s, c)
      /\ NextTensorId(r) = NextTensorId(s) /\ Latest(r) = Latest(s)
      /\ \A t, x : AtOf(r, t, x) = AtOf(s, t, x)
      /\ TensorSize(r) = TensorSize(s)
  BY <1>4, SameChunks
    DEF SameInput, Offset, NumOffsets, Tensor, Region, AtOf, EmittedOf, NextTensorId, TensorSize
<1>6. FromInput(r) /\ Cursor(r)
  BY <1>1, <1>2, <1>4, <1>5 DEF FromInput, SameInput, Cursor
<1>7. /\ begin \in Nat /\ s.placed_at + s.file_offset = s.device_offset + begin
      /\ s.file_offset + s.current_size >= begin
  BY <1>1, CursorOffsets DEF Position, WithinTensor
<1>8. WithinTensor(r) /\ Position(r)
  <2>1. WithinTensor(s)
    BY <1>1 DEF Position
  <2>2. /\ s.file_offset + WorldChunkSize + left = s.file_offset + s.current_size + s.size_left
        /\ s.file_offset + WorldChunkSize >= begin
    BY <1>2, <1>3, <1>7
  <2> QED
    BY <1>3, <1>4, <1>5, <2>1, <2>2 DEF WithinTensor, Position
<1>9. Left(r) /\ LayerBefore(r)
  BY <1>1, <1>4, <1>5 DEF Left, LayerBefore
<1>10. \A file : \A at, x \in Int : Pending(s, file, at, x) => Pending(r, file, at, x)
  BY <1>2, <1>4 DEF Pending
<1>11. CurrentLayer(r)
  <2>1. Address(r) = Address(s)
    BY <1>4 DEF Address
  <2>2. ASSUME NEW t \in s.left_most .. NextTensorId(s) - 1, NEW x \in Region(s, t)
        PROVE  \/ x < s.device_offset /\ EmittedOf(s, t, x, Latest(s))
               \/ /\ Tensor(s, t).last_chunk_id = Len(s.chunks)
                  /\ Pending(r, Tensor(s, t).file, AtOf(s, t, x), x)
    <3>1. t \in 0 .. NextTensorId(s) - 1
      BY <1>1, Numbers, Lookups
    <3>2. AtOf(s, t, x) \in Int /\ x \in Int
      BY <1>1, <3>1, BytesAreNumbers
    <3>3. \/ x < s.device_offset /\ EmittedOf(s, t, x, Latest(s))
          \/ /\ Tensor(s, t).last_chunk_id = Len(s.chunks)
             /\ Pending(s, Tensor(s, t).file, AtOf(s, t, x), x)
      BY <1>1 DEF CurrentLayer
    <3> QED
      BY <1>10, <3>2, <3>3
  <2>3. r.current_size > 0
    BY <1>2, <1>4
  <2> QED
    BY <1>1, <1>4, <1>5, <2>1, <2>2, <2>3 DEF CurrentLayer
<1>12. InBufferOrHeader(r) /\ FilesSoFar(r)
  BY <1>1, <1>4, <1>5
    DEF InBufferOrHeader, ChunkInBuffer, HeaderOnly, ChunkEnd, FilesSoFar, SameInput
<1>13. Aligned(r)
  BY <1>1, <1>5 DEF Aligned, AlignedTensor
<1>14. BeingPlaced(r)
  <2> SUFFICES ASSUME NEW at \in Offset(r, r.i).at .. r.file_offset + r.current_size - 1
               PROVE  LET x == s.placed_at + (at - begin)
                      IN \/ x < s.device_offset /\ Emitted(s, s.file, at, x, Latest(s), Latest(s))
                         \/ Pending(r, s.file, at, x)
    BY <1>4, <1>5 DEF BeingPlaced
  <2> DEFINE x == s.placed_at + (at - begin)
  <2>1. Offset(r, r.i).at = begin
    BY <1>4, <1>5
  <2>2. at \in Int /\ at >= begin /\ at < s.file_offset + WorldChunkSize
    BY <1>2, <1>4, <1>7, <2>1
  <2>3. CASE at < s.file_offset + s.current_size
    <3>1. at \in begin .. s.file_offset + s.current_size - 1
      BY <1>2, <1>7, <2>2, <2>3
    <3>2. \/ x < s.device_offset /\ Emitted(s, s.file, at, x, Latest(s), Latest(s))
          \/ Pending(s, s.file, at, x)
      BY <1>1, <3>1 DEF BeingPlaced
    <3>3. x \in Int
      BY <1>2, <1>7, <2>2
    <3> HIDE DEF x
    <3>4. Pending(s, s.file, at, x) => Pending(r, s.file, at, x)
      BY <1>10, <2>2, <3>3
    <3> QED
      BY <3>2, <3>4 DEF x
  <2>4. CASE at >= s.file_offset + s.current_size
    <3>1. x = s.device_offset + (at - s.file_offset)
      BY <1>2, <1>7, <2>2
    <3>2. s.file_offset <= at
      BY <1>2, <2>2, <2>4
    <3> QED
      BY <1>4, <2>2, <3>1, <3>2 DEF Pending
  <2> QED
    BY <1>2, <2>2, <2>3, <2>4
<1>15. s.device_offset + WorldChunkSize <= s.buffer_size
  <2> DEFINE up == RoundUp(s.current_size + s.size_left, WorldChunkAlignment)
  <2>1. up \in Nat /\ up >= s.current_size + s.size_left
    <3>1. s.current_size + s.size_left \in Nat
      BY <1>2
    <3> QED
      BY <3>1, Sizes, RoundUpFacts
  <2>2. s.device_offset + up <= s.buffer_size /\ s.buffer_size \in Nat
    BY <1>1, InputFacts DEF SplitFits
  <2> HIDE DEF up
  <2> QED
    BY <1>2, <2>1, <2>2
<1>16. Core(r)
  BY <1>1, <1>4, <1>6, <1>8, <1>9, <1>11, <1>12, <1>13 DEF Core
<1>17. SameTensors(s, r) /\ r.buffer_size = s.buffer_size
  BY <1>4, <1>5 DEF SameTensors, SameInput
<1> QED
  BY <1>3, <1>4, <1>8, <1>14, <1>15, <1>16, <1>17 DEF r, left

LEMMA SplitConsistent ==
  ASSUME NEW s, Consistent(s), s.pc = "split", Overflows(s)
  PROVE  Consistent(SplitChunk(s))
<1> DEFINE full == [s EXCEPT !.size_left = @ - (WorldChunkSize - s.current_size),
                             !.current_size = WorldChunkSize]
           f == FinishChunk(full)
           a == s.current_size + s.size_left
<1>1. s \in LayoutRecord /\ FromInput(s) /\ SplitFits(s) /\ AddressAligned(s) /\ Core(s)
  BY DEF Consistent, Core
<1>2. /\ Core(full) /\ BeingPlaced(full) /\ WithinTensor(full) /\ full.pc = "split"
      /\ full.current_size = WorldChunkSize
      /\ full.size_left + WorldChunkSize = a
      /\ full.device_offset = s.device_offset
      /\ full.placed_at = s.placed_at /\ full.file = s.file
      /\ full.buffer_size = s.buffer_size
      /\ full.device_offset + WorldChunkSize <= full.buffer_size
      /\ SameTensors(s, full)
  BY Filled
<1> HIDE DEF full
<1>3. full \in LayoutRecord /\ Cursor(full) /\ full.current_size > 0
  BY <1>2, Sizes DEF Core
<1>4. /\ Core(f) /\ SameTensors(full, f) /\ SameInput(full, f) /\ SameLoop(full, f)
      /\ f.file = full.file /\ Finished(full, f)
  BY <1>2, <1>3, FinishChunkCore
<1> HIDE DEF f
<1>5. BeingPlaced(f)
  <2>1. Offset(full, full.i).at \in Nat
    BY <1>2, CursorOffsets
  <2> QED
    BY <1>2, <1>3, <1>4, <2>1, FinishBeingPlaced
<1>6. f.pc = "split" /\ f.placed_at = s.placed_at /\ f.size_left = full.size_left
  BY <1>2, <1>4 DEF SameLoop
<1>7. SplitFits(f)
  <2> DEFINE up(x) == RoundUp(x, WorldChunkAlignment)
  <2>1. f.device_offset = s.device_offset + WorldChunkSize /\ f.current_size = 0
    BY <1>2, <1>4, WholeChunk DEF Finished
  <2>2. full.size_left \in Nat /\ s.device_offset \in Nat
    BY <1>1, <1>3, Numbers
  <2>3. up(a) = up(full.size_left) + WorldChunkSize
    BY <1>2, <2>2, WholeChunk
  <2>4. up(full.size_left) \in Nat
    BY <2>2, Sizes, RoundUpFacts
  <2>5. s.device_offset + up(a) <= s.buffer_size
    BY <1>1 DEF SplitFits
  <2> HIDE DEF up
  <2>6. f.device_offset + up(full.size_left) <= s.buffer_size
    BY <2>1, <2>2, <2>3, <2>4, <2>5, Sizes
  <2>7. f.current_size + f.size_left = full.size_left
    BY <1>6, <2>1, <2>2
  <2> QED
    BY <1>2, <1>4, <2>6, <2>7 DEF SplitFits, SameInput, up
<1>8. AddressAligned(f)
  <2>1. NextTensorId(f) = NextTensorId(s) /\ NextTensorId(s) \in Nat
    BY <1>1, <1>2, <1>4, Lookups DEF SameTensors
  <2>2. Address(f) = Address(s) /\ f.file = s.file
    BY <1>2, <1>4, <1>6 DEF Address
  <2>3. \A t \in 0 .. NextTensorId(s) - 1 :
          /\ Tensor(f, t).file = Tensor(s, t).file
          /\ Tensor(f, t).size = Tensor(s, t).size
          /\ Tensor(f, t).device_buffer_offset = Tensor(s, t).device_buffer_offset
    BY <1>2, <1>4 DEF SameTensors
  <2>4. NextTensorId(s) > 0 => NextTensorId(s) - 1 \in 0 .. NextTensorId(s) - 1
    BY <2>1
  <2> QED
    BY <1>1, <2>1, <2>2, <2>3, <2>4 DEF AddressAligned
<1> QED
  BY <1>4, <1>5, <1>6, <1>7, <1>8 DEF Consistent, SplitChunk, f, full

\* A byte of the tensor that is being recorded.
LEMMA RecordedByte ==
  ASSUME NEW s, Consistent(s), s.pc = "split", ~Overflows(s),
         NEW at \in Int, at >= Offset(s, s.i).at,
         at < s.file_offset + s.current_size + s.size_left
  PROVE  LET x == s.placed_at + (at - Offset(s, s.i).at)
         IN \/ x < s.device_offset /\ Emitted(s, s.file, at, x, Len(s.chunks), Latest(s))
            \/ /\ s.file_offset <= at
               /\ x = s.device_offset + (at - s.file_offset)
<1> DEFINE begin == Offset(s, s.i).at
           x == s.placed_at + (at - begin)
<1>1. /\ s \in LayoutRecord /\ Core(s) /\ BeingPlaced(s)
      /\ s.placed_at + s.file_offset = s.device_offset + begin
      /\ s.file_offset + s.current_size >= begin /\ begin \in Nat
  BY CursorOffsets DEF Consistent, Core, Position, WithinTensor
<1>2. /\ s.current_size \in Nat /\ s.size_left \in Nat /\ s.file_offset \in Nat
      /\ s.device_offset \in Nat /\ s.placed_at \in Nat
  BY <1>1, Numbers
<1>3. CASE at < s.file_offset + s.current_size
  <2>1. at \in begin .. s.file_offset + s.current_size - 1
    BY <1>1, <1>2, <1>3
  <2>2. \/ x < s.device_offset /\ Emitted(s, s.file, at, x, Latest(s), Latest(s))
        \/ Pending(s, s.file, at, x)
    BY <1>1, <2>1 DEF BeingPlaced
  <2> HIDE DEF x
  <2>3. ASSUME Emitted(s, s.file, at, x, Latest(s), Latest(s))
        PROVE  Emitted(s, s.file, at, x, Len(s.chunks), Latest(s))
    <3>1. PICK c \in 0 .. Len(s.chunks) - 1 :
            CarriesByte(s, c, s.file, at, x) /\ Untouched(s, c, Latest(s), x)
      BY <2>3 DEF Emitted
    <3>2. c <= Len(s.chunks)
      BY <1>1, Lookups
    <3> QED
      BY <3>1, <3>2 DEF Emitted
  <2> QED
    BY <2>2, <2>3 DEF Pending, x
<1>4. CASE at >= s.file_offset + s.current_size
  <2>1. s.file_offset <= at /\ x = s.device_offset + (at - s.file_offset)
    BY <1>1, <1>2, <1>4
  <2> QED
    BY <2>1
<1> QED
  BY <1>2, <1>3, <1>4

\* From s, the end of the loop's body has recorded a tensor and led to r.
Recorded(s, r) ==
  LET n == NextTensorId(s)
      m == Tensor(r, n)
  IN /\ r \in LayoutRecord /\ r.failed = s.failed
     /\ r.size_left = 0 /\ r.current_size = s.current_size + s.size_left
     /\ SameInput(s, r) /\ r.i = s.i + 1 /\ r.pc = "next"
     /\ r.chunks = s.chunks
     /\ r.in_buffer = s.in_buffer /\ r.left_most = s.left_most
     /\ r.file = s.file /\ r.file_offset = s.file_offset
     /\ r.device_offset = s.device_offset
     /\ NextTensorId(r) = n + 1
     /\ \A t \in 0 .. n - 1 : Tensor(r, t) = Tensor(s, t)
     /\ m.size = TensorSize(s) /\ m.file = Offset(s, s.i).file
     /\ m.file_offset = Offset(s, s.i).at
     /\ m.device_buffer_offset = s.placed_at
     /\ m.last_chunk_id = Len(s.chunks)

LEMMA RecordFields ==
  ASSUME NEW s, Core(s), s.pc = "split"
  PROVE  Recorded(s, RecordTensor(s))
<1> DEFINE n == NextTensorId(s)
           total == s.current_size + s.size_left
           new == [size |-> TensorSize(s), file |-> Offset(s, s.i).file,
                   file_offset |-> Offset(s, s.i).at,
                   device_buffer_offset |-> s.placed_at,
                   last_chunk_id |-> LastChunkId(s), prefetch_chunk_id |-> 0]
           ts == Append(s.tensors, new)
           r == RecordTensor(s)
<1>1. s \in LayoutRecord /\ n \in Nat /\ Len(s.chunks) \in Nat
  BY Lookups DEF Core
<1>2. /\ Offset(s, s.i).at \in Nat /\ Offset(s, s.i).file \in Nat /\ TensorSize(s) \in Nat
      /\ s.placed_at \in Nat /\ total \in Nat /\ s.i + 1 \in Nat
  BY <1>1, CursorOffsets, Numbers
<1>3. new \in TensorRecord
  BY <1>1, <1>2 DEF TensorRecord, LastChunkId
<1>4. /\ new.size = TensorSize(s) /\ new.file = Offset(s, s.i).file
      /\ new.file_offset = Offset(s, s.i).at
      /\ new.device_buffer_offset = s.placed_at
      /\ new.last_chunk_id = Len(s.chunks)
  BY DEF LastChunkId
<1>5. r = [s EXCEPT !.current_size = total, !.size_left = 0, !.tensors = ts,
                    !.i = @ + 1, !.pc = "next"]
  BY DEF RecordTensor
<1> HIDE DEF new
<1>6. /\ ts \in Seq(TensorRecord) /\ Len(ts) = n + 1
      /\ \A k \in 1 .. n : ts[k] = s.tensors[k]
      /\ ts[n + 1] = new
  <2>1. s.tensors \in Seq(TensorRecord) /\ n = Len(s.tensors)
    BY <1>1 DEF LayoutRecord, NextTensorId
  <2> QED
    BY <1>3, <2>1
<1> HIDE DEF ts, total, r
<1>7. /\ r \in LayoutRecord /\ r.failed = s.failed
      /\ r.size_left = 0 /\ r.current_size = total
      /\ SameInput(s, r) /\ r.i = s.i + 1 /\ r.pc = "next"
      /\ r.tensors = ts /\ r.chunks = s.chunks
      /\ r.in_buffer = s.in_buffer /\ r.left_most = s.left_most
      /\ r.file = s.file /\ r.file_offset = s.file_offset
      /\ r.device_offset = s.device_offset
  BY <1>1, <1>2, <1>5, <1>6 DEF LayoutRecord, SameInput
<1>8. /\ \A t \in 0 .. n - 1 : Tensor(r, t) = Tensor(s, t)
      /\ Tensor(r, n) = new
      /\ NextTensorId(r) = n + 1
  <2>1. \A t \in 0 .. n - 1 : t + 1 \in 1 .. n
    BY <1>1
  <2> QED
    BY <1>6, <1>7, <2>1 DEF Tensor, NextTensorId
<1> QED
  BY <1>4, <1>7, <1>8 DEF Recorded, r, total

LEMMA RecordConsistent ==
  ASSUME NEW s, Consistent(s), s.pc = "split", ~Overflows(s)
  PROVE  Consistent(RecordTensor(s))
<1> DEFINE begin == Offset(s, s.i).at
           size == TensorSize(s)
           n == NextTensorId(s)
           total == s.current_size + s.size_left
           r == RecordTensor(s)
<1>1. /\ s \in LayoutRecord /\ ~s.failed /\ FromInput(s) /\ Cursor(s) /\ Position(s)
      /\ Left(s) /\ LayerBefore(s) /\ CurrentLayer(s)
      /\ InBufferOrHeader(s) /\ FilesSoFar(s) /\ Aligned(s)
      /\ SplitFits(s) /\ BeingPlaced(s) /\ AddressAligned(s) /\ Core(s)
  BY DEF Consistent, Core
<1>2. /\ s.current_size \in Nat /\ s.size_left \in Nat /\ s.file_offset \in Nat
      /\ s.device_offset \in Nat /\ s.placed_at \in Nat /\ WorldChunkSize \in Nat \ {0}
      /\ s.file \in Nat /\ s.i \in Nat /\ s.left_most \in Nat /\ s.in_buffer \in Nat
      /\ n \in Nat /\ Len(s.chunks) \in Nat
  BY <1>1, Numbers, Sizes, Lookups
<1>3. /\ total \in Nat /\ total <= WorldChunkSize /\ total >= s.current_size
      /\ s.size_left > 0 => total > 0
  BY <1>2 DEF Overflows
<1>4. /\ s.i < NumOffsets(s) - 1
      /\ Offset(s, s.i).file = s.file /\ Offset(s, s.i + 1).file = s.file
      /\ s.file_offset + s.current_size + s.size_left = Offset(s, s.i + 1).at
      /\ s.placed_at + s.file_offset = s.device_offset + begin
      /\ s.size_left > 0 \/ size = 0
      /\ begin \in Nat /\ size \in Nat /\ size = Offset(s, s.i + 1).at - begin
      /\ Offset(s, s.i + 1).at \in Nat
      /\ Address(s) = s.placed_at
      /\ s.placed_at <= s.device_offset + s.current_size
  BY <1>1, CursorOffsets DEF Position, WithinTensor
<1>31. /\ s.file_offset + total = Offset(s, s.i + 1).at
       /\ s.device_offset + total = s.placed_at + size
       /\ s.placed_at <= s.device_offset + total
  <2>1. /\ s.file_offset + s.current_size + s.size_left = Offset(s, s.i + 1).at
        /\ s.placed_at + s.file_offset = s.device_offset + begin
        /\ s.placed_at <= s.device_offset + s.current_size
        /\ size = Offset(s, s.i + 1).at - begin
        /\ begin \in Nat /\ size \in Nat /\ Offset(s, s.i + 1).at \in Nat
    BY <1>4
  <2>2. /\ s.current_size \in Nat /\ s.size_left \in Nat /\ s.file_offset \in Nat
        /\ s.device_offset \in Nat /\ s.placed_at \in Nat
        /\ total = s.current_size + s.size_left
    BY <1>2
  <2> HIDE DEF begin, size, total
  <2> QED
    BY <2>1, <2>2
<1> HIDE DEF total, size, begin, r
<1>5. Recorded(s, r)
  BY <1>1, RecordFields DEF r
<1>6. /\ Tensor(r, n).size = size /\ Tensor(r, n).file = s.file
      /\ Tensor(r, n).file_offset = begin
      /\ Tensor(r, n).device_buffer_offset = s.placed_at
      /\ Tensor(r, n).last_chunk_id = Len(s.chunks)
  BY <1>4, <1>5 DEF Recorded, size, begin
<1>9. /\ r \in LayoutRecord /\ r.failed = s.failed
      /\ r.size_left = 0 /\ r.current_size = total
      /\ SameInput(s, r) /\ r.i = s.i + 1 /\ r.pc = "next"
      /\ r.chunks = s.chunks
      /\ r.in_buffer = s.in_buffer /\ r.left_most = s.left_most
      /\ r.file = s.file /\ r.file_offset = s.file_offset
      /\ r.device_offset = s.device_offset
  BY <1>5 DEF Recorded, total
<1>10. /\ \A t \in 0 .. n - 1 : Tensor(r, t) = Tensor(s, t)
       /\ NextTensorId(r) = n + 1
  BY <1>5 DEF Recorded
<1>11. /\ \A k : Offset(r, k) = Offset(s, k)
       /\ NumOffsets(r) = NumOffsets(s)
       /\ \A file, at, x, last, d :
            Emitted(r, file, at, x, last, d) <=> Emitted(s, file, at, x, last, d)
       /\ \A c : Chunk(r, c) = Chunk(s, c)
       /\ Latest(r) = Latest(s)
  BY <1>9, SameChunks DEF SameInput, Offset, NumOffsets
<1>12. \A t \in 0 .. n - 1 :
         /\ Region(r, t) = Region(s, t)
         /\ \A x : AtOf(r, t, x) = AtOf(s, t, x)
         /\ \A x, d : EmittedOf(r, t, x, d) <=> EmittedOf(s, t, x, d)
  BY <1>10, <1>11 DEF Region, AtOf, EmittedOf
<1>13. FromInput(r)
  BY <1>1, <1>9 DEF FromInput, SameInput
<1>14. Cursor(r)
  BY <1>1, <1>2, <1>3, <1>9, <1>10 DEF Cursor
<1>15. Position(r)
  <2>1. NumOffsets(s) \in Nat
    BY <1>1, InputFacts
  <2>2. s.i < NumOffsets(s) - 1
    BY <1>4
  <2>3. s.i + 1 < NumOffsets(s)
    BY <1>2, <2>1, <2>2
  <2> QED
    BY <1>4, <1>9, <1>11, <1>31, <2>3 DEF Position, BetweenTensors
<1>16. /\ s.in_buffer <= s.left_most /\ s.left_most <= n
       /\ \A t \in 0 .. s.left_most - 1 : t \in 0 .. n - 1
  BY <1>1, <1>2 DEF Cursor
<1>17. Left(r)
  <2> SUFFICES ASSUME NEW t \in 0 .. s.in_buffer - 1
               PROVE  /\ Tensor(s, t).prefetch_chunk_id <= Latest(s)
                      /\ Tensor(s, t).size > 0 =>
                           Tensor(s, t).last_chunk_id <= Tensor(s, t).prefetch_chunk_id
                      /\ \A x \in Region(s, t) :
                           EmittedOf(s, t, x, Tensor(s, t).prefetch_chunk_id)
                      /\ \A u \in 0 .. t :
                           Tensor(s, u).prefetch_chunk_id <= Tensor(s, t).prefetch_chunk_id
    <3>1. \A t \in 0 .. s.in_buffer - 1 : t \in 0 .. n - 1 /\ \A u \in 0 .. t : u \in 0 .. n - 1
      BY <1>2, <1>16
    <3> QED
      BY <1>9, <1>10, <1>11, <1>12, <3>1 DEF Left
  <2> QED
    BY <1>1 DEF Left
<1>18. LayerBefore(r)
  <2>1. \A t \in s.in_buffer .. s.left_most - 1 :
          t \in 0 .. n - 1 /\ \A u \in t .. s.left_most - 1 : u \in 0 .. n - 1
    BY <1>2, <1>16
  <2> QED
    BY <1>1, <1>9, <1>10, <1>11, <1>12, <2>1 DEF LayerBefore
<1>19. Address(r) = s.device_offset + total /\ s.placed_at <= Address(r)
  BY <1>9, <1>31 DEF Address
<1>20. \A file : \A at, x \in Int : Pending(s, file, at, x) => Pending(r, file, at, x)
  BY <1>2, <1>3, <1>9 DEF Pending
<1>21. CurrentLayer(r)
  <2> SUFFICES ASSUME NEW t \in s.left_most .. n
               PROVE  /\ Tensor(r, t).last_chunk_id <= Len(s.chunks)
                      /\ Tensor(r, t).size > 0 /\ Tensor(r, t).last_chunk_id = Len(s.chunks)
                           => total > 0
                      /\ Tensor(r, t).device_buffer_offset <= Address(r)
                      /\ \A x \in Region(r, t) :
                           \/ x < s.device_offset /\ EmittedOf(r, t, x, Latest(s))
                           \/ /\ Tensor(r, t).last_chunk_id = Len(s.chunks)
                              /\ Pending(r, Tensor(r, t).file, AtOf(r, t, x), x)
                      /\ \A u \in t .. n :
                           Tensor(r, t).device_buffer_offset <= Tensor(r, u).device_buffer_offset
    BY <1>2, <1>9, <1>10, <1>11 DEF CurrentLayer
  <2>1. CASE t \in s.left_most .. n - 1
    <3>1. /\ t \in 0 .. n - 1 /\ Tensor(r, t) = Tensor(s, t)
          /\ Tensor(s, t).device_buffer_offset \in Nat
      BY <1>1, <1>2, <1>10, <2>1, Lookups
    <3>2. /\ Tensor(s, t).last_chunk_id <= Len(s.chunks)
          /\ Tensor(s, t).size > 0 /\ Tensor(s, t).last_chunk_id = Len(s.chunks)
               => s.current_size > 0
          /\ Tensor(s, t).device_buffer_offset <= s.placed_at
          /\ \A u \in t .. n - 1 :
               Tensor(s, t).device_buffer_offset <= Tensor(s, u).device_buffer_offset
      BY <1>1, <1>4, <2>1 DEF CurrentLayer
    <3>3. ASSUME NEW x \in Region(s, t)
          PROVE  \/ x < s.device_offset /\ EmittedOf(s, t, x, Latest(s))
                 \/ /\ Tensor(s, t).last_chunk_id = Len(s.chunks)
                    /\ Pending(r, Tensor(s, t).file, AtOf(s, t, x), x)
      <4>1. \/ x < s.device_offset /\ EmittedOf(s, t, x, Latest(s))
            \/ /\ Tensor(s, t).last_chunk_id = Len(s.chunks)
               /\ Pending(s, Tensor(s, t).file, AtOf(s, t, x), x)
        BY <1>1, <2>1 DEF CurrentLayer
      <4>2. AtOf(s, t, x) \in Int /\ x \in Int
        BY <1>1, <3>1, BytesAreNumbers
      <4> QED
        BY <1>20, <4>1, <4>2
    <3>4. ASSUME NEW u \in t .. n
          PROVE  Tensor(s, t).device_buffer_offset <= Tensor(r, u).device_buffer_offset
      <4>1. CASE u = n
        BY <1>6, <1>10, <3>2, <4>1
      <4>2. CASE u \in t .. n - 1
        <5>1. u \in 0 .. n - 1
          BY <3>1, <4>2
        <5> QED
          BY <1>10, <3>2, <4>2, <5>1
      <4> QED
        BY <1>2, <3>1, <4>1, <4>2
    <3>5. s.current_size > 0 => total > 0
      BY <1>2, <1>3
    <3>6. Tensor(s, t).device_buffer_offset <= Address(r)
      BY <1>2, <1>3, <1>19, <3>1, <3>2
    <3> QED
      BY <1>12, <3>1, <3>2, <3>3, <3>4, <3>5, <3>6
  <2>2. CASE t = n
    <3>1. Tensor(r, t) = Tensor(r, n)
      BY <2>2
    <3>2. size > 0 => total > 0
      BY <1>3, <1>4
    <3>3. ASSUME NEW x \in Region(r, t)
          PROVE  \/ x < s.device_offset /\ EmittedOf(r, t, x, Latest(s))
                 \/ Pending(r, s.file, AtOf(r, t, x), x)
      <4> DEFINE at == AtOf(r, t, x)
      <4>1. x \in s.placed_at .. s.placed_at + size - 1 /\ at = begin + (x - s.placed_at)
        BY <1>6, <3>1 DEF Region, AtOf
      <4>2. /\ at \in Int /\ x \in Int /\ at >= begin /\ at < begin + size
            /\ x = s.placed_at + (at - begin)
        <5>1. s.placed_at \in Nat /\ size \in Nat /\ begin \in Nat
          BY <1>2, <1>4
        <5> HIDE DEF at
        <5>2. x \in Int /\ x >= s.placed_at /\ x < s.placed_at + size
          BY <4>1, <5>1
        <5> QED
          BY <4>1, <5>1, <5>2
      <4> HIDE DEF at
      <4>3. at < s.file_offset + s.current_size + s.size_left
        BY <1>2, <1>4, <4>2
      <4>4. \/ x < s.device_offset /\ Emitted(s, s.file, at, x, Len(s.chunks), Latest(s))
            \/ s.file_offset <= at /\ x = s.device_offset + (at - s.file_offset)
        BY <4>2, <4>3, RecordedByte DEF begin
      <4>5. CASE x < s.device_offset /\ Emitted(s, s.file, at, x, Len(s.chunks), Latest(s))
        <5>1. EmittedOf(r, t, x, Latest(s))
          BY <1>6, <1>11, <3>1, <4>5 DEF EmittedOf, at
        <5> QED
          BY <4>5, <5>1
      <4>6. CASE s.file_offset <= at /\ x = s.device_offset + (at - s.file_offset)
        <5>1. at < s.file_offset + total
          BY <1>2, <4>2, <4>3 DEF total
        <5>2. Pending(r, s.file, at, x)
          BY <1>9, <4>6, <5>1 DEF Pending
        <5> QED
          BY <5>2 DEF at
      <4> QED
        BY <4>4, <4>5, <4>6
    <3>4. \A u \in t .. n : u = n
      BY <1>2, <2>2
    <3> QED
      BY <1>2, <1>6, <1>10, <1>19, <3>1, <3>2, <3>3, <3>4
  <2> QED
    BY <1>2, <2>1, <2>2
<1>22. InBufferOrHeader(r)
  <2> SUFFICES ASSUME NEW c \in 0 .. Len(s.chunks) - 1
               PROVE  Chunk(r, c).file <= r.file /\ (ChunkInBuffer(r, c) \/ HeaderOnly(r, c))
    BY <1>9 DEF InBufferOrHeader
  <2>1. Chunk(s, c).file <= s.file /\ (ChunkInBuffer(s, c) \/ HeaderOnly(s, c))
    BY <1>1 DEF InBufferOrHeader
  <2>2. ChunkInBuffer(s, c) => ChunkInBuffer(r, c)
    BY <1>9, <1>11 DEF ChunkInBuffer, SameInput
  <2>3. ASSUME HeaderOnly(s, c) PROVE HeaderOnly(r, c)
    <3>1. ChunkEnd(r, c) = ChunkEnd(s, c) /\ ChunkEnd(s, c) \in Nat
      BY <1>1, <1>11, Lookups DEF ChunkEnd
    <3>2. Chunk(s, c).file = s.file => ChunkEnd(s, c) <= begin
      BY <2>3 DEF HeaderOnly, begin
    <3>3. begin <= Offset(s, s.i + 1).at
      BY <1>4
    <3>4. ASSUME NEW t \in 0 .. n, Tensor(r, t).file = Chunk(s, c).file
          PROVE  Tensor(r, t).file_offset >= ChunkEnd(s, c)
      <4>1. CASE t = n
        BY <1>4, <1>6, <1>10, <3>1, <3>2, <3>4, <4>1
      <4>2. CASE t \in 0 .. n - 1
        BY <1>10, <2>3, <3>4, <4>2 DEF HeaderOnly
      <4> QED
        BY <1>2, <4>1, <4>2
    <3>5. Chunk(s, c).file = s.file => ChunkEnd(s, c) <= Offset(s, s.i + 1).at
      BY <1>4, <3>1, <3>2, <3>3
    <3>6. NextTensorId(r) - 1 = n
      BY <1>2, <1>10
    <3> QED
      BY <1>9, <1>11, <3>1, <3>4, <3>5, <3>6 DEF HeaderOnly
  <2> QED
    BY <1>9, <1>11, <2>1, <2>2, <2>3
<1>23. FilesSoFar(r)
  <2> SUFFICES ASSUME NEW t \in 0 .. n PROVE Tensor(r, t).file <= s.file
    BY <1>2, <1>9, <1>10 DEF FilesSoFar
  <2>1. CASE t = n
    BY <1>2, <1>6, <1>10, <2>1
  <2>2. CASE t \in 0 .. n - 1
    BY <1>1, <1>10, <2>2 DEF FilesSoFar
  <2> QED
    BY <1>2, <2>1, <2>2
<1>24. n > 0 => n - 1 \in 0 .. n - 1
  BY <1>2
<1>25. Aligned(r)
  <2> SUFFICES ASSUME NEW t \in 0 .. n PROVE AlignedTensor(r, t)
    BY <1>2, <1>10 DEF Aligned
  <2>1. CASE t = n
    BY <1>1, <1>4, <1>6, <1>10, <1>24, <2>1 DEF AlignedTensor, AddressAligned
  <2>2. CASE t \in 0 .. n - 1
    <3>1. AlignedTensor(s, t)
      BY <1>1, <2>2 DEF Aligned
    <3>2. t > 0 => t - 1 \in 0 .. n - 1
      BY <1>2, <2>2
    <3> QED
      BY <1>10, <2>2, <3>1, <3>2 DEF AlignedTensor
  <2> QED
    BY <1>2, <2>1, <2>2
<1>26. PendingFits(r)
  BY <1>1, <1>9 DEF SplitFits, PendingFits, SameInput, total
<1>27. NextTensorId(r) > 0 /\ NextTensorId(r) - 1 = n
  BY <1>2, <1>10
<1>28. JustRecorded(r)
  <2>1. size > 0 => total > 0
    BY <1>3, <1>4
  <2> QED
    BY <1>6, <1>9, <1>10, <1>27, <2>1 DEF JustRecorded
<1>29. AddressAligned(r)
  <2>1. Address(r) = s.placed_at + size
    BY <1>19, <1>31
  <2> QED
    BY <1>6, <1>9, <1>10, <1>27, <2>1 DEF AddressAligned
<1>30. Core(r)
  BY <1>1, <1>9, <1>13, <1>14, <1>15, <1>17, <1>18, <1>21, <1>22, <1>23, <1>25 DEF Core
<1> QED
  BY <1>9, <1>26, <1>28, <1>29, <1>30 DEF Consistent, r

LEMMA FinishConsistent ==
  ASSUME NEW s, Consistent(s), AtEnd(s)
  PROVE  Consistent(Finish(s))
<1> DEFINE n == NextTensorId(s)
           f == FinishChunk(s)
           g == ResetBufferOffset(f, n)
           h == ResetBufferOffset(g, n)
           r == [h EXCEPT !.pc = "done"]
<1>1. /\ Core(s) /\ s.pc = "next" /\ PendingFits(s) /\ JustRecorded(s)
      /\ s.i = NumOffsets(s) - 1 /\ s \in LayoutRecord /\ FromInput(s)
  BY DEF Consistent, AtEnd, Core
<1>2. n \in Nat /\ Len(s.chunks) \in Nat
  BY <1>1, Lookups
<1>3. /\ Core(f) /\ Settled(f) /\ SameTensors(s, f) /\ SameLoop(s, f)
      /\ s.current_size > 0 => Finished(s, f)
      /\ s.current_size = 0 => f = s
  BY <1>1, FinishChunkCore
<1> HIDE DEF f
<1>4. f.pc = "next" /\ NextTensorId(f) = n
  BY <1>1, <1>3 DEF SameTensors, SameLoop
<1>5. /\ Core(g) /\ Settled(g) /\ SameTensors(f, g) /\ SameLoop(f, g)
      /\ g.chunks = f.chunks /\ g.left_most = n
  BY <1>3, <1>4, NewLayer
<1> HIDE DEF g
<1>6. g.pc = "next" /\ NextTensorId(g) = n
  BY <1>4, <1>5 DEF SameTensors, SameLoop
<1>7. /\ Core(h) /\ SameTensors(g, h) /\ SameLoop(g, h)
      /\ h.chunks = g.chunks /\ h.in_buffer = n
  BY <1>5, <1>6, NewLayer
<1> HIDE DEF h
<1>8. h.pc = "next" /\ NextTensorId(h) = n
  BY <1>6, <1>7 DEF SameTensors, SameLoop
<1>9. /\ h \in LayoutRecord /\ ~h.failed /\ FromInput(h) /\ Cursor(h)
      /\ Left(h) /\ LayerBefore(h) /\ CurrentLayer(h)
      /\ InBufferOrHeader(h) /\ FilesSoFar(h) /\ Aligned(h)
  BY <1>7 DEF Core
<1>10. /\ r \in LayoutRecord /\ r.failed = h.failed /\ r.pc = "done"
       /\ SameInput(h, r) /\ r.tensors = h.tensors /\ r.chunks = h.chunks
       /\ r.in_buffer = h.in_buffer /\ r.left_most = h.left_most
       /\ r.file = h.file /\ r.file_offset = h.file_offset
       /\ r.device_offset = h.device_offset /\ r.current_size = h.current_size
  BY <1>9 DEF LayoutRecord, SameInput
<1> HIDE DEF r
<1>11. /\ \A t : Tensor(r, t) = Tensor(h, t) /\ Region(r, t) = Region(h, t)
       /\ \A t, x, d : EmittedOf(r, t, x, d) <=> EmittedOf(h, t, x, d)
       /\ \A c : Chunk(r, c) = Chunk(h, c)
       /\ NextTensorId(r) = NextTensorId(h) /\ Latest(r) = Latest(h)
       /\ \A t, x : AtOf(r, t, x) = AtOf(h, t, x)
       /\ Address(r) = Address(h)
  BY <1>8, <1>10, SameChunks DEF Tensor, Region, AtOf, EmittedOf, NextTensorId, Address
<1>12. FromInput(r) /\ Cursor(r) /\ Position(r)
  BY <1>9, <1>10, <1>11 DEF FromInput, SameInput, Cursor, Position
<1>13. Left(r) /\ LayerBefore(r)
  BY <1>9, <1>10, <1>11 DEF Left, LayerBefore
<1>14. CurrentLayer(r)
  BY <1>9, <1>10, <1>11 DEF CurrentLayer, Pending
<1>15. InBufferOrHeader(r) /\ FilesSoFar(r) /\ Aligned(r)
  BY <1>9, <1>10, <1>11
    DEF InBufferOrHeader, ChunkInBuffer, HeaderOnly, ChunkEnd, FilesSoFar, SameInput,
        Aligned, AlignedTensor
<1>16. AllLeft(r)
  <2>1. s.i > 0 /\ Offset(s, s.i - 1).file = Offset(s, s.i).file
    <3>1. /\ NumOffsets(s) \in Nat /\ NumOffsets(s) > 1
          /\ Offset(s, NumOffsets(s) - 2).file = Offset(s, NumOffsets(s) - 1).file
      BY <1>1, InputFacts
    <3>2. s.i - 1 = NumOffsets(s) - 2
      BY <1>1, <3>1
    <3> QED
      BY <1>1, <3>1, <3>2
  <2>2. n > 0 /\ Tensor(s, n - 1).last_chunk_id = Len(s.chunks)
    BY <1>1, <2>1 DEF JustRecorded
  <2>3. Tensor(r, n - 1).last_chunk_id = Tensor(s, n - 1).last_chunk_id
    <3>1. n - 1 \in 0 .. n - 1
      BY <1>2, <2>2
    <3> QED
      BY <1>3, <1>4, <1>5, <1>6, <1>7, <1>11, <3>1 DEF SameTensors
  <2>4. Len(f.chunks) \in {Len(s.chunks), Len(s.chunks) + 1}
    <3>1. CASE s.current_size > 0
      BY <1>3, <3>1 DEF Finished
    <3>2. CASE s.current_size = 0
      BY <1>3, <3>2
    <3> QED
      BY <1>1, <3>1, <3>2 DEF LayoutRecord
  <2>5. Latest(r) <= Len(s.chunks)
    BY <1>2, <1>5, <1>7, <1>10, <2>4 DEF Latest
  <2> QED
    BY <1>7, <1>8, <1>10, <1>11, <2>2, <2>3, <2>5 DEF AllLeft
<1>17. Core(r)
  BY <1>9, <1>10, <1>12, <1>13, <1>14, <1>15 DEF Core
<1> QED
  BY <1>10, <1>16, <1>17 DEF Consistent, Finish, r, h, g, f
-----------------------------------------------------------------------------
(* The bounds are no tighter than they need be.                            *)

\* A chunk takes one unit of its alignment at least.
LEMMA RoundUpPositive ==
  ASSUME NEW x \in Nat \ {0}, NEW y \in Nat \ {0}
  PROVE  RoundUp(x, y) >= y
<1> DEFINE q == (x + y - 1) \div y
<1>1. q \in Nat /\ q >= 1
  OBVIOUS
<1> HIDE DEF q
<1>2. q * y >= y
  BY <1>1
<1> QED
  BY <1>2 DEF RoundUp, RoundDown, q

\* Less than a page left over, a layer's first tensor begins on the first page, after
\* the alignment, and its chunk no later.
LEMMA FirstPage ==
  ASSUME NEW residue \in Nat, residue < ThreadAlignment
  PROVE  /\ AlignedStart(0, residue) \in Nat /\ AlignedStart(0, residue) > 0
         /\ AlignedStart(0, residue) <= FirstTensorAlignment
         /\ AlignedStart(0, residue) + residue \in FirstTensorAlignment .. ThreadAlignment
<1> DEFINE F == FirstTensorAlignment
           q == residue \div F
           r == residue % F
           p == ThreadAlignment \div F
<1>1. F \in Nat \ {0} /\ ThreadAlignment \in Nat \ {0} /\ ThreadAlignment % F = 0
  BY Sizes
<1>2. q \in Nat /\ r \in 0 .. F - 1 /\ residue = (q * F) + r
  BY <1>1
<1>3. p \in Nat /\ ThreadAlignment = p * F
  BY <1>1
<1>4. AlignedStart(0, residue) = 0 + F - r
  BY DEF AlignedStart
<1> HIDE DEF F, q, r, p
<1>5. \A a, b \in Nat : a <= b => a * F <= b * F
  BY <1>1
<1>6. q < p
  <2> SUFFICES ASSUME p <= q PROVE FALSE
    BY <1>2, <1>3
  <2>1. p * F <= q * F
    BY <1>2, <1>3, <1>5
  <2>2. p * F \in Nat /\ q * F \in Nat
    BY <1>1, <1>2, <1>3
  <2> DEFINE pf == p * F
             qf == q * F
  <2> HIDE DEF pf, qf
  <2>3. residue = qf + r /\ ThreadAlignment = pf /\ pf <= qf /\ pf \in Nat /\ qf \in Nat
    BY <1>2, <1>3, <2>1, <2>2 DEF pf, qf
  <2> QED
    BY <1>2, <2>3
<1>7. (q + 1) * F <= p * F
  BY <1>2, <1>3, <1>5, <1>6
<1>8. AlignedStart(0, residue) + residue = (q + 1) * F
  BY <1>1, <1>2, <1>4
<1>9. AlignedStart(0, residue) + residue <= ThreadAlignment
  BY <1>3, <1>7, <1>8
<1>10. /\ AlignedStart(0, residue) \in Nat /\ AlignedStart(0, residue) > 0
       /\ AlignedStart(0, residue) <= F
  BY <1>1, <1>2, <1>4
<1>11. AlignedStart(0, residue) + residue >= F
  <2>1. 1 * F <= (q + 1) * F
    BY <1>2, <1>5
  <2>2. 1 * F = F
    BY <1>1
  <2> QED
    BY <1>8, <2>1, <2>2
<1>12. AlignedStart(0, residue) + residue \in F .. ThreadAlignment
  BY <1>1, <1>9, <1>10, <1>11
<1> QED
  BY <1>10, <1>12 DEF F

\* What finish_chunk adds to the chunks: a chunk of ThreadAlignment bytes at least, and
\* nothing changes about those before it.
LEMMA FinishedChunk ==
  ASSUME NEW s \in LayoutRecord, NEW r, Finished(s, r), s.current_size > 0, LayerBegins(s),
         s.pc # "done"
  PROVE  LET n == Len(s.chunks)
         IN /\ s.device_offset \in Nat /\ r.device_offset \in Nat
            /\ s.device_offset > 0 /\ r.device_offset > ThreadAlignment
            /\ r.device_offset = Chunk(r, n).device_buffer_offset
                                   + RoundUp(Chunk(r, n).size, WorldChunkAlignment)
            /\ Reserved(r, n) = s.device_offset .. r.device_offset - 1
            /\ \A c \in 0 .. n - 1 :
                 Reserved(r, c) = Reserved(s, c) /\ Padding(r, c) = Padding(s, c)
<1> DEFINE n == Len(s.chunks)
           up == RoundUp(s.current_size, WorldChunkAlignment)
<1>1. /\ s.device_offset \in Nat /\ s.device_offset > 0 /\ s.current_size \in Nat \ {0}
      /\ n \in Nat
  BY Numbers, Lookups DEF LayerBegins
<1>2. up \in Nat /\ up >= ThreadAlignment /\ ThreadAlignment \in Nat
  <2>1. up >= WorldChunkAlignment /\ up \in Nat
    BY <1>1, Sizes, RoundUpPositive, RoundUpFacts
  <2> QED
    BY <2>1, Sizes
<1>3. /\ r.device_offset = s.device_offset + up
      /\ Chunk(r, n).device_buffer_offset = s.device_offset /\ Chunk(r, n).size = s.current_size
      /\ \A c \in 0 .. n - 1 : Chunk(r, c) = Chunk(s, c)
  BY DEF Finished
<1>4. /\ Reserved(r, n) = s.device_offset .. r.device_offset - 1
      /\ \A c \in 0 .. n - 1 : Reserved(r, c) = Reserved(s, c)
  BY EmittedChunk
<1> HIDE DEF up
<1>5. r.device_offset \in Nat /\ r.device_offset > ThreadAlignment
  BY <1>1, <1>2, <1>3
<1> HIDE DEF n
<1>6. ASSUME NEW c \in 0 .. n - 1
      PROVE  Padding(r, c) = Padding(s, c)
  <2>1. c > 0 => c - 1 \in 0 .. n - 1
    BY <1>1
  <2>2. Chunk(r, c) = Chunk(s, c) /\ (c > 0 => Chunk(r, c - 1) = Chunk(s, c - 1))
    BY <1>3, <2>1
  <2> QED
    BY <2>2 DEF Padding
<1> QED
  BY <1>1, <1>3, <1>4, <1>5, <1>6 DEF n, up

LEMMA FinishLayerBegins ==
  ASSUME NEW s \in LayoutRecord, NEW r, Finished(s, r), s.current_size > 0,
         Cursor(s), s.pc # "done", LayerBegins(s)
  PROVE  LayerBegins(r)
<1>1. /\ s.left_most \in Nat /\ NextTensorId(s) \in Nat
      /\ r.left_most = s.left_most /\ SameTensors(s, r)
  BY FinishedCounts
<1>2. r.device_offset > 0
  BY FinishedChunk, Sizes
<1>3. s.left_most < NextTensorId(s) => s.left_most \in 0 .. NextTensorId(s) - 1
  BY <1>1
<1> QED
  BY <1>1, <1>2, <1>3 DEF LayerBegins, SameTensors

\* finish_chunk: what leaves, leaves because the new chunk, or the padding before it,
\* takes the tensor's first byte; and the new chunk is loaded by then.
LEMMA FinishFurthest ==
  ASSUME NEW s \in LayoutRecord, NEW r, Finished(s, r), s.current_size > 0,
         Cursor(s), Left(s), LayerBefore(s), s.pc # "done",
         NoEmptyTensor(s), Furthest(s), NotPassed(s), LayerBegins(s)
  PROVE  /\ Furthest(r) /\ NotPassed(r)
         /\ \A t \in 0 .. r.in_buffer - 1 : Tensor(r, t).prefetch_chunk_id + 1 <= Latest(r)
<1> DEFINE n == Len(s.chunks)
           m == NextTensorId(s)
<1>1. /\ n \in Nat /\ Latest(s) = n - 1 /\ Latest(r) = n
      /\ r.left_most = s.left_most /\ r.in_buffer \in s.in_buffer .. s.left_most
      /\ s.in_buffer \in Nat /\ s.left_most \in Nat /\ s.left_most <= m
      /\ m \in Nat /\ NextTensorId(r) = m /\ SameTensors(s, r) /\ r \in LayoutRecord
  BY FinishedCounts
<1>2. /\ LeaveWith(s, r, r.in_buffer, n - 1)
      /\ Chunk(r, n).file = s.file /\ Chunk(r, n).device_buffer_offset = s.device_offset
      /\ \A c \in 0 .. n - 1 : Chunk(r, c) = Chunk(s, c)
      /\ \A t \in r.in_buffer .. s.left_most - 1 :
           Tensor(s, t).device_buffer_offset >= r.device_offset
      /\ \A t \in s.in_buffer .. r.in_buffer - 1 :
           Tensor(s, t).device_buffer_offset < r.device_offset
  BY DEF Finished
<1>3. /\ s.device_offset \in Nat /\ r.device_offset \in Nat
      /\ s.device_offset > 0 /\ r.device_offset > ThreadAlignment
      /\ Reserved(r, n) = s.device_offset .. r.device_offset - 1
      /\ \A c \in 0 .. n - 1 :
           Reserved(r, c) = Reserved(s, c) /\ Padding(r, c) = Padding(s, c)
  BY FinishedChunk
<1>4. ASSUME NEW t \in 0 .. r.in_buffer - 1
      PROVE  /\ Tensor(r, t).prefetch_chunk_id >= -1
             /\ Tensor(r, t).prefetch_chunk_id + 1 <= n
             /\ \E u \in t .. m - 1 : Blocks(r, Tensor(r, t).prefetch_chunk_id + 1, u)
  <2>1. t \in 0 .. m - 1 /\ t \in t .. m - 1 /\ \A u \in t .. m - 1 : u \in 0 .. m - 1
    BY <1>1
  <2> DEFINE next == Tensor(r, t).prefetch_chunk_id + 1
  <2>2. CASE t \in 0 .. s.in_buffer - 1
    <3>1. /\ Tensor(r, t).prefetch_chunk_id = Tensor(s, t).prefetch_chunk_id
          /\ Tensor(s, t).prefetch_chunk_id <= n - 1
          /\ Tensor(s, t).prefetch_chunk_id \in Int
          /\ Tensor(s, t).prefetch_chunk_id >= -1
      BY <1>1, <1>2, <2>1, <2>2, Lookups, SMTT(30) DEF LeaveWith, Left, Furthest
    <3>2. next \in Nat /\ next <= n
      BY <1>1, <3>1
    <3>3. PICK u \in t .. m - 1 : Blocks(s, next, u)
      BY <2>2, <3>1 DEF Furthest
    <3> DEFINE at == Tensor(s, u).device_buffer_offset
    <3>4. /\ Tensor(r, u).last_chunk_id = Tensor(s, u).last_chunk_id
          /\ Tensor(r, u).device_buffer_offset = at
          /\ at \in Nat
      BY <1>1, <2>1, Lookups DEF SameTensors
    <3> HIDE DEF next, at
    <3>5. Tensor(r, u).last_chunk_id < next
      BY <3>3, <3>4 DEF Blocks
    <3>6. next <= Latest(r)
      BY <1>1, <3>2
    <3>7. CASE next = n
      <4>1. /\ s.device_offset <= FirstTensorAlignment
            /\ at \in FirstTensorAlignment .. ThreadAlignment
        BY <1>1, <3>3, <3>7 DEF Blocks, at
      <4>2. at \in Reserved(r, n)
        BY <1>3, <3>4, <4>1, Sizes
      <4>3. Blocks(r, next, u)
        BY <3>4, <3>5, <3>6, <3>7, <4>2 DEF Blocks
      <4> QED
        BY <3>1, <3>2, <4>3 DEF next
    <3>8. CASE next < n
      <4>1. next <= Latest(s) /\ next \in 0 .. n - 1
        BY <1>1, <3>2, <3>8
      <4>2. at \in Reserved(s, next) \cup Padding(s, next)
        BY <3>3, <4>1 DEF Blocks, at
      <4>3. at \in Reserved(r, next) \cup Padding(r, next)
        BY <1>3, <4>1, <4>2
      <4>4. Blocks(r, next, u)
        BY <3>4, <3>5, <3>6, <4>3 DEF Blocks
      <4> QED
        BY <3>1, <3>2, <4>4 DEF next
    <3> QED
      BY <1>1, <3>2, <3>7, <3>8
  <2>3. CASE t \in s.in_buffer .. r.in_buffer - 1
    <3> DEFINE at == Tensor(s, t).device_buffer_offset
    <3>1. next = n /\ Tensor(r, t).prefetch_chunk_id >= -1
      BY <1>1, <1>2, <2>1, <2>3, SMTT(30) DEF LeaveWith
    <3>2. Tensor(s, t).last_chunk_id < n
      <4>1. t \in s.in_buffer .. s.left_most - 1
        BY <1>1, <2>3
      <4>2. Tensor(s, t).size > 0
        BY <2>1 DEF NoEmptyTensor
      <4>3. Tensor(s, t).last_chunk_id <= n - 1
        BY <1>1, <4>1, <4>2 DEF LayerBefore
      <4>4. Tensor(s, t).last_chunk_id \in Nat
        BY <2>1, Lookups
      <4> QED
        BY <1>1, <4>3, <4>4
    <3>3. at < r.device_offset /\ at \in Nat
      BY <1>1, <1>2, <2>1, <2>3, Lookups
    <3>4. /\ Tensor(r, t).last_chunk_id = Tensor(s, t).last_chunk_id
          /\ Tensor(r, t).device_buffer_offset = at
      BY <1>1, <2>1 DEF SameTensors
    <3>5. \/ at >= s.device_offset
          \/ /\ n > 0 /\ Chunk(s, n - 1).file # s.file
             /\ at >= Chunk(s, n - 1).device_buffer_offset
                        + RoundUp(Chunk(s, n - 1).size, WorldChunkAlignment)
      <4>1. t \in s.in_buffer .. s.left_most - 1
        BY <1>1, <2>3
      <4> QED
        BY <1>1, <4>1 DEF NotPassed
    <3> HIDE DEF next, at
    <3>6. at \in Reserved(r, n) \cup Padding(r, n)
      <4>1. CASE at >= s.device_offset
        <5>1. at \in Reserved(r, n)
          BY <1>3, <3>3, <4>1
        <5> QED
          BY <5>1
      <4>2. CASE at < s.device_offset
        <5>1. /\ n > 0 /\ Chunk(s, n - 1).file # s.file
              /\ at >= Chunk(s, n - 1).device_buffer_offset
                         + RoundUp(Chunk(s, n - 1).size, WorldChunkAlignment)
          BY <1>3, <3>3, <3>5, <4>2
        <5>2. n - 1 \in 0 .. n - 1
          BY <1>1, <5>1
        <5>3. Chunk(r, n - 1) = Chunk(s, n - 1)
          BY <1>2, <5>2
        <5> DEFINE before == Chunk(s, n - 1).device_buffer_offset
                               + RoundUp(Chunk(s, n - 1).size, WorldChunkAlignment)
        <5>4. Padding(r, n) = before .. s.device_offset - 1
          BY <1>2, <5>1, <5>3 DEF Padding
        <5>5. before \in Nat
          <6>1. Chunk(s, n - 1).device_buffer_offset \in Nat /\ Chunk(s, n - 1).size \in Nat
            BY <5>2, Lookups
          <6>2. RoundUp(Chunk(s, n - 1).size, WorldChunkAlignment) \in Nat
            BY <6>1, Sizes, RoundUpFacts
          <6> QED
            BY <6>1, <6>2
        <5>6. at >= before
          BY <5>1
        <5> HIDE DEF before
        <5>7. at \in before .. s.device_offset - 1
          BY <1>3, <3>3, <4>2, <5>5, <5>6
        <5> QED
          BY <5>4, <5>7
      <4> QED
        BY <1>3, <3>3, <4>1, <4>2
    <3>7. Blocks(r, n, t)
      <4>1. n <= Latest(r)
        BY <1>1
      <4> QED
        BY <3>2, <3>4, <3>6, <4>1 DEF Blocks
    <3>8. next <= n
      BY <1>1, <3>1
    <3> QED
      BY <2>1, <3>1, <3>7, <3>8 DEF next
  <2> QED
    BY <1>1, <2>2, <2>3
<1>5. Furthest(r)
  BY <1>1, <1>4 DEF Furthest
<1>6. NotPassed(r)
  <2> SUFFICES ASSUME NEW t \in r.in_buffer .. r.left_most - 1
               PROVE  Tensor(r, t).device_buffer_offset >= r.device_offset
    BY DEF NotPassed
  <2>1. t \in 0 .. m - 1
    BY <1>1
  <2> QED
    BY <1>1, <1>2, <2>1 DEF SameTensors
<1> QED
  BY <1>1, <1>4, <1>5, <1>6

\* Where chunks and tensors are the same, and the chunk being filled is no further, so
\* is what they take.
LEMMA SameBounds ==
  ASSUME NEW s, NEW r, r.chunks = s.chunks, r.tensors = s.tensors,
         r.in_buffer = s.in_buffer, r.left_most = s.left_most,
         r.device_offset = s.device_offset, r.file = s.file, s.pc # "done",
         TightBounds(s)
  PROVE  TightBounds(r)
<1>1. /\ NextTensorId(r) = NextTensorId(s) /\ Latest(r) = Latest(s)
      /\ \A t : Tensor(r, t) = Tensor(s, t) /\ Region(r, t) = Region(s, t)
      /\ \A c : Chunk(r, c) = Chunk(s, c)
      /\ \A c : Reserved(r, c) = Reserved(s, c) /\ Padding(r, c) = Padding(s, c)
  BY DEF NextTensorId, Tensor, Region, Chunk, Reserved, Padding, Latest
<1>2. \A next, u : Blocks(s, next, u) => Blocks(r, next, u)
  BY <1>1 DEF Blocks
<1>3. NoEmptyTensor(r) => NoEmptyTensor(s)
  BY <1>1 DEF NoEmptyTensor
<1>4. Furthest(s) => Furthest(r)
  BY <1>1, <1>2 DEF Furthest
<1>5. NotPassed(s) => NotPassed(r)
  BY <1>1 DEF NotPassed
<1> QED
  BY <1>3, <1>4, <1>5 DEF TightBounds

\* reset_chunk_buffer_offset: what leaves, leaves because the next chunk takes the
\* beginning of the layer, wherever on the first page that is.
LEMMA NewLayerFurthest ==
  ASSUME NEW s, Core(s), Settled(s), s.pc = "next", TightBounds(s), LayerBegins(s),
         s.left_most < NextTensorId(s) \/ NextTensorId(s) = 0
  PROVE  LET r == ResetBufferOffset(s, NextTensorId(s))
         IN /\ TightBounds(r) /\ LayerBegins(r)
            /\ r.device_offset + r.current_size \in FirstTensorAlignment .. ThreadAlignment
<1> DEFINE r == ResetBufferOffset(s, NextTensorId(s))
           m == NextTensorId(s)
           n == Len(s.chunks)
<1>1. /\ s \in LayoutRecord /\ ~s.failed /\ Cursor(s) /\ Left(s) /\ LayerBefore(s)
      /\ m \in Nat /\ n \in Nat /\ s.current_size < ThreadAlignment
      /\ s.current_size \in Nat /\ s.left_most \in Nat /\ s.in_buffer \in Nat
  BY Lookups, Numbers DEF Core, Settled
<1>2. /\ r \in LayoutRecord /\ ~r.failed
      /\ SameTensors(s, r) /\ LeaveWith(s, r, s.left_most, n - 1)
      /\ SameInput(s, r) /\ SameLoop(s, r)
      /\ r.in_buffer = s.left_most /\ r.left_most = m
      /\ r.chunks = s.chunks /\ r.file = s.file
      /\ r.file_offset = s.file_offset /\ r.current_size = s.current_size
      /\ r.device_offset = AlignedStart(0, s.current_size)
  BY <1>1, ResetBufferOffsetFields
<1> HIDE DEF r
<1>3. /\ r.device_offset \in Nat /\ r.device_offset > 0
      /\ r.device_offset <= FirstTensorAlignment
      /\ r.device_offset + r.current_size \in FirstTensorAlignment .. ThreadAlignment
  BY <1>1, <1>2, FirstPage
<1>4. LayerBegins(r)
  <2>1. NextTensorId(r) = m /\ ~(m < m)
    BY <1>1, <1>2 DEF SameTensors
  <2> QED
    BY <1>2, <1>3, <2>1 DEF LayerBegins
<1>5. ASSUME NoEmptyTensor(s), Furthest(s), NotPassed(s)
      PROVE  Furthest(r)
  <2> SUFFICES ASSUME NEW t \in 0 .. s.left_most - 1
               PROVE  /\ Tensor(r, t).prefetch_chunk_id >= -1
                      /\ \E u \in t .. m - 1 : Blocks(r, Tensor(r, t).prefetch_chunk_id + 1, u)
    BY <1>2 DEF Furthest, SameTensors
  <2>1. s.left_most < m
    BY <1>1 DEF Cursor
  <2>2. t \in 0 .. m - 1 /\ s.left_most \in t .. m - 1 /\ s.left_most \in 0 .. m - 1
    BY <1>1, <2>1
  <2>3. /\ Latest(s) = n - 1 /\ Latest(r) = n - 1 /\ r.pc = "next"
        /\ \A c : Reserved(r, c) = Reserved(s, c) /\ Padding(r, c) = Padding(s, c)
    BY <1>2 DEF Latest, SameLoop, Reserved, Padding, Chunk
  <2>4. CASE t \in 0 .. s.in_buffer - 1
    <3> DEFINE next == Tensor(s, t).prefetch_chunk_id + 1
    <3>1. Tensor(r, t).prefetch_chunk_id = Tensor(s, t).prefetch_chunk_id
      BY <1>1, <1>2, <2>2, <2>4 DEF LeaveWith
    <3>2. Tensor(s, t).prefetch_chunk_id >= -1
      BY <1>5, <2>4 DEF Furthest
    <3>3. PICK u \in t .. m - 1 : Blocks(s, next, u)
      BY <1>5, <2>4 DEF Furthest
    <3>4. u \in 0 .. m - 1
      BY <1>1, <2>2
    <3>5. /\ Tensor(r, u).last_chunk_id = Tensor(s, u).last_chunk_id
          /\ Tensor(r, u).device_buffer_offset = Tensor(s, u).device_buffer_offset
      BY <1>2, <3>4 DEF SameTensors
    <3> HIDE DEF next
    <3>6. Blocks(r, next, u)
      BY <1>3, <2>3, <3>3, <3>5 DEF Blocks
    <3> QED
      BY <3>1, <3>2, <3>6 DEF next
  <2>5. CASE t \in s.in_buffer .. s.left_most - 1
    <3> DEFINE u == s.left_most
    <3>1. Tensor(r, t).prefetch_chunk_id = n - 1
      BY <1>1, <1>2, <2>2, <2>5 DEF LeaveWith
    <3>2. Tensor(s, u).last_chunk_id <= n - 1
      <4>1. Tensor(s, u).size > 0
        BY <1>5, <2>2 DEF NoEmptyTensor
      <4>2. u \in s.left_most .. m - 1
        BY <1>1, <2>1
      <4> QED
        BY <2>3, <4>1, <4>2 DEF Settled
    <3>3. /\ Tensor(s, u).last_chunk_id \in Nat
          /\ Tensor(s, u).device_buffer_offset \in FirstTensorAlignment .. ThreadAlignment
      BY <1>1, <2>1, <2>2, Lookups DEF LayerBegins
    <3>4. /\ Tensor(r, u).last_chunk_id = Tensor(s, u).last_chunk_id
          /\ Tensor(r, u).device_buffer_offset = Tensor(s, u).device_buffer_offset
      BY <1>2, <2>2 DEF SameTensors
    <3>5. Tensor(s, u).last_chunk_id < n
      BY <1>1, <3>2, <3>3
    <3>6. ~(n <= Latest(r))
      BY <1>1, <2>3
    <3> HIDE DEF u
    <3>7. Blocks(r, n, u)
      BY <1>3, <3>3, <3>4, <3>5, <3>6 DEF Blocks
    <3>8. (n - 1) + 1 = n /\ n - 1 >= -1
      BY <1>1
    <3> QED
      BY <2>2, <3>1, <3>7, <3>8 DEF u
  <2> QED
    BY <1>1, <2>4, <2>5
<1>6. NotPassed(r)
  <2> SUFFICES ASSUME NEW t \in s.left_most .. m - 1
               PROVE  Tensor(r, t).device_buffer_offset >= r.device_offset
    BY <1>2 DEF NotPassed
  <2>1. t \in 0 .. m - 1 /\ s.left_most \in 0 .. m - 1 /\ s.left_most < m
    BY <1>1
  <2>2. Tensor(s, s.left_most).device_buffer_offset \in FirstTensorAlignment .. ThreadAlignment
    BY <2>1 DEF LayerBegins
  <2>3. Tensor(s, s.left_most).device_buffer_offset <= Tensor(s, t).device_buffer_offset
    <3>1. s.left_most \in s.left_most .. m - 1
      BY <1>1, <2>1
    <3> QED
      BY <3>1 DEF Core, CurrentLayer
  <2>4. Tensor(s, t).device_buffer_offset \in Nat
    BY <1>1, <2>1, Lookups
  <2>5. Tensor(s, t).device_buffer_offset >= r.device_offset
    BY <1>3, <2>2, <2>3, <2>4, Sizes
  <2> QED
    BY <1>2, <2>1, <2>5 DEF SameTensors
<1>7. TightBounds(r)
  <2>1. NoEmptyTensor(r) => NoEmptyTensor(s)
    BY <1>2 DEF SameTensors, NoEmptyTensor
  <2> QED
    BY <1>5, <1>6, <2>1 DEF TightBounds
<1> QED
  BY <1>3, <1>4, <1>7 DEF r

LEMMA StartBounded ==
  ASSUME NEW input \in Inputs
  PROVE  Bounded(Start(input))
<1> DEFINE r == Start(input)
           residue == input.offsets[1].at % ThreadAlignment
           zero == RoundUp(0, FirstTensorAlignment)
<1>1. r \in LayoutRecord
  BY StartConsistent DEF Consistent, Core
<1>2. /\ r.in_buffer = 0 /\ r.left_most = 0 /\ r.tensors = <<>> /\ r.i = 0 /\ r.pc = "next"
      /\ r.current_size = residue
      /\ r.device_offset = AlignedStart(zero, residue)
  BY DEF Start, ResetFile, FailIf
<1>3. zero = 0
  <2>1. \A y \in Nat \ {0} : (y - 1) \div y = 0
    OBVIOUS
  <2> QED
    BY <2>1, Sizes DEF RoundUp, RoundDown
<1> HIDE DEF r, residue, zero
<1>4. residue \in Nat /\ residue < ThreadAlignment
  <2>1. input.offsets[1].at \in Nat
    <3>1. WellFormed(input)
      BY InputsAssumption
    <3>2. input.offsets \in Seq([file : Nat, at : Nat]) /\ Len(input.offsets) > 1
      BY <3>1 DEF WellFormed
    <3>3. input.offsets[1] \in [file : Nat, at : Nat]
      <4>1. \A S : input.offsets \in Seq(S) => input.offsets[1] \in S
        BY <3>2
      <4> QED
        BY <3>2, <4>1, Zenon
    <3> QED
      BY <3>3
  <2> QED
    BY <2>1, Sizes, RoundDownFacts DEF residue
<1>5. /\ AlignedStart(0, residue) > 0
      /\ AlignedStart(0, residue) + residue \in FirstTensorAlignment .. ThreadAlignment
  BY <1>4, FirstPage
<1>6. NextTensorId(r) = 0
  BY <1>2 DEF NextTensorId
<1>7. Address(r) \in FirstTensorAlignment .. ThreadAlignment
  BY <1>2, <1>3, <1>5 DEF Address
<1>8. TightBounds(r)
  BY <1>2 DEF TightBounds, Furthest, NotPassed
<1>9. LayerBegins(r) /\ NewLayerBegins(r)
  BY <1>2, <1>3, <1>5, <1>6, <1>7 DEF LayerBegins, NewLayerBegins
<1> QED
  BY <1>8, <1>9 DEF Bounded, r

LEMMA PlacedBounded ==
  ASSUME NEW f, Core(f), AtTensor(f), TightBounds(f), LayerBegins(f),
         f.left_most = NextTensorId(f) =>
           f.device_offset + f.current_size \in FirstTensorAlignment .. ThreadAlignment
  PROVE  Bounded([f EXCEPT !.placed_at = Offset(f, f.i).at - f.file_offset + f.device_offset,
                           !.size_left = TensorSize(f),
                           !.pc = "split"])
<1> DEFINE place == Offset(f, f.i).at - f.file_offset + f.device_offset
           r == [f EXCEPT !.placed_at = place, !.size_left = TensorSize(f), !.pc = "split"]
<1>1. /\ f \in LayoutRecord /\ f.pc = "next"
      /\ f.file_offset + f.current_size = Offset(f, f.i).at
  BY DEF Core, AtTensor, Position, BetweenTensors
<1>2. place = f.device_offset + f.current_size
  <2>1. Offset(f, f.i).at \in Nat
    BY <1>1, CursorOffsets
  <2> QED
    BY <1>1, <2>1, Numbers
<1> HIDE DEF place
<1>3. /\ r.placed_at = place /\ r.pc = "split"
      /\ r.tensors = f.tensors /\ r.chunks = f.chunks
      /\ r.in_buffer = f.in_buffer /\ r.left_most = f.left_most
      /\ r.device_offset = f.device_offset /\ r.file = f.file
  BY <1>1 DEF LayoutRecord
<1> HIDE DEF r
<1>4. TightBounds(r)
  BY <1>1, <1>3, SameBounds
<1>5. LayerBegins(r)
  BY <1>1, <1>3 DEF LayerBegins, NextTensorId, Tensor
<1>6. NewLayerBegins(r)
  <2>1. Address(r) = place
    BY <1>3 DEF Address
  <2>2. NextTensorId(r) = NextTensorId(f)
    BY <1>3 DEF NextTensorId
  <2> QED
    BY <1>2, <1>3, <2>1, <2>2 DEF NewLayerBegins
<1> QED
  BY <1>4, <1>5, <1>6 DEF Bounded, r, place

\* finish_chunk between two tensors.
LEMMA FinishBounded ==
  ASSUME NEW s, Consistent(s), s.pc = "next", Bounded(s)
  PROVE  LET f == FinishChunk(s)
         IN /\ Core(f) /\ Settled(f) /\ SameTensors(s, f) /\ SameInput(s, f) /\ SameLoop(s, f)
            /\ TightBounds(f) /\ LayerBegins(f)
            /\ f.left_most = s.left_most /\ f.file = s.file
            /\ s.current_size > 0 => Finished(s, f)
<1> DEFINE f == FinishChunk(s)
<1>1. /\ Core(s) /\ PendingFits(s) /\ s \in LayoutRecord /\ Cursor(s) /\ Left(s)
      /\ LayerBefore(s) /\ TightBounds(s) /\ LayerBegins(s)
  BY DEF Consistent, Core, Bounded
<1>2. /\ Core(f) /\ Settled(f) /\ SameTensors(s, f) /\ SameInput(s, f) /\ SameLoop(s, f)
      /\ f.left_most = s.left_most /\ f.file = s.file
      /\ s.current_size = 0 => f = s
      /\ s.current_size > 0 => Finished(s, f)
  BY <1>1, FinishChunkCore
<1> HIDE DEF f
<1>3. TightBounds(f) /\ LayerBegins(f)
  <2>1. CASE s.current_size = 0
    BY <1>1, <1>2, <2>1
  <2>2. CASE s.current_size > 0
    <3>1. LayerBegins(f)
      BY <1>1, <1>2, <2>2, FinishLayerBegins
    <3>2. NoEmptyTensor(f) => NoEmptyTensor(s)
      BY <1>2 DEF SameTensors, NoEmptyTensor
    <3>3. NoEmptyTensor(s) => Furthest(f) /\ NotPassed(f)
      BY <1>1, <1>2, <2>2, FinishFurthest DEF TightBounds
    <3> QED
      BY <3>1, <3>2, <3>3 DEF TightBounds
  <2>3. s.current_size \in Nat
    BY <1>1, Numbers
  <2> QED
    BY <2>1, <2>2, <2>3
<1> QED
  BY <1>2, <1>3 DEF f

LEMMA PlaceBounded ==
  ASSUME NEW s, Consistent(s), AtTensor(s), Bounded(s)
  PROVE  Bounded(PlaceTensor(s))
<1> DEFINE g == Fitted(s)
<1>1. Core(s) /\ s.pc = "next" /\ TightBounds(s) /\ LayerBegins(s) /\ NewLayerBegins(s)
  BY DEF Consistent, AtTensor, Bounded
<1>2. /\ s \in LayoutRecord /\ s.left_most \in Nat /\ NextTensorId(s) \in Nat
      /\ s.left_most <= NextTensorId(s)
  BY <1>1, Numbers, Lookups DEF Core, Cursor
<1>3. /\ Core(g) /\ AtTensor(g) /\ TightBounds(g) /\ LayerBegins(g)
      /\ g.left_most = NextTensorId(g) =>
           g.device_offset + g.current_size \in FirstTensorAlignment .. ThreadAlignment
      /\ SameInput(s, g) /\ SameLoop(s, g)
  <2>1. CASE Fits(s)
    BY <1>1, <2>1 DEF Fitted, NewLayerBegins, Address, SameInput, SameLoop
  <2>2. CASE ~Fits(s)
    <3> DEFINE f == FinishChunk(s)
               r == ResetBufferOffset(f, NextTensorId(f))
    <3>1. /\ Core(f) /\ Settled(f) /\ SameTensors(s, f) /\ SameInput(s, f) /\ SameLoop(s, f)
          /\ TightBounds(f) /\ LayerBegins(f) /\ f.left_most = s.left_most
      BY <1>1, FinishBounded
    <3> HIDE DEF f
    <3>2. NextTensorId(f) = NextTensorId(s) /\ AtTensor(f) /\ f.pc = "next"
      BY <1>1, <3>1, SamePlace DEF SameTensors
    <3>3. f.left_most < NextTensorId(f) \/ NextTensorId(f) = 0
      BY <1>1, <1>2, <3>1, <3>2 DEF NewLayerBegins
    <3>4. /\ TightBounds(r) /\ LayerBegins(r)
          /\ r.device_offset + r.current_size \in FirstTensorAlignment .. ThreadAlignment
      BY <3>1, <3>2, <3>3, NewLayerFurthest
    <3>5. Core(r) /\ SameInput(f, r) /\ SameLoop(f, r)
      BY <3>1, <3>2, NewLayer
    <3>6. g = r
      BY <2>2, <3>2 DEF Fitted, f
    <3> HIDE DEF r
    <3>7. AtTensor(r) /\ SameInput(s, r) /\ SameLoop(s, r)
      BY <3>1, <3>2, <3>5, SamePlace DEF SameInput, SameLoop
    <3> QED
      BY <3>4, <3>5, <3>6, <3>7
  <2> QED
    BY <2>1, <2>2
<1>4. PlaceTensor(s) =
        [g EXCEPT !.placed_at = Offset(s, s.i).at - g.file_offset + g.device_offset,
                  !.size_left = TensorSize(s),
                  !.pc = "split"]
  BY <1>1, PlaceChecks
<1> HIDE DEF g
<1>5. Offset(s, s.i) = Offset(g, g.i) /\ TensorSize(s) = TensorSize(g)
  BY <1>3, SamePlace
<1>6. Bounded([g EXCEPT !.placed_at = Offset(g, g.i).at - g.file_offset + g.device_offset,
                        !.size_left = TensorSize(g),
                        !.pc = "split"])
  BY <1>3, PlacedBounded
<1> QED
  BY <1>4, <1>5, <1>6

\* Where a file ends, it has a tensor.
LEMMA FileHasTensor ==
  ASSUME NEW s, FromInput(s), NEW k \in Nat, k < NumOffsets(s) - 1,
         Offset(s, k + 1).file # Offset(s, k).file
  PROVE  k > 0 /\ Offset(s, k - 1).file = Offset(s, k).file
<1> DEFINE os == s.offsets
<1>1. /\ os \in Seq([file : Nat, at : Nat]) /\ Len(os) > 1 /\ Len(os) \in Nat
      /\ \A j \in 1 .. Len(os) : FirstOfFile(os, j) => os[j + 1].file = os[j].file
      /\ NumOffsets(s) = Len(os)
  BY DEF FromInput, WellFormed, NumOffsets
<1> HIDE DEF os
<1>2. k + 1 \in 1 .. Len(os)
  BY <1>1
<1>3. Offset(s, k + 1) = os[(k + 1) + 1] /\ Offset(s, k) = os[k + 1]
  BY DEF Offset, os
<1>4. ~FirstOfFile(os, k + 1)
  BY <1>1, <1>2, <1>3
<1>5. k + 1 # 1 /\ os[(k + 1) - 1].file = os[k + 1].file
  BY <1>4 DEF FirstOfFile
<1>6. Offset(s, k - 1) = os[(k - 1) + 1] /\ (k - 1) + 1 = (k + 1) - 1
  BY DEF Offset, os
<1> QED
  BY <1>3, <1>5, <1>6

LEMMA TurnBounded ==
  ASSUME NEW s, Consistent(s), AtFileEnd(s), Bounded(s)
  PROVE  Bounded(NextFile(s))
<1> DEFINE f == FinishChunk(s)
           file == Offset(s, s.i + 1).file
           at == Offset(s, s.i + 1).at
           g == ResetFile(f, file, at)
           r == [g EXCEPT !.i = @ + 1]
           n == Len(s.chunks)
<1>1. /\ Core(s) /\ s.pc = "next" /\ s \in LayoutRecord /\ FromInput(s) /\ JustRecorded(s)
      /\ Cursor(s) /\ Left(s) /\ LayerBefore(s)
      /\ TightBounds(s) /\ LayerBegins(s) /\ NewLayerBegins(s)
      /\ s.i < NumOffsets(s) - 1 /\ s.i \in Nat /\ file # Offset(s, s.i).file
  BY Numbers DEF Consistent, AtFileEnd, Bounded, Core
<1>2. /\ Core(f) /\ Settled(f) /\ SameTensors(s, f) /\ SameInput(s, f) /\ SameLoop(s, f)
      /\ TightBounds(f) /\ LayerBegins(f) /\ f.left_most = s.left_most /\ f.file = s.file
      /\ s.current_size > 0 => Finished(s, f)
  BY <1>1, FinishBounded
<1> HIDE DEF f
<1>3. file \in Nat /\ at \in Nat
  <2>1. s.i + 1 \in 0 .. NumOffsets(s) - 1
    BY <1>1, Numbers, InputFacts
  <2> QED
    BY <1>1, <2>1, InputFacts
<1>4. s.i > 0 /\ Offset(s, s.i - 1).file = Offset(s, s.i).file
  BY <1>1, FileHasTensor
<1>5. s.left_most # NextTensorId(s)
  BY <1>1, <1>4 DEF NewLayerBegins
<1>6. s.file # file
  BY <1>1 DEF Core, Position, BetweenTensors
<1> HIDE DEF file, at
<1>7. f \in LayoutRecord /\ ~f.failed /\ f.current_size < ThreadAlignment /\ f.pc = "next"
  BY <1>1, <1>2 DEF Core, Settled, SameLoop
<1>8. TurnedTo(f, g, file, at)
  BY <1>3, <1>7, ResetFileFields
<1> HIDE DEF g
<1>9. /\ r.tensors = f.tensors /\ r.chunks = f.chunks
      /\ r.in_buffer = f.in_buffer /\ r.left_most = f.left_most /\ r.pc = "next"
      /\ r.device_offset = g.device_offset /\ r.file = file
  <2>1. /\ g \in LayoutRecord /\ g.tensors = f.tensors /\ g.chunks = f.chunks
        /\ g.in_buffer = f.in_buffer /\ g.left_most = f.left_most /\ g.pc = "next"
        /\ g.file = file
    BY <1>7, <1>8 DEF TurnedTo, SameLoop
  <2> QED
    BY <2>1 DEF LayoutRecord
<1> HIDE DEF r
<1>10. /\ NextTensorId(r) = NextTensorId(f) /\ Latest(r) = Latest(f)
       /\ \A t : Tensor(r, t) = Tensor(f, t)
       /\ \A c : /\ Chunk(r, c) = Chunk(f, c)
                 /\ Reserved(r, c) = Reserved(f, c) /\ Padding(r, c) = Padding(f, c)
  BY <1>9 DEF NextTensorId, Tensor, Chunk, Reserved, Padding, Latest
<1>11. TightBounds(r)
  <2> SUFFICES ASSUME NoEmptyTensor(r)
               PROVE  Furthest(r) /\ NotPassed(r)
    BY DEF TightBounds
  <2>1. NoEmptyTensor(s) /\ NoEmptyTensor(f)
    BY <1>2, <1>10 DEF NoEmptyTensor, SameTensors
  <2>2. Finished(s, f) /\ s.current_size > 0
    <3>1. NextTensorId(s) > 0 /\ NextTensorId(s) \in Nat
      BY <1>1, <1>4, Lookups DEF JustRecorded
    <3>2. NextTensorId(s) - 1 \in 0 .. NextTensorId(s) - 1
      BY <3>1
    <3>3. Tensor(s, NextTensorId(s) - 1).size > 0
      BY <2>1, <3>2 DEF NoEmptyTensor
    <3> QED
      BY <1>1, <1>2, <1>4, <3>3 DEF JustRecorded
  <2>3. /\ Furthest(f) /\ NotPassed(f)
        /\ \A t \in 0 .. f.in_buffer - 1 : Tensor(f, t).prefetch_chunk_id + 1 <= Latest(f)
    BY <1>1, <2>1, <2>2, FinishFurthest DEF TightBounds
  <2>4. /\ n \in Nat /\ Latest(f) = n /\ Chunk(f, n).file = s.file
        /\ Len(f.chunks) = n + 1
        /\ f.device_offset = Chunk(f, n).device_buffer_offset
                               + RoundUp(Chunk(f, n).size, WorldChunkAlignment)
    BY <1>1, <2>2, FinishedChunk, FinishedCounts DEF Finished
  <2>5. Furthest(r)
    <3> SUFFICES ASSUME NEW t \in 0 .. f.in_buffer - 1
                 PROVE  /\ Tensor(f, t).prefetch_chunk_id >= -1
                        /\ \E u \in t .. NextTensorId(f) - 1 :
                             Blocks(r, Tensor(f, t).prefetch_chunk_id + 1, u)
      BY <1>9, <1>10 DEF Furthest
    <3> DEFINE next == Tensor(f, t).prefetch_chunk_id + 1
    <3>1. next <= Latest(f) /\ Tensor(f, t).prefetch_chunk_id >= -1
      BY <2>3 DEF Furthest
    <3>2. PICK u \in t .. NextTensorId(f) - 1 : Blocks(f, next, u)
      BY <2>3 DEF Furthest
    <3> HIDE DEF next
    <3>3. Blocks(r, next, u)
      BY <1>10, <3>1, <3>2 DEF Blocks
    <3> QED
      BY <3>1, <3>3 DEF next
  <2>6. NotPassed(r)
    <3> SUFFICES ASSUME NEW t \in f.in_buffer .. f.left_most - 1
                 PROVE  /\ Len(r.chunks) > 0
                        /\ Chunk(r, Latest(r)).file # r.file
                        /\ Tensor(r, t).device_buffer_offset
                             >= Chunk(r, Latest(r)).device_buffer_offset
                                  + RoundUp(Chunk(r, Latest(r)).size, WorldChunkAlignment)
      BY <1>9 DEF NotPassed
    <3>1. Tensor(f, t).device_buffer_offset >= f.device_offset
      BY <1>2, <2>3, <2>4 DEF NotPassed
    <3> QED
      BY <1>6, <1>9, <1>10, <2>4, <3>1
  <2> QED
    BY <2>5, <2>6
<1>12. LayerBegins(r)
  <2>1. g.device_offset > 0
    <3>1. g.device_offset >= f.device_offset /\ g \in LayoutRecord
      BY <1>8 DEF TurnedTo
    <3>2. f.device_offset > 0
      BY <1>2, <1>7 DEF LayerBegins
    <3> QED
      BY <1>7, <3>1, <3>2, Numbers
  <2> QED
    BY <1>2, <1>9, <1>10, <2>1 DEF LayerBegins
<1>13. NewLayerBegins(r)
  <2>1. NextTensorId(r) = NextTensorId(s)
    BY <1>2, <1>10 DEF SameTensors
  <2> QED
    BY <1>2, <1>5, <1>9, <2>1 DEF NewLayerBegins
<1> QED
  BY <1>11, <1>12, <1>13 DEF Bounded, NextFile, r, g, f, file, at

LEMMA SplitBounded ==
  ASSUME NEW s, Consistent(s), s.pc = "split", Overflows(s), Bounded(s)
  PROVE  Bounded(SplitChunk(s))
<1> DEFINE full == [s EXCEPT !.size_left = @ - (WorldChunkSize - s.current_size),
                             !.current_size = WorldChunkSize]
           f == FinishChunk(full)
<1>1. /\ s \in LayoutRecord /\ Core(s) /\ TightBounds(s) /\ LayerBegins(s)
      /\ NewLayerBegins(s)
  BY DEF Consistent, Core, Bounded
<1>2. /\ Core(full) /\ full.pc = "split" /\ full.current_size = WorldChunkSize
      /\ full.device_offset + WorldChunkSize <= full.buffer_size
      /\ full.placed_at = s.placed_at
  BY Filled
<1>3. /\ full.tensors = s.tensors /\ full.chunks = s.chunks
      /\ full.in_buffer = s.in_buffer /\ full.left_most = s.left_most
      /\ full.device_offset = s.device_offset /\ full.file = s.file
  BY <1>1 DEF LayoutRecord
<1> HIDE DEF full
<1>4. TightBounds(full) /\ LayerBegins(full)
  <2>1. TightBounds(full)
    BY <1>1, <1>3, SameBounds
  <2>2. LayerBegins(full)
    BY <1>1, <1>3 DEF LayerBegins, NextTensorId, Tensor
  <2> QED
    BY <2>1, <2>2
<1>5. /\ full \in LayoutRecord /\ Cursor(full) /\ Left(full) /\ LayerBefore(full)
      /\ full.current_size > 0
  BY <1>2, Sizes DEF Core
<1>6. /\ SameTensors(full, f) /\ SameLoop(full, f) /\ f.left_most = full.left_most
      /\ Finished(full, f)
  BY <1>2, <1>5, FinishChunkCore
<1> HIDE DEF f
<1>7. TightBounds(f) /\ LayerBegins(f)
  <2>1. LayerBegins(f)
    BY <1>2, <1>4, <1>5, <1>6, FinishLayerBegins
  <2>2. NoEmptyTensor(f) => NoEmptyTensor(full)
    BY <1>6 DEF SameTensors, NoEmptyTensor
  <2>3. NoEmptyTensor(full) => Furthest(f) /\ NotPassed(f)
    BY <1>2, <1>4, <1>5, <1>6, FinishFurthest DEF TightBounds
  <2> QED
    BY <2>1, <2>2, <2>3 DEF TightBounds
<1>8. NewLayerBegins(f)
  <2>1. NextTensorId(f) = NextTensorId(s) /\ f.left_most = s.left_most
    BY <1>3, <1>6 DEF SameTensors, NextTensorId
  <2>2. f.pc = "split" /\ Address(f) = Address(s)
    BY <1>2, <1>6 DEF SameLoop, Address
  <2> QED
    BY <1>1, <2>1, <2>2 DEF NewLayerBegins
<1> QED
  BY <1>7, <1>8 DEF Bounded, SplitChunk, f, full

LEMMA RecordBounded ==
  ASSUME NEW s, Consistent(s), s.pc = "split", Bounded(s)
  PROVE  Bounded(RecordTensor(s))
<1> DEFINE r == RecordTensor(s)
           n == NextTensorId(s)
<1>1. /\ s \in LayoutRecord /\ Core(s) /\ Cursor(s)
      /\ TightBounds(s) /\ LayerBegins(s) /\ NewLayerBegins(s)
      /\ n \in Nat /\ s.left_most \in Nat /\ s.in_buffer \in Nat
      /\ s.in_buffer <= s.left_most /\ s.left_most <= n
  BY Lookups, Numbers DEF Consistent, Core, Bounded, Cursor
<1>2. Recorded(s, r)
  BY <1>1, RecordFields
<1> HIDE DEF r
<1>3. /\ r.chunks = s.chunks /\ r.in_buffer = s.in_buffer /\ r.left_most = s.left_most
      /\ r.device_offset = s.device_offset /\ r.pc = "next" /\ r.file = s.file
      /\ NextTensorId(r) = n + 1
      /\ \A t \in 0 .. n - 1 : Tensor(r, t) = Tensor(s, t)
      /\ Tensor(r, n).device_buffer_offset = s.placed_at
  BY <1>2 DEF Recorded
<1>4. TightBounds(r)
  <2> SUFFICES ASSUME NoEmptyTensor(r)
               PROVE  Furthest(r) /\ NotPassed(r)
    BY DEF TightBounds
  <2>1. NoEmptyTensor(s)
    <3> SUFFICES ASSUME NEW t \in 0 .. n - 1 PROVE Tensor(s, t).size > 0
      BY DEF NoEmptyTensor
    <3>1. t \in 0 .. (n + 1) - 1
      BY <1>1
    <3> QED
      BY <1>3, <3>1 DEF NoEmptyTensor
  <2>2. Furthest(s) /\ NotPassed(s)
    BY <1>1, <2>1 DEF TightBounds
  <2>3. /\ Latest(r) = Latest(s)
        /\ \A c : /\ Chunk(r, c) = Chunk(s, c)
                  /\ Reserved(r, c) = Reserved(s, c) /\ Padding(r, c) = Padding(s, c)
    BY <1>3 DEF Chunk, Reserved, Padding, Latest
  <2>4. Furthest(r)
    <3> SUFFICES ASSUME NEW t \in 0 .. s.in_buffer - 1
                 PROVE  /\ Tensor(r, t).prefetch_chunk_id >= -1
                        /\ \E u \in t .. n : Blocks(r, Tensor(r, t).prefetch_chunk_id + 1, u)
      BY <1>1, <1>3 DEF Furthest
    <3> DEFINE next == Tensor(s, t).prefetch_chunk_id + 1
    <3>1. t \in 0 .. n - 1 /\ Tensor(r, t) = Tensor(s, t)
      BY <1>1, <1>3
    <3>2. PICK u \in t .. n - 1 : Blocks(s, next, u)
      BY <2>2 DEF Furthest
    <3>3. u \in 0 .. n - 1 /\ u \in t .. n
      BY <1>1, <3>1
    <3>4. Tensor(s, t).prefetch_chunk_id >= -1
      BY <2>2 DEF Furthest
    <3>5. Tensor(r, u) = Tensor(s, u) /\ s.pc # "done"
      BY <1>3, <3>3
    <3> HIDE DEF next
    <3>6. Blocks(r, next, u)
      BY <1>3, <2>3, <3>2, <3>5 DEF Blocks
    <3> QED
      BY <3>1, <3>3, <3>4, <3>6 DEF next
  <2>5. NotPassed(r)
    <3> SUFFICES ASSUME NEW t \in s.in_buffer .. s.left_most - 1
                 PROVE  LET at == Tensor(r, t).device_buffer_offset
                        IN \/ at >= r.device_offset
                           \/ /\ Len(r.chunks) > 0
                              /\ Chunk(r, Latest(r)).file # r.file
                              /\ at >= Chunk(r, Latest(r)).device_buffer_offset
                                         + RoundUp(Chunk(r, Latest(r)).size, WorldChunkAlignment)
      BY <1>3 DEF NotPassed
    <3>1. t \in 0 .. n - 1
      BY <1>1
    <3>2. Tensor(r, t) = Tensor(s, t)
      BY <1>3, <3>1
    <3> QED
      BY <1>3, <2>2, <2>3, <3>2 DEF NotPassed
  <2> QED
    BY <2>4, <2>5
<1>5. LayerBegins(r)
  <2>1. CASE s.left_most = n
    <3>1. s.placed_at \in FirstTensorAlignment .. ThreadAlignment
      BY <1>1, <2>1 DEF NewLayerBegins, Address
    <3> QED
      BY <1>1, <1>3, <2>1, <3>1 DEF LayerBegins
  <2>2. CASE s.left_most < n
    <3>1. s.left_most \in 0 .. n - 1
      BY <1>1, <2>2
    <3> QED
      BY <1>1, <1>3, <2>2, <3>1 DEF LayerBegins
  <2> QED
    BY <1>1, <2>1, <2>2
<1>6. NewLayerBegins(r)
  <2>1. r.left_most # NextTensorId(r)
    BY <1>1, <1>3
  <2> QED
    BY <2>1 DEF NewLayerBegins
<1> QED
  BY <1>4, <1>5, <1>6 DEF Bounded, r

LEMMA EndBounded ==
  ASSUME NEW s, Consistent(s), AtEnd(s), Bounded(s)
  PROVE  Bounded(Finish(s))
<1> DEFINE n == NextTensorId(s)
           f == FinishChunk(s)
           g == ResetBufferOffset(f, n)
           h == ResetBufferOffset(g, n)
           r == [h EXCEPT !.pc = "done"]
           last == Len(f.chunks) - 1
<1>1. s.pc = "next" /\ s \in LayoutRecord /\ n \in Nat
  BY Lookups DEF Consistent, AtEnd, Core
<1>2. /\ Core(f) /\ Settled(f) /\ SameTensors(s, f) /\ SameLoop(s, f)
      /\ TightBounds(f)
  BY <1>1, FinishBounded
<1> HIDE DEF f
<1>3. /\ f \in LayoutRecord /\ ~f.failed /\ f.current_size < ThreadAlignment
      /\ f.pc = "next" /\ NextTensorId(f) = n /\ LayerBefore(f) /\ Cursor(f)
  BY <1>1, <1>2 DEF Core, Settled, SameLoop, SameTensors
<1>4. /\ f.in_buffer \in Nat /\ f.left_most \in Nat
      /\ f.in_buffer <= f.left_most /\ f.left_most <= n
      /\ Len(f.chunks) \in Nat
  BY <1>3, Numbers, Lookups DEF Cursor
<1>5. /\ g \in LayoutRecord /\ ~g.failed /\ g.current_size < ThreadAlignment
      /\ SameTensors(f, g) /\ LeaveWith(f, g, f.left_most, last)
      /\ g.in_buffer = f.left_most /\ g.left_most = n /\ g.chunks = f.chunks
  BY <1>1, <1>3, ResetBufferOffsetFields
<1> HIDE DEF g
<1>6. /\ h \in LayoutRecord
      /\ SameTensors(g, h) /\ LeaveWith(g, h, n, last)
      /\ h.in_buffer = n /\ h.left_most = n /\ h.chunks = f.chunks
  BY <1>1, <1>5, ResetBufferOffsetFields
<1> HIDE DEF h
<1>7. /\ r.tensors = h.tensors /\ r.chunks = f.chunks /\ r.in_buffer = n
      /\ r.left_most = n /\ r.pc = "done"
  BY <1>6 DEF LayoutRecord
<1> HIDE DEF r
<1>8. /\ NextTensorId(r) = n /\ Latest(r) = last /\ Latest(f) = last
      /\ \A t \in 0 .. n - 1 :
           /\ Tensor(r, t).size = Tensor(f, t).size
           /\ Tensor(r, t).last_chunk_id = Tensor(f, t).last_chunk_id
           /\ Tensor(r, t).device_buffer_offset = Tensor(f, t).device_buffer_offset
           /\ Tensor(r, t).prefetch_chunk_id =
                IF t \in f.in_buffer .. n - 1 THEN last ELSE Tensor(f, t).prefetch_chunk_id
  <2>1. NextTensorId(g) = n /\ NextTensorId(h) = n
    BY <1>3, <1>5, <1>6 DEF SameTensors
  <2>2. /\ NextTensorId(r) = NextTensorId(h) /\ \A t : Tensor(r, t) = Tensor(h, t)
        /\ Latest(r) = last /\ Latest(f) = last
    BY <1>7 DEF NextTensorId, Tensor, Latest
  <2>3. ASSUME NEW t \in 0 .. n - 1
        PROVE  Tensor(h, t).prefetch_chunk_id =
                 IF t \in f.in_buffer .. n - 1 THEN last ELSE Tensor(f, t).prefetch_chunk_id
    <3>1. /\ Tensor(h, t).prefetch_chunk_id =
               IF t \in f.left_most .. n - 1 THEN last ELSE Tensor(g, t).prefetch_chunk_id
          /\ Tensor(g, t).prefetch_chunk_id =
               IF t \in f.in_buffer .. f.left_most - 1
                 THEN last ELSE Tensor(f, t).prefetch_chunk_id
      BY <1>3, <1>5, <1>6, <2>1 DEF LeaveWith
    <3> QED
      BY <1>1, <1>4, <3>1
  <2>4. ASSUME NEW t \in 0 .. n - 1
        PROVE  /\ Tensor(h, t).size = Tensor(f, t).size
               /\ Tensor(h, t).last_chunk_id = Tensor(f, t).last_chunk_id
               /\ Tensor(h, t).device_buffer_offset = Tensor(f, t).device_buffer_offset
    BY <1>3, <1>5, <1>6, <2>1 DEF SameTensors
  <2> QED
    BY <2>1, <2>2, <2>3, <2>4
<1>9. TightBounds(r)
  <2> SUFFICES ASSUME NoEmptyTensor(r)
               PROVE  Furthest(r) /\ NotPassed(r)
    BY DEF TightBounds
  <2>1. NoEmptyTensor(f)
    BY <1>3, <1>8 DEF NoEmptyTensor
  <2>2. Furthest(f)
    BY <1>2, <2>1 DEF TightBounds
  <2>3. NotPassed(r)
    BY <1>1, <1>7 DEF NotPassed
  <2> SUFFICES ASSUME NEW t \in 0 .. n - 1
               PROVE  /\ Tensor(r, t).prefetch_chunk_id >= -1
                      /\ \E u \in t .. n - 1 : Blocks(r, Tensor(r, t).prefetch_chunk_id + 1, u)
    BY <1>7, <1>8, <2>3 DEF Furthest
  <2>4. \A c : Reserved(r, c) = Reserved(f, c) /\ Padding(r, c) = Padding(f, c)
    BY <1>7 DEF Reserved, Padding, Chunk
  <2>5. CASE t \in 0 .. f.in_buffer - 1
    <3> DEFINE next == Tensor(f, t).prefetch_chunk_id + 1
    <3>1. Tensor(r, t).prefetch_chunk_id = Tensor(f, t).prefetch_chunk_id
      BY <1>1, <1>4, <1>8, <2>5
    <3>2. Tensor(f, t).prefetch_chunk_id >= -1
      BY <2>2, <2>5 DEF Furthest
    <3>3. PICK u \in t .. n - 1 : Blocks(f, next, u)
      BY <1>3, <2>2, <2>5 DEF Furthest
    <3>4. u \in 0 .. n - 1
      BY <1>1
    <3> HIDE DEF next
    <3>5. Blocks(r, next, u)
      BY <1>7, <1>8, <2>4, <3>3, <3>4 DEF Blocks
    <3> QED
      BY <3>1, <3>2, <3>5 DEF next
  <2>6. CASE t \in f.in_buffer .. n - 1
    <3>1. Tensor(r, t).prefetch_chunk_id = last
      BY <1>8, <2>6
    <3>2. Tensor(f, t).size > 0
      BY <1>3, <2>1 DEF NoEmptyTensor
    <3>3. Tensor(f, t).last_chunk_id <= last /\ Tensor(f, t).last_chunk_id \in Nat
      <4>1. CASE t \in f.in_buffer .. f.left_most - 1
        BY <1>3, <1>8, <3>2, <4>1, Lookups DEF LayerBefore
      <4>2. CASE t \in f.left_most .. n - 1
        BY <1>2, <1>3, <1>8, <3>2, <4>2, Lookups DEF Settled
      <4> QED
        BY <1>1, <1>4, <2>6, <4>1, <4>2
    <3>4. Tensor(f, t).last_chunk_id < last + 1
      BY <1>4, <3>3
    <3>5. ~(last + 1 <= Latest(r)) /\ last >= -1
      BY <1>4, <1>8
    <3>6. Blocks(r, last + 1, t)
      BY <1>7, <1>8, <3>4, <3>5 DEF Blocks
    <3>7. t \in t .. n - 1
      BY <1>1
    <3> QED
      BY <3>1, <3>5, <3>6, <3>7
  <2> QED
    BY <1>1, <1>4, <2>5, <2>6
<1>10. LayerBegins(r) /\ NewLayerBegins(r)
  BY <1>1, <1>7, <1>8 DEF LayerBegins, NewLayerBegins
<1> QED
  BY <1>9, <1>10 DEF Bounded, Finish, r, h, g, f
-----------------------------------------------------------------------------
(* The theorems.                                                           *)

LEMMA InitIInv == Init => IInv
BY StartConsistent, StartBounded DEF Init, IInv

LEMMA NextIInv == IInv /\ [Next]_layout => IInv'
<1> SUFFICES ASSUME Consistent(layout), Bounded(layout), [Next]_layout
             PROVE  Consistent(layout') /\ Bounded(layout')
  BY DEF IInv
<1>1. CASE Place
  BY <1>1, PlaceConsistent, PlaceBounded DEF Place, Do
<1>2. CASE Turn
  BY <1>2, TurnConsistent, TurnBounded DEF Turn, Do
<1>3. CASE Split
  BY <1>3, SplitConsistent, SplitBounded DEF Split, Do
<1>4. CASE Record
  BY <1>4, RecordConsistent, RecordBounded DEF Record, Do
<1>5. CASE End
  BY <1>5, FinishConsistent, EndBounded DEF End, Do
<1>6. CASE Done
  BY <1>6 DEF Done
<1>7. CASE UNCHANGED layout
  BY <1>7
<1> QED
  BY <1>1, <1>2, <1>3, <1>4, <1>5, <1>6, <1>7 DEF Next

\* compute_layout: the parts of IInv hold throughout, for every input.
THEOREM LayoutInvariant == Spec => []IInv
<1>1. Init => IInv
  BY InitIInv
<1>2. IInv /\ [Next]_layout => IInv'
  BY NextIInv
<1> QED
  BY <1>1, <1>2, PTL DEF Spec

\* The checks of finish_chunk, reset_chunk_buffer_offset, reset_chunk_file and of
\* the loop never throw: less than a page is left over wherever they require it.
THEOREM LayoutNeverFails == Spec => []NoInternalError
<1>1. IInv => NoInternalError
  BY DEF IInv, Consistent, Core, NoInternalError
<1> QED
  BY <1>1, LayoutInvariant, PTL

\* Every tensor's address is a multiple of first_tensor_alignment, or follows the
\* tensor before it in the same file.
THEOREM AddressesAligned == Spec => []TensorsAligned
<1>1. IInv => TensorsAligned
  BY DEF IInv, Consistent, Core, Aligned, AlignedTensor, TensorsAligned, TensorIds, NextTensorId
<1> QED
  BY <1>1, LayoutInvariant, PTL

\* A chunk is copied to the bytes set aside for it, or to some of them.
LEMMA WrittenReserved ==
  ASSUME NEW s \in LayoutRecord, NEW c \in 0 .. Len(s.chunks) - 1
  PROVE  /\ Written(s, c) \subseteq Reserved(s, c)
         /\ ChunkInBuffer(s, c) => Reserved(s, c) \subseteq 0 .. s.buffer_size - 1
<1> DEFINE k == Chunk(s, c)
           up == RoundUp(k.size, WorldChunkAlignment)
<1>1. k.size \in Nat /\ k.device_buffer_offset \in Nat /\ s.buffer_size \in Nat
  BY Lookups DEF LayoutRecord
<1>2. up \in Nat /\ up >= k.size
  BY <1>1, Sizes, RoundUpFacts
<1>3. /\ Reserved(s, c) = k.device_buffer_offset .. k.device_buffer_offset + up - 1
      /\ Written(s, c) = IF WorldSize > 1 THEN Reserved(s, c)
                           ELSE k.device_buffer_offset .. k.device_buffer_offset + k.size - 1
      /\ ChunkInBuffer(s, c) <=> k.device_buffer_offset + up <= s.buffer_size
  BY DEF Reserved, Written, ChunkInBuffer
<1> HIDE DEF k, up
<1> QED
  BY <1>1, <1>2, <1>3, SMTT(30)

\* While a tensor is in use and chunks are loaded up to its prefetch_chunk_id, its
\* bytes stay those of the file: no chunk after the one that carries a byte, and up
\* to the bound finish_chunk or reset_chunk_buffer_offset gave the tensor, is
\* copied over it.
THEOREM PrefetchKeeps == Spec => []PrefetchKeepsTensor
<1>1. IInv => PrefetchKeepsTensor
  <2> SUFFICES ASSUME IInv, Complete, NEW t \in TensorIds, NEW x \in Region(layout, t)
               PROVE  LET m == Tensor(layout, t)
                      IN \E c \in 0 .. m.last_chunk_id :
                           /\ c \in ChunkIds
                           /\ Carries(layout, c, t, x)
                           /\ \A d \in c + 1 .. m.prefetch_chunk_id : x \notin Written(layout, d)
    BY DEF PrefetchKeepsTensor
  <2> DEFINE m == Tensor(layout, t)
             n == Len(layout.chunks)
  <2>1. layout \in LayoutRecord /\ Left(layout) /\ layout.in_buffer = NextTensorId(layout)
    BY DEF IInv, Consistent, Core, AllLeft, Complete
  <2>2. t \in 0 .. layout.in_buffer - 1 /\ t \in 0 .. NextTensorId(layout) - 1
    BY <2>1 DEF TensorIds, NextTensorId
  <2>3. n \in Nat /\ m.last_chunk_id \in Nat /\ m.prefetch_chunk_id \in Int
    BY <2>1, <2>2, Lookups
  <2>4. m.prefetch_chunk_id <= n - 1 /\ EmittedOf(layout, t, x, m.prefetch_chunk_id)
    BY <2>1, <2>2 DEF Left, Latest
  <2>5. PICK c \in 0 .. n - 1 :
          /\ c <= m.last_chunk_id
          /\ CarriesByte(layout, c, m.file, AtOf(layout, t, x), x)
          /\ Untouched(layout, c, m.prefetch_chunk_id, x)
    BY <2>4 DEF EmittedOf, Emitted
  <2>6. c \in 0 .. m.last_chunk_id /\ c \in ChunkIds
    BY <2>3, <2>5 DEF ChunkIds
  <2>7. Carries(layout, c, t, x)
    BY <2>5 DEF Carries, CarriesByte, AtOf
  <2>8. ASSUME NEW d \in c + 1 .. m.prefetch_chunk_id PROVE x \notin Written(layout, d)
    <3>1. d \in 0 .. n - 1 /\ c < d /\ d <= m.prefetch_chunk_id
      BY <2>3, <2>4, <2>5
    <3>2. x \notin Reserved(layout, d)
      BY <2>5, <3>1 DEF Untouched
    <3> QED
      BY <2>1, <3>1, <3>2, WrittenReserved
  <2> QED
    BY <2>6, <2>7, <2>8
<1> QED
  BY <1>1, LayoutInvariant, PTL

\* Bounds never go back, a tensor with data ends within its own bound, and the
\* last one ends with the last chunk: what can_step of the loader relies on.
THEOREM PrefetchGoesOn == Spec => []PrefetchReaches
<1>1. IInv => PrefetchReaches
  <2> SUFFICES ASSUME IInv, Complete, NEW t \in TensorIds
               PROVE  LET m == Tensor(layout, t)
                      IN /\ m.size > 0 =>
                              m.last_chunk_id \in ChunkIds /\ m.last_chunk_id <= m.prefetch_chunk_id
                         /\ m.prefetch_chunk_id < Len(layout.chunks)
                         /\ t + 1 \in TensorIds =>
                              m.prefetch_chunk_id <= Tensor(layout, t + 1).prefetch_chunk_id
                         /\ t + 1 \notin TensorIds /\ m.size > 0 =>
                              m.last_chunk_id = Len(layout.chunks) - 1
    BY DEF PrefetchReaches
  <2> DEFINE m == Tensor(layout, t)
             n == Len(layout.chunks)
  <2>1. /\ layout \in LayoutRecord /\ Left(layout) /\ AllLeft(layout)
        /\ layout.in_buffer = NextTensorId(layout)
        /\ TensorIds = 0 .. NextTensorId(layout) - 1
    BY DEF IInv, Consistent, Core, AllLeft, Complete, TensorIds, NextTensorId
  <2>2. n \in Nat /\ m.last_chunk_id \in Nat /\ m.prefetch_chunk_id \in Int
        /\ NextTensorId(layout) \in Nat
    BY <2>1, Lookups
  <2>3. /\ m.prefetch_chunk_id <= n - 1
        /\ m.size > 0 => m.last_chunk_id <= m.prefetch_chunk_id
    BY <2>1 DEF Left, Latest
  <2>4. m.size > 0 => m.last_chunk_id \in ChunkIds
    BY <2>2, <2>3 DEF ChunkIds
  <2>5. ASSUME t + 1 \in TensorIds
        PROVE  m.prefetch_chunk_id <= Tensor(layout, t + 1).prefetch_chunk_id
    <3>1. t + 1 \in 0 .. layout.in_buffer - 1 /\ t \in 0 .. t + 1
      BY <2>1, <2>2, <2>5
    <3> QED
      BY <2>1, <3>1 DEF Left
  <2>6. ASSUME t + 1 \notin TensorIds, m.size > 0
        PROVE  m.last_chunk_id = Len(layout.chunks) - 1
    <3>1. t = NextTensorId(layout) - 1 /\ NextTensorId(layout) > 0
      BY <2>1, <2>2, <2>6
    <3>2. m.last_chunk_id >= n - 1
      BY <2>1, <3>1 DEF AllLeft, Latest
    <3> QED
      BY <2>2, <2>3, <2>6, <3>2
  <2> QED
    BY <2>2, <2>3, <2>4, <2>5, <2>6
<1> QED
  BY <1>1, LayoutInvariant, PTL

\* A chunk that carries a byte of a tensor is copied within the device buffer: the
\* loop checks the end of the chunk a tensor ends in, and the chunks before it
\* end earlier.
THEOREM ChunksWithTensorsFit == Spec => []TensorsInBuffer
<1>1. IInv => TensorsInBuffer
  <2> SUFFICES ASSUME IInv, NEW t \in TensorIds, NEW x \in Region(layout, t),
                      NEW c \in ChunkIds, Carries(layout, c, t, x)
               PROVE  Written(layout, c) \subseteq 0 .. layout.buffer_size - 1
    BY DEF TensorsInBuffer
  <2>1. /\ layout \in LayoutRecord /\ InBufferOrHeader(layout)
        /\ t \in 0 .. NextTensorId(layout) - 1 /\ c \in 0 .. Len(layout.chunks) - 1
    BY DEF IInv, Consistent, Core, TensorIds, ChunkIds, NextTensorId
  <2>2. CarriesByte(layout, c, Tensor(layout, t).file, AtOf(layout, t, x), x)
    BY DEF Carries, CarriesByte, AtOf
  <2>3. ~HeaderOnly(layout, c)
    <3>1. /\ AtOf(layout, t, x) \in Int
          /\ AtOf(layout, t, x) >= Tensor(layout, t).file_offset
          /\ Tensor(layout, t).file_offset \in Nat
      BY <2>1, BytesAreNumbers, Lookups
    <3>2. ChunkEnd(layout, c) \in Nat /\ AtOf(layout, t, x) < ChunkEnd(layout, c)
      BY <2>1, <2>2, <3>1, Lookups, SMTT(30) DEF CarriesByte, ChunkEnd
    <3>3. Tensor(layout, t).file = Chunk(layout, c).file
      BY <2>2 DEF CarriesByte
    <3> QED
      BY <2>1, <3>1, <3>2, <3>3 DEF HeaderOnly
  <2>4. ChunkInBuffer(layout, c)
    BY <2>1, <2>3 DEF InBufferOrHeader
  <2> QED
    BY <2>1, <2>4, WrittenReserved
<1> QED
  BY <1>1, LayoutInvariant, PTL

\* A tensor's bound could not be one chunk further: the chunk after it takes bytes
\* of this tensor, or of one read later that is complete by then, or comes with
\* padding that does.  Layouts with an empty tensor are left out.
THEOREM PrefetchIsFurthest == Spec => []PrefetchFurthest
<1>1. IInv => PrefetchFurthest
  <2> SUFFICES ASSUME IInv, Complete, NoEmptyTensor(layout), NEW t \in TensorIds,
                      Tensor(layout, t).prefetch_chunk_id + 1 \in ChunkIds
               PROVE  LET next == Tensor(layout, t).prefetch_chunk_id + 1
                      IN \E u \in TensorIds :
                           /\ u >= t /\ Tensor(layout, u).last_chunk_id < next
                           /\ Region(layout, u)
                                \cap (Reserved(layout, next) \cup Padding(layout, next)) # {}
    BY DEF PrefetchFurthest
  <2> DEFINE next == Tensor(layout, t).prefetch_chunk_id + 1
  <2>1. /\ layout \in LayoutRecord /\ Furthest(layout)
        /\ layout.in_buffer = NextTensorId(layout)
        /\ TensorIds = 0 .. NextTensorId(layout) - 1 /\ NextTensorId(layout) \in Nat
    BY Lookups
      DEF IInv, Consistent, Core, Bounded, TightBounds, AllLeft, Complete, TensorIds, NextTensorId
  <2>2. PICK u \in t .. NextTensorId(layout) - 1 : Blocks(layout, next, u)
    BY <2>1 DEF Furthest
  <2>3. u \in TensorIds /\ u >= t
    BY <2>1
  <2>4. next <= Latest(layout)
    BY <2>1, Lookups DEF ChunkIds, Latest
  <2> DEFINE at == Tensor(layout, u).device_buffer_offset
  <2>5. /\ Tensor(layout, u).last_chunk_id < next
        /\ at \in Reserved(layout, next) \cup Padding(layout, next)
    BY <2>2, <2>4 DEF Blocks
  <2>6. at \in Region(layout, u)
    <3>1. at \in Nat /\ Tensor(layout, u).size \in Nat
      BY <2>1, <2>3, Lookups
    <3>2. Tensor(layout, u).size > 0
      BY <2>1, <2>3 DEF NoEmptyTensor
    <3>3. at \in at .. at + Tensor(layout, u).size - 1
      BY <3>1, <3>2
    <3> QED
      BY <3>3 DEF Region
  <2> QED
    BY <2>3, <2>5, <2>6
<1> QED
  BY <1>1, LayoutInvariant, PTL

-----------------------------------------------------------------------------
(* The layout is one the loader can work with.                             *)

\* A set of numbers that is not empty has a smallest one.
LEMMA SmallestExists ==
  ASSUME NEW S \in SUBSET Nat, S # {}
  PROVE  Min(S) \in S /\ \A y \in S : Min(S) <= y
BY Least DEF Min

\* The bytes of a tensor are in the chunks from FirstChunkOf to last_chunk_id.
LEMMA FirstChunkFacts ==
  ASSUME IInv, Complete, PrefetchKeepsTensor, NEW t \in TensorIds,
         Tensor(layout, t).last_chunk_id \in ChunkIds
  PROVE  LET last == Tensor(layout, t).last_chunk_id
         IN /\ FirstChunkOf(t) \in ChunkIds /\ FirstChunkOf(t) <= last
            /\ \A x \in Region(layout, t) :
                 \E c \in FirstChunkOf(t) .. last : x \in Written(layout, c)
<1> DEFINE last == Tensor(layout, t).last_chunk_id
           carrying == CarryingChunks(t)
<1>1. layout \in LayoutRecord
  BY DEF IInv, Consistent, Core
<1>2. ChunkIds \subseteq Nat /\ Len(layout.chunks) \in Nat
  BY <1>1, Lookups DEF ChunkIds
<1>3. ASSUME NEW x \in Region(layout, t)
      PROVE  \E c \in carrying : c <= last /\ x \in Written(layout, c)
  <2>1. PICK c \in 0 .. last : c \in ChunkIds /\ Carries(layout, c, t, x)
    BY DEF PrefetchKeepsTensor
  <2>2. c \in carrying /\ c <= last
    BY <1>2, <2>1 DEF CarryingChunks
  <2>3. x \in Written(layout, c)
    <3> DEFINE k == Chunk(layout, c)
               at == Tensor(layout, t).file_offset + (x - Tensor(layout, t).device_buffer_offset)
    <3>1. /\ at \in k.file_offset .. k.file_offset + k.size - 1
          /\ k.device_buffer_offset + (at - k.file_offset) = x
      BY <2>1 DEF Carries
    <3>2. /\ c \in 0 .. Len(layout.chunks) - 1
          /\ k.size \in Nat /\ k.device_buffer_offset \in Nat /\ k.file_offset \in Nat
      BY <1>1, <2>1, Lookups DEF ChunkIds
    <3> HIDE DEF at
    <3>3. x \in k.device_buffer_offset .. k.device_buffer_offset + k.size - 1
      BY <3>1, <3>2
    <3>4. k.size <= RoundUp(k.size, WorldChunkAlignment)
          /\ RoundUp(k.size, WorldChunkAlignment) \in Nat
      BY <3>2, Sizes, RoundUpFacts
    <3> QED
      BY <3>2, <3>3, <3>4 DEF Written, Reserved
  <2> QED
    BY <2>2, <2>3
<1>4. carrying \in SUBSET Nat
  BY <1>2 DEF CarryingChunks
<1>5. CASE carrying = {}
  <2>1. FirstChunkOf(t) = last
    BY <1>5 DEF FirstChunkOf
  <2>2. \A x \in Region(layout, t) : FALSE
    BY <1>3, <1>5
  <2>3. last \in ChunkIds
    OBVIOUS
  <2> HIDE DEF last
  <2>4. last <= last
    BY <1>2, <2>3
  <2> QED
    BY <2>1, <2>2, <2>3, <2>4, Zenon DEF last
<1>6. CASE carrying # {}
  <2>1. FirstChunkOf(t) \in carrying /\ \A c \in carrying : FirstChunkOf(t) <= c
    BY <1>4, <1>6, SmallestExists DEF FirstChunkOf
  <2>2. FirstChunkOf(t) \in ChunkIds
    BY <2>1 DEF CarryingChunks
  <2>3. PICK x \in Region(layout, t) : TRUE
    BY <1>6 DEF CarryingChunks
  <2>4. PICK c \in carrying : c <= last
    BY <1>3, <2>3
  <2>5. c \in Nat /\ last \in Nat /\ FirstChunkOf(t) \in Nat /\ FirstChunkOf(t) <= c
    BY <1>2, <1>4, <2>1, <2>4
  <2>6. FirstChunkOf(t) <= last
    BY <2>4, <2>5
  <2>7. ASSUME NEW y \in Region(layout, t)
        PROVE  \E d \in FirstChunkOf(t) .. last : y \in Written(layout, d)
    <3>1. PICK d \in carrying : d <= last /\ y \in Written(layout, d)
      BY <1>3
    <3>2. d \in FirstChunkOf(t) .. last
      BY <1>4, <2>1, <2>5, <3>1
    <3> QED
      BY <3>1, <3>2
  <2> QED
    BY <2>2, <2>6, <2>7
<1> QED
  BY <1>5, <1>6

\* What Loader assumes of its layout, LayoutAssumption, holds of the layouts
\* compute_layout produces, whatever the files and the buffer: the tables it
\* hands to the loader are a model of LayoutContract.
THEOREM ContractMet == Spec => []MeetsContract
<1>1. IInv /\ PrefetchKeepsTensor /\ PrefetchReaches => MeetsContract
  <2> SUFFICES ASSUME IInv, PrefetchKeepsTensor, PrefetchReaches, Complete, LastChunkReachable
               PROVE  /\ Len(layout.chunks) > 0 /\ Len(layout.tensors) > 0
                      /\ Computed!Contract
    BY DEF MeetsContract
  <2> DEFINE n == Len(layout.tensors)
             last(t) == Tensor(layout, t).last_chunk_id
             prefetch(t) == Tensor(layout, t).prefetch_chunk_id
  <2>1. /\ layout \in LayoutRecord /\ Left(layout) /\ AllLeft(layout)
        /\ layout.in_buffer = n /\ n \in Nat /\ n > 0 /\ Len(layout.chunks) \in Nat
        /\ TensorIds = 0 .. n - 1
    BY Lookups DEF IInv, Consistent, Core, AllLeft, Complete, TensorIds, NextTensorId
  <2>2. \A t \in TensorIds : /\ last(t) \in Nat /\ prefetch(t) \in Int
                             /\ last(t) <= prefetch(t) /\ prefetch(t) < Len(layout.chunks)
    BY <2>1, Lookups DEF LastChunkReachable, PrefetchReaches, NextTensorId
  <2>3. \A t \in TensorIds : last(t) \in ChunkIds /\ prefetch(t) \in ChunkIds
    BY <2>1, <2>2 DEF ChunkIds
  <2>4. n - 1 \in TensorIds /\ Len(layout.chunks) > 0
    BY <2>1, <2>2
  <2>5. last(n - 1) = Len(layout.chunks) - 1
    <3>1. last(n - 1) >= Len(layout.chunks) - 1
      BY <2>1 DEF AllLeft, Latest, NextTensorId
    <3>2. /\ last(n - 1) \in Nat /\ prefetch(n - 1) \in Int
          /\ last(n - 1) <= prefetch(n - 1) /\ prefetch(n - 1) < Len(layout.chunks)
      BY <2>2, <2>4
    <3> HIDE DEF last, prefetch
    <3> QED
      BY <2>1, <3>1, <3>2
  <2>6. \A t \in TensorIds, u \in TensorIds : t <= u => prefetch(t) <= prefetch(u)
    BY <2>1 DEF Left
  <2>7. \A c \in ChunkIds : Written(layout, c) \in SUBSET Nat
    <3> SUFFICES ASSUME NEW c \in ChunkIds, NEW x \in Written(layout, c) PROVE x \in Nat
      OBVIOUS
    <3>1. c \in 0 .. Len(layout.chunks) - 1
      BY DEF ChunkIds
    <3> DEFINE k == Chunk(layout, c)
               up == RoundUp(k.size, WorldChunkAlignment)
    <3>2. x \in k.device_buffer_offset .. k.device_buffer_offset + up - 1
      BY <2>1, <3>1, WrittenReserved DEF Reserved
    <3>3. k.size \in Nat /\ k.device_buffer_offset \in Nat
      BY <2>1, <3>1, Lookups
    <3>4. up \in Nat
      BY <3>3, Sizes, RoundUpFacts
    <3> QED
      BY <3>2, <3>3, <3>4
  <2>8. \A t \in TensorIds : Region(layout, t) \in SUBSET Nat
    BY <2>1, BytesAreNumbers DEF NextTensorId
  <2>9. ASSUME NEW t \in TensorIds, NEW x \in Region(layout, t),
               NEW d \in last(t) + 1 .. prefetch(t)
        PROVE  x \notin Written(layout, d)
    <3>1. PICK c \in 0 .. last(t) :
            \A e \in c + 1 .. prefetch(t) : x \notin Written(layout, e)
      BY DEF PrefetchKeepsTensor
    <3> QED
      BY <2>2, <3>1
  <2>10. \A t \in TensorIds :
           /\ FirstChunkOf(t) \in ChunkIds /\ FirstChunkOf(t) <= last(t)
           /\ \A x \in Region(layout, t) :
                \E c \in FirstChunkOf(t) .. last(t) : x \in Written(layout, c)
    BY <2>3, FirstChunkFacts
  <2>11. Computed!Chunks = ChunkIds /\ Computed!Tensors = TensorIds
    BY DEF Computed!Chunks, Computed!Tensors, ChunkIds, TensorIds
  <2>12. \A t \in TensorIds : \A d \in last(t) + 1 .. prefetch(t) : d \in ChunkIds
    BY <2>2 DEF ChunkIds
  <2>13. \A t \in TensorIds : \A c \in FirstChunkOf(t) .. last(t) : c \in ChunkIds
    BY <2>2, <2>3, <2>10 DEF ChunkIds
  <2> HIDE DEF last, prefetch
  <2> QED
    BY <2>1, <2>2, <2>3, <2>4, <2>5, <2>6, <2>7, <2>8, <2>9, <2>10, <2>11, <2>12, <2>13
    DEF Computed!Contract, last, prefetch
<1> QED
  BY <1>1, LayoutInvariant, PrefetchKeeps, PrefetchGoesOn, PTL
=============================================================================
