---------------------------- MODULE ChunkIOProofs ----------------------------
(***************************************************************************)
(* IInv is an inductive invariant of ChunkIO, for all backends, sizes of   *)
(* process groups and chunks, and what follows from it.                    *)
(***************************************************************************)
EXTENDS ChunkIOInv, OrderLemmas, SequenceTheorems, TLAPS

LEMMA SessionFacts ==
  ASSUME session \in Sessions
  PROVE  /\ NumThreads \in Nat \ {0} /\ session.world_size \in Nat \ {0}
         /\ session.backend \in {"uring", "aio", "mmap", "mapped", "cufile"}
         /\ Ranks \subseteq AllRanks
BY ConstantsAssumption DEF NumThreads, Ranks, AllRanks

LEMMA SizeFacts ==
  /\ NumChunks \in Nat \ {0} /\ ThreadAlignment \in Nat \ {0}
  /\ IoDepth \in Nat \ {0} /\ MaxPrefetchChunks \in Nat \ {0}
  /\ Depth \in Nat \ {0} /\ Depth <= IoDepth /\ Depth <= MaxPrefetchChunks
  /\ Chunks \subseteq Nat /\ Cursor = -1 .. NumChunks - 1
BY ConstantsAssumption DEF Depth, Smaller, Chunks, Cursor, NoChunk

LEMMA Types ==
  ASSUME TypeOK, NEW r \in AllRanks
  PROVE  /\ {chunk_reading[r], posted[r], chunk_read[r], cuda_done[r], copied[r], wait_done[r],
             gathered} \subseteq Cursor
         /\ Cursor \subseteq Int /\ Chunks \subseteq Int
         /\ \A x \in Piece : x[1] \in Chunks /\ x[1] \in Int
         /\ to_submit[r] \subseteq Piece /\ Queued(r) \subseteq Piece /\ inflight[r] \subseteq Piece
         /\ ReadsIn(completions[r]) \subseteq Piece /\ ReadsIn(collected[r]) \subseteq Piece
         /\ Pending(r) \subseteq Piece /\ buffer[r] \subseteq Piece
         /\ unfinished[r] \in [Chunks -> Int]
<1> USE DEF TypeOK
<1>1. {chunk_reading[r], posted[r], chunk_read[r], cuda_done[r], copied[r], wait_done[r],
       gathered} \subseteq Cursor
  OBVIOUS
<1>2. Cursor \subseteq Int /\ Chunks \subseteq Int
  BY SizeFacts
<1>3. \A x \in Piece : x[1] \in Chunks
  BY DEF Piece
<1>4. to_submit[r] \subseteq Piece /\ inflight[r] \subseteq Piece /\ buffer[r] \subseteq Piece
  OBVIOUS
<1>5. Queued(r) \subseteq Piece
  BY DEF Queued
<1>6. completions[r] \subseteq Piece \X BOOLEAN /\ collected[r] \subseteq Piece \X BOOLEAN
  OBVIOUS
<1>7. ReadsIn(completions[r]) \subseteq Piece /\ ReadsIn(collected[r]) \subseteq Piece
  BY <1>6 DEF ReadsIn
<1>8. unfinished[r] \in [Chunks -> Int]
  BY SessionFacts
<1> QED
  BY <1>1, <1>2, <1>3, <1>4, <1>5, <1>7, <1>8 DEF Pending

\* The reads of a chunk are among the parts of its threads.
LEMMA ReadsOfChunk ==
  ASSUME session \in Sessions, NEW r, NEW c \in Chunks
  PROVE  /\ ReadsOf(r, c) \subseteq {c} \X (0 .. NumThreads - 1)
         /\ ReadsOf(r, c) \subseteq Piece
         /\ \A x \in ReadsOf(r, c) : x[1] = c
         /\ IsFiniteSet(ReadsOf(r, c))
         /\ Cardinality(ReadsOf(r, c)) \in 0 .. NumThreads
<1>0. NumThreads \in Nat \ {0}
  BY SessionFacts
<1>1. ReadsOf(r, c) \subseteq {c} \X (0 .. NumThreads - 1)
  BY DEF ReadsOf
<1>2. IsFiniteSet({c}) /\ Cardinality({c}) = 1
  BY FS_Singleton
<1>3. IsFiniteSet(0 .. NumThreads - 1) /\ Cardinality(0 .. NumThreads - 1) = NumThreads
  BY <1>0, FS_Interval
<1>4. IsFiniteSet({c} \X (0 .. NumThreads - 1))
      /\ Cardinality({c} \X (0 .. NumThreads - 1)) = 1 * NumThreads
  <2> DEFINE S == {c}
             T == 0 .. NumThreads - 1
  <2>1. IsFiniteSet(S) /\ Cardinality(S) = 1 /\ IsFiniteSet(T) /\ Cardinality(T) = NumThreads
    BY <1>2, <1>3
  <2> HIDE DEF S, T
  <2>2. IsFiniteSet(S \X T) /\ Cardinality(S \X T) = Cardinality(S) * Cardinality(T)
    BY <2>1, FS_Product
  <2> QED
    BY <2>1, <2>2 DEF S, T
<1>5. IsFiniteSet(ReadsOf(r, c)) /\ Cardinality(ReadsOf(r, c)) <= NumThreads
  BY <1>0, <1>1, <1>4, FS_Subset
<1>6. Cardinality(ReadsOf(r, c)) \in Nat
  BY <1>5, FS_CardinalityType
<1> QED
  BY <1>0, <1>1, <1>5, <1>6 DEF Piece

\* A single rank has something to read of every chunk.
LEMMA FirstReadExists ==
  ASSUME session \in Sessions, ~Distributed, ~Backend({"mapped"}), NEW c \in Chunks
  PROVE  ReadsOf(0, c) # {}
<1> DEFINE N == NumThreads
           A == ThreadAlignment
           k == (ChunkSize[c] + A * N - 1) \div (A * N)
<1>0. /\ N \in Nat \ {0} /\ A \in Nat \ {0} /\ session.world_size = 1
      /\ ChunkSize[c] \in Nat \ {0}
  BY SessionFacts, SizeFacts, ConstantsAssumption DEF Distributed, Chunks
<1>1. A * N \in Nat \ {0}
  BY <1>0
<1>2. k \in Nat /\ k >= 1
  <2> DEFINE B == A * N
  <2>1. B \in Nat \ {0}
    BY <1>1
  <2> HIDE DEF B
  <2>2. (ChunkSize[c] + B - 1) \div B \in Nat /\ (ChunkSize[c] + B - 1) \div B >= 1
    BY <2>1, <1>0
  <2> QED
    BY <2>2 DEF B
<1>3. PaddedThreadSize(c) = (k * (A * N)) \div N
  BY <1>0 DEF PaddedThreadSize, RoundUp
<1> HIDE DEF k
<1>4. k * (A * N) = (k * A) * N
  BY <1>0, <1>2
<1>5. k * A \in Nat /\ k * A >= 1
  BY <1>0, <1>2
<1>6. PaddedThreadSize(c) = k * A
  <2> DEFINE m == k * A
  <2>1. m \in Nat
    BY <1>5
  <2> HIDE DEF m
  <2>2. (m * N) \div N = m
    BY <2>1, <1>0
  <2> QED
    BY <2>2, <1>3, <1>4 DEF m
<1>7. ThreadSize(0, c, 0) > 0
  <2>1. NumThreads * 0 + 0 = 0
    BY <1>0
  <2>2. PaddedThreadSize(c) * (NumThreads * 0 + 0) = 0
    BY <2>1, <1>5, <1>6
  <2> QED
    BY <2>2, <1>0, <1>5, <1>6 DEF ThreadSize, Smaller
<1>8. <<c, 0>> \in ReadsOf(0, c)
  BY <1>0, <1>7 DEF ReadsOf
<1> QED
  BY <1>8

\* Two different chunks less than IoDepth apart use different windows.
LEMMA WindowsApart ==
  ASSUME NEW c \in Int, NEW d \in Int, c < d, d - c < IoDepth
  PROVE  WindowOf(c) # WindowOf(d)
BY SizeFacts, ResiduesApart DEF WindowOf

LEMMA WindowRange ==
  ASSUME NEW c \in Int
  PROVE  WindowOf(c) \in 0 .. IoDepth - 1
BY SizeFacts DEF WindowOf

\* A chunk has as many reads nobody has consumed as its counter can tell.
LEMMA PendingBounds ==
  ASSUME session \in Sessions, NEW r \in Ranks, ReadsUnderWay(r), NEW c \in Chunks
  PROVE  /\ PendingOf(r, c) \subseteq ReadsOf(r, c)
         /\ IsFiniteSet(PendingOf(r, c))
         /\ Cardinality(PendingOf(r, c)) \in 0 .. NumThreads
<1>1. PendingOf(r, c) \subseteq ReadsOf(r, c)
  BY DEF PendingOf, ReadsUnderWay
<1>2. IsFiniteSet(PendingOf(r, c))
      /\ Cardinality(PendingOf(r, c)) <= Cardinality(ReadsOf(r, c))
  BY <1>1, ReadsOfChunk, FS_Subset
<1>3. Cardinality(PendingOf(r, c)) \in Nat
  BY <1>2, FS_CardinalityType
<1>4. Cardinality(ReadsOf(r, c)) \in 0 .. NumThreads /\ NumThreads \in Nat
  BY ReadsOfChunk, SessionFacts
<1> QED
  BY <1>1, <1>2, <1>3, <1>4
-----------------------------------------------------------------------------
(* What a step changes.                                                    *)

Step(r) ==
  \/ BeginPost(r) \/ SubmitRead(r) \/ HandOver(r) \/ Reap(r)
  \/ StartTask(r)
  \/ \E x \in inflight[r], whole \in BOOLEAN : CompleteRead(r, x, whole)
  \/ \E S \in SUBSET completions[r] : Collect(r, S)
  \/ CudaFuncEnd(r) \/ CudaFuncThrows(r)
  \/ StreamCopy(r) \/ WaitFunc(r)

LEMMA StepCases == Next <=> (\E r \in AllRanks : Step(r)) \/ AllGather
BY DEF Next, Step

\* The variables of a rank.
Own(q) == <<chunk_reading[q], to_submit[q], posted[q], chunk_read[q], tasks[q], inflight[q],
            completions[q], collected[q], unfinished[q], buffer[q], cuda_done[q], copied[q],
            event[q], device[q], wait_done[q]>>

\* A step of one rank is a step of a rank in the group, and changes no other's variables.
LEMMA OthersKept ==
  ASSUME TypeOK, NEW r \in AllRanks, Step(r)
  PROVE  /\ r \in Ranks
         /\ UNCHANGED <<session, gathered>>
         /\ \A q \in AllRanks \ {r} : UNCHANGED Own(q)
<1> USE DEF TypeOK, Own, postVars, readVars, deviceVars, Running
<1>1. CASE BeginPost(r)
  BY <1>1 DEF BeginPost
<1>2. CASE SubmitRead(r)
  BY <1>2 DEF SubmitRead
<1>3. CASE HandOver(r)
  BY <1>3 DEF HandOver, Enqueue
<1>4. CASE Reap(r)
  BY <1>4 DEF Reap
<1>5. CASE StartTask(r)
  BY <1>5 DEF StartTask
<1>6. ASSUME NEW x \in inflight[r], NEW whole \in BOOLEAN, CompleteRead(r, x, whole)
      PROVE  r \in Ranks /\ UNCHANGED <<session, gathered>>
             /\ \A q \in AllRanks \ {r} : UNCHANGED Own(q)
  BY <1>6 DEF CompleteRead
<1>7. ASSUME NEW S \in SUBSET completions[r], Collect(r, S)
      PROVE  r \in Ranks /\ UNCHANGED <<session, gathered>>
             /\ \A q \in AllRanks \ {r} : UNCHANGED Own(q)
  BY <1>7 DEF Collect, Counted
<1>8. CASE CudaFuncEnd(r)
  BY <1>8 DEF CudaFuncEnd, Enqueue
<1>9. CASE CudaFuncThrows(r)
  BY <1>9 DEF CudaFuncThrows
<1>10. CASE StreamCopy(r)
  BY <1>10 DEF StreamCopy
<1>11. CASE WaitFunc(r)
  BY <1>11 DEF WaitFunc
<1> QED
  BY <1>1, <1>2, <1>3, <1>4, <1>5, <1>6, <1>7, <1>8, <1>9, <1>10, <1>11 DEF Step

LEMMA CountingIsNotCuFile == Counting => ~Backend({"cufile"})
BY DEF Counting, Backend

LEMMA SameSession ==
  ASSUME UNCHANGED session
  PROVE  /\ Ranks' = Ranks /\ NumThreads' = NumThreads /\ Reliable' = Reliable
         /\ Counting' = Counting /\ Pooled' = Pooled /\ Distributed' = Distributed
         /\ Staged' = Staged /\ Piece' = Piece
         /\ \A S : Backend(S)' = Backend(S)
         /\ \A r, c : ReadsOf(r, c)' = ReadsOf(r, c)
BY DEF Ranks, NumThreads, Reliable, Counting, Pooled, Staged, Backend, Distributed, ReadsOf,
       ThreadSize, PaddedThreadSize, Piece

\* The parts of RankInv about cursors do not depend on reads, nor those about
\* reads on the device.
LEMMA CursorsFrame ==
  ASSUME NEW r \in AllRanks,
         UNCHANGED <<session, gathered, chunk_reading[r], posted[r], chunk_read[r],
                     cuda_done[r], copied[r], wait_done[r], event[r]>>,
         CursorsInOrder(r), GatherInOrder(r), EventsKept(r)
  PROVE  (CursorsInOrder(r) /\ GatherInOrder(r) /\ EventsKept(r))'
BY SameSession DEF CursorsInOrder, GatherInOrder, EventsKept, WindowOf

LEMMA ReadsFrame ==
  ASSUME NEW r \in AllRanks,
         UNCHANGED <<session, chunk_reading[r], posted[r], cuda_done[r], to_submit[r], tasks[r],
                     inflight[r], completions[r], collected[r], unfinished[r], buffer[r]>>,
         PlacesApart(r), ReadsUnderWay(r), CountersKept(r), ReadIntoWindow(r), NothingSkipped(r)
  PROVE  /\ (PlacesApart(r) /\ ReadsUnderWay(r) /\ CountersKept(r))'
         /\ (ReadIntoWindow(r) /\ NothingSkipped(r))'
<1>1. Queued(r)' = Queued(r) /\ Pending(r)' = Pending(r)
      /\ \A c : PendingOf(r, c)' = PendingOf(r, c)
  BY DEF Queued, Pending, ReadsIn, PendingOf
<1>2. PlacesApart(r)'
  BY <1>1 DEF PlacesApart
<1>3. ReadsUnderWay(r)'
  BY <1>1, SameSession DEF ReadsUnderWay, ReadsIn
<1>4. CountersKept(r)'
  BY <1>1, SameSession DEF CountersKept
<1>5. ReadIntoWindow(r)'
  BY DEF ReadIntoWindow
<1>6. NothingSkipped(r)'
  BY <1>1, SameSession DEF NothingSkipped
<1> QED
  BY <1>2, <1>3, <1>4, <1>5, <1>6

LEMMA DeviceFrame ==
  ASSUME NEW r \in AllRanks,
         UNCHANGED <<session, gathered, cuda_done[r], copied[r], buffer[r], device[r]>>,
         WindowWhole(r), PartsOnDevice(r)
  PROVE  (WindowWhole(r) /\ PartsOnDevice(r))'
BY SameSession DEF WindowWhole, PartsOnDevice, Held

LEMMA SameRank ==
  ASSUME UNCHANGED <<session, gathered>>, NEW q \in AllRanks, UNCHANGED Own(q)
  PROVE  /\ RankInv(q) => RankInv(q)'
         /\ OutsideGroup(q) => OutsideGroup(q)'
<1> USE DEF Own
<1>1. OutsideGroup(q) => OutsideGroup(q)'
  BY DEF OutsideGroup
<1>2. ASSUME RankInv(q) PROVE RankInv(q)'
  BY <1>2, CursorsFrame, ReadsFrame, DeviceFrame DEF RankInv
<1> QED
  BY <1>1, <1>2

-----------------------------------------------------------------------------
(* The loader thread.                                                      *)

LEMMA BeginPostKeeps ==
  ASSUME IInv, NEW r \in Ranks, BeginPost(r)
  PROVE  RankInv(r)'
<1>0. TypeOK /\ RankInv(r) /\ r \in AllRanks /\ session \in Sessions
  BY SessionFacts DEF IInv, TypeOK
<1>c. PICK c \in Chunks : c = chunk_reading[r] + 1
  BY DEF BeginPost
<1>1. UNCHANGED session
  BY DEF BeginPost
<1>2. /\ c \in Chunks /\ posted[r] = chunk_reading[r] /\ chunk_read[r] >= c - Depth
      /\ chunk_reading'[r] = c /\ to_submit'[r] = ReadsOf(r, c)
      /\ unfinished'[r] = IF Counting THEN [unfinished[r] EXCEPT ![c] = Cardinality(ReadsOf(r, c))]
                          ELSE unfinished[r]
      /\ UNCHANGED <<posted[r], chunk_read[r], tasks[r], inflight[r], completions[r], collected[r],
                     buffer[r], cuda_done[r], copied[r], event[r], device[r], wait_done[r], gathered>>
  BY <1>0, <1>c DEF BeginPost, TypeOK, deviceVars, Counting, InitialCount
<1>3. /\ chunk_reading[r] \in Int /\ posted[r] \in Int /\ chunk_read[r] \in Int
      /\ cuda_done[r] \in Int /\ Depth \in Int
  BY <1>0, SizeFacts DEF TypeOK
<1>4. to_submit[r] = {}
  <2> SUFFICES ASSUME NEW x \in to_submit[r] PROVE FALSE
    OBVIOUS
  <2>1. x[1] \in Int
    BY <1>0, Types
  <2>2. posted[r] < x[1] /\ x[1] <= chunk_reading[r]
    BY <1>0 DEF RankInv, ReadsUnderWay, Pending
  <2> QED
    BY <2>1, <2>2, <1>2, <1>3
<1>5. \A x \in Pending(r) \cup ReadsIn(collected[r]) : x[1] <= chunk_reading[r] /\ x[1] # c
  <2>1. \A x \in Pending(r) \cup ReadsIn(collected[r]) : x[1] \in Int
    BY <1>0, Types
  <2>2. \A x \in Pending(r) \cup ReadsIn(collected[r]) : x[1] <= chunk_reading[r]
    BY <1>0 DEF RankInv, ReadsUnderWay
  <2> QED
    BY <2>1, <2>2, <1>3, <1>c
<1>6. \A x \in ReadsOf(r, c) : x[1] = c /\ x \in Piece
  BY <1>0, <1>2, ReadsOfChunk
<1>7. /\ Queued(r)' = Queued(r) /\ Pending(r)' = Pending(r) \cup ReadsOf(r, c)
      /\ PendingOf(r, c)' = ReadsOf(r, c)
      /\ \A d : d # c => PendingOf(r, d)' = PendingOf(r, d)
  <2>1. Queued(r)' = Queued(r) /\ Pending(r)' = Pending(r) \cup ReadsOf(r, c)
    BY <1>2, <1>4 DEF Queued, Pending, ReadsIn
  <2> QED
    BY <2>1, <1>5, <1>6 DEF PendingOf
<1>8. CursorsInOrder(r)' /\ GatherInOrder(r)' /\ EventsKept(r)'
  BY <1>c, <1>0, <1>1, <1>2, <1>3, SameSession
     DEF RankInv, CursorsInOrder, GatherInOrder, EventsKept, WindowOf
<1>9. PlacesApart(r)'
  <2>1. \A x \in Queued(r) \cup inflight[r] \cup ReadsIn(completions[r] \cup collected[r]) : x[1] # c
    BY <1>5 DEF Pending, ReadsIn
  <2>2. /\ ReadsOf(r, c) \cap (Queued(r) \cup inflight[r]) = {}
        /\ \A y \in completions[r] \cup collected[r] : y[1] \notin ReadsOf(r, c)
    BY <2>1, <1>6 DEF ReadsIn
  <2> QED
    BY <2>2, <1>0, <1>2, <1>7 DEF RankInv, PlacesApart
<1>10. ReadsUnderWay(r)'
  <2>1. cuda_done[r] < c /\ posted[r] < c /\ chunk_reading[r] <= c
    BY <1>0, <1>c, <1>2, <1>3 DEF RankInv, CursorsInOrder
  <2>2. \A x \in Pending(r) \cup ReadsIn(collected[r]) : x[1] \in Int
    BY <1>0, Types
  <2>3. c \in Int
    BY <1>3, <1>c
  <2> QED
    BY <2>1, <2>2, <2>3, <1>0, <1>1, <1>2, <1>3, <1>6, <1>7, SameSession
       DEF RankInv, ReadsUnderWay, ReadsIn
<1>11. CountersKept(r)'
  <2>1. unfinished[r] \in [Chunks -> Int]
    BY <1>0, Types
  <2> QED
    BY <2>1, <1>0, <1>1, <1>2, <1>7, SameSession DEF RankInv, CountersKept
<1>12. ReadIntoWindow(r)'
  <2>1. \A x \in buffer[r] : x[1] \in Int
    BY <1>0, Types
  <2> QED
    BY <2>1, <1>0, <1>c, <1>2, <1>3 DEF RankInv, ReadIntoWindow
<1>13. NothingSkipped(r)'
  <2>1. \A d \in Chunks : d <= c => d <= chunk_reading[r] \/ d = c
    BY <1>3, <1>c, SizeFacts
  <2>2. NothingSkipped(r)
    BY <1>0 DEF RankInv
  <2>3. /\ \A x \in ReadsOf(r, c) : x \in Pending(r)'
        /\ Pending(r) \subseteq Pending(r)'
    BY <1>7
  <2>4. ASSUME Counting, Reliable, NEW d \in Chunks, NEW x \in Piece,
               cuda_done[r] < d, d <= c, x \in ReadsOf(r, d)
        PROVE  x \in Pending(r)' \cup buffer[r]'
    BY <2>4, <2>1, <2>2, <2>3, <1>2 DEF NothingSkipped
  <2>5. Reliable /\ ~Backend({"cufile"}) => \A y \in (completions[r] \cup collected[r])' : y[2]
    BY <2>2, <1>2 DEF NothingSkipped
  <2> QED
    BY <2>4, <2>5, <1>1, <1>2, SameSession DEF NothingSkipped
<1>14. WindowWhole(r)' /\ PartsOnDevice(r)'
  BY <1>0, <1>1, <1>2, DeviceFrame DEF RankInv
<1> QED
  BY <1>8, <1>9, <1>10, <1>11, <1>12, <1>13, <1>14 DEF RankInv
-----------------------------------------------------------------------------
(* Reads move from one place to the next.                                  *)

LEMMA SamePending ==
  ASSUME NEW r \in AllRanks, RankInv(r),
         UNCHANGED <<session, chunk_reading[r], posted[r], cuda_done[r], collected[r],
                     unfinished[r]>>,
         Pending(r)' = Pending(r), to_submit'[r] \subseteq to_submit[r]
  PROVE  ReadsUnderWay(r)' /\ CountersKept(r)'
<1>1. \A c : PendingOf(r, c)' = PendingOf(r, c)
  BY DEF PendingOf
<1>2. ReadsUnderWay(r)'
  BY SameSession DEF RankInv, ReadsUnderWay, ReadsIn
<1>3. CountersKept(r)'
  BY <1>1, SameSession DEF RankInv, CountersKept
<1> QED
  BY <1>2, <1>3

LEMMA QueuedElements == \A r : Queued(r) = Elements(tasks[r])
BY DEF Queued, Elements

LEMMA SubmitReadKeeps ==
  ASSUME IInv, NEW r \in Ranks, SubmitRead(r)
  PROVE  RankInv(r)'
<1>0. TypeOK /\ RankInv(r) /\ r \in AllRanks /\ session \in Sessions
  BY SessionFacts DEF IInv, TypeOK
<1>1. UNCHANGED session
  BY DEF SubmitRead
<1>2. PICK x \in to_submit[r] : \A z \in to_submit[r] : x[2] <= z[2]
  <2> DEFINE T == {y[2] : y \in to_submit[r]}
  <2>1. T \subseteq Nat
    BY <1>0, Types, SessionFacts DEF Piece
  <2>2. T # {}
    BY DEF SubmitRead
  <2>3. PICK m \in T : \A n \in T : m <= n
    BY <2>1, <2>2, Least
  <2> QED
    BY <2>3
<1>3. PICK y \in to_submit[r] :
        /\ to_submit'[r] = to_submit[r] \ {y}
        /\ \/ tasks'[r] = Append(tasks[r], y) /\ inflight'[r] = inflight[r]
           \/ tasks'[r] = tasks[r] /\ inflight'[r] = inflight[r] \cup {y}
  <2> DEFINE y == CHOOSE y \in to_submit[r] : \A z \in to_submit[r] : y[2] <= z[2]
  <2>1. y \in to_submit[r]
    BY <1>2
  <2>2. to_submit' = [to_submit EXCEPT ![r] = @ \ {y}]
        /\ \/ tasks' = [tasks EXCEPT ![r] = Append(@, y)] /\ inflight' = inflight
           \/ tasks' = tasks /\ inflight' = [inflight EXCEPT ![r] = @ \cup {y}]
    BY DEF SubmitRead
  <2> HIDE DEF y
  <2>3. /\ to_submit'[r] = to_submit[r] \ {y}
        /\ \/ tasks'[r] = Append(tasks[r], y) /\ inflight'[r] = inflight[r]
           \/ tasks'[r] = tasks[r] /\ inflight'[r] = inflight[r] \cup {y}
    BY <1>0, <2>2 DEF TypeOK
  <2> QED
    BY <2>1, <2>3
<1>4. UNCHANGED <<chunk_reading[r], posted[r], chunk_read[r], completions[r], collected[r],
                  unfinished[r], buffer[r], cuda_done[r], copied[r], event[r], device[r],
                  wait_done[r], gathered>>
  BY DEF SubmitRead, deviceVars
<1>5. /\ \A k, l \in DOMAIN tasks[r] : tasks[r][k] = tasks[r][l] => k = l
      /\ y \notin Queued(r) /\ y \notin inflight[r]
      /\ y \notin ReadsIn(completions[r] \cup collected[r])
  BY <1>0 DEF RankInv, PlacesApart, ReadsIn
<1>6. /\ Queued(r)' \cup inflight'[r] = Queued(r) \cup inflight[r] \cup {y}
      /\ Queued(r)' \cap inflight'[r] = {}
      /\ Distinct(tasks'[r])
  <2>1. tasks[r] \in Seq(Piece) /\ Distinct(tasks[r]) /\ y \notin Elements(tasks[r])
    BY <1>0, <1>5, QueuedElements DEF TypeOK, Distinct
  <2>2. Elements(Append(tasks[r], y)) = Elements(tasks[r]) \cup {y} /\ Distinct(Append(tasks[r], y))
    BY <2>1, Pushed
  <2>3. Queued(r) = Elements(tasks[r]) /\ Queued(r)' = Elements(tasks'[r])
    BY DEF Queued, Elements
  <2>4. Queued(r) \cap inflight[r] = {}
    BY <1>0 DEF RankInv, PlacesApart
  <2>5. y \notin Queued(r)
    BY <1>5
  <2>6. CASE tasks'[r] = Append(tasks[r], y) /\ inflight'[r] = inflight[r]
    BY <1>5, <2>2, <2>3, <2>4, <2>6
  <2>7. CASE tasks'[r] = tasks[r] /\ inflight'[r] = inflight[r] \cup {y}
    BY <2>1, <2>3, <2>4, <2>5, <2>7
  <2> QED
    BY <1>3, <2>6, <2>7
<1>7. Pending(r)' = Pending(r)
  BY <1>3, <1>4, <1>6 DEF Pending, ReadsIn
<1>8. PlacesApart(r)'
  BY <1>0, <1>3, <1>4, <1>5, <1>6 DEF RankInv, PlacesApart, ReadsIn, Distinct
<1>9. ReadsUnderWay(r)' /\ CountersKept(r)'
  BY <1>0, <1>1, <1>3, <1>4, <1>7, SamePending
<1>10. ReadIntoWindow(r)' /\ NothingSkipped(r)'
  BY <1>0, <1>1, <1>4, <1>7, SameSession DEF RankInv, ReadIntoWindow, NothingSkipped
<1>11. CursorsInOrder(r)' /\ GatherInOrder(r)' /\ EventsKept(r)' /\ WindowWhole(r)' /\ PartsOnDevice(r)'
  BY <1>0, <1>1, <1>4, CursorsFrame, DeviceFrame DEF RankInv
<1> QED
  BY <1>8, <1>9, <1>10, <1>11 DEF RankInv

LEMMA StartTaskKeeps ==
  ASSUME IInv, NEW r \in Ranks, StartTask(r)
  PROVE  RankInv(r)'
<1>0. TypeOK /\ RankInv(r) /\ r \in AllRanks /\ session \in Sessions
  BY SessionFacts DEF IInv, TypeOK
<1>1. UNCHANGED session
  BY DEF StartTask
<1>2. PICK y : y = Head(tasks[r])
  OBVIOUS
<1>3. tasks[r] # <<>> /\ tasks'[r] = Tail(tasks[r]) /\ inflight'[r] = inflight[r] \cup {y}
  BY <1>0, <1>2 DEF StartTask, TypeOK
<1>4. UNCHANGED <<chunk_reading[r], posted[r], chunk_read[r], to_submit[r], completions[r],
                  collected[r], unfinished[r], buffer[r], cuda_done[r], copied[r], event[r],
                  device[r], wait_done[r], gathered>>
  BY DEF StartTask, postVars, deviceVars
<1>5. tasks[r] \in Seq(Piece) /\ Distinct(tasks[r])
  BY <1>0 DEF TypeOK, RankInv, PlacesApart, Distinct
<1>6. /\ Queued(r) = Queued(r)' \cup {y} /\ y \notin Queued(r)' /\ Distinct(tasks'[r])
  <2>1. /\ Elements(tasks[r]) = Elements(Tail(tasks[r])) \cup {y}
        /\ y \notin Elements(Tail(tasks[r])) /\ Distinct(Tail(tasks[r]))
    BY <1>2, <1>3, <1>5, Popped
  <2>2. Queued(r) = Elements(tasks[r]) /\ Queued(r)' = Elements(tasks'[r])
    BY DEF Queued, Elements
  <2> QED
    BY <1>3, <2>1, <2>2
<1>7. Pending(r)' = Pending(r)
  BY <1>3, <1>4, <1>6 DEF Pending, ReadsIn
<1>8. PlacesApart(r)'
  BY <1>0, <1>3, <1>4, <1>6 DEF RankInv, PlacesApart, ReadsIn, Distinct
<1>9. ReadsUnderWay(r)' /\ CountersKept(r)'
  BY <1>0, <1>1, <1>3, <1>4, <1>7, SamePending
<1>10. ReadIntoWindow(r)' /\ NothingSkipped(r)'
  BY <1>0, <1>1, <1>4, <1>7, SameSession DEF RankInv, ReadIntoWindow, NothingSkipped
<1>11. CursorsInOrder(r)' /\ GatherInOrder(r)' /\ EventsKept(r)' /\ WindowWhole(r)' /\ PartsOnDevice(r)'
  BY <1>0, <1>1, <1>4, CursorsFrame, DeviceFrame DEF RankInv
<1> QED
  BY <1>8, <1>9, <1>10, <1>11 DEF RankInv
\* The windows of chunks that are posted and not reaped are different.
LEMMA OutstandingApart ==
  ASSUME TypeOK, NEW r \in Ranks, CursorsInOrder(r), NEW c \in Chunks, NEW d \in Chunks, c # d,
         chunk_read[r] < c, c <= chunk_reading[r], chunk_read[r] < d, d <= chunk_reading[r]
  PROVE  WindowOf(c) # WindowOf(d)
<1>1. r \in AllRanks
  BY SessionFacts DEF TypeOK
<1>2. c \in Int /\ d \in Int /\ chunk_read[r] \in Int /\ chunk_reading[r] \in Int
  BY <1>1, Types
<1>3. Depth \in Int /\ IoDepth \in Int /\ Depth <= IoDepth
      /\ chunk_reading[r] - chunk_read[r] <= Depth
  BY SizeFacts DEF CursorsInOrder
<1>4. c - d < IoDepth /\ d - c < IoDepth
  BY <1>2, <1>3
<1>5. CASE c < d
  BY <1>2, <1>4, <1>5, WindowsApart
<1>6. CASE d < c
  BY <1>2, <1>4, <1>6, WindowsApart
<1> QED
  BY <1>2, <1>5, <1>6

LEMMA ReadsInAdd ==
  ASSUME NEW S, NEW x, NEW b
  PROVE  ReadsIn(S \cup {<<x, b>>}) = ReadsIn(S) \cup {x}
<1>1. <<x, b>>[1] = x
  OBVIOUS
<1>2. \A T, y : ReadsIn(T \cup {y}) = ReadsIn(T) \cup {y[1]}
  BY DEF ReadsIn
<1> QED
  BY <1>1, <1>2

LEMMA CompleteReadKeeps ==
  ASSUME IInv, NEW r \in Ranks, NEW x \in inflight[r], NEW whole \in BOOLEAN,
         CompleteRead(r, x, whole)
  PROVE  RankInv(r)'
<1>0. TypeOK /\ RankInv(r) /\ r \in AllRanks /\ session \in Sessions
  BY SessionFacts DEF IInv, TypeOK
<1>1. UNCHANGED session
  BY DEF CompleteRead
<1>2. /\ inflight'[r] = inflight[r] \ {x}
      /\ completions'[r] = completions[r] \cup {<<x, whole>>}
      /\ buffer'[r] = IF ~whole THEN buffer[r]
                      ELSE {y \in buffer[r] : Staged => <<WindowOf(y[1]), y[2]>> # <<WindowOf(x[1]), x[2]>>}
                             \cup {x}
  BY <1>0 DEF CompleteRead, TypeOK
<1>3. UNCHANGED <<chunk_reading[r], posted[r], chunk_read[r], to_submit[r], tasks[r],
                  collected[r], unfinished[r], cuda_done[r], copied[r], event[r],
                  device[r], wait_done[r], gathered>>
  BY DEF CompleteRead, postVars, deviceVars
<1>4. x \in Piece /\ x \in Pending(r) /\ cuda_done[r] < x[1] /\ x[1] <= chunk_reading[r]
  BY <1>0, Types DEF RankInv, ReadsUnderWay, Pending
<1>5. x \notin ReadsIn(completions[r] \cup collected[r])
  BY <1>0 DEF RankInv, PlacesApart, ReadsIn
<1>6. Queued(r)' = Queued(r) /\ Pending(r)' = Pending(r)
  <2>1. ReadsIn(completions'[r]) = ReadsIn(completions[r]) \cup {x}
    <3>1. completions'[r] = completions[r] \cup {<<x, whole>>}
      BY <1>2
    <3>2. ReadsIn(completions[r] \cup {<<x, whole>>}) = ReadsIn(completions[r]) \cup {x}
      BY ReadsInAdd, Zenon
    <3> QED
      BY <3>1, <3>2, Zenon
  <2>2. Queued(r)' = Queued(r) /\ ReadsIn(completions[r])' = ReadsIn(completions'[r])
    BY <1>3 DEF Queued, ReadsIn
  <2> QED
    BY <1>2, <1>3, <2>1, <2>2 DEF Pending
<1>7. PlacesApart(r)'
  <2>0. PlacesApart(r)
    BY <1>0 DEF RankInv
  <2>1. <<x, whole>> \notin collected[r]
    BY <1>5 DEF ReadsIn
  <2>2. ASSUME NEW y \in completions'[r] \cup collected'[r]
        PROVE  y = <<x, whole>> \/ (y \in completions[r] \cup collected[r] /\ y[1] # x)
    BY <1>2, <1>3, <1>5 DEF ReadsIn
  <2>3. x \notin Queued(r) /\ x \notin to_submit[r]
    BY <2>0 DEF PlacesApart
  <2>4. \A y \in completions'[r] \cup collected'[r] :
          y[1] \notin to_submit'[r] \cup Queued(r)' \cup inflight'[r]
    BY <1>2, <1>3, <1>6, <2>0, <2>2, <2>3 DEF PlacesApart
  <2>5. \A y, z \in completions'[r] \cup collected'[r] : y[1] = z[1] => y = z
    BY <2>0, <2>2 DEF PlacesApart
  <2>6. completions'[r] \cap collected'[r] = {}
    BY <1>2, <1>3, <2>0, <2>1 DEF PlacesApart
  <2> QED
    BY <1>2, <1>3, <1>6, <2>0, <2>4, <2>5, <2>6 DEF PlacesApart
<1>8. ReadsUnderWay(r)' /\ CountersKept(r)'
  BY <1>0, <1>1, <1>3, <1>6, SamePending
<1>9. /\ cuda_done[r] \in Int /\ chunk_read[r] \in Int /\ chunk_reading[r] \in Int /\ copied[r] \in Int
      /\ x[1] \in Chunks /\ x[1] \in Int /\ buffer[r] \subseteq Piece
      /\ \A z \in Piece : z[1] \in Chunks /\ z[1] \in Int
  BY <1>0, <1>4, Types
<1>10. chunk_read[r] <= cuda_done[r] /\ cuda_done[r] <= chunk_reading[r]
       /\ (~Backend({"cufile"}) => chunk_read[r] <= copied[r])
  BY <1>0, Types DEF RankInv, CursorsInOrder
\* Only data of chunks that have been reaped are overwritten.
<1>11. ASSUME NEW z \in buffer[r], Staged => chunk_read[r] < z[1]
       PROVE  z \in buffer'[r]
  <2>1. CASE z = x \/ ~whole \/ ~Staged
    BY <1>2, <2>1
  <2>2. CASE z # x /\ whole /\ Staged
    <3>1. z[1] <= chunk_reading[r] /\ z[1] \in Chunks
      BY <1>0, <1>9 DEF RankInv, ReadIntoWindow
    <3>2. z[1] # x[1] => WindowOf(z[1]) # WindowOf(x[1])
      BY <1>0, <1>4, <1>9, <1>10, <1>11, <2>2, <3>1, OutstandingApart DEF RankInv
    <3>3. z[1] = x[1] => z[2] # x[2]
      BY <1>4, <1>9, <2>2 DEF Piece
    <3> QED
      BY <1>2, <2>2, <3>2, <3>3
  <2> QED
    BY <2>1, <2>2
<1>12. ReadIntoWindow(r)'
  <2>1. \A z \in buffer'[r] : z[1] <= chunk_reading'[r]
    BY <1>0, <1>2, <1>3, <1>4 DEF RankInv, ReadIntoWindow
  <2>2. ASSUME NEW y \in completions'[r] \cup collected'[r], y[2]
        PROVE  y[1] \in buffer'[r]
    <3>1. CASE y = <<x, whole>>
      BY <1>2, <2>2, <3>1
    <3>2. CASE y \in completions[r] \cup collected[r]
      <4>1. y[1] \in buffer[r]
        BY <1>0, <2>2, <3>2 DEF RankInv, ReadIntoWindow
      <4>2. y[1] \in Pending(r) \cup ReadsIn(collected[r])
        BY <3>2 DEF Pending, ReadsIn
      <4>3. cuda_done[r] < y[1][1]
        BY <1>0, <4>2 DEF RankInv, ReadsUnderWay
      <4>4. y[1][1] \in Int
        BY <1>9, <4>1
      <4> QED
        BY <1>9, <1>10, <1>11, <4>1, <4>3, <4>4
    <3> QED
      BY <1>2, <1>3, <3>1, <3>2
  <2> QED
    BY <2>1, <2>2 DEF ReadIntoWindow
<1>13. NothingSkipped(r)'
  <2>1. Reliable /\ ~Backend({"cufile"}) => whole
    <3>1. inflight[r] # {} => ~Backend({"mapped"})
      BY <1>0, ReadsOfChunk DEF RankInv, ReadsUnderWay, Pending, ReadsOf
    <3> QED
      BY <1>0, <3>1, SessionFacts DEF CompleteRead, Reliable, Backend
  <2>2. ASSUME Reliable, ~Backend({"cufile"}), NEW y \in (completions[r] \cup collected[r])'
        PROVE  y[2]
    <3>1. CASE y = <<x, whole>>
      BY <2>1, <2>2, <3>1
    <3>2. CASE y \in completions[r] \cup collected[r]
      BY <1>0, <2>2, <3>2 DEF RankInv, NothingSkipped
    <3>3. y \in completions[r] \cup collected[r] \cup {<<x, whole>>}
      BY <1>2, <1>3, <2>2
    <3> QED
      BY <3>1, <3>2, <3>3
  <2>3. ASSUME Counting, Reliable, NEW d \in Chunks, NEW z \in Piece,
               cuda_done[r] < d, d <= chunk_reading[r], z \in ReadsOf(r, d)
        PROVE  z \in Pending(r)' \cup buffer'[r]
    <3>1. z \in Pending(r) \cup buffer[r]
      BY <1>0, <2>3 DEF RankInv, NothingSkipped
    <3>2. z[1] = d /\ d \in Int
      BY <1>0, <2>3, ReadsOfChunk, Types
    <3>3. chunk_read[r] < z[1]
      BY <1>9, <1>10, <2>3, <3>2
    <3> QED
      BY <1>6, <1>11, <3>1, <3>3
  <2> QED
    BY <1>1, <1>3, <2>2, <2>3, SameSession DEF NothingSkipped
<1>14. WindowWhole(r)'
  <2> SUFFICES ASSUME Reliable, NEW c \in Chunks, c <= cuda_done[r],
                      Backend({"cufile"}) \/ copied[r] < c,
                      NEW z \in ReadsOf(r, c)
               PROVE  z \in buffer'[r]
    BY <1>1, <1>3, SameSession DEF WindowWhole, Held
  <2>1. z \in buffer[r]
    BY <1>0 DEF RankInv, WindowWhole, Held
  <2>2. z[1] = c /\ c \in Int
    BY <1>0, ReadsOfChunk, Types
  <2>3. Staged => ~Backend({"cufile"})
    BY DEF Staged, Backend
  <2>4. Staged => chunk_read[r] < z[1]
    BY <1>9, <1>10, <2>2, <2>3
  <2> QED
    BY <1>11, <2>1, <2>4
<1>15. PartsOnDevice(r)'
  BY <1>0, <1>1, <1>3, SameSession DEF RankInv, PartsOnDevice
<1>16. CursorsInOrder(r)' /\ GatherInOrder(r)' /\ EventsKept(r)'
  BY <1>0, <1>1, <1>3, CursorsFrame DEF RankInv
<1> QED
  BY <1>7, <1>8, <1>12, <1>13, <1>14, <1>15, <1>16 DEF RankInv
-----------------------------------------------------------------------------
(* cuda_thread.                                                            *)

\* A chunk has as many completions in S as reads.
LEMMA CompletionsOf ==
  ASSUME session \in Sessions, NEW r \in Ranks, PlacesApart(r), ReadsUnderWay(r),
         NEW S \in SUBSET completions[r], NEW d \in Chunks
  PROVE  LET own == {y \in S : y[1][1] = d}
         IN /\ ReadsIn(own) \subseteq PendingOf(r, d)
            /\ Cardinality(ReadsIn(own)) = Cardinality(own)
<1> DEFINE own == {y \in S : y[1][1] = d}
           f == [y \in own |-> y[1]]
<1>1. ReadsIn(own) \subseteq PendingOf(r, d)
  BY DEF ReadsIn, PendingOf, Pending
<1>2. IsFiniteSet(ReadsIn(own))
  BY <1>1, PendingBounds, FS_Subset
<1>3. \A y, z \in own : y[1] = z[1] => y = z
  BY DEF PlacesApart
<1>4. f \in [own -> ReadsIn(own)]
  BY DEF ReadsIn
<1>5. \A t \in ReadsIn(own) : \E y \in own : f[y] = t
  BY DEF ReadsIn
<1>6. \A y, z \in own : f[y] = f[z] => y = z
  BY <1>3
<1> HIDE DEF f, own
<1>7. f \in Bijection(own, ReadsIn(own))
  BY <1>4, <1>5, <1>6 DEF Bijection, Injection, Surjection, IsInjective
<1>8. IsFiniteSet(own)
  BY <1>2, <1>7, FS_Injection DEF Bijection
<1>9. Cardinality(ReadsIn(own)) = Cardinality(own)
  BY <1>7, <1>8, FS_Bijection DEF ExistsBijection
<1> QED
  BY <1>1, <1>9 DEF own

LEMMA CollectKeeps ==
  ASSUME IInv, NEW r \in Ranks, NEW S \in SUBSET completions[r], Collect(r, S)
  PROVE  RankInv(r)'
<1>0. TypeOK /\ RankInv(r) /\ r \in AllRanks /\ session \in Sessions
  BY SessionFacts DEF IInv, TypeOK
<1>1. UNCHANGED session
  BY DEF Collect
<1>2. UNCHANGED <<chunk_reading[r], posted[r], chunk_read[r], to_submit[r], tasks[r],
                  inflight[r], buffer[r], cuda_done[r], copied[r], event[r], device[r],
                  wait_done[r], gathered>>
      /\ completions'[r] = completions[r] \ S
  BY <1>0 DEF Collect, postVars, deviceVars, TypeOK
<1>3. \/ Counting /\ ~Pooled /\ collected'[r] = collected[r]
         /\ unfinished'[r] = [d \in Chunks |->
                                unfinished[r][d] - Cardinality({y \in S : y[1][1] = d})]
      \/ Pooled /\ ~Counting /\ collected'[r] = collected[r] \cup S
         /\ unfinished'[r] = unfinished[r]
  <2>1. Counting => ~Pooled
    BY DEF Counting, Pooled, Backend
  <2>2. Counting \/ Pooled
    BY DEF Collect, Counting, Backend
  <2>3. CASE Pooled
    BY <1>0, <2>1, <2>3 DEF Collect, TypeOK
  <2>4. CASE ~Pooled
    <3>1. unfinished' = Counted(r, S, cuda_done[r] + 1) /\ collected' = collected
      BY <2>4 DEF Collect
    <3>2. unfinished'[r] = [d \in Chunks |->
                              unfinished[r][d] - Cardinality({y \in S : y[1][1] = d})]
      BY <1>0, <3>1 DEF Counted, TypeOK
    <3> QED
      BY <2>2, <2>4, <3>1, <3>2
  <2> QED
    BY <2>3, <2>4
<1>4. PlacesApart(r) /\ ReadsUnderWay(r) /\ CountersKept(r) /\ ReadIntoWindow(r) /\ NothingSkipped(r)
  BY <1>0 DEF RankInv
<1>5. /\ completions'[r] \cup collected'[r] \subseteq completions[r] \cup collected[r]
      /\ completions'[r] \subseteq completions[r]
  BY <1>2, <1>3
<1>6. Queued(r)' = Queued(r) /\ Pending(r)' \subseteq Pending(r)
      /\ Pending(r) \subseteq Pending(r)' \cup ReadsIn(S)
  <2>1. ReadsIn(completions'[r]) \subseteq ReadsIn(completions[r])
        /\ ReadsIn(completions[r]) \subseteq ReadsIn(completions'[r]) \cup ReadsIn(S)
    BY <1>2 DEF ReadsIn
  <2>2. Queued(r)' = Queued(r) /\ ReadsIn(completions[r])' = ReadsIn(completions'[r])
    BY <1>2 DEF Queued, ReadsIn
  <2> QED
    BY <1>2, <2>1, <2>2 DEF Pending
<1>7. PlacesApart(r)'
  <2>1. completions'[r] \cap collected'[r] = {}
    BY <1>2, <1>3, <1>4 DEF PlacesApart
  <2> QED
    BY <1>2, <1>4, <1>5, <1>6, <2>1 DEF PlacesApart
<1>8. ReadsUnderWay(r)'
  <2>1. Pending(r)' \cup ReadsIn(collected'[r]) \subseteq Pending(r) \cup ReadsIn(collected[r])
    <3>1. ReadsIn(collected'[r]) \subseteq ReadsIn(completions[r]) \cup ReadsIn(collected[r])
      BY <1>5 DEF ReadsIn
    <3> QED
      BY <1>6, <3>1 DEF Pending
  <2>2. ReadsIn(collected[r])' = ReadsIn(collected'[r])
    BY DEF ReadsIn
  <2>3. collected'[r] # {} => Pooled
    BY <1>3, <1>4 DEF ReadsUnderWay
  <2> QED
    BY <1>1, <1>2, <1>4, <2>1, <2>2, <2>3, SameSession DEF ReadsUnderWay
<1>9. CountersKept(r)'
  <2>1. CASE Counting
    <3> SUFFICES ASSUME NEW d \in Chunks
                 PROVE  unfinished'[r][d] = Cardinality(PendingOf(r, d)')
      BY <1>1, <2>1, SameSession DEF CountersKept
    <3> DEFINE own == {y \in S : y[1][1] = d}
    <3>1. ReadsIn(own) \subseteq PendingOf(r, d) /\ Cardinality(ReadsIn(own)) = Cardinality(own)
      BY <1>0, <1>4, CompletionsOf
    <3>2. PendingOf(r, d)' = PendingOf(r, d) \ ReadsIn(own)
      <4>1. \A x \in ReadsIn(S) : x \notin Pending(r)'
        <5> SUFFICES ASSUME NEW y \in S PROVE y[1] \notin Pending(r)'
          BY DEF ReadsIn
        <5>1. y[1] \notin to_submit[r] \cup Queued(r) \cup inflight[r]
          BY <1>4 DEF PlacesApart
        <5>2. \A z \in completions'[r] : z[1] # y[1]
          BY <1>2, <1>4 DEF PlacesApart
        <5> QED
          BY <1>2, <1>6, <5>1, <5>2 DEF Pending, ReadsIn
      <4>2. \A x \in ReadsIn(S) : x[1] = d <=> x \in ReadsIn(own)
        BY DEF ReadsIn
      <4>3. ReadsIn(own) \subseteq ReadsIn(S)
        BY DEF ReadsIn
      <4> HIDE DEF own
      <4> QED
        BY <1>6, <4>1, <4>2, <4>3 DEF PendingOf
    <3>3. PendingOf(r, d) \cap ReadsIn(own) = ReadsIn(own)
      BY <3>1
    <3>4. IsFiniteSet(PendingOf(r, d))
      BY <1>0, <1>4, PendingBounds
    <3>5. Cardinality(PendingOf(r, d) \ ReadsIn(own)) = Cardinality(PendingOf(r, d)) - Cardinality(own)
      <4> HIDE DEF own
      <4>1. Cardinality(PendingOf(r, d) \ ReadsIn(own))
              = Cardinality(PendingOf(r, d)) - Cardinality(PendingOf(r, d) \cap ReadsIn(own))
        BY <3>4, FS_Difference
      <4> QED
        BY <3>1, <3>3, <4>1
    <3>6. unfinished[r][d] = Cardinality(PendingOf(r, d))
      BY <1>4, <2>1 DEF CountersKept
    <3>7. unfinished'[r][d] = unfinished[r][d] - Cardinality(own)
      BY <1>3, <2>1
    <3> QED
      BY <3>2, <3>5, <3>6, <3>7
  <2>2. CASE ~Counting
    BY <1>1, <1>3, <1>4, <2>2, SameSession DEF CountersKept
  <2> QED
    BY <2>1, <2>2
<1>10. ReadIntoWindow(r)'
  BY <1>2, <1>4, <1>5 DEF ReadIntoWindow
<1>11. NothingSkipped(r)'
  <2>1. Reliable /\ ~Backend({"cufile"}) => \A y \in (completions[r] \cup collected[r])' : y[2]
    BY <1>4, <1>5 DEF NothingSkipped
  <2>2. ASSUME Counting, Reliable, NEW d \in Chunks, NEW z \in Piece,
               cuda_done[r] < d, d <= chunk_reading[r], z \in ReadsOf(r, d)
        PROVE  z \in Pending(r)' \cup buffer[r]
    <3>1. z \in Pending(r) \cup buffer[r]
      BY <1>4, <2>2 DEF NothingSkipped
    <3>2. ReadsIn(S) \subseteq buffer[r]
      <4> SUFFICES ASSUME NEW y \in S PROVE y[1] \in buffer[r]
        BY DEF ReadsIn
      <4>1. y[2]
        BY <1>4, <2>2, CountingIsNotCuFile DEF NothingSkipped
      <4> QED
        BY <1>4, <4>1 DEF ReadIntoWindow
    <3> QED
      BY <1>6, <3>1, <3>2
  <2> QED
    BY <1>1, <1>2, <2>1, <2>2, SameSession DEF NothingSkipped
<1>12. CursorsInOrder(r)' /\ GatherInOrder(r)' /\ EventsKept(r)' /\ WindowWhole(r)' /\ PartsOnDevice(r)'
  BY <1>0, <1>1, <1>2, CursorsFrame, DeviceFrame DEF RankInv
<1> QED
  BY <1>7, <1>8, <1>9, <1>10, <1>11, <1>12 DEF RankInv
\* Recording the next chunk's event leaves those of outstanding chunks alone.
LEMMA EnqueueKeepsEvents ==
  ASSUME IInv, NEW r \in Ranks, UNCHANGED <<session, chunk_read[r]>>,
         NEW c \in Chunks, c = cuda_done[r] + 1, c <= chunk_reading[r], Enqueue(r, c)
  PROVE  EventsKept(r)'
<1>0. TypeOK /\ RankInv(r) /\ r \in AllRanks
  BY SessionFacts DEF IInv, TypeOK
<1>1. cuda_done'[r] = c
  BY <1>0 DEF Enqueue, TypeOK
<1>2. SUFFICES ASSUME ~Backend({"cufile"}) \/ Distributed,
                      NEW d \in Chunks, chunk_read[r] < d, d <= c
               PROVE  event'[r][WindowOf(d)] = d
  BY <1>1, SameSession DEF EventsKept, WindowOf
<1>3. /\ c \in Int /\ d \in Int /\ chunk_read[r] \in Int /\ cuda_done[r] \in Int
      /\ chunk_reading[r] \in Int
      /\ WindowOf(c) \in 0 .. IoDepth - 1 /\ WindowOf(d) \in 0 .. IoDepth - 1
  BY <1>0, Types, WindowRange
<1>4. event'[r] = [event[r] EXCEPT ![WindowOf(c)] = c]
  BY <1>0, <1>2 DEF Enqueue, TypeOK
<1>5. event[r] \in [0 .. IoDepth - 1 -> Cursor]
  BY <1>0 DEF TypeOK
<1>6. CASE d = c
  BY <1>3, <1>4, <1>5, <1>6
<1>7. CASE d # c
  <2>1. d <= cuda_done[r] /\ d <= chunk_reading[r] /\ chunk_read[r] < c
    BY <1>2, <1>3, <1>7
  <2>2. event[r][WindowOf(d)] = d
    BY <1>0, <1>2, <2>1 DEF RankInv, EventsKept
  <2>3. WindowOf(d) # WindowOf(c)
    BY <1>0, <1>2, <1>7, <2>1, OutstandingApart DEF RankInv
  <2> QED
    BY <1>3, <1>4, <1>5, <2>2, <2>3
<1> QED
  BY <1>6, <1>7

LEMMA CudaFuncEndKeeps ==
  ASSUME IInv, NEW r \in Ranks, CudaFuncEnd(r)
  PROVE  RankInv(r)'
<1>0. TypeOK /\ RankInv(r) /\ r \in AllRanks /\ session \in Sessions
  BY SessionFacts DEF IInv, TypeOK
<1>1. UNCHANGED session
  BY DEF CudaFuncEnd
<1>2. /\ {chunk_reading[r], posted[r], chunk_read[r], cuda_done[r], copied[r], wait_done[r],
          gathered} \subseteq Int
      /\ Chunks \subseteq Int /\ posted[r] \in Cursor
      /\ Pending(r) \subseteq Piece /\ ReadsIn(collected[r]) \subseteq Piece
      /\ \A x \in Piece : x[1] \in Chunks /\ x[1] \in Int
  BY <1>0, Types
<1>3. /\ chunk_read[r] <= cuda_done[r] /\ posted[r] <= chunk_reading[r]
      /\ cuda_done[r] <= chunk_reading[r]
  BY <1>0, <1>2 DEF RankInv, CursorsInOrder
<1>c. PICK c \in Chunks : c = cuda_done[r] + 1 /\ c <= posted[r]
  <2>1. cuda_done[r] \in Cursor
    BY <1>0, Types
  <2>2. cuda_done[r] + 1 <= posted[r]
    BY DEF CudaFuncEnd
  <2> QED
    BY <1>2, <2>1, <2>2, SizeFacts DEF Chunks
<1>4. /\ UNCHANGED <<chunk_reading[r], posted[r], chunk_read[r], to_submit[r], tasks[r],
                     inflight[r], completions[r], unfinished[r], buffer[r], copied[r], device[r],
                     wait_done[r], gathered>>
      /\ cuda_done'[r] = c
      /\ collected'[r] = {y \in collected[r] : y[1][1] # c}
      /\ Enqueue(r, c)
  BY <1>0, <1>c DEF CudaFuncEnd, postVars, TypeOK, Enqueue
<1>5. ~Backend({"mapped"})
  BY <1>0, <1>2, <1>c DEF RankInv, CursorsInOrder
<1>6. /\ ReadsAccounted(r, c)
      /\ PlacesApart(r) /\ ReadsUnderWay(r) /\ CountersKept(r) /\ ReadIntoWindow(r)
      /\ NothingSkipped(r)
  BY <1>0, <1>c DEF CudaFuncEnd, RankInv
<1>7. (Counting /\ ~Pooled) \/ Pooled
  BY <1>0, <1>5, SessionFacts DEF Counting, Pooled, Backend
\* Nothing of the chunk is left behind.
<1>8. ASSUME NEW x \in Pending(r) PROVE x[1] # c
  <2> SUFFICES ASSUME x[1] = c PROVE FALSE
    OBVIOUS
  <2>1. x \in ReadsOf(r, c)
    BY <1>6 DEF ReadsUnderWay
  <2>2. CASE Pooled
    <3>1. PICK w \in BOOLEAN : <<x, w>> \in collected[r]
      BY <1>6, <2>1, <2>2 DEF ReadsAccounted
    <3>2. x \notin to_submit[r] \cup Queued(r) \cup inflight[r]
      BY <1>6, <3>1 DEF PlacesApart
    <3>3. PICK y \in completions[r] : y[1] = x
      BY <3>2 DEF Pending, ReadsIn
    <3>4. y = <<x, w>>
      BY <1>6, <3>1, <3>3 DEF PlacesApart
    <3> QED
      BY <1>6, <3>1, <3>3, <3>4 DEF PlacesApart
  <2>3. CASE Counting /\ ~Pooled
    <3>1. Cardinality(PendingOf(r, c)) = 0
      BY <1>6, <2>3 DEF ReadsAccounted, CountersKept
    <3>2. PendingOf(r, c) = {}
      BY <1>0, <1>6, <3>1, PendingBounds, FS_EmptySet
    <3> QED
      BY <3>2 DEF PendingOf
  <2> QED
    BY <1>7, <2>2, <2>3
<1>9. Queued(r)' = Queued(r) /\ Pending(r)' = Pending(r)
      /\ \A d : PendingOf(r, d)' = PendingOf(r, d)
  BY <1>4 DEF Queued, Pending, ReadsIn, PendingOf
<1>10. PlacesApart(r)'
  <2>1. completions'[r] \cup collected'[r] \subseteq completions[r] \cup collected[r]
        /\ completions'[r] \cap collected'[r] \subseteq completions[r] \cap collected[r]
    BY <1>4
  <2> QED
    BY <1>4, <1>6, <1>9, <2>1 DEF PlacesApart
<1>11. ReadsUnderWay(r)'
  <2>1. ASSUME NEW x \in Pending(r)' \cup ReadsIn(collected'[r])
        PROVE  x \in Pending(r) \cup ReadsIn(collected[r]) /\ x[1] # c
    BY <1>4, <1>8, <1>9 DEF ReadsIn
  <2>2. ASSUME NEW x \in Pending(r)' \cup ReadsIn(collected'[r])
        PROVE  x \in ReadsOf(r, x[1]) /\ c < x[1] /\ x[1] <= chunk_reading[r]
    <3>1. x \in ReadsOf(r, x[1]) /\ cuda_done[r] < x[1] /\ x[1] <= chunk_reading[r]
      BY <1>6, <2>1 DEF ReadsUnderWay
    <3>2. x[1] \in Int
      BY <1>2, <2>1
    <3> QED
      BY <1>2, <1>c, <2>1, <3>1, <3>2
  <2>3. ReadsIn(collected[r])' = ReadsIn(collected'[r])
    BY DEF ReadsIn
  <2>4. collected'[r] # {} => Pooled
    BY <1>4, <1>6 DEF ReadsUnderWay
  <2> QED
    BY <1>1, <1>4, <1>6, <2>2, <2>3, <2>4, SameSession DEF ReadsUnderWay
<1>12. CountersKept(r)'
  BY <1>1, <1>4, <1>6, <1>9, SameSession DEF CountersKept
<1>13. ReadIntoWindow(r)'
  BY <1>4, <1>6 DEF ReadIntoWindow
<1>14. NothingSkipped(r)'
  <2>1. \A d \in Chunks : c < d => cuda_done[r] < d
    BY <1>2, <1>c
  <2> QED
    BY <1>1, <1>4, <1>6, <1>9, <2>1, SameSession DEF NothingSkipped
<1>15. WindowWhole(r)'
  <2> SUFFICES ASSUME Reliable, NEW d \in Chunks, d <= c,
                      Backend({"cufile"}) \/ copied[r] < d, NEW z \in ReadsOf(r, d)
               PROVE  z \in buffer[r]
    BY <1>1, <1>4, SameSession DEF WindowWhole, Held
  <2>0. Reliable
    OBVIOUS
  <2>1. CASE d <= cuda_done[r]
    BY <1>0, <2>1 DEF RankInv, WindowWhole, Held
  <2>2. CASE d = c /\ Pooled
    <3>1. PICK w \in BOOLEAN : <<z, w>> \in collected[r] /\ (Backend({"cufile"}) => w)
      BY <1>6, <2>2 DEF ReadsAccounted
    <3>2. PICK y \in collected[r] : y[1] = z /\ y[2]
      BY <1>6, <2>0, <3>1 DEF NothingSkipped
    <3> QED
      BY <1>6, <3>2 DEF ReadIntoWindow
  <2>3. CASE d = c /\ Counting
    <3>1. z \in Piece /\ z[1] = c
      BY <1>0, <2>3, ReadsOfChunk
    <3>2. cuda_done[r] < c /\ c <= chunk_reading[r]
      BY <1>2, <1>3, <1>c
    <3>3. z \in Pending(r) \cup buffer[r]
      BY <1>6, <2>3, <3>1, <3>2 DEF NothingSkipped
    <3> QED
      BY <1>8, <3>1, <3>3
  <2> QED
    BY <1>2, <1>7, <1>c, <2>1, <2>2, <2>3
<1>16. PartsOnDevice(r)'
  <2>1. \A p \in device[r] : p[1] \in Int
    <3>1. device \in [AllRanks -> SUBSET (Chunks \X AllRanks)] /\ Chunks \subseteq Int
      BY <1>0, <1>2 DEF TypeOK
    <3>2. device[r] \subseteq Chunks \X AllRanks
      BY <1>0, <3>1
    <3> QED
      BY <3>1, <3>2
  <2>2. \A p \in device[r] : p[1] <= c
    BY <1>0, <1>2, <1>c, <2>1 DEF RankInv, PartsOnDevice
  <2> QED
    BY <1>0, <1>1, <1>4, <2>2, SameSession DEF RankInv, PartsOnDevice
<1>17. EventsKept(r)'
  BY <1>1, <1>2, <1>3, <1>4, <1>c, EnqueueKeepsEvents
<1>18. CursorsInOrder(r)' /\ GatherInOrder(r)'
  BY <1>0, <1>1, <1>2, <1>4, <1>5, <1>c, SameSession DEF RankInv, CursorsInOrder, GatherInOrder
<1> QED
  BY <1>10, <1>11, <1>12, <1>13, <1>14, <1>15, <1>16, <1>17, <1>18 DEF RankInv
LEMMA CudaFuncThrowsKeeps ==
  ASSUME IInv, NEW r \in Ranks, CudaFuncThrows(r)
  PROVE  RankInv(r)'
<1>1. UNCHANGED <<session, postVars, tasks, inflight, completions, collected, unfinished, buffer,
                  deviceVars>>
  BY DEF CudaFuncThrows
<1>2. UNCHANGED <<session, gathered>> /\ UNCHANGED Own(r)
  BY <1>1 DEF Own, postVars, deviceVars
<1> QED
  BY <1>2, SameRank, SessionFacts DEF IInv, TypeOK

LEMMA HandOverKeeps ==
  ASSUME IInv, NEW r \in Ranks, HandOver(r)
  PROVE  RankInv(r)'
<1>0. TypeOK /\ RankInv(r) /\ r \in AllRanks /\ session \in Sessions
  BY SessionFacts DEF IInv, TypeOK
<1>1. UNCHANGED session
  BY DEF HandOver
<1>2. /\ {chunk_reading[r], posted[r], chunk_read[r], cuda_done[r], copied[r], wait_done[r],
          gathered} \subseteq Int
      /\ Chunks \subseteq Int /\ chunk_reading[r] \in Cursor /\ posted[r] \in Cursor
      /\ \A x \in Piece : x[1] \in Chunks /\ x[1] \in Int
  BY <1>0, Types
<1>c. PICK c \in Chunks : c = chunk_reading[r] /\ c = posted[r] + 1
  <2>1. posted[r] < chunk_reading[r] /\ chunk_reading[r] <= posted[r] + 1
    BY <1>0 DEF HandOver, RankInv, CursorsInOrder
  <2> QED
    BY <1>2, <2>1, SizeFacts DEF Chunks
<1>3. /\ UNCHANGED <<chunk_reading[r], chunk_read[r], to_submit[r], tasks[r], inflight[r],
                     completions[r], collected[r], unfinished[r], buffer[r], copied[r], device[r],
                     wait_done[r], gathered>>
      /\ posted'[r] = c /\ to_submit[r] = {}
      /\ IF Backend({"mapped"}) THEN Enqueue(r, c) ELSE UNCHANGED <<cuda_done[r], event[r]>>
  BY <1>0, <1>c DEF HandOver, readVars, deviceVars, Enqueue, TypeOK
<1>4. Queued(r)' = Queued(r) /\ Pending(r)' = Pending(r)
      /\ \A d : PendingOf(r, d)' = PendingOf(r, d)
  BY <1>3 DEF Queued, Pending, ReadsIn, PendingOf
<1>5. PlacesApart(r)' /\ CountersKept(r)' /\ ReadIntoWindow(r)'
  BY <1>0, <1>1, <1>3, <1>4, SameSession DEF RankInv, PlacesApart, CountersKept, ReadIntoWindow
<1>6. CASE ~Backend({"mapped"})
  <2>1. UNCHANGED <<cuda_done[r], event[r]>>
    BY <1>3, <1>6
  <2>2. ReadsUnderWay(r)'
    BY <1>0, <1>1, <1>3, <1>4, <2>1, SameSession DEF RankInv, ReadsUnderWay, ReadsIn
  <2>3. NothingSkipped(r)'
    BY <1>0, <1>1, <1>3, <1>4, <2>1, SameSession DEF RankInv, NothingSkipped
  <2>4. WindowWhole(r)' /\ PartsOnDevice(r)'
    BY <1>0, <1>1, <1>3, <2>1, DeviceFrame DEF RankInv
  <2>5. CursorsInOrder(r)'
    BY <1>0, <1>1, <1>2, <1>3, <1>6, <1>c, <2>1, SameSession DEF RankInv, CursorsInOrder
  <2>6. GatherInOrder(r)' /\ EventsKept(r)'
    BY <1>0, <1>1, <1>3, <2>1, SameSession DEF RankInv, GatherInOrder, EventsKept, WindowOf
  <2> QED
    BY <1>5, <2>2, <2>3, <2>4, <2>5, <2>6 DEF RankInv
<1>7. CASE Backend({"mapped"})
  <2>0. \A d : ReadsOf(r, d) = {}
    BY <1>7 DEF ReadsOf
  <2>1. Enqueue(r, c) /\ cuda_done'[r] = c /\ cuda_done[r] = posted[r]
        /\ c = cuda_done[r] + 1 /\ c <= chunk_reading[r]
    BY <1>0, <1>2, <1>3, <1>7, <1>c DEF Enqueue, TypeOK, RankInv, CursorsInOrder
  <2>2. ReadsUnderWay(r)'
    <3>1. Pending(r) \cup ReadsIn(collected[r]) = {}
      BY <1>0, <2>0 DEF RankInv, ReadsUnderWay
    <3>2. collected[r] = {}
      BY <3>1 DEF ReadsIn
    <3> QED
      BY <1>3, <1>4, <3>1, <3>2 DEF ReadsUnderWay, ReadsIn
  <2>3. NothingSkipped(r)'
    <3>1. ~Counting
      BY <1>7 DEF Counting, Backend
    <3> QED
      BY <1>0, <1>1, <1>3, <3>1, SameSession DEF RankInv, NothingSkipped
  <2>4. WindowWhole(r)'
    BY <1>1, <2>0, SameSession DEF WindowWhole, Held
  <2>5. PartsOnDevice(r)'
    <3>0. device[r] \subseteq Chunks \X AllRanks
      BY <1>0 DEF TypeOK
    <3>1. \A p \in device[r] : p[1] \in Int
      BY <1>2, <3>0
    <3>2. \A p \in device[r] : p[1] <= c
      BY <1>0, <1>2, <1>c, <2>1, <3>1 DEF RankInv, PartsOnDevice
    <3> QED
      BY <1>0, <1>1, <1>3, <2>1, <3>2, SameSession DEF RankInv, PartsOnDevice
  <2>6. EventsKept(r)'
    BY <1>1, <1>3, <2>1, EnqueueKeepsEvents
  <2>7. CursorsInOrder(r)' /\ GatherInOrder(r)'
    BY <1>0, <1>1, <1>2, <1>3, <1>c, <2>1, SameSession DEF RankInv, CursorsInOrder, GatherInOrder
  <2> QED
    BY <1>5, <2>2, <2>3, <2>4, <2>5, <2>6, <2>7 DEF RankInv
<1> QED
  BY <1>6, <1>7

LEMMA ReapKeeps ==
  ASSUME IInv, NEW r \in Ranks, Reap(r)
  PROVE  RankInv(r)'
<1>0. TypeOK /\ RankInv(r) /\ r \in AllRanks /\ session \in Sessions
  BY SessionFacts DEF IInv, TypeOK
<1>1. UNCHANGED session
  BY DEF Reap
<1>2. /\ {chunk_reading[r], posted[r], chunk_read[r], cuda_done[r], copied[r], wait_done[r],
          gathered} \subseteq Int
      /\ Chunks \subseteq Int /\ Depth \in Int
  BY <1>0, Types, SizeFacts
<1>3. /\ UNCHANGED <<chunk_reading[r], to_submit[r], posted[r], tasks[r], inflight[r],
                     completions[r], collected[r], unfinished[r], buffer[r], cuda_done[r],
                     copied[r], event[r], device[r], wait_done[r], gathered>>
      /\ chunk_read'[r] = chunk_read[r] + 1 /\ chunk_read[r] < wait_done[r]
  BY <1>0 DEF Reap, readVars, deviceVars, TypeOK
<1>4. CursorsInOrder(r)' /\ GatherInOrder(r)'
  BY <1>0, <1>1, <1>2, <1>3, SameSession DEF RankInv, CursorsInOrder, GatherInOrder
<1>5. EventsKept(r)'
  <2>1. \A c \in Chunks : chunk_read[r] + 1 < c => chunk_read[r] < c
    BY <1>2
  <2> QED
    BY <1>0, <1>1, <1>3, <2>1, SameSession DEF RankInv, EventsKept, WindowOf
<1>6. /\ PlacesApart(r)' /\ ReadsUnderWay(r)' /\ CountersKept(r)'
      /\ ReadIntoWindow(r)' /\ NothingSkipped(r)'
  BY <1>0, <1>1, <1>3, ReadsFrame DEF RankInv
<1>7. WindowWhole(r)' /\ PartsOnDevice(r)'
  BY <1>0, <1>1, <1>3, DeviceFrame DEF RankInv
<1> QED
  BY <1>4, <1>5, <1>6, <1>7 DEF RankInv

LEMMA StreamCopyKeeps ==
  ASSUME IInv, NEW r \in Ranks, StreamCopy(r)
  PROVE  RankInv(r)'
<1>0. TypeOK /\ RankInv(r) /\ r \in AllRanks /\ session \in Sessions
  BY SessionFacts DEF IInv, TypeOK
<1>1. UNCHANGED session
  BY DEF StreamCopy
<1>2. /\ {chunk_reading[r], posted[r], chunk_read[r], cuda_done[r], copied[r], wait_done[r],
          gathered} \subseteq Int
      /\ Chunks \subseteq Int /\ cuda_done[r] \in Cursor /\ copied[r] \in Cursor
  BY <1>0, Types
<1>c. PICK c \in Chunks : c = copied[r] + 1 /\ c <= cuda_done[r]
  <2>1. copied[r] + 1 <= cuda_done[r]
    BY DEF StreamCopy
  <2> QED
    BY <1>2, <2>1, SizeFacts DEF Chunks
<1>3. /\ UNCHANGED <<chunk_reading[r], to_submit[r], posted[r], chunk_read[r], tasks[r],
                     inflight[r], completions[r], collected[r], unfinished[r], buffer[r],
                     cuda_done[r], event[r], wait_done[r], gathered>>
      /\ ~Backend({"cufile"}) /\ copied'[r] = c
      /\ device'[r] = IF Held(r, c) THEN device[r] \cup {<<c, r>>} ELSE device[r]
  BY <1>0, <1>c DEF StreamCopy, postVars, readVars, TypeOK
<1>4. CursorsInOrder(r)' /\ GatherInOrder(r)' /\ EventsKept(r)'
  BY <1>0, <1>1, <1>2, <1>3, <1>c, SameSession
     DEF RankInv, CursorsInOrder, GatherInOrder, EventsKept, WindowOf
<1>5. /\ PlacesApart(r)' /\ ReadsUnderWay(r)' /\ CountersKept(r)'
      /\ ReadIntoWindow(r)' /\ NothingSkipped(r)'
  BY <1>0, <1>1, <1>3, ReadsFrame DEF RankInv
<1>6. WindowWhole(r)'
  <2>1. \A d \in Chunks : c < d => copied[r] < d
    BY <1>2, <1>c
  <2> QED
    BY <1>0, <1>1, <1>3, <2>1, SameSession DEF RankInv, WindowWhole, Held
<1>7. PartsOnDevice(r)'
  <2>1. Reliable => Held(r, c)
    BY <1>0, <1>2, <1>c DEF RankInv, WindowWhole
  <2>2. \A d \in Chunks : d <= c => d <= copied[r] \/ d = c
    BY <1>2, <1>c
  <2>3. \A p \in device'[r] : p[1] <= cuda_done[r]
    BY <1>0, <1>3, <1>c DEF RankInv, PartsOnDevice
  <2>4. Reliable => \A d \in Chunks : d <= c => <<d, r>> \in device'[r]
    BY <1>0, <1>3, <2>1, <2>2 DEF RankInv, PartsOnDevice
  <2>5. device[r] \subseteq device'[r]
    BY <1>3
  <2> QED
    BY <1>0, <1>1, <1>3, <2>3, <2>4, <2>5, SameSession DEF RankInv, PartsOnDevice
<1> QED
  BY <1>4, <1>5, <1>6, <1>7 DEF RankInv

LEMMA WaitFuncKeeps ==
  ASSUME IInv, NEW r \in Ranks, WaitFunc(r)
  PROVE  RankInv(r)'
<1>0. TypeOK /\ RankInv(r) /\ r \in AllRanks /\ session \in Sessions
  BY SessionFacts DEF IInv, TypeOK
<1>1. UNCHANGED session
  BY DEF WaitFunc
<1>2. /\ {chunk_reading[r], posted[r], chunk_read[r], cuda_done[r], copied[r], wait_done[r],
          gathered} \subseteq Int
      /\ Chunks \subseteq Int /\ cuda_done[r] \in Cursor /\ wait_done[r] \in Cursor
  BY <1>0, Types
<1>c. PICK c \in Chunks : c = wait_done[r] + 1 /\ c <= cuda_done[r]
  <2>1. wait_done[r] + 1 <= cuda_done[r]
    BY DEF WaitFunc
  <2> QED
    BY <1>2, <2>1, SizeFacts DEF Chunks
<1>3. /\ UNCHANGED <<chunk_reading[r], to_submit[r], posted[r], chunk_read[r], tasks[r],
                     inflight[r], completions[r], collected[r], unfinished[r], buffer[r],
                     cuda_done[r], copied[r], event[r], device[r], gathered>>
      /\ wait_done'[r] = c /\ EventPassed(r, event[r][WindowOf(c)])
  BY <1>0, <1>c DEF WaitFunc, postVars, readVars, TypeOK
<1>4. chunk_read[r] < c
  BY <1>0, <1>2, <1>c DEF RankInv, CursorsInOrder
<1>5. ~Backend({"cufile"}) \/ Distributed => event[r][WindowOf(c)] = c
  BY <1>0, <1>4, <1>c DEF RankInv, EventsKept
<1>6. (Distributed => c <= gathered) /\ (~Backend({"cufile"}) => c <= copied[r])
  BY <1>0, <1>2, <1>3, <1>5 DEF EventPassed, RankInv, GatherInOrder
<1>7. CursorsInOrder(r)' /\ GatherInOrder(r)' /\ EventsKept(r)'
  BY <1>0, <1>1, <1>2, <1>3, <1>4, <1>6, <1>c, SameSession
     DEF RankInv, CursorsInOrder, GatherInOrder, EventsKept, WindowOf
<1>8. /\ PlacesApart(r)' /\ ReadsUnderWay(r)' /\ CountersKept(r)'
      /\ ReadIntoWindow(r)' /\ NothingSkipped(r)'
  BY <1>0, <1>1, <1>3, ReadsFrame DEF RankInv
<1>9. WindowWhole(r)' /\ PartsOnDevice(r)'
  BY <1>0, <1>1, <1>3, DeviceFrame DEF RankInv
<1> QED
  BY <1>7, <1>8, <1>9 DEF RankInv

LEMMA AllGatherKeeps ==
  ASSUME IInv, NEW r \in Ranks, AllGather
  PROVE  RankInv(r)'
<1>0. TypeOK /\ RankInv(r) /\ r \in AllRanks /\ session \in Sessions
  BY SessionFacts DEF IInv, TypeOK
<1>1. UNCHANGED session
  BY DEF AllGather
<1>2. /\ {chunk_reading[r], posted[r], chunk_read[r], cuda_done[r], copied[r], wait_done[r],
          gathered} \subseteq Int
      /\ Chunks \subseteq Int /\ cuda_done[r] \in Cursor /\ gathered \in Cursor
  BY <1>0, Types
<1>3. \A q \in Ranks : GatherReady(q, gathered + 1)
  BY DEF AllGather
<1>c. PICK c \in Chunks : c = gathered + 1
  <2>1. gathered + 1 <= cuda_done[r]
    BY <1>3 DEF GatherReady
  <2> QED
    BY <1>2, <2>1, SizeFacts DEF Chunks
<1>4. /\ UNCHANGED <<chunk_reading[r], to_submit[r], posted[r], chunk_read[r], tasks[r],
                     inflight[r], completions[r], collected[r], unfinished[r], buffer[r],
                     cuda_done[r], copied[r], event[r], wait_done[r]>>
      /\ Distributed /\ gathered' = c
      /\ device'[r] = device[r] \cup {<<c, q>> : q \in {p \in Ranks : OwnPart(p, c)}}
  BY <1>0, <1>c DEF AllGather, postVars, readVars
<1>5. CursorsInOrder(r)' /\ GatherInOrder(r)' /\ EventsKept(r)'
  BY <1>0, <1>1, <1>2, <1>3, <1>4, <1>c, SameSession
     DEF RankInv, CursorsInOrder, GatherInOrder, EventsKept, WindowOf, GatherReady
<1>6. /\ PlacesApart(r)' /\ ReadsUnderWay(r)' /\ CountersKept(r)'
      /\ ReadIntoWindow(r)' /\ NothingSkipped(r)'
  BY <1>0, <1>1, <1>4, ReadsFrame DEF RankInv
<1>7. WindowWhole(r)'
  BY <1>0, <1>1, <1>4, SameSession DEF RankInv, WindowWhole, Held
<1>8. PartsOnDevice(r)'
  <2>1. ASSUME Reliable, NEW q \in Ranks PROVE OwnPart(q, c)
    <3>1. WindowWhole(q) /\ PartsOnDevice(q) /\ GatherReady(q, c)
      BY <1>3, <1>c DEF IInv, RankInv
    <3> QED
      BY <2>1, <3>1 DEF WindowWhole, PartsOnDevice, GatherReady, OwnPart
  <2>2. \A d \in Chunks : d <= c => d <= gathered \/ d = c
    BY <1>2, <1>c
  <2>3. device[r] \subseteq device'[r]
    BY <1>4
  <2>4. \A p \in device'[r] : p[1] <= cuda_done[r]
    BY <1>0, <1>3, <1>4, <1>c DEF RankInv, PartsOnDevice, GatherReady
  <2>5. ASSUME Reliable, NEW d \in Chunks, NEW q \in Ranks, d <= c
        PROVE  <<d, q>> \in device'[r]
    BY <1>0, <1>4, <2>1, <2>2, <2>3, <2>5 DEF RankInv, PartsOnDevice
  <2>6. Reliable /\ ~Backend({"cufile"}) => \A d \in Chunks : d <= copied[r] => <<d, r>> \in device'[r]
    BY <1>0, <2>3 DEF RankInv, PartsOnDevice
  <2> QED
    BY <1>1, <1>4, <2>4, <2>5, <2>6, SameSession DEF PartsOnDevice
<1> QED
  BY <1>5, <1>6, <1>7, <1>8 DEF RankInv
-----------------------------------------------------------------------------
(* Types.                                                                  *)

\* TypeOK but for the range of the counters, which follows from CountersKept.
ShapeOK ==
  /\ session \in Sessions
  /\ \A cursor \in {chunk_reading, posted, chunk_read, cuda_done, copied, wait_done} :
       cursor \in [AllRanks -> Cursor]
  /\ gathered \in Cursor
  /\ to_submit \in [AllRanks -> SUBSET Piece]
  /\ tasks \in [AllRanks -> Seq(Piece)]
  /\ inflight \in [AllRanks -> SUBSET Piece]
  /\ completions \in [AllRanks -> SUBSET (Piece \X BOOLEAN)]
  /\ collected \in [AllRanks -> SUBSET (Piece \X BOOLEAN)]
  /\ unfinished \in [AllRanks -> [Chunks -> Int]]
  /\ buffer \in [AllRanks -> SUBSET Piece]
  /\ failed \in [AllRanks -> BOOLEAN]
  /\ event \in [AllRanks -> [0 .. IoDepth - 1 -> Cursor]]
  /\ device \in [AllRanks -> SUBSET (Chunks \X AllRanks)]

LEMMA ShapeOfType == TypeOK => ShapeOK
<1> SUFFICES ASSUME TypeOK PROVE ShapeOK
  OBVIOUS
<1>1. unfinished \in [AllRanks -> [Chunks -> Int]]
  BY SessionFacts DEF TypeOK
<1> QED
  BY <1>1 DEF TypeOK, ShapeOK

LEMMA LoaderTypes ==
  ASSUME IInv, NEW r \in Ranks,
         BeginPost(r) \/ SubmitRead(r) \/ HandOver(r) \/ Reap(r)
  PROVE  ShapeOK'
<1>0. ShapeOK /\ TypeOK /\ RankInv(r) /\ r \in AllRanks /\ session \in Sessions
  BY SessionFacts, ShapeOfType DEF IInv, TypeOK
<1>1. Chunks \subseteq Cursor
  BY DEF Cursor
<1>2. CASE BeginPost(r)
  <2>1. PICK c \in Chunks : c = chunk_reading[r] + 1
    BY <1>2 DEF BeginPost
  <2>2. ReadsOf(r, c) \subseteq Piece /\ InitialCount(r, c) \in Int
    BY <1>0, SessionFacts, ReadsOfChunk DEF InitialCount
  <2>3. unfinished' \in [AllRanks -> [Chunks -> Int]]
    BY <1>0, <1>2, <2>1, <2>2 DEF BeginPost, ShapeOK
  <2>4. to_submit' \in [AllRanks -> SUBSET Piece] /\ chunk_reading' \in [AllRanks -> Cursor]
    BY <1>0, <1>1, <1>2, <2>1, <2>2 DEF BeginPost, ShapeOK
  <2> QED
    BY <1>0, <1>2, <2>3, <2>4, SameSession DEF BeginPost, ShapeOK, deviceVars
<1>3. CASE SubmitRead(r)
  <2> DEFINE y == CHOOSE y \in to_submit[r] : \A z \in to_submit[r] : y[2] <= z[2]
  <2>1. y \in to_submit[r]
    <3> DEFINE T == {x[2] : x \in to_submit[r]}
    <3>1. T \subseteq Nat
      BY <1>0, Types, SessionFacts DEF Piece
    <3>2. T # {}
      BY <1>3 DEF SubmitRead
    <3>3. PICK m \in T : \A n \in T : m <= n
      BY <3>1, <3>2, Least
    <3> QED
      BY <3>3
  <2>2. /\ to_submit' = [to_submit EXCEPT ![r] = @ \ {y}]
        /\ \/ tasks' = [tasks EXCEPT ![r] = Append(@, y)] /\ inflight' = inflight
           \/ tasks' = tasks /\ inflight' = [inflight EXCEPT ![r] = @ \cup {y}]
        /\ UNCHANGED <<session, chunk_reading, posted, chunk_read, completions, collected,
                       unfinished, buffer, failed, deviceVars>>
    BY <1>3 DEF SubmitRead
  <2>3. y \in Piece
    BY <1>0, <2>1 DEF ShapeOK
  <2> HIDE DEF y
  <2>4. to_submit' \in [AllRanks -> SUBSET Piece]
    BY <1>0, <2>2 DEF ShapeOK
  <2>5. tasks' \in [AllRanks -> Seq(Piece)]
    <3>1. tasks[r] \in Seq(Piece) /\ tasks \in [AllRanks -> Seq(Piece)]
      BY <1>0 DEF ShapeOK
    <3>2. Append(tasks[r], y) \in Seq(Piece)
      BY <2>3, <3>1
    <3> QED
      BY <2>2, <3>1, <3>2
  <2>6. inflight' \in [AllRanks -> SUBSET Piece]
    <3>1. inflight \in [AllRanks -> SUBSET Piece]
      BY <1>0 DEF ShapeOK
    <3> QED
      BY <2>2, <2>3, <3>1
  <2> QED
    BY <1>0, <2>2, <2>4, <2>5, <2>6, SameSession DEF ShapeOK, deviceVars
<1>4. CASE HandOver(r)
  <2>1. chunk_reading[r] \in Cursor /\ WindowOf(chunk_reading[r]) \in 0 .. IoDepth - 1
    BY <1>0, Types, WindowRange
  <2>2. posted' \in [AllRanks -> Cursor] /\ cuda_done' \in [AllRanks -> Cursor]
    BY <1>0, <1>4, <2>1 DEF HandOver, Enqueue, ShapeOK, deviceVars
  <2>3. event' \in [AllRanks -> [0 .. IoDepth - 1 -> Cursor]]
    <3>1. event' = event
          \/ event' = [event EXCEPT ![r][WindowOf(chunk_reading[r])] = chunk_reading[r]]
      BY <1>4 DEF HandOver, Enqueue, deviceVars
    <3>2. event \in [AllRanks -> [0 .. IoDepth - 1 -> Cursor]]
      BY <1>0 DEF ShapeOK
    <3> DEFINE w == WindowOf(chunk_reading[r])
               c == chunk_reading[r]
    <3>3. w \in 0 .. IoDepth - 1 /\ c \in Cursor /\ r \in AllRanks
      BY <1>0, <2>1
    <3>4. event' = event \/ event' = [event EXCEPT ![r][w] = c]
      BY <3>1
    <3> HIDE DEF w, c
    <3>5. [event[r] EXCEPT ![w] = c] \in [0 .. IoDepth - 1 -> Cursor]
      BY <3>2, <3>3
    <3>6. CASE event' = [event EXCEPT ![r][w] = c]
      <4>1. event' = [event EXCEPT ![r] = [event[r] EXCEPT ![w] = c]]
        BY <3>6
      <4> QED
        BY <3>2, <3>5, <4>1
    <3> QED
      BY <3>2, <3>4, <3>6
  <2> QED
    BY <1>0, <1>4, <2>2, <2>3, SameSession DEF HandOver, Enqueue, ShapeOK, deviceVars, readVars
<1>5. CASE Reap(r)
  <2>1. chunk_read[r] + 1 \in Cursor
    BY <1>0, <1>5, Types, SizeFacts DEF Reap
  <2>2. chunk_read' \in [AllRanks -> Cursor]
    BY <1>0, <1>5, <2>1 DEF Reap, ShapeOK
  <2> QED
    BY <1>0, <1>5, <2>2, SameSession DEF Reap, ShapeOK, readVars, deviceVars
<1> QED
  BY <1>2, <1>3, <1>4, <1>5

LEMMA OtherTypes ==
  ASSUME IInv, NEW r \in Ranks,
         \/ StartTask(r) \/ CudaFuncEnd(r) \/ CudaFuncThrows(r)
         \/ StreamCopy(r) \/ WaitFunc(r)
         \/ \E x \in inflight[r], whole \in BOOLEAN : CompleteRead(r, x, whole)
         \/ \E S \in SUBSET completions[r] : Collect(r, S)
  PROVE  ShapeOK'
<1>0. ShapeOK /\ TypeOK /\ RankInv(r) /\ r \in AllRanks /\ session \in Sessions
  BY SessionFacts, ShapeOfType DEF IInv, TypeOK
<1>1. /\ {chunk_reading[r], posted[r], chunk_read[r], cuda_done[r], copied[r], wait_done[r],
          gathered} \subseteq Cursor
      /\ \A c \in Cursor, d \in Cursor : c + 1 <= d => c + 1 \in Cursor /\ c + 1 \in Chunks
  BY <1>0, Types, SizeFacts DEF Chunks
<1>2. CASE StartTask(r)
  <2>1. Head(tasks[r]) \in Piece /\ Tail(tasks[r]) \in Seq(Piece)
    BY <1>0, <1>2 DEF StartTask, ShapeOK
  <2>2. tasks' \in [AllRanks -> Seq(Piece)] /\ inflight' \in [AllRanks -> SUBSET Piece]
    BY <1>0, <1>2, <2>1 DEF StartTask, ShapeOK
  <2> QED
    BY <1>0, <1>2, <2>2, SameSession DEF StartTask, ShapeOK, postVars, deviceVars
<1>3. ASSUME NEW x \in inflight[r], NEW whole \in BOOLEAN, CompleteRead(r, x, whole)
      PROVE  ShapeOK'
  <2>1. x \in Piece /\ <<x, whole>> \in Piece \X BOOLEAN
    BY <1>0 DEF ShapeOK
  <2>2. inflight' \in [AllRanks -> SUBSET Piece]
    BY <1>0, <1>3 DEF CompleteRead, ShapeOK
  <2>3. completions' \in [AllRanks -> SUBSET (Piece \X BOOLEAN)]
    BY <1>0, <1>3, <2>1 DEF CompleteRead, ShapeOK
  <2>4. buffer' \in [AllRanks -> SUBSET Piece]
    BY <1>0, <1>3, <2>1 DEF CompleteRead, ShapeOK
  <2> QED
    BY <1>0, <1>3, <2>2, <2>3, <2>4, SameSession DEF CompleteRead, ShapeOK, postVars, deviceVars
<1>4. ASSUME NEW S \in SUBSET completions[r], Collect(r, S)
      PROVE  ShapeOK'
  <2>1. S \subseteq Piece \X BOOLEAN
    BY <1>0 DEF ShapeOK
  <2>2. completions' \in [AllRanks -> SUBSET (Piece \X BOOLEAN)]
        /\ collected' \in [AllRanks -> SUBSET (Piece \X BOOLEAN)]
    <3> DEFINE Completion == Piece \X BOOLEAN
    <3>1. completions \in [AllRanks -> SUBSET Completion]
          /\ collected \in [AllRanks -> SUBSET Completion] /\ S \subseteq Completion
      BY <1>0, <2>1 DEF ShapeOK
    <3>2. completions' = [completions EXCEPT ![r] = @ \ S]
          /\ (collected' = collected \/ collected' = [collected EXCEPT ![r] = @ \cup S])
      BY <1>4 DEF Collect
    <3> HIDE DEF Completion
    <3>3. completions' \in [AllRanks -> SUBSET Completion]
          /\ collected' \in [AllRanks -> SUBSET Completion]
      BY <3>1, <3>2
    <3> QED
      BY <3>3 DEF Completion
  <2>3. \A d \in Chunks : Cardinality({y \in S : y[1][1] = d}) \in Int
    <3> SUFFICES ASSUME NEW d \in Chunks PROVE Cardinality({y \in S : y[1][1] = d}) \in Int
      OBVIOUS
    <3> DEFINE own == {y \in S : y[1][1] = d}
    <3>1. ReadsIn(own) \subseteq PendingOf(r, d) /\ Cardinality(ReadsIn(own)) = Cardinality(own)
      BY <1>0, CompletionsOf DEF RankInv
    <3>2. IsFiniteSet(PendingOf(r, d))
      BY <1>0, PendingBounds DEF RankInv
    <3> HIDE DEF own
    <3>3. IsFiniteSet(ReadsIn(own))
      BY <3>1, <3>2, FS_Subset
    <3>4. Cardinality(own) \in Nat
      BY <3>1, <3>3, FS_CardinalityType
    <3> QED
      BY <3>4 DEF own
  <2>4. unfinished' \in [AllRanks -> [Chunks -> Int]]
    <3>1. CASE unfinished' = unfinished
      BY <1>0, <3>1 DEF ShapeOK
    <3>2. CASE unfinished' = Counted(r, S, cuda_done[r] + 1)
      <4> DEFINE counts == [d \in Chunks |->
                              unfinished[r][d] - Cardinality({y \in S : y[1][1] = d})]
      <4>1. unfinished \in [AllRanks -> [Chunks -> Int]]
        BY <1>0 DEF ShapeOK
      <4>2. counts \in [Chunks -> Int]
        BY <1>0, <2>3, <4>1
      <4>3. unfinished' = [unfinished EXCEPT ![r] = counts]
        BY <3>2, <4>1 DEF Counted
      <4> HIDE DEF counts
      <4> QED
        BY <4>1, <4>2, <4>3
    <3> QED
      BY <1>4, <3>1, <3>2 DEF Collect
  <2> QED
    BY <1>0, <1>4, <2>2, <2>4, SameSession DEF Collect, ShapeOK, postVars, deviceVars
<1>5. CASE CudaFuncEnd(r)
  <2>1. cuda_done[r] + 1 \in Cursor /\ WindowOf(cuda_done[r] + 1) \in 0 .. IoDepth - 1
    <3>1. cuda_done[r] + 1 <= posted[r]
      BY <1>5 DEF CudaFuncEnd
    <3>2. cuda_done[r] + 1 \in Cursor /\ cuda_done[r] + 1 \in Int
      BY <1>1, <3>1, SizeFacts
    <3> QED
      BY <3>2, WindowRange
  <2>2. cuda_done' \in [AllRanks -> Cursor]
    BY <1>0, <1>5, <2>1 DEF CudaFuncEnd, Enqueue, ShapeOK
  <2>3. event' \in [AllRanks -> [0 .. IoDepth - 1 -> Cursor]]
    BY <1>0, <1>5, <2>1 DEF CudaFuncEnd, Enqueue, ShapeOK
  <2>4. collected' \in [AllRanks -> SUBSET (Piece \X BOOLEAN)]
    BY <1>0, <1>5 DEF CudaFuncEnd, ShapeOK
  <2> QED
    BY <1>0, <1>5, <2>2, <2>3, <2>4, SameSession DEF CudaFuncEnd, Enqueue, ShapeOK, postVars
<1>6. CASE CudaFuncThrows(r)
  BY <1>0, <1>6, SameSession DEF CudaFuncThrows, ShapeOK, postVars, deviceVars
<1>7. CASE StreamCopy(r)
  <2>1. copied[r] + 1 \in Cursor /\ copied[r] + 1 \in Chunks
    BY <1>1, <1>7 DEF StreamCopy
  <2>2. copied' \in [AllRanks -> Cursor] /\ device' \in [AllRanks -> SUBSET (Chunks \X AllRanks)]
    BY <1>0, <1>7, <2>1 DEF StreamCopy, ShapeOK
  <2> QED
    BY <1>0, <1>7, <2>2, SameSession DEF StreamCopy, ShapeOK, postVars, readVars
<1>8. CASE WaitFunc(r)
  <2>1. wait_done[r] + 1 \in Cursor
    BY <1>1, <1>8 DEF WaitFunc
  <2>2. wait_done' \in [AllRanks -> Cursor]
    BY <1>0, <1>8, <2>1 DEF WaitFunc, ShapeOK
  <2> QED
    BY <1>0, <1>8, <2>2, SameSession DEF WaitFunc, ShapeOK, postVars, readVars
<1> QED
  BY <1>2, <1>3, <1>4, <1>5, <1>6, <1>7, <1>8

LEMMA GatherTypes ==
  ASSUME IInv, AllGather
  PROVE  ShapeOK'
<1>0. ShapeOK /\ TypeOK /\ session \in Sessions
  BY ShapeOfType DEF IInv, TypeOK
<1>1. 0 \in Ranks /\ Ranks \subseteq AllRanks
  BY <1>0, SessionFacts DEF Ranks
<1>2. gathered + 1 <= cuda_done[0]
  BY <1>1 DEF AllGather, GatherReady
<1>3. gathered + 1 \in Cursor /\ gathered + 1 \in Chunks
  BY <1>0, <1>1, <1>2, Types, SizeFacts DEF Chunks
<1>4. gathered' \in Cursor
  BY <1>3 DEF AllGather
<1>5. device' \in [AllRanks -> SUBSET (Chunks \X AllRanks)]
  BY <1>0, <1>1, <1>3 DEF AllGather, ShapeOK
<1> QED
  BY <1>0, <1>4, <1>5, SameSession DEF AllGather, ShapeOK, postVars, readVars
-----------------------------------------------------------------------------
(* The invariant.                                                          *)

Inductive ==
  /\ ShapeOK
  /\ \A r \in Ranks : RankInv(r)
  /\ \A r \in AllRanks \ Ranks : OutsideGroup(r)

\* The counters are in range because they count reads of one chunk.
LEMMA InductiveIInv == Inductive => IInv
<1> SUFFICES ASSUME Inductive PROVE IInv
  OBVIOUS
<1>0. ShapeOK /\ session \in Sessions /\ NumThreads \in Nat
  BY SessionFacts DEF Inductive, ShapeOK
<1>1. ASSUME NEW r \in AllRanks, NEW c \in Chunks PROVE unfinished[r][c] \in 0 .. NumThreads
  <2>1. CASE r \in Ranks
    <3>1. ReadsUnderWay(r) /\ CountersKept(r)
      BY <2>1 DEF Inductive, RankInv
    <3>2. Cardinality(PendingOf(r, c)) \in 0 .. NumThreads
      BY <1>0, <2>1, <3>1, PendingBounds
    <3>3. 0 \in 0 .. NumThreads
      BY <1>0
    <3> QED
      BY <3>1, <3>2, <3>3 DEF CountersKept
  <2>2. CASE r \notin Ranks
    BY <1>0, <2>2 DEF Inductive, OutsideGroup
  <2> QED
    BY <2>1, <2>2
<1>2. unfinished \in [AllRanks -> [Chunks -> 0 .. NumThreads]]
  <2>1. unfinished \in [AllRanks -> [Chunks -> Int]]
    BY <1>0 DEF ShapeOK
  <2>2. \A r \in AllRanks : unfinished[r] \in [Chunks -> 0 .. NumThreads]
    BY <1>1, <2>1
  <2> QED
    BY <2>1, <2>2
<1>3. TypeOK
  BY <1>0, <1>2 DEF ShapeOK, TypeOK
<1> QED
  BY <1>3 DEF Inductive, IInv

LEMMA InitIInv == Init => IInv
<1> SUFFICES ASSUME Init PROVE Inductive
  BY InductiveIInv
<1>0. session \in Sessions /\ Ranks \subseteq AllRanks
  BY SessionFacts DEF Init
<1>1. ShapeOK
  <2>1. NoChunk \in Cursor /\ <<>> \in Seq(Piece)
    BY DEF Cursor
  <2> QED
    BY <2>1 DEF Init, ShapeOK
<1>2. ASSUME NEW r \in AllRanks
      PROVE  /\ chunk_reading[r] = -1 /\ posted[r] = -1 /\ chunk_read[r] = -1 /\ cuda_done[r] = -1
             /\ copied[r] = -1 /\ wait_done[r] = -1 /\ gathered = -1
             /\ to_submit[r] = {} /\ tasks[r] = <<>> /\ inflight[r] = {}
             /\ completions[r] = {} /\ collected[r] = {} /\ buffer[r] = {} /\ device[r] = {}
             /\ \A c \in Chunks : unfinished[r][c] = 0
  BY <1>2 DEF Init, NoChunk
<1>3. ASSUME NEW r \in Ranks PROVE RankInv(r)
  <2>0. r \in AllRanks
    BY <1>0
  <2> USE <1>2
  <2>1. CursorsInOrder(r) /\ GatherInOrder(r)
    <3>1. /\ chunk_reading[r] = -1 /\ posted[r] = -1 /\ chunk_read[r] = -1 /\ cuda_done[r] = -1
          /\ copied[r] = -1 /\ wait_done[r] = -1 /\ gathered = -1
      BY <2>0
    <3>2. 0 <= Depth
      BY SizeFacts
    <3> QED
      BY <3>1, <3>2 DEF CursorsInOrder, GatherInOrder
  <2>2. \A c \in Chunks : ~(c <= -1)
    BY SizeFacts
  <2>3. EventsKept(r) /\ WindowWhole(r)
    BY <2>0, <2>2 DEF EventsKept, WindowWhole
  <2>4. Queued(r) = {} /\ Pending(r) = {} /\ ReadsIn(collected[r]) = {}
        /\ \A c : PendingOf(r, c) = {}
    BY <2>0 DEF Queued, Pending, ReadsIn, PendingOf
  <2>5. PlacesApart(r) /\ ReadsUnderWay(r) /\ ReadIntoWindow(r)
    BY <2>0, <2>4 DEF PlacesApart, ReadsUnderWay, ReadIntoWindow
  <2>6. CountersKept(r)
    BY <2>0, <2>4, FS_EmptySet DEF CountersKept
  <2>7. NothingSkipped(r)
    BY <2>0, <2>2 DEF NothingSkipped
  <2>8. PartsOnDevice(r)
    BY <2>0, <2>2 DEF PartsOnDevice
  <2> QED
    BY <2>1, <2>3, <2>5, <2>6, <2>7, <2>8 DEF RankInv
<1>4. \A r \in AllRanks : OutsideGroup(r)
  BY <1>2 DEF OutsideGroup, NoChunk
<1> QED
  BY <1>1, <1>3, <1>4 DEF Inductive

LEMMA NextIInv == IInv /\ [Next]_vars => IInv'
<1> SUFFICES ASSUME IInv, [Next]_vars PROVE Inductive'
  BY InductiveIInv, PTL
<1>0. TypeOK /\ Ranks \subseteq AllRanks
  BY SessionFacts DEF IInv, TypeOK
<1>1. ASSUME NEW r \in AllRanks, Step(r) PROVE Inductive'
  <2>1. r \in Ranks /\ UNCHANGED <<session, gathered>> /\ \A q \in AllRanks \ {r} : UNCHANGED Own(q)
    BY <1>0, <1>1, OthersKept
  <2>2. RankInv(r)'
    BY <1>1, <2>1, BeginPostKeeps, SubmitReadKeeps, HandOverKeeps, ReapKeeps, StartTaskKeeps,
       CompleteReadKeeps, CollectKeeps, CudaFuncEndKeeps, CudaFuncThrowsKeeps, StreamCopyKeeps,
       WaitFuncKeeps DEF Step
  <2>3. ShapeOK'
    BY <1>1, <2>1, LoaderTypes, OtherTypes DEF Step
  <2>4. Ranks' = Ranks
    BY <2>1, SameSession
  <2>5. ASSUME NEW q \in Ranks PROVE RankInv(q)'
    BY <1>0, <2>1, <2>2, SameRank DEF IInv
  <2>6. ASSUME NEW q \in AllRanks \ Ranks PROVE OutsideGroup(q)'
    BY <2>1, SameRank DEF IInv
  <2> QED
    BY <2>3, <2>4, <2>5, <2>6 DEF Inductive
<1>2. CASE AllGather
  <2>1. Ranks' = Ranks
    BY <1>2, SameSession DEF AllGather
  <2>2. \A q \in AllRanks : OutsideGroup(q) => OutsideGroup(q)'
    BY <1>2 DEF AllGather, postVars, readVars, OutsideGroup
  <2> QED
    BY <1>2, <2>1, <2>2, AllGatherKeeps, GatherTypes DEF IInv, Inductive
<1>3. CASE UNCHANGED vars
  <2>1. UNCHANGED <<session, gathered>> /\ \A q \in AllRanks : UNCHANGED Own(q)
    BY <1>3 DEF vars, postVars, readVars, deviceVars, Own
  <2>2. Ranks' = Ranks
    BY <2>1, SameSession
  <2>3. ShapeOK'
    BY <1>0, <1>3, <2>1, ShapeOfType, SameSession
       DEF vars, postVars, readVars, deviceVars, ShapeOK
  <2> QED
    BY <1>0, <2>1, <2>2, <2>3, SameRank DEF IInv, Inductive
<1> QED
  BY <1>1, <1>2, <1>3, StepCases

-----------------------------------------------------------------------------
(* What follows.                                                           *)

\* Every variable keeps its type: no cursor of the loader thread, cuda_thread,
\* the streams or wait_thread runs past the last chunk, and no counter below zero.
THEOREM TypeCorrect == Spec => []TypeOK
<1>1. IInv => TypeOK
  BY DEF IInv
<1> QED
  BY <1>1, InitIInv, NextIInv, PTL DEF Spec

\* Chunk::extra_data.unfinished_cnt counts a chunk's reads that nobody has
\* consumed, whichever cuda_func consumes the completions and on whichever thread
\* the reads are submitted.
THEOREM CountersAreExact == Spec => []CountersExact
<1>1. IInv => CountersExact
  <2> SUFFICES ASSUME IInv, Backend({"uring", "aio"}), NEW r \in Ranks, NEW c \in Chunks
               PROVE  unfinished[r][c] =
                        Cardinality({x \in to_submit[r] \cup Queued(r) \cup inflight[r]
                                             \cup {y[1] : y \in completions[r]} : x[1] = c})
    BY DEF CountersExact
  <2>1. unfinished[r][c] = Cardinality(PendingOf(r, c))
    BY DEF IInv, RankInv, CountersKept, Counting
  <2> QED
    BY <2>1 DEF PendingOf, Pending, ReadsIn
<1> QED
  BY <1>1, InitIInv, NextIInv, PTL DEF Spec
-----------------------------------------------------------------------------
(* Every rank implements ChunkStages.                                      *)

NoShortReads == ShortReadBackends \cap {"uring", "aio", "mmap"} = {}

LEMMA TrustedBackends == NoShortReads => Reliable
BY DEF NoShortReads, Reliable, Backend

Landed(r) == {c \in 0 .. chunk_reading[r] : r \in Ranks /\ OnDevice(r, c)}

\* A step of ChunkStages, spelled out.
LEMMA StageNext ==
  ASSUME NEW r,
         \/ UNCHANGED <<chunk_reading[r], wait_done[r], chunk_read[r], Landed(r)>>
         \/ /\ chunk_reading[r] + 1 < NumChunks /\ chunk_reading[r] - chunk_read[r] < Depth
            /\ chunk_reading[r]' = chunk_reading[r] + 1
            /\ UNCHANGED <<wait_done[r], chunk_read[r], Landed(r)>>
         \/ /\ \E c \in (0 .. chunk_reading[r]) \ Landed(r) :
                 c \in 0 .. NumChunks - 1 /\ Landed(r)' = Landed(r) \cup {c}
            /\ UNCHANGED <<chunk_reading[r], wait_done[r], chunk_read[r]>>
         \/ /\ wait_done[r] + 1 \in Landed(r) /\ wait_done[r]' = wait_done[r] + 1
            /\ UNCHANGED <<chunk_reading[r], chunk_read[r], Landed(r)>>
         \/ /\ chunk_read[r] < wait_done[r] /\ chunk_read[r]' = chunk_read[r] + 1
            /\ UNCHANGED <<chunk_reading[r], wait_done[r], Landed(r)>>
  PROVE  [Stages(r)!Next]_(Stages(r)!vars)
BY DEF Stages!Next, Stages!vars, Stages!Post, Stages!Land, Stages!Report, Stages!Reap, Landed
\* Ranks other than the only one there are only in a group.
LEMMA OnlyRank ==
  ASSUME session \in Sessions, ~Distributed, NEW r \in Ranks
  PROVE  r = 0 /\ Ranks \ {r} = {}
BY SessionFacts DEF Distributed, Ranks

LEMMA LandedElement ==
  ASSUME TypeOK, NEW r \in AllRanks, NEW d
  PROVE  d \in Landed(r) <=> /\ r \in Ranks /\ d \in Int /\ 0 <= d /\ d <= chunk_reading[r]
                             /\ OnDevice(r, d)
<1>1. chunk_reading[r] \in Int
  BY Types
<1> QED
  BY <1>1 DEF Landed

\* A step that puts the data of one chunk on the device, or of none.
LEMMA LandOrStutter ==
  ASSUME TypeOK, NEW r \in Ranks, NEW c \in Chunks, c <= chunk_reading[r],
         UNCHANGED <<session, chunk_reading[r], wait_done[r], chunk_read[r]>>,
         \A d \in Chunks \ {c} : OnDevice(r, d)' <=> OnDevice(r, d),
         OnDevice(r, c) => OnDevice(r, c)'
  PROVE  [Stages(r)!Next]_(Stages(r)!vars)
<1>0. r \in AllRanks /\ r \in Ranks' /\ chunk_reading[r] \in Cursor /\ c \in Int /\ 0 <= c
  <2>1. r \in AllRanks
    BY SessionFacts DEF TypeOK
  <2> QED
    BY <2>1, Types, SameSession, SizeFacts
<1>1. 0 .. chunk_reading[r] \subseteq Chunks /\ Chunks = 0 .. NumChunks - 1
  BY <1>0, SizeFacts DEF Chunks
<1>2. \A d : d \in Landed(r) <=> d \in 0 .. chunk_reading[r] /\ OnDevice(r, d)
  BY DEF Landed
<1>3. \A d : d \in Landed(r)' <=> d \in 0 .. chunk_reading[r] /\ OnDevice(r, d)'
  BY <1>0 DEF Landed
<1>4. c \in 0 .. chunk_reading[r]
  BY <1>0, <1>1, SizeFacts
<1>5. CASE OnDevice(r, c)' <=> OnDevice(r, c)
  <2>1. Landed(r)' = Landed(r)
    BY <1>1, <1>2, <1>3, <1>5
  <2> QED
    BY <2>1, StageNext
<1>6. CASE OnDevice(r, c)' /\ ~OnDevice(r, c)
  <2>1. Landed(r)' = Landed(r) \cup {c} /\ c \notin Landed(r)
    BY <1>1, <1>2, <1>3, <1>4, <1>6
  <2> QED
    BY <2>1, <1>1, <1>4, StageNext
<1> QED
  BY <1>5, <1>6

\* What is on the device depends on the cuFile reads and the device alone.
LEMMA SameOnDevice ==
  ASSUME NEW r \in AllRanks,
         UNCHANGED <<session, device[r]>>,
         ~Backend({"cufile"}) \/ UNCHANGED buffer[r]
  PROVE  \A d : OnDevice(r, d)' <=> OnDevice(r, d)
BY SameSession DEF OnDevice, OwnPart, Held

\* A step that changes neither is a stutter, if the cursors stay as well.
LEMMA NothingLands ==
  ASSUME NEW r \in AllRanks,
         UNCHANGED <<session, chunk_reading[r], wait_done[r], chunk_read[r], device[r]>>,
         ~Backend({"cufile"}) \/ UNCHANGED buffer[r]
  PROVE  [Stages(r)!Next]_(Stages(r)!vars)
<1>1. Landed(r)' = Landed(r)
  BY SameSession, SameOnDevice DEF Landed
<1> QED
  BY <1>1, StageNext
\* No part of a chunk is on the device before the chunk is posted.
LEMMA NotPostedNotLanded ==
  ASSUME IInv, NEW r \in Ranks, NEW c \in Chunks, chunk_reading[r] < c
  PROVE  ~OnDevice(r, c)
<1>0. TypeOK /\ RankInv(r) /\ r \in AllRanks /\ session \in Sessions
  BY SessionFacts DEF IInv, TypeOK
<1>1. /\ {chunk_reading[r], posted[r], cuda_done[r]} \subseteq Int /\ c \in Int
  BY <1>0, Types
<1>2. cuda_done[r] < c
  BY <1>0, <1>1 DEF RankInv, CursorsInOrder
<1>3. \A q : <<c, q>> \notin device[r]
  BY <1>0, <1>1, <1>2 DEF RankInv, PartsOnDevice
<1>4. CASE ~Backend({"cufile"})
  BY <1>3, <1>4 DEF OnDevice, OwnPart
<1>5. CASE Distributed
  <2>1. \E q \in Ranks : q # r
    BY <1>0, <1>5, SessionFacts DEF Distributed, Ranks
  <2> QED
    BY <2>1, <1>3 DEF OnDevice
<1>6. CASE Backend({"cufile"}) /\ ~Distributed
  <2>1. ReadsOf(r, c) # {}
    BY <1>0, <1>6, FirstReadExists, OnlyRank DEF Backend
  <2>2. \A x \in ReadsOf(r, c) : x[1] = c
    BY <1>0, ReadsOfChunk
  <2>3. \A x \in buffer[r] : x[1] <= chunk_reading[r]
    BY <1>0 DEF RankInv, ReadIntoWindow
  <2>4. ~Held(r, c)
    BY <2>1, <2>2, <2>3, <1>1 DEF Held
  <2> QED
    BY <2>4, <1>6 DEF OnDevice, OwnPart
<1> QED
  BY <1>4, <1>5, <1>6

LEMMA BeginPostStages ==
  ASSUME IInv, NEW r \in Ranks, BeginPost(r)
  PROVE  [Stages(r)!Next]_(Stages(r)!vars)
<1>0. TypeOK /\ r \in AllRanks
  BY SessionFacts DEF IInv, TypeOK
<1>1. PICK c \in Chunks : c = chunk_reading[r] + 1 /\ chunk_read[r] >= c - Depth
  BY DEF BeginPost
<1>2. /\ chunk_reading[r] \in Cursor /\ chunk_read[r] \in Int /\ Depth \in Int /\ c \in Int
      /\ chunk_reading[r] \in Int
  BY <1>0, Types, SizeFacts
<1>3. /\ UNCHANGED <<session, wait_done[r], chunk_read[r], device[r], buffer[r]>>
      /\ chunk_reading[r]' = c
  BY <1>0, <1>1 DEF BeginPost, deviceVars, TypeOK
<1>4. \A d : OnDevice(r, d)' <=> OnDevice(r, d)
  BY <1>0, <1>3, SameOnDevice
<1>5. ~OnDevice(r, c)
  BY <1>1, <1>2, NotPostedNotLanded
<1>6. 0 .. c = (0 .. chunk_reading[r]) \cup {c}
  BY <1>1, <1>2, SizeFacts
<1>7. Ranks' = Ranks
  BY <1>3, SameSession
<1>8. \A d : d \in Landed(r)' <=> d \in Landed(r)
  BY <1>3, <1>4, <1>5, <1>6, <1>7 DEF Landed
<1>9. Landed(r)' = Landed(r)
  BY <1>8 DEF Landed
<1>10. chunk_reading[r] + 1 < NumChunks /\ chunk_reading[r] - chunk_read[r] < Depth
  BY <1>1, <1>2, SizeFacts DEF Chunks
<1> QED
  BY <1>1, <1>3, <1>9, <1>10, StageNext

\* With cuFile a completed read is on the device; the others read into a window.
LEMMA CompleteReadStages ==
  ASSUME IInv, NEW r \in Ranks, NEW x \in inflight[r], NEW whole \in BOOLEAN,
         CompleteRead(r, x, whole)
  PROVE  [Stages(r)!Next]_(Stages(r)!vars)
<1>0. TypeOK /\ RankInv(r) /\ r \in AllRanks /\ session \in Sessions
  BY SessionFacts DEF IInv, TypeOK
<1>1. UNCHANGED <<session, chunk_reading[r], wait_done[r], chunk_read[r], device[r]>>
  BY DEF CompleteRead, postVars, deviceVars
<1>2. CASE ~Backend({"cufile"})
  BY <1>0, <1>1, <1>2, NothingLands
<1>3. CASE Backend({"cufile"})
  <2>c. PICK c \in Chunks : c = x[1] /\ c <= chunk_reading[r]
    BY <1>0, Types DEF RankInv, ReadsUnderWay, Pending
  <2>1. ~Staged
    BY <1>3 DEF Staged, Backend
  <2>2. buffer'[r] = IF whole THEN buffer[r] \cup {x} ELSE buffer[r]
    BY <1>0, <2>1 DEF CompleteRead, TypeOK
  <2>3. \A d \in Chunks : x \notin ReadsOf(r, d) \/ d = c
    BY <1>0, <2>c, ReadsOfChunk
  <2>4. /\ \A d \in Chunks \ {c} : Held(r, d)' <=> Held(r, d)
        /\ Held(r, c) => Held(r, c)'
    BY <1>1, <2>2, <2>3, SameSession DEF Held
  <2>5. /\ \A d \in Chunks \ {c} : OnDevice(r, d)' <=> OnDevice(r, d)
        /\ OnDevice(r, c) => OnDevice(r, c)'
    BY <1>1, <1>3, <2>4, SameSession DEF OnDevice, OwnPart
  <2> QED
    BY <1>0, <1>1, <2>c, <2>5, LandOrStutter
<1> QED
  BY <1>2, <1>3

LEMMA StreamCopyStages ==
  ASSUME IInv, NEW r \in Ranks, StreamCopy(r)
  PROVE  [Stages(r)!Next]_(Stages(r)!vars)
<1>0. TypeOK /\ RankInv(r) /\ r \in AllRanks
  BY SessionFacts DEF IInv, TypeOK
<1>1. /\ UNCHANGED <<session, chunk_reading[r], wait_done[r], chunk_read[r], buffer[r]>>
      /\ ~Backend({"cufile"}) /\ copied[r] + 1 <= cuda_done[r]
  BY DEF StreamCopy, postVars, readVars
<1>2. /\ {chunk_reading[r], posted[r], cuda_done[r]} \subseteq Int
      /\ cuda_done[r] \in Cursor /\ copied[r] \in Cursor
  BY <1>0, Types
<1>3. PICK c \in Chunks : c = copied[r] + 1
  BY <1>1, <1>2, SizeFacts DEF Chunks
<1>4. c <= chunk_reading[r]
  BY <1>0, <1>1, <1>2, <1>3, SizeFacts DEF RankInv, CursorsInOrder
<1>5. device'[r] = device[r] \/ device'[r] = device[r] \cup {<<c, r>>}
  BY <1>0, <1>3 DEF StreamCopy, TypeOK
<1>6. /\ \A d \in Chunks \ {c} : OnDevice(r, d)' <=> OnDevice(r, d)
      /\ OnDevice(r, c) => OnDevice(r, c)'
  BY <1>1, <1>5, SameSession DEF OnDevice, OwnPart
<1> QED
  BY <1>0, <1>1, <1>4, <1>6, LandOrStutter

LEMMA AllGatherStages ==
  ASSUME IInv, NEW r \in Ranks, AllGather
  PROVE  [Stages(r)!Next]_(Stages(r)!vars)
<1>0. TypeOK /\ RankInv(r) /\ r \in AllRanks
  BY SessionFacts DEF IInv, TypeOK
<1>1. /\ UNCHANGED <<session, chunk_reading[r], wait_done[r], chunk_read[r], buffer[r]>>
      /\ gathered + 1 <= cuda_done[r]
  BY DEF AllGather, GatherReady, postVars, readVars
<1>2. /\ {chunk_reading[r], posted[r], cuda_done[r]} \subseteq Int
      /\ cuda_done[r] \in Cursor /\ gathered \in Cursor
  BY <1>0, Types
<1>3. PICK c \in Chunks : c = gathered + 1
  BY <1>1, <1>2, SizeFacts DEF Chunks
<1>4. c <= chunk_reading[r]
  BY <1>0, <1>1, <1>2, <1>3, SizeFacts DEF RankInv, CursorsInOrder
<1>5. device'[r] = device[r] \cup {<<c, q>> : q \in {p \in Ranks : OwnPart(p, c)}}
  BY <1>0, <1>3 DEF AllGather
<1>6. /\ \A d \in Chunks \ {c} : \A q : <<d, q>> \in device'[r] <=> <<d, q>> \in device[r]
      /\ device[r] \subseteq device'[r]
  BY <1>5
<1>7. /\ \A d \in Chunks \ {c} : OnDevice(r, d)' <=> OnDevice(r, d)
      /\ OnDevice(r, c) => OnDevice(r, c)'
  BY <1>1, <1>6, SameSession DEF OnDevice, OwnPart, Held
<1> QED
  BY <1>0, <1>1, <1>4, <1>7, LandOrStutter
\* wait_func reports a chunk that is on the device.
LEMMA WaitFuncStages ==
  ASSUME IInv, IInv', Reliable, NEW r \in Ranks, WaitFunc(r)
  PROVE  [Stages(r)!Next]_(Stages(r)!vars)
<1>0. TypeOK /\ RankInv(r) /\ r \in AllRanks /\ session \in Sessions
  BY SessionFacts DEF IInv, TypeOK
<1>1. /\ UNCHANGED <<session, gathered, chunk_reading[r], chunk_read[r], copied[r], cuda_done[r],
                     device[r], buffer[r]>>
      /\ wait_done'[r] = wait_done[r] + 1 /\ wait_done[r] + 1 <= cuda_done[r]
  BY <1>0 DEF WaitFunc, postVars, readVars, TypeOK
<1>2. /\ {chunk_reading[r], posted[r], copied[r], cuda_done[r], gathered} \subseteq Int
      /\ cuda_done[r] \in Cursor /\ wait_done[r] \in Cursor
  BY <1>0, Types
<1>3. PICK c \in Chunks : c = wait_done[r] + 1 /\ c <= cuda_done[r]
  BY <1>1, <1>2, SizeFacts DEF Chunks
<1>4. c \in 0 .. chunk_reading[r]
  BY <1>0, <1>2, <1>3, SizeFacts DEF RankInv, CursorsInOrder, Chunks
<1>5. CursorsInOrder(r)' /\ GatherInOrder(r)'
  <2>1. r \in Ranks'
    BY <1>1, SameSession
  <2> QED
    BY <2>1 DEF IInv, RankInv
<1>6. Distributed => c <= gathered
  BY <1>1, <1>3, <1>5, SameSession DEF GatherInOrder
<1>7. ~Backend({"cufile"}) => c <= copied[r]
  BY <1>1, <1>3, <1>5, SameSession DEF CursorsInOrder
<1>8. OwnPart(r, c)
  BY <1>0, <1>3, <1>7 DEF OwnPart, RankInv, WindowWhole, PartsOnDevice
<1>9. \A q \in Ranks \ {r} : <<c, q>> \in device[r]
  BY <1>0, <1>6, OnlyRank DEF RankInv, PartsOnDevice
<1>10. c \in Landed(r)
  BY <1>4, <1>8, <1>9 DEF Landed, OnDevice
<1>11. Landed(r)' = Landed(r)
  BY <1>0, <1>1, SameSession, SameOnDevice DEF Landed
<1> QED
  BY <1>1, <1>3, <1>10, <1>11, StageNext

LEMMA ReapStages ==
  ASSUME IInv, NEW r \in Ranks, Reap(r)
  PROVE  [Stages(r)!Next]_(Stages(r)!vars)
<1>0. TypeOK /\ r \in AllRanks
  BY SessionFacts DEF IInv, TypeOK
<1>1. /\ UNCHANGED <<session, chunk_reading[r], wait_done[r], device[r], buffer[r]>>
      /\ chunk_read[r] < wait_done[r] /\ chunk_read[r]' = chunk_read[r] + 1
  BY <1>0 DEF Reap, readVars, deviceVars, TypeOK
<1>2. Landed(r)' = Landed(r)
  BY <1>0, <1>1, SameSession, SameOnDevice DEF Landed
<1> QED
  BY <1>1, <1>2, StageNext

\* What another rank does, or nobody, is a stutter.
LEMMA OtherStages ==
  ASSUME NEW q \in AllRanks, UNCHANGED <<session, Own(q)>>
  PROVE  [Stages(q)!Next]_(Stages(q)!vars)
BY NothingLands DEF Own

\* So is every step, for a rank that is not in the group.
LEMMA OutsideStages ==
  ASSUME NEW q \in AllRanks, UNCHANGED session, q \notin Ranks, OutsideGroup(q), OutsideGroup(q)'
  PROVE  [Stages(q)!Next]_(Stages(q)!vars)
<1>1. Landed(q) = {} /\ Landed(q)' = {}
  BY SameSession DEF Landed
<1> QED
  BY <1>1, StageNext DEF OutsideGroup

LEMMA StepStages ==
  ASSUME IInv, IInv', Reliable, NEW r \in Ranks, Step(r)
  PROVE  [Stages(r)!Next]_(Stages(r)!vars)
<1>0. r \in AllRanks
  BY SessionFacts DEF IInv, TypeOK
<1> USE DEF postVars, readVars, deviceVars
<1>1. CASE BeginPost(r)
  BY <1>1, BeginPostStages
<1>2. CASE SubmitRead(r)
  BY <1>0, <1>2, NothingLands DEF SubmitRead
<1>3. CASE HandOver(r)
  BY <1>0, <1>3, NothingLands DEF HandOver, Enqueue
<1>4. CASE Reap(r)
  BY <1>4, ReapStages
<1>5. CASE StartTask(r)
  BY <1>0, <1>5, NothingLands DEF StartTask
<1>6. ASSUME NEW x \in inflight[r], NEW whole \in BOOLEAN, CompleteRead(r, x, whole)
      PROVE  [Stages(r)!Next]_(Stages(r)!vars)
  BY <1>6, CompleteReadStages
<1>7. ASSUME NEW S \in SUBSET completions[r], Collect(r, S)
      PROVE  [Stages(r)!Next]_(Stages(r)!vars)
  BY <1>0, <1>7, NothingLands DEF Collect
<1>8. CASE CudaFuncEnd(r)
  BY <1>0, <1>8, NothingLands DEF CudaFuncEnd, Enqueue
<1>9. CASE CudaFuncThrows(r)
  BY <1>0, <1>9, NothingLands DEF CudaFuncThrows
<1>10. CASE StreamCopy(r)
  BY <1>10, StreamCopyStages
<1>11. CASE WaitFunc(r)
  BY <1>11, WaitFuncStages
<1> QED
  BY <1>1, <1>2, <1>3, <1>4, <1>5, <1>6, <1>7, <1>8, <1>9, <1>10, <1>11 DEF Step

LEMMA NextStages ==
  ASSUME IInv, IInv', Reliable, [Next]_vars, NEW q \in AllRanks
  PROVE  [Stages(q)!Next]_(Stages(q)!vars)
<1>0. TypeOK
  BY DEF IInv
<1>1. CASE q \notin Ranks
  <2>1. UNCHANGED session
    <3>1. CASE \E r \in AllRanks : Step(r)
      BY <1>0, <3>1, OthersKept
    <3>2. CASE AllGather
      BY <3>2 DEF AllGather
    <3>3. CASE UNCHANGED vars
      BY <3>3 DEF vars
    <3> QED
      BY <3>1, <3>2, <3>3, StepCases
  <2>2. OutsideGroup(q) /\ OutsideGroup(q)'
    <3>1. Ranks' = Ranks
      BY <2>1, SameSession
    <3>2. AllRanks' = AllRanks
      BY DEF AllRanks
    <3> QED
      BY <3>1, <1>1 DEF IInv
  <2> QED
    BY <1>1, <2>1, <2>2, OutsideStages
<1>2. ASSUME NEW r \in AllRanks, Step(r), q \in Ranks
      PROVE  [Stages(q)!Next]_(Stages(q)!vars)
  <2>1. r \in Ranks /\ UNCHANGED session /\ \A p \in AllRanks \ {r} : UNCHANGED Own(p)
    BY <1>0, <1>2, OthersKept
  <2>2. CASE q = r
    BY <1>2, <2>1, <2>2, StepStages
  <2>3. CASE q # r
    BY <2>1, <2>3, OtherStages
  <2> QED
    BY <2>2, <2>3
<1>3. CASE AllGather /\ q \in Ranks
  BY <1>3, AllGatherStages
<1>4. CASE UNCHANGED vars
  BY <1>4, OtherStages DEF vars, postVars, readVars, deviceVars, Own
<1> QED
  BY <1>1, <1>2, <1>3, <1>4, StepCases

\* Every backend keeps the promise of ChunkStages on every rank, as long as the
\* backends that do not look at the sizes of their completions are given whole
\* reads: chunks are reported in order, and only once the parts of all ranks are
\* on the device.  cuFile may read short.
THEOREM BackendsImplementStages ==
  ASSUME NoShortReads PROVE Spec => ImplementsStages
<1>1. Reliable
  BY TrustedBackends
<1>2. Init => \A r \in AllRanks : Stages(r)!Init
  <2> SUFFICES ASSUME Init, NEW r \in AllRanks PROVE Stages(r)!Init
    OBVIOUS
  <2>1. chunk_reading[r] = -1 /\ wait_done[r] = -1 /\ chunk_read[r] = -1
    BY DEF Init, NoChunk
  <2>2. 0 .. -1 = {}
    OBVIOUS
  <2> QED
    BY <2>1, <2>2 DEF Stages!Init
<1>3. IInv /\ IInv' /\ [Next]_vars =>
        [\A r \in AllRanks : [Stages(r)!Next]_(Stages(r)!vars)]_vars
  BY <1>1, NextStages
<1> QED
  BY <1>2, <1>3, InitIInv, NextIInv, PTL DEF Spec, ImplementsStages
==============================================================================
