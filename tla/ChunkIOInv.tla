----------------------------- MODULE ChunkIOInv -----------------------------
(***************************************************************************)
(* The inductive invariant of ChunkIO, in named parts.  Each part speaks   *)
(* of one rank of the group.                                               *)
(***************************************************************************)
EXTENDS ChunkIO

\* The backends whose cuda_func does not look at the sizes of its reads, which the
\* code takes for whole, never see a short read.
Reliable == Backend({"uring", "aio", "mmap"}) => ~Backend(ShortReadBackends)

Counting == Backend({"uring", "aio"})

\* A completion, and the read it is the completion of.
ReadsIn(S) == {y[1] : y \in S}

\* Reads of the rank that nobody has consumed.
Pending(r) == to_submit[r] \cup Queued(r) \cup inflight[r] \cup ReadsIn(completions[r])

PendingOf(r, c) == {x \in Pending(r) : x[1] = c}

\* Cursors follow each other, and never more than Depth chunks are posted and
\* not reaped.
CursorsInOrder(r) ==
  /\ chunk_read[r] <= wait_done[r] /\ wait_done[r] <= cuda_done[r]
  /\ cuda_done[r] <= posted[r]
  /\ posted[r] <= chunk_reading[r] /\ chunk_reading[r] <= posted[r] + 1
  /\ chunk_reading[r] - chunk_read[r] <= Depth
  /\ copied[r] <= cuda_done[r]
  /\ ~Backend({"cufile"}) => wait_done[r] <= copied[r]
  /\ Backend({"mapped"}) => cuda_done[r] = posted[r]

\* The AllGather is behind the copies of all ranks, and wait_thread behind it.
GatherInOrder(r) ==
  Distributed => /\ wait_done[r] <= gathered /\ gathered <= cuda_done[r]
                 /\ ~Backend({"cufile"}) => gathered <= copied[r]

\* The event of a chunk that has not been reaped is the chunk's own.
EventsKept(r) ==
  ~Backend({"cufile"}) \/ Distributed =>
    \A c \in Chunks : chunk_read[r] < c /\ c <= cuda_done[r] => event[r][WindowOf(c)] = c

\* A read is in one place.
PlacesApart(r) ==
  /\ \A k, l \in DOMAIN tasks[r] : tasks[r][k] = tasks[r][l] => k = l
  /\ to_submit[r] \cap (Queued(r) \cup inflight[r]) = {}
  /\ Queued(r) \cap inflight[r] = {}
  /\ \A y \in completions[r] \cup collected[r] :
       y[1] \notin to_submit[r] \cup Queued(r) \cup inflight[r]
  /\ \A y, z \in completions[r] \cup collected[r] : y[1] = z[1] => y = z
  /\ completions[r] \cap collected[r] = {}

\* What is under way are reads of chunks that are being posted or have been, and
\* that cuda_func has not finished.
ReadsUnderWay(r) ==
  /\ \A x \in Pending(r) \cup ReadsIn(collected[r]) :
       /\ x \in ReadsOf(r, x[1])
       /\ cuda_done[r] < x[1] /\ x[1] <= chunk_reading[r]
  /\ \A x \in to_submit[r] : posted[r] < x[1]
  /\ collected[r] # {} => Pooled

\* unfinished_cnt is the number of a chunk's reads that nobody has consumed.
CountersKept(r) ==
  \A c \in Chunks : unfinished[r][c] = IF Counting THEN Cardinality(PendingOf(r, c)) ELSE 0

\* What has been read whole is in its window, until another chunk's turn.
ReadIntoWindow(r) ==
  /\ \A x \in buffer[r] : x[1] <= chunk_reading[r]
  /\ \A y \in completions[r] \cup collected[r] : y[2] => y[1] \in buffer[r]

\* Where sizes are not looked at reads are whole, so that with counters nothing is
\* consumed that has not been read.
NothingSkipped(r) ==
  Reliable =>
    /\ ~Backend({"cufile"}) => \A y \in completions[r] \cup collected[r] : y[2]
    /\ Counting =>
         \A c \in Chunks, x \in Piece :
           cuda_done[r] < c /\ c <= chunk_reading[r] /\ x \in ReadsOf(r, c)
             => x \in Pending(r) \cup buffer[r]

\* A window is whole from cuda_func's end until it is copied; cuFile's data stay.
WindowWhole(r) ==
  Reliable =>
    \A c \in Chunks : c <= cuda_done[r] /\ (Backend({"cufile"}) \/ copied[r] < c) => Held(r, c)

\* What is copied and gathered is on the device.
PartsOnDevice(r) ==
  /\ \A p \in device[r] : p[1] <= cuda_done[r]
  /\ Reliable =>
       /\ ~Backend({"cufile"}) => \A c \in Chunks : c <= copied[r] => <<c, r>> \in device[r]
       /\ Distributed => \A c \in Chunks, q \in Ranks : c <= gathered => <<c, q>> \in device[r]

\* A rank that is not in the group does nothing.
OutsideGroup(r) ==
  /\ chunk_reading[r] = NoChunk /\ wait_done[r] = NoChunk /\ chunk_read[r] = NoChunk
  /\ \A c \in Chunks : unfinished[r][c] = 0

RankInv(r) ==
  /\ CursorsInOrder(r) /\ GatherInOrder(r) /\ EventsKept(r)
  /\ PlacesApart(r) /\ ReadsUnderWay(r) /\ CountersKept(r)
  /\ ReadIntoWindow(r) /\ NothingSkipped(r) /\ WindowWhole(r) /\ PartsOnDevice(r)

IInv ==
  /\ TypeOK
  /\ \A r \in Ranks : RankInv(r)
  /\ \A r \in AllRanks \ Ranks : OutsideGroup(r)
==============================================================================
