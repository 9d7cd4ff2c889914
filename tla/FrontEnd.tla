------------------------------ MODULE FrontEnd ------------------------------
(***************************************************************************)
(* What safe_open.__init__ works out before a loader is opened (_impl.py): *)
(* the backend, the I/O parameters under the memory limit all ranks agree  *)
(* on, and the size of the device buffer.                                  *)
(*                                                                         *)
(* Sizes are in MiB.  An argument is what the caller passed or, when that  *)
(* is None, what the INSTANTTENSOR_* variable of the same name says.       *)
(***************************************************************************)
EXTENDS Integers, Sequences, FiniteSetsExt, SequencesExt

None == -1
OrElse(given, default) == IF given = None THEN default ELSE given

Larger(a, b) == IF a >= b THEN a ELSE b
Smaller(a, b) == IF a <= b THEN a ELSE b
-----------------------------------------------------------------------------
(* Backend selection.                                                      *)

Backends == {"AIO", "AIO_BUFFERED", "URING", "URING_BUFFERED", "CUFILE", "MMAP"}
NoBackend == "none"

default_backend == <<"URING", "AIO">>
default_buffered_io_backend == <<"URING_BUFFERED", "AIO_BUFFERED", "MMAP">>
default_in_memory_backend == <<"MMAP">>
available_in_memory_backends == {"MMAP", "URING_BUFFERED", "AIO_BUFFERED"}

\* BackendCandidate: a backend, or the policy BUFFERED.
Candidate == Backends \cup {"BUFFERED"}

\* expand_backend_candidate: the policy stands for a list.
Expand(candidates) ==
  FlattenSeq([i \in DOMAIN candidates |->
    IF candidates[i] = "BUFFERED" THEN default_buffered_io_backend ELSE <<candidates[i]>>])

\* <<>> stands for None.
Candidates(backend, in_memory) ==
  IF backend # <<>> THEN Expand(backend)
  ELSE IF in_memory THEN default_in_memory_backend ELSE default_backend

Supported(in_memory) == IF in_memory THEN available_in_memory_backends ELSE Backends

\* Mutant: the first candidate is taken although the system lacks it.
SelectUnchecked(candidates, supported, available) ==
  LET first == SelectInSeq(candidates, LAMBDA b : b \in supported)
  IN IF first = 0 THEN NoBackend ELSE candidates[first]
\* The first candidate that the filesystem supports and the system has.
select_backend(candidates, supported, available) ==
  LET first == SelectInSeq(candidates, LAMBDA b : b \in supported /\ b \in available)
  IN IF first = 0 THEN NoBackend ELSE candidates[first]
-----------------------------------------------------------------------------
(* I/O parameters.                                                         *)

DefaultParams(backend, in_memory, world_size, cpu_count) ==
  IF in_memory
    THEN [chunk_size |-> 2, io_depth |-> 3,
          concurrency |-> Larger(Smaller(32, cpu_count) \div world_size, 1)]
  ELSE IF backend = "CUFILE"
    THEN [chunk_size |-> 8, io_depth |-> 16, concurrency |-> Larger(32 \div world_size, 1)]
  ELSE [chunk_size |-> 8, io_depth |-> Larger(512 \div world_size, 3), concurrency |-> 1]

GivenParams(args, default) ==
  [chunk_size |-> OrElse(args.chunk_size, default.chunk_size),
   concurrency |-> OrElse(args.concurrency, default.concurrency),
   io_depth |-> OrElse(args.io_depth, default.io_depth)]

\* Device memory the chunks in flight take on every rank.
InFlightBytes(p, world_size) == p.chunk_size * p.concurrency * p.io_depth * world_size

\* Mutant: a rank goes by its own free memory.
OwnAvail(rank, avails) == avails[rank]
\* all_reduce with MIN.
AgreedAvail(rank, avails) == Min({avails[r] : r \in DOMAIN avails})

\* io_depth is reduced first, but not below 3 (a given 1 or 2 is raised to 3),
\* then concurrency, but not below 1.
ShrinkIoDepth(p, world_size, avail) ==
  IF InFlightBytes(p, world_size) <= avail THEN p
  ELSE [p EXCEPT !.io_depth =
          Larger(avail \div (p.chunk_size * p.concurrency * world_size), 3)]

ShrinkConcurrency(p, world_size, avail) ==
  IF InFlightBytes(p, world_size) <= avail THEN p
  ELSE [p EXCEPT !.concurrency =
          Larger(avail \div (p.chunk_size * p.io_depth * world_size), 1)]

Shrink(p, world_size, avail) ==
  ShrinkConcurrency(ShrinkIoDepth(p, world_size, avail), world_size, avail)
-----------------------------------------------------------------------------
(* Size of the device buffer.                                              *)

\* The sum of the sizes at the positions in S.
SumOf(sizes, S) ==
  LET sum[i \in 0 .. Len(sizes)] ==
        IF i = 0 THEN 0 ELSE sum[i - 1] + (IF i \in S THEN sizes[i] ELSE 0)
  IN sum[Len(sizes)]
LargestOf(sizes) == Max({sizes[i] : i \in DOMAIN sizes})

\* The buffer in which tensor i is loaded while its predecessor is in use.
ExpectedBufferSize(sizes, i) ==
  IF i = 1 THEN sizes[1] ELSE sizes[i - 1] + 2 * sizes[i]

\* The least of these sizes that lets 90% of the bytes overlap.
recommended_buffer_size_for_tensors(sizes) ==
  LET expected == {ExpectedBufferSize(sizes, i) : i \in DOMAIN sizes}
      overlapped(b) == SumOf(sizes, {i \in DOMAIN sizes : ExpectedBufferSize(sizes, i) <= b})
      least == Min({b \in expected : 10 * overlapped(b) >= 9 * SumOf(sizes, DOMAIN sizes)})
  IN Larger(least, LargestOf(sizes))

\* _determine_buffer_size: a given size is kept between the largest tensor and
\* the total.
BufferSize(given, sizes, p, world_size) ==
  IF given = None
    THEN Larger(recommended_buffer_size_for_tensors(sizes), InFlightBytes(p, world_size))
    ELSE Smaller(Larger(given, LargestOf(sizes)), SumOf(sizes, DOMAIN sizes))
==============================================================================
