------------------------------ MODULE MCChunkIO ------------------------------
(***************************************************************************)
(* Instances of ChunkIO with pages of two bytes: one rank that reads with  *)
(* two threads, or two ranks with one thread each.  The first chunk fills  *)
(* all parts; the second ends in the middle of a page; the third does, too, *)
(* and leaves the last thread or rank with less or nothing to read.        *)
(***************************************************************************)
EXTENDS ChunkIO

AllBackends == {"uring", "aio", "mmap", "mapped", "cufile"}
OneOrTwoRanks ==
  {[backend |-> b, world_size |-> w, num_threads |-> 3 - w] : b \in AllBackends, w \in {1, 2}}
AlignedAndNot == <<4, 3, 1>>
SizeOfChunk == [c \in 0 .. 2 |-> AlignedAndNot[c + 1]]
==============================================================================
