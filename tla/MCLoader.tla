------------------------------ MODULE MCLoader ------------------------------
(***************************************************************************)
(* Instances of Loader for TLC: nine chunks go through a device buffer of  *)
(* four slots more than twice, so that prefetching must stop before a      *)
(* tensor that is still held; or through one of six slots, so that more    *)
(* chunks are in flight.  Tensor 0 spans two chunks, tensors 1 and 2 share *)
(* chunk 2, tensor 3 spans three chunks, tensor 4 shares its last one.     *)
(***************************************************************************)
EXTENDS LoaderInv, TLC

NarrowSlots == 0 .. 3
WideSlots == 0 .. 5

SlotOf(c) == c % Cardinality(Slots)
RingChunkSlots == [c \in Chunks |-> {SlotOf(c)}]

RingFirst == 0 :> 0 @@ 1 :> 2 @@ 2 :> 2 @@ 3 :> 4 @@ 4 :> 6 @@ 5 :> 8
RingLast == 0 :> 1 @@ 1 :> 2 @@ 2 :> 3 @@ 3 :> 6 @@ 4 :> 7 @@ 5 :> 8
RingTensorSlots == [t \in Tensors |-> {SlotOf(c) : c \in RingFirst[t] .. RingLast[t]}]

\* The last chunk before the first one that overwrites the tensor.
RingPrefetch ==
  [t \in Tensors |->
     CHOOSE p \in RingLast[t] .. NumChunks - 1 :
       /\ \A c \in RingLast[t] + 1 .. p : SlotOf(c) \notin RingTensorSlots[t]
       /\ p = NumChunks - 1 \/ SlotOf(p + 1) \in RingTensorSlots[t]]
=============================================================================
