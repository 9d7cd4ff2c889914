------------------------------ MODULE MCLayout ------------------------------
(***************************************************************************)
(* Instances of LayoutSteps for TLC: every way to spread a few tensors of given *)
(* sizes over files with given header lengths, with the smallest buffer    *)
(* the front end allows, or one as large as all tensors together.  Pages   *)
(* of four bytes and buffers of a few dozen make layers wrap around twice. *)
(***************************************************************************)
EXTENDS LayoutSteps, SequencesExt

CONSTANTS
  Headers,              \* where the data of a file may begin
  Sizes,                \* of tensors
  NumTensors,           \* bound: how many tensors there are
  MaxFiles              \* bound: how many files there are

\* A tensor that goes on with the file of the one before it.
SameFile == 0

AddTensor(offsets, tensor) ==
  LET end == Last(offsets)
      start == IF tensor.header = SameFile
                 THEN <<>> ELSE <<[file |-> end.file + 1, at |-> tensor.header]>>
      before == Last(offsets \o start)
  IN offsets \o start \o <<[before EXCEPT !.at = @ + tensor.size]>>

OffsetsOf(header, tensors) ==
  FoldLeft(AddTensor, <<[file |-> 0, at |-> header]>>, tensors)

Plus(a, b) == a + b
SizeOf(tensors) == FoldLeft(LAMBDA a, t : a + t.size, 0, tensors)
Largest(tensors) == FoldLeft(LAMBDA a, t : Larger(a, t.size), 0, tensors)

TensorLists ==
  {ts \in [1 .. NumTensors -> [size : Sizes, header : Headers \cup {SameFile}]] :
     /\ ts[1].header = SameFile
     /\ Len(SelectSeq(ts, LAMBDA t : t.header # SameFile)) < MaxFiles}

SmallestBuffer ==
  {[offsets |-> OffsetsOf(h, ts), buffer_size |-> Largest(ts)] :
     h \in Headers, ts \in TensorLists}

WholeBuffer ==
  {[offsets |-> OffsetsOf(h, ts), buffer_size |-> SizeOf(ts)] :
     h \in Headers, ts \in TensorLists}
=============================================================================
