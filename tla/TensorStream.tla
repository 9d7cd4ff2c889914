---------------------------- MODULE TensorStream ----------------------------
(***************************************************************************)
(* What a safe_open context promises its user (the docstrings of safe_open *)
(* and tensors()): the context is opened once and left once; in between it *)
(* hands out the tensors one by one, in the order of the files, none left  *)
(* out and none twice; and the one handed out stays what it is until the   *)
(* user asks for the next one or leaves the context.                       *)
(***************************************************************************)
EXTENDS Integers

CONSTANT NumTensors

NoTensor == -1

VARIABLES
  phase,      \* "new", "open", "closed"
  delivered,  \* number of tensors handed out so far
  current     \* the tensor the user may read, or NoTensor

vars == <<phase, delivered, current>>

Init == phase = "new" /\ delivered = 0 /\ current = NoTensor

Open ==
  /\ phase = "new"
  /\ phase' = "open"
  /\ UNCHANGED <<delivered, current>>

Deliver ==
  /\ phase = "open"
  /\ current = NoTensor
  /\ delivered < NumTensors
  /\ current' = delivered
  /\ delivered' = delivered + 1
  /\ UNCHANGED phase

\* The user asks for the next tensor, or is about to leave.
Release ==
  /\ current # NoTensor
  /\ current' = NoTensor
  /\ UNCHANGED <<phase, delivered>>

Close ==
  /\ phase = "open"
  /\ current = NoTensor
  /\ phase' = "closed"
  /\ UNCHANGED <<delivered, current>>

Next == Open \/ Deliver \/ Release \/ Close

Spec == Init /\ [][Next]_vars
=============================================================================
