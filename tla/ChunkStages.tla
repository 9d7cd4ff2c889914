----------------------------- MODULE ChunkStages -----------------------------
(***************************************************************************)
(* What the chunk pipeline of one rank promises, whichever backend reads   *)
(* the file (ChunkRequest in types.hpp): chunks are posted in order, at    *)
(* most Depth of them ahead of the last one reaped; their data reach the   *)
(* device in any order; they are reported in order, and only once their    *)
(* data are there; and reaping follows the reports.                        *)
(***************************************************************************)
EXTENDS Integers

CONSTANTS NumChunks, Depth

VARIABLES
  posted,    \* last chunk posted
  landed,    \* chunks whose data are on the device
  reported,  \* last chunk whose completion has been reported
  read       \* last chunk the loader thread has reaped

vars == <<posted, landed, reported, read>>

Init == posted = -1 /\ landed = {} /\ reported = -1 /\ read = -1

Post ==
  /\ posted + 1 < NumChunks
  /\ posted - read < Depth
  /\ posted' = posted + 1
  /\ UNCHANGED <<landed, reported, read>>

Land(c) ==
  /\ c \in (0 .. posted) \ landed
  /\ landed' = landed \cup {c}
  /\ UNCHANGED <<posted, reported, read>>

Report ==
  /\ reported + 1 \in landed
  /\ reported' = reported + 1
  /\ UNCHANGED <<posted, landed, read>>

Reap ==
  /\ read < reported
  /\ read' = read + 1
  /\ UNCHANGED <<posted, landed, reported>>

Next == Post \/ (\E c \in 0 .. NumChunks - 1 : Land(c)) \/ Report \/ Reap

Spec == Init /\ [][Next]_vars
==============================================================================
