----------------------------- MODULE MCManager -----------------------------
(***************************************************************************)
(* Three safe_open objects in the process of rank 0 of two: one that takes *)
(* every default, one whose files are in memory, and one that is given     *)
(* every argument.  Their host buffers have different sizes.               *)
(***************************************************************************)
EXTENDS Manager

Default == [backend |-> <<>>, chunk_size |-> None, concurrency |-> None,
            io_depth |-> None, buffer_size |-> None]
Given == [backend |-> <<"CUFILE", "BUFFERED">>, chunk_size |-> 4, concurrency |-> 4,
          io_depth |-> 2, buffer_size |-> 1]

ThreeSessions == {"disk", "memory", "given"}
ThreeArguments == [disk |-> Default, memory |-> Default, given |-> Given]
TwoTensorsOnDisk == [disk |-> <<5, 30>>, memory |-> <<7>>, given |-> <<3>>]
OneInMemory == [disk |-> FALSE, memory |-> TRUE, given |-> FALSE]
OneDevice == [disk |-> 0, memory |-> 0, given |-> 0]

\* The other rank has as much memory, or much less.
EnoughOrLittleElsewhere == {[r \in {0, 1} |-> 400], [r \in {0, 1} |-> 400 - 360 * r]}

TwoSessions == {"disk", "memory"}
TwoDevices == [disk |-> 0, memory |-> 1]
==============================================================================
