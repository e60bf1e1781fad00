---------------------------- MODULE MCSdradThreads ----------------------------
(* Small instances of SdradThreads for TLC. *)
EXTENDS SdradThreads, TLC

CONSTANTS p1, p2, p3, p4

SymTid == Permutations(Tid)

MinusOne == -1

(* Threads in the order they are created; 0 is the one that runs main. *)
Two   == 0 .. 1
Three == 0 .. 2
Four  == 0 .. 3
Five  == 0 .. 4
=============================================================================
