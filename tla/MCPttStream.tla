------------------------------ MODULE MCPttStream ------------------------------
(***************************************************************************)
(* Model values of PttStream for TLC.  Sequence numbers have four bits; the *)
(* publishers begin near the end of the range, and the virtual stream is    *)
(* near it when they come, so that the first two packets sent take both the *)
(* original and the virtual numbers past it.                                *)
(***************************************************************************)
EXTENDS PttStream, TLC

CONSTANTS a, b

TwoUsers == {a, b}

NearTheEnd == [u \in TwoUsers |-> 14]

UserSymmetry == Permutations(TwoUsers)
=============================================================================
