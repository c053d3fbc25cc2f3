------------------------------ MODULE MCPttRoom ------------------------------
(***************************************************************************)
(* Model values and symmetry of PttRoom for TLC.  Two users exercise every  *)
(* race for the floor; the third is a bystander.                            *)
(***************************************************************************)
EXTENDS PttRoom, TLC

CONSTANTS a, b, c

TwoUsers == {a, b}
ThreeUsers == {a, b, c}

ThreeUserSymmetry == Permutations(ThreeUsers)
=============================================================================
