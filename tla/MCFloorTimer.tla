----------------------------- MODULE MCFloorTimer -----------------------------
(***************************************************************************)
(* Model values and the symmetry of FloorTimer for TLC: two users, and two   *)
(* connections that act for either or both of one.  The time unit is        *)
(* about a second: T2, the ping timeout and the timer period keep the order *)
(* 30 s > 5 s > 2 s of config.rs and their remainders with respect to the   *)
(* period differ, but T2 is shortened so that several bursts fit in a run.  *)
(***************************************************************************)
EXTENDS FloorTimer, TLC

CONSTANTS a, b, c1, c2

MCUsers == {a, b}

MCConnections == {c1, c2}

Alike == Permutations(MCUsers) \cup Permutations(MCConnections)
=============================================================================
