----------------------------- MODULE MCSignaling -----------------------------
(***************************************************************************)
(* Connections, users and rooms for Signaling, which are interchangeable    *)
(* where no liveness is checked.                                            *)
(***************************************************************************)
EXTENDS Signaling, TLC
Alike == Permutations(Conns) \cup Permutations(Users) \cup Permutations(Rooms)
=============================================================================
