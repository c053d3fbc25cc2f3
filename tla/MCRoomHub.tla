------------------------------- MODULE MCRoomHub -------------------------------
(***************************************************************************)
(* Model values of RoomHub for TLC: two requests to join, of one user or of *)
(* two, for one room.                                                       *)
(***************************************************************************)
EXTENDS RoomHub, TLC

\* A DashMap of two shards, with all users in the one that is read first.
MCShard == [r \in Rooms |-> [u \in Users |-> 1]]

\* The participants, workers, addresses, users and rooms are each alike.
Alike ==
    Permutations(Participants) \cup Permutations(Workers) \cup Permutations(Addrs)
        \cup Permutations(Users) \cup Permutations(Rooms)
=============================================================================
