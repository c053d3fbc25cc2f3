--------------------------------- MODULE MCRtx ---------------------------------
(***************************************************************************)
(* A video and an audio publisher for Rtx, and the bitrates around the powers *)
(* of two at which the exponent of a REMB changes.  Packet 9 was lost before *)
(* the subscriber came, so that packet 5 is still in the slot of 13, and has *)
(* its number.                                                               *)
(***************************************************************************)
EXTENDS Rtx
CONSTANTS v, a
About(op, p) == [op |-> op, about |-> p]
Asked == {<<About("nack", v)>>,
          <<About("remb", None), About("pli", v), About("nack", a), About("rr", None)>>,
          <<About("rr", None), About("rr", a), About("nack", v), About("pli", v), About("pli", a)>>}
BeforeIt == v :> (5..12 \ {9}) @@ a :> {}
InitialPacket == v :> 13 @@ a :> 7
FinalPacket == v :> 16 @@ a :> 8
Hints == {500000, 2 ^ 18 - 1, 2 ^ 18}
================================================================================
