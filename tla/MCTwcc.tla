-------------------------------- MODULE MCTwcc --------------------------------
(***************************************************************************)
(* Small words, rings and packets of Twcc for TLC.                           *)
(***************************************************************************)
EXTENDS Twcc
Large == -6..5
Padding == [id |-> 0, data |-> <<>>]
Terminator == [id |-> 15, data |-> <<0>>]
Other(data) == [id |-> 2, data |-> data]
Sequence == [id |-> ExtId, data |-> <<>>]
\* The sequence number alone, behind padding, behind data that look like it, and behind
\* a terminator.
Shapes == {<<Sequence>>, <<Padding, Other(<<16 * ExtId + 1, 0, 3>>), Sequence>>,
           <<Terminator, Sequence>>}
Waits == {3, 9}
===============================================================================
