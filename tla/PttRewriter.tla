------------------------------ MODULE PttRewriter ------------------------------
(***************************************************************************)
(* One PttRewriter of src/room/ptt_rewriter.rs: it puts the RTP streams of  *)
(* successive speakers one after the other in a single virtual stream.  Its *)
(* state is behind a Mutex, so every operation is one atomic step, given    *)
(* here by the state it leaves (After...) and, for rewrite, its result.     *)
(* Of the header fields it overwrites only the sequence number is kept: the *)
(* timestamp follows the same arithmetic, the SSRC is a constant.           *)
(***************************************************************************)
EXTENDS Naturals

CONSTANTS
    Users,            \* user ids
    NoOne,            \* Option::None
    SeqSpace,         \* 2^16, the range of a u16 sequence number
    require_keyframe  \* TRUE for the video rewriter, FALSE for the audio one

ASSUME RewriterAssumption ==
    /\ NoOne \notin Users
    /\ SeqSpace \in Nat /\ SeqSpace >= 2
    /\ require_keyframe \in BOOLEAN

Seq16 == 0..(SeqSpace - 1)

\* u16::wrapping_add and u16::wrapping_sub
WrappingAdd(a, b) == IF a + b < SeqSpace THEN a + b ELSE a + b - SeqSpace

WrappingSub(a, b) == IF a >= b THEN a - b ELSE a + SeqSpace - b

RewriteState ==
    [speaker : Users \cup {NoOne}, origin_base_seq : Seq16, virtual_base_seq : Seq16,
     last_virtual_seq : Seq16, awaiting_first_packet : BOOLEAN,
     pending_keyframe : BOOLEAN]

NewRewriter ==
    [speaker |-> NoOne, origin_base_seq |-> 0, virtual_base_seq |-> 0,
     last_virtual_seq |-> 0, awaiting_first_packet |-> FALSE,
     pending_keyframe |-> FALSE]

-----------------------------------------------------------------------------
\* Mutant: a switch does not ask for a keyframe.
HastySwitch(rw, u) ==
    [rw EXCEPT !.speaker = u, !.awaiting_first_packet = TRUE, !.pending_keyframe = FALSE]

\* switch_speaker: also when u is the speaker already.
AfterSwitch(rw, u) ==
    [rw EXCEPT !.speaker = u, !.awaiting_first_packet = TRUE,
               !.pending_keyframe = require_keyframe]

\* Mutant: the virtual stream starts again with every speaker.
ForgetfulClear(rw) ==
    [rw EXCEPT !.speaker = NoOne, !.awaiting_first_packet = FALSE,
               !.pending_keyframe = FALSE, !.last_virtual_seq = 0]

\* clear_speaker: what was sent last is remembered.
AfterClear(rw) ==
    [rw EXCEPT !.speaker = NoOne, !.awaiting_first_packet = FALSE,
               !.pending_keyframe = FALSE]

RewriteResult(rw, sender, keyframe) ==
    IF rw.speaker # sender THEN "Skip"
    ELSE IF rw.pending_keyframe /\ ~keyframe THEN "PendingKeyframe"
    ELSE "Ok"

\* The first packet of a speaker to arrive fixes the offset of all its packets.
Based(rw, seq) ==
    IF rw.awaiting_first_packet
    THEN [rw EXCEPT !.origin_base_seq = seq,
                    !.virtual_base_seq = WrappingAdd(rw.last_virtual_seq, 1),
                    !.awaiting_first_packet = FALSE]
    ELSE rw

\* Mutant: sequence numbers are handed out in the order of arrival.
CountedSeq(rw, seq) ==
    IF rw.virtual_base_seq = WrappingAdd(rw.last_virtual_seq, 1)
    THEN rw.virtual_base_seq
    ELSE WrappingAdd(rw.last_virtual_seq, 1)

VirtualSeq(rw, seq) ==
    WrappingAdd(WrappingSub(seq, rw.origin_base_seq), rw.virtual_base_seq)

\* rewrite, when its result is "Ok"; the packet goes out with last_virtual_seq.
AfterRewrite(rw, seq) ==
    LET based == Based(rw, seq) IN
    [based EXCEPT !.last_virtual_seq = VirtualSeq(based, seq), !.pending_keyframe = FALSE]

\* Mutant: the two bases change places.
SwappedReverse(rw, vseq) ==
    WrappingAdd(WrappingSub(vseq, rw.origin_base_seq), rw.virtual_base_seq)

\* reverse_seq: which sequence number of the speaker has become vseq.
ReverseSeq(rw, vseq) ==
    WrappingAdd(WrappingSub(vseq, rw.virtual_base_seq), rw.origin_base_seq)
=============================================================================
