---------------------------- MODULE PttStreamProofs ----------------------------
(***************************************************************************)
(* What holds of the virtual stream for any number of users, packets, calls *)
(* and NACKs, and for every width of the sequence numbers.                  *)
(***************************************************************************)
EXTENDS PttStream, TLAPS

\* A packet of the turn that goes on stands where the rewriter's two bases put it,
\* and as long as a turn awaits its first packet it has none.
Placed ==
    \A i \in DOMAIN out :
        /\ out[i].turn <= turn
        /\ out[i].turn = turn =>
             /\ ~rw.awaiting_first_packet
             /\ out[i].seq = VirtualSeq(rw, OrigSeq(out[i].pkt))

\* A worker holds packets of its own publisher only.
OwnPackets == \A u \in Users : worker[u] # Nothing => worker[u].pkt.user = u

\* A speaker the video rewriter no longer keeps waiting for its keyframe is the one
\* whose packet was sent last.
KeyframeSeen ==
    require_keyframe /\ rw.speaker # NoOne /\ ~rw.pending_keyframe
        => out # <<>> /\ out[Len(out)].pkt.user = rw.speaker

IInv ==
    /\ TypeOK
    /\ OwnPackets
    /\ Placed
    /\ RelativeOrderIsKept
    /\ KeyframeSeen
    /\ DecodableFromKeyframe

USE RewriterAssumption, StreamAssumption DEF RewriterAssumption, StreamAssumption

-----------------------------------------------------------------------------
\* u16 arithmetic stays in the range of a u16.
LEMMA Closed ==
    ASSUME NEW a \in Seq16, NEW b \in Seq16
    PROVE  WrappingAdd(a, b) \in Seq16 /\ WrappingSub(a, b) \in Seq16
  BY DEF WrappingAdd, WrappingSub, Seq16

\* Adding and subtracting a base undo each other, and moving two numbers by the
\* same base keeps their distance, whether or not either of them wraps.
LEMMA UndoAndDistance ==
    ASSUME NEW a \in Seq16, NEW b \in Seq16, NEW base \in Seq16
    PROVE  /\ WrappingAdd(WrappingSub(a, base), base) = a
           /\ WrappingSub(WrappingAdd(a, base), base) = a
           /\ WrappingSub(WrappingAdd(a, base), WrappingAdd(b, base)) = WrappingSub(a, b)
           /\ WrappingSub(WrappingSub(a, base), WrappingSub(b, base)) = WrappingSub(a, b)
  <1> USE DEF WrappingAdd, WrappingSub, Seq16
  <1>1. WrappingAdd(WrappingSub(a, base), base) = a
    OBVIOUS
  <1>2. WrappingSub(WrappingAdd(a, base), base) = a
    OBVIOUS
  <1>3. WrappingSub(WrappingAdd(a, base), WrappingAdd(b, base)) = WrappingSub(a, b)
    OBVIOUS
  <1>4. WrappingSub(WrappingSub(a, base), WrappingSub(b, base)) = WrappingSub(a, b)
    OBVIOUS
  <1> QED
    BY <1>1, <1>2, <1>3, <1>4

\* A packet's sequence number is a u16.
LEMMA OrigType ==
    ASSUME NEW p \in Packet
    PROVE  OrigSeq(p) \in Seq16
  <1>1. p.user \in Users /\ p.n \in Places
    BY DEF Packet
  <1>2. first_seq[p.user] \in Seq16 /\ p.n \in Seq16
    BY <1>1 DEF Places, Seq16
  <1> QED
    BY <1>2, Closed DEF OrigSeq

\* reverse_seq undoes what rewrite does to a sequence number, wherever the two
\* bases lie in the range.
LEMMA ReverseUndoes ==
    ASSUME NEW r \in RewriteState, NEW s \in Seq16
    PROVE  ReverseSeq(r, VirtualSeq(r, s)) = s
  <1>1. r.origin_base_seq \in Seq16 /\ r.virtual_base_seq \in Seq16
    BY DEF RewriteState
  <1>2. WrappingSub(s, r.origin_base_seq) \in Seq16
    BY <1>1, Closed
  <1>3. ReverseSeq(r, VirtualSeq(r, s))
          = WrappingAdd(WrappingSub(s, r.origin_base_seq), r.origin_base_seq)
    BY <1>1, <1>2, UndoAndDistance DEF ReverseSeq, VirtualSeq
  <1> QED
    BY <1>1, <1>3, UndoAndDistance

\* Two packets moved by the same bases keep their distance.
LEMMA ShiftKeepsDistance ==
    ASSUME NEW r \in RewriteState, NEW s \in Seq16, NEW t \in Seq16
    PROVE  WrappingSub(VirtualSeq(r, t), VirtualSeq(r, s)) = WrappingSub(t, s)
  <1>1. r.origin_base_seq \in Seq16 /\ r.virtual_base_seq \in Seq16
    BY DEF RewriteState
  <1>2. /\ WrappingSub(s, r.origin_base_seq) \in Seq16
        /\ WrappingSub(t, r.origin_base_seq) \in Seq16
    BY <1>1, Closed
  <1>3. WrappingSub(VirtualSeq(r, t), VirtualSeq(r, s))
          = WrappingSub(WrappingSub(t, r.origin_base_seq), WrappingSub(s, r.origin_base_seq))
    BY <1>1, <1>2, UndoAndDistance DEF VirtualSeq
  <1> QED
    BY <1>1, <1>3, UndoAndDistance

\* The first packet of a turn fixes the bases, the others find them fixed.
LEMMA BasedFacts ==
    ASSUME NEW r \in RewriteState, NEW s \in Seq16
    PROVE  /\ Based(r, s) \in RewriteState
           /\ Based(r, s).speaker = r.speaker
           /\ ~Based(r, s).awaiting_first_packet
           /\ ~r.awaiting_first_packet => Based(r, s) = r
  <1>1. CASE r.awaiting_first_packet
    <2>1. 1 \in Seq16 /\ r.last_virtual_seq \in Seq16
      BY DEF Seq16, RewriteState
    <2>2. WrappingAdd(r.last_virtual_seq, 1) \in Seq16
      BY <2>1, Closed
    <2>3. Based(r, s) = [r EXCEPT !.origin_base_seq = s,
                           !.virtual_base_seq = WrappingAdd(r.last_virtual_seq, 1),
                           !.awaiting_first_packet = FALSE]
      BY <1>1 DEF Based
    <2> HIDE DEF WrappingAdd
    <2> QED
      BY <1>1, <2>2, <2>3 DEF RewriteState
  <1>2. CASE ~r.awaiting_first_packet
    BY <1>2 DEF Based, RewriteState
  <1> QED
    BY <1>1, <1>2

\* The operations keep the rewriter's fields in their ranges.
LEMMA RewriterTypes ==
    ASSUME NEW r \in RewriteState, NEW u \in Users, NEW s \in Seq16
    PROVE  /\ AfterSwitch(r, u) \in RewriteState
           /\ AfterClear(r) \in RewriteState
           /\ AfterRewrite(r, s) \in RewriteState
  <1>1. AfterSwitch(r, u) \in RewriteState /\ AfterClear(r) \in RewriteState
    BY DEF AfterSwitch, AfterClear, RewriteState
  <1>2. VirtualSeq(Based(r, s), s) \in Seq16
    BY BasedFacts, Closed DEF VirtualSeq, RewriteState
  <1>3. AfterRewrite(r, s) \in RewriteState
    <2>1. ASSUME NEW b \in RewriteState, NEW v \in Seq16
          PROVE  [b EXCEPT !.last_virtual_seq = v, !.pending_keyframe = FALSE]
                   \in RewriteState
      BY DEF RewriteState
    <2> QED
      BY <1>2, <2>1, BasedFacts DEF AfterRewrite
  <1> QED
    BY <1>1, <1>3

\* What rewrite leaves: the bases it found, unless it was the turn's first packet,
\* and the packet's place as the last one.
LEMMA RewriteFacts ==
    ASSUME NEW r \in RewriteState, NEW s \in Seq16
    PROVE  /\ AfterRewrite(r, s).speaker = r.speaker
           /\ ~AfterRewrite(r, s).awaiting_first_packet
           /\ ~AfterRewrite(r, s).pending_keyframe
           /\ AfterRewrite(r, s).last_virtual_seq = VirtualSeq(AfterRewrite(r, s), s)
           /\ ~r.awaiting_first_packet =>
                \A o \in Seq16 : VirtualSeq(AfterRewrite(r, s), o) = VirtualSeq(r, o)
  <1> DEFINE B == Based(r, s)
             A == AfterRewrite(r, s)
  <1>1. A = [B EXCEPT !.last_virtual_seq = VirtualSeq(B, s), !.pending_keyframe = FALSE]
    BY DEF AfterRewrite
  <1>2. /\ A.speaker = B.speaker /\ A.origin_base_seq = B.origin_base_seq
        /\ A.virtual_base_seq = B.virtual_base_seq
        /\ A.awaiting_first_packet = B.awaiting_first_packet
        /\ A.last_virtual_seq = VirtualSeq(B, s) /\ A.pending_keyframe = FALSE
    BY <1>1, BasedFacts DEF RewriteState
  <1> QED
    BY <1>2, BasedFacts DEF VirtualSeq

-----------------------------------------------------------------------------
\* Before the first call nothing has been sent.
LEMMA InitInv == Init => IInv
  <1> SUFFICES ASSUME Init PROVE IInv
    OBVIOUS
  <1>1. TypeOK
    <2>1. rw \in RewriteState
      <3>1. 0 \in Seq16 /\ sent_before \in Seq16
        BY DEF Seq16
      <3>2. NewRewriter \in RewriteState
        BY <3>1 DEF NewRewriter, RewriteState
      <3> QED
        BY <3>1, <3>2 DEF Init, RewriteState
    <2>2. out \in Seq(Emitted)
      BY DEF Init
    <2>3. /\ floor \in Users \cup {NoOne} /\ calls \in 0..MaxCalls /\ turn \in Nat
          /\ task \in [Tasks -> {"rest", "grant", "again", "clear"}]
      BY DEF Init
    <2>4. /\ received \in [Users -> SUBSET Places]
          /\ worker \in [Users -> Arrived \cup {Nothing}]
      BY DEF Init
    <2>5. ordered \in BOOLEAN
      BY DEF Init
    <2>6. nack = Nothing /\ answer = Nothing
      BY DEF Init
    <2> QED
      BY <2>1, <2>2, <2>3, <2>4, <2>5, <2>6 DEF TypeOK
  <1>2. OwnPackets /\ KeyframeSeen
    BY DEF Init, OwnPackets, KeyframeSeen, NewRewriter
  <1>3. DOMAIN out = {}
    BY DEF Init
  <1>4. Placed /\ RelativeOrderIsKept /\ DecodableFromKeyframe
    BY <1>3 DEF Placed, RelativeOrderIsKept, DecodableFromKeyframe
  <1> QED
    BY <1>1, <1>2, <1>4 DEF IInv

\* What the next packet of the virtual stream is.
Sent(u) == [pkt |-> worker[u].pkt, key |-> worker[u].key, turn |-> turn,
            seq |-> AfterRewrite(rw, OrigSeq(worker[u].pkt)).last_virtual_seq]

\* A packet that a worker holds is one of its publisher's, and what is sent of it
\* has a place in the range.
LEMMA SentType ==
    ASSUME TypeOK, NEW u \in Users, worker[u] # Nothing
    PROVE  /\ worker[u].pkt \in Packet /\ worker[u].key \in BOOLEAN
           /\ OrigSeq(worker[u].pkt) \in Seq16
           /\ AfterRewrite(rw, OrigSeq(worker[u].pkt)) \in RewriteState
           /\ Sent(u) \in Emitted
  <1>1. worker[u] \in Arrived
    BY DEF TypeOK
  <1>2. worker[u].pkt \in Packet /\ worker[u].key \in BOOLEAN
    BY <1>1 DEF Arrived
  <1>3. OrigSeq(worker[u].pkt) \in Seq16
    BY <1>2, OrigType
  <1>4. AfterRewrite(rw, OrigSeq(worker[u].pkt)) \in RewriteState
    BY <1>3, RewriterTypes DEF TypeOK
  <1>5. AfterRewrite(rw, OrigSeq(worker[u].pkt)).last_virtual_seq \in Seq16
    BY <1>4 DEF RewriteState
  <1> QED
    BY <1>2, <1>3, <1>4, <1>5 DEF Sent, TypeOK, Emitted

\* The three ways a worker's packet can end.
LEMMA FanOutCases ==
    ASSUME TypeOK, NEW u \in Users, FanOut(u)
    PROVE  /\ worker[u] # Nothing
           /\ worker' = [worker EXCEPT ![u] = Nothing]
           /\ UNCHANGED <<floor, task, calls, received, turn, ordered, nacks>>
           /\ \/ /\ RewriteResult(rw, u, worker[u].key) = "Ok"
                 /\ rw' = AfterRewrite(rw, OrigSeq(worker[u].pkt))
                 /\ out' = Append(out, Sent(u))
              \/ UNCHANGED <<rw, out>>
  BY DEF FanOut, Sent

\* The variables keep their types.
LEMMA TypeStep == TypeOK /\ [Next]_vars => TypeOK'
  <1> SUFFICES ASSUME TypeOK, [Next]_vars PROVE TypeOK'
    OBVIOUS
  <1>1. ASSUME NEW u \in Users, FloorRequest(u) PROVE TypeOK'
    <2>1. task' \in [Tasks -> {"rest", "grant", "again", "clear"}]
      BY <1>1 DEF FloorRequest, Turns, TypeOK
    <2>2. floor' \in Users \cup {NoOne} /\ calls' \in 0..MaxCalls
      BY <1>1 DEF FloorRequest, Calls, TypeOK
    <2> QED
      BY <1>1, <2>1, <2>2 DEF FloorRequest, Turns, TypeOK, media, nacks
  <1>2. ASSUME NEW u \in Users, FloorRelease(u) PROVE TypeOK'
    BY <1>2 DEF FloorRelease, Turns, Calls, TypeOK, Tasks, media, nacks
  <1>3. ASSUME NEW u \in Users, Switch(u) PROVE TypeOK'
    <2>1. rw' \in RewriteState
      <3>1. first_seq[u] \in Seq16
        OBVIOUS
      <3> QED
        BY <1>3, <3>1, RewriterTypes DEF Switch, TypeOK
    <2> QED
      BY <1>3, <2>1 DEF Switch, Turns, TypeOK, Tasks, media, nacks
  <1>4. ASSUME NEW t \in Tasks, Clear(t) PROVE TypeOK'
    <2>1. rw' \in RewriteState
      BY <1>4 DEF Clear, TypeOK, AfterClear, RewriteState
    <2> QED
      BY <1>4, <2>1 DEF Clear, Turns, TypeOK, Tasks, media, nacks
  <1>5. ASSUME TimerRevoke PROVE TypeOK'
    BY <1>5 DEF TimerRevoke, Turns, TypeOK, Tasks, media, nacks
  <1>6. ASSUME NEW u \in Users, NEW n \in Places, NEW key \in BOOLEAN,
               Receive(u, n, key)
        PROVE  TypeOK'
    <2>1. [pkt |-> [user |-> u, n |-> n], key |-> key] \in Arrived
      BY DEF Arrived, Packet
    <2>2. worker' \in [Users -> Arrived \cup {Nothing}]
      BY <1>6, <2>1 DEF Receive, TypeOK
    <2>3. received' \in [Users -> SUBSET Places]
      BY <1>6 DEF Receive, TypeOK
    <2> QED
      BY <1>6, <2>2, <2>3 DEF Receive, TypeOK, nacks
  <1>7. ASSUME NEW u \in Users, FanOut(u) PROVE TypeOK'
    <2>1. worker' \in [Users -> Arrived \cup {Nothing}]
      BY <1>7, FanOutCases DEF TypeOK
    <2>2. /\ rw' \in RewriteState
          /\ out' \in Seq(Emitted)
      BY <1>7, FanOutCases, SentType, SMTT(30) DEF TypeOK
    <2> QED
      BY <1>7, <2>1, <2>2, FanOutCases DEF TypeOK, nacks
  <1>8. ASSUME NEW i \in DOMAIN out, NackReverse(i) PROVE TypeOK'
    <2>1. out[i] \in Emitted
      BY DEF TypeOK
    <2>2. ReverseSeq(rw, out[i].seq) \in Seq16
      BY <2>1, Closed DEF ReverseSeq, TypeOK, RewriteState, Emitted
    <2> QED
      BY <1>8, <2>1, <2>2 DEF NackReverse, Calls, TypeOK, media, Emitted
  <1>9. ASSUME NackAnswer PROVE TypeOK'
    <2>1. nack.lost \in Packet
      BY <1>9 DEF NackAnswer, TypeOK
    <2>2. answer' \in [lost : Packet, sent : Packet] \cup {Nothing}
      BY <1>9, <2>1 DEF NackAnswer, InCache, TypeOK
    <2> QED
      BY <1>9, <2>2 DEF NackAnswer, TypeOK, media
  <1>10. CASE UNCHANGED vars
    BY <1>10 DEF vars, TypeOK
  <1> QED
    BY <1>1, <1>2, <1>3, <1>4, <1>5, <1>6, <1>7, <1>8, <1>9, <1>10 DEF Next
-----------------------------------------------------------------------------
\* A step that sends nothing, leaves the workers alone and keeps the bases of the
\* rewriter, or begins a new turn, keeps what is known of the packets sent.
LEMMA SentIsKept ==
    ASSUME IInv, UNCHANGED out
    PROVE  RelativeOrderIsKept' /\ DecodableFromKeyframe'
  BY DEF IInv, RelativeOrderIsKept, DecodableFromKeyframe

\* A step that leaves the media path and the rewriter alone keeps the invariant.
LEMMA Elsewhere ==
    ASSUME IInv, TypeOK', UNCHANGED <<worker, out, turn, rw>>
    PROVE  IInv'
  <1>1. OwnPackets' /\ Placed' /\ KeyframeSeen'
    BY DEF IInv, OwnPackets, Placed, KeyframeSeen
  <1> QED
    BY <1>1, SentIsKept DEF IInv

\* switch_speaker begins a turn, which has no packet yet and, if this is the video
\* rewriter, waits for a keyframe.
LEMMA SwitchStep ==
    ASSUME IInv, TypeOK', NEW u \in Users, Switch(u)
    PROVE  IInv'
  <1>1. UNCHANGED <<worker, out>> /\ turn' = turn + 1 /\ rw' = AfterSwitch(rw, u)
    BY DEF Switch, Turns, media
  <1>2. OwnPackets'
    BY <1>1 DEF IInv, OwnPackets
  <1>3. Placed'
    <2>1. ASSUME NEW i \in DOMAIN out PROVE out[i].turn \in Nat /\ out[i].turn <= turn
      <3>1. out[i] \in Emitted
        BY DEF IInv, TypeOK
      <3> QED
        BY <3>1 DEF Emitted, IInv, Placed
    <2> QED
      BY <1>1, <2>1 DEF IInv, TypeOK, Placed
  <1>4. KeyframeSeen'
    <2>1. rw'.pending_keyframe = require_keyframe
      BY <1>1 DEF AfterSwitch, IInv, TypeOK, RewriteState
    <2> QED
      BY <2>1 DEF KeyframeSeen
  <1> QED
    BY <1>1, <1>2, <1>3, <1>4, SentIsKept DEF IInv

\* clear_speaker leaves the bases, and a turn that has its first packet has it still.
LEMMA ClearStep ==
    ASSUME IInv, TypeOK', NEW t \in Tasks, Clear(t)
    PROVE  IInv'
  <1>1. UNCHANGED <<worker, out, turn>> /\ rw' = AfterClear(rw)
    BY DEF Clear, Turns, media
  <1>2. /\ rw'.origin_base_seq = rw.origin_base_seq
        /\ rw'.virtual_base_seq = rw.virtual_base_seq
        /\ ~rw'.awaiting_first_packet /\ rw'.speaker = NoOne
    BY <1>1 DEF AfterClear, IInv, TypeOK, RewriteState
  <1>3. OwnPackets' /\ KeyframeSeen'
    BY <1>1, <1>2 DEF IInv, OwnPackets, KeyframeSeen
  <1>4. Placed'
    BY <1>1, <1>2 DEF IInv, Placed, VirtualSeq
  <1> QED
    BY <1>1, <1>3, <1>4, SentIsKept DEF IInv

\* A packet past the gate is its receiver's own.
LEMMA ReceiveStep ==
    ASSUME IInv, TypeOK', NEW u \in Users, NEW n \in Places, NEW key \in BOOLEAN,
           Receive(u, n, key)
    PROVE  IInv'
  <1>1. UNCHANGED <<out, turn, rw>>
    BY DEF Receive
  <1>2. OwnPackets'
    BY DEF Receive, IInv, OwnPackets, TypeOK
  <1>3. Placed' /\ KeyframeSeen'
    BY <1>1 DEF IInv, Placed, KeyframeSeen
  <1> QED
    BY <1>1, <1>2, <1>3, SentIsKept DEF IInv
\* A packet that is sent takes the place the bases give it, and a video packet that
\* is no keyframe follows another one of its speaker.
LEMMA FanOutStep ==
    ASSUME IInv, TypeOK', NEW u \in Users, FanOut(u)
    PROVE  IInv'
  <1> USE DEF IInv
  <1> DEFINE p == worker[u].pkt
             n == Len(out) + 1
  <1>1. worker' = [worker EXCEPT ![u] = Nothing] /\ turn' = turn /\ worker[u] # Nothing
    BY FanOutCases
  <1>2. OwnPackets'
    BY <1>1 DEF OwnPackets, TypeOK
  <1>3. CASE UNCHANGED <<rw, out>>
    <2>1. Placed' /\ KeyframeSeen'
      BY <1>1, <1>3 DEF Placed, KeyframeSeen
    <2> QED
      BY <1>2, <1>3, <2>1, SentIsKept
  <1>4. CASE /\ RewriteResult(rw, u, worker[u].key) = "Ok"
             /\ rw' = AfterRewrite(rw, OrigSeq(p))
             /\ out' = Append(out, Sent(u))
    <2>1. /\ p \in Packet /\ p.user = u /\ OrigSeq(p) \in Seq16
          /\ Sent(u) \in Emitted /\ rw \in RewriteState /\ rw' \in RewriteState
      BY <1>1, <1>4, SentType DEF OwnPackets, TypeOK
    <2>2. /\ out \in Seq(Emitted) /\ Len(out) \in Nat
          /\ out'[n] = Sent(u) /\ Len(out') = n
          /\ DOMAIN out = 1..Len(out) /\ DOMAIN out' = 1..n
          /\ \A i \in 1..Len(out) : out'[i] = out[i] /\ out[i] \in Emitted
      BY <1>4, <2>1 DEF TypeOK
    <2>3. /\ rw.speaker = u /\ (rw.pending_keyframe => worker[u].key)
          /\ rw'.speaker = u /\ ~rw'.awaiting_first_packet /\ ~rw'.pending_keyframe
      BY <1>4, <2>1, RewriteFacts DEF RewriteResult
    <2>4. /\ out'[n].turn = turn /\ out'[n].pkt = p /\ out'[n].key = worker[u].key
          /\ out'[n].seq = VirtualSeq(rw', OrigSeq(p))
      BY <1>4, <2>1, <2>2, RewriteFacts DEF Sent
    <2>5. Placed'
      <3> SUFFICES ASSUME NEW i \in 1..n
                   PROVE  /\ out'[i].turn <= turn
                          /\ out'[i].turn = turn =>
                               /\ ~rw'.awaiting_first_packet
                               /\ out'[i].seq = VirtualSeq(rw', OrigSeq(out'[i].pkt))
        BY <1>1, <2>2 DEF Placed, OrigSeq
      <3>1. CASE i = n
        BY <2>3, <2>4, <3>1 DEF TypeOK
      <3>2. CASE i \in 1..Len(out)
        <4>1. out'[i] = out[i] /\ OrigSeq(out[i].pkt) \in Seq16
          BY <2>2, <3>2, OrigType DEF Emitted
        <4>2. /\ out[i].turn <= turn
              /\ out[i].turn = turn =>
                   /\ ~rw.awaiting_first_packet
                   /\ out[i].seq = VirtualSeq(rw, OrigSeq(out[i].pkt))
          BY <2>2, <3>2 DEF Placed
        <4>3. ~rw.awaiting_first_packet =>
                VirtualSeq(rw', OrigSeq(out[i].pkt)) = VirtualSeq(rw, OrigSeq(out[i].pkt))
          BY <1>4, <2>1, <4>1, RewriteFacts
        <4> QED
          BY <2>3, <4>1, <4>2, <4>3
      <3> QED
        BY <2>2, <3>1, <3>2
    <2>6. RelativeOrderIsKept'
      <3> SUFFICES ASSUME NEW i \in 1..n, NEW j \in 1..n, out'[i].turn = out'[j].turn
                   PROVE  WrappingSub(out'[j].seq, out'[i].seq)
                            = WrappingSub(OrigSeq(out'[j].pkt), OrigSeq(out'[i].pkt))
        BY <2>2 DEF RelativeOrderIsKept, OrigSeq
      <3>1. CASE i \in 1..Len(out) /\ j \in 1..Len(out)
        BY <2>2, <3>1 DEF RelativeOrderIsKept
      <3>2. CASE i = n \/ j = n
        <4>1. out'[i].turn = turn /\ out'[j].turn = turn
          BY <2>4, <3>2
        <4>2. /\ out'[i].seq = VirtualSeq(rw', OrigSeq(out'[i].pkt))
              /\ out'[j].seq = VirtualSeq(rw', OrigSeq(out'[j].pkt))
          BY <1>1, <2>2, <2>5, <4>1 DEF Placed, OrigSeq
        <4>3. out'[i].pkt \in Packet /\ out'[j].pkt \in Packet
          BY <2>1, <2>2, SMTT(30) DEF Emitted
        <4> QED
          BY <2>1, <4>2, <4>3, OrigType, ShiftKeepsDistance, SMTT(30)
      <3> QED
        BY <2>2, <3>1, <3>2
    <2>7. KeyframeSeen'
      BY <2>1, <2>2, <2>3, <2>4 DEF KeyframeSeen
    <2>8. DecodableFromKeyframe'
      <3> SUFFICES ASSUME require_keyframe, NEW j \in 1..n
                   PROVE  \E i \in 1..j :
                            /\ out'[i].key
                            /\ \A k \in i..j : out'[k].pkt.user = out'[j].pkt.user
        BY <2>2 DEF DecodableFromKeyframe
      <3>1. ASSUME NEW m \in 1..Len(out)
            PROVE  \E i \in 1..m : /\ out'[i].key
                                   /\ \A k \in i..m : out'[k].pkt.user = out'[m].pkt.user
        <4>1. PICK i \in 1..m : /\ out[i].key
                                /\ \A k \in i..m : out[k].pkt.user = out[m].pkt.user
          BY <2>2, <3>1 DEF DecodableFromKeyframe
        <4>2. \A k \in i..m : out'[k] = out[k]
          BY <2>2, <3>1
        <4>3. i \in i..m /\ m \in i..m
          BY <2>2, <3>1
        <4> QED
          BY <4>1, <4>2, <4>3
      <3>2. CASE j \in 1..Len(out)
        BY <3>1, <3>2
      <3>3. CASE j = n /\ worker[u].key
        <4>1. n \in 1..j /\ out'[n].key /\ \A k \in n..j : k = j
          BY <2>2, <2>4, <3>3
        <4> QED
          BY <4>1
      <3>4. CASE j = n /\ ~worker[u].key
        <4>1. out # <<>> /\ out[Len(out)].pkt.user = u
          BY <2>1, <2>3, <3>4 DEF KeyframeSeen
        <4>2. Len(out) \in 1..Len(out) /\ out'[Len(out)].pkt.user = u
          BY <2>2, <4>1
        <4>3. PICK i \in 1..Len(out) :
                     /\ out'[i].key
                     /\ \A k \in i..Len(out) : out'[k].pkt.user = out'[Len(out)].pkt.user
          BY <3>1, <4>2
        <4>4. \A k \in i..j : out'[k].pkt.user = out'[j].pkt.user
          BY <2>1, <2>2, <2>4, <3>4, <4>2, <4>3
        <4> QED
          BY <2>2, <3>4, <4>3, <4>4
      <3> QED
        BY <2>2, <3>2, <3>3, <3>4
    <2> QED
      BY <1>2, <2>5, <2>6, <2>7, <2>8
  <1> QED
    BY <1>3, <1>4, FanOutCases

\* Every step of tasks, workers and NACKs keeps the invariant.
LEMMA InvStep == IInv /\ [Next]_vars => IInv'
  <1> SUFFICES ASSUME IInv, [Next]_vars PROVE IInv'
    OBVIOUS
  <1>1. TypeOK'
    BY TypeStep DEF IInv
  <1>2. ASSUME NEW u \in Users, FloorRequest(u) \/ FloorRelease(u) PROVE IInv'
    BY <1>1, <1>2, Elsewhere DEF FloorRequest, FloorRelease, Turns, media
  <1>3. ASSUME TimerRevoke \/ NackAnswer \/ \E i \in DOMAIN out : NackReverse(i)
        PROVE  IInv'
    BY <1>1, <1>3, Elsewhere DEF TimerRevoke, Turns, NackAnswer, NackReverse, media
  <1>4. CASE UNCHANGED vars
    BY <1>1, <1>4, Elsewhere DEF vars
  <1> QED
    BY <1>1, <1>2, <1>3, <1>4, SwitchStep, ClearStep, ReceiveStep, FanOutStep DEF Next

-----------------------------------------------------------------------------
\* The invariant holds whatever tasks, workers and network do.
THEOREM Invariance == Spec => []IInv
  BY InitInv, InvStep, PTL DEF Spec

\* Type correctness of the media path.
THEOREM Types == Spec => []TypeOK
  <1>1. IInv => TypeOK
    BY DEF IInv
  <1> QED
    BY <1>1, Invariance, PTL

\* The packets of a turn keep their distances in the virtual stream, however the
\* network reorders them and however wide the sequence numbers are.
THEOREM RelativeOrder == Spec => []RelativeOrderIsKept
  <1>1. IInv => RelativeOrderIsKept
    BY DEF IInv
  <1> QED
    BY <1>1, Invariance, PTL

\* The rewriter maps a number of the turn that goes on back to the packet it is of.
LEMMA ReverseIsExact ==
    ASSUME IInv, NEW i \in DOMAIN out, out[i].turn = turn
    PROVE  ReverseSeq(rw, out[i].seq) = OrigSeq(out[i].pkt)
  <1>1. out[i] \in Emitted /\ rw \in RewriteState
    BY DEF IInv, TypeOK
  <1>2. OrigSeq(out[i].pkt) \in Seq16
    BY <1>1, OrigType DEF Emitted
  <1>3. out[i].seq = VirtualSeq(rw, OrigSeq(out[i].pkt))
    BY DEF IInv, Placed
  <1> QED
    BY <1>1, <1>2, <1>3, ReverseUndoes

\* reverse_seq gives the packet's own sequence number back for every packet of the
\* turn that goes on, which is what handle_nack_block looks up.
THEOREM NackIsExact == Spec => []NackOfThisTurnIsExact
  <1>1. IInv => NackOfThisTurnIsExact
    BY ReverseIsExact DEF NackOfThisTurnIsExact
  <1> QED
    BY <1>1, Invariance, PTL

\* No listener's decoder is sent an inter frame of a speaker before the speaker's
\* keyframe, whatever late switches, repeated requests and clears come between.
THEOREM Decodable == Spec => []DecodableFromKeyframe
  <1>1. IInv => DecodableFromKeyframe
    BY DEF IInv
  <1> QED
    BY <1>1, Invariance, PTL

-----------------------------------------------------------------------------
\* No packet is sent twice: it is sent by the worker that received it, once.
SentOnce ==
    /\ \A i \in DOMAIN out : out[i].pkt.n \in received[out[i].pkt.user]
    /\ \A u \in Users : worker[u] # Nothing =>
         /\ worker[u].pkt.n \in received[u]
         /\ \A i \in DOMAIN out : out[i].pkt # worker[u].pkt
    /\ \A i, j \in DOMAIN out : out[i].pkt = out[j].pkt => i = j

\* A NACK under way is about a packet that was sent, and holds that packet's own number as
\* long as no other turn has begun.
NackHolds ==
    nack # Nothing =>
        /\ \E i \in DOMAIN out : out[i].pkt = nack.lost
        /\ \A i \in DOMAIN out :
             out[i].pkt = nack.lost /\ out[i].turn = turn => nack.orig = OrigSeq(nack.lost)

NackInv == IInv /\ SentOnce /\ NackHolds

\* Two packets of a publisher with the same number are the same: it has fewer packets than
\* there are numbers.
LEMMA NumberIsPacket ==
    ASSUME NEW p \in Packet, NEW q \in Packet, p.user = q.user, OrigSeq(p) = OrigSeq(q)
    PROVE  p = q
  <1>1. /\ p.user \in Users /\ q.user \in Users
        /\ p.n \in Places /\ q.n \in Places
        /\ p = [user |-> p.user, n |-> p.n] /\ q = [user |-> q.user, n |-> q.n]
    BY DEF Packet
  <1>2. first_seq[p.user] \in Seq16
    BY <1>1
  <1>3. p.n = q.n
    BY <1>1, <1>2 DEF OrigSeq, WrappingAdd, Places, Seq16
  <1> QED
    BY <1>1, <1>3

\* A step that sends nothing, receives nothing and takes up no NACK keeps both; a turn that
\* it begins has no packets.
LEMMA NackElsewhere ==
    ASSUME NackInv, UNCHANGED <<received, worker, out, nack>>,
           turn' = turn \/ \A i \in DOMAIN out : out[i].turn # turn'
    PROVE  SentOnce' /\ NackHolds'
  BY DEF NackInv, SentOnce, NackHolds, OrigSeq

\* Before the first packet nothing was sent and nothing is missed.
LEMMA NackInit == Init => NackInv
  <1> SUFFICES ASSUME Init PROVE NackInv
    OBVIOUS
  <1>1. DOMAIN out = {} /\ nack = Nothing /\ \A u \in Users : worker[u] = Nothing
    BY DEF Init
  <1>2. SentOnce /\ NackHolds
    BY <1>1 DEF SentOnce, NackHolds
  <1> QED
    BY <1>2, InitInv DEF NackInv

\* A packet is let through the gate when it arrives, and it arrives once.
LEMMA NackReceive ==
    ASSUME NackInv, NEW u \in Users, NEW n \in Places, NEW key \in BOOLEAN,
           Receive(u, n, key)
    PROVE  SentOnce' /\ NackHolds'
  <1>1. /\ UNCHANGED <<out, turn, nack>> /\ n \notin received[u]
        /\ received' = [received EXCEPT ![u] = @ \cup {n}]
        /\ \/ worker' = worker
           \/ worker' = [worker EXCEPT ![u] = [pkt |-> [user |-> u, n |-> n], key |-> key]]
    BY DEF Receive, nacks
  <1>2. /\ received \in [Users -> SUBSET Places]
        /\ worker \in [Users -> Arrived \cup {Nothing}]
        /\ \A i \in DOMAIN out : out[i] \in Emitted
    BY DEF NackInv, IInv, TypeOK
  <1>3. \A v \in Users : received[v] \subseteq received'[v]
    BY <1>1, <1>2
  <1>4. \A i \in DOMAIN out : /\ out[i].pkt.n \in received'[out[i].pkt.user]
                              /\ out[i].pkt # [user |-> u, n |-> n]
    <2> SUFFICES ASSUME NEW i \in DOMAIN out
                 PROVE  /\ out[i].pkt.n \in received'[out[i].pkt.user]
                        /\ out[i].pkt # [user |-> u, n |-> n]
      OBVIOUS
    <2>1. out[i].pkt.user \in Users /\ out[i].pkt.n \in received[out[i].pkt.user]
      BY <1>2 DEF NackInv, SentOnce, Emitted, Packet
    <2> QED
      BY <1>1, <1>3, <2>1
  <1>5. ASSUME NEW v \in Users, worker'[v] # Nothing
        PROVE  /\ worker'[v].pkt.n \in received'[v]
               /\ \A i \in DOMAIN out : out[i].pkt # worker'[v].pkt
    <2>1. CASE worker'[v] = worker[v]
      BY <1>3, <1>5, <2>1 DEF NackInv, SentOnce
    <2>2. CASE v = u /\ worker'[v] = [pkt |-> [user |-> u, n |-> n], key |-> key]
      BY <1>1, <1>2, <1>4, <2>2
    <2> QED
      BY <1>1, <1>2, <2>1, <2>2
  <1>6. SentOnce'
    BY <1>1, <1>4, <1>5 DEF NackInv, SentOnce
  <1>7. NackHolds'
    BY <1>1 DEF NackInv, NackHolds, OrigSeq
  <1> QED
    BY <1>6, <1>7

\* What a worker sends was not sent before, so it is not what a listener has missed.
LEMMA NackFanOut ==
    ASSUME NackInv, NEW u \in Users, FanOut(u)
    PROVE  SentOnce' /\ NackHolds'
  <1> DEFINE p == worker[u].pkt
             n == Len(out) + 1
  <1>1. /\ worker[u] # Nothing /\ worker' = [worker EXCEPT ![u] = Nothing]
        /\ UNCHANGED <<received, turn, nack>>
    BY FanOutCases DEF NackInv, IInv, nacks
  <1>2. /\ worker \in [Users -> Arrived \cup {Nothing}] /\ out \in Seq(Emitted)
        /\ p.user = u
    BY <1>1 DEF NackInv, IInv, TypeOK, OwnPackets
  <1>3. \A v \in Users : worker'[v] # Nothing => v # u /\ worker'[v] = worker[v]
    BY <1>1, <1>2
  <1>4. CASE UNCHANGED <<rw, out>>
    <2>1. SentOnce'
      BY <1>1, <1>3, <1>4 DEF NackInv, SentOnce
    <2>2. NackHolds'
      BY <1>1, <1>4 DEF NackInv, NackHolds, OrigSeq
    <2> QED
      BY <2>1, <2>2
  <1>5. CASE out' = Append(out, Sent(u))
    <2>1. /\ Len(out) \in Nat /\ DOMAIN out = 1..Len(out) /\ DOMAIN out' = 1..n
          /\ out'[n] = Sent(u) /\ \A i \in 1..Len(out) : out'[i] = out[i]
      BY <1>2, <1>5
    <2>2. /\ out'[n].pkt = p /\ p.n \in received[u]
          /\ \A i \in DOMAIN out : out[i].pkt # p
      BY <1>1, <2>1 DEF Sent, NackInv, SentOnce
    <2>3. \A i \in 1..n : out'[i].pkt.n \in received[out'[i].pkt.user]
      BY <1>2, <2>1, <2>2 DEF NackInv, SentOnce
    <2>4. ASSUME NEW v \in Users, worker'[v] # Nothing
          PROVE  /\ worker'[v].pkt.n \in received[v]
                 /\ \A i \in 1..n : out'[i].pkt # worker'[v].pkt
      <3>1. v # u /\ worker'[v] = worker[v] /\ worker[v].pkt.user = v
        BY <1>3, <2>4 DEF NackInv, IInv, OwnPackets
      <3>2. worker[v].pkt # p
        BY <1>2, <3>1
      <3> QED
        BY <2>1, <2>2, <2>4, <3>1, <3>2 DEF NackInv, SentOnce
    <2>5. \A i, j \in 1..n : out'[i].pkt = out'[j].pkt => i = j
      BY <2>1, <2>2 DEF NackInv, SentOnce
    <2>6. SentOnce'
      BY <1>1, <2>1, <2>3, <2>4, <2>5 DEF SentOnce
    <2>7. NackHolds'
      <3> SUFFICES ASSUME nack # Nothing
                   PROVE  /\ \E i \in 1..n : out'[i].pkt = nack.lost
                          /\ \A i \in 1..n : out'[i].pkt = nack.lost /\ out'[i].turn = turn
                                               => nack.orig = OrigSeq(nack.lost)
        BY <1>1, <2>1 DEF NackHolds, OrigSeq
      <3>1. PICK k \in DOMAIN out : out[k].pkt = nack.lost
        BY DEF NackInv, NackHolds
      <3>2. k \in 1..n /\ out'[k].pkt = nack.lost
        BY <2>1, <3>1
      <3>3. out'[n].pkt # nack.lost
        BY <2>2, <3>1
      <3>4. ASSUME NEW i \in 1..n, out'[i].pkt = nack.lost, out'[i].turn = turn
            PROVE  nack.orig = OrigSeq(nack.lost)
        <4>1. i \in DOMAIN out /\ out[i].pkt = nack.lost /\ out[i].turn = turn
          BY <2>1, <3>3, <3>4
        <4> QED
          BY <4>1 DEF NackInv, NackHolds
      <3> QED
        BY <3>2, <3>4
    <2> QED
      BY <2>6, <2>7
  <1> QED
    BY <1>4, <1>5, FanOutCases DEF NackInv, IInv

\* A NACK that is taken up holds the number of the packet it asks for, if that packet is
\* of the turn that goes on.
LEMMA NackReverseStep ==
    ASSUME NackInv, NEW i \in DOMAIN out, NackReverse(i)
    PROVE  SentOnce' /\ NackHolds'
  <1>1. /\ nack' = [lost |-> out[i].pkt, orig |-> ReverseSeq(rw, out[i].seq)]
        /\ UNCHANGED <<received, worker, out, turn>>
    BY DEF NackReverse, media
  <1>2. SentOnce'
    BY <1>1 DEF NackInv, SentOnce
  <1>3. ASSUME NEW j \in DOMAIN out, out[j].pkt = out[i].pkt, out[j].turn = turn
        PROVE  ReverseSeq(rw, out[i].seq) = OrigSeq(out[i].pkt)
    <2>1. j = i
      BY <1>3 DEF NackInv, SentOnce
    <2> QED
      BY <1>3, <2>1, ReverseIsExact DEF NackInv
  <1>4. NackHolds'
    BY <1>1, <1>3 DEF NackHolds, OrigSeq
  <1> QED
    BY <1>2, <1>4

\* Every step keeps what is known of the packets sent and of the NACK under way.
LEMMA NackStep == NackInv /\ [Next]_vars => NackInv'
  <1> SUFFICES ASSUME NackInv, [Next]_vars PROVE SentOnce' /\ NackHolds'
    BY InvStep DEF NackInv
  <1>1. ASSUME NEW u \in Users, FloorRequest(u) \/ FloorRelease(u)
        PROVE  SentOnce' /\ NackHolds'
    BY <1>1, NackElsewhere DEF FloorRequest, FloorRelease, Turns, media, nacks
  <1>2. ASSUME NEW u \in Users, Switch(u) PROVE SentOnce' /\ NackHolds'
    <2>1. UNCHANGED <<received, worker, out, nack>> /\ turn' = turn + 1
      BY <1>2 DEF Switch, Turns, media, nacks
    <2>2. \A i \in DOMAIN out : out[i].turn # turn'
      <3> SUFFICES ASSUME NEW i \in DOMAIN out PROVE out[i].turn # turn + 1
        BY <2>1
      <3>1. out[i] \in Emitted /\ turn \in Nat /\ out[i].turn <= turn
        BY DEF NackInv, IInv, TypeOK, Placed
      <3> QED
        BY <3>1 DEF Emitted
    <2> QED
      BY <2>1, <2>2, NackElsewhere
  <1>3. ASSUME NEW t \in Tasks, Clear(t) PROVE SentOnce' /\ NackHolds'
    BY <1>3, NackElsewhere DEF Clear, Turns, media, nacks
  <1>4. CASE TimerRevoke
    BY <1>4, NackElsewhere DEF TimerRevoke, Turns, media, nacks
  <1>5. CASE NackAnswer
    BY <1>5 DEF NackAnswer, media, NackInv, SentOnce, NackHolds
  <1>6. CASE UNCHANGED vars
    BY <1>6, NackElsewhere DEF vars
  <1> QED
    BY <1>1, <1>2, <1>3, <1>4, <1>5, <1>6, NackReceive, NackFanOut, NackReverseStep DEF Next

\* The handler of a NACK that meets no change of floor or turn sends again what was lost,
\* whatever else the workers and the network do between its two halves: the cache of the
\* floor's holder has one packet of that number.
THEOREM AnswerIsExact == Spec => AnswerOfThisTurnIsExact
  <1>1. NackInv /\ [Next]_vars =>
          [\A i \in DOMAIN out :
             /\ answer' # answer /\ answer'.lost = out[i].pkt
             /\ out[i].turn = turn /\ floor = out[i].pkt.user
             => answer'.sent = answer'.lost]_vars
    <2> SUFFICES ASSUME NackInv, [Next]_vars, NEW i \in DOMAIN out,
                        answer' # answer, answer'.lost = out[i].pkt,
                        out[i].turn = turn, floor = out[i].pkt.user
                 PROVE  answer'.sent = answer'.lost
      OBVIOUS
    <2>1. NackAnswer
      BY DEF Next, FloorRequest, FloorRelease, TimerRevoke, Switch, Clear, Turns, Receive,
             FanOut, NackReverse, nacks, vars
    <2>2. PICK p \in InCache(nack.orig) : answer' = [lost |-> nack.lost, sent |-> p]
      BY <2>1 DEF NackAnswer
    <2>3. nack # Nothing /\ nack.lost = out[i].pkt
      BY <2>1, <2>2 DEF NackAnswer
    <2>4. nack.orig = OrigSeq(nack.lost)
      BY <2>3 DEF NackInv, NackHolds
    <2>5. p \in Packet /\ p.user = floor /\ OrigSeq(p) = nack.orig
      BY <2>2 DEF InCache
    <2>6. nack.lost \in Packet
      BY <2>3 DEF NackInv, IInv, TypeOK
    <2>7. p = nack.lost
      BY <2>3, <2>4, <2>5, <2>6, NumberIsPacket
    <2> QED
      BY <2>2, <2>7
  <1> QED
    BY <1>1, NackInit, NackStep, PTL DEF Spec, AnswerOfThisTurnIsExact

-----------------------------------------------------------------------------
\* The virtual stream goes on where its last packet was, turn after turn, and a turn that
\* awaits nothing has sent a packet.
TurnsFollow ==
    /\ \A i, j \in DOMAIN out : i <= j => out[i].turn <= out[j].turn
    /\ out # <<>> => rw.last_virtual_seq = out[Len(out)].seq
    /\ \A i \in DOMAIN out :
         out[i].turn = turn /\ rw.speaker # NoOne => out[i].pkt.user = rw.speaker
    /\ rw.speaker # NoOne /\ ~rw.awaiting_first_packet =>
         out # <<>> /\ out[Len(out)].turn = turn

\* What a worker holds is the last that arrived, and what was sent arrived in that order.
InOrder ==
    /\ \A u \in Users : worker[u] # Nothing => \A m \in received[u] : m <= worker[u].pkt.n
    /\ \A i, j \in DOMAIN out :
         i < j /\ out[i].pkt.user = out[j].pkt.user => out[i].pkt.n < out[j].pkt.n

OrderInv == ordered => InOrder /\ VirtualStreamAdvances

AdvanceInv == NackInv /\ TurnsFollow /\ OrderInv

\* Within a turn the numbers of two packets are as far apart as their places.
LEMMA PlaceDistance ==
    ASSUME NEW p \in Packet, NEW q \in Packet, p.user = q.user, p.n < q.n
    PROVE  WrappingSub(OrigSeq(q), OrigSeq(p)) = q.n - p.n
  <1>1. /\ p.user \in Users /\ p.n \in Places /\ q.n \in Places
        /\ first_seq[p.user] \in Seq16
    BY DEF Packet
  <1> QED
    BY <1>1 DEF OrigSeq, WrappingAdd, WrappingSub, Places, Seq16

\* The number after a number.
LEMMA OneFurther ==
    ASSUME NEW a \in Seq16
    PROVE  WrappingSub(WrappingAdd(a, 1), a) = 1
  BY DEF WrappingAdd, WrappingSub, Seq16

\* The first packet of a turn takes the number after the last one sent.
LEMMA FirstOfTurn ==
    ASSUME NEW r \in RewriteState, NEW s \in Seq16, r.awaiting_first_packet
    PROVE  AfterRewrite(r, s).last_virtual_seq = WrappingAdd(r.last_virtual_seq, 1)
  <1> DEFINE v == WrappingAdd(r.last_virtual_seq, 1)
             B == Based(r, s)
  <1>1. r.last_virtual_seq \in Seq16 /\ 1 \in Seq16
    BY DEF RewriteState, Seq16
  <1>2. v \in Seq16
    BY <1>1, Closed
  <1>3. B = [r EXCEPT !.origin_base_seq = s, !.virtual_base_seq = v,
                      !.awaiting_first_packet = FALSE]
    BY DEF Based
  <1>4. B.origin_base_seq = s /\ B.virtual_base_seq = v
    BY <1>3 DEF RewriteState
  <1>5. VirtualSeq(B, s) = WrappingAdd(WrappingSub(s, s), v)
    BY <1>4 DEF VirtualSeq
  <1>6. WrappingAdd(WrappingSub(s, s), v) = v
    BY <1>2 DEF WrappingAdd, WrappingSub, Seq16
  <1>7. AfterRewrite(r, s) = [B EXCEPT !.last_virtual_seq = VirtualSeq(B, s),
                                       !.pending_keyframe = FALSE]
    BY DEF AfterRewrite
  <1>8. AfterRewrite(r, s).last_virtual_seq = VirtualSeq(B, s)
    BY <1>7, BasedFacts DEF RewriteState
  <1> QED
    BY <1>5, <1>6, <1>8

\* Before the first call nothing has been sent.
LEMMA AdvanceInit == Init => AdvanceInv
  <1> SUFFICES ASSUME Init PROVE TurnsFollow /\ OrderInv
    BY NackInit DEF AdvanceInv
  <1>1. /\ out = <<>> /\ DOMAIN out = {} /\ rw.speaker = NoOne
        /\ \A u \in Users : worker[u] = Nothing
    BY DEF Init, NewRewriter
  <1> QED
    BY <1>1 DEF TurnsFollow, OrderInv, InOrder, VirtualStreamAdvances

\* A step that sends and receives nothing and leaves the rewriter alone.
LEMMA AdvanceElsewhere ==
    ASSUME AdvanceInv, UNCHANGED <<rw, received, worker, out, turn, ordered>>
    PROVE  TurnsFollow' /\ OrderInv'
  BY DEF AdvanceInv, TurnsFollow, OrderInv, InOrder, VirtualStreamAdvances

\* switch_speaker and clear_speaker remember what was sent last.
LEMMA AdvanceSwitch ==
    ASSUME AdvanceInv, NEW u \in Users, Switch(u)
    PROVE  TurnsFollow' /\ OrderInv'
  <1>1. /\ UNCHANGED <<received, worker, out, ordered>> /\ turn' = turn + 1
        /\ rw' = AfterSwitch(rw, u)
    BY DEF Switch, Turns, media
  <1>2. /\ rw'.last_virtual_seq = rw.last_virtual_seq /\ rw'.awaiting_first_packet
    BY <1>1 DEF AfterSwitch, AdvanceInv, NackInv, IInv, TypeOK, RewriteState
  <1>3. ASSUME NEW i \in DOMAIN out PROVE out[i].turn # turn + 1
    <2>1. out[i] \in Emitted /\ turn \in Nat /\ out[i].turn <= turn
      BY DEF AdvanceInv, NackInv, IInv, TypeOK, Placed
    <2> QED
      BY <2>1 DEF Emitted
  <1>4. TurnsFollow'
    BY <1>1, <1>2, <1>3 DEF AdvanceInv, TurnsFollow
  <1> QED
    BY <1>1, <1>4 DEF AdvanceInv, OrderInv, InOrder, VirtualStreamAdvances

LEMMA AdvanceClear ==
    ASSUME AdvanceInv, NEW t \in Tasks, Clear(t)
    PROVE  TurnsFollow' /\ OrderInv'
  <1>1. UNCHANGED <<received, worker, out, ordered, turn>> /\ rw' = AfterClear(rw)
    BY DEF Clear, Turns, media
  <1>2. rw'.last_virtual_seq = rw.last_virtual_seq /\ rw'.speaker = NoOne
    BY <1>1 DEF AfterClear, AdvanceInv, NackInv, IInv, TypeOK, RewriteState
  <1>3. TurnsFollow'
    BY <1>1, <1>2 DEF AdvanceInv, TurnsFollow
  <1> QED
    BY <1>1, <1>3 DEF AdvanceInv, OrderInv, InOrder, VirtualStreamAdvances

\* While packets keep their order one that arrives is its publisher's last.
LEMMA AdvanceReceive ==
    ASSUME AdvanceInv, NEW u \in Users, NEW n \in Places, NEW key \in BOOLEAN,
           Receive(u, n, key)
    PROVE  TurnsFollow' /\ OrderInv'
  <1>1. /\ UNCHANGED <<rw, out, turn>> /\ worker[u] = Nothing
        /\ received' = [received EXCEPT ![u] = @ \cup {n}]
        /\ \/ worker' = worker
           \/ worker' = [worker EXCEPT ![u] = [pkt |-> [user |-> u, n |-> n], key |-> key]]
        /\ ordered' => ordered /\ \A m \in received[u] : m < n
    BY DEF Receive
  <1>2. /\ received \in [Users -> SUBSET Places]
        /\ worker \in [Users -> Arrived \cup {Nothing}]
    BY DEF AdvanceInv, NackInv, IInv, TypeOK
  <1>3. TurnsFollow'
    BY <1>1 DEF AdvanceInv, TurnsFollow
  <1>4. ASSUME ordered' PROVE InOrder' /\ VirtualStreamAdvances'
    <2>1. InOrder /\ VirtualStreamAdvances
      BY <1>1, <1>4 DEF AdvanceInv, OrderInv
    <2>2. ASSUME NEW v \in Users, worker'[v] # Nothing, NEW m \in received'[v]
          PROVE  m <= worker'[v].pkt.n
      <3>1. CASE v # u
        BY <1>1, <1>2, <2>1, <2>2, <3>1 DEF InOrder
      <3>2. CASE v = u
        <4>1. worker'[u] = [pkt |-> [user |-> u, n |-> n], key |-> key]
          BY <1>1, <1>2, <2>2, <3>2
        <4>2. m = n \/ m \in received[u]
          BY <1>1, <1>2, <2>2, <3>2
        <4>3. worker'[u].pkt.n = n
          BY <4>1
        <4>4. m \in Nat /\ n \in Nat
          BY <1>2, <4>2 DEF Places
        <4> QED
          BY <1>1, <1>4, <3>2, <4>2, <4>3, <4>4
      <3> QED
        BY <3>1, <3>2
    <2>3. InOrder'
      BY <1>1, <2>1, <2>2 DEF InOrder
    <2> QED
      BY <1>1, <2>1, <2>3 DEF VirtualStreamAdvances
  <1> QED
    BY <1>3, <1>4 DEF OrderInv

\* While packets keep their order, a packet that is sent was sent by its publisher after
\* those sent before.
LEMMA LaterPlace ==
    ASSUME AdvanceInv, InOrder, NEW u \in Users, worker[u] # Nothing,
           NEW i \in DOMAIN out, out[i].pkt.user = u
    PROVE  out[i].pkt.n < worker[u].pkt.n
  <1>1. /\ out[i] \in Emitted /\ worker[u] \in Arrived /\ worker[u].pkt.user = u
    BY DEF AdvanceInv, NackInv, IInv, TypeOK, OwnPackets
  <1>2. /\ out[i].pkt \in Packet /\ worker[u].pkt \in Packet
        /\ out[i].pkt.n \in Nat /\ worker[u].pkt.n \in Nat
    BY <1>1 DEF Emitted, Arrived, Packet, Places
  <1>3. out[i].pkt.n \in received[u] /\ out[i].pkt # worker[u].pkt
    BY DEF AdvanceInv, NackInv, SentOnce
  <1>4. out[i].pkt.n <= worker[u].pkt.n
    BY <1>3 DEF InOrder
  <1>5. out[i].pkt.n # worker[u].pkt.n
    BY <1>1, <1>2, <1>3 DEF Packet
  <1> QED
    BY <1>2, <1>4, <1>5

\* A packet that is sent is ahead of the last one sent by the places between them, or is
\* the first of its turn and ahead by one.
LEMMA NextIsAhead ==
    ASSUME AdvanceInv, InOrder, NEW u \in Users, FanOut(u), IInv',
           rw' = AfterRewrite(rw, OrigSeq(worker[u].pkt)),
           out' = Append(out, Sent(u)), rw.speaker = u, out # <<>>
    PROVE  LET l == Len(out)
               ahead == IF turn = out[l].turn THEN worker[u].pkt.n - out[l].pkt.n ELSE 1 IN
           ahead >= 1 /\ WrappingSub(Sent(u).seq, out[l].seq) = ahead
  <1> DEFINE l == Len(out)
             n == l + 1
             p == worker[u].pkt
  <1>1. /\ worker[u] # Nothing /\ turn' = turn
        /\ out \in Seq(Emitted) /\ Sent(u) \in Emitted /\ rw \in RewriteState
        /\ p \in Packet /\ p.user = u /\ turn \in Nat /\ OrigSeq(p) \in Seq16
    BY FanOutCases, SentType DEF AdvanceInv, NackInv, IInv, TypeOK, OwnPackets
  <1>2. /\ l \in 1..l /\ n \in Nat /\ DOMAIN out = 1..l /\ DOMAIN out' = 1..n
        /\ out'[n] = Sent(u) /\ out'[l] = out[l] /\ out[l] \in Emitted
    BY <1>1
  <1>3. /\ out[l].pkt \in Packet /\ out[l].seq \in Seq16
        /\ Sent(u).pkt = p /\ Sent(u).turn = turn
        /\ Sent(u).seq = AfterRewrite(rw, OrigSeq(p)).last_virtual_seq
    BY <1>2 DEF Emitted, Sent
  <1>4. CASE out[l].turn = turn
    <2>1. out[l].pkt.user = u
      BY <1>2, <1>4 DEF AdvanceInv, TurnsFollow
    <2>2. out[l].pkt.n < p.n /\ out[l].pkt.n \in Nat /\ p.n \in Nat
      BY <1>1, <1>2, <1>3, <2>1, LaterPlace DEF Packet, Places
    <2>3. WrappingSub(Sent(u).seq, out[l].seq)
            = WrappingSub(OrigSeq(p), OrigSeq(out[l].pkt))
      <3>1. out'[l].turn = out'[n].turn /\ l \in DOMAIN out' /\ n \in DOMAIN out'
        BY <1>2, <1>3, <1>4
      <3>2. WrappingSub(out'[n].seq, out'[l].seq)
              = WrappingSub(OrigSeq(out'[n].pkt), OrigSeq(out'[l].pkt))
        BY <3>1 DEF IInv, RelativeOrderIsKept, OrigSeq
      <3> QED
        BY <1>2, <1>3, <3>2
    <2>4. WrappingSub(Sent(u).seq, out[l].seq) = p.n - out[l].pkt.n
      BY <1>1, <1>3, <2>1, <2>2, <2>3, PlaceDistance
    <2> QED
      BY <1>4, <2>2, <2>4
  <1>5. CASE out[l].turn # turn
    <2>1. rw.awaiting_first_packet
      BY <1>5 DEF AdvanceInv, TurnsFollow
    <2>2. Sent(u).seq = WrappingAdd(out[l].seq, 1)
      BY <1>1, <1>3, <2>1, FirstOfTurn DEF AdvanceInv, TurnsFollow
    <2> QED
      BY <1>3, <1>5, <2>2, OneFurther
  <1> QED
    BY <1>4, <1>5

LEMMA AdvanceFanOut ==
    ASSUME AdvanceInv, NEW u \in Users, FanOut(u), IInv'
    PROVE  TurnsFollow' /\ OrderInv'
  <1> DEFINE p == worker[u].pkt
  <1>1. /\ worker[u] # Nothing /\ worker' = [worker EXCEPT ![u] = Nothing]
        /\ UNCHANGED <<received, turn, ordered>>
    BY FanOutCases DEF AdvanceInv, NackInv, IInv
  <1>2. /\ worker \in [Users -> Arrived \cup {Nothing}]
        /\ out \in Seq(Emitted) /\ Sent(u) \in Emitted /\ rw \in RewriteState
        /\ p \in Packet /\ p.user = u /\ turn \in Nat /\ OrigSeq(p) \in Seq16
    BY <1>1, SentType DEF AdvanceInv, NackInv, IInv, TypeOK, OwnPackets
  <1>3. \A v \in Users : worker'[v] # Nothing => worker'[v] = worker[v]
    BY <1>1, <1>2
  <1>4. CASE UNCHANGED <<rw, out>>
    <2>1. TurnsFollow'
      BY <1>1, <1>4 DEF AdvanceInv, TurnsFollow
    <2>2. OrderInv'
      BY <1>1, <1>3, <1>4 DEF AdvanceInv, OrderInv, InOrder, VirtualStreamAdvances
    <2> QED
      BY <2>1, <2>2
  <1>5. CASE /\ RewriteResult(rw, u, worker[u].key) = "Ok"
             /\ rw' = AfterRewrite(rw, OrigSeq(p))
             /\ out' = Append(out, Sent(u))
    <2>0. PICK l \in Nat, n \in Nat : l = Len(out) /\ n = l + 1
      BY <1>2
    <2>1. /\ DOMAIN out = 1..l /\ DOMAIN out' = 1..n /\ Len(out') = n
          /\ out'[n] = Sent(u) /\ \A i \in 1..l : out'[i] = out[i] /\ out[i] \in Emitted
      BY <1>2, <1>5, <2>0
    <2>2. rw.speaker = u
      BY <1>5 DEF RewriteResult
    <2>3. rw'.speaker = u
      BY <1>2, <1>5, <2>2, RewriteFacts
    <2>4. /\ out'[n].pkt = p /\ out'[n].turn = turn
          /\ out'[n].seq = rw'.last_virtual_seq
      BY <1>5, <2>0, <2>1 DEF Sent
    <2>5. TurnsFollow'
      <3>1. \A i \in 1..l : out[i].turn \in Nat /\ out[i].turn <= turn
        BY <2>0, <2>1 DEF AdvanceInv, NackInv, IInv, Placed, Emitted
      <3>2. \A i, j \in 1..n : i <= j => out'[i].turn <= out'[j].turn
        BY <1>2, <2>0, <2>1, <2>4, <3>1 DEF AdvanceInv, TurnsFollow
      <3>3. \A i \in 1..n : out'[i].turn = turn => out'[i].pkt.user = u
        BY <1>2, <2>0, <2>1, <2>2, <2>4 DEF AdvanceInv, TurnsFollow
      <3>4. out' # <<>>
        BY <2>0, <2>1
      <3> QED
        BY <1>1, <2>0, <2>1, <2>3, <2>4, <3>2, <3>3, <3>4 DEF TurnsFollow
    <2>6. ASSUME ordered PROVE InOrder' /\ VirtualStreamAdvances'
      <3>1. InOrder /\ VirtualStreamAdvances
        BY <2>6 DEF AdvanceInv, OrderInv
      <3>2. InOrder'
        <4>1. ASSUME NEW i \in 1..l, out[i].pkt.user = u PROVE out[i].pkt.n < p.n
          BY <1>1, <2>1, <2>0, <3>1, <4>1, LaterPlace
        <4>2. \A i, j \in 1..n : i < j /\ out'[i].pkt.user = out'[j].pkt.user
                                   => out'[i].pkt.n < out'[j].pkt.n
          BY <1>2, <2>0, <2>1, <2>4, <3>1, <4>1 DEF InOrder
        <4> QED
          BY <1>1, <1>3, <2>0, <2>1, <3>1, <4>2 DEF InOrder
      <3>3. VirtualStreamAdvances'
        <4> SUFFICES ASSUME NEW i \in 1..l
                     PROVE  LET ahead == IF out'[i + 1].turn = out'[i].turn
                                         THEN out'[i + 1].pkt.n - out'[i].pkt.n ELSE 1
                            IN  /\ ahead >= 1
                                /\ WrappingSub(out'[i + 1].seq, out'[i].seq) = ahead
          BY <2>0, <2>1 DEF VirtualStreamAdvances
        <4>1. CASE i = l
          <5>1. out # <<>> /\ Sent(u).turn = turn /\ Sent(u).pkt = p
            BY <1>2, <2>0, <4>1 DEF Sent
          <5> QED
            BY <1>5, <2>0, <2>1, <2>2, <3>1, <4>1, <5>1, NextIsAhead
        <4>2. CASE i # l
          <5>1. i \in 1..Len(out) - 1 /\ out'[i] = out[i] /\ out'[i + 1] = out[i + 1]
            BY <2>0, <2>1, <4>2
          <5> QED
            BY <2>6, <3>1, <5>1 DEF VirtualStreamAdvances
        <4> QED
          BY <4>1, <4>2
      <3> QED
        BY <3>2, <3>3
    <2> QED
      BY <1>1, <2>5, <2>6 DEF OrderInv
  <1> QED
    BY <1>4, <1>5, FanOutCases DEF AdvanceInv, NackInv, IInv

\* Every step keeps the virtual stream where it was and in order.
LEMMA AdvanceStep == AdvanceInv /\ [Next]_vars => AdvanceInv'
  <1> SUFFICES ASSUME AdvanceInv, [Next]_vars PROVE TurnsFollow' /\ OrderInv'
    BY NackStep DEF AdvanceInv
  <1>1. IInv'
    BY NackStep DEF AdvanceInv, NackInv
  <1>2. ASSUME NEW u \in Users, FloorRequest(u) \/ FloorRelease(u)
        PROVE  TurnsFollow' /\ OrderInv'
    BY <1>2, AdvanceElsewhere DEF FloorRequest, FloorRelease, Turns, media
  <1>3. ASSUME TimerRevoke \/ NackAnswer \/ \E i \in DOMAIN out : NackReverse(i)
        PROVE  TurnsFollow' /\ OrderInv'
    BY <1>3, AdvanceElsewhere DEF TimerRevoke, Turns, NackAnswer, NackReverse, media
  <1>4. CASE UNCHANGED vars
    BY <1>4, AdvanceElsewhere DEF vars
  <1> QED
    BY <1>1, <1>2, <1>3, <1>4, AdvanceSwitch, AdvanceClear, AdvanceReceive, AdvanceFanOut
       DEF Next

\* As long as packets keep their order every packet of the virtual stream is ahead of the
\* one sent before it by the packets its publisher sent in between or, in a new turn, by
\* one: through every change of speaker, repeated request and late clear_speaker, however
\* many publishers, of fewer than SeqSpace packets each, take its numbers past the end.
THEOREM StreamAdvances == Spec => []VirtualStreamAdvances
  <1>1. AdvanceInv => VirtualStreamAdvances
    BY DEF AdvanceInv, OrderInv, VirtualStreamAdvances
  <1> QED
    BY <1>1, AdvanceInit, AdvanceStep, PTL DEF Spec
=============================================================================
