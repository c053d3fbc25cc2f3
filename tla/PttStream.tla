------------------------------- MODULE PttStream -------------------------------
(***************************************************************************)
(* The media path of a push-to-talk room, for one kind of media: the RTP    *)
(* streams of the speakers, the workers that receive them (handle_srtp of   *)
(* src/transport/udp/ingress.rs: cache, gate, rewrite, fan-out), the        *)
(* rewriter, the tasks that switch and clear it, and the NACKs of the       *)
(* listeners.  A publisher's packets are all received by the same worker,   *)
(* one at a time; between the gate, which reads the floor, and the rewriter *)
(* the other workers and the signaling tasks go on.  Of the tasks, only     *)
(* what they do to the floor and the rewriter is kept (PttRoom has the rest)*)
(***************************************************************************)
EXTENDS PttRewriter, Sequences

CONSTANTS
    Nothing,     \* no packet
    Timer,       \* the task running run_floor_timer
    first_seq,   \* the sequence number each publisher begins with
    sent_before, \* the last number of the virtual stream before these publishers came
    MaxPackets,  \* bound on the packets of each publisher
    MaxCalls     \* bound on the calls to the floor and the NACKs together

ASSUME StreamAssumption ==
    /\ Nothing \notin Users
    /\ Timer \notin Users
    /\ first_seq \in [Users -> Seq16]
    /\ sent_before \in Seq16
    /\ MaxPackets \in Nat /\ MaxPackets < SeqSpace
    /\ MaxCalls \in Nat

Tasks == Users \cup {Timer}

VARIABLES
    floor,     \* the FloorController's speaker, or NoOne
    task,      \* what each task has yet to do to the rewriter
    calls,     \* counts towards MaxCalls
    rw,        \* the PttRewriter's state
    received,  \* per publisher, which of its packets arrived and are in its RtpCache
    worker,    \* per publisher, the packet its worker has let through the gate
    out,       \* the virtual stream: what was fanned out rewritten, in order
    turn,      \* history: how often the rewriter was switched
    ordered,   \* history: has no packet overtaken another on its way to the server?
    nack,      \* the NACK being served: the packet lost, and the seq looked up
    answer     \* what the last NACK to be answered asked for, and what it got

vars == <<floor, task, calls, rw, received, worker, out, turn, ordered, nack, answer>>
media == <<received, worker, out, ordered>>
nacks == <<nack, answer>>

\* A packet is its publisher and its place in the publisher's stream; one that is
\* let through the gate may be the start of a keyframe; one that is sent carries the
\* turn it was sent in and its virtual sequence number.
Places == 0..(MaxPackets - 1)
Packet == [user : Users, n : Places]
Arrived == [pkt : Packet, key : BOOLEAN]
Emitted == [pkt : Packet, key : BOOLEAN, turn : Nat, seq : Seq16]

OrigSeq(p) == WrappingAdd(first_seq[p.user], p.n)

\* A room outlives its publishers: what earlier ones sent is remembered.
Init ==
    /\ floor = NoOne
    /\ task = [t \in Tasks |-> "rest"]
    /\ calls = 0
    /\ rw = [NewRewriter EXCEPT !.last_virtual_seq = sent_before]
    /\ received = [u \in Users |-> {}]
    /\ worker = [u \in Users |-> Nothing]
    /\ out = <<>>
    /\ turn = 0
    /\ ordered = TRUE
    /\ nack = Nothing
    /\ answer = Nothing

-----------------------------------------------------------------------------
\* The floor changes hands, and the task that did it goes on to the rewriter.

Turns(t, now, next) ==
    /\ task[t] = now
    /\ task' = [task EXCEPT ![t] = next]
    /\ UNCHANGED <<media, nacks>>

Calls == calls < MaxCalls /\ calls' = calls + 1

\* FLOOR_REQUEST, by a user that finds the floor free or its own.
FloorRequest(u) ==
    /\ Calls
    /\ \/ floor = NoOne /\ floor' = u /\ Turns(u, "rest", "grant")
       \/ floor = u /\ UNCHANGED floor /\ Turns(u, "rest", "again")
    /\ UNCHANGED <<rw, turn>>

\* FLOOR_RELEASE, ROOM_LEAVE and disconnect; a release of a free floor counts too.
FloorRelease(u) ==
    /\ Calls
    /\ floor \in {NoOne, u}
    /\ floor' = NoOne
    /\ Turns(u, "rest", "clear")
    /\ UNCHANGED <<rw, turn>>

\* run_floor_timer finds the current burst overdue.
TimerRevoke ==
    /\ floor # NoOne
    /\ floor' = NoOne
    /\ Turns(Timer, "rest", "clear")
    /\ UNCHANGED <<calls, rw, turn>>

Switch(u) ==
    /\ task[u] \in {"grant", "again"}
    /\ Turns(u, task[u], "rest")
    /\ rw' = AfterSwitch(rw, u)
    /\ turn' = turn + 1
    /\ UNCHANGED <<floor, calls>>

Clear(t) ==
    /\ Turns(t, "clear", "rest")
    /\ rw' = AfterClear(rw)
    /\ UNCHANGED <<floor, calls, turn>>

-----------------------------------------------------------------------------
\* A packet of u's arrives: in the cache, and past the gate if u has the floor.
\* The network may lose packets, and let one overtake another.
Receive(u, n, key) ==
    /\ worker[u] = Nothing
    /\ n \notin received[u]
    /\ received' = [received EXCEPT ![u] = @ \cup {n}]
    /\ worker' = IF floor = u
                 THEN [worker EXCEPT ![u] = [pkt |-> [user |-> u, n |-> n], key |-> key]]
                 ELSE worker
    /\ ordered' = (ordered /\ \A m \in received[u] : m < n)
    /\ UNCHANGED <<floor, task, calls, rw, out, turn, nacks>>

\* rewrite, and the fan-out to the listeners' egress queues of what comes out of it.
\* After Skip the packet goes out as it came, outside the virtual stream.
FanOut(u) ==
    /\ worker[u] # Nothing
    /\ worker' = [worker EXCEPT ![u] = Nothing]
    /\ LET p == worker[u].pkt
           result == RewriteResult(rw, u, worker[u].key)
       IN  \/ /\ result = "Ok"
              /\ rw' = AfterRewrite(rw, OrigSeq(p))
              /\ out' = Append(out, [pkt |-> p, key |-> worker[u].key, turn |-> turn,
                                     seq |-> AfterRewrite(rw, OrigSeq(p)).last_virtual_seq])
           \/ /\ result \in {"PendingKeyframe", "Skip"}
              /\ UNCHANGED <<rw, out>>
    /\ UNCHANGED <<floor, task, calls, received, turn, ordered, nacks>>

-----------------------------------------------------------------------------
\* handle_nack_block: the rewriter maps the virtual number back ...
NackReverse(i) ==
    /\ Calls
    /\ nack = Nothing
    /\ nack' = [lost |-> out[i].pkt, orig |-> ReverseSeq(rw, out[i].seq)]
    /\ UNCHANGED <<floor, task, rw, media, turn, answer>>

\* Mutant: in any cache.
InAnyCache(seq) ==
    {p \in Packet : p.n \in received[p.user] /\ OrigSeq(p) = seq}

\* ... and then the floor says in whose cache to look for it.
InCache(seq) ==
    {p \in Packet : p.user = floor /\ p.n \in received[floor] /\ OrigSeq(p) = seq}

NackAnswer ==
    /\ nack # Nothing
    /\ nack' = Nothing
    /\ \/ \E p \in InCache(nack.orig) : answer' = [lost |-> nack.lost, sent |-> p]
       \/ InCache(nack.orig) = {} /\ UNCHANGED answer
    /\ UNCHANGED <<floor, task, calls, rw, media, turn>>

Next ==
    \/ \E u \in Users :
         FloorRequest(u) \/ FloorRelease(u) \/ Switch(u) \/ FanOut(u)
    \/ \E t \in Tasks : Clear(t)
    \/ TimerRevoke
    \/ \E u \in Users, n \in Places, key \in BOOLEAN : Receive(u, n, key)
    \/ \E i \in DOMAIN out : NackReverse(i)
    \/ NackAnswer

Spec == Init /\ [][Next]_vars

-----------------------------------------------------------------------------
\* The variables have their types.
TypeOK ==
    /\ floor \in Users \cup {NoOne}
    /\ task \in [Tasks -> {"rest", "grant", "again", "clear"}]
    /\ calls \in 0..MaxCalls
    /\ rw \in RewriteState
    /\ received \in [Users -> SUBSET Places]
    /\ worker \in [Users -> Arrived \cup {Nothing}]
    /\ out \in Seq(Emitted)
    /\ turn \in Nat
    /\ ordered \in BOOLEAN
    /\ nack \in [lost : Packet, orig : Seq16] \cup {Nothing}
    /\ answer \in [lost : Packet, sent : Packet] \cup {Nothing}

\* As long as the network keeps the order of packets the listeners' jitter buffer sees
\* one stream whose numbers go up without a jump: through every change of speaker,
\* repeated request and late clear_speaker, and past the end of the u16 range, a packet
\* is ahead of the one sent before it by the packets its publisher sent in between or,
\* in a new turn, by one.
VirtualStreamAdvances ==
    ordered => \A i \in 1..Len(out) - 1 :
        LET ahead == IF out[i + 1].turn = out[i].turn THEN out[i + 1].pkt.n - out[i].pkt.n
                     ELSE 1
        IN  ahead >= 1 /\ WrappingSub(out[i + 1].seq, out[i].seq) = ahead

\* The listeners' video decoder is never sent an inter frame of a speaker whose
\* keyframe was not sent since it last saw another speaker.
DecodableFromKeyframe ==
    require_keyframe => \A j \in DOMAIN out :
        \E i \in 1..j : /\ out[i].key
                        /\ \A k \in i..j : out[k].pkt.user = out[j].pkt.user

\* However the network reorders the packets, those of one turn stand in the virtual
\* stream as they stood in their own: the offset is fixed by whichever comes first.
RelativeOrderIsKept ==
    \A i, j \in DOMAIN out :
        out[i].turn = out[j].turn =>
            WrappingSub(out[j].seq, out[i].seq)
                = WrappingSub(OrigSeq(out[j].pkt), OrigSeq(out[i].pkt))

\* A NACK for a packet of the turn that goes on is mapped back to that packet.
NackOfThisTurnIsExact ==
    \A i \in DOMAIN out :
        out[i].turn = turn /\ ~rw.awaiting_first_packet
            => ReverseSeq(rw, out[i].seq) = OrigSeq(out[i].pkt)

\* However long a NACK's handler takes between the two, while the burst goes on it sends
\* again what was lost.
AnswerOfThisTurnIsExact ==
    [][\A i \in DOMAIN out :
         /\ answer' # answer /\ answer'.lost = out[i].pkt
         /\ out[i].turn = turn /\ floor = out[i].pkt.user
         => answer'.sent = answer'.lost]_vars
=============================================================================
