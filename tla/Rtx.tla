---------------------------------- MODULE Rtx ----------------------------------
(***************************************************************************)
(* Retransmission and feedback in a conference room: what a subscriber      *)
(* misses, asks for and is sent again.  The publishers' RTP goes through    *)
(* handle_srtp into the RtpCache and the subscriber's egress queue, the      *)
(* subscriber's RTCP through handle_subscribe_rtcp, which answers NACKs from *)
(* the cache and relays the rest (udp/ingress.rs, udp/rtcp.rs,               *)
(* room/participant.rs).                                                     *)
(*                                                                          *)
(* A publisher has one track and numbers its packets; each carries the      *)
(* number modulo SeqRange.  The subscriber comes when some have arrived      *)
(* already.  The network loses packets and                                   *)
(* lets one overtake another by less than the cache holds, and while a       *)
(* packet or a request is on its way fewer packets than half the numbers are *)
(* sent; it duplicates none.  The RTX SSRC of a track is taken to differ     *)
(* from every other SSRC, the sequence number of an RTX packet is left out,  *)
(* and all DTLS sessions are ready.  Push-to-talk rooms, where the numbers   *)
(* are rewritten, are in PttStream.                                          *)
(***************************************************************************)
EXTENDS Integers, Sequences, FiniteSets, SequencesExt

CONSTANTS
    None,
    Videos, Audios,  \* the publishers of a video and of an audio track
    SeqRange,        \* sequence numbers (2^16)
    CacheSize,       \* RTP_CACHE_SIZE (512)
    QueueSize,       \* EGRESS_QUEUE_SIZE (256)
    NackBits,        \* bits of a NACK's BLP (16)
    Window,          \* how far back the subscriber asks for packets
    Mantissa,        \* bits of a REMB's mantissa (18)
    Bitrates,        \* REMB_BITRATE_BPS, which may be any
    Compounds,       \* bound: what a compound RTCP packet consists of, and of whom it is
    Overtaking,      \* how far behind the last packet one may arrive, less than the cache
    Earlier,         \* per publisher, its packets that arrived before the subscriber came
    FirstPacket,     \* and the number of its first packet since
    LastPacket,      \* bound: and of its last one
    MaxLosses,       \* bound: packets lost or overtaken before the server, or lost behind it
    MaxReports       \* bound: sender reports and REMBs

Publishers == Videos \cup Audios

\* 2^n.
PowerOfTwo[n \in 0..63] == IF n = 0 THEN 1 ELSE 2 * PowerOfTwo[n - 1]

\* A bitrate is a u64, 46 being what its 64 bits exceed the mantissa by.
Shifts == 0..46

ASSUME RtxAssumption ==
    /\ Videos \cap Audios = {} /\ None \notin Publishers /\ None \notin Int
    /\ SeqRange \in Nat /\ CacheSize \in Nat \ {0} /\ Window \in Nat
    /\ SeqRange % CacheSize = 0 /\ 2 * CacheSize <= SeqRange
    /\ Overtaking \in Nat /\ Overtaking < CacheSize /\ Overtaking + Window < SeqRange \div 2
    /\ Earlier \in [Publishers -> SUBSET Nat]
    /\ \A p \in Publishers : \A n \in Earlier[p] : n < FirstPacket[p]
    /\ FirstPacket \in [Publishers -> Nat] /\ LastPacket \in [Publishers -> Nat]
    /\ QueueSize \in Nat \ {0} /\ NackBits \in Nat /\ MaxLosses \in Nat /\ MaxReports \in Nat
    /\ Mantissa \in 1..18
    /\ \A bps \in Bitrates : /\ bps \in Nat
                             /\ \E e \in Shifts : bps \div PowerOfTwo[e] < PowerOfTwo[Mantissa]
    /\ Compounds \subseteq Seq([op : {"nack", "rr", "pli", "remb"}, about : Publishers \cup {None}])
    /\ \A c \in Compounds : \A i \in DOMAIN c : c[i].op = "nack" => c[i].about # None

VARIABLES
    published,   \* publishers whose track has been added
    highest,     \* per publisher, the last of its packets that have arrived at the server
    arrived,     \* history: per publisher, the packets that have
    rtp_cache,   \* per publisher: slot -> packet
    queue,       \* the subscriber's egress queue
    worker,      \* what the worker that has the subscriber's RTCP still has to do
    got,         \* per publisher: what the subscriber has of its last packets
    losses,      \* counts towards MaxLosses
    reports,     \* counts towards MaxReports
    relayed,     \* after Relay: the compound served, and what became of it
    remb         \* after SendRemb: the bitrate, and the bytes that say it

server == <<published, highest, arrived, rtp_cache>>
vars == <<server, queue, worker, got, losses, reports, relayed, remb>>

AtRest == [nacks |-> <<>>, answers |-> <<>>, relay |-> <<>>, compound |-> None]

LastOf(numbers) ==
    IF numbers = {} THEN None ELSE CHOOSE n \in numbers : \A m \in numbers : m <= n

Init ==
    /\ published = {}
    /\ highest = [p \in Publishers |-> FirstPacket[p] - 1]
    /\ arrived = Earlier
    /\ rtp_cache = [p \in Publishers |-> [slot \in 0..CacheSize - 1 |->
                      IF p \in Videos THEN LastOf({n \in Earlier[p] : n % CacheSize = slot})
                      ELSE None]]
    /\ queue = <<>>
    /\ worker = AtRest
    /\ got = [p \in Publishers |-> {}]
    /\ losses = 0
    /\ reports = 0
    /\ relayed = None
    /\ remb = None

Seq16(n) == n % SeqRange

\* The elements of a sequence that are in a set, in their order.
Only(s, S) == FlattenSeq([i \in DOMAIN s |-> IF s[i] \in S THEN <<s[i]>> ELSE <<>>])
Quiet == relayed' = None /\ remb' = None

-----------------------------------------------------------------------------
\* What the subscriber has of the last packets, and what it misses.
Highest(p) == CHOOSE n \in got[p] : \A m \in got[p] : m <= n
Kept(numbers) == {n \in numbers : \A m \in numbers : m - n <= Window}
Missing(p) ==
    IF got[p] = {} THEN {}
    ELSE {n \in Highest(p) - Window..Highest(p) : n >= FirstPacket[p]} \ got[p]

\* What it may still be asked for, or sent: a packet lies by less than half the numbers ahead
\* of each that is on its way, of each it can still ask for, and of each it has asked for.
AskedFor(p) ==
    (UNION {x.missing : x \in {y \in Range(worker.nacks) : y.about = p}})
        \cup (UNION {x.missing : x \in {y \in Range(worker.answers \o queue) : y.op = "rtx" /\ y.from = p}})

Sent(p) ==
    {x.n : x \in {y \in Range(queue) : y.op = "rtp" /\ y.from = p}}
        \cup (IF got[p] = {} THEN {} ELSE {Highest(p)})

InTime(p, n) ==
    /\ \A k \in Sent(p) : n - k + Window < SeqRange \div 2
    /\ \A m \in AskedFor(p) : n - m < SeqRange \div 2

-----------------------------------------------------------------------------
\* PUBLISH_TRACKS: add_track, which gives a video track an RTX SSRC.
AddTrack(p) ==
    /\ p \notin published
    /\ published' = published \cup {p}
    /\ UNCHANGED <<highest, arrived, rtp_cache, queue, worker, got, losses, reports>> /\ Quiet

HasRtx(p) == p \in published \cap Videos

\* Mutant: the queue has no end.
SendAnyway(packet) == queue' = Append(queue, packet)

\* try_send: a full queue drops the packet.
TrySend(packet) ==
    queue' = IF Len(queue) < QueueSize THEN Append(queue, packet) ELSE queue

\* RtpCache: the slot is the number modulo the size; a packet is returned only if it has
\* the number asked for.
CacheStore(p, n) == [rtp_cache EXCEPT ![p][Seq16(n) % CacheSize] = n]

\* Mutant: whatever is in the slot.
SlotGet(p, seq) == rtp_cache[p][seq % CacheSize]

CacheGet(p, seq) ==
    LET n == rtp_cache[p][seq % CacheSize] IN IF n # None /\ Seq16(n) = seq THEN n ELSE None

\* The slot of packet m holds an older one of the same number: whatever fell into the
\* slot since then was lost.
IsStale(p, m) ==
    \E k \in arrived[p] \ {m} :
        /\ Seq16(k) = Seq16(m)
        /\ \A j \in arrived[p] : j % CacheSize = m % CacheSize => j <= k

\* handle_srtp: a video packet is cached; each packet is fanned out.  Packets before it
\* may have been lost, or come later.
Rtp(p, n) ==
    /\ n \notin arrived[p] /\ n + Overtaking >= highest[p] /\ InTime(p, n)
    /\ losses' = losses + (IF n > highest[p] THEN n - highest[p] - 1 ELSE 0)
    /\ losses' <= MaxLosses
    /\ highest' = [highest EXCEPT ![p] = IF n > @ THEN n ELSE @]
    /\ arrived' = [arrived EXCEPT ![p] = @ \cup {n}]
    /\ rtp_cache' = IF p \in Videos THEN CacheStore(p, n) ELSE rtp_cache
    /\ TrySend([op |-> "rtp", from |-> p, seq |-> Seq16(n), n |-> n])
    /\ UNCHANGED <<published, worker, got, reports>> /\ Quiet

\* relay_publish_rtcp: a sender report takes its place in the queue.
SenderReport(p) ==
    /\ highest[p] >= FirstPacket[p]
    /\ reports < MaxReports /\ reports' = reports + 1
    /\ TrySend([op |-> "sr", from |-> p, seq |-> 0, n |-> 0])
    /\ UNCHANGED <<server, worker, got, losses>> /\ Quiet

-----------------------------------------------------------------------------
\* The subscriber.

\* The number next to the highest one that a sequence number may mean.
Unwrap(p, seq) ==
    CHOOSE n \in (Highest(p) - SeqRange \div 2 + 1)..(Highest(p) + SeqRange \div 2) : Seq16(n) = seq

\* run_egress_task takes a packet out of the queue and sends it; the subscriber gets it.
Deliver ==
    LET x == Head(queue) IN
    /\ queue # <<>>
    /\ queue' = Tail(queue)
    /\ got' = CASE x.op = "rtp" -> [got EXCEPT ![x.from] = Kept(@ \cup {x.n})]
                [] x.op = "rtx" -> [got EXCEPT ![x.from] = Kept(@ \cup {Unwrap(x.from, x.seq)})]
                [] OTHER -> got
    /\ UNCHANGED <<server, worker, losses, reports>> /\ Quiet

Lose ==
    /\ queue # <<>>
    /\ queue' = Tail(queue)
    /\ losses < MaxLosses /\ losses' = losses + 1
    /\ UNCHANGED <<server, worker, got, reports>> /\ Quiet

\* Compound RTCP is a sequence of 32-bit words.  The header of a block has its length in
\* words, less one; then there are the SSRCs of sender and media source, and for a NACK
\* its items, each a number and a bit for each of the next ones (and, for the properties,
\* what the subscriber misses).
Header(op, len) == [op |-> op, len |-> len]
Ssrc(p) == [ssrc |-> p]

Items(missing) ==
    LET Packed[k \in 0..Cardinality(missing)] ==
          IF k = 0 THEN [items |-> <<>>, left |-> missing]
          ELSE LET done == Packed[k - 1] IN
               IF done.left = {} THEN done
               ELSE LET pid == CHOOSE n \in done.left : \A m \in done.left : n <= m
                        bits == {i \in 0..NackBits - 1 : pid + i + 1 \in done.left} IN
                    [items |-> Append(done.items, [pid |-> Seq16(pid), blp |-> bits, missing |-> missing]),
                     left |-> done.left \ ({pid} \cup {pid + i + 1 : i \in bits})]
    IN Packed[Cardinality(missing)].items

\* A REMB has no media source, an RR may be without a report.
Block(b) ==
    CASE b.op = "nack" ->
           LET items == Items(Missing(b.about)) IN
           <<Header("nack", 2 + Len(items)), Ssrc(None), Ssrc(b.about)>> \o items
      [] b.op = "rr" /\ b.about = None -> <<Header("rr", 1), Ssrc(None)>>
      [] OTHER -> <<Header(b.op, 2), Ssrc(None), Ssrc(b.about)>>

-----------------------------------------------------------------------------
\* One round of split_compound_rtcp's loop: the block at the offset, unless it does not
\* fit.  The third word from its start is taken for the SSRC it is about, even where the
\* block is shorter.
NextBlock(words, done) ==
    LET offset == done.offset
        len == words[offset + 1].len + 1 IN
    IF offset + 1 > Len(words) \/ offset + len > Len(words) THEN done
    ELSE [offset |-> offset + len,
          blocks |-> Append(done.blocks,
             [op |-> words[offset + 1].op,
              media_ssrc |-> IF offset + 3 <= Len(words) THEN words[offset + 3] ELSE Ssrc(None),
              words |-> SubSeq(words, offset + 1, offset + len)])]

\* Mutant: a block that reaches the end does not fit.
SplitButLast(words) ==
    LET Split[k \in 0..Len(words)] ==
          IF k = 0 THEN [offset |-> 0, blocks |-> <<>>] ELSE NextBlock(Front(words), Split[k - 1])
    IN Split[Len(words)].blocks

\* split_compound_rtcp: every block has a word at least.
SplitCompound(words) ==
    LET Split[k \in 0..Len(words)] ==
          IF k = 0 THEN [offset |-> 0, blocks |-> <<>>] ELSE NextBlock(words, Split[k - 1])
    IN Split[Len(words)].blocks

\* parse_rtcp_nack.
NackItems(block) ==
    [i \in 1..(Len(block.words) - 3) |->
        LET item == block.words[i + 3] IN
        [about |-> block.media_ssrc.ssrc, pid |-> item.pid, blp |-> item.blp, missing |-> item.missing]]


\* expand_nack: the number, and one after it for each bit.
ExpandNack(item) ==
    <<item.pid>> \o
    FlattenSeq([i \in 1..NackBits |-> IF i - 1 \in item.blp THEN <<Seq16(item.pid + i)>> ELSE <<>>])

\* handle_subscribe_rtcp takes the compound apart; NACKs come first.
Rtcp(compound) ==
    /\ worker = AtRest
    /\ \A i \in DOMAIN compound : compound[i].op = "nack" => Missing(compound[i].about) # {}
    /\ \E words \in {FlattenSeq([i \in DOMAIN compound |-> Block(compound[i])])} :
       \E blocks \in {SplitCompound(words)} :
         worker' =
           [nacks |-> FlattenSeq([i \in DOMAIN blocks |->
                          IF blocks[i].op = "nack" THEN NackItems(blocks[i]) ELSE <<>>]),
            answers |-> <<>>,
            relay |-> Only(blocks, {b \in Range(blocks) : b.op \in {"rr", "pli", "remb"}}),
            compound |-> compound]
    /\ UNCHANGED <<server, queue, got, losses, reports>> /\ Quiet

\* handle_nack_block, one item: what the publisher's cache has of it, under its lock.
LookUp ==
    LET item == Head(worker.nacks)
        p == item.about
        stale == {m \in item.missing : IsStale(p, m)}
        Rtx(n) == [op |-> "rtx", from |-> p, seq |-> Seq16(n), n |-> n,
                   missing |-> item.missing, stale |-> stale] IN
    /\ worker.nacks # <<>> /\ worker.answers = <<>>
    /\ \E asked \in {ExpandNack(item)} :
         worker' = [worker EXCEPT
           !.nacks = Tail(@),
           !.answers = FlattenSeq([i \in DOMAIN asked |->
                           IF HasRtx(p) /\ CacheGet(p, asked[i]) # None
                           THEN <<Rtx(CacheGet(p, asked[i]))>> ELSE <<>>])]
    /\ UNCHANGED <<server, queue, got, losses, reports>> /\ Quiet

\* build_rtx_packet, with the original number in front of the payload, into the queue.
SendRtx ==
    /\ worker.answers # <<>>
    /\ TrySend(Head(worker.answers))
    /\ worker' = [worker EXCEPT !.answers = Tail(@)]
    /\ UNCHANGED <<server, got, losses, reports>> /\ Quiet

\* The rest is sorted by media source, and goes to the publisher that has the track.
Relay ==
    /\ worker # AtRest /\ worker.nacks = <<>> /\ worker.answers = <<>>
    /\ relayed' = [compound |-> worker.compound, known |-> published,
                   to |-> [p \in published |->
                       Only(worker.relay, {b \in Range(worker.relay) : b.media_ssrc = Ssrc(p)})]]
    /\ worker' = AtRest
    /\ remb' = None
    /\ UNCHANGED <<server, queue, got, losses, reports>>

\* Mutant: a mantissa of one bit too many.
EncodeWide(bps) ==
    LET exp == CHOOSE e \in Shifts : /\ bps \div PowerOfTwo[e] <= PowerOfTwo[Mantissa]
                                    /\ \A d \in 0..e - 1 : bps \div PowerOfTwo[d] > PowerOfTwo[Mantissa]
    IN [exp |-> exp, mantissa |-> bps \div PowerOfTwo[exp]]

\* encode_remb_bitrate.
EncodeRembBitrate(bps) ==
    LET exp == CHOOSE e \in Shifts : /\ bps \div PowerOfTwo[e] < PowerOfTwo[Mantissa]
                                    /\ \A d \in 0..e - 1 : bps \div PowerOfTwo[d] >= PowerOfTwo[Mantissa]
    IN [exp |-> exp, mantissa |-> bps \div PowerOfTwo[exp]]

\* build_remb: six bits of exponent and eighteen of mantissa in three bytes.
BuildRemb(bps) ==
    LET r == EncodeRembBitrate(bps) IN
    <<4 * r.exp + ((r.mantissa \div 65536) % 4), (r.mantissa \div 256) % 256, r.mantissa % 256>>

\* send_remb_to_publishers, for one that has a video track.
SendRemb(p, bps) ==
    /\ p \in published \cap Videos
    /\ reports < MaxReports /\ reports' = reports + 1
    /\ remb' = [bps |-> bps, bytes |-> BuildRemb(bps)]
    /\ relayed' = None
    /\ UNCHANGED <<server, queue, worker, got, losses>>

Worker == LookUp \/ SendRtx \/ Relay

Next ==
    \/ \E p \in Publishers : \/ AddTrack(p) \/ SenderReport(p)
                             \/ \E bps \in Bitrates : SendRemb(p, bps)
                             \/ \E n \in FirstPacket[p]..LastPacket[p] : Rtp(p, n)
    \/ Deliver \/ Lose
    \/ \E compound \in Compounds : Rtcp(compound)
    \/ Worker

Spec == Init /\ [][Next]_vars

\* The egress task and the worker go on, and a subscriber that misses packets goes on
\* asking for them.
FairSpec ==
    /\ Spec
    /\ WF_vars(Worker) /\ WF_vars(Deliver)
    /\ \A p \in Videos : SF_vars(Rtcp(<<[op |-> "nack", about |-> p]>>))

-----------------------------------------------------------------------------
\* The variables have their types; the queue keeps its bound.
Numbers(p) == Earlier[p] \cup FirstPacket[p]..LastPacket[p]

TypeOK ==
    /\ published \subseteq Publishers
    /\ \A p \in Publishers :
         /\ highest[p] \in Numbers(p) \cup {FirstPacket[p] - 1}
         /\ \A slot \in 0..CacheSize - 1 : rtp_cache[p][slot] \in Numbers(p) \cup {None}
         /\ got[p] \subseteq Numbers(p) /\ arrived[p] \subseteq Numbers(p)
         /\ p \in Audios => \A slot \in 0..CacheSize - 1 : rtp_cache[p][slot] = None
    /\ Len(queue) <= QueueSize
    /\ \A i \in DOMAIN queue : queue[i].op \in {"rtp", "rtx", "sr"} /\ queue[i].from \in Publishers
    /\ losses \in 0..MaxLosses /\ reports \in 0..MaxReports

\* The number in front of an RTX packet's payload means a packet to the subscriber that it
\* missed when it asked, however the numbers have wrapped in the meantime; and it is that
\* packet, however the ring of the cache has, unless the slot still held an older packet of
\* the same number.
RtxFillsTheGap ==
    \A x \in Range(worker.answers \o queue) :
        x.op = "rtx" => LET m == Unwrap(x.from, x.seq) IN
                        m \in x.missing /\ (x.n = m \/ m \in x.stale)

\* Whatever a compound consists of and in whatever order, each PLI, and each RR by its
\* first report, comes to the publisher of the track, once, and nothing else does.
RelayIsComplete ==
    relayed # None =>
        \A p \in relayed.known :
            [i \in DOMAIN relayed.to[p] |-> relayed.to[p][i].op]
              = LET mine == Only(relayed.compound, {b \in Range(relayed.compound) : b.op # "nack" /\ b.about = p})
                IN [i \in DOMAIN mine |-> mine[i].op]

\* The publisher decodes a REMB to no more than the bitrate configured, and to less than
\* one step of the mantissa below.
RembIsClose ==
    remb # None =>
        LET b == remb.bytes
            decoded == ((b[1] % 4) * 65536 + b[2] * 256 + b[3]) * PowerOfTwo[b[1] \div 4]
        IN decoded <= remb.bps /\ remb.bps - decoded <= remb.bps \div PowerOfTwo[Mantissa - 1]

\* Packets of a published video track that the subscriber misses and the cache holds are
\* sent until it has them, whether a packet or its RTX was dropped by the full queue or
\* lost: while there are any, a time comes when there are none.
Recoverable == {p \in published \cap Videos : \E n \in Missing(p) : CacheGet(p, Seq16(n)) = n}

===============================================================================
