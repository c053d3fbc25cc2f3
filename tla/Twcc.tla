--------------------------------- MODULE Twcc ---------------------------------
(***************************************************************************)
(* Transport-wide congestion control of one publisher (udp/twcc.rs): the    *)
(* sequence number in a header extension, the TwccRecorder that notes the   *)
(* arrival of each, and the feedback that the 100 ms timer builds from it,  *)
(* read back as the publisher reads it.                                      *)
(*                                                                          *)
(* Time is in ticks, Tick of which are the 250 us of a delta.  The client    *)
(* numbers its packets 0, 1, 2, ...; a packet carries its number modulo      *)
(* SeqRange, may be lost, and may be overtaken.  The SSRCs and the RTCP header *)
(* of the feedback are left out.                                             *)
(***************************************************************************)
EXTENDS Integers, Sequences, SequencesExt, FiniteSets, FiniteSetsExt

CONSTANTS
    None,
    ExtId,         \* TWCC_EXTMAP_ID (6)
    SeqRange,      \* sequence numbers (2^16)
    Capacity,      \* TWCC_RECORDER_CAPACITY (8192)
    StepBack,      \* how far behind max_seq an overfull recorder restarts (100)
    Symbols,       \* status symbols in a chunk (7)
    Byte,          \* values of a byte, and deltas in a step of the reference time (256)
    LargeDeltas,   \* what a large delta may be (-8192..8191)
    RefMod,        \* values of the reference time (2^24)
    FeedbackMod,   \* values of fb_pkt_count (2^8)
    Tick,
    Gaps,          \* bound: ticks between two arrivals
    Extensions,    \* bound: what the header extension of a packet holds
    Jump, Overtaking, \* bounds: how far packets are apart
    MaxSent,       \* bound: the number of the last packet
    MaxTime        \* bound: on now

ASSUME TwccAssumption ==
    /\ ExtId \in 1..14
    /\ {SeqRange, Capacity, Symbols, Byte, RefMod, FeedbackMod, Tick} \subseteq Nat \ {0}
    /\ SeqRange % Capacity = 0 /\ 2 * Capacity <= SeqRange /\ StepBack \in 0..(Capacity - 1)
    /\ LargeDeltas \subseteq Int /\ 0 \in LargeDeltas
    /\ \A d \in LargeDeltas : -(Byte * Byte) <= 2 * d /\ 2 * d < Byte * Byte
    /\ Gaps \subseteq Nat /\ MaxSent \in Nat /\ MaxTime \in Nat
    /\ SeqRange <= 256 * 256
    /\ Jump \in Nat /\ Jump < SeqRange \div 2 /\ Overtaking \in Nat /\ Overtaking < Capacity
    /\ None \notin Int /\ None \notin [twcc_seq : Int, arrival : Int]

\* The elements of a header extension have four bits for the id and, less one, the length.
ASSUME ExtensionAssumption ==
    \A extension \in Extensions :
        /\ extension \in Seq([id : 0..15, data : Seq(0..255)])
        /\ \A i \in DOMAIN extension :
             extension[i].id \notin {0, ExtId} => Len(extension[i].data) \in 1..16

Packets == 0..MaxSent

VARIABLES
    now,               \* when the last packet arrived
    arrivals,          \* TwccRecorder.arrivals: slot -> [twcc_seq, arrival]
    pending_base_seq,
    max_seq,
    started,
    base_time,
    fb_pkt_count,
    feedback,          \* the feedback that has just been sent
    highest,           \* history: the largest number of a packet that has been recorded
    when,              \* history: packet -> its arrival
    covered            \* history: the packets up to here have been reported or given up

recorder == <<arrivals, pending_base_seq, max_seq, started, base_time>>
history == <<highest, when, covered>>
vars == <<now, recorder, fb_pkt_count, feedback, history>>

Init ==
    /\ now = 0
    /\ arrivals = [slot \in 0..Capacity - 1 |-> None]
    /\ pending_base_seq = 0 /\ max_seq = 0 /\ started = FALSE
    /\ base_time = None
    /\ fb_pkt_count = 0
    /\ feedback = None
    /\ highest = 0
    /\ when = [n \in Packets |-> None]
    /\ covered = 0

-----------------------------------------------------------------------------
\* The header extension.

\* One-byte form: elements [id, data], where the data of ExtId is the sequence number;
\* id 0 is a byte of padding.
Data(x, seq) == IF x.id = ExtId THEN <<seq \div 256, seq % 256>> ELSE x.data

Element(x, seq) ==
    IF x.id = 0 THEN <<0>> ELSE Cons(16 * x.id + Len(Data(x, seq)) - 1, Data(x, seq))

Serialize(extension, seq) ==
    FlattenSeq([i \in DOMAIN extension |-> Element(extension[i], seq)])

ParseTwccSeq(bytes) ==
    LET From[pos \in Nat \ {0}] ==
          IF pos > Len(bytes) THEN None
          ELSE LET id == bytes[pos] \div 16  len == 1 + (bytes[pos] % 16) IN
               IF bytes[pos] = 0 THEN From[pos + 1]
               ELSE IF id = 15 \/ pos + len > Len(bytes) THEN None
               ELSE IF id = ExtId /\ len >= 2 THEN 256 * bytes[pos + 1] + bytes[pos + 2]
               ELSE From[pos + 1 + len]
    IN From[1]

\* A packet carries a sequence number if an element has it and no terminator is before.
Carries(extension) ==
    \E i \in DOMAIN extension : /\ extension[i].id = ExtId
                                /\ \A j \in 1..i : extension[j].id # 15

-----------------------------------------------------------------------------
\* The recorder.

Slot(seq) == seq % Capacity
WrappingSub(a, b) == (a - b) % SeqRange

\* Mutant: whatever is in the slot.
Occupant(seq) == arrivals[Slot(seq)]

Get(seq) ==
    LET x == arrivals[Slot(seq)] IN IF x # None /\ x.twcc_seq = seq THEN x ELSE None

PendingCount == IF started THEN (max_seq - pending_base_seq + 1) % SeqRange ELSE 0

Record(seq) ==
    /\ arrivals' = [arrivals EXCEPT ![Slot(seq)] = [twcc_seq |-> seq, arrival |-> now']]
    /\ started' = TRUE
    /\ IF started
       THEN /\ max_seq' = IF WrappingSub(seq, max_seq) \in 1..(SeqRange \div 2 - 1) THEN seq ELSE max_seq
            /\ UNCHANGED <<pending_base_seq, base_time>>
       ELSE max_seq' = seq /\ pending_base_seq' = seq /\ base_time' = now'

\* A packet arrives; those between are lost or come later.  (A duplicate does not get
\* past SRTP.)
Arrive(n, gap, extension) ==
    LET seq == ParseTwccSeq(Serialize(extension, n % SeqRange)) IN
    /\ when[n] = None
    /\ started => n \in (highest - Overtaking)..(highest + Jump)
    /\ ~started => n <= Jump
    /\ now + gap <= MaxTime
    /\ now' = now + gap
    /\ IF seq = None THEN UNCHANGED recorder ELSE Record(seq)
    /\ when' = [when EXCEPT ![n] = IF Carries(extension) THEN now' ELSE @]
    /\ highest' = IF Carries(extension) /\ (~started \/ n > highest) THEN n ELSE highest
    /\ covered' = IF Carries(extension) /\ ~started THEN n ELSE covered
    /\ feedback' = None
    /\ UNCHANGED fb_pkt_count

-----------------------------------------------------------------------------
\* The feedback.

Abs(x) == IF x < 0 THEN -x ELSE x
\* i64 division truncates towards zero.
Units(ticks) == IF ticks < 0 THEN -((-ticks) \div Tick) ELSE ticks \div Tick

Small == 0..Byte - 1
Clamp(d, range) == CHOOSE x \in range : \A y \in range : Abs(d - x) <= Abs(d - y)

\* The places of a feedback whose packet has been received, and those before the i-th.
Received(entries) == {i \in DOMAIN entries : entries[i] # None}
ReceivedBefore(entries, i) == {j \in Received(entries) : j < i}

\* Mutant: the first delta is from base_time, too.
DeltaFromStart(entries, i) ==
    LET before == ReceivedBefore(entries, i) IN
    Units(entries[i].arrival - (IF before = {} THEN base_time ELSE entries[Max(before)].arrival))

\* The difference to the previous packet received; for the first, to the reference time.
Delta(entries, i) ==
    LET before == ReceivedBefore(entries, i) IN
    IF before = {} THEN Units(entries[i].arrival - base_time) % Byte
    ELSE Units(entries[i].arrival - entries[Max(before)].arrival)

\* Statuses: 0 not received, 1 small delta, 2 large delta.
Status(d) == IF d \in Small THEN 1 ELSE 2

Statuses(entries) ==
    [i \in DOMAIN entries |-> IF entries[i] = None THEN 0 ELSE Status(Delta(entries, i))]

\* encode_status_chunks: two bits 11, then two for each symbol, the last ones 0.
EncodeStatusChunks(statuses) ==
    LET Chunk(c) ==
          LET Bits[slot \in 0..Symbols] ==
                IF slot = 0 THEN 3
                ELSE LET i == Symbols * (c - 1) + slot IN
                     4 * Bits[slot - 1] + (IF i <= Len(statuses) THEN statuses[i] ELSE 0)
          IN Bits[Symbols]
    IN [c \in 1..((Len(statuses) + Symbols - 1) \div Symbols) |-> Chunk(c)]

\* encode_recv_deltas: one byte, or two in big-endian order.
DeltaBytes(d) ==
    IF Status(d) = 1 THEN <<d>>
    ELSE LET x == Clamp(d, LargeDeltas) % (Byte * Byte) IN <<x \div Byte, x % Byte>>

EncodeRecvDeltas(entries) ==
    FlattenSeq([i \in DOMAIN entries |->
        IF entries[i] = None THEN <<>> ELSE DeltaBytes(Delta(entries, i))])

\* Mutant: the last packet is reported again.
AdvanceToLast(base, count) == (base + count - 1) % SeqRange

\* Mutant: not wrapped.
AdvanceFar(base, count) == base + count

\* Where the next feedback begins.
AdvanceBase(base, count) == (base + count) % SeqRange

\* build_twcc_feedback, when the timer of send_twcc_to_publishers finds the publisher
\* ready and with a video track.  An overfull recorder only restarts, and a feedback
\* without any packet received is not sent.
Feedback ==
    LET base == pending_base_seq
        count == PendingCount
        entries == [i \in 1..count |-> Get((base + i - 1) % SeqRange)] IN
    /\ count > 0
    /\ IF count > Capacity
       THEN /\ pending_base_seq' = WrappingSub(max_seq, StepBack)
            /\ feedback' = None
            /\ covered' = highest - StepBack
            /\ UNCHANGED fb_pkt_count
       ELSE /\ Received(entries) # {}
            /\ feedback' =
                 [base |-> base, count |-> count,
                  reference |->
                    (Units(entries[Min(Received(entries))].arrival - base_time) \div Byte) % RefMod,
                  number |-> fb_pkt_count,
                  chunks |-> EncodeStatusChunks(Statuses(entries)),
                  bytes |-> EncodeRecvDeltas(entries),
                  since |-> covered]
            /\ fb_pkt_count' = (fb_pkt_count + 1) % FeedbackMod
            /\ pending_base_seq' = AdvanceBase(base, count)
            /\ covered' = highest + 1
    /\ UNCHANGED <<now, arrivals, max_seq, started, base_time, highest, when>>

Next ==
    \/ \E n \in Packets, gap \in Gaps, extension \in Extensions : Arrive(n, gap, extension)
    \/ Feedback

Spec == Init /\ [][Next]_vars

-----------------------------------------------------------------------------
\* The variables have their types.
TypeOK ==
    /\ now \in Nat
    /\ arrivals \in [0..Capacity - 1 -> [twcc_seq : 0..SeqRange - 1, arrival : 0..now] \cup {None}]
    /\ \A slot \in 0..Capacity - 1 : arrivals[slot] # None => Slot(arrivals[slot].twcc_seq) = slot
    /\ {pending_base_seq, max_seq} \subseteq 0..SeqRange - 1
    /\ started \in BOOLEAN /\ (started <=> base_time # None)
    /\ fb_pkt_count \in 0..FeedbackMod - 1
    /\ highest \in Packets /\ covered \in 0..MaxSent + 1
    /\ when \in [Packets -> 0..now \cup {None}]

\* What the publisher reads out of the feedback f: statuses, deltas, and the packets.

\* Two bits out of a chunk, which is shifted until they are the last ones.
Digit(chunk, slot) ==
    LET Shifted[k \in 0..Symbols] == IF k = 0 THEN chunk ELSE Shifted[k - 1] \div 4
    IN Shifted[Symbols - slot] % 4
ReadStatus(f, i) == Digit(f.chunks[1 + ((i - 1) \div Symbols)], 1 + ((i - 1) % Symbols))

\* The number of deltas, and of bytes of deltas, of the packets up to the i-th.
DeltaCount(f, i) == Cardinality({j \in 1..i : ReadStatus(f, j) # 0})
ByteCount(f, i) ==
    LET Sum[j \in 0..f.count] == IF j = 0 THEN 0 ELSE Sum[j - 1] + ReadStatus(f, j)
    IN Sum[i]
ReadDelta(f, i) ==
    LET b == ByteCount(f, i) IN
    CASE ReadStatus(f, i) = 0 -> 0
      [] ReadStatus(f, i) = 1 -> f.bytes[b]
      [] ReadStatus(f, i) = 2 ->
           LET d == Byte * f.bytes[b - 1] + f.bytes[b] IN
           IF 2 * d >= Byte * Byte THEN d - Byte * Byte ELSE d

\* The time it gives for the i-th packet, in units of a delta.
ReadTime(f, i) ==
    LET Time[j \in 0..f.count] ==
          IF j = 0 THEN Byte * f.reference ELSE Time[j - 1] + ReadDelta(f, j)
    IN Time[i]

\* The packet it means: the latest with that sequence number.
Meant(f, i) == highest - ((highest - (f.base + i - 1)) % SeqRange)

Chunked(f) == Len(f.chunks) * Symbols \in f.count..(f.count + Symbols - 1)

\* The slot of packet n holds one from whole rounds of sequence numbers before, since no
\* packet in between that shares the slot has arrived.
IsStale(n) ==
    \E m \in 0..n - 1 :
        /\ (n - m) % SeqRange = 0 /\ when[m] # None
        /\ \A k \in m + 1..n : k % Capacity = n % Capacity => when[k] = None

\* A feedback says of each packet that it covers whether it had arrived, for any pattern
\* of loss and reordering, and its last byte is the last delta's.
ReportsWhatArrived ==
    LET f == feedback IN
    f # None =>
        /\ Chunked(f)
        /\ \A i \in 1..f.count :
             /\ Meant(f, i) \in Packets
             /\ ReadStatus(f, i) \in {1, 2} <=>
                  when[Meant(f, i)] # None \/ IsStale(Meant(f, i))
        /\ \A i \in f.count + 1..Len(f.chunks) * Symbols : ReadStatus(f, i) = 0
        /\ ByteCount(f, f.count) = Len(f.bytes)

\* The arrival times that the publisher reads differ from the true ones by less than one
\* unit for each packet reported before, as long as no difference had to be clamped.
TimesAreTrue ==
    LET f == feedback IN
    f # None =>
        LET Round == RefMod * Byte * Tick
            Clamped(i) == ReadStatus(f, i) = 2 /\ \E d \in LargeDeltas :
                              /\ ReadDelta(f, i) = d
                              /\ {d - 1, d + 1} \cap LargeDeltas # {d - 1, d + 1}
        IN \A i \in 1..f.count :
             /\ ReadStatus(f, i) # 0 /\ when[Meant(f, i)] # None
             /\ \A j \in 1..i : ~Clamped(j)
             => LET error == (when[Meant(f, i)] - base_time - Tick * ReadTime(f, i)) % Round
                    bound == DeltaCount(f, i) * Tick
                IN error < bound \/ error > Round - bound

\* No packet is reported twice, and none is passed over unless more of them were pending
\* than the recorder can hold.
EachIsCoveredOnce ==
    LET f == feedback IN
    f # None =>
        /\ Meant(f, 1) >= f.since
        /\ Meant(f, 1) > f.since => highest - f.since >= SeqRange
        /\ Meant(f, f.count) = highest
===============================================================================
