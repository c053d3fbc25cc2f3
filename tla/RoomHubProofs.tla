----------------------------- MODULE RoomHubProofs -----------------------------
(***************************************************************************)
(* Proofs about RoomHub: its types, that no join loses its entries, how far *)
(* a room can be overbooked, what the removal of a participant leaves of    *)
(* the indices, and that media are found at the address a session was       *)
(* latched to; for any numbers of participants, users, rooms, shards,       *)
(* addresses and workers and any order of their accesses.                   *)
(***************************************************************************)
EXTENDS RoomHub, FiniteSetTheorems, WellFoundedInduction, TLAPS

\* The accesses to by_ufrag and ufrag_index that a join has made.
Inserted(p, pc) ==
    \/ joining[p][1] \in {"participants", "ufrag_index", "joined"}
    \/ joining[p] = <<"by_ufrag", "subscribe">> /\ pc = "publish"

Indexed(p, pc) ==
    \/ Joined(p)
    \/ joining[p] = <<"ufrag_index", "subscribe">> /\ pc = "publish"

UfragsAreIn ==
    \A p \in Participants, pc \in PcTypes : ~Leaving(p) =>
        /\ Inserted(p, pc) => <<p, pc>> \in by_ufrag
        /\ Indexed(p, pc) => <<p, pc>> \in ufrag_index

MembersAreIn ==
    \A p \in Participants :
        joining[p][1] \in {"ufrag_index", "joined"} /\ ~Leaving(p) =>
            IsMember(p) \/ p \in rivalled

\* The join has found that its user is not in the room, and is not in it yet.
InWindow(p) == joining[p][1] \in {"by_ufrag", "participants"}

SameUser(p, q) == p # q /\ user_id[p] = user_id[q] /\ room_id[p] = room_id[q]

\* A participant that another join is about to replace has rivalled with it: that
\* join would have been refused, had its check come after the insertion.
RivalsAreKnown ==
    \A p, q \in Participants :
        SameUser(p, q) /\ InWindow(q) /\ (InWindow(p) \/ IsMember(p)) => p \in rivalled

\* The inductive invariant behind JoinedIsRegistered.
RegistryInv == UfragsAreIn /\ MembersAreIn /\ RivalsAreKnown

-----------------------------------------------------------------------------
\* The counts of members and of joins under way are numbers.
LEMMA EnteringIsFinite ==
    ASSUME NEW r \in Rooms
    PROVE  /\ IsFiniteSet(Entering(r))
           /\ Cardinality(Entering(r)) \in Nat
<1>1. IsFiniteSet(Participants) /\ Entering(r) \subseteq Participants
  BY HubAssumption DEF Entering
<1> QED BY <1>1, FS_Subset, FS_CardinalityType

LEMMA MembersIsFinite ==
    ASSUME NEW r \in Rooms
    PROVE  /\ IsFiniteSet(Members(r))
           /\ Cardinality(Members(r)) \in Nat
<1>1. IsFiniteSet(Users) /\ Members(r) \subseteq Users
  BY HubAssumption DEF Members
<1> QED BY <1>1, FS_Subset, FS_CardinalityType

LEMMA CountedType ==
    ASSUME TypeOK, NEW p \in Participants
    PROVE  Counted(p) \in Nat
<1>1. room_id[p] \in Rooms /\ counting[p].members \in Nat
  BY DEF TypeOK
<1> DEFINE S == {u \in Members(room_id[p]) : shard[room_id[p]][u] = counting[p].shards + 1}
<1>2. Cardinality(S) \in Nat
  BY <1>1, MembersIsFinite, FS_Subset, FS_CardinalityType
<1> QED BY <1>1, <1>2 DEF Counted

\* What a join's first access to the map finds.
LEMMA BeginTypes ==
    ASSUME TypeOK, NEW p \in Participants, Begin(p)
    PROVE  /\ found' \in [Participants -> SUBSET Participants]
           /\ abreast' \in [Participants -> SUBSET Participants]
<1>1. CASE counting[p].shards > 0
  BY <1>1 DEF Begin, TypeOK
<1>2. CASE ~(counting[p].shards > 0)
  <2> DEFINE r == room_id[p]
             F == {participants[r][u] : u \in Members(r)}
             E == Entering(r) \cup {p}
  <2>1. found' = [found EXCEPT ![p] = F] /\ abreast' = [abreast EXCEPT ![p] = E]
    BY <1>2 DEF Begin
  <2>2. F \subseteq Participants
    BY DEF Members, TypeOK
  <2>3. E \subseteq Participants
    BY DEF Entering
  <2> HIDE DEF F, E
  <2> QED BY <2>1, <2>2, <2>3 DEF TypeOK
<1> QED BY <1>1, <1>2

\* The initial values have the types.
LEMMA InitTypes == Init => TypeOK
BY HubAssumption DEF Init, TypeOK, JoinSteps, LeaveSteps, PcTypes, Sessions, NotCounting

-----------------------------------------------------------------------------
LEMMA JoinTypes ==
    ASSUME TypeOK, NEW p \in Participants,
           \/ CountShard(p) \/ CheckCapacity(p) \/ CheckUser(p) \/ InsertParticipant(p)
           \/ \E pc \in PcTypes : InsertUfrag(p, pc) \/ InsertUfragIndex(p, pc)
    PROVE  TypeOK'
<1>1. CASE CountShard(p)
  <2>1. counting' \in [Participants -> [shards : 0..Shards, members : Nat]]
    <3>1. counting[p].shards \in 0..Shards /\ counting[p].shards + 1 < Shards
      BY <1>1 DEF CountShard, TypeOK
    <3> QED BY <1>1, <3>1, CountedType, HubAssumption DEF CountShard, TypeOK
  <2> QED
    BY <1>1, <2>1, BeginTypes DEF CountShard, Join, TypeOK, room, hub, request, JoinSteps, PcTypes
<1>2. CASE CheckCapacity(p)
  <2> SUFFICES ASSUME NEW next \in {"user", "refused"}, Decide(p, next) PROVE TypeOK'
    BY <1>2 DEF CheckCapacity
  <2>1. counting' \in [Participants -> [shards : 0..Shards, members : Nat]]
    BY HubAssumption DEF Decide, NotCounting, TypeOK
  <2> QED
    BY <2>1, BeginTypes DEF Decide, Join, TypeOK, room, hub, request, JoinSteps, PcTypes
<1>3. CASE CheckUser(p)
  <2>1. CASE EnterAs(p)
    <3>1. Rivals(p) \subseteq Participants
      BY DEF Rivals, Entering
    <3> QED BY <2>1, <3>1 DEF EnterAs, Join, TypeOK, room, hub, request, JoinSteps, PcTypes
  <2>2. CASE Join(p, <<"user", "publish">>, <<"refused", "publish">>)
             /\ UNCHANGED <<room, hub, counting, joins>>
    BY <2>2 DEF Join, TypeOK, room, hub, request, joins, JoinSteps, PcTypes
  <2> QED BY <1>3, <2>1, <2>2 DEF CheckUser
<1>4. CASE InsertParticipant(p)
  BY <1>4 DEF InsertParticipant, Join, TypeOK, room, hub, request, joins, JoinSteps, PcTypes
<1>5. ASSUME NEW pc \in PcTypes, InsertUfrag(p, pc)
      PROVE  TypeOK'
  BY <1>5 DEF InsertUfrag, AfterBoth, Join, TypeOK, hub, request, joins, JoinSteps,
     PcTypes, Sessions
<1>6. ASSUME NEW pc \in PcTypes, InsertUfragIndex(p, pc)
      PROVE  TypeOK'
  BY <1>6 DEF InsertUfragIndex, AfterBoth, Join, TypeOK, room, request, joins, JoinSteps,
     PcTypes, Sessions
<1> QED BY <1>1, <1>2, <1>3, <1>4, <1>5, <1>6

LEMMA LeaveTypes ==
    ASSUME TypeOK, NEW p \in Participants,
           \/ RemoveParticipant(p)
           \/ \E pc \in PcTypes :
                \/ RemoveUfrag(p, pc) \/ RemoveAddr(p, pc)
                \/ RemoveUfragIndex(p, pc) \/ RemoveAddrIndex(p, pc)
    PROVE  TypeOK'
<1>1. CASE RemoveParticipant(p)
  BY <1>1 DEF RemoveParticipant, Leave, TypeOK, hub, request, joins, LeaveSteps, PcTypes
<1>2. ASSUME NEW pc \in PcTypes, RemoveUfrag(p, pc)
      PROVE  TypeOK'
  BY <1>2 DEF RemoveUfrag, AfterBoth, Leave, TypeOK, hub, request, joins, LeaveSteps, PcTypes
<1>3. ASSUME NEW pc \in PcTypes, RemoveAddr(p, pc)
      PROVE  TypeOK'
  BY <1>3 DEF RemoveAddr, AfterBoth, Leave, TypeOK, hub, request, joins, LeaveSteps, PcTypes
<1>4. ASSUME NEW pc \in PcTypes, RemoveUfragIndex(p, pc)
      PROVE  TypeOK'
  BY <1>4 DEF RemoveUfragIndex, AfterBoth, Leave, TypeOK, room, request, joins, LeaveSteps, PcTypes
<1>5. ASSUME NEW pc \in PcTypes, RemoveAddrIndex(p, pc)
      PROVE  TypeOK'
  BY <1>5 DEF RemoveAddrIndex, AfterBoth, Leave, TypeOK, room, request, joins, LeaveSteps, PcTypes
<1> QED BY <1>1, <1>2, <1>3, <1>4, <1>5

\* A worker that latches has a session and an address, and goes on with them.
LEMMA LatchType ==
    ASSUME TypeOK, NEW w \in Workers, NEW step,
           NEW next \in {"rebind", "address", "by_addr", "addr_index", "idle"},
           Latch(w, step, next)
    PROVE  /\ worker' \in [Workers -> Latching \cup {None}]
           /\ worker[w] \in Latching
           /\ worker[w].session \in Sessions
           /\ worker[w].session[1] \in Participants
           /\ worker[w].addr \in Addrs
<1>1. worker[w] \in Latching
  BY DEF Latch, TypeOK
<1>2. worker[w].session \in Sessions /\ worker[w].addr \in Addrs
  BY <1>1 DEF Latching
<1>3. [worker[w] EXCEPT !.step = next] \in Latching \/ next = "idle"
  BY <1>1 DEF Latching
<1>4. worker' \in [Workers -> Latching \cup {None}]
  BY <1>3 DEF Latch, TypeOK
<1> QED BY <1>1, <1>2, <1>4 DEF Sessions

LEMMA WorkerTypes ==
    ASSUME TypeOK, NEW w \in Workers,
           \/ \E s \in Sessions, a \in Addrs : Binding(w, s, a)
           \/ FindUfrag(w) \/ Rebind(w) \/ LatchAddress(w)
           \/ InsertAddr(w) \/ InsertAddrIndex(w)
    PROVE  TypeOK'
<1>1. ASSUME NEW s \in Sessions, NEW a \in Addrs, Binding(w, s, a)
      PROVE  TypeOK'
  BY <1>1, HubAssumption DEF Binding, TypeOK, Latching, room, hub, request, history
<1>2. CASE FindUfrag(w)
  BY <1>2, LatchType DEF FindUfrag, Latch, TypeOK, room, hub, request, joins, Latching, Sessions
<1>3. CASE Rebind(w)
  BY <1>3, LatchType DEF Rebind, Latch, TypeOK, hub, request, joins
<1>4. CASE LatchAddress(w)
  BY <1>4, LatchType DEF LatchAddress, Latch, TypeOK, room, hub, request, joins
<1>5. CASE InsertAddr(w)
  BY <1>5, LatchType DEF InsertAddr, Latch, TypeOK, hub, request, joins
<1>6. CASE InsertAddrIndex(w)
  BY <1>6, LatchType DEF InsertAddrIndex, Latch, TypeOK, room, request, joins
<1> QED BY <1>1, <1>2, <1>3, <1>4, <1>5, <1>6

\* No step leaves the types: neither of add_participant, nor of remove_participant,
\* nor of latch_by_ufrag.
LEMMA NextTypes == TypeOK /\ [Next]_vars => TypeOK'
<1> SUFFICES ASSUME TypeOK, [Next]_vars PROVE TypeOK'
  OBVIOUS
<1>1. CASE UNCHANGED vars
  BY <1>1 DEF vars, TypeOK
<1>2. CASE Next
  BY <1>2, JoinTypes, LeaveTypes, WorkerTypes DEF Next
<1> QED BY <1>1, <1>2

\* The tables, the tasks that work on them and the histories have their types,
\* whatever order the accesses come in.
THEOREM Types == Spec => []TypeOK
BY InitTypes, NextTypes, PTL DEF Spec

-----------------------------------------------------------------------------
\* The registry invariant holds at first and by each task's steps.
LEMMA InitRegistry == Init => RegistryInv
BY DEF Init, RegistryInv, UfragsAreIn, MembersAreIn, RivalsAreKnown, Inserted, Indexed,
   Joined, Leaving, InWindow, IsMember, PcTypes

\* What is left of a participant's join and of the tables by a step that joins nobody
\* and removes nobody.
LEMMA OthersKeepRegistry ==
    ASSUME RegistryInv,
           UNCHANGED <<request, participants, by_ufrag, ufrag_index, joining, leaving>>,
           rivalled \subseteq rivalled'
    PROVE  RegistryInv'
BY DEF RegistryInv, UfragsAreIn, MembersAreIn, RivalsAreKnown, Inserted, Indexed,
   Joined, Leaving, InWindow, IsMember, SameUser, request

LEMMA WorkersKeepRegistry ==
    ASSUME RegistryInv, NEW w \in Workers,
           \/ \E s \in Sessions, a \in Addrs : Binding(w, s, a)
           \/ FindUfrag(w) \/ Rebind(w) \/ LatchAddress(w)
           \/ InsertAddr(w) \/ InsertAddrIndex(w)
    PROVE  RegistryInv'
<1>1. /\ UNCHANGED <<request, participants, by_ufrag, ufrag_index, joining, leaving>>
      /\ rivalled \subseteq rivalled'
  BY DEF Binding, FindUfrag, Rebind, LatchAddress, InsertAddr, InsertAddrIndex, Latch,
     room, hub, history, joins
<1> QED BY <1>1, OthersKeepRegistry

\* A removal takes the participant out of the map and afterwards only its own entries
\* out of the indices.
LEMMA LeaveKeepsRegistry ==
    ASSUME TypeOK, RegistryInv, NEW p \in Participants,
           \/ RemoveParticipant(p)
           \/ \E pc \in PcTypes :
                \/ RemoveUfrag(p, pc) \/ RemoveAddr(p, pc)
                \/ RemoveUfragIndex(p, pc) \/ RemoveAddrIndex(p, pc)
    PROVE  RegistryInv'
<1>1. /\ joining' = joining /\ request' = request
      /\ rivalled \subseteq rivalled'
  BY DEF RemoveParticipant, RemoveUfrag, RemoveAddr, RemoveUfragIndex, RemoveAddrIndex, Leave,
     joins
<1>2. Leaving(p)' /\ \A q \in Participants \ {p} : leaving'[q] = leaving[q]
  <2>1. CASE RemoveParticipant(p)
    BY <2>1 DEF RemoveParticipant, Leave, Leaving, TypeOK
  <2>2. ASSUME NEW pc \in PcTypes,
               \/ RemoveUfrag(p, pc) \/ RemoveAddr(p, pc)
               \/ RemoveUfragIndex(p, pc) \/ RemoveAddrIndex(p, pc)
        PROVE  \E step, next : Leave(p, step, next) /\ next[1] # "participants"
    BY <2>2 DEF RemoveUfrag, RemoveAddr, RemoveUfragIndex, RemoveAddrIndex, AfterBoth
  <2> QED BY <2>1, <2>2 DEF Leave, Leaving, TypeOK
<1> DEFINE Kept(q) ==
        /\ IsMember(q)' = IsMember(q)
        /\ \A pc \in PcTypes :
             /\ <<q, pc>> \in by_ufrag => <<q, pc>> \in by_ufrag'
             /\ <<q, pc>> \in ufrag_index => <<q, pc>> \in ufrag_index'
<1>3. \A q \in Participants \ {p} : Kept(q)
  <2>1. CASE RemoveParticipant(p)
    <3>1. \A q \in Participants \ {p} : IsMember(q)' = IsMember(q)
      <4> SUFFICES ASSUME NEW q \in Participants \ {p} PROVE IsMember(q)' = IsMember(q)
        OBVIOUS
      <4>1. CASE room_id[q] = room_id[p] /\ user_id[q] = user_id[p]
        BY <1>1, <2>1, <4>1, HubAssumption DEF RemoveParticipant, IsMember, TypeOK, request
      <4>2. CASE ~(room_id[q] = room_id[p] /\ user_id[q] = user_id[p])
        BY <1>1, <2>1, <4>2 DEF RemoveParticipant, IsMember, TypeOK, request
      <4> QED BY <4>1, <4>2
    <3> QED BY <2>1, <3>1 DEF RemoveParticipant, hub
  <2>2. ASSUME NEW pc \in PcTypes,
               \/ RemoveUfrag(p, pc) \/ RemoveAddr(p, pc)
               \/ RemoveUfragIndex(p, pc) \/ RemoveAddrIndex(p, pc)
        PROVE  \A q \in Participants \ {p} : Kept(q)
    BY <1>1, <2>2 DEF RemoveUfrag, RemoveAddr, RemoveUfragIndex, RemoveAddrIndex, IsMember,
       room, hub, request
  <2> QED BY <2>1, <2>2
<1>4. IsMember(p)' => IsMember(p)
  BY <1>1 DEF RemoveParticipant, RemoveUfrag, RemoveAddr, RemoveUfragIndex, RemoveAddrIndex,
     IsMember, room, request
<1>5. UfragsAreIn'
  BY <1>1, <1>2, <1>3 DEF RegistryInv, UfragsAreIn, Inserted, Indexed, Joined, Leaving
<1>6. MembersAreIn'
  BY <1>1, <1>2, <1>3 DEF RegistryInv, MembersAreIn, Leaving
<1>7. RivalsAreKnown'
  BY <1>1, <1>3, <1>4 DEF RegistryInv, RivalsAreKnown, InWindow, SameUser, request
<1> QED BY <1>5, <1>6, <1>7 DEF RegistryInv

\* A count that changes no map moves the join to a step before the window, and so does a
\* refusal.
LEMMA ChecksKeepRegistry ==
    ASSUME TypeOK, RegistryInv, NEW p \in Participants,
           \/ CountShard(p) \/ CheckCapacity(p)
           \/ /\ Join(p, <<"user", "publish">>, <<"refused", "publish">>)
              /\ UNCHANGED <<room, hub, counting, joins>>
    PROVE  RegistryInv'
<1>1. /\ \A q \in Participants \ {p} : joining'[q] = joining[q]
      /\ joining'[p][1] \in {"capacity", "user", "refused"}
      /\ UNCHANGED <<request, participants, by_ufrag, ufrag_index, leaving, rivalled>>
  BY DEF CountShard, CheckCapacity, Decide, Join, TypeOK, room, hub, joins, request
<1> QED
  BY <1>1 DEF RegistryInv, UfragsAreIn, MembersAreIn, RivalsAreKnown, Inserted, Indexed,
     Joined, Leaving, InWindow, IsMember, SameUser, request

\* Who enters the window finds everybody who is in it already, and nobody in the map.
LEMMA EnterAsKeepsRegistry ==
    ASSUME TypeOK, RegistryInv, NEW p \in Participants, EnterAs(p),
           participants[room_id[p]][user_id[p]] = None
    PROVE  RegistryInv'
<1>1. /\ \A q \in Participants \ {p} : joining'[q] = joining[q]
      /\ joining[p] = <<"user", "publish">> /\ joining'[p] = <<"by_ufrag", "publish">>
      /\ UNCHANGED <<request, participants, by_ufrag, ufrag_index, leaving>>
      /\ rivalled \subseteq rivalled'
  BY DEF EnterAs, Join, TypeOK, room, hub, request
<1>2. UfragsAreIn' /\ MembersAreIn'
  BY <1>1 DEF RegistryInv, UfragsAreIn, MembersAreIn, Inserted, Indexed, Joined, Leaving,
     IsMember, request
<1>3. ASSUME NEW q \in Participants, SameUser(p, q)
      PROVE  /\ ~IsMember(q)
             /\ InWindow(q) => q \in rivalled' /\ p \in rivalled'
  <2>1. ~IsMember(q)
    BY <1>3, HubAssumption DEF SameUser, IsMember
  <2>2. InWindow(q) => q \in Rivals(p)
    BY <1>3 DEF InWindow, SameUser, Rivals, Entering, Begun
  <2> QED BY <2>1, <2>2 DEF EnterAs
<1>4. RivalsAreKnown'
  <2> SUFFICES ASSUME NEW q \in Participants, NEW o \in Participants,
                      SameUser(q, o), InWindow(o)', InWindow(q)' \/ IsMember(q)
               PROVE  q \in rivalled'
    BY <1>1 DEF RivalsAreKnown, SameUser, IsMember, request
  <2>1. CASE o = p
    BY <1>1, <1>3, <2>1 DEF SameUser, InWindow
  <2>2. CASE q = p
    <3>1. SameUser(p, o) /\ InWindow(o)
      BY <1>1, <2>2 DEF SameUser, InWindow
    <3> QED BY <1>3, <2>2, <3>1
  <2>3. CASE o # p /\ q # p
    BY <1>1, <2>3 DEF RegistryInv, RivalsAreKnown, InWindow
  <2> QED BY <2>1, <2>2, <2>3
<1> QED BY <1>2, <1>4 DEF RegistryInv

\* The insertion replaces nobody but a participant that has rivalled.
LEMMA InsertionKeepsRegistry ==
    ASSUME TypeOK, RegistryInv, NEW p \in Participants, InsertParticipant(p)
    PROVE  RegistryInv'
<1>1. /\ \A q \in Participants \ {p} : joining'[q] = joining[q]
      /\ joining[p] = <<"participants", "publish">>
      /\ joining'[p] = <<"ufrag_index", "publish">>
      /\ UNCHANGED <<request, by_ufrag, ufrag_index, leaving, rivalled>>
  BY DEF InsertParticipant, Join, TypeOK, hub, joins, request
<1>2. IsMember(p)'
  BY <1>1 DEF InsertParticipant, IsMember, TypeOK, request
<1>3. ASSUME NEW q \in Participants \ {p}
      PROVE  IsMember(q)' = (IsMember(q) /\ ~SameUser(q, p))
  <2>1. CASE SameUser(q, p)
    BY <1>1, <2>1 DEF InsertParticipant, IsMember, TypeOK, SameUser, request
  <2>2. CASE ~SameUser(q, p)
    BY <1>1, <2>2 DEF InsertParticipant, IsMember, TypeOK, SameUser, request
  <2> QED BY <2>1, <2>2
<1>4. UfragsAreIn'
  BY <1>1 DEF RegistryInv, UfragsAreIn, Inserted, Indexed, Joined, Leaving
<1>5. MembersAreIn'
  <2> SUFFICES ASSUME NEW q \in Participants,
                      joining'[q][1] \in {"ufrag_index", "joined"}, ~Leaving(q)
               PROVE  IsMember(q)' \/ q \in rivalled
    BY <1>1 DEF MembersAreIn, Leaving
  <2>1. CASE q = p
    BY <1>2, <2>1
  <2>2. CASE q # p
    <3>1. IsMember(q) \/ q \in rivalled
      BY <1>1, <2>2 DEF RegistryInv, MembersAreIn
    <3>2. IsMember(q) /\ SameUser(q, p) => q \in rivalled
      BY <1>1 DEF RegistryInv, RivalsAreKnown, InWindow
    <3> QED BY <1>3, <2>2, <3>1, <3>2
  <2> QED BY <2>1, <2>2
<1>6. RivalsAreKnown'
  <2> SUFFICES ASSUME NEW q \in Participants, NEW o \in Participants,
                      SameUser(q, o), InWindow(o)', InWindow(q)' \/ IsMember(q)'
               PROVE  q \in rivalled
    BY <1>1 DEF RivalsAreKnown, SameUser, request
  <2>1. o # p /\ InWindow(o)
    BY <1>1 DEF InWindow
  <2>2. CASE q = p
    BY <1>1, <2>1, <2>2 DEF RegistryInv, RivalsAreKnown, InWindow
  <2>3. CASE q # p
    BY <1>1, <1>3, <2>1, <2>3 DEF RegistryInv, RivalsAreKnown, InWindow
  <2> QED BY <2>2, <2>3
<1> QED BY <1>4, <1>5, <1>6 DEF RegistryInv

\* The insertions into the indices by ufrag come in their order, publish first.
LEMMA UfragKeepsRegistry ==
    ASSUME TypeOK, RegistryInv, NEW p \in Participants, NEW pc \in PcTypes,
           InsertUfrag(p, pc) \/ InsertUfragIndex(p, pc)
    PROVE  RegistryInv'
<1>1. /\ \A q \in Participants \ {p} : joining'[q] = joining[q]
      /\ UNCHANGED <<request, participants, leaving, rivalled>>
      /\ InWindow(p)' = InWindow(p)
      /\ (joining[p][1] \in {"ufrag_index", "joined"})'
           = (joining[p][1] \in {"ufrag_index", "joined"})
  BY DEF InsertUfrag, InsertUfragIndex, Join, AfterBoth, TypeOK, room, joins, request, InWindow
<1>2. /\ by_ufrag \subseteq by_ufrag' /\ ufrag_index \subseteq ufrag_index'
      /\ \A c \in PcTypes : Inserted(p, c)' => Inserted(p, c) \/ <<p, c>> \in by_ufrag'
      /\ \A c \in PcTypes : Indexed(p, c)' => Indexed(p, c) \/ <<p, c>> \in ufrag_index'
  <2>1. CASE InsertUfrag(p, pc)
    BY <2>1 DEF InsertUfrag, Join, AfterBoth, TypeOK, hub, Inserted, Indexed, Joined, PcTypes
  <2>2. CASE InsertUfragIndex(p, pc)
    BY <2>2 DEF InsertUfragIndex, Join, AfterBoth, TypeOK, room, Inserted, Indexed, Joined, PcTypes
  <2> QED BY <2>1, <2>2
<1>3. UfragsAreIn'
  BY <1>1, <1>2 DEF RegistryInv, UfragsAreIn, Inserted, Indexed, Joined, Leaving
<1>4. MembersAreIn'
  BY <1>1 DEF RegistryInv, MembersAreIn, Leaving, IsMember, request
<1>5. RivalsAreKnown'
  BY <1>1 DEF RegistryInv, RivalsAreKnown, InWindow, SameUser, IsMember, request
<1> QED BY <1>3, <1>4, <1>5 DEF RegistryInv

LEMMA NextRegistry == TypeOK /\ RegistryInv /\ [Next]_vars => RegistryInv'
<1> SUFFICES ASSUME TypeOK, RegistryInv, [Next]_vars PROVE RegistryInv'
  OBVIOUS
<1>1. CASE UNCHANGED vars
  BY <1>1, OthersKeepRegistry DEF vars, request
<1>2. ASSUME NEW p \in Participants, CountShard(p) \/ CheckCapacity(p)
      PROVE  RegistryInv'
  BY <1>2, ChecksKeepRegistry
<1>3. ASSUME NEW p \in Participants, CheckUser(p)
      PROVE  RegistryInv'
  BY <1>3, ChecksKeepRegistry, EnterAsKeepsRegistry DEF CheckUser
<1>4. CASE Next
  BY <1>2, <1>3, <1>4, InsertionKeepsRegistry, UfragKeepsRegistry, LeaveKeepsRegistry,
     WorkersKeepRegistry DEF Next
<1> QED BY <1>1, <1>4

\* add_participant (room.rs:81, 267): whoever has joined is in the room's map, unless
\* the same user joined at the same time, and in the indices by ufrag in any case, for
\* all orders of the accesses of all joins, removals and latches.
THEOREM Registered == Spec => []JoinedIsRegistered
<1>1. RegistryInv => JoinedIsRegistered
  BY DEF RegistryInv, UfragsAreIn, MembersAreIn, JoinedIsRegistered, Joined, Inserted, Indexed
<1> QED BY <1>1, Types, InitRegistry, NextRegistry, PTL DEF Spec

-----------------------------------------------------------------------------
\* What a step of add_participant, of remove_participant and of latch_by_ufrag leaves alone.

\* A join adds to the indices by ufrag, and only before it has joined.
LEMMA JoinFrame ==
    ASSUME TypeOK, NEW p \in Participants,
           \/ CountShard(p) \/ CheckCapacity(p) \/ CheckUser(p) \/ InsertParticipant(p)
           \/ \E pc \in PcTypes : InsertUfrag(p, pc) \/ InsertUfragIndex(p, pc)
    PROVE  /\ UNCHANGED <<request, by_addr, addr_index, address, leaving, worker, latched>>
           /\ UNCHANGED <<hasty, crossed>>
           /\ ~Joined(p)
           /\ \A q \in Participants \ {p} : joining'[q] = joining[q]
           /\ joining[p][1] = "ufrag_index" => joining'[p][1] \in {"ufrag_index", "joined"}
           /\ \A s \in Sessions : s[1] # p =>
                /\ s \in by_ufrag' => s \in by_ufrag
                /\ s \in ufrag_index' => s \in ufrag_index
<1>1. CASE CountShard(p) \/ CheckCapacity(p)
  BY <1>1 DEF CountShard, CheckCapacity, Decide, Join, Joined, TypeOK, room, hub, request
<1>2. CASE CheckUser(p)
  BY <1>2 DEF CheckUser, EnterAs, Join, Joined, TypeOK, room, hub, joins, request
<1>3. CASE InsertParticipant(p)
  BY <1>3 DEF InsertParticipant, Join, Joined, TypeOK, hub, joins, request
<1>4. ASSUME NEW pc \in PcTypes, InsertUfrag(p, pc)
      PROVE  /\ UNCHANGED <<request, by_addr, addr_index, address, leaving, worker, latched>>
             /\ UNCHANGED <<hasty, crossed>>
             /\ joining[p][1] = "by_ufrag"
             /\ \A q \in Participants \ {p} : joining'[q] = joining[q]
             /\ \A s \in Sessions : s[1] # p =>
                  /\ s \in by_ufrag' => s \in by_ufrag
                  /\ s \in ufrag_index' => s \in ufrag_index
  BY <1>4 DEF InsertUfrag, Join, TypeOK, hub, joins, request
<1>5. ASSUME NEW pc \in PcTypes, InsertUfragIndex(p, pc)
      PROVE  /\ UNCHANGED <<request, by_addr, addr_index, address, leaving, worker, latched>>
             /\ UNCHANGED <<hasty, crossed>>
             /\ joining[p][1] = "ufrag_index"
             /\ \A q \in Participants \ {p} : joining'[q] = joining[q]
             /\ joining'[p][1] \in {"ufrag_index", "joined"}
             /\ \A s \in Sessions : s[1] # p =>
                  /\ s \in by_ufrag' => s \in by_ufrag
                  /\ s \in ufrag_index' => s \in ufrag_index
  BY <1>5 DEF InsertUfragIndex, Join, AfterBoth, TypeOK, room, joins, request
<1> QED BY <1>1, <1>2, <1>3, <1>4, <1>5 DEF Joined

\* A step of a join changes membership by the insertion only.
LEMMA JoinMembers ==
    ASSUME TypeOK, NEW p \in Participants,
           \/ CountShard(p) \/ CheckCapacity(p) \/ CheckUser(p) \/ InsertParticipant(p)
           \/ \E pc \in PcTypes : InsertUfrag(p, pc) \/ InsertUfragIndex(p, pc)
    PROVE  /\ \A q \in Participants \ {p} : IsMember(q)' => IsMember(q)
           /\ \/ IsMember(p)' = IsMember(p)
              \/ /\ joining[p][1] = "participants"
                 /\ joining'[p][1] = "ufrag_index"
<1>1. CASE InsertParticipant(p)
  <2>1. /\ joining[p][1] = "participants"
        /\ joining'[p][1] = "ufrag_index"
        /\ UNCHANGED request
    BY <1>1 DEF InsertParticipant, Join, TypeOK
  <2>2. ASSUME NEW q \in Participants \ {p}, IsMember(q)'
        PROVE  IsMember(q)
    <3>1. participants'[room_id[q]][user_id[q]] = q
      BY <2>1, <2>2 DEF IsMember, request
    <3>2. ~(room_id[q] = room_id[p] /\ user_id[q] = user_id[p])
      BY <1>1, <3>1 DEF InsertParticipant, TypeOK
    <3>3. participants'[room_id[q]][user_id[q]] = participants[room_id[q]][user_id[q]]
      BY <1>1, <3>2 DEF InsertParticipant, TypeOK
    <3> QED BY <3>1, <3>3 DEF IsMember
  <2> QED BY <2>1, <2>2
<1>2. CASE UNCHANGED <<request, participants>>
  BY <1>2 DEF IsMember, request
<1> QED
  BY <1>1, <1>2 DEF CountShard, CheckCapacity, Decide, CheckUser, EnterAs, InsertUfrag,
     InsertUfragIndex, Join, room

\* A removal takes entries out, and goes on to leave.
LEMMA LeaveFrame ==
    ASSUME TypeOK, NEW p \in Participants,
           \/ RemoveParticipant(p)
           \/ \E pc \in PcTypes :
                \/ RemoveUfrag(p, pc) \/ RemoveAddr(p, pc)
                \/ RemoveUfragIndex(p, pc) \/ RemoveAddrIndex(p, pc)
    PROVE  /\ UNCHANGED <<request, joining, address, worker, latched>>
           /\ hasty \subseteq hasty' /\ crossed \subseteq crossed'
           /\ by_ufrag' \subseteq by_ufrag
           /\ ufrag_index' \subseteq ufrag_index
           /\ \A r \in Rooms, a \in Addrs : by_addr'[r][a] \in {by_addr[r][a], None}
           /\ \A q \in Participants \ {p} : leaving'[q] = leaving[q]
           /\ Leaving(p)'
<1>1. CASE RemoveParticipant(p)
  BY <1>1 DEF RemoveParticipant, Leave, Leaving, TypeOK, hub
<1>2. ASSUME NEW pc \in PcTypes, RemoveUfrag(p, pc)
      PROVE  /\ UNCHANGED <<request, joining, address, worker, latched, by_addr, hub, hasty, crossed>>
             /\ by_ufrag' \subseteq by_ufrag
             /\ \A q \in Participants \ {p} : leaving'[q] = leaving[q]
             /\ Leaving(p)'
  BY <1>2 DEF RemoveUfrag, Leave, AfterBoth, Leaving, TypeOK
<1>3. ASSUME NEW pc \in PcTypes, RemoveAddr(p, pc)
      PROVE  /\ UNCHANGED <<request, joining, address, worker, latched, by_ufrag, hub, hasty, crossed>>
             /\ \A r \in Rooms, a \in Addrs : by_addr'[r][a] \in {by_addr[r][a], None}
             /\ \A q \in Participants \ {p} : leaving'[q] = leaving[q]
             /\ Leaving(p)'
  BY <1>3 DEF RemoveAddr, Leave, AfterBoth, Leaving, TypeOK
<1>4. ASSUME NEW pc \in PcTypes, RemoveUfragIndex(p, pc)
      PROVE  /\ UNCHANGED <<request, joining, address, worker, latched, room, addr_index, hasty, crossed>>
             /\ ufrag_index' \subseteq ufrag_index
             /\ \A q \in Participants \ {p} : leaving'[q] = leaving[q]
             /\ Leaving(p)'
  BY <1>4 DEF RemoveUfragIndex, Leave, AfterBoth, Leaving, TypeOK
<1>5. ASSUME NEW pc \in PcTypes, RemoveAddrIndex(p, pc)
      PROVE  /\ UNCHANGED <<request, joining, address, worker, latched, room, ufrag_index, hasty, crossed>>
             /\ \A q \in Participants \ {p} : leaving'[q] = leaving[q]
             /\ Leaving(p)'
  BY <1>5 DEF RemoveAddrIndex, Leave, AfterBoth, Leaving, TypeOK
<1> QED BY <1>1, <1>2, <1>3, <1>4, <1>5 DEF room, hub

\* Membership is lost by the removal from the map only.
LEMMA LeaveMembers ==
    ASSUME TypeOK, NEW p \in Participants,
           \/ RemoveParticipant(p)
           \/ \E pc \in PcTypes :
                \/ RemoveUfrag(p, pc) \/ RemoveAddr(p, pc)
                \/ RemoveUfragIndex(p, pc) \/ RemoveAddrIndex(p, pc)
    PROVE  /\ \A q \in Participants : IsMember(q)' => IsMember(q)
           /\ Leaving(p) \/ (IsMember(p) /\ ~IsMember(p)')
<1>1. CASE RemoveParticipant(p)
  <2>1. UNCHANGED request /\ IsMember(p)
    BY <1>1 DEF RemoveParticipant, Leave
  <2>2. ASSUME NEW q \in Participants, IsMember(q)'
        PROVE  IsMember(q) /\ q # p
    <3>1. participants'[room_id[q]][user_id[q]] = q
      BY <2>1, <2>2 DEF IsMember, request
    <3>2. ~(room_id[q] = room_id[p] /\ user_id[q] = user_id[p])
      BY <1>1, <3>1, HubAssumption DEF RemoveParticipant, TypeOK
    <3>3. participants'[room_id[q]][user_id[q]] = participants[room_id[q]][user_id[q]]
      BY <1>1, <3>2 DEF RemoveParticipant, TypeOK
    <3> QED BY <3>1, <3>2, <3>3 DEF IsMember
  <2> QED BY <2>1, <2>2
<1>2. ASSUME NEW pc \in PcTypes,
             \/ RemoveUfrag(p, pc) \/ RemoveAddr(p, pc)
             \/ RemoveUfragIndex(p, pc) \/ RemoveAddrIndex(p, pc)
      PROVE  UNCHANGED <<request, participants>> /\ Leaving(p)
  BY <1>2 DEF RemoveUfrag, RemoveAddr, RemoveUfragIndex, RemoveAddrIndex, Leave, Leaving, room
<1>3. CASE UNCHANGED <<request, participants>> /\ Leaving(p)
  BY <1>3 DEF IsMember, request
<1> QED BY <1>1, <1>2, <1>3

\* A worker changes neither the tasks of joins and removals nor the tables by ufrag, and
\* goes on with the session and the address it has.
LEMMA LatchFrame ==
    ASSUME TypeOK, NEW w \in Workers, NEW step,
           NEW next \in {"rebind", "address", "by_addr", "addr_index", "idle"},
           Latch(w, step, next)
    PROVE  /\ \A v \in Workers \ {w} : worker'[v] = worker[v]
           /\ worker[w] # None /\ worker[w].step = step
           /\ IF next = "idle" THEN worker'[w] = None
              ELSE /\ worker'[w] # None
                   /\ worker'[w].session = worker[w].session
                   /\ worker'[w].addr = worker[w].addr
                   /\ worker'[w].step = next
<1>1. worker[w] # None /\ worker[w].step = step
  BY DEF Latch
<1>2. worker[w] \in Latching
  BY LatchType
<1>3. worker' = [worker EXCEPT ![w] = IF next = "idle" THEN None ELSE [worker[w] EXCEPT !.step = next]]
  BY DEF Latch
<1>4. worker'[w] = IF next = "idle" THEN None ELSE [worker[w] EXCEPT !.step = next]
  BY <1>3 DEF TypeOK
<1>5. next # "idle" => [worker[w] EXCEPT !.step = next] \in Latching
  BY <1>2 DEF Latching
<1> QED BY <1>1, <1>2, <1>3, <1>4, <1>5, NoneAssumption DEF Latching, TypeOK
-----------------------------------------------------------------------------
\* A participant is in its room from its insertion on, and out for good once it is removed.
StaysOut ==
    \A p \in Participants :
        /\ IsMember(p) \/ Leaving(p) => joining[p][1] \in {"ufrag_index", "joined"}
        /\ Leaving(p) => ~IsMember(p)

LEMMA InitOut == Init => StaysOut
BY HubAssumption DEF Init, StaysOut, IsMember, Leaving

\* Who is in the room has been inserted, and who is being removed is not in it.
LEMMA JoinKeepsOut ==
    ASSUME TypeOK, StaysOut, NEW p \in Participants,
           \/ CountShard(p) \/ CheckCapacity(p) \/ CheckUser(p) \/ InsertParticipant(p)
           \/ \E pc \in PcTypes : InsertUfrag(p, pc) \/ InsertUfragIndex(p, pc)
    PROVE  StaysOut'
<1>1. \A q \in Participants : Leaving(q)' = Leaving(q)
  BY JoinFrame DEF Leaving
<1>2. ASSUME NEW q \in Participants \ {p}
      PROVE  /\ (IsMember(q) \/ Leaving(q))' => joining'[q][1] \in {"ufrag_index", "joined"}
             /\ Leaving(q)' => ~IsMember(q)'
  BY <1>1, <1>2, JoinFrame, JoinMembers DEF StaysOut
<1>3. /\ (IsMember(p) \/ Leaving(p))' => joining'[p][1] \in {"ufrag_index", "joined"}
      /\ Leaving(p)' => ~IsMember(p)'
  <2>1. CASE IsMember(p)' = IsMember(p)
    BY <1>1, <2>1, JoinFrame DEF StaysOut, Joined
  <2>2. CASE joining[p][1] = "participants" /\ joining'[p][1] = "ufrag_index"
    BY <1>1, <2>2 DEF StaysOut
  <2> QED BY <2>1, <2>2, JoinMembers
<1> QED BY <1>2, <1>3 DEF StaysOut

LEMMA LeaveKeepsOut ==
    ASSUME TypeOK, StaysOut, NEW p \in Participants,
           \/ RemoveParticipant(p)
           \/ \E pc \in PcTypes :
                \/ RemoveUfrag(p, pc) \/ RemoveAddr(p, pc)
                \/ RemoveUfragIndex(p, pc) \/ RemoveAddrIndex(p, pc)
    PROVE  StaysOut'
<1>1. \A q \in Participants \ {p} : Leaving(q)' = Leaving(q)
  BY LeaveFrame DEF Leaving
<1>2. ASSUME NEW q \in Participants \ {p}
      PROVE  /\ (IsMember(q) \/ Leaving(q))' => joining'[q][1] \in {"ufrag_index", "joined"}
             /\ Leaving(q)' => ~IsMember(q)'
  BY <1>1, <1>2, LeaveFrame, LeaveMembers DEF StaysOut
<1>3. joining'[p][1] \in {"ufrag_index", "joined"} /\ ~IsMember(p)'
  BY LeaveFrame, LeaveMembers DEF StaysOut
<1> QED BY <1>2, <1>3 DEF StaysOut

LEMMA WorkerFrame ==
    ASSUME NEW w \in Workers,
           \/ \E s \in Sessions, a \in Addrs : Binding(w, s, a)
           \/ FindUfrag(w) \/ Rebind(w) \/ LatchAddress(w)
           \/ InsertAddr(w) \/ InsertAddrIndex(w)
    PROVE  /\ UNCHANGED <<request, participants, by_ufrag, ufrag_index, joining, leaving>>
           /\ hasty' = hasty /\ crossed \subseteq crossed'
BY DEF Binding, FindUfrag, Rebind, LatchAddress, InsertAddr, InsertAddrIndex, Latch,
   room, hub, history

LEMMA OthersKeepOut ==
    ASSUME StaysOut, UNCHANGED <<request, participants, joining, leaving>>
    PROVE  StaysOut'
BY DEF StaysOut, IsMember, Leaving, request

LEMMA NextOut == TypeOK /\ StaysOut /\ [Next]_vars => StaysOut'
<1> SUFFICES ASSUME TypeOK, StaysOut, [Next]_vars PROVE StaysOut'
  OBVIOUS
<1>1. CASE UNCHANGED vars
  BY <1>1, OthersKeepOut DEF vars, request
<1>2. CASE Next
  BY <1>2, JoinKeepsOut, LeaveKeepsOut, WorkerFrame, OthersKeepOut DEF Next
<1> QED BY <1>1, <1>2

-----------------------------------------------------------------------------
\* How far a room can be overbooked.

\* Who is in a room, or has a join under way that may lead there.
Around(p) == IsMember(p) \/ p \in Entering(room_id[p])
Together(p, q) == Around(p) /\ Around(q) /\ room_id[p] = room_id[q]

\* Whom a join found in the room, or under way, when it began.
Known(p) == found[p] \cup abreast[p]

\* The map has the participant of that room and that user.
Named ==
    \A r \in Rooms, u \in Users : participants[r][u] # None =>
        room_id[participants[r][u]] = r /\ user_id[participants[r][u]] = u

\* Of two joins the later knows the earlier, and whom the earlier knows.
Acquainted ==
    /\ \A p \in Participants : Around(p) => p \in abreast[p]
    /\ \A p, q \in Participants : q \in Known(p) => Begun(q)
    /\ \A p, q \in Participants : Together(p, q) => q \in Known(p) \/ p \in Known(q)
    /\ \A p, q, o \in Participants :
         Together(p, q) /\ Together(q, o) /\ q \in Known(p) /\ o \in Known(q) => o \in Known(p)

\* Of those a join found in the room: the ones that are still there, and among them the
\* ones whose shard has been counted.
StillFound(p) == {u \in Members(room_id[p]) : participants[room_id[p]][u] \in found[p]}
Seen(p) == {u \in StillFound(p) : shard[room_id[p]][u] <= counting[p].shards}

\* None of them is missed by the count, as none of them is inserted any more.
Counts ==
    \A p \in Participants :
        /\ \A q \in found[p] : joining[q][1] \in {"ufrag_index", "joined"}
        /\ Cardinality(Seen(p)) <= counting[p].members
        /\ joining[p][1] \notin {"capacity", "refused"} => Cardinality(StillFound(p)) < capacity

\* The inductive invariant behind OverbookingIsBounded.
BookingInv == StaysOut /\ Named /\ Acquainted /\ Counts

LEMMA LeastNat ==
    ASSUME NEW T, T \subseteq Nat, T # {}
    PROVE  \E x \in T : \A y \in T : x <= y
<1>1. PICK x \in T : \A y \in T : ~(<<y, x>> \in OpToRel(<, Nat))
  BY NatLessThanWellFounded, WFMin
<1>2. \A y \in T : ~(y < x)
  BY <1>1 DEF OpToRel
<1> QED BY <1>2

\* A set that is mapped one to one into a finite one is no larger.
LEMMA FitsInto ==
    ASSUME NEW S, NEW T, IsFiniteSet(S), IsFiniteSet(T), NEW f \in [S -> T],
           \A x, y \in S : f[x] = f[y] => x = y
    PROVE  Cardinality(S) <= Cardinality(T)
<1>1. Cardinality(S) \in Nat /\ Cardinality(T) \in Nat
  BY FS_CardinalityType
<1>2. ASSUME Cardinality(T) < Cardinality(S) PROVE FALSE
  BY <1>2, FS_PigeonHole
<1> QED BY <1>1, <1>2

LEMMA FoundIsFinite ==
    ASSUME TypeOK, NEW p \in Participants
    PROVE  /\ IsFiniteSet(StillFound(p)) /\ Cardinality(StillFound(p)) \in Nat
           /\ IsFiniteSet(Seen(p)) /\ Cardinality(Seen(p)) \in Nat
           /\ Seen(p) \subseteq StillFound(p)
<1>1. room_id[p] \in Rooms
  BY DEF TypeOK
<1>2. StillFound(p) \subseteq Members(room_id[p]) /\ Seen(p) \subseteq StillFound(p)
  BY DEF StillFound, Seen
<1> QED BY <1>1, <1>2, MembersIsFinite, FS_Subset, FS_CardinalityType

LEMMA FoundIsFiniteNext ==
    ASSUME TypeOK', NEW p \in Participants
    PROVE  /\ IsFiniteSet(StillFound(p)') /\ Cardinality(StillFound(p)') \in Nat
           /\ IsFiniteSet(Seen(p)') /\ Cardinality(Seen(p)') \in Nat
<1>1. StillFound(p)' \subseteq Users /\ Seen(p)' \subseteq Users
  BY DEF StillFound, Seen, Members
<1> QED BY <1>1, FS_Subset, FS_CardinalityType, HubAssumption

-----------------------------------------------------------------------------
\* A member is in its room under its user, and its join has inserted it.
LEMMA MemberIsIn ==
    ASSUME TypeOK, StaysOut, Named, NEW r \in Rooms, NEW u \in Members(r)
    PROVE  LET q == participants[r][u] IN
           /\ q \in Participants /\ room_id[q] = r /\ user_id[q] = u
           /\ IsMember(q) /\ joining[q][1] \in {"ufrag_index", "joined"} /\ Begun(q)
<1> DEFINE q == participants[r][u]
<1>1. q \in Participants /\ room_id[q] = r /\ user_id[q] = u
  BY DEF TypeOK, Named, Members
<1>2. IsMember(q)
  BY <1>1 DEF IsMember
<1>3. joining[q][1] \in {"ufrag_index", "joined"}
  BY <1>1, <1>2 DEF StaysOut
<1> QED BY <1>1, <1>2, <1>3 DEF Begun

LEMMA InitBooking == Init => BookingInv
<1> SUFFICES ASSUME Init PROVE BookingInv
  OBVIOUS
<1>1. ASSUME NEW p \in Participants
      PROVE  /\ ~Around(p) /\ found[p] = {} /\ abreast[p] = {}
             /\ joining[p][1] = "capacity" /\ counting[p].members = 0
  BY HubAssumption DEF Init, Around, IsMember, Entering, Begun, NotCounting
<1>2. StaysOut
  BY InitOut
<1>3. Named
  BY DEF Init, Named
<1>4. Acquainted
  BY <1>1 DEF Acquainted, Together, Known
<1>5. Counts
  <2> SUFFICES ASSUME NEW p \in Participants PROVE Cardinality(Seen(p)) <= counting[p].members
    BY <1>1 DEF Counts
  <2>1. Seen(p) = {}
    BY <1>1 DEF Seen, StillFound
  <2> QED BY <1>1, <2>1, FS_EmptySet
<1> QED BY <1>2, <1>3, <1>4, <1>5 DEF BookingInv

\* A step that nobody's join begins with, and nobody is removed by: who is around stays or
\* goes, and knows whom he knew.
LEMMA OthersStayAcquainted ==
    ASSUME Acquainted, UNCHANGED <<room_id, found, abreast>>,
           \A p \in Participants : Around(p)' => Around(p),
           \A p \in Participants : Begun(p) => Begun(p)'
    PROVE  Acquainted'
<1>1. \A p \in Participants : Known(p)' = Known(p)
  BY DEF Known
<1>2. \A p, q \in Participants : Together(p, q)' => Together(p, q)
  BY DEF Together
<1> QED BY <1>1, <1>2 DEF Acquainted

\* None of those found is inserted: whoever counts has counted the ones still there.
LEMMA OthersKeepCounts ==
    ASSUME TypeOK, TypeOK', Counts, UNCHANGED <<room_id, counting>>,
           \A p \in Participants : found'[p] \subseteq found[p],
           \A p \in Participants : StillFound(p)' \subseteq StillFound(p),
           \A p \in Participants :
               joining[p][1] \in {"ufrag_index", "joined"} => joining'[p][1] \in {"ufrag_index", "joined"},
           \A p \in Participants :
               joining[p][1] \in {"capacity", "refused"} => joining'[p][1] \in {"capacity", "refused"}
    PROVE  Counts'
<1> SUFFICES ASSUME NEW p \in Participants
             PROVE  /\ \A q \in found'[p] : joining'[q][1] \in {"ufrag_index", "joined"}
                    /\ Cardinality(Seen(p)') <= counting[p].members
                    /\ joining'[p][1] \notin {"capacity", "refused"} =>
                         Cardinality(StillFound(p)') < capacity
  BY DEF Counts
<1>1. \A q \in found'[p] : joining'[q][1] \in {"ufrag_index", "joined"}
  BY DEF Counts, TypeOK
<1>2. Seen(p)' \subseteq Seen(p)
  BY DEF Seen
<1>3. /\ Cardinality(Seen(p)') <= Cardinality(Seen(p))
      /\ Cardinality(StillFound(p)') <= Cardinality(StillFound(p))
  BY <1>2, FoundIsFinite, FS_Subset
<1>4. /\ Cardinality(Seen(p)) <= counting[p].members /\ counting[p].members \in Nat
      /\ joining'[p][1] \notin {"capacity", "refused"} => Cardinality(StillFound(p)) < capacity
  BY DEF Counts, TypeOK
<1> QED BY <1>1, <1>3, <1>4, FoundIsFinite, FoundIsFiniteNext, HubAssumption

-----------------------------------------------------------------------------
\* A join that counts: with its first shard it gets to know everybody around.
LEMMA BeginAcquaints ==
    ASSUME TypeOK, StaysOut, Named, Acquainted, NEW p \in Participants, Begin(p),
           joining[p][1] = "capacity",
           UNCHANGED <<room_id, user_id, participants>>,
           \A q \in Participants \ {p} : Begun(q)' = Begun(q) /\ joining'[q] = joining[q],
           Begun(p)'
    PROVE  Acquainted'
<1>1. \A q \in Participants : IsMember(q)' = IsMember(q)
  BY DEF IsMember
<1>2. \A q \in Participants \ {p} : Around(q)' = Around(q)
  BY <1>1 DEF Around, Entering
<1>3. CASE counting[p].shards > 0
  <2>1. Begun(p) /\ UNCHANGED <<found, abreast>>
    BY <1>3 DEF Begin, Begun
  <2>2. Around(p)
    BY <2>1 DEF Around, Entering
  <2> QED BY <1>2, <2>1, <2>2, OthersStayAcquainted
<1>4. CASE ~(counting[p].shards > 0)
  <2> DEFINE r == room_id[p]
  <2>1. /\ found'[p] = {participants[r][u] : u \in Members(r)}
        /\ abreast'[p] = Entering(r) \cup {p}
        /\ \A q \in Participants \ {p} : found'[q] = found[q] /\ abreast'[q] = abreast[q]
    BY <1>4 DEF Begin, TypeOK
  <2>2. ~Begun(p)
    BY <1>4 DEF Begun
  <2>3. \A q \in Participants : p \notin Known(q)
    BY <2>2 DEF Acquainted
  <2>4. \A q \in Participants \ {p} : Known(q)' = Known(q)
    BY <2>1 DEF Known
  <2>5. ASSUME NEW q \in Participants, room_id[q] = r, Around(q)'
        PROVE  q \in Known(p)'
    <3>1. CASE q = p
      BY <2>1, <3>1 DEF Known
    <3>2. CASE q # p /\ IsMember(q)
      <4>1. user_id[q] \in Members(r) /\ participants[r][user_id[q]] = q
        BY <2>5, <3>2, HubAssumption DEF IsMember, Members, TypeOK
      <4> QED BY <2>1, <4>1 DEF Known
    <3>3. CASE q # p /\ q \in Entering(r)
      BY <2>1, <3>3 DEF Known
    <3> QED BY <1>2, <2>5, <3>1, <3>2, <3>3 DEF Around
  <2>6. ASSUME NEW q \in Participants, q \in Known(p)'
        PROVE  Begun(q)'
    <3>1. CASE q = p
      BY <3>1
    <3>2. CASE q # p /\ q \in Entering(r)
      BY <3>2 DEF Entering
    <3>3. CASE q # p /\ \E u \in Members(r) : q = participants[r][u]
      BY <3>3, MemberIsIn DEF TypeOK
    <3> QED BY <2>1, <2>6, <3>1, <3>2, <3>3 DEF Known
  <2>7. \A q, o \in Participants : Together(q, o)' /\ q # p /\ o # p => Together(q, o)
    BY <1>2 DEF Together
  <2>8. \A q \in Participants : Around(q)' => q \in abreast'[q]
    BY <1>2, <2>1 DEF Acquainted
  <2>9. \A q, o \in Participants : o \in Known(q)' => Begun(o)'
    BY <2>3, <2>4, <2>6 DEF Acquainted
  <2>10. \A q, o \in Participants : Together(q, o)' => o \in Known(q)' \/ q \in Known(o)'
    <3> SUFFICES ASSUME NEW q \in Participants, NEW o \in Participants, Together(q, o)'
                 PROVE  o \in Known(q)' \/ q \in Known(o)'
      OBVIOUS
    <3>1. CASE q = p
      BY <2>5, <3>1 DEF Together
    <3>2. CASE o = p
      BY <2>5, <3>2 DEF Together
    <3>3. CASE q # p /\ o # p
      BY <2>4, <2>7, <3>3 DEF Acquainted
    <3> QED BY <3>1, <3>2, <3>3
  <2>11. ASSUME NEW x \in Participants, NEW y \in Participants, NEW z \in Participants,
                Together(x, y)', Together(y, z)', y \in Known(x)', z \in Known(y)'
         PROVE  z \in Known(x)'
    <3>1. CASE x = p
      BY <2>5, <2>11, <3>1 DEF Together
    <3>2. CASE x # p
      <4>1. y # p
        BY <2>3, <2>4, <2>11, <3>2
      <4>2. z # p
        BY <2>3, <2>4, <2>11, <4>1
      <4> QED BY <2>4, <2>7, <2>11, <3>2, <4>1, <4>2 DEF Acquainted
    <3> QED BY <3>1, <3>2
  <2> QED BY <2>8, <2>9, <2>10, <2>11 DEF Acquainted
<1> QED BY <1>3, <1>4

\* The next shard counts the members that were found and are in it.
LEMMA CountCoversShard ==
    ASSUME TypeOK, TypeOK', StaysOut, Named, Counts, NEW p \in Participants, Begin(p),
           UNCHANGED <<room_id, participants>>
    PROVE  LET S == {u \in StillFound(p)' : shard[room_id[p]][u] <= counting[p].shards + 1} IN
           IsFiniteSet(S) /\ Cardinality(S) \in Nat /\ Cardinality(S) <= Counted(p)
<1> DEFINE r == room_id[p]
           k == counting[p].shards
           S == {u \in StillFound(p)' : shard[r][u] <= k + 1}
           N == {u \in Members(r) : shard[r][u] = k + 1}
<1>1. r \in Rooms /\ k \in 0..Shards /\ counting[p].members \in Nat
  BY DEF TypeOK
<1>2. \A u \in Users : shard[r][u] \in 1..Shards
  BY <1>1, HubAssumption
<1>3. N \subseteq Members(r) /\ IsFiniteSet(N) /\ Cardinality(N) \in Nat
  BY <1>1, MembersIsFinite, FS_Subset, FS_CardinalityType
<1>4. Counted(p) = counting[p].members + Cardinality(N)
  BY DEF Counted
<1>5. StillFound(p)' = {u \in Members(r) : participants[r][u] \in found'[p]}
  BY DEF StillFound, Members
<1>6. S \subseteq Seen(p) \cup N
  <2> SUFFICES ASSUME NEW u \in S, u \notin N PROVE u \in Seen(p)
    OBVIOUS
  <2>1. /\ u \in Members(r) /\ participants[r][u] \in found'[p] /\ u \in Users
        /\ shard[r][u] \in 1..Shards /\ shard[r][u] <= k + 1 /\ shard[r][u] # k + 1
    BY <1>2, <1>5 DEF Members
  <2>2. shard[r][u] <= k /\ k > 0
    BY <1>1, <2>1, HubAssumption
  <2>3. found' = found
    BY <2>2 DEF Begin
  <2> QED BY <2>1, <2>2, <2>3 DEF Seen, StillFound
<1>7. /\ IsFiniteSet(Seen(p) \cup N)
      /\ Cardinality(Seen(p) \cup N) <= Cardinality(Seen(p)) + Cardinality(N)
      /\ Cardinality(Seen(p) \cup N) \in Nat
  <2>1. Cardinality(Seen(p) \cap N) \in Nat
    BY <1>3, FoundIsFinite, FS_Subset, FS_CardinalityType
  <2>2. /\ IsFiniteSet(Seen(p) \cup N)
        /\ Cardinality(Seen(p) \cup N)
             = Cardinality(Seen(p)) + Cardinality(N) - Cardinality(Seen(p) \cap N)
    BY <1>3, FoundIsFinite, FS_Union
  <2>3. Cardinality(Seen(p) \cup N) \in Nat
    BY <2>2, FS_CardinalityType
  <2> HIDE DEF N
  <2> QED BY <1>3, <2>1, <2>2, <2>3, FoundIsFinite
<1>8. IsFiniteSet(S) /\ Cardinality(S) \in Nat /\ Cardinality(S) <= Cardinality(Seen(p) \cup N)
  BY <1>6, <1>7, FS_Subset, FS_CardinalityType
<1>9. Cardinality(Seen(p)) <= counting[p].members
  BY DEF Counts
<1> HIDE DEF S, N
<1>10. Cardinality(S) <= Counted(p)
  BY <1>1, <1>3, <1>4, <1>7, <1>8, <1>9, FoundIsFinite
<1> QED BY <1>8, <1>10 DEF S

\* Counting a shard keeps the books of the join that counts, and of all others.
LEMMA CountKeepsCounts ==
    ASSUME TypeOK, TypeOK', StaysOut, Named, Counts, NEW p \in Participants, Begin(p),
           joining[p][1] = "capacity",
           UNCHANGED <<room_id, participants>>,
           \A q \in Participants \ {p} : joining'[q] = joining[q] /\ counting'[q] = counting[q],
           \/ /\ counting'[p] = [shards |-> counting[p].shards + 1, members |-> Counted(p)]
              /\ joining'[p][1] = "capacity"
           \/ /\ counting'[p] = NotCounting
              /\ counting[p].shards + 1 = Shards
              /\ joining'[p][1] = "refused" \/ (joining'[p][1] = "user" /\ Counted(p) < capacity)
    PROVE  Counts'
<1>1. \A q \in Participants \ {p} : found'[q] = found[q]
  BY DEF Begin, TypeOK
<1>2. ASSUME NEW q \in Participants, NEW o \in found'[q]
      PROVE  joining'[o][1] \in {"ufrag_index", "joined"}
  <2>1. joining[o][1] \in {"ufrag_index", "joined"}
    <3>1. CASE found' = found
      BY <1>2, <3>1 DEF Counts
    <3>2. CASE found'[p] = {participants[room_id[p]][u] : u \in Members(room_id[p])}
      <4>1. CASE q = p
        <5>1. PICK u \in Members(room_id[p]) : o = participants[room_id[p]][u]
          BY <1>2, <3>2, <4>1
        <5>2. room_id[p] \in Rooms
          BY DEF TypeOK
        <5> QED BY <5>1, <5>2, MemberIsIn
      <4>2. CASE q # p
        BY <1>1, <1>2, <4>2 DEF Counts
      <4> QED BY <4>1, <4>2
    <3> QED BY <3>1, <3>2 DEF Begin, TypeOK
  <2>2. o # p
    BY <2>1
  <2>3. o \in Participants
    BY <1>2 DEF TypeOK
  <2> QED BY <2>1, <2>2, <2>3
<1>3. ASSUME NEW q \in Participants \ {p}
      PROVE  StillFound(q)' = StillFound(q) /\ Seen(q)' = Seen(q)
  BY <1>1, <1>3 DEF StillFound, Seen, Members
<1>4. \A q \in Participants \ {p} :
        /\ Cardinality(Seen(q)') <= counting'[q].members
        /\ joining'[q][1] \notin {"capacity", "refused"} => Cardinality(StillFound(q)') < capacity
  BY <1>3 DEF Counts
<1> DEFINE S == {u \in StillFound(p)' : shard[room_id[p]][u] <= counting[p].shards + 1}
<1>5. IsFiniteSet(S) /\ Cardinality(S) \in Nat /\ Cardinality(S) <= Counted(p)
  BY CountCoversShard
<1>6. CASE /\ counting'[p] = [shards |-> counting[p].shards + 1, members |-> Counted(p)]
           /\ joining'[p][1] = "capacity"
  <2>1. Seen(p)' = S
    BY <1>6 DEF Seen
  <2> HIDE DEF S
  <2>2. Cardinality(Seen(p)') <= counting'[p].members
    BY <1>5, <1>6, <2>1
  <2> QED BY <1>2, <1>4, <1>6, <2>2 DEF Counts
<1>7. CASE /\ counting'[p] = NotCounting
           /\ counting[p].shards + 1 = Shards
           /\ joining'[p][1] = "refused" \/ (joining'[p][1] = "user" /\ Counted(p) < capacity)
  <2>1. \A u \in Users : shard[room_id[p]][u] \in 1..Shards
    BY HubAssumption DEF TypeOK
  <2>2. StillFound(p)' \subseteq Users
    BY DEF StillFound, Members
  <2>3. Seen(p)' = {}
    BY <1>7, <2>1, <2>2, HubAssumption DEF Seen, NotCounting
  <2>4. StillFound(p)' = S
    BY <1>7, <2>1, <2>2, HubAssumption
  <2>5. Cardinality(Seen(p)') <= counting'[p].members
    BY <1>7, <2>3, FS_EmptySet DEF NotCounting
  <2> HIDE DEF S
  <2>6. joining'[p][1] # "refused" => Cardinality(StillFound(p)') < capacity
    <3>1. Counted(p) < capacity => Cardinality(S) < capacity
      BY <1>5, CountedType, HubAssumption
    <3> QED BY <1>7, <2>4, <3>1
  <2> QED BY <1>2, <1>4, <2>5, <2>6 DEF Counts
<1> QED BY <1>6, <1>7

LEMMA CountKeepsBooking ==
    ASSUME TypeOK, TypeOK', BookingInv, NEW p \in Participants, CountShard(p) \/ CheckCapacity(p)
    PROVE  BookingInv'
<1>1. /\ Begin(p) /\ joining[p][1] = "capacity"
      /\ UNCHANGED <<room_id, user_id, participants>>
      /\ joining[p] = <<"capacity", "publish">>
  BY DEF CountShard, CheckCapacity, Decide, Join, request, room
<1>2. /\ \A q \in Participants \ {p} : joining'[q] = joining[q] /\ counting'[q] = counting[q]
      /\ \/ /\ counting'[p] = [shards |-> counting[p].shards + 1, members |-> Counted(p)]
            /\ joining'[p][1] = "capacity"
         \/ /\ counting'[p] = NotCounting
            /\ counting[p].shards + 1 = Shards
            /\ joining'[p][1] = "refused" \/ (joining'[p][1] = "user" /\ Counted(p) < capacity)
  BY DEF CountShard, CheckCapacity, Decide, Join, TypeOK
<1>3. /\ \A q \in Participants \ {p} : Begun(q)' = Begun(q)
      /\ Begun(p)'
  BY <1>1, <1>2 DEF Begun, TypeOK
<1>4. StaysOut'
  BY JoinKeepsOut DEF BookingInv
<1>5. Named'
  BY <1>1 DEF BookingInv, Named
<1>6. Acquainted'
  BY <1>1, <1>2, <1>3, BeginAcquaints DEF BookingInv
<1>7. Counts'
  BY <1>1, <1>2, CountKeepsCounts DEF BookingInv
<1> QED BY <1>4, <1>5, <1>6, <1>7 DEF BookingInv

\* A step that changes the map for nobody: the joins go on, or are refused.
LEMMA SameMapKeepsBooking ==
    ASSUME TypeOK, TypeOK', BookingInv, StaysOut', UNCHANGED <<request, participants, counting, found, abreast>>,
           \A q \in Participants :
               \/ joining'[q] = joining[q]
               \/ joining[q][1] = "user" /\ joining'[q][1] \in {"by_ufrag", "refused"}
               \/ joining[q][1] = "by_ufrag" /\ joining'[q][1] \in {"by_ufrag", "participants"}
               \/ joining[q][1] = "ufrag_index" /\ joining'[q][1] \in {"ufrag_index", "joined"}
    PROVE  BookingInv'
<1>1. ASSUME NEW q \in Participants
      PROVE  /\ Begun(q) => Begun(q)'
             /\ Begun(q)' => Begun(q)
             /\ IsMember(q)' = IsMember(q)
  BY DEF Begun, IsMember, request
<1>2. \A q \in Participants : Around(q)' => Around(q)
  BY <1>1 DEF Around, Entering, request
<1>3. Named'
  BY DEF BookingInv, Named, request
<1>4. Acquainted'
  BY <1>1, <1>2, OthersStayAcquainted DEF BookingInv, request
<1>5. \A q \in Participants : StillFound(q)' = StillFound(q)
  BY DEF StillFound, Members, request
<1>6. Counts'
  <2>1. ASSUME NEW q \in Participants
        PROVE  /\ joining[q][1] \in {"ufrag_index", "joined"} => joining'[q][1] \in {"ufrag_index", "joined"}
               /\ joining'[q][1] \notin {"capacity", "refused"} => joining[q][1] \notin {"capacity", "refused"}
    OBVIOUS
  <2> QED BY <1>5, <2>1, OthersKeepCounts DEF BookingInv, request
<1> QED BY <1>3, <1>4, <1>6 DEF BookingInv

\* The insertion makes a member of a join that is around already, and was not there to be
\* found when another join began.
LEMMA InsertionKeepsBooking ==
    ASSUME TypeOK, TypeOK', BookingInv, NEW p \in Participants, InsertParticipant(p)
    PROVE  BookingInv'
<1> DEFINE r == room_id[p]
           v == user_id[p]
<1>1. /\ r \in Rooms /\ v \in Users
      /\ joining[p] = <<"participants", "publish">>
      /\ joining' = [joining EXCEPT ![p] = <<"ufrag_index", "publish">>]
      /\ participants' = [participants EXCEPT ![r][v] = p]
      /\ UNCHANGED <<request, counting, found, abreast>>
  BY DEF TypeOK, InsertParticipant, Join, joins, request
<1>2. StaysOut'
  BY JoinKeepsOut DEF BookingInv
<1>3. \A s \in Rooms, u \in Users :
        participants'[s][u] = IF s = r /\ u = v THEN p ELSE participants[s][u]
  BY <1>1 DEF TypeOK
<1>4. Named'
  BY <1>1, <1>3 DEF BookingInv, Named, request
<1>5. \A q \in Participants : Begun(q)' = Begun(q)
  BY <1>1 DEF Begun, TypeOK
<1>6. Around(p)
  BY <1>1 DEF Around, Entering, Begun
<1>7. \A q \in Participants : Around(q)' => Around(q)
  <2> SUFFICES ASSUME NEW q \in Participants \ {p}, Around(q)' PROVE Around(q)
    BY <1>6
  <2>1. joining'[q] = joining[q]
    BY <1>1
  <2>2. IsMember(q)' => IsMember(q)
    BY JoinMembers
  <2> QED BY <1>1, <1>5, <2>1, <2>2 DEF Around, Entering, request
<1>8. Acquainted'
  BY <1>1, <1>5, <1>7, OthersStayAcquainted DEF BookingInv, request
<1>9. ASSUME NEW q \in Participants
      PROVE  StillFound(q)' \subseteq StillFound(q)
  <2> SUFFICES ASSUME NEW u \in StillFound(q)' PROVE u \in StillFound(q)
    OBVIOUS
  <2>1. u \in Users /\ participants'[room_id[q]][u] # None /\ participants'[room_id[q]][u] \in found[q]
    BY <1>1 DEF StillFound, Members, request
  <2>2. p \notin found[q]
    BY <1>1 DEF BookingInv, Counts
  <2>3. participants'[room_id[q]][u] = participants[room_id[q]][u]
    BY <1>3, <2>1, <2>2 DEF TypeOK
  <2> QED BY <2>1, <2>3 DEF StillFound, Members
<1>10. Counts'
  <2>1. ASSUME NEW q \in Participants
        PROVE  /\ joining[q][1] \in {"ufrag_index", "joined"} => joining'[q][1] \in {"ufrag_index", "joined"}
               /\ joining[q][1] \in {"capacity", "refused"} => joining'[q][1] \in {"capacity", "refused"}
    BY <1>1 DEF TypeOK
  <2> QED BY <1>1, <1>9, <2>1, OthersKeepCounts DEF BookingInv, request
<1> QED BY <1>2, <1>4, <1>8, <1>10 DEF BookingInv

LEMMA JoinKeepsBooking ==
    ASSUME TypeOK, TypeOK', BookingInv, NEW p \in Participants,
           \/ CountShard(p) \/ CheckCapacity(p) \/ CheckUser(p) \/ InsertParticipant(p)
           \/ \E pc \in PcTypes : InsertUfrag(p, pc) \/ InsertUfragIndex(p, pc)
    PROVE  BookingInv'
<1>1. StaysOut'
  BY JoinKeepsOut DEF BookingInv
<1>2. CASE CheckUser(p)
  BY <1>1, <1>2, SameMapKeepsBooking DEF CheckUser, EnterAs, Join, TypeOK, room, joins
<1>3. ASSUME NEW pc \in PcTypes, InsertUfrag(p, pc)
      PROVE  BookingInv'
  BY <1>1, <1>3, SameMapKeepsBooking DEF InsertUfrag, Join, AfterBoth, TypeOK, joins
<1>4. ASSUME NEW pc \in PcTypes, InsertUfragIndex(p, pc)
      PROVE  BookingInv'
  BY <1>1, <1>4, SameMapKeepsBooking DEF InsertUfragIndex, Join, AfterBoth, TypeOK, room, joins
<1> QED BY <1>2, <1>3, <1>4, CountKeepsBooking, InsertionKeepsBooking

\* The removal takes a member out, whose own join nobody needs to know from then on.
LEMMA RemovalKeepsBooking ==
    ASSUME TypeOK, TypeOK', BookingInv, NEW p \in Participants, RemoveParticipant(p)
    PROVE  BookingInv'
<1> DEFINE r == room_id[p]
           v == user_id[p]
<1>1. /\ r \in Rooms /\ v \in Users
      /\ participants[r][v] = p
      /\ participants' = [participants EXCEPT ![r][v] = None]
      /\ found' = [q \in Participants |-> IF q = p THEN {} ELSE found[q] \ {p}]
      /\ abreast' = [abreast EXCEPT ![p] = {}]
      /\ UNCHANGED <<request, counting, joining>>
  BY DEF TypeOK, RemoveParticipant, IsMember, Leave, request
<1>2. StaysOut'
  BY LeaveKeepsOut DEF BookingInv
<1>3. \A s \in Rooms, u \in Users :
        participants'[s][u] = IF s = r /\ u = v THEN None ELSE participants[s][u]
  BY <1>1 DEF TypeOK
<1>4. Named'
  BY <1>1, <1>3 DEF BookingInv, Named, request
<1>5. joining[p][1] \in {"ufrag_index", "joined"}
  BY <1>1 DEF BookingInv, StaysOut, IsMember
<1>6. \A q \in Participants : Begun(q)' = Begun(q)
  BY <1>1 DEF Begun
<1>7. ASSUME NEW q \in Participants, Around(q)'
      PROVE  Around(q) /\ q # p
  <2>1. IsMember(q)' => IsMember(q) /\ q # p
    BY <1>1, <1>3, HubAssumption DEF IsMember, TypeOK, request
  <2>2. (q \in Entering(room_id[q]))' => q \in Entering(room_id[q]) /\ q # p
    BY <1>1, <1>5, <1>6 DEF Entering, request
  <2> QED BY <1>7, <2>1, <2>2 DEF Around
<1>8. /\ \A q \in Participants \ {p} : /\ found'[q] = found[q] \ {p} /\ abreast'[q] = abreast[q]
      /\ found'[p] = {} /\ abreast'[p] = {}
  BY <1>1 DEF TypeOK
<1>9. Acquainted'
  <2>1. \A q, o \in Participants : Together(q, o)' => Together(q, o) /\ q # p /\ o # p
    BY <1>1, <1>7 DEF Together, request
  <2>2. \A q, o \in Participants : o \in Known(q)' => o \in Known(q)
    BY <1>8 DEF Known
  <2>3. \A q, o \in Participants : o \in Known(q) /\ q # p /\ o # p => o \in Known(q)'
    BY <1>8 DEF Known
  <2>4. \A q \in Participants : Around(q)' => q \in abreast'[q]
    BY <1>7, <1>8 DEF BookingInv, Acquainted
  <2>5. \A q, o \in Participants : o \in Known(q)' => Begun(o)'
    BY <1>6, <2>2 DEF BookingInv, Acquainted
  <2>6. \A q, o \in Participants : Together(q, o)' => o \in Known(q)' \/ q \in Known(o)'
    BY <2>1, <2>3 DEF BookingInv, Acquainted
  <2>7. \A x, y, z \in Participants :
          Together(x, y)' /\ Together(y, z)' /\ y \in Known(x)' /\ z \in Known(y)' => z \in Known(x)'
    BY <2>1, <2>2, <2>3 DEF BookingInv, Acquainted
  <2> QED BY <2>4, <2>5, <2>6, <2>7 DEF Acquainted
<1>10. \A q \in Participants : StillFound(q)' \subseteq StillFound(q)
  BY <1>1, <1>3, <1>8 DEF StillFound, Members, TypeOK, request
<1>11. \A q \in Participants : found'[q] \subseteq found[q]
  BY <1>8
<1>12. Counts'
  BY <1>1, <1>10, <1>11, OthersKeepCounts DEF BookingInv, request
<1> QED BY <1>2, <1>4, <1>9, <1>12 DEF BookingInv

LEMMA NextBooking == TypeOK /\ TypeOK' /\ BookingInv /\ [Next]_vars => BookingInv'
<1> SUFFICES ASSUME TypeOK, TypeOK', BookingInv, [Next]_vars PROVE BookingInv'
  OBVIOUS
<1>1. StaysOut'
  BY NextOut DEF BookingInv
<1>2. CASE UNCHANGED <<request, participants, counting, found, abreast, joining>>
  BY <1>1, <1>2, SameMapKeepsBooking
<1>3. ASSUME NEW w \in Workers,
             \/ \E s \in Sessions, a \in Addrs : Binding(w, s, a)
             \/ FindUfrag(w) \/ Rebind(w) \/ LatchAddress(w)
             \/ InsertAddr(w) \/ InsertAddrIndex(w)
      PROVE  BookingInv'
  <2>1. UNCHANGED <<request, participants, counting, found, abreast, joining>>
    BY <1>3 DEF Binding, FindUfrag, Rebind, LatchAddress, InsertAddr, InsertAddrIndex, Latch,
       room, hub, history, joins
  <2> QED BY <1>2, <2>1
<1>4. ASSUME NEW p \in Participants, NEW pc \in PcTypes,
             \/ RemoveUfrag(p, pc) \/ RemoveAddr(p, pc)
             \/ RemoveUfragIndex(p, pc) \/ RemoveAddrIndex(p, pc)
      PROVE  BookingInv'
  <2>1. UNCHANGED <<request, participants, counting, found, abreast, joining>>
    BY <1>4 DEF RemoveUfrag, RemoveAddr, RemoveUfragIndex, RemoveAddrIndex, Leave, room, joins
  <2> QED BY <1>2, <2>1
<1>5. CASE Next
  BY <1>3, <1>4, <1>5, JoinKeepsBooking, RemovalKeepsBooking DEF Next
<1> QED BY <1>2, <1>5 DEF vars, request

-----------------------------------------------------------------------------
\* One of the members knows them all: whose join began last.
LEMMA LastKnowsAll ==
    ASSUME TypeOK, BookingInv, NEW r \in Rooms, NEW In,
           In \subseteq Participants, In # {},
           \A p \in In : room_id[p] = r /\ IsMember(p)
    PROVE  \E x \in In : In \subseteq Known(x)
<1> DEFINE Unknown(x) == In \ Known(x)
           T == {Cardinality(Unknown(x)) : x \in In}
<1>1. \A x \in In : IsFiniteSet(Unknown(x)) /\ Cardinality(Unknown(x)) \in Nat
  <2>1. IsFiniteSet(In)
    BY HubAssumption, FS_Subset
  <2> QED BY <2>1, FS_Subset, FS_CardinalityType
<1>2. T \subseteq Nat /\ T # {}
  BY <1>1
<1>3. PICK t \in T : \A s \in T : t <= s
  <2> HIDE DEF T
  <2> QED BY <1>2, LeastNat
<1>4. PICK x \in In : t = Cardinality(Unknown(x))
  OBVIOUS
<1>5. \A y \in In : Cardinality(Unknown(x)) <= Cardinality(Unknown(y))
  BY <1>3, <1>4
<1>6. ASSUME NEW y \in In, y \notin Known(x) PROVE FALSE
  <2>1. \A p, q \in In : Together(p, q)
    BY DEF Together, Around
  <2>2. x \in Known(y) /\ y \in Known(y)
    BY <1>6, <2>1 DEF BookingInv, Acquainted, Together, Known
  <2>3. \A z \in In : z \in Known(x) => z \in Known(y)
    BY <2>1, <2>2 DEF BookingInv, Acquainted
  <2>4. Unknown(y) \subseteq Unknown(x) /\ y \in Unknown(x) /\ y \notin Unknown(y)
    BY <1>6, <2>2, <2>3
  <2>5. /\ Cardinality(Unknown(y)) <= Cardinality(Unknown(x))
        /\ Cardinality(Unknown(x)) = Cardinality(Unknown(y)) => Unknown(x) = Unknown(y)
    BY <1>1, <2>4, FS_Subset
  <2> HIDE DEF Unknown
  <2> QED BY <1>1, <1>5, <2>4, <2>5
<1> QED BY <1>6

\* add_participant (room.rs:82): a room has more members than its capacity by fewer than
\* the joins that were under way together when the join of one of its members began, however
\* the counts of the shards come between the insertions and the removals, whatever the
\* capacity and however many join.
THEOREM Overbooking == Spec => []OverbookingIsBounded
<1>1. ASSUME TypeOK, BookingInv, NEW r \in Rooms, Members(r) # {}
      PROVE  \E p \in Participants :
               /\ room_id[p] = r /\ IsMember(p)
               /\ Cardinality(Members(r)) < capacity + Cardinality(abreast[p])
  <2> DEFINE In == {participants[r][u] : u \in Members(r)}
  <2>1. ASSUME NEW u \in Members(r)
        PROVE  /\ participants[r][u] \in Participants
               /\ room_id[participants[r][u]] = r
               /\ user_id[participants[r][u]] = u
               /\ IsMember(participants[r][u])
               /\ joining[participants[r][u]][1] \in {"ufrag_index", "joined"}
    BY <1>1, <2>1, MemberIsIn DEF BookingInv
  <2>2. /\ In \subseteq Participants /\ In # {}
        /\ \A p \in In : room_id[p] = r /\ IsMember(p)
    BY <1>1, <2>1
  <2>3. PICK x \in In : In \subseteq Known(x)
    <3> HIDE DEF In
    <3> QED BY <1>1, <2>2, LastKnowsAll
  <2>4. x \in Participants /\ room_id[x] = r /\ IsMember(x)
    BY <2>2
  <2>5. joining[x][1] \in {"ufrag_index", "joined"}
    BY <2>1
  <2> DEFINE F == StillFound(x)
             N == {u \in Members(r) : participants[r][u] \in abreast[x]}
             m == Cardinality(Members(r))
  <2>6. F = {u \in Members(r) : participants[r][u] \in found[x]}
    BY <2>4 DEF StillFound
  <2>7. Members(r) = F \cup N
    BY <2>3, <2>6 DEF Known
  <2>8. /\ IsFiniteSet(F) /\ Cardinality(F) \in Nat /\ Cardinality(F) < capacity
        /\ IsFiniteSet(N) /\ Cardinality(N) \in Nat
        /\ IsFiniteSet(abreast[x]) /\ Cardinality(abreast[x]) \in Nat
    <3>1. IsFiniteSet(F) /\ Cardinality(F) \in Nat
      BY <1>1, <2>4, FoundIsFinite
    <3>2. Cardinality(F) < capacity
      BY <1>1, <2>4, <2>5 DEF BookingInv, Counts
    <3>3. N \subseteq Members(r) /\ abreast[x] \subseteq Participants
      BY <1>1, <2>4 DEF TypeOK
    <3> HIDE DEF F, N
    <3> QED BY <3>1, <3>2, <3>3, MembersIsFinite, HubAssumption, FS_Subset, FS_CardinalityType
  <2>9. Cardinality(N) <= Cardinality(abreast[x])
    <3> DEFINE f == [u \in N |-> participants[r][u]]
    <3>1. f \in [N -> abreast[x]]
      OBVIOUS
    <3>2. \A u, v \in N : f[u] = f[v] => u = v
      <4> SUFFICES ASSUME NEW u \in N, NEW v \in N, participants[r][u] = participants[r][v]
                   PROVE  u = v
        OBVIOUS
      <4>1. user_id[participants[r][u]] = u /\ user_id[participants[r][v]] = v
        BY <2>1
      <4> QED BY <4>1
    <3> HIDE DEF f, N
    <3> QED BY <2>8, <3>1, <3>2, FitsInto
  <2>10. m <= Cardinality(F) + Cardinality(N) /\ m \in Nat
    <3> HIDE DEF F, N
    <3>1. m = Cardinality(F) + Cardinality(N) - Cardinality(F \cap N)
      BY <2>7, <2>8, FS_Union
    <3>2. Cardinality(F \cap N) \in Nat /\ m \in Nat
      BY <2>8, FS_Subset, FS_CardinalityType, MembersIsFinite
    <3> HIDE DEF m
    <3> QED BY <2>8, <3>1, <3>2
  <2> HIDE DEF F, N, m
  <2>11. m < capacity + Cardinality(abreast[x])
    BY <2>8, <2>9, <2>10, HubAssumption
  <2> QED BY <2>4, <2>11 DEF m
<1>2. TypeOK /\ BookingInv => OverbookingIsBounded
  <2> SUFFICES ASSUME TypeOK, BookingInv, NEW r \in Rooms, Members(r) = {}
               PROVE  Cardinality(Members(r)) <= capacity
    BY <1>1 DEF OverbookingIsBounded
  <2> QED BY FS_EmptySet, HubAssumption
<1> QED BY <1>2, Types, InitBooking, NextBooking, PTL DEF Spec

-----------------------------------------------------------------------------
\* The indices: what the removal of a participant leaves of them, and that media are found at
\* the address a session was latched to.

\* The accesses to by_ufrag, by_addr and ufrag_index that a removal has made.
UfragOut(p, pc) ==
    \/ leaving[p][1] \notin {"participants", "by_ufrag"}
    \/ leaving[p] = <<"by_ufrag", "subscribe">> /\ pc = "publish"

AddrOut(p, pc) ==
    \/ leaving[p][1] \in {"ufrag_index", "addr_index", "left"}
    \/ leaving[p] = <<"by_addr", "subscribe">> /\ pc = "publish"

IndexOut(p, pc) ==
    \/ leaving[p][1] \in {"addr_index", "left"}
    \/ leaving[p] = <<"ufrag_index", "subscribe">> /\ pc = "publish"

\* A session that was not crossed has nobody latch it during its removal, and one at a time
\* before.
Undisturbed ==
    \A p \in Participants, pc \in PcTypes : <<p, pc>> \notin crossed =>
        /\ Leaving(p) => Latchers(<<p, pc>>) = {}
        /\ \A v, w \in Latchers(<<p, pc>>) : v = w

\* Who was removed, and not hastily, had joined.
HadJoined == \A p \in Participants : Leaving(p) => Joined(p) \/ p \in hasty

\* Such a session is registered for the address it has, in its own room, and a latch takes
\* the old one out before it sets the new one.
AtOneAddress(p, s) ==
    /\ \A r \in Rooms, a \in Addrs : by_addr[r][a] = s =>
         /\ r = room_id[p] /\ a = address[s]
         /\ \A w \in Latchers(s) : worker[w].step = "address" => a = worker[w].addr
    /\ \A w \in Latchers(s) :
         worker[w].step \in {"by_addr", "addr_index"} => address[s] = worker[w].addr

OneAddress ==
    \A p \in Participants, pc \in PcTypes :
        <<p, pc>> \notin crossed => AtOneAddress(p, <<p, pc>>)

\* What its removal has taken out stays out.
TakenOut ==
    \A p \in Participants, pc \in PcTypes :
        /\ UfragOut(p, pc) => <<p, pc>> \notin by_ufrag
        /\ IndexOut(p, pc) => <<p, pc>> \notin ufrag_index \/ p \in hasty
        /\ AddrOut(p, pc) /\ <<p, pc>> \notin crossed =>
             \A r \in Rooms, a \in Addrs : by_addr[r][a] # <<p, pc>>

\* The inductive invariant behind RemovedLeavesNoTrace.
TraceInv == StaysOut /\ Undisturbed /\ HadJoined /\ OneAddress /\ TakenOut

\* The history has every session that has an address, or is about to be registered for one.
LatchedAreKnown ==
    /\ \A s \in Sessions : address[s] # None => s \in latched[address[s]]
    /\ \A w \in Workers : worker[w] # None /\ worker[w].step \in {"by_addr", "addr_index"} =>
         worker[w].session \in latched[worker[w].addr]

\* The only session that was ever at its address is registered for it, unless a latch is
\* still to do that, or to take it to another address.
Registering(s, a, steps) ==
    \E w \in Latchers(s) : worker[w].step \in steps /\ worker[w].addr = a
Moving(s, a) == \E w \in Latchers(s) : worker[w].step = "address" /\ worker[w].addr # a

AddressIsKept ==
    \A p \in Participants, pc \in PcTypes, a \in Addrs :
        ~Leaving(p) /\ address[<<p, pc>>] = a /\ latched[a] = {<<p, pc>>} =>
            /\ \/ by_addr[room_id[p]][a] = <<p, pc>>
               \/ Registering(<<p, pc>>, a, {"by_addr"})
               \/ Moving(<<p, pc>>, a)
            /\ \/ addr_index[a] = room_id[p]
               \/ Registering(<<p, pc>>, a, {"by_addr", "addr_index"})

\* The inductive invariant behind MediaIsFound.
MediaInv == StaysOut /\ LatchedAreKnown /\ AddressIsKept

-----------------------------------------------------------------------------
\* The invariants hold at first: nobody is a member, leaves, latches or has an address.
LEMMA InitTrace == Init => TraceInv
<1> SUFFICES ASSUME Init PROVE TraceInv
  OBVIOUS
<1>1. \A s \in Sessions : Latchers(s) = {}
  BY DEF Init, Latchers
<1>2. StaysOut
  BY InitOut
<1>3. Undisturbed
  BY <1>1 DEF Init, Undisturbed, Leaving, Sessions
<1>4. OneAddress
  BY <1>1, NoneAssumption DEF Init, OneAddress, AtOneAddress, Sessions
<1>5. TakenOut
  BY DEF Init, TakenOut, UfragOut, AddrOut, IndexOut
<1>6. HadJoined
  BY DEF Init, HadJoined, Leaving
<1> QED BY <1>2, <1>3, <1>4, <1>5, <1>6 DEF TraceInv

LEMMA InitMedia == Init => MediaInv
<1> SUFFICES ASSUME Init PROVE MediaInv
  OBVIOUS
<1>1. LatchedAreKnown
  BY DEF Init, LatchedAreKnown
<1>2. AddressIsKept
  BY HubAssumption DEF Init, AddressIsKept, Sessions
<1> QED BY <1>1, <1>2, InitTrace DEF TraceInv, MediaInv

-----------------------------------------------------------------------------
\* A step that adds no latch and no address keeps the sessions at theirs.
LEMMA FewerKeepAddresses ==
    ASSUME OneAddress, UNCHANGED <<room_id, address>>, crossed \subseteq crossed',
           \A q \in Participants, pc \in PcTypes, r \in Rooms, a \in Addrs :
               by_addr'[r][a] = <<q, pc>> => by_addr[r][a] = <<q, pc>>,
           \A t : Latchers(t)' \subseteq Latchers(t) /\ \A v \in Latchers(t)' : worker'[v] = worker[v]
    PROVE  OneAddress'
<1> SUFFICES ASSUME NEW p \in Participants, NEW pc \in PcTypes, <<p, pc>> \notin crossed'
             PROVE  AtOneAddress(p, <<p, pc>>)'
  BY DEF OneAddress
<1>1. AtOneAddress(p, <<p, pc>>)
  BY DEF OneAddress
<1> QED BY <1>1 DEF AtOneAddress

LEMMA FewerKeepUndisturbed ==
    ASSUME Undisturbed, UNCHANGED leaving, crossed \subseteq crossed',
           \A t : Latchers(t)' \subseteq Latchers(t)
    PROVE  Undisturbed'
BY DEF Undisturbed, Leaving

\* A join registers nobody by address, latches nothing and comes before the removal.
LEMMA JoinKeepsTrace ==
    ASSUME TypeOK, TraceInv, NEW p \in Participants,
           \/ CountShard(p) \/ CheckCapacity(p) \/ CheckUser(p) \/ InsertParticipant(p)
           \/ \E pc \in PcTypes : InsertUfrag(p, pc) \/ InsertUfragIndex(p, pc)
    PROVE  TraceInv'
<1>1. /\ UNCHANGED <<request, by_addr, addr_index, address, leaving, worker, latched, hasty, crossed>>
      /\ ~Joined(p)
      /\ \A q \in Participants \ {p} : joining'[q] = joining[q]
  BY JoinFrame
<1>2. \A s : Latchers(s)' = Latchers(s)
  BY <1>1 DEF Latchers
<1>3. StaysOut'
  BY JoinKeepsOut DEF TraceInv
<1>4. Leaving(p) => joining[p][1] = "ufrag_index" /\ p \in hasty
  BY <1>1 DEF TraceInv, StaysOut, HadJoined, Joined
<1>5. Undisturbed' /\ HadJoined'
  <2>1. Undisturbed'
    BY <1>1, <1>2, FewerKeepUndisturbed DEF TraceInv
  <2>2. HadJoined'
    BY <1>1, <1>4 DEF TraceInv, HadJoined, Leaving, Joined
  <2> QED BY <2>1, <2>2
<1>6. OneAddress'
  BY <1>1, <1>2, FewerKeepAddresses DEF TraceInv, request
<1>7. TakenOut'
  <2> SUFFICES ASSUME NEW q \in Participants, NEW pc \in PcTypes
               PROVE  /\ UfragOut(q, pc) => <<q, pc>> \notin by_ufrag'
                      /\ IndexOut(q, pc) => <<q, pc>> \notin ufrag_index' \/ q \in hasty
                      /\ AddrOut(q, pc) /\ <<q, pc>> \notin crossed =>
                           \A r \in Rooms, a \in Addrs : by_addr[r][a] # <<q, pc>>
    BY <1>1 DEF TakenOut, UfragOut, AddrOut, IndexOut
  <2>1. CASE q = p
    <3>1. CASE Leaving(p)
      <4>1. by_ufrag' = by_ufrag
        BY <1>4, <3>1 DEF CountShard, CheckCapacity, Decide, CheckUser, EnterAs, InsertUfrag,
           InsertParticipant, InsertUfragIndex, Join, room
      <4> QED BY <1>4, <2>1, <3>1, <4>1 DEF TraceInv, TakenOut
    <3>2. CASE ~Leaving(p)
      BY <2>1, <3>2 DEF Leaving, UfragOut, AddrOut, IndexOut
    <3> QED BY <3>1, <3>2
  <2>2. CASE q # p
    <3>1. <<q, pc>> \in Sessions /\ <<q, pc>>[1] # p
      BY <2>2 DEF Sessions
    <3> QED BY <3>1, JoinFrame DEF TraceInv, TakenOut
  <2> QED BY <2>1, <2>2
<1> QED BY <1>3, <1>5, <1>6, <1>7 DEF TraceInv

\* A removal takes each entry out in its turn; the address it finds is the one there is.
LEMMA LeaveKeepsTrace ==
    ASSUME TypeOK, TraceInv, NEW p \in Participants,
           \/ RemoveParticipant(p)
           \/ \E pc \in PcTypes :
                \/ RemoveUfrag(p, pc) \/ RemoveAddr(p, pc)
                \/ RemoveUfragIndex(p, pc) \/ RemoveAddrIndex(p, pc)
    PROVE  TraceInv'
<1>1. /\ UNCHANGED <<request, joining, address, worker, latched>>
      /\ hasty \subseteq hasty' /\ crossed \subseteq crossed'
      /\ by_ufrag' \subseteq by_ufrag
      /\ ufrag_index' \subseteq ufrag_index
      /\ \A r \in Rooms, a \in Addrs : by_addr'[r][a] \in {by_addr[r][a], None}
      /\ \A q \in Participants \ {p} : leaving'[q] = leaving[q]
  BY LeaveFrame
<1>2. \A s : Latchers(s)' = Latchers(s)
  BY <1>1 DEF Latchers
<1>3. StaysOut'
  BY LeaveKeepsOut DEF TraceInv
<1>0. RemoveParticipant(p) \/ Leaving(p)
  <2>1. ASSUME NEW pc \in PcTypes,
               \/ RemoveUfrag(p, pc) \/ RemoveAddr(p, pc)
               \/ RemoveUfragIndex(p, pc) \/ RemoveAddrIndex(p, pc)
        PROVE  Leaving(p)
    BY <2>1 DEF RemoveUfrag, RemoveAddr, RemoveUfragIndex, RemoveAddrIndex, Leave, Leaving
  <2> QED BY <2>1
<1>4. Undisturbed' /\ HadJoined'
  <2>1. ASSUME NEW pc \in PcTypes, <<p, pc>> \notin crossed'
        PROVE  Latchers(<<p, pc>>) = {}
    <3>1. CASE RemoveParticipant(p)
      <4>1. <<p, pc>> \in Sessions /\ <<p, pc>>[1] = p
        BY DEF Sessions
      <4> QED BY <2>1, <3>1, <4>1 DEF RemoveParticipant
    <3>2. CASE Leaving(p)
      BY <1>1, <2>1, <3>2 DEF TraceInv, Undisturbed
    <3> QED BY <1>0, <3>1, <3>2
  <2>2. Joined(p) \/ p \in hasty'
    <3>1. CASE RemoveParticipant(p)
      BY <3>1 DEF RemoveParticipant
    <3>2. CASE Leaving(p)
      BY <1>1, <3>2 DEF TraceInv, HadJoined
    <3> QED BY <1>0, <3>1, <3>2
  <2>3. Undisturbed'
    <3> SUFFICES ASSUME NEW q \in Participants, NEW pc \in PcTypes, <<q, pc>> \notin crossed'
                 PROVE  /\ Leaving(q)' => Latchers(<<q, pc>>) = {}
                        /\ \A v, w \in Latchers(<<q, pc>>) : v = w
      BY <1>2 DEF Undisturbed
    <3> QED BY <1>1, <2>1 DEF TraceInv, Undisturbed, Leaving
  <2>4. HadJoined'
    BY <1>1, <2>2 DEF TraceInv, HadJoined, Leaving, Joined
  <2> QED BY <2>3, <2>4
<1>5. ASSUME NEW q \in Participants, NEW pc \in PcTypes, NEW r \in Rooms, NEW a \in Addrs,
             by_addr'[r][a] = <<q, pc>>
      PROVE  by_addr[r][a] = <<q, pc>>
  <2>1. <<q, pc>> # None
    BY NoneAssumption DEF Sessions
  <2> QED BY <1>1, <1>5, <2>1
<1>6. OneAddress'
  BY <1>1, <1>2, <1>5, FewerKeepAddresses DEF TraceInv, request
<1> DEFINE Clean(q, pc) ==
        /\ UfragOut(q, pc)' => <<q, pc>> \notin by_ufrag'
        /\ IndexOut(q, pc)' => <<q, pc>> \notin ufrag_index' \/ q \in hasty'
        /\ AddrOut(q, pc)' /\ <<q, pc>> \notin crossed' =>
             \A r \in Rooms, a \in Addrs : by_addr'[r][a] # <<q, pc>>
<1>7. ASSUME NEW q \in Participants \ {p}, NEW pc \in PcTypes
      PROVE  Clean(q, pc)
  <2>1. /\ UfragOut(q, pc)' = UfragOut(q, pc) /\ AddrOut(q, pc)' = AddrOut(q, pc)
        /\ IndexOut(q, pc)' = IndexOut(q, pc)
    BY <1>1 DEF UfragOut, AddrOut, IndexOut
  <2> QED BY <1>1, <1>5, <1>7, <2>1 DEF TraceInv, TakenOut
<1>8. ASSUME NEW pc \in PcTypes
      PROVE  Clean(p, pc)
  <2>1. /\ UfragOut(p, pc) => <<p, pc>> \notin by_ufrag'
        /\ IndexOut(p, pc) => <<p, pc>> \notin ufrag_index' \/ p \in hasty'
        /\ AddrOut(p, pc) /\ <<p, pc>> \notin crossed' =>
             \A r \in Rooms, a \in Addrs : by_addr'[r][a] # <<p, pc>>
    BY <1>1, <1>5, <1>8 DEF TraceInv, TakenOut
  <2>2. CASE RemoveParticipant(p)
    BY <2>2 DEF RemoveParticipant, Leave, TypeOK, UfragOut, AddrOut, IndexOut
  <2>3. ASSUME NEW c \in PcTypes, RemoveUfrag(p, c)
        PROVE  /\ UfragOut(p, pc)' => UfragOut(p, pc) \/ pc = c
               /\ ~AddrOut(p, pc)' /\ ~IndexOut(p, pc)'
               /\ <<p, c>> \notin by_ufrag'
    BY <2>3 DEF RemoveUfrag, Leave, AfterBoth, TypeOK, UfragOut, AddrOut, IndexOut, PcTypes
  <2>4. ASSUME NEW c \in PcTypes, RemoveAddr(p, c)
        PROVE  /\ UfragOut(p, pc)' => UfragOut(p, pc)
               /\ AddrOut(p, pc)' => AddrOut(p, pc) \/ pc = c
               /\ ~IndexOut(p, pc)'
               /\ <<p, c>> \notin crossed' => \A r \in Rooms, a \in Addrs : by_addr'[r][a] # <<p, c>>
    <3>1. /\ UfragOut(p, pc)' => UfragOut(p, pc)
          /\ AddrOut(p, pc)' => AddrOut(p, pc) \/ pc = c
          /\ ~IndexOut(p, pc)'
      BY <2>4 DEF RemoveAddr, Leave, AfterBoth, TypeOK, UfragOut, AddrOut, IndexOut, PcTypes
    <3>2. ASSUME <<p, c>> \notin crossed', NEW r \in Rooms, NEW a \in Addrs,
                 by_addr'[r][a] = <<p, c>>
          PROVE  FALSE
      <4>1. by_addr[r][a] = <<p, c>>
        BY <1>5, <3>2
      <4>2. r = room_id[p] /\ a = address[<<p, c>>]
        BY <1>1, <3>2, <4>1 DEF TraceInv, OneAddress, AtOneAddress, request
      <4>3. by_addr'[r][a] = None
        BY <2>4, <4>2, HubAssumption DEF RemoveAddr, TypeOK
      <4> QED BY <3>2, <4>3, NoneAssumption DEF Sessions
    <3> QED BY <3>1, <3>2
  <2>5. ASSUME NEW c \in PcTypes, RemoveUfragIndex(p, c)
        PROVE  /\ UfragOut(p, pc)' => UfragOut(p, pc)
               /\ AddrOut(p, pc)' => AddrOut(p, pc)
               /\ IndexOut(p, pc)' => IndexOut(p, pc) \/ pc = c
               /\ <<p, c>> \notin ufrag_index'
    BY <2>5 DEF RemoveUfragIndex, Leave, AfterBoth, TypeOK, UfragOut, AddrOut, IndexOut, PcTypes
  <2>6. ASSUME NEW c \in PcTypes, RemoveAddrIndex(p, c)
        PROVE  /\ UfragOut(p, pc)' => UfragOut(p, pc)
               /\ AddrOut(p, pc)' => AddrOut(p, pc)
               /\ IndexOut(p, pc)' => IndexOut(p, pc)
    BY <2>6 DEF RemoveAddrIndex, Leave, AfterBoth, TypeOK, UfragOut, AddrOut, IndexOut, PcTypes
  <2> QED BY <2>1, <2>2, <2>3, <2>4, <2>5, <2>6
<1>9. TakenOut'
  BY <1>7, <1>8 DEF TakenOut
<1> QED BY <1>3, <1>4, <1>6, <1>9 DEF TraceInv
-----------------------------------------------------------------------------
\* Who latches a session: it begins with the room's lookup and ends with the hub's insert.
LEMMA LatchersGoOn ==
    ASSUME TypeOK, NEW w \in Workers, NEW step, NEW next \in {"address", "by_addr", "addr_index"},
           Latch(w, step, next), step # "by_ufrag"
    PROVE  /\ \A s : Latchers(s)' = Latchers(s)
           /\ w \in Latchers(worker[w].session)
BY LatchFrame DEF Latchers

LEMMA LatchersBegin ==
    ASSUME TypeOK, NEW w \in Workers, Latch(w, "by_ufrag", "rebind")
    PROVE  /\ \A s : s # worker[w].session => Latchers(s)' = Latchers(s)
           /\ Latchers(worker[w].session)' = Latchers(worker[w].session) \cup {w}
           /\ \A s : w \notin Latchers(s)
BY LatchFrame DEF Latchers

LEMMA LatchersEnd ==
    ASSUME TypeOK, NEW w \in Workers, NEW step, Latch(w, step, "idle")
    PROVE  \A s : Latchers(s)' = Latchers(s) \ {w}
BY LatchFrame DEF Latchers

LEMMA LatchersOfABinding ==
    ASSUME TypeOK, NEW w \in Workers, NEW s \in Sessions, NEW a \in Addrs, Binding(w, s, a)
    PROVE  /\ \A t : Latchers(t)' = Latchers(t) /\ w \notin Latchers(t)
           /\ \A v \in Workers \ {w} : worker'[v] = worker[v]
           /\ worker'[w].step = "by_ufrag"
<1>1. /\ worker[w] = None /\ worker'[w] = [step |-> "by_ufrag", session |-> s, addr |-> a]
      /\ \A v \in Workers \ {w} : worker'[v] = worker[v]
  BY DEF Binding, TypeOK
<1>2. worker'[w].step = "by_ufrag"
  BY <1>1
<1> QED BY <1>1, <1>2 DEF Latchers

\* What the step of a worker that touches no table by address keeps.
LEMMA UntouchedKeepTrace ==
    ASSUME TraceInv,
           UNCHANGED <<request, participants, by_ufrag, ufrag_index, joining, leaving, by_addr>>,
           hasty' = hasty, crossed \subseteq crossed', Undisturbed', OneAddress'
    PROVE  TraceInv'
<1>1. StaysOut'
  BY OthersKeepOut DEF TraceInv
<1>2. TakenOut'
  BY DEF TraceInv, TakenOut, UfragOut, AddrOut, IndexOut
<1>3. HadJoined'
  BY DEF TraceInv, HadJoined, Leaving, Joined
<1> QED BY <1>1, <1>2, <1>3 DEF TraceInv

LEMMA BindingKeepsTrace ==
    ASSUME TypeOK, TraceInv, NEW w \in Workers, NEW s \in Sessions, NEW a \in Addrs, Binding(w, s, a)
    PROVE  TraceInv'
<1>1. UNCHANGED <<request, participants, by_ufrag, ufrag_index, joining, leaving, by_addr,
                  address, hasty, crossed>>
  BY DEF Binding, room, hub, history
<1>2. \A t : Latchers(t)' = Latchers(t) /\ \A v \in Latchers(t) : worker'[v] = worker[v]
  BY LatchersOfABinding DEF Latchers
<1>3. Undisturbed'
  BY <1>1, <1>2 DEF TraceInv, Undisturbed, Leaving, Joined, HadJoined
<1>4. OneAddress'
  BY <1>1, <1>2, FewerKeepAddresses DEF TraceInv, request
<1> QED BY <1>1, <1>3, <1>4, UntouchedKeepTrace

\* The lookup adds a latch to a session that has none, or the session is crossed.
LEMMA LookupKeepsTrace ==
    ASSUME TypeOK, TraceInv, NEW w \in Workers, FindUfrag(w)
    PROVE  TraceInv'
<1>1. /\ UNCHANGED <<request, participants, by_ufrag, ufrag_index, joining, leaving, by_addr, address>>
      /\ hasty' = hasty /\ crossed \subseteq crossed'
  BY DEF FindUfrag, Latch, room, hub
<1>2. CASE Latch(w, "by_ufrag", "rebind")
  <2> DEFINE s == worker[w].session
  <2>1. /\ \A v \in Workers \ {w} : worker'[v] = worker[v]
        /\ worker'[w].step = "rebind"
    BY <1>2, LatchFrame
  <2>2. /\ \A t : t # s => Latchers(t)' = Latchers(t)
        /\ Latchers(s)' = Latchers(s) \cup {w}
        /\ \A t : w \notin Latchers(t)
    BY <1>2, LatchersBegin
  <2>3. s \in crossed' \/ (Latchers(s) = {} /\ ~Leaving(s[1]))
    <3>1. ~Latch(w, "by_ufrag", "idle")
      BY <1>2, LatchFrame
    <3> QED BY <3>1 DEF FindUfrag
  <2> HIDE DEF s
  <2>4. Undisturbed'
    <3> SUFFICES ASSUME NEW p \in Participants, NEW pc \in PcTypes, <<p, pc>> \notin crossed'
                 PROVE  /\ Leaving(p) => Latchers(<<p, pc>>)' = {}
                        /\ \A v, u \in Latchers(<<p, pc>>)' : v = u
      BY <1>1 DEF Undisturbed, Leaving
    <3>1. CASE <<p, pc>> = s
      BY <2>2, <2>3, <3>1
    <3>2. CASE <<p, pc>> # s
      BY <1>1, <2>2, <3>2 DEF TraceInv, Undisturbed
    <3> QED BY <3>1, <3>2
  <2>5. \A t : \A v \in Latchers(t)' :
          \/ v = w /\ worker'[v].step = "rebind"
          \/ v \in Latchers(t) /\ worker'[v] = worker[v]
    BY <2>1, <2>2 DEF Latchers
  <2>6. OneAddress'
    <3> SUFFICES ASSUME NEW p \in Participants, NEW pc \in PcTypes, <<p, pc>> \notin crossed'
                 PROVE  AtOneAddress(p, <<p, pc>>)'
      BY <1>1 DEF OneAddress
    <3> QED BY <1>1, <2>5 DEF TraceInv, OneAddress, AtOneAddress, request
  <2> QED BY <1>1, <2>4, <2>6, UntouchedKeepTrace
<1>3. CASE Latch(w, "by_ufrag", "idle")
  <2>1. /\ \A t : Latchers(t)' = Latchers(t) \ {w}
        /\ \A v \in Workers \ {w} : worker'[v] = worker[v]
    BY <1>3, LatchersEnd, LatchFrame
  <2>2. \A t : Latchers(t)' \subseteq Latchers(t) /\ \A v \in Latchers(t)' : worker'[v] = worker[v]
    BY <2>1 DEF Latchers
  <2>3. Undisturbed'
    BY <1>1, <2>2 DEF TraceInv, Undisturbed, Leaving, Joined, HadJoined
  <2>4. OneAddress'
    BY <1>1, <2>2, FewerKeepAddresses DEF TraceInv, request
  <2> QED BY <1>1, <2>3, <2>4, UntouchedKeepTrace
<1> QED BY <1>2, <1>3 DEF FindUfrag

\* The old address is out before the session has the new one.
LEMMA RebindKeepsTrace ==
    ASSUME TypeOK, TraceInv, NEW w \in Workers, Rebind(w)
    PROVE  TraceInv'
<1> DEFINE s == worker[w].session
           old == address[s]
<1>1. /\ UNCHANGED <<request, participants, by_ufrag, ufrag_index, joining, leaving, address, hasty, crossed>>
      /\ Latch(w, "rebind", "address")
  BY DEF Rebind, Latch, hub
<1>2. /\ \A v \in Workers \ {w} : worker'[v] = worker[v]
      /\ worker'[w].step = "address" /\ worker'[w].addr = worker[w].addr
      /\ \A t : Latchers(t)' = Latchers(t)
      /\ w \in Latchers(s)
  BY <1>1, LatchFrame, LatchersGoOn
<1>3. s \in Sessions /\ worker[w].addr \in Addrs /\ room_id[s[1]] \in Rooms
  BY <1>1, LatchType DEF TypeOK
<1>4. by_addr' = IF old \in {None, worker[w].addr} THEN by_addr
                 ELSE [by_addr EXCEPT ![room_id[s[1]]][old] = None]
  BY DEF Rebind
<1>5. \A t : t # s => w \notin Latchers(t)
  BY DEF Latchers
<1> HIDE DEF s, old
<1>6. ASSUME NEW r \in Rooms, NEW a \in Addrs, NEW t \in Sessions, by_addr'[r][a] = t
      PROVE  by_addr[r][a] = t
  <2>1. t # None
    BY NoneAssumption
  <2> QED BY <1>3, <1>4, <1>6, <2>1 DEF TypeOK
<1>7. ASSUME NEW p \in Participants, NEW pc \in PcTypes, <<p, pc>> = s, <<p, pc>> \notin crossed,
             NEW r \in Rooms, NEW a \in Addrs, by_addr'[r][a] = s
      PROVE  a = worker[w].addr
  <2>1. by_addr[r][a] = s
    BY <1>3, <1>6, <1>7
  <2>2. r = room_id[s[1]] /\ a = old
    BY <1>7, <2>1 DEF TraceInv, OneAddress, AtOneAddress, old
  <2>3. old # worker[w].addr => by_addr'[r][a] = None
    BY <1>3, <1>4, <2>2, HubAssumption DEF TypeOK
  <2>4. s # None
    BY <1>3, NoneAssumption
  <2> QED BY <1>7, <2>2, <2>3, <2>4
<1>8. StaysOut'
  BY <1>1, OthersKeepOut DEF TraceInv
<1>9. Undisturbed' /\ HadJoined'
  BY <1>1, <1>2 DEF TraceInv, Undisturbed, Leaving, Joined, HadJoined
<1>10. OneAddress'
  <2> SUFFICES ASSUME NEW p \in Participants, NEW pc \in PcTypes, <<p, pc>> \notin crossed
               PROVE  AtOneAddress(p, <<p, pc>>)'
    BY <1>1 DEF OneAddress
  <2>0. AtOneAddress(p, <<p, pc>>)
    BY DEF TraceInv, OneAddress
  <2>1. <<p, pc>> \in Sessions
    BY DEF Sessions
  <2>2. CASE <<p, pc>> = s
    <3>1. \A v \in Latchers(s) : v = w
      BY <1>2, <2>2 DEF TraceInv, Undisturbed
    <3>2. \A v \in Latchers(<<p, pc>>)' : v = w
      BY <1>2, <2>2, <3>1
    <3>3. ASSUME NEW r \in Rooms, NEW a \in Addrs, by_addr'[r][a] = <<p, pc>>
          PROVE  r = room_id[p] /\ a = address[<<p, pc>>] /\ a = worker[w].addr
      <4>1. by_addr[r][a] = <<p, pc>>
        BY <1>6, <2>1, <3>3
      <4> QED BY <1>7, <2>0, <2>2, <3>3, <4>1 DEF AtOneAddress
    <3>4. \A v \in Latchers(<<p, pc>>)' :
            worker'[v].step = "address" /\ worker'[v].addr = worker[w].addr
      BY <1>2, <3>2
    <3> QED BY <1>1, <3>3, <3>4 DEF AtOneAddress, request
  <2>3. CASE <<p, pc>> # s
    <3>1. \A v \in Latchers(<<p, pc>>)' : v \in Latchers(<<p, pc>>) /\ worker'[v] = worker[v]
      BY <1>2, <1>5, <2>3 DEF Latchers
    <3> QED BY <1>1, <1>6, <2>1, <2>0, <3>1 DEF AtOneAddress, request
  <2> QED BY <2>2, <2>3
<1>11. TakenOut'
  <2>1. \A p \in Participants, pc \in PcTypes : AddrOut(p, pc) /\ <<p, pc>> \notin crossed =>
          \A r \in Rooms, a \in Addrs : by_addr'[r][a] # <<p, pc>>
    <3> SUFFICES ASSUME NEW p \in Participants, NEW pc \in PcTypes, AddrOut(p, pc), <<p, pc>> \notin crossed,
                        NEW r \in Rooms, NEW a \in Addrs
                 PROVE  by_addr'[r][a] # <<p, pc>>
      OBVIOUS
    <3>1. by_addr[r][a] # <<p, pc>>
      BY DEF TraceInv, TakenOut
    <3>2. <<p, pc>> \in Sessions
      BY DEF Sessions
    <3> QED BY <1>6, <3>1, <3>2
  <2> QED BY <1>1, <2>1 DEF TraceInv, TakenOut, UfragOut, AddrOut, IndexOut
<1> QED BY <1>8, <1>9, <1>10, <1>11 DEF TraceInv

\* The session takes the address that it is still registered for, if for any.
LEMMA AddressKeepsTrace ==
    ASSUME TypeOK, TraceInv, NEW w \in Workers, LatchAddress(w)
    PROVE  TraceInv'
<1> DEFINE s == worker[w].session
<1>1. /\ UNCHANGED <<request, participants, by_ufrag, ufrag_index, joining, leaving, by_addr, hasty, crossed>>
      /\ Latch(w, "address", "by_addr")
  BY DEF LatchAddress, Latch, room, hub
<1>2. /\ \A v \in Workers \ {w} : worker'[v] = worker[v]
      /\ worker'[w].step = "by_addr" /\ worker'[w].addr = worker[w].addr
      /\ worker[w].step = "address"
      /\ \A t : Latchers(t)' = Latchers(t)
      /\ w \in Latchers(s)
  BY <1>1, LatchFrame, LatchersGoOn
<1>3. s \in Sessions
  BY <1>1, LatchType
<1>4. address'[s] = worker[w].addr /\ \A t \in Sessions \ {s} : address'[t] = address[t]
  BY <1>3 DEF LatchAddress, TypeOK
<1>5. \A t : t # s => w \notin Latchers(t)
  BY DEF Latchers
<1> HIDE DEF s
<1>6. Undisturbed'
  BY <1>1, <1>2 DEF TraceInv, Undisturbed, Leaving, Joined, HadJoined
<1>7. OneAddress'
  <2> SUFFICES ASSUME NEW p \in Participants, NEW pc \in PcTypes, <<p, pc>> \notin crossed
               PROVE  AtOneAddress(p, <<p, pc>>)'
    BY <1>1 DEF OneAddress
  <2>0. AtOneAddress(p, <<p, pc>>)
    BY DEF TraceInv, OneAddress
  <2>1. <<p, pc>> \in Sessions
    BY DEF Sessions
  <2>2. CASE <<p, pc>> = s
    <3>1. \A v \in Latchers(s) : v = w
      BY <1>2, <2>2 DEF TraceInv, Undisturbed
    <3>2. \A v \in Latchers(<<p, pc>>)' : v = w
      BY <1>2, <2>2, <3>1
    <3>3. ASSUME NEW r \in Rooms, NEW a \in Addrs, by_addr[r][a] = <<p, pc>>
          PROVE  r = room_id[p] /\ a = worker[w].addr
      BY <1>2, <2>0, <2>2, <3>3 DEF AtOneAddress
    <3>4. address'[<<p, pc>>] = worker[w].addr
      BY <1>4, <2>2
    <3>5. \A v \in Latchers(<<p, pc>>)' :
            worker'[v].step = "by_addr" /\ worker'[v].addr = worker[w].addr
      BY <1>2, <3>2
    <3> QED BY <1>1, <3>3, <3>4, <3>5 DEF AtOneAddress, request
  <2>3. CASE <<p, pc>> # s
    <3>1. \A v \in Latchers(<<p, pc>>)' : v \in Latchers(<<p, pc>>) /\ worker'[v] = worker[v]
      BY <1>2, <1>5, <2>3 DEF Latchers
    <3> QED BY <1>1, <1>4, <2>1, <2>3, <2>0, <3>1 DEF AtOneAddress, request
  <2> QED BY <2>2, <2>3
<1> QED BY <1>1, <1>6, <1>7, UntouchedKeepTrace

\* The session is registered for the address it has, before its participant is removed.
LEMMA InsertAddrKeepsTrace ==
    ASSUME TypeOK, TraceInv, NEW w \in Workers, InsertAddr(w)
    PROVE  TraceInv'
<1> DEFINE s == worker[w].session
<1>1. /\ UNCHANGED <<request, participants, by_ufrag, ufrag_index, joining, leaving, address, hasty, crossed>>
      /\ Latch(w, "by_addr", "addr_index")
  BY DEF InsertAddr, Latch, hub
<1>2. /\ \A v \in Workers \ {w} : worker'[v] = worker[v]
      /\ worker'[w].step = "addr_index" /\ worker'[w].addr = worker[w].addr
      /\ worker[w].step = "by_addr"
      /\ \A t : Latchers(t)' = Latchers(t)
      /\ w \in Latchers(s)
  BY <1>1, LatchFrame, LatchersGoOn
<1>3. s \in Sessions /\ worker[w].addr \in Addrs /\ room_id[s[1]] \in Rooms
  BY <1>1, LatchType DEF TypeOK
<1>4. by_addr' = [by_addr EXCEPT ![room_id[s[1]]][worker[w].addr] = s]
  BY DEF InsertAddr
<1>5. \A t : t # s => w \notin Latchers(t)
  BY DEF Latchers
<1> HIDE DEF s
<1>6. ASSUME NEW r \in Rooms, NEW a \in Addrs
      PROVE  \/ by_addr'[r][a] = by_addr[r][a]
             \/ r = room_id[s[1]] /\ a = worker[w].addr /\ by_addr'[r][a] = s
  BY <1>3, <1>4 DEF TypeOK
<1>7. StaysOut'
  BY <1>1, OthersKeepOut DEF TraceInv
<1>8. Undisturbed' /\ HadJoined'
  BY <1>1, <1>2 DEF TraceInv, Undisturbed, Leaving, Joined, HadJoined
<1>9. OneAddress'
  <2> SUFFICES ASSUME NEW p \in Participants, NEW pc \in PcTypes, <<p, pc>> \notin crossed
               PROVE  AtOneAddress(p, <<p, pc>>)'
    BY <1>1 DEF OneAddress
  <2>0. AtOneAddress(p, <<p, pc>>)
    BY DEF TraceInv, OneAddress
  <2>1. CASE <<p, pc>> = s
    <3>1. \A v \in Latchers(s) : v = w
      BY <1>2, <2>1 DEF TraceInv, Undisturbed
    <3>2. address[s] = worker[w].addr /\ s[1] = p
      BY <1>2, <2>0, <2>1 DEF AtOneAddress
    <3>3. \A v \in Latchers(<<p, pc>>)' : v = w
      BY <1>2, <2>1, <3>1
    <3>4. ASSUME NEW r \in Rooms, NEW a \in Addrs, by_addr'[r][a] = <<p, pc>>
          PROVE  r = room_id[p] /\ a = address[<<p, pc>>]
      <4>1. CASE by_addr'[r][a] = by_addr[r][a]
        BY <2>0, <3>4, <4>1 DEF AtOneAddress
      <4>2. CASE r = room_id[s[1]] /\ a = worker[w].addr
        BY <2>1, <3>2, <4>2
      <4> QED BY <1>6, <4>1, <4>2
    <3>5. address[<<p, pc>>] = worker[w].addr
      BY <2>1, <3>2
    <3>6. \A v \in Latchers(<<p, pc>>)' :
            worker'[v].step = "addr_index" /\ worker'[v].addr = worker[w].addr
      BY <1>2, <3>3
    <3> QED BY <1>1, <3>4, <3>5, <3>6 DEF AtOneAddress, request
  <2>2. CASE <<p, pc>> # s
    <3>1. \A v \in Latchers(<<p, pc>>)' : v \in Latchers(<<p, pc>>) /\ worker'[v] = worker[v]
      BY <1>2, <1>5, <2>2 DEF Latchers
    <3> QED BY <1>1, <1>6, <2>2, <2>0, <3>1 DEF AtOneAddress, request
  <2> QED BY <2>1, <2>2
<1>10. TakenOut'
  <2> SUFFICES ASSUME NEW p \in Participants, NEW pc \in PcTypes, AddrOut(p, pc), <<p, pc>> \notin crossed,
                      NEW r \in Rooms, NEW a \in Addrs
               PROVE  by_addr'[r][a] # <<p, pc>>
    BY <1>1 DEF TraceInv, TakenOut, UfragOut, AddrOut, IndexOut
  <2>1. Leaving(p)
    BY DEF AddrOut, Leaving
  <2>2. <<p, pc>> # s
    BY <1>2, <2>1 DEF TraceInv, Undisturbed
  <2>3. by_addr[r][a] # <<p, pc>>
    BY DEF TraceInv, TakenOut
  <2>4. by_addr'[r][a] = by_addr[r][a] \/ by_addr'[r][a] = s
    BY <1>6
  <2> QED BY <2>2, <2>3, <2>4
<1> QED BY <1>7, <1>8, <1>9, <1>10 DEF TraceInv

LEMMA InsertAddrIndexKeepsTrace ==
    ASSUME TypeOK, TraceInv, NEW w \in Workers, InsertAddrIndex(w)
    PROVE  TraceInv'
<1>1. /\ UNCHANGED <<request, participants, by_ufrag, ufrag_index, joining, leaving, by_addr, address, hasty, crossed>>
      /\ Latch(w, "addr_index", "idle")
  BY DEF InsertAddrIndex, Latch, room
<1>2. /\ \A t : Latchers(t)' = Latchers(t) \ {w}
      /\ \A v \in Workers \ {w} : worker'[v] = worker[v]
  BY <1>1, LatchersEnd, LatchFrame
<1>3. \A t : Latchers(t)' \subseteq Latchers(t) /\ \A v \in Latchers(t)' : worker'[v] = worker[v]
  BY <1>2 DEF Latchers
<1>4. Undisturbed'
  BY <1>1, <1>3 DEF TraceInv, Undisturbed, Leaving, Joined, HadJoined
<1>5. OneAddress'
  BY <1>1, <1>3, FewerKeepAddresses DEF TraceInv, request
<1> QED BY <1>1, <1>4, <1>5, UntouchedKeepTrace

LEMMA NextTrace == TypeOK /\ TraceInv /\ [Next]_vars => TraceInv'
<1> SUFFICES ASSUME TypeOK, TraceInv, [Next]_vars PROVE TraceInv'
  OBVIOUS
<1>1. CASE UNCHANGED vars
  <2>1. \A t : Latchers(t)' = Latchers(t)
    BY <1>1 DEF vars, Latchers
  <2>2. UNCHANGED <<request, participants, by_ufrag, ufrag_index, joining, leaving, by_addr,
                    address, worker, hasty, crossed>>
    BY <1>1 DEF vars, request
  <2>3. \A t : \A v \in Latchers(t)' : worker'[v] = worker[v]
    BY <2>2
  <2>4. Undisturbed' /\ OneAddress'
    BY <2>1, <2>2, <2>3, FewerKeepUndisturbed, FewerKeepAddresses DEF TraceInv, request
  <2> QED BY <2>2, <2>4, UntouchedKeepTrace
<1>2. CASE Next
  BY <1>2, JoinKeepsTrace, LeaveKeepsTrace, BindingKeepsTrace, LookupKeepsTrace, RebindKeepsTrace,
     AddressKeepsTrace, InsertAddrKeepsTrace, InsertAddrIndexKeepsTrace DEF Next
<1> QED BY <1>1, <1>2

\* remove_participant (room.rs:104, 278), "cleans all indices (user_id + 2 ufrags + up to 2
\* addrs)": who has been removed is in no index of its room by ufrag; its ufrags are not in
\* the hub's, if it had joined by then; and a session of it that no two workers ever latched
\* at once, and none during the removal, is at no address of the room, at whatever addresses it
\* was before and whatever the other tasks do at the same time.
THEOREM NoTrace == Spec => []RemovedLeavesNoTrace
<1>1. TraceInv => RemovedLeavesNoTrace
  <2> SUFFICES ASSUME TraceInv, NEW p \in Participants, NEW pc \in PcTypes, Left(p)
               PROVE  /\ <<p, pc>> \notin by_ufrag
                      /\ <<p, pc>> \in ufrag_index => p \in hasty
                      /\ (\E r \in Rooms, a \in Addrs : by_addr[r][a] = <<p, pc>>) =>
                           <<p, pc>> \in crossed
    BY DEF RemovedLeavesNoTrace
  <2>1. UfragOut(p, pc) /\ AddrOut(p, pc) /\ IndexOut(p, pc)
    BY DEF Left, UfragOut, AddrOut, IndexOut
  <2> QED BY <2>1 DEF TraceInv, TakenOut
<1> QED BY <1>1, Types, InitTrace, NextTrace, PTL DEF Spec

-----------------------------------------------------------------------------
\* A session is in the history of every address it has or is about to be registered for.
LEMMA LatchKeepsKnown ==
    ASSUME TypeOK, LatchedAreKnown, NEW w \in Workers,
           Rebind(w) \/ LatchAddress(w) \/ InsertAddr(w) \/ InsertAddrIndex(w)
    PROVE  LatchedAreKnown'
<1>1. CASE LatchAddress(w)
  <2> DEFINE s == worker[w].session
             b == worker[w].addr
  <2>1. Latch(w, "address", "by_addr")
    BY <1>1 DEF LatchAddress
  <2>2. s \in Sessions /\ b \in Addrs
    BY <2>1, LatchType
  <2>3. /\ worker'[w].session = s /\ worker'[w].addr = b
        /\ \A v \in Workers \ {w} : worker'[v] = worker[v]
    BY <2>1, LatchFrame
  <2>4. /\ address' = [address EXCEPT ![s] = b]
        /\ latched' = [latched EXCEPT ![b] = @ \cup {s}]
    BY <1>1 DEF LatchAddress
  <2> HIDE DEF s, b
  <2>5. s \in latched'[b] /\ \A a \in Addrs : latched[a] \subseteq latched'[a]
    BY <2>2, <2>4 DEF TypeOK
  <2>6. \A t \in Sessions : address'[t] # None => t \in latched'[address'[t]]
    BY <2>2, <2>4, <2>5, HubAssumption DEF TypeOK, LatchedAreKnown
  <2>7. ASSUME NEW v \in Workers, worker'[v] # None, worker'[v].step \in {"by_addr", "addr_index"}
        PROVE  worker'[v].session \in latched'[worker'[v].addr]
    <3>1. CASE v = w
      BY <2>3, <2>5, <3>1
    <3>2. CASE v # w
      <4>1. worker'[v] = worker[v] /\ worker[v] \in Latching
        BY <2>3, <2>7, <3>2 DEF TypeOK
      <4>2. worker[v].addr \in Addrs
        BY <4>1 DEF Latching
      <4> QED BY <2>5, <2>7, <4>1, <4>2 DEF LatchedAreKnown
    <3> QED BY <3>1, <3>2
  <2> QED BY <2>6, <2>7 DEF LatchedAreKnown
<1>2. CASE Rebind(w) \/ InsertAddr(w) \/ InsertAddrIndex(w)
  <2>1. UNCHANGED <<address, latched>>
    BY <1>2 DEF Rebind, InsertAddr, InsertAddrIndex
  <2>2. /\ \A v \in Workers \ {w} : worker'[v] = worker[v]
        /\ worker[w] # None
        /\ \/ worker'[w] = None
           \/ worker'[w].step = "address"
           \/ /\ worker[w].step = "by_addr"
              /\ worker'[w].session = worker[w].session /\ worker'[w].addr = worker[w].addr
    BY <1>2, LatchFrame DEF Rebind, InsertAddr, InsertAddrIndex
  <2> QED BY <2>1, <2>2 DEF LatchedAreKnown
<1> QED BY <1>1, <1>2

\* A step that leaves the addresses alone, and whatever a worker that it moves will do to them.
LEMMA UntouchedKeepMedia ==
    ASSUME MediaInv, StaysOut', UNCHANGED <<request, by_addr, addr_index, address, latched>>,
           \A p \in Participants : Leaving(p) => Leaving(p)',
           \A s : \A v \in Latchers(s) :
               worker[v].step \in {"address", "by_addr", "addr_index"} =>
                   v \in Latchers(s)' /\ worker'[v] = worker[v],
           \A v \in Workers :
               \/ worker'[v] = worker[v] \/ worker'[v] = None
               \/ worker'[v].step \in {"by_ufrag", "rebind"}
    PROVE  MediaInv'
<1>1. LatchedAreKnown'
  BY DEF MediaInv, LatchedAreKnown
<1>2. ASSUME NEW s, NEW a, NEW steps \in {{"by_addr"}, {"by_addr", "addr_index"}}, Registering(s, a, steps)
      PROVE  Registering(s, a, steps)'
  BY <1>2 DEF Registering
<1>3. ASSUME NEW s, NEW a, Moving(s, a)
      PROVE  Moving(s, a)'
  BY <1>3 DEF Moving
<1>4. AddressIsKept'
  <2> SUFFICES ASSUME NEW p \in Participants, NEW pc \in PcTypes, NEW a \in Addrs,
                      ~Leaving(p), address[<<p, pc>>] = a, latched[a] = {<<p, pc>>}
               PROVE  /\ \/ by_addr[room_id[p]][a] = <<p, pc>>
                         \/ Registering(<<p, pc>>, a, {"by_addr"})'
                         \/ Moving(<<p, pc>>, a)'
                      /\ \/ addr_index[a] = room_id[p]
                         \/ Registering(<<p, pc>>, a, {"by_addr", "addr_index"})'
    BY DEF AddressIsKept, request
  <2> QED BY <1>2, <1>3 DEF MediaInv, AddressIsKept
<1> QED BY <1>1, <1>4 DEF MediaInv

LEMMA JoinKeepsMedia ==
    ASSUME TypeOK, MediaInv, NEW p \in Participants,
           \/ CountShard(p) \/ CheckCapacity(p) \/ CheckUser(p) \/ InsertParticipant(p)
           \/ \E pc \in PcTypes : InsertUfrag(p, pc) \/ InsertUfragIndex(p, pc)
    PROVE  MediaInv'
<1>1. UNCHANGED <<request, by_addr, addr_index, address, leaving, worker, latched>>
  BY JoinFrame
<1>2. StaysOut'
  BY JoinKeepsOut DEF MediaInv
<1>3. \A s : Latchers(s)' = Latchers(s)
  BY <1>1 DEF Latchers
<1> QED BY <1>1, <1>2, <1>3, UntouchedKeepMedia DEF Leaving

\* A removal takes out the addresses its own sessions have, where no other ever was.
LEMMA LeaveKeepsMedia ==
    ASSUME TypeOK, MediaInv, NEW p \in Participants,
           \/ RemoveParticipant(p)
           \/ \E pc \in PcTypes :
                \/ RemoveUfrag(p, pc) \/ RemoveAddr(p, pc)
                \/ RemoveUfragIndex(p, pc) \/ RemoveAddrIndex(p, pc)
    PROVE  MediaInv'
<1>1. /\ UNCHANGED <<request, joining, address, worker, latched>>
      /\ \A q \in Participants \ {p} : leaving'[q] = leaving[q]
      /\ Leaving(p)'
  BY LeaveFrame
<1>2. StaysOut'
  BY LeaveKeepsOut DEF MediaInv
<1>3. \A s : Latchers(s)' = Latchers(s)
  BY <1>1 DEF Latchers
<1>4. LatchedAreKnown'
  BY <1>1 DEF MediaInv, LatchedAreKnown
<1>5. ASSUME NEW q \in Participants \ {p}, NEW pc \in PcTypes, NEW a \in Addrs,
             latched[a] = {<<q, pc>>}
      PROVE  by_addr'[room_id[q]][a] = by_addr[room_id[q]][a] /\ addr_index'[a] = addr_index[a]
  <2>1. ASSUME NEW c \in PcTypes
        PROVE  address[<<p, c>>] # a
    <3>1. <<p, c>> \in Sessions
      BY DEF Sessions
    <3>2. <<p, c>> \notin latched[a]
      BY <1>5
    <3>3. a # None
      BY HubAssumption
    <3> QED BY <3>1, <3>2, <3>3 DEF MediaInv, LatchedAreKnown
  <2>2. room_id[q] \in Rooms
    BY DEF TypeOK
  <2>3. ASSUME NEW c \in PcTypes, RemoveAddr(p, c)
        PROVE  by_addr'[room_id[q]][a] = by_addr[room_id[q]][a] /\ addr_index'[a] = addr_index[a]
    BY <2>1, <2>2, <2>3 DEF RemoveAddr, TypeOK, hub
  <2>4. ASSUME NEW c \in PcTypes, RemoveAddrIndex(p, c)
        PROVE  by_addr'[room_id[q]][a] = by_addr[room_id[q]][a] /\ addr_index'[a] = addr_index[a]
    BY <2>1, <2>2, <2>4 DEF RemoveAddrIndex, TypeOK, room
  <2> QED BY <2>3, <2>4 DEF RemoveParticipant, RemoveUfrag, RemoveUfragIndex, hub, room
<1>6. AddressIsKept'
  <2> SUFFICES ASSUME NEW q \in Participants, NEW pc \in PcTypes, NEW a \in Addrs,
                      ~Leaving(q)', address[<<q, pc>>] = a, latched[a] = {<<q, pc>>}
               PROVE  /\ \/ by_addr'[room_id[q]][a] = <<q, pc>>
                         \/ Registering(<<q, pc>>, a, {"by_addr"})
                         \/ Moving(<<q, pc>>, a)
                      /\ \/ addr_index'[a] = room_id[q]
                         \/ Registering(<<q, pc>>, a, {"by_addr", "addr_index"})
    BY <1>1, <1>3 DEF AddressIsKept, request, Registering, Moving
  <2>1. q # p /\ ~Leaving(q)
    BY <1>1 DEF Leaving
  <2> QED BY <1>5, <2>1 DEF MediaInv, AddressIsKept
<1> QED BY <1>2, <1>4, <1>6 DEF MediaInv

LEMMA LookupKeepsMedia ==
    ASSUME TypeOK, MediaInv, NEW w \in Workers,
           FindUfrag(w) \/ \E s \in Sessions, a \in Addrs : Binding(w, s, a)
    PROVE  MediaInv'
<1>1. UNCHANGED <<request, participants, joining, leaving, by_addr, addr_index, address, latched>>
  BY DEF FindUfrag, Binding, Latch, room, hub, history
<1>2. StaysOut'
  BY <1>1, OthersKeepOut DEF MediaInv
<1>3. /\ \A v \in Workers \ {w} : worker'[v] = worker[v]
      /\ worker[w] = None \/ worker[w].step = "by_ufrag"
      /\ worker'[w] = None \/ worker'[w].step \in {"by_ufrag", "rebind"}
  <2>1. ASSUME NEW s \in Sessions, NEW a \in Addrs, Binding(w, s, a)
        PROVE  /\ \A v \in Workers \ {w} : worker'[v] = worker[v]
               /\ worker[w] = None /\ worker'[w].step = "by_ufrag"
    BY <2>1, LatchersOfABinding DEF Binding
  <2>2. ASSUME NEW next \in {"rebind", "idle"}, Latch(w, "by_ufrag", next)
        PROVE  /\ \A v \in Workers \ {w} : worker'[v] = worker[v]
               /\ worker[w].step = "by_ufrag"
               /\ worker'[w] = None \/ worker'[w].step = "rebind"
    BY <2>2, LatchFrame
  <2> QED BY <2>1, <2>2 DEF FindUfrag
<1>4. \A s : \A v \in Latchers(s) : v # w /\ v \in Latchers(s)' /\ worker'[v] = worker[v]
  BY <1>3 DEF Latchers
<1> QED BY <1>1, <1>2, <1>3, <1>4, UntouchedKeepMedia DEF Leaving

\* What the worker takes out, puts in or points at concerns its own session: an address with
\* one session in its history is touched by that session's latches only.
LEMMA OneTouches ==
    ASSUME TypeOK, MediaInv, NEW w \in Workers, NEW a \in Addrs, NEW t \in Sessions,
           latched'[a] = {t}, worker[w].session # t, room_id[t[1]] \in Rooms,
           Rebind(w) \/ LatchAddress(w) \/ InsertAddr(w) \/ InsertAddrIndex(w)
    PROVE  /\ by_addr'[room_id[t[1]]][a] = by_addr[room_id[t[1]]][a]
           /\ addr_index'[a] = addr_index[a]
           /\ address'[t] = address[t]
           /\ latched[a] = latched'[a]
<1> DEFINE s == worker[w].session
           b == worker[w].addr
<1>1. /\ s \in Sessions /\ b \in Addrs /\ room_id[s[1]] \in Rooms
      /\ worker[w] # None
  BY LatchType DEF Rebind, LatchAddress, InsertAddr, InsertAddrIndex, TypeOK, Latch
<1>2. worker[w].step \in {"by_addr", "addr_index"} => s \in latched[b]
  BY <1>1 DEF MediaInv, LatchedAreKnown
<1>3. CASE Rebind(w)
  <2>1. latched' = latched /\ addr_index' = addr_index /\ address' = address
    BY <1>3 DEF Rebind, hub
  <2>2. address[s] # a
    <3>1. s \notin latched[a] /\ a # None
      BY <2>1, HubAssumption
    <3> QED BY <1>1, <3>1 DEF MediaInv, LatchedAreKnown
  <2>3. by_addr' = IF address[s] \in {None, b} THEN by_addr
                   ELSE [by_addr EXCEPT ![room_id[s[1]]][address[s]] = None]
    BY <1>3 DEF Rebind
  <2> HIDE DEF s, b
  <2>4. by_addr'[room_id[t[1]]][a] = by_addr[room_id[t[1]]][a]
    BY <1>1, <2>2, <2>3 DEF TypeOK
  <2> QED BY <2>1, <2>4
<1>4. CASE LatchAddress(w)
  <2>1. /\ UNCHANGED <<by_addr, addr_index>>
        /\ address' = [address EXCEPT ![s] = b]
        /\ latched' = [latched EXCEPT ![b] = @ \cup {s}]
    BY <1>4 DEF LatchAddress, room, hub
  <2> HIDE DEF b
  <2>2. s \in latched'[b]
    BY <1>1, <2>1 DEF TypeOK
  <2>3. a # b
    BY <2>2
  <2> QED BY <1>1, <2>1, <2>3 DEF TypeOK
<1>5. CASE InsertAddr(w)
  <2>1. /\ UNCHANGED <<address, addr_index, latched>>
        /\ by_addr' = [by_addr EXCEPT ![room_id[s[1]]][b] = s]
        /\ worker[w].step = "by_addr"
    BY <1>5 DEF InsertAddr, hub, Latch
  <2>2. a # b
    BY <1>2, <2>1
  <2> QED BY <1>1, <2>1, <2>2 DEF TypeOK
<1>6. CASE InsertAddrIndex(w)
  <2>1. /\ UNCHANGED <<address, by_addr, latched>>
        /\ addr_index' = [addr_index EXCEPT ![b] = room_id[s[1]]]
        /\ worker[w].step = "addr_index"
    BY <1>6 DEF InsertAddrIndex, room, Latch
  <2>2. a # b
    BY <1>2, <2>1
  <2> QED BY <1>1, <2>1, <2>2 DEF TypeOK
<1> QED BY <1>3, <1>4, <1>5, <1>6

\* A latch of the session itself takes the old registration out when it is on the way to
\* another address, and puts the new one in before it ends.
LEMMA OwnLatchKeepsAddress ==
    ASSUME TypeOK, MediaInv, NEW w \in Workers, NEW p \in Participants, NEW pc \in PcTypes,
           NEW a \in Addrs, ~Leaving(p), address'[<<p, pc>>] = a, latched'[a] = {<<p, pc>>},
           worker[w].session = <<p, pc>>,
           Rebind(w) \/ LatchAddress(w) \/ InsertAddr(w) \/ InsertAddrIndex(w)
    PROVE  /\ \/ by_addr'[room_id[p]][a] = <<p, pc>>
              \/ Registering(<<p, pc>>, a, {"by_addr"})'
              \/ Moving(<<p, pc>>, a)'
           /\ \/ addr_index'[a] = room_id[p]
              \/ Registering(<<p, pc>>, a, {"by_addr", "addr_index"})'
<1> DEFINE s == <<p, pc>>
           b == worker[w].addr
<1>1. /\ s \in Sessions /\ b \in Addrs /\ room_id[p] \in Rooms /\ s[1] = p
      /\ worker[w].session = s
      /\ a # None
  BY LatchType, HubAssumption
     DEF Sessions, Rebind, LatchAddress, InsertAddr, InsertAddrIndex, TypeOK
<1>2. ASSUME address' = address, latched' = latched
      PROVE  /\ \/ by_addr[room_id[p]][a] = s
                \/ Registering(s, a, {"by_addr"})
                \/ Moving(s, a)
             /\ \/ addr_index[a] = room_id[p]
                \/ Registering(s, a, {"by_addr", "addr_index"})
  BY <1>2 DEF MediaInv, AddressIsKept
<1>3. CASE Rebind(w)
  <2>1. /\ UNCHANGED <<address, latched, addr_index>>
        /\ Latch(w, "rebind", "address")
        /\ by_addr' = IF a \in {None, b} THEN by_addr ELSE [by_addr EXCEPT ![room_id[p]][a] = None]
    BY <1>1, <1>3 DEF Rebind, hub
  <2>2. /\ \A v \in Workers \ {w} : worker'[v] = worker[v]
        /\ worker'[w].step = "address" /\ worker'[w].addr = b
        /\ worker[w].step = "rebind"
        /\ \A t : Latchers(t)' = Latchers(t)
        /\ w \in Latchers(s)
    BY <1>1, <2>1, LatchFrame, LatchersGoOn
  <2> HIDE DEF s, b
  <2>3. /\ Registering(s, a, {"by_addr"}) => Registering(s, a, {"by_addr"})'
        /\ Registering(s, a, {"by_addr", "addr_index"}) => Registering(s, a, {"by_addr", "addr_index"})'
        /\ Moving(s, a) => Moving(s, a)'
    BY <2>2 DEF Registering, Moving, Latchers
  <2>4. a # b => Moving(s, a)'
    BY <2>2 DEF Moving
  <2>5. a = b => by_addr' = by_addr
    BY <2>1
  <2> QED BY <1>2, <2>1, <2>3, <2>4, <2>5 DEF s
<1>4. CASE LatchAddress(w)
  <2>1. Latch(w, "address", "by_addr") /\ address'[s] = b
    BY <1>1, <1>4 DEF LatchAddress, TypeOK
  <2>2. w \in Latchers(s)' /\ worker'[w].step = "by_addr" /\ worker'[w].addr = a
    BY <1>1, <2>1, LatchFrame, LatchersGoOn
  <2>3. Registering(s, a, {"by_addr"})' /\ Registering(s, a, {"by_addr", "addr_index"})'
    BY <2>2 DEF Registering
  <2> QED BY <2>3
<1>5. CASE InsertAddr(w)
  <2>1. /\ UNCHANGED <<address, latched, addr_index>>
        /\ Latch(w, "by_addr", "addr_index")
        /\ by_addr' = [by_addr EXCEPT ![room_id[p]][b] = s]
    BY <1>1, <1>5 DEF InsertAddr, hub
  <2>2. /\ \A v \in Workers \ {w} : worker'[v] = worker[v]
        /\ worker'[w].step = "addr_index" /\ worker'[w].addr = b
        /\ worker[w].step = "by_addr"
        /\ \A t : Latchers(t)' = Latchers(t)
        /\ w \in Latchers(s)
    BY <1>1, <2>1, LatchFrame, LatchersGoOn
  <2> HIDE DEF s, b
  <2>3. Registering(s, a, {"by_addr", "addr_index"}) => Registering(s, a, {"by_addr", "addr_index"})'
    BY <2>2 DEF Registering, Latchers, b
  <2>4. Moving(s, a) => Moving(s, a)'
    BY <2>2 DEF Moving, Latchers
  <2>5. CASE a = b
    <3>1. by_addr'[room_id[p]][a] = s
      BY <1>1, <2>1, <2>5 DEF TypeOK
    <3> QED BY <1>2, <2>1, <2>3, <3>1 DEF s
  <2>6. CASE a # b
    <3>1. by_addr'[room_id[p]][a] = by_addr[room_id[p]][a]
      BY <1>1, <2>1, <2>6 DEF TypeOK
    <3>2. Registering(s, a, {"by_addr"}) => Registering(s, a, {"by_addr"})'
      BY <2>2, <2>6 DEF Registering, Latchers, b
    <3> QED BY <1>2, <2>1, <2>3, <2>4, <3>1, <3>2 DEF s
  <2> QED BY <2>5, <2>6
<1>6. CASE InsertAddrIndex(w)
  <2>1. /\ UNCHANGED <<address, latched, by_addr>>
        /\ Latch(w, "addr_index", "idle")
        /\ addr_index' = [addr_index EXCEPT ![b] = room_id[p]]
    BY <1>1, <1>6 DEF InsertAddrIndex, room
  <2>2. /\ \A v \in Workers \ {w} : worker'[v] = worker[v]
        /\ worker[w].step = "addr_index"
        /\ \A t : Latchers(t)' = Latchers(t) \ {w}
    BY <2>1, LatchFrame, LatchersEnd
  <2> HIDE DEF s, b
  <2>3. /\ Registering(s, a, {"by_addr"}) => Registering(s, a, {"by_addr"})'
        /\ Moving(s, a) => Moving(s, a)'
    BY <2>2 DEF Registering, Moving, Latchers
  <2>4. CASE a = b
    <3>1. addr_index'[a] = room_id[p]
      BY <1>1, <2>1, <2>4 DEF TypeOK
    <3> QED BY <1>2, <2>1, <2>3, <3>1 DEF s
  <2>5. CASE a # b
    <3>1. addr_index'[a] = addr_index[a]
      BY <1>1, <2>1, <2>5 DEF TypeOK
    <3>2. Registering(s, a, {"by_addr", "addr_index"}) => Registering(s, a, {"by_addr", "addr_index"})'
      BY <2>2, <2>5 DEF Registering, Latchers, b
    <3> QED BY <1>2, <2>1, <2>3, <3>1, <3>2 DEF s
  <2> QED BY <2>4, <2>5
<1> QED BY <1>3, <1>4, <1>5, <1>6

\* A latch of another session leaves it as it is.
LEMMA OtherLatchKeepsAddress ==
    ASSUME TypeOK, MediaInv, NEW w \in Workers, NEW p \in Participants, NEW pc \in PcTypes,
           NEW a \in Addrs, ~Leaving(p), address'[<<p, pc>>] = a, latched'[a] = {<<p, pc>>},
           worker[w].session # <<p, pc>>,
           Rebind(w) \/ LatchAddress(w) \/ InsertAddr(w) \/ InsertAddrIndex(w)
    PROVE  /\ \/ by_addr'[room_id[p]][a] = <<p, pc>>
              \/ Registering(<<p, pc>>, a, {"by_addr"})'
              \/ Moving(<<p, pc>>, a)'
           /\ \/ addr_index'[a] = room_id[p]
              \/ Registering(<<p, pc>>, a, {"by_addr", "addr_index"})'
<1> DEFINE s == <<p, pc>>
<1>1. s \in Sessions /\ s[1] = p /\ room_id[p] \in Rooms
  BY DEF Sessions, TypeOK
<1>2. /\ by_addr'[room_id[p]][a] = by_addr[room_id[p]][a]
      /\ addr_index'[a] = addr_index[a]
      /\ address[s] = a /\ latched[a] = {s}
  BY <1>1, OneTouches
<1>3. \A v \in Workers \ {w} : worker'[v] = worker[v]
  BY LatchFrame DEF Rebind, LatchAddress, InsertAddr, InsertAddrIndex
<1>4. \A v \in Latchers(s) : v \in Latchers(s)' /\ worker'[v] = worker[v]
  BY <1>3 DEF Latchers
<1> HIDE DEF s
<1>5. /\ Registering(s, a, {"by_addr"}) => Registering(s, a, {"by_addr"})'
      /\ Registering(s, a, {"by_addr", "addr_index"}) => Registering(s, a, {"by_addr", "addr_index"})'
      /\ Moving(s, a) => Moving(s, a)'
  BY <1>4 DEF Registering, Moving
<1> QED BY <1>2, <1>5 DEF MediaInv, AddressIsKept, s

LEMMA LatchKeepsMedia ==
    ASSUME TypeOK, MediaInv, NEW w \in Workers,
           Rebind(w) \/ LatchAddress(w) \/ InsertAddr(w) \/ InsertAddrIndex(w)
    PROVE  MediaInv'
<1>1. UNCHANGED <<request, participants, joining, leaving>>
  BY WorkerFrame
<1>2. StaysOut'
  BY <1>1, OthersKeepOut DEF MediaInv
<1>3. LatchedAreKnown'
  BY LatchKeepsKnown DEF MediaInv
<1>4. AddressIsKept'
  <2> SUFFICES ASSUME NEW p \in Participants, NEW pc \in PcTypes, NEW a \in Addrs,
                      ~Leaving(p), address'[<<p, pc>>] = a, latched'[a] = {<<p, pc>>}
               PROVE  /\ \/ by_addr'[room_id[p]][a] = <<p, pc>>
                         \/ Registering(<<p, pc>>, a, {"by_addr"})'
                         \/ Moving(<<p, pc>>, a)'
                      /\ \/ addr_index'[a] = room_id[p]
                         \/ Registering(<<p, pc>>, a, {"by_addr", "addr_index"})'
    BY <1>1 DEF AddressIsKept, Leaving, request
  <2> QED BY OwnLatchKeepsAddress, OtherLatchKeepsAddress
<1> QED BY <1>2, <1>3, <1>4 DEF MediaInv

LEMMA NextMedia == TypeOK /\ MediaInv /\ [Next]_vars => MediaInv'
<1> SUFFICES ASSUME TypeOK, MediaInv, [Next]_vars PROVE MediaInv'
  OBVIOUS
<1>1. CASE UNCHANGED vars
  <2>1. UNCHANGED <<request, participants, joining, leaving, by_addr, addr_index, address,
                    worker, latched>>
    BY <1>1 DEF vars, request
  <2>2. \A s : Latchers(s)' = Latchers(s)
    BY <2>1 DEF Latchers
  <2>3. StaysOut'
    BY <2>1, OthersKeepOut DEF MediaInv
  <2> QED BY <2>1, <2>2, <2>3, UntouchedKeepMedia DEF Leaving
<1>2. CASE Next
  BY <1>2, JoinKeepsMedia, LeaveKeepsMedia, LookupKeepsMedia, LatchKeepsMedia DEF Next
<1> QED BY <1>1, <1>2

\* latch_by_ufrag and find_by_addr (room.rs:127, 296, 310): the media of a participant in the room
\* are found at the address that its session was latched to, unless another session was
\* latched there too, however its bindings follow or overtake each other and whoever else
\* joins, leaves and latches meanwhile.
THEOREM MediaFound == Spec => []MediaIsFound
<1>1. TypeOK /\ MediaInv => MediaIsFound
  <2> SUFFICES ASSUME TypeOK, MediaInv,
                      NEW p \in Participants, NEW pc \in PcTypes, NEW a \in Addrs,
                      IsMember(p), address[<<p, pc>>] = a, latched[a] = {<<p, pc>>},
                      Latchers(<<p, pc>>) = {}
               PROVE  FindByAddr(a) = <<p, pc>>
    BY DEF MediaIsFound
  <2>1. ~Leaving(p)
    BY DEF MediaInv, StaysOut
  <2>2. ~Moving(<<p, pc>>, a) /\ \A steps : ~Registering(<<p, pc>>, a, steps)
    BY DEF Moving, Registering
  <2>3. by_addr[room_id[p]][a] = <<p, pc>> /\ addr_index[a] = room_id[p]
    BY <2>1, <2>2 DEF MediaInv, AddressIsKept
  <2>4. room_id[p] # None
    BY HubAssumption DEF TypeOK
  <2> QED BY <2>3, <2>4 DEF FindByAddr
<1> QED BY <1>1, Types, InitMedia, NextMedia, PTL DEF Spec
=============================================================================
