-------------------------------- MODULE RoomHub --------------------------------
(***************************************************************************)
(* The registry of participants (src/room/room.rs): every room's map of its *)
(* participants and its indices by ufrag and by address, and the hub's      *)
(* reverse indices from a ufrag or an address to the room.  Each map locks  *)
(* itself for one insert, removal or lookup at a time, and nothing locks    *)
(* several of them, so the session tasks that add and remove participants,  *)
(* the zombie reaper and the UDP workers that latch addresses interleave    *)
(* between any two accesses.  One action is one access to a map; the length *)
(* of a map is a sum over its shards, each locked for itself.               *)
(*                                                                         *)
(* A ufrag is random and belongs to one MediaSession of one Participant     *)
(* object, so it is that session.  Rooms are never removed.                 *)
(***************************************************************************)
EXTENDS Naturals, FiniteSets

CONSTANTS
    Participants,  \* the Participant objects, each made for one ROOM_JOIN
    Users, Rooms,
    capacity,      \* Room.capacity, the same for all rooms
    Shards,        \* how many shards a DashMap has
    shard,         \* per room, the one of its participants that a user falls into
    Addrs,         \* UDP addresses of clients
    Workers,       \* UDP worker tasks
    None,          \* no participant, session, address or room
    MaxBindings    \* bound on STUN binding requests with a known ufrag

ASSUME HubAssumption ==
    /\ IsFiniteSet(Participants) /\ IsFiniteSet(Users)
    /\ capacity \in Nat
    /\ Shards \in Nat \ {0}
    /\ shard \in [Rooms -> [Users -> 1..Shards]]
    /\ MaxBindings \in Nat
    /\ None \notin Participants /\ None \notin Addrs /\ None \notin Rooms

PcTypes == {"publish", "subscribe"}
Sessions == Participants \X PcTypes

\* What a worker that latches has in hand.
Latching == [step : {"by_ufrag", "rebind", "address", "by_addr", "addr_index"},
             session : Sessions, addr : Addrs]

ASSUME NoneAssumption == None \notin Sessions /\ None \notin Latching

VARIABLES
    user_id,       \* the user each Participant stands for
    room_id,       \* the room it was made for
    participants,  \* per room, its participant for each user, or None
    by_ufrag,      \* the sessions whose ufrag is in their room's by_ufrag
    by_addr,       \* per room, the session registered for an address, or None
    ufrag_index,   \* the sessions whose ufrag is in the hub's ufrag_index
    addr_index,    \* the room registered for an address, or None
    address,       \* MediaSession.address of each session, or None
    joining,       \* the next access of add_participant, for each Participant
    counting,      \* what its participants.len() has seen: shards, and members in them
    leaving,       \* the next access of remove_participant, for each Participant
    worker,        \* what each UDP worker is in the middle of
    bindings,      \* counts towards MaxBindings
    latched,       \* history: the sessions that an address was ever latched to
    found,         \* history: who was in the room when a Participant's join began, and
                   \* has not been removed since
    abreast,       \* history: the joins that were under way then, its own included, until
                   \* the Participant is removed
    rivalled,      \* history: participants that passed the check of their user while
                   \* another join of that user was past it
    hasty,         \* history: participants removed before they had joined
    crossed        \* history: sessions latched twice at once, or during a removal

request == <<user_id, room_id>>
room == <<participants, by_ufrag, by_addr>>
hub == <<ufrag_index, addr_index>>
joins == <<found, abreast, rivalled>>
history == <<latched, found, abreast, rivalled, hasty, crossed>>
vars == <<user_id, room_id, participants, by_ufrag, by_addr, ufrag_index, addr_index,
          address, joining, counting, leaving, worker, bindings,
          latched, found, abreast, rivalled, hasty, crossed>>

\* A task's next access: to which map, and for which of the two sessions (a map
\* that is accessed once is accessed for "publish").
JoinSteps == {"capacity", "user", "by_ufrag", "participants", "ufrag_index", "joined", "refused"}
LeaveSteps == {"participants", "by_ufrag", "by_addr", "ufrag_index", "addr_index", "left"}
AfterBoth(map, pc, then) ==
    IF pc = "publish" THEN <<map, "subscribe">> ELSE <<then, "publish">>

NotCounting == [shards |-> 0, members |-> 0]

Init ==
    /\ user_id \in [Participants -> Users]
    /\ room_id \in [Participants -> Rooms]
    /\ participants = [r \in Rooms |-> [u \in Users |-> None]]
    /\ by_ufrag = {}
    /\ by_addr = [r \in Rooms |-> [a \in Addrs |-> None]]
    /\ ufrag_index = {}
    /\ addr_index = [a \in Addrs |-> None]
    /\ address = [s \in Sessions |-> None]
    /\ joining = [p \in Participants |-> <<"capacity", "publish">>]
    /\ counting = [p \in Participants |-> NotCounting]
    /\ leaving = [p \in Participants |-> <<"participants", "publish">>]
    /\ worker = [w \in Workers |-> None]
    /\ bindings = 0
    /\ latched = [a \in Addrs |-> {}]
    /\ found = [p \in Participants |-> {}]
    /\ abreast = [p \in Participants |-> {}]
    /\ rivalled = {}
    /\ hasty = {}
    /\ crossed = {}

Members(r) == {u \in Users : participants[r][u] # None}
IsMember(p) == participants[room_id[p]][user_id[p]] = p
Joined(p) == joining[p][1] = "joined"
Leaving(p) == leaving[p][1] # "participants"
Left(p) == leaving[p][1] = "left"

\* A participant's join has begun to count, and is not in the room's map yet.
Begun(p) == counting[p].shards > 0 \/ joining[p][1] # "capacity"
Entering(r) ==
    {p \in Participants : /\ room_id[p] = r /\ Begun(p)
                         /\ joining[p][1] \in {"capacity", "user", "by_ufrag", "participants"}}

\* Workers that have found session s and are latching it.
Latchers(s) ==
    {w \in Workers : worker[w] # None /\ worker[w].session = s /\ worker[w].step # "by_ufrag"}

-----------------------------------------------------------------------------
\* add_participant, called by ROOM_JOIN.

Join(p, step, next) ==
    /\ joining[p] = step
    /\ joining' = [joining EXCEPT ![p] = next]
    /\ UNCHANGED <<request, address, leaving, worker, bindings, latched, hasty, crossed>>

\* participants.len() has one shard after another locked and adds up their lengths.
Counted(p) ==
    counting[p].members
        + Cardinality({u \in Members(room_id[p]) : shard[room_id[p]][u] = counting[p].shards + 1})

\* What is there when the first of them is locked.
Begin(p) ==
    IF counting[p].shards > 0 THEN UNCHANGED <<found, abreast>>
    ELSE LET r == room_id[p] IN
         /\ found' = [found EXCEPT ![p] = {participants[r][u] : u \in Members(r)}]
         /\ abreast' = [abreast EXCEPT ![p] = Entering(r) \cup {p}]

CountShard(p) ==
    /\ Join(p, <<"capacity", "publish">>, <<"capacity", "publish">>)
    /\ counting[p].shards + 1 < Shards
    /\ counting' = [counting EXCEPT ![p] = [shards |-> @.shards + 1, members |-> Counted(p)]]
    /\ Begin(p)
    /\ UNCHANGED <<room, hub, rivalled>>

\* With the last shard's length the sum is there.
Decide(p, next) ==
    /\ Join(p, <<"capacity", "publish">>, <<next, "publish">>)
    /\ counting[p].shards + 1 = Shards
    /\ counting' = [counting EXCEPT ![p] = NotCounting]
    /\ Begin(p)
    /\ UNCHANGED <<room, hub, rivalled>>

\* Mutant: one too many.
CheckCapacityAfterwards(p) ==
    \/ Counted(p) <= capacity /\ Decide(p, "user")
    \/ Counted(p) > capacity /\ Decide(p, "refused")

CheckCapacity(p) ==
    \/ Counted(p) < capacity /\ Decide(p, "user")
    \/ Counted(p) >= capacity /\ Decide(p, "refused")

\* Other joins of the same user that are between this check and the insertion.
Rivals(p) ==
    {q \in Entering(room_id[p]) \ {p} :
        user_id[q] = user_id[p] /\ joining[q][1] \in {"by_ufrag", "participants"}}

EnterAs(p) ==
    /\ Join(p, <<"user", "publish">>, <<"by_ufrag", "publish">>)
    /\ rivalled' = rivalled \cup Rivals(p) \cup (IF Rivals(p) = {} THEN {} ELSE {p})
    /\ UNCHANGED <<room, hub, counting, found, abreast>>

\* Mutant: the new connection takes over.
ReplaceUser(p) == EnterAs(p)

CheckUser(p) ==
    \/ participants[room_id[p]][user_id[p]] = None /\ EnterAs(p)
    \/ /\ participants[room_id[p]][user_id[p]] # None
       /\ Join(p, <<"user", "publish">>, <<"refused", "publish">>)
       /\ UNCHANGED <<room, hub, counting, joins>>

InsertUfrag(p, pc) ==
    /\ Join(p, <<"by_ufrag", pc>>, AfterBoth("by_ufrag", pc, "participants"))
    /\ by_ufrag' = by_ufrag \cup {<<p, pc>>}
    /\ UNCHANGED <<participants, by_addr, hub, counting, joins>>

InsertParticipant(p) ==
    /\ Join(p, <<"participants", "publish">>, <<"ufrag_index", "publish">>)
    /\ participants' = [participants EXCEPT ![room_id[p]][user_id[p]] = p]
    /\ UNCHANGED <<by_ufrag, by_addr, hub, counting, joins>>

InsertUfragIndex(p, pc) ==
    /\ Join(p, <<"ufrag_index", pc>>, AfterBoth("ufrag_index", pc, "joined"))
    /\ ufrag_index' = ufrag_index \cup {<<p, pc>>}
    /\ UNCHANGED <<room, addr_index, counting, joins>>

-----------------------------------------------------------------------------
\* remove_participant, called by ROOM_LEAVE and cleanup of any connection of the user
\* and by the zombie reaper: whoever takes p out of the map goes on with p.

Leave(p, step, next) ==
    /\ leaving[p] = step
    /\ leaving' = [leaving EXCEPT ![p] = next]
    /\ UNCHANGED <<request, address, joining, counting, worker, bindings, latched>>

RemoveParticipant(p) ==
    /\ IsMember(p)
    /\ Leave(p, <<"participants", "publish">>, <<"by_ufrag", "publish">>)
    /\ participants' = [participants EXCEPT ![room_id[p]][user_id[p]] = None]
    /\ hasty' = IF Joined(p) THEN hasty ELSE hasty \cup {p}
    /\ crossed' = crossed \cup {s \in Sessions : s[1] = p /\ Latchers(s) # {}}
    /\ found' = [q \in Participants |-> IF q = p THEN {} ELSE found[q] \ {p}]
    /\ abreast' = [abreast EXCEPT ![p] = {}]
    /\ UNCHANGED <<by_ufrag, by_addr, hub, rivalled>>

\* Mutant: only the publish session is taken out.
RemovePublishUfrag(p, pc) ==
    /\ Leave(p, <<"by_ufrag", pc>>, AfterBoth("by_ufrag", pc, "by_addr"))
    /\ by_ufrag' = by_ufrag \ {<<p, "publish">>}
    /\ UNCHANGED <<participants, by_addr, hub, hasty, crossed, joins>>

RemoveUfrag(p, pc) ==
    /\ Leave(p, <<"by_ufrag", pc>>, AfterBoth("by_ufrag", pc, "by_addr"))
    /\ by_ufrag' = by_ufrag \ {<<p, pc>>}
    /\ UNCHANGED <<participants, by_addr, hub, hasty, crossed, joins>>

RemoveAddr(p, pc) ==
    /\ Leave(p, <<"by_addr", pc>>, AfterBoth("by_addr", pc, "ufrag_index"))
    /\ by_addr' = IF address[<<p, pc>>] = None THEN by_addr
                  ELSE [by_addr EXCEPT ![room_id[p]][address[<<p, pc>>]] = None]
    /\ UNCHANGED <<participants, by_ufrag, hub, hasty, crossed, joins>>

RemoveUfragIndex(p, pc) ==
    /\ Leave(p, <<"ufrag_index", pc>>, AfterBoth("ufrag_index", pc, "addr_index"))
    /\ ufrag_index' = ufrag_index \ {<<p, pc>>}
    /\ UNCHANGED <<room, addr_index, hasty, crossed, joins>>

RemoveAddrIndex(p, pc) ==
    /\ Leave(p, <<"addr_index", pc>>, AfterBoth("addr_index", pc, "left"))
    /\ addr_index' = IF address[<<p, pc>>] = None THEN addr_index
                     ELSE [addr_index EXCEPT ![address[<<p, pc>>]] = None]
    /\ UNCHANGED <<room, ufrag_index, hasty, crossed, joins>>

-----------------------------------------------------------------------------
\* latch_by_ufrag, called for a STUN binding request that arrives from address a with
\* the ufrag of session s; the hub's ufrag_index is asked first.
Binding(w, s, a) ==
    /\ worker[w] = None
    /\ bindings < MaxBindings
    /\ bindings' = bindings + 1
    /\ s \in ufrag_index
    /\ worker' = [worker EXCEPT ![w] = [step |-> "by_ufrag", session |-> s, addr |-> a]]
    /\ UNCHANGED <<request, room, hub, address, joining, counting, leaving, history>>

Latch(w, step, next) ==
    /\ worker[w] # None
    /\ worker[w].step = step
    /\ worker' = [worker EXCEPT ![w] = IF next = "idle" THEN None ELSE [@ EXCEPT !.step = next]]
    /\ UNCHANGED <<request, joining, counting, leaving, bindings, joins, hasty>>

\* Room.latch looks the ufrag up in the room.
FindUfrag(w) ==
    /\ \/ /\ Latch(w, "by_ufrag", "rebind")
          /\ worker[w].session \in by_ufrag
          /\ LET s == worker[w].session IN
             crossed' = IF Latchers(s) = {} /\ ~Leaving(s[1]) THEN crossed
                        ELSE crossed \cup {s}
       \/ /\ Latch(w, "by_ufrag", "idle")
          /\ worker[w].session \notin by_ufrag
          /\ UNCHANGED crossed
    /\ UNCHANGED <<room, hub, address, latched>>

\* Mutant: the old address stays.
KeepOldAddr(w) ==
    /\ Latch(w, "rebind", "address")
    /\ UNCHANGED <<room, hub, address, latched, crossed>>

\* The address that the session had until now is taken out of the room.
Rebind(w) ==
    /\ Latch(w, "rebind", "address")
    /\ LET old == address[worker[w].session]
           r == room_id[worker[w].session[1]] IN
       by_addr' = IF old \in {None, worker[w].addr} THEN by_addr
                  ELSE [by_addr EXCEPT ![r][old] = None]
    /\ UNCHANGED <<participants, by_ufrag, hub, address, latched, crossed>>

LatchAddress(w) ==
    /\ Latch(w, "address", "by_addr")
    /\ address' = [address EXCEPT ![worker[w].session] = worker[w].addr]
    /\ latched' = [latched EXCEPT ![worker[w].addr] = @ \cup {worker[w].session}]
    /\ UNCHANGED <<room, hub, crossed>>

\* Mutant: under the publish session, whichever was latched.
InsertPublishAddr(w) ==
    /\ Latch(w, "by_addr", "addr_index")
    /\ by_addr' = [by_addr EXCEPT ![room_id[worker[w].session[1]]][worker[w].addr]
                     = <<worker[w].session[1], "publish">>]
    /\ UNCHANGED <<participants, by_ufrag, hub, address, latched, crossed>>

InsertAddr(w) ==
    /\ Latch(w, "by_addr", "addr_index")
    /\ by_addr' = [by_addr EXCEPT ![room_id[worker[w].session[1]]][worker[w].addr]
                     = worker[w].session]
    /\ UNCHANGED <<participants, by_ufrag, hub, address, latched, crossed>>

InsertAddrIndex(w) ==
    /\ Latch(w, "addr_index", "idle")
    /\ addr_index' = [addr_index EXCEPT ![worker[w].addr] = room_id[worker[w].session[1]]]
    /\ UNCHANGED <<room, ufrag_index, address, latched, crossed>>

Next ==
    \/ \E p \in Participants :
         \/ CountShard(p) \/ CheckCapacity(p) \/ CheckUser(p)
         \/ InsertParticipant(p) \/ RemoveParticipant(p)
    \/ \E p \in Participants, pc \in PcTypes :
         \/ InsertUfrag(p, pc) \/ InsertUfragIndex(p, pc)
         \/ RemoveUfrag(p, pc) \/ RemoveAddr(p, pc)
         \/ RemoveUfragIndex(p, pc) \/ RemoveAddrIndex(p, pc)
    \/ \E w \in Workers :
         \/ \E s \in Sessions, a \in Addrs : Binding(w, s, a)
         \/ FindUfrag(w) \/ Rebind(w) \/ LatchAddress(w)
         \/ InsertAddr(w) \/ InsertAddrIndex(w)

Spec == Init /\ [][Next]_vars

-----------------------------------------------------------------------------
\* find_by_addr, for every SRTP packet.
FindByAddr(a) == IF addr_index[a] = None THEN None ELSE by_addr[addr_index[a]][a]

\* The variables have their types.
TypeOK ==
    /\ user_id \in [Participants -> Users]
    /\ room_id \in [Participants -> Rooms]
    /\ participants \in [Rooms -> [Users -> Participants \cup {None}]]
    /\ by_ufrag \subseteq Sessions
    /\ by_addr \in [Rooms -> [Addrs -> Sessions \cup {None}]]
    /\ ufrag_index \subseteq Sessions
    /\ addr_index \in [Addrs -> Rooms \cup {None}]
    /\ address \in [Sessions -> Addrs \cup {None}]
    /\ joining \in [Participants -> JoinSteps \X PcTypes]
    /\ counting \in [Participants -> [shards : 0..Shards, members : Nat]]
    /\ leaving \in [Participants -> LeaveSteps \X PcTypes]
    /\ worker \in [Workers -> Latching \cup {None}]
    /\ bindings \in 0..MaxBindings
    /\ latched \in [Addrs -> SUBSET Sessions]
    /\ found \in [Participants -> SUBSET Participants]
    /\ abreast \in [Participants -> SUBSET Participants]
    /\ rivalled \subseteq Participants
    /\ hasty \subseteq Participants
    /\ crossed \subseteq Sessions

\* Who has joined is in the room until somebody removes it, unless the same user
\* joined at the same time; and its ufrags are found until then in any case.
JoinedIsRegistered ==
    \A p \in Participants : Joined(p) /\ ~Leaving(p) =>
        /\ IsMember(p) \/ p \in rivalled
        /\ \A pc \in PcTypes : <<p, pc>> \in by_ufrag \cap ufrag_index

\* "Cleans all indices (user_id + 2 ufrags + up to 2 addrs)": a participant that has been
\* removed is in no index of its room by ufrag; its ufrags are not in the hub's, if it
\* had joined by then; and a session of it is at no address of the room, whatever
\* addresses it was at before, if no two workers ever latched it at once and none did
\* during the removal.
RemovedLeavesNoTrace ==
    \A p \in Participants, pc \in PcTypes : Left(p) =>
        /\ <<p, pc>> \notin by_ufrag
        /\ <<p, pc>> \in ufrag_index => p \in hasty
        /\ (\E r \in Rooms, a \in Addrs : by_addr[r][a] = <<p, pc>>) => <<p, pc>> \in crossed

\* The media of a participant is found at the address it was latched to, unless another
\* session was latched there too, however its bindings follow each other.
MediaIsFound ==
    \A p \in Participants, pc \in PcTypes, a \in Addrs :
        /\ IsMember(p)
        /\ address[<<p, pc>>] = a
        /\ latched[a] = {<<p, pc>>}
        /\ Latchers(<<p, pc>>) = {}
        => FindByAddr(a) = <<p, pc>>

\* The members are counted shard by shard, before the participant is inserted: a room
\* exceeds its capacity by fewer than the joins that were under way together, from the first
\* shard they counted to their insertion, when one of its members' joins began.
OverbookingIsBounded ==
    \A r \in Rooms :
        \/ Cardinality(Members(r)) <= capacity
        \/ \E p \in Participants :
             /\ room_id[p] = r /\ IsMember(p)
             /\ Cardinality(Members(r)) < capacity + Cardinality(abreast[p])
=============================================================================
