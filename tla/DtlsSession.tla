----------------------------- MODULE DtlsSession -----------------------------
(***************************************************************************)
(* A UDP worker, its DtlsSessionMap and the handshake tasks it starts       *)
(* (udp/mod.rs), up to the keys and the egress task of a subscriber.        *)
(*                                                                          *)
(* The worker handles one datagram after the other; an address always       *)
(* reaches the same worker, so one worker is enough.  The handshake itself   *)
(* is webrtc-dtls: it reads its channel, completes with a client that has    *)
(* sent all its flights, and ends on a close_notify.  A client is one        *)
(* PeerConnection, for one MediaSession of a participant; clients may follow *)
(* each other at one address, and a client's address may change.             *)
(***************************************************************************)
EXTENDS Integers, Sequences, FiniteSets

CONSTANTS
    None,
    Stale,         \* a map entry whose task has ended and is used again
    Clients,       \* PeerConnections, each with the MediaSession it is for
    Subscribers,   \* those whose MediaSession is a subscribe session
    Addrs,
    Tasks,         \* handshake tasks; one that has ended may be used again
    Capacity,      \* of the channel into a DemuxConn (128)
    Flights,       \* DTLS flights a client sends in a handshake
    MaxMishaps     \* bound: clients that leave or move, datagrams that arrive late,
                   \* handshakes that fail although their client answers

ASSUME DtlsAssumption ==
    /\ Subscribers \subseteq Clients
    /\ Capacity \in Nat \ {0} /\ Flights \in Nat \ {0, 1} /\ MaxMishaps \in Nat
    /\ {None, Stale} \cap (Clients \cup Addrs \cup Tasks) = {} /\ None # Stale

VARIABLES
    client,        \* per client: "new", "up" or "gone"
    addr,          \* per client: where it sends from
    latched,       \* per address: the client whose ufrag was latched there last
    dtls_map,      \* DtlsSessionMap: the task behind the channel for an address
    task,          \* per handshake task: its address, the client it was started for, how
                   \* far it is, whom it shakes hands with, and its channel
    injecting,     \* the datagram that the worker is injecting
    keys,          \* per client: with whom the keys of its MediaSession were negotiated
    egress_rx,     \* subscribers whose egress_rx has not been taken
    egress,        \* per client: number of its egress tasks
    mishaps,       \* counts towards MaxMishaps
    overtaken,     \* history: pairs <<k, j>>: j was latched at an address where a handshake
                   \* for k was under way
    unkeyed        \* history: clients whose handshake succeeded without keys

world == <<client, addr, mishaps>>
install == <<keys, egress_rx, egress, unkeyed>>
vars == <<client, addr, latched, dtls_map, task, injecting, keys, egress_rx, egress,
          mishaps, overtaken, unkeyed>>

Ended == [addr |-> None, for |-> None, phase |-> "ended", with |-> None, heard |-> 0, queue |-> <<>>]
Handshake(a, k) == [Ended EXCEPT !.addr = a, !.for = k, !.phase = "handshake"]

Init ==
    /\ client = [k \in Clients |-> "new"]
    /\ addr \in [Clients -> Addrs]
    /\ latched = [a \in Addrs |-> None]
    /\ dtls_map = [a \in Addrs |-> None]
    /\ task = [t \in Tasks |-> Ended]
    /\ injecting = None
    /\ keys = [k \in Clients |-> None]
    /\ egress_rx = Subscribers
    /\ egress = [k \in Clients |-> 0]
    /\ mishaps = 0
    /\ overtaken = {} /\ unkeyed = {}

Up(k) == client[k] = "up"
Live(t) == task[t].phase # "ended"

\* The channel of the map entry for address a, if its receiver still exists.
Channel(a) == IF dtls_map[a] \in Tasks /\ Live(dtls_map[a]) THEN dtls_map[a] ELSE None

Mishap == mishaps < MaxMishaps /\ mishaps' = mishaps + 1

-----------------------------------------------------------------------------
\* The clients and the network.

\* A client begins when no other one is at its address.
Begin(k) ==
    /\ client[k] = "new"
    /\ \A j \in Clients : Up(j) => addr[j] # addr[k]
    /\ client' = [client EXCEPT ![k] = "up"]
    /\ UNCHANGED <<addr, mishaps, latched, dtls_map, task, injecting, install, overtaken>>

\* A datagram of client k reaches the idle worker.
Arrive(k, op) ==
    /\ injecting = None
    /\ injecting' = [from |-> k, op |-> op, at |-> addr[k]]

\* A client that has no keys yet sends (and resends) its flights.
SendFlight(k) ==
    /\ Up(k) /\ latched[addr[k]] = k /\ keys[k] # k
    /\ Arrive(k, "flight")
    /\ UNCHANGED <<world, latched, dtls_map, task, install, overtaken>>

\* A flight of a client that is gone, or has its keys, arrives late.  It may begin a
\* handshake, but answers no flight of the server's.
LateFlight(k) ==
    /\ client[k] = "gone" \/ keys[k] = k
    /\ Mishap
    /\ Arrive(k, "late")
    /\ UNCHANGED <<client, addr, latched, dtls_map, task, install, overtaken>>

\* A client ends; its close_notify arrives, or is lost, or there is none.
Close(k) ==
    /\ Up(k)
    /\ Mishap
    /\ client' = [client EXCEPT ![k] = "gone"]
    /\ Arrive(k, "close") \/ UNCHANGED injecting
    /\ UNCHANGED <<addr, latched, dtls_map, task, install, overtaken>>

\* NAT rebinding.
Move(k, a) ==
    /\ Up(k) /\ addr[k] # a /\ \A j \in Clients : Up(j) => addr[j] # a
    /\ Mishap
    /\ addr' = [addr EXCEPT ![k] = a]
    /\ UNCHANGED <<client, latched, dtls_map, task, injecting, install, overtaken>>

-----------------------------------------------------------------------------
\* The worker.

\* start_dtls_handshake.
StartHandshake(a, k, queue) ==
    \E t \in Tasks :
        /\ ~Live(t)
        /\ task' = [task EXCEPT ![t] = [Handshake(a, k) EXCEPT !.queue = queue]]
        /\ dtls_map' = [b \in Addrs |-> IF b = a THEN t ELSE IF dtls_map[b] = t THEN Stale ELSE dtls_map[b]]

\* Mutant: the map is not asked.
BindAnew(k, use_candidate) ==
    LET a == addr[k] IN
    /\ Up(k)
    /\ injecting = None
    /\ latched' = [latched EXCEPT ![a] = k]
    /\ IF use_candidate
       THEN StartHandshake(a, k, <<>>)
       ELSE UNCHANGED <<task, dtls_map>>
    /\ UNCHANGED <<world, injecting, install, overtaken>>

\* A binding request of client k: handle_stun.  It latches the address, and starts a
\* handshake if it has USE-CANDIDATE and the map has no entry for the address.
Binding(k, use_candidate) ==
    LET a == addr[k] IN
    /\ Up(k)
    /\ injecting = None
    /\ latched' = [latched EXCEPT ![a] = k]
    /\ overtaken' = overtaken \cup
         {<<task[t].for, k>> : t \in {t \in Tasks : task[t].addr = a /\ task[t].phase = "handshake"
                                                    /\ task[t].for # k}}
    /\ IF use_candidate /\ dtls_map[a] = None
       THEN StartHandshake(a, k, <<>>)
       ELSE UNCHANGED <<task, dtls_map>>
    /\ UNCHANGED <<world, injecting, install>>

\* handle_dtls: inject waits for room in the channel of the address's session;
Inject ==
    /\ injecting # None
    /\ LET t == Channel(injecting.at) IN
       /\ t # None
       /\ Len(task[t].queue) < Capacity
       /\ task' = [task EXCEPT ![t].queue = Append(@, injecting)]
    /\ injecting' = None
    /\ UNCHANGED <<world, latched, dtls_map, install, overtaken>>

\* Mutant: a channel whose receiver is gone swallows it.
InjectWhereMapped ==
    /\ injecting # None
    /\ Channel(injecting.at) = None
    /\ LET k == latched[injecting.at] IN
       IF k = None \/ dtls_map[injecting.at] # None THEN UNCHANGED <<task, dtls_map>>
       ELSE StartHandshake(injecting.at, k, <<injecting>>)
    /\ injecting' = None
    /\ UNCHANGED <<world, latched, install, overtaken>>

\* if there is none, or its receiver is gone, a handshake is started for whoever was
\* latched at the address, and the datagram is its first.
InjectAnew ==
    /\ injecting # None
    /\ Channel(injecting.at) = None
    /\ LET k == latched[injecting.at] IN
       IF k = None THEN UNCHANGED <<task, dtls_map>>
       ELSE StartHandshake(injecting.at, k, <<injecting>>)
    /\ injecting' = None
    /\ UNCHANGED <<world, latched, install, overtaken>>

\* remove_stale, after every thousandth datagram.
RemoveStale ==
    /\ injecting = None
    /\ \E a \in Addrs : dtls_map[a] # None /\ Channel(a) = None
    /\ dtls_map' = [a \in Addrs |-> Channel(a)]
    /\ UNCHANGED <<world, latched, task, injecting, install, overtaken>>

-----------------------------------------------------------------------------
\* A handshake task.

In(t, phase) ==
    /\ task[t].phase = phase
    /\ UNCHANGED <<world, latched, dtls_map, injecting, overtaken>>
Enter(t, phase) == task' = [task EXCEPT ![t] = IF phase = "ended" THEN Ended ELSE [@ EXCEPT !.phase = phase]]

\* Mutant: nobody reads once the handshake is over.
ReadFlights(t) ==
    /\ task[t].phase = "handshake" /\ task[t].queue # <<>>
    /\ UNCHANGED <<world, latched, dtls_map, injecting, install, overtaken>>
    /\ LET m == Head(task[t].queue)
           s == [task[t] EXCEPT !.queue = Tail(@)]
           mine == s.with \in {None, m.from} IN
       IF m.op = "close" /\ m.from = s.with /\ s.phase \in {"handshake", "open"}
       THEN Enter(t, "ended")
       ELSE task' = [task EXCEPT ![t] =
                IF /\ s.phase = "handshake" /\ mine
                   /\ (m.op = "flight" /\ s.heard < Flights) \/ (m.op = "late" /\ s.heard = 0)
                THEN [s EXCEPT !.with = m.from, !.heard = @ + 1] ELSE s]

\* webrtc-dtls takes a datagram out of the channel.  A handshake counts the flights of
\* the first client it hears and overlooks others; a close_notify ends the session.
Read(t) ==
    /\ Live(t) /\ task[t].queue # <<>>
    /\ UNCHANGED <<world, latched, dtls_map, injecting, install, overtaken>>
    /\ LET m == Head(task[t].queue)
           s == [task[t] EXCEPT !.queue = Tail(@)]
           mine == s.with \in {None, m.from} IN
       IF m.op = "close" /\ m.from = s.with /\ s.phase \in {"handshake", "open"}
       THEN Enter(t, "ended")
       ELSE task' = [task EXCEPT ![t] =
                IF /\ s.phase = "handshake" /\ mine
                   /\ (m.op = "flight" /\ s.heard < Flights) \/ (m.op = "late" /\ s.heard = 0)
                THEN [s EXCEPT !.with = m.from, !.heard = @ + 1] ELSE s]

\* accept_dtls returns the connection.
Accept(t) ==
    /\ In(t, "handshake")
    /\ task[t].heard = Flights
    /\ Enter(t, "keys")
    /\ UNCHANGED install

\* The client that handshake t hears, or is to hear first, goes on sending its flights.
Answered(t) ==
    LET k == IF task[t].with = None THEN task[t].for ELSE task[t].with IN
    Up(k) /\ addr[k] = task[t].addr /\ keys[k] # k

\* accept_dtls fails, or ten seconds are over.
Abandon(t) ==
    /\ task[t].phase = "handshake"
    /\ IF Answered(t) THEN Mishap ELSE UNCHANGED mishaps
    /\ Enter(t, "ended")
    /\ UNCHANGED <<client, addr, latched, dtls_map, injecting, install, overtaken>>

\* Mutant: to the one that is latched at the address now.
InstallKeysAtAddr(t) ==
    /\ In(t, "keys")
    /\ keys' = [keys EXCEPT ![latched[task[t].addr]] = task[t].with]
    /\ Enter(t, IF task[t].for \in Subscribers THEN "egress" ELSE "open")
    /\ UNCHANGED <<egress_rx, egress, unkeyed>>

\* The keys go to the MediaSession that the handshake was started for.
InstallKeys(t) ==
    /\ In(t, "keys")
    /\ keys' = [keys EXCEPT ![task[t].for] = task[t].with]
    /\ Enter(t, IF task[t].for \in Subscribers THEN "egress" ELSE "open")
    /\ UNCHANGED <<egress_rx, egress, unkeyed>>

\* export_srtp_keys fails: the session stays, without keys.
ExportFails(t) ==
    /\ task[t].phase = "keys"
    /\ Mishap
    /\ Enter(t, "open")
    /\ unkeyed' = unkeyed \cup {task[t].with}
    /\ UNCHANGED <<client, addr, latched, dtls_map, injecting, overtaken, keys, egress_rx, egress>>

\* Mutant: by every one.
SpawnAlways(t) ==
    /\ In(t, "egress")
    /\ egress_rx' = egress_rx \ {task[t].for}
    /\ egress' = [egress EXCEPT ![task[t].for] = @ + 1]
    /\ Enter(t, "open")
    /\ UNCHANGED <<keys, unkeyed>>

\* A subscriber's egress task is spawned by the first handshake that completes.
SpawnEgress(t) ==
    LET k == task[t].for IN
    /\ In(t, "egress")
    /\ egress_rx' = egress_rx \ {k}
    /\ egress' = IF k \in egress_rx THEN [egress EXCEPT ![k] = @ + 1] ELSE egress
    /\ Enter(t, "open")
    /\ UNCHANGED <<keys, unkeyed>>

TaskStep(t) ==
    Read(t) \/ Accept(t) \/ Abandon(t) \/ InstallKeys(t) \/ ExportFails(t) \/ SpawnEgress(t)

Next ==
    \/ \E k \in Clients :
         \/ Begin(k) \/ SendFlight(k) \/ LateFlight(k) \/ Close(k)
         \/ \E a \in Addrs : Move(k, a)
         \/ \E use_candidate \in BOOLEAN : Binding(k, use_candidate)
    \/ Inject \/ InjectAnew \/ RemoveStale
    \/ \E t \in Tasks : TaskStep(t)

Spec == Init /\ [][Next]_vars

\* A client goes on with its checks and flights until it has its keys; the worker goes
\* on; a task reads, completes, and is timed out if its client has gone silent.
FairSpec ==
    /\ Spec
    /\ \A k \in Clients : SF_vars(Binding(k, FALSE)) /\ SF_vars(SendFlight(k))
    /\ WF_vars(Inject) /\ WF_vars(InjectAnew)
    /\ \A t \in Tasks :
         /\ WF_vars(Read(t)) /\ WF_vars(Accept(t)) /\ WF_vars(InstallKeys(t)) /\ WF_vars(SpawnEgress(t))
         /\ WF_vars(Abandon(t) /\ UNCHANGED mishaps)

-----------------------------------------------------------------------------
Datagrams == [from : Clients, op : {"flight", "late", "close"}, at : Addrs]
TaskState ==
    [addr : Addrs \cup {None}, for : Clients \cup {None},
     phase : {"handshake", "keys", "egress", "open", "ended"},
     with : Clients \cup {None}, heard : 0..Flights, queue : Seq(Datagrams)]

\* The variables have their types.
TypeOK ==
    /\ client \in [Clients -> {"new", "up", "gone"}]
    /\ addr \in [Clients -> Addrs]
    /\ latched \in [Addrs -> Clients \cup {None}]
    /\ dtls_map \in [Addrs -> Tasks \cup {None, Stale}]
    /\ task \in [Tasks -> TaskState]
    /\ \A t \in Tasks : Len(task[t].queue) <= Capacity
    /\ injecting \in Datagrams \cup {None}
    /\ keys \in [Clients -> Clients \cup {None}]
    /\ egress_rx \subseteq Subscribers
    /\ egress \in [Clients -> Nat]
    /\ mishaps \in 0..MaxMishaps
    /\ overtaken \subseteq Clients \X Clients
    /\ unkeyed \subseteq Clients

\* A session that lives gets the datagrams of its address: a new handshake never takes
\* the map's entry away from one, so there is at most one per address.
LiveSessionIsMapped ==
    \A t \in Tasks : Live(t) => dtls_map[task[t].addr] = t

\* "Install SRTP keys on the specific session": the keys of a client's MediaSession were
\* negotiated with that client, or with one that took its address over in mid-handshake.
KeysAreTheClients ==
    \A k \in Clients : keys[k] \in {None, k} \/ <<k, keys[k]>> \in overtaken

\* A subscriber with keys has one egress task, however many handshakes it went through.
OneEgressTask ==
    \A k \in Clients :
        /\ egress[k] <= 1
        /\ k \in Subscribers /\ keys[k] # None
           /\ (\A t \in Tasks : ~(task[t].phase = "egress" /\ task[t].for = k))
           => egress[k] = 1

\* The worker is never stuck in a channel that is full: the session reads or ends.
WorkerIsReleased == injecting # None ~> injecting = None

\* A session that another client has left behind at client k's address.
Shadowed(k) ==
    LET t == Channel(addr[k]) IN
    /\ t # None
    /\ task[t].phase # "handshake" /\ task[t].with # k

\* A client that stays gets its keys, unless a predecessor at its address left without
\* a close_notify that arrived, or one of two clients took over the handshake of the
\* other, or its keys could not be exported.
ClientGetsItsKeys ==
    \A k \in Clients :
        Up(k) ~> \/ keys[k] = k \/ ~Up(k)
                 \/ Shadowed(k) \/ k \in unkeyed
                 \/ \E j \in Clients : <<j, k>> \in overtaken \/ <<k, j>> \in overtaken
=============================================================================
