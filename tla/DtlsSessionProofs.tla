-------------------------- MODULE DtlsSessionProofs --------------------------
(***************************************************************************)
(* Proofs about DtlsSession, for any number of clients, addresses, tasks    *)
(* and mishaps.                                                             *)
(***************************************************************************)
EXTENDS DtlsSession, TLAPS

\* A session that lives has an address and a client, and an entry that leads to a living
\* task leads to one at its own address.
MapOK ==
    /\ \A t \in Tasks : Live(t) => task[t].addr \in Addrs /\ task[t].for \in Clients
    /\ \A a \in Addrs : dtls_map[a] \in Tasks /\ Live(dtls_map[a]) => task[dtls_map[a]].addr = a

\* Client j is the one that the handshake for k is meant for, or known to have been
\* latched at its address.
Expected(k, j) == j = k \/ <<k, j>> \in overtaken

\* A client that counts in a handshake is expected: from the latch through the
\* datagram in the worker's hands and the channel to the handshake's peer.
PeersOK ==
    /\ injecting # None /\ injecting.op = "flight" => latched[injecting.at] = injecting.from
    /\ \A t \in Tasks :
         /\ task[t].phase = "handshake" => Expected(task[t].for, latched[task[t].addr])
         /\ task[t].phase = "handshake" =>
              \A i \in DOMAIN task[t].queue :
                 task[t].queue[i].op = "flight" => Expected(task[t].for, task[t].queue[i].from)
         /\ task[t].heard >= 1 => task[t].with # None
         /\ task[t].heard >= 2 => Expected(task[t].for, task[t].with)
         /\ task[t].phase = "keys" => task[t].heard >= 2

\* A subscriber's receiver is either still there, or with its one egress task.
EgressOK ==
    \A k \in Clients :
        /\ egress[k] = IF k \in Subscribers \ egress_rx THEN 1 ELSE 0
        /\ k \in Subscribers /\ keys[k] # None =>
              k \notin egress_rx \/ \E t \in Tasks : task[t].phase = "egress" /\ task[t].for = k

\* The inductive invariant.
IInv ==
    TypeOK /\ MapOK /\ LiveSessionIsMapped /\ PeersOK /\ KeysAreTheClients /\ EgressOK

USE DtlsAssumption DEF DtlsAssumption

\* An ended task is a task.
LEMMA TaskFacts ==
    Ended \in TaskState /\ Ended.phase = "ended" /\ Ended.heard = 0 /\ Ended.queue = <<>>
  BY DEF Ended, TaskState

\* What is in a channel, and what is left when its head is taken, are datagrams.
LEMMA QueueFacts ==
    ASSUME NEW q \in Seq(Datagrams), q # <<>>
    PROVE  /\ Head(q) \in Datagrams /\ Head(q) = q[1] /\ 1 \in DOMAIN q
           /\ Tail(q) \in Seq(Datagrams) /\ Len(Tail(q)) <= Len(q)
           /\ \A i \in DOMAIN Tail(q) : i + 1 \in DOMAIN q /\ Tail(q)[i] = q[i + 1]
  OBVIOUS

\* A handshake begins in a task that has ended.
LEMMA StartEffect ==
    ASSUME TypeOK, NEW a \in Addrs, NEW k \in Clients, NEW q \in Seq(Datagrams),
           Len(q) <= Capacity, StartHandshake(a, k, q)
    PROVE  \E t \in Tasks :
             /\ ~Live(t)
             /\ task' \in [Tasks -> TaskState] /\ \A r \in Tasks : Len(task'[r].queue) <= Capacity
             /\ \A r \in Tasks \ {t} : task'[r] = task[r]
             /\ task'[t].addr = a /\ task'[t].for = k /\ task'[t].phase = "handshake"
             /\ task'[t].heard = 0 /\ task'[t].queue = q
             /\ dtls_map' \in [Addrs -> Tasks \cup {None, Stale}]
             /\ dtls_map'[a] = t
             /\ \A b \in Addrs \ {a} :
                  dtls_map'[b] = IF dtls_map[b] = t THEN Stale ELSE dtls_map[b]
  <1>1. PICK t \in Tasks :
          /\ ~Live(t)
          /\ task' = [task EXCEPT ![t] = [Handshake(a, k) EXCEPT !.queue = q]]
          /\ dtls_map' = [b \in Addrs |-> IF b = a THEN t
                                          ELSE IF dtls_map[b] = t THEN Stale ELSE dtls_map[b]]
    BY DEF StartHandshake
  <1>2. PICK s : s = [Handshake(a, k) EXCEPT !.queue = q]
    OBVIOUS
  <1>s. /\ s \in TaskState
        /\ s.addr = a /\ s.for = k /\ s.phase = "handshake" /\ s.heard = 0 /\ s.queue = q
    <2>1. s = [addr |-> a, for |-> k, phase |-> "handshake", with |-> None, heard |-> 0,
               queue |-> q]
      BY <1>2 DEF Ended, Handshake
    <2> QED
      BY <2>1 DEF TaskState
  <1>3. task' = [task EXCEPT ![t] = s]
    BY <1>1, <1>2
  <1>4. /\ task' \in [Tasks -> TaskState] /\ task'[t] = s
        /\ \A r \in Tasks \ {t} : task'[r] = task[r]
    BY <1>s, <1>3 DEF TypeOK
  <1>5. \A r \in Tasks : Len(task'[r].queue) <= Capacity
    BY <1>s, <1>4 DEF TypeOK
  <1>6. dtls_map' \in [Addrs -> Tasks \cup {None, Stale}]
    BY <1>1 DEF TypeOK
  <1> QED
    BY <1>1, <1>s, <1>4, <1>5, <1>6, ZenonT(40)

\* What a step of task t makes of its entry: r is Ended or goes on from task[t].
Goes(t, r) ==
    /\ r \in TaskState /\ Len(r.queue) <= Capacity
    /\ task' = [task EXCEPT ![t] = r]
    /\ \/ r = Ended
       \/ /\ r.addr = task[t].addr /\ r.for = task[t].for /\ r.phase # "ended"
          /\ r.phase = "handshake" => task[t].phase = "handshake"

\* The entry of task t when it has gone on.
LEMMA GoesEffect ==
    ASSUME TypeOK, NEW t \in Tasks, NEW r, Goes(t, r)
    PROVE  /\ task' \in [Tasks -> TaskState] /\ \A s \in Tasks : Len(task'[s].queue) <= Capacity
           /\ task'[t] = r
           /\ \A s \in Tasks \ {t} : task'[s] = task[s]
  BY DEF Goes, TypeOK

\* A task that enters a phase keeps all else, and one that ends, nothing.
LEMMA EnterEffect ==
    ASSUME TypeOK, NEW t \in Tasks, NEW phase \in {"keys", "egress", "open", "ended"},
           Enter(t, phase)
    PROVE  \E r \in TaskState :
             /\ Goes(t, r)
             /\ phase = "ended" => r = Ended
             /\ phase # "ended" => /\ r.phase = phase /\ r.addr = task[t].addr /\ r.for = task[t].for
                                   /\ r.with = task[t].with /\ r.heard = task[t].heard
                                   /\ r.queue = task[t].queue
  <1>t. task[t] \in TaskState /\ Len(task[t].queue) <= Capacity
    BY DEF TypeOK
  <1>1. CASE phase = "ended"
    <2>1. Goes(t, Ended)
      <3>1. task' = [task EXCEPT ![t] = Ended]
        BY <1>1 DEF Enter
      <3> QED
        BY <3>1, TaskFacts DEF Goes
    <2> QED
      BY <1>1, <2>1, TaskFacts
  <1>2. CASE phase # "ended"
    <2> DEFINE r == [task[t] EXCEPT !.phase = phase]
    <2>1. task' = [task EXCEPT ![t] = r]
      BY <1>2 DEF Enter
    <2>2. /\ r \in TaskState /\ r.phase = phase /\ r.addr = task[t].addr /\ r.for = task[t].for
          /\ r.with = task[t].with /\ r.heard = task[t].heard /\ r.queue = task[t].queue
      BY <1>t DEF TaskState
    <2> HIDE DEF r
    <2>3. Goes(t, r)
      BY <1>t, <1>2, <2>1, <2>2 DEF Goes
    <2> QED
      BY <1>2, <2>2, <2>3
  <1> QED
    BY <1>1, <1>2

\* A datagram that is read is a close_notify that ends the session, the flight of a client
\* that is heard, a first late one, or is overlooked.
LEMMA ReadEffect ==
    ASSUME TypeOK, NEW t \in Tasks, Read(t)
    PROVE  \E r \in TaskState :
             /\ Goes(t, r)
             /\ r = Ended \/ /\ r.phase = task[t].phase
                             /\ r.queue = Tail(task[t].queue)
                             /\ \/ r.with = task[t].with /\ r.heard = task[t].heard
                                \/ r.phase = "handshake" /\ r.heard = 1 /\ r.with \in Clients
                                \/ /\ r.phase = "handshake" /\ r.with = Head(task[t].queue).from
                                   /\ Head(task[t].queue).op = "flight"
             /\ task[t].phase = "egress" => r.phase = "egress"
  <1> DEFINE m == Head(task[t].queue)
             s == [task[t] EXCEPT !.queue = Tail(@)]
             u == [s EXCEPT !.with = m.from, !.heard = @ + 1]
             ends == m.op = "close" /\ m.from = s.with /\ s.phase \in {"handshake", "open"}
             counts == /\ s.phase = "handshake" /\ s.with \in {None, m.from}
                       /\ (m.op = "flight" /\ s.heard < Flights) \/ (m.op = "late" /\ s.heard = 0)
  <1>t. /\ task[t] \in TaskState /\ Len(task[t].queue) <= Capacity
        /\ task[t].queue \in Seq(Datagrams) /\ task[t].queue # <<>> /\ Live(t)
    BY DEF TypeOK, Read, TaskState
  <1>q. m \in Datagrams /\ Tail(task[t].queue) \in Seq(Datagrams)
        /\ Len(Tail(task[t].queue)) <= Capacity
    <2> HIDE DEF m
    <2>1. Head(task[t].queue) \in Datagrams /\ Tail(task[t].queue) \in Seq(Datagrams)
          /\ Len(Tail(task[t].queue)) <= Len(task[t].queue)
      BY <1>t, QueueFacts
    <2> QED
      BY <1>t, <2>1 DEF m
  <1>s. /\ s \in TaskState /\ s.addr = task[t].addr /\ s.for = task[t].for /\ s.phase = task[t].phase
        /\ s.with = task[t].with /\ s.heard = task[t].heard /\ s.queue = Tail(task[t].queue)
    BY <1>t, <1>q DEF TaskState
  <1>0. IF ends THEN Enter(t, "ended") ELSE task' = [task EXCEPT ![t] = IF counts THEN u ELSE s]
    BY DEF Read
  <1>1. CASE ends
    <2>1. Enter(t, "ended") /\ task[t].phase # "egress"
      BY <1>0, <1>1, <1>s
    <2> QED
      BY <2>1, EnterEffect
  <1>2. CASE ~ends /\ counts
    <2>1. task' = [task EXCEPT ![t] = u]
      BY <1>0, <1>2
    <2>2. s.heard < Flights /\ s.heard \in Nat /\ (m.op = "flight" \/ s.heard = 0)
      <3>1. s.heard \in 0..Flights
        BY <1>s DEF TaskState
      <3>2. (m.op = "flight" /\ s.heard < Flights) \/ (m.op = "late" /\ s.heard = 0)
        BY <1>2
      <3> HIDE DEF s, m
      <3> QED
        BY <3>1, <3>2
    <2>3. m.from \in Clients
      BY <1>q DEF Datagrams
    <2>4. /\ u \in TaskState /\ u.addr = s.addr /\ u.for = s.for /\ u.phase = s.phase
          /\ u.with = m.from /\ u.heard = s.heard + 1 /\ u.queue = s.queue
      <3> HIDE DEF s, m
      <3>1. s.heard + 1 \in 0..Flights
        BY <1>s, <2>2
      <3> QED
        BY <1>s, <2>3, <3>1 DEF TaskState
    <2>5. s.phase = "handshake"
      BY <1>2
    <2>6. Goes(t, u)
      <3> HIDE DEF u, s, m
      <3> QED
        BY <1>t, <1>q, <1>s, <2>1, <2>4, <2>5 DEF Goes
    <2> QED
      <3>1. /\ u.phase = "handshake" /\ task[t].phase = "handshake"
            /\ u.with = m.from /\ u.with \in Clients /\ u.queue = Tail(task[t].queue)
        BY <1>s, <2>3, <2>4, <2>5
      <3>2. u.heard = 1 \/ m.op = "flight"
        BY <2>2, <2>4
      <3>3. u \in TaskState
        BY <2>4
      <3> HIDE DEF u, s
      <3> QED
        BY <2>6, <3>1, <3>2, <3>3
  <1>3. CASE ~ends /\ ~counts
    <2>1. task' = [task EXCEPT ![t] = s]
      BY <1>0, <1>3
    <2>2. Goes(t, s)
      <3> HIDE DEF s, m
      <3> QED
        BY <1>t, <1>q, <1>s, <2>1 DEF Goes, Live
    <2> QED
      <3> HIDE DEF s
      <3> QED
        BY <1>s, <2>2
  <1> HIDE DEF ends, counts
  <1> QED
    BY <1>1, <1>2, <1>3
-----------------------------------------------------------------------------
\* What a step of a handshake task leaves alone.
LEMMA TaskStepFrame ==
    ASSUME TypeOK, NEW t \in Tasks, TaskStep(t)
    PROVE  /\ UNCHANGED <<client, addr, latched, dtls_map, injecting, overtaken>>
           /\ mishaps' \in 0..MaxMishaps
           /\ keys' \in [Clients -> Clients \cup {None}] \/ ~Live(t) \/ task[t].for \notin Clients
  <1>t. task[t] \in TaskState
    BY DEF TypeOK
  <1>1. CASE Read(t)
    BY <1>1 DEF Read, world, install, TypeOK
  <1>2. CASE Accept(t) \/ InstallKeys(t) \/ SpawnEgress(t)
    <2>1. UNCHANGED <<world, latched, dtls_map, injecting, overtaken>>
      BY <1>2 DEF Accept, InstallKeys, SpawnEgress, In
    <2>2. keys' = keys \/ keys' = [keys EXCEPT ![task[t].for] = task[t].with]
      BY <1>2 DEF Accept, InstallKeys, SpawnEgress, install
    <2>3. task[t].with \in Clients \cup {None}
      BY <1>t DEF TaskState
    <2> QED
      BY <2>1, <2>2, <2>3 DEF world, TypeOK
  <1>3. CASE Abandon(t) \/ ExportFails(t)
    BY <1>3 DEF Abandon, ExportFails, Mishap, install, TypeOK
  <1> QED
    BY <1>1, <1>2, <1>3 DEF TaskStep

\* A living task takes every step, and goes on or ends.
LEMMA TaskStepGoes ==
    ASSUME TypeOK, NEW t \in Tasks, TaskStep(t)
    PROVE  Live(t) /\ \E r \in TaskState : Goes(t, r)
  <1>1. CASE Read(t)
    BY <1>1, ReadEffect DEF Read
  <1>2. CASE Accept(t)
    BY <1>2, EnterEffect DEF Accept, In, Live
  <1>3. CASE Abandon(t)
    BY <1>3, EnterEffect DEF Abandon, Live
  <1>4. CASE InstallKeys(t)
    BY <1>4, EnterEffect DEF InstallKeys, In, Live
  <1>5. CASE ExportFails(t)
    BY <1>5, EnterEffect DEF ExportFails, Live
  <1>6. CASE SpawnEgress(t)
    BY <1>6, EnterEffect DEF SpawnEgress, In, Live
  <1> QED
    BY <1>1, <1>2, <1>3, <1>4, <1>5, <1>6 DEF TaskStep

\* The worker's datagram is appended to the channel of the session at its address.
LEMMA InjectEffect ==
    ASSUME TypeOK, Inject
    PROVE  /\ injecting \in Datagrams
           /\ \E t \in Tasks, r \in TaskState :
                /\ Live(t) /\ dtls_map[injecting.at] = t
                /\ Goes(t, r)
                /\ r.phase = task[t].phase /\ r.with = task[t].with /\ r.heard = task[t].heard
                /\ r.queue = Append(task[t].queue, injecting)
  <1> DEFINE t == Channel(injecting.at)
  <1>1. t \in Tasks /\ Live(t) /\ dtls_map[injecting.at] = t
    BY DEF Inject, Channel
  <1>2. injecting \in Datagrams
    BY DEF Inject, TypeOK
  <1> HIDE DEF t
  <1>3. /\ Len(task[t].queue) < Capacity
        /\ task' = [task EXCEPT ![t].queue = Append(@, injecting)]
    BY DEF Inject, t
  <1>4. task[t] \in TaskState /\ task[t].queue \in Seq(Datagrams)
    BY <1>1 DEF TypeOK, TaskState
  <1> DEFINE q == Append(task[t].queue, injecting)
             r == [task[t] EXCEPT !.queue = q]
  <1>5. q \in Seq(Datagrams) /\ Len(q) <= Capacity
    BY <1>2, <1>3, <1>4
  <1>6. task' = [task EXCEPT ![t] = r]
    BY <1>3
  <1> HIDE DEF q
  <1>7. /\ r \in TaskState /\ r.queue = q
        /\ r.addr = task[t].addr /\ r.for = task[t].for /\ r.phase = task[t].phase
        /\ r.with = task[t].with /\ r.heard = task[t].heard
    BY <1>4, <1>5 DEF TaskState
  <1> HIDE DEF r
  <1>8. Goes(t, r)
    BY <1>1, <1>5, <1>6, <1>7 DEF Goes, Live
  <1> QED
    BY <1>1, <1>2, <1>7, <1>8 DEF q

\* A datagram without a session begins a handshake for whoever is latched, or is dropped.
LEMMA InjectAnewEffect ==
    ASSUME TypeOK, InjectAnew, ~UNCHANGED <<task, dtls_map>>
    PROVE  /\ injecting \in Datagrams /\ injecting.at \in Addrs
           /\ Channel(injecting.at) = None
           /\ latched[injecting.at] \in Clients
           /\ <<injecting>> \in Seq(Datagrams) /\ Len(<<injecting>>) <= Capacity
           /\ StartHandshake(injecting.at, latched[injecting.at], <<injecting>>)
  <1>1. injecting \in Datagrams /\ injecting.at \in Addrs
    BY DEF InjectAnew, TypeOK, Datagrams
  <1>2. latched[injecting.at] \in Clients \cup {None}
    BY <1>1 DEF TypeOK
  <1>3. <<injecting>> \in Seq(Datagrams) /\ Len(<<injecting>>) <= Capacity
    BY <1>1
  <1> QED
    BY <1>1, <1>2, <1>3 DEF InjectAnew

\* A binding request begins a handshake only where the map has no entry.
LEMMA BindingEffect ==
    ASSUME TypeOK, NEW k \in Clients, NEW use_candidate \in BOOLEAN, Binding(k, use_candidate),
           ~UNCHANGED <<task, dtls_map>>
    PROVE  /\ addr[k] \in Addrs /\ Channel(addr[k]) = None
           /\ <<>> \in Seq(Datagrams) /\ Len(<<>>) <= Capacity
           /\ StartHandshake(addr[k], k, <<>>)
  <1>1. addr[k] \in Addrs /\ <<>> \in Seq(Datagrams) /\ Len(<<>>) <= Capacity
    BY DEF TypeOK
  <1>2. dtls_map[addr[k]] = None /\ StartHandshake(addr[k], k, <<>>)
    BY DEF Binding
  <1> QED
    BY <1>1, <1>2 DEF Channel

\* The worker's and the tasks' steps, and the clients', keep the types.
LEMMA TypeStep == TypeOK /\ MapOK /\ PeersOK /\ [Next]_vars => TypeOK'
  <1> SUFFICES ASSUME TypeOK, MapOK, PeersOK, [Next]_vars PROVE TypeOK'
    OBVIOUS
  <1> USE DEF world, install
  <1>1. ASSUME NEW k \in Clients, Begin(k) PROVE TypeOK'
    BY <1>1 DEF Begin, TypeOK
  <1>2. ASSUME NEW k \in Clients, NEW op \in {"flight", "late", "close"}, Arrive(k, op)
        PROVE  injecting' \in Datagrams \cup {None}
    BY <1>2 DEF Arrive, Datagrams, TypeOK
  <1>3. ASSUME NEW k \in Clients, SendFlight(k) PROVE TypeOK'
    BY <1>2, <1>3 DEF SendFlight, TypeOK
  <1>4. ASSUME NEW k \in Clients, LateFlight(k) PROVE TypeOK'
    BY <1>2, <1>4 DEF LateFlight, Mishap, TypeOK
  <1>5. ASSUME NEW k \in Clients, Close(k) PROVE TypeOK'
    <2>1. injecting' \in Datagrams \cup {None}
      BY <1>2, <1>5 DEF Close, TypeOK
    <2> QED
      BY <1>5, <2>1 DEF Close, Mishap, TypeOK
  <1>6. ASSUME NEW k \in Clients, NEW a \in Addrs, Move(k, a) PROVE TypeOK'
    BY <1>6 DEF Move, Mishap, TypeOK
  <1>7. ASSUME NEW k \in Clients, NEW use_candidate \in BOOLEAN, Binding(k, use_candidate)
        PROVE  TypeOK'
    <2>2. /\ task' \in [Tasks -> TaskState] /\ \A t \in Tasks : Len(task'[t].queue) <= Capacity
          /\ dtls_map' \in [Addrs -> Tasks \cup {None, Stale}]
      <3>1. CASE UNCHANGED <<task, dtls_map>>
        BY <3>1 DEF TypeOK
      <3>2. CASE ~UNCHANGED <<task, dtls_map>>
        BY <1>7, <3>2, BindingEffect, StartEffect
      <3> QED
        BY <3>1, <3>2
    <2>3. overtaken' \subseteq Clients \X Clients
      <3>1. \A t \in Tasks : task[t].phase = "handshake" => task[t].for \in Clients
        BY DEF MapOK, Live
      <3> QED
        BY <1>7, <3>1 DEF Binding, TypeOK
    <2>4. latched' \in [Addrs -> Clients \cup {None}]
      BY <1>7 DEF Binding, TypeOK
    <2> QED
      BY <1>7, <2>2, <2>3, <2>4 DEF Binding, TypeOK
  <1>8. CASE Inject
    <2>1. task' \in [Tasks -> TaskState] /\ \A s \in Tasks : Len(task'[s].queue) <= Capacity
      BY <1>8, InjectEffect, GoesEffect
    <2> QED
      BY <1>8, <2>1 DEF Inject, TypeOK
  <1>9. CASE InjectAnew
    <2>1. /\ task' \in [Tasks -> TaskState] /\ \A t \in Tasks : Len(task'[t].queue) <= Capacity
          /\ dtls_map' \in [Addrs -> Tasks \cup {None, Stale}]
      <3>1. CASE UNCHANGED <<task, dtls_map>>
        BY <3>1 DEF TypeOK
      <3>2. CASE ~UNCHANGED <<task, dtls_map>>
        BY <1>9, <3>2, InjectAnewEffect, StartEffect
      <3> QED
        BY <3>1, <3>2
    <2> QED
      BY <1>9, <2>1 DEF InjectAnew, TypeOK
  <1>10. CASE RemoveStale
    BY <1>10 DEF RemoveStale, Channel, TypeOK
  <1>11. ASSUME NEW t \in Tasks, TaskStep(t) PROVE TypeOK'
    <2>1. /\ task' \in [Tasks -> TaskState] /\ \A s \in Tasks : Len(task'[s].queue) <= Capacity
          /\ Live(t) /\ task[t].for \in Clients
      BY <1>11, TaskStepGoes, GoesEffect DEF MapOK
    <2>2. /\ UNCHANGED <<client, addr, latched, dtls_map, injecting, overtaken>>
          /\ mishaps' \in 0..MaxMishaps
          /\ keys' \in [Clients -> Clients \cup {None}]
      BY <1>11, <2>1, TaskStepFrame
    <2>3. egress_rx' \subseteq Subscribers /\ egress' \in [Clients -> Nat]
      BY <1>11 DEF TaskStep, Read, Accept, Abandon, InstallKeys, ExportFails, SpawnEgress, TypeOK
    <2>4. unkeyed' \subseteq Clients
      <3>1. CASE ExportFails(t)
        <4>1. task[t].phase = "keys" /\ task[t] \in TaskState
          BY <3>1 DEF ExportFails, TypeOK
        <4>2. task[t].with \in Clients
          <5>1. task[t].heard >= 2 /\ task[t].heard \in Nat
            BY <4>1 DEF PeersOK, TaskState
          <5>2. task[t].with # None
            BY <5>1 DEF PeersOK
          <5> QED
            BY <4>1, <5>2 DEF TaskState
        <4> QED
          BY <3>1, <4>2 DEF ExportFails, TypeOK
      <3>2. CASE ~ExportFails(t)
        BY <1>11, <3>2 DEF TaskStep, Read, Accept, Abandon, InstallKeys, SpawnEgress, TypeOK
      <3> QED
        BY <3>1, <3>2
    <2> QED
      BY <2>1, <2>2, <2>3, <2>4 DEF TypeOK
  <1>12. CASE UNCHANGED vars
    BY <1>12 DEF vars, TypeOK
  <1> QED
    BY <1>1, <1>3, <1>4, <1>5, <1>6, <1>7, <1>8, <1>9, <1>10, <1>11, <1>12 DEF Next
-----------------------------------------------------------------------------
\* At an address without a session no task lives.
LEMMA NobodyAt ==
    ASSUME MapOK, LiveSessionIsMapped, NEW a \in Addrs, Channel(a) = None
    PROVE  \A t \in Tasks : Live(t) => task[t].addr # a
  BY DEF MapOK, LiveSessionIsMapped, Channel

\* A handshake that begins where no task lives takes no entry away from one.
LEMMA StartKeepsMap ==
    ASSUME TypeOK, MapOK, LiveSessionIsMapped, NEW a \in Addrs, NEW k \in Clients,
           NEW q \in Seq(Datagrams), Len(q) <= Capacity, Channel(a) = None, StartHandshake(a, k, q)
    PROVE  MapOK' /\ LiveSessionIsMapped'
  <1>1. PICK t \in Tasks :
          /\ ~Live(t)
          /\ \A r \in Tasks \ {t} : task'[r] = task[r]
          /\ task'[t].addr = a /\ task'[t].for = k /\ task'[t].phase = "handshake"
          /\ dtls_map'[a] = t
          /\ \A b \in Addrs \ {a} :
               dtls_map'[b] = IF dtls_map[b] = t THEN Stale ELSE dtls_map[b]
    BY StartEffect
  <1>2. \A r \in Tasks \ {t} : Live(r) => task[r].addr # a
    BY NobodyAt
  <1>3. \A r \in Tasks : Live(r)' => task'[r].addr \in Addrs /\ task'[r].for \in Clients
    BY <1>1 DEF MapOK, Live
  <1>4. ASSUME NEW b \in Addrs, dtls_map'[b] \in Tasks
        PROVE  task'[dtls_map'[b]].addr = b \/ task'[dtls_map'[b]].phase = "ended"
    <2>1. CASE b = a
      BY <1>1, <2>1
    <2>2. CASE b # a
      <3>1. dtls_map'[b] = dtls_map[b] /\ dtls_map[b] # t
        BY <1>1, <1>4, <2>2
      <3> QED
        BY <1>1, <1>4, <3>1 DEF MapOK, Live
    <2> QED
      BY <2>1, <2>2
  <1>5. ASSUME NEW r \in Tasks, Live(r)' PROVE dtls_map'[task'[r].addr] = r
    <2>1. CASE r = t
      BY <1>1, <2>1
    <2>2. CASE r # t
      <3>1. task'[r] = task[r] /\ Live(r) /\ task[r].addr \in Addrs \ {a}
        BY <1>1, <1>2, <1>5, <2>2 DEF MapOK, Live
      <3> QED
        BY <1>1, <2>2, <3>1 DEF LiveSessionIsMapped
    <2> QED
      BY <2>1, <2>2
  <1> QED
    BY <1>3, <1>4, <1>5 DEF MapOK, LiveSessionIsMapped, Live

\* A task that goes on stays where it is.
LEMMA GoesKeepsMap ==
    ASSUME TypeOK, MapOK, LiveSessionIsMapped, NEW t \in Tasks, NEW r \in TaskState,
           Live(t), Goes(t, r), dtls_map' = dtls_map
    PROVE  MapOK' /\ LiveSessionIsMapped'
  <1>1. task'[t] = r /\ \A s \in Tasks \ {t} : task'[s] = task[s]
    BY GoesEffect
  <1>2. r.phase = "ended" \/ (r.addr = task[t].addr /\ r.for = task[t].for)
    BY TaskFacts DEF Goes
  <1>3. \A s \in Tasks : Live(s)' =>
          Live(s) /\ task'[s].addr = task[s].addr /\ task'[s].for = task[s].for
    BY <1>1, <1>2 DEF Live
  <1> QED
    BY <1>3 DEF MapOK, LiveSessionIsMapped

\* Every step keeps each living session at the entry of its address.
LEMMA MapStep ==
    TypeOK /\ MapOK /\ LiveSessionIsMapped /\ [Next]_vars => MapOK' /\ LiveSessionIsMapped'
  <1> SUFFICES ASSUME TypeOK, MapOK, LiveSessionIsMapped, [Next]_vars
               PROVE  MapOK' /\ LiveSessionIsMapped'
    OBVIOUS
  <1>1. CASE UNCHANGED <<task, dtls_map>>
    BY <1>1 DEF MapOK, LiveSessionIsMapped, Live
  <1>2. ASSUME NEW k \in Clients, NEW use_candidate \in BOOLEAN, Binding(k, use_candidate)
        PROVE  MapOK' /\ LiveSessionIsMapped'
    BY <1>1, <1>2, BindingEffect, StartKeepsMap
  <1>3. CASE Inject
    <2>1. dtls_map' = dtls_map
      BY <1>3 DEF Inject
    <2> QED
      BY <1>3, <2>1, InjectEffect, GoesKeepsMap
  <1>4. CASE InjectAnew
    BY <1>1, <1>4, InjectAnewEffect, StartKeepsMap
  <1>5. CASE RemoveStale
    <2>1. task' = task /\ dtls_map' = [a \in Addrs |-> Channel(a)]
      BY <1>5 DEF RemoveStale
    <2>2. MapOK'
      BY <2>1 DEF MapOK, Channel, Live
    <2>3. ASSUME NEW t \in Tasks, Live(t)' PROVE dtls_map'[task'[t].addr] = t
      <3>1. Live(t) /\ dtls_map[task[t].addr] = t /\ task[t].addr \in Addrs
        BY <2>1, <2>3 DEF MapOK, LiveSessionIsMapped, Live
      <3> QED
        BY <2>1, <3>1 DEF Channel
    <2> QED
      BY <2>2, <2>3 DEF LiveSessionIsMapped
  <1>6. ASSUME NEW t \in Tasks, TaskStep(t) PROVE MapOK' /\ LiveSessionIsMapped'
    BY <1>6, TaskStepGoes, TaskStepFrame, GoesKeepsMap
  <1>7. ASSUME NEW k \in Clients,
               \/ Begin(k) \/ SendFlight(k) \/ LateFlight(k) \/ Close(k)
               \/ \E a \in Addrs : Move(k, a)
        PROVE  UNCHANGED <<task, dtls_map>>
    BY <1>7 DEF Begin, SendFlight, LateFlight, Close, Move
  <1>8. CASE UNCHANGED vars
    BY <1>1, <1>8 DEF vars
  <1> QED
    BY <1>1, <1>2, <1>3, <1>4, <1>5, <1>6, <1>7, <1>8 DEF Next
-----------------------------------------------------------------------------
\* What PeersOK says of task t.
PeerOK(t) ==
    /\ task[t].phase = "handshake" => Expected(task[t].for, latched[task[t].addr])
    /\ task[t].phase = "handshake" =>
         \A i \in DOMAIN task[t].queue :
            task[t].queue[i].op = "flight" => Expected(task[t].for, task[t].queue[i].from)
    /\ task[t].heard >= 1 => task[t].with # None
    /\ task[t].heard >= 2 => Expected(task[t].for, task[t].with)
    /\ task[t].phase = "keys" => task[t].heard >= 2

\* A task whose entry no step touches, and whose address nobody latches, keeps its peer.
LEMMA OthersKeepPeer ==
    ASSUME NEW t \in Tasks, PeerOK(t), task'[t] = task[t], overtaken \subseteq overtaken',
           task[t].phase = "handshake" => latched'[task[t].addr] = latched[task[t].addr]
    PROVE  PeerOK(t)'
  BY DEF PeerOK, Expected

\* A session takes in a datagram of the client that is latched at its address.
LEMMA InjectKeepsPeer ==
    ASSUME TypeOK, MapOK, PeersOK, Inject
    PROVE  \A t \in Tasks : PeerOK(t)'
  <1>1. PICK t \in Tasks, r \in TaskState :
          /\ Live(t) /\ dtls_map[injecting.at] = t
          /\ Goes(t, r)
          /\ r.phase = task[t].phase /\ r.with = task[t].with /\ r.heard = task[t].heard
          /\ r.queue = Append(task[t].queue, injecting)
    BY InjectEffect
  <1>2. injecting \in Datagrams /\ injecting # None /\ injecting.at \in Addrs
    BY InjectEffect DEF Inject, Datagrams
  <1>3. task'[t] = r /\ \A s \in Tasks \ {t} : task'[s] = task[s]
    BY <1>1, GoesEffect
  <1>4. latched' = latched /\ overtaken' = overtaken
    BY DEF Inject
  <1>5. task[t].addr = injecting.at /\ r.addr = task[t].addr /\ r.for = task[t].for
    BY <1>1, <1>2, TaskFacts DEF MapOK, Goes, Live
  <1>6. PeerOK(t)
    BY DEF PeersOK, PeerOK
  <1>7. task[t].queue \in Seq(Datagrams)
    BY DEF TypeOK, TaskState
  <1>8. ASSUME task[t].phase = "handshake", NEW i \in DOMAIN r.queue, r.queue[i].op = "flight"
        PROVE  Expected(task[t].for, r.queue[i].from)
    <2>1. CASE i \in DOMAIN task[t].queue
      <3>1. r.queue[i] = task[t].queue[i]
        BY <1>1, <1>2, <1>7, <2>1
      <3> QED
        BY <1>6, <1>8, <2>1, <3>1 DEF PeerOK
    <2>2. CASE i \notin DOMAIN task[t].queue
      <3>1. r.queue[i] = injecting
        BY <1>1, <1>2, <1>7, <1>8, <2>2
      <3>2. latched[injecting.at] = injecting.from
        BY <1>2, <1>8, <3>1 DEF PeersOK
      <3> QED
        BY <1>5, <1>6, <1>8, <3>1, <3>2 DEF PeerOK
    <2> QED
      BY <2>1, <2>2
  <1>9. PeerOK(t)'
    BY <1>1, <1>3, <1>4, <1>5, <1>6, <1>8 DEF PeerOK, Expected
  <1>10. ASSUME NEW s \in Tasks \ {t} PROVE PeerOK(s)'
    BY <1>3, <1>4, <1>10, OthersKeepPeer DEF PeersOK, PeerOK
  <1> QED
    BY <1>9, <1>10

\* A handshake hears whom it expects, and keeps to that client.
LEMMA TaskStepKeepsPeer ==
    ASSUME TypeOK, PeersOK, NEW t \in Tasks, TaskStep(t)
    PROVE  \A s \in Tasks : PeerOK(s)'
  <1>1. latched' = latched /\ overtaken' = overtaken
    BY TaskStepFrame
  <1>o. ASSUME NEW s \in Tasks \ {t} PROVE PeerOK(s)'
    <2>1. task'[s] = task[s]
      BY TaskStepGoes, GoesEffect
    <2> QED
      BY <1>1, <2>1, OthersKeepPeer DEF PeersOK, PeerOK
  <1> SUFFICES PeerOK(t)'
    BY <1>o
  <1>2. PeerOK(t) /\ task[t] \in TaskState
    BY DEF PeersOK, PeerOK, TypeOK
  <1>3. ASSUME NEW r \in TaskState, Goes(t, r), r = Ended PROVE PeerOK(t)'
    <2>1. task'[t].phase = "ended" /\ task'[t].heard = 0
      BY <1>3, GoesEffect, TaskFacts
    <2> QED
      BY <2>1 DEF PeerOK
  <1>4. ASSUME NEW r \in TaskState, Goes(t, r), r.phase # "handshake",
               r.for = task[t].for, r.with = task[t].with, r.heard = task[t].heard,
               r.phase = "keys" => r.heard >= 2
        PROVE  PeerOK(t)'
    <2>1. task'[t] = r
      BY <1>4, GoesEffect
    <2> QED
      BY <1>1, <1>2, <1>4, <2>1 DEF PeerOK, Expected
  <1>5. CASE Read(t)
    <2>1. PICK r \in TaskState :
            /\ Goes(t, r)
            /\ r = Ended \/ /\ r.phase = task[t].phase
                            /\ r.queue = Tail(task[t].queue)
                            /\ \/ r.with = task[t].with /\ r.heard = task[t].heard
                               \/ r.phase = "handshake" /\ r.heard = 1 /\ r.with \in Clients
                               \/ /\ r.phase = "handshake" /\ r.with = Head(task[t].queue).from
                                  /\ Head(task[t].queue).op = "flight"
      BY <1>5, ReadEffect
    <2>2. CASE r = Ended
      BY <1>3, <2>1, <2>2
    <2>3. CASE r # Ended
      <3>1. task'[t] = r /\ r.addr = task[t].addr /\ r.for = task[t].for
        BY <2>1, <2>3, GoesEffect DEF Goes
      <3>2. task[t].queue \in Seq(Datagrams) /\ task[t].queue # <<>>
        BY <1>2, <1>5 DEF TaskState, Read
      <3>q. /\ Head(task[t].queue) \in Datagrams /\ Head(task[t].queue) = task[t].queue[1]
            /\ 1 \in DOMAIN task[t].queue
            /\ \A i \in DOMAIN Tail(task[t].queue) :
                 i + 1 \in DOMAIN task[t].queue /\ Tail(task[t].queue)[i] = task[t].queue[i + 1]
        BY <3>2, QueueFacts
      <3>3. r.phase = "handshake" =>
              \A i \in DOMAIN r.queue :
                 r.queue[i].op = "flight" => Expected(r.for, r.queue[i].from)
        <4> SUFFICES ASSUME task[t].phase = "handshake", NEW i \in DOMAIN Tail(task[t].queue),
                            Tail(task[t].queue)[i].op = "flight"
                     PROVE  Expected(task[t].for, Tail(task[t].queue)[i].from)
          BY <2>1, <2>3, <3>1
        <4>1. i + 1 \in DOMAIN task[t].queue /\ Tail(task[t].queue)[i] = task[t].queue[i + 1]
          BY <3>q
        <4>2. \A j \in DOMAIN task[t].queue :
                 task[t].queue[j].op = "flight" => Expected(task[t].for, task[t].queue[j].from)
          BY <1>2 DEF PeerOK
        <4> QED
          BY <4>1, <4>2
      <3>4. /\ r.heard >= 1 => r.with # None
            /\ r.heard >= 2 => Expected(r.for, r.with)
            /\ r.phase = "keys" => r.heard >= 2
        <4>1. CASE r.with = task[t].with /\ r.heard = task[t].heard /\ r.phase = task[t].phase
          BY <1>2, <3>1, <4>1 DEF PeerOK
        <4>2. CASE r.phase = "handshake" /\ r.heard = 1 /\ r.with \in Clients
          BY <4>2
        <4>3. CASE /\ r.phase = "handshake" /\ r.with = Head(task[t].queue).from
                   /\ Head(task[t].queue).op = "flight" /\ task[t].phase = "handshake"
          <5>1. Expected(task[t].for, r.with)
            BY <1>2, <3>q, <4>3 DEF PeerOK
          <5>2. r.with \in Clients
            BY <3>q, <4>3 DEF Datagrams
          <5> QED
            BY <3>1, <4>3, <5>1, <5>2
        <4> QED
          BY <2>1, <2>3, <4>1, <4>2, <4>3
      <3>5. r.phase = "handshake" => Expected(r.for, latched[r.addr])
        BY <1>2, <2>1, <2>3, <3>1 DEF PeerOK
      <3> QED
        BY <1>1, <3>1, <3>3, <3>4, <3>5 DEF PeerOK, Expected
    <2> QED
      BY <2>2, <2>3
  <1>6. CASE Accept(t)
    <2>1. PICK r \in TaskState :
            /\ Goes(t, r) /\ r.phase = "keys" /\ r.for = task[t].for
            /\ r.with = task[t].with /\ r.heard = task[t].heard
      BY <1>6, EnterEffect DEF Accept
    <2>2. task[t].heard >= 2
      BY <1>6 DEF Accept
    <2> QED
      BY <1>4, <2>1, <2>2
  <1>7. CASE Abandon(t)
    BY <1>3, <1>7, EnterEffect DEF Abandon
  <1>8. ASSUME NEW phase \in {"egress", "open"}, Enter(t, phase) PROVE PeerOK(t)'
    <2>1. PICK r \in TaskState :
            /\ Goes(t, r) /\ r.phase = phase /\ r.for = task[t].for
            /\ r.with = task[t].with /\ r.heard = task[t].heard
      BY <1>8, EnterEffect
    <2> QED
      BY <1>4, <2>1
  <1>9. CASE InstallKeys(t) \/ ExportFails(t) \/ SpawnEgress(t)
    BY <1>8, <1>9 DEF InstallKeys, ExportFails, SpawnEgress
  <1> QED
    BY <1>5, <1>6, <1>7, <1>9 DEF TaskStep

\* Every step keeps the peers of all handshakes among those who are expected.
LEMMA PeersStep ==
    TypeOK /\ MapOK /\ PeersOK /\ [Next]_vars => PeersOK' /\ overtaken \subseteq overtaken'
  <1> SUFFICES ASSUME TypeOK, MapOK, PeersOK, [Next]_vars
               PROVE  PeersOK' /\ overtaken \subseteq overtaken'
    OBVIOUS
  <1> DEFINE Fresh == injecting # None /\ injecting.op = "flight"
                        => latched[injecting.at] = injecting.from
  <1>0. ASSUME Fresh', \A t \in Tasks : PeerOK(t)' PROVE PeersOK'
    BY <1>0 DEF PeersOK, PeerOK
  <1>1. Fresh /\ \A t \in Tasks : PeerOK(t)
    BY DEF PeersOK, PeerOK
  <1>2. ASSUME UNCHANGED <<task, latched, overtaken>>
        PROVE  \A t \in Tasks : PeerOK(t)'
    BY <1>1, <1>2, OthersKeepPeer
  <1>3. ASSUME NEW k \in Clients,
               \/ Begin(k) \/ SendFlight(k) \/ LateFlight(k) \/ Close(k)
               \/ \E a \in Addrs : Move(k, a)
        PROVE  PeersOK' /\ overtaken \subseteq overtaken'
    <2>1. UNCHANGED <<task, latched, overtaken>>
      BY <1>3 DEF Begin, SendFlight, LateFlight, Close, Move
    <2>2. Fresh'
      <3>1. CASE injecting' = injecting
        BY <1>1, <2>1, <3>1
      <3>2. CASE SendFlight(k)
        BY <2>1, <3>2 DEF SendFlight, Arrive
      <3>3. CASE Arrive(k, "late") \/ Arrive(k, "close")
        BY <3>3 DEF Arrive
      <3> QED
        BY <1>3, <3>1, <3>2, <3>3 DEF Begin, LateFlight, Close, Move
    <2> HIDE DEF Fresh
    <2> QED
      BY <1>0, <1>2, <2>1, <2>2
  <1>4. ASSUME NEW k \in Clients, NEW use_candidate \in BOOLEAN, Binding(k, use_candidate)
        PROVE  PeersOK' /\ overtaken \subseteq overtaken'
    <2>1. /\ injecting = None /\ injecting' = None /\ latched' = [latched EXCEPT ![addr[k]] = k]
          /\ overtaken \subseteq overtaken' /\ addr[k] \in Addrs
      BY <1>4 DEF Binding, TypeOK
    <2>2. Fresh'
      BY <2>1
    <2>3. ASSUME NEW t \in Tasks, task[t].phase = "handshake"
          PROVE  LET j == latched'[task[t].addr] IN
                 j = task[t].for \/ <<task[t].for, j>> \in overtaken'
      <3>1. task[t].addr \in Addrs
        BY <2>3 DEF MapOK, Live
      <3>2. CASE task[t].addr = addr[k]
        <4>1. latched'[task[t].addr] = k
          BY <2>1, <3>2 DEF TypeOK
        <4>2. task[t].for # k => <<task[t].for, k>> \in overtaken'
          BY <1>4, <2>3, <3>2 DEF Binding
        <4> QED
          BY <4>1, <4>2
      <3>3. CASE task[t].addr # addr[k]
        <4>1. latched'[task[t].addr] = latched[task[t].addr]
          BY <2>1, <3>1, <3>3 DEF TypeOK
        <4>2. Expected(task[t].for, latched[task[t].addr])
          BY <2>3 DEF PeersOK
        <4> QED
          BY <2>1, <4>1, <4>2 DEF Expected
      <3> QED
        BY <3>2, <3>3
    <2>4. \A t \in Tasks : task'[t] = task[t] => PeerOK(t)'
      BY <1>1, <2>1, <2>3 DEF PeerOK, Expected
    <2>5. \A t \in Tasks : PeerOK(t)'
      <3>1. CASE UNCHANGED <<task, dtls_map>>
        BY <2>4, <3>1
      <3>2. CASE ~UNCHANGED <<task, dtls_map>>
        <4> DEFINE q == <<>>
        <4>1. q \in Seq(Datagrams) /\ Len(q) <= Capacity /\ StartHandshake(addr[k], k, q)
          BY <1>4, <3>2, BindingEffect
        <4> HIDE DEF q
        <4>2. PICK s \in Tasks :
                /\ \A r \in Tasks \ {s} : task'[r] = task[r]
                /\ task'[s].addr = addr[k] /\ task'[s].for = k /\ task'[s].phase = "handshake"
                /\ task'[s].heard = 0 /\ task'[s].queue = q
          BY <2>1, <4>1, StartEffect
        <4>3. latched'[addr[k]] = k
          BY <2>1 DEF TypeOK
        <4>4. PeerOK(s)'
          BY <4>2, <4>3 DEF PeerOK, Expected, q
        <4> QED
          BY <2>4, <4>2, <4>4
      <3> QED
        BY <3>1, <3>2
    <2> HIDE DEF Fresh
    <2> QED
      BY <1>0, <2>1, <2>2, <2>5
  <1>5. CASE Inject
    <2>1. injecting' = None /\ overtaken' = overtaken
      BY <1>5 DEF Inject
    <2>2. Fresh'
      BY <2>1
    <2> HIDE DEF Fresh
    <2> QED
      BY <1>0, <1>5, <2>1, <2>2, InjectKeepsPeer
  <1>6. CASE InjectAnew
    <2>1. injecting' = None /\ overtaken' = overtaken /\ latched' = latched
      BY <1>6 DEF InjectAnew
    <2>2. Fresh'
      BY <2>1
    <2>3. \A t \in Tasks : task'[t] = task[t] => PeerOK(t)'
      BY <1>1, <2>1 DEF PeerOK, Expected
    <2>4. \A t \in Tasks : PeerOK(t)'
      <3>1. CASE UNCHANGED <<task, dtls_map>>
        BY <2>3, <3>1
      <3>2. CASE ~UNCHANGED <<task, dtls_map>>
        <4> DEFINE a == injecting.at
                   k == latched[a]
                   q == <<injecting>>
        <4>1. /\ a \in Addrs /\ k \in Clients
              /\ q \in Seq(Datagrams) /\ Len(q) <= Capacity
              /\ StartHandshake(a, k, q)
          BY <1>6, <3>2, InjectAnewEffect
        <4>2. injecting # None /\ injecting.op = "flight" => k = injecting.from
          BY DEF PeersOK
        <4>3. injecting # None
          BY <1>6 DEF InjectAnew
        <4> HIDE DEF k, a, q
        <4>4. PICK s \in Tasks :
                /\ \A r \in Tasks \ {s} : task'[r] = task[r]
                /\ task'[s].addr = a /\ task'[s].for = k /\ task'[s].phase = "handshake"
                /\ task'[s].heard = 0 /\ task'[s].queue = q
          BY <4>1, StartEffect
        <4>5. latched'[a] = k
          BY <2>1 DEF k
        <4>6. PeerOK(s)'
          BY <4>2, <4>3, <4>4, <4>5 DEF PeerOK, Expected, q
        <4> QED
          BY <2>3, <4>4, <4>6
      <3> QED
        BY <3>1, <3>2
    <2> HIDE DEF Fresh
    <2> QED
      BY <1>0, <2>1, <2>2, <2>4
  <1>7. CASE RemoveStale \/ UNCHANGED vars
    <2>1. UNCHANGED <<task, latched, overtaken, injecting>>
      BY <1>7 DEF RemoveStale, vars
    <2>2. Fresh'
      BY <1>1, <2>1
    <2> HIDE DEF Fresh
    <2> QED
      BY <1>0, <1>2, <2>1, <2>2
  <1>8. ASSUME NEW t \in Tasks, TaskStep(t) PROVE PeersOK' /\ overtaken \subseteq overtaken'
    <2>1. UNCHANGED <<latched, injecting, overtaken>>
      BY <1>8, TaskStepFrame
    <2>2. Fresh'
      BY <1>1, <2>1
    <2> HIDE DEF Fresh
    <2> QED
      BY <1>0, <1>8, <2>1, <2>2, TaskStepKeepsPeer
  <1> QED
    BY <1>3, <1>4, <1>5, <1>6, <1>7, <1>8 DEF Next
-----------------------------------------------------------------------------
\* Which steps install keys and start egress tasks.
LEMMA InstallFrame ==
    ASSUME [Next]_vars
    PROVE  \/ UNCHANGED <<keys, egress_rx, egress>>
           \/ \E t \in Tasks : InstallKeys(t) \/ SpawnEgress(t)
  <1>1. ASSUME NEW t \in Tasks, TaskStep(t)
        PROVE  UNCHANGED <<keys, egress_rx, egress>> \/ InstallKeys(t) \/ SpawnEgress(t)
    BY <1>1 DEF TaskStep, Read, Accept, Abandon, ExportFails, install
  <1>2. ASSUME NEW k \in Clients,
               \/ Begin(k) \/ SendFlight(k) \/ LateFlight(k) \/ Close(k)
               \/ \E a \in Addrs : Move(k, a)
               \/ \E use_candidate \in BOOLEAN : Binding(k, use_candidate)
        PROVE  UNCHANGED <<keys, egress_rx, egress>>
    BY <1>2 DEF Begin, SendFlight, LateFlight, Close, Move, Binding, install
  <1>3. CASE Inject \/ InjectAnew \/ RemoveStale \/ UNCHANGED vars
    BY <1>3 DEF Inject, InjectAnew, RemoveStale, install, vars
  <1> QED
    BY <1>1, <1>2, <1>3 DEF Next

\* Keys are installed only where a handshake's peer was expected.
LEMMA KeysStep ==
    ASSUME TypeOK, MapOK, PeersOK, KeysAreTheClients, [Next]_vars
    PROVE  KeysAreTheClients'
  <1>1. overtaken \subseteq overtaken'
    BY PeersStep
  <1>2. CASE keys' = keys
    BY <1>1, <1>2 DEF KeysAreTheClients
  <1>3. ASSUME NEW t \in Tasks, InstallKeys(t) PROVE KeysAreTheClients'
    <2>1. /\ task[t].phase = "keys" /\ task[t].for \in Clients
          /\ keys' = [keys EXCEPT ![task[t].for] = task[t].with]
      BY <1>3 DEF InstallKeys, In, MapOK, Live
    <2>2. Expected(task[t].for, task[t].with)
      BY <2>1 DEF PeersOK
    <2>3. ASSUME NEW k \in Clients PROVE keys'[k] \in {None, k} \/ <<k, keys'[k]>> \in overtaken'
      <3>1. CASE k = task[t].for
        BY <1>1, <2>1, <2>2, <3>1 DEF Expected, TypeOK
      <3>2. CASE k # task[t].for
        <4>1. keys'[k] = keys[k]
          BY <2>1, <3>2 DEF TypeOK
        <4> QED
          BY <1>1, <4>1 DEF KeysAreTheClients
      <3> QED
        BY <3>1, <3>2
    <2> QED
      BY <2>3 DEF KeysAreTheClients
  <1>4. ASSUME NEW t \in Tasks, SpawnEgress(t) PROVE keys' = keys
    BY <1>4 DEF SpawnEgress
  <1> QED
    BY <1>2, <1>3, <1>4, InstallFrame

\* A handshake that begins touches no task that lives.
LEMMA StartSpares ==
    ASSUME TypeOK, NEW a \in Addrs, NEW k \in Clients, NEW q \in Seq(Datagrams),
           Len(q) <= Capacity, StartHandshake(a, k, q), NEW t \in Tasks, Live(t)
    PROVE  task'[t] = task[t]
  BY StartEffect

\* A task that is about to start a subscriber's egress task does nothing else.
LEMMA EgressWaits ==
    ASSUME TypeOK, [Next]_vars, NEW t \in Tasks, task[t].phase = "egress"
    PROVE  SpawnEgress(t) \/ (task'[t].phase = "egress" /\ task'[t].for = task[t].for)
  <1>1. CASE task'[t] = task[t]
    BY <1>1
  <1>2. ASSUME NEW k \in Clients,
               \/ Begin(k) \/ SendFlight(k) \/ LateFlight(k) \/ Close(k)
               \/ \E a \in Addrs : Move(k, a)
        PROVE  task' = task
    BY <1>2 DEF Begin, SendFlight, LateFlight, Close, Move
  <1>3. ASSUME NEW k \in Clients, NEW use_candidate \in BOOLEAN, Binding(k, use_candidate)
        PROVE  task'[t] = task[t]
    <2>1. CASE UNCHANGED <<task, dtls_map>>
      BY <2>1
    <2>2. CASE ~UNCHANGED <<task, dtls_map>>
      BY <1>3, <2>2, BindingEffect, StartSpares DEF Live
    <2> QED
      BY <2>1, <2>2
  <1>4. ASSUME Inject PROVE task'[t].phase = task[t].phase /\ task'[t].for = task[t].for
    <2>1. PICK s \in Tasks, r \in TaskState : Live(s) /\ Goes(s, r) /\ r.phase = task[s].phase
      BY <1>4, InjectEffect
    <2>2. r.for = task[s].for
      BY <2>1, TaskFacts DEF Goes, Live
    <2> QED
      BY <2>1, <2>2, GoesEffect
  <1>5. ASSUME InjectAnew PROVE task'[t] = task[t]
    <2>1. CASE UNCHANGED <<task, dtls_map>>
      BY <2>1
    <2>2. CASE ~UNCHANGED <<task, dtls_map>>
      BY <1>5, <2>2, InjectAnewEffect, StartSpares DEF Live
    <2> QED
      BY <2>1, <2>2
  <1>6. CASE RemoveStale \/ UNCHANGED vars
    BY <1>1, <1>6 DEF RemoveStale, vars
  <1>7. ASSUME NEW s \in Tasks \ {t}, TaskStep(s) PROVE task'[t] = task[t]
    BY <1>7, TaskStepGoes, GoesEffect
  <1>8. ASSUME TaskStep(t)
        PROVE  SpawnEgress(t) \/ (task'[t].phase = "egress" /\ task'[t].for = task[t].for)
    <2>1. Read(t) \/ SpawnEgress(t)
      BY <1>8 DEF TaskStep, Accept, Abandon, InstallKeys, ExportFails, In
    <2>2. ASSUME Read(t) PROVE task'[t].phase = "egress" /\ task'[t].for = task[t].for
      <3>1. PICK r \in TaskState : Goes(t, r) /\ r.phase = "egress"
        BY <2>2, ReadEffect
      <3>2. r.for = task[t].for
        BY <3>1, TaskFacts DEF Goes
      <3> QED
        BY <3>1, <3>2, GoesEffect
    <2> QED
      BY <2>1, <2>2
  <1> QED
    BY <1>1, <1>2, <1>3, <1>4, <1>5, <1>6, <1>7, <1>8 DEF Next

\* Whoever takes a subscriber's receiver starts its egress task, and a key comes with a
\* task that will.
LEMMA EgressStep ==
    ASSUME TypeOK, MapOK, EgressOK, [Next]_vars
    PROVE  EgressOK'
  <1>1. ASSUME UNCHANGED <<keys, egress_rx, egress>>,
               \A t \in Tasks : ~SpawnEgress(t)
        PROVE  EgressOK'
    BY <1>1, EgressWaits DEF EgressOK
  <1>2. ASSUME NEW t \in Tasks, InstallKeys(t) PROVE EgressOK'
    <2>1. /\ task[t].phase = "keys" /\ task[t].for \in Clients
          /\ keys' = [keys EXCEPT ![task[t].for] = task[t].with]
          /\ UNCHANGED <<egress_rx, egress>>
          /\ Enter(t, IF task[t].for \in Subscribers THEN "egress" ELSE "open")
      BY <1>2 DEF InstallKeys, In, MapOK, Live
    <2>2. task[t].for \in Subscribers => task'[t].phase = "egress" /\ task'[t].for = task[t].for
      <3> SUFFICES ASSUME task[t].for \in Subscribers
                   PROVE  task'[t].phase = "egress" /\ task'[t].for = task[t].for
        OBVIOUS
      <3>1. PICK r \in TaskState : Goes(t, r) /\ r.phase = "egress" /\ r.for = task[t].for
        BY <2>1, EnterEffect
      <3> QED
        BY <3>1, GoesEffect
    <2>3. \A s \in Tasks : task[s].phase = "egress" =>
            task'[s].phase = "egress" /\ task'[s].for = task[s].for
      <3>1. \A s \in Tasks \ {t} : task'[s] = task[s]
        BY <1>2, TaskStepGoes, GoesEffect DEF TaskStep
      <3> QED
        BY <2>1, <3>1
    <2>4. ASSUME NEW k \in Clients, k \in Subscribers, keys'[k] # None, k \in egress_rx
          PROVE  \E s \in Tasks : task'[s].phase = "egress" /\ task'[s].for = k
      <3>1. CASE k = task[t].for
        BY <2>2, <2>4, <3>1
      <3>2. CASE k # task[t].for
        <4>1. keys[k] # None
          BY <2>1, <2>4, <3>2 DEF TypeOK
        <4> QED
          BY <2>3, <2>4, <4>1 DEF EgressOK
      <3> QED
        BY <3>1, <3>2
    <2> QED
      BY <2>1, <2>4 DEF EgressOK
  <1>3. ASSUME NEW t \in Tasks, SpawnEgress(t) PROVE EgressOK'
    <2> DEFINE j == task[t].for
    <2>1. /\ task[t].phase = "egress" /\ j \in Clients
          /\ keys' = keys /\ egress_rx' = egress_rx \ {j}
          /\ egress' = IF j \in egress_rx THEN [egress EXCEPT ![j] = @ + 1] ELSE egress
      BY <1>3 DEF SpawnEgress, In, MapOK, Live
    <2>2. \A s \in Tasks \ {t} : task'[s] = task[s]
      BY <1>3, TaskStepGoes, GoesEffect DEF TaskStep
    <2>3. ASSUME NEW k \in Clients
          PROVE  egress'[k] = IF k \in Subscribers \ egress_rx' THEN 1 ELSE 0
      <3>1. egress[k] = IF k \in Subscribers \ egress_rx THEN 1 ELSE 0
        BY DEF EgressOK
      <3> HIDE DEF j
      <3>2. CASE k = j /\ j \in egress_rx
        BY <2>1, <3>1, <3>2 DEF TypeOK
      <3>3. CASE ~(k = j /\ j \in egress_rx)
        BY <2>1, <3>1, <3>3 DEF TypeOK
      <3> QED
        BY <3>2, <3>3
    <2>4. ASSUME NEW k \in Clients, k \in Subscribers, keys'[k] # None, k \in egress_rx'
          PROVE  \E s \in Tasks : task'[s].phase = "egress" /\ task'[s].for = k
      <3>1. PICK s \in Tasks : task[s].phase = "egress" /\ task[s].for = k
        BY <2>1, <2>4 DEF EgressOK
      <3>2. s # t
        BY <2>1, <2>4, <3>1
      <3> QED
        BY <2>2, <3>1, <3>2
    <2> QED
      BY <2>3, <2>4 DEF EgressOK
  <1> QED
    BY <1>1, <1>2, <1>3, InstallFrame
-----------------------------------------------------------------------------
\* Before the first datagram there are neither sessions nor keys.
LEMMA InitInv == Init => IInv
  <1> SUFFICES ASSUME Init PROVE IInv
    OBVIOUS
  <1> USE DEF Init
  <1>1. TypeOK
    BY TaskFacts DEF TypeOK
  <1>2. \A t \in Tasks : task[t].phase = "ended" /\ task[t].heard = 0
    BY TaskFacts
  <1>3. MapOK /\ LiveSessionIsMapped
    BY <1>2 DEF MapOK, LiveSessionIsMapped, Live
  <1>4. PeersOK
    BY <1>2 DEF PeersOK
  <1>5. KeysAreTheClients /\ EgressOK
    BY DEF KeysAreTheClients, EgressOK
  <1> QED
    BY <1>1, <1>3, <1>4, <1>5 DEF IInv

\* No step of the clients, the worker and the tasks leaves the invariant.
LEMMA StepInv == IInv /\ [Next]_vars => IInv'
  BY TypeStep, MapStep, PeersStep, KeysStep, EgressStep DEF IInv

\* The invariant holds throughout.
LEMMA Invariance == Spec => []IInv
  BY InitInv, StepInv, PTL DEF Spec

\* The map, the tasks with their channels, the keys and the counts keep their types; no
\* channel holds more than its capacity.
THEOREM Types == Spec => []TypeOK
  BY Invariance, PTL DEF IInv

\* DtlsSessionMap never loses a session that lives: handle_stun and handle_dtls start a
\* handshake only at an address whose session is over, for any number of them.
THEOREM LiveSessions == Spec => []LiveSessionIsMapped
  BY Invariance, PTL DEF IInv

\* install_srtp_keys is given the keys of the client whose MediaSession it is, or of one
\* that was latched at the address before the handshake was over.
THEOREM Keys == Spec => []KeysAreTheClients
  BY Invariance, PTL DEF IInv

\* However many handshakes a subscriber completes, the first takes egress_rx and starts
\* the task, and no other does.
THEOREM EgressTasks == Spec => []OneEgressTask
  <1>1. IInv => OneEgressTask
    BY DEF IInv, EgressOK, OneEgressTask, TypeOK
  <1> QED
    BY <1>1, Invariance, PTL
=============================================================================
