---------------------------- MODULE SignalingProofs ----------------------------
(***************************************************************************)
(* Proofs about Signaling: its types, and that clients come to know who is  *)
(* in their room, which tracks there are and which are muted, and keep no   *)
(* track of someone who is gone.                                            *)
(*                                                                          *)
(* What a client knows is lost or gained by messages that were sent when    *)
(* the room looked different.  The invariants below say what a message that *)
(* is still in a mailbox says about the room now; they hold of a connection *)
(* from the moment its participant is made, before it has had any reply.    *)
(***************************************************************************)
EXTENDS Signaling, TLAPS

-----------------------------------------------------------------------------
\* What the tasks, the reaper and the room say of the participants they name.

Published(p) == track[p] # "none"
Stay(p, r, u) == made[p] # None /\ made[p].room = r /\ made[p].user = u

Placed ==
    /\ \A p, q \in Objects : made[q] # None /\ p < q => made[p] # None
    /\ \A r \in Rooms, u \in Users :
         participants[r][u] # None => Stay(participants[r][u], r, u)
    /\ \A p \in Objects : made[p] = None => track[p] = "none"

JoinTask(c) ==
    /\ Stay(task[c].who, task[c].room, user_id[c])
    /\ made[task[c].who].ws = c
    /\ \A q \in Objects : made[q] # None /\ made[q].ws = c => q <= task[c].who

TrackTask(c) ==
    /\ task[c].who \in Objects
    /\ Stay(task[c].who, task[c].room, user_id[c])
    /\ task[c].step # "add_track" => Published(task[c].who)

LeaveTask(c) ==
    /\ task[c].who \in Objects
    /\ Stay(task[c].who, task[c].room, user_id[c])
    /\ ~InRoom(task[c].who)

CleanupTask(c) ==
    /\ task[c].room \in Rooms
    /\ task[c].who # None => Stay(task[c].who, task[c].room, user_id[c])
    /\ task[c].lost => task[c].who # None /\ Published(task[c].who)
    /\ \A p \in task[c].told : made[p] # None

TaskFits(c) ==
    /\ task[c].step \in {"snapshot", "joined", "members"} => task[c].who \in Objects /\ JoinTask(c)
    /\ task[c].step \in {"add_track", "add", "muted", "unmuted"} => TrackTask(c)
    /\ task[c].step \in {"leave_tracks", "leave_left"} => LeaveTask(c)
    /\ task[c].step \in {"announce_tracks", "announce_left", "remove"} => CleanupTask(c)

TasksFit == \A c \in Conns : TaskFits(c)

ReapedAreGone == \A x \in reaper.reaped : made[x[1]] # None /\ ~InRoom(x[1])

\* Messages about tracks are about published ones, and of a removed participant at that
\* when they say so.
MailIsAboutTracks ==
    \A c \in Conns, q \in Objects : \A i \in Mail(c) :
        mailbox[c][i].about = q /\ mailbox[c][i].op \in {"add", "remove", "muted", "unmuted"} =>
            /\ Published(q)
            /\ mailbox[c][i].op = "remove" => AnnouncedGone(q)

Base == TypeOK /\ Placed /\ TasksFit /\ ReapedAreGone /\ MailIsAboutTracks

-----------------------------------------------------------------------------
\* Participant p is the one its connection is in a room with, from ROOM_JOIN on.
Serving(p) ==
    /\ InRoom(p)
    /\ Open(made[p].ws)
    /\ current_room[made[p].ws] = made[p].room
    /\ \A q \in Objects : made[q] # None /\ made[q].ws = made[p].ws => q <= p

\* A connection whose view is that of its present stay.
Replied(c) == task[c].step \notin {"snapshot", "joined", "members"}
Listed(c) == task[c].step # "snapshot"

\* TracksAreKnown, from the snapshot on.
TracksReach ==
    \A p, q \in Objects :
        /\ Serving(p) /\ Listed(made[p].ws)
        /\ q \in Members(made[p].room) /\ Others(p, q)
        /\ Published(q)
        /\ ~ToAnnounce("add", q) /\ ~AnnouncedGone(q)
        => KnowsTrack(made[p].ws, q)

\* The only participant of a connection that is in a room.
OnlyOne ==
    \A p, q \in Objects :
        Serving(p) /\ p \notin behind /\ InRoom(q) /\ made[q].ws = made[p].ws => q = p

\* The tracks that a client has been told of are tracks of its room.
InMyRoom(p, q) == Published(q) /\ made[q].room = made[p].room
TracksAreOfMyRoom ==
    \A p, q \in Objects : Serving(p) /\ p \notin behind =>
        /\ \A i \in Mail(made[p].ws) : mailbox[made[p].ws][i].about = q =>
             LET op == mailbox[made[p].ws][i].op IN
             /\ op \in {"add", "remove", "muted", "unmuted"} => InMyRoom(p, q)
             /\ op \in {"add", "muted", "unmuted"} => made[q].user # made[p].user
        /\ Listed(made[p].ws) /\ view[made[p].ws].tracks[q] # "unknown" =>
             InMyRoom(p, q) /\ made[q].user # made[p].user

\* Client c has been told of track q, and of its end only before it was told of it again.
Keeps(c, q) ==
    /\ (Listed(c) /\ view[c].tracks[q] # "unknown") \/ ToldAfter(c, 0, {"add"}, q)
    /\ \A i \in Mail(c) : mailbox[c][i] = Message("remove", q) => ToldAfter(c, i, {"add"}, q)

\* ... or a removal that will be read after anything that says otherwise.
Dropped(c, q) ==
    \/ Listed(c) /\ ~Keeps(c, q)
    \/ \E i \in Mail(c) : mailbox[c][i] = Message("remove", q) /\ ~ToldAfter(c, i, {"add"}, q)

KeptAreThere ==
    \A p, q \in Objects :
        Serving(p) /\ p \notin behind /\ Keeps(made[p].ws, q) =>
            InRoom(q) \/ ToAnnounceGone(q) \/ q \in unheard

\* Whom a cleanup has told of the end of a track has dropped it.
ToldHaveDropped ==
    \A c \in Conns, p, q \in Objects :
        /\ task[c].step \in {"announce_left", "remove"} /\ task[c].who = q /\ p \in task[c].told
        /\ Serving(p) /\ p \notin behind /\ Others(p, q) /\ q \notin unheard
        => Dropped(made[p].ws, q)

\* One update at a time, or the track is contended.
OneUpdateEach ==
    \A c \in Conns :
        LET q == task[c].who IN
        task[c].step \in {"muted", "unmuted"} /\ q \notin contended =>
            /\ track[q] = task[c].step
            /\ \A d \in Conns : task[d].step \in {"muted", "unmuted"} /\ task[d].who = q => d = c

HasHeard(c, q, m) ==
    \/ Listed(c) /\ view[c].tracks[q] = m /\ ~ToldAfter(c, 0, {"muted", "unmuted"}, q)
    \/ \E i \in Mail(c) : mailbox[c][i] = Message(m, q) /\ ~ToldAfter(c, i, {"muted", "unmuted"}, q)

HeardIsTrue ==
    \A p, q \in Objects, m \in {"muted", "unmuted"} :
        /\ Serving(p) /\ p \notin behind /\ q \notin contended
        /\ HasHeard(made[p].ws, q, m)
        => m = track[q] \/ Muting(q)

\* A stay of user u in room r is over, and this is still to be announced.
Ending(r, u) ==
    \/ \E c \in Conns : /\ task[c].step \in {"leave_tracks", "leave_left"}
                        /\ task[c].room = r /\ user_id[c] = u
    \/ \E x \in reaper.reaped : made[x[1]].room = r /\ made[x[1]].user = u

\* Whoever is in a room in spite of that has rejoined it.
RejoinedSince ==
    \A q \in Objects : InRoom(q) /\ Ending(made[q].room, made[q].user) => q \in rejoined

\* Whoever is here although a message says that its user has left has yet to be announced,
\* is being cleaned up or has rejoined.
Excused(q) ==
    \/ q \in rejoined
    \/ ToAnnounce("snapshot", q) \/ ToAnnounce("joined", q)
    \/ LostAnnounced(made[q].room, made[q].user)

\* A member whose end is in a mailbox, and not its return behind it, is excused.
LeftAreExcused ==
    \A p, q \in Objects :
        /\ Serving(p) /\ p \notin behind /\ q \in Members(made[p].room)
        /\ \E i \in Mail(made[p].ws) :
             /\ mailbox[made[p].ws][i] = Message("left", made[q].user)
             /\ ~ToldAfter(made[p].ws, i, {"joined"}, made[q].user)
        => Excused(q)

\* Nobody hears of its own end but from an earlier stay.
LeftMyselfIsExcused ==
    \A p \in Objects :
        /\ Serving(p) /\ p \notin behind
        /\ \E i \in Mail(made[p].ws) : mailbox[made[p].ws][i] = Message("left", made[p].user)
        => p \in rejoined

\* MembersAreKnown, from the reply to ROOM_JOIN on.
MembersReach ==
    \A p, q \in Objects :
        /\ Serving(p) /\ p \notin behind /\ Replied(made[p].ws)
        /\ q \in Members(made[p].room) /\ ~Excused(q)
        => KnowsMember(made[p].ws, made[q].user)
-----------------------------------------------------------------------------
(* Types. *)

USE SignalingAssumption DEF SignalingAssumption, Objects

LEMMA InitBase == Init => Base
  <1> SUFFICES ASSUME Init PROVE Base
    OBVIOUS
  <1>1. Idle \in TaskState /\ Idle.step = "idle"
    BY DEF Idle, TaskState, Steps
  <1>2. TypeOK
    BY <1>1 DEF Init, TypeOK, Resting, NothingKnown, ViewState, ReaperState
  <1>3. TasksFit
    BY <1>1 DEF Init, TasksFit, TaskFits
  <1>4. Placed /\ ReapedAreGone
    BY DEF Init, Placed, ReapedAreGone, Resting
  <1>5. MailIsAboutTracks
    BY DEF Init, MailIsAboutTracks, Mail
  <1> QED
    BY <1>2, <1>3, <1>4, <1>5 DEF Base

\* A broadcast appends its message to some of the mailboxes.
LEMMA BroadcastTypes ==
    ASSUME TypeOK, NEW r, NEW u, NEW m \in Messages, Broadcast(r, u, m)
    PROVE  mailbox' \in [Conns -> Seq(Messages)]
  BY DEF TypeOK, Broadcast

\* What a handler's task becomes when it goes on.
LEMMA ThenEntry ==
    ASSUME TypeOK, NEW c \in Conns, NEW step \in Steps, Then(c, step)
    PROVE  /\ task' \in [Conns -> TaskState]
           /\ \A d \in Conns \ {c} : task'[d] = task[d]
           /\ task'[c].step = step
           /\ step = "idle" => task'[c] = Idle
           /\ step # "idle" => /\ task'[c].room = task[c].room /\ task'[c].who = task[c].who
                              /\ task'[c].lost = task[c].lost /\ task'[c].told = task[c].told
  <1>1. Idle \in TaskState
    BY DEF Idle, TaskState, Steps
  <1>2. CASE step = "idle"
    <2>1. task' = [task EXCEPT ![c] = Idle]
      BY <1>2 DEF Then
    <2>2. Idle.step = "idle"
      BY DEF Idle
    <2> QED
      BY <1>1, <1>2, <2>1, <2>2 DEF TypeOK
  <1>3. CASE step # "idle"
    <2>1. task' = [task EXCEPT ![c] = [@ EXCEPT !.step = step]]
      BY <1>3 DEF Then
    <2>2. /\ task' = [task EXCEPT ![c] = task'[c]]
          /\ task'[c] = [task[c] EXCEPT !.step = step]
          /\ task[c] \in TaskState
      BY <2>1 DEF TypeOK
    <2>3. task'[c] \in TaskState
      BY <2>2 DEF TaskState
    <2> QED
      BY <1>3, <2>2, <2>3 DEF TypeOK, TaskState
  <1> QED
    BY <1>2, <1>3

\* What it becomes when a request is taken up that needs further sections.
LEMMA StepEntry ==
    ASSUME TypeOK, NEW c \in Conns, NEW step \in Steps, NEW r \in Rooms \cup {None},
           NEW p \in Objects \cup {None}, task' = [task EXCEPT ![c] = Step(step, r, p)]
    PROVE  /\ task' \in [Conns -> TaskState]
           /\ \A d \in Conns \ {c} : task'[d] = task[d]
           /\ task'[c].step = step /\ task'[c].room = r /\ task'[c].who = p
           /\ task'[c].lost = FALSE /\ task'[c].told = {}
  BY DEF TypeOK, Step, Idle, TaskState

\* The names by which the handlers know participants are those of participants.
LEMMA OwnTypes ==
    ASSUME TypeOK, NEW c \in Conns
    PROVE  /\ Own(c) \in Objects \cup {None}
           /\ Own(c) # None => /\ current_room[c] \in Rooms
                               /\ Own(c) = participants[current_room[c]][user_id[c]]
  BY DEF Own, TypeOK

LEMMA ToldTypes ==
    ASSUME NEW v \in ViewState, NEW m \in Messages
    PROVE  Told(v, m) \in ViewState
  <1>1. CASE m.op = "add"
    BY <1>1 DEF Told, Messages, ViewState
  <1>2. CASE m.op = "remove"
    BY <1>2 DEF Told, Messages, ViewState
  <1>3. CASE m.op \in {"muted", "unmuted"}
    BY <1>3 DEF Told, Messages, ViewState
  <1>4. CASE m.op = "joined"
    BY <1>4 DEF Told, Messages, ViewState
  <1>5. CASE m.op = "left"
    BY <1>5 DEF Told, Messages, ViewState
  <1> QED
    BY <1>1, <1>2, <1>3, <1>4, <1>5 DEF Messages

LEMMA TakeOutTypes ==
    ASSUME TypeOK, NEW r \in Rooms, NEW u \in Users, TakeOut(r, u)
    PROVE  /\ participants[r][u] \in Objects \cup {None}
           /\ participants' \in [Rooms -> [Users -> Objects \cup {None}]]
           /\ silent' \subseteq Objects
           /\ UNCHANGED <<made, track>>
  <1>1. participants' \in [Rooms -> [Users -> Objects \cup {None}]]
    BY DEF TypeOK, TakeOut
  <1>2. participants[r][u] \in Objects \cup {None}
    BY DEF TypeOK
  <1>3. silent' \subseteq Objects /\ UNCHANGED <<made, track>>
    BY DEF TypeOK, TakeOut
  <1> QED
    BY <1>1, <1>2, <1>3

\* What the reaper's round becomes.
LEMMA ReaperRemoveEntry ==
    ASSUME TypeOK, NEW u \in Users, NEW r \in Rooms, ReaperRemove(u, r)
    PROVE  /\ reaper' = [zombies |-> reaper'.zombies, reaped |-> reaper'.reaped]
           /\ reaper'.zombies \in SUBSET (Users \X Rooms)
           /\ reaper'.reaped \in SUBSET (Objects \X {"tracks", "left"})
           /\ reaper'.zombies = reaper.zombies \ {<<u, r>>}
           /\ reaper'.reaped = IF participants[r][u] = None THEN reaper.reaped
                              ELSE reaper.reaped \cup {<<participants[r][u], "tracks">>}
  <1> DEFINE R == IF participants[r][u] = None THEN reaper.reaped
                  ELSE reaper.reaped \cup {<<participants[r][u], "tracks">>}
             Z == reaper.zombies \ {<<u, r>>}
  <1>1. reaper' = [reaper EXCEPT !.zombies = Z, !.reaped = R]
    BY DEF ReaperRemove
  <1>2. participants[r][u] \in Objects \cup {None} /\ reaper \in ReaperState
    BY DEF TypeOK
  <1>3. R \in SUBSET (Objects \X {"tracks", "left"}) /\ Z \in SUBSET (Users \X Rooms)
    BY <1>2 DEF ReaperState
  <1> HIDE DEF R, Z
  <1>4. reaper' = [zombies |-> Z, reaped |-> R]
    BY <1>1, <1>2 DEF ReaperState
  <1> QED
    BY <1>3, <1>4 DEF R, Z

LEMMA ReaperAnnounceEntry ==
    ASSUME TypeOK, NEW p \in Objects, NEW n \in {"tracks", "left"}, ReaperAnnounce(p, n)
    PROVE  /\ reaper' = [zombies |-> reaper'.zombies, reaped |-> reaper'.reaped]
           /\ reaper'.zombies = reaper.zombies
           /\ reaper'.zombies \in SUBSET (Users \X Rooms)
           /\ reaper'.reaped \in SUBSET (Objects \X {"tracks", "left"})
           /\ reaper'.reaped = IF n = "tracks" THEN (reaper.reaped \ {<<p, n>>}) \cup {<<p, "left">>}
                              ELSE reaper.reaped \ {<<p, n>>}
  <1> DEFINE R == IF n = "tracks" THEN (reaper.reaped \ {<<p, n>>}) \cup {<<p, "left">>}
                  ELSE reaper.reaped \ {<<p, n>>}
  <1>1. reaper' = [reaper EXCEPT !.reaped = R]
    BY DEF ReaperAnnounce
  <1>2. reaper \in ReaperState
    BY DEF TypeOK
  <1>3. R \in SUBSET (Objects \X {"tracks", "left"})
    BY <1>2 DEF ReaperState
  <1> HIDE DEF R
  <1>4. reaper' = [zombies |-> reaper.zombies, reaped |-> R]
    BY <1>1, <1>2 DEF ReaperState
  <1> QED
    BY <1>2, <1>3, <1>4 DEF R, ReaperState

LEMMA TypesStep == Base /\ [Next]_vars => TypeOK'
  <1> SUFFICES ASSUME Base, [Next]_vars PROVE TypeOK'
    OBVIOUS
  <1> USE DEF Base, session, room, client, history
  <1>0. CASE UNCHANGED vars
    BY <1>0 DEF vars, TypeOK
  <1>1. ASSUME NEW c \in Conns, NEW u \in Users, Identify(c, u) PROVE TypeOK'
    BY <1>1 DEF Identify, Dispatch, TypeOK
  <1>2. ASSUME NEW c \in Conns, NEW r \in Rooms, RoomJoin(c, r) PROVE TypeOK'
    <2>1. PICK p \in Objects :
            /\ made' = [made EXCEPT ![p] = [user |-> user_id[c], room |-> r, ws |-> c]]
            /\ participants' = [participants EXCEPT ![r][user_id[c]] = p]
            /\ task' = [task EXCEPT ![c] = Step("snapshot", r, p)]
            /\ rejoined' \in {rejoined, rejoined \cup {p}}
            /\ behind' \in {behind, behind \cup {p}}
      BY <1>2 DEF RoomJoin
    <2>2. task' \in [Conns -> TaskState]
      BY <2>1, StepEntry DEF Steps
    <2>3. made' \in [Objects -> [user : Users, room : Rooms, ws : Conns] \cup {None}]
      BY <2>1 DEF TypeOK
    <2>4. participants' \in [Rooms -> [Users -> Objects \cup {None}]]
      BY <2>1 DEF TypeOK
    <2> QED
      BY <1>2, <2>1, <2>2, <2>3, <2>4 DEF RoomJoin, Dispatch, TypeOK
  <1>3. ASSUME NEW c \in Conns, NEW r \in Rooms, RoomLeave(c, r) PROVE TypeOK'
    <2>1. user_id[c] \in Users /\ TakeOut(r, user_id[c])
      BY <1>3 DEF RoomLeave, TypeOK
    <2>2. task' \in [Conns -> TaskState]
      BY <1>3, <2>1, TakeOutTypes, StepEntry DEF RoomLeave, Steps
    <2> QED
      BY <1>3, <2>1, <2>2, TakeOutTypes DEF RoomLeave, Dispatch, TypeOK
  <1>4. ASSUME NEW c \in Conns, PublishTracks(c) PROVE TypeOK'
    <2>1. task' \in [Conns -> TaskState]
      BY <1>4, StepEntry, OwnTypes DEF PublishTracks, Steps, TypeOK
    <2> QED
      BY <1>4, <2>1 DEF PublishTracks, Dispatch, TypeOK
  <1>5. ASSUME NEW c \in Conns, NEW m \in {"muted", "unmuted"}, MuteUpdate(c, m) PROVE TypeOK'
    <2>1. task' \in [Conns -> TaskState]
      BY <1>5, StepEntry, OwnTypes DEF MuteUpdate, Steps, TypeOK
    <2> QED
      BY <1>5, <2>1, OwnTypes DEF MuteUpdate, Dispatch, TypeOK
  <1>6. ASSUME NEW c \in Conns, Heartbeat(c) PROVE TypeOK'
    BY <1>6 DEF Heartbeat, TypeOK
  <1>7. ASSUME NEW c \in Conns, Disconnect(c) PROVE TypeOK'
    <2>1. Closed \in TaskState
      BY DEF Closed, Idle, TaskState, Steps
    <2>2. /\ current_room[c] \in Rooms \cup {None} /\ Own(c) \in Objects \cup {None}
      BY OwnTypes DEF TypeOK
    <2>3. [Step("announce_tracks", current_room[c], Own(c))
             EXCEPT !.lost = Own(c) # None /\ track[Own(c)] # "none"] \in TaskState
      BY <2>2 DEF Step, Idle, TaskState, Steps
    <2>4. task' \in [Conns -> TaskState]
      BY <1>7, <2>1, <2>3 DEF Disconnect, TypeOK
    <2>5. NothingKnown \in ViewState
      BY DEF NothingKnown, ViewState
    <2> QED
      BY <1>7, <2>4, <2>5 DEF Disconnect, Dispatch, TypeOK
  <1>8. ASSUME NEW c \in Conns, Snapshot(c) PROVE TypeOK'
    <2>1. view' \in [Conns -> ViewState]
      BY ZenonT(60), <1>8 DEF Snapshot, TypeOK, ViewState
    <2>2. task' \in [Conns -> TaskState]
      BY <1>8, ThenEntry DEF Snapshot, Steps
    <2> QED
      BY <1>8, <2>1, <2>2 DEF Snapshot, Continue, TypeOK
  <1>9. ASSUME NEW c \in Conns, AnnounceJoined(c) PROVE TypeOK'
    <2>1. Message("joined", user_id[c]) \in Messages
      BY DEF Message, Messages, TypeOK
    <2> QED
      BY <1>9, <2>1, ThenEntry, BroadcastTypes DEF AnnounceJoined, Continue, TypeOK, Steps
  <1>10. ASSUME NEW c \in Conns, ReplyJoined(c) PROVE TypeOK'
    <2>1. {made[p].user : p \in Members(task[c].room)} \subseteq Users
      BY DEF Members, TypeOK
    <2>2. view' \in [Conns -> ViewState]
      BY ZenonT(60), <1>10, <2>1 DEF ReplyJoined, TypeOK, ViewState
    <2>3. task' \in [Conns -> TaskState]
      BY <1>10, ThenEntry DEF ReplyJoined, Steps
    <2> QED
      BY <1>10, <2>2, <2>3 DEF ReplyJoined, Continue, TypeOK
  <1>11. ASSUME NEW c \in Conns, AddTrack(c) PROVE TypeOK'
    BY <1>11, ThenEntry DEF AddTrack, Continue, TypeOK, Steps
  <1>12. ASSUME NEW c \in Conns, AnnounceTrack(c) PROVE TypeOK'
    <2>1. task[c].who \in Objects
      BY <1>12 DEF AnnounceTrack, Continue, TasksFit, TaskFits, TrackTask
    <2>2. Message("add", task[c].who) \in Messages
      BY <2>1 DEF Message, Messages
    <2> QED
      BY <1>12, <2>1, <2>2, ThenEntry, BroadcastTypes DEF AnnounceTrack, Continue, TypeOK, Steps
  <1>13. ASSUME NEW c \in Conns, AnnounceMuted(c) PROVE TypeOK'
    <2>1. Message(task[c].step, task[c].who) \in Messages
      BY <1>13 DEF AnnounceMuted, TasksFit, TaskFits, TrackTask, Message, Messages
    <2> QED
      BY <1>13, <2>1, ThenEntry, BroadcastTypes DEF AnnounceMuted, TypeOK, Steps
  <1>14. ASSUME NEW c \in Conns, AnnounceLeaverTracks(c) PROVE TypeOK'
    <2>1. Message("remove", task[c].who) \in Messages
      BY <1>14 DEF AnnounceLeaverTracks, Continue, TasksFit, TaskFits, LeaveTask, Message, Messages
    <2> QED
      BY <1>14, <2>1, ThenEntry, BroadcastTypes DEF AnnounceLeaverTracks, Continue, TypeOK, Steps
  <1>15. ASSUME NEW c \in Conns, AnnounceLeaver(c) PROVE TypeOK'
    <2>1. Message("left", user_id[c]) \in Messages
      BY DEF Message, Messages, TypeOK
    <2>2. NothingKnown \in ViewState
      BY DEF NothingKnown, ViewState
    <2> QED
      BY <1>15, <2>1, <2>2, ThenEntry, BroadcastTypes DEF AnnounceLeaver, Continue, TypeOK, Steps
  <1>16. ASSUME NEW c \in Conns, AnnounceLostTracks(c) PROVE TypeOK'
    <2>1. task[c].lost => Message("remove", task[c].who) \in Messages
      BY <1>16 DEF AnnounceLostTracks, Continue, TasksFit, TaskFits, CleanupTask, Message, Messages,
                   TypeOK, TaskState
    <2>2. mailbox' \in [Conns -> Seq(Messages)]
      BY <1>16, <2>1, BroadcastTypes DEF AnnounceLostTracks, TypeOK
    <2>3. /\ task' = [task EXCEPT ![c] = task'[c]]
          /\ task'[c] = [task[c] EXCEPT !.step = "announce_left",
                           !.told = IF task[c].lost THEN Members(task[c].room) ELSE {}]
          /\ task[c] \in TaskState
      BY <1>16 DEF AnnounceLostTracks, TypeOK
    <2>4. (IF task[c].lost THEN Members(task[c].room) ELSE {}) \in SUBSET Objects
      BY DEF Members
    <2>5. task'[c] \in TaskState
      BY <2>3, <2>4 DEF TaskState, Steps
    <2> QED
      BY <1>16, <2>2, <2>3, <2>5 DEF AnnounceLostTracks, Continue, TypeOK
  <1>17. ASSUME NEW c \in Conns, AnnounceLost(c) PROVE TypeOK'
    <2>1. Message("left", user_id[c]) \in Messages
      BY DEF Message, Messages, TypeOK
    <2> QED
      BY <1>17, <2>1, ThenEntry, BroadcastTypes DEF AnnounceLost, Continue, TypeOK, Steps
  <1>18. ASSUME NEW c \in Conns, RemoveLost(c) PROVE TypeOK'
    <2>1. Closed \in TaskState
      BY DEF Closed, Idle, TaskState, Steps
    <2>2. task[c].room \in Rooms
      BY <1>18 DEF RemoveLost, Continue, TasksFit, TaskFits, CleanupTask
    <2>3. TakeOut(task[c].room, user_id[c]) /\ user_id[c] \in Users
      BY <1>18 DEF RemoveLost, TypeOK
    <2>4. unheard' \subseteq Objects
      BY <1>18, <2>2, <2>3, TakeOutTypes DEF RemoveLost, TypeOK
    <2>5. task' \in [Conns -> TaskState]
      BY <1>18, <2>1 DEF RemoveLost, TypeOK
    <2> QED
      BY <1>18, <2>2, <2>3, <2>4, <2>5, TakeOutTypes DEF RemoveLost, Continue, TypeOK
  <1>19. ASSUME NEW c \in Conns, Deliver(c) PROVE TypeOK'
    <2>1. mailbox[c] \in Seq(Messages) /\ mailbox[c] # <<>> /\ Head(mailbox[c]) \in Messages
      BY <1>19 DEF Deliver, TypeOK
    <2>2. Told(view[c], Head(mailbox[c])) \in ViewState
      BY <2>1, ToldTypes DEF TypeOK
    <2> QED
      BY <1>19, <2>1, <2>2 DEF Deliver, TypeOK
  <1>20. ASSUME NEW p \in Objects, MissHeartbeats(p) \/ Expire(p) \/ MediaTouch(p) PROVE TypeOK'
    <2>1. CASE MissHeartbeats(p)
      BY <2>1 DEF MissHeartbeats, TypeOK
    <2>2. CASE Expire(p)
      BY <2>2 DEF Expire, TypeOK
    <2>3. CASE MediaTouch(p)
      BY <2>3 DEF MediaTouch, TypeOK
    <2> QED
      BY <1>20, <2>1, <2>2, <2>3
  <1>21. ASSUME NEW r \in Rooms, ReaperJudge(r) PROVE TypeOK'
    BY <1>21 DEF ReaperJudge, TypeOK, ReaperState
  <1>22. ASSUME NEW u \in Users, NEW r \in Rooms, ReaperRemove(u, r) PROVE TypeOK'
    <2>1. TakeOut(r, u)
      BY <1>22 DEF ReaperRemove
    <2>2. reaper' \in ReaperState
      <3>1. TypeOK
        OBVIOUS
      <3>2. /\ reaper' = [zombies |-> reaper'.zombies, reaped |-> reaper'.reaped]
            /\ reaper'.zombies \in SUBSET (Users \X Rooms)
            /\ reaper'.reaped \in SUBSET (Objects \X {"tracks", "left"})
        BY <1>22, <3>1, ReaperRemoveEntry
      <3> QED
        BY <3>2 DEF ReaperState
    <2> QED
      BY <1>22, <2>1, <2>2, TakeOutTypes DEF ReaperRemove, TypeOK
  <1>23. ASSUME NEW p \in Objects, NEW n \in {"tracks", "left"}, ReaperAnnounce(p, n) PROVE TypeOK'
    <2>1. made[p] # None
      BY <1>23 DEF ReaperAnnounce, ReapedAreGone
    <2>2. Message("remove", p) \in Messages /\ Message("left", made[p].user) \in Messages
      BY <2>1 DEF Message, Messages, TypeOK
    <2>3. mailbox' \in [Conns -> Seq(Messages)]
      BY <1>23, <2>2, BroadcastTypes DEF ReaperAnnounce, TypeOK
    <2>4. reaper' \in ReaperState
      <3>1. TypeOK
        OBVIOUS
      <3>2. /\ reaper' = [zombies |-> reaper'.zombies, reaped |-> reaper'.reaped]
            /\ reaper'.zombies \in SUBSET (Users \X Rooms)
            /\ reaper'.reaped \in SUBSET (Objects \X {"tracks", "left"})
        BY <1>23, <3>1, ReaperAnnounceEntry
      <3> QED
        BY <3>2 DEF ReaperState
    <2> QED
      BY <1>23, <2>3, <2>4 DEF ReaperAnnounce, TypeOK
  <1> QED
    BY <1>0, <1>1, <1>2, <1>3, <1>4, <1>5, <1>6, <1>7, <1>8, <1>9, <1>10, <1>11, <1>12, <1>13,
       <1>14, <1>15, <1>16, <1>17, <1>18, <1>19, <1>20, <1>21, <1>22, <1>23
       DEF Next, Request, ConnectionStep, ReaperStep

-----------------------------------------------------------------------------
(* What a step may change, and which actions change it. *)

\* The requests that need further sections, and those sections.
Takes(c) ==
    \/ \E r \in Rooms : RoomJoin(c, r) \/ RoomLeave(c, r)
    \/ PublishTracks(c) \/ \E m \in {"muted", "unmuted"} : MuteUpdate(c, m)
    \/ Disconnect(c)
    \/ ConnectionStep(c)

LEMMA TaskMoves ==
    ASSUME Base, [Next]_vars, NEW d \in Conns, task'[d] # task[d]
    PROVE  Takes(d)
  <1>1. UNCHANGED task \/ \E c \in Conns : Takes(c)
    BY DEF Next, Request, ReaperStep, Takes, Identify, Heartbeat, Deliver,
       MissHeartbeats, Expire, MediaTouch, ReaperJudge, ReaperRemove, ReaperAnnounce, vars
  <1>2. PICK c \in Conns : Takes(c)
    BY <1>1
  <1>3. task' = [task EXCEPT ![c] = task'[c]]
    BY <1>2 DEF Base, Takes, ConnectionStep, RoomJoin, RoomLeave, PublishTracks, MuteUpdate, Disconnect,
         Snapshot, AnnounceJoined, ReplyJoined, AddTrack, AnnounceTrack, AnnounceMuted,
         AnnounceLeaverTracks, AnnounceLeaver, AnnounceLostTracks, AnnounceLost, RemoveLost,
         Then, TypeOK
  <1> QED
    BY <1>2, <1>3 DEF Base, TypeOK

\* Which section a step names, and which step each section leads to.
LEMMA Sections ==
    ASSUME TypeOK, NEW c \in Conns, Takes(c)
    PROVE  \/ /\ task[c].step = "idle"
              /\ \/ \E r \in Rooms : RoomJoin(c, r) \/ RoomLeave(c, r)
                 \/ PublishTracks(c)
                 \/ \E m \in {"muted", "unmuted"} : MuteUpdate(c, m)
                 \/ Disconnect(c)
           \/ task[c].step = "snapshot" /\ Snapshot(c)
           \/ task[c].step = "joined" /\ AnnounceJoined(c)
           \/ task[c].step = "members" /\ ReplyJoined(c)
           \/ task[c].step = "add_track" /\ AddTrack(c)
           \/ task[c].step = "add" /\ AnnounceTrack(c)
           \/ task[c].step \in {"muted", "unmuted"} /\ AnnounceMuted(c)
           \/ task[c].step = "leave_tracks" /\ AnnounceLeaverTracks(c)
           \/ task[c].step = "leave_left" /\ AnnounceLeaver(c)
           \/ task[c].step = "announce_tracks" /\ AnnounceLostTracks(c)
           \/ task[c].step = "announce_left" /\ AnnounceLost(c)
           \/ task[c].step = "remove" /\ RemoveLost(c)
  <1>1. CASE \/ \E r \in Rooms : RoomJoin(c, r) \/ RoomLeave(c, r)
             \/ PublishTracks(c) \/ \E m \in {"muted", "unmuted"} : MuteUpdate(c, m)
             \/ Disconnect(c)
    <2>1. task[c] = Idle
      BY <1>1 DEF RoomJoin, RoomLeave, PublishTracks, MuteUpdate, Disconnect, Dispatch
    <2> QED
      BY <1>1, <2>1 DEF Idle
  <1>2. CASE ConnectionStep(c)
    BY <1>2 DEF ConnectionStep, Continue, Snapshot, AnnounceJoined, ReplyJoined, AddTrack,
         AnnounceTrack, AnnounceMuted, AnnounceLeaverTracks, AnnounceLeaver, AnnounceLostTracks,
         AnnounceLost, RemoveLost
  <1> QED
    BY <1>1, <1>2 DEF Takes

\* Participants come and go by these actions.
LEMMA RoomMoves ==
    ASSUME [Next]_vars
    PROVE  \/ UNCHANGED <<made, participants>>
           \/ \E c \in Conns, r \in Rooms : RoomJoin(c, r) \/ RoomLeave(c, r)
           \/ \E c \in Conns : RemoveLost(c)
           \/ \E u \in Users, r \in Rooms : ReaperRemove(u, r)
  BY ZenonT(60) DEF Next, Request, ReaperStep, ConnectionStep, Identify, PublishTracks, MuteUpdate,
         Heartbeat, Disconnect, Snapshot, AnnounceJoined, ReplyJoined, AddTrack, AnnounceTrack,
         AnnounceMuted, AnnounceLeaverTracks, AnnounceLeaver, AnnounceLostTracks, AnnounceLost,
         Deliver, MissHeartbeats, Expire, MediaTouch, ReaperJudge, ReaperAnnounce, vars, room

LEMMA TrackMoves ==
    ASSUME [Next]_vars
    PROVE  \/ UNCHANGED track
           \/ \E c \in Conns : AddTrack(c)
           \/ \E c \in Conns, m \in {"muted", "unmuted"} : MuteUpdate(c, m)
  BY ZenonT(60) DEF Next, Request, ReaperStep, ConnectionStep, Identify, PublishTracks, RoomJoin, RoomLeave,
         Heartbeat, Disconnect, Snapshot, AnnounceJoined, ReplyJoined, AnnounceTrack, RemoveLost,
         AnnounceMuted, AnnounceLeaverTracks, AnnounceLeaver, AnnounceLostTracks, AnnounceLost,
         Deliver, MissHeartbeats, Expire, MediaTouch, ReaperJudge, ReaperRemove, ReaperAnnounce,
         vars, room, TakeOut

LEMMA ReaperMoves ==
    ASSUME [Next]_vars
    PROVE  \/ UNCHANGED reaper
           \/ \E r \in Rooms : ReaperJudge(r)
           \/ \E u \in Users, r \in Rooms : ReaperRemove(u, r)
           \/ \E p \in Objects, n \in {"tracks", "left"} : ReaperAnnounce(p, n)
  BY ZenonT(60) DEF Next, Request, ReaperStep, ConnectionStep, Identify, PublishTracks, RoomJoin, RoomLeave,
         Heartbeat, Disconnect, Snapshot, AnnounceJoined, ReplyJoined, AddTrack, AnnounceTrack,
         AnnounceMuted, AnnounceLeaverTracks, AnnounceLeaver, AnnounceLostTracks, AnnounceLost,
         RemoveLost, MuteUpdate, Deliver, MissHeartbeats, Expire, MediaTouch, vars

LEMMA SessionMoves ==
    ASSUME TypeOK, [Next]_vars, NEW c \in Conns
    PROVE  /\ user_id'[c] # user_id[c] => \E u \in Users : Identify(c, u)
           /\ current_room'[c] # current_room[c] =>
                \/ AnnounceLeaver(c)
                \/ \E r \in Rooms : RoomJoin(c, r) /\ current_room'[c] = r
  <1>1. \/ UNCHANGED session
        \/ \E d \in Conns, u \in Users : Identify(d, u)
        \/ \E d \in Conns : AnnounceLeaver(d)
        \/ \E d \in Conns, r \in Rooms : RoomJoin(d, r)
    BY ZenonT(60) DEF Next, Request, ReaperStep, ConnectionStep, PublishTracks, RoomLeave,
         Heartbeat, Disconnect, Snapshot, AnnounceJoined, ReplyJoined, AddTrack, AnnounceTrack,
         AnnounceMuted, AnnounceLeaverTracks, AnnounceLostTracks, AnnounceLost,
         RemoveLost, MuteUpdate, Deliver, MissHeartbeats, Expire, MediaTouch, ReaperJudge,
         ReaperRemove, ReaperAnnounce, vars, session
  <1>2. CASE UNCHANGED session
    BY <1>2 DEF session
  <1>3. ASSUME NEW d \in Conns, NEW u \in Users, Identify(d, u)
        PROVE  (user_id'[c] # user_id[c] => c = d) /\ current_room'[c] = current_room[c]
    BY <1>3 DEF Identify, TypeOK
  <1>4. ASSUME NEW d \in Conns, AnnounceLeaver(d)
        PROVE  user_id'[c] = user_id[c] /\ (current_room'[c] # current_room[c] => c = d)
    BY <1>4 DEF AnnounceLeaver, TypeOK
  <1>5. ASSUME NEW d \in Conns, NEW r \in Rooms, RoomJoin(d, r)
        PROVE  /\ user_id'[c] = user_id[c]
               /\ current_room'[c] # current_room[c] => c = d /\ current_room'[c] = r
    BY <1>5 DEF RoomJoin, TypeOK
  <1> QED
    BY <1>1, <1>2, <1>3, <1>4, <1>5

\* What ROOM_JOIN makes.
LEMMA JoinFacts ==
    ASSUME TypeOK, NEW c \in Conns, NEW r \in Rooms, RoomJoin(c, r)
    PROVE  \E p \in Objects :
             /\ made[p] = None /\ \A q \in Objects : q < p => made[q] # None
             /\ made'[p] = [user |-> user_id[c], room |-> r, ws |-> c] /\ made'[p] # None
             /\ \A q \in Objects \ {p} : made'[q] = made[q]
             /\ participants[r][user_id[c]] = None
             /\ participants' = [participants EXCEPT ![r][user_id[c]] = p]
             /\ task[c] = Idle
             /\ task' = [task EXCEPT ![c] = Step("snapshot", r, p)]
             /\ task'[c].step = "snapshot" /\ task'[c].room = r /\ task'[c].who = p
             /\ \A d \in Conns \ {c} : task'[d] = task[d]
             /\ rejoined' = IF Announcing(r, user_id[c]) THEN rejoined \cup {p} ELSE rejoined
             /\ behind' = IF mailbox[c] # <<>> \/ \E q \in Objects : InRoom(q) /\ made[q].ws = c
                           THEN behind \cup {p} ELSE behind
  <1>1. PICK p \in Objects :
             /\ made[p] = None /\ \A q \in Objects : q < p => made[q] # None
             /\ made' = [made EXCEPT ![p] = [user |-> user_id[c], room |-> r, ws |-> c]]
             /\ participants' = [participants EXCEPT ![r][user_id[c]] = p]
             /\ task' = [task EXCEPT ![c] = Step("snapshot", r, p)]
             /\ rejoined' = IF Announcing(r, user_id[c]) THEN rejoined \cup {p} ELSE rejoined
             /\ behind' = IF mailbox[c] # <<>> \/ \E q \in Objects : InRoom(q) /\ made[q].ws = c
                           THEN behind \cup {p} ELSE behind
    BY DEF RoomJoin
  <1>2. /\ made'[p] = [user |-> user_id[c], room |-> r, ws |-> c]
        /\ \A q \in Objects \ {p} : made'[q] = made[q]
    BY <1>1 DEF TypeOK
  <1>3. made'[p] # None
    BY <1>2 DEF TypeOK
  <1>4. /\ task'[c].step = "snapshot" /\ task'[c].room = r /\ task'[c].who = p
        /\ \A d \in Conns \ {c} : task'[d] = task[d]
    BY <1>1 DEF Step, Idle, TypeOK
  <1>5. task[c] = Idle /\ participants[r][user_id[c]] = None
    BY DEF RoomJoin, Dispatch
  <1> QED
    BY <1>1, <1>2, <1>3, <1>4, <1>5

\* Which section comes after which.
LEMMA NextSection ==
    ASSUME TypeOK, NEW c \in Conns, Takes(c)
    PROVE  \/ /\ task[c].step = "idle"
              /\ \/ (\E r \in Rooms : RoomJoin(c, r)) /\ task'[c].step = "snapshot"
                 \/ (\E r \in Rooms : RoomLeave(c, r)) /\ task'[c].step = "leave_tracks"
                 \/ PublishTracks(c) /\ task'[c].step = "add_track"
                 \/ \E m \in {"muted", "unmuted"} : MuteUpdate(c, m) /\ task'[c].step = m
                 \/ Disconnect(c) /\ task'[c].step \in {"closed", "announce_tracks"}
           \/ Snapshot(c) /\ task[c].step = "snapshot" /\ task'[c].step = "joined"
           \/ AnnounceJoined(c) /\ task[c].step = "joined" /\ task'[c].step = "members"
           \/ ReplyJoined(c) /\ task[c].step = "members" /\ task'[c].step = "idle"
           \/ AddTrack(c) /\ task[c].step = "add_track" /\ task'[c].step = "add"
           \/ AnnounceTrack(c) /\ task[c].step = "add" /\ task'[c].step = "idle"
           \/ AnnounceMuted(c) /\ task[c].step \in {"muted", "unmuted"} /\ task'[c].step = "idle"
           \/ AnnounceLeaverTracks(c) /\ task[c].step = "leave_tracks" /\ task'[c].step = "leave_left"
           \/ AnnounceLeaver(c) /\ task[c].step = "leave_left" /\ task'[c].step = "idle"
           \/ AnnounceLostTracks(c) /\ task[c].step = "announce_tracks" /\ task'[c].step = "announce_left"
           \/ AnnounceLost(c) /\ task[c].step = "announce_left" /\ task'[c].step = "remove"
           \/ RemoveLost(c) /\ task[c].step = "remove" /\ task'[c].step = "closed"
  <1>1. ASSUME NEW r \in Rooms
        PROVE  /\ RoomJoin(c, r) => task'[c].step = "snapshot"
               /\ RoomLeave(c, r) => task'[c].step = "leave_tracks"
    <2>1. RoomJoin(c, r) => task'[c].step = "snapshot"
      BY JoinFacts
    <2>2. RoomLeave(c, r) => task'[c].step = "leave_tracks"
      BY DEF RoomLeave, TypeOK, Step, Idle
    <2> QED
      BY <2>1, <2>2
  <1>2. PublishTracks(c) => task'[c].step = "add_track"
    BY DEF PublishTracks, TypeOK, Step, Idle
  <1>3. ASSUME NEW m \in {"muted", "unmuted"} PROVE MuteUpdate(c, m) => task'[c].step = m
    BY DEF MuteUpdate, TypeOK, Step, Idle
  <1>4. Disconnect(c) => task'[c].step \in {"closed", "announce_tracks"}
    BY DEF Disconnect, TypeOK, Closed, Idle, Step
  <1>5. /\ Snapshot(c) => task'[c].step = "joined"
        /\ AnnounceJoined(c) => task'[c].step = "members"
        /\ AddTrack(c) => task'[c].step = "add"
        /\ ReplyJoined(c) \/ AnnounceTrack(c) \/ AnnounceMuted(c) \/ AnnounceLeaver(c) =>
             task'[c].step = "idle"
        /\ AnnounceLeaverTracks(c) => task'[c].step = "leave_left"
        /\ AnnounceLost(c) => task'[c].step = "remove"
    BY ThenEntry DEF Snapshot, AnnounceJoined, ReplyJoined, AddTrack, AnnounceTrack,
       AnnounceMuted, AnnounceLeaver, AnnounceLeaverTracks, AnnounceLost, Steps
  <1>6. AnnounceLostTracks(c) => task'[c].step = "announce_left"
    BY DEF AnnounceLostTracks, TypeOK, TaskState
  <1>7. RemoveLost(c) => task'[c].step = "closed"
    BY DEF RemoveLost, TypeOK, Closed, Idle
  <1> QED
    BY <1>1, <1>2, <1>3, <1>4, <1>5, <1>6, <1>7, Sections

\* Whoever is taken out of a room is the one whose place it was.
LEMMA TakeOutFacts ==
    ASSUME TypeOK, Placed, NEW r \in Rooms, NEW u \in Users, TakeOut(r, u)
    PROVE  /\ UNCHANGED <<made, track>>
           /\ participants'[r][u] = None
           /\ \A p \in Objects : InRoom(p)' <=> InRoom(p) /\ p # participants[r][u]
           /\ \A p \in Objects : InRoom(p)' => ~(made[p].room = r /\ made[p].user = u)
  <1>1. /\ UNCHANGED <<made, track>>
        /\ participants' = [participants EXCEPT ![r][u] = None]
    BY DEF TakeOut
  <1>2. participants'[r][u] = None
    BY <1>1 DEF TypeOK
  <1>3. ASSUME NEW p \in Objects, made[p] # None
        PROVE  participants'[made[p].room][made[p].user] =
                 IF made[p].room = r /\ made[p].user = u THEN None
                 ELSE participants[made[p].room][made[p].user]
    BY <1>1, <1>3 DEF TypeOK
  <1>4. ASSUME NEW p \in Objects
        PROVE  /\ InRoom(p)' <=> InRoom(p) /\ p # participants[r][u]
               /\ InRoom(p)' => ~(made[p].room = r /\ made[p].user = u)
    BY <1>1, <1>3 DEF InRoom, Placed, Stay, TypeOK
  <1> QED
    BY <1>1, <1>2, <1>4

\* The three actions that take somebody out.
LEMMA Leavings ==
    ASSUME Base, [Next]_vars, ~UNCHANGED <<made, participants>>,
           ~\E c \in Conns, r \in Rooms : RoomJoin(c, r)
    PROVE  \E r \in Rooms, u \in Users : TakeOut(r, u)
  <1>1. ASSUME NEW c \in Conns, NEW r \in Rooms, RoomLeave(c, r)
        PROVE  user_id[c] \in Users /\ TakeOut(r, user_id[c])
    BY <1>1 DEF RoomLeave, Base, TypeOK
  <1>2. ASSUME NEW c \in Conns, RemoveLost(c)
        PROVE  user_id[c] \in Users /\ task[c].room \in Rooms /\ TakeOut(task[c].room, user_id[c])
    BY <1>2 DEF RemoveLost, Continue, Base, TypeOK, TasksFit, TaskFits, CleanupTask
  <1>3. ASSUME NEW u \in Users, NEW r \in Rooms, ReaperRemove(u, r)
        PROVE  TakeOut(r, u)
    BY <1>3 DEF ReaperRemove
  <1> QED
    BY <1>1, <1>2, <1>3, RoomMoves

\* Participants are made once and for all, do not come back once they are out of their room,
\* and keep their track.
LEMMA Lasting ==
    ASSUME Base, [Next]_vars, NEW p \in Objects, made[p] # None
    PROVE  /\ made'[p] = made[p]
           /\ InRoom(p)' => InRoom(p)
           /\ Published(p) => Published(p)'
  <1>1. Published(p) => Published(p)'
    <2>1. ASSUME NEW c \in Conns, AddTrack(c) PROVE Published(p) => Published(p)'
      BY <2>1 DEF AddTrack, Published, Base, TypeOK
    <2>2. ASSUME NEW c \in Conns, NEW m \in {"muted", "unmuted"}, MuteUpdate(c, m)
          PROVE  Published(p) => Published(p)'
      BY <2>2 DEF MuteUpdate, Published, Base, TypeOK
    <2> QED
      BY <2>1, <2>2, TrackMoves DEF Published
  <1>2. CASE UNCHANGED <<made, participants>>
    BY <1>1, <1>2 DEF InRoom
  <1>3. ASSUME NEW c \in Conns, NEW r \in Rooms, RoomJoin(c, r)
        PROVE  made'[p] = made[p] /\ (InRoom(p)' => InRoom(p))
    <2>1. PICK q \in Objects :
             /\ made[q] = None
             /\ made'[q] = [user |-> user_id[c], room |-> r, ws |-> c] /\ made'[q] # None
             /\ \A o \in Objects \ {q} : made'[o] = made[o]
             /\ participants' = [participants EXCEPT ![r][user_id[c]] = q]
      <3>1. TypeOK
        BY DEF Base
      <3> QED
        BY <1>3, <3>1, JoinFacts
    <2> QED
      BY <2>1 DEF InRoom, Base, TypeOK
  <1>4. ASSUME NEW r \in Rooms, NEW u \in Users, TakeOut(r, u)
        PROVE  made'[p] = made[p] /\ (InRoom(p)' => InRoom(p))
    BY <1>4, TakeOutFacts DEF Base
  <1> QED
    BY <1>1, <1>2, <1>3, <1>4, Leavings

\* Participant q is what connection c's ROOM_JOIN of room r makes.
Birth(c, r, q) ==
    /\ RoomJoin(c, r)
    /\ made[q] = None /\ \A p \in Objects : p < q => made[p] # None
    /\ made'[q] = [user |-> user_id[c], room |-> r, ws |-> c]
    /\ \A o \in Objects \ {q} : made'[o] = made[o]
    /\ participants[r][user_id[c]] = None
    /\ participants' = [participants EXCEPT ![r][user_id[c]] = q]
    /\ task[c] = Idle
    /\ task'[c].step = "snapshot" /\ task'[c].room = r /\ task'[c].who = q
    /\ \A d \in Conns \ {c} : task'[d] = task[d]
    /\ rejoined' = IF Announcing(r, user_id[c]) THEN rejoined \cup {q} ELSE rejoined
    /\ behind' = IF mailbox[c] # <<>> \/ \E o \in Objects : InRoom(o) /\ made[o].ws = c
                  THEN behind \cup {q} ELSE behind

\* Whoever is new has just joined.
LEMMA Born ==
    ASSUME Base, [Next]_vars, NEW q \in Objects, made[q] = None, made'[q] # None
    PROVE  \E c \in Conns, r \in Rooms : Birth(c, r, q)
  <1>1. ~UNCHANGED <<made, participants>> /\ ~\E r \in Rooms, u \in Users : TakeOut(r, u)
    BY DEF TakeOut
  <1>2. PICK c \in Conns, r \in Rooms : RoomJoin(c, r)
    BY <1>1, Leavings
  <1>3. TypeOK
    BY DEF Base
  <1>4. PICK p \in Objects :
             /\ made[p] = None /\ \A o \in Objects : o < p => made[o] # None
             /\ made'[p] = [user |-> user_id[c], room |-> r, ws |-> c] /\ made'[p] # None
             /\ \A o \in Objects \ {p} : made'[o] = made[o]
             /\ participants[r][user_id[c]] = None
             /\ participants' = [participants EXCEPT ![r][user_id[c]] = p]
             /\ task[c] = Idle
             /\ task' = [task EXCEPT ![c] = Step("snapshot", r, p)]
             /\ task'[c].step = "snapshot" /\ task'[c].room = r /\ task'[c].who = p
             /\ \A d \in Conns \ {c} : task'[d] = task[d]
             /\ rejoined' = IF Announcing(r, user_id[c]) THEN rejoined \cup {p} ELSE rejoined
             /\ behind' = IF mailbox[c] # <<>> \/ \E o \in Objects : InRoom(o) /\ made[o].ws = c
                           THEN behind \cup {p} ELSE behind
    BY <1>2, <1>3, JoinFacts
  <1>5. p = q
    BY <1>4
  <1> QED
    BY <1>2, <1>4, <1>5 DEF Birth

LEMMA PlacedStep == Base /\ [Next]_vars => Placed'
  <1> SUFFICES ASSUME Base, [Next]_vars PROVE Placed'
    OBVIOUS
  <1>1. ASSUME NEW p \in Objects, made'[p] = None PROVE track'[p] = "none"
    <2>1. made[p] = None /\ track[p] = "none"
      BY <1>1, Lasting DEF Base, Placed
    <2>2. ASSUME NEW c \in Conns, AddTrack(c) PROVE track'[p] = track[p]
      BY <2>1, <2>2 DEF AddTrack, Continue, Base, TasksFit, TaskFits, TrackTask, Stay, TypeOK
    <2>3. ASSUME NEW c \in Conns, NEW m \in {"muted", "unmuted"}, MuteUpdate(c, m)
          PROVE  track'[p] = track[p]
      BY <2>1, <2>3 DEF MuteUpdate, Base, TypeOK
    <2> QED
      BY <2>1, <2>2, <2>3, TrackMoves
  <1>3. ASSUME NEW p \in Objects, NEW q \in Objects, made'[q] # None, p < q
        PROVE  made'[p] # None
    <2>1. made[p] # None
      BY <1>3, Born DEF Base, Placed, Birth
    <2> QED
      BY <2>1, Lasting
  <1> DEFINE Stays(p, r, u) == made'[p] # None /\ made'[p].room = r /\ made'[p].user = u
  <1>2. ASSUME NEW r \in Rooms, NEW u \in Users, participants'[r][u] # None
        PROVE  Stays(participants'[r][u], r, u)
    <2>0. TypeOK
      BY DEF Base
    <2>1. participants[r][u] # None => participants[r][u] \in Objects /\ Stay(participants[r][u], r, u)
      BY DEF Base, Placed, TypeOK
    <2>2. CASE UNCHANGED <<made, participants>>
      BY <1>2, <2>1, <2>2 DEF Stay
    <2>3. ASSUME NEW c \in Conns, NEW s \in Rooms, RoomJoin(c, s)
          PROVE  Stays(participants'[r][u], r, u)
      <3>1. PICK q \in Objects :
               /\ made[q] = None
               /\ made'[q] = [user |-> user_id[c], room |-> s, ws |-> c] /\ made'[q] # None
               /\ \A o \in Objects \ {q} : made'[o] = made[o]
               /\ participants' = [participants EXCEPT ![s][user_id[c]] = q]
        BY <2>3, <2>0, JoinFacts
      <3>2. CASE r = s /\ u = user_id[c]
        BY <3>1, <3>2 DEF Base, TypeOK
      <3>3. CASE ~(r = s /\ u = user_id[c])
        <4>1. participants'[r][u] = participants[r][u]
          BY <3>1, <3>3 DEF Base, TypeOK
        <4> QED
          BY <1>2, <2>1, <3>1, <4>1 DEF Stay
      <3> QED
        BY <3>2, <3>3
    <2>4. ASSUME NEW s \in Rooms, NEW v \in Users, TakeOut(s, v)
          PROVE  Stays(participants'[r][u], r, u)
      <3>1. participants'[r][u] = participants[r][u] /\ UNCHANGED made
        BY <1>2, <2>4 DEF TakeOut, Base, TypeOK
      <3> QED
        BY <1>2, <2>1, <3>1 DEF Stay
    <2> QED
      BY <2>2, <2>3, <2>4, Leavings
  <1> QED
    BY <1>1, <1>2, <1>3 DEF Placed, Stay

\* What a task knows of its participant stays true while others act.
LEMMA TaskKeeps ==
    ASSUME Base, [Next]_vars, NEW c \in Conns, task'[c].who = task[c].who,
           task'[c].room = task[c].room, task[c] # Idle
    PROVE  /\ user_id'[c] = user_id[c]
           /\ task[c].who \in Objects /\ Stay(task[c].who, task[c].room, user_id[c]) =>
                /\ made'[task[c].who] = made[task[c].who]
                /\ Stay(task[c].who, task[c].room, user_id[c])'
                /\ Published(task[c].who) => Published(task[c].who)'
                /\ ~InRoom(task[c].who) => ~InRoom(task[c].who)'
           /\ \A q \in Objects : made'[q] # None /\ made'[q].ws = c =>
                made[q] # None /\ made[q].ws = c
  <1>1. user_id'[c] = user_id[c]
    BY SessionMoves DEF Identify, Dispatch, Base
  <1>2. ASSUME task[c].who \in Objects, Stay(task[c].who, task[c].room, user_id[c])
        PROVE  /\ made'[task[c].who] = made[task[c].who]
               /\ Stay(task[c].who, task[c].room, user_id[c])'
               /\ Published(task[c].who) => Published(task[c].who)'
               /\ ~InRoom(task[c].who) => ~InRoom(task[c].who)'
    <2> DEFINE p == task[c].who
    <2>1. made'[p] = made[p] /\ (InRoom(p)' => InRoom(p)) /\ (Published(p) => Published(p)')
      BY <1>2, Lasting DEF Stay
    <2> QED
      BY <1>1, <1>2, <2>1 DEF Stay, Published, InRoom
  <1>3. ASSUME NEW q \in Objects, made'[q] # None, made'[q].ws = c
        PROVE  made[q] # None /\ made[q].ws = c
    <2>1. CASE made[q] # None
      BY <1>3, <2>1, Lasting
    <2>2. CASE made[q] = None
      <3>1. PICK d \in Conns, r \in Rooms : Birth(d, r, q)
        BY <1>3, <2>2, Born
      <3> QED
        BY <1>3, <3>1 DEF Birth
    <2> QED
      BY <2>1, <2>2
  <1> QED
    BY <1>1, <1>2, <1>3

\* A handler that waits for its next section, or goes on to it within its kind.
LEMMA TaskGoesOn ==
    ASSUME Base, [Next]_vars, NEW c \in Conns, task[c] # Idle,
           task'[c].who = task[c].who, task'[c].room = task[c].room,
           task'[c].lost = task[c].lost, task'[c].told = task[c].told,
           \/ task'[c].step = task[c].step
           \/ {task[c].step, task'[c].step} \subseteq {"snapshot", "joined", "members"}
           \/ {task[c].step, task'[c].step} \subseteq {"leave_tracks", "leave_left"}
           \/ {task[c].step, task'[c].step} \subseteq {"announce_tracks", "announce_left", "remove"}
    PROVE  TaskFits(c)'
  <1>1. TaskFits(c)
    BY DEF TaskFits, Base, TasksFit
  <1>2. CASE task[c].step \in {"snapshot", "joined", "members"}
    BY <1>1, <1>2, TaskKeeps DEF TaskFits, JoinTask, Stay
  <1>3. CASE task[c].step \in {"add_track", "add", "muted", "unmuted"}
    BY <1>1, <1>3, TaskKeeps DEF TaskFits, TrackTask
  <1>4. CASE task[c].step \in {"leave_tracks", "leave_left"}
    BY <1>1, <1>4, TaskKeeps DEF TaskFits, LeaveTask
  <1>5. CASE task[c].step \in {"announce_tracks", "announce_left", "remove"}
    <2>1. \A p \in task[c].told : p \in Objects
      BY DEF Base, TypeOK, TaskState
    <2> QED
      BY <1>1, <1>5, <2>1, TaskKeeps, Lasting DEF TaskFits, CleanupTask, Base, TypeOK, TaskState
  <1>6. CASE task[c].step \in {"idle", "closed"}
    BY <1>6 DEF TaskFits
  <1> QED
    BY <1>2, <1>3, <1>4, <1>5, <1>6 DEF Base, TypeOK, TaskState, Steps

LEMMA TasksFitStep == Base /\ [Next]_vars => TasksFit'
  <1> SUFFICES ASSUME Base, [Next]_vars, NEW c \in Conns PROVE TaskFits(c)'
    BY DEF TasksFit
  <1>t. TypeOK /\ TypeOK' /\ Placed /\ Placed' /\ TaskFits(c)
    BY TypesStep, PlacedStep DEF Base, TasksFit
  <1>0. CASE task'[c] = task[c]
    <2>1. CASE task[c] = Idle
      BY <1>0, <2>1 DEF TaskFits, Idle
    <2> QED
      BY <1>0, <2>1, TaskGoesOn
  <1>1. ASSUME NEW r \in Rooms, RoomJoin(c, r) PROVE TaskFits(c)'
    <2>1. PICK p \in Objects :
             /\ made[p] = None
             /\ made'[p] = [user |-> user_id[c], room |-> r, ws |-> c] /\ made'[p] # None
             /\ \A q \in Objects \ {p} : made'[q] = made[q]
             /\ task'[c].step = "snapshot" /\ task'[c].room = r /\ task'[c].who = p
      BY <1>1, <1>t, JoinFacts
    <2>2. \A q \in Objects : made'[q] # None => q <= p
      BY <2>1, <1>t DEF Placed
    <2>3. user_id'[c] = user_id[c]
      BY <1>1 DEF RoomJoin
    <2> QED
      BY <2>1, <2>2, <2>3 DEF TaskFits, JoinTask, Stay
  <1>2. ASSUME NEW r \in Rooms, RoomLeave(c, r) PROVE TaskFits(c)'
    <2> DEFINE p == participants[r][user_id[c]]
    <2>1. user_id[c] \in Users /\ TakeOut(r, user_id[c]) /\ p # None /\ user_id' = user_id
      BY <1>2, <1>t DEF RoomLeave, TypeOK, session
    <2>2. p \in Objects /\ Stay(p, r, user_id[c]) /\ made' = made /\ participants'[r][user_id[c]] = None
      <3>1. p \in Objects /\ Stay(p, r, user_id[c])
        BY <2>1, <1>t DEF TypeOK, Placed
      <3>2. made' = made /\ participants'[r][user_id[c]] = None
        BY <2>1, <1>t, TakeOutFacts
      <3> QED
        BY <3>1, <3>2
    <2>3. "leave_tracks" \in Steps /\ r \in Rooms \cup {None} /\ p \in Objects \cup {None}
      BY <2>2 DEF Steps
    <2>4. task' = [task EXCEPT ![c] = Step("leave_tracks", r, p)]
      BY <1>2 DEF RoomLeave
    <2>5. task'[c].step = "leave_tracks" /\ task'[c].room = r /\ task'[c].who = p
      BY <2>4, <1>t DEF Step, Idle, TypeOK
    <2> QED
      BY <2>1, <2>2, <2>5 DEF TaskFits, LeaveTask, Stay, InRoom, Objects
  <1>3. ASSUME PublishTracks(c) PROVE TaskFits(c)'
    <2>1. /\ Own(c) \in Objects /\ current_room[c] \in Rooms
          /\ Own(c) = participants[current_room[c]][user_id[c]]
          /\ made' = made /\ user_id' = user_id
      BY <1>3, <1>t, OwnTypes DEF PublishTracks, session, room
    <2>2. Stay(Own(c), current_room[c], user_id[c])
      BY <2>1, <1>t DEF Placed, TypeOK
    <2>3. task'[c].step = "add_track" /\ task'[c].room = current_room[c] /\ task'[c].who = Own(c)
      BY <1>3, <1>t DEF PublishTracks, Step, Idle, TypeOK
    <2> QED
      BY <2>1, <2>2, <2>3 DEF TaskFits, TrackTask, Stay
  <1>4. ASSUME NEW m \in {"muted", "unmuted"}, MuteUpdate(c, m) PROVE TaskFits(c)'
    <2>1. /\ Own(c) \in Objects /\ current_room[c] \in Rooms
          /\ Own(c) = participants[current_room[c]][user_id[c]]
          /\ made' = made /\ user_id' = user_id
          /\ Published(Own(c))
      BY <1>4, <1>t, OwnTypes DEF MuteUpdate, session, Published
    <2>2. Stay(Own(c), current_room[c], user_id[c]) /\ track'[Own(c)] # "none"
      BY <1>4, <2>1, <1>t DEF Placed, TypeOK, MuteUpdate
    <2>3. task'[c].step = m /\ task'[c].room = current_room[c] /\ task'[c].who = Own(c)
      BY <1>4, <1>t DEF MuteUpdate, Step, Idle, TypeOK
    <2> QED
      BY <2>1, <2>2, <2>3 DEF TaskFits, TrackTask, Stay, Published
  <1>5. ASSUME AddTrack(c) PROVE TaskFits(c)'
    <2>1. /\ TrackTask(c) /\ made' = made /\ user_id' = user_id
          /\ task'[c].step = "add" /\ task'[c].who = task[c].who /\ task'[c].room = task[c].room
      BY <1>5, <1>t, ThenEntry DEF AddTrack, Continue, TaskFits, session, Steps
    <2>2. track'[task[c].who] # "none"
      BY <1>5, <2>1, <1>t DEF AddTrack, TrackTask, TypeOK
    <2> QED
      BY <2>1, <2>2 DEF TaskFits, TrackTask, Stay, Published
  <1>6. ASSUME Snapshot(c) \/ AnnounceJoined(c) \/ AnnounceLeaverTracks(c) \/ AnnounceLost(c)
        PROVE  TaskFits(c)'
    <2>1. \E step \in {"joined", "members", "leave_left", "remove"} :
            /\ Then(c, step)
            /\ \/ {task[c].step, step} \subseteq {"snapshot", "joined", "members"}
               \/ {task[c].step, step} \subseteq {"leave_tracks", "leave_left"}
               \/ {task[c].step, step} \subseteq {"announce_tracks", "announce_left", "remove"}
      BY <1>6 DEF Snapshot, AnnounceJoined, AnnounceLeaverTracks, AnnounceLost, Continue
    <2>2. task[c] # Idle
      BY <2>1 DEF Idle
    <2>3. /\ task'[c].who = task[c].who /\ task'[c].room = task[c].room
          /\ task'[c].lost = task[c].lost /\ task'[c].told = task[c].told
          /\ \/ {task[c].step, task'[c].step} \subseteq {"snapshot", "joined", "members"}
             \/ {task[c].step, task'[c].step} \subseteq {"leave_tracks", "leave_left"}
             \/ {task[c].step, task'[c].step} \subseteq {"announce_tracks", "announce_left", "remove"}
      BY <2>1, <1>t, ThenEntry DEF Steps
    <2> QED
      BY <2>2, <2>3, TaskGoesOn
  <1>7. ASSUME ReplyJoined(c) \/ AnnounceTrack(c) \/ AnnounceMuted(c) \/ AnnounceLeaver(c)
               \/ RemoveLost(c)
        PROVE  TaskFits(c)'
    <2>1. task'[c] \in {Idle, Closed}
      BY <1>7, <1>t DEF ReplyJoined, AnnounceTrack, AnnounceMuted, AnnounceLeaver, RemoveLost,
                        Then, TypeOK
    <2> QED
      BY <2>1 DEF TaskFits, Idle, Closed
  <1>8. ASSUME AnnounceLostTracks(c) PROVE TaskFits(c)'
    <2>1. /\ CleanupTask(c) /\ made' = made /\ user_id' = user_id /\ track' = track
          /\ task'[c] = [task[c] EXCEPT !.step = "announce_left",
                           !.told = IF task[c].lost THEN Members(task[c].room) ELSE {}]
          /\ task[c] \in TaskState
      BY <1>8, <1>t DEF AnnounceLostTracks, Continue, TaskFits, session, room, TypeOK
    <2>2. /\ task'[c].step = "announce_left" /\ task'[c].who = task[c].who
          /\ task'[c].room = task[c].room /\ task'[c].lost = task[c].lost
          /\ task'[c].told \subseteq Members(task[c].room)
      BY <2>1 DEF TaskState
    <2>3. \A p \in task'[c].told : made'[p] # None
      BY <2>1, <2>2 DEF Members
    <2> QED
      BY <2>1, <2>2, <2>3 DEF TaskFits, CleanupTask, Stay, Published
  <1>9. ASSUME Disconnect(c) PROVE TaskFits(c)'
    <2>1. CASE current_room[c] = None
      BY <1>9, <2>1, <1>t DEF Disconnect, TaskFits, Closed, Idle, TypeOK
    <2>2. CASE current_room[c] # None
      <3>1. /\ task'[c] = [Step("announce_tracks", current_room[c], Own(c))
                            EXCEPT !.lost = Own(c) # None /\ track[Own(c)] # "none"]
            /\ made' = made /\ user_id' = user_id /\ track' = track
        BY <1>9, <2>2, <1>t DEF Disconnect, session, room, TypeOK
      <3>2. /\ task'[c].step = "announce_tracks" /\ task'[c].who = Own(c)
            /\ task'[c].room = current_room[c] /\ task'[c].told = {}
            /\ task'[c].lost => Own(c) # None /\ Published(Own(c))
        BY <3>1 DEF Step, Idle, Published
      <3>3. current_room[c] \in Rooms
        BY <2>2, <1>t DEF TypeOK
      <3>4. Own(c) # None => Stay(Own(c), current_room[c], user_id[c])
        BY <3>3, <1>t DEF Placed, Own, TypeOK
      <3> QED
        BY <3>1, <3>2, <3>3, <3>4 DEF TaskFits, CleanupTask, Stay, Published
    <2> QED
      BY <2>1, <2>2
  <1> QED
    BY <1>0, <1>1, <1>2, <1>3, <1>4, <1>5, <1>6, <1>7, <1>8, <1>9, TaskMoves
       DEF Takes, ConnectionStep

\* What has been announced as gone stays so.
LEMMA GoneLasts ==
    ASSUME Base, [Next]_vars, NEW p \in Objects, made[p] # None, AnnouncedGone(p)
    PROVE  AnnouncedGone(p)'
  <1>1. CASE ~InRoom(p)
    BY <1>1, Lasting DEF AnnouncedGone
  <1>2. ASSUME NEW c \in Conns, task[c].who = p, task[c].step \in {"announce_left", "remove"}
        PROVE  AnnouncedGone(p)'
    <2>t. TypeOK /\ Placed /\ CleanupTask(c) /\ p # None
      BY <1>2 DEF Base, TasksFit, TaskFits
    <2>1. CASE task'[c] = task[c]
      BY <1>2, <2>1 DEF AnnouncedGone
    <2>2. CASE AnnounceLost(c)
      <3>1. task'[c].step = "remove" /\ task'[c].who = p
        BY <1>2, <2>2, <2>t, ThenEntry DEF AnnounceLost, Steps
      <3> QED
        BY <3>1 DEF AnnouncedGone
    <2>3. CASE RemoveLost(c)
      <3>1. /\ TakeOut(task[c].room, user_id[c]) /\ task[c].room \in Rooms /\ user_id[c] \in Users
            /\ made[p].room = task[c].room /\ made[p].user = user_id[c]
        BY <1>2, <2>3, <2>t DEF RemoveLost, CleanupTask, Stay, TypeOK
      <3>2. ~InRoom(p)'
        BY <3>1, <2>t, TakeOutFacts
      <3> QED
        BY <3>2 DEF AnnouncedGone
    <2> QED
      BY <1>2, <2>t, <2>1, <2>2, <2>3, TaskMoves, Sections
  <1> QED
    BY <1>1, <1>2 DEF AnnouncedGone

LEMMA ReapedStep == Base /\ [Next]_vars => ReapedAreGone'
  <1> SUFFICES ASSUME Base, [Next]_vars, NEW x \in reaper'.reaped
               PROVE  made'[x[1]] # None /\ ~InRoom(x[1])'
    BY DEF ReapedAreGone
  <1>t. TypeOK /\ Placed
    BY DEF Base
  <1>1. ASSUME x[1] \in Objects, made[x[1]] # None, ~InRoom(x[1])
        PROVE  made'[x[1]] # None /\ ~InRoom(x[1])'
    <2> DEFINE p == x[1]
    <2>1. p \in Objects /\ made'[p] = made[p] /\ (InRoom(p)' => InRoom(p))
      BY <1>1, Lasting
    <2> QED
      BY <1>1, <2>1 DEF InRoom
  <1>2. ASSUME NEW y \in reaper.reaped, y[1] = x[1]
        PROVE  made'[x[1]] # None /\ ~InRoom(x[1])'
    BY <1>1, <1>2 DEF Base, ReapedAreGone, TypeOK, ReaperState
  <1>3. ASSUME NEW u \in Users, NEW r \in Rooms, ReaperRemove(u, r)
        PROVE  made'[x[1]] # None /\ ~InRoom(x[1])'
    <2>1. CASE x \in reaper.reaped
      BY <1>2, <2>1
    <2>2. CASE x \notin reaper.reaped
      <3>1. /\ participants[r][u] # None /\ x = <<participants[r][u], "tracks">>
            /\ participants[r][u] \in Objects
        <4>1. reaper'.reaped = IF participants[r][u] = None THEN reaper.reaped
                               ELSE reaper.reaped \cup {<<participants[r][u], "tracks">>}
          BY <1>3, <1>t, ReaperRemoveEntry
        <4> QED
          BY <1>t, <2>2, <4>1 DEF TypeOK
      <3>2. PICK p \in Objects : p = participants[r][u]
        BY <3>1
      <3>3. Stay(p, r, u) /\ TakeOut(r, u)
        BY <1>3, <1>t, <3>1, <3>2 DEF ReaperRemove, Placed
      <3>4. made' = made /\ ~InRoom(p)'
        BY <1>t, <3>2, <3>3, TakeOutFacts
      <3> QED
        BY <3>1, <3>2, <3>3, <3>4 DEF Stay, InRoom
    <2> QED
      BY <2>1, <2>2
  <1>4. ASSUME NEW p \in Objects, NEW n \in {"tracks", "left"}, ReaperAnnounce(p, n)
        PROVE  made'[x[1]] # None /\ ~InRoom(x[1])'
    <2>1. <<p, n>> \in reaper.reaped
      BY <1>4 DEF ReaperAnnounce
    <2>2. CASE x \in reaper.reaped
      BY <1>2, <2>2
    <2>3. CASE x = <<p, "left">>
      BY <1>2, <2>1, <2>3
    <2> QED
      BY <1>4, <1>t, <2>2, <2>3, ReaperAnnounceEntry
  <1>5. CASE reaper'.reaped = reaper.reaped
    BY <1>2, <1>5
  <1>6. ASSUME NEW r \in Rooms, ReaperJudge(r) PROVE reaper'.reaped = reaper.reaped
    BY <1>6, <1>t DEF ReaperJudge, TypeOK, ReaperState
  <1> QED
    BY <1>3, <1>4, <1>5, <1>6, ReaperMoves

-----------------------------------------------------------------------------
(* Mail. *)

\* A step sends message m to those in room r who are not of user u.
Sends(r, u, m) ==
    \/ \E d \in Conns :
         /\ r = task[d].room
         /\ \/ AnnounceJoined(d) /\ u = user_id[d] /\ m = Message("joined", user_id[d])
            \/ AnnounceTrack(d) /\ u = user_id[d] /\ m = Message("add", task[d].who)
            \/ AnnounceMuted(d) /\ u = user_id[d] /\ m = Message(task[d].step, task[d].who)
            \/ AnnounceLeaverTracks(d) /\ Published(task[d].who)
               /\ u = None /\ m = Message("remove", task[d].who)
            \/ AnnounceLeaver(d) /\ u = None /\ m = Message("left", user_id[d])
            \/ AnnounceLostTracks(d) /\ task[d].lost
               /\ u = user_id[d] /\ m = Message("remove", task[d].who)
            \/ AnnounceLost(d) /\ u = user_id[d] /\ m = Message("left", user_id[d])
    \/ \E q \in Objects :
         /\ r = made[q].room /\ u = None
         /\ \/ ReaperAnnounce(q, "tracks") /\ Published(q) /\ m = Message("remove", q)
            \/ ReaperAnnounce(q, "left") /\ m = Message("left", made[q].user)

\* Connection c is sent message m.
Hears(c, m) ==
    /\ mailbox'[c] = Append(mailbox[c], m)
    /\ Open(c)
    /\ \E r \in Rooms \cup {None}, u \in Users \cup {None} :
         Sends(r, u, m) /\ \E p \in Members(r) : made[p].user # u /\ made[p].ws = c

\* The senders, with what they send.
LEMMA Senders ==
    ASSUME Base, [Next]_vars
    PROVE  \/ UNCHANGED mailbox
           \/ \E c \in Conns : Disconnect(c) \/ Deliver(c)
           \/ \E r \in Rooms \cup {None}, u \in Users \cup {None}, m \in Messages :
                Sends(r, u, m) /\ Broadcast(r, u, m)
  <1>t. TypeOK /\ TasksFit
    BY DEF Base
  <1> DEFINE Sent == \E r \in Rooms \cup {None}, u \in Users \cup {None}, m \in Messages :
                       Sends(r, u, m) /\ Broadcast(r, u, m)
  <1>1. ASSUME NEW d \in Conns
        PROVE  /\ user_id[d] \in Users \cup {None} /\ task[d].room \in Rooms \cup {None}
               /\ Message("joined", user_id[d]) \in Messages /\ Message("left", user_id[d]) \in Messages
    BY <1>t DEF TypeOK, TaskState, Message, Messages
  <1>2. ASSUME NEW d \in Conns, AnnounceJoined(d) PROVE Sent
    BY <1>1, <1>2 DEF Sends, AnnounceJoined
  <1>3. ASSUME NEW d \in Conns, AnnounceTrack(d) PROVE Sent
    <2>1. Message("add", task[d].who) \in Messages
      BY <1>3, <1>t DEF AnnounceTrack, Continue, TasksFit, TaskFits, TrackTask, Message, Messages
    <2> QED
      BY <1>1, <1>3, <2>1 DEF Sends, AnnounceTrack
  <1>4. ASSUME NEW d \in Conns, AnnounceMuted(d) PROVE Sent
    <2>1. Message(task[d].step, task[d].who) \in Messages
      BY <1>4, <1>t DEF AnnounceMuted, TasksFit, TaskFits, TrackTask, Message, Messages
    <2> QED
      BY <1>1, <1>4, <2>1 DEF Sends, AnnounceMuted
  <1>5. ASSUME NEW d \in Conns, AnnounceLeaverTracks(d) PROVE Sent \/ UNCHANGED mailbox
    <2>1. Message("remove", task[d].who) \in Messages
      BY <1>5, <1>t DEF AnnounceLeaverTracks, Continue, TasksFit, TaskFits, LeaveTask, Message, Messages
    <2> QED
      BY <1>1, <1>5, <2>1 DEF Sends, AnnounceLeaverTracks, Published
  <1>6. ASSUME NEW d \in Conns, AnnounceLeaver(d) PROVE Sent
    BY <1>1, <1>6 DEF Sends, AnnounceLeaver
  <1>7. ASSUME NEW d \in Conns, AnnounceLostTracks(d) PROVE Sent \/ UNCHANGED mailbox
    <2>1. task[d].lost => Message("remove", task[d].who) \in Messages
      BY <1>7, <1>t DEF AnnounceLostTracks, Continue, TasksFit, TaskFits, CleanupTask, Message,
                        Messages, TypeOK, TaskState
    <2> QED
      BY <1>1, <1>7, <2>1 DEF Sends, AnnounceLostTracks
  <1>8. ASSUME NEW d \in Conns, AnnounceLost(d) PROVE Sent
    BY <1>1, <1>8 DEF Sends, AnnounceLost
  <1>9. ASSUME NEW q \in Objects, NEW n \in {"tracks", "left"}, ReaperAnnounce(q, n)
        PROVE  Sent \/ UNCHANGED mailbox
    <2>1. made[q] # None
      BY <1>9 DEF ReaperAnnounce, Base, ReapedAreGone
    <2>2. /\ Message("remove", q) \in Messages /\ Message("left", made[q].user) \in Messages
          /\ made[q].room \in Rooms
      BY <2>1, <1>t DEF Message, Messages, TypeOK
    <2>3. CASE n = "tracks"
      BY <1>9, <2>2, <2>3 DEF Sends, ReaperAnnounce, Published
    <2>4. CASE n = "left"
      BY <1>9, <2>2, <2>4 DEF Sends, ReaperAnnounce
    <2> QED
      BY <2>3, <2>4
  <1>10. \/ UNCHANGED mailbox
         \/ \E c \in Conns :
              \/ Disconnect(c) \/ Deliver(c)
              \/ AnnounceJoined(c) \/ AnnounceTrack(c) \/ AnnounceMuted(c)
              \/ AnnounceLeaverTracks(c) \/ AnnounceLeaver(c)
              \/ AnnounceLostTracks(c) \/ AnnounceLost(c)
         \/ \E q \in Objects, n \in {"tracks", "left"} : ReaperAnnounce(q, n)
    BY ZenonT(60) DEF Next, Request, ReaperStep, ConnectionStep, Identify, PublishTracks, RoomJoin, RoomLeave,
         Heartbeat, Snapshot, ReplyJoined, AddTrack, RemoveLost, MuteUpdate,
         MissHeartbeats, Expire, MediaTouch, ReaperJudge, ReaperRemove, vars, client
  <1> QED
    BY <1>2, <1>3, <1>4, <1>5, <1>6, <1>7, <1>8, <1>9, <1>10

\* What happens to the mail and the view of a connection.
LEMMA ClientMoves ==
    ASSUME Base, [Next]_vars, NEW c \in Conns
    PROVE  \/ mailbox'[c] = mailbox[c] /\ view'[c] = view[c]
           \/ mailbox'[c] = mailbox[c] /\ (Snapshot(c) \/ ReplyJoined(c))
           \/ Disconnect(c) \/ Deliver(c)
           \/ AnnounceLeaver(c) /\ (mailbox'[c] = mailbox[c] \/ \E m \in Messages : Hears(c, m))
           \/ view'[c] = view[c] /\ \E m \in Messages : Hears(c, m)
  <1>t. TypeOK
    BY DEF Base
  <1>1. view'[c] # view[c] => \/ Snapshot(c) \/ ReplyJoined(c) \/ AnnounceLeaver(c)
                              \/ Disconnect(c) \/ Deliver(c)
    <2>1. \/ UNCHANGED view
          \/ \E d \in Conns : \/ Snapshot(d) \/ ReplyJoined(d) \/ AnnounceLeaver(d)
                              \/ Disconnect(d) \/ Deliver(d)
      BY ZenonT(60) DEF Next, Request, ReaperStep, ConnectionStep, Identify, PublishTracks, RoomJoin, RoomLeave,
         Heartbeat, AnnounceJoined, AddTrack, RemoveLost, MuteUpdate, AnnounceTrack, AnnounceMuted,
         AnnounceLeaverTracks, AnnounceLostTracks, AnnounceLost, ReaperAnnounce,
         MissHeartbeats, Expire, MediaTouch, ReaperJudge, ReaperRemove, vars, client
    <2>2. ASSUME NEW d \in Conns,
                 Snapshot(d) \/ ReplyJoined(d) \/ AnnounceLeaver(d) \/ Disconnect(d) \/ Deliver(d)
          PROVE  view'[c] # view[c] => c = d
      BY <2>2, <1>t DEF Snapshot, ReplyJoined, AnnounceLeaver, Disconnect, Deliver, TypeOK
    <2> QED
      BY <2>1, <2>2
  <1>2. (Snapshot(c) \/ ReplyJoined(c)) => mailbox'[c] = mailbox[c]
    BY DEF Snapshot, ReplyJoined
  <1>3. ASSUME NEW d \in Conns, Disconnect(d) \/ Deliver(d), d # c PROVE mailbox'[c] = mailbox[c]
    BY <1>3, <1>t DEF Disconnect, Deliver, TypeOK
  <1>4. ASSUME NEW r \in Rooms \cup {None}, NEW u \in Users \cup {None}, NEW m \in Messages,
               Sends(r, u, m), Broadcast(r, u, m)
        PROVE  mailbox'[c] = mailbox[c] \/ Hears(c, m)
    BY <1>4 DEF Broadcast, Hears
  <1> QED
    BY <1>1, <1>2, <1>3, <1>4, Senders

\* What each of these leaves in a mailbox.
LEMMA HeardMail ==
    ASSUME TypeOK, NEW c \in Conns, NEW m \in Messages, Hears(c, m)
    PROVE  /\ Len(mailbox[c]) \in Nat /\ Len(mailbox'[c]) = Len(mailbox[c]) + 1
           /\ \A i \in Mail(c) : mailbox'[c][i] = mailbox[c][i] /\ mailbox[c][i] \in Messages
           /\ mailbox'[c][Len(mailbox[c]) + 1] = m
           /\ \A ops, x : \A i \in Nat :
                ToldAfter(c, i, ops, x)' <=>
                  \/ ToldAfter(c, i, ops, x)
                  \/ i <= Len(mailbox[c]) /\ m.op \in ops /\ m.about = x
  <1>1. /\ mailbox[c] \in Seq(Messages) /\ mailbox'[c] = Append(mailbox[c], m)
    BY DEF TypeOK, Hears
  <1>2. /\ Len(mailbox[c]) \in Nat /\ Len(mailbox'[c]) = Len(mailbox[c]) + 1
        /\ \A i \in Mail(c) : mailbox'[c][i] = mailbox[c][i] /\ mailbox[c][i] \in Messages
        /\ mailbox'[c][Len(mailbox[c]) + 1] = m
    BY <1>1 DEF Mail
  <1>3. ASSUME NEW ops, NEW x, NEW i \in Nat
        PROVE  ToldAfter(c, i, ops, x)' <=>
                  \/ ToldAfter(c, i, ops, x)
                  \/ i <= Len(mailbox[c]) /\ m.op \in ops /\ m.about = x
    <2>1. Mail(c)' = Mail(c) \cup {Len(mailbox[c]) + 1}
          /\ \A j \in Mail(c) : j \in Nat /\ j <= Len(mailbox[c])
      BY <1>2 DEF Mail
    <2>2. ToldAfter(c, i, ops, x) => ToldAfter(c, i, ops, x)'
      BY <1>2, <2>1 DEF ToldAfter
    <2>3. i <= Len(mailbox[c]) /\ m.op \in ops /\ m.about = x => ToldAfter(c, i, ops, x)'
      BY <1>2, <2>1 DEF ToldAfter
    <2>4. ASSUME NEW j \in Mail(c)', j > i, mailbox'[c][j].op \in ops, mailbox'[c][j].about = x
          PROVE  \/ ToldAfter(c, i, ops, x)
                 \/ i <= Len(mailbox[c]) /\ m.op \in ops /\ m.about = x
      BY <1>2, <2>1, <2>4 DEF ToldAfter
    <2> QED
      BY <2>2, <2>3, <2>4 DEF ToldAfter
  <1> QED
    BY <1>2, <1>3

LEMMA DeliveredMail ==
    ASSUME TypeOK, NEW c \in Conns, Deliver(c)
    PROVE  /\ Len(mailbox[c]) \in Nat \ {0} /\ Len(mailbox'[c]) = Len(mailbox[c]) - 1
           /\ \A i \in Mail(c)' : mailbox'[c][i] = mailbox[c][i + 1] /\ i + 1 \in Mail(c)
           /\ Head(mailbox[c]) = mailbox[c][1] /\ 1 \in Mail(c) /\ mailbox[c][1] \in Messages
           /\ \A ops, x : \A i \in Nat :
                ToldAfter(c, i, ops, x)' <=> ToldAfter(c, i + 1, ops, x)
           /\ \A ops, x : ToldAfter(c, 0, ops, x) <=>
                \/ ToldAfter(c, 0, ops, x)'
                \/ mailbox[c][1].op \in ops /\ mailbox[c][1].about = x
  <1>1. /\ mailbox[c] \in Seq(Messages) /\ mailbox[c] # <<>> /\ mailbox'[c] = Tail(mailbox[c])
    BY DEF TypeOK, Deliver
  <1>2. /\ Len(mailbox[c]) \in Nat \ {0} /\ Len(mailbox'[c]) = Len(mailbox[c]) - 1
        /\ \A i \in Mail(c)' : mailbox'[c][i] = mailbox[c][i + 1] /\ i + 1 \in Mail(c)
        /\ Head(mailbox[c]) = mailbox[c][1] /\ 1 \in Mail(c) /\ mailbox[c][1] \in Messages
    BY <1>1 DEF Mail
  <1>3. ASSUME NEW ops, NEW x, NEW i \in Nat
        PROVE  ToldAfter(c, i, ops, x)' <=> ToldAfter(c, i + 1, ops, x)
    <2>1. ASSUME NEW j \in Mail(c), j > i + 1
          PROVE  /\ j - 1 \in Mail(c)' /\ j - 1 > i /\ mailbox'[c][j - 1] = mailbox[c][j]
      <3>1. j \in Int /\ j - 1 \in Mail(c)' /\ j - 1 > i
        BY <1>2, <2>1 DEF Mail
      <3>2. mailbox'[c][j - 1] = mailbox[c][(j - 1) + 1] /\ (j - 1) + 1 = j
        BY <1>2, <3>1
      <3> QED
        BY <3>1, <3>2
    <2>2. ASSUME NEW j \in Mail(c)', j > i
          PROVE  /\ j + 1 \in Mail(c) /\ j + 1 > i + 1 /\ mailbox'[c][j] = mailbox[c][j + 1]
      BY <1>2, <2>2 DEF Mail
    <2> QED
      BY <2>1, <2>2 DEF ToldAfter
  <1>4. ASSUME NEW ops, NEW x
        PROVE  ToldAfter(c, 0, ops, x) <=>
                \/ ToldAfter(c, 0, ops, x)'
                \/ mailbox[c][1].op \in ops /\ mailbox[c][1].about = x
    <2>1. \A j \in Mail(c) : j = 1 \/ j > 1
      BY DEF Mail
    <2>2. ToldAfter(c, 0, ops, x) <=> \/ ToldAfter(c, 1, ops, x)
                                      \/ mailbox[c][1].op \in ops /\ mailbox[c][1].about = x
      BY <1>2, <2>1 DEF ToldAfter, Mail
    <2> QED
      BY <1>3, <2>2
  <1> QED
    BY <1>2, <1>3, <1>4

LEMMA SameMail ==
    ASSUME NEW c, mailbox'[c] = mailbox[c]
    PROVE  /\ Mail(c)' = Mail(c)
           /\ \A ops, x, i : ToldAfter(c, i, ops, x)' <=> ToldAfter(c, i, ops, x)
  BY DEF Mail, ToldAfter

\* A message was there already, or has just been sent.
LEMMA MailComes ==
    ASSUME Base, [Next]_vars, NEW c \in Conns, NEW i \in Mail(c)'
    PROVE  \/ \E j \in Mail(c) : mailbox[c][j] = mailbox'[c][i]
           \/ Hears(c, mailbox'[c][i])
  <1>t. TypeOK
    BY DEF Base
  <1>1. CASE mailbox'[c] = mailbox[c]
    BY <1>1, SameMail
  <1>2. CASE Disconnect(c)
    <2>1. mailbox'[c] = <<>>
      BY <1>2, <1>t DEF Disconnect, TypeOK
    <2> QED
      BY <2>1 DEF Mail
  <1>3. CASE Deliver(c)
    BY <1>3, <1>t, DeliveredMail
  <1>4. ASSUME NEW m \in Messages, Hears(c, m)
        PROVE  \/ \E j \in Mail(c) : mailbox[c][j] = mailbox'[c][i]
               \/ Hears(c, mailbox'[c][i])
    <2>1. i \in Mail(c) \/ i = Len(mailbox[c]) + 1
      BY <1>4, <1>t, HeardMail DEF Mail
    <2> QED
      BY <1>4, <1>t, <2>1, HeardMail
  <1> QED
    BY <1>1, <1>2, <1>3, <1>4, ClientMoves

LEMMA MailIsAboutTracksStep == Base /\ [Next]_vars => MailIsAboutTracks'
  <1> SUFFICES ASSUME Base, [Next]_vars, NEW c \in Conns, NEW q \in Objects, NEW i \in Mail(c)',
                      mailbox'[c][i].about = q,
                      mailbox'[c][i].op \in {"add", "remove", "muted", "unmuted"}
               PROVE  /\ Published(q)'
                      /\ mailbox'[c][i].op = "remove" => AnnouncedGone(q)'
    BY DEF MailIsAboutTracks
  <1>t. TypeOK /\ Placed /\ TasksFit
    BY DEF Base
  <1>1. PICK m : m = mailbox'[c][i]
    OBVIOUS
  <1>2. ASSUME Published(q), m.op = "remove" => AnnouncedGone(q) \/ AnnouncedGone(q)'
        PROVE  Published(q)' /\ (m.op = "remove" => AnnouncedGone(q)')
    <2>1. made[q] # None
      BY <1>2, <1>t DEF Placed, Published
    <2> QED
      BY <1>2, <2>1, Lasting, GoneLasts
  <1>3. CASE \E j \in Mail(c) : mailbox[c][j] = m
    BY <1>1, <1>2, <1>3 DEF Base, MailIsAboutTracks
  <1>4. ASSUME NEW r, NEW u, Sends(r, u, m)
        PROVE  Published(q) /\ (m.op = "remove" => AnnouncedGone(q) \/ AnnouncedGone(q)')
    <2>1. ASSUME NEW d \in Conns, AnnounceTrack(d), m = Message("add", task[d].who)
          PROVE  Published(q) /\ m.op = "add"
      BY <1>1, <1>t, <2>1 DEF AnnounceTrack, Continue, TasksFit, TaskFits, TrackTask, Message
    <2>2. ASSUME NEW d \in Conns, AnnounceMuted(d), m = Message(task[d].step, task[d].who)
          PROVE  Published(q) /\ m.op # "remove"
      BY <1>1, <1>t, <2>2 DEF AnnounceMuted, TasksFit, TaskFits, TrackTask, Message
    <2>3. ASSUME NEW d \in Conns, AnnounceLeaverTracks(d), Published(task[d].who),
                 m = Message("remove", task[d].who)
          PROVE  Published(q) /\ AnnouncedGone(q)
      BY <1>1, <1>t, <2>3 DEF AnnounceLeaverTracks, Continue, TasksFit, TaskFits, LeaveTask, Message,
                              AnnouncedGone
    <2>4. ASSUME NEW d \in Conns, AnnounceLostTracks(d), task[d].lost,
                 m = Message("remove", task[d].who)
          PROVE  Published(q) /\ AnnouncedGone(q)'
      <3>1. q = task[d].who /\ Published(q)
        BY <1>1, <1>t, <2>4 DEF AnnounceLostTracks, Continue, TasksFit, TaskFits, CleanupTask, Message
      <3>2. task'[d].step = "announce_left" /\ task'[d].who = q
        BY <2>4, <3>1, <1>t DEF AnnounceLostTracks, TypeOK, TaskState
      <3> QED
        BY <3>1, <3>2 DEF AnnouncedGone
    <2>5. ASSUME NEW p \in Objects, ReaperAnnounce(p, "tracks"), Published(p), m = Message("remove", p)
          PROVE  Published(q) /\ AnnouncedGone(q)
      BY <1>1, <2>5 DEF ReaperAnnounce, Base, ReapedAreGone, AnnouncedGone, Message
    <2>6. \A x : m # Message("joined", x) /\ m # Message("left", x)
      BY <1>1 DEF Message
    <2> QED
      BY <1>4, <2>1, <2>2, <2>3, <2>4, <2>5, <2>6 DEF Sends
  <1>5. CASE Hears(c, m)
    BY <1>1, <1>2, <1>4, <1>5 DEF Hears
  <1> QED
    BY <1>1, <1>2, <1>3, <1>5, MailComes

\* The types, and what holds of tasks and mail, on any number of connections.
LEMMA BaseInvariant == Spec => []Base
  <1>1. Base /\ [Next]_vars => Base'
    BY TypesStep, PlacedStep, TasksFitStep, ReapedStep, MailIsAboutTracksStep DEF Base
  <1> QED
    BY <1>1, InitBase, PTL DEF Spec

\* The variables of Signaling have their types: what the handlers of handler.rs and the reaper
\* of lib.rs put into Session, Room and ws_tx is what their signatures say.
THEOREM Types == Spec => []TypeOK
  <1>1. Base => TypeOK
    BY DEF Base
  <1> QED
    BY <1>1, BaseInvariant, PTL

-----------------------------------------------------------------------------
(* A connection and the participant it is in a room with. *)

\* A participant's connection does not come to serve it again once it has stopped.
LEMMA ServingLasts ==
    ASSUME Base, [Next]_vars, NEW p \in Objects, made[p] # None, Serving(p)'
    PROVE  Serving(p) /\ made'[p] = made[p]
  <1>t. TypeOK /\ Placed
    BY DEF Base
  <1>1. made'[p] = made[p] /\ InRoom(p)
    BY Lasting DEF Serving
  <1>2. PICK c \in Conns : c = made[p].ws
    BY <1>t DEF TypeOK
  <1>3. \A q \in Objects : made[q] # None /\ made[q].ws = c => q <= p
    BY <1>1, <1>2, Lasting DEF Serving
  <1>4. Open(c)
    <2>1. CASE task'[c] = task[c]
      BY <1>1, <1>2, <2>1 DEF Serving, Open
    <2>2. CASE task'[c] # task[c] /\ ~Open(c)
      <3>1. task'[c].step \in {"announce_left", "remove", "closed"}
        BY <1>t, <2>2, TaskMoves, NextSection DEF Open
      <3> QED
        BY <1>1, <1>2, <3>1 DEF Serving, Open
    <2> QED
      BY <2>1, <2>2
  <1>5. current_room[c] = made[p].room
    <2>1. current_room'[c] = made[p].room /\ made[p].room \in Rooms
      BY <1>1, <1>2, <1>t DEF Serving, TypeOK
    <2>2. ASSUME AnnounceLeaver(c) PROVE FALSE
      BY <2>1, <2>2, <1>t DEF AnnounceLeaver, TypeOK
    <2>3. ASSUME NEW r \in Rooms, RoomJoin(c, r) PROVE FALSE
      <3>1. PICK q \in Objects :
              /\ made[q] = None /\ \A o \in Objects : o < q => made[o] # None
              /\ made'[q] = [user |-> user_id[c], room |-> r, ws |-> c] /\ made'[q] # None
        BY <2>3, <1>t, JoinFacts
      <3>2. q <= p
        BY <1>1, <1>2, <3>1 DEF Serving
      <3>3. ~(q < p)
        BY <3>1, <1>t DEF Placed
      <3> QED
        BY <3>1, <3>2, <3>3
    <2> QED
      BY <1>t, <2>1, <2>2, <2>3, SessionMoves
  <1> QED
    BY <1>1, <1>2, <1>3, <1>4, <1>5 DEF Serving

\* A participant that is new is that of a connection that has had no reply yet.
LEMMA Newcomer ==
    ASSUME Base, [Next]_vars, NEW p \in Objects, made[p] = None, made'[p] # None
    PROVE  /\ ~Listed(made[p].ws)' /\ ~Replied(made[p].ws)'
           /\ ToAnnounce("snapshot", p)'
           /\ p \notin behind' =>
                /\ mailbox'[made'[p].ws] = <<>>
                /\ \A q \in Objects : InRoom(q) => made[q].ws # made'[p].ws
  <1>1. PICK d \in Conns, r \in Rooms : Birth(d, r, p)
    BY Born
  <1>2. made'[p].ws = d /\ mailbox' = mailbox
    BY <1>1 DEF Birth, RoomJoin, client
  <1>3. /\ ~Listed(made[p].ws)' /\ ~Replied(made[p].ws)'
        /\ ToAnnounce("snapshot", p)'
    BY <1>1, <1>2 DEF Listed, Replied, ToAnnounce, Birth
  <1>4. ASSUME p \notin behind'
        PROVE  mailbox[d] = <<>> /\ \A q \in Objects : InRoom(q) => made[q].ws # d
    BY <1>1, <1>4 DEF Birth
  <1> QED
    BY <1>2, <1>3, <1>4

\* A join in progress is that of the participant the connection serves.
LEMMA JoinIsMine ==
    ASSUME Base, NEW p \in Objects, Serving(p), ~Replied(made[p].ws)
    PROVE  LET c == made[p].ws IN
           task[c].who = p /\ task[c].room = made[p].room /\ user_id[c] = made[p].user
  <1>1. PICK c \in Conns : c = made[p].ws /\ made[p] # None
    BY DEF Serving, InRoom, Base, TypeOK
  <1>2. task[c].who \in Objects /\ JoinTask(c)
    BY <1>1 DEF Base, TasksFit, TaskFits, Replied
  <1>3. p <= task[c].who /\ task[c].who <= p
    BY <1>1, <1>2 DEF JoinTask, Serving, Stay
  <1>4. p = task[c].who
    BY <1>2, <1>3
  <1> QED
    BY <1>1, <1>2, <1>4 DEF JoinTask, Stay

\* What a step does to a connection that goes on serving its participant.
LEMMA ServedMoves ==
    ASSUME Base, [Next]_vars, NEW p \in Objects, made[p] # None, Serving(p)',
           NEW c \in Conns, c = made[p].ws
    PROVE  \/ /\ mailbox'[c] = mailbox[c] /\ view'[c] = view[c]
              /\ Listed(c)' <=> Listed(c)
              /\ Replied(c)' => Replied(c)
           \/ mailbox'[c] = mailbox[c] /\ Snapshot(c) /\ ~Listed(c) /\ Listed(c)' /\ ~Replied(c)'
           \/ mailbox'[c] = mailbox[c] /\ ReplyJoined(c) /\ Listed(c) /\ Listed(c)' /\ ~Replied(c)
           \/ Deliver(c) /\ Listed(c) /\ Listed(c)' /\ Replied(c) /\ Replied(c)' /\ UNCHANGED task
           \/ /\ view'[c] = view[c] /\ \E m \in Messages : Hears(c, m)
              /\ Listed(c)' <=> Listed(c)
              /\ Replied(c)' => Replied(c)
  <1>t. TypeOK /\ Placed
    BY DEF Base
  <1>1. Serving(p) /\ made'[p] = made[p] /\ made'[p].room \in Rooms
    BY <1>t, ServingLasts DEF TypeOK
  <1>2. ~AnnounceLeaver(c)
    <2>1. ASSUME AnnounceLeaver(c) PROVE current_room'[c] = None
      BY <2>1, <1>t DEF AnnounceLeaver, TypeOK
    <2> QED
      BY <1>1, <2>1 DEF Serving
  <1>3. ~Disconnect(c)
    <2>1. ASSUME Disconnect(c) PROVE task'[c].step \in {"closed", "announce_tracks"}
      BY <2>1, <1>t DEF Disconnect, TypeOK, Closed, Idle, Step
    <2> QED
      BY <1>1, <2>1 DEF Serving, Open
  <1>4. ASSUME NEW r \in Rooms, RoomJoin(c, r) PROVE FALSE
    <2>1. PICK q \in Objects :
            /\ made[q] = None /\ \A o \in Objects : o < q => made[o] # None
            /\ made'[q] = [user |-> user_id[c], room |-> r, ws |-> c] /\ made'[q] # None
      BY <1>4, <1>t, JoinFacts
    <2>2. q <= p /\ ~(q < p)
      BY <1>1, <2>1, <1>t DEF Serving, Placed
    <2> QED
      BY <2>1, <2>2
  <1>5. CASE task'[c] = task[c]
    <2>1. Deliver(c) => Listed(c) /\ Replied(c) /\ UNCHANGED task
      BY DEF Deliver, Listed, Replied, Idle
    <2>2. ~Snapshot(c) /\ ~ReplyJoined(c)
      BY <1>5, <1>t, ThenEntry DEF Snapshot, ReplyJoined, Continue, Steps
    <2> QED
      BY <1>2, <1>3, <1>5, <2>1, <2>2, ClientMoves DEF Listed, Replied
  <1>6. CASE Snapshot(c)
    <2>1. mailbox'[c] = mailbox[c] /\ task[c].step = "snapshot" /\ task'[c].step = "joined"
      BY <1>6, <1>t, ThenEntry DEF Snapshot, Continue, Steps
    <2> QED
      BY <1>6, <2>1 DEF Listed, Replied
  <1>7. CASE ReplyJoined(c)
    <2>1. mailbox'[c] = mailbox[c] /\ task[c].step = "members" /\ task'[c].step = "idle"
      BY <1>7, <1>t, ThenEntry DEF ReplyJoined, Continue, Steps
    <2> QED
      BY <1>7, <2>1 DEF Listed, Replied
  <1>8. CASE AnnounceJoined(c)
    <2>1. view' = view /\ task[c].step = "joined" /\ task'[c].step = "members" /\ ~Deliver(c)
      BY <1>8, <1>t, ThenEntry DEF AnnounceJoined, Continue, Steps, Deliver, Idle
    <2>2. ~Snapshot(c) /\ ~ReplyJoined(c)
      BY <2>1 DEF Snapshot, ReplyJoined, Continue
    <2> QED
      BY <1>2, <1>3, <2>1, <2>2, ClientMoves DEF Listed, Replied
  <1>9. CASE task'[c] # task[c] /\ ~Snapshot(c) /\ ~ReplyJoined(c) /\ ~AnnounceJoined(c)
    <2>1. Takes(c)
      BY <1>9, TaskMoves
    <2>2. ~Deliver(c)
      BY <1>9 DEF Deliver
    <2>3. task[c].step \notin {"snapshot", "joined", "members"}
      BY <1>9, <1>t, <2>1, Sections
    <2>4. task'[c].step \notin {"snapshot", "joined", "members"}
      BY <1>4, <1>9, <1>t, <2>1, NextSection
    <2> QED
      BY <1>2, <1>3, <1>9, <2>2, <2>3, <2>4, ClientMoves DEF Listed, Replied
  <1> QED
    BY <1>5, <1>6, <1>7, <1>8, <1>9

\* What the message does to what a client holds of participant q's track and of the members.
Effect(t, v, m, q) ==
    /\ m.about # q => t.tracks[q] = v.tracks[q]
    /\ v.tracks[q] # "unknown" /\ t.tracks[q] = "unknown" => m.op = "remove" /\ m.about = q
    /\ v.tracks[q] = "unknown" /\ t.tracks[q] # "unknown" => m.op = "add" /\ m.about = q
    /\ m.op = "add" /\ m.about = q => t.tracks[q] # "unknown"
    /\ m.op = "remove" /\ m.about = q => t.tracks[q] = "unknown"
    /\ \A k \in {"muted", "unmuted"} :
         t.tracks[q] = k =>
            \/ m.op = k /\ m.about = q
            \/ v.tracks[q] = k /\ ~(m.op \in {"muted", "unmuted"} /\ m.about = q)
    /\ t.members = IF m.op = "joined" THEN v.members \cup {m.about}
                   ELSE IF m.op = "left" THEN v.members \ {m.about}
                   ELSE v.members

LEMMA ToldEffect ==
    ASSUME NEW v \in ViewState, NEW m \in Messages, NEW q \in Objects
    PROVE  Effect(Told(v, m), v, m, q)
  <1>1. CASE m.op = "add"
    BY <1>1 DEF Effect, Told, Messages, ViewState
  <1>2. CASE m.op = "remove"
    BY <1>2 DEF Effect, Told, Messages, ViewState
  <1>3. CASE m.op \in {"muted", "unmuted"}
    BY <1>3 DEF Effect, Told, Messages, ViewState
  <1>4. CASE m.op = "joined"
    BY <1>4 DEF Effect, Told, Messages, ViewState
  <1>5. CASE m.op = "left"
    BY <1>5 DEF Effect, Told, Messages, ViewState
  <1> QED
    BY <1>1, <1>2, <1>3, <1>4, <1>5 DEF Messages

\* The message that connection c's client reads, and what it makes of it.
LEMMA DeliveredView ==
    ASSUME TypeOK, NEW c \in Conns, Deliver(c), NEW q \in Objects
    PROVE  /\ mailbox[c][1] \in Messages /\ 1 \in Mail(c)
           /\ Effect(view'[c], view[c], mailbox[c][1], q)
  <1>1. /\ view'[c] = Told(view[c], mailbox[c][1])
        /\ view[c] \in ViewState /\ mailbox[c][1] \in Messages /\ 1 \in Mail(c)
    BY DeliveredMail DEF Deliver, TypeOK
  <1> QED
    BY <1>1, ToldEffect

-----------------------------------------------------------------------------
(* TracksAreKnown. *)

\* Whose track is published after a step had it published before, or it is to be announced.
LEMMA PublishedSince ==
    ASSUME Base, [Next]_vars, NEW q \in Objects, Published(q)', ~ToAnnounce("add", q)'
    PROVE  Published(q) /\ made[q] # None
  <1>t. TypeOK /\ Placed /\ TasksFit
    BY DEF Base
  <1>1. Published(q)
    <2>1. ASSUME NEW d \in Conns, AddTrack(d), track'[q] # track[q] PROVE FALSE
      <3>1. task[d].who = q
        BY <2>1, <1>t DEF AddTrack, TypeOK
      <3>2. task'[d].step = "add" /\ task'[d].who = q
        BY <2>1, <3>1, <1>t, ThenEntry DEF AddTrack, Steps
      <3> QED
        BY <3>2 DEF ToAnnounce
    <2>2. ASSUME NEW d \in Conns, NEW m \in {"muted", "unmuted"}, MuteUpdate(d, m), track'[q] # track[q]
          PROVE  Published(q)
      BY <2>2, <1>t DEF MuteUpdate, TypeOK, Published
    <2> QED
      BY <2>1, <2>2, TrackMoves DEF Published
  <1> QED
    BY <1>1, <1>t DEF Placed, Published

\* A task that was to announce a track and no longer is has announced it.
LEMMA AddAnnounced ==
    ASSUME Base, [Next]_vars, NEW q \in Objects, ToAnnounce("add", q), ~ToAnnounce("add", q)'
    PROVE  \E d \in Conns : AnnounceTrack(d) /\ TrackTask(d) /\ task[d].who = q
  <1>1. PICK d \in Conns : task[d].step = "add" /\ task[d].who = q
    BY DEF ToAnnounce
  <1>2. task'[d] # task[d]
    BY <1>1 DEF ToAnnounce
  <1> QED
    BY <1>1, <1>2, TaskMoves, Sections DEF Base, TasksFit, TaskFits

\* A broadcast to the room of a participant that is of another user reaches its connection.
LEMMA Reached ==
    ASSUME Base, NEW p \in Objects, Serving(p), NEW c \in Conns, c = made[p].ws,
           NEW u, NEW m, u # made[p].user, Broadcast(made[p].room, u, m)
    PROVE  mailbox'[c] = Append(mailbox[c], m)
  BY DEF Serving, Broadcast, Members, InRoom

LEMMA TracksReachStep == Base /\ TracksReach /\ [Next]_vars => TracksReach'
  <1> SUFFICES ASSUME Base, TracksReach, [Next]_vars, NEW p \in Objects, NEW q \in Objects,
                      Serving(p)', Listed(made[p].ws)', q \in Members(made[p].room)', Others(p, q)',
                      Published(q)', ~ToAnnounce("add", q)', ~AnnouncedGone(q)'
               PROVE  KnowsTrack(made[p].ws, q)'
    BY DEF TracksReach
  <1>t. TypeOK /\ TypeOK' /\ Placed /\ MailIsAboutTracks'
    BY TypesStep, MailIsAboutTracksStep DEF Base
  <1>1. made[p] # None
    BY Newcomer DEF Serving, InRoom
  <1>2. Serving(p) /\ made'[p] = made[p]
    BY <1>1, ServingLasts
  <1>3. PICK c \in Conns : c = made[p].ws
    BY <1>1, <1>t DEF TypeOK
  <1>4. Published(q) /\ made[q] # None /\ made'[q] = made[q] /\ InRoom(q)
    BY PublishedSince, Lasting DEF Members
  <1>5. /\ q \in Members(made[p].room) /\ Others(p, q) /\ ~AnnouncedGone(q)
        /\ made[q].room = made[p].room /\ made[q].user # made[p].user
    BY <1>2, <1>4, GoneLasts DEF Members, Others
  <1>6. /\ Mail(c)' = 1..Len(mailbox'[c])
        /\ \A i \in Mail(c)' : mailbox'[c][i] # Message("remove", q)
    BY <1>t DEF MailIsAboutTracks, Message, Mail
  <1>7. SUFFICES view'[c].tracks[q] # "unknown" \/ ToldAfter(c, 0, {"add"}, q)'
    BY <1>2, <1>3, <1>6, <1>7 DEF KnowsTrack
  <1>8. CASE ToAnnounce("add", q)
    <2>1. PICK d \in Conns : AnnounceTrack(d) /\ TrackTask(d) /\ task[d].who = q
      BY <1>8, AddAnnounced
    <2>2. Broadcast(made[p].room, made[q].user, Message("add", q))
      BY <2>1, <1>5 DEF AnnounceTrack, TrackTask, Stay
    <2>3. mailbox'[c] = Append(mailbox[c], Message("add", q))
      BY <2>2, <1>2, <1>3, <1>5 DEF Broadcast, Serving, Members, InRoom
    <2>4. /\ mailbox[c] \in Seq(Messages) /\ Message("add", q) \in Messages
      BY <1>t DEF TypeOK, Message, Messages
    <2>5. Len(mailbox'[c]) \in Mail(c)' /\ Len(mailbox'[c]) > 0
          /\ mailbox'[c][Len(mailbox'[c])] = Message("add", q)
      BY <2>3, <2>4 DEF Mail
    <2> QED
      BY <2>5 DEF ToldAfter, Message
  <1>9. CASE ~ToAnnounce("add", q) /\ Listed(c)
    <2>1. view[c].tracks[q] # "unknown" \/ ToldAfter(c, 0, {"add"}, q)
      BY <1>2, <1>3, <1>4, <1>5, <1>9 DEF TracksReach, KnowsTrack
    <2>2. CASE mailbox'[c] = mailbox[c] /\ (view'[c] = view[c] \/ ReplyJoined(c))
      <3>1. view'[c].tracks = view[c].tracks
        BY <2>2, <1>t DEF ReplyJoined, TypeOK, ViewState
      <3> QED
        BY <2>1, <2>2, <3>1, SameMail
    <2>3. CASE Deliver(c)
      <3>1. /\ 1 \in Mail(c)
            /\ view[c].tracks[q] # "unknown" /\ view'[c].tracks[q] = "unknown" =>
                 mailbox[c][1].op = "remove" /\ mailbox[c][1].about = q
            /\ mailbox[c][1].op = "add" /\ mailbox[c][1].about = q => view'[c].tracks[q] # "unknown"
        BY ZenonT(60), <2>3, <1>t, DeliveredView DEF Effect
      <3>4. ToldAfter(c, 0, {"add"}, q) =>
              \/ ToldAfter(c, 0, {"add"}, q)'
              \/ mailbox[c][1].op \in {"add"} /\ mailbox[c][1].about = q
        BY <2>3, <1>t, DeliveredMail
      <3>2. mailbox[c][1].about = q => mailbox[c][1].op # "remove"
        BY <3>1, <1>5 DEF Base, MailIsAboutTracks
      <3> QED
        BY <2>1, <3>1, <3>2, <3>4
    <2>4. ASSUME NEW m \in Messages, Hears(c, m), view'[c] = view[c]
          PROVE  view'[c].tracks[q] # "unknown" \/ ToldAfter(c, 0, {"add"}, q)'
      BY <2>1, <2>4, <1>t, HeardMail
    <2> QED
      BY <1>1, <1>3, <1>9, <2>2, <2>3, <2>4, ServedMoves
  <1>10. CASE ~ToAnnounce("add", q) /\ Snapshot(c)
    <2>1. task[c].room = made[p].room /\ user_id[c] = made[p].user
      BY <1>2, <1>3, <1>10, JoinIsMine DEF Snapshot, Continue, Replied
    <2> QED
      BY <1>4, <1>5, <1>10, <1>t, <2>1 DEF Snapshot, TypeOK, ViewState, Published
  <1> QED
    BY <1>1, <1>2, <1>3, <1>8, <1>9, <1>10, ServedMoves

\* Everybody knows the tracks of the others.  The snapshot of the ROOM_JOIN reply, which is
\* taken before the joiner is announced, and the TRACKS_UPDATEs of PUBLISH_TRACKS leave no
\* gap between them, however they interleave, on any number of connections.
THEOREM EverybodyKnowsTheTracks == Spec => []TracksAreKnown
  <1>1. Init => TracksReach
    BY DEF Init, TracksReach, Serving, InRoom
  <1>2. Base /\ Base' /\ TracksReach /\ [Next]_vars => TracksReach'
    BY TracksReachStep
  <1>3. TracksReach => TracksAreKnown
    BY DEF TracksReach, TracksAreKnown, Attending, Serving, Listed, Published
  <1> QED
    BY <1>1, <1>2, <1>3, BaseInvariant, PTL DEF Spec

-----------------------------------------------------------------------------
(* MuteStateIsKnown. *)

LEMMA HistoryGrows ==
    ASSUME [Next]_vars
    PROVE  /\ unheard \subseteq unheard' /\ rejoined \subseteq rejoined'
           /\ behind \subseteq behind' /\ contended \subseteq contended'
  <1>1. \/ UNCHANGED history
        \/ \E c \in Conns, r \in Rooms : RoomJoin(c, r)
        \/ \E c \in Conns : AnnounceTrack(c) \/ RemoveLost(c)
        \/ \E c \in Conns, m \in {"muted", "unmuted"} : MuteUpdate(c, m)
    BY ZenonT(60) DEF Next, Request, ReaperStep, ConnectionStep, Identify, PublishTracks, RoomLeave,
         Heartbeat, Disconnect, Snapshot, AnnounceJoined, ReplyJoined, AddTrack, AnnounceMuted,
         AnnounceLeaverTracks, AnnounceLeaver, AnnounceLostTracks, AnnounceLost,
         Deliver, MissHeartbeats, Expire, MediaTouch, ReaperJudge, ReaperRemove, ReaperAnnounce,
         vars, history
  <1>2. ASSUME NEW c \in Conns, NEW r \in Rooms, RoomJoin(c, r)
        PROVE  /\ unheard' = unheard /\ contended' = contended
               /\ rejoined \subseteq rejoined' /\ behind \subseteq behind'
    BY <1>2 DEF RoomJoin
  <1> QED
    BY <1>1, <1>2 DEF history, AnnounceTrack, RemoveLost, MuteUpdate

\* A participant that has just been made is the only one of its connection.
LEMMA OnlyOneStep == Base /\ OnlyOne /\ [Next]_vars => OnlyOne'
  <1> SUFFICES ASSUME Base, OnlyOne, [Next]_vars, NEW p \in Objects, NEW q \in Objects,
                      Serving(p)', p \notin behind', InRoom(q)', made'[q].ws = made'[p].ws
               PROVE  q = p
    BY DEF OnlyOne
  <1>t. Placed /\ made'[p] # None /\ made'[q] # None /\ p \notin behind
    BY HistoryGrows DEF Base, Serving, InRoom
  <1>1. CASE made[p] # None /\ made[q] # None
    BY <1>1, <1>t, ServingLasts, Lasting DEF OnlyOne
  <1>2. CASE made[p] # None /\ made[q] = None
    <2>1. q <= p
      BY <1>t DEF Serving
    <2> QED
      BY <1>2, <1>t, <2>1 DEF Placed
  <1>3. CASE made[p] = None
    <2>1. PICK d \in Conns, r \in Rooms : Birth(d, r, p)
      BY <1>3, <1>t, Born
    <2>2. ASSUME q # p PROVE FALSE
      <3>1. made[q] # None /\ InRoom(q) /\ made'[q] = made[q]
        BY <1>t, <2>1, <2>2, Lasting DEF Birth
      <3> QED
        BY <1>3, <1>t, <3>1, Newcomer
    <2> QED
      BY <2>2
  <1> QED
    BY <1>1, <1>2, <1>3

\* What is sent about a track is sent to the room of its participant, and only the news that
\* it is gone may come back to that participant's user.
LEMMA TrackNews ==
    ASSUME Base, NEW r, NEW u, NEW m, Sends(r, u, m), NEW q \in Objects, m.about = q,
           m.op \in {"add", "remove", "muted", "unmuted"}
    PROVE  /\ Published(q) /\ made[q] # None /\ made[q].room = r
           /\ m.op # "remove" => u = made[q].user
  <1>t. TypeOK /\ Placed /\ TasksFit
    BY DEF Base
  <1>1. ASSUME NEW d \in Conns, AnnounceTrack(d) \/ AnnounceMuted(d), task[d].who = q
        PROVE  Published(q) /\ Stay(q, task[d].room, user_id[d])
    BY <1>1, <1>t DEF AnnounceTrack, AnnounceMuted, Continue, TasksFit, TaskFits, TrackTask
  <1>2. ASSUME NEW d \in Conns, AnnounceLeaverTracks(d), task[d].who = q
        PROVE  Stay(q, task[d].room, user_id[d])
    BY <1>2, <1>t DEF AnnounceLeaverTracks, Continue, TasksFit, TaskFits, LeaveTask
  <1>3. ASSUME NEW d \in Conns, AnnounceLostTracks(d), task[d].lost, task[d].who = q
        PROVE  Published(q) /\ Stay(q, task[d].room, user_id[d])
    BY <1>3, <1>t DEF AnnounceLostTracks, Continue, TasksFit, TaskFits, CleanupTask
  <1>4. Published(q) => made[q] # None
    BY <1>t DEF Placed, Published
  <1>5. ASSUME NEW x PROVE m # Message("joined", x) /\ m # Message("left", x)
    BY DEF Message
  <1>6. \A op, x : m = Message(op, x) => m.op = op /\ x = q
    BY DEF Message
  <1> QED
    BY <1>1, <1>2, <1>3, <1>4, <1>5, <1>6 DEF Sends, Stay

\* What a connection with one participant hears is sent to that participant's room.
LEMMA HeardInMyRoom ==
    ASSUME Base, OnlyOne, NEW p \in Objects, Serving(p), p \notin behind,
           NEW c \in Conns, c = made[p].ws, NEW m, Hears(c, m)
    PROVE  \E u \in Users \cup {None} : Sends(made[p].room, u, m) /\ u # made[p].user
  <1>0. PICK r \in Rooms \cup {None}, u \in Users \cup {None} :
          Sends(r, u, m) /\ \E o \in Members(r) : made[o].user # u /\ made[o].ws = c
    BY DEF Hears
  <1>1. PICK o \in Members(r) : made[o].user # u /\ made[o].ws = c
    BY <1>0
  <1>2. o \in Objects /\ InRoom(o) /\ made[o].room = r
    BY <1>1 DEF Members
  <1>3. o = p
    BY <1>1, <1>2 DEF OnlyOne
  <1> QED
    BY <1>0, <1>1, <1>2, <1>3

LEMMA TracksAreOfMyRoomStep ==
    Base /\ OnlyOne /\ TracksAreOfMyRoom /\ [Next]_vars => TracksAreOfMyRoom'
  <1> SUFFICES ASSUME Base, OnlyOne, TracksAreOfMyRoom, [Next]_vars,
                      NEW p \in Objects, NEW q \in Objects, Serving(p)', p \notin behind',
                      NEW c \in Conns, c = made'[p].ws
               PROVE  /\ \A i \in Mail(c)' : mailbox'[c][i].about = q =>
                           LET op == mailbox'[c][i].op IN
                           /\ op \in {"add", "remove", "muted", "unmuted"} => InMyRoom(p, q)'
                           /\ op \in {"add", "muted", "unmuted"} => made'[q].user # made'[p].user
                      /\ Listed(c)' /\ view'[c].tracks[q] # "unknown" =>
                           InMyRoom(p, q)' /\ made'[q].user # made'[p].user
    <2>1. Base /\ [Next]_vars => TypeOK'
      BY TypesStep
    <2> QED
      BY <2>1 DEF TracksAreOfMyRoom, Serving, InRoom, TypeOK
  <1>t. TypeOK /\ Placed /\ made'[p] # None /\ p \notin behind
    BY HistoryGrows DEF Base, Serving, InRoom
  <1>1. CASE made[p] = None
    BY <1>1, <1>t, Newcomer DEF Mail
  <1>2. CASE made[p] # None
    <2>1. Serving(p) /\ made'[p] = made[p] /\ c = made[p].ws
      BY <1>2, <1>t, ServingLasts
    <2>2. InMyRoom(p, q) => InMyRoom(p, q)' /\ made'[q] = made[q]
      <3>1. InMyRoom(p, q) => made[q] # None
        BY <1>t DEF InMyRoom, Placed, Published
      <3> QED
        BY <2>1, <3>1, Lasting DEF InMyRoom, Published
    <2>3. \A i \in Mail(c) : mailbox[c][i].about = q =>
             /\ mailbox[c][i].op \in {"add", "remove", "muted", "unmuted"} => InMyRoom(p, q)
             /\ mailbox[c][i].op \in {"add", "muted", "unmuted"} => made[q].user # made[p].user
      BY <1>t, <2>1 DEF TracksAreOfMyRoom
    <2>4. Listed(c) /\ view[c].tracks[q] # "unknown" => InMyRoom(p, q) /\ made[q].user # made[p].user
      BY <1>t, <2>1 DEF TracksAreOfMyRoom
    <2>5. ASSUME NEW i \in Mail(c)', mailbox'[c][i].about = q,
                 mailbox'[c][i].op \in {"add", "remove", "muted", "unmuted"}
          PROVE  /\ InMyRoom(p, q)'
                 /\ mailbox'[c][i].op # "remove" => made'[q].user # made'[p].user
      <3>1. CASE \E j \in Mail(c) : mailbox[c][j] = mailbox'[c][i]
        BY <2>1, <2>2, <2>3, <2>5, <3>1
      <3>2. CASE Hears(c, mailbox'[c][i])
        <4>1. PICK m : m = mailbox'[c][i]
          OBVIOUS
        <4>2. PICK u \in Users \cup {None} : Sends(made[p].room, u, m) /\ u # made[p].user
          BY <1>t, <2>1, <3>2, <4>1, HeardInMyRoom
        <4>3. /\ Published(q) /\ made[q].room = made[p].room
              /\ m.op # "remove" => u = made[q].user
          BY <2>5, <4>1, <4>2, TrackNews
        <4> QED
          BY <2>1, <2>2, <4>1, <4>2, <4>3 DEF InMyRoom
      <3> QED
        BY <3>1, <3>2, MailComes
    <2>6. ASSUME Listed(c)', view'[c].tracks[q] # "unknown"
          PROVE  InMyRoom(p, q)' /\ made'[q].user # made'[p].user
      <3>1. CASE Listed(c) /\ view'[c].tracks[q] = view[c].tracks[q]
        BY <2>1, <2>2, <2>4, <2>6, <3>1
      <3>2. CASE Snapshot(c)
        <4>1. ~Replied(c)
          BY <3>2 DEF Snapshot, Continue, Replied
        <4>2. task[c].room = made[p].room /\ user_id[c] = made[p].user
          BY <2>1, <4>1, JoinIsMine
        <4>3. q \in Members(task[c].room) /\ made[q].user # user_id[c] /\ track[q] # "none"
          BY <2>6, <3>2, <1>t DEF Snapshot, TypeOK, ViewState
        <4> QED
          BY <2>1, <2>2, <4>2, <4>3 DEF InMyRoom, Published, Members
      <3>3. CASE Deliver(c) /\ Listed(c)
        <4>1. /\ 1 \in Mail(c)
              /\ view[c].tracks[q] = "unknown" =>
                   mailbox[c][1].op = "add" /\ mailbox[c][1].about = q
          <5>1. 1 \in Mail(c) /\ Effect(view'[c], view[c], mailbox[c][1], q)
            BY <3>3, <1>t, DeliveredView
          <5> QED
            BY <2>6, <5>1 DEF Effect
        <4>2. InMyRoom(p, q) /\ made[q].user # made[p].user
          BY <2>3, <2>4, <3>3, <4>1
        <4> QED
          BY <2>1, <2>2, <4>2
      <3>4. ReplyJoined(c) => view'[c].tracks[q] = view[c].tracks[q]
        BY <1>t DEF ReplyJoined, TypeOK, ViewState
      <3> QED
        BY <1>2, <2>1, <2>6, <3>1, <3>2, <3>3, <3>4, ServedMoves
    <2> QED
      BY <2>5, <2>6
  <1> QED
    BY <1>1, <1>2

\* A task that is to announce an update has been, or has just made the update.
LEMMA MutingSince ==
    ASSUME Base, [Next]_vars, NEW c \in Conns, task'[c].step \in {"muted", "unmuted"}
    PROVE  \/ task'[c] = task[c]
           \/ /\ \A d \in Conns \ {c} : task'[d] = task[d]
              /\ task'[c].who \in Objects /\ track'[task'[c].who] = task'[c].step
              /\ Muting(task'[c].who) => task'[c].who \in contended'
  <1>t. TypeOK
    BY DEF Base
  <1>1. ASSUME NEW m \in {"muted", "unmuted"}, MuteUpdate(c, m)
        PROVE  /\ \A d \in Conns \ {c} : task'[d] = task[d]
               /\ task'[c].who \in Objects /\ track'[task'[c].who] = task'[c].step
               /\ Muting(task'[c].who) => task'[c].who \in contended'
    <2>1. PICK q \in Objects : q = Own(c)
      BY <1>1, <1>t, OwnTypes DEF MuteUpdate
    <2>2. /\ track' = [track EXCEPT ![q] = m]
          /\ task' = [task EXCEPT ![c] = Step(m, current_room[c], q)]
          /\ contended' = IF Muting(q) THEN contended \cup {q} ELSE contended
      BY <1>1, <2>1 DEF MuteUpdate
    <2>3. task'[c].who = q /\ task'[c].step = m /\ \A d \in Conns \ {c} : task'[d] = task[d]
      BY <1>t, <2>2 DEF Step, Idle, TypeOK
    <2> QED
      BY <1>t, <2>2, <2>3 DEF TypeOK
  <1> QED
    BY <1>1, <1>t, TaskMoves, NextSection

LEMMA OneUpdateEachStep == Base /\ OneUpdateEach /\ [Next]_vars => OneUpdateEach'
  <1> SUFFICES ASSUME Base, OneUpdateEach, [Next]_vars, NEW c \in Conns, NEW q, q = task'[c].who,
                      task'[c].step \in {"muted", "unmuted"}, q \notin contended'
               PROVE  /\ track'[q] = task'[c].step
                      /\ \A d \in Conns : task'[d].step \in {"muted", "unmuted"}
                                          /\ task'[d].who = q => d = c
    BY DEF OneUpdateEach
  <1>t. TypeOK /\ TasksFit /\ q \notin contended
    BY HistoryGrows DEF Base
  <1>1. CASE task'[c] # task[c]
    <2>1. /\ \A d \in Conns \ {c} : task'[d] = task[d]
          /\ track'[q] = task'[c].step /\ ~Muting(q)
      BY <1>1, MutingSince
    <2> QED
      BY <2>1 DEF Muting
  <1>2. CASE task'[c] = task[c]
    <2>1. /\ Muting(q) /\ q \in Objects /\ Published(q) /\ track[q] = task[c].step
          /\ \A d \in Conns : task[d].step \in {"muted", "unmuted"} /\ task[d].who = q => d = c
      BY <1>2, <1>t DEF Muting, OneUpdateEach, TasksFit, TaskFits, TrackTask
    <2>2. ASSUME NEW d \in Conns, task'[d].step \in {"muted", "unmuted"}, task'[d].who = q
          PROVE  d = c
      BY <2>1, <2>2, MutingSince
    <2>3. ASSUME NEW d \in Conns, AddTrack(d) PROVE track'[q] = track[q]
      BY <1>t, <2>1, <2>3 DEF AddTrack, TypeOK, Published
    <2>4. ASSUME NEW d \in Conns, NEW m \in {"muted", "unmuted"}, MuteUpdate(d, m)
          PROVE  track'[q] = track[q]
      <3>1. Own(d) # q
        BY <1>t, <2>1, <2>4 DEF MuteUpdate
      <3> QED
        BY <1>t, <2>4, <3>1 DEF MuteUpdate, TypeOK
    <2> QED
      BY <1>2, <2>1, <2>2, <2>3, <2>4, TrackMoves
  <1> QED
    BY <1>1, <1>2

\* What a client has heard of mute state it had heard before, or it is being sent it.
LEMMA HasHeardSince ==
    ASSUME Base, [Next]_vars, NEW p \in Objects, made[p] # None, Serving(p)',
           NEW c \in Conns, c = made[p].ws, NEW q \in Objects, NEW m \in {"muted", "unmuted"},
           HasHeard(c, q, m)'
    PROVE  HasHeard(c, q, m) \/ Hears(c, Message(m, q))
  <1> DEFINE Ops == {"muted", "unmuted"}
  <1>t. TypeOK
    BY DEF Base
  <1>0. \/ Listed(c)' /\ view'[c].tracks[q] = m /\ ~ToldAfter(c, 0, Ops, q)'
        \/ \E i \in Mail(c)' : mailbox'[c][i] = Message(m, q) /\ ~ToldAfter(c, i, Ops, q)'
    BY DEF HasHeard
  <1>1. SUFFICES \/ Listed(c) /\ view[c].tracks[q] = m /\ ~ToldAfter(c, 0, Ops, q)
                 \/ \E i \in Mail(c) : mailbox[c][i] = Message(m, q) /\ ~ToldAfter(c, i, Ops, q)
                 \/ Hears(c, Message(m, q))
    BY DEF HasHeard
  <1>2. Message(m, q).op = m /\ Message(m, q).about = q
    BY DEF Message
  <1>3. CASE mailbox'[c] = mailbox[c] /\ (view'[c].tracks = view[c].tracks /\ (Listed(c)' => Listed(c)))
    BY <1>0, <1>3, SameMail
  <1>4. CASE mailbox'[c] = mailbox[c] /\ Snapshot(c)
    <2>1. view'[c].tracks[q] # m
      BY <1>4, <1>t DEF Snapshot, TypeOK, ViewState
    <2> QED
      BY <1>0, <1>4, <2>1, SameMail
  <1>5. ReplyJoined(c) => view'[c].tracks = view[c].tracks
    BY <1>t DEF ReplyJoined, TypeOK, ViewState
  <1>6. CASE Deliver(c) /\ Listed(c)
    <2>1. CASE view'[c].tracks[q] = m /\ ~ToldAfter(c, 0, Ops, q)'
      <3>1. /\ 1 \in Mail(c) /\ mailbox[c][1] \in Messages
            /\ \/ mailbox[c][1].op = m /\ mailbox[c][1].about = q
               \/ view[c].tracks[q] = m /\ ~(mailbox[c][1].op \in Ops /\ mailbox[c][1].about = q)
        <4>1. 1 \in Mail(c) /\ mailbox[c][1] \in Messages /\ Effect(view'[c], view[c], mailbox[c][1], q)
          BY <1>6, <1>t, DeliveredView
        <4> QED
          BY <2>1, <4>1 DEF Effect
      <3>2. ~ToldAfter(c, 1, Ops, q)
        BY <1>6, <1>t, <2>1, DeliveredMail
      <3>3. mailbox[c][1].op = m /\ mailbox[c][1].about = q => mailbox[c][1] = Message(m, q)
        BY <3>1 DEF Messages, Message
      <3>4. ~(mailbox[c][1].op \in Ops /\ mailbox[c][1].about = q) => ~ToldAfter(c, 0, Ops, q)
        BY <1>6, <1>t, <2>1, DeliveredMail
      <3> QED
        BY <1>6, <3>1, <3>2, <3>3, <3>4
    <2>2. ASSUME NEW i \in Mail(c)', mailbox'[c][i] = Message(m, q), ~ToldAfter(c, i, Ops, q)'
          PROVE  \E j \in Mail(c) : mailbox[c][j] = Message(m, q) /\ ~ToldAfter(c, j, Ops, q)
      <3>1. i \in Nat /\ i + 1 \in Mail(c) /\ mailbox[c][i + 1] = Message(m, q)
        BY SMTT(30), <1>6, <1>t, <2>2, DeliveredMail DEF Mail
      <3>2. ~ToldAfter(c, i + 1, Ops, q)
        BY <1>6, <1>t, <2>2, <3>1, DeliveredMail
      <3> QED
        BY <3>1, <3>2
    <2> QED
      BY <1>0, <2>1, <2>2
  <1>7. ASSUME NEW n \in Messages, Hears(c, n), view'[c] = view[c], Listed(c)' => Listed(c),
               n # Message(m, q)
        PROVE  \/ Listed(c) /\ view[c].tracks[q] = m /\ ~ToldAfter(c, 0, Ops, q)
               \/ \E i \in Mail(c) : mailbox[c][i] = Message(m, q) /\ ~ToldAfter(c, i, Ops, q)
    <2>1. ~ToldAfter(c, 0, Ops, q)' => ~ToldAfter(c, 0, Ops, q)
      BY <1>7, <1>t, HeardMail
    <2>2. ASSUME NEW i \in Mail(c)', mailbox'[c][i] = Message(m, q), ~ToldAfter(c, i, Ops, q)'
          PROVE  i \in Mail(c) /\ mailbox[c][i] = Message(m, q) /\ ~ToldAfter(c, i, Ops, q)
      <3>1. i \in Mail(c) /\ i \in Nat
        BY <1>7, <1>t, <2>2, HeardMail DEF Mail
      <3> QED
        BY <1>7, <1>t, <2>2, <3>1, HeardMail
    <2> QED
      BY <1>0, <1>7, <2>1, <2>2
  <1> QED
    BY <1>3, <1>4, <1>5, <1>6, <1>7, ServedMoves

LEMMA HeardIsTrueStep ==
    Base /\ OnlyOne /\ TracksAreOfMyRoom /\ OneUpdateEach /\ HeardIsTrue /\ [Next]_vars => HeardIsTrue'
  <1> SUFFICES ASSUME Base, OnlyOne, TracksAreOfMyRoom, OneUpdateEach, HeardIsTrue, [Next]_vars,
                      NEW p \in Objects, NEW q \in Objects, NEW m \in {"muted", "unmuted"},
                      Serving(p)', p \notin behind', q \notin contended',
                      NEW c \in Conns, c = made'[p].ws, HasHeard(c, q, m)'
               PROVE  m = track'[q] \/ Muting(q)'
    <2>1. Base /\ [Next]_vars => TypeOK'
      BY TypesStep
    <2> QED
      BY <2>1 DEF HeardIsTrue, Serving, InRoom, TypeOK
  <1>t. /\ TypeOK /\ TasksFit /\ made'[p] # None /\ p \notin behind /\ q \notin contended
    BY HistoryGrows DEF Base, Serving, InRoom
  <1>1. made[p] # None
    BY <1>t, Newcomer DEF HasHeard, Mail
  <1>2. Serving(p) /\ c = made[p].ws
    BY <1>1, ServingLasts
  <1>3. CASE Hears(c, Message(m, q))
    <2>1. PICK r, u : Sends(r, u, Message(m, q))
      BY <1>3 DEF Hears
    <2>2. PICK d \in Conns : AnnounceMuted(d) /\ Message(m, q) = Message(task[d].step, task[d].who)
      BY <2>1 DEF Sends, Message
    <2>3. task[d].step = m /\ task[d].who = q /\ track' = track
      BY <2>2 DEF Message, AnnounceMuted, room
    <2> QED
      BY <1>t, <2>3 DEF OneUpdateEach
  <1>4. CASE HasHeard(c, q, m)
    <2>1. /\ m = track[q] \/ Muting(q)
          /\ InMyRoom(p, q) /\ made[q].user # made[p].user
      <3>1. Message(m, q).op = m /\ Message(m, q).about = q
        BY DEF Message
      <3>2. \/ Listed(c) /\ view[c].tracks[q] = m
            \/ \E i \in Mail(c) : mailbox[c][i] = Message(m, q)
        BY <1>4 DEF HasHeard
      <3> QED
        BY <1>2, <1>4, <1>t, <3>1, <3>2 DEF HeardIsTrue, TracksAreOfMyRoom
    <2>2. CASE m = track[q]
      <3>1. ASSUME NEW d \in Conns, AddTrack(d) PROVE track'[q] = track[q]
        BY <1>t, <2>2, <3>1 DEF AddTrack, TypeOK
      <3>2. ASSUME NEW d \in Conns, NEW n \in {"muted", "unmuted"}, MuteUpdate(d, n), track'[q] # track[q]
            PROVE  Muting(q)'
        <4>1. Own(d) = q
          BY <1>t, <3>2 DEF MuteUpdate, TypeOK
        <4>2. task'[d].step = n /\ task'[d].who = q
          BY <1>t, <3>2, <4>1 DEF MuteUpdate, TypeOK, Step, Idle
        <4> QED
          BY <4>2 DEF Muting
      <3> QED
        BY <2>2, <3>1, <3>2, TrackMoves
    <2>3. CASE Muting(q) /\ m # track[q] /\ ~Muting(q)'
      <3>1. PICK d \in Conns : task[d].step \in {"muted", "unmuted"} /\ task[d].who = q
        BY <2>3 DEF Muting
      <3>2. task'[d] # task[d]
        BY <2>3, <3>1 DEF Muting
      <3>3. AnnounceMuted(d) /\ TrackTask(d) /\ task[d].step = track[q]
        BY <1>t, <3>1, <3>2, TaskMoves, Sections DEF TasksFit, TaskFits, OneUpdateEach
      <3>4. PICK k \in {"muted", "unmuted"} : k = task[d].step /\ k # m
        BY <2>3, <3>1, <3>3
      <3>5. Broadcast(made[p].room, made[q].user, Message(k, q))
        BY <2>1, <3>1, <3>3, <3>4 DEF AnnounceMuted, TrackTask, Stay, InMyRoom
      <3>6. mailbox'[c] = Append(mailbox[c], Message(k, q))
        BY <1>2, <2>1, <3>5 DEF Broadcast, Serving, Members, InRoom
      <3>7. /\ mailbox[c] \in Seq(Messages) /\ Message(k, q) \in Messages
            /\ Message(k, q).op = k /\ Message(k, q).about = q /\ Message(k, q) # Message(m, q)
        BY <1>t, <3>4 DEF TypeOK, Message, Messages
      <3>8. PICK n \in Nat : /\ n = Len(mailbox'[c]) /\ n > 0 /\ mailbox'[c][n] = Message(k, q)
                             /\ Mail(c)' = 1..n
        BY <3>6, <3>7 DEF Mail
      <3>9. \A i \in Nat : i < n => ToldAfter(c, i, {"muted", "unmuted"}, q)'
        BY SMTT(30), <3>7, <3>8 DEF ToldAfter
      <3>10. ToldAfter(c, 0, {"muted", "unmuted"}, q)'
        BY <3>8, <3>9
      <3>11. \A i \in Mail(c)' : mailbox'[c][i] = Message(m, q) =>
                                   ToldAfter(c, i, {"muted", "unmuted"}, q)'
        <4>1. \A i \in Mail(c)' : i \in Nat /\ (i < n \/ i = n)
          BY <3>8
        <4> QED
          BY <3>7, <3>8, <3>9, <4>1
      <3> QED
        BY <3>10, <3>11 DEF HasHeard
    <2> QED
      BY <2>1, <2>2, <2>3
  <1> QED
    BY <1>1, <1>2, <1>3, <1>4, HasHeardSince

\* What is true of a connection that has been in one room at a time.
LEMMA MuteInvariant == Spec => [](OnlyOne /\ TracksAreOfMyRoom /\ OneUpdateEach /\ HeardIsTrue)
  <1> DEFINE I == OnlyOne /\ TracksAreOfMyRoom /\ OneUpdateEach /\ HeardIsTrue
  <1>1. Init => I
    <2> SUFFICES ASSUME Init PROVE I
      OBVIOUS
    <2>1. \A p \in Objects : ~Serving(p)
      BY DEF Init, Serving, InRoom
    <2>2. \A c \in Conns : task[c].step = "idle"
      BY DEF Init, Idle
    <2> QED
      BY <2>1, <2>2 DEF OnlyOne, TracksAreOfMyRoom, OneUpdateEach, HeardIsTrue
  <1>2. Base /\ I /\ [Next]_vars => I'
    BY OnlyOneStep, TracksAreOfMyRoomStep, OneUpdateEachStep, HeardIsTrueStep
  <1> QED
    BY <1>1, <1>2, BaseInvariant, PTL DEF Spec

\* What a client was last told of a track is so, or about to be announced: the mark that
\* MUTE_UPDATE sets and the MUTE_UPDATE it broadcasts do not come apart on their way to any
\* number of clients, unless two connections of one user update the track at once.
THEOREM MuteStateIsTrue == Spec => []MuteStateIsKnown
  <1>1. Base /\ HeardIsTrue => MuteStateIsKnown
    <2> SUFFICES ASSUME Base, HeardIsTrue, NEW p \in Objects, NEW q \in Objects,
                        NEW m \in {"muted", "unmuted"}, Attending(p), p \notin behind,
                        q \notin contended, HeardMute(made[p].ws, q, m)
                 PROVE  m = track[q] \/ Muting(q)
      BY DEF MuteStateIsKnown
    <2>1. Serving(p) /\ Listed(made[p].ws)
      BY DEF Attending, Serving, Listed
    <2> QED
      BY <2>1 DEF HeardMute, HasHeard, HeardIsTrue
  <1> QED
    BY <1>1, BaseInvariant, MuteInvariant, PTL

-----------------------------------------------------------------------------
(* NoPhantomTrack. *)

\* Once its removal is the last that connection c hears of track q, it does not keep it.
LEMMA RemoveIsLast ==
    ASSUME TypeOK, NEW c \in Conns, NEW q \in Objects,
           mailbox'[c] = Append(mailbox[c], Message("remove", q))
    PROVE  Dropped(c, q)' /\ ~Keeps(c, q)'
  <1>1. /\ mailbox[c] \in Seq(Messages) /\ Message("remove", q) \in Messages
        /\ Message("remove", q).op = "remove"
    BY DEF TypeOK, Message, Messages
  <1>2. PICK n \in Nat : /\ Mail(c)' = 1..n /\ n > 0 /\ mailbox'[c][n] = Message("remove", q)
    BY <1>1 DEF Mail
  <1>3. n \in Mail(c)' /\ ~ToldAfter(c, n, {"add"}, q)'
    BY <1>2 DEF ToldAfter
  <1> QED
    BY <1>2, <1>3 DEF Dropped, Keeps

\* A track that a client comes to keep is announced, or in the reply to its ROOM_JOIN.
LEMMA KeepsSince ==
    ASSUME Base, [Next]_vars, NEW p \in Objects, made[p] # None, Serving(p)',
           NEW c \in Conns, c = made[p].ws, NEW q \in Objects, Keeps(c, q)'
    PROVE  \/ Keeps(c, q)
           \/ Hears(c, Message("add", q))
           \/ Snapshot(c) /\ ~Listed(c) /\ InRoom(q)
  <1>t. TypeOK
    BY DEF Base
  <1>0. /\ (Listed(c)' /\ view'[c].tracks[q] # "unknown") \/ ToldAfter(c, 0, {"add"}, q)'
        /\ \A i \in Mail(c)' : mailbox'[c][i] = Message("remove", q) => ToldAfter(c, i, {"add"}, q)'
    BY DEF Keeps
  <1>1. SUFFICES \/ /\ (Listed(c) /\ view[c].tracks[q] # "unknown") \/ ToldAfter(c, 0, {"add"}, q)
                    /\ \A i \in Mail(c) : mailbox[c][i] = Message("remove", q) =>
                                            ToldAfter(c, i, {"add"}, q)
                 \/ Hears(c, Message("add", q))
                 \/ Snapshot(c) /\ ~Listed(c) /\ InRoom(q)
    BY DEF Keeps
  <1>3. CASE mailbox'[c] = mailbox[c] /\ (view'[c].tracks = view[c].tracks /\ (Listed(c)' => Listed(c)))
    BY <1>0, <1>3, SameMail
  <1>4. CASE mailbox'[c] = mailbox[c] /\ Snapshot(c) /\ ~Listed(c)
    <2>1. view'[c].tracks[q] # "unknown" => InRoom(q)
      BY <1>4, <1>t DEF Snapshot, TypeOK, ViewState, Members
    <2> QED
      BY <1>0, <1>4, <2>1, SameMail
  <1>5. ReplyJoined(c) => view'[c].tracks = view[c].tracks
    BY <1>t DEF ReplyJoined, TypeOK, ViewState
  <1>6. CASE Deliver(c) /\ Listed(c)
    <2>1. /\ 1 \in Mail(c) /\ mailbox[c][1] \in Messages
          /\ Effect(view'[c], view[c], mailbox[c][1], q)
      BY <1>6, <1>t, DeliveredView
    <2>2. view[c].tracks[q] # "unknown" \/ ToldAfter(c, 0, {"add"}, q)
      <3>1. ToldAfter(c, 0, {"add"}, q) <=>
              ToldAfter(c, 0, {"add"}, q)' \/ (mailbox[c][1].op = "add" /\ mailbox[c][1].about = q)
        BY <1>6, <1>t, DeliveredMail
      <3> QED
        BY <1>0, <2>1, <3>1 DEF Effect
    <2>3. ASSUME NEW i \in Mail(c), mailbox[c][i] = Message("remove", q)
          PROVE  ToldAfter(c, i, {"add"}, q)
      <3>1. CASE i = 1
        <4>0. mailbox[c][1].op = "remove" /\ mailbox[c][1].about = q
          BY <2>3, <3>1 DEF Message
        <4>1. view'[c].tracks[q] = "unknown"
          BY <2>1, <4>0 DEF Effect
        <4> QED
          BY <1>0, <1>6, <1>t, <3>1, <4>1, DeliveredMail
      <3>2. CASE i # 1
        <4>1. PICK j \in Nat : j = i - 1 /\ j \in Mail(c)' /\ j + 1 = i
          BY SMTT(30), <1>6, <1>t, <3>2, DeliveredMail DEF Mail
        <4>2. mailbox'[c][j] = Message("remove", q)
          BY <1>6, <1>t, <2>3, <4>1, DeliveredMail
        <4> QED
          BY <1>0, <1>6, <1>t, <4>1, <4>2, DeliveredMail
      <3> QED
        BY <3>1, <3>2
    <2> QED
      BY <1>6, <2>2, <2>3
  <1>7. ASSUME NEW n \in Messages, Hears(c, n), view'[c] = view[c], Listed(c)' => Listed(c),
               n # Message("add", q)
        PROVE  /\ (Listed(c) /\ view[c].tracks[q] # "unknown") \/ ToldAfter(c, 0, {"add"}, q)
               /\ \A i \in Mail(c) : mailbox[c][i] = Message("remove", q) => ToldAfter(c, i, {"add"}, q)
    <2>1. ~(n.op \in {"add"} /\ n.about = q)
      BY <1>7 DEF Messages, Message
    <2>2. \A i \in Nat : ToldAfter(c, i, {"add"}, q)' => ToldAfter(c, i, {"add"}, q)
      BY <1>7, <1>t, <2>1, HeardMail
    <2>3. \A i \in Mail(c) : i \in Nat /\ i \in Mail(c)' /\ mailbox'[c][i] = mailbox[c][i]
      BY <1>7, <1>t, HeardMail DEF Mail
    <2> QED
      BY <1>0, <1>7, <2>2, <2>3
  <1> QED
    BY <1>3, <1>4, <1>5, <1>6, <1>7, ServedMoves

\* A client that has dropped a track takes it up again only when it hears of it.
LEMMA DroppedLasts ==
    ASSUME Base, [Next]_vars, NEW p \in Objects, made[p] # None, Serving(p)',
           NEW c \in Conns, c = made[p].ws, NEW q \in Objects, Dropped(c, q),
           ~Hears(c, Message("add", q))
    PROVE  Dropped(c, q)'
  <1>t. TypeOK
    BY DEF Base
  <1>1. CASE Listed(c) /\ ~Keeps(c, q)
    <2>1. ~Keeps(c, q)'
      BY <1>1, KeepsSince
    <2>2. Listed(c)'
      BY <1>1, ServedMoves
    <2> QED
      BY <2>1, <2>2 DEF Dropped
  <1>2. ASSUME NEW i \in Mail(c), mailbox[c][i] = Message("remove", q), ~ToldAfter(c, i, {"add"}, q)
        PROVE  Dropped(c, q)'
    <2>1. CASE mailbox'[c] = mailbox[c]
      BY <1>2, <2>1, SameMail DEF Dropped
    <2>2. CASE Deliver(c) /\ Listed(c)'
      <3>1. CASE i = 1
        <4>1. view'[c].tracks[q] = "unknown"
          <5>1. Effect(view'[c], view[c], mailbox[c][1], q)
            BY <1>t, <2>2, DeliveredView
          <5>2. mailbox[c][1].op = "remove" /\ mailbox[c][1].about = q
            BY <1>2, <3>1 DEF Message
          <5> QED
            BY <5>1, <5>2 DEF Effect
        <4>2. ~ToldAfter(c, 0, {"add"}, q)'
          BY <1>2, <1>t, <2>2, <3>1, DeliveredMail
        <4> QED
          BY <2>2, <4>1, <4>2 DEF Dropped, Keeps
      <3>2. CASE i # 1
        <4>1. PICK j \in Nat : j = i - 1 /\ j \in Mail(c)' /\ j + 1 = i
          BY <1>t, <2>2, <3>2, DeliveredMail DEF Mail
        <4>2. mailbox'[c][j] = Message("remove", q) /\ ~ToldAfter(c, j, {"add"}, q)'
          BY <1>2, <1>t, <2>2, <4>1, DeliveredMail
        <4> QED
          BY <4>1, <4>2 DEF Dropped
      <3> QED
        BY <3>1, <3>2
    <2>3. ASSUME NEW n \in Messages, Hears(c, n), n # Message("add", q)
          PROVE  Dropped(c, q)'
      <3>1. ~(n.op \in {"add"} /\ n.about = q)
        BY <2>3 DEF Messages, Message
      <3>2. i \in Nat /\ i \in Mail(c)' /\ mailbox'[c][i] = Message("remove", q)
        BY SMTT(30), <1>2, <1>t, <2>3, HeardMail DEF Mail
      <3>3. ~ToldAfter(c, i, {"add"}, q)'
        BY <1>2, <1>t, <2>3, <3>1, <3>2, HeardMail
      <3> QED
        BY <3>2, <3>3 DEF Dropped
    <2> QED
      BY <2>1, <2>2, <2>3, ServedMoves
  <1> QED
    BY <1>1, <1>2 DEF Dropped

\* What connection c has been told about track q is about a track of another in p's room.
LEMMA KeptIsOfMyRoom ==
    ASSUME Base, TracksAreOfMyRoom, NEW p \in Objects, Serving(p), p \notin behind,
           NEW c \in Conns, c = made[p].ws, NEW q \in Objects, Keeps(c, q)
    PROVE  /\ Published(q) /\ made[q].room = made[p].room /\ made[q].user # made[p].user
           /\ p \in Members(made[q].room)
  <1>1. \/ Listed(c) /\ view[c].tracks[q] # "unknown"
        \/ \E i \in Mail(c) : mailbox[c][i].op = "add" /\ mailbox[c][i].about = q
    BY DEF Keeps, ToldAfter
  <1>2. InMyRoom(p, q) /\ made[q].user # made[p].user
    BY <1>1 DEF TracksAreOfMyRoom
  <1> QED
    BY <1>2 DEF InMyRoom, Members, Serving, InRoom

\* Those whom a cleanup tells hear it, and it tells all who are then in the room.
LEMMA ToldHaveDroppedStep ==
    Base /\ OnlyOne /\ TracksAreOfMyRoom /\ ToldHaveDropped /\ [Next]_vars => ToldHaveDropped'
  <1> SUFFICES ASSUME Base, OnlyOne, TracksAreOfMyRoom, ToldHaveDropped, [Next]_vars,
                      NEW e \in Conns, NEW p \in Objects, NEW q \in Objects,
                      task'[e].step \in {"announce_left", "remove"}, task'[e].who = q,
                      p \in task'[e].told, Serving(p)', p \notin behind', Others(p, q)',
                      q \notin unheard', NEW c \in Conns, c = made'[p].ws
               PROVE  Dropped(c, q)'
    <2>1. Base /\ [Next]_vars => TypeOK'
      BY TypesStep
    <2> QED
      BY <2>1 DEF ToldHaveDropped, Serving, InRoom, TypeOK
  <1>t. TypeOK /\ TasksFit /\ p \notin behind /\ q \notin unheard
    BY HistoryGrows DEF Base
  <1>1. CASE task'[e] = task[e] \/ AnnounceLost(e)
    <2>1. /\ task[e].step \in {"announce_left", "remove"} /\ task[e].who = q /\ p \in task[e].told
      <3>1. AnnounceLost(e) => /\ task'[e].told = task[e].told /\ task'[e].who = task[e].who
                              /\ task[e].step = "announce_left"
        BY <1>t, ThenEntry DEF AnnounceLost, Continue, Steps
      <3> QED
        BY <1>1, <3>1
    <2>2. made[p] # None /\ made[q] # None
      BY <1>t, <2>1 DEF TasksFit, TaskFits, CleanupTask, Stay
    <2>3. Serving(p) /\ made'[p] = made[p] /\ made'[q] = made[q]
      BY <2>2, ServingLasts, Lasting
    <2>4. Dropped(c, q)
      BY <1>t, <2>1, <2>2, <2>3 DEF ToldHaveDropped, Others
    <2>5. ASSUME Hears(c, Message("add", q)) PROVE FALSE
      <3>1. PICK r, u : Sends(r, u, Message("add", q))
        BY <2>5 DEF Hears
      <3>2. PICK d \in Conns : AnnounceTrack(d) /\ Message("add", q) = Message("add", task[d].who)
        <4>1. ~\E d \in Conns : AnnounceMuted(d) /\ Message("add", q) = Message(task[d].step, task[d].who)
          BY DEF AnnounceMuted, Message
        <4> QED
          BY <3>1, <4>1 DEF Sends, Message
      <3>3. task[d].who = q
        BY <3>2 DEF Message
      <3>4. AnnouncedGone(q)
        BY <2>1 DEF AnnouncedGone
      <3> QED
        BY <3>2, <3>3, <3>4 DEF AnnounceTrack
    <2> QED
      BY <2>2, <2>3, <2>4, <2>5, DroppedLasts
  <1>2. CASE AnnounceLostTracks(e)
    <2>1. /\ task[e].lost /\ task[e].who = q /\ p \in Members(task[e].room) /\ TaskFits(e)
          /\ task[e].step = "announce_tracks"
      BY <1>2, <1>t DEF AnnounceLostTracks, Continue, TypeOK, TaskState, TasksFit
    <2>2. made[p] # None /\ Stay(q, task[e].room, user_id[e])
      BY <2>1 DEF Members, TaskFits, CleanupTask
    <2>3. Serving(p) /\ made'[p] = made[p] /\ made'[q] = made[q]
      BY <2>2, ServingLasts, Lasting DEF Stay
    <2>4. made[p].user # user_id[e]
      BY <2>2, <2>3 DEF Others, Stay
    <2>5. Broadcast(task[e].room, user_id[e], Message("remove", q))
      BY <1>2, <2>1 DEF AnnounceLostTracks
    <2>6. mailbox'[c] = Append(mailbox[c], Message("remove", q))
      BY <2>1, <2>3, <2>4, <2>5 DEF Broadcast, Serving
    <2> QED
      BY <1>t, <2>6, RemoveIsLast
  <1> QED
    BY <1>1, <1>2, <1>t, TaskMoves, NextSection

\* A participant that leaves its room is to be announced, or is known to have gone unheard.
LEMMA GoneIsToAnnounce ==
    ASSUME Base, [Next]_vars, NEW q \in Objects, InRoom(q), ~InRoom(q)'
    PROVE  \/ ToAnnounceGone(q)' \/ q \in unheard'
           \/ \E d \in Conns : /\ task[d].step = "remove" /\ task[d].who = q
                              /\ Members(made[q].room) \subseteq task[d].told
  <1>t. TypeOK /\ Placed /\ TasksFit /\ made[q] # None
    BY DEF Base, InRoom
  <1>q. q # None
    OBVIOUS
  <1>1. ASSUME NEW c \in Conns, NEW r \in Rooms, RoomJoin(c, r) PROVE FALSE
    <2>0. PICK o \in Objects : /\ participants[r][user_id[c]] = None
                               /\ participants' = [participants EXCEPT ![r][user_id[c]] = o]
      BY <1>1 DEF RoomJoin
    <2>1. \A u \in Users, s \in Rooms : participants[s][u] # None => participants'[s][u] = participants[s][u]
      BY <1>t, <2>0 DEF TypeOK
    <2>2. made[q].room \in Rooms /\ made[q].user \in Users /\ made'[q] = made[q]
      BY <1>t, Lasting DEF TypeOK
    <2> QED
      BY <1>q, <2>1, <2>2 DEF InRoom
  <1>2. ASSUME NEW c \in Conns, NEW r \in Rooms, RoomLeave(c, r) PROVE ToAnnounceGone(q)'
    <2>1. participants[r][user_id[c]] = q
      <3>1. TakeOut(r, user_id[c]) /\ user_id[c] \in Users
        BY <1>2, <1>t DEF RoomLeave, TypeOK
      <3> QED
        BY <1>t, <3>1, TakeOutFacts
    <2>2. task'[c].step = "leave_tracks" /\ task'[c].who = q
      BY <1>2, <1>t, <2>1 DEF RoomLeave, TypeOK, Step, Idle
    <2> QED
      BY <2>2 DEF ToAnnounceGone, ToAnnounce
  <1>3. ASSUME NEW u \in Users, NEW r \in Rooms, ReaperRemove(u, r) PROVE ToAnnounceGone(q)'
    <2>1. participants[r][u] = q
      <3>1. TakeOut(r, u)
        BY <1>3 DEF ReaperRemove
      <3> QED
        BY <1>t, <3>1, TakeOutFacts
    <2>2. <<q, "tracks">> \in reaper'.reaped
      <3>1. reaper'.reaped = IF participants[r][u] = None THEN reaper.reaped
                             ELSE reaper.reaped \cup {<<participants[r][u], "tracks">>}
        BY <1>3, <1>t, ReaperRemoveEntry
      <3> QED
        BY <1>q, <2>1, <3>1
    <2> QED
      BY <2>2 DEF ToAnnounceGone
  <1>4. ASSUME NEW d \in Conns, RemoveLost(d), q \notin unheard'
        PROVE  /\ task[d].step = "remove" /\ task[d].who = q
               /\ Members(made[q].room) \subseteq task[d].told
    <2>1. /\ TakeOut(task[d].room, user_id[d]) /\ user_id[d] \in Users /\ task[d].room \in Rooms
          /\ task[d].step = "remove"
      BY <1>4, <1>t DEF RemoveLost, Continue, TypeOK, TasksFit, TaskFits, CleanupTask
    <2>2. participants[task[d].room][user_id[d]] = q
      BY <1>t, <2>1, TakeOutFacts
    <2>3. made[q].room = task[d].room
      BY <1>t, <1>q, <2>1, <2>2 DEF Placed, Stay
    <2> QED
      BY <1>4, <1>q, <2>1, <2>2, <2>3 DEF RemoveLost
  <1>5. ~UNCHANGED <<made, participants>>
    BY DEF InRoom
  <1> QED
    BY <1>1, <1>2, <1>3, <1>4, <1>5, RoomMoves

LEMMA KeptAreThereStep ==
    Base /\ OnlyOne /\ TracksAreOfMyRoom /\ ToldHaveDropped /\ KeptAreThere /\ [Next]_vars => KeptAreThere'
  <1> SUFFICES ASSUME Base, OnlyOne, TracksAreOfMyRoom, ToldHaveDropped, KeptAreThere, [Next]_vars,
                      NEW p \in Objects, NEW q \in Objects, Serving(p)', p \notin behind',
                      NEW c \in Conns, c = made'[p].ws, Keeps(c, q)'
               PROVE  InRoom(q)' \/ ToAnnounceGone(q)' \/ q \in unheard'
    <2>1. Base /\ [Next]_vars => TypeOK'
      BY TypesStep
    <2> QED
      BY <2>1 DEF KeptAreThere, Serving, InRoom, TypeOK
  <1>t. TypeOK /\ TasksFit /\ made'[p] # None /\ p \notin behind /\ unheard \subseteq unheard'
    BY HistoryGrows DEF Base, Serving, InRoom
  <1>1. made[p] # None
    BY <1>t, Newcomer DEF Keeps, Mail, ToldAfter
  <1>2. Serving(p) /\ c = made[p].ws
    BY <1>1, ServingLasts
  <1>3. CASE Hears(c, Message("add", q))
    <2>1. PICK r, u : Sends(r, u, Message("add", q))
      BY <1>3 DEF Hears
    <2>2. PICK d \in Conns : AnnounceTrack(d) /\ Message("add", q) = Message("add", task[d].who)
      <3>1. ~\E d \in Conns : AnnounceMuted(d) /\ Message("add", q) = Message(task[d].step, task[d].who)
        BY DEF AnnounceMuted, Message
      <3> QED
        BY <2>1, <3>1 DEF Sends, Message
    <2>3. task[d].who = q
      BY <2>2 DEF Message
    <2>4. made' = made /\ participants' = participants
      BY <2>2 DEF AnnounceTrack, room
    <2> QED
      BY <2>2, <2>3, <2>4 DEF AnnounceTrack, AnnouncedGone, InRoom
  <1>4. CASE Snapshot(c) /\ InRoom(q)
    BY <1>4 DEF Snapshot, room, InRoom
  <1>5. CASE Keeps(c, q)
    <2>0. /\ Published(q) /\ made[q].room = made[p].room /\ made[q].user # made[p].user
          /\ p \in Members(made[q].room)
      BY <1>2, <1>5, <1>t, KeptIsOfMyRoom
    <2>1. InRoom(q) \/ ToAnnounceGone(q) \/ q \in unheard
      BY <1>2, <1>5, <1>t DEF KeptAreThere
    <2>2. ASSUME Broadcast(made[q].room, None, Message("remove", q)) PROVE FALSE
      <3>1. made[p].user # None
        BY ZenonT(60), <1>1, <1>t DEF TypeOK
      <3>2. mailbox'[c] = Append(mailbox[c], Message("remove", q))
        BY <1>2, <2>0, <2>2, <3>1 DEF Broadcast, Serving
      <3> QED
        BY <1>t, <3>2, RemoveIsLast
    <2>3. CASE ToAnnounceGone(q) /\ ~ToAnnounceGone(q)'
      <3>1. ASSUME NEW d \in Conns, task[d].step = "leave_tracks", task[d].who = q PROVE FALSE
        <4>1. task'[d] # task[d]
          BY <2>3, <3>1 DEF ToAnnounceGone, ToAnnounce
        <4>2. AnnounceLeaverTracks(d) /\ LeaveTask(d)
          BY <1>t, <3>1, <4>1, TaskMoves, Sections DEF TasksFit, TaskFits
        <4>3. task[d].room = made[q].room
          BY <3>1, <4>2 DEF LeaveTask, Stay
        <4> QED
          BY <2>0, <2>2, <3>1, <4>2, <4>3 DEF AnnounceLeaverTracks, Published
      <3>2. ASSUME <<q, "tracks">> \in reaper.reaped PROVE FALSE
        <4>1. <<q, "tracks">> \notin reaper'.reaped
          BY <2>3 DEF ToAnnounceGone
        <4>2. ASSUME NEW u \in Users, NEW r \in Rooms, ReaperRemove(u, r) PROVE FALSE
          <5>1. reaper.reaped \subseteq reaper'.reaped
            BY <1>t, <4>2, ReaperRemoveEntry
          <5> QED
            BY <3>2, <4>1, <5>1
        <4>3. ASSUME NEW r \in Rooms, ReaperJudge(r) PROVE FALSE
          BY <3>2, <4>1, <4>3, <1>t DEF ReaperJudge, TypeOK, ReaperState
        <4>4. PICK o \in Objects, n \in {"tracks", "left"} : ReaperAnnounce(o, n)
          BY <3>2, <4>1, <4>2, <4>3, ReaperMoves
        <4>5. o = q /\ n = "tracks"
          <5>1. reaper'.reaped = IF n = "tracks" THEN (reaper.reaped \ {<<o, n>>}) \cup {<<o, "left">>}
                                 ELSE reaper.reaped \ {<<o, n>>}
            BY <1>t, <4>4, ReaperAnnounceEntry
          <5> QED
            BY <3>2, <4>1, <5>1
        <4> QED
          BY <2>0, <2>2, <4>4, <4>5 DEF ReaperAnnounce, Published
      <3> QED
        BY <2>3, <3>1, <3>2 DEF ToAnnounceGone, ToAnnounce
    <2>4. CASE InRoom(q) /\ ~InRoom(q)' /\ ~ToAnnounceGone(q)' /\ q \notin unheard'
      <3>1. PICK d \in Conns : /\ task[d].step = "remove" /\ task[d].who = q
                               /\ Members(made[q].room) \subseteq task[d].told
        BY <2>4, GoneIsToAnnounce
      <3>2. p \in task[d].told /\ Others(p, q) /\ q \notin unheard
        BY <2>0, <2>4, <3>1, <1>t DEF Others, InRoom
      <3>3. Dropped(c, q)
        BY <1>2, <1>t, <3>1, <3>2 DEF ToldHaveDropped
      <3> QED
        BY <1>5, <3>3 DEF Dropped, Keeps
    <2> QED
      BY <1>t, <2>1, <2>3, <2>4
  <1> QED
    BY <1>1, <1>2, <1>3, <1>4, <1>5, KeepsSince

LEMMA PhantomInvariant == Spec => [](ToldHaveDropped /\ KeptAreThere)
  <1> DEFINE I == ToldHaveDropped /\ KeptAreThere
  <1>1. Init => I
    <2> SUFFICES ASSUME Init PROVE I
      OBVIOUS
    <2>1. \A p \in Objects : ~Serving(p)
      BY DEF Init, Serving, InRoom
    <2> QED
      BY <2>1 DEF ToldHaveDropped, KeptAreThere
  <1>2. Base /\ OnlyOne /\ TracksAreOfMyRoom /\ I /\ [Next]_vars => I'
    BY ToldHaveDroppedStep, KeptAreThereStep
  <1> QED
    BY <1>1, <1>2, BaseInvariant, MuteInvariant, PTL DEF Spec

\* Nobody keeps the track of a participant that is gone: ROOM_LEAVE, cleanup and the reaper
\* each announce whom they take out of a room to whoever was told of its track, except where
\* the race of a cleanup with a join or of a publication with a removal says otherwise.
THEOREM NobodyKeepsAPhantom == Spec => []NoPhantomTrack
  <1>1. Base /\ TracksAreOfMyRoom /\ KeptAreThere => NoPhantomTrack
    <2> SUFFICES ASSUME Base, TracksAreOfMyRoom, KeptAreThere, NEW p \in Objects, NEW q \in Objects,
                        Attending(p), p \notin behind, NEW c \in Conns, c = made[p].ws, KnowsTrack(c, q)
                 PROVE  /\ Others(p, q) /\ made[q].room = made[p].room
                        /\ InRoom(q) \/ ToAnnounceGone(q) \/ q \in unheard
      BY DEF NoPhantomTrack, Base, TypeOK, Attending, InRoom
    <2>1. Serving(p) /\ Listed(c)
      BY DEF Attending, Serving, Listed
    <2>2. Keeps(c, q)
      BY <2>1 DEF Keeps, KnowsTrack
    <2>3. Published(q) /\ made[q].room = made[p].room /\ made[q].user # made[p].user
      BY <2>1, <2>2, KeptIsOfMyRoom
    <2>4. made[q] # None
      BY <2>3 DEF Base, Placed, Published
    <2> QED
      BY <2>1, <2>2, <2>3, <2>4 DEF KeptAreThere, Others
  <1> QED
    BY <1>1, BaseInvariant, MuteInvariant, PhantomInvariant, PTL

-----------------------------------------------------------------------------
(* MembersAreKnown. *)

\* A stay is over once somebody has been taken out.
LEMMA EndingSince ==
    ASSUME Base, [Next]_vars, NEW r \in Rooms, NEW u \in Users, Ending(r, u)'
    PROVE  Ending(r, u) \/ TakeOut(r, u)
  <1>t. TypeOK /\ TasksFit
    BY DEF Base
  <1>1. ASSUME NEW c \in Conns, task'[c].step \in {"leave_tracks", "leave_left"},
               task'[c].room = r, user_id'[c] = u
        PROVE  Ending(r, u) \/ TakeOut(r, u)
    <2>1. CASE task'[c] = task[c] \/ AnnounceLeaverTracks(c)
      <3>1. task[c].step \in {"leave_tracks", "leave_left"} /\ task[c].room = r /\ task[c] # Idle
            /\ task'[c].who = task[c].who
        BY <1>1, <1>t, <2>1, ThenEntry DEF AnnounceLeaverTracks, Continue, Steps, Idle
      <3>2. user_id[c] = u
        BY <1>1, <3>1, TaskKeeps
      <3> QED
        BY <3>1, <3>2 DEF Ending
    <2>2. ASSUME NEW s \in Rooms, RoomLeave(c, s) PROVE TakeOut(r, u)
      <3>1. task'[c].room = s /\ user_id' = user_id
        BY <1>t, <2>2 DEF RoomLeave, TypeOK, Step, Idle, session
      <3> QED
        BY <1>1, <2>2, <3>1 DEF RoomLeave
    <2> QED
      BY <1>1, <1>t, <2>1, <2>2, TaskMoves, NextSection
  <1>2. ASSUME NEW x \in reaper'.reaped, made'[x[1]].room = r, made'[x[1]].user = u
        PROVE  Ending(r, u) \/ TakeOut(r, u)
    <2>1. ASSUME NEW y \in reaper.reaped, y[1] = x[1] PROVE Ending(r, u)
      <3>1. x[1] \in Objects /\ made[x[1]] # None
        BY <2>1 DEF Base, ReapedAreGone, TypeOK, ReaperState
      <3>2. made'[x[1]] = made[x[1]]
        BY <3>1, Lasting
      <3> QED
        BY <1>2, <2>1, <3>2 DEF Ending
    <2>2. ASSUME NEW v \in Users, NEW s \in Rooms, ReaperRemove(v, s), x \notin reaper.reaped
          PROVE  TakeOut(r, u)
      <3>1. reaper'.reaped = IF participants[s][v] = None THEN reaper.reaped
                             ELSE reaper.reaped \cup {<<participants[s][v], "tracks">>}
        BY <1>t, <2>2, ReaperRemoveEntry
      <3>2. participants[s][v] # None /\ x[1] = participants[s][v]
        BY <2>2, <3>1
      <3>3. made[x[1]].room = s /\ made[x[1]].user = v
        BY <3>2 DEF Base, Placed, Stay
      <3> QED
        BY <1>2, <2>2, <3>3 DEF ReaperRemove, TakeOut
    <2>3. ASSUME NEW o \in Objects, NEW n \in {"tracks", "left"}, ReaperAnnounce(o, n)
          PROVE  \E y \in reaper.reaped : y[1] = x[1]
      <3>1. reaper'.reaped = IF n = "tracks" THEN (reaper.reaped \ {<<o, n>>}) \cup {<<o, "left">>}
                             ELSE reaper.reaped \ {<<o, n>>}
        BY <1>t, <2>3, ReaperAnnounceEntry
      <3>2. <<o, n>> \in reaper.reaped
        BY <2>3 DEF ReaperAnnounce
      <3>3. x \in reaper.reaped \/ x = <<o, "left">>
        BY <3>1
      <3> QED
        BY <3>2, <3>3
    <2>4. ASSUME NEW s \in Rooms, ReaperJudge(s) PROVE reaper'.reaped = reaper.reaped
      BY <1>t, <2>4 DEF ReaperJudge, TypeOK, ReaperState
    <2> QED
      BY <2>1, <2>2, <2>3, <2>4, ReaperMoves
  <1> QED
    BY <1>1, <1>2 DEF Ending

LEMMA RejoinedSinceStep == Base /\ RejoinedSince /\ [Next]_vars => RejoinedSince'
  <1> SUFFICES ASSUME Base, RejoinedSince, [Next]_vars, NEW q \in Objects, InRoom(q)',
                      NEW r \in Rooms, NEW u \in Users, r = made'[q].room, u = made'[q].user,
                      Ending(r, u)'
               PROVE  q \in rejoined'
    <2>1. Base /\ [Next]_vars => TypeOK'
      BY TypesStep
    <2> QED
      BY <2>1 DEF RejoinedSince, InRoom, TypeOK, Ending
  <1>t. TypeOK /\ Placed /\ made'[q] # None
    BY DEF Base, InRoom
  <1>1. CASE made[q] # None
    <2>1. InRoom(q) /\ made'[q] = made[q]
      BY <1>1, Lasting
    <2>2. ~TakeOut(r, u)
      BY <1>t, <2>1, TakeOutFacts
    <2>3. q \in rejoined
      BY <2>1, <2>2, EndingSince DEF RejoinedSince
    <2> QED
      BY <2>3, HistoryGrows
  <1>2. CASE made[q] = None
    <2>1. PICK c \in Conns, s \in Rooms : Birth(c, s, q)
      BY <1>2, <1>t, Born
    <2>2. s = r /\ user_id[c] = u /\ made' # made
      BY <1>2, <1>t, <2>1 DEF Birth
    <2>3. Ending(r, u)
      BY <2>2, EndingSince DEF TakeOut
    <2>4. Announcing(r, u)
      BY <2>3 DEF Ending, Announcing
    <2> QED
      BY <2>1, <2>2, <2>4 DEF Birth
  <1> QED
    BY <1>1, <1>2

\* Who is excused stays so, except that a join that is being announced stops being an excuse.
LEMMA ExcuseEnds ==
    ASSUME Base, [Next]_vars, NEW q \in Objects, made[q] # None, InRoom(q)',
           Excused(q), ~Excused(q)'
    PROVE  \E d \in Conns : /\ AnnounceJoined(d) /\ JoinTask(d) /\ task[d].who = q
                            /\ task[d].step = "joined"
  <1>t. TypeOK /\ Placed /\ TasksFit /\ made'[q] = made[q]
    BY Lasting DEF Base
  <1>n. ~ToAnnounce("snapshot", q)' /\ ~ToAnnounce("joined", q)' /\ q \notin rejoined'
        /\ ~LostAnnounced(made[q].room, made[q].user)'
    BY <1>t DEF Excused, LostAnnounced
  <1>1. ASSUME NEW d \in Conns, task[d].step = "snapshot", task[d].who = q PROVE FALSE
    <2>1. task'[d] # task[d]
      BY <1>n, <1>1 DEF ToAnnounce
    <2>2. Snapshot(d)
      BY <1>t, <1>1, <2>1, TaskMoves, Sections
    <2>3. task'[d].step = "joined" /\ task'[d].who = q
      BY <1>t, <1>1, <2>2, ThenEntry DEF Snapshot, Steps
    <2> QED
      BY <1>n, <2>3 DEF ToAnnounce
  <1>2. ASSUME NEW d \in Conns, task[d].step = "joined", task[d].who = q
        PROVE  AnnounceJoined(d) /\ JoinTask(d)
    <2>1. task'[d] # task[d]
      BY <1>n, <1>2 DEF ToAnnounce
    <2> QED
      BY <1>t, <1>2, <2>1, TaskMoves, Sections DEF TasksFit, TaskFits
  <1>3. ASSUME NEW d \in Conns, task[d].step \in {"announce_left", "remove"},
               task[d].room = made[q].room, user_id[d] = made[q].user
        PROVE  FALSE
    <2>1. user_id'[d] = user_id[d]
      BY <1>t, <1>3, SessionMoves DEF Identify, Dispatch, Idle
    <2>2. task'[d] # task[d]
      BY <1>n, <1>t, <1>3, <2>1 DEF LostAnnounced
    <2>3. CASE AnnounceLost(d)
      <3>1. task'[d].step = "remove" /\ task'[d].room = task[d].room
        BY <1>t, <2>3, ThenEntry DEF AnnounceLost, Steps
      <3> QED
        BY <1>n, <1>t, <1>3, <2>1, <3>1 DEF LostAnnounced
    <2>4. CASE RemoveLost(d)
      <3>1. TakeOut(task[d].room, user_id[d]) /\ task[d].room \in Rooms /\ user_id[d] \in Users
        BY <1>t, <2>4 DEF RemoveLost, Continue, TypeOK, TasksFit, TaskFits, CleanupTask
      <3> QED
        BY <1>t, <1>3, <3>1, TakeOutFacts
    <2> QED
      BY <1>t, <1>3, <2>2, <2>3, <2>4, TaskMoves, Sections
  <1> QED
    BY <1>1, <1>2, <1>3, <1>n, HistoryGrows DEF Excused, ToAnnounce, LostAnnounced

\* Participants of one user in one room are one and the same.
LEMMA SamePlace ==
    ASSUME NEW p \in Objects, NEW q \in Objects, InRoom(p), InRoom(q),
           made[p].room = made[q].room, made[p].user = made[q].user
    PROVE  p = q
  BY DEF InRoom

\* When a join is announced, every other participant of the room hears of it.
LEMMA JoinIsHeard ==
    ASSUME Base, [Next]_vars, NEW p \in Objects, Serving(p), NEW c \in Conns, c = made[p].ws,
           NEW q \in Objects, q \in Members(made[p].room), NEW d \in Conns,
           AnnounceJoined(d), JoinTask(d), task[d].who = q, p # q
    PROVE  mailbox'[c] = Append(mailbox[c], Message("joined", made[q].user))
  <1>1. /\ q \in Objects /\ InRoom(q) /\ made[q].room = made[p].room
        /\ task[d].room = made[p].room /\ user_id[d] = made[q].user
    BY DEF Members, JoinTask, Stay
  <1>2. made[p].user # made[q].user
    BY <1>1, SamePlace DEF Serving
  <1>3. Broadcast(made[p].room, made[q].user, Message("joined", made[q].user))
    BY <1>1 DEF AnnounceJoined
  <1> QED
    BY <1>2, <1>3 DEF Broadcast, Serving, Members, InRoom

\* Who hears that somebody has left hears it of a stay that is over, or is being given up.
LEMMA LeftNews ==
    ASSUME Base, NEW r, NEW u, NEW w, Sends(r, u, Message("left", w))
    PROVE  \/ Ending(r, w)
           \/ u = w /\ \E d \in Conns : AnnounceLost(d) /\ task[d].room = r /\ user_id[d] = w
  <1>1. ASSUME NEW d \in Conns, r = task[d].room, AnnounceLeaver(d),
               Message("left", w) = Message("left", user_id[d])
        PROVE  Ending(r, w)
    BY <1>1 DEF AnnounceLeaver, Continue, Ending, Message
  <1>2. ASSUME NEW d \in Conns, r = task[d].room, AnnounceLost(d), u = user_id[d],
               Message("left", w) = Message("left", user_id[d])
        PROVE  u = w /\ user_id[d] = w
    BY <1>2 DEF Message
  <1>3. ASSUME NEW o \in Objects, r = made[o].room, ReaperAnnounce(o, "left"),
               Message("left", w) = Message("left", made[o].user)
        PROVE  Ending(r, w)
    <2>1. <<o, "left">> \in reaper.reaped /\ w = made[o].user
      BY <1>3 DEF ReaperAnnounce, Message
    <2> QED
      BY <1>3, <2>1 DEF Ending
  <1>4. \A op, x : Message("left", w) = Message(op, x) => op = "left"
    BY DEF Message
  <1>5. \A d \in Conns : AnnounceMuted(d) => task[d].step # "left"
    BY DEF AnnounceMuted
  <1> QED
    BY <1>1, <1>2, <1>3, <1>4, <1>5 DEF Sends

\* Nobody but the participant's own later stay makes its client hear that its user has left.
LEMMA LeftMyselfStep ==
    Base /\ OnlyOne /\ RejoinedSince /\ LeftMyselfIsExcused /\ [Next]_vars => LeftMyselfIsExcused'
  <1> SUFFICES ASSUME Base, OnlyOne, RejoinedSince, LeftMyselfIsExcused, [Next]_vars,
                      NEW p \in Objects, Serving(p)', p \notin behind',
                      NEW c \in Conns, c = made'[p].ws, NEW u \in Users, u = made'[p].user,
                      NEW i \in Mail(c)', mailbox'[c][i] = Message("left", u)
               PROVE  p \in rejoined'
    <2>1. Base /\ [Next]_vars => TypeOK'
      BY TypesStep
    <2> QED
      BY <2>1 DEF LeftMyselfIsExcused, Serving, InRoom, TypeOK
  <1>t. made'[p] # None /\ p \notin behind /\ rejoined \subseteq rejoined'
    BY HistoryGrows DEF Serving, InRoom
  <1>1. made[p] # None
    BY <1>t, Newcomer DEF Mail
  <1>2. Serving(p) /\ made'[p] = made[p]
    BY <1>1, ServingLasts
  <1>3. CASE \E j \in Mail(c) : mailbox[c][j] = mailbox'[c][i]
    BY <1>2, <1>3, <1>t DEF LeftMyselfIsExcused
  <1>4. CASE Hears(c, Message("left", u))
    <2>1. PICK o \in Users \cup {None} : Sends(made[p].room, o, Message("left", u)) /\ o # u
      BY <1>2, <1>4, <1>t, HeardInMyRoom
    <2>2. Ending(made[p].room, u)
      BY <2>1, LeftNews
    <2> QED
      BY <1>2, <1>t, <2>2 DEF RejoinedSince, Serving
  <1> QED
    BY <1>3, <1>4, MailComes

\* Who is here although its user was heard to leave: the stay that was over was another.
LEMMA LeftAreExcusedStep ==
    /\ Base /\ OnlyOne /\ RejoinedSince /\ LeftMyselfIsExcused /\ LeftAreExcused /\ [Next]_vars
    => LeftAreExcused'
  <1> SUFFICES ASSUME Base, OnlyOne, RejoinedSince, LeftMyselfIsExcused, LeftAreExcused, [Next]_vars,
                      NEW p \in Objects, NEW q \in Objects, Serving(p)', p \notin behind',
                      (q \in Members(made[p].room))',
                      NEW c \in Conns, c = made'[p].ws, NEW u \in Users, u = made'[q].user,
                      NEW i \in Mail(c)', mailbox'[c][i] = Message("left", u),
                      ~ToldAfter(c, i, {"joined"}, u)', ~Excused(q)'
               PROVE  FALSE
    <2>1. Base /\ [Next]_vars => TypeOK'
      BY TypesStep
    <2> QED
      BY <2>1 DEF LeftAreExcused, Serving, InRoom, Members, TypeOK
  <1>t. TypeOK /\ made'[p] # None /\ p \notin behind /\ rejoined \subseteq rejoined' /\ q \notin rejoined'
    BY HistoryGrows DEF Base, Serving, InRoom, Excused
  <1>1. made[p] # None
    BY <1>t, Newcomer DEF Mail
  <1>2. made[q] # None
    BY Newcomer DEF Excused, Members
  <1>3. /\ Serving(p) /\ made'[p] = made[p] /\ made'[q] = made[q] /\ InRoom(q) /\ InRoom(q)'
        /\ q \in Members(made[p].room) /\ made[q].room = made[p].room
    BY <1>1, <1>2, ServingLasts, Lasting DEF Members
  <1>4. ASSUME Hears(c, Message("left", u)) PROVE FALSE
    <2>1. PICK o \in Users \cup {None} : Sends(made[p].room, o, Message("left", u)) /\ o # made[p].user
      BY <1>3, <1>4, <1>t, HeardInMyRoom
    <2>2. ~Ending(made[p].room, u)
      BY <1>3, <1>t DEF RejoinedSince
    <2>3. PICK d \in Conns : AnnounceLost(d) /\ task[d].room = made[p].room /\ user_id[d] = u
      BY <2>1, <2>2, LeftNews
    <2>4. task'[d].step = "remove" /\ task'[d].room = made[p].room /\ user_id'[d] = u
      BY <1>t, <2>3, ThenEntry DEF AnnounceLost, Steps, session
    <2> QED
      BY <1>3, <2>4 DEF Excused, LostAnnounced
  <1>5. PICK j \in Mail(c) : mailbox[c][j] = Message("left", u) /\ ~ToldAfter(c, j, {"joined"}, u)
    <2>1. CASE mailbox'[c] = mailbox[c]
      BY <2>1, SameMail
    <2>2. CASE Deliver(c)
      <3>1. i \in Nat /\ i + 1 \in Mail(c) /\ mailbox[c][i + 1] = Message("left", u)
        BY SMTT(30), <1>t, <2>2, DeliveredMail DEF Mail
      <3>2. ~ToldAfter(c, i + 1, {"joined"}, u)
        BY <1>t, <2>2, <3>1, DeliveredMail
      <3> QED
        BY <3>1, <3>2
    <2>3. ASSUME NEW m \in Messages, Hears(c, m)
          PROVE  i \in Mail(c) /\ mailbox[c][i] = Message("left", u) /\ ~ToldAfter(c, i, {"joined"}, u)
      <3>1. i \in Mail(c) /\ i \in Nat
        BY <1>4, <1>t, <2>3, HeardMail DEF Mail
      <3> QED
        BY <1>t, <2>3, <3>1, HeardMail
    <2> QED
      BY <1>1, <1>3, <2>1, <2>2, <2>3, ServedMoves
  <1>6. Excused(q)
    BY <1>3, <1>5, <1>t DEF LeftAreExcused
  <1>7. PICK d \in Conns : AnnounceJoined(d) /\ JoinTask(d) /\ task[d].who = q /\ task[d].step = "joined"
    BY <1>2, <1>3, <1>6, ExcuseEnds
  <1>8. p # q
    BY <1>3, <1>5, <1>t DEF LeftMyselfIsExcused
  <1>9. mailbox'[c] = Append(mailbox[c], Message("joined", u))
    BY <1>3, <1>7, <1>8, JoinIsHeard
  <1>10. mailbox[c] \in Seq(Messages) /\ Message("joined", u) \in Messages
         /\ Message("joined", u).op = "joined" /\ Message("joined", u).about = u
         /\ Message("joined", u) # Message("left", u)
    BY <1>t DEF TypeOK, Message, Messages
  <1>11. PICK n \in Nat : Mail(c)' = 1..n /\ n > 0 /\ mailbox'[c][n] = Message("joined", u)
    BY <1>9, <1>10 DEF Mail
  <1>12. i < n
    BY <1>10, <1>11
  <1> QED
    BY <1>10, <1>11, <1>12 DEF ToldAfter

LEMMA MembersReachStep ==
    Base /\ LeftAreExcused' /\ MembersReach /\ [Next]_vars => MembersReach'
  <1> SUFFICES ASSUME Base, LeftAreExcused', MembersReach, [Next]_vars,
                      NEW p \in Objects, NEW q \in Objects, Serving(p)', p \notin behind',
                      NEW c \in Conns, c = made'[p].ws, NEW u \in Users, u = made'[q].user,
                      Replied(c)', (q \in Members(made[p].room))', ~Excused(q)'
               PROVE  KnowsMember(c, u)'
    <2>1. Base /\ [Next]_vars => TypeOK'
      BY TypesStep
    <2> QED
      BY <2>1 DEF MembersReach, Serving, InRoom, Members, TypeOK
  <1>t. TypeOK /\ made'[p] # None /\ p \notin behind
    BY HistoryGrows DEF Base, Serving, InRoom
  <1>1. made[p] # None /\ made[q] # None
    BY <1>t, Newcomer DEF Excused, Members
  <1>3. /\ Serving(p) /\ made'[p] = made[p] /\ made'[q] = made[q] /\ InRoom(q) /\ InRoom(q)'
        /\ q \in Members(made[p].room) /\ made[q].room = made[p].room
    BY <1>1, ServingLasts, Lasting DEF Members
  <1>4. SUFFICES u \in view'[c].members \/ ToldAfter(c, 0, {"joined"}, u)'
    <2>1. \A i \in Mail(c)' : mailbox'[c][i] = Message("left", u) => ToldAfter(c, i, {"joined"}, u)'
      BY DEF LeftAreExcused
    <2> QED
      BY <1>4, <2>1 DEF KnowsMember
  <1>5. CASE ReplyJoined(c)
    <2>1. task[c].room = made[p].room
      <3>1. ~Replied(c)
        BY <1>5 DEF ReplyJoined, Continue, Replied
      <3> QED
        BY <1>3, <3>1, JoinIsMine
    <2>2. view'[c].members = {made[o].user : o \in Members(made[p].room)}
      BY <1>5, <1>t, <2>1 DEF ReplyJoined, TypeOK, ViewState
    <2> QED
      BY <1>3, <2>2
  <1>6. CASE Excused(q) /\ ~ReplyJoined(c)
    <2>1. PICK d \in Conns : AnnounceJoined(d) /\ JoinTask(d) /\ task[d].who = q /\ task[d].step = "joined"
      BY <1>1, <1>3, <1>6, ExcuseEnds
    <2>2. p # q
      <3>1. p = q => d = c
        BY <1>3, <2>1 DEF JoinTask
      <3>2. task'[d].step = "members"
        BY <1>t, <2>1, ThenEntry DEF AnnounceJoined, Steps
      <3> QED
        BY <3>1, <3>2 DEF Replied
    <2>3. mailbox'[c] = Append(mailbox[c], Message("joined", u))
      <3>1. c = made[p].ws /\ u = made[q].user
        BY <1>3
      <3>2. Serving(p) /\ q \in Members(made[p].room)
        BY <1>3
      <3>3. mailbox'[c] = Append(mailbox[c], Message("joined", made[q].user))
        BY ZenonT(60), <2>1, <2>2, <3>1, <3>2, JoinIsHeard
      <3> QED
        BY <3>1, <3>3
    <2>4. /\ mailbox[c] \in Seq(Messages) /\ Message("joined", u) \in Messages
          /\ Message("joined", u).op = "joined" /\ Message("joined", u).about = u
      BY <1>t DEF TypeOK, Message, Messages
    <2>5. PICK n \in Nat : Mail(c)' = 1..n /\ n > 0 /\ mailbox'[c][n] = Message("joined", u)
      BY <2>3, <2>4 DEF Mail
    <2> QED
      BY <2>4, <2>5 DEF ToldAfter
  <1>7. CASE ~Excused(q) /\ ~ReplyJoined(c)
    <2>1. Replied(c)
      BY <1>1, <1>3, <1>7, ServedMoves
    <2>2. u \in view[c].members \/ ToldAfter(c, 0, {"joined"}, u)
      BY <1>3, <1>7, <1>t, <2>1 DEF MembersReach, KnowsMember
    <2>3. \A j \in Mail(c) : mailbox[c][j] = Message("left", u) => ToldAfter(c, j, {"joined"}, u)
      BY <1>3, <1>7, <1>t, <2>1 DEF MembersReach, KnowsMember
    <2>4. CASE mailbox'[c] = mailbox[c] /\ view'[c] = view[c]
      BY <2>2, <2>4, SameMail
    <2>5. CASE Deliver(c)
      <3>1. 1 \in Mail(c) /\ mailbox[c][1] \in Messages /\ Effect(view'[c], view[c], mailbox[c][1], q)
        BY <1>t, <2>5, DeliveredView
      <3>2. CASE ToldAfter(c, 0, {"joined"}, u) /\ ~ToldAfter(c, 0, {"joined"}, u)'
        <4>1. mailbox[c][1].op = "joined" /\ mailbox[c][1].about = u
          BY <1>t, <2>5, <3>2, DeliveredMail
        <4> QED
          BY <3>1, <4>1 DEF Effect
      <3>3. CASE u \in view[c].members /\ u \notin view'[c].members
        <4>1. mailbox[c][1] = Message("left", u)
          BY <3>1, <3>3 DEF Effect, Messages, Message
        <4> QED
          BY <1>t, <2>3, <2>5, <3>1, <4>1, DeliveredMail
      <3> QED
        BY <2>2, <3>2, <3>3
    <2>6. ASSUME NEW m \in Messages, Hears(c, m), view'[c] = view[c]
          PROVE  u \in view'[c].members \/ ToldAfter(c, 0, {"joined"}, u)'
      BY <1>t, <2>2, <2>6, HeardMail
    <2>7. ~Snapshot(c)
      BY <2>1 DEF Snapshot, Continue, Replied
    <2> QED
      BY <1>1, <1>3, <1>7, <2>4, <2>5, <2>6, <2>7, ServedMoves
  <1> QED
    BY <1>5, <1>6, <1>7

LEMMA MembersInvariant == Spec => [](RejoinedSince /\ LeftMyselfIsExcused /\ LeftAreExcused /\ MembersReach)
  <1> DEFINE I == RejoinedSince /\ LeftMyselfIsExcused /\ LeftAreExcused /\ MembersReach
  <1>1. Init => I
    <2> SUFFICES ASSUME Init PROVE I
      OBVIOUS
    <2>1. \A p \in Objects : ~Serving(p) /\ ~InRoom(p)
      BY DEF Init, Serving, InRoom
    <2> QED
      BY <2>1 DEF RejoinedSince, LeftMyselfIsExcused, LeftAreExcused, MembersReach
  <1>2. Base /\ OnlyOne /\ I /\ [Next]_vars => I'
    BY RejoinedSinceStep, LeftMyselfStep, LeftAreExcusedStep, MembersReachStep
  <1> QED
    BY <1>1, <1>2, BaseInvariant, MuteInvariant, PTL DEF Spec

\* Everybody knows who else is in the room: no interleaving of joins, departures, cleanups
\* and reaper rounds loses a member, unless an earlier stay of the same user was announced
\* as over after the present one had begun.
THEOREM EverybodyKnowsTheMembers == Spec => []MembersAreKnown
  <1>1. MembersReach => MembersAreKnown
    <2> SUFFICES ASSUME MembersReach, NEW p \in Objects, NEW q \in Objects, Attending(p), p \notin behind,
                        q \in Members(made[p].room), q \notin rejoined,
                        ~ToAnnounce("snapshot", q), ~ToAnnounce("joined", q),
                        ~LostAnnounced(made[q].room, made[q].user)
                 PROVE  KnowsMember(made[p].ws, made[q].user)
      BY DEF MembersAreKnown
    <2>1. Serving(p) /\ Replied(made[p].ws)
      BY DEF Attending, Serving, Replied
    <2> QED
      BY <2>1 DEF MembersReach, Excused
  <1> QED
    BY <1>1, MembersInvariant, PTL
=============================================================================
