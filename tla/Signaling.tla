------------------------------ MODULE Signaling ------------------------------
(***************************************************************************)
(* The sessions of handler.rs, the participants they put into rooms, the   *)
(* zombie reaper of lib.rs, and what clients come to believe about who is   *)
(* in their room and which tracks there are.                                *)
(*                                                                          *)
(* A connection handles one request after the other.  A handler is a        *)
(* sequence of critical sections, one action each; task[c] says which one   *)
(* comes next.  A broadcast is one action: what a recipient is sent depends *)
(* only on when the iteration reaches it, and every property below is about *)
(* one recipient.  Mail waits in the channel behind ws_tx until the         *)
(* connection is between two requests, whereas a reply goes out at once.    *)
(* The floor, which LEAVE and cleanup also give up, is in PttRoom, and the  *)
(* indices of remove_participant are in RoomHub.                            *)
(***************************************************************************)
EXTENDS Integers, Sequences

CONSTANTS
    None,
    Conns,         \* WebSocket connections
    Users,
    Rooms,
    MaxJoins,      \* bound: ROOM_JOINs that succeed, each of which makes a Participant
    MaxCalls       \* bound: requests other than HEARTBEAT, and packets of silent participants

ASSUME SignalingAssumption ==
    /\ MaxJoins \in Nat \ {0} /\ MaxCalls \in Nat
    /\ None \notin Users \cup Rooms \cup Conns \cup (1..MaxJoins)
    /\ None \notin [user : Users, room : Rooms, ws : Conns]

\* The Participant objects, in the order of their creation.  Each publishes at most one
\* track, which is named after it.
Objects == 1..MaxJoins

VARIABLES
    user_id,       \* per connection: Session.user_id and
    current_room,  \* Session.current_room
    participants,  \* Room.participants: user -> Participant, per room
    made,          \* per Participant: its user, room and the connection of its ws_tx
    track,         \* per Participant: its track, if published, and whether it is muted
    silent,        \* Participants whose last_seen is more than the zombie timeout ago
    task,          \* per connection: the next critical section of its handler
    reaper,        \* the round of the zombie reaper: users found silent, Participants
                   \* removed and what is still to be announced
    mailbox,       \* per connection: messages behind ws_tx
    view,          \* per connection: the tracks and users its client believes in
    calls,         \* counts towards MaxCalls
    unheard,       \* history: Participants whose removal not every member was told of, or
                   \* whose tracks were announced after their removal was
    rejoined,      \* history: Participants that joined while an earlier stay of the same
                   \* user was still to be announced as over
    behind,        \* history: Participants whose connection had unread mail, or another
                   \* participant in a room, when they joined
    contended      \* history: Participants whose track was muted or unmuted while an
                   \* earlier such update was still to be announced

session == <<user_id, current_room>>
room == <<participants, made, track, silent>>
client == <<mailbox, view>>
history == <<unheard, rejoined, behind, contended>>
vars == <<user_id, current_room, participants, made, track, silent, task, reaper,
          mailbox, view, calls, unheard, rejoined, behind, contended>>

Idle == [step |-> "idle", room |-> None, who |-> None, lost |-> FALSE, told |-> {}]
Closed == [Idle EXCEPT !.step = "closed"]
Step(step, r, p) == [Idle EXCEPT !.step = step, !.room = r, !.who = p]

NothingKnown == [tracks |-> [p \in Objects |-> "unknown"], members |-> {}]
Resting == [zombies |-> {}, reaped |-> {}]

Init ==
    /\ user_id \in [Conns -> Users]
    /\ current_room = [c \in Conns |-> None]
    /\ participants = [r \in Rooms |-> [u \in Users |-> None]]
    /\ made = [p \in Objects |-> None]
    /\ track = [p \in Objects |-> "none"]
    /\ silent = {}
    /\ task = [c \in Conns |-> Idle]
    /\ reaper = Resting
    /\ mailbox = [c \in Conns |-> <<>>]
    /\ view = [c \in Conns |-> NothingKnown]
    /\ calls = 0
    /\ unheard = {} /\ rejoined = {} /\ behind = {} /\ contended = {}

Open(c) == task[c].step # "closed" /\ task[c].step \notin {"announce_tracks", "announce_left", "remove"}
InRoom(p) == made[p] # None /\ participants[made[p].room][made[p].user] = p
Members(r) == {p \in Objects : made[p] # None /\ made[p].room = r /\ InRoom(p)}

\* The participant that the requests of connection c are about: the one of its user in
\* its current room, whichever connection made it.
Own(c) == IF current_room[c] = None THEN None
          ELSE participants[current_room[c]][user_id[c]]

Message(op, about) == [op |-> op, about |-> about]

\* broadcast_to_others of user u in room r; broadcast_to_room when u is None.
Broadcast(r, u, m) ==
    mailbox' = [c \in Conns |->
        IF Open(c) /\ \E p \in Members(r) : made[p].user # u /\ made[p].ws = c
        THEN Append(mailbox[c], m) ELSE mailbox[c]]

\* A request is dispatched when the previous one has been answered.
Dispatch(c) ==
    /\ task[c] = Idle
    /\ calls < MaxCalls
    /\ calls' = calls + 1

Continue(c, step) == task[c].step = step /\ UNCHANGED calls
Then(c, step) == task' = [task EXCEPT ![c] = IF step = "idle" THEN Idle ELSE [@ EXCEPT !.step = step]]

-----------------------------------------------------------------------------
\* IDENTIFY once more, possibly in the middle of a stay.
Identify(c, u) ==
    /\ Dispatch(c)
    /\ user_id' = [user_id EXCEPT ![c] = u]
    /\ UNCHANGED <<current_room, room, task, reaper, client, history>>

\* HEARTBEAT.
Heartbeat(c) ==
    /\ task[c] = Idle
    /\ Own(c) \in silent
    /\ silent' = silent \ {Own(c)}
    /\ UNCHANGED <<session, participants, made, track, task, reaper, client, calls, history>>

\* STUN and SRTP packets from a participant's address keep it alive as well, whether or not
\* any connection is left.
MediaTouch(p) ==
    /\ InRoom(p) /\ p \in silent
    /\ calls < MaxCalls
    /\ calls' = calls + 1
    /\ silent' = silent \ {p}
    /\ UNCHANGED <<session, participants, made, track, task, reaper, client, history>>

\* Nobody's heartbeats keep participant p alive.
Ghost(p) == InRoom(p) /\ \A c \in Conns : Open(c) => Own(c) # p

\* No heartbeat for the zombie timeout, although a connection could send one.
MissHeartbeats(p) ==
    /\ InRoom(p) /\ ~Ghost(p) /\ p \notin silent
    /\ calls < MaxCalls
    /\ calls' = calls + 1
    /\ silent' = silent \cup {p}
    /\ UNCHANGED <<session, participants, made, track, task, reaper, client, history>>

Expire(p) ==
    /\ Ghost(p) /\ p \notin silent
    /\ silent' = silent \cup {p}
    /\ UNCHANGED <<session, participants, made, track, task, reaper, client, calls, history>>

\* An earlier stay of user u in room r is over, or is being given up, and this has not
\* yet been announced everywhere.
Announcing(r, u) ==
    \/ \E c \in Conns : /\ task[c].step \in {"leave_tracks", "leave_left", "announce_tracks",
                                             "announce_left", "remove"}
                        /\ task[c].room = r /\ user_id[c] = u
    \/ \E x \in reaper.reaped : made[x[1]].room = r /\ made[x[1]].user = u

\* ROOM_JOIN of a room in which the user is not yet: add_participant.  (A second one is
\* refused and changes nothing.)
RoomJoin(c, r) ==
    /\ Dispatch(c)
    /\ participants[r][user_id[c]] = None
    /\ \E p \in Objects :
         /\ made[p] = None /\ \A q \in Objects : q < p => made[q] # None
         /\ made' = [made EXCEPT ![p] = [user |-> user_id[c], room |-> r, ws |-> c]]
         /\ participants' = [participants EXCEPT ![r][user_id[c]] = p]
         /\ task' = [task EXCEPT ![c] = Step("snapshot", r, p)]
         /\ rejoined' = IF Announcing(r, user_id[c]) THEN rejoined \cup {p} ELSE rejoined
         /\ behind' = IF mailbox[c] # <<>> \/ \E q \in Objects : InRoom(q) /\ made[q].ws = c
                       THEN behind \cup {p} ELSE behind
    /\ current_room' = [current_room EXCEPT ![c] = r]
    /\ UNCHANGED <<user_id, track, silent, reaper, client, unheard, contended>>

\* Mutant: a muted track is left out.
SnapshotAudible(c) ==
    /\ Continue(c, "snapshot")
    /\ view' = [view EXCEPT ![c].tracks = [q \in Objects |->
         IF q \in Members(task[c].room) /\ made[q].user # user_id[c] /\ track[q] = "unmuted"
         THEN "unstated" ELSE "unknown"]]
    /\ Then(c, "joined")
    /\ UNCHANGED <<session, room, reaper, mailbox, history>>

\* The tracks of the others, for the reply.
Snapshot(c) ==
    /\ Continue(c, "snapshot")
    /\ view' = [view EXCEPT ![c].tracks = [q \in Objects |->
         IF q \in Members(task[c].room) /\ made[q].user # user_id[c] /\ track[q] # "none"
         THEN "unstated" ELSE "unknown"]]
    /\ Then(c, "joined")
    /\ UNCHANGED <<session, room, reaper, mailbox, history>>

\* Mutant: nobody is told.
JoinQuietly(c) ==
    /\ Continue(c, "joined")
    /\ Then(c, "members")
    /\ UNCHANGED <<session, room, reaper, client, history>>

AnnounceJoined(c) ==
    /\ Continue(c, "joined")
    /\ Broadcast(task[c].room, user_id[c], Message("joined", user_id[c]))
    /\ Then(c, "members")
    /\ UNCHANGED <<session, room, reaper, view, history>>

\* The members, for the reply, and the reply.
ReplyJoined(c) ==
    /\ Continue(c, "members")
    /\ view' = [view EXCEPT ![c].members = {made[p].user : p \in Members(task[c].room)}]
    /\ Then(c, "idle")
    /\ UNCHANGED <<session, room, reaper, mailbox, history>>

-----------------------------------------------------------------------------
\* PUBLISH_TRACKS: the participant is looked up, its track is added (once per SSRC), and
\* the track is announced in either case.
PublishTracks(c) ==
    /\ Dispatch(c)
    /\ Own(c) # None
    /\ task' = [task EXCEPT ![c] = Step("add_track", current_room[c], Own(c))]
    /\ UNCHANGED <<session, room, reaper, client, history>>

AddTrack(c) ==
    /\ Continue(c, "add_track")
    /\ track' = [track EXCEPT ![task[c].who] = IF @ = "none" THEN "unmuted" ELSE @]
    /\ Then(c, "add")
    /\ UNCHANGED <<session, participants, made, silent, reaper, client, history>>

\* The participant is gone, or a cleanup has announced that it is.
AnnouncedGone(p) ==
    \/ ~InRoom(p)
    \/ \E c \in Conns : task[c].who = p /\ task[c].step \in {"announce_left", "remove"}

AnnounceTrack(c) ==
    /\ Continue(c, "add")
    /\ Broadcast(task[c].room, user_id[c], Message("add", task[c].who))
    /\ unheard' = IF AnnouncedGone(task[c].who) THEN unheard \cup {task[c].who} ELSE unheard
    /\ Then(c, "idle")
    /\ UNCHANGED <<session, room, reaper, view, rejoined, behind, contended>>

\* A task is still to announce that the track of participant p is muted or unmuted.
Muting(p) == \E c \in Conns : task[c].step \in {"muted", "unmuted"} /\ task[c].who = p

\* Mutant: unmuting is announced and not kept.
MuteForGood(c, muted) ==
    /\ Dispatch(c)
    /\ Own(c) # None
    /\ track[Own(c)] # "none"
    /\ track' = [track EXCEPT ![Own(c)] = IF muted = "muted" THEN muted ELSE @]
    /\ task' = [task EXCEPT ![c] = Step(muted, current_room[c], Own(c))]
    /\ contended' = IF Muting(Own(c)) THEN contended \cup {Own(c)} ELSE contended
    /\ UNCHANGED <<session, participants, made, silent, reaper, client, unheard, rejoined, behind>>

\* MUTE_UPDATE: the track is marked, and the mark announced.
MuteUpdate(c, muted) ==
    /\ Dispatch(c)
    /\ Own(c) # None
    /\ track[Own(c)] # "none"
    /\ track' = [track EXCEPT ![Own(c)] = muted]
    /\ task' = [task EXCEPT ![c] = Step(muted, current_room[c], Own(c))]
    /\ contended' = IF Muting(Own(c)) THEN contended \cup {Own(c)} ELSE contended
    /\ UNCHANGED <<session, participants, made, silent, reaper, client, unheard, rejoined, behind>>

AnnounceMuted(c) ==
    /\ task[c].step \in {"muted", "unmuted"}
    /\ Broadcast(task[c].room, user_id[c], Message(task[c].step, task[c].who))
    /\ Then(c, "idle")
    /\ UNCHANGED <<session, room, reaper, view, calls, history>>

-----------------------------------------------------------------------------
\* remove_participant: whoever is there for user u in room r.
TakeOut(r, u) ==
    /\ participants' = [participants EXCEPT ![r][u] = None]
    /\ silent' = silent \ {participants[r][u]}
    /\ UNCHANGED <<made, track>>

\* ROOM_LEAVE of any room in which the user is; it removes first and announces then.
RoomLeave(c, r) ==
    /\ Dispatch(c)
    /\ participants[r][user_id[c]] # None
    /\ TakeOut(r, user_id[c])
    /\ task' = [task EXCEPT ![c] = Step("leave_tracks", r, participants[r][user_id[c]])]
    /\ UNCHANGED <<session, reaper, client, history>>

\* Mutant: the tracks are taken to go with the participant.
LeaveTracksBehind(c) ==
    /\ Continue(c, "leave_tracks")
    /\ Then(c, "leave_left")
    /\ UNCHANGED <<session, room, reaper, client, history>>

AnnounceLeaverTracks(c) ==
    /\ Continue(c, "leave_tracks")
    /\ IF track[task[c].who] = "none" THEN UNCHANGED mailbox
       ELSE Broadcast(task[c].room, None, Message("remove", task[c].who))
    /\ Then(c, "leave_left")
    /\ UNCHANGED <<session, room, reaper, view, history>>

AnnounceLeaver(c) ==
    /\ Continue(c, "leave_left")
    /\ Broadcast(task[c].room, None, Message("left", user_id[c]))
    /\ current_room' = [current_room EXCEPT ![c] = None]
    /\ view' = [view EXCEPT ![c] = NothingKnown]
    /\ Then(c, "idle")
    /\ UNCHANGED <<user_id, room, reaper, history>>

\* The connection ends: closed, failed, or silent for the heartbeat timeout.  cleanup
\* reads the tracks of whoever is in the room for its user.
Disconnect(c) ==
    /\ Dispatch(c)
    /\ task' = [task EXCEPT ![c] =
         IF current_room[c] = None THEN Closed
         ELSE [Step("announce_tracks", current_room[c], Own(c))
                 EXCEPT !.lost = Own(c) # None /\ track[Own(c)] # "none"]]
    /\ mailbox' = [mailbox EXCEPT ![c] = <<>>]
    /\ view' = [view EXCEPT ![c] = NothingKnown]
    /\ UNCHANGED <<session, room, reaper, history>>

\* Mutant: it announces although there are no tracks.
AnnounceAnyway(c) ==
    /\ Continue(c, "announce_tracks")
    /\ Broadcast(task[c].room, user_id[c], Message("remove", task[c].who))
    /\ task' = [task EXCEPT ![c].step = "announce_left", ![c].told = Members(task[c].room)]
    /\ UNCHANGED <<session, room, reaper, view, history>>

\* cleanup announces first and removes then.
AnnounceLostTracks(c) ==
    /\ Continue(c, "announce_tracks")
    /\ IF task[c].lost
       THEN Broadcast(task[c].room, user_id[c], Message("remove", task[c].who))
       ELSE UNCHANGED mailbox
    /\ task' = [task EXCEPT ![c].step = "announce_left",
                            ![c].told = IF task[c].lost THEN Members(task[c].room) ELSE {}]
    /\ UNCHANGED <<session, room, reaper, view, history>>

AnnounceLost(c) ==
    /\ Continue(c, "announce_left")
    /\ Broadcast(task[c].room, user_id[c], Message("left", user_id[c]))
    /\ Then(c, "remove")
    /\ UNCHANGED <<session, room, reaper, view, history>>

RemoveLost(c) ==
    LET p == participants[task[c].room][user_id[c]] IN
    /\ Continue(c, "remove")
    /\ TakeOut(task[c].room, user_id[c])
    /\ unheard' = IF p = None \/ (p = task[c].who /\ Members(task[c].room) \subseteq task[c].told)
                  THEN unheard ELSE unheard \cup {p}
    /\ task' = [task EXCEPT ![c] = Closed]
    /\ UNCHANGED <<session, reaper, client, rejoined, behind, contended>>

-----------------------------------------------------------------------------
\* Mutant: who publishes nothing is passed over.
JudgePublishers(r) ==
    LET zombies == {u \in Users : participants[r][u] \in {p \in silent : track[p] # "none"}} IN
    /\ reaper.zombies = {} /\ zombies # {}
    /\ \A x \in reaper.reaped : x[2] = "tracks" /\ made[x[1]].room # r
    /\ reaper' = [reaper EXCEPT !.zombies = zombies \X {r}]
    /\ UNCHANGED <<session, room, task, client, calls, history>>

\* The zombie reaper: in each room it first looks for silent participants, then removes
\* whoever is there for their users; after the last room it announces those removed.
\* (A room without silent participants is passed over.)
ReaperJudge(r) ==
    LET zombies == {u \in Users : participants[r][u] \in silent} IN
    /\ reaper.zombies = {} /\ zombies # {}
    /\ \A x \in reaper.reaped : x[2] = "tracks" /\ made[x[1]].room # r
    /\ reaper' = [reaper EXCEPT !.zombies = zombies \X {r}]
    /\ UNCHANGED <<session, room, task, client, calls, history>>

ReaperRemove(u, r) ==
    LET p == participants[r][u] IN
    /\ <<u, r>> \in reaper.zombies
    /\ TakeOut(r, u)
    /\ reaper' = [reaper EXCEPT !.zombies = @ \ {<<u, r>>},
                                !.reaped = IF p = None THEN @ ELSE @ \cup {<<p, "tracks">>}]
    /\ UNCHANGED <<session, task, client, calls, history>>

ReaperAnnounce(p, news) ==
    /\ <<p, news>> \in reaper.reaped
    /\ reaper.zombies = {}
    /\ \/ /\ news = "tracks"
          /\ \A q \in Objects : <<q, "left">> \notin reaper.reaped
          /\ IF track[p] = "none" THEN UNCHANGED mailbox
             ELSE Broadcast(made[p].room, None, Message("remove", p))
          /\ reaper' = [reaper EXCEPT !.reaped = (@ \ {<<p, news>>}) \cup {<<p, "left">>}]
       \/ /\ news = "left"
          /\ Broadcast(made[p].room, None, Message("left", made[p].user))
          /\ reaper' = [reaper EXCEPT !.reaped = @ \ {<<p, news>>}]
    /\ UNCHANGED <<session, room, task, view, calls, history>>

-----------------------------------------------------------------------------
\* What a client makes of a message.
Told(v, m) ==
    CASE m.op = "add" -> [v EXCEPT !.tracks[m.about] = IF @ = "unknown" THEN "unstated" ELSE @]
      [] m.op = "remove" -> [v EXCEPT !.tracks[m.about] = "unknown"]
      [] m.op \in {"muted", "unmuted"} ->
           [v EXCEPT !.tracks[m.about] = IF @ = "unknown" THEN @ ELSE m.op]
      [] m.op = "joined" -> [v EXCEPT !.members = @ \cup {m.about}]
      [] m.op = "left" -> [v EXCEPT !.members = @ \ {m.about}]

\* The connection writes out one message of its mailbox, between two requests.
Deliver(c) ==
    /\ task[c] = Idle
    /\ mailbox[c] # <<>>
    /\ mailbox' = [mailbox EXCEPT ![c] = Tail(@)]
    /\ view' = [view EXCEPT ![c] = Told(@, Head(mailbox[c]))]
    /\ UNCHANGED <<session, room, task, reaper, calls, history>>

ConnectionStep(c) ==
    \/ Snapshot(c) \/ AnnounceJoined(c) \/ ReplyJoined(c)
    \/ AddTrack(c) \/ AnnounceTrack(c) \/ AnnounceMuted(c)
    \/ AnnounceLeaverTracks(c) \/ AnnounceLeaver(c)
    \/ AnnounceLostTracks(c) \/ AnnounceLost(c) \/ RemoveLost(c)

Request(c) ==
    \/ \E u \in Users : Identify(c, u)
    \/ \E r \in Rooms : RoomJoin(c, r) \/ RoomLeave(c, r)
    \/ PublishTracks(c) \/ \E muted \in {"muted", "unmuted"} : MuteUpdate(c, muted)
    \/ Heartbeat(c) \/ Disconnect(c)

ReaperStep ==
    \/ \E r \in Rooms : ReaperJudge(r) \/ \E u \in Users : ReaperRemove(u, r)
    \/ \E p \in Objects, news \in {"tracks", "left"} : ReaperAnnounce(p, news)

Next ==
    \/ \E c \in Conns : Request(c) \/ ConnectionStep(c) \/ Deliver(c)
    \/ \E p \in Objects : MissHeartbeats(p) \/ Expire(p) \/ MediaTouch(p)
    \/ ReaperStep

Spec == Init /\ [][Next]_vars

\* A handler and the reaper run to their ends, and who is not kept alive falls silent.
FairSpec ==
    /\ Spec
    /\ \A c \in Conns : WF_vars(ConnectionStep(c))
    /\ \A p \in Objects : WF_vars(Expire(p))
    /\ WF_vars(ReaperStep)

-----------------------------------------------------------------------------
\* The variables have their types.
Steps == {"idle", "closed", "snapshot", "joined", "members", "add_track", "add", "muted",
          "unmuted", "leave_tracks", "leave_left", "announce_tracks", "announce_left", "remove"}

TaskState == [step : Steps, room : Rooms \cup {None}, who : Objects \cup {None},
              lost : BOOLEAN, told : SUBSET Objects]

ViewState == [tracks : [Objects -> {"unknown", "unstated", "muted", "unmuted"}],
              members : SUBSET Users]

ReaperState == [zombies : SUBSET (Users \X Rooms), reaped : SUBSET (Objects \X {"tracks", "left"})]

Messages == [op : {"add", "remove", "muted", "unmuted"}, about : Objects]
            \cup [op : {"joined", "left"}, about : Users]

TypeOK ==
    /\ user_id \in [Conns -> Users]
    /\ current_room \in [Conns -> Rooms \cup {None}]
    /\ participants \in [Rooms -> [Users -> Objects \cup {None}]]
    /\ made \in [Objects -> [user : Users, room : Rooms, ws : Conns] \cup {None}]
    /\ track \in [Objects -> {"none", "muted", "unmuted"}]
    /\ silent \subseteq Objects
    /\ task \in [Conns -> TaskState]
    /\ reaper \in ReaperState
    /\ mailbox \in [Conns -> Seq(Messages)]
    /\ view \in [Conns -> ViewState]
    /\ calls \in 0..MaxCalls
    /\ unheard \cup rejoined \cup behind \cup contended \subseteq Objects

\* What the client of connection c believes when it has read its mail: what it was told last.
Mail(c) == 1..Len(mailbox[c])

ToldAfter(c, i, ops, x) ==
    \E j \in Mail(c) : j > i /\ mailbox[c][j].op \in ops /\ mailbox[c][j].about = x

KnowsTrack(c, q) ==
    /\ view[c].tracks[q] # "unknown" \/ ToldAfter(c, 0, {"add"}, q)
    /\ \A i \in Mail(c) : mailbox[c][i] = Message("remove", q) => ToldAfter(c, i, {"add"}, q)

KnowsMember(c, u) ==
    /\ u \in view[c].members \/ ToldAfter(c, 0, {"joined"}, u)
    /\ \A i \in Mail(c) : mailbox[c][i] = Message("left", u) => ToldAfter(c, i, {"joined"}, u)

HeardMute(c, q, m) ==
    \/ view[c].tracks[q] = m /\ ~ToldAfter(c, 0, {"muted", "unmuted"}, q)
    \/ \E i \in Mail(c) : mailbox[c][i] = Message(m, q) /\ ~ToldAfter(c, i, {"muted", "unmuted"}, q)

\* Participant p is in its room, has had its ROOM_JOIN reply, and its connection has neither
\* left a room nor joined one since.
Attending(p) ==
    /\ InRoom(p)
    /\ LET c == made[p].ws IN
       /\ Open(c) /\ task[c].step \notin {"snapshot", "joined", "members"}
       /\ current_room[c] = made[p].room
       /\ \A q \in Objects : made[q] # None /\ made[q].ws = c => q <= p

\* Participants p and q are of different users.
Others(p, q) == made[q] # None /\ made[q].user # made[p].user

\* A task has yet to send news of participant q.
ToAnnounce(step, q) == \E c \in Conns : task[c].step = step /\ task[c].who = q
ToAnnounceGone(q) == ToAnnounce("leave_tracks", q) \/ <<q, "tracks">> \in reaper.reaped

\* A participant knows every track of everyone in its room, whether it was published
\* before or after it joined, apart from what a task is still to announce and from whom a
\* cleanup has announced as gone.
TracksAreKnown ==
    \A p, q \in Objects :
        /\ Attending(p) /\ q \in Members(made[p].room) /\ Others(p, q)
        /\ track[q] # "none"
        /\ ~ToAnnounce("add", q) /\ ~AnnouncedGone(q)
        => KnowsTrack(made[p].ws, q)

\* Nobody keeps the track of a participant that is gone, but of one that a cleanup
\* announced to fewer than all it removed it from, or whose own announcement came late.
NoPhantomTrack ==
    \A p, q \in Objects :
        Attending(p) /\ p \notin behind /\ KnowsTrack(made[p].ws, q) =>
            /\ Others(p, q) /\ made[q].room = made[p].room
            /\ InRoom(q) \/ ToAnnounceGone(q) \/ q \in unheard

\* A track that a client was last told is muted is muted, and likewise unmuted, unless two
\* connections of its user have muted and unmuted it at once.
MuteStateIsKnown ==
    \A p, q \in Objects, m \in {"muted", "unmuted"} :
        /\ Attending(p) /\ p \notin behind /\ q \notin contended
        /\ HeardMute(made[p].ws, q, m)
        => m = track[q] \/ Muting(q)

\* A cleanup has announced that user u has left room r, or is about to.
LostAnnounced(r, u) ==
    \E c \in Conns : /\ task[c].step \in {"announce_left", "remove"}
                      /\ task[c].room = r /\ user_id[c] = u

\* A participant knows who else is in its room, unless an earlier stay of that user was
\* announced as over only after the present one had begun.
MembersAreKnown ==
    \A p, q \in Objects :
        /\ Attending(p) /\ p \notin behind
        /\ q \in Members(made[p].room) /\ q \notin rejoined
        /\ ~ToAnnounce("snapshot", q) /\ ~ToAnnounce("joined", q)
        /\ ~LostAnnounced(made[q].room, made[q].user)
        => KnowsMember(made[p].ws, made[q].user)

\* A participant whom no connection keeps alive is removed or becomes some connection's
\* own again, whichever rooms and users its connection went through before.
GhostsAreReaped == \A p \in Objects : Ghost(p) ~> ~Ghost(p)

-----------------------------------------------------------------------------
\* What the repository says of the sessions and the code does not do.

\* "publish ufrag (cleanup key)" (handler.rs:41): a cleanup removes the participant that
\* its own connection put into the room.
CleanupRemovesItsOwn ==
    [][\A c \in Conns, p \in Objects : RemoveLost(c) /\ InRoom(p) /\ ~InRoom(p)' => made[p].ws = c]_vars
=============================================================================
