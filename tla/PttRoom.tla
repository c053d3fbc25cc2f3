-------------------------------- MODULE PttRoom --------------------------------
(***************************************************************************)
(* One push-to-talk room as the tasks that run it see it: a session task    *)
(* per connected user (src/signaling/handler.rs), the floor timer task and  *)
(* the zombie reaper (src/lib.rs).  The tasks run in parallel.  They share  *)
(* the FloorController, the audio and the video PttRewriter, the map of     *)
(* participants and the participants' outgoing mailboxes, each behind a     *)
(* lock of its own, so what a handler does to one and then to the next can  *)
(* be cut anywhere in between.  One action is one such critical section.    *)
(*                                                                         *)
(* Time is left out: the timer may find any held floor overdue (FloorTimer  *)
(* has the clock).  Of the rewriters only the speaker they serve is kept.   *)
(* Of the messages only FLOOR_TAKEN, FLOOR_IDLE, FLOOR_REVOKE and the       *)
(* replies are, and of each what it tells a client about who is speaking.   *)
(* A later event overrides an earlier one, so of the events waiting in a    *)
(* mailbox the last is enough.                                             *)
(***************************************************************************)
EXTENDS Naturals

CONSTANTS
    Users,      \* user ids, each with at most one connection
    NoOne,      \* no speaker
    Nothing,    \* no event
    Timer,      \* the task running run_floor_timer
    MaxEvents   \* bound on client calls, connections, reaped zombies and stalled
                \* handlers together

ASSUME RoomAssumption ==
    /\ NoOne \notin Users
    /\ Nothing \notin Users \cup {NoOne}
    /\ Timer \notin Users
    /\ MaxEvents \in Nat

Kinds == {"audio", "video"}
Tasks == Users \cup {Timer}

VARIABLES
    floor,      \* the FloorController's speaker, or NoOne
    rewriter,   \* per kind, the speaker its PttRewriter serves
    members,    \* Room.participants
    open,       \* users with a WebSocket connection
    inRoom,     \* users whose session.current_room is this room
    task,       \* what each task is in the middle of
    mailbox,    \* per user, the speaker named by the last event that was sent to
                \* ws_tx and not yet written to the socket, or Nothing
    view,       \* per user, who its client believes is speaking
    events,     \* counts towards MaxEvents
    late,       \* history: users with a FLOOR_REQUEST handler that may work on after
                \* their burst: granted while they held the floor, or revoked while
                \* the handler was at work
    fresh       \* history: users that last joined with an empty mailbox

server == <<floor, rewriter, members, open, inRoom>>
vars == <<floor, rewriter, members, open, inRoom, task, mailbox, view, events,
          late, fresh>>

\* op: the call being served ("grant" and "again" are a FLOOR_REQUEST that found
\* the floor free, or already the caller's); step: its next critical section;
\* to: whom the broadcast it is in has not reached yet; who: the speaker it is about.
Busy(op, step, to, who) == [op |-> op, step |-> step, to |-> to, who |-> who]
Resting == Busy("none", "none", {}, NoOne)

Ops == {"none", "grant", "again", "release", "leave", "close", "revoke"}
Steps == {"none", "taken", "audio", "video", "revoke", "idle", "remove", "reply"}
TaskState == [op : Ops, step : Steps, to : SUBSET Users, who : Users \cup {NoOne}]

AtRest(t) == task[t].op = "none"

Init ==
    /\ floor = NoOne
    /\ rewriter = [k \in Kinds |-> NoOne]
    /\ members \in SUBSET Users
    /\ open = Users
    /\ inRoom = members
    /\ task = [t \in Tasks |-> Resting]
    /\ mailbox = [u \in Users |-> Nothing]
    /\ view = [u \in Users |-> NoOne]
    /\ events = 0
    /\ late = {}
    /\ fresh = Users

-----------------------------------------------------------------------------
\* The steps that start a task.

\* A session takes the next message from its socket.
Receives(u) ==
    /\ u \in open
    /\ AtRest(u)
    /\ events < MaxEvents
    /\ events' = events + 1

Start(t, op, step, to, who) == task' = [task EXCEPT ![t] = Busy(op, step, to, who)]

\* FLOOR_REQUEST: nothing checks that the caller is in the room.
FloorRequest(u) ==
    /\ Receives(u)
    /\ \/ /\ floor = NoOne
          /\ floor' = u
          /\ Start(u, "grant", "taken", members \ {u}, u)
          /\ UNCHANGED late
       \/ /\ floor = u
          /\ Start(u, "again", "taken", members \ {u}, u)
          /\ late' = late \cup {u}
          /\ UNCHANGED floor
       \/ /\ floor \notin {NoOne, u}
          /\ UNCHANGED <<floor, task, late>>
    /\ UNCHANGED <<rewriter, members, open, inRoom, mailbox, view, fresh>>

\* FLOOR_RELEASE: on a free floor it is carried out all the same.
FloorRelease(u) ==
    /\ Receives(u)
    /\ IF floor \in {NoOne, u}
       THEN floor' = NoOne /\ Start(u, "release", "audio", {}, u)
       ELSE UNCHANGED <<floor, task>>
    /\ UNCHANGED <<rewriter, members, open, inRoom, mailbox, view, late, fresh>>

\* Mutant: a leaving speaker frees the floor and the rewriters and tells nobody.
SilentLeave(u, op) ==
    IF floor = u
    THEN floor' = NoOne /\ Start(u, op, "audio", {}, u)
    ELSE UNCHANGED floor /\ Start(u, op, "remove", {}, u)

\* floor.on_participant_leave, which ROOM_LEAVE and cleanup begin with.
LeaveFloor(u, op) ==
    IF floor = u
    THEN floor' = NoOne /\ Start(u, op, "idle", members, u)
    ELSE UNCHANGED floor /\ Start(u, op, "remove", {}, u)

RoomLeave(u) ==
    /\ Receives(u)
    /\ LeaveFloor(u, "leave")
    /\ UNCHANGED <<rewriter, members, open, inRoom, mailbox, view, late, fresh>>

\* The connection ends (close, error or heartbeat timeout): cleanup runs if the
\* session is in the room.
Disconnect(u) ==
    /\ Receives(u)
    /\ IF u \in inRoom
       THEN LeaveFloor(u, "close") /\ UNCHANGED <<open, mailbox, view>>
       ELSE /\ open' = open \ {u}
            /\ mailbox' = [mailbox EXCEPT ![u] = Nothing]
            /\ view' = [view EXCEPT ![u] = NoOne]
            /\ UNCHANGED <<floor, task>>
    /\ UNCHANGED <<rewriter, members, inRoom, late, fresh>>

\* A client comes back: a new session, with a channel of its own.
Connect(u) ==
    /\ u \notin open
    /\ events < MaxEvents
    /\ events' = events + 1
    /\ open' = open \cup {u}
    /\ UNCHANGED <<floor, rewriter, members, inRoom, task, mailbox, view, late, fresh>>

\* ROOM_JOIN: refused to a participant; the reply says nothing about the floor.
RoomJoin(u) ==
    /\ Receives(u)
    /\ u \notin members
    /\ members' = members \cup {u}
    /\ inRoom' = inRoom \cup {u}
    /\ view' = [view EXCEPT ![u] = NoOne]
    /\ fresh' = IF mailbox[u] = Nothing THEN fresh \cup {u} ELSE fresh \ {u}
    /\ UNCHANGED <<floor, rewriter, open, task, mailbox, late>>

\* The speaker that loses the floor may still have its FLOOR_REQUEST handler at work:
\* a handler can stall beyond the ping timeout.
Stalled ==
    \/ task[floor].op # "grant" /\ UNCHANGED <<events, late>>
    \/ /\ task[floor].op = "grant"
       /\ events < MaxEvents
       /\ events' = events + 1
       /\ late' = late \cup {floor}

\* Mutant: the timer passes over a speaker that is no participant any more.
TimerRevokeParticipant ==
    /\ AtRest(Timer)
    /\ floor \in members
    /\ floor' = NoOne
    /\ Start(Timer, "revoke", "audio", {}, floor)
    /\ Stalled
    /\ UNCHANGED <<rewriter, members, open, inRoom, mailbox, view, fresh>>

\* run_floor_timer finds the current burst overdue.
TimerRevoke ==
    /\ AtRest(Timer)
    /\ floor # NoOne
    /\ floor' = NoOne
    /\ Start(Timer, "revoke", "audio", {}, floor)
    /\ Stalled
    /\ UNCHANGED <<rewriter, members, open, inRoom, mailbox, view, fresh>>

\* run_zombie_reaper removes a participant it has not seen for ZOMBIE_TIMEOUT_MS:
\* FLOOR_PING does not count, and neither floor nor rewriters are touched.
Reap(u) ==
    /\ u \in members
    /\ events < MaxEvents
    /\ events' = events + 1
    /\ members' = members \ {u}
    /\ UNCHANGED <<floor, rewriter, open, inRoom, task, mailbox, view, late, fresh>>

-----------------------------------------------------------------------------
\* The steps that continue a task.

Goto(t, step, to) == Start(t, task[t].op, step, to, task[t].who)

Finish(t) == task' = [task EXCEPT ![t] = Resting]

\* ws_tx.send to a participant: FLOOR_TAKEN names the speaker, FLOOR_IDLE and
\* FLOOR_REVOKE say that there is none.
Send(v, speaker) ==
    mailbox' = IF v \in members THEN [mailbox EXCEPT ![v] = speaker] ELSE mailbox

\* Mutant: a leaving speaker's rewriters are left as they are.
UnclearedBroadcast(t) ==
    CASE task[t].op \in {"grant", "again"} -> Goto(t, "audio", {})
      [] task[t].op \in {"leave", "close"} -> Goto(t, "remove", {})
      [] task[t].op = "release" -> Goto(t, "reply", {})
      [] task[t].op = "revoke" -> Finish(t)

\* What follows a broadcast.
AfterBroadcast(t) ==
    CASE task[t].op \in {"grant", "again", "leave", "close"} -> Goto(t, "audio", {})
      [] task[t].op = "release" -> Goto(t, "reply", {})
      [] task[t].op = "revoke" -> Finish(t)

\* Mutants: FLOOR_IDLE is not sent after a release; a revocation is told nobody.
QuietRelease(t) ==
    CASE task[t].op \in {"grant", "again", "release"} -> Goto(t, "reply", {})
      [] task[t].op \in {"leave", "close"} -> Goto(t, "remove", {})
      [] task[t].op = "revoke" -> Goto(t, "revoke", {})

QuietRevoke(t) ==
    CASE task[t].op \in {"grant", "again"} -> Goto(t, "reply", {})
      [] task[t].op \in {"leave", "close"} -> Goto(t, "remove", {})
      [] task[t].op = "release" -> Goto(t, "idle", members)
      [] task[t].op = "revoke" -> Finish(t)

\* What follows the two rewriters.
AfterRewriters(t) ==
    CASE task[t].op \in {"grant", "again"} -> Goto(t, "reply", {})
      [] task[t].op \in {"leave", "close"} -> Goto(t, "remove", {})
      [] task[t].op = "release" -> Goto(t, "idle", members)
      [] task[t].op = "revoke" -> Goto(t, "revoke", {})

\* broadcast_to_others(FLOOR_TAKEN) and broadcast_to_room(FLOOR_IDLE): one send at
\* a time, to those who were participants when the iteration began and still are.
Broadcast(t) ==
    /\ task[t].step \in {"taken", "idle"}
    /\ \/ \E v \in task[t].to :
            /\ Send(v, IF task[t].step = "taken" THEN task[t].who ELSE NoOne)
            /\ IF task[t].to = {v} THEN AfterBroadcast(t)
               ELSE Goto(t, task[t].step, task[t].to \ {v})
       \/ /\ task[t].to = {}
          /\ AfterBroadcast(t)
          /\ UNCHANGED mailbox
    /\ UNCHANGED <<server, view, events, late, fresh>>

\* switch_speaker after a grant, clear_speaker after everything else.
Rewriter(t, k) ==
    /\ task[t].step = k
    /\ rewriter' = [rewriter EXCEPT ![k] =
                      IF task[t].op \in {"grant", "again"} THEN task[t].who ELSE NoOne]
    /\ IF k = "audio" THEN Goto(t, "video", {}) ELSE AfterRewriters(t)
    /\ UNCHANGED <<floor, members, open, inRoom, mailbox, view, events, late, fresh>>

\* FLOOR_REVOKE, to the speaker that lost the floor if it is still a participant.
SendRevoke(t) ==
    /\ task[t].step = "revoke"
    /\ Send(task[t].who, NoOne)
    /\ Goto(t, "idle", members)
    /\ UNCHANGED <<server, view, events, late, fresh>>

\* The reply goes straight to the socket, past whatever waits in the mailbox.
Reply(u) ==
    /\ task[u].step = "reply"
    /\ view' = [view EXCEPT ![u] = IF task[u].op = "release" THEN NoOne ELSE u]
    /\ Finish(u)
    /\ UNCHANGED <<server, mailbox, events, late, fresh>>

\* rooms.remove_participant and the end of ROOM_LEAVE or of the connection.
Remove(u) ==
    /\ task[u].step = "remove"
    /\ members' = members \ {u}
    /\ inRoom' = IF task[u].op = "close" \/ u \in members THEN inRoom \ {u} ELSE inRoom
    /\ view' = [view EXCEPT ![u] = NoOne]
    /\ IF task[u].op = "close"
       THEN open' = open \ {u} /\ mailbox' = [mailbox EXCEPT ![u] = Nothing]
       ELSE UNCHANGED <<open, mailbox>>
    /\ Finish(u)
    /\ UNCHANGED <<floor, rewriter, events, late, fresh>>

\* Mutant: what is written to the socket was not in the mailbox.
DeliverAnyway(u) ==
    /\ u \in open
    /\ AtRest(u)
    /\ mailbox' = [mailbox EXCEPT ![u] = Nothing]
    /\ view' = [view EXCEPT ![u] = mailbox[u]]
    /\ UNCHANGED <<server, task, events, late, fresh>>

\* The connection loop, between two dispatches, writes the mailbox to the socket.
Deliver(u) ==
    /\ u \in open
    /\ AtRest(u)
    /\ mailbox[u] # Nothing
    /\ mailbox' = [mailbox EXCEPT ![u] = Nothing]
    /\ view' = [view EXCEPT ![u] = mailbox[u]]
    /\ UNCHANGED <<server, task, events, late, fresh>>

Continue(t) ==
    \/ Broadcast(t)
    \/ \E k \in Kinds : Rewriter(t, k)
    \/ SendRevoke(t)
    \/ t \in Users /\ (Reply(t) \/ Remove(t))

Call(u) ==
    \/ FloorRequest(u)
    \/ FloorRelease(u)
    \/ RoomLeave(u)
    \/ Disconnect(u)
    \/ Connect(u)
    \/ RoomJoin(u)

Next ==
    \/ \E u \in Users : Call(u) \/ Reap(u) \/ Deliver(u)
    \/ TimerRevoke
    \/ \E t \in Tasks : Continue(t)

Spec == Init /\ [][Next]_vars

\* Tasks that have started go on, mailboxes are written out, and the timer task
\* finds an overdue burst; clients owe nothing.
Fairness ==
    /\ \A t \in Tasks : WF_vars(Continue(t))
    /\ \A u \in Users : WF_vars(Deliver(u))
    /\ WF_vars(TimerRevoke)

FairSpec == Spec /\ Fairness

-----------------------------------------------------------------------------
\* What v's client will believe once it has read its mailbox.
Settled(v) == IF mailbox[v] = Nothing THEN view[v] ELSE mailbox[v]

\* Task t has yet to clear the rewriter of kind k (audio is cleared first).
WillClear(t, k) ==
    /\ task[t].op \in {"release", "leave", "close", "revoke"}
    /\ \/ task[t].step \in {"audio", k}
       \/ task[t].op \in {"leave", "close"} /\ task[t].step = "idle"

\* Task t has yet to send FLOOR_IDLE to v.
WillTellIdle(t, v) ==
    \/ task[t].step = "idle" /\ v \in task[t].to
    \/ task[t].op \in {"release", "revoke"} /\ task[t].step \in {"audio", "video", "revoke"}

\* The variables have their types.
TypeOK ==
    /\ floor \in Users \cup {NoOne}
    /\ rewriter \in [Kinds -> Users \cup {NoOne}]
    /\ members \subseteq Users
    /\ open \subseteq Users
    /\ inRoom \subseteq Users
    /\ task \in [Tasks -> TaskState]
    /\ mailbox \in [Users -> Users \cup {NoOne, Nothing}]
    /\ view \in [Users -> Users \cup {NoOne}]
    /\ events \in Nat
    /\ late \subseteq Users
    /\ fresh \subseteq Users

\* A former speaker keeps a virtual stream no longer than the task that took the
\* floor from it needs to clear it: at every release, leave, disconnect and
\* revocation both rewriters are given up, whatever the other tasks do meanwhile.
\* (Speakers in late are left out: their own handler may switch them back.)
FormerSpeakerIsCleared ==
    \A k \in Kinds :
        rewriter[k] \notin {NoOne, floor} \cup late
            => \E t \in Tasks : WillClear(t, k)

\* A participant whose client believes it may speak while the server gave its floor
\* away is about to be told: FLOOR_REVOKE/FLOOR_IDLE is in its mailbox or the timer
\* task has yet to send it, although the grant's own reply overtakes the mailbox.
RevokedSpeakerIsTold ==
    \A u \in members :
        AtRest(u) /\ Settled(u) = u /\ floor # u => WillTellIdle(Timer, u)

\* A participant told FLOOR_TAKEN(s) does not go on believing it once s has lost
\* the floor: FLOOR_IDLE is behind it in the mailbox or still to be sent, for every
\* interleaving of the handlers' broadcasts, joins and leaves.
NoPhantomSpeaker ==
    \A v \in members \cap fresh :
        LET s == Settled(v) IN
        s \notin {NoOne, floor, v} \cup late => \E t \in Tasks : WillTellIdle(t, v)

\* Nobody keeps the floor for ever, not even a speaker that is no participant or
\* whose connection is gone: the timer task gets every burst.
FloorIsFreed == \A u \in Users : floor = u ~> floor # u

\* A participant that stays eventually stops believing in a speaker that is gone.
BeliefIsCorrected ==
    \A u, v \in Users :
        view[v] = u /\ floor # u /\ v \in members \cap fresh /\ u # v /\ u \notin late
            ~> view[v] # u \/ floor = u \/ v \notin members \cap fresh \/ u \in late

-----------------------------------------------------------------------------
\* What the repository says of a push-to-talk room and the code does not do.

\* "PTT mode: rewritten to the virtual SSRC/seq/ts, then fanned out": whoever holds
\* the floor is served by both rewriters once no handler is at work.
HolderIsRewritten ==
    (\A t \in Tasks : AtRest(t)) /\ floor \in members
        => \A k \in Kinds : rewriter[k] = floor

=============================================================================
