----------------------------- MODULE PttRoomProofs -----------------------------
(***************************************************************************)
(* Proofs about PttRoom and about what its clients believe, for any set of  *)
(* users and any number of events.                                          *)
(***************************************************************************)
EXTENDS PttRoom, TLAPS

\* Which critical sections each handler has.
StepsOf(op) ==
    CASE op = "none" -> {"none"}
      [] op \in {"grant", "again"} -> {"taken", "audio", "video", "reply"}
      [] op = "release" -> {"audio", "video", "idle", "reply"}
      [] op \in {"leave", "close"} -> {"idle", "audio", "video", "remove"}
      [] op = "revoke" -> {"audio", "video", "revoke", "idle"}

TasksOK == \A t \in Tasks : task[t].step \in StepsOf(task[t].op)

\* A handler that is to switch the rewriters does so for its own user, who holds
\* the floor or is known to be late.
Granting ==
    \A t \in Tasks :
        /\ task[t].op \in {"grant", "again"} => t \in Users /\ task[t].who = t
        /\ task[t].op = "again" => t \in late
        /\ task[t].op = "grant" => floor = t \/ t \in late

\* The inductive invariant behind both results of this module.
IInv == TypeOK /\ TasksOK /\ Granting /\ FormerSpeakerIsCleared

USE RoomAssumption DEF RoomAssumption

\* The sections that handlers begin with and the ones they go on to.
LEMMA StepFacts ==
    /\ \A op \in {"grant", "again"} :
          "taken" \in StepsOf(op) /\ "audio" \in StepsOf(op) /\ "reply" \in StepsOf(op)
    /\ "audio" \in StepsOf("release") /\ "idle" \in StepsOf("release")
    /\ "reply" \in StepsOf("release")
    /\ \A op \in {"leave", "close"} :
          "idle" \in StepsOf(op) /\ "audio" \in StepsOf(op) /\ "remove" \in StepsOf(op)
    /\ "audio" \in StepsOf("revoke") /\ "revoke" \in StepsOf("revoke")
    /\ "idle" \in StepsOf("revoke")
    /\ "none" \in StepsOf("none")
    /\ \A op \in Ops \ {"none"} : "video" \in StepsOf(op)
  BY DEF StepsOf, Ops

\* A task that is started has one of the calls' steps and its own fields.
LEMMA StartType ==
    ASSUME TypeOK, NEW t \in Tasks, NEW op \in Ops, NEW step \in Steps,
           NEW to \in SUBSET Users, NEW who \in Users \cup {NoOne},
           Start(t, op, step, to, who)
    PROVE  /\ task' \in [Tasks -> TaskState]
           /\ task'[t] = Busy(op, step, to, who)
           /\ \A s \in Tasks \ {t} : task'[s] = task[s]
  BY DEF Start, Busy, TypeOK, TaskState

\* A task that goes on keeps its call and the speaker it is about.
LEMMA GotoType ==
    ASSUME TypeOK, NEW t \in Tasks, NEW step \in Steps, NEW to \in SUBSET Users,
           Goto(t, step, to)
    PROVE  /\ task' \in [Tasks -> TaskState]
           /\ task'[t] = Busy(task[t].op, step, to, task[t].who)
           /\ \A s \in Tasks \ {t} : task'[s] = task[s]
  <1>1. task[t].op \in Ops /\ task[t].who \in Users \cup {NoOne}
    BY DEF TypeOK, TaskState
  <1> QED
    BY <1>1, StartType DEF Goto

\* A task that ends is at rest.
LEMMA FinishType ==
    ASSUME TypeOK, NEW t \in Tasks, Finish(t)
    PROVE  /\ task' \in [Tasks -> TaskState]
           /\ task'[t] = Resting
           /\ \A s \in Tasks \ {t} : task'[s] = task[s]
  BY DEF Finish, Resting, Busy, TypeOK, TaskState, Ops, Steps

\* Before the first call nobody holds the floor and the rewriters serve nobody.
LEMMA InitInv == Init => IInv
  <1> SUFFICES ASSUME Init PROVE IInv
    OBVIOUS
  <1> USE DEF Init
  <1>1. Resting \in TaskState
    BY DEF Resting, Busy, TaskState, Ops, Steps
  <1>2. TypeOK
    BY <1>1 DEF TypeOK, Kinds
  <1>3. \A t \in Tasks : task[t].op = "none" /\ task[t].step = "none"
    BY DEF Resting, Busy
  <1>4. TasksOK /\ Granting
    BY <1>3 DEF TasksOK, Granting, StepsOf
  <1>5. FormerSpeakerIsCleared
    BY DEF FormerSpeakerIsCleared, Kinds
  <1> QED
    BY <1>2, <1>4, <1>5 DEF IInv
-----------------------------------------------------------------------------
\* Every critical section leaves the variables with their types and its task with
\* one of the sections of the handler it is in.
LEMMA TypeStep == TypeOK /\ TasksOK /\ [Next]_vars => TypeOK' /\ TasksOK'
  <1> SUFFICES ASSUME TypeOK, TasksOK, [Next]_vars PROVE TypeOK' /\ TasksOK'
    OBVIOUS
  <1> USE DEF server
  <1>u. Users \subseteq Tasks /\ Timer \in Tasks
    BY DEF Tasks
  <1>a. ASSUME NEW t \in Tasks, NEW op \in Ops, NEW step \in StepsOf(op),
               NEW to \in SUBSET Users, NEW who \in Users \cup {NoOne},
               Start(t, op, step, to, who)
        PROVE  task' \in [Tasks -> TaskState] /\ TasksOK'
    <2>1. step \in Steps
      BY DEF Ops, Steps, StepsOf
    <2>2. /\ task' \in [Tasks -> TaskState]
          /\ task'[t] = Busy(op, step, to, who)
          /\ \A s \in Tasks \ {t} : task'[s] = task[s]
      BY <1>a, <2>1, StartType
    <2>3. task'[t].op = op /\ task'[t].step = step
      BY <2>2 DEF Busy
    <2>4. TasksOK'
      BY <2>2, <2>3 DEF TasksOK
    <2> QED
      BY <2>2, <2>4
  <1>b. ASSUME NEW t \in Tasks, NEW step \in StepsOf(task[t].op),
               NEW to \in SUBSET Users, Goto(t, step, to)
        PROVE  task' \in [Tasks -> TaskState] /\ TasksOK'
    <2>1. PICK op \in Ops, who \in Users \cup {NoOne} : op = task[t].op /\ who = task[t].who
      BY DEF TypeOK, TaskState
    <2>2. step \in StepsOf(op) /\ Start(t, op, step, to, who)
      BY <1>b, <2>1 DEF Goto
    <2> QED
      BY <1>a, <2>2
  <1>c. ASSUME NEW t \in Tasks, Finish(t)
        PROVE  task' \in [Tasks -> TaskState] /\ TasksOK'
    <2>1. Resting.op = "none" /\ Resting.step = "none" /\ "none" \in StepsOf("none")
      BY StepFacts DEF Resting, Busy
    <2> QED
      BY <1>c, <2>1, FinishType DEF TasksOK
  <1>d. ASSUME task' = task
        PROVE  task' \in [Tasks -> TaskState] /\ TasksOK'
    BY <1>d DEF TypeOK, TasksOK
  <1>1. ASSUME NEW u \in Users, FloorRequest(u) PROVE TypeOK' /\ TasksOK'
    <2>1. task' \in [Tasks -> TaskState] /\ TasksOK'
      <3>1. \/ Start(u, "grant", "taken", members \ {u}, u)
            \/ Start(u, "again", "taken", members \ {u}, u)
            \/ task' = task
        BY <1>1 DEF FloorRequest
      <3>2. /\ members \ {u} \in SUBSET Users /\ u \in Tasks /\ u \in Users \cup {NoOne}
            /\ "taken" \in StepsOf("grant") /\ "taken" \in StepsOf("again")
            /\ "grant" \in Ops /\ "again" \in Ops
        BY <1>u, StepFacts DEF TypeOK, Ops
      <3>3. CASE Start(u, "grant", "taken", members \ {u}, u)
        BY <3>2, <3>3, <1>a
      <3>4. CASE Start(u, "again", "taken", members \ {u}, u)
        BY <3>2, <3>4, <1>a
      <3> QED
        BY <3>1, <3>3, <3>4, <1>d
    <2> QED
      BY <1>1, <2>1 DEF FloorRequest, Receives, TypeOK
  <1>2. ASSUME NEW u \in Users, FloorRelease(u) PROVE TypeOK' /\ TasksOK'
    <2>1. task' \in [Tasks -> TaskState] /\ TasksOK'
      <3>1. Start(u, "release", "audio", {}, u) \/ task' = task
        BY <1>2 DEF FloorRelease
      <3>2. CASE Start(u, "release", "audio", {}, u)
        <4>1. "release" \in Ops /\ "audio" \in StepsOf("release")
          BY StepFacts DEF Ops
        <4> QED
          BY <1>u, <1>a, <3>2, <4>1
      <3> QED
        BY <3>1, <3>2, <1>d
    <2> QED
      BY <1>2, <2>1 DEF FloorRelease, Receives, TypeOK
  <1>e. ASSUME NEW u \in Users, NEW op \in {"leave", "close"}, LeaveFloor(u, op)
        PROVE  task' \in [Tasks -> TaskState] /\ TasksOK' /\ floor' \in Users \cup {NoOne}
    <2>1. /\ \/ Start(u, op, "idle", members, u)
             \/ Start(u, op, "remove", {}, u)
          /\ floor' \in Users \cup {NoOne}
      BY <1>e DEF LeaveFloor, TypeOK
    <2>2. /\ op \in Ops /\ members \in SUBSET Users /\ {} \in SUBSET Users
          /\ "idle" \in StepsOf(op) /\ "remove" \in StepsOf(op)
      BY StepFacts DEF Ops, TypeOK
    <2>3. CASE Start(u, op, "idle", members, u)
      BY <1>u, <1>a, <2>1, <2>2, <2>3
    <2>4. CASE Start(u, op, "remove", {}, u)
      BY <1>u, <1>a, <2>1, <2>2, <2>4
    <2> QED
      BY <2>1, <2>3, <2>4
  <1>3. ASSUME NEW u \in Users, RoomLeave(u) PROVE TypeOK' /\ TasksOK'
    BY <1>3, <1>e DEF RoomLeave, Receives, TypeOK
  <1>4. ASSUME NEW u \in Users, Disconnect(u) PROVE TypeOK' /\ TasksOK'
    <2>1. task' \in [Tasks -> TaskState] /\ TasksOK' /\ floor' \in Users \cup {NoOne}
      BY <1>4, <1>e, <1>d DEF Disconnect, TypeOK
    <2> QED
      BY <1>4, <2>1 DEF Disconnect, Receives, TypeOK
  <1>5. ASSUME NEW u \in Users, Connect(u) \/ RoomJoin(u) \/ Reap(u) \/ Deliver(u)
        PROVE  TypeOK' /\ TasksOK'
    <2>1. task' \in [Tasks -> TaskState] /\ TasksOK'
      BY <1>5, <1>d DEF Connect, RoomJoin, Reap, Deliver
    <2> QED
      BY <1>5, <2>1 DEF Connect, RoomJoin, Reap, Deliver, Receives, TypeOK
  <1>6. CASE TimerRevoke
    <2>1. task' \in [Tasks -> TaskState] /\ TasksOK'
      <3>1. Start(Timer, "revoke", "audio", {}, floor) /\ floor \in Users \cup {NoOne}
        BY <1>6 DEF TimerRevoke, TypeOK
      <3>2. "revoke" \in Ops /\ "audio" \in StepsOf("revoke") /\ {} \in SUBSET Users
        BY StepFacts DEF Ops
      <3> QED
        BY <1>u, <1>a, <3>1, <3>2
    <2> QED
      BY <1>6, <2>1 DEF TimerRevoke, Stalled, TypeOK
  <1>f. ASSUME NEW v \in Users, NEW s \in Users \cup {NoOne}, Send(v, s)
        PROVE  mailbox' \in [Users -> Users \cup {NoOne, Nothing}]
    BY <1>f DEF Send, TypeOK
  <1>7. ASSUME NEW t \in Tasks, Broadcast(t) PROVE TypeOK' /\ TasksOK'
    <2>1. /\ task[t] \in TaskState
          /\ task[t].step \in StepsOf(task[t].op)
          /\ task[t].step \in {"taken", "idle"}
      BY <1>7 DEF Broadcast, TypeOK, TasksOK
    <2>2. task[t].op \in Ops \ {"none"} /\ task[t].who \in Users \cup {NoOne}
          /\ task[t].to \in SUBSET Users
      BY <2>1 DEF TaskState, StepsOf
    <2>3. ASSUME AfterBroadcast(t)
          PROVE  task' \in [Tasks -> TaskState] /\ TasksOK'
      <3>1. \/ task[t].op \in {"grant", "again", "leave", "close"} /\ Goto(t, "audio", {})
            \/ task[t].op = "release" /\ Goto(t, "reply", {})
            \/ Finish(t)
        BY <2>2, <2>3 DEF AfterBroadcast, Ops
      <3>2. CASE task[t].op \in {"grant", "again", "leave", "close"} /\ Goto(t, "audio", {})
        <4>1. "audio" \in StepsOf(task[t].op)
          BY <3>2, StepFacts
        <4> QED
          BY <3>2, <4>1, <1>b
      <3>3. CASE task[t].op = "release" /\ Goto(t, "reply", {})
        <4>1. "reply" \in StepsOf(task[t].op)
          BY <3>3, StepFacts
        <4> QED
          BY <3>3, <4>1, <1>b
      <3> QED
        BY <3>1, <3>2, <3>3, <1>c
    <2>4. task' \in [Tasks -> TaskState] /\ TasksOK'
      <3>1. AfterBroadcast(t) \/ \E v \in task[t].to : Goto(t, task[t].step, task[t].to \ {v})
        BY <1>7 DEF Broadcast
      <3>2. ASSUME NEW v \in task[t].to, Goto(t, task[t].step, task[t].to \ {v})
            PROVE  task' \in [Tasks -> TaskState] /\ TasksOK'
        <4>1. task[t].to \ {v} \in SUBSET Users
          BY <2>2
        <4> QED
          BY <2>1, <3>2, <4>1, <1>b
      <3> QED
        BY <2>3, <3>1, <3>2
    <2>5. mailbox' \in [Users -> Users \cup {NoOne, Nothing}]
      BY <1>7, <2>2, <1>f DEF Broadcast, TypeOK
    <2> QED
      BY <1>7, <2>4, <2>5 DEF Broadcast, TypeOK
  <1>8. ASSUME NEW t \in Tasks, NEW k \in Kinds, Rewriter(t, k) PROVE TypeOK' /\ TasksOK'
    <2>1. /\ task[t] \in TaskState
          /\ task[t].step \in StepsOf(task[t].op)
          /\ task[t].step \in {"audio", "video"}
      BY <1>8 DEF Rewriter, TypeOK, TasksOK, Kinds
    <2>2. task[t].op \in Ops \ {"none"} /\ task[t].who \in Users \cup {NoOne}
      BY <2>1 DEF TaskState, StepsOf
    <2>3. task' \in [Tasks -> TaskState] /\ TasksOK'
      <3>1. \/ Goto(t, "video", {})
            \/ task[t].op \in {"grant", "again"} /\ Goto(t, "reply", {})
            \/ task[t].op \in {"leave", "close"} /\ Goto(t, "remove", {})
            \/ task[t].op = "release" /\ Goto(t, "idle", members)
            \/ task[t].op = "revoke" /\ Goto(t, "revoke", {})
        BY <1>8, <2>2 DEF Rewriter, AfterRewriters, Ops
      <3>2. \E step \in StepsOf(task[t].op), to \in SUBSET Users : Goto(t, step, to)
        <4>1. members \in SUBSET Users /\ {} \in SUBSET Users
          BY DEF TypeOK
        <4>2. /\ "video" \in StepsOf(task[t].op)
              /\ task[t].op \in {"grant", "again"} => "reply" \in StepsOf(task[t].op)
              /\ task[t].op \in {"leave", "close"} => "remove" \in StepsOf(task[t].op)
              /\ task[t].op = "release" => "idle" \in StepsOf(task[t].op)
              /\ task[t].op = "revoke" => "revoke" \in StepsOf(task[t].op)
          BY <2>2, StepFacts
        <4> QED
          BY <3>1, <4>1, <4>2
      <3> QED
        BY <3>2, <1>b
    <2> QED
      BY <1>8, <2>2, <2>3 DEF Rewriter, TypeOK
  <1>9. ASSUME NEW t \in Tasks, SendRevoke(t) PROVE TypeOK' /\ TasksOK'
    <2>1. /\ task[t] \in TaskState
          /\ task[t].step \in StepsOf(task[t].op)
          /\ task[t].step = "revoke"
      BY <1>9 DEF SendRevoke, TypeOK, TasksOK
    <2>2. task[t].op = "revoke" /\ task[t].who \in Users \cup {NoOne}
      BY <2>1 DEF TaskState, StepsOf, Ops
    <2>3. task' \in [Tasks -> TaskState] /\ TasksOK'
      <3>1. Goto(t, "idle", members) /\ members \in SUBSET Users
        BY <1>9 DEF SendRevoke, TypeOK
      <3>2. "idle" \in StepsOf(task[t].op)
        BY <2>2, StepFacts
      <3> QED
        BY <3>1, <3>2, <1>b
    <2>4. mailbox' \in [Users -> Users \cup {NoOne, Nothing}]
      BY <1>9 DEF SendRevoke, Send, TypeOK
    <2> QED
      BY <1>9, <2>3, <2>4 DEF SendRevoke, TypeOK
  <1>10. ASSUME NEW u \in Users, Reply(u) \/ Remove(u) PROVE TypeOK' /\ TasksOK'
    <2>1. task' \in [Tasks -> TaskState] /\ TasksOK'
      BY <1>10, <1>u, <1>c DEF Reply, Remove
    <2>2. CASE Reply(u)
      BY <2>1, <2>2 DEF Reply, TypeOK
    <2>3. CASE Remove(u)
      BY <2>1, <2>3 DEF Remove, TypeOK
    <2> QED
      BY <1>10, <2>2, <2>3
  <1>11. CASE UNCHANGED vars
    BY <1>11 DEF vars, TypeOK, TasksOK
  <1> QED
    BY <1>1, <1>2, <1>3, <1>4, <1>5, <1>6, <1>7, <1>8, <1>9, <1>10, <1>11
       DEF Next, Call, Continue

-----------------------------------------------------------------------------
\* The call, the section and the speaker of a task after it moved; the other tasks
\* stay where they are.
Moved(t, op, step, who) ==
    /\ task'[t].op = op
    /\ task'[t].step = step
    /\ task'[t].who = who
    /\ \A s \in Tasks \ {t} : task'[s] = task[s]

\* Starting, continuing and ending a task, in those terms.
LEMMA Starts ==
    ASSUME TypeOK, NEW t \in Tasks, NEW op, NEW step, NEW to, NEW who,
           Start(t, op, step, to, who)
    PROVE  Moved(t, op, step, who)
  BY DEF Start, Busy, TypeOK, Moved

\* A task that goes on moves to another step of the call it is in.
LEMMA GoesTo ==
    ASSUME TypeOK, NEW t \in Tasks, NEW step, NEW to, Goto(t, step, to)
    PROVE  Moved(t, task[t].op, step, task[t].who)
  BY Starts DEF Goto

\* A task that ends its call moves to rest.
LEMMA Finishes ==
    ASSUME TypeOK, NEW t \in Tasks, Finish(t)
    PROVE  Moved(t, "none", "none", NoOne)
  BY DEF Finish, Resting, Busy, TypeOK, Moved

\* Where a broadcast leads: on to the next recipient, or to what follows it.
LEMMA BroadcastMoves ==
    ASSUME TypeOK, TasksOK, NEW t \in Tasks, Broadcast(t)
    PROVE  /\ task[t].op # "none" /\ task[t].step \in {"taken", "idle"}
           /\ \/ Moved(t, task[t].op, task[t].step, task[t].who)
              \/ /\ task[t].op \in {"grant", "again", "leave", "close"}
                 /\ Moved(t, task[t].op, "audio", task[t].who)
              \/ /\ task[t].op = "release"
                 /\ Moved(t, task[t].op, "reply", task[t].who)
              \/ /\ task[t].op = "revoke"
                 /\ Moved(t, "none", "none", NoOne)
  <1>1. task[t].step \in {"taken", "idle"} /\ task[t].op \in Ops \ {"none"}
    BY DEF Broadcast, TypeOK, TaskState, TasksOK, StepsOf
  <1>2. \/ \E to : Goto(t, task[t].step, to)
        \/ AfterBroadcast(t)
    BY DEF Broadcast
  <1>3. AfterBroadcast(t) =>
          \/ task[t].op \in {"grant", "again", "leave", "close"} /\ Goto(t, "audio", {})
          \/ task[t].op = "release" /\ Goto(t, "reply", {})
          \/ task[t].op = "revoke" /\ Finish(t)
    BY <1>1 DEF AfterBroadcast, Ops
  <1> QED
    BY <1>1, <1>2, <1>3, GoesTo, Finishes

\* Where a rewriter's section leads: audio to video, video to what follows.
LEMMA RewriterMoves ==
    ASSUME TypeOK, TasksOK, NEW t \in Tasks, NEW k \in Kinds, Rewriter(t, k)
    PROVE  /\ task[t].op # "none" /\ task[t].step = k
           /\ k = "audio" => Moved(t, task[t].op, "video", task[t].who)
           /\ \E step \in {"video", "reply", "remove", "idle", "revoke"} :
                Moved(t, task[t].op, step, task[t].who)
  <1>1. task[t].step \in {"audio", "video"} /\ task[t].op \in Ops \ {"none"}
    BY DEF Rewriter, TypeOK, TaskState, TasksOK, StepsOf, Kinds
  <1>2. \/ k = "audio" /\ Goto(t, "video", {})
        \/ k # "audio" /\ AfterRewriters(t)
    BY DEF Rewriter
  <1>3. AfterRewriters(t) =>
          \E step \in {"reply", "remove", "idle", "revoke"} : \E to : Goto(t, step, to)
    BY <1>1 DEF AfterRewriters, Ops
  <1>4. task[t].step = k
    BY DEF Rewriter
  <1> QED
    BY <1>1, <1>2, <1>3, <1>4, GoesTo

-----------------------------------------------------------------------------
\* A step that leaves the floor alone and starts no FLOOR_REQUEST keeps Granting.
LEMMA KeepsGranting ==
    ASSUME Granting, floor' = floor, late' = late,
           \A t \in Tasks : \/ task'[t].op \notin {"grant", "again"}
                            \/ task'[t].op = task[t].op /\ task'[t].who = task[t].who
    PROVE  Granting'
  BY DEF Granting

\* A step that changes neither floor nor rewriters, and takes from no task the
\* sections in which it clears them, keeps FormerSpeakerIsCleared.
LEMMA KeepsCleared ==
    ASSUME FormerSpeakerIsCleared, UNCHANGED <<floor, rewriter, late>>,
           \A t \in Tasks, k \in Kinds : WillClear(t, k) => WillClear(t, k)'
    PROVE  FormerSpeakerIsCleared'
  BY DEF FormerSpeakerIsCleared

\* A task that moves from a section in which it clears nothing takes nothing away.
LEMMA IdleMoves ==
    ASSUME NEW t \in Tasks, NEW op, NEW step, NEW who, Moved(t, op, step, who),
           \A k \in Kinds : ~WillClear(t, k)
    PROVE  \A s \in Tasks, k \in Kinds : WillClear(s, k) => WillClear(s, k)'
  BY DEF Moved, WillClear

\* While a session is at rest it clears nothing.
LEMMA RestClearsNothing ==
    ASSUME NEW t \in Tasks, AtRest(t)
    PROVE  \A k \in Kinds : ~WillClear(t, k)
  BY DEF AtRest, WillClear

\* A leaving or releasing session, or the timer, is going to clear both rewriters
\* from the moment it gives the floor away.
LEMMA FreeingClears ==
    ASSUME NEW t \in Tasks, NEW op, NEW step, NEW who, Moved(t, op, step, who),
           \/ op \in {"release", "revoke"} /\ step = "audio"
           \/ op \in {"leave", "close"} /\ step = "idle"
    PROVE  \A k \in Kinds : WillClear(t, k)'
  BY DEF Moved, WillClear

\* Whoever takes the floor away from its holder is going to clear the rewriters.
LEMMA Frees ==
    ASSUME IInv, NEW t \in Tasks, NEW op \in {"release", "revoke", "leave", "close"},
           NEW step, NEW who, Moved(t, op, step, who), AtRest(t),
           \/ op \in {"release", "revoke"} /\ step = "audio"
           \/ op \in {"leave", "close"} /\ step = "idle",
           floor' = NoOne, rewriter' = rewriter, late \subseteq late'
    PROVE  FormerSpeakerIsCleared'
  BY FreeingClears DEF FormerSpeakerIsCleared

\* Every critical section keeps Granting: while a grant is being carried out only
\* the timer can take the floor away, and it makes the speaker a late one.
LEMMA GrantingStep == IInv /\ [Next]_vars => Granting'
  <1> SUFFICES ASSUME IInv, [Next]_vars PROVE Granting'
    OBVIOUS
  <1> USE DEF server
  <1>i. TypeOK /\ TasksOK /\ Granting
    BY DEF IInv
  <1>u. Users \subseteq Tasks /\ Timer \in Tasks
    BY DEF Tasks
  \* A task that was at rest begins a call other than FLOOR_REQUEST: the floor stays
  \* as it is, was free, or was the task's own.
  <1>f. ASSUME NEW t \in Tasks, NEW op \in Ops \ {"grant", "again"}, NEW step, NEW who,
               Moved(t, op, step, who), AtRest(t), late' = late,
               \/ floor' = floor
               \/ floor = NoOne
               \/ floor = t
        PROVE  Granting'
    BY <1>f, <1>i DEF Granting, Moved, AtRest
  <1>1. ASSUME NEW u \in Users, FloorRequest(u) PROVE Granting'
    <2>1. AtRest(u) /\ u \in Tasks
      BY <1>1, <1>u DEF FloorRequest, Receives
    <2>2. CASE floor = NoOne
      <3>1. floor' = u /\ late' = late /\ Moved(u, "grant", "taken", u)
        BY <1>1, <1>i, <1>u, <2>2, Starts DEF FloorRequest
      <3> QED
        BY <1>i, <2>1, <2>2, <3>1 DEF Granting, Moved, AtRest
    <2>3. CASE floor = u
      <3>1. floor' = u /\ late' = late \cup {u} /\ Moved(u, "again", "taken", u)
        BY <1>1, <1>i, <1>u, <2>3, Starts DEF FloorRequest
      <3> QED
        BY <1>i, <2>1, <2>3, <3>1 DEF Granting, Moved, AtRest
    <2>4. CASE floor \notin {NoOne, u}
      BY <1>1, <1>i, <2>4 DEF FloorRequest, Granting
    <2> QED
      BY <2>2, <2>3, <2>4
  <1>2. ASSUME NEW u \in Users, FloorRelease(u) PROVE Granting'
    <2>1. AtRest(u) /\ u \in Tasks /\ late' = late
      BY <1>2, <1>u DEF FloorRelease, Receives
    <2>2. CASE floor \in {NoOne, u}
      <3>1. Moved(u, "release", "audio", u)
        BY <1>2, <1>i, <1>u, <2>2, Starts DEF FloorRelease
      <3> QED
        BY <2>1, <2>2, <3>1, <1>f DEF Ops
    <2>3. CASE floor \notin {NoOne, u}
      BY <1>2, <1>i, <2>3 DEF FloorRelease, Granting
    <2> QED
      BY <2>2, <2>3
  <1>l. ASSUME NEW u \in Users, NEW op \in {"leave", "close"}, LeaveFloor(u, op),
               AtRest(u), late' = late
        PROVE  Granting'
    <2>1. \/ floor = u /\ Moved(u, op, "idle", u)
          \/ floor' = floor /\ Moved(u, op, "remove", u)
      BY <1>l, <1>i, <1>u, Starts DEF LeaveFloor
    <2>2. u \in Tasks /\ op \in Ops \ {"grant", "again"}
      BY <1>u DEF Ops
    <2> QED
      BY <1>l, <2>1, <2>2, <1>f
  <1>3. ASSUME NEW u \in Users, RoomLeave(u) PROVE Granting'
    BY <1>3, <1>l DEF RoomLeave, Receives
  <1>4. ASSUME NEW u \in Users, Disconnect(u) PROVE Granting'
    <2>1. CASE u \in inRoom
      BY <1>4, <2>1, <1>l DEF Disconnect, Receives
    <2>2. CASE u \notin inRoom
      BY <1>4, <1>i, <2>2 DEF Disconnect, Granting
    <2> QED
      BY <2>1, <2>2
  <1>5. ASSUME NEW u \in Users, Connect(u) \/ RoomJoin(u) \/ Reap(u) \/ Deliver(u)
        PROVE  Granting'
    BY <1>5, <1>i DEF Connect, RoomJoin, Reap, Deliver, Granting
  <1>6. CASE TimerRevoke
    <2>1. Moved(Timer, "revoke", "audio", floor)
      BY <1>6, <1>i, <1>u, Starts DEF TimerRevoke
    <2>2. /\ floor' = NoOne /\ late \subseteq late'
          /\ task[floor].op = "grant" => floor \in late'
      BY <1>6 DEF TimerRevoke, Stalled
    <2> QED
      BY <1>i, <2>1, <2>2 DEF Granting, Moved
  <1>7. ASSUME NEW t \in Tasks, Broadcast(t) PROVE Granting'
    BY <1>7, <1>i, BroadcastMoves, KeepsGranting DEF Broadcast, Moved
  <1>8. ASSUME NEW t \in Tasks, NEW k \in Kinds, Rewriter(t, k) PROVE Granting'
    BY <1>8, <1>i, RewriterMoves, KeepsGranting DEF Rewriter, Moved
  <1>9. ASSUME NEW t \in Tasks, SendRevoke(t) PROVE Granting'
    BY <1>9, <1>i, GoesTo, KeepsGranting DEF SendRevoke, Moved
  <1>10. ASSUME NEW u \in Users, Reply(u) \/ Remove(u) PROVE Granting'
    BY <1>10, <1>i, <1>u, Finishes, KeepsGranting DEF Reply, Remove, Moved
  <1>11. CASE UNCHANGED vars
    BY <1>11, <1>i DEF vars, Granting
  <1> QED
    BY <1>1, <1>2, <1>3, <1>4, <1>5, <1>6, <1>7, <1>8, <1>9, <1>10, <1>11
       DEF Next, Call, Continue

\* Every critical section keeps FormerSpeakerIsCleared: the task that takes the
\* floor away clears the rewriters, and only the holder's own grant sets them.
LEMMA ClearedStep == IInv /\ [Next]_vars => FormerSpeakerIsCleared'
  <1> SUFFICES ASSUME IInv, [Next]_vars PROVE FormerSpeakerIsCleared'
    OBVIOUS
  <1> USE DEF server
  <1>i. TypeOK /\ TasksOK /\ Granting /\ FormerSpeakerIsCleared
    BY DEF IInv
  <1>u. Users \subseteq Tasks /\ Timer \in Tasks
    BY DEF Tasks
  \* A task at rest begins a call and changes neither floor nor rewriters.
  <1>m. ASSUME NEW t \in Tasks, NEW op, NEW step, NEW who, Moved(t, op, step, who),
               AtRest(t), UNCHANGED <<floor, rewriter, late>>
        PROVE  FormerSpeakerIsCleared'
    BY <1>m, <1>i, RestClearsNothing, IdleMoves, KeepsCleared
  <1>n. ASSUME UNCHANGED <<floor, rewriter, late, task>>
        PROVE  FormerSpeakerIsCleared'
    BY <1>n, <1>i, KeepsCleared DEF WillClear
  <1>1. ASSUME NEW u \in Users, FloorRequest(u) PROVE FormerSpeakerIsCleared'
    <2>1. AtRest(u) /\ u \in Tasks /\ rewriter' = rewriter
      BY <1>1, <1>u DEF FloorRequest, Receives
    <2>2. CASE floor \in {NoOne, u}
      <3>1. /\ floor' = u /\ late \subseteq late'
            /\ \E op : Moved(u, op, "taken", u)
        BY <1>1, <1>i, <1>u, <2>2, Starts DEF FloorRequest, TypeOK
      <3>2. \A s \in Tasks, k \in Kinds : WillClear(s, k) => WillClear(s, k)'
        BY <2>1, <3>1, RestClearsNothing, IdleMoves
      <3> QED
        BY <1>i, <2>1, <2>2, <3>1, <3>2 DEF FormerSpeakerIsCleared
    <2>3. CASE floor \notin {NoOne, u}
      BY <1>1, <1>n, <2>3 DEF FloorRequest
    <2> QED
      BY <2>2, <2>3
  <1>2. ASSUME NEW u \in Users, FloorRelease(u) PROVE FormerSpeakerIsCleared'
    <2>1. AtRest(u) /\ u \in Tasks /\ UNCHANGED <<rewriter, late>>
      BY <1>2, <1>u DEF FloorRelease, Receives
    <2>2. CASE floor \in {NoOne, u}
      <3>1. floor' = NoOne /\ Moved(u, "release", "audio", u)
        BY <1>2, <1>i, <1>u, <2>2, Starts DEF FloorRelease
      <3> QED
        BY <2>1, <3>1, Frees
    <2>3. CASE floor \notin {NoOne, u}
      BY <1>2, <1>n, <2>1, <2>3 DEF FloorRelease
    <2> QED
      BY <2>2, <2>3
  <1>l. ASSUME NEW u \in Users, NEW op \in {"leave", "close"}, LeaveFloor(u, op),
               AtRest(u), UNCHANGED <<rewriter, late>>
        PROVE  FormerSpeakerIsCleared'
    <2>1. CASE floor = u
      <3>1. floor' = NoOne /\ Moved(u, op, "idle", u)
        BY <1>l, <1>i, <1>u, <2>1, Starts DEF LeaveFloor
      <3> QED
        BY <1>l, <1>u, <3>1, Frees
    <2>2. CASE floor # u
      <3>1. floor' = floor /\ Moved(u, op, "remove", u)
        BY <1>l, <1>i, <1>u, <2>2, Starts DEF LeaveFloor
      <3> QED
        BY <1>l, <1>u, <3>1, <1>m
    <2> QED
      BY <2>1, <2>2
  <1>3. ASSUME NEW u \in Users, RoomLeave(u) PROVE FormerSpeakerIsCleared'
    BY <1>3, <1>l DEF RoomLeave, Receives
  <1>4. ASSUME NEW u \in Users, Disconnect(u) PROVE FormerSpeakerIsCleared'
    <2>1. CASE u \in inRoom
      BY <1>4, <2>1, <1>l DEF Disconnect, Receives
    <2>2. CASE u \notin inRoom
      BY <1>4, <1>n, <2>2 DEF Disconnect
    <2> QED
      BY <2>1, <2>2
  <1>5. ASSUME NEW u \in Users, Connect(u) \/ RoomJoin(u) \/ Reap(u) \/ Deliver(u)
        PROVE  FormerSpeakerIsCleared'
    BY <1>5, <1>n DEF Connect, RoomJoin, Reap, Deliver
  <1>6. CASE TimerRevoke
    <2>1. Moved(Timer, "revoke", "audio", floor)
      BY <1>6, <1>i, <1>u, Starts DEF TimerRevoke
    <2> QED
      BY <1>6, <1>u, <2>1, Frees DEF TimerRevoke, Stalled
  <1>7. ASSUME NEW t \in Tasks, Broadcast(t) PROVE FormerSpeakerIsCleared'
    <2>1. \A s \in Tasks, k \in Kinds : WillClear(s, k) => WillClear(s, k)'
      <3>1. \A s \in Tasks \ {t} : task'[s] = task[s]
        BY <1>7, <1>i, BroadcastMoves DEF Moved
      <3>2. ASSUME NEW k \in Kinds, WillClear(t, k) PROVE WillClear(t, k)'
        <4>1. task[t].op \in {"leave", "close"} /\ task[t].step = "idle"
          BY <1>7, <3>2 DEF Broadcast, WillClear, Kinds
        <4>2. /\ task'[t].op = task[t].op
              /\ task'[t].step \in {"idle", "audio"}
          BY <1>7, <1>i, <4>1, BroadcastMoves DEF Moved
        <4> QED
          BY <4>1, <4>2 DEF WillClear
      <3> QED
        BY <3>1, <3>2 DEF WillClear
    <2> QED
      BY <1>7, <1>i, <2>1, KeepsCleared DEF Broadcast
  <1>8. ASSUME NEW t \in Tasks, NEW k \in Kinds, Rewriter(t, k)
        PROVE  FormerSpeakerIsCleared'
    <2>1. /\ UNCHANGED <<floor, late>>
          /\ \A j \in Kinds \ {k} : rewriter'[j] = rewriter[j]
          /\ rewriter'[k] \in {NoOne, floor} \cup late
      BY <1>8, <1>i, RewriterMoves DEF Rewriter, TypeOK, Granting
    <2>2. \A s \in Tasks, j \in Kinds \ {k} : WillClear(s, j) => WillClear(s, j)'
      BY <1>8, <1>i, RewriterMoves DEF Moved, WillClear, Kinds
    <2> QED
      BY <1>i, <2>1, <2>2 DEF FormerSpeakerIsCleared
  <1>9. ASSUME NEW t \in Tasks, SendRevoke(t) PROVE FormerSpeakerIsCleared'
    <2>1. \A k \in Kinds : ~WillClear(t, k)
      BY <1>9 DEF SendRevoke, WillClear, Kinds
    <2> QED
      BY <1>9, <1>i, <2>1, GoesTo, IdleMoves, KeepsCleared DEF SendRevoke
  <1>10. ASSUME NEW u \in Users, Reply(u) \/ Remove(u) PROVE FormerSpeakerIsCleared'
    <2>1. \A k \in Kinds : ~WillClear(u, k)
      BY <1>10 DEF Reply, Remove, WillClear, Kinds
    <2> QED
      BY <1>10, <1>i, <1>u, <2>1, Finishes, IdleMoves, KeepsCleared DEF Reply, Remove
  <1>11. CASE UNCHANGED vars
    BY <1>11, <1>n DEF vars
  <1> QED
    BY <1>1, <1>2, <1>3, <1>4, <1>5, <1>6, <1>7, <1>8, <1>9, <1>10, <1>11
       DEF Next, Call, Continue

-----------------------------------------------------------------------------
\* The invariant holds in every state the tasks of a room can reach.
THEOREM Invariance == Spec => []IInv
  <1>1. IInv /\ [Next]_vars => IInv'
    BY TypeStep, GrantingStep, ClearedStep DEF IInv
  <1> QED
    BY <1>1, InitInv, PTL DEF Spec

\* Type correctness of the room, its tasks, mailboxes and clients.
THEOREM Types == Spec => []TypeOK
  <1>1. IInv => TypeOK
    BY DEF IInv
  <1> QED
    BY <1>1, Invariance, PTL

\* Apart from speakers whose own FLOOR_REQUEST handler outlived their burst, a former
\* speaker keeps its virtual stream only until the task that ended its burst has
\* cleared it, for any number of users, calls and handlers at work at once.
THEOREM FormerSpeakers == Spec => []FormerSpeakerIsCleared
  <1>1. IInv => FormerSpeakerIsCleared
    BY DEF IInv
  <1> QED
    BY <1>1, Invariance, PTL

-----------------------------------------------------------------------------
\* What clients of the room believe about who may speak.

\* FLOOR_TAKEN goes to others than the speaker it names.
Addressed ==
    /\ \A t \in Tasks : task[t].step = "taken" => task[t].who \notin task[t].to
    /\ \A u \in Users : mailbox[u] # u

\* The client of u believes that it may speak, or is about to: the handler of its
\* FLOOR_REQUEST has yet to reply.
MaySpeak(u) == task[u].op \in {"grant", "again"} \/ (AtRest(u) /\ view[u] = u)

\* The strengthening of RevokedSpeakerIsTold that is inductive: the timer owes the news
\* from the moment it takes the floor, although the reply that it overrules comes later.
Overruled ==
    \A u \in members :
        MaySpeak(u) /\ mailbox[u] = Nothing /\ floor # u => WillTellIdle(Timer, u)

\* Of the handlers that tell of a revocation none is a session's.
OnlyTimerRevokes == \A u \in Users : task[u].op # "revoke"

\* The inductive invariant behind both results of this module.
BeliefInv == IInv /\ Addressed /\ OnlyTimerRevokes /\ Overruled /\ NoPhantomSpeaker

\* Who is owed FLOOR_IDLE is still owed it after a step, or has been sent it, or has gone.
KeepsTelling ==
    \A s \in Tasks, v \in Users :
        WillTellIdle(s, v) => WillTellIdle(s, v)' \/ mailbox'[v] = NoOne \/ v \notin members'

USE RoomAssumption DEF RoomAssumption

\* A task at rest owes nobody anything.
LEMMA RestTellsNothing ==
    ASSUME TasksOK, NEW t \in Tasks, AtRest(t)
    PROVE  \A v \in Users : ~WillTellIdle(t, v)
  <1>1. task[t].op = "none" /\ task[t].step \in StepsOf("none")
    BY DEF AtRest, TasksOK
  <1>2. task[t].step = "none"
    BY <1>1 DEF StepsOf
  <1> QED
    BY <1>1, <1>2 DEF WillTellIdle

\* A task that owes nothing takes nothing away, wherever it moves.
LEMMA QuietMoves ==
    ASSUME NEW t \in Tasks, \A s \in Tasks \ {t} : task'[s] = task[s],
           \A v \in Users : ~WillTellIdle(t, v)
    PROVE  KeepsTelling
  BY DEF KeepsTelling, WillTellIdle

\* The entry of a task that starts a call, goes on with it, or is done.
LEMMA StartEntry ==
    ASSUME TypeOK, NEW t \in Tasks, NEW op, NEW step, NEW to, NEW who,
           Start(t, op, step, to, who)
    PROVE  /\ task'[t].op = op /\ task'[t].step = step
           /\ task'[t].to = to /\ task'[t].who = who
           /\ \A s \in Tasks \ {t} : task'[s] = task[s]
  BY DEF Start, Busy, TypeOK

\* The entry of a task that goes on keeps its call and whom it is about.
LEMMA GotoEntry ==
    ASSUME TypeOK, NEW t \in Tasks, NEW step, NEW to, Goto(t, step, to)
    PROVE  /\ task'[t].op = task[t].op /\ task'[t].step = step
           /\ task'[t].to = to /\ task'[t].who = task[t].who
           /\ \A s \in Tasks \ {t} : task'[s] = task[s]
  BY StartEntry DEF Goto

\* A call that is done leaves its task with nobody to write to.
LEMMA FinishEntry ==
    ASSUME TypeOK, NEW t \in Tasks, Finish(t)
    PROVE  /\ task'[t].op = "none" /\ task'[t].step = "none"
           /\ task'[t].to = {} /\ task'[t].who = NoOne
           /\ \A s \in Tasks \ {t} : task'[s] = task[s]
  BY DEF Finish, Resting, Busy, TypeOK

\* What a task is in while it broadcasts.
LEMMA BroadcastFacts ==
    ASSUME TypeOK, TasksOK, NEW t \in Tasks, Broadcast(t)
    PROVE  /\ task[t].to \in SUBSET Users /\ task[t].op \in Ops \ {"none"}
           /\ task[t].step \in {"taken", "idle"}
           /\ task[t].step = "taken" <=> task[t].op \in {"grant", "again"}
           /\ \/ \E v \in task[t].to :
                   /\ Send(v, IF task[t].step = "taken" THEN task[t].who ELSE NoOne)
                   /\ \/ task[t].to = {v}
                      \/ task'[t].step = task[t].step /\ task'[t].to = task[t].to \ {v}
              \/ task[t].to = {} /\ mailbox' = mailbox
           /\ task'[t].step = "taken" =>
                /\ task[t].step = "taken"
                /\ task'[t].who = task[t].who /\ task'[t].to \subseteq task[t].to
           /\ task'[t].op = task[t].op \/ (task[t].op = "revoke" /\ task'[t].op = "none")
           /\ \A s \in Tasks \ {t} : task'[s] = task[s]
  <1>1. task[t] \in TaskState /\ task[t].step \in StepsOf(task[t].op)
    BY DEF TypeOK, TasksOK
  <1>2. task[t].step \in {"taken", "idle"}
    BY DEF Broadcast
  <1>3. task[t].to \in SUBSET Users /\ task[t].op \in Ops \ {"none"}
    BY <1>1, <1>2 DEF TaskState, StepsOf
  <1>4. task[t].step = "taken" <=> task[t].op \in {"grant", "again"}
    BY <1>1, <1>2, <1>3 DEF StepsOf, Ops
  <1>5. ASSUME AfterBroadcast(t)
        PROVE  /\ \A s \in Tasks \ {t} : task'[s] = task[s]
               /\ task'[t].step \notin {"taken", "idle"}
               /\ task'[t].op = task[t].op \/ (task[t].op = "revoke" /\ task'[t].op = "none")
    <2>1. \/ Goto(t, "audio", {}) \/ Goto(t, "reply", {})
          \/ task[t].op = "revoke" /\ Finish(t)
      BY <1>3, <1>5 DEF AfterBroadcast, Ops
    <2> QED
      BY <2>1, GotoEntry, FinishEntry
  <1>6. CASE task[t].to = {} /\ AfterBroadcast(t) /\ UNCHANGED mailbox
    BY <1>2, <1>3, <1>4, <1>5, <1>6
  <1>7. ASSUME NEW v \in task[t].to,
               Send(v, IF task[t].step = "taken" THEN task[t].who ELSE NoOne),
               task[t].to = {v}, AfterBroadcast(t)
        PROVE  /\ \A s \in Tasks \ {t} : task'[s] = task[s]
               /\ task'[t].step \notin {"taken", "idle"}
               /\ task'[t].op = task[t].op \/ (task[t].op = "revoke" /\ task'[t].op = "none")
    BY <1>5, <1>7
  <1>8. ASSUME NEW v \in task[t].to, Goto(t, task[t].step, task[t].to \ {v})
        PROVE  /\ \A s \in Tasks \ {t} : task'[s] = task[s]
               /\ task'[t].step = task[t].step /\ task'[t].who = task[t].who
               /\ task'[t].to = task[t].to \ {v} /\ task'[t].op = task[t].op
    BY <1>8, GotoEntry
  <1>9. \/ task[t].to = {} /\ AfterBroadcast(t) /\ UNCHANGED mailbox
        \/ \E v \in task[t].to :
             /\ Send(v, IF task[t].step = "taken" THEN task[t].who ELSE NoOne)
             /\ \/ task[t].to = {v} /\ AfterBroadcast(t)
                \/ Goto(t, task[t].step, task[t].to \ {v})
    BY DEF Broadcast
  <1>10. CASE \E v \in task[t].to :
                /\ Send(v, IF task[t].step = "taken" THEN task[t].who ELSE NoOne)
                /\ task[t].to = {v} /\ AfterBroadcast(t)
    BY <1>2, <1>3, <1>4, <1>7, <1>10
  <1>11. CASE \E v \in task[t].to :
                /\ Send(v, IF task[t].step = "taken" THEN task[t].who ELSE NoOne)
                /\ Goto(t, task[t].step, task[t].to \ {v})
    BY <1>2, <1>3, <1>4, <1>8, <1>11
  <1> QED
    BY <1>6, <1>9, <1>10, <1>11

\* Every step keeps what is owed: only the task that owes FLOOR_IDLE settles it, by
\* sending it.
LEMMA TellingStep == IInv /\ [Next]_vars => KeepsTelling
  <1> SUFFICES ASSUME IInv, [Next]_vars PROVE KeepsTelling
    OBVIOUS
  <1> USE DEF server
  <1>i. TypeOK /\ TasksOK
    BY DEF IInv
  <1>u. Users \subseteq Tasks /\ Timer \in Tasks
    BY DEF Tasks
  <1>s. ASSUME NEW t \in Tasks, AtRest(t), \A s \in Tasks \ {t} : task'[s] = task[s]
        PROVE  KeepsTelling
    BY <1>i, <1>s, RestTellsNothing, QuietMoves
  <1>n. ASSUME task' = task PROVE KeepsTelling
    BY <1>n DEF KeepsTelling, WillTellIdle
  <1>1. ASSUME NEW u \in Users, Call(u) PROVE KeepsTelling
    <2>1. task' = task \/ (AtRest(u) /\ \E op, step, to, who : Start(u, op, step, to, who))
      BY <1>1 DEF Call, FloorRequest, FloorRelease, RoomLeave, Disconnect, LeaveFloor, Connect,
                  RoomJoin, Receives
    <2> QED
      BY <1>i, <1>u, <1>s, <1>n, <2>1, StartEntry
  <1>2. ASSUME NEW u \in Users, Reap(u) \/ Deliver(u) PROVE KeepsTelling
    BY <1>2, <1>n DEF Reap, Deliver
  <1>3. CASE TimerRevoke
    BY <1>3, <1>i, <1>u, <1>s, StartEntry DEF TimerRevoke
  <1>4. ASSUME NEW t \in Tasks, Broadcast(t) PROVE KeepsTelling
    <2>1. \A s \in Tasks \ {t} : task'[s] = task[s]
      BY <1>4, <1>i, BroadcastFacts
    <2>2. members' = members
      BY <1>4 DEF Broadcast
    <2>3. ASSUME NEW v \in Users, WillTellIdle(t, v)
          PROVE  WillTellIdle(t, v)' \/ mailbox'[v] = NoOne \/ v \notin members'
      <3>1. task[t].step = "idle" /\ v \in task[t].to
        BY <1>4, <2>3 DEF Broadcast, WillTellIdle
      <3>2. PICK w \in task[t].to :
              /\ Send(w, NoOne)
              /\ task[t].to = {w} \/ (task'[t].step = "idle" /\ task'[t].to = task[t].to \ {w})
        BY <1>4, <1>i, <3>1, BroadcastFacts
      <3>3. CASE w = v
        BY <1>i, <2>2, <3>2, <3>3 DEF Send, TypeOK
      <3>4. CASE w # v
        BY <3>1, <3>2, <3>4 DEF WillTellIdle
      <3> QED
        BY <3>3, <3>4
    <2> QED
      BY <2>1, <2>3 DEF KeepsTelling, WillTellIdle
  <1>5. ASSUME NEW t \in Tasks, NEW k \in Kinds, Rewriter(t, k) PROVE KeepsTelling
    <2>1. /\ task[t].step \in {"audio", "video"} /\ task[t].op \in Ops \ {"none"}
          /\ members' = members
      BY <1>5, <1>i, RewriterMoves DEF Rewriter, Kinds, TypeOK, TaskState
    <2>2. \/ Goto(t, "video", {})
          \/ task[t].op \in {"grant", "again"} /\ Goto(t, "reply", {})
          \/ task[t].op \in {"leave", "close"} /\ Goto(t, "remove", {})
          \/ task[t].op = "release" /\ Goto(t, "idle", members)
          \/ task[t].op = "revoke" /\ Goto(t, "revoke", {})
      BY <1>5, <2>1 DEF Rewriter, AfterRewriters, Ops
    <2>3. \A s \in Tasks \ {t} : task'[s] = task[s]
      BY <1>i, <2>2, GotoEntry
    <2>4. ASSUME NEW v \in Users, WillTellIdle(t, v), v \in members PROVE WillTellIdle(t, v)'
      <3>1. task[t].op \in {"release", "revoke"}
        BY <2>1, <2>4 DEF WillTellIdle
      <3>2. /\ task'[t].op = task[t].op
            /\ \/ task'[t].step \in {"video", "revoke"}
               \/ task'[t].step = "idle" /\ task'[t].to = members
        BY <1>i, <2>2, <3>1, GotoEntry
      <3> QED
        BY <2>4, <3>1, <3>2 DEF WillTellIdle
    <2> QED
      BY <2>1, <2>3, <2>4 DEF KeepsTelling, WillTellIdle
  <1>6. ASSUME NEW t \in Tasks, SendRevoke(t) PROVE KeepsTelling
    <2>1. /\ task'[t].step = "idle" /\ task'[t].to = members /\ members' = members
          /\ \A s \in Tasks \ {t} : task'[s] = task[s]
      BY <1>6, <1>i, GotoEntry DEF SendRevoke
    <2> QED
      BY <2>1 DEF KeepsTelling, WillTellIdle
  <1>7. ASSUME NEW u \in Users, Reply(u) \/ Remove(u) PROVE KeepsTelling
    <2>1. \A s \in Tasks \ {u} : task'[s] = task[s]
      BY <1>7, <1>i, <1>u, FinishEntry DEF Reply, Remove
    <2>2. \A v \in Users : ~WillTellIdle(u, v)
      BY <1>7 DEF Reply, Remove, WillTellIdle
    <2> QED
      BY <1>u, <2>1, <2>2, QuietMoves
  <1>8. CASE UNCHANGED vars
    BY <1>8, <1>n DEF vars
  <1> QED
    BY <1>1, <1>2, <1>3, <1>4, <1>5, <1>6, <1>7, <1>8 DEF Next, Continue
-----------------------------------------------------------------------------
\* No step sends FLOOR_TAKEN to the speaker it names.
LEMMA AddressedStep == IInv /\ Addressed /\ [Next]_vars => Addressed'
  <1> SUFFICES ASSUME IInv, Addressed, [Next]_vars PROVE Addressed'
    OBVIOUS
  <1> USE DEF server
  <1>i. TypeOK /\ TasksOK
    BY DEF IInv
  <1>u. Users \subseteq Tasks /\ Timer \in Tasks
    BY DEF Tasks
  <1>n. \A u \in Users : NoOne # u /\ Nothing # u
    OBVIOUS
  <1>t. ASSUME NEW t \in Tasks, \A s \in Tasks \ {t} : task'[s] = task[s],
               task'[t].step = "taken" => task'[t].who \notin task'[t].to,
               \A u \in Users : mailbox'[u] # u
        PROVE  Addressed'
    BY <1>t DEF Addressed
  <1>1. ASSUME NEW u \in Users, FloorRequest(u) PROVE Addressed'
    <2>1. mailbox' = mailbox
      BY <1>1 DEF FloorRequest
    <2>2. task' = task \/ \E op : Start(u, op, "taken", members \ {u}, u)
      BY <1>1 DEF FloorRequest
    <2>3. CASE task' = task
      BY <2>1, <2>3 DEF Addressed
    <2>4. CASE \E op : Start(u, op, "taken", members \ {u}, u)
      <3>1. /\ task'[u].to = members \ {u} /\ task'[u].who = u
            /\ \A s \in Tasks \ {u} : task'[s] = task[s]
        BY <1>i, <1>u, <2>4, StartEntry
      <3> QED
        BY <1>u, <2>1, <3>1, <1>t DEF Addressed
    <2> QED
      BY <2>2, <2>3, <2>4
  <1>2. ASSUME NEW u \in Users, FloorRelease(u) \/ RoomLeave(u) \/ Disconnect(u) PROVE Addressed'
    <2>1. mailbox' = mailbox \/ mailbox' = [mailbox EXCEPT ![u] = Nothing]
      BY <1>2 DEF FloorRelease, RoomLeave, Disconnect
    <2>2. \A v \in Users : mailbox'[v] # v
      BY <1>i, <1>n, <2>1 DEF Addressed, TypeOK
    <2>3. task' = task \/ \E op, to, who : \E step \in {"audio", "idle", "remove"} :
                                              Start(u, op, step, to, who)
      BY <1>2 DEF FloorRelease, RoomLeave, Disconnect, LeaveFloor
    <2>4. CASE task' = task
      BY <2>2, <2>4 DEF Addressed
    <2>5. CASE \E op, to, who : \E step \in {"audio", "idle", "remove"} :
                  Start(u, op, step, to, who)
      <3>1. task'[u].step # "taken" /\ \A s \in Tasks \ {u} : task'[s] = task[s]
        BY <1>i, <1>u, <2>5, StartEntry
      <3> QED
        BY <1>u, <2>2, <3>1, <1>t
    <2> QED
      BY <2>3, <2>4, <2>5
  <1>3. ASSUME NEW u \in Users, Connect(u) \/ RoomJoin(u) \/ Reap(u) \/ Deliver(u)
        PROVE  Addressed'
    <2>1. task' = task /\ (mailbox' = mailbox \/ mailbox' = [mailbox EXCEPT ![u] = Nothing])
      BY <1>3 DEF Connect, RoomJoin, Reap, Deliver
    <2> QED
      BY <1>i, <1>n, <2>1 DEF Addressed, TypeOK
  <1>4. CASE TimerRevoke
    <2>1. mailbox' = mailbox /\ Start(Timer, "revoke", "audio", {}, floor)
      BY <1>4 DEF TimerRevoke
    <2>2. task'[Timer].step # "taken" /\ \A s \in Tasks \ {Timer} : task'[s] = task[s]
      BY <1>i, <1>u, <2>1, StartEntry
    <2> QED
      BY <1>u, <2>1, <2>2, <1>t DEF Addressed
  <1>5. ASSUME NEW t \in Tasks, Broadcast(t) PROVE Addressed'
    <2>1. /\ \A s \in Tasks \ {t} : task'[s] = task[s]
          /\ task'[t].step = "taken" =>
               /\ task[t].step = "taken"
               /\ task'[t].who = task[t].who /\ task'[t].to \subseteq task[t].to
      BY <1>5, <1>i, BroadcastFacts
    <2>2. \A u \in Users : mailbox'[u] # u
      <3>1. CASE mailbox' = mailbox
        BY <3>1 DEF Addressed
      <3>2. ASSUME NEW v \in task[t].to,
                   Send(v, IF task[t].step = "taken" THEN task[t].who ELSE NoOne)
            PROVE  \A u \in Users : mailbox'[u] # u
        <4>1. v \in Users /\ (IF task[t].step = "taken" THEN task[t].who ELSE NoOne) # v
          BY <1>5, <1>i, <1>n, BroadcastFacts DEF Addressed
        <4> QED
          BY <1>i, <3>2, <4>1 DEF Send, Addressed, TypeOK
      <3> QED
        BY <1>5, <1>i, <3>1, <3>2, BroadcastFacts
    <2> QED
      BY <2>1, <2>2, <1>t DEF Addressed
  <1>6. ASSUME NEW t \in Tasks, NEW k \in Kinds, Rewriter(t, k) PROVE Addressed'
    <2>1. PICK step \in {"video", "reply", "remove", "idle", "revoke"} :
            Moved(t, task[t].op, step, task[t].who)
      BY <1>6, <1>i, RewriterMoves
    <2>2. mailbox' = mailbox
      BY <1>6 DEF Rewriter
    <2> QED
      BY <2>1, <2>2, <1>t DEF Moved, Addressed
  <1>7. ASSUME NEW t \in Tasks, SendRevoke(t) PROVE Addressed'
    <2>1. task'[t].step = "idle" /\ \A s \in Tasks \ {t} : task'[s] = task[s]
      BY <1>7, <1>i, GotoEntry DEF SendRevoke
    <2>2. \A u \in Users : mailbox'[u] # u
      BY <1>7, <1>i, <1>n DEF SendRevoke, Send, Addressed, TypeOK
    <2> QED
      BY <2>1, <2>2, <1>t
  <1>8. ASSUME NEW u \in Users, Reply(u) \/ Remove(u) PROVE Addressed'
    <2>1. task'[u].step = "none" /\ \A s \in Tasks \ {u} : task'[s] = task[s]
      BY <1>8, <1>i, <1>u, FinishEntry DEF Reply, Remove
    <2>2. mailbox' = mailbox \/ mailbox' = [mailbox EXCEPT ![u] = Nothing]
      BY <1>8 DEF Reply, Remove
    <2>3. \A v \in Users : mailbox'[v] # v
      BY <1>i, <1>n, <2>2 DEF Addressed, TypeOK
    <2> QED
      BY <1>u, <2>1, <2>3, <1>t
  <1>9. CASE UNCHANGED vars
    BY <1>9 DEF vars, Addressed
  <1> QED
    BY <1>1, <1>2, <1>3, <1>4, <1>5, <1>6, <1>7, <1>8, <1>9 DEF Next, Call, Continue
-----------------------------------------------------------------------------
\* No session begins a revocation.
LEMMA OnlyTimerStep == IInv /\ OnlyTimerRevokes /\ [Next]_vars => OnlyTimerRevokes'
  <1> SUFFICES ASSUME IInv, OnlyTimerRevokes, [Next]_vars PROVE OnlyTimerRevokes'
    OBVIOUS
  <1> USE DEF server
  <1>i. TypeOK /\ TasksOK
    BY DEF IInv
  <1>u. Users \subseteq Tasks /\ Timer \in Tasks
    BY DEF Tasks
  <1>n. ASSUME task' = task PROVE OnlyTimerRevokes'
    BY <1>n DEF OnlyTimerRevokes
  <1>t. ASSUME NEW t \in Tasks, \A s \in Tasks \ {t} : task'[s] = task[s],
               task'[t].op # "revoke" \/ task'[t].op = task[t].op
        PROVE  OnlyTimerRevokes'
    BY <1>t, <1>u DEF OnlyTimerRevokes
  <1>1. ASSUME NEW u \in Users, Call(u) PROVE OnlyTimerRevokes'
    <2>1. \/ task' = task
          \/ \E op \in Ops \ {"revoke"} : \E step, to, who : Start(u, op, step, to, who)
      BY <1>1 DEF Call, FloorRequest, FloorRelease, RoomLeave, Disconnect, LeaveFloor, Connect,
                  RoomJoin, Ops
    <2> QED
      BY <1>i, <1>u, <1>n, <1>t, <2>1, StartEntry
  <1>2. ASSUME NEW u \in Users, Reap(u) \/ Deliver(u) PROVE OnlyTimerRevokes'
    BY <1>2, <1>n DEF Reap, Deliver
  <1>3. CASE TimerRevoke
    <2>1. \A s \in Tasks \ {Timer} : task'[s] = task[s]
      BY <1>3, <1>i, <1>u, StartEntry DEF TimerRevoke
    <2> QED
      BY <1>u, <2>1 DEF OnlyTimerRevokes
  <1>4. ASSUME NEW t \in Tasks, Broadcast(t) PROVE OnlyTimerRevokes'
    BY <1>4, <1>i, <1>t, BroadcastFacts
  <1>5. ASSUME NEW t \in Tasks, NEW k \in Kinds, Rewriter(t, k) PROVE OnlyTimerRevokes'
    BY <1>5, <1>i, <1>t, RewriterMoves DEF Moved
  <1>6. ASSUME NEW t \in Tasks, SendRevoke(t) PROVE OnlyTimerRevokes'
    BY <1>6, <1>i, <1>t, GotoEntry DEF SendRevoke
  <1>7. ASSUME NEW u \in Users, Reply(u) \/ Remove(u) PROVE OnlyTimerRevokes'
    BY <1>7, <1>i, <1>u, <1>t, FinishEntry DEF Reply, Remove
  <1>8. CASE UNCHANGED vars
    BY <1>8, <1>n DEF vars
  <1> QED
    BY <1>1, <1>2, <1>3, <1>4, <1>5, <1>6, <1>7, <1>8 DEF Next, Continue
-----------------------------------------------------------------------------
\* Whoever could be about to believe that it may speak, and could be before the step, is
\* told by the timer after it as before it.
LEMMA StillOverruled ==
    ASSUME Overruled, KeepsTelling, NEW u \in Users, u \in members, u \in members',
           MaySpeak(u), mailbox[u] = Nothing, mailbox'[u] = Nothing, floor # u
    PROVE  WillTellIdle(Timer, u)'
  <1>1. WillTellIdle(Timer, u) /\ mailbox'[u] # NoOne
    BY DEF Overruled
  <1> QED
    BY <1>1 DEF KeepsTelling, Tasks

\* Every step keeps Overruled: only the timer takes the floor from a user whose client
\* believes, or is going to believe, that it may speak.
LEMMA OverruledStep ==
    IInv /\ Addressed /\ OnlyTimerRevokes /\ Overruled /\ [Next]_vars => Overruled'
  <1> SUFFICES ASSUME IInv, Addressed, OnlyTimerRevokes, Overruled, [Next]_vars,
                      NEW u \in Users, u \in members', MaySpeak(u)', mailbox'[u] = Nothing,
                      floor' # u
               PROVE  WillTellIdle(Timer, u)'
    <2>1. IInv /\ [Next]_vars => TypeOK'
      BY TypeStep DEF IInv
    <2>2. TypeOK' => members' \subseteq Users
      BY DEF TypeOK
    <2> QED
      BY <2>1, <2>2 DEF Overruled
  <1> USE DEF server
  <1>i. TypeOK /\ TasksOK /\ Granting
    BY DEF IInv
  <1>u. Users \subseteq Tasks /\ Timer \in Tasks /\ u # NoOne
    BY DEF Tasks
  <1>k. KeepsTelling
    BY TellingStep
  \* Steps that leave u's client, mailbox and membership alone, and the floor with whoever
  \* is not u.
  <1>s. ASSUME u \in members, MaySpeak(u), mailbox[u] = Nothing, floor # u
        PROVE  WillTellIdle(Timer, u)'
    BY <1>k, <1>s, StillOverruled
  <1>n. ASSUME UNCHANGED <<floor, members, mailbox, view, task>>
        PROVE  WillTellIdle(Timer, u)'
    BY <1>n, <1>s DEF MaySpeak, AtRest
  <1>1. ASSUME NEW v \in Users, FloorRequest(v) PROVE WillTellIdle(Timer, u)'
    <2>1. UNCHANGED <<members, mailbox, view>>
      BY <1>1 DEF FloorRequest
    <2>2. CASE floor \in {NoOne, v}
      <3>1. floor' = v /\ v # u
        BY <1>1, <2>2 DEF FloorRequest
      <3>2. \E op : Start(v, op, "taken", members \ {v}, v)
        BY <1>1, <2>2 DEF FloorRequest
      <3>3. task'[u] = task[u]
        BY <1>i, <1>u, <3>1, <3>2, StartEntry
      <3> QED
        BY <1>s, <1>u, <2>1, <2>2, <3>1, <3>3 DEF MaySpeak, AtRest
    <2>3. CASE floor \notin {NoOne, v}
      BY <1>1, <1>n, <2>1, <2>3 DEF FloorRequest
    <2> QED
      BY <2>2, <2>3
  \* A session that begins a call other than FLOOR_REQUEST, and may give up its own floor.
  <1>c. ASSUME NEW v \in Users, NEW op \in {"release", "leave", "close"},
               NEW step, NEW to, NEW who, Start(v, op, step, to, who),
               UNCHANGED <<members, mailbox, view>>,
               floor' = floor \/ floor \in {NoOne, v}
        PROVE  WillTellIdle(Timer, u)'
    <2>1. task'[v].op = op /\ \A s \in Tasks \ {v} : task'[s] = task[s]
      BY <1>i, <1>u, <1>c, StartEntry
    <2>2. u # v
      BY <2>1 DEF MaySpeak, AtRest
    <2> QED
      BY <1>c, <1>s, <1>u, <2>1, <2>2 DEF MaySpeak, AtRest
  <1>2. ASSUME NEW v \in Users, FloorRelease(v) PROVE WillTellIdle(Timer, u)'
    <2>1. UNCHANGED <<members, mailbox, view>>
      BY <1>2 DEF FloorRelease
    <2>2. CASE floor \in {NoOne, v}
      BY <1>2, <1>c, <2>1, <2>2 DEF FloorRelease
    <2>3. CASE floor \notin {NoOne, v}
      BY <1>2, <1>n, <2>1, <2>3 DEF FloorRelease
    <2> QED
      BY <2>2, <2>3
  <1>l. ASSUME NEW v \in Users, NEW op \in {"leave", "close"}, LeaveFloor(v, op),
               UNCHANGED <<members, mailbox, view>>
        PROVE  WillTellIdle(Timer, u)'
    <2>1. \E step, to, who : Start(v, op, step, to, who)
      BY <1>l DEF LeaveFloor
    <2>2. floor' = floor \/ floor = v
      BY <1>l DEF LeaveFloor
    <2> QED
      BY <1>c, <1>l, <2>1, <2>2
  <1>3. ASSUME NEW v \in Users, RoomLeave(v) PROVE WillTellIdle(Timer, u)'
    BY <1>3, <1>l DEF RoomLeave
  <1>4. ASSUME NEW v \in Users, Disconnect(v) PROVE WillTellIdle(Timer, u)'
    <2>1. CASE v \in inRoom
      BY <1>4, <1>l, <2>1 DEF Disconnect
    <2>2. CASE v \notin inRoom
      <3>1. /\ UNCHANGED <<floor, members, task>>
            /\ mailbox' = [mailbox EXCEPT ![v] = Nothing] /\ view' = [view EXCEPT ![v] = NoOne]
            /\ AtRest(v)
        BY <1>4, <2>2 DEF Disconnect, Receives
      <3>2. u # v
        BY <1>i, <1>u, <3>1 DEF MaySpeak, AtRest, TypeOK
      <3> QED
        BY <1>i, <1>s, <3>1, <3>2 DEF MaySpeak, AtRest, TypeOK
    <2> QED
      BY <2>1, <2>2
  <1>5. ASSUME NEW v \in Users, Connect(v) \/ Reap(v) PROVE WillTellIdle(Timer, u)'
    <2>1. UNCHANGED <<floor, mailbox, view, task>> /\ members' \subseteq members
      BY <1>5 DEF Connect, Reap
    <2> QED
      BY <1>s, <2>1 DEF MaySpeak, AtRest
  <1>6. ASSUME NEW v \in Users, RoomJoin(v) PROVE WillTellIdle(Timer, u)'
    <2>1. /\ UNCHANGED <<floor, mailbox, task>> /\ members' = members \cup {v} /\ AtRest(v)
          /\ view' = [view EXCEPT ![v] = NoOne]
      BY <1>6 DEF RoomJoin, Receives
    <2>2. u # v
      BY <1>i, <1>u, <2>1 DEF MaySpeak, AtRest, TypeOK
    <2> QED
      BY <1>i, <1>s, <2>1, <2>2 DEF MaySpeak, AtRest, TypeOK
  <1>7. ASSUME NEW v \in Users, Deliver(v) PROVE WillTellIdle(Timer, u)'
    <2>1. /\ UNCHANGED <<floor, members, task>> /\ AtRest(v)
          /\ mailbox' = [mailbox EXCEPT ![v] = Nothing] /\ view' = [view EXCEPT ![v] = mailbox[v]]
      BY <1>7 DEF Deliver
    <2>2. u # v
      BY <1>i, <1>u, <2>1 DEF MaySpeak, AtRest, Addressed, TypeOK
    <2> QED
      BY <1>i, <1>s, <2>1, <2>2 DEF MaySpeak, AtRest, TypeOK
  <1>8. CASE TimerRevoke
    <2>1. task'[Timer].op = "revoke" /\ task'[Timer].step = "audio"
      BY <1>8, <1>i, <1>u, StartEntry DEF TimerRevoke
    <2> QED
      BY <2>1 DEF WillTellIdle
  \* A task at work that touches neither the floor nor the members, and leaves u's client
  \* alone.
  <1>w. ASSUME NEW t \in Tasks, UNCHANGED <<floor, members, view>>,
               \A s \in Tasks \ {t} : task'[s] = task[s],
               \/ task'[t].op = task[t].op
               \/ task'[t].op = "none" /\ task[t].op = "revoke",
               task[t].op # "none",
               mailbox[u] = Nothing
        PROVE  WillTellIdle(Timer, u)'
    <2>1. CASE t # u
      BY <1>s, <1>u, <1>w, <2>1 DEF MaySpeak, AtRest
    <2>2. CASE t = u /\ task'[t].op = task[t].op
      BY <1>s, <1>w, <2>2 DEF MaySpeak, AtRest
    <2>3. CASE t = u /\ task[t].op = "revoke"
      <3>1. task[u].op # "revoke"
        BY DEF OnlyTimerRevokes
      <3> QED
        BY <2>3, <3>1
    <2> QED
      BY <1>w, <2>1, <2>2, <2>3
  <1>9. ASSUME NEW t \in Tasks, Broadcast(t) PROVE WillTellIdle(Timer, u)'
    <2>1. mailbox[u] = Nothing
      <3>1. ASSUME NEW v \in task[t].to,
                   Send(v, IF task[t].step = "taken" THEN task[t].who ELSE NoOne)
            PROVE  mailbox[u] = Nothing
        <4>1. v \in Users /\ task[t].who \in Users \cup {NoOne}
          BY <1>9, <1>i, BroadcastFacts DEF TypeOK, TaskState
        <4> QED
          BY <1>i, <3>1, <4>1 DEF Send, TypeOK
      <3> QED
        BY <1>9, <1>i, <3>1, BroadcastFacts
    <2>2. UNCHANGED <<floor, members, view>>
      BY <1>9 DEF Broadcast
    <2> QED
      BY <1>9, <1>i, <1>w, <2>1, <2>2, BroadcastFacts
  <1>10. ASSUME NEW t \in Tasks, NEW k \in Kinds, Rewriter(t, k) PROVE WillTellIdle(Timer, u)'
    <2>1. /\ task'[t].op = task[t].op /\ task[t].op # "none"
          /\ \A s \in Tasks \ {t} : task'[s] = task[s]
      BY <1>10, <1>i, RewriterMoves DEF Moved
    <2>2. UNCHANGED <<floor, members, view, mailbox>>
      BY <1>10 DEF Rewriter
    <2> QED
      BY <1>w, <2>1, <2>2
  <1>11. ASSUME NEW t \in Tasks, SendRevoke(t) PROVE WillTellIdle(Timer, u)'
    <2>1. /\ task'[t].op = task[t].op
          /\ \A s \in Tasks \ {t} : task'[s] = task[s]
      BY <1>11, <1>i, GotoEntry DEF SendRevoke
    <2>2. task[t].op # "none" /\ task[t].who \in Users \cup {NoOne}
      BY <1>11, <1>i DEF SendRevoke, TasksOK, StepsOf, TypeOK, TaskState
    <2>3. UNCHANGED <<floor, members, view>> /\ Send(task[t].who, NoOne)
      BY <1>11 DEF SendRevoke
    <2>4. mailbox[u] = Nothing
      BY <1>i, <2>2, <2>3 DEF Send, TypeOK
    <2> QED
      BY <1>w, <2>1, <2>2, <2>3, <2>4
  <1>12. ASSUME NEW v \in Users, Reply(v) PROVE WillTellIdle(Timer, u)'
    <2>1. /\ UNCHANGED <<floor, members, mailbox>>
          /\ view' = [view EXCEPT ![v] = IF task[v].op = "release" THEN NoOne ELSE v]
          /\ task[v].step = "reply" /\ \A s \in Tasks \ {v} : task'[s] = task[s]
      BY <1>12, <1>i, <1>u, FinishEntry DEF Reply
    <2>2. CASE u # v
      BY <1>i, <1>s, <1>u, <2>1, <2>2 DEF MaySpeak, AtRest, TypeOK
    <2>3. CASE u = v
      <3>1. task[v].op \in {"grant", "again", "release"}
        <4>1. task[v].step \in StepsOf(task[v].op) /\ task[v].op \in Ops
          BY <1>i, <1>u DEF TasksOK, TypeOK, TaskState
        <4> QED
          BY <2>1, <4>1 DEF StepsOf, Ops
      <3>2. task'[v].op = "none" /\ view'[v] = IF task[v].op = "release" THEN NoOne ELSE v
        BY <1>12, <1>i, <1>u, <2>1, FinishEntry DEF Reply, TypeOK
      <3>3. task[v].op \in {"grant", "again"}
        BY <1>u, <2>3, <3>1, <3>2 DEF MaySpeak, AtRest
      <3> QED
        BY <1>s, <2>1, <2>3, <3>3 DEF MaySpeak
    <2> QED
      BY <2>2, <2>3
  <1>13. ASSUME NEW v \in Users, Remove(v) PROVE WillTellIdle(Timer, u)'
    <2>1. /\ floor' = floor /\ members' = members \ {v}
          /\ view' = [view EXCEPT ![v] = NoOne]
          /\ mailbox' = mailbox \/ mailbox' = [mailbox EXCEPT ![v] = Nothing]
          /\ \A s \in Tasks \ {v} : task'[s] = task[s]
      BY <1>13, <1>i, <1>u, FinishEntry DEF Remove
    <2>2. u # v
      BY <2>1
    <2> QED
      BY <1>i, <1>s, <1>u, <2>1, <2>2 DEF MaySpeak, AtRest, TypeOK
  <1>14. CASE UNCHANGED vars
    BY <1>14, <1>n DEF vars
  <1> QED
    BY <1>1, <1>2, <1>3, <1>4, <1>5, <1>6, <1>7, <1>8, <1>9, <1>10, <1>11, <1>12, <1>13, <1>14
       DEF Next, Call, Continue
-----------------------------------------------------------------------------
\* Whoever goes on believing in a speaker that had lost the floor is told as before.
LEMMA StillTold ==
    ASSUME NoPhantomSpeaker, KeepsTelling, NEW v \in Users, v \in members \cap fresh,
           v \in members', Settled(v)' = Settled(v),
           Settled(v) \notin {NoOne, floor, v} \cup late
    PROVE  \E t \in Tasks : WillTellIdle(t, v)'
  <1>1. PICK t \in Tasks : WillTellIdle(t, v)
    BY DEF NoPhantomSpeaker
  <1>2. mailbox'[v] # NoOne
    BY DEF Settled
  <1> QED
    BY <1>1, <1>2 DEF KeepsTelling

\* A client whose mailbox and view a step leaves alone believes what it did.
LEMMA SameBelief ==
    ASSUME NEW v \in Users, mailbox'[v] = mailbox[v], view'[v] = view[v]
    PROVE  Settled(v)' = Settled(v)
  BY DEF Settled

\* Every step keeps NoPhantomSpeaker: whoever frees the floor owes FLOOR_IDLE to all
\* participants, and FLOOR_TAKEN names the holder or a user that is late.
LEMMA PhantomStep == IInv /\ NoPhantomSpeaker /\ [Next]_vars => NoPhantomSpeaker'
  <1> SUFFICES ASSUME IInv, NoPhantomSpeaker, [Next]_vars,
                      NEW v \in Users, v \in members', v \in fresh',
                      Settled(v)' \notin {NoOne, floor', v} \cup late'
               PROVE  \E t \in Tasks : WillTellIdle(t, v)'
    <2>1. IInv /\ [Next]_vars => TypeOK'
      BY TypeStep DEF IInv
    <2>2. TypeOK' => members' \subseteq Users
      BY DEF TypeOK
    <2> QED
      BY <2>1, <2>2 DEF NoPhantomSpeaker
  <1> USE DEF server
  <1>i. TypeOK /\ TasksOK /\ Granting
    BY DEF IInv
  <1>u. Users \subseteq Tasks /\ Timer \in Tasks /\ v # NoOne /\ v # Nothing /\ NoOne # Nothing
    BY DEF Tasks
  <1>k. KeepsTelling
    BY TellingStep
  <1>s. ASSUME v \in members, fresh' = fresh, Settled(v)' = Settled(v), late \subseteq late',
               Settled(v) # floor
        PROVE  \E t \in Tasks : WillTellIdle(t, v)'
    BY <1>k, <1>s, StillTold
  <1>n. ASSUME v \in members, fresh' = fresh, Settled(v)' = Settled(v), UNCHANGED <<floor, late>>
        PROVE  \E t \in Tasks : WillTellIdle(t, v)'
    BY <1>s, <1>n
  <1>1. ASSUME NEW u \in Users, FloorRequest(u) PROVE \E t \in Tasks : WillTellIdle(t, v)'
    <2>1. UNCHANGED <<members, mailbox, view, fresh>> /\ late \subseteq late'
      BY <1>1 DEF FloorRequest
    <2>2. floor = NoOne \/ floor' = floor
      BY <1>1 DEF FloorRequest
    <2> QED
      BY <1>s, <2>1, <2>2, SameBelief
  <1>2. ASSUME NEW u \in Users, FloorRelease(u) PROVE \E t \in Tasks : WillTellIdle(t, v)'
    <2>1. UNCHANGED <<members, mailbox, view, fresh, late>>
      BY <1>2 DEF FloorRelease
    <2>2. CASE floor \in {NoOne, u}
      <3>1. task'[u].op = "release" /\ task'[u].step = "audio"
        BY <1>2, <1>i, <1>u, <2>2, StartEntry DEF FloorRelease
      <3> QED
        BY <1>u, <3>1 DEF WillTellIdle
    <2>3. CASE floor \notin {NoOne, u}
      BY <1>2, <1>n, <2>1, <2>3, SameBelief DEF FloorRelease
    <2> QED
      BY <2>2, <2>3
  <1>l. ASSUME NEW u \in Users, NEW op, LeaveFloor(u, op),
               UNCHANGED <<members, mailbox, view, fresh, late>>
        PROVE  \E t \in Tasks : WillTellIdle(t, v)'
    <2>1. CASE floor = u
      <3>1. task'[u].step = "idle" /\ task'[u].to = members
        BY <1>l, <1>i, <1>u, <2>1, StartEntry DEF LeaveFloor
      <3> QED
        BY <1>l, <1>u, <3>1 DEF WillTellIdle
    <2>2. CASE floor # u
      BY <1>l, <1>n, <2>2, SameBelief DEF LeaveFloor
    <2> QED
      BY <2>1, <2>2
  <1>3. ASSUME NEW u \in Users, RoomLeave(u) PROVE \E t \in Tasks : WillTellIdle(t, v)'
    BY <1>3, <1>l DEF RoomLeave
  <1>4. ASSUME NEW u \in Users, Disconnect(u) PROVE \E t \in Tasks : WillTellIdle(t, v)'
    <2>1. CASE u \in inRoom
      BY <1>4, <1>l, <2>1 DEF Disconnect
    <2>2. CASE u \notin inRoom
      <3>1. /\ UNCHANGED <<floor, members, fresh, late>>
            /\ mailbox' = [mailbox EXCEPT ![u] = Nothing] /\ view' = [view EXCEPT ![u] = NoOne]
        BY <1>4, <2>2 DEF Disconnect
      <3>2. u # v
        BY <1>i, <3>1 DEF Settled, TypeOK
      <3> QED
        BY <1>i, <1>n, <3>1, <3>2, SameBelief DEF TypeOK
    <2> QED
      BY <2>1, <2>2
  <1>5. ASSUME NEW u \in Users, Connect(u) \/ Reap(u) PROVE \E t \in Tasks : WillTellIdle(t, v)'
    <2>1. UNCHANGED <<floor, mailbox, view, fresh, late>> /\ members' \subseteq members
      BY <1>5 DEF Connect, Reap
    <2> QED
      BY <1>n, <2>1, SameBelief
  <1>6. ASSUME NEW u \in Users, RoomJoin(u) PROVE \E t \in Tasks : WillTellIdle(t, v)'
    <2>1. /\ UNCHANGED <<floor, mailbox, late>> /\ members' = members \cup {u}
          /\ view' = [view EXCEPT ![u] = NoOne]
          /\ fresh' = IF mailbox[u] = Nothing THEN fresh \cup {u} ELSE fresh \ {u}
      BY <1>6 DEF RoomJoin
    <2>2. u # v
      BY <1>i, <2>1 DEF Settled, TypeOK
    <2>3. v \in members /\ v \in fresh /\ Settled(v)' = Settled(v)
      BY <1>i, <2>1, <2>2, SameBelief DEF TypeOK
    <2> QED
      BY <1>k, <2>1, <2>3, StillTold
  <1>7. ASSUME NEW u \in Users, Deliver(u) PROVE \E t \in Tasks : WillTellIdle(t, v)'
    <2>1. /\ UNCHANGED <<floor, members, fresh, late>> /\ mailbox[u] # Nothing
          /\ mailbox' = [mailbox EXCEPT ![u] = Nothing] /\ view' = [view EXCEPT ![u] = mailbox[u]]
      BY <1>7 DEF Deliver
    <2>2. Settled(v)' = Settled(v)
      BY <1>i, <2>1 DEF Settled, TypeOK
    <2> QED
      BY <1>n, <2>1, <2>2
  <1>8. CASE TimerRevoke
    <2>1. task'[Timer].op = "revoke" /\ task'[Timer].step = "audio"
      BY <1>8, <1>i, <1>u, StartEntry DEF TimerRevoke
    <2> QED
      BY <1>u, <2>1 DEF WillTellIdle
  \* A step that may write to the mailbox of w, about the floor as it is.
  <1>w. ASSUME NEW w \in Users, NEW speaker, Send(w, speaker),
               speaker \in {NoOne, floor} \cup late,
               UNCHANGED <<floor, members, view, fresh, late>>
        PROVE  \E t \in Tasks : WillTellIdle(t, v)'
    <2>1. CASE v = w /\ v \in members
      <3>1. mailbox'[v] = speaker
        BY <1>i, <1>w, <2>1 DEF Send, TypeOK
      <3>2. speaker # Nothing
        BY <1>i, <1>u, <1>w DEF TypeOK
      <3> QED
        BY <1>w, <3>1, <3>2 DEF Settled
    <2>2. CASE ~(v = w /\ v \in members)
      <3>1. mailbox'[v] = mailbox[v]
        BY <1>i, <1>w, <2>2 DEF Send, TypeOK
      <3> QED
        BY <1>n, <1>w, <3>1, SameBelief
    <2> QED
      BY <2>1, <2>2
  <1>9. ASSUME NEW t \in Tasks, Broadcast(t) PROVE \E s \in Tasks : WillTellIdle(s, v)'
    <2>1. UNCHANGED <<floor, members, view, fresh, late>>
      BY <1>9 DEF Broadcast
    <2>2. (IF task[t].step = "taken" THEN task[t].who ELSE NoOne) \in {NoOne, floor} \cup late
      <3>1. task[t].step = "taken" => task[t].op \in {"grant", "again"}
        BY <1>9, <1>i, BroadcastFacts
      <3> QED
        BY <1>i, <3>1 DEF Granting
    <2>3. CASE mailbox' = mailbox
      BY <1>n, <2>1, <2>3, SameBelief
    <2>4. ASSUME NEW w \in task[t].to,
                 Send(w, IF task[t].step = "taken" THEN task[t].who ELSE NoOne)
          PROVE  \E s \in Tasks : WillTellIdle(s, v)'
      <3>1. w \in Users
        BY <1>9, <1>i, BroadcastFacts
      <3> QED
        BY <1>w, <2>1, <2>2, <2>4, <3>1
    <2> QED
      BY <1>9, <1>i, <2>3, <2>4, BroadcastFacts
  <1>10. ASSUME NEW t \in Tasks, NEW k \in Kinds, Rewriter(t, k)
         PROVE  \E s \in Tasks : WillTellIdle(s, v)'
    <2>1. UNCHANGED <<floor, members, mailbox, view, fresh, late>>
      BY <1>10 DEF Rewriter
    <2> QED
      BY <1>n, <2>1, SameBelief
  <1>11. ASSUME NEW t \in Tasks, SendRevoke(t) PROVE \E s \in Tasks : WillTellIdle(s, v)'
    <2>1. task'[t].step = "idle" /\ task'[t].to = members /\ members' = members
      BY <1>11, <1>i, GotoEntry DEF SendRevoke
    <2> QED
      BY <2>1 DEF WillTellIdle
  <1>12. ASSUME NEW u \in Users, Reply(u) PROVE \E t \in Tasks : WillTellIdle(t, v)'
    <2>1. /\ UNCHANGED <<floor, members, mailbox, fresh, late>>
          /\ view' = [view EXCEPT ![u] = IF task[u].op = "release" THEN NoOne ELSE u]
      BY <1>12 DEF Reply
    <2>2. Settled(v)' = Settled(v)
      BY <1>i, <2>1 DEF Settled, TypeOK
    <2> QED
      BY <1>n, <2>1, <2>2
  <1>13. ASSUME NEW u \in Users, Remove(u) PROVE \E t \in Tasks : WillTellIdle(t, v)'
    <2>1. /\ UNCHANGED <<floor, fresh, late>> /\ members' = members \ {u}
          /\ view' = [view EXCEPT ![u] = NoOne]
          /\ mailbox' = mailbox \/ mailbox' = [mailbox EXCEPT ![u] = Nothing]
      BY <1>13 DEF Remove
    <2>2. u # v
      BY <2>1
    <2>3. Settled(v)' = Settled(v)
      BY <1>i, <2>1, <2>2, SameBelief DEF TypeOK
    <2> QED
      BY <1>n, <2>1, <2>3
  <1>14. CASE UNCHANGED vars
    BY <1>14, <1>n, SameBelief DEF vars
  <1> QED
    BY <1>1, <1>2, <1>3, <1>4, <1>5, <1>6, <1>7, <1>8, <1>9, <1>10, <1>11, <1>12, <1>13, <1>14
       DEF Next, Call, Continue
-----------------------------------------------------------------------------
\* Before the first call nobody believes in anybody.
LEMMA BeliefInit == Init => BeliefInv
  <1> SUFFICES ASSUME Init PROVE BeliefInv
    OBVIOUS
  <1>1. IInv
    BY InitInv
  <1>2. /\ \A t \in Tasks : task[t].op = "none" /\ task[t].step = "none"
        /\ \A u \in Users : mailbox[u] = Nothing /\ view[u] = NoOne
        /\ members \subseteq Users /\ Users \subseteq Tasks
    BY DEF Init, Resting, Busy, Tasks
  <1>3. Addressed /\ OnlyTimerRevokes
    BY <1>2 DEF Addressed, OnlyTimerRevokes
  <1>4. Overruled
    BY <1>2 DEF Overruled, MaySpeak
  <1>5. NoPhantomSpeaker
    BY <1>2 DEF NoPhantomSpeaker, Settled
  <1> QED
    BY <1>1, <1>3, <1>4, <1>5 DEF BeliefInv

\* The inductive invariant of this module, for every behaviour of a room.
THEOREM BeliefInvariance == Spec => []BeliefInv
  <1>1. IInv /\ [Next]_vars => IInv'
    BY TypeStep, GrantingStep, ClearedStep DEF IInv
  <1>2. BeliefInv /\ [Next]_vars => BeliefInv'
    BY <1>1, AddressedStep, OnlyTimerStep, OverruledStep, PhantomStep DEF BeliefInv
  <1> QED
    BY <1>2, BeliefInit, PTL DEF Spec

\* A participant whose client believes it may speak, while the server gave its floor
\* away, has the news in its mailbox or is going to be sent it by the timer task:
\* the reply of handle_floor_request overtakes the mailbox and is overruled later.
THEOREM RevokedSpeakers == Spec => []RevokedSpeakerIsTold
  <1>1. BeliefInv => RevokedSpeakerIsTold
    <2> SUFFICES ASSUME BeliefInv, NEW u \in members, AtRest(u), Settled(u) = u, floor # u
                 PROVE  WillTellIdle(Timer, u)
      BY DEF RevokedSpeakerIsTold
    <2>1. u \in Users /\ mailbox[u] # u
      BY DEF BeliefInv, IInv, TypeOK, Addressed
    <2>2. mailbox[u] = Nothing /\ view[u] = u
      BY <2>1 DEF Settled
    <2> QED
      BY <2>2 DEF BeliefInv, Overruled, MaySpeak
  <1> QED
    BY <1>1, BeliefInvariance, PTL

\* A participant that was told FLOOR_TAKEN(s) has FLOOR_IDLE behind it, or coming, once s
\* has lost the floor, in every interleaving of the broadcasts of the session tasks and the
\* timer.
THEOREM NoPhantomSpeakers == Spec => []NoPhantomSpeaker
  <1>1. BeliefInv => NoPhantomSpeaker
    BY DEF BeliefInv
  <1> QED
    BY <1>1, BeliefInvariance, PTL
=============================================================================
