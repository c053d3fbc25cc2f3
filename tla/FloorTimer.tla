------------------------------ MODULE FloorTimer ------------------------------
(***************************************************************************)
(* The floor of one room against the clock: the signaling handlers that     *)
(* read the wall clock and then call the controller (handle_floor_request,  *)
(* handle_floor_ping, handle_floor_release, the leave and disconnect        *)
(* paths), and the timer task run_floor_timer, which wakes every Interval,  *)
(* reads the clock once and then checks the room.  Reading the clock and    *)
(* taking the controller's mutex are two steps: a grant can fall between    *)
(* the timer's two, and carry a later time than the timer's own.  Each      *)
(* connection runs one handler at a time; a user may have several, so two   *)
(* of its own pings can read the clock in one order and take the lock in    *)
(* the other.                                                               *)
(***************************************************************************)
EXTENDS FloorController

CONSTANTS
    Connections,  \* websocket connections, each with one handler at a time
    Interval,  \* config::FLOOR_PING_INTERVAL_MS, the period of run_floor_timer
    Delay,     \* how late a runnable task may be scheduled
    MaxTime    \* bound on the clock, for model checking

ASSUME TimerAssumption ==
    /\ Interval \in Nat \ {0}
    /\ Delay \in Nat
    /\ MaxTime \in Nat
    /\ Delay <= PingTimeout
    /\ PingTimeout <= MaxBurst

VARIABLES
    floor,     \* FloorController.state
    clock,     \* SystemTime::now, in ms
    call,      \* the call each connection is in the middle of
    caller,    \* the user it was made for
    stamp,     \* the time it read for that call
    tick,      \* the instant the timer's next tick is due
    checking,  \* the timer task has read the clock and not yet checked
    sample,    \* the time it read
    began,     \* history: when the current burst was granted
    heard,     \* history: when the speaker's last grant or ping was processed
    ended      \* history: the FloorAction that ended the last burst

timerVars == <<tick, checking, sample>>
callVars == <<call, caller, stamp>>
history == <<began, heard, ended>>
vars == <<floor, clock, call, caller, stamp, tick, checking, sample, began, heard, ended>>

Calls == {"none", "request", "ping"}

Init ==
    /\ floor = Idle
    /\ clock = 0
    /\ call = [c \in Connections |-> "none"]
    /\ caller = [c \in Connections |-> NoOne]
    /\ stamp = [c \in Connections |-> 0]
    /\ tick = Interval
    /\ checking = FALSE
    /\ sample = 0
    /\ began = 0
    /\ heard = 0
    /\ ended = "None"

-----------------------------------------------------------------------------
Ended(a) == ended' = IF floor # Idle /\ floor' = Idle THEN a ELSE ended

\* let now = current_ts(), in the handler of a request or a ping of u.
ReadClock(c, u, op) ==
    /\ call[c] = "none"
    /\ call' = [call EXCEPT ![c] = op]
    /\ caller' = [caller EXCEPT ![c] = u]
    /\ stamp' = [stamp EXCEPT ![c] = clock]
    /\ UNCHANGED <<floor, clock, timerVars, history>>

Return(c) ==
    /\ call' = [call EXCEPT ![c] = "none"]
    /\ caller' = [caller EXCEPT ![c] = NoOne]
    /\ stamp' = [stamp EXCEPT ![c] = 0]

Request(c) ==
    /\ call[c] = "request"
    /\ floor' = AfterRequest(floor, caller[c], stamp[c])
    /\ IF floor = Idle THEN began' = clock /\ heard' = clock
                       ELSE UNCHANGED <<began, heard>>
    /\ Return(c)
    /\ UNCHANGED <<clock, timerVars, ended>>

Ping(c) ==
    /\ call[c] = "ping"
    /\ floor' = AfterPing(floor, caller[c], stamp[c])
    /\ heard' = IF floor.speaker = caller[c] THEN clock ELSE heard
    /\ Return(c)
    /\ UNCHANGED <<clock, timerVars, began, ended>>

Release(c, u) ==
    /\ call[c] = "none"
    /\ floor' = AfterRelease(floor, u)
    /\ Ended(ReleaseAction(floor, u))
    /\ UNCHANGED <<clock, callVars, timerVars, began, heard>>

\* ROOM_LEAVE and the cleanup of a closed connection.
Leave(c, u) ==
    /\ call[c] = "none"
    /\ floor' = AfterLeave(floor, u)
    /\ Ended(LeaveAction(floor, u))
    /\ UNCHANGED <<clock, callVars, timerVars, began, heard>>

\* timer.tick() fires and the task reads the clock for this round.
TimerRead ==
    /\ ~checking
    /\ tick <= clock
    /\ checking' = TRUE
    /\ sample' = clock
    /\ UNCHANGED <<floor, clock, callVars, tick, history>>

\* room.floor.check_timers(now); the ticks of a tokio interval stay Interval
\* apart whatever the task's delays.
TimerCheck ==
    /\ checking
    /\ floor' = AfterTimers(floor, sample)
    /\ Ended(TimersAction(floor, sample))
    /\ checking' = FALSE
    /\ sample' = 0
    /\ tick' = tick + Interval
    /\ UNCHANGED <<clock, callVars, began, heard>>

\* Time passes, but a task that is due or running is never kept longer than Delay.
Advance ==
    /\ clock < MaxTime
    /\ clock < tick + Delay
    /\ \A c \in Connections : call[c] # "none" => clock < stamp[c] + Delay
    /\ clock' = clock + 1
    /\ UNCHANGED <<floor, callVars, timerVars, history>>

Session(c) ==
    \/ \E u \in Users, op \in Calls \ {"none"} : ReadClock(c, u, op)
    \/ Request(c)
    \/ Ping(c)
    \/ \E u \in Users : Release(c, u) \/ Leave(c, u)

Next ==
    \/ \E c \in Connections : Session(c)
    \/ TimerRead
    \/ TimerCheck
    \/ Advance

Spec == Init /\ [][Next]_vars

-----------------------------------------------------------------------------
\* The variables have their types.
TypeOK ==
    /\ floor \in FloorState
    /\ clock \in Nat
    /\ call \in [Connections -> Calls]
    /\ caller \in [Connections -> Users \cup {NoOne}]
    /\ \A c \in Connections : call[c] # "none" => caller[c] # NoOne
    /\ stamp \in [Connections -> Nat]
    /\ tick \in Nat
    /\ checking \in BOOLEAN
    /\ sample \in Nat
    /\ began \in Nat
    /\ heard \in Nat
    /\ ended \in FloorAction

\* No burst outlives T2 by more than one timer period and one scheduling delay,
\* however often its speaker asks for the floor again (check_timers compares
\* burst_start, which request leaves alone for the current speaker).
BurstBounded ==
    floor # Idle => clock <= began + MaxBurst + Interval + Delay

\* A speaker that stopped pinging loses the floor within T_FLOOR_TIMEOUT, one
\* timer period and one scheduling delay: pings of other users do not count, and the
\* speaker's own are counted from when they are processed, in whatever order its
\* connections read the clock.
SilenceBounded ==
    floor # Idle => clock <= heard + PingTimeout + Interval + Delay

\* The timer takes the floor away only from a burst that was really granted, or
\* a speaker really last heard, that long ago: although check_timers works on a
\* clock value read before it took the lock and compares it with times read
\* before other locks, it is never early by more than Delay, and a grant that
\* slips in after the timer read the clock is left alone.
RevokeJustified ==
    [][ /\ floor # Idle /\ floor' = Idle /\ ended' = "RevokedMaxBurst"
           => clock + Delay > began + MaxBurst
        /\ floor # Idle /\ floor' = Idle /\ ended' = "RevokedLost"
           => clock + Delay > heard + PingTimeout ]_vars

-----------------------------------------------------------------------------
\* The lease the controller and its timer implement: it runs to the earlier of
\* T2 and the ping timeout, both counted from times at most Delay old, and its end is
\* noticed within Interval + Delay.
Least(a, b) == IF a <= b THEN a ELSE b

Deadline(f) ==
    IF f = Idle THEN 0
    ELSE Least(f.burst_start + MaxBurst, f.last_ping + PingTimeout)

Limit(f) == IF f = Idle THEN 0 ELSE f.burst_start + MaxBurst

HowEnded ==
    CASE ended = "None" -> "never"
      [] ended = "Released" -> "given up"
      [] OTHER -> "expired"

Lease == INSTANCE FloorLease WITH
            Term <- PingTimeout, Burst <- MaxBurst, Slack <- Delay, Grace <- Interval + Delay,
            holder <- floor.speaker, deadline <- Deadline(floor),
            limit <- Limit(floor), ended <- HowEnded

\* Every behaviour of the handlers and of run_floor_timer is a behaviour of the
\* lease: no steal, no early eviction, no unlimited stay.  Two pings of a speaker on two
\* connections may set last_ping back, but by no more than Delay.
LeaseSpec == Lease!LeaseSpec
=============================================================================
