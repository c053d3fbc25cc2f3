---------------------------- MODULE FloorController ----------------------------
(***************************************************************************)
(* The floor arbiter of one push-to-talk room: FloorController of          *)
(* src/room/floor.rs.  The controller is a Mutex around one FloorState, so  *)
(* each of its operations is one atomic step; an operation is given here    *)
(* by the state it leaves behind (After...) and by the FloorAction it       *)
(* returns (...Action).  Times are milliseconds in the code and natural     *)
(* numbers here.                                                           *)
(***************************************************************************)
EXTENDS Naturals

CONSTANTS
    Users,        \* user ids of the participants that may ask for the floor
    NoOne,        \* stands for "no speaker"
    MaxBurst,     \* config::FLOOR_MAX_BURST_MS, timer T2
    PingTimeout   \* config::FLOOR_PING_TIMEOUT_MS, timer T_FLOOR_TIMEOUT

ASSUME FloorAssumption ==
    /\ NoOne \notin Users
    /\ MaxBurst \in Nat
    /\ PingTimeout \in Nat

Idle == [speaker |-> NoOne, burst_start |-> 0, last_ping |-> 0]

Taken(u, b, p) == [speaker |-> u, burst_start |-> b, last_ping |-> p]

FloorState == {Idle} \cup [speaker : Users, burst_start : Nat, last_ping : Nat]

\* FloorAction, and Option::None as "None"; the two causes of a revocation
\* ("max burst exceeded", "participant lost") are actions of their own.
FloorAction ==
    {"None", "Granted", "Denied", "Released", "RevokedMaxBurst", "RevokedLost",
     "PingOk", "PingDenied"}

\* Mutant: plain u64 subtraction, which wraps.
WrappingSub(a, b) == (a - b) % 2^16

\* u64::saturating_sub
SaturatingSub(a, b) == IF a >= b THEN a - b ELSE 0

-----------------------------------------------------------------------------
\* Mutants: a repeated request begins a new burst; a request takes the floor away.
RestartingRequest(f, u, t) == IF f.speaker \in {NoOne, u} THEN Taken(u, t, t) ELSE f

StealingRequest(f, u, t) == IF f.speaker = u THEN f ELSE Taken(u, t, t)

\* request(user_id, now_ms): a second request by the speaker changes nothing.
AfterRequest(f, u, t) == IF f = Idle THEN Taken(u, t, t) ELSE f

\* release(user_id): answered Released on an idle floor too.
AfterRelease(f, u) == IF f.speaker = u THEN Idle ELSE f

ReleaseAction(f, u) ==
    IF f.speaker \in {NoOne, u} THEN "Released" ELSE "PingDenied"

\* Mutants: a ping of anyone, or on an idle floor, is taken for the speaker's.
AnyonesPing(f, u, t) == IF f = Idle THEN f ELSE [f EXCEPT !.last_ping = t]

UncheckedPing(f, u, t) == [f EXCEPT !.last_ping = t]

\* ping(user_id, now_ms): only the speaker's counts.
AfterPing(f, u, t) == IF f.speaker = u THEN [f EXCEPT !.last_ping = t] ELSE f

\* on_participant_leave(user_id)
AfterLeave(f, u) == IF f.speaker = u THEN Idle ELSE f

LeaveAction(f, u) == IF f.speaker = u THEN "Released" ELSE "None"

\* check_timers(now_ms): T2 is looked at before the ping timeout.
BurstExceeded(f, t) == SaturatingSub(t, f.burst_start) > MaxBurst

PingLapsed(f, t) == SaturatingSub(t, f.last_ping) > PingTimeout

TimersAction(f, t) ==
    IF f = Idle THEN "None"
    ELSE IF BurstExceeded(f, t) THEN "RevokedMaxBurst"
    ELSE IF PingLapsed(f, t) THEN "RevokedLost"
    ELSE "None"

AfterTimers(f, t) == IF TimersAction(f, t) = "None" THEN f ELSE Idle
=============================================================================
