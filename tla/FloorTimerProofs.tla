--------------------------- MODULE FloorTimerProofs ---------------------------
(***************************************************************************)
(* Proofs about FloorTimer, for any users, any timer values that satisfy    *)
(* the assumptions, any scheduling delay and any bound on the clock.        *)
(***************************************************************************)
EXTENDS FloorTimer, TLAPS

\* The times the tasks hold: the timer task is never more than Delay late, its
\* sample was taken at or after the tick, and a handler's time is at most Delay old.
TaskTimes ==
    /\ clock <= tick + Delay
    /\ tick <= clock + Interval
    /\ checking => tick <= sample /\ sample <= clock
    /\ \A c \in Connections :
          call[c] # "none" => stamp[c] <= clock /\ clock <= stamp[c] + Delay

\* The times the floor holds, with respect to the next tick and the history.  A late ping
\* may take last_ping back, even before burst_start, but never further than Delay.
BurstTimes ==
    floor # Idle =>
        /\ floor.last_ping <= clock
        /\ tick <= floor.burst_start + MaxBurst + Interval
        /\ tick <= floor.last_ping + PingTimeout + Interval
        /\ floor.burst_start <= began /\ began <= floor.burst_start + Delay
        /\ floor.last_ping <= heard /\ heard <= floor.last_ping + Delay

\* The inductive invariant behind all results of this module.
IInv == TypeOK /\ TaskTimes /\ BurstTimes

USE FloorAssumption, TimerAssumption DEF FloorAssumption, TimerAssumption

\* An idle floor has no speaker and a taken one has one, so either test tells them apart.
LEMMA FloorShape ==
    ASSUME NEW f \in FloorState
    PROVE  /\ f.speaker \in Users \cup {NoOne}
           /\ f.burst_start \in Nat
           /\ f.last_ping \in Nat
           /\ f = Idle <=> f.speaker = NoOne
           /\ f # Idle => f.speaker \in Users
  BY DEF FloorState, Idle

\* A room starts idle, with no call under way and the first tick one period off.
LEMMA InitInv == Init => IInv
  <1> SUFFICES ASSUME Init PROVE IInv
    OBVIOUS
  <1> USE DEF Init
  <1>1. TypeOK
    BY DEF TypeOK, FloorState, Calls, FloorAction
  <1>2. TaskTimes
    BY DEF TaskTimes
  <1>3. BurstTimes
    BY DEF BurstTimes
  <1> QED
    BY <1>1, <1>2, <1>3 DEF IInv

\* The variables keep their types.
LEMMA TypeStep == TypeOK /\ [Next]_vars => TypeOK'
  <1> SUFFICES ASSUME TypeOK, [Next]_vars PROVE TypeOK'
    OBVIOUS
  <1> USE DEF TypeOK, callVars, timerVars, history
  <1>0. Idle \in FloorState
    BY DEF FloorState
  <1>1. ASSUME NEW c \in Connections, NEW u \in Users, NEW op \in Calls \ {"none"}, ReadClock(c, u, op)
        PROVE  TypeOK'
    BY <1>1 DEF ReadClock, Calls
  <1>2. ASSUME NEW c \in Connections, Request(c) PROVE TypeOK'
    <2>1. floor' \in FloorState
      BY <1>2 DEF Request, AfterRequest, Taken, FloorState
    <2> QED
      BY <2>1, <1>2 DEF Request, Return, Calls
  <1>3. ASSUME NEW c \in Connections, Ping(c) PROVE TypeOK'
    <2>1. floor' \in FloorState
      BY <1>3 DEF Ping, AfterPing, FloorState, Idle
    <2> QED
      BY <2>1, <1>3 DEF Ping, Return, Calls
  <1>4. ASSUME NEW c \in Connections, NEW u \in Users, Release(c, u) PROVE TypeOK'
    <2>1. ReleaseAction(floor, u) \in FloorAction
      BY DEF ReleaseAction, FloorAction
    <2> QED
      BY <1>0, <2>1, <1>4 DEF Release, AfterRelease, Ended
  <1>5. ASSUME NEW c \in Connections, NEW u \in Users, Leave(c, u) PROVE TypeOK'
    <2>1. LeaveAction(floor, u) \in FloorAction
      BY DEF LeaveAction, FloorAction
    <2> QED
      BY <1>0, <2>1, <1>5 DEF Leave, AfterLeave, Ended
  <1>6. CASE TimerRead
    BY <1>6 DEF TimerRead
  <1>7. CASE TimerCheck
    <2>1. TimersAction(floor, sample) \in FloorAction
      BY DEF TimersAction, FloorAction
    <2>2. floor' \in FloorState
      BY <1>0, <1>7 DEF TimerCheck, AfterTimers
    <2>3. ended' \in FloorAction
      BY <2>1, <1>7 DEF TimerCheck, Ended
    <2> QED
      <3>1. UNCHANGED <<clock, call, caller, stamp, began, heard>>
        BY <1>7 DEF TimerCheck
      <3>2. checking' \in BOOLEAN
        BY <1>7 DEF TimerCheck
      <3>3. sample' = 0 /\ tick' = tick + Interval
        BY <1>7 DEF TimerCheck
      <3>4. sample' \in Nat /\ tick' \in Nat
        BY <3>3
      <3> QED
        BY <2>2, <2>3, <3>1, <3>2, <3>4
  <1>8. CASE Advance
    BY <1>8 DEF Advance
  <1>9. CASE UNCHANGED vars
    BY <1>9 DEF vars
  <1> QED
    BY <1>1, <1>2, <1>3, <1>4, <1>5, <1>6, <1>7, <1>8, <1>9 DEF Next, Session

\* Every step keeps the invariant: a granted or extended burst carries a time at
\* most Delay old, and check_timers leaves alone only bursts that its next round
\* will find in time.
LEMMA InvStep == IInv /\ [Next]_vars => IInv'
  <1> SUFFICES ASSUME IInv, [Next]_vars PROVE IInv'
    OBVIOUS
  <1>0. TypeOK /\ TypeOK'
    BY TypeStep DEF IInv
  <1>a. /\ floor.speaker \in Users \cup {NoOne}
        /\ floor.burst_start \in Nat /\ floor.last_ping \in Nat
        /\ floor = Idle <=> floor.speaker = NoOne
        /\ floor # Idle => floor.speaker \in Users
    BY <1>0, FloorShape DEF TypeOK
  <1> USE <1>0 DEF TypeOK, callVars, timerVars, history, TaskTimes, BurstTimes
  <1>1. ASSUME NEW c \in Connections, NEW u \in Users, NEW op \in Calls \ {"none"}, ReadClock(c, u, op)
        PROVE  IInv'
    BY <1>1, <1>a DEF ReadClock, IInv
  <1>2. ASSUME NEW c \in Connections, Request(c) PROVE IInv'
    <2>1. TaskTimes'
      BY <1>2 DEF Request, Return, IInv
    <2>2. CASE floor = Idle
      <3>1. floor' = Taken(caller[c], stamp[c], stamp[c]) /\ began' = clock /\ heard' = clock
        BY <1>2, <2>2 DEF Request, AfterRequest
      <3>2. /\ floor'.speaker = caller[c]
            /\ floor'.burst_start = stamp[c]
            /\ floor'.last_ping = stamp[c]
        BY <3>1 DEF Taken
      <3>3. /\ call'[c] = "none" /\ stamp[c] <= clock /\ clock <= stamp[c] + Delay
            /\ tick' = tick /\ clock' = clock /\ tick <= clock + Interval
        BY <1>2 DEF Request, Return, IInv
      <3> QED
        BY <2>1, <3>1, <3>2, <3>3 DEF IInv
    <2>3. CASE floor # Idle
      <3>1. floor' = floor /\ UNCHANGED <<began, heard, tick, clock>>
        BY <1>2, <2>3 DEF Request, AfterRequest
      <3>2. \A w \in Connections : call'[w] # "none" => call[w] # "none" /\ stamp'[w] = stamp[w]
        BY <1>2 DEF Request, Return
      <3> QED
        BY <2>1, <2>3, <3>1, <3>2, <1>a DEF IInv
    <2> QED
      BY <2>2, <2>3
  <1>3. ASSUME NEW c \in Connections, Ping(c) PROVE IInv'
    <2>1. TaskTimes'
      BY <1>3 DEF Ping, Return, IInv
    <2>2. CASE floor.speaker = caller[c]
      <3>1. floor' = [floor EXCEPT !.last_ping = stamp[c]] /\ heard' = clock /\ floor # Idle
        BY <1>3, <2>2, <1>a DEF Ping, AfterPing
      <3>2. /\ floor'.speaker = caller[c]
            /\ floor'.burst_start = floor.burst_start
            /\ floor'.last_ping = stamp[c]
        BY <3>1, <2>2 DEF FloorState, Idle
      <3>3. /\ stamp[c] <= clock /\ clock <= stamp[c] + Delay
            /\ UNCHANGED <<began, tick, clock>>
        BY <1>3, <2>2, <3>1 DEF Ping, Return, IInv
      <3> QED
        BY <2>1, <2>2, <3>1, <3>2, <3>3, <1>a DEF IInv
    <2>3. CASE floor.speaker # caller[c]
      <3>1. floor' = floor /\ UNCHANGED <<began, heard, tick, clock>>
        BY <1>3, <2>3 DEF Ping, AfterPing
      <3>2. \A w \in Connections : call'[w] # "none" => call[w] # "none" /\ stamp'[w] = stamp[w]
        BY <1>3 DEF Ping, Return
      <3> QED
        BY <2>1, <3>1, <3>2, <1>a DEF IInv
    <2> QED
      BY <2>2, <2>3
  <1>4. ASSUME NEW c \in Connections, NEW u \in Users, Release(c, u) PROVE IInv'
    BY <1>4 DEF Release, AfterRelease, IInv
  <1>5. ASSUME NEW c \in Connections, NEW u \in Users, Leave(c, u) PROVE IInv'
    BY <1>5 DEF Leave, AfterLeave, IInv
  <1>6. CASE TimerRead
    BY <1>6 DEF TimerRead, IInv
  <1>7. CASE TimerCheck
    <2>1. TaskTimes'
      BY <1>7 DEF TimerCheck, IInv
    <2>2. floor' # Idle =>
            /\ floor' = floor
            /\ SaturatingSub(sample, floor.burst_start) <= MaxBurst
            /\ SaturatingSub(sample, floor.last_ping) <= PingTimeout
      BY <1>7, <1>a DEF TimerCheck, AfterTimers, TimersAction, BurstExceeded,
                        PingLapsed, SaturatingSub
    <2>3. floor' # Idle => /\ sample <= floor.burst_start + MaxBurst
                           /\ sample <= floor.last_ping + PingTimeout
      BY <2>2, <1>a DEF SaturatingSub
    <2> QED
      BY <2>1, <2>2, <2>3, <1>7, <1>a DEF TimerCheck, IInv
  <1>8. CASE Advance
    BY <1>8, <1>a DEF Advance, IInv
  <1>9. CASE UNCHANGED vars
    BY <1>9 DEF vars, IInv
  <1> QED
    BY <1>1, <1>2, <1>3, <1>4, <1>5, <1>6, <1>7, <1>8, <1>9 DEF Next, Session

\* The invariant holds of every reachable state of the handlers and the timer task.
THEOREM Invariance == Spec => []IInv
  BY InitInv, InvStep, PTL DEF Spec

-----------------------------------------------------------------------------
\* Type correctness of the floor, the tasks' clock values and the history.
THEOREM Types == Spec => []TypeOK
  <1>1. IInv => TypeOK
    BY DEF IInv
  <1> QED
    BY <1>1, Invariance, PTL

\* A burst ends within T2, one timer period and one scheduling delay.
THEOREM BurstBound == Spec => []BurstBounded
  <1>1. IInv => BurstBounded
    BY FloorShape DEF IInv, TypeOK, TaskTimes, BurstTimes, BurstBounded
  <1> QED
    BY <1>1, Invariance, PTL

\* A silent speaker loses the floor within the ping timeout, one timer period
\* and one scheduling delay.
THEOREM SilenceBound == Spec => []SilenceBounded
  <1>1. IInv => SilenceBounded
    BY FloorShape DEF IInv, TypeOK, TaskTimes, BurstTimes, SilenceBounded
  <1> QED
    BY <1>1, Invariance, PTL

\* When check_timers revokes, the time it compares really has passed.
LEMMA RevokedOverdue ==
    ASSUME IInv, TimerCheck, floor # Idle, floor' = Idle
    PROVE  \/ /\ ended' = "RevokedMaxBurst"
              /\ sample > floor.burst_start + MaxBurst
           \/ /\ ended' = "RevokedLost"
              /\ sample > floor.last_ping + PingTimeout
  <1>1. /\ floor.burst_start \in Nat /\ floor.last_ping \in Nat /\ sample \in Nat
    BY FloorShape DEF IInv, TypeOK
  <1>2. TimersAction(floor, sample) # "None" /\ ended' = TimersAction(floor, sample)
    BY DEF TimerCheck, AfterTimers, Ended
  <1> QED
    BY <1>1, <1>2 DEF TimersAction, BurstExceeded, PingLapsed, SaturatingSub

\* Only the timer task revokes: the other steps that end a burst answer Released.
LEMMA HowBurstsEnd ==
    ASSUME IInv, [Next]_vars, floor # Idle, floor' = Idle
    PROVE  TimerCheck \/ (ended' = "Released" /\ clock' = clock)
  <1> USE DEF timerVars, callVars, history
  <1>1. floor.speaker # NoOne
    BY FloorShape DEF IInv, TypeOK
  <1>2. ASSUME NEW c \in Connections, NEW u \in Users, NEW op \in Calls \ {"none"}, ReadClock(c, u, op)
        PROVE  FALSE
    BY <1>2 DEF ReadClock
  <1>3. ASSUME NEW c \in Connections, Request(c) PROVE FALSE
    BY <1>3 DEF Request, AfterRequest
  <1>4. ASSUME NEW c \in Connections, Ping(c) PROVE FALSE
    <2>1. floor'.speaker = floor.speaker
      BY <1>4 DEF Ping, AfterPing, IInv, TypeOK, FloorState, Idle
    <2> QED
      BY <2>1, <1>1 DEF Idle
  <1>5. ASSUME NEW c \in Connections, NEW u \in Users, Release(c, u) PROVE ended' = "Released" /\ clock' = clock
    BY <1>5, <1>1 DEF Release, AfterRelease, ReleaseAction, Ended
  <1>6. ASSUME NEW c \in Connections, NEW u \in Users, Leave(c, u) PROVE ended' = "Released" /\ clock' = clock
    BY <1>6, <1>1 DEF Leave, AfterLeave, LeaveAction, Ended
  <1>7. CASE TimerRead
    BY <1>7 DEF TimerRead
  <1>8. CASE Advance
    BY <1>8 DEF Advance
  <1>9. CASE UNCHANGED vars
    BY <1>9 DEF vars
  <1> QED
    BY <1>2, <1>3, <1>4, <1>5, <1>6, <1>7, <1>8, <1>9 DEF Next, Session

\* The timer is never early: the revoked burst was granted, or its speaker last
\* heard, at least the timeout ago, up to one scheduling delay.
THEOREM RevokesAreJustified == Spec => RevokeJustified
  <1> DEFINE Justified ==
        /\ floor # Idle /\ floor' = Idle /\ ended' = "RevokedMaxBurst"
             => clock + Delay > began + MaxBurst
        /\ floor # Idle /\ floor' = Idle /\ ended' = "RevokedLost"
             => clock + Delay > heard + PingTimeout
  <1>1. IInv /\ [Next]_vars => [Justified]_vars
    <2> SUFFICES ASSUME IInv, [Next]_vars, floor # Idle, floor' = Idle,
                        ended' # "Released"
                 PROVE  Justified
      OBVIOUS
    <2>1. TimerCheck
      BY HowBurstsEnd
    <2>2. /\ floor.burst_start \in Nat /\ floor.last_ping \in Nat
          /\ sample \in Nat /\ clock \in Nat /\ began \in Nat /\ heard \in Nat
      BY FloorShape DEF IInv, TypeOK
    <2>3. /\ sample <= clock
          /\ began <= floor.burst_start + Delay
          /\ heard <= floor.last_ping + Delay
      BY <2>1 DEF TimerCheck, IInv, TaskTimes, BurstTimes
    <2> QED
      BY <2>1, <2>2, <2>3, RevokedOverdue
  <1> QED
    BY <1>1, Invariance, PTL DEF Spec, RevokeJustified
-----------------------------------------------------------------------------
\* The floor's view of the lease: what Deadline and Limit are, for a taken floor.
LEMMA LeaseOfTaken ==
    ASSUME NEW f \in FloorState, f # Idle
    PROVE  /\ Limit(f) = f.burst_start + MaxBurst
           /\ Deadline(f) <= f.burst_start + MaxBurst
           /\ Deadline(f) <= f.last_ping + PingTimeout
           /\ \/ Deadline(f) = f.burst_start + MaxBurst
              \/ Deadline(f) = f.last_ping + PingTimeout
           /\ Deadline(f) \in Nat /\ Limit(f) \in Nat
  BY FloorShape DEF Deadline, Limit, Least

\* A term counted from a time at most Delay old.
LEMMA TermFrom ==
    ASSUME NEW t \in Nat, clock \in Nat, t <= clock, clock <= t + Delay, NEW time \in Nat
    PROVE  t + time \in Lease!Until(time)
  BY DEF Lease!Until

\* A call in progress was made for some user.
LEMMA CallerIsUser ==
    ASSUME TypeOK, NEW c \in Connections, call[c] # "none"
    PROVE  caller[c] \in Users /\ stamp[c] \in Nat
  BY DEF TypeOK

\* Giving the floor back, in the lease's terms.
LEMMA EndsLease ==
    ASSUME floor' = Idle, clock' = clock, NEW how, HowEnded' = how
    PROVE  Lease!End(how)
  BY DEF Lease!End, Idle, Deadline, Limit

\* A step that changes neither the floor nor the clock is invisible to the lease.
LEMMA LeaseStutter ==
    ASSUME UNCHANGED <<floor, clock, ended>>
    PROVE  UNCHANGED Lease!leaseVars
  BY DEF Lease!leaseVars, Deadline, Limit, HowEnded

\* A grant acquires the lease.
LEMMA GrantAcquires ==
    ASSUME IInv, IInv', NEW c \in Connections, Request(c), floor = Idle
    PROVE  Lease!Acquire(caller[c])
  <1>0. caller[c] \in Users /\ stamp[c] \in Nat
    BY CallerIsUser DEF Request, IInv
  <1>1. /\ floor' = Taken(caller[c], stamp[c], stamp[c])
        /\ UNCHANGED <<clock, ended>>
    BY DEF Request, AfterRequest
  <1>2. floor' # Idle /\ floor' \in FloorState
    BY <1>0, <1>1 DEF Taken, Idle, IInv, TypeOK
  <1>3. /\ floor'.speaker = caller[c]
        /\ floor'.burst_start = stamp[c]
        /\ floor'.last_ping = stamp[c]
    BY <1>1 DEF Taken
  <1>4. stamp[c] \in Nat /\ stamp[c] <= clock /\ clock <= stamp[c] + Delay /\ clock \in Nat
    BY DEF Request, IInv, TypeOK, TaskTimes
  <1>5. /\ Limit(floor') = stamp[c] + MaxBurst
        /\ Deadline(floor') = stamp[c] + PingTimeout
    BY <1>2, <1>3, <1>4, LeaseOfTaken
  <1>6. /\ Deadline(floor)' \in Lease!Until(PingTimeout)
        /\ Limit(floor)' \in Lease!Until(MaxBurst)
        /\ Deadline(floor)' <= Limit(floor)'
    <2>1. /\ Deadline(floor)' = stamp[c] + PingTimeout
          /\ Limit(floor)' = stamp[c] + MaxBurst
      BY <1>5 DEF Deadline, Limit
    <2> QED
      BY <1>4, <2>1, TermFrom
  <1>7. HowEnded' = HowEnded
    BY <1>1 DEF HowEnded
  <1> QED
    BY <1>1, <1>3, <1>6, <1>7 DEF Lease!Acquire, Lease!Free, Idle

\* A ping of the speaker extends it, up to its limit, whichever of the speaker's
\* connections it comes from.
LEMMA PingExtends ==
    ASSUME IInv, IInv', NEW c \in Connections, Ping(c), floor.speaker = caller[c]
    PROVE  Lease!Extend
  <1>0. caller[c] \in Users /\ stamp[c] \in Nat /\ floor # Idle
    BY CallerIsUser DEF Ping, IInv, Idle
  <1>1. /\ floor' = [floor EXCEPT !.last_ping = stamp[c]]
        /\ UNCHANGED <<clock, ended>>
    BY DEF Ping, AfterPing, timerVars
  <1>2. /\ floor # Idle /\ floor \in FloorState
        /\ floor.burst_start \in Nat /\ floor.last_ping \in Nat
    BY <1>0, FloorShape DEF IInv, TypeOK
  <1>3. /\ floor'.speaker = caller[c]
        /\ floor'.burst_start = floor.burst_start
        /\ floor'.last_ping = stamp[c]
    BY <1>1, <1>2 DEF FloorState, Idle
  <1>4. floor' # Idle /\ floor' \in FloorState
    BY <1>0, <1>3 DEF Idle, IInv, TypeOK
  <1>5. /\ stamp[c] \in Nat /\ stamp[c] <= clock /\ clock \in Nat
        /\ clock <= stamp[c] + Delay
    BY <1>2 DEF Ping, IInv, TypeOK, TaskTimes, BurstTimes
  <1>6. /\ Limit(floor') = Limit(floor)
        /\ Deadline(floor') = IF stamp[c] + PingTimeout < Limit(floor)
                              THEN stamp[c] + PingTimeout ELSE Limit(floor)
    <2>1. /\ Limit(floor') = floor.burst_start + MaxBurst
          /\ Deadline(floor') = Least(floor.burst_start + MaxBurst, stamp[c] + PingTimeout)
      BY <1>3, <1>4 DEF Limit, Deadline
    <2>2. Limit(floor) = floor.burst_start + MaxBurst
      BY <1>2 DEF Limit
    <2> QED
      BY <1>2, <1>5, <2>1, <2>2 DEF Least
  <1>7. HowEnded' = HowEnded
    BY <1>1 DEF HowEnded
  <1>8. stamp[c] + PingTimeout \in Lease!Until(PingTimeout)
    BY <1>5, TermFrom
  <1> QED
    BY <1>1, <1>2, <1>3, <1>6, <1>7, <1>8, FloorShape DEF Lease!Extend, Lease!Free

\* The passing of time leaves the lease alone and overstays no deadline.
LEMMA AdvancePasses ==
    ASSUME IInv, IInv', Advance
    PROVE  Lease!Pass
  <1>1. /\ UNCHANGED <<floor, tick, ended>>
        /\ clock' = clock + 1
        /\ clock \in Nat /\ tick \in Nat /\ floor \in FloorState
    BY DEF Advance, timerVars, history, IInv, TypeOK
  <1>2. floor.speaker # NoOne => clock' <= Deadline(floor) + (Interval + Delay)
    <2> SUFFICES ASSUME floor # Idle
                 PROVE  clock' <= Deadline(floor) + (Interval + Delay)
      BY <1>1, FloorShape
    <2>1. /\ clock' <= floor.burst_start + MaxBurst + Interval + Delay
          /\ clock' <= floor.last_ping + PingTimeout + Interval + Delay
      BY <1>1, FloorShape DEF IInv, TypeOK, TaskTimes, BurstTimes
    <2> QED
      BY <1>1, <2>1, LeaseOfTaken, FloorShape
  <1> QED
    BY <1>1, <1>2 DEF Lease!Pass, Lease!Free, Deadline, Limit, HowEnded

\* The handlers and the timer task implement the lease: whatever they do, in
\* whatever order, no user's turn is stolen, cut short or overstayed.
THEOREM Implementation == Spec => LeaseSpec
  <1>1. Init => Lease!LeaseInit
    BY DEF Init, Lease!LeaseInit, Idle, Deadline, Limit, HowEnded
  <1>2. IInv /\ IInv' /\ [Next]_vars => [Lease!LeaseNext]_Lease!leaseVars
    <2> SUFFICES ASSUME IInv, IInv', [Next]_vars
                 PROVE  Lease!LeaseNext \/ UNCHANGED Lease!leaseVars
      OBVIOUS
    <2> USE DEF timerVars, callVars, history
    <2>1. ASSUME NEW c \in Connections, NEW u \in Users, NEW op \in Calls \ {"none"}, ReadClock(c, u, op)
          PROVE  UNCHANGED Lease!leaseVars
      BY <2>1, LeaseStutter DEF ReadClock
    <2>2. ASSUME NEW c \in Connections, Request(c)
          PROVE  Lease!LeaseNext \/ UNCHANGED Lease!leaseVars
      <3>1. CASE floor = Idle
        <4>1. caller[c] \in Users
          BY <2>2, CallerIsUser DEF Request, IInv
        <4> QED
          BY <2>2, <3>1, <4>1, GrantAcquires DEF Lease!LeaseNext
      <3>2. CASE floor # Idle
        BY <2>2, <3>2, LeaseStutter DEF Request, AfterRequest
      <3> QED
        BY <3>1, <3>2
    <2>3. ASSUME NEW c \in Connections, Ping(c)
          PROVE  Lease!LeaseNext \/ UNCHANGED Lease!leaseVars
      <3>1. CASE floor.speaker = caller[c]
        BY <2>3, <3>1, PingExtends DEF Lease!LeaseNext
      <3>2. CASE floor.speaker # caller[c]
        BY <2>3, <3>2, LeaseStutter DEF Ping, AfterPing
      <3> QED
        BY <3>1, <3>2
    <2>4. ASSUME NEW c \in Connections, NEW u \in Users, Release(c, u) \/ Leave(c, u)
          PROVE  Lease!LeaseNext \/ UNCHANGED Lease!leaseVars
      <3>1. CASE floor.speaker = u
        <4>1. floor' = Idle /\ clock' = clock /\ floor # Idle /\ floor.speaker # NoOne
          BY <2>4, <3>1 DEF Release, AfterRelease, Leave, AfterLeave, Idle
        <4>2. ended' = "Released"
          BY <2>4, <3>1, <4>1 DEF Release, ReleaseAction, Leave, LeaveAction, Ended
        <4>3. HowEnded' = "given up"
          BY <4>2 DEF HowEnded
        <4> QED
          BY <4>1, <4>3, EndsLease DEF Lease!LeaseNext, Lease!GiveUp, Lease!Free
      <3>2. CASE floor.speaker # u
        BY <2>4, <3>2, LeaseStutter DEF Release, AfterRelease, Leave, AfterLeave, Ended
      <3> QED
        BY <3>1, <3>2
    <2>5. CASE TimerRead
      BY <2>5, LeaseStutter DEF TimerRead
    <2>6. CASE TimerCheck
      <3>1. CASE floor # Idle /\ floor' = Idle
        <4>1. HowEnded' = "expired"
          BY <2>6, <3>1, RevokedOverdue DEF HowEnded
        <4>2. floor.speaker # NoOne /\ clock' = clock
          BY <2>6, <3>1, FloorShape DEF TimerCheck, IInv, TypeOK
        <4>3. clock > Deadline(floor)
          <5>1. /\ floor.burst_start \in Nat /\ floor.last_ping \in Nat
                /\ sample \in Nat /\ clock \in Nat /\ sample <= clock
            BY <2>6, FloorShape DEF TimerCheck, IInv, TypeOK, TaskTimes
          <5>2. \/ sample > floor.burst_start + MaxBurst
                \/ sample > floor.last_ping + PingTimeout
            BY <2>6, <3>1, RevokedOverdue
          <5> QED
            BY <3>1, <5>1, <5>2, LeaseOfTaken DEF IInv, TypeOK
        <4> QED
          BY <3>1, <4>1, <4>2, <4>3, EndsLease DEF Lease!LeaseNext, Lease!Expire, Lease!Free
      <3>2. CASE ~(floor # Idle /\ floor' = Idle)
        BY <2>6, <3>2, LeaseStutter DEF TimerCheck, AfterTimers, Ended
      <3> QED
        BY <3>1, <3>2
    <2>7. CASE Advance
      BY <2>7, AdvancePasses DEF Lease!LeaseNext
    <2>8. CASE UNCHANGED vars
      BY <2>8, LeaseStutter DEF vars
    <2> QED
      BY <2>1, <2>2, <2>3, <2>4, <2>5, <2>6, <2>7, <2>8 DEF Next, Session
  <1> QED
    BY <1>1, <1>2, Invariance, PTL DEF Spec, LeaseSpec, Lease!LeaseSpec
=============================================================================
