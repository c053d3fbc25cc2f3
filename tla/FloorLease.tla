------------------------------ MODULE FloorLease ------------------------------
(***************************************************************************)
(* What the floor of a push-to-talk room promises, with no controller, no   *)
(* timer task and no messages: the right to speak is a lease.  At most one  *)
(* user holds it; it is handed over only through "free"; whenever its       *)
(* holder extends it, it runs for a term from then on, up to the limit      *)
(* fixed when it was granted; it is taken away from a holder that did not   *)
(* give it up only once it has run out; and nobody overstays it by more     *)
(* than Grace.  A term is counted from a time that may be Slack old, so an  *)
(* extension may also bring the end forward, by no more than that.          *)
(***************************************************************************)
EXTENDS Naturals

CONSTANTS
    Users, NoOne,
    Term,     \* the longest a grant may run without being extended
    Burst,    \* the longest a grant may run at all
    Slack,    \* how old the time may be that a term is counted from
    Grace     \* how late the end of a lease may be noticed

VARIABLES
    holder,     \* who may speak
    deadline,   \* when the lease runs out unless it is extended
    limit,      \* what the deadline can be extended to
    ended,      \* how the last lease ended
    clock

leaseVars == <<holder, deadline, limit, ended, clock>>

Free == holder = NoOne

LeaseInit ==
    /\ holder = NoOne
    /\ deadline = 0
    /\ limit = 0
    /\ ended = "never"
    /\ clock = 0

\* What runs for the given time from now, or from up to Slack ago.
Until(time) == {t \in 0..(clock + time) : clock + time <= t + Slack}

Acquire(u) ==
    /\ Free
    /\ holder' = u
    /\ deadline' \in Until(Term)
    /\ limit' \in Until(Burst)
    /\ deadline' <= limit'
    /\ UNCHANGED <<ended, clock>>

Extend ==
    /\ ~Free
    /\ \E t \in Until(Term) : deadline' = IF t < limit THEN t ELSE limit
    /\ UNCHANGED <<holder, limit, ended, clock>>

End(how) ==
    /\ holder' = NoOne
    /\ deadline' = 0
    /\ limit' = 0
    /\ ended' = how
    /\ UNCHANGED clock

GiveUp == ~Free /\ End("given up")

Expire == ~Free /\ clock > deadline /\ End("expired")

Pass ==
    /\ clock' \in Nat
    /\ clock' > clock
    /\ ~Free => clock' <= deadline + Grace
    /\ UNCHANGED <<holder, deadline, limit, ended>>

LeaseNext == (\E u \in Users : Acquire(u)) \/ Extend \/ GiveUp \/ Expire \/ Pass

LeaseSpec == LeaseInit /\ [][LeaseNext]_leaseVars
=============================================================================
