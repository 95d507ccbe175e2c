----------------------------- MODULE RateLimiter -----------------------------
(***************************************************************************)
(* RateLimiter of the Telegram client: the delay every worker waits out    *)
(* before it asks Telegram.  Wait computes the delay and moves next under  *)
(* r.mu, then sleeps with the lock released, so several workers sleep      *)
(* towards deadlines they were given one after the other.                  *)
(*                                                                         *)
(* Time is counted in ticks; a deadline is the tick a timer may fire from. *)
(***************************************************************************)
EXTENDS Integers

CONSTANTS
    Callers,    \* the workers that share the limiter
    MinDelay,   \* the delays cmd/app configures, in ticks
    MaxDelay,
    Horizon     \* bound: the last tick

ASSUME DelaysAssumption  ==
    MinDelay \in Int /\ MaxDelay \in Int /\ (MinDelay # 0 \/ MaxDelay # 0)
ASSUME HorizonAssumption == Horizon \in Nat

\* NewRateLimiter: a negative minimum counts as none, a maximum below the
\* minimum as the minimum.  (For 0 and 0 it takes the values cmd/app gives.)
Lower == IF MinDelay < 0 THEN 0 ELSE MinDelay
Upper == IF MaxDelay < Lower THEN Lower ELSE MaxDelay

VARIABLES
    now,        \* the clock
    next,       \* r.next; 0, long past, until the first Wait
    waiting,    \* worker -> it sleeps in Wait
    asked,      \* worker -> when its last Wait began
    deadline    \* worker -> when its last Wait was to end

limiterVars == <<now, next, waiting, asked, deadline>>

LimiterTypeOK ==
    /\ now \in Nat /\ next \in Nat
    /\ waiting \in [Callers -> BOOLEAN]
    /\ asked \in [Callers -> Nat]
    /\ deadline \in [Callers -> Nat]

LimiterInit ==
    /\ now = 0 /\ next = 0
    /\ waiting = [c \in Callers |-> FALSE]
    /\ asked = [c \in Callers |-> 0]
    /\ deadline = [c \in Callers |-> 0]

-----------------------------------------------------------------------------
Larger(a, b) == IF a > b THEN a ELSE b

\* a careless variant: the delay is added to the time reserved so far
DelayQueued(pacing) == pacing + Larger(next - now, 0)

\* a careless variant: the time reserved so far is not looked at
DelayAlone(pacing) == pacing

\* wait: until next, but no less than the pacing drawn for this call
Delay(pacing) == Larger(next - now, pacing)

\* Wait, up to the timer: under r.mu the delay is drawn and next moved
Reserve(c) ==
    /\ ~waiting[c]
    /\ \E pacing \in Lower..Upper :
        /\ next' = now + Delay(pacing)
        /\ deadline' = [deadline EXCEPT ![c] = now + Delay(pacing)]
    /\ asked' = [asked EXCEPT ![c] = now]
    /\ waiting' = [waiting EXCEPT ![c] = TRUE]
    /\ UNCHANGED now

\* the timer fires, on time or late
Release(c) ==
    /\ waiting[c] /\ now >= deadline[c]
    /\ waiting' = [waiting EXCEPT ![c] = FALSE]
    /\ UNCHANGED <<now, next, asked, deadline>>

\* a careless variant: a worker that gives up takes its delay off next again
GiveUpRefunded(c) ==
    /\ waiting[c]
    /\ waiting' = [waiting EXCEPT ![c] = FALSE]
    /\ next' = next - (deadline[c] - asked[c])
    /\ UNCHANGED <<now, asked, deadline>>

\* the context is done first; the time reserved stays reserved
GiveUp(c) ==
    /\ waiting[c]
    /\ waiting' = [waiting EXCEPT ![c] = FALSE]
    /\ UNCHANGED <<now, next, asked, deadline>>

Tick ==
    /\ now < Horizon
    /\ now' = now + 1
    /\ UNCHANGED <<next, waiting, asked, deadline>>

LimiterNext ==
    \/ Tick
    \/ \E c \in Callers : Reserve(c) \/ Release(c) \/ GiveUp(c)

LimiterSpec == LimiterInit /\ [][LimiterNext]_limiterVars

-----------------------------------------------------------------------------
(* However many workers queue up, nobody is told to wait less than the     *)
(* minimum or longer than the maximum: reservations do not add up.         *)
WaitWithinRange ==
    \A c \in Callers :
        waiting[c] => deadline[c] \in (asked[c] + Lower)..(asked[c] + Upper)

(* The time reserved only moves forward, whatever delay is drawn: a worker *)
(* that asks later is never due before one that asked earlier.             *)
DueInOrder ==
    \A b, c \in Callers :
        waiting[b] /\ waiting[c] /\ asked[b] < asked[c] => deadline[b] <= deadline[c]
=============================================================================
