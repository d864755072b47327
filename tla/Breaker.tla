------------------------------- MODULE Breaker -------------------------------
(***************************************************************************)
(* The circuit breaker of one connector of the gateway                     *)
(* (gateway/internal/breaker/breaker.go) and the calls that go through it  *)
(* (gateway/internal/server/call.go).  Each method holds the breaker's     *)
(* mutex, so it is one step; between Allow and the report of its outcome a *)
(* call is in flight, for any time and beside any number of others.  Time  *)
(* is the time left of the open period.                                    *)
(***************************************************************************)
EXTENDS Integers

CONSTANTS Calls,        \* callers, each with at most one call in flight
          Threshold,    \* consecutive upstream errors that open the circuit
          Base,         \* the first open period
          MaxPeriod     \* what doubling stops at

ASSUME BreakerAssumption ==
    /\ Threshold \in Nat \ {0}
    /\ Base \in Nat \ {0}
    /\ MaxPeriod \in Nat
    /\ Base <= MaxPeriod

VARIABLES state,     \* "closed", "open" or "half_open"
          failures,  \* errors counted towards the threshold
          trialBusy, \* the trial of the half-open circuit is taken
          backoff,   \* the nominal open period
          left,      \* how much of the open period is still to come
          flight,    \* the state each call was let through in, or "idle"
          streak,    \* upstream errors since the last success
          trials     \* calls let through since the circuit last opened

vars == <<state, failures, trialBusy, backoff, left, flight, streak, trials>>

\* Twenty per cent either way; the float product is cut to whole units.
jittered(d) == (4 * d) \div 5 .. (6 * d) \div 5

TypeOK ==
    /\ state \in {"closed", "open", "half_open"}
    /\ failures \in Nat
    /\ trialBusy \in BOOLEAN
    /\ backoff \in Base .. MaxPeriod
    /\ left \in Nat
    /\ flight \in [Calls -> {"idle", "closed", "half_open"}]
    /\ streak \in Nat
    /\ trials \in Nat

Init ==
    /\ state = "closed"
    /\ failures = 0
    /\ trialBusy = FALSE
    /\ backoff = Base
    /\ left = 0
    /\ flight = [c \in Calls |-> "idle"]
    /\ streak = 0
    /\ trials = 0

-----------------------------------------------------------------------------
\* Mutation: the half-open circuit does not mark its trial as taken.
Allow_Unmarked(c) ==
    /\ flight[c] = "idle"
    /\ \/ /\ state = "closed"
          /\ flight' = [flight EXCEPT ![c] = "closed"]
          /\ UNCHANGED <<state, trialBusy, trials>>
       \/ /\ state # "closed"
          /\ IF state = "open" THEN left = 0 ELSE ~trialBusy
          /\ state' = "half_open"
          /\ flight' = [flight EXCEPT ![c] = "half_open"]
          /\ trials' = trials + 1
          /\ UNCHANGED trialBusy
    /\ UNCHANGED <<failures, backoff, left, streak>>

\* A call is let through: always by the closed circuit, once by an open one
\* whose period has passed.  The calls it turns away leave no trace.
Allow(c) ==
    /\ flight[c] = "idle"
    /\ \/ /\ state = "closed"
          /\ flight' = [flight EXCEPT ![c] = "closed"]
          /\ UNCHANGED <<state, trialBusy, trials>>
       \/ /\ state # "closed"
          /\ IF state = "open" THEN left = 0 ELSE ~trialBusy
          /\ state' = "half_open"
          /\ trialBusy' = TRUE
          /\ flight' = [flight EXCEPT ![c] = "half_open"]
          /\ trials' = trials + 1
    /\ UNCHANGED <<failures, backoff, left, streak>>

\* Mutation: the count of errors survives a success.
Success_KeepsCount(c) ==
    /\ flight[c] # "idle"
    /\ trialBusy' = FALSE
    /\ state' = "closed"
    /\ backoff' = Base
    /\ flight' = [flight EXCEPT ![c] = "idle"]
    /\ streak' = 0
    /\ trials' = 0
    /\ UNCHANGED <<failures, left>>

Success(c) ==
    /\ flight[c] # "idle"
    /\ failures' = 0
    /\ trialBusy' = FALSE
    /\ state' = "closed"
    /\ backoff' = Base
    /\ flight' = [flight EXCEPT ![c] = "idle"]
    /\ streak' = 0
    /\ trials' = 0
    /\ UNCHANGED left

open(period) ==
    /\ state' = "open"
    /\ trialBusy' = FALSE
    /\ backoff' = period
    /\ left' \in jittered(period)
    /\ trials' = 0

Doubled == IF backoff * 2 > MaxPeriod THEN MaxPeriod ELSE backoff * 2

\* An upstream error or a timeout.  streak is counted to the threshold only.
Failure(c) ==
    /\ flight[c] # "idle"
    /\ flight' = [flight EXCEPT ![c] = "idle"]
    /\ streak' = IF streak < Threshold THEN streak + 1 ELSE streak
    /\ \/ /\ state = "closed"
          /\ failures' = failures + 1
          /\ IF failures + 1 >= Threshold
             THEN open(Base)
             ELSE UNCHANGED <<state, trialBusy, backoff, left, trials>>
       \/ state = "half_open" /\ open(Doubled) /\ UNCHANGED failures
       \/ state = "open" /\ UNCHANGED <<state, failures, trialBusy, backoff, left, trials>>

\* The connector refuses the input for good: handleCall answers 422 and tells
\* the breaker nothing.
DeterministicError(c) ==
    /\ flight[c] # "idle"
    /\ flight' = [flight EXCEPT ![c] = "idle"]
    /\ UNCHANGED <<state, failures, trialBusy, backoff, left, streak, trials>>

Tick ==
    /\ left > 0
    /\ left' = left - 1
    /\ UNCHANGED <<state, failures, trialBusy, backoff, flight, streak, trials>>

\* The gateway process is restarted: New, with no call in flight.
Restart ==
    /\ state' = "closed"
    /\ failures' = 0
    /\ trialBusy' = FALSE
    /\ backoff' = Base
    /\ left' = 0
    /\ flight' = [c \in Calls |-> "idle"]
    /\ streak' = 0
    /\ trials' = 0

Next ==
    \/ Tick
    \/ Restart
    \/ \E c \in Calls : Allow(c) \/ Success(c) \/ Failure(c) \/ DeterministicError(c)

Spec == Init /\ [][Next]_vars

-----------------------------------------------------------------------------
\* An open or half-open circuit has seen Threshold upstream errors with no
\* success between them, whichever of the concurrent calls reported them.
OpenIsEarned == state # "closed" => streak >= Threshold

\* Between one opening of the circuit and the next, at most one call is let
\* through, however many are waiting when the period passes.
OneTrialPerOpening ==
    /\ trials <= 1
    /\ state = "open" => trials = 0
    /\ state = "half_open" => trialBusy
=============================================================================
