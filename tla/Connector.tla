------------------------------ MODULE Connector ------------------------------
(***************************************************************************)
(* One connector of the gateway behind its two guards: the canary that may *)
(* quarantine it and the circuit breaker.  handleCall of                   *)
(* gateway/internal/server/call.go asks the canary first and the breaker   *)
(* after, each under its own mutex, so the quarantine may begin or end in  *)
(* between, and a call already let through reports to the breaker whatever *)
(* the canary found meanwhile.  Both live in the gateway's memory and are  *)
(* new after a restart.                                                    *)
(***************************************************************************)
EXTENDS Breaker, Sequences

CONSTANTS Probers, QuarantineAfter, AutoRelease,
          Loop       \* the canary's ticker, a member of Probers

\* canary.New replaces a threshold that is not positive.
ASSUME CanaryAssumption == QuarantineAfter \in Nat \ {0}

VARIABLES upstream, stable, status, probeFailures, passes, probe, seen,
          checked,   \* calls past the quarantine check, before the breaker
          old        \* calls that were sent before the upstream was repaired

C == INSTANCE Canary WITH failures <- probeFailures

canaryVars == <<upstream, stable, status, probeFailures, passes, probe, seen>>
callVars == <<checked, old>>
connectorVars == <<vars, canaryVars, callVars>>

InFlight == {c \in Calls : flight[c] # "idle"}

ConnectorInit ==
    /\ Init
    /\ C!Init
    /\ checked = {} /\ old = {}

-----------------------------------------------------------------------------
\* s.canary.Quarantined: a call that is turned away here leaves no trace.
PassQuarantine(c) ==
    /\ flight[c] = "idle" /\ c \notin checked
    /\ status # "quarantined"
    /\ checked' = checked \cup {c}
    /\ UNCHANGED <<vars, canaryVars, old>>

Refuses ==
    \/ state = "open" /\ left > 0
    \/ state = "half_open" /\ trialBusy

\* breaker.Allow lets the call through or turns it away.
Enter(c) ==
    /\ c \in checked
    /\ checked' = checked \ {c}
    /\ \/ Allow(c)
       \/ Refuses /\ UNCHANGED vars
    /\ UNCHANGED <<canaryVars, old>>

\* A repaired upstream answers every call sent to it from then on.
Report(c) ==
    /\ Success(c) \/ DeterministicError(c) \/ ((~stable \/ c \in old) /\ Failure(c))
    /\ old' = old \ {c}
    /\ UNCHANGED <<canaryVars, checked>>

CanaryStep ==
    /\ C!Next
    /\ old' = IF stable' /\ ~stable THEN InFlight ELSE old
    /\ UNCHANGED <<vars, checked>>

\* The gateway restarts: breaker, canary and calls start anew.
GatewayRestart ==
    /\ Restart
    /\ C!released
    /\ probe' = [p \in Probers |-> "idle"]
    /\ seen' = <<>>
    /\ checked' = {} /\ old' = {}
    /\ UNCHANGED <<upstream, stable>>

ConnectorNext ==
    \/ \E c \in Calls : PassQuarantine(c) \/ Enter(c) \/ Report(c)
    \/ Tick /\ UNCHANGED <<canaryVars, callVars>>
    \/ CanaryStep
    \/ GatewayRestart

\* Time passes, a worker that is turned away asks again, every call ends (its
\* context has a deadline, call.go:175), the ticker keeps ticking and a probe
\* ends within ProbeTimeout.
ConnectorFairness ==
    /\ WF_connectorVars(Tick /\ UNCHANGED <<canaryVars, callVars>>)
    /\ \A c \in Calls :
          /\ WF_connectorVars(PassQuarantine(c))
          /\ WF_connectorVars(Enter(c))
          /\ WF_connectorVars(Report(c))
    /\ WF_connectorVars(C!Begin(Loop) /\ UNCHANGED <<vars, callVars>>)
    /\ \A p \in Probers : WF_connectorVars((C!Ask(p) \/ C!Apply(p)) /\ UNCHANGED <<vars, callVars>>)

ConnectorSpec == ConnectorInit /\ [][ConnectorNext]_connectorVars /\ ConnectorFairness

-----------------------------------------------------------------------------
\* A connector enters quarantine only on QuarantineAfter failures that the
\* upstream gave one after the other, whoever probed, and leaves it without
\* an operator or a restart only after two passes in a row (canary.go, apply).
TransitionsAreEarned ==
    [][/\ status # "quarantined" /\ status' = "quarantined" =>
             /\ Len(seen) >= QuarantineAfter
             /\ \A i \in 1 .. QuarantineAfter : C!Latest(seen, QuarantineAfter)[i] = "fail"
       /\ status = "quarantined" /\ status' # "quarantined" /\ probe' # probe /\ seen' = seen =>
             C!Latest(seen, 2) = <<"pass", "pass">>]_connectorVars

\* The trial of the half-open circuit ended in an error the breaker is not
\* told of; no call is let through until the gateway restarts.
TrialLost == state = "half_open" /\ trialBusy /\ InFlight = {}

\* With auto release, a connector whose upstream is repaired for good is out of
\* quarantine for good and its circuit closed, whatever canary and breaker had
\* counted before, unless the breaker has lost its trial.
RepairedConnectorServes ==
    stable ~> [](status = "healthy" /\ (state = "closed" \/ TrialLost))

-----------------------------------------------------------------------------
(* The inductive invariant behind TransitionsAreEarned (ProcessProofs).    *)

\* How many of the verdicts in seen were applied: all but that of a probe which holds
\* its verdict still.
Applied == IF \E p \in Probers : probe[p] \in C!Verdicts THEN Len(seen) - 1 ELSE Len(seen)

\* The last n verdicts applied are v.
RunOf(n, v) == n <= Applied /\ \A i \in Applied - n + 1 .. Applied : seen[i] = v

CanaryInv ==
    /\ upstream \in C!Verdicts
    /\ status \in {"healthy", "failed", "quarantined"}
    /\ probeFailures \in 0 .. QuarantineAfter
    /\ passes \in 0 .. 2
    /\ probe \in [Probers -> {"idle", "waiting"} \cup C!Verdicts]
    /\ seen \in Seq(C!Verdicts)
    /\ \A p, q \in Probers : probe[p] # "idle" /\ probe[q] # "idle" => p = q
    /\ \A p \in Probers :
          probe[p] \in C!Verdicts => Len(seen) > 0 /\ seen[Len(seen)] = probe[p]
    /\ RunOf(probeFailures, "fail")
    /\ status = "quarantined" => Applied > 0 /\ RunOf(passes, "pass")
=============================================================================
