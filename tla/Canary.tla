------------------------------- MODULE Canary --------------------------------
(***************************************************************************)
(* The contract canary of one connector                                    *)
(* (gateway/internal/canary/canary.go).  The ticker of the loop and the    *)
(* operators' POST /v1/canaries/{connector}/probe probe the same           *)
(* connector.  A probe holds the entry's probing mutex, asks the upstream, *)
(* and only then takes the manager's mutex to apply what it saw; a release *)
(* takes the manager's mutex alone and so may fall between the two.        *)
(***************************************************************************)
EXTENDS Naturals, Sequences

CONSTANTS Probers,          \* the loop's ticker and the operators
          QuarantineAfter,  \* failures in a row that quarantine
          AutoRelease       \* passes may lift the quarantine

VARIABLES upstream,  \* whether the upstream honours the contract now
          stable,    \* it does from now on (the repair was made)
          status,    \* "healthy", "failed" or "quarantined"
          failures,  \* ConsecutiveFailures, counted to QuarantineAfter
          passes,    \* PassesSinceQuarantine, counted to two
          probe,     \* per prober: "idle", "waiting" or the verdict it got
          seen       \* verdicts since the start, in the order the upstream gave them

vars == <<upstream, stable, status, failures, passes, probe, seen>>

Verdicts == {"pass", "fail"}

Init ==
    /\ upstream = "pass"
    /\ stable = FALSE
    /\ status = "healthy"
    /\ failures = 0
    /\ passes = 0
    /\ probe = [p \in Probers |-> "idle"]
    /\ seen = <<>>

Latest(s, n) == SubSeq(s, IF Len(s) > n THEN Len(s) - n + 1 ELSE 1, Len(s))
Counted(n, cap) == IF n < cap THEN n + 1 ELSE cap

-----------------------------------------------------------------------------
\* Mutation: probes of one connector are not serialised.
Begin_Unlocked(p) ==
    /\ probe[p] = "idle"
    /\ probe' = [probe EXCEPT ![p] = "waiting"]
    /\ UNCHANGED <<upstream, stable, status, failures, passes, seen>>

\* e.probing.Lock()
Begin(p) ==
    /\ \A q \in Probers : probe[q] = "idle"
    /\ probe' = [probe EXCEPT ![p] = "waiting"]
    /\ UNCHANGED <<upstream, stable, status, failures, passes, seen>>

\* Connector.Probe, CheckContract and RefreshTools: the verdict, or a failure
\* because the probe's context ran out while the upstream was fine.
Ask(p) ==
    /\ probe[p] = "waiting"
    /\ \E v \in {upstream} \cup (IF stable THEN {} ELSE {"fail"}) :
          /\ probe' = [probe EXCEPT ![p] = v]
          /\ seen' = Latest(Append(seen, v), QuarantineAfter + 2)
    /\ UNCHANGED <<upstream, stable, status, failures, passes>>

released ==
    /\ status' = "healthy"
    /\ failures' = 0
    /\ passes' = 0

\* Mutation: a pass in quarantine is not counted.
Apply_Uncounted(p) ==
    /\ probe[p] \in Verdicts
    /\ probe' = [probe EXCEPT ![p] = "idle"]
    /\ IF probe[p] = "pass"
       THEN /\ failures' = 0
            /\ status' = IF status = "quarantined" THEN status ELSE "healthy"
            /\ UNCHANGED passes
       ELSE /\ failures' = Counted(failures, QuarantineAfter)
            /\ passes' = 0
            /\ status' = IF failures + 1 >= QuarantineAfter \/ status = "quarantined"
                         THEN "quarantined" ELSE "failed"
    /\ UNCHANGED <<upstream, stable, seen>>

\* What the probe saw is applied to whatever the status is by now.
Apply(p) ==
    /\ probe[p] \in Verdicts
    /\ probe' = [probe EXCEPT ![p] = "idle"]
    /\ \/ /\ probe[p] = "pass" /\ status = "quarantined"
          /\ IF AutoRelease /\ passes + 1 >= 2
             THEN released
             ELSE /\ failures' = 0
                  /\ passes' = Counted(passes, 2)
                  /\ UNCHANGED status
       \/ /\ probe[p] = "pass" /\ status # "quarantined"
          /\ failures' = 0
          /\ status' = "healthy"
          /\ UNCHANGED passes
       \/ /\ probe[p] = "fail" /\ status = "quarantined"
          /\ failures' = Counted(failures, QuarantineAfter)
          /\ passes' = 0
          /\ UNCHANGED status
       \/ /\ probe[p] = "fail" /\ status # "quarantined"
          /\ failures' = Counted(failures, QuarantineAfter)
          /\ IF failures + 1 >= QuarantineAfter
             THEN status' = "quarantined" /\ passes' = 0
             ELSE status' = "failed" /\ UNCHANGED passes
    /\ UNCHANGED <<upstream, stable, seen>>

\* POST /v1/canaries/{connector}/release
Release ==
    /\ released
    /\ UNCHANGED <<upstream, stable, probe, seen>>

\* The upstream breaks or recovers, until it is repaired for good.
Change ==
    /\ ~stable
    /\ upstream' \in Verdicts
    /\ stable' \in IF upstream' = "pass" THEN BOOLEAN ELSE {FALSE}
    /\ UNCHANGED <<status, failures, passes, probe, seen>>

Next ==
    \/ Release
    \/ Change
    \/ \E p \in Probers : Begin(p) \/ Ask(p) \/ Apply(p)
=============================================================================
