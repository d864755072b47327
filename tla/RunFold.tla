------------------------------ MODULE RunFold ------------------------------
(***************************************************************************)
(* What each event of a run's log does to the derived state of the run:    *)
(* crates/kernos-core/src/fold.rs.  The kernel applies an event to the     *)
(* materialised state in the transaction that appends it, so an operation  *)
(* of the kernel is a composition of the operators below, in the order in  *)
(* which it appends.                                                       *)
(***************************************************************************)
EXTENDS RunTypes

----------------------------------------------------------------------------
\* Events about the run.

\* run.created, then step.scheduled for every step of the workflow.
RunCreated(b) ==
    [state |-> "running", bundle |-> b,
     step |-> [id \in StepIds |-> IF id[1] = 0 THEN FreshStep ELSE AbsentStep],
     compensation |-> [c \in Compensations |-> "none"], pending_approval |-> 0,
     abandoning |-> FALSE, unwinds |-> 0, park_reason |-> "none",
     needs_human |-> FALSE, used |-> [d \in Dims |-> 0],
     soft_hit |-> FALSE, exceeded |-> FALSE]

RunParked(r, reason) ==
    [r EXCEPT !.state = "parked", !.park_reason = reason,
              !.needs_human = @ \/ reason = "human"]

RunResumed(r) ==
    [r EXCEPT !.state = "running", !.park_reason = "none", !.needs_human = FALSE]

RunAbandoned(r) ==
    [r EXCEPT !.abandoning = TRUE, !.unwinds = @ + 1, !.park_reason = "none",
              !.pending_approval = 0,
              !.state = IF unwind_pending(r) THEN "running" ELSE "abandoned"]

RunCompleted(r) == [r EXCEPT !.state = "completed", !.park_reason = "none"]

RunFailed(r, needs_human) ==
    [r EXCEPT !.state = "failed", !.needs_human = needs_human, !.park_reason = "none"]

----------------------------------------------------------------------------
\* Events about a step.

\* step.scheduled for every step of S: a step that is scheduled again starts over.
StepsScheduled(r, S) ==
    [r EXCEPT !.step = [id \in StepIds |-> IF id \in S THEN FreshStep ELSE r.step[id]]]

StepLeased(r, id, l) ==
    [r EXCEPT !.step[id] = [state |-> "leased", attempts |-> @.attempts + 1,
                            lease |-> l, not_before |-> 0]]

\* step.lease_expired for every step of S: the attempt stays counted.
StepLeasesExpired(r, S) ==
    [r EXCEPT !.step = [id \in StepIds |->
        IF id \in S THEN [r.step[id] EXCEPT !.state = "scheduled", !.lease = 0]
                    ELSE r.step[id]]]

StepCompleted(r, id) ==
    [r EXCEPT !.step[id] = [@ EXCEPT !.state = "completed", !.lease = 0, !.not_before = 0]]

StepFailed(r, id) ==
    [r EXCEPT !.step[id] = [@ EXCEPT !.state = "failed", !.lease = 0]]

StepRetryScheduled(r, id, delay) ==
    [r EXCEPT !.step[id] = [@ EXCEPT !.state = "scheduled", !.lease = 0, !.not_before = delay]]

StepQuarantined(r, id) ==
    [r EXCEPT !.step[id] = [@ EXCEPT !.state = "quarantined", !.lease = 0, !.not_before = 0]]

StepWaitingApproval(r, id) ==
    [r EXCEPT !.step[id] = [@ EXCEPT !.state = "waiting_approval", !.lease = 0]]

----------------------------------------------------------------------------
\* Events about approvals, the budget and compensations.

ApprovalRequested(r, a) == [r EXCEPT !.pending_approval = a]

ApprovalDecided(r, a) ==
    [r EXCEPT !.pending_approval = IF @ = a THEN 0 ELSE @]

UsageRecorded(r, usage) ==
    [r EXCEPT !.used = [d \in Dims |-> r.used[d] + usage[d]]]

BudgetSoftThreshold(r) == [r EXCEPT !.soft_hit = TRUE]

BudgetExceeded(r) == [r EXCEPT !.exceeded = TRUE]

\* compensation.scheduled and step.scheduled for every step of S, under the
\* number of the abandonment in progress.
CompensationsScheduled(r, S) ==
    [r EXCEPT
       !.compensation = [c \in Compensations |->
            IF c[1] = r.unwinds /\ c[2] \in S THEN "scheduled" ELSE r.compensation[c]],
       !.step = [id \in StepIds |->
            IF id[1] = r.unwinds /\ id[2] \in S THEN FreshStep ELSE r.step[id]],
       !.state = IF r.abandoning /\ @ = "abandoned" /\ S # {} THEN "running" ELSE @]

\* The search is by for_step, so with two entries for s the older one is set.
MarkCompensation(r, s, status) ==
    [r EXCEPT !.compensation = [c \in Compensations |->
        IF c[2] = s /\ FirstEntry(r, c) THEN status ELSE r.compensation[c]]]

CompensationCompleted(r, s) ==
    LET m == MarkCompensation(r, s, "completed")
    IN  [m EXCEPT !.state =
            IF m.abandoning /\ @ = "running" /\ ~unwind_pending(m) THEN "abandoned" ELSE @]

CompensationFailed(r, s) == MarkCompensation(r, s, "failed")
=============================================================================
