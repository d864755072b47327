----------------------------- MODULE KernelRun -----------------------------
(***************************************************************************)
(* The life of one run in the kernel: crates/kernos-core/src/kernel.rs and *)
(* the tables of store.rs it reads and writes.  Every operation runs under *)
(* the kernel's mutex in one SQLite transaction, so it is one action.      *)
(* Workers, operators, approvers and the two sweepers interleave freely,   *)
(* and a worker may report under any lease it was ever given, however old. *)
(*                                                                         *)
(* Other runs only change which run a call of lease serves, so one run is  *)
(* enough; the step kinds a worker asks for only make a call return None.  *)
(* Clocks are countdowns: left is the time before a lease expires or an    *)
(* approval is due, not_before the time before a step may run again.       *)
(***************************************************************************)
EXTENDS RunFold, KernelTables

NoRun == [RunCreated([s \in Steps |-> "none"]) EXCEPT
            !.state = "none", !.step = [id \in StepIds |-> AbsentStep]]

----------------------------------------------------------------------------
\* Rows and the queries over them.

NewLease(id) == [step |-> id, state |-> "active", left |-> LeaseTTL]

\* end_lease; nothing reads the clock of a lease that has ended.
EndLease(l, status) == [leases EXCEPT ![l] = [@ EXCEPT !.state = status, !.left = 0]]

NewApproval(id, action) ==
    [step |-> id, action |-> action, state |-> "pending",
     escalations |-> 0, parked_human |-> FALSE, left |-> SLA]

\* Mutation: earlier steps are not looked at.
Runnable_AnyStep(id) ==
    /\ run.state = "running"
    /\ run.step[id].state = "scheduled"
    /\ run.step[id].not_before = 0
    /\ run.abandoning <=> IsCompensation(id)

\* pick_runnable.  At most one step of a run qualifies, since of two the later one
\* has an earlier step that is not completed.
Runnable(id) ==
    /\ run.state = "running"
    /\ run.step[id].state = "scheduled"
    /\ run.step[id].not_before = 0
    /\ run.abandoning <=> IsCompensation(id)
    /\ \A e \in StepIds : Earlier(e, id) => run.step[e].state \in {"absent", "completed"}

----------------------------------------------------------------------------
\* Starting and leasing.

StartRun(b) ==
    /\ run.state = "none"
    /\ run' = RunCreated(b)
    /\ UNCHANGED <<leases, approvals, resumes>>

Lease(id) ==
    /\ Runnable(id)
    /\ run' = StepLeased(run, id, Len(leases) + 1)
    /\ leases' = Append(leases, NewLease(id))
    /\ UNCHANGED <<approvals, resumes>>

\* Mutation: the lease ends but its step is not rescheduled.
Expire_KeepsStep(S) ==
    /\ leases' = [l \in DOMAIN leases |->
                    IF l \in S THEN [leases[l] EXCEPT !.state = "expired"] ELSE leases[l]]
    /\ UNCHANGED <<run, approvals, resumes>>

\* expire_lease for every lease of S: the step is rescheduled if it is leased under it.
Expire(S) ==
    /\ run' = StepLeasesExpired(run,
                {id \in StepIds : \E l \in S : leases[l].step = id /\ run.step[id].lease = l})
    /\ leases' = [l \in DOMAIN leases |->
                    IF l \in S THEN [leases[l] EXCEPT !.state = "expired"] ELSE leases[l]]
    /\ UNCHANGED <<approvals, resumes>>

\* A heartbeat, a report or a proposal under a lease whose time has run out
\* expires it on the spot and is refused.
CallUnderLapsedLease(l) == Lapsed(l) /\ Expire({l})

SweepLeases ==
    LET S == {l \in DOMAIN leases : Lapsed(l)}
    IN  S # {} /\ Expire(S)

Heartbeat(l) ==
    /\ Live(l)
    /\ leases' = [leases EXCEPT ![l].left = LeaseTTL]
    /\ UNCHANGED <<run, approvals, resumes>>

\* leased_run when the lease is active and the step is not leased under it.
ReleaseStray(l) ==
    /\ leases' = EndLease(l, "released")
    /\ UNCHANGED <<run, approvals, resumes>>

----------------------------------------------------------------------------
\* Reporting success.

\* usage.recorded and, the first time the ratio is reached, budget.soft_threshold.
RecordUsage(r, usage) ==
    IF usage = NoUsage THEN r
    ELSE LET u == UsageRecorded(r, usage)
         IN  IF ~r.soft_hit /\ ReachesSoft(u.used) THEN BudgetSoftThreshold(u) ELSE u

\* Mutation: the ceiling is compared with the spend before this step.
AfterCompletion_StaleSpend(r, id, usage) ==
    IF IsCompensation(id) THEN CompensationCompleted(r, id[2])
    ELSE IF WorkflowDone(r) THEN RunCompleted(r)
    ELSE IF usage # NoUsage /\ OverCeiling(run.used) /\ ~r.exceeded
      THEN RunParked(BudgetExceeded(r), "budget")
    ELSE r

\* What follows the step's own events in complete.
AfterCompletion(r, id, usage) ==
    IF IsCompensation(id) THEN CompensationCompleted(r, id[2])
    ELSE IF WorkflowDone(r) THEN RunCompleted(r)
    ELSE IF usage # NoUsage /\ OverCeiling(r.used) /\ ~r.exceeded
      THEN RunParked(BudgetExceeded(r), "budget")
    ELSE r

CompleteHeld(l, usage) ==
    LET id == leases[l].step
    IN  /\ run' = AfterCompletion(RecordUsage(StepCompleted(run, id), usage), id, usage)
        /\ leases' = EndLease(l, "completed")
        /\ UNCHANGED <<approvals, resumes>>

\* Mutation: a lease that expired may still report success.
Complete_AfterExpiry(l, usage) ==
    leases[l].state \in {"active", "expired"} /\ CompleteHeld(l, usage)

Complete(l, usage) ==
    /\ Live(l)
    /\ IF Held(l) THEN CompleteHeld(l, usage) ELSE ReleaseStray(l)

----------------------------------------------------------------------------
\* Reporting failure.

ErrorCodes == {"model_refused", "connector_quarantined", "other"}

AttemptLimit(deterministic) == IF deterministic THEN MaxDeterministic ELSE MaxAttempts

\* Mutation: one attempt too many before the step is quarantined.
AfterFailure_OffByOne(r, id, code, deterministic) ==
    IF code = "model_refused" /\ ~IsCompensation(id) THEN RunParked(r, "refusal")
    ELSE IF r.step[id].attempts > AttemptLimit(deterministic)
      THEN LET q == StepQuarantined(r, id)
           IN  IF IsCompensation(id) THEN RunFailed(CompensationFailed(q, id[2]), TRUE)
               ELSE RunParked(q, IF code = "connector_quarantined"
                                   THEN "connector_quarantined" ELSE "quarantine")
    ELSE StepRetryScheduled(r, id, IF deterministic THEN 0 ELSE Backoff)

\* What follows step.failed in fail.
AfterFailure(r, id, code, deterministic) ==
    IF code = "model_refused" /\ ~IsCompensation(id) THEN RunParked(r, "refusal")
    ELSE IF r.step[id].attempts >= AttemptLimit(deterministic)
      THEN LET q == StepQuarantined(r, id)
           IN  IF IsCompensation(id) THEN RunFailed(CompensationFailed(q, id[2]), TRUE)
               ELSE RunParked(q, IF code = "connector_quarantined"
                                   THEN "connector_quarantined" ELSE "quarantine")
    ELSE StepRetryScheduled(r, id, IF deterministic THEN 0 ELSE Backoff)

\* Mutation: the lease is not ended.
FailHeld_KeepsLease(l, code, deterministic) ==
    LET id == leases[l].step
    IN  /\ run' = AfterFailure(StepFailed(run, id), id, code, deterministic)
        /\ UNCHANGED <<leases, approvals, resumes>>

FailHeld(l, code, deterministic) ==
    LET id == leases[l].step
    IN  /\ run' = AfterFailure(StepFailed(run, id), id, code, deterministic)
        /\ leases' = EndLease(l, "failed")
        /\ UNCHANGED <<approvals, resumes>>

Fail(l, code, deterministic) ==
    /\ Live(l)
    /\ IF Held(l) THEN FailHeld(l, code, deterministic) ELSE ReleaseStray(l)

----------------------------------------------------------------------------
\* Actions and approvals.

RequestApproval(l, action) ==
    LET id == leases[l].step
        a  == Len(approvals) + 1
    IN  /\ run' = RunParked(StepWaitingApproval(ApprovalRequested(run, a), id), "approval")
        /\ leases' = EndLease(l, "released")
        /\ approvals' = Append(approvals, NewApproval(id, action))
        /\ UNCHANGED resumes

\* A proposal the policies answer with approval_required.  One they allow or deny,
\* and one that an approval of this run already covers, is recorded and leaves the
\* lease, the step and the run as they are.
ProposeAction(l, action) ==
    /\ Live(l)
    /\ Len(approvals) < MaxApprovals
    /\ ~AlreadyApproved(action)
    /\ IF Held(l) THEN RequestApproval(l, action) ELSE ReleaseStray(l)

\* Mutation: a rejected step is put back to work like an approved one.
DecideApproval_AlwaysResumes(a, decision) ==
    /\ approvals[a].state = "pending"
    /\ run' = StepsScheduled(RunResumed(ApprovalDecided(run, a)), {approvals[a].step})
    /\ approvals' = [approvals EXCEPT ![a] = [@ EXCEPT !.state = decision, !.left = 0]]
    /\ UNCHANGED <<leases, resumes>>

\* decide_approval by an actor the approval accepts.
DecideApproval(a, decision) ==
    LET id == approvals[a].step
        r  == ApprovalDecided(run, a)
        resumed == IF r.state = "parked" THEN RunResumed(r) ELSE r
    IN  /\ approvals[a].state = "pending"
        /\ run' = IF decision = "approved" THEN StepsScheduled(resumed, {id})
                  ELSE RunFailed(StepFailed(r, id), FALSE)
        /\ approvals' = [approvals EXCEPT ![a] = [@ EXCEPT !.state = decision, !.left = 0]]
        /\ UNCHANGED <<leases, resumes>>

\* Mutation: escalations are not counted, so every deadline escalates again.
SweepApprovals_Uncounted ==
    LET Overdue == {a \in PendingApprovals : approvals[a].left = 0}
    IN  /\ Overdue # {}
        /\ approvals' = [a \in DOMAIN approvals |->
              IF a \in Overdue THEN [approvals[a] EXCEPT !.left = SLA] ELSE approvals[a]]
        /\ UNCHANGED <<run, leases, resumes>>

\* An overdue approval is escalated once, with a new deadline; the second time its
\* run is parked for a human and the sweeper leaves it alone.
SweepApprovals ==
    LET Overdue == {a \in PendingApprovals : approvals[a].left = 0 /\ ~approvals[a].parked_human}
        Twice == {a \in Overdue : approvals[a].escalations > 0}
    IN  /\ Overdue # {}
        /\ run' = IF Twice # {} THEN RunParked(run, "human") ELSE run
        /\ approvals' = [a \in DOMAIN approvals |->
              IF a \in Twice THEN [approvals[a] EXCEPT !.parked_human = TRUE]
              ELSE IF a \in Overdue THEN [approvals[a] EXCEPT !.escalations = 1, !.left = SLA]
              ELSE approvals[a]]
        /\ UNCHANGED <<leases, resumes>>

----------------------------------------------------------------------------
\* The operator.

\* What follows run.abandoned in abandon.  A compensation whose arguments do not
\* resolve gets compensation.failed and no step, and fails the run at the end.
Unwind(r) ==
    LET resolved == {s \in ToCompensate(r) : r.bundle[s] = "resolves"}
        failed   == ToCompensate(r) \ resolved
        marked   == [r EXCEPT !.compensation = [c \in Compensations |->
                        IF c[2] \in failed /\ FirstEntry(r, c) THEN "failed"
                        ELSE r.compensation[c]]]
        unwound  == CompensationsScheduled(marked, resolved)
    IN  IF failed = {} THEN unwound ELSE RunFailed(unwound, TRUE)

\* Mutation: the workers' leases are left alone.
Abandon_KeepsLeases ==
    /\ run.state \in {"running", "parked", "failed"}
    /\ ~unwind_pending(run)
    /\ run.unwinds < MaxUnwinds
    /\ run' = Unwind(RunAbandoned(run))
    /\ approvals' = [a \in DOMAIN approvals |->
          IF approvals[a].state = "pending"
            THEN [approvals[a] EXCEPT !.state = "cancelled", !.left = 0] ELSE approvals[a]]
    /\ UNCHANGED <<leases, resumes>>

\* Mutation: pending approvals are left open.
Abandon_KeepsApprovals ==
    /\ run.state \in {"running", "parked", "failed"}
    /\ ~unwind_pending(run)
    /\ run.unwinds < MaxUnwinds
    /\ run' = Unwind(RunAbandoned(run))
    /\ leases' = [l \in DOMAIN leases |->
          IF leases[l].state = "active"
            THEN [leases[l] EXCEPT !.state = "released", !.left = 0] ELSE leases[l]]
    /\ UNCHANGED <<approvals, resumes>>

Abandon ==
    /\ run.state \in {"running", "parked", "failed"}
    /\ ~unwind_pending(run)
    /\ run.unwinds < MaxUnwinds
    /\ run' = Unwind(RunAbandoned(run))
    /\ leases' = [l \in DOMAIN leases |->
          IF leases[l].state = "active"
            THEN [leases[l] EXCEPT !.state = "released", !.left = 0] ELSE leases[l]]
    /\ approvals' = [a \in DOMAIN approvals |->
          IF approvals[a].state = "pending"
            THEN [approvals[a] EXCEPT !.state = "cancelled", !.left = 0] ELSE approvals[a]]
    /\ UNCHANGED resumes

\* Mutation: the whole workflow is scheduled again.
Resume_FromStart ==
    /\ run.state = "parked"
    /\ run.park_reason \in {"human", "connector_quarantined", "quarantine", "refusal"}
    /\ PendingApprovals = {}
    /\ resumes < MaxResumes
    /\ run' = StepsScheduled(RunResumed(run), Workflow)
    /\ resumes' = resumes + 1
    /\ UNCHANGED <<leases, approvals>>

Resume ==
    /\ run.state = "parked"
    /\ run.park_reason \in {"human", "connector_quarantined", "quarantine", "refusal"}
    /\ PendingApprovals = {}
    /\ resumes < MaxResumes
    /\ run' = StepsScheduled(RunResumed(run),
                {id \in Workflow : run.step[id].state \in {"quarantined", "failed"}})
    /\ resumes' = resumes + 1
    /\ UNCHANGED <<leases, approvals>>

----------------------------------------------------------------------------
\* The passage of time.

LapsedSoFar ==
    Cardinality({l \in DOMAIN leases : leases[l].state = "expired" \/ Lapsed(l)})

LeaseElapse(l) ==
    /\ Live(l)
    /\ leases[l].left = 1 => LapsedSoFar < MaxLapses
    /\ leases' = [leases EXCEPT ![l].left = @ - 1]
    /\ UNCHANGED <<run, approvals, resumes>>

ApprovalElapse(a) ==
    /\ approvals[a].state = "pending"
    /\ approvals[a].left > 0
    /\ approvals' = [approvals EXCEPT ![a].left = @ - 1]
    /\ UNCHANGED <<run, leases, resumes>>

BackoffElapse(id) ==
    /\ run.step[id].not_before > 0
    /\ run' = [run EXCEPT !.step[id].not_before = @ - 1]
    /\ UNCHANGED <<leases, approvals, resumes>>

----------------------------------------------------------------------------
\* The specification.

Init ==
    /\ run = NoRun
    /\ leases = <<>>
    /\ approvals = <<>>
    /\ resumes = 0

\* A worker that still holds its lease reports.
Report(l) ==
    \/ \E usage \in Usages \cup {NoUsage} : Complete(l, usage)
    \/ \E code \in ErrorCodes, deterministic \in BOOLEAN : Fail(l, code, deterministic)
    \/ \E action \in Actions : ProposeAction(l, action)

Next ==
    \/ \E b \in Bundles : StartRun(b)
    \/ \E id \in StepIds : Lease(id) \/ BackoffElapse(id)
    \/ \E l \in DOMAIN leases :
          \/ Report(l)
          \/ Heartbeat(l)
          \/ CallUnderLapsedLease(l)
          \/ LeaseElapse(l)
    \/ SweepLeases
    \/ \E a \in DOMAIN approvals :
          \/ \E decision \in {"approved", "rejected"} : DecideApproval(a, decision)
          \/ ApprovalElapse(a)
    \/ SweepApprovals
    \/ Abandon
    \/ Resume

Spec == Init /\ [][Next]_vars

\* Workers keep polling and a worker whose lease does not lapse reports; the
\* sweepers run on a timer and only log their errors; time passes.  Nobody is
\* assumed to start, decide, abandon or resume anything.
Fairness ==
    /\ WF_vars(\E id \in StepIds : Lease(id))
    /\ WF_vars(\E id \in StepIds : BackoffElapse(id))
    /\ WF_vars(\E l \in DOMAIN leases : Report(l))
    /\ WF_vars(SweepLeases)
    /\ WF_vars(\E a \in DOMAIN approvals : ApprovalElapse(a))
    /\ WF_vars(SweepApprovals)

FairSpec == Spec /\ Fairness
----------------------------------------------------------------------------
\* Correctness.

\* A compensation of an earlier unwind that was given up.  The compensations of a
\* later unwind have higher indexes, and pick_runnable makes them wait for it.
UnwindBlocked ==
    \E c \in Compensations : c[1] < run.unwinds /\ run.step[c].state = "quarantined"

\* Once a run is being abandoned no step of its workflow moves any more: a late
\* report, a swept lease or a decided approval cannot bring the workflow back.
WorkflowFrozen ==
    [][run.abandoning => \A id \in Workflow : run'.step[id].state = run.step[id].state]_vars

\* What took effect stays: a completed step stays completed, and a run that has
\* completed or was abandoned does not change.
EffectsArePermanent ==
    [][/\ \A id \in StepIds : run.step[id].state = "completed" => run'.step[id].state = "completed"
       /\ run.state \in {"completed", "abandoned"} => run'.state = run.state]_vars

\* A run that is running eventually stops: it completes, parks, fails or is abandoned,
\* if only finitely many leases lapse.  A blocked unwind is the one exception.
RunSettles == run.state = "running" ~> (run.state # "running" \/ UnwindBlocked)

\* An approval nobody answers reaches a human: it is escalated, then parks the run.
ApprovalReachesHuman ==
    \A a \in 1..MaxApprovals :
        a \in PendingApprovals ~> a \notin PendingApprovals \/ approvals[a].parked_human

----------------------------------------------------------------------------
\* What the documentation says of a run and the code does not do.

\* docs/reference/kernel-api.md: resume resumes a run parked for human.  resume refuses
\* it while an approval is pending.
HumanParkResumes ==
    run.state = "parked" /\ run.park_reason = "human" => PendingApprovals = {}

\* The kernel's operations implement the saga of module Saga.
ImplementsSaga == Promise!Spec
=============================================================================
