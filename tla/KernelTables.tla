---------------------------- MODULE KernelTables ---------------------------
(***************************************************************************)
(* The state of the kernel as far as one run is concerned, that is the     *)
(* materialised state of the run and the rows of the leases and approvals  *)
(* tables (crates/kernos-core/src/store.rs); the queries over them that    *)
(* crates/kernos-core/src/kernel.rs makes; and what its operations, which  *)
(* are the actions of KernelRun, keep true of them.                        *)
(***************************************************************************)
EXTENDS RunTypes, Sequences, FiniteSets

CONSTANTS
    Bundles,           \* the bundles a run may be started from: [Steps -> Declared]
    MaxDeterministic,  \* max_attempts_deterministic
    MaxAttempts,       \* max_attempts_nondeterministic
    Ceiling,           \* budget ceiling per dimension, Unlimited for none
    SoftNum, SoftDen,  \* soft_ratio
    Usages,            \* what a step may report to have used
    Actions,           \* actions a step may propose: [key, hash]
    LeaseTTL, SLA,     \* ticks a lease lives, ticks an approver has
    MaxLapses,         \* bound: leases whose time runs out
    MaxApprovals,      \* bound: approvals requested
    MaxResumes         \* bound: resumes by the operator

Unlimited == -1
NoUsage == <<>>
NoKey == "none"

ASSUME KernelAssumption ==
    /\ Bundles \subseteq [Steps -> Declared]
    /\ MaxDeterministic \in Nat
    /\ MaxAttempts \in Nat
    /\ Ceiling \in [Dims -> Nat \cup {Unlimited}]
    /\ SoftNum \in Nat
    /\ SoftDen \in Nat \ {0}
    /\ Usages \subseteq [Dims -> Nat]
    /\ LeaseTTL \in Nat \ {0}
    /\ SLA \in Nat \ {0}
    /\ MaxLapses \in Nat
    /\ MaxApprovals \in Nat
    /\ MaxResumes \in Nat

VARIABLES
    run,        \* the materialised state of the run
    leases,     \* rows of the leases table, in the order they were granted
    approvals,  \* rows of the approvals table, in the order they were requested
    resumes     \* how often the operator has resumed the run

vars == <<run, leases, approvals, resumes>>

LeaseStatus == {"active", "completed", "failed", "expired", "released"}
ApprovalStatus == {"pending", "approved", "rejected", "cancelled"}

LeaseRow == [step: StepIds, state: LeaseStatus, left: 0..LeaseTTL]
ApprovalRow == [step: StepIds, action: Actions, state: ApprovalStatus,
                escalations: {0, 1}, parked_human: BOOLEAN, left: 0..SLA]

----------------------------------------------------------------------------
\* Queries over the rows.

PendingApprovals == {a \in DOMAIN approvals : approvals[a].state = "pending"}

\* The comparison propose_action makes with an approval already granted.
SameAction(x, y) ==
    IF x.key # NoKey /\ y.key # NoKey THEN x.key = y.key ELSE x.hash = y.hash

\* Mutation: the idempotency key is not compared.
AlreadyApproved_ByHash(action) ==
    \E a \in DOMAIN approvals :
        approvals[a].state = "approved" /\ approvals[a].action.hash = action.hash

AlreadyApproved(action) ==
    \E a \in DOMAIN approvals :
        approvals[a].state = "approved" /\ SameAction(action, approvals[a].action)

\* Mutation: compensations are appended from the first step to the last.
Earlier_FirstToLast(e, id) ==
    IF IsCompensation(id)
      THEN IsCompensation(e) /\ (e[1] < id[1] \/ (e[1] = id[1] /\ e[2] < id[2]))
      ELSE e[1] = 0 /\ e[2] < id[2]

\* Both are steps of the workflow or both compensations, and e has the lower index.
\* One abandonment appends its compensations from the last step to the first.
Earlier(e, id) ==
    IF IsCompensation(id)
      THEN IsCompensation(e) /\ (e[1] < id[1] \/ (e[1] = id[1] /\ e[2] > id[2]))
      ELSE e[1] = 0 /\ e[2] < id[2]

Live(l) == leases[l].state = "active" /\ leases[l].left > 0
Lapsed(l) == leases[l].state = "active" /\ leases[l].left = 0

\* leased_run: the step is leased, and under this lease.
Held(l) ==
    /\ run.step[leases[l].step].state = "leased"
    /\ run.step[leases[l].step].lease = l

----------------------------------------------------------------------------
\* Queries over the run.

OverCeiling(used) == \E d \in Dims : Ceiling[d] # Unlimited /\ used[d] > Ceiling[d]

ReachesSoft(used) ==
    \E d \in Dims : /\ Ceiling[d] # Unlimited
                    /\ Ceiling[d] > 0
                    /\ used[d] * SoftDen >= SoftNum * Ceiling[d]

WorkflowDone(r) == \A id \in Workflow : r.step[id].state = "completed"

\* Mutation: a step whose compensation failed counts as compensated.
ToCompensate_OnlyOnce(r) ==
    {s \in Steps : /\ r.step[<<0, s>>].state = "completed"
                   /\ r.bundle[s] # "none"
                   /\ \A b \in 1..MaxUnwinds : r.compensation[<<b, s>>] = "none"}

\* Completed steps that declare a compensation and have no entry but failed ones.
ToCompensate(r) ==
    {s \in Steps : /\ r.step[<<0, s>>].state = "completed"
                   /\ r.bundle[s] # "none"
                   /\ \A b \in 1..MaxUnwinds : r.compensation[<<b, s>>] \in {"none", "failed"}}

----------------------------------------------------------------------------
\* Correctness.

TypeOK ==
    /\ run \in RunState
    /\ leases \in Seq(LeaseRow)
    /\ approvals \in Seq(ApprovalRow)
    /\ resumes \in Nat

\* The leases table and the fold agree: an active lease belongs to a running run and
\* to the step leased under it, a compensation exactly when the run is unwinding, and
\* there is only one.  The "no longer holds" branch of leased_run is never taken.
ActiveLeaseHeld ==
    \A l \in DOMAIN leases : leases[l].state = "active" =>
        /\ run.state = "running"
        /\ Held(l)
        /\ run.abandoning <=> IsCompensation(leases[l].step)
        /\ \A m \in DOMAIN leases : leases[m].state = "active" => m = l

Begun(id) == run.step[id].attempts > 0 \/ run.step[id].state \notin {"absent", "scheduled"}

\* pick_runnable never lets a step start before the ones ahead of it: whatever
\* expires, is retried, resumed or approved in between, a step that was ever leased
\* has every earlier step of its kind completed, so compensations run last to first.
StepsInOrder ==
    \A id \in StepIds : Begun(id) =>
        \A e \in StepIds : Earlier(e, id) => run.step[e].state \in {"absent", "completed"}

\* complete takes effect exactly once: a completed step has exactly one lease that
\* ended in completion, and no other step has one, whoever reports late or twice.
CompletedOnce ==
    \A id \in StepIds :
        LET wins == {l \in DOMAIN leases : leases[l].step = id /\ leases[l].state = "completed"}
        IN  IF run.step[id].state = "completed" THEN \E l \in DOMAIN leases : wins = {l}
            ELSE wins = {}

\* The approvals table, the fold and the step agree: at most one approval is pending,
\* it is the one the run is parked on, and its step waits, a compensation exactly when
\* the run is unwinding; no run parked for an approval or a human lacks one to decide.
OneApprovalPending ==
    /\ \A a \in PendingApprovals :
          /\ run.pending_approval = a
          /\ run.state = "parked"
          /\ run.park_reason = IF approvals[a].parked_human THEN "human" ELSE "approval"
          /\ run.step[approvals[a].step].state = "waiting_approval"
          /\ run.abandoning <=> IsCompensation(approvals[a].step)
    /\ run.pending_approval # 0 => run.pending_approval \in PendingApprovals
    /\ run.park_reason \in {"approval", "human"} => run.pending_approval # 0

\* A step an approver was asked about completes only after every approval requested
\* for it was granted: none is left pending, was rejected or cancelled.
ApprovedBeforeCompletion ==
    \A a \in DOMAIN approvals :
        run.step[approvals[a].step].state = "completed" => approvals[a].state = "approved"

\* propose_action never asks again for an action this run already has approved,
\* however often the step is leased and proposes it.
NeverAskedTwice ==
    \A a, b \in DOMAIN approvals :
        a < b /\ approvals[a].state = "approved" =>
            ~SameAction(approvals[b].action, approvals[a].action)

\* complete stops the run when its spend passes a ceiling: from then on no step of
\* the workflow is leased, and only abandoning moves the run.  A ceiling that is not
\* zero has been announced by the soft threshold before.
BudgetStops ==
    OverCeiling(run.used) =>
        /\ ~run.abandoning =>
              \/ run.state = "completed"
              \/ run.state = "parked" /\ run.park_reason = "budget"
        /\ SoftNum <= SoftDen /\ (\A d \in Dims : Ceiling[d] # 0) => run.soft_hit

\* The most attempts fail allows a step: it may alternate between the two kinds of
\* failure, and the first attempt is made whatever the limits are.
AttemptCap ==
    IF MaxDeterministic > MaxAttempts THEN MaxDeterministic
    ELSE IF MaxAttempts > 0 THEN MaxAttempts ELSE 1

Lapses(id) == {l \in DOMAIN leases : leases[l].step = id /\ leases[l].state = "expired"}

\* fail gives up on a step after AttemptCap attempts; only a lease that lapsed
\* allows one more.
AttemptsAccounted ==
    \A id \in StepIds : run.step[id].attempts <= AttemptCap + Cardinality(Lapses(id))

\* An abandoned run has been unwound: every completed step that declares a
\* compensation has one that completed.
AbandonedIsUnwound ==
    run.state = "abandoned" =>
        /\ ~unwind_pending(run)
        /\ \A s \in Steps :
              run.step[<<0, s>>].state = "completed" /\ run.bundle[s] # "none" =>
                  \E b \in 1..MaxUnwinds : run.step[<<b, s>>].state = "completed"

----------------------------------------------------------------------------
\* The inductive invariant behind the theorems of KernelRunProofs.

\* What the fields of the folded state say of each other.
FoldConsistent ==
    /\ run.state = "none" =>
          /\ leases = <<>> /\ approvals = <<>> /\ run.unwinds = 0
          /\ \A id \in StepIds : run.step[id].state = "absent"
    /\ run.state = "parked" <=> run.park_reason # "none"
    /\ run.abandoning => run.park_reason \in {"none", "approval", "human"}
    /\ run.abandoning <=> run.unwinds > 0
    /\ \A id \in StepIds :
          /\ run.step[id].state = "leased" <=> run.step[id].lease # 0
          /\ run.step[id].state = "absent" => run.step[id].attempts = 0
          /\ id[1] > run.unwinds => run.step[id].state = "absent"

\* No action breaks the conjunction, though each conjunct needs the others.
IndInv ==
    /\ TypeOK
    /\ FoldConsistent
    /\ ActiveLeaseHeld
    /\ StepsInOrder
    /\ OneApprovalPending

\* What no step of the system takes back: a completed step, the end of a run, and
\* the workflow of a run that is being abandoned.
Lasting ==
    /\ \A id \in StepIds : run.step[id].state = "completed" => run'.step[id].state = "completed"
    /\ run.state \in {"completed", "abandoned"} => run'.state = run.state
    /\ run.abandoning => \A id \in Workflow : run'.step[id].state = run.step[id].state

\* A step that may be leased again has an attempt left.
AttemptsLeft ==
    \A id \in StepIds : run.step[id].state = "scheduled" =>
        run.step[id].attempts < AttemptCap + Cardinality(Lapses(id))

\* An approval is requested only when none is pending, so the pending one is the last.
PendingIsLast == \A a \in PendingApprovals, b \in DOMAIN approvals : b <= a

\* A budget is marked as exceeded by nothing but a spend above a ceiling.
ExceededIsOver == run.exceeded => OverCeiling(run.used)

\* Steps of the workflow exist from the start of the run.
WorkflowScheduled == run.state # "none" => \A id \in Workflow : run.step[id].state # "absent"

\* The entries of the fold's compensations and the steps that carry them out agree.
\* An entry exists for a completed step whose compensation resolves; only entries of
\* the abandonment in progress are open, and an older entry of the same step failed.
CompensationsAgree ==
    \A c \in Compensations :
        /\ run.compensation[c] = "none" <=> run.step[c].state = "absent"
        /\ run.compensation[c] = "completed" <=> run.step[c].state = "completed"
        /\ run.compensation[c] = "failed" <=> run.step[c].state = "quarantined"
        /\ run.compensation[c] = "scheduled" => c[1] = run.unwinds
        /\ run.compensation[c] # "none" =>
              /\ run.bundle[c[2]] = "resolves"
              /\ \A b \in 1..(c[1] - 1) : run.compensation[<<b, c[2]>>] \in {"none", "failed"}

\* Unless it failed, a run being abandoned covers every step it has to undo, and it
\* counts as abandoned only once nothing is left to do.
UnwindCovers ==
    /\ run.abandoning /\ run.state # "failed" =>
          \A s \in Steps :
              run.step[<<0, s>>].state = "completed" /\ run.bundle[s] # "none" =>
                  \E b \in 1..MaxUnwinds : run.compensation[<<b, s>>] \in {"scheduled", "completed"}
    /\ run.state = "abandoned" => run.abandoning /\ ~unwind_pending(run)

\* An approval that was refused or cancelled ends the work it was asked for: the run
\* failed or, for a step of the workflow, is being abandoned.
RefusalStops ==
    \A a \in DOMAIN approvals : approvals[a].state \in {"rejected", "cancelled"} =>
        /\ run.step[approvals[a].step].state # "completed"
        /\ IF IsCompensation(approvals[a].step)
             THEN run.state = "failed" /\ run.step[approvals[a].step].state = "failed"
             ELSE run.state = "failed" \/ run.abandoning

\* Everything the theorems rest on.
FullInv ==
    /\ IndInv
    /\ CompletedOnce
    /\ AttemptsAccounted /\ AttemptsLeft
    /\ NeverAskedTwice /\ PendingIsLast
    /\ BudgetStops /\ ExceededIsOver
    /\ WorkflowScheduled /\ CompensationsAgree /\ UnwindCovers
    /\ RefusalStops

----------------------------------------------------------------------------
\* The run as a saga.

CompletedSteps == {s \in Steps : run.step[<<0, s>>].state = "completed"}
OwedSteps == {s \in Steps : \E b \in 1..MaxUnwinds : run.compensation[<<b, s>>] = "scheduled"}

Promise == INSTANCE Saga WITH
    status <- run.state, done <- CompletedSteps, owed <- OwedSteps
=============================================================================
