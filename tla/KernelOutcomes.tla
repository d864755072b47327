--------------------------- MODULE KernelOutcomes ---------------------------
(***************************************************************************)
(* What a step of KernelRun can come to, said of the state that its        *)
(* invariants read: each way a report, a grant, a sweep, a decision, a     *)
(* resume, a start or an abandonment can end, with what it moves and what  *)
(* it leaves alone.  KernelRunProofs shows that there is no other way      *)
(* (NextOutcomes), and OutcomeProofs what survives all of them.            *)
(***************************************************************************)
EXTENDS KernelTables

\* The compensations and the bundle, and the budget, are as they were.
SameEntries(r, q) == q.compensation = r.compensation /\ q.bundle = r.bundle
SameAccounts(r, q) == q.used = r.used /\ q.soft_hit = r.soft_hit /\ q.exceeded = r.exceeded
Framed(r, q) == SameEntries(r, q) /\ SameAccounts(r, q)

\* Row l of the leases table ends as st and no other row changes.
LeaseEnded(l, st) ==
    /\ DOMAIN leases' = DOMAIN leases
    /\ leases'[l].state = st /\ leases'[l].step = leases[l].step
    /\ \A m \in DOMAIN leases \ {l} : leases'[m] = leases[m]

\* Step id is now in status st, and no other step moves.
StepMoves(id, st) ==
    /\ run'.step[id].state = st
    /\ \A e \in StepIds \ {id} : run'.step[e] = run.step[e]
    /\ run'.abandoning = run.abandoning
    /\ run'.unwinds = run.unwinds

\* A worker's report ends lease l as st and takes its step from leased to x.
Reported(l, st, x) ==
    /\ leases[l].step \in StepIds
    /\ leases[l].state = "active"
    /\ run.state = "running"
    /\ run.step[leases[l].step].state = "leased"
    /\ run.abandoning <=> IsCompensation(leases[l].step)
    /\ LeaseEnded(l, st)
    /\ StepMoves(leases[l].step, x)
    /\ run'.step[leases[l].step].attempts = run.step[leases[l].step].attempts

\* What complete does to the budget: q is r with usage added.
Spent(r, q, usage) ==
    /\ usage = NoUsage => q.used = r.used
    /\ \A d \in Dims : q.used[d] >= r.used[d]
    /\ r.soft_hit => q.soft_hit
    /\ usage # NoUsage /\ ReachesSoft(q.used) => q.soft_hit

\* The entry of compensation id is now st, and no other entry moves.
EntryMoves(id, st) ==
    /\ run'.compensation[id] = st
    /\ \A c \in Compensations \ {id} : run'.compensation[c] = run.compensation[c]
    /\ run'.bundle = run.bundle

\* The three things fail does: the step is tried again, the run parks, or a
\* compensation is given up and the run fails.
FailRetries(l) ==
    /\ UNCHANGED approvals
    /\ Reported(l, "failed", "scheduled") /\ Framed(run, run') /\ run'.state = "running"
    /\ run.step[leases[l].step].attempts < AttemptCap

FailParks(l) ==
    /\ UNCHANGED approvals
    /\ \E x \in {"failed", "quarantined"} : Reported(l, "failed", x)
    /\ ~IsCompensation(leases[l].step) /\ Framed(run, run') /\ run'.state = "parked"

FailLoses(l) ==
    /\ UNCHANGED approvals
    /\ Reported(l, "failed", "quarantined") /\ IsCompensation(leases[l].step)
    /\ EntryMoves(leases[l].step, "failed") /\ SameAccounts(run, run')
    /\ run'.state = "failed"

\* Nothing FullInv reads changes: clocks move, or an approval is escalated.
Quiet ==
    /\ run'.state = run.state
    /\ run'.park_reason = "budget" <=> run.park_reason = "budget"
    /\ run'.abandoning = run.abandoning
    /\ run'.unwinds = run.unwinds
    /\ \A id \in StepIds : /\ run'.step[id].state = run.step[id].state
                           /\ run'.step[id].attempts = run.step[id].attempts
    /\ Framed(run, run')
    /\ DOMAIN leases' = DOMAIN leases
    /\ \A l \in DOMAIN leases : /\ leases'[l].state = leases[l].state
                                /\ leases'[l].step = leases[l].step
    /\ DOMAIN approvals' = DOMAIN approvals
    /\ \A a \in DOMAIN approvals : /\ approvals'[a].state = approvals[a].state
                                   /\ approvals'[a].step = approvals[a].step
                                   /\ approvals'[a].action = approvals[a].action

\* Step id is leased, under a new row.
Granted(id) ==
    /\ run.state = "running" /\ run'.state = "running"
    /\ run.step[id].state = "scheduled"
    /\ StepMoves(id, "leased") /\ run'.step[id].attempts = run.step[id].attempts + 1
    /\ Framed(run, run') /\ UNCHANGED approvals
    /\ DOMAIN leases' = DOMAIN leases \cup {Len(leases) + 1}
    /\ \A m \in DOMAIN leases : leases'[m] = leases[m]
    /\ leases'[Len(leases) + 1].state = "active"

\* The leases of S expire and the steps of T, leased under them, are rescheduled.
Expired(S, T) ==
    /\ run'.state = run.state /\ run'.park_reason = run.park_reason
    /\ run'.abandoning = run.abandoning /\ run'.unwinds = run.unwinds
    /\ \A id \in T : /\ run.step[id].state = "leased" /\ run'.step[id].state = "scheduled"
                     /\ run'.step[id].attempts = run.step[id].attempts
                     /\ \E l \in S : leases[l].step = id
    /\ \A id \in StepIds \ T : run'.step[id] = run.step[id]
    /\ Framed(run, run') /\ UNCHANGED approvals
    /\ DOMAIN leases' = DOMAIN leases
    /\ \A l \in S : /\ leases[l].state = "active" /\ leases'[l].state = "expired"
                    /\ leases'[l].step = leases[l].step
    /\ \A l \in DOMAIN leases \ S : leases'[l] = leases[l]

\* A proposal parks the run on a new approval for the step.
Asked(l, action) ==
    /\ Reported(l, "released", "waiting_approval") /\ Framed(run, run')
    /\ run'.state = "parked" /\ run'.park_reason = "approval"
    /\ ~AlreadyApproved(action)
    /\ DOMAIN approvals' = DOMAIN approvals \cup {Len(approvals) + 1}
    /\ \A a \in DOMAIN approvals : approvals'[a] = approvals[a]
    /\ approvals'[Len(approvals) + 1].state = "pending"
    /\ approvals'[Len(approvals) + 1].step = leases[l].step
    /\ approvals'[Len(approvals) + 1].action = action

\* A decision takes the waiting step back to work, afresh, or fails it and the run.
Decided(a, decision) ==
    /\ a \in PendingApprovals /\ approvals[a].step \in StepIds
    /\ run.state = "parked" /\ run.park_reason # "budget"
    /\ run.step[approvals[a].step].state = "waiting_approval"
    /\ run.abandoning <=> IsCompensation(approvals[a].step)
    /\ IF decision = "approved"
         THEN /\ run'.state = "running" /\ StepMoves(approvals[a].step, "scheduled")
              /\ run'.step[approvals[a].step].attempts = 0
         ELSE /\ run'.state = "failed" /\ StepMoves(approvals[a].step, "failed")
              /\ run'.step[approvals[a].step].attempts = run.step[approvals[a].step].attempts
    /\ Framed(run, run') /\ UNCHANGED leases
    /\ DOMAIN approvals' = DOMAIN approvals
    /\ approvals'[a].state = decision /\ approvals'[a].step = approvals[a].step
    /\ approvals'[a].action = approvals[a].action
    /\ \A b \in DOMAIN approvals \ {a} : approvals'[b] = approvals[b]

\* The failed and quarantined steps of the workflow start over.
Restarted(S) ==
    /\ run.state = "parked" /\ run'.state = "running"
    /\ ~run.abandoning /\ run.park_reason # "budget"
    /\ run'.abandoning = run.abandoning /\ run'.unwinds = run.unwinds
    /\ S \subseteq Workflow /\ S \subseteq StepIds
    /\ \A id \in S : /\ run.step[id].state \in {"quarantined", "failed"}
                     /\ run'.step[id].state = "scheduled" /\ run'.step[id].attempts = 0
    /\ \A id \in StepIds \ S : run'.step[id] = run.step[id]
    /\ Framed(run, run') /\ UNCHANGED <<leases, approvals>>

\* The workflow is scheduled and nothing has been done or spent.
Started(b) ==
    /\ run.state = "none" /\ run'.state = "running"
    /\ run'.abandoning = FALSE /\ run'.unwinds = 0
    /\ \A id \in StepIds : run'.step[id] = IF id[1] = 0 THEN FreshStep ELSE AbsentStep
    /\ run'.bundle = b /\ \A c \in Compensations : run'.compensation[c] = "none"
    /\ run'.used = [d \in Dims |-> 0] /\ run'.exceeded = FALSE
    /\ DOMAIN leases = {} /\ DOMAIN approvals = {} /\ UNCHANGED <<leases, approvals>>

\* What an abandonment schedules.
Resolvable(r) == {s \in ToCompensate(r) : r.bundle[s] = "resolves"}

\* The run is given up: what resolves is scheduled under a new number, and nothing
\* stays leased or pending.
GivenUp ==
    /\ run.state \in {"running", "parked", "failed"} /\ ~unwind_pending(run)
    /\ run'.abandoning = TRUE /\ run'.unwinds = run.unwinds + 1 /\ run'.unwinds \in 1..MaxUnwinds
    /\ run'.bundle = run.bundle /\ SameAccounts(run, run')
    /\ \A c \in Compensations : run'.compensation[c] =
          IF c[1] = run'.unwinds /\ c[2] \in Resolvable(run) THEN "scheduled"
          ELSE run.compensation[c]
    /\ \A id \in StepIds : run'.step[id] =
          IF id[1] = run'.unwinds /\ id[2] \in Resolvable(run) THEN FreshStep ELSE run.step[id]
    /\ run'.state = IF ToCompensate(run) # Resolvable(run) THEN "failed"
                    ELSE IF Resolvable(run) = {} THEN "abandoned" ELSE "running"
    /\ DOMAIN leases' = DOMAIN leases
    /\ \A l \in DOMAIN leases :
          /\ leases'[l].step = leases[l].step
          /\ leases'[l].state = IF leases[l].state = "active" THEN "released" ELSE leases[l].state
    /\ DOMAIN approvals' = DOMAIN approvals
    /\ \A a \in DOMAIN approvals :
          /\ approvals'[a].step = approvals[a].step /\ approvals'[a].action = approvals[a].action
          /\ approvals'[a].state =
                IF approvals[a].state = "pending" THEN "cancelled" ELSE approvals[a].state

\* The outcomes of complete, under names.
WorkflowCompletes(l, usage) ==
    /\ Reported(l, "completed", "completed") /\ ~IsCompensation(leases[l].step)
    /\ SameEntries(run, run') /\ Spent(run, run', usage) /\ UNCHANGED approvals
    /\ IF WorkflowDone(run') THEN run'.state = "completed" /\ run'.exceeded = run.exceeded
       ELSE IF usage # NoUsage /\ OverCeiling(run'.used) /\ ~run.exceeded
         THEN run'.state = "parked" /\ run'.park_reason = "budget"
       ELSE run'.state = "running" /\ run'.exceeded = run.exceeded

CompensationCompletes(l, usage) ==
    /\ Reported(l, "completed", "completed") /\ IsCompensation(leases[l].step)
    /\ EntryMoves(leases[l].step, "completed") /\ UNCHANGED approvals
    /\ Spent(run, run', usage) /\ run'.exceeded = run.exceeded
    /\ run'.state = IF unwind_pending(run') THEN "running" ELSE "abandoned"

\* What a worker's report comes to.
ReportOutcome(l) ==
    \/ \E usage \in Usages \cup {NoUsage} :
          WorkflowCompletes(l, usage) \/ CompensationCompletes(l, usage)
    \/ FailRetries(l) \/ FailParks(l) \/ FailLoses(l)
    \/ \E action \in Actions : Asked(l, action)

\* What any operation comes to.
Outcome ==
    \/ Quiet
    \/ \E b \in Bundles : Started(b)
    \/ \E id \in StepIds : Granted(id)
    \/ \E l \in DOMAIN leases : ReportOutcome(l)
    \/ \E S \in SUBSET DOMAIN leases, T \in SUBSET StepIds : Expired(S, T)
    \/ \E a \in DOMAIN approvals, decision \in {"approved", "rejected"} : Decided(a, decision)
    \/ \E S \in SUBSET StepIds : Restarted(S)
    \/ GivenUp
=============================================================================
