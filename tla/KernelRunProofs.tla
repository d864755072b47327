--------------------------- MODULE KernelRunProofs --------------------------
(***************************************************************************)
(* Machine-checked theorems about KernelRun, for every number of steps,    *)
(* every bundle and every value of the bounds: what the events of RunFold, *)
(* the rows of the tables and the reports do to the state that IndInv      *)
(* reads, that every action preserves IndInv, and what follows from it.    *)
(* The last two parts show what the operations come to, in the terms of    *)
(* KernelOutcomes.                                                         *)
(***************************************************************************)
EXTENDS KernelRun, KernelOutcomes, TLAPS

\* What a leaf may take of the SMT solver, unless it says otherwise.
USE SMTT(30)

----------------------------------------------------------------------------
\* The conjuncts of IndInv, for the leaves below to cite.
LEMMA IndInvMeans ==
    IndInv => /\ TypeOK /\ FoldConsistent /\ ActiveLeaseHeld /\ StepsInOrder /\ OneApprovalPending
  BY Zenon DEF IndInv

----------------------------------------------------------------------------
\* What each event does to the folded state: its type and the fields the
\* invariants read.

\* q differs from r at most in the steps of S and in fields that say nothing about
\* steps, approvals or abandonment.
OnlySteps(r, q, S) ==
    /\ \A e \in StepIds \ S : q.step[e] = r.step[e]
    /\ q.pending_approval = r.pending_approval
    /\ q.abandoning = r.abandoning
    /\ q.unwinds = r.unwinds

\* q is r but for the run's own status.
OnlyStatus(r, q) ==
    /\ q.step = r.step
    /\ q.pending_approval = r.pending_approval
    /\ q.abandoning = r.abandoning
    /\ q.unwinds = r.unwinds

\* run.created gives a running run with nothing but the workflow scheduled.
LEMMA RunCreatedEffect ==
    ASSUME NEW b \in [Steps -> Declared]
    PROVE  LET q == RunCreated(b)
           IN  /\ q \in RunState
               /\ q.state = "running" /\ q.park_reason = "none"
               /\ q.pending_approval = 0 /\ q.abandoning = FALSE /\ q.unwinds = 0
               /\ \A id \in StepIds : q.step[id] = IF id[1] = 0 THEN FreshStep ELSE AbsentStep
  BY FoldAssumption
  DEF FoldAssumption, RunCreated, RunState, StepState, FreshStep, AbsentStep, RunStatus,
      StepStatus, ParkReason, CompensationStatus

\* run.parked changes the status and the reason only.
LEMMA RunParkedEffect ==
    ASSUME NEW r \in RunState, NEW x \in ParkReason
    PROVE  LET q == RunParked(r, x)
           IN  /\ q \in RunState
               /\ q.state = "parked" /\ q.park_reason = x
               /\ OnlyStatus(r, q)
  <1> DEFINE human == r.needs_human \/ x = "human"
             q == [r EXCEPT !.state = "parked", !.park_reason = x, !.needs_human = human]
  <1>1. RunParked(r, x) = q
    BY Zenon DEF RunParked, RunState
  <1>2. human \in BOOLEAN /\ "parked" \in RunStatus
    BY Zenon DEF RunStatus
  <1> HIDE DEF human
  <1>3. q \in RunState
    BY <1>2, Zenon DEF RunState
  <1>4. q.state = "parked" /\ q.park_reason = x /\ OnlyStatus(r, q)
    BY Zenon DEF RunState, OnlyStatus
  <1> QED
    BY <1>1, <1>3, <1>4, Zenon

\* run.resumed makes the run running and changes no step.
LEMMA RunResumedEffect ==
    ASSUME NEW r \in RunState
    PROVE  LET q == RunResumed(r)
           IN  /\ q \in RunState
               /\ q.state = "running" /\ q.park_reason = "none"
               /\ OnlyStatus(r, q)
  BY Zenon DEF RunResumed, RunState, RunStatus, ParkReason, OnlyStatus

\* run.completed changes the status only.
LEMMA RunCompletedEffect ==
    ASSUME NEW r \in RunState
    PROVE  LET q == RunCompleted(r)
           IN  /\ q \in RunState
               /\ q.state = "completed" /\ q.park_reason = "none"
               /\ OnlyStatus(r, q)
  BY Zenon DEF RunCompleted, RunState, RunStatus, ParkReason, OnlyStatus

\* run.failed changes the status only.
LEMMA RunFailedEffect ==
    ASSUME NEW r \in RunState, NEW h \in BOOLEAN
    PROVE  LET q == RunFailed(r, h)
           IN  /\ q \in RunState
               /\ q.state = "failed" /\ q.park_reason = "none"
               /\ OnlyStatus(r, q)
  BY Zenon DEF RunFailed, RunState, RunStatus, ParkReason, OnlyStatus

\* The steps of a run, replaced.
WithSteps(r, steps) == [r EXCEPT !.step = steps]

LEMMA StepsReplaced ==
    ASSUME NEW r \in RunState, NEW steps \in [StepIds -> StepState], NEW S,
           \A e \in StepIds \ S : steps[e] = r.step[e]
    PROVE  LET q == WithSteps(r, steps)
           IN  /\ q \in RunState /\ q.step = steps
               /\ q.state = r.state /\ q.park_reason = r.park_reason
               /\ OnlySteps(r, q, S)
  <1> DEFINE q == WithSteps(r, steps)
  <1>1. q \in RunState
    BY Zenon DEF WithSteps, RunState
  <1>2. /\ q.step = steps /\ q.state = r.state /\ q.park_reason = r.park_reason
        /\ q.pending_approval = r.pending_approval /\ q.abandoning = r.abandoning
        /\ q.unwinds = r.unwinds
    BY Zenon DEF WithSteps, RunState
  <1> HIDE DEF q
  <1>3. OnlySteps(r, q, S)
    BY <1>2, Zenon DEF OnlySteps
  <1> QED
    BY <1>1, <1>2, <1>3, Zenon DEF q

\* step.scheduled starts the named steps over and changes no other.
LEMMA StepsScheduledEffect ==
    ASSUME NEW r \in RunState, NEW S \in SUBSET StepIds
    PROVE  LET q == StepsScheduled(r, S)
           IN  /\ q \in RunState
               /\ q.state = r.state /\ q.park_reason = r.park_reason
               /\ \A id \in S : q.step[id] = FreshStep
               /\ OnlySteps(r, q, S)
  <1> DEFINE steps == [id \in StepIds |-> IF id \in S THEN FreshStep ELSE r.step[id]]
  <1>1. FreshStep \in StepState
    BY FoldAssumption DEF FoldAssumption, FreshStep, StepState, StepStatus
  <1>2. r.step \in [StepIds -> StepState]
    BY Zenon DEF RunState
  <1>3. steps \in [StepIds -> StepState]
    BY <1>1, <1>2, Zenon
  <1>4. (\A id \in S : steps[id] = FreshStep) /\ \A id \in StepIds \ S : steps[id] = r.step[id]
    BY Zenon
  <1>5. StepsScheduled(r, S) = WithSteps(r, steps)
    BY Zenon DEF StepsScheduled, WithSteps
  <1> HIDE DEF steps
  <1>6. /\ WithSteps(r, steps) \in RunState /\ WithSteps(r, steps).step = steps
        /\ WithSteps(r, steps).state = r.state /\ WithSteps(r, steps).park_reason = r.park_reason
        /\ OnlySteps(r, WithSteps(r, steps), S)
    BY <1>3, <1>4, StepsReplaced, Zenon
  <1> QED
    BY <1>4, <1>5, <1>6, Zenon

\* Replacing one step's record touches nothing else.
LEMMA StepReplaced ==
    ASSUME NEW r \in RunState, NEW id \in StepIds, NEW new \in StepState
    PROVE  LET q == [r EXCEPT !.step = [r.step EXCEPT ![id] = new]]
           IN  /\ q \in RunState
               /\ q.state = r.state /\ q.park_reason = r.park_reason
               /\ q.step[id] = new
               /\ OnlySteps(r, q, {id})
  <1> DEFINE steps == [r.step EXCEPT ![id] = new]
  <1>1. r.step \in [StepIds -> StepState]
    BY Zenon DEF RunState
  <1>2. steps \in [StepIds -> StepState] /\ steps[id] = new
    BY <1>1, Zenon
  <1>3. \A e \in StepIds \ {id} : steps[e] = r.step[e]
    BY <1>1, Zenon
  <1> HIDE DEF steps
  <1>4. /\ WithSteps(r, steps) \in RunState /\ WithSteps(r, steps).step = steps
        /\ WithSteps(r, steps).state = r.state /\ WithSteps(r, steps).park_reason = r.park_reason
        /\ OnlySteps(r, WithSteps(r, steps), {id})
    BY <1>2, <1>3, StepsReplaced, Zenon
  <1> QED
    BY <1>2, <1>4, Zenon DEF WithSteps, steps

\* step.leased puts the step under the lease and counts the attempt.
LEMMA StepLeasedEffect ==
    ASSUME NEW r \in RunState, NEW id \in StepIds, NEW l \in Nat
    PROVE  LET q == StepLeased(r, id, l)
           IN  /\ q \in RunState
               /\ q.state = r.state /\ q.park_reason = r.park_reason
               /\ q.step[id].state = "leased" /\ q.step[id].lease = l
               /\ q.step[id].attempts > 0
               /\ OnlySteps(r, q, {id})
  <1> DEFINE new == [state |-> "leased", attempts |-> r.step[id].attempts + 1,
                     lease |-> l, not_before |-> 0]
  <1>1. r.step \in [StepIds -> StepState] /\ r.step[id].attempts \in Nat
    BY Zenon DEF RunState, StepState
  <1>2. new \in StepState
    BY <1>1, FoldAssumption DEF FoldAssumption, StepState, StepStatus
  <1>3. StepLeased(r, id, l) = [r EXCEPT !.step = [r.step EXCEPT ![id] = new]]
    BY Zenon DEF StepLeased, RunState
  <1>4. new.state = "leased" /\ new.lease = l /\ new.attempts > 0
    BY <1>1
  <1> QED
    BY <1>1, <1>2, <1>3, <1>4, StepReplaced

\* step.lease_expired reschedules the named steps and keeps their attempts.
LEMMA StepLeasesExpiredEffect ==
    ASSUME NEW r \in RunState, NEW S \in SUBSET StepIds
    PROVE  LET q == StepLeasesExpired(r, S)
           IN  /\ q \in RunState
               /\ q.state = r.state /\ q.park_reason = r.park_reason
               /\ \A id \in S : /\ q.step[id].state = "scheduled" /\ q.step[id].lease = 0
                                /\ q.step[id].attempts = r.step[id].attempts
               /\ OnlySteps(r, q, S)
  <1> DEFINE new(id) == [r.step[id] EXCEPT !.state = "scheduled", !.lease = 0]
             steps == [id \in StepIds |-> IF id \in S THEN new(id) ELSE r.step[id]]
  <1>1. r.step \in [StepIds -> StepState]
    BY Zenon DEF RunState
  <1>2. \A id \in StepIds : /\ new(id) \in StepState
                            /\ new(id).state = "scheduled" /\ new(id).lease = 0
                            /\ new(id).attempts = r.step[id].attempts
    <2> SUFFICES ASSUME NEW id \in StepIds
                 PROVE  /\ new(id) \in StepState
                        /\ new(id).state = "scheduled" /\ new(id).lease = 0
                        /\ new(id).attempts = r.step[id].attempts
      BY Zenon
    <2>1. PICK x \in StepState : x = r.step[id]
      BY <1>1, Zenon
    <2>2. "scheduled" \in StepStatus /\ 0 \in Nat
      BY Zenon DEF StepStatus
    <2>3. [x EXCEPT !.state = "scheduled", !.lease = 0] \in StepState
      BY <2>2, Zenon DEF StepState
    <2>4. /\ [x EXCEPT !.state = "scheduled", !.lease = 0].state = "scheduled"
          /\ [x EXCEPT !.state = "scheduled", !.lease = 0].lease = 0
          /\ [x EXCEPT !.state = "scheduled", !.lease = 0].attempts = x.attempts
      BY Zenon DEF StepState
    <2> QED
      BY <2>1, <2>3, <2>4, Zenon
  <1>3. StepLeasesExpired(r, S) = WithSteps(r, steps)
    BY Zenon DEF StepLeasesExpired, WithSteps
  <1> HIDE DEF new
  <1>4. steps \in [StepIds -> StepState]
    BY <1>1, <1>2, Zenon
  <1>5. /\ \A id \in S : steps[id] = new(id)
        /\ \A id \in StepIds \ S : steps[id] = r.step[id]
    OBVIOUS
  <1> HIDE DEF steps
  <1>6. /\ WithSteps(r, steps) \in RunState /\ WithSteps(r, steps).step = steps
        /\ WithSteps(r, steps).state = r.state /\ WithSteps(r, steps).park_reason = r.park_reason
        /\ OnlySteps(r, WithSteps(r, steps), S)
    BY <1>4, <1>5, StepsReplaced, Zenon
  <1>7. \A id \in S : /\ steps[id].state = "scheduled" /\ steps[id].lease = 0
                       /\ steps[id].attempts = r.step[id].attempts
    BY <1>2, <1>5, Zenon
  <1> QED
    BY <1>3, <1>6, <1>7, Zenon

\* q is r with the turn of step id over and the step in status st.
Ended(r, q, id, st) ==
    /\ q \in RunState
    /\ q.state = r.state /\ q.park_reason = r.park_reason
    /\ q.step[id].state = st /\ q.step[id].lease = 0
    /\ q.step[id].attempts = r.step[id].attempts
    /\ OnlySteps(r, q, {id})

\* The events that end a lease leave the step without one and change no other.
LEMMA StepEndedEffect ==
    ASSUME NEW r \in RunState, NEW id \in StepIds
    PROVE  /\ Ended(r, StepCompleted(r, id), id, "completed")
           /\ Ended(r, StepFailed(r, id), id, "failed")
           /\ Ended(r, StepQuarantined(r, id), id, "quarantined")
           /\ Ended(r, StepWaitingApproval(r, id), id, "waiting_approval")
           /\ \A delay \in 0..Backoff :
                 Ended(r, StepRetryScheduled(r, id, delay), id, "scheduled")
  <1> DEFINE old == r.step[id]
             Updated(new) == [r EXCEPT !.step = [r.step EXCEPT ![id] = new]]
  <1>1. r.step \in [StepIds -> StepState] /\ old \in StepState
    BY Zenon DEF RunState
  <1>2. 0 \in 0..Backoff /\ 0 \in Nat
    BY FoldAssumption DEF FoldAssumption
  <1>3. ASSUME NEW new \in StepState, NEW st,
               new.state = st, new.lease = 0, new.attempts = old.attempts
        PROVE  Ended(r, Updated(new), id, st)
    BY <1>3, StepReplaced DEF Ended
  <1>4. Ended(r, StepCompleted(r, id), id, "completed")
    <2> DEFINE new == [old EXCEPT !.state = "completed", !.lease = 0, !.not_before = 0]
    <2>1. /\ new \in StepState
          /\ new.state = "completed" /\ new.lease = 0 /\ new.attempts = old.attempts
      BY <1>1, <1>2, Zenon DEF StepState, StepStatus
    <2>2. StepCompleted(r, id) = Updated(new)
      BY <1>1, Zenon DEF StepCompleted
    <2> HIDE DEF new, old, Updated
    <2> QED BY <1>3, <2>1, <2>2
  <1>5. Ended(r, StepFailed(r, id), id, "failed")
    <2> DEFINE new == [old EXCEPT !.state = "failed", !.lease = 0]
    <2>1. /\ new \in StepState
          /\ new.state = "failed" /\ new.lease = 0 /\ new.attempts = old.attempts
      BY <1>1, <1>2, Zenon DEF StepState, StepStatus
    <2>2. StepFailed(r, id) = Updated(new)
      BY <1>1, Zenon DEF StepFailed
    <2> HIDE DEF new, old, Updated
    <2> QED BY <1>3, <2>1, <2>2
  <1>6. Ended(r, StepQuarantined(r, id), id, "quarantined")
    <2> DEFINE new == [old EXCEPT !.state = "quarantined", !.lease = 0, !.not_before = 0]
    <2>1. /\ new \in StepState
          /\ new.state = "quarantined" /\ new.lease = 0 /\ new.attempts = old.attempts
      BY <1>1, <1>2, Zenon DEF StepState, StepStatus
    <2>2. StepQuarantined(r, id) = Updated(new)
      BY <1>1, Zenon DEF StepQuarantined
    <2> HIDE DEF new, old, Updated
    <2> QED BY <1>3, <2>1, <2>2
  <1>7. Ended(r, StepWaitingApproval(r, id), id, "waiting_approval")
    <2> DEFINE new == [old EXCEPT !.state = "waiting_approval", !.lease = 0]
    <2>1. /\ new \in StepState
          /\ new.state = "waiting_approval" /\ new.lease = 0 /\ new.attempts = old.attempts
      BY <1>1, <1>2, Zenon DEF StepState, StepStatus
    <2>2. StepWaitingApproval(r, id) = Updated(new)
      BY <1>1, Zenon DEF StepWaitingApproval
    <2> HIDE DEF new, old, Updated
    <2> QED BY <1>3, <2>1, <2>2
  <1>8. ASSUME NEW delay \in 0..Backoff
        PROVE  Ended(r, StepRetryScheduled(r, id, delay), id, "scheduled")
    <2> DEFINE new == [old EXCEPT !.state = "scheduled", !.lease = 0, !.not_before = delay]
    <2>1. /\ new \in StepState
          /\ new.state = "scheduled" /\ new.lease = 0 /\ new.attempts = old.attempts
      BY <1>1, <1>2, Zenon DEF StepState, StepStatus
    <2>2. StepRetryScheduled(r, id, delay) = Updated(new)
      BY <1>1, Zenon DEF StepRetryScheduled
    <2> HIDE DEF new, old, Updated
    <2> QED BY <1>3, <2>1, <2>2
  <1> QED
    BY <1>4, <1>5, <1>6, <1>7, <1>8, Zenon

\* Approval events move the pending approval only.
LEMMA ApprovalEffect ==
    ASSUME NEW r \in RunState, NEW a \in Nat
    PROVE  /\ ApprovalRequested(r, a) \in RunState
           /\ ApprovalRequested(r, a) = [r EXCEPT !.pending_approval = a]
           /\ ApprovalDecided(r, a) \in RunState
           /\ r.pending_approval = a =>
                 ApprovalDecided(r, a) = [r EXCEPT !.pending_approval = 0]
  <1> DEFINE b == IF r.pending_approval = a THEN 0 ELSE r.pending_approval
  <1>1. b \in Nat
    BY Zenon DEF RunState
  <1>2. ApprovalDecided(r, a) = [r EXCEPT !.pending_approval = b]
    BY Zenon DEF ApprovalDecided
  <1>3. r.pending_approval = a => b = 0
    BY Zenon
  <1> HIDE DEF b
  <1>4. [r EXCEPT !.pending_approval = a] \in RunState /\ [r EXCEPT !.pending_approval = b] \in RunState
    BY <1>1, Zenon DEF RunState
  <1> QED
    BY <1>2, <1>3, <1>4, Zenon DEF ApprovalRequested

\* Recording usage changes the budget only.
LEMMA RecordUsageEffect ==
    ASSUME NEW r \in RunState, NEW usage \in Usages \cup {NoUsage}
    PROVE  LET q == RecordUsage(r, usage)
           IN  /\ q \in RunState
               /\ q.state = r.state /\ q.park_reason = r.park_reason
               /\ OnlyStatus(r, q)
  <1>1. CASE usage = NoUsage
    BY <1>1, Zenon DEF RecordUsage, OnlyStatus
  <1>2. CASE usage # NoUsage
    <2> DEFINE u == UsageRecorded(r, usage)
               total == [d \in Dims |-> r.used[d] + usage[d]]
    <2>1. usage \in [Dims -> Nat] /\ r.used \in [Dims -> Nat]
      BY <1>2, KernelAssumption, Zenon DEF KernelAssumption, RunState
    <2>2. total \in [Dims -> Nat]
      BY <2>1
    <2>3. u = [r EXCEPT !.used = total]
      BY Zenon DEF UsageRecorded
    <2> HIDE DEF total
    <2>4. /\ u \in RunState /\ OnlyStatus(r, u)
          /\ u.state = r.state /\ u.park_reason = r.park_reason
      BY <2>2, <2>3, Zenon DEF RunState, OnlyStatus
    <2> HIDE DEF u
    <2>5. /\ BudgetSoftThreshold(u) \in RunState /\ OnlyStatus(u, BudgetSoftThreshold(u))
          /\ BudgetSoftThreshold(u).state = u.state
          /\ BudgetSoftThreshold(u).park_reason = u.park_reason
      BY <2>4, Zenon DEF BudgetSoftThreshold, RunState, OnlyStatus
    <2>6. RecordUsage(r, usage) \in {u, BudgetSoftThreshold(u)}
      BY <1>2, Zenon DEF RecordUsage, u
    <2> QED
      BY <2>4, <2>5, <2>6, Zenon DEF OnlyStatus
  <1> QED
    BY <1>1, <1>2, Zenon

\* Marking a compensation changes no step; completing the last one ends the run.
LEMMA CompensationMarkedEffect ==
    ASSUME NEW r \in RunState, NEW s \in Steps, NEW q,
           q \in {CompensationCompleted(r, s), CompensationFailed(r, s)}
    PROVE  /\ q \in RunState
           /\ q.state = r.state \/ (r.state = "running" /\ q.state = "abandoned")
           /\ q.park_reason = r.park_reason
           /\ OnlyStatus(r, q)
  <1>1. ASSUME NEW st \in CompensationStatus
        PROVE  LET m == MarkCompensation(r, s, st)
               IN  /\ m \in RunState /\ OnlyStatus(r, m)
                   /\ m.state = r.state /\ m.park_reason = r.park_reason
    <2> DEFINE marks == [c \in Compensations |->
                          IF c[2] = s /\ FirstEntry(r, c) THEN st ELSE r.compensation[c]]
    <2>1. marks \in [Compensations -> CompensationStatus]
      BY Zenon DEF RunState
    <2>2. MarkCompensation(r, s, st) = [r EXCEPT !.compensation = marks]
      BY Zenon DEF MarkCompensation
    <2> HIDE DEF marks
    <2> QED
      BY <2>1, <2>2, Zenon DEF RunState, OnlyStatus
  <1>2. CASE q = CompensationFailed(r, s)
    BY <1>1, <1>2, Zenon DEF CompensationFailed, CompensationStatus
  <1>3. CASE q = CompensationCompleted(r, s)
    <2> DEFINE m == MarkCompensation(r, s, "completed")
    <2>1. /\ m \in RunState /\ OnlyStatus(r, m)
          /\ m.state = r.state /\ m.park_reason = r.park_reason
      BY <1>1, Zenon DEF CompensationStatus
    <2>2. q = [m EXCEPT !.state =
                IF m.abandoning /\ @ = "running" /\ ~unwind_pending(m) THEN "abandoned" ELSE @]
      BY <1>3, Zenon DEF CompensationCompleted
    <2> HIDE DEF m
    <2>3. PICK t \in RunStatus : /\ q = [m EXCEPT !.state = t]
                                 /\ t = m.state \/ (m.state = "running" /\ t = "abandoned")
      <3>1. m.state \in RunStatus /\ "abandoned" \in RunStatus
        BY <2>1, Zenon DEF RunState, RunStatus
      <3> QED
        BY <2>2, <3>1, Zenon
    <2>4. q \in RunState
      BY <2>1, <2>3, Zenon DEF RunState
    <2>5. q.state = t /\ q.park_reason = m.park_reason /\ OnlyStatus(m, q)
      BY <2>1, <2>3, Zenon DEF RunState, OnlyStatus
    <2> QED
      BY <2>1, <2>3, <2>4, <2>5, Zenon DEF OnlyStatus
  <1> QED
    BY <1>2, <1>3, Zenon

----------------------------------------------------------------------------
\* What a report does: it ends the lease and the step's turn, and touches no other
\* step and no approval.

StepEnds(l) ==
    LET id == leases[l].step
    IN  /\ run' \in RunState
        /\ OnlySteps(run, run', {id})
        /\ run'.step[id].state \in {"completed", "failed", "quarantined", "scheduled"}
        /\ run'.step[id].lease = 0
        /\ run'.state # "none"
        /\ run'.state = "parked" <=> run'.park_reason # "none"
        /\ run'.park_reason \notin {"approval", "human"}
        /\ run.abandoning => run'.park_reason = "none"
        /\ \E st \in LeaseStatus \ {"active"} : leases' = EndLease(l, st)
        /\ UNCHANGED <<approvals, resumes>>

\* A live lease is held, so its step is leased in a running run that is not parked.
LEMMA LiveLeaseFacts ==
    ASSUME IndInv, NEW l \in DOMAIN leases, Live(l)
    PROVE  /\ Held(l)
           /\ leases[l].step \in StepIds
           /\ run \in RunState /\ run.state = "running" /\ run.park_reason = "none"
           /\ run.abandoning <=> IsCompensation(leases[l].step)
           /\ run.pending_approval = 0
  <1>1. leases[l] \in LeaseRow /\ run \in RunState
    BY IndInvMeans DEF TypeOK
  <1>2. run.state = "running" /\ Held(l) /\ (run.abandoning <=> IsCompensation(leases[l].step))
    BY IndInvMeans, Zenon DEF ActiveLeaseHeld, Live
  <1>3. run.park_reason = "none"
    BY <1>2, IndInvMeans, Zenon DEF FoldConsistent
  <1>4. run.pending_approval = 0
    BY <1>2, IndInvMeans, Zenon DEF OneApprovalPending
  <1> QED
    BY <1>1, <1>2, <1>3, <1>4, Zenon DEF LeaseRow

\* complete ends the step's turn.
LEMMA CompleteEnds ==
    ASSUME IndInv, NEW l \in DOMAIN leases, NEW usage \in Usages \cup {NoUsage},
           Complete(l, usage)
    PROVE  StepEnds(l)
  <1> DEFINE id == leases[l].step
             r0 == StepCompleted(run, id)
             r1 == RecordUsage(r0, usage)
  <1>1. /\ Held(l) /\ id \in StepIds /\ run \in RunState
        /\ run.state = "running" /\ run.park_reason = "none"
        /\ run.abandoning <=> IsCompensation(id)
    BY LiveLeaseFacts, Zenon DEF Complete
  <1>2. /\ run' = AfterCompletion(r1, id, usage)
        /\ leases' = EndLease(l, "completed") /\ UNCHANGED <<approvals, resumes>>
    BY <1>1, Zenon DEF Complete, CompleteHeld
  <1>3. Ended(run, r0, id, "completed")
    BY <1>1, StepEndedEffect, Zenon
  <1> HIDE DEF r0, id
  <1>4. /\ r0 \in RunState /\ OnlySteps(run, r0, {id})
        /\ r0.state = "running" /\ r0.park_reason = "none"
        /\ r0.step[id].state = "completed" /\ r0.step[id].lease = 0
    BY <1>1, <1>3, Zenon DEF Ended
  <1>5. /\ r1 \in RunState /\ OnlySteps(run, r1, {id})
        /\ r1.state = "running" /\ r1.park_reason = "none"
        /\ r1.step[id].state = "completed" /\ r1.step[id].lease = 0
    BY <1>4, RecordUsageEffect, Zenon DEF OnlySteps, OnlyStatus
  <1> HIDE DEF r1
  <1>6. /\ run' \in RunState /\ OnlyStatus(r1, run')
        /\ \/ run'.state \in {"running", "completed", "abandoned"} /\ run'.park_reason = "none"
           \/ run'.state = "parked" /\ run'.park_reason = "budget" /\ ~IsCompensation(id)
    <2>1. CASE IsCompensation(id)
      <3>1. run' = CompensationCompleted(r1, id[2]) /\ id[2] \in Steps
        BY <1>1, <1>2, <2>1, Zenon DEF AfterCompletion, StepIds
      <3> QED
        BY <1>5, <3>1, CompensationMarkedEffect, Zenon
    <2>2. CASE ~IsCompensation(id)
      <3>1. run' \in {r1, RunCompleted(r1), RunParked(BudgetExceeded(r1), "budget")}
        BY <1>2, <2>2, Zenon DEF AfterCompletion
      <3>2. /\ BudgetExceeded(r1) \in RunState /\ OnlyStatus(r1, BudgetExceeded(r1))
        BY <1>5, Zenon DEF BudgetExceeded, RunState, OnlyStatus
      <3>3. CASE run' = r1
        BY <1>5, <3>3, Zenon DEF OnlyStatus
      <3>4. CASE run' = RunCompleted(r1)
        BY <1>5, <3>4, RunCompletedEffect, Zenon
      <3>5. CASE run' = RunParked(BudgetExceeded(r1), "budget")
        <4> DEFINE b == BudgetExceeded(r1)
        <4> HIDE DEF b
        <4>1. b \in RunState /\ OnlyStatus(r1, b) /\ run' = RunParked(b, "budget")
          BY <3>2, <3>5, Zenon DEF b
        <4>2. "budget" \in ParkReason
          BY Zenon DEF ParkReason
        <4> QED
          BY <4>1, <4>2, <2>2, RunParkedEffect, Zenon DEF OnlyStatus
      <3> QED
        BY <3>1, <3>3, <3>4, <3>5, Zenon
    <2> QED
      BY <2>1, <2>2, Zenon
  <1>7. OnlySteps(run, run', {id}) /\ run'.step[id] = r1.step[id]
    BY <1>1, <1>5, <1>6, Zenon DEF OnlySteps, OnlyStatus
  <1>8. "completed" \in LeaseStatus \ {"active"}
    BY Zenon DEF LeaseStatus
  <1> QED
    BY <1>1, <1>2, <1>5, <1>6, <1>7, <1>8, Zenon DEF StepEnds, id

\* fail ends the step's turn.
LEMMA FailEnds ==
    ASSUME IndInv, NEW l \in DOMAIN leases, NEW code \in ErrorCodes,
           NEW deterministic \in BOOLEAN, Fail(l, code, deterministic)
    PROVE  StepEnds(l)
  <1> DEFINE id == leases[l].step
             r == StepFailed(run, id)
             q == StepQuarantined(r, id)
             delay == IF deterministic THEN 0 ELSE Backoff
             Ending ==
                /\ run' \in RunState /\ OnlySteps(run, run', {id})
                /\ run'.step[id].state \in {"failed", "quarantined", "scheduled"}
                /\ run'.step[id].lease = 0
                /\ \/ run'.state \in {"running", "failed"} /\ run'.park_reason = "none"
                   \/ /\ run'.state = "parked" /\ ~IsCompensation(id)
                      /\ run'.park_reason \in {"refusal", "quarantine", "connector_quarantined"}
  <1>1. /\ Held(l) /\ id \in StepIds /\ run \in RunState
        /\ run.state = "running" /\ run.park_reason = "none"
        /\ run.abandoning <=> IsCompensation(id)
    BY LiveLeaseFacts, Zenon DEF Fail
  <1>2. /\ run' = AfterFailure(r, id, code, deterministic)
        /\ leases' = EndLease(l, "failed") /\ UNCHANGED <<approvals, resumes>>
    BY <1>1, Zenon DEF Fail, FailHeld
  <1>3. delay \in 0..Backoff
    BY FoldAssumption DEF FoldAssumption
  <1>r. Ended(run, r, id, "failed")
    BY <1>1, StepEndedEffect, Zenon
  <1> HIDE DEF r, id
  <1>4. /\ r \in RunState /\ OnlySteps(run, r, {id})
        /\ r.state = "running" /\ r.park_reason = "none"
        /\ r.step[id].state = "failed" /\ r.step[id].lease = 0
    BY <1>1, <1>r, Zenon DEF Ended
  <1>q. Ended(r, q, id, "quarantined") /\ Ended(r, StepRetryScheduled(r, id, delay), id, "scheduled")
    BY <1>1, <1>3, <1>4, StepEndedEffect, Zenon
  <1> HIDE DEF q, delay
  <1>5. /\ q \in RunState /\ OnlySteps(run, q, {id})
        /\ q.state = "running" /\ q.park_reason = "none"
        /\ q.step[id].state = "quarantined" /\ q.step[id].lease = 0
    BY <1>1, <1>4, <1>q, Zenon DEF Ended, OnlySteps
  <1>6. Ending
    <2>1. CASE run' = RunParked(r, "refusal") /\ ~IsCompensation(id)
      <3>1. "refusal" \in ParkReason
        BY Zenon DEF ParkReason
      <3> QED
        BY <1>4, <2>1, <3>1, RunParkedEffect DEF OnlySteps, OnlyStatus
    <2>2. CASE IsCompensation(id) /\ run' = RunFailed(CompensationFailed(q, id[2]), TRUE)
      <3> DEFINE f == CompensationFailed(q, id[2])
      <3>1. id[2] \in Steps
        BY <1>1, Zenon DEF StepIds
      <3>2. f \in RunState /\ OnlyStatus(q, f)
        BY <1>5, <3>1, CompensationMarkedEffect, Zenon
      <3> HIDE DEF f
      <3>3. run' = RunFailed(f, TRUE)
        BY <2>2, Zenon DEF f
      <3>4. run' \in RunState /\ OnlyStatus(f, run')
            /\ run'.state = "failed" /\ run'.park_reason = "none"
        BY <3>2, <3>3, RunFailedEffect, Zenon
      <3> QED
        BY <1>5, <3>2, <3>4, Zenon DEF OnlySteps, OnlyStatus
    <2>3. ASSUME NEW x \in {"quarantine", "connector_quarantined"},
                 run' = RunParked(q, x), ~IsCompensation(id)
          PROVE  Ending
      <3>1. x \in ParkReason
        BY Zenon DEF ParkReason
      <3> QED
        BY <1>5, <2>3, <3>1, RunParkedEffect DEF OnlySteps, OnlyStatus
    <2>4. CASE run' = StepRetryScheduled(r, id, delay)
      BY <1>1, <1>4, <1>q, <2>4, Zenon DEF Ended, OnlySteps
    <2>5. \/ run' = RunParked(r, "refusal") /\ ~IsCompensation(id)
          \/ IsCompensation(id) /\ run' = RunFailed(CompensationFailed(q, id[2]), TRUE)
          \/ /\ ~IsCompensation(id)
             /\ \E x \in {"quarantine", "connector_quarantined"} : run' = RunParked(q, x)
          \/ run' = StepRetryScheduled(r, id, delay)
      BY <1>2, Zenon DEF AfterFailure, q, delay
    <2> HIDE DEF Ending
    <2> QED
      BY <2>1, <2>2, <2>3, <2>4, <2>5, Zenon
  <1>7. "failed" \in LeaseStatus \ {"active"}
    BY Zenon DEF LeaseStatus
  <1> QED
    BY <1>1, <1>2, <1>6, <1>7, Zenon DEF StepEnds, id

----------------------------------------------------------------------------
\* Facts about the tables and the order of steps.

\* The tables of leases and of approvals are sequences of rows: a table has one row for
\* each number up to its length, each of the type of its rows.
LEMMA TableTyped ==
    ASSUME NEW S, NEW rows \in Seq(S)
    PROVE  /\ Len(rows) \in Nat
           /\ rows \in [1..Len(rows) -> S]
           /\ DOMAIN rows = 1..Len(rows)
           /\ \A i \in 1..Len(rows) : rows[i] \in S
  OBVIOUS

\* A function on the first n numbers is a table of n rows: an UPDATE leaves a table.
LEMMA FunctionIsTable ==
    ASSUME NEW S, NEW n \in Nat, NEW f \in [1..n -> S]
    PROVE  f \in Seq(S) /\ Len(f) = n
  OBVIOUS

\* A store with nothing inserted yet is a table without rows.
LEMMA EmptyTable ==
    ASSUME NEW S
    PROVE  << >> \in Seq(S) /\ Len(<< >>) = 0
  OBVIOUS

\* INSERT adds one row at the end and keeps the others.
LEMMA RowAppended ==
    ASSUME NEW S, NEW rows \in Seq(S), NEW row \in S
    PROVE  /\ Append(rows, row) \in Seq(S)
           /\ Len(Append(rows, row)) = Len(rows) + 1
           /\ \A i \in 1..Len(rows) : Append(rows, row)[i] = rows[i]
           /\ Append(rows, row)[Len(rows) + 1] = row
  OBVIOUS

\* UPDATE of one row by its key replaces that row and keeps the others.
LEMMA RowReplaced ==
    ASSUME NEW S, NEW rows \in Seq(S), NEW k \in 1..Len(rows), NEW row \in S
    PROVE  /\ [rows EXCEPT ![k] = row] \in Seq(S)
           /\ Len([rows EXCEPT ![k] = row]) = Len(rows)
           /\ \A i \in 1..Len(rows) :
                 [rows EXCEPT ![k] = row][i] = IF i = k THEN row ELSE rows[i]
  <1>1. [rows EXCEPT ![k] = row] \in [1..Len(rows) -> S] /\ Len(rows) \in Nat
    BY TableTyped, Zenon
  <1>2. [rows EXCEPT ![k] = row] \in Seq(S) /\ Len([rows EXCEPT ![k] = row]) = Len(rows)
    BY <1>1, FunctionIsTable, Zenon
  <1> QED
    BY <1>2, TableTyped, Zenon

\* Rewriting the rows of a table in place keeps it a table.
LEMMA RowsRewritten ==
    ASSUME NEW S, NEW rows \in Seq(S), NEW new,
           new = [i \in DOMAIN rows |-> new[i]], \A i \in DOMAIN rows : new[i] \in S
    PROVE  new \in Seq(S) /\ DOMAIN new = DOMAIN rows
  <1>1. DOMAIN rows = 1..Len(rows) /\ Len(rows) \in Nat
    BY TableTyped, Zenon
  <1>2. new \in [1..Len(rows) -> S] /\ DOMAIN new = DOMAIN rows
    BY <1>1, Zenon
  <1> QED
    BY <1>1, <1>2, FunctionIsTable, Zenon

\* Every row of the two tables has its type.
LEMMA RowTypes ==
    ASSUME TypeOK
    PROVE  /\ DOMAIN leases = 1..Len(leases) /\ Len(leases) \in Nat
           /\ \A l \in DOMAIN leases : leases[l] \in LeaseRow
           /\ DOMAIN approvals = 1..Len(approvals) /\ Len(approvals) \in Nat
           /\ \A a \in DOMAIN approvals : approvals[a] \in ApprovalRow
  BY TableTyped, Zenon DEF TypeOK

\* end_lease rewrites one row: that lease is over, the others are as before.
LEMMA EndLeaseEffect ==
    ASSUME TypeOK, NEW l \in DOMAIN leases, NEW st \in LeaseStatus
    PROVE  /\ EndLease(l, st) \in Seq(LeaseRow)
           /\ DOMAIN EndLease(l, st) = DOMAIN leases
           /\ EndLease(l, st)[l].state = st
           /\ EndLease(l, st)[l].step = leases[l].step
           /\ \A m \in DOMAIN leases \ {l} : EndLease(l, st)[m] = leases[m]
  <1> DEFINE row == [leases[l] EXCEPT !.state = st, !.left = 0]
  <1>1. leases[l] \in LeaseRow /\ l \in 1..Len(leases) /\ leases \in Seq(LeaseRow)
    BY RowTypes, Zenon DEF TypeOK
  <1>2. 0 \in 0..LeaseTTL
    BY KernelAssumption DEF KernelAssumption
  <1>3. row \in LeaseRow /\ row.state = st /\ row.step = leases[l].step
    BY <1>1, <1>2, Zenon DEF LeaseRow
  <1>4. EndLease(l, st) = [leases EXCEPT ![l] = row]
    BY Zenon DEF EndLease
  <1> HIDE DEF row
  <1>5. /\ [leases EXCEPT ![l] = row] \in Seq(LeaseRow)
        /\ \A j \in 1..Len(leases) :
              [leases EXCEPT ![l] = row][j] = IF j = l THEN row ELSE leases[j]
    BY <1>1, <1>3, RowReplaced
  <1> QED
    BY <1>1, <1>3, <1>4, <1>5, RowTypes, Zenon

\* Two steps of the same kind are ordered.
LEMMA EarlierTotal ==
    ASSUME NEW d \in StepIds, NEW e \in StepIds, d # e,
           IsCompensation(d) <=> IsCompensation(e)
    PROVE  Earlier(d, e) \/ Earlier(e, d)
  <1>1. /\ d = <<d[1], d[2]>> /\ e = <<e[1], e[2]>>
        /\ d[1] \in 0..MaxUnwinds /\ e[1] \in 0..MaxUnwinds
        /\ d[2] \in 1..N /\ e[2] \in 1..N
    BY DEF StepIds, Steps
  <1>2. d[1] # e[1] \/ d[2] # e[2]
    BY <1>1, Zenon
  <1>3. MaxUnwinds \in Nat /\ N \in Nat
    BY FoldAssumption, Zenon DEF FoldAssumption
  <1>4. d[1] \in Int /\ e[1] \in Int /\ d[2] \in Int /\ e[2] \in Int /\ d[1] >= 0 /\ e[1] >= 0
    BY <1>1, <1>3
  <1> QED
    BY <1>2, <1>4 DEF Earlier, IsCompensation

\* The order survives a step that begins nothing new and takes completion away from
\* no step that a later one waited for.
LEMMA OrderKept ==
    ASSUME IndInv, NEW S \in SUBSET StepIds,
           \A e \in StepIds \ S : run'.step[e] = run.step[e],
           \A id \in S : Begun(id)' => Begun(id),
           \A id \in S : \/ run.step[id].state \notin {"absent", "completed"}
                         \/ run'.step[id].state \in {"absent", "completed"}
                         \/ \A f \in StepIds : Earlier(id, f) => ~Begun(f)
    PROVE  StepsInOrder'
  <1> SUFFICES ASSUME NEW f \in StepIds, Begun(f)', NEW e \in StepIds, Earlier(e, f)
               PROVE  run'.step[e].state \in {"absent", "completed"}
    BY Zenon DEF StepsInOrder, Earlier, IsCompensation
  <1>1. Begun(f)
    BY Zenon DEF Begun
  <1>2. run.step[e].state \in {"absent", "completed"}
    BY <1>1, IndInvMeans, Zenon DEF StepsInOrder
  <1> QED
    BY <1>1, <1>2, Zenon

\* While the run is not parked nothing is pending.
LEMMA NothingPending ==
    ASSUME IndInv, run.state # "parked"
    PROVE  PendingApprovals = {} /\ run.pending_approval = 0
  BY IndInvMeans, Zenon DEF OneApprovalPending

\* While the run is not running no lease is active.
LEMMA NothingActive ==
    ASSUME IndInv, run.state # "running"
    PROVE  \A l \in DOMAIN leases : leases[l].state # "active"
  BY IndInvMeans, Zenon DEF ActiveLeaseHeld

\* No lease is active while a decision is awaited, and what it is about is known.
LEMMA PendingApprovalFacts ==
    ASSUME IndInv, NEW a \in PendingApprovals
    PROVE  /\ a \in DOMAIN approvals /\ a \in Nat /\ approvals[a] \in ApprovalRow
           /\ approvals[a].step \in StepIds
           /\ PendingApprovals = {a}
           /\ run \in RunState /\ run.pending_approval = a /\ run.state = "parked"
           /\ run.step[approvals[a].step].state = "waiting_approval"
           /\ run.abandoning <=> IsCompensation(approvals[a].step)
           /\ \A l \in DOMAIN leases : leases[l].state # "active"
  <1>1. a \in DOMAIN approvals /\ a \in Nat /\ approvals[a] \in ApprovalRow /\ run \in RunState
    BY RowTypes, IndInvMeans DEF TypeOK, PendingApprovals
  <1>2. /\ run.pending_approval = a /\ run.state = "parked"
        /\ run.step[approvals[a].step].state = "waiting_approval"
        /\ run.abandoning <=> IsCompensation(approvals[a].step)
        /\ \A b \in PendingApprovals : run.pending_approval = b
    BY IndInvMeans, Zenon DEF OneApprovalPending
  <1>3. PendingApprovals = {a}
    BY <1>2, Zenon
  <1>4. \A l \in DOMAIN leases : leases[l].state # "active"
    BY <1>2, NothingActive, Zenon
  <1> QED
    BY <1>1, <1>2, <1>3, <1>4, Zenon DEF ApprovalRow

\* run.abandoned itself changes no step.
LEMMA RunAbandonedEffect ==
    ASSUME NEW r \in RunState, ~unwind_pending(r), r.unwinds < MaxUnwinds
    PROVE  LET q == RunAbandoned(r)
           IN  /\ q \in RunState /\ q.step = r.step
               /\ q.abandoning = TRUE /\ q.state = "abandoned" /\ q.park_reason = "none"
               /\ q.unwinds = r.unwinds + 1 /\ q.pending_approval = 0
  <1> DEFINE n == r.unwinds + 1
  <1>1. n \in 0..MaxUnwinds
    BY FoldAssumption DEF FoldAssumption, RunState
  <1> DEFINE p == [r EXCEPT !.abandoning = TRUE, !.unwinds = n, !.pending_approval = 0]
  <1>2. RunAbandoned(r) = [p EXCEPT !.park_reason = "none", !.state = "abandoned"]
    BY Zenon DEF RunAbandoned, RunState
  <1> HIDE DEF n
  <1>p. /\ p \in RunState /\ p.step = r.step
        /\ p.abandoning = TRUE /\ p.unwinds = n /\ p.pending_approval = 0
    BY <1>1, Zenon DEF RunState
  <1> HIDE DEF p
  <1>3. /\ RunAbandoned(r) \in RunState /\ RunAbandoned(r).step = r.step
        /\ RunAbandoned(r).abandoning = TRUE /\ RunAbandoned(r).state = "abandoned"
        /\ RunAbandoned(r).park_reason = "none"
        /\ RunAbandoned(r).unwinds = n /\ RunAbandoned(r).pending_approval = 0
    <2>1. "none" \in ParkReason /\ "abandoned" \in RunStatus
      BY Zenon DEF ParkReason, RunStatus
    <2>2. RunAbandoned(r) \in RunState
      BY <1>2, <1>p, <2>1, Zenon DEF RunState
    <2>3. /\ RunAbandoned(r).step = p.step /\ RunAbandoned(r).abandoning = p.abandoning
          /\ RunAbandoned(r).state = "abandoned" /\ RunAbandoned(r).park_reason = "none"
          /\ RunAbandoned(r).unwinds = p.unwinds
          /\ RunAbandoned(r).pending_approval = p.pending_approval
      BY <1>2, <1>p, Zenon DEF RunState
    <2> QED
      BY <1>p, <2>2, <2>3, Zenon
  <1> QED
    BY <1>3, Zenon DEF n

----------------------------------------------------------------------------
\* Every action preserves the inductive invariant.

\* Steps of the workflow are steps.
LEMMA WorkflowSteps == Workflow \subseteq StepIds
  BY FoldAssumption DEF FoldAssumption, Workflow, StepIds

\* start_run.
LEMMA StartRunKeeps ==
    ASSUME IndInv, NEW b \in Bundles, StartRun(b)
    PROVE  IndInv' /\ Lasting
  <1>1. b \in [Steps -> Declared]
    BY KernelAssumption, Zenon DEF KernelAssumption
  <1>2. /\ run' \in RunState
        /\ run'.state = "running" /\ run'.park_reason = "none"
        /\ run'.pending_approval = 0 /\ run'.abandoning = FALSE /\ run'.unwinds = 0
        /\ \A id \in StepIds : run'.step[id] = IF id[1] = 0 THEN FreshStep ELSE AbsentStep
    BY <1>1, RunCreatedEffect, Zenon DEF StartRun
  <1>3. leases = <<>> /\ approvals = <<>> /\ UNCHANGED <<leases, approvals, resumes>>
    BY IndInvMeans, Zenon DEF StartRun, FoldConsistent
  <1>4. DOMAIN leases' = {} /\ DOMAIN approvals' = {}
    BY <1>3
  <1>5. TypeOK'
    BY <1>2, <1>3, IndInvMeans, Zenon DEF TypeOK
  <1>6. FoldConsistent'
    <2>1. \A id \in StepIds : id[1] > 0 => run'.step[id] = AbsentStep
      BY <1>2
    <2> QED
      BY <1>2, <2>1 DEF FoldConsistent, FreshStep, AbsentStep
  <1>7. ActiveLeaseHeld'
    BY <1>4, Zenon DEF ActiveLeaseHeld
  <1>8. StepsInOrder'
    <2>1. \A id \in StepIds : ~Begun(id)'
      BY <1>2 DEF Begun, FreshStep, AbsentStep
    <2> QED
      BY <2>1, Zenon DEF StepsInOrder
  <1>9. OneApprovalPending'
    BY <1>2, <1>4, Zenon DEF OneApprovalPending, PendingApprovals
  <1>l. Lasting
    BY IndInvMeans DEF StartRun, FoldConsistent, Lasting
  <1> QED
    BY <1>l, <1>5, <1>6, <1>7, <1>8, <1>9, Zenon DEF IndInv

\* complete and fail.
LEMMA StepEndsKeeps ==
    ASSUME IndInv, NEW l \in DOMAIN leases, Live(l), StepEnds(l)
    PROVE  IndInv' /\ Lasting
  <1> DEFINE id == leases[l].step
  <1>1. /\ id \in StepIds /\ run.step[id].state = "leased"
        /\ run \in RunState /\ run.state = "running" /\ run.pending_approval = 0
    BY LiveLeaseFacts, Zenon DEF Held
  <1>2. PICK st \in LeaseStatus \ {"active"} : leases' = EndLease(l, st)
    BY Zenon DEF StepEnds
  <1>3. /\ leases' \in Seq(LeaseRow) /\ DOMAIN leases' = DOMAIN leases
        /\ leases'[l].state = st
        /\ \A m \in DOMAIN leases \ {l} : leases'[m] = leases[m]
    BY <1>2, EndLeaseEffect, IndInvMeans, Zenon
  <1>4. /\ run' \in RunState /\ OnlySteps(run, run', {id})
        /\ run'.step[id].state \in {"completed", "failed", "quarantined", "scheduled"}
        /\ run'.step[id].lease = 0
        /\ run'.state # "none"
        /\ run'.state = "parked" <=> run'.park_reason # "none"
        /\ run'.park_reason \notin {"approval", "human"}
        /\ run.abandoning => run'.park_reason = "none"
        /\ UNCHANGED <<approvals, resumes>>
    BY Zenon DEF StepEnds
  <1> HIDE DEF id
  <1>5. TypeOK'
    BY <1>3, <1>4, IndInvMeans, Zenon DEF TypeOK
  <1>6. FoldConsistent'
    BY <1>1, <1>4, IndInvMeans DEF FoldConsistent, OnlySteps
  <1>7. ActiveLeaseHeld'
    <2>1. \A m \in DOMAIN leases \ {l} : leases[m].state # "active"
      BY IndInvMeans, Zenon DEF ActiveLeaseHeld, Live
    <2> QED
      BY <1>2, <1>3, <2>1, Zenon DEF ActiveLeaseHeld
  <1>8. StepsInOrder'
    <2>1. Begun(id) /\ {id} \in SUBSET StepIds
      BY <1>1, Zenon DEF Begun
    <2> QED
      BY <1>1, <1>4, <2>1, OrderKept, Zenon DEF OnlySteps
  <1>9. OneApprovalPending'
    <2>1. PendingApprovals = {}
      BY <1>1, NothingPending, Zenon
    <2>2. PendingApprovals' = {}
      BY <1>4, <2>1, Zenon DEF PendingApprovals
    <2> QED
      BY <1>1, <1>4, <2>2, Zenon DEF OneApprovalPending, OnlySteps
  <1>l. Lasting
    <2>1. run.abandoning => id \notin Workflow
      BY LiveLeaseFacts DEF Workflow, IsCompensation, id
    <2> QED
      BY <1>1, <1>4, <2>1, WorkflowSteps, Zenon DEF Lasting, OnlySteps
  <1> QED
    BY <1>l, <1>5, <1>6, <1>7, <1>8, <1>9, Zenon DEF IndInv

\* lease: the step is the first of its kind not completed, so no other lease is active.
LEMMA LeaseKeeps ==
    ASSUME IndInv, NEW id \in StepIds, Lease(id)
    PROVE  IndInv' /\ Lasting
  <1> DEFINE l == Len(leases) + 1
             row == NewLease(id)
  <1>1. /\ run \in RunState /\ leases \in Seq(LeaseRow)
        /\ DOMAIN leases = 1..Len(leases) /\ Len(leases) \in Nat
    BY RowTypes, IndInvMeans, Zenon DEF TypeOK
  <1>2. /\ run.state = "running" /\ run.step[id].state = "scheduled"
        /\ run.abandoning <=> IsCompensation(id)
        /\ \A e \in StepIds : Earlier(e, id) => run.step[e].state \in {"absent", "completed"}
        /\ run' = StepLeased(run, id, l) /\ leases' = Append(leases, row)
        /\ UNCHANGED <<approvals, resumes>>
    BY Zenon DEF Lease, Runnable
  <1>3. /\ run' \in RunState
        /\ run'.state = run.state /\ run'.park_reason = run.park_reason
        /\ run'.step[id].state = "leased" /\ run'.step[id].lease = l
        /\ OnlySteps(run, run', {id})
    BY <1>1, <1>2, StepLeasedEffect
  <1>4. row \in LeaseRow /\ row.step = id /\ row.state = "active"
    BY KernelAssumption DEF KernelAssumption, NewLease, LeaseRow, LeaseStatus
  <1> HIDE DEF row
  <1>5. /\ leases' \in Seq(LeaseRow) /\ DOMAIN leases' = DOMAIN leases \cup {l}
        /\ \A m \in DOMAIN leases : leases'[m] = leases[m]
        /\ leases'[l] = row
    <2>1. /\ leases' \in Seq(LeaseRow) /\ Len(leases') = Len(leases) + 1
          /\ \A m \in 1..Len(leases) : leases'[m] = leases[m]
          /\ leases'[l] = row
      BY <1>1, <1>2, <1>4, RowAppended
    <2>2. DOMAIN leases' = 1..(Len(leases) + 1)
      BY <2>1, TableTyped, Zenon
    <2> QED
      BY <1>1, <2>1, <2>2
  <1>6. \A m \in DOMAIN leases : leases[m].state # "active"
    <2> SUFFICES ASSUME NEW m \in DOMAIN leases, leases[m].state = "active"
                 PROVE  FALSE
      OBVIOUS
    <2> DEFINE e == leases[m].step
    <2>1. /\ e \in StepIds /\ run.step[e].state = "leased"
          /\ run.abandoning <=> IsCompensation(e)
      BY RowTypes, IndInvMeans, Zenon DEF ActiveLeaseHeld, Held, LeaseRow
    <2> HIDE DEF e
    <2>2. e # id /\ Begun(e)
      BY <1>2, <2>1, Zenon DEF Begun
    <2>3. Earlier(e, id) \/ Earlier(id, e)
      BY <1>2, <2>1, <2>2, EarlierTotal, Zenon
    <2>4. Earlier(id, e) => run.step[id].state \in {"absent", "completed"}
      BY <2>1, <2>2, IndInvMeans, Zenon DEF StepsInOrder
    <2> QED
      BY <1>2, <2>1, <2>3, <2>4, Zenon
  <1>7. TypeOK'
    BY <1>2, <1>3, <1>5, IndInvMeans, Zenon DEF TypeOK
  <1>8. FoldConsistent'
    BY <1>1, <1>2, <1>3, IndInvMeans DEF FoldConsistent, OnlySteps
  <1>9. ActiveLeaseHeld'
    <2>1. \A m \in DOMAIN leases' : leases'[m].state = "active" => m = l
      BY <1>5, <1>6, Zenon
    <2>2. run'.abandoning <=> IsCompensation(id)
      BY <1>2, <1>3, Zenon DEF OnlySteps
    <2> QED
      BY <1>2, <1>3, <1>4, <1>5, <2>1, <2>2 DEF ActiveLeaseHeld, Held
  <1>10. StepsInOrder'
    <2> SUFFICES ASSUME NEW f \in StepIds, Begun(f)', NEW e \in StepIds, Earlier(e, f)
                 PROVE  run'.step[e].state \in {"absent", "completed"}
      BY Zenon DEF StepsInOrder, Earlier, IsCompensation
    <2>1. CASE f = id
      <3>1. e # id
        BY <2>1, FoldAssumption
        DEF FoldAssumption, Earlier, IsCompensation, StepIds, Steps
      <3> QED
        BY <1>2, <1>3, <2>1, <3>1, Zenon DEF OnlySteps
    <2>2. CASE f # id
      <3>1. Begun(f)
        BY <1>3, <2>2, Zenon DEF Begun, OnlySteps
      <3>2. run.step[e].state \in {"absent", "completed"}
        BY <3>1, IndInvMeans, Zenon DEF StepsInOrder
      <3> QED
        BY <1>2, <1>3, <3>2, Zenon DEF OnlySteps
    <2> QED
      BY <2>1, <2>2, Zenon
  <1>11. OneApprovalPending'
    <2>1. PendingApprovals = {} /\ run.pending_approval = 0
      BY <1>2, NothingPending, Zenon
    <2>2. PendingApprovals' = {}
      BY <1>2, <2>1, Zenon DEF PendingApprovals
    <2>3. run.park_reason = "none"
      BY <1>2, IndInvMeans, Zenon DEF FoldConsistent
    <2> QED
      BY <1>3, <2>1, <2>2, <2>3, Zenon DEF OneApprovalPending, OnlySteps
  <1>l. Lasting
    <2>1. run.abandoning => id \notin Workflow
      BY <1>2 DEF Workflow, IsCompensation
    <2> QED
      BY <1>2, <1>3, <2>1, WorkflowSteps, Zenon DEF Lasting, OnlySteps
  <1> QED
    BY <1>l, <1>7, <1>8, <1>9, <1>10, <1>11, Zenon DEF IndInv

\* expire_lease, by the sweeper or by a late call.
LEMMA ExpireKeeps ==
    ASSUME IndInv, NEW S \in SUBSET DOMAIN leases, \A l \in S : Lapsed(l), Expire(S)
    PROVE  IndInv' /\ Lasting
  <1> DEFINE T == {id \in StepIds : \E l \in S : leases[l].step = id /\ run.step[id].lease = l}
  <1>1. /\ run \in RunState /\ leases \in Seq(LeaseRow)
        /\ \A l \in DOMAIN leases : leases[l] \in LeaseRow
    BY RowTypes, IndInvMeans, Zenon DEF TypeOK
  <1>2. /\ run' = StepLeasesExpired(run, T) /\ UNCHANGED <<approvals, resumes>>
        /\ leases' = [l \in DOMAIN leases |->
              IF l \in S THEN [leases[l] EXCEPT !.state = "expired"] ELSE leases[l]]
    BY Zenon DEF Expire
  <1>3. /\ run' \in RunState
        /\ run'.state = run.state /\ run'.park_reason = run.park_reason
        /\ \A id \in T : /\ run'.step[id].state = "scheduled" /\ run'.step[id].lease = 0
                         /\ run'.step[id].attempts = run.step[id].attempts
        /\ OnlySteps(run, run', T)
    BY <1>1, <1>2, StepLeasesExpiredEffect
  <1>4. \A id \in T : run.step[id].state = "leased"
    BY IndInvMeans DEF ActiveLeaseHeld, Lapsed, Held
  <1>5. \A l \in S : [leases[l] EXCEPT !.state = "expired"] \in LeaseRow
    <2>1. "expired" \in LeaseStatus
      BY Zenon DEF LeaseStatus
    <2> QED
      BY <1>1, <2>1, Zenon DEF LeaseRow
  <1>6. leases' \in Seq(LeaseRow) /\ DOMAIN leases' = DOMAIN leases
    <2>1. /\ leases' = [i \in DOMAIN leases |-> leases'[i]]
          /\ \A i \in DOMAIN leases : leases'[i] \in LeaseRow
      BY <1>1, <1>2, <1>5, Zenon
    <2> QED
      BY <1>1, <2>1, RowsRewritten, Zenon
  <1>7. TypeOK'
    BY <1>2, <1>3, <1>6, IndInvMeans, Zenon DEF TypeOK
  <1>8. FoldConsistent'
    <2>1. run.state = "none" => leases = <<>> /\ S = {} /\ T = {}
      BY IndInvMeans DEF FoldConsistent
    <2>2. run.state = "none" => leases' = <<>>
      BY <1>6, <2>1, <1>2
    <2>3. run.state = "none" =>
             approvals = <<>> /\ run.unwinds = 0 /\ \A id \in StepIds : run.step[id].state = "absent"
      BY IndInvMeans, Zenon DEF FoldConsistent
    <2>4. run'.state = "none" => \A id \in StepIds : run'.step[id].state = "absent"
      BY <1>3, <2>1, <2>3, Zenon DEF OnlySteps
    <2>5. /\ run'.state = "none" => leases' = <<>> /\ approvals' = <<>> /\ run'.unwinds = 0
          /\ run'.state = "parked" <=> run'.park_reason # "none"
          /\ run'.abandoning => run'.park_reason \in {"none", "approval", "human"}
          /\ run'.abandoning <=> run'.unwinds > 0
      BY <1>2, <1>3, <2>2, <2>3, IndInvMeans, ZenonT(30) DEF FoldConsistent, OnlySteps
    <2>6. \A id \in StepIds :
            /\ run'.step[id].state = "leased" <=> run'.step[id].lease # 0
            /\ run'.step[id].state = "absent" => run'.step[id].attempts = 0
            /\ id[1] > run'.unwinds => run'.step[id].state = "absent"
      BY <1>3, <1>4, IndInvMeans DEF FoldConsistent, OnlySteps
    <2> QED
      BY <2>4, <2>5, <2>6, Zenon DEF FoldConsistent
  <1>9. ActiveLeaseHeld'
    <2> SUFFICES ASSUME NEW m \in DOMAIN leases', leases'[m].state = "active"
                 PROVE  /\ run'.state = "running" /\ Held(m)'
                        /\ run'.abandoning <=> IsCompensation(leases'[m].step)
                        /\ \A n \in DOMAIN leases' : leases'[n].state = "active" => n = m
      BY Zenon DEF ActiveLeaseHeld, IsCompensation
    <2>1. m \in DOMAIN leases /\ m \notin S /\ leases'[m] = leases[m]
      BY <1>1, <1>2, <1>6, Zenon DEF LeaseRow
    <2>2. /\ run.state = "running" /\ Held(m)
          /\ run.abandoning <=> IsCompensation(leases[m].step)
          /\ \A n \in DOMAIN leases : leases[n].state = "active" => n = m
      BY <2>1, IndInvMeans, Zenon DEF ActiveLeaseHeld
    <2>3. S = {} /\ T = {}
      BY <2>1, <2>2, Zenon DEF Lapsed
    <2>4. leases[m].step \in StepIds
      BY <1>1, <2>1, Zenon DEF LeaseRow
    <2>5. run'.step[leases[m].step] = run.step[leases[m].step]
      BY <1>3, <2>3, <2>4, Zenon DEF OnlySteps
    <2>6. \A n \in DOMAIN leases : leases'[n] = leases[n]
      BY <1>2, <2>3, Zenon
    <2> QED
      BY <1>3, <1>6, <2>1, <2>2, <2>5, <2>6 DEF Held, OnlySteps
  <1>10. StepsInOrder'
    <2>1. \A id \in T : Begun(id)
      BY <1>4, Zenon DEF Begun
    <2>2. \A id \in T : run.step[id].state \notin {"absent", "completed"}
      BY <1>4, Zenon
    <2>3. \A e \in StepIds \ T : run'.step[e] = run.step[e]
      BY <1>3, Zenon DEF OnlySteps
    <2> QED
      BY <2>1, <2>2, <2>3, OrderKept, ZenonT(30)
  <1>11. OneApprovalPending'
    <2>1. \A a \in PendingApprovals : approvals[a].step \in StepIds \ T
      BY <1>4, RowTypes, IndInvMeans, Zenon DEF OneApprovalPending, PendingApprovals, ApprovalRow
    <2>2. approvals' = approvals /\ PendingApprovals' = PendingApprovals
      BY <1>2, Zenon DEF PendingApprovals
    <2>3. \A a \in PendingApprovals : run'.step[approvals[a].step] = run.step[approvals[a].step]
      BY <1>3, <2>1, Zenon DEF OnlySteps
    <2>4. /\ run'.pending_approval = run.pending_approval
          /\ run'.abandoning = run.abandoning
      BY <1>3, Zenon DEF OnlySteps
    <2> QED
      BY <1>3, <2>2, <2>3, <2>4, IndInvMeans DEF OneApprovalPending
  <1>l. Lasting
    <2>1. run.abandoning => \A id \in T : id \notin Workflow
      BY IndInvMeans DEF ActiveLeaseHeld, Lapsed, Workflow, IsCompensation
    <2> HIDE DEF T
    <2> QED
      BY <1>3, <1>4, <2>1, WorkflowSteps, Zenon DEF Lasting, OnlySteps
  <1> QED
    BY <1>l, <1>7, <1>8, <1>9, <1>10, <1>11, Zenon DEF IndInv

\* heartbeat and the passing of a lease's time move its clock only.
LEMMA LeaseClockKeeps ==
    ASSUME IndInv, NEW l \in DOMAIN leases, NEW t \in 0..LeaseTTL,
           leases' = [leases EXCEPT ![l].left = t], UNCHANGED <<run, approvals, resumes>>
    PROVE  IndInv' /\ Lasting
  <1> DEFINE row == [leases[l] EXCEPT !.left = t]
  <1>1. leases \in Seq(LeaseRow) /\ leases[l] \in LeaseRow /\ l \in 1..Len(leases)
    BY RowTypes, IndInvMeans, Zenon DEF TypeOK
  <1>2. row \in LeaseRow /\ row.state = leases[l].state /\ row.step = leases[l].step
    <2>1. row \in LeaseRow
      BY <1>1, Zenon DEF LeaseRow
    <2>2. row.state = leases[l].state /\ row.step = leases[l].step
      BY <1>1, Zenon DEF LeaseRow
    <2> QED
      BY <2>1, <2>2, Zenon
  <1>3. leases' = [leases EXCEPT ![l] = row]
    OBVIOUS
  <1> HIDE DEF row
  <1>4. /\ leases' \in Seq(LeaseRow) /\ DOMAIN leases' = DOMAIN leases
        /\ \A m \in DOMAIN leases : /\ leases'[m].state = leases[m].state
                                    /\ leases'[m].step = leases[m].step
    BY <1>1, <1>2, <1>3, RowReplaced, RowTypes, IndInvMeans
  <1>5. TypeOK'
    BY <1>4, IndInvMeans, Zenon DEF TypeOK
  <1>6. FoldConsistent'
    BY IndInvMeans DEF FoldConsistent
  <1>7. ActiveLeaseHeld'
    BY <1>4, IndInvMeans DEF ActiveLeaseHeld, Held
  <1>8. StepsInOrder' /\ OneApprovalPending'
    BY IndInvMeans, Zenon DEF StepsInOrder, OneApprovalPending, Begun, PendingApprovals
  <1>l. Lasting
    BY Zenon DEF Lasting
  <1> QED
    BY <1>l, <1>5, <1>6, <1>7, <1>8, Zenon DEF IndInv

\* The passing of an approval's time moves its clock only.
LEMMA ApprovalElapseKeeps ==
    ASSUME IndInv, NEW a \in DOMAIN approvals, ApprovalElapse(a)
    PROVE  IndInv' /\ Lasting
  <1> DEFINE row == [approvals[a] EXCEPT !.left = @ - 1]
  <1>1. approvals \in Seq(ApprovalRow) /\ approvals[a] \in ApprovalRow /\ a \in 1..Len(approvals)
    BY RowTypes, IndInvMeans, Zenon DEF TypeOK
  <1>2. approvals[a].left \in 0..SLA /\ approvals[a].left > 0 /\ SLA \in Nat
    BY <1>1, KernelAssumption, Zenon DEF KernelAssumption, ApprovalRow, ApprovalElapse
  <1>3. /\ row \in ApprovalRow
        /\ row.state = approvals[a].state /\ row.step = approvals[a].step
        /\ row.parked_human = approvals[a].parked_human
    <2>1. approvals[a].left - 1 \in 0..SLA
      BY <1>2
    <2>2. row \in ApprovalRow
      BY <1>1, <2>1, Zenon DEF ApprovalRow
    <2>3. /\ row.state = approvals[a].state /\ row.step = approvals[a].step
          /\ row.parked_human = approvals[a].parked_human
      BY <1>1, Zenon DEF ApprovalRow
    <2> QED
      BY <2>2, <2>3, Zenon
  <1>4. approvals' = [approvals EXCEPT ![a] = row] /\ UNCHANGED <<run, leases, resumes>>
    BY Zenon DEF ApprovalElapse
  <1> HIDE DEF row
  <1>5. /\ approvals' \in Seq(ApprovalRow) /\ DOMAIN approvals' = DOMAIN approvals
        /\ \A b \in DOMAIN approvals : /\ approvals'[b].state = approvals[b].state
                                       /\ approvals'[b].step = approvals[b].step
                                       /\ approvals'[b].parked_human = approvals[b].parked_human
    BY <1>1, <1>3, <1>4, RowReplaced, RowTypes, IndInvMeans, Zenon
  <1>6. PendingApprovals' = PendingApprovals
    BY <1>5, Zenon DEF PendingApprovals
  <1>7. TypeOK'
    BY <1>4, <1>5, IndInvMeans, Zenon DEF TypeOK
  <1>8. FoldConsistent' /\ ActiveLeaseHeld' /\ StepsInOrder'
    <2>1. run.state # "none"
      BY <1>1, IndInvMeans DEF FoldConsistent
    <2> QED
      BY <1>4, <2>1, IndInvMeans DEF FoldConsistent, ActiveLeaseHeld, StepsInOrder, Begun, Held
  <1>9. OneApprovalPending'
    <2>1. \A b \in PendingApprovals : b \in DOMAIN approvals
      BY Zenon DEF PendingApprovals
    <2> QED
      BY <1>4, <1>5, <1>6, <2>1, IndInvMeans DEF OneApprovalPending
  <1>l. Lasting
    BY <1>4, Zenon DEF Lasting
  <1> QED
    BY <1>l, <1>7, <1>8, <1>9, Zenon DEF IndInv

\* The passing of a back-off moves the step's clock only.
LEMMA BackoffElapseKeeps ==
    ASSUME IndInv, NEW id \in StepIds, BackoffElapse(id)
    PROVE  IndInv' /\ Lasting
  <1> DEFINE new == [run.step[id] EXCEPT !.not_before = @ - 1]
  <1>1. run \in RunState /\ run.step[id] \in StepState
    BY IndInvMeans, Zenon DEF TypeOK, RunState
  <1>2. run.step[id].not_before \in 0..Backoff /\ run.step[id].not_before > 0 /\ Backoff \in Nat
    BY <1>1, FoldAssumption, Zenon DEF FoldAssumption, StepState, BackoffElapse
  <1>3. /\ new \in StepState
        /\ new.state = run.step[id].state /\ new.lease = run.step[id].lease
        /\ new.attempts = run.step[id].attempts
    BY <1>1, <1>2 DEF StepState
  <1>4. /\ run' = [run EXCEPT !.step = [run.step EXCEPT ![id] = new]]
        /\ UNCHANGED <<leases, approvals, resumes>>
    BY Zenon DEF BackoffElapse
  <1> HIDE DEF new
  <1>5. /\ run' \in RunState
        /\ run'.state = run.state /\ run'.park_reason = run.park_reason
        /\ run'.step[id] = new
        /\ OnlySteps(run, run', {id})
    BY <1>1, <1>3, <1>4, StepReplaced, ZenonT(30)
  <1>6. \A e \in StepIds : /\ run'.step[e].state = run.step[e].state
                           /\ run'.step[e].lease = run.step[e].lease
                           /\ run'.step[e].attempts = run.step[e].attempts
    BY <1>3, <1>5, Zenon DEF OnlySteps
  <1>7. TypeOK'
    BY <1>4, <1>5, IndInvMeans, Zenon DEF TypeOK
  <1>8. FoldConsistent'
    BY <1>4, <1>5, <1>6, IndInvMeans DEF FoldConsistent, OnlySteps
  <1>9. ActiveLeaseHeld'
    <2>1. \A l \in DOMAIN leases : leases[l].step \in StepIds
      BY RowTypes, IndInvMeans, Zenon DEF LeaseRow
    <2> QED
      BY <1>4, <1>5, <1>6, <2>1, IndInvMeans DEF ActiveLeaseHeld, Held, OnlySteps
  <1>10. StepsInOrder'
    BY <1>6, IndInvMeans, Zenon DEF StepsInOrder, Begun
  <1>11. OneApprovalPending'
    <2>1. \A a \in PendingApprovals : approvals[a].step \in StepIds
      BY RowTypes, IndInvMeans, Zenon DEF ApprovalRow, PendingApprovals
    <2>2. PendingApprovals' = PendingApprovals
      BY <1>4, Zenon DEF PendingApprovals
    <2> QED
      BY <1>4, <1>5, <1>6, <2>1, <2>2, IndInvMeans DEF OneApprovalPending, OnlySteps
  <1>l. Lasting
    BY <1>5, <1>6, WorkflowSteps, Zenon DEF Lasting
  <1> QED
    BY <1>l, <1>7, <1>8, <1>9, <1>10, <1>11, Zenon DEF IndInv

\* propose_action when an approval is required.
LEMMA ProposeActionKeeps ==
    ASSUME IndInv, NEW l \in DOMAIN leases, NEW action \in Actions, ProposeAction(l, action)
    PROVE  IndInv' /\ Lasting
  <1> DEFINE id == leases[l].step
             a == Len(approvals) + 1
             r0 == ApprovalRequested(run, a)
             r1 == StepWaitingApproval(r0, id)
             row == NewApproval(id, action)
  <1>1. /\ Live(l) /\ Held(l) /\ id \in StepIds
        /\ run \in RunState /\ run.state = "running" /\ run.park_reason = "none"
        /\ run.abandoning <=> IsCompensation(id)
        /\ run.pending_approval = 0
    BY LiveLeaseFacts, Zenon DEF ProposeAction
  <1>2. /\ run' = RunParked(r1, "approval")
        /\ leases' = EndLease(l, "released")
        /\ approvals' = Append(approvals, row) /\ resumes' = resumes
    BY <1>1, Zenon DEF ProposeAction, RequestApproval
  <1>3. /\ approvals \in Seq(ApprovalRow) /\ Len(approvals) \in Nat /\ a \in Nat /\ a # 0
        /\ DOMAIN approvals = 1..Len(approvals)
    BY RowTypes, IndInvMeans DEF TypeOK
  <1>4. /\ row \in ApprovalRow /\ row.step = id /\ row.state = "pending"
        /\ row.parked_human = FALSE
    BY <1>1, KernelAssumption
    DEF KernelAssumption, NewApproval, ApprovalRow, ApprovalStatus
  <1> HIDE DEF row
  <1>5. /\ approvals' \in Seq(ApprovalRow) /\ DOMAIN approvals' = DOMAIN approvals \cup {a}
        /\ \A b \in DOMAIN approvals : approvals'[b] = approvals[b]
        /\ approvals'[a] = row
    <2>1. /\ approvals' \in Seq(ApprovalRow) /\ Len(approvals') = Len(approvals) + 1
          /\ \A b \in 1..Len(approvals) : approvals'[b] = approvals[b]
          /\ approvals'[a] = row
      BY <1>2, <1>3, <1>4, RowAppended
    <2>2. DOMAIN approvals' = 1..(Len(approvals) + 1)
      BY <2>1, TableTyped, Zenon
    <2> QED
      BY <1>3, <2>1, <2>2
  <1> HIDE DEF a, id
  <1>6. /\ r0 \in RunState /\ r0 = [run EXCEPT !.pending_approval = a]
    BY <1>1, <1>3, ApprovalEffect, Zenon
  <1>7. /\ r0.step = run.step /\ r0.pending_approval = a
        /\ r0.abandoning = run.abandoning /\ r0.unwinds = run.unwinds
    BY <1>1, <1>6, Zenon DEF RunState
  <1> HIDE DEF r0
  <1>8. Ended(r0, r1, id, "waiting_approval")
    BY <1>1, <1>6, StepEndedEffect, Zenon
  <1> HIDE DEF r1
  <1>9. /\ run' \in RunState /\ run'.state = "parked" /\ run'.park_reason = "approval"
        /\ OnlyStatus(r1, run')
    <2>1. "approval" \in ParkReason
      BY Zenon DEF ParkReason
    <2> QED
      BY <1>2, <1>8, <2>1, RunParkedEffect, Zenon DEF Ended
  <1>10. /\ \A e \in StepIds \ {id} : run'.step[e] = run.step[e]
         /\ run'.step[id].state = "waiting_approval" /\ run'.step[id].lease = 0
         /\ run'.pending_approval = a
         /\ run'.abandoning = run.abandoning /\ run'.unwinds = run.unwinds
    BY <1>7, <1>8, <1>9, Zenon DEF Ended, OnlySteps, OnlyStatus
  <1>11. /\ leases' \in Seq(LeaseRow) /\ DOMAIN leases' = DOMAIN leases
         /\ \A m \in DOMAIN leases' : leases'[m].state # "active"
    <2>1. "released" \in LeaseStatus
      BY Zenon DEF LeaseStatus
    <2>2. /\ leases' \in Seq(LeaseRow) /\ DOMAIN leases' = DOMAIN leases
          /\ leases'[l].state = "released"
          /\ \A m \in DOMAIN leases \ {l} : leases'[m] = leases[m]
      BY <1>2, <2>1, EndLeaseEffect, IndInvMeans, Zenon
    <2>3. \A m \in DOMAIN leases \ {l} : leases[m].state # "active"
      BY <1>1, IndInvMeans, Zenon DEF ActiveLeaseHeld, Live
    <2> QED
      BY <2>2, <2>3, Zenon
  <1>12. TypeOK'
    BY <1>2, <1>5, <1>9, <1>11, IndInvMeans, Zenon DEF TypeOK
  <1>13. FoldConsistent'
    <2>1. run.step[id].state = "leased"
      BY <1>1, Zenon DEF Held, id
    <2> QED
      BY <1>1, <1>9, <1>10, <2>1, IndInvMeans DEF FoldConsistent
  <1>14. ActiveLeaseHeld'
    BY <1>11, Zenon DEF ActiveLeaseHeld
  <1>15. StepsInOrder'
    <2>1. run.step[id].state = "leased" /\ Begun(id) /\ {id} \in SUBSET StepIds
      BY <1>1, Zenon DEF Held, Begun, id
    <2> QED
      BY <1>10, <2>1, OrderKept, Zenon
  <1>16. OneApprovalPending'
    <2>1. PendingApprovals = {}
      BY <1>1, NothingPending, Zenon
    <2>2. PendingApprovals' = {a}
      BY <1>4, <1>5, <2>1, Zenon DEF PendingApprovals
    <2>3. approvals'[a].step = id /\ approvals'[a].parked_human = FALSE
      BY <1>4, <1>5, Zenon
    <2>4. \A b \in PendingApprovals' : b = a
      BY <2>2, Zenon
    <2>5. run'.abandoning <=> IsCompensation(id)
      BY <1>1, <1>10, Zenon
    <2>6. run'.pending_approval \in PendingApprovals' /\ run'.pending_approval # 0
      BY <1>3, <1>10, <2>2, Zenon DEF a
    <2> QED
      BY <1>9, <1>10, <2>3, <2>4, <2>5, <2>6, Zenon DEF OneApprovalPending
  <1>l. Lasting
    <2>1. run.step[id].state = "leased" /\ (run.abandoning => id \notin Workflow)
      BY <1>1 DEF Held, Workflow, IsCompensation, id
    <2> QED
      BY <1>1, <1>10, <2>1, WorkflowSteps, Zenon DEF Lasting
  <1> QED
    BY <1>l, <1>12, <1>13, <1>14, <1>15, <1>16, Zenon DEF IndInv

\* decide_approval: the run goes on or fails, and nothing is pending any more.
LEMMA DecideApprovalKeeps ==
    ASSUME IndInv, NEW a \in DOMAIN approvals, NEW decision \in {"approved", "rejected"},
           DecideApproval(a, decision)
    PROVE  IndInv' /\ Lasting
  <1> DEFINE id == approvals[a].step
             r == ApprovalDecided(run, a)
             row == [approvals[a] EXCEPT !.state = decision, !.left = 0]
             Ending ==
                /\ run' \in RunState /\ run'.state \in {"running", "failed"}
                /\ run'.park_reason = "none" /\ run'.pending_approval = 0
                /\ run'.abandoning = run.abandoning /\ run'.unwinds = run.unwinds
                /\ \A e \in StepIds \ {id} : run'.step[e] = run.step[e]
                /\ run'.step[id].state \in {"scheduled", "failed"} /\ run'.step[id].lease = 0
  <1>1. a \in PendingApprovals
    BY Zenon DEF DecideApproval, PendingApprovals
  <1>2. /\ a \in Nat /\ approvals[a] \in ApprovalRow /\ id \in StepIds
        /\ PendingApprovals = {a}
        /\ run \in RunState /\ run.pending_approval = a /\ run.state = "parked"
        /\ run.step[id].state = "waiting_approval"
        /\ \A l \in DOMAIN leases : leases[l].state # "active"
    BY <1>1, PendingApprovalFacts, Zenon
  <1>3. /\ run' = IF decision = "approved"
                    THEN StepsScheduled(IF r.state = "parked" THEN RunResumed(r) ELSE r, {id})
                    ELSE RunFailed(StepFailed(r, id), FALSE)
        /\ approvals' = [approvals EXCEPT ![a] = row]
        /\ UNCHANGED <<leases, resumes>>
    BY Zenon DEF DecideApproval
  <1>4. row \in ApprovalRow /\ row.state = decision
    <2>1. 0 \in 0..SLA
      BY KernelAssumption DEF KernelAssumption
    <2>2. decision \in ApprovalStatus
      BY Zenon DEF ApprovalStatus
    <2> QED
      BY <1>2, <2>1, <2>2, Zenon DEF ApprovalRow
  <1> HIDE DEF row, id
  <1>5. /\ r \in RunState /\ r = [run EXCEPT !.pending_approval = 0]
    BY <1>2, ApprovalEffect, Zenon
  <1>6. /\ r.step = run.step /\ r.pending_approval = 0 /\ r.state = "parked"
        /\ r.abandoning = run.abandoning /\ r.unwinds = run.unwinds
    BY <1>2, <1>5, Zenon DEF RunState
  <1> HIDE DEF r
  <1>7. Ending
    <2>1. CASE decision = "approved"
      <3> DEFINE q == RunResumed(r)
      <3>1. /\ q \in RunState /\ q.state = "running" /\ q.park_reason = "none"
            /\ OnlyStatus(r, q)
        BY <1>5, RunResumedEffect, Zenon
      <3>2. run' = StepsScheduled(q, {id}) /\ {id} \in SUBSET StepIds
        BY <1>2, <1>3, <1>6, <2>1, Zenon
      <3> HIDE DEF q
      <3>3. /\ run' \in RunState /\ run'.state = "running" /\ run'.park_reason = "none"
            /\ run'.step[id] = FreshStep /\ OnlySteps(q, run', {id})
        BY <3>1, <3>2, StepsScheduledEffect, Zenon
      <3> QED
        BY <1>6, <3>1, <3>3 DEF OnlySteps, OnlyStatus, FreshStep
    <2>2. CASE decision = "rejected"
      <3> DEFINE q == StepFailed(r, id)
      <3>1. Ended(r, q, id, "failed")
        BY <1>2, <1>5, StepEndedEffect, Zenon
      <3>2. run' = RunFailed(q, FALSE)
        BY <1>3, <2>2, Zenon
      <3> HIDE DEF q
      <3>3. /\ run' \in RunState /\ run'.state = "failed" /\ run'.park_reason = "none"
            /\ OnlyStatus(q, run')
        BY <3>1, <3>2, RunFailedEffect, Zenon DEF Ended
      <3> QED
        BY <1>6, <3>1, <3>3, Zenon DEF Ended, OnlySteps, OnlyStatus
    <2> QED
      BY <2>1, <2>2, Zenon
  <1>8. /\ approvals' \in Seq(ApprovalRow) /\ DOMAIN approvals' = DOMAIN approvals
        /\ approvals'[a] = row
        /\ \A b \in DOMAIN approvals \ {a} : approvals'[b] = approvals[b]
    BY <1>3, <1>4, RowReplaced, RowTypes, IndInvMeans, Zenon DEF TypeOK
  <1>9. TypeOK'
    BY <1>3, <1>7, <1>8, IndInvMeans, Zenon DEF TypeOK
  <1>10. FoldConsistent'
    BY <1>2, <1>7, IndInvMeans DEF FoldConsistent
  <1>11. ActiveLeaseHeld'
    BY <1>2, <1>3, Zenon DEF ActiveLeaseHeld
  <1>12. StepsInOrder'
    <2>1. Begun(id) /\ {id} \in SUBSET StepIds
      BY <1>2, Zenon DEF Begun
    <2> QED
      BY <1>2, <1>7, <2>1, OrderKept, ZenonT(30)
  <1>13. OneApprovalPending'
    <2>1. PendingApprovals' = {}
      BY <1>2, <1>4, <1>8, Zenon DEF PendingApprovals
    <2> QED
      BY <1>7, <2>1, Zenon DEF OneApprovalPending
  <1>l. Lasting
    <2>1. run.abandoning => id \notin Workflow
      BY <1>1, PendingApprovalFacts DEF Workflow, IsCompensation, id
    <2> QED
      BY <1>2, <1>7, <2>1, WorkflowSteps, Zenon DEF Lasting
  <1> QED
    BY <1>l, <1>9, <1>10, <1>11, <1>12, <1>13, Zenon DEF IndInv

\* The approvals sweeper: an escalation changes the row only, the second deadline
\* also the reason the run is parked for.
LEMMA SweepApprovalsKeeps ==
    ASSUME IndInv, SweepApprovals
    PROVE  IndInv' /\ Lasting
  <1> DEFINE Overdue == {b \in PendingApprovals :
                            approvals[b].left = 0 /\ ~approvals[b].parked_human}
             Twice == {b \in Overdue : approvals[b].escalations > 0}
  <1>1. /\ Overdue # {}
        /\ run' = IF Twice # {} THEN RunParked(run, "human") ELSE run
        /\ approvals' = [b \in DOMAIN approvals |->
              IF b \in Twice THEN [approvals[b] EXCEPT !.parked_human = TRUE]
              ELSE IF b \in Overdue THEN [approvals[b] EXCEPT !.escalations = 1, !.left = SLA]
              ELSE approvals[b]]
        /\ UNCHANGED <<leases, resumes>>
    BY ZenonT(30) DEF SweepApprovals
  <1>2. PICK a \in PendingApprovals : a \in Overdue
    BY <1>1, Zenon
  <1>3. /\ a \in DOMAIN approvals /\ a \in Nat /\ approvals[a] \in ApprovalRow
        /\ PendingApprovals = {a}
        /\ run \in RunState /\ run.pending_approval = a /\ run.state = "parked"
        /\ run.step[approvals[a].step].state = "waiting_approval"
        /\ run.abandoning <=> IsCompensation(approvals[a].step)
        /\ \A l \in DOMAIN leases : leases[l].state # "active"
    BY PendingApprovalFacts, Zenon
  <1>4. Overdue = {a} /\ (Twice = {a} \/ Twice = {})
    BY <1>2, <1>3, Zenon
  <1>5. \A b \in DOMAIN approvals :
           /\ [approvals[b] EXCEPT !.parked_human = TRUE] \in ApprovalRow
           /\ [approvals[b] EXCEPT !.escalations = 1, !.left = SLA] \in ApprovalRow
    <2>1. SLA \in 0..SLA
      BY KernelAssumption DEF KernelAssumption
    <2>2. \A b \in DOMAIN approvals : approvals[b] \in ApprovalRow
      BY RowTypes, IndInvMeans, Zenon
    <2> QED
      BY <2>1, <2>2, ZenonT(30) DEF ApprovalRow
  <1>6. /\ approvals' \in Seq(ApprovalRow) /\ DOMAIN approvals' = DOMAIN approvals
    <2>1. \A b \in DOMAIN approvals : approvals'[b] \in ApprovalRow
      BY <1>1, <1>5, RowTypes, IndInvMeans, Zenon
    <2>2. approvals' = [b \in DOMAIN approvals |-> approvals'[b]]
      BY <1>1, Zenon
    <2>3. approvals \in Seq(ApprovalRow)
      BY IndInvMeans, Zenon DEF TypeOK
    <2> QED
      BY <2>1, <2>2, <2>3, RowsRewritten, Zenon
  <1>7. /\ \A b \in DOMAIN approvals \ {a} : approvals'[b] = approvals[b]
        /\ approvals'[a].state = "pending" /\ approvals'[a].step = approvals[a].step
        /\ approvals'[a].parked_human = (Twice # {})
    <2>1. /\ \A b \in DOMAIN approvals \ {a} : approvals'[b] = approvals[b]
          /\ approvals'[a] = IF Twice # {} THEN [approvals[a] EXCEPT !.parked_human = TRUE]
                             ELSE [approvals[a] EXCEPT !.escalations = 1, !.left = SLA]
      BY <1>1, <1>3, <1>4, Zenon
    <2>2. approvals[a].state = "pending" /\ approvals[a].parked_human = FALSE
      BY <1>2, <1>3, Zenon DEF PendingApprovals, ApprovalRow
    <2>3. CASE Twice # {}
      <3>1. approvals'[a] = [approvals[a] EXCEPT !.parked_human = TRUE]
        BY <2>1, <2>3, Zenon
      <3>2. /\ approvals'[a].state = approvals[a].state /\ approvals'[a].step = approvals[a].step
            /\ approvals'[a].parked_human = TRUE
        BY <1>3, <3>1, Zenon DEF ApprovalRow
      <3> QED
        BY <2>1, <2>2, <2>3, <3>2, Zenon
    <2>4. CASE Twice = {}
      <3>1. approvals'[a] = [approvals[a] EXCEPT !.escalations = 1, !.left = SLA]
        BY <2>1, <2>4, Zenon
      <3>2. /\ approvals'[a].state = approvals[a].state /\ approvals'[a].step = approvals[a].step
            /\ approvals'[a].parked_human = approvals[a].parked_human
        BY <1>3, <3>1, Zenon DEF ApprovalRow
      <3> QED
        BY <2>1, <2>2, <2>4, <3>2, Zenon
    <2> QED
      BY <2>3, <2>4, Zenon
  <1>8. PendingApprovals' = {a}
    BY <1>3, <1>6, <1>7 DEF PendingApprovals
  <1>9. /\ run' \in RunState /\ OnlyStatus(run, run') /\ run'.state = "parked"
        /\ run'.park_reason = IF Twice # {} THEN "human" ELSE "approval"
    <2>1. CASE Twice # {}
      <3>1. "human" \in ParkReason
        BY Zenon DEF ParkReason
      <3> QED
        BY <1>1, <1>3, <2>1, <3>1, RunParkedEffect, Zenon
    <2>2. CASE Twice = {}
      <3>1. run.park_reason = "approval"
        BY <1>2, <1>3, IndInvMeans, Zenon DEF OneApprovalPending
      <3> QED
        BY <1>1, <1>3, <2>2, <3>1, ZenonT(30) DEF OnlyStatus
    <2> QED
      BY <2>1, <2>2, Zenon
  <1> HIDE DEF Overdue, Twice
  <1>10. TypeOK'
    BY <1>1, <1>6, <1>9, IndInvMeans, ZenonT(30) DEF TypeOK
  <1>11. FoldConsistent'
    BY <1>9, IndInvMeans DEF FoldConsistent, OnlyStatus
  <1>12. ActiveLeaseHeld'
    BY <1>1, <1>3, ZenonT(30) DEF ActiveLeaseHeld
  <1>13. StepsInOrder'
    BY <1>9, IndInvMeans, Zenon DEF StepsInOrder, Begun, OnlyStatus
  <1>14. OneApprovalPending'
    <2>1. \A b \in PendingApprovals' : b = a
      BY <1>8, Zenon
    <2>2. /\ run'.pending_approval = a /\ run'.pending_approval \in PendingApprovals'
          /\ run'.step = run.step /\ run'.abandoning = run.abandoning
      BY <1>3, <1>8, <1>9, Zenon DEF OnlyStatus
    <2>3. a # 0
      BY <1>3, RowTypes, IndInvMeans
    <2> QED
      BY <1>3, <1>7, <1>9, <2>1, <2>2, <2>3, ZenonT(30) DEF OneApprovalPending
  <1>l. Lasting
    BY <1>3, <1>9, Zenon DEF Lasting, OnlyStatus
  <1> QED
    BY <1>l, <1>10, <1>11, <1>12, <1>13, <1>14, Zenon DEF IndInv

\* resume: failed and quarantined steps start over; no step after them had begun.
LEMMA ResumeKeeps ==
    ASSUME IndInv, Resume
    PROVE  IndInv' /\ Lasting
  <1> DEFINE S == {id \in Workflow : run.step[id].state \in {"quarantined", "failed"}}
             q == RunResumed(run)
  <1>1. /\ run \in RunState /\ run.state = "parked" /\ PendingApprovals = {}
        /\ run' = StepsScheduled(q, S) /\ resumes' = resumes + 1 /\ resumes \in Nat
        /\ UNCHANGED <<leases, approvals>>
    BY IndInvMeans, Zenon DEF Resume, TypeOK
  <1>2. S \in SUBSET StepIds
    BY FoldAssumption DEF FoldAssumption, Workflow, StepIds
  <1>3. /\ q \in RunState /\ q.state = "running" /\ q.park_reason = "none" /\ OnlyStatus(run, q)
    BY <1>1, RunResumedEffect, Zenon
  <1>4. \A id \in S : run.step[id].state \in {"quarantined", "failed"}
    OBVIOUS
  <1> HIDE DEF q, S
  <1>5. /\ run' \in RunState /\ run'.state = "running" /\ run'.park_reason = "none"
        /\ \A id \in S : run'.step[id] = FreshStep
        /\ OnlySteps(q, run', S)
    BY <1>1, <1>2, <1>3, StepsScheduledEffect, Zenon
  <1>6. OnlySteps(run, run', S)
    BY <1>3, <1>5, Zenon DEF OnlySteps, OnlyStatus
  <1>7. run.pending_approval = 0 /\ \A l \in DOMAIN leases : leases[l].state # "active"
    BY <1>1, NothingActive, IndInvMeans, Zenon DEF OneApprovalPending
  <1>8. TypeOK'
    BY <1>1, <1>5, IndInvMeans DEF TypeOK
  <1>9. FoldConsistent'
    BY <1>1, <1>2, <1>4, <1>5, <1>6, IndInvMeans DEF FoldConsistent, OnlySteps, FreshStep
  <1>10. ActiveLeaseHeld'
    BY <1>1, <1>7, Zenon DEF ActiveLeaseHeld
  <1>11. StepsInOrder'
    <2>1. \A id \in S : Begun(id)
      BY <1>4, Zenon DEF Begun
    <2> QED
      BY <1>2, <1>4, <1>6, <2>1, OrderKept, Zenon DEF OnlySteps
  <1>12. OneApprovalPending'
    <2>1. PendingApprovals' = {}
      BY <1>1, Zenon DEF PendingApprovals
    <2> QED
      BY <1>5, <1>6, <1>7, <2>1, Zenon DEF OneApprovalPending, OnlySteps
  <1>l. Lasting
    <2>1. ~run.abandoning
      BY <1>1, <1>7, IndInvMeans, Zenon DEF Resume, FoldConsistent, OneApprovalPending
    <2> QED
      BY <1>1, <1>4, <1>6, <2>1, Zenon DEF Lasting, OnlySteps
  <1> QED
    BY <1>l, <1>8, <1>9, <1>10, <1>11, <1>12, Zenon DEF IndInv

\* The steps the next abandonment may append, none of which exists yet.
NextUnwind == {id \in StepIds : id[1] = run.unwinds + 1}

\* run.abandoned and what follows it: the run is unwinding with nothing pending, and
\* only steps of the new abandonment are touched, each of them fresh.
LEMMA UnwindEffect ==
    ASSUME NEW r \in RunState, r.abandoning = TRUE, r.state = "abandoned",
           r.park_reason = "none"
    PROVE  LET q == Unwind(r)
           IN  /\ q \in RunState
               /\ q.state \in {"abandoned", "running", "failed"} /\ q.park_reason = "none"
               /\ \A id \in StepIds : \/ q.step[id] = r.step[id]
                                      \/ id[1] = r.unwinds /\ q.step[id] = FreshStep
               /\ OnlySteps(r, q, StepIds)
  <1> DEFINE resolved == {s \in ToCompensate(r) : r.bundle[s] = "resolves"}
             failed == ToCompensate(r) \ resolved
             marks == [c \in Compensations |->
                          IF c[2] \in failed /\ FirstEntry(r, c) THEN "failed"
                          ELSE r.compensation[c]]
             m == [r EXCEPT !.compensation = marks]
             comps == [c \in Compensations |->
                          IF c[1] = m.unwinds /\ c[2] \in resolved THEN "scheduled"
                          ELSE m.compensation[c]]
             steps == [id \in StepIds |->
                          IF id[1] = m.unwinds /\ id[2] \in resolved THEN FreshStep
                          ELSE m.step[id]]
             u == CompensationsScheduled(m, resolved)
  <1>1. Unwind(r) = IF failed = {} THEN u ELSE RunFailed(u, TRUE)
    BY Zenon DEF Unwind
  <1> HIDE DEF resolved, failed
  <1>2. marks \in [Compensations -> CompensationStatus]
    BY Zenon DEF RunState, CompensationStatus
  <1> HIDE DEF marks
  <1>3. /\ m \in RunState /\ m.step = r.step /\ m.abandoning = TRUE /\ m.state = "abandoned"
        /\ m.park_reason = "none" /\ m.unwinds = r.unwinds
        /\ m.pending_approval = r.pending_approval
    BY <1>2, Zenon DEF RunState
  <1>4. PICK t \in {"abandoned", "running"} :
            u = [m EXCEPT !.compensation = comps, !.step = steps, !.state = t]
    BY <1>3, Zenon DEF CompensationsScheduled
  <1> HIDE DEF m
  <1>5. comps \in [Compensations -> CompensationStatus]
    BY <1>3, Zenon DEF RunState, CompensationStatus
  <1>6. /\ steps \in [StepIds -> StepState]
        /\ \A id \in StepIds : steps[id] = r.step[id] \/ (id[1] = r.unwinds /\ steps[id] = FreshStep)
    <2>1. FreshStep \in StepState /\ m.step \in [StepIds -> StepState]
      BY <1>3, FoldAssumption DEF FoldAssumption, FreshStep, StepState, StepStatus, RunState
    <2> QED
      BY <1>3, <2>1, Zenon
  <1> HIDE DEF comps, steps, u
  <1>7. /\ u \in RunState /\ u.state = t /\ u.park_reason = "none" /\ u.step = steps
        /\ u.abandoning = r.abandoning /\ u.unwinds = r.unwinds
        /\ u.pending_approval = r.pending_approval
    BY <1>3, <1>4, <1>5, <1>6, Zenon DEF RunState, RunStatus
  <1>8. /\ RunFailed(u, TRUE) \in RunState /\ OnlyStatus(u, RunFailed(u, TRUE))
        /\ RunFailed(u, TRUE).state = "failed" /\ RunFailed(u, TRUE).park_reason = "none"
    BY <1>7, RunFailedEffect, Zenon
  <1> DEFINE q == Unwind(r)
  <1>9. /\ q \in RunState /\ OnlyStatus(u, q) /\ q.park_reason = "none"
        /\ q.state \in {"abandoned", "running", "failed"}
    BY <1>1, <1>7, <1>8, Zenon DEF OnlyStatus
  <1> HIDE DEF q
  <1>10. /\ \A id \in StepIds : q.step[id] = r.step[id] \/ (id[1] = r.unwinds /\ q.step[id] = FreshStep)
         /\ OnlySteps(r, q, StepIds)
    BY <1>6, <1>7, <1>9, Zenon DEF OnlyStatus, OnlySteps
  <1> QED
    BY <1>9, <1>10, Zenon DEF q

\* abandon.
LEMMA AbandonKeeps ==
    ASSUME IndInv, Abandon
    PROVE  IndInv' /\ Lasting
  <1> DEFINE r == RunAbandoned(run)
  <1>n. run.unwinds \in Nat
    BY FoldAssumption, IndInvMeans DEF FoldAssumption, TypeOK, RunState
  <1>1. /\ run \in RunState /\ run.state # "none"
        /\ ~unwind_pending(run) /\ run.unwinds < MaxUnwinds
        /\ run' = Unwind(r) /\ resumes' = resumes
        /\ leases' = [l \in DOMAIN leases |->
              IF leases[l].state = "active"
                THEN [leases[l] EXCEPT !.state = "released", !.left = 0] ELSE leases[l]]
        /\ approvals' = [a \in DOMAIN approvals |->
              IF approvals[a].state = "pending"
                THEN [approvals[a] EXCEPT !.state = "cancelled", !.left = 0] ELSE approvals[a]]
    BY IndInvMeans, Zenon DEF Abandon, TypeOK
  <1>2. /\ r \in RunState /\ r.step = run.step
        /\ r.abandoning = TRUE /\ r.state = "abandoned" /\ r.park_reason = "none"
        /\ r.unwinds = run.unwinds + 1 /\ r.pending_approval = 0
    BY <1>1, RunAbandonedEffect, ZenonT(30)
  <1> HIDE DEF r
  <1>3. /\ run' \in RunState
        /\ run'.state \in {"abandoned", "running", "failed"} /\ run'.park_reason = "none"
        /\ \A id \in StepIds : \/ run'.step[id] = r.step[id]
                               \/ id[1] = r.unwinds /\ run'.step[id] = FreshStep
        /\ OnlySteps(r, run', StepIds)
    BY <1>1, <1>2, UnwindEffect, ZenonT(30)
  <1>4. /\ \A id \in StepIds : \/ run'.step[id] = run.step[id]
                               \/ id \in NextUnwind /\ run'.step[id] = FreshStep
        /\ run'.abandoning = TRUE /\ run'.unwinds = run.unwinds + 1
        /\ run'.pending_approval = 0
    BY <1>2, <1>3, Zenon DEF OnlySteps, NextUnwind
  <1>5. /\ leases' \in Seq(LeaseRow) /\ DOMAIN leases' = DOMAIN leases
        /\ \A l \in DOMAIN leases' : leases'[l].state # "active"
    <2>1. \A l \in DOMAIN leases :
             LET row == [leases[l] EXCEPT !.state = "released", !.left = 0]
             IN  row \in LeaseRow /\ row.state = "released"
      <3>1. \A l \in DOMAIN leases : leases[l] \in LeaseRow
        BY RowTypes, IndInvMeans, Zenon
      <3>2. 0 \in 0..LeaseTTL /\ "released" \in LeaseStatus
        BY KernelAssumption DEF KernelAssumption, LeaseStatus
      <3> QED
        BY <3>1, <3>2, ZenonT(30) DEF LeaseRow
    <2>2. \A l \in DOMAIN leases : leases'[l] \in LeaseRow /\ leases'[l].state # "active"
      BY <1>1, <2>1, RowTypes, IndInvMeans, Zenon
    <2>3. leases' = [l \in DOMAIN leases |-> leases'[l]] /\ leases \in Seq(LeaseRow)
      BY <1>1, IndInvMeans, Zenon DEF TypeOK
    <2> QED
      BY <2>2, <2>3, RowsRewritten, Zenon
  <1>6. /\ approvals' \in Seq(ApprovalRow) /\ DOMAIN approvals' = DOMAIN approvals
        /\ \A a \in DOMAIN approvals' : approvals'[a].state # "pending"
    <2>1. \A a \in DOMAIN approvals :
             LET row == [approvals[a] EXCEPT !.state = "cancelled", !.left = 0]
             IN  row \in ApprovalRow /\ row.state = "cancelled"
      <3>1. \A a \in DOMAIN approvals : approvals[a] \in ApprovalRow
        BY RowTypes, IndInvMeans, Zenon
      <3>2. 0 \in 0..SLA /\ "cancelled" \in ApprovalStatus
        BY KernelAssumption DEF KernelAssumption, ApprovalStatus
      <3> QED
        BY <3>1, <3>2, ZenonT(30) DEF ApprovalRow
    <2>2. \A a \in DOMAIN approvals : approvals'[a] \in ApprovalRow /\ approvals'[a].state # "pending"
      BY <1>1, <2>1, RowTypes, IndInvMeans, Zenon
    <2>3. approvals' = [a \in DOMAIN approvals |-> approvals'[a]] /\ approvals \in Seq(ApprovalRow)
      BY <1>1, IndInvMeans, ZenonT(30) DEF TypeOK
    <2> QED
      BY <2>2, <2>3, RowsRewritten, Zenon
  <1>7. TypeOK'
    BY <1>1, <1>3, <1>5, <1>6, IndInvMeans, ZenonT(30) DEF TypeOK
  <1>8. FoldConsistent'
    <2>1. \A id \in StepIds : id[1] \in Nat
      BY FoldAssumption DEF FoldAssumption, StepIds
    <2>2. ASSUME NEW id \in StepIds
          PROVE  /\ run'.step[id].state = "leased" <=> run'.step[id].lease # 0
                 /\ run'.step[id].state = "absent" => run'.step[id].attempts = 0
                 /\ id[1] > run'.unwinds => run'.step[id].state = "absent"
      <3>1. CASE run'.step[id] = run.step[id]
        <4>1. id[1] > run'.unwinds => id[1] > run.unwinds
          BY <1>n, <1>4, <2>1
        <4> QED
          BY <3>1, <4>1, IndInvMeans, Zenon DEF FoldConsistent
      <3>2. CASE id \in NextUnwind /\ run'.step[id] = FreshStep
        <4>1. ~(id[1] > run'.unwinds)
          BY <1>n, <1>4, <2>1, <3>2 DEF NextUnwind
        <4> QED
          BY <3>2, <4>1 DEF FreshStep
      <3> QED
        BY <1>4, <3>1, <3>2, Zenon
    <2>3. run'.unwinds > 0
      BY <1>n, <1>4
    <2> QED
      BY <1>3, <1>4, <2>2, <2>3, Zenon DEF FoldConsistent
  <1>9. ActiveLeaseHeld'
    BY <1>5, Zenon DEF ActiveLeaseHeld
  <1>10. StepsInOrder'
    <2> SUFFICES ASSUME NEW f \in StepIds, Begun(f)', NEW e \in StepIds, Earlier(e, f)
                 PROVE  run'.step[e].state \in {"absent", "completed"}
      BY Zenon DEF StepsInOrder, Earlier, IsCompensation
    <2>1. run'.step[f] = run.step[f] /\ Begun(f)
      BY <1>4 DEF Begun, FreshStep
    <2>2. ~(f[1] > run.unwinds)
      BY <2>1, IndInvMeans DEF FoldConsistent, Begun
    <2>3. e \notin NextUnwind
      <3>1. e[1] \in Int /\ f[1] \in Int
        BY FoldAssumption DEF FoldAssumption, StepIds
      <3> QED
        BY <1>n, <2>2, <3>1 DEF Earlier, IsCompensation, NextUnwind
    <2> QED
      BY <1>4, <2>1, <2>3, IndInvMeans, Zenon DEF StepsInOrder
  <1>11. OneApprovalPending'
    BY <1>3, <1>4, <1>6, Zenon DEF OneApprovalPending, PendingApprovals
  <1>l. Lasting
    <2>1. \A id \in NextUnwind : id \notin Workflow /\ run.step[id].state = "absent"
      <3>1. \A id \in NextUnwind : id \in StepIds /\ id[1] > run.unwinds /\ id[1] # 0
        BY <1>n DEF NextUnwind
      <3> QED
        BY <3>1, IndInvMeans, Zenon DEF FoldConsistent, Workflow
    <2>2. run.state \notin {"completed", "abandoned"}
      BY Zenon DEF Abandon
    <2> QED
      BY <1>4, <2>1, <2>2, WorkflowSteps, Zenon DEF Lasting
  <1> QED
    BY <1>l, <1>7, <1>8, <1>9, <1>10, <1>11, Zenon DEF IndInv

----------------------------------------------------------------------------
\* The theorems.

\* Before anything happens the invariant holds.
LEMMA InitIndInv == Init => IndInv
  <1> SUFFICES ASSUME Init
               PROVE  IndInv
    OBVIOUS
  <1> DEFINE b == [s \in Steps |-> "none"]
             q == RunCreated(b)
             absent == [id \in StepIds |-> AbsentStep]
  <1>1. b \in [Steps -> Declared]
    BY Zenon DEF Declared
  <1> HIDE DEF b
  <1>2. /\ q \in RunState /\ q.park_reason = "none" /\ q.pending_approval = 0
        /\ q.abandoning = FALSE /\ q.unwinds = 0
    BY <1>1, RunCreatedEffect, Zenon
  <1>3. run = [q EXCEPT !.state = "none", !.step = absent]
    BY Zenon DEF Init, NoRun, b
  <1> HIDE DEF q
  <1>4. absent \in [StepIds -> StepState] /\ \A id \in StepIds : absent[id] = AbsentStep
    BY FoldAssumption DEF FoldAssumption, AbsentStep, StepState, StepStatus
  <1> HIDE DEF absent
  <1>5. /\ run \in RunState /\ run.state = "none" /\ run.step = absent
        /\ run.park_reason = "none" /\ run.pending_approval = 0
        /\ run.abandoning = FALSE /\ run.unwinds = 0
    BY <1>2, <1>3, <1>4, Zenon DEF RunState, RunStatus
  <1>6. leases = <<>> /\ approvals = <<>> /\ DOMAIN leases = {} /\ DOMAIN approvals = {}
    BY DEF Init
  <1>7. TypeOK
    BY <1>5, <1>6, EmptyTable, Zenon DEF TypeOK, Init
  <1>8. FoldConsistent
    BY <1>4, <1>5, <1>6 DEF FoldConsistent, AbsentStep
  <1>9. ActiveLeaseHeld
    BY <1>6, Zenon DEF ActiveLeaseHeld
  <1>10. StepsInOrder
    BY <1>4, <1>5 DEF StepsInOrder, Begun, AbsentStep
  <1>11. OneApprovalPending
    BY <1>5, <1>6, Zenon DEF OneApprovalPending, PendingApprovals
  <1> QED
    BY <1>7, <1>8, <1>9, <1>10, <1>11 DEF IndInv

\* Every step of the system preserves it, and takes nothing back that lasts.
LEMMA NextIndInv ==
    ASSUME IndInv, [Next]_vars
    PROVE  IndInv' /\ Lasting
  <1>1. ASSUME NEW b \in Bundles, StartRun(b)
        PROVE  IndInv' /\ Lasting
    BY <1>1, StartRunKeeps, Zenon
  <1>2. ASSUME NEW id \in StepIds, Lease(id)
        PROVE  IndInv' /\ Lasting
    BY <1>2, LeaseKeeps, Zenon
  <1>3. ASSUME NEW id \in StepIds, BackoffElapse(id)
        PROVE  IndInv' /\ Lasting
    BY <1>3, BackoffElapseKeeps, Zenon
  <1>4. ASSUME NEW l \in DOMAIN leases, Report(l)
        PROVE  IndInv' /\ Lasting
    <2>1. ASSUME NEW usage \in Usages \cup {NoUsage}, Complete(l, usage)
          PROVE  IndInv' /\ Lasting
      <3>1. StepEnds(l)
        BY <2>1, CompleteEnds, Zenon
      <3> QED
        BY <2>1, <3>1, StepEndsKeeps, Zenon DEF Complete
    <2>2. ASSUME NEW code \in ErrorCodes, NEW deterministic \in BOOLEAN,
                 Fail(l, code, deterministic)
          PROVE  IndInv' /\ Lasting
      <3>1. StepEnds(l)
        BY <2>2, FailEnds, Zenon
      <3> QED
        BY <2>2, <3>1, StepEndsKeeps, Zenon DEF Fail
    <2>3. ASSUME NEW action \in Actions, ProposeAction(l, action)
          PROVE  IndInv' /\ Lasting
      BY <2>3, ProposeActionKeeps, Zenon
    <2> QED
      BY <1>4, <2>1, <2>2, <2>3, Zenon DEF Report
  <1>5. ASSUME NEW l \in DOMAIN leases, Heartbeat(l)
        PROVE  IndInv' /\ Lasting
    <2>1. LeaseTTL \in 0..LeaseTTL
      BY KernelAssumption DEF KernelAssumption
    <2> QED
      BY <1>5, <2>1, LeaseClockKeeps, Zenon DEF Heartbeat
  <1>6. ASSUME NEW l \in DOMAIN leases, LeaseElapse(l)
        PROVE  IndInv' /\ Lasting
    <2> DEFINE t == leases[l].left - 1
    <2>1. t \in 0..LeaseTTL
      <3>1. leases[l].left \in 0..LeaseTTL /\ leases[l].left > 0
        BY <1>6, RowTypes, IndInvMeans, Zenon DEF LeaseElapse, Live, LeaseRow
      <3> QED
        BY <3>1, KernelAssumption DEF KernelAssumption
    <2>2. /\ leases' = [leases EXCEPT ![l].left = t]
          /\ UNCHANGED <<run, approvals, resumes>>
      BY <1>6, Zenon DEF LeaseElapse
    <2> HIDE DEF t
    <2> QED
      BY <2>1, <2>2, LeaseClockKeeps, Zenon
  <1>7. ASSUME NEW l \in DOMAIN leases, CallUnderLapsedLease(l)
        PROVE  IndInv' /\ Lasting
    <2>1. {l} \in SUBSET DOMAIN leases /\ (\A m \in {l} : Lapsed(m)) /\ Expire({l})
      BY <1>7, Zenon DEF CallUnderLapsedLease
    <2> QED
      BY <2>1, ExpireKeeps, Zenon
  <1>8. ASSUME SweepLeases
        PROVE  IndInv' /\ Lasting
    <2> DEFINE S == {l \in DOMAIN leases : Lapsed(l)}
    <2>1. S \in SUBSET DOMAIN leases /\ (\A m \in S : Lapsed(m)) /\ Expire(S)
      BY <1>8, Zenon DEF SweepLeases
    <2> HIDE DEF S
    <2> QED
      BY <2>1, ExpireKeeps, Zenon
  <1>9. ASSUME NEW a \in DOMAIN approvals, NEW decision \in {"approved", "rejected"},
               DecideApproval(a, decision)
        PROVE  IndInv' /\ Lasting
    BY <1>9, DecideApprovalKeeps, Zenon
  <1>10. ASSUME NEW a \in DOMAIN approvals, ApprovalElapse(a)
         PROVE  IndInv' /\ Lasting
    BY <1>10, ApprovalElapseKeeps, Zenon
  <1>11. ASSUME SweepApprovals \/ Abandon \/ Resume
         PROVE  IndInv' /\ Lasting
    BY <1>11, SweepApprovalsKeeps, AbandonKeeps, ResumeKeeps, Zenon
  <1>12. ASSUME UNCHANGED vars
         PROVE  IndInv' /\ Lasting
    <2>1. UNCHANGED <<run, leases, approvals, resumes>>
      BY <1>12, Zenon DEF vars
    <2>2. TypeOK' /\ FoldConsistent'
      BY <2>1, IndInvMeans, Zenon DEF TypeOK, FoldConsistent
    <2>3. ActiveLeaseHeld' /\ StepsInOrder'
      BY <2>1, IndInvMeans, Zenon DEF ActiveLeaseHeld, Held, StepsInOrder, Begun
    <2>4. OneApprovalPending'
      BY <2>1, IndInvMeans, Zenon DEF OneApprovalPending, PendingApprovals
    <2>5. Lasting
      BY <2>1, Zenon DEF Lasting
    <2> QED
      BY <2>2, <2>3, <2>4, <2>5, Zenon DEF IndInv
  <1> QED
    BY <1>1, <1>2, <1>3, <1>4, <1>5, <1>6, <1>7, <1>8, <1>9, <1>10, <1>11, <1>12, Zenon DEF Next

\* The conjunction of all the invariants below holds in every reachable state.
THEOREM Invariance == Spec => []IndInv
  <1>1. IndInv /\ [Next]_vars => IndInv'
    BY NextIndInv, Zenon
  <1> QED
    BY <1>1, InitIndInv, PTL DEF Spec

\* Every value the kernel stores has its type: in particular a lease never outlives
\* its TTL and an approval never has more than one SLA left.
THEOREM TypeCorrect == Spec => []TypeOK
  <1>1. IndInv => TypeOK
    BY IndInvMeans, Zenon
  <1> QED
    BY <1>1, Invariance, PTL

\* The leases table and the fold always agree, whatever reports race with expiry,
\* abandonment and each other.
THEOREM LeasesAgree == Spec => []ActiveLeaseHeld
  <1>1. IndInv => ActiveLeaseHeld
    BY IndInvMeans, Zenon
  <1> QED
    BY <1>1, Invariance, PTL

\* Steps start in the order of the workflow, and compensations in the reverse order.
THEOREM OrderRespected == Spec => []StepsInOrder
  <1>1. IndInv => StepsInOrder
    BY IndInvMeans, Zenon
  <1> QED
    BY <1>1, Invariance, PTL

\* The approvals table, the fold and the waiting step always agree.
THEOREM ApprovalsAgree == Spec => []OneApprovalPending
  <1>1. IndInv => OneApprovalPending
    BY IndInvMeans, Zenon
  <1> QED
    BY <1>1, Invariance, PTL

\* No operation takes back a completed step or the end of a run.
THEOREM EffectsLast == Spec => EffectsArePermanent
  <1>1. IndInv /\ [Next]_vars =>
          [/\ \A id \in StepIds :
                 run.step[id].state = "completed" => run'.step[id].state = "completed"
           /\ run.state \in {"completed", "abandoned"} => run'.state = run.state]_vars
    BY NextIndInv, Zenon DEF Lasting
  <1> QED
    BY <1>1, Invariance, PTL DEF Spec, EffectsArePermanent

\* Once a run is being abandoned, nothing moves its workflow again.
THEOREM WorkflowStaysFrozen == Spec => WorkflowFrozen
  <1>1. IndInv /\ [Next]_vars =>
          [run.abandoning => \A id \in Workflow :
                run'.step[id].state = run.step[id].state]_vars
    BY NextIndInv, Zenon DEF Lasting
  <1> QED
    BY <1>1, Invariance, PTL DEF Spec, WorkflowFrozen

----------------------------------------------------------------------------
\* What the operations come to, the reports apart: first what the events leave
\* alone, which is the compensations, the bundle and the budget.

\* Events about the run and its approvals touch neither compensations nor the budget.
LEMMA RunFrame ==
    ASSUME NEW r \in RunState
    PROVE  /\ \A x \in ParkReason : Framed(r, RunParked(r, x))
           /\ Framed(r, RunResumed(r))
           /\ Framed(r, RunCompleted(r))
           /\ \A h \in BOOLEAN : Framed(r, RunFailed(r, h))
           /\ \A a \in Nat : Framed(r, ApprovalRequested(r, a)) /\ Framed(r, ApprovalDecided(r, a))
           /\ Framed(r, RunAbandoned(r))
  BY Zenon
  DEF RunState, RunParked, RunResumed, RunCompleted, RunFailed, ApprovalRequested,
      ApprovalDecided, RunAbandoned, Framed, SameEntries, SameAccounts

\* Events about a step touch neither compensations nor the budget.
LEMMA StepFrame ==
    ASSUME NEW r \in RunState, NEW id \in StepIds
    PROVE  /\ \A l \in Nat : Framed(r, StepLeased(r, id, l))
           /\ Framed(r, StepCompleted(r, id))
           /\ Framed(r, StepFailed(r, id))
           /\ \A delay \in 0..Backoff : Framed(r, StepRetryScheduled(r, id, delay))
           /\ Framed(r, StepQuarantined(r, id))
           /\ Framed(r, StepWaitingApproval(r, id))
  BY Zenon
  DEF RunState, StepLeased, StepCompleted, StepFailed, StepRetryScheduled, StepQuarantined,
      StepWaitingApproval, Framed, SameEntries, SameAccounts

\* Nor do the events that concern several steps at once.
LEMMA StepsFrame ==
    ASSUME NEW r \in RunState, NEW S \in SUBSET StepIds
    PROVE  Framed(r, StepsScheduled(r, S)) /\ Framed(r, StepLeasesExpired(r, S))
  BY Zenon DEF RunState, StepsScheduled, StepLeasesExpired, Framed, SameEntries, SameAccounts

\* heartbeat and the passing of a lease's time.
LEMMA LeaseClockQuiet ==
    ASSUME IndInv, NEW l \in DOMAIN leases, Heartbeat(l) \/ LeaseElapse(l)
    PROVE  Quiet
  <1>1. PICK t : leases' = [leases EXCEPT ![l].left = t] /\ UNCHANGED <<run, approvals, resumes>>
    BY Zenon DEF Heartbeat, LeaseElapse
  <1>2. leases[l] \in LeaseRow
    BY RowTypes, IndInvMeans, Zenon
  <1>3. DOMAIN leases' = DOMAIN leases /\ \A m \in DOMAIN leases :
            leases'[m].state = leases[m].state /\ leases'[m].step = leases[m].step
    <2> DEFINE row == [leases[l] EXCEPT !.left = t]
    <2>1. row.state = leases[l].state /\ row.step = leases[l].step
      BY <1>2, Zenon DEF LeaseRow
    <2>2. leases' = [leases EXCEPT ![l] = row]
      BY <1>1, Zenon
    <2> HIDE DEF row
    <2> QED
      BY <2>1, <2>2, Zenon
  <1> QED
    BY <1>1, <1>3, Zenon DEF Quiet, Framed, SameEntries, SameAccounts

\* The passing of an approval's time.
LEMMA ApprovalClockQuiet ==
    ASSUME IndInv, NEW a \in DOMAIN approvals, ApprovalElapse(a)
    PROVE  Quiet
  <1> DEFINE row == [approvals[a] EXCEPT !.left = @ - 1]
  <1>1. approvals[a] \in ApprovalRow
    BY RowTypes, IndInvMeans, Zenon
  <1>2. /\ row.state = approvals[a].state /\ row.step = approvals[a].step
        /\ row.action = approvals[a].action
    BY <1>1, Zenon DEF ApprovalRow
  <1>3. approvals' = [approvals EXCEPT ![a] = row] /\ UNCHANGED <<run, leases, resumes>>
    BY Zenon DEF ApprovalElapse
  <1> HIDE DEF row
  <1> QED
    BY <1>2, <1>3, Zenon DEF Quiet, Framed, SameEntries, SameAccounts

\* The passing of a back-off.
LEMMA BackoffClockQuiet ==
    ASSUME IndInv, NEW id \in StepIds, BackoffElapse(id)
    PROVE  Quiet
  <1> DEFINE new == [run.step[id] EXCEPT !.not_before = @ - 1]
             steps == [run.step EXCEPT ![id] = new]
  <1>1. run \in RunState /\ run.step \in [StepIds -> StepState] /\ run.step[id] \in StepState
    BY IndInvMeans, Zenon DEF TypeOK, RunState
  <1>2. new.state = run.step[id].state /\ new.attempts = run.step[id].attempts
    BY <1>1, Zenon DEF StepState
  <1>3. run' = [run EXCEPT !.step = steps] /\ UNCHANGED <<leases, approvals, resumes>>
    BY Zenon DEF BackoffElapse
  <1> HIDE DEF new
  <1>4. \A e \in StepIds : steps[e].state = run.step[e].state /\ steps[e].attempts = run.step[e].attempts
    BY <1>1, <1>2, Zenon
  <1> HIDE DEF steps
  <1>5. /\ run'.step = steps /\ run'.state = run.state /\ run'.park_reason = run.park_reason
        /\ run'.abandoning = run.abandoning /\ run'.unwinds = run.unwinds /\ Framed(run, run')
    BY <1>1, <1>3, Zenon DEF RunState, Framed, SameEntries, SameAccounts
  <1> QED
    BY <1>3, <1>4, <1>5, Zenon DEF Quiet

\* The approvals sweeper escalates the pending approval or parks its run for a human.
LEMMA SweepApprovalsQuiet ==
    ASSUME IndInv, SweepApprovals
    PROVE  Quiet
  <1> DEFINE Overdue == {b \in PendingApprovals :
                            approvals[b].left = 0 /\ ~approvals[b].parked_human}
             Twice == {b \in Overdue : approvals[b].escalations > 0}
  <1>1. /\ Overdue # {}
        /\ run' = IF Twice # {} THEN RunParked(run, "human") ELSE run
        /\ approvals' = [b \in DOMAIN approvals |->
              IF b \in Twice THEN [approvals[b] EXCEPT !.parked_human = TRUE]
              ELSE IF b \in Overdue THEN [approvals[b] EXCEPT !.escalations = 1, !.left = SLA]
              ELSE approvals[b]]
        /\ UNCHANGED <<leases, resumes>>
    BY ZenonT(30) DEF SweepApprovals
  <1>2. PICK a \in PendingApprovals : a \in Overdue
    BY <1>1, Zenon
  <1>3. run \in RunState /\ run.state = "parked" /\ run.park_reason # "budget"
    <2>1. run \in RunState /\ run.state = "parked"
      BY PendingApprovalFacts, Zenon
    <2>2. run.park_reason \in {"approval", "human"}
      BY IndInvMeans, Zenon DEF OneApprovalPending
    <2> QED
      BY <2>1, <2>2, Zenon
  <1>4. DOMAIN approvals' = DOMAIN approvals /\ \A b \in DOMAIN approvals :
            /\ approvals'[b].state = approvals[b].state /\ approvals'[b].step = approvals[b].step
            /\ approvals'[b].action = approvals[b].action
    <2>1. \A b \in DOMAIN approvals : approvals[b] \in ApprovalRow
      BY RowTypes, IndInvMeans, Zenon
    <2>2. DOMAIN approvals' = DOMAIN approvals
      BY <1>1, Zenon
    <2>3. ASSUME NEW b \in DOMAIN approvals
          PROVE  approvals'[b] \in {[approvals[b] EXCEPT !.parked_human = TRUE],
                    [approvals[b] EXCEPT !.escalations = 1, !.left = SLA], approvals[b]}
      BY <1>1, Zenon
    <2> HIDE DEF Overdue, Twice
    <2> QED
      BY <2>1, <2>2, <2>3, ZenonT(30) DEF ApprovalRow
  <1> HIDE DEF Overdue, Twice
  <1>5. /\ run'.state = run.state /\ run'.park_reason # "budget"
        /\ OnlyStatus(run, run') /\ Framed(run, run')
    <2>1. CASE run' = RunParked(run, "human")
      <3>1. "human" \in ParkReason
        BY Zenon DEF ParkReason
      <3> QED
        BY <1>3, <2>1, <3>1, RunParkedEffect, RunFrame, Zenon
    <2>2. CASE run' = run
      BY <1>3, <2>2, Zenon DEF OnlyStatus, Framed, SameEntries, SameAccounts
    <2>3. run' = RunParked(run, "human") \/ run' = run
      BY <1>1, Zenon
    <2> QED
      BY <2>1, <2>2, <2>3, Zenon
  <1>6. leases' = leases
    BY <1>1, Zenon
  <1> QED
    BY <1>3, <1>4, <1>5, <1>6, Zenon DEF Quiet, OnlyStatus

\* lease.
LEMMA LeaseGranted ==
    ASSUME IndInv, NEW id \in StepIds, Lease(id)
    PROVE  Granted(id)
  <1> DEFINE l == Len(leases) + 1
             row == NewLease(id)
             new == [state |-> "leased", attempts |-> run.step[id].attempts + 1,
                     lease |-> l, not_before |-> 0]
  <1>1. /\ run \in RunState /\ leases \in Seq(LeaseRow)
        /\ DOMAIN leases = 1..Len(leases) /\ Len(leases) \in Nat
    BY RowTypes, IndInvMeans, Zenon DEF TypeOK
  <1>2. /\ run.state = "running" /\ run.step[id].state = "scheduled"
        /\ run' = StepLeased(run, id, l) /\ leases' = Append(leases, row)
        /\ UNCHANGED <<approvals, resumes>>
    BY Zenon DEF Lease, Runnable
  <1>3. /\ run'.state = run.state /\ run'.step[id].state = "leased"
        /\ OnlySteps(run, run', {id}) /\ Framed(run, run')
    <2>1. l \in Nat
      BY <1>1
    <2>2. PICK r : r = StepLeased(run, id, l)
      OBVIOUS
    <2> HIDE DEF l
    <2>3. r.state = run.state /\ r.step[id].state = "leased" /\ OnlySteps(run, r, {id})
      BY <1>1, <2>1, <2>2, StepLeasedEffect
    <2>4. Framed(run, r)
      BY <1>1, <2>1, <2>2, StepFrame, Zenon
    <2> QED
      BY <1>2, <2>2, <2>3, <2>4, Zenon
  <1>4. run'.step[id].attempts = run.step[id].attempts + 1
    <2>1. run' = [run EXCEPT !.step = [run.step EXCEPT ![id] = new]]
      BY <1>1, <1>2, Zenon DEF StepLeased, RunState
    <2>2. run.step \in [StepIds -> StepState]
      BY <1>1, Zenon DEF RunState
    <2>3. run'.step[id] = new
      BY <1>1, <2>1, <2>2, Zenon DEF RunState
    <2> QED
      BY <2>3
  <1>5. row \in LeaseRow /\ row.state = "active"
    BY KernelAssumption DEF KernelAssumption, NewLease, LeaseRow, LeaseStatus
  <1> HIDE DEF row
  <1>6. /\ DOMAIN leases' = DOMAIN leases \cup {l}
        /\ \A m \in DOMAIN leases : leases'[m] = leases[m]
        /\ leases'[l] = row
    <2>1. /\ leases' \in Seq(LeaseRow) /\ Len(leases') = Len(leases) + 1
          /\ \A m \in 1..Len(leases) : leases'[m] = leases[m]
          /\ leases'[l] = row
      BY <1>1, <1>2, <1>5, RowAppended
    <2>2. DOMAIN leases' = 1..(Len(leases) + 1)
      BY <2>1, TableTyped, Zenon
    <2> QED
      BY <1>1, <2>1, <2>2
  <1> QED
    BY <1>2, <1>3, <1>4, <1>5, <1>6, Zenon DEF Granted, StepMoves, OnlySteps

\* expire_lease, by the sweeper or by a late call.
LEMMA LeasesExpire ==
    ASSUME IndInv, NEW S \in SUBSET DOMAIN leases, \A l \in S : Lapsed(l), Expire(S)
    PROVE  \E T \in SUBSET StepIds : Expired(S, T)
  <1> DEFINE T == {id \in StepIds : \E l \in S : leases[l].step = id /\ run.step[id].lease = l}
  <1>1. run \in RunState /\ \A l \in DOMAIN leases : leases[l] \in LeaseRow
    BY RowTypes, IndInvMeans, Zenon DEF TypeOK
  <1>2. /\ run' = StepLeasesExpired(run, T) /\ UNCHANGED <<approvals, resumes>>
        /\ leases' = [l \in DOMAIN leases |->
              IF l \in S THEN [leases[l] EXCEPT !.state = "expired"] ELSE leases[l]]
    BY Zenon DEF Expire
  <1>3. /\ run'.state = run.state /\ run'.park_reason = run.park_reason
        /\ \A id \in T : /\ run'.step[id].state = "scheduled"
                         /\ run'.step[id].attempts = run.step[id].attempts
        /\ OnlySteps(run, run', T) /\ Framed(run, run')
    BY <1>1, <1>2, StepLeasesExpiredEffect, StepsFrame
  <1>4. \A id \in T : run.step[id].state = "leased" /\ \E l \in S : leases[l].step = id
    BY IndInvMeans DEF ActiveLeaseHeld, Lapsed, Held
  <1> HIDE DEF T
  <1>5. \A l \in S : LET row == [leases[l] EXCEPT !.state = "expired"]
                     IN  row.state = "expired" /\ row.step = leases[l].step
    BY <1>1, Zenon DEF LeaseRow
  <1>6. /\ DOMAIN leases' = DOMAIN leases
        /\ \A l \in S : leases'[l].state = "expired" /\ leases'[l].step = leases[l].step
        /\ \A l \in DOMAIN leases \ S : leases'[l] = leases[l]
    BY <1>2, <1>5, Zenon
  <1>7. \A l \in S : leases[l].state = "active"
    BY Zenon DEF Lapsed
  <1>8. Expired(S, T)
    BY <1>2, <1>3, <1>4, <1>6, <1>7 DEF Expired, OnlySteps
  <1> QED
    BY <1>8, Zenon DEF T

\* The row of an approval just asked for (propose_action).
LEMMA FreshApproval ==
    ASSUME NEW id \in StepIds, NEW action \in Actions
    PROVE  /\ NewApproval(id, action) \in ApprovalRow /\ NewApproval(id, action).step = id
           /\ NewApproval(id, action).state = "pending" /\ NewApproval(id, action).action = action
  <1> DEFINE Left == 0..SLA
  <1>1. SLA \in Left
    BY KernelAssumption
  <1> HIDE DEF Left
  <1>2. NewApproval(id, action) \in [step: StepIds, action: Actions, state: ApprovalStatus,
                                     escalations: {0, 1}, parked_human: BOOLEAN, left: Left]
    BY <1>1, Zenon DEF NewApproval, ApprovalStatus
  <1>3. NewApproval(id, action) \in ApprovalRow
    BY <1>2, Zenon DEF ApprovalRow, Left
  <1> QED
    BY <1>3, Zenon DEF NewApproval

\* decide_approval.
LEMMA ApprovalIsDecided ==
    ASSUME IndInv, NEW a \in DOMAIN approvals, NEW decision \in {"approved", "rejected"},
           DecideApproval(a, decision)
    PROVE  Decided(a, decision)
  <1> DEFINE id == approvals[a].step
             r == ApprovalDecided(run, a)
             row == [approvals[a] EXCEPT !.state = decision, !.left = 0]
  <1>1. a \in PendingApprovals
    BY Zenon DEF DecideApproval, PendingApprovals
  <1>2. /\ a \in Nat /\ approvals[a] \in ApprovalRow /\ id \in StepIds
        /\ run \in RunState /\ run.pending_approval = a /\ run.state = "parked"
        /\ run.step[id].state = "waiting_approval"
        /\ run.abandoning <=> IsCompensation(id)
    BY <1>1, PendingApprovalFacts, Zenon
  <1>p. run.park_reason \in {"approval", "human"}
    BY <1>1, IndInvMeans, Zenon DEF OneApprovalPending
  <1>3. /\ run' = IF decision = "approved"
                    THEN StepsScheduled(IF r.state = "parked" THEN RunResumed(r) ELSE r, {id})
                    ELSE RunFailed(StepFailed(r, id), FALSE)
        /\ approvals' = [approvals EXCEPT ![a] = row]
        /\ UNCHANGED leases
    BY Zenon DEF DecideApproval
  <1>4. row.state = decision /\ row.step = id /\ row.action = approvals[a].action
    BY <1>2, Zenon DEF ApprovalRow
  <1> HIDE DEF row
  <1>5. /\ DOMAIN approvals' = DOMAIN approvals
        /\ approvals'[a] = row
        /\ \A b \in DOMAIN approvals \ {a} : approvals'[b] = approvals[b]
    BY <1>3, Zenon
  <1>l. leases' = leases
    BY <1>3, Zenon
  <1> HIDE DEF id
  <1>6. r \in RunState /\ r = [run EXCEPT !.pending_approval = 0]
    BY <1>2, ApprovalEffect, Zenon
  <1>7. Framed(run, r)
    BY <1>2, RunFrame, Zenon
  <1>8. /\ r.step = run.step /\ r.state = "parked"
        /\ r.abandoning = run.abandoning /\ r.unwinds = run.unwinds
    BY <1>2, <1>6 DEF RunState
  <1> HIDE DEF r
  <1>9. CASE decision = "approved"
    <2> DEFINE q == RunResumed(r)
    <2>1. q \in RunState /\ q.state = "running" /\ OnlyStatus(r, q) /\ Framed(r, q)
      BY <1>6, RunResumedEffect, RunFrame, Zenon
    <2>2. run' = StepsScheduled(q, {id}) /\ {id} \in SUBSET StepIds
      BY <1>2, <1>3, <1>8, <1>9, Zenon
    <2> HIDE DEF q
    <2>3. /\ run'.state = "running" /\ run'.step[id] = FreshStep
          /\ OnlySteps(q, run', {id}) /\ Framed(q, run')
      BY <2>1, <2>2, StepsScheduledEffect, StepsFrame, Zenon
    <2>4. StepMoves(id, "scheduled") /\ run'.step[id].attempts = 0
      BY <1>8, <2>1, <2>3 DEF StepMoves, OnlySteps, OnlyStatus, FreshStep
    <2>5. Framed(run, run')
      BY <1>7, <2>1, <2>3, Zenon DEF Framed, SameEntries, SameAccounts
    <2> QED
      BY <1>1, <1>2, <1>p, <1>l, <1>4, <1>5, <1>9, <2>3, <2>4, <2>5, Zenon DEF Decided, id
  <1>10. CASE decision = "rejected"
    <2> DEFINE q == StepFailed(r, id)
    <2>1. Ended(r, q, id, "failed") /\ Framed(r, q)
      BY <1>2, <1>6, StepEndedEffect, StepFrame, Zenon
    <2>2. run' = RunFailed(q, FALSE) /\ q \in RunState
      BY <1>3, <1>10, <2>1, Zenon DEF Ended
    <2> HIDE DEF q
    <2>3. run'.state = "failed" /\ OnlyStatus(q, run') /\ Framed(q, run')
      BY <2>2, RunFailedEffect, RunFrame, Zenon
    <2>4. StepMoves(id, "failed") /\ run'.step[id].attempts = run.step[id].attempts
      BY <1>8, <2>1, <2>3, Zenon DEF StepMoves, Ended, OnlySteps, OnlyStatus
    <2>5. Framed(run, run')
      BY <1>7, <2>1, <2>3, Zenon DEF Framed, SameEntries, SameAccounts
    <2> QED
      BY <1>1, <1>2, <1>p, <1>l, <1>4, <1>5, <1>10, <2>3, <2>4, <2>5, Zenon DEF Decided, id
  <1> QED
    BY <1>9, <1>10, Zenon

\* resume.
LEMMA ResumeRestarts ==
    ASSUME IndInv, Resume
    PROVE  \E S \in SUBSET StepIds : Restarted(S)
  <1> DEFINE S == {id \in Workflow : run.step[id].state \in {"quarantined", "failed"}}
             q == RunResumed(run)
  <1>1. /\ run \in RunState /\ run.state = "parked" /\ PendingApprovals = {}
        /\ run.park_reason \in {"human", "connector_quarantined", "quarantine", "refusal"}
        /\ run' = StepsScheduled(q, S) /\ UNCHANGED <<leases, approvals>>
    BY IndInvMeans, Zenon DEF Resume, TypeOK
  <1>2. S \in SUBSET StepIds /\ S \subseteq Workflow
    BY FoldAssumption DEF FoldAssumption, Workflow, StepIds
  <1>3. \A id \in S : run.step[id].state \in {"quarantined", "failed"}
    OBVIOUS
  <1>4. q.state = "running" /\ q \in RunState /\ OnlyStatus(run, q) /\ Framed(run, q)
    BY <1>1, RunResumedEffect, RunFrame, Zenon
  <1> HIDE DEF q, S
  <1>5. /\ run'.state = "running" /\ \A id \in S : run'.step[id] = FreshStep
        /\ OnlySteps(q, run', S) /\ Framed(q, run')
    BY <1>1, <1>2, <1>4, StepsScheduledEffect, StepsFrame, Zenon
  <1>6. ~run.abandoning
    BY <1>1, IndInvMeans, Zenon DEF FoldConsistent, OneApprovalPending
  <1>7. /\ \A id \in StepIds \ S : run'.step[id] = run.step[id]
        /\ run'.abandoning = run.abandoning /\ run'.unwinds = run.unwinds
    BY <1>4, <1>5, Zenon DEF OnlySteps, OnlyStatus
  <1>8. Framed(run, run')
    BY <1>4, <1>5, Zenon DEF Framed, SameEntries, SameAccounts
  <1>9. \A id \in S : run'.step[id].state = "scheduled" /\ run'.step[id].attempts = 0
    BY <1>5 DEF FreshStep
  <1>10. Restarted(S)
    BY <1>1, <1>2, <1>3, <1>5, <1>6, <1>7, <1>8, <1>9, Zenon DEF Restarted
  <1> QED
    BY <1>2, <1>10, Zenon

\* start_run.
LEMMA RunIsStarted ==
    ASSUME IndInv, NEW b \in Bundles, StartRun(b)
    PROVE  Started(b)
  <1>1. b \in [Steps -> Declared]
    BY KernelAssumption, Zenon DEF KernelAssumption
  <1>2. /\ run.state = "none" /\ run' = RunCreated(b) /\ UNCHANGED <<leases, approvals>>
    BY Zenon DEF StartRun
  <1>3. /\ run'.state = "running" /\ run'.abandoning = FALSE /\ run'.unwinds = 0
        /\ \A id \in StepIds : run'.step[id] = IF id[1] = 0 THEN FreshStep ELSE AbsentStep
    BY <1>1, <1>2, RunCreatedEffect, Zenon
  <1>4. /\ run'.bundle = b /\ run'.compensation = [c \in Compensations |-> "none"]
        /\ run'.used = [d \in Dims |-> 0] /\ run'.exceeded = FALSE
    BY <1>2, Zenon DEF RunCreated
  <1>5. leases = <<>> /\ approvals = <<>>
    BY <1>2, IndInvMeans, Zenon DEF FoldConsistent
  <1> QED
    BY <1>2, <1>3, <1>4, <1>5 DEF Started

\* What follows run.abandoned.  No entry of a compensation that does not resolve
\* exists, so there is none for compensation.failed to mark.
LEMMA UnwindOutcome ==
    ASSUME NEW r \in RunState, r.abandoning, r.state = "abandoned",
           \A c \in Compensations : r.compensation[c] # "none" => r.bundle[c[2]] = "resolves"
    PROVE  LET q == Unwind(r)
           IN  /\ q.abandoning = r.abandoning /\ q.unwinds = r.unwinds
               /\ q.bundle = r.bundle /\ SameAccounts(r, q)
               /\ \A c \in Compensations : q.compensation[c] =
                     IF c[1] = r.unwinds /\ c[2] \in Resolvable(r) THEN "scheduled"
                     ELSE r.compensation[c]
               /\ \A id \in StepIds : q.step[id] =
                     IF id[1] = r.unwinds /\ id[2] \in Resolvable(r) THEN FreshStep ELSE r.step[id]
               /\ q.state = IF ToCompensate(r) # Resolvable(r) THEN "failed"
                            ELSE IF Resolvable(r) = {} THEN "abandoned" ELSE "running"
  <1> DEFINE R == Resolvable(r)
             F == ToCompensate(r) \ R
             marks == [c \in Compensations |->
                          IF c[2] \in F /\ FirstEntry(r, c) THEN "failed" ELSE r.compensation[c]]
             m == [r EXCEPT !.compensation = marks]
             comps == [c \in Compensations |->
                          IF c[1] = m.unwinds /\ c[2] \in R THEN "scheduled" ELSE m.compensation[c]]
             steps == [id \in StepIds |->
                          IF id[1] = m.unwinds /\ id[2] \in R THEN FreshStep ELSE m.step[id]]
             t == IF R # {} THEN "running" ELSE "abandoned"
             u == [m EXCEPT !.compensation = comps, !.step = steps, !.state = t]
  <1>1. Unwind(r) = IF F = {} THEN CompensationsScheduled(m, R)
                    ELSE RunFailed(CompensationsScheduled(m, R), TRUE)
    BY Zenon DEF Unwind, Resolvable
  <1>2. F = {} <=> ToCompensate(r) = Resolvable(r)
    BY Zenon DEF Resolvable
  <1>3. \A c \in Compensations : ~(c[2] \in F /\ FirstEntry(r, c))
    BY Zenon DEF FirstEntry, Resolvable
  <1> HIDE DEF R, F
  <1>4. marks = r.compensation
    <2>1. r.compensation \in [Compensations -> CompensationStatus]
      BY Zenon DEF RunState
    <2> QED
      BY <1>3, <2>1, Zenon
  <1> HIDE DEF marks
  <1>5. /\ m \in RunState /\ m.step = r.step /\ m.abandoning = r.abandoning /\ m.state = "abandoned"
        /\ m.unwinds = r.unwinds /\ m.compensation = r.compensation /\ m.bundle = r.bundle
        /\ SameAccounts(r, m)
    BY <1>4, Zenon DEF RunState, SameAccounts
  <1>6. CompensationsScheduled(m, R) = u
    BY <1>5, Zenon DEF CompensationsScheduled
  <1> HIDE DEF m
  <1>7. \A c \in Compensations : comps[c] =
           IF c[1] = r.unwinds /\ c[2] \in R THEN "scheduled" ELSE r.compensation[c]
    BY <1>5, Zenon
  <1>8. \A id \in StepIds : steps[id] =
           IF id[1] = r.unwinds /\ id[2] \in R THEN FreshStep ELSE r.step[id]
    BY <1>5, Zenon
  <1>9. comps \in [Compensations -> CompensationStatus] /\ steps \in [StepIds -> StepState]
    <2>1. FreshStep \in StepState /\ m.step \in [StepIds -> StepState]
          /\ m.compensation \in [Compensations -> CompensationStatus]
      BY <1>5, FoldAssumption DEF FoldAssumption, FreshStep, StepState, StepStatus, RunState
    <2> QED
      BY <2>1, Zenon DEF CompensationStatus
  <1>10. t \in RunStatus
    BY Zenon DEF RunStatus
  <1> HIDE DEF comps, steps, t
  <1>11. /\ u \in RunState /\ u.compensation = comps /\ u.step = steps /\ u.state = t
         /\ u.abandoning = r.abandoning /\ u.unwinds = r.unwinds /\ u.bundle = r.bundle
         /\ SameAccounts(r, u)
    BY <1>5, <1>9, <1>10, Zenon DEF RunState, SameAccounts
  <1> HIDE DEF u
  <1> DEFINE q == Unwind(r)
  <1>12. /\ OnlyStatus(u, q) /\ Framed(u, q)
         /\ q.state = IF F = {} THEN t ELSE "failed"
    <2>1. CASE F = {}
      <3>1. q = u
        BY <1>1, <1>6, <2>1, Zenon
      <3> HIDE DEF q
      <3> QED
        BY <1>11, <2>1, <3>1, Zenon DEF OnlyStatus, Framed, SameEntries, SameAccounts
    <2>2. CASE F # {}
      <3>1. q = RunFailed(u, TRUE)
        BY <1>1, <1>6, <2>2, Zenon
      <3> HIDE DEF q
      <3>2. q.state = "failed" /\ OnlyStatus(u, q) /\ Framed(u, q)
        BY <1>11, <3>1, RunFailedEffect, RunFrame, Zenon
      <3> QED
        BY <2>2, <3>2, Zenon
    <2> QED
      BY <2>1, <2>2, Zenon
  <1> HIDE DEF q
  <1>13. /\ q.abandoning = r.abandoning /\ q.unwinds = r.unwinds
         /\ q.bundle = r.bundle /\ SameAccounts(r, q)
         /\ q.compensation = comps /\ q.step = steps
    BY <1>11, <1>12, Zenon DEF OnlyStatus, Framed, SameEntries, SameAccounts
  <1>14. q.state = IF ToCompensate(r) # R THEN "failed" ELSE IF R = {} THEN "abandoned" ELSE "running"
    BY <1>2, <1>12, Zenon DEF R, t
  <1> QED
    BY <1>7, <1>8, <1>13, <1>14, Zenon DEF q, R

\* abandon.
LEMMA AbandonGivesUp ==
    ASSUME IndInv, CompensationsAgree, Abandon
    PROVE  GivenUp
  <1> DEFINE r == RunAbandoned(run)
  <1>1. /\ run \in RunState /\ run.state \in {"running", "parked", "failed"}
        /\ ~unwind_pending(run) /\ run.unwinds < MaxUnwinds
        /\ run' = Unwind(r)
        /\ leases' = [l \in DOMAIN leases |->
              IF leases[l].state = "active"
                THEN [leases[l] EXCEPT !.state = "released", !.left = 0] ELSE leases[l]]
        /\ approvals' = [a \in DOMAIN approvals |->
              IF approvals[a].state = "pending"
                THEN [approvals[a] EXCEPT !.state = "cancelled", !.left = 0] ELSE approvals[a]]
    BY IndInvMeans, Zenon DEF Abandon, TypeOK
  <1>2. run.unwinds + 1 \in 1..MaxUnwinds
    <2>1. run.unwinds \in 0..MaxUnwinds /\ run.unwinds < MaxUnwinds
      BY <1>1, Zenon DEF RunState
    <2> QED
      BY <2>1, FoldAssumption DEF FoldAssumption
  <1>3. /\ r \in RunState /\ r.step = run.step
        /\ r.abandoning = TRUE /\ r.state = "abandoned" /\ r.unwinds = run.unwinds + 1
    BY <1>1, RunAbandonedEffect, ZenonT(30)
  <1>4. Framed(run, r)
    BY <1>1, RunFrame, Zenon
  <1> HIDE DEF r
  <1>5. /\ ToCompensate(r) = ToCompensate(run) /\ Resolvable(r) = Resolvable(run)
        /\ \A c \in Compensations : r.compensation[c] # "none" => r.bundle[c[2]] = "resolves"
    BY <1>3, <1>4 DEF ToCompensate, Resolvable, Framed, SameEntries, CompensationsAgree
  <1>6. /\ run'.abandoning = r.abandoning /\ run'.unwinds = r.unwinds
        /\ run'.bundle = r.bundle /\ SameAccounts(r, run')
        /\ \A c \in Compensations : run'.compensation[c] =
              IF c[1] = r.unwinds /\ c[2] \in Resolvable(r) THEN "scheduled" ELSE r.compensation[c]
        /\ \A id \in StepIds : run'.step[id] =
              IF id[1] = r.unwinds /\ id[2] \in Resolvable(r) THEN FreshStep ELSE r.step[id]
        /\ run'.state = IF ToCompensate(r) # Resolvable(r) THEN "failed"
                        ELSE IF Resolvable(r) = {} THEN "abandoned" ELSE "running"
    <2>1. run' = Unwind(r)
      BY <1>1, Zenon
    <2> QED
      BY <1>3, <1>5, <2>1, UnwindOutcome, Zenon
  <1>7. /\ DOMAIN leases' = DOMAIN leases
        /\ \A l \in DOMAIN leases :
              /\ leases'[l].step = leases[l].step
              /\ leases'[l].state = IF leases[l].state = "active" THEN "released" ELSE leases[l].state
    <2>1. \A l \in DOMAIN leases : leases[l] \in LeaseRow
      BY RowTypes, IndInvMeans, Zenon
    <2>2. \A l \in DOMAIN leases : LET row == [leases[l] EXCEPT !.state = "released", !.left = 0]
                                   IN  row.state = "released" /\ row.step = leases[l].step
      BY <2>1, Zenon DEF LeaseRow
    <2> QED
      BY <1>1, <2>2, Zenon
  <1>8. /\ DOMAIN approvals' = DOMAIN approvals
        /\ \A a \in DOMAIN approvals :
              /\ approvals'[a].step = approvals[a].step
              /\ approvals'[a].action = approvals[a].action
              /\ approvals'[a].state =
                    IF approvals[a].state = "pending" THEN "cancelled" ELSE approvals[a].state
    <2>1. \A a \in DOMAIN approvals : approvals[a] \in ApprovalRow
      BY RowTypes, IndInvMeans, Zenon
    <2>2. \A a \in DOMAIN approvals :
             LET row == [approvals[a] EXCEPT !.state = "cancelled", !.left = 0]
             IN  /\ row.state = "cancelled" /\ row.step = approvals[a].step
                 /\ row.action = approvals[a].action
      BY <2>1, Zenon DEF ApprovalRow
    <2> QED
      BY <1>1, <2>2, Zenon
  <1>9. run.state \in {"running", "parked", "failed"} /\ ~unwind_pending(run)
    BY <1>1, Zenon
  <1>10. /\ run'.bundle = run.bundle /\ SameAccounts(run, run')
         /\ r.compensation = run.compensation
    BY <1>4, <1>6, Zenon DEF Framed, SameEntries, SameAccounts
  <1>11. /\ run'.abandoning = TRUE /\ run'.unwinds = run.unwinds + 1 /\ run'.unwinds \in 1..MaxUnwinds
         /\ run'.state = IF ToCompensate(run) # Resolvable(run) THEN "failed"
                         ELSE IF Resolvable(run) = {} THEN "abandoned" ELSE "running"
    BY <1>2, <1>3, <1>5, <1>6, Zenon
  <1>12. /\ \A c \in Compensations : run'.compensation[c] =
               IF c[1] = run'.unwinds /\ c[2] \in Resolvable(run) THEN "scheduled"
               ELSE run.compensation[c]
         /\ \A id \in StepIds : run'.step[id] =
               IF id[1] = run'.unwinds /\ id[2] \in Resolvable(run) THEN FreshStep ELSE run.step[id]
    <2>1. r.unwinds = run'.unwinds /\ Resolvable(r) = Resolvable(run) /\ r.step = run.step
      BY <1>3, <1>5, <1>6, Zenon
    <2>2. ASSUME NEW c \in Compensations
          PROVE  run'.compensation[c] =
                   IF c[1] = run'.unwinds /\ c[2] \in Resolvable(run) THEN "scheduled"
                   ELSE run.compensation[c]
      <3>1. run'.compensation[c] =
              IF c[1] = r.unwinds /\ c[2] \in Resolvable(r) THEN "scheduled" ELSE r.compensation[c]
        BY <1>6, Zenon
      <3> QED
        BY <1>10, <2>1, <3>1, Zenon
    <2>3. ASSUME NEW id \in StepIds
          PROVE  run'.step[id] =
                   IF id[1] = run'.unwinds /\ id[2] \in Resolvable(run) THEN FreshStep ELSE run.step[id]
      <3>1. run'.step[id] =
              IF id[1] = r.unwinds /\ id[2] \in Resolvable(r) THEN FreshStep ELSE r.step[id]
        BY <1>6, Zenon
      <3> QED
        BY <2>1, <3>1, Zenon
    <2> QED
      BY <2>2, <2>3, Zenon
  <1> QED
    BY <1>7, <1>8, <1>9, <1>10, <1>11, <1>12, Zenon DEF GivenUp

----------------------------------------------------------------------------
\* What the reports come to.

\* The steps that carry out compensations are the ones with an entry.
LEMMA EntriesAreSteps ==
    /\ Compensations \subseteq StepIds
    /\ \A id \in StepIds : IsCompensation(id) => id \in Compensations
    /\ \A c \in Compensations : IsCompensation(c) /\ c[2] \in Steps
  <1>1. MaxUnwinds \in Nat
    BY FoldAssumption, Zenon DEF FoldAssumption
  <1> QED
    BY <1>1 DEF Compensations, StepIds, IsCompensation

\* Usage is added to what was used, and reaching the soft threshold is remembered.
LEMMA UsageAdded ==
    ASSUME NEW r \in RunState, NEW usage \in Usages \cup {NoUsage}
    PROVE  LET q == RecordUsage(r, usage)
           IN  /\ SameEntries(r, q)
               /\ q.exceeded = r.exceeded
               /\ usage = NoUsage => q.used = r.used
               /\ \A d \in Dims : q.used[d] >= r.used[d]
               /\ r.soft_hit => q.soft_hit
               /\ usage # NoUsage /\ ReachesSoft(q.used) => q.soft_hit
               /\ usage = NoUsage => q.soft_hit = r.soft_hit
  <1>1. r.used \in [Dims -> Nat] /\ \A d \in Dims : r.used[d] \in Nat
    BY Zenon DEF RunState
  <1>2. CASE usage = NoUsage
    BY <1>1, <1>2 DEF RecordUsage, SameEntries
  <1>3. CASE usage # NoUsage
    <2> DEFINE total == [d \in Dims |-> r.used[d] + usage[d]]
               u == UsageRecorded(r, usage)
               h == BudgetSoftThreshold(u)
    <2>1. usage \in [Dims -> Nat]
      BY <1>3, KernelAssumption DEF KernelAssumption
    <2>2. total \in [Dims -> Nat] /\ \A d \in Dims : total[d] >= r.used[d]
      BY <1>1, <2>1
    <2>3. u = [r EXCEPT !.used = total]
      BY Zenon DEF UsageRecorded
    <2> HIDE DEF total
    <2>4. /\ u \in RunState /\ SameEntries(r, u) /\ u.used = total
          /\ u.exceeded = r.exceeded /\ u.soft_hit = r.soft_hit
      <3>1. u \in RunState
        BY <2>2, <2>3, Zenon DEF RunState
      <3>2. /\ SameEntries(r, u) /\ u.used = total
            /\ u.exceeded = r.exceeded /\ u.soft_hit = r.soft_hit
        BY <2>3, Zenon DEF RunState, SameEntries
      <3> QED
        BY <3>1, <3>2
    <2> HIDE DEF u
    <2>5. /\ SameEntries(u, h) /\ h.used = u.used /\ h.exceeded = u.exceeded /\ h.soft_hit = TRUE
      BY <2>4, Zenon DEF BudgetSoftThreshold, RunState, SameEntries
    <2> HIDE DEF h
    <2>6. /\ r.soft_hit \in BOOLEAN
          /\ RecordUsage(r, usage) = IF ~r.soft_hit /\ ReachesSoft(u.used) THEN h ELSE u
      BY <1>3, Zenon DEF RecordUsage, RunState, u, h
    <2>7. CASE ~r.soft_hit /\ ReachesSoft(u.used)
      BY <1>3, <2>2, <2>4, <2>5, <2>6, <2>7, Zenon DEF SameEntries
    <2>8. CASE ~(~r.soft_hit /\ ReachesSoft(u.used))
      BY <1>3, <2>2, <2>4, <2>6, <2>8 DEF SameEntries
    <2> QED
      BY <2>7, <2>8, Zenon
  <1> QED
    BY <1>2, <1>3

\* The run after the events step.completed and usage.recorded.
Recorded(l, usage) == RecordUsage(StepCompleted(run, leases[l].step), usage)

\* What complete does before it looks at the run as a whole.
LEMMA CompleteRecords ==
    ASSUME IndInv, NEW l \in DOMAIN leases, NEW usage \in Usages \cup {NoUsage},
           Complete(l, usage)
    PROVE  LET id == leases[l].step
               q == Recorded(l, usage)
           IN  /\ id \in StepIds /\ leases[l].state = "active"
               /\ run.state = "running" /\ run.step[id].state = "leased"
               /\ run.abandoning <=> IsCompensation(id)
               /\ LeaseEnded(l, "completed") /\ UNCHANGED approvals
               /\ run' = AfterCompletion(q, id, usage)
               /\ q \in RunState /\ q.state = "running"
               /\ q.step[id].state = "completed" /\ q.step[id].attempts = run.step[id].attempts
               /\ \A e \in StepIds \ {id} : q.step[e] = run.step[e]
               /\ q.abandoning = run.abandoning /\ q.unwinds = run.unwinds
               /\ SameEntries(run, q) /\ q.exceeded = run.exceeded
               /\ Spent(run, q, usage)
  <1> DEFINE id == leases[l].step
             p == StepCompleted(run, id)
             q == RecordUsage(p, usage)
  <1>1. /\ Held(l) /\ id \in StepIds /\ run \in RunState
        /\ run.state = "running" /\ (run.abandoning <=> IsCompensation(id))
        /\ run.step[id].state = "leased"
    BY LiveLeaseFacts DEF Complete, Held
  <1>2. /\ run' = AfterCompletion(q, id, usage)
        /\ leases' = EndLease(l, "completed") /\ UNCHANGED <<approvals, resumes>>
    BY <1>1, Zenon DEF Complete, CompleteHeld
  <1>3. LeaseEnded(l, "completed") /\ leases[l].state = "active"
    <2>1. "completed" \in LeaseStatus
      BY Zenon DEF LeaseStatus
    <2> QED
      BY <1>2, <2>1, EndLeaseEffect DEF IndInv, LeaseEnded, Complete, Live
  <1>4. Ended(run, p, id, "completed") /\ Framed(run, p)
    BY <1>1, StepEndedEffect, StepFrame
  <1>5. Recorded(l, usage) = q
    BY Zenon DEF Recorded
  <1> HIDE DEF p, id
  <1>6. p \in RunState
    BY <1>4 DEF Ended
  <1>7. /\ q \in RunState /\ q.state = p.state /\ OnlyStatus(p, q)
        /\ SameEntries(p, q) /\ q.exceeded = p.exceeded /\ Spent(p, q, usage)
    BY <1>6, RecordUsageEffect, UsageAdded, Zenon DEF Spent
  <1> HIDE DEF q
  <1>8. /\ q.state = "running"
        /\ q.step[id].state = "completed" /\ q.step[id].attempts = run.step[id].attempts
        /\ \A e \in StepIds \ {id} : q.step[e] = run.step[e]
        /\ q.abandoning = run.abandoning /\ q.unwinds = run.unwinds
    BY <1>1, <1>4, <1>7 DEF Ended, OnlySteps, OnlyStatus
  <1>9. SameEntries(run, q) /\ q.exceeded = run.exceeded /\ Spent(run, q, usage)
    BY <1>4, <1>7, Zenon DEF Framed, SameEntries, SameAccounts, Spent
  <1> QED
    BY <1>1, <1>2, <1>3, <1>5, <1>7, <1>8, <1>9, Zenon DEF id

\* complete of a step of the workflow: the run completes with its last step, parks
\* when a ceiling is passed, and goes on otherwise.
LEMMA CompleteWorkflow ==
    ASSUME IndInv, NEW l \in DOMAIN leases, NEW usage \in Usages \cup {NoUsage},
           Complete(l, usage), ~IsCompensation(leases[l].step)
    PROVE  /\ Reported(l, "completed", "completed")
           /\ SameEntries(run, run') /\ Spent(run, run', usage) /\ UNCHANGED approvals
           /\ IF WorkflowDone(run') THEN run'.state = "completed" /\ run'.exceeded = run.exceeded
              ELSE IF usage # NoUsage /\ OverCeiling(run'.used) /\ ~run.exceeded
                THEN run'.state = "parked" /\ run'.park_reason = "budget"
              ELSE run'.state = "running" /\ run'.exceeded = run.exceeded
  <1> DEFINE id == leases[l].step
             q == Recorded(l, usage)
             b == BudgetExceeded(q)
  <1>1. /\ id \in StepIds /\ leases[l].state = "active"
        /\ run.state = "running" /\ run.step[id].state = "leased"
        /\ run.abandoning <=> IsCompensation(id)
        /\ LeaseEnded(l, "completed") /\ UNCHANGED approvals
        /\ run' = AfterCompletion(q, id, usage)
        /\ q \in RunState /\ q.state = "running"
        /\ q.step[id].state = "completed" /\ q.step[id].attempts = run.step[id].attempts
        /\ \A e \in StepIds \ {id} : q.step[e] = run.step[e]
        /\ q.abandoning = run.abandoning /\ q.unwinds = run.unwinds
        /\ SameEntries(run, q) /\ q.exceeded = run.exceeded
        /\ Spent(run, q, usage)
    BY CompleteRecords, Zenon
  <1>2. ~IsCompensation(id)
    OBVIOUS
  <1> HIDE DEF q
  <1>3. /\ b \in RunState /\ OnlyStatus(q, b) /\ SameEntries(q, b)
        /\ b.used = q.used /\ b.soft_hit = q.soft_hit
    BY <1>1, Zenon DEF BudgetExceeded, RunState, OnlyStatus, SameEntries
  <1> HIDE DEF b, id
  <1>4. run' = IF WorkflowDone(q) THEN RunCompleted(q)
               ELSE IF usage # NoUsage /\ OverCeiling(q.used) /\ ~q.exceeded
                 THEN RunParked(b, "budget") ELSE q
    BY <1>1, <1>2, Zenon DEF AfterCompletion, b
  <1>5. /\ OnlyStatus(q, run') /\ SameEntries(q, run')
        /\ run'.used = q.used /\ run'.soft_hit = q.soft_hit
        /\ IF WorkflowDone(q) THEN run'.state = "completed" /\ run'.exceeded = q.exceeded
           ELSE IF usage # NoUsage /\ OverCeiling(q.used) /\ ~q.exceeded
             THEN run'.state = "parked" /\ run'.park_reason = "budget"
           ELSE run'.state = "running" /\ run'.exceeded = q.exceeded
    <2>1. CASE WorkflowDone(q)
      <3>1. run' = RunCompleted(q)
        BY <1>4, <2>1, Zenon
      <3>2. run'.state = "completed" /\ OnlyStatus(q, run')
        BY <1>1, <3>1, RunCompletedEffect
      <3>3. Framed(q, run')
        BY <1>1, <3>1, RunFrame, Zenon
      <3> QED
        BY <2>1, <3>2, <3>3 DEF Framed, SameAccounts
    <2>2. CASE ~WorkflowDone(q) /\ usage # NoUsage /\ OverCeiling(q.used) /\ ~q.exceeded
      <3>1. run' = RunParked(b, "budget") /\ "budget" \in ParkReason
        BY <1>4, <2>2, Zenon DEF ParkReason
      <3>2. run'.state = "parked" /\ run'.park_reason = "budget" /\ OnlyStatus(b, run')
        BY <1>3, <3>1, RunParkedEffect
      <3>3. Framed(b, run')
        BY <1>3, <3>1, RunFrame, Zenon
      <3>4. OnlyStatus(q, run')
        BY <1>3, <3>2 DEF OnlyStatus
      <3> QED
        BY <1>3, <2>2, <3>2, <3>3, <3>4 DEF Framed, SameAccounts, SameEntries
    <2>3. CASE ~WorkflowDone(q) /\ ~(usage # NoUsage /\ OverCeiling(q.used) /\ ~q.exceeded)
      <3>1. run' = q
        BY <1>4, <2>3
      <3> QED
        BY <1>1, <2>3, <3>1, Zenon DEF OnlyStatus, SameEntries
    <2> QED
      BY <2>1, <2>2, <2>3, Zenon
  <1>6. WorkflowDone(q) <=> WorkflowDone(run')
    BY <1>5, Zenon DEF WorkflowDone, OnlyStatus
  <1>7. run'.step = q.step /\ run'.abandoning = run.abandoning /\ run'.unwinds = run.unwinds
    BY <1>1, <1>5, Zenon DEF OnlyStatus
  <1>8. Reported(l, "completed", "completed")
    BY <1>1, <1>7, Zenon DEF Reported, StepMoves, id
  <1>9. SameEntries(run, run') /\ Spent(run, run', usage)
    BY <1>1, <1>5, Zenon DEF Spent, SameEntries
  <1> QED
    BY <1>1, <1>5, <1>6, <1>8, <1>9

\* The entry that a search for the step of a compensation under way finds is the one
\* of that compensation: an older entry of the same step would have failed, and then
\* pick_runnable would not have let this one start.
LEMMA EntryFound ==
    ASSUME IndInv, CompensationsAgree, NEW id \in Compensations, run.step[id].state = "leased"
    PROVE  \A c \in Compensations : c[2] = id[2] /\ FirstEntry(run, c) <=> c = id
  <1>1. /\ id \in StepIds /\ id = <<id[1], id[2]>> /\ id[2] \in Steps
        /\ id[1] \in Int /\ id[1] >= 1 /\ id[1] <= MaxUnwinds /\ MaxUnwinds \in Int
    BY EntriesAreSteps, FoldAssumption DEF FoldAssumption, Compensations
  <1>2. run.compensation[id] # "none" /\ Begun(id)
    BY Zenon DEF CompensationsAgree, Begun
  <1>3. ASSUME NEW b \in 1..(id[1] - 1)
        PROVE  run.compensation[<<b, id[2]>>] = "none"
    <2> DEFINE e == <<b, id[2]>>
    <2>1. e \in Compensations /\ e \in StepIds /\ e[1] < id[1] /\ e[1] > 0
      BY <1>1, <1>3, EntriesAreSteps DEF Compensations
    <2>2. Earlier(e, id)
      BY <1>1, <2>1 DEF Earlier, IsCompensation
    <2>3. run.step[e].state \in {"absent", "completed"}
      BY <1>1, <1>2, <2>1, <2>2 DEF IndInv, StepsInOrder
    <2>4. run.compensation[e] \in {"none", "failed"}
      BY <1>2, <1>3, Zenon DEF CompensationsAgree
    <2> QED
      BY <2>1, <2>3, <2>4, Zenon DEF CompensationsAgree
  <1>4. FirstEntry(run, id)
    BY <1>2, <1>3 DEF FirstEntry
  <1>5. ASSUME NEW c \in Compensations, c[2] = id[2], FirstEntry(run, c)
        PROVE  c = id
    <2>1. c = <<c[1], id[2]>> /\ c[1] \in Int /\ c[1] >= 1
      BY <1>1, <1>5 DEF Compensations
    <2>2. ~(c[1] < id[1])
      <3>1. c[1] < id[1] => c[1] \in 1..(id[1] - 1)
        BY <1>1, <2>1
      <3> QED
        BY <1>3, <1>5, <2>1, <3>1, Zenon DEF FirstEntry
    <2>3. ~(id[1] < c[1])
      <3>1. id[1] < c[1] => id[1] \in 1..(c[1] - 1)
        BY <1>1, <2>1
      <3> QED
        BY <1>1, <1>2, <1>5, <3>1, Zenon DEF FirstEntry
    <2> QED
      BY <1>1, <2>1, <2>2, <2>3
  <1> QED
    BY <1>4, <1>5, Zenon

\* Marking the entries found for a step touches nothing else.
LEMMA EntryMarked ==
    ASSUME NEW r \in RunState, NEW s \in Steps, NEW st \in CompensationStatus
    PROVE  LET m == MarkCompensation(r, s, st)
           IN  /\ m \in RunState /\ OnlyStatus(r, m) /\ SameAccounts(r, m)
               /\ m.bundle = r.bundle /\ m.state = r.state /\ m.park_reason = r.park_reason
               /\ \A c \in Compensations :
                     m.compensation[c] = IF c[2] = s /\ FirstEntry(r, c) THEN st ELSE r.compensation[c]
  <1> DEFINE marks == [c \in Compensations |->
                          IF c[2] = s /\ FirstEntry(r, c) THEN st ELSE r.compensation[c]]
             m == [r EXCEPT !.compensation = marks]
  <1>1. marks \in [Compensations -> CompensationStatus]
    BY Zenon DEF RunState
  <1>2. MarkCompensation(r, s, st) = m
    BY Zenon DEF MarkCompensation
  <1>3. \A c \in Compensations :
           marks[c] = IF c[2] = s /\ FirstEntry(r, c) THEN st ELSE r.compensation[c]
    BY Zenon
  <1> HIDE DEF marks
  <1>4. /\ m \in RunState /\ OnlyStatus(r, m) /\ SameAccounts(r, m) /\ m.compensation = marks
        /\ m.bundle = r.bundle /\ m.state = r.state /\ m.park_reason = r.park_reason
    BY <1>1, Zenon DEF RunState, OnlyStatus, SameAccounts
  <1> HIDE DEF m
  <1> QED
    BY <1>2, <1>3, <1>4, Zenon

\* complete of a compensation: its own entry is completed, and with the last one the
\* run is abandoned.
LEMMA CompleteCompensation ==
    ASSUME IndInv, CompensationsAgree, NEW l \in DOMAIN leases,
           NEW usage \in Usages \cup {NoUsage}, Complete(l, usage), IsCompensation(leases[l].step)
    PROVE  /\ Reported(l, "completed", "completed")
           /\ EntryMoves(leases[l].step, "completed") /\ UNCHANGED approvals
           /\ Spent(run, run', usage) /\ run'.exceeded = run.exceeded
           /\ run'.state = IF unwind_pending(run') THEN "running" ELSE "abandoned"
  <1> DEFINE id == leases[l].step
             q == Recorded(l, usage)
             m == MarkCompensation(q, id[2], "completed")
  <1>1. /\ id \in StepIds /\ leases[l].state = "active"
        /\ run.state = "running" /\ run.step[id].state = "leased"
        /\ run.abandoning <=> IsCompensation(id)
        /\ LeaseEnded(l, "completed") /\ UNCHANGED approvals
        /\ run' = AfterCompletion(q, id, usage)
        /\ q \in RunState /\ q.state = "running"
        /\ q.step[id].state = "completed" /\ q.step[id].attempts = run.step[id].attempts
        /\ \A e \in StepIds \ {id} : q.step[e] = run.step[e]
        /\ q.abandoning = run.abandoning /\ q.unwinds = run.unwinds
        /\ SameEntries(run, q) /\ q.exceeded = run.exceeded
        /\ Spent(run, q, usage)
    BY CompleteRecords, Zenon
  <1>2. IsCompensation(id)
    OBVIOUS
  <1> HIDE DEF q, id
  <1>3. id \in Compensations /\ id[2] \in Steps
    BY <1>1, <1>2, EntriesAreSteps
  <1>4. /\ m \in RunState /\ OnlyStatus(q, m) /\ SameAccounts(q, m)
        /\ m.bundle = q.bundle /\ m.state = q.state
        /\ \A c \in Compensations : m.compensation[c] =
              IF c[2] = id[2] /\ FirstEntry(q, c) THEN "completed" ELSE q.compensation[c]
    <2>1. "completed" \in CompensationStatus
      BY Zenon DEF CompensationStatus
    <2> QED
      BY <1>1, <1>3, <2>1, EntryMarked, Zenon
  <1>5. run' = [m EXCEPT !.state =
                  IF m.abandoning /\ m.state = "running" /\ ~unwind_pending(m)
                    THEN "abandoned" ELSE m.state]
    BY <1>1, <1>2, Zenon DEF AfterCompletion, CompensationCompleted
  <1> HIDE DEF m
  <1>6. /\ run'.state = IF unwind_pending(m) THEN "running" ELSE "abandoned"
        /\ OnlyStatus(m, run') /\ SameEntries(m, run') /\ SameAccounts(m, run')
    <2>1. m.abandoning /\ m.state = "running"
      BY <1>1, <1>2, <1>4, Zenon DEF OnlyStatus
    <2> QED
      BY <1>4, <1>5, <2>1, Zenon DEF RunState, OnlyStatus, SameEntries, SameAccounts
  <1>7. unwind_pending(m) <=> unwind_pending(run')
    BY <1>6 DEF unwind_pending, SameEntries
  <1>8. \A c \in Compensations : c[2] = id[2] /\ FirstEntry(q, c) <=> c = id
    <2>1. \A c \in Compensations : FirstEntry(q, c) <=> FirstEntry(run, c)
      BY <1>1 DEF FirstEntry, SameEntries
    <2>2. \A c \in Compensations : c[2] = id[2] /\ FirstEntry(run, c) <=> c = id
      <3>1. run.step[id].state = "leased"
        BY <1>1, Zenon
      <3> QED
        BY <1>3, <3>1, EntryFound, Zenon
    <2> QED
      BY <2>1, <2>2, Zenon
  <1>9. EntryMoves(id, "completed")
    <2>1. run'.compensation = m.compensation /\ run'.bundle = m.bundle /\ m.bundle = q.bundle
      BY <1>4, <1>6, Zenon DEF SameEntries
    <2>2. q.compensation = run.compensation /\ q.bundle = run.bundle
      BY <1>1, Zenon DEF SameEntries
    <2>3. \A c \in Compensations :
             m.compensation[c] = IF c = id THEN "completed" ELSE q.compensation[c]
      BY <1>4, <1>8, Zenon
    <2>4. m.compensation[id] = "completed"
      BY <1>3, <2>3, Zenon
    <2>5. \A c \in Compensations \ {id} : m.compensation[c] = q.compensation[c]
      BY <2>3, Zenon
    <2> QED
      BY <2>1, <2>2, <2>4, <2>5, Zenon DEF EntryMoves
  <1>10. Reported(l, "completed", "completed")
    <2>1. run'.step = q.step /\ run'.abandoning = run.abandoning /\ run'.unwinds = run.unwinds
      BY <1>1, <1>4, <1>6 DEF OnlyStatus
    <2> QED
      BY <1>1, <2>1, Zenon DEF Reported, StepMoves, id
  <1>11. Spent(run, run', usage) /\ run'.exceeded = run.exceeded
    <2>1. run'.used = q.used /\ run'.soft_hit = q.soft_hit /\ run'.exceeded = q.exceeded
      BY <1>4, <1>6, Zenon DEF SameAccounts
    <2>2. Spent(run, q, usage) /\ q.exceeded = run.exceeded
      BY <1>1, Zenon
    <2> QED
      BY <2>1, <2>2, Zenon DEF Spent
  <1> QED
    BY <1>1, <1>6, <1>7, <1>9, <1>10, <1>11, Zenon DEF id

\* fail does one of them and asks nobody.
LEMMA FailOutcomes ==
    ASSUME IndInv, CompensationsAgree, NEW l \in DOMAIN leases, NEW code \in ErrorCodes,
           NEW deterministic \in BOOLEAN, Fail(l, code, deterministic)
    PROVE  FailRetries(l) \/ FailParks(l) \/ FailLoses(l)
  <1> DEFINE id == leases[l].step
             p == StepFailed(run, id)
             q == StepQuarantined(p, id)
             delay == IF deterministic THEN 0 ELSE Backoff
             retry == StepRetryScheduled(p, id, delay)
             lost == CompensationFailed(q, id[2])
  <1>1. /\ Held(l) /\ id \in StepIds /\ run \in RunState
        /\ run.state = "running" /\ (run.abandoning <=> IsCompensation(id))
        /\ run.step[id].state = "leased"
    BY LiveLeaseFacts, Zenon DEF Fail, Held
  <1>2. /\ run' = AfterFailure(p, id, code, deterministic)
        /\ leases' = EndLease(l, "failed") /\ UNCHANGED <<approvals, resumes>>
    BY <1>1 DEF Fail, FailHeld
  <1>3. LeaseEnded(l, "failed") /\ leases[l].state = "active"
    <2>1. "failed" \in LeaseStatus
      BY DEF LeaseStatus
    <2> QED
      BY <1>2, <2>1, EndLeaseEffect, Zenon DEF IndInv, LeaseEnded, Fail, Live
  <1>4. Ended(run, p, id, "failed") /\ Framed(run, p)
    BY <1>1, StepEndedEffect, StepFrame, Zenon
  <1>5. delay \in 0..Backoff
    BY FoldAssumption DEF FoldAssumption
  <1> HIDE DEF p, id, delay
  <1>6. /\ Ended(p, q, id, "quarantined") /\ Framed(p, q)
        /\ Ended(p, retry, id, "scheduled") /\ Framed(p, retry)
    <2>1. p \in RunState
      BY <1>4 DEF Ended
    <2> QED
      BY <1>1, <1>5, <2>1, StepEndedEffect, StepFrame
  <1>7. \/ run' = RunParked(p, "refusal") /\ ~IsCompensation(id)
        \/ IsCompensation(id) /\ run' = RunFailed(lost, TRUE)
        \/ /\ ~IsCompensation(id)
           /\ \E x \in {"quarantine", "connector_quarantined"} : run' = RunParked(q, x)
        \/ run' = retry /\ ~(p.step[id].attempts >= AttemptLimit(deterministic))
    BY <1>2, Zenon DEF AfterFailure, delay
  <1> HIDE DEF q, retry
  <1>8. ASSUME NEW x, OnlySteps(run, run', {id}), run'.step[id].state = x,
               run'.step[id].attempts = run.step[id].attempts
        PROVE  Reported(l, "failed", x)
    BY <1>1, <1>3, <1>8 DEF Reported, StepMoves, OnlySteps, id
  <1>9. CASE run' = RunParked(p, "refusal") /\ ~IsCompensation(id)
    <2>1. "refusal" \in ParkReason /\ p \in RunState
      BY <1>4 DEF ParkReason, Ended
    <2>2. run'.state = "parked" /\ OnlyStatus(p, run') /\ Framed(p, run')
      BY <1>9, <2>1, RunParkedEffect, RunFrame, Zenon
    <2>3. /\ OnlySteps(run, run', {id}) /\ run'.step[id].state = "failed"
          /\ run'.step[id].attempts = run.step[id].attempts /\ Framed(run, run')
      BY <1>4, <2>2 DEF Ended, OnlySteps, OnlyStatus, Framed, SameEntries, SameAccounts
    <2> QED
      BY <1>2, <1>8, <1>9, <2>2, <2>3, Zenon DEF FailParks, id
  <1>10. ASSUME NEW x \in {"quarantine", "connector_quarantined"}, run' = RunParked(q, x),
                ~IsCompensation(id)
         PROVE  FailParks(l)
    <2>1. x \in ParkReason /\ q \in RunState
      BY <1>6 DEF ParkReason, Ended
    <2>2. run'.state = "parked" /\ OnlyStatus(q, run') /\ Framed(q, run')
      BY <1>10, <2>1, RunParkedEffect, RunFrame, Zenon
    <2>3. /\ OnlySteps(run, run', {id}) /\ run'.step[id].state = "quarantined"
          /\ run'.step[id].attempts = run.step[id].attempts /\ Framed(run, run')
      BY <1>4, <1>6, <2>2 DEF Ended, OnlySteps, OnlyStatus, Framed, SameEntries, SameAccounts
    <2> QED
      BY <1>2, <1>8, <1>10, <2>2, <2>3, Zenon DEF FailParks, id
  <1>11. CASE run' = retry /\ ~(p.step[id].attempts >= AttemptLimit(deterministic))
    <2>1. /\ OnlySteps(run, run', {id}) /\ run'.step[id].state = "scheduled"
          /\ run'.step[id].attempts = run.step[id].attempts /\ Framed(run, run')
          /\ run'.state = "running"
      BY <1>1, <1>4, <1>6, <1>11 DEF Ended, OnlySteps, Framed, SameEntries, SameAccounts
    <2>2. p.step[id].attempts = run.step[id].attempts /\ run.step[id].attempts \in Nat
      BY <1>1, <1>4, Zenon DEF Ended, RunState, StepState
    <2>3. run.step[id].attempts < AttemptCap
      BY <1>11, <2>2, KernelAssumption DEF KernelAssumption, AttemptCap, AttemptLimit
    <2>4. Reported(l, "failed", "scheduled")
      BY <1>8, <2>1, Zenon
    <2> QED
      BY <1>2, <2>1, <2>3, <2>4, Zenon DEF FailRetries, id
  <1>12. CASE IsCompensation(id) /\ run' = RunFailed(lost, TRUE)
    <2>1. /\ q \in RunState /\ id \in Compensations /\ id[2] \in Steps
          /\ "failed" \in CompensationStatus
      BY <1>1, <1>6, <1>12, EntriesAreSteps, Zenon DEF Ended, CompensationStatus
    <2>2. /\ lost \in RunState /\ OnlyStatus(q, lost) /\ SameAccounts(q, lost)
          /\ lost.bundle = q.bundle
          /\ \A c \in Compensations : lost.compensation[c] =
                IF c[2] = id[2] /\ FirstEntry(q, c) THEN "failed" ELSE q.compensation[c]
      BY <2>1, EntryMarked DEF CompensationFailed
    <2> HIDE DEF lost
    <2>3. run'.state = "failed" /\ OnlyStatus(lost, run') /\ Framed(lost, run')
      BY <1>12, <2>2, RunFailedEffect, RunFrame, Zenon
    <2>4. SameEntries(run, q) /\ SameAccounts(run, q)
      BY <1>4, <1>6 DEF Framed, SameEntries, SameAccounts
    <2>5. \A c \in Compensations : c[2] = id[2] /\ FirstEntry(q, c) <=> c = id
      <3>1. \A c \in Compensations : FirstEntry(q, c) <=> FirstEntry(run, c)
        BY <2>4 DEF FirstEntry, SameEntries
      <3> QED
        BY <1>1, <2>1, <3>1, EntryFound, Zenon
    <2>6. EntryMoves(id, "failed") /\ SameAccounts(run, run')
      BY <2>1, <2>2, <2>3, <2>4, <2>5, Zenon DEF EntryMoves, Framed, SameEntries, SameAccounts
    <2>7. /\ OnlySteps(run, run', {id}) /\ run'.step[id].state = "quarantined"
          /\ run'.step[id].attempts = run.step[id].attempts
      <3>1. OnlyStatus(q, run')
        BY <2>2, <2>3, Zenon DEF OnlyStatus
      <3>2. /\ OnlySteps(run, q, {id}) /\ q.step[id].state = "quarantined"
            /\ q.step[id].attempts = run.step[id].attempts
        BY <1>4, <1>6 DEF Ended, OnlySteps
      <3> QED
        BY <3>1, <3>2 DEF OnlySteps, OnlyStatus
    <2>8. Reported(l, "failed", "quarantined") /\ UNCHANGED approvals
      BY <1>2, <1>8, <2>7, Zenon
    <2> QED
      BY <1>12, <2>3, <2>6, <2>8, Zenon DEF FailLoses, id
  <1> QED
    BY <1>7, <1>9, <1>10, <1>11, <1>12, Zenon

\* propose_action when an approval is required.
LEMMA ProposalAsks ==
    ASSUME IndInv, NEW l \in DOMAIN leases, NEW action \in Actions, ProposeAction(l, action)
    PROVE  Asked(l, action)
  <1> DEFINE id == leases[l].step
             a == Len(approvals) + 1
             r0 == ApprovalRequested(run, a)
             r1 == StepWaitingApproval(r0, id)
             row == NewApproval(id, action)
  <1>1. /\ Live(l) /\ Held(l) /\ id \in StepIds /\ run.step[id].state = "leased"
        /\ run \in RunState /\ run.state = "running" /\ leases[l].state = "active"
        /\ run.abandoning <=> IsCompensation(id)
    BY LiveLeaseFacts, Zenon DEF ProposeAction, Held, Live
  <1>2. /\ run' = RunParked(r1, "approval")
        /\ leases' = EndLease(l, "released")
        /\ approvals' = Append(approvals, row) /\ ~AlreadyApproved(action)
    BY <1>1, Zenon DEF ProposeAction, RequestApproval
  <1>3. /\ approvals \in Seq(ApprovalRow) /\ Len(approvals) \in Nat /\ a \in Nat
        /\ DOMAIN approvals = 1..Len(approvals)
    BY RowTypes DEF IndInv, TypeOK
  <1>4. row \in ApprovalRow /\ row.step = id /\ row.state = "pending" /\ row.action = action
    <2>1. id \in StepIds
      BY <1>1, Zenon
    <2> QED
      BY <2>1, FreshApproval, Zenon
  <1> HIDE DEF row
  <1>5. /\ DOMAIN approvals' = DOMAIN approvals \cup {a}
        /\ \A b \in DOMAIN approvals : approvals'[b] = approvals[b]
        /\ approvals'[a] = row
    <2>1. /\ approvals' \in Seq(ApprovalRow) /\ Len(approvals') = Len(approvals) + 1
          /\ \A b \in 1..Len(approvals) : approvals'[b] = approvals[b]
          /\ approvals'[a] = row
      BY <1>2, <1>3, <1>4, RowAppended
    <2>2. DOMAIN approvals' = 1..(Len(approvals) + 1)
      BY <2>1, TableTyped, Zenon
    <2> QED
      BY <1>3, <2>1, <2>2
  <1>6. LeaseEnded(l, "released")
    <2>1. "released" \in LeaseStatus
      BY Zenon DEF LeaseStatus
    <2> QED
      BY <1>2, <2>1, EndLeaseEffect DEF IndInv, LeaseEnded
  <1> HIDE DEF id
  <1>7. r0 \in RunState /\ r0 = [run EXCEPT !.pending_approval = a] /\ Framed(run, r0)
    <2>1. r0 \in RunState /\ r0 = [run EXCEPT !.pending_approval = a]
      BY <1>1, <1>3, ApprovalEffect, Zenon
    <2>2. Framed(run, r0)
      BY <1>1, <1>3, RunFrame, Zenon
    <2> QED
      BY <2>1, <2>2
  <1>8. r0.step = run.step /\ r0.abandoning = run.abandoning /\ r0.unwinds = run.unwinds
    BY <1>1, <1>7, Zenon DEF RunState
  <1> HIDE DEF r0
  <1>9. Ended(r0, r1, id, "waiting_approval") /\ Framed(r0, r1)
    BY <1>1, <1>7, StepEndedEffect, StepFrame
  <1> HIDE DEF r1
  <1>10. /\ run'.state = "parked" /\ run'.park_reason = "approval"
         /\ OnlyStatus(r1, run') /\ Framed(r1, run')
    <2>1. "approval" \in ParkReason /\ r1 \in RunState
      BY <1>9 DEF ParkReason, Ended
    <2> QED
      BY <1>2, <2>1, RunParkedEffect, RunFrame, Zenon
  <1>11. /\ \A e \in StepIds \ {id} : run'.step[e] = run.step[e]
         /\ run'.step[id].state = "waiting_approval"
         /\ run'.step[id].attempts = run.step[id].attempts
         /\ run'.abandoning = run.abandoning /\ run'.unwinds = run.unwinds
    BY <1>8, <1>9, <1>10, Zenon DEF Ended, OnlySteps, OnlyStatus
  <1>12. Framed(run, run')
    BY <1>7, <1>9, <1>10 DEF Framed, SameEntries, SameAccounts
  <1>13. Reported(l, "released", "waiting_approval")
    BY <1>1, <1>6, <1>11, Zenon DEF Reported, StepMoves, id
  <1> HIDE DEF a
  <1> QED
    BY <1>2, <1>4, <1>5, <1>10, <1>12, <1>13 DEF Asked, a, id

\* A worker's report has one of its outcomes.
LEMMA ReportOutcomes ==
    ASSUME IndInv, CompensationsAgree, NEW l \in DOMAIN leases, Report(l)
    PROVE  ReportOutcome(l)
  <1>1. ASSUME NEW usage \in Usages \cup {NoUsage}, Complete(l, usage)
        PROVE  WorkflowCompletes(l, usage) \/ CompensationCompletes(l, usage)
    <2>1. CASE IsCompensation(leases[l].step)
      BY <1>1, <2>1, CompleteCompensation, Zenon DEF CompensationCompletes
    <2>2. CASE ~IsCompensation(leases[l].step)
      BY <1>1, <2>2, CompleteWorkflow, Zenon DEF WorkflowCompletes
    <2> QED
      BY <2>1, <2>2, Zenon
  <1>2. ASSUME NEW code \in ErrorCodes, NEW deterministic \in BOOLEAN,
               Fail(l, code, deterministic)
        PROVE  FailRetries(l) \/ FailParks(l) \/ FailLoses(l)
    BY <1>2, FailOutcomes
  <1>3. ASSUME NEW action \in Actions, ProposeAction(l, action)
        PROVE  Asked(l, action)
    BY <1>3, ProposalAsks, Zenon
  <1> QED
    BY <1>1, <1>2, <1>3, Zenon DEF Report, ReportOutcome

\* So does every step of the system.
LEMMA NextOutcomes ==
    ASSUME IndInv, CompensationsAgree, [Next]_vars
    PROVE  Outcome
  <1>1. ASSUME NEW l \in DOMAIN leases, CallUnderLapsedLease(l)
        PROVE  \E S \in SUBSET DOMAIN leases, T \in SUBSET StepIds : Expired(S, T)
    <2>1. {l} \in SUBSET DOMAIN leases /\ (\A m \in {l} : Lapsed(m)) /\ Expire({l})
      BY <1>1, Zenon DEF CallUnderLapsedLease
    <2> QED
      BY <2>1, LeasesExpire
  <1>2. ASSUME SweepLeases
        PROVE  \E S \in SUBSET DOMAIN leases, T \in SUBSET StepIds : Expired(S, T)
    <2> DEFINE S == {l \in DOMAIN leases : Lapsed(l)}
    <2>1. S \in SUBSET DOMAIN leases /\ (\A m \in S : Lapsed(m)) /\ Expire(S)
      BY <1>2, Zenon DEF SweepLeases
    <2> HIDE DEF S
    <2> QED
      BY <2>1, LeasesExpire
  <1>3. ASSUME UNCHANGED vars
        PROVE  Quiet
    BY <1>3 DEF vars, Quiet, Framed, SameEntries, SameAccounts
  <1>4. ASSUME NEW b \in Bundles, StartRun(b)
        PROVE  Outcome
    BY <1>4, RunIsStarted, Zenon DEF Outcome
  <1>5. ASSUME NEW id \in StepIds, Lease(id) \/ BackoffElapse(id)
        PROVE  Outcome
    BY <1>5, LeaseGranted, BackoffClockQuiet, Zenon DEF Outcome
  <1>6. ASSUME NEW l \in DOMAIN leases,
               Report(l) \/ Heartbeat(l) \/ CallUnderLapsedLease(l) \/ LeaseElapse(l)
        PROVE  Outcome
    BY <1>1, <1>6, ReportOutcomes, LeaseClockQuiet, Zenon DEF Outcome
  <1>7. ASSUME NEW a \in DOMAIN approvals, ApprovalElapse(a)
        PROVE  Outcome
    BY <1>7, ApprovalClockQuiet, Zenon DEF Outcome
  <1>8. ASSUME NEW a \in DOMAIN approvals, NEW decision \in {"approved", "rejected"},
               DecideApproval(a, decision)
        PROVE  Outcome
    <2>1. Decided(a, decision)
      BY <1>8, ApprovalIsDecided
    <2> QED
      BY <2>1, Zenon DEF Outcome
  <1>9. ASSUME SweepLeases \/ SweepApprovals \/ Abandon \/ Resume
        PROVE  Outcome
    BY <1>2, <1>9, SweepApprovalsQuiet, AbandonGivesUp, ResumeRestarts, Zenon DEF Outcome
  <1>10. ASSUME UNCHANGED vars
         PROVE  Outcome
    BY <1>3, <1>10, Zenon DEF Outcome
  <1> QED
    BY <1>4, <1>5, <1>6, <1>7, <1>8, <1>9, <1>10 DEF Next
=============================================================================
