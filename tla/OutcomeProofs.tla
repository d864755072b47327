---------------------------- MODULE OutcomeProofs ---------------------------
(***************************************************************************)
(* What every outcome of the kernel's operations (KernelOutcomes) leaves   *)
(* true: the conjuncts of FullInv about the completions, the approvals, the *)
(* budget and the compensations a run owes.  Each outcome is also a step of *)
(* module Saga or changes nothing that the saga shows.                     *)
(***************************************************************************)
EXTENDS KernelOutcomes, TLAPS

\* What a leaf may take of the SMT solver, unless it says otherwise.
USE SMTT(30)

----------------------------------------------------------------------------
\* What FullInv and TypeOK say, for the leaves below to cite.

\* The conjuncts of the invariants.
LEMMA FullInvMeans ==
    /\ FullInv => /\ IndInv /\ CompletedOnce /\ AttemptsAccounted /\ AttemptsLeft
                  /\ NeverAskedTwice /\ PendingIsLast /\ BudgetStops /\ ExceededIsOver
                  /\ WorkflowScheduled /\ CompensationsAgree /\ UnwindCovers /\ RefusalStops
    /\ FullInv \/ IndInv => /\ TypeOK /\ FoldConsistent /\ ActiveLeaseHeld
                            /\ StepsInOrder /\ OneApprovalPending
  BY Zenon DEF FullInv, IndInv

\* The types of the fields of the fold that the outcomes read, and of the approvals.
LEMMA FieldsTyped ==
    /\ TypeOK => /\ run.step \in [StepIds -> StepState]
                 /\ run.compensation \in [Compensations -> CompensationStatus]
                 /\ run.bundle \in [Steps -> Declared]
                 /\ run.unwinds \in 0..MaxUnwinds /\ run.abandoning \in BOOLEAN
                 /\ run.used \in [Dims -> Nat] /\ run.soft_hit \in BOOLEAN /\ run.exceeded \in BOOLEAN
                 /\ approvals \in Seq(ApprovalRow)
    /\ TypeOK' => run'.used \in [Dims -> Nat]
  BY Zenon DEF TypeOK, RunState

\* Steps and compensations.

\* A compensation is a step of the run.
LEMMA CompensationIds ==
    /\ Compensations \subseteq StepIds
    /\ \A id \in StepIds : IsCompensation(id) => id \in Compensations
    /\ \A c \in Compensations : IsCompensation(c) /\ c[2] \in Steps
  <1>1. MaxUnwinds \in Nat
    BY FoldAssumption, Zenon DEF FoldAssumption
  <1> QED
    BY <1>1 DEF Compensations, StepIds, IsCompensation

\* abandon touches no step that was there before.
LEMMA StepsGivenUp ==
    ASSUME IndInv, GivenUp, NEW id \in StepIds
    PROVE  \/ run'.step[id] = run.step[id]
           \/ /\ run.step[id].state = "absent" /\ run.step[id].attempts = 0
              /\ run'.step[id].state = "scheduled" /\ run'.step[id].attempts = 0
              /\ IsCompensation(id)
  <1>1. CASE id[1] = run'.unwinds /\ id[2] \in Resolvable(run)
    <2>1. run'.step[id] = FreshStep
      BY <1>1, Zenon DEF GivenUp
    <2>2. run.unwinds \in 0..MaxUnwinds /\ run'.unwinds = run.unwinds + 1
      BY FullInvMeans, FieldsTyped, Zenon DEF GivenUp
    <2>3. id[1] > run.unwinds /\ id[1] > 0
      <3>1. PICK n, m : n = run.unwinds /\ m = id[1]
        OBVIOUS
      <3>2. n \in 0..MaxUnwinds /\ m = n + 1 /\ MaxUnwinds \in Nat
        BY <1>1, <2>2, <3>1, FoldAssumption, Zenon DEF FoldAssumption
      <3>3. m > n /\ m > 0
        BY <3>2
      <3> QED
        BY <3>1, <3>3, Zenon
    <2>4. run.step[id].state = "absent" /\ run.step[id].attempts = 0
      BY <2>3, FullInvMeans, Zenon DEF FoldConsistent
    <2> QED
      BY <2>1, <2>3, <2>4 DEF FreshStep, IsCompensation
  <1>2. CASE ~(id[1] = run'.unwinds /\ id[2] \in Resolvable(run))
    BY <1>2, Zenon DEF GivenUp
  <1> QED
    BY <1>1, <1>2, Zenon

\* Neither the completed steps nor the leases that ended in completion change.
SameWins ==
    /\ \A id \in StepIds : run'.step[id].state = "completed" <=> run.step[id].state = "completed"
    /\ DOMAIN leases \subseteq DOMAIN leases'
    /\ \A l \in DOMAIN leases : leases'[l].step = leases[l].step
    /\ \A l \in DOMAIN leases' :
          (leases'[l].state = "completed") <=> (l \in DOMAIN leases /\ leases[l].state = "completed")

\* A report that does not complete its step.
LEMMA ReportWinsNothing ==
    ASSUME NEW l \in DOMAIN leases, NEW st \in {"failed", "released"},
           NEW x \in {"scheduled", "failed", "quarantined", "waiting_approval"}, Reported(l, st, x)
    PROVE  SameWins
  <1>1. \A id \in StepIds : run'.step[id].state = "completed" <=> run.step[id].state = "completed"
    BY Zenon DEF Reported, StepMoves
  <1>2. \A m \in DOMAIN leases :
           /\ leases'[m].step = leases[m].step
           /\ leases'[m].state = "completed" <=> leases[m].state = "completed"
    BY Zenon DEF Reported, LeaseEnded
  <1> QED
    BY <1>1, <1>2, Zenon DEF SameWins, Reported, LeaseEnded

----------------------------------------------------------------------------
\* The accounts: what each outcome leaves of the completions, the attempts, the
\* approvals and the budget.

\* Only complete completes anything.
LEMMA WinsByCompletion ==
    ASSUME FullInv, Outcome
    PROVE  SameWins \/ \E l \in DOMAIN leases : Reported(l, "completed", "completed")
  <1>1. CASE Quiet
    BY <1>1, Zenon DEF Quiet, SameWins
  <1>2. ASSUME NEW b \in Bundles, Started(b)
        PROVE  SameWins
    <2>1. \A id \in StepIds : run.step[id].state = "absent"
      BY <1>2, FullInvMeans, Zenon DEF Started, FoldConsistent
    <2>2. \A id \in StepIds : run'.step[id].state # "completed"
      BY <1>2 DEF Started, FreshStep, AbsentStep
    <2>3. DOMAIN leases = {} /\ UNCHANGED leases
      BY <1>2, Zenon DEF Started
    <2> QED
      BY <2>1, <2>2, <2>3, Zenon DEF SameWins
  <1>3. ASSUME NEW id \in StepIds, Granted(id)
        PROVE  SameWins
    BY <1>3, Zenon DEF Granted, StepMoves, SameWins
  <1>4. ASSUME NEW S \in SUBSET DOMAIN leases, NEW T \in SUBSET StepIds, Expired(S, T)
        PROVE  SameWins
    <2>1. \A id \in StepIds : run'.step[id].state = "completed" <=> run.step[id].state = "completed"
      BY <1>4 DEF Expired
    <2>2. \A m \in DOMAIN leases :
             /\ leases'[m].step = leases[m].step
             /\ leases'[m].state = "completed" <=> leases[m].state = "completed"
      BY <1>4 DEF Expired
    <2> QED
      BY <1>4, <2>1, <2>2, Zenon DEF Expired, SameWins
  <1>5. ASSUME NEW a \in DOMAIN approvals, NEW decision \in {"approved", "rejected"},
               Decided(a, decision)
        PROVE  SameWins
    <2>1. UNCHANGED leases /\ run.step[approvals[a].step].state = "waiting_approval"
      BY <1>5, Zenon DEF Decided
    <2>2. StepMoves(approvals[a].step, "scheduled") \/ StepMoves(approvals[a].step, "failed")
      BY <1>5, Zenon DEF Decided
    <2> QED
      BY <2>1, <2>2, Zenon DEF StepMoves, SameWins
  <1>6. ASSUME NEW S \in SUBSET StepIds, Restarted(S)
        PROVE  SameWins
    BY <1>6, Zenon DEF Restarted, SameWins
  <1>7. CASE GivenUp
    <2>1. \A id \in StepIds : run'.step[id].state = "completed" <=> run.step[id].state = "completed"
      BY <1>7, StepsGivenUp, FullInvMeans, Zenon
    <2> QED
      BY <1>7, <2>1, Zenon DEF GivenUp, SameWins
  <1>8. ASSUME NEW l \in DOMAIN leases, ReportOutcome(l)
        PROVE  SameWins \/ Reported(l, "completed", "completed")
    <2>1. ASSUME NEW usage \in Usages \cup {NoUsage},
                 WorkflowCompletes(l, usage) \/ CompensationCompletes(l, usage)
          PROVE  Reported(l, "completed", "completed")
      BY <2>1, Zenon DEF WorkflowCompletes, CompensationCompletes
    <2>2. ASSUME FailRetries(l) \/ FailParks(l) \/ FailLoses(l)
          PROVE  SameWins
      <3>1. \E x \in {"scheduled", "failed", "quarantined"} : Reported(l, "failed", x)
        BY <2>2, Zenon DEF FailRetries, FailParks, FailLoses
      <3> QED
        BY <3>1, ReportWinsNothing, Zenon
    <2>3. ASSUME NEW action \in Actions, Asked(l, action)
          PROVE  SameWins
      BY <2>3, ReportWinsNothing, Zenon DEF Asked
    <2> QED
      BY <1>8, <2>1, <2>2, <2>3, Zenon DEF ReportOutcome
  <1> QED
    BY <1>1, <1>2, <1>3, <1>4, <1>5, <1>6, <1>7, <1>8, Zenon DEF Outcome

\* A completed step was completed under exactly one lease.
LEMMA CompletedOnceKept ==
    ASSUME FullInv, Outcome
    PROVE  CompletedOnce'
  <1>1. CASE SameWins
    <2> SUFFICES ASSUME NEW id \in StepIds
                 PROVE  LET wins == {l \in DOMAIN leases' :
                                       leases'[l].step = id /\ leases'[l].state = "completed"}
                        IN  IF run'.step[id].state = "completed"
                              THEN \E l \in DOMAIN leases' : wins = {l} ELSE wins = {}
      BY Zenon
      DEF CompletedOnce <2>1. {l \in DOMAIN leases' : leases'[l].step = id /\ leases'[l].state =
          "completed"}
          = {l \in DOMAIN leases : leases[l].step = id /\ leases[l].state = "completed"}
      BY <1>1, Zenon DEF SameWins
    <2> QED
      BY <1>1, <2>1, FullInvMeans DEF SameWins, CompletedOnce
  <1>2. ASSUME NEW l \in DOMAIN leases, Reported(l, "completed", "completed")
        PROVE  CompletedOnce'
    <2> SUFFICES ASSUME NEW id \in StepIds
                 PROVE  LET wins == {m \in DOMAIN leases' :
                                       leases'[m].step = id /\ leases'[m].state = "completed"}
                        IN  IF run'.step[id].state = "completed"
                              THEN \E m \in DOMAIN leases' : wins = {m} ELSE wins = {}
      BY Zenon DEF CompletedOnce
    <2> DEFINE old == {m \in DOMAIN leases : leases[m].step = id /\ leases[m].state = "completed"}
               new == {m \in DOMAIN leases' : leases'[m].step = id /\ leases'[m].state = "completed"}
    <2>1. IF run.step[id].state = "completed" THEN \E m \in DOMAIN leases : old = {m} ELSE old = {}
      BY FullInvMeans, Zenon DEF CompletedOnce
    <2>2. DOMAIN leases' = DOMAIN leases
      BY <1>2, Zenon DEF Reported, LeaseEnded
    <2>3. CASE id = leases[l].step
      <3>1. old = {}
        BY <1>2, <2>1, <2>3, Zenon DEF Reported
      <3>2. new = {l}
        BY <1>2, <2>2, <2>3, <3>1 DEF Reported, LeaseEnded
      <3>3. run'.step[id].state = "completed"
        BY <1>2, <2>3, Zenon DEF Reported, StepMoves
      <3> QED
        BY <2>2, <3>2, <3>3, Zenon
    <2>4. CASE id # leases[l].step
      <3>1. new = old
        BY <1>2, <2>2, <2>4 DEF Reported, LeaseEnded
      <3>2. run'.step[id] = run.step[id]
        BY <1>2, <2>4, Zenon DEF Reported, StepMoves
      <3> QED
        BY <2>1, <2>2, <3>1, <3>2, Zenon
    <2> QED
      BY <2>3, <2>4, Zenon
  <1> QED
    BY <1>1, <1>2, WinsByCompletion, Zenon

\* What may become of the attempts of step id while no lease of its lapses.
AttemptMoves(id) ==
    \/ /\ run'.step[id].attempts = run.step[id].attempts
       /\ run'.step[id].state = "scheduled" =>
             run.step[id].state = "scheduled" \/ run.step[id].attempts < AttemptCap
    \/ run'.step[id].attempts = 0
    \/ /\ run.step[id].state = "scheduled" /\ run'.step[id].state = "leased"
       /\ run'.step[id].attempts = run.step[id].attempts + 1

SameLapses ==
    /\ DOMAIN leases \subseteq DOMAIN leases'
    /\ \A l \in DOMAIN leases : leases'[l].step = leases[l].step
    /\ \A l \in DOMAIN leases' :
          (leases'[l].state = "expired") <=> (l \in DOMAIN leases /\ leases[l].state = "expired")

\* A step has at least one attempt.
LEMMA AttemptCapPositive == AttemptCap \in Nat /\ AttemptCap > 0
  BY KernelAssumption DEF KernelAssumption, AttemptCap

\* A report ends no lease as expired; it reschedules its step only below the limit.
LEMMA ReportAttempts ==
    ASSUME NEW l \in DOMAIN leases, NEW st \in {"completed", "failed", "released"},
           NEW x, Reported(l, st, x),
           x = "scheduled" => run.step[leases[l].step].attempts < AttemptCap
    PROVE  SameLapses /\ \A id \in StepIds : AttemptMoves(id)
  <1>1. \A m \in DOMAIN leases :
           /\ leases'[m].step = leases[m].step
           /\ leases'[m].state = "expired" <=> leases[m].state = "expired"
    BY Zenon DEF Reported, LeaseEnded
  <1>2. SameLapses
    BY <1>1, Zenon DEF SameLapses, Reported, LeaseEnded
  <1>3. AttemptMoves(leases[l].step)
    BY Zenon DEF AttemptMoves, Reported, StepMoves
  <1>4. \A id \in StepIds \ {leases[l].step} : AttemptMoves(id)
    BY Zenon DEF AttemptMoves, Reported, StepMoves
  <1> QED
    BY <1>2, <1>3, <1>4, Zenon

\* Unless leases lapse, the attempts move as AttemptMoves says.
LEMMA AttemptsMove ==
    ASSUME FullInv, Outcome
    PROVE  \/ SameLapses /\ \A id \in StepIds : AttemptMoves(id)
           \/ \E S \in SUBSET DOMAIN leases, T \in SUBSET StepIds : Expired(S, T)
  <1>1. CASE Quiet
    BY <1>1, Zenon DEF Quiet, SameLapses, AttemptMoves
  <1>2. ASSUME NEW b \in Bundles, Started(b)
        PROVE  SameLapses /\ \A id \in StepIds : AttemptMoves(id)
    BY <1>2 DEF Started, SameLapses, AttemptMoves, FreshStep, AbsentStep
  <1>3. ASSUME NEW id \in StepIds, Granted(id)
        PROVE  SameLapses /\ \A e \in StepIds : AttemptMoves(e)
    BY <1>3, Zenon DEF Granted, StepMoves, SameLapses, AttemptMoves
  <1>4. ASSUME NEW a \in DOMAIN approvals, NEW decision \in {"approved", "rejected"},
               Decided(a, decision)
        PROVE  SameLapses /\ \A id \in StepIds : AttemptMoves(id)
    <2> DEFINE id == approvals[a].step
    <2>1. UNCHANGED leases /\ (\A e \in StepIds \ {id} : run'.step[e] = run.step[e])
      BY <1>4, Zenon DEF Decided, StepMoves
    <2>2. \/ run'.step[id].attempts = 0
          \/ run'.step[id].state = "failed" /\ run'.step[id].attempts = run.step[id].attempts
      BY <1>4, Zenon DEF Decided, StepMoves
    <2> HIDE DEF id
    <2> QED
      BY <2>1, <2>2, Zenon DEF SameLapses, AttemptMoves
  <1>5. ASSUME NEW S \in SUBSET StepIds, Restarted(S)
        PROVE  SameLapses /\ \A id \in StepIds : AttemptMoves(id)
    BY <1>5, Zenon DEF Restarted, SameLapses, AttemptMoves
  <1>6. CASE GivenUp
    <2>1. \A id \in StepIds : AttemptMoves(id)
      BY <1>6, StepsGivenUp, FullInvMeans, Zenon DEF AttemptMoves
    <2> QED
      BY <1>6, <2>1, Zenon DEF GivenUp, SameLapses
  <1>7. ASSUME NEW l \in DOMAIN leases, ReportOutcome(l)
        PROVE  SameLapses /\ \A id \in StepIds : AttemptMoves(id)
    <2>1. ASSUME NEW usage \in Usages \cup {NoUsage},
                 WorkflowCompletes(l, usage) \/ CompensationCompletes(l, usage)
          PROVE  Reported(l, "completed", "completed")
      BY <2>1, Zenon DEF WorkflowCompletes, CompensationCompletes
    <2>2. ASSUME FailRetries(l)
          PROVE  SameLapses /\ \A id \in StepIds : AttemptMoves(id)
      BY <2>2, ReportAttempts, Zenon DEF FailRetries
    <2>3. ASSUME FailParks(l) \/ FailLoses(l)
          PROVE  \E x \in {"failed", "quarantined"} : Reported(l, "failed", x)
      BY <2>3, Zenon DEF FailParks, FailLoses
    <2>4. ASSUME NEW action \in Actions, Asked(l, action)
          PROVE  Reported(l, "released", "waiting_approval")
      BY <2>4, Zenon DEF Asked
    <2>5. CASE \E st \in {"completed", "failed", "released"},
                  x \in {"completed", "failed", "quarantined", "waiting_approval"} :
                  Reported(l, st, x)
      BY <2>5, ReportAttempts, Zenon
    <2> QED
      BY <1>7, <2>1, <2>2, <2>3, <2>4, <2>5, Zenon DEF ReportOutcome
  <1> QED
    BY <1>1, <1>2, <1>3, <1>4, <1>5, <1>6, <1>7, Zenon DEF Outcome

\* Nobody is asked, nothing becomes pending, and nothing is granted.
SameAsked ==
    /\ DOMAIN approvals' = DOMAIN approvals
    /\ \A a \in DOMAIN approvals :
          /\ approvals'[a].action = approvals[a].action
          /\ approvals'[a].state = "approved" <=> approvals[a].state = "approved"
          /\ approvals'[a].state = "pending" => approvals[a].state = "pending"

\* Only propose_action asks and only a decision grants.
LEMMA AskedByProposal ==
    ASSUME FullInv, Outcome
    PROVE  \/ SameAsked
           \/ \E a \in DOMAIN approvals, decision \in {"approved", "rejected"} : Decided(a, decision)
           \/ \E l \in DOMAIN leases, action \in Actions : Asked(l, action)
  <1>1. ASSUME UNCHANGED approvals
        PROVE  SameAsked
    BY <1>1, Zenon DEF SameAsked
  <1>2. CASE Quiet \/ GivenUp
    BY <1>2, Zenon DEF Quiet, GivenUp, SameAsked
  <1>3. ASSUME NEW l \in DOMAIN leases, ReportOutcome(l)
        PROVE  UNCHANGED approvals \/ \E action \in Actions : Asked(l, action)
    BY <1>3, Zenon DEF ReportOutcome, WorkflowCompletes, CompensationCompletes, FailRetries, FailParks,
                FailLoses
  <1>4. ASSUME \/ \E b \in Bundles : Started(b)
               \/ \E id \in StepIds : Granted(id)
               \/ \E S \in SUBSET DOMAIN leases, T \in SUBSET StepIds : Expired(S, T)
               \/ \E S \in SUBSET StepIds : Restarted(S)
        PROVE  UNCHANGED approvals
    BY <1>4, Zenon DEF Started, Granted, Expired, Restarted
  <1> QED
    BY <1>1, <1>2, <1>3, <1>4, Zenon DEF Outcome

\* The approver is never asked for what they granted, and is asked one thing at a time.
LEMMA NeverAskedTwiceKept ==
    ASSUME FullInv, Outcome
    PROVE  NeverAskedTwice' /\ PendingIsLast'
  <1>1. /\ DOMAIN approvals = 1..Len(approvals) /\ Len(approvals) \in Nat
        /\ NeverAskedTwice /\ PendingIsLast
    BY FullInvMeans, FieldsTyped
  <1>2. CASE SameAsked
    BY <1>1, <1>2, Zenon DEF SameAsked, NeverAskedTwice, PendingIsLast, PendingApprovals
  <1>3. ASSUME NEW d \in DOMAIN approvals, NEW decision \in {"approved", "rejected"},
               Decided(d, decision)
        PROVE  NeverAskedTwice' /\ PendingIsLast'
    <2>1. /\ DOMAIN approvals' = DOMAIN approvals
          /\ \A a \in DOMAIN approvals : approvals'[a].action = approvals[a].action
          /\ \A a \in DOMAIN approvals \ {d} : approvals'[a].state = approvals[a].state
          /\ approvals'[d].state # "pending" /\ d \in PendingApprovals
      BY <1>3, Zenon DEF Decided
    <2>2. \A b \in DOMAIN approvals : ~(d < b)
      BY <1>1, <2>1 DEF PendingIsLast
    <2> QED
      BY <1>1, <2>1, <2>2, Zenon DEF NeverAskedTwice, PendingIsLast, PendingApprovals
  <1>4. ASSUME NEW l \in DOMAIN leases, NEW action \in Actions, Asked(l, action)
        PROVE  NeverAskedTwice' /\ PendingIsLast'
    <2> DEFINE n == Len(approvals) + 1
    <2>1. /\ run.state = "running" /\ ~AlreadyApproved(action)
          /\ DOMAIN approvals' = DOMAIN approvals \cup {n}
          /\ \A a \in DOMAIN approvals : approvals'[a] = approvals[a]
          /\ approvals'[n].state = "pending" /\ approvals'[n].action = action
      BY <1>4, Zenon DEF Asked, Reported
    <2>2. PendingApprovals = {}
      BY <2>1, FullInvMeans, Zenon DEF OneApprovalPending
    <2>3. \A a \in DOMAIN approvals : a \in Nat /\ a < n
      BY <1>1
    <2>4. n \notin DOMAIN approvals /\ n \in Nat /\ \A b \in DOMAIN approvals : ~(n < b)
      BY <1>1
    <2> HIDE DEF n
    <2>5. PendingIsLast'
      <3>1. \A a \in PendingApprovals' : a = n
        BY <2>1, <2>2, Zenon DEF PendingApprovals
      <3> QED
        BY <2>1, <2>3, <2>4, <3>1 DEF PendingIsLast
    <2>6. \A a \in DOMAIN approvals : approvals[a].state = "approved" => ~SameAction(action, approvals[a].action)
      BY <2>1, Zenon DEF AlreadyApproved
    <2>7. NeverAskedTwice'
      <3> SUFFICES ASSUME NEW a \in DOMAIN approvals', NEW b \in DOMAIN approvals',
                          a < b, approvals'[a].state = "approved"
                   PROVE  ~SameAction(approvals'[b].action, approvals'[a].action)
        BY Zenon DEF NeverAskedTwice, SameAction
      <3>1. a \in DOMAIN approvals /\ approvals'[a] = approvals[a]
        BY <2>1, Zenon
      <3>2. CASE b = n
        BY <2>1, <2>6, <3>1, <3>2, Zenon
      <3>3. CASE b \in DOMAIN approvals
        BY <1>1, <2>1, <3>1, <3>3, Zenon DEF NeverAskedTwice
      <3> QED
        BY <2>1, <3>2, <3>3, Zenon
    <2> QED
      BY <2>5, <2>7, Zenon
  <1> QED
    BY <1>2, <1>3, <1>4, AskedByProposal, Zenon

\* What complete spends: a run that goes on under a new account.
SpentBy(usage) ==
    /\ Spent(run, run', usage) /\ run.state = "running"
    /\ run'.abandoning = run.abandoning
    /\ ~run.abandoning =>
          IF run'.state = "completed" THEN run'.exceeded = run.exceeded
          ELSE IF usage # NoUsage /\ OverCeiling(run'.used) /\ ~run.exceeded
            THEN run'.state = "parked" /\ run'.park_reason = "budget"
          ELSE run'.exceeded = run.exceeded
    /\ run.abandoning => run'.exceeded = run.exceeded

\* Nothing is spent, and a run stopped by its budget stays stopped or is given up.
BudgetIdle ==
    /\ SameAccounts(run, run')
    /\ \/ run'.abandoning
       \/ run.state = "running" /\ ~run.abandoning
       \/ run.state = "parked" /\ run.park_reason # "budget" /\ ~run.abandoning
       \/ /\ run'.state = run.state /\ run'.abandoning = run.abandoning
          /\ run'.park_reason = "budget" <=> run.park_reason = "budget"

\* Only complete spends.
LEMMA BudgetMoves ==
    ASSUME FullInv, Outcome
    PROVE  \/ BudgetIdle
           \/ \E usage \in Usages \cup {NoUsage} : SpentBy(usage)
           \/ \E b \in Bundles : Started(b)
  <1>0. run.abandoning \in BOOLEAN
    BY FullInvMeans, FieldsTyped, Zenon
  <1>1. CASE Quiet
    BY <1>1, Zenon DEF Quiet, BudgetIdle, Framed
  <1>2. ASSUME NEW id \in StepIds, Granted(id)
        PROVE  BudgetIdle
    BY <1>0, <1>2, Zenon DEF Granted, StepMoves, BudgetIdle, Framed
  <1>3. ASSUME NEW S \in SUBSET DOMAIN leases, NEW T \in SUBSET StepIds, Expired(S, T)
        PROVE  BudgetIdle
    BY <1>3, Zenon DEF Expired, BudgetIdle, Framed
  <1>4. ASSUME NEW a \in DOMAIN approvals, NEW decision \in {"approved", "rejected"},
               Decided(a, decision)
        PROVE  BudgetIdle
    <2>1. /\ SameAccounts(run, run') /\ run'.abandoning = run.abandoning
          /\ run.state = "parked" /\ run.park_reason # "budget"
      BY <1>4, Zenon DEF Decided, StepMoves, Framed
    <2> QED
      BY <1>0, <2>1, Zenon DEF BudgetIdle
  <1>5. ASSUME NEW S \in SUBSET StepIds, Restarted(S)
        PROVE  BudgetIdle
    BY <1>5, Zenon DEF Restarted, BudgetIdle, Framed
  <1>6. CASE GivenUp
    BY <1>6, Zenon DEF GivenUp, BudgetIdle
  <1>7. ASSUME NEW l \in DOMAIN leases, ReportOutcome(l)
        PROVE  BudgetIdle \/ \E usage \in Usages \cup {NoUsage} : SpentBy(usage)
    <2>1. ASSUME NEW st, NEW x, Reported(l, st, x), SameAccounts(run, run')
          PROVE  BudgetIdle
      BY <1>0, <2>1, Zenon DEF Reported, StepMoves, BudgetIdle
    <2>2. ASSUME FailRetries(l) \/ FailParks(l) \/ FailLoses(l)
          PROVE  BudgetIdle
      <3>1. SameAccounts(run, run') /\ \E x : Reported(l, "failed", x)
        BY <2>2, Zenon DEF FailRetries, FailParks, FailLoses, Framed
      <3> QED
        BY <2>1, <3>1, Zenon
    <2>3. ASSUME NEW action \in Actions, Asked(l, action)
          PROVE  BudgetIdle
      BY <2>1, <2>3, Zenon DEF Asked, Framed
    <2>4. ASSUME NEW usage \in Usages \cup {NoUsage}, WorkflowCompletes(l, usage)
          PROVE  SpentBy(usage)
      <3>1. /\ Spent(run, run', usage) /\ run.state = "running"
            /\ run'.abandoning = run.abandoning /\ ~run.abandoning
        BY <2>4, Zenon DEF WorkflowCompletes, Reported, StepMoves
      <3>2. IF WorkflowDone(run') THEN run'.state = "completed" /\ run'.exceeded = run.exceeded
            ELSE IF usage # NoUsage /\ OverCeiling(run'.used) /\ ~run.exceeded
              THEN run'.state = "parked" /\ run'.park_reason = "budget"
            ELSE run'.state = "running" /\ run'.exceeded = run.exceeded
        BY <2>4, Zenon DEF WorkflowCompletes
      <3> QED
        BY <3>1, <3>2, Zenon DEF SpentBy
    <2>5. ASSUME NEW usage \in Usages \cup {NoUsage}, CompensationCompletes(l, usage)
          PROVE  SpentBy(usage)
      BY <2>5, Zenon DEF CompensationCompletes, Reported, StepMoves, SpentBy
    <2> QED
      BY <1>7, <2>2, <2>3, <2>4, <2>5, Zenon DEF ReportOutcome
  <1> QED
    BY <1>1, <1>2, <1>3, <1>4, <1>5, <1>6, <1>7, Zenon DEF Outcome

\* Comparing with a share of a ceiling is monotone (the soft limit of a budget).
LEMMA ProductsOrdered ==
    ASSUME NEW a \in Nat, NEW b \in Nat, NEW c \in Nat, a <= b
    PROVE  c * a <= c * b /\ a * c <= b * c
  OBVIOUS

\* A spend above a ceiling other than zero is above the soft threshold.
LEMMA OverIsSoft ==
    ASSUME NEW used \in [Dims -> Nat], OverCeiling(used), SoftNum <= SoftDen,
           \A d \in Dims : Ceiling[d] # 0
    PROVE  ReachesSoft(used)
  <1>1. PICK d \in Dims : Ceiling[d] # Unlimited /\ used[d] > Ceiling[d]
    BY Zenon DEF OverCeiling
  <1>2. /\ Ceiling[d] \in Nat /\ Ceiling[d] > 0 /\ used[d] \in Nat
        /\ SoftNum \in Nat /\ SoftDen \in Nat
    BY <1>1, KernelAssumption DEF KernelAssumption
  <1> DEFINE c == Ceiling[d]
             u == used[d]
  <1> HIDE DEF c, u
  <1>3. c \in Nat /\ u \in Nat /\ c <= u
    BY <1>1, <1>2 DEF c, u
  <1>4. SoftNum * c <= SoftDen * c /\ SoftDen * c <= SoftDen * u
    BY <1>2, <1>3, ProductsOrdered, Zenon
  <1>5. u * SoftDen >= SoftNum * c
    BY <1>2, <1>3, <1>4
  <1> QED
    BY <1>1, <1>2, <1>5, Zenon DEF ReachesSoft, c, u

\* A run that passed a ceiling is stopped, and was warned.
LEMMA BudgetStopsKept ==
    ASSUME FullInv, TypeOK', Outcome
    PROVE  BudgetStops' /\ ExceededIsOver'
  <1>1. /\ BudgetStops /\ ExceededIsOver
        /\ run.used \in [Dims -> Nat] /\ run'.used \in [Dims -> Nat]
        /\ run.abandoning \in BOOLEAN /\ run.soft_hit \in BOOLEAN /\ run.exceeded \in BOOLEAN
    BY FullInvMeans, FieldsTyped, Zenon
  <1>2. ASSUME BudgetIdle
        PROVE  BudgetStops' /\ ExceededIsOver'
    <2>1. /\ run'.used = run.used /\ run'.soft_hit = run.soft_hit /\ run'.exceeded = run.exceeded
          /\ OverCeiling(run.used)' <=> OverCeiling(run.used)
      BY <1>2, Zenon DEF BudgetIdle, SameAccounts, OverCeiling
    <2>2. ExceededIsOver'
      BY <1>1, <2>1, Zenon DEF ExceededIsOver
    <2>3. BudgetStops'
      BY <1>1, <1>2, <2>1, Zenon DEF BudgetIdle, BudgetStops
    <2> QED
      BY <2>2, <2>3, Zenon
  <1>3. ASSUME NEW b \in Bundles, Started(b)
        PROVE  BudgetStops' /\ ExceededIsOver'
    <2>1. run'.used = [d \in Dims |-> 0] /\ run'.exceeded = FALSE
      BY <1>3, Zenon DEF Started
    <2>2. ~OverCeiling(run.used)'
      BY <2>1, KernelAssumption DEF OverCeiling, KernelAssumption, Unlimited
    <2> QED
      BY <2>1, <2>2, Zenon DEF BudgetStops, ExceededIsOver
  <1>4. ASSUME NEW usage \in Usages \cup {NoUsage}, SpentBy(usage)
        PROVE  BudgetStops' /\ ExceededIsOver'
    <2>1. OverCeiling(run.used) => OverCeiling(run'.used)
      <3>1. \A d \in Dims : run'.used[d] >= run.used[d] /\ run.used[d] \in Nat /\ run'.used[d] \in Nat
        BY <1>1, <1>4, Zenon DEF SpentBy, Spent
      <3>2. \A d \in Dims : Ceiling[d] \in Int
        BY KernelAssumption DEF KernelAssumption, Unlimited
      <3> QED
        BY <3>1, <3>2 DEF OverCeiling
    <2>2. CASE run.abandoning
      <3>1. run'.abandoning /\ run'.exceeded = run.exceeded
        BY <1>4, <2>2, Zenon DEF SpentBy
      <3>2. ExceededIsOver'
        BY <1>1, <2>1, <3>1, Zenon DEF ExceededIsOver
      <3>3. OverCeiling(run'.used) /\ SoftNum <= SoftDen /\ (\A d \in Dims : Ceiling[d] # 0)
            => run'.soft_hit
        BY <1>1, <1>4, OverIsSoft, Zenon DEF SpentBy, Spent, BudgetStops
      <3> QED
        BY <3>1, <3>2, <3>3, Zenon DEF BudgetStops
    <2>3. CASE ~run.abandoning
      <3>1. ~OverCeiling(run.used) /\ ~run.exceeded
        BY <1>1, <1>4, <2>3, Zenon DEF SpentBy, BudgetStops, ExceededIsOver
      <3>2. OverCeiling(run'.used) => usage # NoUsage
        BY <1>4, <3>1, Zenon DEF SpentBy, Spent
      <3>3. IF run'.state = "completed" THEN run'.exceeded = run.exceeded
            ELSE IF OverCeiling(run'.used)
              THEN run'.state = "parked" /\ run'.park_reason = "budget"
            ELSE run'.exceeded = run.exceeded
        BY <1>4, <2>3, <3>1, <3>2, Zenon DEF SpentBy
      <3>4. OverCeiling(run'.used) /\ SoftNum <= SoftDen /\ (\A d \in Dims : Ceiling[d] # 0)
            => run'.soft_hit
        BY <1>1, <1>4, <3>2, OverIsSoft, Zenon DEF SpentBy, Spent
      <3> QED
        BY <1>1, <3>1, <3>3, <3>4, Zenon DEF BudgetStops, ExceededIsOver
    <2> QED
      BY <1>1, <2>2, <2>3, Zenon
  <1> QED
    BY <1>2, <1>3, <1>4, BudgetMoves, Zenon

----------------------------------------------------------------------------
\* The operations as steps of the saga.

\* The compensation under lease l ends as x, and its entry with it as e.
EntryCloses(l, x, e) ==
    /\ IsCompensation(leases[l].step) /\ leases[l].step \in StepIds
    /\ run.step[leases[l].step].state = "leased"
    /\ StepMoves(leases[l].step, x)
    /\ EntryMoves(leases[l].step, e)
    /\ x = "quarantined" => run'.state = "failed"

\* The steps that took effect, and what is owed, follow the fold.
LEMMA SameDone ==
    ASSUME \A id \in StepIds : run'.step[id].state = "completed" <=> run.step[id].state = "completed"
    PROVE  CompletedSteps' = CompletedSteps
  <1>1. \A s \in Steps : <<0, s>> \in StepIds
    BY FoldAssumption DEF FoldAssumption, StepIds
  <1> QED
    BY <1>1, Zenon DEF CompletedSteps

\* Nothing is owed or paid by an event that leaves the compensations alone.
LEMMA SameOwed ==
    ASSUME SameEntries(run, run')
    PROVE  OwedSteps' = OwedSteps
  BY Zenon DEF OwedSteps, SameEntries

\* An unwind is pending while some compensation is scheduled (unwind_pending).
LEMMA OwedIsPending ==
    ASSUME NEW r
    PROVE  unwind_pending(r) <=>
              \E s \in Steps, b \in 1..MaxUnwinds : r.compensation[<<b, s>>] = "scheduled"
  <1>1. ASSUME NEW c \in Compensations
        PROVE  c[1] \in 1..MaxUnwinds /\ c[2] \in Steps /\ c = <<c[1], c[2]>>
    BY DEF Compensations
  <1>2. \A s \in Steps, b \in 1..MaxUnwinds : <<b, s>> \in Compensations
    BY Zenon DEF Compensations
  <1>3. ASSUME NEW c \in Compensations, r.compensation[c] = "scheduled"
        PROVE  r.compensation[<<c[1], c[2]>>] = "scheduled"
    BY <1>1, <1>3, Zenon
  <1>4. ASSUME unwind_pending(r)
        PROVE  \E s \in Steps, b \in 1..MaxUnwinds : r.compensation[<<b, s>>] = "scheduled"
    BY <1>1, <1>3, <1>4, Zenon DEF unwind_pending
  <1> QED
    BY <1>2, <1>4, Zenon DEF unwind_pending

\* Entries that are open belong to the abandonment in progress.
LEMMA OwedNow ==
    ASSUME FullInv, NEW s \in Steps, NEW b \in 1..MaxUnwinds, run.compensation[<<b, s>>] = "scheduled"
    PROVE  b = run.unwinds
  <1>1. <<b, s>> \in Compensations
    BY Zenon DEF Compensations
  <1> QED
    BY <1>1, FullInvMeans, Zenon DEF CompensationsAgree

\* A run that is not being abandoned owes nothing.
LEMMA NothingOwed ==
    ASSUME FullInv, ~run.abandoning
    PROVE  OwedSteps = {}
  <1>1. run.unwinds = 0
    BY FoldAssumption, FullInvMeans, FieldsTyped DEF FoldConsistent, FoldAssumption
  <1> SUFFICES ASSUME NEW s \in OwedSteps
               PROVE  FALSE
    OBVIOUS
  <1>2. s \in Steps
    BY Zenon DEF OwedSteps
  <1>3. PICK b \in 1..MaxUnwinds : run.compensation[<<b, s>>] = "scheduled"
    BY Zenon DEF OwedSteps
  <1>4. b = run.unwinds /\ b >= 1
    BY <1>2, <1>3, OwedNow
  <1> QED
    BY <1>1, <1>4

\* While a step of the workflow is leased, the ones before it have taken effect and
\* the others have not.
LEMMA DoneBefore ==
    ASSUME FullInv, NEW s \in Steps, run.step[<<0, s>>].state = "leased"
    PROVE  CompletedSteps = 1..(s - 1)
  <1>1. /\ \A t \in Steps : <<0, t>> \in StepIds /\ <<0, t>> \in Workflow /\ ~IsCompensation(<<0, t>>)
        /\ Steps = 1..N /\ N \in Nat /\ s \in 1..N
    BY FoldAssumption DEF FoldAssumption, Steps, StepIds, Workflow, IsCompensation
  <1>2. /\ \A t \in Steps : run.step[<<0, t>>].state # "absent"
        /\ StepsInOrder
    <2>1. run.state # "none"
      BY <1>1, FullInvMeans, Zenon DEF FoldConsistent
    <2> QED
      BY <1>1, <2>1, FullInvMeans, Zenon DEF WorkflowScheduled
  <1>3. ASSUME NEW t \in Steps, NEW u \in Steps, t < u, Begun(<<0, u>>)
        PROVE  run.step[<<0, t>>].state = "completed"
    <2>1. Earlier(<<0, t>>, <<0, u>>)
      BY <1>1, <1>3, Zenon DEF Earlier
    <2>2. run.step[<<0, t>>].state \in {"absent", "completed"}
      BY <1>1, <1>2, <1>3, <2>1, Zenon DEF StepsInOrder
    <2> QED
      BY <1>2, <2>2, Zenon
  <1>4. ASSUME NEW t \in Steps
        PROVE  run.step[<<0, t>>].state = "completed" <=> t < s
    <2>1. Begun(<<0, s>>) /\ (run.step[<<0, t>>].state = "completed" => Begun(<<0, t>>))
      BY Zenon DEF Begun
    <2>2. t < s \/ t = s \/ s < t
      BY <1>1
    <2> QED
      BY <1>1, <1>3, <2>1, <2>2, Zenon
  <1> QED
    BY <1>1, <1>4 DEF CompletedSteps

\* The compensation under way is the one of the last step that is owed.
LEMMA OwedLast ==
    ASSUME FullInv, NEW id \in StepIds, IsCompensation(id), run.step[id].state = "leased"
    PROVE  /\ id = <<run.unwinds, id[2]>> /\ id \in Compensations /\ id[2] \in OwedSteps
           /\ \A t \in OwedSteps : t <= id[2]
  <1>1. /\ id \in Compensations /\ id[2] \in Steps /\ id = <<id[1], id[2]>>
        /\ id[1] \in 1..MaxUnwinds /\ Steps = 1..N /\ N \in Nat
    BY CompensationIds, FoldAssumption DEF Compensations, Steps, FoldAssumption
  <1>2. run.compensation[id] = "scheduled"
    <2>1. run.compensation[id] \in CompensationStatus
      BY <1>1, FullInvMeans, FieldsTyped, Zenon
    <2> QED
      BY <1>1, <2>1, FullInvMeans, Zenon DEF CompensationsAgree, CompensationStatus
  <1>3. id[1] = run.unwinds /\ id[2] \in OwedSteps
    BY <1>1, <1>2, FullInvMeans DEF OwedSteps, CompensationsAgree
  <1>4. ASSUME NEW t \in OwedSteps, ~(t <= id[2])
        PROVE  FALSE
    <2>1. t \in Steps /\ t > id[2]
      BY <1>1, <1>4 DEF OwedSteps
    <2>2. PICK b \in 1..MaxUnwinds : run.compensation[<<b, t>>] = "scheduled"
      BY <1>4, Zenon DEF OwedSteps
    <2>3. b = run.unwinds
      BY <2>1, <2>2, OwedNow
    <2>4. <<b, t>> \in StepIds /\ <<b, t>> \in Compensations /\ IsCompensation(<<b, t>>)
      BY <2>1, FoldAssumption DEF StepIds, Compensations, FoldAssumption, IsCompensation
    <2>5. Earlier(<<b, t>>, id)
      BY <1>3, <2>1, <2>3, <2>4, Zenon DEF Earlier
    <2>6. Begun(id)
      BY Zenon DEF Begun
    <2>7. run.step[<<b, t>>].state \in {"absent", "completed"}
      BY <2>4, <2>5, <2>6, FullInvMeans, Zenon DEF StepsInOrder
    <2> QED
      BY <2>2, <2>4, <2>7, FullInvMeans, Zenon DEF CompensationsAgree
  <1> QED
    BY <1>1, <1>3, <1>4, Zenon

\* Closing its entry takes a step off what is owed.
LEMMA OwedPaid ==
    ASSUME FullInv, NEW l \in DOMAIN leases, NEW x, NEW e \in {"completed", "failed"},
           EntryCloses(l, x, e)
    PROVE  /\ OwedSteps' = OwedSteps \ {leases[l].step[2]}
           /\ leases[l].step[2] \in OwedSteps
           /\ \A t \in OwedSteps : t <= leases[l].step[2]
  <1> DEFINE id == leases[l].step
             s == id[2]
  <1>1. /\ id = <<run.unwinds, s>> /\ id \in Compensations /\ s \in OwedSteps
        /\ \A t \in OwedSteps : t <= s
    BY OwedLast, Zenon DEF EntryCloses
  <1>2. /\ run'.compensation[id] = e
        /\ \A c \in Compensations \ {id} : run'.compensation[c] = run.compensation[c]
    BY Zenon DEF EntryCloses, EntryMoves
  <1> HIDE DEF id, s
  <1>3. ASSUME NEW t \in Steps
        PROVE  t \in OwedSteps' <=> t \in OwedSteps /\ t # s
    <2>1. CASE t = s
      <3>1. ASSUME NEW b \in 1..MaxUnwinds, run'.compensation[<<b, t>>] = "scheduled"
            PROVE  FALSE
        <4>1. <<b, t>> \in Compensations /\ <<b, t>> # id
          BY <1>2, <3>1, Zenon DEF Compensations
        <4>2. b = run.unwinds
          BY <1>2, <3>1, <4>1, OwedNow, Zenon
        <4> QED
          BY <1>1, <2>1, <4>1, <4>2, Zenon
      <3>2. t \notin OwedSteps'
        BY <3>1, Zenon DEF OwedSteps
      <3> QED
        BY <2>1, <3>2, Zenon
    <2>2. CASE t # s
      <3>1. \A b \in 1..MaxUnwinds : <<b, t>> \in Compensations /\ <<b, t>> # id
        BY <1>1, <2>2, Zenon DEF Compensations
      <3> QED
        BY <1>2, <2>2, <3>1, Zenon DEF OwedSteps
    <2> QED
      BY <2>1, <2>2, Zenon
  <1>4. OwedSteps' \subseteq Steps /\ OwedSteps \subseteq Steps
    BY Zenon DEF OwedSteps
  <1>5. OwedSteps' = OwedSteps \ {s}
    BY <1>3, <1>4, Zenon
  <1> QED
    BY <1>1, <1>5, Zenon DEF id, s

\* complete of a step of the workflow is the next effect of the saga.
LEMMA WorkflowAdvances ==
    ASSUME FullInv, NEW l \in DOMAIN leases, NEW usage \in Usages \cup {NoUsage},
           WorkflowCompletes(l, usage)
    PROVE  \E s \in 1..N : Promise!Advance(s)
  <1> DEFINE id == leases[l].step
             s == id[2]
  <1>1. /\ id \in StepIds /\ ~IsCompensation(id) /\ run.state = "running" /\ ~run.abandoning
        /\ run.step[id].state = "leased" /\ StepMoves(id, "completed")
        /\ SameEntries(run, run')
    BY Zenon DEF WorkflowCompletes, Reported
  <1>2. /\ IF WorkflowDone(run') THEN run'.state = "completed" /\ run'.exceeded = run.exceeded
           ELSE IF usage # NoUsage /\ OverCeiling(run'.used) /\ ~run.exceeded
             THEN run'.state = "parked" /\ run'.park_reason = "budget"
           ELSE run'.state = "running" /\ run'.exceeded = run.exceeded
    BY Zenon DEF WorkflowCompletes
  <1> HIDE DEF id
  <1>3. id = <<0, s>> /\ s \in 1..N /\ Steps = 1..N /\ N \in Nat
    BY <1>1, FoldAssumption DEF FoldAssumption, StepIds, Steps, IsCompensation
  <1> HIDE DEF s
  <1>4. OwedSteps = {} /\ OwedSteps' = OwedSteps
    BY <1>1, NothingOwed, SameOwed, Zenon
  <1>5. CompletedSteps = 1..(s - 1)
    BY <1>1, <1>3, DoneBefore, Zenon
  <1>6. \A t \in Steps : run'.step[<<0, t>>].state = "completed" <=>
                            run.step[<<0, t>>].state = "completed" \/ t = s
    <2>1. \A t \in Steps : <<0, t>> \in StepIds
      BY FoldAssumption DEF FoldAssumption, StepIds
    <2>2. /\ run'.step[<<0, s>>].state = "completed"
          /\ \A e \in StepIds \ {<<0, s>>} : run'.step[e] = run.step[e]
      BY <1>1, <1>3, Zenon DEF StepMoves
    <2>3. ASSUME NEW t \in Steps, t # s
          PROVE  run'.step[<<0, t>>] = run.step[<<0, t>>]
      <3>1. <<0, t>> \in StepIds \ {<<0, s>>}
        BY <2>1, <2>3, Zenon
      <3> QED
        BY <2>2, <3>1, Zenon
    <2> QED
      BY <2>2, <2>3, Zenon
  <1>7. CompletedSteps' = CompletedSteps \cup {s}
    BY <1>3, <1>6, Zenon DEF CompletedSteps
  <1>8. WorkflowDone(run') <=> s = N
    <2>1. WorkflowDone(run') <=> \A t \in Steps : run'.step[<<0, t>>].state = "completed"
      BY DEF WorkflowDone, Workflow
    <2>2. WorkflowDone(run') <=> CompletedSteps' = Steps
      BY <2>1, Zenon DEF CompletedSteps
    <2>3. CompletedSteps' = 1..s
      BY <1>3, <1>5, <1>7
    <2>4. 1..s = 1..N <=> s = N
      <3>1. 1..s = 1..N => N \in 1..s
        BY <1>3
      <3> QED
        BY <1>3, <3>1
    <2> QED
      BY <1>3, <2>2, <2>3, <2>4, Zenon
  <1>9. IF s = N THEN run'.state = "completed" ELSE run'.state \in {"running", "parked"}
    BY <1>2, <1>8, Zenon
  <1>10. Promise!Advance(s)
    BY <1>1, <1>4, <1>5, <1>7, <1>9, Zenon DEF Promise!Advance
  <1> QED
    BY <1>3, <1>10, Zenon

\* The end of a compensation leaves the workflow alone.
LEMMA CompensationEndsAlone ==
    ASSUME NEW l \in DOMAIN leases, NEW x, NEW e, EntryCloses(l, x, e)
    PROVE  CompletedSteps' = CompletedSteps
  <1>1. \A s \in Steps : <<0, s>> \in StepIds \ {leases[l].step}
    BY FoldAssumption DEF FoldAssumption, StepIds, EntryCloses, IsCompensation
  <1>2. \A id \in StepIds \ {leases[l].step} : run'.step[id] = run.step[id]
    BY Zenon DEF EntryCloses, StepMoves
  <1> QED
    BY <1>1, <1>2, Zenon DEF CompletedSteps

\* The end of a compensation pays, or loses, the last step that is owed.
LEMMA CompensationPays ==
    ASSUME FullInv, NEW l \in DOMAIN leases, NEW usage \in Usages \cup {NoUsage},
           CompensationCompletes(l, usage)
    PROVE  \E s \in OwedSteps : Promise!Undo(s)
  <1> DEFINE s == leases[l].step[2]
  <1>1. EntryCloses(l, "completed", "completed") /\ run.state = "running"
    BY Zenon DEF CompensationCompletes, EntryCloses, Reported
  <1>2. /\ OwedSteps' = OwedSteps \ {s} /\ s \in OwedSteps
        /\ \A t \in OwedSteps : t <= s
    BY <1>1, OwedPaid, Zenon
  <1>3. CompletedSteps' = CompletedSteps
    BY <1>1, CompensationEndsAlone, Zenon
  <1>4. run'.state = IF OwedSteps' = {} THEN "abandoned" ELSE "running"
    <2>1. unwind_pending(run') <=> OwedSteps' # {}
      BY OwedIsPending, Zenon DEF OwedSteps
    <2> QED
      BY <2>1, Zenon DEF CompensationCompletes
  <1> HIDE DEF s
  <1>5. Promise!Undo(s)
    BY <1>1, <1>2, <1>3, <1>4, Zenon DEF Promise!Undo, Promise!Last
  <1> QED
    BY <1>2, <1>5, Zenon

\* A compensation that fails for good loses its step and fails the run.
LEMMA CompensationLost ==
    ASSUME FullInv, NEW l \in DOMAIN leases, FailLoses(l)
    PROVE  \E s \in OwedSteps : Promise!Lose(s)
  <1> DEFINE s == leases[l].step[2]
  <1>1. EntryCloses(l, "quarantined", "failed") /\ run.state = "running" /\ run'.state = "failed"
    BY Zenon DEF FailLoses, EntryCloses, Reported
  <1>2. /\ OwedSteps' = OwedSteps \ {s} /\ s \in OwedSteps
        /\ \A t \in OwedSteps : t <= s
    BY <1>1, OwedPaid, Zenon
  <1>3. CompletedSteps' = CompletedSteps
    BY <1>1, CompensationEndsAlone, Zenon
  <1> HIDE DEF s
  <1>4. Promise!Lose(s)
    BY <1>1, <1>2, <1>3, Zenon DEF Promise!Lose, Promise!Last
  <1> QED
    BY <1>2, <1>4, Zenon

\* abandon makes the run owe what it can undo.
LEMMA AbandonOwes ==
    ASSUME FullInv, GivenUp
    PROVE  \E S \in SUBSET CompletedSteps : Promise!GiveUp(S)
  <1> DEFINE S == Resolvable(run)
  <1>1. /\ run.state \in {"running", "parked", "failed"} /\ ~unwind_pending(run)
        /\ run'.unwinds \in 1..MaxUnwinds
        /\ \A c \in Compensations : run'.compensation[c] =
              IF c[1] = run'.unwinds /\ c[2] \in S THEN "scheduled" ELSE run.compensation[c]
        /\ run'.state = IF ToCompensate(run) # S THEN "failed"
                        ELSE IF S = {} THEN "abandoned" ELSE "running"
    BY Zenon DEF GivenUp
  <1>2. S \subseteq CompletedSteps /\ S \subseteq Steps
    BY Zenon DEF Resolvable, ToCompensate, CompletedSteps
  <1>3. OwedSteps = {}
    BY <1>1, OwedIsPending, Zenon DEF OwedSteps
  <1>4. CompletedSteps' = CompletedSteps
    <2>1. \A id \in StepIds : run'.step[id].state = "completed" <=> run.step[id].state = "completed"
      BY StepsGivenUp, FullInvMeans, Zenon
    <2> QED
      BY <2>1, SameDone, Zenon
  <1> HIDE DEF S
  <1>5. OwedSteps' = S
    <2>1. ASSUME NEW s \in Steps, NEW b \in 1..MaxUnwinds
          PROVE  run'.compensation[<<b, s>>] = "scheduled" <=> b = run'.unwinds /\ s \in S
      <3>1. <<b, s>> \in Compensations /\ <<b, s>>[1] = b /\ <<b, s>>[2] = s
        BY Zenon DEF Compensations
      <3>2. run.compensation[<<b, s>>] # "scheduled"
        BY <1>1, <3>1, Zenon DEF unwind_pending
      <3> QED
        BY <1>1, <3>1, <3>2, Zenon
    <2>2. \A s \in Steps : s \in S <=>
             \E b \in 1..MaxUnwinds : run'.compensation[<<b, s>>] = "scheduled"
      BY <1>1, <2>1, Zenon
    <2> QED
      BY <1>2, <2>2, Zenon DEF OwedSteps
  <1>6. Promise!GiveUp(S)
    BY <1>1, <1>2, <1>3, <1>4, <1>5, Zenon DEF Promise!GiveUp
  <1> QED
    BY <1>2, <1>6, Zenon

\* Every operation of the kernel is a step of the saga or invisible to it.
LEMMA OutcomeIsSagaStep ==
    ASSUME FullInv, Outcome
    PROVE  Promise!Next \/ UNCHANGED <<run.state, CompletedSteps, OwedSteps>>
  <1> DEFINE Invisible == UNCHANGED <<run.state, CompletedSteps, OwedSteps>>
  <1>1. CASE Quiet
    <2>1. run'.state = run.state /\ SameEntries(run, run')
          /\ \A id \in StepIds : run'.step[id].state = run.step[id].state
      BY <1>1, Zenon DEF Quiet, Framed
    <2> QED
      BY <2>1, SameDone, SameOwed, Zenon
  <1>2. ASSUME NEW b \in Bundles, Started(b)
        PROVE  Promise!Next
    <2>1. /\ run.state = "none" /\ run'.state = "running"
          /\ \A id \in StepIds : run.step[id].state # "completed" /\ run'.step[id].state # "completed"
          /\ \A c \in Compensations : run'.compensation[c] = "none"
      BY <1>2, FullInvMeans DEF Started, FoldConsistent, FreshStep, AbsentStep
    <2>2. ~run.abandoning
      BY <2>1, FullInvMeans DEF FoldConsistent
    <2>3. CompletedSteps' = CompletedSteps
      BY <2>1, SameDone, Zenon
    <2>4. OwedSteps = {} /\ OwedSteps' = {}
      <3>1. ~unwind_pending(run')
        BY <2>1, Zenon DEF unwind_pending
      <3> QED
        BY <2>2, <3>1, NothingOwed, OwedIsPending, Zenon DEF OwedSteps
    <2>5. Promise!Begin
      BY <2>1, <2>3, <2>4, Zenon DEF Promise!Begin
    <2> QED
      BY <2>5, Zenon DEF Promise!Next
  <1>3. ASSUME SameWins, SameEntries(run, run')
        PROVE  CompletedSteps' = CompletedSteps /\ OwedSteps' = OwedSteps
    BY <1>3, SameDone, SameOwed, Zenon DEF SameWins
  <1>4. ASSUME CompletedSteps' = CompletedSteps, OwedSteps' = OwedSteps,
               \/ run.state = "running" /\ run'.state = "parked"
               \/ run.state = "parked" /\ run'.state = "running"
               \/ run.state = "parked" /\ run'.state = "failed"
               \/ run'.state = run.state
        PROVE  Promise!Next \/ Invisible
    BY <1>4, Zenon DEF Promise!Next, Promise!Park, Promise!Continue, Promise!Reject
  <1>5. ASSUME NEW id \in StepIds, Granted(id)
        PROVE  Promise!Next \/ Invisible
    <2>1. /\ \A e \in StepIds : run'.step[e].state = "completed" <=> run.step[e].state = "completed"
          /\ SameEntries(run, run') /\ run'.state = run.state
      BY <1>5, Zenon DEF Granted, StepMoves, Framed
    <2> QED
      BY <1>4, <2>1, SameDone, SameOwed, Zenon
  <1>6. ASSUME NEW S \in SUBSET DOMAIN leases, NEW T \in SUBSET StepIds, Expired(S, T)
        PROVE  Promise!Next \/ Invisible
    <2>1. \A e \in StepIds : run'.step[e].state = "completed" <=> run.step[e].state = "completed"
      BY <1>6 DEF Expired
    <2>2. SameEntries(run, run') /\ run'.state = run.state
      BY <1>6, Zenon DEF Expired, Framed
    <2> QED
      BY <1>4, <2>1, <2>2, SameDone, SameOwed, Zenon
  <1>7. ASSUME NEW a \in DOMAIN approvals, NEW decision \in {"approved", "rejected"},
               Decided(a, decision)
        PROVE  Promise!Next \/ Invisible
    <2>1. /\ SameEntries(run, run') /\ run.state = "parked" /\ run'.state \in {"running", "failed"}
          /\ run.step[approvals[a].step].state = "waiting_approval"
          /\ \E st \in {"scheduled", "failed"} : StepMoves(approvals[a].step, st)
      BY <1>7, Zenon DEF Decided, Framed
    <2>2. \A e \in StepIds : run'.step[e].state = "completed" <=> run.step[e].state = "completed"
      BY <2>1, Zenon DEF StepMoves
    <2> QED
      BY <1>4, <2>1, <2>2, SameDone, SameOwed, Zenon
  <1>8. ASSUME NEW S \in SUBSET StepIds, Restarted(S)
        PROVE  Promise!Next \/ Invisible
    <2>1. /\ \A e \in StepIds : run'.step[e].state = "completed" <=> run.step[e].state = "completed"
          /\ SameEntries(run, run') /\ run.state = "parked" /\ run'.state = "running"
      BY <1>8, Zenon DEF Restarted, Framed
    <2> QED
      BY <1>4, <2>1, SameDone, SameOwed, Zenon
  <1>9. CASE GivenUp
    BY <1>9, AbandonOwes, Zenon DEF Promise!Next
  <1>10. ASSUME NEW l \in DOMAIN leases, ReportOutcome(l)
         PROVE  Promise!Next \/ Invisible
    <2>1. ASSUME NEW usage \in Usages \cup {NoUsage}, WorkflowCompletes(l, usage)
          PROVE  Promise!Next
      BY <2>1, WorkflowAdvances, Zenon DEF Promise!Next
    <2>2. ASSUME NEW usage \in Usages \cup {NoUsage}, CompensationCompletes(l, usage)
          PROVE  Promise!Next
      BY <2>2, CompensationPays, Zenon DEF Promise!Next
    <2>3. ASSUME FailLoses(l)
          PROVE  Promise!Next
      BY <2>3, CompensationLost, Zenon DEF Promise!Next
    <2>4. ASSUME NEW st \in {"failed", "released"},
                 NEW x \in {"scheduled", "failed", "quarantined", "waiting_approval"},
                 Reported(l, st, x), SameEntries(run, run'), run'.state \in {"running", "parked"}
          PROVE  Promise!Next \/ Invisible
      <3>1. CompletedSteps' = CompletedSteps /\ OwedSteps' = OwedSteps
        BY <1>3, <2>4, ReportWinsNothing, Zenon
      <3>2. run.state = "running"
        BY <2>4, Zenon DEF Reported
      <3> QED
        BY <1>4, <2>4, <3>1, <3>2, Zenon
    <2>5. ASSUME \/ FailRetries(l) \/ FailParks(l)
                 \/ \E action \in Actions : Asked(l, action)
          PROVE  /\ SameEntries(run, run') /\ run'.state \in {"running", "parked"}
                 /\ \E st \in {"failed", "released"},
                       x \in {"scheduled", "failed", "quarantined", "waiting_approval"} :
                       Reported(l, st, x)
      BY <2>5, Zenon DEF FailRetries, FailParks, Asked, Framed
    <2> QED
      BY <1>10, <2>1, <2>2, <2>3, <2>4, <2>5, Zenon DEF ReportOutcome
  <1> QED
    BY <1>1, <1>2, <1>5, <1>6, <1>7, <1>8, <1>9, <1>10, Zenon DEF Outcome

----------------------------------------------------------------------------
\* What survives every outcome.

\* Steps of the workflow are never removed.
LEMMA WorkflowScheduledKept ==
    ASSUME FullInv, Outcome
    PROVE  WorkflowScheduled'
  <1>0. Workflow \subseteq StepIds /\ \A id \in Workflow : id[1] = 0
    BY FoldAssumption DEF FoldAssumption, Workflow, StepIds
  <1> DEFINE Kept == /\ run'.state # "none" => run.state # "none"
                     /\ \A id \in StepIds : run'.step[id].state = "absent" => run.step[id].state = "absent"
  <1>1. ASSUME Kept
        PROVE  WorkflowScheduled'
    BY <1>0, <1>1, FullInvMeans, Zenon DEF WorkflowScheduled
  <1>2. CASE Quiet
    BY <1>1, <1>2, Zenon DEF Quiet
  <1>3. ASSUME NEW b \in Bundles, Started(b)
        PROVE  WorkflowScheduled'
    BY <1>0, <1>3 DEF Started, WorkflowScheduled, FreshStep
  <1>4. ASSUME NEW id \in StepIds, Granted(id)
        PROVE  Kept
    BY <1>4, Zenon DEF Granted, StepMoves
  <1>5. ASSUME NEW S \in SUBSET DOMAIN leases, NEW T \in SUBSET StepIds, Expired(S, T)
        PROVE  Kept
    BY <1>5 DEF Expired
  <1>6. ASSUME NEW a \in DOMAIN approvals, NEW decision \in {"approved", "rejected"},
               Decided(a, decision)
        PROVE  Kept
    BY <1>6 DEF Decided, StepMoves
  <1>7. ASSUME NEW S \in SUBSET StepIds, Restarted(S)
        PROVE  Kept
    BY <1>7, Zenon DEF Restarted
  <1>8. CASE GivenUp
    <2>1. \A id \in StepIds : run'.step[id].state = "absent" => run.step[id].state = "absent"
      BY <1>8, StepsGivenUp, FullInvMeans, Zenon
    <2> QED
      BY <1>1, <1>8, <2>1, Zenon DEF GivenUp
  <1>9. ASSUME NEW l \in DOMAIN leases, ReportOutcome(l)
        PROVE  Kept
    <2>1. \E st, x : x # "absent" /\ Reported(l, st, x)
      BY <1>9, Zenon
      DEF ReportOutcome, WorkflowCompletes, CompensationCompletes, FailRetries, FailParks,
          FailLoses, Asked
    <2> QED
      BY <2>1, Zenon DEF Reported, StepMoves
  <1> QED
    BY <1>1, <1>2, <1>3, <1>4, <1>5, <1>6, <1>7, <1>8, <1>9, Zenon DEF Outcome

\* No entry of a compensation moves, nor does a compensation appear or end.
EntriesIdle ==
    /\ SameEntries(run, run') /\ run'.unwinds = run.unwinds
    /\ \A c \in Compensations, st \in {"absent", "completed", "quarantined"} :
          run'.step[c].state = st <=> run.step[c].state = st

\* Entries move with abandon, and with the end of a compensation.
LEMMA EntriesMove ==
    ASSUME FullInv, Outcome
    PROVE  \/ EntriesIdle
           \/ \E b \in Bundles : Started(b)
           \/ GivenUp
           \/ \E l \in DOMAIN leases :
                 EntryCloses(l, "completed", "completed") \/ EntryCloses(l, "quarantined", "failed")
  <1>0. Compensations \subseteq StepIds /\ \A c \in Compensations : IsCompensation(c) /\ c \notin Workflow
    BY CompensationIds, FoldAssumption DEF FoldAssumption, Workflow, Compensations
  <1>1. CASE Quiet
    BY <1>0, <1>1, Zenon DEF Quiet, EntriesIdle, Framed
  <1>2. ASSUME NEW id \in StepIds, Granted(id)
        PROVE  EntriesIdle
    BY <1>0, <1>2, Zenon DEF Granted, StepMoves, EntriesIdle, Framed
  <1>3. ASSUME NEW S \in SUBSET DOMAIN leases, NEW T \in SUBSET StepIds, Expired(S, T)
        PROVE  EntriesIdle
    <2>1. \A id \in StepIds, st \in {"absent", "completed", "quarantined"} :
             run'.step[id].state = st <=> run.step[id].state = st
      BY <1>3 DEF Expired
    <2> QED
      BY <1>0, <1>3, <2>1, Zenon DEF Expired, EntriesIdle, Framed
  <1>4. ASSUME NEW a \in DOMAIN approvals, NEW decision \in {"approved", "rejected"},
               Decided(a, decision)
        PROVE  EntriesIdle
    <2>1. /\ Framed(run, run') /\ run.step[approvals[a].step].state = "waiting_approval"
          /\ \E st \in {"scheduled", "failed"} : StepMoves(approvals[a].step, st)
      BY <1>4, Zenon DEF Decided
    <2> QED
      BY <1>0, <2>1, Zenon DEF StepMoves, EntriesIdle, Framed
  <1>5. ASSUME NEW S \in SUBSET StepIds, Restarted(S)
        PROVE  EntriesIdle
    BY <1>0, <1>5, Zenon DEF Restarted, EntriesIdle, Framed
  <1>6. ASSUME NEW l \in DOMAIN leases, ReportOutcome(l)
        PROVE  \/ EntriesIdle
               \/ EntryCloses(l, "completed", "completed") \/ EntryCloses(l, "quarantined", "failed")
    <2>1. ASSUME NEW st, NEW x \in {"scheduled", "waiting_approval"}, Reported(l, st, x),
                 Framed(run, run')
          PROVE  EntriesIdle
      BY <1>0, <2>1, Zenon DEF Reported, StepMoves, EntriesIdle, Framed
    <2>2. ASSUME NEW st, NEW x, Reported(l, st, x), ~IsCompensation(leases[l].step),
                 SameEntries(run, run')
          PROVE  EntriesIdle
      BY <1>0, <2>2, Zenon DEF Reported, StepMoves, EntriesIdle
    <2>3. ASSUME FailRetries(l) \/ \E action \in Actions : Asked(l, action)
          PROVE  EntriesIdle
      BY <2>1, <2>3, Zenon DEF FailRetries, Asked
    <2>4. ASSUME FailParks(l) \/ \E usage \in Usages \cup {NoUsage} : WorkflowCompletes(l, usage)
          PROVE  EntriesIdle
      BY <2>2, <2>4, Zenon DEF FailParks, WorkflowCompletes, Framed
    <2>5. ASSUME FailLoses(l)
          PROVE  EntryCloses(l, "quarantined", "failed")
      BY <2>5, Zenon DEF FailLoses, Reported, EntryCloses
    <2>6. ASSUME NEW usage \in Usages \cup {NoUsage}, CompensationCompletes(l, usage)
          PROVE  EntryCloses(l, "completed", "completed")
      BY <2>6, Zenon DEF CompensationCompletes, Reported, EntryCloses
    <2> QED
      BY <1>6, <2>3, <2>4, <2>5, <2>6, Zenon DEF ReportOutcome
  <1> QED
    BY <1>1, <1>2, <1>3, <1>4, <1>5, <1>6, Zenon DEF Outcome

\* What CompensationsAgree says of one entry.
EntryAgrees(r, c) ==
    /\ r.compensation[c] = "none" <=> r.step[c].state = "absent"
    /\ r.compensation[c] = "completed" <=> r.step[c].state = "completed"
    /\ r.compensation[c] = "failed" <=> r.step[c].state = "quarantined"
    /\ r.compensation[c] = "scheduled" => c[1] = r.unwinds
    /\ r.compensation[c] # "none" =>
          /\ r.bundle[c[2]] = "resolves"
          /\ \A b \in 1..(c[1] - 1) : r.compensation[<<b, c[2]>>] \in {"none", "failed"}

\* An entry is found where compensations are numbered.
LEMMA OlderEntries ==
    ASSUME NEW c \in Compensations, NEW b \in 1..(c[1] - 1)
    PROVE  /\ <<b, c[2]>> \in Compensations
           /\ c = <<c[1], c[2]>> /\ c[2] \in Steps /\ c[1] \in Int /\ b \in Int /\ b < c[1]
           /\ <<b, c[2]>>[1] = b /\ <<b, c[2]>>[2] = c[2]
  BY FoldAssumption DEF FoldAssumption, Compensations

\* Entries and compensating steps stay in agreement.
LEMMA CompensationsAgreeKept ==
    ASSUME FullInv, TypeOK', Outcome
    PROVE  CompensationsAgree'
  <1>0. /\ \A c \in Compensations : EntryAgrees(run, c) /\ run.compensation[c] \in CompensationStatus
        /\ Compensations \subseteq StepIds
    BY CompensationIds, FullInvMeans, FieldsTyped DEF CompensationsAgree, EntryAgrees
  <1> SUFFICES ASSUME NEW c \in Compensations
               PROVE  EntryAgrees(run', c)
    BY Zenon DEF CompensationsAgree, EntryAgrees
  <1>1. CASE EntriesIdle
    BY <1>0, <1>1 DEF EntriesIdle, SameEntries, EntryAgrees
  <1>2. ASSUME NEW b \in Bundles, Started(b)
        PROVE  EntryAgrees(run', c)
    <2>1. c \in StepIds /\ c[1] # 0
      BY <1>0, CompensationIds DEF IsCompensation
    <2>2. run'.step[c].state = "absent" /\ run'.compensation[c] = "none"
      BY <1>2, <2>1 DEF Started, AbsentStep
    <2> QED
      BY <2>2, Zenon DEF EntryAgrees
  <1>3. ASSUME NEW l \in DOMAIN leases, NEW x, NEW e, EntryCloses(l, x, e),
               \/ x = "completed" /\ e = "completed"
               \/ x = "quarantined" /\ e = "failed"
        PROVE  EntryAgrees(run', c)
    <2> DEFINE id == leases[l].step
    <2>1. /\ id \in Compensations /\ run.step[id].state = "leased"
          /\ run'.step[id].state = x /\ run'.compensation[id] = e
          /\ \A d \in Compensations \ {id} : /\ run'.compensation[d] = run.compensation[d]
                                             /\ run'.step[d] = run.step[d]
          /\ run'.unwinds = run.unwinds /\ run'.bundle = run.bundle
      BY <1>0, <1>3, CompensationIds, Zenon DEF EntryCloses, EntryMoves, StepMoves
    <2> HIDE DEF id
    <2>2. run.compensation[id] = "scheduled"
      BY <1>0, <2>1, Zenon DEF EntryAgrees, CompensationStatus
    <2>3. CASE c = id
      <3>1. \A b \in 1..(c[1] - 1) : run'.compensation[<<b, c[2]>>] = run.compensation[<<b, c[2]>>]
        BY <2>1, <2>3, OlderEntries
      <3> QED
        BY <1>0, <1>3, <2>1, <2>2, <2>3, <3>1 DEF EntryAgrees
    <2>4. CASE c # id
      <3>1. run'.compensation[c] = run.compensation[c] /\ run'.step[c] = run.step[c]
        BY <2>1, <2>4, Zenon
      <3>2. ASSUME run.compensation[c] # "none", NEW b \in 1..(c[1] - 1)
            PROVE  run'.compensation[<<b, c[2]>>] = run.compensation[<<b, c[2]>>]
        <4>1. run.compensation[<<b, c[2]>>] \in {"none", "failed"}
          BY <1>0, <3>2, Zenon
          DEF EntryAgrees <4>2. <<b, c[2]>> # id /\ <<b, c[2]>> \in Compensations BY <2>2, <3>2,
              <4>1, OlderEntries
        <4> QED
          BY <2>1, <4>2, Zenon
      <3>3. EntryAgrees(run, c)
        BY <1>0, Zenon
      <3> QED
        BY <2>1, <3>1, <3>2, <3>3, Zenon DEF EntryAgrees
    <2> QED
      BY <2>3, <2>4, Zenon
  <1>4. CASE GivenUp
    <2>1. /\ run'.unwinds = run.unwinds + 1 /\ run.unwinds \in Nat /\ c[1] \in Nat
          /\ run'.bundle = run.bundle
          /\ run'.compensation[c] =
                IF c[1] = run'.unwinds /\ c[2] \in Resolvable(run) THEN "scheduled"
                ELSE run.compensation[c]
          /\ run'.step[c] =
                IF c[1] = run'.unwinds /\ c[2] \in Resolvable(run) THEN FreshStep ELSE run.step[c]
          /\ run.compensation[c] # "scheduled"
      BY <1>0, <1>4, FoldAssumption, FullInvMeans, FieldsTyped
      DEF GivenUp, unwind_pending, FoldAssumption, Compensations
    <2>2. c[1] > run.unwinds => run.step[c].state = "absent"
      BY <1>0, FullInvMeans, Zenon DEF FoldConsistent
    <2>3. ASSUME NEW b \in 1..(c[1] - 1), c[1] <= run'.unwinds
          PROVE  run'.compensation[<<b, c[2]>>] = run.compensation[<<b, c[2]>>]
      <3>1. <<b, c[2]>> \in Compensations /\ <<b, c[2]>>[1] # run'.unwinds
        BY <2>1, <2>3, OlderEntries
      <3> QED
        BY <1>4, <3>1, Zenon DEF GivenUp
    <2>4. CASE c[1] = run'.unwinds /\ c[2] \in Resolvable(run)
      <3>1. run.bundle[c[2]] = "resolves"
        BY <2>4, Zenon DEF Resolvable
      <3>2. \A b \in 1..(c[1] - 1) : run.compensation[<<b, c[2]>>] \in {"none", "failed"}
        <4>1. \A b \in 1..MaxUnwinds : run.compensation[<<b, c[2]>>] \in {"none", "failed"}
          BY <2>4, Zenon DEF Resolvable, ToCompensate
        <4>2. \A b \in 1..(c[1] - 1) : b \in 1..MaxUnwinds
          BY FoldAssumption DEF FoldAssumption, Compensations
        <4> QED
          BY <4>1, <4>2, Zenon
      <3>3. \A b \in 1..(c[1] - 1) : run'.compensation[<<b, c[2]>>] \in {"none", "failed"}
        BY <2>1, <2>3, <2>4, <3>2
      <3> QED
        BY <2>1, <2>4, <3>1, <3>3 DEF EntryAgrees, FreshStep
    <2>5. CASE ~(c[1] = run'.unwinds /\ c[2] \in Resolvable(run))
      <3>1. run'.compensation[c] = run.compensation[c] /\ run'.step[c] = run.step[c]
        BY <2>1, <2>5, Zenon
      <3>2. EntryAgrees(run, c)
        BY <1>0, Zenon
      <3>3. run.compensation[c] # "none" => c[1] <= run'.unwinds
        BY <2>1, <2>2, <3>2 DEF EntryAgrees
      <3> QED
        BY <2>1, <2>3, <3>1, <3>2, <3>3, Zenon DEF EntryAgrees
    <2> QED
      BY <2>4, <2>5, Zenon
  <1> QED
    BY <1>1, <1>2, <1>3, <1>4, EntriesMove, Zenon

\* Unless it begins or is given up, a run that failed stays so, and one becomes
\* abandoned only when no compensation is left.
LEMMA StatusMoves ==
    ASSUME FullInv, Outcome
    PROVE  \/ GivenUp
           \/ \E b \in Bundles : Started(b)
           \/ /\ run'.abandoning = run.abandoning
              /\ run.state = "failed" => run'.state = "failed"
              /\ run'.state = "abandoned" =>
                    \/ run.state = "abandoned" /\ SameEntries(run, run')
                    \/ run.abandoning /\ ~unwind_pending(run')
  <1> DEFINE Moves == /\ run'.abandoning = run.abandoning
                      /\ run.state = "failed" => run'.state = "failed"
                      /\ run'.state = "abandoned" =>
                            \/ run.state = "abandoned" /\ SameEntries(run, run')
                            \/ run.abandoning /\ ~unwind_pending(run')
  <1>1. CASE Quiet
    BY <1>1, Zenon DEF Quiet, Framed
  <1>2. ASSUME NEW id \in StepIds, Granted(id)
        PROVE  Moves
    BY <1>2, Zenon DEF Granted, StepMoves
  <1>3. ASSUME NEW S \in SUBSET DOMAIN leases, NEW T \in SUBSET StepIds, Expired(S, T)
        PROVE  Moves
    BY <1>3, Zenon DEF Expired, Framed
  <1>4. ASSUME NEW a \in DOMAIN approvals, NEW decision \in {"approved", "rejected"},
               Decided(a, decision)
        PROVE  Moves
    BY <1>4, Zenon DEF Decided, StepMoves
  <1>5. ASSUME NEW S \in SUBSET StepIds, Restarted(S)
        PROVE  Moves
    BY <1>5, Zenon DEF Restarted
  <1>6. ASSUME NEW l \in DOMAIN leases, ReportOutcome(l)
        PROVE  Moves
    <2>1. ASSUME NEW st, NEW x, Reported(l, st, x), run'.state # "abandoned"
          PROVE  Moves
      BY <2>1, Zenon DEF Reported, StepMoves
    <2>2. ASSUME FailRetries(l) \/ FailParks(l) \/ FailLoses(l)
          PROVE  run'.state # "abandoned" /\ \E x : Reported(l, "failed", x)
      BY <2>2, Zenon DEF FailRetries, FailParks, FailLoses
    <2>3. ASSUME NEW action \in Actions, Asked(l, action)
          PROVE  run'.state # "abandoned" /\ Reported(l, "released", "waiting_approval")
      BY <2>3, Zenon DEF Asked
    <2>4. ASSUME NEW usage \in Usages \cup {NoUsage}, WorkflowCompletes(l, usage)
          PROVE  run'.state # "abandoned" /\ Reported(l, "completed", "completed")
      BY <2>4, Zenon DEF WorkflowCompletes
    <2>5. ASSUME NEW usage \in Usages \cup {NoUsage}, CompensationCompletes(l, usage)
          PROVE  Moves
      BY <2>5, Zenon DEF CompensationCompletes, Reported, StepMoves
    <2> HIDE DEF Moves
    <2> QED
      BY <1>6, <2>1, <2>2, <2>3, <2>4, <2>5, Zenon DEF ReportOutcome
  <1> QED
    BY <1>1, <1>2, <1>3, <1>4, <1>5, <1>6, Zenon DEF Outcome

\* A run being abandoned goes on covering what it has to undo.
LEMMA UnwindCoversKept ==
    ASSUME FullInv, TypeOK', Lasting, Outcome
    PROVE  UnwindCovers'
  <1>0. /\ UnwindCovers /\ Workflow = {0} \X Steps /\ MaxUnwinds \in Nat
        /\ \A s \in Steps, b \in 1..MaxUnwinds : <<b, s>> \in Compensations
        /\ \A s \in Steps : <<0, s>> \in StepIds /\ <<0, s>> \in Workflow
    BY FoldAssumption, FullInvMeans DEF FoldAssumption, Workflow, Compensations, StepIds
  <1>1. ASSUME NEW b \in Bundles, Started(b)
        PROVE  UnwindCovers'
    BY <1>1, Zenon DEF Started, UnwindCovers
  <1>2. CASE GivenUp
    <2>1. /\ ~unwind_pending(run) /\ run'.abandoning = TRUE /\ run'.unwinds \in 1..MaxUnwinds
          /\ run'.bundle = run.bundle
          /\ \A c \in Compensations : run'.compensation[c] =
                IF c[1] = run'.unwinds /\ c[2] \in Resolvable(run) THEN "scheduled"
                ELSE run.compensation[c]
          /\ run'.state = IF ToCompensate(run) # Resolvable(run) THEN "failed"
                          ELSE IF Resolvable(run) = {} THEN "abandoned" ELSE "running"
      BY <1>2, Zenon DEF GivenUp
    <2>2. ASSUME run'.state = "abandoned"
          PROVE  ~unwind_pending(run')
      <3>1. Resolvable(run) = {}
        BY <2>1, <2>2, Zenon
      <3> QED
        BY <2>1, <3>1, Zenon DEF unwind_pending
    <2>3. ASSUME NEW s \in Steps, run'.state # "failed",
                 run'.step[<<0, s>>].state = "completed", run'.bundle[s] # "none"
          PROVE  \E b \in 1..MaxUnwinds : run'.compensation[<<b, s>>] \in {"scheduled", "completed"}
      <3>1. run.step[<<0, s>>].state = "completed"
        <4>1. <<0, s>> \in StepIds
          BY <1>0, Zenon
        <4> QED
          BY <1>2, <2>3, <4>1, StepsGivenUp, FullInvMeans, Zenon
      <3>2. CASE s \in ToCompensate(run)
        <4>1. s \in Resolvable(run) /\ <<run'.unwinds, s>> \in Compensations
          BY <1>0, <2>1, <2>3, <3>2, Zenon
        <4>2. run'.compensation[<<run'.unwinds, s>>] = "scheduled"
          BY <2>1, <4>1, Zenon
        <4> QED
          BY <2>1, <4>2, Zenon
      <3>3. CASE s \notin ToCompensate(run)
        <4>1. PICK b \in 1..MaxUnwinds : run.compensation[<<b, s>>] \notin {"none", "failed"}
          BY <2>1, <2>3, <3>1, <3>3, Zenon DEF ToCompensate
        <4>2. run.compensation[<<b, s>>] = "completed"
          BY <1>0, <2>1, <4>1, FullInvMeans, FieldsTyped, Zenon
          DEF unwind_pending, CompensationStatus
        <4>3. s \notin Resolvable(run) /\ <<b, s>> \in Compensations
          BY <1>0, <3>3, Zenon DEF Resolvable
        <4>4. run'.compensation[<<b, s>>] = "completed"
          BY <2>1, <4>2, <4>3, Zenon
        <4> QED
          BY <4>4, Zenon
      <3> QED
        BY <3>2, <3>3, Zenon
    <2>4. run'.abandoning
      BY <2>1, Zenon
    <2> QED
      BY <2>2, <2>3, <2>4, Zenon DEF UnwindCovers
  <1>3. ASSUME ~GivenUp, ~(\E b \in Bundles : Started(b))
        PROVE  UnwindCovers'
    <2>1. /\ run'.abandoning = run.abandoning
          /\ run.state = "failed" => run'.state = "failed"
          /\ run'.state = "abandoned" =>
                \/ run.state = "abandoned" /\ SameEntries(run, run')
                \/ run.abandoning /\ ~unwind_pending(run')
      BY <1>3, StatusMoves, Zenon
    <2>2. run'.state = "abandoned" => run'.abandoning /\ ~unwind_pending(run')
      BY <1>0, <2>1, Zenon DEF UnwindCovers, SameEntries, unwind_pending
    <2>3. ASSUME run'.abandoning, run'.state # "failed", NEW s \in Steps,
                 run'.step[<<0, s>>].state = "completed", run'.bundle[s] # "none"
          PROVE  \E b \in 1..MaxUnwinds : run'.compensation[<<b, s>>] \in {"scheduled", "completed"}
      <3>1. run.abandoning /\ run.state # "failed"
        BY <2>1, <2>3, Zenon
      <3>2. run.step[<<0, s>>].state = "completed"
        BY <1>0, <2>3, <3>1, Zenon DEF Lasting
      <3>3. CASE EntriesIdle
        BY <1>0, <2>3, <3>1, <3>2, <3>3, Zenon DEF UnwindCovers, EntriesIdle, SameEntries
      <3>4. ASSUME NEW l \in DOMAIN leases, EntryCloses(l, "completed", "completed")
            PROVE  \E b \in 1..MaxUnwinds : run'.compensation[<<b, s>>] \in {"scheduled", "completed"}
        <4>1. run'.bundle = run.bundle
          BY <3>4, Zenon DEF EntryCloses, EntryMoves
        <4>2. PICK b \in 1..MaxUnwinds : run.compensation[<<b, s>>] \in {"scheduled", "completed"}
          BY <1>0, <2>3, <3>1, <3>2, <4>1, Zenon
          DEF UnwindCovers <4>3. <<b, s>> \in Compensations BY <1>0
        <4>4. run'.compensation[<<b, s>>] \in {"scheduled", "completed"}
          BY <3>4, <4>2, <4>3, Zenon DEF EntryCloses, EntryMoves
        <4> QED
          BY <4>4, Zenon
      <3>5. \A l \in DOMAIN leases : ~EntryCloses(l, "quarantined", "failed")
        BY <2>3, Zenon DEF EntryCloses
      <3> QED
        BY <1>3, <3>3, <3>4, <3>5, EntriesMove, Zenon
    <2> QED
      BY <2>2, <2>3, Zenon DEF UnwindCovers
  <1> QED
    BY <1>1, <1>2, <1>3, Zenon

\* An approval is refused by a decision, and cancelled by abandon.
LEMMA RefusedByWhom ==
    ASSUME FullInv, Outcome, NEW a \in DOMAIN approvals',
           approvals'[a].state \in {"rejected", "cancelled"}
    PROVE  /\ a \in DOMAIN approvals /\ approvals'[a].step = approvals[a].step
           /\ \/ approvals[a].state \in {"rejected", "cancelled"}
              \/ Decided(a, "rejected")
              \/ GivenUp /\ approvals[a].state = "pending"
  <1>1. ASSUME UNCHANGED approvals
        PROVE  a \in DOMAIN approvals /\ approvals'[a] = approvals[a]
    BY <1>1, Zenon
  <1>2. CASE Quiet
    BY <1>2, Zenon DEF Quiet
  <1>3. CASE GivenUp
    BY <1>3, Zenon DEF GivenUp
  <1>4. ASSUME NEW d \in DOMAIN approvals, NEW decision \in {"approved", "rejected"},
               Decided(d, decision)
        PROVE  /\ a \in DOMAIN approvals /\ approvals'[a].step = approvals[a].step
               /\ approvals[a].state \in {"rejected", "cancelled"} \/ Decided(a, "rejected")
    <2>1. /\ a \in DOMAIN approvals /\ approvals'[a].step = approvals[a].step
          /\ a # d => approvals'[a] = approvals[a]
          /\ a = d => decision = "rejected"
      BY <1>4, Zenon DEF Decided
    <2> QED
      BY <1>4, <2>1, Zenon
  <1>5. ASSUME NEW l \in DOMAIN leases, NEW action \in Actions, Asked(l, action)
        PROVE  a \in DOMAIN approvals /\ approvals'[a] = approvals[a]
    BY <1>5, Zenon DEF Asked
  <1>6. ASSUME NEW l \in DOMAIN leases, ReportOutcome(l)
        PROVE  UNCHANGED approvals \/ \E action \in Actions : Asked(l, action)
    BY <1>6, Zenon DEF ReportOutcome, WorkflowCompletes, CompensationCompletes, FailRetries,
                       FailParks, FailLoses
  <1>7. ASSUME \/ \E b \in Bundles : Started(b)
               \/ \E id \in StepIds : Granted(id)
               \/ \E S \in SUBSET DOMAIN leases, T \in SUBSET StepIds : Expired(S, T)
               \/ \E S \in SUBSET StepIds : Restarted(S)
        PROVE  UNCHANGED approvals
    BY <1>7, Zenon DEF Started, Granted, Expired, Restarted
  <1>8. CASE UNCHANGED approvals
    BY <1>1, <1>8, Zenon
  <1>9. CASE \E l \in DOMAIN leases, action \in Actions : Asked(l, action)
    BY <1>5, <1>9, Zenon
  <1> QED
    BY <1>2, <1>3, <1>4, <1>6, <1>7, <1>8, <1>9, Zenon DEF Outcome

\* A run that failed does nothing more until it is given up.
LEMMA FailedIsIdle ==
    ASSUME FullInv, Outcome, run.state = "failed", ~GivenUp
    PROVE  \A id \in StepIds : run'.step[id].state = run.step[id].state
  <1>1. CASE Quiet
    BY <1>1, Zenon DEF Quiet
  <1>2. ASSUME NEW S \in SUBSET DOMAIN leases, NEW T \in SUBSET StepIds, Expired(S, T)
        PROVE  \A id \in StepIds : run'.step[id].state = run.step[id].state
    <2>1. T = {}
      BY <1>2, FullInvMeans DEF Expired, ActiveLeaseHeld
    <2> QED
      BY <1>2, <2>1 DEF Expired
  <1>3. ASSUME NEW l \in DOMAIN leases, ReportOutcome(l)
        PROVE  FALSE
    <2>1. \E st, x : Reported(l, st, x)
      BY <1>3, Zenon
      DEF ReportOutcome, WorkflowCompletes, CompensationCompletes, FailRetries, FailParks,
          FailLoses, Asked
    <2> QED
      BY <2>1, Zenon DEF Reported
  <1>4. ASSUME \/ \E b \in Bundles : Started(b)
               \/ \E id \in StepIds : Granted(id)
               \/ \E S \in SUBSET StepIds : Restarted(S)
               \/ \E a \in DOMAIN approvals, decision \in {"approved", "rejected"} :
                     Decided(a, decision)
        PROVE  FALSE
    BY <1>4, Zenon DEF Started, Granted, Restarted, Decided
  <1> QED
    BY <1>1, <1>2, <1>3, <1>4, Zenon DEF Outcome

\* A compensation that waits for somebody, or was refused, is still owed.
LEMMA WaitingIsOwed ==
    ASSUME FullInv, NEW id \in StepIds, IsCompensation(id),
           run.step[id].state \in {"waiting_approval", "failed"}
    PROVE  unwind_pending(run)
  <1>1. id \in Compensations
    BY CompensationIds, Zenon
  <1>2. run.compensation[id] \in CompensationStatus
    BY <1>1, FullInvMeans, FieldsTyped, Zenon
  <1>3. run.compensation[id] = "scheduled"
    BY <1>1, <1>2, FullInvMeans, Zenon DEF CompensationsAgree, CompensationStatus
  <1> QED
    BY <1>1, <1>3, Zenon DEF unwind_pending

\* What was refused stays undone and the run does not recover.
LEMMA RefusalStopsKept ==
    ASSUME FullInv, TypeOK', Lasting, Outcome
    PROVE  RefusalStops'
  <1> SUFFICES ASSUME NEW a \in DOMAIN approvals', approvals'[a].state \in {"rejected", "cancelled"}
               PROVE  /\ run'.step[approvals'[a].step].state # "completed"
                      /\ IF IsCompensation(approvals'[a].step)
                           THEN run'.state = "failed" /\ run'.step[approvals'[a].step].state = "failed"
                           ELSE run'.state = "failed" \/ run'.abandoning
    BY Zenon DEF RefusalStops, IsCompensation
  <1> DEFINE id == approvals[a].step
  <1>1. /\ a \in DOMAIN approvals /\ approvals'[a].step = id
        /\ \/ approvals[a].state \in {"rejected", "cancelled"}
           \/ Decided(a, "rejected")
           \/ GivenUp /\ approvals[a].state = "pending"
    BY RefusedByWhom, Zenon
  <1>2. id \in StepIds /\ run.abandoning \in BOOLEAN
    <2>1. approvals \in Seq(ApprovalRow) /\ run.abandoning \in BOOLEAN
      BY FullInvMeans, FieldsTyped, Zenon
    <2>2. approvals[a] \in ApprovalRow
      BY <1>1, <2>1
    <2> QED
      BY <2>1, <2>2, Zenon DEF ApprovalRow
  <1>3. ~IsCompensation(id) => id \in Workflow
    BY <1>2, FoldAssumption DEF FoldAssumption, StepIds, Workflow, IsCompensation
  <1>4. approvals[a].state = "pending" => run.step[id].state = "waiting_approval"
    BY <1>1, FullInvMeans, Zenon DEF OneApprovalPending, PendingApprovals
  <1>5. approvals[a].state \in {"rejected", "cancelled"} =>
           /\ run.step[id].state # "completed"
           /\ IF IsCompensation(id) THEN run.state = "failed" /\ run.step[id].state = "failed"
              ELSE run.state = "failed" \/ run.abandoning
    BY <1>1, FullInvMeans, Zenon DEF RefusalStops
  <1>6. \A b \in Bundles : ~Started(b)
    BY <1>1, Zenon DEF Started
  <1> HIDE DEF id
  <1>7. CASE Decided(a, "rejected")
    <2>1. run'.state = "failed" /\ run'.step[id].state = "failed"
      BY <1>7, Zenon DEF Decided, StepMoves, id
    <2> QED
      BY <1>1, <2>1, Zenon
  <1>8. CASE GivenUp
    <2>1. ~Decided(a, "rejected") \/ approvals[a].state = "pending"
      BY Zenon DEF Decided, PendingApprovals
    <2>2. ~unwind_pending(run) /\ run'.abandoning = TRUE
      BY <1>8, Zenon DEF GivenUp
    <2>3. ~IsCompensation(id)
      BY <1>1, <1>2, <1>4, <1>5, <2>1, <2>2, WaitingIsOwed, Zenon
    <2>4. run.step[id].state # "completed"
      BY <1>1, <1>4, <1>5, <2>1, Zenon
    <2>5. run'.step[id].state # "completed"
      BY <1>2, <1>8, <2>4, StepsGivenUp, FullInvMeans, Zenon
    <2> QED
      BY <1>1, <2>2, <2>3, <2>5, Zenon
  <1>9. CASE ~GivenUp /\ approvals[a].state \in {"rejected", "cancelled"}
    <2>1. run'.abandoning = run.abandoning /\ (run.state = "failed" => run'.state = "failed")
      BY <1>6, <1>9, StatusMoves, Zenon
    <2>2. run.state = "failed" => run'.step[id].state = run.step[id].state
      BY <1>2, <1>9, FailedIsIdle, Zenon
    <2>3. run.abandoning /\ ~IsCompensation(id) => run'.step[id].state = run.step[id].state
      BY <1>3, Zenon DEF Lasting
    <2> QED
      BY <1>1, <1>2, <1>5, <1>9, <2>1, <2>2, <2>3, Zenon
  <1> QED
    BY <1>1, <1>7, <1>8, <1>9, Zenon
=============================================================================
