-------------------------- MODULE KernelRunTheorems -------------------------
(***************************************************************************)
(* Machine-checked theorems about KernelRun that rest on FullInv: IndInv   *)
(* of KernelRunProofs and what the approvals, the attempts, the budget and *)
(* the compensations add to it.  KernelRunProofs shows that every operation *)
(* comes to one of the outcomes of KernelOutcomes, and OutcomeProofs what  *)
(* survives all of them.  Here the leases that lapsed are counted, the two *)
(* are put together to FullInv, and the theorems are drawn from it.        *)
(***************************************************************************)
EXTENDS KernelRunProofs, OutcomeProofs, FiniteSetTheorems

\* What a leaf may take of the SMT solver, unless it says otherwise.
USE SMTT(30)

----------------------------------------------------------------------------
\* The attempts.

\* There are finitely many leases, so those that lapsed can be counted.
LEMMA LapsesFinite ==
    ASSUME TypeOK, NEW id
    PROVE  IsFiniteSet(Lapses(id)) /\ Cardinality(Lapses(id)) \in Nat
  <1>1. DOMAIN leases = 1..Len(leases) /\ Len(leases) \in Nat
    BY DEF TypeOK
  <1>2. IsFiniteSet(DOMAIN leases)
    BY <1>1, FS_Interval
  <1>3. Lapses(id) \subseteq DOMAIN leases
    BY DEF Lapses
  <1> QED
    BY <1>2, <1>3, FS_Subset, FS_CardinalityType, Zenon

\* No step is attempted more often than the limits and its lapsed leases allow.
LEMMA AttemptsKept ==
    ASSUME FullInv, TypeOK', Outcome
    PROVE  AttemptsAccounted' /\ AttemptsLeft'
  <1> SUFFICES ASSUME NEW id \in StepIds
               PROVE  /\ run'.step[id].attempts <= AttemptCap + Cardinality(Lapses(id)')
                      /\ run'.step[id].state = "scheduled" =>
                            run'.step[id].attempts < AttemptCap + Cardinality(Lapses(id)')
    BY Zenon DEF AttemptsAccounted, AttemptsLeft, Lapses
  <1> DEFINE n == Cardinality(Lapses(id))
             m == Cardinality(Lapses(id)')
  <1>1. /\ run.step[id].attempts \in Nat /\ run'.step[id].attempts \in Nat
        /\ run.step[id].attempts <= AttemptCap + n
        /\ run.step[id].state = "scheduled" => run.step[id].attempts < AttemptCap + n
    BY Zenon DEF FullInv, IndInv, TypeOK, RunState, StepState, AttemptsAccounted, AttemptsLeft
  <1>2. n \in Nat /\ m \in Nat /\ IsFiniteSet(Lapses(id)) /\ IsFiniteSet(Lapses(id)')
    <2>1. TypeOK
      BY Zenon DEF FullInv, IndInv
    <2>2. IsFiniteSet(Lapses(id)) /\ Cardinality(Lapses(id)) \in Nat
      BY <2>1, LapsesFinite
    <2>3. DOMAIN leases' = 1..Len(leases') /\ Len(leases') \in Nat
      BY DEF TypeOK
    <2>4. IsFiniteSet(DOMAIN leases') /\ Lapses(id)' \subseteq DOMAIN leases'
      BY <2>3, FS_Interval DEF Lapses
    <2> QED
      BY <2>2, <2>4, FS_Subset, FS_CardinalityType
  <1>3. ASSUME SameLapses, \A e \in StepIds : AttemptMoves(e)
        PROVE  /\ run'.step[id].attempts <= AttemptCap + m
               /\ run'.step[id].state = "scheduled" => run'.step[id].attempts < AttemptCap + m
    <2>1. Lapses(id)' = Lapses(id)
      BY <1>3 DEF SameLapses, Lapses
    <2>2. m = n
      BY <2>1, Zenon
    <2>3. AttemptMoves(id)
      BY <1>3
    <2> HIDE DEF n, m
    <2>4. CASE run'.step[id].attempts = 0
      BY <1>2, <2>4, AttemptCapPositive
    <2>5. CASE /\ run'.step[id].attempts = run.step[id].attempts
               /\ run'.step[id].state = "scheduled" =>
                     run.step[id].state = "scheduled" \/ run.step[id].attempts < AttemptCap
      BY <1>1, <1>2, <2>2, <2>5, AttemptCapPositive
    <2>6. CASE /\ run.step[id].state = "scheduled" /\ run'.step[id].state = "leased"
               /\ run'.step[id].attempts = run.step[id].attempts + 1
      BY <1>1, <1>2, <2>2, <2>6, AttemptCapPositive
    <2> QED
      BY <2>3, <2>4, <2>5, <2>6, Zenon DEF AttemptMoves
  <1>4. ASSUME NEW S \in SUBSET DOMAIN leases, NEW T \in SUBSET StepIds, Expired(S, T)
        PROVE  /\ run'.step[id].attempts <= AttemptCap + m
               /\ run'.step[id].state = "scheduled" => run'.step[id].attempts < AttemptCap + m
    <2>1. Lapses(id) \subseteq Lapses(id)'
      BY <1>4 DEF Expired, Lapses
    <2>2. n <= m
      BY <1>2, <2>1, FS_Subset, Zenon
    <2>3. CASE id \in T
      <3>1. PICK l \in S : leases[l].step = id
        BY <1>4, <2>3 DEF Expired
      <3>2. l \notin Lapses(id) /\ l \in Lapses(id)'
        BY <1>4, <3>1, Zenon DEF Expired, Lapses
      <3>3. Lapses(id) \cup {l} \subseteq Lapses(id)'
        BY <2>1, <3>2
      <3>4. Cardinality(Lapses(id) \cup {l}) = n + 1
        <4>1. Cardinality(Lapses(id) \cup {l}) =
                 IF l \in Lapses(id) THEN Cardinality(Lapses(id)) ELSE Cardinality(Lapses(id)) + 1
          BY <1>2, FS_AddElement, Zenon
        <4> QED
          BY <3>2, <4>1, Zenon
      <3>5. n + 1 <= m
        BY <1>2, <3>3, <3>4, FS_Subset, Zenon
      <3>6. run'.step[id].attempts = run.step[id].attempts
        BY <1>4, <2>3 DEF Expired
      <3> HIDE DEF n, m
      <3> QED
        BY <1>1, <1>2, <3>5, <3>6, AttemptCapPositive
    <2>4. CASE id \notin T
      <3>1. run'.step[id] = run.step[id]
        BY <1>4, <2>4 DEF Expired
      <3> HIDE DEF n, m
      <3> QED
        BY <1>1, <1>2, <2>2, <3>1, AttemptCapPositive
    <2> QED
      BY <2>3, <2>4
  <1> QED
    BY <1>3, <1>4, AttemptsMove, Zenon

----------------------------------------------------------------------------
\* The invariant.

\* Before create_run there is nothing to be wrong.
LEMMA InitFullInv == Init => FullInv
  <1> SUFFICES ASSUME Init
               PROVE  FullInv
    OBVIOUS
  <1>1. IndInv /\ TypeOK
    BY InitIndInv, Zenon DEF IndInv
  <1>2. /\ run.state = "none" /\ run.step = [id \in StepIds |-> AbsentStep]
        /\ run.compensation = [c \in Compensations |-> "none"]
        /\ run.used = [d \in Dims |-> 0] /\ run.exceeded = FALSE /\ run.abandoning = FALSE
        /\ leases = <<>> /\ approvals = <<>>
    BY Zenon DEF Init, NoRun, RunCreated
  <1>3. /\ DOMAIN leases = {} /\ DOMAIN approvals = {}
        /\ \A id \in StepIds : run.step[id].state = "absent" /\ run.step[id].attempts = 0
        /\ \A c \in Compensations : run.compensation[c] = "none" /\ c \in StepIds
    BY <1>2, CompensationIds DEF AbsentStep
  <1>4. CompletedOnce
    BY <1>3, Zenon DEF CompletedOnce
  <1>5. AttemptsAccounted /\ AttemptsLeft
    <2>1. \A id \in StepIds : Cardinality(Lapses(id)) \in Nat
      BY <1>1, LapsesFinite, Zenon
    <2> QED
      BY <1>3, <2>1, AttemptCapPositive DEF AttemptsAccounted, AttemptsLeft
  <1>6. NeverAskedTwice /\ PendingIsLast /\ RefusalStops
    BY <1>3 DEF NeverAskedTwice, PendingIsLast, RefusalStops
  <1>7. BudgetStops /\ ExceededIsOver
    <2>1. ~OverCeiling(run.used)
      BY <1>2, KernelAssumption DEF OverCeiling, KernelAssumption, Unlimited
    <2> QED
      BY <1>2, <2>1, Zenon DEF BudgetStops, ExceededIsOver
  <1>8. WorkflowScheduled /\ CompensationsAgree /\ UnwindCovers
    BY <1>2, <1>3, Zenon DEF WorkflowScheduled, CompensationsAgree, UnwindCovers
  <1> QED
    BY <1>1, <1>4, <1>5, <1>6, <1>7, <1>8, Zenon DEF FullInv

\* Every operation on a run keeps all that the properties need.
LEMMA NextFullInv ==
    ASSUME FullInv, [Next]_vars
    PROVE  FullInv'
  <1>1. IndInv /\ CompensationsAgree
    BY Zenon DEF FullInv
  <1>2. IndInv' /\ Lasting
    BY <1>1, NextIndInv
  <1>3. TypeOK'
    BY <1>2, Zenon DEF IndInv
  <1>4. Outcome
    BY <1>1, NextOutcomes
  <1>5. CompletedOnce' /\ AttemptsAccounted' /\ AttemptsLeft'
    BY <1>3, <1>4, CompletedOnceKept, AttemptsKept, Zenon
  <1>6. NeverAskedTwice' /\ PendingIsLast' /\ BudgetStops' /\ ExceededIsOver'
    BY <1>3, <1>4, NeverAskedTwiceKept, BudgetStopsKept
  <1>7. WorkflowScheduled' /\ CompensationsAgree'
    BY <1>3, <1>4, WorkflowScheduledKept, CompensationsAgreeKept, Zenon
  <1>8. UnwindCovers' /\ RefusalStops'
    BY <1>2, <1>3, <1>4, UnwindCoversKept, RefusalStopsKept
  <1> QED
    BY <1>2, <1>5, <1>6, <1>7, <1>8 DEF FullInv

\* No operation of the kernel breaks FullInv: the entries of the compensations agree
\* with their steps, what a run owes is covered, attempts and spend are accounted for.
THEOREM FullInvariance == Spec => []FullInv
  <1>1. FullInv /\ [Next]_vars => FullInv'
    BY NextFullInv, Zenon
  <1> QED
    BY <1>1, InitFullInv, PTL DEF Spec

\* complete takes effect once: under exactly one lease of each completed step,
\* whatever late or repeated reports arrive and whatever lapses in between.
THEOREM CompletesOnce == Spec => []CompletedOnce
  <1>1. FullInv => CompletedOnce
    BY Zenon DEF FullInv
  <1> QED
    BY <1>1, FullInvariance, PTL

\* fail lets no step be attempted more often than the larger limit and the leases it
\* lost allow, however failures of both kinds, expiry, resume and approval alternate.
THEOREM AttemptsBounded == Spec => []AttemptsAccounted
  <1>1. FullInv => AttemptsAccounted
    BY Zenon DEF FullInv
  <1> QED
    BY <1>1, FullInvariance, PTL

\* propose_action never asks for what was already granted.
THEOREM GrantedIsRemembered == Spec => []NeverAskedTwice
  <1>1. FullInv => NeverAskedTwice
    BY DEF FullInv
  <1> QED
    BY <1>1, FullInvariance, PTL

\* complete lets no run go on whose spend passed a ceiling, and announced it.
THEOREM BudgetIsKept == Spec => []BudgetStops
  <1>1. FullInv => BudgetStops
    BY Zenon DEF FullInv
  <1> QED
    BY <1>1, FullInvariance, PTL

\* A run that counts as abandoned has undone every completed step that declares how.
THEOREM AbandonedHasUndone == Spec => []AbandonedIsUnwound
  <1>1. FullInv => AbandonedIsUnwound
    <2> SUFFICES ASSUME FullInv, run.state = "abandoned"
                 PROVE  /\ ~unwind_pending(run)
                        /\ \A s \in Steps :
                              run.step[<<0, s>>].state = "completed" /\ run.bundle[s] # "none" =>
                                 \E b \in 1..MaxUnwinds : run.step[<<b, s>>].state = "completed"
      BY Zenon DEF AbandonedIsUnwound
    <2>1. run.abandoning /\ ~unwind_pending(run)
      BY DEF FullInv, UnwindCovers
    <2>2. ASSUME NEW s \in Steps, run.step[<<0, s>>].state = "completed", run.bundle[s] # "none"
          PROVE  \E b \in 1..MaxUnwinds : run.step[<<b, s>>].state = "completed"
      <3>1. PICK b \in 1..MaxUnwinds : run.compensation[<<b, s>>] \in {"scheduled", "completed"}
        BY <2>1, <2>2 DEF FullInv, UnwindCovers
      <3>2. <<b, s>> \in Compensations
        BY Zenon DEF Compensations
      <3>3. run.compensation[<<b, s>>] = "completed"
        BY <2>1, <3>1, <3>2 DEF unwind_pending
      <3>4. run.step[<<b, s>>].state = "completed"
        BY <3>2, <3>3, Zenon DEF FullInv, CompensationsAgree
      <3> QED
        BY <3>4, Zenon
    <2> QED
      BY <2>1, <2>2
  <1> QED
    BY <1>1, FullInvariance, PTL

\* A step completes only once every approval requested for it was granted, although
\* abandon, the sweeper and the approver race for the approval.
THEOREM ApprovalPrecedes == Spec => []ApprovedBeforeCompletion
  <1>1. FullInv => ApprovedBeforeCompletion
    <2> SUFFICES ASSUME FullInv, NEW a \in DOMAIN approvals,
                        run.step[approvals[a].step].state = "completed"
                 PROVE  approvals[a].state = "approved"
      BY Zenon DEF ApprovedBeforeCompletion
    <2>1. approvals[a].state # "pending"
      BY DEF FullInv, IndInv, OneApprovalPending, PendingApprovals
    <2>2. approvals[a].state \notin {"rejected", "cancelled"}
      BY Zenon DEF FullInv, RefusalStops
    <2>3. approvals \in Seq(ApprovalRow)
      BY DEF FullInv, IndInv, TypeOK
    <2>4. approvals[a] \in ApprovalRow
      BY <2>3
    <2> QED
      BY <2>1, <2>2, <2>4 DEF ApprovalRow, ApprovalStatus
  <1> QED
    BY <1>1, FullInvariance, PTL

\* The operations of the kernel implement the saga: the steps of the workflow take
\* effect once and in order, and what an abandoned run owes is paid last to first,
\* for every number of steps and whatever leases, retries and approvals do.
THEOREM KernelImplementsSaga == Spec => ImplementsSaga
  <1>1. Init => Promise!Init
    <2> SUFFICES ASSUME Init
                 PROVE  Promise!Init
      OBVIOUS
    <2>1. FullInv /\ run.state = "none"
      <3>1. run.state = "none"
        BY Zenon DEF Init, NoRun, RunCreated
      <3> QED
        BY <3>1, InitFullInv, Zenon
    <2>2. ~run.abandoning /\ \A id \in StepIds : run.step[id].state = "absent"
      BY <2>1 DEF FullInv, IndInv, FoldConsistent
    <2>3. \A s \in Steps : <<0, s>> \in StepIds
      BY FoldAssumption DEF FoldAssumption, StepIds
    <2>4. OwedSteps = {} /\ CompletedSteps = {}
      BY <2>1, <2>2, <2>3, NothingOwed, Zenon DEF CompletedSteps
    <2> QED
      BY <2>1, <2>4 DEF Promise!Init
  <1>2. FullInv /\ [Next]_vars => [Promise!Next]_(Promise!vars)
    <2> SUFFICES ASSUME FullInv, [Next]_vars
                 PROVE  [Promise!Next]_(Promise!vars)
      OBVIOUS
    <2>1. Outcome
      BY NextOutcomes DEF FullInv
    <2>2. Promise!Next \/ UNCHANGED <<run.state, CompletedSteps, OwedSteps>>
      BY <2>1, OutcomeIsSagaStep, Zenon
    <2> QED
      BY <2>2, Zenon DEF Promise!vars
  <1> QED
    BY <1>1, <1>2, FullInvariance, PTL DEF Spec, ImplementsSaga, Promise!Spec
=============================================================================
