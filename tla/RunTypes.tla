------------------------------ MODULE RunTypes -----------------------------
(***************************************************************************)
(* The derived state of one run, the Run of crates/kernos-core/src/fold.rs, *)
(* and the queries over it.                                                *)
(*                                                                         *)
(* A step is named <<b, s>>: <<0, s>> is step s of the workflow and        *)
(* <<b, s>> with b > 0 is the compensation of s that the b-th abandonment  *)
(* scheduled (comp_<s>, comp_<s>_2, ...).  Outputs, errors, action ids and *)
(* timestamps are left out: nothing in the fold branches on them.          *)
(***************************************************************************)
EXTENDS Integers

CONSTANTS N,           \* number of steps of the workflow
          MaxUnwinds,  \* bound: how often the operator abandons the run
          Dims,        \* what is budgeted: tokens, currency
          Backoff      \* ticks a backed-off step waits (0 = no wait)

ASSUME FoldAssumption ==
    /\ N \in Nat \ {0}
    /\ MaxUnwinds \in Nat
    /\ Backoff \in Nat

Steps == 1..N
Workflow == {0} \X Steps
Compensations == (1..MaxUnwinds) \X Steps
StepIds == (0..MaxUnwinds) \X Steps

\* "none" stands for a run that has not been created yet.
RunStatus == {"none", "running", "parked", "completed", "failed", "abandoned"}

\* "absent" stands for a step that has not been scheduled yet.
StepStatus == {"absent", "scheduled", "leased", "completed", "failed",
               "quarantined", "waiting_approval"}

CompensationStatus == {"none", "scheduled", "completed", "failed"}

ParkReason == {"none", "approval", "budget", "refusal", "quarantine",
               "connector_quarantined", "human"}

\* What the bundle declares for a step: no compensation, one whose arguments
\* resolve against the run's outputs, or one whose arguments do not.
Declared == {"none", "resolves", "unresolvable"}

\* lease = 0 and pending_approval = 0 are the code's None; not_before is the
\* time left before the step may be leased again.
StepState == [state: StepStatus, attempts: Nat, lease: Nat, not_before: 0..Backoff]

RunState ==
    [state: RunStatus, bundle: [Steps -> Declared], step: [StepIds -> StepState],
     compensation: [Compensations -> CompensationStatus], pending_approval: Nat,
     abandoning: BOOLEAN, unwinds: 0..MaxUnwinds, park_reason: ParkReason,
     needs_human: BOOLEAN, used: [Dims -> Nat], soft_hit: BOOLEAN, exceeded: BOOLEAN]

AbsentStep == [state |-> "absent", attempts |-> 0, lease |-> 0, not_before |-> 0]
FreshStep == [state |-> "scheduled", attempts |-> 0, lease |-> 0, not_before |-> 0]

----------------------------------------------------------------------------
\* Queries on the folded state.

IsCompensation(id) == id[1] > 0

unwind_pending(r) == \E c \in Compensations : r.compensation[c] = "scheduled"

\* The entry of r.compensations that a search by for_step finds: the oldest.
FirstEntry(r, c) ==
    /\ r.compensation[c] # "none"
    /\ \A b \in 1..(c[1] - 1) : r.compensation[<<b, c[2]>>] = "none"
=============================================================================
