------------------------------- MODULE Saga --------------------------------
(***************************************************************************)
(* What the kernel promises about a run, seen from outside: the steps of   *)
(* the workflow take effect one at a time and in order; a run that is      *)
(* given up owes the undoing of some of the steps that took effect, pays   *)
(* from the last to the first while nothing else takes effect, and is      *)
(* abandoned only when it owes nothing.  A run that completed or was       *)
(* abandoned never changes again.  Leases, retries, approvals and budgets  *)
(* are not visible here.                                                   *)
(***************************************************************************)
EXTENDS Integers

CONSTANT N  \* number of steps

VARIABLES status,  \* where the run is
          done,    \* steps that have taken effect
          owed     \* steps that took effect and are still to be undone

vars == <<status, done, owed>>

Init == status = "none" /\ done = {} /\ owed = {}

Begin ==
    /\ status = "none"
    /\ status' = "running"
    /\ UNCHANGED <<done, owed>>

\* The next step takes effect.  The last one completes the run; after another the
\* run goes on, or parks when the budget is spent.
Advance(s) ==
    /\ status = "running"
    /\ owed = {}
    /\ done = 1..(s - 1)
    /\ done' = done \cup {s}
    /\ IF s = N THEN status' = "completed" ELSE status' \in {"running", "parked"}
    /\ UNCHANGED owed

\* The run waits for somebody, goes on, or fails.
Park ==
    /\ status = "running"
    /\ status' = "parked"
    /\ UNCHANGED <<done, owed>>

Continue ==
    /\ status = "parked"
    /\ status' = "running"
    /\ UNCHANGED <<done, owed>>

Reject ==
    /\ status = "parked"
    /\ status' = "failed"
    /\ UNCHANGED <<done, owed>>

\* The run is given up, and owes the undoing of S.
GiveUp(S) ==
    /\ status \in {"running", "parked", "failed"}
    /\ owed = {}
    /\ S \subseteq done
    /\ owed' = S
    /\ \/ status' = "failed"
       \/ status' = IF S = {} THEN "abandoned" ELSE "running"
    /\ UNCHANGED done

\* The latest step still owed is undone, or turns out not to be undoable.
Last(s) == s \in owed /\ \A t \in owed : t <= s

Undo(s) ==
    /\ status = "running"
    /\ Last(s)
    /\ owed' = owed \ {s}
    /\ status' = IF owed' = {} THEN "abandoned" ELSE "running"
    /\ UNCHANGED done

Lose(s) ==
    /\ status = "running"
    /\ Last(s)
    /\ owed' = owed \ {s}
    /\ status' = "failed"
    /\ UNCHANGED done

Next ==
    \/ Begin
    \/ \E s \in 1..N : Advance(s)
    \/ Park
    \/ Continue
    \/ Reject
    \/ \E S \in SUBSET done : GiveUp(S)
    \/ \E s \in owed : Undo(s) \/ Lose(s)

Spec == Init /\ [][Next]_vars
=============================================================================
