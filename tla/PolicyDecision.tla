--------------------------- MODULE PolicyDecision ---------------------------
(***************************************************************************)
(* What a policy set decides about an action: the rules, approvers and     *)
(* escalation targets of crates/kernos-policy (ast.rs, eval.rs) and the    *)
(* reporting line of directory.rs.                                         *)
(*                                                                         *)
(* A context is what a decision reads: the remit's autonomy, whether the   *)
(* action writes to a system of record, and the user a context path leads  *)
(* to.  The condition of a rule is the set of contexts it holds in (how an *)
(* expression gets its value is PolicyEval's subject).  A rule id is the   *)
(* position <<policy, rule>>; NoRule is the id "default".                  *)
(***************************************************************************)
EXTENDS Integers, Sequences

CONSTANTS Users, Roles, Paths,
          Nobody,        \* a path that is missing, not a string or empty
          Unset,         \* an omitted clause
          ManagerPath,   \* run.requested_by.manager
          Admin,         \* the role "admin"
          DefaultSLA,    \* DEFAULT_SLA_SECONDS
          Facts          \* whatever else of the action the conditions read

ASSUME DecisionAssumption ==
    /\ ManagerPath \in Paths
    /\ Admin \in Roles
    /\ DefaultSLA \in Nat

Autonomous == 3
Context == [autonomy: 0..3, writes: BOOLEAN, at: [Paths -> Users \cup {Nobody}], facts: Facts]

RuleKind == {"deny", "allow", "approval"}

\* type "role", "user" or "path"; an escalation may also be the reporting line.
ApproverExpr == [type: {"role"}, value: Roles] \cup [type: {"user"}, value: Users]
                \cup [type: {"path"}, value: Paths]
ReportingLine == [type |-> "reporting_line", value |-> Unset]
ApprovalClause ==
    [approver: ApproverExpr, sla: Nat \cup {Unset},
     escalate_to: ApproverExpr \cup {ReportingLine, Unset}]

Rule == [kind: RuleKind, when: SUBSET Context, approval: ApprovalClause \cup {Unset}]

Approver(type, value, fallback) == [type |-> type, value |-> value, fallback |-> fallback]
admin_fallback == Approver("role", Admin, TRUE)

\* Whether an actor may decide for an approver.
accepts(approver, actor) ==
    approver.value = IF approver.type = "role" THEN actor.role ELSE actor.id

----------------------------------------------------------------------------
(* Approvers.                                                              *)

resolve_approver(expr, ctx) ==
    IF expr.type # "path" THEN Approver(expr.type, expr.value, FALSE)
    ELSE IF ctx.at[expr.value] = Nobody THEN admin_fallback
    ELSE Approver("user", ctx.at[expr.value], FALSE)

manager_approver(ctx) == resolve_approver([type |-> "path", value |-> ManagerPath], ctx)

resolve_escalate(expr, ctx) ==
    IF expr \in {Unset, ReportingLine} THEN ReportingLine ELSE resolve_approver(expr, ctx)

\* directory[u] is the manager of u, or Nobody.
reporting_line(directory, current) ==
    IF current.type = "user" /\ directory[current.value] # Nobody
    THEN Approver("user", directory[current.value], FALSE)
    ELSE Approver("role", Admin, FALSE)

resolve_escalation(directory, target, current) ==
    IF target = ReportingLine THEN reporting_line(directory, current) ELSE target

----------------------------------------------------------------------------
(* Decisions.                                                              *)

NoRule == <<0, 0>>

Verdict(decision, rule) ==
    [decision |-> decision, rule |-> rule, approver |-> Unset, sla |-> Unset,
     escalate_to |-> Unset]

Gate(rule, approver, sla, escalate_to) ==
    [decision |-> "approval", rule |-> rule, approver |-> approver, sla |-> sla,
     escalate_to |-> escalate_to]

default_decision(ctx) ==
    IF ctx.autonomy = Autonomous \/ ~ctx.writes THEN Verdict("allow", NoRule)
    ELSE Gate(NoRule, manager_approver(ctx), DefaultSLA, ReportingLine)

RuleAt(policies, x) == policies[x[1]][x[2]]

\* The gate that the approval rule at x puts up; a rule without a clause asks
\* the requester's manager.
ApprovalBy(policies, x, ctx) ==
    LET clause == RuleAt(policies, x).approval
    IN  IF clause = Unset THEN Gate(x, manager_approver(ctx), DefaultSLA, ReportingLine)
        ELSE Gate(x, resolve_approver(clause.approver, ctx),
                  IF clause.sla = Unset THEN DefaultSLA ELSE clause.sla,
                  resolve_escalate(clause.escalate_to, ctx))

Positions(policies) ==
    UNION {{p} \X DOMAIN policies[p] : p \in DOMAIN policies}

Before(x, y) == x[1] < y[1] \/ (x[1] = y[1] /\ x[2] < y[2])

Applies(policies, x, kind, ctx) ==
    RuleAt(policies, x).kind = kind /\ ctx \in RuleAt(policies, x).when

Matching(policies, kind, ctx) ==
    {x \in Positions(policies) : Applies(policies, x, kind, ctx)}

First(S) == CHOOSE x \in S : \A y \in S : y = x \/ Before(x, y)

\* The decision as the comment of `evaluate` states it: the rules of all the
\* policies in order, deny first, then the first approval, then the first
\* allow, then the default.
Decide(policies, ctx) ==
    LET denials == Matching(policies, "deny", ctx)
        approvals == Matching(policies, "approval", ctx)
        allowances == Matching(policies, "allow", ctx)
    IN  IF denials # {} THEN Verdict("deny", First(denials))
        ELSE IF approvals # {} THEN ApprovalBy(policies, First(approvals), ctx)
        ELSE IF allowances # {} THEN Verdict("allow", First(allowances))
        ELSE default_decision(ctx)
=============================================================================
