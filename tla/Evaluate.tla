------------------------------ MODULE Evaluate ------------------------------
(***************************************************************************)
(* The loop of `evaluate` (crates/kernos-policy/src/eval.rs): one pass     *)
(* over the rules of every policy, remembering the first approval and the  *)
(* first allow that match and returning at the first deny.                 *)
(***************************************************************************)
EXTENDS PolicyDecision

CONSTANTS PolicySets,  \* sequences of policies, a policy being its rules
          Contexts

ASSUME EvaluateAssumption ==
    /\ PolicySets \subseteq Seq(Seq(Rule))
    /\ Contexts \subseteq Context

VARIABLES policies, context,     \* the arguments
          policy_index, rule_index,
          first_approval, first_allow,   \* NoRule: none seen
          returned, decision

loopVars == <<policies, context, policy_index, rule_index, first_approval, first_allow,
          returned, decision>>
args == <<policies, context>>
cursor == <<policy_index, rule_index>>
seen == <<first_approval, first_allow>>

LoopInit ==
    /\ policies \in PolicySets
    /\ context \in Contexts
    /\ policy_index = 1 /\ rule_index = 1
    /\ first_approval = NoRule /\ first_allow = NoRule
    /\ returned = FALSE /\ decision = Unset

Scanning == ~returned /\ policy_index <= Len(policies)
AtRule == Scanning /\ rule_index <= Len(policies[policy_index])

Return(d) == returned' = TRUE /\ decision' = d
Advance == rule_index' = rule_index + 1 /\ UNCHANGED policy_index

\* The condition does not hold.
Skip ==
    /\ AtRule
    /\ context \notin RuleAt(policies, cursor).when
    /\ Advance
    /\ UNCHANGED <<args, seen, returned, decision>>

Deny ==
    /\ AtRule
    /\ Applies(policies, cursor, "deny", context)
    /\ Return(Verdict("deny", cursor))
    /\ UNCHANGED <<args, cursor, seen>>

\* Mutation: the last approval rule that matches is kept.
RequireApproval_Last ==
    /\ AtRule
    /\ Applies(policies, cursor, "approval", context)
    /\ first_approval' = cursor
    /\ Advance
    /\ UNCHANGED <<args, first_allow, returned, decision>>

RequireApproval ==
    /\ AtRule
    /\ Applies(policies, cursor, "approval", context)
    /\ first_approval' = IF first_approval = NoRule THEN cursor ELSE first_approval
    /\ Advance
    /\ UNCHANGED <<args, first_allow, returned, decision>>

Allow ==
    /\ AtRule
    /\ Applies(policies, cursor, "allow", context)
    /\ first_allow' = IF first_allow = NoRule THEN cursor ELSE first_allow
    /\ Advance
    /\ UNCHANGED <<args, first_approval, returned, decision>>

NextPolicy ==
    /\ Scanning /\ rule_index > Len(policies[policy_index])
    /\ policy_index' = policy_index + 1 /\ rule_index' = 1
    /\ UNCHANGED <<args, seen, returned, decision>>

Finish ==
    /\ ~returned /\ policy_index > Len(policies)
    /\ Return(IF first_approval # NoRule THEN ApprovalBy(policies, first_approval, context)
              ELSE IF first_allow # NoRule THEN Verdict("allow", first_allow)
              ELSE default_decision(context))
    /\ UNCHANGED <<args, cursor, seen>>

LoopNext == Skip \/ Deny \/ RequireApproval \/ Allow \/ NextPolicy \/ Finish

LoopSpec == LoopInit /\ [][LoopNext]_loopVars

----------------------------------------------------------------------------

\* The loop computes the decision its comment promises, with the rule of the
\* first match across the concatenated policies: neither the early return nor
\* the remembered positions lose a rule that should have won.
LoopDecides == returned => decision = Decide(policies, context)
=============================================================================
