----------------------------- MODULE Delegation -----------------------------
(***************************************************************************)
(* What a policy set decides for a remit and for the remits derived from   *)
(* it: Remit composed with PolicyDecision.  propose_action in kernel.rs    *)
(* evaluates the policies of the run's remit against a context that holds  *)
(* the remit's autonomy; narrow in remit.rs lets a child add policies.     *)
(***************************************************************************)
EXTENDS Remit, PolicyDecision

CONSTANTS Sources,    \* the rules of each policy
          Proposals   \* what workers propose

Proposal == [writes: BOOLEAN, at: [Paths -> Users \cup {Nobody}], facts: Facts]

ASSUME DelegationAssumption ==
    /\ Sources \in [Policies -> Seq(Rule)]
    /\ Proposals \subseteq Proposal

load_policy_set(names) == [i \in DOMAIN names |-> Sources[names[i]]]

policy_context(r, a) ==
    [autonomy |-> r.autonomy, writes |-> a.writes, at |-> a.at, facts |-> a.facts]

Decision(r, a) == Decide(load_policy_set(r.policy_set), policy_context(r, a)).decision

----------------------------------------------------------------------------
(* Properties.                                                             *)

\* The policies whose conditions do not read run.remit.autonomy.
IgnoresAutonomy(rule) ==
    \A c \in rule.when, level \in Autonomy : [c EXCEPT !.autonomy = level] \in rule.when

Neutral ==
    {name \in Policies : \A j \in DOMAIN Sources[name] : IgnoresAutonomy(Sources[name][j])}

\* The policies that never allow anything.
Restrictive ==
    {name \in Policies : \A j \in DOMAIN Sources[name] : Sources[name][j].kind # "allow"}

AsStrict(given, other) ==
    \/ given = "deny"
    \/ given = "approval" /\ other # "deny"
    \/ other = "allow"

\* What policy denies a remit it denies every remit below it, through any
\* number of derivations, added policies and changes of their order, as long
\* as the rules do not read the autonomy (narrow's check on policy_set and the
\* deny-first order of evaluate).
DenialsSurvive ==
    \A i \in 1..Len(remits) : \A p \in remits[i].ancestors : \A a \in Proposals :
        (Contents(remits[p].policy_set) \subseteq Neutral /\ Decision(remits[p], a) = "deny")
        => Decision(remits[i], a) = "deny"

\* When the policies added on the way down have no allow rule, no action needs
\* less under a derived remit than under those above it: an approval, by a
\* rule or by default, stays at least an approval (narrow's checks on
\* autonomy and policy_set, default_decision in eval.rs).  Only an added
\* allow rule or a rule that reads the autonomy leads to fewer approvals.
GatesSurvive ==
    \A i \in 1..Len(remits) : \A p \in remits[i].ancestors : \A a \in Proposals :
        (/\ Contents(remits[i].policy_set) \subseteq Neutral
         /\ Contents(remits[i].policy_set) \ Contents(remits[p].policy_set) \subseteq Restrictive)
        => AsStrict(Decision(remits[i], a), Decision(remits[p], a))

\* Delegation never loosens what policy decides: denials survive, and so do
\* gates where nothing that allows was added (narrow and evaluate together).
DecisionsSurvive == DenialsSurvive /\ GatesSurvive
=============================================================================
