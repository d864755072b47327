---------------------------- MODULE MCGovernance ----------------------------
(* A small instance of Governance for TLC. *)
EXTENDS Governance

\* A payment by someone with a manager, one by someone without, and a harmless one.
Pay(m, f) == [autonomy |-> 2, writes |-> TRUE, at |-> [x \in Paths |-> m], facts |-> f]
SmallActions == {Pay("tom", 0), Pay(Nobody, 0), Pay("tom", 1)}

SmallDirectory == [u \in Users |-> IF u = "tom" THEN "cfo" ELSE Nobody]

\* tom, their manager, an admin and someone of the finance role.
SmallActors ==
    {[id |-> "tom", role |-> "clerk"], [id |-> "cfo", role |-> "chief"],
     [id |-> "ann", role |-> "admin"], [id |-> "fin", role |-> "finance"]}

R(kind, when, clause) == [kind |-> kind, when |-> when, approval |-> clause]
Harmless == {c \in Context : c.facts = 1}
AskManager == R("approval", Context, Unset)
AskFinance ==
    R("approval", Context,
      [approver |-> [type |-> "role", value |-> "finance"], sla |-> 2,
       escalate_to |-> [type |-> "path", value |-> "manager"]])
DenyHarmless == R("deny", Harmless, Unset)
AllowHarmless == R("allow", Harmless, Unset)

\* Versions of policy "p"; policy "q" stays as it is.
FewSources == {<<>>, <<AskManager>>, <<AskFinance, DenyHarmless>>}
FewVersions == [n \in Names |-> IF n = "p" THEN {1, 2, 3} ELSE {1}]
FirstVersions == [n \in Names |-> IF n = "p" THEN <<>> ELSE <<AllowHarmless>>]
BothPolicies == [r \in Runs |-> <<"p", "q">>]
=============================================================================
