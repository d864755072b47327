---------------------------- MODULE MCDelegation ----------------------------
(* A small instance of Remit and Delegation for TLC. *)
EXTENDS Delegation

CONSTANTS x, y

Glob(w) == [body |-> w, glob |-> TRUE]
Literal(w) == [body |-> w, glob |-> FALSE]

OneDim == {"usd"}
Limit(n) == [d \in OneDim |-> n]

\* A read and a write of each of two tools, at each second, in one scope.
SmallCalls ==
    [tool: {<<x>>, <<x, y>>}, scopes: {{}, {<<y>>, <<y, x>>}}, writes: BOOLEAN, at: 0..3]

\* One wide remit that ends after two seconds, one without limits whose ttl
\* wraps around 2^63, one for supervised work.
SmallIssues ==
    {[tools |-> {Glob(<<x>>)}, scopes |-> {Glob(<<>>)}, grants |-> {"g"}, spend |-> Limit(2),
      autonomy |-> 3, policy_set |-> <<"base">>, ttl |-> 2],
     [tools |-> {Literal(<<x>>), Literal(<<x, y>>)}, scopes |-> {Literal(<<y>>), Glob(<<y, x>>)},
      grants |-> {}, spend |-> Limit(Unlimited), autonomy |-> 1, policy_set |-> <<>>, ttl |-> 14],
     [tools |-> {Literal(<<x>>)}, scopes |-> {Glob(<<y>>)}, grants |-> {},
      spend |-> Limit(Unlimited), autonomy |-> 2, policy_set |-> <<"base", "strict">>, ttl |-> 6]}

Omitted ==
    [tools |-> Absent, scopes |-> Absent, grants |-> Absent, spend |-> Absent,
     autonomy |-> Absent, policy_set |-> Absent, ttl |-> Absent]

\* Each field asked for alone, within and beyond what a parent may have.
SmallDerives ==
    {Omitted}
    \cup {[Omitted EXCEPT !.tools = t] : t \in {{}, {Glob(<<x>>)}, {Glob(<<x, y>>)}, {Literal(<<x, y>>)}}}
    \cup {[Omitted EXCEPT !.scopes = s] : s \in {{Glob(<<y>>)}, {Literal(<<y, x>>)}}}
    \cup {[Omitted EXCEPT !.grants = g] : g \in {{}, {"g"}}}
    \cup {[Omitted EXCEPT !.spend = Limit(n)] : n \in {1, 3, Unlimited}}
    \cup {[Omitted EXCEPT !.autonomy = l] : l \in {1, 2, 3}}
    \cup {[Omitted EXCEPT !.policy_set = s] :
            s \in {<<>>, <<"base">>, <<"strict", "base">>, <<"base", "gate", "strict">>,
                   <<"gate", "base">>, <<"lax", "strict", "base">>}}
    \cup {[Omitted EXCEPT !.ttl = t] : t \in {0, 1, 15}}

SmallRequired == {{}, {"base"}}

\* facts 1: an action "strict" denies; 2: one "gate" asks about; 3: one "lax"
\* allows and "base" asks about; 0: none.
With(S) == {c \in Context : c.facts \in S}
Gated == [approver |-> [type |-> "role", value |-> "finance"], sla |-> Unset, escalate_to |-> Unset]
R(kind, S) == [kind |-> kind, when |-> With(S), approval |-> IF kind = "approval" THEN Gated ELSE Unset]

SmallSources ==
    [base |-> <<R("approval", {3})>>, strict |-> <<R("deny", {1})>>,
     gate |-> <<R("approval", {2}), R("deny", {3})>>, lax |-> <<R("allow", {0, 1, 3})>>]

SmallProposals ==
    {[writes |-> w, at |-> [z \in Paths |-> "m"], facts |-> f] : w \in BOOLEAN, f \in Facts}
=============================================================================
