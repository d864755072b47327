-------------------------- MODULE GovernanceProofs --------------------------
(***************************************************************************)
(* Proofs about policies in force and the approvals they ask for: what     *)
(* Decide returns, the invariants of Governance, and what the globs of a   *)
(* policy match.                                                           *)
(***************************************************************************)
EXTENDS Governance, PathGlob, WellFoundedInduction, TLAPS

\* What a leaf may take of the SMT solver, unless it says otherwise.
USE SMTT(30)

----------------------------------------------------------------------------
(* The rule that decides.                                                  *)

\* Every set of numbers has a least one: the order of the rules is by position.
LEMMA LeastNatural ==
    ASSUME NEW S \in SUBSET Nat, S # {}
    PROVE  \E x \in S : \A y \in S : x <= y
<1> DEFINE R == OpToRel(<, Nat)
<1>1. \A x, y \in Nat : <<y, x>> \in R <=> y < x
  BY Zenon DEF OpToRel
<1>2. IsWellFoundedOn(R, Nat)
  BY NatLessThanWellFounded, Zenon
<1> HIDE DEF R
<1>3. \E x \in S : \A y \in S : ~(<<y, x>> \in R)
  BY <1>2, WFMin, Zenon
<1>4. PICK x \in S : \A y \in S : ~(<<y, x>> \in R)
  BY <1>3, Zenon
<1>5. \A y \in S : ~(y < x) /\ y \in Nat /\ x \in Nat
  BY <1>1, <1>4, Zenon
<1>6. \A y \in S : x <= y
  BY <1>5
<1> QED BY <1>6

\* Of rules that match, `evaluate` finds one that comes before all the others.
LEMMA FirstIsFirst ==
    ASSUME NEW S \in SUBSET (Nat \X Nat), S # {}
    PROVE  First(S) \in S /\ \A y \in S : y = First(S) \/ Before(First(S), y)
<1> DEFINE P == {x[1] : x \in S}
<1>1. P \in SUBSET Nat /\ P # {}
  OBVIOUS
<1>2. PICK p \in P : \A q \in P : p <= q
  BY <1>1, LeastNatural, Zenon
<1> DEFINE T == {x \in S : x[1] = p}
           Q == {x[2] : x \in T}
<1>3. Q \in SUBSET Nat /\ Q # {}
  BY <1>2, Zenon
<1>4. PICK r \in Q : \A q \in Q : r <= q
  BY <1>3, LeastNatural, Zenon
<1>5. PICK x \in T : x[2] = r
  BY <1>4, Zenon
<1>6. x \in S /\ x[1] = p /\ x[2] = r /\ p \in Nat /\ r \in Nat
  BY <1>1, <1>2, <1>3, <1>4, <1>5, Zenon
<1>7. ASSUME NEW y \in S PROVE y = x \/ Before(x, y)
  <2>1. y[1] \in Nat /\ y[2] \in Nat /\ p <= y[1] /\ y = <<y[1], y[2]>>
    BY <1>2
  <2>2. x = <<p, r>>
    BY <1>6
  <2>3. CASE y[1] = p
    <3>1. r <= y[2]
      BY <1>4, <2>3, Zenon
    <3> QED BY <3>1, <2>1, <2>2, <2>3, <1>6 DEF Before
  <2> QED BY <2>1, <2>2, <2>3, <1>6 DEF Before
<1>8. \E z \in S : \A y \in S : y = z \/ Before(z, y)
  BY <1>6, <1>7, Zenon
<1> QED BY <1>8 DEF First

\* Where the rules of a policy set are.
LEMMA PositionsAre ==
    ASSUME NEW policies \in Seq(Seq(Rule)), NEW x
    PROVE  x \in Positions(policies) <=>
             /\ x = <<x[1], x[2]>> /\ x[1] \in DOMAIN policies /\ x[2] \in DOMAIN policies[x[1]]
<1>1. ASSUME NEW p \in DOMAIN policies, x \in {p} \X DOMAIN policies[p]
      PROVE  /\ x = <<x[1], x[2]>> /\ x[1] \in DOMAIN policies /\ x[2] \in DOMAIN policies[x[1]]
  BY <1>1
<1>2. ASSUME x = <<x[1], x[2]>>, x[1] \in DOMAIN policies, x[2] \in DOMAIN policies[x[1]]
      PROVE  x \in {x[1]} \X DOMAIN policies[x[1]]
  BY <1>2, Zenon
<1> QED BY <1>1, <1>2 DEF Positions

\* The rules that match are rules of the set, and the first of them one of them.
LEMMA MatchingFirst ==
    ASSUME NEW policies \in Seq(Seq(Rule)), NEW ctx, NEW kind,
           Matching(policies, kind, ctx) # {}
    PROVE  LET x == First(Matching(policies, kind, ctx))
           IN  /\ x \in Matching(policies, kind, ctx)
               /\ x \in Nat \X Nat
               /\ x[1] \in DOMAIN policies /\ x[2] \in DOMAIN policies[x[1]]
               /\ RuleAt(policies, x) \in Rule
               /\ \A y \in Matching(policies, kind, ctx) : y = x \/ Before(x, y)
<1> DEFINE M == Matching(policies, kind, ctx)
<1>1. ASSUME NEW x \in M
      PROVE  /\ x \in Nat \X Nat /\ RuleAt(policies, x) \in Rule
             /\ x[1] \in DOMAIN policies /\ x[2] \in DOMAIN policies[x[1]]
  <2>1. x \in Positions(policies)
    BY Zenon DEF Matching
  <2>2. x = <<x[1], x[2]>> /\ x[1] \in DOMAIN policies /\ x[2] \in DOMAIN policies[x[1]]
    BY <2>1, PositionsAre, Zenon
  <2>3. policies[x[1]] \in Seq(Rule) /\ x[1] \in Nat
    BY <2>2
  <2>4. policies[x[1]][x[2]] \in Rule /\ x[2] \in Nat
    BY <2>2, <2>3
  <2> QED BY <2>2, <2>3, <2>4 DEF RuleAt
<1>2. M \in SUBSET (Nat \X Nat)
  BY <1>1, Zenon
<1> HIDE DEF M
<1>3. M # {}
  BY Zenon DEF M
<1>4. First(M) \in M /\ \A y \in M : y = First(M) \/ Before(First(M), y)
  BY <1>2, <1>3, FirstIsFirst, Zenon
<1> QED BY <1>1, <1>4 DEF M

\* An approver expression leads to a role or a user (resolve_approver): a path that leads
\* nowhere leads to the admins.
LEMMA ApproverResolves ==
    ASSUME NEW expr \in ApproverExpr, NEW ctx \in Context
    PROVE  resolve_approver(expr, ctx) \in Resolved
<1>1. CASE expr.type # "path"
  BY <1>1, Zenon DEF resolve_approver, Approver, ApproverExpr, Resolved
<1>2. CASE expr.type = "path"
  <2>1. expr.value \in Paths
    BY <1>2, Zenon DEF ApproverExpr
  <2>2. ctx.at[expr.value] \in Users \cup {Nobody}
    BY <2>1, Zenon DEF Context
  <2> QED
    BY <1>2, <2>2, DecisionAssumption, Zenon
    DEF resolve_approver, admin_fallback, Approver, Resolved
<1> QED BY <1>1, <1>2

\* So does the requester's manager (manager_approver).
LEMMA ManagerResolves ==
    ASSUME NEW ctx \in Context
    PROVE  manager_approver(ctx) \in Resolved
<1>1. [type |-> "path", value |-> ManagerPath] \in ApproverExpr
  BY DecisionAssumption, Zenon DEF ApproverExpr
<1> QED BY <1>1, ApproverResolves DEF manager_approver

\* An escalation leads to a role or a user too: the reporting line ends at the admins.
LEMMA EscalationResolves ==
    ASSUME NEW target \in Resolved \cup {ReportingLine}, NEW current \in Resolved
    PROVE  resolve_escalation(Directory, target, current) \in Resolved
<1>1. reporting_line(Directory, current) \in Resolved
  BY GovernanceAssumption, DecisionAssumption, Zenon DEF reporting_line, Approver, Resolved
<1> QED BY <1>1 DEF resolve_escalation

\* What a decision may be; one that asks for an approval says whom and how long.
Decision ==
    {d \in [decision: RuleKind, rule: Nat \X Nat, approver: Resolved \cup {Unset},
            sla: Nat \cup {Unset}, escalate_to: Resolved \cup {ReportingLine, Unset}] :
        d.decision = "approval" =>
            d.approver \in Resolved /\ d.sla \in Nat /\ d.escalate_to \in Resolved \cup {ReportingLine}}

\* An approval rule says whom to ask and how long, whichever clauses it omits (the defaults
\* of `evaluate`).
LEMMA GateType ==
    ASSUME NEW policies \in Seq(Seq(Rule)), NEW ctx \in Context, NEW x \in Nat \X Nat,
           RuleAt(policies, x) \in Rule
    PROVE  ApprovalBy(policies, x, ctx) \in Decision
<1> DEFINE clause == RuleAt(policies, x).approval
<1>1. clause \in ApprovalClause \cup {Unset}
  BY Zenon DEF Rule
<1>2. manager_approver(ctx) \in Resolved
  BY ManagerResolves, Zenon
<1>3. CASE clause = Unset
  BY <1>2, <1>3, DecisionAssumption, Zenon DEF ApprovalBy, Gate, Decision, RuleKind
<1>4. CASE clause # Unset
  <2>1. clause \in ApprovalClause
    BY <1>1, <1>4, Zenon
  <2>2. resolve_approver(clause.approver, ctx) \in Resolved
    BY <2>1, ApproverResolves, Zenon DEF ApprovalClause
  <2>3. resolve_escalate(clause.escalate_to, ctx) \in Resolved \cup {ReportingLine}
    BY <2>1, ApproverResolves, Zenon DEF ApprovalClause, resolve_escalate
  <2>4. (IF clause.sla = Unset THEN DefaultSLA ELSE clause.sla) \in Nat
    BY <2>1, DecisionAssumption, Zenon DEF ApprovalClause
  <2> QED BY <1>4, <2>2, <2>3, <2>4 DEF ApprovalBy, Gate, Decision, RuleKind
<1> QED BY <1>3, <1>4

\* `evaluate` always decides, and a decision is one of these.
LEMMA DecideType ==
    ASSUME NEW policies \in Seq(Seq(Rule)), NEW ctx \in Context
    PROVE  Decide(policies, ctx) \in Decision
<1> DEFINE denials == Matching(policies, "deny", ctx)
           gates == Matching(policies, "approval", ctx)
           allowances == Matching(policies, "allow", ctx)
<1>1. denials # {} => First(denials) \in Nat \X Nat
  BY MatchingFirst, Zenon
<1>2. gates # {} => ApprovalBy(policies, First(gates), ctx) \in Decision
  BY MatchingFirst, GateType, Zenon
<1>3. allowances # {} => First(allowances) \in Nat \X Nat
  BY MatchingFirst, Zenon
<1>4. default_decision(ctx) \in Decision
  BY ManagerResolves, DecisionAssumption, Zenon
  DEF default_decision, Verdict, Gate, Decision, RuleKind, NoRule
<1>5. \A r \in Nat \X Nat : Verdict("deny", r) \in Decision /\ Verdict("allow", r) \in Decision
  BY Zenon DEF Verdict, Decision, RuleKind
<1> HIDE DEF denials, gates, allowances
<1>6. Decide(policies, ctx) =
        IF denials # {} THEN Verdict("deny", First(denials))
        ELSE IF gates # {} THEN ApprovalBy(policies, First(gates), ctx)
        ELSE IF allowances # {} THEN Verdict("allow", First(allowances))
        ELSE default_decision(ctx)
  BY Zenon DEF Decide, denials, gates, allowances
<1> QED BY <1>1, <1>2, <1>3, <1>4, <1>5, <1>6

----------------------------------------------------------------------------
(* What the policy test of one policy says about the whole set.            *)

\* The rules of one policy that match.
Hits(source, kind, ctx) == {r \in DOMAIN source : source[r].kind = kind /\ ctx \in source[r].when}

\* A rule of the set matches when it is a hit of its policy.
LEMMA MatchingIsHits ==
    ASSUME NEW policies \in Seq(Seq(Rule)), NEW kind, NEW ctx, NEW x
    PROVE  x \in Matching(policies, kind, ctx) <=>
             /\ x = <<x[1], x[2]>> /\ x[1] \in DOMAIN policies
             /\ x[2] \in Hits(policies[x[1]], kind, ctx)
BY PositionsAre DEF Matching, Applies, RuleAt, Hits

\* A rule of the set matches when one of a policy of it does.
LEMMA SomeMatching ==
    ASSUME NEW policies \in Seq(Seq(Rule)), NEW kind, NEW ctx
    PROVE  Matching(policies, kind, ctx) # {} <=>
             \E p \in DOMAIN policies : Hits(policies[p], kind, ctx) # {}
<1>1. ASSUME NEW x \in Matching(policies, kind, ctx)
      PROVE  \E p \in DOMAIN policies : Hits(policies[p], kind, ctx) # {}
  BY MatchingIsHits, Zenon
<1>2. ASSUME NEW p \in DOMAIN policies, NEW r \in Hits(policies[p], kind, ctx)
      PROVE  <<p, r>> \in Matching(policies, kind, ctx)
  <2>1. <<p, r>>[1] = p /\ <<p, r>>[2] = r
    OBVIOUS
  <2> QED BY <2>1, MatchingIsHits, Zenon
<1> QED BY <1>1, <1>2, Zenon

\* The first rule is in the first policy with one that matches, and the first there.
LEMMA FirstAmongHits ==
    ASSUME NEW policies \in Seq(Seq(Rule)), NEW kind, NEW ctx,
           Matching(policies, kind, ctx) # {}
    PROVE  LET x == First(Matching(policies, kind, ctx))
           IN  /\ x[1] \in DOMAIN policies /\ x[2] \in Hits(policies[x[1]], kind, ctx)
               /\ x[1] \in Nat /\ x[2] \in Nat /\ x = <<x[1], x[2]>>
               /\ RuleAt(policies, x) = policies[x[1]][x[2]]
               /\ \A p \in DOMAIN policies : \A r \in Hits(policies[p], kind, ctx) :
                     x[1] < p \/ (x[1] = p /\ x[2] <= r)
<1> DEFINE x == First(Matching(policies, kind, ctx))
<1>1. /\ x \in Matching(policies, kind, ctx) /\ x \in Nat \X Nat
      /\ \A y \in Matching(policies, kind, ctx) : y = x \/ Before(x, y)
  BY MatchingFirst, Zenon
<1> HIDE DEF x
<1>2. x = <<x[1], x[2]>> /\ x[1] \in DOMAIN policies /\ x[2] \in Hits(policies[x[1]], kind, ctx)
  BY <1>1, MatchingIsHits, Zenon
<1>3. x[1] \in Nat /\ x[2] \in Nat
  BY <1>1, Zenon
<1>4. ASSUME NEW p \in DOMAIN policies, NEW r \in Hits(policies[p], kind, ctx)
      PROVE  x[1] < p \/ (x[1] = p /\ x[2] <= r)
  <2>1. <<p, r>>[1] = p /\ <<p, r>>[2] = r
    OBVIOUS
  <2>2. <<p, r>> \in Matching(policies, kind, ctx)
    BY <2>1, MatchingIsHits, Zenon
  <2>3. <<p, r>> = x \/ Before(x, <<p, r>>)
    BY <1>1, <2>2, Zenon
  <2>4. CASE <<p, r>> = x
    <3>1. x[1] = p /\ x[2] = r
      BY <2>1, <2>4, Zenon
    <3> QED BY <3>1, <1>3
  <2>5. CASE Before(x, <<p, r>>)
    <3>1. x[1] < p \/ (x[1] = p /\ x[2] < r)
      BY <2>1, <2>5, Zenon DEF Before
    <3>2. r \in Nat
      BY DEF Hits
    <3>3. x[2] < r => x[2] <= r
      BY <3>2, <1>3
    <3> QED BY <3>1, <3>3, Zenon
  <2> QED BY <2>3, <2>4, <2>5
<1> QED BY <1>2, <1>3, <1>4 DEF x, RuleAt

\* The outcome by the kinds of rules that match.
LEMMA OutcomeByKind ==
    ASSUME NEW policies \in Seq(Seq(Rule)), NEW ctx \in Context
    PROVE  LET M(kind) == Matching(policies, kind, ctx)
               o == outcome(Decide(policies, ctx))
           IN  /\ M("deny") # {} => o = <<"deny">>
               /\ M("deny") = {} /\ M("approval") # {} =>
                    o = outcome(ApprovalBy(policies, First(M("approval")), ctx))
               /\ M("deny") = {} /\ M("approval") = {} /\ M("allow") # {} => o = <<"allow">>
               /\ M("deny") = {} /\ M("approval") = {} /\ M("allow") = {} =>
                    o = outcome(default_decision(ctx))
<1>1. \A r : outcome(Verdict("deny", r)) = <<"deny">> /\ outcome(Verdict("allow", r)) = <<"allow">>
  BY Zenon DEF outcome, Verdict
<1> QED BY <1>1 DEF Decide

\* A gate is what its rule says, wherever the rule is.
LEMMA GateByRule ==
    ASSUME NEW a, NEW x, NEW b, NEW y, NEW ctx, RuleAt(a, x) = RuleAt(b, y)
    PROVE  outcome(ApprovalBy(a, x, ctx)) = outcome(ApprovalBy(b, y, ctx))
BY Zenon DEF ApprovalBy, Gate, outcome

\* It is an approval, whatever the rule leaves out.
LEMMA GateIsGate ==
    ASSUME NEW a, NEW x, NEW ctx
    PROVE  outcome(ApprovalBy(a, x, ctx))[1] = "approval"
<1>1. \A r, p, s, e : outcome(Gate(r, p, s, e))[1] = "approval"
  BY DEF Gate, outcome
<1> QED BY <1>1, Zenon DEF ApprovalBy

\* What one policy decides, by the kinds of its rules that match.
LEMMA AloneByKind ==
    ASSUME NEW source \in Seq(Rule), NEW ctx \in Context
    PROVE  LET H(kind) == Hits(source, kind, ctx)
               o == outcome(Decide(<<source>>, ctx))
           IN  /\ H("deny") # {} => o[1] = "deny" /\ ~ByDefault(source, ctx)
               /\ H("deny") = {} /\ H("approval") # {} =>
                    /\ o[1] = "approval" /\ ~ByDefault(source, ctx)
                    /\ \A i \in H("approval") : (\A j \in H("approval") : i <= j) =>
                          \A b, y : RuleAt(b, y) = source[i] => outcome(ApprovalBy(b, y, ctx)) = o
               /\ H("deny") = {} /\ H("approval") = {} /\ H("allow") # {} =>
                    o[1] = "allow" /\ ~ByDefault(source, ctx)
               /\ H("deny") = {} /\ H("approval") = {} /\ H("allow") = {} =>
                    ByDefault(source, ctx)
<1> DEFINE H(kind) == Hits(source, kind, ctx)
           alone == <<source>>
           M(kind) == Matching(alone, kind, ctx)
           o == outcome(Decide(alone, ctx))
<1>1. alone \in Seq(Seq(Rule)) /\ DOMAIN alone = {1} /\ alone[1] = source
  OBVIOUS
<1> HIDE DEF alone
<1>2. ASSUME NEW kind PROVE M(kind) # {} <=> H(kind) # {}
  <2>1. M(kind) # {} <=> \E p \in DOMAIN alone : Hits(alone[p], kind, ctx) # {}
    BY <1>1, SomeMatching, Zenon
  <2> QED BY <2>1, <1>1, Zenon
<1>3. \A kind : M(kind) # {} => First(M(kind)) # NoRule
  <2>1. ASSUME NEW kind, M(kind) # {} PROVE First(M(kind))[1] = 1
    BY <1>1, <2>1, FirstAmongHits, Zenon
  <2> QED BY <2>1 DEF NoRule
<1>4. ByDefault(source, ctx) <=> Decide(alone, ctx).rule = NoRule
  BY Zenon DEF ByDefault, alone
<1>5. ASSUME H("deny") # {} PROVE o[1] = "deny" /\ ~ByDefault(source, ctx)
  <2>1. Decide(alone, ctx) = Verdict("deny", First(M("deny")))
    BY <1>2, <1>5, Zenon DEF Decide
  <2>2. Decide(alone, ctx).rule = First(M("deny"))
    BY <2>1 DEF Verdict
  <2>3. o = <<"deny">>
    BY <2>1 DEF Verdict, outcome
  <2> QED BY <2>2, <2>3, <1>2, <1>3, <1>4, <1>5
<1>6. ASSUME H("deny") = {}, H("approval") # {}
      PROVE  /\ o[1] = "approval" /\ ~ByDefault(source, ctx)
             /\ \A i \in H("approval") : (\A j \in H("approval") : i <= j) =>
                   \A b, y : RuleAt(b, y) = source[i] => outcome(ApprovalBy(b, y, ctx)) = o
  <2> DEFINE x == First(M("approval"))
  <2>1. Decide(alone, ctx) = ApprovalBy(alone, x, ctx)
    BY <1>2, <1>6, Zenon DEF Decide
  <2>2. ApprovalBy(alone, x, ctx).rule = x
    BY Zenon DEF ApprovalBy, Gate
  <2>3. o[1] = "approval"
    BY <2>1, GateIsGate, Zenon
  <2>4. /\ x[1] = 1 /\ x[2] \in H("approval") /\ x[2] \in Nat
        /\ RuleAt(alone, x) = source[x[2]]
        /\ \A r \in H("approval") : x[2] <= r
    BY <1>1, <1>2, <1>6, FirstAmongHits
  <2> HIDE DEF x
  <2>5. ASSUME NEW i \in H("approval"), \A j \in H("approval") : i <= j,
               NEW b, NEW y, RuleAt(b, y) = source[i]
        PROVE  outcome(ApprovalBy(b, y, ctx)) = o
    <3>1. i \in Nat
      BY DEF Hits
    <3>2. i = x[2]
      BY <2>4, <2>5, <3>1
    <3> QED BY <3>2, <2>1, <2>4, <2>5, GateByRule
  <2> QED BY <2>1, <2>2, <2>3, <2>5, <1>2, <1>3, <1>4, <1>6 DEF x
<1>7. ASSUME H("deny") = {}, H("approval") = {}, H("allow") # {}
      PROVE  o[1] = "allow" /\ ~ByDefault(source, ctx)
  <2>1. Decide(alone, ctx) = Verdict("allow", First(M("allow")))
    BY <1>2, <1>7, Zenon DEF Decide
  <2>2. Decide(alone, ctx).rule = First(M("allow"))
    BY <2>1 DEF Verdict
  <2>3. o = <<"allow">>
    BY <2>1 DEF Verdict, outcome
  <2> QED BY <2>2, <2>3, <1>2, <1>3, <1>4, <1>7
<1>8. ASSUME H("deny") = {}, H("approval") = {}, H("allow") = {}
      PROVE  ByDefault(source, ctx)
  <2>1. Decide(alone, ctx) = default_decision(ctx)
    BY <1>2, <1>8, Zenon DEF Decide
  <2>2. default_decision(ctx).rule = NoRule
    BY Zenon DEF default_decision, Verdict, Gate
  <2> QED BY <2>1, <2>2, <1>4
<1> QED BY <1>5, <1>6, <1>7, <1>8 DEF alone

\* Two policy sets that differ only in the versions of one policy.
Differ(a, b, at, source, other) ==
    /\ a \in Seq(Seq(Rule)) /\ b \in Seq(Seq(Rule)) /\ DOMAIN a = DOMAIN b
    /\ source \in Seq(Rule) /\ other \in Seq(Rule)
    /\ \A p \in DOMAIN a : IF p \in at THEN a[p] = source /\ b[p] = other ELSE a[p] = b[p]

\* Where either version has a rule of a kind that matches, so have both sets or neither.
LEMMA SameKindsMatch ==
    ASSUME NEW a, NEW b, NEW at, NEW source, NEW other, Differ(a, b, at, source, other),
           NEW ctx, NEW kind, Hits(source, kind, ctx) # {} <=> Hits(other, kind, ctx) # {}
    PROVE  /\ Matching(a, kind, ctx) # {} <=> Matching(b, kind, ctx) # {}
           /\ \A p \in DOMAIN a : Hits(a[p], kind, ctx) # {} <=> Hits(b[p], kind, ctx) # {}
<1>1. \A p \in DOMAIN a : Hits(a[p], kind, ctx) # {} <=> Hits(b[p], kind, ctx) # {}
  BY Zenon DEF Differ
<1>2. DOMAIN a = DOMAIN b /\ a \in Seq(Seq(Rule)) /\ b \in Seq(Seq(Rule))
  BY Zenon DEF Differ
<1>3. Matching(a, kind, ctx) # {} <=> \E p \in DOMAIN a : Hits(a[p], kind, ctx) # {}
  BY <1>2, SomeMatching, Zenon
<1>4. Matching(b, kind, ctx) # {} <=> \E p \in DOMAIN a : Hits(b[p], kind, ctx) # {}
  BY <1>2, SomeMatching, Zenon
<1> QED BY <1>1, <1>3, <1>4, Zenon

\* The first rule of a policy that asks for an approval of an action that none denies.
FirstAsks(s, i, ctx) ==
    /\ s \in Seq(Rule) /\ Hits(s, "deny", ctx) = {} /\ i \in Hits(s, "approval", ctx)
    /\ \A r \in Hits(s, "approval", ctx) : i <= r

\* What that rule asks is what its policy alone decides.
LEMMA FirstGate ==
    ASSUME NEW s, NEW ctx \in Context, NEW i, FirstAsks(s, i, ctx), NEW c, NEW z, RuleAt(c, z) = s[i]
    PROVE  outcome(ApprovalBy(c, z, ctx)) = outcome(Decide(<<s>>, ctx))
BY AloneByKind DEF FirstAsks

\* The first gate is the same when both versions ask alike, or neither asks.
LEMMA SameGate ==
    ASSUME NEW a, NEW b, NEW at, NEW source, NEW other, Differ(a, b, at, source, other),
           NEW ctx \in Context,
           Hits(source, "deny", ctx) = {}, Hits(other, "deny", ctx) = {},
           Hits(source, "approval", ctx) # {} <=> Hits(other, "approval", ctx) # {},
           Hits(source, "approval", ctx) # {} =>
               outcome(Decide(<<source>>, ctx)) = outcome(Decide(<<other>>, ctx)),
           Matching(a, "approval", ctx) # {}
    PROVE  outcome(ApprovalBy(a, First(Matching(a, "approval", ctx)), ctx))
             = outcome(ApprovalBy(b, First(Matching(b, "approval", ctx)), ctx))
<1> DEFINE H(s) == Hits(s, "approval", ctx)
           x == First(Matching(a, "approval", ctx))
           y == First(Matching(b, "approval", ctx))
<1>1. DOMAIN a = DOMAIN b /\ a \in Seq(Seq(Rule)) /\ b \in Seq(Seq(Rule))
  BY Zenon DEF Differ
<1>2. /\ Matching(b, "approval", ctx) # {}
      /\ \A p \in DOMAIN a : H(a[p]) # {} <=> H(b[p]) # {}
  <2>1. PICK kind : kind = "approval"
    OBVIOUS
  <2>2. /\ Hits(source, kind, ctx) # {} <=> Hits(other, kind, ctx) # {}
        /\ Matching(a, kind, ctx) # {}
    BY <2>1, Zenon
  <2>3. /\ Matching(a, kind, ctx) # {} <=> Matching(b, kind, ctx) # {}
        /\ \A p \in DOMAIN a : Hits(a[p], kind, ctx) # {} <=> Hits(b[p], kind, ctx) # {}
    BY <2>2, SameKindsMatch
  <2> QED BY <2>1, <2>2, <2>3, Zenon
<1>3. /\ x[1] \in DOMAIN a /\ x[2] \in H(a[x[1]]) /\ x[1] \in Nat /\ x[2] \in Nat
      /\ RuleAt(a, x) = a[x[1]][x[2]]
      /\ \A p \in DOMAIN a : \A r \in H(a[p]) : x[1] < p \/ (x[1] = p /\ x[2] <= r)
  BY <1>1, FirstAmongHits, Zenon
<1>4. /\ y[1] \in DOMAIN b /\ y[2] \in H(b[y[1]]) /\ y[1] \in Nat /\ y[2] \in Nat
      /\ RuleAt(b, y) = b[y[1]][y[2]]
      /\ \A p \in DOMAIN b : \A r \in H(b[p]) : y[1] < p \/ (y[1] = p /\ y[2] <= r)
  BY <1>1, <1>2, FirstAmongHits, Zenon
<1> HIDE DEF x, y, H
<1>5. x[1] <= y[1]
  <2>1. PICK r \in H(a[y[1]]) : TRUE
    <3>1. y[1] \in DOMAIN a /\ y[2] \in H(b[y[1]])
      BY <1>1, <1>4, Zenon
    <3> QED BY <3>1, <1>2, Zenon
  <2>2. x[1] < y[1] \/ x[1] = y[1]
    BY <2>1, <1>1, <1>3, <1>4, Zenon
  <2>3. x[1] \in Nat /\ y[1] \in Nat
    BY <1>3, <1>4, Zenon
  <2> QED BY <2>2, <2>3
<1>6. y[1] <= x[1]
  <2>1. PICK r \in H(b[x[1]]) : TRUE
    <3>1. x[1] \in DOMAIN a /\ x[2] \in H(a[x[1]])
      BY <1>1, <1>3, Zenon
    <3> QED BY <3>1, <1>2, Zenon
  <2>2. y[1] < x[1] \/ y[1] = x[1]
    BY <2>1, <1>1, <1>3, <1>4, Zenon
  <2>3. x[1] \in Nat /\ y[1] \in Nat
    BY <1>3, <1>4, Zenon
  <2> QED BY <2>2, <2>3
<1>7. x[1] = y[1]
  <2>1. x[1] \in Nat /\ y[1] \in Nat
    BY <1>3, <1>4, Zenon
  <2> QED BY <2>1, <1>5, <1>6
<1>8. CASE x[1] \in at
  <2>1. a[x[1]] = source /\ b[y[1]] = other /\ source \in Seq(Rule) /\ other \in Seq(Rule)
    BY <1>3, <1>7, <1>8, Zenon DEF Differ
  <2>2. x[2] \in H(source) /\ \A r \in H(source) : x[2] <= r
    BY <2>1, <1>3
  <2>3. y[2] \in H(other) /\ \A r \in H(other) : y[2] <= r
    BY <2>1, <1>4
  <2>4. RuleAt(a, x) = source[x[2]] /\ RuleAt(b, y) = other[y[2]]
    BY <2>1, <1>3, <1>4, Zenon
  <2>5. Hits(source, "deny", ctx) = {} /\ Hits(other, "deny", ctx) = {}
    OBVIOUS
  <2>6. outcome(ApprovalBy(a, x, ctx)) = outcome(Decide(<<source>>, ctx))
    <3>1. FirstAsks(source, x[2], ctx)
      BY <2>1, <2>2, <2>5, Zenon DEF FirstAsks, H
    <3> QED BY <2>4, <3>1, FirstGate
  <2>7. outcome(ApprovalBy(b, y, ctx)) = outcome(Decide(<<other>>, ctx))
    <3>1. FirstAsks(other, y[2], ctx)
      BY <2>1, <2>3, <2>5, Zenon DEF FirstAsks, H
    <3> QED BY <2>4, <3>1, FirstGate
  <2>8. outcome(Decide(<<source>>, ctx)) = outcome(Decide(<<other>>, ctx))
    BY <2>2, Zenon DEF H
  <2> QED BY <2>6, <2>7, <2>8 DEF x, y
<1>9. CASE x[1] \notin at
  <2>1. a[x[1]] = b[y[1]]
    BY <1>3, <1>7, <1>9, Zenon DEF Differ
  <2>2. (x[1] < y[1] \/ x[2] <= y[2]) /\ (y[1] < x[1] \/ y[2] <= x[2])
    <3>1. y[2] \in H(a[x[1]]) /\ x[2] \in H(b[y[1]])
      BY <2>1, <1>3, <1>4, Zenon
    <3>2. x[1] < x[1] \/ (x[1] = x[1] /\ x[2] <= y[2])
      BY <3>1, <1>3, Zenon
    <3>3. y[1] < y[1] \/ (y[1] = y[1] /\ y[2] <= x[2])
      BY <3>1, <1>4, Zenon
    <3> QED BY <3>2, <3>3, <1>7, Zenon
  <2>3. x[2] = y[2]
    <3>1. x[1] \in Nat /\ x[2] \in Nat /\ y[1] \in Nat /\ y[2] \in Nat
      BY <1>3, <1>4, Zenon
    <3> QED BY <2>2, <3>1, <1>7
  <2>4. RuleAt(a, x) = RuleAt(b, y)
    BY <2>1, <2>3, <1>3, <1>4, Zenon
  <2> QED BY <2>4, GateByRule DEF x, y
<1> QED BY <1>8, <1>9

\* Versions that decide an action alike alone, both by a rule or both by default, decide it
\* alike in a set of policies (what `policy test` relies on, corpus.rs).
LEMMA AlikeAloneAlikeTogether ==
    ASSUME NEW a, NEW b, NEW at, NEW source, NEW other, Differ(a, b, at, source, other),
           NEW ctx \in Context,
           outcome(Decide(<<source>>, ctx)) = outcome(Decide(<<other>>, ctx)),
           ByDefault(source, ctx) <=> ByDefault(other, ctx)
    PROVE  outcome(Decide(a, ctx)) = outcome(Decide(b, ctx))
<1> DEFINE S(kind) == Hits(source, kind, ctx)
           T(kind) == Hits(other, kind, ctx)
           A(kind) == Matching(a, kind, ctx)
           B(kind) == Matching(b, kind, ctx)
<1>1. a \in Seq(Seq(Rule)) /\ b \in Seq(Seq(Rule)) /\ source \in Seq(Rule) /\ other \in Seq(Rule)
  BY Zenon DEF Differ
<1>2. S("deny") # {} <=> T("deny") # {}
  BY <1>1, AloneByKind, Zenon
<1>3. S("deny") = {} => (S("approval") # {} <=> T("approval") # {})
  BY <1>1, <1>2, AloneByKind, Zenon
<1>4. S("deny") = {} /\ S("approval") = {} => (S("allow") # {} <=> T("allow") # {})
  BY <1>1, <1>2, <1>3, AloneByKind, Zenon
<1>5. A("deny") # {} <=> B("deny") # {}
  BY <1>2, SameKindsMatch
<1>6. CASE A("deny") # {}
  BY <1>1, <1>5, <1>6, OutcomeByKind, Zenon
<1>7. CASE A("deny") = {} /\ S("deny") # {}
  \* the policy is not in the set
  <2>1. \A p \in DOMAIN a : p \notin at
    BY <1>1, <1>7, SomeMatching, Zenon DEF Differ
  <2>2. a = b
    BY <2>1 DEF Differ
  <2> QED BY <2>2
<1>8. CASE A("deny") = {} /\ S("deny") = {}
  <2>1. B("deny") = {} /\ T("deny") = {}
    BY <1>2, <1>5, <1>8, Zenon
  <2>2. A("approval") # {} <=> B("approval") # {}
    BY <1>3, <1>8, SameKindsMatch
  <2>3. CASE A("approval") # {}
    <3>1. outcome(ApprovalBy(a, First(A("approval")), ctx))
            = outcome(ApprovalBy(b, First(B("approval")), ctx))
      BY <1>3, <1>8, <2>1, <2>3, SameGate
    <3>2. B("approval") # {}
      BY <2>2, <2>3, Zenon
    <3>3. outcome(Decide(a, ctx)) = outcome(ApprovalBy(a, First(A("approval")), ctx))
      BY <1>1, <1>8, <2>3, OutcomeByKind, Zenon
    <3>4. outcome(Decide(b, ctx)) = outcome(ApprovalBy(b, First(B("approval")), ctx))
      BY <1>1, <2>1, <3>2, OutcomeByKind, Zenon
    <3> QED BY <3>1, <3>3, <3>4
  <2>4. CASE A("approval") = {} /\ S("approval") # {}
    <3>1. \A p \in DOMAIN a : p \notin at
      BY <1>1, <2>4, SomeMatching, Zenon DEF Differ
    <3>2. a = b
      BY <3>1 DEF Differ
    <3> QED BY <3>2
  <2>5. CASE A("approval") = {} /\ S("approval") = {}
    <3>1. A("allow") # {} <=> B("allow") # {}
      BY <1>4, <1>8, <2>5, SameKindsMatch
    <3> QED BY <3>1, <1>1, <1>8, <2>1, <2>2, <2>5, OutcomeByKind, Zenon
  <2> QED BY <2>3, <2>4, <2>5
<1> QED BY <1>6, <1>7, <1>8

----------------------------------------------------------------------------
(* The registry and the log only grow.                                     *)

\* What a step leaves of the registry and the log: all of it.
Grows ==
    /\ \A n \in Names : \A v \in Loaded(n) : v \in Loaded(n)' /\ registry'[n][v] = registry[n][v]
    /\ Len(log) <= Len(log')
    /\ \A k \in DOMAIN log : k \in DOMAIN log' /\ log'[k] = log[k]

\* The types of the tables, one by one.
LEMMA Typed ==
    ASSUME TypeOK
    PROVE  /\ now \in Nat /\ now <= now
           /\ log \in Seq(PolicyEvent \cup ApprovalEvent) /\ Len(log) \in Nat
           /\ approvals \in Seq(ApprovalRow)
           /\ step \in [Runs -> {"ready", "leased", "waiting", "failed"}]
<1>1. /\ now \in Nat /\ log \in Seq(PolicyEvent \cup ApprovalEvent)
      /\ approvals \in Seq(ApprovalRow)
      /\ step \in [Runs -> {"ready", "leased", "waiting", "failed"}]
  BY Zenon DEF TypeOK
<1>2. Len(log) \in Nat
  BY <1>1
<1>3. now <= now
  BY <1>1
<1> QED BY <1>1, <1>2, <1>3, Zenon

\* They are kept by an operation that leaves the registry alone.
LEMMA TypeKept ==
    ASSUME TypeOK, registry' = registry, now' \in Nat,
           step' \in [Runs -> {"ready", "leased", "waiting", "failed"}],
           log' \in Seq(PolicyEvent \cup ApprovalEvent), approvals' \in Seq(ApprovalRow)
    PROVE  TypeOK'
BY Zenon DEF TypeOK

\* An event is of the kind it says.
LEMMA EventTypes ==
    ASSUME TypeOK, NEW k \in DOMAIN log
    PROVE  /\ k \in 1..Len(log) /\ Len(log) \in Nat
           /\ log[k].kind = "policy.decided" => log[k] \in PolicyEvent
           /\ log[k].kind # "policy.decided" => log[k] \in ApprovalEvent
<1>1. log \in Seq(PolicyEvent \cup ApprovalEvent)
  BY Typed, Zenon
<1>2. log[k] \in PolicyEvent \cup ApprovalEvent
  BY <1>1
<1>3. k \in 1..Len(log) /\ Len(log) \in Nat
  BY <1>1
<1>4. ASSUME NEW e \in PolicyEvent PROVE e.kind = "policy.decided"
  BY Zenon DEF PolicyEvent
<1>5. ASSUME NEW e \in ApprovalEvent PROVE e.kind = "approval.decided"
  BY Zenon DEF ApprovalEvent
<1> QED BY <1>2, <1>3, <1>4, <1>5, Zenon

\* A row of the approvals table.
LEMMA RowTypes ==
    ASSUME TypeOK, NEW i \in DOMAIN approvals
    PROVE  approvals[i] \in ApprovalRow /\ i \in 1..Len(approvals) /\ Len(approvals) \in Nat
BY Typed

\* What a row of the table holds.
LEMMA RowFigures ==
    ASSUME NEW row \in ApprovalRow
    PROVE  /\ row.sla \in Nat /\ row.requested_at \in Nat /\ row.escalations \in {0, 1}
           /\ row.approver \in Resolved /\ row.escalate_to \in Resolved \cup {ReportingLine}
BY Zenon DEF ApprovalRow

\* The columns that an answer sets, and the ones that it leaves (decide_approval).
AnsweredRow(old, d, x, t) == [old EXCEPT !.state = d, !.actor = x, !.decided_at = t]
LEMMA RowAnswered ==
    ASSUME NEW old \in ApprovalRow, NEW d \in {"approved", "rejected"}, NEW x \in Actors, NEW t \in Nat,
           NEW row, row = AnsweredRow(old, d, x, t)
    PROVE  /\ row \in ApprovalRow
           /\ row.state = d /\ row.actor = x /\ row.decided_at = t
           /\ row.run = old.run /\ row.action = old.action
           /\ row.decided = old.decided /\ row.approver = old.approver
           /\ row.original_approver = old.original_approver /\ row.sla = old.sla
           /\ row.escalate_to = old.escalate_to /\ row.escalations = old.escalations
           /\ row.due = old.due /\ row.requested_at = old.requested_at
<1>1. row \in ApprovalRow
  BY Zenon DEF ApprovalRow, AnsweredRow
<1>2. /\ row.state = d /\ row.actor = x /\ row.decided_at = t
      /\ row.run = old.run /\ row.action = old.action
      /\ row.decided = old.decided /\ row.approver = old.approver
      /\ row.original_approver = old.original_approver /\ row.sla = old.sla
      /\ row.escalate_to = old.escalate_to /\ row.escalations = old.escalations
      /\ row.due = old.due /\ row.requested_at = old.requested_at
  BY Zenon DEF ApprovalRow, AnsweredRow
<1> QED BY <1>1, <1>2

\* The columns that an escalation sets, and the ones that it leaves (sweep_approvals).
EscalatedRow(old, approver, due) == [old EXCEPT !.approver = approver, !.due = due, !.escalations = 1]
LEMMA RowEscalated ==
    ASSUME NEW old \in ApprovalRow, NEW approver \in Resolved, NEW due \in Nat,
           NEW row, row = EscalatedRow(old, approver, due)
    PROVE  /\ row \in ApprovalRow /\ row.state = old.state /\ row.run = old.run
           /\ row.action = old.action /\ row.decided = old.decided
           /\ row.original_approver = old.original_approver /\ row.sla = old.sla
           /\ row.escalate_to = old.escalate_to /\ row.requested_at = old.requested_at
           /\ row.escalations = 1 /\ row.approver = approver
<1>1. 1 \in {0, 1}
  OBVIOUS
<1>2. row \in ApprovalRow
  BY <1>1, Zenon DEF ApprovalRow, EscalatedRow
<1>3. /\ row.state = old.state /\ row.run = old.run
      /\ row.action = old.action /\ row.decided = old.decided
      /\ row.original_approver = old.original_approver /\ row.sla = old.sla
      /\ row.escalate_to = old.escalate_to /\ row.requested_at = old.requested_at
      /\ row.escalations = 1 /\ row.approver = approver
  BY Zenon DEF ApprovalRow, EscalatedRow
<1> QED BY <1>2, <1>3

\* The column that a second expiry sets, and the ones that it leaves (sweep_approvals).
LEMMA RowParked ==
    ASSUME NEW old \in ApprovalRow, NEW row, row = [old EXCEPT !.parked_human = TRUE]
    PROVE  /\ row \in ApprovalRow /\ row.state = old.state /\ row.run = old.run
           /\ row.action = old.action /\ row.decided = old.decided
           /\ row.original_approver = old.original_approver /\ row.sla = old.sla
           /\ row.escalate_to = old.escalate_to /\ row.requested_at = old.requested_at
           /\ row.escalations = old.escalations /\ row.approver = old.approver /\ row.due = old.due
<1>1. row \in ApprovalRow
  BY Zenon DEF ApprovalRow
<1>2. /\ row.state = old.state /\ row.run = old.run
      /\ row.action = old.action /\ row.decided = old.decided
      /\ row.original_approver = old.original_approver /\ row.sla = old.sla
      /\ row.escalate_to = old.escalate_to /\ row.requested_at = old.requested_at
      /\ row.escalations = old.escalations /\ row.approver = old.approver /\ row.due = old.due
  BY Zenon DEF ApprovalRow
<1> QED BY <1>1, <1>2

\* The rules of versions that are there.
LEMMA LoadedRules ==
    ASSUME TypeOK, NEW refs \in Seq(Ref),
           \A i \in DOMAIN refs : refs[i].version \in Loaded(refs[i].name)
    PROVE  load_policy_refs(refs) \in Seq(Seq(Rule))
<1>1. ASSUME NEW i \in DOMAIN refs PROVE registry[refs[i].name][refs[i].version] \in Seq(Rule)
  <2>1. refs[i] \in Ref
    OBVIOUS
  <2>2. refs[i].name \in Names
    BY <2>1, Zenon DEF Ref
  <2>3. /\ registry[refs[i].name] \in [Versions[refs[i].name] -> Seq(Rule) \cup {Unset}]
        /\ refs[i].version \in Versions[refs[i].name]
        /\ registry[refs[i].name][refs[i].version] # Unset
    BY <2>2, Zenon DEF TypeOK, Loaded
  <2> QED BY <2>3
<1> QED BY <1>1 DEF load_policy_refs

\* A decision in the log stays what it is.
LEMMA DecisionsKept ==
    ASSUME TypeOK, RefsLoaded, Grows, NEW k \in DOMAIN log, log[k].kind = "policy.decided"
    PROVE  /\ log'[k] = log[k] /\ k \in DOMAIN log'
           /\ load_policy_refs(log[k].refs)' = load_policy_refs(log[k].refs)
           /\ load_policy_refs(log[k].refs) \in Seq(Seq(Rule))
           /\ \A i \in DOMAIN log[k].refs : log[k].refs[i].version \in Loaded(log[k].refs[i].name)'
<1>1. log[k].refs \in Seq(Ref)
  BY EventTypes, Zenon DEF PolicyEvent
<1>2. \A i \in DOMAIN log[k].refs : log[k].refs[i].version \in Loaded(log[k].refs[i].name)
  BY Zenon DEF RefsLoaded
<1>3. log'[k] = log[k] /\ k \in DOMAIN log'
  BY Zenon DEF Grows
<1> DEFINE refs == log[k].refs
<1>4. /\ [i \in DOMAIN refs |-> registry'[refs[i].name][refs[i].version]] = load_policy_refs(refs)
      /\ \A i \in DOMAIN refs : refs[i].version \in Loaded(refs[i].name)'
  <2>1. ASSUME NEW i \in DOMAIN refs
        PROVE  /\ registry'[refs[i].name][refs[i].version] = registry[refs[i].name][refs[i].version]
               /\ refs[i].version \in Loaded(refs[i].name)'
    <3>1. refs[i] \in Ref
      BY <1>1
    <3>2. refs[i].name \in Names
      BY <3>1, Zenon DEF Ref
    <3> QED BY <3>2, <1>2, Zenon DEF Grows
  <2> QED BY <2>1, Zenon DEF load_policy_refs
<1>5. load_policy_refs(log[k].refs)' = [i \in DOMAIN refs |-> registry'[refs[i].name][refs[i].version]]
  BY <1>3, Zenon DEF load_policy_refs
<1>6. load_policy_refs(log[k].refs) \in Seq(Seq(Rule))
  BY <1>1, <1>2, LoadedRules, Zenon
<1> QED BY <1>3, <1>4, <1>5, <1>6, Zenon

\* The latest versions are there.
LEMMA LatestLoaded ==
    ASSUME TypeOK, HasLatest, NEW names \in Seq(Names)
    PROVE  /\ Refs(names) \in Seq(Ref)
           /\ \A i \in DOMAIN Refs(names) : Refs(names)[i].version \in Loaded(Refs(names)[i].name)
<1>1. ASSUME NEW i \in DOMAIN names
      PROVE  /\ latest_policy(names[i]) \in Loaded(names[i]) /\ names[i] \in Names
             /\ latest_policy(names[i]) \in Nat
  <2>1. names[i] \in Names
    OBVIOUS
  <2>2. latest_policy(names[i]) \in Loaded(names[i])
    BY <2>1, Zenon DEF HasLatest, latest_policy
  <2> QED BY <2>1, <2>2, GovernanceAssumption DEF Loaded
<1>2. \A i \in DOMAIN names : [name |-> names[i], version |-> latest_policy(names[i])] \in Ref
  BY <1>1, Zenon DEF Ref
<1>3. Refs(names) \in Seq(Ref)
  BY <1>2 DEF Refs
<1> QED BY <1>1, <1>3 DEF Refs

\* What is logged stays logged.
LEMMA LoggedKept ==
    ASSUME TypeOK, Grows, NEW k \in 1..(Len(log) + 1), NEW r, NEW a, LoggedBefore(k, r, a)
    PROVE  LoggedBefore(k, r, a)'
<1>1. PICK j \in 1..(k - 1) : /\ log[j].kind = "approval.decided" /\ log[j].run = r
                              /\ log[j].approval = a /\ log[j].decision = "approved"
  BY Zenon DEF LoggedBefore
<1>2. j \in DOMAIN log
  BY Typed
<1>3. log'[j] = log[j]
  BY <1>2, Zenon DEF Grows
<1> QED BY <1>1, <1>3 DEF LoggedBefore

\* The decisions of the log stay reproducible.
LEMMA OldDecisions ==
    ASSUME TypeOK, RefsLoaded, Reproduced, Grows, NEW k \in DOMAIN log,
           log[k].kind = "policy.decided"
    PROVE  /\ \A i \in DOMAIN log'[k].refs : log'[k].refs[i].version \in Loaded(log[k].refs[i].name)'
           /\ IF log'[k].approval # 0
              THEN log'[k].decision = "allow" /\ LoggedBefore(k, log[k].run, log[k].approval)'
              ELSE LET computed == Decide(load_policy_refs(log[k].refs), log[k].action)'
                   IN  computed.decision = log'[k].decision /\ computed.rule = log'[k].rule
<1>1. PICK e : e = log[k]
  OBVIOUS
<1>2. log'[k] = e /\ k \in 1..(Len(log) + 1)
  BY <1>1, DecisionsKept, EventTypes
<1>3. load_policy_refs(log[k].refs)' = load_policy_refs(log[k].refs)
  BY DecisionsKept, Zenon
<1>4. \A i \in DOMAIN e.refs : e.refs[i].version \in Loaded(e.refs[i].name)'
  BY <1>1, DecisionsKept, Zenon
<1>5. \A i \in DOMAIN log'[k].refs : log'[k].refs[i].version \in Loaded(log[k].refs[i].name)'
  BY <1>2, <1>4, Zenon DEF Loaded
<1>6. CASE e.approval # 0
  <2>1. e.decision = "allow" /\ LoggedBefore(k, e.run, e.approval)
    BY <1>1, <1>6, Zenon DEF Reproduced
  <2>2. LoggedBefore(k, e.run, e.approval)'
    BY <1>2, <2>1, LoggedKept
  <2>3. LoggedBefore(k, log[k].run, log[k].approval)'
    BY <1>2, <2>2 DEF LoggedBefore
  <2> QED BY <1>2, <1>5, <1>6, <2>1, <2>3
<1>7. CASE e.approval = 0
  <2>1. LET computed == Decide(load_policy_refs(log[k].refs), log[k].action)
        IN  computed.decision = e.decision /\ computed.rule = e.rule
    BY <1>1, <1>7, Zenon DEF Reproduced
  <2>2. Decide(load_policy_refs(log[k].refs), log[k].action)'
          = Decide(load_policy_refs(log[k].refs), log[k].action)
    BY <1>1, <1>2, <1>3, Zenon
  <2> QED BY <1>2, <1>5, <1>7, <2>1, <2>2
<1> QED BY <1>6, <1>7, Zenon

\* An approval keeps to its decision.
LEMMA OldRow ==
    ASSUME TypeOK, RefsLoaded, Grows, now <= now', now' \in Nat,
           NEW row \in ApprovalRow, AsksAsDecided(row)
    PROVE  /\ Asked(row)' = Asked(row)
           /\ AsksAsDecided(row)'
           /\ AnsweredRightly(row) => AnsweredRightly(row)'
<1>1. row.decided \in DOMAIN log /\ log[row.decided].kind = "policy.decided"
  BY Zenon DEF AsksAsDecided
<1>2. /\ log'[row.decided] = log[row.decided] /\ row.decided \in DOMAIN log'
      /\ load_policy_refs(log[row.decided].refs)' = load_policy_refs(log[row.decided].refs)
  BY <1>1, DecisionsKept, Zenon
<1>3. Asked(row)' = Asked(row)
  BY <1>2, Zenon DEF Asked
<1>4. AnsweredRightly(row) => AnsweredRightly(row)'
  BY <1>3, Zenon DEF AnsweredRightly
<1>5. row.requested_at + row.sla \in Nat /\ now \in Nat
  BY Typed DEF ApprovalRow
<1>6. row.requested_at + row.sla <= now => row.requested_at + row.sla <= now'
  BY <1>5
<1>7. AsksAsDecided(row)'
  BY <1>1, <1>2, <1>3, <1>6, Zenon DEF AsksAsDecided
<1> QED BY <1>3, <1>4, <1>7

----------------------------------------------------------------------------
(* The invariant.                                                          *)

\* At first every policy has version 1, and nothing was decided.
LEMMA GovernanceInit ==
    ASSUME Init PROVE GovernanceInv
<1>1. \A n \in Names : registry[n] = [v \in Versions[n] |-> IF v = 1 THEN FirstSources[n] ELSE Unset]
  BY Zenon DEF Init
<1>2. TypeOK
  <2>1. ASSUME NEW n \in Names PROVE registry[n] \in [Versions[n] -> Seq(Rule) \cup {Unset}]
    <3>1. FirstSources[n] \in Seq(Rule)
      BY GovernanceAssumption, Zenon
    <3> DEFINE D == Seq(Rule) \cup {Unset}
    <3>2. FirstSources[n] \in D /\ Unset \in D
      BY <3>1, Zenon
    <3> HIDE DEF D
    <3>3. registry[n] = [v \in Versions[n] |-> IF v = 1 THEN FirstSources[n] ELSE Unset]
      BY <1>1, Zenon
    <3>4. \A v \in Versions[n] : (IF v = 1 THEN FirstSources[n] ELSE Unset) \in D
      BY <3>2, Zenon
    <3>5. registry[n] \in [Versions[n] -> D]
      BY <3>3, <3>4, Zenon
    <3> QED BY <3>5 DEF D
  <2>2. step \in [Runs -> {"ready", "leased", "waiting", "failed"}]
    BY Zenon DEF Init
  <2>3. now \in Nat /\ DOMAIN registry = Names
    BY Zenon DEF Init
  <2>4. log \in Seq(PolicyEvent \cup ApprovalEvent) /\ approvals \in Seq(ApprovalRow)
    BY DEF Init
  <2> QED BY <2>1, <2>2, <2>3, <2>4 DEF TypeOK
<1>3. HasLatest
  <2>1. ASSUME NEW n \in Names PROVE Loaded(n) = {1}
    <3>1. 1 \in Versions[n] /\ FirstSources[n] # Unset
      BY GovernanceAssumption, Zenon
    <3>2. ASSUME NEW v \in Versions[n] PROVE registry[n][v] # Unset <=> v = 1
      <4>1. registry[n] = [u \in Versions[n] |-> IF u = 1 THEN FirstSources[n] ELSE Unset]
        BY <1>1, Zenon
      <4>2. registry[n][v] = IF v = 1 THEN FirstSources[n] ELSE Unset
        BY <4>1, Zenon
      <4> QED BY <3>1, <4>2, Zenon
    <3> QED BY <3>1, <3>2 DEF Loaded
  <2> QED BY <2>1 DEF HasLatest
<1>4. DOMAIN log = {} /\ DOMAIN approvals = {}
  BY DEF Init
<1> QED BY <1>2, <1>3, <1>4 DEF GovernanceInv, RefsLoaded, Reproduced, ApprovedIsLogged

\* A row that stays what it is keeps to its decision.
LEMMA RowKept ==
    ASSUME GovernanceInv, Grows, now <= now', now' \in Nat,
           NEW i \in DOMAIN approvals, NEW j, approvals'[j] = approvals[i]
    PROVE  AsksAsDecided(approvals[j])' /\ AnsweredRightly(approvals[j])'
<1>1. TypeOK /\ RefsLoaded
  BY Zenon DEF GovernanceInv
<1>2. PICK row : row = approvals[i]
  OBVIOUS
<1>3. row \in ApprovalRow /\ AsksAsDecided(row) /\ AnsweredRightly(row)
  BY <1>1, <1>2, RowTypes, Zenon DEF GovernanceInv
<1>4. AsksAsDecided(row)' /\ AnsweredRightly(row)'
  BY <1>1, <1>3, OldRow, Zenon
<1>5. approvals'[j] = row
  BY <1>2, Zenon
<1> QED BY <1>4, <1>5, Zenon DEF AsksAsDecided, AnsweredRightly, Asked, load_policy_refs

\* What was approved stays logged as approved.
LEMMA ApprovedKept ==
    ASSUME TypeOK, TypeOK', ApprovedIsLogged, Grows, NEW i \in DOMAIN approvals,
           approvals[i].state = "approved", approvals'[i].run = approvals[i].run
    PROVE  LoggedBefore(Len(log) + 1, approvals[i].run, i)'
<1>0. log' \in Seq(PolicyEvent \cup ApprovalEvent)
  BY Zenon DEF TypeOK
<1>1. Len(log) \in Nat /\ Len(log') \in Nat /\ Len(log) <= Len(log')
  BY <1>0, Typed DEF Grows
<1>2. LoggedBefore(Len(log) + 1, approvals[i].run, i)
  BY Zenon DEF ApprovedIsLogged
<1>3. PICK j \in 1..(Len(log) + 1 - 1) :
        /\ log[j].kind = "approval.decided" /\ log[j].run = approvals[i].run
        /\ log[j].approval = i /\ log[j].decision = "approved"
  BY <1>2 DEF LoggedBefore
<1>4. j \in DOMAIN log /\ j \in 1..(Len(log') + 1 - 1)
  BY <1>1, <1>3, Typed
<1>5. log'[j] = log[j]
  BY <1>4, Zenon DEF Grows
<1> QED BY <1>3, <1>4, <1>5 DEF LoggedBefore

\* A step that leaves the log and the approvals alone, and lets the registry only grow.
LEMMA QuietStep ==
    ASSUME GovernanceInv, TypeOK', HasLatest', Grows, now <= now',
           log' = log, approvals' = approvals
    PROVE  GovernanceInv'
<1>1. TypeOK /\ RefsLoaded /\ Reproduced /\ ApprovedIsLogged
  BY Zenon DEF GovernanceInv
<1>2. RefsLoaded'
  BY <1>1, OldDecisions, Zenon DEF RefsLoaded
<1>3. Reproduced'
  BY <1>1, OldDecisions, Zenon DEF Reproduced
<1>4. ApprovedIsLogged'
  BY <1>1, Zenon DEF ApprovedIsLogged, LoggedBefore
<1>5. now' \in Nat
  BY Zenon DEF TypeOK
<1>6. \A i \in DOMAIN approvals' : AsksAsDecided(approvals[i])' /\ AnsweredRightly(approvals[i])'
  BY <1>5, RowKept
<1> QED BY <1>2, <1>3, <1>4, <1>6 DEF GovernanceInv

\* A new version of a policy changes none that is there (apply_policy).
LEMMA ApplyPreserves ==
    ASSUME GovernanceInv, NEW n \in Names, NEW v \in Versions[n], NEW s \in Sources,
           apply_policy(n, v, s)
    PROVE  GovernanceInv'
<1>1. TypeOK /\ HasLatest
  BY Zenon DEF GovernanceInv
<1>2. /\ registry' = [registry EXCEPT ![n][v] = s] /\ registry[n][v] = Unset
      /\ now' = now /\ step' = step /\ log' = log /\ approvals' = approvals
  BY Zenon DEF apply_policy
<1>3. /\ DOMAIN registry' = Names
      /\ \A m \in Names : m # n => registry'[m] = registry[m]
      /\ registry'[n] = [registry[n] EXCEPT ![v] = s]
  BY <1>1, <1>2, Zenon DEF TypeOK
<1>4. s \in Seq(Rule)
  BY GovernanceAssumption, Zenon
<1>5. registry[n] \in [Versions[n] -> Seq(Rule) \cup {Unset}]
  BY <1>1, Zenon DEF TypeOK
<1>6. /\ registry'[n] \in [Versions[n] -> Seq(Rule) \cup {Unset}]
      /\ registry'[n][v] = s
      /\ \A w \in Versions[n] : w # v => registry'[n][w] = registry[n][w]
  BY <1>3, <1>4, <1>5, Zenon
<1>7. TypeOK'
  BY <1>1, <1>2, <1>3, <1>6 DEF TypeOK
<1>8. \A m \in Names : \A w \in Loaded(m) : w \in Loaded(m)' /\ registry'[m][w] = registry[m][w]
  BY <1>2, <1>3, <1>6, Zenon DEF Loaded
<1>9. Grows
  <2>1. Len(log) \in Nat
    BY <1>1, Typed, Zenon
  <2> QED BY <2>1, <1>2, <1>8 DEF Grows
<1>10. HasLatest'
  <2>1. ASSUME NEW m \in Names, m # n
        PROVE  Loaded(m)' = Loaded(m)
    BY <1>3, <2>1, Zenon DEF Loaded
  <2>2. Loaded(n)' \subseteq Loaded(n) \cup {v} /\ Loaded(n) \subseteq Loaded(n)'
    BY <1>6, <1>8, Zenon DEF Loaded
  <2>3. PICK x \in Loaded(n) : \A w \in Loaded(n) : w <= x
    BY <1>1, Zenon DEF HasLatest
  <2>4. x \in Nat /\ v \in Nat /\ Loaded(n) \subseteq Nat
    BY GovernanceAssumption DEF Loaded
  <2>5. \E z \in Loaded(n)' : \A w \in Loaded(n)' : w <= z
    <3>1. CASE v \in Loaded(n)' /\ x <= v
      <4>1. \A w \in Loaded(n)' : w <= v
        BY <2>2, <2>3, <2>4, <3>1
      <4> QED BY <3>1, <4>1
    <3>2. CASE ~(v \in Loaded(n)' /\ x <= v)
      <4>1. \A w \in Loaded(n)' : w <= x
        BY <2>2, <2>3, <2>4, <3>2
      <4> QED BY <2>2, <4>1
    <3> QED BY <3>1, <3>2
  <2> QED BY <2>1, <2>5, <1>1, Zenon DEF HasLatest
<1>11. now <= now'
  BY <1>1, <1>2, Typed, Zenon
<1> QED BY <1>2, <1>7, <1>9, <1>10, <1>11, QuietStep

\* A step that adds one event to the log.
LEMMA LogGrows ==
    ASSUME TypeOK, NEW e, log' = Append(log, e), registry' = registry
    PROVE  /\ Grows /\ Len(log) \in Nat /\ Len(log') = Len(log) + 1
           /\ log'[Len(log) + 1] = e /\ DOMAIN log' = DOMAIN log \cup {Len(log) + 1}
<1>1. log \in Seq(PolicyEvent \cup ApprovalEvent)
  BY Typed, Zenon
<1>2. /\ Len(log) \in Nat /\ Len(log') = Len(log) + 1
      /\ \A k \in 1..Len(log) : log'[k] = log[k]
      /\ log'[Len(log) + 1] = e
      /\ DOMAIN log' = 1..(Len(log) + 1) /\ DOMAIN log = 1..Len(log)
  BY <1>1
<1>3. DOMAIN log' = DOMAIN log \cup {Len(log) + 1}
  BY <1>2
<1>4. \A n : Loaded(n)' = Loaded(n)
  BY Zenon DEF Loaded
<1> QED BY <1>2, <1>3, <1>4 DEF Grows

\* A decision about to be logged: the versions it names are there, and it comes out of them
\* or rests on an approval in the log.
Founded(e) ==
    /\ \A i \in DOMAIN e.refs : e.refs[i].version \in Loaded(e.refs[i].name)
    /\ IF e.approval # 0
       THEN e.decision = "allow" /\ LoggedBefore(Len(log) + 1, e.run, e.approval)
       ELSE LET computed == Decide(load_policy_refs(e.refs), e.action)
            IN  computed.decision = e.decision /\ computed.rule = e.rule

\* One more such decision, or one more answer, leaves the log reproducible.
LEMMA LogPreserved ==
    ASSUME TypeOK, RefsLoaded, Reproduced, NEW e, log' = Append(log, e), registry' = registry,
           e.kind = "policy.decided" => Founded(e)
    PROVE  RefsLoaded' /\ Reproduced'
<1> DEFINE n == Len(log) + 1
<1>1. /\ Grows /\ n \in Nat /\ log'[n] = e /\ DOMAIN log' = DOMAIN log \cup {n}
      /\ n \in 1..(Len(log) + 1)
  BY LogGrows
<1>2. \A k \in DOMAIN log : log'[k] = log[k]
  BY <1>1, Zenon DEF Grows
<1> HIDE DEF n
<1>3. RefsLoaded'
  <2> SUFFICES ASSUME NEW k \in DOMAIN log', log'[k].kind = "policy.decided",
                      NEW i \in DOMAIN log'[k].refs
               PROVE  log'[k].refs[i].version \in Loaded(log[k].refs[i].name)'
    BY Zenon DEF RefsLoaded
  <2>1. CASE k \in DOMAIN log
    <3>1. log[k].kind = "policy.decided"
      BY <1>2, <2>1, Zenon
    <3>2. \A m \in DOMAIN log'[k].refs : log'[k].refs[m].version \in Loaded(log[k].refs[m].name)'
      BY <1>1, <2>1, <3>1, OldDecisions, Zenon
    <3> QED BY <3>2, Zenon
  <2>2. CASE k = n
    BY <1>1, <2>2, Zenon DEF Loaded, Founded
  <2> QED BY <1>1, <2>1, <2>2
<1>4. Reproduced'
  <2> SUFFICES ASSUME NEW k \in DOMAIN log', log'[k].kind = "policy.decided"
               PROVE  IF log'[k].approval # 0
                      THEN log'[k].decision = "allow" /\ LoggedBefore(k, log[k].run, log[k].approval)'
                      ELSE LET computed == Decide(load_policy_refs(log[k].refs), log[k].action)'
                           IN  computed.decision = log'[k].decision /\ computed.rule = log'[k].rule
    BY Zenon DEF Reproduced
  <2>1. CASE k \in DOMAIN log
    BY <1>1, <1>2, <2>1, OldDecisions, Zenon
  <2>2. CASE k = n
    <3>1. CASE e.approval # 0
      <4>1. LoggedBefore(n, e.run, e.approval)
        BY <1>1, <2>2, <3>1 DEF n, Founded
      <4>2. LoggedBefore(k, e.run, e.approval)'
        BY <1>1, <2>2, <4>1, LoggedKept, Zenon
      <4>3. LoggedBefore(k, log[k].run, log[k].approval)'
        <5>1. log'[k] = e
          BY <1>1, <2>2, Zenon
        <5> QED BY <4>2, <5>1, Zenon DEF LoggedBefore
      <4> QED BY <1>1, <2>2, <3>1, <4>3, Zenon DEF Founded
    <3>2. CASE e.approval = 0
      <4>1. load_policy_refs(log[k].refs)' = load_policy_refs(e.refs)
        BY <1>1, <2>2, Zenon DEF load_policy_refs
      <4>2. Decide(load_policy_refs(log[k].refs), log[k].action)' = Decide(load_policy_refs(e.refs), e.action)
        BY <1>1, <2>2, <4>1, Zenon
      <4> QED BY <1>1, <2>2, <3>2, <4>2, Zenon DEF Founded
    <3> QED BY <3>1, <3>2, Zenon
  <2> QED BY <1>1, <2>1, <2>2, Zenon
<1> QED BY <1>3, <1>4

\* An approved action is allowed again, and the log says which approval it rests on.
LEMMA AllowedAgainPreserves ==
    ASSUME GovernanceInv, NEW r \in Runs, NEW a \in Actions, propose_action(r, a),
           Approved(r, a) # {}
    PROVE  GovernanceInv'
<1>1. TypeOK /\ HasLatest /\ RefsLoaded /\ Reproduced /\ ApprovedIsLogged
  BY Zenon DEF GovernanceInv
<1> DEFINE i == CHOOSE i \in Approved(r, a) : \A j \in Approved(r, a) : i <= j
           e == PolicyDecided(r, a, Verdict("allow", Unset), <<>>, i)
<1>2. /\ log' = Append(log, e) /\ step' = step /\ approvals' = approvals
      /\ now' = now /\ registry' = registry
  BY Zenon DEF propose_action
<1>3. i \in Approved(r, a)
  <2>1. Approved(r, a) \in SUBSET Nat
    BY <1>1, RowTypes DEF Approved
  <2>2. \E x \in Approved(r, a) : \A y \in Approved(r, a) : x <= y
    BY <2>1, LeastNatural, Zenon
  <2> QED BY <2>2
<1> HIDE DEF i
<1>4. /\ i \in DOMAIN approvals /\ i \in Nat /\ i # 0
      /\ approvals[i].state = "approved" /\ approvals[i].run = r
  BY <1>1, <1>3, RowTypes DEF Approved
<1>5. LoggedBefore(Len(log) + 1, r, i)
  BY <1>1, <1>4, Zenon DEF ApprovedIsLogged
<1>6. /\ e.kind = "policy.decided" /\ e.run = r /\ e.approval = i /\ e.refs = <<>>
      /\ e.decision = "allow"
  BY Zenon DEF PolicyDecided, Verdict
<1>7. e \in PolicyEvent
  <2>1. <<>> \in Seq(Ref)
    OBVIOUS
  <2> QED BY <1>4, <2>1, Zenon DEF PolicyDecided, Verdict, PolicyEvent, RuleKind
<1> HIDE DEF e
<1>8. RefsLoaded' /\ Reproduced'
  <2>1. Founded(e)
    BY <1>4, <1>5, <1>6 DEF Founded
  <2> QED BY <1>1, <1>2, <2>1, LogPreserved
<1>9. Grows
  BY <1>1, <1>2, LogGrows, Zenon
<1>10. TypeOK'
  <2>1. log' \in Seq(PolicyEvent \cup ApprovalEvent)
    BY <1>1, <1>2, <1>7, Typed
  <2>2. now' \in Nat /\ approvals' \in Seq(ApprovalRow) /\ step' \in [Runs -> {"ready", "leased", "waiting", "failed"}]
    BY <1>1, <1>2, Typed, Zenon
  <2> QED BY <1>1, <1>2, <2>1, <2>2, TypeKept
<1>11. HasLatest'
  BY <1>1, <1>2, Zenon DEF HasLatest, Loaded
<1>12. ApprovedIsLogged'
  BY <1>1, <1>2, <1>9, <1>10, ApprovedKept, Zenon DEF ApprovedIsLogged
<1>13. \A j \in DOMAIN approvals' : AsksAsDecided(approvals[j])' /\ AnsweredRightly(approvals[j])'
  <2>1. now' \in Nat /\ now <= now'
    BY <1>1, <1>2, Typed, Zenon
  <2> QED BY <1>2, <1>9, <2>1, RowKept
<1> QED BY <1>8, <1>10, <1>11, <1>12, <1>13 DEF GovernanceInv

\* The row of an approval just asked for.
LEMMA NewRow ==
    ASSUME NEW r \in Runs, NEW a \in Actions, NEW v, v.approver \in Resolved, v.sla \in Nat,
           v.escalate_to \in Resolved \cup {ReportingLine}, Len(log) \in Nat, now \in Nat
    PROVE  NewApproval(r, a, v) \in ApprovalRow
<1> DEFINE d == Len(log) + 1
           t == now + v.sla
           E == Resolved \cup {ReportingLine}
           T == Nat \cup {Unset}
           X == Actors \cup {Unset}
<1>1. d \in Nat /\ t \in Nat /\ v.escalate_to \in E /\ Unset \in T /\ Unset \in X
  OBVIOUS
<1> HIDE DEF d, t, E, T, X
<1>2. [run |-> r, action |-> a, decided |-> d, approver |-> v.approver,
       original_approver |-> v.approver, escalate_to |-> v.escalate_to, sla |-> v.sla,
       state |-> "pending", requested_at |-> now, due |-> t, escalations |-> 0,
       parked_human |-> FALSE, decided_at |-> Unset, actor |-> Unset]
      \in [run: Runs, action: Actions, decided: Nat, approver: Resolved, original_approver: Resolved,
           escalate_to: E, sla: Nat, state: {"pending", "approved", "rejected"},
           requested_at: Nat, due: Nat, escalations: {0, 1}, parked_human: BOOLEAN,
           decided_at: T, actor: X]
  BY <1>1, Zenon
<1> QED BY <1>2, Zenon DEF NewApproval, ApprovalRow, d, t, E, T, X

\* A proposal that the policies decide (propose_action): the decision is logged with the
\* versions it was made from, and an approval is asked for as it says.
LEMMA DecidedPreserves ==
    ASSUME GovernanceInv, NEW r \in Runs, NEW a \in Actions, propose_action(r, a),
           Approved(r, a) = {}
    PROVE  GovernanceInv'
<1>1. TypeOK /\ HasLatest /\ RefsLoaded /\ Reproduced /\ ApprovedIsLogged
  BY DEF GovernanceInv
<1> DEFINE refs == Refs(PolicySet[r])
           verdict == Decide(load_policy_refs(refs), a)
           e == PolicyDecided(r, a, verdict, refs, 0)
           row == NewApproval(r, a, verdict)
<1>2. /\ log' = Append(log, e) /\ now' = now /\ registry' = registry
      /\ IF verdict.decision = "approval"
         THEN approvals' = Append(approvals, row) /\ step' = [step EXCEPT ![r] = "waiting"]
         ELSE step' = step /\ approvals' = approvals
  BY Zenon DEF propose_action
<1>3. /\ refs \in Seq(Ref)
      /\ \A i \in DOMAIN refs : refs[i].version \in Loaded(refs[i].name)
  <2>1. PolicySet[r] \in Seq(Names)
    BY GovernanceAssumption, Zenon
  <2> QED BY <1>1, <2>1, LatestLoaded
<1> HIDE DEF refs
<1>4. verdict \in Decision
  <2>1. load_policy_refs(refs) \in Seq(Seq(Rule))
    BY <1>1, <1>3, LoadedRules, Zenon
  <2>2. a \in Context
    BY GovernanceAssumption, Zenon
  <2> QED BY <2>1, <2>2, DecideType
<1>5. /\ e.kind = "policy.decided" /\ e.run = r /\ e.approval = 0 /\ e.refs = refs
      /\ e.decision = verdict.decision /\ e.rule = verdict.rule /\ e.action = a
  BY Zenon DEF PolicyDecided
<1>6. Decide(load_policy_refs(e.refs), e.action) = verdict
  BY <1>5, Zenon
<1> HIDE DEF verdict
<1>7. e \in PolicyEvent
  BY <1>3, <1>4, Zenon DEF PolicyDecided, PolicyEvent, Decision
<1> HIDE DEF e
<1>8. RefsLoaded' /\ Reproduced'
  <2>1. Founded(e)
    BY <1>3, <1>5, <1>6, Zenon DEF Founded
  <2> QED BY <1>1, <1>2, <2>1, LogPreserved
<1>9. /\ Grows /\ Len(log) \in Nat /\ log'[Len(log) + 1] = e
      /\ DOMAIN log' = DOMAIN log \cup {Len(log) + 1}
  BY <1>1, <1>2, LogGrows
<1>10. HasLatest'
  BY <1>1, <1>2, Zenon DEF HasLatest, Loaded
<1>11. now' \in Nat /\ now <= now' /\ now \in Nat
  BY <1>1, <1>2, Typed
<1>12. log' \in Seq(PolicyEvent \cup ApprovalEvent)
  BY <1>1, <1>2, <1>7, Typed
<1>13. CASE verdict.decision # "approval"
  <2>1. approvals' = approvals /\ step' = step
    BY <1>2, <1>13, Zenon
  <2>2. TypeOK'
    <3>1. approvals' \in Seq(ApprovalRow) /\ step' \in [Runs -> {"ready", "leased", "waiting", "failed"}]
      BY <1>1, <2>1, Typed
    <3> QED BY <1>1, <1>2, <1>11, <1>12, <3>1, TypeKept
  <2>3. ApprovedIsLogged'
    BY <1>1, <1>9, <2>1, <2>2, ApprovedKept, Zenon DEF ApprovedIsLogged
  <2>4. \A j \in DOMAIN approvals' : AsksAsDecided(approvals[j])' /\ AnsweredRightly(approvals[j])'
    BY <1>9, <1>11, <2>1, RowKept
  <2> QED BY <1>8, <1>10, <2>2, <2>3, <2>4 DEF GovernanceInv
<1>14. CASE verdict.decision = "approval"
  <2>1. approvals' = Append(approvals, row) /\ step' = [step EXCEPT ![r] = "waiting"]
    BY <1>2, <1>14
  <2>2. /\ verdict.approver \in Resolved /\ verdict.sla \in Nat
        /\ verdict.escalate_to \in Resolved \cup {ReportingLine}
    BY <1>4, <1>14, Zenon DEF Decision
  <2>3. row \in ApprovalRow
    BY <1>9, <1>11, <2>2, NewRow
  <2>4. /\ row.decided = Len(log) + 1 /\ row.action = a /\ row.state = "pending"
        /\ row.approver = verdict.approver /\ row.original_approver = verdict.approver
        /\ row.sla = verdict.sla /\ row.escalate_to = verdict.escalate_to
        /\ row.escalations = 0 /\ row.due = row.requested_at + row.sla
    BY Zenon DEF NewApproval
  <2> HIDE DEF row
  <2>5. /\ approvals' \in Seq(ApprovalRow) /\ Len(approvals) \in Nat
        /\ DOMAIN approvals' = DOMAIN approvals \cup {Len(approvals) + 1}
        /\ approvals'[Len(approvals) + 1] = row
        /\ \A j \in DOMAIN approvals : approvals'[j] = approvals[j]
    <3>1. approvals \in Seq(ApprovalRow)
      BY <1>1, Typed
    <3> QED BY <2>1, <2>3, <3>1
  <2>6. TypeOK'
    <3>1. step' \in [Runs -> {"ready", "leased", "waiting", "failed"}]
      BY <1>1, <2>1, Typed, Zenon
    <3> QED BY <1>1, <1>2, <1>11, <1>12, <2>5, <3>1, TypeKept
  <2>7. ApprovedIsLogged'
    BY <1>1, <1>9, <2>4, <2>5, <2>6, ApprovedKept, Zenon DEF ApprovedIsLogged
  <2>8. ASSUME NEW j \in DOMAIN approvals'
        PROVE  AsksAsDecided(approvals[j])' /\ AnsweredRightly(approvals[j])'
    <3>1. CASE j \in DOMAIN approvals
      BY <1>9, <1>11, <2>5, <3>1, RowKept, Zenon
    <3>2. CASE j = Len(approvals) + 1
      <4>1. PICK x : x = row
        OBVIOUS
      <4>2. approvals'[j] = x
        BY <2>5, <3>2, <4>1, Zenon
      <4>3. load_policy_refs(log[x.decided].refs)' = load_policy_refs(refs)
        BY <1>2, <1>5, <1>9, <2>4, <4>1, Zenon DEF load_policy_refs
      <4>4. Asked(x)' = verdict
        BY <4>1, <4>3, <2>4, Zenon DEF Asked, verdict
      <4>5. x.decided \in DOMAIN log' /\ log'[x.decided].kind = "policy.decided"
        BY <1>5, <1>9, <2>4, <4>1
      <4>6. AsksAsDecided(x)' /\ AnsweredRightly(x)'
        BY <2>4, <4>1, <4>4, <4>5, Zenon DEF AsksAsDecided, AnsweredRightly
      <4> QED BY <4>2, <4>6, Zenon DEF AsksAsDecided, AnsweredRightly, Asked, load_policy_refs
    <3> QED BY <2>5, <3>1, <3>2
  <2> QED BY <1>8, <1>10, <2>6, <2>7, <2>8 DEF GovernanceInv
<1> QED BY <1>13, <1>14

\* An answer is by whom the approval asks (decide_approval).
LEMMA AnswerPreserves ==
    ASSUME GovernanceInv, NEW i \in DOMAIN approvals, NEW d \in {"approved", "rejected"},
           NEW x \in Actors, decide_approval(i, d, x)
    PROVE  GovernanceInv'
<1>1. TypeOK /\ HasLatest /\ RefsLoaded /\ Reproduced /\ ApprovedIsLogged
  BY Zenon DEF GovernanceInv
<1> DEFINE e == [kind |-> "approval.decided", run |-> approvals[i].run, approval |-> i, decision |-> d]
           new == [approvals[i] EXCEPT !.state = d, !.actor = x, !.decided_at = now]
<1>2. /\ approvals[i].state = "pending" /\ Accepted(approvals[i], x)
      /\ log' = Append(log, e) /\ now' = now /\ registry' = registry
      /\ step' = [step EXCEPT ![approvals[i].run] = IF d = "approved" THEN "ready" ELSE "failed"]
  BY Zenon DEF decide_approval
<1>3. approvals[i] \in ApprovalRow /\ i \in Nat /\ now \in Nat
  BY <1>1, RowTypes, Typed
<1>4. /\ DOMAIN approvals' = DOMAIN approvals /\ approvals'[i] = new
      /\ \A j \in DOMAIN approvals : j # i => approvals'[j] = approvals[j]
      /\ approvals' = [approvals EXCEPT ![i] = new]
  BY <1>1, <1>3, Typed, Zenon DEF decide_approval, ApprovalRow
<1>5. /\ new \in ApprovalRow
      /\ new.state = d /\ new.actor = x /\ new.decided_at = now
      /\ new.run = approvals[i].run /\ new.action = approvals[i].action
      /\ new.decided = approvals[i].decided /\ new.approver = approvals[i].approver
      /\ new.original_approver = approvals[i].original_approver /\ new.sla = approvals[i].sla
      /\ new.escalate_to = approvals[i].escalate_to /\ new.escalations = approvals[i].escalations
      /\ new.due = approvals[i].due /\ new.requested_at = approvals[i].requested_at
  <2>1. PICK old : old = approvals[i] /\ old \in ApprovalRow
    BY <1>3, Zenon
  <2>2. d \in {"approved", "rejected"} /\ x \in Actors /\ now \in Nat
    BY <1>3, Zenon
  <2>3. new = AnsweredRow(old, d, x, now)
    BY <2>1, Zenon DEF AnsweredRow
  <2> HIDE DEF new
  <2> QED BY <2>1, <2>2, <2>3, RowAnswered
<1>6. e \in ApprovalEvent
  BY <1>3, Zenon DEF ApprovalEvent, ApprovalRow
<1>7. e.kind = "approval.decided" /\ e.run = approvals[i].run /\ e.approval = i /\ e.decision = d
  OBVIOUS
<1> HIDE DEF e, new
<1>8. RefsLoaded' /\ Reproduced'
  BY <1>1, <1>2, <1>7, LogPreserved
<1>9. /\ Grows /\ Len(log) \in Nat /\ log'[Len(log) + 1] = e /\ Len(log') = Len(log) + 1
  BY <1>1, <1>2, LogGrows, Zenon
<1>10. HasLatest'
  BY <1>1, <1>2, Zenon DEF HasLatest, Loaded
<1>11. now' \in Nat /\ now <= now'
  BY <1>2, <1>3
<1>12. TypeOK'
  <2>1. log' \in Seq(PolicyEvent \cup ApprovalEvent)
    BY <1>1, <1>2, <1>6, Typed
  <2>2. approvals' \in Seq(ApprovalRow)
    BY <1>1, <1>4, <1>5, Typed
  <2>3. step' \in [Runs -> {"ready", "leased", "waiting", "failed"}]
    BY <1>1, <1>2, Typed, Zenon
  <2> QED BY <1>1, <1>2, <1>11, <2>1, <2>2, <2>3, TypeKept
<1>13. ApprovedIsLogged'
  <2> SUFFICES ASSUME NEW j \in DOMAIN approvals', approvals'[j].state = "approved"
               PROVE  LoggedBefore(Len(log) + 1, approvals[j].run, j)'
    BY Zenon DEF ApprovedIsLogged
  <2>1. CASE j # i
    BY <1>1, <1>4, <1>9, <1>12, <2>1, ApprovedKept
  <2>2. CASE j = i
    <3>1. d = "approved" /\ approvals'[j].run = approvals[i].run
      BY <1>4, <1>5, <2>2, Zenon
    <3>2. Len(log) + 1 \in 1..(Len(log') + 1 - 1)
      BY <1>9
    <3> QED BY <1>7, <1>9, <2>2, <3>1, <3>2 DEF LoggedBefore
  <2> QED BY <2>1, <2>2
<1>14. ASSUME NEW j \in DOMAIN approvals'
       PROVE  AsksAsDecided(approvals[j])' /\ AnsweredRightly(approvals[j])'
  <2>1. CASE j # i
    BY <1>4, <1>9, <1>11, <2>1, RowKept
  <2>2. CASE j = i
    <3>1. PICK old, row : old = approvals[i] /\ row = new
      OBVIOUS
    <3>2. old \in ApprovalRow /\ AsksAsDecided(old)
      BY <1>3, <3>1 DEF GovernanceInv
    <3>3. Asked(old)' = Asked(old) /\ AsksAsDecided(old)'
      BY <1>1, <1>9, <1>11, <3>2, OldRow
    <3>4. Asked(row)' = Asked(old)
      BY <1>5, <3>1, <3>3, Zenon DEF Asked, load_policy_refs
    <3>5. AsksAsDecided(row)'
      BY <1>5, <3>1, <3>3, <3>4, Zenon DEF AsksAsDecided
    <3>6. /\ row.original_approver = Asked(old).approver /\ row.sla = Asked(old).sla
          /\ row.escalate_to = Asked(old).escalate_to
          /\ \/ row.approver = Asked(old).approver
             \/ /\ row.approver = resolve_escalation(Directory, row.escalate_to, row.original_approver)
                /\ row.requested_at + row.sla <= now
      BY <1>5, <3>1, <3>2, Zenon DEF AsksAsDecided
    <3>7. row.actor = x /\ row.decided_at = now
      BY <1>5, <3>1, Zenon
    <3>8. accepts(row.approver, x) \/ accepts(row.original_approver, x)
      BY <1>2, <1>5, <3>1, Zenon DEF Accepted
    <3>9. row.requested_at + row.sla \in Nat
      <4>1. row.requested_at \in Nat /\ row.sla \in Nat
        BY <1>5, <3>1, RowFigures, Zenon
      <4> QED BY <4>1
    <3>10. \/ accepts(Asked(old).approver, x)
           \/ /\ now >= row.requested_at + Asked(old).sla
              /\ accepts(resolve_escalation(Directory, Asked(old).escalate_to, Asked(old).approver), x)
      <4>1. CASE accepts(row.original_approver, x)
        BY <3>6, <4>1, Zenon
      <4>2. CASE accepts(row.approver, x)
        <5>1. row.requested_at + row.sla <= now => now >= row.requested_at + row.sla
          BY <1>3, <3>9
        <5> QED BY <3>6, <4>2, <5>1, Zenon
      <4> QED BY <3>8, <4>1, <4>2, Zenon
    <3>11. AnsweredRightly(row)'
      BY <3>4, <3>7, <3>10, Zenon DEF AnsweredRightly
    <3>12. approvals'[j] = row
      BY <1>4, <2>2, <3>1
    <3> QED BY <3>5, <3>11, <3>12, Zenon DEF AsksAsDecided, AnsweredRightly, Asked, load_policy_refs
  <2> QED BY <2>1, <2>2
<1> QED BY <1>8, <1>10, <1>12, <1>13, <1>14 DEF GovernanceInv

\* Steps that leave the registry alone too.
LEMMA CalmStep ==
    ASSUME GovernanceInv, registry' = registry, log' = log, approvals' = approvals,
           now' \in Nat, now <= now',
           step' \in [Runs -> {"ready", "leased", "waiting", "failed"}]
    PROVE  GovernanceInv'
<1>1. TypeOK /\ HasLatest
  BY DEF GovernanceInv
<1>2. TypeOK'
  <2>1. log' \in Seq(PolicyEvent \cup ApprovalEvent) /\ approvals' \in Seq(ApprovalRow)
    BY <1>1, Typed
  <2> QED BY <1>1, <2>1, TypeKept
<1>3. HasLatest'
  BY <1>1 DEF HasLatest, Loaded
<1>4. Grows
  <2>1. Len(log) \in Nat
    BY <1>1, Typed
  <2> QED BY <2>1 DEF Grows, Loaded
<1> QED BY <1>2, <1>3, <1>4, QuietStep

\* A row that the sweeper touches: its first expiry escalates, its second parks the run.
LEMMA SweptRow ==
    ASSUME GovernanceInv, Grows, now' = now, NEW i \in DOMAIN approvals, Overdue(approvals[i]),
           NEW row, row = IF approvals[i].escalations = 0 THEN Escalated(approvals[i])
                          ELSE [approvals[i] EXCEPT !.parked_human = TRUE]
    PROVE  /\ row \in ApprovalRow /\ row.state = "pending" /\ row.run = approvals[i].run
           /\ AsksAsDecided(row)' /\ AnsweredRightly(row)'
<1>1. TypeOK /\ RefsLoaded
  BY Zenon DEF GovernanceInv
<1>2. PICK old : old = approvals[i]
  OBVIOUS
<1>3. /\ old \in ApprovalRow /\ AsksAsDecided(old) /\ old.state = "pending"
      /\ old.due <= now /\ now \in Nat
  BY <1>1, <1>2, RowTypes, Typed DEF GovernanceInv, Overdue
<1>4. /\ old.sla \in Nat /\ old.requested_at \in Nat /\ old.escalations \in {0, 1}
      /\ old.approver \in Resolved /\ old.escalate_to \in Resolved \cup {ReportingLine}
  BY <1>3, RowFigures, Zenon
<1>5. Asked(old)' = Asked(old) /\ AsksAsDecided(old)'
  <2>1. now <= now' /\ now' \in Nat
    BY <1>3
  <2> QED BY <1>1, <1>3, <2>1, OldRow
<1>6. CASE old.escalations = 0
  <2> DEFINE approver == resolve_escalation(Directory, old.escalate_to, old.approver)
             due == now + old.sla
  <2>1. approver \in Resolved /\ due \in Nat
    BY <1>3, <1>4, EscalationResolves
  <2>2. row = EscalatedRow(old, approver, due)
    BY <1>2, <1>6 DEF Escalated, EscalatedRow
  <2> HIDE DEF approver, due
  <2>3. /\ row \in ApprovalRow /\ row.state = old.state /\ row.run = old.run
        /\ row.action = old.action /\ row.decided = old.decided
        /\ row.original_approver = old.original_approver /\ row.sla = old.sla
        /\ row.escalate_to = old.escalate_to /\ row.requested_at = old.requested_at
        /\ row.escalations = 1 /\ row.approver = approver
    <3>1. PICK o, p, t, new : o = old /\ p = approver /\ t = due /\ new = row
      OBVIOUS
    <3>2. o \in ApprovalRow /\ p \in Resolved /\ t \in Nat /\ new = EscalatedRow(o, p, t)
      BY <1>3, <2>1, <2>2, <3>1, Zenon
    <3>3. /\ new \in ApprovalRow /\ new.state = o.state /\ new.run = o.run
          /\ new.action = o.action /\ new.decided = o.decided
          /\ new.original_approver = o.original_approver /\ new.sla = o.sla
          /\ new.escalate_to = o.escalate_to /\ new.requested_at = o.requested_at
          /\ new.escalations = 1 /\ new.approver = p
      BY <3>2, RowEscalated
    <3> QED BY <3>1, <3>3, Zenon
  <2>4. old.approver = old.original_approver /\ old.due = old.requested_at + old.sla
    BY <1>3, <1>6, Zenon DEF AsksAsDecided
  <2>5. Asked(row)' = Asked(old)'
    <3>1. row.decided = old.decided /\ row.action = old.action
      BY <2>3, Zenon
    <3>2. log'[row.decided].refs = log'[old.decided].refs
      BY <3>1
    <3>3. load_policy_refs(log[row.decided].refs)' = load_policy_refs(log[old.decided].refs)'
      BY <3>2 DEF load_policy_refs
    <3> QED BY <3>1, <3>3 DEF Asked
  <2>6. /\ row.approver = resolve_escalation(Directory, row.escalate_to, row.original_approver)
        /\ row.requested_at + row.sla <= now'
    BY <1>3, <2>3, <2>4, Zenon DEF approver
  <2>7. AsksAsDecided(row)'
    BY <1>5, <2>3, <2>5, <2>6 DEF AsksAsDecided
  <2> QED BY <1>2, <1>3, <2>3, <2>7 DEF AnsweredRightly
<1>7. CASE old.escalations # 0
  <2>1. row = [old EXCEPT !.parked_human = TRUE]
    BY <1>2, <1>7
  <2>2. /\ row \in ApprovalRow /\ row.state = old.state /\ row.run = old.run
        /\ row.action = old.action /\ row.decided = old.decided
        /\ row.original_approver = old.original_approver /\ row.sla = old.sla
        /\ row.escalate_to = old.escalate_to /\ row.requested_at = old.requested_at
        /\ row.escalations = old.escalations /\ row.approver = old.approver /\ row.due = old.due
    BY <1>3, <2>1, RowParked, Zenon
  <2>3. Asked(row)' = Asked(old)'
    <3>1. row.decided = old.decided /\ row.action = old.action
      BY <2>2
    <3>2. log'[row.decided].refs = log'[old.decided].refs
      BY <3>1, Zenon
    <3>3. load_policy_refs(log[row.decided].refs)' = load_policy_refs(log[old.decided].refs)'
      BY <3>2 DEF load_policy_refs
    <3> QED BY <3>1, <3>3 DEF Asked
  <2>4. AsksAsDecided(row)'
    BY <1>5, <2>2, <2>3 DEF AsksAsDecided
  <2> QED BY <1>2, <1>3, <2>2, <2>4 DEF AnsweredRightly
<1> QED BY <1>6, <1>7

\* The sweeper escalates only what was not answered in time (sweep_approvals).
LEMMA SweepPreserves ==
    ASSUME GovernanceInv, sweep_approvals
    PROVE  GovernanceInv'
<1>1. TypeOK /\ HasLatest /\ RefsLoaded /\ Reproduced /\ ApprovedIsLogged
  BY Zenon DEF GovernanceInv
<1>2. now' = now /\ registry' = registry /\ step' = step /\ log' = log
  BY Zenon DEF sweep_approvals
<1> DEFINE Swept(i) == IF approvals[i].escalations = 0 THEN Escalated(approvals[i])
                       ELSE [approvals[i] EXCEPT !.parked_human = TRUE]
<1>3. /\ DOMAIN approvals' = DOMAIN approvals
      /\ \A i \in DOMAIN approvals :
            approvals'[i] = IF ~Overdue(approvals[i]) THEN approvals[i] ELSE Swept(i)
      /\ approvals' = [i \in DOMAIN approvals |-> approvals'[i]]
  BY DEF sweep_approvals
<1>4. Grows
  <2>1. Len(log) \in Nat
    BY <1>1, Typed
  <2> QED BY <1>2, <2>1 DEF Grows, Loaded
<1>5. now' \in Nat /\ now <= now'
  BY <1>1, <1>2, Typed, Zenon
<1> HIDE DEF Swept
<1>6. ASSUME NEW i \in DOMAIN approvals, Overdue(approvals[i])
      PROVE  /\ approvals'[i] \in ApprovalRow /\ approvals'[i].state = "pending"
             /\ AsksAsDecided(approvals[i])' /\ AnsweredRightly(approvals[i])'
  <2>1. PICK row : row = Swept(i)
    OBVIOUS
  <2>2. /\ row \in ApprovalRow /\ row.state = "pending"
        /\ AsksAsDecided(row)' /\ AnsweredRightly(row)'
    BY <1>2, <1>4, <1>6, <2>1, SweptRow, Zenon DEF Swept
  <2>3. approvals'[i] = row
    BY <1>3, <1>6, <2>1, Zenon
  <2> QED BY <2>2, <2>3, Zenon DEF AsksAsDecided, AnsweredRightly, Asked, load_policy_refs
<1>7. ASSUME NEW i \in DOMAIN approvals, ~Overdue(approvals[i])
      PROVE  /\ approvals'[i] = approvals[i] /\ approvals'[i] \in ApprovalRow
             /\ AsksAsDecided(approvals[i])' /\ AnsweredRightly(approvals[i])'
  <2>1. approvals'[i] = approvals[i] /\ approvals[i] \in ApprovalRow
    BY <1>1, <1>3, <1>7, RowTypes, Zenon
  <2> QED BY <1>4, <1>5, <2>1, RowKept
<1>8. TypeOK'
  <2>1. \A i \in DOMAIN approvals : approvals'[i] \in ApprovalRow
    BY <1>6, <1>7, Zenon
  <2>2. approvals \in Seq(ApprovalRow)
    BY <1>1, Typed
  <2>3. approvals' \in Seq(ApprovalRow)
    BY <1>3, <2>1, <2>2
  <2>4. /\ log' \in Seq(PolicyEvent \cup ApprovalEvent)
        /\ step' \in [Runs -> {"ready", "leased", "waiting", "failed"}]
    BY <1>1, <1>2, Typed, Zenon
  <2> QED BY <1>1, <1>2, <1>5, <2>3, <2>4, TypeKept
<1>9. HasLatest'
  BY <1>1, <1>2 DEF HasLatest, Loaded
<1>10. RefsLoaded' /\ Reproduced'
  <2>1. RefsLoaded'
    BY <1>1, <1>2, <1>4, OldDecisions, Zenon DEF RefsLoaded
  <2>2. Reproduced'
    BY <1>1, <1>2, <1>4, OldDecisions, Zenon DEF Reproduced
  <2> QED BY <2>1, <2>2
<1>11. ApprovedIsLogged'
  <2> SUFFICES ASSUME NEW i \in DOMAIN approvals', approvals'[i].state = "approved"
               PROVE  LoggedBefore(Len(log) + 1, approvals[i].run, i)'
    BY DEF ApprovedIsLogged
  <2>1. i \in DOMAIN approvals /\ ~Overdue(approvals[i])
    BY <1>3, <1>6, Zenon
  <2>2. approvals'[i] = approvals[i]
    BY <1>7, <2>1
  <2> QED BY <1>1, <1>4, <1>8, <2>1, <2>2, ApprovedKept
<1> QED BY <1>3, <1>6, <1>7, <1>8, <1>9, <1>10, <1>11 DEF GovernanceInv

\* Every operation of the kernel keeps the invariant.
LEMMA GovernanceNext ==
    ASSUME GovernanceInv, [Next]_vars
    PROVE  GovernanceInv'
<1>1. TypeOK
  BY DEF GovernanceInv
<1>2. ASSUME NEW n \in Names, NEW v \in Versions[n], NEW s \in Sources, apply_policy(n, v, s)
      PROVE  GovernanceInv'
  BY <1>2, ApplyPreserves, Zenon
<1>3. ASSUME NEW r \in Runs, NEW a \in Actions, propose_action(r, a) PROVE GovernanceInv'
  BY <1>3, AllowedAgainPreserves, DecidedPreserves
<1>4. ASSUME NEW r \in Runs, lease(r) \/ expire_lease(r) PROVE GovernanceInv'
  <2>1. /\ registry' = registry /\ log' = log /\ approvals' = approvals /\ now' = now
        /\ step' \in [Runs -> {"ready", "leased", "waiting", "failed"}]
    BY <1>1, <1>4, Typed DEF lease, expire_lease
  <2>2. now' \in Nat /\ now <= now'
    BY <1>1, <2>1, Typed, Zenon
  <2> QED BY <2>1, <2>2, CalmStep
<1>5. ASSUME NEW i \in DOMAIN approvals, NEW d \in {"approved", "rejected"}, NEW x \in Actors,
             decide_approval(i, d, x)
      PROVE  GovernanceInv'
  BY <1>5, AnswerPreserves
<1>6. CASE sweep_approvals
  BY <1>6, SweepPreserves, Zenon
<1>7. CASE Tick
  <2>1. now \in Nat /\ step \in [Runs -> {"ready", "leased", "waiting", "failed"}]
    BY <1>1, Typed, Zenon
  <2>2. now' \in Nat /\ now <= now'
    BY <1>7, <2>1 DEF Tick
  <2> QED BY <1>7, <2>1, <2>2, CalmStep DEF Tick
<1>8. CASE UNCHANGED vars
  <2>1. now' \in Nat /\ now <= now' /\ step' \in [Runs -> {"ready", "leased", "waiting", "failed"}]
    BY <1>1, <1>8, Typed, Zenon DEF vars
  <2> QED BY <1>8, <2>1, CalmStep DEF vars
<1> QED BY <1>2, <1>3, <1>4, <1>5, <1>6, <1>7, <1>8 DEF Next

----------------------------------------------------------------------------
(* The properties.                                                         *)

\* The invariant holds in every behaviour of the registry, the approvals and the sweeper.
THEOREM GovernanceInvHolds == Spec => []GovernanceInv
<1>1. Init => GovernanceInv
  BY GovernanceInit, Zenon
<1>2. GovernanceInv /\ [Next]_vars => GovernanceInv'
  BY GovernanceNext
<1> QED BY <1>1, <1>2, PTL DEF Spec

\* No step takes back a version of a policy or rewrites the log: apply_policy refuses a
\* version that exists, and events are only appended.
THEOREM HistoryGrows == Spec => [][Grows]_vars
<1>1. ASSUME TypeOK, Next PROVE Grows
  <2>1. Len(log) \in Nat
    BY <1>1, Typed, Zenon
  <2>2. ASSUME registry' = registry, log' = log PROVE Grows
    BY <2>1, <2>2 DEF Grows, Loaded
  <2>3. ASSUME NEW n \in Names, NEW v \in Versions[n], NEW s \in Sources, apply_policy(n, v, s)
        PROVE  Grows
    <3>1. /\ registry' = [registry EXCEPT ![n][v] = s] /\ registry[n][v] = Unset /\ log' = log
      BY <2>3, Zenon DEF apply_policy
    <3>2. /\ \A m \in Names : m # n => registry'[m] = registry[m]
          /\ \A w \in Versions[n] : w # v => registry'[n][w] = registry[n][w]
      BY <1>1, <3>1 DEF TypeOK
    <3>3. \A m \in Names : \A w \in Loaded(m) :
             w \in Loaded(m)' /\ registry'[m][w] = registry[m][w]
      BY <3>1, <3>2, Zenon DEF Loaded
    <3> QED BY <2>1, <3>1, <3>3 DEF Grows
  <2>4. ASSUME NEW r \in Runs, NEW a \in Actions, propose_action(r, a) PROVE Grows
    <3>1. registry' = registry /\ \E e : log' = Append(log, e)
      BY <2>4, Zenon DEF propose_action
    <3> QED BY <1>1, <3>1, LogGrows
  <2>5. ASSUME NEW i \in DOMAIN approvals, NEW d \in {"approved", "rejected"}, NEW x \in Actors,
               decide_approval(i, d, x)
        PROVE  Grows
    <3>1. registry' = registry /\ \E e : log' = Append(log, e)
      BY <2>5, Zenon DEF decide_approval
    <3> QED BY <1>1, <3>1, LogGrows
  <2>6. ASSUME NEW r \in Runs, lease(r) \/ expire_lease(r) PROVE Grows
    BY <2>2, <2>6 DEF lease, expire_lease
  <2>7. CASE sweep_approvals
    BY <2>2, <2>7, Zenon DEF sweep_approvals
  <2>8. CASE Tick
    BY <2>2, <2>8 DEF Tick
  <2> QED BY <1>1, <2>3, <2>4, <2>5, <2>6, <2>7, <2>8 DEF Next
<1>2. GovernanceInv /\ [Next]_vars => [Grows]_vars
  BY <1>1, Zenon DEF GovernanceInv
<1> QED BY <1>2, GovernanceInvHolds, PTL DEF Spec

\* Every approval is decided by whom the recorded versions name, or after an SLA by whom
\* the escalation leads to (decide_approval, sweep_approvals).
THEOREM RightApproverHolds == Spec => []RightApprover
<1>1. GovernanceInv => RightApprover
  BY Zenon DEF GovernanceInv, AnsweredRightly, Asked, RightApprover
<1> QED BY <1>1, GovernanceInvHolds, PTL

\* Replay reproduces every decision, whatever versions were applied since (replay.rs).
THEOREM ReplayCleanHolds == Spec => []ReplayClean
<1>1. GovernanceInv => ReplayClean
  <2> SUFFICES ASSUME GovernanceInv, NEW r \in Runs, NEW k \in ReplayMismatches(r)
               PROVE  FALSE
    BY Zenon DEF ReplayClean
  <2>1. k \in DOMAIN log /\ log[k].kind = "policy.decided" /\ log[k].run = r
    BY Zenon DEF ReplayMismatches
  <2>2. CASE log[k].approval # 0
    <3>1. log[k].decision = "allow" /\ LoggedBefore(k, r, log[k].approval)
      BY <2>1, <2>2, Zenon DEF GovernanceInv, Reproduced
    <3> QED BY <2>2, <3>1, Zenon DEF ReplayMismatches, LoggedBefore
  <2>3. CASE log[k].approval = 0
    BY <2>1, <2>3, Zenon DEF GovernanceInv, Reproduced, ReplayMismatches
  <2> QED BY <2>2, <2>3
<1> QED BY <1>1, GovernanceInvHolds, PTL

\* Somebody has each role, and each user is somebody.
Staffed ==
    /\ \A v \in Roles : \E x \in Actors : x.role = v
    /\ \A u \in Users : \E x \in Actors : x.id = u

\* Whoever may decide an approval finds it in their list, and where every role and user is
\* somebody there is always someone who may (list_approvals, approver_matches).
THEOREM InboxesHold == Staffed => (Spec => []InboxesAreRight)
<1> SUFFICES ASSUME Staffed PROVE Spec => []InboxesAreRight
  OBVIOUS
<1>1. GovernanceInv => InboxesAreRight
  <2> SUFFICES ASSUME GovernanceInv, NEW i \in DOMAIN approvals
               PROVE  /\ \A x \in Actors :
                           (approvals[i].state = "pending" /\ Accepted(approvals[i], x))
                           <=> i \in list_approvals("role", x.role) \cup list_approvals("user", x.id)
                      /\ \E x \in Actors : Accepted(approvals[i], x)
    BY Zenon DEF InboxesAreRight
  <2>1. approvals[i] \in ApprovalRow
    BY RowTypes, Zenon DEF GovernanceInv
  <2>2. approvals[i].approver \in Resolved /\ approvals[i].original_approver \in Resolved
    BY <2>1, Zenon DEF ApprovalRow
  <2>3. ASSUME NEW p \in Resolved, NEW x \in Actors
        PROVE  accepts(p, x) <=> approver_matches("role", x.role, p) \/ approver_matches("user", x.id, p)
    BY Zenon DEF accepts, approver_matches, Resolved
  <2>4. ASSUME NEW x \in Actors
        PROVE  (approvals[i].state = "pending" /\ Accepted(approvals[i], x))
               <=> i \in list_approvals("role", x.role) \cup list_approvals("user", x.id)
    BY <2>2, <2>3, Zenon DEF Accepted, list_approvals
  <2>5. ASSUME NEW p \in Resolved PROVE \E x \in Actors : accepts(p, x)
    BY Zenon DEF Staffed, accepts, Resolved
  <2>6. \E x \in Actors : Accepted(approvals[i], x)
    BY <2>2, <2>5 DEF Accepted
  <2> QED BY <2>4, <2>6, Zenon
<1> QED BY <1>1, GovernanceInvHolds, PTL

\* The policy test reports every decision that would flip, but for those that a rule decides
\* in one version and the default in the other (corpus.rs).
THEOREM FlipsReported == Spec => []FlipsAreReported
<1>1. GovernanceInv => FlipsAreReported
  <2> SUFFICES ASSUME GovernanceInv PROVE FlipsAreReported
    OBVIOUS
  <2>1. TypeOK /\ HasLatest
    BY Zenon DEF GovernanceInv
  <2>2. ASSUME NEW n \in Names, NEW v \in Loaded(n) PROVE registry[n][v] \in Seq(Rule)
    BY <2>1 DEF TypeOK, Loaded
  <2>3. ASSUME NEW n \in Names, NEW v \in Loaded(n), NEW w \in Loaded(n),
               NEW names \in Seq(Names), NEW c \in Context,
               outcome(Decide(<<registry[n][v]>>, c)) = outcome(Decide(<<registry[n][w]>>, c)),
               ByDefault(registry[n][v], c) <=> ByDefault(registry[n][w], c)
        PROVE  LET set(u) == [i \in DOMAIN names |->
                                IF names[i] = n THEN registry[n][u]
                                ELSE registry[names[i]][latest_policy(names[i])]]
               IN  outcome(Decide(set(v), c)) = outcome(Decide(set(w), c))
    <3> DEFINE at == {i \in DOMAIN names : names[i] = n}
               set(u) == [i \in DOMAIN names |->
                            IF names[i] = n THEN registry[n][u]
                            ELSE registry[names[i]][latest_policy(names[i])]]
    <3>1. ASSUME NEW i \in DOMAIN names PROVE registry[names[i]][latest_policy(names[i])] \in Seq(Rule)
      <4>1. names[i] \in Names
        OBVIOUS
      <4>2. latest_policy(names[i]) \in Loaded(names[i])
        BY <2>1, <4>1 DEF HasLatest, latest_policy
      <4> QED BY <2>2, <4>1, <4>2
    <3>2. registry[n][v] \in Seq(Rule) /\ registry[n][w] \in Seq(Rule)
      BY <2>2, Zenon
    <3>3. ASSUME NEW u, registry[n][u] \in Seq(Rule) PROVE set(u) \in Seq(Seq(Rule))
      <4> DEFINE D == Seq(Rule)
      <4>1. \A i \in DOMAIN names : registry[names[i]][latest_policy(names[i])] \in D
        BY <3>1, Zenon
      <4>2. registry[n][u] \in D
        BY <3>3
      <4> HIDE DEF D
      <4>3. DOMAIN set(u) = 1..Len(names) /\ Len(names) \in Nat /\ DOMAIN names = 1..Len(names)
        OBVIOUS
      <4>4. ASSUME NEW i \in DOMAIN names PROVE set(u)[i] \in D
        <5>1. set(u)[i] = IF names[i] = n THEN registry[n][u]
                          ELSE registry[names[i]][latest_policy(names[i])]
          BY Zenon
        <5> HIDE DEF set
        <5> QED BY <5>1, <4>1, <4>2, Zenon
      <4>5. set(u) = [i \in 1..Len(names) |-> set(u)[i]]
        BY <4>3, Zenon
      <4> HIDE DEF set
      <4>6. set(u) \in Seq(D)
        BY <4>3, <4>4, <4>5
      <4> QED BY <4>6 DEF D
    <3>4. /\ DOMAIN set(v) = DOMAIN set(w)
          /\ \A p \in DOMAIN set(v) : IF p \in at
                THEN set(v)[p] = registry[n][v] /\ set(w)[p] = registry[n][w]
                ELSE set(v)[p] = set(w)[p]
      BY Zenon
    <3>5. Differ(set(v), set(w), at, registry[n][v], registry[n][w])
      BY <3>2, <3>3, <3>4, Zenon DEF Differ
    <3> HIDE DEF set, at
    <3>6. outcome(Decide(set(v), c)) = outcome(Decide(set(w), c))
      <4>1. PICK x, y, s, o : x = set(v) /\ y = set(w) /\ s = registry[n][v] /\ o = registry[n][w]
        BY Zenon
      <4>2. /\ Differ(x, y, at, s, o)
            /\ outcome(Decide(<<s>>, c)) = outcome(Decide(<<o>>, c))
            /\ ByDefault(s, c) <=> ByDefault(o, c)
        BY <2>3, <3>5, <4>1, Zenon
      <4>3. outcome(Decide(x, c)) = outcome(Decide(y, c))
        BY <4>2, AlikeAloneAlikeTogether
      <4> QED BY <4>1, <4>3
    <3> QED BY <3>6, Zenon DEF set
  <2>4. ASSUME NEW k \in DOMAIN log, log[k].kind = "policy.decided"
        PROVE  /\ log[k].action \in Context /\ PolicySet[log[k].run] \in Seq(Names)
               /\ log[k].action \in export_actions
    <3>1. log[k] \in PolicyEvent
      BY <2>1, <2>4, EventTypes, Zenon
    <3>2. log[k].action \in Actions /\ log[k].run \in Runs
      BY <3>1, Zenon DEF PolicyEvent
    <3> QED BY <2>4, <3>2, GovernanceAssumption, Zenon DEF export_actions
  <2> SUFFICES ASSUME NEW n \in Names, NEW v \in Loaded(n), NEW w \in Loaded(n),
                      NEW k \in DOMAIN log, log[k].kind = "policy.decided"
               PROVE  LET set(u) == [i \in DOMAIN PolicySet[log[k].run] |->
                                       LET m == PolicySet[log[k].run][i]
                                       IN  IF m = n THEN registry[n][u] ELSE registry[m][latest_policy(m)]]
                          flips == outcome(Decide(set(v), log[k].action))
                                     # outcome(Decide(set(w), log[k].action))
                      IN  flips =>
                            \/ log[k].action \in test_corpus(<<registry[n][v]>>, <<registry[n][w]>>,
                                                             export_actions)
                            \/ ByDefault(registry[n][v], log[k].action)
                                 # ByDefault(registry[n][w], log[k].action)
    BY Zenon DEF FlipsAreReported
  <2>5. CASE log[k].action \in test_corpus(<<registry[n][v]>>, <<registry[n][w]>>, export_actions)
    BY <2>5, Zenon
  <2>6. CASE ByDefault(registry[n][v], log[k].action) # ByDefault(registry[n][w], log[k].action)
    BY <2>6, Zenon
  <2>7. CASE /\ log[k].action \notin test_corpus(<<registry[n][v]>>, <<registry[n][w]>>, export_actions)
             /\ ByDefault(registry[n][v], log[k].action) = ByDefault(registry[n][w], log[k].action)
    <3>1. PICK c, names : c = log[k].action /\ names = PolicySet[log[k].run]
      OBVIOUS
    <3>2. c \in Context /\ names \in Seq(Names) /\ c \in export_actions
      BY <2>4, <3>1, Zenon
    <3>3. outcome(Decide(<<registry[n][v]>>, c)) = outcome(Decide(<<registry[n][w]>>, c))
      BY <2>7, <3>1, <3>2, Zenon DEF test_corpus
    <3>4. ByDefault(registry[n][v], c) <=> ByDefault(registry[n][w], c)
      BY <2>7, <3>1, Zenon
    <3>5. LET set(u) == [i \in DOMAIN names |->
                           IF names[i] = n THEN registry[n][u]
                           ELSE registry[names[i]][latest_policy(names[i])]]
          IN  outcome(Decide(set(v), c)) = outcome(Decide(set(w), c))
      BY <2>3, <3>2, <3>3, <3>4, Zenon
    <3> QED BY <3>1, <3>5, Zenon
  <2> QED BY <2>5, <2>6, <2>7, Zenon
<1> QED BY <1>1, GovernanceInvHolds, PTL

----------------------------------------------------------------------------
(* Globs.                                                                  *)

\* How symbol k of a pattern goes from a place in a text of m elements to a
\* later one: `wild` are the wildcards, `fits` which symbol matches which element.
Goes(wild, fits, k, from, to) ==
    IF k \in wild THEN from <= to ELSE to = from + 1 /\ <<k, to>> \in fits

\* The recursion of segment_match and of match_segments: the places from which
\* the last n of N symbols reach the end.
Reaching(m, wild, fits, k, after) == {at \in 0..m : \E to \in 0..m : to \in after /\ Goes(wild, fits, k, at, to)}
IsRests(g, N, m, wild, fits) ==
    g = [n \in 0..N |-> IF n = 0 THEN {m} ELSE Reaching(m, wild, fits, N + 1 - n, g[n - 1])]

\* The recursion is well defined: each call is on a shorter pattern.
LEMMA RestsExist ==
    ASSUME NEW N \in Nat, NEW m, NEW wild, NEW fits
    PROVE  \E g : IsRests(g, N, m, wild, fits)
<1> DEFINE F(n, S) == Reaching(m, wild, fits, N + 1 - n, S)
           Upto(g, n) == g = [k \in 0..n |-> IF k = 0 THEN {m} ELSE F(k, g[k - 1])]
           Missing == {n \in Nat : ~\E g : Upto(g, n)}
<1> HIDE DEF F
<1>1. Missing = {}
  <2> SUFFICES ASSUME Missing # {} PROVE FALSE
    BY Zenon
  <2>1. Missing \in SUBSET Nat
    BY Zenon
  <2>2. PICK n \in Missing : \A k \in Missing : n <= k
    BY <2>1, LeastNatural, Zenon
  <2>3. n \in Nat /\ ~\E g : Upto(g, n)
    BY <2>2, Zenon
  <2>4. n # 0
    <3> DEFINE none == [k \in 0..0 |-> {m}]
    <3>1. none = [k \in 0..0 |-> IF k = 0 THEN {m} ELSE F(k, none[k - 1])]
      OBVIOUS
    <3> HIDE DEF none
    <3>2. Upto(none, 0)
      BY <3>1, Zenon
    <3> QED BY <2>3, <3>2, Zenon
  <2>5. n - 1 \in Nat /\ ~(n <= n - 1)
    BY <2>3, <2>4
  <2>6. n - 1 \notin Missing
    <3> HIDE DEF Missing
    <3> QED BY <2>2, <2>5, Zenon
  <2>7. PICK g : Upto(g, n - 1)
    BY <2>5, <2>6, Zenon
  <2> DEFINE h == [k \in 0..n |-> IF k = 0 THEN {m} ELSE F(k, g[k - 1])]
  <2>8. \A k \in 0..(n - 1) : h[k] = g[k]
    <3> SUFFICES ASSUME NEW k \in 0..(n - 1) PROVE h[k] = g[k]
      BY Zenon
    <3>1. k \in 0..n
      BY <2>3
    <3>2. h[k] = IF k = 0 THEN {m} ELSE F(k, g[k - 1])
      BY <3>1, Zenon
    <3>3. g[k] = IF k = 0 THEN {m} ELSE F(k, g[k - 1])
      <4> DEFINE w == [j \in 0..(n - 1) |-> IF j = 0 THEN {m} ELSE F(j, g[j - 1])]
      <4>1. g = w
        BY <2>7, Zenon
      <4>2. w[k] = IF k = 0 THEN {m} ELSE F(k, g[k - 1])
        BY Zenon
      <4> HIDE DEF w
      <4> QED BY <4>1, <4>2, Zenon
    <3> QED BY <3>2, <3>3, Zenon
  <2>9. \A k \in 0..n : k # 0 => k - 1 \in 0..(n - 1)
    BY <2>3
  <2>10. Upto(h, n)
    <3>1. h = [k \in 0..n |-> IF k = 0 THEN {m} ELSE F(k, g[k - 1])]
      BY Zenon
    <3> HIDE DEF h
    <3>2. \A k \in 0..n : (IF k = 0 THEN {m} ELSE F(k, g[k - 1])) = (IF k = 0 THEN {m} ELSE F(k, h[k - 1]))
      BY <2>8, <2>9, Zenon
    <3> QED BY <3>1, <3>2, Zenon
  <2> QED BY <2>3, <2>10, Zenon
<1>2. PICK g : Upto(g, N)
  BY <1>1, Zenon
<1> QED BY <1>2, Zenon DEF IsRests, F

\* A way through the last n symbols: where each of them starts, and the end.
Way(cut, N, m, wild, fits, n) ==
    /\ cut \in [(N - n)..N -> 0..m] /\ cut[N] = m
    /\ \A k \in (N - n + 1)..N : Goes(wild, fits, k, cut[k - 1], cut[k])

\* A way through n symbols is one through the last n - 1 and a step before it.
LEMMA WayLonger ==
    ASSUME NEW N \in Nat, NEW m \in Nat, NEW wild, NEW fits, NEW n \in 1..N, NEW at \in 0..m,
           NEW cut, Way(cut, N, m, wild, fits, n - 1), Goes(wild, fits, N + 1 - n, at, cut[N - n + 1])
    PROVE  \E longer : Way(longer, N, m, wild, fits, n) /\ longer[N - n] = at
<1> DEFINE longer == [j \in (N - n)..N |-> IF j = N - n THEN at ELSE cut[j]]
<1>1. /\ N - n \in (N - n)..N /\ N \in (N - n)..N /\ N # N - n
      /\ \A j \in (N - n)..N : j # N - n => j \in (N - (n - 1))..N
  OBVIOUS
<1>2. cut \in [(N - (n - 1))..N -> 0..m] /\ cut[N] = m
  BY Zenon DEF Way
<1>3. longer \in [(N - n)..N -> 0..m]
  <2>1. \A j \in (N - n)..N : (IF j = N - n THEN at ELSE cut[j]) \in 0..m
    BY <1>1, <1>2, Zenon
  <2> QED BY <2>1, Zenon
<1>4. longer[N - n] = at /\ \A j \in (N - n)..N : j # N - n => longer[j] = cut[j]
  BY <1>1, Zenon
<1> HIDE DEF longer
<1>5. longer[N] = m
  BY <1>1, <1>2, <1>4, Zenon
<1>6. ASSUME NEW k \in (N - n + 1)..N
      PROVE  Goes(wild, fits, k, longer[k - 1], longer[k])
  <2>1. CASE k = N - n + 1
    <3>1. /\ k - 1 = N - n /\ k \in (N - n)..N /\ k # N - n /\ k = N + 1 - n
      BY <2>1
    <3>2. longer[k - 1] = at /\ longer[k] = cut[k]
      BY <1>4, <3>1, Zenon
    <3> QED BY <2>1, <3>1, <3>2, Zenon
  <2>2. CASE k # N - n + 1
    <3>1. /\ k \in (N - n)..N /\ k - 1 \in (N - n)..N /\ k # N - n /\ k - 1 # N - n
          /\ k \in (N - (n - 1) + 1)..N
      BY <2>2
    <3>2. longer[k - 1] = cut[k - 1] /\ longer[k] = cut[k]
      BY <1>4, <3>1, Zenon
    <3>3. Goes(wild, fits, k, cut[k - 1], cut[k])
      BY <3>1, Zenon DEF Way
    <3> QED BY <3>2, <3>3, Zenon
  <2> QED BY <2>1, <2>2, Zenon
<1>7. Way(longer, N, m, wild, fits, n)
  BY <1>3, <1>5, <1>6, Zenon DEF Way
<1> QED BY <1>4, <1>7, Zenon

\* Without its first step it is a way through the symbols after it.
LEMMA WayShorter ==
    ASSUME NEW N \in Nat, NEW m \in Nat, NEW wild, NEW fits, NEW n \in 1..N,
           NEW cut, Way(cut, N, m, wild, fits, n)
    PROVE  /\ \E shorter : Way(shorter, N, m, wild, fits, n - 1) /\ shorter[N - n + 1] = cut[N - n + 1]
           /\ cut[N - n] \in 0..m /\ cut[N - n + 1] \in 0..m
           /\ Goes(wild, fits, N + 1 - n, cut[N - n], cut[N - n + 1])
<1> DEFINE shorter == [j \in (N - (n - 1))..N |-> cut[j]]
<1>1. /\ N - n \in (N - n)..N /\ N - n + 1 \in (N - n)..N /\ N - n + 1 \in (N - (n - 1))..N
      /\ N \in (N - (n - 1))..N /\ \A j \in (N - (n - 1))..N : j \in (N - n)..N
      /\ N - n + 1 \in (N - n + 1)..N /\ N - n + 1 = N + 1 - n /\ (N - n + 1) - 1 = N - n
  OBVIOUS
<1>2. cut \in [(N - n)..N -> 0..m] /\ cut[N] = m
  BY Zenon DEF Way
<1>3. cut[N - n] \in 0..m /\ cut[N - n + 1] \in 0..m
  BY <1>1, <1>2, Zenon
<1>4. Goes(wild, fits, N + 1 - n, cut[N - n], cut[N - n + 1])
  <2>1. Goes(wild, fits, N - n + 1, cut[(N - n + 1) - 1], cut[N - n + 1])
    BY <1>1, Zenon DEF Way
  <2> QED BY <1>1, <2>1, Zenon
<1>5. shorter \in [(N - (n - 1))..N -> 0..m]
  BY <1>1, <1>2, Zenon
<1>6. \A j \in (N - (n - 1))..N : shorter[j] = cut[j]
  BY Zenon
<1> HIDE DEF shorter
<1>7. ASSUME NEW k \in (N - (n - 1) + 1)..N
      PROVE  Goes(wild, fits, k, shorter[k - 1], shorter[k])
  <2>1. k \in (N - (n - 1))..N /\ k - 1 \in (N - (n - 1))..N /\ k \in (N - n + 1)..N
    OBVIOUS
  <2>2. Goes(wild, fits, k, cut[k - 1], cut[k])
    BY <2>1, Zenon DEF Way
  <2> QED BY <1>6, <2>1, <2>2, Zenon
<1>8. shorter[N] = m
  BY <1>1, <1>2, <1>6, Zenon
<1>9. Way(shorter, N, m, wild, fits, n - 1)
  BY <1>5, <1>7, <1>8, Zenon DEF Way
<1>10. shorter[N - n + 1] = cut[N - n + 1]
  BY <1>1, <1>6, Zenon
<1> QED BY <1>3, <1>4, <1>9, <1>10, Zenon

\* The places found with n symbols left are those from which there is a way.
Right(g, N, m, wild, fits, n) ==
    \A at \in 0..m : at \in g[n] <=> \E cut : Way(cut, N, m, wild, fits, n) /\ cut[N - n] = at

\* The recursion finds the places from which there is a way to the end.
LEMMA RestsAreWays ==
    ASSUME NEW N \in Nat, NEW m \in Nat, NEW wild, NEW fits, NEW g, IsRests(g, N, m, wild, fits)
    PROVE  Right(g, N, m, wild, fits, N)
<1>1. g[0] = {m} /\ \A n \in 1..N : g[n] = Reaching(m, wild, fits, N + 1 - n, g[n - 1])
  <2> DEFINE w == [n \in 0..N |-> IF n = 0 THEN {m} ELSE Reaching(m, wild, fits, N + 1 - n, g[n - 1])]
  <2>1. g = w
    BY Zenon DEF IsRests
  <2>2. 0 \in 0..N /\ \A n \in 1..N : n \in 0..N /\ n # 0
    OBVIOUS
  <2>3. w[0] = {m} /\ \A n \in 1..N : w[n] = Reaching(m, wild, fits, N + 1 - n, g[n - 1])
    BY <2>2, Zenon
  <2> HIDE DEF w
  <2> QED BY <2>1, <2>3, Zenon
<1>2. Right(g, N, m, wild, fits, 0)
  <2> SUFFICES ASSUME NEW at \in 0..m
      PROVE  at = m <=> \E cut : Way(cut, N, m, wild, fits, 0) /\ cut[N - 0] = at
    BY <1>1, Zenon DEF Right
  <2>1. N - 0 = N /\ N \in (N - 0)..N /\ (N - 0 + 1)..N = {}
    OBVIOUS
  <2> DEFINE end == [j \in (N - 0)..N |-> m]
  <2>2. end \in [(N - 0)..N -> 0..m] /\ end[N] = m
    <3>1. m \in 0..m
      OBVIOUS
    <3> QED BY <2>1, <3>1, Zenon
  <2> HIDE DEF end
  <2>3. Way(end, N, m, wild, fits, 0)
    BY <2>1, <2>2, Zenon DEF Way
  <2>4. at = m => \E cut : Way(cut, N, m, wild, fits, 0) /\ cut[N - 0] = at
    BY <2>1, <2>2, <2>3, Zenon
  <2>5. ASSUME NEW cut, Way(cut, N, m, wild, fits, 0), cut[N - 0] = at
        PROVE  at = m
    BY <2>1, <2>5, Zenon DEF Way
  <2> QED BY <2>4, <2>5, Zenon
<1>3. ASSUME NEW n \in 1..N, Right(g, N, m, wild, fits, n - 1)
      PROVE  Right(g, N, m, wild, fits, n)
  <2>0. N - (n - 1) = N - n + 1
    OBVIOUS
  <2>1. \A to \in 0..m : to \in g[n - 1] <=> \E cut : Way(cut, N, m, wild, fits, n - 1) /\ cut[N - n + 1] = to
    BY <1>3, <2>0, Zenon DEF Right
  <2>2. g[n] = {at \in 0..m : \E to \in 0..m : to \in g[n - 1] /\ Goes(wild, fits, N + 1 - n, at, to)}
    BY <1>1, Zenon DEF Reaching
  <2> SUFFICES ASSUME NEW at \in 0..m
      PROVE  at \in g[n] <=> \E cut : Way(cut, N, m, wild, fits, n) /\ cut[N - n] = at
    BY Zenon DEF Right
  <2>3. ASSUME at \in g[n] PROVE \E cut : Way(cut, N, m, wild, fits, n) /\ cut[N - n] = at
    <3>1. PICK to \in 0..m : to \in g[n - 1] /\ Goes(wild, fits, N + 1 - n, at, to)
      BY <2>2, <2>3, Zenon
    <3>2. PICK cut : Way(cut, N, m, wild, fits, n - 1) /\ cut[N - n + 1] = to
      BY <2>1, <3>1, Zenon
    <3>3. Goes(wild, fits, N + 1 - n, at, cut[N - n + 1])
      BY <3>1, <3>2, Zenon
    <3> QED BY <3>2, <3>3, WayLonger
  <2>4. ASSUME NEW cut, Way(cut, N, m, wild, fits, n), cut[N - n] = at
        PROVE  at \in g[n]
    <3>1. /\ \E shorter : Way(shorter, N, m, wild, fits, n - 1) /\ shorter[N - n + 1] = cut[N - n + 1]
          /\ cut[N - n] \in 0..m /\ cut[N - n + 1] \in 0..m
          /\ Goes(wild, fits, N + 1 - n, cut[N - n], cut[N - n + 1])
      BY <2>4, WayShorter
    <3>2. cut[N - n + 1] \in g[n - 1]
      BY <2>1, <3>1, Zenon
    <3> QED BY <2>2, <2>4, <3>1, <3>2, Zenon
  <2> QED BY <2>3, <2>4, Zenon
<1> DEFINE Wrong == {n \in 0..N : ~Right(g, N, m, wild, fits, n)}
<1>4. Wrong = {}
  <2> SUFFICES ASSUME Wrong # {} PROVE FALSE
    BY Zenon
  <2>1. Wrong \in SUBSET Nat
    OBVIOUS
  <2>2. PICK n \in Wrong : \A k \in Wrong : n <= k
    BY <2>1, LeastNatural, Zenon
  <2>3. n \in 0..N /\ ~Right(g, N, m, wild, fits, n)
    BY <2>2, Zenon
  <2>4. n \in 1..N /\ n - 1 \in 0..N /\ ~(n <= n - 1)
    <3>1. n # 0
      BY <1>2, <2>3, Zenon
    <3> QED BY <2>3, <3>1
  <2>5. n - 1 \notin Wrong
    <3> HIDE DEF Wrong
    <3> QED BY <2>2, <2>4, Zenon
  <2>6. Right(g, N, m, wild, fits, n - 1)
    BY <2>4, <2>5, Zenon
  <2> QED BY <1>3, <2>3, <2>4, <2>6, Zenon
<1>5. N \in 0..N
  OBVIOUS
<1> QED BY <1>4, <1>5, Zenon

\* The two branches of the recursion, as glob.rs has them.
Skipping(m, S) == {gone \in 0..m : \E skip \in 0..(m - gone) : gone + skip \in S}
Taking(m, S, T) == {gone \in 0..(m - 1) : gone + 1 \in S /\ gone + 1 \in T}

\* Skipping any number of elements reaches the places after this one.
LEMMA SkipsAreSteps ==
    ASSUME NEW m \in Nat, NEW wild, NEW fits, NEW k, k \in wild, NEW S
    PROVE  Skipping(m, S) = Reaching(m, wild, fits, k, S)
<1>1. \A gone \in 0..m : (\E skip \in 0..(m - gone) : gone + skip \in S) <=> \E to \in 0..m : to \in S /\ gone <= to
  <2> SUFFICES ASSUME NEW gone \in 0..m
      PROVE  (\E skip \in 0..(m - gone) : gone + skip \in S) <=> \E to \in 0..m : to \in S /\ gone <= to
    BY Zenon
  <2>1. ASSUME NEW skip \in 0..(m - gone), gone + skip \in S
        PROVE  \E to \in 0..m : to \in S /\ gone <= to
    <3>1. gone + skip \in 0..m /\ gone <= gone + skip
      OBVIOUS
    <3> QED BY <2>1, <3>1, Zenon
  <2>2. ASSUME NEW to \in 0..m, to \in S, gone <= to
        PROVE  \E skip \in 0..(m - gone) : gone + skip \in S
    <3>1. to - gone \in 0..(m - gone) /\ gone + (to - gone) = to
      BY <2>2
    <3>2. gone + (to - gone) \in S
      BY <2>2, <3>1, Zenon
    <3> QED BY <3>1, <3>2, Zenon
  <2> QED BY <2>1, <2>2, Zenon
<1>2. \A at, to : Goes(wild, fits, k, at, to) <=> at <= to
  BY Zenon DEF Goes
<1> QED BY <1>1, <1>2, Zenon DEF Reaching, Skipping

\* Matching one element goes on behind it.
LEMMA OneIsAStep ==
    ASSUME NEW m \in Nat, NEW wild, NEW fits, NEW k, k \notin wild, NEW S, NEW T,
           \A to \in 1..m : to \in T <=> <<k, to>> \in fits
    PROVE  Taking(m, S, T) = Reaching(m, wild, fits, k, S)
<1>1. \A at, to : Goes(wild, fits, k, at, to) <=> to = at + 1 /\ <<k, to>> \in fits
  BY Zenon DEF Goes
<1>2. ASSUME NEW gone \in 0..(m - 1), gone + 1 \in S, gone + 1 \in T
      PROVE  gone \in Reaching(m, wild, fits, k, S)
  <2>1. gone \in 0..m /\ gone + 1 \in 0..m /\ gone + 1 \in 1..m
    OBVIOUS
  <2>2. Goes(wild, fits, k, gone, gone + 1)
    BY <1>1, <1>2, <2>1, Zenon
  <2> QED BY <1>2, <2>1, <2>2, Zenon DEF Reaching
<1>3. ASSUME NEW at \in Reaching(m, wild, fits, k, S)
      PROVE  at \in 0..(m - 1) /\ at + 1 \in S /\ at + 1 \in T
  <2>1. PICK to \in 0..m : at \in 0..m /\ to \in S /\ Goes(wild, fits, k, at, to)
    BY Zenon DEF Reaching
  <2>2. to = at + 1 /\ <<k, to>> \in fits
    BY <1>1, <2>1, Zenon
  <2>3. at \in 0..(m - 1) /\ to \in 1..m
    BY <2>1, <2>2
  <2> QED BY <2>1, <2>2, <2>3, Zenon
<1> QED BY <1>2, <1>3, Zenon DEF Taking

\* What a segment pattern and a segment are to the recursion.
Stars(pattern) == {k \in 1..Len(pattern) : pattern[k] = 0}
Equals(pattern, text) == {p \in (1..Len(pattern)) \X (1..Len(text)) : pattern[p[1]] = text[p[2]]}

\* segment_match is that recursion.
LEMMA SegmentRests ==
    ASSUME NEW pattern \in Seq(Nat), NEW text \in Seq(Nat)
    PROVE  \E g : /\ IsRests(g, Len(pattern), Len(text), Stars(pattern), Equals(pattern, text))
                  /\ segment_match(pattern, text) <=> 0 \in g[Len(pattern)]
<1> DEFINE N == Len(pattern)
           m == Len(text)
           Step(n, S) == LET byte == pattern[Len(pattern) + 1 - n]
                             after == S
                         IN  IF byte = 0
                             THEN {gone \in 0..Len(text) : \E skip \in 0..(Len(text) - gone) : gone + skip \in after}
                             ELSE {gone \in 0..(Len(text) - 1) : text[gone + 1] = byte /\ gone + 1 \in after}
           Code(g) == g = [n \in 0..Len(pattern) |-> IF n = 0 THEN {Len(text)} ELSE Step(n, g[n - 1])]
           f == CHOOSE g : Code(g)
<1>1. segment_match(pattern, text) <=> 0 \in f[N]
  BY Zenon DEF segment_match
<1>2. N \in Nat /\ m \in Nat
  OBVIOUS
<1>3. ASSUME NEW n \in 1..N, NEW S
      PROVE  Step(n, S) = Reaching(m, Stars(pattern), Equals(pattern, text), N + 1 - n, S)
  <2> DEFINE k == N + 1 - n
  <2>1. k \in 1..N
    BY <1>2
  <2>2. CASE pattern[k] = 0
    <3>1. k \in Stars(pattern)
      BY <2>1, <2>2, Zenon DEF Stars
    <3>2. Step(n, S) = Skipping(m, S)
      BY <2>2, Zenon DEF Skipping
    <3> HIDE DEF Step, k, m, N
    <3>3. Skipping(m, S) = Reaching(m, Stars(pattern), Equals(pattern, text), k, S)
      BY <1>2, <3>1, SkipsAreSteps
    <3> QED BY <3>2, <3>3, Zenon DEF k
  <2>3. CASE pattern[k] # 0
    <3> DEFINE T == {to \in 1..m : text[to] = pattern[k]}
    <3>1. k \notin Stars(pattern)
      BY <2>3, Zenon DEF Stars
    <3>2. Step(n, S) = {gone \in 0..(m - 1) : text[gone + 1] = pattern[k] /\ gone + 1 \in S}
      BY <2>3, Zenon
    <3>3. \A gone \in 0..(m - 1) : gone + 1 \in 1..m
      BY <1>2
    <3>4. Step(n, S) = Taking(m, S, T)
      <4> HIDE DEF Step, k, m, N
      <4> QED BY <3>2, <3>3, Zenon DEF Taking
    <3>5. \A to \in 1..m : to \in T <=> <<k, to>> \in Equals(pattern, text)
      <4> HIDE DEF k
      <4> QED BY <2>1 DEF Equals
    <3> HIDE DEF Step, k, m, N, T
    <3>6. Taking(m, S, T) = Reaching(m, Stars(pattern), Equals(pattern, text), k, S)
      BY <1>2, <3>1, <3>5, OneIsAStep
    <3> QED BY <3>4, <3>6, Zenon DEF k
  <2> QED BY <2>2, <2>3, Zenon
<1> HIDE DEF Step
<1>4. ASSUME NEW g
      PROVE  Code(g) <=> IsRests(g, N, m, Stars(pattern), Equals(pattern, text))
  <2>1. \A n \in 0..N : n # 0 => n \in 1..N
    OBVIOUS
  <2>2. \A n \in 0..N : (IF n = 0 THEN {m} ELSE Step(n, g[n - 1]))
            = (IF n = 0 THEN {m} ELSE Reaching(m, Stars(pattern), Equals(pattern, text), N + 1 - n, g[n - 1]))
    BY <1>3, <2>1, Zenon
  <2>3. [n \in 0..N |-> IF n = 0 THEN {m} ELSE Step(n, g[n - 1])]
          = [n \in 0..N |-> IF n = 0 THEN {m}
                            ELSE Reaching(m, Stars(pattern), Equals(pattern, text), N + 1 - n, g[n - 1])]
    BY <2>2, Zenon
  <2> QED BY <2>3, Zenon DEF IsRests
<1>5. \E g : IsRests(g, N, m, Stars(pattern), Equals(pattern, text))
  <2> HIDE DEF N, m
  <2> QED BY <1>2, RestsExist, Zenon
<1>6. Code(f)
  <2>1. \E g : Code(g)
    BY <1>4, <1>5, Zenon
  <2> HIDE DEF Code
  <2> QED BY <2>1, Zenon
<1>7. IsRests(f, N, m, Stars(pattern), Equals(pattern, text))
  <2> HIDE DEF Code, f
  <2> QED BY <1>4, <1>6, Zenon
<1> HIDE DEF f
<1> QED BY <1>1, <1>7, Zenon

\* There is a way through the whole pattern from the start of the text.
Aligned(N, m, wild, fits) == \E cut : Way(cut, N, m, wild, fits, N) /\ cut[0] = 0

\* The recursion asks for a way from the start of the text to its end.
LEMMA RestsAlign ==
    ASSUME NEW N \in Nat, NEW m \in Nat, NEW wild, NEW fits, NEW g, IsRests(g, N, m, wild, fits)
    PROVE  0 \in g[N] <=> Aligned(N, m, wild, fits)
<1>1. Right(g, N, m, wild, fits, N)
  BY RestsAreWays, Zenon
<1>2. N - N = 0 /\ 0 \in 0..m
  OBVIOUS
<1> QED BY <1>1, <1>2, Zenon DEF Right, Aligned

\* The text can be cut, symbol by symbol.
CutExists(N, m, wild, fits) ==
    \E cut \in [0..N -> 0..m] :
        /\ cut[0] = 0 /\ cut[N] = m
        /\ \A k \in 1..N : Goes(wild, fits, k, cut[k - 1], cut[k])

\* A way through a pattern is a cut of the text.
LEMMA WayIsCut ==
    ASSUME NEW N \in Nat, NEW m \in Nat, NEW wild, NEW fits
    PROVE  Aligned(N, m, wild, fits) <=> CutExists(N, m, wild, fits)
<1>1. N - N = 0 /\ N - N + 1 = 1
  OBVIOUS
<1>2. ASSUME NEW cut
      PROVE  Way(cut, N, m, wild, fits, N) <=>
                /\ cut \in [0..N -> 0..m] /\ cut[N] = m
                /\ \A k \in 1..N : Goes(wild, fits, k, cut[k - 1], cut[k])
  <2>1. (N - N)..N = 0..N /\ (N - N + 1)..N = 1..N
    BY <1>1, Zenon
  <2> QED BY <2>1, Zenon DEF Way
<1> QED BY <1>2, Zenon DEF Aligned, CutExists

\* For a segment, a symbol goes where it is the star or the same character.
LEMMA SegmentGoes ==
    ASSUME NEW pattern \in Seq(Nat), NEW text \in Seq(Nat), NEW cut \in [0..Len(pattern) -> 0..Len(text)],
           NEW k \in 1..Len(pattern)
    PROVE  Goes(Stars(pattern), Equals(pattern, text), k, cut[k - 1], cut[k]) <=>
              IF IsStar(pattern[k]) THEN cut[k - 1] <= cut[k]
              ELSE cut[k] = cut[k - 1] + 1 /\ Same(pattern[k], text[cut[k]])
<1>1. k \in Stars(pattern) <=> pattern[k] = 0
  BY Zenon DEF Stars
<1>2. k - 1 \in 0..Len(pattern) /\ k \in 0..Len(pattern)
  OBVIOUS
<1>3. PICK from \in 0..Len(text) : from = cut[k - 1]
  BY <1>2, Zenon
<1>4. PICK to \in 0..Len(text) : to = cut[k]
  BY <1>2, Zenon
<1>5. to = from + 1 => to \in 1..Len(text)
  OBVIOUS
<1>6. to \in 1..Len(text) => (<<k, to>> \in Equals(pattern, text) <=> pattern[k] = text[to])
  BY DEF Equals
<1>7. Goes(Stars(pattern), Equals(pattern, text), k, from, to) <=>
        IF pattern[k] = 0 THEN from <= to ELSE to = from + 1 /\ pattern[k] = text[to]
  BY <1>1, <1>5, <1>6, Zenon DEF Goes
<1> QED BY <1>3, <1>4, <1>7, Zenon DEF IsStar, Same

\* segment_match finds exactly the alignments of a segment.
LEMMA SegmentMatches ==
    ASSUME NEW pattern \in Seq(Nat), NEW text \in Seq(Nat)
    PROVE  segment_match(pattern, text) <=> SegmentAligns(pattern, text)
<1> DEFINE N == Len(pattern)
           m == Len(text)
           wild == Stars(pattern)
           fits == Equals(pattern, text)
<1>1. N \in Nat /\ m \in Nat /\ DOMAIN pattern = 1..N
  OBVIOUS
<1>2. PICK g : IsRests(g, N, m, wild, fits) /\ (segment_match(pattern, text) <=> 0 \in g[N])
  BY SegmentRests, Zenon
<1>3. ASSUME NEW cut \in [0..N -> 0..m]
      PROVE  (\A k \in 1..N : Goes(wild, fits, k, cut[k - 1], cut[k])) <=>
             \A k \in DOMAIN pattern :
                 IF IsStar(pattern[k]) THEN cut[k - 1] <= cut[k]
                 ELSE cut[k] = cut[k - 1] + 1 /\ Same(pattern[k], text[cut[k]])
  <2>1. \A k \in 1..N : Goes(wild, fits, k, cut[k - 1], cut[k]) <=>
              IF IsStar(pattern[k]) THEN cut[k - 1] <= cut[k]
              ELSE cut[k] = cut[k - 1] + 1 /\ Same(pattern[k], text[cut[k]])
    BY SegmentGoes, Zenon
  <2> QED BY <1>1, <2>1, Zenon
<1>4. SegmentAligns(pattern, text) <=> CutExists(N, m, wild, fits)
  BY <1>3, Zenon DEF SegmentAligns, Aligns, CutExists
<1> HIDE DEF N, m, wild, fits
<1>5. 0 \in g[N] <=> Aligned(N, m, wild, fits)
  BY <1>1, <1>2, RestsAlign, Zenon
<1>6. Aligned(N, m, wild, fits) <=> CutExists(N, m, wild, fits)
  BY <1>1, WayIsCut
<1> QED BY <1>2, <1>4, <1>5, <1>6, Zenon

\* What a list of patterns and a list of segments are to the recursion.
DoubleStars(pattern) == {k \in 1..Len(pattern) : pattern[k] = <<0, 0>>}
Covered(pattern, path) ==
    {p \in (1..Len(pattern)) \X (1..Len(path)) : segment_match(pattern[p[1]], path[p[2]])}

\* match_segments is the same recursion over these.
LEMMA PathRests ==
    ASSUME NEW pattern \in Seq(Seq(Nat)), NEW path \in Seq(Seq(Nat))
    PROVE  \E g : /\ IsRests(g, Len(pattern), Len(path), DoubleStars(pattern), Covered(pattern, path))
                  /\ match_segments(pattern, path) <=> 0 \in g[Len(pattern)]
<1> DEFINE N == Len(pattern)
           m == Len(path)
           Step(n, S) == LET first == pattern[Len(pattern) + 1 - n]
                             after == S
                         IN  IF first = <<0, 0>>
                             THEN {gone \in 0..Len(path) : \E skip \in 0..(Len(path) - gone) : gone + skip \in after}
                             ELSE {gone \in 0..(Len(path) - 1) : gone + 1 \in after /\ segment_match(first, path[gone + 1])}
           Code(g) == g = [n \in 0..Len(pattern) |-> IF n = 0 THEN {Len(path)} ELSE Step(n, g[n - 1])]
           f == CHOOSE g : Code(g)
<1>1. match_segments(pattern, path) <=> 0 \in f[N]
  BY Zenon DEF match_segments
<1>2. N \in Nat /\ m \in Nat
  OBVIOUS
<1>3. ASSUME NEW n \in 1..N, NEW S
      PROVE  Step(n, S) = Reaching(m, DoubleStars(pattern), Covered(pattern, path), N + 1 - n, S)
  <2> DEFINE k == N + 1 - n
  <2>1. k \in 1..N
    BY <1>2
  <2>2. CASE pattern[k] = <<0, 0>>
    <3>1. k \in DoubleStars(pattern)
      BY <2>1, <2>2, Zenon DEF DoubleStars
    <3>2. Step(n, S) = Skipping(m, S)
      BY <2>2, Zenon DEF Skipping
    <3> HIDE DEF Step, k, m, N
    <3>3. Skipping(m, S) = Reaching(m, DoubleStars(pattern), Covered(pattern, path), k, S)
      BY <1>2, <3>1, SkipsAreSteps
    <3> QED BY <3>2, <3>3, Zenon DEF k
  <2>3. CASE pattern[k] # <<0, 0>>
    <3> DEFINE T == {to \in 1..m : segment_match(pattern[k], path[to])}
    <3>1. k \notin DoubleStars(pattern)
      BY <2>3, Zenon DEF DoubleStars
    <3>2. Step(n, S) = {gone \in 0..(m - 1) : gone + 1 \in S /\ segment_match(pattern[k], path[gone + 1])}
      BY <2>3, Zenon
    <3>3. \A gone \in 0..(m - 1) : gone + 1 \in 1..m
      BY <1>2
    <3>4. Step(n, S) = Taking(m, S, T)
      <4> HIDE DEF Step, k, m, N
      <4> QED BY <3>2, <3>3, Zenon DEF Taking
    <3>5. \A to \in 1..m : to \in T <=> <<k, to>> \in Covered(pattern, path)
      <4> HIDE DEF k
      <4> QED BY <2>1 DEF Covered
    <3> HIDE DEF Step, k, m, N, T
    <3>6. Taking(m, S, T) = Reaching(m, DoubleStars(pattern), Covered(pattern, path), k, S)
      BY <1>2, <3>1, <3>5, OneIsAStep
    <3> QED BY <3>4, <3>6, Zenon DEF k
  <2> QED BY <2>2, <2>3, Zenon
<1> HIDE DEF Step
<1>4. ASSUME NEW g
      PROVE  Code(g) <=> IsRests(g, N, m, DoubleStars(pattern), Covered(pattern, path))
  <2>1. \A n \in 0..N : n # 0 => n \in 1..N
    OBVIOUS
  <2>2. \A n \in 0..N : (IF n = 0 THEN {m} ELSE Step(n, g[n - 1]))
            = (IF n = 0 THEN {m} ELSE Reaching(m, DoubleStars(pattern), Covered(pattern, path), N + 1 - n, g[n - 1]))
    BY <1>3, <2>1, Zenon
  <2>3. [n \in 0..N |-> IF n = 0 THEN {m} ELSE Step(n, g[n - 1])]
          = [n \in 0..N |-> IF n = 0 THEN {m}
                            ELSE Reaching(m, DoubleStars(pattern), Covered(pattern, path), N + 1 - n, g[n - 1])]
    BY <2>2, Zenon
  <2> QED BY <2>3, Zenon DEF IsRests
<1>5. \E g : IsRests(g, N, m, DoubleStars(pattern), Covered(pattern, path))
  <2> HIDE DEF N, m
  <2> QED BY <1>2, RestsExist, Zenon
<1>6. Code(f)
  <2>1. \E g : Code(g)
    BY <1>4, <1>5, Zenon
  <2> HIDE DEF Code
  <2> QED BY <2>1, Zenon
<1>7. IsRests(f, N, m, DoubleStars(pattern), Covered(pattern, path))
  <2> HIDE DEF Code, f
  <2> QED BY <1>4, <1>6, Zenon
<1> HIDE DEF f
<1> QED BY <1>1, <1>7, Zenon

\* For a path, a pattern goes where it is ** or aligns with the segment.
LEMMA PathGoes ==
    ASSUME NEW pattern \in Seq(Seq(Nat)), NEW path \in Seq(Seq(Nat)), NEW cut \in [0..Len(pattern) -> 0..Len(path)],
           NEW k \in 1..Len(pattern)
    PROVE  Goes(DoubleStars(pattern), Covered(pattern, path), k, cut[k - 1], cut[k]) <=>
              IF IsDoubleStar(pattern[k]) THEN cut[k - 1] <= cut[k]
              ELSE cut[k] = cut[k - 1] + 1 /\ SegmentAligns(pattern[k], path[cut[k]])
<1>1. k \in DoubleStars(pattern) <=> pattern[k] = <<0, 0>>
  BY Zenon DEF DoubleStars
<1>2. k - 1 \in 0..Len(pattern) /\ k \in 0..Len(pattern)
  OBVIOUS
<1>3. PICK from \in 0..Len(path) : from = cut[k - 1]
  BY <1>2, Zenon
<1>4. PICK to \in 0..Len(path) : to = cut[k]
  BY <1>2, Zenon
<1>5. to = from + 1 => to \in 1..Len(path)
  OBVIOUS
<1>6. to \in 1..Len(path) => (<<k, to>> \in Covered(pattern, path) <=> SegmentAligns(pattern[k], path[to]))
  <2> SUFFICES ASSUME to \in 1..Len(path)
      PROVE  <<k, to>> \in Covered(pattern, path) <=> SegmentAligns(pattern[k], path[to])
    BY Zenon
  <2>1. pattern[k] \in Seq(Nat) /\ path[to] \in Seq(Nat)
    OBVIOUS
  <2>2. segment_match(pattern[k], path[to]) <=> SegmentAligns(pattern[k], path[to])
    BY <2>1, SegmentMatches, Zenon
  <2>3. <<k, to>> \in Covered(pattern, path) <=> segment_match(pattern[k], path[to])
    BY DEF Covered
  <2> QED BY <2>2, <2>3, Zenon
<1>7. Goes(DoubleStars(pattern), Covered(pattern, path), k, from, to) <=>
        IF pattern[k] = <<0, 0>> THEN from <= to ELSE to = from + 1 /\ SegmentAligns(pattern[k], path[to])
  BY <1>1, <1>5, <1>6, Zenon DEF Goes
<1> QED BY <1>3, <1>4, <1>7, Zenon DEF IsDoubleStar

\* match_segments finds exactly the alignments of a path.
LEMMA PathMatches ==
    ASSUME NEW pattern \in Seq(Seq(Nat)), NEW path \in Seq(Seq(Nat))
    PROVE  match_segments(pattern, path) <=> Aligns(pattern, path, IsDoubleStar, SegmentAligns)
<1> DEFINE N == Len(pattern)
           m == Len(path)
           wild == DoubleStars(pattern)
           fits == Covered(pattern, path)
<1>1. N \in Nat /\ m \in Nat /\ DOMAIN pattern = 1..N
  OBVIOUS
<1>2. PICK g : IsRests(g, N, m, wild, fits) /\ (match_segments(pattern, path) <=> 0 \in g[N])
  BY PathRests, Zenon
<1>3. ASSUME NEW cut \in [0..N -> 0..m]
      PROVE  (\A k \in 1..N : Goes(wild, fits, k, cut[k - 1], cut[k])) <=>
             \A k \in DOMAIN pattern :
                 IF IsDoubleStar(pattern[k]) THEN cut[k - 1] <= cut[k]
                 ELSE cut[k] = cut[k - 1] + 1 /\ SegmentAligns(pattern[k], path[cut[k]])
  <2>1. \A k \in 1..N : Goes(wild, fits, k, cut[k - 1], cut[k]) <=>
              IF IsDoubleStar(pattern[k]) THEN cut[k - 1] <= cut[k]
              ELSE cut[k] = cut[k - 1] + 1 /\ SegmentAligns(pattern[k], path[cut[k]])
    BY PathGoes, Zenon
  <2> QED BY <1>1, <2>1, Zenon
<1>4. Aligns(pattern, path, IsDoubleStar, SegmentAligns) <=> CutExists(N, m, wild, fits)
  BY <1>3, Zenon DEF Aligns, CutExists
<1> HIDE DEF N, m, wild, fits
<1>5. 0 \in g[N] <=> Aligned(N, m, wild, fits)
  BY <1>1, <1>2, RestsAlign
<1>6. Aligned(N, m, wild, fits) <=> CutExists(N, m, wild, fits)
  BY <1>1, WayIsCut
<1> QED BY <1>2, <1>4, <1>5, <1>6, Zenon

\* A text cut at its slashes up to some place: the segments that are closed and
\* the one that is open.
Uncut == [done |-> <<>>, open |-> <<>>]
Extend(cut, c) ==
    IF c = 1 THEN [done |-> Closed(cut), open |-> <<>>]
    ELSE [done |-> cut.done, open |-> Append(cut.open, c)]
IsCuts(g, text) == g = [n \in 0..Len(text) |-> IF n = 0 THEN Uncut ELSE Extend(g[n - 1], text[n])]
Cuts == [done: Seq(Seq(Nat)), open: Seq(Nat)]

\* Every text can be cut to its end.
LEMMA CutsExist ==
    ASSUME NEW text \in Seq(Nat)
    PROVE  \E g : IsCuts(g, text)
<1> DEFINE F(n, S) == Extend(S, text[n])
           N == Len(text)
           Upto(g, n) == g = [k \in 0..n |-> IF k = 0 THEN Uncut ELSE F(k, g[k - 1])]
           Missing == {n \in Nat : ~\E g : Upto(g, n)}
<1>0. N \in Nat
  OBVIOUS
<1> HIDE DEF F, N
<1>1. Missing = {}
  <2> SUFFICES ASSUME Missing # {} PROVE FALSE
    BY Zenon
  <2>1. Missing \in SUBSET Nat
    BY Zenon
  <2>2. PICK n \in Missing : \A k \in Missing : n <= k
    BY <2>1, LeastNatural, Zenon
  <2>3. n \in Nat /\ ~\E g : Upto(g, n)
    BY <2>2, Zenon
  <2>4. n # 0
    <3> DEFINE none == [k \in 0..0 |-> Uncut]
    <3>1. none = [k \in 0..0 |-> IF k = 0 THEN Uncut ELSE F(k, none[k - 1])]
      OBVIOUS
    <3> HIDE DEF none
    <3>2. Upto(none, 0)
      BY <3>1, Zenon
    <3> QED BY <2>3, <3>2, Zenon
  <2>5. n - 1 \in Nat /\ ~(n <= n - 1)
    BY <2>3, <2>4
  <2>6. n - 1 \notin Missing
    <3> HIDE DEF Missing
    <3> QED BY <2>2, <2>5, Zenon
  <2>7. PICK g : Upto(g, n - 1)
    BY <2>5, <2>6, Zenon
  <2> DEFINE h == [k \in 0..n |-> IF k = 0 THEN Uncut ELSE F(k, g[k - 1])]
  <2>8. \A k \in 0..(n - 1) : h[k] = g[k]
    <3> SUFFICES ASSUME NEW k \in 0..(n - 1) PROVE h[k] = g[k]
      BY Zenon
    <3>1. k \in 0..n
      BY <2>3
    <3>2. h[k] = IF k = 0 THEN Uncut ELSE F(k, g[k - 1])
      BY <3>1, Zenon
    <3>3. g[k] = IF k = 0 THEN Uncut ELSE F(k, g[k - 1])
      <4> DEFINE w == [j \in 0..(n - 1) |-> IF j = 0 THEN Uncut ELSE F(j, g[j - 1])]
      <4>1. g = w
        BY <2>7, Zenon
      <4>2. w[k] = IF k = 0 THEN Uncut ELSE F(k, g[k - 1])
        BY Zenon
      <4> HIDE DEF w
      <4> QED BY <4>1, <4>2, Zenon
    <3> QED BY <3>2, <3>3, Zenon
  <2>9. \A k \in 0..n : k # 0 => k - 1 \in 0..(n - 1)
    BY <2>3
  <2>10. Upto(h, n)
    <3>1. h = [k \in 0..n |-> IF k = 0 THEN Uncut ELSE F(k, g[k - 1])]
      BY Zenon
    <3> HIDE DEF h
    <3>2. \A k \in 0..n : (IF k = 0 THEN Uncut ELSE F(k, g[k - 1])) = (IF k = 0 THEN Uncut ELSE F(k, h[k - 1]))
      BY <2>8, <2>9, Zenon
    <3> QED BY <3>1, <3>2, Zenon
  <2> QED BY <2>3, <2>10, Zenon
<1>2. PICK g : Upto(g, N)
  BY <1>0, <1>1, Zenon
<1> QED BY <1>2, Zenon DEF IsCuts, F, N

\* Cutting a text of characters gives lists of characters.
LEMMA ExtendType ==
    ASSUME NEW cut \in Cuts, NEW c \in Nat
    PROVE  Closed(cut) \in Seq(Seq(Nat)) /\ Extend(cut, c) \in Cuts
<1>1. cut.done \in Seq(Seq(Nat)) /\ cut.open \in Seq(Nat)
  BY Zenon DEF Cuts
<1>2. Append(cut.done, cut.open) \in Seq(Seq(Nat)) /\ Append(cut.open, c) \in Seq(Nat) /\ <<>> \in Seq(Nat)
  BY <1>1
<1>3. Closed(cut) \in Seq(Seq(Nat))
  BY <1>1, <1>2, Zenon DEF Closed
<1>4. Extend(cut, c) \in Cuts
  BY <1>1, <1>2, <1>3, Zenon DEF Extend, Cuts
<1> QED BY <1>3, <1>4, Zenon

\* So does every cut on the way.
LEMMA CutsType ==
    ASSUME NEW text \in Seq(Nat), NEW g, IsCuts(g, text)
    PROVE  g[Len(text)] \in Cuts
<1>1. Len(text) \in Nat /\ \A n \in 1..Len(text) : text[n] \in Nat
  OBVIOUS
<1>2. g[0] = Uncut /\ \A n \in 1..Len(text) : g[n] = Extend(g[n - 1], text[n])
  <2> DEFINE w == [n \in 0..Len(text) |-> IF n = 0 THEN Uncut ELSE Extend(g[n - 1], text[n])]
  <2>1. g = w
    BY Zenon DEF IsCuts
  <2>2. 0 \in 0..Len(text) /\ \A n \in 1..Len(text) : n \in 0..Len(text) /\ n # 0
    BY <1>1
  <2>3. w[0] = Uncut /\ \A n \in 1..Len(text) : w[n] = Extend(g[n - 1], text[n])
    BY <2>2, Zenon
  <2> HIDE DEF w
  <2> QED BY <2>1, <2>3, Zenon
<1>3. Uncut \in Cuts
  <2>1. <<>> \in Seq(Nat) /\ <<>> \in Seq(Seq(Nat))
    OBVIOUS
  <2> QED BY <2>1, Zenon DEF Uncut, Cuts
<1> DEFINE Wrong == {n \in 0..Len(text) : g[n] \notin Cuts}
<1>4. Wrong = {}
  <2> SUFFICES ASSUME Wrong # {} PROVE FALSE
    BY Zenon
  <2>1. Wrong \in SUBSET Nat
    OBVIOUS
  <2>2. PICK n \in Wrong : \A k \in Wrong : n <= k
    BY <2>1, LeastNatural, Zenon
  <2>3. n \in 0..Len(text) /\ g[n] \notin Cuts
    BY <2>2, Zenon
  <2>4. n \in 1..Len(text) /\ n - 1 \in 0..Len(text) /\ ~(n <= n - 1)
    <3>1. n # 0
      BY <1>2, <1>3, <2>3, Zenon
    <3> QED BY <1>1, <2>3, <3>1
  <2>5. n - 1 \notin Wrong
    <3> HIDE DEF Wrong
    <3> QED BY <2>2, <2>4, Zenon
  <2>6. g[n - 1] \in Cuts
    BY <2>4, <2>5, Zenon
  <2> QED BY <1>1, <1>2, <2>3, <2>4, <2>6, ExtendType, Zenon
<1>5. Len(text) \in 0..Len(text)
  BY <1>1
<1> QED BY <1>4, <1>5, Zenon

\* The segments of a text of characters are texts of characters.
LEMMA SplitType ==
    ASSUME NEW text \in Seq(Nat)
    PROVE  Split(text) \in Seq(Seq(Nat))
<1> DEFINE f == CHOOSE g : IsCuts(g, text)
<1>1. IsCuts(f, text)
  BY CutsExist, Zenon
<1>2. Split(text) = Closed(f[Len(text)])
  BY Zenon DEF Split, IsCuts, Extend, Uncut
<1> HIDE DEF f
<1>3. f[Len(text)] \in Cuts
  BY <1>1, CutsType, Zenon
<1> QED BY <1>2, <1>3, ExtendType, Zenon

\* glob_match finds a match exactly when pattern and path can be aligned, for
\* every pattern and every path: trying the runs of `*` and `**` from the
\* shortest on never misses one that the rest needs (glob.rs).
THEOREM GlobsAlign == \A pattern, path \in Seq(Nat) : GlobAligns(pattern, path)
<1> SUFFICES ASSUME NEW pattern \in Seq(Nat), NEW path \in Seq(Nat) PROVE GlobAligns(pattern, path)
  BY Zenon
<1>1. Split(pattern) \in Seq(Seq(Nat)) /\ Split(path) \in Seq(Seq(Nat))
  BY SplitType, Zenon
<1>2. match_segments(Split(pattern), Split(path))
        <=> Aligns(Split(pattern), Split(path), IsDoubleStar, SegmentAligns)
  <2>1. PICK a \in Seq(Seq(Nat)) : a = Split(pattern)
    BY <1>1, Zenon
  <2>2. PICK b \in Seq(Seq(Nat)) : b = Split(path)
    BY <1>1, Zenon
  <2>3. match_segments(a, b) <=> Aligns(a, b, IsDoubleStar, SegmentAligns)
    BY PathMatches, Zenon
  <2> QED BY <2>1, <2>2, <2>3, Zenon
<1> QED BY <1>2, Zenon DEF GlobAligns, glob_match
=============================================================================
