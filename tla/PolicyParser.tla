---------------------------- MODULE PolicyParser ----------------------------
(***************************************************************************)
(* The parser of the policy language (crates/kernos-policy/src/parser.rs,  *)
(* trees of ast.rs), as operators on a sequence of tokens, and the grammar *)
(* it implements as a relation, to compare it with.                        *)
(*                                                                         *)
(* A token is a keyword, a punctuation mark, the class of a literal ("NUM" *)
(* "STR", "DUR") or any other word, which is an identifier.  A tree is a   *)
(* tuple whose first element names the node.                               *)
(***************************************************************************)
EXTENDS Integers, Sequences, FiniteSets

KEYWORDS ==
    {"policy", "allow", "deny", "require", "approval", "when", "approver", "sla",
     "escalate_to", "and", "or", "not", "in", "true", "false", "null", "role", "user",
     "reporting_line"}
Literals == {"NUM", "STR"}
Constants == {"true", "false", "null"}
Comparisons == {"==", "!=", "<", "<=", ">", ">=", "in"}
Marks == {"(", ")", "[", "]", ",", ".", ":", "->", "+", "-", "EOF", "DUR"} \cup (Comparisons \ {"in"})
is_ident(token) == token \notin KEYWORDS \cup Literals \cup Marks

KNOWN_FUNCTIONS ==
    {<<"action", "touches_path">>, <<"action", "touches_data_class">>, <<"run", "remit", "grants">>}

----------------------------------------------------------------------------
(* Parsing: pos is the next token, or, after a failure, the one at fault.  *)

peek(toks, p) == IF p <= Len(toks) THEN toks[p] ELSE "EOF"
Ok(tree, p) == [ok |-> TRUE, tree |-> tree, pos |-> p]
Error(p) == [ok |-> FALSE, tree |-> <<>>, pos |-> p]

expect(toks, p, token, tree) == IF peek(toks, p) = token THEN Ok(tree, p + 1) ELSE Error(p)

RECURSIVE path_tail(_, _, _)
path_tail(toks, segments, p) ==
    IF peek(toks, p) # "." THEN Ok(segments, p)
    ELSE IF ~is_ident(peek(toks, p + 1)) THEN Error(p + 1)
    ELSE path_tail(toks, Append(segments, toks[p + 1]), p + 2)

path(toks, p) ==
    IF is_ident(peek(toks, p)) THEN path_tail(toks, <<toks[p]>>, p + 1) ELSE Error(p)

binary(op, left, right) == <<"bin", op, left, right>>

\* The levels of an expression, loosest first; defined below by the function
\* of each.
RECURSIVE expr(_, _, _)
RECURSIVE left_tail(_, _, _)
RECURSIVE items(_, _, _, _)

Operand == [or |-> "and", and |-> "not", sum |-> "unary"]
Operators == [or |-> {"or"}, and |-> {"and"}, sum |-> {"+", "-"}]

\* Mutation: operators associate to the right.
left_tail_Right(toks, level, left) ==
    LET right == expr(level, toks, left.pos + 1)
    IN  IF ~left.ok \/ peek(toks, left.pos) \notin Operators[level] THEN left
        ELSE IF ~right.ok THEN right
        ELSE Ok(binary(toks[left.pos], left.tree, right.tree), right.pos)

\* The loops of `or`, `and` and `sum`: operands of the next level, taken from
\* the left.
left_tail(toks, level, left) ==
    LET right == expr(Operand[level], toks, left.pos + 1)
    IN  IF ~left.ok \/ peek(toks, left.pos) \notin Operators[level] THEN left
        ELSE IF ~right.ok THEN right
        ELSE left_tail(toks, level, Ok(binary(toks[left.pos], left.tree, right.tree), right.pos))

\* At most one comparison.
cmp(toks, p) ==
    LET left == expr("sum", toks, p)
        right == expr("sum", toks, left.pos + 1)
    IN  IF ~left.ok \/ peek(toks, left.pos) \notin Comparisons THEN left
        ELSE IF ~right.ok THEN right
        ELSE Ok(binary(toks[left.pos], left.tree, right.tree), right.pos)

Wrap(node, inner) == IF inner.ok THEN Ok(<<node, inner.tree>>, inner.pos) ELSE inner

not(toks, p) == IF peek(toks, p) = "not" THEN Wrap("not", expr("not", toks, p + 1)) ELSE cmp(toks, p)

\* The loop over the items of a list or a call, up to its closing token.
items(toks, parsed, close, p) ==
    LET item == expr("or", toks, p)
        more == Append(parsed, item.tree)
    IN  IF ~item.ok THEN item
        ELSE IF peek(toks, item.pos) = "," THEN items(toks, more, close, item.pos + 1)
        ELSE expect(toks, item.pos, close, more)

Items(toks, close, p) ==
    IF peek(toks, p) = close THEN Ok(<<>>, p + 1) ELSE items(toks, <<>>, close, p)

call_or_path(toks, p) ==
    LET callee == path(toks, p)
        args == Items(toks, ")", callee.pos + 1)
    IN  IF ~callee.ok THEN callee
        ELSE IF peek(toks, callee.pos) # "(" THEN Wrap("path", callee)
        ELSE IF callee.tree \notin KNOWN_FUNCTIONS THEN Error(p)
        ELSE IF ~args.ok THEN args
        ELSE Ok(<<"call", callee.tree, args.tree>>, args.pos)

primary(toks, p) ==
    LET token == peek(toks, p)
    IN  CASE token \in Literals \cup Constants -> Ok(<<token>>, p + 1)
          [] token = "(" -> LET inner == expr("or", toks, p + 1)
                            IN  IF inner.ok THEN expect(toks, inner.pos, ")", inner.tree) ELSE inner
          [] token = "[" -> Wrap("list", Items(toks, "]", p + 1))
          [] is_ident(token) -> call_or_path(toks, p)
          [] OTHER -> Error(p)

unary(toks, p) == IF peek(toks, p) = "-" THEN Wrap("neg", expr("unary", toks, p + 1)) ELSE primary(toks, p)

expr(level, toks, p) ==
    CASE level = "not" -> not(toks, p)
      [] level = "unary" -> unary(toks, p)
      [] OTHER -> left_tail(toks, level, expr(Operand[level], toks, p))

----------------------------------------------------------------------------
(* Rules.                                                                  *)

quoted_argument(toks, node, p) ==
    LET at == [i \in 0..2 |-> peek(toks, p + i)]
    IN  IF at[0] # "(" THEN Error(p)
        ELSE IF at[1] # "STR" THEN Error(p + 1)
        ELSE expect(toks, p + 2, ")", <<node>>)

approver(toks, p) ==
    IF peek(toks, p) \in {"role", "user"} THEN quoted_argument(toks, toks[p], p + 1)
    ELSE Wrap("path", path(toks, p))

escalate(toks, p) ==
    IF peek(toks, p) = "reporting_line" THEN Ok(<<"reporting_line">>, p + 1) ELSE approver(toks, p)

\* sla and escalate_to, in either order, each at most once.
RECURSIVE clause_tail(_, _, _)
clause_tail(toks, clause, p) ==
    LET field == peek(toks, p + 1)
        given == IF field = "sla" THEN expect(toks, p + 3, "DUR", <<"DUR">>) ELSE escalate(toks, p + 3)
    IN  IF peek(toks, p) # "," THEN Ok(clause, p)
        ELSE IF field \notin {"sla", "escalate_to"} \/ clause[field] # <<>> THEN Error(p + 1)
        ELSE IF peek(toks, p + 2) # ":" THEN Error(p + 2)
        ELSE IF ~given.ok THEN given
        ELSE clause_tail(toks, [clause EXCEPT ![field] = given.tree], given.pos)

approval_clause(toks, p) ==
    LET asked == approver(toks, p + 2)
    IN  IF peek(toks, p) # "approver" THEN Error(p)
        ELSE IF peek(toks, p + 1) # ":" THEN Error(p + 1)
        ELSE IF ~asked.ok THEN asked
        ELSE clause_tail(toks, [approver |-> asked.tree, sla |-> <<>>, escalate_to |-> <<>>], asked.pos)

Rule(kind, condition, approval) == [kind |-> kind, condition |-> condition, approval |-> approval]

rule(toks, p) ==
    LET kind == toks[p]
        when == IF kind = "require" THEN p + 2 ELSE p + 1
        condition == expr("or", toks, when + 1)
        clause == approval_clause(toks, condition.pos + 1)
    IN  IF kind = "require" /\ peek(toks, p + 1) # "approval" THEN Error(p + 1)
        ELSE IF peek(toks, when) # "when" THEN Error(when)
        ELSE IF ~condition.ok THEN condition
        ELSE IF peek(toks, condition.pos) # "->"
             THEN Ok(Rule(kind, condition.tree, <<>>), condition.pos)
        ELSE IF kind # "require" THEN Error(condition.pos)
        ELSE IF ~clause.ok THEN clause
        ELSE Ok(Rule(kind, condition.tree, clause.tree), clause.pos)

RECURSIVE rules(_, _, _)
rules(toks, parsed, p) ==
    IF peek(toks, p) = "EOF" THEN Ok(parsed, p)
    ELSE IF peek(toks, p) \notin {"deny", "allow", "require"} THEN Error(p)
    ELSE LET next == rule(toks, p)
         IN  IF next.ok THEN rules(toks, Append(parsed, next.tree), next.pos) ELSE next

policy(toks) ==
    IF peek(toks, 1) # "policy" THEN rules(toks, <<>>, 1)
    ELSE IF peek(toks, 2) # "STR" THEN Error(2)
    ELSE rules(toks, <<>>, 3)

----------------------------------------------------------------------------
(* The grammar: the trees each nonterminal derives for tokens i..j.        *)

RECURSIVE Derives(_, _, _, _)

\* Sequences of expressions separated by commas.
RECURSIVE DerivesItems(_, _, _)
DerivesItems(toks, i, j) ==
    {<<t>> : t \in Derives("or", toks, i, j)}
    \cup UNION {{<<t>> \o rest : t \in Derives("or", toks, i, k - 1), rest \in DerivesItems(toks, k + 1, j)} :
                 k \in {m \in (i + 1)..(j - 1) : toks[m] = ","}}

DerivesList(toks, i, j) == IF i > j THEN {<<>>} ELSE DerivesItems(toks, i, j)

DerivesPath(toks, i, j) ==
    IF /\ (j - i) % 2 = 0 /\ i <= j
       /\ \A k \in i..j : IF (k - i) % 2 = 0 THEN is_ident(toks[k]) ELSE toks[k] = "."
    THEN {[n \in 1..((j - i) \div 2 + 1) |-> toks[i + 2 * (n - 1)]]}
    ELSE {}

Derives(nonterminal, toks, i, j) ==
    LET Sub(n, a, b) == Derives(n, toks, a, b)
        Split(left, ops, right) ==
            UNION {{binary(toks[k], l, r) : l \in Sub(left, i, k - 1), r \in Sub(right, k + 1, j)} :
                     k \in {m \in (i + 1)..(j - 1) : toks[m] \in ops}}
        Between(open, close) == i < j /\ toks[i] = open /\ toks[j] = close
    IN  IF i > j THEN {}
        ELSE CASE nonterminal = "or" ->
                    Sub("and", i, j) \cup Split("or", {"or"}, "and")
               [] nonterminal = "and" ->
                    Sub("not", i, j) \cup Split("and", {"and"}, "not")
               [] nonterminal = "not" ->
                    Sub("cmp", i, j)
                    \cup IF toks[i] = "not" THEN {<<"not", t>> : t \in Sub("not", i + 1, j)} ELSE {}
               [] nonterminal = "cmp" ->
                    Sub("sum", i, j) \cup Split("sum", Comparisons, "sum")
               [] nonterminal = "sum" ->
                    Sub("unary", i, j) \cup Split("sum", {"+", "-"}, "unary")
               [] nonterminal = "unary" ->
                    Sub("primary", i, j)
                    \cup IF toks[i] = "-" THEN {<<"neg", t>> : t \in Sub("unary", i + 1, j)} ELSE {}
               [] nonterminal = "primary" ->
                    {<<toks[k]>> : k \in {m \in {i} : i = j /\ toks[m] \in Literals \cup Constants}}
                    \cup {<<"path", t>> : t \in DerivesPath(toks, i, j)}
                    \cup (IF Between("(", ")") THEN Sub("or", i + 1, j - 1) ELSE {})
                    \cup (IF Between("[", "]") THEN {<<"list", t>> : t \in DerivesList(toks, i + 1, j - 1)}
                          ELSE {})
                    \cup UNION {{<<"call", f, t>> : f \in DerivesPath(toks, i, k - 1) \cap KNOWN_FUNCTIONS,
                                                   t \in DerivesList(toks, k + 1, j - 1)} :
                                 k \in {m \in (i + 1)..(j - 1) : toks[m] = "(" /\ toks[j] = ")"}}

DerivesApprover(toks, i, j) ==
    {<<"path", t>> : t \in DerivesPath(toks, i, j)}
    \cup {<<n>> : n \in {m \in {"role", "user"} : SubSeq(toks, i, j) = <<m, "(", "STR", ")">>}}

DerivesEscalate(toks, i, j) ==
    DerivesApprover(toks, i, j)
    \cup {<<n>> : n \in {m \in {"reporting_line"} : SubSeq(toks, i, j) = <<m>>}}

\* approver, then sla and escalate_to in either order; a part ends where the
\* clause does or a comma follows.
DerivesClause(toks, i, j) ==
    LET Sla(a, b) == IF SubSeq(toks, a, b) = <<",", "sla", ":", "DUR">> THEN {<<"DUR">>} ELSE {}
        Esc(a, b) == IF b > a + 2 /\ SubSeq(toks, a, a + 2) = <<",", "escalate_to", ":">>
                     THEN DerivesEscalate(toks, a + 3, b) ELSE {}
        Part(F(_, _), a, b) == IF a > b THEN {<<>>} ELSE F(a, b)
        Clause(a, s, e) == [approver |-> a, sla |-> s, escalate_to |-> e]
        Ends(a) == {m \in a..j : m = j \/ toks[m + 1] = ","}
    IN  IF i + 1 > j \/ SubSeq(toks, i, i + 1) # <<"approver", ":">> THEN {}
        ELSE UNION {UNION {
               {Clause(a, s, e) : a \in DerivesApprover(toks, i + 2, k), s \in Part(Sla, k + 1, l),
                                  e \in Part(Esc, l + 1, j)}
               \cup {Clause(a, s, e) : a \in DerivesApprover(toks, i + 2, k), e \in Part(Esc, k + 1, l),
                                       s \in Part(Sla, l + 1, j)}
               : l \in Ends(k)} : k \in Ends(i + 2)}

DerivesRule(toks, i, j) ==
    LET kind == toks[i]
        first == IF kind = "require" THEN i + 3 ELSE i + 2
        head == IF kind = "require" THEN <<"require", "approval", "when">> ELSE <<kind, "when">>
    IN  IF kind \notin {"deny", "allow", "require"} \/ first > j \/ SubSeq(toks, i, first - 1) # head THEN {}
        ELSE {Rule(kind, c, <<>>) : c \in Derives("or", toks, first, j)}
             \cup UNION {{Rule(kind, c, a) : c \in Derives("or", toks, first, k - 1),
                                             a \in DerivesClause(toks, k + 1, j)} :
                          k \in {m \in first..j : toks[m] = "->" /\ kind = "require"}}

\* A rule ends where the text does or the first word of a rule follows.
RECURSIVE DerivesRules(_, _)
DerivesRules(toks, i) ==
    IF i > Len(toks) THEN {<<>>}
    ELSE UNION {{<<r>> \o rest : r \in DerivesRule(toks, i, k), rest \in DerivesRules(toks, k + 1)} :
                 k \in {m \in i..Len(toks) : m = Len(toks) \/ toks[m + 1] \in {"deny", "allow", "require"}}}

DerivesPolicy(toks) ==
    DerivesRules(toks, 1)
    \cup IF Len(toks) >= 2 /\ SubSeq(toks, 1, 2) = <<"policy", "STR">> THEN DerivesRules(toks, 3) ELSE {}
=============================================================================
