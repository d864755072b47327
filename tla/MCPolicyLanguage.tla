-------------------------- MODULE MCPolicyLanguage --------------------------
(***************************************************************************)
(* The stages of the policy language on small inputs: a text is lexed,     *)
(* tokens are parsed, globs and conditions are evaluated, and policies are *)
(* decided.  Each behaviour exercises one stage; the variables of the      *)
(* other stages keep a resting value.                                      *)
(***************************************************************************)
EXTENDS Evaluate, FiniteSets

CONSTANTS Texts,                          \* sources to lex
          Topics,                         \* tokens to parse: [start, phrases, length]
          MaxPattern, MaxPath, MaxNodes   \* bounds on globs and conditions

VARIABLES stage,
          chars, i, line, column, tokens, status, error,   \* the lexer
          topic, text,                                     \* the tokens being written
          pattern, path, condition, nodes                  \* the glob or condition being written

L == INSTANCE PolicyLexer
P == INSTANCE PolicyParser
E == INSTANCE PolicyEval

lexVars == <<chars, i, line, column, tokens, status, error>>
parseVars == <<topic, text>>
evalVars == <<pattern, path, condition, nodes>>
languageVars == <<stage, lexVars, parseVars, evalVars, loopVars>>

----------------------------------------------------------------------------
(* The inputs of each stage.                                               *)

BoundedSeq(S, n) == UNION {[1..k -> S] : k \in 0..n}

\* Every text of a few characters, by topic.
SmallTexts ==
    BoundedSeq({"NL", "SP", "#", "QUOTE", "BACKSLASH", "n", "x"}, 5)
    \cup BoundedSeq({"1", ".", "h", "x", "NL", "-"}, 5)
    \cup BoundedSeq({"-", ">", "=", "!", "<", "x", "SP", "@"}, 4)

\* Token sequences: operators and parentheses, after a token an expression
\* can start with; lists, calls and paths; approval clauses; headers and the
\* order of rules.
AllTopics ==
    {[start |-> <<"deny", "when">> \o first, length |-> 5,
      phrases |-> {<<"x">>, <<"-">>, <<"==">>, <<"and">>, <<"or">>, <<"not">>, <<"(">>, <<")">>}] :
        first \in {<<"x">>, <<"-">>, <<"not">>, <<"(">>}}
    \cup
    {[start |-> <<"deny", "when">>, length |-> 5,
      phrases |-> {<<"x">>, <<"in">>, <<"action", ".", "touches_path", "(">>, <<".">>, <<",">>, <<"[">>,
                   <<"]">>, <<")">>}],
     [start |-> <<"require", "approval", "when", "x", "->", "approver", ":">>, length |-> 5,
      phrases |-> {<<"x">>, <<".">>, <<"role", "(", "STR", ")">>, <<",", "sla", ":">>, <<"DUR">>,
                   <<",", "escalate_to", ":">>, <<"reporting_line">>, <<"allow", "when", "x">>}],
     [start |-> <<>>, length |-> 6,
      phrases |-> {<<"policy", "STR">>, <<"deny">>, <<"require">>, <<"approval">>, <<"when">>, <<"x">>,
                   <<"->", "approver", ":", "x">>}]}

\* Conditions that ask for something of the action: comparisons, sums,
\* equality with a literal, membership of a list of literals, calls.
\* Characters: 0 is the star, 1 the slash, 2 and 3 letters.
Str(s) == <<"str", s>>
Amount == <<"path", <<"action", "amount">>>>
Kind == <<"path", <<"action", "kind">>>>
Touches(glob) == <<"call", <<"action", "touches_path">>, <<<<"lit", Str(glob)>>>>>>
Numbers == {<<"lit", <<"num", n>>>> : n \in {0, 2}}
ListLiteral == <<"list", <<<<"lit", <<"num", 1>>>>, <<"lit", Str(<<2>>)>>>>>>
Terms == {Amount, Kind} \cup Numbers
Sums == Terms \cup {<<"neg", t>> : t \in {Amount, Kind}} \cup {<<"bin", "+", Amount, t>> : t \in Terms}
Atoms ==
    {<<"bin", op, s, t>> : op \in {"<", ">="}, s \in Sums, t \in {Amount} \cup Numbers}
    \cup {<<"bin", "==", s, n>> : s \in Sums, n \in Numbers \cup {<<"lit", Str(<<2>>)>>}}
    \cup {<<"bin", "in", s, ListLiteral>> : s \in Sums}
    \cup {Amount, Kind, Touches(<<2, 1, 0, 0>>), Touches(<<0>>)}

\* Actions to evaluate them on, and the same with a field left out.
Amounts == {<<"num", 0>>, <<"num", 1>>, <<"num", -2>>, Str(<<2>>)}
Lists == {<<"list", <<Str(<<2, 1, 3>>)>>>>, <<"list", <<Str(<<3>>), <<"num", 1>>>>>>}
Actions ==
    {<<"obj", [f \in {"action"} |-> <<"obj", [amount |-> a, kind |-> k, paths |-> p]>>]>> :
        a \in Amounts, k \in {Str(<<2>>), Str(<<>>)}, p \in Lists}
Without(action, field) ==
    LET fields == action[2]["action"][2]
    IN  <<"obj", [f \in {"action"} |-> <<"obj", [g \in DOMAIN fields \ {field} |-> fields[g]]>>]>>

\* A write under a supervised and under an autonomous remit, with and
\* without a manager, and policy sets for it.
SmallContexts ==
    {[autonomy |-> l, writes |-> TRUE, at |-> [x \in Paths |-> m], facts |-> 0] :
        l \in {2, 3}, m \in {"u", Nobody}}
FinanceClause == [approver |-> [type |-> "role", value |-> "finance"], sla |-> Unset, escalate_to |-> Unset]
SmallRules ==
    [kind: {"deny", "allow"}, when: {{}, SmallContexts}, approval: {Unset}]
    \cup [kind: {"approval"}, when: {{}, SmallContexts}, approval: {Unset, FinanceClause}]
SmallPolicySets == BoundedSeq(BoundedSeq(SmallRules, 2), 2)

----------------------------------------------------------------------------
(* One stage per behaviour.                                                *)

LexRests == chars = <<>> /\ i = 1 /\ line = 1 /\ column = 1 /\ tokens = <<>> /\ status = "rest" /\ error = L!Nowhere
ParseRests == topic = [phrases |-> {}, left |-> 0] /\ text = <<>>
EvalRests == pattern = <<>> /\ path = <<>> /\ condition = <<"none">> /\ nodes = 0
LoopRests ==
    /\ policies = <<>> /\ context = CHOOSE c \in Contexts : TRUE
    /\ policy_index = 1 /\ rule_index = 1 /\ first_approval = NoRule /\ first_allow = NoRule
    /\ returned = FALSE /\ decision = Unset

LanguageInit ==
    \/ stage = "lex" /\ L!Init /\ ParseRests /\ EvalRests /\ LoopRests
    \/ /\ stage = "parse"
       /\ \E t \in Topics : topic = [phrases |-> t.phrases, left |-> t.length] /\ text = t.start
       /\ LexRests /\ EvalRests /\ LoopRests
    \/ stage = "glob" /\ EvalRests /\ LexRests /\ ParseRests /\ LoopRests
    \/ /\ stage = "condition"
       /\ condition \in Atoms /\ nodes = 1 /\ pattern = <<>> /\ path = <<>>
       /\ LexRests /\ ParseRests /\ LoopRests
    \/ stage = "evaluate" /\ LoopInit /\ LexRests /\ ParseRests /\ EvalRests

Lex == stage = "lex" /\ L!Next /\ UNCHANGED <<stage, parseVars, evalVars, loopVars>>

\* One more phrase to parse.
Continue ==
    /\ stage = "parse" /\ topic.left > 0
    /\ \E phrase \in topic.phrases : text' = text \o phrase
    /\ topic' = [topic EXCEPT !.left = @ - 1]
    /\ UNCHANGED <<stage, lexVars, evalVars, loopVars>>

LongerPattern ==
    /\ stage = "glob" /\ path = <<>> /\ Len(pattern) < MaxPattern
    /\ \E c \in 0..2 : pattern' = Append(pattern, c)
    /\ UNCHANGED <<stage, path, condition, nodes, lexVars, parseVars, loopVars>>

LongerPath ==
    /\ stage = "glob" /\ Len(path) < MaxPath
    /\ \E c \in 1..3 : path' = Append(path, c)
    /\ UNCHANGED <<stage, pattern, condition, nodes, lexVars, parseVars, loopVars>>

LargerCondition ==
    /\ stage = "condition" /\ nodes < MaxNodes
    /\ \E op \in {"and", "or"}, atom \in Atoms : condition' = <<"bin", op, condition, atom>>
    /\ nodes' = nodes + 1
    /\ UNCHANGED <<stage, pattern, path, lexVars, parseVars, loopVars>>

Loop == stage = "evaluate" /\ LoopNext /\ UNCHANGED <<stage, lexVars, parseVars, evalVars>>

LanguageNext == Lex \/ Continue \/ LongerPattern \/ LongerPath \/ LargerCondition \/ Loop

LanguageSpec == LanguageInit /\ [][LanguageNext]_languageVars

----------------------------------------------------------------------------
(* Properties.                                                             *)

\* The tokens of `lex` are the text: each but a string is the longest one
\* that starts where it does, nothing but blanks and comments lies between
\* them, and each carries the line and column of its first character, as an
\* error does ("Every error carries line and column", lexer.rs).
TokensAreTheText == L!PositionsAreTrue /\ L!TokensAreTheText

\* The parser accepts exactly the texts the grammar derives and returns their
\* tree, and the grammar is unambiguous: predictive choices and greedy loops
\* never take a wrong turn, whatever the precedence of what follows
\* (Parser::policy and below in parser.rs).
ParserIsGrammar ==
    stage = "parse" =>
        LET parsed == P!policy(text)
            trees == P!DerivesPolicy(text)
        IN  /\ Cardinality(trees) <= 1
            /\ IF parsed.ok THEN trees = {parsed.tree} ELSE trees = {}

\* glob_match is what its comment says of it: "`*` matches any run of
\* characters inside one segment and `**` matches zero or more whole
\* segments", whatever run each has to take for the rest to match.
GlobIsAlignment == stage = "glob" => E!GlobAligns(pattern, path)

\* A rule that asks for something of an action does not match one that lacks
\* it: taking a field out of the action never makes such a condition true
\* (missing paths are null, sums of null are null, comparisons with null are
\* false).  An allow rule is therefore never met by leaving a field out.
AbsenceNeverMatches ==
    stage = "condition" =>
        \A action \in Actions, field \in {"amount", "kind", "paths"} :
            E!truthy(E!eval_expr(condition, Without(action, field))) => E!truthy(E!eval_expr(condition, action))
=============================================================================
