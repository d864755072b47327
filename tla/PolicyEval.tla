----------------------------- MODULE PolicyEval -----------------------------
(***************************************************************************)
(* How the kernel evaluates the condition of a policy rule: `eval_expr` of *)
(* crates/kernos-policy/src/eval.rs and the values of value.rs, as         *)
(* operators.                                                              *)
(*                                                                         *)
(* A value is a pair of its type and its content: <<"null", 0>>,           *)
(* <<"bool", b>>, <<"num", n>>, <<"str", s>> with s a sequence of character*)
(* codes, <<"list", vs>>, <<"obj", f>>.  JSON is written the same way;     *)
(* numbers are integers an f64 holds exactly.  Expressions are the trees   *)
(* of PolicyParser, with a literal as <<"lit", value>>.                    *)
(***************************************************************************)
EXTENDS PathGlob, FiniteSets

Null == <<"null", 0>>
Bool(b) == <<"bool", b>>

truthy(v) ==
    CASE v[1] = "null" -> FALSE
      [] v[1] = "bool" -> v[2]
      [] v[1] = "num" -> v[2] # 0
      [] v[1] \in {"str", "list"} -> v[2] # <<>>
      [] v[1] = "obj" -> TRUE

\* A numeric segment indexes a list from 0.
Index == [segment \in {"0", "1"} |-> IF segment = "0" THEN 1 ELSE 2]

\* The value at a path: Null when a segment is missing.
RECURSIVE lookup(_, _)
lookup(json, segments) ==
    IF segments = <<>> THEN json
    ELSE LET segment == Head(segments)
         IN  IF json[1] = "obj" /\ segment \in DOMAIN json[2]
             THEN lookup(json[2][segment], Tail(segments))
             ELSE IF json[1] = "list" /\ segment \in DOMAIN Index /\ Index[segment] \in DOMAIN json[2]
             THEN lookup(json[2][Index[segment]], Tail(segments))
             ELSE Null

----------------------------------------------------------------------------
(* Expressions.                                                            *)

\* The order of two numbers or two strings; other pairs have none.
Before(a, b) ==
    \/ Len(a) < Len(b) /\ SubSeq(b, 1, Len(a)) = a
    \/ \E k \in 1..Len(a) : /\ k <= Len(b)
                            /\ SubSeq(a, 1, k - 1) = SubSeq(b, 1, k - 1)
                            /\ a[k] < b[k]

Ordered(l, r) == l[1] = r[1] /\ l[1] \in {"num", "str"}
Less(l, r) == IF l[1] = "num" THEN l[2] < r[2] ELSE Before(l[2], r[2])

\* Mutation: values that have no order are taken as equal.
Compare_Equal(op, l, r) ==
    IF ~Ordered(l, r) THEN op \in {"<=", ">="}
    ELSE CASE op = "<" -> Less(l, r)
           [] op = "<=" -> Less(l, r) \/ l = r
           [] op = ">" -> Less(r, l)
           [] op = ">=" -> Less(r, l) \/ l = r

Compare(op, l, r) ==
    /\ Ordered(l, r)
    /\ CASE op = "<" -> Less(l, r)
         [] op = "<=" -> Less(l, r) \/ l = r
         [] op = ">" -> Less(r, l)
         [] op = ">=" -> Less(r, l) \/ l = r

eval_binary(op, l, r) ==
    CASE op = "==" -> Bool(l = r)
      [] op = "!=" -> Bool(l # r)
      [] op \in {"<", "<=", ">", ">="} -> Bool(Compare(op, l, r))
      [] op = "in" -> Bool(r[1] = "list" /\ \E k \in DOMAIN r[2] : r[2][k] = l)
      [] op \in {"+", "-"} ->
           IF l[1] # "num" \/ r[1] # "num" THEN Null
           ELSE <<"num", IF op = "+" THEN l[2] + r[2] ELSE l[2] - r[2]>>

\* The list a function of the language searches.
ListOf ==
    [callee \in {<<"action", "touches_path">>, <<"action", "touches_data_class">>, <<"run", "remit", "grants">>}
        |-> CASE callee = <<"action", "touches_path">> -> <<"action", "paths">>
              [] callee = <<"action", "touches_data_class">> -> <<"action", "data_classes">>
              [] callee = <<"run", "remit", "grants">> -> callee]

eval_call(callee, needle, context) ==
    LET list == lookup(context, ListOf[callee])
    IN  Bool(/\ needle[1] = "str" /\ list[1] = "list"
             /\ \E k \in DOMAIN list[2] :
                   /\ list[2][k][1] = "str"
                   /\ IF callee = <<"action", "touches_path">>
                      THEN glob_match(needle[2], list[2][k][2])
                      ELSE list[2][k] = needle)

RECURSIVE eval_expr(_, _)
eval_expr(e, context) ==
    CASE e[1] = "lit" -> e[2]
      [] e[1] = "list" -> <<"list", [k \in DOMAIN e[2] |-> eval_expr(e[2][k], context)]>>
      [] e[1] = "path" -> lookup(context, e[2])
      [] e[1] = "call" -> eval_call(e[2], IF e[3] = <<>> THEN Null ELSE eval_expr(e[3][1], context), context)
      [] e[1] = "neg" -> LET v == eval_expr(e[2], context)
                         IN  IF v[1] = "num" THEN <<"num", -v[2]>> ELSE Null
      [] e[1] = "not" -> Bool(~truthy(eval_expr(e[2], context)))
      [] e[1] = "bin" /\ e[2] = "and" ->
           Bool(truthy(eval_expr(e[3], context)) /\ truthy(eval_expr(e[4], context)))
      [] e[1] = "bin" /\ e[2] = "or" ->
           Bool(truthy(eval_expr(e[3], context)) \/ truthy(eval_expr(e[4], context)))
      [] OTHER -> eval_binary(e[2], eval_expr(e[3], context), eval_expr(e[4], context))
=============================================================================
