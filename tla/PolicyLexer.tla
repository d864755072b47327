---------------------------- MODULE PolicyLexer -----------------------------
(***************************************************************************)
(* The lexer of the policy language (crates/kernos-policy/src/lexer.rs,    *)
(* with the duration literals of duration.rs): one action per way through  *)
(* the loop of `lex`, which reads a newline, a blank, a comment or a token *)
(* at position i, or fails.                                                *)
(*                                                                         *)
(* A character is itself, or a name: "NL", "SP", "QUOTE", "BACKSLASH".     *)
(* Positions count from 1.  A token keeps the span of characters it was    *)
(* read from, from..to.                                                    *)
(***************************************************************************)
EXTENDS Integers, Sequences, FiniteSets

CONSTANTS Texts   \* the sources to lex

Digits == {"0", "1", "2", "5"}
DigitValue == [c \in Digits |-> CASE c = "0" -> 0 [] c = "1" -> 1 [] c = "2" -> 2 [] c = "5" -> 5]
Units == {"s", "m", "h", "d"}
Letters == Units \cup {"x", "n", "t", "_"}
Alphanumeric == Letters \cup Digits
OneChar == {"(", ")", "[", "]", ",", ".", ":", "<", ">", "+", "-"}
TwoChars == {<<"-", ">">>, <<"=", "=">>, <<"!", "=">>, <<"<", "=">>, <<">", "=">>}
Escapes == {"QUOTE", "BACKSLASH", "n", "t"}
Nowhere == [line |-> 0, column |-> 0]

VARIABLES chars, i, line, column, tokens, status, error

Init ==
    /\ chars \in Texts
    /\ i = 1 /\ line = 1 /\ column = 1
    /\ tokens = <<>> /\ status = "lexing" /\ error = Nowhere

get(k) == IF k <= Len(chars) THEN chars[k] ELSE "EOF"

\* The first position from k on that is not in the class.
EndOf(class, k) ==
    CHOOSE e \in k..(Len(chars) + 1) :
        get(e) \notin class /\ \A m \in k..(e - 1) : chars[m] \in class

Reading == status = "lexing" /\ i <= Len(chars)

\* The tokens read so far and the position after one that ends before e.
Push(kind, value, e) ==
    /\ tokens' = Append(tokens, [kind |-> kind, value |-> value, line |-> line, column |-> column,
                                 from |-> i, to |-> e - 1])
    /\ i' = e
    /\ column' = column + (e - i)
    /\ UNCHANGED <<chars, line, status, error>>

Fail(at_line, at_column) ==
    /\ status' = "error"
    /\ error' = [line |-> at_line, column |-> at_column]
    /\ UNCHANGED <<chars, i, line, column, tokens>>

Newline ==
    /\ Reading /\ chars[i] = "NL"
    /\ i' = i + 1 /\ line' = line + 1 /\ column' = 1
    /\ UNCHANGED <<chars, tokens, status, error>>

Blank ==
    /\ Reading /\ chars[i] = "SP"
    /\ i' = i + 1 /\ column' = column + 1
    /\ UNCHANGED <<chars, line, tokens, status, error>>

\* Up to the end of the line; the column is not moved.
Comment ==
    /\ Reading /\ chars[i] = "#"
    /\ i' = CHOOSE e \in i..(Len(chars) + 1) :
              get(e) \in {"NL", "EOF"} /\ \A m \in i..(e - 1) : chars[m] # "NL"
    /\ UNCHANGED <<chars, line, column, tokens, status, error>>

\* The scan of a string from k: where it ends, and its value or its error.
RECURSIVE Scan(_, _)
Scan(k, value) ==
    CASE get(k) \in {"EOF", "NL"} -> [end |-> k, value |-> value, error |-> "unterminated string"]
      [] get(k) = "QUOTE" -> [end |-> k + 1, value |-> value, error |-> ""]
      [] get(k) = "BACKSLASH" ->
           IF get(k + 1) = "EOF" THEN [end |-> k + 1, value |-> value, error |-> "unterminated escape"]
           ELSE IF get(k + 1) \notin Escapes
                THEN [end |-> k + 1, value |-> value, error |-> "unknown escape"]
           ELSE Scan(k + 2, Append(value, <<"escape", get(k + 1)>>))
      [] OTHER -> Scan(k + 1, Append(value, <<"char", get(k)>>))

String ==
    /\ Reading /\ chars[i] = "QUOTE"
    /\ LET scan == Scan(i + 1, <<>>)
       IN  CASE scan.error = "" -> Push("Str", scan.value, scan.end)
             [] scan.error = "unterminated string" -> Fail(line, column)
             [] OTHER -> Fail(line, column + (scan.end - i))

RECURSIVE Value(_, _)
Value(digits, v) == IF digits = <<>> THEN v ELSE Value(Tail(digits), 10 * v + DigitValue[Head(digits)])

Power10(n) == IF n = 0 THEN 1 ELSE IF n = 1 THEN 10 ELSE IF n = 2 THEN 100 ELSE 1000

\* Whole seconds, rounded down: `parse_duration` with exact arithmetic.
parse_duration(whole, fraction, unit) ==
    LET multiplier == CASE unit = "s" -> 1 [] unit = "m" -> 60 [] unit = "h" -> 3600 [] unit = "d" -> 86400
    IN  (Value(whole \o fraction, 0) * multiplier) \div Power10(Len(fraction))

\* Mutation: a dot after a number always belongs to it.
NumberEnd_Dot(k) ==
    LET dot == EndOf(Digits, k)
    IN  IF get(dot) = "." THEN EndOf(Digits, dot + 1) ELSE dot

\* A dot belongs to the number only when a digit follows it.
NumberEnd(k) ==
    LET dot == EndOf(Digits, k)
    IN  IF get(dot) = "." /\ get(dot + 1) \in Digits THEN EndOf(Digits, dot + 1) ELSE dot

Number ==
    /\ Reading /\ chars[i] \in Digits
    /\ LET e == NumberEnd(i)
           dot == EndOf(Digits, i)
           whole == SubSeq(chars, i, dot - 1)
           fraction == SubSeq(chars, dot + 1, e - 1)
       IN  IF get(e) \in Units /\ get(e + 1) \notin Alphanumeric
           THEN Push("Duration", parse_duration(whole, fraction, get(e)), e + 1)
           ELSE IF get(e) \in Alphanumeric THEN Fail(line, column)
           ELSE Push("Number", <<whole, fraction>>, e)

Word ==
    /\ Reading /\ chars[i] \in Letters
    /\ LET e == EndOf(Alphanumeric, i) IN Push("Ident", SubSeq(chars, i, e - 1), e)

Symbol ==
    /\ Reading /\ chars[i] \notin {"NL", "SP", "#", "QUOTE"} \cup Alphanumeric
    /\ IF <<chars[i], get(i + 1)>> \in TwoChars THEN Push("Mark", SubSeq(chars, i, i + 1), i + 2)
       ELSE IF chars[i] \in OneChar THEN Push("Mark", <<chars[i]>>, i + 1)
       ELSE Fail(line, column)

Eof ==
    /\ status = "lexing" /\ i > Len(chars)
    /\ tokens' = Append(tokens, [kind |-> "Eof", value |-> <<>>, line |-> line, column |-> column,
                                 from |-> i, to |-> i])
    /\ status' = "done"
    /\ UNCHANGED <<chars, i, line, column, error>>

Next == Newline \/ Blank \/ Comment \/ String \/ Number \/ Word \/ Symbol \/ Eof

----------------------------------------------------------------------------
(* Properties.                                                             *)

\* The line and column of a character, counted from the text.
LineOf(k) == 1 + Cardinality({m \in 1..(k - 1) : chars[m] = "NL"})
ColumnOf(k) ==
    LET newlines == {m \in 1..(k - 1) : chars[m] = "NL"}
    IN  IF newlines = {} THEN k ELSE k - CHOOSE m \in newlines : \A n \in newlines : n <= m

\* Every token carries the line and column of its first character, and an
\* error those of a character of the text or of its end, on the line the
\* lexer had reached ("Every error carries line and column").
PositionsAreTrue ==
    /\ \A k \in DOMAIN tokens :
          tokens[k].kind # "Eof" => /\ tokens[k].line = LineOf(tokens[k].from)
                                    /\ tokens[k].column = ColumnOf(tokens[k].from)
    /\ status = "error" =>
          \E k \in i..(Len(chars) + 1) : error = [line |-> LineOf(k), column |-> ColumnOf(k)]

\* The characters from a to b spell a token.
IsWord(a, b) == chars[a] \in Letters /\ \A k \in a..b : chars[k] \in Alphanumeric
IsNumber(a, b) ==
    /\ chars[a] \in Digits /\ chars[b] \in Digits
    /\ \A k \in a..b : chars[k] \in Digits \cup {"."}
    /\ Cardinality({k \in a..b : chars[k] = "."}) <= 1
IsDuration(a, b) == a < b /\ IsNumber(a, b - 1) /\ chars[b] \in Units
IsMark(a, b) == SubSeq(chars, a, b) \in TwoChars \cup {<<c>> : c \in OneChar}
IsLexeme(a, b) == IsWord(a, b) \/ IsNumber(a, b) \/ IsDuration(a, b) \/ IsMark(a, b)

\* The characters between two tokens are blanks and comments.
IsGap(a, b) ==
    \A k \in a..b : chars[k] \in {"SP", "NL"}
                    \/ \E m \in a..k : chars[m] = "#" /\ \A n \in m..k : chars[n] # "NL"

\* The tokens are the text: each but a string is the longest one that starts
\* where it does, and nothing but blanks and comments lies between them.
TokensAreTheText ==
    \A k \in DOMAIN tokens :
        LET t == tokens[k]
            after == IF k = 1 THEN 1 ELSE tokens[k - 1].to + 1
        IN  /\ after <= t.from
            /\ IsGap(after, t.from - 1)
            /\ t.kind \notin {"Str", "Eof"} =>
                  /\ IsLexeme(t.from, t.to)
                  /\ \A b \in (t.to + 1)..Len(chars) : ~IsLexeme(t.from, b)
=============================================================================
