----------------------------- MODULE JsonNumber -----------------------------
(***************************************************************************)
(* What a number of a payload goes through on its way to the database and  *)
(* back (external: serde_json 1.0 without its float_roundtrip feature).    *)
(* It is written as the shortest decimal that stands for it, and read by   *)
(* taking the digits as one integer, rounding that to a float, and         *)
(* dividing by a power of ten, which rounds again.                         *)
(*                                                                         *)
(* A float is a pair <<m, k>> for m / 2^k with m of Precision bits, 53 in  *)
(* the code.  Powers of ten are exact, as 1..10^22 are at 53 bits.  Only   *)
(* positive numbers below 2^Precision with up to MaxScale decimals.        *)
(***************************************************************************)
EXTENDS Integers

CONSTANTS Precision, MaxScale

ASSUME PrecisionAssumption == Precision \in 2..10 /\ MaxScale \in 0..5

Pow[base \in {2, 10}, n \in 0..31] == IF n = 0 THEN 1 ELSE base * Pow[base, n - 1]
Low == Pow[2, Precision - 1]
High == Pow[2, Precision]

\* The float nearest to the fraction num / den, ties to even.
Nearest(num, den) ==
    LET k == CHOOSE k \in 0..16 : Low * den <= num * Pow[2, k] /\ num * Pow[2, k] < High * den
        m == (num * Pow[2, k]) \div den
        twice == 2 * ((num * Pow[2, k]) % den)
        up == twice > den \/ (twice = den /\ m % 2 = 1)
    IN  IF ~up THEN <<m, k>> ELSE IF m + 1 = High THEN <<Low, k - 1>> ELSE <<m + 1, k>>

Add(x, y) ==
    LET k == IF x[2] < y[2] THEN y[2] ELSE x[2]
    IN  Nearest(x[1] * Pow[2, k - x[2]] + y[1] * Pow[2, k - y[2]], Pow[2, k])

\* The integer nearest to n that Precision bits hold.
RoundInteger(n) ==
    LET s == CHOOSE s \in 0..14 : n < High * Pow[2, s] /\ (s = 0 \/ n >= High * Pow[2, s - 1])
        m == n \div Pow[2, s]
        twice == 2 * (n % Pow[2, s])
        up == twice > Pow[2, s] \/ (twice = Pow[2, s] /\ m % 2 = 1)
    IN  (IF up THEN m + 1 ELSE m) * Pow[2, s]

\* The digits of x and how many of them are decimals.
Shortest(x) ==
    LET Floor(d) == (x[1] * Pow[10, d]) \div Pow[2, x[2]]
        StandFor(d) == {n \in {Floor(d), Floor(d) + 1} : n > 0 /\ Nearest(n, Pow[10, d]) = x}
        Distance(n, d) == LET gap == n * Pow[2, x[2]] - x[1] * Pow[10, d] IN IF gap < 0 THEN -gap ELSE gap
        d == CHOOSE d \in 0..MaxScale : StandFor(d) # {} /\ \A c \in 0..(d - 1) : StandFor(c) = {}
    IN  [digits |-> CHOOSE n \in StandFor(d) : \A o \in StandFor(d) : Distance(n, d) <= Distance(o, d),
         decimals |-> d]

Parse(digits, decimals) == Nearest(RoundInteger(digits), Pow[10, decimals])

Reparse(x) == Parse(Shortest(x).digits, Shortest(x).decimals)
=============================================================================
