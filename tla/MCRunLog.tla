------------------------------ MODULE MCRunLog ------------------------------
(* Instances of RunLog: floats of 10 bits. *)
EXTENDS RunLog

Quarters == {25, 50}       \* costs whose sums a float of 10 bits prints in three digits
SomeCents == {4, 7}        \* 0.04 + 0.07, which it does not hold exactly

\* A log that is damaged, and a log that is read while it grows.
DamagedOrRead ==
    {[readers |-> {}, faults |-> {"change", "lose", "swap"},
      payloads |-> {"small", "oversized", "unbounded"}],
     [readers |-> {"cli", "follower"}, faults |-> {}, payloads |-> {"small"}]}
LeftAlone == {[readers |-> {}, faults |-> {}, payloads |-> {"small"}]}
=============================================================================
