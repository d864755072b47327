---------------------------- MODULE MCKernelRun ----------------------------
(* Small instances of KernelRun for TLC. *)
EXTENDS KernelRun

\* Every combination of compensations a bundle may declare.
AllBundles == [Steps -> Declared]
\* Nothing to compensate.
PlainBundle == {[s \in Steps |-> "none"]}
\* Every step declares a compensation that resolves.
CompensatedBundle == {[s \in Steps |-> "resolves"]}

\* Two actions with a key, proposed with different bodies, and one without.
ThreeActions ==
    {[key |-> "k", hash |-> 1], [key |-> "k", hash |-> 2], [key |-> NoKey, hash |-> 3]}
OneAction == {[key |-> NoKey, hash |-> 1]}
NoActions == {}

NoDims == {}
TwoDims == {"tokens", "usd"}
NoCeiling == [d \in Dims |-> Unlimited]
TightCeiling == [d \in Dims |-> IF d = "tokens" THEN 3 ELSE 2]
NoUsages == {}
SmallUsages == {[d \in Dims |-> IF d = "tokens" THEN 2 ELSE 1],
                [d \in Dims |-> IF d = "tokens" THEN 1 ELSE 2]}
=============================================================================
