---------------------------- MODULE ProcessProofs ----------------------------
(***************************************************************************)
(* The two long-running processes around a run.                            *)
(*                                                                         *)
(* The gateway: a connector behind its guards, for every number of         *)
(* concurrent calls and probers, every threshold and every pair of         *)
(* periods.  First the breaker alone, then that the connector's calls      *)
(* drive it by its own steps, then the canary.                             *)
(*                                                                         *)
(* The kernel: one that is up has its one key and its whole schema,        *)
(* whatever starts were cut short, and a signature check sees the          *)
(* directory of trusted keys as it is.                                     *)
(***************************************************************************)
EXTENDS Connector, KernelProcess, SequenceTheorems, TLAPS

\* What a leaf may take of the SMT solver, unless it says otherwise.
USE SMTT(30)


-----------------------------------------------------------------------------
(* The breaker.                                                            *)

\* What the closed circuit has counted is exactly the streak, and the trial of
\* a half-open circuit is the one call since it opened.
Counted ==
    /\ state \in {"closed", "open", "half_open"}
    /\ failures \in Nat
    /\ backoff \in Base .. MaxPeriod
    /\ left \in Nat
    /\ flight \in [Calls -> {"idle", "closed", "half_open"}]
    /\ streak \in Nat
    /\ trials \in Nat
    /\ state = "closed" => /\ failures = streak
                           /\ failures < Threshold
                           /\ trials = 0
    /\ state = "open" => trials = 0
    /\ state = "half_open" => trials = 1
    /\ state # "closed" => streak >= Threshold

\* The trial of a half-open circuit is taken.
Busy == trialBusy \in BOOLEAN /\ (state = "half_open" => trialBusy)

Inv == Counted /\ Busy

\* A new breaker (New) has counted nothing.
LEMMA InvInit == Init => Inv
  <1>1. Init => Counted
    BY BreakerAssumption DEF Init, Counted
  <1>2. Init => Busy
    BY Zenon DEF Init, Busy
  <1> QED
    BY <1>1, <1>2, Zenon DEF Inv

\* The jittered period is a number of units.
LEMMA JitteredNat ==
  ASSUME NEW d \in Nat, NEW x \in jittered(d)
  PROVE  x \in Nat
  BY DEF jittered

\* Opening the circuit with a period in range keeps the types.
LEMMA OpenTyped ==
  ASSUME NEW d \in Base .. MaxPeriod, open(d)
  PROVE  /\ state' = "open" /\ trials' = 0
         /\ backoff' \in Base .. MaxPeriod
         /\ left' \in Nat
  <1>1. d \in Nat
    BY BreakerAssumption
  <1>2. left' \in Nat
    BY <1>1, JitteredNat, Zenon DEF open
  <1> QED
    BY <1>2, Zenon DEF open

\* Doubling stops at the longest period.
LEMMA DoubledInRange ==
  ASSUME Counted
  PROVE  Doubled \in Base .. MaxPeriod
  BY BreakerAssumption DEF Counted, Doubled

\* Allow, the reports and the passing of time keep the counts.
LEMMA CountedStep == Inv /\ [Next]_vars => Counted'
  <1> SUFFICES ASSUME Counted, Busy, [Next]_vars
               PROVE  Counted'
    BY Zenon DEF Inv
  <1> USE BreakerAssumption DEF Counted
  <1>1. CASE Tick
    BY <1>1 DEF Tick
  <1>2. CASE Restart
    BY <1>2 DEF Restart
  <1>3. ASSUME NEW c \in Calls, Allow(c)
        PROVE  Counted'
    <2>1. CASE state = "closed"
      BY <1>3, <2>1, Zenon DEF Allow
    <2>2. CASE state # "closed"
      <3>1. /\ state' = "half_open"
            /\ trials' = trials + 1
            /\ flight' = [flight EXCEPT ![c] = "half_open"]
            /\ UNCHANGED <<failures, backoff, left, streak>>
        BY <1>3, <2>2, Zenon DEF Allow
      <3>2. state = "half_open" => trialBusy
        BY Zenon DEF Busy
      <3>3. state = "open"
        BY <1>3, <2>2, <3>2, Zenon DEF Allow
      <3> QED
        BY <2>2, <3>1, <3>3
    <2> QED
      BY <2>1, <2>2, Zenon
  <1>4. ASSUME NEW c \in Calls, Success(c)
        PROVE  Counted'
    BY <1>4 DEF Success
  <1>5. ASSUME NEW c \in Calls, Failure(c)
        PROVE  Counted'
    <2>1. CASE state = "closed" /\ failures + 1 >= Threshold
      <3>1. open(Base)
        BY <1>5, <2>1, Zenon DEF Failure
      <3>2. Base \in Base .. MaxPeriod
        OBVIOUS
      <3> QED
        BY <1>5, <2>1, <3>1, <3>2, OpenTyped DEF Failure
    <2>2. CASE state = "closed" /\ failures + 1 < Threshold
      BY <1>5, <2>2 DEF Failure
    <2>3. CASE state = "half_open"
      <3>1. open(Doubled) /\ UNCHANGED failures
        BY <1>5, <2>3, Zenon DEF Failure
      <3>2. Doubled \in Base .. MaxPeriod
        BY DoubledInRange, Zenon
      <3> QED
        BY <1>5, <2>3, <3>1, <3>2, OpenTyped DEF Failure
    <2>4. CASE state = "open"
      BY <1>5, <2>4 DEF Failure
    <2> QED
      BY <2>1, <2>2, <2>3, <2>4
  <1>6. ASSUME NEW c \in Calls, DeterministicError(c)
        PROVE  Counted'
    BY <1>6, Zenon DEF DeterministicError
  <1>7. CASE UNCHANGED vars
    BY <1>7, Zenon DEF vars
  <1> QED
    BY <1>1, <1>2, <1>3, <1>4, <1>5, <1>6, <1>7, Zenon DEF Next

\* ... and the mark of the trial.
LEMMA BusyStep == Busy /\ [Next]_vars => Busy'
  <1> SUFFICES ASSUME Busy, [Next]_vars
               PROVE  Busy'
    OBVIOUS
  <1> USE DEF Busy
  <1>1. CASE Tick
    BY <1>1, Zenon DEF Tick
  <1>2. CASE Restart
    BY <1>2, Zenon DEF Restart
  <1>3. ASSUME NEW c \in Calls, Allow(c)
        PROVE  Busy'
    BY <1>3, Zenon DEF Allow
  <1>4. ASSUME NEW c \in Calls, Success(c)
        PROVE  Busy'
    BY <1>4, Zenon DEF Success
  <1>5. ASSUME NEW c \in Calls, Failure(c)
        PROVE  Busy'
    BY <1>5, Zenon DEF Failure, open
  <1>6. ASSUME NEW c \in Calls, DeterministicError(c)
        PROVE  Busy'
    BY <1>6, Zenon DEF DeterministicError
  <1>7. CASE UNCHANGED vars
    BY <1>7, Zenon DEF vars
  <1> QED
    BY <1>1, <1>2, <1>3, <1>4, <1>5, <1>6, <1>7, Zenon DEF Next

\* The breaker's invariant.
LEMMA BreakerInvariance == Spec => []Inv
  <1>1. Inv /\ [Next]_vars => Inv'
    BY CountedStep, BusyStep, Zenon DEF Inv
  <1> QED
    BY <1>1, InvInit, PTL DEF Spec

-----------------------------------------------------------------------------
(* The breaker in the connector.                                           *)

\* Each step of the connector is a step of the breaker or leaves it alone: handleCall,
\* the canary and a restart of the gateway touch it through its methods only.
LEMMA ConnectorStep == [ConnectorNext]_connectorVars => [Next]_vars
<1> SUFFICES ASSUME [ConnectorNext]_connectorVars PROVE [Next]_vars
  OBVIOUS
<1>1. ASSUME NEW c \in Calls, PassQuarantine(c) \/ Enter(c) \/ Report(c)
      PROVE  [Next]_vars
  BY <1>1, Zenon DEF PassQuarantine, Enter, Report, Next
<1>2. ASSUME (Tick /\ UNCHANGED <<canaryVars, callVars>>) \/ CanaryStep \/ GatewayRestart
      PROVE  [Next]_vars
  BY <1>2, Zenon DEF CanaryStep, GatewayRestart, Next
<1>3. ASSUME UNCHANGED connectorVars
      PROVE  UNCHANGED vars
  BY <1>3, Zenon DEF connectorVars
<1> QED
  BY <1>1, <1>2, <1>3, Zenon DEF ConnectorNext

\* The connector implements the breaker.
THEOREM ConnectorDrivesBreaker == ConnectorSpec => Spec
<1>1. ConnectorInit => Init
  BY Zenon DEF ConnectorInit
<1> QED
  BY <1>1, ConnectorStep, PTL DEF ConnectorSpec, Spec

\* However the reports of concurrent calls interleave, a circuit that is not
\* closed has seen Threshold upstream errors with no success between them
\* (breaker.go, Failure).
THEOREM CircuitOpensOnlyOnAStreak == ConnectorSpec => []OpenIsEarned
<1>1. Inv => OpenIsEarned
  BY Zenon DEF Inv, Counted, OpenIsEarned
<1> QED
  BY <1>1, BreakerInvariance, ConnectorDrivesBreaker, PTL

\* However many calls wait for the open period to pass, one of them is let
\* through before the circuit opens again or closes (breaker.go, Allow).
THEOREM OneTrialIsLetThrough == ConnectorSpec => []OneTrialPerOpening
<1>1. Inv => OneTrialPerOpening
  <2>1. Counted => trials <= 1 /\ (state = "open" => trials = 0)
    BY DEF Counted
  <2> QED
    BY <2>1, Zenon DEF Inv, Busy, OneTrialPerOpening
<1> QED
  BY <1>1, BreakerInvariance, ConnectorDrivesBreaker, PTL

-----------------------------------------------------------------------------
(* The canary.                                                             *)

\* Latest keeps the end of a list.
LEMMA LatestIsEnd ==
    ASSUME NEW S, NEW s \in Seq(S), NEW n \in Nat
    PROVE  LET m == Len(C!Latest(s, n))
           IN  /\ C!Latest(s, n) \in Seq(S)
               /\ m = IF Len(s) > n THEN n ELSE Len(s)
               /\ \A i \in 1 .. m : C!Latest(s, n)[i] = s[Len(s) - m + i]
<1> DEFINE k == IF Len(s) > n THEN Len(s) - n + 1 ELSE 1
<1>1. Len(s) \in Nat /\ k \in Nat /\ k >= 1 /\ k <= Len(s) + 1
  OBVIOUS
<1>2. \A i \in k .. Len(s) : s[i] \in S
  BY <1>1
<1>3. C!Latest(s, n) = SubSeq(s, k, Len(s))
  BY Zenon DEF C!Latest
<1>4. Len(s) - k + 1 = IF Len(s) > n THEN n ELSE Len(s)
  BY <1>1
<1> HIDE DEF k
<1>5. /\ SubSeq(s, k, Len(s)) \in Seq(S)
      /\ Len(SubSeq(s, k, Len(s))) = IF k <= Len(s) THEN Len(s) - k + 1 ELSE 0
      /\ \A i \in 1 .. Len(s) - k + 1 : SubSeq(s, k, Len(s))[i] = s[k + i - 1]
  BY <1>1, <1>2, SubSeqProperties
<1>6. Len(SubSeq(s, k, Len(s))) = Len(s) - k + 1
  BY <1>1, <1>5
<1>7. ASSUME NEW i \in 1 .. Len(s) - k + 1
      PROVE  SubSeq(s, k, Len(s))[i] = s[Len(s) - (Len(s) - k + 1) + i]
  <2>1. k + i - 1 = Len(s) - (Len(s) - k + 1) + i
    BY <1>1
  <2> QED
    BY <1>5, <2>1, Zenon
<1> QED
  BY <1>3, <1>4, <1>5, <1>6, <1>7, Zenon

\* When there are n verdicts, the latest n are the last n.
LEMMA LatestFull ==
    ASSUME NEW S, NEW s \in Seq(S), NEW n \in Nat, Len(s) >= n
    PROVE  /\ C!Latest(s, n) \in Seq(S) /\ Len(C!Latest(s, n)) = n
           /\ \A i \in 1 .. n : C!Latest(s, n)[i] = s[Len(s) - n + i]
<1> DEFINE t == C!Latest(s, n)
<1>1. /\ t \in Seq(S) /\ Len(t) = (IF Len(s) > n THEN n ELSE Len(s))
      /\ \A i \in 1 .. Len(t) : t[i] = s[Len(s) - Len(t) + i]
  BY LatestIsEnd, Zenon
<1> HIDE DEF t
<1>2. Len(t) = n
  BY <1>1
<1>3. t \in Seq(S) /\ Len(t) = n /\ \A i \in 1 .. n : t[i] = s[Len(s) - n + i]
  BY <1>1, <1>2, Zenon
<1> QED
  BY <1>3, Zenon DEF t

\* No probe holds a verdict, or the one prober p does.
LEMMA WhoHolds ==
    ASSUME CanaryInv, NEW p \in Probers, probe[p] # "idle"
    PROVE  /\ \A q \in Probers \ {p} : probe[q] = "idle"
           /\ Applied = IF probe[p] \in C!Verdicts THEN Len(seen) - 1 ELSE Len(seen)
<1>1. \A q \in Probers \ {p} : probe[q] = "idle"
  BY Zenon DEF CanaryInv
<1>2. "idle" \notin C!Verdicts
  BY Zenon DEF C!Verdicts
<1> QED
  BY <1>1, <1>2 DEF Applied

\* A new canary has counted nothing.
LEMMA CanaryInit == ConnectorInit => CanaryInv
<1> SUFFICES ASSUME ConnectorInit PROVE CanaryInv
  OBVIOUS
<1>1. /\ upstream = "pass" /\ status = "healthy" /\ probeFailures = 0 /\ passes = 0
      /\ probe = [p \in Probers |-> "idle"] /\ seen = <<>>
  BY Zenon DEF ConnectorInit, C!Init
<1>2. Applied = 0
  BY <1>1, Zenon DEF Applied, C!Verdicts
<1> QED
  BY <1>1, <1>2, CanaryAssumption DEF CanaryInv, RunOf, C!Verdicts

\* Ask: the verdict is seen and held, and none more is applied.
LEMMA AskKeepsRuns ==
    ASSUME CanaryInv, NEW p \in Probers, C!Ask(p)
    PROVE  CanaryInv'
<1>1. PICK v \in C!Verdicts : /\ probe' = [probe EXCEPT ![p] = v]
                              /\ seen' = C!Latest(Append(seen, v), QuarantineAfter + 2)
  BY Zenon DEF C!Ask, CanaryInv, C!Verdicts
<1>2. UNCHANGED <<upstream, stable, status, probeFailures, passes>> /\ probe[p] = "waiting"
  BY Zenon DEF C!Ask
<1> DEFINE s == Append(seen, v)
<1>3. s \in Seq(C!Verdicts) /\ Len(s) = Len(seen) + 1 /\ Len(seen) \in Nat /\ s[Len(s)] = v
      /\ \A i \in 1 .. Len(seen) : s[i] = seen[i]
  BY DEF CanaryInv
<1>4. QuarantineAfter + 2 \in Nat
  BY CanaryAssumption
<1> HIDE DEF s
<1>5. /\ seen' \in Seq(C!Verdicts)
      /\ Len(seen') = IF Len(s) > QuarantineAfter + 2 THEN QuarantineAfter + 2 ELSE Len(s)
      /\ \A i \in 1 .. Len(seen') : seen'[i] = s[Len(s) - Len(seen') + i]
  BY <1>1, <1>3, <1>4, LatestIsEnd, Zenon DEF s
<1>6. \A q \in Probers \ {p} : probe[q] = "idle" /\ probe'[q] = "idle"
  BY <1>1, <1>2, WhoHolds DEF CanaryInv
<1>7. probe' \in [Probers -> {"idle", "waiting"} \cup C!Verdicts] /\ probe'[p] = v
  BY <1>1, Zenon DEF CanaryInv
<1>8. Applied = Len(seen)
  BY <1>2, WhoHolds, Zenon DEF C!Verdicts
<1>9. Applied' = Len(seen') - 1
  BY <1>7, Zenon DEF Applied
<1>10. Len(seen') \in Nat /\ Len(seen') > 0 /\ seen'[Len(seen')] = v
  <2>1. Len(seen') \in Nat /\ Len(seen') > 0
    <3>1. QuarantineAfter + 2 > 0 /\ Len(s) \in Nat /\ Len(s) > 0
      BY <1>3, CanaryAssumption
    <3>2. Len(seen') = QuarantineAfter + 2 \/ Len(seen') = Len(s)
      BY <1>5, Zenon
    <3> QED
      BY <1>4, <3>1, <3>2, Zenon
  <2>2. Len(seen') \in 1 .. Len(seen') /\ Len(s) - Len(seen') + Len(seen') = Len(s)
    BY <1>3, <2>1
  <2>3. seen'[Len(seen')] = s[Len(s) - Len(seen') + Len(seen')]
    BY <1>5, <2>2, Zenon
  <2> QED
    BY <1>3, <2>1, <2>2, <2>3
<1>11. ASSUME NEW n \in Nat, NEW x, n <= QuarantineAfter + 1, n <= Len(seen),
              \A i \in Len(seen) - n + 1 .. Len(seen) : seen[i] = x
       PROVE  /\ n <= Len(seen') - 1
              /\ \A i \in Len(seen') - 1 - n + 1 .. Len(seen') - 1 : seen'[i] = x
  <2>1. n <= Len(seen') - 1
    BY <1>3, <1>5, <1>11, CanaryAssumption
  <2>2. ASSUME NEW i \in Len(seen') - 1 - n + 1 .. Len(seen') - 1
        PROVE  seen'[i] = x
    <3>1. i \in 1 .. Len(seen') /\ Len(s) - Len(seen') + i \in Len(seen) - n + 1 .. Len(seen)
      BY <1>3, <1>10, <1>11, <2>1
    <3>2. Len(s) - Len(seen') + i \in 1 .. Len(seen)
      <4>1. Len(seen) \in Nat /\ Len(seen) - n + 1 >= 1
        BY <1>3, <1>11
      <4> QED
        BY <3>1, <4>1
    <3> QED
      BY <1>3, <1>5, <1>11, <3>1, <3>2, Zenon
  <2> QED
    BY <2>1, <2>2
<1>12. RunOf(probeFailures, "fail")'
  <2>1. probeFailures \in Nat /\ probeFailures <= QuarantineAfter + 1 /\ RunOf(probeFailures, "fail")
    BY CanaryAssumption DEF CanaryInv
  <2> QED
    BY <1>2, <1>8, <1>9, <1>11, <2>1, Zenon DEF RunOf
<1>13. status = "quarantined" => Applied' > 0 /\ RunOf(passes, "pass")'
  <2> SUFFICES ASSUME status = "quarantined" PROVE Applied' > 0 /\ RunOf(passes, "pass")'
    OBVIOUS
  <2>1. passes \in Nat /\ passes <= QuarantineAfter + 1 /\ RunOf(passes, "pass") /\ Len(seen) > 0
    BY <1>8, CanaryAssumption DEF CanaryInv
  <2>2. Applied' > 0
    BY <1>3, <1>5, <1>9, <2>1, CanaryAssumption
  <2> QED
    BY <1>2, <1>8, <1>9, <1>11, <2>1, <2>2, Zenon DEF RunOf
<1>14. /\ \A q, r \in Probers : probe'[q] # "idle" /\ probe'[r] # "idle" => q = r
       /\ \A q \in Probers : probe'[q] \in C!Verdicts => seen'[Len(seen')] = probe'[q]
  BY <1>6, <1>7, <1>10, Zenon DEF C!Verdicts
<1> QED
  BY <1>2, <1>5, <1>7, <1>10, <1>12, <1>13, <1>14 DEF CanaryInv

\* Apply: the verdict held joins those applied, and extends the run it belongs to or
\* ends it.
LEMMA ApplyKeepsRuns ==
    ASSUME CanaryInv, NEW p \in Probers, C!Apply(p)
    PROVE  CanaryInv'
<1>1. /\ probe[p] \in C!Verdicts /\ probe' = [probe EXCEPT ![p] = "idle"]
      /\ UNCHANGED <<upstream, stable, seen>>
  BY DEF C!Apply
<1>2. /\ probe[p] # "idle" /\ probe[p] \in {"pass", "fail"}
      /\ \A q \in Probers \ {p} : probe[q] = "idle" /\ Applied = Len(seen) - 1
  BY <1>1, WhoHolds, Zenon DEF C!Verdicts
<1>3. Applied = Len(seen) - 1 /\ \A q \in Probers : probe'[q] = "idle"
  BY <1>1, <1>2, WhoHolds DEF CanaryInv
<1>4. Applied' = Len(seen)
  BY <1>1, <1>3, Zenon DEF Applied, C!Verdicts
<1>5. Len(seen) \in Nat /\ Len(seen) > 0 /\ seen[Len(seen)] = probe[p]
  BY <1>1 DEF CanaryInv
<1>6. probe' \in [Probers -> {"idle", "waiting"} \cup C!Verdicts]
  BY <1>1, Zenon DEF CanaryInv
<1>7. ASSUME NEW n \in Nat, RunOf(n, probe[p])
      PROVE  /\ n + 1 <= Applied'
             /\ \A i \in Applied' - (n + 1) + 1 .. Applied' : seen'[i] = probe[p]
             /\ \A i \in Applied' - n + 1 .. Applied' : seen'[i] = probe[p]
  <2>1. n <= Len(seen) - 1 /\ \A i \in Len(seen) - 1 - n + 1 .. Len(seen) - 1 : seen[i] = probe[p]
    BY <1>3, <1>7 DEF RunOf
  <2>2. \A i \in Len(seen) - (n + 1) + 1 .. Len(seen) : seen[i] = probe[p]
    BY <1>5, <2>1
  <2> QED
    BY <1>1, <1>4, <1>5, <2>1, <2>2
<1>8. 0 <= Applied' /\ \A x : \A i \in Applied' - 0 + 1 .. Applied' : seen'[i] = x
  BY <1>4, <1>5
<1>9. /\ probeFailures \in Nat /\ probeFailures <= QuarantineAfter /\ passes \in Nat /\ passes <= 2
      /\ RunOf(probeFailures, "fail") /\ (status = "quarantined" => RunOf(passes, "pass"))
      /\ QuarantineAfter \in Nat \ {0}
  BY CanaryAssumption DEF CanaryInv
<1>10. /\ probeFailures' \in 0 .. QuarantineAfter /\ passes' \in 0 .. 2
       /\ status' \in {"healthy", "failed", "quarantined"}
  BY <1>9 DEF C!Apply, C!released, C!Counted, CanaryInv
<1>11. RunOf(probeFailures, "fail")'
  <2>1. CASE probe[p] = "pass"
    <3>1. probeFailures' = 0
      BY <2>1, Zenon DEF C!Apply, C!released
    <3> QED
      BY <1>8, <3>1, Zenon DEF RunOf
  <2>2. CASE probe[p] = "fail"
    <3>1. probeFailures' = IF probeFailures < QuarantineAfter THEN probeFailures + 1
                           ELSE QuarantineAfter
      BY <2>2, Zenon DEF C!Apply, C!Counted
    <3>2. CASE probeFailures' = probeFailures + 1
      BY <1>7, <1>9, <2>2, <3>2 DEF RunOf
    <3>3. CASE probeFailures' = probeFailures
      BY <1>4, <1>5, <1>7, <1>9, <2>2, <3>3 DEF RunOf
    <3> QED
      BY <1>9, <3>1, <3>2, <3>3
  <2> QED
    BY <1>2, <2>1, <2>2, Zenon
<1>12. status' = "quarantined" => Applied' > 0 /\ RunOf(passes, "pass")'
  <2> SUFFICES ASSUME status' = "quarantined" PROVE Applied' > 0 /\ RunOf(passes, "pass")'
    OBVIOUS
  <2>1. CASE probe[p] = "pass"
    <3>1. status = "quarantined" /\ passes' = IF passes < 2 THEN passes + 1 ELSE 2
      BY <2>1, Zenon DEF C!Apply, C!released, C!Counted
    <3>2. CASE passes' = passes + 1
      BY <1>4, <1>5, <1>7, <1>9, <2>1, <3>1, <3>2 DEF RunOf
    <3>3. CASE passes' = passes
      BY <1>4, <1>5, <1>7, <1>9, <2>1, <3>1, <3>3 DEF RunOf
    <3> QED
      BY <1>9, <3>1, <3>2, <3>3
  <2>2. CASE probe[p] = "fail"
    <3>1. passes' = 0
      BY <2>2, Zenon DEF C!Apply
    <3> QED
      BY <1>4, <1>5, <1>8, <3>1 DEF RunOf
  <2> QED
    BY <1>2, <2>1, <2>2
<1>13. /\ \A q, r \in Probers : probe'[q] # "idle" /\ probe'[r] # "idle" => q = r
       /\ \A q \in Probers : probe'[q] \notin C!Verdicts
  BY <1>3 DEF C!Verdicts
<1>14. upstream' \in C!Verdicts /\ seen' \in Seq(C!Verdicts)
  BY <1>1, Zenon DEF CanaryInv
<1> QED
  BY <1>6, <1>10, <1>11, <1>12, <1>13, <1>14 DEF CanaryInv

\* Every step of the connector keeps the canary's invariant: probes of one connector
\* are serialised, and a release or a restart starts the counts anew.
LEMMA CanaryStepKeeps == CanaryInv /\ [ConnectorNext]_connectorVars => CanaryInv'
<1> SUFFICES ASSUME CanaryInv, [ConnectorNext]_connectorVars PROVE CanaryInv'
  OBVIOUS
<1>1. ASSUME UNCHANGED canaryVars
      PROVE  CanaryInv'
  BY <1>1 DEF canaryVars, CanaryInv, RunOf, Applied
<1>2. ASSUME C!Release
      PROVE  CanaryInv'
  <2>1. /\ status' = "healthy" /\ probeFailures' = 0 /\ passes' = 0
        /\ UNCHANGED <<upstream, stable, probe, seen>>
    BY <1>2, Zenon DEF C!Release, C!released
  <2>2. Applied' = Applied /\ Applied \in Int /\ Applied >= 0
    BY <2>1 DEF Applied, CanaryInv
  <2> QED
    BY <2>1, <2>2, CanaryAssumption DEF CanaryInv, RunOf
<1>3. ASSUME C!Change
      PROVE  CanaryInv'
  <2>1. upstream' \in C!Verdicts /\ UNCHANGED <<status, probeFailures, passes, probe, seen>>
    BY <1>3 DEF C!Change
  <2> QED
    BY <2>1, Zenon DEF CanaryInv, RunOf, Applied
<1>4. ASSUME NEW p \in Probers, C!Begin(p)
      PROVE  CanaryInv'
  <2>1. /\ \A q \in Probers : probe[q] = "idle"
        /\ probe' = [probe EXCEPT ![p] = "waiting"]
        /\ UNCHANGED <<upstream, stable, status, probeFailures, passes, seen>>
    BY <1>4 DEF C!Begin
  <2>2. /\ probe' \in [Probers -> {"idle", "waiting"} \cup C!Verdicts]
        /\ \A q \in Probers : probe'[q] = IF q = p THEN "waiting" ELSE "idle"
    BY <2>1, Zenon DEF CanaryInv
  <2>3. Applied' = Applied
    BY <2>1, <2>2 DEF Applied, C!Verdicts
  <2>4. \A q \in Probers : probe'[q] \notin C!Verdicts
    BY <2>2, Zenon DEF C!Verdicts
  <2> QED
    BY <2>1, <2>2, <2>3, <2>4 DEF CanaryInv, RunOf
<1>5. ASSUME GatewayRestart
      PROVE  CanaryInv'
  <2>1. /\ status' = "healthy" /\ probeFailures' = 0 /\ passes' = 0
        /\ probe' = [p \in Probers |-> "idle"] /\ seen' = <<>> /\ UNCHANGED upstream
    BY <1>5, Zenon DEF GatewayRestart, C!released
  <2>2. Applied' = 0
    BY <2>1 DEF Applied, C!Verdicts
  <2> QED
    BY <2>1, <2>2, CanaryAssumption DEF CanaryInv, RunOf, C!Verdicts
<1>6. ASSUME CanaryStep
      PROVE  CanaryInv'
  BY <1>2, <1>3, <1>4, <1>6, AskKeepsRuns, ApplyKeepsRuns DEF CanaryStep, C!Next
<1>7. ASSUME NEW c \in Calls, PassQuarantine(c) \/ Enter(c) \/ Report(c)
      PROVE  UNCHANGED canaryVars
  BY <1>7 DEF PassQuarantine, Enter, Report
<1>8. ASSUME UNCHANGED connectorVars
      PROVE  UNCHANGED canaryVars
  BY <1>8, Zenon DEF connectorVars
<1> QED
  BY <1>1, <1>5, <1>6, <1>7, <1>8 DEF ConnectorNext

\* What a step may do to the quarantine, from the invariant.
LEMMA QuarantineSteps ==
    CanaryInv /\ [ConnectorNext]_connectorVars =>
        [/\ status # "quarantined" /\ status' = "quarantined" =>
              /\ Len(seen) >= QuarantineAfter
              /\ \A i \in 1 .. QuarantineAfter : C!Latest(seen, QuarantineAfter)[i] = "fail"
         /\ status = "quarantined" /\ status' # "quarantined" /\ probe' # probe /\ seen' = seen =>
              C!Latest(seen, 2) = <<"pass", "pass">>]_connectorVars
<1> SUFFICES ASSUME CanaryInv, ConnectorNext, status' # status,
                    status = "quarantined" \/ status' = "quarantined"
             PROVE  /\ status # "quarantined" /\ status' = "quarantined" =>
                         /\ Len(seen) >= QuarantineAfter
                         /\ \A i \in 1 .. QuarantineAfter :
                               C!Latest(seen, QuarantineAfter)[i] = "fail"
                    /\ status = "quarantined" /\ status' # "quarantined"
                       /\ probe' # probe /\ seen' = seen =>
                         C!Latest(seen, 2) = <<"pass", "pass">>
  OBVIOUS
<1>1. CASE GatewayRestart
  <2>1. status' = "healthy" /\ seen' = <<>>
    BY <1>1, Zenon DEF GatewayRestart, C!released
  <2>2. status = "quarantined" => seen # <<>>
    BY DEF CanaryInv, Applied
  <2> QED
    BY <2>1, <2>2
<1>2. CASE C!Release
  BY <1>2, Zenon DEF C!Release, C!released
<1>3. ASSUME NEW p \in Probers, C!Apply(p)
      PROVE  /\ status # "quarantined" /\ status' = "quarantined" =>
                  /\ Len(seen) >= QuarantineAfter
                  /\ \A i \in 1 .. QuarantineAfter : C!Latest(seen, QuarantineAfter)[i] = "fail"
             /\ status = "quarantined" /\ status' # "quarantined" =>
                  C!Latest(seen, 2) = <<"pass", "pass">>
  <2>1. probe[p] \in C!Verdicts /\ probe[p] # "idle"
    BY <1>3 DEF C!Apply, C!Verdicts
  <2>2. /\ Applied = Len(seen) - 1 /\ seen \in Seq(C!Verdicts) /\ Len(seen) \in Nat
        /\ Len(seen) > 0 /\ seen[Len(seen)] = probe[p]
    BY <2>1, WhoHolds DEF CanaryInv
  <2>3. /\ probeFailures \in Nat /\ passes \in Nat /\ QuarantineAfter \in Nat \ {0}
        /\ RunOf(probeFailures, "fail") /\ (status = "quarantined" => RunOf(passes, "pass"))
    BY CanaryAssumption DEF CanaryInv
  <2>4. CASE status # "quarantined" /\ status' = "quarantined"
    <3>1. probe[p] = "fail" /\ probeFailures + 1 >= QuarantineAfter
      BY <1>3, <2>4 DEF C!Apply
    <3>2. Len(seen) >= QuarantineAfter
      BY <2>2, <2>3, <3>1 DEF RunOf
    <3>3. \A i \in Len(seen) - QuarantineAfter + 1 .. Len(seen) : seen[i] = "fail"
      BY <2>2, <2>3, <3>1 DEF RunOf
    <3>4. /\ Len(C!Latest(seen, QuarantineAfter)) = QuarantineAfter
          /\ \A i \in 1 .. QuarantineAfter : C!Latest(seen, QuarantineAfter)[i]
                                              = seen[Len(seen) - QuarantineAfter + i]
      <4>1. seen \in Seq(C!Verdicts) /\ QuarantineAfter \in Nat
        BY <2>2, <2>3, Zenon
      <4> QED
        BY <3>2, <4>1, LatestFull
    <3>5. \A i \in 1 .. QuarantineAfter :
             Len(seen) - QuarantineAfter + i \in Len(seen) - QuarantineAfter + 1 .. Len(seen)
      BY <2>2, <2>3
    <3> QED
      BY <2>4, <3>2, <3>3, <3>4, <3>5, Zenon
  <2>5. CASE status = "quarantined" /\ status' # "quarantined"
    <3>1. probe[p] = "pass" /\ passes + 1 >= 2
      BY <1>3, <2>5, Zenon DEF C!Apply
    <3>2. Len(seen) >= 2 /\ seen[Len(seen)] = "pass" /\ seen[Len(seen) - 1] = "pass"
      BY <2>2, <2>3, <2>5, <3>1 DEF RunOf
    <3>3. /\ C!Latest(seen, 2) \in Seq(C!Verdicts) /\ Len(C!Latest(seen, 2)) = 2
          /\ \A i \in 1 .. 2 : C!Latest(seen, 2)[i] = seen[Len(seen) - 2 + i]
      <4>1. seen \in Seq(C!Verdicts) /\ 2 \in Nat /\ Len(seen) >= 2
        BY <2>2, <3>2, Zenon
      <4> QED
        BY <4>1, LatestFull, Zenon
    <3>4. C!Latest(seen, 2)[1] = "pass" /\ C!Latest(seen, 2)[2] = "pass"
      <4>1. Len(seen) - 2 + 1 = Len(seen) - 1 /\ Len(seen) - 2 + 2 = Len(seen)
        BY <2>2
      <4> QED
        BY <3>2, <3>3, <4>1
    <3> QED
      BY <2>5, <3>3, <3>4
  <2> QED
    BY <2>4, <2>5, Zenon
<1>4. CASE CanaryStep
  BY <1>2, <1>3, <1>4, Zenon DEF CanaryStep, C!Next, C!Change, C!Begin, C!Ask
<1> QED
  BY <1>1, <1>4 DEF ConnectorNext, PassQuarantine, Enter, Report, canaryVars

\* A connector is quarantined on failures in a row alone, and let out by the canary on
\* passes in a row alone, however the ticker's probes, the operators' and the releases
\* interleave (canary.go, apply).
THEOREM QuarantineIsEarned == ConnectorSpec => TransitionsAreEarned
<1>1. ConnectorSpec => []CanaryInv
  BY CanaryInit, CanaryStepKeeps, PTL DEF ConnectorSpec
<1> QED
  BY <1>1, QuarantineSteps, PTL DEF ConnectorSpec, TransitionsAreEarned


----------------------------------------------------------------------------
\* The start.

\* The data directories a kernel is first started on.
LEMMA StartsClean == OpenInit => OpenInv
  <1> SUFFICES ASSUME OpenInit
               PROVE  OpenInv
    OBVIOUS
  <1> USE DEF OpenInit, Fresh, OfVersion1, Absent, Empty
  <1>1. OpenTypeOK
    <2>1. <<0, 0>> \in [1..2 -> 0..1] /\ <<1, 0>> \in [1..2 -> 0..1]
      OBVIOUS
    <2>2. \A u \in [1..2 -> 0..1], a \in BOOLEAN :
             [tables |-> a, column |-> FALSE, versions |-> u]
                 \in [tables: BOOLEAN, column: BOOLEAN, versions: [1..2 -> 0..1]]
      OBVIOUS
    <2>3. Fresh \in [tables: BOOLEAN, column: BOOLEAN, versions: [1..2 -> 0..1]]
      BY <2>1, <2>2, Zenon
    <2>4. OfVersion1 \in [tables: BOOLEAN, column: BOOLEAN, versions: [1..2 -> 0..1]]
      BY <2>1, <2>2, Zenon
    <2>5. db \in [tables: BOOLEAN, column: BOOLEAN, versions: [1..2 -> 0..1]]
      BY <2>3, <2>4, Zenon
    <2>6. /\ phase = "down" /\ version = 1 /\ cut = FALSE
          /\ directory \in {"absent", "valid", "invalid"}
      OBVIOUS
    <2>7. version \in 1..3
      BY <2>6
    <2> QED
      BY <2>5, <2>6, <2>7, Zenon DEF OpenTypeOK
  <1>2. OneKey
    BY Zenon DEF OneKey, Loading
  <1>3. SchemaRecorded
    BY DEF SchemaRecorded
  <1> QED
    BY <1>1, <1>2, <1>3, Zenon DEF OpenInv, StartsRecover

\* The steps that find or make the key.
LEMMA KeyStepsKeep ==
    ASSUME OpenInv, Start \/ LoadKey \/ GenerateKey \/ WriteKey
    PROVE  OpenInv'
  <1> USE DEF OpenInv, Absent, Empty
  <1>1. UNCHANGED <<db, directory, cut>> /\ phase' \notin {"migrate", "record", "up"}
    BY Zenon DEF Start, LoadKey, GenerateKey, WriteKey
  <1>2. OpenTypeOK'
    <2>1. phase' \in Loading \cup {"down", "key", "write_key", "failed"} /\ version' \in 1..3
      BY DEF OpenTypeOK, Loading, Start, LoadKey, GenerateKey, WriteKey
    <2> QED
      BY <1>1, <2>1 DEF OpenTypeOK
  <1>3. OneKey'
    <2>1. CASE Start
      BY <2>1 DEF Start, OneKey, Loading
    <2>2. CASE LoadKey
      BY <2>2, Zenon DEF LoadKey, OneKey, Loading
    <2>3. CASE GenerateKey
      <3>1. made = 0 /\ served = {}
        BY <2>3 DEF GenerateKey, OneKey
      <3>2. key' = 1 /\ made' = 1 /\ keyFile' = 0 /\ phase' = "write_key" /\ served' = {}
        BY <2>3, <3>1 DEF GenerateKey
      <3> QED
        BY <3>2 DEF OneKey, Loading
    <2>4. CASE WriteKey
      <3>1. keyFile = 0 /\ key = 1 /\ made = 1 /\ served = {}
        BY <2>4 DEF WriteKey, OneKey
      <3>2. key' = 1 /\ made' = 1 /\ keyFile' = 1 /\ phase' = "pub" /\ served' = {}
        BY <2>4, <3>1, Zenon DEF WriteKey
      <3> QED
        BY <3>2 DEF OneKey, Loading
    <2> QED
      BY <2>1, <2>2, <2>3, <2>4
  <1>4. SchemaRecorded'
    BY <1>1 DEF SchemaRecorded, Start, LoadKey, GenerateKey, WriteKey
  <1>5. StartsRecover'
    BY DEF StartsRecover, OneKey, Start, LoadKey, GenerateKey, WriteKey
  <1> QED
    BY <1>2, <1>3, <1>4, <1>5

\* The public half and directory.json.
LEMMA FileStepsKeep ==
    ASSUME OpenInv, OpenPublic \/ WritePublic \/ LoadDirectory \/ EditDirectory
    PROVE  OpenInv'
  <1> USE DEF OpenInv
  <1>1. UNCHANGED <<db, keyFile, key, version, served, made, cut>>
    BY DEF OpenPublic, WritePublic, LoadDirectory, EditDirectory
  <1>2. OpenTypeOK'
    BY <1>1, Zenon DEF OpenTypeOK, Loading, OpenPublic, WritePublic, LoadDirectory, EditDirectory
  <1>3. OneKey'
    BY <1>1 DEF OneKey, Loading, OpenPublic, WritePublic, LoadDirectory, EditDirectory
  <1>4. SchemaRecorded'
    <2>1. version = 1 /\ phase \in {"pub", "write_pub", "directory", "down"}
      BY Zenon DEF SchemaRecorded, OpenPublic, WritePublic, LoadDirectory, EditDirectory
    <2>2. phase' \in {"write_pub", "directory", "failed", "migrate", "down"}
      BY Zenon DEF OpenPublic, WritePublic, LoadDirectory, EditDirectory
    <2>3. db' = db /\ version' = 1 /\ cut' = cut
      BY <1>1, <2>1
    <2>4. /\ db.versions[1] = 1 => db.tables
          /\ db.versions[2] = 1 => db.versions[1] = 1 /\ db.column
          /\ db.column => db.versions[2] = 1 \/ cut
      BY <2>1, Zenon DEF SchemaRecorded
    <2> QED
      BY <2>2, <2>3, <2>4 DEF SchemaRecorded
  <1>5. StartsRecover'
    BY <1>1 DEF StartsRecover, OpenPublic, WritePublic, LoadDirectory, EditDirectory
  <1> QED
    BY <1>2, <1>3, <1>4, <1>5, Zenon

\* The statements of a migration.
LEMMA MigrateKeeps ==
    ASSUME OpenInv, Migrate
    PROVE  OpenInv'
  <1> USE DEF OpenInv, Latest
  <1>1. /\ UNCHANGED <<keyFile, pubFile, directory, key, served, made, cut>>
        /\ phase = "migrate" /\ version \in 1..2
    BY DEF Migrate, OpenTypeOK
  <1>2. CASE version <= Recorded
    <2>1. version' = version + 1 /\ UNCHANGED <<db, phase>>
      BY <1>2 DEF Migrate
    <2>2. db.versions[version] = 1 /\ db.versions[1] = 1
      BY <1>1, <1>2 DEF Recorded, OpenTypeOK, SchemaRecorded
    <2>3. OpenTypeOK' /\ OneKey'
      BY <1>1, <2>1 DEF OpenTypeOK, OneKey, Loading
    <2>4. SchemaRecorded'
      <3>1. db' = db /\ phase = "migrate" /\ phase' = "migrate" /\ cut' = cut /\ version' > 1
        BY <1>1, <2>1
      <3>2. version' > 2 => db.versions[2] = 1
        BY <1>1, <2>1, <2>2
      <3>3. /\ db.versions[1] = 1 => db.tables
            /\ db.versions[2] = 1 => db.versions[1] = 1 /\ db.column
            /\ db.column => db.versions[2] = 1 \/ cut
        BY <3>1, Zenon DEF SchemaRecorded
      <3> QED
        BY <2>2, <3>1, <3>2, <3>3, Zenon DEF SchemaRecorded
    <2>5. StartsRecover'
      BY <1>1, <2>1, Zenon DEF StartsRecover
    <2> QED
      BY <2>3, <2>4, <2>5, Zenon
  <1>3. CASE version > Recorded /\ version = 2 /\ db.column
    <2>1. phase' = "failed" /\ UNCHANGED <<db, version>>
      BY <1>3, <1>1 DEF Migrate, Recorded
    <2>2. db.versions[2] # 1 /\ cut
      BY <1>1, <1>3 DEF Recorded, SchemaRecorded, OpenTypeOK
    <2>3. OpenTypeOK' /\ OneKey'
      BY <1>1, <2>1 DEF OpenTypeOK, OneKey, Loading
    <2>4. SchemaRecorded' /\ StartsRecover'
      BY <1>1, <2>1, <2>2 DEF SchemaRecorded, StartsRecover
    <2> QED
      BY <2>3, <2>4
  <1>4. CASE version > Recorded /\ ~(version = 2 /\ db.column)
    <2>1. /\ phase' = "record" /\ UNCHANGED version
          /\ db' = IF version = 1 THEN [db EXCEPT !.tables = TRUE] ELSE [db EXCEPT !.column = TRUE]
      BY <1>4, <1>1 DEF Migrate, Recorded
    <2>2. db.versions[version] = 0 /\ db.versions[2] = 0 /\ db.versions[1] \in 0..1
      BY <1>1, <1>4 DEF Recorded, OpenTypeOK, SchemaRecorded
    <2>3. /\ db'.versions = db.versions
          /\ IF version = 1 THEN db'.tables = TRUE /\ db'.column = db.column
             ELSE db'.tables = db.tables /\ db'.column = TRUE
          /\ db' \in [tables: BOOLEAN, column: BOOLEAN, versions: [1..2 -> 0..1]]
      BY <2>1, Zenon DEF OpenTypeOK
    <2>4. OpenTypeOK' /\ OneKey'
      BY <1>1, <2>1, <2>3, Zenon DEF OpenTypeOK, OneKey, Loading
    <2>5. SchemaRecorded' /\ StartsRecover'
      BY <1>1, <2>1, <2>2, <2>3 DEF SchemaRecorded, StartsRecover
    <2> QED
      BY <2>4, <2>5, Zenon
  <1> QED
    BY <1>1, <1>2, <1>3, <1>4 DEF Recorded

\* A migration is recorded once it ran.
LEMMA RecordKeeps ==
    ASSUME OpenInv, Record
    PROVE  OpenInv'
  <1> USE DEF OpenInv
  <1>1. /\ UNCHANGED <<keyFile, pubFile, directory, key, served, made, cut>>
        /\ phase = "record" /\ phase' = "migrate" /\ version \in 1..2 /\ version' = version + 1
        /\ db.versions[version] = 0
    BY DEF Record, OpenTypeOK, SchemaRecorded
  <1>2. /\ db'.tables = db.tables /\ db'.column = db.column
        /\ db'.versions = [db.versions EXCEPT ![version] = 1]
        /\ db'.versions \in [1..2 -> 0..1]
        /\ db' \in [tables: BOOLEAN, column: BOOLEAN, versions: [1..2 -> 0..1]]
    <2>1. db' = [db EXCEPT !.versions = [db.versions EXCEPT ![version] = db.versions[version] + 1]]
      BY DEF Record
    <2>2. [db.versions EXCEPT ![version] = 1] \in [1..2 -> 0..1]
      BY <1>1 DEF OpenTypeOK
    <2>3. db' = [db EXCEPT !.versions = [db.versions EXCEPT ![version] = 1]]
      BY <1>1, <2>1
    <2> QED
      BY <2>2, <2>3, Zenon DEF OpenTypeOK
  <1>3. OpenTypeOK' /\ OneKey'
    BY <1>1, <1>2 DEF OpenTypeOK, OneKey, Loading
  <1>4. /\ db'.versions[version] = 1
        /\ \A v \in 1..2 : v # version => db'.versions[v] = db.versions[v]
    BY <1>1, <1>2 DEF OpenTypeOK
  <1>5. /\ db.tables /\ (version = 2 => db.column /\ db.versions[1] = 1)
        /\ db.versions[2] = 1 => db.versions[1] = 1 /\ db.column
        /\ db.column => db.versions[2] = 1 \/ cut \/ version = 2
    <2>1. db.tables /\ (version = 2 => db.column) /\ (version > 1 => db.versions[1] = 1)
      BY <1>1, Zenon DEF SchemaRecorded
    <2>2. /\ db.versions[2] = 1 => db.versions[1] = 1 /\ db.column
          /\ db.column => db.versions[2] = 1 \/ cut \/ version = 2
      BY Zenon DEF SchemaRecorded
    <2> QED
      BY <2>1, <2>2
  <1>6. SchemaRecorded'
    <2>1. CASE version = 1
      <3>1. /\ db'.versions[1] = 1 /\ db'.versions[2] = db.versions[2] /\ version' = 2
            /\ db.versions[1] = 0
        BY <1>1, <1>4, <2>1
      <3>2. db.versions[2] # 1
        BY <1>5, <3>1
      <3> QED
        BY <1>1, <1>2, <1>5, <2>1, <3>1, <3>2 DEF SchemaRecorded
    <2>2. CASE version = 2
      <3>1. /\ db'.versions[2] = 1 /\ db'.versions[1] = 1 /\ version' = 3
            /\ db.tables /\ db.column
        BY <1>1, <1>4, <1>5, <2>2
      <3> QED
        BY <1>1, <1>2, <3>1 DEF SchemaRecorded
    <2> QED
      BY <1>1, <2>1, <2>2
  <1>7. StartsRecover'
    BY <1>1 DEF StartsRecover
  <1> QED
    BY <1>3, <1>6, <1>7, Zenon

\* The kernel comes up, or its process ends at any point.
LEMMA EndsKeep ==
    ASSUME OpenInv, Up \/ Stop
    PROVE  OpenInv'
  <1> USE DEF OpenInv
  <1>1. UNCHANGED <<keyFile, pubFile, directory, db, made>>
    BY DEF Up, Stop
  <1>2. CASE Up
    <2>1. /\ phase = "migrate" /\ version = 3 /\ version' = 3 /\ phase' = "up"
          /\ UNCHANGED <<key, cut>> /\ served' = served \cup {key}
      BY <1>2 DEF Up, OpenTypeOK, Latest
    <2>2. OpenTypeOK' /\ SchemaRecorded' /\ StartsRecover'
      BY <1>1, <2>1 DEF OpenTypeOK, SchemaRecorded, StartsRecover, Loading
    <2>3. keyFile = 1 /\ key = 1 /\ made = 1 /\ served \subseteq {1}
      BY <2>1 DEF OneKey, Loading, Absent, Empty
    <2>4. served' = {1}
      BY <2>1, <2>3, Zenon
    <2> QED
      BY <1>1, <2>1, <2>2, <2>3, <2>4, Zenon DEF OneKey, Loading
  <1>3. CASE Stop
    <2>1. /\ phase' = "down" /\ version' = 1 /\ served' = served
          /\ cut' = (cut \/ phase = "write_key" \/ (phase = "record" /\ version = 2))
      BY <1>3 DEF Stop
    <2>2. OpenTypeOK' /\ StartsRecover'
      BY <1>1, <2>1 DEF OpenTypeOK, StartsRecover
    <2>3. OneKey'
      BY <1>1, <2>1, Zenon DEF OneKey, Loading
    <2>4. SchemaRecorded'
      BY <1>1, <2>1, Zenon DEF SchemaRecorded
    <2> QED
      BY <2>2, <2>3, <2>4
  <1> QED
    BY <1>2, <1>3, Zenon

\* Whatever the process does, the invariant of its start survives.
LEMMA OpenStepKeeps ==
    ASSUME OpenInv, OpenStep \/ Stop \/ UNCHANGED openVars
    PROVE  OpenInv'
  <1>1. CASE UNCHANGED openVars
    BY <1>1 DEF openVars, OpenInv, OpenTypeOK, OneKey, SchemaRecorded, StartsRecover
  <1> QED
    BY <1>1, KeyStepsKeep, FileStepsKeep, MigrateKeeps, RecordKeeps, EndsKeep, Zenon DEF OpenStep

----------------------------------------------------------------------------
\* The checks.

\* A full file is in the fingerprint of the directory with its time, and only those are.
LEMMA FullEntry ==
    ASSUME TrustTypeOK, NEW k, NEW m
    PROVE  <<k, m, TRUE>> \in T!trust_fingerprint <=> k \in T!InDir /\ m = dir[k].modified
  BY Zenon DEF TrustTypeOK, T!trust_fingerprint, T!InDir

\* A change of the directory that gives no file a time of the past, and empties, removes
\* or newly stamps the files it touches, leaves what was read right.
LEMMA RightAfterChange ==
    ASSUME NEW f, NEW keys, NEW todo,
           ReadRight(f, keys, todo), TrustTypeOK,
           clock' \in Nat, clock <= clock', slipped \subseteq slipped',
           \A j \in T!InDir' : \/ j \in T!InDir /\ dir'[j].modified = dir[j].modified
                              \/ dir'[j].modified \notin 0..clock
    PROVE  /\ \A e \in f : e[2] \in 0..clock'
           /\ \A k \in keys : k \in slipped' \/ \E m \in 0..clock' : <<k, m, TRUE>> \in f
           /\ \A k \in T!InDir' : <<k, dir'[k].modified, TRUE>> \in f => k \in keys \cup todo
  <1>1. 0..clock \subseteq 0..clock'
    BY DEF TrustTypeOK
  <1>2. \A e \in f : e[2] \in 0..clock
    BY Zenon DEF ReadRight
  <1>3. \A k \in keys : k \in slipped \/ \E m \in 0..clock : <<k, m, TRUE>> \in f
    BY Zenon DEF ReadRight
  <1>4. ASSUME NEW k \in T!InDir', <<k, dir'[k].modified, TRUE>> \in f
        PROVE  k \in keys \cup todo
    <2>1. <<k, dir'[k].modified, TRUE>>[2] \in 0..clock
      BY <1>2, <1>4
    <2>2. k \in T!InDir /\ dir'[k].modified = dir[k].modified
      BY <1>4, <2>1
    <2> QED
      BY <1>4, <2>2, Zenon DEF ReadRight
  <1> QED
    BY <1>1, <1>2, <1>3, <1>4, Zenon

\* Nothing is known to a process that has just started.
LEMMA CacheInit == T!Init => CacheInv
  <1> SUFFICES ASSUME T!Init
               PROVE  CacheInv
    OBVIOUS
  <1>1. PICK k \in Keys : check = T!NewCheck("idle", k, {})
    BY DEF T!Init
  <1>2. /\ clock = 0 /\ DOMAIN dir = {} /\ cache.keys = {} /\ cache.fingerprint = {}
        /\ T!InDir = {}
    BY DEF T!Init, T!NoCache, T!InDir
  <1>3. TrustTypeOK /\ check.phase = "idle"
    BY <1>1, <1>2 DEF TrustTypeOK, T!NewCheck
  <1> QED
    BY <1>2, <1>3 DEF CacheInv, ReadRight, ChecksSeeTheDirectory, Answered

\* What the operator's steps do to the directory and to a check under way.
LEMMA OperatorEffect ==
    ASSUME TrustTypeOK, NEW k \in Keys, T!TrustCreate(k) \/ T!TrustWrite(k) \/ T!Remove(k)
    PROVE  /\ UNCHANGED <<cache, pinned>> /\ TrustTypeOK' /\ clock <= clock'
           /\ check'.phase = check.phase /\ check'.fingerprint = check.fingerprint
           /\ check'.todo = check.todo /\ check'.read = check.read /\ check'.calm = FALSE
           /\ slipped \subseteq slipped'
           /\ \A j \in T!InDir' :
                 \/ j \in T!InDir /\ dir'[j].modified = dir[j].modified
                 \/ /\ dir'[j].modified \notin 0..clock
                    /\ check.phase \in {"load", "read"} => j \in slipped'
  <1>1. check' = [check EXCEPT !.calm = FALSE] /\ UNCHANGED <<cache, pinned>>
    BY DEF T!TrustCreate, T!TrustWrite, T!Remove, T!Disturb
  <1>2. /\ check'.phase = check.phase /\ check'.fingerprint = check.fingerprint
        /\ check'.todo = check.todo /\ check'.read = check.read /\ check'.calm = FALSE
        /\ check' = [phase |-> check'.phase, key |-> check'.key, fingerprint |-> check'.fingerprint,
                     todo |-> check'.todo, read |-> check'.read, calm |-> check'.calm,
                     found |-> check'.found]
    BY <1>1, Zenon DEF TrustTypeOK
  <1>3. CASE T!TrustCreate(k)
    <2>1. /\ clock' = clock + 1 /\ slipped' = slipped
          /\ DOMAIN dir' = DOMAIN dir \cup {k}
          /\ dir'[k] = [full |-> FALSE, modified |-> clock + 1]
          /\ \A j \in DOMAIN dir \ {k} : dir'[j] = dir[j]
      BY <1>3, Zenon DEF T!TrustCreate
    <2>2. /\ clock' \in Nat
          /\ \A j \in DOMAIN dir' : dir'[j].full \in BOOLEAN /\ dir'[j].modified \in 0..clock'
      <3>1. clock' \in Nat /\ clock + 1 \in 0..clock' /\ 0..clock \subseteq 0..clock'
        BY <2>1 DEF TrustTypeOK
      <3>2. \A j \in DOMAIN dir : dir[j].full \in BOOLEAN /\ dir[j].modified \in 0..clock'
        BY <3>1 DEF TrustTypeOK
      <3>3. dir'[k].full \in BOOLEAN /\ dir'[k].modified \in 0..clock'
        <4>1. dir'[k].modified = clock + 1
          BY <2>1
        <4>2. dir'[k].full = FALSE
          BY <2>1
        <4> QED
          BY <3>1, <4>1, <4>2, Zenon
      <3>4. \A j \in DOMAIN dir' : j = k \/ (j \in DOMAIN dir /\ dir'[j] = dir[j])
        BY <2>1
      <3> QED
        BY <3>1, <3>2, <3>3, <3>4, Zenon
    <2>3. TrustTypeOK'
      BY <1>2, <2>2, Zenon DEF TrustTypeOK
    <2> QED
      BY <1>1, <1>2, <2>1, <2>3 DEF TrustTypeOK, T!InDir
  <1>4. CASE T!TrustWrite(k)
    <2>1. /\ clock' = clock + 1 /\ slipped \subseteq slipped'
          /\ check.phase \in {"load", "read"} => k \in slipped'
          /\ DOMAIN dir' = DOMAIN dir /\ k \in DOMAIN dir
          /\ dir'[k] = [full |-> TRUE, modified |-> clock + 1]
          /\ \A j \in DOMAIN dir \ {k} : dir'[j] = dir[j]
      BY <1>4 DEF T!TrustWrite
    <2>2. /\ clock' \in Nat
          /\ \A j \in DOMAIN dir' : dir'[j].full \in BOOLEAN /\ dir'[j].modified \in 0..clock'
      <3>1. clock' \in Nat /\ clock + 1 \in 0..clock' /\ 0..clock \subseteq 0..clock'
        BY <2>1 DEF TrustTypeOK
      <3>2. \A j \in DOMAIN dir : dir[j].full \in BOOLEAN /\ dir[j].modified \in 0..clock'
        BY <3>1, Zenon DEF TrustTypeOK
      <3>3. dir'[k].full \in BOOLEAN /\ dir'[k].modified \in 0..clock'
        <4>1. dir'[k].modified = clock + 1
          BY <2>1
        <4>2. dir'[k].full = TRUE
          BY <2>1
        <4> QED
          BY <3>1, <4>1, <4>2, Zenon
      <3>4. \A j \in DOMAIN dir' : j = k \/ (j \in DOMAIN dir /\ dir'[j] = dir[j])
        BY <2>1, Zenon
      <3> QED
        BY <3>1, <3>2, <3>3, <3>4, Zenon
    <2>3. TrustTypeOK'
      BY <1>2, <2>2, Zenon DEF TrustTypeOK
    <2> QED
      BY <1>1, <1>2, <2>1, <2>3 DEF TrustTypeOK, T!InDir
  <1>5. CASE T!Remove(k)
    <2>1. /\ clock' = clock /\ slipped' = slipped
          /\ DOMAIN dir' = DOMAIN dir \ {k}
          /\ \A j \in DOMAIN dir' : dir'[j] = dir[j]
      BY <1>5 DEF T!Remove
    <2>2. /\ clock' \in Nat
          /\ \A j \in DOMAIN dir' : dir'[j].full \in BOOLEAN /\ dir'[j].modified \in 0..clock'
      BY <2>1, Zenon DEF TrustTypeOK
    <2>3. TrustTypeOK'
      BY <1>2, <2>2, Zenon DEF TrustTypeOK
    <2> QED
      BY <1>1, <1>2, <2>1, <2>3 DEF TrustTypeOK, T!InDir
  <1> QED
    BY <1>3, <1>4, <1>5, Zenon

\* The operator changes the directory under the process, at any point of a check.
LEMMA OperatorKeeps ==
    ASSUME CacheInv, T!OperatorStep
    PROVE  CacheInv'
  <1>1. PICK k \in Keys : T!TrustCreate(k) \/ T!TrustWrite(k) \/ T!Remove(k)
    BY DEF T!OperatorStep
  <1>2. TrustTypeOK
    BY Zenon DEF CacheInv
  <1>3. /\ UNCHANGED <<cache, pinned>> /\ TrustTypeOK' /\ clock <= clock'
        /\ check'.phase = check.phase /\ check'.fingerprint = check.fingerprint
        /\ check'.todo = check.todo /\ check'.read = check.read /\ check'.calm = FALSE
        /\ slipped \subseteq slipped'
        /\ \A j \in T!InDir' :
              \/ j \in T!InDir /\ dir'[j].modified = dir[j].modified
              \/ /\ dir'[j].modified \notin 0..clock
                 /\ check.phase \in {"load", "read"} => j \in slipped'
    BY <1>1, <1>2, OperatorEffect, Zenon
  <1>4. /\ clock' \in Nat /\ clock <= clock' /\ slipped \subseteq slipped'
        /\ \A j \in T!InDir' : \/ j \in T!InDir /\ dir'[j].modified = dir[j].modified
                              \/ dir'[j].modified \notin 0..clock
    BY <1>3 DEF TrustTypeOK
  <1>5. ReadRight(cache.fingerprint, cache.keys, {})'
    <2>1. ReadRight(cache.fingerprint, cache.keys, {})
      BY DEF CacheInv
    <2>2. TrustTypeOK
      BY Zenon DEF CacheInv
    <2>3. /\ \A e \in cache.fingerprint : e[2] \in 0..clock'
          /\ \A j \in cache.keys : j \in slipped' \/ \E m \in 0..clock' : <<j, m, TRUE>> \in cache.fingerprint
          /\ \A j \in T!InDir' : <<j, dir'[j].modified, TRUE>> \in cache.fingerprint => j \in cache.keys \cup {}
      BY <1>4, <2>1, <2>2, RightAfterChange, Zenon
    <2> QED
      BY <1>2, <1>3, <2>3, Zenon DEF ReadRight
  <1>6. ASSUME check.phase = "load"
        PROVE  ReadRight(check.fingerprint, check.read, DOMAIN dir)'
    <2>1. ReadRight(check.fingerprint, check.read, DOMAIN dir)
      BY <1>6, Zenon DEF CacheInv
    <2>2. /\ \A e \in check.fingerprint : e[2] \in 0..clock'
          /\ \A j \in check.read :
                j \in slipped' \/ \E m \in 0..clock' : <<j, m, TRUE>> \in check.fingerprint
          /\ \A j \in T!InDir' : <<j, dir'[j].modified, TRUE>> \in check.fingerprint =>
                j \in check.read \cup DOMAIN dir
      BY <1>2, <1>4, <2>1, RightAfterChange, Zenon
    <2>3. T!InDir' \subseteq DOMAIN dir'
      BY DEF T!InDir
    <2> QED
      BY <1>3, <2>2, <2>3, Zenon DEF ReadRight
  <1>7. ASSUME check.phase = "read"
        PROVE  ReadRight(check.fingerprint, check.read, check.todo)'
    <2>1. ReadRight(check.fingerprint, check.read, check.todo)
      BY <1>7, Zenon DEF CacheInv
    <2>2. /\ \A e \in check.fingerprint : e[2] \in 0..clock'
          /\ \A j \in check.read :
                j \in slipped' \/ \E m \in 0..clock' : <<j, m, TRUE>> \in check.fingerprint
          /\ \A j \in T!InDir' : <<j, dir'[j].modified, TRUE>> \in check.fingerprint =>
                j \in check.read \cup check.todo
      BY <1>2, <1>4, <2>1, RightAfterChange, Zenon
    <2> QED
      BY <1>3, <2>2, Zenon DEF ReadRight
  <1>8. ASSUME check.phase \in {"load", "read"}, NEW j \in T!InDir'
        PROVE  j \in slipped' \/ <<j, dir'[j].modified, TRUE>> \in check.fingerprint
    BY <1>3, <1>8, Zenon DEF CacheInv
  <1>9. check.phase = "answer" => cache'.fingerprint = check'.fingerprint
    BY <1>3 DEF CacheInv
  <1> QED
    BY <1>3, <1>5, <1>6, <1>7, <1>8, <1>9, Zenon DEF CacheInv, ChecksSeeTheDirectory, Answered

\* What the kernel's own steps read of the directory does not change under them.
LEMMA SameDirectory ==
    ASSUME UNCHANGED <<dir, clock, slipped>>
    PROVE  /\ T!InDir' = T!InDir /\ T!trust_fingerprint' = T!trust_fingerprint
           /\ \A f, keys, todo : ReadRight(f, keys, todo) =>
                 /\ \A e \in f : e[2] \in 0..clock'
                 /\ \A k \in keys : k \in slipped' \/ \E m \in 0..clock' : <<k, m, TRUE>> \in f
                 /\ \A k \in T!InDir' : <<k, dir'[k].modified, TRUE>> \in f => k \in keys \cup todo
  BY Zenon DEF T!InDir, T!trust_fingerprint, ReadRight

\* resolve_key begins a check with the fingerprint of the directory as it is.
LEMMA ResolveKeeps ==
    ASSUME CacheInv, NEW k \in Keys, T!resolve_key(k)
    PROVE  CacheInv'
  <1>1. UNCHANGED <<dir, clock, cache, pinned, slipped>> /\ TrustTypeOK
    BY Zenon DEF T!resolve_key, CacheInv
  <1>2. T!InDir' = T!InDir /\ T!trust_fingerprint' = T!trust_fingerprint
    BY <1>1, SameDirectory
  <1>3. /\ check'.phase = "load" \/ (check'.phase = "answer" /\ cache.fingerprint = T!trust_fingerprint)
        /\ check'.fingerprint = T!trust_fingerprint /\ check'.read = {} /\ check'.calm = TRUE
        /\ check' = [phase |-> check'.phase, key |-> check'.key, fingerprint |-> check'.fingerprint,
                     todo |-> check'.todo, read |-> check'.read, calm |-> check'.calm,
                     found |-> check'.found]
    BY DEF T!resolve_key, T!NewCheck
  <1>4. TrustTypeOK'
    BY <1>1, <1>3, Zenon DEF TrustTypeOK
  <1>5. ReadRight(cache.fingerprint, cache.keys, {})'
    BY <1>1, <1>2, Zenon DEF CacheInv, ReadRight
  <1>6. ReadRight(check.fingerprint, check.read, DOMAIN dir)'
    <2>1. ASSUME NEW e \in T!trust_fingerprint
          PROVE  e[2] \in 0..clock
      BY <1>1 DEF T!trust_fingerprint, TrustTypeOK
    <2>2. T!InDir \subseteq DOMAIN dir
      BY Zenon DEF T!InDir
    <2> QED
      BY <1>1, <1>2, <1>3, <2>1, <2>2, Zenon DEF ReadRight
  <1>7. \A j \in T!InDir' : <<j, dir'[j].modified, TRUE>> \in check'.fingerprint
    BY <1>1, <1>2, <1>3, FullEntry, Zenon
  <1> QED
    BY <1>1, <1>2, <1>3, <1>4, <1>5, <1>6, <1>7, Zenon DEF CacheInv, ChecksSeeTheDirectory, Answered

\* The files are read one by one.
LEMMA ReadKeeps ==
    ASSUME CacheInv, T!load_dir \/ \E k \in Keys : T!load(k)
    PROVE  CacheInv'
  <1>1. UNCHANGED <<dir, clock, cache, pinned, slipped>> /\ TrustTypeOK
    BY Zenon DEF T!load_dir, T!load, CacheInv
  <1>2. T!InDir' = T!InDir /\ T!trust_fingerprint' = T!trust_fingerprint
    BY <1>1, SameDirectory
  <1>3. /\ check.phase \in {"load", "read"} /\ check'.phase = "read"
        /\ check'.fingerprint = check.fingerprint /\ check'.calm = check.calm
        /\ check' = [phase |-> check'.phase, key |-> check'.key, fingerprint |-> check'.fingerprint,
                     todo |-> check'.todo, read |-> check'.read, calm |-> check'.calm,
                     found |-> check'.found]
    BY <1>1, Zenon DEF T!load_dir, T!load, TrustTypeOK
  <1>4. TrustTypeOK'
    BY <1>1, <1>3, Zenon DEF TrustTypeOK
  <1>5. ReadRight(cache.fingerprint, cache.keys, {})'
    BY <1>1, <1>2, Zenon DEF CacheInv, ReadRight
  <1>6. \A j \in T!InDir : j \in slipped \/ <<j, dir[j].modified, TRUE>> \in check.fingerprint
    BY <1>3, Zenon DEF CacheInv
  <1>7. ReadRight(check.fingerprint, check.read, check.todo)'
    <2>1. CASE T!load_dir
      <3>1. /\ check.phase = "load" /\ check'.read = check.read /\ check'.todo = DOMAIN dir
            /\ ReadRight(check.fingerprint, check.read, DOMAIN dir)
        BY <1>1, <2>1 DEF T!load_dir, CacheInv, TrustTypeOK
      <3> QED
        BY <1>1, <1>2, <1>3, <3>1, Zenon DEF ReadRight
    <2>2. ASSUME NEW k \in Keys, T!load(k)
          PROVE  ReadRight(check.fingerprint, check.read, check.todo)'
      <3>1. /\ check.phase = "read" /\ check'.todo = check.todo \ {k}
            /\ check'.read = IF k \in T!InDir THEN check.read \cup {k} ELSE check.read
            /\ ReadRight(check.fingerprint, check.read, check.todo)
        BY <1>1, <2>2, Zenon DEF T!load, CacheInv, TrustTypeOK
      <3>2. k \in T!InDir => dir[k].modified \in 0..clock
        BY <1>1 DEF TrustTypeOK, T!InDir
      <3>3. \A j \in check'.read :
               j \in slipped \/ \E m \in 0..clock : <<j, m, TRUE>> \in check.fingerprint
        BY <1>6, <3>1, <3>2, Zenon DEF ReadRight
      <3>4. \A j \in T!InDir : <<j, dir[j].modified, TRUE>> \in check.fingerprint =>
               j \in check'.read \cup check'.todo
        BY <3>1, Zenon DEF ReadRight
      <3>5. \A e \in check.fingerprint : e[2] \in 0..clock
        BY <3>1, Zenon DEF ReadRight
      <3> QED
        BY <1>1, <1>2, <1>3, <3>3, <3>4, <3>5, Zenon DEF ReadRight
    <2> QED
      BY <2>1, <2>2, Zenon
  <1>8. \A j \in T!InDir' : j \in slipped' \/ <<j, dir'[j].modified, TRUE>> \in check'.fingerprint
    BY <1>1, <1>2, <1>3, <1>6, Zenon
  <1>9. check'.calm => check'.fingerprint = T!trust_fingerprint'
    BY <1>2, <1>3 DEF CacheInv
  <1> QED
    BY <1>3, <1>4, <1>5, <1>7, <1>8, <1>9, Zenon DEF CacheInv, ChecksSeeTheDirectory, Answered

\* What was read becomes the cache, under the fingerprint from before the reading.
LEMMA RefreshKeeps ==
    ASSUME CacheInv, T!refresh_trusted
    PROVE  CacheInv'
  <1>1. UNCHANGED <<dir, clock, pinned, slipped>> /\ TrustTypeOK
    BY DEF T!refresh_trusted, CacheInv
  <1>2. T!InDir' = T!InDir /\ T!trust_fingerprint' = T!trust_fingerprint
    BY <1>1, SameDirectory
  <1>3. /\ check.phase = "read" /\ check.todo = {} /\ check'.phase = "answer"
        /\ check'.fingerprint = check.fingerprint /\ check'.calm = check.calm
        /\ check' = [phase |-> check'.phase, key |-> check'.key, fingerprint |-> check'.fingerprint,
                     todo |-> check'.todo, read |-> check'.read, calm |-> check'.calm,
                     found |-> check'.found]
        /\ cache'.keys = check.read /\ cache'.fingerprint = check.fingerprint
    BY <1>1 DEF T!refresh_trusted, TrustTypeOK
  <1>4. TrustTypeOK'
    BY <1>1, <1>3, Zenon DEF TrustTypeOK
  <1>5. ReadRight(cache.fingerprint, cache.keys, {})'
    <2>1. ReadRight(check.fingerprint, check.read, {})
      BY <1>3 DEF CacheInv
    <2> QED
      BY <1>1, <1>2, <1>3, <2>1, Zenon DEF ReadRight
  <1>6. check'.calm => check'.fingerprint = T!trust_fingerprint'
    BY <1>2, <1>3, Zenon DEF CacheInv
  <1> QED
    BY <1>3, <1>4, <1>5, <1>6, Zenon DEF CacheInv, ChecksSeeTheDirectory, Answered

\* A check that nothing disturbed answers from a cache that is right of the directory.
LEMMA AnswerKeeps ==
    ASSUME CacheInv, T!Answer
    PROVE  CacheInv'
  <1>1. UNCHANGED <<dir, clock, cache, pinned, slipped>> /\ TrustTypeOK
    BY DEF T!Answer, CacheInv
  <1>2. T!InDir' = T!InDir /\ T!trust_fingerprint' = T!trust_fingerprint
    BY <1>1, SameDirectory
  <1>3. /\ check.phase = "answer" /\ check'.phase = "done" /\ check'.key = check.key
        /\ check'.fingerprint = check.fingerprint /\ check'.calm = check.calm
        /\ check' = [phase |-> check'.phase, key |-> check'.key, fingerprint |-> check'.fingerprint,
                     todo |-> check'.todo, read |-> check'.read, calm |-> check'.calm,
                     found |-> check'.found]
        /\ check'.found <=> check.key \in pinned \cup cache.keys
    BY <1>1, Zenon DEF T!Answer, TrustTypeOK
  <1>4. TrustTypeOK'
    BY <1>1, <1>3, Zenon DEF TrustTypeOK
  <1>5. ReadRight(cache.fingerprint, cache.keys, {})
    BY Zenon DEF CacheInv
  <1>6. ReadRight(cache.fingerprint, cache.keys, {})'
    BY <1>1, <1>2, <1>5, Zenon DEF ReadRight
  <1>7. check'.calm => check'.fingerprint = T!trust_fingerprint'
    BY <1>2, <1>3, Zenon DEF CacheInv
  <1>8. ASSUME check.calm
        PROVE  /\ check.key \in T!InDir => check.key \in cache.keys
               /\ check.key \in cache.keys => check.key \in T!InDir \cup slipped
    <2>1. cache.fingerprint = T!trust_fingerprint
      BY <1>3, <1>8, Zenon DEF CacheInv
    <2>2. \A k, m : <<k, m, TRUE>> \in cache.fingerprint <=> k \in T!InDir /\ m = dir[k].modified
      BY <1>1, <2>1, FullEntry, Zenon
    <2> QED
      BY <1>5, <2>2, Zenon DEF ReadRight
  <1>9. ChecksSeeTheDirectory'
    BY <1>1, <1>2, <1>3, <1>8, Zenon DEF ChecksSeeTheDirectory, Answered
  <1> QED
    BY <1>3, <1>4, <1>6, <1>7, <1>9, Zenon DEF CacheInv

\* The kernel pins a key, or does nothing.
LEMMA PinKeeps ==
    ASSUME CacheInv, (\E k \in Keys : T!trust_key(k)) \/ UNCHANGED trustVars
    PROVE  CacheInv'
  <1>1. /\ UNCHANGED <<dir, clock, cache, check, slipped>>
        /\ check.phase = "idle" \/ UNCHANGED pinned
    BY DEF T!trust_key, trustVars
  <1>2. T!InDir' = T!InDir /\ T!trust_fingerprint' = T!trust_fingerprint
    BY <1>1, SameDirectory, Zenon
  <1> QED
    BY <1>1, <1>2, Zenon DEF CacheInv, TrustTypeOK, ReadRight, ChecksSeeTheDirectory, Answered

\* The end of the process takes the cache and a check under way with it.
LEMMA EndKeeps ==
    ASSUME CacheInv, End
    PROVE  CacheInv'
  <1>1. /\ UNCHANGED <<dir, clock>> /\ cache'.keys = {} /\ cache'.fingerprint = {}
        /\ check' = T!NewCheck("idle", check.key, {}) /\ TrustTypeOK
    BY Zenon DEF End, CacheInv, T!NoCache
  <1>2. TrustTypeOK' /\ check'.phase = "idle"
    BY <1>1, Zenon DEF TrustTypeOK, T!NewCheck
  <1> QED
    BY <1>1, <1>2, Zenon DEF CacheInv, ReadRight, ChecksSeeTheDirectory, Answered

----------------------------------------------------------------------------
\* The theorems.

\* Neither the start, nor the checks, nor the operator break the two invariants.
THEOREM ProcessInvariance == ProcessSpec => [](OpenInv /\ CacheInv)
  <1>1. ProcessInit => OpenInv /\ CacheInv
    BY StartsClean, CacheInit DEF ProcessInit
  <1>2. ASSUME OpenInv, CacheInv, [ProcessNext]_processVars
        PROVE  OpenInv' /\ CacheInv'
    <2>1. CASE OpenStep /\ UNCHANGED trustVars
      BY <1>2, <2>1, OpenStepKeeps, PinKeeps
    <2>2. CASE End
      BY <1>2, <2>2, OpenStepKeeps, EndKeeps DEF End
    <2>3. CASE T!OperatorStep /\ UNCHANGED openVars
      BY <1>2, <2>3, OpenStepKeeps, OperatorKeeps
    <2>4. CASE T!KernelStep /\ UNCHANGED openVars
      BY <1>2, <2>4, OpenStepKeeps, PinKeeps, ResolveKeeps, ReadKeeps, RefreshKeeps, AnswerKeeps,
         Zenon DEF T!KernelStep
    <2>5. CASE UNCHANGED processVars
      BY <1>2, <2>5, OpenStepKeeps, PinKeeps DEF processVars
    <2> QED
      BY <1>2, <2>1, <2>2, <2>3, <2>4, <2>5, Zenon DEF ProcessNext
  <1> QED
    BY <1>1, <1>2, PTL DEF ProcessSpec

\* A kernel that is up has the key it always had and every migration, once, however
\* many starts before it were cut short (Kernel::open, Store::migrate).
THEOREM UpHasAll == ProcessSpec => []UpIsComplete
  <1>1. OpenInv => UpIsComplete
    <2> SUFFICES ASSUME OpenInv, phase = "up"
                 PROVE  /\ db = [tables |-> TRUE, column |-> TRUE, versions |-> <<1, 1>>]
                        /\ keyFile = key /\ served = {key}
      BY DEF UpIsComplete
    <2>1. keyFile = key /\ served = {key}
      BY Zenon DEF OpenInv, OneKey, Loading
    <2>2. db.versions[1] = 1 /\ db.versions[2] = 1 /\ db.tables /\ db.column
      BY DEF OpenInv, SchemaRecorded
    <2>3. db.versions = <<1, 1>>
      BY <2>2 DEF OpenInv, OpenTypeOK
    <2>4. db.tables = TRUE /\ db.column = TRUE
      BY <2>2 DEF OpenInv, OpenTypeOK
    <2>5. db = [tables |-> db.tables, column |-> db.column, versions |-> db.versions]
      BY DEF OpenInv, OpenTypeOK
    <2> QED
      BY <2>1, <2>3, <2>4, <2>5, Zenon
  <1> QED
    BY <1>1, ProcessInvariance, PTL

\* A start fails only over an invalid directory.json or after a start that was killed
\* with the key file or the column of version 2 half done (load of keys.rs, migrate).
THEOREM FailedStartsAreExplained == ProcessSpec => []StartsRecover
  <1>1. OpenInv => StartsRecover
    BY DEF OpenInv
  <1> QED
    BY <1>1, ProcessInvariance, PTL

\* A signature check finds a key whose file is in place and none whose file is gone,
\* but for those written while files were being read (resolve_key, refresh_trusted).
THEOREM ChecksAreCurrent == ProcessSpec => []ChecksSeeTheDirectory
  <1>1. CacheInv => ChecksSeeTheDirectory
    BY Zenon DEF CacheInv
  <1> QED
    BY <1>1, ProcessInvariance, PTL
============================================================================
