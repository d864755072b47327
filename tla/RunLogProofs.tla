---------------------------- MODULE RunLogProofs ----------------------------
(***************************************************************************)
(* Proofs about the event log of a run: an untouched log replays clean     *)
(* exactly when its figures survive their JSON, a damaged one never does,  *)
(* and the pages of its readers fit together.                              *)
(***************************************************************************)
EXTENDS RunLog, SequenceTheorems, WellFoundedInduction, TLAPS

\* What a leaf may take of the SMT solver, unless it says otherwise.
USE SMTT(30)

----------------------------------------------------------------------------
(* Sequences of anything: events carry floats, which have no type.         *)

\* One more event at the end of a log (RunTx::append_raw).
LEMMA Appended ==
    ASSUME NEW s, Sequence(s), NEW e
    PROVE  /\ Sequence(Append(s, e)) /\ Append(s, e) # <<>>
           /\ Len(s) \in Nat /\ DOMAIN s = 1..Len(s)
           /\ Len(Append(s, e)) = Len(s) + 1 /\ DOMAIN Append(s, e) = 1..(Len(s) + 1)
           /\ \A i \in 1..Len(s) : Append(s, e)[i] = s[i]
           /\ Append(s, e)[Len(s) + 1] = e
<1> DEFINE T == Range(s) \cup {e}
<1>1. s \in Seq(T)
  BY SeqMonotonic, Zenon DEF Sequence
<1> HIDE DEF T
<1>2. e \in T
  BY Zenon DEF T
<1>3. Append(s, e) \in Seq(T)
  BY <1>1, <1>2, AppendProperties, Zenon
<1>4. Sequence(Append(s, e))
  BY <1>3, SeqOfRange, Zenon DEF Sequence
<1>5. /\ Append(s, e) # <<>> /\ Len(Append(s, e)) = Len(s) + 1
      /\ \A i \in 1..Len(s) : Append(s, e)[i] = s[i]
      /\ Append(s, e)[Len(s) + 1] = e
  BY <1>1, <1>2, AppendProperties
<1>6. Len(s) \in Nat /\ DOMAIN s = 1..Len(s) /\ DOMAIN Append(s, e) = 1..Len(Append(s, e))
  BY <1>1, <1>3, LenProperties, Zenon
<1> QED BY <1>4, <1>5, <1>6

\* The shape of a sequence.
LEMMA Shape ==
    ASSUME NEW s, Sequence(s)
    PROVE  /\ Len(s) \in Nat /\ DOMAIN s = 1..Len(s)
           /\ s = <<>> <=> Len(s) = 0
<1>1. Len(s) \in Nat /\ DOMAIN s = 1..Len(s)
  BY LenProperties, Zenon DEF Sequence
<1>2. s # <<>> => Len(s) # 0
  BY EmptySeq, Zenon DEF Sequence
<1>3. s = <<>> => Len(s) = 0
  BY EmptySeq, Zenon
<1> QED BY <1>1, <1>2, <1>3

\* The events of a transaction after those of the log (RunTx::persist).
LEMMA Concatenated ==
    ASSUME NEW s, Sequence(s), NEW t, Sequence(t)
    PROVE  /\ Sequence(s \o t) /\ Len(s \o t) = Len(s) + Len(t)
           /\ Len(s) \in Nat /\ Len(t) \in Nat /\ DOMAIN (s \o t) = 1..(Len(s) + Len(t))
           /\ \A i \in 1..Len(s) : (s \o t)[i] = s[i]
           /\ \A i \in 1..Len(t) : (s \o t)[Len(s) + i] = t[i]
<1> DEFINE T == Range(s) \cup Range(t)
<1>1. s \in Seq(T) /\ t \in Seq(T)
  BY SeqMonotonic, Zenon DEF Sequence
<1> HIDE DEF T
<1>2. /\ s \o t \in Seq(T) /\ Len(s \o t) = Len(s) + Len(t)
      /\ \A i \in 1..(Len(s) + Len(t)) : (s \o t)[i] = IF i <= Len(s) THEN s[i] ELSE t[i - Len(s)]
  BY <1>1, ConcatProperties, Zenon
<1>3. Len(s) \in Nat /\ Len(t) \in Nat /\ DOMAIN (s \o t) = 1..Len(s \o t)
  BY <1>1, <1>2, LenProperties, Zenon
<1>4. Sequence(s \o t)
  BY <1>2, SeqOfRange, Zenon DEF Sequence
<1>5. ASSUME NEW i \in 1..Len(s) PROVE (s \o t)[i] = s[i]
  BY <1>2, <1>3
<1>6. ASSUME NEW i \in 1..Len(t) PROVE (s \o t)[Len(s) + i] = t[i]
  <2>1. Len(s) + i \in 1..(Len(s) + Len(t)) /\ ~(Len(s) + i <= Len(s)) /\ (Len(s) + i) - Len(s) = i
    BY <1>3
  <2> QED BY <1>2, <2>1
<1> QED BY <1>2, <1>3, <1>4, <1>5, <1>6

\* Appending to the transaction is appending to the log it will become.
LEMMA AppendWithin ==
    ASSUME NEW s, Sequence(s), NEW t, Sequence(t), NEW e
    PROVE  s \o Append(t, e) = Append(s \o t, e)
<1> DEFINE T == Range(s) \cup Range(t) \cup {e}
<1>1. s \in Seq(T) /\ t \in Seq(T)
  BY SeqMonotonic, Zenon DEF Sequence
<1>2. e \in T
  OBVIOUS
<1> HIDE DEF T
<1>3. s \o t \in Seq(T) /\ <<e>> \in Seq(T)
  BY <1>1, <1>2, ConcatProperties
<1>4. Append(t, e) = t \o <<e>> /\ Append(s \o t, e) = (s \o t) \o <<e>>
  BY <1>1, <1>2, <1>3, AppendIsConcat, Zenon
<1> QED BY <1>1, <1>3, <1>4, ConcatAssociative

\* An empty transaction leaves the log as it is.
LEMMA NothingWithin ==
    ASSUME NEW s, Sequence(s)
    PROVE  s \o <<>> = s
BY ConcatEmptySeq DEF Sequence

\* A hash differs from that of other content and from the one it extends.
LEMMA HashTells ==
    ASSUME NEW h, Sequence(h), NEW x, NEW y
    PROVE  (Append(h, x) = Append(h, y) => x = y) /\ Append(h, x) # h
<1>1. Append(h, x)[Len(h) + 1] = x /\ Append(h, y)[Len(h) + 1] = y
  BY Appended, Zenon
<1>2. Len(Append(h, x)) = Len(h) + 1 /\ Len(h) \in Nat
  BY Appended, Zenon
<1>3. Append(h, x) # h
  BY <1>2
<1> QED BY <1>1, <1>3

\* Every set of numbers has a least one.
LEMMA LeastNumber ==
    ASSUME NEW S \in SUBSET Nat, S # {}
    PROVE  \E x \in S : \A y \in S : x <= y
<1> DEFINE R == OpToRel(<, Nat)
<1>1. \A x, y \in Nat : <<y, x>> \in R <=> y < x
  BY Zenon DEF OpToRel
<1>2. IsWellFoundedOn(R, Nat)
  BY NatLessThanWellFounded, Zenon
<1> HIDE DEF R
<1>3. \E x \in S : \A y \in S : ~(<<y, x>> \in R)
  BY <1>2, WFMin, Zenon
<1>4. PICK x \in S : \A y \in S : ~(<<y, x>> \in R)
  BY <1>3, Zenon
<1>5. \A y \in S : ~(y < x) /\ y \in Nat /\ x \in Nat
  BY <1>1, <1>4, Zenon
<1>6. \A y \in S : x <= y
  BY <1>5
<1> QED BY <1>6, Zenon

----------------------------------------------------------------------------
(* The fold.                                                               *)

\* The states a fold goes through: the first event creates the run, each
\* later one is applied to the state before it.
IsFold(g, events) ==
    g = [n \in DOMAIN events |-> IF n = 1 THEN from_created(events[1]) ELSE apply(g[n - 1], events[n])]

\* Every log has such states: the loop of `fold` runs to its end.
LEMMA FoldExists ==
    ASSUME NEW events, Sequence(events)
    PROVE  \E g : IsFold(g, events)
<1> DEFINE Upto(g, n) ==
               g = [k \in 1..n |-> IF k = 1 THEN from_created(events[1]) ELSE apply(g[k - 1], events[k])]
           Missing == {n \in Nat : ~\E g : Upto(g, n)}
<1>1. Missing = {}
  <2> SUFFICES ASSUME Missing # {} PROVE FALSE
    OBVIOUS
  <2>1. PICK n \in Missing : \A m \in Missing : n <= m
    BY LeastNumber, Zenon
  <2>2. n \in Nat /\ ~\E g : Upto(g, n)
    BY <2>1, Zenon
  <2>3. n # 0
    <3> DEFINE none == [k \in 1..0 |-> IF k = 1 THEN from_created(events[1]) ELSE apply(k, events[k])]
    <3>1. Upto(none, 0)
      OBVIOUS
    <3> QED BY <2>2, <3>1, Zenon
  <2>4. n - 1 \in Nat /\ n - 1 \notin Missing
    <3>1. n - 1 \in Nat /\ ~(n <= n - 1)
      BY <2>2, <2>3
    <3> HIDE DEF Missing
    <3> QED BY <2>1, <3>1
  <2>5. PICK g : Upto(g, n - 1)
    BY <2>4, Zenon
  <2> DEFINE h == [k \in 1..n |-> IF k = 1 THEN from_created(events[1]) ELSE apply(g[k - 1], events[k])]
  <2>6. \A k \in 1..(n - 1) : h[k] = g[k]
    <3> SUFFICES ASSUME NEW k \in 1..(n - 1) PROVE h[k] = g[k]
      BY Zenon
    <3>1. k \in 1..n
      BY <2>2
    <3>2. h[k] = IF k = 1 THEN from_created(events[1]) ELSE apply(g[k - 1], events[k])
      BY <3>1, Zenon
    <3> HIDE DEF h
    <3>3. g[k] = IF k = 1 THEN from_created(events[1]) ELSE apply(g[k - 1], events[k])
      BY <2>5, Zenon
    <3> QED BY <3>2, <3>3
  <2>7. \A k \in 1..n : k # 1 => k - 1 \in 1..(n - 1)
    BY <2>2
  <2>8. Upto(h, n)
    <3> HIDE DEF h
    <3>1. h = [k \in 1..n |-> IF k = 1 THEN from_created(events[1]) ELSE apply(g[k - 1], events[k])]
      BY Zenon DEF h
    <3>2. \A k \in 1..n : k # 1 => apply(h[k - 1], events[k]) = apply(g[k - 1], events[k])
      BY <2>6, <2>7, Zenon
    <3> QED BY <3>1, <3>2
  <2> QED BY <2>2, <2>8, Zenon
<1>2. Len(events) \in Nat /\ DOMAIN events = 1..Len(events)
  BY Shape, Zenon
<1>3. PICK g : Upto(g, Len(events))
  BY <1>1, <1>2, Zenon
<1> QED BY <1>2, <1>3 DEF IsFold

\* What `fold` returns is the last of these states.
LEMMA FoldUnfolds ==
    ASSUME NEW events, Sequence(events)
    PROVE  \E g : IsFold(g, events) /\ fold(events) = g[Len(events)]
<1> DEFINE f == CHOOSE g : IsFold(g, events)
<1>1. IsFold(f, events)
  BY FoldExists, Zenon
<1>2. fold(events) = f[Len(events)]
  BY Zenon DEF fold, IsFold
<1> QED BY <1>1, <1>2, Zenon

\* Two logs that agree up to an event go through the same states up to it.
LEMMA FoldAgrees ==
    ASSUME NEW g, NEW h, NEW s, NEW t, IsFold(g, s), IsFold(h, t), NEW m \in Nat,
           1..m \subseteq DOMAIN s, 1..m \subseteq DOMAIN t, \A i \in 1..m : s[i] = t[i]
    PROVE  \A i \in 1..m : g[i] = h[i]
<1> DEFINE Differs == {i \in 1..m : g[i] # h[i]}
<1> SUFFICES ASSUME Differs # {} PROVE FALSE
  OBVIOUS
<1>1. PICK n \in Differs : \A i \in Differs : n <= i
  <2>1. Differs \in SUBSET Nat
    OBVIOUS
  <2> QED BY <2>1, LeastNumber, Zenon
<1>2. n \in 1..m /\ g[n] # h[n] /\ s[n] = t[n] /\ 1 \in 1..m /\ s[1] = t[1]
  BY <1>1
<1>3. g[n] = IF n = 1 THEN from_created(s[1]) ELSE apply(g[n - 1], s[n])
  BY <1>2, Zenon DEF IsFold
<1>4. h[n] = IF n = 1 THEN from_created(t[1]) ELSE apply(h[n - 1], t[n])
  BY <1>2, Zenon DEF IsFold
<1>5. n # 1
  BY <1>2, <1>3, <1>4, Zenon
<1>6. n - 1 \in 1..m /\ ~(n <= n - 1)
  BY <1>2, <1>5
<1>7. g[n - 1] = h[n - 1]
  <2> HIDE DEF Differs
  <2>1. n - 1 \notin Differs
    BY <1>1, <1>6, Zenon
  <2> QED BY <1>6, <2>1 DEF Differs
<1> QED BY <1>2, <1>3, <1>4, <1>5, <1>7

\* The fold of a log of one event.
LEMMA FoldFirst ==
    ASSUME NEW s, s = <<>>, NEW e
    PROVE  fold(Append(s, e)) = from_created(e)
<1>1. Sequence(s)
  BY EmptySeq, Zenon DEF Sequence
<1> DEFINE t == Append(s, e)
<1>2. Sequence(t) /\ Len(t) = 1 /\ DOMAIN t = 1..1 /\ t[1] = e
  <2>1. Len(s) = 0
    BY <1>1, Shape, Zenon
  <2>2. /\ Sequence(t) /\ Len(t) = Len(s) + 1 /\ DOMAIN t = 1..(Len(s) + 1)
        /\ t[Len(s) + 1] = e
    BY <1>1, Appended, Zenon
  <2> HIDE DEF t
  <2>3. Len(s) + 1 = 1
    BY <2>1
  <2> QED BY <2>2, <2>3, Zenon
<1> HIDE DEF t
<1>3. PICK g : IsFold(g, t) /\ fold(t) = g[Len(t)]
  BY <1>2, FoldUnfolds, Zenon
<1>4. g[1] = from_created(t[1])
  BY <1>2, <1>3 DEF IsFold
<1>5. fold(t) = from_created(e)
  BY <1>2, <1>3, <1>4, Zenon
<1> QED BY <1>5 DEF t

\* The fold of a log with one more event: the event applied to the fold of
\* the log, which is what append_raw does to the row.
LEMMA FoldNext ==
    ASSUME NEW s, Sequence(s), s # <<>>, NEW e
    PROVE  fold(Append(s, e)) = apply(fold(s), e)
<1> DEFINE t == Append(s, e)
           n == Len(s)
<1>1. /\ Sequence(t) /\ Len(t) = n + 1 /\ n \in Nat /\ DOMAIN s = 1..n /\ DOMAIN t = 1..(n + 1)
      /\ t[n + 1] = e /\ \A i \in 1..n : t[i] = s[i]
  BY Appended
<1>2. n # 0
  BY Shape, Zenon
<1> HIDE DEF t, n
<1>3. PICK g : IsFold(g, s) /\ fold(s) = g[n]
  BY FoldUnfolds, Zenon DEF n
<1>4. PICK h : IsFold(h, t) /\ fold(t) = h[n + 1]
  BY <1>1, FoldUnfolds, Zenon
<1>5. g[n] = h[n]
  <2>1. 1..n \subseteq DOMAIN s /\ 1..n \subseteq DOMAIN t /\ (\A i \in 1..n : s[i] = t[i]) /\ n \in 1..n
    BY <1>1, <1>2
  <2>2. \A i \in 1..n : g[i] = h[i]
    <3>1. IsFold(g, s) /\ IsFold(h, t) /\ n \in Nat
      BY <1>1, <1>3, <1>4, Zenon
    <3> QED BY <2>1, <3>1, FoldAgrees
  <2> QED BY <2>1, <2>2
<1>6. n + 1 \in 1..(n + 1) /\ n + 1 # 1 /\ (n + 1) - 1 = n
  BY <1>1, <1>2
<1>7. h[n + 1] = apply(h[n], t[n + 1])
  BY <1>1, <1>4, <1>6, Zenon DEF IsFold
<1>8. fold(t) = apply(fold(s), e)
  BY <1>1, <1>3, <1>4, <1>5, <1>7, Zenon
<1> QED BY <1>8 DEF t

----------------------------------------------------------------------------
(* Replay of an untouched log.                                             *)

\* An event of a chained log as replay reads it: only a figure may differ.
LEMMA ReadEvent ==
    ASSUME NEW events, NEW last, Chained(events, last), NEW i \in DOMAIN events
    PROVE  LET e == events[i] r == event_from_row(events[i])
           IN  /\ e.seq = i /\ r.seq = i /\ r.kind = e.kind /\ r.hash = e.hash
               /\ e.prev_hash = Previous(events, i) /\ r.prev_hash = Previous(events, i)
               /\ e.hash = Append(Previous(events, i), <<i, e.kind, e.body>>)
               /\ compute_hash(r) = Append(Previous(events, i), <<i, e.kind, r.body>>)
               /\ r.body = [text |-> e.body.text, spend |-> Stored(e.body.spend)]
               /\ (Stored(e.body.spend) = e.body.spend => r = e)
               /\ (r.body = e.body => Stored(e.body.spend) = e.body.spend)
<1> DEFINE e == events[i]
           p == Previous(events, i)
           h == Append(p, <<i, e.kind, e.body>>)
           v == Stored(e.body.spend)
           b == [text |-> e.body.text, spend |-> v]
           r == event_from_row(e)
<1>1. e = build(i, e.kind, e.body, p) /\ e.body = [text |-> e.body.text, spend |-> e.body.spend]
  BY Zenon DEF Chained
<1>2. e = [seq |-> i, kind |-> e.kind, body |-> e.body, prev_hash |-> p, hash |-> h]
  BY <1>1, Zenon DEF build, compute_hash
<1>3. r = [e EXCEPT !.body.spend = v]
  BY Zenon DEF event_from_row
<1> HIDE DEF e, p, h, v, r
<1>4. r = [seq |-> i, kind |-> e.kind, body |-> b, prev_hash |-> p, hash |-> h]
  <2>1. [e EXCEPT !.body.spend = v] = [e EXCEPT !.body = [e.body EXCEPT !.spend = v]]
    OBVIOUS
  <2>2. [e.body EXCEPT !.spend = v] = b
    BY <1>1
  <2> QED BY <1>2, <1>3, <2>1, <2>2
<1>5. compute_hash(r) = Append(p, <<i, e.kind, b>>)
  BY <1>4, Zenon DEF compute_hash
<1>6. v = e.body.spend => b = e.body
  BY <1>1, Zenon
<1>7. v = e.body.spend => r = e
  BY <1>2, <1>4, <1>6, Zenon
<1>8. b = e.body => v = e.body.spend
  <2>1. b.spend = v
    OBVIOUS
  <2> QED BY <2>1
<1>9. /\ e.seq = i /\ r.seq = i /\ r.kind = e.kind /\ r.hash = h /\ e.hash = h /\ e.prev_hash = p
      /\ r.prev_hash = p /\ r.body = b
  BY <1>2, <1>4
<1> HIDE DEF b
<1>10. /\ e.seq = i /\ r.seq = i /\ r.kind = e.kind /\ r.hash = e.hash
       /\ e.prev_hash = p /\ r.prev_hash = p /\ e.hash = h
       /\ compute_hash(r) = Append(p, <<i, e.kind, r.body>>)
       /\ r.body = b /\ (v = e.body.spend => r = e) /\ (r.body = e.body => v = e.body.spend)
  BY <1>5, <1>7, <1>8, <1>9, Zenon
<1> QED BY <1>10, Zenon DEF e, p, h, v, b, r

\* The hash an event is built on is a sequence.
LEMMA PreviousIsASequence ==
    ASSUME NEW events, NEW last, Chained(events, last), NEW i \in DOMAIN events
    PROVE  Sequence(Previous(events, i))
<1>1. CASE i = 1
  BY <1>1, EmptySeq, Zenon DEF Previous, ZERO_HASH, Sequence
<1>2. CASE i # 1
  <2>1. Sequence(events)
    BY Zenon DEF Chained
  <2>2. i - 1 \in DOMAIN events
    BY <1>2, <2>1, Shape
  <2>3. Sequence(events[i - 1].hash)
    BY <2>2, Zenon DEF Chained
  <2> QED BY <1>2, <2>3, Zenon DEF Previous
<1> QED BY <1>1, <1>2, Zenon

\* A figure that its JSON does not give back is a hash mismatch of its event.
LEMMA HashesAgree ==
    ASSUME NEW events, NEW last, Chained(events, last), NEW i \in DOMAIN events
    PROVE  /\ event_from_row(events[i]).seq = i
           /\ event_from_row(events[i]).prev_hash = Previous(events, i)
           /\ event_from_row(events[i]).hash = compute_hash(event_from_row(events[i]))
                 <=> Stored(events[i].body.spend) = events[i].body.spend
<1> DEFINE e == events[i]
           p == Previous(events, i)
           r == event_from_row(events[i])
           v == Stored(events[i].body.spend)
<1>1. /\ r.seq = i /\ r.prev_hash = p /\ r.hash = Append(p, <<i, e.kind, e.body>>)
      /\ compute_hash(r) = Append(p, <<i, e.kind, r.body>>)
      /\ (v = e.body.spend => r = e) /\ (r.body = e.body => v = e.body.spend)
  <2>1. /\ r.seq = i /\ r.prev_hash = p /\ r.hash = e.hash
        /\ e.hash = Append(p, <<i, e.kind, e.body>>)
        /\ compute_hash(r) = Append(p, <<i, e.kind, r.body>>)
        /\ (v = e.body.spend => r = e) /\ (r.body = e.body => v = e.body.spend)
    BY ReadEvent, ZenonT(30)
  <2> QED BY <2>1, Zenon
<1>2. Sequence(p)
  BY PreviousIsASequence, Zenon
<1> HIDE DEF e, p, r, v
<1>3. r.hash = compute_hash(r) => <<i, e.kind, e.body>> = <<i, e.kind, r.body>>
  <2> DEFINE x == <<i, e.kind, e.body>>
             y == <<i, e.kind, r.body>>
  <2>1. Append(p, x) = Append(p, y) => x = y
    <3> HIDE DEF x, y
    <3> QED BY <1>2, HashTells
  <2> QED BY <1>1, <2>1, Zenon
<1>4. <<i, e.kind, e.body>> = <<i, e.kind, r.body>> => e.body = r.body
  OBVIOUS
<1>5. r.hash = compute_hash(r) <=> v = e.body.spend
  BY <1>1, <1>3, <1>4, Zenon
<1> QED BY <1>1, <1>5, Zenon DEF e, p, r, v

\* The events as replay reads them.
Read == [i \in DOMAIN log |-> event_from_row(log[i])]

\* What replay computes, over these.
LEMMA ReplayReads ==
    /\ chain_errors = {i \in DOMAIN Read : \/ Read[i].seq # i
                                           \/ Read[i].prev_hash # Previous(Read, i)
                                           \/ Read[i].hash # compute_hash(Read[i])}
                      \cup (IF row.last_hash = Previous(Read, Len(Read) + 1) THEN {} ELSE {Len(Read) + 1})
    /\ state_matches <=> /\ Read # <<>> /\ Head(Read).kind = "run.created"
                         /\ \A i \in 2..Len(Read) : Read[i].kind # "run.created"
                         /\ fold(Read) = run_row_from_row(row).state
BY DEF chain_errors, state_matches, Read, Previous

\* Reading changes neither the number of the events nor their hashes.
LEMMA ReadKeeps ==
    ASSUME Sequence(log)
    PROVE  /\ Len(log) \in Nat /\ DOMAIN log = 1..Len(log) /\ DOMAIN Read = DOMAIN log /\ Len(Read) = Len(log)
           /\ \A i \in DOMAIN log : Read[i] = event_from_row(log[i])
<1>1. Len(log) \in Nat /\ DOMAIN log = 1..Len(log)
  BY Shape, Zenon
<1>2. DOMAIN Read = DOMAIN log /\ \A i \in DOMAIN log : Read[i] = event_from_row(log[i])
  BY Zenon DEF Read
<1>3. Len(Read) = Len(log)
  <2>1. DOMAIN Read = 1..Len(log)
    BY <1>1, <1>2, Zenon
  <2> QED BY <1>1, <2>1
<1> QED BY <1>1, <1>2, <1>3

\* The links of an untouched log are those replay finds.
LEMMA LinksRead ==
    ASSUME Committed
    PROVE  /\ \A i \in DOMAIN log : Previous(Read, i) = Previous(log, i)
           /\ row.last_hash = Previous(Read, Len(Read) + 1)
<1>1. Chained(log, row.last_hash)
  BY Zenon DEF Committed
<1>2. Sequence(log) /\ row.last_hash = Previous(log, Len(log) + 1)
  BY <1>1, Zenon DEF Chained
<1>3. /\ Len(log) \in Nat /\ DOMAIN log = 1..Len(log) /\ DOMAIN Read = DOMAIN log /\ Len(Read) = Len(log)
      /\ \A i \in DOMAIN log : Read[i] = event_from_row(log[i])
  BY <1>2, ReadKeeps, Zenon
<1>4. \A i \in DOMAIN log : Read[i].hash = log[i].hash
  <2> SUFFICES ASSUME NEW i \in DOMAIN log PROVE Read[i].hash = log[i].hash
    OBVIOUS
  <2>1. event_from_row(log[i]).hash = log[i].hash
    BY <1>1, ReadEvent, Zenon
  <2> QED BY <1>3, <2>1
<1>5. ASSUME NEW i \in 1..(Len(log) + 1) PROVE Previous(Read, i) = Previous(log, i)
  <2>1. CASE i = 1
    BY <2>1, Zenon DEF Previous
  <2>2. CASE i # 1
    <3>1. i - 1 \in DOMAIN log
      BY <1>3, <2>2
    <3>2. Read[i - 1].hash = log[i - 1].hash
      BY <1>4, <3>1, Zenon
    <3> QED BY <2>2, <3>2, Zenon DEF Previous
  <2> QED BY <2>1, <2>2, Zenon
<1>6. (\A i \in DOMAIN log : i \in 1..(Len(log) + 1)) /\ Len(log) + 1 \in 1..(Len(log) + 1)
  BY <1>3
<1> QED BY <1>2, <1>3, <1>5, <1>6, Zenon

\* Replay of an untouched log reports exactly the events with a figure that
\* its JSON does not give back.
LEMMA ErrorsAreFigures ==
    ASSUME Committed
    PROVE  chain_errors = {i \in DOMAIN log : Stored(log[i].body.spend) # log[i].body.spend}
<1>1. Chained(log, row.last_hash)
  BY Zenon DEF Committed
<1>2. Sequence(log)
  BY <1>1, Zenon DEF Chained
<1> DEFINE bad(i) == \/ Read[i].seq # i
                     \/ Read[i].prev_hash # Previous(Read, i)
                     \/ Read[i].hash # compute_hash(Read[i])
<1>3. chain_errors = {i \in DOMAIN Read : bad(i)}
  BY ReplayReads, LinksRead, Zenon
<1>4. DOMAIN Read = DOMAIN log
  BY <1>2, ReadKeeps, Zenon
<1>5. ASSUME NEW i \in DOMAIN log
      PROVE  bad(i) <=> Stored(log[i].body.spend) # log[i].body.spend
  <2>1. Read[i] = event_from_row(log[i])
    BY <1>2, ReadKeeps, Zenon
  <2>2. /\ Read[i].seq = i /\ Read[i].prev_hash = Previous(log, i)
        /\ Read[i].hash = compute_hash(Read[i]) <=> Stored(log[i].body.spend) = log[i].body.spend
    BY <1>1, <2>1, HashesAgree
  <2>3. Previous(Read, i) = Previous(log, i)
    BY LinksRead, Zenon
  <2> QED BY <2>2, <2>3, Zenon
<1> QED BY <1>3, <1>4, <1>5, Zenon

\* An untouched log replays clean exactly when its figures round-trip.
LEMMA CleanIffRoundTrips ==
    ASSUME Committed, log # <<>>
    PROVE  ReplayClean <=> RoundTrips(log)
<1>1. Chained(log, row.last_hash) /\ Folded(log, row.state) /\ row = [state |-> row.state, last_hash |-> row.last_hash]
  BY Zenon DEF Committed
<1>2. Sequence(log)
  BY <1>1, Zenon DEF Chained
<1>3. chain_errors = {} <=> RoundTrips(log)
  BY ErrorsAreFigures, Zenon DEF RoundTrips
<1>4. ASSUME RoundTrips(log) PROVE state_matches
  <2>1. Len(log) \in Nat /\ DOMAIN log = 1..Len(log) /\ Len(log) # 0
    BY <1>2, Shape, Zenon
  <2>2. Read = log
    <3>1. \A i \in DOMAIN log : event_from_row(log[i]) = log[i]
      BY <1>1, <1>4, ReadEvent, ZenonT(30) DEF RoundTrips
    <3>2. log = [i \in DOMAIN log |-> log[i]]
      BY <1>2 DEF Sequence
    <3> QED BY <3>1, <3>2 DEF Read
  <2>3. \A i \in DOMAIN log : log[i].kind = "run.created" <=> i = 1
    BY <1>1, Zenon DEF Folded
  <2>4. log[1].kind = "run.created" /\ \A i \in 2..Len(log) : log[i].kind # "run.created"
    BY <2>1, <2>3
  <2>5. Head(log) = log[1]
    BY <1>2 DEF Sequence
  <2>6. fold(log) = row.state /\ Stored(row.state.used) = row.state.used
    BY <1>1, <1>4, Zenon DEF Folded
  <2>7. row.state = [status |-> row.state.status, used |-> row.state.used, last_seq |-> Len(log)]
    BY <1>1, Zenon DEF Folded
  <2>8. run_row_from_row(row).state = row.state
    <3>1. run_row_from_row(row) = [row EXCEPT !.state = [row.state EXCEPT !.used = row.state.used]]
      BY <1>1, <2>6, Zenon DEF run_row_from_row
    <3>2. [row.state EXCEPT !.used = row.state.used] = row.state
      BY <2>7, Zenon
    <3> QED BY <1>1, <3>1, <3>2
  <2> QED BY <2>2, <2>4, <2>5, <2>6, <2>8, ReplayReads, Zenon
<1> QED BY <1>3, <1>4, Zenon DEF ReplayClean

----------------------------------------------------------------------------
(* A fault of the events table.                                            *)

\* An event with a number or a hash of another is reported.
LEMMA ErrorShows ==
    ASSUME NEW i, i \in DOMAIN log', NEW r, r = event_from_row(log'[i]),
           r.seq # i \/ r.hash # compute_hash(r)
    PROVE  ~ReplayClean'
<1>1. i \in DOMAIN [k \in DOMAIN log' |-> event_from_row(log'[k])]
  OBVIOUS
<1>2. [k \in DOMAIN log' |-> event_from_row(log'[k])][i] = r
  OBVIOUS
<1>3. i \in chain_errors'
  BY <1>1, <1>2, Zenon DEF chain_errors
<1> QED BY <1>3 DEF ReplayClean

\* A changed event: its hash is that of another kind.
LEMMA ChangeShows ==
    ASSUME Committed, row' = row, NEW i \in DOMAIN log, NEW kind, NEW text, kind # log[i].kind,
           log' = [log EXCEPT ![i].kind = kind, ![i].body.text = text]
    PROVE  ~ReplayClean'
<1>1. Chained(log, row.last_hash)
  BY Zenon DEF Committed
<1>2. Sequence(log)
  BY <1>1, Zenon DEF Chained
<1> DEFINE e == log[i]
           p == Previous(log, i)
<1>3. /\ e = [seq |-> i, kind |-> e.kind, body |-> e.body, prev_hash |-> p,
              hash |-> Append(p, <<i, e.kind, e.body>>)]
      /\ e.body = [text |-> e.body.text, spend |-> e.body.spend]
  <2>1. e = build(i, e.kind, e.body, p) /\ e.body = [text |-> e.body.text, spend |-> e.body.spend]
    BY <1>1, Zenon DEF Chained
  <2> QED BY <2>1 DEF build, compute_hash
<1>4. DOMAIN log' = DOMAIN log /\ log'[i] = [e EXCEPT !.kind = kind, !.body.text = text]
  <2>1. log = [k \in DOMAIN log |-> log[k]]
    BY <1>2 DEF Sequence
  <2> QED BY <2>1, Zenon
<1>5. PICK f : f = log'[i]
  OBVIOUS
<1> HIDE DEF e, p
<1>6. /\ f.seq = i /\ f.kind = kind /\ f.prev_hash = p /\ f.hash = Append(p, <<i, e.kind, e.body>>)
      /\ f = [seq |-> i, kind |-> kind, body |-> [text |-> text, spend |-> e.body.spend],
              prev_hash |-> p, hash |-> Append(p, <<i, e.kind, e.body>>)]
  <2>1. PICK h : h = Append(p, <<i, e.kind, e.body>>)
    BY Zenon
  <2>2. PICK b : b = [e.body EXCEPT !.text = text]
    BY Zenon
  <2>3. b = [text |-> text, spend |-> e.body.spend]
    BY <1>3, <2>2, Zenon
  <2>4. f = [[e EXCEPT !.kind = kind] EXCEPT !.body = b]
    BY <1>4, <1>5, <2>2, <1>3
  <2>5. e = [seq |-> i, kind |-> e.kind, body |-> e.body, prev_hash |-> p, hash |-> h]
    BY <1>3, <2>1, Zenon
  <2>6. f = [seq |-> i, kind |-> kind, body |-> b, prev_hash |-> p, hash |-> h]
    <3>1. PICK k, c : k = e.kind /\ c = e.body
      OBVIOUS
    <3>2. e = [seq |-> i, kind |-> k, body |-> c, prev_hash |-> p, hash |-> h]
      BY <2>5, <3>1, Zenon
    <3>3. [e EXCEPT !.kind = kind] = [seq |-> i, kind |-> kind, body |-> c, prev_hash |-> p, hash |-> h]
      BY <3>2
    <3> QED BY <2>4, <3>3, Zenon
  <2> QED BY <2>1, <2>3, <2>6
<1>7. PICK r : r = event_from_row(f)
  OBVIOUS
<1>8. r.seq = i /\ r.kind = kind /\ r.prev_hash = p /\ r.hash = Append(p, <<i, e.kind, e.body>>)
  BY <1>6, <1>7, Zenon DEF event_from_row
<1>9. compute_hash(r) = Append(p, <<i, kind, r.body>>)
  BY <1>8, Zenon DEF compute_hash
<1>10. r.hash # compute_hash(r)
  <2> DEFINE x == <<i, e.kind, e.body>>
             y == <<i, kind, r.body>>
  <2>1. x # y
    BY Zenon DEF e
  <2>2. Sequence(p)
    BY <1>1, PreviousIsASequence, Zenon DEF p
  <2>3. Append(p, x) = Append(p, y) => x = y
    <3> HIDE DEF x, y
    <3> QED BY <2>2, HashTells
  <2> QED BY <1>8, <1>9, <2>1, <2>3, Zenon
<1>11. i \in DOMAIN log' /\ r = event_from_row(log'[i])
  BY <1>4, <1>5, <1>7, Zenon
<1> QED BY <1>10, <1>11, ErrorShows

\* An event in the place of another: it has another number.
LEMMA MoveShows ==
    ASSUME Committed, NEW i, i \in DOMAIN log', NEW j \in DOMAIN log, j # i, log'[i] = log[j]
    PROVE  ~ReplayClean'
<1>1. Chained(log, row.last_hash)
  BY Zenon DEF Committed
<1>2. event_from_row(log[j]).seq = j
  BY <1>1, ReadEvent, Zenon
<1>3. PICK r : r = event_from_row(log[j])
  OBVIOUS
<1>4. r = event_from_row(log'[i]) /\ r.seq # i
  BY <1>2, <1>3, Zenon
<1> QED BY <1>4, ErrorShows

\* The log without one of its events.
Lost(i) == log' = SubSeq(log, 1, i - 1) \o SubSeq(log, i + 1, Len(log))

\* A lost event: the next one stands in its place, or the row has the hash of
\* an event that is gone.
LEMMA LossShows ==
    ASSUME Committed, row' = row, NEW i \in DOMAIN log, Lost(i)
    PROVE  ~ReplayClean'
<1> DEFINE n == Len(log)
<1>1. Chained(log, row.last_hash)
  BY Zenon DEF Committed
<1>2. Sequence(log) /\ row.last_hash = Previous(log, n + 1)
  BY <1>1, Zenon DEF Chained
<1>3. n \in Nat /\ DOMAIN log = 1..n /\ log \in Seq(Range(log))
  BY <1>2, Shape, Zenon DEF Sequence
<1> DEFINE a == SubSeq(log, 1, i - 1)
           b == SubSeq(log, i + 1, n)
<1>4. /\ a \in Seq(Range(log)) /\ Len(a) = i - 1 /\ b \in Seq(Range(log)) /\ Len(b) = n - i
      /\ \A k \in 1..(i - 1) : a[k] = log[k]
      /\ \A k \in 1..(n - i) : b[k] = log[i + k]
  <2>1. i \in 1..n /\ i - 1 \in Int /\ i + 1 \in Int
    BY <1>3
  <2>2. (\A k \in 1..(i - 1) : log[k] \in Range(log)) /\ (\A k \in (i + 1)..n : log[k] \in Range(log))
    BY <1>3, <2>1
  <2>3. /\ a \in Seq(Range(log)) /\ Len(a) = (IF 1 <= i - 1 THEN (i - 1) - 1 + 1 ELSE 0)
        /\ \A k \in 1..((i - 1) - 1 + 1) : a[k] = log[1 + k - 1]
    BY <2>1, <2>2, SubSeqProperties
  <2>4. /\ b \in Seq(Range(log)) /\ Len(b) = (IF i + 1 <= n THEN n - (i + 1) + 1 ELSE 0)
        /\ \A k \in 1..(n - (i + 1) + 1) : b[k] = log[(i + 1) + k - 1]
    BY <1>3, <2>1, <2>2, SubSeqProperties
  <2> HIDE DEF a, b, n
  <2>5. Len(a) = i - 1 /\ Len(b) = n - i
    BY <1>3, <2>1, <2>3, <2>4
  <2>6. \A k \in 1..(i - 1) : a[k] = log[k]
    BY <2>1, <2>3
  <2>7. \A k \in 1..(n - i) : b[k] = log[i + k]
    <3> SUFFICES ASSUME NEW k \in 1..(n - i) PROVE b[k] = log[i + k]
      OBVIOUS
    <3>1. k \in 1..(n - (i + 1) + 1) /\ (i + 1) + k - 1 = i + k
      BY <1>3, <2>1
    <3> QED BY <2>4, <3>1
  <2> QED BY <2>3, <2>4, <2>5, <2>6, <2>7, Zenon
<1>5. log' = a \o b
  BY Zenon DEF Lost
<1> HIDE DEF a, b, n
<1>6. /\ Len(log') = (i - 1) + (n - i) /\ DOMAIN log' = 1..((i - 1) + (n - i))
      /\ \A k \in 1..(i - 1) : log'[k] = a[k]
      /\ \A k \in 1..(n - i) : log'[(i - 1) + k] = b[k]
  <2>1. Sequence(a) /\ Sequence(b)
    BY <1>4, SeqOfRange, Zenon DEF Sequence
  <2>2. /\ Len(a \o b) = Len(a) + Len(b) /\ DOMAIN (a \o b) = 1..(Len(a) + Len(b))
        /\ \A k \in 1..Len(a) : (a \o b)[k] = a[k]
        /\ \A k \in 1..Len(b) : (a \o b)[Len(a) + k] = b[k]
    BY <2>1, Concatenated
  <2> QED BY <1>4, <1>5, <2>2, Zenon
<1>7. CASE i < n
  <2>1. i + 1 \in DOMAIN log /\ i + 1 # i /\ i \in DOMAIN log' /\ 1 \in 1..(n - i) /\ (i - 1) + 1 = i
    BY <1>3, <1>6, <1>7
  <2>2. log'[i] = log[i + 1]
    BY <1>4, <1>6, <2>1
  <2> QED BY <2>1, <2>2, MoveShows
<1>8. CASE i = n
  <2>1. n \in 1..n /\ Len(log') = n - 1 /\ DOMAIN log' = 1..(n - 1) /\ \A k \in 1..(n - 1) : log'[k] = log[k]
    BY <1>3, <1>4, <1>6, <1>8
  <2> DEFINE p == Previous(log, n)
             events == [k \in DOMAIN log' |-> event_from_row(log'[k])]
  <2>2. row.last_hash = Append(p, <<n, log[n].kind, log[n].body>>)
    <3>1. log[n].hash = Append(p, <<n, log[n].kind, log[n].body>>)
      <4>1. PICK k \in DOMAIN log : k = n
        BY <1>3, <2>1, Zenon
      <4>2. log[k].hash = Append(Previous(log, k), <<k, log[k].kind, log[k].body>>)
        BY <1>1, ReadEvent, Zenon
      <4> QED BY <4>1, <4>2, Zenon
    <3>2. n + 1 # 1 /\ (n + 1) - 1 = n
      BY <1>3, <2>1
    <3> QED BY <1>2, <3>1, <3>2, Zenon DEF Previous
  <2>3. Sequence(p)
    BY <1>1, <1>3, <2>1, PreviousIsASequence, Zenon
  <2>4. row.last_hash # p
    BY <2>2, <2>3, HashTells
  <2>5. (IF (n - 1) + 1 = 1 THEN ZERO_HASH ELSE events[((n - 1) + 1) - 1].hash) = p
    <3>1. CASE n = 1
      BY <3>1 DEF Previous
    <3>2. CASE n # 1
      <4>1. n - 1 \in DOMAIN log /\ n - 1 \in DOMAIN log' /\ log'[n - 1] = log[n - 1] /\ ((n - 1) + 1) - 1 = n - 1
        BY <1>3, <2>1, <3>2
      <4>2. event_from_row(log[n - 1]).hash = log[n - 1].hash
        BY <1>1, <4>1, ReadEvent, Zenon
      <4>3. events[n - 1].hash = log[n - 1].hash
        BY <4>1, <4>2, Zenon
      <4>4. (n - 1) + 1 = n
        BY <1>3
      <4> QED BY <3>2, <4>1, <4>3, <4>4, Zenon DEF Previous
    <3> QED BY <3>1, <3>2
  <2>6. Len(events) = n - 1
    <3>1. DOMAIN events = 1..(n - 1) /\ n - 1 \in Nat
      BY <1>3, <2>1
    <3> QED BY <3>1
  <2>7. (n - 1) + 1 \in chain_errors'
    <3> HIDE DEF p
    <3>1. chain_errors' = {k \in DOMAIN events : \/ events[k].seq # k
                                                 \/ events[k].prev_hash # IF k = 1 THEN ZERO_HASH ELSE events[k - 1].hash
                                                 \/ events[k].hash # compute_hash(events[k])}
              \cup (IF row.last_hash = (IF Len(events) + 1 = 1 THEN ZERO_HASH
                                        ELSE events[(Len(events) + 1) - 1].hash) THEN {} ELSE {Len(events) + 1})
      BY Zenon DEF chain_errors
    <3> HIDE DEF events
    <3> QED BY <2>4, <2>5, <2>6, <3>1
  <2> QED BY <2>7 DEF ReplayClean
<1> QED BY <1>3, <1>7, <1>8

\* Whatever happens to the table, replay reports it.
LEMMA DamageShows ==
    ASSUME Committed, Damage
    PROVE  ~ReplayClean'
<1>1. row' = row
  BY Zenon DEF Damage
<1>2. Sequence(log)
  BY Zenon DEF Committed, Chained
<1>3. ASSUME NEW i \in DOMAIN log,
             log' = [log EXCEPT ![i].kind = IF @ = "note" THEN "tool.result" ELSE "note", ![i].body.text = "changed"]
      PROVE  ~ReplayClean'
  <2>1. PICK kind : kind = IF log[i].kind = "note" THEN "tool.result" ELSE "note"
    OBVIOUS
  <2>2. kind # log[i].kind
    BY <2>1, Zenon
  <2>3. log' = [log EXCEPT ![i].kind = kind, ![i].body.text = "changed"]
    BY <1>3, <2>1, Zenon
  <2> QED BY <1>1, <2>2, <2>3, ChangeShows, Zenon
<1>4. ASSUME NEW i \in DOMAIN log, Lost(i) PROVE ~ReplayClean'
  BY <1>1, <1>4, LossShows, Zenon
<1>5. ASSUME NEW i \in 1..(Len(log) - 1), log' = [log EXCEPT ![i] = log[i + 1], ![i + 1] = log[i]]
      PROVE  ~ReplayClean'
  <2>1. i \in DOMAIN log /\ i + 1 \in DOMAIN log /\ i + 1 # i
    BY <1>2, Shape
  <2>2. i \in DOMAIN log' /\ log'[i] = log[i + 1]
    BY <1>5, <2>1, Zenon
  <2> QED BY <2>1, <2>2, MoveShows
<1> QED BY <1>3, <1>4, <1>5, Zenon DEF Damage, Lost

----------------------------------------------------------------------------
(* The invariant, operation by operation.                                  *)

\* A run nobody has started: an empty log and no row.
LEMMA InitLog == Init => LogInv
<1> SUFFICES ASSUME Init PROVE LogInv
  OBVIOUS
<1>1. Sequence(log) /\ Len(log) = 0 /\ DOMAIN log = {}
  BY EmptySeq DEF Init, Sequence
<1>2. /\ row.last_hash = ZERO_HASH /\ row = [state |-> row.state, last_hash |-> row.last_hash]
      /\ row.state.status = "none" /\ row.state.used = Zero
      /\ row.state = [status |-> row.state.status, used |-> row.state.used, last_seq |-> 0]
  BY Zenon DEF Init, NoRow
<1>3. Chained(log, row.last_hash)
  BY <1>1, <1>2 DEF Chained, Previous
<1>4. Folded(log, row.state)
  BY <1>1, <1>2, Zenon DEF Folded, Init
<1>5. Committed
  BY <1>2, <1>3, <1>4, Zenon DEF Committed
<1>6. /\ cli.from = 1 /\ cli.got = <<>> /\ cli.done = FALSE /\ cli.began = 0
      /\ cli = [from |-> 1, got |-> <<>>, done |-> FALSE, began |-> 0]
      /\ follower.from = 1 /\ follower.got = <<>> /\ follower.done = FALSE
      /\ follower = [from |-> 1, got |-> <<>>, done |-> FALSE]
  BY Zenon DEF Init
<1>7. DOMAIN <<>> = {} /\ Len(<<>>) = 0 /\ <<>> \in Seq(Nat)
  BY EmptySeq
<1>8. /\ cli \in [from: Nat, got: Seq(Nat), done: BOOLEAN, began: Nat]
      /\ follower \in [from: Nat, got: Seq(Nat), done: BOOLEAN]
  BY <1>6, <1>7
<1>9. Paging
  BY <1>1, <1>6, <1>7, <1>8 DEF Paging
<1>10. ~damaged /\ ~tx.open
  BY Zenon DEF Init, NoTx
<1> QED BY <1>5, <1>9, <1>10, Zenon DEF LogInv

\* Reading the row keeps what is known of it: a figure may change, but then
\* one of the log has changed as well.
LEMMA RowRead ==
    ASSUME Committed
    PROVE  LET r == run_row_from_row(row)
           IN  /\ r = [state |-> r.state, last_hash |-> r.last_hash]
               /\ r.last_hash = row.last_hash /\ r.state.status = row.state.status
               /\ Folded(log, r.state)
<1> DEFINE r == run_row_from_row(row)
           v == Stored(row.state.used)
           q == [row.state EXCEPT !.used = v]
<1>1. row = [state |-> row.state, last_hash |-> row.last_hash] /\ Folded(log, row.state)
  BY Zenon DEF Committed
<1>2. row.state = [status |-> row.state.status, used |-> row.state.used, last_seq |-> Len(log)]
  BY <1>1, Zenon DEF Folded
<1>3. r = [row EXCEPT !.state = q]
  BY Zenon DEF run_row_from_row
<1> HIDE DEF r, v
<1>4. q = [status |-> row.state.status, used |-> v, last_seq |-> Len(log)]
  BY <1>2
<1>5. q.status = row.state.status /\ q.used = v
  BY <1>4, Zenon
<1>6. q = [status |-> q.status, used |-> q.used, last_seq |-> Len(log)]
  BY <1>4, <1>5, Zenon
<1> HIDE DEF q
<1>7. r = [state |-> q, last_hash |-> row.last_hash]
  BY <1>1, <1>3, Zenon
<1>8. r.state = q /\ r.last_hash = row.last_hash
  BY <1>7, Zenon
<1>9. Folded(log, q)
  <2>1. v = row.state.used => q = row.state
    BY <1>2, <1>4, Zenon
  <2>2. /\ log = <<>> <=> q.status = "none"
        /\ \A i \in DOMAIN log : log[i].kind = "run.created" <=> i = 1
    BY <1>1, <1>5, Zenon DEF Folded
  <2>3. log = <<>> => q.used = Zero
    BY <1>1, <1>5, Zenon DEF Folded, Stored, v
  <2>4. log # <<>> /\ RoundTrips(log) => fold(log) = q /\ Stored(q.used) = q.used
    BY <1>1, <1>5, <2>1, Zenon DEF Folded, v
  <2> QED BY <1>6, <2>2, <2>3, <2>4, Zenon DEF Folded
<1>10. /\ r = [state |-> r.state, last_hash |-> r.last_hash]
       /\ r.last_hash = row.last_hash /\ r.state.status = row.state.status /\ Folded(log, r.state)
  BY <1>5, <1>7, <1>8, <1>9, Zenon
<1> QED BY <1>10 DEF r

\* What a batch may be, given the status the row has.
Fitting(kinds, status) ==
    /\ Sequence(kinds)
    /\ status = "none" => kinds = <<"run.created", "step.scheduled">>
    /\ status # "none" => \A k \in DOMAIN kinds : kinds[k] # "run.created"

\* The batches of the handlers are such.
LEMMA BatchesFit ==
    ASSUME NEW status \in {"none", "running", "parked", "completed"}, NEW kinds \in Batches(status)
    PROVE  Fitting(kinds, status)
<1>1. CASE status = "none"
  <2>1. kinds = <<"run.created", "step.scheduled">>
    BY <1>1, Zenon DEF Batches
  <2>2. kinds \in Seq({"run.created", "step.scheduled"})
    BY <2>1
  <2>3. Sequence(kinds)
    BY <2>2, SeqOfRange, Zenon DEF Sequence
  <2> QED BY <1>1, <2>1, <2>3, Zenon DEF Fitting
<1>2. CASE status = "running"
  <2>1. \/ kinds = <<"step.completed", "usage.recorded">> \/ kinds = <<"run.parked">>
        \/ kinds = <<"step.completed", "usage.recorded", "run.completed">>
    BY <1>2, Zenon DEF Batches
  <2> DEFINE K == {"step.completed", "usage.recorded", "run.parked", "run.completed"}
  <2>2. kinds \in Seq(K)
    <3>1. <<"step.completed", "usage.recorded">> \in Seq(K) /\ <<"run.parked">> \in Seq(K)
      OBVIOUS
    <3>2. <<"step.completed", "usage.recorded", "run.completed">> \in Seq(K)
      OBVIOUS
    <3> QED BY <2>1, <3>1, <3>2, Zenon
  <2>3. \A k \in DOMAIN kinds : kinds[k] # "run.created"
    BY <2>2
  <2> QED BY <1>2, <2>2, <2>3, SeqOfRange DEF Fitting, Sequence
<1>3. CASE status = "parked"
  <2>1. kinds = <<"run.resumed">>
    BY <1>3, Zenon DEF Batches
  <2>2. kinds \in Seq({"run.resumed"})
    BY <2>1
  <2>3. \A k \in DOMAIN kinds : kinds[k] # "run.created"
    BY <2>2
  <2> QED BY <1>3, <2>2, <2>3, SeqOfRange DEF Fitting, Sequence
<1>4. CASE status = "completed"
  BY <1>4, Zenon DEF Batches
<1> QED BY <1>1, <1>2, <1>3, <1>4, Zenon

\* A transaction begins with the row as it is read and no events.
LEMMA BeginKeeps ==
    ASSUME LogInv, NEW kinds, NEW cost, NEW text, Begin(kinds, cost, text),
           Fitting(kinds, row.state.status)
    PROVE  LogInv'
<1>1. /\ ~damaged /\ UNCHANGED <<log, row, cli, follower, damaged>>
      /\ tx' = [open |-> TRUE, run |-> run_row_from_row(row), events |-> <<>>, todo |-> kinds,
                cost |-> cost, text |-> text]
  BY Zenon DEF Begin
<1>2. Committed /\ Paging
  BY <1>1, Zenon DEF LogInv
<1>3. Committed' /\ Paging'
  BY <1>1, <1>2, Zenon DEF Committed, Paging
<1>4. tx'.run = run_row_from_row(row) /\ tx'.events = <<>> /\ tx'.todo = kinds
  BY <1>1, Zenon
<1>5. PICK r : r = tx'.run
  OBVIOUS
<1>6. /\ r = [state |-> r.state, last_hash |-> r.last_hash]
      /\ r.last_hash = row.last_hash /\ r.state.status = row.state.status
      /\ Folded(log, r.state)
  BY <1>2, <1>4, <1>5, RowRead, Zenon
<1>7. Chained(log, row.last_hash) /\ row.state.status \in {"none", "running", "parked", "completed"}
  BY <1>2, Zenon DEF Committed
<1>8. Sequence(tx'.events)
  BY <1>4, EmptySeq, Zenon DEF Sequence
<1>9. log' \o tx'.events = log
  <2>1. Sequence(log)
    BY <1>7, Zenon DEF Chained
  <2> QED BY <1>1, <1>4, <2>1, NothingWithin
<1>10. Underway'
  <2>0. tx' = [open |-> TRUE, run |-> tx'.run, events |-> tx'.events, todo |-> tx'.todo,
               cost |-> tx'.cost, text |-> tx'.text]
    BY <1>1, Zenon
  <2>1. Chained(log' \o tx'.events, r.last_hash) /\ Folded(log' \o tx'.events, r.state)
    BY <1>6, <1>7, <1>9, Zenon
  <2>2. /\ r.state.status \in {"none", "created", "running", "parked", "completed"}
        /\ r.state.status # "created"
    BY <1>6, <1>7, Zenon
  <2>3. /\ Sequence(tx'.todo)
        /\ r.state.status = "none" => tx'.todo = <<"run.created", "step.scheduled">>
        /\ r.state.status # "none" => \A k \in DOMAIN tx'.todo : tx'.todo[k] # "run.created"
    BY <1>4, <1>6, Zenon DEF Fitting
  <2> QED BY <1>5, <1>6, <1>8, <2>0, <2>1, <2>2, <2>3, Zenon DEF Underway
<1> QED BY <1>1, <1>3, <1>10, Zenon DEF LogInv

\* The hash a chain ends with is a sequence.
LEMMA LastIsASequence ==
    ASSUME NEW events, NEW last, Chained(events, last)
    PROVE  Sequence(last)
<1>1. Sequence(events) /\ last = Previous(events, Len(events) + 1)
  BY Zenon DEF Chained
<1>2. Len(events) \in Nat /\ DOMAIN events = 1..Len(events)
  BY <1>1, Shape, Zenon
<1>3. CASE Len(events) = 0
  <2>1. last = ZERO_HASH
    BY <1>1, <1>3 DEF Previous
  <2> QED BY <2>1, EmptySeq DEF ZERO_HASH, Sequence
<1>4. CASE Len(events) # 0
  <2>1. Len(events) \in DOMAIN events /\ Len(events) + 1 # 1 /\ (Len(events) + 1) - 1 = Len(events)
    BY <1>2, <1>4
  <2>2. last = events[Len(events)].hash
    BY <1>1, <2>1, Zenon DEF Previous
  <2>3. Sequence(events[Len(events)].hash)
    BY <2>1, Zenon DEF Chained
  <2> QED BY <2>2, <2>3, Zenon
<1> QED BY <1>3, <1>4, Zenon

\* An event built on the last hash prolongs the chain.
LEMMA ChainGrows ==
    ASSUME NEW events, NEW last, Chained(events, last), NEW kind, NEW body,
           body = [text |-> body.text, spend |-> body.spend],
           NEW e, e = build(Len(events) + 1, kind, body, last)
    PROVE  Chained(Append(events, e), e.hash) /\ e.kind = kind /\ e.body = body /\ e.seq = Len(events) + 1
<1> DEFINE n == Len(events)
           W == Append(events, e)
           h == Append(last, <<n + 1, kind, body>>)
<1>1. Sequence(events) /\ last = Previous(events, n + 1)
  BY Zenon DEF Chained
<1>2. /\ Sequence(W) /\ n \in Nat /\ DOMAIN events = 1..n /\ Len(W) = n + 1 /\ DOMAIN W = 1..(n + 1)
      /\ \A i \in 1..n : W[i] = events[i]
      /\ W[n + 1] = e
  BY <1>1, Appended
<1>3. e = [seq |-> n + 1, kind |-> kind, body |-> body, prev_hash |-> last, hash |-> h]
  BY Zenon DEF build, compute_hash
<1>4. Sequence(h)
  <2>1. Sequence(last)
    BY LastIsASequence, Zenon
  <2> QED BY <2>1, Appended
<1> HIDE DEF W, h, n
<1>5. e.kind = kind /\ e.body = body /\ e.seq = n + 1 /\ e.hash = h
  BY <1>3
<1>6. \A i \in 1..(n + 1) : Previous(W, i) = Previous(events, i)
  <2> SUFFICES ASSUME NEW i \in 1..(n + 1) PROVE Previous(W, i) = Previous(events, i)
    OBVIOUS
  <2>1. i # 1 => i - 1 \in 1..n
    BY <1>2
  <2>2. i # 1 => W[i - 1] = events[i - 1]
    BY <1>2, <2>1, Zenon
  <2> QED BY <2>2, Zenon DEF Previous
<1>7. ASSUME NEW i \in DOMAIN W
      PROVE  /\ W[i] = build(i, W[i].kind, W[i].body, Previous(W, i))
             /\ W[i].body = [text |-> W[i].body.text, spend |-> W[i].body.spend]
             /\ Sequence(W[i].hash)
  <2>1. i \in 1..(n + 1) /\ Previous(W, i) = Previous(events, i)
    BY <1>2, <1>6, Zenon
  <2>2. CASE i = n + 1
    BY <1>1, <1>2, <1>4, <1>5, <2>1, <2>2, Zenon DEF n
  <2>3. CASE i # n + 1
    <3>1. i \in DOMAIN events /\ W[i] = events[i]
      BY <1>2, <2>1, <2>3
    <3> QED BY <2>1, <3>1, Zenon DEF Chained
  <2> QED BY <2>2, <2>3, Zenon
<1>8. e.hash = Previous(W, Len(W) + 1)
  <2>1. Len(W) + 1 # 1 /\ (Len(W) + 1) - 1 = n + 1
    BY <1>2
  <2> QED BY <1>2, <2>1, Zenon DEF Previous
<1>9. Chained(W, e.hash)
  BY <1>2, <1>7, <1>8, Zenon DEF Chained
<1> QED BY <1>5, <1>9, Zenon DEF W, n

\* The figures of a log with one more event.
LEMMA RoundTripsBefore ==
    ASSUME NEW events, Sequence(events), NEW e, RoundTrips(Append(events, e))
    PROVE  RoundTrips(events) /\ Stored(e.body.spend) = e.body.spend
<1> DEFINE n == Len(events)
           W == Append(events, e)
<1>1. /\ n \in Nat /\ DOMAIN events = 1..n /\ DOMAIN W = 1..(n + 1)
      /\ \A i \in 1..n : W[i] = events[i]
      /\ W[n + 1] = e
  BY Appended
<1>2. \A i \in DOMAIN W : Stored(W[i].body.spend) = W[i].body.spend
  BY Zenon DEF RoundTrips
<1> HIDE DEF n, W
<1>3. n + 1 \in DOMAIN W /\ \A i \in 1..n : i \in DOMAIN W
  BY <1>1
<1>4. Stored(e.body.spend) = e.body.spend
  BY <1>1, <1>2, <1>3, Zenon
<1>5. RoundTrips(events)
  BY <1>1, <1>2, <1>3, Zenon DEF RoundTrips
<1> QED BY <1>4, <1>5

\* The first event of a log creates the state the log folds to.
LEMMA FirstFolds ==
    ASSUME NEW events, events = <<>>, NEW e, e.kind = "run.created", e.seq = 1
    PROVE  Folded(Append(events, e), from_created(e)) /\ from_created(e).status = "created"
<1> DEFINE W == Append(events, e)
           q == from_created(e)
<1>1. Sequence(events)
  BY EmptySeq, Zenon DEF Sequence
<1>2. Len(events) = 0
  BY <1>1, Shape, Zenon
<1>3. W # <<>> /\ Len(W) = 1 /\ DOMAIN W = 1..1 /\ W[1] = e
  <2>1. W # <<>> /\ Len(W) = Len(events) + 1 /\ DOMAIN W = 1..(Len(events) + 1) /\ W[Len(events) + 1] = e
    BY <1>1, Appended, Zenon
  <2> HIDE DEF W
  <2>2. Len(events) + 1 = 1
    BY <1>2
  <2> QED BY <2>1, <2>2, Zenon
<1>4. q = [status |-> "created", used |-> Zero, last_seq |-> 1]
  BY Zenon DEF from_created
<1>5. fold(W) = q
  BY FoldFirst, Zenon
<1> HIDE DEF W, q
<1>6. /\ q.status = "created" /\ q.used = Zero
      /\ q = [status |-> q.status, used |-> q.used, last_seq |-> Len(W)]
  BY <1>3, <1>4, Zenon
<1>7. Stored(q.used) = q.used
  BY <1>6, Zenon DEF Stored
<1>8. \A i \in DOMAIN W : W[i].kind = "run.created" <=> i = 1
  BY <1>3
<1>9. Folded(W, q)
  BY <1>3, <1>5, <1>6, <1>7, <1>8, Zenon DEF Folded
<1> QED BY <1>6, <1>9 DEF W, q

\* A later event leaves the state the longer log folds to.
LEMMA NextFolds ==
    ASSUME NEW events, Sequence(events), NEW q, Folded(events, q), q.status # "none",
           NEW e, e.kind # "run.created", e.seq = Len(events) + 1
    PROVE  Folded(Append(events, e), apply(q, e))
<1> DEFINE n == Len(events)
           W == Append(events, e)
           a == apply(q, e)
<1>1. /\ W # <<>> /\ n \in Nat /\ DOMAIN events = 1..n /\ Len(W) = n + 1 /\ DOMAIN W = 1..(n + 1)
      /\ \A i \in 1..n : W[i] = events[i]
      /\ W[n + 1] = e
  BY Appended
<1>2. events # <<>> /\ \A i \in DOMAIN events : events[i].kind = "run.created" <=> i = 1
  BY Zenon DEF Folded
<1>3. n # 0
  BY <1>2, Shape, Zenon
<1>4. a = [last_seq |-> n + 1, used |-> a.used, status |-> a.status]
  BY Zenon DEF apply
<1>5. a.used = IF e.kind = "usage.recorded" THEN e.body.spend ELSE q.used
  BY Zenon DEF apply
<1>6. a.status # "none"
  BY Zenon DEF apply
<1>7. fold(W) = apply(fold(events), e)
  BY <1>2, FoldNext, Zenon
<1> HIDE DEF W, n
<1>8. ASSUME RoundTrips(W) PROVE fold(W) = a /\ Stored(a.used) = a.used
  <2>1. RoundTrips(events) /\ Stored(e.body.spend) = e.body.spend
    BY <1>8, RoundTripsBefore, Zenon DEF W
  <2>2. fold(events) = q /\ Stored(q.used) = q.used
    BY <1>2, <2>1, Zenon DEF Folded
  <2> HIDE DEF a
  <2>3. Stored(a.used) = a.used
    BY <1>5, <2>1, <2>2, Zenon
  <2> QED BY <1>7, <2>2, <2>3 DEF a
<1> HIDE DEF a
<1>9. \A i \in DOMAIN W : W[i].kind = "run.created" <=> i = 1
  <2> SUFFICES ASSUME NEW i \in DOMAIN W PROVE W[i].kind = "run.created" <=> i = 1
    OBVIOUS
  <2>1. CASE i = n + 1
    BY <1>1, <1>3, <2>1
  <2>2. CASE i # n + 1
    <3>1. i \in DOMAIN events /\ W[i] = events[i]
      BY <1>1, <2>2
    <3> QED BY <1>2, <3>1, Zenon
  <2> QED BY <2>1, <2>2, Zenon
<1>10. a = [status |-> a.status, used |-> a.used, last_seq |-> Len(W)]
  BY <1>1, <1>4, Zenon
<1>11. Folded(W, a)
  BY <1>1, <1>6, <1>8, <1>9, <1>10, Zenon DEF Folded
<1> QED BY <1>11 DEF W, a

\* The rest of a batch.
LEMMA TailKeeps ==
    ASSUME NEW s, Sequence(s), s # <<>>
    PROVE  /\ Sequence(Tail(s)) /\ 1 \in DOMAIN s /\ Head(s) = s[1]
           /\ \A k \in DOMAIN Tail(s) : k + 1 \in DOMAIN s /\ Tail(s)[k] = s[k + 1]
<1>1. s \in Seq(Range(s))
  BY Zenon DEF Sequence
<1>2. /\ Tail(s) \in Seq(Range(s)) /\ Len(Tail(s)) = Len(s) - 1 /\ Head(s) = s[1]
      /\ \A i \in 1 .. Len(Tail(s)) : Tail(s)[i] = s[i + 1]
  BY <1>1, HeadTailProperties
<1>3. Len(s) \in Nat /\ DOMAIN s = 1..Len(s) /\ Len(s) # 0 /\ DOMAIN Tail(s) = 1..Len(Tail(s))
  BY <1>1, <1>2, Shape, LenProperties
<1>4. Sequence(Tail(s))
  BY <1>2, SeqOfRange, Zenon DEF Sequence
<1>5. ASSUME NEW k \in DOMAIN Tail(s) PROVE k + 1 \in DOMAIN s /\ Tail(s)[k] = s[k + 1]
  <2>1. k + 1 \in DOMAIN s /\ k \in 1..Len(Tail(s))
    BY <1>2, <1>3
  <2> QED BY <1>2, <2>1
<1>6. 1 \in DOMAIN s
  BY <1>3
<1> QED BY <1>2, <1>4, <1>5, <1>6

\* append_raw: the event goes to the end of the transaction, its effect to
\* the row the transaction will write.
LEMMA AppendEffect ==
    ASSUME Underway, append_raw
    PROVE  \E e, body :
              /\ e = build(tx.run.state.last_seq + 1, Head(tx.todo), body, tx.run.last_hash)
              /\ body = [text |-> body.text, spend |-> body.spend]
              /\ tx' = [open |-> TRUE, run |-> tx'.run, events |-> tx'.events, todo |-> tx'.todo,
                        cost |-> tx'.cost, text |-> tx'.text]
              /\ tx'.events = Append(tx.events, e) /\ tx'.todo = Tail(tx.todo)
              /\ tx'.run = [state |-> tx'.run.state, last_hash |-> e.hash]
              /\ tx'.run.last_hash = e.hash
              /\ tx'.run.state = IF Head(tx.todo) = "run.created" THEN from_created(e)
                                 ELSE apply(tx.run.state, e)
<1>1. PICK used : used = IF tx.run.state.used = Zero THEN tx.cost ELSE Add(tx.run.state.used, tx.cost)
  BY Zenon
<1>2. PICK body : body = IF Head(tx.todo) = "usage.recorded" THEN Cumulative(used) ELSE Plain(tx.text)
  BY Zenon
<1>3. body = [text |-> body.text, spend |-> body.spend]
  BY <1>2, Zenon DEF Cumulative, Plain
<1>4. PICK e : e = build(tx.run.state.last_seq + 1, Head(tx.todo), body, tx.run.last_hash)
  BY Zenon
<1>5. PICK q : q = IF Head(tx.todo) = "run.created" THEN from_created(e) ELSE apply(tx.run.state, e)
  BY Zenon
<1>6. PICK r : r = [state |-> q, last_hash |-> e.hash]
  BY Zenon
<1>7. tx' = [tx EXCEPT !.events = Append(tx.events, e), !.todo = Tail(tx.todo), !.run = r]
  BY <1>1, <1>2, <1>4, <1>5, <1>6, Zenon DEF append_raw
<1>8. PICK evs, rest : evs = Append(tx.events, e) /\ rest = Tail(tx.todo)
  BY Zenon
<1>9. tx = [open |-> TRUE, run |-> tx.run, events |-> tx.events, todo |-> tx.todo,
            cost |-> tx.cost, text |-> tx.text]
  BY Zenon DEF Underway
<1>10. tx' = [open |-> TRUE, run |-> r, events |-> evs, todo |-> rest, cost |-> tx.cost, text |-> tx.text]
  <2>1. tx' = [tx EXCEPT !.events = evs, !.todo = rest, !.run = r]
    BY <1>7, <1>8, Zenon
  <2>2. PICK o, a, b, c, d, t :
           o = TRUE /\ a = tx.run /\ b = tx.events /\ c = tx.todo /\ d = tx.cost /\ t = tx.text
    BY Zenon
  <2>3. tx = [open |-> o, run |-> a, events |-> b, todo |-> c, cost |-> d, text |-> t]
    BY <1>9, <2>2, Zenon
  <2>4. [tx EXCEPT !.events = evs] = [open |-> o, run |-> a, events |-> evs, todo |-> c, cost |-> d, text |-> t]
    BY <2>3
  <2>5. tx' = [[[tx EXCEPT !.events = evs] EXCEPT !.todo = rest] EXCEPT !.run = r]
    BY <2>1, Zenon
  <2>6. tx' = [open |-> o, run |-> r, events |-> evs, todo |-> rest, cost |-> d, text |-> t]
    BY <2>4, <2>5, Zenon
  <2> QED BY <2>2, <2>6, Zenon
<1>11. /\ tx' = [open |-> TRUE, run |-> tx'.run, events |-> tx'.events, todo |-> tx'.todo,
                 cost |-> tx'.cost, text |-> tx'.text]
       /\ tx'.run = r /\ tx'.events = evs /\ tx'.todo = rest
  BY <1>10, Zenon
<1>12. r.state = q /\ r.last_hash = e.hash /\ r = [state |-> r.state, last_hash |-> e.hash]
  BY <1>6, Zenon
<1> QED BY <1>3, <1>4, <1>5, <1>8, <1>11, <1>12, Zenon

\* The status after an event that does not create the run.
LEMMA StatusAfter ==
    ASSUME NEW q, NEW e, q.status \in {"created", "running", "parked", "completed"},
           q.status = "created" => e.kind = "step.scheduled"
    PROVE  apply(q, e).status \in {"running", "parked", "completed"}
<1>1. apply(q, e).status = CASE e.kind = "step.scheduled" /\ q.status = "created" -> "running"
                             [] e.kind = "run.parked" -> "parked"
                             [] e.kind = "run.resumed" -> "running"
                             [] e.kind = "run.completed" -> "completed"
                             [] OTHER -> q.status
  BY Zenon DEF apply
<1>2. PICK s, k : s = q.status /\ k = e.kind
  OBVIOUS
<1> QED BY <1>1, <1>2

\* append_raw keeps the invariant.
LEMMA AppendKeeps ==
    ASSUME LogInv, append_raw
    PROVE  LogInv'
<1>1. UNCHANGED <<log, row, cli, follower, damaged>> /\ tx.open /\ tx.todo # <<>>
  BY Zenon DEF append_raw
<1>2. Underway /\ ~damaged /\ Committed /\ Paging
  BY <1>1, Zenon DEF LogInv
<1>3. Committed' /\ Paging'
  BY <1>1, <1>2, Zenon DEF Committed, Paging
<1>4. Underway'
  <2>1. PICK e, body :
              /\ e = build(tx.run.state.last_seq + 1, Head(tx.todo), body, tx.run.last_hash)
              /\ body = [text |-> body.text, spend |-> body.spend]
              /\ tx' = [open |-> TRUE, run |-> tx'.run, events |-> tx'.events, todo |-> tx'.todo,
                        cost |-> tx'.cost, text |-> tx'.text]
              /\ tx'.events = Append(tx.events, e) /\ tx'.todo = Tail(tx.todo)
              /\ tx'.run = [state |-> tx'.run.state, last_hash |-> e.hash]
              /\ tx'.run.last_hash = e.hash
              /\ tx'.run.state = IF Head(tx.todo) = "run.created" THEN from_created(e)
                                 ELSE apply(tx.run.state, e)
    BY <1>2, AppendEffect, Zenon
  <2>2. PICK W, q, last, todo, kind :
           W = log \o tx.events /\ q = tx.run.state /\ last = tx.run.last_hash /\ todo = tx.todo /\ kind = Head(todo)
    BY Zenon
  <2>3. /\ Sequence(tx.events) /\ Sequence(todo) /\ Chained(W, last) /\ Folded(W, q)
        /\ q.status \in {"none", "created", "running", "parked", "completed"}
        /\ q.status = "none" => todo = <<"run.created", "step.scheduled">>
        /\ q.status = "created" => todo = <<"step.scheduled">>
        /\ q.status # "none" => \A k \in DOMAIN todo : todo[k] # "run.created"
    BY <1>2, <2>2, Zenon DEF Underway
  <2>4. Sequence(log) /\ Sequence(W)
    BY <1>2, <2>3, Zenon DEF Committed, Chained
  <2>5. q.last_seq = Len(W)
    <3>1. q = [status |-> q.status, used |-> q.used, last_seq |-> Len(W)]
      BY <2>3, Zenon DEF Folded
    <3> QED BY <3>1
  <2>6. log' \o tx'.events = Append(W, e)
    <3>1. PICK evs : evs = tx.events
      BY Zenon
    <3>2. log \o Append(evs, e) = Append(log \o evs, e)
      <4>1. Sequence(evs)
        BY <2>3, <3>1, Zenon
      <4> QED BY <2>4, <4>1, AppendWithin
    <3> QED BY <1>1, <2>1, <2>2, <3>1, <3>2, Zenon
  <2>7. /\ Chained(Append(W, e), e.hash) /\ e.kind = kind /\ e.seq = Len(W) + 1
    <3>1. e = build(Len(W) + 1, kind, body, last)
      BY <2>1, <2>2, <2>5, Zenon
    <3> QED BY <2>1, <2>3, <3>1, ChainGrows
  <2>8. /\ Sequence(tx'.events) /\ Sequence(Tail(todo)) /\ kind = todo[1] /\ 1 \in DOMAIN todo
        /\ \A k \in DOMAIN Tail(todo) : k + 1 \in DOMAIN todo /\ Tail(todo)[k] = todo[k + 1]
    <3>1. Sequence(tx'.events)
      <4>1. PICK evs : evs = tx.events
        BY Zenon
      <4>2. Sequence(evs)
        BY <2>3, <4>1, Zenon
      <4>3. Sequence(Append(evs, e))
        BY <4>2, Appended
      <4> QED BY <2>1, <4>1, <4>3, Zenon
    <3>2. todo # <<>>
      BY <1>1, <2>2, Zenon
    <3> QED BY <2>2, <2>3, <3>1, <3>2, TailKeeps
  <2>9. tx'.todo = Tail(todo) /\ tx'.run.last_hash = e.hash
        /\ tx'.run.state = IF kind = "run.created" THEN from_created(e) ELSE apply(q, e)
    BY <2>1, <2>2, Zenon
  <2>10. CASE q.status = "none"
    <3>1. W = <<>>
      BY <2>3, <2>10, Zenon DEF Folded
    <3>2. todo = <<"run.created", "step.scheduled">>
      BY <2>3, <2>10, Zenon
    <3>3. kind = "run.created" /\ Tail(todo) = <<"step.scheduled">> /\ Tail(todo)[1] = "step.scheduled"
      BY <2>2, <3>2
    <3>4. e.seq = 1
      BY <2>7, <3>1, EmptySeq
    <3>5. Folded(Append(W, e), from_created(e)) /\ from_created(e).status = "created"
      BY <2>7, <3>1, <3>3, <3>4, FirstFolds, Zenon
    <3>6. tx'.run.state = from_created(e)
      BY <2>9, <3>3, Zenon
    <3>7. \A k \in DOMAIN tx'.todo : tx'.todo[k] # "run.created"
      BY <2>9, <3>3
    <3>8. /\ tx'.run.state.status \in {"none", "created", "running", "parked", "completed"}
          /\ tx'.run.state.status # "none"
          /\ tx'.run.state.status = "created" => tx'.todo = <<"step.scheduled">>
      BY <2>9, <3>3, <3>5, <3>6, Zenon
    <3> QED BY <2>1, <2>6, <2>7, <2>8, <2>9, <3>5, <3>6, <3>7, <3>8, Zenon DEF Underway
  <2>11. CASE q.status # "none"
    <3>1. kind # "run.created"
      BY <2>3, <2>8, <2>11, Zenon
    <3>2. Folded(Append(W, e), apply(q, e))
      BY <2>3, <2>4, <2>7, <2>11, <3>1, NextFolds, Zenon
    <3>3. q.status = "created" => e.kind = "step.scheduled"
      BY <2>3, <2>7, <2>8
    <3>4. apply(q, e).status \in {"running", "parked", "completed"}
      <4>1. q.status \in {"created", "running", "parked", "completed"}
        BY <2>3, <2>11
      <4> QED BY <3>3, <4>1, StatusAfter
    <3>5. tx'.run.state = apply(q, e)
      BY <2>9, <3>1, Zenon
    <3>6. \A k \in DOMAIN tx'.todo : tx'.todo[k] # "run.created"
      BY <2>3, <2>8, <2>9, <2>11, Zenon
    <3>7. /\ tx'.run.state.status \in {"none", "created", "running", "parked", "completed"}
          /\ tx'.run.state.status # "none" /\ tx'.run.state.status # "created"
      BY <3>4, <3>5, Zenon
    <3> QED BY <2>1, <2>6, <2>7, <2>8, <2>9, <3>2, <3>5, <3>6, <3>7, Zenon DEF Underway
  <2> QED BY <2>10, <2>11, Zenon
<1> QED BY <1>1, <1>2, <1>3, <1>4, Zenon DEF LogInv

\* What the readers have seen stays right while the log grows.
LEMMA GrowthKeepsPages ==
    ASSUME Paging, Sequence(log), NEW W, log' = W, Len(W) \in Nat, Len(log) <= Len(W),
           \A i \in 1..Len(log) : W[i] = log[i], cli' = cli, follower' = follower
    PROVE  Paging'
<1>1. Len(log) \in Nat
  BY Shape, Zenon
<1>2. /\ cli \in [from: Nat, got: Seq(Nat), done: BOOLEAN, began: Nat]
      /\ \A i \in DOMAIN cli.got : cli.got[i] = i
      /\ follower \in [from: Nat, got: Seq(Nat), done: BOOLEAN]
      /\ \A i \in DOMAIN follower.got : follower.got[i] = i
      /\ ~follower.done => follower.from = Len(follower.got) + 1
  BY Zenon DEF Paging
<1>3. /\ cli.from \in Nat /\ cli.began \in Nat /\ cli.began <= Len(log)
      /\ follower.got \in Seq(Nat) /\ Len(follower.got) <= Len(log)
  BY <1>2, Zenon DEF Paging
<1>4. cli.began <= Len(W) /\ Len(follower.got) <= Len(W)
  BY <1>1, <1>3
<1>5. IF cli.done THEN Len(cli.got) >= cli.began
      ELSE cli.from = Len(cli.got) + 1 /\ (cli.from <= Len(log) \/ cli.from = 1)
  BY Zenon DEF Paging
<1>6. cli.from <= Len(log) => cli.from <= Len(W)
  BY <1>1, <1>3
<1>7. IF cli.done THEN Len(cli.got) >= cli.began
      ELSE cli.from = Len(cli.got) + 1 /\ (cli.from <= Len(W) \/ cli.from = 1)
  BY <1>5, <1>6, Zenon
<1>8. \A i \in DOMAIN follower.got : i \in 1..Len(log)
  BY <1>1, <1>3
<1>9. \A i \in DOMAIN follower.got : W[i].kind \in Terminal => follower.done /\ i = Len(follower.got)
  BY <1>8, Zenon DEF Paging
<1> QED BY <1>2, <1>4, <1>7, <1>9, Zenon DEF Paging

\* The commit: the events enter the log and the row is that of the transaction.
LEMMA PersistKeeps ==
    ASSUME LogInv, persist
    PROVE  LogInv'
<1>1. /\ tx.open /\ tx.todo = <<>> /\ log' = log \o tx.events /\ row' = tx.run /\ tx' = NoTx
      /\ UNCHANGED <<cli, follower, damaged>>
  BY Zenon DEF persist
<1>2. Underway /\ ~damaged /\ Committed /\ Paging
  BY <1>1, Zenon DEF LogInv
<1>3. PICK W, r, evs : W = log \o tx.events /\ r = tx.run /\ evs = tx.events
  BY Zenon
<1>4. /\ Sequence(evs) /\ Chained(W, r.last_hash) /\ Folded(W, r.state)
      /\ r = [state |-> r.state, last_hash |-> r.last_hash]
      /\ r.state.status \in {"none", "created", "running", "parked", "completed"}
      /\ r.state.status = "none" => <<>> = <<"run.created", "step.scheduled">>
      /\ r.state.status = "created" => <<>> = <<"step.scheduled">>
  BY <1>1, <1>2, <1>3, Zenon DEF Underway
<1>5. r.state.status \in {"running", "parked", "completed"}
  <2>1. <<>> # <<"run.created", "step.scheduled">> /\ <<>> # <<"step.scheduled">>
    OBVIOUS
  <2> QED BY <1>4, <2>1
<1>6. Committed'
  <2>1. log' = W /\ row' = r
    BY <1>1, <1>3, Zenon
  <2>2. r.state.status \in {"none", "running", "parked", "completed"}
    BY <1>5
  <2> QED BY <1>4, <2>1, <2>2, Zenon DEF Committed
<1>7. Sequence(log)
  BY <1>2, Zenon DEF Committed, Chained
<1>8. /\ Len(log \o evs) = Len(log) + Len(evs) /\ Len(log) \in Nat /\ Len(evs) \in Nat
      /\ \A i \in 1..Len(log) : (log \o evs)[i] = log[i]
  BY <1>4, <1>7, Concatenated
<1>9. Len(W) \in Nat /\ Len(log) <= Len(W) /\ \A i \in 1..Len(log) : W[i] = log[i]
  <2>1. W = log \o evs
    BY <1>3, Zenon
  <2> QED BY <1>8, <2>1
<1>10. Paging'
  <2>1. log' = W /\ cli' = cli /\ follower' = follower
    BY <1>1, <1>3, Zenon
  <2> QED BY <1>2, <1>7, <1>9, <2>1, GrowthKeepsPages
<1>11. ~tx'.open
  BY <1>1, Zenon DEF NoTx
<1> QED BY <1>1, <1>2, <1>6, <1>10, <1>11, Zenon DEF LogInv

\* A transaction that is undone leaves log and row as they were.
LEMMA RollbackKeeps ==
    ASSUME LogInv, Rollback
    PROVE  LogInv'
<1>1. tx.open /\ UNCHANGED <<log, row, cli, follower, damaged>> /\ ~tx'.open
  BY Zenon DEF Rollback, NoTx
<1>2. ~damaged /\ Committed /\ Paging
  BY <1>1, Zenon DEF LogInv
<1>3. Committed' /\ Paging'
  BY <1>1, <1>2, Zenon DEF Committed, Paging
<1> QED BY <1>1, <1>2, <1>3, Zenon DEF LogInv

\* A fault: replay reports it.
LEMMA DamageKeeps ==
    ASSUME LogInv, Damage
    PROVE  LogInv'
<1>1. ~tx.open /\ ~damaged /\ damaged' /\ tx' = tx
  BY Zenon DEF Damage
<1>2. Committed
  BY <1>1, Zenon DEF LogInv
<1>3. ~ReplayClean'
  BY <1>2, DamageShows, Zenon
<1>4. ~tx'.open
  BY <1>1, Zenon
<1> HIDE DEF ReplayClean
<1> QED BY <1>1, <1>3, <1>4, Zenon DEF LogInv

----------------------------------------------------------------------------
(* Readers.                                                                *)

\* A page from a position within the log: it ends at the last event, or a
\* full page later, and says whether there is more.
LEMMA PageHas ==
    ASSUME NEW n \in Nat, row.state.last_seq = n, NEW from \in Nat, from >= 1, from <= n
    PROVE  \E last \in Nat :
              /\ from <= last /\ last <= n
              /\ run_events(from).events = [i \in 1..(last - from + 1) |-> from + i - 1]
              /\ run_events(from).next_seq = IF last < n THEN last + 1 ELSE 0
<1>1. PageSize \in Nat /\ PageSize >= 1
  BY PageAssumption
<1>2. PICK last : last = IF from + PageSize - 1 < n THEN from + PageSize - 1 ELSE n
  OBVIOUS
<1>3. last \in Nat /\ from <= last /\ last <= n
  BY <1>1, <1>2
<1>4. run_events(from) = [events |-> [i \in 1..(last - from + 1) |-> from + i - 1],
                          next_seq |-> IF from <= last /\ last < n THEN last + 1 ELSE 0]
  BY <1>2, Zenon DEF run_events
<1>5. PICK evs, next : /\ evs = [i \in 1..(last - from + 1) |-> from + i - 1]
                       /\ next = IF from <= last /\ last < n THEN last + 1 ELSE 0
  BY Zenon
<1>6. run_events(from) = [events |-> evs, next_seq |-> next]
  BY <1>4, <1>5, Zenon
<1>7. run_events(from).events = evs /\ run_events(from).next_seq = next
  BY <1>6
<1>8. next = IF last < n THEN last + 1 ELSE 0
  BY <1>3, <1>5, Zenon
<1>9. /\ run_events(from).events = [i \in 1..(last - from + 1) |-> from + i - 1]
      /\ run_events(from).next_seq = IF last < n THEN last + 1 ELSE 0
  BY <1>5, <1>7, <1>8, Zenon
<1> QED BY <1>3, <1>9, ZenonT(30)

\* Numbers in a row.
Counts(s, k) == \A i \in DOMAIN s : s[i] = k + i

\* What a reader has and the next numbers make the numbers up to there.
LEMMA PagesJoin ==
    ASSUME NEW got \in Seq(Nat), Counts(got, 0), NEW page \in Seq(Nat), Counts(page, Len(got))
    PROVE  /\ got \o page \in Seq(Nat) /\ Len(got \o page) = Len(got) + Len(page)
           /\ Counts(got \o page, 0)
<1>1. /\ got \o page \in Seq(Nat) /\ Len(got \o page) = Len(got) + Len(page)
      /\ \A i \in 1..(Len(got) + Len(page)) :
            (got \o page)[i] = IF i <= Len(got) THEN got[i] ELSE page[i - Len(got)]
  BY ConcatProperties, Zenon
<1>2. /\ Len(got) \in Nat /\ DOMAIN got = 1..Len(got) /\ Len(page) \in Nat /\ DOMAIN page = 1..Len(page)
      /\ DOMAIN (got \o page) = 1..(Len(got) + Len(page))
  BY <1>1, LenProperties, Zenon
<1>3. ASSUME NEW i \in DOMAIN (got \o page) PROVE (got \o page)[i] = 0 + i
  <2>1. i \in 1..(Len(got) + Len(page)) /\ (got \o page)[i] = IF i <= Len(got) THEN got[i] ELSE page[i - Len(got)]
    BY <1>1, <1>2, Zenon
  <2>2. CASE i <= Len(got)
    <3>1. i \in DOMAIN got
      BY <1>2, <2>1, <2>2
    <3> QED BY <2>1, <2>2, <3>1 DEF Counts
  <2>3. CASE ~(i <= Len(got))
    <3>1. i - Len(got) \in DOMAIN page /\ Len(got) + (i - Len(got)) = i /\ 0 + i = i
      BY <1>2, <2>1, <2>3
    <3>2. page[i - Len(got)] = Len(got) + (i - Len(got))
      BY <3>1, Zenon DEF Counts
    <3> QED BY <2>1, <2>3, <3>1, <3>2
  <2> QED BY <2>2, <2>3
<1>4. Counts(got \o page, 0)
  BY <1>3, Zenon DEF Counts
<1> QED BY <1>1, <1>4, Zenon

\* A reader's numbers, in both forms.
LEMMA CountsFromOne ==
    ASSUME NEW s \in Seq(Nat)
    PROVE  Counts(s, 0) <=> \A i \in DOMAIN s : s[i] = i
<1>1. \A i \in DOMAIN s : 0 + i = i
  OBVIOUS
<1> QED BY <1>1, Zenon DEF Counts

\* The numbers of a page.
LEMMA PageNumbers ==
    ASSUME NEW from \in Nat, from >= 1, NEW last \in Nat, from <= last,
           NEW page, page = [i \in 1..(last - from + 1) |-> from + i - 1]
    PROVE  /\ page \in Seq(Nat) /\ Len(page) = last - from + 1 /\ Len(page) \in Nat
           /\ DOMAIN page = 1..(last - from + 1) /\ page # <<>>
           /\ \A i \in 1..(last - from + 1) : page[i] = from + i - 1
<1>1. last - from + 1 \in Nat /\ last - from + 1 # 0
  OBVIOUS
<1>2. \A i \in 1..(last - from + 1) : from + i - 1 \in Nat
  OBVIOUS
<1>3. PICK m \in Nat : m = last - from + 1
  BY <1>1, Zenon
<1>4. page = [i \in 1..m |-> from + i - 1] /\ \A i \in 1..m : from + i - 1 \in Nat
  BY <1>2, <1>3, Zenon
<1>5. page \in Seq(Nat) /\ Len(page) = m /\ DOMAIN page = 1..m /\ \A i \in 1..m : page[i] = from + i - 1
  <2>1. page \in [1..m -> Nat]
    BY <1>4, Zenon
  <2>2. page \in Seq(Nat) /\ Len(page) = m
    BY <2>1, IsASeq, LenProperties
  <2> QED BY <1>4, <2>2, Zenon
<1>6. page # <<>>
  BY <1>1, <1>3, <1>5, EmptySeq, Zenon
<1> QED BY <1>1, <1>3, <1>5, <1>6

\* The row knows how long the log is.
LEMMA RowCounts ==
    ASSUME Committed
    PROVE  /\ Len(log) \in Nat /\ row.state.last_seq = Len(log)
           /\ row.state.status # "none" => Len(log) >= 1
<1>1. Chained(log, row.last_hash) /\ Folded(log, row.state)
  BY Zenon DEF Committed
<1>2. Sequence(log)
  BY <1>1, Zenon DEF Chained
<1>3. Len(log) \in Nat /\ (log = <<>> <=> Len(log) = 0)
  BY <1>2, Shape, Zenon
<1>4. /\ row.state = [status |-> row.state.status, used |-> row.state.used, last_seq |-> Len(log)]
      /\ log = <<>> <=> row.state.status = "none"
  BY <1>1, Zenon DEF Folded
<1>5. row.state.last_seq = Len(log)
  BY <1>4
<1>6. row.state.status # "none" => Len(log) >= 1
  BY <1>3, <1>4
<1> QED BY <1>3, <1>5, <1>6

\* `kernos run events` takes the next page.
LEMMA CliPageKeeps ==
    ASSUME LogInv, CliPage
    PROVE  LogInv'
<1>1. /\ ~cli.done /\ ~damaged /\ row.state.status # "none"
      /\ UNCHANGED <<log, row, tx, follower, damaged>>
  BY Zenon DEF CliPage
<1>2. Committed /\ Paging /\ (tx.open => Underway)
  BY <1>1, Zenon DEF LogInv
<1>3. Committed' /\ (tx'.open => Underway')
  BY <1>1, <1>2 DEF Committed, Underway
<1>4. PICK n \in Nat : n = Len(log) /\ row.state.last_seq = n /\ n >= 1
  BY <1>1, <1>2, RowCounts, Zenon
<1>5. /\ cli \in [from: Nat, got: Seq(Nat), done: BOOLEAN, began: Nat]
      /\ \A i \in DOMAIN cli.got : cli.got[i] = i
      /\ cli.from = Len(cli.got) + 1 /\ (cli.from <= Len(log) \/ cli.from = 1)
      /\ cli.began <= Len(log)
  BY <1>1, <1>2, Zenon DEF Paging
<1>6. PICK from, got, began : from = cli.from /\ got = cli.got /\ began = cli.began
  BY Zenon
<1>7. from \in Nat /\ got \in Seq(Nat) /\ began \in Nat /\ began <= n /\ from = Len(got) + 1 /\ from <= n
      /\ Len(got) \in Nat
  BY <1>4, <1>5, <1>6
<1>8. PICK last \in Nat :
          /\ from <= last /\ last <= n
          /\ run_events(from).events = [i \in 1..(last - from + 1) |-> from + i - 1]
          /\ run_events(from).next_seq = IF last < n THEN last + 1 ELSE 0
  <2>1. from >= 1
    BY <1>7
  <2> QED BY <1>4, <1>7, <2>1, PageHas, Zenon
<1>9. PICK page, next : page = run_events(from).events /\ next = run_events(from).next_seq
  BY Zenon
<1>10. /\ got \o page \in Seq(Nat) /\ Len(got \o page) = last
       /\ \A i \in DOMAIN (got \o page) : (got \o page)[i] = i
  <2>1. from >= 1 /\ page = [i \in 1..(last - from + 1) |-> from + i - 1]
    BY <1>7, <1>8, <1>9
  <2>2. /\ page \in Seq(Nat) /\ Len(page) = last - from + 1 /\ Len(page) \in Nat
        /\ DOMAIN page = 1..(last - from + 1)
        /\ \A i \in 1..(last - from + 1) : page[i] = from + i - 1
    <3>1. from \in Nat /\ from >= 1 /\ last \in Nat /\ from <= last
      BY <1>7, <1>8, <2>1, Zenon
    <3> QED BY <2>1, <3>1, PageNumbers, Zenon
  <2>3. Counts(page, Len(got))
    <3>1. \A i \in 1..(last - from + 1) : from + i - 1 = Len(got) + i
      BY <1>7
    <3> QED BY <2>2, <3>1, Zenon DEF Counts
  <2>4. Counts(got, 0)
    <3>1. \A i \in DOMAIN got : got[i] = i
      BY <1>5, <1>6, Zenon
    <3> QED BY <1>7, <3>1, CountsFromOne
  <2>5. /\ got \o page \in Seq(Nat) /\ Len(got \o page) = Len(got) + Len(page)
        /\ \A i \in DOMAIN (got \o page) : (got \o page)[i] = i
    <3>1. /\ got \o page \in Seq(Nat) /\ Len(got \o page) = Len(got) + Len(page)
          /\ Counts(got \o page, 0)
      BY <1>7, <2>2, <2>3, <2>4, PagesJoin
    <3>2. \A i \in DOMAIN (got \o page) : (got \o page)[i] = i
      BY <3>1, CountsFromOne, Zenon
    <3> QED BY <3>1, <3>2, Zenon
  <2>6. Len(got) + Len(page) = last
    BY <1>7, <1>8, <2>2
  <2> QED BY <2>5, <2>6, Zenon
<1>11. PICK all, on, start :
          /\ all = got \o page
          /\ on = IF next = 0 THEN from ELSE next
          /\ start = IF from = 1 THEN n ELSE began
  BY Zenon
<1>12. cli' = [from |-> on, got |-> all, done |-> (next = 0), began |-> start]
  <2>1. cli' = [cli EXCEPT !.got = all, !.from = on, !.done = (next = 0), !.began = start]
    BY <1>4, <1>6, <1>9, <1>11, Zenon DEF CliPage
  <2>2. PICK d : d = cli.done
    BY Zenon
  <2>3. cli = [from |-> from, got |-> got, done |-> d, began |-> began]
    BY <1>5, <1>6, <2>2, Zenon
  <2>4. PICK f : f = (next = 0)
    BY Zenon
  <2>5. cli' = [cli EXCEPT !.got = all, !.from = on, !.done = f, !.began = start]
    BY <2>1, <2>4, Zenon
  <2>6. cli' = [from |-> on, got |-> all, done |-> f, began |-> start]
    BY <2>3, <2>5, Zenon
  <2> QED BY <2>4, <2>6, Zenon
<1>13. /\ on \in Nat /\ all \in Seq(Nat) /\ start \in Nat /\ start <= n /\ Len(all) = last
       /\ (\A i \in DOMAIN all : all[i] = i)
       /\ IF next = 0 THEN Len(all) >= start
          ELSE on = Len(all) + 1 /\ on <= n
  <2>1. all \in Seq(Nat) /\ Len(all) = last /\ \A i \in DOMAIN all : all[i] = i
    BY <1>10, <1>11, Zenon
  <2>2. next = IF last < n THEN last + 1 ELSE 0
    BY <1>8, <1>9, Zenon
  <2>3. on \in Nat /\ start \in Nat /\ start <= n
    BY <1>7, <1>11, <2>2
  <2>4. IF next = 0 THEN last >= start ELSE on = last + 1 /\ on <= n
    BY <1>8, <1>11, <2>2, <2>3
  <2> QED BY <2>1, <2>3, <2>4
<1>14. /\ cli'.from = on /\ cli'.got = all /\ cli'.began = start /\ (cli'.done <=> next = 0)
       /\ cli' \in [from: Nat, got: Seq(Nat), done: BOOLEAN, began: Nat]
  <2>1. PICK f \in BOOLEAN : f = (next = 0)
    BY Zenon
  <2>2. cli' = [from |-> on, got |-> all, done |-> f, began |-> start]
    BY <1>12, <2>1, Zenon
  <2>3. cli'.from = on /\ cli'.got = all /\ cli'.began = start /\ cli'.done = f
    BY <2>2
  <2>4. cli' \in [from: Nat, got: Seq(Nat), done: BOOLEAN, began: Nat]
    BY <1>13, <2>2, Zenon
  <2> QED BY <2>1, <2>3, <2>4, Zenon
<1>15. Paging'
  <2>1. /\ follower \in [from: Nat, got: Seq(Nat), done: BOOLEAN]
        /\ \A i \in DOMAIN follower.got : follower.got[i] = i
        /\ Len(follower.got) <= Len(log)
        /\ ~follower.done => follower.from = Len(follower.got) + 1
        /\ \A i \in DOMAIN follower.got :
              log[i].kind \in Terminal => follower.done /\ i = Len(follower.got)
    BY <1>2, Zenon DEF Paging
  <2>2. log' = log /\ follower' = follower
    BY <1>1, Zenon
  <2> QED BY <1>4, <1>13, <1>14, <2>1, <2>2, Zenon DEF Paging
<1> QED BY <1>1, <1>3, <1>15, Zenon DEF LogInv

\* What a follower shows of a page: all of it, or up to its first terminal event.
Shown(page, ends) ==
    IF ends = {} THEN page ELSE SubSeq(page, 1, CHOOSE i \in ends : \A j \in ends : i <= j)

\* Of the terminal events of the page it shows the last of what it shows only.
LEMMA ShownOfPage ==
    ASSUME NEW m \in Nat, NEW page \in Seq(Nat), Len(page) = m, NEW ends \in SUBSET (1..m), NEW shown,
           shown = Shown(page, ends)
    PROVE  /\ shown \in Seq(Nat) /\ Len(shown) \in Nat /\ Len(shown) <= m
           /\ (ends = {} => Len(shown) = m)
           /\ \A i \in 1..Len(shown) : shown[i] = page[i] /\ (i \in ends => i = Len(shown))
<1>1. CASE ends = {}
  BY <1>1 DEF Shown
<1>2. CASE ends # {}
  <2>1. ends \in SUBSET Nat
    OBVIOUS
  <2>2. \E i \in ends : \A j \in ends : i <= j
    BY <1>2, <2>1, LeastNumber, Zenon
  <2>3. PICK k : k = CHOOSE i \in ends : \A j \in ends : i <= j
    OBVIOUS
  <2>4. k \in ends /\ \A j \in ends : k <= j
    BY <2>2, <2>3, Zenon
  <2>5. k \in 1..m /\ k \in Nat /\ k >= 1
    BY <2>4
  <2>6. shown = SubSeq(page, 1, k)
    BY <1>2, <2>3, Zenon DEF Shown
  <2>7. \A i \in 1..k : page[i] \in Nat
    BY <2>5
  <2>8. /\ SubSeq(page, 1, k) \in Seq(Nat)
        /\ Len(SubSeq(page, 1, k)) = IF 1 <= k THEN k - 1 + 1 ELSE 0
        /\ \A i \in 1..(k - 1 + 1) : SubSeq(page, 1, k)[i] = page[1 + i - 1]
    BY <2>5, <2>7, SubSeqProperties
  <2>9. shown \in Seq(Nat) /\ Len(shown) = k /\ \A i \in 1..k : shown[i] = page[i]
    <3>1. k - 1 + 1 = k /\ 1 <= k /\ \A i \in 1..k : 1 + i - 1 = i
      BY <2>5
    <3> QED BY <2>6, <2>8, <3>1, Zenon
  <2>10. \A i \in 1..k : i \in ends => i = k
    BY <2>4, <2>5
  <2>11. Len(shown) \in Nat /\ Len(shown) <= m
    BY <2>5, <2>9
  <2> QED BY <1>2, <2>9, <2>10, <2>11, Zenon
<1> QED BY <1>1, <1>2, Zenon

\* A follower takes the next page; it stops at a terminal event.
LEMMA FollowKeeps ==
    ASSUME LogInv, Follow
    PROVE  LogInv'
<1>1. /\ ~follower.done /\ ~damaged /\ row.state.status # "none"
      /\ UNCHANGED <<log, row, tx, cli, damaged>>
  BY Zenon DEF Follow
<1>2. Committed /\ Paging /\ (tx.open => Underway)
  BY <1>1, Zenon DEF LogInv
<1>3. Committed' /\ (tx'.open => Underway')
  BY <1>1, <1>2, Zenon DEF Committed, Underway
<1>4. PICK n \in Nat : n = Len(log) /\ row.state.last_seq = n /\ n >= 1
  BY <1>1, <1>2, RowCounts, Zenon
<1>5. /\ follower \in [from: Nat, got: Seq(Nat), done: BOOLEAN]
      /\ \A i \in DOMAIN follower.got : follower.got[i] = i
      /\ Len(follower.got) <= Len(log) /\ follower.from = Len(follower.got) + 1
      /\ \A i \in DOMAIN follower.got : log[i].kind \notin Terminal
  BY <1>1, <1>2, Zenon DEF Paging
<1>6. PICK from, got : from = follower.from /\ got = follower.got
  BY Zenon
<1>7. from \in Nat /\ got \in Seq(Nat) /\ Len(got) \in Nat /\ from = Len(got) + 1 /\ Len(got) <= n
  <2>1. follower.from \in Nat /\ follower.got \in Seq(Nat)
    BY <1>5, Zenon
  <2>2. from \in Nat /\ got \in Seq(Nat) /\ from = Len(got) + 1 /\ Len(got) <= n
    BY <1>4, <1>5, <1>6, <2>1, Zenon
  <2> QED BY <2>2, LenProperties
<1> DEFINE page == run_events(follower.from).events
           ends == {i \in DOMAIN page : log[page[i]].kind \in Terminal}
           shown == Shown(page, ends)
<1>8. /\ page # <<>>
      /\ follower' = [got |-> follower.got \o shown, from |-> page[Len(page)] + 1, done |-> ends # {}]
  BY Zenon DEF Follow, Shown
<1> HIDE DEF page, ends, shown
<1>9. page = run_events(from).events
  BY <1>6, Zenon DEF page
<1>10. /\ page # <<>>
       /\ follower' = [got |-> got \o shown, from |-> page[Len(page)] + 1, done |-> ends # {}]
  BY <1>6, <1>8, Zenon
<1>11. from <= n
  <2> SUFFICES ASSUME ~(from <= n) PROVE FALSE
    BY Zenon
  <2>1. from = n + 1 /\ PageSize \in Nat /\ PageSize >= 1
    BY <1>7, PageAssumption
  <2>2. ~(from + PageSize - 1 < n) /\ n - from + 1 = 0
    BY <2>1
  <2>3. page = [i \in 1..(n - from + 1) |-> from + i - 1]
    BY <1>4, <1>9, <2>2, Zenon DEF run_events
  <2>4. page = <<>>
    BY <2>2, <2>3
  <2> QED BY <1>10, <2>4
<1>12. PICK last \in Nat :
          /\ from <= last /\ last <= n
          /\ run_events(from).events = [i \in 1..(last - from + 1) |-> from + i - 1]
          /\ run_events(from).next_seq = IF last < n THEN last + 1 ELSE 0
  <2>1. from >= 1
    BY <1>7
  <2> QED BY <1>4, <1>7, <1>11, <2>1, PageHas, Zenon
<1>13. PICK m \in Nat : m = last - from + 1 /\ m >= 1
  <2>1. last \in Nat /\ from <= last
    BY <1>12, Zenon
  <2>2. last - from + 1 \in Nat /\ last - from + 1 >= 1
    BY <1>7, <2>1
  <2> QED BY <2>2, Zenon
<1>14. /\ page \in Seq(Nat) /\ Len(page) = m /\ DOMAIN page = 1..m
       /\ \A i \in 1..m : page[i] = Len(got) + i
  <2>1. from >= 1 /\ page = [i \in 1..(last - from + 1) |-> from + i - 1]
    BY <1>7, <1>9, <1>12
  <2>2. /\ page \in Seq(Nat) /\ Len(page) = last - from + 1
        /\ DOMAIN page = 1..(last - from + 1)
        /\ \A i \in 1..(last - from + 1) : page[i] = from + i - 1
    <3>1. from \in Nat /\ from >= 1 /\ last \in Nat /\ from <= last
      BY <1>7, <1>12, <2>1, Zenon
    <3> QED BY <2>1, <3>1, PageNumbers, Zenon
  <2>3. \A i \in 1..m : page[i] = Len(got) + i
    BY <1>7, <1>13, <2>2
  <2> QED BY <1>13, <2>2, <2>3, Zenon
<1>15. /\ shown \in Seq(Nat) /\ Len(shown) \in Nat /\ Len(shown) <= m
       /\ (ends = {} => Len(shown) = m)
       /\ \A i \in 1..Len(shown) : shown[i] = page[i] /\ (i \in ends => i = Len(shown))
  <2>1. ends \in SUBSET (1..m)
    BY <1>14, Zenon DEF ends
  <2>2. page \in Seq(Nat) /\ Len(page) = m
    BY <1>14, Zenon
  <2>3. shown = Shown(page, ends)
    BY Zenon DEF shown
  <2> QED BY <2>1, <2>2, <2>3, ShownOfPage
<1>16. PICK all : all = got \o shown
  BY Zenon
<1>17. /\ all \in Seq(Nat) /\ Len(all) = Len(got) + Len(shown) /\ DOMAIN all = 1..Len(all)
       /\ \A i \in DOMAIN all : all[i] = i
  <2>1. Counts(shown, Len(got))
    <3>1. DOMAIN shown = 1..Len(shown) /\ \A i \in 1..Len(shown) : i \in 1..m
      BY <1>13, <1>15
    <3> QED BY <1>14, <1>15, <3>1, Zenon DEF Counts
  <2>2. Counts(got, 0)
    <3>1. \A i \in DOMAIN got : got[i] = i
      BY <1>5, <1>6, Zenon
    <3> QED BY <1>7, <3>1, CountsFromOne
  <2>3. got \o shown \in Seq(Nat) /\ Len(got \o shown) = Len(got) + Len(shown) /\ Counts(got \o shown, 0)
    BY <1>7, <1>15, <2>1, <2>2, PagesJoin, Zenon
  <2>4. all \in Seq(Nat) /\ Len(all) = Len(got) + Len(shown) /\ \A i \in DOMAIN all : all[i] = i
    BY <1>16, <2>3, CountsFromOne, Zenon
  <2> QED BY <2>4, LenProperties
<1>18. Len(all) <= n
  BY <1>7, <1>12, <1>13, <1>15, <1>17
<1>19. page[Len(page)] = last
  <2>1. page[Len(page)] = page[m]
    BY <1>14
  <2>2. m \in 1..m /\ Len(got) + m = last
    BY <1>7, <1>12, <1>13
  <2> QED BY <1>14, <2>1, <2>2
<1>20. ends = {} => page[Len(page)] + 1 = Len(all) + 1
  <2> SUFFICES ASSUME ends = {} PROVE page[Len(page)] + 1 = Len(all) + 1
    BY Zenon
  <2>1. Len(all) = Len(got) + m
    BY <1>15, <1>17, Zenon
  <2>2. Len(got) + m = last
    <3>1. last \in Nat
      BY <1>12, Zenon
    <3> QED BY <1>7, <1>13, <3>1
  <2> QED BY <1>19, <2>1, <2>2, Zenon
<1>21. ASSUME NEW i \in DOMAIN all, log[i].kind \in Terminal
       PROVE  ends # {} /\ i = Len(all)
  <2>1. i \in 1..(Len(got) + Len(shown))
    BY <1>17, Zenon
  <2>2. i \notin DOMAIN got
    BY <1>5, <1>6, <1>21, Zenon
  <2>3. i - Len(got) \in 1..Len(shown) /\ i - Len(got) \in 1..m /\ Len(got) + (i - Len(got)) = i
    BY <1>7, <1>13, <1>15, <2>1, <2>2
  <2>4. page[i - Len(got)] = i
    BY <1>14, <2>3
  <2>5. i - Len(got) \in ends
    BY <1>14, <1>21, <2>3, <2>4, Zenon DEF ends
  <2>6. i - Len(got) = Len(shown)
    BY <1>15, <2>3, <2>5
  <2> QED BY <1>7, <1>15, <1>17, <2>1, <2>5, <2>6
<1>22. /\ follower'.got = all /\ follower'.from = last + 1 /\ (follower'.done <=> ends # {})
       /\ follower' \in [from: Nat, got: Seq(Nat), done: BOOLEAN]
  <2>1. PICK f \in BOOLEAN : f = (ends # {})
    BY Zenon
  <2>2. follower' = [got |-> all, from |-> last + 1, done |-> f]
    BY <1>10, <1>16, <1>19, <2>1, Zenon
  <2>3. follower'.got = all /\ follower'.from = last + 1 /\ follower'.done = f
    BY <2>2
  <2>4. last + 1 \in Nat
    BY <1>12
  <2>5. follower' \in [from: Nat, got: Seq(Nat), done: BOOLEAN]
    BY <1>17, <2>2, <2>4, Zenon
  <2> QED BY <2>1, <2>3, <2>5, Zenon
<1>23. Paging'
  <2>1. /\ cli \in [from: Nat, got: Seq(Nat), done: BOOLEAN, began: Nat]
        /\ \A i \in DOMAIN cli.got : cli.got[i] = i
        /\ cli.began <= Len(log)
        /\ IF cli.done THEN Len(cli.got) >= cli.began
           ELSE cli.from = Len(cli.got) + 1 /\ (cli.from <= Len(log) \/ cli.from = 1)
    BY <1>2, Zenon DEF Paging
  <2>2. log' = log /\ cli' = cli
    BY <1>1, Zenon
  <2>3. ~follower'.done => follower'.from = Len(follower'.got) + 1
    BY <1>19, <1>20, <1>22, Zenon
  <2>4. Len(follower'.got) <= Len(log)
    BY <1>4, <1>18, <1>22, Zenon
  <2>5. \A i \in DOMAIN follower'.got :
           log[i].kind \in Terminal => follower'.done /\ i = Len(follower'.got)
    BY <1>21, <1>22, Zenon
  <2>6. \A i \in DOMAIN follower'.got : follower'.got[i] = i
    BY <1>17, <1>22, Zenon
  <2> QED BY <1>22, <2>1, <2>2, <2>3, <2>4, <2>5, <2>6, Zenon DEF Paging
<1> QED BY <1>1, <1>3, <1>23, ZenonT(30) DEF LogInv

----------------------------------------------------------------------------
(* Theorems.                                                               *)

\* The two ways a transaction begins: a handler of the kernel, an event of a
\* worker or of the gateway.
LEMMA BeginningsKeep ==
    ASSUME LogInv, Handler \/ \E kind \in External : post_external_event(kind)
    PROVE  LogInv'
<1>1. CASE Handler
  <2>1. PICK kinds \in Batches(row.state.status), cost \in Cents : Begin(kinds, Parse(cost, 2), "kernel")
    BY <1>1, Zenon DEF Handler
  <2>2. ~damaged
    BY <2>1, Zenon DEF Begin
  <2>3. row.state.status \in {"none", "running", "parked", "completed"}
    BY <2>2, Zenon DEF LogInv, Committed
  <2>4. Fitting(kinds, row.state.status)
    BY <2>3, BatchesFit, Zenon
  <2>5. PICK c, t : Begin(kinds, c, t)
    BY <2>1, Zenon
  <2> QED BY <2>4, <2>5, BeginKeeps
<1>2. ASSUME NEW kind \in External, post_external_event(kind) PROVE LogInv'
  <2>1. row.state.status # "none" /\ \E body : Begin(<<kind>>, Zero, body)
    BY <1>2, Zenon DEF post_external_event
  <2>2. PICK kinds, c, t : Begin(kinds, c, t) /\ kinds = <<kind>>
    BY <2>1, Zenon
  <2>3. kind # "run.created"
    BY Zenon DEF External
  <2>4. kinds \in Seq({kind})
    BY <2>2
  <2>5. Sequence(kinds)
    BY <2>4, SeqOfRange, Zenon DEF Sequence
  <2>6. \A k \in DOMAIN kinds : kinds[k] # "run.created"
    BY <2>3, <2>4
  <2>7. Fitting(kinds, row.state.status)
    BY <2>1, <2>5, <2>6, Zenon DEF Fitting
  <2>8. Begin(kinds, c, t)
    BY <2>2, Zenon
  <2> QED BY <2>7, <2>8, BeginKeeps
<1> QED BY <1>1, <1>2, Zenon

\* Nothing happens.
LEMMA StutterKeeps ==
    ASSUME LogInv, UNCHANGED vars
    PROVE  LogInv'
<1>1. UNCHANGED <<log, row, tx, cli, follower, damaged>>
  BY Zenon DEF vars
<1>2. (Committed => Committed') /\ (Paging => Paging')
  BY <1>1, Zenon DEF Committed, Paging
<1>3. Underway => Underway'
  BY <1>1, Zenon DEF Underway
<1>4. ~ReplayClean => ~ReplayClean'
  <2>1. log' = log /\ row' = row
    BY <1>1, Zenon
  <2>2. chain_errors' = chain_errors
    BY <2>1 DEF chain_errors
  <2>3. state_matches' <=> state_matches
    BY <2>1, Zenon DEF state_matches
  <2> QED BY <2>2, <2>3 DEF ReplayClean
<1> HIDE DEF ReplayClean
<1> QED BY <1>1, <1>2, <1>3, <1>4, ZenonT(30) DEF LogInv

\* The invariant holds at every moment: while a transaction is open the log it
\* will become is chained and folds to the row it will write.
THEOREM LogInvHolds == Spec => []LogInv
<1>1. LogInv /\ [Next]_vars => LogInv'
  <2> SUFFICES ASSUME LogInv, [Next]_vars PROVE LogInv'
    BY Zenon
  <2>1. \/ Handler \/ (\E kind \in External : post_external_event(kind)) \/ append_raw \/ persist
        \/ Rollback \/ CliPage \/ Follow \/ Damage \/ UNCHANGED vars
    BY Zenon DEF Next
  <2>2. (Handler \/ \E kind \in External : post_external_event(kind)) => LogInv'
    BY BeginningsKeep, Zenon
  <2>3. /\ append_raw => LogInv'
        /\ persist => LogInv'
        /\ Rollback => LogInv'
    BY AppendKeeps, PersistKeeps, RollbackKeeps, Zenon
  <2>4. /\ CliPage => LogInv'
        /\ Follow => LogInv'
        /\ Damage => LogInv'
        /\ UNCHANGED vars => LogInv'
    BY CliPageKeeps, FollowKeeps, DamageKeeps, StutterKeeps, Zenon
  <2> QED BY <2>1, <2>2, <2>3, <2>4, Zenon
<1> QED BY <1>1, InitLog, PTL DEF Spec

\* An untouched log replays clean exactly when every figure of it is the one
\* its JSON gives back: nothing else that kernel, workers or readers do, and no
\* transaction undone half way, makes replay report an error (replay.rs).
THEOREM CleanReplay == Spec => []ReplayIsRoundTrip
<1>1. LogInv => ReplayIsRoundTrip
  <2> SUFFICES ASSUME LogInv, ~damaged, log # <<>> PROVE ReplayClean <=> RoundTrips(log)
    BY Zenon DEF ReplayIsRoundTrip
  <2>1. Committed
    BY Zenon DEF LogInv
  <2> QED BY <2>1, CleanIffRoundTrips
<1> QED BY <1>1, LogInvHolds, PTL

\* In particular the log replays clean as long as its figures survive their JSON.
THEOREM HonestLogs == Spec /\ []RoundTrips(log) => []HonestLogReplays
<1>1. ReplayIsRoundTrip /\ RoundTrips(log) => HonestLogReplays
  BY Zenon DEF ReplayIsRoundTrip, HonestLogReplays
<1> QED BY <1>1, CleanReplay, PTL

\* A changed, lost or exchanged event is reported, wherever in the log it is and
\* whatever the figures are ("The log cannot be rewritten silently").
THEOREM DamageReported == Spec => []DamageIsReported
<1>1. LogInv => DamageIsReported
  BY Zenon DEF LogInv, DamageIsReported
<1> QED BY <1>1, LogInvHolds, PTL

\* The pages of a reader fit together for every page size the server grants,
\* however many events are appended between two pages (run_events, follow).
THEOREM PagesFit == Spec => []PagesFitTogether
<1>1. LogInv => PagesFitTogether
  <2> SUFFICES ASSUME LogInv, ~damaged
      PROVE  /\ \A reader \in {cli.got, follower.got} : reader = [i \in 1..Len(reader) |-> i]
             /\ cli.done => Len(cli.got) >= cli.began
             /\ \A i \in DOMAIN follower.got :
                   log[i].kind \in Terminal => follower.done /\ i = Len(follower.got)
    BY Zenon DEF PagesFitTogether
  <2>1. Paging
    BY Zenon DEF LogInv
  <2>2. /\ cli \in [from: Nat, got: Seq(Nat), done: BOOLEAN, began: Nat]
        /\ \A i \in DOMAIN cli.got : cli.got[i] = i
        /\ follower \in [from: Nat, got: Seq(Nat), done: BOOLEAN]
        /\ \A i \in DOMAIN follower.got : follower.got[i] = i
    BY <2>1, Zenon DEF Paging
  <2>3. ASSUME NEW s \in Seq(Nat), \A i \in DOMAIN s : s[i] = i
        PROVE  s = [i \in 1..Len(s) |-> i]
    <3>1. DOMAIN s = 1..Len(s) /\ s = [i \in DOMAIN s |-> s[i]]
      OBVIOUS
    <3> QED BY <2>3, <3>1, Zenon
  <2>4. cli.got \in Seq(Nat) /\ follower.got \in Seq(Nat)
    BY <2>2, Zenon
  <2>5. cli.got = [i \in 1..Len(cli.got) |-> i] /\ follower.got = [i \in 1..Len(follower.got) |-> i]
    BY <2>2, <2>3, <2>4, Zenon
  <2>6. /\ cli.done => Len(cli.got) >= cli.began
        /\ \A i \in DOMAIN follower.got :
              log[i].kind \in Terminal => follower.done /\ i = Len(follower.got)
    BY <2>1, Zenon DEF Paging
  <2> QED BY <2>5, <2>6, Zenon
<1> QED BY <1>1, LogInvHolds, PTL
=============================================================================
