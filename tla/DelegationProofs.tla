-------------------------- MODULE DelegationProofs --------------------------
(***************************************************************************)
(* Proofs about Remit and Delegation, for every alphabet, set of calls and *)
(* requests and every bound: delegation never widens, a run keeps the      *)
(* remit it was started with, a remit starts at most one run and, from the *)
(* narrowing and the order in which Decide looks at the rules, a denial    *)
(* and a gate survive delegation.  At the end, about Evaluate: the loop    *)
(* computes Decide for every policy set, of any size, and every context.   *)
(***************************************************************************)
EXTENDS Delegation, Evaluate, TLAPS

\* What a leaf may take of the SMT solver, unless it says otherwise.
USE SMTT(30)

----------------------------------------------------------------------------
(* Patterns: covering is sound for matching.                               *)

\* A pattern matches whatever a pattern it covers matches (pattern_covers
\* against pattern_matches in remit.rs).
LEMMA CoversSound ==
    ASSUME NEW p \in Patterns, NEW q \in Patterns, NEW w \in Words,
           pattern_covers(p, q), pattern_matches(q, w)
    PROVE  pattern_matches(p, w)
<1>1. CASE p.glob /\ q.glob
  <2>1. starts_with(q.body, p.body) /\ starts_with(w, q.body)
    BY <1>1, Zenon DEF pattern_covers, pattern_matches
  <2>2. p.body \in Seq(Chars) /\ q.body \in Seq(Chars) /\ w \in Seq(Chars)
    BY Zenon DEF Patterns, Words
  <2>3. Len(p.body) \in Nat /\ Len(q.body) \in Nat /\ Len(w) \in Nat
    BY <2>2
  <2>4. Len(p.body) <= Len(w)
    BY <2>1, <2>3 DEF starts_with
  <2>5. ASSUME NEW i \in 1..Len(p.body) PROVE w[i] = p.body[i]
    <3>1. i \in 1..Len(q.body)
      BY <2>1, <2>3, <2>5 DEF starts_with
    <3>2. w[i] = q.body[i] /\ q.body[i] = p.body[i]
      BY <2>1, <2>5, <3>1, Zenon DEF starts_with
    <3> QED BY <3>2
  <2> QED BY <1>1, <2>4, <2>5 DEF pattern_matches, starts_with
<1>2. CASE ~(p.glob /\ q.glob)
  BY <1>2, Zenon DEF pattern_covers, pattern_matches, Patterns
<1> QED BY <1>1, <1>2

\* The same for sets of patterns, as narrow compares them.
LEMMA CoveredMatches ==
    ASSUME NEW P \in SUBSET Patterns, NEW Q \in SUBSET Patterns, NEW w \in Words,
           CoveredBy(Q, P), MatchAny(Q, w)
    PROVE  MatchAny(P, w)
<1>1. PICK q \in Q : pattern_matches(q, w)
  BY Zenon DEF MatchAny
<1>2. PICK p \in P : pattern_covers(p, q)
  BY Zenon DEF CoveredBy
<1>3. pattern_matches(p, w)
  BY <1>1, <1>2, CoversSound, Zenon
<1> QED BY <1>3 DEF MatchAny

----------------------------------------------------------------------------
(* NoWider is a preorder that only looks at the rights of a remit.         *)

\* The fields NoWider depends on.
SameRights(r, s) ==
    /\ r.nbf = s.nbf /\ r.exp = s.exp /\ r.tools = s.tools /\ r.scopes = s.scopes
    /\ r.grants = s.grants /\ r.spend = s.spend /\ r.autonomy = s.autonomy
    /\ r.policy_set = s.policy_set

\* Permits reads no field but those.
LEMMA PermitsSame ==
    ASSUME NEW r, NEW s, NEW c, SameRights(r, s)
    PROVE  Permits(r, c) <=> Permits(s, c)
BY DEF SameRights, Permits

\* Neither does NoWider, on either side.
LEMMA NoWiderSame ==
    ASSUME NEW r, NEW s, NEW r2, NEW s2, SameRights(r, r2), SameRights(s, s2), NoWider(r, s)
    PROVE  NoWider(r2, s2)
<1>1. \A c \in Calls : Permits(r2, c) => Permits(s2, c)
  BY PermitsSame, Zenon DEF NoWider
<1> QED BY <1>1 DEF NoWider, SameRights

\* A limit within a limit within a third is within the third.
LEMMA WithinTransitive ==
    ASSUME NEW x \in Amount, NEW y \in Amount, NEW z \in Amount, Within(x, y), Within(y, z)
    PROVE  Within(x, z)
BY DEF Within, Amount, Unlimited

\* What a row of the table holds.
LEMMA RemitFields ==
    ASSUME NEW r \in RemitRow
    PROVE  /\ r.parent \in Nat /\ r.ancestors \in SUBSET Nat /\ r.autonomy \in Autonomy
           /\ r.nbf \in Seconds /\ r.exp \in Seconds /\ r.iat \in Seconds
           /\ r.spend \in [Dims -> Amount]
BY Zenon DEF RemitRow

\* Autonomy levels are ordered.
LEMMA LevelsOrdered ==
    ASSUME NEW a \in Autonomy, NEW b \in Autonomy, NEW c \in Autonomy, a <= b, b <= c
    PROVE  a <= c
BY DEF Autonomy

\* Chains of remits that do not widen do not widen.
LEMMA NoWiderTransitive ==
    ASSUME NEW r \in RemitRow, NEW s \in RemitRow, NEW t \in RemitRow,
           NoWider(r, s), NoWider(s, t)
    PROVE  NoWider(r, t)
<1>1. \A c \in Calls : Permits(r, c) => Permits(t, c)
  BY Zenon DEF NoWider
<1>2. r.grants \subseteq t.grants
  BY Zenon DEF NoWider
<1>3. ASSUME NEW d \in Dims PROVE Within(r.spend[d], t.spend[d])
  <2>1. r.spend[d] \in Amount /\ s.spend[d] \in Amount /\ t.spend[d] \in Amount
    BY Zenon DEF RemitRow
  <2> QED BY <2>1, WithinTransitive DEF NoWider
<1>4. r.autonomy <= t.autonomy
  <2>1. r.autonomy \in Autonomy /\ s.autonomy \in Autonomy /\ t.autonomy \in Autonomy
    BY RemitFields, Zenon
  <2>2. r.autonomy <= s.autonomy /\ s.autonomy <= t.autonomy
    BY Zenon DEF NoWider
  <2> QED BY <2>1, <2>2, LevelsOrdered, Zenon
<1>5. Contents(t.policy_set) \subseteq Contents(r.policy_set)
  BY Zenon DEF NoWider
<1> QED BY <1>1, <1>2, <1>3, <1>4, <1>5 DEF NoWider

\* Every limit is within itself.
LEMMA WithinReflexive ==
    ASSUME NEW x \in Amount
    PROVE  Within(x, x)
BY DEF Within, Amount, Unlimited

----------------------------------------------------------------------------
(* What narrow and start_run compute.                                      *)

\* saturating_add stays within i64.
LEMMA SaturatingAddType ==
    ASSUME NEW t \in Seconds, NEW d \in Seconds
    PROVE  saturating_add(t, d) \in Seconds
BY RemitAssumption DEF saturating_add, Seconds

\* The cast of a u64 is an i64.
LEMMA AsI64Type ==
    ASSUME NEW ttl \in Ttl
    PROVE  as_i64(ttl) \in Seconds
BY RemitAssumption DEF as_i64, Seconds, Ttl

\* What narrow returns is a row.
LEMMA NarrowType ==
    ASSUME NEW p \in RemitRow, NEW q \in DeriveRequest, NEW at \in 0..MaxTime
    PROVE  narrow(q, p, at) \in RemitRow
<1>1. NarrowedExp(q, p, at) \in Seconds
  <2>1. at \in Seconds
    BY RemitAssumption DEF Seconds
  <2>2. q.ttl # Absent => as_i64(q.ttl) \in Seconds
    BY AsI64Type, Zenon DEF DeriveRequest
  <2> QED BY <2>1, <2>2, SaturatingAddType, Zenon DEF NarrowedExp, RemitRow
<1>2. MaxOf(at, p.nbf) \in Seconds
  <2>1. p.nbf \in Seconds
    BY RemitFields, Zenon
  <2> QED BY <2>1, RemitAssumption DEF MaxOf, Seconds
<1>3. NarrowedSpend(q, p) \in [Dims -> Amount]
  BY Zenon DEF NarrowedSpend, DeriveRequest, RemitRow, Amount, Unlimited
<1>4. /\ Given(q.tools, p.tools) \in SUBSET Patterns
      /\ Given(q.scopes, p.scopes) \in SUBSET Patterns
      /\ Given(q.grants, p.grants) \in SUBSET Grants
  BY Zenon DEF Given, DeriveRequest, RemitRow
<1>5. /\ Given(q.autonomy, p.autonomy) \in Autonomy
      /\ Given(q.policy_set, p.policy_set) \in Seq(Policies)
  BY Zenon DEF Given, DeriveRequest, RemitRow
<1> HIDE DEF Seconds, Amount, Patterns, Autonomy, NarrowedExp, MaxOf, NarrowedSpend, Given
<1> QED BY <1>1, <1>2, <1>3, <1>4, <1>5, Zenon DEF narrow, RemitRow

\* The fields of what narrow returns.
LEMMA NarrowFields ==
    ASSUME NEW p \in RemitRow, NEW q, NEW at
    PROVE  LET n == narrow(q, p, at)
           IN  /\ n.tools = Given(q.tools, p.tools) /\ n.scopes = Given(q.scopes, p.scopes)
               /\ n.grants = Given(q.grants, p.grants) /\ n.spend = NarrowedSpend(q, p)
               /\ n.autonomy = Given(q.autonomy, p.autonomy) /\ n.nbf = MaxOf(at, p.nbf)
               /\ n.exp = NarrowedExp(q, p, at)
               /\ n.policy_set = Given(q.policy_set, p.policy_set)
BY DEF narrow, RemitRow

\* narrow's checks are enough: the child is no wider than the parent.
LEMMA NarrowIsNoWider ==
    ASSUME NEW p \in RemitRow, NEW q \in DeriveRequest, NEW at \in 0..MaxTime,
           Narrows(q, p, at)
    PROVE  NoWider(narrow(q, p, at), p)
<1> DEFINE n == narrow(q, p, at)
<1>1. n \in RemitRow
  BY NarrowType, Zenon
<1>2. n.nbf >= p.nbf /\ n.exp <= p.exp
  <2>1. n.nbf = MaxOf(at, p.nbf) /\ n.exp = NarrowedExp(q, p, at)
    BY NarrowFields
  <2>2. MaxOf(at, p.nbf) >= p.nbf
    BY RemitAssumption DEF MaxOf, RemitRow, Seconds
  <2> QED BY <2>1, <2>2 DEF Narrows
<1>3. n.autonomy <= p.autonomy
  BY NarrowFields DEF Narrows, Given, RemitRow, Autonomy
<1>4. n.grants \subseteq p.grants
  BY NarrowFields DEF Narrows, Given
<1>5. \A d \in Dims : Within(n.spend[d], p.spend[d])
  BY NarrowFields, Zenon DEF Narrows
<1>6. Contents(p.policy_set) \subseteq Contents(n.policy_set)
  BY NarrowFields DEF Narrows, Given
<1>7. ASSUME NEW w \in Words
      PROVE  /\ MatchAny(n.tools, w) => MatchAny(p.tools, w)
             /\ MatchAny(n.scopes, w) => MatchAny(p.scopes, w)
  <2>1. /\ n.tools = p.tools \/ CoveredBy(n.tools, p.tools)
        /\ n.scopes = p.scopes \/ CoveredBy(n.scopes, p.scopes)
    BY NarrowFields DEF Narrows, Given
  <2>2. /\ n.tools \in SUBSET Patterns /\ p.tools \in SUBSET Patterns
        /\ n.scopes \in SUBSET Patterns /\ p.scopes \in SUBSET Patterns
    BY <1>1, Zenon DEF RemitRow
  <2> HIDE DEF n
  <2> QED BY <2>1, <2>2, CoveredMatches
<1>8. ASSUME NEW c \in Calls, Permits(n, c) PROVE Permits(p, c)
  <2> HIDE DEF n
  <2>1. c \in Call
    BY RemitAssumption, Zenon
  <2>2. c.tool \in Words /\ c.scopes \in SUBSET Words /\ c.at \in Seconds
    BY <2>1, Zenon DEF Call
  <2>3. p.nbf <= c.at /\ c.at < p.exp
    <3>1. n.nbf \in Seconds /\ n.exp \in Seconds /\ p.nbf \in Seconds /\ p.exp \in Seconds
      BY <1>1, RemitFields, Zenon
    <3>2. n.nbf <= c.at /\ c.at < n.exp
      BY <1>8, Zenon DEF Permits
    <3>3. MaxTime \in Nat
      BY RemitAssumption, Zenon
    <3> QED BY <1>2, <2>2, <3>1, <3>2, <3>3 DEF Seconds
  <2>4. MatchAny(p.tools, c.tool)
    BY <1>7, <1>8, <2>2, Zenon DEF Permits
  <2>5. \A s \in c.scopes : MatchAny(p.scopes, s)
    BY <1>7, <1>8, <2>2, Zenon DEF Permits
  <2>6. c.writes => p.autonomy >= Supervised
    BY <1>1, <1>3, <1>8 DEF Permits, RemitRow, Autonomy, Supervised
  <2> QED BY <2>3, <2>4, <2>5, <2>6 DEF Permits
<1> HIDE DEF n
<1>9. NoWider(n, p)
  BY <1>3, <1>4, <1>5, <1>6, <1>8, Zenon DEF NoWider
<1> QED BY <1>9 DEF n

----------------------------------------------------------------------------
(* The inductive invariant.                                                *)

\* A run's remit hangs below a remit that is bound and belongs to no run.
RunLinks ==
    \A i \in 1..Len(remits) :
        remits[i].run # 0 =>
            /\ remits[i].parent \in 1..Len(remits)
            /\ remits[remits[i].parent].bound
            /\ remits[remits[i].parent].run = 0

\* What derive_remit computed is still no wider than the stored remits above.
DerivingNarrows ==
    \A r \in deriving : r.run = 0 /\ \A a \in r.ancestors : NoWider(r, remits[a])

RemitInv ==
    /\ TypeOK /\ DelegationNarrows /\ RunKeepsItsRemit /\ OneRunPerRemit
    /\ RunLinks /\ DerivingNarrows

\* base keeps everything of the table but may mark remits as bound.
Keeps(base) ==
    /\ base \in Seq(RemitRow) /\ Len(base) = Len(remits)
    /\ \A j \in 1..Len(remits) :
          /\ SameRights(remits[j], base[j])
          /\ base[j].parent = remits[j].parent /\ base[j].run = remits[j].run
          /\ base[j].ancestors = remits[j].ancestors /\ base[j].iat = remits[j].iat
          /\ remits[j].bound => base[j].bound

\* The row a step appends fits under the remits already stored.
Fits(r, base) ==
    /\ r \in RemitRow /\ r.parent <= Len(remits) /\ r.ancestors \subseteq 1..Len(remits)
    /\ \A a \in r.ancestors : NoWider(r, remits[a])
    /\ r.run # 0 =>
          /\ r.parent \in 1..Len(remits) /\ base[r.parent].bound
          /\ remits[r.parent].run = 0 /\ ~remits[r.parent].bound
          /\ \A c \in Calls : c.at >= r.iat => (Permits(r, c) <=> Permits(remits[r.parent], c))

\* Appending a row that fits preserves the invariant: the three operations
\* that insert a remit rest on this.
LEMMA AppendPreserves ==
    ASSUME RemitInv, NEW base, NEW r, Keeps(base), Fits(r, base),
           remits' = Append(base, r), deriving' \in SUBSET deriving, now' = now
    PROVE  RemitInv'
<1> DEFINE n == Len(remits)
<1>1. n \in Nat /\ Len(remits') = n + 1 /\ remits'[n + 1] = r /\ remits' \in Seq(RemitRow)
  BY DEF RemitInv, TypeOK, Keeps, Fits
<1>2. \A j \in 1..n : remits'[j] = base[j]
  BY <1>1 DEF Keeps
<1>3. /\ 1..(n + 1) = (1..n) \cup {n + 1} /\ n + 1 \notin 1..n
      /\ \A x \in 1..n : x \in 1..(n + 1)
  BY <1>1
<1> HIDE DEF n
<1>4. ASSUME NEW i \in 1..(n + 1)
      PROVE  /\ remits'[i].parent < i /\ remits'[i].ancestors \subseteq 1..(i - 1)
             /\ remits'[i].ancestors \subseteq 1..n
  <2>1. CASE i = n + 1
    <3>1. remits'[i] = r /\ i = n + 1
      BY <1>1, <2>1, Zenon
    <3>2. r.parent \in Nat /\ r.parent <= n /\ r.ancestors \subseteq 1..n
      BY RemitFields, Zenon DEF Fits, n
    <3> QED BY <1>1, <3>1, <3>2
  <2>2. CASE i \in 1..n
    <3>1. remits[i].parent < i /\ remits[i].ancestors \subseteq 1..(i - 1)
      BY <2>2, Zenon DEF RemitInv, TypeOK, n
    <3>2. remits'[i].parent = remits[i].parent /\ remits'[i].ancestors = remits[i].ancestors
      BY <1>2, <2>2, Zenon DEF Keeps, n
    <3> QED BY <1>1, <2>2, <3>1, <3>2
  <2> QED BY <1>3, <2>1, <2>2, Zenon
<1>5. TypeOK'
  <2>1. \A x \in deriving' : x.parent <= n + 1 /\ x.ancestors \subseteq 1..(n + 1) /\ x \in RemitRow
    <3> SUFFICES ASSUME NEW x \in deriving'
                 PROVE  x.parent <= n + 1 /\ x.ancestors \subseteq 1..(n + 1) /\ x \in RemitRow
      BY Zenon
    <3>1. x \in RemitRow /\ x.parent <= n /\ x.ancestors \subseteq 1..n
      BY Zenon DEF RemitInv, TypeOK, n
    <3>2. x.parent \in Nat
      BY <3>1, RemitFields, Zenon
    <3> QED BY <1>1, <3>1, <3>2
  <2>2. now' \in 0..MaxTime
    BY Zenon DEF RemitInv, TypeOK
  <2> QED BY <1>1, <1>4, <2>1, <2>2 DEF TypeOK
<1>6. DelegationNarrows'
  <2> SUFFICES ASSUME NEW i \in 1..(n + 1), NEW a \in remits'[i].ancestors
               PROVE  NoWider(remits'[i], remits'[a])
    BY <1>1, Zenon DEF DelegationNarrows, NoWider, Permits
  <2>1. a \in 1..n
    BY <1>4, Zenon
  <2>2. SameRights(remits[a], remits'[a])
    BY <1>2, <2>1, Zenon DEF Keeps, n
  <2>3. CASE i = n + 1
    <3>1. NoWider(r, remits[a]) /\ SameRights(r, r)
      BY <1>1, <2>3, Zenon DEF Fits, SameRights
    <3> QED BY <1>1, <2>2, <2>3, <3>1, NoWiderSame, Zenon
  <2>4. CASE i \in 1..n
    <3>1. SameRights(remits[i], remits'[i]) /\ a \in remits[i].ancestors
      BY <1>2, <2>4, Zenon DEF Keeps, n
    <3>2. NoWider(remits[i], remits[a])
      BY <2>4, <3>1, Zenon DEF RemitInv, DelegationNarrows, n
    <3> QED BY <2>2, <3>1, <3>2, NoWiderSame, Zenon
  <2> QED BY <1>3, <2>3, <2>4, Zenon
<1>7. ASSUME NEW i \in 1..(n + 1), remits'[i].run # 0
      PROVE  /\ remits'[i].parent \in 1..n
             /\ remits'[remits'[i].parent].bound
             /\ remits'[remits'[i].parent].run = 0
             /\ SameRights(remits[remits'[i].parent], remits'[remits'[i].parent])
  <2> DEFINE p == remits'[i].parent
  <2>1. p \in 1..n /\ base[p].bound /\ remits[p].run = 0
    <3>1. CASE i = n + 1
      BY <1>1, <1>7, <3>1, Zenon DEF Fits, n
    <3>2. CASE i \in 1..n
      <4>1. remits[i].run # 0 /\ p = remits[i].parent
        BY <1>2, <1>7, <3>2 DEF Keeps, n
      <4>2. p \in 1..n /\ remits[p].bound /\ remits[p].run = 0
        BY <3>2, <4>1, Zenon DEF RemitInv, RunLinks, n
      <4> QED BY <4>2 DEF Keeps, n
    <3> QED BY <1>3, <3>1, <3>2, Zenon
  <2>2. remits'[p] = base[p] /\ base[p].run = remits[p].run /\ SameRights(remits[p], base[p])
    BY <1>2, <2>1, Zenon DEF Keeps, n
  <2> QED BY <2>1, <2>2, Zenon
<1>8. RunLinks'
  BY <1>1, <1>3, <1>7, Zenon DEF RunLinks
<1>9. RunKeepsItsRemit'
  <2> SUFFICES ASSUME NEW i \in 1..(n + 1), remits'[i].run # 0,
                      NEW c \in Calls, c.at >= remits'[i].iat
               PROVE  Permits(remits'[i], c) <=> Permits(remits'[remits'[i].parent], c)
    BY <1>1, Zenon DEF RunKeepsItsRemit, Permits
  <2> DEFINE p == remits'[i].parent
  <2>1. SameRights(remits[p], remits'[p])
    BY <1>7, Zenon
  <2>2. Permits(remits[p], c) <=> Permits(remits'[p], c)
    BY <2>1, Zenon DEF SameRights, Permits
  <2>3. CASE i = n + 1
    <3>1. Permits(r, c) <=> Permits(remits[p], c)
      BY <1>1, <2>3, Zenon DEF Fits
    <3> QED BY <1>1, <2>2, <2>3, <3>1, Zenon
  <2>4. CASE i \in 1..n
    <3>1. SameRights(remits[i], remits'[i]) /\ remits[i].parent = p /\ remits[i].run # 0
      BY <1>2, <2>4 DEF Keeps, n
    <3>2. c.at >= remits[i].iat
      BY <1>2, <2>4, Zenon DEF Keeps, n
    <3>3. Permits(remits[i], c) <=> Permits(remits[p], c)
      BY <2>4, <3>1, <3>2, Zenon DEF RemitInv, RunKeepsItsRemit, n
    <3>4. Permits(remits[i], c) <=> Permits(remits'[i], c)
      BY <3>1, PermitsSame, Zenon
    <3> QED BY <2>2, <3>3, <3>4, Zenon
  <2> QED BY <1>3, <2>3, <2>4, Zenon
<1>10. OneRunPerRemit'
  <2>1. ASSUME NEW i \in 1..(n + 1), NEW j \in 1..(n + 1), remits'[i].run # 0,
               remits'[j].run # 0, remits'[i].parent = remits'[j].parent
        PROVE  i = j
    <3>1. ASSUME NEW k \in 1..n, remits'[k].run # 0
          PROVE  remits[k].run # 0 /\ remits'[k].parent = remits[k].parent
                 /\ remits[remits'[k].parent].bound
      <4>1. remits'[k] = base[k] /\ base[k].run = remits[k].run /\ base[k].parent = remits[k].parent
        BY <1>2, Zenon DEF Keeps, n
      <4>2. remits[k].run # 0
        BY <3>1, <4>1, Zenon
      <4> QED BY <4>1, <4>2, Zenon DEF RemitInv, RunLinks, n
    <3>2. r.run # 0 => ~remits[r.parent].bound
      BY Zenon DEF Fits
    <3>3. CASE i \in 1..n /\ j \in 1..n
      <4>1. /\ remits[i].run # 0 /\ remits[j].run # 0
            /\ remits[i].parent = remits[j].parent
        BY <2>1, <3>1, <3>3, Zenon
      <4> QED BY <3>3, <4>1, Zenon DEF RemitInv, OneRunPerRemit, n
    <3>4. CASE i = n + 1 /\ j \in 1..n
      BY <1>1, <2>1, <3>1, <3>2, <3>4, Zenon
    <3>5. CASE i \in 1..n /\ j = n + 1
      BY <1>1, <2>1, <3>1, <3>2, <3>5, Zenon
    <3> QED BY <1>3, <3>3, <3>4, <3>5
  <2>2. \A i \in 1..(n + 1) : remits'[i].run # 0 => remits'[remits'[i].parent].run = 0
    BY <1>7, Zenon
  <2> SUFFICES ASSUME NEW i \in 1..Len(remits'), NEW j \in 1..Len(remits')
               PROVE  /\ (/\ remits'[i].run # 0 /\ remits'[j].run # 0
                           /\ remits'[i].parent = remits'[j].parent) => i = j
                      /\ remits'[i].run # 0 => remits'[remits'[i].parent].run = 0
    BY Zenon DEF OneRunPerRemit
  <2> QED BY <1>1, <2>1, <2>2, Zenon
<1>11. DerivingNarrows'
  <2> SUFFICES ASSUME NEW x \in deriving'
               PROVE  x.run = 0 /\ \A a \in x.ancestors : NoWider(x, remits'[a])
    BY Zenon DEF DerivingNarrows, NoWider, Permits
  <2>1. x.run = 0 /\ x.ancestors \subseteq 1..n
    BY Zenon DEF RemitInv, DerivingNarrows, TypeOK, n
  <2>2. ASSUME NEW a \in x.ancestors PROVE NoWider(x, remits'[a])
    <3>1. NoWider(x, remits[a]) /\ SameRights(x, x)
      BY Zenon DEF RemitInv, DerivingNarrows, SameRights
    <3>2. SameRights(remits[a], remits'[a])
      BY <1>2, <2>1, Zenon DEF Keeps, n
    <3> QED BY <3>1, <3>2, NoWiderSame, Zenon
  <2> QED BY <2>1, <2>2, Zenon
<1> QED BY <1>5, <1>6, <1>8, <1>9, <1>10, <1>11 DEF RemitInv

----------------------------------------------------------------------------
(* The operations.                                                         *)

\* A child computed from a stored remit fits under it and all above it.
LEMMA BelowStored ==
    ASSUME RemitInv, NEW i \in 1..Len(remits), NEW x \in RemitRow, NoWider(x, remits[i]),
           NEW y \in RemitRow, SameRights(x, y),
           y.ancestors = remits[i].ancestors \cup {i}
    PROVE  /\ y.ancestors \subseteq 1..Len(remits)
           /\ \A a \in y.ancestors : NoWider(y, remits[a])
<1>1. remits[i].ancestors \subseteq 1..(i - 1) /\ remits[i] \in RemitRow
  BY DEF RemitInv, TypeOK
<1>2. y.ancestors \subseteq 1..Len(remits)
  BY <1>1 DEF RemitInv, TypeOK
<1>3. ASSUME NEW a \in y.ancestors PROVE NoWider(y, remits[a])
  <2>1. remits[a] \in RemitRow /\ SameRights(remits[a], remits[a])
    BY <1>2 DEF RemitInv, TypeOK, SameRights
  <2>2. NoWider(x, remits[a])
    <3>1. CASE a = i
      BY <3>1, Zenon
    <3>2. CASE a \in remits[i].ancestors
      <4>1. NoWider(remits[i], remits[a])
        BY <3>2, Zenon DEF RemitInv, DelegationNarrows
      <4> QED BY <1>1, <2>1, <4>1, NoWiderTransitive
    <3> QED BY <3>1, <3>2
  <2> QED BY <2>1, <2>2, NoWiderSame
<1> QED BY <1>2, <1>3

\* Child changes the links of a row and none of its rights.
LEMMA ChildRow ==
    ASSUME NEW i \in Nat, NEW x \in RemitRow, NEW run \in Nat, NEW at \in Seconds,
           NEW above \in SUBSET Nat
    PROVE  LET y == Child(x, i, run, at, above)
           IN  /\ y \in RemitRow /\ SameRights(x, y) /\ y.parent = i /\ y.run = run
               /\ y.iat = at /\ y.ancestors = above \cup {i}
<1> DEFINE y == Child(x, i, run, at, above)
<1>1. above \cup {i} \in SUBSET Nat
  OBVIOUS
<1>2. y \in RemitRow
  <2> HIDE DEF Patterns, Seconds, Amount, Autonomy
  <2> QED BY <1>1, Zenon DEF Child, RemitRow
<1>3. SameRights(x, y)
  BY Zenon DEF Child, RemitRow, SameRights
<1>4. y.parent = i /\ y.run = run /\ y.iat = at /\ y.ancestors = above \cup {i}
  BY Zenon DEF Child, RemitRow
<1> QED BY <1>2, <1>3, <1>4

\* issue_remit inserts a remit with nothing above it.
LEMMA IssuePreserves ==
    ASSUME RemitInv, NEW q \in IssueRequests, issue_remit(q)
    PROVE  RemitInv'
<1> DEFINE r == [parent |-> 0, run |-> 0, bound |-> FALSE, iat |-> now, nbf |-> now,
                 exp |-> saturating_add(now, as_i64(q.ttl)), tools |-> q.tools,
                 scopes |-> q.scopes, grants |-> q.grants, spend |-> q.spend,
                 autonomy |-> q.autonomy, policy_set |-> q.policy_set, ancestors |-> {}]
<1>1. q \in IssueRequest
  BY RemitAssumption, Zenon
<1>2. now \in Seconds /\ saturating_add(now, as_i64(q.ttl)) \in Seconds
  <2>1. now \in Seconds
    BY RemitAssumption DEF RemitInv, TypeOK, Seconds
  <2>2. as_i64(q.ttl) \in Seconds
    BY <1>1, AsI64Type, Zenon DEF IssueRequest
  <2> QED BY <2>1, <2>2, SaturatingAddType
<1>3. r \in RemitRow
  <2> HIDE DEF Patterns, Seconds, Amount, Autonomy
  <2> QED BY <1>1, <1>2, Zenon DEF IssueRequest, RemitRow
<1>4. Fits(r, remits)
  <2>1. r.parent = 0 /\ r.run = 0 /\ r.ancestors = {}
    OBVIOUS
  <2>2. Len(remits) \in Nat
    BY DEF RemitInv, TypeOK
  <2> HIDE DEF r
  <2> QED BY <1>3, <2>1, <2>2 DEF Fits
<1>5. Keeps(remits)
  BY Zenon DEF Keeps, SameRights, RemitInv, TypeOK
<1>6. remits' = Append(remits, r) /\ deriving' \in SUBSET deriving /\ now' = now
  BY Zenon DEF issue_remit
<1> HIDE DEF r
<1> QED BY <1>4, <1>5, <1>6, AppendPreserves

\* store_remit inserts what derive_remit computed, however much later.
LEMMA StorePreserves ==
    ASSUME RemitInv, NEW r \in deriving, store_remit(r)
    PROVE  RemitInv'
<1>1. Fits(r, remits)
  BY Zenon DEF Fits, RemitInv, TypeOK, DerivingNarrows
<1>2. Keeps(remits)
  BY Zenon DEF Keeps, SameRights, RemitInv, TypeOK
<1>3. remits' = Append(remits, r) /\ deriving' \in SUBSET deriving /\ now' = now
  BY Zenon DEF store_remit
<1> QED BY <1>1, <1>2, <1>3, AppendPreserves

\* The invariants about the table alone survive a step that leaves it alone.
LEMMA SameTable ==
    ASSUME RemitInv, remits' = remits
    PROVE  DelegationNarrows' /\ RunKeepsItsRemit' /\ OneRunPerRemit' /\ RunLinks'
<1>1. DelegationNarrows'
  BY Zenon DEF RemitInv, DelegationNarrows
<1>2. RunKeepsItsRemit'
  BY Zenon DEF RemitInv, RunKeepsItsRemit
<1>3. OneRunPerRemit'
  BY DEF RemitInv, OneRunPerRemit
<1>4. RunLinks'
  BY Zenon DEF RemitInv, RunLinks
<1> QED BY <1>1, <1>2, <1>3, <1>4

\* derive_remit computes a child that is no wider than anything above it.
LEMMA DerivePreserves ==
    ASSUME RemitInv, NEW i \in 1..Len(remits), NEW q \in DeriveRequests, derive_remit(i, q)
    PROVE  RemitInv'
<1> DEFINE x == narrow(q, remits[i], now)
           y == Child(x, i, 0, now, remits[i].ancestors)
<1>1. /\ remits[i] \in RemitRow /\ q \in DeriveRequest /\ now \in 0..MaxTime
      /\ i \in Nat /\ i <= Len(remits) /\ now \in Seconds
  BY RemitAssumption DEF RemitInv, TypeOK, Seconds
<1>2. x \in RemitRow /\ NoWider(x, remits[i])
  BY <1>1, NarrowType, NarrowIsNoWider, Zenon DEF derive_remit
<1> HIDE DEF x
<1>3. y \in RemitRow /\ SameRights(x, y) /\ y.parent = i /\ y.run = 0
      /\ y.ancestors = remits[i].ancestors \cup {i}
  <2>1. remits[i].ancestors \in SUBSET Nat /\ 0 \in Nat
    BY <1>1, Zenon DEF RemitRow
  <2>2. i \in Nat /\ x \in RemitRow /\ now \in Seconds
    BY <1>1, <1>2, Zenon
  <2>3. PICK above \in SUBSET Nat : above = remits[i].ancestors
    BY <2>1, Zenon
  <2>4. PICK zero \in Nat : zero = 0
    BY <2>1, Zenon
  <2>5. PICK at \in Seconds : at = now
    BY <2>2, Zenon
  <2>6. PICK z : z = Child(x, i, zero, at, above)
    BY Zenon
  <2>7. z \in RemitRow /\ SameRights(x, z) /\ z.parent = i /\ z.run = zero
        /\ z.ancestors = above \cup {i}
    BY <2>2, <2>6, ChildRow
  <2>8. y = z
    BY <2>3, <2>4, <2>5, <2>6, Zenon
  <2> HIDE DEF y
  <2> QED BY <2>3, <2>4, <2>7, <2>8
<1> HIDE DEF y
<1>4. y.ancestors \subseteq 1..Len(remits) /\ \A a \in y.ancestors : NoWider(y, remits[a])
  BY <1>2, <1>3, BelowStored, Zenon
<1>5. deriving' = deriving \cup {y} /\ remits' = remits /\ now' = now
  BY Zenon DEF derive_remit, x, y
<1>6. TypeOK'
  BY <1>1, <1>3, <1>4, <1>5 DEF RemitInv, TypeOK
<1>7. DelegationNarrows' /\ RunKeepsItsRemit' /\ OneRunPerRemit' /\ RunLinks'
  BY <1>5, SameTable, Zenon DEF RemitInv
<1>8. DerivingNarrows'
  <2> SUFFICES ASSUME NEW r \in deriving'
               PROVE  r.run = 0 /\ \A a \in r.ancestors : NoWider(r, remits[a])
    BY <1>5, Zenon DEF DerivingNarrows
  <2> QED BY <1>3, <1>4, <1>5 DEF RemitInv, DerivingNarrows
<1> QED BY <1>6, <1>7, <1>8 DEF RemitInv

\* start_run inserts the run's own remit and marks the one it came from.
LEMMA StartPreserves ==
    ASSUME RemitInv, NEW i \in 1..Len(remits), NEW required, NEW at \in 0..now,
           start_run(i, required, at)
    PROVE  RemitInv'
<1> DEFINE p == remits[i]
           x == [p EXCEPT !.nbf = MaxOf(at, @)]
           y == RunChild(i, at)
           base == [remits EXCEPT ![i].bound = TRUE]
<1>1. /\ p \in RemitRow /\ at \in Seconds /\ Len(remits) + 1 \in Nat /\ Len(remits) + 1 # 0
      /\ remits \in Seq(RemitRow) /\ i \in Nat
  BY RemitAssumption DEF RemitInv, TypeOK, Seconds
<1>2. MaxOf(at, p.nbf) \in Seconds /\ MaxOf(at, p.nbf) >= p.nbf
  <2>1. p.nbf \in Seconds
    BY <1>1, Zenon DEF RemitRow
  <2> HIDE DEF p
  <2> QED BY <1>1, <2>1, RemitAssumption DEF MaxOf, Seconds
<1>3. x \in RemitRow
  <2> HIDE DEF Patterns, Seconds, Amount, Autonomy, MaxOf, p
  <2> QED BY <1>1, <1>2, Zenon DEF RemitRow
<1>4. /\ x.nbf = MaxOf(at, p.nbf) /\ x.exp = p.exp /\ x.tools = p.tools /\ x.scopes = p.scopes
      /\ x.grants = p.grants /\ x.spend = p.spend /\ x.autonomy = p.autonomy
      /\ x.policy_set = p.policy_set
  BY <1>1, Zenon DEF RemitRow
<1>5. ASSUME NEW c \in Calls, c.at >= at PROVE Permits(x, c) <=> Permits(p, c)
  <2>1. c.at \in Seconds /\ p.nbf \in Seconds /\ x.nbf \in Seconds
    BY RemitAssumption, <1>1, <1>3, Zenon DEF Call, RemitRow
  <2> HIDE DEF x, p
  <2>2. x.nbf <= c.at <=> p.nbf <= c.at
    <3>1. x.nbf = MaxOf(at, p.nbf) /\ c.at >= at /\ at \in Seconds /\ MaxTime \in Nat
      BY <1>1, <1>4, <1>5, RemitAssumption, Zenon
    <3> QED BY <2>1, <3>1 DEF Seconds, MaxOf
  <2> QED BY <1>4, <2>2 DEF Permits
<1>6. NoWider(x, p)
  <2>1. ASSUME NEW c \in Calls, Permits(x, c) PROVE Permits(p, c)
    <3>1. c.at \in Seconds /\ x.nbf \in Seconds /\ p.nbf \in Seconds /\ x.nbf <= c.at
      BY <2>1, <1>1, <1>3, RemitAssumption, Zenon DEF Permits, Call, RemitRow
    <3>2. c.at >= at
      <4> HIDE DEF x, p
      <4>1. x.nbf = MaxOf(at, p.nbf) /\ at \in Seconds /\ MaxTime \in Nat
        BY <1>1, <1>4, RemitAssumption, Zenon
      <4> QED BY <3>1, <4>1 DEF MaxOf, Seconds
    <3> QED BY <1>5, <2>1, <3>2
  <2>2. \A d \in Dims : Within(p.spend[d], p.spend[d])
    <3>1. p.spend \in [Dims -> Amount]
      BY <1>1, RemitFields, Zenon
    <3> HIDE DEF p
    <3> QED BY <3>1, WithinReflexive
  <2>3. p.autonomy <= p.autonomy
    <3>1. p.autonomy \in Autonomy
      BY <1>1, RemitFields, Zenon
    <3> HIDE DEF p
    <3> QED BY <3>1 DEF Autonomy
  <2> HIDE DEF x, p
  <2> QED BY <1>4, <2>1, <2>2, <2>3 DEF NoWider
<1>7. y \in RemitRow /\ SameRights(x, y) /\ y.parent = i /\ y.run = Len(remits) + 1 /\ y.iat = at
      /\ y.ancestors = remits[i].ancestors \cup {i}
  <2>1. y = Child(x, i, Len(remits) + 1, at, remits[i].ancestors)
    BY Zenon DEF RunChild
  <2>2. remits[i].ancestors \in SUBSET Nat
    BY <1>1, RemitFields, Zenon
  <2> HIDE DEF x, y, p
  <2> QED BY <1>1, <1>3, <2>1, <2>2, ChildRow
<1>8. y.ancestors \subseteq 1..Len(remits) /\ \A a \in y.ancestors : NoWider(y, remits[a])
  BY <1>3, <1>6, <1>7, BelowStored, Zenon
<1>9. ASSUME NEW j \in 1..Len(remits)
      PROVE  base[j] = IF j = i THEN [p EXCEPT !.bound = TRUE] ELSE remits[j]
  BY <1>1
<1>10. Keeps(base)
  <2>1. base \in Seq(RemitRow) /\ Len(base) = Len(remits)
    <3>1. [p EXCEPT !.bound = TRUE] \in RemitRow
      <4> HIDE DEF Patterns, Seconds, Amount, Autonomy, p
      <4> QED BY <1>1, Zenon DEF RemitRow
    <3> QED BY <1>1, <3>1
  <2>2. ASSUME NEW j \in 1..Len(remits)
        PROVE  /\ SameRights(remits[j], base[j]) /\ base[j].parent = remits[j].parent
               /\ base[j].run = remits[j].run /\ base[j].ancestors = remits[j].ancestors
               /\ base[j].iat = remits[j].iat
               /\ remits[j].bound => base[j].bound
    <3>1. CASE j = i
      <4>1. base[j] = [p EXCEPT !.bound = TRUE]
        BY <1>9, <3>1, Zenon
      <4> HIDE DEF base
      <4> QED BY <1>1, <3>1, <4>1 DEF SameRights, RemitRow
    <3>2. CASE j # i
      <4>1. base[j] = remits[j]
        BY <1>9, <3>2, Zenon
      <4> QED BY <4>1 DEF SameRights
    <3> QED BY <3>1, <3>2
  <2> HIDE DEF base
  <2> QED BY <2>1, <2>2 DEF Keeps
<1>11. base[i].bound
  <2>1. base[i] = [p EXCEPT !.bound = TRUE]
    BY <1>9, Zenon
  <2> QED BY <1>1, <2>1 DEF RemitRow
<1>12. \A c \in Calls : c.at >= y.iat => (Permits(y, c) <=> Permits(p, c))
  <2> HIDE DEF x, y, p
  <2> QED BY <1>5, <1>7 DEF SameRights, Permits
<1>13. Fits(y, base)
  <2>1. p.run = 0 /\ ~p.bound
    BY Zenon DEF start_run
  <2> HIDE DEF x, y, base
  <2>2. /\ y \in RemitRow /\ y.parent = i /\ y.ancestors \subseteq 1..Len(remits)
        /\ \A a \in y.ancestors : NoWider(y, remits[a])
    BY <1>7, <1>8, Zenon
  <2>3. y.parent \in 1..Len(remits) /\ y.parent <= Len(remits)
    <3>1. i <= Len(remits)
      BY <1>1
    <3> QED BY <2>2, <3>1, Zenon
  <2> QED BY <1>11, <1>12, <2>1, <2>2, <2>3, Zenon DEF Fits
<1>14. remits' = Append(base, y) /\ deriving' \in SUBSET deriving /\ now' = now
  BY Zenon DEF start_run
<1> HIDE DEF y, base
<1> QED BY <1>10, <1>13, <1>14, AppendPreserves

----------------------------------------------------------------------------
(* What holds of the remits.                                               *)

\* The empty table satisfies the invariant.
LEMMA InitInv ==
    Init => RemitInv
BY RemitAssumption DEF Init, RemitInv, TypeOK, DelegationNarrows, RunKeepsItsRemit, OneRunPerRemit,
                       RunLinks, DerivingNarrows

\* Every operation preserves it.
LEMMA NextInv ==
    RemitInv /\ [Next]_vars => RemitInv'
<1> SUFFICES ASSUME RemitInv, [Next]_vars PROVE RemitInv'
  OBVIOUS
<1>1. ASSUME remits' = remits, deriving' \in SUBSET deriving, now' \in 0..MaxTime PROVE RemitInv'
  <2>1. TypeOK'
    BY <1>1, Zenon DEF RemitInv, TypeOK
  <2>2. DelegationNarrows' /\ RunKeepsItsRemit' /\ OneRunPerRemit' /\ RunLinks'
    BY <1>1, SameTable, Zenon DEF RemitInv
  <2>3. DerivingNarrows'
    BY <1>1, Zenon DEF RemitInv, DerivingNarrows
  <2> QED BY <2>1, <2>2, <2>3 DEF RemitInv
<1>2. now \in 0..MaxTime
  BY Zenon DEF RemitInv, TypeOK
<1>3. ASSUME NEW q \in IssueRequests, issue_remit(q) PROVE RemitInv'
  BY <1>3, IssuePreserves, Zenon
<1>4. ASSUME NEW i \in 1..Len(remits), NEW q \in DeriveRequests, derive_remit(i, q) PROVE RemitInv'
  BY <1>4, DerivePreserves, Zenon
<1>5. ASSUME NEW r \in deriving, store_remit(r) PROVE RemitInv'
  BY <1>5, StorePreserves, Zenon
<1>6. CASE Restart
  BY <1>1, <1>2, <1>6, Zenon DEF Restart
<1>7. ASSUME NEW i \in 1..Len(remits), NEW required \in Required, NEW at \in 0..now,
             start_run(i, required, at)
      PROVE  RemitInv'
  BY <1>7, StartPreserves, Zenon
<1>8. CASE Tick
  <2>1. now' \in 0..MaxTime
    BY <1>2, <1>8, RemitAssumption DEF Tick
  <2> QED BY <1>1, <1>8, <2>1 DEF Tick
<1>9. CASE UNCHANGED vars
  BY <1>1, <1>2, <1>9, Zenon DEF vars
<1> QED BY <1>3, <1>4, <1>5, <1>6, <1>7, <1>8, <1>9 DEF Next

\* The inductive invariant holds throughout.
LEMMA SpecInv ==
    Spec => []RemitInv
BY InitInv, NextInv, PTL DEF Spec

\* Whatever remits are issued, derived and used, and however the derivations
\* interleave with clock ticks, starts and restarts, no remit permits a call,
\* grant, amount, autonomy or policy set that one above it does not.
THEOREM DelegationNeverWidens ==
    Spec => []DelegationNarrows
<1>1. RemitInv => DelegationNarrows
  BY Zenon DEF RemitInv
<1> QED BY <1>1, SpecInv, PTL

\* A run always works under exactly the rights it was started with.
THEOREM RunsKeepTheirRemit ==
    Spec => []RunKeepsItsRemit
<1>1. RemitInv => RunKeepsItsRemit
  BY Zenon DEF RemitInv
<1> QED BY <1>1, SpecInv, PTL

\* A remit starts at most one run, and a run's own remit none.
THEOREM RemitsStartOneRun ==
    Spec => []OneRunPerRemit
<1>1. RemitInv => OneRunPerRemit
  BY Zenon DEF RemitInv
<1> QED BY <1>1, SpecInv, PTL

----------------------------------------------------------------------------
(* Policy decisions along a chain of remits.                               *)

\* A rule that matches under some names matches under any names that include
\* them, if the contexts differ only in an autonomy the rules do not read.
LEMMA MatchCarries ==
    ASSUME NEW M \in Seq(Policies), NEW N \in Seq(Policies), NEW kind,
           NEW c \in Context, NEW d \in Context,
           d = [c EXCEPT !.autonomy = d.autonomy],
           \A name \in Contents(M) \cap Contents(N) : name \in Neutral,
           NEW x \in Matching(load_policy_set(M), kind, c),
           M[x[1]] \in Contents(N)
    PROVE  Matching(load_policy_set(N), kind, d) # {}
<1>1. /\ x \in Positions(load_policy_set(M))
      /\ RuleAt(load_policy_set(M), x).kind = kind /\ c \in RuleAt(load_policy_set(M), x).when
  BY Zenon DEF Matching, Applies
<1>2. PICK q \in DOMAIN M : x \in {q} \X DOMAIN Sources[M[q]]
  BY <1>1, Zenon DEF Positions, load_policy_set
<1>3. x[1] = q /\ x[2] \in DOMAIN Sources[M[q]] /\ M[q] \in Policies
  BY <1>2
<1>4. PICK k \in DOMAIN N : N[k] = M[q]
  BY <1>3, Zenon DEF Contents
<1> DEFINE rule == Sources[M[q]][x[2]]
           y == <<k, x[2]>>
<1>5. RuleAt(load_policy_set(M), x) = rule
  BY <1>2, <1>3, Zenon DEF RuleAt, load_policy_set
<1>6. RuleAt(load_policy_set(N), y) = rule
  BY <1>4, Zenon DEF RuleAt, load_policy_set
<1>7. y \in Positions(load_policy_set(N))
  BY <1>3, <1>4 DEF Positions, load_policy_set
<1>8. d \in rule.when
  <2>1. M[q] \in Neutral
    BY <1>3, <1>4, Zenon DEF Contents
  <2>2. IgnoresAutonomy(rule)
    BY <1>3, <2>1, Zenon DEF Neutral
  <2>3. d.autonomy \in Autonomy
    BY Zenon DEF Context, Autonomy
  <2>4. [c EXCEPT !.autonomy = d.autonomy] \in rule.when
    BY <1>1, <1>5, <2>2, <2>3, Zenon DEF IgnoresAutonomy
  <2> QED BY <2>4
<1>9. y \in Matching(load_policy_set(N), kind, d)
  BY <1>1, <1>5, <1>6, <1>7, <1>8 DEF Matching, Applies
<1> QED BY <1>9

\* Decide, by the kinds of rules that match.
LEMMA DecideKinds ==
    ASSUME NEW P, NEW c
    PROVE  /\ Matching(P, "deny", c) # {} => Decide(P, c).decision = "deny"
           /\ (Matching(P, "deny", c) = {} /\ Matching(P, "approval", c) # {})
              => Decide(P, c).decision = "approval"
           /\ (Matching(P, "deny", c) = {} /\ Matching(P, "approval", c) = {})
              => Decide(P, c).decision =
                   IF Matching(P, "allow", c) # {} \/ c.autonomy = Autonomous \/ ~c.writes
                   THEN "allow" ELSE "approval"
<1>1. \A kind, x : Verdict(kind, x).decision = kind
  BY Zenon DEF Verdict
<1>2. \A x, a, s, e : Gate(x, a, s, e).decision = "approval"
  BY Zenon DEF Gate
<1>3. \A x : ApprovalBy(P, x, c).decision = "approval"
  BY <1>2, Zenon DEF ApprovalBy
<1>4. default_decision(c).decision =
        IF c.autonomy = Autonomous \/ ~c.writes THEN "allow" ELSE "approval"
  BY <1>1, <1>2, Zenon DEF default_decision
<1> QED BY <1>1, <1>3, <1>4 DEF Decide

\* A step up the chain never denies or asks more than the remit below it.
LEMMA StrictBelow ==
    ASSUME NEW r \in RemitRow, NEW p \in RemitRow, NEW a \in Proposals, NoWider(r, p),
           Contents(p.policy_set) \subseteq Neutral
    PROVE  /\ Decision(p, a) = "deny" => Decision(r, a) = "deny"
           /\ (/\ Contents(r.policy_set) \subseteq Neutral
               /\ Contents(r.policy_set) \ Contents(p.policy_set) \subseteq Restrictive)
              => AsStrict(Decision(r, a), Decision(p, a))
<1> DEFINE c == policy_context(p, a)
           d == policy_context(r, a)
           P == load_policy_set(p.policy_set)
           R == load_policy_set(r.policy_set)
<1>1. p.policy_set \in Seq(Policies) /\ r.policy_set \in Seq(Policies)
  BY Zenon DEF RemitRow
<1>2. c \in Context /\ d \in Context
  BY DelegationAssumption, Zenon DEF policy_context, Context, Proposal, RemitRow, Autonomy
<1>3. d = [c EXCEPT !.autonomy = d.autonomy] /\ c = [d EXCEPT !.autonomy = c.autonomy]
  BY DEF policy_context
<1>4. Contents(p.policy_set) \subseteq Contents(r.policy_set) /\ d.autonomy <= c.autonomy
  BY Zenon DEF NoWider, policy_context
<1>5. d.writes = c.writes /\ c.autonomy \in 0..3 /\ d.autonomy \in 0..3
  BY <1>2, Zenon DEF policy_context, Context
<1>6. Decision(p, a) = Decide(P, c).decision /\ Decision(r, a) = Decide(R, d).decision
  BY Zenon DEF Decision
<1> HIDE DEF c, d
<1>7. ASSUME NEW kind, NEW x \in Matching(P, kind, c)
      PROVE  Matching(R, kind, d) # {}
  <2>1. x \in Positions(P)
    BY Zenon DEF Matching
  <2>2. x[1] \in DOMAIN p.policy_set
    BY <2>1 DEF Positions, load_policy_set
  <2>3. p.policy_set[x[1]] \in Contents(r.policy_set)
    BY <1>4, <2>2, Zenon DEF Contents
  <2>4. \A name \in Contents(p.policy_set) \cap Contents(r.policy_set) : name \in Neutral
    OBVIOUS
  <2> HIDE DEF P, R
  <2>5. x \in Matching(load_policy_set(p.policy_set), kind, c)
    BY Zenon DEF P
  <2>6. Matching(load_policy_set(r.policy_set), kind, d) # {}
    BY <1>1, <1>2, <1>3, <2>3, <2>4, <2>5, MatchCarries, Zenon
  <2> QED BY <2>6 DEF R
<1>8. \A kind : Matching(P, kind, c) # {} => Matching(R, kind, d) # {}
  BY <1>7, Zenon
<1>9. ASSUME Contents(r.policy_set) \subseteq Neutral,
             Contents(r.policy_set) \ Contents(p.policy_set) \subseteq Restrictive,
             NEW x \in Matching(R, "allow", d)
      PROVE  Matching(P, "allow", c) # {}
  <2>1. x \in Positions(R) /\ RuleAt(R, x).kind = "allow"
    BY Zenon DEF Matching, Applies
  <2>2. PICK q \in DOMAIN r.policy_set : x \in {q} \X DOMAIN Sources[r.policy_set[q]]
    BY <2>1, Zenon DEF Positions, load_policy_set
  <2>3. x[1] = q /\ x[2] \in DOMAIN Sources[r.policy_set[q]] /\ r.policy_set[q] \in Contents(r.policy_set)
    BY <2>2, Zenon DEF Contents
  <2>4. RuleAt(R, x) = Sources[r.policy_set[q]][x[2]]
    BY <2>3, Zenon DEF RuleAt, load_policy_set
  <2>5. r.policy_set[q] \notin Restrictive
    BY <2>1, <2>3, <2>4, Zenon DEF Restrictive
  <2>6. r.policy_set[x[1]] \in Contents(p.policy_set)
    BY <1>9, <2>3, <2>5, Zenon
  <2>7. \A name \in Contents(r.policy_set) \cap Contents(p.policy_set) : name \in Neutral
    OBVIOUS
  <2> HIDE DEF P, R
  <2>8. x \in Matching(load_policy_set(r.policy_set), "allow", d)
    BY Zenon DEF R
  <2>9. Matching(load_policy_set(p.policy_set), "allow", c) # {}
    BY <1>1, <1>2, <1>3, <2>6, <2>7, <2>8, MatchCarries, Zenon
  <2> QED BY <2>9 DEF P
<1> HIDE DEF P, R
<1>10. Decision(p, a) = "deny" => Decision(r, a) = "deny"
  BY <1>6, <1>8, DecideKinds, Zenon
<1>11. ASSUME Contents(r.policy_set) \subseteq Neutral,
              Contents(r.policy_set) \ Contents(p.policy_set) \subseteq Restrictive
       PROVE  AsStrict(Decision(r, a), Decision(p, a))
  <2>1. Matching(R, "allow", d) # {} => Matching(P, "allow", c) # {}
    BY <1>9, <1>11, Zenon
  <2>2. d.autonomy = Autonomous => c.autonomy = Autonomous
    BY <1>4, <1>5 DEF Autonomous
  <2>3. CASE Matching(R, "deny", d) # {}
    BY <1>6, <2>3, DecideKinds, Zenon DEF AsStrict
  <2>4. CASE Matching(R, "deny", d) = {} /\ Matching(R, "approval", d) # {}
    <3>1. Matching(P, "deny", c) = {}
      BY <1>8, <2>4
    <3>2. Decision(r, a) = "approval" /\ Decision(p, a) # "deny"
      BY <1>6, <2>4, <3>1, DecideKinds, Zenon
    <3> QED BY <3>2 DEF AsStrict
  <2>5. CASE Matching(R, "deny", d) = {} /\ Matching(R, "approval", d) = {}
    <3>1. Matching(P, "deny", c) = {} /\ Matching(P, "approval", c) = {}
      BY <1>8, <2>5, Zenon
    <3>2. Decision(p, a) = IF Matching(P, "allow", c) # {} \/ c.autonomy = Autonomous \/ ~c.writes
                           THEN "allow" ELSE "approval"
      BY <1>6, <3>1, DecideKinds, Zenon
    <3>3. Decision(r, a) = IF Matching(R, "allow", d) # {} \/ d.autonomy = Autonomous \/ ~d.writes
                           THEN "allow" ELSE "approval"
      BY <1>6, <2>5, DecideKinds, Zenon
    <3>4. Decision(r, a) = "allow" => Decision(p, a) = "allow"
      BY <1>5, <2>1, <2>2, <3>2, <3>3
    <3>5. Decision(r, a) \in {"allow", "approval"} /\ Decision(p, a) # "deny"
      BY <3>2, <3>3, Zenon
    <3> QED BY <3>4, <3>5 DEF AsStrict
  <2> QED BY <2>3, <2>4, <2>5
<1> QED BY <1>10, <1>11

\* The remits of a chain are rows that narrow.
LEMMA ChainFacts ==
    ASSUME TypeOK, DelegationNarrows, NEW i \in 1..Len(remits), NEW p \in remits[i].ancestors
    PROVE  remits[i] \in RemitRow /\ remits[p] \in RemitRow /\ NoWider(remits[i], remits[p])
<1>1. remits \in Seq(RemitRow) /\ p \in 1..(i - 1)
  BY Zenon DEF TypeOK
<1>2. p \in 1..Len(remits)
  BY <1>1
<1> QED BY <1>1, <1>2 DEF DelegationNarrows

\* What narrowing gives for the decisions, in one state.
LEMMA DecisionsNarrow ==
    TypeOK /\ DelegationNarrows => DenialsSurvive /\ GatesSurvive
<1> SUFFICES ASSUME TypeOK, DelegationNarrows PROVE DenialsSurvive /\ GatesSurvive
  OBVIOUS
<1>1. ASSUME NEW i \in 1..Len(remits), NEW p \in remits[i].ancestors, NEW a \in Proposals,
             Contents(remits[p].policy_set) \subseteq Neutral, Decision(remits[p], a) = "deny"
      PROVE  Decision(remits[i], a) = "deny"
  BY <1>1, ChainFacts, StrictBelow, Zenon
<1>2. ASSUME NEW i \in 1..Len(remits), NEW p \in remits[i].ancestors, NEW a \in Proposals,
             Contents(remits[i].policy_set) \subseteq Neutral,
             Contents(remits[i].policy_set) \ Contents(remits[p].policy_set) \subseteq Restrictive
      PROVE  AsStrict(Decision(remits[i], a), Decision(remits[p], a))
  <2>1. remits[i] \in RemitRow /\ remits[p] \in RemitRow /\ NoWider(remits[i], remits[p])
    BY ChainFacts, Zenon
  <2>2. Contents(remits[p].policy_set) \subseteq Neutral
    BY <1>2, <2>1, Zenon DEF NoWider
  <2> QED BY <1>2, <2>1, <2>2, StrictBelow
<1> QED BY <1>1, <1>2, Zenon DEF DenialsSurvive, GatesSurvive

\* A denial holds for every remit derived from the one it was made for, and so
\* does a gate when the added policies allow nothing, for every set of
\* policies, remits and requests.
THEOREM DecisionsSurviveDelegation ==
    Spec => []DecisionsSurvive
<1>1. RemitInv => TypeOK /\ DelegationNarrows
  BY Zenon DEF RemitInv
<1>2. RemitInv => DecisionsSurvive
  BY <1>1, DecisionsNarrow, Zenon DEF DecisionsSurvive
<1> QED BY <1>2, SpecInv, PTL

----------------------------------------------------------------------------
(* The loop of `evaluate`: positions are ordered like the concatenation of *)
(* the policies.                                                           *)

\* A position is a pair of positive numbers within the policies.
LEMMA PositionType ==
    ASSUME NEW P \in Seq(Seq(Rule)), NEW x \in Positions(P)
    PROVE  /\ x = <<x[1], x[2]>>
           /\ x[1] \in 1..Len(P) /\ x[2] \in 1..Len(P[x[1]])
           /\ x[1] \in Nat \ {0} /\ x[2] \in Nat \ {0}
<1>1. PICK p \in DOMAIN P : x \in {p} \X DOMAIN P[p]
  BY Zenon DEF Positions
<1>2. x = <<x[1], x[2]>> /\ x[1] = p /\ x[2] \in DOMAIN P[p]
  BY <1>1
<1>3. DOMAIN P = 1..Len(P) /\ P[p] \in Seq(Rule)
  BY <1>1
<1>4. DOMAIN P[p] = 1..Len(P[p]) /\ Len(P) \in Nat /\ Len(P[p]) \in Nat
  BY <1>3
<1> QED BY <1>1, <1>2, <1>3, <1>4

\* Any pair of indices within the policies is a position.
LEMMA IsPosition ==
    ASSUME NEW P \in Seq(Seq(Rule)), NEW p \in 1..Len(P), NEW r \in 1..Len(P[p])
    PROVE  <<p, r>> \in Positions(P)
<1>1. p \in DOMAIN P /\ P[p] \in Seq(Rule)
  OBVIOUS
<1>2. DOMAIN P[p] = 1..Len(P[p])
  BY <1>1
<1>3. r \in DOMAIN P[p]
  BY <1>2, Zenon
<1> QED BY <1>1, <1>3 DEF Positions

\* Of two different positions one comes before the other.
LEMMA BeforeTotal ==
    ASSUME NEW a \in Nat, NEW b \in Nat, NEW c \in Nat, NEW d \in Nat
    PROVE  <<a, b>> = <<c, d>> \/ Before(<<a, b>>, <<c, d>>) \/ Before(<<c, d>>, <<a, b>>)
BY DEF Before

\* Never both ways.
LEMMA BeforeAsymmetric ==
    ASSUME NEW a \in Nat, NEW b \in Nat, NEW c \in Nat, NEW d \in Nat,
           Before(<<a, b>>, <<c, d>>)
    PROVE  ~Before(<<c, d>>, <<a, b>>) /\ <<a, b>> # <<c, d>>
BY DEF Before

\* First(S) is the member that comes before all the others.
LEMMA FirstIs ==
    ASSUME NEW P \in Seq(Seq(Rule)), NEW S \in SUBSET Positions(P), NEW x \in S,
           \A y \in S : y = x \/ Before(x, y)
    PROVE  First(S) = x
<1> DEFINE f == First(S)
<1>1. f \in S /\ \A y \in S : y = f \/ Before(f, y)
  BY Zenon DEF First
<1>2. x = f \/ (Before(f, x) /\ Before(x, f))
  BY <1>1, Zenon
<1>3. f = <<f[1], f[2]>> /\ x = <<x[1], x[2]>>
  BY <1>1, PositionType, Zenon
<1>4. f[1] \in Nat /\ f[2] \in Nat /\ x[1] \in Nat /\ x[2] \in Nat
  BY <1>1, PositionType, Zenon
<1>5. ~(Before(f, x) /\ Before(x, f))
  BY <1>4 DEF Before
<1> QED BY <1>2, <1>5

\* Moving the cursor past a rule adds exactly that rule to those scanned.
LEMMA ScanRule ==
    ASSUME NEW P \in Seq(Seq(Rule)), NEW p \in Nat, NEW r \in Nat, NEW x \in Positions(P)
    PROVE  Before(x, <<p, r + 1>>) <=> (Before(x, <<p, r>>) \/ x = <<p, r>>)
<1>1. x = <<x[1], x[2]>> /\ x[1] \in Nat /\ x[2] \in Nat
  BY PositionType, Zenon
<1>2. x = <<p, r>> <=> x[1] = p /\ x[2] = r
  BY <1>1
<1>3. PICK m, n : m = x[1] /\ n = x[2] /\ m \in Nat /\ n \in Nat
  BY <1>1, Zenon
<1>4. (m < p \/ (m = p /\ n < r + 1)) <=> (m < p \/ (m = p /\ n < r) \/ (m = p /\ n = r))
  BY <1>3
<1>5. /\ Before(x, <<p, r + 1>>) <=> (m < p \/ (m = p /\ n < r + 1))
      /\ Before(x, <<p, r>>) <=> (m < p \/ (m = p /\ n < r))
  BY <1>3, Zenon DEF Before
<1> QED BY <1>2, <1>3, <1>4, <1>5, Zenon

\* Moving it from the end of a policy to the next one adds none.
LEMMA ScanPolicy ==
    ASSUME NEW P \in Seq(Seq(Rule)), NEW p \in 1..Len(P), NEW r \in Nat, r > Len(P[p]),
           NEW x \in Positions(P)
    PROVE  Before(x, <<p + 1, 1>>) <=> Before(x, <<p, r>>)
<1>1. x[1] \in Nat /\ x[2] \in Nat \ {0} /\ x[2] \in 1..Len(P[x[1]])
  BY PositionType, Zenon
<1>2. P[p] \in Seq(Rule)
  OBVIOUS
<1>3. Len(P[p]) \in Nat
  BY <1>2
<1>4. x[1] = p => x[2] < r
  BY <1>1, <1>3
<1>5. p \in Nat
  OBVIOUS
<1>6. PICK m, n : m = x[1] /\ n = x[2] /\ m \in Nat /\ n \in Nat \ {0}
  BY <1>1, Zenon
<1>7. (m < p + 1 \/ (m = p + 1 /\ n < 1)) <=> (m < p \/ (m = p /\ n < r))
  BY <1>4, <1>5, <1>6
<1>8. /\ Before(x, <<p + 1, 1>>) <=> (m < p + 1 \/ (m = p + 1 /\ n < 1))
      /\ Before(x, <<p, r>>) <=> (m < p \/ (m = p /\ n < r))
  BY <1>6, Zenon DEF Before
<1> QED BY <1>7, <1>8, Zenon

----------------------------------------------------------------------------
(* The loop invariant.                                                     *)

\* f is the first matching rule of a kind among those before position c.
Remembers(f, kind, P, ctx, c) ==
    LET M == Matching(P, kind, ctx)
    IN  \/ f = NoRule /\ \A x \in M : ~Before(x, c)
        \/ /\ f \in M /\ Before(f, c)
           /\ \A x \in M : Before(x, c) => (x = f \/ Before(f, x))

LoopInv ==
    /\ policies \in Seq(Seq(Rule))
    /\ policy_index \in Nat \ {0} /\ rule_index \in Nat \ {0}
    /\ returned \in BOOLEAN
    /\ ~returned =>
          /\ \A x \in Matching(policies, "deny", context) : ~Before(x, cursor)
          /\ Remembers(first_approval, "approval", policies, context, cursor)
          /\ Remembers(first_allow, "allow", policies, context, cursor)
    /\ LoopDecides

\* Passing a rule keeps what is remembered, and adds the rule if it is the
\* first match of the kind.
LEMMA RememberStep ==
    ASSUME NEW P \in Seq(Seq(Rule)), NEW ctx, NEW p \in 1..Len(P), NEW r \in 1..Len(P[p]),
           NEW f, NEW g, NEW kind, Remembers(f, kind, P, ctx, <<p, r>>),
           g = IF Applies(P, <<p, r>>, kind, ctx) /\ f = NoRule THEN <<p, r>> ELSE f
    PROVE  Remembers(g, kind, P, ctx, <<p, r + 1>>)
<1> DEFINE M == Matching(P, kind, ctx)
           c == <<p, r>>
           d == <<p, r + 1>>
<1>1. p \in Nat /\ r \in Nat
  <2>1. P[p] \in Seq(Rule)
    OBVIOUS
  <2> QED BY <2>1
<1>2. c \in Positions(P)
  BY IsPosition, Zenon
<1>3. c \in M <=> Applies(P, c, kind, ctx)
  BY <1>2, Zenon DEF Matching
<1>4. \A x \in M : x \in Positions(P)
  BY Zenon DEF Matching
<1>5. \A x \in M : Before(x, d) <=> (Before(x, c) \/ x = c)
  BY <1>1, <1>4, ScanRule, Zenon
<1>6. NoRule \notin M
  <2>1. NoRule[1] = 0
    BY Zenon DEF NoRule
  <2> QED BY <1>4, <2>1, PositionType
<1>7. Before(c, d)
  BY <1>1 DEF Before
<1>8. \/ f = NoRule /\ \A x \in M : ~Before(x, c)
      \/ f \in M /\ Before(f, c) /\ \A x \in M : Before(x, c) => (x = f \/ Before(f, x))
  BY Zenon DEF Remembers
<1>9. g = IF c \in M /\ f = NoRule THEN c ELSE f
  BY <1>3, Zenon
<1> SUFFICES \/ g = NoRule /\ \A x \in M : ~Before(x, d)
             \/ g \in M /\ Before(g, d) /\ \A x \in M : Before(x, d) => (x = g \/ Before(g, x))
  BY Zenon DEF Remembers
<1> HIDE DEF M, c, d
<1>10. CASE f = NoRule
  BY <1>5, <1>6, <1>7, <1>8, <1>9, <1>10, Zenon
<1>11. CASE f # NoRule
  BY <1>5, <1>8, <1>9, <1>11, Zenon
<1> QED BY <1>10, <1>11, Zenon

\* Going on to the next policy keeps what is remembered.
LEMMA RememberPolicy ==
    ASSUME NEW P \in Seq(Seq(Rule)), NEW ctx, NEW p \in 1..Len(P), NEW r \in Nat, r > Len(P[p]),
           NEW f, NEW kind, Remembers(f, kind, P, ctx, <<p, r>>)
    PROVE  Remembers(f, kind, P, ctx, <<p + 1, 1>>)
<1> DEFINE M == Matching(P, kind, ctx)
<1>1. \A x \in M : x \in Positions(P)
  BY Zenon DEF Matching
<1>2. \A x \in M : Before(x, <<p + 1, 1>>) <=> Before(x, <<p, r>>)
  BY <1>1, ScanPolicy, Zenon
<1>3. \/ f = NoRule /\ \A x \in M : ~Before(x, <<p, r>>)
      \/ /\ f \in M /\ Before(f, <<p, r>>)
         /\ \A x \in M : Before(x, <<p, r>>) => (x = f \/ Before(f, x))
  BY Zenon DEF Remembers
<1> SUFFICES \/ f = NoRule /\ \A x \in M : ~Before(x, <<p + 1, 1>>)
             \/ /\ f \in M /\ Before(f, <<p + 1, 1>>)
                /\ \A x \in M : Before(x, <<p + 1, 1>>) => (x = f \/ Before(f, x))
  BY Zenon DEF Remembers
<1> HIDE DEF M
<1> QED BY <1>2, <1>3, Zenon

\* f is the first position of M, or none when M is empty.
IsFirst(f, M) ==
    /\ f = NoRule => M = {}
    /\ f # NoRule => M # {} /\ First(M) = f

\* Once every policy is passed, what is remembered is the first match of all.
LEMMA RememberAll ==
    ASSUME NEW P \in Seq(Seq(Rule)), NEW ctx, NEW c, \A x \in Positions(P) : Before(x, c),
           NEW f, NEW kind, Remembers(f, kind, P, ctx, c)
    PROVE  IsFirst(f, Matching(P, kind, ctx))
<1> DEFINE M == Matching(P, kind, ctx)
<1>1. M \in SUBSET Positions(P)
  BY Zenon DEF Matching
<1>2. \A x \in M : Before(x, c)
  BY <1>1, Zenon
<1>3. \/ f = NoRule /\ \A x \in M : ~Before(x, c)
      \/ /\ f \in M /\ Before(f, c)
         /\ \A x \in M : Before(x, c) => (x = f \/ Before(f, x))
  BY Zenon DEF Remembers
<1>4. NoRule \notin M
  <2>1. NoRule[1] = 0
    BY Zenon DEF NoRule
  <2> QED BY <1>1, <2>1, PositionType
<1> HIDE DEF M
<1>5. CASE f = NoRule
  <2>1. M = {}
    BY <1>2, <1>3, <1>4, <1>5, Zenon
  <2> QED BY <1>5, <2>1 DEF M, IsFirst
<1>6. CASE f # NoRule
  <2>1. f \in M /\ \A x \in M : x = f \/ Before(f, x)
    BY <1>2, <1>3, <1>6, Zenon
  <2>2. First(M) = f
    BY <1>1, <2>1, FirstIs, Zenon
  <2> QED BY <1>6, <2>1, <2>2 DEF M, IsFirst
<1> QED BY <1>5, <1>6

----------------------------------------------------------------------------
(* The steps of the loop.                                                  *)

\* The facts about the cursor that hold at every rule.
LEMMA AtRuleFacts ==
    ASSUME LoopInv, AtRule
    PROVE  /\ policies \in Seq(Seq(Rule)) /\ ~returned
           /\ policy_index \in 1..Len(policies)
           /\ rule_index \in 1..Len(policies[policy_index])
           /\ rule_index + 1 \in Nat \ {0}
<1>1. policies \in Seq(Seq(Rule)) /\ policy_index \in 1..Len(policies) /\ ~returned
  BY DEF LoopInv, AtRule, Scanning
<1>2. policies[policy_index] \in Seq(Rule)
  BY <1>1
<1>3. Len(policies[policy_index]) \in Nat
  BY <1>2
<1> QED BY <1>1, <1>3 DEF LoopInv, AtRule

\* A step that passes a rule which is no matching deny, and updates what is
\* remembered, preserves the invariant.
LEMMA AdvancePreserves ==
    ASSUME LoopInv, AtRule, Advance, UNCHANGED args, UNCHANGED <<returned, decision>>,
           ~Applies(policies, cursor, "deny", context),
           first_approval' = IF Applies(policies, cursor, "approval", context) /\ first_approval = NoRule
                             THEN cursor ELSE first_approval,
           first_allow' = IF Applies(policies, cursor, "allow", context) /\ first_allow = NoRule
                          THEN cursor ELSE first_allow
    PROVE  LoopInv'
<1> DEFINE p == policy_index
           r == rule_index
<1>1. /\ policies \in Seq(Seq(Rule)) /\ ~returned /\ p \in 1..Len(policies)
      /\ r \in 1..Len(policies[p]) /\ r + 1 \in Nat \ {0}
  BY AtRuleFacts, Zenon
<1>2. /\ policies' = policies /\ context' = context /\ returned' = returned
      /\ cursor = <<p, r>> /\ cursor' = <<p, r + 1>>
      /\ policy_index' = p /\ rule_index' = r + 1
  BY Zenon DEF args, cursor, Advance
<1>3. Remembers(first_approval', "approval", policies, context, <<p, r + 1>>)
  <2>1. Remembers(first_approval, "approval", policies, context, <<p, r>>)
    BY <1>1, <1>2, Zenon DEF LoopInv
  <2> QED BY <1>1, <1>2, <2>1, RememberStep
<1>4. Remembers(first_allow', "allow", policies, context, <<p, r + 1>>)
  <2>1. Remembers(first_allow, "allow", policies, context, <<p, r>>)
    BY <1>1, <1>2, Zenon DEF LoopInv
  <2> QED BY <1>1, <1>2, <2>1, RememberStep
<1>5. ASSUME NEW x \in Matching(policies, "deny", context) PROVE ~Before(x, <<p, r + 1>>)
  <2>1. x \in Positions(policies) /\ Applies(policies, x, "deny", context)
    BY Zenon DEF Matching
  <2>2. ~Before(x, <<p, r>>) /\ x # <<p, r>>
    BY <1>1, <1>2, <2>1, Zenon DEF LoopInv
  <2>3. p \in Nat /\ r \in Nat
    BY Zenon DEF LoopInv
  <2> QED BY <1>1, <2>1, <2>2, <2>3, ScanRule
<1>6. \A x \in Matching(policies', "deny", context') : ~Before(x, cursor')
  BY <1>2, <1>5, Zenon
<1>7. /\ Remembers(first_approval', "approval", policies', context', cursor')
      /\ Remembers(first_allow', "allow", policies', context', cursor')
  BY <1>2, <1>3, <1>4, Zenon
<1>8. policies' \in Seq(Seq(Rule)) /\ policy_index' \in Nat \ {0} /\ rule_index' \in Nat \ {0}
  BY <1>1, <1>2, Zenon DEF LoopInv
<1>9. returned' \in BOOLEAN /\ LoopDecides'
  BY <1>1, <1>2 DEF LoopInv, LoopDecides
<1> QED BY <1>6, <1>7, <1>8, <1>9 DEF LoopInv

\* Returning at a matching deny returns the first of them.
LEMMA DenyPreserves ==
    ASSUME LoopInv, Deny
    PROVE  LoopInv'
<1> DEFINE D == Matching(policies, "deny", context)
           c == <<policy_index, rule_index>>
<1>1. /\ policies \in Seq(Seq(Rule)) /\ ~returned /\ policy_index \in 1..Len(policies)
      /\ rule_index \in 1..Len(policies[policy_index])
  BY AtRuleFacts, Zenon DEF Deny
<1>2. cursor = c /\ c \in D
  BY <1>1, IsPosition, Zenon DEF cursor, Deny, Matching
<1>3. D \in SUBSET Positions(policies)
  BY Zenon DEF Matching
<1>4. ASSUME NEW y \in D PROVE y = c \/ Before(c, y)
  <2>1. ~Before(y, c)
    BY <1>1, <1>2, Zenon DEF LoopInv
  <2>2. y = <<y[1], y[2]>> /\ y[1] \in Nat /\ y[2] \in Nat
    BY <1>1, <1>3, PositionType, Zenon
  <2>3. policy_index \in Nat /\ rule_index \in Nat
    BY Zenon DEF LoopInv
  <2>4. <<y[1], y[2]>> = c \/ Before(<<y[1], y[2]>>, c) \/ Before(c, <<y[1], y[2]>>)
    BY <2>2, <2>3, BeforeTotal, Zenon
  <2> QED BY <2>1, <2>2, <2>4
<1>5. First(D) = c
  BY <1>1, <1>2, <1>3, <1>4, FirstIs, Zenon
<1>6. decision' = Decide(policies, context)
  BY <1>2, <1>5, Zenon DEF Deny, Return, Decide
<1>7. /\ policies' = policies /\ context' = context /\ returned' = TRUE
      /\ policy_index' = policy_index /\ rule_index' = rule_index
  BY Zenon DEF Deny, Return, args, cursor
<1> QED BY <1>6, <1>7 DEF LoopInv, LoopDecides

\* Going on to the next policy preserves the invariant.
LEMMA NextPolicyPreserves ==
    ASSUME LoopInv, NextPolicy
    PROVE  LoopInv'
<1> DEFINE p == policy_index
           r == rule_index
<1>1. /\ policies \in Seq(Seq(Rule)) /\ ~returned /\ p \in 1..Len(policies) /\ r \in Nat
      /\ p + 1 \in Nat \ {0} /\ r > Len(policies[p])
  BY DEF LoopInv, NextPolicy, Scanning
<1>2. /\ policies' = policies /\ context' = context /\ returned' = returned
      /\ first_approval' = first_approval /\ first_allow' = first_allow
      /\ cursor = <<p, r>> /\ cursor' = <<p + 1, 1>>
      /\ policy_index' = p + 1 /\ rule_index' = 1
  BY Zenon DEF args, cursor, seen, NextPolicy
<1>3. /\ Remembers(first_approval, "approval", policies, context, <<p + 1, 1>>)
      /\ Remembers(first_allow, "allow", policies, context, <<p + 1, 1>>)
  BY <1>1, <1>2, RememberPolicy, Zenon DEF LoopInv
<1>4. ASSUME NEW x \in Matching(policies, "deny", context) PROVE ~Before(x, <<p + 1, 1>>)
  <2>1. x \in Positions(policies) /\ ~Before(x, <<p, r>>)
    <3>1. x \in Positions(policies)
      BY Zenon DEF Matching
    <3>2. ~Before(x, cursor)
      BY <1>1, Zenon DEF LoopInv
    <3> QED BY <1>2, <3>1, <3>2, Zenon
  <2> QED BY <1>1, <2>1, ScanPolicy
<1>5. \A x \in Matching(policies', "deny", context') : ~Before(x, cursor')
  BY <1>2, <1>4, Zenon
<1>6. /\ Remembers(first_approval', "approval", policies', context', cursor')
      /\ Remembers(first_allow', "allow", policies', context', cursor')
  BY <1>2, <1>3, Zenon
<1>7. policies' \in Seq(Seq(Rule)) /\ policy_index' \in Nat \ {0} /\ rule_index' \in Nat \ {0}
  BY <1>1, <1>2
<1>8. returned' \in BOOLEAN /\ LoopDecides'
  BY <1>1, <1>2, Zenon DEF LoopInv, LoopDecides
<1> QED BY <1>5, <1>6, <1>7, <1>8, Zenon DEF LoopInv

\* The decision made after the last rule is the one Decide makes.
LEMMA FinishPreserves ==
    ASSUME LoopInv, Finish
    PROVE  LoopInv'
<1>1. /\ policies \in Seq(Seq(Rule)) /\ ~returned /\ policy_index \in Nat /\ policy_index > Len(policies)
      /\ cursor = <<policy_index, rule_index>>
  BY Zenon DEF LoopInv, Finish, cursor
<1>0. ASSUME NEW x \in Positions(policies) PROVE Before(x, cursor)
  <2>1. x[1] \in 1..Len(policies) /\ Len(policies) \in Nat
    BY <1>1, PositionType
  <2> QED BY <1>1, <2>1 DEF Before
<1>2. Matching(policies, "deny", context) = {}
  <2>1. ASSUME NEW x \in Matching(policies, "deny", context) PROVE FALSE
    <3>1. x \in Positions(policies) /\ ~Before(x, cursor)
      BY <1>1, Zenon DEF Matching, LoopInv
    <3> QED BY <1>0, <3>1
  <2> QED BY <2>1
<1>3. IsFirst(first_approval, Matching(policies, "approval", context))
  <2>1. Remembers(first_approval, "approval", policies, context, cursor)
    BY <1>1, Zenon DEF LoopInv
  <2> QED BY <1>1, <1>0, <2>1, RememberAll
<1>4. IsFirst(first_allow, Matching(policies, "allow", context))
  <2>1. Remembers(first_allow, "allow", policies, context, cursor)
    BY <1>1, Zenon DEF LoopInv
  <2> QED BY <1>1, <1>0, <2>1, RememberAll
<1>5. decision' = Decide(policies, context)
  BY <1>2, <1>3, <1>4, Zenon DEF Finish, Return, Decide, IsFirst
<1>6. /\ policies' = policies /\ context' = context /\ returned' = TRUE
      /\ policy_index' = policy_index /\ rule_index' = rule_index
  BY Zenon DEF Finish, Return, args, cursor
<1> QED BY <1>5, <1>6 DEF LoopInv, LoopDecides

\* Before the first rule nothing is remembered.
LEMMA InitLoop ==
    LoopInit => LoopInv
<1> SUFFICES ASSUME LoopInit PROVE LoopInv
  OBVIOUS
<1>1. policies \in Seq(Seq(Rule)) /\ cursor = <<1, 1>>
  BY EvaluateAssumption, Zenon DEF LoopInit, cursor
<1>2. ASSUME NEW x \in Positions(policies) PROVE ~Before(x, <<1, 1>>)
  BY <1>1, PositionType DEF Before
<1>3. \A kind : \A x \in Matching(policies, kind, context) : ~Before(x, <<1, 1>>)
  BY <1>2, Zenon DEF Matching
<1>4. \A kind : Remembers(NoRule, kind, policies, context, <<1, 1>>)
  BY <1>3, Zenon DEF Remembers
<1>5. /\ Remembers(first_approval, "approval", policies, context, cursor)
      /\ Remembers(first_allow, "allow", policies, context, cursor)
  BY <1>1, <1>4, Zenon DEF LoopInit
<1>6. \A x \in Matching(policies, "deny", context) : ~Before(x, cursor)
  BY <1>1, <1>3, Zenon
<1>7. policy_index \in Nat \ {0} /\ rule_index \in Nat \ {0}
  BY DEF LoopInit
<1>8. returned \in BOOLEAN /\ LoopDecides
  BY Zenon DEF LoopInit, LoopDecides
<1> QED BY <1>1, <1>5, <1>6, <1>7, <1>8 DEF LoopInv

\* Every step of the loop preserves the invariant.
LEMMA NextLoop ==
    LoopInv /\ [LoopNext]_loopVars => LoopInv'
<1> SUFFICES ASSUME LoopInv, [LoopNext]_loopVars PROVE LoopInv'
  OBVIOUS
<1>1. CASE Skip
  BY <1>1, AdvancePreserves, Zenon DEF Skip, Applies, seen
<1>2. CASE Deny
  BY <1>2, DenyPreserves, Zenon
<1>3. CASE RequireApproval
  BY <1>3, AdvancePreserves, Zenon DEF RequireApproval, Applies
<1>4. CASE Allow
  BY <1>4, AdvancePreserves, Zenon DEF Allow, Applies
<1>5. CASE NextPolicy
  BY <1>5, NextPolicyPreserves, Zenon
<1>6. CASE Finish
  BY <1>6, FinishPreserves, Zenon
<1>7. CASE UNCHANGED loopVars
  BY <1>7, Zenon DEF loopVars, LoopInv, LoopDecides, cursor
<1> QED BY <1>1, <1>2, <1>3, <1>4, <1>5, <1>6, <1>7 DEF LoopNext

\* Whatever the policies and the context, the loop of `evaluate` returns the
\* decision of the first deny, else the first approval, else the first allow
\* of the concatenated rules, else the default.
THEOREM EvaluateIsDecide ==
    LoopSpec => []LoopDecides
<1>1. LoopInv => LoopDecides
  BY Zenon DEF LoopInv
<1> QED BY <1>1, InitLoop, NextLoop, PTL DEF LoopSpec
=============================================================================
