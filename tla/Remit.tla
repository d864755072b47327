------------------------------- MODULE Remit -------------------------------
(***************************************************************************)
(* Remits: the signed, expiring permissions a run works under.             *)
(* crates/kernos-core/src/remit.rs (patterns and narrowing), the remit     *)
(* operations of kernel.rs and the remits table of store.rs, with the      *)
(* checks the gateway makes of a token on a tool call                      *)
(* (gateway/internal/remit/remit.go).                                      *)
(*                                                                         *)
(* A remit is never changed once stored, except that starting a run marks  *)
(* it as used.  Its id is its position in the table.  issue_remit and      *)
(* start_run take the store's lock once; derive_remit takes it twice, to   *)
(* read the parent and later to insert the child, so a derivation between  *)
(* the two is a member of `deriving`.  Signatures, key ids and timestamps  *)
(* that are only displayed are left out (a token carries its payload), and *)
(* so is requested_by, which is passed on and never compared.              *)
(***************************************************************************)
EXTENDS Integers, Sequences, FiniteSets

CONSTANTS Chars,           \* the characters of tool ids and scopes
          Grants,          \* names of granted resources
          Dims,            \* what is budgeted: tokens, currency
          Policies,        \* names of policies
          Calls,           \* the tool calls a worker may make
          IssueRequests,   \* bodies of POST /v1/remits
          DeriveRequests,  \* bodies of POST /v1/remits/{id}/derive
          Required,        \* what `policies` of a bundle may list: sets of policies
          Absent,          \* an omitted field of a request
          MaxTime,         \* i64::MAX; the clock stops at half of it
          MaxWait,         \* bound: how long start_run waits for the store's lock
          MaxRemits,       \* bound: number of remits ever stored
          MaxDeriving      \* bound: derivations under way at once

Unlimited == -1
Amount == Nat \cup {Unlimited}
Words == Seq(Chars)

\* A pattern is a literal id or, with `glob`, a prefix followed by "*".
Patterns == [body: Words, glob: BOOLEAN]

\* observe, propose, supervised, autonomous.
Autonomy == 0..3
Supervised == 2

\* i64 values, and the u64 a request gives as ttl_seconds.
Seconds == (-MaxTime - 1)..MaxTime
Ttl == 0..(2 * MaxTime + 1)

Call == [tool: Words, scopes: SUBSET Words, writes: BOOLEAN, at: Seconds]

\* parent = 0 and run = 0 are None; a run is named by its remit's position.
\* `ancestors` is a history variable: every remit above this one.
RemitRow ==
    [parent: Nat, run: Nat, bound: BOOLEAN, iat: Seconds, nbf: Seconds, exp: Seconds,
     tools: SUBSET Patterns, scopes: SUBSET Patterns, grants: SUBSET Grants,
     spend: [Dims -> Amount], autonomy: Autonomy, policy_set: Seq(Policies),
     ancestors: SUBSET Nat]

IssueRequest ==
    [tools: SUBSET Patterns, scopes: SUBSET Patterns, grants: SUBSET Grants,
     spend: [Dims -> Amount], autonomy: Autonomy, policy_set: Seq(Policies), ttl: Ttl]

\* spend is absent as a whole, or Unlimited (None) in a dimension.
DeriveRequest ==
    [tools: (SUBSET Patterns) \cup {Absent}, scopes: (SUBSET Patterns) \cup {Absent},
     grants: (SUBSET Grants) \cup {Absent}, spend: [Dims -> Amount] \cup {Absent},
     autonomy: Autonomy \cup {Absent}, policy_set: Seq(Policies) \cup {Absent},
     ttl: Ttl \cup {Absent}]

ASSUME RemitAssumption ==
    /\ MaxTime \in Nat /\ MaxWait \in Nat /\ MaxRemits \in Nat /\ MaxDeriving \in Nat
    /\ \A c \in Calls : c \in Call
    /\ \A q \in IssueRequests : q \in IssueRequest
    /\ \A q \in DeriveRequests : q \in DeriveRequest
    /\ Required \subseteq SUBSET Policies

VARIABLES now,       \* the clock, in seconds
          remits,    \* the remits table
          deriving   \* children computed by derive_remit and not yet inserted

vars == <<now, remits, deriving>>

----------------------------------------------------------------------------
(* Patterns.                                                               *)

starts_with(word, prefix) ==
    /\ Len(prefix) <= Len(word)
    /\ \A i \in 1..Len(prefix) : word[i] = prefix[i]

pattern_matches(pattern, word) ==
    IF pattern.glob THEN starts_with(word, pattern.body) ELSE word = pattern.body

\* Mutation: a literal parent also covers a glob with the same text.
pattern_covers_Literal(parent, child) ==
    IF parent.glob THEN starts_with(child.body, parent.body)
    ELSE child.body = parent.body

pattern_covers(parent, child) ==
    IF parent.glob THEN starts_with(child.body, parent.body)
    ELSE ~child.glob /\ child.body = parent.body

MatchAny(patterns, word) == \E p \in patterns : pattern_matches(p, word)

CoveredBy(children, parents) ==
    \A child \in children : \E p \in parents : pattern_covers(p, child)

\* The gateway's checks 3, 5, 6 and 7 of a call made with a token.
Permits(r, c) ==
    /\ r.nbf <= c.at /\ c.at < r.exp
    /\ MatchAny(r.tools, c.tool)
    /\ \A s \in c.scopes : MatchAny(r.scopes, s)
    /\ c.writes => r.autonomy >= Supervised

----------------------------------------------------------------------------
(* Deriving a narrower remit.                                              *)

Within(amount, limit) == limit = Unlimited \/ (amount # Unlimited /\ amount <= limit)

MaxOf(a, b) == IF a >= b THEN a ELSE b

\* ttl as i64: a u64 above i64::MAX wraps to a negative number.
as_i64(ttl) == IF ttl > MaxTime THEN ttl - 2 * (MaxTime + 1) ELSE ttl

saturating_add(t, d) ==
    IF t + d > MaxTime THEN MaxTime
    ELSE IF t + d < -MaxTime - 1 THEN -MaxTime - 1 ELSE t + d

Given(field, inherited) == IF field = Absent THEN inherited ELSE field

\* A dimension the request leaves out takes the parent's limit.
NarrowedSpend(q, parent) ==
    IF q.spend = Absent THEN parent.spend
    ELSE [d \in Dims |-> IF q.spend[d] = Unlimited THEN parent.spend[d] ELSE q.spend[d]]

NarrowedExp(q, parent, at) ==
    IF q.ttl = Absent THEN parent.exp ELSE saturating_add(at, as_i64(q.ttl))

Contents(seq) == {seq[i] : i \in DOMAIN seq}

\* Mutation: a request may leave out policies of the parent.
Narrows_DropPolicies(q, parent, at) ==
    /\ q.tools # Absent => CoveredBy(q.tools, parent.tools)
    /\ q.scopes # Absent => CoveredBy(q.scopes, parent.scopes)
    /\ q.grants # Absent => q.grants \subseteq parent.grants
    /\ \A d \in Dims : Within(NarrowedSpend(q, parent)[d], parent.spend[d])
    /\ q.autonomy # Absent => q.autonomy <= parent.autonomy
    /\ NarrowedExp(q, parent, at) <= parent.exp

\* The fields of the request that stay within the parent's.
Narrows(q, parent, at) ==
    /\ q.tools # Absent => CoveredBy(q.tools, parent.tools)
    /\ q.scopes # Absent => CoveredBy(q.scopes, parent.scopes)
    /\ q.grants # Absent => q.grants \subseteq parent.grants
    /\ \A d \in Dims : Within(NarrowedSpend(q, parent)[d], parent.spend[d])
    /\ q.autonomy # Absent => q.autonomy <= parent.autonomy
    /\ NarrowedExp(q, parent, at) <= parent.exp
    /\ q.policy_set # Absent => Contents(parent.policy_set) \subseteq Contents(q.policy_set)

narrow(q, parent, at) ==
    [parent EXCEPT !.tools = Given(q.tools, parent.tools),
                   !.scopes = Given(q.scopes, parent.scopes),
                   !.grants = Given(q.grants, parent.grants),
                   !.spend = NarrowedSpend(q, parent),
                   !.autonomy = Given(q.autonomy, parent.autonomy),
                   !.nbf = MaxOf(at, parent.nbf),
                   !.exp = NarrowedExp(q, parent, at),
                   !.policy_set = Given(q.policy_set, parent.policy_set)]

----------------------------------------------------------------------------
(* The operations.                                                         *)

Room == Len(remits) + Cardinality(deriving) < MaxRemits

\* The row of a remit with rights r below remit i, whose ancestors are `above`.
Child(r, i, run, at, above) ==
    [r EXCEPT !.parent = i, !.run = run, !.bound = FALSE, !.iat = at,
              !.ancestors = above \cup {i}]

issue_remit(q) ==
    /\ q.ttl # 0
    /\ Room
    /\ remits' = Append(remits,
         [parent |-> 0, run |-> 0, bound |-> FALSE, iat |-> now, nbf |-> now,
          exp |-> saturating_add(now, as_i64(q.ttl)), tools |-> q.tools,
          scopes |-> q.scopes, grants |-> q.grants, spend |-> q.spend,
          autonomy |-> q.autonomy, policy_set |-> q.policy_set, ancestors |-> {}])
    /\ UNCHANGED <<now, deriving>>

\* derive_remit up to the call of store_remit: the parent is read, its expiry
\* checked and the child computed.  A bound parent may still be derived from.
derive_remit(i, q) ==
    /\ Room /\ Cardinality(deriving) < MaxDeriving
    /\ now < remits[i].exp
    /\ Narrows(q, remits[i], now)
    /\ deriving' = deriving \cup {Child(narrow(q, remits[i], now), i, 0, now, remits[i].ancestors)}
    /\ UNCHANGED <<now, remits>>

store_remit(r) ==
    /\ deriving' = deriving \ {r}
    /\ remits' = Append(remits, r)
    /\ UNCHANGED now

\* The kernel stops: what was not inserted is gone.
Restart ==
    /\ deriving # {}
    /\ deriving' = {}
    /\ UNCHANGED <<now, remits>>

\* Mutation: the run's remit starts a second after the run.
RunChild_LateStart(i, at) ==
    Child([remits[i] EXCEPT !.nbf = MaxOf(at + 1, @)], i, Len(remits) + 1, at, remits[i].ancestors)

\* The run's own remit: the fields of the one it was started with.
RunChild(i, at) ==
    Child([remits[i] EXCEPT !.nbf = MaxOf(at, @)], i, Len(remits) + 1, at, remits[i].ancestors)

\* The remit's part of start_run; the clock is read before the lock is taken.
start_run(i, required, at) ==
    /\ Room
    /\ at < remits[i].exp
    /\ ~remits[i].bound /\ remits[i].run = 0
    /\ required \subseteq Contents(remits[i].policy_set)
    /\ remits' = Append([remits EXCEPT ![i].bound = TRUE], RunChild(i, at))
    /\ UNCHANGED <<now, deriving>>

Tick ==
    /\ 2 * (now + 1) <= MaxTime
    /\ now' = now + 1
    /\ UNCHANGED <<remits, deriving>>

Init == now = 0 /\ remits = <<>> /\ deriving = {}

Next ==
    \/ \E q \in IssueRequests : issue_remit(q)
    \/ \E i \in 1..Len(remits), q \in DeriveRequests : derive_remit(i, q)
    \/ \E r \in deriving : store_remit(r)
    \/ Restart
    \/ \E i \in 1..Len(remits), required \in Required, at \in 0..now :
          now - at <= MaxWait /\ start_run(i, required, at)
    \/ Tick

Spec == Init /\ [][Next]_vars

----------------------------------------------------------------------------
(* Properties.                                                             *)

\* The tables hold well-formed rows whose parents were stored before them.
TypeOK ==
    /\ now \in 0..MaxTime
    /\ remits \in Seq(RemitRow)
    /\ deriving \subseteq RemitRow
    /\ \A i \in 1..Len(remits) : remits[i].parent < i /\ remits[i].ancestors \subseteq 1..(i - 1)
    /\ \A r \in deriving : r.parent <= Len(remits) /\ r.ancestors \subseteq 1..Len(remits)

NoWider(child, parent) ==
    /\ \A c \in Calls : Permits(child, c) => Permits(parent, c)
    /\ child.grants \subseteq parent.grants
    /\ \A d \in Dims : Within(child.spend[d], parent.spend[d])
    /\ child.autonomy <= parent.autonomy
    /\ Contents(parent.policy_set) \subseteq Contents(child.policy_set)

\* Delegation never widens, however long the chain: whatever call a derived or
\* a run's remit lets through the gateway, at whatever time, each remit above
\* it lets through as well, and its grants, spend, autonomy and policies stay
\* within theirs (narrow in remit.rs, applied by derive_remit and start_run).
DelegationNarrows ==
    \A i \in 1..Len(remits) : \A a \in remits[i].ancestors : NoWider(remits[i], remits[a])

\* The remit a run works under lets through, from the moment the run starts,
\* exactly what the remit it was started with does: start_run neither drops
\* nor adds anything but the binding to the run.
RunKeepsItsRemit ==
    \A i \in 1..Len(remits) :
        remits[i].run # 0 =>
            LET r == remits[i]
                p == remits[r.parent]
            IN  \A c \in Calls : c.at >= r.iat => (Permits(r, c) <=> Permits(p, c))

\* A remit starts at most one run, and no run's own remit starts another,
\* whoever calls start_run and however many derivations are under way.
OneRunPerRemit ==
    /\ \A i, j \in 1..Len(remits) :
          (remits[i].run # 0 /\ remits[j].run # 0 /\ remits[i].parent = remits[j].parent) => i = j
    /\ \A i \in 1..Len(remits) : remits[i].run # 0 => remits[remits[i].parent].run = 0
=============================================================================
