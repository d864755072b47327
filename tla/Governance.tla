----------------------------- MODULE Governance -----------------------------
(***************************************************************************)
(* Policies in force and the approvals they ask for: the policy registry,  *)
(* propose_action, decide_approval, the approval sweeper, the decision     *)
(* part of replay and the policy test of crates/kernos-core (kernel.rs,    *)
(* replay.rs, the policies, actions and approvals tables of store.rs) and  *)
(* corpus.rs.                                                              *)
(*                                                                         *)
(* Every operation holds the store's lock in one transaction and is one    *)
(* action.  A run is reduced to the step that proposes actions (KernelRun  *)
(* has the rest of its life).  An action is the context it is decided in;  *)
(* equal actions have equal hashes and keys.  The log holds the events     *)
(* that replay reads.                                                      *)
(***************************************************************************)
EXTENDS PolicyDecision, FiniteSets

CONSTANTS Names,             \* of policies
          Versions,          \* the version numbers each policy may get
          Sources,           \* what a version may say: sequences of rules
          FirstSources,      \* version 1 of each policy
          Runs,
          PolicySet,         \* the policy_set of each run's remit
          Actions,           \* what workers propose
          Actors,            \* who decides approvals: records of id and role
          Directory,         \* directory.json: the manager of a user, or Nobody
          MaxProposals,      \* bound: policy decisions ever made
          MaxRequestTime,    \* bound: when the last action is proposed
          MaxTime            \* bound: the clock, while no deadline lies ahead

ASSUME GovernanceAssumption ==
    /\ \A n \in Names : 1 \in Versions[n] /\ Versions[n] \subseteq Nat
    /\ Sources \subseteq Seq(Rule) /\ FirstSources \in [Names -> Seq(Rule)]
    /\ \A n \in Names : FirstSources[n] # Unset
    /\ PolicySet \in [Runs -> Seq(Names)]
    /\ Actions \subseteq Context
    /\ Directory \in [Users -> Users \cup {Nobody}]
    /\ MaxProposals \in Nat /\ MaxRequestTime \in Nat /\ MaxTime \in Nat

VARIABLES now,
          registry,    \* the policies table: the source of a version, or Unset
          step,        \* of each run: "ready", "leased", "waiting" or "failed"
          log,         \* policy.decided and approval.decided events
          approvals    \* the approvals table

vars == <<now, registry, step, log, approvals>>

----------------------------------------------------------------------------
(* The registry.                                                           *)

Loaded(name) == {v \in Versions[name] : registry[name][v] # Unset}

\* Mutation: the version applied last with this number wins.
apply_policy_Overwrites(name, version, source) ==
    /\ registry' = [registry EXCEPT ![name][version] = source]
    /\ UNCHANGED <<now, step, log, approvals>>

\* A version that exists is confirmed or refused, and never changed; version
\* numbers may be applied in any order.
apply_policy(name, version, source) ==
    /\ registry[name][version] = Unset
    /\ registry' = [registry EXCEPT ![name][version] = source]
    /\ UNCHANGED <<now, step, log, approvals>>

latest_policy(name) == CHOOSE v \in Loaded(name) : \A w \in Loaded(name) : w <= v

\* The references recorded with a decision, and the rules they stand for.
Refs(names) == [i \in DOMAIN names |-> [name |-> names[i], version |-> latest_policy(names[i])]]
load_policy_refs(refs) == [i \in DOMAIN refs |-> registry[refs[i].name][refs[i].version]]

----------------------------------------------------------------------------
(* Proposing an action.                                                    *)

Approved(r, a) ==
    {i \in DOMAIN approvals : /\ approvals[i].run = r /\ approvals[i].state = "approved"
                              /\ approvals[i].action = a}

\* approval: the approval the decision rests on ("approved:<id>"), 0 if none.
PolicyDecided(r, a, verdict, refs, approval) ==
    [kind |-> "policy.decided", run |-> r, action |-> a, decision |-> verdict.decision,
     rule |-> verdict.rule, refs |-> refs, approval |-> approval]

NewApproval(r, a, verdict) ==
    [run |-> r, action |-> a, decided |-> Len(log) + 1, approver |-> verdict.approver,
     original_approver |-> verdict.approver, escalate_to |-> verdict.escalate_to,
     sla |-> verdict.sla, state |-> "pending", requested_at |-> now, due |-> now + verdict.sla,
     escalations |-> 0, parked_human |-> FALSE, decided_at |-> Unset, actor |-> Unset]

CanPropose(r) ==
    /\ step[r] = "leased" /\ now <= MaxRequestTime
    /\ Cardinality({k \in DOMAIN log : log[k].kind = "policy.decided"}) < MaxProposals

propose_action(r, a) ==
    /\ CanPropose(r)
    /\ IF Approved(r, a) # {}
       THEN LET i == CHOOSE i \in Approved(r, a) : \A j \in Approved(r, a) : i <= j
            IN  /\ log' = Append(log, PolicyDecided(r, a, Verdict("allow", Unset), <<>>, i))
                /\ UNCHANGED <<step, approvals>>
       ELSE LET refs == Refs(PolicySet[r])
                verdict == Decide(load_policy_refs(refs), a)
            IN  /\ log' = Append(log, PolicyDecided(r, a, verdict, refs, 0))
                /\ IF verdict.decision = "approval"
                   THEN /\ approvals' = Append(approvals, NewApproval(r, a, verdict))
                        /\ step' = [step EXCEPT ![r] = "waiting"]
                   ELSE UNCHANGED <<step, approvals>>
    /\ UNCHANGED <<now, registry>>

\* The worker takes the step, or loses its lease (KernelRun has the details).
lease(r) ==
    /\ step[r] = "ready"
    /\ step' = [step EXCEPT ![r] = "leased"]
    /\ UNCHANGED <<now, registry, log, approvals>>

expire_lease(r) ==
    /\ step[r] = "leased"
    /\ step' = [step EXCEPT ![r] = "ready"]
    /\ UNCHANGED <<now, registry, log, approvals>>

----------------------------------------------------------------------------
(* Approvals.                                                              *)

Accepted(approval, actor) ==
    accepts(approval.approver, actor) \/ accepts(approval.original_approver, actor)

decide_approval(i, decision, actor) ==
    /\ approvals[i].state = "pending"
    /\ Accepted(approvals[i], actor)
    /\ approvals' = [approvals EXCEPT ![i].state = decision, ![i].actor = actor,
                                      ![i].decided_at = now]
    /\ log' = Append(log, [kind |-> "approval.decided", run |-> approvals[i].run,
                           approval |-> i, decision |-> decision])
    /\ step' = [step EXCEPT ![approvals[i].run] = IF decision = "approved" THEN "ready" ELSE "failed"]
    /\ UNCHANGED <<now, registry>>

\* Mutation: an approval is escalated without waiting for its deadline.
Overdue_Early(approval) == approval.state = "pending" /\ ~approval.parked_human

Overdue(approval) ==
    approval.state = "pending" /\ ~approval.parked_human /\ approval.due <= now

Escalated(approval) ==
    [approval EXCEPT !.approver = resolve_escalation(Directory, approval.escalate_to, @),
                     !.due = now + approval.sla, !.escalations = @ + 1]

\* The first expiry escalates, the second parks the run for a human; the
\* step keeps waiting either way.
sweep_approvals ==
    /\ \E i \in DOMAIN approvals : Overdue(approvals[i])
    /\ approvals' = [i \in DOMAIN approvals |->
         IF ~Overdue(approvals[i]) THEN approvals[i]
         ELSE IF approvals[i].escalations = 0 THEN Escalated(approvals[i])
         ELSE [approvals[i] EXCEPT !.parked_human = TRUE]]
    /\ UNCHANGED <<now, registry, step, log>>

Tick ==
    /\ \/ now < MaxTime
       \/ \E i \in DOMAIN approvals :
             approvals[i].state = "pending" /\ ~approvals[i].parked_human /\ now < approvals[i].due
    /\ now' = now + 1
    /\ UNCHANGED <<registry, step, log, approvals>>

Init ==
    /\ now = 0
    /\ registry = [n \in Names |-> [v \in Versions[n] |-> IF v = 1 THEN FirstSources[n] ELSE Unset]]
    /\ step = [r \in Runs |-> "ready"]
    /\ log = <<>> /\ approvals = <<>>

Next ==
    \/ \E n \in Names : \E v \in Versions[n], s \in Sources : apply_policy(n, v, s)
    \/ \E r \in Runs, a \in Actions : propose_action(r, a)
    \/ \E r \in Runs : lease(r) \/ expire_lease(r)
    \/ \E i \in DOMAIN approvals, d \in {"approved", "rejected"}, x \in Actors :
          decide_approval(i, d, x)
    \/ sweep_approvals
    \/ Tick

\* The sweeper runs forever and time passes; nobody has to decide.
Spec == Init /\ [][Next]_vars

----------------------------------------------------------------------------
(* What is read: the approvals inbox, replay, the policy test.             *)

\* Mutation: the whole approver is compared, the fallback mark included.
approver_matches_Whole(type, value, approver) ==
    approver = Approver(type, value, FALSE)

approver_matches(type, value, approver) == approver.type = type /\ approver.value = value

\* GET /v1/approvals?state=pending&approver=<type>:<value>
list_approvals(type, value) ==
    {i \in DOMAIN approvals :
        /\ approvals[i].state = "pending"
        /\ \/ approver_matches(type, value, approvals[i].approver)
           \/ approver_matches(type, value, approvals[i].original_approver)}

\* The positions in the log whose decision comes out differently.
ReplayMismatches(r) ==
    {k \in DOMAIN log :
        /\ log[k].kind = "policy.decided" /\ log[k].run = r
        /\ IF log[k].approval # 0
           THEN \/ log[k].decision # "allow"
                \/ ~\E j \in 1..(k - 1) : /\ log[j].kind = "approval.decided" /\ log[j].run = r
                                          /\ log[j].approval = log[k].approval
                                          /\ log[j].decision = "approved"
           ELSE LET computed == Decide(load_policy_refs(log[k].refs), log[k].action)
                IN  computed.decision # log[k].decision \/ computed.rule # log[k].rule}

\* The exported corpus, and the rows of it whose outcome differs.
export_actions == {log[k].action : k \in {j \in DOMAIN log : log[j].kind = "policy.decided"}}

outcome(d) ==
    IF d.decision = "approval" THEN <<d.decision, d.approver, d.sla, d.escalate_to>> ELSE <<d.decision>>

\* Mutation: two gates count as the same whoever is asked.
test_corpus_DecisionOnly(a, b, corpus) ==
    {c \in corpus : Decide(a, c).decision # Decide(b, c).decision}

test_corpus(a, b, corpus) == {c \in corpus : outcome(Decide(a, c)) # outcome(Decide(b, c))}

----------------------------------------------------------------------------
(* Properties.                                                             *)

\* An approval is decided by whom the recorded policy versions name for the
\* action, or, only once a whole SLA has passed unanswered, by whom that
\* approver's escalation leads to (decide_approval, sweep_approvals).
RightApprover ==
    \A i \in DOMAIN approvals :
        LET row == approvals[i]
            asked == Decide(load_policy_refs(log[row.decided].refs), row.action)
        IN  row.state # "pending" =>
              \/ accepts(asked.approver, row.actor)
              \/ /\ row.decided_at >= row.requested_at + asked.sla
                 /\ accepts(resolve_escalation(Directory, asked.escalate_to, asked.approver), row.actor)

\* Whoever may decide a pending approval finds it in the list of their role or
\* of their own, nobody else does, and there is always someone who may: a
\* manager path that leads nowhere falls back to the admins.
InboxesAreRight ==
    /\ \A i \in DOMAIN approvals : \A x \in Actors :
          (approvals[i].state = "pending" /\ Accepted(approvals[i], x))
          <=> i \in list_approvals("role", x.role) \cup list_approvals("user", x.id)
    /\ \A i \in DOMAIN approvals : \E x \in Actors : Accepted(approvals[i], x)

\* Every decision ever made is reproduced by replay, whatever versions of the
\* policies were applied since, in whatever order (replay_run's third check).
ReplayClean == \A r \in Runs : ReplayMismatches(r) = {}

ByDefault(source, a) == Decide(<<source>>, a).rule = NoRule

\* What the policy test reports for two versions of one policy includes every
\* recorded action whose outcome differs between them under the whole policy
\* set of its run ("every decision that would flip is reported"), except when
\* a rule decides it in one version and the default in the other: alone the
\* two may agree, while in the set another policy overrules the default.
FlipsAreReported ==
    \A n \in Names : \A v, w \in Loaded(n) : \A k \in DOMAIN log :
        log[k].kind = "policy.decided" =>
            LET set(u) == [i \in DOMAIN PolicySet[log[k].run] |->
                             LET m == PolicySet[log[k].run][i]
                             IN  IF m = n THEN registry[n][u] ELSE registry[m][latest_policy(m)]]
                flips == outcome(Decide(set(v), log[k].action)) # outcome(Decide(set(w), log[k].action))
            IN  flips =>
                  \/ log[k].action \in test_corpus(<<registry[n][v]>>, <<registry[n][w]>>, export_actions)
                  \/ ByDefault(registry[n][v], log[k].action) # ByDefault(registry[n][w], log[k].action)

----------------------------------------------------------------------------
(* The inductive invariant behind the theorems of GovernanceProofs.        *)

Resolved == [type: {"role"}, value: Roles, fallback: BOOLEAN]
            \cup [type: {"user"}, value: Users, fallback: BOOLEAN]
Ref == [name: Names, version: Nat]
PolicyEvent ==
    [kind: {"policy.decided"}, run: Runs, action: Actions, decision: RuleKind,
     rule: (Nat \X Nat) \cup {Unset}, refs: Seq(Ref), approval: Nat]
ApprovalEvent ==
    [kind: {"approval.decided"}, run: Runs, approval: Nat, decision: {"approved", "rejected"}]
ApprovalRow ==
    [run: Runs, action: Actions, decided: Nat, approver: Resolved, original_approver: Resolved,
     escalate_to: Resolved \cup {ReportingLine}, sla: Nat,
     state: {"pending", "approved", "rejected"}, requested_at: Nat, due: Nat,
     escalations: {0, 1}, parked_human: BOOLEAN, decided_at: Nat \cup {Unset},
     actor: Actors \cup {Unset}]

TypeOK ==
    /\ now \in Nat
    /\ DOMAIN registry = Names
    /\ \A n \in Names : registry[n] \in [Versions[n] -> Seq(Rule) \cup {Unset}]
    /\ step \in [Runs -> {"ready", "leased", "waiting", "failed"}]
    /\ log \in Seq(PolicyEvent \cup ApprovalEvent)
    /\ approvals \in Seq(ApprovalRow)

\* Each policy has a latest version, so that a decision always has its rules.
HasLatest == \A n \in Names : \E v \in Loaded(n) : \A w \in Loaded(n) : w <= v

\* The versions that a decision names are in the registry.
RefsLoaded ==
    \A k \in DOMAIN log : log[k].kind = "policy.decided" =>
        \A i \in DOMAIN log[k].refs : log[k].refs[i].version \in Loaded(log[k].refs[i].name)

LoggedBefore(k, r, approval) ==
    \E j \in 1..(k - 1) : /\ log[j].kind = "approval.decided" /\ log[j].run = r
                          /\ log[j].approval = approval /\ log[j].decision = "approved"

\* ReplayClean, decision by decision.
Reproduced ==
    \A k \in DOMAIN log : log[k].kind = "policy.decided" =>
        IF log[k].approval # 0
        THEN log[k].decision = "allow" /\ LoggedBefore(k, log[k].run, log[k].approval)
        ELSE LET computed == Decide(load_policy_refs(log[k].refs), log[k].action)
             IN  computed.decision = log[k].decision /\ computed.rule = log[k].rule

\* What is approved was logged as approved.
ApprovedIsLogged ==
    \A i \in DOMAIN approvals : approvals[i].state = "approved" =>
        LoggedBefore(Len(log) + 1, approvals[i].run, i)

\* The decision an approval comes from, computed again.
Asked(row) == Decide(load_policy_refs(log[row.decided].refs), row.action)

\* An approval asks whom its decision names and, a deadline later, whom the
\* escalation leads to.
AsksAsDecided(row) ==
    /\ row.decided \in DOMAIN log /\ log[row.decided].kind = "policy.decided"
    /\ row.original_approver = Asked(row).approver
    /\ row.sla = Asked(row).sla /\ row.escalate_to = Asked(row).escalate_to
    /\ IF row.escalations = 0
       THEN row.approver = row.original_approver /\ row.due = row.requested_at + row.sla
       ELSE /\ row.approver = resolve_escalation(Directory, row.escalate_to, row.original_approver)
            /\ row.requested_at + row.sla <= now

\* RightApprover, row by row.
AnsweredRightly(row) ==
    row.state # "pending" =>
        \/ accepts(Asked(row).approver, row.actor)
        \/ /\ row.decided_at >= row.requested_at + Asked(row).sla
           /\ accepts(resolve_escalation(Directory, Asked(row).escalate_to, Asked(row).approver), row.actor)

GovernanceInv ==
    /\ TypeOK /\ HasLatest /\ RefsLoaded /\ Reproduced /\ ApprovedIsLogged
    /\ \A i \in DOMAIN approvals : AsksAsDecided(approvals[i]) /\ AnsweredRightly(approvals[i])
=============================================================================
