------------------------------- MODULE RunLog -------------------------------
(***************************************************************************)
(* The event log of one run and its materialised row: how a handler of the *)
(* kernel appends a batch of events in one transaction (RunTx of           *)
(* kernel.rs), how workers and the gateway append theirs                   *)
(* (post_external_event), how replay checks chain and state (replay.rs),   *)
(* and how clients page through the log while it grows.                    *)
(*                                                                         *)
(* The batches are those of KernelRun's handlers, reduced to what the      *)
(* status of the run and its spend need.  A hash is the sequence of what   *)
(* it was computed from, so hashes of different histories differ.  Event   *)
(* bodies are a text, but for usage.recorded, which carries the cumulative *)
(* spend, a float of JsonNumber.                                           *)
(***************************************************************************)
EXTENDS JsonNumber, Sequences, Functions

CONSTANTS
    Cents,        \* the costs a step may report
    MaxEvents,    \* bound on the length of the log
    PageSize,     \* events per page a client asks for
    Settings      \* what a behaviour has: [readers, faults, payloads]

\* The page size a client asks for is clamped to 1..5000.
ASSUME PageAssumption == PageSize \in 1..5000

External == {"note", "tool.result"}   \* two of the seven kinds; the fold treats them alike
Terminal == {"run.completed", "run.failed", "run.abandoned"}
Zero == <<0, 0>>                         \* no spend yet; not one of JsonNumber's floats
Plain(text) == [text |-> text, spend |-> Zero]
Cumulative(x) == [text |-> "usage", spend |-> x]
ZERO_HASH == <<>>
NoTx == [open |-> FALSE]

VARIABLES
    log,       \* rows of the events table, by seq
    row,       \* the row of the runs table
    tx,        \* the transaction under way, if any
    cli,       \* `kernos run events`, paging
    follower,  \* KernelClient.follow of the Python client
    damaged,   \* whether a fault has hit the table
    setting    \* the clients ("cli", "follower"), the faults of the events table
               \* ("change", "lose", "swap") and the payloads of external events
               \* ("small", "oversized", "unbounded")

vars == <<log, row, tx, cli, follower, damaged, setting>>

----------------------------------------------------------------------------
(* Events and the fold.                                                    *)

compute_hash(event) == Append(event.prev_hash, <<event.seq, event.kind, event.body>>)

build(seq, kind, body, prev_hash) ==
    LET event == [seq |-> seq, kind |-> kind, body |-> body, prev_hash |-> prev_hash]
    IN  [seq |-> seq, kind |-> kind, body |-> body, prev_hash |-> prev_hash, hash |-> compute_hash(event)]

Stored(x) == IF x = Zero THEN x ELSE Reparse(x)

\* A row as it is read: the JSON of its payload is parsed again.
event_from_row(event) == [event EXCEPT !.body.spend = Stored(@)]
run_row_from_row(r) == [r EXCEPT !.state.used = Stored(@)]

from_created(event) == [status |-> "created", used |-> Zero, last_seq |-> event.seq]

apply(state, event) ==
    [last_seq |-> event.seq,
     used |-> IF event.kind = "usage.recorded" THEN event.body.spend ELSE state.used,
     status |-> CASE event.kind = "step.scheduled" /\ state.status = "created" -> "running"
                  [] event.kind = "run.parked" -> "parked"
                  [] event.kind = "run.resumed" -> "running"
                  [] event.kind = "run.completed" -> "completed"
                  [] OTHER -> state.status]

fold(events) ==
    LET states[n \in DOMAIN events] ==
            IF n = 1 THEN from_created(events[1]) ELSE apply(states[n - 1], events[n])
    IN  states[Len(events)]

----------------------------------------------------------------------------
(* Transactions.                                                           *)

NoRow == [state |-> [status |-> "none", used |-> Zero, last_seq |-> 0], last_hash |-> ZERO_HASH]

\* What the handlers append, by the status of the run they find: kinds, with
\* the cost of a step in place of the spend.
Batches(status) ==
    CASE status = "none" -> {<<"run.created", "step.scheduled">>}
      [] status = "running" -> {<<"step.completed", "usage.recorded">>, <<"run.parked">>,
                                <<"step.completed", "usage.recorded", "run.completed">>}
      [] status = "parked" -> {<<"run.resumed">>}
      [] status = "completed" -> {}

Begin(kinds, cost, text) ==
    /\ ~tx.open /\ ~damaged
    /\ Len(log) + Len(kinds) <= MaxEvents
    /\ tx' = [open |-> TRUE, run |-> run_row_from_row(row), events |-> <<>>, todo |-> kinds, cost |-> cost, text |-> text]
    /\ UNCHANGED <<log, row, cli, follower, damaged, setting>>

\* A handler of the kernel: start_run, complete, abandon, resume...
Handler ==
    \E kinds \in Batches(row.state.status), cost \in Cents : Begin(kinds, Parse(cost, 2), "kernel")

\* Larger payloads are cut or refused.  The caller presents a live lease of
\* the run or a remit token valid for it; a token outlives the run, so the
\* status of the run does not limit when an event may come.
truncate_payload(body) ==
    CASE body = "small" -> {"small"}
      [] body = "oversized" -> {"truncated"}
      [] body = "unbounded" -> {}

post_external_event(kind) ==
    /\ kind \in External
    /\ row.state.status # "none"
    /\ \E body \in setting.payloads : \E kept \in truncate_payload(body) : Begin(<<kind>>, Zero, kept)

\* Mutation: the number of the next event is taken from the row on disk.
append_raw_StaleSeq ==
    LET kind == Head(tx.todo)
        state == tx.run.state
        used == IF state.used = Zero THEN tx.cost ELSE Add(state.used, tx.cost)
        body == IF kind = "usage.recorded" THEN Cumulative(used) ELSE Plain(tx.text)
        event == build(row.state.last_seq + 1, kind, body, tx.run.last_hash)
    IN  /\ tx.open /\ tx.todo # <<>>
        /\ tx' = [tx EXCEPT !.events = Append(@, event), !.todo = Tail(@),
                            !.run = [state |-> IF kind = "run.created" THEN from_created(event)
                                               ELSE apply(state, event),
                                     last_hash |-> event.hash]]
        /\ UNCHANGED <<log, row, cli, follower, damaged, setting>>

append_raw ==
    LET kind == Head(tx.todo)
        state == tx.run.state
        used == IF state.used = Zero THEN tx.cost ELSE Add(state.used, tx.cost)
        body == IF kind = "usage.recorded" THEN Cumulative(used) ELSE Plain(tx.text)
        event == build(state.last_seq + 1, kind, body, tx.run.last_hash)
    IN  /\ tx.open /\ tx.todo # <<>>
        /\ tx' = [tx EXCEPT !.events = Append(@, event), !.todo = Tail(@),
                            !.run = [state |-> IF kind = "run.created" THEN from_created(event)
                                               ELSE apply(state, event),
                                     last_hash |-> event.hash]]
        /\ UNCHANGED <<log, row, cli, follower, damaged, setting>>

\* persist writes the row in the transaction of the events.
persist ==
    /\ tx.open /\ tx.todo = <<>>
    /\ log' = log \o tx.events
    /\ row' = tx.run
    /\ tx' = NoTx
    /\ UNCHANGED <<cli, follower, damaged, setting>>

\* The process stops, or an insert fails: SQLite undoes the transaction.
Rollback ==
    /\ tx.open
    /\ tx' = NoTx
    /\ UNCHANGED <<log, row, cli, follower, damaged, setting>>

----------------------------------------------------------------------------
(* Replay.                                                                 *)

\* Mutation: links are compared, hashes are not computed again.
chain_errors_LinksOnly ==
    LET events == [i \in DOMAIN log |-> event_from_row(log[i])]
        Previous(i) == IF i = 1 THEN ZERO_HASH ELSE events[i - 1].hash
    IN  {i \in DOMAIN events : \/ events[i].seq # i
                               \/ events[i].prev_hash # Previous(i)}
        \cup (IF row.last_hash = Previous(Len(events) + 1) THEN {} ELSE {Len(events) + 1})

chain_errors ==
    LET events == [i \in DOMAIN log |-> event_from_row(log[i])]
        Previous(i) == IF i = 1 THEN ZERO_HASH ELSE events[i - 1].hash
    IN  {i \in DOMAIN events : \/ events[i].seq # i
                               \/ events[i].prev_hash # Previous(i)
                               \/ events[i].hash # compute_hash(events[i])}
        \cup (IF row.last_hash = Previous(Len(events) + 1) THEN {} ELSE {Len(events) + 1})

state_matches ==
    LET events == [i \in DOMAIN log |-> event_from_row(log[i])]
    IN  /\ events # <<>> /\ Head(events).kind = "run.created"
        /\ \A i \in 2..Len(events) : events[i].kind # "run.created"
        /\ fold(events) = run_row_from_row(row).state

ReplayClean == chain_errors = {} /\ state_matches

----------------------------------------------------------------------------
(* Readers.                                                                *)

\* The seqs of a page from a position on, and where the next one starts (0
\* for none).  A reader waits for the lock of an open transaction; it may as
\* well be served before it, as it is shown committed rows only.
run_events(from) ==
    LET last == IF from + PageSize - 1 < row.state.last_seq THEN from + PageSize - 1 ELSE row.state.last_seq
    IN  [events |-> [i \in 1..(last - from + 1) |-> from + i - 1],
         next_seq |-> IF from <= last /\ last < row.state.last_seq THEN last + 1 ELSE 0]

\* Mutation: paging goes on at the last event of the page.
CliPage_Overlap ==
    LET page == run_events(cli.from)
    IN  /\ "cli" \in setting.readers /\ ~cli.done
        /\ ~damaged /\ row.state.status # "none"
        /\ cli' = [cli EXCEPT !.got = @ \o page.events,
                              !.from = IF page.next_seq = 0 THEN @ ELSE page.next_seq - 1,
                              !.done = page.next_seq = 0,
                              !.began = IF cli.from = 1 THEN row.state.last_seq ELSE @]
        /\ UNCHANGED <<log, row, tx, follower, damaged, setting>>

CliPage ==
    LET page == run_events(cli.from)
    IN  /\ "cli" \in setting.readers /\ ~cli.done
        /\ ~damaged /\ row.state.status # "none"
        /\ cli' = [cli EXCEPT !.got = @ \o page.events,
                              !.from = IF page.next_seq = 0 THEN @ ELSE page.next_seq,
                              !.done = page.next_seq = 0,
                              !.began = IF cli.from = 1 THEN row.state.last_seq ELSE @]
        /\ UNCHANGED <<log, row, tx, follower, damaged, setting>>

\* Mutation: the follower stops polling when it has caught up.
Follow_StopsAtEnd ==
    LET page == run_events(follower.from)
        ends == {i \in DOMAIN page.events : log[page.events[i]].kind \in Terminal}
        shown == IF ends = {} THEN page.events
                 ELSE SubSeq(page.events, 1, CHOOSE i \in ends : \A j \in ends : i <= j)
    IN  /\ "follower" \in setting.readers /\ ~follower.done
        /\ ~damaged /\ row.state.status # "none"
        /\ page.next_seq # 0
        /\ follower' = [got |-> follower.got \o shown, from |-> page.events[Len(page.events)] + 1, done |-> ends # {}]
        /\ UNCHANGED <<log, row, tx, cli, damaged, setting>>

Follow ==
    LET page == run_events(follower.from)
        ends == {i \in DOMAIN page.events : log[page.events[i]].kind \in Terminal}
        shown == IF ends = {} THEN page.events
                 ELSE SubSeq(page.events, 1, CHOOSE i \in ends : \A j \in ends : i <= j)
    IN  /\ "follower" \in setting.readers /\ ~follower.done
        /\ ~damaged /\ row.state.status # "none"
        /\ page.events # <<>>
        /\ follower' = [got |-> follower.got \o shown, from |-> page.events[Len(page.events)] + 1, done |-> ends # {}]
        /\ UNCHANGED <<log, row, tx, cli, damaged, setting>>

----------------------------------------------------------------------------
(* Faults of the events table, behind the kernel's back.                   *)

Damage ==
    /\ ~tx.open /\ ~damaged /\ log # <<>>
    /\ \/ /\ "change" \in setting.faults
          /\ \E i \in DOMAIN log : log' = [log EXCEPT ![i].kind = IF @ = "note" THEN "tool.result" ELSE "note",
                                                      ![i].body.text = "changed"]
       \/ /\ "lose" \in setting.faults
          /\ \E i \in DOMAIN log : log' = SubSeq(log, 1, i - 1) \o SubSeq(log, i + 1, Len(log))
       \/ /\ "swap" \in setting.faults
          /\ \E i \in 1..(Len(log) - 1) : log' = [log EXCEPT ![i] = log[i + 1], ![i + 1] = log[i]]
    /\ damaged' = TRUE
    /\ UNCHANGED <<row, tx, cli, follower, setting>>

Init ==
    /\ setting \in Settings
    /\ log = <<>> /\ row = NoRow /\ tx = NoTx /\ damaged = FALSE
    /\ cli = [from |-> 1, got |-> <<>>, done |-> FALSE, began |-> 0]
    /\ follower = [from |-> 1, got |-> <<>>, done |-> FALSE]

Next ==
    \/ Handler
    \/ \E kind \in External : post_external_event(kind)
    \/ append_raw
    \/ persist
    \/ Rollback
    \/ CliPage
    \/ Follow
    \/ Damage

Spec == Init /\ [][Next]_vars
FairSpec == Spec /\ WF_vars(Follow) /\ WF_vars(append_raw) /\ WF_vars(persist)

----------------------------------------------------------------------------
(* Properties.                                                             *)

\* A log nobody touched replays clean, at every moment between transactions,
\* with external events before and after the end of the run and transactions
\* undone half way ("The kernel's materialised tables are written in the same
\* transaction as each event and equal the fold at every sequence number").
HonestLogReplays == ~damaged /\ log # <<>> => ReplayClean

\* Every figure of the log is the one that was written: what serde_json reads
\* back is what it was given.
RoundTrips(events) == \A i \in DOMAIN events : Stored(events[i].body.spend) = events[i].body.spend

\* What keeps an untouched log from replaying clean is a figure that its JSON
\* does not give back, and nothing else.
ReplayIsRoundTrip == ~damaged /\ log # <<>> => (ReplayClean <=> RoundTrips(log))

\* A log with a changed, lost or exchanged event does not replay clean ("The
\* log cannot be rewritten silently").
DamageIsReported == damaged => ~ReplayClean

\* Pages fit together although events are appended between them: a client has
\* seen each event once and in order, the command line stops with at least
\* what was there when it began, and the follower at the first terminal event.
PagesFitTogether ==
    ~damaged =>
        /\ \A reader \in {cli.got, follower.got} : reader = [i \in 1..Len(reader) |-> i]
        /\ cli.done => Len(cli.got) >= cli.began
        /\ \A i \in DOMAIN follower.got :
              log[i].kind \in Terminal => follower.done /\ i = Len(follower.got)

\* A follower of a run that ends, ends (it polls again and again).
FollowerEnds ==
    (row.state.status = "completed" /\ "follower" \in setting.readers) ~> (follower.done \/ damaged)

----------------------------------------------------------------------------
(* The inductive invariant.                                                *)

Sequence(s) == s \in Seq(Range(s))

\* The events are numbered and each is built on the hash of the one before;
\* the row has the hash of the last.
Previous(events, i) == IF i = 1 THEN ZERO_HASH ELSE events[i - 1].hash
Chained(events, last_hash) ==
    /\ Sequence(events)
    /\ \A i \in DOMAIN events :
          /\ events[i] = build(i, events[i].kind, events[i].body, Previous(events, i))
          /\ events[i].body = [text |-> events[i].body.text, spend |-> events[i].body.spend]
          /\ Sequence(events[i].hash)
    /\ last_hash = Previous(events, Len(events) + 1)

\* The state is the fold of the events, unless a figure changed on its way
\* through the database.
Folded(events, state) ==
    /\ state = [status |-> state.status, used |-> state.used, last_seq |-> Len(events)]
    /\ events = <<>> <=> state.status = "none"
    /\ \A i \in DOMAIN events : events[i].kind = "run.created" <=> i = 1
    /\ events = <<>> => state.used = Zero
    /\ events # <<>> /\ RoundTrips(events) =>
          fold(events) = state /\ Stored(state.used) = state.used

\* An open transaction has the rest of a batch before it: the first event of
\* all is run.created, a run just created goes on with its first step, and
\* none is created twice.
Underway ==
    /\ tx = [open |-> TRUE, run |-> tx.run, events |-> tx.events, todo |-> tx.todo,
             cost |-> tx.cost, text |-> tx.text]
    /\ Sequence(tx.events) /\ Sequence(tx.todo)
    /\ Chained(log \o tx.events, tx.run.last_hash)
    /\ Folded(log \o tx.events, tx.run.state)
    /\ tx.run = [state |-> tx.run.state, last_hash |-> tx.run.last_hash]
    /\ tx.run.state.status \in {"none", "created", "running", "parked", "completed"}
    /\ tx.run.state.status = "none" => tx.todo = <<"run.created", "step.scheduled">>
    /\ tx.run.state.status = "created" => tx.todo = <<"step.scheduled">>
    /\ tx.run.state.status # "none" => \A k \in DOMAIN tx.todo : tx.todo[k] # "run.created"

Committed ==
    /\ Chained(log, row.last_hash)
    /\ Folded(log, row.state)
    /\ row = [state |-> row.state, last_hash |-> row.last_hash]
    /\ row.state.status \in {"none", "running", "parked", "completed"}

\* What the readers have seen, and where they go on.
Paging ==
    /\ cli \in [from: Nat, got: Seq(Nat), done: BOOLEAN, began: Nat]
    /\ \A i \in DOMAIN cli.got : cli.got[i] = i
    /\ cli.began <= Len(log)
    /\ IF cli.done THEN Len(cli.got) >= cli.began
       ELSE cli.from = Len(cli.got) + 1 /\ (cli.from <= Len(log) \/ cli.from = 1)
    /\ follower \in [from: Nat, got: Seq(Nat), done: BOOLEAN]
    /\ \A i \in DOMAIN follower.got : follower.got[i] = i
    /\ Len(follower.got) <= Len(log)
    /\ ~follower.done => follower.from = Len(follower.got) + 1
    /\ \A i \in DOMAIN follower.got :
          log[i].kind \in Terminal => follower.done /\ i = Len(follower.got)

LogInv ==
    /\ IF damaged THEN ~tx.open /\ ~ReplayClean ELSE Committed /\ Paging
    /\ tx.open => Underway
=============================================================================
