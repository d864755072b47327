------------------------------ MODULE ToolStep -------------------------------
(***************************************************************************)
(* A tool step end to end: the kernel's lease and event log, the worker    *)
(* that executes the step (sdk/python/src/kernos/steps.py and worker.py),  *)
(* the gateway's call path with its keyed lock and idempotency store       *)
(* (gateway/internal/server/call.go, gateway/internal/idem/idem.go) and    *)
(* the upstream that the call writes to.  The steps share one idempotency  *)
(* key, as two runs over the same invoice do, and differ in their          *)
(* arguments.  A worker is known by its lease: an attempt is a lease, the  *)
(* worker's place in _run_tool, and the gateway's handler of its call.     *)
(*                                                                         *)
(* Leases expire under a worker that is alive and that goes on until the   *)
(* kernel refuses it (the abort its heartbeat sets on 410 only makes it    *)
(* stop before it asks); calls time out on either side while the other     *)
(* goes on, the gateway crashes, and an upstream may perform a write whose *)
(* call was given up.                                                      *)
(***************************************************************************)
EXTENDS Naturals, Sequences

CONSTANTS Steps,             \* steps, named by the arguments they render
          MaxAttempts,       \* total failures that quarantine a step
          MaxDeterministic,  \* deterministic failures that quarantine it
          MaxLeases,         \* bound on the attempts explored
          Faults,            \* subset of {"timeout", "crash", "save", "expiry"}
          MaxLost            \* bound on the writes lost to the store

VARIABLES status,   \* per step: "scheduled", "leased", "completed", "quarantined"
          output,   \* per step: the result it completed with
          failed,   \* per step: [all, deterministic] failures
          log,      \* per step: its tool.called and tool.result events
          attempt,  \* the attempts, in the order of their leases
          holder,   \* the attempt that holds the key's lock, or 0
          row,      \* the idempotency store's row for the key
          writes,   \* arguments of the writes the upstream performed
          lost      \* writes the store may not know of

vars == <<status, output, failed, log, attempt, holder, row, writes, lost>>

\* The n-th write's result is n; 0 is no result.
None == 0
NoRow == [args |-> "none", result |-> None]
Event(kind, result) == [kind |-> kind, result |-> result]
Attempts == 1 .. Len(attempt)

\* An attempt whose worker is through; its call may still be in the gateway.
Handled == {"queued", "upstream", "written"}
Ended(at) ==
    [at EXCEPT !.live = FALSE, !.worker = "done", !.answer = None, !.retriable = TRUE,
               !.call = IF at.call \in Handled THEN at.call ELSE "none",
               !.result = IF at.call = "written" THEN at.result ELSE None]

Init ==
    /\ status = [s \in Steps |-> "scheduled"]
    /\ output = [s \in Steps |-> None]
    /\ failed = [s \in Steps |-> [all |-> 0, deterministic |-> 0]]
    /\ log = [s \in Steps |-> <<>>]
    /\ attempt = <<>>
    /\ holder = 0
    /\ row = NoRow
    /\ writes = <<>>
    /\ lost = 0

-----------------------------------------------------------------------------
(* The kernel.                                                             *)

\* The successful results among a step's events, by their places.
Successes(events) == {i \in DOMAIN events : events[i].kind = "result" /\ events[i].result # None}

\* prior_events of the lease's context.
_prior_result(events) ==
    LET ok == Successes(events)
    IN  IF ok = {} THEN None ELSE events[CHOOSE i \in ok : \A j \in ok : i <= j].result

lease(s) ==
    /\ status[s] = "scheduled"
    /\ Len(attempt) < MaxLeases
    /\ status' = [status EXCEPT ![s] = "leased"]
    /\ attempt' = Append(attempt,
                    [step |-> s, live |-> TRUE, worker |-> "start",
                     answer |-> _prior_result(log[s]), retriable |-> TRUE,
                     call |-> "none", result |-> None])
    /\ UNCHANGED <<output, failed, log, holder, row, writes, lost>>

\* The sweep: the step may be leased again while the worker is still at it.
expire_lease(a) ==
    /\ attempt[a].live
    /\ attempt' = [attempt EXCEPT ![a] = [@ EXCEPT !.live = FALSE]]
    /\ status' = [status EXCEPT ![attempt[a].step] = "scheduled"]
    /\ UNCHANGED <<output, failed, log, holder, row, writes, lost>>

\* The kernel takes events, completion and failure from a live lease only
\* (410), and the worker that is refused stops: LeaseLost.
Refused(a) ==
    /\ ~attempt[a].live
    /\ attempt[a].worker \in {"start", "answered", "completing", "failing"}
    /\ attempt' = [attempt EXCEPT ![a] = Ended(@)]
    /\ UNCHANGED <<status, output, failed, log, holder, row, writes, lost>>

-----------------------------------------------------------------------------
(* The worker: _run_tool.                                                  *)

\* A result recorded by an earlier attempt is reused: a note, then complete.
Reuse(a) ==
    /\ attempt[a].worker = "start"
    /\ attempt[a].answer # None
    /\ attempt[a].live
    /\ attempt' = [attempt EXCEPT ![a] = [@ EXCEPT !.worker = "completing"]]
    /\ UNCHANGED <<status, output, failed, log, holder, row, writes, lost>>

\* tool.called, then the request: it reaches the gateway, past the remit checks
\* and the schema, or is lost.
PostCalled(a) ==
    /\ attempt[a].worker = "start"
    /\ attempt[a].answer = None
    /\ attempt[a].live
    /\ log' = [log EXCEPT ![attempt[a].step] = Append(@, Event("called", None))]
    /\ \E call \in {"queued", "none"} :
          attempt' = [attempt EXCEPT ![a] = [@ EXCEPT !.worker = "waiting", !.call = call]]
    /\ UNCHANGED <<status, output, failed, holder, row, writes, lost>>

\* KernosNetworkError: the gateway is not there, or the step's own deadline
\* passed first.  The handler, if there is one, goes on.
Unreachable(a) ==
    /\ attempt[a].worker = "waiting"
    /\ attempt' = [attempt EXCEPT ![a] =
                     [@ EXCEPT !.worker = "answered", !.answer = None, !.retriable = TRUE]]
    /\ UNCHANGED <<status, output, failed, log, holder, row, writes, lost>>

Receive(a) ==
    /\ attempt[a].worker = "waiting"
    /\ attempt[a].call \in {"ok", "upstream_error", "deterministic_failure", "conflict"}
    /\ attempt' = [attempt EXCEPT ![a] =
                     [@ EXCEPT !.worker = "answered",
                               !.answer = IF attempt[a].call = "ok" THEN attempt[a].result ELSE None,
                               !.retriable = attempt[a].call = "upstream_error",
                               !.call = "none", !.result = None]]
    /\ UNCHANGED <<status, output, failed, log, holder, row, writes, lost>>

\* Mutation: the kernel takes an event under a lease that has ended.
PostResult_Unfenced(a) ==
    /\ attempt[a].worker = "answered"
    /\ log' = [log EXCEPT ![attempt[a].step] = Append(@, Event("result", attempt[a].answer))]
    /\ attempt' = [attempt EXCEPT ![a] = [@ EXCEPT !.worker =
                     IF attempt[a].answer = None THEN "failing" ELSE "completing"]]
    /\ UNCHANGED <<status, output, failed, holder, row, writes, lost>>

PostResult(a) ==
    /\ attempt[a].worker = "answered"
    /\ attempt[a].live
    /\ log' = [log EXCEPT ![attempt[a].step] = Append(@, Event("result", attempt[a].answer))]
    /\ attempt' = [attempt EXCEPT ![a] = [@ EXCEPT !.worker =
                     IF attempt[a].answer = None THEN "failing" ELSE "completing"]]
    /\ UNCHANGED <<status, output, failed, holder, row, writes, lost>>

complete(a) ==
    /\ attempt[a].worker = "completing"
    /\ attempt[a].live
    /\ attempt' = [attempt EXCEPT ![a] = Ended(@)]
    /\ status' = [status EXCEPT ![attempt[a].step] = "completed"]
    /\ output' = [output EXCEPT ![attempt[a].step] = attempt[a].answer]
    /\ UNCHANGED <<failed, log, holder, row, writes, lost>>

fail(a) ==
    LET s == attempt[a].step
        f == [all |-> failed[s].all + 1,
              deterministic |-> failed[s].deterministic + (IF attempt[a].retriable THEN 0 ELSE 1)]
    IN  /\ attempt[a].worker = "failing"
        /\ attempt[a].live
        /\ attempt' = [attempt EXCEPT ![a] = Ended(@)]
        /\ failed' = [failed EXCEPT ![s] = f]
        /\ status' = [status EXCEPT ![s] =
                        IF f.all >= MaxAttempts \/ f.deterministic >= MaxDeterministic
                        THEN "quarantined" ELSE "scheduled"]
        /\ UNCHANGED <<output, log, holder, row, writes, lost>>

-----------------------------------------------------------------------------
(* The gateway: handleCall.                                                *)

\* The answer, which no one reads when the worker is no longer waiting.
Answered(a, code, result) ==
    attempt' = [attempt EXCEPT ![a] =
                  [@ EXCEPT !.call = IF attempt[a].worker = "waiting" THEN code ELSE "none",
                            !.result = IF attempt[a].worker = "waiting" THEN result ELSE None]]

\* Mutation: a stored row answers whatever the arguments were.
Lookup_AnyArgs(a) ==
    /\ attempt[a].call = "queued"
    /\ holder = 0
    /\ IF row = NoRow
       THEN attempt' = [attempt EXCEPT ![a] = [@ EXCEPT !.call = "upstream"]] /\ holder' = a
       ELSE Answered(a, "ok", row.result) /\ UNCHANGED holder
    /\ UNCHANGED <<status, output, failed, log, row, writes, lost>>

\* Mutation: calls that share a key are not serialised.
Lookup_Unlocked(a) ==
    /\ attempt[a].call = "queued"
    /\ IF row = NoRow
       THEN attempt' = [attempt EXCEPT ![a] = [@ EXCEPT !.call = "upstream"]] /\ holder' = a
       ELSE /\ IF row.args = attempt[a].step
               THEN Answered(a, "ok", row.result)
               ELSE Answered(a, "conflict", None)
            /\ UNCHANGED holder
    /\ UNCHANGED <<status, output, failed, log, row, writes, lost>>

\* The key's lock, then the store: a stored row replays or conflicts and the
\* lock is let go, no row sends the call upstream under the lock.
Lookup(a) ==
    /\ attempt[a].call = "queued"
    /\ holder = 0
    /\ IF row = NoRow
       THEN attempt' = [attempt EXCEPT ![a] = [@ EXCEPT !.call = "upstream"]] /\ holder' = a
       ELSE /\ IF row.args = attempt[a].step
               THEN Answered(a, "ok", row.result)
               ELSE Answered(a, "conflict", None)
            /\ UNCHANGED holder
    /\ UNCHANGED <<status, output, failed, log, row, writes, lost>>

\* No row, but the connector is quarantined or its circuit is open; or the
\* store could not be read, which the gone client's context also causes.
Refuse(a) ==
    /\ attempt[a].call = "queued"
    /\ holder = 0
    /\ Answered(a, "upstream_error", None)
    /\ UNCHANGED <<status, output, failed, log, holder, row, writes, lost>>

Write(a) ==
    /\ attempt[a].call = "upstream"
    /\ writes' = Append(writes, attempt[a].step)
    /\ attempt' = [attempt EXCEPT ![a] = [@ EXCEPT !.call = "written", !.result = Len(writes) + 1]]
    /\ UNCHANGED <<status, output, failed, log, holder, row, lost>>

\* The upstream refuses the call and does nothing.
UpstreamError(a) ==
    /\ attempt[a].call = "upstream"
    /\ \E code \in {"upstream_error", "deterministic_failure"} : Answered(a, code, None)
    /\ holder' = 0
    /\ UNCHANGED <<status, output, failed, log, row, writes, lost>>

\* A request that was on its way when its call was given up may be performed.
LateWrite(a) ==
    \/ UNCHANGED writes
    \/ attempt[a].call = "upstream" /\ writes' = Append(writes, attempt[a].step)

\* The call's context runs out: 502 and nothing stored.
Timeout(a) ==
    /\ "timeout" \in Faults /\ lost < MaxLost
    /\ attempt[a].call \in {"upstream", "written"}
    /\ LateWrite(a)
    /\ Answered(a, "upstream_error", None)
    /\ holder' = 0
    /\ lost' = lost + 1
    /\ UNCHANGED <<status, output, failed, log, row>>

\* Save under the same context as the call; its error is only logged.
Save(a) ==
    /\ attempt[a].call = "written"
    /\ \/ /\ row' = [args |-> attempt[a].step, result |-> attempt[a].result]
          /\ UNCHANGED lost
       \/ "save" \in Faults /\ lost < MaxLost /\ lost' = lost + 1 /\ UNCHANGED row
    /\ Answered(a, "ok", attempt[a].result)
    /\ holder' = 0
    /\ UNCHANGED <<status, output, failed, log, writes>>

\* The process dies with its locks and its handlers; the store survives.
Crash ==
    /\ "crash" \in Faults /\ lost < MaxLost
    /\ \E a \in Attempts : attempt[a].call \in Handled
    /\ attempt' = [a \in Attempts |-> [attempt[a] EXCEPT !.call = "none", !.result = None]]
    /\ IF holder = 0
       THEN UNCHANGED <<lost, writes>>
       ELSE lost' = lost + 1 /\ LateWrite(holder)
    /\ holder' = 0
    /\ UNCHANGED <<status, output, failed, log, row>>

\* Thirty days pass between two attempts: Lookup and Purge drop the row.
Expire ==
    /\ "expiry" \in Faults /\ lost < MaxLost
    /\ row # NoRow
    /\ row' = NoRow
    /\ lost' = lost + 1
    /\ UNCHANGED <<status, output, failed, log, attempt, holder, writes>>

-----------------------------------------------------------------------------
Worker(a) ==
    \/ Refused(a) \/ Reuse(a) \/ PostCalled(a) \/ Unreachable(a) \/ Receive(a)
    \/ PostResult(a) \/ complete(a) \/ fail(a)

Gateway(a) ==
    Lookup(a) \/ Refuse(a) \/ Write(a) \/ UpstreamError(a) \/ Timeout(a) \/ Save(a)

Next ==
    \/ \E s \in Steps : lease(s)
    \/ \E a \in Attempts : expire_lease(a) \/ Worker(a) \/ Gateway(a)
    \/ Crash
    \/ Expire

Spec == Init /\ [][Next]_vars

-----------------------------------------------------------------------------
\* A step completes only with the result of a write that the upstream really
\* performed with that step's arguments: never with the row another step left
\* under the shared key, nor with a result no one wrote.
OutputIsAWrite ==
    \A s \in Steps : status[s] = "completed" =>
        output[s] \in DOMAIN writes /\ writes[output[s]] = s

\* The log of a step holds at most one successful tool.result, and the step
\* completes with it, however often its lease was lost and taken again.
OneResultPerStep ==
    \A s \in Steps :
        /\ \A i, j \in Successes(log[s]) : i = j
        /\ status[s] = "completed" =>
              \E i \in Successes(log[s]) : log[s][i].result = output[s]

\* Every write beyond the first is paid for by a fault after which the store
\* cannot know of the write before: retries and races alone never repeat it.
RepeatsArePaidFor == Len(writes) <= 1 + lost

-----------------------------------------------------------------------------
(* The inductive invariant behind the theorems of ToolStepProofs.          *)

Calls == Handled \cup {"none", "ok", "upstream_error", "deterministic_failure", "conflict"}
Workers == {"start", "waiting", "answered", "completing", "failing", "done"}

AttemptRow == [step: Steps, live: BOOLEAN, worker: Workers, answer: Nat, retriable: BOOLEAN,
               call: Calls, result: Nat]
EventRow == [kind: {"called", "result"}, result: Nat]

TypeOK ==
    /\ status \in [Steps -> {"scheduled", "leased", "completed", "quarantined"}]
    /\ output \in [Steps -> Nat]
    /\ failed \in [Steps -> [all: Nat, deterministic: Nat]]
    /\ log \in [Steps -> Seq(EventRow)]
    /\ attempt \in Seq(AttemptRow)
    /\ holder \in Nat
    /\ row.result \in Nat
    /\ writes \in Seq(Steps)
    /\ lost \in Nat

\* v is the result of one of the writes ws, made for step s.
WrittenFor(ws, v, s) == v \in DOMAIN ws /\ ws[v] = s

\* One call at a time is past the lookup: the one that holds the key's lock, which
\* found no row.
LockIsExclusive ==
    /\ \A a \in Attempts :
          /\ attempt[a].call \in {"upstream", "written"} <=> holder = a
          /\ attempt[a].worker = "start" => attempt[a].call = "none"
    /\ holder # 0 => holder \in Attempts /\ row = NoRow

\* The store, or the handler that will tell it, knows of all writes but the lost ones.
WritesAreKnown ==
    \/ Len(writes) <= lost
    \/ /\ Len(writes) = lost + 1
       /\ row # NoRow \/ (holder # 0 /\ attempt[holder].call = "written")

\* Whatever is handed on as a result is the result of a write for that step: by a
\* handler or a worker, by the store, by the log.
AnswersAreWrites ==
    \A a \in Attempts :
        /\ attempt[a].answer # None => WrittenFor(writes, attempt[a].answer, attempt[a].step)
        /\ attempt[a].result # None => WrittenFor(writes, attempt[a].result, attempt[a].step)
        /\ attempt[a].call = "written" => attempt[a].result # None

RowIsAWrite ==
    row # NoRow => row.result # None /\ WrittenFor(writes, row.result, row.args)

LoggedAreWrites ==
    \A s \in Steps : \A i \in Successes(log[s]) : WrittenFor(writes, log[s][i].result, s)

\* What a worker at its place, with its answer, makes of its step's events: it is about
\* to complete with the result they hold, or they hold none.
Known(worker, answer, events) ==
    IF worker = "completing" \/ (worker = "start" /\ answer # None)
    THEN \E i \in Successes(events) : events[i].result = answer
    ELSE Successes(events) = {}

\* The one worker whose lease on a step is live knows whether the step has a result.
WorkerKnowsResult ==
    \A a \in Attempts : attempt[a].live =>
        /\ status[attempt[a].step] = "leased"
        /\ \A b \in Attempts : attempt[b].live /\ attempt[b].step = attempt[a].step => b = a
        /\ attempt[a].worker # "done"
        /\ Known(attempt[a].worker, attempt[a].answer, log[attempt[a].step])

IndInv ==
    /\ TypeOK
    /\ LockIsExclusive /\ WritesAreKnown
    /\ AnswersAreWrites /\ RowIsAWrite /\ LoggedAreWrites
    /\ WorkerKnowsResult /\ OneResultPerStep
=============================================================================
