--------------------------- MODULE ToolStepProofs ----------------------------
(***************************************************************************)
(* Proofs about a tool step from the lease to the upstream's write, for    *)
(* any set of steps, any limits and any choice of faults.                  *)
(*                                                                         *)
(* The first part says what each step does to the attempt it belongs to;   *)
(* the second shows, one conjunct of IndInv at a time, that the steps keep *)
(* it; the third states what follows for the steps' outputs and logs and   *)
(* for the number of writes.                                               *)
(***************************************************************************)
EXTENDS ToolStep, SequenceTheorems, TLAPS

\* What a leaf may take of the SMT solver, unless it says otherwise.
USE SMTT(30)

-----------------------------------------------------------------------------
(* What a step does to an attempt.                                         *)

\* Attempt a gets this lease, place of its worker, answer, call and result; its step
\* and the other attempts stay as they are.
Becomes(a, live, worker, answer, call, result) ==
    /\ attempt' \in Seq(AttemptRow)
    /\ Len(attempt') = Len(attempt)
    /\ \A b \in Attempts \ {a} : attempt'[b] = attempt[b]
    /\ attempt'[a].step = attempt[a].step
    /\ attempt'[a].live = live
    /\ attempt'[a].worker = worker
    /\ attempt'[a].answer = answer
    /\ attempt'[a].call = call
    /\ attempt'[a].result = result

\* An assignment to one element of the list of attempts, which every worker's and
\* every handler's step is, leaves the others alone.
LEMMA OneMoves ==
    ASSUME TypeOK, NEW a \in Attempts, NEW x \in AttemptRow, x.step = attempt[a].step,
           attempt' = [attempt EXCEPT ![a] = x]
    PROVE  Becomes(a, x.live, x.worker, x.answer, x.call, x.result)
<1>1. attempt \in Seq(AttemptRow)
  BY Zenon DEF TypeOK
<1>2. attempt' \in Seq(AttemptRow) /\ Len(attempt') = Len(attempt)
  BY <1>1 DEF Attempts
<1>3. attempt'[a] = x /\ \A b \in Attempts \ {a} : attempt'[b] = attempt[b]
  BY <1>1 DEF Attempts
<1> QED
  BY <1>2, <1>3, Zenon DEF Becomes

\* An attempt is a record with the fields the kernel, the worker and the gateway's
\* handler keep of it.
LEMMA AttemptFields ==
    ASSUME TypeOK, NEW a \in Attempts
    PROVE  /\ attempt[a] \in AttemptRow
           /\ attempt[a].step \in Steps /\ attempt[a].live \in BOOLEAN
           /\ attempt[a].worker \in Workers /\ attempt[a].answer \in Nat
           /\ attempt[a].call \in Calls /\ attempt[a].result \in Nat
<1>1. attempt[a] \in AttemptRow
  BY DEF TypeOK, Attempts
<1> QED
  BY <1>1, Zenon DEF AttemptRow

\* What a worker that is through leaves behind (LeaseLost, complete and fail): no
\* lease and no answer, and the gateway's handler where it was.
LEMMA EndedFields ==
    ASSUME NEW at \in AttemptRow
    PROVE  /\ Ended(at) \in AttemptRow
           /\ Ended(at).step = at.step /\ Ended(at).live = FALSE
           /\ Ended(at).worker = "done" /\ Ended(at).answer = None
           /\ Ended(at).call = (IF at.call \in Handled THEN at.call ELSE "none")
           /\ Ended(at).result = (IF at.call = "written" THEN at.result ELSE None)
  BY Zenon DEF Ended, AttemptRow, Workers, Calls, Handled, None

\* An event that is no successful result (tool.called, a failed tool.result) leaves a
\* log's successful results as they are.
LEMMA OtherEvent ==
    ASSUME NEW events \in Seq(EventRow), NEW e \in EventRow,
           ~(e.kind = "result" /\ e.result # None)
    PROVE  /\ Append(events, e) \in Seq(EventRow)
           /\ Successes(Append(events, e)) = Successes(events)
           /\ \A i \in Successes(events) : Append(events, e)[i] = events[i]
  BY DEF Successes

\* A successful tool.result adds one to a log's successful results, at its end.
LEMMA SuccessEvent ==
    ASSUME NEW events \in Seq(EventRow), NEW e \in EventRow,
           e.kind = "result" /\ e.result # None
    PROVE  /\ Append(events, e) \in Seq(EventRow)
           /\ Successes(Append(events, e)) = Successes(events) \cup {Len(events) + 1}
           /\ \A i \in Successes(events) : Append(events, e)[i] = events[i]
           /\ Append(events, e)[Len(events) + 1] = e
  BY DEF Successes

\* _prior_result: nothing when the log has no successful result, and otherwise one of
\* them.
LEMMA PriorResult ==
    ASSUME NEW events \in Seq(EventRow), \A i, j \in Successes(events) : i = j
    PROVE  /\ _prior_result(events) \in Nat
           /\ Successes(events) = {} => _prior_result(events) = None
           /\ Successes(events) # {} =>
                /\ _prior_result(events) # None
                /\ \E i \in Successes(events) : events[i].result = _prior_result(events)
<1>1. CASE Successes(events) = {}
  BY <1>1, Zenon DEF _prior_result, None
<1>2. CASE Successes(events) # {}
  <2>1. Successes(events) \subseteq Nat
    BY DEF Successes
  <2>2. PICK i \in Successes(events) : \A j \in Successes(events) : i <= j
    BY <1>2, <2>1
  <2>3. (CHOOSE k \in Successes(events) : \A j \in Successes(events) : k <= j) \in Successes(events)
    BY <2>2, Zenon
  <2> DEFINE m == CHOOSE k \in Successes(events) : \A j \in Successes(events) : k <= j
  <2>4. _prior_result(events) = events[m].result
    BY <1>2, Zenon DEF _prior_result
  <2> HIDE DEF m
  <2>5. m \in Successes(events)
    BY <2>3, Zenon DEF m
  <2>6. events[m] \in EventRow /\ events[m].result # None
    BY <2>5 DEF Successes
  <2> QED
    BY <1>2, <2>4, <2>5, <2>6, Zenon DEF EventRow
<1> QED
  BY <1>1, <1>2, Zenon

\* The upstream's list of writes only grows, so a result stays the result of its write.
LEMMA WriteStays ==
    ASSUME NEW ws \in Seq(Steps), NEW s \in Steps
    PROVE  /\ Append(ws, s) \in Seq(Steps)
           /\ Len(Append(ws, s)) = Len(ws) + 1
           /\ WrittenFor(Append(ws, s), Len(ws) + 1, s)
           /\ \A v, t : WrittenFor(ws, v, t) => WrittenFor(Append(ws, s), v, t)
  BY DEF WrittenFor


\* LateWrite, for a request that was on its way or not, adds at most one write.
LEMMA LateWriteGrows ==
    ASSUME TypeOK, NEW a \in Attempts, LateWrite(a)
    PROVE  /\ writes' \in Seq(Steps)
           /\ \A v, t : WrittenFor(writes, v, t) => WrittenFor(writes', v, t)
           /\ Len(writes') = Len(writes)
                \/ (attempt[a].call = "upstream" /\ Len(writes') = Len(writes) + 1)
<1>1. writes \in Seq(Steps) /\ attempt[a].step \in Steps
  BY AttemptFields, Zenon DEF TypeOK
<1>2. CASE writes' = writes
  BY <1>1, <1>2, Zenon
<1>3. CASE attempt[a].call = "upstream" /\ writes' = Append(writes, attempt[a].step)
  BY <1>1, <1>3, WriteStays, Zenon
<1> QED
  BY <1>2, <1>3, Zenon DEF LateWrite

\* The sweep takes the lease and leaves the worker at its place.
LEMMA ExpireEffect ==
    ASSUME TypeOK, NEW a \in Attempts, expire_lease(a)
    PROVE  Becomes(a, FALSE, attempt[a].worker, attempt[a].answer, attempt[a].call,
                   attempt[a].result)
<1> DEFINE x == [attempt[a] EXCEPT !.live = FALSE]
<1>1. attempt[a] \in AttemptRow
  BY AttemptFields, Zenon
<1>2. /\ x \in AttemptRow /\ x.step = attempt[a].step /\ x.live = FALSE
      /\ x.worker = attempt[a].worker /\ x.answer = attempt[a].answer
      /\ x.call = attempt[a].call /\ x.result = attempt[a].result
  BY <1>1, Zenon DEF AttemptRow
<1>3. attempt' = [attempt EXCEPT ![a] = x]
  BY Zenon DEF expire_lease
<1> HIDE DEF x
<1> QED
  BY <1>2, <1>3, OneMoves, Zenon

\* A worker that is refused, completes or fails is through, and its handler goes on.
LEMMA EndedEffect ==
    ASSUME TypeOK, NEW a \in Attempts, attempt' = [attempt EXCEPT ![a] = Ended(@)]
    PROVE  Becomes(a, FALSE, "done", None,
                   IF attempt[a].call \in Handled THEN attempt[a].call ELSE "none",
                   IF attempt[a].call = "written" THEN attempt[a].result ELSE None)
<1> DEFINE x == Ended(attempt[a])
<1>1. attempt[a] \in AttemptRow
  BY AttemptFields, Zenon
<1>2. /\ x \in AttemptRow
      /\ x.step = attempt[a].step /\ x.live = FALSE
      /\ x.worker = "done" /\ x.answer = None
      /\ x.call = (IF attempt[a].call \in Handled THEN attempt[a].call ELSE "none")
      /\ x.result = (IF attempt[a].call = "written" THEN attempt[a].result ELSE None)
  BY <1>1, EndedFields, Zenon
<1>3. attempt' = [attempt EXCEPT ![a] = x]
  OBVIOUS
<1> HIDE DEF x
<1>4. Becomes(a, x.live, x.worker, x.answer, x.call, x.result)
  BY <1>2, <1>3, OneMoves, Zenon
<1> QED
  BY <1>2, <1>4, Zenon

\* Reuse and PostResult move the worker alone.
LEMMA WorkerEffect ==
    ASSUME TypeOK, NEW a \in Attempts, NEW w \in Workers,
           attempt' = [attempt EXCEPT ![a] = [@ EXCEPT !.worker = w]]
    PROVE  Becomes(a, attempt[a].live, w, attempt[a].answer, attempt[a].call, attempt[a].result)
<1> DEFINE x == [attempt[a] EXCEPT !.worker = w]
<1>1. attempt[a] \in AttemptRow
  BY AttemptFields, Zenon
<1>2. /\ x \in AttemptRow /\ x.step = attempt[a].step /\ x.live = attempt[a].live
      /\ x.worker = w /\ x.answer = attempt[a].answer
      /\ x.call = attempt[a].call /\ x.result = attempt[a].result
  BY <1>1, Zenon DEF AttemptRow
<1>3. attempt' = [attempt EXCEPT ![a] = x]
  OBVIOUS
<1> HIDE DEF x
<1>4. Becomes(a, x.live, x.worker, x.answer, x.call, x.result)
  BY <1>2, <1>3, OneMoves, Zenon
<1> QED
  BY <1>2, <1>4, Zenon

\* PostCalled: the worker waits, and its request is queued at the gateway or lost.
LEMMA CalledEffect ==
    ASSUME TypeOK, NEW a \in Attempts, NEW c \in Calls,
           attempt' = [attempt EXCEPT ![a] = [@ EXCEPT !.worker = "waiting", !.call = c]]
    PROVE  Becomes(a, attempt[a].live, "waiting", attempt[a].answer, c, attempt[a].result)
<1> DEFINE x == [attempt[a] EXCEPT !.worker = "waiting", !.call = c]
<1>1. attempt[a] \in AttemptRow
  BY AttemptFields, Zenon
<1>2. /\ x \in AttemptRow /\ x.step = attempt[a].step /\ x.live = attempt[a].live
      /\ x.worker = "waiting" /\ x.answer = attempt[a].answer
      /\ x.call = c /\ x.result = attempt[a].result
  BY <1>1, Zenon DEF AttemptRow, Workers
<1>3. attempt' = [attempt EXCEPT ![a] = x]
  OBVIOUS
<1> HIDE DEF x
<1>4. Becomes(a, x.live, x.worker, x.answer, x.call, x.result)
  BY <1>2, <1>3, OneMoves, Zenon
<1> QED
  BY <1>2, <1>4, Zenon

\* KernosNetworkError: the worker goes on without an answer.
LEMMA UnreachableEffect ==
    ASSUME TypeOK, NEW a \in Attempts, Unreachable(a)
    PROVE  Becomes(a, attempt[a].live, "answered", None, attempt[a].call, attempt[a].result)
<1> DEFINE x == [attempt[a] EXCEPT !.worker = "answered", !.answer = None, !.retriable = TRUE]
<1>1. attempt[a] \in AttemptRow
  BY AttemptFields, Zenon
<1>2. /\ x \in AttemptRow /\ x.step = attempt[a].step /\ x.live = attempt[a].live
      /\ x.worker = "answered" /\ x.answer = None
      /\ x.call = attempt[a].call /\ x.result = attempt[a].result
  BY <1>1, Zenon DEF AttemptRow, Workers, None
<1>3. attempt' = [attempt EXCEPT ![a] = x]
  BY Zenon DEF Unreachable
<1> HIDE DEF x
<1>4. Becomes(a, x.live, x.worker, x.answer, x.call, x.result)
  BY <1>2, <1>3, OneMoves, Zenon
<1> QED
  BY <1>2, <1>4, Zenon

\* The gateway's answer is the worker's: an ok brings the result, any other code none.
LEMMA ReceiveEffect ==
    ASSUME TypeOK, NEW a \in Attempts, Receive(a)
    PROVE  Becomes(a, attempt[a].live, "answered",
                   IF attempt[a].call = "ok" THEN attempt[a].result ELSE None, "none", None)
<1> DEFINE v == IF attempt[a].call = "ok" THEN attempt[a].result ELSE None
           r == attempt[a].call = "upstream_error"
           x == [attempt[a] EXCEPT !.worker = "answered", !.answer = v, !.retriable = r,
                                   !.call = "none", !.result = None]
<1>1. attempt[a] \in AttemptRow
  BY AttemptFields, Zenon
<1>2. v \in Nat /\ r \in BOOLEAN
  BY AttemptFields, Zenon DEF None
<1>3. attempt' = [attempt EXCEPT ![a] = x]
  BY Zenon DEF Receive
<1> HIDE DEF v, r
<1>4. x \in AttemptRow
  BY <1>1, <1>2, Zenon DEF AttemptRow, Workers, Calls, None
<1>5. /\ x.step = attempt[a].step /\ x.live = attempt[a].live /\ x.worker = "answered"
      /\ x.answer = v /\ x.call = "none" /\ x.result = None
  BY <1>1, Zenon DEF AttemptRow
<1> HIDE DEF x
<1>6. Becomes(a, x.live, x.worker, x.answer, x.call, x.result)
  BY <1>3, <1>4, <1>5, OneMoves, Zenon
<1>7. Becomes(a, attempt[a].live, "answered", v, "none", None)
  BY <1>5, <1>6, Zenon
<1> QED
  BY <1>7, Zenon DEF v

\* The gateway's handler moves: the worker and its lease stay as they are.
LEMMA CallEffect ==
    ASSUME TypeOK, NEW a \in Attempts, NEW c \in Calls, NEW r \in Nat,
           attempt' = [attempt EXCEPT ![a] = [@ EXCEPT !.call = c, !.result = r]]
    PROVE  Becomes(a, attempt[a].live, attempt[a].worker, attempt[a].answer, c, r)
<1> DEFINE x == [attempt[a] EXCEPT !.call = c, !.result = r]
<1>1. attempt[a] \in AttemptRow
  BY AttemptFields, Zenon
<1>2. /\ x \in AttemptRow /\ x.step = attempt[a].step /\ x.live = attempt[a].live
      /\ x.worker = attempt[a].worker /\ x.answer = attempt[a].answer
      /\ x.call = c /\ x.result = r
  BY <1>1, Zenon DEF AttemptRow
<1>3. attempt' = [attempt EXCEPT ![a] = x]
  OBVIOUS
<1> HIDE DEF x
<1>4. Becomes(a, x.live, x.worker, x.answer, x.call, x.result)
  BY <1>2, <1>3, OneMoves, Zenon
<1> QED
  BY <1>2, <1>4, Zenon

\* An answer reaches the worker that waits for it and nobody else.
LEMMA AnsweredEffect ==
    ASSUME TypeOK, NEW a \in Attempts, NEW c \in Calls, NEW r \in Nat, Answered(a, c, r)
    PROVE  Becomes(a, attempt[a].live, attempt[a].worker, attempt[a].answer,
                   IF attempt[a].worker = "waiting" THEN c ELSE "none",
                   IF attempt[a].worker = "waiting" THEN r ELSE None)
<1> DEFINE d == IF attempt[a].worker = "waiting" THEN c ELSE "none"
           q == IF attempt[a].worker = "waiting" THEN r ELSE None
<1>1. d \in Calls /\ q \in Nat
  BY Zenon DEF Calls, None
<1>2. attempt' = [attempt EXCEPT ![a] = [@ EXCEPT !.call = d, !.result = q]]
  BY Zenon DEF Answered
<1> HIDE DEF d, q
<1>3. Becomes(a, attempt[a].live, attempt[a].worker, attempt[a].answer, d, q)
  BY <1>1, <1>2, CallEffect, Zenon
<1> QED
  BY <1>3, Zenon DEF d, q

\* A call for which the store has no row goes upstream with the lock.
LEMMA UpstreamEffect ==
    ASSUME TypeOK, NEW a \in Attempts,
           attempt' = [attempt EXCEPT ![a] = [@ EXCEPT !.call = "upstream"]]
    PROVE  Becomes(a, attempt[a].live, attempt[a].worker, attempt[a].answer, "upstream",
                   attempt[a].result)
<1> DEFINE x == [attempt[a] EXCEPT !.call = "upstream"]
<1>1. attempt[a] \in AttemptRow
  BY AttemptFields, Zenon
<1>2. /\ x \in AttemptRow /\ x.step = attempt[a].step /\ x.live = attempt[a].live
      /\ x.worker = attempt[a].worker /\ x.answer = attempt[a].answer
      /\ x.call = "upstream" /\ x.result = attempt[a].result
  BY <1>1, Zenon DEF AttemptRow, Calls, Handled
<1>3. attempt' = [attempt EXCEPT ![a] = x]
  OBVIOUS
<1> HIDE DEF x
<1>4. Becomes(a, x.live, x.worker, x.answer, x.call, x.result)
  BY <1>2, <1>3, OneMoves, Zenon
<1> QED
  BY <1>2, <1>4, Zenon

\* A lease adds one attempt, whose worker starts with the result the log holds.
LEMMA LeaseEffect ==
    ASSUME TypeOK, OneResultPerStep, NEW s \in Steps, lease(s)
    PROVE  /\ attempt' \in Seq(AttemptRow)
           /\ Len(attempt') = Len(attempt) + 1
           /\ \A b \in Attempts : attempt'[b] = attempt[b]
           /\ attempt'[Len(attempt) + 1] =
                [step |-> s, live |-> TRUE, worker |-> "start",
                 answer |-> _prior_result(log[s]), retriable |-> TRUE,
                 call |-> "none", result |-> None]
<1> DEFINE x == [step |-> s, live |-> TRUE, worker |-> "start",
                 answer |-> _prior_result(log[s]), retriable |-> TRUE,
                 call |-> "none", result |-> None]
<1>1. _prior_result(log[s]) \in Nat
  BY PriorResult, Zenon DEF TypeOK, OneResultPerStep
<1>2. x \in AttemptRow
  BY <1>1, Zenon DEF AttemptRow, Workers, Calls, None
<1>3. attempt' = Append(attempt, x) /\ attempt \in Seq(AttemptRow)
  BY Zenon DEF lease, TypeOK
<1> HIDE DEF x
<1>4. /\ attempt' \in Seq(AttemptRow) /\ Len(attempt') = Len(attempt) + 1
      /\ \A b \in Attempts : attempt'[b] = attempt[b]
      /\ attempt'[Len(attempt) + 1] = x
  BY <1>2, <1>3 DEF Attempts
<1> QED
  BY <1>4, Zenon DEF x

\* A crash of the gateway ends every handler and leaves the workers as they are.
LEMMA CrashEffect ==
    ASSUME TypeOK, Crash
    PROVE  /\ attempt' \in Seq(AttemptRow)
           /\ Len(attempt') = Len(attempt)
           /\ \A b \in Attempts :
                /\ attempt'[b].step = attempt[b].step /\ attempt'[b].live = attempt[b].live
                /\ attempt'[b].worker = attempt[b].worker
                /\ attempt'[b].answer = attempt[b].answer
                /\ attempt'[b].call = "none" /\ attempt'[b].result = None
<1>1. Len(attempt) \in Nat
  BY DEF TypeOK
<1>2. \A b \in Attempts : attempt[b] \in AttemptRow
  BY AttemptFields, Zenon
<1>3. attempt' = [b \in 1 .. Len(attempt) |-> [attempt[b] EXCEPT !.call = "none", !.result = None]]
  BY Zenon DEF Crash, Attempts
<1>4. \A b \in Attempts : [attempt[b] EXCEPT !.call = "none", !.result = None] \in AttemptRow
  BY <1>2, Zenon DEF AttemptRow, Calls, None
<1>5. attempt' \in Seq(AttemptRow) /\ Len(attempt') = Len(attempt)
  <2>1. attempt' \in [1 .. Len(attempt) -> AttemptRow]
    BY <1>3, <1>4, Zenon DEF Attempts
  <2>2. attempt' \in Seq(AttemptRow)
    BY <1>1, <2>1, SeqDef, Zenon
  <2>3. DOMAIN attempt' = 1 .. Len(attempt)
    BY <2>1, Zenon
  <2> QED
    BY <1>1, <2>2, <2>3, LenProperties
<1>6. \A b \in Attempts : attempt'[b] = [attempt[b] EXCEPT !.call = "none", !.result = None]
  BY <1>3, Zenon DEF Attempts
<1> QED
  BY <1>2, <1>5, <1>6, Zenon DEF AttemptRow

-----------------------------------------------------------------------------
(* Types.                                                                  *)

\* The steps of the kernel's handlers, of the worker and of the gateway keep the types.
LEMMA TypesKept ==
    ASSUME TypeOK, OneResultPerStep, LockIsExclusive, [Next]_vars
    PROVE  TypeOK'
<1> USE DEF None
<1>1. ASSUME NEW s \in Steps, lease(s)
      PROVE  TypeOK'
  BY <1>1, LeaseEffect, Zenon DEF TypeOK, lease
<1>2. ASSUME NEW a \in Attempts, expire_lease(a)
      PROVE  TypeOK'
  BY <1>2, ExpireEffect, AttemptFields, Zenon DEF TypeOK, expire_lease, Becomes
<1>3. ASSUME NEW a \in Attempts, Refused(a)
      PROVE  TypeOK'
  BY <1>3, EndedEffect, Zenon DEF TypeOK, Refused, Becomes
<1>4. ASSUME NEW a \in Attempts, Reuse(a)
      PROVE  TypeOK'
  BY <1>4, WorkerEffect, Zenon DEF TypeOK, Reuse, Becomes, Workers
<1>5. ASSUME NEW a \in Attempts, PostCalled(a)
      PROVE  TypeOK'
  <2>1. PICK c \in {"queued", "none"} :
           attempt' = [attempt EXCEPT ![a] = [@ EXCEPT !.worker = "waiting", !.call = c]]
    BY <1>5, Zenon DEF PostCalled
  <2>2. attempt' \in Seq(AttemptRow)
    BY <2>1, CalledEffect, Zenon DEF Becomes, Calls, Handled
  <2>3. Event("called", None) \in EventRow /\ attempt[a].step \in Steps
    BY AttemptFields, Zenon DEF Event, EventRow
  <2>4. log' \in [Steps -> Seq(EventRow)]
    BY <1>5, <2>3 DEF PostCalled, TypeOK
  <2> QED
    BY <1>5, <2>2, <2>4, Zenon DEF TypeOK, PostCalled
<1>6. ASSUME NEW a \in Attempts, Unreachable(a)
      PROVE  TypeOK'
  BY <1>6, UnreachableEffect, Zenon DEF TypeOK, Unreachable, Becomes
<1>7. ASSUME NEW a \in Attempts, Receive(a)
      PROVE  TypeOK'
  BY <1>7, ReceiveEffect, Zenon DEF TypeOK, Receive, Becomes
<1>8. ASSUME NEW a \in Attempts, PostResult(a)
      PROVE  TypeOK'
  <2>1. attempt' \in Seq(AttemptRow)
    BY <1>8, WorkerEffect, Zenon DEF PostResult, Becomes, Workers
  <2>2. Event("result", attempt[a].answer) \in EventRow /\ attempt[a].step \in Steps
    BY AttemptFields, Zenon DEF Event, EventRow
  <2>3. log' \in [Steps -> Seq(EventRow)]
    BY <1>8, <2>2 DEF PostResult, TypeOK
  <2> QED
    BY <1>8, <2>1, <2>3, Zenon DEF TypeOK, PostResult
<1>9. ASSUME NEW a \in Attempts, complete(a)
      PROVE  TypeOK'
  BY <1>9, EndedEffect, AttemptFields, Zenon DEF TypeOK, complete, Becomes
<1>10. ASSUME NEW a \in Attempts, fail(a)
       PROVE  TypeOK'
  <2>1. attempt' \in Seq(AttemptRow) /\ attempt[a].step \in Steps
    BY <1>10, EndedEffect, AttemptFields, Zenon DEF fail, Becomes
  <2>2. failed' \in [Steps -> [all: Nat, deterministic: Nat]]
    BY <1>10, <2>1 DEF TypeOK, fail
  <2>3. status' \in [Steps -> {"scheduled", "leased", "completed", "quarantined"}]
    BY <1>10, <2>1, Zenon DEF TypeOK, fail
  <2> QED
    BY <1>10, <2>1, <2>2, <2>3, Zenon DEF TypeOK, fail
<1>11. ASSUME NEW a \in Attempts, Lookup(a)
       PROVE  TypeOK'
  <2>1. attempt' \in Seq(AttemptRow)
    BY <1>11, UpstreamEffect, AnsweredEffect, Zenon DEF Lookup, Becomes, TypeOK, Calls
  <2>2. holder' \in Nat
    BY <1>11 DEF Lookup, TypeOK, Attempts
  <2> QED
    BY <1>11, <2>1, <2>2, Zenon DEF TypeOK, Lookup
<1>12. ASSUME NEW a \in Attempts, Refuse(a)
       PROVE  TypeOK'
  BY <1>12, AnsweredEffect, Zenon DEF TypeOK, Refuse, Becomes, Calls
<1>13. ASSUME NEW a \in Attempts, Write(a)
       PROVE  TypeOK'
  <2>1. attempt[a].step \in Steps /\ Len(writes) + 1 \in Nat
    BY AttemptFields DEF TypeOK
  <2>2. attempt' \in Seq(AttemptRow)
    BY <1>13, <2>1, CallEffect, Zenon DEF Write, Becomes, Calls, Handled
  <2>3. writes' \in Seq(Steps)
    BY <1>13, <2>1 DEF TypeOK, Write
  <2> QED
    BY <1>13, <2>2, <2>3, Zenon DEF TypeOK, Write
<1>14. ASSUME NEW a \in Attempts, UpstreamError(a)
       PROVE  TypeOK'
  BY <1>14, AnsweredEffect, Zenon DEF TypeOK, UpstreamError, Becomes, Calls
<1>15. ASSUME NEW a \in Attempts, Timeout(a)
       PROVE  TypeOK'
  <2>1. attempt' \in Seq(AttemptRow)
    BY <1>15, AnsweredEffect, Zenon DEF Timeout, Becomes, Calls
  <2>2. writes' \in Seq(Steps)
    BY <1>15, LateWriteGrows, Zenon DEF Timeout
  <2>3. lost' \in Nat /\ holder' \in Nat
    BY <1>15 DEF TypeOK, Timeout
  <2> QED
    BY <1>15, <2>1, <2>2, <2>3, Zenon DEF TypeOK, Timeout
<1>16. ASSUME NEW a \in Attempts, Save(a)
       PROVE  TypeOK'
  <2>1. attempt[a].result \in Nat
    BY AttemptFields, Zenon
  <2>2. attempt' \in Seq(AttemptRow)
    BY <1>16, <2>1, AnsweredEffect, Zenon DEF Save, Becomes, Calls
  <2>3. row'.result \in Nat /\ lost' \in Nat
    BY <1>16, <2>1 DEF Save, TypeOK
  <2> QED
    BY <1>16, <2>2, <2>3, Zenon DEF TypeOK, Save
<1>17. ASSUME Crash
       PROVE  TypeOK'
  <2>1. attempt' \in Seq(AttemptRow)
    BY <1>17, CrashEffect
  <2>2. writes' \in Seq(Steps) /\ lost' \in Nat
    <3>1. CASE holder = 0
      BY <1>17, <3>1, Zenon DEF Crash, TypeOK
    <3>2. CASE holder # 0
      <4>1. holder \in Attempts
        BY <3>2, Zenon DEF LockIsExclusive
      <4>2. LateWrite(holder) /\ lost' = lost + 1
        BY <1>17, <3>2, Zenon DEF Crash
      <4> QED
        BY <4>1, <4>2, LateWriteGrows DEF TypeOK
    <3> QED
      BY <3>1, <3>2, Zenon
  <2> QED
    BY <1>17, <2>1, <2>2, Zenon DEF TypeOK, Crash
<1>18. ASSUME Expire
       PROVE  TypeOK'
  BY <1>18 DEF TypeOK, Expire, NoRow
<1>19. CASE UNCHANGED vars
  BY <1>19, Zenon DEF TypeOK, vars
<1> QED
  BY <1>1, <1>2, <1>3, <1>4, <1>5, <1>6, <1>7, <1>8, <1>9, <1>10, <1>11, <1>12, <1>13, <1>14,
     <1>15, <1>16, <1>17, <1>18, <1>19, Zenon
  DEF Next, Worker, Gateway

-----------------------------------------------------------------------------
(* The lock and the writes.                                                *)

\* A step outside the gateway: the lock, the store, the upstream and the handlers that
\* hold the lock are left alone.
GatewaySame ==
    /\ holder' = holder /\ row' = row /\ writes' = writes /\ lost' = lost
    /\ Len(attempt') >= Len(attempt)
    /\ \A b \in Attempts : \A c \in {"upstream", "written"} :
          attempt'[b].call = c <=> attempt[b].call = c
    /\ \A b \in 1 .. Len(attempt') :
          /\ b \notin Attempts => attempt'[b].call = "none"
          /\ attempt'[b].worker = "start" => attempt'[b].call = "none"

\* What the kernel and the worker do leaves the lock with its call and the writes known.
LEMMA GatewaySameKept ==
    ASSUME TypeOK, TypeOK', LockIsExclusive, WritesAreKnown, GatewaySame
    PROVE  LockIsExclusive' /\ WritesAreKnown'
<1>1. Len(attempt) \in Nat /\ Len(attempt') \in Nat /\ holder \in Nat
  <2>1. attempt \in Seq(AttemptRow) /\ attempt' \in Seq(AttemptRow) /\ holder \in Nat
    BY Zenon DEF TypeOK
  <2> QED
    BY <2>1
<1>2. ASSUME NEW b \in 1 .. Len(attempt')
      PROVE  /\ attempt'[b].call \in {"upstream", "written"} <=> holder = b
             /\ attempt'[b].worker = "start" => attempt'[b].call = "none"
  BY <1>1, <1>2 DEF GatewaySame, LockIsExclusive, Attempts
<1>3. holder # 0 => holder \in Attempts /\ holder \in 1 .. Len(attempt') /\ row = NoRow
  BY <1>1 DEF GatewaySame, LockIsExclusive, Attempts
<1>4. LockIsExclusive'
  BY <1>2, <1>3, Zenon DEF GatewaySame, LockIsExclusive, Attempts
<1>5. WritesAreKnown'
  BY <1>3, Zenon DEF GatewaySame, WritesAreKnown
<1> QED
  BY <1>4, <1>5, Zenon

\* One attempt's move that takes no call past the lookup or back is of that kind.
LEMMA MovesOutside ==
    ASSUME TypeOK, LockIsExclusive, NEW a \in Attempts, NEW l, NEW w, NEW v, NEW c, NEW r,
           Becomes(a, l, w, v, c, r), UNCHANGED <<holder, row, writes, lost>>,
           c \in {"upstream", "written"} \/ attempt[a].call \in {"upstream", "written"}
              => c = attempt[a].call,
           w = "start" => c = "none"
    PROVE  GatewaySame
<1>1. Len(attempt) \in Nat
  BY DEF TypeOK
<1>2. /\ Len(attempt') = Len(attempt) /\ \A b \in Attempts \ {a} : attempt'[b] = attempt[b]
      /\ attempt'[a].worker = w /\ attempt'[a].call = c
  BY Zenon DEF Becomes
<1>3. ASSUME NEW b \in Attempts
      PROVE  /\ attempt'[b].worker = "start" => attempt'[b].call = "none"
             /\ \A k \in {"upstream", "written"} : attempt'[b].call = k <=> attempt[b].call = k
  <2>1. CASE b = a
    BY <1>2, <2>1, Zenon
  <2>2. CASE b # a
    BY <1>2, <2>2, Zenon DEF LockIsExclusive
  <2> QED
    BY <2>1, <2>2, Zenon
<1> QED
  BY <1>1, <1>2, <1>3 DEF GatewaySame, Attempts

\* The kernel's handlers and the worker's steps are of that kind.
LEMMA OutsideTheGateway ==
    ASSUME TypeOK, LockIsExclusive, OneResultPerStep,
           \/ \E s \in Steps : lease(s)
           \/ \E a \in Attempts : expire_lease(a) \/ Worker(a)
    PROVE  GatewaySame
<1>0. Len(attempt) \in Nat
  BY DEF TypeOK
<1>1. ASSUME NEW s \in Steps, lease(s)
      PROVE  GatewaySame
  BY <1>0, <1>1, LeaseEffect DEF GatewaySame, lease, Attempts, LockIsExclusive
<1>3. ASSUME NEW a \in Attempts, expire_lease(a)
      PROVE  GatewaySame
  <2>1. Becomes(a, FALSE, attempt[a].worker, attempt[a].answer, attempt[a].call, attempt[a].result)
    BY <1>3, ExpireEffect, Zenon
  <2>2. /\ UNCHANGED <<holder, row, writes, lost>>
        /\ attempt[a].worker = "start" => attempt[a].call = "none"
    BY <1>3, Zenon DEF expire_lease, LockIsExclusive
  <2> QED
    BY MovesOutside, <2>1, <2>2, Zenon
<1>4. ASSUME NEW a \in Attempts, Refused(a) \/ complete(a) \/ fail(a)
      PROVE  GatewaySame
  <2> DEFINE c == IF attempt[a].call \in Handled THEN attempt[a].call ELSE "none"
             r == IF attempt[a].call = "written" THEN attempt[a].result ELSE None
  <2>1. attempt' = [attempt EXCEPT ![a] = Ended(@)] /\ UNCHANGED <<holder, row, writes, lost>>
    BY <1>4 DEF Refused, complete, fail
  <2>2. Becomes(a, FALSE, "done", None, c, r)
    BY <2>1, EndedEffect, Zenon
  <2>3. c \in {"upstream", "written"} \/ attempt[a].call \in {"upstream", "written"}
           => c = attempt[a].call
    BY DEF Handled
  <2> HIDE DEF c, r
  <2> QED
    BY MovesOutside, <2>1, <2>2, <2>3, Zenon
<1>5. ASSUME NEW a \in Attempts, Reuse(a) \/ PostResult(a)
      PROVE  GatewaySame
  <2>1. PICK w \in {"failing", "completing"} :
           attempt' = [attempt EXCEPT ![a] = [@ EXCEPT !.worker = w]]
    BY <1>5, Zenon DEF Reuse, PostResult
  <2>2. w \in Workers /\ w # "start"
    BY Zenon DEF Workers
  <2>3. Becomes(a, attempt[a].live, w, attempt[a].answer, attempt[a].call, attempt[a].result)
    BY <2>1, <2>2, WorkerEffect, Zenon
  <2>4. UNCHANGED <<holder, row, writes, lost>>
    BY <1>5, Zenon DEF Reuse, PostResult
  <2> QED
    BY MovesOutside, <2>2, <2>3, <2>4, Zenon
<1>6. ASSUME NEW a \in Attempts, PostCalled(a)
      PROVE  GatewaySame
  <2>1. PICK c \in {"queued", "none"} :
           attempt' = [attempt EXCEPT ![a] = [@ EXCEPT !.worker = "waiting", !.call = c]]
    BY <1>6, Zenon DEF PostCalled
  <2>2. c \in Calls /\ c \notin {"upstream", "written"}
    BY Zenon DEF Calls, Handled
  <2>3. Becomes(a, attempt[a].live, "waiting", attempt[a].answer, c, attempt[a].result)
    BY <2>1, <2>2, CalledEffect, Zenon
  <2>4. /\ UNCHANGED <<holder, row, writes, lost>>
        /\ attempt[a].worker = "start"
    BY <1>6, Zenon DEF PostCalled
  <2>5. attempt[a].call = "none"
    BY <2>4, Zenon DEF LockIsExclusive
  <2> QED
    BY MovesOutside, <2>2, <2>3, <2>4, <2>5
<1>7. ASSUME NEW a \in Attempts, Unreachable(a)
      PROVE  GatewaySame
  <2>1. Becomes(a, attempt[a].live, "answered", None, attempt[a].call, attempt[a].result)
    BY <1>7, UnreachableEffect, Zenon
  <2>2. UNCHANGED <<holder, row, writes, lost>>
    BY <1>7, Zenon DEF Unreachable
  <2> QED
    BY MovesOutside, <2>1, <2>2
<1>8. ASSUME NEW a \in Attempts, Receive(a)
      PROVE  GatewaySame
  <2>1. PICK v : Becomes(a, attempt[a].live, "answered", v, "none", None)
    BY <1>8, ReceiveEffect, Zenon
  <2>2. UNCHANGED <<holder, row, writes, lost>> /\ attempt[a].call \notin {"upstream", "written"}
    BY <1>8 DEF Receive
  <2> QED
    BY MovesOutside, <2>1, <2>2
<1> QED
  BY <1>1, <1>3, <1>4, <1>5, <1>6, <1>7, <1>8 DEF Worker

\* A handler's step that lets go of the lock: its call is answered or given up, and the
\* writes the store is not told of are lost.
LEMMA LockLetGo ==
    ASSUME TypeOK, TypeOK', LockIsExclusive, NEW a \in Attempts, holder = a,
           NEW l, NEW v, NEW c, NEW r, c \notin {"upstream", "written"},
           Becomes(a, l, attempt[a].worker, v, c, r), holder' = 0
    PROVE  LockIsExclusive'
<1>1. Len(attempt) \in Nat /\ Len(attempt') = Len(attempt) /\ 0 \notin Attempts
  BY DEF TypeOK, Becomes, Attempts
<1>2. attempt[a].call \in {"upstream", "written"} /\ attempt[a].worker # "start"
  BY Zenon DEF LockIsExclusive
<1>3. ASSUME NEW b \in Attempts
      PROVE  /\ attempt'[b].call \notin {"upstream", "written"}
             /\ attempt'[b].worker = "start" => attempt'[b].call = "none"
             /\ b # 0
  <2>1. CASE b = a
    BY <1>1, <1>2, <2>1, Zenon DEF Becomes
  <2>2. CASE b # a
    BY <1>1, <2>2 DEF Becomes, LockIsExclusive
  <2> QED
    BY <2>1, <2>2, Zenon
<1> QED
  BY <1>1, <1>3, Zenon DEF LockIsExclusive, Attempts

\* handleCall keeps the lock with the one call past the lookup, and every write it made
\* is in the store, in the hands of the handler that holds the lock, or lost.
LEMMA GatewayKeepsLock ==
    ASSUME TypeOK, TypeOK', LockIsExclusive, WritesAreKnown, AnswersAreWrites,
           NEW a \in Attempts, Gateway(a)
    PROVE  LockIsExclusive' /\ WritesAreKnown'
<1>0. Len(attempt) \in Nat /\ holder \in Nat /\ 0 \notin Attempts /\ a # 0
      /\ Len(writes) \in Nat /\ lost \in Nat
  BY DEF TypeOK, Attempts
<1>1. attempt[a].call = "queued" =>
        attempt[a].worker # "start" /\ holder # a
  BY Zenon DEF LockIsExclusive
<1>2. ASSUME attempt[a].call = "queued", holder = 0, NEW c \in Calls, NEW r \in Nat,
             Answered(a, c, r), UNCHANGED <<holder, row, writes, lost>>,
             c \notin {"upstream", "written"}
      PROVE  LockIsExclusive' /\ WritesAreKnown'
  <2> DEFINE d == IF attempt[a].worker = "waiting" THEN c ELSE "none"
             q == IF attempt[a].worker = "waiting" THEN r ELSE None
  <2>1. Becomes(a, attempt[a].live, attempt[a].worker, attempt[a].answer, d, q)
    BY <1>2, AnsweredEffect, Zenon
  <2>2. d \notin {"upstream", "written"}
    BY <1>2
  <2> HIDE DEF d, q
  <2>3. GatewaySame
    BY <1>1, <1>2, <2>1, <2>2, MovesOutside
  <2> QED
    BY <2>3, GatewaySameKept, Zenon
<1>3. CASE Lookup(a)
  <2>1. CASE row = NoRow
    <3>1. /\ attempt[a].call = "queued" /\ holder = 0 /\ holder' = a
          /\ UNCHANGED <<row, writes, lost>>
          /\ attempt' = [attempt EXCEPT ![a] = [@ EXCEPT !.call = "upstream"]]
      BY <1>3, <2>1 DEF Lookup
    <3>2. Becomes(a, attempt[a].live, attempt[a].worker, attempt[a].answer, "upstream",
                  attempt[a].result)
      BY <3>1, UpstreamEffect, Zenon
    <3>3. LockIsExclusive'
      BY <1>0, <1>1, <2>1, <3>1, <3>2 DEF LockIsExclusive, Becomes, Attempts
    <3>4. WritesAreKnown'
      BY <2>1, <3>1 DEF WritesAreKnown
    <3> QED
      BY <3>3, <3>4, Zenon
  <2>2. CASE row # NoRow
    <3>1. /\ attempt[a].call = "queued" /\ holder = 0 /\ UNCHANGED <<holder, row, writes, lost>>
          /\ Answered(a, "ok", row.result) \/ Answered(a, "conflict", None)
      BY <1>3, <2>2 DEF Lookup
    <3>2. row.result \in Nat /\ None \in Nat /\ "ok" \in Calls /\ "conflict" \in Calls
      BY Zenon DEF TypeOK, None, Calls
    <3> QED
      BY <1>2, <3>1, <3>2, Zenon
  <2> QED
    BY <2>1, <2>2
<1>4. CASE Refuse(a)
  BY <1>2, <1>4 DEF Refuse, Calls, None
<1>5. CASE Write(a)
  <2>1. /\ attempt[a].call = "upstream" /\ holder = a /\ row = NoRow
        /\ UNCHANGED <<holder, row, lost>>
        /\ Len(writes') = Len(writes) + 1
    BY <1>5, AttemptFields, WriteStays DEF Write, LockIsExclusive, TypeOK
  <2>2. Becomes(a, attempt[a].live, attempt[a].worker, attempt[a].answer, "written",
                Len(writes) + 1)
    <3>1. attempt' = [attempt EXCEPT ![a] =
                        [@ EXCEPT !.call = "written", !.result = Len(writes) + 1]]
      BY <1>5 DEF Write
    <3>2. "written" \in Calls /\ Len(writes) + 1 \in Nat
      BY <1>0 DEF Calls, Handled
    <3> QED
      BY <3>1, <3>2, CallEffect, Zenon
  <2>3. LockIsExclusive'
    BY <1>0, <2>1, <2>2 DEF LockIsExclusive, Becomes, Attempts
  <2>4. Len(writes) <= lost
    BY <1>0, <2>1, Zenon DEF WritesAreKnown
  <2>5. WritesAreKnown'
    BY <1>0, <2>1, <2>2, <2>4 DEF WritesAreKnown, Becomes
  <2> QED
    BY <2>3, <2>5, Zenon
<1>6. ASSUME holder = a, holder' = 0, NEW c \in Calls, NEW r \in Nat, Answered(a, c, r),
             c \notin {"upstream", "written"}
      PROVE  LockIsExclusive'
  <2> DEFINE d == IF attempt[a].worker = "waiting" THEN c ELSE "none"
             q == IF attempt[a].worker = "waiting" THEN r ELSE None
  <2>1. Becomes(a, attempt[a].live, attempt[a].worker, attempt[a].answer, d, q)
    BY <1>6, AnsweredEffect
  <2>2. d \notin {"upstream", "written"}
    BY <1>6, Zenon
  <2> HIDE DEF d, q
  <2> QED
    BY <1>6, <2>1, <2>2, LockLetGo, Zenon
<1>7. attempt[a].call \in {"upstream", "written"} => holder = a /\ row = NoRow
  BY <1>0 DEF LockIsExclusive
<1>8. CASE UpstreamError(a)
  <2>1. LockIsExclusive'
    BY <1>6, <1>7, <1>8, Zenon DEF UpstreamError, Calls, None
  <2>2. WritesAreKnown'
    BY <1>7, <1>8 DEF UpstreamError, WritesAreKnown
  <2> QED
    BY <2>1, <2>2, Zenon
<1>9. CASE Timeout(a)
  <2>1. LockIsExclusive'
    BY <1>6, <1>7, <1>9 DEF Timeout, Calls, None
  <2>2. /\ lost' = lost + 1 /\ holder = a /\ row = NoRow
        /\ Len(writes') = Len(writes)
             \/ (attempt[a].call = "upstream" /\ Len(writes') = Len(writes) + 1)
    BY <1>7, <1>9, LateWriteGrows, Zenon DEF Timeout
  <2>3. Len(writes') <= lost'
    BY <1>0, <2>2 DEF WritesAreKnown
  <2> QED
    BY <2>1, <2>3, Zenon DEF WritesAreKnown
<1>10. CASE Save(a)
  <2>1. attempt[a].call = "written" /\ attempt[a].result # None /\ attempt[a].result \in Nat
    BY <1>10, AttemptFields DEF Save, AnswersAreWrites
  <2>2. LockIsExclusive'
    BY <1>6, <1>7, <1>10, <2>1 DEF Save, Calls
  <2>3. WritesAreKnown'
    BY <1>0, <1>7, <1>10, <2>1 DEF Save, WritesAreKnown, NoRow
  <2> QED
    BY <2>2, <2>3, Zenon
<1> QED
  BY <1>3, <1>4, <1>5, <1>8, <1>9, <1>10, Zenon DEF Gateway

\* So do all steps: a crash gives the held call's write up for lost, and the expiry of
\* the row the write it stood for.
LEMMA LockKept ==
    ASSUME TypeOK, TypeOK', LockIsExclusive, WritesAreKnown, AnswersAreWrites,
           OneResultPerStep, [Next]_vars
    PROVE  LockIsExclusive' /\ WritesAreKnown'
<1>0. Len(attempt) \in Nat /\ holder \in Nat /\ Len(writes) \in Nat /\ lost \in Nat
  BY DEF TypeOK
<1>1. ASSUME \/ \E s \in Steps : lease(s)
             \/ \E a \in Attempts : expire_lease(a) \/ Worker(a)
      PROVE  LockIsExclusive' /\ WritesAreKnown'
  BY <1>1, OutsideTheGateway, GatewaySameKept, Zenon
<1>2. ASSUME NEW a \in Attempts, Gateway(a)
      PROVE  LockIsExclusive' /\ WritesAreKnown'
  BY <1>2, GatewayKeepsLock, Zenon
<1>3. CASE Crash
  <2>1. LockIsExclusive'
    <3>1. holder' = 0 /\ Len(attempt') = Len(attempt)
      BY <1>3, CrashEffect, Zenon DEF Crash
    <3>2. \A b \in 1 .. Len(attempt) : attempt'[b].call = "none" /\ b # 0
      BY <1>3, CrashEffect DEF Attempts
    <3> QED
      BY <3>1, <3>2, Zenon DEF LockIsExclusive, Attempts
  <2>2. CASE holder = 0
    <3>1. UNCHANGED <<lost, writes, row>> /\ holder' = 0
      BY <1>3, <2>2, Zenon DEF Crash
    <3> QED
      BY <2>1, <2>2, <3>1, Zenon DEF WritesAreKnown
  <2>3. CASE holder # 0
    <3>1. holder \in Attempts /\ row = NoRow
      BY <2>3 DEF LockIsExclusive
    <3>2. lost' = lost + 1 /\ LateWrite(holder)
      BY <1>3, <2>3, Zenon DEF Crash
    <3>3. \/ Len(writes') = Len(writes)
          \/ attempt[holder].call = "upstream" /\ Len(writes') = Len(writes) + 1
      BY <3>1, <3>2, LateWriteGrows
    <3>4. Len(writes') <= lost'
      BY <1>0, <3>1, <3>2, <3>3 DEF WritesAreKnown
    <3> QED
      BY <2>1, <3>4, Zenon DEF WritesAreKnown
  <2> QED
    BY <2>1, <2>2, <2>3
<1>4. CASE Expire
  <2>1. /\ row' = NoRow /\ lost' = lost + 1 /\ UNCHANGED <<attempt, holder, writes>>
    BY <1>4 DEF Expire
  <2>2. LockIsExclusive'
    BY <2>1, Zenon DEF LockIsExclusive, Attempts
  <2>3. Len(writes') <= lost'
    BY <1>0, <2>1 DEF WritesAreKnown
  <2> QED
    BY <2>2, <2>3, Zenon DEF WritesAreKnown
<1>5. CASE UNCHANGED vars
  BY <1>5, Zenon DEF vars, LockIsExclusive, WritesAreKnown, Attempts
<1> QED
  BY <1>1, <1>2, <1>3, <1>4, <1>5, Zenon DEF Next

-----------------------------------------------------------------------------
(* Results are writes.                                                     *)

\* What was the result of a write stays one.
WritesStay == \A v, t : WrittenFor(writes, v, t) => WrittenFor(writes', v, t)

\* No step takes a write back.
LEMMA WritesOnlyGrow ==
    ASSUME TypeOK, LockIsExclusive, [Next]_vars
    PROVE  WritesStay
<1>1. ASSUME UNCHANGED writes
      PROVE  WritesStay
  BY <1>1, Zenon DEF WritesStay
<1>2. ASSUME NEW a \in Attempts, LateWrite(a)
      PROVE  WritesStay
  BY <1>2, LateWriteGrows DEF WritesStay
<1>3. ASSUME NEW a \in Attempts, Write(a)
      PROVE  WritesStay
  BY <1>3, AttemptFields, WriteStays, Zenon DEF Write, TypeOK, WritesStay
<1>4. ASSUME NEW a \in Attempts, Gateway(a)
      PROVE  WritesStay
  BY <1>1, <1>2, <1>3, <1>4 DEF Gateway, Lookup, Refuse, UpstreamError, Timeout, Save
<1>5. ASSUME NEW a \in Attempts, expire_lease(a) \/ Worker(a)
      PROVE  UNCHANGED writes
  BY <1>5, Zenon DEF expire_lease, Worker, Refused, Reuse, PostCalled, Unreachable, Receive,
              PostResult, complete, fail
<1>6. ASSUME Crash
      PROVE  WritesStay
  <2>1. CASE holder = 0
    BY <1>1, <1>6, <2>1, Zenon DEF Crash
  <2>2. CASE holder # 0
    BY <1>2, <1>6, <2>2, Zenon DEF Crash, LockIsExclusive
  <2> QED
    BY <2>1, <2>2, Zenon
<1>7. ASSUME (\E s \in Steps : lease(s)) \/ Expire \/ UNCHANGED vars
      PROVE  UNCHANGED writes
  BY <1>7, Zenon DEF lease, Expire, vars
<1> QED
  BY <1>1, <1>4, <1>5, <1>6, <1>7 DEF Next

\* The store's row keeps standing for a write: Save puts the one the handler made there.
LEMMA RowKept ==
    ASSUME TypeOK, LockIsExclusive, AnswersAreWrites, RowIsAWrite, [Next]_vars
    PROVE  RowIsAWrite'
<1>0. WritesStay
  BY WritesOnlyGrow
<1>1. ASSUME UNCHANGED row
      PROVE  RowIsAWrite'
  BY <1>0, <1>1, Zenon DEF RowIsAWrite, WritesStay
<1>2. ASSUME NEW a \in Attempts, Save(a)
      PROVE  RowIsAWrite'
  <2>1. CASE UNCHANGED row
    BY <1>1, <2>1, Zenon
  <2>2. CASE row' = [args |-> attempt[a].step, result |-> attempt[a].result]
    <3>1. attempt[a].result # None /\ WrittenFor(writes, attempt[a].result, attempt[a].step)
      BY <1>2, Zenon DEF Save, AnswersAreWrites
    <3>2. row'.args = attempt[a].step /\ row'.result = attempt[a].result
      BY <2>2
    <3> QED
      BY <1>0, <3>1, <3>2 DEF RowIsAWrite, WritesStay
  <2> QED
    BY <1>2, <2>1, <2>2 DEF Save
<1>3. ASSUME NEW a \in Attempts, Gateway(a)
      PROVE  RowIsAWrite'
  BY <1>1, <1>2, <1>3, Zenon DEF Gateway, Lookup, Refuse, Write, UpstreamError, Timeout
<1>4. ASSUME NEW a \in Attempts, expire_lease(a) \/ Worker(a)
      PROVE  UNCHANGED row
  BY <1>4, Zenon DEF expire_lease, Worker, Refused, Reuse, PostCalled, Unreachable, Receive,
              PostResult, complete, fail
<1>5. ASSUME (\E s \in Steps : lease(s)) \/ Crash \/ UNCHANGED vars
      PROVE  UNCHANGED row
  BY <1>5, Zenon DEF lease, Crash, vars
<1>6. ASSUME Expire
      PROVE  RowIsAWrite'
  BY <1>6 DEF Expire, RowIsAWrite
<1> QED
  BY <1>1, <1>3, <1>4, <1>5, <1>6, Zenon DEF Next

\* What a step adds to the log: nothing, an event that is no successful result, or the
\* answer of the live attempt that reports it (the worker's tool.called and tool.result).
LogMoves ==
    \/ UNCHANGED log
    \/ \E a \in Attempts : PostCalled(a) \/ PostResult(a)

\* Only the worker's two posts write tool events.
LEMMA LogByWorker ==
    ASSUME [Next]_vars
    PROVE  LogMoves
<1>1. ASSUME NEW a \in Attempts, Worker(a)
      PROVE  LogMoves
  BY <1>1 DEF Worker, Refused, Reuse, Unreachable, Receive, complete, fail, LogMoves
<1>2. ASSUME NEW a \in Attempts, expire_lease(a) \/ Gateway(a)
      PROVE  UNCHANGED log
  BY <1>2, Zenon DEF expire_lease, Gateway, Lookup, Refuse, Write, UpstreamError, Timeout, Save
<1>3. ASSUME (\E s \in Steps : lease(s)) \/ Crash \/ Expire \/ UNCHANGED vars
      PROVE  UNCHANGED log
  BY <1>3, Zenon DEF lease, Crash, Expire, vars
<1> QED
  BY <1>1, <1>2, <1>3 DEF Next, LogMoves

\* Step s's log gets an event with the successful result v, or no such event when v is
\* None; the other logs stay.
Logs(s, v) ==
    /\ \A t \in Steps \ {s} : log'[t] = log[t]
    /\ \A i \in Successes(log[s]) : log'[s][i] = log[s][i]
    /\ v = None => Successes(log'[s]) = Successes(log[s])
    /\ v # None =>
         /\ Successes(log'[s]) = Successes(log[s]) \cup {Len(log[s]) + 1}
         /\ log'[s][Len(log[s]) + 1].result = v

\* An event of that kind at the end of a step's log.
LEMMA EventLogs ==
    ASSUME TypeOK, NEW s \in Steps, NEW e \in EventRow, NEW v \in Nat,
           log' = [log EXCEPT ![s] = Append(@, e)],
           v = None => ~(e.kind = "result" /\ e.result # None),
           v # None => e.kind = "result" /\ e.result = v
    PROVE  Logs(s, v)
<1>1. log \in [Steps -> Seq(EventRow)] /\ log[s] \in Seq(EventRow)
  BY DEF TypeOK
<1>2. log'[s] = Append(log[s], e) /\ \A t \in Steps \ {s} : log'[t] = log[t]
  BY <1>1, Zenon
<1>3. CASE v = None
  <2>1. /\ Successes(Append(log[s], e)) = Successes(log[s])
        /\ \A i \in Successes(log[s]) : Append(log[s], e)[i] = log[s][i]
    BY <1>1, <1>3, OtherEvent, Zenon
  <2> QED
    BY <1>2, <1>3, <2>1, Zenon DEF Logs
<1>4. CASE v # None
  <2>1. /\ Successes(Append(log[s], e)) = Successes(log[s]) \cup {Len(log[s]) + 1}
        /\ \A i \in Successes(log[s]) : Append(log[s], e)[i] = log[s][i]
        /\ Append(log[s], e)[Len(log[s]) + 1] = e
    BY <1>1, <1>4, SuccessEvent, Zenon
  <2> QED
    BY <1>2, <1>4, <2>1, Zenon DEF Logs
<1> QED
  BY <1>3, <1>4, Zenon

\* tool.called is no result.
LEMMA CalledLogs ==
    ASSUME TypeOK, NEW a \in Attempts, PostCalled(a)
    PROVE  Logs(attempt[a].step, None)
<1>1. Event("called", None) \in EventRow /\ Event("called", None).kind # "result" /\ None \in Nat
  BY Zenon DEF Event, EventRow, None
<1>2. log' = [log EXCEPT ![attempt[a].step] = Append(@, Event("called", None))]
  BY DEF PostCalled
<1> QED
  BY <1>1, <1>2, AttemptFields, EventLogs, Zenon

\* tool.result is the worker's answer, successful unless it has none.
LEMMA ResultLogs ==
    ASSUME TypeOK, NEW a \in Attempts, PostResult(a)
    PROVE  Logs(attempt[a].step, attempt[a].answer)
<1> DEFINE e == Event("result", attempt[a].answer)
<1>1. e \in EventRow /\ e.kind = "result" /\ e.result = attempt[a].answer
  BY AttemptFields DEF Event, EventRow
<1>2. log' = [log EXCEPT ![attempt[a].step] = Append(@, e)]
  BY Zenon DEF PostResult
<1> HIDE DEF e
<1> QED
  BY <1>1, <1>2, AttemptFields, EventLogs, Zenon

\* The log keeps holding results of writes only: the worker reports the gateway's answer.
LEMMA LogKept ==
    ASSUME TypeOK, LockIsExclusive, AnswersAreWrites, LoggedAreWrites, [Next]_vars
    PROVE  LoggedAreWrites'
<1>0. WritesStay
  BY WritesOnlyGrow, Zenon
<1>1. ASSUME UNCHANGED log
      PROVE  LoggedAreWrites'
  BY <1>0, <1>1, Zenon DEF LoggedAreWrites, WritesStay
<1>2. ASSUME NEW s \in Steps, NEW v \in Nat, Logs(s, v), v # None => WrittenFor(writes, v, s)
      PROVE  LoggedAreWrites'
  <2> SUFFICES ASSUME NEW t \in Steps, NEW i \in Successes(log'[t])
               PROVE  WrittenFor(writes', log'[t][i].result, t)
    BY Zenon DEF LoggedAreWrites
  <2>1. WrittenFor(writes, log'[t][i].result, t)
    BY <1>2 DEF Logs, LoggedAreWrites
  <2> QED
    BY <1>0, <2>1 DEF WritesStay
<1>3. ASSUME NEW a \in Attempts, PostCalled(a)
      PROVE  LoggedAreWrites'
  BY <1>2, <1>3, CalledLogs, AttemptFields, Zenon DEF None
<1>4. ASSUME NEW a \in Attempts, PostResult(a)
      PROVE  LoggedAreWrites'
  BY <1>2, <1>4, ResultLogs, AttemptFields DEF AnswersAreWrites
<1> QED
  BY <1>1, <1>3, <1>4, LogByWorker DEF LogMoves

\* A move of one attempt to an answer and a result that are writes for its step.
LEMMA MoveIsBacked ==
    ASSUME TypeOK, AnswersAreWrites, WritesStay, NEW a \in Attempts,
           NEW l, NEW w, NEW v, NEW c, NEW r, Becomes(a, l, w, v, c, r),
           v # None => WrittenFor(writes', v, attempt[a].step),
           r # None => WrittenFor(writes', r, attempt[a].step),
           c = "written" => r # None
    PROVE  AnswersAreWrites'
<1>1. Len(attempt') = Len(attempt)
  BY Zenon DEF Becomes
<1> SUFFICES ASSUME NEW b \in 1 .. Len(attempt)
    PROVE  /\ attempt'[b].answer # None =>
                WrittenFor(writes', attempt'[b].answer, attempt'[b].step)
           /\ attempt'[b].result # None =>
                WrittenFor(writes', attempt'[b].result, attempt'[b].step)
           /\ attempt'[b].call = "written" => attempt'[b].result # None
  BY <1>1 DEF AnswersAreWrites, Attempts
<1>2. CASE b = a
  BY <1>2, Zenon DEF Becomes
<1>3. CASE b # a
  BY <1>3 DEF Becomes, AnswersAreWrites, WritesStay, Attempts
<1> QED
  BY <1>2, <1>3

\* An answer of the gateway that is no result, or the result of a write for the step.
LEMMA AnswerIsBacked ==
    ASSUME TypeOK, AnswersAreWrites, WritesStay, NEW a \in Attempts,
           NEW c \in Calls, NEW r \in Nat, Answered(a, c, r), c # "written",
           r # None => WrittenFor(writes', r, attempt[a].step)
    PROVE  AnswersAreWrites'
<1> DEFINE d == IF attempt[a].worker = "waiting" THEN c ELSE "none"
           q == IF attempt[a].worker = "waiting" THEN r ELSE None
<1>1. Becomes(a, attempt[a].live, attempt[a].worker, attempt[a].answer, d, q)
  BY AnsweredEffect
<1>2. d # "written" /\ (q # None => WrittenFor(writes', q, attempt[a].step))
  OBVIOUS
<1>3. attempt[a].answer # None => WrittenFor(writes', attempt[a].answer, attempt[a].step)
  BY DEF AnswersAreWrites, WritesStay
<1> HIDE DEF d, q
<1> QED
  BY <1>1, <1>2, <1>3, MoveIsBacked, Zenon

\* What the handlers and the workers hold as results are results of writes for the step
\* they are at: a replayed row has the step's arguments, a reused event is in its log.
LEMMA AnswersKept ==
    ASSUME TypeOK, LockIsExclusive, AnswersAreWrites, RowIsAWrite, LoggedAreWrites,
           OneResultPerStep, [Next]_vars
    PROVE  AnswersAreWrites'
<1>0. WritesStay
  BY WritesOnlyGrow
<1>1. \A a \in Attempts :
         /\ attempt[a].answer # None => WrittenFor(writes', attempt[a].answer, attempt[a].step)
         /\ attempt[a].result # None => WrittenFor(writes', attempt[a].result, attempt[a].step)
         /\ attempt[a].call = "written" => attempt[a].result # None
  BY <1>0, Zenon DEF AnswersAreWrites, WritesStay
<1>2. None \in Nat /\ {"ok", "conflict", "upstream_error", "deterministic_failure"} \subseteq Calls
  BY DEF None, Calls
<1>3. ASSUME NEW s \in Steps, lease(s)
      PROVE  AnswersAreWrites'
  <2> DEFINE n == Len(attempt) + 1
  <2>1. Len(attempt) \in Nat /\ log[s] \in Seq(EventRow) /\ \A i, j \in Successes(log[s]) : i = j
    BY DEF TypeOK, OneResultPerStep
  <2>2. /\ Len(attempt') = Len(attempt) + 1 /\ \A b \in Attempts : attempt'[b] = attempt[b]
        /\ attempt'[n].step = s /\ attempt'[n].answer = _prior_result(log[s])
        /\ attempt'[n].result = None /\ attempt'[n].call = "none"
    <3>1. attempt'[n] = [step |-> s, live |-> TRUE, worker |-> "start",
                         answer |-> _prior_result(log[s]), retriable |-> TRUE,
                         call |-> "none", result |-> None]
      BY <1>3, LeaseEffect
    <3>2. /\ attempt'[n].step = s /\ attempt'[n].answer = _prior_result(log[s])
          /\ attempt'[n].result = None /\ attempt'[n].call = "none"
      BY <3>1
    <3>3. Len(attempt') = Len(attempt) + 1 /\ \A b \in Attempts : attempt'[b] = attempt[b]
      BY <1>3, LeaseEffect, Zenon
    <3> QED
      BY <3>2, <3>3, Zenon
  <2>3. _prior_result(log[s]) # None => WrittenFor(writes', _prior_result(log[s]), s)
    BY <1>0, <2>1, PriorResult DEF LoggedAreWrites, WritesStay
  <2> SUFFICES ASSUME NEW b \in 1 .. n
      PROVE  /\ attempt'[b].answer # None =>
                  WrittenFor(writes', attempt'[b].answer, attempt'[b].step)
             /\ attempt'[b].result # None =>
                  WrittenFor(writes', attempt'[b].result, attempt'[b].step)
             /\ attempt'[b].call = "written" => attempt'[b].result # None
    BY <2>2 DEF AnswersAreWrites, Attempts
  <2>4. CASE b = n
    BY <2>2, <2>3, <2>4, Zenon
  <2>5. CASE b # n
    <3>1. b \in Attempts
      BY <2>1, <2>5 DEF Attempts
    <3>2. attempt'[b] = attempt[b]
      BY <2>2, <3>1, Zenon
    <3> QED
      BY <1>1, <3>1, <3>2, Zenon
  <2> QED
    BY <2>4, <2>5
<1>4. ASSUME NEW a \in Attempts, expire_lease(a)
      PROVE  AnswersAreWrites'
  BY <1>0, <1>1, <1>4, ExpireEffect, MoveIsBacked, Zenon
<1>5. ASSUME NEW a \in Attempts, Refused(a) \/ complete(a) \/ fail(a)
      PROVE  AnswersAreWrites'
  <2> DEFINE c == IF attempt[a].call \in Handled THEN attempt[a].call ELSE "none"
             r == IF attempt[a].call = "written" THEN attempt[a].result ELSE None
  <2>1. Becomes(a, FALSE, "done", None, c, r)
    BY <1>5, EndedEffect, Zenon DEF Refused, complete, fail
  <2>2. /\ r # None => WrittenFor(writes', r, attempt[a].step)
        /\ c = "written" => r # None
    BY <1>1, Zenon
  <2> HIDE DEF c, r
  <2> QED
    BY <1>0, <2>1, <2>2, MoveIsBacked, Zenon
<1>6. ASSUME NEW a \in Attempts, Reuse(a) \/ PostResult(a)
      PROVE  AnswersAreWrites'
  <2>1. PICK w \in Workers : attempt' = [attempt EXCEPT ![a] = [@ EXCEPT !.worker = w]]
    BY <1>6, Zenon DEF Reuse, PostResult, Workers
  <2> QED
    BY <1>0, <1>1, <2>1, WorkerEffect, MoveIsBacked, Zenon
<1>7. ASSUME NEW a \in Attempts, PostCalled(a)
      PROVE  AnswersAreWrites'
  <2>1. PICK c \in {"queued", "none"} :
           attempt' = [attempt EXCEPT ![a] = [@ EXCEPT !.worker = "waiting", !.call = c]]
    BY <1>7, Zenon DEF PostCalled
  <2>2. c \in Calls /\ c # "written"
    BY Zenon DEF Calls, Handled
  <2> QED
    BY <1>0, <1>1, <2>1, <2>2, CalledEffect, MoveIsBacked, Zenon
<1>8. ASSUME NEW a \in Attempts, Unreachable(a)
      PROVE  AnswersAreWrites'
  BY <1>0, <1>1, <1>8, UnreachableEffect, MoveIsBacked
<1>9. ASSUME NEW a \in Attempts, Receive(a)
      PROVE  AnswersAreWrites'
  <2> DEFINE v == IF attempt[a].call = "ok" THEN attempt[a].result ELSE None
  <2>1. Becomes(a, attempt[a].live, "answered", v, "none", None)
    BY <1>9, ReceiveEffect
  <2>2. v # None => WrittenFor(writes', v, attempt[a].step)
    BY <1>1, Zenon
  <2> HIDE DEF v
  <2> QED
    BY <1>0, <2>1, <2>2, MoveIsBacked
<1>10. ASSUME NEW a \in Attempts, Lookup(a)
       PROVE  AnswersAreWrites'
  <2>1. CASE row = NoRow
    <3>1. Becomes(a, attempt[a].live, attempt[a].worker, attempt[a].answer, "upstream",
                  attempt[a].result)
      BY <1>10, <2>1, UpstreamEffect, Zenon DEF Lookup
    <3> QED
      BY <1>0, <1>1, <3>1, MoveIsBacked
  <2>2. CASE row # NoRow /\ row.args = attempt[a].step
    <3>1. Answered(a, "ok", row.result) /\ row.result \in Nat
      BY <1>10, <2>2 DEF Lookup, TypeOK
    <3>2. WrittenFor(writes', row.result, attempt[a].step)
      BY <1>0, <2>2, Zenon DEF RowIsAWrite, WritesStay
    <3> QED
      BY <1>0, <1>2, <3>1, <3>2, AnswerIsBacked
  <2>3. CASE row # NoRow /\ row.args # attempt[a].step
    <3>1. Answered(a, "conflict", None)
      BY <1>10, <2>3, Zenon DEF Lookup
    <3> QED
      BY <1>0, <1>2, <3>1, AnswerIsBacked
  <2> QED
    BY <2>1, <2>2, <2>3
<1>11. ASSUME NEW a \in Attempts, Refuse(a) \/ Timeout(a)
       PROVE  AnswersAreWrites'
  <2>1. Answered(a, "upstream_error", None)
    BY <1>11, Zenon DEF Refuse, Timeout
  <2> QED
    BY <1>0, <1>2, <2>1, AnswerIsBacked
<1>12. ASSUME NEW a \in Attempts, Write(a)
       PROVE  AnswersAreWrites'
  <2>1. /\ writes \in Seq(Steps) /\ Len(writes) \in Nat /\ Len(writes) + 1 \in Nat
        /\ attempt[a].step \in Steps /\ "written" \in Calls
    BY AttemptFields DEF TypeOK, Calls, Handled
  <2>2. Becomes(a, attempt[a].live, attempt[a].worker, attempt[a].answer, "written",
                Len(writes) + 1)
    BY <1>12, <2>1, CallEffect, Zenon DEF Write
  <2>3. WrittenFor(writes', Len(writes) + 1, attempt[a].step)
    BY <1>12, <2>1, WriteStays, Zenon DEF Write
  <2>4. Len(writes) + 1 # None
    BY <2>1 DEF None
  <2> QED
    BY <1>0, <1>1, <2>2, <2>3, <2>4, MoveIsBacked
<1>13. ASSUME NEW a \in Attempts, UpstreamError(a)
       PROVE  AnswersAreWrites'
  <2>1. PICK code \in {"upstream_error", "deterministic_failure"} : Answered(a, code, None)
    BY <1>13 DEF UpstreamError
  <2> QED
    BY <1>0, <1>2, <2>1, AnswerIsBacked
<1>14. ASSUME NEW a \in Attempts, Save(a)
       PROVE  AnswersAreWrites'
  <2>1. Answered(a, "ok", attempt[a].result) /\ attempt[a].result \in Nat
    BY <1>14, AttemptFields DEF Save
  <2> QED
    BY <1>0, <1>1, <1>2, <2>1, AnswerIsBacked
<1>15. ASSUME Crash
       PROVE  AnswersAreWrites'
  <2>1. Len(attempt') = Len(attempt)
    BY <1>15, CrashEffect
  <2>2. \A b \in Attempts : /\ attempt'[b].step = attempt[b].step
                            /\ attempt'[b].answer = attempt[b].answer
                            /\ attempt'[b].call = "none" /\ attempt'[b].result = None
    BY <1>15, CrashEffect
  <2> QED
    BY <1>1, <2>1, <2>2, Zenon DEF AnswersAreWrites, Attempts
<1>16. ASSUME Expire \/ UNCHANGED vars
       PROVE  AnswersAreWrites'
  <2>1. attempt' = attempt
    BY <1>16, Zenon DEF Expire, vars
  <2> QED
    BY <1>1, <2>1 DEF AnswersAreWrites, Attempts
<1> QED
  BY <1>3, <1>4, <1>5, <1>6, <1>7, <1>8, <1>9, <1>10, <1>11, <1>12, <1>13, <1>14, <1>15, <1>16,
     Zenon
  DEF Next, Worker, Gateway

-----------------------------------------------------------------------------
(* One result per step.                                                    *)

\* The log of one step, as OneResultPerStep wants it.
OneAt(events, st, out) ==
    /\ \A i, j \in Successes(events) : i = j
    /\ st = "completed" => \E i \in Successes(events) : events[i].result = out

\* A step that leaves the workers, the logs and the steps' rows alone, as the gateway's
\* do.
WorkersSame ==
    /\ UNCHANGED <<status, output, log>>
    /\ Len(attempt') = Len(attempt)
    /\ \A b \in Attempts :
          /\ attempt'[b].step = attempt[b].step
          /\ attempt'[b].live = attempt[b].live
          /\ attempt'[b].worker = attempt[b].worker
          /\ attempt'[b].answer = attempt[b].answer

\* Such a step keeps what the workers know.
LEMMA WorkersSameKept ==
    ASSUME WorkerKnowsResult, OneResultPerStep, WorkersSame
    PROVE  WorkerKnowsResult' /\ OneResultPerStep'
<1>1. OneResultPerStep'
  BY Zenon DEF OneResultPerStep, WorkersSame
<1>2. WorkerKnowsResult'
  <2>1. /\ Attempts' = Attempts /\ status' = status /\ log' = log
        /\ \A b \in Attempts : /\ attempt'[b].step = attempt[b].step
                               /\ attempt'[b].live = attempt[b].live
                               /\ attempt'[b].worker = attempt[b].worker
                               /\ attempt'[b].answer = attempt[b].answer
    BY Zenon DEF WorkersSame, Attempts
  <2> SUFFICES ASSUME NEW b \in Attempts, attempt'[b].live
               PROVE  /\ status'[attempt'[b].step] = "leased"
                      /\ \A d \in Attempts : attempt'[d].live /\ attempt'[d].step = attempt'[b].step => d = b
                      /\ attempt'[b].worker # "done"
                      /\ Known(attempt'[b].worker, attempt'[b].answer, log'[attempt'[b].step])
    BY <2>1, Zenon DEF WorkerKnowsResult, Known
  <2>2. attempt[b].live
    BY <2>1, Zenon
  <2>3. \A d \in Attempts : attempt'[d].live /\ attempt'[d].step = attempt'[b].step => d = b
    BY <2>1, <2>2, ZenonT(30) DEF WorkerKnowsResult
  <2> QED
    BY <2>1, <2>2, <2>3, ZenonT(30) DEF WorkerKnowsResult
<1> QED
  BY <1>1, <1>2

\* The gateway's steps are of that kind.
LEMMA InsideTheGateway ==
    ASSUME TypeOK, (\E a \in Attempts : Gateway(a)) \/ Crash \/ Expire \/ UNCHANGED vars
    PROVE  WorkersSame
<1>1. ASSUME NEW a \in Attempts, NEW c, NEW r, UNCHANGED <<status, output, log>>,
             Becomes(a, attempt[a].live, attempt[a].worker, attempt[a].answer, c, r)
      PROVE  WorkersSame
  BY <1>1, Zenon DEF WorkersSame, Becomes
<1>2. ASSUME NEW a \in Attempts, NEW c \in Calls, NEW r \in Nat, Answered(a, c, r),
             UNCHANGED <<status, output, log>>
      PROVE  WorkersSame
  <2>1. PICK d, q : Becomes(a, attempt[a].live, attempt[a].worker, attempt[a].answer, d, q)
    BY <1>2, AnsweredEffect, Zenon
  <2> QED
    BY <1>1, <1>2, <2>1
<1>3. None \in Nat /\ {"ok", "conflict", "upstream_error", "deterministic_failure"} \subseteq Calls
  BY Zenon DEF None, Calls
<1>4. ASSUME NEW a \in Attempts, Lookup(a)
      PROVE  WorkersSame
  <2>1. UNCHANGED <<status, output, log>> /\ row.result \in Nat
    BY <1>4, Zenon DEF Lookup, TypeOK
  <2>2. \/ attempt' = [attempt EXCEPT ![a] = [@ EXCEPT !.call = "upstream"]]
        \/ Answered(a, "ok", row.result) \/ Answered(a, "conflict", None)
    BY <1>4, Zenon DEF Lookup
  <2> QED
    BY <1>1, <1>2, <1>3, <2>1, <2>2, UpstreamEffect
<1>5. ASSUME NEW a \in Attempts, Refuse(a) \/ Timeout(a) \/ UpstreamError(a) \/ Save(a)
      PROVE  WorkersSame
  <2>1. UNCHANGED <<status, output, log>> /\ attempt[a].result \in Nat
    BY <1>5, AttemptFields, Zenon DEF Refuse, Timeout, UpstreamError, Save
  <2>2. \/ Answered(a, "upstream_error", None) \/ Answered(a, "deterministic_failure", None)
        \/ Answered(a, "ok", attempt[a].result)
    BY <1>5 DEF Refuse, Timeout, UpstreamError, Save
  <2> QED
    BY <1>2, <1>3, <2>1, <2>2
<1>6. ASSUME NEW a \in Attempts, Write(a)
      PROVE  WorkersSame
  <2>1. Len(writes) + 1 \in Nat /\ "written" \in Calls
    BY DEF TypeOK, Calls, Handled
  <2> QED
    BY <1>1, <1>6, <2>1, CallEffect, Zenon DEF Write
<1>7. ASSUME Crash
      PROVE  WorkersSame
  BY <1>7, CrashEffect, Zenon DEF WorkersSame, Crash
<1>8. ASSUME Expire \/ UNCHANGED vars
      PROVE  WorkersSame
  BY <1>8 DEF WorkersSame, Expire, vars
<1> QED
  BY <1>4, <1>5, <1>6, <1>7, <1>8, Zenon DEF Gateway

\* A move of attempt a, whose worker has the live lease unless it changes nothing of its
\* step; st, events and out are what its step's status, log and output become.
StepFollows(a, st, events, out) ==
    LET s == attempt[a].step
    IN  /\ attempt[a].live \/ (st = status[s] /\ events = log[s] /\ out = output[s])
        /\ status' = [status EXCEPT ![s] = st]
        /\ output' = [output EXCEPT ![s] = out]
        /\ log' = [log EXCEPT ![s] = events]
        /\ OneAt(events, st, out)

\* Other steps' workers are not concerned by such a move, so that what the moving worker
\* knows is all there is to show.
LEMMA WorkerMoves ==
    ASSUME TypeOK, WorkerKnowsResult, OneResultPerStep, NEW a \in Attempts,
           NEW l \in BOOLEAN, NEW w, NEW v, NEW c, NEW r, NEW st, NEW events, NEW out,
           Becomes(a, l, w, v, c, r), StepFollows(a, st, events, out),
           l => attempt[a].live /\ st = "leased" /\ w # "done" /\ Known(w, v, events)
    PROVE  WorkerKnowsResult' /\ OneResultPerStep'
<1> DEFINE s == attempt[a].step
<1>0. /\ s \in Steps /\ status \in [Steps -> {"scheduled", "leased", "completed", "quarantined"}]
      /\ output \in [Steps -> Nat] /\ log \in [Steps -> Seq(EventRow)]
  BY AttemptFields, Zenon DEF TypeOK
<1>1. /\ status'[s] = st /\ output'[s] = out /\ log'[s] = events
      /\ \A t \in Steps \ {s} :
            status'[t] = status[t] /\ output'[t] = output[t] /\ log'[t] = log[t]
  BY <1>0, Zenon DEF StepFollows
<1>2. OneResultPerStep'
  <2> SUFFICES ASSUME NEW t \in Steps
               PROVE  OneAt(log'[t], status'[t], output'[t])
    BY Zenon DEF OneResultPerStep, OneAt
  <2>1. CASE t = s
    BY <1>1, <2>1 DEF StepFollows
  <2>2. CASE t # s
    BY <1>1, <2>2 DEF OneResultPerStep, OneAt
  <2> QED
    BY <2>1, <2>2, Zenon
<1>3. Len(attempt') = Len(attempt)
  BY Zenon DEF Becomes
<1>4. \A b \in Attempts \ {a} : attempt'[b] = attempt[b] /\ attempt[b].step \in Steps
  BY AttemptFields DEF Becomes
<1>5. /\ attempt'[a].step = s /\ attempt'[a].live = l /\ attempt'[a].worker = w
      /\ attempt'[a].answer = v
  BY Zenon DEF Becomes
<1>6. \A b \in Attempts \ {a} : attempt[b].live /\ attempt[b].step = s =>
         ~attempt[a].live /\ status'[s] = status[s] /\ log'[s] = log[s]
  BY <1>1, Zenon DEF WorkerKnowsResult, StepFollows
<1>7. ASSUME NEW b \in Attempts, attempt'[b].live
      PROVE  /\ status'[attempt'[b].step] = "leased"
             /\ \A d \in Attempts : attempt'[d].live /\ attempt'[d].step = attempt'[b].step => d = b
             /\ attempt'[b].worker # "done"
             /\ Known(attempt'[b].worker, attempt'[b].answer, log'[attempt'[b].step])
  <2>1. CASE b = a
    <3>1. l /\ attempt[a].live
      BY <1>5, <1>7, <2>1
    <3>2. \A d \in Attempts : attempt'[d].live /\ attempt'[d].step = s => d = a
      BY <1>4, <1>6, <3>1
    <3> QED
      BY <1>1, <1>5, <2>1, <3>1, <3>2
  <2>2. CASE b # a
    <3>1. attempt'[b] = attempt[b] /\ attempt[b].live /\ attempt[b].step \in Steps
      BY <1>4, <1>7, <2>2, Zenon
    <3>2. /\ status'[attempt[b].step] = status[attempt[b].step]
          /\ log'[attempt[b].step] = log[attempt[b].step]
      BY <1>1, <1>6, <2>2, <3>1
    <3>3. \A d \in Attempts : attempt'[d].live /\ attempt'[d].step = attempt[b].step => d = b
      <4>1. ASSUME NEW d \in Attempts \ {a}, attempt'[d].live, attempt'[d].step = attempt[b].step
            PROVE  d = b
        BY <1>4, <3>1, <4>1 DEF WorkerKnowsResult
      <4>2. ~(attempt'[a].live /\ attempt'[a].step = attempt[b].step)
        BY <1>5, <1>6, <2>2, <3>1
      <4> QED
        BY <4>1, <4>2
    <3> QED
      BY <3>1, <3>2, <3>3, Zenon DEF WorkerKnowsResult
  <2> QED
    BY <2>1, <2>2, Zenon
<1>8. WorkerKnowsResult'
  BY <1>3, <1>7 DEF WorkerKnowsResult, Attempts
<1> QED
  BY <1>2, <1>8, Zenon

\* The worker's steps and the sweep: what the worker with the live lease knows of its
\* step's log stays true, and no second successful result gets there.
LEMMA WorkerKeepsResult ==
    ASSUME TypeOK, WorkerKnowsResult, OneResultPerStep, NEW a \in Attempts,
           expire_lease(a) \/ Worker(a)
    PROVE  WorkerKnowsResult' /\ OneResultPerStep'
<1> DEFINE s == attempt[a].step
<1>0. /\ s \in Steps /\ status \in [Steps -> {"scheduled", "leased", "completed", "quarantined"}]
      /\ output \in [Steps -> Nat] /\ log \in [Steps -> Seq(EventRow)]
      /\ attempt[a].live \in BOOLEAN /\ log[s] \in Seq(EventRow) /\ attempt[a].answer \in Nat
  BY AttemptFields DEF TypeOK
<1>1. /\ status = [status EXCEPT ![s] = status[s]]
      /\ output = [output EXCEPT ![s] = output[s]]
      /\ log = [log EXCEPT ![s] = log[s]]
  BY <1>0, Zenon
<1>2. OneAt(log[s], status[s], output[s])
  BY <1>0, Zenon DEF OneResultPerStep, OneAt
<1>3. attempt[a].live => /\ status[s] = "leased" /\ attempt[a].worker # "done"
                         /\ Known(attempt[a].worker, attempt[a].answer, log[s])
  BY Zenon DEF WorkerKnowsResult
<1>4. CASE expire_lease(a)
  <2>1. StepFollows(a, "scheduled", log[s], output[s])
    BY <1>1, <1>2, <1>4 DEF StepFollows, expire_lease, OneAt
  <2> QED
    BY <1>4, <2>1, ExpireEffect, WorkerMoves, Zenon
<1>5. ASSUME UNCHANGED <<status, output, log>>
      PROVE  StepFollows(a, status[s], log[s], output[s])
  BY <1>1, <1>2, <1>5, Zenon DEF StepFollows
<1>6. CASE Refused(a)
  <2>1. StepFollows(a, status[s], log[s], output[s])
    BY <1>5, <1>6, Zenon DEF Refused
  <2> QED
    BY <1>6, <2>1, EndedEffect, WorkerMoves, Zenon DEF Refused
<1>7. CASE Reuse(a)
  <2>1. /\ StepFollows(a, status[s], log[s], output[s]) /\ attempt[a].live
        /\ attempt' = [attempt EXCEPT ![a] = [@ EXCEPT !.worker = "completing"]]
    BY <1>5, <1>7 DEF Reuse
  <2>2. Known("completing", attempt[a].answer, log[s])
    BY <1>3, <1>7, Zenon DEF Known, Reuse
  <2>3. Becomes(a, attempt[a].live, "completing", attempt[a].answer, attempt[a].call,
                attempt[a].result)
    BY <2>1, WorkerEffect, Zenon DEF Workers
  <2> QED
    BY <1>0, <1>3, <2>1, <2>2, <2>3, WorkerMoves, Zenon
<1>8. ASSUME attempt[a].live => Successes(log[s]) = {}, UNCHANGED <<status, output, log>>,
             NEW w \in {"answered", "failing"}, NEW v, NEW c, NEW r,
             Becomes(a, attempt[a].live, w, v, c, r)
      PROVE  WorkerKnowsResult' /\ OneResultPerStep'
  <2>1. StepFollows(a, status[s], log[s], output[s])
    BY <1>5, <1>8, Zenon
  <2>2. attempt[a].live => Known(w, v, log[s])
    BY <1>8, Zenon DEF Known
  <2> QED
    BY <1>0, <1>3, <1>8, <2>1, <2>2, WorkerMoves, Zenon
<1>9. CASE Unreachable(a) \/ Receive(a)
  <2>1. attempt[a].live => Successes(log[s]) = {}
    BY <1>3, <1>9, Zenon DEF Known, Unreachable, Receive
  <2>2. UNCHANGED <<status, output, log>>
    BY <1>9 DEF Unreachable, Receive
  <2>3. \E v, c, r : Becomes(a, attempt[a].live, "answered", v, c, r)
    BY <1>9, UnreachableEffect, ReceiveEffect, Zenon
  <2> QED
    BY <1>8, <2>1, <2>2, <2>3, Zenon
<1>10. CASE PostCalled(a)
  <2> DEFINE events == Append(log[s], Event("called", None))
  <2>1. PICK c \in {"queued", "none"} :
           attempt' = [attempt EXCEPT ![a] = [@ EXCEPT !.worker = "waiting", !.call = c]]
    BY <1>10, Zenon DEF PostCalled
  <2>2. Becomes(a, attempt[a].live, "waiting", attempt[a].answer, c, attempt[a].result)
    BY <2>1, CalledEffect, Zenon DEF Calls, Handled
  <2>3. attempt[a].live /\ Successes(log[s]) = {}
    BY <1>3, <1>10 DEF PostCalled, Known
  <2>4. Event("called", None) \in EventRow /\ Event("called", None).kind # "result"
    BY Zenon DEF Event, EventRow, None
  <2>5. Successes(events) = {}
    BY <1>0, <2>3, <2>4, OtherEvent
  <2>6. log' = [log EXCEPT ![s] = events] /\ UNCHANGED <<status, output>>
    BY <1>0, <1>10 DEF PostCalled
  <2> HIDE DEF events
  <2>7. StepFollows(a, status[s], events, output[s]) /\ Known("waiting", attempt[a].answer, events)
    BY <1>1, <1>3, <2>3, <2>5, <2>6, Zenon DEF StepFollows, OneAt, Known
  <2> QED
    BY <1>0, <1>3, <2>2, <2>3, <2>7, WorkerMoves, Zenon
<1>11. CASE PostResult(a)
  <2> DEFINE e == Event("result", attempt[a].answer)
             events == Append(log[s], e)
             w == IF attempt[a].answer = None THEN "failing" ELSE "completing"
  <2>1. Becomes(a, attempt[a].live, w, attempt[a].answer, attempt[a].call, attempt[a].result)
    BY <1>11, WorkerEffect, Zenon DEF PostResult, Workers
  <2>2. attempt[a].live /\ Successes(log[s]) = {}
    BY <1>3, <1>11, Zenon DEF PostResult, Known
  <2>3. e \in EventRow /\ e.kind = "result" /\ e.result = attempt[a].answer
    BY <1>0 DEF Event, EventRow
  <2>4. log' = [log EXCEPT ![s] = events] /\ UNCHANGED <<status, output>>
    BY <1>0, <1>11, Zenon DEF PostResult
  <2> HIDE DEF e
  <2>5. w # "done" /\ w # "start" /\ Known(w, attempt[a].answer, events)
    <3>1. CASE attempt[a].answer = None
      BY <1>0, <2>2, <2>3, <3>1, OtherEvent, Zenon DEF Known
    <3>2. CASE attempt[a].answer # None
      <4>1. Len(log[s]) + 1 \in Successes(events) /\ events[Len(log[s]) + 1].result = attempt[a].answer
        BY <1>0, <2>3, <3>2, SuccessEvent
      <4> QED
        BY <3>2, <4>1, Zenon DEF Known
    <3> QED
      BY <3>1, <3>2
  <2>6. \A i, j \in Successes(events) : i = j
    <3>1. CASE attempt[a].answer = None
      BY <1>0, <2>2, <2>3, <3>1, OtherEvent, Zenon
    <3>2. CASE attempt[a].answer # None
      <4>1. Successes(events) = Successes(log[s]) \cup {Len(log[s]) + 1}
        BY <1>0, <2>3, <3>2, SuccessEvent, Zenon
      <4>2. Successes(events) = {Len(log[s]) + 1}
        BY <2>2, <4>1
      <4> QED
        BY <4>2, Zenon
    <3> QED
      BY <3>1, <3>2
  <2> HIDE DEF events, w
  <2>7. StepFollows(a, status[s], events, output[s])
    BY <1>1, <1>3, <2>2, <2>4, <2>6, Zenon DEF StepFollows, OneAt
  <2> QED
    BY <1>0, <1>3, <2>1, <2>2, <2>5, <2>7, WorkerMoves, Zenon
<1>12. CASE complete(a)
  <2>1. /\ attempt[a].live /\ attempt[a].worker = "completing" /\ log' = log
        /\ status' = [status EXCEPT ![s] = "completed"]
        /\ output' = [output EXCEPT ![s] = attempt[a].answer]
        /\ attempt' = [attempt EXCEPT ![a] = Ended(@)]
    BY <1>12 DEF complete
  <2>2. OneAt(log[s], "completed", attempt[a].answer)
    BY <1>2, <1>3, <2>1, Zenon DEF OneAt, Known
  <2>3. StepFollows(a, "completed", log[s], attempt[a].answer)
    BY <1>1, <2>1, <2>2 DEF StepFollows
  <2> QED
    BY <2>1, <2>3, EndedEffect, WorkerMoves, Zenon
<1>13. CASE fail(a)
  <2>1. PICK st \in {"quarantined", "scheduled"} : status' = [status EXCEPT ![s] = st]
    BY <1>13, Zenon DEF fail
  <2>2. /\ attempt[a].live /\ log' = log /\ output' = output
        /\ attempt' = [attempt EXCEPT ![a] = Ended(@)]
    BY <1>13, Zenon DEF fail
  <2>3. StepFollows(a, st, log[s], output[s])
    BY <1>1, <1>2, <2>1, <2>2, Zenon DEF StepFollows, OneAt
  <2> QED
    BY <2>2, <2>3, EndedEffect, WorkerMoves, Zenon
<1> QED
  BY <1>4, <1>6, <1>7, <1>9, <1>10, <1>11, <1>12, <1>13, Zenon DEF Worker

\* The lease endpoint hands a step without a live attempt to a worker, with the result
\* its log holds.
LEMMA LeaseKeepsResult ==
    ASSUME TypeOK, WorkerKnowsResult, OneResultPerStep, NEW s \in Steps, lease(s)
    PROVE  WorkerKnowsResult' /\ OneResultPerStep'
<1> DEFINE n == Len(attempt) + 1
           v == _prior_result(log[s])
<1>0. /\ Len(attempt) \in Nat /\ log[s] \in Seq(EventRow)
      /\ status \in [Steps -> {"scheduled", "leased", "completed", "quarantined"}]
      /\ \A i, j \in Successes(log[s]) : i = j
      /\ \A b \in Attempts : attempt[b].step \in Steps
  <2>1. \A i, j \in Successes(log[s]) : i = j
    BY DEF OneResultPerStep
  <2>2. \A b \in Attempts : attempt[b].step \in Steps
    BY AttemptFields, Zenon
  <2> QED
    BY  <2>1,  <2>2 DEF TypeOK
<1>1. /\ status[s] = "scheduled" /\ UNCHANGED <<log, output>>
      /\ status'[s] = "leased" /\ \A t \in Steps \ {s} : status'[t] = status[t]
  BY <1>0, Zenon DEF lease
<1>2. OneResultPerStep'
  <2>1. \A t \in Steps : status'[t] = "completed" => status[t] = "completed"
    BY <1>1
  <2> QED
    BY <1>1, <2>1 DEF OneResultPerStep
<1>3. Len(attempt') = n /\ \A b \in Attempts : attempt'[b] = attempt[b]
  BY LeaseEffect, Zenon
<1>4. attempt'[n].step = s /\ attempt'[n].worker = "start" /\ attempt'[n].answer = v
  <2>1. attempt'[n] = [step |-> s, live |-> TRUE, worker |-> "start",
                       answer |-> _prior_result(log[s]), retriable |-> TRUE,
                       call |-> "none", result |-> None]
    BY LeaseEffect, Zenon
  <2>2. PICK x : x = attempt'[n]
    OBVIOUS
  <2>3. x.step = s /\ x.worker = "start" /\ x.answer = v
    BY <2>1, <2>2
  <2> QED
    BY <2>2, <2>3, Zenon
<1>5. Known("start", v, log[s])
  BY <1>0, PriorResult, Zenon DEF Known
<1> HIDE DEF v
<1>6. \A b \in Attempts : attempt[b].live => attempt[b].step # s
  BY <1>1 DEF WorkerKnowsResult
<1>7. ASSUME NEW b \in 1 .. n, attempt'[b].live
      PROVE  /\ status'[attempt'[b].step] = "leased"
             /\ \A d \in 1 .. n : attempt'[d].live /\ attempt'[d].step = attempt'[b].step => d = b
             /\ attempt'[b].worker # "done"
             /\ Known(attempt'[b].worker, attempt'[b].answer, log'[attempt'[b].step])
  <2>1. \A d \in 1 .. n : d \in Attempts \/ d = n
    BY <1>0 DEF Attempts
  <2>2. CASE b = n
    BY <1>1, <1>3, <1>4, <1>5, <1>6, <2>1, <2>2
  <2>3. CASE b \in Attempts
    <3>1. /\ attempt'[b] = attempt[b] /\ attempt[b].live /\ attempt[b].step # s
          /\ attempt[b].step \in Steps
      BY <1>0, <1>3, <1>6, <1>7, <2>3
    <3>2. \A d \in 1 .. n : attempt'[d].live /\ attempt'[d].step = attempt[b].step => d = b
      BY <1>3, <1>4, <2>1, <2>3, <3>1 DEF WorkerKnowsResult
    <3> QED
      BY <1>1, <2>3, <3>1, <3>2 DEF WorkerKnowsResult
  <2> QED
    BY <2>1, <2>2, <2>3, Zenon
<1>8. WorkerKnowsResult'
  BY <1>3, <1>7, Zenon DEF WorkerKnowsResult, Attempts
<1> QED
  BY <1>2, <1>8

-----------------------------------------------------------------------------
(* The theorems.                                                           *)

\* A system without attempts, rows or writes satisfies the invariant.
LEMMA InitIndInv == Init => IndInv
<1> SUFFICES ASSUME Init PROVE IndInv
  OBVIOUS
<1>1. /\ attempt = <<>> /\ writes = <<>> /\ lost = 0 /\ holder = 0 /\ row = NoRow
      /\ Attempts = {} /\ Len(writes) = 0
  BY DEF Init, Attempts
<1>2. \A s \in Steps : log[s] = <<>> /\ Successes(log[s]) = {} /\ status[s] = "scheduled"
  <2>1. Successes(<<>>) = {}
    BY DEF Successes
  <2>2. log = [s \in Steps |-> <<>>] /\ status = [s \in Steps |-> "scheduled"]
    BY Zenon DEF Init
  <2> QED
    BY <2>1, <2>2, Zenon
<1>3. row.result = None
  BY <1>1, Zenon DEF NoRow
<1>4. TypeOK
  BY <1>1, <1>3 DEF Init, TypeOK, None
<1>5. LockIsExclusive /\ WritesAreKnown /\ AnswersAreWrites /\ RowIsAWrite /\ WorkerKnowsResult
  BY <1>1 DEF LockIsExclusive, WritesAreKnown, AnswersAreWrites, RowIsAWrite, WorkerKnowsResult
<1>6. LoggedAreWrites /\ OneResultPerStep
  BY <1>2, Zenon DEF LoggedAreWrites, OneResultPerStep
<1> QED
  BY <1>4, <1>5, <1>6 DEF IndInv

\* Every step of the kernel, the workers, the gateway and the upstream keeps it.
LEMMA NextIndInv == IndInv /\ [Next]_vars => IndInv'
<1> SUFFICES ASSUME IndInv, [Next]_vars PROVE IndInv'
  OBVIOUS
<1>1. /\ TypeOK /\ LockIsExclusive /\ WritesAreKnown /\ AnswersAreWrites /\ RowIsAWrite
      /\ LoggedAreWrites /\ WorkerKnowsResult /\ OneResultPerStep
  BY Zenon DEF IndInv
<1>2. TypeOK'
  BY <1>1, TypesKept
<1>3. LockIsExclusive' /\ WritesAreKnown'
  BY <1>1, <1>2, LockKept, Zenon
<1>4. AnswersAreWrites' /\ RowIsAWrite' /\ LoggedAreWrites'
  BY <1>1, AnswersKept, RowKept, LogKept
<1>5. ASSUME (\E a \in Attempts : Gateway(a)) \/ Crash \/ Expire \/ UNCHANGED vars
      PROVE  WorkerKnowsResult' /\ OneResultPerStep'
  BY <1>1, <1>5, InsideTheGateway, WorkersSameKept
<1>6. WorkerKnowsResult' /\ OneResultPerStep'
  BY <1>1, <1>5, LeaseKeepsResult, WorkerKeepsResult DEF Next
<1> QED
  BY <1>2, <1>3, <1>4, <1>6, Zenon DEF IndInv

\* The invariant of the tool step: the lock, the store, the workers and the logs agree
\* about the writes and the results, for any number of steps, attempts and faults.
THEOREM ToolStepInvariance == Spec => []IndInv
<1> QED
  BY InitIndInv, NextIndInv, PTL DEF Spec

\* A step completes with the result of a write made with its own arguments, whatever the
\* store, the leases and the gateway went through (steps.py _run_tool, call.go
\* handleCall).
THEOREM CompletedWithAWrite == Spec => []OutputIsAWrite
<1>1. IndInv => OutputIsAWrite
  BY DEF IndInv, LoggedAreWrites, OneResultPerStep, OutputIsAWrite, WrittenFor
<1> QED
  BY <1>1, ToolStepInvariance, PTL

\* A step's log never holds a second successful tool.result, and the step completes with
\* the one it holds (the kernel's 410 for a lease that ended, _prior_result).
THEOREM NoSecondResult == Spec => []OneResultPerStep
<1>1. IndInv => OneResultPerStep
  BY Zenon DEF IndInv
<1> QED
  BY <1>1, ToolStepInvariance, PTL

\* The writes the upstream performed are at most one more than the faults that hid one
\* from the idempotency store: the keyed lock and the store do the rest.
THEOREM WritesArePaidFor == Spec => []RepeatsArePaidFor
<1>1. IndInv => RepeatsArePaidFor
  <2> SUFFICES ASSUME IndInv PROVE RepeatsArePaidFor
    OBVIOUS
  <2>1. Len(writes) \in Nat /\ lost \in Nat /\ WritesAreKnown
    BY DEF IndInv, TypeOK
  <2> QED
    BY <2>1 DEF WritesAreKnown, RepeatsArePaidFor
<1> QED
  BY <1>1, ToolStepInvariance, PTL
=============================================================================
