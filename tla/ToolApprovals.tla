---------------------------- MODULE ToolApprovals ----------------------------
(***************************************************************************)
(* One tool round of one ordinary run: calls that execute side by side,    *)
(* the approvals some of them need, the user's decisions, cancellation,    *)
(* and what a restart makes of a round that was cut short                  *)
(* (feature/execution-operations.ts, feature/execution-coordinator.ts,     *)
(* terminal-settlement.ts, state.ts, ordinary-agent-feature.ts and         *)
(* adapters/intelligence/agent-session-loop.ts).                           *)
(*                                                                         *)
(* Everything that reads and saves the run's document goes through the     *)
(* run's queue (withExclusiveRun); an operation is one step, taken when it *)
(* reaches the head.  The Session loop, the tasks of the run and the user  *)
(* only append to the queue and wait.                                      *)
(***************************************************************************)
EXTENDS Naturals, Sequences, FiniteSets

CONSTANTS
    Calls,         \* the root calls of the round
    GatedBefore,   \* those whose preflight asks for an approval
    GatedDuring,   \* those that discover the gate after a read-only start
    MaxCancels,    \* how often the user cancels
    MaxFaults,     \* how many saves fail
    MaxCrashes     \* how often the process stops

ASSUME GatesAssumption ==
    /\ GatedBefore \subseteq Calls /\ GatedDuring \subseteq Calls
    /\ GatedBefore \cap GatedDuring = {}
ASSUME CallsAssumption == IsFiniteSet(Calls)
ASSUME BoundsAssumption == {MaxCancels, MaxFaults, MaxCrashes} \subseteq Nat

VARIABLES
    doc,           \* the run's document: status, requests, fact, decided, round
    queue,         \* operations waiting for the run's lock
    harness,       \* where the Session loop is with the round
    stopping,      \* the loop was asked to abort
    broken,        \* a result or a checkpoint could not be accepted
    place,         \* where each call is
    result,        \* the loop's own record of each call's result
    accepted,      \* results accepted from the loop and not known to be saved
    task,          \* where the cleanup (0), the execution (1) and each decision are
    outcome,       \* what each task's wait ended with
    todo,          \* the accepted results a settlement has still to save
    continuation,  \* a live approval continuation is registered
    reserved,      \* a decision holds the approval reservation
    controller,    \* the run has an abort controller
    held,          \* the run's Session generation may still write the transcript
    executed,      \* calls whose approved (or ungated) effect was begun
    up,            \* the process runs
    cancels, faults, crashes

loop    == <<harness, stopping, broken, place, result, executed>>
owner   == <<accepted, task, outcome, todo, continuation, reserved, controller, held>>
bounds  == <<cancels, faults, crashes>>
vars    == <<doc, queue, loop, owner, up, bounds>>

Final    == {"done", "aborted", "cancelled", "denied", "refused", "unknown", "lost"}
Facts    == Final \cup {"none", "asked"}
Statuses == {"running", "awaiting", "completed", "failed", "cancelled", "blocked"}
Terminal == {"completed", "failed", "cancelled", "blocked"}
Tasks    == 0 .. 1 + Cardinality(Calls)
Nothing  == [c \in Calls |-> "none"]
NoOutcome == [verdict |-> "none", requests |-> {}, results |-> Nothing]

Asked(facts) == {c \in Calls : facts[c] = "asked"}
Waiting      == {c \in Calls : place[c] = "waiting"}

-----------------------------------------------------------------------------
(* Facts and documents (state.ts). *)

\* mergeOrdinaryToolResults: a final fact is never replaced, an approval fact
\* only by a final one.  Mutant: any fact may be replaced.
MergeableAlways(facts, incoming) == TRUE

Mergeable(facts, incoming) ==
    \A c \in Calls :
        \/ incoming[c] \in {"none", facts[c]}
        \/ facts[c] = "none"
        \/ facts[c] = "asked" /\ incoming[c] \in Final
Merge(facts, incoming) ==
    [c \in Calls |-> IF incoming[c] = "none" THEN facts[c] ELSE incoming[c]]

\* Mutant: the recorded decision is taken for the result.
InterruptedAsDecision(d, c) == d.decided[c]

\* interruptedOrdinaryApprovalResult: what becomes of an approval nobody can
\* answer any more depends on the durable decision alone.
Interrupted(d, c) == IF d.decided[c] = "approved" THEN "unknown" ELSE "lost"
CloseAsked(d) ==
    [d EXCEPT !.fact = [c \in Calls |-> IF @[c] = "asked" THEN Interrupted(d, c) ELSE @[c]]]
\* Mutant: a call nobody has heard of is left out.
CloseFactsKnown(d) == CloseAsked(d)

\* reconcileInterruptedOrdinaryToolRound: the same, and unknown for a call
\* without any fact.
CloseFacts(d) ==
    [CloseAsked(d) EXCEPT !.fact = [c \in Calls |-> IF @[c] = "none" THEN "unknown" ELSE @[c]]]

\* assertAwaitingApprovalFacts.
PauseFits(requests, facts, decided) ==
    /\ requests # {}
    /\ requests \subseteq Asked(facts)
    /\ \A c \in Asked(facts) : c \in requests \/ decided[c] # "none"

\* rawStateSchema, which every save is held to: as long as a run awaits
\* decisions, its document is refused unless the pause fits its facts.
Storable(d) == d.status = "awaiting" => PauseFits(d.requests, d.fact, d.decided)

-----------------------------------------------------------------------------
(* Accepted results (terminal-settlement.ts). *)

\* rememberToolResults refuses a result that differs from a final one it keeps.
Memorable(results) ==
    \A c \in Calls : accepted[c] \in Final => results[c] \in {"none", accepted[c]}
\* forgetPersistedToolResults.
Forget(acc, facts, results) ==
    [c \in Calls |-> IF results[c] # "none" /\ facts[c] = results[c] THEN "none" ELSE acc[c]]

\* Task t goes on elsewhere, with operation ops for the run's queue, which is q
\* without the operation at work.
Go(t, where, ops, q) ==
    /\ task' = [task EXCEPT ![t] = where]
    /\ queue' = q \o ops
    /\ UNCHANGED <<todo, controller, reserved>>

\* Mutant: the reservation is not given back.
FinishKeepingReservation(t) ==
    /\ task' = [task EXCEPT ![t] = "gone"]
    /\ controller' = (controller /\ (t = 0 \/ outcome[t].verdict \in {"paused", "ignored"}))
    /\ UNCHANGED reserved

\* The finally blocks: the controller stays with an outcome that is a pause,
\* and a decision gives its reservation back.
Finish(t) ==
    /\ task' = [task EXCEPT ![t] = "gone"]
    /\ controller' = (controller /\ (t = 0 \/ outcome[t].verdict \in {"paused", "ignored"}))
    /\ reserved' = (reserved /\ t < 2)

\* settleExecution: the accepted results in list go to persistToolResult one by
\* one; then a paused run is left alone and an open round is reconciled.  d is
\* the document by then.
Settle(t, d, list, q) ==
    /\ todo' = [todo EXCEPT ![t] = list]
    /\ \/ /\ \E c \in Calls :
                /\ list[c] # "none"
                /\ queue' = Append(q, [op |-> "rescue", call |-> c, fact |-> list[c], task |-> t])
          /\ task' = [task EXCEPT ![t] = "persisting"]
          /\ UNCHANGED <<controller, reserved>>
       \/ /\ list = Nothing /\ d.round /\ d.status # "awaiting"
          /\ queue' = Append(q, [op |-> "reconcile", task |-> t])
          /\ task' = [task EXCEPT ![t] = "reconciling"]
          /\ UNCHANGED <<controller, reserved>>
       \/ /\ list = Nothing /\ (~d.round \/ d.status = "awaiting")
          /\ queue' = q
          /\ Finish(t)

\* The executions map keeps the task tracked last and no earlier one.
Executing ==
    \E t \in Tasks \ {0} :
        /\ task[t] \notin {"unborn", "gone"}
        /\ \A u \in Tasks : u > t => task[u] = "unborn"
HasLiveExecution == Executing \/ reserved \/ controller

-----------------------------------------------------------------------------
TypeOK ==
    /\ doc.status \in Statuses /\ doc.requests \subseteq Calls
    /\ doc.fact \in [Calls -> Facts] /\ doc.round \in BOOLEAN
    /\ doc.decided \in [Calls -> {"none", "approved", "denied"}]
    /\ DOMAIN doc = {"status", "requests", "fact", "decided", "round"}
    /\ \A i \in 1 .. Len(queue) :
           queue[i].op \in {"result", "pause", "end", "fail", "block", "close",
                            "rescue", "reconcile", "decide", "cancel"}
    /\ harness \in {"tools", "closing", "answering", "over"}
    /\ {stopping, broken, continuation, reserved, controller, held, up} \subseteq BOOLEAN
    /\ place \in [Calls -> {"called", "asking", "waiting", "executing", "delivering", "closed"}]
    /\ result \in [Calls -> Facts] /\ accepted \in [Calls -> Facts]
    /\ task \in [Tasks -> {"unborn", "looping", "captured", "pausing", "releasing",
                           "stopped", "ending", "failing", "blocking", "finalizing",
                           "draining", "persisting", "reconciling", "idling", "checking", "cleaned", "gone"}]
    /\ \A t \in Tasks : todo[t] \in [Calls -> Facts]
    /\ executed \subseteq Calls
    /\ cancels \in 0 .. MaxCancels /\ faults \in 0 .. MaxFaults /\ crashes \in 0 .. MaxCrashes

\* The round is accepted (assistant_tool_call_entry_committed was saved) and
\* the execution waits for the loop.
Init ==
    /\ doc = [status |-> "running", requests |-> {}, fact |-> Nothing,
              decided |-> Nothing, round |-> TRUE]
    /\ queue = <<>>
    /\ harness = "tools" /\ stopping = FALSE /\ broken = FALSE
    /\ place = [c \in Calls |-> "called"]
    /\ result = Nothing /\ executed = {}
    /\ accepted = Nothing
    /\ task = [t \in Tasks |-> IF t = 1 THEN "looping" ELSE "unborn"]
    /\ outcome = [t \in Tasks |-> NoOutcome]
    /\ todo = [t \in Tasks |-> Nothing]
    /\ continuation = FALSE /\ reserved = FALSE /\ controller = TRUE /\ held = TRUE
    /\ up = TRUE
    /\ cancels = 0 /\ faults = 0 /\ crashes = 0

-----------------------------------------------------------------------------
(* The calls (createHarnessTool, resolveApproval, acceptToolResult). *)

\* acceptToolResult: the loop records v, the run remembers it, and its save is
\* queued.  The caller sets place.
Offer(c, v) ==
    /\ result' = [result EXCEPT ![c] = v]
    /\ accepted' = [accepted EXCEPT ![c] = v]
    /\ queue' = Append(queue, [op |-> "result", call |-> c, fact |-> v, task |-> 0])

RestOfOffer == UNCHANGED <<doc, harness, stopping, broken, task, outcome, todo,
                           continuation, reserved, controller, held, up, bounds>>

\* The gateway's preflight: ask first, or start; an aborted loop blocks it.
Ask(c) ==
    /\ up /\ harness = "tools" /\ place[c] = "called" /\ ~stopping
    /\ c \in GatedBefore
    /\ place' = [place EXCEPT ![c] = "asking"]
    /\ Offer(c, "asked") /\ UNCHANGED executed /\ RestOfOffer

\* Mutant: a call that will meet its gate has its effect at once.
StartWithEffect(c) ==
    /\ up /\ harness = "tools" /\ place[c] = "called" /\ ~stopping
    /\ c \notin GatedBefore
    /\ place' = [place EXCEPT ![c] = "executing"]
    /\ executed' = executed \cup {c}
    /\ UNCHANGED <<doc, queue, harness, stopping, broken, result, owner, up, bounds>>

Start(c) ==
    /\ up /\ harness = "tools" /\ place[c] = "called" /\ ~stopping
    /\ c \notin GatedBefore
    /\ place' = [place EXCEPT ![c] = "executing"]
    /\ executed' = IF c \in GatedDuring THEN executed ELSE executed \cup {c}
    /\ UNCHANGED <<doc, queue, harness, stopping, broken, result, owner, up, bounds>>

\* The tool returns: with its result, with a gate it met, or aborted.
Return(c) ==
    /\ up /\ place[c] = "executing"
    /\ \/ /\ c \in GatedDuring \ executed /\ ~stopping
          /\ place' = [place EXCEPT ![c] = "asking"]
          /\ Offer(c, "asked")
       \/ /\ c \in executed
          /\ place' = [place EXCEPT ![c] = "delivering"]
          /\ Offer(c, "done")
       \/ /\ stopping
          /\ place' = [place EXCEPT ![c] = "delivering"]
          /\ Offer(c, "aborted")
    /\ UNCHANGED executed /\ RestOfOffer

\* Mutant: an abort is taken for the end of a call that executes.
AbortAnywhere(c) ==
    /\ up /\ stopping
    /\ \/ place[c] = "called" /\ harness = "tools" /\ Offer(c, "aborted")
       \/ place[c] \in {"waiting", "executing"} /\ Offer(c, "cancelled")
    /\ place' = [place EXCEPT ![c] = "delivering"]
    /\ UNCHANGED executed /\ RestOfOffer

\* An abort reaches a call that was not started or that awaits its decision.
Abort(c) ==
    /\ up /\ stopping
    /\ \/ place[c] = "called" /\ harness = "tools" /\ Offer(c, "aborted")
       \/ place[c] = "waiting" /\ Offer(c, "cancelled")
    /\ place' = [place EXCEPT ![c] = "delivering"]
    /\ UNCHANGED executed /\ RestOfOffer

-----------------------------------------------------------------------------
(* Operations of the run's queue. *)

At(op)  == up /\ queue # <<>> /\ Head(queue).op = op
Rest    == Tail(queue)
Fault   == faults < MaxFaults /\ faults' = faults + 1
NoFault == UNCHANGED faults

\* persistToolResult: nobody's late result, a repeated one, a conflicting one.
Unowned(c)      == doc.status # "running" /\ ~controller /\ accepted[c] = "none"
Conflicts(c, v) == ~Unowned(c) /\ doc.fact[c] \in Final \ {v}
Recorded(c, v)  == IF Unowned(c) \/ doc.fact[c] \in Final THEN doc
                   ELSE [doc EXCEPT !.fact[c] = v]

\* A call's result is saved; the call ends, or waits for its decision.  If the
\* execution's wait is on, the first pending approval ends it at once: the
\* pause names the requests pending now and the results the loop has now.
ResultSaved ==
    /\ At("result")
    /\ LET c == Head(queue).call
           v == Head(queue).fact
           d == Recorded(c, v)
           acc == Forget(accepted, d.fact, [Nothing EXCEPT ![c] = v])
       IN /\ ~Conflicts(c, v) /\ Storable(d)
          /\ doc' = d
          /\ CASE v # "asked" ->
                  /\ place' = [place EXCEPT ![c] = "closed"]
                  /\ accepted' = acc /\ queue' = Rest
                  /\ UNCHANGED <<result, task, outcome>>
               [] v = "asked" /\ stopping ->
                  /\ place' = [place EXCEPT ![c] = "delivering"]
                  /\ result' = [result EXCEPT ![c] = "cancelled"]
                  /\ accepted' = [acc EXCEPT ![c] = "cancelled"]
                  /\ queue' = Append(Rest, [op |-> "result", call |-> c, fact |-> "cancelled", task |-> 0])
                  /\ UNCHANGED <<task, outcome>>
               [] OTHER ->
                  /\ place' = [place EXCEPT ![c] = "waiting"]
                  /\ accepted' = acc /\ queue' = Rest
                  /\ task' = [t \in Tasks |-> IF task[t] = "looping" THEN "captured" ELSE task[t]]
                  /\ outcome' = [t \in Tasks |->
                        IF task[t] = "looping"
                        THEN [verdict |-> "paused", requests |-> Waiting \cup {c}, results |-> result]
                        ELSE outcome[t]]
                  /\ UNCHANGED result
    /\ NoFault
    /\ UNCHANGED <<harness, stopping, broken, executed, todo, continuation, reserved,
                   controller, held, up, cancels, crashes>>

\* The save is refused or fails: the loop records an acceptance failure, the
\* run goes on remembering the result.
ResultLost ==
    /\ At("result")
    /\ LET c == Head(queue).call
           v == Head(queue).fact
       IN /\ \/ Conflicts(c, v) /\ NoFault
             \/ ~Storable(Recorded(c, v)) /\ NoFault
             \/ Recorded(c, v) # doc /\ Fault
          /\ place' = [place EXCEPT ![c] = "closed"]
          /\ result' = [result EXCEPT ![c] = "refused"]
    /\ broken' = TRUE
    /\ queue' = Rest
    /\ UNCHANGED <<doc, harness, stopping, executed, owner, up, cancels, crashes>>

\* Mutant: the checkpoint does not look at the facts.
RoundClosedUnchecked ==
    /\ At("close")
    /\ doc.round /\ doc.status \in {"running", "failed", "cancelled", "blocked"}
    /\ doc' = [doc EXCEPT !.round = FALSE]
    /\ harness' = "answering" /\ queue' = Rest
    /\ UNCHANGED <<stopping, broken, place, result, executed, owner, up, bounds>>

\* The checkpoint tool_result_entries_committed closes the round.
RoundClosed ==
    /\ At("close")
    /\ doc.round /\ doc.status \in {"running", "failed", "cancelled", "blocked"}
    /\ \A c \in Calls : doc.fact[c] \in Final
    /\ doc' = [doc EXCEPT !.round = FALSE]
    /\ harness' = "answering" /\ queue' = Rest
    /\ UNCHANGED <<stopping, broken, place, result, executed, owner, up, bounds>>
RoundNotClosed ==
    /\ At("close")
    /\ \/ NoFault /\ \/ ~doc.round \/ doc.status \in {"awaiting", "completed"}
                     \/ \E c \in Calls : doc.fact[c] \notin Final
       \/ Fault
    /\ broken' = TRUE
    /\ harness' = "answering" /\ queue' = Rest
    /\ UNCHANGED <<doc, stopping, place, result, executed, owner, up, cancels, crashes>>

\* The loop: every call has ended; the results are appended and checkpointed,
\* unless an abort or a revoked transcript ends the loop first; then the model
\* answers.
FinishCalls ==
    /\ up /\ harness = "tools" /\ \A c \in Calls : place[c] = "closed"
    /\ \/ held /\ harness' = "closing" /\ queue' = Append(queue, [op |-> "close"])
       \/ (stopping \/ ~held) /\ harness' = "over" /\ UNCHANGED queue
    /\ UNCHANGED <<doc, stopping, broken, place, result, executed, owner, up, bounds>>
Answer ==
    /\ up /\ harness = "answering"
    /\ harness' = "over"
    /\ UNCHANGED <<doc, queue, stopping, broken, place, result, executed, owner, up, bounds>>

-----------------------------------------------------------------------------
(* Tasks (runExecution, the operation of decideApproval, applyOutcome). *)

\* The wait ends with the loop (finalResult).
LoopEnded(t) ==
    /\ up /\ task[t] = "looping" /\ harness = "over"
    /\ task' = [task EXCEPT ![t] = "captured"]
    /\ outcome' = [outcome EXCEPT ![t] =
          [verdict |-> IF stopping THEN "cancelled" ELSE IF broken THEN "failed" ELSE "completed",
           requests |-> {}, results |-> result]]
    /\ UNCHANGED <<doc, queue, loop, accepted, todo, continuation, reserved, controller, held, up, bounds>>

\* Reasoning is flushed, the outcome's results are remembered, and the outcome
\* is applied; a result that differs from an accepted one ends in the catch.
Remember(t) ==
    /\ up /\ task[t] = "captured"
    /\ IF Memorable(outcome[t].results)
       THEN /\ accepted' = Merge(accepted, outcome[t].results)
            /\ CASE outcome[t].verdict = "paused" ->
                    Go(t, "pausing", <<[op |-> "pause", task |-> t]>>, queue)
                 [] outcome[t].verdict # "paused" /\ doc.status \in Terminal ->
                    Settle(t, doc, Forget(accepted', doc.fact, outcome[t].results), queue)
                 [] OTHER -> Go(t, "ending", <<[op |-> "end", task |-> t]>>, queue)
       ELSE Go(t, "stopped", <<>>, queue) /\ UNCHANGED accepted
    /\ UNCHANGED <<doc, loop, outcome, continuation, held, up, bounds>>

\* request_approval: the durable pause and the continuation are one fact.
PauseFacts(t) == Merge(doc.fact, outcome[t].results)
CanPause(t) ==
    /\ doc.status = "running" /\ ~continuation
    /\ Mergeable(doc.fact, outcome[t].results)
    /\ PauseFits(outcome[t].requests, PauseFacts(t), doc.decided)
Paused ==
    /\ At("pause")
    /\ LET t == Head(queue).task
           d == [doc EXCEPT !.status = "awaiting", !.requests = outcome[t].requests,
                            !.fact = PauseFacts(t)]
           acc == Forget(accepted, d.fact, outcome[t].results)
       IN /\ CanPause(t)
          /\ doc' = d
          /\ accepted' = acc
          /\ continuation' = TRUE
          /\ Settle(t, d, acc, Rest)
    /\ UNCHANGED <<loop, outcome, held, up, bounds>>
\* The pause is refused, or its save fails, or the run has ended meanwhile: the
\* continuation is released, which aborts the loop and waits for its end.
NotPaused ==
    /\ At("pause")
    /\ LET t == Head(queue).task
       IN /\ \/ ~CanPause(t) /\ NoFault
             \/ CanPause(t) /\ Fault
          /\ Go(t, "releasing", <<>>, Rest)
          \* An ended run is no error, and the task only settles then.
          /\ outcome' = [outcome EXCEPT ![t].verdict =
                            IF doc.status \in Terminal THEN "ignored" ELSE @]
    /\ stopping' = (stopping \/ harness # "over")
    /\ UNCHANGED <<doc, harness, broken, place, result, executed, accepted,
                   continuation, held, up, cancels, crashes>>
Released(t) ==
    /\ up /\ task[t] = "releasing" /\ harness = "over"
    /\ IF outcome[t].verdict = "ignored"
       THEN /\ accepted' = Forget(accepted, doc.fact, outcome[t].results)
            /\ Settle(t, doc, accepted', queue)
       ELSE Go(t, "stopped", <<>>, queue) /\ UNCHANGED accepted
    /\ UNCHANGED <<doc, loop, outcome, continuation, held, up, bounds>>

\* The catch block: an ended run is left alone, any other is failed.  (The
\* controller of a run that has not ended is never aborted: cancel saves first.)
Catch(t) ==
    /\ up /\ task[t] = "stopped"
    /\ IF doc.status \in Terminal
       THEN Settle(t, doc, accepted, queue)
       ELSE Go(t, "failing", <<[op |-> "fail", task |-> t]>>, queue)
    /\ UNCHANGED <<doc, loop, accepted, outcome, continuation, held, up, bounds>>

\* The terminal transition a task asks for.
Verdict(t) ==
    CASE Head(queue).op = "block" -> "blocked"
      [] Head(queue).op = "fail"  -> "failed"
      [] OTHER                    -> outcome[t].verdict
CanEnd(t) == doc.status = "running" /\ Mergeable(doc.fact, outcome[t].results)
IsEnd == At("end") \/ At("fail") \/ At("block")

\* The run ends; the Session is to be finalized.
Ended ==
    /\ IsEnd
    /\ LET t == Head(queue).task
       IN /\ CanEnd(t)
          /\ doc' = [doc EXCEPT !.status = Verdict(t), !.requests = {},
                                !.fact = Merge(@, outcome[t].results)]
          /\ Go(t, "finalizing", <<>>, Rest)
    /\ UNCHANGED <<loop, accepted, outcome, continuation, held, up, bounds>>
\* The transition is refused or its save fails: a completion is turned into a
\* block, another outcome is caught once, a second failure is only settled.
NotEnded ==
    /\ IsEnd
    /\ LET t  == Head(queue).task
           op == Head(queue).op
       IN /\ \/ ~CanEnd(t) /\ NoFault
             \/ CanEnd(t) /\ Fault
          /\ CASE op = "end" /\ outcome[t].verdict = "completed" /\ doc.status \notin Terminal ->
                  Go(t, "blocking", <<[op |-> "block", task |-> t]>>, Rest)
               [] op = "end" /\ outcome[t].verdict # "completed" -> Go(t, "stopped", <<>>, Rest)
               [] OTHER -> Settle(t, doc, accepted, Rest)
    /\ UNCHANGED <<doc, loop, accepted, outcome, continuation, held, up, cancels, crashes>>

\* finalizeSession: a run that failed or was cancelled gives the transcript
\* back at once; then the resources are released, which aborts the loop and
\* waits for its end, and the transcript after them.
Revoke(t) ==
    /\ up /\ task[t] = "finalizing"
    /\ Go(t, "draining", <<>>, queue)
    /\ held' = (held /\ (doc.status = "completed" \/ (t # 0 /\ doc.status = "blocked")))
    /\ stopping' = (stopping \/ harness # "over")
    /\ UNCHANGED <<doc, harness, broken, place, result, executed, accepted, outcome,
                   continuation, up, bounds>>
Finalized(t) ==
    /\ up /\ task[t] = "draining" /\ harness = "over"
    /\ held' = FALSE
    /\ accepted' = Forget(accepted, doc.fact, outcome[t].results)
    /\ Settle(t, doc, accepted', queue)
    /\ UNCHANGED <<doc, loop, outcome, continuation, up, bounds>>

-----------------------------------------------------------------------------
(* Settlement.                                                             *)

\* A result that cannot be saved stays accepted and the next one is tried.
Rescued ==
    /\ At("rescue")
    /\ LET c == Head(queue).call
           v == Head(queue).fact
           t == Head(queue).task
           left == [todo[t] EXCEPT ![c] = "none"]
       IN /\ \/ ~Conflicts(c, v) /\ Storable(Recorded(c, v)) /\ doc' = Recorded(c, v) /\ NoFault
                /\ accepted' = Forget(accepted, doc'.fact, [Nothing EXCEPT ![c] = v])
             \/ Conflicts(c, v) /\ NoFault /\ UNCHANGED <<doc, accepted>>
             \/ ~Storable(Recorded(c, v)) /\ NoFault /\ UNCHANGED <<doc, accepted>>
             \/ ~Conflicts(c, v) /\ Recorded(c, v) # doc /\ Fault /\ UNCHANGED <<doc, accepted>>
          /\ Settle(t, doc', left, Rest)
    /\ UNCHANGED <<loop, outcome, continuation, held, up, cancels, crashes>>

\* reconcilePendingToolRound: the facts are closed and saved, which is refused
\* if a pause came first; then the results go to the transcript, which must be
\* free, and the round is closed with a second save.  Once no round is pending
\* the accepted results are dropped.
Reconciled ==
    /\ At("reconcile")
    /\ \/ ~doc.round /\ UNCHANGED doc /\ NoFault
       \/ /\ doc.round /\ Storable(CloseFacts(doc))
          /\ \/ ~held /\ doc' = [CloseFacts(doc) EXCEPT !.round = FALSE] /\ NoFault
             \/ held /\ doc' = CloseFacts(doc) /\ NoFault
             \/ ~held /\ doc' = CloseFacts(doc) /\ Fault
       \/ doc.round /\ ~Storable(CloseFacts(doc)) /\ UNCHANGED doc /\ NoFault
       \/ doc.round /\ CloseFacts(doc) # doc /\ UNCHANGED doc /\ Fault
    /\ accepted' = IF doc'.round THEN accepted ELSE Nothing
    /\ Finish(Head(queue).task)
    /\ queue' = Rest
    /\ UNCHANGED <<loop, outcome, todo, continuation, held, up, cancels, crashes>>

-----------------------------------------------------------------------------
(* The user (decideApproval, cancel).                                      *)

Ops(op) == {i \in 1 .. Len(queue) : queue[i].op = op}

\* The user answers a request on display.
AskDecide(c) ==
    /\ up /\ doc.status = "awaiting" /\ c \in doc.requests
    /\ \A i \in Ops("decide") : queue[i].call # c
    /\ \E decision \in {"approved", "denied"} :
          queue' = Append(queue, [op |-> "decide", call |-> c, fact |-> decision, task |-> 0])
    /\ UNCHANGED <<doc, loop, owner, up, bounds>>

\* beginApprovalDecision and what is asked of the run before it.
MayDecide(c) ==
    /\ doc.status = "awaiting" /\ c \in doc.requests
    /\ ~reserved /\ continuation
NextTask == CHOOSE t \in Tasks \ {0, 1} :
    task[t] = "unborn" /\ \A u \in Tasks \ {0} : u < t => task[u] # "unborn"

\* The decision is saved, the call is released and a new task waits for the
\* loop: calls still pending end that wait at once, with the results as they
\* are before the released call has reported anything.
Decided ==
    /\ At("decide")
    /\ LET c == Head(queue).call
           decision == Head(queue).fact
           t == NextTask
           left == Waiting \ {c}
       IN /\ MayDecide(c)
          /\ doc' = [doc EXCEPT !.status = "running", !.requests = {}, !.decided[c] = decision]
          /\ continuation' = FALSE /\ reserved' = TRUE
          /\ task' = [task EXCEPT ![t] = IF left = {} THEN "looping" ELSE "captured"]
          /\ outcome' = [outcome EXCEPT ![t] =
                IF left = {} THEN NoOutcome
                ELSE [verdict |-> "paused", requests |-> left, results |-> result]]
          /\ IF decision = "approved"
             THEN /\ place' = [place EXCEPT ![c] = "executing"]
                  /\ executed' = executed \cup {c}
                  /\ queue' = Rest
                  /\ UNCHANGED <<result, accepted>>
             ELSE /\ place' = [place EXCEPT ![c] = "delivering"]
                  /\ result' = [result EXCEPT ![c] = "denied"]
                  /\ accepted' = [accepted EXCEPT ![c] = "denied"]
                  /\ queue' = Append(Rest, [op |-> "result", call |-> c, fact |-> "denied", task |-> 0])
                  /\ UNCHANGED executed
    /\ UNCHANGED <<harness, stopping, broken, todo, controller, held, up, bounds>>

\* Mutant: a decision that fails does not put the continuation back.
NotDecidedWithoutRollback ==
    /\ At("decide")
    /\ \/ ~MayDecide(Head(queue).call) /\ NoFault /\ UNCHANGED continuation
       \/ MayDecide(Head(queue).call) /\ Fault /\ continuation' = FALSE
    /\ queue' = Rest
    /\ UNCHANGED <<doc, loop, accepted, task, outcome, todo, reserved, controller, held,
                   up, cancels, crashes>>

\* Not awaiting, busy, or the save fails and the decision is rolled back.  (A
\* pause without a continuation would be blocked: PauseIsAnswerable excludes it.)
NotDecided ==
    /\ At("decide")
    /\ \/ ~MayDecide(Head(queue).call) /\ NoFault
       \/ MayDecide(Head(queue).call) /\ Fault
    /\ queue' = Rest
    /\ UNCHANGED <<doc, loop, owner, up, cancels, crashes>>

AskCancel ==
    /\ up /\ cancels < MaxCancels /\ cancels' = cancels + 1
    /\ queue' = Append(queue, [op |-> "cancel"])
    /\ UNCHANGED <<doc, loop, owner, up, faults, crashes>>

FinalizationPending == \E t \in Tasks : task[t] \in {"finalizing", "draining"}

\* The cancellation is saved, the controller is aborted, and a cleanup takes
\* the continuation, unless one is at work already.
Cancelled ==
    /\ At("cancel")
    /\ LET wasTerminal == doc.status \in Terminal
       IN /\ doc' = IF wasTerminal THEN doc
                    ELSE [doc EXCEPT !.status = "cancelled", !.requests = {}]
          /\ task' = IF task[0] \notin {"unborn", "gone"} THEN task
                     ELSE [task EXCEPT ![0] =
                              CASE continuation -> "releasing"
                                [] ~continuation /\ wasTerminal /\ ~FinalizationPending -> "checking"
                                [] OTHER -> "idling"]
    /\ stopping' = (stopping \/ (controller /\ harness # "over"))
    /\ continuation' = FALSE
    /\ queue' = Rest
    /\ UNCHANGED <<harness, broken, place, result, executed, accepted, outcome, todo,
                   reserved, controller, held, up, bounds>>
NotCancelled ==
    /\ At("cancel") /\ doc.status \notin Terminal /\ Fault
    /\ queue' = Rest
    /\ UNCHANGED <<doc, loop, owner, up, cancels, crashes>>

\* The cleanup: the continuation is released, which waits for the loop; the
\* controller goes if nothing runs; the Session is finalized if it has to be;
\* the run is settled unless its execution will do that.
CleanupReleased ==
    /\ up /\ task[0] = "releasing" /\ harness = "over"
    /\ Go(0, "idling", <<>>, queue)
    /\ UNCHANGED <<doc, loop, accepted, outcome, continuation, held, up, bounds>>
CleanupIdle ==
    /\ up /\ task[0] \in {"idling", "checking"}
    /\ controller' = (controller /\ (Executing \/ reserved \/ continuation))
    /\ task' = [task EXCEPT ![0] = IF @ = "idling" THEN "finalizing" ELSE "cleaned"]
    /\ UNCHANGED <<doc, queue, loop, accepted, outcome, todo, continuation, reserved, held,
                   up, bounds>>
CleanupSettles ==
    /\ up
    /\ \/ task[0] = "draining" /\ harness = "over" /\ held' = FALSE
       \/ task[0] = "cleaned" /\ UNCHANGED held
    /\ IF HasLiveExecution
       THEN Finish(0) /\ UNCHANGED <<todo, queue>>
       ELSE Settle(0, doc, accepted, queue)
    /\ UNCHANGED <<doc, loop, accepted, outcome, continuation, up, bounds>>

-----------------------------------------------------------------------------
(* A stop of the process and the recovery at the next start                *)
(* (recoverPersistedRuns).  Each step is one save; the process may stop     *)
(* between any two.                                                        *)

Crash ==
    /\ crashes < MaxCrashes /\ crashes' = crashes + 1
    /\ up' = FALSE
    /\ queue' = <<>>
    /\ harness' = "over" /\ stopping' = FALSE /\ broken' = FALSE
    /\ place' = [c \in Calls |-> "closed"] /\ result' = Nothing
    /\ accepted' = Nothing
    /\ task' = [t \in Tasks |-> "gone"]
    /\ outcome' = [t \in Tasks |-> NoOutcome] /\ todo' = [t \in Tasks |-> Nothing]
    /\ continuation' = FALSE /\ reserved' = FALSE /\ controller' = FALSE /\ held' = FALSE
    /\ UNCHANGED <<doc, executed, cancels, faults>>

\* blockLostApproval: the facts and the block are one save.
RecoverPause ==
    /\ doc.status = "awaiting"
    /\ doc' = [(IF doc.round THEN CloseFacts(doc) ELSE CloseAsked(doc))
                   EXCEPT !.status = "blocked", !.requests = {}]
\* reconcilePendingToolRound: the facts, then the round.
RecoverFacts ==
    /\ doc.status # "awaiting" /\ doc.round /\ CloseFacts(doc) # doc
    /\ doc' = CloseFacts(doc)
RecoverRound ==
    /\ doc.status # "awaiting" /\ doc.round /\ CloseFacts(doc) = doc
    /\ doc' = [doc EXCEPT !.round = FALSE]
\* A run nobody executes any more is blocked.
RecoverRunning ==
    /\ doc.status = "running" /\ ~doc.round
    /\ doc' = [doc EXCEPT !.status = "blocked"]
Recover ==
    /\ ~up
    /\ RecoverPause \/ RecoverFacts \/ RecoverRound \/ RecoverRunning
    /\ UNCHANGED <<queue, loop, owner, up, bounds>>
Recovered ==
    /\ ~up /\ doc.status \in Terminal /\ ~doc.round
    /\ up' = TRUE
    /\ UNCHANGED <<doc, queue, loop, owner, bounds>>

-----------------------------------------------------------------------------
Call(c) == Ask(c) \/ Start(c) \/ Return(c) \/ Abort(c)
Operation ==
    \/ ResultSaved \/ ResultLost \/ RoundClosed \/ RoundNotClosed
    \/ Paused \/ NotPaused \/ Ended \/ NotEnded
    \/ Rescued \/ Reconciled \/ Decided \/ NotDecided
    \/ Cancelled \/ NotCancelled
Task(t) == LoopEnded(t) \/ Remember(t) \/ Released(t) \/ Catch(t) \/ Finalized(t)
Cleanup == CleanupReleased \/ CleanupIdle \/ CleanupSettles

Next ==
    \/ \E c \in Calls : Call(c) \/ AskDecide(c)
    \/ FinishCalls \/ Answer
    \/ Operation
    \/ \E t \in Tasks \ {0} : Task(t)
    \/ \E t \in Tasks : Revoke(t)
    \/ Cleanup
    \/ AskCancel
    \/ Crash \/ Recover \/ Recovered

Spec == Init /\ [][Next]_vars

\* Started tools return, the loop and the tasks go on, queued operations get
\* the run's lock in turn, and a start recovers what it finds.  The user need
\* not answer or cancel, and the process need not stop.
Fairness ==
    /\ \A c \in Calls : WF_vars(Call(c))
    /\ WF_vars(FinishCalls) /\ WF_vars(Answer)
    /\ WF_vars(Operation)
    /\ \A t \in Tasks \ {0} : WF_vars(Task(t))
    /\ \A t \in Tasks : WF_vars(Revoke(t))
    /\ WF_vars(Cleanup)
    /\ WF_vars(Recover) /\ WF_vars(Recovered)
FairSpec == Spec /\ Fairness

-----------------------------------------------------------------------------
(* Safety.                                                                 *)

\* What the run records as refused by the user or by a cancellation was not
\* executed, whatever was in flight when it was refused.
RefusedIsNotExecuted ==
    \A c \in Calls : doc.fact[c] \in {"denied", "cancelled"} => c \notin executed

\* A gated effect begins only once its approval is on disk.
ApprovedBeforeExecuted ==
    \A c \in executed \cap (GatedBefore \cup GatedDuring) : doc.decided[c] = "approved"

\* A round is closed over results only: the transcript never holds a result
\* for a call whose approval was still open.
ClosedRoundIsSettled == ~doc.round => \A c \in Calls : doc.fact[c] \in Final

\* Whoever looks at a pause can answer it: the loop is waiting for each of the
\* requests the run names, and the continuation to answer them with is there.
PauseIsAnswerable ==
    up /\ doc.status = "awaiting" => continuation /\ doc.requests \subseteq Waiting

\* A result, once saved, is what the run says of the call for ever, whichever
\* of the tool, the user, the settlement and the restart reports next.
FactsAreFinal ==
    [][\A c \in Calls : doc.fact[c] \in Final => doc'.fact[c] = doc.fact[c]]_vars

\* An ended run says something final of every call of its round: neither a
\* failed save nor a stop of the process leaves an approval open in it.  The
\* exception: the loop's save of a request that a pause on display refuses, and
\* then a failed save of the settlement, leave it open until the next start.
EndedRunSettles ==
    <>[](doc.status \in Terminal =>
            \A c \in Calls :
                \/ doc.fact[c] \in Final
                \/ doc.fact[c] = "asked" /\ result[c] = "refused" /\ faults > 0)

\* The reservation of one decision does not outlive it: a pause on display
\* stops being busy.
BusyEnds == reserved ~> ~reserved

-----------------------------------------------------------------------------
(* What comments of the code say and the code does not do.                 *)

\* The comment on reconcileInterruptedOrdinaryToolRound: it "closes a durable
\* write-ahead round after its live execution owner is gone", so in a run that
\* goes on no call is recorded as lost while the loop still executes it.
LiveCallsStayOpen ==
    doc.status = "running" =>
        \A c \in Calls : doc.fact[c] = "unknown" => place[c] # "executing"
=============================================================================
