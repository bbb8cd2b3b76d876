------------------------- MODULE ConversationQueue -------------------------
(***************************************************************************)
(* The queue of turns of one conversation: submission, activation of the   *)
(* next queued run, the run's execution against the Session transcript,    *)
(* cancellation with its cleanup, session finalization and settlement.     *)
(*                                                                         *)
(* Everything happens in one Node process: a step of the model is the code *)
(* between two awaits that do I/O.  Awaits that only pass through          *)
(* microtasks (cached run documents, settled promises) are merged into the *)
(* step they belong to.  The session's write fence is SessionWriteFence;   *)
(* of it this module keeps which run's generation is open (`control`) and  *)
(* whether it may still write.                                             *)
(*                                                                         *)
(* Out of this module: approvals, deletion, rollback by the user, nested   *)
(* tools, compaction and restarts.                                         *)
(***************************************************************************)
EXTENDS ConversationProjection, FiniteSets

CONSTANTS
  MaxCancels,   \* bound: how many times the user presses stop
  MaxFaults,    \* bound: how many saves, acquisitions, model calls... fail
  MaxRounds     \* bound: how many tool rounds the model asks for

ASSUME BudgetAssumption == MaxCancels \in Nat /\ MaxFaults \in Nat /\ MaxRounds \in Nat

Keep == <<NoRun, "keep">>          \* finalizeSession without a target leaf

VARIABLES
  doc,           \* run -> its published snapshot
  leaf,          \* the durable leaf of the transcript
  pathTo,        \* entry -> the transcript path ending in it, <<>> if never written
  exec,          \* run -> where its execution task is
  outcome,       \* run -> the status its execution reports
  safe,          \* run -> safeLeafEntryId of its event projector
  accepted,      \* run -> is a tool result remembered that is not persisted?
  control,       \* run -> its ActiveSessionControl: none, acquiring, attached
  finalization,  \* run -> its session finalization
  target,        \* run -> the leaf its finalization restores
  failures,      \* the runs in sessionFinalizationFailures
  cleanup,       \* run -> where its cancellation cleanup is
  activation,    \* the conversation's single activation attempt
  submission,    \* the submission that holds the conversation lock
  cancels, faults, rounds
vars == <<doc, leaf, pathTo, exec, outcome, safe, accepted, control, finalization,
          target, failures, cleanup, activation, submission, cancels, faults, rounds>>

transcript == <<leaf, pathTo>>
running == <<exec, outcome, safe, accepted>>
session == <<control, finalization, target, failures>>
budget == <<cancels, faults, rounds>>

InHarness == {"prompting", "input", "answering", "call", "tooling", "accepting",
              "delivering", "round", "answer"}
ExecutionEnded == {"idle", "posting", "done"}
ExecStates == InHarness \cup ExecutionEnded \cup
  {"acquiring", "capturing", "outcome", "committing", "recommitting",
   "finalizing", "keeping", "activating", "joined", "settling"}

NoDoc == [status |-> "absent", phase |-> "not_started", start |-> Root, end |-> Root,
          round |-> FALSE, pred |-> NoRun]
NoDocs == [r \in Runs |-> NoDoc]
Idle == [pc |-> "idle", docs |-> NoDocs, run |-> NoRun, tried |-> "nothing"]
NoSubmission == [pc |-> "idle", docs |-> NoDocs, pred |-> NoRun]

TypeOK ==
  /\ doc \in [Runs -> Snapshots]
  /\ leaf \in Entries \cup {Root}
  /\ \A e \in Entries : pathTo[e] = <<>> \/ Last(pathTo[e]) = e
  /\ exec \in [Runs -> ExecStates]
  /\ outcome \in [Runs -> {"none", "completed", "failed", "cancelled"}]
  /\ safe \in [Runs -> Entries \cup {Root}]
  /\ accepted \in [Runs -> BOOLEAN]
  /\ control \in [Runs -> {"none", "acquiring", "attached"}]
  /\ finalization \in [Runs -> {"no", "revoking", "closing", "failed"}]
  /\ target \in [Runs -> Entries \cup {Root, Keep}]
  /\ failures \subseteq Runs
  /\ cleanup \in [Runs -> {"none", "finalizing", "settling", "activating"}]
  /\ activation.pc \in {"idle", "reading", "settling", "retrying", "locking",
                        "rereading", "starting"}
  /\ submission.pc \in {"idle", "reading", "persisting", "starting", "awaiting"}

Init ==
  /\ doc = NoDocs
  /\ leaf = Root
  /\ pathTo = [e \in Entries |-> <<>>]
  /\ exec = [r \in Runs |-> "idle"]
  /\ outcome = [r \in Runs |-> "none"]
  /\ safe = [r \in Runs |-> Root]
  /\ accepted = [r \in Runs |-> FALSE]
  /\ control = [r \in Runs |-> "none"]
  /\ finalization = [r \in Runs |-> "no"]
  /\ target = [r \in Runs |-> Keep]
  /\ failures = {}
  /\ cleanup = [r \in Runs |-> "none"]
  /\ activation = Idle
  /\ submission = NoSubmission
  /\ cancels = 0 /\ faults = 0 /\ rounds = 0

-----------------------------------------------------------------------------
(* What the steps share.                                                   *)

Fault == faults < MaxFaults /\ faults' = faults + 1 /\ UNCHANGED <<cancels, rounds>>

Branch == IF leaf = Root THEN <<>> ELSE pathTo[leaf]
ExecutionActive(r) == exec[r] \notin ExecutionEnded
Cancelled(r) == doc[r].status = "cancelled"

Facts == [r \in Runs |->
  [unsettledToolWork |-> accepted[r],
   sessionFinalizationPending |-> finalization[r] # "no",
   executionActive |-> ExecutionActive(r)]]

(* withExclusiveRun: the activation holds the candidate's lock while it    *)
(* re-checks it and saves its start.  Every other exclusive section is one *)
(* step here.                                                              *)
LockFree(r) == ~ (activation.run = r /\ activation.pc \in {"rereading", "starting"})

(* requestConversationActivation: start an attempt, or join the one there. *)
RequestActivation(docs) ==
  activation' = IF activation.pc = "idle"
                THEN [Idle EXCEPT !.pc = "reading", !.docs = docs]
                ELSE activation

(* The attempt settled: everyone who awaited it goes on. *)
FinishActivation(execNow) ==
  /\ activation' = Idle
  /\ exec' = [r \in Runs |-> IF execNow[r] = "joined" THEN "settling" ELSE execNow[r]]
  /\ submission' = IF submission.pc = "awaiting" THEN NoSubmission ELSE submission

(* rollbackLeafRef *)
RollbackLeaf(d) ==
  CASE d.phase \in {"rollbackable", "candidate"} -> d.end
    [] d.phase = "started" -> d.start
    [] OTHER -> Root

(* finalizeSession: without a control there is no session to finalize; the *)
(* target of a failed attempt is replayed exactly.                         *)
FinalizeSession(r, leafToRestore) ==
  LET goal == IF r \in failures THEN target[r] ELSE leafToRestore
  IN  /\ target' = [target EXCEPT ![r] = goal]
      /\ finalization' = [finalization EXCEPT ![r] =
           IF control[r] = "none" THEN "no"
           ELSE IF @ \in {"revoking", "closing"} THEN @
           ELSE IF goal = Keep THEN "closing" ELSE "revoking"]
      /\ failures' = IF control[r] = "none" THEN failures \ {r} ELSE failures
      /\ UNCHANGED control

FinalizationSettled(r) == finalization[r] \notin {"revoking", "closing"}

(* "start" and executionCoordinator.start: the run is running, and its     *)
(* execution created the session control and waits for its resources.      *)
Started(r) == [doc EXCEPT ![r].status = "running"]
ControlCreated(r) ==
  /\ control' = [control EXCEPT ![r] = "acquiring"]
  /\ UNCHANGED <<finalization, target, failures>>

-----------------------------------------------------------------------------
(* submitTurn and startWithinConversation, under the conversation lock.    *)

NextRun == Cardinality(Present(doc)) + 1

SubmitTurn ==
  /\ submission.pc = "idle" /\ NextRun \in Runs
  /\ submission' = [NoSubmission EXCEPT !.pc = "reading", !.docs = doc]
  /\ UNCHANGED <<doc, transcript, running, session, cleanup, activation, budget>>

(* The branch was read: the new turn follows the last visible run, unless  *)
(* the projection throws or that run already has a queued successor.       *)
SubmissionReads ==
  /\ submission.pc = "reading"
  /\ LET docs == submission.docs
         pred == LastRun(Visible(docs, Branch))
         taken == pred # NoRun /\ \E q \in Runs : doc[q].status = "queued" /\ doc[q].pred = pred
     IN  submission' = IF Projectable(docs, Branch) /\ ~ taken
                       THEN [NoSubmission EXCEPT !.pc = "persisting", !.pred = pred]
                       ELSE NoSubmission
  /\ UNCHANGED <<doc, transcript, running, session, cleanup, activation, budget>>

(* publishBirth, then the predecessor is read again: if it ended while the *)
(* birth was being saved, this submission activates the new run itself.    *)
SubmissionPublishes ==
  LET r == NextRun
      pred == submission.pred
      born == [doc EXCEPT ![r] = [NoDoc EXCEPT !.status = "queued", !.pred = pred]]
  IN  /\ submission.pc = "persisting"
      /\ doc' = born
      /\ IF pred = NoRun
         THEN submission' = [submission EXCEPT !.pc = "starting"] /\ UNCHANGED activation
         ELSE IF Terminal(doc[pred])
         THEN submission' = [submission EXCEPT !.pc = "awaiting"] /\ RequestActivation(born)
         ELSE submission' = NoSubmission /\ UNCHANGED activation
      /\ UNCHANGED <<transcript, running, session, cleanup, budget>>

SubmissionFails ==
  /\ submission.pc = "persisting"
  /\ submission' = NoSubmission
  /\ Fault
  /\ UNCHANGED <<doc, transcript, running, session, cleanup, activation>>

(* A first turn starts at once; when that fails (the save failed, or the   *)
(* run is no longer queued) an activation is requested instead.            *)
FirstTurnStarts ==
  LET r == NextRun - 1
  IN  /\ submission.pc = "starting" /\ LockFree(r)
      /\ doc[r].status = "queued"
      /\ doc' = Started(r)
      /\ exec' = [exec EXCEPT ![r] = "acquiring"]
      /\ ControlCreated(r)
      /\ submission' = NoSubmission
      /\ UNCHANGED <<transcript, outcome, safe, accepted, cleanup, activation, budget>>

FirstTurnStays ==
  LET r == NextRun - 1
  IN  /\ submission.pc = "starting" /\ LockFree(r)
      /\ doc[r].status = "queued" => Fault
      /\ doc[r].status # "queued" => UNCHANGED budget
      /\ RequestActivation(doc)
      /\ submission' = NoSubmission
      /\ UNCHANGED <<doc, transcript, running, session, cleanup>>

-----------------------------------------------------------------------------
(* activateConversationOnce.  The run documents are captured before the    *)
(* branch is read; the scheduling facts are read after it.                 *)

(* The first visible run satisfying Test, as Array.find. *)
FirstRun(runs, Test(_)) ==
  LET i == SelectInSeq(runs, Test) IN IF i = 0 THEN NoRun ELSE runs[i]

SettlementBlocker(runs, docs) ==
  FirstRun(runs, LAMBDA r : /\ Terminal(docs[r]) /\ docs[r].status # "cancelled"
                            /\ accepted[r] /\ ~ ExecutionActive(r))

FinalizationBlocker(runs, docs) ==
  FirstRun(runs, LAMBDA r : Terminal(docs[r]) /\ r \in failures)

(* The predecessor of the candidate must be visible and cleared as well. *)
PredecessorCleared(r, runs, docs) ==
  docs[r].pred # NoRun =>
    docs[r].pred \in ToSet(runs) /\ BarrierCleared(docs[docs[r].pred], Facts[docs[r].pred])

ActivationReads ==
  \E runs \in {Visible(activation.docs, Branch)} :
  LET docs == activation.docs
      candidate == NextEligibleQueued(runs, docs, Facts)
      unsettled == SettlementBlocker(runs, docs)
      unfinalized == FinalizationBlocker(runs, docs)
      Go(pc, r, tried) ==
        /\ activation' = [Idle EXCEPT !.pc = pc, !.run = r, !.tried = tried]
        /\ UNCHANGED <<exec, submission, session>>
  IN  /\ activation.pc = "reading"
      /\ CASE ~ Projectable(docs, Branch) -> FinishActivation(exec) /\ UNCHANGED session
           [] Projectable(docs, Branch) /\ candidate # NoRun ->
                IF PredecessorCleared(candidate, runs, docs)
                THEN Go("locking", candidate, "nothing")
                ELSE FinishActivation(exec) /\ UNCHANGED session
           [] Projectable(docs, Branch) /\ candidate = NoRun ->
                IF activation.tried = "nothing" /\ unsettled # NoRun
                THEN Go("settling", unsettled, "settlement")
                ELSE IF activation.tried # "finalization" /\ unfinalized # NoRun
                THEN /\ activation' = [Idle EXCEPT !.pc = "retrying", !.run = unfinalized,
                                                   !.tried = "finalization"]
                     /\ FinalizeSession(unfinalized, Keep)
                     /\ UNCHANGED <<exec, submission>>
                ELSE FinishActivation(exec) /\ UNCHANGED session
      /\ UNCHANGED <<doc, transcript, outcome, safe, accepted, cleanup, budget>>

(* retryFinalization came back. *)
ActivationRetried ==
  LET r == activation.run
  IN  /\ activation.pc = "retrying" /\ FinalizationSettled(r)
      /\ IF r \in failures
         THEN FinishActivation(exec)
         ELSE /\ activation' = [activation EXCEPT !.pc = "reading", !.docs = doc]
              /\ UNCHANGED <<exec, submission>>
      /\ UNCHANGED <<doc, transcript, outcome, safe, accepted, session, cleanup, budget>>

(* Inside withExclusiveRun of the candidate everything is read once more. *)
ActivationLocks ==
  LET r == activation.run
  IN  /\ activation.pc = "locking"
      /\ IF doc[r].status = "queued"
         THEN /\ activation' = [activation EXCEPT !.pc = "rereading", !.docs = doc]
              /\ UNCHANGED <<exec, submission>>
         ELSE FinishActivation(exec)
      /\ UNCHANGED <<doc, transcript, outcome, safe, accepted, session, cleanup, budget>>

ActivationRereads ==
  LET r == activation.run
      docs == activation.docs
      runs == Visible(docs, Branch)
  IN  /\ activation.pc = "rereading"
      /\ IF /\ Projectable(docs, Branch)
            /\ NextEligibleQueued(runs, docs, Facts) = r
            /\ PredecessorCleared(r, runs, docs)
         THEN /\ activation' = [Idle EXCEPT !.pc = "starting", !.run = r]
              /\ UNCHANGED <<exec, submission>>
         ELSE FinishActivation(exec)
      /\ UNCHANGED <<doc, transcript, outcome, safe, accepted, session, cleanup, budget>>

ActivationStarts ==
  LET r == activation.run
  IN  /\ activation.pc = "starting"
      /\ doc' = Started(r)
      /\ ControlCreated(r)
      /\ FinishActivation([exec EXCEPT ![r] = "acquiring"])
      /\ UNCHANGED <<transcript, outcome, safe, accepted, cleanup, budget>>

ActivationFails ==
  /\ activation.pc = "starting"
  /\ FinishActivation(exec)
  /\ Fault
  /\ UNCHANGED <<doc, transcript, outcome, safe, accepted, session, cleanup>>

-----------------------------------------------------------------------------
(* Settlement: what a terminal run still owes.                             *)

(* reconcileToolResultEntries needs the session for itself, and the tool   *)
(* call either on the active branch with nothing but results behind it, or *)
(* above the active leaf when that leaf is the run's own rollback target.  *)
MayReconcileRound(r) ==
  LET call == <<r, "call">>
      at == IndexOn(Branch, call)
  IN  /\ \A q \in Runs : control[q] # "attached"
      /\ IF call \in ToSet(Branch)
         THEN \A i \in (at + 1)..Len(Branch) : Branch[i] = <<r, "result">>
         ELSE leaf = doc[r].end /\ leaf \in ToSet(pathTo[call])

(* settleExecution: persist the remembered result, then close the pending  *)
(* round in the transcript and in the snapshot.  `ok` says whether it      *)
(* returned or threw.                                                      *)
SettleExecution(r, ok) ==
  /\ accepted' = [accepted EXCEPT ![r] = FALSE]
  /\ UNCHANGED budget
  /\ \/ /\ ok /\ ~ doc[r].round
        /\ UNCHANGED <<doc, transcript>>
     \/ /\ ok /\ doc[r].round /\ MayReconcileRound(r)
        /\ leaf' = <<r, "result">>
        /\ pathTo' = [pathTo EXCEPT ![leaf'] = Append(pathTo[<<r, "call">>], leaf')]
        /\ doc' = [doc EXCEPT ![r].round = FALSE, ![r].end = leaf']
     \/ /\ ~ ok /\ doc[r].round /\ ~ MayReconcileRound(r)
        /\ UNCHANGED <<doc, transcript>>

(* ... or a save in it fails, which leaves everything to do. *)
SettlementFails(r) ==
  /\ accepted[r] \/ doc[r].round
  /\ Fault
  /\ UNCHANGED <<doc, transcript, accepted>>

ActivationSettles ==
  LET r == activation.run
  IN  /\ activation.pc = "settling"
      /\ \/ /\ SettleExecution(r, TRUE)
            /\ activation' = [activation EXCEPT !.pc = "reading", !.docs = doc']
            /\ UNCHANGED <<exec, submission>>
         \/ (SettleExecution(r, FALSE) \/ SettlementFails(r)) /\ FinishActivation(exec)
      /\ UNCHANGED <<outcome, safe, session, cleanup>>

-----------------------------------------------------------------------------
(* Finalization of a run's session: createActiveSessionControl.            *)

(* The leaf goes back to the target and the generation stops writing; a    *)
(* revocation asked for before the resources were there waits for them.    *)
RevokeSession(r) ==
  /\ finalization[r] = "revoking" /\ control[r] = "attached"
  /\ leaf' = target[r]
  /\ finalization' = [finalization EXCEPT ![r] = "closing"]
  /\ UNCHANGED <<doc, pathTo, running, control, target, failures, cleanup, activation,
                 submission, budget>>

(* Both attempts failed: the generation stays, and so does the target. *)
RevokeFails(r) ==
  /\ finalization[r] = "revoking" /\ control[r] = "attached"
  /\ finalization' = [finalization EXCEPT ![r] = "failed"]
  /\ failures' = failures \cup {r}
  /\ Fault
  /\ UNCHANGED <<doc, transcript, running, control, target, cleanup, activation, submission>>

(* Releasing the loop waits for the harness; then the generation closes. *)
\* Mutants: released without waiting for the harness; or only after the whole task.
CloseSessionEarly(r) ==
  /\ finalization[r] = "closing"
  /\ control' = [control EXCEPT ![r] = "none"]
  /\ finalization' = [finalization EXCEPT ![r] = "no"]
  /\ failures' = failures \ {r}
  /\ UNCHANGED <<doc, transcript, running, target, cleanup, activation, submission, budget>>

CloseSessionAfterTask(r) == exec[r] \in ExecutionEnded /\ CloseSessionEarly(r)

CloseSession(r) ==
  /\ finalization[r] = "closing" /\ exec[r] \notin InHarness
  /\ control' = [control EXCEPT ![r] = "none"]
  /\ finalization' = [finalization EXCEPT ![r] = "no"]
  /\ failures' = failures \ {r}
  /\ UNCHANGED <<doc, transcript, running, target, cleanup, activation, submission, budget>>

-----------------------------------------------------------------------------
(* Cancellation and its cleanup.                                           *)

(* The persisted snapshot is the linearization point; the leaf to restore  *)
(* is chosen from that snapshot.  Cancelling a run that already ended only *)
(* re-runs the cleanup.                                                    *)
CancelledDoc(d) ==
  [d EXCEPT !.status = "cancelled",
            !.phase = IF @ = "candidate" THEN "rollbackable" ELSE @]

Cancel(r) ==
  LET ended == Terminal(doc[r])
      d == IF ended THEN doc[r] ELSE CancelledDoc(doc[r])
  IN  /\ doc[r].status # "absent" /\ LockFree(r)
      /\ cancels < MaxCancels
      /\ cancels' = cancels + 1
      /\ doc' = [doc EXCEPT ![r] = d]
      /\ IF cleanup[r] = "none"
         THEN /\ cleanup' = [cleanup EXCEPT ![r] = "finalizing"]
              /\ IF ~ ended \/ finalization[r] # "no"
                 THEN FinalizeSession(r, IF d.status = "completed" THEN Keep ELSE RollbackLeaf(d))
                 ELSE UNCHANGED session
         ELSE UNCHANGED <<cleanup, session>>
      /\ UNCHANGED <<transcript, running, activation, submission, faults, rounds>>

CleanupFinalized(r) ==
  /\ cleanup[r] = "finalizing" /\ FinalizationSettled(r)
  /\ cleanup' = [cleanup EXCEPT ![r] =
       IF r \in failures THEN "none"
       ELSE IF ExecutionActive(r) THEN "activating" ELSE "settling"]
  /\ UNCHANGED <<doc, transcript, running, session, activation, submission, budget>>

CleanupSettles(r) ==
  /\ cleanup[r] = "settling"
  /\ \/ SettleExecution(r, TRUE) /\ cleanup' = [cleanup EXCEPT ![r] = "activating"]
     \/ /\ SettleExecution(r, FALSE) \/ SettlementFails(r)
        /\ cleanup' = [cleanup EXCEPT ![r] = "none"]
  /\ UNCHANGED <<exec, outcome, safe, session, activation, submission>>

CleanupActivates(r) ==
  /\ cleanup[r] = "activating"
  /\ cleanup' = [cleanup EXCEPT ![r] = "none"]
  /\ RequestActivation(doc)
  /\ UNCHANGED <<doc, transcript, running, session, submission, budget>>

-----------------------------------------------------------------------------
(* The execution task: runExecution, the Session loop and its projector.   *)

ExecTo(r, pc) == exec' = [exec EXCEPT ![r] = pc]
Reports(r, kind) == outcome' = [outcome EXCEPT ![r] = IF Cancelled(r) THEN "cancelled" ELSE kind]
StaysOutside == UNCHANGED <<cleanup, activation, submission>>

(* The resources are there.  A signal that already fired ends the loop     *)
(* before it touches the session.                                          *)
AcquireSession(r) ==
  /\ exec[r] = "acquiring" /\ \A q \in Runs : control[q] # "attached"
  /\ control' = [control EXCEPT ![r] = "attached"]
  /\ IF Cancelled(r) THEN ExecTo(r, "outcome") /\ Reports(r, "cancelled")
                     ELSE ExecTo(r, "capturing") /\ UNCHANGED outcome
  /\ UNCHANGED <<doc, transcript, safe, accepted, finalization, target, failures, budget>>
  /\ StaysOutside

(* Another generation is active, or a resource could not be acquired. *)
AcquireFails(r) ==
  /\ exec[r] = "acquiring"
  /\ IF \E q \in Runs : control[q] = "attached" THEN UNCHANGED budget ELSE Fault
  /\ control' = [control EXCEPT ![r] = "none"]
  /\ finalization' = [finalization EXCEPT ![r] = "no"]
  /\ failures' = failures \ {r}
  /\ ExecTo(r, "outcome") /\ Reports(r, "failed")
  /\ UNCHANGED <<doc, transcript, safe, accepted, target>>
  /\ StaysOutside

(* One of the loop's checkpoints was saved, or its save failed. *)
Checkpoint(r, from, to, d) ==
  /\ exec[r] = from
  /\ ExecTo(r, to)
  /\ doc' = [doc EXCEPT ![r] = d]
  /\ UNCHANGED <<transcript, accepted, session, budget>>
  /\ StaysOutside

(* start_leaf_captured *)
CaptureStartLeaf(r) ==
  /\ Checkpoint(r, "capturing", "prompting", [doc[r] EXCEPT !.phase = "started", !.start = leaf])
  /\ safe' = [safe EXCEPT ![r] = leaf]
  /\ UNCHANGED outcome

(* input_entry_committed *)
CommitInput(r) ==
  /\ Checkpoint(r, "input", "answering",
                [doc[r] EXCEPT !.phase = "rollbackable", !.end = <<r, "input">>])
  /\ safe' = [safe EXCEPT ![r] = <<r, "input">>]
  /\ UNCHANGED outcome

(* assistant_tool_call_entry_committed *)
CommitCall(r) ==
  /\ Checkpoint(r, "call", "tooling", [doc[r] EXCEPT !.round = TRUE])
  /\ UNCHANGED <<safe, outcome>>

(* tool_result_entries_committed *)
CommitRound(r) ==
  /\ Checkpoint(r, "round", "answering",
                [doc[r] EXCEPT !.round = FALSE, !.end = <<r, "result">>])
  /\ safe' = [safe EXCEPT ![r] = <<r, "result">>]
  /\ UNCHANGED outcome

(* assistant_response_entry_committed; then the loop returns. *)
CommitAnswer(r) ==
  /\ Checkpoint(r, "answer", "outcome", [doc[r] EXCEPT !.phase = "candidate"])
  /\ Reports(r, "completed")
  /\ UNCHANGED safe

(* finalResult: the answer is on the transcript, but truncated or refused. *)
AnswerIsRefused(r) ==
  /\ exec[r] = "outcome" /\ outcome[r] = "completed"
  /\ Reports(r, "failed")
  /\ Fault
  /\ UNCHANGED <<doc, transcript, exec, safe, accepted, session>>
  /\ StaysOutside

CheckpointFails(r) ==
  /\ exec[r] \in {"capturing", "input", "call", "round", "answer"}
  /\ ExecTo(r, IF exec[r] = "capturing" /\ ~ Cancelled(r) THEN "recommitting" ELSE "outcome")
  /\ Reports(r, "failed")
  /\ Fault
  /\ UNCHANGED <<doc, transcript, safe, accepted, session>>
  /\ StaysOutside

(* The storage view of a revoked generation refuses to write. *)
MayWrite(r) == control[r] = "attached" /\ finalization[r] \in {"no", "revoking"}

AppendEntry(r, from, kind, to) ==
  /\ exec[r] = from /\ MayWrite(r)
  /\ leaf' = <<r, kind>>
  /\ pathTo' = [pathTo EXCEPT ![leaf'] = Append(Branch, leaf')]
  /\ ExecTo(r, to)
  /\ UNCHANGED <<doc, outcome, safe, accepted, session>>
  /\ StaysOutside

AppendInput(r) == AppendEntry(r, "prompting", "input", "input") /\ UNCHANGED budget
AppendAnswer(r) == AppendEntry(r, "answering", "answer", "answer") /\ UNCHANGED budget
AppendResults(r) == AppendEntry(r, "delivering", "result", "round") /\ UNCHANGED budget
AppendCall(r) ==
  /\ rounds < MaxRounds /\ pathTo[<<r, "call">>] = <<>>
  /\ rounds' = rounds + 1
  /\ AppendEntry(r, "answering", "call", "call")
  /\ UNCHANGED <<cancels, faults>>

(* The tool ended: its result is remembered before it is persisted. *)
ToolReturns(r) ==
  /\ exec[r] = "tooling"
  /\ accepted' = [accepted EXCEPT ![r] = TRUE]
  /\ ExecTo(r, "accepting")
  /\ UNCHANGED <<doc, transcript, outcome, safe, session, budget>>
  /\ StaysOutside

PersistToolResult(r) ==
  /\ exec[r] = "accepting"
  /\ accepted' = [accepted EXCEPT ![r] = FALSE]
  /\ ExecTo(r, "delivering")
  /\ UNCHANGED <<doc, transcript, outcome, safe, session, budget>>
  /\ StaysOutside

PersistToolResultFails(r) ==
  /\ exec[r] = "accepting"
  /\ ExecTo(r, "outcome") /\ Reports(r, "failed")
  /\ Fault
  /\ UNCHANGED <<doc, transcript, safe, accepted, session>>
  /\ StaysOutside

(* The harness stops: aborted, refused by the fence, or failed. *)
HarnessStops(r) ==
  /\ exec[r] \in {"prompting", "answering", "tooling", "delivering"}
  /\ IF Cancelled(r) THEN UNCHANGED budget ELSE Fault
  /\ ExecTo(r, "outcome") /\ Reports(r, "failed")
  /\ UNCHANGED <<doc, transcript, safe, accepted, session>>
  /\ StaysOutside

(* applyOutcome: an ended run keeps the fact it has. *)
ApplyOutcome(r) ==
  /\ exec[r] = "outcome"
  /\ ExecTo(r, IF Terminal(doc[r]) THEN "settling" ELSE "committing")
  /\ UNCHANGED <<doc, transcript, outcome, safe, accepted, session, budget>>
  /\ StaysOutside

(* The terminal snapshot an outcome leads to: a completed run keeps its    *)
(* answer, any other the last leaf its projector called safe.              *)
\* Mutants: no leaf for a run that failed before its first entry; an answer kept
\* for a run that failed before it was written.
EndedDocWithoutLeaf(r, status) ==
  LET d == [doc[r] EXCEPT !.status = status, !.phase = "rollbackable"]
  IN  IF status \in {"completed", "blocked"} THEN [d EXCEPT !.end = <<r, "answer">>]
      ELSE IF safe[r] = Root THEN [d EXCEPT !.end = Keep] ELSE [d EXCEPT !.end = safe[r]]

EndedDocKeepsAnswer(r, status) ==
  [doc[r] EXCEPT !.status = status, !.phase = "rollbackable", !.end = <<r, "answer">>]

EndedDoc(r, status) ==
  LET d == [doc[r] EXCEPT !.status = status]
  IN  CASE status \in {"completed", "blocked"} ->
             [d EXCEPT !.phase = "rollbackable", !.end = <<r, "answer">>]
        [] status = "failed" /\ d.phase # "not_started" ->
             IF safe[r] = Root THEN [d EXCEPT !.phase = "started", !.end = Root]
             ELSE [d EXCEPT !.phase = "rollbackable", !.end = safe[r]]
        [] OTHER -> d

\* Mutant: only a failed run gives its session back.
CommitAsKeepingSession(r, status, to) ==
  /\ doc' = [doc EXCEPT ![r] = EndedDoc(r, status)]
  /\ IF status = "failed" THEN FinalizeSession(r, RollbackLeaf(doc'[r])) ELSE UNCHANGED session
  /\ ExecTo(r, to)

CommitAs(r, status, to) ==
  /\ doc' = [doc EXCEPT ![r] = EndedDoc(r, status)]
  /\ FinalizeSession(r, IF status = "failed" THEN RollbackLeaf(doc'[r]) ELSE Keep)
  /\ ExecTo(r, to)

\* Mutant: the outcome is saved without looking at the snapshot again.
CommitOutcomeUnchecked(r) ==
  /\ exec[r] = "committing" /\ CommitAs(r, outcome[r], "finalizing")
  /\ UNCHANGED <<transcript, outcome, safe, accepted, budget>>
  /\ StaysOutside

CommitOutcome(r) ==
  /\ exec[r] = "committing"
  /\ IF Terminal(doc[r])
     THEN /\ ExecTo(r, IF outcome[r] = "completed" THEN "activating" ELSE "settling")
          /\ UNCHANGED <<doc, session>>
     ELSE CommitAs(r, outcome[r], "finalizing")
  /\ UNCHANGED <<transcript, outcome, safe, accepted, budget>>
  /\ StaysOutside

(* The save failed.  A completed snapshot may have reached the disk all    *)
(* the same, and is then adopted as it is.                                 *)
CommitFails(r) ==
  /\ exec[r] = "committing" /\ ~ Terminal(doc[r])
  /\ \/ ExecTo(r, "recommitting") /\ UNCHANGED <<doc, session>>
     \/ outcome[r] = "completed" /\ CommitAs(r, "completed", "keeping")
  /\ Fault
  /\ UNCHANGED <<transcript, outcome, safe, accepted>>
  /\ StaysOutside

(* The second attempt: handleCompletedCommitFailure blocks the run with    *)
(* its answer kept, any other outcome is saved once more.                  *)
Recommit(r) ==
  /\ exec[r] = "recommitting"
  /\ IF Terminal(doc[r])
     THEN /\ \/ ExecTo(r, "settling")
             \/ outcome[r] = "completed" /\ ExecTo(r, "activating")
          /\ UNCHANGED <<doc, session>>
     ELSE IF outcome[r] = "completed" THEN CommitAs(r, "blocked", "keeping")
     ELSE CommitAs(r, "failed", "finalizing")
  /\ UNCHANGED <<transcript, outcome, safe, accepted, budget>>
  /\ StaysOutside

RecommitFails(r) ==
  /\ exec[r] = "recommitting" /\ ~ Terminal(doc[r])
  /\ ExecTo(r, "settling")
  /\ Fault
  /\ UNCHANGED <<doc, transcript, outcome, safe, accepted, session>>
  /\ StaysOutside

ExecutionFinalized(r) ==
  /\ exec[r] \in {"finalizing", "keeping"} /\ FinalizationSettled(r)
  /\ ExecTo(r, IF exec[r] = "keeping" THEN "activating" ELSE "settling")
  /\ UNCHANGED <<doc, transcript, outcome, safe, accepted, session, budget>>
  /\ StaysOutside

(* handleCompletedCommitFailure awaits an activation inside the execution. *)
ExecutionActivates(r) ==
  /\ exec[r] = "activating"
  /\ ExecTo(r, "joined")
  /\ RequestActivation(doc)
  /\ UNCHANGED <<doc, transcript, outcome, safe, accepted, session, cleanup, submission, budget>>

(* The finally clause: settle, drop the controller; the task is over. *)
ExecutionSettles(r) ==
  /\ exec[r] = "settling"
  /\ SettleExecution(r, TRUE) \/ SettleExecution(r, FALSE) \/ SettlementFails(r)
  /\ ExecTo(r, "posting")
  /\ UNCHANGED <<outcome, safe, session>>
  /\ StaysOutside

(* track: whatever became of the task, its successor is activated. *)
ExecutionPosts(r) ==
  /\ exec[r] = "posting"
  /\ ExecTo(r, "done")
  /\ RequestActivation(doc)
  /\ UNCHANGED <<doc, transcript, outcome, safe, accepted, session, cleanup, submission, budget>>

-----------------------------------------------------------------------------
Submission == SubmitTurn \/ SubmissionReads \/ SubmissionPublishes \/ SubmissionFails
              \/ FirstTurnStarts \/ FirstTurnStays

Activation == ActivationReads \/ ActivationSettles \/ ActivationRetried \/ ActivationLocks
              \/ ActivationRereads \/ ActivationStarts \/ ActivationFails

Cleanup(r) == CleanupFinalized(r) \/ CleanupSettles(r) \/ CleanupActivates(r)

Finalization(r) == RevokeSession(r) \/ RevokeFails(r) \/ CloseSession(r)

Loop(r) ==
  \/ AcquireSession(r) \/ AcquireFails(r)
  \/ CaptureStartLeaf(r) \/ AppendInput(r) \/ CommitInput(r)
  \/ AppendCall(r) \/ CommitCall(r) \/ ToolReturns(r)
  \/ PersistToolResult(r) \/ PersistToolResultFails(r)
  \/ AppendResults(r) \/ CommitRound(r) \/ AppendAnswer(r) \/ CommitAnswer(r)
  \/ AnswerIsRefused(r) \/ CheckpointFails(r) \/ HarnessStops(r)

Ending(r) ==
  \/ ApplyOutcome(r) \/ CommitOutcome(r) \/ CommitFails(r) \/ Recommit(r) \/ RecommitFails(r)
  \/ ExecutionFinalized(r) \/ ExecutionActivates(r) \/ ExecutionSettles(r) \/ ExecutionPosts(r)

Next ==
  \/ Submission
  \/ Activation
  \/ \E r \in Runs : Cancel(r) \/ Cleanup(r) \/ Finalization(r) \/ Loop(r) \/ Ending(r)

Spec == Init /\ [][Next]_vars

(* The event loop runs every task that can go on: each read, save or model *)
(* call comes back.  The user owes nothing.                                *)
FairSpec ==
  /\ Spec
  /\ WF_vars(SubmissionReads \/ SubmissionPublishes \/ FirstTurnStarts \/ FirstTurnStays)
  /\ WF_vars(Activation)
  /\ \A r \in Runs : /\ WF_vars(Cleanup(r)) /\ WF_vars(Finalization(r))
                     /\ WF_vars(Loop(r)) /\ WF_vars(Ending(r))

-----------------------------------------------------------------------------
(* Properties.                                                             *)

(* A turn is submitted behind at most one other, starts only after that    *)
(* one ended and ends once, in every interleaving of submissions, the      *)
(* activation, executions and cancellations: the contract of ChainedTurns. *)
Chain == INSTANCE ChainedTurns WITH
  Turns <- Runs, NoTurn <- NoRun,
  status <- [r \in Runs |-> doc[r].status], pred <- [r \in Runs |-> doc[r].pred]

TurnsAreChained == Chain!Spec

(* A run that owes the conversation nothing any more: no pending round, no *)
(* tool result, no session; only a cancelled one may still be executing.   *)
Released(r) ==
  /\ Terminal(doc[r]) /\ ~ doc[r].round /\ ~ accepted[r]
  /\ finalization[r] = "no"
  /\ Cancelled(r) \/ ~ ExecutionActive(r)

(* A run leaves the queue only while the barrier of the run it follows is  *)
(* down: whatever was read before the start was saved still holds when it  *)
(* is (activateConversationOnce reads, awaits and only then starts).       *)
AdmittedBehindBarrier ==
  [][\A r \in Runs :
       doc[r].status = "queued" /\ doc'[r].status = "running" /\ doc[r].pred # NoRun
         => Released(doc[r].pred)]_vars

(* ... and it never rises again: late results and late checkpoints of a    *)
(* cancelled run arrive before its successor is admitted.                  *)
BarrierStaysDown ==
  \A r \in Runs : exec[r] # "idle" /\ doc[r].pred # NoRun
     => Released(doc[r].pred)

(* A revocation gives the transcript back as it was: the new leaf is on    *)
(* the branch of the old one, whenever the target was chosen.              *)
RevocationStaysOnBranch ==
  \A r \in Runs : finalization[r] = "revoking" /\ control[r] = "attached"
     => target[r] \in ToSet(Branch) \cup {Root}

(* Nothing is going on: no task, no cleanup, no activation. *)
Quiet ==
  /\ activation.pc = "idle" /\ submission.pc = "idle"
  /\ \A r \in Runs : cleanup[r] = "none" /\ exec[r] \in {"idle", "done"}

(* When nothing is going on, a generation that is still open is one whose  *)
(* revocation failed, or that of a run whose end could not be saved: each  *)
(* path out of an execution gives its session back.                        *)
NoSessionLeaks ==
  Quiet => \A r \in Runs : control[r] # "none" => r \in failures \/ doc[r].status = "running"

(* A running run always reaches a terminal snapshot, and its execution     *)
(* task then lets go of the transcript and ends.                           *)
RunsEnd ==
  \A r \in Runs : doc[r].status = "running" ~> Terminal(doc[r]) /\ exec[r] = "done"

-----------------------------------------------------------------------------
(* What the code's own words promise and the code does not keep.           *)

(* agent-loop-execution.ts:29: a revocation goes back to the run's "last   *)
(* feature-accepted protocol boundary"; completed answers lie before it.   *)
CompletedAnswersStay ==
  \A r \in Runs : doc[r].status = "completed" => <<r, "answer">> \in ToSet(Branch)
=============================================================================
