---------------------- MODULE ConversationQueue_proofs ----------------------
(***************************************************************************)
(* Proofs about ConversationQueue, for any bound on the runs, the tool     *)
(* calls, the cancellations and the failures, and for any order of the     *)
(* submissions, the executions, the activation and the settlements.        *)
(*                                                                         *)
(* Eight layers are inductive together. The first ones say where each run  *)
(* stands (Shape, Staged, Awaited), then what the activation may rely on   *)
(* across its two reads (Births, Admits, BarrierStaysDown), and the last   *)
(* ones that a revocation stays on the branch (Written, Behind).           *)
(***************************************************************************)
EXTENDS ConversationQueue, ConversationProjection_proofs, FiniteSetTheorems, SequenceTheorems,
        WellFoundedInduction, TLAPS

\* The types of TypeOK, and of what is only a part of other things there.
Docs == [Runs -> Snapshots]
Leaves == Entries \cup {Root}
Activations ==
  [pc : {"idle", "reading", "settling", "retrying", "locking", "rereading", "starting"},
   docs : Docs, run : Runs \cup {NoRun}, tried : {"nothing", "settlement", "finalization"}]
Submissions ==
  [pc : {"idle", "reading", "persisting", "starting", "awaiting"},
   docs : Docs, pred : Runs \cup {NoRun}]
Shape ==
  /\ doc \in Docs /\ leaf \in Leaves /\ pathTo \in [Entries -> Seq(Entries)]
  /\ exec \in [Runs -> ExecStates]
  /\ outcome \in [Runs -> {"none", "completed", "failed", "cancelled"}]
  /\ safe \in [Runs -> Leaves] /\ accepted \in [Runs -> BOOLEAN]
  /\ control \in [Runs -> {"none", "acquiring", "attached"}]
  /\ finalization \in [Runs -> {"no", "revoking", "closing", "failed"}]
  /\ target \in [Runs -> Leaves \cup {Keep}] /\ failures \subseteq Runs
  /\ cleanup \in [Runs -> {"none", "finalizing", "settling", "activating"}]
  /\ activation \in Activations /\ submission \in Submissions

\* A run that has not started, or only waits for its session, has written nothing.
Blank(d) == d.phase = "not_started" /\ d.start = Root /\ d.end = Root /\ ~d.round
Untouched(r) ==
  exec[r] \in {"idle", "acquiring"} =>
    Blank(doc[r]) /\ safe[r] = Root /\ ~accepted[r] /\ r \notin failures

\* Where the execution is says what its session is, and whether it has started.
Executes(r) ==
  /\ exec[r] = "idle" => control[r] = "none" /\ doc[r].status # "running"
  /\ exec[r] # "idle" => doc[r].status \in Ended \cup {"running"}
  /\ exec[r] = "acquiring" <=> control[r] = "acquiring"
  /\ exec[r] \in InHarness \ {"prompting"} => control[r] = "attached"
  /\ exec[r] \in {"outcome", "committing"} => outcome[r] # "none"

\* A session is being given back from when the run's end is saved until it is closed,
\* and a revocation knows where to.
Finalizes(r) ==
  /\ finalization[r] # "no" <=> Terminal(doc[r]) /\ control[r] # "none"
  /\ finalization[r] \in {"revoking", "failed"} => target[r] # Keep
  /\ finalization[r] = "failed" => r \in failures
  /\ r \in failures => finalization[r] # "no" /\ target[r] # Keep
  /\ doc[r].status \in {"completed", "blocked"} => finalization[r] \in {"no", "closing"}
  /\ control[r] = "acquiring" => finalization[r] \in {"no", "revoking"}
  /\ control[r] = "acquiring" /\ finalization[r] = "revoking" => target[r] = Root
  /\ cleanup[r] # "none" => Terminal(doc[r])

Staged == \A r \in Runs : Untouched(r) /\ Executes(r) /\ Finalizes(r)

\* Whoever gives a session back waits for it.
Pending(r) == finalization[r] \in {"revoking", "closing"}
Awaited ==
  \A r \in Runs : Pending(r) =>
    \/ cleanup[r] = "finalizing" \/ exec[r] \in {"finalizing", "keeping"}
    \/ activation.pc = "retrying" /\ activation.run = r

\* What was captured is still so in part: turns do not vanish, keep the turn they follow,
\* and do not come back from their end.
Outlasts(docs) ==
  \A r \in Runs : docs[r].status # "absent" =>
    /\ doc[r].status # "absent" /\ doc[r].pred = docs[r].pred
    /\ Terminal(docs[r]) => doc[r].status = docs[r].status

\* Turns are born one after the other, and nobody else gives birth meanwhile.
Births ==
  /\ \E k \in 0 .. MaxRuns :
       /\ Present(doc) = 1 .. k
       /\ submission.pc \in {"reading", "persisting"} => k + 1 \in Runs
       /\ submission.pc = "starting" => k \in Runs /\ doc[k].pred = NoRun
  /\ Outlasts(activation.docs) /\ Outlasts(submission.docs)
  /\ submission.pc = "persisting" /\ submission.pred # NoRun =>
       doc[submission.pred].status # "absent"

\* The barrier as the facts show it: only a late round may still be missing.
Freed(p) ==
  /\ Terminal(doc[p]) /\ ~accepted[p] /\ finalization[p] = "no"
  /\ Cancelled(p) \/ ~ExecutionActive(p)

\* What the activation has read of its candidate holds until it starts it.
Admits ==
  LET r == activation.run IN
  /\ activation.pc \in {"locking", "rereading", "starting"} =>
       /\ r \in Runs /\ doc[r].status # "absent"
       /\ doc[r].pred # NoRun => Freed(doc[r].pred)
  /\ activation.pc \in {"rereading", "starting"} => doc[r].status = "queued"
  /\ activation.pc = "rereading" =>
       /\ activation.docs[r].status = "queued"
       /\ doc[r].pred # NoRun /\ ~activation.docs[doc[r].pred].round => ~doc[doc[r].pred].round
  /\ activation.pc = "starting" /\ doc[r].pred # NoRun => ~doc[doc[r].pred].round
  /\ activation.pc \in {"settling", "retrying"} => r \in Runs /\ Terminal(doc[r])

\* The transcript is a tree of written entries.
Written ==
  /\ leaf # Root => pathTo[leaf] # <<>>
  /\ \A e \in Entries : /\ pathTo[e] = <<>> \/ Last(pathTo[e]) = e
                        /\ \A x \in ToSet(pathTo[e]) : pathTo[x] # <<>>

\* One session at a time holds it, and until its revocation everything it may go back to
\* is on the active branch.
Reach == ToSet(Branch) \cup {Root}
Near(B, r) ==
  /\ safe[r] \in B /\ doc[r].start \in B /\ doc[r].end \in B
  /\ finalization[r] # "no" => target[r] \in B
  /\ exec[r] = "input" => <<r, "input">> \in B
  /\ exec[r] = "round" => <<r, "result">> \in B
Holds(r) == control[r] = "attached" /\ finalization[r] # "closing"
Behind ==
  /\ \A q, r \in Runs : control[q] = "attached" /\ control[r] = "attached" => q = r
  /\ \A r \in Runs : Holds(r) => Near(Reach, r)

Layers ==
  /\ Shape /\ Staged /\ Awaited /\ Births /\ Admits /\ BarrierStaysDown /\ Written /\ Behind

\* The candidate is a queued run whose predecessor is cleared.
LEMMA Candidate ==
  ASSUME NEW docs, NEW branch \in Seq(Entries),
         NEW r, r = NextEligibleQueued(Visible(docs, branch), docs, Facts), r # NoRun
  PROVE  r \in Runs /\ docs[r].status = "queued"
<1> DEFINE runs == Visible(docs, branch)
           eligible == {i \in DOMAIN runs :
                          /\ docs[runs[i]].status = "queued"
                          /\ \A j \in 1 .. (i - 1) :
                               BarrierCleared(docs[runs[j]], Facts[runs[j]])}
<1>1. \A i \in DOMAIN runs : runs[i] \in Runs
  <2>1. runs \in Seq(Present(docs))
    BY VisibleRuns
  <2> HIDE DEF runs
  <2> QED
    BY <2>1, ElementOfSeq DEF Present
<1>2. r = IF eligible = {} THEN NoRun ELSE runs[CHOOSE i \in eligible : TRUE]
  BY DEF NextEligibleQueued
<1>3. PICK i \in eligible : r = runs[i]
  <2> HIDE DEF eligible, runs
  <2> QED
    BY <1>2
<1>4. i \in DOMAIN runs /\ docs[runs[i]].status = "queued"
  OBVIOUS
<1> HIDE DEF eligible, runs
<1> QED
  BY <1>1, <1>3, <1>4

\* Array.find: what it finds is one of the runs, and passes the test.
LEMMA Found ==
  ASSUME NEW runs, NEW I, I \subseteq 1 .. Len(runs), Len(runs) \in Nat, I # {}
  PROVE  Min(I) \in I /\ Min(I) \in 1 .. Len(runs) /\ Min(I) # 0
<1>1. I \subseteq Nat
  OBVIOUS
<1>2. PICK n \in I : \A m \in I : n <= m
  BY <1>1, Least
<1>3. Min(I) \in I
  BY <1>2 DEF Min
<1>4. \A i \in I : i \in 1 .. Len(runs) /\ i # 0
  OBVIOUS
<1> QED
  BY <1>3, <1>4

\* findOrdinaryConversationSettlementBlocker: an ended turn whose round is not settled.
LEMMA UnsettledRun ==
  ASSUME NEW docs, NEW branch \in Seq(Entries),
         NEW r, r = SettlementBlocker(Visible(docs, branch), docs), r # NoRun
  PROVE  r \in Runs /\ Terminal(docs[r]) /\ ~ExecutionActive(r)
<1> DEFINE runs == Visible(docs, branch)
           I == {i \in 1 .. Len(runs) : /\ Terminal(docs[runs[i]]) /\ docs[runs[i]].status # "cancelled"
                                      /\ accepted[runs[i]] /\ ~ExecutionActive(runs[i])}
           at == IF I # {} THEN Min(I) ELSE 0
<1>1. Len(runs) \in Nat /\ \A i \in 1 .. Len(runs) : runs[i] \in Runs
  <2>1. runs \in Seq(Present(docs))
    BY VisibleRuns
  <2> HIDE DEF runs
  <2> QED
    BY <2>1, ElementOfSeq DEF Present
<1>2. r = IF at = 0 THEN NoRun ELSE runs[at]
  BY DEF SettlementBlocker, FirstRun, SelectInSeq
<1> HIDE DEF runs
<1>3. I \subseteq 1 .. Len(runs) /\ I # {}
  BY <1>2
<1>4. Min(I) \in I /\ Min(I) \in 1 .. Len(runs) /\ Min(I) # 0
  <2> HIDE DEF I
  <2> QED
    BY <1>1, <1>3, Found
<1>5. PICK i \in I : r = runs[i] /\ i \in 1 .. Len(runs)
  <2> HIDE DEF I
  <2> QED
    BY <1>2, <1>3, <1>4
<1>6. Terminal(docs[runs[i]]) /\ ~ExecutionActive(runs[i])
  OBVIOUS
<1> QED
  BY <1>1, <1>5, <1>6

\* findOrdinaryConversationFinalizationBlocker: an ended turn whose session could not be given back.
LEMMA UnfinalizedRun ==
  ASSUME NEW docs, NEW branch \in Seq(Entries),
         NEW r, r = FinalizationBlocker(Visible(docs, branch), docs), r # NoRun
  PROVE  r \in Runs /\ Terminal(docs[r]) /\ r \in failures
<1> DEFINE runs == Visible(docs, branch)
           I == {i \in 1 .. Len(runs) : Terminal(docs[runs[i]]) /\ runs[i] \in failures}
           at == IF I # {} THEN Min(I) ELSE 0
<1>1. Len(runs) \in Nat /\ \A i \in 1 .. Len(runs) : runs[i] \in Runs
  <2>1. runs \in Seq(Present(docs))
    BY VisibleRuns
  <2> HIDE DEF runs
  <2> QED
    BY <2>1, ElementOfSeq DEF Present
<1>2. r = IF at = 0 THEN NoRun ELSE runs[at]
  BY DEF FinalizationBlocker, FirstRun, SelectInSeq
<1> HIDE DEF runs
<1>3. I \subseteq 1 .. Len(runs) /\ I # {}
  BY <1>2
<1>4. Min(I) \in I /\ Min(I) \in 1 .. Len(runs) /\ Min(I) # 0
  <2> HIDE DEF I
  <2> QED
    BY <1>1, <1>3, Found
<1>5. PICK i \in I : r = runs[i] /\ i \in 1 .. Len(runs)
  <2> HIDE DEF I
  <2> QED
    BY <1>2, <1>3, <1>4
<1>6. Terminal(docs[runs[i]]) /\ runs[i] \in failures
  OBVIOUS
<1> QED
  BY <1>1, <1>5, <1>6

\* What is common to the types.
USE DEF transcript, running, session, budget

\* The marks for nobody and nowhere are no runs and no entries.
LEMMA Names ==
  /\ NoRun \notin Runs /\ Root \notin Entries /\ Keep \notin Entries /\ Keep # Root
  /\ \A r \in Runs, k \in Kinds : <<r, k>> \in Entries
  /\ NoDoc \in Snapshots /\ NoDocs \in Docs /\ Idle \in Activations /\ NoSubmission \in Submissions
<1>1. NoRun \notin Runs /\ Root \notin Entries /\ Keep \notin Entries /\ Keep # Root
  BY RunsAssumption DEF NoRun, Runs, Root, Keep, Entries
<1>2. \A r \in Runs, k \in Kinds : <<r, k>> \in Entries
  BY DEF Entries
<1>3. NoDoc \in Snapshots
  BY DEF NoDoc, Snapshots
<1>4. NoDocs \in Docs
  BY <1>3 DEF NoDocs, Docs
<1> QED
  BY <1>1, <1>2, <1>3, <1>4 DEF Idle, NoSubmission, Activations, Submissions

\* The active branch is a sequence of entries.
LEMMA BranchType ==
  ASSUME Shape
  PROVE  Branch \in Seq(Entries)
BY EmptySeq DEF Shape, Branch, Leaves

\* Starting to give a session back keeps the types of what it changes.
LEMMA FinalizeType ==
  ASSUME Shape, NEW r \in Runs, NEW goal \in Leaves \cup {Keep}, FinalizeSession(r, goal)
  PROVE  /\ control' \in [Runs -> {"none", "acquiring", "attached"}]
         /\ finalization' \in [Runs -> {"no", "revoking", "closing", "failed"}]
         /\ target' \in [Runs -> Leaves \cup {Keep}] /\ failures' \subseteq Runs
BY DEF Shape, FinalizeSession

\* What the handlers save of a run is a snapshot.
LEMMA SnapshotTypes ==
  ASSUME Shape, NEW r \in Runs
  PROVE  /\ doc[r] \in Snapshots
         /\ \A status \in Ended : EndedDoc(r, status) \in Snapshots
         /\ CancelledDoc(doc[r]) \in Snapshots
         /\ \A d \in Snapshots : RollbackLeaf(d) \in Leaves
         /\ \A d \in Snapshots : [doc EXCEPT ![r] = d] \in Docs
<1>1. doc[r] \in Snapshots /\ safe[r] \in Leaves
  BY DEF Shape, Docs
<1>2. <<r, "answer">> \in Entries
  BY Names DEF Kinds
<1>3. \A status \in Ended : EndedDoc(r, status) \in Snapshots
  <2> SUFFICES ASSUME NEW status \in Ended
               PROVE  EndedDoc(r, status) \in Snapshots
    OBVIOUS
  <2> DEFINE d == [doc[r] EXCEPT !.status = status]
  <2>1. d \in Snapshots
    BY <1>1 DEF Snapshots, Ended
  <2>2. \A phase \in {"started", "rollbackable"}, end \in Leaves :
          [d EXCEPT !.phase = phase, !.end = end] \in Snapshots
    BY <2>1 DEF Snapshots, Leaves
  <2>3. <<r, "answer">> \in Leaves /\ Root \in Leaves
    BY <1>2 DEF Leaves
  <2> QED
    BY <1>1, <2>1, <2>2, <2>3 DEF EndedDoc
<1>4. CancelledDoc(doc[r]) \in Snapshots
  BY <1>1 DEF CancelledDoc, Snapshots, Ended
<1>5. \A d \in Snapshots : RollbackLeaf(d) \in Leaves
  BY DEF RollbackLeaf, Snapshots, Leaves
<1>6. \A d \in Snapshots : [doc EXCEPT ![r] = d] \in Docs
  BY DEF Shape, Docs
<1> QED
  BY <1>1, <1>3, <1>4, <1>5, <1>6

\* Committing an end saves it and starts to give the session back, whatever the end.
LEMMA CommitType ==
  ASSUME Shape, NEW r \in Runs, NEW status \in Ended, NEW to, CommitAs(r, status, to)
  PROVE  /\ doc' = [doc EXCEPT ![r] = EndedDoc(r, status)]
         /\ \E goal \in Leaves \cup {Keep} : FinalizeSession(r, goal)
         /\ exec' = [exec EXCEPT ![r] = to]
<1>1. doc' = [doc EXCEPT ![r] = EndedDoc(r, status)] /\ exec' = [exec EXCEPT ![r] = to]
  BY DEF CommitAs, ExecTo
<1>2. doc'[r] \in Snapshots
  BY <1>1, SnapshotTypes DEF Shape, Docs
<1>3. RollbackLeaf(doc'[r]) \in Leaves
  BY <1>2, SnapshotTypes
<1> QED
  BY <1>1, <1>3 DEF CommitAs

\* A settlement, done or not, keeps the types of what it changes.
LEMMA SettleType ==
  ASSUME Shape, NEW r \in Runs, NEW ok \in BOOLEAN, SettleExecution(r, ok) \/ SettlementFails(r)
  PROVE  /\ doc' \in Docs /\ leaf' \in Leaves /\ pathTo' \in [Entries -> Seq(Entries)]
         /\ accepted' \in [Runs -> BOOLEAN]
<1>1. <<r, "result">> \in Entries /\ <<r, "call">> \in Entries
  BY Names DEF Kinds
<1>2. Append(pathTo[<<r, "call">>], <<r, "result">>) \in Seq(Entries)
  BY <1>1, AppendProperties DEF Shape
<1>3. [doc EXCEPT ![r].round = FALSE, ![r].end = <<r, "result">>] \in Docs
  <2> DEFINE d == [doc[r] EXCEPT !.round = FALSE, !.end = <<r, "result">>]
  <2>1. d \in Snapshots
    BY <1>1, SnapshotTypes DEF Snapshots
  <2>2. [doc EXCEPT ![r].round = FALSE, ![r].end = <<r, "result">>] = [doc EXCEPT ![r] = d]
    BY DEF Shape, Docs
  <2> QED
    BY <2>1, <2>2, SnapshotTypes
<1>4. accepted' \in [Runs -> BOOLEAN]
  BY DEF Shape, SettleExecution, SettlementFails
<1>5. CASE UNCHANGED <<doc, transcript>>
  BY <1>4, <1>5 DEF Shape
<1>6. CASE /\ leaf' = <<r, "result">>
           /\ pathTo' = [pathTo EXCEPT ![leaf'] = Append(pathTo[<<r, "call">>], leaf')]
           /\ doc' = [doc EXCEPT ![r].round = FALSE, ![r].end = leaf']
  BY <1>1, <1>2, <1>3, <1>4, <1>6 DEF Shape, Leaves
<1> QED
  BY <1>5, <1>6 DEF SettleExecution, SettlementFails

\* Ending an activation keeps the types, with those that joined it going on.
LEMMA FinishType ==
  ASSUME Shape, NEW E \in [Runs -> ExecStates], FinishActivation(E)
  PROVE  /\ exec' \in [Runs -> ExecStates] /\ activation' \in Activations
         /\ submission' \in Submissions
<1>1. "settling" \in ExecStates
  BY DEF ExecStates
<1> QED
  BY <1>1, Names DEF Shape, FinishActivation

\* A requested activation is one that has captured the documents.
LEMMA RequestType ==
  ASSUME Shape, NEW docs \in Docs, RequestActivation(docs)
  PROVE  activation' \in Activations
BY Names DEF Shape, RequestActivation, Activations

\* An append moves the leaf to its entry, behind the branch so far.
LEMMA AppendType ==
  ASSUME Shape, NEW r \in Runs, NEW from, NEW kind \in Kinds, NEW to \in ExecStates,
         AppendEntry(r, from, kind, to)
  PROVE  /\ leaf' = <<r, kind>> /\ leaf' \in Entries
         /\ pathTo' = [pathTo EXCEPT ![<<r, kind>>] = Append(Branch, <<r, kind>>)]
         /\ pathTo' \in [Entries -> Seq(Entries)] /\ exec' \in [Runs -> ExecStates]
<1>1. <<r, kind>> \in Entries
  BY Names
<1>2. Append(Branch, <<r, kind>>) \in Seq(Entries)
  BY <1>1, BranchType, AppendProperties
<1> QED
  BY <1>1, <1>2 DEF AppendEntry, ExecTo, Shape

\* The next run is the one after those that were born.
LEMMA NextRunIs ==
  ASSUME Births
  PROVE  \E k \in Nat :
           /\ NextRun = k + 1 /\ Present(doc) = 1 .. k
           /\ submission.pc \in {"reading", "persisting"} => k + 1 \in Runs
           /\ submission.pc = "starting" => k \in Runs /\ doc[k].pred = NoRun
<1>1. PICK k \in 0 .. MaxRuns : /\ Present(doc) = 1 .. k
                                /\ submission.pc \in {"reading", "persisting"} => k + 1 \in Runs
                                /\ submission.pc = "starting" => k \in Runs /\ doc[k].pred = NoRun
  BY DEF Births
<1>2. k \in Nat /\ k \in Int /\ 1 \in Int
  BY RunsAssumption
<1>3. Cardinality(1 .. k) = k
  BY <1>2, FS_Interval
<1> QED
  BY <1>1, <1>2, <1>3 DEF NextRun

ActivationPlaces ==
  {"idle", "reading", "settling", "retrying", "locking", "rereading", "starting"}
\* The activations the handlers assign are activations.
LEMMA ActivationTypes ==
  ASSUME Shape, NEW pc \in ActivationPlaces, NEW docs \in Docs, NEW r \in Runs \cup {NoRun},
         NEW tried \in {"nothing", "settlement", "finalization"}
  PROVE  /\ [activation EXCEPT !.pc = pc, !.docs = docs] \in Activations
         /\ [Idle EXCEPT !.pc = pc, !.run = r, !.tried = tried] \in Activations
         /\ [Idle EXCEPT !.pc = pc, !.run = r] \in Activations
         /\ activation.run \in Runs \cup {NoRun} /\ activation.docs \in Docs
         /\ activation.pc \in ActivationPlaces
<1>1. activation \in Activations /\ Idle \in Activations
  BY Names DEF Shape
<1> QED
  BY <1>1 DEF Activations, ActivationPlaces

\* A checkpoint saves a snapshot and moves the execution on.
LEMMA CheckpointType ==
  ASSUME Shape, NEW r \in Runs, NEW d \in Snapshots, NEW from, NEW to \in ExecStates,
         Checkpoint(r, from, to, d)
  PROVE  doc' \in Docs /\ exec' \in [Runs -> ExecStates]
BY SnapshotTypes DEF Shape, Checkpoint, ExecTo

\* The task of r is somewhere else.
LEMMA ExecType ==
  ASSUME Shape, NEW r \in Runs, NEW to \in ExecStates, ExecTo(r, to)
  PROVE  exec' \in [Runs -> ExecStates]
BY DEF Shape, ExecTo

\* Where an execution can be, and which of the places lie in the harness.
LEMMA Places ==
  /\ {"idle", "posting", "done", "prompting", "input", "answering", "call", "tooling",
      "accepting", "delivering", "round", "answer", "acquiring", "capturing", "outcome",
      "committing", "recommitting", "finalizing", "keeping", "activating", "joined",
      "settling"} = ExecStates
  /\ InHarness \subseteq ExecStates /\ "done" \notin InHarness
BY DEF ExecStates, InHarness, ExecutionEnded

\* Every step keeps the types.
LEMMA ShapeStep ==
  ASSUME Shape, Staged, Births, Admits, [Next]_vars
  PROVE  Shape'
<1>1. CASE SubmitTurn
  <2>1. submission' \in Submissions
    BY <1>1, Names DEF SubmitTurn, Submissions, Shape
  <2> QED
    BY <1>1, <2>1 DEF SubmitTurn, Shape
<1>2. CASE SubmissionReads
  <2>1. LastRun(Visible(submission.docs, Branch)) \in Runs \cup {NoRun}
    BY BranchType, LastRunIs DEF Present
  <2>2. submission' \in Submissions
    BY <1>2, <2>1, Names DEF SubmissionReads, Submissions
  <2> QED
    BY <1>2, <2>2 DEF SubmissionReads, Shape
<1>3. CASE SubmissionPublishes
  <2>0. PICK k \in Nat : /\ NextRun = k + 1 /\ Present(doc) = 1 .. k
                         /\ submission.pc \in {"reading", "persisting"} => k + 1 \in Runs
                         /\ submission.pc = "starting" => k \in Runs /\ doc[k].pred = NoRun
    BY NextRunIs
  <2>2. k + 1 \in Runs /\ submission.pred \in Runs \cup {NoRun}
    BY <1>3, <2>0 DEF SubmissionPublishes, Shape, Submissions
  <2> DEFINE d == [NoDoc EXCEPT !.status = "queued", !.pred = submission.pred]
             born == [doc EXCEPT ![k + 1] = d]
  <2>3. d \in Snapshots
    BY <2>2, Names DEF Snapshots, Live
  <2>4. born \in Docs
    BY <2>2, <2>3 DEF Shape, Docs
  <2>5. doc' = born /\ (RequestActivation(born) \/ UNCHANGED activation)
    BY <1>3, <2>0 DEF SubmissionPublishes
  <2> HIDE DEF born
  <2>6. doc' \in Docs /\ activation' \in Activations
    BY <2>4, <2>5, RequestType DEF Shape
  <2>7. submission' \in Submissions
    BY <1>3, Names DEF SubmissionPublishes, Shape, Submissions
  <2> QED
    BY <1>3, <2>6, <2>7 DEF SubmissionPublishes, Shape
<1>4. CASE SubmissionFails
  BY <1>4, Names DEF SubmissionFails, Fault, Shape
<1>5. CASE FirstTurnStarts
  <2>0. PICK k \in Nat : /\ NextRun = k + 1 /\ Present(doc) = 1 .. k
                         /\ submission.pc \in {"reading", "persisting"} => k + 1 \in Runs
                         /\ submission.pc = "starting" => k \in Runs /\ doc[k].pred = NoRun
    BY NextRunIs
  <2>2. k \in Runs /\ NextRun - 1 = k /\ doc[k] \in Snapshots
    BY <1>5, <2>0, SnapshotTypes DEF FirstTurnStarts
  <2>3. /\ doc' = [doc EXCEPT ![k].status = "running"] /\ exec' = [exec EXCEPT ![k] = "acquiring"]
        /\ ControlCreated(k) /\ submission' = NoSubmission
        /\ UNCHANGED <<transcript, outcome, safe, accepted, cleanup, activation, budget>>
    BY <1>5, <2>2 DEF FirstTurnStarts, Started
  <2>4. [doc[k] EXCEPT !.status = "running"] \in Snapshots
    BY <2>2 DEF Snapshots, Live
  <2>5. doc' \in Docs
    BY <2>2, <2>3, <2>4 DEF Shape, Docs
  <2> QED
    BY <2>2, <2>3, <2>5, Names, Places DEF ControlCreated, Shape
<1>6. CASE FirstTurnStays
  <2>1. activation' \in Activations
    BY <1>6, RequestType DEF FirstTurnStays, Shape
  <2> QED
    BY <1>6, <2>1, Names DEF FirstTurnStays, Shape
<1>7. CASE ActivationReads
  <2> DEFINE docs == activation.docs
             runs == Visible(docs, Branch)
             r == NextEligibleQueued(runs, docs, Facts)
             unsettled == SettlementBlocker(runs, docs)
             unfinalized == FinalizationBlocker(runs, docs)
  <2>0. Branch \in Seq(Entries)
    BY BranchType
  <2>1. CASE FinishActivation(exec) /\ UNCHANGED session
    BY <1>7, <2>1, FinishType DEF ActivationReads, Shape
  <2>2. CASE /\ r # NoRun
             /\ activation' = [Idle EXCEPT !.pc = "locking", !.run = r, !.tried = "nothing"]
             /\ UNCHANGED <<exec, submission, session>>
    <3>1. activation' \in Activations
      BY <2>0, <2>2, Candidate, ActivationTypes DEF ActivationPlaces, Shape
    <3> QED
      BY <1>7, <2>2, <3>1 DEF ActivationReads, Shape
  <2>3. CASE /\ unsettled # NoRun
             /\ activation' = [Idle EXCEPT !.pc = "settling", !.run = unsettled, !.tried = "settlement"]
             /\ UNCHANGED <<exec, submission, session>>
    <3>1. activation' \in Activations
      BY <2>0, <2>3, UnsettledRun, ActivationTypes DEF ActivationPlaces, Shape
    <3> QED
      BY <1>7, <2>3, <3>1 DEF ActivationReads, Shape
  <2>4. CASE /\ unfinalized # NoRun
             /\ activation' = [Idle EXCEPT !.pc = "retrying", !.run = unfinalized,
                                           !.tried = "finalization"]
             /\ FinalizeSession(unfinalized, Keep) /\ UNCHANGED <<exec, submission>>
    <3>1. activation' \in Activations /\ unfinalized \in Runs
      BY <2>0, <2>4, UnfinalizedRun, ActivationTypes DEF ActivationPlaces, Shape
    <3> QED
      BY <1>7, <2>4, <3>1, FinalizeType DEF ActivationReads, Shape
  <2> QED
    BY <1>7, <2>1, <2>2, <2>3, <2>4 DEF ActivationReads
<1>8. CASE ActivationSettles
  <2>1. activation.run \in Runs
    BY <1>8 DEF ActivationSettles, Admits
  <2>2. PICK ok \in BOOLEAN : SettleExecution(activation.run, ok) \/ SettlementFails(activation.run)
    BY <1>8 DEF ActivationSettles
  <2>3. /\ doc' \in Docs /\ leaf' \in Leaves /\ pathTo' \in [Entries -> Seq(Entries)]
        /\ accepted' \in [Runs -> BOOLEAN]
    BY <2>1, <2>2, SettleType
  <2>4. CASE FinishActivation(exec)
    BY <1>8, <2>3, <2>4, FinishType DEF ActivationSettles, Shape
  <2>5. CASE /\ activation' = [activation EXCEPT !.pc = "reading", !.docs = doc']
             /\ UNCHANGED <<exec, submission>>
    <3>1. activation' \in Activations
      BY <2>3, <2>5, ActivationTypes DEF ActivationPlaces
    <3> QED
      BY <1>8, <2>3, <2>5, <3>1 DEF ActivationSettles, Shape
  <2> QED
    BY <1>8, <2>4, <2>5 DEF ActivationSettles
<1>9. CASE ActivationRetried
  <2>1. CASE FinishActivation(exec)
    BY <1>9, <2>1, FinishType DEF ActivationRetried, Shape
  <2>2. CASE /\ activation' = [activation EXCEPT !.pc = "reading", !.docs = doc]
             /\ UNCHANGED <<exec, submission>>
    <3>1. activation' \in Activations
      BY <2>2, ActivationTypes DEF ActivationPlaces, Shape
    <3> QED
      BY <1>9, <2>2, <3>1 DEF ActivationRetried, Shape
  <2> QED
    BY <1>9, <2>1, <2>2 DEF ActivationRetried
<1>10. CASE ActivationLocks
  <2>1. CASE FinishActivation(exec)
    BY <1>10, <2>1, FinishType DEF ActivationLocks, Shape
  <2>2. CASE /\ activation' = [activation EXCEPT !.pc = "rereading", !.docs = doc]
             /\ UNCHANGED <<exec, submission>>
    <3>1. activation' \in Activations
      BY <2>2, ActivationTypes DEF ActivationPlaces, Shape
    <3> QED
      BY <1>10, <2>2, <3>1 DEF ActivationLocks, Shape
  <2> QED
    BY <1>10, <2>1, <2>2 DEF ActivationLocks
<1>11. CASE ActivationRereads
  <2>1. CASE FinishActivation(exec)
    BY <1>11, <2>1, FinishType DEF ActivationRereads, Shape
  <2>2. CASE /\ activation' = [Idle EXCEPT !.pc = "starting", !.run = activation.run]
             /\ UNCHANGED <<exec, submission>>
    <3>1. activation' \in Activations
      BY <2>2, ActivationTypes DEF ActivationPlaces, Shape
    <3> QED
      BY <1>11, <2>2, <3>1 DEF ActivationRereads, Shape
  <2> QED
    BY <1>11, <2>1, <2>2 DEF ActivationRereads
<1>12. CASE ActivationStarts
  <2>1. activation.run \in Runs /\ doc[activation.run] \in Snapshots
    BY <1>12, SnapshotTypes DEF ActivationStarts, Admits
  <2>2. doc' = Started(activation.run) /\ ControlCreated(activation.run)
    BY <1>12 DEF ActivationStarts
  <2>3. FinishActivation([exec EXCEPT ![activation.run] = "acquiring"])
    BY <1>12 DEF ActivationStarts
  <2>4. [exec EXCEPT ![activation.run] = "acquiring"] \in [Runs -> ExecStates]
    BY <2>1, Places DEF Shape
  <2>5. [doc[activation.run] EXCEPT !.status = "running"] \in Snapshots
    BY <2>1 DEF Snapshots, Live
  <2>6. doc' \in Docs
    BY <2>1, <2>2, <2>5, SnapshotTypes DEF Started, Shape, Docs
  <2>7. /\ exec' \in [Runs -> ExecStates] /\ activation' \in Activations
        /\ submission' \in Submissions
    BY <2>3, <2>4, FinishType
  <2>8. control' \in [Runs -> {"none", "acquiring", "attached"}]
    BY <2>1, <2>2 DEF ControlCreated, Shape
  <2> QED
    BY <1>12, <2>1, <2>2, <2>6, <2>7, <2>8 DEF ActivationStarts, ControlCreated, Shape
<1>13. CASE ActivationFails
  <2>1. FinishActivation(exec) /\ exec \in [Runs -> ExecStates]
    BY <1>13 DEF ActivationFails, Shape
  <2> QED
    BY <1>13, <2>1, FinishType DEF ActivationFails, Shape
<1>14. ASSUME NEW r \in Runs, Cancel(r)
      PROVE  Shape'
  <2> DEFINE d == IF Terminal(doc[r]) THEN doc[r] ELSE CancelledDoc(doc[r])
  <2>1. d \in Snapshots
    BY SnapshotTypes
  <2> HIDE DEF d
  <2>2. doc' = [doc EXCEPT ![r] = d]
    BY <1>14 DEF Cancel, d
  <2>3. doc' \in Docs
    BY <2>1, <2>2, SnapshotTypes
  <2>4. UNCHANGED session \/ \E goal \in Leaves \cup {Keep} : FinalizeSession(r, goal)
    <3>1. RollbackLeaf(d) \in Leaves
      BY <2>1, SnapshotTypes
    <3> QED
      BY <1>14, <3>1 DEF Cancel, d
  <2>5. cleanup' \in [Runs -> {"none", "finalizing", "settling", "activating"}]
    BY <1>14 DEF Cancel, Shape
  <2>6. /\ control' \in [Runs -> {"none", "acquiring", "attached"}]
        /\ finalization' \in [Runs -> {"no", "revoking", "closing", "failed"}]
        /\ target' \in [Runs -> Leaves \cup {Keep}] /\ failures' \subseteq Runs
    BY <2>4, FinalizeType DEF Shape
  <2>7. UNCHANGED <<transcript, running, activation, submission>>
    BY <1>14 DEF Cancel
  <2> QED
    BY <2>3, <2>5, <2>6, <2>7 DEF Shape
<1>15. ASSUME NEW r \in Runs, CleanupFinalized(r)
      PROVE  Shape'
  BY <1>15 DEF CleanupFinalized, Shape
<1>16. ASSUME NEW r \in Runs, CleanupSettles(r)
      PROVE  Shape'
  <2>1. PICK ok \in BOOLEAN : SettleExecution(r, ok) \/ SettlementFails(r)
    BY <1>16 DEF CleanupSettles
  <2>2. /\ doc' \in Docs /\ leaf' \in Leaves /\ pathTo' \in [Entries -> Seq(Entries)]
        /\ accepted' \in [Runs -> BOOLEAN]
    BY <2>1, SettleType
  <2> QED
    BY <1>16, <2>2, Places DEF CleanupSettles, Shape
<1>17. ASSUME NEW r \in Runs, CleanupActivates(r)
      PROVE  Shape'
  <2>1. activation' \in Activations
    BY <1>17, RequestType DEF CleanupActivates, Shape
  <2> QED
    BY <1>17, <2>1, Places DEF CleanupActivates, Shape
<1>18. ASSUME NEW r \in Runs, RevokeSession(r)
      PROVE  Shape'
  BY <1>18 DEF RevokeSession, Shape, Staged, Finalizes
<1>19. ASSUME NEW r \in Runs, RevokeFails(r)
      PROVE  Shape'
  BY <1>19 DEF RevokeFails, Fault, Shape
<1>20. ASSUME NEW r \in Runs, CloseSession(r)
      PROVE  Shape'
  BY <1>20 DEF CloseSession, Shape
<1>21. ASSUME NEW r \in Runs, AcquireSession(r)
      PROVE  Shape'
  <2>1. /\ exec' \in [Runs -> ExecStates]
        /\ outcome' \in [Runs -> {"none", "completed", "failed", "cancelled"}]
    BY <1>21, Places DEF AcquireSession, ExecTo, Reports, Shape
  <2> QED
    BY <1>21, <2>1 DEF AcquireSession, StaysOutside, Shape
<1>22. ASSUME NEW r \in Runs, AcquireFails(r)
      PROVE  Shape'
  BY <1>22 DEF AcquireFails, ExecTo, Reports, Fault, StaysOutside, Shape, ExecStates,
       InHarness, ExecutionEnded
<1>23. ASSUME NEW r \in Runs, CaptureStartLeaf(r)
      PROVE  Shape'
  <2>1. Checkpoint(r, "capturing", "prompting", [doc[r] EXCEPT !.phase = "started", !.start = leaf])
    BY <1>23 DEF CaptureStartLeaf
  <2>2. /\ doc[r] \in Snapshots /\ leaf \in Leaves
        /\ <<r, "input">> \in Leaves /\ <<r, "result">> \in Leaves
    BY Names, SnapshotTypes DEF Shape, Leaves, Kinds
  <2>3. [doc[r] EXCEPT !.phase = "started", !.start = leaf] \in Snapshots
    BY <2>2 DEF Snapshots, Leaves
  <2>4. doc' \in Docs /\ exec' \in [Runs -> ExecStates]
    BY <2>1, <2>3, CheckpointType, Places
  <2> QED
    BY <1>23, <2>1, <2>2, <2>4, Names DEF CaptureStartLeaf, Checkpoint, StaysOutside, Shape,
         Leaves, Kinds
<1>24. ASSUME NEW r \in Runs, AppendInput(r)
      PROVE  Shape'
  <2>1. AppendEntry(r, "prompting", "input", "input")
    BY <1>24 DEF AppendInput
  <2>2. /\ leaf' \in Entries /\ pathTo' \in [Entries -> Seq(Entries)]
        /\ exec' \in [Runs -> ExecStates]
    BY <2>1, AppendType, Places DEF Kinds
  <2> QED
    BY <2>1, <2>2 DEF AppendEntry, StaysOutside, Shape, Leaves
<1>25. ASSUME NEW r \in Runs, CommitInput(r)
      PROVE  Shape'
  <2>1. Checkpoint(r, "input", "answering", [doc[r] EXCEPT !.phase = "rollbackable", !.end = <<r, "input">>])
    BY <1>25 DEF CommitInput
  <2>2. /\ doc[r] \in Snapshots /\ leaf \in Leaves
        /\ <<r, "input">> \in Leaves /\ <<r, "result">> \in Leaves
    BY Names, SnapshotTypes DEF Shape, Leaves, Kinds
  <2>3. [doc[r] EXCEPT !.phase = "rollbackable", !.end = <<r, "input">>] \in Snapshots
    BY <2>2 DEF Snapshots, Leaves
  <2>4. doc' \in Docs /\ exec' \in [Runs -> ExecStates]
    BY <2>1, <2>3, CheckpointType, Places
  <2> QED
    BY <1>25, <2>1, <2>2, <2>4, Names DEF CommitInput, Checkpoint, StaysOutside, Shape, Leaves,
         Kinds
<1>26. ASSUME NEW r \in Runs, AppendCall(r)
      PROVE  Shape'
  <2>1. AppendEntry(r, "answering", "call", "call")
    BY <1>26 DEF AppendCall
  <2>2. /\ leaf' \in Entries /\ pathTo' \in [Entries -> Seq(Entries)]
        /\ exec' \in [Runs -> ExecStates]
    BY <2>1, AppendType, Places DEF Kinds
  <2> QED
    BY <2>1, <2>2 DEF AppendEntry, StaysOutside, Shape, Leaves
<1>27. ASSUME NEW r \in Runs, CommitCall(r)
      PROVE  Shape'
  <2>1. Checkpoint(r, "call", "tooling", [doc[r] EXCEPT !.round = TRUE])
    BY <1>27 DEF CommitCall
  <2>2. /\ doc[r] \in Snapshots /\ leaf \in Leaves
        /\ <<r, "input">> \in Leaves /\ <<r, "result">> \in Leaves
    BY Names, SnapshotTypes DEF Shape, Leaves, Kinds
  <2>3. [doc[r] EXCEPT !.round = TRUE] \in Snapshots
    BY <2>2 DEF Snapshots, Leaves
  <2>4. doc' \in Docs /\ exec' \in [Runs -> ExecStates]
    BY <2>1, <2>3, CheckpointType, Places
  <2> QED
    BY <1>27, <2>1, <2>2, <2>4, Names DEF CommitCall, Checkpoint, StaysOutside, Shape, Leaves,
         Kinds
<1>28. ASSUME NEW r \in Runs, ToolReturns(r)
      PROVE  Shape'
  BY <1>28 DEF ToolReturns, ExecTo, StaysOutside, Shape, ExecStates, InHarness,
       ExecutionEnded
<1>29. ASSUME NEW r \in Runs, PersistToolResult(r)
      PROVE  Shape'
  BY <1>29 DEF PersistToolResult, ExecTo, StaysOutside, Shape, ExecStates, InHarness,
       ExecutionEnded
<1>30. ASSUME NEW r \in Runs, PersistToolResultFails(r)
      PROVE  Shape'
  BY <1>30 DEF PersistToolResultFails, ExecTo, Reports, Fault, StaysOutside, Shape,
       ExecStates, InHarness, ExecutionEnded
<1>31. ASSUME NEW r \in Runs, AppendResults(r)
      PROVE  Shape'
  <2>1. AppendEntry(r, "delivering", "result", "round")
    BY <1>31 DEF AppendResults
  <2>2. /\ leaf' \in Entries /\ pathTo' \in [Entries -> Seq(Entries)]
        /\ exec' \in [Runs -> ExecStates]
    BY <2>1, AppendType, Places DEF Kinds
  <2> QED
    BY <2>1, <2>2 DEF AppendEntry, StaysOutside, Shape, Leaves
<1>32. ASSUME NEW r \in Runs, CommitRound(r)
      PROVE  Shape'
  <2>1. Checkpoint(r, "round", "answering", [doc[r] EXCEPT !.round = FALSE, !.end = <<r, "result">>])
    BY <1>32 DEF CommitRound
  <2>2. /\ doc[r] \in Snapshots /\ leaf \in Leaves
        /\ <<r, "input">> \in Leaves /\ <<r, "result">> \in Leaves
    BY Names, SnapshotTypes DEF Shape, Leaves, Kinds
  <2>3. [doc[r] EXCEPT !.round = FALSE, !.end = <<r, "result">>] \in Snapshots
    BY <2>2 DEF Snapshots, Leaves
  <2>4. doc' \in Docs /\ exec' \in [Runs -> ExecStates]
    BY <2>1, <2>3, CheckpointType, Places
  <2> QED
    BY <1>32, <2>1, <2>2, <2>4, Names DEF CommitRound, Checkpoint, StaysOutside, Shape, Leaves,
         Kinds
<1>33. ASSUME NEW r \in Runs, AppendAnswer(r)
      PROVE  Shape'
  <2>1. AppendEntry(r, "answering", "answer", "answer")
    BY <1>33 DEF AppendAnswer
  <2>2. /\ leaf' \in Entries /\ pathTo' \in [Entries -> Seq(Entries)]
        /\ exec' \in [Runs -> ExecStates]
    BY <2>1, AppendType, Places DEF Kinds
  <2> QED
    BY <2>1, <2>2 DEF AppendEntry, StaysOutside, Shape, Leaves
<1>34. ASSUME NEW r \in Runs, CommitAnswer(r)
      PROVE  Shape'
  <2>1. Checkpoint(r, "answer", "outcome", [doc[r] EXCEPT !.phase = "candidate"])
    BY <1>34 DEF CommitAnswer
  <2>2. /\ doc[r] \in Snapshots /\ leaf \in Leaves
        /\ <<r, "input">> \in Leaves /\ <<r, "result">> \in Leaves
    BY Names, SnapshotTypes DEF Shape, Leaves, Kinds
  <2>3. [doc[r] EXCEPT !.phase = "candidate"] \in Snapshots
    BY <2>2 DEF Snapshots, Leaves
  <2>4. doc' \in Docs /\ exec' \in [Runs -> ExecStates]
    BY <2>1, <2>3, CheckpointType, Places
  <2> QED
    BY <1>34, <2>1, <2>2, <2>4, Names DEF CommitAnswer, Checkpoint, StaysOutside, Shape, Leaves,
         Kinds, Reports
<1>35. ASSUME NEW r \in Runs, AnswerIsRefused(r)
      PROVE  Shape'
  BY <1>35 DEF AnswerIsRefused, Reports, Fault, StaysOutside, Shape
<1>36. ASSUME NEW r \in Runs, CheckpointFails(r)
      PROVE  Shape'
  BY <1>36 DEF CheckpointFails, ExecTo, Reports, Fault, StaysOutside, Shape, ExecStates,
       InHarness, ExecutionEnded
<1>37. ASSUME NEW r \in Runs, HarnessStops(r)
      PROVE  Shape'
  BY <1>37 DEF HarnessStops, ExecTo, Reports, Fault, StaysOutside, Shape, ExecStates,
       InHarness, ExecutionEnded
<1>38. ASSUME NEW r \in Runs, ApplyOutcome(r)
      PROVE  Shape'
  BY <1>38 DEF ApplyOutcome, ExecTo, StaysOutside, Shape, ExecStates, InHarness,
       ExecutionEnded
<1>39. ASSUME NEW r \in Runs, CommitOutcome(r)
      PROVE  Shape'
  <2>1. CASE UNCHANGED <<doc, session>> /\ \E to \in ExecStates : ExecTo(r, to)
    <3>1. exec' \in [Runs -> ExecStates]
      BY <2>1, ExecType
    <3> QED
      BY <1>39, <2>1, <3>1 DEF CommitOutcome, StaysOutside, Shape
  <2>2. CASE \E status \in Ended, to \in ExecStates : CommitAs(r, status, to)
    <3>1. PICK status \in Ended, to \in ExecStates : CommitAs(r, status, to)
      BY <2>2
    <3>2. PICK goal \in Leaves \cup {Keep} : FinalizeSession(r, goal)
      BY <3>1, CommitType
    <3>3. doc' \in Docs /\ exec' \in [Runs -> ExecStates]
      BY <3>1, CommitType, SnapshotTypes DEF Shape
    <3>4. /\ control' \in [Runs -> {"none", "acquiring", "attached"}]
          /\ finalization' \in [Runs -> {"no", "revoking", "closing", "failed"}]
          /\ target' \in [Runs -> Leaves \cup {Keep}] /\ failures' \subseteq Runs
      BY <3>2, FinalizeType
    <3> QED
      BY <1>39, <3>3, <3>4 DEF CommitOutcome, StaysOutside, Shape
  <2> QED
    <3>1. /\ {"activating", "settling", "finalizing", "keeping", "recommitting"} \subseteq ExecStates
          /\ {"completed", "failed", "blocked", "cancelled"} = Ended
      BY Places DEF Ended
    <3>2. exec[r] = "committing" => outcome[r] \in Ended
      BY DEF Ended, Shape, Staged, Executes
    <3> QED
      BY <1>39, <2>1, <2>2, <3>1, <3>2 DEF CommitOutcome
<1>40. ASSUME NEW r \in Runs, CommitFails(r)
      PROVE  Shape'
  <2>1. CASE UNCHANGED <<doc, session>> /\ \E to \in ExecStates : ExecTo(r, to)
    <3>1. exec' \in [Runs -> ExecStates]
      BY <2>1, ExecType
    <3> QED
      BY <1>40, <2>1, <3>1 DEF CommitFails, StaysOutside, Shape
  <2>2. CASE \E status \in Ended, to \in ExecStates : CommitAs(r, status, to)
    <3>1. PICK status \in Ended, to \in ExecStates : CommitAs(r, status, to)
      BY <2>2
    <3>2. PICK goal \in Leaves \cup {Keep} : FinalizeSession(r, goal)
      BY <3>1, CommitType
    <3>3. doc' \in Docs /\ exec' \in [Runs -> ExecStates]
      BY <3>1, CommitType, SnapshotTypes DEF Shape
    <3>4. /\ control' \in [Runs -> {"none", "acquiring", "attached"}]
          /\ finalization' \in [Runs -> {"no", "revoking", "closing", "failed"}]
          /\ target' \in [Runs -> Leaves \cup {Keep}] /\ failures' \subseteq Runs
      BY <3>2, FinalizeType
    <3> QED
      BY <1>40, <3>3, <3>4 DEF CommitFails, StaysOutside, Shape
  <2> QED
    <3>1. /\ {"activating", "settling", "finalizing", "keeping", "recommitting"} \subseteq ExecStates
          /\ {"completed", "failed", "blocked", "cancelled"} = Ended
      BY Places DEF Ended
    <3>2. exec[r] = "committing" => outcome[r] \in Ended
      BY DEF Ended, Shape, Staged, Executes
    <3> QED
      BY <1>40, <2>1, <2>2, <3>1, <3>2 DEF CommitFails
<1>41. ASSUME NEW r \in Runs, Recommit(r)
      PROVE  Shape'
  <2>1. CASE UNCHANGED <<doc, session>> /\ \E to \in ExecStates : ExecTo(r, to)
    <3>1. exec' \in [Runs -> ExecStates]
      BY <2>1, ExecType
    <3> QED
      BY <1>41, <2>1, <3>1 DEF Recommit, StaysOutside, Shape
  <2>2. CASE \E status \in Ended, to \in ExecStates : CommitAs(r, status, to)
    <3>1. PICK status \in Ended, to \in ExecStates : CommitAs(r, status, to)
      BY <2>2
    <3>2. PICK goal \in Leaves \cup {Keep} : FinalizeSession(r, goal)
      BY <3>1, CommitType
    <3>3. doc' \in Docs /\ exec' \in [Runs -> ExecStates]
      BY <3>1, CommitType, SnapshotTypes DEF Shape
    <3>4. /\ control' \in [Runs -> {"none", "acquiring", "attached"}]
          /\ finalization' \in [Runs -> {"no", "revoking", "closing", "failed"}]
          /\ target' \in [Runs -> Leaves \cup {Keep}] /\ failures' \subseteq Runs
      BY <3>2, FinalizeType
    <3> QED
      BY <1>41, <3>3, <3>4 DEF Recommit, StaysOutside, Shape
  <2> QED
    <3>1. /\ {"activating", "settling", "finalizing", "keeping", "recommitting"} \subseteq ExecStates
          /\ {"completed", "failed", "blocked", "cancelled"} = Ended
      BY Places DEF Ended
    <3>2. exec[r] = "committing" => outcome[r] \in Ended
      BY DEF Ended, Shape, Staged, Executes
    <3> QED
      BY <1>41, <2>1, <2>2, <3>1, <3>2 DEF Recommit
<1>42. ASSUME NEW r \in Runs, RecommitFails(r)
      PROVE  Shape'
  BY <1>42 DEF RecommitFails, ExecTo, Fault, StaysOutside, Shape, ExecStates, InHarness,
       ExecutionEnded
<1>43. ASSUME NEW r \in Runs, ExecutionFinalized(r)
      PROVE  Shape'
  BY <1>43 DEF ExecutionFinalized, ExecTo, StaysOutside, Shape, ExecStates, InHarness,
       ExecutionEnded
<1>44. ASSUME NEW r \in Runs, ExecutionActivates(r)
      PROVE  Shape'
  <2>1. activation' \in Activations
    BY <1>44, RequestType DEF ExecutionActivates, Shape
  <2> QED
    BY <1>44, <2>1, Places DEF ExecutionActivates, ExecTo, Shape
<1>45. ASSUME NEW r \in Runs, ExecutionSettles(r)
      PROVE  Shape'
  <2>1. PICK ok \in BOOLEAN : SettleExecution(r, ok) \/ SettlementFails(r)
    BY <1>45 DEF ExecutionSettles
  <2>2. /\ doc' \in Docs /\ leaf' \in Leaves /\ pathTo' \in [Entries -> Seq(Entries)]
        /\ accepted' \in [Runs -> BOOLEAN]
    BY <2>1, SettleType
  <2> QED
    BY <1>45, <2>2, Places DEF ExecutionSettles, Shape, ExecTo, StaysOutside
<1>46. ASSUME NEW r \in Runs, ExecutionPosts(r)
      PROVE  Shape'
  <2>1. activation' \in Activations
    BY <1>46, RequestType DEF ExecutionPosts, Shape
  <2> QED
    BY <1>46, <2>1, Places DEF ExecutionPosts, ExecTo, Shape
<1>47. CASE UNCHANGED vars
  BY <1>47 DEF vars, Shape
<1> QED
  BY <1>1, <1>2, <1>3, <1>4, <1>5, <1>6, <1>7, <1>8, <1>9, <1>10, <1>11, <1>12, <1>13,
       <1>14, <1>15, <1>16, <1>17, <1>18, <1>19, <1>20, <1>21, <1>22, <1>23, <1>24, <1>25, <1>26,
       <1>27, <1>28, <1>29, <1>30, <1>31, <1>32, <1>33, <1>34, <1>35, <1>36, <1>37, <1>38, <1>39,
       <1>40, <1>41, <1>42, <1>43, <1>44, <1>45, <1>46, <1>47 DEF Next, Submission, Activation,
       Cleanup, Finalization, Loop, Ending

\* What the layers say of a run is about these; an activation that ends lets those who
\* joined it go on.
Keeps(q) ==
  /\ doc'[q] = doc[q] /\ control'[q] = control[q] /\ finalization'[q] = finalization[q]
  /\ target'[q] = target[q] /\ (q \in failures' <=> q \in failures)
  /\ safe'[q] = safe[q] /\ accepted'[q] = accepted[q] /\ outcome'[q] = outcome[q]
  /\ cleanup'[q] = cleanup[q]
  /\ exec'[q] = exec[q] \/ (exec[q] = "joined" /\ exec'[q] = "settling")
Only(r) == \A q \in Runs \ {r} : Keeps(q)
Stage(r) == Untouched(r) /\ Executes(r) /\ Finalizes(r)

\* A run no step of which is taken stays at its stage.
LEMMA KeepsStage ==
  ASSUME NEW q, Stage(q), Keeps(q)
  PROVE  Stage(q)'
BY DEF Keeps, Stage, Untouched, Executes, Finalizes, Blank, Terminal, InHarness

\* Giving one session back touches no other run.
LEMMA FinalizeOnly ==
  ASSUME Shape, NEW r \in Runs, NEW goal, FinalizeSession(r, goal)
  PROVE  \A q \in Runs \ {r} :
           /\ control'[q] = control[q] /\ finalization'[q] = finalization[q]
           /\ target'[q] = target[q] /\ (q \in failures' <=> q \in failures)
BY DEF Shape, FinalizeSession

\* Ending an activation moves no other run, except those that joined it.
LEMMA FinishOnly ==
  ASSUME Shape, NEW E, NEW r \in Runs, \A q \in Runs \ {r} : E[q] = exec[q], FinishActivation(E)
  PROVE  \A q \in Runs \ {r} : exec'[q] = exec[q] \/ (exec[q] = "joined" /\ exec'[q] = "settling")
BY DEF Shape, FinishActivation

\* A settlement touches the round of its own run only.
LEMMA SettleOnly ==
  ASSUME Shape, NEW r \in Runs, NEW ok, SettleExecution(r, ok) \/ SettlementFails(r)
  PROVE  \A q \in Runs \ {r} : doc'[q] = doc[q] /\ accepted'[q] = accepted[q]
BY DEF Shape, Docs, SettleExecution, SettlementFails

\* A step of a run is about that run only.
LEMMA Scope ==
  ASSUME Shape, NEW r \in Runs,
         Cancel(r) \/ Cleanup(r) \/ Finalization(r) \/ Loop(r) \/ Ending(r)
  PROVE  Only(r)
<1>1. CASE Cancel(r)
  <2>1. UNCHANGED session \/ \E goal : FinalizeSession(r, goal)
    BY <1>1 DEF Cancel
  <2>2. \A q \in Runs \ {r} : /\ control'[q] = control[q] /\ finalization'[q] = finalization[q]
                              /\ target'[q] = target[q] /\ (q \in failures' <=> q \in failures)
    BY <2>1, FinalizeOnly
  <2> QED
    BY <1>1, <2>2 DEF Cancel, Only, Keeps, Shape, Docs
<1>2. CASE CleanupFinalized(r)
  BY <1>2 DEF CleanupFinalized, Only, Keeps, Shape, Docs
<1>3. CASE CleanupSettles(r)
  <2>1. \A q \in Runs \ {r} : doc'[q] = doc[q] /\ accepted'[q] = accepted[q]
    BY <1>3, SettleOnly DEF CleanupSettles
  <2> QED
    BY <1>3, <2>1 DEF CleanupSettles, ExecTo, StaysOutside, Only, Keeps, Shape, Docs
<1>4. CASE CleanupActivates(r)
  BY <1>4 DEF CleanupActivates, RequestActivation, Idle, Only, Keeps, Shape, Docs
<1>5. CASE RevokeSession(r)
  BY <1>5 DEF RevokeSession, Only, Keeps, Shape, Docs
<1>6. CASE RevokeFails(r)
  BY <1>6 DEF RevokeFails, Fault, Only, Keeps, Shape, Docs
<1>7. CASE CloseSession(r)
  BY <1>7 DEF CloseSession, Only, Keeps, Shape, Docs
<1>8. CASE AcquireSession(r)
  BY <1>8 DEF AcquireSession, ExecTo, Reports, StaysOutside, Only, Keeps, Shape, Docs
<1>9. CASE AcquireFails(r)
  BY <1>9 DEF AcquireFails, ExecTo, Reports, Fault, StaysOutside, Only, Keeps, Shape, Docs
<1>10. CASE CaptureStartLeaf(r)
  BY <1>10 DEF CaptureStartLeaf, Checkpoint, ExecTo, StaysOutside, Only, Keeps, Shape, Docs
<1>11. CASE AppendInput(r)
  BY <1>11 DEF AppendInput, AppendEntry, ExecTo, MayWrite, StaysOutside, Only, Keeps, Shape,
       Docs
<1>12. CASE CommitInput(r)
  BY <1>12 DEF CommitInput, Checkpoint, ExecTo, StaysOutside, Only, Keeps, Shape, Docs
<1>13. CASE AppendCall(r)
  BY <1>13 DEF AppendCall, AppendEntry, ExecTo, MayWrite, StaysOutside, Only, Keeps, Shape,
       Docs
<1>14. CASE CommitCall(r)
  BY <1>14 DEF CommitCall, Checkpoint, ExecTo, StaysOutside, Only, Keeps, Shape, Docs
<1>15. CASE ToolReturns(r)
  BY <1>15 DEF ToolReturns, ExecTo, StaysOutside, Only, Keeps, Shape, Docs
<1>16. CASE PersistToolResult(r)
  BY <1>16 DEF PersistToolResult, ExecTo, StaysOutside, Only, Keeps, Shape, Docs
<1>17. CASE PersistToolResultFails(r)
  BY <1>17 DEF PersistToolResultFails, ExecTo, Reports, Fault, StaysOutside, Only, Keeps,
       Shape, Docs
<1>18. CASE AppendResults(r)
  BY <1>18 DEF AppendResults, AppendEntry, ExecTo, MayWrite, StaysOutside, Only, Keeps,
       Shape, Docs
<1>19. CASE CommitRound(r)
  BY <1>19 DEF CommitRound, Checkpoint, ExecTo, StaysOutside, Only, Keeps, Shape, Docs
<1>20. CASE AppendAnswer(r)
  BY <1>20 DEF AppendAnswer, AppendEntry, ExecTo, MayWrite, StaysOutside, Only, Keeps,
       Shape, Docs
<1>21. CASE CommitAnswer(r)
  BY <1>21 DEF CommitAnswer, Checkpoint, ExecTo, StaysOutside, Reports, Only, Keeps, Shape,
       Docs
<1>22. CASE AnswerIsRefused(r)
  BY <1>22 DEF AnswerIsRefused, Reports, Fault, StaysOutside, Only, Keeps, Shape, Docs
<1>23. CASE CheckpointFails(r)
  BY <1>23 DEF CheckpointFails, ExecTo, Reports, Fault, StaysOutside, Only, Keeps, Shape,
       Docs
<1>24. CASE HarnessStops(r)
  BY <1>24 DEF HarnessStops, ExecTo, Reports, Fault, StaysOutside, Only, Keeps, Shape, Docs
<1>25. CASE ApplyOutcome(r)
  BY <1>25 DEF ApplyOutcome, ExecTo, StaysOutside, Only, Keeps, Shape, Docs
<1>26. CASE CommitOutcome(r)
  <2>1. CASE UNCHANGED <<doc, session>> /\ \E to : ExecTo(r, to)
    BY <1>26, <2>1 DEF CommitOutcome, ExecTo, StaysOutside, Only, Keeps, Shape, Docs
  <2>2. CASE \E status, to : CommitAs(r, status, to)
    <3>1. PICK status, to : CommitAs(r, status, to)
      BY <2>2
    <3>2. PICK goal : FinalizeSession(r, goal)
      BY <3>1 DEF CommitAs
    <3>3. \A q \in Runs \ {r} : doc'[q] = doc[q] /\ exec'[q] = exec[q]
      BY <3>1 DEF CommitAs, ExecTo, Shape, Docs
    <3>4. UNCHANGED <<outcome, safe, accepted, cleanup>>
      BY <1>26 DEF CommitOutcome, StaysOutside
    <3> QED
      BY <3>2, <3>3, <3>4, FinalizeOnly DEF Only, Keeps
  <2> QED
    BY <1>26, <2>1, <2>2 DEF CommitOutcome
<1>27. CASE CommitFails(r)
  <2>1. CASE UNCHANGED <<doc, session>> /\ \E to : ExecTo(r, to)
    BY <1>27, <2>1 DEF CommitFails, ExecTo, StaysOutside, Only, Keeps, Shape, Docs
  <2>2. CASE \E status, to : CommitAs(r, status, to)
    <3>1. PICK status, to : CommitAs(r, status, to)
      BY <2>2
    <3>2. PICK goal : FinalizeSession(r, goal)
      BY <3>1 DEF CommitAs
    <3>3. \A q \in Runs \ {r} : doc'[q] = doc[q] /\ exec'[q] = exec[q]
      BY <3>1 DEF CommitAs, ExecTo, Shape, Docs
    <3>4. UNCHANGED <<outcome, safe, accepted, cleanup>>
      BY <1>27 DEF CommitFails, StaysOutside
    <3> QED
      BY <3>2, <3>3, <3>4, FinalizeOnly DEF Only, Keeps
  <2> QED
    BY <1>27, <2>1, <2>2 DEF CommitFails
<1>28. CASE Recommit(r)
  <2>1. CASE UNCHANGED <<doc, session>> /\ \E to : ExecTo(r, to)
    BY <1>28, <2>1 DEF Recommit, ExecTo, StaysOutside, Only, Keeps, Shape, Docs
  <2>2. CASE \E status, to : CommitAs(r, status, to)
    <3>1. PICK status, to : CommitAs(r, status, to)
      BY <2>2
    <3>2. PICK goal : FinalizeSession(r, goal)
      BY <3>1 DEF CommitAs
    <3>3. \A q \in Runs \ {r} : doc'[q] = doc[q] /\ exec'[q] = exec[q]
      BY <3>1 DEF CommitAs, ExecTo, Shape, Docs
    <3>4. UNCHANGED <<outcome, safe, accepted, cleanup>>
      BY <1>28 DEF Recommit, StaysOutside
    <3> QED
      BY <3>2, <3>3, <3>4, FinalizeOnly DEF Only, Keeps
  <2> QED
    BY <1>28, <2>1, <2>2 DEF Recommit
<1>29. CASE RecommitFails(r)
  BY <1>29 DEF RecommitFails, ExecTo, Fault, StaysOutside, Only, Keeps, Shape, Docs
<1>30. CASE ExecutionFinalized(r)
  BY <1>30 DEF ExecutionFinalized, ExecTo, StaysOutside, Only, Keeps, Shape, Docs
<1>31. CASE ExecutionActivates(r)
  BY <1>31 DEF ExecutionActivates, ExecTo, RequestActivation, Idle, Only, Keeps, Shape, Docs
<1>32. CASE ExecutionSettles(r)
  <2>1. \A q \in Runs \ {r} : doc'[q] = doc[q] /\ accepted'[q] = accepted[q]
    BY <1>32, SettleOnly DEF ExecutionSettles
  <2> QED
    BY <1>32, <2>1 DEF ExecutionSettles, ExecTo, StaysOutside, Only, Keeps, Shape, Docs
<1>33. CASE ExecutionPosts(r)
  BY <1>33 DEF ExecutionPosts, ExecTo, RequestActivation, Idle, Only, Keeps, Shape, Docs
<1> QED
  BY <1>1, <1>2, <1>3, <1>4, <1>5, <1>6, <1>7, <1>8, <1>9, <1>10, <1>11, <1>12, <1>13,
       <1>14, <1>15, <1>16, <1>17, <1>18, <1>19, <1>20, <1>21, <1>22, <1>23, <1>24, <1>25, <1>26,
       <1>27, <1>28, <1>29, <1>30, <1>31, <1>32, <1>33 DEF Cleanup, Finalization, Loop, Ending

\* What a run's end that is saved does to its session.
LEMMA CommitStage ==
  ASSUME Shape, NEW r \in Runs, Stage(r), ~Terminal(doc[r]),
         exec[r] \in {"committing", "recommitting"},
         NEW status \in Ended, NEW to \in {"finalizing", "keeping"}, CommitAs(r, status, to), UNCHANGED cleanup
  PROVE  Stage(r)'
<1>1. doc'[r] = EndedDoc(r, status) /\ doc'[r].status = status /\ exec'[r] = to
  <2>1. doc'[r] = EndedDoc(r, status) /\ exec'[r] = to
    BY DEF CommitAs, ExecTo, Shape, Docs
  <2>2. doc[r] \in Snapshots
    BY DEF Shape, Docs
  <2>3. EndedDoc(r, status).status = status
    BY <2>2 DEF EndedDoc, Snapshots, Ended
  <2> QED
    BY <2>1, <2>3
<1>2. PICK goal \in Leaves \cup {Keep} :
        /\ FinalizeSession(r, goal)
        /\ status = "failed" => goal # Keep
        /\ status # "failed" => goal = Keep
  <2>1. EndedDoc(r, status) \in Snapshots
    BY SnapshotTypes
  <2>2. RollbackLeaf(doc'[r]) \in Leaves /\ Keep \notin Leaves
    BY <1>1, <2>1, SnapshotTypes, Names DEF Leaves
  <2> QED
    BY <2>2 DEF CommitAs
<1>3. finalization[r] = "no" /\ r \notin failures
  BY DEF Stage, Finalizes
<1>4. /\ finalization'[r] = IF control[r] = "none" THEN "no"
                            ELSE IF goal = Keep THEN "closing" ELSE "revoking"
      /\ target'[r] = goal /\ r \notin failures' /\ control' = control
  BY <1>2, <1>3 DEF FinalizeSession, Shape
<1>5. control[r] # "acquiring"
  BY DEF Stage, Executes
<1> QED
  BY <1>1, <1>2, <1>3, <1>4, <1>5 DEF Stage, Untouched, Executes, Finalizes, Terminal, Ended, InHarness

\* A settlement keeps its run at its stage: only the round is closed.
LEMMA SettleStage ==
  ASSUME Shape, NEW r \in Runs, Stage(r), NEW ok,
         SettleExecution(r, ok) \/ SettlementFails(r),
         UNCHANGED <<session, safe, outcome>>, cleanup'[r] # "none" => cleanup[r] # "none",
         exec'[r] = exec[r] \/ (exec[r] \in {"joined", "settling"} /\ exec'[r] \in {"settling", "posting"})
  PROVE  Stage(r)'
<1>1. doc[r] \in Snapshots
  BY DEF Shape, Docs
<1>2. \/ doc'[r] = doc[r]
      \/ doc[r].round /\ \E e \in Entries : doc'[r] = [doc[r] EXCEPT !.round = FALSE, !.end = e]
  <2>1. CASE doc' = doc
    BY <2>1
  <2>2. CASE doc[r].round /\ doc' = [doc EXCEPT ![r].round = FALSE, ![r].end = <<r, "result">>]
    BY <2>2, Names DEF Shape, Docs, Kinds
  <2> QED
    BY <2>1, <2>2 DEF SettleExecution, SettlementFails
<1>3. doc'[r].status = doc[r].status /\ (~doc[r].round => doc'[r] = doc[r])
  BY <1>1, <1>2 DEF Snapshots
<1>4. accepted'[r] \in {accepted[r], FALSE}
  BY DEF SettleExecution, SettlementFails, Shape
<1> QED
  BY <1>3, <1>4 DEF Stage, Untouched, Executes, Finalizes, Blank, Terminal, InHarness

\* A queued run starts.
LEMMA StartStage ==
  ASSUME Shape, NEW r \in Runs, Stage(r), doc[r].status = "queued",
         doc' = Started(r), ControlCreated(r), exec'[r] = "acquiring", UNCHANGED <<outcome, safe, accepted, cleanup>>
  PROVE  Stage(r)'
<1>1. exec[r] = "idle" /\ finalization[r] = "no"
  BY DEF Stage, Executes, Finalizes, Terminal, Ended
<1>2. doc[r] \in Snapshots
  BY DEF Shape, Docs
<1>3. /\ doc'[r].status = "running" /\ doc'[r].phase = doc[r].phase /\ doc'[r].start = doc[r].start
      /\ doc'[r].end = doc[r].end /\ doc'[r].round = doc[r].round
  BY <1>2 DEF Started, Shape, Docs, Snapshots
<1>4. control'[r] = "acquiring" /\ UNCHANGED <<finalization, target, failures>>
  BY DEF ControlCreated, Shape
<1> QED
  BY <1>1, <1>3, <1>4 DEF Stage, Untouched, Executes, Finalizes, Blank, Terminal, Ended, InHarness

\* An activation that ends moves nobody but those who joined it.
LEMMA FinishKeeps ==
  ASSUME Shape, FinishActivation(exec),
         UNCHANGED <<doc, outcome, safe, accepted, session, cleanup>>
  PROVE  \A q \in Runs : Keeps(q)
BY DEF Shape, FinishActivation, Keeps

\* Every step keeps each run at one of the stages of its life.
LEMMA StagedStep ==
  ASSUME Shape, Shape', Staged, Births, Admits, [Next]_vars
  PROVE  Staged'
<1>1. \A r \in Runs : Stage(r)
  BY DEF Staged, Stage
<1>2. ASSUME NEW r \in Runs, Only(r), Stage(r)'
      PROVE  Staged'
  BY <1>1, <1>2, KeepsStage DEF Staged, Stage, Only
<1>3. ASSUME \A r \in Runs : Keeps(r)
      PROVE  Staged'
  BY <1>1, <1>3, KeepsStage DEF Staged, Stage
<1>4. CASE SubmitTurn
  BY <1>3, <1>4 DEF SubmitTurn, Keeps
<1>5. CASE SubmissionReads
  BY <1>3, <1>5 DEF SubmissionReads, Keeps
<1>6. CASE SubmissionPublishes
  <2>1. PICK k \in Nat : /\ NextRun = k + 1 /\ Present(doc) = 1 .. k
                         /\ submission.pc \in {"reading", "persisting"} => k + 1 \in Runs
    BY NextRunIs
  <2> DEFINE n == k + 1
  <2>2. n \in Runs /\ doc[n].status = "absent"
    BY <1>6, <2>1 DEF SubmissionPublishes, Present
  <2>3. /\ doc' = [doc EXCEPT ![n] = [NoDoc EXCEPT !.status = "queued", !.pred = submission.pred]]
        /\ UNCHANGED <<running, session, cleanup>>
    BY <1>6, <2>1 DEF SubmissionPublishes
  <2> HIDE DEF n
  <2>4. Only(n)
    BY <2>2, <2>3 DEF Only, Keeps, Shape, Docs
  <2>5. exec[n] = "idle" /\ control[n] = "none" /\ finalization[n] = "no" /\ cleanup[n] = "none"
    BY <1>1, <2>2 DEF Stage, Executes, Finalizes, Terminal, Ended
  <2>6. Blank(doc'[n]) /\ doc'[n].status = "queued"
    BY <2>2, <2>3 DEF Blank, NoDoc, Shape, Docs
  <2>7. Stage(n)'
    <3>1. Stage(n)
      BY <1>1, <2>2
    <3>2. Untouched(n)'
      BY <2>3, <2>5, <2>6, <3>1 DEF Stage, Untouched
    <3>3. Executes(n)'
      BY <2>3, <2>5, <2>6, <3>1 DEF Stage, Executes, InHarness
    <3>4. Finalizes(n)'
      BY <2>3, <2>5, <2>6, <3>1 DEF Stage, Finalizes, Terminal, Ended
    <3> QED
      BY <3>2, <3>3, <3>4 DEF Stage
  <2> QED
    BY <1>2, <2>2, <2>4, <2>7
<1>7. CASE SubmissionFails
  BY <1>3, <1>7 DEF SubmissionFails, Keeps
<1>8. CASE FirstTurnStarts
  <2>1. PICK k \in Nat : /\ NextRun = k + 1
                         /\ submission.pc = "starting" => k \in Runs
    BY NextRunIs
  <2>2. k \in Runs /\ NextRun - 1 = k
    BY <1>8, <2>1 DEF FirstTurnStarts
  <2>3. /\ doc[k].status = "queued" /\ doc' = Started(k) /\ exec' = [exec EXCEPT ![k] = "acquiring"]
        /\ ControlCreated(k) /\ UNCHANGED <<outcome, safe, accepted, cleanup>>
    BY <1>8, <2>2 DEF FirstTurnStarts
  <2>4. Only(k)
    BY <2>2, <2>3 DEF Started, ControlCreated, Only, Keeps, Shape, Docs
  <2>5. Stage(k)'
    BY <1>1, <2>2, <2>3, StartStage DEF Shape
  <2> QED
    BY <1>2, <2>2, <2>4, <2>5
<1>9. CASE FirstTurnStays
  BY <1>3, <1>9 DEF FirstTurnStays, Keeps
<1>10. CASE ActivationReads
  <2> DEFINE docs == activation.docs
             unfinalized == FinalizationBlocker(Visible(docs, Branch), docs)
  <2>1. Branch \in Seq(Entries)
    BY BranchType
  <2>2. CASE UNCHANGED session /\ (UNCHANGED exec \/ FinishActivation(exec))
    BY <1>3, <1>10, <2>2, FinishKeeps DEF ActivationReads, Keeps
  <2>3. CASE /\ unfinalized # NoRun /\ FinalizeSession(unfinalized, Keep) /\ UNCHANGED exec
    <3>1. PICK r : r = unfinalized /\ r \in Runs /\ Terminal(docs[r]) /\ r \in failures
      BY <2>1, <2>3, UnfinalizedRun
    <3>2. FinalizeSession(r, Keep) /\ UNCHANGED <<doc, outcome, safe, accepted, exec, cleanup>>
      BY <1>10, <2>3, <3>1 DEF ActivationReads
    <3>3. Only(r)
      BY <3>1, <3>2, FinalizeOnly DEF Only, Keeps
    <3>4. Stage(r)'
      BY <1>1, <3>1, <3>2 DEF FinalizeSession, Shape, Stage, Untouched, Executes, Finalizes, Terminal
    <3> QED
      BY <1>2, <3>1, <3>3, <3>4
  <2> QED
    BY <1>10, <2>2, <2>3 DEF ActivationReads
<1>11. CASE ActivationSettles
  <2>0. PICK k : k = activation.run
    OBVIOUS
  <2>1. k \in Runs
    BY <1>11, <2>0 DEF ActivationSettles, Admits
  <2>2. PICK ok : SettleExecution(k, ok) \/ SettlementFails(k)
    BY <1>11, <2>0 DEF ActivationSettles
  <2>3. UNCHANGED <<outcome, safe, session, cleanup>> /\ (FinishActivation(exec) \/ UNCHANGED exec)
    BY <1>11 DEF ActivationSettles
  <2>4. \A q \in Runs : exec'[q] = exec[q] \/ (exec[q] = "joined" /\ exec'[q] = "settling")
    BY <2>3 DEF FinishActivation, Shape
  <2>5. \A q \in Runs \ {k} : doc'[q] = doc[q] /\ accepted'[q] = accepted[q]
    BY <2>1, <2>2, SettleOnly
  <2>6. Only(k)
    BY <2>3, <2>4, <2>5 DEF Only, Keeps
  <2>7. Stage(k)'
    BY <1>1, <2>1, <2>2, <2>3, <2>4, SettleStage
  <2> QED
    BY <1>2, <2>1, <2>6, <2>7
<1>12. CASE ActivationRetried
  BY <1>3, <1>12, FinishKeeps DEF ActivationRetried, Keeps
<1>13. CASE ActivationLocks
  BY <1>3, <1>13, FinishKeeps DEF ActivationLocks, Keeps
<1>14. CASE ActivationRereads
  BY <1>3, <1>14, FinishKeeps DEF ActivationRereads, Keeps
<1>15. CASE ActivationStarts
  <2>0. PICK k : k = activation.run
    OBVIOUS
  <2> DEFINE E == [exec EXCEPT ![k] = "acquiring"]
  <2>1. k \in Runs /\ doc[k].status = "queued"
    BY <1>15, <2>0 DEF ActivationStarts, Admits
  <2>2. /\ doc' = Started(k) /\ ControlCreated(k) /\ FinishActivation(E)
        /\ UNCHANGED <<outcome, safe, accepted, cleanup>>
    BY <1>15, <2>0 DEF ActivationStarts
  <2>3. \A q \in Runs \ {k} : exec'[q] = exec[q] \/ (exec[q] = "joined" /\ exec'[q] = "settling")
    BY <2>1, <2>2, FinishOnly DEF Shape
  <2>4. Only(k)
    BY <2>1, <2>2, <2>3 DEF Started, ControlCreated, Only, Keeps, Shape, Docs
  <2>5. exec'[k] = "acquiring"
    BY <2>1, <2>2 DEF FinishActivation, Shape
  <2>6. Stage(k)'
    BY <1>1, <2>1, <2>2, <2>5, StartStage
  <2> QED
    BY <1>2, <2>1, <2>4, <2>6
<1>16. CASE ActivationFails
  BY <1>3, <1>16, FinishKeeps DEF ActivationFails, Keeps
<1>17. ASSUME NEW r \in Runs, Cancel(r)
      PROVE  Staged'
  <2>1. Only(r)
    BY <1>17, Scope
  <2>2. Stage(r)
    BY <1>1
  <2>3. doc[r] \in Snapshots /\ doc[r].status # "absent"
    BY <1>17, SnapshotTypes DEF Cancel
  <2> DEFINE d == IF Terminal(doc[r]) THEN doc[r] ELSE CancelledDoc(doc[r])
  <2>4. /\ doc'[r] = d /\ UNCHANGED <<exec, outcome, safe, accepted>>
    BY <1>17 DEF Cancel, Shape, Docs
  <2>5. /\ Terminal(d) /\ d.start = doc[r].start /\ d.end = doc[r].end /\ d.round = doc[r].round
        /\ doc[r].phase = "not_started" => d.phase = "not_started"
        /\ ~Terminal(doc[r]) => d.status = "cancelled"
    BY <2>3 DEF CancelledDoc, Terminal, Ended, Snapshots
  <2>6. RollbackLeaf(d) \in Leaves /\ RollbackLeaf(d) # Keep
    <3>1. d \in Snapshots
      BY SnapshotTypes
    <3> QED
      BY <3>1, SnapshotTypes, Names DEF Leaves
  <2>7. Blank(doc[r]) => RollbackLeaf(d) = Root
    BY <2>5 DEF Blank, RollbackLeaf
  <2>8. CASE UNCHANGED session
    <3>1. ~Terminal(doc[r]) => control[r] = "none"
      <4> SUFFICES ASSUME ~Terminal(doc[r])
                   PROVE  control[r] = "none"
        OBVIOUS
      <4>1. PICK goal : FinalizeSession(r, goal)
        BY <1>17, <2>2 DEF Cancel, Stage, Finalizes
      <4>2. finalization[r] = "no" /\ r \notin failures /\ finalization' = finalization
        BY <2>2, <2>8 DEF Stage, Finalizes
      <4> QED
        BY <4>1, <4>2 DEF FinalizeSession, Shape
    <3> QED
      <4>2. Untouched(r)'
        BY <2>2, <2>4, <2>5, <2>8 DEF Stage, Untouched, Blank
      <4>3. Executes(r)'
        BY <2>2, <2>4, <2>5, <2>8 DEF Stage, Executes, Terminal, Ended
      <4>4. Finalizes(r)'
        <5>1. CASE Terminal(doc[r])
          BY <2>2, <2>4, <2>5, <2>8, <5>1 DEF Stage, Finalizes, Terminal
        <5>2. CASE ~Terminal(doc[r])
          BY <2>2, <2>4, <2>5, <2>8, <3>1, <5>2 DEF Stage, Finalizes, Terminal, Ended
        <5> QED
          BY <5>1, <5>2
      <4> QED
        BY <1>2, <2>1, <4>2, <4>3, <4>4 DEF Stage
  <2>9. CASE \E goal : FinalizeSession(r, goal) /\ ~(UNCHANGED session)
    <3>1. PICK goal : /\ FinalizeSession(r, goal)
                      /\ goal = IF d.status = "completed" THEN Keep ELSE RollbackLeaf(d)
      BY <1>17, <2>9 DEF Cancel
    <3>2. /\ target'[r] = IF r \in failures THEN target[r] ELSE goal
          /\ finalization'[r] = IF control[r] = "none" THEN "no"
                                ELSE IF finalization[r] \in {"revoking", "closing"} THEN finalization[r]
                                ELSE IF target'[r] = Keep THEN "closing" ELSE "revoking"
          /\ r \in failures' => r \in failures /\ control[r] # "none"
          /\ control[r] # "none" => failures' = failures
          /\ control' = control
      BY <3>1 DEF FinalizeSession, Shape
    <3>3. CASE Terminal(doc[r])
      <4>1. d = doc[r] /\ finalization[r] # "no"
        BY <1>17, <2>9, <3>3 DEF Cancel
      <4>2. control[r] # "none" /\ finalization'[r] # "no"
        BY <2>2, <3>2, <4>1 DEF Stage, Finalizes
      <4>3. Untouched(r)'
        BY <2>2, <2>4, <3>2, <4>1, <4>2 DEF Stage, Untouched
      <4>4. Executes(r)'
        BY <2>2, <2>4, <3>2, <4>1 DEF Stage, Executes
      <4>5. control[r] = "acquiring" => target'[r] = Root
        BY <2>2, <2>7, <3>1, <3>2, <4>1 DEF Stage, Untouched, Executes, Blank, Finalizes
      <4>6. finalization[r] # "closing" => goal # Keep /\ target'[r] # Keep
        BY <2>2, <2>6, <3>1, <3>2, <4>1 DEF Stage, Finalizes
      <4>7. finalization[r] = "failed" => finalization'[r] = "revoking"
        BY <2>2, <3>2, <4>2, <4>6
      <4>8. r \in failures' => target'[r] # Keep
        BY <2>2, <3>2 DEF Stage, Finalizes
      <4>9. Finalizes(r)'
        BY <2>2, <2>4, <2>5, <3>2, <3>3, <4>1, <4>2, <4>5, <4>6, <4>7, <4>8 DEF Stage, Finalizes, Terminal
      <4> QED
        BY <1>2, <2>1, <4>3, <4>4, <4>9 DEF Stage
    <3>4. CASE ~Terminal(doc[r])
      <4>1. d.status = "cancelled" /\ goal # Keep /\ finalization[r] = "no" /\ r \notin failures
        BY <2>2, <2>5, <2>6, <3>1, <3>4 DEF Stage, Finalizes
      <4>2. /\ target'[r] = goal /\ r \notin failures'
            /\ finalization'[r] = IF control[r] = "none" THEN "no" ELSE "revoking"
        BY <3>2, <4>1
      <4>3. Blank(doc[r]) => Blank(d) /\ goal = Root
        BY <2>5, <2>7, <3>1, <4>1 DEF Blank
      <4>4. Untouched(r)'
        BY <2>2, <2>4, <3>2, <4>2, <4>3 DEF Stage, Untouched
      <4>5. Executes(r)'
        BY <2>2, <2>4, <3>2, <4>1 DEF Stage, Executes, Ended
      <4>6. Finalizes(r)'
        BY <2>2, <2>4, <2>5, <3>2, <3>4, <4>1, <4>2, <4>3
           DEF Stage, Untouched, Executes, Finalizes, Terminal, Ended
      <4> QED
        BY <1>2, <2>1, <4>4, <4>5, <4>6 DEF Stage
    <3> QED
      BY <3>3, <3>4
  <2>10. UNCHANGED session \/ \E goal : FinalizeSession(r, goal)
    BY <1>17 DEF Cancel
  <2> QED
    BY <1>2, <2>1, <2>8, <2>9, <2>10
<1>18. ASSUME NEW r \in Runs, CleanupFinalized(r)
      PROVE  Staged'
  <2>1. Only(r)
    BY <1>18, Scope DEF Cleanup, Finalization, Loop, Ending
  <2>2. Stage(r)'
    BY <1>1, <1>18 DEF CleanupFinalized, Stage, Untouched, Executes, Finalizes, Blank,
         Terminal, Ended, InHarness, Shape
  <2> QED
    BY <1>2, <2>1, <2>2
<1>19. ASSUME NEW r \in Runs, CleanupSettles(r)
      PROVE  Staged'
  <2>1. Only(r)
    BY <1>19, Scope DEF Cleanup, Ending
  <2>2. Stage(r)'
    BY <1>1, <1>19, SettleStage DEF CleanupSettles, ExecTo, StaysOutside, Shape
  <2> QED
    BY <1>2, <2>1, <2>2
<1>20. ASSUME NEW r \in Runs, CleanupActivates(r)
      PROVE  Staged'
  <2>1. Only(r)
    BY <1>20, Scope DEF Cleanup, Finalization, Loop, Ending
  <2>2. Stage(r)'
    BY <1>1, <1>20 DEF CleanupActivates, RequestActivation, Idle, Stage, Untouched,
         Executes, Finalizes, Blank, Terminal, Ended, InHarness, Shape
  <2> QED
    BY <1>2, <2>1, <2>2
<1>21. ASSUME NEW r \in Runs, RevokeSession(r)
      PROVE  Staged'
  <2>1. Only(r)
    BY <1>21, Scope DEF Cleanup, Finalization, Loop, Ending
  <2>2. Stage(r)'
    BY <1>1, <1>21 DEF RevokeSession, Stage, Untouched, Executes, Finalizes, Blank,
         Terminal, Ended, InHarness, Shape
  <2> QED
    BY <1>2, <2>1, <2>2
<1>22. ASSUME NEW r \in Runs, RevokeFails(r)
      PROVE  Staged'
  <2>1. Only(r)
    BY <1>22, Scope DEF Cleanup, Finalization, Loop, Ending
  <2>2. Stage(r)'
    BY <1>1, <1>22 DEF RevokeFails, Fault, Stage, Untouched, Executes, Finalizes, Blank,
         Terminal, Ended, InHarness, Shape
  <2> QED
    BY <1>2, <2>1, <2>2
<1>23. ASSUME NEW r \in Runs, CloseSession(r)
      PROVE  Staged'
  <2>1. Only(r)
    BY <1>23, Scope DEF Cleanup, Finalization, Loop, Ending
  <2>2. Stage(r)'
    BY <1>1, <1>23 DEF CloseSession, Stage, Untouched, Executes, Finalizes, Blank, Terminal,
         Ended, InHarness, Shape
  <2> QED
    BY <1>2, <2>1, <2>2
<1>24. ASSUME NEW r \in Runs, AcquireSession(r)
      PROVE  Staged'
  <2>1. Only(r)
    BY <1>24, Scope DEF Cleanup, Finalization, Loop, Ending
  <2>2. Stage(r)'
    BY <1>1, <1>24 DEF AcquireSession, ExecTo, Reports, StaysOutside, Stage, Untouched,
         Executes, Finalizes, Blank, Terminal, Ended, InHarness, Shape
  <2> QED
    BY <1>2, <2>1, <2>2
<1>25. ASSUME NEW r \in Runs, AcquireFails(r)
      PROVE  Staged'
  <2>1. Only(r)
    BY <1>25, Scope DEF Cleanup, Finalization, Loop, Ending
  <2>2. Stage(r)'
    BY <1>1, <1>25 DEF AcquireFails, ExecTo, Reports, Fault, StaysOutside, Stage, Untouched,
         Executes, Finalizes, Blank, Terminal, Ended, InHarness, Shape
  <2> QED
    BY <1>2, <2>1, <2>2
<1>26. ASSUME NEW r \in Runs, CaptureStartLeaf(r)
      PROVE  Staged'
  <2>1. Only(r)
    BY <1>26, Scope DEF Cleanup, Finalization, Loop, Ending
  <2>2. Stage(r)'
    BY <1>1, <1>26 DEF CaptureStartLeaf, Checkpoint, ExecTo, StaysOutside, Stage, Untouched,
         Executes, Finalizes, Blank, Terminal, Ended, InHarness, Shape
  <2> QED
    BY <1>2, <2>1, <2>2
<1>27. ASSUME NEW r \in Runs, AppendInput(r)
      PROVE  Staged'
  <2>1. Only(r)
    BY <1>27, Scope DEF Cleanup, Finalization, Loop, Ending
  <2>2. Stage(r)'
    BY <1>1, <1>27 DEF AppendInput, AppendEntry, ExecTo, MayWrite, StaysOutside, Stage,
         Untouched, Executes, Finalizes, Blank, Terminal, Ended, InHarness, Shape
  <2> QED
    BY <1>2, <2>1, <2>2
<1>28. ASSUME NEW r \in Runs, CommitInput(r)
      PROVE  Staged'
  <2>1. Only(r)
    BY <1>28, Scope DEF Cleanup, Finalization, Loop, Ending
  <2>2. Stage(r)'
    BY <1>1, <1>28 DEF CommitInput, Checkpoint, ExecTo, StaysOutside, Stage, Untouched,
         Executes, Finalizes, Blank, Terminal, Ended, InHarness, Shape
  <2> QED
    BY <1>2, <2>1, <2>2
<1>29. ASSUME NEW r \in Runs, AppendCall(r)
      PROVE  Staged'
  <2>1. Only(r)
    BY <1>29, Scope DEF Cleanup, Finalization, Loop, Ending
  <2>2. Stage(r)'
    BY <1>1, <1>29 DEF AppendCall, AppendEntry, ExecTo, MayWrite, StaysOutside, Stage,
         Untouched, Executes, Finalizes, Blank, Terminal, Ended, InHarness, Shape
  <2> QED
    BY <1>2, <2>1, <2>2
<1>30. ASSUME NEW r \in Runs, CommitCall(r)
      PROVE  Staged'
  <2>1. Only(r)
    BY <1>30, Scope DEF Cleanup, Finalization, Loop, Ending
  <2>2. Stage(r)'
    BY <1>1, <1>30 DEF CommitCall, Checkpoint, ExecTo, StaysOutside, Stage, Untouched,
         Executes, Finalizes, Blank, Terminal, Ended, InHarness, Shape
  <2> QED
    BY <1>2, <2>1, <2>2
<1>31. ASSUME NEW r \in Runs, ToolReturns(r)
      PROVE  Staged'
  <2>1. Only(r)
    BY <1>31, Scope DEF Cleanup, Finalization, Loop, Ending
  <2>2. Stage(r)'
    BY <1>1, <1>31 DEF ToolReturns, ExecTo, StaysOutside, Stage, Untouched, Executes,
         Finalizes, Blank, Terminal, Ended, InHarness, Shape
  <2> QED
    BY <1>2, <2>1, <2>2
<1>32. ASSUME NEW r \in Runs, PersistToolResult(r)
      PROVE  Staged'
  <2>1. Only(r)
    BY <1>32, Scope DEF Cleanup, Finalization, Loop, Ending
  <2>2. Stage(r)'
    BY <1>1, <1>32 DEF PersistToolResult, ExecTo, StaysOutside, Stage, Untouched, Executes,
         Finalizes, Blank, Terminal, Ended, InHarness, Shape
  <2> QED
    BY <1>2, <2>1, <2>2
<1>33. ASSUME NEW r \in Runs, PersistToolResultFails(r)
      PROVE  Staged'
  <2>1. Only(r)
    BY <1>33, Scope DEF Cleanup, Finalization, Loop, Ending
  <2>2. Stage(r)'
    BY <1>1, <1>33 DEF PersistToolResultFails, ExecTo, Reports, Fault, StaysOutside, Stage,
         Untouched, Executes, Finalizes, Blank, Terminal, Ended, InHarness, Shape
  <2> QED
    BY <1>2, <2>1, <2>2
<1>34. ASSUME NEW r \in Runs, AppendResults(r)
      PROVE  Staged'
  <2>1. Only(r)
    BY <1>34, Scope DEF Cleanup, Finalization, Loop, Ending
  <2>2. Stage(r)'
    BY <1>1, <1>34 DEF AppendResults, AppendEntry, ExecTo, MayWrite, StaysOutside, Stage,
         Untouched, Executes, Finalizes, Blank, Terminal, Ended, InHarness, Shape
  <2> QED
    BY <1>2, <2>1, <2>2
<1>35. ASSUME NEW r \in Runs, CommitRound(r)
      PROVE  Staged'
  <2>1. Only(r)
    BY <1>35, Scope DEF Cleanup, Finalization, Loop, Ending
  <2>2. Stage(r)'
    BY <1>1, <1>35 DEF CommitRound, Checkpoint, ExecTo, StaysOutside, Stage, Untouched,
         Executes, Finalizes, Blank, Terminal, Ended, InHarness, Shape
  <2> QED
    BY <1>2, <2>1, <2>2
<1>36. ASSUME NEW r \in Runs, AppendAnswer(r)
      PROVE  Staged'
  <2>1. Only(r)
    BY <1>36, Scope DEF Cleanup, Finalization, Loop, Ending
  <2>2. Stage(r)'
    BY <1>1, <1>36 DEF AppendAnswer, AppendEntry, ExecTo, MayWrite, StaysOutside, Stage,
         Untouched, Executes, Finalizes, Blank, Terminal, Ended, InHarness, Shape
  <2> QED
    BY <1>2, <2>1, <2>2
<1>37. ASSUME NEW r \in Runs, CommitAnswer(r)
      PROVE  Staged'
  <2>1. Only(r)
    BY <1>37, Scope DEF Cleanup, Finalization, Loop, Ending
  <2>2. Stage(r)'
    BY <1>1, <1>37 DEF CommitAnswer, Checkpoint, ExecTo, StaysOutside, Reports, Stage,
         Untouched, Executes, Finalizes, Blank, Terminal, Ended, InHarness, Shape
  <2> QED
    BY <1>2, <2>1, <2>2
<1>38. ASSUME NEW r \in Runs, AnswerIsRefused(r)
      PROVE  Staged'
  <2>1. Only(r)
    BY <1>38, Scope DEF Cleanup, Finalization, Loop, Ending
  <2>2. Stage(r)'
    BY <1>1, <1>38 DEF AnswerIsRefused, Reports, Fault, StaysOutside, Stage, Untouched,
         Executes, Finalizes, Blank, Terminal, Ended, InHarness, Shape
  <2> QED
    BY <1>2, <2>1, <2>2
<1>39. ASSUME NEW r \in Runs, CheckpointFails(r)
      PROVE  Staged'
  <2>1. Only(r)
    BY <1>39, Scope DEF Cleanup, Finalization, Loop, Ending
  <2>2. Stage(r)'
    BY <1>1, <1>39 DEF CheckpointFails, ExecTo, Reports, Fault, StaysOutside, Stage,
         Untouched, Executes, Finalizes, Blank, Terminal, Ended, InHarness, Shape
  <2> QED
    BY <1>2, <2>1, <2>2
<1>40. ASSUME NEW r \in Runs, HarnessStops(r)
      PROVE  Staged'
  <2>1. Only(r)
    BY <1>40, Scope DEF Cleanup, Finalization, Loop, Ending
  <2>2. Stage(r)'
    BY <1>1, <1>40 DEF HarnessStops, ExecTo, Reports, Fault, StaysOutside, Stage, Untouched,
         Executes, Finalizes, Blank, Terminal, Ended, InHarness, Shape
  <2> QED
    BY <1>2, <2>1, <2>2
<1>41. ASSUME NEW r \in Runs, ApplyOutcome(r)
      PROVE  Staged'
  <2>1. Only(r)
    BY <1>41, Scope DEF Cleanup, Finalization, Loop, Ending
  <2>2. Stage(r)'
    BY <1>1, <1>41 DEF ApplyOutcome, ExecTo, StaysOutside, Stage, Untouched, Executes,
         Finalizes, Blank, Terminal, Ended, InHarness, Shape
  <2> QED
    BY <1>2, <2>1, <2>2
<1>42. ASSUME NEW r \in Runs, CommitOutcome(r)
      PROVE  Staged'
  <2>1. Only(r)
    BY <1>42, Scope DEF Ending
  <2>2. doc[r] \in Snapshots /\ exec[r] # "idle" /\ exec[r] # "acquiring"
    BY <1>42, SnapshotTypes DEF CommitOutcome
  <2>3. CASE \E status \in Ended, to \in {"finalizing", "keeping"} :
               ~Terminal(doc[r]) /\ CommitAs(r, status, to)
    <3>1. exec[r] \in {"committing", "recommitting"}
      BY <1>42 DEF CommitOutcome
    <3>2. Stage(r)'
      BY <1>1, <1>42, <2>3, <3>1, CommitStage DEF CommitOutcome, StaysOutside
    <3> QED
      BY <1>2, <2>1, <3>2
  <2>4. CASE /\ UNCHANGED <<doc, session>>
             /\ \E to \in {"activating", "settling", "recommitting"} : ExecTo(r, to)
    <3>1. /\ exec[r] \in {"committing", "recommitting"}
          /\ exec'[r] \in {"activating", "settling", "recommitting"}
      BY <1>42, <2>4 DEF CommitOutcome, ExecTo, Shape
    <3>2. UNCHANGED <<doc, session, outcome, safe, accepted, cleanup>>
      BY <1>42, <2>4 DEF CommitOutcome, StaysOutside
    <3>3. Stage(r)'
      BY <1>1, <3>1, <3>2 DEF Stage, Untouched, Executes, Finalizes, Terminal, InHarness
    <3> QED
      BY <1>2, <2>1, <3>3
  <2>5. exec[r] = "committing" => outcome[r] \in Ended
    BY <1>1 DEF Ended, Shape, Stage, Executes
  <2>6. {"completed", "failed", "blocked"} \subseteq Ended
    BY DEF Ended
  <2> QED
    BY <1>42, <2>3, <2>4, <2>5, <2>6 DEF CommitOutcome
<1>43. ASSUME NEW r \in Runs, CommitFails(r)
      PROVE  Staged'
  <2>1. Only(r)
    BY <1>43, Scope DEF Ending
  <2>2. doc[r] \in Snapshots /\ exec[r] # "idle" /\ exec[r] # "acquiring"
    BY <1>43, SnapshotTypes DEF CommitFails
  <2>3. CASE \E status \in Ended, to \in {"finalizing", "keeping"} :
               ~Terminal(doc[r]) /\ CommitAs(r, status, to)
    <3>1. exec[r] \in {"committing", "recommitting"}
      BY <1>43 DEF CommitFails
    <3>2. Stage(r)'
      BY <1>1, <1>43, <2>3, <3>1, CommitStage DEF CommitFails, StaysOutside
    <3> QED
      BY <1>2, <2>1, <3>2
  <2>4. CASE /\ UNCHANGED <<doc, session>>
             /\ \E to \in {"activating", "settling", "recommitting"} : ExecTo(r, to)
    <3>1. /\ exec[r] \in {"committing", "recommitting"}
          /\ exec'[r] \in {"activating", "settling", "recommitting"}
      BY <1>43, <2>4 DEF CommitFails, ExecTo, Shape
    <3>2. UNCHANGED <<doc, session, outcome, safe, accepted, cleanup>>
      BY <1>43, <2>4 DEF CommitFails, StaysOutside
    <3>3. Stage(r)'
      BY <1>1, <3>1, <3>2 DEF Stage, Untouched, Executes, Finalizes, Terminal, InHarness
    <3> QED
      BY <1>2, <2>1, <3>3
  <2>5. exec[r] = "committing" => outcome[r] \in Ended
    BY <1>1 DEF Ended, Shape, Stage, Executes
  <2>6. {"completed", "failed", "blocked"} \subseteq Ended
    BY DEF Ended
  <2> QED
    BY <1>43, <2>3, <2>4, <2>5, <2>6 DEF CommitFails
<1>44. ASSUME NEW r \in Runs, Recommit(r)
      PROVE  Staged'
  <2>1. Only(r)
    BY <1>44, Scope DEF Ending
  <2>2. doc[r] \in Snapshots /\ exec[r] # "idle" /\ exec[r] # "acquiring"
    BY <1>44, SnapshotTypes DEF Recommit
  <2>3. CASE \E status \in Ended, to \in {"finalizing", "keeping"} :
               ~Terminal(doc[r]) /\ CommitAs(r, status, to)
    <3>1. exec[r] \in {"committing", "recommitting"}
      BY <1>44 DEF Recommit
    <3>2. Stage(r)'
      BY <1>1, <1>44, <2>3, <3>1, CommitStage DEF Recommit, StaysOutside
    <3> QED
      BY <1>2, <2>1, <3>2
  <2>4. CASE /\ UNCHANGED <<doc, session>>
             /\ \E to \in {"activating", "settling", "recommitting"} : ExecTo(r, to)
    <3>1. /\ exec[r] \in {"committing", "recommitting"}
          /\ exec'[r] \in {"activating", "settling", "recommitting"}
      BY <1>44, <2>4 DEF Recommit, ExecTo, Shape
    <3>2. UNCHANGED <<doc, session, outcome, safe, accepted, cleanup>>
      BY <1>44, <2>4 DEF Recommit, StaysOutside
    <3>3. Stage(r)'
      BY <1>1, <3>1, <3>2 DEF Stage, Untouched, Executes, Finalizes, Terminal, InHarness
    <3> QED
      BY <1>2, <2>1, <3>3
  <2>5. exec[r] = "committing" => outcome[r] \in Ended
    BY <1>1 DEF Ended, Shape, Stage, Executes
  <2>6. {"completed", "failed", "blocked"} \subseteq Ended
    BY DEF Ended
  <2> QED
    BY <1>44, <2>3, <2>4, <2>5, <2>6 DEF Recommit
<1>45. ASSUME NEW r \in Runs, RecommitFails(r)
      PROVE  Staged'
  <2>1. Only(r)
    BY <1>45, Scope DEF Cleanup, Finalization, Loop, Ending
  <2>2. Stage(r)'
    BY <1>1, <1>45 DEF RecommitFails, ExecTo, Fault, StaysOutside, Stage, Untouched,
         Executes, Finalizes, Blank, Terminal, Ended, InHarness, Shape
  <2> QED
    BY <1>2, <2>1, <2>2
<1>46. ASSUME NEW r \in Runs, ExecutionFinalized(r)
      PROVE  Staged'
  <2>1. Only(r)
    BY <1>46, Scope DEF Cleanup, Finalization, Loop, Ending
  <2>2. Stage(r)'
    BY <1>1, <1>46 DEF ExecutionFinalized, ExecTo, StaysOutside, Stage, Untouched, Executes,
         Finalizes, Blank, Terminal, Ended, InHarness, Shape
  <2> QED
    BY <1>2, <2>1, <2>2
<1>47. ASSUME NEW r \in Runs, ExecutionActivates(r)
      PROVE  Staged'
  <2>1. Only(r)
    BY <1>47, Scope DEF Cleanup, Finalization, Loop, Ending
  <2>2. Stage(r)'
    BY <1>1, <1>47 DEF ExecutionActivates, ExecTo, RequestActivation, Idle, Stage,
         Untouched, Executes, Finalizes, Blank, Terminal, Ended, InHarness, Shape
  <2> QED
    BY <1>2, <2>1, <2>2
<1>48. ASSUME NEW r \in Runs, ExecutionSettles(r)
      PROVE  Staged'
  <2>1. Only(r)
    BY <1>48, Scope DEF Cleanup, Ending
  <2>2. Stage(r)'
    BY <1>1, <1>48, SettleStage DEF ExecutionSettles, ExecTo, StaysOutside, Shape
  <2> QED
    BY <1>2, <2>1, <2>2
<1>49. ASSUME NEW r \in Runs, ExecutionPosts(r)
      PROVE  Staged'
  <2>1. Only(r)
    BY <1>49, Scope DEF Cleanup, Finalization, Loop, Ending
  <2>2. Stage(r)'
    BY <1>1, <1>49 DEF ExecutionPosts, ExecTo, RequestActivation, Idle, Stage, Untouched,
         Executes, Finalizes, Blank, Terminal, Ended, InHarness, Shape
  <2> QED
    BY <1>2, <2>1, <2>2
<1>50. CASE UNCHANGED vars
  BY <1>50 DEF vars, Staged, Untouched, Executes, Finalizes, Blank, Terminal
<1> QED
  BY <1>4, <1>5, <1>6, <1>7, <1>8, <1>9, <1>10, <1>11, <1>12, <1>13, <1>14, <1>15, <1>16,
       <1>17, <1>18, <1>19, <1>20, <1>21, <1>22, <1>23, <1>24, <1>25, <1>26, <1>27, <1>28, <1>29,
       <1>30, <1>31, <1>32, <1>33, <1>34, <1>35, <1>36, <1>37, <1>38, <1>39, <1>40, <1>41, <1>42,
       <1>43, <1>44, <1>45, <1>46, <1>47, <1>48, <1>49, <1>50 DEF Next, Submission, Activation,
       Cleanup, Finalization, Loop, Ending

\* How the turns themselves change: they are born, start and end one at a time.
Same(q) == doc'[q].status = doc[q].status /\ doc'[q].pred = doc[q].pred
Born(r) ==
  /\ SubmissionPublishes /\ r = NextRun
  /\ doc[r].status = "absent" /\ doc'[r].status = "queued" /\ doc'[r].pred = submission.pred
Begins(r) ==
  /\ (FirstTurnStarts /\ r = NextRun - 1) \/ (ActivationStarts /\ r = activation.run)
  /\ doc[r].status = "queued" /\ doc'[r].status = "running" /\ doc'[r].pred = doc[r].pred
Ends(r) ==
  /\ doc[r].status \in Live /\ doc'[r].status \in Ended /\ doc'[r].pred = doc[r].pred
  /\ doc[r].status = "queued" => LockFree(r)
Turns ==
  \/ \A q \in Runs : Same(q)
  \/ \E r \in Runs : /\ \A q \in Runs \ {r} : doc'[q] = doc[q]
                     /\ Born(r) \/ Begins(r) \/ Ends(r)

\* Saving a document with the same status and predecessor moves no turn.
LEMMA StatusKept ==
  ASSUME Shape, NEW r \in Runs,
         NEW d, d.status = doc[r].status, d.pred = doc[r].pred, doc' = [doc EXCEPT ![r] = d]
  PROVE  Turns
BY DEF Turns, Same, Shape, Docs

\* A settlement moves no turn.
LEMMA SettleTurns ==
  ASSUME Shape, NEW r \in Runs, NEW ok, SettleExecution(r, ok) \/ SettlementFails(r)
  PROVE  Turns
<1>1. CASE doc' = doc
  BY <1>1 DEF Turns, Same
<1>2. CASE doc' = [doc EXCEPT ![r].round = FALSE, ![r].end = leaf']
  <2>1. doc[r] \in Snapshots
    BY DEF Shape, Docs
  <2>2. doc'[r].status = doc[r].status /\ doc'[r].pred = doc[r].pred
    BY <1>2, <2>1 DEF Snapshots, Shape, Docs
  <2>3. \A q \in Runs \ {r} : doc'[q] = doc[q]
    BY <1>2 DEF Shape, Docs
  <2> QED
    BY <2>2, <2>3 DEF Turns, Same
<1> QED
  BY <1>1, <1>2 DEF SettleExecution, SettlementFails

\* A committed end ends one turn.
LEMMA CommitTurns ==
  ASSUME Shape, NEW r \in Runs, Executes(r), exec[r] # "idle", ~Terminal(doc[r]),
         NEW status \in Ended, NEW to, CommitAs(r, status, to)
  PROVE  Turns
<1>1. doc[r] \in Snapshots /\ doc[r].status = "running"
  BY DEF Shape, Docs, Executes, Terminal
<1>2. doc' = [doc EXCEPT ![r] = EndedDoc(r, status)]
  BY DEF CommitAs
<1>3. EndedDoc(r, status).status = status /\ EndedDoc(r, status).pred = doc[r].pred
  BY <1>1 DEF EndedDoc, Snapshots, Ended
<1> QED
  BY <1>1, <1>2, <1>3 DEF Turns, Ends, Live, Shape, Docs

\* Nothing else ever happens to a turn.
LEMMA TurnsStep ==
  ASSUME Shape, Staged, Births, Admits, [Next]_vars
  PROVE  Turns
<1>1. CASE SubmitTurn
  BY <1>1 DEF SubmitTurn, NoSubmission, Turns, Same
<1>2. CASE SubmissionReads
  BY <1>2 DEF SubmissionReads, NoSubmission, Turns, Same
<1>3. CASE SubmissionPublishes
  <2>1. PICK k \in Nat : /\ NextRun = k + 1 /\ Present(doc) = 1 .. k
                         /\ submission.pc \in {"reading", "persisting"} => k + 1 \in Runs
    BY NextRunIs
  <2>2. PICK n : n = k + 1
    OBVIOUS
  <2>3. n \in Runs /\ doc[n].status = "absent" /\ n = NextRun
    BY <1>3, <2>1, <2>2 DEF SubmissionPublishes, Present
  <2>4. doc' = [doc EXCEPT ![n] = [NoDoc EXCEPT !.status = "queued", !.pred = submission.pred]]
    BY <1>3, <2>3 DEF SubmissionPublishes
  <2>5. doc'[n].status = "queued" /\ doc'[n].pred = submission.pred
    BY <2>3, <2>4 DEF NoDoc, Shape, Docs
  <2>6. \A q \in Runs \ {n} : doc'[q] = doc[q]
    BY <2>4 DEF Shape, Docs
  <2> QED
    BY <1>3, <2>3, <2>5, <2>6 DEF Turns, Born
<1>4. CASE SubmissionFails
  BY <1>4 DEF SubmissionFails, Fault, NoSubmission, Turns, Same
<1>5. CASE FirstTurnStarts
  <2>1. PICK k \in Nat : /\ NextRun = k + 1
                         /\ submission.pc = "starting" => k \in Runs
    BY NextRunIs
  <2>2. k \in Runs /\ NextRun - 1 = k
    BY <1>5, <2>1 DEF FirstTurnStarts
  <2>3. doc[k].status = "queued" /\ doc' = Started(k) /\ doc[k] \in Snapshots
    BY <1>5, <2>1, <2>2 DEF FirstTurnStarts, Admits, Shape, Docs
  <2>4. doc'[k].status = "running" /\ doc'[k].pred = doc[k].pred
    BY <2>2, <2>3 DEF Started, Snapshots, Shape, Docs
  <2>5. \A q \in Runs \ {k} : doc'[q] = doc[q]
    BY <2>3 DEF Started, Shape, Docs
  <2> QED
    BY <1>5, <2>1, <2>2, <2>3, <2>4, <2>5 DEF Turns, Begins
<1>6. CASE FirstTurnStays
  BY <1>6 DEF FirstTurnStays, Fault, RequestActivation, NoSubmission, Idle, Turns, Same
<1>7. CASE ActivationReads
  BY <1>7 DEF ActivationReads, FinishActivation, FinalizeSession, Idle, Turns, Same
<1>8. CASE ActivationSettles
  <2>1. PICK k : k = activation.run
    OBVIOUS
  <2>2. k \in Runs
    BY <1>8, <2>1 DEF ActivationSettles, Admits
  <2> QED
    BY <1>8, <2>1, <2>2, SettleTurns DEF ActivationSettles
<1>9. CASE ActivationRetried
  BY <1>9 DEF ActivationRetried, FinishActivation, Turns, Same
<1>10. CASE ActivationLocks
  BY <1>10 DEF ActivationLocks, FinishActivation, Turns, Same
<1>11. CASE ActivationRereads
  BY <1>11 DEF ActivationRereads, FinishActivation, Idle, Turns, Same
<1>12. CASE ActivationStarts
  <2>1. PICK k : k = activation.run
    OBVIOUS
  <2>2. k \in Runs
    BY <1>12, <2>1 DEF ActivationStarts, Admits
  <2>3. doc[k].status = "queued" /\ doc' = Started(k) /\ doc[k] \in Snapshots
    BY <1>12, <2>1, <2>2 DEF ActivationStarts, Admits, Shape, Docs
  <2>4. doc'[k].status = "running" /\ doc'[k].pred = doc[k].pred
    BY <2>2, <2>3 DEF Started, Snapshots, Shape, Docs
  <2>5. \A q \in Runs \ {k} : doc'[q] = doc[q]
    BY <2>3 DEF Started, Shape, Docs
  <2> QED
    BY <1>12, <2>1, <2>2, <2>3, <2>4, <2>5 DEF Turns, Begins
<1>13. CASE ActivationFails
  BY <1>13 DEF ActivationFails, FinishActivation, Fault, Turns, Same
<1>14. ASSUME NEW r \in Runs, Cancel(r)
      PROVE  Turns
  <2>1. doc[r] \in Snapshots
    BY DEF Shape, Docs
  <2>2. CASE Terminal(doc[r])
    BY <1>14, <2>2 DEF Cancel, Turns, Same, Shape, Docs
  <2>3. CASE ~Terminal(doc[r])
    <3>1. doc' = [doc EXCEPT ![r] = CancelledDoc(doc[r])] /\ doc[r].status \in Live /\ LockFree(r)
      BY <1>14, <2>1, <2>3 DEF Cancel, Snapshots, Terminal
    <3>2. CancelledDoc(doc[r]).status = "cancelled" /\ CancelledDoc(doc[r]).pred = doc[r].pred
      BY <2>1 DEF CancelledDoc, Snapshots
    <3> QED
      BY <3>1, <3>2 DEF Turns, Ends, Ended, Shape, Docs
  <2> QED
    BY <2>2, <2>3
<1>15. ASSUME NEW r \in Runs, CleanupFinalized(r)
      PROVE  Turns
  BY <1>15 DEF CleanupFinalized, Turns, Same
<1>16. ASSUME NEW r \in Runs, CleanupSettles(r)
      PROVE  Turns
  BY <1>16, SettleTurns DEF CleanupSettles
<1>17. ASSUME NEW r \in Runs, CleanupActivates(r)
      PROVE  Turns
  BY <1>17 DEF CleanupActivates, RequestActivation, Idle, Turns, Same
<1>18. ASSUME NEW r \in Runs, RevokeSession(r)
      PROVE  Turns
  BY <1>18 DEF RevokeSession, Turns, Same
<1>19. ASSUME NEW r \in Runs, RevokeFails(r)
      PROVE  Turns
  BY <1>19 DEF RevokeFails, Fault, Turns, Same
<1>20. ASSUME NEW r \in Runs, CloseSession(r)
      PROVE  Turns
  BY <1>20 DEF CloseSession, Turns, Same
<1>21. ASSUME NEW r \in Runs, AcquireSession(r)
      PROVE  Turns
  BY <1>21 DEF AcquireSession, ExecTo, Reports, StaysOutside, Turns, Same
<1>22. ASSUME NEW r \in Runs, AcquireFails(r)
      PROVE  Turns
  BY <1>22 DEF AcquireFails, ExecTo, Reports, Fault, StaysOutside, Turns, Same
<1>23. ASSUME NEW r \in Runs, CaptureStartLeaf(r)
      PROVE  Turns
  <2> DEFINE d == [doc[r] EXCEPT !.phase = "started", !.start = leaf]
  <2>1. doc[r] \in Snapshots
    BY DEF Shape, Docs
  <2>2. d.status = doc[r].status /\ d.pred = doc[r].pred
    BY <2>1 DEF Snapshots
  <2>3. doc' = [doc EXCEPT ![r] = d]
    BY <1>23 DEF CaptureStartLeaf, Checkpoint
  <2> HIDE DEF d
  <2> QED
    BY <2>2, <2>3, StatusKept
<1>24. ASSUME NEW r \in Runs, AppendInput(r)
      PROVE  Turns
  BY <1>24 DEF AppendInput, AppendEntry, ExecTo, MayWrite, StaysOutside, Turns, Same
<1>25. ASSUME NEW r \in Runs, CommitInput(r)
      PROVE  Turns
  <2> DEFINE d == [doc[r] EXCEPT !.phase = "rollbackable", !.end = <<r, "input">>]
  <2>1. doc[r] \in Snapshots
    BY DEF Shape, Docs
  <2>2. d.status = doc[r].status /\ d.pred = doc[r].pred
    BY <2>1 DEF Snapshots
  <2>3. doc' = [doc EXCEPT ![r] = d]
    BY <1>25 DEF CommitInput, Checkpoint
  <2> HIDE DEF d
  <2> QED
    BY <2>2, <2>3, StatusKept
<1>26. ASSUME NEW r \in Runs, AppendCall(r)
      PROVE  Turns
  BY <1>26 DEF AppendCall, AppendEntry, ExecTo, MayWrite, StaysOutside, Turns, Same
<1>27. ASSUME NEW r \in Runs, CommitCall(r)
      PROVE  Turns
  <2> DEFINE d == [doc[r] EXCEPT !.round = TRUE]
  <2>1. doc[r] \in Snapshots
    BY DEF Shape, Docs
  <2>2. d.status = doc[r].status /\ d.pred = doc[r].pred
    BY <2>1 DEF Snapshots
  <2>3. doc' = [doc EXCEPT ![r] = d]
    BY <1>27 DEF CommitCall, Checkpoint
  <2> HIDE DEF d
  <2> QED
    BY <2>2, <2>3, StatusKept
<1>28. ASSUME NEW r \in Runs, ToolReturns(r)
      PROVE  Turns
  BY <1>28 DEF ToolReturns, ExecTo, StaysOutside, Turns, Same
<1>29. ASSUME NEW r \in Runs, PersistToolResult(r)
      PROVE  Turns
  BY <1>29 DEF PersistToolResult, ExecTo, StaysOutside, Turns, Same
<1>30. ASSUME NEW r \in Runs, PersistToolResultFails(r)
      PROVE  Turns
  BY <1>30 DEF PersistToolResultFails, ExecTo, Reports, Fault, StaysOutside, Turns, Same
<1>31. ASSUME NEW r \in Runs, AppendResults(r)
      PROVE  Turns
  BY <1>31 DEF AppendResults, AppendEntry, ExecTo, MayWrite, StaysOutside, Turns, Same
<1>32. ASSUME NEW r \in Runs, CommitRound(r)
      PROVE  Turns
  <2> DEFINE d == [doc[r] EXCEPT !.round = FALSE, !.end = <<r, "result">>]
  <2>1. doc[r] \in Snapshots
    BY DEF Shape, Docs
  <2>2. d.status = doc[r].status /\ d.pred = doc[r].pred
    BY <2>1 DEF Snapshots
  <2>3. doc' = [doc EXCEPT ![r] = d]
    BY <1>32 DEF CommitRound, Checkpoint
  <2> HIDE DEF d
  <2> QED
    BY <2>2, <2>3, StatusKept
<1>33. ASSUME NEW r \in Runs, AppendAnswer(r)
      PROVE  Turns
  BY <1>33 DEF AppendAnswer, AppendEntry, ExecTo, MayWrite, StaysOutside, Turns, Same
<1>34. ASSUME NEW r \in Runs, CommitAnswer(r)
      PROVE  Turns
  <2> DEFINE d == [doc[r] EXCEPT !.phase = "candidate"]
  <2>1. doc[r] \in Snapshots
    BY DEF Shape, Docs
  <2>2. d.status = doc[r].status /\ d.pred = doc[r].pred
    BY <2>1 DEF Snapshots
  <2>3. doc' = [doc EXCEPT ![r] = d]
    BY <1>34 DEF CommitAnswer, Checkpoint
  <2> HIDE DEF d
  <2> QED
    BY <2>2, <2>3, StatusKept
<1>35. ASSUME NEW r \in Runs, AnswerIsRefused(r)
      PROVE  Turns
  BY <1>35 DEF AnswerIsRefused, Reports, Fault, StaysOutside, Turns, Same
<1>36. ASSUME NEW r \in Runs, CheckpointFails(r)
      PROVE  Turns
  BY <1>36 DEF CheckpointFails, ExecTo, Reports, Fault, StaysOutside, Turns, Same
<1>37. ASSUME NEW r \in Runs, HarnessStops(r)
      PROVE  Turns
  BY <1>37 DEF HarnessStops, ExecTo, Reports, Fault, StaysOutside, Turns, Same
<1>38. ASSUME NEW r \in Runs, ApplyOutcome(r)
      PROVE  Turns
  BY <1>38 DEF ApplyOutcome, ExecTo, StaysOutside, Turns, Same
<1>39. ASSUME NEW r \in Runs, CommitOutcome(r)
      PROVE  Turns
  <2>1. CASE UNCHANGED doc
    BY <2>1 DEF Turns, Same
  <2>2. CASE \E status \in Ended : \E to : CommitAs(r, status, to) /\ ~Terminal(doc[r])
    BY <1>39, <2>2, CommitTurns DEF CommitOutcome, Staged
  <2>3. exec[r] = "committing" => outcome[r] \in Ended
    BY DEF Ended, Shape, Staged, Executes
  <2>4. {"completed", "failed", "blocked"} \subseteq Ended
    BY DEF Ended
  <2> QED
    BY <1>39, <2>1, <2>2, <2>3, <2>4 DEF CommitOutcome
<1>40. ASSUME NEW r \in Runs, CommitFails(r)
      PROVE  Turns
  <2>1. CASE UNCHANGED doc
    BY <2>1 DEF Turns, Same
  <2>2. CASE \E status \in Ended : \E to : CommitAs(r, status, to) /\ ~Terminal(doc[r])
    BY <1>40, <2>2, CommitTurns DEF CommitFails, Staged
  <2>3. exec[r] = "committing" => outcome[r] \in Ended
    BY DEF Ended, Shape, Staged, Executes
  <2>4. {"completed", "failed", "blocked"} \subseteq Ended
    BY DEF Ended
  <2> QED
    BY <1>40, <2>1, <2>2, <2>3, <2>4 DEF CommitFails
<1>41. ASSUME NEW r \in Runs, Recommit(r)
      PROVE  Turns
  <2>1. CASE UNCHANGED doc
    BY <2>1 DEF Turns, Same
  <2>2. CASE \E status \in Ended : \E to : CommitAs(r, status, to) /\ ~Terminal(doc[r])
    BY <1>41, <2>2, CommitTurns DEF Recommit, Staged
  <2>3. exec[r] = "committing" => outcome[r] \in Ended
    BY DEF Ended, Shape, Staged, Executes
  <2>4. {"completed", "failed", "blocked"} \subseteq Ended
    BY DEF Ended
  <2> QED
    BY <1>41, <2>1, <2>2, <2>3, <2>4 DEF Recommit
<1>42. ASSUME NEW r \in Runs, RecommitFails(r)
      PROVE  Turns
  BY <1>42 DEF RecommitFails, ExecTo, Fault, StaysOutside, Turns, Same
<1>43. ASSUME NEW r \in Runs, ExecutionFinalized(r)
      PROVE  Turns
  BY <1>43 DEF ExecutionFinalized, ExecTo, StaysOutside, Turns, Same
<1>44. ASSUME NEW r \in Runs, ExecutionActivates(r)
      PROVE  Turns
  BY <1>44 DEF ExecutionActivates, ExecTo, RequestActivation, Idle, Turns, Same
<1>45. ASSUME NEW r \in Runs, ExecutionSettles(r)
      PROVE  Turns
  BY <1>45, SettleTurns DEF ExecutionSettles
<1>46. ASSUME NEW r \in Runs, ExecutionPosts(r)
      PROVE  Turns
  BY <1>46 DEF ExecutionPosts, ExecTo, RequestActivation, Idle, Turns, Same
<1>47. CASE UNCHANGED vars
  BY <1>47 DEF vars, Turns, Same
<1> QED
  BY <1>1, <1>2, <1>3, <1>4, <1>5, <1>6, <1>7, <1>8, <1>9, <1>10, <1>11, <1>12, <1>13,
       <1>14, <1>15, <1>16, <1>17, <1>18, <1>19, <1>20, <1>21, <1>22, <1>23, <1>24, <1>25, <1>26,
       <1>27, <1>28, <1>29, <1>30, <1>31, <1>32, <1>33, <1>34, <1>35, <1>36, <1>37, <1>38, <1>39,
       <1>40, <1>41, <1>42, <1>43, <1>44, <1>45, <1>46, <1>47 DEF Next, Submission, Activation,
       Cleanup, Finalization, Loop, Ending

\* Once a run has let go of everything but a late round, it has for good, and no round
\* opens again: its session is closed, and nothing it still executes writes.
FreedNext(p) == Freed(p)' /\ (doc'[p].round => doc[p].round)

\* A cleared barrier stays so while nothing of its run changes.
LEMMA KeepsFreed ==
  ASSUME NEW p, Freed(p), Keeps(p)
  PROVE  FreedNext(p)
BY DEF FreedNext, Freed, Keeps, Terminal, Cancelled, ExecutionActive, ExecutionEnded

\* A settlement of a run whose barrier is cleared closes its round and opens none.
LEMMA SettleFreed ==
  ASSUME Shape, NEW p \in Runs, Freed(p), NEW ok, SettleExecution(p, ok) \/ SettlementFails(p),
         UNCHANGED session,
         exec'[p] = exec[p] \/ (exec[p] \in {"joined", "settling"} /\ exec'[p] \in {"settling", "posting"})
  PROVE  FreedNext(p)
<1>1. doc[p] \in Snapshots
  BY DEF Shape, Docs
<1>2. doc'[p].status = doc[p].status /\ (doc'[p].round => doc[p].round)
  BY <1>1 DEF SettleExecution, SettlementFails, Shape, Docs, Snapshots
<1>3. ~accepted'[p]
  BY DEF SettleExecution, SettlementFails, Freed, Shape
<1> QED
  BY <1>2, <1>3 DEF FreedNext, Freed, Terminal, Cancelled, ExecutionActive, ExecutionEnded

\* No step raises a cleared barrier again.
LEMMA FreedStep ==
  ASSUME Shape, Staged, Births, Admits, [Next]_vars, NEW p \in Runs, Freed(p)
  PROVE  FreedNext(p)
<1>1. /\ finalization[p] = "no" /\ control[p] = "none" /\ Terminal(doc[p]) /\ ~accepted[p]
      /\ exec[p] \notin InHarness \ {"prompting"} /\ doc[p] \in Snapshots
  BY DEF Freed, Staged, Executes, Finalizes, Shape, Docs
<1>2. ASSUME Keeps(p)
      PROVE  FreedNext(p)
  BY <1>2, KeepsFreed
<1>3. ASSUME NEW r \in Runs, Only(r), r # p
      PROVE  FreedNext(p)
  BY <1>2, <1>3 DEF Only
<1>4. doc[p].status \notin {"absent", "queued", "running"}
  BY <1>1 DEF Terminal, Ended
<1>5. CASE SubmitTurn
  BY <1>2, <1>5 DEF SubmitTurn, Keeps
<1>6. CASE SubmissionReads
  BY <1>2, <1>6 DEF SubmissionReads, Keeps
<1>7. CASE SubmissionPublishes
  <2>1. PICK k \in Nat : /\ NextRun = k + 1 /\ Present(doc) = 1 .. k
                         /\ submission.pc \in {"reading", "persisting"} => k + 1 \in Runs
    BY NextRunIs
  <2>2. k + 1 # p
    BY <1>7, <1>4, <2>1 DEF SubmissionPublishes, Present
  <2> QED
    BY <1>2, <1>7, <2>1, <2>2 DEF SubmissionPublishes, Keeps, Shape, Docs
<1>8. CASE SubmissionFails
  BY <1>2, <1>8 DEF SubmissionFails, Keeps
<1>9. CASE FirstTurnStarts
  <2>1. PICK k : k = NextRun - 1
    OBVIOUS
  <2>2. k # p
    BY <1>4, <1>9, <2>1 DEF FirstTurnStarts
  <2> QED
    BY <1>2, <1>9, <2>1, <2>2 DEF FirstTurnStarts, Started, ControlCreated, Keeps, Shape, Docs
<1>10. CASE FirstTurnStays
  BY <1>2, <1>10 DEF FirstTurnStays, Keeps
<1>11. CASE ActivationReads
  <2>1. CASE UNCHANGED session /\ (UNCHANGED exec \/ FinishActivation(exec))
    BY <1>2, <1>11, <2>1, FinishKeeps DEF ActivationReads, Keeps
  <2>2. CASE (\E r : FinalizeSession(r, Keep)) /\ UNCHANGED exec
    <3>1. UNCHANGED control /\ finalization'[p] = "no" /\ UNCHANGED <<doc, accepted, exec>>
      BY <1>1, <1>11, <2>2 DEF ActivationReads, FinalizeSession, Shape
    <3> QED
      BY <3>1 DEF FreedNext, Freed, Terminal, Cancelled, ExecutionActive, ExecutionEnded
  <2> QED
    BY <1>11, <2>1, <2>2 DEF ActivationReads
<1>12. CASE ActivationSettles
  <2>1. PICK k : k = activation.run
    OBVIOUS
  <2>2. k \in Runs
    BY <1>12, <2>1 DEF ActivationSettles, Admits
  <2>3. PICK ok : SettleExecution(k, ok) \/ SettlementFails(k)
    BY <1>12, <2>1 DEF ActivationSettles
  <2>4. UNCHANGED <<outcome, safe, session, cleanup>> /\ (FinishActivation(exec) \/ UNCHANGED exec)
    BY <1>12 DEF ActivationSettles
  <2>5. \A q \in Runs : exec'[q] = exec[q] \/ (exec[q] = "joined" /\ exec'[q] = "settling")
    BY <2>4 DEF FinishActivation, Shape
  <2>6. CASE k = p
    BY <2>3, <2>4, <2>5, <2>6, SettleFreed
  <2>7. CASE k # p
    BY <1>2, <2>2, <2>3, <2>4, <2>5, <2>7, SettleOnly DEF Keeps
  <2> QED
    BY <2>6, <2>7
<1>13. CASE ActivationRetried
  BY <1>2, <1>13, FinishKeeps DEF ActivationRetried, Keeps
<1>14. CASE ActivationLocks
  BY <1>2, <1>14, FinishKeeps DEF ActivationLocks, Keeps
<1>15. CASE ActivationRereads
  BY <1>2, <1>15, FinishKeeps DEF ActivationRereads, Keeps
<1>16. CASE ActivationStarts
  <2>1. PICK k : k = activation.run
    OBVIOUS
  <2>2. k \in Runs /\ k # p
    BY <1>4, <1>16, <2>1 DEF ActivationStarts, Admits
  <2> DEFINE E == [exec EXCEPT ![k] = "acquiring"]
  <2>3. FinishActivation(E) /\ \A q \in Runs \ {k} : E[q] = exec[q]
    BY <1>16, <2>1 DEF ActivationStarts, Shape
  <2> HIDE DEF E
  <2>4. exec'[p] = exec[p] \/ (exec[p] = "joined" /\ exec'[p] = "settling")
    BY <2>2, <2>3, FinishOnly
  <2> QED
    BY <1>2, <1>16, <2>1, <2>2, <2>4 DEF ActivationStarts, Started, ControlCreated, Keeps, Shape, Docs
<1>17. CASE ActivationFails
  BY <1>2, <1>17, FinishKeeps DEF ActivationFails, Keeps
<1>18. ASSUME NEW r \in Runs, Cancel(r)
      PROVE  FreedNext(p)
  <2>0. CASE r # p
    BY <1>3, <1>18, <2>0, Scope DEF Cleanup, Finalization, Loop, Ending
  <2>9. CASE r = p
    <3>1. /\ UNCHANGED <<exec, accepted>> /\ doc'[r] = doc[r]
          /\ (UNCHANGED session) \/ \E goal : FinalizeSession(r, goal)
      BY <1>1, <1>18, <2>9 DEF Cancel, Shape, Docs
    <3>2. finalization'[r] = "no"
      BY <1>1, <1>18, <2>9, <3>1 DEF FinalizeSession, Shape
    <3> QED
      BY <1>1, <1>18, <2>9, <3>1, <3>2 DEF FreedNext, Freed, Terminal, Cancelled, ExecutionActive, ExecutionEnded
  <2> QED
    BY <2>0, <2>9
<1>19. ASSUME NEW r \in Runs, CleanupFinalized(r)
      PROVE  FreedNext(p)
  <2>0. CASE r # p
    BY <1>3, <1>19, <2>0, Scope DEF Cleanup, Finalization, Loop, Ending
  <2>9. CASE r = p
    BY <1>1, <1>19, <2>9 DEF CleanupFinalized, FreedNext, Freed, Terminal, Cancelled,
         ExecutionActive, ExecutionEnded, InHarness, Shape, Docs
  <2> QED
    BY <2>0, <2>9
<1>20. ASSUME NEW r \in Runs, CleanupSettles(r)
      PROVE  FreedNext(p)
  <2>0. CASE r # p
    BY <1>3, <1>20, <2>0, Scope DEF Cleanup, Finalization, Loop, Ending
  <2>9. CASE r = p
    BY <1>20, <2>9, SettleFreed DEF CleanupSettles, ExecTo, StaysOutside, Shape
  <2> QED
    BY <2>0, <2>9
<1>21. ASSUME NEW r \in Runs, CleanupActivates(r)
      PROVE  FreedNext(p)
  <2>0. CASE r # p
    BY <1>3, <1>21, <2>0, Scope DEF Cleanup, Finalization, Loop, Ending
  <2>9. CASE r = p
    BY <1>1, <1>21, <2>9 DEF CleanupActivates, RequestActivation, Idle, FreedNext, Freed,
         Terminal, Cancelled, ExecutionActive, ExecutionEnded, InHarness, Shape, Docs
  <2> QED
    BY <2>0, <2>9
<1>22. ASSUME NEW r \in Runs, RevokeSession(r)
      PROVE  FreedNext(p)
  <2>0. CASE r # p
    BY <1>3, <1>22, <2>0, Scope DEF Cleanup, Finalization, Loop, Ending
  <2>9. CASE r = p
    BY <1>1, <1>22, <2>9 DEF RevokeSession, FreedNext, Freed, Terminal, Cancelled,
         ExecutionActive, ExecutionEnded, InHarness, Shape, Docs
  <2> QED
    BY <2>0, <2>9
<1>23. ASSUME NEW r \in Runs, RevokeFails(r)
      PROVE  FreedNext(p)
  <2>0. CASE r # p
    BY <1>3, <1>23, <2>0, Scope DEF Cleanup, Finalization, Loop, Ending
  <2>9. CASE r = p
    BY <1>1, <1>23, <2>9 DEF RevokeFails, Fault, FreedNext, Freed, Terminal, Cancelled,
         ExecutionActive, ExecutionEnded, InHarness, Shape, Docs
  <2> QED
    BY <2>0, <2>9
<1>24. ASSUME NEW r \in Runs, CloseSession(r)
      PROVE  FreedNext(p)
  <2>0. CASE r # p
    BY <1>3, <1>24, <2>0, Scope DEF Cleanup, Finalization, Loop, Ending
  <2>9. CASE r = p
    BY <1>1, <1>24, <2>9 DEF CloseSession, FreedNext, Freed, Terminal, Cancelled,
         ExecutionActive, ExecutionEnded, InHarness, Shape, Docs
  <2> QED
    BY <2>0, <2>9
<1>25. ASSUME NEW r \in Runs, AcquireSession(r)
      PROVE  FreedNext(p)
  <2>0. CASE r # p
    BY <1>3, <1>25, <2>0, Scope DEF Cleanup, Finalization, Loop, Ending
  <2>9. CASE r = p
    BY <1>1, <1>25, <2>9 DEF AcquireSession, ExecTo, Reports, StaysOutside, FreedNext, Freed,
         Terminal, Cancelled, ExecutionActive, ExecutionEnded, InHarness, Shape, Docs
  <2> QED
    BY <2>0, <2>9
<1>26. ASSUME NEW r \in Runs, AcquireFails(r)
      PROVE  FreedNext(p)
  <2>0. CASE r # p
    BY <1>3, <1>26, <2>0, Scope DEF Cleanup, Finalization, Loop, Ending
  <2>9. CASE r = p
    BY <1>1, <1>26, <2>9 DEF AcquireFails, ExecTo, Reports, Fault, StaysOutside, FreedNext,
         Freed, Terminal, Cancelled, ExecutionActive, ExecutionEnded, InHarness, Shape, Docs
  <2> QED
    BY <2>0, <2>9
<1>27. ASSUME NEW r \in Runs, CaptureStartLeaf(r)
      PROVE  FreedNext(p)
  <2>0. CASE r # p
    BY <1>3, <1>27, <2>0, Scope DEF Cleanup, Finalization, Loop, Ending
  <2>9. CASE r = p
    <3>1. doc' = [doc EXCEPT ![r] = [doc[r] EXCEPT !.phase = "started", !.start = leaf]]
      BY <1>27, <2>9 DEF CaptureStartLeaf, Checkpoint
    <3>2. doc'[r].status = doc[r].status /\ doc'[r].round = doc[r].round
      BY <1>1, <1>27, <2>9, <3>1 DEF Shape, Docs, Snapshots
    <3> QED
      BY <1>27, <2>9, <3>2 DEF CaptureStartLeaf, Checkpoint, ExecTo, FreedNext, Freed, Terminal, Cancelled,
           ExecutionActive, ExecutionEnded, Shape
  <2> QED
    BY <2>0, <2>9
<1>28. ASSUME NEW r \in Runs, AppendInput(r)
      PROVE  FreedNext(p)
  <2>0. CASE r # p
    BY <1>3, <1>28, <2>0, Scope DEF Cleanup, Finalization, Loop, Ending
  <2>9. CASE r = p
    BY <1>1, <1>28, <2>9 DEF AppendInput, AppendEntry, ExecTo, MayWrite, StaysOutside,
         FreedNext, Freed, Terminal, Cancelled, ExecutionActive, ExecutionEnded, InHarness, Shape,
         Docs
  <2> QED
    BY <2>0, <2>9
<1>29. ASSUME NEW r \in Runs, CommitInput(r)
      PROVE  FreedNext(p)
  <2>0. CASE r # p
    BY <1>3, <1>29, <2>0, Scope DEF Cleanup, Finalization, Loop, Ending
  <2>9. CASE r = p
    BY <1>1, <1>29, <2>9 DEF CommitInput, Checkpoint, ExecTo, StaysOutside, FreedNext, Freed,
         Terminal, Cancelled, ExecutionActive, ExecutionEnded, InHarness, Shape, Docs
  <2> QED
    BY <2>0, <2>9
<1>30. ASSUME NEW r \in Runs, AppendCall(r)
      PROVE  FreedNext(p)
  <2>0. CASE r # p
    BY <1>3, <1>30, <2>0, Scope DEF Cleanup, Finalization, Loop, Ending
  <2>9. CASE r = p
    BY <1>1, <1>30, <2>9 DEF AppendCall, AppendEntry, ExecTo, MayWrite, StaysOutside,
         FreedNext, Freed, Terminal, Cancelled, ExecutionActive, ExecutionEnded, InHarness, Shape,
         Docs
  <2> QED
    BY <2>0, <2>9
<1>31. ASSUME NEW r \in Runs, CommitCall(r)
      PROVE  FreedNext(p)
  <2>0. CASE r # p
    BY <1>3, <1>31, <2>0, Scope DEF Cleanup, Finalization, Loop, Ending
  <2>9. CASE r = p
    BY <1>1, <1>31, <2>9 DEF CommitCall, Checkpoint, ExecTo, StaysOutside, FreedNext, Freed,
         Terminal, Cancelled, ExecutionActive, ExecutionEnded, InHarness, Shape, Docs
  <2> QED
    BY <2>0, <2>9
<1>32. ASSUME NEW r \in Runs, ToolReturns(r)
      PROVE  FreedNext(p)
  <2>0. CASE r # p
    BY <1>3, <1>32, <2>0, Scope DEF Cleanup, Finalization, Loop, Ending
  <2>9. CASE r = p
    BY <1>1, <1>32, <2>9 DEF ToolReturns, ExecTo, StaysOutside, FreedNext, Freed, Terminal,
         Cancelled, ExecutionActive, ExecutionEnded, InHarness, Shape, Docs
  <2> QED
    BY <2>0, <2>9
<1>33. ASSUME NEW r \in Runs, PersistToolResult(r)
      PROVE  FreedNext(p)
  <2>0. CASE r # p
    BY <1>3, <1>33, <2>0, Scope DEF Cleanup, Finalization, Loop, Ending
  <2>9. CASE r = p
    BY <1>1, <1>33, <2>9 DEF PersistToolResult, ExecTo, StaysOutside, FreedNext, Freed,
         Terminal, Cancelled, ExecutionActive, ExecutionEnded, InHarness, Shape, Docs
  <2> QED
    BY <2>0, <2>9
<1>34. ASSUME NEW r \in Runs, PersistToolResultFails(r)
      PROVE  FreedNext(p)
  <2>0. CASE r # p
    BY <1>3, <1>34, <2>0, Scope DEF Cleanup, Finalization, Loop, Ending
  <2>9. CASE r = p
    BY <1>1, <1>34, <2>9 DEF PersistToolResultFails, ExecTo, Reports, Fault, StaysOutside,
         FreedNext, Freed, Terminal, Cancelled, ExecutionActive, ExecutionEnded, InHarness, Shape,
         Docs
  <2> QED
    BY <2>0, <2>9
<1>35. ASSUME NEW r \in Runs, AppendResults(r)
      PROVE  FreedNext(p)
  <2>0. CASE r # p
    BY <1>3, <1>35, <2>0, Scope DEF Cleanup, Finalization, Loop, Ending
  <2>9. CASE r = p
    BY <1>1, <1>35, <2>9 DEF AppendResults, AppendEntry, ExecTo, MayWrite, StaysOutside,
         FreedNext, Freed, Terminal, Cancelled, ExecutionActive, ExecutionEnded, InHarness, Shape,
         Docs
  <2> QED
    BY <2>0, <2>9
<1>36. ASSUME NEW r \in Runs, CommitRound(r)
      PROVE  FreedNext(p)
  <2>0. CASE r # p
    BY <1>3, <1>36, <2>0, Scope DEF Cleanup, Finalization, Loop, Ending
  <2>9. CASE r = p
    BY <1>1, <1>36, <2>9 DEF CommitRound, Checkpoint, ExecTo, StaysOutside, FreedNext, Freed,
         Terminal, Cancelled, ExecutionActive, ExecutionEnded, InHarness, Shape, Docs
  <2> QED
    BY <2>0, <2>9
<1>37. ASSUME NEW r \in Runs, AppendAnswer(r)
      PROVE  FreedNext(p)
  <2>0. CASE r # p
    BY <1>3, <1>37, <2>0, Scope DEF Cleanup, Finalization, Loop, Ending
  <2>9. CASE r = p
    BY <1>1, <1>37, <2>9 DEF AppendAnswer, AppendEntry, ExecTo, MayWrite, StaysOutside,
         FreedNext, Freed, Terminal, Cancelled, ExecutionActive, ExecutionEnded, InHarness, Shape,
         Docs
  <2> QED
    BY <2>0, <2>9
<1>38. ASSUME NEW r \in Runs, CommitAnswer(r)
      PROVE  FreedNext(p)
  <2>0. CASE r # p
    BY <1>3, <1>38, <2>0, Scope DEF Cleanup, Finalization, Loop, Ending
  <2>9. CASE r = p
    BY <1>1, <1>38, <2>9 DEF CommitAnswer, Checkpoint, ExecTo, StaysOutside, Reports,
         FreedNext, Freed, Terminal, Cancelled, ExecutionActive, ExecutionEnded, InHarness, Shape,
         Docs
  <2> QED
    BY <2>0, <2>9
<1>39. ASSUME NEW r \in Runs, AnswerIsRefused(r)
      PROVE  FreedNext(p)
  <2>0. CASE r # p
    BY <1>3, <1>39, <2>0, Scope DEF Cleanup, Finalization, Loop, Ending
  <2>9. CASE r = p
    BY <1>1, <1>39, <2>9 DEF AnswerIsRefused, Reports, Fault, StaysOutside, FreedNext, Freed,
         Terminal, Cancelled, ExecutionActive, ExecutionEnded, InHarness, Shape, Docs
  <2> QED
    BY <2>0, <2>9
<1>40. ASSUME NEW r \in Runs, CheckpointFails(r)
      PROVE  FreedNext(p)
  <2>0. CASE r # p
    BY <1>3, <1>40, <2>0, Scope DEF Cleanup, Finalization, Loop, Ending
  <2>9. CASE r = p
    BY <1>1, <1>40, <2>9 DEF CheckpointFails, ExecTo, Reports, Fault, StaysOutside, FreedNext,
         Freed, Terminal, Cancelled, ExecutionActive, ExecutionEnded, InHarness, Shape, Docs
  <2> QED
    BY <2>0, <2>9
<1>41. ASSUME NEW r \in Runs, HarnessStops(r)
      PROVE  FreedNext(p)
  <2>0. CASE r # p
    BY <1>3, <1>41, <2>0, Scope DEF Cleanup, Finalization, Loop, Ending
  <2>9. CASE r = p
    BY <1>1, <1>41, <2>9 DEF HarnessStops, ExecTo, Reports, Fault, StaysOutside, FreedNext,
         Freed, Terminal, Cancelled, ExecutionActive, ExecutionEnded, InHarness, Shape, Docs
  <2> QED
    BY <2>0, <2>9
<1>42. ASSUME NEW r \in Runs, ApplyOutcome(r)
      PROVE  FreedNext(p)
  <2>0. CASE r # p
    BY <1>3, <1>42, <2>0, Scope DEF Cleanup, Finalization, Loop, Ending
  <2>9. CASE r = p
    BY <1>1, <1>42, <2>9 DEF ApplyOutcome, ExecTo, StaysOutside, FreedNext, Freed, Terminal,
         Cancelled, ExecutionActive, ExecutionEnded, InHarness, Shape, Docs
  <2> QED
    BY <2>0, <2>9
<1>43. ASSUME NEW r \in Runs, CommitOutcome(r)
      PROVE  FreedNext(p)
  <2>0. CASE r # p
    BY <1>3, <1>43, <2>0, Scope DEF Cleanup, Finalization, Loop, Ending
  <2>9. CASE r = p
    BY <1>1, <1>43, <2>9 DEF CommitOutcome, ExecTo, FreedNext, Freed, Terminal, Cancelled,
         ExecutionActive, ExecutionEnded, InHarness, Shape, Docs
  <2> QED
    BY <2>0, <2>9
<1>44. ASSUME NEW r \in Runs, CommitFails(r)
      PROVE  FreedNext(p)
  <2>0. CASE r # p
    BY <1>3, <1>44, <2>0, Scope DEF Cleanup, Finalization, Loop, Ending
  <2>9. CASE r = p
    BY <1>1, <1>44, <2>9 DEF CommitFails, ExecTo, FreedNext, Freed, Terminal, Cancelled,
         ExecutionActive, ExecutionEnded, InHarness, Shape, Docs
  <2> QED
    BY <2>0, <2>9
<1>45. ASSUME NEW r \in Runs, Recommit(r)
      PROVE  FreedNext(p)
  <2>0. CASE r # p
    BY <1>3, <1>45, <2>0, Scope DEF Cleanup, Finalization, Loop, Ending
  <2>9. CASE r = p
    BY <1>1, <1>45, <2>9 DEF Recommit, ExecTo, FreedNext, Freed, Terminal, Cancelled, ExecutionActive,
         ExecutionEnded, InHarness, Shape, Docs
  <2> QED
    BY <2>0, <2>9
<1>46. ASSUME NEW r \in Runs, RecommitFails(r)
      PROVE  FreedNext(p)
  <2>0. CASE r # p
    BY <1>3, <1>46, <2>0, Scope DEF Cleanup, Finalization, Loop, Ending
  <2>9. CASE r = p
    BY <1>1, <1>46, <2>9 DEF RecommitFails, ExecTo, Fault, StaysOutside, FreedNext, Freed,
         Terminal, Cancelled, ExecutionActive, ExecutionEnded, InHarness, Shape, Docs
  <2> QED
    BY <2>0, <2>9
<1>47. ASSUME NEW r \in Runs, ExecutionFinalized(r)
      PROVE  FreedNext(p)
  <2>0. CASE r # p
    BY <1>3, <1>47, <2>0, Scope DEF Cleanup, Finalization, Loop, Ending
  <2>9. CASE r = p
    BY <1>1, <1>47, <2>9 DEF ExecutionFinalized, ExecTo, StaysOutside, FreedNext, Freed,
         Terminal, Cancelled, ExecutionActive, ExecutionEnded, InHarness, Shape, Docs
  <2> QED
    BY <2>0, <2>9
<1>48. ASSUME NEW r \in Runs, ExecutionActivates(r)
      PROVE  FreedNext(p)
  <2>0. CASE r # p
    BY <1>3, <1>48, <2>0, Scope DEF Cleanup, Finalization, Loop, Ending
  <2>9. CASE r = p
    BY <1>1, <1>48, <2>9 DEF ExecutionActivates, ExecTo, RequestActivation, Idle, FreedNext,
         Freed, Terminal, Cancelled, ExecutionActive, ExecutionEnded, InHarness, Shape, Docs
  <2> QED
    BY <2>0, <2>9
<1>49. ASSUME NEW r \in Runs, ExecutionSettles(r)
      PROVE  FreedNext(p)
  <2>0. CASE r # p
    BY <1>3, <1>49, <2>0, Scope DEF Cleanup, Finalization, Loop, Ending
  <2>9. CASE r = p
    BY <1>49, <2>9, SettleFreed DEF ExecutionSettles, ExecTo, StaysOutside, Shape
  <2> QED
    BY <2>0, <2>9
<1>50. ASSUME NEW r \in Runs, ExecutionPosts(r)
      PROVE  FreedNext(p)
  <2>0. CASE r # p
    BY <1>3, <1>50, <2>0, Scope DEF Cleanup, Finalization, Loop, Ending
  <2>9. CASE r = p
    BY <1>1, <1>50, <2>9 DEF ExecutionPosts, ExecTo, RequestActivation, Idle, FreedNext,
         Freed, Terminal, Cancelled, ExecutionActive, ExecutionEnded, InHarness, Shape, Docs
  <2> QED
    BY <2>0, <2>9
<1>51. CASE UNCHANGED vars
  BY <1>2, <1>51 DEF vars, Keeps
<1> QED
  BY <1>5, <1>6, <1>7, <1>8, <1>9, <1>10, <1>11, <1>12, <1>13, <1>14, <1>15, <1>16, <1>17,
       <1>18, <1>19, <1>20, <1>21, <1>22, <1>23, <1>24, <1>25, <1>26, <1>27, <1>28, <1>29, <1>30,
       <1>31, <1>32, <1>33, <1>34, <1>35, <1>36, <1>37, <1>38, <1>39, <1>40, <1>41, <1>42, <1>43,
       <1>44, <1>45, <1>46, <1>47, <1>48, <1>49, <1>50, <1>51 DEF Next, Submission, Activation,
       Cleanup, Finalization, Loop, Ending

\* Where the submission and the activation go, apart from their own steps.
SubmissionMoves ==
  \/ SubmitTurn \/ SubmissionReads \/ SubmissionPublishes
  \/ submission' \in {submission, NoSubmission}
ActivationMoves ==
  \/ ActivationReads \/ ActivationLocks \/ ActivationRereads
  \/ activation' \in {activation, Idle}
  \/ activation'.pc = "reading" /\ activation'.docs = doc'

\* Every step either leaves the submission alone or is one of its own.
LEMMA SubmissionMovesStep ==
  ASSUME [Next]_vars
  PROVE  SubmissionMoves
<1>1. CASE SubmitTurn
  BY <1>1 DEF SubmitTurn, NoSubmission, SubmissionMoves
<1>2. CASE SubmissionReads
  BY <1>2 DEF SubmissionReads, NoSubmission, SubmissionMoves
<1>3. CASE SubmissionPublishes
  BY <1>3 DEF SubmissionPublishes, RequestActivation, NoSubmission, Idle, SubmissionMoves
<1>4. CASE SubmissionFails
  BY <1>4 DEF SubmissionFails, Fault, NoSubmission, SubmissionMoves
<1>5. CASE FirstTurnStarts
  BY <1>5 DEF FirstTurnStarts, Started, ControlCreated, NoSubmission, SubmissionMoves
<1>6. CASE FirstTurnStays
  BY <1>6 DEF FirstTurnStays, Fault, RequestActivation, NoSubmission, Idle, SubmissionMoves
<1>7. CASE ActivationReads
  BY <1>7 DEF ActivationReads, FinishActivation, FinalizeSession, Idle, SubmissionMoves
<1>8. CASE ActivationSettles
  BY <1>8 DEF ActivationSettles, SettleExecution, SettlementFails, FinishActivation, Fault,
       SubmissionMoves
<1>9. CASE ActivationRetried
  BY <1>9 DEF ActivationRetried, FinishActivation, SubmissionMoves
<1>10. CASE ActivationLocks
  BY <1>10 DEF ActivationLocks, FinishActivation, SubmissionMoves
<1>11. CASE ActivationRereads
  BY <1>11 DEF ActivationRereads, FinishActivation, Idle, SubmissionMoves
<1>12. CASE ActivationStarts
  BY <1>12 DEF ActivationStarts, FinishActivation, Started, ControlCreated, SubmissionMoves
<1>13. CASE ActivationFails
  BY <1>13 DEF ActivationFails, FinishActivation, Fault, SubmissionMoves
<1>14. ASSUME NEW r \in Runs, Cancel(r)
      PROVE  SubmissionMoves
  BY <1>14 DEF Cancel, CancelledDoc, FinalizeSession, SubmissionMoves
<1>15. ASSUME NEW r \in Runs, CleanupFinalized(r)
      PROVE  SubmissionMoves
  BY <1>15 DEF CleanupFinalized, SubmissionMoves
<1>16. ASSUME NEW r \in Runs, CleanupSettles(r)
      PROVE  SubmissionMoves
  BY <1>16 DEF CleanupSettles, SettleExecution, SettlementFails, Fault, SubmissionMoves
<1>17. ASSUME NEW r \in Runs, CleanupActivates(r)
      PROVE  SubmissionMoves
  BY <1>17 DEF CleanupActivates, RequestActivation, Idle, SubmissionMoves
<1>18. ASSUME NEW r \in Runs, RevokeSession(r)
      PROVE  SubmissionMoves
  BY <1>18 DEF RevokeSession, SubmissionMoves
<1>19. ASSUME NEW r \in Runs, RevokeFails(r)
      PROVE  SubmissionMoves
  BY <1>19 DEF RevokeFails, Fault, SubmissionMoves
<1>20. ASSUME NEW r \in Runs, CloseSession(r)
      PROVE  SubmissionMoves
  BY <1>20 DEF CloseSession, SubmissionMoves
<1>21. ASSUME NEW r \in Runs, AcquireSession(r)
      PROVE  SubmissionMoves
  BY <1>21 DEF AcquireSession, ExecTo, Reports, StaysOutside, SubmissionMoves
<1>22. ASSUME NEW r \in Runs, AcquireFails(r)
      PROVE  SubmissionMoves
  BY <1>22 DEF AcquireFails, ExecTo, Reports, Fault, StaysOutside, SubmissionMoves
<1>23. ASSUME NEW r \in Runs, CaptureStartLeaf(r)
      PROVE  SubmissionMoves
  BY <1>23 DEF CaptureStartLeaf, Checkpoint, ExecTo, StaysOutside, SubmissionMoves
<1>24. ASSUME NEW r \in Runs, AppendInput(r)
      PROVE  SubmissionMoves
  BY <1>24 DEF AppendInput, AppendEntry, ExecTo, MayWrite, StaysOutside, SubmissionMoves
<1>25. ASSUME NEW r \in Runs, CommitInput(r)
      PROVE  SubmissionMoves
  BY <1>25 DEF CommitInput, Checkpoint, ExecTo, StaysOutside, SubmissionMoves
<1>26. ASSUME NEW r \in Runs, AppendCall(r)
      PROVE  SubmissionMoves
  BY <1>26 DEF AppendCall, AppendEntry, ExecTo, MayWrite, StaysOutside, SubmissionMoves
<1>27. ASSUME NEW r \in Runs, CommitCall(r)
      PROVE  SubmissionMoves
  BY <1>27 DEF CommitCall, Checkpoint, ExecTo, StaysOutside, SubmissionMoves
<1>28. ASSUME NEW r \in Runs, ToolReturns(r)
      PROVE  SubmissionMoves
  BY <1>28 DEF ToolReturns, ExecTo, StaysOutside, SubmissionMoves
<1>29. ASSUME NEW r \in Runs, PersistToolResult(r)
      PROVE  SubmissionMoves
  BY <1>29 DEF PersistToolResult, ExecTo, StaysOutside, SubmissionMoves
<1>30. ASSUME NEW r \in Runs, PersistToolResultFails(r)
      PROVE  SubmissionMoves
  BY <1>30 DEF PersistToolResultFails, ExecTo, Reports, Fault, StaysOutside, SubmissionMoves
<1>31. ASSUME NEW r \in Runs, AppendResults(r)
      PROVE  SubmissionMoves
  BY <1>31 DEF AppendResults, AppendEntry, ExecTo, MayWrite, StaysOutside, SubmissionMoves
<1>32. ASSUME NEW r \in Runs, CommitRound(r)
      PROVE  SubmissionMoves
  BY <1>32 DEF CommitRound, Checkpoint, ExecTo, StaysOutside, SubmissionMoves
<1>33. ASSUME NEW r \in Runs, AppendAnswer(r)
      PROVE  SubmissionMoves
  BY <1>33 DEF AppendAnswer, AppendEntry, ExecTo, MayWrite, StaysOutside, SubmissionMoves
<1>34. ASSUME NEW r \in Runs, CommitAnswer(r)
      PROVE  SubmissionMoves
  BY <1>34 DEF CommitAnswer, Checkpoint, ExecTo, StaysOutside, Reports, SubmissionMoves
<1>35. ASSUME NEW r \in Runs, AnswerIsRefused(r)
      PROVE  SubmissionMoves
  BY <1>35 DEF AnswerIsRefused, Reports, Fault, StaysOutside, SubmissionMoves
<1>36. ASSUME NEW r \in Runs, CheckpointFails(r)
      PROVE  SubmissionMoves
  BY <1>36 DEF CheckpointFails, ExecTo, Reports, Fault, StaysOutside, SubmissionMoves
<1>37. ASSUME NEW r \in Runs, HarnessStops(r)
      PROVE  SubmissionMoves
  BY <1>37 DEF HarnessStops, ExecTo, Reports, Fault, StaysOutside, SubmissionMoves
<1>38. ASSUME NEW r \in Runs, ApplyOutcome(r)
      PROVE  SubmissionMoves
  BY <1>38 DEF ApplyOutcome, ExecTo, StaysOutside, SubmissionMoves
<1>39. ASSUME NEW r \in Runs, CommitOutcome(r)
      PROVE  SubmissionMoves
  BY <1>39 DEF CommitOutcome, CommitAs, FinalizeSession, ExecTo, StaysOutside,
       SubmissionMoves
<1>40. ASSUME NEW r \in Runs, CommitFails(r)
      PROVE  SubmissionMoves
  BY <1>40 DEF CommitFails, CommitAs, FinalizeSession, ExecTo, Fault, StaysOutside,
       SubmissionMoves
<1>41. ASSUME NEW r \in Runs, Recommit(r)
      PROVE  SubmissionMoves
  BY <1>41 DEF Recommit, CommitAs, FinalizeSession, ExecTo, StaysOutside, SubmissionMoves
<1>42. ASSUME NEW r \in Runs, RecommitFails(r)
      PROVE  SubmissionMoves
  BY <1>42 DEF RecommitFails, ExecTo, Fault, StaysOutside, SubmissionMoves
<1>43. ASSUME NEW r \in Runs, ExecutionFinalized(r)
      PROVE  SubmissionMoves
  BY <1>43 DEF ExecutionFinalized, ExecTo, StaysOutside, SubmissionMoves
<1>44. ASSUME NEW r \in Runs, ExecutionActivates(r)
      PROVE  SubmissionMoves
  BY <1>44 DEF ExecutionActivates, ExecTo, RequestActivation, Idle, SubmissionMoves
<1>45. ASSUME NEW r \in Runs, ExecutionSettles(r)
      PROVE  SubmissionMoves
  BY <1>45 DEF ExecutionSettles, SettleExecution, SettlementFails, Fault, ExecTo,
       StaysOutside, SubmissionMoves
<1>46. ASSUME NEW r \in Runs, ExecutionPosts(r)
      PROVE  SubmissionMoves
  BY <1>46 DEF ExecutionPosts, ExecTo, RequestActivation, Idle, SubmissionMoves
<1>47. CASE UNCHANGED vars
  BY <1>47 DEF vars, SubmissionMoves
<1> QED
  BY <1>1, <1>2, <1>3, <1>4, <1>5, <1>6, <1>7, <1>8, <1>9, <1>10, <1>11, <1>12, <1>13,
       <1>14, <1>15, <1>16, <1>17, <1>18, <1>19, <1>20, <1>21, <1>22, <1>23, <1>24, <1>25, <1>26,
       <1>27, <1>28, <1>29, <1>30, <1>31, <1>32, <1>33, <1>34, <1>35, <1>36, <1>37, <1>38, <1>39,
       <1>40, <1>41, <1>42, <1>43, <1>44, <1>45, <1>46, <1>47 DEF Next, Submission, Activation,
       Cleanup, Finalization, Loop, Ending

\* Requesting an activation captures the documents of that moment.
LEMMA RequestMoves ==
  ASSUME Shape, RequestActivation(doc')
  PROVE  ActivationMoves
<1>1. Idle.pc = "idle" /\ [Idle EXCEPT !.pc = "reading", !.docs = doc'].pc = "reading"
      /\ [Idle EXCEPT !.pc = "reading", !.docs = doc'].docs = doc'
  BY DEF Idle
<1> QED
  BY <1>1 DEF RequestActivation, ActivationMoves

\* Every step either leaves the activation alone or is one of its own.
LEMMA ActivationMovesStep ==
  ASSUME Shape, [Next]_vars
  PROVE  ActivationMoves
<1> DEFINE again == [activation EXCEPT !.pc = "reading", !.docs = doc']
<1>0. again.pc = "reading" /\ again.docs = doc'
  BY DEF Shape, Activations
<1> HIDE DEF again
<1>1. CASE SubmitTurn
  BY <1>1 DEF SubmitTurn, NoSubmission, ActivationMoves
<1>2. CASE SubmissionReads
  BY <1>2 DEF SubmissionReads, NoSubmission, ActivationMoves
<1>3. CASE SubmissionPublishes
  BY <1>3, RequestMoves DEF SubmissionPublishes, ActivationMoves
<1>4. CASE SubmissionFails
  BY <1>4 DEF SubmissionFails, Fault, NoSubmission, ActivationMoves
<1>5. CASE FirstTurnStarts
  BY <1>5 DEF FirstTurnStarts, Started, ControlCreated, NoSubmission, ActivationMoves
<1>6. CASE FirstTurnStays
  BY <1>6, RequestMoves DEF FirstTurnStays
<1>7. CASE ActivationReads
  BY <1>7 DEF ActivationReads, FinishActivation, FinalizeSession, Idle, ActivationMoves
<1>8. CASE ActivationSettles
  BY <1>0, <1>8 DEF ActivationSettles, FinishActivation, ActivationMoves, again
<1>9. CASE ActivationRetried
  BY <1>0, <1>9 DEF ActivationRetried, FinishActivation, ActivationMoves, again
<1>10. CASE ActivationLocks
  BY <1>10 DEF ActivationLocks, FinishActivation, ActivationMoves
<1>11. CASE ActivationRereads
  BY <1>11 DEF ActivationRereads, FinishActivation, Idle, ActivationMoves
<1>12. CASE ActivationStarts
  BY <1>12 DEF ActivationStarts, FinishActivation, Started, ControlCreated, ActivationMoves
<1>13. CASE ActivationFails
  BY <1>13 DEF ActivationFails, FinishActivation, Fault, ActivationMoves
<1>14. ASSUME NEW r \in Runs, Cancel(r)
      PROVE  ActivationMoves
  BY <1>14 DEF Cancel, CancelledDoc, FinalizeSession, ActivationMoves
<1>15. ASSUME NEW r \in Runs, CleanupFinalized(r)
      PROVE  ActivationMoves
  BY <1>15 DEF CleanupFinalized, ActivationMoves
<1>16. ASSUME NEW r \in Runs, CleanupSettles(r)
      PROVE  ActivationMoves
  BY <1>16 DEF CleanupSettles, SettleExecution, SettlementFails, Fault, ActivationMoves
<1>17. ASSUME NEW r \in Runs, CleanupActivates(r)
      PROVE  ActivationMoves
  BY <1>17, RequestMoves DEF CleanupActivates
<1>18. ASSUME NEW r \in Runs, RevokeSession(r)
      PROVE  ActivationMoves
  BY <1>18 DEF RevokeSession, ActivationMoves
<1>19. ASSUME NEW r \in Runs, RevokeFails(r)
      PROVE  ActivationMoves
  BY <1>19 DEF RevokeFails, Fault, ActivationMoves
<1>20. ASSUME NEW r \in Runs, CloseSession(r)
      PROVE  ActivationMoves
  BY <1>20 DEF CloseSession, ActivationMoves
<1>21. ASSUME NEW r \in Runs, AcquireSession(r)
      PROVE  ActivationMoves
  BY <1>21 DEF AcquireSession, ExecTo, Reports, StaysOutside, ActivationMoves
<1>22. ASSUME NEW r \in Runs, AcquireFails(r)
      PROVE  ActivationMoves
  BY <1>22 DEF AcquireFails, ExecTo, Reports, Fault, StaysOutside, ActivationMoves
<1>23. ASSUME NEW r \in Runs, CaptureStartLeaf(r)
      PROVE  ActivationMoves
  BY <1>23 DEF CaptureStartLeaf, Checkpoint, ExecTo, StaysOutside, ActivationMoves
<1>24. ASSUME NEW r \in Runs, AppendInput(r)
      PROVE  ActivationMoves
  BY <1>24 DEF AppendInput, AppendEntry, ExecTo, MayWrite, StaysOutside, ActivationMoves
<1>25. ASSUME NEW r \in Runs, CommitInput(r)
      PROVE  ActivationMoves
  BY <1>25 DEF CommitInput, Checkpoint, ExecTo, StaysOutside, ActivationMoves
<1>26. ASSUME NEW r \in Runs, AppendCall(r)
      PROVE  ActivationMoves
  BY <1>26 DEF AppendCall, AppendEntry, ExecTo, MayWrite, StaysOutside, ActivationMoves
<1>27. ASSUME NEW r \in Runs, CommitCall(r)
      PROVE  ActivationMoves
  BY <1>27 DEF CommitCall, Checkpoint, ExecTo, StaysOutside, ActivationMoves
<1>28. ASSUME NEW r \in Runs, ToolReturns(r)
      PROVE  ActivationMoves
  BY <1>28 DEF ToolReturns, ExecTo, StaysOutside, ActivationMoves
<1>29. ASSUME NEW r \in Runs, PersistToolResult(r)
      PROVE  ActivationMoves
  BY <1>29 DEF PersistToolResult, ExecTo, StaysOutside, ActivationMoves
<1>30. ASSUME NEW r \in Runs, PersistToolResultFails(r)
      PROVE  ActivationMoves
  BY <1>30 DEF PersistToolResultFails, ExecTo, Reports, Fault, StaysOutside, ActivationMoves
<1>31. ASSUME NEW r \in Runs, AppendResults(r)
      PROVE  ActivationMoves
  BY <1>31 DEF AppendResults, AppendEntry, ExecTo, MayWrite, StaysOutside, ActivationMoves
<1>32. ASSUME NEW r \in Runs, CommitRound(r)
      PROVE  ActivationMoves
  BY <1>32 DEF CommitRound, Checkpoint, ExecTo, StaysOutside, ActivationMoves
<1>33. ASSUME NEW r \in Runs, AppendAnswer(r)
      PROVE  ActivationMoves
  BY <1>33 DEF AppendAnswer, AppendEntry, ExecTo, MayWrite, StaysOutside, ActivationMoves
<1>34. ASSUME NEW r \in Runs, CommitAnswer(r)
      PROVE  ActivationMoves
  BY <1>34 DEF CommitAnswer, Checkpoint, ExecTo, StaysOutside, Reports, ActivationMoves
<1>35. ASSUME NEW r \in Runs, AnswerIsRefused(r)
      PROVE  ActivationMoves
  BY <1>35 DEF AnswerIsRefused, Reports, Fault, StaysOutside, ActivationMoves
<1>36. ASSUME NEW r \in Runs, CheckpointFails(r)
      PROVE  ActivationMoves
  BY <1>36 DEF CheckpointFails, ExecTo, Reports, Fault, StaysOutside, ActivationMoves
<1>37. ASSUME NEW r \in Runs, HarnessStops(r)
      PROVE  ActivationMoves
  BY <1>37 DEF HarnessStops, ExecTo, Reports, Fault, StaysOutside, ActivationMoves
<1>38. ASSUME NEW r \in Runs, ApplyOutcome(r)
      PROVE  ActivationMoves
  BY <1>38 DEF ApplyOutcome, ExecTo, StaysOutside, ActivationMoves
<1>39. ASSUME NEW r \in Runs, CommitOutcome(r)
      PROVE  ActivationMoves
  BY <1>39 DEF CommitOutcome, CommitAs, FinalizeSession, ExecTo, StaysOutside,
       ActivationMoves
<1>40. ASSUME NEW r \in Runs, CommitFails(r)
      PROVE  ActivationMoves
  BY <1>40 DEF CommitFails, CommitAs, FinalizeSession, ExecTo, Fault, StaysOutside,
       ActivationMoves
<1>41. ASSUME NEW r \in Runs, Recommit(r)
      PROVE  ActivationMoves
  BY <1>41 DEF Recommit, CommitAs, FinalizeSession, ExecTo, StaysOutside, ActivationMoves
<1>42. ASSUME NEW r \in Runs, RecommitFails(r)
      PROVE  ActivationMoves
  BY <1>42 DEF RecommitFails, ExecTo, Fault, StaysOutside, ActivationMoves
<1>43. ASSUME NEW r \in Runs, ExecutionFinalized(r)
      PROVE  ActivationMoves
  BY <1>43 DEF ExecutionFinalized, ExecTo, StaysOutside, ActivationMoves
<1>44. ASSUME NEW r \in Runs, ExecutionActivates(r)
      PROVE  ActivationMoves
  BY <1>44, RequestMoves DEF ExecutionActivates
<1>45. ASSUME NEW r \in Runs, ExecutionSettles(r)
      PROVE  ActivationMoves
  BY <1>45 DEF ExecutionSettles, SettleExecution, SettlementFails, Fault, ExecTo,
       StaysOutside, ActivationMoves
<1>46. ASSUME NEW r \in Runs, ExecutionPosts(r)
      PROVE  ActivationMoves
  BY <1>46, RequestMoves DEF ExecutionPosts
<1>47. CASE UNCHANGED vars
  BY <1>47 DEF vars, ActivationMoves
<1> QED
  BY <1>1, <1>2, <1>3, <1>4, <1>5, <1>6, <1>7, <1>8, <1>9, <1>10, <1>11, <1>12, <1>13,
       <1>14, <1>15, <1>16, <1>17, <1>18, <1>19, <1>20, <1>21, <1>22, <1>23, <1>24, <1>25, <1>26,
       <1>27, <1>28, <1>29, <1>30, <1>31, <1>32, <1>33, <1>34, <1>35, <1>36, <1>37, <1>38, <1>39,
       <1>40, <1>41, <1>42, <1>43, <1>44, <1>45, <1>46, <1>47 DEF Next, Submission, Activation,
       Cleanup, Finalization, Loop, Ending

\* What the activation goes on with was read from the documents it captured.
ClearedIn(docs, r) ==
  docs[r].pred # NoRun =>
    BarrierCleared(docs[docs[r].pred], Facts[docs[r].pred])
AfterReading ==
  /\ activation'.docs = NoDocs
  /\ \/ activation'.pc = "idle"
     \/ /\ activation'.pc = "locking" /\ activation'.run \in Runs
        /\ activation.docs[activation'.run].status = "queued"
        /\ ClearedIn(activation.docs, activation'.run)
     \/ /\ activation'.pc \in {"settling", "retrying"} /\ activation'.run \in Runs
        /\ Terminal(activation.docs[activation'.run])
AfterRereading ==
  /\ activation'.docs = NoDocs
  /\ \/ activation'.pc = "idle"
     \/ /\ activation'.pc = "starting" /\ activation'.run = activation.run
        /\ ClearedIn(activation.docs, activation.run)

\* What the first read of an activation decides, by the documents it captured.
LEMMA ReadsMoves ==
  ASSUME Shape, ActivationReads
  PROVE  AfterReading
<1> DEFINE docs == activation.docs
           runs == Visible(docs, Branch)
           r == NextEligibleQueued(runs, docs, Facts)
           unsettled == SettlementBlocker(runs, docs)
           unfinalized == FinalizationBlocker(runs, docs)
<1>0. Branch \in Seq(Entries)
  BY BranchType
<1>1. \/ FinishActivation(exec)
      \/ /\ r # NoRun /\ PredecessorCleared(r, runs, docs)
         /\ activation' = [Idle EXCEPT !.pc = "locking", !.run = r, !.tried = "nothing"]
      \/ /\ unsettled # NoRun
         /\ activation' = [Idle EXCEPT !.pc = "settling", !.run = unsettled, !.tried = "settlement"]
      \/ /\ unfinalized # NoRun
         /\ activation' = [Idle EXCEPT !.pc = "retrying", !.run = unfinalized, !.tried = "finalization"]
  BY DEF ActivationReads
<1>2. CASE FinishActivation(exec)
  BY <1>2 DEF FinishActivation, Idle, AfterReading
<1>3. CASE /\ r # NoRun /\ PredecessorCleared(r, runs, docs)
           /\ activation' = [Idle EXCEPT !.pc = "locking", !.run = r, !.tried = "nothing"]
  <2>1. PICK q : q = r
    OBVIOUS
  <2>2. q \in Runs /\ docs[q].status = "queued"
    BY <1>0, <1>3, <2>1, Candidate
  <2>3. ClearedIn(docs, q)
    BY <1>3, <2>1 DEF PredecessorCleared, ClearedIn
  <2>4. activation'.pc = "locking" /\ activation'.run = q /\ activation'.docs = NoDocs
    BY <1>3, <2>1 DEF Idle
  <2> QED
    BY <2>2, <2>3, <2>4 DEF AfterReading
<1>4. CASE /\ unsettled # NoRun
           /\ activation' = [Idle EXCEPT !.pc = "settling", !.run = unsettled, !.tried = "settlement"]
  <2>1. PICK q : q = unsettled
    OBVIOUS
  <2>2. q \in Runs /\ Terminal(docs[q])
    BY <1>0, <1>4, <2>1, UnsettledRun
  <2>3. activation'.pc = "settling" /\ activation'.run = q /\ activation'.docs = NoDocs
    BY <1>4, <2>1 DEF Idle
  <2> QED
    BY <2>2, <2>3 DEF AfterReading
<1>5. CASE /\ unfinalized # NoRun
           /\ activation' = [Idle EXCEPT !.pc = "retrying", !.run = unfinalized, !.tried = "finalization"]
  <2>1. PICK q : q = unfinalized
    OBVIOUS
  <2>2. q \in Runs /\ Terminal(docs[q])
    BY <1>0, <1>5, <2>1, UnfinalizedRun
  <2>3. activation'.pc = "retrying" /\ activation'.run = q /\ activation'.docs = NoDocs
    BY <1>5, <2>1 DEF Idle
  <2> QED
    BY <2>2, <2>3 DEF AfterReading
<1> QED
  BY <1>1, <1>2, <1>3, <1>4, <1>5

\* What the second read, with the candidate locked, decides.
LEMMA RereadsMoves ==
  ASSUME Shape, ActivationRereads
  PROVE  AfterRereading
<1>1. CASE FinishActivation(exec)
  BY <1>1 DEF FinishActivation, Idle, AfterRereading
<1>2. CASE /\ activation' = [Idle EXCEPT !.pc = "starting", !.run = activation.run]
           /\ PredecessorCleared(activation.run, Visible(activation.docs, Branch), activation.docs)
  <2>1. ClearedIn(activation.docs, activation.run)
    BY <1>2 DEF PredecessorCleared, ClearedIn
  <2>2. activation'.pc = "starting" /\ activation'.run = activation.run /\ activation'.docs = NoDocs
    BY <1>2 DEF Idle
  <2> QED
    BY <2>1, <2>2 DEF AfterRereading
<1> QED
  BY <1>1, <1>2 DEF ActivationRereads

\* A task begins to run only with its turn.
Wakes ==
  \A r \in Runs : exec[r] = "idle" /\ exec'[r] # "idle" =>
    doc[r].status = "queued" /\ doc'[r].status = "running"

\* A step of one run that was already executing wakes no other.
LEMMA WakesOnly ==
  ASSUME NEW r \in Runs, Only(r), exec[r] # "idle" \/ exec'[r] = "idle"
  PROVE  Wakes
BY DEF Wakes, Only, Keeps

\* Every step that sets a task going starts its turn, or its settlement.
LEMMA WakesStep ==
  ASSUME Shape, Admits, [Next]_vars
  PROVE  Wakes
<1>0. ASSUME NEW E, \A q \in Runs : E[q] = exec[q], FinishActivation(E)
      PROVE  Wakes
  BY <1>0 DEF FinishActivation, Wakes, Shape
<1>1. CASE SubmitTurn
  BY <1>1 DEF SubmitTurn, NoSubmission, Wakes
<1>2. CASE SubmissionReads
  BY <1>2 DEF SubmissionReads, NoSubmission, Wakes
<1>3. CASE SubmissionPublishes
  BY <1>3 DEF SubmissionPublishes, RequestActivation, NoSubmission, Idle, Wakes
<1>4. CASE SubmissionFails
  BY <1>4 DEF SubmissionFails, Fault, NoSubmission, Wakes
<1>5. CASE FirstTurnStarts
  <2>1. PICK k : k = NextRun - 1
    OBVIOUS
  <2>2. CASE k \in Runs
    <3>1. doc[k].status = "queued" /\ doc' = Started(k)
      BY <1>5, <2>1 DEF FirstTurnStarts
    <3>2. doc'[k].status = "running"
      BY <2>2, <3>1 DEF Started, Shape, Docs, Snapshots
    <3>3. \A q \in Runs \ {k} : exec'[q] = exec[q]
      BY <1>5, <2>1 DEF FirstTurnStarts, Shape
    <3> QED
      BY <3>1, <3>2, <3>3 DEF Wakes
  <2>3. CASE k \notin Runs
    BY <1>5, <2>1, <2>3 DEF FirstTurnStarts, Wakes, Shape
  <2> QED
    BY <2>2, <2>3
<1>6. CASE FirstTurnStays
  BY <1>6 DEF FirstTurnStays, Fault, RequestActivation, NoSubmission, Idle, Wakes
<1>7. CASE ActivationReads
  <2>1. CASE UNCHANGED exec
    BY <2>1 DEF Wakes
  <2>2. CASE FinishActivation(exec)
    BY <1>0, <2>2
  <2> QED
    BY <1>7, <2>1, <2>2 DEF ActivationReads
<1>8. CASE ActivationSettles
  <2>1. CASE UNCHANGED exec
    BY <2>1 DEF Wakes
  <2>2. CASE FinishActivation(exec)
    BY <1>0, <2>2
  <2> QED
    BY <1>8, <2>1, <2>2 DEF ActivationSettles
<1>9. CASE ActivationRetried
  <2>1. CASE UNCHANGED exec
    BY <2>1 DEF Wakes
  <2>2. CASE FinishActivation(exec)
    BY <1>0, <2>2
  <2> QED
    BY <1>9, <2>1, <2>2 DEF ActivationRetried
<1>10. CASE ActivationLocks
  <2>1. CASE UNCHANGED exec
    BY <2>1 DEF Wakes
  <2>2. CASE FinishActivation(exec)
    BY <1>0, <2>2
  <2> QED
    BY <1>10, <2>1, <2>2 DEF ActivationLocks
<1>11. CASE ActivationRereads
  <2>1. CASE UNCHANGED exec
    BY <2>1 DEF Wakes
  <2>2. CASE FinishActivation(exec)
    BY <1>0, <2>2
  <2> QED
    BY <1>11, <2>1, <2>2 DEF ActivationRereads
<1>12. CASE ActivationStarts
  <2>1. PICK k : k = activation.run
    OBVIOUS
  <2>2. k \in Runs
    BY <1>12, <2>1 DEF ActivationStarts, Admits
  <2>3. doc[k].status = "queued" /\ doc' = Started(k)
    BY <1>12, <2>1 DEF ActivationStarts, Admits
  <2>4. doc'[k].status = "running"
    BY <2>2, <2>3 DEF Started, Shape, Docs, Snapshots
  <2>5. FinishActivation([exec EXCEPT ![k] = "acquiring"])
    BY <1>12, <2>1 DEF ActivationStarts
  <2>6. \A q \in Runs \ {k} : exec[q] = "idle" => exec'[q] = "idle"
    BY <2>2, <2>5 DEF FinishActivation, Shape
  <2> QED
    BY <2>3, <2>4, <2>6 DEF Wakes
<1>13. CASE ActivationFails
  <2>1. CASE UNCHANGED exec
    BY <2>1 DEF Wakes
  <2>2. CASE FinishActivation(exec)
    BY <1>0, <2>2
  <2> QED
    BY <1>13, <2>1, <2>2 DEF ActivationFails
<1>14. ASSUME NEW r \in Runs, Cancel(r)
      PROVE  Wakes
  <2>1. Only(r)
    BY <1>14, Scope DEF Cleanup, Finalization, Loop, Ending
  <2>2. exec[r] # "idle" \/ exec'[r] = "idle"
    BY <1>14 DEF Cancel, InHarness
  <2> QED
    BY <2>1, <2>2, WakesOnly
<1>15. ASSUME NEW r \in Runs, CleanupFinalized(r)
      PROVE  Wakes
  <2>1. Only(r)
    BY <1>15, Scope DEF Cleanup, Finalization, Loop, Ending
  <2>2. exec[r] # "idle" \/ exec'[r] = "idle"
    BY <1>15 DEF CleanupFinalized, InHarness
  <2> QED
    BY <2>1, <2>2, WakesOnly
<1>16. ASSUME NEW r \in Runs, CleanupSettles(r)
      PROVE  Wakes
  <2>1. Only(r)
    BY <1>16, Scope DEF Cleanup, Finalization, Loop, Ending
  <2>2. exec[r] # "idle" \/ exec'[r] = "idle"
    BY <1>16 DEF CleanupSettles, InHarness
  <2> QED
    BY <2>1, <2>2, WakesOnly
<1>17. ASSUME NEW r \in Runs, CleanupActivates(r)
      PROVE  Wakes
  <2>1. Only(r)
    BY <1>17, Scope DEF Cleanup, Finalization, Loop, Ending
  <2>2. exec[r] # "idle" \/ exec'[r] = "idle"
    BY <1>17 DEF CleanupActivates, InHarness
  <2> QED
    BY <2>1, <2>2, WakesOnly
<1>18. ASSUME NEW r \in Runs, RevokeSession(r)
      PROVE  Wakes
  <2>1. Only(r)
    BY <1>18, Scope DEF Cleanup, Finalization, Loop, Ending
  <2>2. exec[r] # "idle" \/ exec'[r] = "idle"
    BY <1>18 DEF RevokeSession, InHarness
  <2> QED
    BY <2>1, <2>2, WakesOnly
<1>19. ASSUME NEW r \in Runs, RevokeFails(r)
      PROVE  Wakes
  <2>1. Only(r)
    BY <1>19, Scope DEF Cleanup, Finalization, Loop, Ending
  <2>2. exec[r] # "idle" \/ exec'[r] = "idle"
    BY <1>19 DEF RevokeFails, InHarness
  <2> QED
    BY <2>1, <2>2, WakesOnly
<1>20. ASSUME NEW r \in Runs, CloseSession(r)
      PROVE  Wakes
  <2>1. Only(r)
    BY <1>20, Scope DEF Cleanup, Finalization, Loop, Ending
  <2>2. exec[r] # "idle" \/ exec'[r] = "idle"
    BY <1>20 DEF CloseSession, InHarness
  <2> QED
    BY <2>1, <2>2, WakesOnly
<1>21. ASSUME NEW r \in Runs, AcquireSession(r)
      PROVE  Wakes
  <2>1. Only(r)
    BY <1>21, Scope DEF Cleanup, Finalization, Loop, Ending
  <2>2. exec[r] # "idle" \/ exec'[r] = "idle"
    BY <1>21 DEF AcquireSession, InHarness
  <2> QED
    BY <2>1, <2>2, WakesOnly
<1>22. ASSUME NEW r \in Runs, AcquireFails(r)
      PROVE  Wakes
  <2>1. Only(r)
    BY <1>22, Scope DEF Cleanup, Finalization, Loop, Ending
  <2>2. exec[r] # "idle" \/ exec'[r] = "idle"
    BY <1>22 DEF AcquireFails, InHarness
  <2> QED
    BY <2>1, <2>2, WakesOnly
<1>23. ASSUME NEW r \in Runs, CaptureStartLeaf(r)
      PROVE  Wakes
  <2>1. Only(r)
    BY <1>23, Scope DEF Cleanup, Finalization, Loop, Ending
  <2>2. exec[r] # "idle" \/ exec'[r] = "idle"
    BY <1>23 DEF CaptureStartLeaf, Checkpoint, InHarness
  <2> QED
    BY <2>1, <2>2, WakesOnly
<1>24. ASSUME NEW r \in Runs, AppendInput(r)
      PROVE  Wakes
  <2>1. Only(r)
    BY <1>24, Scope DEF Cleanup, Finalization, Loop, Ending
  <2>2. exec[r] # "idle" \/ exec'[r] = "idle"
    BY <1>24 DEF AppendInput, AppendEntry, InHarness
  <2> QED
    BY <2>1, <2>2, WakesOnly
<1>25. ASSUME NEW r \in Runs, CommitInput(r)
      PROVE  Wakes
  <2>1. Only(r)
    BY <1>25, Scope DEF Cleanup, Finalization, Loop, Ending
  <2>2. exec[r] # "idle" \/ exec'[r] = "idle"
    BY <1>25 DEF CommitInput, Checkpoint, InHarness
  <2> QED
    BY <2>1, <2>2, WakesOnly
<1>26. ASSUME NEW r \in Runs, AppendCall(r)
      PROVE  Wakes
  <2>1. Only(r)
    BY <1>26, Scope DEF Cleanup, Finalization, Loop, Ending
  <2>2. exec[r] # "idle" \/ exec'[r] = "idle"
    BY <1>26 DEF AppendCall, AppendEntry, InHarness
  <2> QED
    BY <2>1, <2>2, WakesOnly
<1>27. ASSUME NEW r \in Runs, CommitCall(r)
      PROVE  Wakes
  <2>1. Only(r)
    BY <1>27, Scope DEF Cleanup, Finalization, Loop, Ending
  <2>2. exec[r] # "idle" \/ exec'[r] = "idle"
    BY <1>27 DEF CommitCall, Checkpoint, InHarness
  <2> QED
    BY <2>1, <2>2, WakesOnly
<1>28. ASSUME NEW r \in Runs, ToolReturns(r)
      PROVE  Wakes
  <2>1. Only(r)
    BY <1>28, Scope DEF Cleanup, Finalization, Loop, Ending
  <2>2. exec[r] # "idle" \/ exec'[r] = "idle"
    BY <1>28 DEF ToolReturns, InHarness
  <2> QED
    BY <2>1, <2>2, WakesOnly
<1>29. ASSUME NEW r \in Runs, PersistToolResult(r)
      PROVE  Wakes
  <2>1. Only(r)
    BY <1>29, Scope DEF Cleanup, Finalization, Loop, Ending
  <2>2. exec[r] # "idle" \/ exec'[r] = "idle"
    BY <1>29 DEF PersistToolResult, InHarness
  <2> QED
    BY <2>1, <2>2, WakesOnly
<1>30. ASSUME NEW r \in Runs, PersistToolResultFails(r)
      PROVE  Wakes
  <2>1. Only(r)
    BY <1>30, Scope DEF Cleanup, Finalization, Loop, Ending
  <2>2. exec[r] # "idle" \/ exec'[r] = "idle"
    BY <1>30 DEF PersistToolResultFails, InHarness
  <2> QED
    BY <2>1, <2>2, WakesOnly
<1>31. ASSUME NEW r \in Runs, AppendResults(r)
      PROVE  Wakes
  <2>1. Only(r)
    BY <1>31, Scope DEF Cleanup, Finalization, Loop, Ending
  <2>2. exec[r] # "idle" \/ exec'[r] = "idle"
    BY <1>31 DEF AppendResults, AppendEntry, InHarness
  <2> QED
    BY <2>1, <2>2, WakesOnly
<1>32. ASSUME NEW r \in Runs, CommitRound(r)
      PROVE  Wakes
  <2>1. Only(r)
    BY <1>32, Scope DEF Cleanup, Finalization, Loop, Ending
  <2>2. exec[r] # "idle" \/ exec'[r] = "idle"
    BY <1>32 DEF CommitRound, Checkpoint, InHarness
  <2> QED
    BY <2>1, <2>2, WakesOnly
<1>33. ASSUME NEW r \in Runs, AppendAnswer(r)
      PROVE  Wakes
  <2>1. Only(r)
    BY <1>33, Scope DEF Cleanup, Finalization, Loop, Ending
  <2>2. exec[r] # "idle" \/ exec'[r] = "idle"
    BY <1>33 DEF AppendAnswer, AppendEntry, InHarness
  <2> QED
    BY <2>1, <2>2, WakesOnly
<1>34. ASSUME NEW r \in Runs, CommitAnswer(r)
      PROVE  Wakes
  <2>1. Only(r)
    BY <1>34, Scope DEF Cleanup, Finalization, Loop, Ending
  <2>2. exec[r] # "idle" \/ exec'[r] = "idle"
    BY <1>34 DEF CommitAnswer, Checkpoint, InHarness
  <2> QED
    BY <2>1, <2>2, WakesOnly
<1>35. ASSUME NEW r \in Runs, AnswerIsRefused(r)
      PROVE  Wakes
  <2>1. Only(r)
    BY <1>35, Scope DEF Cleanup, Finalization, Loop, Ending
  <2>2. exec[r] # "idle" \/ exec'[r] = "idle"
    BY <1>35 DEF AnswerIsRefused, InHarness
  <2> QED
    BY <2>1, <2>2, WakesOnly
<1>36. ASSUME NEW r \in Runs, CheckpointFails(r)
      PROVE  Wakes
  <2>1. Only(r)
    BY <1>36, Scope DEF Cleanup, Finalization, Loop, Ending
  <2>2. exec[r] # "idle" \/ exec'[r] = "idle"
    BY <1>36 DEF CheckpointFails, InHarness
  <2> QED
    BY <2>1, <2>2, WakesOnly
<1>37. ASSUME NEW r \in Runs, HarnessStops(r)
      PROVE  Wakes
  <2>1. Only(r)
    BY <1>37, Scope DEF Cleanup, Finalization, Loop, Ending
  <2>2. exec[r] # "idle" \/ exec'[r] = "idle"
    BY <1>37 DEF HarnessStops, InHarness
  <2> QED
    BY <2>1, <2>2, WakesOnly
<1>38. ASSUME NEW r \in Runs, ApplyOutcome(r)
      PROVE  Wakes
  <2>1. Only(r)
    BY <1>38, Scope DEF Cleanup, Finalization, Loop, Ending
  <2>2. exec[r] # "idle" \/ exec'[r] = "idle"
    BY <1>38 DEF ApplyOutcome, InHarness
  <2> QED
    BY <2>1, <2>2, WakesOnly
<1>39. ASSUME NEW r \in Runs, CommitOutcome(r)
      PROVE  Wakes
  <2>1. Only(r)
    BY <1>39, Scope DEF Cleanup, Finalization, Loop, Ending
  <2>2. exec[r] # "idle" \/ exec'[r] = "idle"
    BY <1>39 DEF CommitOutcome, InHarness
  <2> QED
    BY <2>1, <2>2, WakesOnly
<1>40. ASSUME NEW r \in Runs, CommitFails(r)
      PROVE  Wakes
  <2>1. Only(r)
    BY <1>40, Scope DEF Cleanup, Finalization, Loop, Ending
  <2>2. exec[r] # "idle" \/ exec'[r] = "idle"
    BY <1>40 DEF CommitFails, InHarness
  <2> QED
    BY <2>1, <2>2, WakesOnly
<1>41. ASSUME NEW r \in Runs, Recommit(r)
      PROVE  Wakes
  <2>1. Only(r)
    BY <1>41, Scope DEF Cleanup, Finalization, Loop, Ending
  <2>2. exec[r] # "idle" \/ exec'[r] = "idle"
    BY <1>41 DEF Recommit, InHarness
  <2> QED
    BY <2>1, <2>2, WakesOnly
<1>42. ASSUME NEW r \in Runs, RecommitFails(r)
      PROVE  Wakes
  <2>1. Only(r)
    BY <1>42, Scope DEF Cleanup, Finalization, Loop, Ending
  <2>2. exec[r] # "idle" \/ exec'[r] = "idle"
    BY <1>42 DEF RecommitFails, InHarness
  <2> QED
    BY <2>1, <2>2, WakesOnly
<1>43. ASSUME NEW r \in Runs, ExecutionFinalized(r)
      PROVE  Wakes
  <2>1. Only(r)
    BY <1>43, Scope DEF Cleanup, Finalization, Loop, Ending
  <2>2. exec[r] # "idle" \/ exec'[r] = "idle"
    BY <1>43 DEF ExecutionFinalized, InHarness
  <2> QED
    BY <2>1, <2>2, WakesOnly
<1>44. ASSUME NEW r \in Runs, ExecutionActivates(r)
      PROVE  Wakes
  <2>1. Only(r)
    BY <1>44, Scope DEF Cleanup, Finalization, Loop, Ending
  <2>2. exec[r] # "idle" \/ exec'[r] = "idle"
    BY <1>44 DEF ExecutionActivates, InHarness
  <2> QED
    BY <2>1, <2>2, WakesOnly
<1>45. ASSUME NEW r \in Runs, ExecutionSettles(r)
      PROVE  Wakes
  <2>1. Only(r)
    BY <1>45, Scope DEF Cleanup, Finalization, Loop, Ending
  <2>2. exec[r] # "idle" \/ exec'[r] = "idle"
    BY <1>45 DEF ExecutionSettles, InHarness
  <2> QED
    BY <2>1, <2>2, WakesOnly
<1>46. ASSUME NEW r \in Runs, ExecutionPosts(r)
      PROVE  Wakes
  <2>1. Only(r)
    BY <1>46, Scope DEF Cleanup, Finalization, Loop, Ending
  <2>2. exec[r] # "idle" \/ exec'[r] = "idle"
    BY <1>46 DEF ExecutionPosts, InHarness
  <2> QED
    BY <2>1, <2>2, WakesOnly
<1>47. CASE UNCHANGED vars
  BY <1>47 DEF vars, Wakes
<1> QED
  BY <1>1, <1>2, <1>3, <1>4, <1>5, <1>6, <1>7, <1>8, <1>9, <1>10, <1>11, <1>12, <1>13,
       <1>14, <1>15, <1>16, <1>17, <1>18, <1>19, <1>20, <1>21, <1>22, <1>23, <1>24, <1>25, <1>26,
       <1>27, <1>28, <1>29, <1>30, <1>31, <1>32, <1>33, <1>34, <1>35, <1>36, <1>37, <1>38, <1>39,
       <1>40, <1>41, <1>42, <1>43, <1>44, <1>45, <1>46, <1>47 DEF Next, Submission, Activation,
       Cleanup, Finalization, Loop, Ending

\* What was captured outlasts every step.
LEMMA OutlastsStep ==
  ASSUME NEW docs, Outlasts(docs), Turns
  PROVE  Outlasts(docs)'
<1>1. CASE \A q \in Runs : Same(q)
  BY <1>1 DEF Outlasts, Same
<1>2. ASSUME NEW r \in Runs, \A q \in Runs \ {r} : doc'[q] = doc[q], Born(r)
      PROVE  Outlasts(docs)'
  BY <1>2 DEF Outlasts, Born
<1>3. ASSUME NEW r \in Runs, \A q \in Runs \ {r} : doc'[q] = doc[q], Begins(r) \/ Ends(r)
      PROVE  Outlasts(docs)'
  <2>1. /\ doc[r].status \in Live /\ doc'[r].status # "absent" /\ doc'[r].pred = doc[r].pred
    BY <1>3 DEF Begins, Ends, Live, Ended
  <2>2. doc[r].status \notin Ended
    BY <2>1 DEF Live, Ended
  <2> QED
    BY <1>3, <2>1, <2>2 DEF Outlasts, Terminal
<1> QED
  BY <1>1, <1>2, <1>3 DEF Turns

\* Documents captured at this moment, and those of an empty conversation, last.
LEMMA CapturedNow ==
  /\ Outlasts(doc) /\ Outlasts(NoDocs)
BY DEF Outlasts, NoDocs, NoDoc

\* Every step keeps the order of births, and outlasts what was captured.
LEMMA BirthsStep ==
  ASSUME Shape, Staged, Births, Admits, [Next]_vars
  PROVE  Births'
<1>1. Turns /\ SubmissionMoves /\ ActivationMoves
  BY TurnsStep, SubmissionMovesStep, ActivationMovesStep
<1>0. \/ SubmitTurn /\ submission'.pc = "reading" /\ submission'.docs = doc'
      \/ SubmissionReads /\ submission'.pc \in {"idle", "persisting"} /\ submission'.docs = NoDocs
      \/ SubmissionPublishes /\ submission'.pc \in {"idle", "starting", "awaiting"}
         /\ submission'.docs \in {submission.docs, NoDocs}
      \/ submission' = submission
      \/ submission'.pc = "idle" /\ submission'.docs = NoDocs
  <2>1. CASE SubmitTurn
    BY <2>1 DEF SubmitTurn, NoSubmission
  <2>2. CASE SubmissionReads
    BY <2>2 DEF SubmissionReads, NoSubmission
  <2>3. CASE SubmissionPublishes
    <3>1. submission \in Submissions
      BY DEF Shape
    <3>2. submission' \in {NoSubmission, [submission EXCEPT !.pc = "starting"],
                           [submission EXCEPT !.pc = "awaiting"]}
      BY <2>3 DEF SubmissionPublishes
    <3> QED
      BY <2>3, <3>1, <3>2 DEF NoSubmission, Submissions
  <2>4. NoSubmission.pc = "idle" /\ NoSubmission.docs = NoDocs
    BY DEF NoSubmission
  <2> QED
    BY <1>1, <2>1, <2>2, <2>3, <2>4 DEF SubmissionMoves
<1>2. PICK k \in Nat : /\ NextRun = k + 1 /\ Present(doc) = 1 .. k
                       /\ submission.pc \in {"reading", "persisting"} => k + 1 \in Runs
                       /\ submission.pc = "starting" => k \in Runs /\ doc[k].pred = NoRun
  BY NextRunIs
<1>3. PICK captured, submitted : captured = activation.docs /\ submitted = submission.docs
  OBVIOUS
<1>4. Outlasts(captured)' /\ Outlasts(submitted)'
  BY <1>1, <1>3, OutlastsStep DEF Births
<1>5. Outlasts(doc)' /\ Outlasts(NoDocs)'
  BY CapturedNow, PTL
<1>6. Outlasts(activation.docs)'
  <2>1. activation'.docs \in {captured, NoDocs, doc'}
    <3>2. Idle.docs = NoDocs
      BY DEF Idle
    <3>3. CASE ActivationReads
      BY <3>3, ReadsMoves DEF AfterReading
    <3>4. CASE ActivationLocks
      <4>1. CASE activation' = [activation EXCEPT !.pc = "rereading", !.docs = doc]
        BY <3>4, <4>1 DEF ActivationLocks, Shape, Activations
      <4> QED
        BY <3>2, <3>4, <4>1 DEF ActivationLocks, FinishActivation
    <3>5. CASE ActivationRereads
      BY <3>5, RereadsMoves DEF AfterRereading
    <3> QED
      BY <1>1, <1>3, <3>2, <3>3, <3>4, <3>5 DEF ActivationMoves
  <2> QED
    BY <1>4, <1>5, <2>1 DEF Outlasts
<1>7. Outlasts(submission.docs)'
  <2>1. submission'.docs \in {submitted, NoDocs, doc'}
    BY <1>0, <1>1, <1>3
  <2> QED
    BY <1>4, <1>5, <2>1 DEF Outlasts
<1>8. ASSUME NEW p \in Runs, doc[p].status # "absent"
      PROVE  doc'[p].status # "absent" /\ doc'[p].pred = doc[p].pred
  BY <1>1, <1>8 DEF Turns, Same, Born, Begins, Ends, Ended
<1>9. \E n \in 0 .. MaxRuns :
        /\ Present(doc)' = 1 .. n
        /\ submission'.pc \in {"reading", "persisting"} => n + 1 \in Runs
        /\ submission'.pc = "starting" => n \in Runs /\ doc'[n].pred = NoRun
  <2>1. k \in 0 .. MaxRuns
    <3>1. 1 .. k \subseteq 1 .. MaxRuns /\ MaxRuns \in Nat
      BY <1>2, RunsAssumption DEF Present, Runs
    <3>2. k = 0 \/ k \in 1 .. k
      BY <1>2
    <3> QED
      BY <1>2, <3>1, <3>2
  <2>2. CASE SubmissionPublishes
    <3>1. PICK n : n = k + 1
      OBVIOUS
    <3>2. n \in Runs /\ n = NextRun
      BY <1>2, <2>2, <3>1 DEF SubmissionPublishes
    <3>3. doc' = [doc EXCEPT ![n] = [NoDoc EXCEPT !.status = "queued", !.pred = submission.pred]]
      BY <2>2, <3>2 DEF SubmissionPublishes
    <3>4. doc'[n].status = "queued" /\ doc'[n].pred = submission.pred
      BY <3>2, <3>3 DEF NoDoc, Shape, Docs
    <3>5. Present(doc)' = Present(doc) \cup {n}
      BY <3>2, <3>3, <3>4 DEF Present, Shape, Docs
    <3>6. Present(doc)' = 1 .. n
      BY <1>2, <3>1, <3>5
    <3>7. /\ submission'.pc \notin {"reading", "persisting"}
          /\ submission'.pc = "starting" => submission.pred = NoRun
      BY <2>2 DEF SubmissionPublishes, NoSubmission, Shape, Submissions
    <3> QED
      BY <3>2, <3>4, <3>6, <3>7 DEF Runs
  <2>3. CASE ~SubmissionPublishes
    <3>1. Present(doc)' = Present(doc)
      BY <1>1, <2>3 DEF Turns, Same, Born, Begins, Ends, Present, Ended, Live
    <3>2. submission'.pc \in {"reading", "persisting"} => k + 1 \in Runs
      BY <1>0, <1>2, <2>3 DEF SubmitTurn, SubmissionReads
    <3>3. submission'.pc = "starting" => submission.pc = "starting"
      BY <1>0, <2>3
    <3>4. submission'.pc = "starting" => k \in Runs /\ doc'[k].pred = NoRun
      <4>1. k \in Runs => k \in Present(doc)
        BY <1>2 DEF Runs
      <4> QED
        BY <1>2, <1>8, <3>3, <4>1 DEF Present
    <3> QED
      BY <1>2, <2>1, <3>1, <3>2, <3>4
  <2> QED
    BY <2>2, <2>3
<1>10. submission'.pc = "persisting" /\ submission'.pred # NoRun =>
         doc'[submission'.pred].status # "absent"
  <2>1. CASE SubmissionReads
    <3>1. PICK pred : pred = LastRun(Visible(submission.docs, Branch))
      OBVIOUS
    <3>2. pred \in Present(submission.docs) \cup {NoRun}
      BY <3>1, BranchType, LastRunIs
    <3>3. pred # NoRun => pred \in Runs /\ doc[pred].status # "absent"
      BY <3>2 DEF Births, Outlasts, Present
    <3>4. submission'.pc = "persisting" => submission'.pred = pred
      BY <2>1, <3>1 DEF SubmissionReads, NoSubmission
    <3> QED
      BY <1>8, <3>3, <3>4
  <2>2. CASE submission' = submission
    BY <1>8, <2>2 DEF Births, Shape, Submissions
  <2>3. submission'.pc = "persisting" => SubmissionReads \/ submission' = submission
    BY <1>0
  <2> QED
    BY <2>1, <2>2, <2>3
<1> QED
  BY <1>6, <1>7, <1>9, <1>10 DEF Births

\* A turn that is there stays there, behind the turn it follows; one that has ended stays
\* as it ended.
LEMMA TurnsLast ==
  ASSUME Turns, NEW r \in Runs, doc[r].status # "absent"
  PROVE  /\ doc'[r].status # "absent" /\ doc'[r].pred = doc[r].pred
         /\ Terminal(doc[r]) => doc'[r].status = doc[r].status
<1>1. CASE Same(r)
  BY <1>1 DEF Same
<1>2. CASE Begins(r) \/ Ends(r)
  BY <1>2 DEF Begins, Ends, Ended, Live, Terminal
<1>3. Same(r) \/ Begins(r) \/ Ends(r) \/ Born(r)
  BY DEF Turns, Same
<1>4. ~Born(r)
  BY DEF Born
<1> QED
  BY <1>1, <1>2, <1>3, <1>4

\* The candidate that is locked leaves the queue by the activation's own start only.
LEMMA LockedStays ==
  ASSUME Turns, NEW r \in Runs, doc[r].status = "queued", ~LockFree(r), ~ActivationStarts
  PROVE  doc'[r].status = "queued"
<1>1. Same(r) \/ Begins(r) \/ Ends(r) \/ Born(r)
  BY DEF Turns, Same
<1>2. ~Born(r) /\ ~Ends(r)
  BY DEF Born, Ends
<1>3. ~Begins(r)
  BY DEF Begins, FirstTurnStarts
<1> QED
  BY <1>1, <1>2, <1>3 DEF Same

\* What was captured as cleared is free by now.
LEMMA ClearedIsFreed ==
  ASSUME NEW docs, Outlasts(docs), docs \in Docs, NEW r \in Runs, docs[r].status # "absent",
         ClearedIn(docs, r), doc[r].pred # NoRun, doc[r].pred \in Runs
  PROVE  Freed(doc[r].pred) /\ ~docs[doc[r].pred].round
<1>1. PICK p \in Runs : p = doc[r].pred /\ p = docs[r].pred
  BY DEF Outlasts
<1>2. BarrierCleared(docs[p], Facts[p])
  BY <1>1 DEF ClearedIn
<1>3. /\ Terminal(docs[p]) /\ ~docs[p].round /\ ~accepted[p] /\ finalization[p] = "no"
      /\ docs[p].status = "cancelled" \/ ~ExecutionActive(p)
  BY <1>2 DEF BarrierCleared, Facts
<1>4. doc[p].status = docs[p].status
  BY <1>3 DEF Outlasts, Terminal, Ended
<1> QED
  BY <1>1, <1>3, <1>4 DEF Freed, Terminal, Cancelled

\* Every step keeps what the activation has read of its candidate true.
LEMMA AdmitsStep ==
  ASSUME Shape, Staged, Births, Admits, [Next]_vars
  PROVE  Admits'
<1>1. Turns /\ ActivationMoves
  BY TurnsStep, ActivationMovesStep
<1>2. PICK k : k = activation'.run
  OBVIOUS
<1>3. PICK docs : docs = activation.docs /\ docs \in Docs /\ Outlasts(docs)
  BY DEF Births, Shape, Activations
<1>4. \A r \in Runs : doc[r].pred # NoRun => doc[r].pred \in Runs
  BY DEF Shape, Docs, Snapshots
<1>5. ASSUME NEW r \in Runs, doc[r].status # "absent", doc[r].pred # NoRun, Freed(doc[r].pred)
      PROVE  /\ doc'[r].pred = doc[r].pred /\ Freed(doc[r].pred)'
             /\ doc'[doc'[r].pred].round => doc[doc[r].pred].round
  <2>1. PICK p \in Runs : p = doc[r].pred /\ p = doc'[r].pred
    BY <1>1, <1>4, <1>5, TurnsLast
  <2>2. Freed(p)' /\ (doc'[p].round => doc[p].round)
    BY <1>5, <2>1, FreedStep DEF FreedNext
  <2> QED
    BY <2>1, <2>2 DEF Freed
<1>6. CASE activation'.pc \in {"idle", "reading"}
  BY <1>6 DEF Admits
<1>7. CASE activation' = activation
  <2>1. ~ActivationStarts
    BY <1>7 DEF ActivationStarts, FinishActivation, Idle
  <2>2. ASSUME activation.pc \in {"locking", "rereading", "starting"}
        PROVE  /\ k \in Runs /\ doc'[k].status # "absent"
               /\ doc'[k].pred # NoRun =>
                    /\ Freed(doc[k].pred)' /\ doc'[k].pred = doc[k].pred
                    /\ doc'[doc'[k].pred].round => doc[doc[k].pred].round
    <3>1. k \in Runs /\ doc[k].status # "absent" /\ (doc[k].pred # NoRun => Freed(doc[k].pred))
      BY <1>2, <1>7, <2>2 DEF Admits
    <3>2. doc'[k].status # "absent" /\ doc'[k].pred = doc[k].pred
      BY <1>1, <3>1, TurnsLast
    <3> QED
      BY <1>5, <3>1, <3>2
  <2>3. ASSUME activation.pc \in {"rereading", "starting"}
        PROVE  doc'[k].status = "queued"
    <3>1. k \in Runs /\ doc[k].status = "queued" /\ ~LockFree(k)
      BY <1>2, <1>7, <2>3 DEF Admits, LockFree
    <3> QED
      BY <1>1, <2>1, <3>1, LockedStays
  <2>4. ASSUME activation.pc \in {"settling", "retrying"}
        PROVE  k \in Runs /\ Terminal(doc'[k])
    <3>1. k \in Runs /\ Terminal(doc[k]) /\ doc[k].status # "absent"
      BY <1>2, <1>7, <2>4 DEF Admits, Terminal, Ended
    <3> QED
      BY <1>1, <3>1, TurnsLast DEF Terminal
  <2>5. ASSUME activation.pc = "rereading"
        PROVE  /\ docs[k].status = "queued"
               /\ doc'[k].pred # NoRun /\ ~docs[doc'[k].pred].round => ~doc'[doc'[k].pred].round
    <3>1. /\ docs[k].status = "queued"
          /\ doc[k].pred # NoRun /\ ~docs[doc[k].pred].round => ~doc[doc[k].pred].round
      BY <1>2, <1>3, <1>7, <2>5 DEF Admits
    <3> QED
      BY <2>2, <2>5, <3>1
  <2>6. ASSUME activation.pc = "starting", doc'[k].pred # NoRun
        PROVE  ~doc'[doc'[k].pred].round
    <3>1. doc'[k].pred = doc[k].pred /\ (doc'[doc'[k].pred].round => doc[doc[k].pred].round)
      BY <2>2, <2>6
    <3>2. doc[k].pred # NoRun => ~doc[doc[k].pred].round
      BY <1>2, <1>7, <2>6 DEF Admits
    <3> QED
      BY <2>6, <3>1, <3>2
  <2>7. doc'[k].pred # NoRun /\ activation.pc \in {"locking", "rereading", "starting"} =>
          Freed(doc[k].pred)'
    BY <2>2
  <2> QED
    BY <1>2, <1>3, <1>7, <2>2, <2>3, <2>4, <2>5, <2>6, <2>7 DEF Admits, Terminal
<1>8. CASE ActivationReads
  <2>1. doc' = doc
    BY <1>8 DEF ActivationReads
  <2>2. AfterReading
    BY <1>8, ReadsMoves
  <2>3. CASE /\ activation'.pc = "locking" /\ k \in Runs /\ docs[k].status = "queued"
             /\ ClearedIn(docs, k)
    <3>1. docs[k].status # "absent" /\ doc[k].status # "absent"
      BY <1>3, <2>3 DEF Outlasts
    <3>2. doc[k].pred # NoRun => Freed(doc[k].pred)
      BY <1>3, <1>4, <2>3, <3>1, ClearedIsFreed
    <3>3. doc[k].pred # NoRun => Freed(doc[k].pred)'
      BY <1>5, <2>3, <3>1, <3>2
    <3> QED
      BY <1>2, <2>1, <2>3, <3>1, <3>3 DEF Admits
  <2>4. CASE activation'.pc \in {"settling", "retrying"} /\ k \in Runs /\ Terminal(docs[k])
    <3>1. Terminal(doc[k])
      BY <1>3, <2>4 DEF Outlasts, Terminal, Ended
    <3> QED
      BY <1>2, <2>1, <2>4, <3>1 DEF Admits, Terminal
  <2> QED
    BY <1>2, <1>3, <1>6, <2>2, <2>3, <2>4 DEF AfterReading
<1>9. CASE ActivationLocks
  <2>1. UNCHANGED <<doc, accepted, finalization>> /\ activation.pc = "locking" /\ activation \in Activations
    BY <1>9 DEF ActivationLocks, Shape
  <2>2. CASE activation' = [activation EXCEPT !.pc = "rereading", !.docs = doc] /\ doc[activation.run].status = "queued"
    <3>1. activation'.pc = "rereading" /\ activation'.docs = doc /\ k = activation.run
      BY <1>2, <2>1, <2>2 DEF Activations
    <3>2. k \in Runs /\ doc[k].status = "queued" /\ (doc[k].pred # NoRun => Freed(doc[k].pred))
      BY <2>1, <2>2, <3>1 DEF Admits
    <3>3. doc[k].pred # NoRun => Freed(doc[k].pred)'
      BY <1>5, <3>2
    <3> QED
      BY <1>2, <2>1, <3>1, <3>2, <3>3 DEF Admits
  <2>3. CASE FinishActivation(exec)
    BY <1>6, <2>3 DEF FinishActivation, Idle
  <2> QED
    BY <1>9, <2>2, <2>3 DEF ActivationLocks
<1>10. CASE ActivationRereads
  <2>1. UNCHANGED doc /\ activation.pc = "rereading" /\ AfterRereading
    BY <1>10, RereadsMoves DEF ActivationRereads
  <2>2. CASE activation'.pc = "starting" /\ k = activation.run /\ ClearedIn(docs, k)
    <3>1. /\ k \in Runs /\ doc[k].status = "queued" /\ docs[k].status = "queued"
          /\ doc[k].pred # NoRun => Freed(doc[k].pred)
          /\ doc[k].pred # NoRun /\ ~docs[doc[k].pred].round => ~doc[doc[k].pred].round
      BY <1>3, <2>1, <2>2 DEF Admits
    <3>2. doc[k].pred # NoRun => Freed(doc[k].pred)'
      BY <1>5, <3>1
    <3>3. doc[k].pred # NoRun => ~docs[doc[k].pred].round
      BY <1>3, <1>4, <2>2, <3>1, ClearedIsFreed
    <3> QED
      BY <1>2, <2>1, <2>2, <3>1, <3>2, <3>3 DEF Admits
  <2> QED
    BY <1>2, <1>3, <1>6, <2>1, <2>2 DEF AfterRereading
<1> QED
  BY <1>1, <1>6, <1>7, <1>8, <1>9, <1>10 DEF ActivationMoves, Idle

\* A run that is admitted follows one that owes nothing any more.
LEMMA AdmittedBehind ==
  ASSUME Shape, Births, Admits, NEW r \in Runs, Begins(r), doc[r].pred # NoRun
  PROVE  doc[r].pred \in Runs /\ Released(doc[r].pred)
<1>1. doc[r].pred \in Runs
  BY DEF Shape, Docs, Snapshots
<1>2. CASE ActivationStarts /\ r = activation.run
  <2>1. Freed(doc[r].pred) /\ ~doc[doc[r].pred].round
    BY <1>2 DEF ActivationStarts, Admits
  <2> QED
    BY <1>1, <2>1 DEF Freed, Released
<1>3. CASE FirstTurnStarts /\ r = NextRun - 1
  <2>1. PICK k \in Nat : /\ NextRun = k + 1
                         /\ submission.pc = "starting" => doc[k].pred = NoRun
    BY NextRunIs
  <2> QED
    BY <1>3, <2>1 DEF FirstTurnStarts
<1> QED
  BY <1>2, <1>3 DEF Begins

\* A turn that has been released stays released.
LEMMA ReleasedStep ==
  ASSUME Shape, Staged, Births, Admits, [Next]_vars, NEW p \in Runs, Released(p)
  PROVE  Released(p)'
<1>1. Freed(p) /\ ~doc[p].round
  BY DEF Released, Freed
<1>2. Freed(p)' /\ ~doc'[p].round
  BY <1>1, FreedStep DEF FreedNext
<1> QED
  BY <1>2 DEF Released, Freed

\* No step starts a turn over the barrier of the turn before it, or raises that later.
LEMMA BarrierStep ==
  ASSUME Shape, Staged, Births, Admits, BarrierStaysDown, [Next]_vars
  PROVE  BarrierStaysDown'
<1>1. Turns /\ Wakes
  BY TurnsStep, WakesStep
<1>2. ASSUME NEW r \in Runs, exec'[r] # "idle", doc'[r].pred # NoRun
      PROVE  Released(doc[r].pred)'
  <2>1. ASSUME doc'[r].pred = doc[r].pred, doc[r].pred \in Runs, Released(doc[r].pred)
        PROVE  Released(doc[r].pred)'
    <3>1. PICK p \in Runs : p = doc[r].pred /\ p = doc'[r].pred
      BY <2>1
    <3>2. Released(p)'
      BY <2>1, <3>1, ReleasedStep
    <3> QED
      BY <3>1, <3>2 DEF Released
  <2>2. CASE exec[r] # "idle"
    <3>1. doc[r].status # "absent"
      BY <2>2 DEF Staged, Executes, Ended
    <3>2. doc'[r].pred = doc[r].pred /\ doc[r].pred \in Runs
      BY <1>1, <1>2, <3>1, TurnsLast DEF Shape, Docs, Snapshots
    <3>3. Released(doc[r].pred)
      BY <1>2, <2>2, <3>2 DEF BarrierStaysDown
    <3> QED
      BY <2>1, <3>2, <3>3
  <2>3. CASE exec[r] = "idle"
    <3>1. doc[r].status = "queued" /\ doc'[r].status = "running"
      BY <1>1, <1>2, <2>3 DEF Wakes
    <3>2. Begins(r)
      BY <1>1, <3>1 DEF Turns, Same, Born, Ends, Ended
    <3> QED
      BY <1>2, <2>1, <3>2, AdmittedBehind DEF Begins
  <2> QED
    BY <2>2, <2>3
<1> QED
  BY <1>2 DEF BarrierStaysDown

\* Who waits goes on only when the session is given back.
Carries(q) ==
  Pending(q)' =>
    /\ Pending(q)
    /\ cleanup[q] = "finalizing" => cleanup'[q] = "finalizing"
    /\ exec[q] \in {"finalizing", "keeping"} => exec'[q] = exec[q]
Retries == activation.pc = "retrying" /\ Pending(activation.run) => activation' = activation

\* An activation that retries a return stays until that return is over.
LEMMA RetriesStep ==
  ASSUME [Next]_vars
  PROVE  Retries
<1>1. CASE SubmitTurn
  BY <1>1 DEF SubmitTurn, NoSubmission, Retries, FinalizationSettled, Pending
<1>2. CASE SubmissionReads
  BY <1>2 DEF SubmissionReads, NoSubmission, Retries, FinalizationSettled, Pending
<1>3. CASE SubmissionPublishes
  BY <1>3 DEF SubmissionPublishes, RequestActivation, NoSubmission, Idle, Retries,
       FinalizationSettled, Pending
<1>4. CASE SubmissionFails
  BY <1>4 DEF SubmissionFails, Fault, NoSubmission, Retries, FinalizationSettled, Pending
<1>5. CASE FirstTurnStarts
  BY <1>5 DEF FirstTurnStarts, Started, ControlCreated, NoSubmission, Retries,
       FinalizationSettled, Pending
<1>6. CASE FirstTurnStays
  BY <1>6 DEF FirstTurnStays, Fault, RequestActivation, NoSubmission, Idle, Retries,
       FinalizationSettled, Pending
<1>7. CASE ActivationReads
  BY <1>7 DEF ActivationReads, FinishActivation, FinalizeSession, Idle, Retries,
       FinalizationSettled, Pending
<1>8. CASE ActivationSettles
  BY <1>8 DEF ActivationSettles, SettleExecution, SettlementFails, FinishActivation, Fault,
       Retries, FinalizationSettled, Pending
<1>9. CASE ActivationRetried
  BY <1>9 DEF ActivationRetried, FinishActivation, Retries, FinalizationSettled, Pending
<1>10. CASE ActivationLocks
  BY <1>10 DEF ActivationLocks, FinishActivation, Retries, FinalizationSettled, Pending
<1>11. CASE ActivationRereads
  BY <1>11 DEF ActivationRereads, FinishActivation, Idle, Retries, FinalizationSettled,
       Pending
<1>12. CASE ActivationStarts
  BY <1>12 DEF ActivationStarts, FinishActivation, Started, ControlCreated, Retries,
       FinalizationSettled, Pending
<1>13. CASE ActivationFails
  BY <1>13 DEF ActivationFails, FinishActivation, Fault, Retries, FinalizationSettled,
       Pending
<1>14. ASSUME NEW r \in Runs, Cancel(r)
      PROVE  Retries
  BY <1>14 DEF Cancel, CancelledDoc, FinalizeSession, Retries, FinalizationSettled, Pending
<1>15. ASSUME NEW r \in Runs, CleanupFinalized(r)
      PROVE  Retries
  BY <1>15 DEF CleanupFinalized, Retries, FinalizationSettled, Pending
<1>16. ASSUME NEW r \in Runs, CleanupSettles(r)
      PROVE  Retries
  BY <1>16 DEF CleanupSettles, SettleExecution, SettlementFails, Fault, Retries,
       FinalizationSettled, Pending
<1>17. ASSUME NEW r \in Runs, CleanupActivates(r)
      PROVE  Retries
  BY <1>17 DEF CleanupActivates, RequestActivation, Idle, Retries, FinalizationSettled,
       Pending
<1>18. ASSUME NEW r \in Runs, RevokeSession(r)
      PROVE  Retries
  BY <1>18 DEF RevokeSession, Retries, FinalizationSettled, Pending
<1>19. ASSUME NEW r \in Runs, RevokeFails(r)
      PROVE  Retries
  BY <1>19 DEF RevokeFails, Fault, Retries, FinalizationSettled, Pending
<1>20. ASSUME NEW r \in Runs, CloseSession(r)
      PROVE  Retries
  BY <1>20 DEF CloseSession, Retries, FinalizationSettled, Pending
<1>21. ASSUME NEW r \in Runs, AcquireSession(r)
      PROVE  Retries
  BY <1>21 DEF AcquireSession, ExecTo, Reports, StaysOutside, Retries, FinalizationSettled,
       Pending
<1>22. ASSUME NEW r \in Runs, AcquireFails(r)
      PROVE  Retries
  BY <1>22 DEF AcquireFails, ExecTo, Reports, Fault, StaysOutside, Retries,
       FinalizationSettled, Pending
<1>23. ASSUME NEW r \in Runs, CaptureStartLeaf(r)
      PROVE  Retries
  BY <1>23 DEF CaptureStartLeaf, Checkpoint, ExecTo, StaysOutside, Retries,
       FinalizationSettled, Pending
<1>24. ASSUME NEW r \in Runs, AppendInput(r)
      PROVE  Retries
  BY <1>24 DEF AppendInput, AppendEntry, ExecTo, MayWrite, StaysOutside, Retries,
       FinalizationSettled, Pending
<1>25. ASSUME NEW r \in Runs, CommitInput(r)
      PROVE  Retries
  BY <1>25 DEF CommitInput, Checkpoint, ExecTo, StaysOutside, Retries, FinalizationSettled,
       Pending
<1>26. ASSUME NEW r \in Runs, AppendCall(r)
      PROVE  Retries
  BY <1>26 DEF AppendCall, AppendEntry, ExecTo, MayWrite, StaysOutside, Retries,
       FinalizationSettled, Pending
<1>27. ASSUME NEW r \in Runs, CommitCall(r)
      PROVE  Retries
  BY <1>27 DEF CommitCall, Checkpoint, ExecTo, StaysOutside, Retries, FinalizationSettled,
       Pending
<1>28. ASSUME NEW r \in Runs, ToolReturns(r)
      PROVE  Retries
  BY <1>28 DEF ToolReturns, ExecTo, StaysOutside, Retries, FinalizationSettled, Pending
<1>29. ASSUME NEW r \in Runs, PersistToolResult(r)
      PROVE  Retries
  BY <1>29 DEF PersistToolResult, ExecTo, StaysOutside, Retries, FinalizationSettled,
       Pending
<1>30. ASSUME NEW r \in Runs, PersistToolResultFails(r)
      PROVE  Retries
  BY <1>30 DEF PersistToolResultFails, ExecTo, Reports, Fault, StaysOutside, Retries,
       FinalizationSettled, Pending
<1>31. ASSUME NEW r \in Runs, AppendResults(r)
      PROVE  Retries
  BY <1>31 DEF AppendResults, AppendEntry, ExecTo, MayWrite, StaysOutside, Retries,
       FinalizationSettled, Pending
<1>32. ASSUME NEW r \in Runs, CommitRound(r)
      PROVE  Retries
  BY <1>32 DEF CommitRound, Checkpoint, ExecTo, StaysOutside, Retries, FinalizationSettled,
       Pending
<1>33. ASSUME NEW r \in Runs, AppendAnswer(r)
      PROVE  Retries
  BY <1>33 DEF AppendAnswer, AppendEntry, ExecTo, MayWrite, StaysOutside, Retries,
       FinalizationSettled, Pending
<1>34. ASSUME NEW r \in Runs, CommitAnswer(r)
      PROVE  Retries
  BY <1>34 DEF CommitAnswer, Checkpoint, ExecTo, StaysOutside, Reports, Retries,
       FinalizationSettled, Pending
<1>35. ASSUME NEW r \in Runs, AnswerIsRefused(r)
      PROVE  Retries
  BY <1>35 DEF AnswerIsRefused, Reports, Fault, StaysOutside, Retries, FinalizationSettled,
       Pending
<1>36. ASSUME NEW r \in Runs, CheckpointFails(r)
      PROVE  Retries
  BY <1>36 DEF CheckpointFails, ExecTo, Reports, Fault, StaysOutside, Retries,
       FinalizationSettled, Pending
<1>37. ASSUME NEW r \in Runs, HarnessStops(r)
      PROVE  Retries
  BY <1>37 DEF HarnessStops, ExecTo, Reports, Fault, StaysOutside, Retries,
       FinalizationSettled, Pending
<1>38. ASSUME NEW r \in Runs, ApplyOutcome(r)
      PROVE  Retries
  BY <1>38 DEF ApplyOutcome, ExecTo, StaysOutside, Retries, FinalizationSettled, Pending
<1>39. ASSUME NEW r \in Runs, CommitOutcome(r)
      PROVE  Retries
  BY <1>39 DEF CommitOutcome, CommitAs, FinalizeSession, ExecTo, StaysOutside, Retries,
       FinalizationSettled, Pending
<1>40. ASSUME NEW r \in Runs, CommitFails(r)
      PROVE  Retries
  BY <1>40 DEF CommitFails, CommitAs, FinalizeSession, ExecTo, Fault, StaysOutside, Retries,
       FinalizationSettled, Pending
<1>41. ASSUME NEW r \in Runs, Recommit(r)
      PROVE  Retries
  BY <1>41 DEF Recommit, CommitAs, FinalizeSession, ExecTo, StaysOutside, Retries,
       FinalizationSettled, Pending
<1>42. ASSUME NEW r \in Runs, RecommitFails(r)
      PROVE  Retries
  BY <1>42 DEF RecommitFails, ExecTo, Fault, StaysOutside, Retries, FinalizationSettled,
       Pending
<1>43. ASSUME NEW r \in Runs, ExecutionFinalized(r)
      PROVE  Retries
  BY <1>43 DEF ExecutionFinalized, ExecTo, StaysOutside, Retries, FinalizationSettled,
       Pending
<1>44. ASSUME NEW r \in Runs, ExecutionActivates(r)
      PROVE  Retries
  BY <1>44 DEF ExecutionActivates, ExecTo, RequestActivation, Idle, Retries,
       FinalizationSettled, Pending
<1>45. ASSUME NEW r \in Runs, ExecutionSettles(r)
      PROVE  Retries
  BY <1>45 DEF ExecutionSettles, SettleExecution, SettlementFails, Fault, ExecTo,
       StaysOutside, Retries, FinalizationSettled, Pending
<1>46. ASSUME NEW r \in Runs, ExecutionPosts(r)
      PROVE  Retries
  BY <1>46 DEF ExecutionPosts, ExecTo, RequestActivation, Idle, Retries,
       FinalizationSettled, Pending
<1>47. CASE UNCHANGED vars
  BY <1>47 DEF vars, Retries, FinalizationSettled, Pending
<1> QED
  BY <1>1, <1>2, <1>3, <1>4, <1>5, <1>6, <1>7, <1>8, <1>9, <1>10, <1>11, <1>12, <1>13,
       <1>14, <1>15, <1>16, <1>17, <1>18, <1>19, <1>20, <1>21, <1>22, <1>23, <1>24, <1>25, <1>26,
       <1>27, <1>28, <1>29, <1>30, <1>31, <1>32, <1>33, <1>34, <1>35, <1>36, <1>37, <1>38, <1>39,
       <1>40, <1>41, <1>42, <1>43, <1>44, <1>45, <1>46, <1>47 DEF Next, Submission, Activation,
       Cleanup, Finalization, Loop, Ending

\* A return that is still pending keeps somebody who waits for it.
LEMMA CarriesAwaited ==
  ASSUME Awaited, Retries, NEW q \in Runs, Carries(q), Pending(q)'
  PROVE  \/ cleanup'[q] = "finalizing" \/ exec'[q] \in {"finalizing", "keeping"}
         \/ activation'.pc = "retrying" /\ activation'.run = q
BY DEF Awaited, Retries, Carries

\* Nobody stops to wait while nothing of the run changes.
LEMMA KeepsCarries ==
  ASSUME NEW q, Keeps(q)
  PROVE  Carries(q)
BY DEF Keeps, Carries, Pending

\* Every step leaves each pending return with somebody who waits for it.
LEMMA AwaitedStep ==
  ASSUME Shape, Staged, Births, Admits, Awaited, [Next]_vars
  PROVE  Awaited'
<1>1. Retries
  BY RetriesStep
<1>2. ASSUME \A q \in Runs : Carries(q)
      PROVE  Awaited'
  BY <1>1, <1>2, CarriesAwaited DEF Awaited, Pending
<1>3. ASSUME NEW r \in Runs, Only(r), Carries(r) \/ exec'[r] \in {"finalizing", "keeping"}
                                      \/ cleanup'[r] = "finalizing"
      PROVE  Awaited'
  <2>1. \A q \in Runs \ {r} : Carries(q)
    BY <1>3, KeepsCarries DEF Only
  <2> QED
    BY <1>1, <1>3, <2>1, CarriesAwaited DEF Awaited, Pending
<1>4. CASE SubmitTurn
  BY <1>2, <1>4 DEF SubmitTurn, Carries, Pending
<1>5. CASE SubmissionReads
  BY <1>2, <1>5 DEF SubmissionReads, Carries, Pending
<1>6. CASE SubmissionPublishes
  BY <1>2, <1>6 DEF SubmissionPublishes, Carries, Pending
<1>7. CASE SubmissionFails
  BY <1>2, <1>7 DEF SubmissionFails, Carries, Pending
<1>8. CASE FirstTurnStarts
  <2>1. PICK k \in Nat : /\ NextRun = k + 1
                         /\ submission.pc = "starting" => k \in Runs
    BY NextRunIs
  <2>2. k \in Runs /\ NextRun - 1 = k
    BY <1>8, <2>1 DEF FirstTurnStarts
  <2>3. exec[k] = "idle"
    BY <1>8, <2>2 DEF FirstTurnStarts, Staged, Executes, Ended
  <2> QED
    BY <1>2, <1>8, <2>2, <2>3 DEF FirstTurnStarts, ControlCreated, Carries, Pending, Shape
<1>9. CASE FirstTurnStays
  BY <1>2, <1>9 DEF FirstTurnStays, Carries, Pending
<1>10. CASE ActivationReads
  <2> DEFINE docs == activation.docs
             unfinalized == FinalizationBlocker(Visible(docs, Branch), docs)
  <2>1. CASE UNCHANGED session /\ (UNCHANGED exec \/ FinishActivation(exec))
    BY <1>2, <1>10, <2>1, FinishKeeps, KeepsCarries DEF ActivationReads, Keeps
  <2>2. CASE /\ unfinalized # NoRun /\ FinalizeSession(unfinalized, Keep) /\ UNCHANGED exec
             /\ activation' = [Idle EXCEPT !.pc = "retrying", !.run = unfinalized, !.tried = "finalization"]
    <3>1. PICK r \in Runs : r = unfinalized
      BY <2>2, BranchType, UnfinalizedRun
    <3>2. activation'.pc = "retrying" /\ activation'.run = r
      BY <2>2, <3>1 DEF Idle
    <3>3. \A q \in Runs \ {r} : Carries(q)
      BY <1>10, <2>2, <3>1, FinalizeOnly DEF ActivationReads, Carries, Pending
    <3> QED
      BY <1>1, <3>2, <3>3, CarriesAwaited DEF Awaited, Pending
  <2> QED
    BY <1>10, <2>1, <2>2 DEF ActivationReads
<1>11. CASE ActivationSettles
  <2>1. UNCHANGED <<session, cleanup>> /\ (FinishActivation(exec) \/ UNCHANGED exec)
    BY <1>11 DEF ActivationSettles
  <2> QED
    BY <1>2, <2>1 DEF FinishActivation, Carries, Pending, Shape
<1>12. CASE ActivationRetried
  BY <1>2, <1>12, FinishKeeps, KeepsCarries DEF ActivationRetried, Keeps
<1>13. CASE ActivationLocks
  BY <1>2, <1>13, FinishKeeps, KeepsCarries DEF ActivationLocks, Keeps
<1>14. CASE ActivationRereads
  BY <1>2, <1>14, FinishKeeps, KeepsCarries DEF ActivationRereads, Keeps
<1>15. CASE ActivationStarts
  <2>1. PICK k : k = activation.run
    OBVIOUS
  <2>2. k \in Runs /\ exec[k] = "idle"
    BY <1>15, <2>1 DEF ActivationStarts, Admits, Staged, Executes, Ended
  <2> QED
    BY <1>2, <1>15, <2>1, <2>2 DEF ActivationStarts, FinishActivation, ControlCreated, Carries, Pending, Shape
<1>16. CASE ActivationFails
  BY <1>2, <1>16, FinishKeeps, KeepsCarries DEF ActivationFails, Keeps
<1>17. ASSUME NEW r \in Runs, Cancel(r)
      PROVE  Awaited'
  <2>1. Only(r)
    BY <1>17, Scope DEF Cleanup, Finalization, Loop, Ending
  <2>2. Carries(r) \/ cleanup'[r] = "finalizing"
    BY <1>17 DEF Cancel, Carries, Pending, Shape
  <2> QED
    BY <1>3, <2>1, <2>2
<1>18. ASSUME NEW r \in Runs, CleanupFinalized(r)
      PROVE  Awaited'
  <2>1. Only(r)
    BY <1>18, Scope DEF Cleanup, Finalization, Loop, Ending
  <2>2. Carries(r)
    BY <1>18 DEF CleanupFinalized, Carries, Pending, Shape, FinalizationSettled
  <2> QED
    BY <1>3, <2>1, <2>2
<1>19. ASSUME NEW r \in Runs, CleanupSettles(r)
      PROVE  Awaited'
  <2>1. Only(r)
    BY <1>19, Scope DEF Cleanup, Finalization, Loop, Ending
  <2>2. Carries(r)
    BY <1>19 DEF CleanupSettles, Carries, Pending, Shape
  <2> QED
    BY <1>3, <2>1, <2>2
<1>20. ASSUME NEW r \in Runs, CleanupActivates(r)
      PROVE  Awaited'
  <2>1. Only(r)
    BY <1>20, Scope DEF Cleanup, Finalization, Loop, Ending
  <2>2. Carries(r)
    BY <1>20 DEF CleanupActivates, RequestActivation, Idle, Carries, Pending, Shape
  <2> QED
    BY <1>3, <2>1, <2>2
<1>21. ASSUME NEW r \in Runs, RevokeSession(r)
      PROVE  Awaited'
  <2>1. Only(r)
    BY <1>21, Scope DEF Cleanup, Finalization, Loop, Ending
  <2>2. Carries(r)
    BY <1>21 DEF RevokeSession, Carries, Pending, Shape
  <2> QED
    BY <1>3, <2>1, <2>2
<1>22. ASSUME NEW r \in Runs, RevokeFails(r)
      PROVE  Awaited'
  <2>1. Only(r)
    BY <1>22, Scope DEF Cleanup, Finalization, Loop, Ending
  <2>2. Carries(r)
    BY <1>22 DEF RevokeFails, Carries, Pending, Shape
  <2> QED
    BY <1>3, <2>1, <2>2
<1>23. ASSUME NEW r \in Runs, CloseSession(r)
      PROVE  Awaited'
  <2>1. Only(r)
    BY <1>23, Scope DEF Cleanup, Finalization, Loop, Ending
  <2>2. Carries(r)
    BY <1>23 DEF CloseSession, Carries, Pending, Shape
  <2> QED
    BY <1>3, <2>1, <2>2
<1>24. ASSUME NEW r \in Runs, AcquireSession(r)
      PROVE  Awaited'
  <2>1. Only(r)
    BY <1>24, Scope DEF Cleanup, Finalization, Loop, Ending
  <2>2. Carries(r)
    BY <1>24 DEF AcquireSession, ExecTo, StaysOutside, Carries, Pending, Shape
  <2> QED
    BY <1>3, <2>1, <2>2
<1>25. ASSUME NEW r \in Runs, AcquireFails(r)
      PROVE  Awaited'
  <2>1. Only(r)
    BY <1>25, Scope DEF Cleanup, Finalization, Loop, Ending
  <2>2. Carries(r)
    BY <1>25 DEF AcquireFails, ExecTo, StaysOutside, Carries, Pending, Shape
  <2> QED
    BY <1>3, <2>1, <2>2
<1>26. ASSUME NEW r \in Runs, CaptureStartLeaf(r)
      PROVE  Awaited'
  <2>1. Only(r)
    BY <1>26, Scope DEF Cleanup, Finalization, Loop, Ending
  <2>2. Carries(r)
    BY <1>26 DEF CaptureStartLeaf, Checkpoint, ExecTo, StaysOutside, Carries, Pending, Shape
  <2> QED
    BY <1>3, <2>1, <2>2
<1>27. ASSUME NEW r \in Runs, AppendInput(r)
      PROVE  Awaited'
  <2>1. Only(r)
    BY <1>27, Scope DEF Cleanup, Finalization, Loop, Ending
  <2>2. Carries(r)
    BY <1>27 DEF AppendInput, AppendEntry, ExecTo, MayWrite, StaysOutside, Carries, Pending,
         Shape
  <2> QED
    BY <1>3, <2>1, <2>2
<1>28. ASSUME NEW r \in Runs, CommitInput(r)
      PROVE  Awaited'
  <2>1. Only(r)
    BY <1>28, Scope DEF Cleanup, Finalization, Loop, Ending
  <2>2. Carries(r)
    BY <1>28 DEF CommitInput, Checkpoint, ExecTo, StaysOutside, Carries, Pending, Shape
  <2> QED
    BY <1>3, <2>1, <2>2
<1>29. ASSUME NEW r \in Runs, AppendCall(r)
      PROVE  Awaited'
  <2>1. Only(r)
    BY <1>29, Scope DEF Cleanup, Finalization, Loop, Ending
  <2>2. Carries(r)
    BY <1>29 DEF AppendCall, AppendEntry, ExecTo, MayWrite, StaysOutside, Carries, Pending,
         Shape
  <2> QED
    BY <1>3, <2>1, <2>2
<1>30. ASSUME NEW r \in Runs, CommitCall(r)
      PROVE  Awaited'
  <2>1. Only(r)
    BY <1>30, Scope DEF Cleanup, Finalization, Loop, Ending
  <2>2. Carries(r)
    BY <1>30 DEF CommitCall, Checkpoint, ExecTo, StaysOutside, Carries, Pending, Shape
  <2> QED
    BY <1>3, <2>1, <2>2
<1>31. ASSUME NEW r \in Runs, ToolReturns(r)
      PROVE  Awaited'
  <2>1. Only(r)
    BY <1>31, Scope DEF Cleanup, Finalization, Loop, Ending
  <2>2. Carries(r)
    BY <1>31 DEF ToolReturns, ExecTo, StaysOutside, Carries, Pending, Shape
  <2> QED
    BY <1>3, <2>1, <2>2
<1>32. ASSUME NEW r \in Runs, PersistToolResult(r)
      PROVE  Awaited'
  <2>1. Only(r)
    BY <1>32, Scope DEF Cleanup, Finalization, Loop, Ending
  <2>2. Carries(r)
    BY <1>32 DEF PersistToolResult, ExecTo, StaysOutside, Carries, Pending, Shape
  <2> QED
    BY <1>3, <2>1, <2>2
<1>33. ASSUME NEW r \in Runs, PersistToolResultFails(r)
      PROVE  Awaited'
  <2>1. Only(r)
    BY <1>33, Scope DEF Cleanup, Finalization, Loop, Ending
  <2>2. Carries(r)
    BY <1>33 DEF PersistToolResultFails, ExecTo, StaysOutside, Carries, Pending, Shape
  <2> QED
    BY <1>3, <2>1, <2>2
<1>34. ASSUME NEW r \in Runs, AppendResults(r)
      PROVE  Awaited'
  <2>1. Only(r)
    BY <1>34, Scope DEF Cleanup, Finalization, Loop, Ending
  <2>2. Carries(r)
    BY <1>34 DEF AppendResults, AppendEntry, ExecTo, MayWrite, StaysOutside, Carries, Pending,
         Shape
  <2> QED
    BY <1>3, <2>1, <2>2
<1>35. ASSUME NEW r \in Runs, CommitRound(r)
      PROVE  Awaited'
  <2>1. Only(r)
    BY <1>35, Scope DEF Cleanup, Finalization, Loop, Ending
  <2>2. Carries(r)
    BY <1>35 DEF CommitRound, Checkpoint, ExecTo, StaysOutside, Carries, Pending, Shape
  <2> QED
    BY <1>3, <2>1, <2>2
<1>36. ASSUME NEW r \in Runs, AppendAnswer(r)
      PROVE  Awaited'
  <2>1. Only(r)
    BY <1>36, Scope DEF Cleanup, Finalization, Loop, Ending
  <2>2. Carries(r)
    BY <1>36 DEF AppendAnswer, AppendEntry, ExecTo, MayWrite, StaysOutside, Carries, Pending,
         Shape
  <2> QED
    BY <1>3, <2>1, <2>2
<1>37. ASSUME NEW r \in Runs, CommitAnswer(r)
      PROVE  Awaited'
  <2>1. Only(r)
    BY <1>37, Scope DEF Cleanup, Finalization, Loop, Ending
  <2>2. Carries(r)
    BY <1>37 DEF CommitAnswer, Checkpoint, ExecTo, StaysOutside, Carries, Pending, Shape
  <2> QED
    BY <1>3, <2>1, <2>2
<1>38. ASSUME NEW r \in Runs, AnswerIsRefused(r)
      PROVE  Awaited'
  <2>1. Only(r)
    BY <1>38, Scope DEF Cleanup, Finalization, Loop, Ending
  <2>2. Carries(r)
    BY <1>38 DEF AnswerIsRefused, StaysOutside, Carries, Pending, Shape
  <2> QED
    BY <1>3, <2>1, <2>2
<1>39. ASSUME NEW r \in Runs, CheckpointFails(r)
      PROVE  Awaited'
  <2>1. Only(r)
    BY <1>39, Scope DEF Cleanup, Finalization, Loop, Ending
  <2>2. Carries(r)
    BY <1>39 DEF CheckpointFails, ExecTo, StaysOutside, Carries, Pending, Shape
  <2> QED
    BY <1>3, <2>1, <2>2
<1>40. ASSUME NEW r \in Runs, HarnessStops(r)
      PROVE  Awaited'
  <2>1. Only(r)
    BY <1>40, Scope DEF Cleanup, Finalization, Loop, Ending
  <2>2. Carries(r)
    BY <1>40 DEF HarnessStops, ExecTo, StaysOutside, Carries, Pending, Shape
  <2> QED
    BY <1>3, <2>1, <2>2
<1>41. ASSUME NEW r \in Runs, ApplyOutcome(r)
      PROVE  Awaited'
  <2>1. Only(r)
    BY <1>41, Scope DEF Cleanup, Finalization, Loop, Ending
  <2>2. Carries(r)
    BY <1>41 DEF ApplyOutcome, ExecTo, StaysOutside, Carries, Pending, Shape
  <2> QED
    BY <1>3, <2>1, <2>2
<1>42. ASSUME NEW r \in Runs, CommitOutcome(r)
      PROVE  Awaited'
  <2>1. Only(r)
    BY <1>42, Scope DEF Cleanup, Finalization, Loop, Ending
  <2>2. Carries(r) \/ exec'[r] \in {"finalizing", "keeping"}
    <3>1. exec[r] \in {"committing", "recommitting"} /\ UNCHANGED cleanup
      BY <1>42 DEF CommitOutcome, StaysOutside
    <3>2. CASE UNCHANGED session
      BY <3>1, <3>2 DEF Carries, Pending
    <3>3. CASE \E status : \E to \in {"finalizing", "keeping"} : CommitAs(r, status, to)
      BY <3>3 DEF CommitAs, ExecTo, Shape
    <3> QED
      BY <1>42, <3>2, <3>3 DEF CommitOutcome
  <2> QED
    BY <1>3, <2>1, <2>2
<1>43. ASSUME NEW r \in Runs, CommitFails(r)
      PROVE  Awaited'
  <2>1. Only(r)
    BY <1>43, Scope DEF Cleanup, Finalization, Loop, Ending
  <2>2. Carries(r) \/ exec'[r] \in {"finalizing", "keeping"}
    <3>1. exec[r] \in {"committing", "recommitting"} /\ UNCHANGED cleanup
      BY <1>43 DEF CommitFails, StaysOutside
    <3>2. CASE UNCHANGED session
      BY <3>1, <3>2 DEF Carries, Pending
    <3>3. CASE \E status : \E to \in {"finalizing", "keeping"} : CommitAs(r, status, to)
      BY <3>3 DEF CommitAs, ExecTo, Shape
    <3> QED
      BY <1>43, <3>2, <3>3 DEF CommitFails
  <2> QED
    BY <1>3, <2>1, <2>2
<1>44. ASSUME NEW r \in Runs, Recommit(r)
      PROVE  Awaited'
  <2>1. Only(r)
    BY <1>44, Scope DEF Cleanup, Finalization, Loop, Ending
  <2>2. Carries(r) \/ exec'[r] \in {"finalizing", "keeping"}
    <3>1. exec[r] \in {"committing", "recommitting"} /\ UNCHANGED cleanup
      BY <1>44 DEF Recommit, StaysOutside
    <3>2. CASE UNCHANGED session
      BY <3>1, <3>2 DEF Carries, Pending
    <3>3. CASE \E status : \E to \in {"finalizing", "keeping"} : CommitAs(r, status, to)
      BY <3>3 DEF CommitAs, ExecTo, Shape
    <3> QED
      BY <1>44, <3>2, <3>3 DEF Recommit
  <2> QED
    BY <1>3, <2>1, <2>2
<1>45. ASSUME NEW r \in Runs, RecommitFails(r)
      PROVE  Awaited'
  <2>1. Only(r)
    BY <1>45, Scope DEF Cleanup, Finalization, Loop, Ending
  <2>2. Carries(r)
    BY <1>45 DEF RecommitFails, ExecTo, StaysOutside, Carries, Pending, Shape
  <2> QED
    BY <1>3, <2>1, <2>2
<1>46. ASSUME NEW r \in Runs, ExecutionFinalized(r)
      PROVE  Awaited'
  <2>1. Only(r)
    BY <1>46, Scope DEF Cleanup, Finalization, Loop, Ending
  <2>2. Carries(r)
    BY <1>46 DEF ExecutionFinalized, ExecTo, StaysOutside, Carries, Pending, Shape,
         FinalizationSettled
  <2> QED
    BY <1>3, <2>1, <2>2
<1>47. ASSUME NEW r \in Runs, ExecutionActivates(r)
      PROVE  Awaited'
  <2>1. Only(r)
    BY <1>47, Scope DEF Cleanup, Finalization, Loop, Ending
  <2>2. Carries(r)
    BY <1>47 DEF ExecutionActivates, ExecTo, RequestActivation, Idle, Carries, Pending, Shape
  <2> QED
    BY <1>3, <2>1, <2>2
<1>48. ASSUME NEW r \in Runs, ExecutionSettles(r)
      PROVE  Awaited'
  <2>1. Only(r)
    BY <1>48, Scope DEF Cleanup, Finalization, Loop, Ending
  <2>2. Carries(r)
    BY <1>48 DEF ExecutionSettles, ExecTo, StaysOutside, Carries, Pending, Shape
  <2> QED
    BY <1>3, <2>1, <2>2
<1>49. ASSUME NEW r \in Runs, ExecutionPosts(r)
      PROVE  Awaited'
  <2>1. Only(r)
    BY <1>49, Scope DEF Cleanup, Finalization, Loop, Ending
  <2>2. Carries(r)
    BY <1>49 DEF ExecutionPosts, ExecTo, RequestActivation, Idle, Carries, Pending, Shape
  <2> QED
    BY <1>3, <2>1, <2>2
<1>50. CASE UNCHANGED vars
  BY <1>2, <1>50 DEF vars, Carries, Pending
<1> QED
  BY <1>4, <1>5, <1>6, <1>7, <1>8, <1>9, <1>10, <1>11, <1>12, <1>13, <1>14, <1>15, <1>16,
       <1>17, <1>18, <1>19, <1>20, <1>21, <1>22, <1>23, <1>24, <1>25, <1>26, <1>27, <1>28, <1>29,
       <1>30, <1>31, <1>32, <1>33, <1>34, <1>35, <1>36, <1>37, <1>38, <1>39, <1>40, <1>41, <1>42,
       <1>43, <1>44, <1>45, <1>46, <1>47, <1>48, <1>49, <1>50 DEF Next, Submission, Activation,
       Cleanup, Finalization, Loop, Ending

\* How the transcript changes: the session that holds it appends, its revocation goes
\* back, and a settlement closes a round when nobody holds it.
Appends(r, e) ==
  /\ control[r] = "attached" /\ e \in Entries
  /\ leaf' = e /\ pathTo' = [pathTo EXCEPT ![e] = Append(Branch, e)]
Reconciles(r) ==
  /\ \A q \in Runs : control[q] # "attached" /\ control'[q] # "attached"
  /\ leaf' = <<r, "result">>
  /\ pathTo' = [pathTo EXCEPT ![<<r, "result">>] = Append(pathTo[<<r, "call">>], <<r, "result">>)]
TranscriptMoves ==
  \/ UNCHANGED transcript
  \/ \E r \in Runs : RevokeSession(r) \/ Reconciles(r) \/ \E e \in Entries : Appends(r, e)

\* A settlement leaves the transcript, or appends the missing result and returns.
LEMMA SettleMoves ==
  ASSUME NEW r \in Runs, NEW ok, SettleExecution(r, ok) \/ SettlementFails(r), UNCHANGED session
  PROVE  TranscriptMoves
BY DEF SettleExecution, SettlementFails, MayReconcileRound, TranscriptMoves, Reconciles

\* An append writes one new entry behind the leaf.
LEMMA AppendMoves ==
  ASSUME NEW r \in Runs, NEW from, NEW kind \in Kinds, NEW to, AppendEntry(r, from, kind, to)
  PROVE  TranscriptMoves
<1>1. PICK e \in Entries : e = <<r, kind>>
  BY Names
<1>2. Appends(r, e)
  BY <1>1 DEF AppendEntry, Appends, MayWrite
<1> QED
  BY <1>2 DEF TranscriptMoves

\* Every step leaves the transcript, appends to it, settles a round on it, or revokes a turn.
LEMMA TranscriptStep ==
  ASSUME Shape, Admits, [Next]_vars
  PROVE  TranscriptMoves
<1>0. {"input", "call", "result", "answer"} = Kinds
  BY DEF Kinds
<1>1. CASE SubmitTurn
  BY <1>1 DEF SubmitTurn, NoSubmission, TranscriptMoves
<1>2. CASE SubmissionReads
  BY <1>2 DEF SubmissionReads, NoSubmission, TranscriptMoves
<1>3. CASE SubmissionPublishes
  BY <1>3 DEF SubmissionPublishes, RequestActivation, NoSubmission, Idle, TranscriptMoves
<1>4. CASE SubmissionFails
  BY <1>4 DEF SubmissionFails, Fault, NoSubmission, TranscriptMoves
<1>5. CASE FirstTurnStarts
  BY <1>5 DEF FirstTurnStarts, Started, ControlCreated, NoSubmission, TranscriptMoves
<1>6. CASE FirstTurnStays
  BY <1>6 DEF FirstTurnStays, Fault, RequestActivation, NoSubmission, Idle, TranscriptMoves
<1>7. CASE ActivationReads
  BY <1>7 DEF ActivationReads, FinishActivation, FinalizeSession, Idle, TranscriptMoves
<1>8. CASE ActivationSettles
  <2>1. PICK k : k = activation.run
    OBVIOUS
  <2>2. k \in Runs
    BY <1>8, <2>1 DEF ActivationSettles, Admits
  <2> QED
    BY <1>8, <2>1, <2>2, SettleMoves DEF ActivationSettles
<1>9. CASE ActivationRetried
  BY <1>9 DEF ActivationRetried, FinishActivation, TranscriptMoves
<1>10. CASE ActivationLocks
  BY <1>10 DEF ActivationLocks, FinishActivation, TranscriptMoves
<1>11. CASE ActivationRereads
  BY <1>11 DEF ActivationRereads, FinishActivation, Idle, TranscriptMoves
<1>12. CASE ActivationStarts
  BY <1>12 DEF ActivationStarts, FinishActivation, Started, ControlCreated, TranscriptMoves
<1>13. CASE ActivationFails
  BY <1>13 DEF ActivationFails, FinishActivation, Fault, TranscriptMoves
<1>14. ASSUME NEW r \in Runs, Cancel(r)
      PROVE  TranscriptMoves
  BY <1>14 DEF Cancel, CancelledDoc, FinalizeSession, TranscriptMoves
<1>15. ASSUME NEW r \in Runs, CleanupFinalized(r)
      PROVE  TranscriptMoves
  BY <1>15 DEF CleanupFinalized, TranscriptMoves
<1>16. ASSUME NEW r \in Runs, CleanupSettles(r)
      PROVE  TranscriptMoves
  BY <1>16, SettleMoves DEF CleanupSettles
<1>17. ASSUME NEW r \in Runs, CleanupActivates(r)
      PROVE  TranscriptMoves
  BY <1>17 DEF CleanupActivates, RequestActivation, Idle, TranscriptMoves
<1>18. ASSUME NEW r \in Runs, RevokeSession(r)
      PROVE  TranscriptMoves
  BY <1>18 DEF TranscriptMoves
<1>19. ASSUME NEW r \in Runs, RevokeFails(r)
      PROVE  TranscriptMoves
  BY <1>19 DEF RevokeFails, Fault, TranscriptMoves
<1>20. ASSUME NEW r \in Runs, CloseSession(r)
      PROVE  TranscriptMoves
  BY <1>20 DEF CloseSession, TranscriptMoves
<1>21. ASSUME NEW r \in Runs, AcquireSession(r)
      PROVE  TranscriptMoves
  BY <1>21 DEF AcquireSession, ExecTo, Reports, StaysOutside, TranscriptMoves
<1>22. ASSUME NEW r \in Runs, AcquireFails(r)
      PROVE  TranscriptMoves
  BY <1>22 DEF AcquireFails, ExecTo, Reports, Fault, StaysOutside, TranscriptMoves
<1>23. ASSUME NEW r \in Runs, CaptureStartLeaf(r)
      PROVE  TranscriptMoves
  BY <1>23 DEF CaptureStartLeaf, Checkpoint, ExecTo, StaysOutside, TranscriptMoves
<1>24. ASSUME NEW r \in Runs, AppendInput(r)
      PROVE  TranscriptMoves
  BY <1>0, <1>24, AppendMoves DEF AppendInput
<1>25. ASSUME NEW r \in Runs, CommitInput(r)
      PROVE  TranscriptMoves
  BY <1>25 DEF CommitInput, Checkpoint, ExecTo, StaysOutside, TranscriptMoves
<1>26. ASSUME NEW r \in Runs, AppendCall(r)
      PROVE  TranscriptMoves
  BY <1>0, <1>26, AppendMoves DEF AppendCall
<1>27. ASSUME NEW r \in Runs, CommitCall(r)
      PROVE  TranscriptMoves
  BY <1>27 DEF CommitCall, Checkpoint, ExecTo, StaysOutside, TranscriptMoves
<1>28. ASSUME NEW r \in Runs, ToolReturns(r)
      PROVE  TranscriptMoves
  BY <1>28 DEF ToolReturns, ExecTo, StaysOutside, TranscriptMoves
<1>29. ASSUME NEW r \in Runs, PersistToolResult(r)
      PROVE  TranscriptMoves
  BY <1>29 DEF PersistToolResult, ExecTo, StaysOutside, TranscriptMoves
<1>30. ASSUME NEW r \in Runs, PersistToolResultFails(r)
      PROVE  TranscriptMoves
  BY <1>30 DEF PersistToolResultFails, ExecTo, Reports, Fault, StaysOutside, TranscriptMoves
<1>31. ASSUME NEW r \in Runs, AppendResults(r)
      PROVE  TranscriptMoves
  BY <1>0, <1>31, AppendMoves DEF AppendResults
<1>32. ASSUME NEW r \in Runs, CommitRound(r)
      PROVE  TranscriptMoves
  BY <1>32 DEF CommitRound, Checkpoint, ExecTo, StaysOutside, TranscriptMoves
<1>33. ASSUME NEW r \in Runs, AppendAnswer(r)
      PROVE  TranscriptMoves
  BY <1>0, <1>33, AppendMoves DEF AppendAnswer
<1>34. ASSUME NEW r \in Runs, CommitAnswer(r)
      PROVE  TranscriptMoves
  BY <1>34 DEF CommitAnswer, Checkpoint, ExecTo, StaysOutside, Reports, TranscriptMoves
<1>35. ASSUME NEW r \in Runs, AnswerIsRefused(r)
      PROVE  TranscriptMoves
  BY <1>35 DEF AnswerIsRefused, Reports, Fault, StaysOutside, TranscriptMoves
<1>36. ASSUME NEW r \in Runs, CheckpointFails(r)
      PROVE  TranscriptMoves
  BY <1>36 DEF CheckpointFails, ExecTo, Reports, Fault, StaysOutside, TranscriptMoves
<1>37. ASSUME NEW r \in Runs, HarnessStops(r)
      PROVE  TranscriptMoves
  BY <1>37 DEF HarnessStops, ExecTo, Reports, Fault, StaysOutside, TranscriptMoves
<1>38. ASSUME NEW r \in Runs, ApplyOutcome(r)
      PROVE  TranscriptMoves
  BY <1>38 DEF ApplyOutcome, ExecTo, StaysOutside, TranscriptMoves
<1>39. ASSUME NEW r \in Runs, CommitOutcome(r)
      PROVE  TranscriptMoves
  BY <1>39 DEF CommitOutcome, CommitAs, FinalizeSession, ExecTo, StaysOutside,
       TranscriptMoves
<1>40. ASSUME NEW r \in Runs, CommitFails(r)
      PROVE  TranscriptMoves
  BY <1>40 DEF CommitFails, CommitAs, FinalizeSession, ExecTo, Fault, StaysOutside,
       TranscriptMoves
<1>41. ASSUME NEW r \in Runs, Recommit(r)
      PROVE  TranscriptMoves
  BY <1>41 DEF Recommit, CommitAs, FinalizeSession, ExecTo, StaysOutside, TranscriptMoves
<1>42. ASSUME NEW r \in Runs, RecommitFails(r)
      PROVE  TranscriptMoves
  BY <1>42 DEF RecommitFails, ExecTo, Fault, StaysOutside, TranscriptMoves
<1>43. ASSUME NEW r \in Runs, ExecutionFinalized(r)
      PROVE  TranscriptMoves
  BY <1>43 DEF ExecutionFinalized, ExecTo, StaysOutside, TranscriptMoves
<1>44. ASSUME NEW r \in Runs, ExecutionActivates(r)
      PROVE  TranscriptMoves
  BY <1>44 DEF ExecutionActivates, ExecTo, RequestActivation, Idle, TranscriptMoves
<1>45. ASSUME NEW r \in Runs, ExecutionSettles(r)
      PROVE  TranscriptMoves
  BY <1>45, SettleMoves DEF ExecutionSettles
<1>46. ASSUME NEW r \in Runs, ExecutionPosts(r)
      PROVE  TranscriptMoves
  BY <1>46 DEF ExecutionPosts, ExecTo, RequestActivation, Idle, TranscriptMoves
<1>47. CASE UNCHANGED vars
  BY <1>47 DEF vars, TranscriptMoves
<1> QED
  BY <1>1, <1>2, <1>3, <1>4, <1>5, <1>6, <1>7, <1>8, <1>9, <1>10, <1>11, <1>12, <1>13,
       <1>14, <1>15, <1>16, <1>17, <1>18, <1>19, <1>20, <1>21, <1>22, <1>23, <1>24, <1>25, <1>26,
       <1>27, <1>28, <1>29, <1>30, <1>31, <1>32, <1>33, <1>34, <1>35, <1>36, <1>37, <1>38, <1>39,
       <1>40, <1>41, <1>42, <1>43, <1>44, <1>45, <1>46, <1>47 DEF Next, Submission, Activation,
       Cleanup, Finalization, Loop, Ending

\* What a path looks like with one more entry.
LEMMA Appended ==
  ASSUME NEW s \in Seq(Entries), NEW e \in Entries
  PROVE  /\ Append(s, e) \in Seq(Entries) /\ Append(s, e) # <<>> /\ Last(Append(s, e)) = e
         /\ ToSet(Append(s, e)) = ToSet(s) \cup {e}
<1>1. PICK t : t = Append(s, e)
  OBVIOUS
<1>2. /\ t \in Seq(Entries) /\ Len(t) = Len(s) + 1 /\ t[Len(t)] = e
      /\ \A i \in 1 .. Len(s) : t[i] = s[i]
  BY <1>1, AppendProperties
<1>3. Len(s) \in Nat /\ DOMAIN s = 1 .. Len(s) /\ DOMAIN t = 1 .. (Len(s) + 1)
  BY <1>2, LenProperties
<1>4. t # <<>> /\ Last(t) = e
  BY <1>2, <1>3 DEF Last
<1>5. ToSet(t) = ToSet(s) \cup {e}
  <2>1. \A i \in 1 .. (Len(s) + 1) : i \in 1 .. Len(s) \/ i = Len(t)
    BY <1>2, <1>3
  <2>2. Len(t) \in 1 .. (Len(s) + 1) /\ 1 .. Len(s) \subseteq 1 .. (Len(s) + 1)
    BY <1>2, <1>3
  <2> QED
    BY <1>2, <1>3, <2>1, <2>2 DEF ToSet
<1> QED
  BY <1>1, <1>2, <1>4, <1>5

\* The last of a sequence is one of its elements.
LEMMA Lasts ==
  ASSUME NEW s \in Seq(Entries), s # <<>>
  PROVE  Last(s) \in ToSet(s)
<1>1. Len(s) \in DOMAIN s
  BY EmptySeq, LenProperties
<1> QED
  BY <1>1 DEF Last, ToSet

\* A path consists of entries.
LEMMA PathEntries ==
  ASSUME NEW s \in Seq(Entries)
  PROVE  ToSet(s) \subseteq Entries
BY ElementOfSeq, LenProperties DEF ToSet

\* A path whose entries are written, with one more entry, is one too.
LEMMA WrittenWith ==
  ASSUME Shape, Written, NEW s \in Seq(Entries), \A x \in ToSet(s) : pathTo[x] # <<>>,
         NEW e \in Entries, leaf' = e, pathTo' = [pathTo EXCEPT ![e] = Append(s, e)]
  PROVE  Written'
<1>1. PICK t : t = Append(s, e) /\ t # <<>> /\ Last(t) = e /\ ToSet(t) = ToSet(s) \cup {e}
  BY Appended
<1>2. pathTo'[e] = t /\ \A x \in Entries \ {e} : pathTo'[x] = pathTo[x]
  BY <1>1 DEF Shape
<1>3. \A x \in Entries : pathTo[x] # <<>> => pathTo'[x] # <<>>
  BY <1>1, <1>2
<1>4. \A y \in Entries : ToSet(pathTo[y]) \subseteq Entries
  BY PathEntries DEF Shape
<1>5. ToSet(s) \subseteq Entries
  BY PathEntries
<1>6. ASSUME NEW y \in Entries
      PROVE  /\ pathTo'[y] = <<>> \/ Last(pathTo'[y]) = y
             /\ \A x \in ToSet(pathTo'[y]) : pathTo'[x] # <<>>
  <2>1. CASE y = e
    BY <1>1, <1>2, <1>3, <1>5, <2>1
  <2>2. CASE y # e
    BY <1>2, <1>3, <1>4, <2>2 DEF Written
  <2> QED
    BY <2>1, <2>2
<1> QED
  BY <1>1, <1>2, <1>6 DEF Written

\* Every entry on the active branch has been written, and the leaf can be gone back to.
LEMMA BranchWritten ==
  ASSUME Shape, Written
  PROVE  /\ ToSet(Branch) \subseteq Entries /\ \A x \in ToSet(Branch) : pathTo[x] # <<>>
         /\ leaf \in Reach
<1>1. CASE leaf = Root
  BY <1>1, EmptySeq DEF Branch, ToSet, Reach
<1>2. CASE leaf # Root
  <2>1. leaf \in Entries /\ Branch = pathTo[leaf] /\ pathTo[leaf] \in Seq(Entries)
    BY <1>2 DEF Shape, Leaves, Branch
  <2>2. Last(pathTo[leaf]) = leaf /\ pathTo[leaf] # <<>> /\ \A x \in ToSet(pathTo[leaf]) : pathTo[x] # <<>>
    BY <1>2, <2>1 DEF Written
  <2> QED
    BY <2>1, <2>2, Lasts, PathEntries DEF Reach
<1> QED
  BY <1>1, <1>2

\* Every step keeps the transcript a tree of written entries.
LEMMA WrittenStep ==
  ASSUME Shape, Staged, Admits, Written, Behind, [Next]_vars
  PROVE  Written'
<1>1. TranscriptMoves
  BY TranscriptStep
<1>2. Branch \in Seq(Entries)
  BY BranchType
<1>3. CASE UNCHANGED transcript
  BY <1>3 DEF Written
<1>4. ASSUME NEW r \in Runs, NEW e \in Entries, Appends(r, e)
      PROVE  Written'
  BY <1>2, <1>4, BranchWritten, WrittenWith DEF Appends
<1>5. ASSUME NEW r \in Runs, Reconciles(r)
      PROVE  Written'
  <2>1. PICK call \in Entries, e \in Entries : call = <<r, "call">> /\ e = <<r, "result">>
    BY Names DEF Kinds
  <2>2. PICK s \in Seq(Entries) : s = pathTo[call]
    BY DEF Shape
  <2>3. \A x \in ToSet(s) : pathTo[x] # <<>>
    BY <2>2 DEF Written
  <2>4. leaf' = e /\ pathTo' = [pathTo EXCEPT ![e] = Append(s, e)]
    BY <1>5, <2>1, <2>2 DEF Reconciles
  <2> QED
    BY <2>3, <2>4, WrittenWith
<1>6. ASSUME NEW r \in Runs, RevokeSession(r)
      PROVE  Written'
  <2>1. target[r] \in Reach /\ leaf' = target[r] /\ pathTo' = pathTo
    BY <1>6 DEF RevokeSession, Behind, Holds, Near
  <2>2. target[r] # Root => pathTo[target[r]] # <<>>
    BY <2>1, BranchWritten DEF Reach
  <2> QED
    BY <2>1, <2>2 DEF Written
<1> QED
  BY <1>1, <1>3, <1>4, <1>5, <1>6 DEF TranscriptMoves

\* Whatever a run may go back to stays within the entries that lie behind the leaf.
NearNext(B, q) == Holds(q)' => Near(B, q)'

\* A run stays near the branch while nothing of it changes.
LEMMA KeepsNear ==
  ASSUME NEW B, NEW q, Holds(q) => Near(B, q), Keeps(q)
  PROVE  NearNext(B, q)
BY DEF NearNext, Holds, Near, Keeps

\* A settlement keeps its run near a branch that holds the new leaf.
LEMMA SettleNear ==
  ASSUME Shape, NEW B, NEW q \in Runs, Holds(q) => Near(B, q), leaf' \in B, NEW ok,
         SettleExecution(q, ok) \/ SettlementFails(q), UNCHANGED <<session, safe>>,
         exec'[q] = exec[q] \/ exec'[q] \in {"settling", "posting"}
  PROVE  NearNext(B, q)
<1>1. doc[q] \in Snapshots
  BY DEF Shape, Docs
<1>2. CASE doc' = doc
  BY <1>2 DEF NearNext, Holds, Near
<1>3. CASE doc' = [doc EXCEPT ![q].round = FALSE, ![q].end = leaf']
  <2>1. doc'[q].start = doc[q].start /\ doc'[q].end = leaf'
    BY <1>1, <1>3 DEF Shape, Docs, Snapshots
  <2> QED
    BY <2>1 DEF NearNext, Holds, Near
<1> QED
  BY <1>2, <1>3 DEF SettleExecution, SettlementFails

\* A revocation goes back to where the turn started, to its end, or to the root.
LEMMA RollbackNear ==
  ASSUME NEW B, Root \in B, NEW d, d.start \in B, d.end \in B
  PROVE  RollbackLeaf(d) \in B
BY DEF RollbackLeaf

\* A saved end that gives the session back by a revocation goes back to what is safe.
LEMMA CommitNear ==
  ASSUME Shape, NEW q \in Runs, Stage(q), ~Terminal(doc[q]), NEW B, Root \in B,
         Holds(q) => Near(B, q), NEW status \in Ended, NEW to \in {"finalizing", "keeping"},
         CommitAs(q, status, to), UNCHANGED safe
  PROVE  NearNext(B, q)
<1>1. doc'[q] = EndedDoc(q, status) /\ exec'[q] = to /\ doc[q] \in Snapshots
  BY DEF CommitAs, ExecTo, Shape, Docs
<1>2. finalization[q] = "no" /\ q \notin failures
  BY DEF Stage, Finalizes
<1>3. CASE control[q] # "attached"
  BY <1>3 DEF CommitAs, FinalizeSession, NearNext, Holds
<1>4. CASE control[q] = "attached" /\ status # "failed"
  <2>1. finalization'[q] = "closing"
    BY <1>2, <1>4 DEF CommitAs, FinalizeSession, Shape
  <2> QED
    BY <2>1 DEF NearNext, Holds
<1>5. CASE control[q] = "attached" /\ status = "failed"
  <2>1. Near(B, q)
    BY <1>2, <1>5 DEF Holds
  <2>2. EndedDoc(q, status).start = doc[q].start /\ EndedDoc(q, status).end \in {doc[q].end, Root, safe[q]}
    BY <1>1, <1>5 DEF EndedDoc, Snapshots
  <2>3. doc'[q].start \in B /\ doc'[q].end \in B
    BY <1>1, <2>1, <2>2 DEF Near
  <2>4. RollbackLeaf(doc'[q]) \in B
    <3>1. PICK d : d = doc'[q]
      OBVIOUS
    <3> QED
      BY <2>3, <3>1, RollbackNear
  <2>5. target'[q] = RollbackLeaf(doc'[q])
    BY <1>2, <1>5 DEF CommitAs, FinalizeSession, Shape
  <2> QED
    BY <1>1, <2>1, <2>3, <2>4, <2>5 DEF NearNext, Near
<1> QED
  BY <1>3, <1>4, <1>5

\* Every step keeps a run that holds the session near the branch.
LEMMA NearStep ==
  ASSUME Shape, Staged, Births, Admits, [Next]_vars, NEW q \in Runs,
         NEW B, Root \in B, leaf \in B, leaf' \in B, Holds(q) => Near(B, q)
  PROVE  NearNext(B, q)
<1>1. Stage(q) /\ doc[q] \in Snapshots
  BY DEF Staged, Stage, Shape, Docs
<1>2. ASSUME Keeps(q)
      PROVE  NearNext(B, q)
  BY <1>2, KeepsNear
<1>3. ASSUME NEW r \in Runs, Only(r), r # q
      PROVE  NearNext(B, q)
  BY <1>2, <1>3 DEF Only
<1>4. ASSUME control'[q] # "attached"
      PROVE  NearNext(B, q)
  BY <1>4 DEF NearNext, Holds
<1>5. CASE SubmitTurn
  BY <1>2, <1>5 DEF SubmitTurn, Keeps
<1>6. CASE SubmissionReads
  BY <1>2, <1>6 DEF SubmissionReads, Keeps
<1>7. CASE SubmissionPublishes
  <2>1. PICK k \in Nat : /\ NextRun = k + 1 /\ Present(doc) = 1 .. k
                         /\ submission.pc \in {"reading", "persisting"} => k + 1 \in Runs
    BY NextRunIs
  <2>2. CASE q = k + 1
    <3>1. doc[q].status = "absent"
      BY <2>1, <2>2 DEF Present
    <3>2. control[q] = "none"
      BY <1>1, <3>1 DEF Stage, Executes, Ended
    <3> QED
      BY <1>4, <1>7, <3>2 DEF SubmissionPublishes
  <2>3. CASE q # k + 1
    BY <1>2, <1>7, <2>1, <2>3 DEF SubmissionPublishes, Keeps, Shape, Docs
  <2> QED
    BY <2>2, <2>3
<1>8. CASE SubmissionFails
  BY <1>2, <1>8 DEF SubmissionFails, Keeps
<1>9. CASE FirstTurnStarts
  <2>1. PICK k : k = NextRun - 1
    OBVIOUS
  <2>2. CASE q = k
    BY <1>4, <1>9, <2>1, <2>2 DEF FirstTurnStarts, ControlCreated, Shape
  <2>3. CASE q # k
    BY <1>2, <1>9, <2>1, <2>3 DEF FirstTurnStarts, Started, ControlCreated, Keeps, Shape, Docs
  <2> QED
    BY <2>2, <2>3
<1>10. CASE FirstTurnStays
  BY <1>2, <1>10 DEF FirstTurnStays, Keeps
<1>11. CASE ActivationReads
  <2> DEFINE docs == activation.docs
             unfinalized == FinalizationBlocker(Visible(docs, Branch), docs)
  <2>1. CASE UNCHANGED session /\ (UNCHANGED exec \/ FinishActivation(exec))
    BY <1>2, <1>11, <2>1, FinishKeeps DEF ActivationReads, Keeps
  <2>2. CASE /\ unfinalized # NoRun /\ FinalizeSession(unfinalized, Keep) /\ UNCHANGED exec
    <3>1. PICK r \in Runs : r = unfinalized /\ r \in failures /\ FinalizeSession(r, Keep)
      BY <2>2, BranchType, UnfinalizedRun
    <3>2. UNCHANGED <<doc, safe, exec>>
      BY <1>11, <2>2 DEF ActivationReads
    <3>3. CASE q = r
      <4>1. finalization[q] # "no" /\ target'[q] = target[q] /\ control' = control
        BY <1>1, <3>1, <3>3 DEF Stage, Finalizes, FinalizeSession, Shape
      <4>2. finalization[q] = "closing" => finalization'[q] \in {"no", "closing"}
        BY <3>1, <3>3 DEF FinalizeSession, Shape
      <4>3. finalization'[q] = "no" => control[q] = "none"
        BY <3>1, <3>3, <4>1 DEF FinalizeSession, Shape
      <4> QED
        BY <3>2, <4>1, <4>2, <4>3 DEF NearNext, Holds, Near
    <3>4. CASE q # r
      BY <1>2, <1>11, <3>1, <3>2, <3>4, FinalizeOnly DEF ActivationReads, Keeps
    <3> QED
      BY <3>3, <3>4
  <2> QED
    BY <1>11, <2>1, <2>2 DEF ActivationReads
<1>12. CASE ActivationSettles
  <2>1. PICK k : k = activation.run
    OBVIOUS
  <2>2. k \in Runs
    BY <1>12, <2>1 DEF ActivationSettles, Admits
  <2>3. PICK ok : SettleExecution(k, ok) \/ SettlementFails(k)
    BY <1>12, <2>1 DEF ActivationSettles
  <2>4. UNCHANGED <<outcome, safe, session, cleanup>> /\ (FinishActivation(exec) \/ UNCHANGED exec)
    BY <1>12 DEF ActivationSettles
  <2>5. \A p \in Runs : exec'[p] = exec[p] \/ (exec[p] = "joined" /\ exec'[p] = "settling")
    BY <2>4 DEF FinishActivation, Shape
  <2>6. CASE k = q
    BY <2>3, <2>4, <2>5, <2>6, SettleNear
  <2>7. CASE k # q
    BY <1>2, <2>2, <2>3, <2>4, <2>5, <2>7, SettleOnly DEF Keeps
  <2> QED
    BY <2>6, <2>7
<1>13. CASE ActivationRetried
  BY <1>2, <1>13, FinishKeeps DEF ActivationRetried, Keeps
<1>14. CASE ActivationLocks
  BY <1>2, <1>14, FinishKeeps DEF ActivationLocks, Keeps
<1>15. CASE ActivationRereads
  BY <1>2, <1>15, FinishKeeps DEF ActivationRereads, Keeps
<1>16. CASE ActivationStarts
  <2>1. PICK k : k = activation.run
    OBVIOUS
  <2>2. CASE q = k
    BY <1>4, <1>16, <2>1, <2>2 DEF ActivationStarts, ControlCreated, Shape
  <2>3. CASE q # k
    <3>1. k \in Runs
      BY <1>16, <2>1 DEF ActivationStarts, Admits
    <3> DEFINE E == [exec EXCEPT ![k] = "acquiring"]
    <3>2. FinishActivation(E) /\ \A p \in Runs \ {k} : E[p] = exec[p]
      BY <1>16, <2>1 DEF ActivationStarts, Shape
    <3> HIDE DEF E
    <3>3. exec'[q] = exec[q] \/ (exec[q] = "joined" /\ exec'[q] = "settling")
      BY <2>3, <3>1, <3>2, FinishOnly
    <3> QED
      BY <1>2, <1>16, <2>1, <2>3, <3>3 DEF ActivationStarts, Started, ControlCreated, Keeps, Shape, Docs
  <2> QED
    BY <2>2, <2>3
<1>17. CASE ActivationFails
  BY <1>2, <1>17, FinishKeeps DEF ActivationFails, Keeps
<1>18. ASSUME NEW r \in Runs, Cancel(r)
      PROVE  NearNext(B, q)
  <2>0. CASE r # q
    BY <1>3, <1>18, <2>0, Scope DEF Cleanup, Finalization, Loop, Ending
  <2>9. CASE r = q
    <3> DEFINE d == IF Terminal(doc[q]) THEN doc[q] ELSE CancelledDoc(doc[q])
    <3>1. doc'[q] = d /\ UNCHANGED <<exec, safe, control>>
      BY <1>18, <2>9 DEF Cancel, FinalizeSession, Shape, Docs
    <3>2. d.start = doc[q].start /\ d.end = doc[q].end /\ (d.status = "completed" => d = doc[q])
      BY <1>1 DEF CancelledDoc, Snapshots
    <3>3. CASE UNCHANGED session
      BY <3>1, <3>2, <3>3 DEF NearNext, Holds, Near
    <3>4. CASE /\ FinalizeSession(q, IF d.status = "completed" THEN Keep ELSE RollbackLeaf(d))
               /\ ~Terminal(doc[q]) \/ finalization[q] # "no"
      <4>1. CASE control[q] # "attached" \/ finalization[q] = "closing"
        BY <3>1, <3>4, <4>1 DEF FinalizeSession, NearNext, Holds, Shape
      <4>2. CASE control[q] = "attached" /\ finalization[q] # "closing"
        <5>1. Near(B, q)
          BY <4>2 DEF Holds
        <5>2. d.status # "completed"
          BY <1>1, <3>2, <3>4, <4>2 DEF Stage, Finalizes, Terminal, Ended
        <5>3. RollbackLeaf(d) \in B
          <6>1. PICK e : e = d
            OBVIOUS
          <6> QED
            BY <3>2, <5>1, <6>1, RollbackNear DEF Near
        <5>4. q \in failures => target[q] \in B
          BY <1>1, <5>1 DEF Stage, Finalizes, Near
        <5>5. target'[q] \in B
          BY <3>4, <5>2, <5>3, <5>4 DEF FinalizeSession, Shape
        <5> QED
          BY <3>1, <3>2, <5>1, <5>5 DEF NearNext, Near
      <4> QED
        BY <4>1, <4>2
    <3> QED
      BY <1>18, <2>9, <3>3, <3>4 DEF Cancel
  <2> QED
    BY <2>0, <2>9
<1>19. ASSUME NEW r \in Runs, CleanupFinalized(r)
      PROVE  NearNext(B, q)
  <2>0. CASE r # q
    BY <1>3, <1>19, <2>0, Scope DEF Cleanup, Finalization, Loop, Ending
  <2>9. CASE r = q
    BY <1>1, <1>19, <2>9 DEF CleanupFinalized, NearNext, Holds, Near, Shape
  <2> QED
    BY <2>0, <2>9
<1>20. ASSUME NEW r \in Runs, CleanupSettles(r)
      PROVE  NearNext(B, q)
  <2>0. CASE r # q
    BY <1>3, <1>20, <2>0, Scope DEF Cleanup, Finalization, Loop, Ending
  <2>9. CASE r = q
    BY <1>20, <2>9, SettleNear DEF CleanupSettles, ExecTo, StaysOutside, Shape
  <2> QED
    BY <2>0, <2>9
<1>21. ASSUME NEW r \in Runs, CleanupActivates(r)
      PROVE  NearNext(B, q)
  <2>0. CASE r # q
    BY <1>3, <1>21, <2>0, Scope DEF Cleanup, Finalization, Loop, Ending
  <2>9. CASE r = q
    BY <1>1, <1>21, <2>9 DEF CleanupActivates, RequestActivation, Idle, NearNext, Holds, Near,
         Shape
  <2> QED
    BY <2>0, <2>9
<1>22. ASSUME NEW r \in Runs, RevokeSession(r)
      PROVE  NearNext(B, q)
  <2>0. CASE r # q
    BY <1>3, <1>22, <2>0, Scope DEF Cleanup, Finalization, Loop, Ending
  <2>9. CASE r = q
    BY <1>1, <1>22, <2>9 DEF RevokeSession, NearNext, Holds, Near, Shape
  <2> QED
    BY <2>0, <2>9
<1>23. ASSUME NEW r \in Runs, RevokeFails(r)
      PROVE  NearNext(B, q)
  <2>0. CASE r # q
    BY <1>3, <1>23, <2>0, Scope DEF Cleanup, Finalization, Loop, Ending
  <2>9. CASE r = q
    BY <1>1, <1>23, <2>9 DEF RevokeFails, Fault, NearNext, Holds, Near, Shape
  <2> QED
    BY <2>0, <2>9
<1>24. ASSUME NEW r \in Runs, CloseSession(r)
      PROVE  NearNext(B, q)
  <2>0. CASE r # q
    BY <1>3, <1>24, <2>0, Scope DEF Cleanup, Finalization, Loop, Ending
  <2>9. CASE r = q
    BY <1>1, <1>24, <2>9 DEF CloseSession, NearNext, Holds, Near, Shape
  <2> QED
    BY <2>0, <2>9
<1>25. ASSUME NEW r \in Runs, AcquireSession(r)
      PROVE  NearNext(B, q)
  <2>0. CASE r # q
    BY <1>3, <1>25, <2>0, Scope DEF Cleanup, Finalization, Loop, Ending
  <2>9. CASE r = q
    <3>1. UNCHANGED <<doc, safe, finalization, target>> /\ exec'[q] \in {"outcome", "capturing"}
      BY <1>25, <2>9 DEF AcquireSession, ExecTo, Shape
    <3>2. /\ safe[q] = Root /\ doc[q].start = Root /\ doc[q].end = Root
          /\ finalization[q] # "no" => target[q] = Root
      BY <1>1, <1>25, <2>9 DEF AcquireSession, Stage, Untouched, Blank, Executes, Finalizes
    <3> QED
      BY <3>1, <3>2 DEF NearNext, Near
  <2> QED
    BY <2>0, <2>9
<1>26. ASSUME NEW r \in Runs, AcquireFails(r)
      PROVE  NearNext(B, q)
  <2>0. CASE r # q
    BY <1>3, <1>26, <2>0, Scope DEF Cleanup, Finalization, Loop, Ending
  <2>9. CASE r = q
    BY <1>1, <1>26, <2>9 DEF AcquireFails, ExecTo, Reports, Fault, StaysOutside, NearNext,
         Holds, Near, Shape
  <2> QED
    BY <2>0, <2>9
<1>27. ASSUME NEW r \in Runs, CaptureStartLeaf(r)
      PROVE  NearNext(B, q)
  <2>0. CASE r # q
    BY <1>3, <1>27, <2>0, Scope DEF Cleanup, Finalization, Loop, Ending
  <2>9. CASE r = q
    <3>1. doc'[q] = [doc[q] EXCEPT !.phase = "started", !.start = leaf]
      BY <1>27, <2>9 DEF CaptureStartLeaf, Checkpoint, Shape, Docs
    <3>2. doc'[q].start = leaf /\ doc'[q].end = doc[q].end
      BY <1>1, <3>1 DEF Snapshots
    <3> QED
      BY <1>27, <2>9, <3>2 DEF CaptureStartLeaf, Checkpoint, ExecTo, NearNext, Holds, Near, Shape
  <2> QED
    BY <2>0, <2>9
<1>28. ASSUME NEW r \in Runs, AppendInput(r)
      PROVE  NearNext(B, q)
  <2>0. CASE r # q
    BY <1>3, <1>28, <2>0, Scope DEF Cleanup, Finalization, Loop, Ending
  <2>9. CASE r = q
    BY <1>1, <1>28, <2>9 DEF AppendInput, AppendEntry, ExecTo, MayWrite, StaysOutside,
         NearNext, Holds, Near, Shape
  <2> QED
    BY <2>0, <2>9
<1>29. ASSUME NEW r \in Runs, CommitInput(r)
      PROVE  NearNext(B, q)
  <2>0. CASE r # q
    BY <1>3, <1>29, <2>0, Scope DEF Cleanup, Finalization, Loop, Ending
  <2>9. CASE r = q
    <3>1. doc'[q] = [doc[q] EXCEPT !.phase = "rollbackable", !.end = <<q, "input">>]
      BY <1>29, <2>9 DEF CommitInput, Checkpoint, Shape, Docs
    <3>2. doc'[q].start = doc[q].start /\ doc'[q].end = <<q, "input">>
      BY <1>1, <3>1 DEF Snapshots
    <3> QED
      BY <1>29, <2>9, <3>2 DEF CommitInput, Checkpoint, ExecTo, NearNext, Holds, Near, Shape
  <2> QED
    BY <2>0, <2>9
<1>30. ASSUME NEW r \in Runs, AppendCall(r)
      PROVE  NearNext(B, q)
  <2>0. CASE r # q
    BY <1>3, <1>30, <2>0, Scope DEF Cleanup, Finalization, Loop, Ending
  <2>9. CASE r = q
    BY <1>1, <1>30, <2>9 DEF AppendCall, AppendEntry, ExecTo, MayWrite, StaysOutside,
         NearNext, Holds, Near, Shape
  <2> QED
    BY <2>0, <2>9
<1>31. ASSUME NEW r \in Runs, CommitCall(r)
      PROVE  NearNext(B, q)
  <2>0. CASE r # q
    BY <1>3, <1>31, <2>0, Scope DEF Cleanup, Finalization, Loop, Ending
  <2>9. CASE r = q
    <3>1. doc'[q] = [doc[q] EXCEPT !.round = TRUE]
      BY <1>31, <2>9 DEF CommitCall, Checkpoint, Shape, Docs
    <3>2. doc'[q].start = doc[q].start /\ doc'[q].end = doc[q].end
      BY <1>1, <3>1 DEF Snapshots
    <3> QED
      BY <1>31, <2>9, <3>2 DEF CommitCall, Checkpoint, ExecTo, NearNext, Holds, Near, Shape
  <2> QED
    BY <2>0, <2>9
<1>32. ASSUME NEW r \in Runs, ToolReturns(r)
      PROVE  NearNext(B, q)
  <2>0. CASE r # q
    BY <1>3, <1>32, <2>0, Scope DEF Cleanup, Finalization, Loop, Ending
  <2>9. CASE r = q
    BY <1>1, <1>32, <2>9 DEF ToolReturns, ExecTo, StaysOutside, NearNext, Holds, Near, Shape
  <2> QED
    BY <2>0, <2>9
<1>33. ASSUME NEW r \in Runs, PersistToolResult(r)
      PROVE  NearNext(B, q)
  <2>0. CASE r # q
    BY <1>3, <1>33, <2>0, Scope DEF Cleanup, Finalization, Loop, Ending
  <2>9. CASE r = q
    BY <1>1, <1>33, <2>9 DEF PersistToolResult, ExecTo, StaysOutside, NearNext, Holds, Near,
         Shape
  <2> QED
    BY <2>0, <2>9
<1>34. ASSUME NEW r \in Runs, PersistToolResultFails(r)
      PROVE  NearNext(B, q)
  <2>0. CASE r # q
    BY <1>3, <1>34, <2>0, Scope DEF Cleanup, Finalization, Loop, Ending
  <2>9. CASE r = q
    BY <1>1, <1>34, <2>9 DEF PersistToolResultFails, ExecTo, Reports, Fault, StaysOutside,
         NearNext, Holds, Near, Shape
  <2> QED
    BY <2>0, <2>9
<1>35. ASSUME NEW r \in Runs, AppendResults(r)
      PROVE  NearNext(B, q)
  <2>0. CASE r # q
    BY <1>3, <1>35, <2>0, Scope DEF Cleanup, Finalization, Loop, Ending
  <2>9. CASE r = q
    BY <1>1, <1>35, <2>9 DEF AppendResults, AppendEntry, ExecTo, MayWrite, StaysOutside,
         NearNext, Holds, Near, Shape
  <2> QED
    BY <2>0, <2>9
<1>36. ASSUME NEW r \in Runs, CommitRound(r)
      PROVE  NearNext(B, q)
  <2>0. CASE r # q
    BY <1>3, <1>36, <2>0, Scope DEF Cleanup, Finalization, Loop, Ending
  <2>9. CASE r = q
    <3>1. doc'[q] = [doc[q] EXCEPT !.round = FALSE, !.end = <<q, "result">>]
      BY <1>36, <2>9 DEF CommitRound, Checkpoint, Shape, Docs
    <3>2. doc'[q].start = doc[q].start /\ doc'[q].end = <<q, "result">>
      BY <1>1, <3>1 DEF Snapshots
    <3> QED
      BY <1>36, <2>9, <3>2 DEF CommitRound, Checkpoint, ExecTo, NearNext, Holds, Near, Shape
  <2> QED
    BY <2>0, <2>9
<1>37. ASSUME NEW r \in Runs, AppendAnswer(r)
      PROVE  NearNext(B, q)
  <2>0. CASE r # q
    BY <1>3, <1>37, <2>0, Scope DEF Cleanup, Finalization, Loop, Ending
  <2>9. CASE r = q
    BY <1>1, <1>37, <2>9 DEF AppendAnswer, AppendEntry, ExecTo, MayWrite, StaysOutside,
         NearNext, Holds, Near, Shape
  <2> QED
    BY <2>0, <2>9
<1>38. ASSUME NEW r \in Runs, CommitAnswer(r)
      PROVE  NearNext(B, q)
  <2>0. CASE r # q
    BY <1>3, <1>38, <2>0, Scope DEF Cleanup, Finalization, Loop, Ending
  <2>9. CASE r = q
    <3>1. doc'[q] = [doc[q] EXCEPT !.phase = "candidate"]
      BY <1>38, <2>9 DEF CommitAnswer, Checkpoint, Shape, Docs
    <3>2. doc'[q].start = doc[q].start /\ doc'[q].end = doc[q].end
      BY <1>1, <3>1 DEF Snapshots
    <3> QED
      BY <1>38, <2>9, <3>2 DEF CommitAnswer, Checkpoint, ExecTo, NearNext, Holds, Near, Shape
  <2> QED
    BY <2>0, <2>9
<1>39. ASSUME NEW r \in Runs, AnswerIsRefused(r)
      PROVE  NearNext(B, q)
  <2>0. CASE r # q
    BY <1>3, <1>39, <2>0, Scope DEF Cleanup, Finalization, Loop, Ending
  <2>9. CASE r = q
    BY <1>1, <1>39, <2>9 DEF AnswerIsRefused, Reports, Fault, StaysOutside, NearNext, Holds,
         Near, Shape
  <2> QED
    BY <2>0, <2>9
<1>40. ASSUME NEW r \in Runs, CheckpointFails(r)
      PROVE  NearNext(B, q)
  <2>0. CASE r # q
    BY <1>3, <1>40, <2>0, Scope DEF Cleanup, Finalization, Loop, Ending
  <2>9. CASE r = q
    BY <1>1, <1>40, <2>9 DEF CheckpointFails, ExecTo, Reports, Fault, StaysOutside, NearNext,
         Holds, Near, Shape
  <2> QED
    BY <2>0, <2>9
<1>41. ASSUME NEW r \in Runs, HarnessStops(r)
      PROVE  NearNext(B, q)
  <2>0. CASE r # q
    BY <1>3, <1>41, <2>0, Scope DEF Cleanup, Finalization, Loop, Ending
  <2>9. CASE r = q
    BY <1>1, <1>41, <2>9 DEF HarnessStops, ExecTo, Reports, Fault, StaysOutside, NearNext,
         Holds, Near, Shape
  <2> QED
    BY <2>0, <2>9
<1>42. ASSUME NEW r \in Runs, ApplyOutcome(r)
      PROVE  NearNext(B, q)
  <2>0. CASE r # q
    BY <1>3, <1>42, <2>0, Scope DEF Cleanup, Finalization, Loop, Ending
  <2>9. CASE r = q
    BY <1>1, <1>42, <2>9 DEF ApplyOutcome, ExecTo, StaysOutside, NearNext, Holds, Near, Shape
  <2> QED
    BY <2>0, <2>9
<1>43. ASSUME NEW r \in Runs, CommitOutcome(r)
      PROVE  NearNext(B, q)
  <2>0. CASE r # q
    BY <1>3, <1>43, <2>0, Scope DEF Cleanup, Finalization, Loop, Ending
  <2>9. CASE r = q
    <3>1. UNCHANGED safe /\ exec[q] \in {"committing", "recommitting"}
      BY <1>43, <2>9 DEF CommitOutcome
    <3>2. CASE /\ UNCHANGED <<doc, session>>
               /\ \E to \in {"activating", "settling", "recommitting"} : ExecTo(q, to)
      BY <3>1, <3>2 DEF ExecTo, NearNext, Holds, Near, Shape
    <3>3. CASE \E status \in Ended, to \in {"finalizing", "keeping"} :
                 ~Terminal(doc[q]) /\ CommitAs(q, status, to)
      BY <1>1, <3>1, <3>3, CommitNear
    <3>4. exec[q] = "committing" => outcome[q] \in Ended
      BY <1>1 DEF Ended, Shape, Stage, Executes
    <3>5. {"completed", "failed", "blocked"} \subseteq Ended
      BY DEF Ended
    <3> QED
      BY <1>43, <2>9, <3>2, <3>3, <3>4, <3>5 DEF CommitOutcome
  <2> QED
    BY <2>0, <2>9
<1>44. ASSUME NEW r \in Runs, CommitFails(r)
      PROVE  NearNext(B, q)
  <2>0. CASE r # q
    BY <1>3, <1>44, <2>0, Scope DEF Cleanup, Finalization, Loop, Ending
  <2>9. CASE r = q
    <3>1. UNCHANGED safe /\ exec[q] \in {"committing", "recommitting"}
      BY <1>44, <2>9 DEF CommitFails
    <3>2. CASE /\ UNCHANGED <<doc, session>>
               /\ \E to \in {"activating", "settling", "recommitting"} : ExecTo(q, to)
      BY <3>1, <3>2 DEF ExecTo, NearNext, Holds, Near, Shape
    <3>3. CASE \E status \in Ended, to \in {"finalizing", "keeping"} :
                 ~Terminal(doc[q]) /\ CommitAs(q, status, to)
      BY <1>1, <3>1, <3>3, CommitNear
    <3>4. exec[q] = "committing" => outcome[q] \in Ended
      BY <1>1 DEF Ended, Shape, Stage, Executes
    <3>5. {"completed", "failed", "blocked"} \subseteq Ended
      BY DEF Ended
    <3> QED
      BY <1>44, <2>9, <3>2, <3>3, <3>4, <3>5 DEF CommitFails
  <2> QED
    BY <2>0, <2>9
<1>45. ASSUME NEW r \in Runs, Recommit(r)
      PROVE  NearNext(B, q)
  <2>0. CASE r # q
    BY <1>3, <1>45, <2>0, Scope DEF Cleanup, Finalization, Loop, Ending
  <2>9. CASE r = q
    <3>1. UNCHANGED safe /\ exec[q] \in {"committing", "recommitting"}
      BY <1>45, <2>9 DEF Recommit
    <3>2. CASE /\ UNCHANGED <<doc, session>>
               /\ \E to \in {"activating", "settling", "recommitting"} : ExecTo(q, to)
      BY <3>1, <3>2 DEF ExecTo, NearNext, Holds, Near, Shape
    <3>3. CASE \E status \in Ended, to \in {"finalizing", "keeping"} :
                 ~Terminal(doc[q]) /\ CommitAs(q, status, to)
      BY <1>1, <3>1, <3>3, CommitNear
    <3>4. exec[q] = "committing" => outcome[q] \in Ended
      BY <1>1 DEF Ended, Shape, Stage, Executes
    <3>5. {"completed", "failed", "blocked"} \subseteq Ended
      BY DEF Ended
    <3> QED
      BY <1>45, <2>9, <3>2, <3>3, <3>4, <3>5 DEF Recommit
  <2> QED
    BY <2>0, <2>9
<1>46. ASSUME NEW r \in Runs, RecommitFails(r)
      PROVE  NearNext(B, q)
  <2>0. CASE r # q
    BY <1>3, <1>46, <2>0, Scope DEF Cleanup, Finalization, Loop, Ending
  <2>9. CASE r = q
    BY <1>1, <1>46, <2>9 DEF RecommitFails, ExecTo, Fault, StaysOutside, NearNext, Holds,
         Near, Shape
  <2> QED
    BY <2>0, <2>9
<1>47. ASSUME NEW r \in Runs, ExecutionFinalized(r)
      PROVE  NearNext(B, q)
  <2>0. CASE r # q
    BY <1>3, <1>47, <2>0, Scope DEF Cleanup, Finalization, Loop, Ending
  <2>9. CASE r = q
    BY <1>1, <1>47, <2>9 DEF ExecutionFinalized, ExecTo, StaysOutside, NearNext, Holds, Near,
         Shape
  <2> QED
    BY <2>0, <2>9
<1>48. ASSUME NEW r \in Runs, ExecutionActivates(r)
      PROVE  NearNext(B, q)
  <2>0. CASE r # q
    BY <1>3, <1>48, <2>0, Scope DEF Cleanup, Finalization, Loop, Ending
  <2>9. CASE r = q
    BY <1>1, <1>48, <2>9 DEF ExecutionActivates, ExecTo, RequestActivation, Idle, NearNext,
         Holds, Near, Shape
  <2> QED
    BY <2>0, <2>9
<1>49. ASSUME NEW r \in Runs, ExecutionSettles(r)
      PROVE  NearNext(B, q)
  <2>0. CASE r # q
    BY <1>3, <1>49, <2>0, Scope DEF Cleanup, Finalization, Loop, Ending
  <2>9. CASE r = q
    BY <1>49, <2>9, SettleNear DEF ExecutionSettles, ExecTo, StaysOutside, Shape
  <2> QED
    BY <2>0, <2>9
<1>50. ASSUME NEW r \in Runs, ExecutionPosts(r)
      PROVE  NearNext(B, q)
  <2>0. CASE r # q
    BY <1>3, <1>50, <2>0, Scope DEF Cleanup, Finalization, Loop, Ending
  <2>9. CASE r = q
    BY <1>1, <1>50, <2>9 DEF ExecutionPosts, ExecTo, RequestActivation, Idle, NearNext, Holds,
         Near, Shape
  <2> QED
    BY <2>0, <2>9
<1>51. CASE UNCHANGED vars
  BY <1>2, <1>51 DEF vars, Keeps
<1> QED
  BY <1>5, <1>6, <1>7, <1>8, <1>9, <1>10, <1>11, <1>12, <1>13, <1>14, <1>15, <1>16, <1>17,
       <1>18, <1>19, <1>20, <1>21, <1>22, <1>23, <1>24, <1>25, <1>26, <1>27, <1>28, <1>29, <1>30,
       <1>31, <1>32, <1>33, <1>34, <1>35, <1>36, <1>37, <1>38, <1>39, <1>40, <1>41, <1>42, <1>43,
       <1>44, <1>45, <1>46, <1>47, <1>48, <1>49, <1>50, <1>51 DEF Next, Submission, Activation,
       Cleanup, Finalization, Loop, Ending

\* A session attaches only when no other is.
Attaches ==
  (\A q \in Runs : control'[q] = "attached" => control[q] = "attached")
  \/ \E r \in Runs : AcquireSession(r)

\* Giving a session back attaches none.
LEMMA FinalizeAttaches ==
  ASSUME NEW r, NEW goal, FinalizeSession(r, goal)
  PROVE  Attaches
BY DEF FinalizeSession, Attaches

\* Every step attaches one session at most, and only when no other is attached.
LEMMA AttachesStep ==
  ASSUME Shape, [Next]_vars
  PROVE  Attaches
<1>1. CASE SubmitTurn
  BY <1>1 DEF SubmitTurn, NoSubmission, Attaches, Shape
<1>2. CASE SubmissionReads
  BY <1>2 DEF SubmissionReads, NoSubmission, Attaches, Shape
<1>3. CASE SubmissionPublishes
  BY <1>3 DEF SubmissionPublishes, RequestActivation, NoSubmission, Idle, Attaches, Shape
<1>4. CASE SubmissionFails
  BY <1>4 DEF SubmissionFails, Fault, NoSubmission, Attaches, Shape
<1>5. CASE FirstTurnStarts
  BY <1>5 DEF FirstTurnStarts, Started, ControlCreated, NoSubmission, Attaches, Shape
<1>6. CASE FirstTurnStays
  BY <1>6 DEF FirstTurnStays, Fault, RequestActivation, NoSubmission, Idle, Attaches, Shape
<1>7. CASE ActivationReads
  BY <1>7, FinalizeAttaches DEF ActivationReads, Attaches
<1>8. CASE ActivationSettles
  BY <1>8 DEF ActivationSettles, SettleExecution, SettlementFails, FinishActivation, Fault,
       Attaches, Shape
<1>9. CASE ActivationRetried
  BY <1>9 DEF ActivationRetried, FinishActivation, Attaches, Shape
<1>10. CASE ActivationLocks
  BY <1>10 DEF ActivationLocks, FinishActivation, Attaches, Shape
<1>11. CASE ActivationRereads
  BY <1>11 DEF ActivationRereads, FinishActivation, Idle, Attaches, Shape
<1>12. CASE ActivationStarts
  BY <1>12 DEF ActivationStarts, FinishActivation, Started, ControlCreated, Attaches, Shape
<1>13. CASE ActivationFails
  BY <1>13 DEF ActivationFails, FinishActivation, Fault, Attaches, Shape
<1>14. ASSUME NEW r \in Runs, Cancel(r)
      PROVE  Attaches
  BY <1>14, FinalizeAttaches DEF Cancel, Attaches
<1>15. ASSUME NEW r \in Runs, CleanupFinalized(r)
      PROVE  Attaches
  BY <1>15 DEF CleanupFinalized, Attaches, Shape
<1>16. ASSUME NEW r \in Runs, CleanupSettles(r)
      PROVE  Attaches
  BY <1>16 DEF CleanupSettles, SettleExecution, SettlementFails, Fault, Attaches, Shape
<1>17. ASSUME NEW r \in Runs, CleanupActivates(r)
      PROVE  Attaches
  BY <1>17 DEF CleanupActivates, RequestActivation, Idle, Attaches, Shape
<1>18. ASSUME NEW r \in Runs, RevokeSession(r)
      PROVE  Attaches
  BY <1>18 DEF RevokeSession, Attaches, Shape
<1>19. ASSUME NEW r \in Runs, RevokeFails(r)
      PROVE  Attaches
  BY <1>19 DEF RevokeFails, Fault, Attaches, Shape
<1>20. ASSUME NEW r \in Runs, CloseSession(r)
      PROVE  Attaches
  BY <1>20 DEF CloseSession, Attaches, Shape
<1>21. ASSUME NEW r \in Runs, AcquireSession(r)
      PROVE  Attaches
  BY <1>21 DEF Attaches
<1>22. ASSUME NEW r \in Runs, AcquireFails(r)
      PROVE  Attaches
  BY <1>22 DEF AcquireFails, ExecTo, Reports, Fault, StaysOutside, Attaches, Shape
<1>23. ASSUME NEW r \in Runs, CaptureStartLeaf(r)
      PROVE  Attaches
  BY <1>23 DEF CaptureStartLeaf, Checkpoint, ExecTo, StaysOutside, Attaches, Shape
<1>24. ASSUME NEW r \in Runs, AppendInput(r)
      PROVE  Attaches
  BY <1>24 DEF AppendInput, AppendEntry, ExecTo, MayWrite, StaysOutside, Attaches, Shape
<1>25. ASSUME NEW r \in Runs, CommitInput(r)
      PROVE  Attaches
  BY <1>25 DEF CommitInput, Checkpoint, ExecTo, StaysOutside, Attaches, Shape
<1>26. ASSUME NEW r \in Runs, AppendCall(r)
      PROVE  Attaches
  BY <1>26 DEF AppendCall, AppendEntry, ExecTo, MayWrite, StaysOutside, Attaches, Shape
<1>27. ASSUME NEW r \in Runs, CommitCall(r)
      PROVE  Attaches
  BY <1>27 DEF CommitCall, Checkpoint, ExecTo, StaysOutside, Attaches, Shape
<1>28. ASSUME NEW r \in Runs, ToolReturns(r)
      PROVE  Attaches
  BY <1>28 DEF ToolReturns, ExecTo, StaysOutside, Attaches, Shape
<1>29. ASSUME NEW r \in Runs, PersistToolResult(r)
      PROVE  Attaches
  BY <1>29 DEF PersistToolResult, ExecTo, StaysOutside, Attaches, Shape
<1>30. ASSUME NEW r \in Runs, PersistToolResultFails(r)
      PROVE  Attaches
  BY <1>30 DEF PersistToolResultFails, ExecTo, Reports, Fault, StaysOutside, Attaches, Shape
<1>31. ASSUME NEW r \in Runs, AppendResults(r)
      PROVE  Attaches
  BY <1>31 DEF AppendResults, AppendEntry, ExecTo, MayWrite, StaysOutside, Attaches, Shape
<1>32. ASSUME NEW r \in Runs, CommitRound(r)
      PROVE  Attaches
  BY <1>32 DEF CommitRound, Checkpoint, ExecTo, StaysOutside, Attaches, Shape
<1>33. ASSUME NEW r \in Runs, AppendAnswer(r)
      PROVE  Attaches
  BY <1>33 DEF AppendAnswer, AppendEntry, ExecTo, MayWrite, StaysOutside, Attaches, Shape
<1>34. ASSUME NEW r \in Runs, CommitAnswer(r)
      PROVE  Attaches
  BY <1>34 DEF CommitAnswer, Checkpoint, ExecTo, StaysOutside, Reports, Attaches, Shape
<1>35. ASSUME NEW r \in Runs, AnswerIsRefused(r)
      PROVE  Attaches
  BY <1>35 DEF AnswerIsRefused, Reports, Fault, StaysOutside, Attaches, Shape
<1>36. ASSUME NEW r \in Runs, CheckpointFails(r)
      PROVE  Attaches
  BY <1>36 DEF CheckpointFails, ExecTo, Reports, Fault, StaysOutside, Attaches, Shape
<1>37. ASSUME NEW r \in Runs, HarnessStops(r)
      PROVE  Attaches
  BY <1>37 DEF HarnessStops, ExecTo, Reports, Fault, StaysOutside, Attaches, Shape
<1>38. ASSUME NEW r \in Runs, ApplyOutcome(r)
      PROVE  Attaches
  BY <1>38 DEF ApplyOutcome, ExecTo, StaysOutside, Attaches, Shape
<1>39. ASSUME NEW r \in Runs, CommitOutcome(r)
      PROVE  Attaches
  BY <1>39, FinalizeAttaches DEF CommitOutcome, CommitAs, Attaches
<1>40. ASSUME NEW r \in Runs, CommitFails(r)
      PROVE  Attaches
  BY <1>40, FinalizeAttaches DEF CommitFails, CommitAs, Attaches
<1>41. ASSUME NEW r \in Runs, Recommit(r)
      PROVE  Attaches
  BY <1>41, FinalizeAttaches DEF Recommit, CommitAs, Attaches
<1>42. ASSUME NEW r \in Runs, RecommitFails(r)
      PROVE  Attaches
  BY <1>42 DEF RecommitFails, ExecTo, Fault, StaysOutside, Attaches, Shape
<1>43. ASSUME NEW r \in Runs, ExecutionFinalized(r)
      PROVE  Attaches
  BY <1>43 DEF ExecutionFinalized, ExecTo, StaysOutside, Attaches, Shape
<1>44. ASSUME NEW r \in Runs, ExecutionActivates(r)
      PROVE  Attaches
  BY <1>44 DEF ExecutionActivates, ExecTo, RequestActivation, Idle, Attaches, Shape
<1>45. ASSUME NEW r \in Runs, ExecutionSettles(r)
      PROVE  Attaches
  BY <1>45 DEF ExecutionSettles, SettleExecution, SettlementFails, Fault, ExecTo,
       StaysOutside, Attaches, Shape
<1>46. ASSUME NEW r \in Runs, ExecutionPosts(r)
      PROVE  Attaches
  BY <1>46 DEF ExecutionPosts, ExecTo, RequestActivation, Idle, Attaches, Shape
<1>47. CASE UNCHANGED vars
  BY <1>47 DEF vars, Attaches, Shape
<1> QED
  BY <1>1, <1>2, <1>3, <1>4, <1>5, <1>6, <1>7, <1>8, <1>9, <1>10, <1>11, <1>12, <1>13,
       <1>14, <1>15, <1>16, <1>17, <1>18, <1>19, <1>20, <1>21, <1>22, <1>23, <1>24, <1>25, <1>26,
       <1>27, <1>28, <1>29, <1>30, <1>31, <1>32, <1>33, <1>34, <1>35, <1>36, <1>37, <1>38, <1>39,
       <1>40, <1>41, <1>42, <1>43, <1>44, <1>45, <1>46, <1>47 DEF Next, Submission, Activation,
       Cleanup, Finalization, Loop, Ending

\* Every step keeps one session at most, and what it may go back to on the branch.
LEMMA BehindStep ==
  ASSUME Shape, Shape', Staged, Births, Admits, Written, Written', Behind, [Next]_vars
  PROVE  Behind'
<1>1. TranscriptMoves /\ Attaches
  BY TranscriptStep, AttachesStep
<1>2. \A q, r \in Runs : control'[q] = "attached" /\ control'[r] = "attached" => q = r
  <2>1. ASSUME NEW p \in Runs, AcquireSession(p)
        PROVE  \A q \in Runs \ {p} : control'[q] # "attached"
    BY <2>1 DEF AcquireSession, Shape
  <2> QED
    BY <1>1, <2>1 DEF Attaches, Behind
<1>3. PICK B : B = Reach'
  OBVIOUS
<1>4. Root \in B /\ leaf' \in B
  <2>1. (leaf \in Reach)'
    BY BranchWritten, PTL
  <2> QED
    BY <1>3, <2>1 DEF Reach
<1>5. ASSUME Reach \subseteq B
      PROVE  \A q \in Runs : Holds(q)' => Near(B, q)'
  <2>1. leaf \in B
    BY <1>5, BranchWritten
  <2>2. ASSUME NEW q \in Runs
        PROVE  Holds(q) => Near(B, q)
    <3>1. Holds(q) => Near(Reach, q)
      BY DEF Behind
    <3> QED
      BY <1>5, <3>1 DEF Near
  <2> QED
    BY <1>4, <2>1, <2>2, NearStep DEF NearNext
<1>6. CASE UNCHANGED transcript
  <2>1. B = Reach
    BY <1>3, <1>6 DEF Reach, Branch
  <2> QED
    BY <1>2, <1>3, <1>5, <2>1 DEF Behind, Near
<1>7. ASSUME NEW r \in Runs, NEW e \in Entries, Appends(r, e)
      PROVE  Behind'
  <2>1. PICK s \in Seq(Entries) : s = Branch
    BY BranchType
  <2>2. Branch' = Append(s, e)
    BY <1>7, <2>1, Names DEF Appends, Branch, Shape
  <2>3. ToSet(Append(s, e)) = ToSet(s) \cup {e}
    BY Appended
  <2>4. Reach \subseteq B
    BY <1>3, <2>1, <2>2, <2>3 DEF Reach
  <2> QED
    BY <1>2, <1>3, <1>5, <2>4 DEF Behind, Near
<1>8. ASSUME NEW r \in Runs, Reconciles(r)
      PROVE  Behind'
  BY <1>8 DEF Reconciles, Behind, Holds
<1>9. ASSUME NEW r \in Runs, RevokeSession(r)
      PROVE  Behind'
  <2>1. \A q \in Runs : ~Holds(q)'
    BY <1>9 DEF RevokeSession, Behind, Holds, Shape
  <2> QED
    BY <1>2, <2>1 DEF Behind
<1> QED
  BY <1>1, <1>6, <1>7, <1>8, <1>9 DEF TranscriptMoves

\* The empty conversation is in every layer.
LEMMA Start == Init => Layers
<1> SUFFICES ASSUME Init
             PROVE  Layers
  OBVIOUS
<1>0. /\ doc = NoDocs /\ leaf = Root /\ pathTo = [e \in Entries |-> <<>>]
      /\ activation = Idle /\ submission = NoSubmission
  BY DEF Init
<1>1. Shape
  <2>1. <<>> \in Seq(Entries) /\ Root \in Leaves
    BY EmptySeq DEF Leaves
  <2>2. "idle" \in ExecStates
    BY Places
  <2> QED
    BY <2>1, <2>2, Names DEF Init, Shape
<1>2. Staged
  BY DEF Init, Staged, Untouched, Executes, Finalizes, Blank, NoDocs, NoDoc, Terminal, Ended, InHarness
<1>3. Awaited
  BY DEF Init, Awaited, Pending
<1>4. Births
  <2>1. Present(doc) = 1 .. 0 /\ 0 \in 0 .. MaxRuns
    BY <1>0, RunsAssumption DEF NoDocs, NoDoc, Present
  <2>2. Outlasts(activation.docs) /\ Outlasts(submission.docs)
    BY <1>0, CapturedNow DEF Idle, NoSubmission
  <2>3. submission.pc = "idle"
    BY <1>0 DEF NoSubmission
  <2> QED
    BY <2>1, <2>2, <2>3 DEF Births
<1>5. Admits
  BY <1>0 DEF Admits, Idle
<1>6. BarrierStaysDown
  BY DEF Init, BarrierStaysDown
<1>7. Written
  BY <1>0, EmptySeq DEF Written, ToSet
<1>8. Behind
  BY DEF Init, Behind, Holds
<1> QED
  BY <1>1, <1>2, <1>3, <1>4, <1>5, <1>6, <1>7, <1>8 DEF Layers

\* The eight layers hold in every state the coordinator, the executions, the activation and
\* the settlements can reach together, in any order.
THEOREM Invariance == Spec => []Layers
<1>1. Init => Layers
  BY Start
<1>2. Layers /\ [Next]_vars => Layers'
  <2> SUFFICES ASSUME Layers, [Next]_vars
               PROVE  Layers'
    OBVIOUS
  <2> USE DEF Layers
  <2>1. Shape'
    BY ShapeStep
  <2>2. Staged'
    BY <2>1, StagedStep
  <2>3. Awaited'
    BY AwaitedStep
  <2>4. Births'
    BY BirthsStep
  <2>5. Admits'
    BY AdmitsStep
  <2>6. BarrierStaysDown'
    BY BarrierStep
  <2>7. Written'
    BY WrittenStep
  <2>8. Behind'
    BY <2>1, <2>7, BehindStep
  <2> QED
    BY <2>1, <2>2, <2>3, <2>4, <2>5, <2>6, <2>7, <2>8
<1> QED
  BY <1>1, <1>2, PTL DEF Spec

\* Every variable keeps its type: the documents, the transcript and the tasks are well formed.
THEOREM TypeCorrect == Spec => []TypeOK
<1>1. Layers => TypeOK
  BY DEF Layers, Shape, Written, TypeOK, Docs, Leaves, Activations, Submissions
<1> QED
  BY <1>1, Invariance, PTL

\* Once a turn has started, the turn before it never owes the conversation anything again: it
\* has ended, its round is settled and its session given back, and only after a cancellation
\* may its task still be on its way out (isSchedulingBarrierCleared).
THEOREM BarrierHolds == Spec => []BarrierStaysDown
<1>1. Layers => BarrierStaysDown
  BY DEF Layers
<1> QED
  BY <1>1, Invariance, PTL

\* Revoking a turn never moves the leaf off the branch it was written on: while a session is
\* held, the entries its rollback could go back to lie on the active branch.
THEOREM RevocationHolds == Spec => []RevocationStaysOnBranch
<1>1. Layers => RevocationStaysOnBranch
  BY DEF Layers, Behind, Holds, Near, Reach, RevocationStaysOnBranch
<1> QED
  BY <1>1, Invariance, PTL

\* When nothing runs any more, no session is held: each one has been given back, its return
\* has failed and is on record, or the end of its turn could not be saved (finalizeSession).
THEOREM SessionsReturned == Spec => []NoSessionLeaks
<1>1. Layers => NoSessionLeaks
  <2> SUFFICES ASSUME Layers, Quiet, NEW r \in Runs, control[r] # "none"
               PROVE  r \in failures \/ doc[r].status = "running"
    BY DEF NoSessionLeaks
  <2>1. Stage(r) /\ ~Pending(r)
    BY DEF Layers, Staged, Stage, Awaited, Quiet
  <2>2. finalization[r] \in {"no", "failed"}
    BY <2>1 DEF Layers, Shape, Pending
  <2>3. CASE Terminal(doc[r])
    BY <2>1, <2>2, <2>3 DEF Stage, Finalizes
  <2>4. CASE ~Terminal(doc[r])
    BY <2>1, <2>4 DEF Stage, Executes, Terminal, Quiet
  <2> QED
    BY <2>3, <2>4
<1> QED
  BY <1>1, Invariance, PTL

\* A step that starts a queued turn finds the turn before it released: ended, settled, and with
\* its session given back (activateConversationOnce, which reads again under the lock).
THEOREM AdmissionHolds == Spec => AdmittedBehindBarrier
<1>1. Layers /\ [Next]_vars =>
        \A r \in Runs :
          doc[r].status = "queued" /\ doc'[r].status = "running" /\ doc[r].pred # NoRun
            => Released(doc[r].pred)
  <2> SUFFICES ASSUME Layers, [Next]_vars, NEW r \in Runs, doc[r].status = "queued",
                      doc'[r].status = "running", doc[r].pred # NoRun
               PROVE  Released(doc[r].pred)
    OBVIOUS
  <2>1. Turns
    BY TurnsStep DEF Layers
  <2>2. Begins(r)
    BY <2>1 DEF Turns, Same, Born, Ends, Ended
  <2> QED
    BY <2>2, AdmittedBehind DEF Layers
<1> QED
  BY <1>1, Invariance, PTL DEF Spec, AdmittedBehindBarrier

\* The queue implements ChainedTurns: each step of it is one submission, start or end of a
\* turn there, or leaves the turns as they are.
THEOREM ChainHolds == Spec => TurnsAreChained
<1>1. Init => Chain!Init
  BY DEF Init, Chain!Init, NoDocs, NoDoc
<1>2. Layers /\ [Next]_vars =>
        [Chain!Next]_<<[r \in Runs |-> doc[r].status], [r \in Runs |-> doc[r].pred]>>
  <2> SUFFICES ASSUME Layers, [Next]_vars
               PROVE  [Chain!Next]_<<[r \in Runs |-> doc[r].status], [r \in Runs |-> doc[r].pred]>>
    OBVIOUS
  <2> DEFINE status == [r \in Runs |-> doc[r].status]
             pred == [r \in Runs |-> doc[r].pred]
  <2>1. Turns
    BY TurnsStep DEF Layers
  <2>2. CASE \A q \in Runs : Same(q)
    BY <2>2 DEF Same
  <2>3. ASSUME NEW r \in Runs, \A q \in Runs \ {r} : doc'[q] = doc[q], Born(r)
        PROVE  Chain!Next
    <3>1. PICK p : p = submission.pred
      OBVIOUS
    <3>2. /\ p \in Runs \cup {NoRun} /\ (p # NoRun => doc[p].status # "absent")
      BY <2>3, <3>1 DEF Born, SubmissionPublishes, Layers, Births, Shape, Submissions
    <3>3. doc[r].status = "absent" /\ doc'[r].status = "queued" /\ doc'[r].pred = p
      BY <2>3, <3>1 DEF Born
    <3>4. status' = [status EXCEPT ![r] = "queued"] /\ pred' = [pred EXCEPT ![r] = p]
      BY <2>3, <3>3
    <3>5. Chain!Submit(r, p)
      BY <3>2, <3>3, <3>4 DEF Chain!Submit
    <3> QED
      BY <3>2, <3>5 DEF Chain!Next
  <2>4. ASSUME NEW r \in Runs, \A q \in Runs \ {r} : doc'[q] = doc[q], Begins(r)
        PROVE  Chain!Next
    <3>1. doc[r].pred # NoRun => doc[r].pred \in Runs /\ Terminal(doc[doc[r].pred])
      BY <2>4, AdmittedBehind DEF Layers, Released
    <3>2. doc[r].status = "queued" /\ doc'[r].status = "running" /\ doc'[r].pred = doc[r].pred
      BY <2>4 DEF Begins
    <3>3. status' = [status EXCEPT ![r] = "running"] /\ pred' = pred
      BY <2>4, <3>2
    <3>4. Chain!Start(r)
      BY <3>1, <3>2, <3>3 DEF Chain!Start, Chain!Ended, Terminal, Ended
    <3> QED
      BY <3>4 DEF Chain!Next
  <2>5. ASSUME NEW r \in Runs, \A q \in Runs \ {r} : doc'[q] = doc[q], Ends(r)
        PROVE  Chain!Next
    <3>1. PICK how \in Ended : how = doc'[r].status
      BY <2>5 DEF Ends
    <3>2. doc[r].status \in {"queued", "running"} /\ doc'[r].pred = doc[r].pred
      BY <2>5 DEF Ends, Live
    <3>3. status' = [status EXCEPT ![r] = how] /\ pred' = pred
      BY <2>5, <3>1, <3>2
    <3>4. Chain!End(r, how)
      BY <3>2, <3>3 DEF Chain!End
    <3> QED
      BY <3>1, <3>4 DEF Chain!Next, Chain!Ended, Ended
  <2> QED
    BY <2>1, <2>2, <2>3, <2>4, <2>5 DEF Turns
<1> QED
  BY <1>1, <1>2, Invariance, PTL DEF Spec, TurnsAreChained, Chain!Spec
==============================================================================
