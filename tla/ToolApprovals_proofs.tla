------------------------ MODULE ToolApprovals_proofs ------------------------
(***************************************************************************)
(* Proofs about ToolApprovals, for any calls, gated before or during their *)
(* start, and any number of cancellations, failed saves and restarts.      *)
(*                                                                         *)
(* Three invariants carry the properties: of the calls and the results on  *)
(* their way to the document (CallsHold), of the tasks that wait for the   *)
(* loop (TasksHold), and of every place a refusal may be kept (Refusing).  *)
(***************************************************************************)
EXTENDS ToolApprovals, FiniteSetTheorems, SequenceTheorems, TLAPS

Docs == [status : Statuses, requests : SUBSET Calls, fact : [Calls -> Facts],
         decided : [Calls -> {"none", "approved", "denied"}], round : BOOLEAN]
Operations ==
    [op : {"result"}, call : Calls, fact : Facts, task : {0}]
    \cup [op : {"rescue"}, call : Calls, fact : Facts, task : Tasks]
    \cup [op : {"decide"}, call : Calls, fact : {"approved", "denied"}, task : {0}]
    \cup [op : {"pause", "end", "fail", "block", "reconcile"}, task : Tasks]
    \cup [op : {"close", "cancel"}]
Outcomes ==
    [verdict : {"none", "paused", "ignored", "completed", "failed", "cancelled"},
     requests : SUBSET Calls, results : [Calls -> Facts]]

Places == {"called", "asking", "waiting", "executing", "delivering", "closed"}
Steps ==
    {"unborn", "looping", "captured", "pausing", "releasing", "stopped", "ending",
     "failing", "blocking", "finalizing", "draining", "persisting", "reconciling",
     "idling", "checking", "cleaned", "gone"}

\* The types of TypeOK, and of what is only a part of other things there.
Shape ==
    /\ doc \in Docs /\ queue \in Seq(Operations)
    /\ harness \in {"tools", "closing", "answering", "over"}
    /\ stopping \in BOOLEAN /\ broken \in BOOLEAN
    /\ place \in [Calls -> Places]
    /\ result \in [Calls -> Facts] /\ accepted \in [Calls -> Facts]
    /\ task \in [Tasks -> Steps] /\ outcome \in [Tasks -> Outcomes]
    /\ todo \in [Tasks -> [Calls -> Facts]]
    /\ continuation \in BOOLEAN /\ reserved \in BOOLEAN /\ controller \in BOOLEAN
    /\ held \in BOOLEAN /\ up \in BOOLEAN
    /\ executed \subseteq Calls
    /\ cancels \in 0 .. MaxCancels /\ faults \in 0 .. MaxFaults /\ crashes \in 0 .. MaxCrashes

Positions == 1 .. Len(queue)

\* A call that was not started, or waits for its decision, has had no effect and no
\* decision; a result on its way to the document is the one the loop recorded, and the
\* only one on its way for its call.
Untouched(c) == c \notin executed /\ doc.decided[c] = "none"
IsResult(i) == i \in Positions /\ queue[i].op = "result"
CallsHold ==
    /\ \A c \in Calls :
         /\ place[c] \in {"called", "asking", "waiting"} => Untouched(c)
         /\ place[c] = "executing" /\ c \notin executed => c \in GatedDuring /\ Untouched(c)
    /\ \A i \in Positions : IsResult(i) =>
         /\ queue[i].fact = result[queue[i].call]
         /\ place[queue[i].call] = IF queue[i].fact = "asked" THEN "asking" ELSE "delivering"
    /\ \A i, j \in Positions :
         IsResult(i) /\ IsResult(j) /\ queue[i].call = queue[j].call => i = j

\* One task at most waits for the loop or for the pause it ends with.  Nobody waits while
\* the run awaits decisions or while the loop is being stopped, unless the run has ended;
\* a run that awaits decisions has a loop that goes on.
Leading(t) == task[t] \in {"looping", "captured", "pausing"}
Live(t) == task[t] # "unborn"
Ending == doc.status \in Terminal
DecidedCalls == {c \in Calls : doc.decided[c] # "none"}
Leads(t) ==
    /\ outcome[t].verdict \in {"paused", "completed", "failed", "cancelled"}
    /\ task[t] = "pausing" => outcome[t].verdict = "paused"
    /\ ~Ending => outcome[t].requests \subseteq Waiting
PauseHolds(i) == queue[i].op = "pause" => task[queue[i].task] = "pausing"
EndHolds(i) ==
    queue[i].op = "end" =>
      LET t == queue[i].task IN
      /\ Live(t) /\ ~Leading(t)
      /\ outcome[t].verdict \in {"completed", "failed", "cancelled"}
SettlementHolds(i) ==
    queue[i].op \in {"rescue", "reconcile", "fail", "block"} =>
      LET t == queue[i].task IN t # 0 => Live(t) /\ ~Leading(t)
TasksHold ==
    /\ \A t, u \in Tasks : Leading(t) /\ Leading(u) => t = u
    /\ ~Leading(0)
    /\ doc.status = "awaiting" => ~stopping /\ \A t \in Tasks : ~Leading(t)
    /\ stopping => Ending \/ \A t \in Tasks : ~Leading(t)
    /\ \A t \in Tasks : task[t] = "finalizing" => Ending
    /\ task[0] \in {"releasing", "idling"} => Ending
    /\ \A t \in Tasks : task[t] \in {"captured", "pausing"} => Leads(t)
    /\ \A i \in Positions : PauseHolds(i) /\ EndHolds(i) /\ SettlementHolds(i)
    /\ \A i, j \in Positions : queue[i].op = "pause" /\ queue[j].op = "pause" => i = j

\* Each decision has a task of its own: the next one is there.
Numbered ==
    up /\ ~Ending =>
      /\ Live(1)
      /\ \A t \in Tasks : t >= 2 => (Live(t) <=> t <= 1 + Cardinality(DecidedCalls))

\* Whatever remembers a refusal, its call has had no effect and never will.
Refusals == {"denied", "cancelled"}
Refused(c) ==
    \/ doc.fact[c] \in Refusals \/ result[c] \in Refusals \/ accepted[c] \in Refusals
    \/ \E t \in Tasks : outcome[t].results[c] \in Refusals \/ todo[t][c] \in Refusals
    \/ \E i \in Positions : /\ queue[i].op \in {"result", "rescue"}
                            /\ queue[i].call = c /\ queue[i].fact \in Refusals
Barred(c) == c \notin executed /\ place[c] \in {"delivering", "closed"}
Refusing == \A c \in Calls : Refused(c) => Barred(c)

Layers ==
    /\ Shape /\ CallsHold /\ TasksHold /\ Numbered /\ Refusing
    /\ ApprovedBeforeExecuted /\ ClosedRoundIsSettled /\ PauseIsAnswerable

-----------------------------------------------------------------------------
(* What the operators do. *)

USE DEF loop, owner, bounds

\* The tasks are numbered, and there is one for the cleanup and one for the execution.
LEMMA TaskNumbers ==
  /\ Cardinality(Calls) \in Nat
  /\ Tasks \subseteq Nat /\ 0 \in Tasks /\ 1 \in Tasks
<1>1. Cardinality(Calls) \in Nat
  BY FS_CardinalityType, CallsAssumption
<1> QED
  BY <1>1 DEF Tasks

\* The shape gives every variable the type the runs check.
LEMMA ShapeIsTyped == Shape => TypeOK
<1> SUFFICES ASSUME Shape
             PROVE  TypeOK
  OBVIOUS
<1>1. /\ doc.status \in Statuses /\ doc.requests \subseteq Calls
      /\ doc.fact \in [Calls -> Facts] /\ doc.round \in BOOLEAN
      /\ doc.decided \in [Calls -> {"none", "approved", "denied"}]
      /\ DOMAIN doc = {"status", "requests", "fact", "decided", "round"}
  BY DEF Shape, Docs
<1>2. ASSUME NEW i \in 1 .. Len(queue)
      PROVE  queue[i].op \in {"result", "pause", "end", "fail", "block", "close",
                              "rescue", "reconcile", "decide", "cancel"}
  <2>1. queue[i] \in Operations
    BY <1>2, ElementOfSeq DEF Shape
  <2> QED
    BY <2>1 DEF Operations
<1>3. {stopping, broken, continuation, reserved, controller, held, up} \subseteq BOOLEAN
  BY DEF Shape
<1>4. \A t \in Tasks : todo[t] \in [Calls -> Facts]
  BY DEF Shape
<1> QED
  BY <1>1, <1>2, <1>3, <1>4 DEF Shape, TypeOK, Places, Steps

\* A document in its parts.
LEMMA DocParts ==
  ASSUME NEW d \in Docs
  PROVE  /\ d.status \in Statuses /\ d.requests \in SUBSET Calls
         /\ d.fact \in [Calls -> Facts] /\ d.round \in BOOLEAN
         /\ d.decided \in [Calls -> {"none", "approved", "denied"}]
  BY DEF Docs

\* Closing the facts of a document leaves the rest of it alone; a final fact stays, and
\* what is written says neither that the user nor that an abort refused the call.
LEMMA CloseParts ==
  ASSUME NEW d \in Docs
  PROVE  /\ CloseAsked(d) \in Docs /\ CloseFacts(d) \in Docs
         /\ \A e \in {CloseAsked(d), CloseFacts(d)} :
              /\ e.status = d.status /\ e.requests = d.requests
              /\ e.decided = d.decided /\ e.round = d.round
              /\ \A c \in Calls : e.fact[c] = d.fact[c]
                   \/ (d.fact[c] \notin Final /\ e.fact[c] \in {"unknown", "lost"})
         /\ \A c \in Calls : CloseFacts(d).fact[c] \in Final
<1>0. /\ d.fact \in [Calls -> Facts]
      /\ \A c \in Calls : Interrupted(d, c) \in {"unknown", "lost"}
  BY DEF Docs, Interrupted
<1> DEFINE e == CloseAsked(d)
<1>1. /\ e \in Docs /\ e.status = d.status /\ e.requests = d.requests
      /\ e.decided = d.decided /\ e.round = d.round
      /\ \A c \in Calls : e.fact[c] = IF d.fact[c] = "asked" THEN Interrupted(d, c) ELSE d.fact[c]
  BY <1>0 DEF CloseAsked, Docs, Facts, Final
<1> DEFINE f == CloseFacts(d)
<1> HIDE DEF e
<1>2. f = [e EXCEPT !.fact = [c \in Calls |-> IF @[c] = "none" THEN "unknown" ELSE @[c]]]
  BY DEF CloseFacts, e
<1>3. /\ f \in Docs /\ f.status = d.status /\ f.requests = d.requests
      /\ f.decided = d.decided /\ f.round = d.round
      /\ \A c \in Calls : f.fact[c] = IF e.fact[c] = "none" THEN "unknown" ELSE e.fact[c]
  BY <1>1, <1>2 DEF Docs, Facts, Final
<1> HIDE DEF f
<1>4. \A c \in Calls : e.fact[c] = d.fact[c]
                   \/ (d.fact[c] \notin Final /\ e.fact[c] \in {"unknown", "lost"})
  BY <1>0, <1>1 DEF Final
<1>5. \A c \in Calls : f.fact[c] = d.fact[c]
                   \/ (d.fact[c] \notin Final /\ f.fact[c] \in {"unknown", "lost"})
  BY <1>0, <1>1, <1>3 DEF Final
<1>6. \A c \in Calls : f.fact[c] \in Final
  BY <1>0, <1>1, <1>3 DEF Final, Facts
<1> QED
  BY <1>1, <1>3, <1>4, <1>5, <1>6 DEF e, f

\* Merging and forgetting results yields results.
LEMMA MergeType ==
  ASSUME NEW f \in [Calls -> Facts], NEW g \in [Calls -> Facts]
  PROVE  Merge(f, g) \in [Calls -> Facts]
  BY DEF Merge

\* So does forgetting what has been saved.
LEMMA ForgetType ==
  ASSUME NEW acc \in [Calls -> Facts], NEW f \in [Calls -> Facts], NEW g
  PROVE  Forget(acc, f, g) \in [Calls -> Facts]
  BY DEF Forget, Facts

\* What persistToolResult makes of the document.
LEMMA RecordedParts ==
  ASSUME doc \in Docs, NEW c \in Calls, NEW v \in Facts
  PROVE  LET d == Recorded(c, v) IN
         /\ d \in Docs
         /\ d.status = doc.status /\ d.requests = doc.requests
         /\ d.decided = doc.decided /\ d.round = doc.round
         /\ \A b \in Calls : d.fact[b] = doc.fact[b]
              \/ (b = c /\ d.fact[b] = v /\ doc.fact[b] \notin Final)
  BY DEF Recorded, Docs

\* No result, an outcome of nothing, and a document without facts.
LEMMA Empties ==
  /\ Nothing \in [Calls -> Facts] /\ NoOutcome \in Outcomes
  /\ \A c \in Calls : Nothing[c] = "none"
  /\ Nothing \in [Calls -> {"none", "approved", "denied"}]
  BY DEF Nothing, NoOutcome, Outcomes, Facts

-----------------------------------------------------------------------------
(* The queue of the run's lock and the tasks that wait for it. *)

\* q is what is left of the queue when its first k operations are done, and p is that
\* with one more operation, from S, or with none.
Left(q, k) ==
  /\ q \in Seq(Operations)
  /\ \A i \in 1 .. Len(q) : i + k \in Positions /\ q[i] = queue[i + k]
Carries(p, k, S) ==
  /\ p \in Seq(Operations)
  /\ \A i \in 1 .. Len(p) :
       \/ i + k \in Positions /\ p[i] = queue[i + k]
       \/ i = Len(p) /\ p[i] \in S

\* The operations are what they carry.
LEMMA OperationParts ==
  ASSUME NEW o \in Operations
  PROVE  /\ o.op \in {"result", "rescue", "decide", "pause", "end", "fail", "block",
                      "reconcile", "close", "cancel"}
         /\ o.op \in {"result", "rescue"} => o.call \in Calls /\ o.fact \in Facts
         /\ o.op = "rescue" => o.task \in Tasks
         /\ o.op = "decide" => o.call \in Calls /\ o.fact \in {"approved", "denied"}
         /\ o.op \in {"pause", "end", "fail", "block", "reconcile"} => o.task \in Tasks
  BY DEF Operations

\* These are operations.
LEMMA OperationKinds ==
  /\ \A c \in Calls, v \in Facts :
       [op |-> "result", call |-> c, fact |-> v, task |-> 0] \in Operations
  /\ \A c \in Calls, v \in Facts, t \in Tasks :
       [op |-> "rescue", call |-> c, fact |-> v, task |-> t] \in Operations
  /\ \A c \in Calls, v \in {"approved", "denied"} :
       [op |-> "decide", call |-> c, fact |-> v, task |-> 0] \in Operations
  /\ \A x \in {"pause", "end", "fail", "block", "reconcile"}, t \in Tasks :
       [op |-> x, task |-> t] \in Operations
  /\ [op |-> "close"] \in Operations /\ [op |-> "cancel"] \in Operations
  BY DEF Operations

\* The queue as it is, and without the operation at work.
LEMMA LeftOver ==
  ASSUME Shape
  PROVE  /\ Left(queue, 0) /\ Len(queue) \in Nat
         /\ \A i \in Positions : queue[i] \in Operations
         /\ queue # <<>> =>
              /\ Left(Rest, 1)
              /\ 1 \in Positions /\ Head(queue) = queue[1] /\ Head(queue) \in Operations
<1>1. queue \in Seq(Operations)
  BY DEF Shape
<1>2. /\ Len(queue) \in Nat
      /\ \A i \in Positions : queue[i] \in Operations
  BY <1>1, LenProperties, ElementOfSeq DEF Positions
<1>3. Left(queue, 0)
  BY <1>1, <1>2 DEF Left, Positions
<1>4. ASSUME queue # <<>>
      PROVE  /\ Left(Rest, 1)
             /\ 1 \in Positions /\ Head(queue) = queue[1] /\ Head(queue) \in Operations
  <2>1. /\ Head(queue) \in Operations
        /\ Rest \in Seq(Operations) /\ Len(Rest) = Len(queue) - 1
        /\ \A i \in 1 .. Len(Rest) : Rest[i] = queue[i + 1]
    BY <1>1, <1>4, HeadTailProperties, Zenon DEF Rest
  <2>2. Len(queue) > 0
    BY <1>1, <1>2, <1>4, EmptySeq
  <2> QED
    BY <2>1, <2>2, <1>2 DEF Left, Positions
<1> QED
  BY <1>2, <1>3, <1>4

\* Adding one operation, or none, carries the rest.
LEMMA Adding ==
  ASSUME NEW q, NEW k \in Nat, Left(q, k), NEW S, NEW o \in Operations, o \in S
  PROVE  Carries(Append(q, o), k, S) /\ Carries(q \o <<o>>, k, S)
<1>1. q \in Seq(Operations) /\ Len(q) \in Nat
  BY LenProperties DEF Left
<1>2. /\ Append(q, o) \in Seq(Operations) /\ Len(Append(q, o)) = Len(q) + 1
      /\ \A i \in 1 .. Len(q) : Append(q, o)[i] = q[i]
      /\ Append(q, o)[Len(q) + 1] = o
  BY <1>1
<1>3. q \o <<o>> = Append(q, o)
  BY <1>1
<1> DEFINE p == Append(q, o)
<1> HIDE DEF p
<1>4. p \in Seq(Operations) /\ Len(p) = Len(q) + 1
  BY <1>2 DEF p
<1>5. ASSUME NEW i \in 1 .. Len(p)
      PROVE  \/ i + k \in Positions /\ p[i] = queue[i + k]
             \/ i = Len(p) /\ p[i] \in S
  <2>1. CASE i = Len(q) + 1
    BY <2>1, <1>2, <1>4 DEF p
  <2>2. CASE i # Len(q) + 1
    <3>1. i \in 1 .. Len(q)
      BY <2>2, <1>1, <1>4
    <3> QED
      BY <3>1, <1>2 DEF p, Left
  <2> QED
    BY <2>1, <2>2
<1>6. Carries(p, k, S)
  BY <1>4, <1>5 DEF Carries
<1> QED
  BY <1>3, <1>6 DEF p

\* So does adding none.
LEMMA AddingNone ==
  ASSUME NEW q, NEW k \in Nat, Left(q, k), NEW S
  PROVE  Carries(q, k, S) /\ Carries(q \o <<>>, k, S) /\ Carries(<<>>, k, S)
<1>1. q \in Seq(Operations) /\ q \o <<>> = q
  BY ConcatEmptySeq DEF Left
<1> QED
  BY <1>1, EmptySeq DEF Left, Carries

\* Task t is at one of Xs, and one operation, from S, or none, joins what is left of the
\* queue.
Moves(t, Xs, k, S) ==
  /\ \E x \in Xs : task' = [task EXCEPT ![t] = x]
  /\ Carries(queue', k, S)
  /\ controller' \in BOOLEAN /\ reserved' \in BOOLEAN

\* What a settlement queues.
Settling(t, list) ==
  {o \in Operations :
     \/ o.op = "rescue" /\ o.task = t /\ o.fact = list[o.call]
     \/ o.op = "reconcile" /\ o.task = t}

\* A task that settles.
LEMMA SettleMoves ==
  ASSUME Shape, NEW t \in Tasks, NEW d, NEW list \in [Calls -> Facts],
         NEW q, NEW k \in Nat, Left(q, k), Settle(t, d, list, q)
  PROVE  /\ Moves(t, {"persisting", "reconciling", "gone"}, k, Settling(t, list))
         /\ todo' = [todo EXCEPT ![t] = list]
<1>1. todo' = [todo EXCEPT ![t] = list]
  BY DEF Settle
<1>2. CASE /\ \E c \in Calls :
                /\ list[c] # "none"
                /\ queue' = Append(q, [op |-> "rescue", call |-> c, fact |-> list[c], task |-> t])
           /\ task' = [task EXCEPT ![t] = "persisting"]
           /\ UNCHANGED <<controller, reserved>>
  <2>1. PICK c \in Calls :
           queue' = Append(q, [op |-> "rescue", call |-> c, fact |-> list[c], task |-> t])
    BY <1>2
  <2> DEFINE o == [op |-> "rescue", call |-> c, fact |-> list[c], task |-> t]
  <2>2. o \in Operations
    BY OperationKinds
  <2>3. o \in Settling(t, list)
    BY <2>2 DEF Settling
  <2>4. Carries(queue', k, Settling(t, list))
    BY <2>1, <2>2, <2>3, Adding
  <2> QED
    BY <1>1, <1>2, <2>4 DEF Moves, Shape
<1>3. CASE /\ queue' = Append(q, [op |-> "reconcile", task |-> t])
           /\ task' = [task EXCEPT ![t] = "reconciling"]
           /\ UNCHANGED <<controller, reserved>>
  <2> DEFINE o == [op |-> "reconcile", task |-> t]
  <2>2. o \in Operations
    BY OperationKinds
  <2>3. o \in Settling(t, list)
    BY <2>2 DEF Settling
  <2>4. Carries(queue', k, Settling(t, list))
    BY <1>3, <2>2, <2>3, Adding
  <2> QED
    BY <1>1, <1>3, <2>4 DEF Moves, Shape
<1>4. CASE queue' = q /\ Finish(t)
  <2>1. Carries(queue', k, Settling(t, list))
    BY <1>4, AddingNone
  <2> QED
    BY <1>1, <1>4, <2>1 DEF Moves, Finish
<1> QED
  BY <1>2, <1>3, <1>4 DEF Settle

\* A task that goes on elsewhere.
LEMMA GoMoves ==
  ASSUME Shape, NEW t \in Tasks, NEW where \in Steps, NEW q, NEW k \in Nat, Left(q, k)
  PROVE  /\ Go(t, where, <<>>, q) => Moves(t, {where}, k, {}) /\ todo' = todo
         /\ \A o \in Operations :
              Go(t, where, <<o>>, q) => Moves(t, {where}, k, {o}) /\ todo' = todo
<1>1. Carries(q \o <<>>, k, {})
  BY AddingNone
<1>2. ASSUME NEW o \in Operations
      PROVE  Carries(q \o <<o>>, k, {o})
  BY Adding
<1> QED
  BY <1>1, <1>2 DEF Go, Moves, Shape

-----------------------------------------------------------------------------
(* What the steps of the tasks do. *)

Settled == {"persisting", "reconciling", "gone"}
Settles(t, list, k) ==
  /\ list \in [Calls -> Facts]
  /\ Moves(t, Settled, k, Settling(t, list))
  /\ todo' = [todo EXCEPT ![t] = list]
Goes(t, where, k, S) == Moves(t, {where}, k, S) /\ todo' = todo

\* A settlement, by the name it has from here on.
LEMMA Settlement ==
  ASSUME Shape, NEW t \in Tasks, NEW d, NEW list \in [Calls -> Facts],
         NEW q, NEW k \in Nat, Left(q, k), Settle(t, d, list, q)
  PROVE  Settles(t, list, k)
  BY SettleMoves DEF Settles, Settled

\* So with a task that goes on.
LEMMA Going ==
  ASSUME Shape, NEW t \in Tasks, NEW where \in Steps, NEW q, NEW k \in Nat, Left(q, k)
  PROVE  /\ Go(t, where, <<>>, q) => Goes(t, where, k, {})
         /\ \A o \in Operations : Go(t, where, <<o>>, q) => Goes(t, where, k, {o})
  BY GoMoves DEF Goes

\* The operation at work.
LEMMA AtWork ==
  ASSUME Shape, NEW x, At(x)
  PROVE  /\ up /\ Left(Rest, 1) /\ 1 \in Positions
         /\ Head(queue) = queue[1] /\ Head(queue) \in Operations /\ Head(queue).op = x
  BY LeftOver DEF At

\* The outcome is remembered and applied, or ends in the catch.
LEMMA RememberMoves ==
  ASSUME Shape, NEW t \in Tasks, Remember(t)
  PROVE  /\ task[t] = "captured"
         /\ accepted' \in {accepted, Merge(accepted, outcome[t].results)}
         /\ \/ outcome[t].verdict = "paused"
                 /\ Goes(t, "pausing", 0, {[op |-> "pause", task |-> t]})
            \/ Ending /\ Settles(t, Forget(accepted', doc.fact, outcome[t].results), 0)
            \/ outcome[t].verdict # "paused" /\ Goes(t, "ending", 0, {[op |-> "end", task |-> t]})
            \/ Goes(t, "stopped", 0, {})
<1>1. Left(queue, 0) /\ task[t] = "captured"
  BY LeftOver DEF Remember
<1>2. CASE ~Memorable(outcome[t].results)
  BY <1>1, <1>2, Going DEF Remember, Steps
<1>3. CASE Memorable(outcome[t].results)
  <2>1. /\ accepted' = Merge(accepted, outcome[t].results)
        /\ CASE outcome[t].verdict = "paused" ->
                  Go(t, "pausing", <<[op |-> "pause", task |-> t]>>, queue)
             [] outcome[t].verdict # "paused" /\ doc.status \in Terminal ->
                  Settle(t, doc, Forget(accepted', doc.fact, outcome[t].results), queue)
             [] OTHER -> Go(t, "ending", <<[op |-> "end", task |-> t]>>, queue)
    BY <1>3 DEF Remember
  <2>2. accepted' \in [Calls -> Facts]
    BY <2>1, MergeType DEF Shape, Outcomes
  <2>3. Forget(accepted', doc.fact, outcome[t].results) \in [Calls -> Facts]
    BY <2>2, ForgetType, DocParts DEF Shape
  <2>4. CASE outcome[t].verdict = "paused"
    <3>1. Go(t, "pausing", <<[op |-> "pause", task |-> t]>>, queue)
      BY <2>1, <2>4
    <3> QED
      BY <1>1, <2>1, <2>4, <3>1, Going, OperationKinds DEF Steps
  <2>5. CASE outcome[t].verdict # "paused" /\ doc.status \in Terminal
    <3>1. Settle(t, doc, Forget(accepted', doc.fact, outcome[t].results), queue)
      BY <2>1, <2>5
    <3> QED
      BY <1>1, <2>1, <2>3, <2>5, <3>1, Settlement DEF Ending
  <2>6. CASE outcome[t].verdict # "paused" /\ doc.status \notin Terminal
    <3>1. Go(t, "ending", <<[op |-> "end", task |-> t]>>, queue)
      BY <2>1, <2>6
    <3> QED
      BY <1>1, <2>1, <2>6, <3>1, Going, OperationKinds DEF Steps
  <2> QED
    BY <2>4, <2>5, <2>6
<1> QED
  BY <1>2, <1>3

\* The continuation was released: the task settles or ends in the catch.
LEMMA ReleasedMoves ==
  ASSUME Shape, NEW t \in Tasks, Released(t)
  PROVE  /\ task[t] = "releasing"
         /\ accepted' \in {accepted, Forget(accepted, doc.fact, outcome[t].results)}
         /\ Settles(t, accepted', 0) \/ Goes(t, "stopped", 0, {})
<1>1. Left(queue, 0)
  BY LeftOver
<1>2. Forget(accepted, doc.fact, outcome[t].results) \in [Calls -> Facts]
  BY ForgetType, DocParts DEF Shape
<1>3. CASE outcome[t].verdict = "ignored"
  BY <1>1, <1>2, <1>3, Settlement DEF Released
<1>4. CASE outcome[t].verdict # "ignored"
  BY <1>1, <1>4, Going DEF Released, Steps
<1> QED
  BY <1>3, <1>4 DEF Released

\* The catch block.
LEMMA CatchMoves ==
  ASSUME Shape, NEW t \in Tasks, Catch(t)
  PROVE  /\ task[t] = "stopped"
         /\ Settles(t, accepted, 0) \/ Goes(t, "failing", 0, {[op |-> "fail", task |-> t]})
<1>1. Left(queue, 0) /\ accepted \in [Calls -> Facts]
  BY LeftOver DEF Shape
<1>3. CASE doc.status \in Terminal
  BY <1>1, <1>3, Settlement DEF Catch
<1>4. CASE doc.status \notin Terminal
  BY <1>1, <1>4, Going, OperationKinds DEF Catch, Steps
<1> QED
  BY <1>3, <1>4 DEF Catch

\* The Session was finalized.
LEMMA FinalizedMoves ==
  ASSUME Shape, NEW t \in Tasks, Finalized(t)
  PROVE  /\ task[t] = "draining"
         /\ accepted' = Forget(accepted, doc.fact, outcome[t].results)
         /\ Settles(t, accepted', 0)
<1>1. Left(queue, 0)
  BY LeftOver
<1>2. Forget(accepted, doc.fact, outcome[t].results) \in [Calls -> Facts]
  BY ForgetType, DocParts DEF Shape
<1> QED
  BY <1>1, <1>2, Settlement DEF Finalized

\* The transcript is given back.
LEMMA RevokeMoves ==
  ASSUME Shape, NEW t \in Tasks, Revoke(t)
  PROVE  task[t] = "finalizing" /\ Goes(t, "draining", 0, {})
<1>1. Left(queue, 0)
  BY LeftOver
<1> QED
  BY <1>1, Going DEF Revoke, Steps

\* The cleanup released the continuation.
LEMMA CleanupReleasedMoves ==
  ASSUME Shape, CleanupReleased
  PROVE  task[0] = "releasing" /\ Goes(0, "idling", 0, {})
<1>1. Left(queue, 0)
  BY LeftOver
<1> QED
  BY <1>1, Going, TaskNumbers DEF CleanupReleased, Steps

\* The cleanup settles, or leaves that to the execution.
LEMMA CleanupSettlesMoves ==
  ASSUME Shape, CleanupSettles
  PROVE  /\ task[0] \in {"draining", "cleaned"} /\ held' \in BOOLEAN
         /\ Settles(0, accepted, 0) \/ Goes(0, "gone", 0, {})
<1>1. Left(queue, 0) /\ accepted \in [Calls -> Facts]
  BY LeftOver DEF Shape
<1>2. task[0] \in {"draining", "cleaned"} /\ held' \in BOOLEAN
  BY DEF CleanupSettles, Shape
<1>3. CASE HasLiveExecution
  <2>1. Carries(queue', 0, {})
    BY <1>1, <1>3, AddingNone DEF CleanupSettles
  <2> QED
    BY <1>2, <1>3, <2>1 DEF CleanupSettles, Finish, Goes, Moves
<1>4. CASE ~HasLiveExecution
  BY <1>1, <1>2, <1>4, Settlement, TaskNumbers DEF CleanupSettles
<1> QED
  BY <1>3, <1>4

\* The durable pause.
LEMMA PausedMoves ==
  ASSUME Shape, Paused
  PROVE  LET t == queue[1].task IN
         /\ At("pause") /\ t \in Tasks /\ CanPause(t)
         /\ doc' = [doc EXCEPT !.status = "awaiting", !.requests = outcome[t].requests,
                               !.fact = PauseFacts(t)]
         /\ doc' \in Docs /\ continuation' = TRUE
         /\ accepted' = Forget(accepted, doc'.fact, outcome[t].results)
         /\ Settles(t, accepted', 1)
<1> DEFINE t == queue[1].task
<1>1. /\ At("pause") /\ Left(Rest, 1) /\ Head(queue) = queue[1]
      /\ t \in Tasks
  BY AtWork, OperationParts DEF Paused
<1>2. /\ CanPause(t)
      /\ doc' = [doc EXCEPT !.status = "awaiting", !.requests = outcome[t].requests,
                               !.fact = PauseFacts(t)]
      /\ continuation' = TRUE
      /\ accepted' = Forget(accepted, doc'.fact, outcome[t].results)
      /\ Settle(t, doc', accepted', Rest)
  BY <1>1 DEF Paused
<1> HIDE DEF t
<1>3. outcome[t] \in Outcomes /\ outcome[t].results \in [Calls -> Facts]
  BY <1>1 DEF Shape, Outcomes
<1>4. PauseFacts(t) \in [Calls -> Facts]
  BY <1>3, MergeType, DocParts DEF PauseFacts, Shape
<1>5. doc' \in Docs /\ doc'.fact = PauseFacts(t)
  BY <1>2, <1>3, <1>4 DEF Shape, Docs, Outcomes, Statuses
<1>6. accepted' \in [Calls -> Facts]
  BY <1>2, <1>4, <1>5, ForgetType DEF Shape
<1>7. Settles(t, accepted', 1)
  BY <1>1, <1>2, <1>6, Settlement
<1> QED
  BY <1>1, <1>2, <1>5, <1>7 DEF t

\* A pause that was refused or not saved.
LEMMA NotPausedMoves ==
  ASSUME Shape, NotPaused
  PROVE  LET t == queue[1].task IN
         /\ At("pause") /\ t \in Tasks
         /\ Goes(t, "releasing", 1, {})
         /\ outcome' \in [Tasks -> Outcomes]
         /\ \A u \in Tasks : outcome'[u].results = outcome[u].results
         /\ \A u \in Tasks : u # t => outcome'[u] = outcome[u]
<1> DEFINE t == queue[1].task
<1>1. /\ At("pause") /\ Left(Rest, 1) /\ Head(queue) = queue[1]
      /\ t \in Tasks
  BY AtWork, OperationParts DEF NotPaused
<1>2. /\ Go(t, "releasing", <<>>, Rest)
      /\ outcome' = [outcome EXCEPT ![t].verdict =
                            IF doc.status \in Terminal THEN "ignored" ELSE @]
  BY <1>1 DEF NotPaused
<1> HIDE DEF t
<1>3. Goes(t, "releasing", 1, {})
  BY <1>1, <1>2, Going DEF Steps
<1>4. PICK v \in {"ignored", outcome[t].verdict} :
        outcome' = [outcome EXCEPT ![t] = [outcome[t] EXCEPT !.verdict = v]]
  BY <1>1, <1>2 DEF Shape
<1>5. [outcome[t] EXCEPT !.verdict = v] \in Outcomes
  BY <1>1, <1>4 DEF Shape, Outcomes
<1>6. [outcome[t] EXCEPT !.verdict = v].results = outcome[t].results
  BY <1>1, <1>4 DEF Shape, Outcomes
<1> QED
  BY <1>1, <1>3, <1>4, <1>5, <1>6 DEF t, Shape

\* The terminal transition; an end brings a terminal verdict because of TasksHold.
LEMMA EndedMoves ==
  ASSUME Shape, TasksHold, Ended
  PROVE  LET t == queue[1].task IN
         /\ IsEnd /\ t \in Tasks /\ CanEnd(t)
         /\ doc' = [doc EXCEPT !.status = doc'.status, !.requests = {},
                               !.fact = Merge(@, outcome[t].results)]
         /\ doc' \in Docs /\ doc'.status \in Terminal
         /\ Goes(t, "finalizing", 1, {})
<1> DEFINE t == queue[1].task
<1>1. /\ IsEnd /\ Left(Rest, 1) /\ Head(queue) = queue[1] /\ 1 \in Positions
      /\ Head(queue).op \in {"end", "fail", "block"}
      /\ t \in Tasks
  BY AtWork, OperationParts DEF Ended, IsEnd
<1>2. /\ CanEnd(t)
      /\ doc' = [doc EXCEPT !.status = Verdict(t), !.requests = {},
                                !.fact = Merge(@, outcome[t].results)]
      /\ Go(t, "finalizing", <<>>, Rest)
  BY <1>1 DEF Ended
<1>3. queue[1].op = "end" => outcome[t].verdict \in {"completed", "failed", "cancelled"}
  BY <1>1 DEF TasksHold, EndHolds
<1>4. Verdict(t) \in Terminal
  BY <1>1, <1>3 DEF Verdict, Terminal
<1> HIDE DEF t
<1>5. Merge(doc.fact, outcome[t].results) \in [Calls -> Facts]
  BY <1>1, MergeType, DocParts DEF Shape, Outcomes
<1>6. doc' \in Docs /\ doc'.status = Verdict(t)
  BY <1>2, <1>4, <1>5 DEF Shape, Docs, Terminal, Statuses
<1>7. Goes(t, "finalizing", 1, {})
  BY <1>1, <1>2, Going DEF Steps
<1> QED
  BY <1>1, <1>2, <1>4, <1>6, <1>7 DEF t

\* A terminal transition that was refused or not saved.
LEMMA NotEndedMoves ==
  ASSUME Shape, NotEnded
  PROVE  LET t == queue[1].task IN
         /\ IsEnd /\ t \in Tasks
         /\ \/ queue[1].op = "end" /\ Goes(t, "blocking", 1, {[op |-> "block", task |-> t]})
            \/ Goes(t, "stopped", 1, {})
            \/ Settles(t, accepted, 1)
<1> DEFINE t == queue[1].task
<1> DEFINE o == queue[1].op
<1>1. /\ IsEnd /\ Left(Rest, 1) /\ Head(queue) = queue[1]
      /\ t \in Tasks /\ accepted \in [Calls -> Facts]
  BY AtWork, OperationParts DEF NotEnded, IsEnd, Shape
<1>2. (CASE o = "end" /\ outcome[t].verdict = "completed" /\ doc.status \notin Terminal ->
                Go(t, "blocking", <<[op |-> "block", task |-> t]>>, Rest)
         [] o = "end" /\ outcome[t].verdict # "completed" -> Go(t, "stopped", <<>>, Rest)
         [] OTHER -> Settle(t, doc, accepted, Rest))
  BY <1>1 DEF NotEnded
<1> HIDE DEF t
<1>3. CASE o = "end" /\ outcome[t].verdict = "completed" /\ doc.status \notin Terminal
  <2>1. Go(t, "blocking", <<[op |-> "block", task |-> t]>>, Rest)
    BY <1>2, <1>3
  <2> QED
    BY <1>1, <1>3, <2>1, Going, OperationKinds DEF Steps, t
<1>4. CASE o = "end" /\ outcome[t].verdict # "completed"
  <2>1. Go(t, "stopped", <<>>, Rest)
    BY <1>2, <1>4
  <2> QED
    BY <1>1, <2>1, Going DEF Steps, t
<1>5. CASE ~(o = "end" /\ outcome[t].verdict # "completed")
           /\ ~(o = "end" /\ outcome[t].verdict = "completed" /\ doc.status \notin Terminal)
  <2>1. Settle(t, doc, accepted, Rest)
    BY <1>2, <1>5
  <2> QED
    BY <1>1, <2>1, Settlement DEF t
<1> QED
  BY <1>3, <1>4, <1>5

\* A settlement saves one accepted result.
LEMMA RescuedMoves ==
  ASSUME Shape, Rescued
  PROVE  LET t == queue[1].task
             c == queue[1].call
             v == queue[1].fact
         IN
         /\ At("rescue") /\ t \in Tasks /\ c \in Calls /\ v \in Facts
         /\ doc' \in {doc, Recorded(c, v)} /\ doc' \in Docs
         /\ accepted' \in {accepted, Forget(accepted, doc'.fact, [Nothing EXCEPT ![c] = v])}
         /\ accepted' \in [Calls -> Facts]
         /\ Settles(t, [todo[t] EXCEPT ![c] = "none"], 1)
<1> DEFINE t == queue[1].task
<1> DEFINE c == queue[1].call
<1> DEFINE v == queue[1].fact
<1>1. /\ At("rescue") /\ Left(Rest, 1) /\ Head(queue) = queue[1]
      /\ t \in Tasks /\ c \in Calls /\ v \in Facts
  BY AtWork, OperationParts DEF Rescued
<1>2. /\ doc' \in {doc, Recorded(c, v)}
      /\ accepted' \in {accepted, Forget(accepted, doc'.fact, [Nothing EXCEPT ![c] = v])}
      /\ Settle(t, doc', [todo[t] EXCEPT ![c] = "none"], Rest)
  BY <1>1 DEF Rescued
<1> HIDE DEF t, c, v
<1>3. doc' \in Docs
  BY <1>1, <1>2, RecordedParts DEF Shape
<1>4. accepted' \in [Calls -> Facts]
  <2>1. accepted \in [Calls -> Facts] /\ doc'.fact \in [Calls -> Facts]
    BY <1>3 DEF Shape, Docs
  <2>2. Forget(accepted, doc'.fact, [Nothing EXCEPT ![c] = v]) \in [Calls -> Facts]
    BY <2>1, ForgetType
  <2> QED
    BY <1>2, <2>1, <2>2
<1>5. [todo[t] EXCEPT ![c] = "none"] \in [Calls -> Facts]
  BY <1>1 DEF Shape, Facts
<1>6. Settles(t, [todo[t] EXCEPT ![c] = "none"], 1)
  BY <1>1, <1>2, <1>5, Settlement
<1> QED
  BY <1>1, <1>2, <1>3, <1>4, <1>6 DEF t, c, v

\* A settlement reconciles the round.
LEMMA ReconciledMoves ==
  ASSUME Shape, Reconciled
  PROVE  LET t == queue[1].task IN
         /\ At("reconcile") /\ t \in Tasks
         /\ doc' \in {doc, CloseFacts(doc), [CloseFacts(doc) EXCEPT !.round = FALSE]}
         /\ doc' \in Docs
         /\ accepted' \in {accepted, Nothing}
         /\ Goes(t, "gone", 1, {})
<1> DEFINE t == queue[1].task
<1>1. /\ At("reconcile") /\ Left(Rest, 1) /\ Head(queue) = queue[1]
      /\ t \in Tasks
  BY AtWork, OperationParts DEF Reconciled
<1>2. /\ doc' \in {doc, CloseFacts(doc), [CloseFacts(doc) EXCEPT !.round = FALSE]}
      /\ accepted' \in {accepted, Nothing}
      /\ Finish(t) /\ queue' = Rest /\ todo' = todo
  BY <1>1 DEF Reconciled
<1>3. doc' \in Docs
  <2>1. CloseFacts(doc) \in Docs
    BY CloseParts DEF Shape
  <2>2. [CloseFacts(doc) EXCEPT !.round = FALSE] \in Docs
    BY <2>1 DEF Docs
  <2> QED
    BY <1>2, <2>1, <2>2 DEF Shape
<1>4. Carries(queue', 1, {})
  BY <1>1, <1>2, AddingNone
<1>5. Goes(t, "gone", 1, {})
  BY <1>2, <1>4 DEF Goes, Moves, Finish
<1> QED
  BY <1>1, <1>2, <1>3, <1>5

-----------------------------------------------------------------------------
(* What the steps of the calls and of the user do. *)

ResultOp(c, v) == [op |-> "result", call |-> c, fact |-> v, task |-> 0]
Offers(c, v) ==
  /\ result' = [result EXCEPT ![c] = v] /\ accepted' = [accepted EXCEPT ![c] = v]
  /\ Carries(queue', 0, {ResultOp(c, v)})

\* A result offered by the loop.
LEMMA Offering ==
  ASSUME Shape, NEW c \in Calls, NEW v \in Facts, Offer(c, v)
  PROVE  Offers(c, v)
<1>1. Left(queue, 0) /\ ResultOp(c, v) \in Operations
  BY LeftOver, OperationKinds DEF ResultOp
<1> QED
  BY <1>1, Adding DEF Offer, Offers, ResultOp

\* A call begins to ask, is done, or is aborted.
LEMMA AskMoves ==
  ASSUME Shape, NEW c \in Calls, Ask(c)
  PROVE  /\ place[c] = "called" /\ ~stopping /\ c \in GatedBefore
         /\ place' = [place EXCEPT ![c] = "asking"] /\ executed' = executed
         /\ Offers(c, "asked")
  BY Offering DEF Ask, Facts

\* A call returns.
LEMMA ReturnMoves ==
  ASSUME Shape, NEW c \in Calls, Return(c)
  PROVE  /\ place[c] = "executing" /\ executed' = executed
         /\ \/ /\ c \in GatedDuring \ executed /\ Offers(c, "asked")
               /\ place' = [place EXCEPT ![c] = "asking"]
            \/ /\ c \in executed /\ Offers(c, "done")
               /\ place' = [place EXCEPT ![c] = "delivering"]
            \/ /\ stopping /\ Offers(c, "aborted")
               /\ place' = [place EXCEPT ![c] = "delivering"]
  BY Offering DEF Return, Facts, Final

\* A call is aborted before its effect.
LEMMA AbortMoves ==
  ASSUME Shape, NEW c \in Calls, Abort(c)
  PROVE  /\ stopping /\ executed' = executed
         /\ place' = [place EXCEPT ![c] = "delivering"]
         /\ \/ place[c] = "called" /\ Offers(c, "aborted")
            \/ place[c] = "waiting" /\ Offers(c, "cancelled")
  BY Offering DEF Abort, Facts, Final

\* A result reached the document: the call ends, is told to cancel, or waits.
LEMMA ResultSavedMoves ==
  ASSUME Shape, ResultSaved
  PROVE  LET c == queue[1].call
             v == queue[1].fact
             acc == Forget(accepted, doc'.fact, [Nothing EXCEPT ![c] = v])
         IN
         /\ At("result") /\ c \in Calls /\ v \in Facts /\ ~Conflicts(c, v)
         /\ doc' = Recorded(c, v) /\ doc' \in Docs
         /\ acc \in [Calls -> Facts]
         /\ \/ /\ v # "asked"
               /\ place' = [place EXCEPT ![c] = "closed"]
               /\ accepted' = acc /\ Carries(queue', 1, {})
               /\ UNCHANGED <<result, task, outcome>>
            \/ /\ v = "asked" /\ stopping
               /\ place' = [place EXCEPT ![c] = "delivering"]
               /\ result' = [result EXCEPT ![c] = "cancelled"]
               /\ accepted' = [acc EXCEPT ![c] = "cancelled"]
               /\ Carries(queue', 1, {ResultOp(c, "cancelled")})
               /\ UNCHANGED <<task, outcome>>
            \/ /\ v = "asked" /\ ~stopping
               /\ place' = [place EXCEPT ![c] = "waiting"]
               /\ accepted' = acc /\ Carries(queue', 1, {})
               /\ task' = [t \in Tasks |-> IF task[t] = "looping" THEN "captured" ELSE task[t]]
               /\ outcome' = [t \in Tasks |->
                     IF task[t] = "looping"
                     THEN [verdict |-> "paused", requests |-> Waiting \cup {c}, results |-> result]
                     ELSE outcome[t]]
               /\ UNCHANGED result
<1> DEFINE c == queue[1].call
<1> DEFINE v == queue[1].fact
<1> DEFINE acc == Forget(accepted, doc'.fact, [Nothing EXCEPT ![c] = v])
<1>1. /\ At("result") /\ Left(Rest, 1) /\ Head(queue) = queue[1]
      /\ c \in Calls /\ v \in Facts
  BY AtWork, OperationParts DEF ResultSaved
<1>2. /\ ~Conflicts(c, v) /\ doc' = Recorded(c, v)
      /\ (CASE v # "asked" ->
                  /\ place' = [place EXCEPT ![c] = "closed"]
                  /\ accepted' = acc /\ queue' = Rest
                  /\ UNCHANGED <<result, task, outcome>>
            [] v = "asked" /\ stopping ->
                  /\ place' = [place EXCEPT ![c] = "delivering"]
                  /\ result' = [result EXCEPT ![c] = "cancelled"]
                  /\ accepted' = [acc EXCEPT ![c] = "cancelled"]
                  /\ queue' = Append(Rest, ResultOp(c, "cancelled"))
                  /\ UNCHANGED <<task, outcome>>
            [] OTHER ->
                  /\ place' = [place EXCEPT ![c] = "waiting"]
                  /\ accepted' = acc /\ queue' = Rest
                  /\ task' = [t \in Tasks |-> IF task[t] = "looping" THEN "captured" ELSE task[t]]
                  /\ outcome' = [t \in Tasks |->
                        IF task[t] = "looping"
                        THEN [verdict |-> "paused", requests |-> Waiting \cup {c}, results |-> result]
                        ELSE outcome[t]]
                  /\ UNCHANGED result)
  BY <1>1 DEF ResultSaved, ResultOp
<1>3. doc' \in Docs /\ doc'.fact \in [Calls -> Facts]
  BY <1>1, <1>2, RecordedParts DEF Shape, Docs
<1>4. acc \in [Calls -> Facts]
  BY <1>3, ForgetType DEF Shape
<1>5. /\ Carries(Rest, 1, {})
      /\ Carries(Append(Rest, ResultOp(c, "cancelled")), 1, {ResultOp(c, "cancelled")})
  <2>1. ResultOp(c, "cancelled") \in Operations
    BY <1>1, OperationKinds DEF ResultOp, Facts, Final
  <2> QED
    BY <1>1, <2>1, Adding, AddingNone
<1> HIDE DEF c, v, acc
<1>6. CASE v # "asked"
  BY <1>1, <1>2, <1>3, <1>4, <1>5, <1>6 DEF c, v, acc
<1>7. CASE v = "asked" /\ stopping
  BY <1>1, <1>2, <1>3, <1>4, <1>5, <1>7 DEF c, v, acc
<1>8. CASE v = "asked" /\ ~stopping
  BY <1>1, <1>2, <1>3, <1>4, <1>5, <1>8 DEF c, v, acc
<1> QED
  BY <1>6, <1>7, <1>8

\* A result did not reach the document.
LEMMA ResultLostMoves ==
  ASSUME Shape, ResultLost
  PROVE  LET c == queue[1].call IN
         /\ At("result") /\ c \in Calls
         /\ place' = [place EXCEPT ![c] = "closed"]
         /\ result' = [result EXCEPT ![c] = "refused"]
         /\ faults' \in 0 .. MaxFaults /\ Carries(queue', 1, {})
<1> DEFINE c == queue[1].call
<1>1. /\ At("result") /\ Left(Rest, 1) /\ Head(queue) = queue[1] /\ c \in Calls
  BY AtWork, OperationParts DEF ResultLost
<1>2. Carries(Rest, 1, {})
  BY <1>1, AddingNone
<1>3. faults' \in 0 .. MaxFaults
  BY BoundsAssumption DEF ResultLost, Fault, NoFault, Shape
<1> QED
  BY <1>1, <1>2, <1>3 DEF ResultLost

\* A decision is saved and the call it is about released.
LEMMA DecidedMoves ==
  ASSUME Shape, Decided
  PROVE  LET c == queue[1].call
             decision == queue[1].fact
             t == NextTask
             left == Waiting \ {c}
         IN
         /\ At("decide") /\ c \in Calls /\ decision \in {"approved", "denied"}
         /\ MayDecide(c)
         /\ doc' = [doc EXCEPT !.status = "running", !.requests = {},
                               !.decided = [@ EXCEPT ![c] = decision]]
         /\ doc' \in Docs
         /\ continuation' = FALSE /\ reserved' = TRUE
         /\ task' = [task EXCEPT ![t] = IF left = {} THEN "looping" ELSE "captured"]
         /\ outcome' = [outcome EXCEPT ![t] =
                IF left = {} THEN NoOutcome
                ELSE [verdict |-> "paused", requests |-> left, results |-> result]]
         /\ \/ /\ decision = "approved"
               /\ place' = [place EXCEPT ![c] = "executing"]
               /\ executed' = executed \cup {c}
               /\ Carries(queue', 1, {})
               /\ UNCHANGED <<result, accepted>>
            \/ /\ decision = "denied"
               /\ place' = [place EXCEPT ![c] = "delivering"]
               /\ result' = [result EXCEPT ![c] = "denied"]
               /\ accepted' = [accepted EXCEPT ![c] = "denied"]
               /\ Carries(queue', 1, {ResultOp(c, "denied")})
               /\ UNCHANGED executed
<1> DEFINE c == queue[1].call
<1> DEFINE decision == queue[1].fact
<1> DEFINE t == NextTask
<1> DEFINE left == Waiting \ {c}
<1>1. /\ At("decide") /\ Left(Rest, 1) /\ Head(queue) = queue[1] /\ c \in Calls
      /\ decision \in {"approved", "denied"}
  BY AtWork, OperationParts DEF Decided
<1>2. /\ MayDecide(c)
      /\ doc' = [doc EXCEPT !.status = "running", !.requests = {}, !.decided[c] = decision]
      /\ continuation' = FALSE /\ reserved' = TRUE
      /\ task' = [task EXCEPT ![t] = IF left = {} THEN "looping" ELSE "captured"]
      /\ outcome' = [outcome EXCEPT ![t] =
                IF left = {} THEN NoOutcome
                ELSE [verdict |-> "paused", requests |-> left, results |-> result]]
      /\ IF decision = "approved"
             THEN /\ place' = [place EXCEPT ![c] = "executing"]
                  /\ executed' = executed \cup {c}
                  /\ queue' = Rest
                  /\ UNCHANGED <<result, accepted>>
             ELSE /\ place' = [place EXCEPT ![c] = "delivering"]
                  /\ result' = [result EXCEPT ![c] = "denied"]
                  /\ accepted' = [accepted EXCEPT ![c] = "denied"]
                  /\ queue' = Append(Rest, ResultOp(c, "denied"))
                  /\ UNCHANGED executed
  BY <1>1 DEF Decided, ResultOp
<1>3. doc' = [doc EXCEPT !.status = "running", !.requests = {},
                               !.decided = [@ EXCEPT ![c] = decision]]
  BY <1>2
<1>4. doc' \in Docs
  BY <1>1, <1>3 DEF Shape, Docs, Statuses
<1>5. /\ Carries(Rest, 1, {})
      /\ Carries(Append(Rest, ResultOp(c, "denied")), 1, {ResultOp(c, "denied")})
  <2>1. ResultOp(c, "denied") \in Operations
    BY <1>1, OperationKinds DEF ResultOp, Facts, Final
  <2> QED
    BY <1>1, <2>1, Adding, AddingNone
<1> HIDE DEF c, decision, t, left
<1>6. CASE decision = "approved"
  BY <1>1, <1>2, <1>3, <1>4, <1>5, <1>6 DEF c, decision, t, left
<1>7. CASE decision = "denied"
  BY <1>1, <1>2, <1>3, <1>4, <1>5, <1>7 DEF c, decision, t, left
<1> QED
  BY <1>1, <1>6, <1>7

-----------------------------------------------------------------------------
(* Every step keeps the types. *)

\* A task that settles or goes on keeps the types.
LEMMA MovesType ==
  ASSUME Shape, NEW t \in Tasks, NEW k \in Nat, NEW S
  PROVE  /\ \A list : Settles(t, list, k) =>
              /\ task' \in [Tasks -> Steps] /\ queue' \in Seq(Operations)
              /\ controller' \in BOOLEAN /\ reserved' \in BOOLEAN
              /\ todo' \in [Tasks -> [Calls -> Facts]]
         /\ \A where \in Steps : Goes(t, where, k, S) =>
              /\ task' \in [Tasks -> Steps] /\ queue' \in Seq(Operations)
              /\ controller' \in BOOLEAN /\ reserved' \in BOOLEAN
              /\ todo' \in [Tasks -> [Calls -> Facts]]
<1>1. ASSUME NEW list, Settles(t, list, k)
      PROVE  /\ task' \in [Tasks -> Steps] /\ queue' \in Seq(Operations)
             /\ controller' \in BOOLEAN /\ reserved' \in BOOLEAN
             /\ todo' \in [Tasks -> [Calls -> Facts]]
  <2>1. PICK x \in Settled : task' = [task EXCEPT ![t] = x]
    BY <1>1 DEF Settles, Moves
  <2>2. task' \in [Tasks -> Steps]
    BY <2>1 DEF Shape, Steps, Settled
  <2>3. todo' \in [Tasks -> [Calls -> Facts]]
    BY <1>1 DEF Settles, Shape
  <2> QED
    BY <1>1, <2>2, <2>3 DEF Settles, Moves, Carries
<1>2. ASSUME NEW where \in Steps, Goes(t, where, k, S)
      PROVE  /\ task' \in [Tasks -> Steps] /\ queue' \in Seq(Operations)
             /\ controller' \in BOOLEAN /\ reserved' \in BOOLEAN
             /\ todo' \in [Tasks -> [Calls -> Facts]]
  BY <1>2 DEF Goes, Moves, Carries, Shape
<1> QED
  BY <1>1, <1>2

\* The queue with one more operation is a queue.
LEMMA AppendType ==
  ASSUME Shape, NEW o \in Operations
  PROVE  Append(queue, o) \in Seq(Operations)
  BY DEF Shape

\* A fault or none is counted within its bound.
LEMMA FaultType ==
  ASSUME Shape
  PROVE  Fault \/ NoFault => faults' \in 0 .. MaxFaults
  BY BoundsAssumption DEF Fault, NoFault, Shape

\* Every step keeps the types.  Only the terminal transition needs TasksHold for that.
LEMMA ShapeStep ==
  ASSUME Shape, TasksHold, [Next]_vars
  PROVE  Shape'
<1>1. ASSUME NEW c \in Calls, Ask(c)
      PROVE  Shape'
  <2>1. RestOfOffer
    BY <1>1 DEF Ask
  <2> QED
    BY <1>1, <2>1, AskMoves DEF Shape, Offers, Carries, RestOfOffer, Ask, Places, Facts
<1>2. ASSUME NEW c \in Calls, Return(c)
      PROVE  Shape'
  <2>1. RestOfOffer
    BY <1>2 DEF Return
  <2>2. PICK v \in {"asked", "done", "aborted"} : Offers(c, v)
    BY <1>2, ReturnMoves
  <2>3. place' \in [Calls -> Places] /\ executed' = executed
    BY <1>2, ReturnMoves DEF Shape, Places
  <2>4. queue' \in Seq(Operations)
    BY <2>2 DEF Offers, Carries
  <2>5. result' \in [Calls -> Facts] /\ accepted' \in [Calls -> Facts]
    BY <2>2 DEF Shape, Offers, Facts, Final
  <2> QED
    BY <2>1, <2>3, <2>4, <2>5 DEF Shape, RestOfOffer
<1>3. ASSUME NEW c \in Calls, Abort(c)
      PROVE  Shape'
  <2>1. RestOfOffer
    BY <1>3 DEF Abort
  <2>2. PICK v \in {"aborted", "cancelled"} : Offers(c, v)
    BY <1>3, AbortMoves
  <2>3. place' \in [Calls -> Places] /\ executed' = executed
    BY <1>3, AbortMoves DEF Shape, Places
  <2>4. queue' \in Seq(Operations)
    BY <2>2 DEF Offers, Carries
  <2>5. result' \in [Calls -> Facts] /\ accepted' \in [Calls -> Facts]
    BY <2>2 DEF Shape, Offers, Facts, Final
  <2> QED
    BY <2>1, <2>3, <2>4, <2>5 DEF Shape, RestOfOffer
<1>4. ASSUME NEW c \in Calls, Start(c)
      PROVE  Shape'
  BY <1>4 DEF Shape, Start, Places
<1>5. ASSUME NEW c \in Calls, AskDecide(c)
      PROVE  Shape'
  <2>1. PICK v \in {"approved", "denied"} :
          queue' = Append(queue, [op |-> "decide", call |-> c, fact |-> v, task |-> 0])
    BY <1>5 DEF AskDecide
  <2>2. [op |-> "decide", call |-> c, fact |-> v, task |-> 0] \in Operations
    BY OperationKinds
  <2>3. queue' \in Seq(Operations)
    BY <2>1, <2>2, AppendType
  <2> QED
    BY <1>5, <2>3 DEF Shape, AskDecide
<1>6. CASE FinishCalls
  <2>1. queue' \in Seq(Operations)
    BY <1>6, OperationKinds, AppendType DEF FinishCalls, Shape
  <2> QED
    BY <1>6, <2>1 DEF Shape, FinishCalls
<1>7. CASE Answer
  BY <1>7 DEF Shape, Answer
<1>8. CASE ResultSaved
  <2> DEFINE c == queue[1].call
  <2> DEFINE acc == Forget(accepted, doc'.fact, [Nothing EXCEPT ![c] = queue[1].fact])
  <2>1. c \in Calls /\ acc \in [Calls -> Facts] /\ doc' \in Docs
    BY <1>8, ResultSavedMoves
  <2>2. queue' \in Seq(Operations)
    BY <1>8, ResultSavedMoves DEF Carries
  <2>3. result' \in [Calls -> Facts]
    BY <1>8, ResultSavedMoves DEF Shape, Facts, Final
  <2>4. accepted' \in [Calls -> Facts] /\ place' \in [Calls -> Places]
    <3>1. PICK x \in Places : place' = [place EXCEPT ![c] = x]
      BY <1>8, ResultSavedMoves DEF Places
    <3>2. accepted' \in {acc, [acc EXCEPT ![c] = "cancelled"]}
      BY <1>8, ResultSavedMoves
    <3> HIDE DEF acc
    <3> QED
      BY <2>1, <3>1, <3>2 DEF Shape, Facts, Final
  <2>5. task' \in [Tasks -> Steps] /\ outcome' \in [Tasks -> Outcomes]
    <3>1. CASE UNCHANGED <<task, outcome>>
      BY <3>1 DEF Shape
    <3>2. CASE /\ task' = [t \in Tasks |-> IF task[t] = "looping" THEN "captured" ELSE task[t]]
               /\ outcome' = [t \in Tasks |->
                     IF task[t] = "looping"
                     THEN [verdict |-> "paused", requests |-> Waiting \cup {c}, results |-> result]
                     ELSE outcome[t]]
      <4>1. [verdict |-> "paused", requests |-> Waiting \cup {c}, results |-> result] \in Outcomes
        BY <2>1 DEF Waiting, Outcomes, Shape
      <4> QED
        BY <3>2, <4>1 DEF Shape, Steps
    <3> QED
      BY <1>8, <3>1, <3>2, ResultSavedMoves
  <2> QED
    BY <1>8, <2>1, <2>2, <2>3, <2>4, <2>5 DEF Shape, ResultSaved, NoFault
<1>9. CASE ResultLost
  <2>1. faults' \in 0 .. MaxFaults /\ queue' \in Seq(Operations)
    BY <1>9, ResultLostMoves DEF Carries
  <2>2. place' \in [Calls -> Places] /\ result' \in [Calls -> Facts]
    BY <1>9, ResultLostMoves DEF Shape, Places, Facts, Final
  <2> QED
    BY <1>9, <2>1, <2>2 DEF Shape, ResultLost
<1>10. CASE RoundClosed \/ RoundNotClosed
  <2>1. queue' = Rest /\ At("close")
    BY <1>10 DEF RoundClosed, RoundNotClosed
  <2>2. queue' \in Seq(Operations)
    BY <2>1, AtWork DEF Left
  <2>3. doc' \in Docs
    BY <1>10 DEF RoundClosed, RoundNotClosed, Shape, Docs
  <2>4. faults' \in 0 .. MaxFaults
    BY <1>10, FaultType DEF RoundClosed, RoundNotClosed, Shape, NoFault
  <2> QED
    BY <1>10, <2>2, <2>3, <2>4 DEF Shape, RoundClosed, RoundNotClosed
<1>11. CASE Paused
  <2>1. doc' \in Docs /\ continuation' = TRUE
    BY <1>11, PausedMoves
  <2>2. PICK t \in Tasks : Settles(t, accepted', 1)
    BY <1>11, PausedMoves
  <2>3. accepted' \in [Calls -> Facts]
    BY <2>2 DEF Settles
  <2> QED
    BY <1>11, <2>1, <2>2, <2>3, MovesType DEF Shape, Paused
<1>12. CASE NotPaused
  <2>1. outcome' \in [Tasks -> Outcomes]
    BY <1>12, NotPausedMoves
  <2>2. PICK t \in Tasks : Goes(t, "releasing", 1, {})
    BY <1>12, NotPausedMoves
  <2>3. faults' \in 0 .. MaxFaults
    BY <1>12, FaultType DEF NotPaused
  <2>4. stopping' \in BOOLEAN
    BY <1>12 DEF NotPaused, Shape
  <2>5. "releasing" \in Steps
    BY DEF Steps
  <2> QED
    BY <1>12, <2>1, <2>2, <2>3, <2>4, <2>5, MovesType DEF Shape, NotPaused
<1>13. CASE Ended
  <2>1. doc' \in Docs
    BY <1>13, EndedMoves
  <2>2. PICK t \in Tasks : Goes(t, "finalizing", 1, {})
    BY <1>13, EndedMoves
  <2>5. "finalizing" \in Steps
    BY DEF Steps
  <2> QED
    BY <1>13, <2>1, <2>2, <2>5, MovesType DEF Shape, Ended
<1>14. CASE NotEnded
  <2>1. faults' \in 0 .. MaxFaults
    BY <1>14, FaultType DEF NotEnded
  <2>2. PICK t, S :
          /\ t \in Tasks
          /\ \/ Goes(t, "blocking", 1, S) \/ Goes(t, "stopped", 1, S) \/ Settles(t, accepted, 1)
    BY <1>14, NotEndedMoves
  <2>5. {"blocking", "stopped"} \subseteq Steps
    BY DEF Steps
  <2> QED
    BY <1>14, <2>1, <2>2, <2>5, MovesType DEF Shape, NotEnded
<1>15. CASE Rescued
  <2>1. doc' \in Docs /\ accepted' \in [Calls -> Facts]
    BY <1>15, RescuedMoves
  <2>2. PICK t, list : t \in Tasks /\ Settles(t, list, 1)
    BY <1>15, RescuedMoves
  <2>3. faults' \in 0 .. MaxFaults
    BY <1>15, FaultType DEF Rescued
  <2> QED
    BY <1>15, <2>1, <2>2, <2>3, MovesType DEF Shape, Rescued
<1>16. CASE Reconciled
  <2>1. doc' \in Docs /\ accepted' \in [Calls -> Facts]
    BY <1>16, ReconciledMoves, Empties DEF Shape
  <2>2. PICK t \in Tasks : Goes(t, "gone", 1, {})
    BY <1>16, ReconciledMoves
  <2>3. faults' \in 0 .. MaxFaults
    BY <1>16, FaultType DEF Reconciled
  <2>5. "gone" \in Steps
    BY DEF Steps
  <2> QED
    BY <1>16, <2>1, <2>2, <2>3, <2>5, MovesType DEF Shape, Reconciled
<1>17. CASE Decided
  <2> DEFINE c == queue[1].call
  <2>1. /\ c \in Calls /\ doc' \in Docs
        /\ continuation' \in BOOLEAN /\ reserved' \in BOOLEAN
    BY <1>17, DecidedMoves
  <2>2. queue' \in Seq(Operations)
    BY <1>17, DecidedMoves DEF Carries
  <2>3. result' \in [Calls -> Facts] /\ accepted' \in [Calls -> Facts]
    BY <1>17, DecidedMoves DEF Shape, Facts, Final
  <2>4. place' \in [Calls -> Places] /\ executed' \subseteq Calls
    BY <1>17, DecidedMoves DEF Shape, Places
  <2>5. task' \in [Tasks -> Steps]
    BY <1>17, DecidedMoves DEF Shape, Steps
  <2>6. outcome' \in [Tasks -> Outcomes]
    <3>1. PICK r \in SUBSET Calls :
            outcome' \in {[outcome EXCEPT ![NextTask] = NoOutcome],
               [outcome EXCEPT ![NextTask] =
                  [verdict |-> "paused", requests |-> r, results |-> result]]}
      <4>1. Waiting \ {c} \in SUBSET Calls
        BY DEF Waiting
      <4> QED
        BY <1>17, <4>1, DecidedMoves
    <3>2. [verdict |-> "paused", requests |-> r, results |-> result] \in Outcomes
      BY DEF Outcomes, Shape
    <3>3. outcome \in [Tasks -> Outcomes]
      BY DEF Shape
    <3> QED
      BY <3>1, <3>2, <3>3, Empties
  <2> QED
    BY <1>17, <2>1, <2>2, <2>3, <2>4, <2>5, <2>6 DEF Shape, Decided
<1>18. CASE NotDecided
  <2>1. faults' \in 0 .. MaxFaults
    BY <1>18, FaultType DEF NotDecided
  <2>2. queue' \in Seq(Operations)
    BY <1>18, AtWork DEF NotDecided, Left
  <2> QED
    BY <1>18, <2>1, <2>2 DEF Shape, NotDecided
<1>19. CASE Cancelled
  <2>1. queue' \in Seq(Operations)
    BY <1>19, AtWork DEF Cancelled, Left
  <2>2. doc' \in Docs
    BY <1>19 DEF Cancelled, Shape, Docs, Statuses
  <2>3. task' \in [Tasks -> Steps]
    <3>1. PICK x \in {"releasing", "checking", "idling"} :
             task' \in {task, [task EXCEPT ![0] = x]}
      BY <1>19 DEF Cancelled
    <3> QED
      BY <3>1 DEF Shape, Steps
  <2>4. stopping' \in BOOLEAN /\ continuation' \in BOOLEAN
    BY <1>19 DEF Cancelled, Shape
  <2> QED
    BY <1>19, <2>1, <2>2, <2>3, <2>4 DEF Shape, Cancelled
<1>20. CASE NotCancelled
  <2>1. faults' \in 0 .. MaxFaults
    BY <1>20, FaultType DEF NotCancelled
  <2>2. queue' \in Seq(Operations)
    BY <1>20, AtWork DEF NotCancelled, Left
  <2> QED
    BY <1>20, <2>1, <2>2 DEF Shape, NotCancelled
<1>21. ASSUME NEW t \in Tasks, LoopEnded(t)
       PROVE  Shape'
  <2>1. PICK v \in {"cancelled", "failed", "completed"} :
          outcome' = [outcome EXCEPT ![t] = [verdict |-> v, requests |-> {}, results |-> result]]
    BY <1>21 DEF LoopEnded
  <2>2. [verdict |-> v, requests |-> {}, results |-> result] \in Outcomes
    BY DEF Outcomes, Shape
  <2>3. outcome' \in [Tasks -> Outcomes]
    BY <2>1, <2>2 DEF Shape
  <2>4. task' \in [Tasks -> Steps]
    BY <1>21 DEF LoopEnded, Shape, Steps
  <2> QED
    BY <1>21, <2>3, <2>4 DEF Shape, LoopEnded
<1>22. ASSUME NEW t \in Tasks, Remember(t)
       PROVE  Shape'
  <2>1. accepted' \in [Calls -> Facts]
    <3>1. /\ accepted \in [Calls -> Facts] /\ outcome[t].results \in [Calls -> Facts]
          /\ accepted' \in {accepted, Merge(accepted, outcome[t].results)}
      BY <1>22, RememberMoves DEF Shape, Outcomes
    <3> QED
      BY <3>1, MergeType
  <2>2. PICK list, S : \/ Goes(t, "pausing", 0, S) \/ Goes(t, "ending", 0, S)
                       \/ Goes(t, "stopped", 0, S) \/ Settles(t, list, 0)
    BY <1>22, RememberMoves
  <2>5. {"pausing", "ending", "stopped"} \subseteq Steps
    BY DEF Steps
  <2> QED
    BY <1>22, <2>1, <2>2, <2>5, MovesType DEF Shape, Remember
<1>23. ASSUME NEW t \in Tasks, Released(t)
       PROVE  Shape'
  <2>1. accepted' \in [Calls -> Facts]
    <3>1. /\ accepted \in [Calls -> Facts] /\ doc.fact \in [Calls -> Facts]
          /\ accepted' \in {accepted, Forget(accepted, doc.fact, outcome[t].results)}
      BY <1>23, ReleasedMoves DEF Shape, Docs
    <3> QED
      BY <3>1, ForgetType
  <2>2. PICK list, S : Goes(t, "stopped", 0, S) \/ Settles(t, list, 0)
    BY <1>23, ReleasedMoves
  <2>5. "stopped" \in Steps
    BY DEF Steps
  <2> QED
    BY <1>23, <2>1, <2>2, <2>5, MovesType DEF Shape, Released
<1>24. ASSUME NEW t \in Tasks, Catch(t)
       PROVE  Shape'
  <2>2. PICK list, S : Goes(t, "failing", 0, S) \/ Settles(t, list, 0)
    BY <1>24, CatchMoves
  <2>5. "failing" \in Steps
    BY DEF Steps
  <2> QED
    BY <1>24, <2>2, <2>5, MovesType DEF Shape, Catch
<1>25. ASSUME NEW t \in Tasks, Finalized(t)
       PROVE  Shape'
  <2>1. accepted' \in [Calls -> Facts]
    <3>1. /\ accepted \in [Calls -> Facts] /\ doc.fact \in [Calls -> Facts]
          /\ accepted' \in {accepted, Forget(accepted, doc.fact, outcome[t].results)}
      BY <1>25, FinalizedMoves DEF Shape, Docs
    <3> QED
      BY <3>1, ForgetType
  <2>2. PICK list : Settles(t, list, 0)
    BY <1>25, FinalizedMoves
  <2> QED
    BY <1>25, <2>1, <2>2, MovesType DEF Shape, Finalized
<1>26. ASSUME NEW t \in Tasks, Revoke(t)
       PROVE  Shape'
  <2>1. held' \in BOOLEAN /\ stopping' \in BOOLEAN
    BY <1>26 DEF Revoke, Shape
  <2>2. Goes(t, "draining", 0, {}) /\ "draining" \in Steps
    BY <1>26, RevokeMoves DEF Steps
  <2> QED
    BY <1>26, <2>1, <2>2, MovesType DEF Shape, Revoke
<1>27. CASE CleanupReleased
  <2>2. Goes(0, "idling", 0, {}) /\ "idling" \in Steps
    BY <1>27, CleanupReleasedMoves DEF Steps
  <2> QED
    BY <1>27, <2>2, MovesType, TaskNumbers DEF Shape, CleanupReleased
<1>28. CASE CleanupIdle
  <2>1. task' \in [Tasks -> Steps]
    BY <1>28 DEF CleanupIdle, Shape, Steps
  <2>2. controller' \in BOOLEAN
    BY <1>28 DEF CleanupIdle, Shape
  <2> QED
    BY <1>28, <2>1, <2>2 DEF Shape, CleanupIdle
<1>29. CASE CleanupSettles
  <2>1. held' \in BOOLEAN
    BY <1>29, CleanupSettlesMoves
  <2>2. PICK list, S : Goes(0, "gone", 0, S) \/ Settles(0, list, 0)
    BY <1>29, CleanupSettlesMoves
  <2>5. "gone" \in Steps
    BY DEF Steps
  <2> QED
    BY <1>29, <2>1, <2>2, <2>5, MovesType, TaskNumbers DEF Shape, CleanupSettles
<1>30. CASE AskCancel
  <2>1. queue' \in Seq(Operations)
    BY <1>30, OperationKinds, AppendType DEF AskCancel
  <2>2. cancels' \in 0 .. MaxCancels
    BY <1>30, BoundsAssumption DEF AskCancel, Shape
  <2> QED
    BY <1>30, <2>1, <2>2 DEF Shape, AskCancel
<1>31. CASE Crash
  <2>1. crashes' \in 0 .. MaxCrashes
    BY <1>31, BoundsAssumption DEF Crash, Shape
  <2>2. queue' \in Seq(Operations)
    BY <1>31 DEF Crash
  <2> QED
    BY <1>31, <2>1, <2>2, Empties DEF Shape, Crash, Places, Steps
<1>32. CASE Recover
  <2>1. CloseFacts(doc) \in Docs /\ CloseAsked(doc) \in Docs
    BY CloseParts DEF Shape
  <2>2. doc' \in Docs
    <3>1. CASE RecoverPause
      <4>1. PICK e \in Docs : doc' = [e EXCEPT !.status = "blocked", !.requests = {}]
        BY <2>1, <3>1 DEF RecoverPause
      <4> QED
        BY <4>1 DEF Docs, Statuses
    <3>2. CASE RecoverFacts
      BY <2>1, <3>2 DEF RecoverFacts
    <3>3. CASE RecoverRound \/ RecoverRunning
      BY <3>3 DEF RecoverRound, RecoverRunning, Shape, Docs, Statuses
    <3> QED
      BY <1>32, <3>1, <3>2, <3>3 DEF Recover
  <2> QED
    BY <1>32, <2>2 DEF Shape, Recover
<1>33. CASE Recovered
  BY <1>33 DEF Shape, Recovered
<1>34. CASE UNCHANGED vars
  BY <1>34 DEF Shape, vars
<1> QED
  BY <1>1, <1>2, <1>3, <1>4, <1>5, <1>6, <1>7, <1>8, <1>9, <1>10, <1>11, <1>12, <1>13,
     <1>14, <1>15, <1>16, <1>17, <1>18, <1>19, <1>20, <1>21, <1>22, <1>23, <1>24, <1>25,
     <1>26, <1>27, <1>28, <1>29, <1>30, <1>31, <1>32, <1>33, <1>34
  DEF Next, Call, Operation, Task, Cleanup

-----------------------------------------------------------------------------
(* CallsHold. *)

NoResultQueued ==
  \E k \in {0, 1} : \E S : Carries(queue', k, S) /\ \A o : o \in S => o.op # "result"

\* A step that neither changes a call nor queues a result.
Quiet ==
  /\ place' = place /\ result' = result /\ executed' = executed
  /\ doc'.decided = doc.decided
  /\ NoResultQueued

\* No result of call c is left behind the first k operations.
NoneLeft(c, k) == \A i \in Positions : i > k /\ IsResult(i) => queue[i].call # c

\* What Carries says of an operation of the new queue.
LEMMA Carried ==
  ASSUME NEW k, NEW S, Carries(queue', k, S), NEW i \in Positions'
  PROVE  \/ i + k \in Positions /\ (queue[i])' = queue[i + k]
         \/ i = Len(queue') /\ (queue[i])' \in S
  BY DEF Carries, Positions

\* The positions of the new queue.
LEMMA PositionsAre ==
  ASSUME Shape, NEW k \in Nat, NEW S, Carries(queue', k, S)
  PROVE  Len(queue') \in Nat /\ Positions' = 1 .. Len(queue') /\ Positions' \subseteq Nat
  BY LenProperties DEF Carries, Positions

\* A quiet step keeps CallsHold.
LEMMA QuietKeeps ==
  ASSUME Shape, CallsHold, Quiet
  PROVE  CallsHold'
<1>1. PICK k, S :
        k \in {0, 1} /\ Carries(queue', k, S) /\ \A o : o \in S => o.op # "result"
  BY DEF Quiet, NoResultQueued
<1>2. ASSUME NEW i \in Positions', IsResult(i)'
      PROVE  i \in Nat /\ IsResult(i + k) /\ (queue[i])' = queue[i + k]
  <2>1. (queue[i])'.op = "result"
    BY <1>2 DEF IsResult
  <2> QED
    BY <1>1, <2>1, Carried, PositionsAre DEF IsResult
<1>3. /\ \A c \in Calls : Untouched(c)' <=> Untouched(c)
      /\ place' = place /\ result' = result /\ executed' = executed
  BY DEF Quiet, Untouched
<1>4. /\ \A i \in Positions' : IsResult(i)' =>
           /\ (queue[i].fact = result[queue[i].call])'
           /\ (place[queue[i].call] = IF queue[i].fact = "asked" THEN "asking" ELSE "delivering")'
  BY <1>2, <1>3 DEF CallsHold, IsResult
<1>5. \A i, j \in Positions' :
         IsResult(i)' /\ IsResult(j)' /\ (queue[i].call = queue[j].call)' => i = j
  BY <1>1, <1>2, PositionsAre DEF CallsHold, IsResult
<1> QED
  BY <1>3, <1>4, <1>5 DEF CallsHold

\* A step of one call: no result of it is on the way then but the one it may queue.
Calling(c, p, k, S) ==
  /\ place' = [place EXCEPT ![c] = p]
  /\ \A b \in Calls : b # c =>
       /\ result'[b] = result[b] /\ doc'.decided[b] = doc.decided[b]
       /\ b \in executed' <=> b \in executed
  /\ p \in {"called", "asking", "waiting"} => (Untouched(c))'
  /\ p = "executing" /\ c \notin executed' => c \in GatedDuring /\ (Untouched(c))'
  /\ Carries(queue', k, S) /\ NoneLeft(c, k)
  /\ \A o : o \in S =>
       /\ o = ResultOp(c, result'[c])
       /\ p = IF result'[c] = "asked" THEN "asking" ELSE "delivering"

\* So does a step of one call.
LEMMA CallKeeps ==
  ASSUME Shape, CallsHold, NEW c \in Calls, NEW p, NEW k \in {0, 1}, NEW S,
         Calling(c, p, k, S)
  PROVE  CallsHold'
<1>0. /\ place' = [place EXCEPT ![c] = p]
      /\ \A b \in Calls : b # c =>
           /\ result'[b] = result[b] /\ doc'.decided[b] = doc.decided[b]
           /\ b \in executed' <=> b \in executed
      /\ p \in {"called", "asking", "waiting"} => (Untouched(c))'
      /\ p = "executing" /\ c \notin executed' => c \in GatedDuring /\ (Untouched(c))'
      /\ Carries(queue', k, S) /\ NoneLeft(c, k)
      /\ \A o : o \in S =>
           /\ o = ResultOp(c, result'[c])
           /\ p = IF result'[c] = "asked" THEN "asking" ELSE "delivering"
  BY DEF Calling
<1>1. ASSUME NEW i \in Positions', IsResult(i)'
      PROVE  \/ /\ i \in Nat /\ IsResult(i + k) /\ (queue[i])' = queue[i + k]
                /\ queue[i + k].call # c
             \/ /\ i = Len(queue') /\ (queue[i])' = ResultOp(c, result'[c])
                /\ p = IF result'[c] = "asked" THEN "asking" ELSE "delivering"
  <2>1. (queue[i])'.op = "result" /\ i \in Nat /\ i > 0
    BY <1>0, <1>1, PositionsAre DEF IsResult
  <2>2. CASE i + k \in Positions /\ (queue[i])' = queue[i + k]
    <3>1. IsResult(i + k) /\ i + k > k
      BY <2>1, <2>2 DEF IsResult
    <3> QED
      BY <1>0, <2>1, <2>2, <3>1 DEF NoneLeft
  <2> QED
    BY <1>0, <2>2, Carried
<1>2. \A b \in Calls : b # c =>
        /\ place'[b] = place[b] /\ result'[b] = result[b]
        /\ Untouched(b)' <=> Untouched(b)
        /\ b \in executed' <=> b \in executed
  BY <1>0 DEF Untouched, Shape
<1>3. place'[c] = p
  BY <1>0 DEF Shape
<1>4. \A b \in Calls :
         /\ place'[b] \in {"called", "asking", "waiting"} => Untouched(b)'
         /\ place'[b] = "executing" /\ b \notin executed' => b \in GatedDuring /\ Untouched(b)'
  BY <1>0, <1>2, <1>3 DEF CallsHold
<1>5. ASSUME NEW i \in Positions', IsResult(i)'
      PROVE  /\ (queue[i].fact = result[queue[i].call])'
             /\ (place[queue[i].call] = IF queue[i].fact = "asked" THEN "asking" ELSE "delivering")'
  <2>1. CASE /\ i \in Nat /\ IsResult(i + k) /\ (queue[i])' = queue[i + k]
             /\ queue[i + k].call # c
    <3>1. queue[i + k].call \in Calls
      BY <2>1, LeftOver, OperationParts DEF IsResult
    <3>2. /\ queue[i + k].fact = result[queue[i + k].call]
          /\ place[queue[i + k].call] = IF queue[i + k].fact = "asked" THEN "asking" ELSE "delivering"
      BY <2>1 DEF CallsHold, IsResult
    <3> QED
      BY <2>1, <3>1, <3>2, <1>2
  <2>2. CASE /\ (queue[i])' = ResultOp(c, result'[c])
             /\ p = IF result'[c] = "asked" THEN "asking" ELSE "delivering"
    BY <2>2, <1>3 DEF ResultOp
  <2> QED
    BY <1>1, <1>5, <2>1, <2>2
<1>6. ASSUME NEW i \in Positions', NEW j \in Positions', IsResult(i)', IsResult(j)',
             (queue[i].call = queue[j].call)'
      PROVE  i = j
  <2>1. CASE (queue[i])' = ResultOp(c, result'[c]) /\ i = Len(queue')
    <3>1. (queue[i].call)' = c /\ (queue[j].call)' = c
      BY <1>6, <2>1 DEF ResultOp
    <3>2. ~(IsResult(j + k) /\ (queue[j])' = queue[j + k] /\ queue[j + k].call # c)
      BY <3>1
    <3> QED
      BY <1>1, <1>6, <2>1, <3>2
  <2>2. CASE /\ i \in Nat /\ IsResult(i + k) /\ (queue[i])' = queue[i + k]
             /\ queue[i + k].call # c
    <3>0. (queue[j])' # ResultOp(c, result'[c])
      <4>1. (queue[j].call)' # c
        BY <1>6, <2>2
      <4> QED
        BY <4>1 DEF ResultOp
    <3>1. /\ j \in Nat /\ IsResult(j + k) /\ (queue[j])' = queue[j + k]
          /\ queue[j + k].call # c
      BY <1>1, <1>6, <3>0
    <3>2. i + k = j + k
      BY <1>6, <2>2, <3>1 DEF CallsHold, IsResult
    <3> QED
      BY <2>2, <3>1, <3>2
  <2> QED
    BY <1>1, <1>6, <2>1, <2>2
<1> QED
  BY <1>4, <1>5, <1>6 DEF CallsHold

\* The queue of a task that settles or goes on carries no new result.
LEMMA QuietQueue ==
  ASSUME Shape, NEW t, NEW k \in {0, 1}
  PROVE  /\ \A list : Settles(t, list, k) => NoResultQueued
         /\ \A where : Goes(t, where, k, {}) => NoResultQueued
         /\ \A where, x : x # "result" /\ Goes(t, where, k, {[op |-> x, task |-> t]})
              => NoResultQueued
<1>1. ASSUME NEW list, Settles(t, list, k)
      PROVE  NoResultQueued
  <2>1. Carries(queue', k, Settling(t, list))
    BY <1>1 DEF Settles, Moves
  <2>2. \A o : o \in Settling(t, list) => o.op # "result"
    BY DEF Settling
  <2> QED
    BY <2>1, <2>2 DEF NoResultQueued
<1>2. ASSUME NEW where, NEW S, Goes(t, where, k, S), \A o : o \in S => o.op # "result"
      PROVE  NoResultQueued
  <2>1. Carries(queue', k, S)
    BY <1>2 DEF Goes, Moves
  <2> QED
    BY <1>2, <2>1 DEF NoResultQueued
<1>3. \A o : o \in {} => o.op # "result"
  OBVIOUS
<1>4. \A x : x # "result" => \A o : o \in {[op |-> x, task |-> t]} => o.op # "result"
  OBVIOUS
<1> QED
  BY <1>1, <1>2, <1>3, <1>4

\* So is a queue that is left as it is, loses its head, or gets one such operation.
LEMMA QuietRest ==
  ASSUME Shape
  PROVE  /\ queue' = queue => NoResultQueued
         /\ queue # <<>> /\ queue' = Rest => NoResultQueued
         /\ \A o \in Operations :
              o.op # "result" /\ queue' = Append(queue, o) => NoResultQueued
<1>1. queue' = queue => Carries(queue', 0, {})
  BY LeftOver, AddingNone
<1>2. queue # <<>> /\ queue' = Rest => Carries(queue', 1, {})
  BY LeftOver, AddingNone
<1>3. \A o \in Operations : queue' = Append(queue, o) => Carries(queue', 0, {o})
  BY LeftOver, Adding
<1>4. \A o : o \in {} => o.op # "result"
  OBVIOUS
<1>5. \A x : x.op # "result" => \A o : o \in {x} => o.op # "result"
  OBVIOUS
<1>6. ASSUME NEW k \in {0, 1}, NEW S, Carries(queue', k, S), \A o : o \in S => o.op # "result"
      PROVE  NoResultQueued
  BY <1>6 DEF NoResultQueued
<1> QED
  BY <1>1, <1>2, <1>3, <1>4, <1>5, <1>6

\* What these steps leave alone: the calls.
LEMMA QuietTasks ==
  ASSUME Shape, NEW t \in Tasks,
         LoopEnded(t) \/ Remember(t) \/ Released(t) \/ Catch(t) \/ Finalized(t) \/ Revoke(t)
  PROVE  Quiet
<1>1. CASE LoopEnded(t)
  BY <1>1, QuietRest DEF Quiet, LoopEnded
<1>2. CASE Remember(t)
  <2>1. NoResultQueued
    BY <1>2, RememberMoves, QuietQueue
  <2> QED
    BY <1>2, <2>1 DEF Quiet, Remember
<1>3. CASE Released(t)
  <2>1. NoResultQueued
    BY <1>3, ReleasedMoves, QuietQueue
  <2> QED
    BY <1>3, <2>1 DEF Quiet, Released
<1>4. CASE Catch(t)
  <2>1. NoResultQueued
    BY <1>4, CatchMoves, QuietQueue
  <2> QED
    BY <1>4, <2>1 DEF Quiet, Catch
<1>5. CASE Finalized(t)
  BY <1>5, FinalizedMoves, QuietQueue DEF Quiet, Finalized
<1>6. CASE Revoke(t)
  <2>1. Goes(t, "draining", 0, {})
    BY <1>6, RevokeMoves
  <2> QED
    BY <1>6, <2>1, QuietQueue DEF Quiet, Revoke
<1> QED
  BY <1>1, <1>2, <1>3, <1>4, <1>5, <1>6

\* So do the operations on the run as a whole, the cleanup and the start.
LEMMA QuietOperations ==
  ASSUME Shape, TasksHold,
         \/ FinishCalls \/ Answer \/ RoundClosed \/ RoundNotClosed \/ Paused \/ NotPaused
         \/ Ended \/ NotEnded \/ Rescued \/ Reconciled \/ NotDecided \/ Cancelled
         \/ NotCancelled \/ Cleanup \/ AskCancel \/ Recover \/ Recovered
         \/ UNCHANGED vars
  PROVE  Quiet
<1>1. CASE FinishCalls \/ Answer
  BY <1>1, QuietRest, OperationKinds DEF Quiet, FinishCalls, Answer
<1>2. CASE RoundClosed \/ RoundNotClosed
  BY <1>2, QuietRest DEF Quiet, RoundClosed, RoundNotClosed, At, Shape, Docs
<1>3. CASE Paused
  <2>1. doc'.decided = doc.decided
    BY <1>3, PausedMoves DEF Shape, Docs
  <2>2. PICK t, list : Settles(t, list, 1)
    BY <1>3, PausedMoves
  <2> QED
    BY <1>3, <2>1, <2>2, QuietQueue DEF Quiet, Paused
<1>4. CASE NotPaused
  <2>2. PICK t : Goes(t, "releasing", 1, {})
    BY <1>4, NotPausedMoves
  <2> QED
    BY <1>4, <2>2, QuietQueue DEF Quiet, NotPaused
<1>5. CASE Ended
  <2>1. doc'.decided = doc.decided
    BY <1>5, EndedMoves DEF Shape, Docs
  <2>2. PICK t : Goes(t, "finalizing", 1, {})
    BY <1>5, EndedMoves
  <2> QED
    BY <1>5, <2>1, <2>2, QuietQueue DEF Quiet, Ended
<1>6. CASE NotEnded
  <2>1. NoResultQueued
    BY <1>6, NotEndedMoves, QuietQueue
  <2> QED
    BY <1>6, <2>1 DEF Quiet, NotEnded
<1>7. CASE Rescued
  <2>1. doc'.decided = doc.decided
    BY <1>7, RescuedMoves, RecordedParts DEF Shape
  <2>2. PICK t, list : Settles(t, list, 1)
    BY <1>7, RescuedMoves
  <2> QED
    BY <1>7, <2>1, <2>2, QuietQueue DEF Quiet, Rescued
<1>8. CASE Reconciled
  <2>1. doc'.decided = doc.decided
    <3>1. CloseFacts(doc) \in Docs /\ CloseFacts(doc).decided = doc.decided
      BY CloseParts DEF Shape
    <3>2. [CloseFacts(doc) EXCEPT !.round = FALSE].decided = doc.decided
      BY <3>1 DEF Docs
    <3> QED
      BY <1>8, <3>1, <3>2, ReconciledMoves
  <2>2. PICK t : Goes(t, "gone", 1, {})
    BY <1>8, ReconciledMoves
  <2> QED
    BY <1>8, <2>1, <2>2, QuietQueue DEF Quiet, Reconciled
<1>9. CASE NotDecided \/ NotCancelled
  BY <1>9, QuietRest DEF Quiet, NotDecided, NotCancelled, At
<1>10. CASE Cancelled
  <2>1. doc'.decided = doc.decided
    BY <1>10 DEF Cancelled, Shape, Docs
  <2> QED
    BY <1>10, <2>1, QuietRest DEF Quiet, Cancelled, At
<1>11. CASE CleanupReleased
  <2>2. Goes(0, "idling", 0, {})
    BY <1>11, CleanupReleasedMoves
  <2> QED
    BY <1>11, <2>2, QuietQueue DEF Quiet, CleanupReleased
<1>12. CASE CleanupIdle
  BY <1>12, QuietRest DEF Quiet, CleanupIdle
<1>13. CASE CleanupSettles
  <2>1. NoResultQueued
    BY <1>13, CleanupSettlesMoves, QuietQueue
  <2> QED
    BY <1>13, <2>1 DEF Quiet, CleanupSettles
<1>14. CASE AskCancel
  BY <1>14, QuietRest, OperationKinds DEF Quiet, AskCancel
<1>15. CASE Recover
  <2>1. doc'.decided = doc.decided
    <3>1. /\ CloseFacts(doc) \in Docs /\ CloseFacts(doc).decided = doc.decided
          /\ CloseAsked(doc) \in Docs /\ CloseAsked(doc).decided = doc.decided
      BY CloseParts DEF Shape
    <3>2. CASE RecoverPause
      <4>1. PICK e \in Docs : /\ doc' = [e EXCEPT !.status = "blocked", !.requests = {}]
                              /\ e.decided = doc.decided
        BY <3>1, <3>2 DEF RecoverPause
      <4> QED
        BY <4>1 DEF Docs
    <3>3. CASE RecoverFacts \/ RecoverRound \/ RecoverRunning
      BY <3>1, <3>3 DEF RecoverFacts, RecoverRound, RecoverRunning, Shape, Docs
    <3> QED
      BY <1>15, <3>2, <3>3 DEF Recover
  <2> QED
    BY <1>15, <2>1, QuietRest DEF Quiet, Recover
<1>16. CASE Recovered \/ UNCHANGED vars
  BY <1>16, QuietRest DEF Quiet, Recovered, vars
<1> QED
  BY <1>1, <1>2, <1>3, <1>4, <1>5, <1>6, <1>7, <1>8, <1>9, <1>10, <1>11, <1>12, <1>13,
     <1>14, <1>15, <1>16 DEF Cleanup

\* So does the user's request.
LEMMA QuietAsking ==
  ASSUME Shape, NEW c \in Calls, AskDecide(c)
  PROVE  Quiet
<1>1. PICK v \in {"approved", "denied"} :
          queue' = Append(queue, [op |-> "decide", call |-> c, fact |-> v, task |-> 0])
  BY DEF AskDecide
<1>2. [op |-> "decide", call |-> c, fact |-> v, task |-> 0] \in Operations
  BY OperationKinds
<1> QED
  BY <1>1, <1>2, QuietRest DEF Quiet, AskDecide

\* The other steps are those of one call, or a stop.
LEMMA CallsHoldStep ==
  ASSUME Shape, TasksHold, CallsHold, PauseIsAnswerable, [Next]_vars
  PROVE  CallsHold'
<1>0. \A c \in Calls : place[c] \notin {"asking", "delivering"} => NoneLeft(c, 0)
  BY DEF CallsHold, NoneLeft, IsResult
<1>1. ASSUME NEW c \in Calls, Ask(c)
      PROVE  CallsHold'
  <2>1. doc' = doc
    BY <1>1 DEF Ask, RestOfOffer
  <2>2. Untouched(c)' /\ NoneLeft(c, 0)
    BY <1>0, <1>1, <2>1, AskMoves DEF CallsHold, Untouched
  <2>3. Carries(queue', 0, {ResultOp(c, "asked")}) /\ result' = [result EXCEPT ![c] = "asked"]
    BY <1>1, AskMoves DEF Offers
  <2>4. result'[c] = "asked" /\ \A b \in Calls : b # c => result'[b] = result[b]
    BY <2>3 DEF Shape
  <2>5. place' = [place EXCEPT ![c] = "asking"] /\ executed' = executed
    BY <1>1, AskMoves
  <2>6. Calling(c, "asking", 0, {ResultOp(c, "asked")})
    BY <2>1, <2>2, <2>3, <2>4, <2>5 DEF Calling
  <2> QED
    BY <2>6, CallKeeps
<1>2. ASSUME NEW c \in Calls, Return(c)
      PROVE  CallsHold'
  <2>1. doc' = doc /\ executed' = executed
    BY <1>2, ReturnMoves DEF Return, RestOfOffer
  <2>2. place[c] = "executing" /\ NoneLeft(c, 0)
    BY <1>0, <1>2, ReturnMoves
  <2>3. PICK v \in {"asked", "done", "aborted"} :
          /\ v = "asked" => c \in GatedDuring \ executed
          /\ Offers(c, v)
          /\ place' = [place EXCEPT ![c] = IF v = "asked" THEN "asking" ELSE "delivering"]
    BY <1>2, ReturnMoves
  <2>4. result'[c] = v /\ \A b \in Calls : b # c => result'[b] = result[b]
    BY <2>3 DEF Shape, Offers
  <2>6. Carries(queue', 0, {ResultOp(c, v)})
    BY <2>3 DEF Offers
  <2>7. v = "asked" => Untouched(c)'
    BY <2>1, <2>2, <2>3 DEF CallsHold, Untouched
  <2> DEFINE p == IF v = "asked" THEN "asking" ELSE "delivering"
  <2>8. p \in {"called", "asking", "waiting"} => Untouched(c)'
    BY <2>7
  <2>9. p # "executing" /\ p = IF result'[c] = "asked" THEN "asking" ELSE "delivering"
    BY <2>4
  <2>10. place' = [place EXCEPT ![c] = p]
    BY <2>3
  <2> HIDE DEF p
  <2>11. Calling(c, p, 0, {ResultOp(c, v)})
    BY <2>1, <2>2, <2>4, <2>6, <2>8, <2>9, <2>10 DEF Calling
  <2> QED
    BY <2>11, CallKeeps
<1>3. ASSUME NEW c \in Calls, Abort(c)
      PROVE  CallsHold'
  <2>1. doc' = doc /\ executed' = executed
    BY <1>3, AbortMoves DEF Abort, RestOfOffer
  <2>2. NoneLeft(c, 0)
    BY <1>0, <1>3, AbortMoves
  <2>3. PICK v \in {"aborted", "cancelled"} : Offers(c, v)
    BY <1>3, AbortMoves
  <2>4. result'[c] = v /\ \A b \in Calls : b # c => result'[b] = result[b]
    BY <2>3 DEF Shape, Offers
  <2>6. Carries(queue', 0, {ResultOp(c, v)}) /\ result'[c] # "asked"
    BY <2>3, <2>4 DEF Offers
  <2>7. place' = [place EXCEPT ![c] = "delivering"]
    BY <1>3, AbortMoves
  <2>8. Calling(c, "delivering", 0, {ResultOp(c, v)})
    BY <2>1, <2>2, <2>4, <2>6, <2>7 DEF Calling
  <2> QED
    BY <2>8, CallKeeps
<1>4. ASSUME NEW c \in Calls, Start(c)
      PROVE  CallsHold'
  <2>1. /\ doc' = doc /\ result' = result /\ queue' = queue /\ place[c] = "called"
        /\ place' = [place EXCEPT ![c] = "executing"]
        /\ executed' = IF c \in GatedDuring THEN executed ELSE executed \cup {c}
    BY <1>4 DEF Start
  <2>2. Untouched(c) /\ NoneLeft(c, 0)
    BY <1>0, <2>1 DEF CallsHold
  <2>3. c \notin executed' => c \in GatedDuring /\ Untouched(c)'
    BY <2>1, <2>2 DEF Untouched
  <2>4. Carries(queue', 0, {})
    BY <2>1, LeftOver, AddingNone
  <2>5. \A b \in Calls : b # c => b \in executed' <=> b \in executed
    BY <2>1
  <2>6. Calling(c, "executing", 0, {})
    BY <2>1, <2>2, <2>3, <2>4, <2>5 DEF Calling
  <2> QED
    BY <2>6, CallKeeps
<1>5. ASSUME NEW c \in Calls, AskDecide(c)
      PROVE  CallsHold'
  BY <1>5, QuietAsking, QuietKeeps
<1>6. CASE ResultSaved
  <2>0. PICK c \in Calls : c = queue[1].call
    BY <1>6, ResultSavedMoves
  <2>1. c \in Calls /\ IsResult(1)
    BY <1>6, <2>0, ResultSavedMoves, AtWork DEF IsResult
  <2>2. doc'.decided = doc.decided /\ executed' = executed
    <3>1. doc' = Recorded(c, queue[1].fact) /\ queue[1].fact \in Facts
      BY <1>6, <2>0, ResultSavedMoves
    <3> QED
      BY <1>6, <2>0, <2>1, <3>1, RecordedParts DEF ResultSaved, Shape
  <2>3. NoneLeft(c, 1)
    BY <2>0, <2>1 DEF NoneLeft, CallsHold, IsResult
  <2>4. queue[1].fact = "asked" => (Untouched(c))'
    <3>1. queue[1].fact = "asked" => place[c] = "asking"
      BY <2>0, <2>1 DEF CallsHold, IsResult
    <3> QED
      BY <2>1, <2>2, <3>1 DEF CallsHold, Untouched
  <2>5. CASE /\ place' = [place EXCEPT ![c] = "closed"]
             /\ Carries(queue', 1, {}) /\ result' = result
    <3>1. Calling(c, "closed", 1, {})
      BY <2>1, <2>2, <2>3, <2>5 DEF Calling
    <3> QED
      BY <2>1, <3>1, CallKeeps
  <2>6. CASE /\ place' = [place EXCEPT ![c] = "delivering"]
             /\ result' = [result EXCEPT ![c] = "cancelled"]
             /\ Carries(queue', 1, {ResultOp(c, "cancelled")})
    <3>1. result'[c] = "cancelled" /\ \A b \in Calls : b # c => result'[b] = result[b]
      BY <2>1, <2>6 DEF Shape
    <3>2. Calling(c, "delivering", 1, {ResultOp(c, "cancelled")})
      BY <2>1, <2>2, <2>3, <2>6, <3>1 DEF Calling
    <3> QED
      BY <2>1, <3>2, CallKeeps
  <2>7. CASE /\ queue[1].fact = "asked"
             /\ place' = [place EXCEPT ![c] = "waiting"]
             /\ Carries(queue', 1, {}) /\ result' = result
    <3>1. Calling(c, "waiting", 1, {})
      BY <2>1, <2>2, <2>3, <2>4, <2>7 DEF Calling
    <3> QED
      BY <2>1, <3>1, CallKeeps
  <2> QED
    BY <1>6, <2>0, <2>5, <2>6, <2>7, ResultSavedMoves
<1>7. CASE ResultLost
  <2>0. PICK c \in Calls : c = queue[1].call
    BY <1>7, ResultLostMoves
  <2>1. c \in Calls /\ IsResult(1)
    BY <1>7, <2>0, ResultLostMoves, AtWork DEF IsResult
  <2>2. doc' = doc /\ executed' = executed
    BY <1>7 DEF ResultLost
  <2>3. NoneLeft(c, 1)
    BY <2>0, <2>1 DEF NoneLeft, CallsHold, IsResult
  <2>4. /\ place' = [place EXCEPT ![c] = "closed"] /\ Carries(queue', 1, {})
        /\ result' = [result EXCEPT ![c] = "refused"]
    BY <1>7, <2>0, ResultLostMoves
  <2>5. \A b \in Calls : b # c => result'[b] = result[b]
    BY <2>4 DEF Shape
  <2>6. Calling(c, "closed", 1, {})
    BY <2>1, <2>2, <2>3, <2>4, <2>5 DEF Calling
  <2> QED
    BY <2>1, <2>6, CallKeeps
<1>8. CASE Decided
  <2>0. PICK c \in Calls : c = queue[1].call
    BY <1>8, DecidedMoves
  <2> DEFINE decision == queue[1].fact
  <2>1. /\ c \in Calls /\ MayDecide(c) /\ up
    BY <1>8, <2>0, DecidedMoves, AtWork
  <2>2. place[c] = "waiting"
    BY <2>1 DEF MayDecide, PauseIsAnswerable, Waiting
  <2>3. NoneLeft(c, 1)
    <3>1. NoneLeft(c, 0)
      BY <1>0, <2>1, <2>2
    <3> QED
      BY <3>1, LeftOver DEF NoneLeft, Positions
  <2>4. \A b \in Calls : b # c => doc'.decided[b] = doc.decided[b]
    <3>1. doc' = [doc EXCEPT !.status = "running", !.requests = {},
                               !.decided = [@ EXCEPT ![c] = decision]]
      BY <1>8, <2>0, DecidedMoves
    <3> HIDE DEF decision
    <3> QED
      BY <3>1 DEF Shape, Docs
  <2>5. CASE /\ place' = [place EXCEPT ![c] = "executing"] /\ result' = result
             /\ executed' = executed \cup {c} /\ Carries(queue', 1, {})
    <3>1. Calling(c, "executing", 1, {})
      BY <2>1, <2>3, <2>4, <2>5 DEF Calling
    <3> QED
      BY <2>1, <3>1, CallKeeps
  <2>6. CASE /\ place' = [place EXCEPT ![c] = "delivering"]
             /\ result' = [result EXCEPT ![c] = "denied"]
             /\ Carries(queue', 1, {ResultOp(c, "denied")})
             /\ executed' = executed
    <3>1. result'[c] = "denied" /\ \A b \in Calls : b # c => result'[b] = result[b]
      BY <2>1, <2>6 DEF Shape
    <3>2. Calling(c, "delivering", 1, {ResultOp(c, "denied")})
      BY <2>1, <2>3, <2>4, <2>6, <3>1 DEF Calling
    <3> QED
      BY <2>1, <3>2, CallKeeps
  <2> QED
    BY <1>8, <2>0, <2>5, <2>6, DecidedMoves
<1>9. CASE Crash
  <2>1. Positions' = {} /\ \A c \in Calls : place'[c] = "closed"
    BY <1>9 DEF Crash, Positions
  <2> QED
    BY <2>1 DEF CallsHold
<1> QED
  BY <1>1, <1>2, <1>3, <1>4, <1>5, <1>6, <1>7, <1>8, <1>9, QuietTasks, QuietOperations,
     QuietKeeps DEF Next, Call, Operation, Task

-----------------------------------------------------------------------------
(* TasksHold. *)

\* What a step that makes nobody lead owes to TasksHold, when it drops k operations and
\* queues at most one of S.
Owed(o, k) ==
  /\ o.op = "pause" => /\ task'[o.task] = "pausing"
                       /\ \A i \in Positions : i > k => queue[i].op # "pause"
  /\ o.op = "end" => /\ (Live(o.task))' /\ ~(Leading(o.task))'
                     /\ outcome'[o.task].verdict \in {"completed", "failed", "cancelled"}
  /\ o.op \in {"rescue", "reconcile", "fail", "block"} =>
       (o.task # 0 => (Live(o.task))' /\ ~(Leading(o.task))')
Steady(k, S) ==
  /\ Carries(queue', k, S)
  /\ \A u \in Tasks : /\ (Leading(u))' => Leading(u)
                      /\ Live(u) => (Live(u))'
                      /\ task'[u] = "finalizing" => task[u] = "finalizing" \/ Ending'
                      /\ outcome'[u] = outcome[u] \/ Leading(u)
                      /\ task'[u] \in {"captured", "pausing"} => (Leads(u))'
  /\ task'[0] \in {"releasing", "idling"} => task[0] \in {"releasing", "idling"} \/ Ending'
  /\ Ending => Ending'
  /\ doc'.status = "awaiting" =>
       ~stopping' /\ (doc.status = "awaiting" \/ \A u \in Tasks : ~(Leading(u))')
  /\ stopping' => stopping \/ Ending' \/ \A u \in Tasks : ~(Leading(u))'
  /\ \A i \in Positions : i > k /\ queue[i].op = "pause" => task'[queue[i].task] = "pausing"
  /\ \A o : o \in S => Owed(o, k)

\* A steady step keeps TasksHold.
LEMMA SteadyKeeps ==
  ASSUME Shape, TasksHold, NEW k \in {0, 1}, NEW S, Steady(k, S)
  PROVE  TasksHold'
<1>0. Carries(queue', k, S)
  BY DEF Steady
<1>1. ASSUME NEW i \in Positions'
      PROVE  \/ /\ i \in Nat /\ i + k \in Positions /\ (queue[i])' = queue[i + k] /\ i + k > k
                /\ queue[i + k] \in Operations
             \/ i = Len(queue') /\ (queue[i])' \in S
  <2>1. i \in Nat /\ i > 0
    BY <1>0, PositionsAre
  <2> QED
    BY <1>0, <2>1, Carried, LeftOver
<1>2. \A t, u \in Tasks : (Leading(t))' /\ (Leading(u))' => t = u
  BY DEF Steady, TasksHold
<1>3. ~(Leading(0))'
  BY TaskNumbers DEF Steady, TasksHold
<1>4. doc'.status = "awaiting" => ~stopping' /\ \A t \in Tasks : ~(Leading(t))'
  BY DEF Steady, TasksHold
<1>5. stopping' => Ending' \/ \A t \in Tasks : ~(Leading(t))'
  BY DEF Steady, TasksHold
<1>6. /\ \A t \in Tasks : task'[t] = "finalizing" => Ending'
      /\ task'[0] \in {"releasing", "idling"} => Ending'
      /\ \A t \in Tasks : task'[t] \in {"captured", "pausing"} => (Leads(t))'
  BY DEF Steady, TasksHold
<1>7. ASSUME NEW i \in Positions'
      PROVE  (PauseHolds(i))' /\ (EndHolds(i))' /\ (SettlementHolds(i))'
  <2>1. CASE /\ i + k \in Positions /\ (queue[i])' = queue[i + k] /\ queue[i + k] \in Operations
             /\ i + k > k
    <3>1. queue[i + k].op = "pause" => task'[queue[i + k].task] = "pausing"
      BY <2>1 DEF Steady
    <3>2. queue[i + k].op \in {"end", "rescue", "reconcile", "fail", "block"}
            => queue[i + k].task \in Tasks
      BY <2>1, OperationParts
    <3>3. PauseHolds(i + k) /\ EndHolds(i + k) /\ SettlementHolds(i + k)
      BY <2>1 DEF TasksHold
    <3>4. \A u \in Tasks : /\ (Leading(u))' => Leading(u)
                           /\ Live(u) => (Live(u))'
                           /\ outcome'[u] = outcome[u] \/ Leading(u)
      BY DEF Steady
    <3>5. (PauseHolds(i))'
      BY <2>1, <3>1 DEF PauseHolds
    <3>6. (EndHolds(i))'
      BY <2>1, <3>2, <3>3, <3>4 DEF EndHolds, Leading, Live
    <3>7. (SettlementHolds(i))'
      BY <2>1, <3>2, <3>3, <3>4 DEF SettlementHolds, Leading, Live
    <3> QED
      BY <3>5, <3>6, <3>7
  <2>2. CASE (queue[i])' \in S
    <3>1. PICK o : o = (queue[i])' /\ o \in S
      BY <2>2
    <3>2. /\ o.op = "pause" => task'[o.task] = "pausing"
          /\ o.op = "end" => /\ (Live(o.task))' /\ ~(Leading(o.task))'
                             /\ outcome'[o.task].verdict \in {"completed", "failed", "cancelled"}
          /\ o.op \in {"rescue", "reconcile", "fail", "block"} =>
               (o.task # 0 => (Live(o.task))' /\ ~(Leading(o.task))')
      BY <3>1 DEF Steady, Owed
    <3> QED
      BY <3>1, <3>2 DEF PauseHolds, EndHolds, SettlementHolds, Leading, Live
  <2> QED
    BY <1>1, <2>1, <2>2
<1>8. ASSUME NEW i \in Positions', NEW j \in Positions',
             (queue[i].op)' = "pause", (queue[j].op)' = "pause"
      PROVE  i = j
  <2>1. CASE /\ i \in Nat /\ i + k \in Positions /\ (queue[i])' = queue[i + k] /\ i + k > k
             /\ j \in Nat /\ j + k \in Positions /\ (queue[j])' = queue[j + k] /\ j + k > k
    <3>1. i + k = j + k
      BY <1>8, <2>1 DEF TasksHold
    <3> QED
      BY <2>1, <3>1
  <2>2. CASE (queue[i])' \in S \/ (queue[j])' \in S
    <3>1. PICK o : o \in S /\ o.op = "pause"
      BY <1>8, <2>2
    <3>2. \A n \in Positions : n > k => queue[n].op # "pause"
      BY <3>1 DEF Steady, Owed
    <3>3. i = Len(queue') /\ j = Len(queue')
      BY <1>1, <1>8, <3>2
    <3> QED
      BY <3>3
  <2> QED
    BY <1>1, <2>1, <2>2
<1>9. \A i, j \in Positions' :
         (queue[i].op)' = "pause" /\ (queue[j].op)' = "pause" => i = j
  BY <1>8
<1> QED
  BY <1>2, <1>3, <1>4, <1>5, <1>6, <1>7, <1>9 DEF TasksHold

\* A step of task t that leaves the loop, or is away from it already.
Off == Steps \ {"unborn", "looping", "captured", "pausing"}
Kept(t, k) ==
  /\ place' = place
  /\ \A u \in Tasks : u # t => outcome'[u] = outcome[u]
  /\ outcome'[t] = outcome[t] \/ Leading(t)
  /\ Ending => Ending'
  /\ doc'.status = "awaiting" => doc.status = "awaiting" \/ (Leading(t) /\ ~Ending)
  /\ stopping' => stopping \/ Ending' \/ (Leading(t) /\ doc'.status # "awaiting")
  /\ Leading(t) => task[t] # "pausing" \/ (k = 1 /\ queue[1].op = "pause")
Queued(t, k, S) ==
  /\ Carries(queue', k, S)
  /\ \A o : o \in S =>
       /\ o.op \in {"rescue", "reconcile", "fail", "block", "end"} /\ o.task = t
       /\ o.op = "end" => outcome'[t].verdict \in {"completed", "failed", "cancelled"}

\* Such a step keeps TasksHold.
LEMMA PartingKeeps ==
  ASSUME Shape, TasksHold, NEW t \in Tasks, NEW x \in Off, NEW k \in {0, 1}, NEW S,
         task' = [task EXCEPT ![t] = x], Kept(t, k), Queued(t, k, S),
         x = "finalizing" => Ending',
         t = 0 /\ x \in {"releasing", "idling"} => Ending' \/ task[0] = "releasing"
  PROVE  TasksHold'
<1>1. /\ task'[t] = x /\ \A u \in Tasks : u # t => task'[u] = task[u]
      /\ Live(t)' /\ ~(Leading(t))'
      /\ \A u \in Tasks : u # t => (Leading(u)' <=> Leading(u)) /\ (Live(u)' <=> Live(u))
  BY DEF Shape, Off, Live, Leading
<1>2. Carries(queue', k, S) /\ Waiting' = Waiting
  BY DEF Queued, Kept, Waiting
<1>3. ASSUME NEW u \in Tasks
      PROVE  /\ (Leading(u))' => Leading(u)
             /\ Live(u) => (Live(u))'
             /\ task'[u] = "finalizing" => task[u] = "finalizing" \/ Ending'
             /\ outcome'[u] = outcome[u] \/ Leading(u)
             /\ task'[u] \in {"captured", "pausing"} => (Leads(u))'
  <2>1. CASE u = t
    BY <1>1, <2>1 DEF Kept, Off
  <2>2. CASE u # t
    <3>1. task'[u] = task[u] /\ outcome'[u] = outcome[u]
      BY <1>1, <2>2 DEF Kept
    <3>2. task[u] \in {"captured", "pausing"} => Leads(u)
      BY DEF TasksHold
    <3>3. Leads(u) => Leads(u)'
      BY <1>2, <3>1 DEF Leads, Kept
    <3> QED
      BY <1>1, <2>2, <3>1, <3>2, <3>3
  <2> QED
    BY <2>1, <2>2
<1>4. task'[0] \in {"releasing", "idling"} => task[0] \in {"releasing", "idling"} \/ Ending'
  BY <1>1, TaskNumbers
<1>5. doc.status = "awaiting" => ~stopping /\ ~Ending /\ \A u \in Tasks : ~Leading(u)
  BY DEF TasksHold, Ending, Terminal
<1>6. Leading(t) => /\ \A u \in Tasks : ~(Leading(u))'
                    /\ stopping => Ending
                    /\ doc.status # "awaiting"
  BY <1>1, <1>3 DEF TasksHold
<1>7. doc'.status = "awaiting" =>
        ~stopping' /\ (doc.status = "awaiting" \/ \A u \in Tasks : ~(Leading(u))')
  <2>1. ASSUME doc'.status = "awaiting"
        PROVE  ~Ending' /\ ~Ending
    BY <2>1 DEF Ending, Terminal, Kept
  <2> QED
    BY <2>1, <1>5, <1>6 DEF Kept
<1>8. stopping' => stopping \/ Ending' \/ \A u \in Tasks : ~(Leading(u))'
  BY <1>6 DEF Kept
<1>9. ASSUME NEW i \in Positions, i > k, queue[i].op = "pause"
      PROVE  task'[queue[i].task] = "pausing"
  <2>1. queue[i].task \in Tasks /\ task[queue[i].task] = "pausing"
    BY <1>9, LeftOver, OperationParts DEF TasksHold, PauseHolds
  <2>2. queue[i].task # t
    <3>1. SUFFICES ASSUME queue[i].task = t
                   PROVE  FALSE
      OBVIOUS
    <3>2. k = 1 /\ queue[1].op = "pause"
      BY <2>1, <3>1 DEF Leading, Kept
    <3>3. 1 \in Positions /\ i # 1
      BY <1>9, <3>2, LeftOver DEF Positions
    <3> QED
      BY <1>9, <3>2, <3>3 DEF TasksHold
  <2> QED
    BY <1>1, <2>1, <2>2
<1>10. \A o : o \in S => Owed(o, k)
  <2>1. SUFFICES ASSUME NEW o, o \in S
                 PROVE  Owed(o, k)
    OBVIOUS
  <2>2. o.op \in {"rescue", "reconcile", "fail", "block", "end"} /\ o.task = t
    BY <2>1 DEF Queued
  <2>3. o.op = "end" => outcome'[o.task].verdict \in {"completed", "failed", "cancelled"}
    BY <2>1, <2>2 DEF Queued
  <2>4. task'[o.task] \notin {"unborn", "looping", "captured", "pausing"}
    BY <1>1, <2>2 DEF Off
  <2> QED
    BY <2>2, <2>3, <2>4 DEF Owed, Live, Leading
<1>11. Ending => Ending'
  BY DEF Kept
<1>12. Steady(k, S)
  BY <1>2, <1>3, <1>4, <1>7, <1>8, <1>9, <1>10, <1>11 DEF Steady
<1> QED
  BY <1>12, SteadyKeeps

\* The same of the two ways a task goes on.
LEMMA SettlesKeeps ==
  ASSUME Shape, TasksHold, NEW t \in Tasks, NEW k \in {0, 1}, NEW list,
         Settles(t, list, k), Kept(t, k)
  PROVE  TasksHold'
<1>1. PICK x \in Settled : task' = [task EXCEPT ![t] = x]
  BY DEF Settles, Moves
<1>2. x \in Off /\ x \notin {"finalizing", "releasing", "idling"}
  BY DEF Settled, Off, Steps
<1>3. Queued(t, k, Settling(t, list))
  BY DEF Settles, Moves, Queued, Settling
<1> QED
  BY <1>1, <1>2, <1>3, PartingKeeps

\* A task that goes on.
LEMMA GoesKeeps ==
  ASSUME Shape, TasksHold, NEW t \in Tasks, NEW x \in Off, NEW k \in {0, 1}, NEW S,
         Goes(t, x, k, S), Kept(t, k),
         \A o : o \in S =>
           /\ o.op \in {"fail", "block", "end"} /\ o.task = t
           /\ o.op = "end" => outcome'[t].verdict \in {"completed", "failed", "cancelled"},
         x = "finalizing" => Ending',
         t = 0 /\ x \in {"releasing", "idling"} => Ending' \/ task[0] = "releasing"
  PROVE  TasksHold'
<1>1. task' = [task EXCEPT ![t] = x]
  BY DEF Goes, Moves
<1>2. Queued(t, k, S)
  BY DEF Goes, Moves, Queued
<1> QED
  BY <1>1, <1>2, PartingKeeps

\* Who is at work leads only at the head of the queue with a pause.
LEMMA NotLeading ==
  ASSUME Shape, TasksHold, NEW t \in Tasks
  PROVE  /\ task[t] \in {"releasing", "stopped", "draining", "finalizing"} => ~Leading(t)
         /\ queue # <<>> /\ queue[1].op \in {"end", "fail", "block", "rescue", "reconcile"}
              /\ t = queue[1].task => ~Leading(t)
<1>1. ASSUME queue # <<>>
      PROVE  EndHolds(1) /\ SettlementHolds(1)
  <2>1. 1 \in Positions
    BY <1>1, LeftOver
  <2> QED
    BY <2>1 DEF TasksHold
<1> QED
  BY <1>1 DEF EndHolds, SettlementHolds, TasksHold, Leading

\* The steps of a task that does not hold the run's lock.
LEMMA TasksKeep ==
  ASSUME Shape, TasksHold, NEW t \in Tasks, t # 0,
         Remember(t) \/ Released(t) \/ Catch(t) \/ Finalized(t)
  PROVE  TasksHold'
<1>0. /\ doc' = doc /\ stopping' = stopping /\ outcome' = outcome /\ place' = place
      /\ Ending <=> Ending'
  BY DEF Remember, Released, Catch, Finalized, Ending
<1>1. task[t] # "pausing" => Kept(t, 0)
  BY <1>0 DEF Kept
<1>2. {"stopped", "ending", "failing"} \subseteq Off
  BY DEF Off, Steps
<1>3. CASE Remember(t)
  <2>1. task[t] = "captured" /\ Leads(t)
    BY <1>3, RememberMoves DEF TasksHold
  <2>2. Kept(t, 0)
    BY <1>1, <2>1
  <2>3. CASE outcome[t].verdict = "paused" /\ Goes(t, "pausing", 0, {[op |-> "pause", task |-> t]})
    <3>1. task' = [task EXCEPT ![t] = "pausing"]
      BY <2>3 DEF Goes, Moves
    <3>2. /\ task'[t] = "pausing" /\ Leading(t)
          /\ \A u \in Tasks : u # t => task'[u] = task[u]
      BY <2>1, <3>1 DEF Shape, Leading
    <3>3. Carries(queue', 0, {[op |-> "pause", task |-> t]})
      BY <2>3 DEF Goes, Moves
    <3>4. Waiting' = Waiting
      BY <1>0 DEF Waiting
    <3>5. ASSUME NEW u \in Tasks
          PROVE  /\ (Leading(u))' => Leading(u)
                 /\ Live(u) => (Live(u))'
                 /\ task'[u] = "finalizing" => task[u] = "finalizing" \/ Ending'
                 /\ outcome'[u] = outcome[u] \/ Leading(u)
                 /\ task'[u] \in {"captured", "pausing"} => (Leads(u))'
      <4>1. Leads(u) /\ (task'[u] = "pausing" => outcome[u].verdict = "paused") => Leads(u)'
        BY <1>0, <3>4 DEF Leads
      <4>2. CASE u = t
        BY <1>0, <2>1, <2>3, <3>2, <4>1, <4>2 DEF Leading, Live
      <4>3. CASE u # t
        <5>1. task'[u] = task[u]
          BY <3>2, <4>3
        <5>2. task[u] \in {"captured", "pausing"} => Leads(u)
          BY DEF TasksHold
        <5> QED
          BY <1>0, <5>1, <5>2, <4>1 DEF Leading, Live, Leads
      <4> QED
        BY <4>2, <4>3
    <3>6. ASSUME NEW i \in Positions
          PROVE  queue[i].op # "pause"
      <4>1. SUFFICES ASSUME queue[i].op = "pause"
                     PROVE  FALSE
        OBVIOUS
      <4>2. queue[i].task \in Tasks /\ task[queue[i].task] = "pausing"
        BY <4>1, LeftOver, OperationParts DEF TasksHold, PauseHolds
      <4> QED
        BY <2>1, <4>2 DEF TasksHold, Leading
    <3>7. \A o : o \in {[op |-> "pause", task |-> t]} => Owed(o, 0)
      BY <3>2, <3>6 DEF Owed
    <3>8. task'[0] \in {"releasing", "idling"} => task[0] \in {"releasing", "idling"}
      BY <3>2, TaskNumbers
    <3>9. doc.status = "awaiting" => ~stopping
      BY DEF TasksHold
    <3>10. Steady(0, {[op |-> "pause", task |-> t]})
      BY <1>0, <3>3, <3>5, <3>6, <3>7, <3>8, <3>9 DEF Steady
    <3> QED
      BY <3>10, SteadyKeeps
  <2>4. CASE outcome[t].verdict # "paused" /\ Goes(t, "ending", 0, {[op |-> "end", task |-> t]})
    <3>1. outcome'[t].verdict \in {"completed", "failed", "cancelled"}
      BY <1>0, <2>1, <2>4 DEF Leads
    <3>2. \A o : o \in {[op |-> "end", task |-> t]} => o.op = "end" /\ o.task = t
      OBVIOUS
    <3> QED
      BY <1>2, <2>2, <2>4, <3>1, <3>2, GoesKeeps
  <2>5. CASE Goes(t, "stopped", 0, {})
    BY <1>2, <2>2, <2>5, GoesKeeps
  <2>6. ASSUME NEW list, Settles(t, list, 0)
        PROVE  TasksHold'
    BY <2>2, <2>6, SettlesKeeps
  <2> QED
    BY <1>3, <2>3, <2>4, <2>5, <2>6, RememberMoves
<1>4. CASE Released(t)
  <2>1. task[t] = "releasing" /\ Kept(t, 0)
    BY <1>1, <1>4, ReleasedMoves
  <2>2. CASE Goes(t, "stopped", 0, {})
    BY <1>2, <2>1, <2>2, GoesKeeps
  <2>3. CASE Settles(t, accepted', 0)
    BY <2>1, <2>3, SettlesKeeps
  <2> QED
    BY <1>4, <2>2, <2>3, ReleasedMoves
<1>5. CASE Catch(t)
  <2>1. task[t] = "stopped" /\ Kept(t, 0)
    BY <1>1, <1>5, CatchMoves
  <2>2. CASE Goes(t, "failing", 0, {[op |-> "fail", task |-> t]})
    <3>1. \A o : o \in {[op |-> "fail", task |-> t]} => o.op = "fail" /\ o.task = t
      OBVIOUS
    <3> QED
      BY <1>2, <2>1, <2>2, <3>1, GoesKeeps
  <2>3. CASE Settles(t, accepted, 0)
    BY <2>1, <2>3, SettlesKeeps
  <2> QED
    BY <1>5, <2>2, <2>3, CatchMoves
<1>6. CASE Finalized(t)
  <2>1. task[t] = "draining" /\ Kept(t, 0) /\ Settles(t, accepted', 0)
    BY <1>1, <1>6, FinalizedMoves
  <2> QED
    BY <2>1, SettlesKeeps
<1> QED
  BY <1>3, <1>4, <1>5, <1>6

\* The session is given back, and the cleanup goes on.
LEMMA CleanupKeeps ==
  ASSUME Shape, TasksHold, (\E t \in Tasks : Revoke(t)) \/ Cleanup
  PROVE  TasksHold'
<1>1. {"draining", "idling", "gone", "finalizing", "cleaned"} \subseteq Off
  BY DEF Off, Steps
<1>2. 0 \in Tasks /\ ~Leading(0)
  BY TaskNumbers DEF TasksHold
<1>3. ASSUME NEW t \in Tasks, Revoke(t)
      PROVE  TasksHold'
  <2>1. task[t] = "finalizing" /\ Goes(t, "draining", 0, {}) /\ Ending
    BY <1>3, RevokeMoves DEF TasksHold
  <2>2. ~Leading(t) /\ Ending'
    BY <1>3, <2>1 DEF Leading, Revoke, Ending
  <2>3. Kept(t, 0)
    BY <1>3, <2>1, <2>2 DEF Kept, Revoke
  <2> QED
    BY <1>1, <2>1, <2>3, GoesKeeps
<1>4. CASE Cleanup
  <2>1. /\ doc' = doc /\ stopping' = stopping /\ outcome' = outcome /\ place' = place
        /\ Ending <=> Ending'
    BY <1>4 DEF Cleanup, CleanupReleased, CleanupIdle, CleanupSettles, Ending
  <2>2. Kept(0, 0)
    BY <1>2, <2>1 DEF Kept
  <2>3. CASE CleanupReleased
    BY <1>1, <1>2, <2>2, <2>3, CleanupReleasedMoves, GoesKeeps
  <2>4. CASE CleanupSettles
    <3>1. CASE Goes(0, "gone", 0, {})
      BY <1>1, <1>2, <2>2, <3>1, GoesKeeps
    <3>2. CASE Settles(0, accepted, 0)
      BY <1>2, <2>2, <3>2, SettlesKeeps
    <3> QED
      BY <2>4, <3>1, <3>2, CleanupSettlesMoves
  <2>5. CASE CleanupIdle
    <3> DEFINE x == IF task[0] = "idling" THEN "finalizing" ELSE "cleaned"
    <3>1. task' = [task EXCEPT ![0] = x] /\ x \in Off /\ x \in {"finalizing", "cleaned"}
      BY <1>1, <2>5 DEF CleanupIdle
    <3>2. x = "finalizing" => Ending'
      BY <2>1 DEF TasksHold
    <3> HIDE DEF x
    <3>3. Carries(queue', 0, {})
      BY <2>5, LeftOver, AddingNone DEF CleanupIdle
    <3>4. Queued(0, 0, {})
      BY <3>3 DEF Queued
    <3> QED
      BY <1>2, <2>2, <3>1, <3>2, <3>4, PartingKeeps
  <2> QED
    BY <1>4, <2>3, <2>4, <2>5 DEF Cleanup
<1> QED
  BY <1>3, <1>4

\* What the operations of the tasks do, in turn.
LEMMA OperationsKeep ==
  ASSUME Shape, TasksHold,
         Paused \/ NotPaused \/ Ended \/ NotEnded \/ Rescued \/ Reconciled
  PROVE  TasksHold'
<1>1. {"releasing", "finalizing", "blocking", "stopped", "gone"} \subseteq Off
  BY DEF Off, Steps
<1>2. ASSUME At("pause")
      PROVE  /\ task[queue[1].task] = "pausing" /\ Leading(queue[1].task)
             /\ queue[1].task \in Tasks \ {0} /\ doc.status # "awaiting"
             /\ queue[1].op = "pause"
  <2>1. 1 \in Positions /\ queue[1].op = "pause" /\ queue[1].task \in Tasks
    BY <1>2, AtWork, OperationParts
  <2>2. task[queue[1].task] = "pausing"
    BY <2>1 DEF TasksHold, PauseHolds
  <2>3. Leading(queue[1].task)
    BY <2>2 DEF Leading
  <2> QED
    BY <2>1, <2>2, <2>3 DEF TasksHold
<1>3. ASSUME NEW x \in {"end", "fail", "block", "rescue", "reconcile"}, At(x)
      PROVE  queue[1].task \in Tasks /\ ~Leading(queue[1].task)
  <2>1. queue # <<>> /\ queue[1].op = x /\ queue[1].task \in Tasks
    BY <1>3, AtWork, OperationParts DEF At
  <2> QED
    BY <2>1, NotLeading
<1>4. IsEnd => queue[1].task \in Tasks /\ ~Leading(queue[1].task)
  BY <1>3 DEF IsEnd
<1>5. CASE Paused
  <2>0. PICK t \in Tasks : t = queue[1].task
    BY <1>5, PausedMoves
  <2>1. /\ At("pause") /\ CanPause(t) /\ doc'.status = "awaiting"
        /\ Settles(t, accepted', 1)
    <3>1. /\ At("pause") /\ CanPause(t) /\ doc' \in Docs
          /\ doc' = [doc EXCEPT !.status = "awaiting", !.requests = outcome[t].requests,
                               !.fact = PauseFacts(t)]
          /\ Settles(t, accepted', 1)
      BY <1>5, <2>0, PausedMoves
    <3> QED
      BY <3>1 DEF Shape, Docs
  <2>2. ~Ending
    BY <2>1 DEF CanPause, Ending, Terminal
  <2>3. Leading(t) /\ stopping' = stopping /\ outcome' = outcome /\ place' = place
        /\ queue[1].op = "pause"
    BY <1>2, <1>5, <2>0, <2>1 DEF Paused
  <2>4. Kept(t, 1)
    BY <2>2, <2>3 DEF Kept
  <2> QED
    BY <2>1, <2>4, SettlesKeeps
<1>6. CASE NotPaused
  <2>0. PICK t \in Tasks : t = queue[1].task
    BY <1>6, NotPausedMoves
  <2>1. /\ At("pause") /\ Goes(t, "releasing", 1, {})
        /\ \A u \in Tasks : u # t => outcome'[u] = outcome[u]
    BY <1>6, <2>0, NotPausedMoves
  <2>2. /\ Leading(t) /\ t # 0 /\ doc' = doc /\ place' = place /\ doc.status # "awaiting"
        /\ queue[1].op = "pause"
    BY <1>2, <1>6, <2>0, <2>1 DEF NotPaused
  <2>3. Kept(t, 1)
    BY <2>1, <2>2 DEF Kept, Ending
  <2> QED
    BY <1>1, <2>1, <2>2, <2>3, GoesKeeps
<1>7. CASE Ended
  <2>0. PICK t \in Tasks : t = queue[1].task
    BY <1>7, EndedMoves
  <2>1. /\ doc'.status \in Terminal /\ Goes(t, "finalizing", 1, {}) /\ ~Leading(t)
    BY <1>4, <1>7, <2>0, EndedMoves
  <2>2. /\ stopping' = stopping /\ outcome' = outcome /\ place' = place
        /\ Ending' /\ doc'.status # "awaiting"
    BY <1>7, <2>1 DEF Ended, Ending, Terminal
  <2>3. Kept(t, 1)
    BY <2>1, <2>2 DEF Kept
  <2> QED
    BY <1>1, <2>1, <2>2, <2>3, GoesKeeps
<1>8. CASE NotEnded
  <2>0. PICK t \in Tasks : t = queue[1].task
    BY <1>8, NotEndedMoves
  <2>1. ~Leading(t)
    BY <1>4, <1>8, <2>0, NotEndedMoves
  <2>2. stopping' = stopping /\ outcome' = outcome /\ place' = place /\ doc' = doc
    BY <1>8 DEF NotEnded
  <2>3. Kept(t, 1)
    BY <2>1, <2>2 DEF Kept, Ending
  <2>4. CASE Goes(t, "blocking", 1, {[op |-> "block", task |-> t]})
    <3>1. \A o : o \in {[op |-> "block", task |-> t]} => o.op = "block" /\ o.task = t
      OBVIOUS
    <3> QED
      BY <1>1, <2>3, <2>4, <3>1, GoesKeeps
  <2>5. CASE Goes(t, "stopped", 1, {})
    BY <1>1, <2>3, <2>5, GoesKeeps
  <2>6. CASE Settles(t, accepted, 1)
    BY <2>3, <2>6, SettlesKeeps
  <2> QED
    BY <1>8, <2>0, <2>4, <2>5, <2>6, NotEndedMoves
<1>9. CASE Rescued
  <2>0. PICK t \in Tasks : t = queue[1].task
    BY <1>9, RescuedMoves
  <2>1. PICK c \in Calls : c = queue[1].call
    BY <1>9, RescuedMoves
  <2>2. PICK v \in Facts : v = queue[1].fact
    BY <1>9, RescuedMoves
  <2>3. /\ At("rescue") /\ doc' \in {doc, Recorded(c, v)}
        /\ Settles(t, [todo[t] EXCEPT ![c] = "none"], 1)
    BY <1>9, <2>0, <2>1, <2>2, RescuedMoves
  <2>4. doc'.status = doc.status
    BY <2>3, RecordedParts DEF Shape
  <2>5. stopping' = stopping /\ outcome' = outcome /\ place' = place
    BY <1>9 DEF Rescued
  <2>6. ~Leading(t)
    BY <1>3, <2>0, <2>3
  <2>7. Kept(t, 1)
    BY <2>4, <2>5, <2>6 DEF Kept, Ending
  <2> QED
    BY <2>3, <2>7, SettlesKeeps
<1>10. CASE Reconciled
  <2>0. PICK t \in Tasks : t = queue[1].task
    BY <1>10, ReconciledMoves
  <2>1. /\ At("reconcile") /\ Goes(t, "gone", 1, {})
        /\ doc' \in {doc, CloseFacts(doc), [CloseFacts(doc) EXCEPT !.round = FALSE]}
    BY <1>10, <2>0, ReconciledMoves
  <2>2. doc'.status = doc.status
    <3>1. CloseFacts(doc) \in Docs /\ CloseFacts(doc).status = doc.status
      BY CloseParts DEF Shape
    <3>2. [CloseFacts(doc) EXCEPT !.round = FALSE].status = doc.status
      BY <3>1 DEF Docs
    <3> QED
      BY <2>1, <3>1, <3>2
  <2>3. stopping' = stopping /\ outcome' = outcome /\ place' = place
    BY <1>10 DEF Reconciled
  <2>4. ~Leading(t)
    BY <1>3, <2>0, <2>1
  <2>5. Kept(t, 1)
    BY <2>2, <2>3, <2>4 DEF Kept, Ending
  <2> QED
    BY <1>1, <2>1, <2>5, GoesKeeps
<1> QED
  BY <1>5, <1>6, <1>7, <1>8, <1>9, <1>10

\* A step that leaves the tasks alone.
Still(k, S) ==
  /\ task' = task /\ outcome' = outcome
  /\ Carries(queue', k, S)
  /\ \A o : o \in S => o.op \in {"result", "decide", "close", "cancel"}
  /\ Waiting \subseteq Waiting' \/ Ending' \/ \A u \in Tasks : ~Leading(u)
  /\ Ending => Ending'
  /\ doc'.status = "awaiting" => doc.status = "awaiting" /\ (stopping' => stopping)
  /\ stopping' => stopping \/ Ending'

\* Such a step keeps TasksHold.
LEMMA StillKeeps ==
  ASSUME Shape, TasksHold, NEW k \in {0, 1}, NEW S, Still(k, S)
  PROVE  TasksHold'
<1>1. ASSUME NEW u \in Tasks
      PROVE  /\ task'[u] = task[u] /\ outcome'[u] = outcome[u]
             /\ task'[u] \in {"captured", "pausing"} => (Leads(u))'
  <2>1. task'[u] = task[u] /\ outcome'[u] = outcome[u]
    BY DEF Still
  <2>2. task'[u] \in {"captured", "pausing"} => Leads(u) /\ Leading(u)
    BY <2>1 DEF TasksHold, Leading
  <2>3. Waiting \subseteq Waiting' \/ Ending' \/ ~Leading(u)
    BY DEF Still
  <2>4. Ending => Ending'
    BY DEF Still
  <2> QED
    BY <2>1, <2>2, <2>3, <2>4 DEF Leads
<1>2. ASSUME NEW i \in Positions, queue[i].op = "pause"
      PROVE  task'[queue[i].task] = "pausing"
  BY <1>2 DEF Still, TasksHold, PauseHolds
<1>3. \A o : o \in S => Owed(o, k)
  BY DEF Still, Owed
<1>4. Steady(k, S)
  <2>1. \A u \in Tasks : Leading(u)' <=> Leading(u)
    BY <1>1 DEF Leading
  <2>2. \A u \in Tasks : Live(u)' <=> Live(u)
    BY <1>1 DEF Live
  <2>3. task'[0] = task[0]
    BY <1>1, TaskNumbers
  <2>4. doc.status = "awaiting" => ~stopping
    BY DEF TasksHold
  <2>5. /\ Carries(queue', k, S) /\ (Ending => Ending')
        /\ doc'.status = "awaiting" => doc.status = "awaiting" /\ (stopping' => stopping)
        /\ stopping' => stopping \/ Ending'
    BY DEF Still
  <2> QED
    BY <1>1, <1>2, <1>3, <2>1, <2>2, <2>3, <2>4, <2>5 DEF Steady
<1> QED
  BY <1>4, SteadyKeeps

\* Nobody who waits for a decision is moved but by it or by an abort.
LEMMA WaitingStays ==
  ASSUME Shape, NEW c \in Calls, place[c] # "waiting"
  PROVE  \A p : place' = [place EXCEPT ![c] = p] => Waiting \subseteq Waiting'
  BY DEF Shape, Waiting

\* The result at work is the one the loop recorded for a call that delivers it.
LEMMA ResultAtWork ==
  ASSUME Shape, CallsHold, At("result")
  PROVE  /\ queue[1].call \in Calls /\ queue[1].fact \in Facts
         /\ queue[1].fact = result[queue[1].call]
         /\ place[queue[1].call] = IF queue[1].fact = "asked" THEN "asking" ELSE "delivering"
<1>1. IsResult(1) /\ queue[1].call \in Calls /\ queue[1].fact \in Facts
  BY AtWork, OperationParts DEF IsResult
<1> QED
  BY <1>1 DEF CallsHold, IsResult

\* The steps that leave the tasks alone, those of the calls first.
LEMMA CallsKeep ==
  ASSUME Shape, TasksHold, NEW c \in Calls, Call(c) \/ AskDecide(c)
  PROVE  TasksHold'
<1>1. /\ doc' = doc /\ task' = task /\ outcome' = outcome /\ stopping' = stopping
  BY DEF Call, AskDecide, Ask, Start, Return, Abort, RestOfOffer
<1>2. ASSUME NEW S, Carries(queue', 0, S),
             \A o : o \in S => o.op \in {"result", "decide", "close", "cancel"},
             Waiting \subseteq Waiting' \/ Ending' \/ \A u \in Tasks : ~Leading(u)
      PROVE  TasksHold'
  <2>1. Still(0, S)
    BY <1>1, <1>2 DEF Still, Ending
  <2> QED
    BY <2>1, StillKeeps
<1>3. \A v : \A o : o \in {ResultOp(c, v)} => o.op = "result"
  BY DEF ResultOp
<1>4. \A o : o \in {} => o.op = "result"
  OBVIOUS
<1>5. CASE Ask(c)
  <2>1. Waiting \subseteq Waiting'
    BY <1>5, AskMoves, WaitingStays
  <2> QED
    BY <1>2, <1>3, <1>5, <2>1, AskMoves DEF Offers
<1>6. CASE Start(c)
  <2>1. Waiting \subseteq Waiting'
    BY <1>6, WaitingStays DEF Start
  <2>2. Carries(queue', 0, {})
    BY <1>6, LeftOver, AddingNone DEF Start
  <2> QED
    BY <1>2, <1>4, <2>1, <2>2
<1>7. CASE Return(c)
  <2>1. Waiting \subseteq Waiting'
    BY <1>7, ReturnMoves, WaitingStays
  <2> QED
    BY <1>2, <1>3, <1>7, <2>1, ReturnMoves DEF Offers
<1>8. CASE Abort(c)
  <2>1. Ending' \/ \A u \in Tasks : ~Leading(u)
    BY <1>1, <1>8, AbortMoves DEF TasksHold, Ending
  <2> QED
    BY <1>2, <1>3, <1>8, <2>1, AbortMoves DEF Offers
<1>9. CASE AskDecide(c)
  <2>1. PICK v \in {"approved", "denied"} :
          queue' = Append(queue, [op |-> "decide", call |-> c, fact |-> v, task |-> 0])
    BY <1>9 DEF AskDecide
  <2> DEFINE d == [op |-> "decide", call |-> c, fact |-> v, task |-> 0]
  <2>2. d \in Operations /\ d.op = "decide"
    BY OperationKinds
  <2> HIDE DEF d
  <2>3. Carries(queue', 0, {d})
    BY <2>1, <2>2, LeftOver, Adding DEF d
  <2>4. \A o : o \in {d} => o.op = "decide"
    BY <2>2
  <2>5. Waiting' = Waiting
    BY <1>9 DEF AskDecide, Waiting
  <2> QED
    BY <1>2, <2>3, <2>4, <2>5
<1> QED
  BY <1>5, <1>6, <1>7, <1>8, <1>9 DEF Call

\* Those of the loop, the round and the user, and those of a start.
LEMMA RestKeeps ==
  ASSUME Shape, TasksHold,
         \/ FinishCalls \/ Answer \/ RoundClosed \/ RoundNotClosed \/ NotDecided
         \/ NotCancelled \/ AskCancel \/ Recover \/ Recovered \/ UNCHANGED vars
  PROVE  TasksHold'
<1>1. task' = task /\ outcome' = outcome /\ place' = place /\ stopping' = stopping
  BY DEF FinishCalls, Answer, RoundClosed, RoundNotClosed, NotDecided, NotCancelled,
         AskCancel, Recover, Recovered, vars
<1>2. /\ Ending => Ending'
      /\ doc'.status = "awaiting" => doc.status = "awaiting"
  <2>1. CASE doc' = doc
    BY <2>1 DEF Ending
  <2>2. CASE RoundClosed
    BY <2>2 DEF RoundClosed, Shape, Docs, Ending
  <2>3. CASE Recover
    <3>1. /\ CloseFacts(doc) \in Docs /\ CloseFacts(doc).status = doc.status
          /\ CloseAsked(doc) \in Docs
      BY CloseParts DEF Shape
    <3>2. CASE RecoverPause
      <4>1. PICK e \in Docs : doc' = [e EXCEPT !.status = "blocked", !.requests = {}]
        BY <3>1, <3>2 DEF RecoverPause
      <4> QED
        BY <4>1 DEF Docs, Ending, Terminal
    <3>3. CASE RecoverFacts \/ RecoverRound \/ RecoverRunning
      BY <3>1, <3>3 DEF RecoverFacts, RecoverRound, RecoverRunning, Shape, Docs, Ending,
                        Terminal
    <3> QED
      BY <2>3, <3>2, <3>3 DEF Recover
  <2> QED
    BY <2>1, <2>2, <2>3 DEF FinishCalls, Answer, RoundNotClosed, NotDecided, NotCancelled,
         AskCancel, Recovered, vars
<1>3. ASSUME NEW k \in {0, 1}, NEW S, Carries(queue', k, S),
             \A o : o \in S => o.op \in {"result", "decide", "close", "cancel"}
      PROVE  TasksHold'
  <2>1. Still(k, S)
    BY <1>1, <1>2, <1>3 DEF Still, Waiting
  <2> QED
    BY <2>1, StillKeeps
<1>4. \A o : o \in {} => o.op \in {"result", "decide", "close", "cancel"}
  OBVIOUS
<1>5. ASSUME NEW x \in {"close", "cancel"}, queue' = Append(queue, [op |-> x])
      PROVE  TasksHold'
  <2>1. Carries(queue', 0, {[op |-> x]})
    BY <1>5, LeftOver, Adding, OperationKinds
  <2>2. \A o : o \in {[op |-> x]} => o.op \in {"close", "cancel"}
    OBVIOUS
  <2> QED
    BY <1>3, <2>1, <2>2
<1>6. CASE queue' = queue
  <2>1. Carries(queue', 0, {})
    BY <1>6, LeftOver, AddingNone
  <2> QED
    BY <1>3, <1>4, <2>1
<1>7. CASE queue # <<>> /\ queue' = Rest
  <2>1. Carries(queue', 1, {})
    BY <1>7, LeftOver, AddingNone
  <2> QED
    BY <1>3, <1>4, <2>1
<1> QED
  BY <1>5, <1>6, <1>7 DEF FinishCalls, Answer, RoundClosed, RoundNotClosed, NotDecided,
       NotCancelled, AskCancel, Recover, Recovered, vars, At

\* A result is saved or lost; the first approval of a wait ends it.
LEMMA ResultsKeep ==
  ASSUME Shape, TasksHold, CallsHold, ResultSaved \/ ResultLost
  PROVE  TasksHold'
<1>0. PICK c \in Calls : c = queue[1].call
  BY ResultSavedMoves, ResultLostMoves
<1>1. At("result") /\ place[c] # "waiting" /\ stopping' = stopping
  BY <1>0, ResultAtWork DEF ResultSaved, ResultLost
<1>2. doc'.status = doc.status
  <2>1. CASE ResultSaved
    <3>1. doc' = Recorded(c, queue[1].fact) /\ queue[1].fact \in Facts
      BY <1>0, <2>1, ResultSavedMoves
    <3> QED
      BY <3>1, RecordedParts DEF Shape
  <2>2. CASE ResultLost
    BY <2>2 DEF ResultLost
  <2> QED
    BY <2>1, <2>2
<1>3. \A p : place' = [place EXCEPT ![c] = p] => Waiting \subseteq Waiting'
  BY <1>1, WaitingStays
<1>4. ASSUME NEW S, Carries(queue', 1, S), \A o : o \in S => o.op = "result",
             task' = task, outcome' = outcome, Waiting \subseteq Waiting'
      PROVE  TasksHold'
  <2>1. Still(1, S)
    BY <1>1, <1>2, <1>4 DEF Still, Ending
  <2> QED
    BY <2>1, StillKeeps
<1>5. \A o : o \in {} => o.op = "result"
  OBVIOUS
<1>6. \A o : o \in {ResultOp(c, "cancelled")} => o.op = "result"
  BY DEF ResultOp
<1>7. CASE ResultLost
  <2>1. /\ place' = [place EXCEPT ![c] = "closed"] /\ Carries(queue', 1, {})
        /\ task' = task /\ outcome' = outcome
    BY <1>0, <1>7, ResultLostMoves DEF ResultLost
  <2> QED
    BY <1>3, <1>4, <1>5, <2>1
<1>8. CASE ResultSaved
  <2>1. CASE /\ place' = [place EXCEPT ![c] = "closed"]
             /\ Carries(queue', 1, {})
             /\ UNCHANGED <<task, outcome>>
    BY <1>3, <1>4, <1>5, <2>1
  <2>2. CASE /\ place' = [place EXCEPT ![c] = "delivering"]
             /\ Carries(queue', 1, {ResultOp(c, "cancelled")})
             /\ UNCHANGED <<task, outcome>>
    BY <1>3, <1>4, <1>6, <2>2
  <2>3. CASE /\ place' = [place EXCEPT ![c] = "waiting"]
             /\ Carries(queue', 1, {})
             /\ task' = [t \in Tasks |-> IF task[t] = "looping" THEN "captured" ELSE task[t]]
             /\ outcome' = [t \in Tasks |->
                   IF task[t] = "looping"
                   THEN [verdict |-> "paused", requests |-> Waiting \cup {c}, results |-> result]
                   ELSE outcome[t]]
    <3>1. Waiting' = Waiting \cup {c}
      BY <2>3 DEF Shape, Waiting
    <3>2. Ending' <=> Ending
      BY <1>2 DEF Ending
    <3>3. ASSUME NEW u \in Tasks
          PROVE  /\ (Leading(u))' <=> Leading(u)
                 /\ Live(u) <=> (Live(u))'
                 /\ task'[u] = "finalizing" => task[u] = "finalizing"
                 /\ task'[u] \in {"releasing", "idling"} => task[u] \in {"releasing", "idling"}
                 /\ task[u] = "pausing" => task'[u] = "pausing"
                 /\ outcome'[u] = outcome[u] \/ Leading(u)
                 /\ task'[u] \in {"captured", "pausing"} => (Leads(u))'
      <4>1. CASE task[u] = "looping"
        <5>1. /\ task'[u] = "captured"
              /\ outcome'[u] = [verdict |-> "paused", requests |-> Waiting', results |-> result]
          BY <2>3, <3>1, <4>1
        <5>2. outcome'[u].verdict = "paused" /\ outcome'[u].requests = Waiting'
          BY <5>1
        <5> QED
          BY <4>1, <5>1, <5>2 DEF Leading, Live, Leads
      <4>2. CASE task[u] # "looping"
        <5>1. task'[u] = task[u] /\ outcome'[u] = outcome[u]
          BY <2>3, <4>2
        <5>2. task[u] \in {"captured", "pausing"} => Leads(u)
          BY DEF TasksHold
        <5> QED
          BY <3>1, <3>2, <5>1, <5>2 DEF Leading, Live, Leads
      <4> QED
        BY <4>1, <4>2
    <3>4. ASSUME NEW i \in Positions, queue[i].op = "pause"
          PROVE  task'[queue[i].task] = "pausing"
      <4>1. queue[i].task \in Tasks /\ task[queue[i].task] = "pausing"
        BY <3>4, LeftOver, OperationParts DEF TasksHold, PauseHolds
      <4> QED
        BY <3>3, <4>1
    <3>5. \A o : o \in {} => Owed(o, 1)
      OBVIOUS
    <3>6. doc.status = "awaiting" => ~stopping
      BY DEF TasksHold
    <3>7. Steady(1, {})
      BY <1>1, <1>2, <2>3, <3>2, <3>3, <3>4, <3>5, <3>6, TaskNumbers DEF Steady
    <3> QED
      BY <3>7, SteadyKeeps
  <2> QED
    BY <1>0, <1>8, <2>1, <2>2, <2>3, ResultSavedMoves
<1> QED
  BY <1>7, <1>8

\* The decision that is being taken has its task: the first one nobody has used.
LEMMA NextTaskIs ==
  ASSUME Shape, CallsHold, Numbered, PauseIsAnswerable, up, NEW c \in Calls, MayDecide(c)
  PROVE  /\ NextTask = 2 + Cardinality(DecidedCalls) /\ NextTask \in Tasks \ {0, 1}
         /\ task[NextTask] = "unborn"
         /\ place[c] = "waiting" /\ c \notin DecidedCalls /\ c \notin executed
         /\ IsFiniteSet(DecidedCalls) /\ Cardinality(DecidedCalls) \in Nat
<1>1. place[c] = "waiting"
  BY DEF MayDecide, PauseIsAnswerable, Waiting
<1>2. Untouched(c)
  BY <1>1 DEF CallsHold
<1>3. c \notin DecidedCalls /\ c \notin executed
  BY <1>2 DEF Untouched, DecidedCalls
<1>4. IsFiniteSet(DecidedCalls) /\ Cardinality(DecidedCalls) \in Nat
  BY FS_Subset, FS_CardinalityType, CallsAssumption DEF DecidedCalls
<1>5. DecidedCalls \cup {c} \subseteq Calls
  BY DEF DecidedCalls
<1>6. /\ Cardinality(DecidedCalls \cup {c}) = Cardinality(DecidedCalls) + 1
      /\ Cardinality(DecidedCalls \cup {c}) <= Cardinality(Calls)
  BY <1>3, <1>4, <1>5, FS_AddElement, FS_Subset, CallsAssumption
<1> DEFINE n == Cardinality(DecidedCalls)
<1> HIDE DEF n
<1>7. n \in Nat /\ n + 2 \in Tasks \ {0, 1}
  BY <1>4, <1>6, TaskNumbers DEF n, Tasks
<1>8. /\ Live(1)
      /\ \A t \in Tasks : t >= 2 => (Live(t) <=> t <= 1 + n)
  BY DEF Numbered, MayDecide, Ending, Terminal, n
<1>9. \A u \in Tasks \ {0} : task[u] # "unborn" <=> u <= 1 + n
  BY <1>7, <1>8, TaskNumbers DEF Live
<1>10. /\ task[n + 2] = "unborn" /\ \A u \in Tasks \ {0} : u < n + 2 => task[u] # "unborn"
       /\ \A t \in Tasks \ {0, 1} :
            task[t] = "unborn" /\ (\A u \in Tasks \ {0} : u < t => task[u] # "unborn")
              => t = n + 2
  <2>1. ASSUME NEW t \in Tasks \ {0, 1}, task[t] = "unborn",
               \A u \in Tasks \ {0} : u < t => task[u] # "unborn"
        PROVE  t = n + 2
    <3>1. t \in Nat /\ ~(t <= 1 + n) /\ ~(n + 2 < t)
      BY <1>7, <1>9, <2>1, TaskNumbers
    <3> QED
      BY <1>7, <3>1
  <2>2. task[n + 2] = "unborn" /\ \A u \in Tasks \ {0} : u < n + 2 => task[u] # "unborn"
    BY <1>7, <1>9, TaskNumbers
  <2> QED
    BY <2>1, <2>2
<1>11. NextTask = n + 2
  BY <1>7, <1>10 DEF NextTask
<1> QED
  BY <1>1, <1>3, <1>4, <1>7, <1>10, <1>11 DEF n

\* A decision gives the loop one task to wait for it, where there was none.
LEMMA DecidedKeeps ==
  ASSUME Shape, TasksHold, CallsHold, Numbered, PauseIsAnswerable, Decided
  PROVE  TasksHold'
<1>0. PICK c \in Calls : c = queue[1].call
  BY DecidedMoves
<1>1. up /\ MayDecide(c) /\ doc.status = "awaiting"
  BY <1>0, DecidedMoves, AtWork DEF MayDecide
<1>2. PICK t \in Tasks \ {0, 1} : t = NextTask /\ task[t] = "unborn"
  BY <1>1, NextTaskIs
<1>3. /\ ~stopping /\ stopping' = stopping
      /\ \A u \in Tasks : task[u] \notin {"looping", "captured", "pausing"}
  BY <1>1 DEF TasksHold, Leading, Decided
<1>4. PICK S : Carries(queue', 1, S) /\ \A o : o \in S => o.op = "result"
  <2>1. \A o : o \in {} => o.op = "result"
    OBVIOUS
  <2>2. \A o : o \in {ResultOp(c, "denied")} => o.op = "result"
    BY DEF ResultOp
  <2> QED
    BY <1>0, <2>1, <2>2, DecidedMoves
<1> DEFINE left == Waiting \ {c}
<1>5. /\ task' = [task EXCEPT ![t] = IF left = {} THEN "looping" ELSE "captured"]
      /\ outcome' = [outcome EXCEPT ![t] =
                IF left = {} THEN NoOutcome
                ELSE [verdict |-> "paused", requests |-> left, results |-> result]]
      /\ doc' = [doc EXCEPT !.status = "running", !.requests = {},
                               !.decided = [@ EXCEPT ![c] = queue[1].fact]]
      /\ \/ place' = [place EXCEPT ![c] = "executing"]
         \/ place' = [place EXCEPT ![c] = "delivering"]
  BY <1>0, <1>2, DecidedMoves
<1>6. doc'.status = "running" /\ ~Ending'
  <2>1. doc'.status = "running"
    BY <1>5 DEF Shape, Docs
  <2> QED
    BY <2>1 DEF Ending, Terminal
<1>7. Waiting' = left
  BY <1>5 DEF Waiting, Shape
<1> HIDE DEF left
<1>8. /\ task'[t] \in {"looping", "captured"}
      /\ \A u \in Tasks : u # t => task'[u] = task[u] /\ outcome'[u] = outcome[u]
      /\ task'[t] = "captured" =>
           outcome'[t] = [verdict |-> "paused", requests |-> left, results |-> result]
  BY <1>5 DEF Shape
<1>9. \A u \in Tasks : u # t => ~(Leading(u))' /\ (Live(u)' <=> Live(u))
  BY <1>3, <1>8 DEF Leading, Live
<1>10. task'[t] \in {"captured", "pausing"} => (Leads(t))'
  <2>1. CASE task'[t] = "captured"
    <3>1. /\ outcome'[t].verdict = "paused" /\ outcome'[t].requests = left
      BY <1>8, <2>1
    <3> QED
      BY <1>7, <2>1, <3>1 DEF Leads
  <2>2. CASE task'[t] = "looping"
    BY <2>2
  <2> QED
    BY <1>8, <2>1, <2>2
<1>11. ASSUME NEW i \in Positions'
       PROVE  \/ /\ i \in Nat /\ i + 1 \in Positions /\ (queue[i])' = queue[i + 1]
                 /\ queue[i + 1] \in Operations
              \/ (queue[i])'.op = "result"
  BY <1>4, Carried, PositionsAre, LeftOver
<1>12. ASSUME NEW i \in Positions'
       PROVE  /\ (queue[i])'.op # "pause"
              /\ (EndHolds(i))' /\ (SettlementHolds(i))'
  <2>1. CASE (queue[i])'.op = "result"
    BY <2>1 DEF EndHolds, SettlementHolds
  <2>2. CASE /\ i + 1 \in Positions /\ (queue[i])' = queue[i + 1]
             /\ queue[i + 1] \in Operations
    <3>1. /\ PauseHolds(i + 1) /\ EndHolds(i + 1) /\ SettlementHolds(i + 1)
          /\ queue[i + 1].op \in {"pause", "end", "rescue", "reconcile", "fail", "block"}
               => queue[i + 1].task \in Tasks
      BY <2>2, OperationParts DEF TasksHold
    <3>2. queue[i + 1].op # "pause"
      BY <1>3, <3>1 DEF PauseHolds
    <3>3. \A u \in Tasks : Live(u) => u # t
      BY <1>2 DEF Live
    <3>4. EndHolds(i)'
      BY <1>8, <1>9, <2>2, <3>1, <3>3 DEF EndHolds
    <3>5. SettlementHolds(i)'
      BY <1>8, <1>9, <2>2, <3>1, <3>3 DEF SettlementHolds
    <3> QED
      BY <2>2, <3>2, <3>4, <3>5
  <2> QED
    BY <1>11, <2>1, <2>2
<1>13. /\ \A u, w \in Tasks : (Leading(u))' /\ (Leading(w))' => u = w
       /\ ~(Leading(0))'
  BY <1>9, TaskNumbers
<1>14. /\ \A u \in Tasks : task'[u] # "finalizing" \/ task[u] = "finalizing"
       /\ task'[0] = task[0]
  BY <1>8, TaskNumbers
<1>15. /\ \A u \in Tasks : task'[u] = "finalizing" => Ending'
       /\ task'[0] \in {"releasing", "idling"} => Ending'
  BY <1>1, <1>14 DEF TasksHold, Ending, Terminal
<1>16. \A u \in Tasks : task'[u] \in {"captured", "pausing"} => (Leads(u))'
  BY <1>9, <1>10 DEF Leading
<1>17. \A i \in Positions' : (PauseHolds(i))' /\ (EndHolds(i))' /\ (SettlementHolds(i))'
  BY <1>12 DEF PauseHolds
<1>18. \A i, j \in Positions' : (queue[i].op)' = "pause" /\ (queue[j].op)' = "pause" => i = j
  BY <1>12
<1> QED
  BY <1>3, <1>6, <1>13, <1>15, <1>16, <1>17, <1>18 DEF TasksHold

\* Together with the steps that are left: the end of a wait, a cancellation and a stop.
LEMMA TasksHoldStep ==
  ASSUME Shape, TasksHold, CallsHold, Numbered, PauseIsAnswerable, [Next]_vars
  PROVE  TasksHold'
<1>1. ASSUME NEW t \in Tasks \ {0}, LoopEnded(t)
      PROVE  TasksHold'
  <2>1. /\ task[t] = "looping" /\ doc' = doc /\ stopping' = stopping /\ place' = place
        /\ queue' = queue
        /\ task' = [task EXCEPT ![t] = "captured"]
    BY <1>1 DEF LoopEnded
  <2>2. PICK v \in {"cancelled", "failed", "completed"} :
          outcome' = [outcome EXCEPT ![t] =
             [verdict |-> v, requests |-> {}, results |-> result]]
    BY <1>1 DEF LoopEnded
  <2>3. /\ task'[t] = "captured"
        /\ outcome'[t] = [verdict |-> v, requests |-> {}, results |-> result]
        /\ \A u \in Tasks : u # t => task'[u] = task[u] /\ outcome'[u] = outcome[u]
    BY <2>1, <2>2 DEF Shape
  <2>4. outcome'[t].verdict = v /\ outcome'[t].requests = {}
    BY <2>3
  <2>5. (Ending' <=> Ending) /\ Waiting' = Waiting
    BY <2>1 DEF Ending, Waiting
  <2>6. ASSUME NEW u \in Tasks
        PROVE  /\ (Leading(u))' <=> Leading(u)
               /\ Live(u) <=> (Live(u))'
               /\ task'[u] = "finalizing" => task[u] = "finalizing"
               /\ task'[u] \in {"releasing", "idling"} => task[u] \in {"releasing", "idling"}
               /\ task[u] = "pausing" => task'[u] = "pausing"
               /\ outcome'[u] = outcome[u] \/ Leading(u)
               /\ task'[u] \in {"captured", "pausing"} => (Leads(u))'
    <3>1. CASE u = t
      BY <2>1, <2>3, <2>4, <3>1 DEF Leading, Live, Leads
    <3>2. CASE u # t
      <4>1. task[u] \in {"captured", "pausing"} => Leads(u)
        BY DEF TasksHold
      <4> QED
        BY <2>3, <2>5, <3>2, <4>1 DEF Leading, Live, Leads
    <3> QED
      BY <3>1, <3>2
  <2>7. ASSUME NEW i \in Positions, queue[i].op = "pause"
        PROVE  task'[queue[i].task] = "pausing"
    <3>1. queue[i].task \in Tasks /\ task[queue[i].task] = "pausing"
      BY <2>7, LeftOver, OperationParts DEF TasksHold, PauseHolds
    <3> QED
      BY <2>6, <3>1
  <2>8. Carries(queue', 0, {}) /\ \A o : o \in {} => Owed(o, 0)
    BY <2>1, LeftOver, AddingNone
  <2>9. doc.status = "awaiting" => ~stopping
    BY DEF TasksHold
  <2>10. Steady(0, {})
    BY <2>1, <2>5, <2>6, <2>7, <2>8, <2>9, TaskNumbers DEF Steady
  <2> QED
    BY <2>10, SteadyKeeps
<1>2. CASE Cancelled
  <2>1. /\ up /\ queue # <<>> /\ queue' = Rest /\ place' = place /\ outcome' = outcome
    BY <1>2 DEF Cancelled, At
  <2>2. Ending' /\ doc'.status # "awaiting"
    <3>1. doc'.status \in Terminal
      BY <1>2 DEF Cancelled, Shape, Docs, Terminal
    <3> QED
      BY <3>1 DEF Ending, Terminal
  <2>3. Carries(queue', 1, {}) /\ 0 \in Tasks /\ ~Leading(0)
    BY <2>1, LeftOver, AddingNone, TaskNumbers DEF TasksHold
  <2>4. CASE task' = task
    <3>1. Still(1, {})
      BY <2>1, <2>2, <2>3, <2>4 DEF Still
    <3> QED
      BY <3>1, StillKeeps
  <2>5. CASE task' # task
    <3>1. PICK x \in {"releasing", "checking", "idling"} : task' = [task EXCEPT ![0] = x]
      BY <1>2, <2>5 DEF Cancelled
    <3>2. x \in Off
      BY DEF Off, Steps
    <3>3. Kept(0, 1)
      BY <2>1, <2>2, <2>3 DEF Kept
    <3>4. Queued(0, 1, {})
      BY <2>3 DEF Queued
    <3> QED
      BY <2>2, <2>3, <3>1, <3>2, <3>3, <3>4, PartingKeeps
  <2> QED
    BY <2>4, <2>5
<1>3. CASE Crash
  <2>1. /\ Positions' = {} /\ ~stopping'
        /\ \A t \in Tasks : task'[t] = "gone" /\ ~(Leading(t))'
    BY <1>3 DEF Crash, Positions, Leading
  <2> QED
    BY <2>1, TaskNumbers DEF TasksHold
<1> QED
  BY <1>1, <1>2, <1>3, TasksKeep, CleanupKeeps, OperationsKeep, CallsKeep, RestKeeps,
     ResultsKeep, DecidedKeeps DEF Next, Operation, Task

-----------------------------------------------------------------------------
(* Numbered. *)

\* A run that has ended stays ended.
LEMMA EndingStays ==
  ASSUME Shape, TasksHold, [Next]_vars
  PROVE  Ending => Ending'
<1>1. CASE doc' = doc
  BY <1>1 DEF Ending
<1>2. CASE ResultSaved
  <2>1. PICK c \in Calls, v \in Facts : doc' = Recorded(c, v)
    BY <1>2, ResultSavedMoves
  <2> QED
    BY <2>1, RecordedParts DEF Shape, Ending
<1>3. CASE RoundClosed
  BY <1>3 DEF RoundClosed, Shape, Docs, Ending
<1>4. CASE Paused \/ Decided
  BY <1>4 DEF Paused, Decided, CanPause, MayDecide, Ending, Terminal
<1>5. CASE Ended
  BY <1>5, EndedMoves DEF Ending
<1>6. CASE Rescued
  <2>1. PICK c \in Calls, v \in Facts : doc' \in {doc, Recorded(c, v)}
    BY <1>6, RescuedMoves
  <2> QED
    BY <2>1, RecordedParts DEF Shape, Ending
<1>7. CASE Reconciled
  <2>1. CloseFacts(doc) \in Docs /\ CloseFacts(doc).status = doc.status
    BY CloseParts DEF Shape
  <2>2. [CloseFacts(doc) EXCEPT !.round = FALSE].status = doc.status
    BY <2>1 DEF Docs
  <2> QED
    BY <1>7, <2>1, <2>2, ReconciledMoves DEF Ending
<1>8. CASE Cancelled
  BY <1>8 DEF Cancelled, Ending
<1>9. CASE Recover
  <2>1. CloseFacts(doc) \in Docs /\ CloseFacts(doc).status = doc.status
    BY CloseParts DEF Shape
  <2>2. [CloseFacts(doc) EXCEPT !.round = FALSE].status = doc.status
    BY <2>1 DEF Docs
  <2>3. CASE RecoverPause \/ RecoverRunning
    BY <2>3 DEF RecoverPause, RecoverRunning, Ending, Terminal
  <2>4. CASE RecoverFacts \/ RecoverRound
    BY <2>1, <2>2, <2>4 DEF RecoverFacts, RecoverRound, Ending, Shape, Docs
  <2> QED
    BY <1>9, <2>3, <2>4 DEF Recover
<1> QED
  BY <1>1, <1>2, <1>3, <1>4, <1>5, <1>6, <1>7, <1>8, <1>9
     DEF Next, Call, Operation, Task, Cleanup, Ask, Start, Return, Abort, RestOfOffer,
         AskDecide, FinishCalls, Answer, ResultLost, RoundNotClosed, NotPaused, NotEnded,
         NotDecided, NotCancelled, LoopEnded, Remember, Released, Catch, Finalized, Revoke,
         CleanupReleased, CleanupIdle, CleanupSettles, AskCancel, Crash, Recovered, vars

\* Nobody who was not there comes to be there.
SameLive == \A u \in Tasks \ {0} : (Live(u))' <=> Live(u)

\* A task that moves was there.
LEMMA MovesLive ==
  ASSUME Shape, NEW t \in Tasks, t = 0 \/ Live(t), NEW k
  PROVE  /\ \A x : x # "unborn" /\ task' = [task EXCEPT ![t] = x] => SameLive
         /\ \A list : Settles(t, list, k) => SameLive
         /\ \A x, S : x # "unborn" /\ Goes(t, x, k, S) => SameLive
<1>1. ASSUME NEW x, x # "unborn", task' = [task EXCEPT ![t] = x]
      PROVE  SameLive
  BY <1>1 DEF Shape, SameLive, Live
<1>2. ASSUME NEW list, Settles(t, list, k)
      PROVE  SameLive
  <2>1. PICK x \in Settled : task' = [task EXCEPT ![t] = x]
    BY <1>2 DEF Settles, Moves
  <2> QED
    BY <1>1, <2>1 DEF Settled
<1>3. ASSUME NEW x, NEW S, x # "unborn", Goes(t, x, k, S)
      PROVE  SameLive
  BY <1>1, <1>3 DEF Goes, Moves
<1> QED
  BY <1>1, <1>2, <1>3

\* So it is with every step but a decision, a stop, and those of an ended run.
LEMMA SameLiveTasks ==
  ASSUME Shape, TasksHold,
         \/ \E t \in Tasks \ {0} : Task(t)
         \/ \E t \in Tasks : Revoke(t)
         \/ Cleanup
  PROVE  SameLive
<1>1. ASSUME NEW t \in Tasks, Remember(t)
      PROVE  SameLive
  <2>1. Live(t)
    BY <1>1, RememberMoves DEF Live
  <2> QED
    BY <1>1, <2>1, RememberMoves, MovesLive
<1>2. ASSUME NEW t \in Tasks, Released(t)
      PROVE  SameLive
  <2>1. Live(t)
    BY <1>2, ReleasedMoves DEF Live
  <2> QED
    BY <1>2, <2>1, ReleasedMoves, MovesLive
<1>3. ASSUME NEW t \in Tasks, Catch(t)
      PROVE  SameLive
  <2>1. Live(t)
    BY <1>3, CatchMoves DEF Live
  <2> QED
    BY <1>3, <2>1, CatchMoves, MovesLive
<1>4. ASSUME NEW t \in Tasks, Finalized(t) \/ Revoke(t)
      PROVE  SameLive
  <2>1. Live(t)
    BY <1>4, FinalizedMoves, RevokeMoves DEF Live
  <2> QED
    BY <1>4, <2>1, FinalizedMoves, RevokeMoves, MovesLive
<1>5. ASSUME NEW t \in Tasks, LoopEnded(t)
      PROVE  SameLive
  <2>1. Live(t) /\ task' = [task EXCEPT ![t] = "captured"]
    BY <1>5 DEF LoopEnded, Live
  <2> QED
    BY <2>1, MovesLive
<1>6. CASE CleanupReleased
  BY <1>6, CleanupReleasedMoves, MovesLive, TaskNumbers
<1>7. CASE CleanupSettles
  BY <1>7, CleanupSettlesMoves, MovesLive, TaskNumbers
<1>8. CASE CleanupIdle
  <2>1. PICK x \in {"finalizing", "cleaned"} : task' = [task EXCEPT ![0] = x]
    BY <1>8 DEF CleanupIdle
  <2> QED
    BY <2>1, MovesLive, TaskNumbers
<1> QED
  BY <1>1, <1>2, <1>3, <1>4, <1>5, <1>6, <1>7, <1>8 DEF Task, Cleanup

\* So it is with the operations a task waits for.
LEMMA SameLiveOperations ==
  ASSUME Shape, TasksHold, Paused \/ NotPaused \/ NotEnded \/ Rescued \/ Reconciled
  PROVE  SameLive
<1>1. ASSUME NEW x \in {"pause", "end", "fail", "block", "rescue", "reconcile"}, At(x)
      PROVE  queue[1].task \in Tasks /\ (queue[1].task = 0 \/ Live(queue[1].task))
  <2>1. 1 \in Positions /\ queue[1].op = x /\ queue[1].task \in Tasks
    BY <1>1, AtWork, OperationParts
  <2>2. PauseHolds(1) /\ EndHolds(1) /\ SettlementHolds(1)
    BY <2>1 DEF TasksHold
  <2> QED
    BY <2>1, <2>2 DEF PauseHolds, EndHolds, SettlementHolds, Live
<1>2. CASE Paused
  <2>0. PICK t \in Tasks : t = queue[1].task
    BY <1>2, PausedMoves
  <2>1. At("pause") /\ Settles(t, accepted', 1)
    BY <1>2, <2>0, PausedMoves
  <2> QED
    BY <1>1, <2>0, <2>1, MovesLive
<1>3. CASE NotPaused
  <2>0. PICK t \in Tasks : t = queue[1].task
    BY <1>3, NotPausedMoves
  <2>1. At("pause") /\ Goes(t, "releasing", 1, {})
    BY <1>3, <2>0, NotPausedMoves
  <2> QED
    BY <1>1, <2>0, <2>1, MovesLive
<1>4. CASE NotEnded
  <2>0. PICK t \in Tasks : t = queue[1].task
    BY <1>4, NotEndedMoves
  <2>1. /\ IsEnd
        /\ \/ Goes(t, "blocking", 1, {[op |-> "block", task |-> t]})
           \/ Goes(t, "stopped", 1, {})
           \/ Settles(t, accepted, 1)
    BY <1>4, <2>0, NotEndedMoves
  <2>2. t = 0 \/ Live(t)
    BY <1>1, <2>0, <2>1 DEF IsEnd
  <2> QED
    BY <2>1, <2>2, MovesLive
<1>5. CASE Rescued
  <2>0. PICK t \in Tasks : t = queue[1].task
    BY <1>5, RescuedMoves
  <2>1. PICK list : At("rescue") /\ Settles(t, list, 1)
    BY <1>5, <2>0, RescuedMoves
  <2> QED
    BY <1>1, <2>0, <2>1, MovesLive
<1>6. CASE Reconciled
  <2>0. PICK t \in Tasks : t = queue[1].task
    BY <1>6, ReconciledMoves
  <2>1. At("reconcile") /\ Goes(t, "gone", 1, {})
    BY <1>6, <2>0, ReconciledMoves
  <2> QED
    BY <1>1, <2>0, <2>1, MovesLive
<1> QED
  BY <1>2, <1>3, <1>4, <1>5, <1>6

\* A decision takes the next number.
LEMMA NumberedStep ==
  ASSUME Shape, TasksHold, CallsHold, Numbered, PauseIsAnswerable, [Next]_vars
  PROVE  Numbered'
<1>1. SUFFICES ASSUME up', ~Ending'
               PROVE  /\ (Live(1))'
                      /\ \A t \in Tasks :
                           t >= 2 => ((Live(t))' <=> t <= 1 + (Cardinality(DecidedCalls))')
  BY DEF Numbered
<1>2. ~Ending
  BY <1>1, EndingStays
<1>3. ASSUME up' = up, SameLive, doc'.decided = doc.decided
      PROVE  /\ (Live(1))'
             /\ \A t \in Tasks :
                  t >= 2 => ((Live(t))' <=> t <= 1 + (Cardinality(DecidedCalls))')
  <2>1. (DecidedCalls)' = DecidedCalls
    BY <1>3 DEF DecidedCalls
  <2>2. \A t \in Tasks : t >= 1 => ((Live(t))' <=> Live(t))
    BY <1>3, TaskNumbers DEF SameLive
  <2>3. /\ Live(1)
        /\ \A t \in Tasks : t >= 2 => (Live(t) <=> t <= 1 + Cardinality(DecidedCalls))
    BY <1>1, <1>2, <1>3 DEF Numbered
  <2>4. (Cardinality(DecidedCalls))' = Cardinality(DecidedCalls)
    BY <2>1
  <2>5. (Live(1))'
    BY <2>2, <2>3, TaskNumbers
  <2>6. ASSUME NEW t \in Tasks, t >= 2
        PROVE  (Live(t))' <=> t <= 1 + (Cardinality(DecidedCalls))'
    <3>1. t >= 1
      BY <2>6, TaskNumbers
    <3> QED
      BY <2>2, <2>3, <2>4, <2>6, <3>1
  <2> QED
    BY <2>5, <2>6
<1>4. task' = task => SameLive
  BY DEF SameLive, Live
<1>5. ASSUME NEW c \in Calls, Call(c) \/ AskDecide(c)
      PROVE  up' = up /\ task' = task /\ doc' = doc
  BY <1>5 DEF Call, AskDecide, Ask, Start, Return, Abort, RestOfOffer
<1>6. CASE \/ FinishCalls \/ Answer \/ RoundClosed \/ RoundNotClosed \/ NotDecided
           \/ NotCancelled \/ AskCancel \/ Recover \/ UNCHANGED vars
  <2>1. up' = up /\ task' = task
    BY <1>6 DEF FinishCalls, Answer, RoundClosed, RoundNotClosed, NotDecided,
         NotCancelled, AskCancel, Recover, vars
  <2>2. doc'.decided = doc.decided
    BY <1>6, QuietOperations DEF Quiet
  <2> QED
    BY <1>3, <1>4, <2>1, <2>2
<1>7. CASE Recovered \/ Crash \/ Cancelled \/ Ended
  <2>1. CASE Ended
    BY <1>1, <2>1, EndedMoves DEF Ending
  <2>2. CASE Cancelled
    <3>1. doc'.status \in Terminal
      BY <2>2 DEF Cancelled, Shape, Docs, Terminal
    <3> QED
      BY <1>1, <3>1 DEF Ending
  <2> QED
    BY <1>1, <1>7, <2>1, <2>2 DEF Recovered, Crash, Ending
<1>8. CASE \/ \E t \in Tasks \ {0} : Task(t)
           \/ \E t \in Tasks : Revoke(t)
           \/ Cleanup
  <2>1. SameLive
    BY <1>8, SameLiveTasks
  <2>2. up' = up
    BY <1>8 DEF Task, Cleanup, LoopEnded, Remember, Released, Catch, Finalized, Revoke,
                CleanupReleased, CleanupIdle, CleanupSettles
  <2>3. doc'.decided = doc.decided
    BY <1>8, QuietTasks, QuietOperations DEF Quiet, Task
  <2> QED
    BY <1>3, <2>1, <2>2, <2>3
<1>9. CASE Paused \/ NotPaused \/ NotEnded \/ Rescued \/ Reconciled
  <2>1. SameLive
    BY <1>9, SameLiveOperations
  <2>2. up' = up
    BY <1>9 DEF Paused, NotPaused, NotEnded, Rescued, Reconciled
  <2>3. doc'.decided = doc.decided
    BY <1>9, QuietOperations DEF Quiet
  <2> QED
    BY <1>3, <2>1, <2>2, <2>3
<1>10. CASE ResultSaved \/ ResultLost
  <2>1. up' = up
    BY <1>10 DEF ResultSaved, ResultLost
  <2>2. doc'.decided = doc.decided
    <3>1. CASE ResultSaved
      <4>1. PICK c \in Calls, v \in Facts : doc' = Recorded(c, v)
        BY <3>1, ResultSavedMoves
      <4> QED
        BY <4>1, RecordedParts DEF Shape
    <3>2. CASE ResultLost
      BY <3>2 DEF ResultLost
    <3> QED
      BY <1>10, <3>1, <3>2
  <2>3. SameLive
    <3>1. CASE task' = task
      BY <1>4, <3>1
    <3>2. CASE task' = [t \in Tasks |-> IF task[t] = "looping" THEN "captured" ELSE task[t]]
      BY <3>2 DEF SameLive, Live
    <3> QED
      BY <1>10, <3>1, <3>2, ResultSavedMoves DEF ResultLost
  <2> QED
    BY <1>3, <2>1, <2>2, <2>3
<1>11. CASE Decided
  <2>0. PICK c \in Calls : c = queue[1].call
    BY <1>11, DecidedMoves
  <2>1. up /\ MayDecide(c)
    BY <1>11, <2>0, DecidedMoves, AtWork
  <2> DEFINE n == Cardinality(DecidedCalls)
  <2>2. /\ NextTask = n + 2 /\ n + 2 \in Tasks /\ n \in Nat
        /\ c \notin DecidedCalls /\ IsFiniteSet(DecidedCalls)
    BY <2>1, NextTaskIs
  <2>3. (DecidedCalls)' = DecidedCalls \cup {c}
    <3>1. PICK v \in {"approved", "denied"} :
            doc' = [doc EXCEPT !.status = "running", !.requests = {},
                               !.decided = [@ EXCEPT ![c] = v]]
      BY <1>11, <2>0, DecidedMoves
    <3>2. doc'.decided = [doc.decided EXCEPT ![c] = v]
      BY <3>1 DEF Shape, Docs
    <3>3. doc.decided \in [Calls -> {"none", "approved", "denied"}]
      BY DocParts DEF Shape
    <3> QED
      BY <3>2, <3>3 DEF DecidedCalls
  <2>4. Cardinality(DecidedCalls \cup {c}) = n + 1
    BY <2>2, FS_AddElement
  <2>5. (Cardinality(DecidedCalls))' = n + 1
    BY <2>3, <2>4
  <2> HIDE DEF n
  <2>6. PICK x \in {"looping", "captured"} : task' = [task EXCEPT ![n + 2] = x]
    BY <1>11, <2>2, DecidedMoves
  <2>7. \A t \in Tasks : (Live(t))' <=> (t = n + 2 \/ Live(t))
    BY <2>2, <2>6 DEF Shape, Live
  <2>8. /\ Live(1) /\ \A t \in Tasks : t >= 2 => (Live(t) <=> t <= 1 + n)
    BY <1>2, <2>1 DEF Numbered, n
  <2>9. ASSUME NEW t \in Tasks, t >= 2
        PROVE  (Live(t))' <=> t <= 1 + (n + 1)
    <3>1. t \in Nat
      BY TaskNumbers
    <3>2. t <= 1 + (n + 1) <=> t = n + 2 \/ t <= 1 + n
      BY <2>2, <3>1
    <3> QED
      BY <2>7, <2>8, <2>9, <3>2
  <2>10. (Live(1))'
    BY <2>7, <2>8, TaskNumbers
  <2> QED
    BY <2>5, <2>9, <2>10
<1> QED
  BY <1>3, <1>4, <1>5, <1>6, <1>7, <1>8, <1>9, <1>10, <1>11 DEF Next, Operation

-----------------------------------------------------------------------------
(* Refusing. *)

\* What may be written down of call c in a step: no refusal, or one that was known or
\* one of a call that is barred from now on.
Known(c, v) == v \in Refusals => Refused(c) \/ (Barred(c))'
AllKnown(f) == \A c \in Calls : Known(c, f[c])
Tells(k, S) ==
  /\ Carries(queue', k, S)
  /\ AllKnown(doc'.fact) /\ AllKnown(result') /\ AllKnown(accepted')
  /\ \A t \in Tasks : AllKnown(outcome'[t].results) /\ AllKnown(todo'[t])
  /\ \A o : o \in S => (o.op \in {"result", "rescue"} => Known(o.call, o.fact))

\* What is written down already is known.
LEMMA KnownAlready ==
  ASSUME Shape
  PROVE  /\ AllKnown(doc.fact) /\ AllKnown(result) /\ AllKnown(accepted)
         /\ \A t \in Tasks : AllKnown(outcome[t].results) /\ AllKnown(todo[t])
         /\ \A i \in Positions : queue[i].op \in {"result", "rescue"}
              => Known(queue[i].call, queue[i].fact)
         /\ AllKnown(Nothing)
  BY DEF AllKnown, Known, Refused, Nothing, Refusals

\* Forgetting, merging, closing and recording add nothing to it.
LEMMA KnownStays ==
  /\ \A acc, f, g : AllKnown(acc) => AllKnown(Forget(acc, f, g))
  /\ \A f, g : AllKnown(f) /\ AllKnown(g) => AllKnown(Merge(f, g))
<1>1. ASSUME NEW acc, NEW f, NEW g, AllKnown(acc)
      PROVE  AllKnown(Forget(acc, f, g))
  <2>1. \A c \in Calls : Forget(acc, f, g)[c] \in {"none", acc[c]}
    BY DEF Forget
  <2> QED
    BY <1>1, <2>1 DEF AllKnown, Known, Refusals
<1>2. ASSUME NEW f, NEW g, AllKnown(f), AllKnown(g)
      PROVE  AllKnown(Merge(f, g))
  <2>1. \A c \in Calls : Merge(f, g)[c] \in {f[c], g[c]}
    BY DEF Merge
  <2> QED
    BY <1>2, <2>1 DEF AllKnown, Known
<1> QED
  BY <1>1, <1>2

\* So with the documents that closing and recording make.
LEMMA KnownDocs ==
  ASSUME Shape
  PROVE  /\ \A e \in {CloseAsked(doc), CloseFacts(doc)} : AllKnown(e.fact)
         /\ \A c \in Calls, v \in Facts : Known(c, v) => AllKnown(Recorded(c, v).fact)
<1>1. ASSUME NEW e \in {CloseAsked(doc), CloseFacts(doc)}
      PROVE  AllKnown(e.fact)
  <2>1. \A c \in Calls : e.fact[c] = doc.fact[c] \/ e.fact[c] \in {"unknown", "lost"}
    BY CloseParts DEF Shape
  <2> QED
    BY <2>1, KnownAlready DEF AllKnown, Known, Refusals
<1>2. ASSUME NEW c \in Calls, NEW v \in Facts, Known(c, v)
      PROVE  AllKnown(Recorded(c, v).fact)
  <2>1. \A b \in Calls : \/ Recorded(c, v).fact[b] = doc.fact[b]
                         \/ b = c /\ Recorded(c, v).fact[b] = v
    BY RecordedParts DEF Shape
  <2> QED
    BY <1>2, <2>1, KnownAlready DEF AllKnown
<1> QED
  BY <1>1, <1>2

\* A call that is barred stays so.
LEMMA BarredStays ==
  ASSUME Shape, TasksHold, CallsHold, PauseIsAnswerable, [Next]_vars, NEW c \in Calls,
         Barred(c)
  PROVE  (Barred(c))'
<1>1. ASSUME place' = place, executed' = executed
      PROVE  (Barred(c))'
  BY <1>1 DEF Barred
<1>2. ASSUME NEW b \in Calls, place[b] \notin {"delivering", "closed"},
             \E p : place' = [place EXCEPT ![b] = p],
             executed' \in {executed, executed \cup {b}}
      PROVE  (Barred(c))'
  <2>1. b # c
    BY <1>2 DEF Barred
  <2>2. place'[c] = place[c]
    BY <1>2, <2>1 DEF Shape
  <2> QED
    BY <1>2, <2>1, <2>2 DEF Barred
<1>3. ASSUME NEW b \in Calls, Call(b) \/ AskDecide(b)
      PROVE  (Barred(c))'
  <2>1. CASE Ask(b)
    BY <1>2, <2>1, AskMoves
  <2>2. CASE Start(b)
    BY <1>2, <2>2 DEF Start
  <2>3. CASE Return(b)
    <3>1. /\ place[b] = "executing" /\ executed' = executed
          /\ \E p : place' = [place EXCEPT ![b] = p]
      BY <2>3, ReturnMoves
    <3> QED
      BY <1>2, <3>1
  <2>4. CASE Abort(b)
    <3>1. /\ place[b] \in {"called", "waiting"} /\ executed' = executed
          /\ place' = [place EXCEPT ![b] = "delivering"]
      BY <2>4, AbortMoves
    <3> QED
      BY <1>2, <3>1
  <2>5. CASE AskDecide(b)
    BY <1>1, <2>5 DEF AskDecide
  <2> QED
    BY <1>3, <2>1, <2>2, <2>3, <2>4, <2>5 DEF Call
<1>4. CASE ResultSaved \/ ResultLost
  <2>0. PICK b \in Calls : b = queue[1].call
    BY <1>4, ResultSavedMoves, ResultLostMoves
  <2>1. /\ At("result") /\ executed' = executed
        /\ place[b] = IF queue[1].fact = "asked" THEN "asking" ELSE "delivering"
    BY <1>4, <2>0, ResultAtWork DEF ResultSaved, ResultLost
  <2>2. CASE queue[1].fact = "asked"
    <3>1. \E p : place' = [place EXCEPT ![b] = p]
      BY <1>4, <2>0, ResultSavedMoves, ResultLostMoves
    <3> QED
      BY <1>2, <2>1, <2>2, <3>1
  <2>3. CASE queue[1].fact # "asked"
    <3>1. place' = [place EXCEPT ![b] = "closed"]
      BY <1>4, <2>0, <2>3, ResultSavedMoves, ResultLostMoves
    <3> QED
      BY <2>1, <3>1 DEF Barred, Shape
  <2> QED
    BY <2>2, <2>3
<1>5. CASE Decided
  <2>0. PICK b \in Calls : b = queue[1].call
    BY <1>5, DecidedMoves
  <2>1. /\ up /\ MayDecide(b)
        /\ executed' \in {executed, executed \cup {b}}
        /\ \E p : place' = [place EXCEPT ![b] = p]
    BY <1>5, <2>0, DecidedMoves, AtWork
  <2>2. place[b] = "waiting"
    BY <2>1 DEF MayDecide, PauseIsAnswerable, Waiting
  <2> QED
    BY <1>2, <2>1, <2>2
<1>6. CASE Crash
  BY <1>6 DEF Crash, Barred
<1> QED
  BY <1>1, <1>3, <1>4, <1>5, <1>6, QuietTasks, QuietOperations
     DEF Quiet, Next, Operation, Task

\* A step that writes down what is known only keeps Refusing.
LEMMA TellsKeeps ==
  ASSUME Shape, Refusing, NEW k \in {0, 1}, NEW S, Tells(k, S),
         \A c \in Calls : Barred(c) => (Barred(c))'
  PROVE  Refusing'
<1>1. \A c \in Calls, v \in Refusals : Known(c, v) => (Barred(c))'
  BY DEF Known, Refusing
<1>2. SUFFICES ASSUME NEW c \in Calls, (Refused(c))'
               PROVE  (Barred(c))'
  BY DEF Refusing
<1>3. CASE \/ doc'.fact[c] \in Refusals \/ result'[c] \in Refusals \/ accepted'[c] \in Refusals
           \/ \E t \in Tasks : outcome'[t].results[c] \in Refusals \/ todo'[t][c] \in Refusals
  BY <1>1, <1>3 DEF Tells, AllKnown
<1>4. ASSUME NEW i \in Positions', (queue[i])'.op \in {"result", "rescue"},
             (queue[i])'.call = c, (queue[i])'.fact \in Refusals
      PROVE  (Barred(c))'
  <2>0. Carries(queue', k, S)
    BY DEF Tells
  <2>1. CASE i + k \in Positions /\ (queue[i])' = queue[i + k]
    BY <1>1, <1>4, <2>1, KnownAlready
  <2>2. CASE (queue[i])' \in S
    <3>1. PICK o : o = (queue[i])' /\ o \in S
      BY <2>2
    <3>2. o.op \in {"result", "rescue"} => Known(o.call, o.fact)
      BY <3>1 DEF Tells
    <3> QED
      BY <1>1, <1>4, <3>1, <3>2
  <2> QED
    BY <2>0, <2>1, <2>2, Carried
<1> QED
  BY <1>2, <1>3, <1>4 DEF Refused

\* A step of a task, when all else it writes down is known.
TellsRest ==
  /\ AllKnown(doc'.fact) /\ AllKnown(result') /\ AllKnown(accepted')
  /\ \A t \in Tasks : AllKnown(outcome'[t].results)

\* Such a step keeps Refusing.
LEMMA TellsMoves ==
  ASSUME Shape, Refusing, NEW t \in Tasks, NEW k \in {0, 1}, TellsRest,
         \A c \in Calls : Barred(c) => (Barred(c))'
  PROVE  /\ \A list : Settles(t, list, k) /\ AllKnown(list) => Refusing'
         /\ \A x, S : Goes(t, x, k, S) /\ (\A o : o \in S => o.op \notin {"result", "rescue"})
              => Refusing'
<1>1. ASSUME NEW list, Settles(t, list, k), AllKnown(list)
      PROVE  Refusing'
  <2>1. /\ Carries(queue', k, Settling(t, list)) /\ todo' = [todo EXCEPT ![t] = list]
    BY <1>1 DEF Settles, Moves
  <2>2. \A u \in Tasks : todo'[u] \in {todo[u], list}
    BY <2>1 DEF Shape
  <2>3. \A u \in Tasks : AllKnown(todo'[u])
    BY <1>1, <2>2, KnownAlready
  <2>4. ASSUME NEW o \in Settling(t, list), o.op \in {"result", "rescue"}
        PROVE  Known(o.call, o.fact)
    <3>1. o \in Operations /\ o.fact = list[o.call]
      BY <2>4 DEF Settling
    <3>2. o.call \in Calls
      BY <2>4, <3>1, OperationParts
    <3> QED
      BY <1>1, <3>1, <3>2 DEF AllKnown
  <2>5. Tells(k, Settling(t, list))
    BY <2>1, <2>3, <2>4 DEF Tells, TellsRest
  <2> QED
    BY <2>5, TellsKeeps
<1>2. ASSUME NEW x, NEW S, Goes(t, x, k, S), \A o : o \in S => o.op \notin {"result", "rescue"}
      PROVE  Refusing'
  <2>1. /\ Carries(queue', k, S) /\ todo' = todo
    BY <1>2 DEF Goes, Moves
  <2>2. \A u \in Tasks : AllKnown(todo'[u])
    BY <2>1, KnownAlready
  <2>3. Tells(k, S)
    BY <1>2, <2>1, <2>2 DEF Tells, TellsRest
  <2> QED
    BY <2>3, TellsKeeps
<1> QED
  BY <1>1, <1>2

\* Operations that say nothing of a call.
LEMMA SayNothing ==
  /\ \A o : o \in {} => o.op \notin {"result", "rescue"}
  /\ \A x, t : x \notin {"result", "rescue"} =>
       \A o : o \in {[op |-> x, task |-> t]} => o.op \notin {"result", "rescue"}
  OBVIOUS

\* The tasks outside the lock pass on what the loop or an outcome says.
LEMMA RefusingTasks ==
  ASSUME Shape, Refusing, NEW t \in Tasks,
         Remember(t) \/ Released(t) \/ Catch(t) \/ Finalized(t) \/ Revoke(t) \/ LoopEnded(t),
         \A c \in Calls : Barred(c) => (Barred(c))'
  PROVE  Refusing'
<1>0. doc' = doc /\ result' = result
  BY DEF Remember, Released, Catch, Finalized, Revoke, LoopEnded
<1>1. ASSUME outcome' = outcome, AllKnown(accepted')
      PROVE  TellsRest
  BY <1>0, <1>1, KnownAlready DEF TellsRest
<1>2. CASE Remember(t)
  <2>1. AllKnown(accepted') /\ outcome' = outcome
    <3>1. AllKnown(Merge(accepted, outcome[t].results))
      BY KnownAlready, KnownStays
    <3> QED
      BY <1>2, <3>1, RememberMoves, KnownAlready DEF Remember
  <2>2. AllKnown(Forget(accepted', doc.fact, outcome[t].results)) /\ TellsRest
    BY <1>1, <2>1, KnownStays
  <2> QED
    BY <1>2, <2>2, RememberMoves, TellsMoves, SayNothing
<1>3. CASE Released(t)
  <2>1. AllKnown(accepted') /\ outcome' = outcome
    <3>1. AllKnown(Forget(accepted, doc.fact, outcome[t].results))
      BY KnownAlready, KnownStays
    <3> QED
      BY <1>3, <3>1, ReleasedMoves, KnownAlready DEF Released
  <2>2. TellsRest
    BY <1>1, <2>1
  <2> QED
    BY <1>3, <2>1, <2>2, ReleasedMoves, TellsMoves, SayNothing
<1>4. CASE Catch(t)
  <2>1. accepted' = accepted /\ outcome' = outcome /\ AllKnown(accepted)
    BY <1>4, KnownAlready DEF Catch
  <2>2. TellsRest
    BY <1>1, <2>1
  <2> QED
    BY <1>4, <2>1, <2>2, CatchMoves, TellsMoves, SayNothing
<1>5. CASE Finalized(t)
  <2>1. AllKnown(accepted') /\ outcome' = outcome
    <3>1. AllKnown(Forget(accepted, doc.fact, outcome[t].results))
      BY KnownAlready, KnownStays
    <3> QED
      BY <1>5, <3>1, FinalizedMoves DEF Finalized
  <2>2. TellsRest
    BY <1>1, <2>1
  <2> QED
    BY <1>5, <2>1, <2>2, FinalizedMoves, TellsMoves
<1>6. CASE Revoke(t)
  <2>1. accepted' = accepted /\ outcome' = outcome /\ AllKnown(accepted)
    BY <1>6, KnownAlready DEF Revoke
  <2>2. TellsRest
    BY <1>1, <2>1
  <2> QED
    BY <1>6, <2>2, RevokeMoves, TellsMoves, SayNothing
<1>7. CASE LoopEnded(t)
  <2>1. PICK v \in {"cancelled", "failed", "completed"} :
          outcome' = [outcome EXCEPT ![t] =
             [verdict |-> v, requests |-> {}, results |-> result]]
    BY <1>7 DEF LoopEnded
  <2>2. \A u \in Tasks : outcome'[u].results \in {outcome[u].results, result}
    BY <2>1 DEF Shape
  <2>3. /\ accepted' = accepted /\ todo' = todo /\ Carries(queue', 0, {})
    BY <1>7, LeftOver, AddingNone DEF LoopEnded
  <2>4. \A u \in Tasks : AllKnown(outcome'[u].results)
    BY <2>2, KnownAlready
  <2>5. Tells(0, {})
    BY <1>0, <2>3, <2>4, KnownAlready DEF Tells
  <2> QED
    BY <2>5, TellsKeeps
<1> QED
  BY <1>2, <1>3, <1>4, <1>5, <1>6, <1>7

\* So do their operations on the document.
LEMMA RefusingOperations ==
  ASSUME Shape, Refusing, TasksHold,
         Paused \/ NotPaused \/ Ended \/ NotEnded \/ Rescued \/ Reconciled,
         \A c \in Calls : Barred(c) => (Barred(c))'
  PROVE  Refusing'
<1>0. result' = result
  BY DEF Paused, NotPaused, Ended, NotEnded, Rescued, Reconciled
<1>1. ASSUME \A u \in Tasks : outcome'[u].results = outcome[u].results,
             AllKnown(accepted'), AllKnown(doc'.fact)
      PROVE  TellsRest
  BY <1>0, <1>1, KnownAlready DEF TellsRest
<1>2. CASE Paused
  <2>0. PICK t \in Tasks : t = queue[1].task
    BY <1>2, PausedMoves
  <2>1. /\ doc' = [doc EXCEPT !.status = "awaiting", !.requests = outcome[t].requests,
                               !.fact = PauseFacts(t)]
        /\ accepted' = Forget(accepted, doc'.fact, outcome[t].results)
        /\ Settles(t, accepted', 1)
    BY <1>2, <2>0, PausedMoves
  <2>2. doc'.fact = Merge(doc.fact, outcome[t].results) /\ outcome' = outcome
    BY <1>2, <2>1 DEF Paused, Shape, Docs, PauseFacts
  <2>3. AllKnown(doc'.fact) /\ AllKnown(accepted')
    BY <2>1, <2>2, KnownAlready, KnownStays
  <2>4. TellsRest
    BY <1>1, <2>2, <2>3
  <2> QED
    BY <2>1, <2>3, <2>4, TellsMoves
<1>3. CASE NotPaused
  <2>0. PICK t \in Tasks : t = queue[1].task
    BY <1>3, NotPausedMoves
  <2>1. /\ Goes(t, "releasing", 1, {})
        /\ \A u \in Tasks : outcome'[u].results = outcome[u].results
    BY <1>3, <2>0, NotPausedMoves
  <2>2. TellsRest
    BY <1>1, <1>3, <2>1, KnownAlready DEF NotPaused
  <2> QED
    BY <2>1, <2>2, TellsMoves, SayNothing
<1>4. CASE Ended
  <2>0. PICK t \in Tasks : t = queue[1].task
    BY <1>4, EndedMoves
  <2>1. /\ doc' = [doc EXCEPT !.status = doc'.status, !.requests = {},
                               !.fact = Merge(@, outcome[t].results)]
        /\ Goes(t, "finalizing", 1, {})
    BY <1>4, <2>0, EndedMoves
  <2>2. doc'.fact = Merge(doc.fact, outcome[t].results)
    BY <2>1 DEF Shape, Docs
  <2>3. AllKnown(doc'.fact) /\ accepted' = accepted /\ outcome' = outcome
    BY <1>4, <2>2, KnownAlready, KnownStays DEF Ended
  <2>4. TellsRest
    BY <1>1, <2>3, KnownAlready
  <2> QED
    BY <2>1, <2>4, TellsMoves, SayNothing
<1>5. CASE NotEnded
  <2>0. PICK t \in Tasks : t = queue[1].task
    BY <1>5, NotEndedMoves
  <2>1. /\ \/ Goes(t, "blocking", 1, {[op |-> "block", task |-> t]})
           \/ Goes(t, "stopped", 1, {})
           \/ Settles(t, accepted, 1)
    BY <1>5, <2>0, NotEndedMoves
  <2>2. TellsRest /\ AllKnown(accepted)
    BY <1>1, <1>5, KnownAlready DEF NotEnded
  <2> QED
    BY <2>1, <2>2, TellsMoves, SayNothing
<1>6. CASE Rescued
  <2>0. PICK t \in Tasks : t = queue[1].task
    BY <1>6, RescuedMoves
  <2>1. PICK c \in Calls : c = queue[1].call
    BY <1>6, RescuedMoves
  <2>2. PICK v \in Facts : v = queue[1].fact
    BY <1>6, RescuedMoves
  <2>3. /\ At("rescue") /\ doc' \in {doc, Recorded(c, v)}
        /\ accepted' \in {accepted, Forget(accepted, doc'.fact, [Nothing EXCEPT ![c] = v])}
        /\ Settles(t, [todo[t] EXCEPT ![c] = "none"], 1)
    BY <1>6, <2>0, <2>1, <2>2, RescuedMoves
  <2>4. Known(c, v)
    BY <2>1, <2>2, <2>3, AtWork, KnownAlready
  <2>5. AllKnown(doc'.fact)
    BY <2>3, <2>4, KnownAlready, KnownDocs
  <2>6. AllKnown(accepted')
    BY <2>3, KnownAlready, KnownStays
  <2>7. AllKnown([todo[t] EXCEPT ![c] = "none"])
    <3>1. \A b \in Calls : [todo[t] EXCEPT ![c] = "none"][b] \in {todo[t][b], "none"}
      BY DEF Shape
    <3>2. AllKnown(todo[t])
      BY KnownAlready
    <3> QED
      BY <3>1, <3>2 DEF AllKnown, Known, Refusals
  <2>8. TellsRest
    BY <1>1, <1>6, <2>5, <2>6 DEF Rescued
  <2> QED
    BY <2>3, <2>7, <2>8, TellsMoves
<1>7. CASE Reconciled
  <2>0. PICK t \in Tasks : t = queue[1].task
    BY <1>7, ReconciledMoves
  <2>1. /\ Goes(t, "gone", 1, {}) /\ accepted' \in {accepted, Nothing}
        /\ doc' \in {doc, CloseFacts(doc), [CloseFacts(doc) EXCEPT !.round = FALSE]}
    BY <1>7, <2>0, ReconciledMoves
  <2>2. AllKnown(doc'.fact)
    <3>1. CloseFacts(doc) \in Docs
      BY CloseParts DEF Shape
    <3>2. [CloseFacts(doc) EXCEPT !.round = FALSE].fact = CloseFacts(doc).fact
      BY <3>1 DEF Docs
    <3> QED
      BY <2>1, <3>2, KnownAlready, KnownDocs
  <2>3. TellsRest
    BY <1>1, <1>7, <2>1, <2>2, KnownAlready DEF Reconciled
  <2> QED
    BY <2>1, <2>3, TellsMoves, SayNothing
<1> QED
  BY <1>2, <1>3, <1>4, <1>5, <1>6, <1>7

\* A step of a call records, remembers and queues one result.
LEMMA TellsCall ==
  ASSUME Shape, Refusing, CallsHold, NEW c \in Calls, NEW v, NEW k \in {0, 1}, NEW S,
         v \in Refusals => (Barred(c))',
         result' \in {result, [result EXCEPT ![c] = v]},
         NEW acc \in [Calls -> Facts], AllKnown(acc),
         accepted' \in {acc, [acc EXCEPT ![c] = v]},
         AllKnown(doc'.fact), todo' = todo,
         \A u \in Tasks : AllKnown(outcome'[u].results),
         Carries(queue', k, S), \A o : o \in S => o = ResultOp(c, v),
         \A b \in Calls : Barred(b) => (Barred(b))'
  PROVE  Refusing'
<1>1. Known(c, v)
  BY DEF Known
<1>2. AllKnown(result') /\ AllKnown(accepted')
  <2>1. ASSUME NEW f \in [Calls -> Facts], AllKnown(f)
        PROVE  AllKnown([f EXCEPT ![c] = v])
    BY <1>1, <2>1 DEF AllKnown
  <2>2. AllKnown(result) /\ result \in [Calls -> Facts]
    BY KnownAlready DEF Shape
  <2> QED
    BY <2>1, <2>2
<1>3. \A o : o \in S => Known(o.call, o.fact)
  BY <1>1 DEF ResultOp
<1>4. \A u \in Tasks : AllKnown(todo'[u])
  BY KnownAlready
<1>5. Tells(k, S)
  BY <1>2, <1>3, <1>4 DEF Tells
<1> QED
  BY <1>5, TellsKeeps

\* A result that is saved, with what it makes the loop say.
LEMMA RefusingResults ==
  ASSUME Shape, Refusing, CallsHold, ResultSaved \/ ResultLost,
         \A b \in Calls : Barred(b) => (Barred(b))'
  PROVE  Refusing'
<1>0. PICK c \in Calls : c = queue[1].call
  BY ResultSavedMoves, ResultLostMoves
<1>1. /\ At("result") /\ executed' = executed /\ todo' = todo
      /\ queue[1].fact \in Facts
      /\ place[c] = IF queue[1].fact = "asked" THEN "asking" ELSE "delivering"
  BY <1>0, ResultAtWork DEF ResultSaved, ResultLost
<1>2. Known(c, queue[1].fact)
  BY <1>0, <1>1, AtWork, KnownAlready
<1>3. CASE ResultLost
  <2>1. /\ result' = [result EXCEPT ![c] = "refused"] /\ Carries(queue', 1, {})
        /\ accepted' = accepted /\ doc' = doc /\ outcome' = outcome
    BY <1>0, <1>3, ResultLostMoves DEF ResultLost
  <2>2. \A o : o \in {} => o = ResultOp(c, "refused")
    OBVIOUS
  <2>3. accepted \in [Calls -> Facts] /\ "refused" \notin Refusals
    BY DEF Shape, Refusals
  <2> QED
    BY <1>1, <2>1, <2>2, <2>3, KnownAlready, TellsCall
<1>4. CASE ResultSaved
  <2> DEFINE acc == Forget(accepted, doc'.fact, [Nothing EXCEPT ![c] = queue[1].fact])
  <2>1. acc \in [Calls -> Facts] /\ AllKnown(acc) /\ AllKnown(doc'.fact)
    <3>1. doc' = Recorded(c, queue[1].fact) /\ acc \in [Calls -> Facts]
      BY <1>0, <1>4, ResultSavedMoves
    <3> QED
      BY <1>1, <1>2, <3>1, KnownAlready, KnownStays, KnownDocs
  <2>2. \/ /\ accepted' = acc /\ Carries(queue', 1, {})
           /\ UNCHANGED <<result, task, outcome>>
        \/ /\ queue[1].fact = "asked" /\ stopping
           /\ place' = [place EXCEPT ![c] = "delivering"]
           /\ result' = [result EXCEPT ![c] = "cancelled"]
           /\ accepted' = [acc EXCEPT ![c] = "cancelled"]
           /\ Carries(queue', 1, {ResultOp(c, "cancelled")})
           /\ UNCHANGED <<task, outcome>>
        \/ /\ accepted' = acc /\ Carries(queue', 1, {})
           /\ outcome' = [t \in Tasks |->
                 IF task[t] = "looping"
                 THEN [verdict |-> "paused", requests |-> Waiting \cup {c}, results |-> result]
                 ELSE outcome[t]]
           /\ UNCHANGED result
    BY <1>0, <1>4, ResultSavedMoves
  <2>3. \A o : o \in {} => o = ResultOp(c, "none")
    OBVIOUS
  <2>4. "none" \notin Refusals
    BY DEF Refusals
  <2> HIDE DEF acc
  <2>5. CASE /\ accepted' = acc /\ Carries(queue', 1, {})
             /\ UNCHANGED <<result, task, outcome>>
    BY <1>1, <2>1, <2>3, <2>4, <2>5, KnownAlready, TellsCall
  <2>6. CASE /\ queue[1].fact = "asked"
             /\ place' = [place EXCEPT ![c] = "delivering"]
             /\ result' = [result EXCEPT ![c] = "cancelled"]
             /\ accepted' = [acc EXCEPT ![c] = "cancelled"]
             /\ Carries(queue', 1, {ResultOp(c, "cancelled")})
             /\ UNCHANGED <<task, outcome>>
    <3>1. Untouched(c)
      BY <1>1, <2>6 DEF CallsHold
    <3>2. (Barred(c))'
      BY <1>1, <2>6, <3>1 DEF Barred, Untouched, Shape
    <3>3. \A o : o \in {ResultOp(c, "cancelled")} => o = ResultOp(c, "cancelled")
      OBVIOUS
    <3> QED
      BY <1>1, <2>1, <2>6, <3>2, <3>3, KnownAlready, TellsCall
  <2>7. CASE /\ accepted' = acc /\ Carries(queue', 1, {})
             /\ outcome' = [t \in Tasks |->
                   IF task[t] = "looping"
                   THEN [verdict |-> "paused", requests |-> Waiting \cup {c}, results |-> result]
                   ELSE outcome[t]]
             /\ UNCHANGED result
    <3>1. \A u \in Tasks : outcome'[u].results \in {outcome[u].results, result}
      BY <2>7
    <3>2. \A u \in Tasks : AllKnown(outcome'[u].results)
      BY <3>1, KnownAlready
    <3> QED
      BY <1>1, <2>1, <2>3, <2>4, <2>7, <3>2, TellsCall
  <2> QED
    BY <2>2, <2>5, <2>6, <2>7
<1> QED
  BY <1>3, <1>4

\* The calls and the decisions on them.
LEMMA RefusingCalls ==
  ASSUME Shape, Refusing, CallsHold, NEW c \in Calls, Call(c) \/ AskDecide(c),
         \A b \in Calls : Barred(b) => (Barred(b))'
  PROVE  Refusing'
<1>0. /\ doc' = doc /\ outcome' = outcome /\ todo' = todo
      /\ AllKnown(doc'.fact) /\ \A u \in Tasks : AllKnown(outcome'[u].results)
      /\ accepted \in [Calls -> Facts] /\ AllKnown(accepted)
  <2>1. doc' = doc /\ outcome' = outcome /\ todo' = todo
    BY DEF Call, AskDecide, Ask, Start, Return, Abort, RestOfOffer
  <2> QED
    BY <2>1, KnownAlready DEF Shape
<1>1. ASSUME NEW v, Offers(c, v), v \in Refusals => (Barred(c))'
      PROVE  Refusing'
  <2>1. \A o : o \in {ResultOp(c, v)} => o = ResultOp(c, v)
    OBVIOUS
  <2>2. /\ result' = [result EXCEPT ![c] = v] /\ accepted' = [accepted EXCEPT ![c] = v]
        /\ Carries(queue', 0, {ResultOp(c, v)})
    BY <1>1 DEF Offers
  <2> QED
    BY <1>0, <1>1, <2>1, <2>2, TellsCall
<1>2. CASE Ask(c)
  BY <1>1, <1>2, AskMoves DEF Refusals
<1>3. CASE Return(c)
  <2>1. PICK v \in {"asked", "done", "aborted"} : Offers(c, v)
    BY <1>3, ReturnMoves
  <2> QED
    BY <1>1, <2>1 DEF Refusals
<1>4. CASE Abort(c)
  <2>1. PICK v : Offers(c, v)
    BY <1>4, AbortMoves
  <2>2. /\ place[c] \in {"called", "waiting"} /\ executed' = executed
        /\ place' = [place EXCEPT ![c] = "delivering"]
    BY <1>4, AbortMoves
  <2>3. Untouched(c)
    BY <2>2 DEF CallsHold
  <2>4. (Barred(c))'
    BY <2>2, <2>3 DEF Barred, Untouched, Shape
  <2> QED
    BY <1>1, <2>1, <2>4
<1>5. ASSUME NEW S, Carries(queue', 0, S),
             \A o : o \in S => o.op \notin {"result", "rescue"},
             result' = result, accepted' = accepted
      PROVE  Refusing'
  <2>1. Tells(0, S)
    BY <1>0, <1>5, KnownAlready DEF Tells
  <2> QED
    BY <2>1, TellsKeeps
<1>6. CASE Start(c)
  <2>1. Carries(queue', 0, {})
    BY <1>6, LeftOver, AddingNone DEF Start
  <2>2. result' = result /\ accepted' = accepted
    BY <1>6 DEF Start
  <2> QED
    BY <1>5, <2>1, <2>2, SayNothing
<1>7. CASE AskDecide(c)
  <2>1. PICK v \in {"approved", "denied"} :
          queue' = Append(queue, [op |-> "decide", call |-> c, fact |-> v, task |-> 0])
    BY <1>7 DEF AskDecide
  <2> DEFINE d == [op |-> "decide", call |-> c, fact |-> v, task |-> 0]
  <2>2. d \in Operations /\ d.op = "decide"
    BY OperationKinds
  <2> HIDE DEF d
  <2>3. Carries(queue', 0, {d})
    BY <2>1, <2>2, LeftOver, Adding DEF d
  <2>4. \A o : o \in {d} => o.op \notin {"result", "rescue"}
    BY <2>2
  <2>5. result' = result /\ accepted' = accepted
    BY <1>7 DEF AskDecide
  <2> QED
    BY <1>5, <2>3, <2>4, <2>5
<1> QED
  BY <1>2, <1>3, <1>4, <1>6, <1>7 DEF Call

\* A decision that denies bars its call in the same step.
LEMMA RefusingDecided ==
  ASSUME Shape, Refusing, CallsHold, PauseIsAnswerable, Decided,
         \A b \in Calls : Barred(b) => (Barred(b))'
  PROVE  Refusing'
<1>0. PICK c \in Calls : c = queue[1].call
  BY DecidedMoves
<1>1. up /\ MayDecide(c) /\ todo' = todo
  BY <1>0, DecidedMoves, AtWork DEF Decided
<1>2. Untouched(c)
  <2>1. place[c] = "waiting"
    BY <1>1 DEF MayDecide, PauseIsAnswerable, Waiting
  <2> QED
    BY <2>1 DEF CallsHold
<1>3. doc'.fact = doc.fact
  <2>1. doc' = [doc EXCEPT !.status = "running", !.requests = {},
                           !.decided = [@ EXCEPT ![c] = queue[1].fact]]
    BY <1>0, DecidedMoves
  <2> QED
    BY <2>1 DEF Shape, Docs
<1>4. \A u \in Tasks : AllKnown(outcome'[u].results)
  <2>1. outcome' = [outcome EXCEPT ![NextTask] =
                IF Waiting \ {c} = {} THEN NoOutcome
                ELSE [verdict |-> "paused", requests |-> Waiting \ {c}, results |-> result]]
    BY <1>0, DecidedMoves
  <2> DEFINE o == IF Waiting \ {c} = {} THEN NoOutcome
                  ELSE [verdict |-> "paused", requests |-> Waiting \ {c}, results |-> result]
  <2>2. o.results \in {Nothing, result}
    BY DEF NoOutcome
  <2> HIDE DEF o
  <2>3. \A u \in Tasks : outcome'[u].results \in {outcome[u].results, Nothing, result}
    BY <2>1, <2>2 DEF Shape, o
  <2> QED
    BY <2>3, KnownAlready
<1>5. AllKnown(doc'.fact) /\ AllKnown(accepted) /\ accepted \in [Calls -> Facts]
  BY <1>3, KnownAlready DEF Shape
<1>6. CASE Carries(queue', 1, {}) /\ UNCHANGED <<result, accepted>>
  <2>1. \A o : o \in {} => o = ResultOp(c, "none")
    OBVIOUS
  <2>2. "none" \notin Refusals
    BY DEF Refusals
  <2> QED
    BY <1>1, <1>4, <1>5, <1>6, <2>1, <2>2, TellsCall
<1>7. CASE /\ place' = [place EXCEPT ![c] = "delivering"]
           /\ result' = [result EXCEPT ![c] = "denied"]
           /\ accepted' = [accepted EXCEPT ![c] = "denied"]
           /\ Carries(queue', 1, {ResultOp(c, "denied")})
           /\ UNCHANGED executed
  <2>1. (Barred(c))'
    BY <1>2, <1>7 DEF Barred, Untouched, Shape
  <2>2. \A o : o \in {ResultOp(c, "denied")} => o = ResultOp(c, "denied")
    OBVIOUS
  <2> QED
    BY <1>1, <1>4, <1>5, <1>7, <2>1, <2>2, TellsCall
<1> QED
  BY <1>0, <1>6, <1>7, DecidedMoves

\* The steps that say nothing new of any call.
LEMMA RefusingRest ==
  ASSUME Shape, Refusing,
         \/ FinishCalls \/ Answer \/ RoundClosed \/ RoundNotClosed \/ NotDecided
         \/ Cancelled \/ NotCancelled \/ Cleanup \/ AskCancel \/ Recover \/ Recovered
         \/ UNCHANGED vars,
         \A b \in Calls : Barred(b) => (Barred(b))'
  PROVE  Refusing'
<1>1. result' = result /\ accepted' = accepted /\ outcome' = outcome
  BY DEF FinishCalls, Answer, RoundClosed, RoundNotClosed, NotDecided, Cancelled,
         NotCancelled, Cleanup, CleanupReleased, CleanupIdle, CleanupSettles, AskCancel,
         Recover, Recovered, vars
<1>2. AllKnown(doc'.fact)
  <2>1. CASE doc' = doc
    BY <2>1, KnownAlready
  <2>2. CASE RoundClosed \/ Cancelled
    <3>1. doc'.fact = doc.fact
      BY <2>2 DEF RoundClosed, Cancelled, Shape, Docs
    <3> QED
      BY <3>1, KnownAlready
  <2>3. CASE Recover
    <3>1. /\ CloseFacts(doc) \in Docs /\ CloseAsked(doc) \in Docs
      BY CloseParts DEF Shape
    <3>2. CASE RecoverPause
      <4>1. PICK e \in {CloseAsked(doc), CloseFacts(doc)} :
              doc' = [e EXCEPT !.status = "blocked", !.requests = {}]
        BY <3>2 DEF RecoverPause
      <4>2. doc'.fact = e.fact
        BY <3>1, <4>1 DEF Docs
      <4> QED
        BY <4>1, <4>2, KnownDocs
    <3>3. CASE RecoverFacts
      BY <3>3, KnownDocs DEF RecoverFacts
    <3>4. CASE RecoverRound \/ RecoverRunning
      <4>1. doc'.fact = doc.fact
        BY <3>4 DEF RecoverRound, RecoverRunning, Shape, Docs
      <4> QED
        BY <4>1, KnownAlready
    <3> QED
      BY <2>3, <3>2, <3>3, <3>4 DEF Recover
  <2> QED
    BY <2>1, <2>2, <2>3 DEF FinishCalls, Answer, RoundNotClosed, NotDecided, NotCancelled,
         Cleanup, CleanupReleased, CleanupIdle, CleanupSettles, AskCancel, Recovered, vars
<1>3. TellsRest
  BY <1>1, <1>2, KnownAlready DEF TellsRest
<1>4. ASSUME NEW k \in {0, 1}, NEW S, Carries(queue', k, S), todo' = todo,
             \A o : o \in S => o.op \notin {"result", "rescue"}
      PROVE  Refusing'
  <2>1. Tells(k, S)
    BY <1>3, <1>4, KnownAlready DEF Tells, TellsRest
  <2> QED
    BY <2>1, TellsKeeps
<1>5. ASSUME NEW x \in {"close", "cancel"}, queue' = Append(queue, [op |-> x]), todo' = todo
      PROVE  Refusing'
  <2>1. Carries(queue', 0, {[op |-> x]})
    BY <1>5, LeftOver, Adding, OperationKinds
  <2>2. \A o : o \in {[op |-> x]} => o.op \notin {"result", "rescue"}
    OBVIOUS
  <2> QED
    BY <1>4, <1>5, <2>1, <2>2
<1>6. CASE queue' = queue /\ todo' = todo
  <2>1. Carries(queue', 0, {})
    BY <1>6, LeftOver, AddingNone
  <2> QED
    BY <1>4, <1>6, <2>1, SayNothing
<1>7. CASE queue # <<>> /\ queue' = Rest /\ todo' = todo
  <2>1. Carries(queue', 1, {})
    BY <1>7, LeftOver, AddingNone
  <2> QED
    BY <1>4, <1>7, <2>1, SayNothing
<1>8. CASE CleanupReleased
  BY <1>3, <1>8, CleanupReleasedMoves, TellsMoves, SayNothing, TaskNumbers
<1>9. CASE CleanupSettles
  <2>1. AllKnown(accepted)
    BY KnownAlready
  <2> QED
    BY <1>3, <1>9, <2>1, CleanupSettlesMoves, TellsMoves, SayNothing, TaskNumbers
<1> QED
  BY <1>5, <1>6, <1>7, <1>8, <1>9 DEF FinishCalls, Answer, RoundClosed, RoundNotClosed,
       NotDecided, Cancelled, NotCancelled, Cleanup, CleanupIdle, AskCancel, Recover,
       Recovered, vars, At

\* Every step keeps Refusing.
LEMMA RefusingStep ==
  ASSUME Shape, TasksHold, CallsHold, PauseIsAnswerable, Refusing, [Next]_vars
  PROVE  Refusing'
<1>1. \A c \in Calls : Barred(c) => (Barred(c))'
  BY BarredStays
<1>2. CASE Crash
  <2>1. /\ Positions' = {} /\ doc' = doc
        /\ \A c \in Calls : /\ result'[c] = "none" /\ accepted'[c] = "none"
                            /\ \A t \in Tasks : /\ outcome'[t].results[c] = "none"
                                                /\ todo'[t][c] = "none"
    BY <1>2 DEF Crash, Positions, Nothing, NoOutcome
  <2>2. \A c \in Calls : (Refused(c))' => Refused(c)
    BY <2>1 DEF Refused, Refusals
  <2> QED
    BY <1>1, <2>2 DEF Refusing
<1> QED
  BY <1>1, <1>2, RefusingTasks, RefusingOperations, RefusingResults, RefusingCalls,
     RefusingDecided, RefusingRest DEF Next, Operation, Task

-----------------------------------------------------------------------------
(* The document. *)

\* What is final stays, a round is closed over final facts only, and only Paused makes a
\* run await decisions.
Sound(d) ==
  /\ \A c \in Calls : doc.fact[c] \in Final => d.fact[c] = doc.fact[c]
  /\ ~d.round => ~doc.round \/ \A c \in Calls : d.fact[c] \in Final
  /\ d.status = "awaiting" => doc.status = "awaiting" /\ d.requests = doc.requests

\* The documents the settlements and the saves of results make are sound.
LEMMA SoundDocs ==
  ASSUME Shape
  PROVE  /\ Sound(doc) /\ Sound(CloseFacts(doc)) /\ Sound([CloseFacts(doc) EXCEPT !.round = FALSE])
         /\ Sound(CloseAsked(doc))
         /\ \A c \in Calls, v \in Facts : Sound(Recorded(c, v))
<1>1. Sound(doc)
  BY DEF Sound
<1>2. /\ CloseFacts(doc) \in Docs /\ CloseAsked(doc) \in Docs
      /\ Sound(CloseFacts(doc)) /\ Sound(CloseAsked(doc))
  BY CloseParts DEF Sound, Shape
<1>3. Sound([CloseFacts(doc) EXCEPT !.round = FALSE])
  <2>1. \A c \in Calls : CloseFacts(doc).fact[c] \in Final
    BY CloseParts DEF Shape
  <2> QED
    BY <1>2, <2>1 DEF Sound, Docs
<1>4. ASSUME NEW c \in Calls, NEW v \in Facts
      PROVE  Sound(Recorded(c, v))
  BY RecordedParts DEF Sound, Shape
<1> QED
  BY <1>1, <1>2, <1>3, <1>4

\* Merging what may be merged leaves final facts alone.
LEMMA MergeKeepsFinal ==
  ASSUME NEW f \in [Calls -> Facts], NEW g \in [Calls -> Facts], Mergeable(f, g),
         NEW c \in Calls, f[c] \in Final
  PROVE  Merge(f, g)[c] = f[c]
<1>1. g[c] \in {"none", f[c]}
  BY DEF Mergeable, Final
<1> QED
  BY <1>1 DEF Merge

\* Every step but a pause makes a sound document.
LEMMA SoundStep ==
  ASSUME Shape, TasksHold, [Next]_vars
  PROVE  Paused \/ Sound(doc')
<1>1. CASE doc' = doc
  BY <1>1, SoundDocs
<1>2. CASE ResultSaved
  <2>1. PICK c \in Calls, v \in Facts : doc' = Recorded(c, v)
    BY <1>2, ResultSavedMoves
  <2> QED
    BY <2>1, SoundDocs
<1>3. CASE RoundClosed
  BY <1>3 DEF RoundClosed, Shape, Docs, Sound
<1>4. CASE Decided
  <2>1. PICK c \in Calls, v \in {"approved", "denied"} :
          doc' = [doc EXCEPT !.status = "running", !.requests = {},
                               !.decided = [@ EXCEPT ![c] = v]]
    BY <1>4, DecidedMoves
  <2> QED
    BY <2>1 DEF Shape, Docs, Sound
<1>5. CASE Ended
  <2>0. PICK t \in Tasks : t = queue[1].task
    BY <1>5, EndedMoves
  <2>1. /\ CanEnd(t) /\ doc'.status \in Terminal
        /\ doc' = [doc EXCEPT !.status = doc'.status, !.requests = {},
                               !.fact = Merge(@, outcome[t].results)]
    BY <1>5, <2>0, EndedMoves
  <2>2. doc'.fact = Merge(doc.fact, outcome[t].results) /\ doc'.round = doc.round
    BY <2>1 DEF Shape, Docs
  <2>3. /\ Mergeable(doc.fact, outcome[t].results)
        /\ doc.fact \in [Calls -> Facts] /\ outcome[t].results \in [Calls -> Facts]
    BY <2>1, DocParts DEF CanEnd, Shape, Outcomes
  <2>4. \A c \in Calls : doc.fact[c] \in Final => doc'.fact[c] = doc.fact[c]
    BY <2>2, <2>3, MergeKeepsFinal
  <2>5. doc'.status # "awaiting"
    BY <2>1 DEF Terminal
  <2> QED
    BY <2>2, <2>4, <2>5 DEF Sound
<1>6. CASE Rescued
  <2>1. PICK c \in Calls, v \in Facts : doc' \in {doc, Recorded(c, v)}
    BY <1>6, RescuedMoves
  <2> QED
    BY <2>1, SoundDocs
<1>7. CASE Reconciled
  BY <1>7, ReconciledMoves, SoundDocs
<1>8. CASE Cancelled
  BY <1>8 DEF Cancelled, Sound, Shape, Docs
<1>9. CASE Recover
  <2>1. CASE RecoverPause
    <3>1. PICK e \in {CloseAsked(doc), CloseFacts(doc)} :
            doc' = [e EXCEPT !.status = "blocked", !.requests = {}]
      BY <2>1 DEF RecoverPause
    <3>2. e \in Docs /\ Sound(e)
      BY <3>1, CloseParts, SoundDocs DEF Shape
    <3> QED
      BY <3>1, <3>2 DEF Sound, Docs
  <2>2. CASE RecoverFacts
    BY <2>2, SoundDocs DEF RecoverFacts
  <2>3. CASE RecoverRound
    <3>1. doc' = [CloseFacts(doc) EXCEPT !.round = FALSE]
      BY <2>3 DEF RecoverRound
    <3> QED
      BY <3>1, SoundDocs
  <2>4. CASE RecoverRunning
    BY <2>4 DEF RecoverRunning, Sound, Shape, Docs
  <2> QED
    BY <1>9, <2>1, <2>2, <2>3, <2>4 DEF Recover
<1> QED
  BY <1>1, <1>2, <1>3, <1>4, <1>5, <1>6, <1>7, <1>8, <1>9
     DEF Next, Call, Operation, Task, Cleanup, Ask, Start, Return, Abort, RestOfOffer,
         AskDecide, FinishCalls, Answer, ResultLost, RoundNotClosed, NotPaused, NotEnded,
         NotDecided, NotCancelled, LoopEnded, Remember, Released, Catch, Finalized, Revoke,
         CleanupReleased, CleanupIdle, CleanupSettles, AskCancel, Crash, Recovered, vars

\* A pause merges its results, names the requests that wait, and leaves the round open.
LEMMA PausedIs ==
  ASSUME Shape, TasksHold, Paused
  PROVE  /\ \A c \in Calls : doc.fact[c] \in Final => doc'.fact[c] = doc.fact[c]
         /\ doc'.round = doc.round
         /\ continuation' /\ doc'.requests \subseteq Waiting'
<1>0. PICK t \in Tasks : t = queue[1].task
  BY PausedMoves
<1>1. /\ CanPause(t) /\ At("pause") /\ continuation' = TRUE
      /\ doc' = [doc EXCEPT !.status = "awaiting", !.requests = outcome[t].requests,
                               !.fact = PauseFacts(t)]
  BY <1>0, PausedMoves
<1>2. /\ doc'.fact = Merge(doc.fact, outcome[t].results) /\ doc'.round = doc.round
      /\ doc'.requests = outcome[t].requests
  BY <1>1 DEF Shape, Docs, PauseFacts
<1>3. /\ Mergeable(doc.fact, outcome[t].results) /\ ~Ending
      /\ doc.fact \in [Calls -> Facts] /\ outcome[t].results \in [Calls -> Facts]
  BY <1>1, DocParts DEF CanPause, Shape, Outcomes, Ending, Terminal
<1>4. \A c \in Calls : doc.fact[c] \in Final => doc'.fact[c] = doc.fact[c]
  BY <1>2, <1>3, MergeKeepsFinal
<1>5. Leads(t)
  <2>1. 1 \in Positions /\ queue[1].op = "pause"
    BY <1>1, AtWork
  <2>2. task[t] = "pausing"
    BY <1>0, <2>1 DEF TasksHold, PauseHolds
  <2> QED
    BY <2>2 DEF TasksHold
<1>6. Waiting' = Waiting
  BY DEF Paused, Waiting
<1> QED
  BY <1>1, <1>2, <1>3, <1>4, <1>5, <1>6 DEF Leads

\* A final fact is never replaced.
LEMMA FactsStay ==
  ASSUME Shape, TasksHold, [Next]_vars
  PROVE  \A c \in Calls : doc.fact[c] \in Final => doc'.fact[c] = doc.fact[c]
  BY SoundStep, PausedIs DEF Sound

\* A round that is closed has final facts only.
LEMMA ClosedStep ==
  ASSUME Shape, TasksHold, ClosedRoundIsSettled, [Next]_vars
  PROVE  ClosedRoundIsSettled'
<1>1. ~doc'.round => ~doc.round \/ \A c \in Calls : doc'.fact[c] \in Final
  BY SoundStep, PausedIs DEF Sound
<1> QED
  BY <1>1, FactsStay DEF ClosedRoundIsSettled

\* While a run awaits decisions nobody takes its continuation or its requests away.
LEMMA AnswerableStep ==
  ASSUME Shape, TasksHold, CallsHold, PauseIsAnswerable, [Next]_vars
  PROVE  PauseIsAnswerable'
<1>1. CASE Paused
  BY <1>1, PausedIs DEF PauseIsAnswerable
<1>2. SUFFICES ASSUME ~Paused, up', doc'.status = "awaiting"
               PROVE  continuation' /\ doc'.requests \subseteq Waiting'
  BY <1>1 DEF PauseIsAnswerable
<1>3. /\ doc.status = "awaiting" /\ doc'.requests = doc.requests
      /\ ~stopping
  BY <1>2, SoundStep DEF Sound, TasksHold
<1>4. ~Recovered /\ ~Crash /\ ~Cancelled /\ ~Decided
  <2>1. ~Decided
    <3>1. Decided => doc'.status = "running"
      BY DEF Decided, Shape, Docs
    <3> QED
      BY <1>2, <3>1
  <2>2. ~Cancelled
    <3>1. Cancelled => doc'.status \in Terminal
      BY DEF Cancelled, Shape, Docs, Terminal
    <3> QED
      BY <1>2, <3>1 DEF Terminal
  <2> QED
    BY <1>2, <1>3, <2>1, <2>2 DEF Recovered, Crash, Terminal
<1>5. ASSUME up' = up, continuation' = continuation, Waiting \subseteq Waiting'
      PROVE  continuation' /\ doc'.requests \subseteq Waiting'
  BY <1>2, <1>3, <1>5 DEF PauseIsAnswerable
<1>6. place' = place => Waiting \subseteq Waiting'
  BY DEF Waiting
<1>7. ASSUME NEW c \in Calls, Call(c) \/ AskDecide(c)
      PROVE  up' = up /\ continuation' = continuation /\ Waiting \subseteq Waiting'
  <2>1. up' = up /\ continuation' = continuation
    BY <1>7 DEF Call, AskDecide, Ask, Start, Return, Abort, RestOfOffer
  <2>2. Waiting \subseteq Waiting'
    <3>1. CASE AskDecide(c)
      BY <1>6, <3>1 DEF AskDecide
    <3>2. CASE Ask(c)
      BY <3>2, AskMoves, WaitingStays
    <3>3. CASE Start(c)
      BY <3>3, WaitingStays DEF Start
    <3>4. CASE Return(c)
      BY <3>4, ReturnMoves, WaitingStays
    <3>5. ~Abort(c)
      BY <1>3 DEF Abort
    <3> QED
      BY <1>7, <3>1, <3>2, <3>3, <3>4, <3>5 DEF Call
  <2> QED
    BY <2>1, <2>2
<1>8. CASE ResultSaved \/ ResultLost
  <2>0. PICK c \in Calls : c = queue[1].call
    BY <1>8, ResultSavedMoves, ResultLostMoves
  <2>1. /\ At("result") /\ place[c] # "waiting" /\ up' = up /\ continuation' = continuation
    BY <1>8, <2>0, ResultAtWork DEF ResultSaved, ResultLost
  <2>2. \E p : place' = [place EXCEPT ![c] = p]
    BY <1>8, <2>0, ResultSavedMoves, ResultLostMoves
  <2> QED
    BY <1>5, <2>1, <2>2, WaitingStays
<1>9. ASSUME NEW t \in Tasks, Task(t) \/ Revoke(t)
      PROVE  up' = up /\ continuation' = continuation /\ place' = place
  BY <1>9 DEF Task, LoopEnded, Remember, Released, Catch, Finalized, Revoke
<1>10. CASE \/ FinishCalls \/ Answer \/ RoundClosed \/ RoundNotClosed \/ NotPaused
            \/ Ended \/ NotEnded \/ Rescued \/ Reconciled \/ NotDecided
            \/ NotCancelled \/ Cleanup \/ AskCancel \/ Recover \/ UNCHANGED vars
  <2>1. up' = up /\ continuation' = continuation /\ place' = place
    BY <1>10 DEF FinishCalls, Answer, RoundClosed, RoundNotClosed, NotPaused, Ended,
       NotEnded, Rescued, Reconciled, NotDecided, NotCancelled, Cleanup, CleanupReleased,
       CleanupIdle, CleanupSettles, AskCancel, Recover, vars
  <2> QED
    BY <1>5, <1>6, <2>1
<1> QED
  BY <1>2, <1>4, <1>5, <1>6, <1>7, <1>8, <1>9, <1>10 DEF Next, Operation

\* No gated effect begins without its approval.
LEMMA ApprovedStep ==
  ASSUME Shape, TasksHold, CallsHold, PauseIsAnswerable, ApprovedBeforeExecuted, [Next]_vars
  PROVE  ApprovedBeforeExecuted'
<1>1. ASSUME executed' = executed, doc'.decided = doc.decided
      PROVE  ApprovedBeforeExecuted'
  BY <1>1 DEF ApprovedBeforeExecuted
<1>2. ASSUME NEW c \in Calls, Call(c) \/ AskDecide(c)
      PROVE  ApprovedBeforeExecuted'
  <2>1. doc' = doc
    BY <1>2 DEF Call, AskDecide, Ask, Start, Return, Abort, RestOfOffer
  <2>2. CASE Start(c)
    BY <2>1, <2>2, GatesAssumption DEF Start, ApprovedBeforeExecuted
  <2>3. CASE ~Start(c)
    BY <1>1, <1>2, <2>1, <2>3 DEF Call, AskDecide, Ask, Return, Abort
  <2> QED
    BY <2>2, <2>3
<1>3. CASE ResultSaved \/ ResultLost
  <2>1. executed' = executed
    BY <1>3 DEF ResultSaved, ResultLost
  <2>2. doc'.decided = doc.decided
    <3>1. CASE ResultSaved
      <4>1. PICK c \in Calls, v \in Facts : doc' = Recorded(c, v)
        BY <3>1, ResultSavedMoves
      <4> QED
        BY <4>1, RecordedParts DEF Shape
    <3> QED
      BY <1>3, <3>1 DEF ResultLost
  <2> QED
    BY <1>1, <2>1, <2>2
<1>4. CASE Decided
  <2>0. PICK c \in Calls : c = queue[1].call
    BY <1>4, DecidedMoves
  <2>1. up /\ MayDecide(c)
    BY <1>4, <2>0, DecidedMoves, AtWork
  <2>2. c \notin executed
    <3>1. place[c] = "waiting"
      BY <2>1 DEF MayDecide, PauseIsAnswerable, Waiting
    <3> QED
      BY <3>1 DEF CallsHold, Untouched
  <2>3. PICK v \in {"approved", "denied"} :
          /\ doc' = [doc EXCEPT !.status = "running", !.requests = {},
                                !.decided = [@ EXCEPT ![c] = v]]
          /\ executed' = IF v = "approved" THEN executed \cup {c} ELSE executed
    BY <1>4, <2>0, DecidedMoves
  <2>4. doc'.decided = [doc.decided EXCEPT ![c] = v] /\ doc.decided \in [Calls -> {"none", "approved", "denied"}]
    BY <2>3, DocParts DEF Shape, Docs
  <2>5. ASSUME NEW b \in executed' \cap (GatedBefore \cup GatedDuring)
        PROVE  doc'.decided[b] = "approved"
    <3>1. CASE b = c
      BY <2>2, <2>3, <2>4, <2>5, <3>1
    <3>2. CASE b # c
      <4>1. b \in executed /\ b \in Calls
        BY <2>3, <2>5, <3>2 DEF Shape
      <4> QED
        BY <2>4, <2>5, <3>2, <4>1 DEF ApprovedBeforeExecuted
    <3> QED
      BY <3>1, <3>2
  <2> QED
    BY <2>5 DEF ApprovedBeforeExecuted
<1>5. CASE Crash
  BY <1>1, <1>5 DEF Crash
<1> QED
  BY <1>1, <1>2, <1>3, <1>4, <1>5, QuietTasks, QuietOperations
     DEF Quiet, Next, Operation, Task

-----------------------------------------------------------------------------
(* The layers are an invariant. *)

\* The round starts with all layers.
LEMMA InitLayers ==
  ASSUME Init
  PROVE  Layers
<1>1. Len(queue) = 0 /\ Positions = {}
  BY DEF Init, Positions
<1>2. Shape
  BY <1>1, Empties, EmptySeq, BoundsAssumption, TaskNumbers
     DEF Init, Shape, Docs, Places, Steps, Statuses
<1>3. CallsHold
  BY <1>1, Empties DEF Init, CallsHold, Untouched
<1>4. TasksHold
  BY <1>1, TaskNumbers DEF Init, TasksHold, Leading, Ending, Terminal
<1>5. Numbered
  <2>1. DecidedCalls = {}
    BY Empties DEF Init, DecidedCalls
  <2>2. Cardinality(DecidedCalls) = 0
    BY <2>1, FS_EmptySet
  <2> QED
    BY <2>2, TaskNumbers DEF Init, Numbered, Live
<1>6. Refusing
  <2>1. \A c \in Calls : /\ doc.fact[c] = "none" /\ result[c] = "none" /\ accepted[c] = "none"
                         /\ \A t \in Tasks : outcome[t].results[c] = "none" /\ todo[t][c] = "none"
    BY Empties DEF Init, NoOutcome
  <2> QED
    BY <1>1, <2>1 DEF Refusing, Refused, Refusals
<1>7. ApprovedBeforeExecuted /\ ClosedRoundIsSettled /\ PauseIsAnswerable
  BY DEF Init, ApprovedBeforeExecuted, ClosedRoundIsSettled, PauseIsAnswerable
<1> QED
  BY <1>2, <1>3, <1>4, <1>5, <1>6, <1>7 DEF Layers

\* Each layer is kept with the help of those named in its step lemma.
LEMMA Invariance == Spec => []Layers
<1>1. Init => Layers
  BY InitLayers
<1>2. Layers /\ [Next]_vars => Layers'
  BY ShapeStep, CallsHoldStep, TasksHoldStep, NumberedStep, RefusingStep, ApprovedStep,
     ClosedStep, AnswerableStep DEF Layers
<1> QED
  BY <1>1, <1>2, PTL DEF Spec

-----------------------------------------------------------------------------
(* The theorems. *)

\* The document, the queue, the loop, the tasks and the results they keep have their
\* types in every reachable state, for any number of calls (execution-operations.ts).
THEOREM TypeCorrect == Spec => []TypeOK
<1>1. Layers => TypeOK
  BY ShapeIsTyped DEF Layers
<1> QED
  BY <1>1, Invariance, PTL

\* A call the run records as denied or cancelled has had no effect, whatever was in flight
\* when it was refused (acceptToolResult, resolveApproval, the settlements).
THEOREM WhatIsRefusedIsNotExecuted == Spec => []RefusedIsNotExecuted
<1>1. Layers => RefusedIsNotExecuted
  BY DEF Layers, Refusing, Refused, Refusals, Barred, RefusedIsNotExecuted
<1> QED
  BY <1>1, Invariance, PTL

\* A gated effect begins only once its approval is saved (decideApproval).
THEOREM ApprovalComesFirst == Spec => []ApprovedBeforeExecuted
<1>1. Layers => ApprovedBeforeExecuted
  BY DEF Layers
<1> QED
  BY <1>1, Invariance, PTL

\* A round is closed over final results only, by the loop, a settlement or a start
\* (tool_result_entries_committed, reconcilePendingToolRound).
THEOREM RoundsCloseOverResults == Spec => []ClosedRoundIsSettled
<1>1. Layers => ClosedRoundIsSettled
  BY DEF Layers
<1> QED
  BY <1>1, Invariance, PTL

\* A pause on display has its continuation, and the loop waits for each request it names
\* (request_approval, decideApproval).
THEOREM PausesCanBeAnswered == Spec => []PauseIsAnswerable
<1>1. Layers => PauseIsAnswerable
  BY DEF Layers
<1> QED
  BY <1>1, Invariance, PTL

\* A result that was saved is never replaced, whoever reports next (persistToolResult,
\* mergeOrdinaryToolResults, the settlements and the recovery).
THEOREM FactsStayFinal == Spec => FactsAreFinal
<1>1. Layers /\ [Next]_vars
        => [\A c \in Calls : doc.fact[c] \in Final => doc'.fact[c] = doc.fact[c]]_vars
  BY FactsStay DEF Layers
<1> QED
  BY <1>1, Invariance, PTL DEF Spec, FactsAreFinal

=============================================================================
