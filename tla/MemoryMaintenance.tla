-------------------------- MODULE MemoryMaintenance --------------------------
(***************************************************************************)
(* The memories of one Space: how the turns of its conversations become    *)
(* conversation summaries and revisions of the Space's memory document     *)
(* (app/memory, app/panel-server/memory/capture-scheduler.ts), while the   *)
(* user switches memory off and on, clears it, edits the document, deletes *)
(* conversations or the Space, and the program stops.                      *)
(*                                                                         *)
(* The stores are one SQLite database whose calls are synchronous, so a    *)
(* step is the code between two awaits that do other I/O: reading turns or *)
(* run documents, asking the model, waiting for the idle timer.            *)
(***************************************************************************)
EXTENDS Integers, FiniteSetsExt

CONSTANTS
  Conversations,
  Lengths,      \* bound: how many turns each conversation gets
  Attempts,     \* MAINTENANCE_MAX_ATTEMPTS
  NoJob,
  MaxEvents     \* bound: how often the user switches, clears, edits or deletes, the
                \* model, its output or a read fails, or the program stops

ASSUME LengthAssumption == Lengths \in [Conversations -> Nat]
ASSUME BoundAssumption ==
  {Attempts, MaxEvents} \subseteq Nat

\* A turn is known by its conversation and its ordinal.
TurnsOf(c, first, last) == {c} \X (first..last)
Turns == Conversations \X (Nat \ {0})
Idle == [pc |-> "idle"]
Revisions == Nat \X Nat       \* of the policy, and of the owner's generation
Ungated == <<>>

Jobs == [status : {"queued", "running", "done", "failed"}, requested : Nat,
         rev : Revisions, attempt : Nat, eligible : BOOLEAN]
Docs == [id : Nat, knows : SUBSET Turns, sources : SUBSET Conversations,
         edits : SUBSET Nat]
Signals == [conv : Conversations, ord : Nat, rev : Revisions \cup {Ungated}]
Workers ==
  {Idle} \cup [pc : {"listed"}, conv : Conversations]
  \cup [pc : {"reading"}, conv : Conversations, rev : Revisions, attempt : Nat,
        legal : Nat, from : Nat, target : Nat]
  \cup [pc : {"asking"}, conv : Conversations, rev : Revisions, attempt : Nat, first : Nat,
        to : Nat, target : Nat, seen : SUBSET Turns, summary : SUBSET Turns, head : SUBSET Docs]

ASSUME NoJobAssumption == NoJob \notin Jobs

VARIABLES
  allocated, \* how many ordinals went to turns, queued and running ones included
  stable,    \* how many of these turns have come to their stable end
  policy,    \* whether memory is effective for the Space, and the revision of that
  owner,     \* memory_lifecycle of the Space: generation and fence
  closing,   \* memory_lifecycle of each conversation: its fence
  space,     \* the Space itself: live, being removed, gone
  progress,  \* memory_capture_progress: processed and excluded ordinals
  summary,   \* the turns the valid summary of each conversation was made from
  docs,      \* the valid revisions of the Space's document: the turns each was made
             \* from, the conversations it records as sources, the user's edits it
             \* is or is built on
  written,   \* how many revisions were ever written
  job,       \* the latest memory_job of each conversation
  signals,   \* stable turns on their way to a job
  worker,    \* the maintenance worker
  admin,     \* what the user's operation is waiting for, if there is one
  marks,     \* the high waters it reads
  closed,    \* history: turns allocated while memory was off
  cleared,   \* history: turns excluded by a clear
  cut,       \* history: an enabling stopped between its two writes
  events     \* spent of MaxEvents

turns == <<allocated, stable>>
lifecycles == <<owner, closing, space>>
content == <<progress, summary, docs, written>>
user == <<admin, marks>>
history == <<closed, cleared, cut>>
vars == <<turns, policy, lifecycles, content, job, signals, worker, user, history, events>>

Fences == {"none", "fenced", "tombstone"}

TypeOK ==
  /\ allocated \in [Conversations -> Nat]
  /\ stable \in [Conversations -> Nat]
  /\ policy \in [on : BOOLEAN, rev : Nat]
  /\ owner \in [gen : Nat, fence : Fences]
  /\ closing \in [Conversations -> Fences]
  /\ space \in {"live", "removing", "gone"}
  /\ progress \in [Conversations -> [processed : Nat, excluded : Nat]]
  /\ summary \in [Conversations -> SUBSET Turns]
  /\ docs \in SUBSET Docs
  /\ written \in Nat
  /\ job \in [Conversations -> Jobs \cup {NoJob}]
  /\ signals \in SUBSET Signals
  /\ worker \in Workers
  /\ admin \in {"idle", "enabling", "clearing"}
  /\ marks \in [Conversations -> Nat]
  /\ closed \in SUBSET Turns /\ cleared \in SUBSET Turns /\ cut \in BOOLEAN
  /\ events \in Nat

NoMarks == [c \in Conversations |-> 0]
NoProgress == [processed |-> 0, excluded |-> 0]

\* Memory has been enabled in a Space without turns.
Init ==
  /\ allocated = NoMarks /\ stable = NoMarks
  /\ policy = [on |-> TRUE, rev |-> 0]
  /\ owner = [gen |-> 0, fence |-> "none"]
  /\ closing = [c \in Conversations |-> "none"]
  /\ space = "live"
  /\ progress = [c \in Conversations |-> NoProgress]
  /\ summary = [c \in Conversations |-> {}]
  /\ docs = {} /\ written = 0
  /\ job = [c \in Conversations |-> NoJob]
  /\ signals = {}
  /\ worker = Idle
  /\ admin = "idle" /\ marks = NoMarks
  /\ closed = {} /\ cleared = {} /\ cut = FALSE
  /\ events = 0

-----------------------------------------------------------------------------
Max2(a, b) == IF a >= b THEN a ELSE b
Event == events < MaxEvents /\ events' = events + 1

\* resolveAdmissionFromPolicy: whether memory is effective for a conversation, and
\* the revision that any change of the policy or of the generation makes another.
Admitted(c) == policy.on /\ owner.fence = "none" /\ closing[c] = "none"
Rev == <<policy.rev, owner.gen>>

Floor(c) == Max2(progress[c].processed, progress[c].excluded)
LegalStart(c) == progress[c].excluded + 1
Active(c) == job[c] # NoJob /\ job[c].status \in {"queued", "running"}
Queued(c) == job[c] # NoJob /\ job[c].status = "queued"
Running(c) == job[c] # NoJob /\ job[c].status = "running"

\* The latest valid revision of the document, if there is one.
Head == {d \in docs : \A e \in docs : e.id <= d.id}

-----------------------------------------------------------------------------
(* The turns, and the signal of each stable one. *)

Allocate(c) ==
  /\ space = "live" /\ closing[c] = "none"
  /\ allocated[c] < Lengths[c]
  /\ allocated' = [allocated EXCEPT ![c] = @ + 1]
  /\ closed' = IF policy.on THEN closed ELSE closed \cup {<<c, allocated[c] + 1>>}
  /\ UNCHANGED <<stable, policy, lifecycles, content, job, signals, worker, user,
                 cleared, cut, events>>

\* A conversation that is deleted stops its turns first.
Busy(c) == closing[c] # "tombstone" /\ space # "gone" /\ stable[c] < allocated[c]

Stabilize(c) ==
  /\ Busy(c)
  /\ stable' = [stable EXCEPT ![c] = @ + 1]
  /\ signals' = signals \cup {[conv |-> c, ord |-> stable[c] + 1, rev |-> Ungated]}
  /\ UNCHANGED <<allocated, policy, lifecycles, content, job, worker, user, history, events>>

\* acceptStableSignal up to the reading of the turns for the transcript index.
Gate(s) ==
  /\ s.rev = Ungated
  /\ signals' = (signals \ {s}) \cup
       IF Admitted(s.conv) /\ s.ord > Floor(s.conv) THEN {[s EXCEPT !.rev = Rev]} ELSE {}
  /\ UNCHANGED <<turns, policy, lifecycles, content, job, worker, user, history, events>>

\* acceptConversationSignal: a later boundary extends the active job and starts its
\* idle wait and its attempts anew; an earlier one changes nothing.
Extended(s) ==
  LET old == job[s.conv]
  IN  IF ~Active(s.conv)
        THEN [status |-> "queued", requested |-> s.ord, rev |-> s.rev, attempt |-> 0,
              eligible |-> FALSE]
      ELSE IF s.ord <= old.requested THEN old
      ELSE [old EXCEPT !.requested = s.ord, !.rev = s.rev, !.attempt = 0, !.eligible = FALSE]

Register(s) ==
  /\ s.rev # Ungated
  /\ signals' = signals \ {s}
  /\ job' = [job EXCEPT ![s.conv] = Extended(s)]
  /\ UNCHANGED <<turns, policy, lifecycles, content, worker, user, history, events>>

-----------------------------------------------------------------------------
(* The scheduler and the worker: one job at a time. *)

\* The idle wait or the wait of a retry is over. It is longer than an operation of
\* the user's takes to read the high waters (270 s against a few file reads).
TimerFires(c) ==
  /\ Queued(c) /\ ~job[c].eligible
  /\ admin = "idle"
  /\ job' = [job EXCEPT ![c].eligible = TRUE]
  /\ UNCHANGED <<turns, policy, lifecycles, content, signals, worker, user, history, events>>

\* listDueJobs and the question whether the conversation is in use.
List(c) ==
  /\ worker = Idle
  /\ Queued(c) /\ job[c].eligible /\ ~Busy(c)
  /\ worker' = [pc |-> "listed", conv |-> c]
  /\ UNCHANGED <<turns, policy, lifecycles, content, job, signals, user, history, events>>

Defer(c) ==
  /\ worker = Idle
  /\ Queued(c) /\ job[c].eligible /\ Busy(c)
  /\ job' = [job EXCEPT ![c].eligible = FALSE]
  /\ UNCHANGED <<turns, policy, lifecycles, content, signals, worker, user, history, events>>

\* Mutant: the claim trusts the listing and does not look at the waits again.
ClaimableWhenListed(c) == Queued(c)
Claimable(c) == Queued(c) /\ job[c].eligible

\* Whether the job was asked for under the admission in force and has something left.
Wanted(c) == Admitted(c) /\ job[c].rev = Rev /\ Floor(c) < job[c].requested

ClaimRefused ==
  /\ worker.pc = "listed"
  /\ ~Claimable(worker.conv)
  /\ worker' = Idle
  /\ UNCHANGED <<turns, policy, lifecycles, content, job, signals, user, history, events>>

ClaimConverges ==
  /\ worker.pc = "listed"
  /\ LET c == worker.conv
     IN  /\ Claimable(c) /\ ~Wanted(c)
         /\ job' = [job EXCEPT ![c].status = "done", ![c].attempt = @ + 1]
  /\ worker' = Idle
  /\ UNCHANGED <<turns, policy, lifecycles, content, signals, user, history, events>>

Claim ==
  /\ worker.pc = "listed"
  /\ LET c == worker.conv
     IN  /\ Claimable(c) /\ Wanted(c)
         /\ job' = [job EXCEPT ![c].status = "running", ![c].attempt = @ + 1]
         /\ worker' = [pc |-> "reading", conv |-> c, rev |-> job[c].rev,
                       attempt |-> job[c].attempt + 1, legal |-> LegalStart(c),
                       from |-> Floor(c) + 1, target |-> job[c].requested]
  /\ UNCHANGED <<turns, policy, lifecycles, content, signals, user, history, events>>

\* readAdjacentTurns: up to four turns before the batch that the summary covers and
\* nothing excludes.
CoveredThrough(c) == IF summary[c] = {} THEN 0 ELSE Max({t[2] : t \in summary[c]})
\* Mutant: whatever comes before the batch, excluded or not.
AdjacentAnywhere(c, legal, from) == TurnsOf(c, Max2(1, from - 4), from - 1)
Adjacent(c, legal, from) ==
  LET last == Min({from - 1, CoveredThrough(c)})
  IN  {c} \X {o \in legal..(from - 1) : last - 4 < o /\ o <= last}

\* The new turns are read, then the heads, then what the mode of the request needs:
\* the whole legal conversation, or as many new turns as fit, with some before them.
Ask(c, first, to, seen) ==
  worker' = [pc |-> "asking", conv |-> c, rev |-> worker.rev, attempt |-> worker.attempt,
             first |-> first, to |-> to, target |-> worker.target, seen |-> seen,
             summary |-> summary[c], head |-> Head]

AskAll ==
  /\ worker.pc = "reading"
  /\ Ask(worker.conv, worker.legal, worker.target,
         TurnsOf(worker.conv, worker.legal, worker.target))
  /\ UNCHANGED <<turns, policy, lifecycles, content, job, signals, user, history, events>>

AskSome ==
  /\ worker.pc = "reading"
  /\ \E to \in worker.from..worker.target :
       Ask(worker.conv, worker.from, to,
           TurnsOf(worker.conv, worker.from, to)
             \cup Adjacent(worker.conv, worker.legal, worker.from))
  /\ UNCHANGED <<turns, policy, lifecycles, content, job, signals, user, history, events>>

\* finishJob: of the job claimed, and only while it still runs.
Finish(status, eligible) ==
  /\ job' = IF Running(worker.conv)
              THEN [job EXCEPT ![worker.conv].status = status,
                               ![worker.conv].eligible = @ /\ eligible]
              ELSE job
  /\ worker' = Idle
Requeue == Finish(IF worker.attempt >= Attempts THEN "failed" ELSE "queued", FALSE)

\* The turns of a conversation that is being deleted are no longer there.
NoEvidence ==
  /\ worker.pc = "reading"
  /\ closing[worker.conv] # "none" \/ space # "live"
  /\ Finish("done", TRUE)
  /\ UNCHANGED <<turns, policy, lifecycles, content, signals, user, history, events>>

ModelUnavailable ==
  /\ worker.pc = "asking"
  /\ Event
  /\ Requeue
  /\ UNCHANGED <<turns, policy, lifecycles, content, signals, user, history>>

\* No room for evidence, or an output that the repair did not help.
Fails ==
  /\ worker.pc \in {"reading", "asking"}
  /\ Event
  /\ Finish("failed", TRUE)
  /\ UNCHANGED <<turns, policy, lifecycles, content, signals, user, history>>

\* The catch block of maintainConversationJob.
Throws ==
  /\ worker.pc \in {"reading", "asking"}
  /\ Event
  /\ Finish("queued", FALSE)
  /\ UNCHANGED <<turns, policy, lifecycles, content, signals, user, history>>

-----------------------------------------------------------------------------
(* commitMaintenanceBatch: one transaction that looks at everything again. *)

SameSummary(c) == summary[c] = worker.summary
\* Mutant: the batch is published over a document it has not read.
SameHeads(c) == SameSummary(c) /\ Head = worker.head
Publishable(c) ==
  /\ Running(c) /\ Admitted(c) /\ worker.rev = Rev
  /\ progress[c].excluded < worker.first
  /\ progress[c].processed <= worker.to
  /\ SameHeads(c)

\* A summary is made from the one before it and the batch; a revision of the document
\* from both and the one before it. It records that one's sources and the batch.
NewSummary == worker.summary \cup worker.seen
NewDoc(c) ==
  [id |-> written + 1,
   knows |-> NewSummary \cup UNION {d.knows : d \in worker.head},
   sources |-> {c} \cup UNION {d.sources : d \in Head},
   edits |-> UNION {d.edits : d \in worker.head}]

\* Mutant: the boundary moves to what the job was claimed for, read or not.
AdvancedToTarget(c) == [progress EXCEPT ![c].processed = worker.target]
Advanced(c) == [progress EXCEPT ![c].processed = worker.to]

Exhausted(c) == worker.to >= worker.target /\ job[c].requested <= worker.target

Publish(withDoc) ==
  /\ worker.pc = "asking"
  /\ LET c == worker.conv
     IN  /\ Publishable(c)
         /\ summary' = [summary EXCEPT ![c] = NewSummary]
         /\ docs' = docs \cup (IF withDoc THEN {NewDoc(c)} ELSE {})
         /\ progress' = Advanced(c)
         /\ Finish(IF Exhausted(c) THEN "done" ELSE "queued", TRUE)
  /\ written' = written + (IF withDoc THEN 1 ELSE 0)
  /\ UNCHANGED <<turns, policy, lifecycles, signals, user, history, events>>

\* A batch that is no longer legal closes its job; one whose input changed is put back.
Discard ==
  /\ worker.pc = "asking"
  /\ LET c == worker.conv
     IN  /\ ~Publishable(c)
         /\ IF ~Admitted(c) \/ (worker.rev = Rev /\ progress[c].excluded >= worker.first)
              THEN Finish("done", TRUE)
              ELSE Requeue
  /\ UNCHANGED <<turns, policy, lifecycles, content, signals, user, history, events>>

-----------------------------------------------------------------------------
(* The user: switching memory off and on, clearing it, editing the document. *)

SwitchOff ==
  /\ space = "live" /\ admin = "idle"
  /\ Event
  /\ policy' = [on |-> FALSE, rev |-> policy.rev + 1]
  /\ UNCHANGED <<turns, lifecycles, content, job, signals, worker, user, history>>

\* Between active and shadow, which both gather memories.
SwitchMode ==
  /\ space = "live" /\ admin = "idle" /\ policy.on
  /\ Event
  /\ policy' = [policy EXCEPT !.rev = @ + 1]
  /\ UNCHANGED <<turns, lifecycles, content, job, signals, worker, user, history>>

\* listConversationMemoryHighWaters, which does not see a conversation being deleted.
HighWaters == [c \in Conversations |-> IF closing[c] = "none" THEN allocated[c] ELSE 0]

\* Consent or participation is given: first the policy, then, when the high waters
\* have been read, the exclusion of all that was allocated.
SwitchOn ==
  /\ space = "live" /\ admin = "idle"
  /\ Event
  /\ policy' = [on |-> TRUE, rev |-> policy.rev + 1]
  /\ admin' = "enabling" /\ marks' = HighWaters
  /\ UNCHANGED <<turns, lifecycles, content, job, signals, worker, history>>

ExcludeIn(S) ==
  progress' = [c \in Conversations |->
    IF c \in S THEN [progress[c] EXCEPT !.excluded = Max2(@, marks[c])] ELSE progress[c]]

Settled == admin' = "idle" /\ marks' = NoMarks

Enabled ==
  /\ admin = "enabling"
  /\ ExcludeIn(Conversations)
  /\ Settled
  /\ UNCHANGED <<turns, policy, lifecycles, summary, docs, written, job, signals, worker,
                 history, events>>

StartClear ==
  /\ space = "live" /\ admin = "idle"
  /\ Event
  /\ admin' = "clearing" /\ marks' = HighWaters
  /\ UNCHANGED <<turns, policy, lifecycles, content, job, signals, worker, history>>

\* purgeOwner: documents, summaries and jobs; not the exclusions.
Purged ==
  /\ docs' = {}
  /\ summary' = [c \in Conversations |-> {}]
  /\ job' = [c \in Conversations |-> NoJob]

\* The high waters are there: exclude, fence, purge, open again.
Clear ==
  /\ admin = "clearing"
  /\ ExcludeIn(Conversations)
  /\ Purged
  /\ owner' = [gen |-> owner.gen + 1, fence |-> "none"]
  /\ cleared' = cleared \cup UNION {TurnsOf(c, 1, marks[c]) : c \in Conversations}
  /\ Settled
  /\ UNCHANGED <<turns, policy, closing, space, written, signals, worker, closed, cut, events>>

\* recordUserSpaceMemoryEdit, on the revision the user saw: all earlier ones go.
Edit ==
  /\ space = "live" /\ admin = "idle" /\ owner.fence = "none"
  /\ Event
  /\ docs' = {[id |-> written + 1,
               knows |-> UNION {d.knows : d \in Head},
               sources |-> UNION {d.sources : d \in Head},
               edits |-> {written + 1} \cup UNION {d.edits : d \in Head}]}
  /\ written' = written + 1
  /\ UNCHANGED <<turns, policy, lifecycles, progress, summary, job, signals, worker, user,
                 history>>

-----------------------------------------------------------------------------
(* Deleting conversations and the Space. *)

Without(c) == {d \in docs : c \notin d.sources}

\* prepareConversationRemoval: the fence, then whatever depends on the conversation.
DeleteConversation(c) ==
  /\ allocated[c] > 0 /\ closing[c] = "none" /\ space # "gone"
  /\ Event
  /\ closing' = [closing EXCEPT ![c] = "fenced"]
  /\ summary' = [summary EXCEPT ![c] = {}]
  /\ docs' = Without(c)
  /\ UNCHANGED <<turns, policy, owner, space, progress, written, job, signals, worker, user,
                 history>>

\* finalizeConversationRemoval, when its turns and its files are gone.
FinishConversation(c) ==
  /\ closing[c] = "fenced"
  /\ closing' = [closing EXCEPT ![c] = "tombstone"]
  /\ summary' = [summary EXCEPT ![c] = {}]
  /\ docs' = Without(c)
  /\ progress' = [progress EXCEPT ![c] = NoProgress]
  /\ job' = [job EXCEPT ![c] = NoJob]
  /\ UNCHANGED <<turns, policy, owner, space, written, signals, worker, user, history, events>>

\* prepareOwnerRemoval at the start of the Space's deletion and finalizeOwnerRemoval at
\* its end; in between its conversations go without fences of their own.
RemoveSpace ==
  /\ space = "live" /\ admin = "idle"
  /\ Event
  /\ space' = "removing"
  /\ owner' = [gen |-> owner.gen + 1, fence |-> "fenced"]
  /\ UNCHANGED <<turns, policy, closing, content, job, signals, worker, user, history>>

FinishSpace ==
  /\ space = "removing"
  /\ space' = "gone"
  /\ owner' = [owner EXCEPT !.fence = "tombstone"]
  /\ Purged
  /\ progress' = [c \in Conversations |-> NoProgress]
  /\ UNCHANGED <<turns, policy, closing, written, signals, worker, user, history, events>>

-----------------------------------------------------------------------------
(* The program stops and starts again: recoverInterruptedJobs. *)

\* Mutants: jobs that nobody runs any more are left running; or get a status of their
\* own, which no query knows.
RecoveredNot(jobs) == jobs
RecoveredApart(jobs) ==
  [c \in Conversations |->
     IF jobs[c] # NoJob /\ jobs[c].status = "running"
       THEN [jobs[c] EXCEPT !.status = "interrupted"] ELSE jobs[c]]
Recovered(jobs) ==
  [c \in Conversations |->
     IF jobs[c] # NoJob /\ jobs[c].status = "running"
       THEN [jobs[c] EXCEPT !.status = "queued", !.attempt = @ + 1]
       ELSE jobs[c]]

Restart ==
  /\ Event
  /\ signals' = {} /\ worker' = Idle
  /\ Settled
  /\ cut' = (cut \/ admin = "enabling")
  /\ UNCHANGED <<turns, policy, closing, space, written, closed, cleared>>

\* Some of the exclusions that were being written are there.
Crash ==
  /\ Restart
  /\ \E S \in SUBSET Conversations : ExcludeIn(S)
  /\ job' = Recovered(job)
  /\ UNCHANGED <<owner, summary, docs>>

\* Between the writes of a clear: all exclusions and the fence, perhaps the purge too.
CrashInClear ==
  /\ admin = "clearing"
  /\ Restart
  /\ ExcludeIn(Conversations)
  /\ owner' = [gen |-> owner.gen + 1, fence |-> "fenced"]
  /\ \/ Purged
     \/ job' = Recovered(job) /\ UNCHANGED <<summary, docs>>

-----------------------------------------------------------------------------
Next ==
  \/ \E c \in Conversations :
       \/ Allocate(c) \/ Stabilize(c) \/ TimerFires(c) \/ List(c) \/ Defer(c)
       \/ DeleteConversation(c) \/ FinishConversation(c)
  \/ \E s \in signals : Gate(s) \/ Register(s)
  \/ ClaimRefused \/ ClaimConverges \/ Claim
  \/ AskAll \/ AskSome \/ NoEvidence \/ ModelUnavailable \/ Fails \/ Throws
  \/ \E withDoc \in BOOLEAN : Publish(withDoc)
  \/ Discard
  \/ SwitchOff \/ SwitchMode \/ SwitchOn \/ Enabled
  \/ StartClear \/ Clear \/ Edit
  \/ RemoveSpace \/ FinishSpace
  \/ Crash \/ CrashInClear

Spec == Init /\ [][Next]_vars

\* Reads and model calls are awaited with a timeout; timers fire; turns end; an
\* operation of the user that began goes on.
Fairness ==
  /\ \A c \in Conversations :
       WF_vars(Stabilize(c)) /\ WF_vars(TimerFires(c)) /\ WF_vars(List(c)) /\ WF_vars(Defer(c))
  /\ WF_vars(\E s \in signals : Gate(s) \/ Register(s))
  /\ WF_vars(ClaimRefused \/ ClaimConverges \/ Claim)
  /\ WF_vars(AskAll \/ AskSome \/ NoEvidence)
  /\ WF_vars((\E withDoc \in BOOLEAN : Publish(withDoc)) \/ Discard)
  /\ WF_vars(Enabled) /\ WF_vars(Clear)

FairSpec == Spec /\ Fairness

-----------------------------------------------------------------------------
Known == (UNION {summary[c] : c \in Conversations}) \cup (UNION {d.knows : d \in docs})

\* What was there when the user cleared the memories is never remembered again: not by
\* a request that was on its way, nor by a job that starts later.
ClearedStaysCleared == Known \cap cleared = {}

\* Turns of a time when memory was off are not filled in when it is switched on, as
\* long as no enabling was cut off between the policy and the exclusion.
ClosedStaysClosed == ~cut => Known \cap closed = {}

\* Once a conversation is deleted nothing that was made from it is left, in the
\* document of its Space neither, whatever was being published when it went; and
\* nothing at all is left of a Space that is gone.
DeletedIsGone ==
  /\ \A c \in Conversations : closing[c] = "tombstone" => Known \cap ({c} \X Nat) = {}
  /\ space = "gone" => docs = {} /\ Known = {}

\* The processed boundary is honest: every turn up to it that nothing excludes is in
\* the summary, whatever batches, failures and restarts it took.
BoundaryIsHonest ==
  \A c \in Conversations : closing[c] = "none" /\ space # "gone" =>
     TurnsOf(c, LegalStart(c), progress[c].processed) \subseteq summary[c]

\* A job that is done under the admission still in force left nothing out of what it
\* was asked for, extensions included.
DoneIsCovered ==
  \A c \in Conversations :
    job[c] # NoJob /\ job[c].status = "done" /\ Admitted(c) /\ job[c].rev = Rev
      => job[c].requested <= Floor(c)

\* No admitted turn is passed over: not by the boundary of what was read, and not by a
\* job that calls itself done.
NothingSkipped == BoundaryIsHonest /\ DoneIsCovered

\* An edit of the user is never lost to a revision that had not read it.
EditsAreBuiltOn ==
  \A d, e \in docs : e.id \in e.edits /\ e.id < d.id => e.id \in d.edits

\* Every job comes to an end.
JobsEnd == \A c \in Conversations : Active(c) ~> ~Active(c)
=============================================================================
