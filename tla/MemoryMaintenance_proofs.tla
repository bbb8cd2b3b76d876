---------------------- MODULE MemoryMaintenance_proofs ----------------------
(***************************************************************************)
(* Proofs about MemoryMaintenance, for any conversations of any lengths,   *)
(* any number of attempts and any number of events.                        *)
(*                                                                         *)
(* The invariant is proved in layers, each inductive under those before it *)
(* so that a step is looked at for one concern at a time.                  *)
(***************************************************************************)
EXTENDS MemoryMaintenance, WellFoundedInduction, TLAPS

InFlight == worker.pc \in {"reading", "asking"}

\* What was asked for was asked for under a policy and a generation that were there.
Past(r) == r[1] <= policy.rev /\ r[2] <= owner.gen
RevisionsPast ==
  /\ \A c \in Conversations : job[c] # NoJob => Past(job[c].rev)
  /\ \A s \in signals : s.rev # Ungated => Past(s.rev)
  /\ InFlight => Past(worker.rev)

\* What is remembered of a turn is in a summary or in a revision of the document.
Knows(t) ==
  \/ \E c \in Conversations : t \in summary[c]
  \/ \E d \in docs : t \in d.knows

\* Nothing is known, asked for or marked that was not allocated.
WithinAllocated ==
  /\ \A c \in Conversations :
       /\ stable[c] <= allocated[c]
       /\ progress[c].processed <= allocated[c]
       /\ job[c] # NoJob => job[c].requested <= allocated[c]
  /\ \A s \in signals : s.ord <= allocated[s.conv]
  /\ \A t \in closed : t[2] <= allocated[t[1]]
  /\ \A t \in Turns : Knows(t) => t[2] <= allocated[t[1]]
  /\ InFlight => worker.target <= allocated[worker.conv]
  /\ worker.pc = "asking" => worker.to <= worker.target
  /\ worker.pc = "reading" => worker.legal > 0 /\ worker.from > 0

\* What has been waited for may be claimed: in an enabling nothing of the revision in
\* force, in a clear nothing above the marks it will exclude.
Due(c) == job[c] # NoJob /\ job[c].eligible
UserHolds ==
  /\ admin # "idle" => space = "live"
  /\ space # "live" => owner.fence # "none"
  /\ space = "gone" => owner.fence = "tombstone"
  /\ admin = "enabling" =>
       /\ \A c \in Conversations : Due(c) => job[c].rev # Rev
       /\ InFlight => worker.rev # Rev
  /\ admin = "clearing" =>
       \A c \in Conversations : closing[c] = "none" =>
         /\ progress[c].processed <= marks[c]
         /\ Due(c) => job[c].requested <= marks[c]
         /\ InFlight /\ worker.conv = c => worker.target <= marks[c]

\* While its revision is in force, what the worker has claimed is what is left, and
\* what it has read begins where the exclusions and the summary end.
There(c) == closing[c] = "none" /\ space # "gone"
WorkFits ==
  /\ worker.pc = "asking" =>
       \A t \in worker.seen : t[1] = worker.conv /\ t[2] <= worker.target
  /\ InFlight /\ worker.rev = Rev /\ There(worker.conv) =>
       LET c == worker.conv IN
       /\ worker.pc = "reading" =>
            worker.legal = LegalStart(c) /\ worker.from = Floor(c) + 1
       /\ worker.pc = "asking" =>
            /\ \A t \in worker.seen : progress[c].excluded < t[2]
            /\ TurnsOf(c, worker.first, worker.to) \subseteq worker.seen
            /\ progress[c].excluded < worker.first /\ worker.first <= Floor(c) + 1

\* A summary is of its own conversation, and a revision names what it was made from.
SourcesNamed ==
  /\ \A c \in Conversations : \A t \in summary[c] : t[1] = c
  /\ \A d \in docs : d.id <= written /\ \A t \in d.knows : t[1] \in d.sources

\* What was cleared is excluded, as long as there is a conversation to exclude it from.
ClearedExcluded ==
  \A t \in cleared : There(t[1]) => t[2] <= progress[t[1]].excluded

\* What was closed is excluded whenever memory is on, or is about to be.
ClosedExcluded ==
  ~cut /\ policy.on =>
    \A t \in closed : There(t[1]) =>
      \/ t[2] <= progress[t[1]].excluded
      \/ admin = "enabling" /\ t[2] <= marks[t[1]]

Layers ==
  /\ TypeOK /\ RevisionsPast /\ WithinAllocated /\ UserHolds /\ WorkFits /\ SourcesNamed
  /\ ClearedExcluded /\ ClosedExcluded

-----------------------------------------------------------------------------
(* What the operators do. *)

USE DEF turns, lifecycles, content, user, history

\* What each phase of the worker carries has its type.
LEMMA WorkerKinds ==
  ASSUME TypeOK
  PROVE  /\ worker.pc \in {"idle", "listed", "reading", "asking"}
         /\ worker = Idle <=> worker.pc = "idle"
         /\ worker.pc # "idle" => worker.conv \in Conversations
         /\ worker.pc \in {"reading", "asking"} =>
              worker.rev \in Revisions /\ worker.attempt \in Nat /\ worker.target \in Nat
         /\ worker.pc = "reading" => worker.legal \in Nat /\ worker.from \in Nat
         /\ worker.pc = "asking" =>
              /\ worker.first \in Nat /\ worker.to \in Nat
              /\ worker.seen \subseteq Turns /\ worker.summary \subseteq Turns
              /\ worker.head \subseteq Docs
  BY DEF TypeOK, Workers, Idle

\* So does what a job asks for.
LEMMA JobKinds ==
  ASSUME TypeOK, NEW c \in Conversations, job[c] # NoJob
  PROVE  /\ job[c] \in Jobs
         /\ job[c].status \in {"queued", "running", "done", "failed"}
         /\ job[c].requested \in Nat /\ job[c].attempt \in Nat
         /\ job[c].rev \in Revisions /\ job[c].eligible \in BOOLEAN
  BY DEF TypeOK, Jobs

\* The revision in force, the latest document and the boundaries are what they are read as.
LEMMA RevType ==
  ASSUME TypeOK
  PROVE  Rev \in Revisions /\ Rev[1] = policy.rev /\ Rev[2] = owner.gen
         /\ Head \subseteq docs
         /\ \A c \in Conversations : Floor(c) \in Nat /\ LegalStart(c) \in Nat
              /\ progress[c].processed \in Nat /\ progress[c].excluded \in Nat
              /\ Floor(c) >= progress[c].processed /\ Floor(c) >= progress[c].excluded
              /\ Floor(c) \in {progress[c].processed, progress[c].excluded}
  BY DEF TypeOK, Rev, Revisions, Head, Floor, LegalStart, Max2

\* The jobs that are left were there and ask for the same.
JobsKept ==
  \A c \in Conversations : job'[c] # NoJob =>
    /\ job[c] # NoJob
    /\ job'[c].requested = job[c].requested /\ job'[c].rev = job[c].rev
    /\ job'[c].eligible => job[c].eligible

\* What the properties call Known is, turn by turn, what is remembered.
LEMMA KnownIff ==
  ASSUME TypeOK
  PROVE  \A t : t \in Known <=> t \in Turns /\ Knows(t)
<1>1. ASSUME NEW t
      PROVE  t \in Known <=> Knows(t)
  <2> DEFINE A == UNION {summary[c] : c \in Conversations}
             B == UNION {d.knows : d \in docs}
  <2>1. t \in A <=> \E c \in Conversations : t \in summary[c]
    OBVIOUS
  <2>2. t \in B <=> \E d \in docs : t \in d.knows
    OBVIOUS
  <2>3. Known = A \cup B
    BY DEF Known
  <2> HIDE DEF A, B
  <2> QED
    BY <2>1, <2>2, <2>3 DEF Knows
<1>2. \A t : Knows(t) => t \in Turns
  BY DEF Knows, TypeOK, Docs
<1> QED
  BY <1>1, <1>2

\* Finishing frees the worker and changes at most the status of the job it ran.
LEMMA FinishKeeps ==
  ASSUME TypeOK, InFlight, NEW status \in {"queued", "done", "failed"},
         NEW eligible \in BOOLEAN, Finish(status, eligible)
  PROVE  /\ worker' = Idle
         /\ job' \in [Conversations -> Jobs \cup {NoJob}]
         /\ JobsKept
         /\ \A c \in Conversations : job'[c] # NoJob =>
              job'[c].status =
                IF c = worker.conv /\ Running(c) THEN status ELSE job[c].status
<1>1. worker.conv \in Conversations
  BY WorkerKinds DEF InFlight
<1>2. CASE ~Running(worker.conv)
  BY <1>2 DEF TypeOK, Finish, JobsKept
<1>3. CASE Running(worker.conv)
  <2> DEFINE w == worker.conv
             j == [job[w] EXCEPT !.status = status, !.eligible = @ /\ eligible]
  <2>1. job[w] # NoJob /\ job[w] \in Jobs
    BY <1>1, <1>3, JobKinds DEF Running
  <2>2. j \in Jobs /\ j.requested = job[w].requested /\ j.rev = job[w].rev
        /\ j.status = status /\ (j.eligible => job[w].eligible)
    BY <2>1 DEF Jobs
  <2>3. job' = [job EXCEPT ![w] = j]
    BY <1>1, <1>3, <2>1 DEF Finish, TypeOK, Jobs
  <2> QED
    BY <1>1, <1>3, <2>1, <2>2, <2>3, NoJobAssumption DEF TypeOK, Finish, JobsKept
<1> QED
  BY <1>2, <1>3

\* So does putting the job back or giving it up.
LEMMA RequeueKeeps ==
  ASSUME TypeOK, InFlight, Requeue
  PROVE  /\ worker' = Idle
         /\ job' \in [Conversations -> Jobs \cup {NoJob}]
         /\ JobsKept
         /\ \A c \in Conversations : job'[c] # NoJob =>
              job'[c].status \in {"queued", "failed", job[c].status}
  BY FinishKeeps DEF Requeue

\* Ending or starting an attempt leaves what the job asks for alone.
LEMMA Ended ==
  ASSUME NEW j \in Jobs, NEW status \in {"queued", "running", "done"}
  PROVE  LET k == [j EXCEPT !.status = status, !.attempt = @ + 1] IN
         /\ k \in Jobs /\ k.status = status /\ k.requested = j.requested
         /\ k.rev = j.rev /\ k.eligible = j.eligible
<1> DEFINE e(n) == [j EXCEPT !.status = status, !.attempt = n]
<1>1. \A n \in Nat : /\ e(n) \in Jobs /\ e(n).status = status
                     /\ e(n).requested = j.requested
                     /\ e(n).rev = j.rev /\ e(n).eligible = j.eligible
  BY DEF Jobs
<1>2. j.attempt + 1 \in Nat
  BY DEF Jobs
<1>3. [j EXCEPT !.status = status, !.attempt = @ + 1] = e(j.attempt + 1)
  BY DEF Jobs
<1> QED
  BY <1>1, <1>2, <1>3

\* The recovery at a start queues what was running and asks for nothing new.
LEMMA RecoveredKeeps ==
  ASSUME TypeOK, job' = Recovered(job)
  PROVE  /\ job' \in [Conversations -> Jobs \cup {NoJob}]
         /\ JobsKept
         /\ \A c \in Conversations : job'[c] # NoJob =>
              job'[c].status \in {"queued", job[c].status}
<1> SUFFICES ASSUME NEW c \in Conversations
             PROVE  /\ job'[c] \in Jobs \cup {NoJob}
                    /\ job'[c] # NoJob =>
                         /\ job[c] # NoJob
                         /\ job'[c].requested = job[c].requested /\ job'[c].rev = job[c].rev
                         /\ job'[c].eligible => job[c].eligible
                         /\ job'[c].status \in {"queued", job[c].status}
  BY DEF Recovered, JobsKept
<1>1. CASE job[c] = NoJob
  BY <1>1 DEF Recovered, TypeOK
<1>2. CASE job[c] # NoJob
  <2> DEFINE j == [job[c] EXCEPT !.status = "queued", !.attempt = @ + 1]
  <2>1. job[c] \in Jobs
    BY <1>2, JobKinds
  <2>2. j \in Jobs /\ j.status = "queued" /\ j.requested = job[c].requested
        /\ j.rev = job[c].rev /\ j.eligible = job[c].eligible
    BY <2>1, Ended
  <2>3. job'[c] = IF job[c].status = "running" THEN j ELSE job[c]
    BY <1>2 DEF Recovered
  <2> QED
    BY <1>2, <2>1, <2>2, <2>3
<1> QED
  BY <1>1, <1>2

\* A signal starts a job or extends the one there is, and only what it leaves as it
\* was can be due.
LEMMA ExtendedJob ==
  ASSUME TypeOK, NEW s \in signals, s.rev # Ungated
  PROVE  LET c == s.conv  e == Extended(s) IN
         /\ e \in Jobs
         /\ \/ e.requested = s.ord /\ e.rev = s.rev /\ ~e.eligible
               /\ e.status \in {"queued", "running"}
            \/ Active(c) /\ e = job[c]
<1>1. s.conv \in Conversations /\ s.ord \in Nat /\ s.rev \in Revisions
  BY DEF TypeOK, Signals
<1> DEFINE c == s.conv
           new == [status |-> "queued", requested |-> s.ord, rev |-> s.rev, attempt |-> 0,
                   eligible |-> FALSE]
           more == [job[c] EXCEPT !.requested = s.ord, !.rev = s.rev, !.attempt = 0,
                                  !.eligible = FALSE]
<1>2. new \in Jobs
  BY <1>1 DEF Jobs
<1>3. ASSUME Active(c)
      PROVE  /\ job[c] \in Jobs
             /\ more \in Jobs /\ more.requested = s.ord /\ more.rev = s.rev
             /\ ~more.eligible /\ more.status \in {"queued", "running"}
  <2>1. job[c] \in Jobs /\ job[c].status \in {"queued", "running"}
    BY <1>1, <1>3, JobKinds DEF Active
  <2> QED
    BY <1>1, <2>1 DEF Jobs
<1>4. Extended(s) = IF ~Active(c) THEN new
                    ELSE IF s.ord <= job[c].requested THEN job[c] ELSE more
  BY DEF Extended
<1> QED
  BY <1>2, <1>3, <1>4

\* The worker lets go of its job.
LEMMA LetGo ==
  ASSUME TypeOK, NoEvidence \/ ModelUnavailable \/ Fails \/ Throws \/ Discard
  PROVE  /\ worker' = Idle /\ InFlight
         /\ job' \in [Conversations -> Jobs \cup {NoJob}]
         /\ JobsKept
         /\ UNCHANGED <<turns, policy, lifecycles, content, signals, user, history>>
         /\ events' \in Nat
<1>1. InFlight
  BY DEF NoEvidence, ModelUnavailable, Fails, Throws, Discard, InFlight
<1>2. CASE NoEvidence
  BY <1>1, <1>2, FinishKeeps DEF NoEvidence, TypeOK
<1>3. CASE ModelUnavailable
  BY <1>1, <1>3, RequeueKeeps DEF ModelUnavailable, Event, TypeOK
<1>4. CASE Fails
  <2>1. Finish("failed", TRUE)
    BY <1>4 DEF Fails
  <2>2. /\ events' \in Nat
        /\ UNCHANGED <<turns, policy, lifecycles, content, signals, user, history>>
    BY <1>4 DEF Fails, Event, TypeOK
  <2>3. /\ worker' = Idle /\ JobsKept
        /\ job' \in [Conversations -> Jobs \cup {NoJob}]
    BY <1>1, <2>1, FinishKeeps
  <2> QED
    BY <1>1, <2>2, <2>3
<1>5. CASE Throws
  <2>1. Finish("queued", FALSE)
    BY <1>5 DEF Throws
  <2>2. /\ events' \in Nat
        /\ UNCHANGED <<turns, policy, lifecycles, content, signals, user, history>>
    BY <1>5 DEF Throws, Event, TypeOK
  <2>3. /\ worker' = Idle /\ JobsKept
        /\ job' \in [Conversations -> Jobs \cup {NoJob}]
    BY <1>1, <2>1, FinishKeeps
  <2> QED
    BY <1>1, <2>2, <2>3
<1>6. CASE Discard
  BY <1>1, <1>6, FinishKeeps, RequeueKeeps DEF Discard, TypeOK
<1> QED
  BY <1>2, <1>3, <1>4, <1>5, <1>6

\* A batch is published.
LEMMA PublishMoves ==
  ASSUME TypeOK, NEW withDoc \in BOOLEAN, Publish(withDoc)
  PROVE  LET c == worker.conv IN
         /\ worker.pc = "asking" /\ InFlight /\ worker' = Idle /\ c \in Conversations
         /\ job' \in [Conversations -> Jobs \cup {NoJob}]
         /\ JobsKept
         /\ Publishable(c) /\ Admitted(c) /\ worker.rev = Rev
         /\ summary[c] = worker.summary /\ Head = worker.head
         /\ NewSummary \in SUBSET Turns
         /\ NewDoc(c) \in Docs /\ NewDoc(c).id = written + 1
         /\ NewDoc(c).knows = NewSummary \cup UNION {d.knows : d \in Head}
         /\ NewDoc(c).sources = {c} \cup UNION {d.sources : d \in Head}
         /\ NewDoc(c).edits = UNION {d.edits : d \in Head}
         /\ worker.to \in Nat
         /\ summary' = [summary EXCEPT ![c] = NewSummary]
         /\ docs' \subseteq docs \cup {NewDoc(c)} /\ docs \subseteq docs'
         /\ progress' = [progress EXCEPT ![c].processed = worker.to]
         /\ progress' \in [Conversations -> [processed : Nat, excluded : Nat]]
         /\ \A d \in Conversations :
              /\ progress'[d].excluded = progress[d].excluded
              /\ progress'[d].processed =
                   IF d = c THEN worker.to ELSE progress[d].processed
         /\ written' \in Nat /\ written' >= written
         /\ docs' # docs => written' = written + 1
         /\ UNCHANGED <<turns, policy, lifecycles, signals, user, history, events>>
<1> DEFINE w == worker.conv
<1>1. /\ worker.pc = "asking" /\ InFlight /\ w \in Conversations /\ worker.to \in Nat
      /\ worker.seen \subseteq Turns /\ worker.summary \subseteq Turns
      /\ worker.head \subseteq Docs
  BY WorkerKinds DEF Publish, InFlight
<1>2. /\ Publishable(w) /\ Admitted(w) /\ worker.rev = Rev
      /\ summary[w] = worker.summary /\ Head = worker.head
  BY DEF Publish, Publishable, SameHeads, SameSummary
<1>3. /\ worker' = Idle /\ job' \in [Conversations -> Jobs \cup {NoJob}]
      /\ JobsKept
  BY <1>1, FinishKeeps DEF Publish
<1>4. NewSummary \in SUBSET Turns
  BY <1>1 DEF NewSummary
<1>5. /\ NewDoc(w) \in Docs /\ NewDoc(w).id = written + 1
      /\ NewDoc(w).knows = NewSummary \cup UNION {d.knows : d \in Head}
      /\ NewDoc(w).sources = {w} \cup UNION {d.sources : d \in Head}
      /\ NewDoc(w).edits = UNION {d.edits : d \in Head}
  BY <1>1, <1>2, <1>4, RevType DEF NewDoc, Docs, TypeOK
<1>6. /\ progress' = [progress EXCEPT ![w].processed = worker.to]
      /\ progress' \in [Conversations -> [processed : Nat, excluded : Nat]]
      /\ \A d \in Conversations :
           /\ progress'[d].excluded = progress[d].excluded
           /\ progress'[d].processed = IF d = w THEN worker.to ELSE progress[d].processed
  BY <1>1 DEF Publish, Advanced, TypeOK
<1>7. /\ summary' = [summary EXCEPT ![w] = NewSummary]
      /\ docs' \subseteq docs \cup {NewDoc(w)} /\ docs \subseteq docs'
      /\ written' \in Nat /\ written' >= written
      /\ docs' # docs => written' = written + 1
      /\ UNCHANGED <<turns, policy, lifecycles, signals, user, history, events>>
  BY DEF Publish, TypeOK
<1> QED
  BY <1>1, <1>2, <1>3, <1>4, <1>5, <1>6, <1>7

\* The turns read before a batch are the conversation's, from the legal start on.
LEMMA AdjacentIn ==
  ASSUME NEW c, NEW legal \in Nat, NEW from \in Nat
  PROVE  \A t \in Adjacent(c, legal, from) : t = <<c, t[2]>> /\ t[2] \in legal..(from - 1)
  BY DEF Adjacent

\* An exclusion never goes back, and reaches the marks.
LEMMA ExcludeInMoves ==
  ASSUME TypeOK, NEW S \in SUBSET Conversations, ExcludeIn(S)
  PROVE  /\ progress' \in [Conversations -> [processed : Nat, excluded : Nat]]
         /\ \A c \in Conversations :
              /\ progress'[c].processed = progress[c].processed
              /\ progress'[c].excluded >= progress[c].excluded
              /\ c \in S => progress'[c].excluded >= marks[c]
  BY DEF TypeOK, ExcludeIn, Max2

-----------------------------------------------------------------------------
(* What a step does to each part of the state. *)

\* A job asks for what it did, or for what a signal asks; it becomes due only while the
\* user waits for nothing.
JobsMove ==
  \A c \in Conversations : job'[c] # NoJob =>
    \/ /\ job[c] # NoJob
       /\ job'[c].requested = job[c].requested /\ job'[c].rev = job[c].rev
       /\ job'[c].eligible => job[c].eligible \/ admin = "idle"
    \/ \E s \in signals : /\ s.conv = c /\ s.rev # Ungated
                          /\ job'[c].requested = s.ord /\ job'[c].rev = s.rev
                          /\ ~job'[c].eligible

\* Turns are only added, and what ends was allocated.
TurnsMove ==
  /\ \A c \in Conversations :
       /\ allocated'[c] >= allocated[c]
       /\ stable[c] <= allocated[c] => stable'[c] <= allocated'[c]
  /\ \A t \in closed' : t \in closed \/ t[2] <= allocated'[t[1]]

SignalsMove ==
  \A s \in signals' :
    \/ s \in signals
    \/ s.rev = Rev /\ \E q \in signals : s.conv = q.conv /\ s.ord = q.ord
    \/ s.rev = Ungated /\ s.ord <= allocated[s.conv]

Claims ==
  LET c == worker.conv IN
  /\ worker.pc = "listed" /\ worker'.pc = "reading" /\ worker'.conv = c
  /\ Due(c) /\ Admitted(c) /\ job[c].rev = Rev /\ worker'.rev = Rev
  /\ worker'.legal = LegalStart(c) /\ worker'.from = Floor(c) + 1
  /\ worker'.target = job[c].requested
  /\ UNCHANGED <<turns, policy, lifecycles, content, signals, user, history, events>>

Asks ==
  /\ worker.pc = "reading" /\ worker'.pc = "asking"
  /\ worker'.conv = worker.conv /\ worker'.rev = worker.rev
  /\ worker'.target = worker.target
  /\ worker'.first \in {worker.legal, worker.from} /\ worker'.to <= worker.target
  /\ \A t \in worker'.seen :
       /\ t[1] = worker.conv /\ t[2] <= worker.target
       /\ worker.legal <= t[2] \/ worker.from <= t[2]
  /\ TurnsOf(worker.conv, worker'.first, worker'.to) \subseteq worker'.seen
  /\ UNCHANGED <<turns, policy, lifecycles, content, job, signals, user, history, events>>

WorkerMoves == worker' = worker \/ worker'.pc \in {"idle", "listed"} \/ Claims \/ Asks

\* The revision in force only goes forward, and what admits a conversation again goes
\* forward with it.
LifeMoves ==
  /\ policy'.rev >= policy.rev /\ owner'.gen >= owner.gen
  /\ \A c \in Conversations :
       /\ There(c)' => There(c)
       /\ Admitted(c)' /\ Rev' = Rev => Admitted(c)

\* A batch of the worker's is published.
Published == \E withDoc \in BOOLEAN : Publish(withDoc)

\* What holds when a batch is published, with or without a document.
LEMMA PublishedMeans ==
  ASSUME TypeOK, Published
  PROVE  /\ worker.pc = "asking" /\ InFlight /\ worker' = Idle
         /\ worker.conv \in Conversations
         /\ Publishable(worker.conv) /\ Admitted(worker.conv) /\ worker.rev = Rev
         /\ summary' =
              [summary EXCEPT ![worker.conv] = summary[worker.conv] \cup worker.seen]
<1>1. PICK withDoc \in BOOLEAN : Publish(withDoc)
  BY DEF Published
<1> QED
  BY <1>1, PublishMoves DEF NewSummary

ProgressMoves ==
  \A c \in Conversations :
    /\ \/ progress'[c].processed \in {progress[c].processed, 0}
       \/ Published /\ c = worker.conv /\ progress'[c].processed = worker.to
    /\ There(c)' =>
         /\ progress'[c].excluded >= progress[c].excluded
         /\ \/ progress'[c].processed = progress[c].processed
            \/ Published /\ c = worker.conv /\ progress'[c].processed = worker.to
         /\ \/ progress'[c].excluded = progress[c].excluded
            \/ admin = "enabling" \/ worker' = Idle \/ owner'.gen > owner.gen

KnownMoves == \A t \in Turns : Knows(t)' => Knows(t) \/ (Published /\ t \in worker.seen)

\* Every step moves the jobs that way.
LEMMA JobsStep ==
  ASSUME TypeOK, [Next]_vars
  PROVE  JobsMove
<1>1. ASSUME NEW c \in Conversations,
          Allocate(c) \/ Stabilize(c) \/ List(c) \/ DeleteConversation(c)
      PROVE  JobsMove
  BY <1>1 DEF JobsMove, Allocate, Stabilize, List, DeleteConversation
<1>2. ASSUME NEW c \in Conversations, TimerFires(c) \/ Defer(c)
      PROVE  JobsMove
  BY <1>2, JobKinds DEF JobsMove, TimerFires, Defer, Queued, Jobs, TypeOK
<1>3. ASSUME NEW c \in Conversations, FinishConversation(c)
      PROVE  JobsMove
  BY <1>3 DEF JobsMove, FinishConversation, TypeOK
<1>4. ASSUME NEW s \in signals, Gate(s)
      PROVE  JobsMove
  BY <1>4 DEF JobsMove, Gate
<1>5. ASSUME NEW s \in signals, Register(s)
      PROVE  JobsMove
  <2>1. s.conv \in Conversations /\ job' = [job EXCEPT ![s.conv] = Extended(s)]
    BY <1>5 DEF Register, TypeOK, Signals
  <2> QED
    BY <1>5, <2>1, ExtendedJob DEF JobsMove, Register, TypeOK
<1>6. ASSUME NEW withDoc \in BOOLEAN, Publish(withDoc)
      PROVE  JobsMove
  BY <1>6, PublishMoves DEF JobsMove, JobsKept
<1>7. ASSUME ClaimRefused \/ AskAll \/ AskSome \/ SwitchOff \/ SwitchMode \/
          SwitchOn \/ Enabled \/ StartClear \/ Edit \/ RemoveSpace \/ UNCHANGED vars
      PROVE  JobsMove
  BY <1>7 DEF JobsMove, ClaimRefused, AskAll, AskSome, SwitchOff, SwitchMode, SwitchOn,
     Enabled, StartClear, Edit, RemoveSpace, vars
<1>8. ASSUME ClaimConverges
      PROVE  JobsMove
  <2> DEFINE w == worker.conv
             j == [job[w] EXCEPT !.status = "done", !.attempt = @ + 1]
  <2>1. w \in Conversations /\ job[w] # NoJob /\ job[w] \in Jobs
    BY <1>8, WorkerKinds, JobKinds DEF ClaimConverges, Claimable, Queued
  <2>2. j.requested = job[w].requested /\ j.rev = job[w].rev /\ j.eligible = job[w].eligible
    BY <2>1, Ended
  <2>3. job' = [job EXCEPT ![w] = j]
    BY <1>8, <2>1 DEF ClaimConverges, TypeOK, Jobs
  <2> HIDE DEF j
  <2> QED
    BY <2>1, <2>2, <2>3 DEF JobsMove, TypeOK
<1>9. ASSUME Claim
      PROVE  JobsMove
  <2> DEFINE w == worker.conv
             j == [job[w] EXCEPT !.status = "running", !.attempt = @ + 1]
  <2>1. w \in Conversations /\ job[w] # NoJob /\ job[w] \in Jobs
    BY <1>9, WorkerKinds, JobKinds DEF Claim, Claimable, Queued
  <2>2. j.requested = job[w].requested /\ j.rev = job[w].rev /\ j.eligible = job[w].eligible
    BY <2>1, Ended
  <2>3. job' = [job EXCEPT ![w] = j]
    BY <1>9, <2>1 DEF Claim, TypeOK, Jobs
  <2> HIDE DEF j
  <2> QED
    BY <2>1, <2>2, <2>3 DEF JobsMove, TypeOK
<1>10. ASSUME NoEvidence \/ ModelUnavailable \/ Fails \/ Throws \/ Discard
      PROVE  JobsMove
  BY <1>10, LetGo DEF JobsMove, JobsKept
<1>11. ASSUME Clear \/ FinishSpace
      PROVE  JobsMove
  BY <1>11 DEF JobsMove, Clear, FinishSpace, Purged
<1>12. ASSUME Crash
      PROVE  JobsMove
  BY <1>12, RecoveredKeeps DEF Crash, JobsMove, JobsKept
<1>13. ASSUME CrashInClear
      PROVE  JobsMove
  BY <1>13, RecoveredKeeps DEF CrashInClear, Purged, JobsMove, JobsKept
<1> QED
  BY <1>1, <1>2, <1>3, <1>4, <1>5, <1>6, <1>7, <1>8, <1>9, <1>10, <1>11, <1>12, <1>13
     DEF Next

\* Every step moves the turns that way.
LEMMA TurnsStep ==
  ASSUME TypeOK, [Next]_vars
  PROVE  TurnsMove
<1>1. ASSUME NEW c \in Conversations,
          Allocate(c) \/ TimerFires(c) \/ List(c) \/ Defer(c) \/
          DeleteConversation(c) \/ FinishConversation(c)
      PROVE  TurnsMove
  BY <1>1 DEF TurnsMove, TypeOK, Allocate, TimerFires, List, Defer, DeleteConversation,
     FinishConversation, Restart
<1>2. ASSUME NEW c \in Conversations, Stabilize(c)
      PROVE  TurnsMove
  BY <1>2 DEF TurnsMove, TypeOK, Stabilize, Busy
<1>3. ASSUME NEW s \in signals, Gate(s) \/ Register(s)
      PROVE  TurnsMove
  BY <1>3 DEF TurnsMove, TypeOK, Gate, Register, Restart
<1>4. ASSUME NEW withDoc \in BOOLEAN, Publish(withDoc)
      PROVE  TurnsMove
  BY <1>4, PublishMoves DEF TurnsMove, TypeOK
<1>5. ASSUME ClaimRefused \/ ClaimConverges \/ Claim \/ AskAll \/ AskSome \/
          SwitchOff \/ SwitchMode \/ SwitchOn \/ Enabled \/ StartClear \/ Clear \/
          Edit \/ RemoveSpace \/ FinishSpace \/ Crash \/ CrashInClear \/ UNCHANGED vars
      PROVE  TurnsMove
  BY <1>5 DEF TurnsMove, TypeOK, ClaimRefused, ClaimConverges, Claim, AskAll, AskSome,
     SwitchOff, SwitchMode, SwitchOn, Enabled, StartClear, Clear, Edit, RemoveSpace,
     FinishSpace, Crash, CrashInClear, Restart, vars
<1>6. ASSUME NoEvidence \/ ModelUnavailable \/ Fails \/ Throws \/ Discard
      PROVE  TurnsMove
  BY <1>6, LetGo DEF TurnsMove, TypeOK
<1> QED
  BY <1>1, <1>2, <1>3, <1>4, <1>5, <1>6 DEF Next

\* Every step moves the signals that way.
LEMMA SignalsStep ==
  ASSUME TypeOK, [Next]_vars
  PROVE  SignalsMove
<1>1. ASSUME NEW c \in Conversations,
          Allocate(c) \/ TimerFires(c) \/ List(c) \/ Defer(c) \/
          DeleteConversation(c) \/ FinishConversation(c)
      PROVE  SignalsMove
  BY <1>1 DEF SignalsMove, Allocate, TimerFires, List, Defer, DeleteConversation,
     FinishConversation, Restart
<1>2. ASSUME NEW c \in Conversations, Stabilize(c)
      PROVE  SignalsMove
  BY <1>2 DEF SignalsMove, Stabilize, Busy, TypeOK
<1>3. ASSUME NEW s \in signals, Register(s)
      PROVE  SignalsMove
  BY <1>3 DEF SignalsMove, Register, Restart
<1>4. ASSUME NEW s \in signals, Gate(s)
      PROVE  SignalsMove
  BY <1>4, RevType DEF SignalsMove, Gate, TypeOK, Signals
<1>5. ASSUME NEW withDoc \in BOOLEAN, Publish(withDoc)
      PROVE  SignalsMove
  BY <1>5, PublishMoves DEF SignalsMove
<1>6. ASSUME ClaimRefused \/ ClaimConverges \/ Claim \/ AskAll \/ AskSome \/
          SwitchOff \/ SwitchMode \/ SwitchOn \/ Enabled \/ StartClear \/ Clear \/
          Edit \/ RemoveSpace \/ FinishSpace \/ Crash \/ CrashInClear \/ UNCHANGED vars
      PROVE  SignalsMove
  BY <1>6 DEF SignalsMove, ClaimRefused, ClaimConverges, Claim, AskAll, AskSome,
     SwitchOff, SwitchMode, SwitchOn, Enabled, StartClear, Clear, Edit, RemoveSpace,
     FinishSpace, Crash, CrashInClear, Restart, vars
<1>7. ASSUME NoEvidence \/ ModelUnavailable \/ Fails \/ Throws \/ Discard
      PROVE  SignalsMove
  BY <1>7, LetGo DEF SignalsMove
<1> QED
  BY <1>1, <1>2, <1>3, <1>4, <1>5, <1>6, <1>7 DEF Next

\* Every step moves the worker that way.
LEMMA WorkerStep ==
  ASSUME TypeOK, [Next]_vars
  PROVE  WorkerMoves
<1>1. ASSUME NEW c \in Conversations,
          Allocate(c) \/ Stabilize(c) \/ TimerFires(c) \/ List(c) \/ Defer(c) \/
          DeleteConversation(c) \/ FinishConversation(c)
      PROVE  WorkerMoves
  BY <1>1 DEF WorkerMoves, Allocate, Stabilize, TimerFires, List, Defer,
     DeleteConversation, FinishConversation, Restart, Idle
<1>2. ASSUME NEW s \in signals, Gate(s) \/ Register(s)
      PROVE  WorkerMoves
  BY <1>2 DEF WorkerMoves, Gate, Register, Restart, Idle
<1>3. ASSUME NEW withDoc \in BOOLEAN, Publish(withDoc)
      PROVE  WorkerMoves
  BY <1>3, PublishMoves DEF WorkerMoves, Idle
<1>4. ASSUME ClaimRefused \/ ClaimConverges \/ SwitchOff \/ SwitchMode \/ SwitchOn \/
          Enabled \/ StartClear \/ Clear \/ Edit \/ RemoveSpace \/ FinishSpace \/
          Crash \/ CrashInClear \/ UNCHANGED vars
      PROVE  WorkerMoves
  BY <1>4 DEF WorkerMoves, ClaimRefused, ClaimConverges, SwitchOff, SwitchMode,
     SwitchOn, Enabled, StartClear, Clear, Edit, RemoveSpace, FinishSpace, Crash,
     CrashInClear, Restart, Idle, vars
<1>5. ASSUME Claim
      PROVE  WorkerMoves
  BY <1>5, JobKinds, WorkerKinds DEF WorkerMoves, Claim, Claims, Claimable, Queued,
     Wanted, Due
<1>6. ASSUME AskAll
      PROVE  WorkerMoves
  BY <1>6, WorkerKinds DEF WorkerMoves, AskAll, Asks, Ask, TurnsOf
<1>7. ASSUME AskSome
      PROVE  WorkerMoves
  BY <1>7, WorkerKinds, AdjacentIn DEF WorkerMoves, AskSome, Asks, Ask, TurnsOf
<1>8. ASSUME NoEvidence \/ ModelUnavailable \/ Fails \/ Throws \/ Discard
      PROVE  WorkerMoves
  BY <1>8, LetGo DEF WorkerMoves, Idle
<1> QED
  BY <1>1, <1>2, <1>3, <1>4, <1>5, <1>6, <1>7, <1>8 DEF Next

\* Every step moves policy and fences that way.
LEMMA LifeStep ==
  ASSUME TypeOK, [Next]_vars
  PROVE  LifeMoves
<1>1. ASSUME NEW c \in Conversations,
          Allocate(c) \/ Stabilize(c) \/ TimerFires(c) \/ List(c) \/ Defer(c)
      PROVE  LifeMoves
  BY <1>1 DEF LifeMoves, TypeOK, There, Admitted, Rev, Allocate, Stabilize, TimerFires,
     List, Defer, Restart
<1>2. ASSUME NEW c \in Conversations, DeleteConversation(c) \/ FinishConversation(c)
      PROVE  LifeMoves
  BY <1>2 DEF LifeMoves, TypeOK, There, Admitted, Rev, DeleteConversation,
     FinishConversation, Fences
<1>3. ASSUME NEW s \in signals, Gate(s) \/ Register(s)
      PROVE  LifeMoves
  BY <1>3 DEF LifeMoves, TypeOK, There, Admitted, Rev, Gate, Register, Restart
<1>4. ASSUME NEW withDoc \in BOOLEAN, Publish(withDoc)
      PROVE  LifeMoves
  BY <1>4, PublishMoves DEF LifeMoves, TypeOK, There, Admitted
<1>5. ASSUME ClaimRefused \/ ClaimConverges \/ Claim \/ AskAll \/ AskSome \/
          SwitchOff \/ SwitchMode \/ SwitchOn \/ Enabled \/ StartClear \/ Edit \/
          Crash \/ CrashInClear \/ UNCHANGED vars
      PROVE  LifeMoves
  BY <1>5 DEF LifeMoves, TypeOK, There, Admitted, Rev, ClaimRefused, ClaimConverges,
     Claim, AskAll, AskSome, SwitchOff, SwitchMode, SwitchOn, Enabled, StartClear, Edit,
     Crash, CrashInClear, Restart, vars
<1>6. ASSUME NoEvidence \/ ModelUnavailable \/ Fails \/ Throws \/ Discard
      PROVE  LifeMoves
  BY <1>6, LetGo DEF LifeMoves, TypeOK, There, Admitted
<1>7. ASSUME Clear \/ RemoveSpace \/ FinishSpace
      PROVE  LifeMoves
  BY <1>7 DEF LifeMoves, TypeOK, There, Admitted, Rev, Clear, RemoveSpace, FinishSpace
<1> QED
  BY <1>1, <1>2, <1>3, <1>4, <1>5, <1>6, <1>7 DEF Next

\* Every step moves the boundaries that way.
LEMMA ProgressStep ==
  ASSUME TypeOK, [Next]_vars
  PROVE  ProgressMoves
<1>1. ASSUME NEW c \in Conversations,
          Allocate(c) \/ Stabilize(c) \/ TimerFires(c) \/ List(c) \/ Defer(c) \/
          DeleteConversation(c)
      PROVE  ProgressMoves
  BY <1>1 DEF ProgressMoves, TypeOK, Allocate, Stabilize, TimerFires, List, Defer,
     DeleteConversation
<1>2. ASSUME NEW c \in Conversations, FinishConversation(c)
      PROVE  ProgressMoves
  BY <1>2 DEF ProgressMoves, TypeOK, FinishConversation, NoProgress, There
<1>3. ASSUME NEW s \in signals, Gate(s) \/ Register(s)
      PROVE  ProgressMoves
  BY <1>3 DEF ProgressMoves, TypeOK, Gate, Register
<1>4. ASSUME NEW withDoc \in BOOLEAN, Publish(withDoc)
      PROVE  ProgressMoves
  BY <1>4, PublishMoves DEF ProgressMoves, TypeOK, Published
<1>5. ASSUME ClaimRefused \/ ClaimConverges \/ Claim \/ AskAll \/ AskSome \/
          SwitchOff \/ SwitchMode \/ SwitchOn \/ StartClear \/ Edit \/ RemoveSpace \/
          UNCHANGED vars
      PROVE  ProgressMoves
  BY <1>5 DEF ProgressMoves, TypeOK, ClaimRefused, ClaimConverges, Claim, AskAll,
     AskSome, SwitchOff, SwitchMode, SwitchOn, StartClear, Edit, RemoveSpace, vars
<1>6. ASSUME FinishSpace
      PROVE  ProgressMoves
  BY <1>6 DEF ProgressMoves, TypeOK, FinishSpace, NoProgress, There
<1>7. ASSUME NoEvidence \/ ModelUnavailable \/ Fails \/ Throws \/ Discard
      PROVE  ProgressMoves
  BY <1>7, LetGo DEF ProgressMoves, TypeOK
<1>8. ASSUME Enabled \/ Clear
      PROVE  ProgressMoves
  BY <1>8, ExcludeInMoves DEF ProgressMoves, TypeOK, Enabled, Clear
<1>9. ASSUME Crash
      PROVE  ProgressMoves
  BY <1>9, ExcludeInMoves DEF ProgressMoves, TypeOK, Crash, Restart
<1>10. ASSUME CrashInClear
      PROVE  ProgressMoves
  BY <1>10, ExcludeInMoves DEF ProgressMoves, TypeOK, CrashInClear, Restart
<1> QED
  BY <1>1, <1>2, <1>3, <1>4, <1>5, <1>6, <1>7, <1>8, <1>9, <1>10 DEF Next

\* Only a batch makes a turn remembered that was not.
LEMMA KnownStep ==
  ASSUME TypeOK, [Next]_vars
  PROVE  KnownMoves
<1>1. ASSUME NEW c \in Conversations,
          Allocate(c) \/ Stabilize(c) \/ TimerFires(c) \/ List(c) \/ Defer(c)
      PROVE  KnownMoves
  BY <1>1 DEF KnownMoves, Knows, Allocate, Stabilize, TimerFires, List, Defer, Restart
<1>2. ASSUME NEW c \in Conversations, DeleteConversation(c) \/ FinishConversation(c)
      PROVE  KnownMoves
  BY <1>2 DEF KnownMoves, Knows, DeleteConversation, FinishConversation, Without, TypeOK
<1>3. ASSUME NEW s \in signals, Gate(s) \/ Register(s)
      PROVE  KnownMoves
  BY <1>3 DEF KnownMoves, Knows, Gate, Register, Restart
<1>4. ASSUME NEW withDoc \in BOOLEAN, Publish(withDoc)
      PROVE  KnownMoves
  <2> DEFINE w == worker.conv
  <2>1. \A t \in NewSummary : t \in summary[w] \/ t \in worker.seen
    BY <1>4, PublishMoves DEF NewSummary
  <2>2. \A t \in NewDoc(w).knows : t \in NewSummary \/ \E d \in docs : t \in d.knows
    BY <1>4, PublishMoves, RevType
  <2>3. /\ w \in Conversations /\ summary' = [summary EXCEPT ![w] = NewSummary]
        /\ docs' \subseteq docs \cup {NewDoc(w)} /\ Published
    BY <1>4, PublishMoves DEF Published
  <2> QED
    BY <2>1, <2>2, <2>3 DEF KnownMoves, Knows, TypeOK
<1>5. ASSUME ClaimRefused \/ ClaimConverges \/ Claim \/ AskAll \/ AskSome \/
          SwitchOff \/ SwitchMode \/ SwitchOn \/ Enabled \/ StartClear \/
          RemoveSpace \/ UNCHANGED vars
      PROVE  KnownMoves
  BY <1>5 DEF KnownMoves, Knows, ClaimRefused, ClaimConverges, Claim, AskAll, AskSome,
     SwitchOff, SwitchMode, SwitchOn, Enabled, StartClear, RemoveSpace, Restart, vars
<1>6. ASSUME Clear \/ FinishSpace
      PROVE  KnownMoves
  BY <1>6 DEF KnownMoves, Knows, Clear, FinishSpace, Purged
<1>7. ASSUME Edit
      PROVE  KnownMoves
  BY <1>7, RevType DEF KnownMoves, Knows, Edit
<1>8. ASSUME NoEvidence \/ ModelUnavailable \/ Fails \/ Throws \/ Discard
      PROVE  KnownMoves
  BY <1>8, LetGo DEF KnownMoves, Knows
<1>9. ASSUME Crash
      PROVE  KnownMoves
  BY <1>9 DEF KnownMoves, Knows, Crash, Restart
<1>10. ASSUME CrashInClear
      PROVE  KnownMoves
  BY <1>10 DEF KnownMoves, Knows, CrashInClear, Restart, Purged
<1> QED
  BY <1>1, <1>2, <1>3, <1>4, <1>5, <1>6, <1>7, <1>8, <1>9, <1>10 DEF Next

\* Every step keeps the types.
LEMMA TypeStep ==
  ASSUME Layers, [Next]_vars
  PROVE  TypeOK'
<1>1. ASSUME NEW c \in Conversations, Allocate(c)
      PROVE  TypeOK'
  BY <1>1 DEF Layers, TypeOK, WithinAllocated, Event, Allocate, Turns
<1>2. ASSUME NEW c \in Conversations, Stabilize(c)
      PROVE  TypeOK'
  BY <1>2 DEF Layers, TypeOK, WithinAllocated, Event, Stabilize, Busy, Signals
<1>3. ASSUME NEW c \in Conversations, TimerFires(c)
      PROVE  TypeOK'
  <2> DEFINE j == [job[c] EXCEPT !.eligible = TRUE]
  <2>1. TypeOK /\ job[c] # NoJob /\ job[c] \in Jobs
    BY <1>3, JobKinds DEF Layers, TimerFires, Queued
  <2>2. j \in Jobs
    BY <2>1 DEF Jobs
  <2>3. job' = [job EXCEPT ![c] = j]
    BY <1>3, <2>1 DEF TimerFires, TypeOK, Jobs
  <2> HIDE DEF j
  <2> QED
    BY <1>3, <2>1, <2>2, <2>3 DEF TimerFires, TypeOK
<1>4. ASSUME NEW c \in Conversations, List(c)
      PROVE  TypeOK'
  BY <1>4 DEF Layers, TypeOK, WithinAllocated, Event, List, Workers, Idle
<1>5. ASSUME ClaimRefused
      PROVE  TypeOK'
  BY <1>5 DEF Layers, TypeOK, WithinAllocated, Event, ClaimRefused, Workers, Idle
<1>6. ASSUME NEW c \in Conversations, Defer(c)
      PROVE  TypeOK'
  <2> DEFINE j == [job[c] EXCEPT !.eligible = FALSE]
  <2>1. TypeOK /\ job[c] # NoJob /\ job[c] \in Jobs
    BY <1>6, JobKinds DEF Layers, Defer, Queued
  <2>2. j \in Jobs
    BY <2>1 DEF Jobs
  <2>3. job' = [job EXCEPT ![c] = j]
    BY <1>6, <2>1 DEF Defer, TypeOK, Jobs
  <2> HIDE DEF j
  <2> QED
    BY <1>6, <2>1, <2>2, <2>3 DEF Defer, TypeOK
<1>7. ASSUME NEW c \in Conversations, DeleteConversation(c)
      PROVE  TypeOK'
  BY <1>7 DEF Layers, TypeOK, WithinAllocated, Event, DeleteConversation, Without,
     Fences
<1>8. ASSUME NEW c \in Conversations, FinishConversation(c)
      PROVE  TypeOK'
  BY <1>8 DEF Layers, TypeOK, WithinAllocated, Event, FinishConversation, Without,
     Fences, NoProgress
<1>9. ASSUME NEW s \in signals, Gate(s)
      PROVE  TypeOK'
  BY <1>9, RevType DEF Layers, TypeOK, WithinAllocated, Event, Gate, Signals
<1>10. ASSUME NEW s \in signals, Register(s)
      PROVE  TypeOK'
  BY <1>10, ExtendedJob DEF Layers, TypeOK, WithinAllocated, Event, Register, Signals
<1>11. ASSUME ClaimConverges
      PROVE  TypeOK'
  <2> DEFINE w == worker.conv
             j == [job[w] EXCEPT !.status = "done", !.attempt = @ + 1]
  <2>1. w \in Conversations /\ job[w] \in Jobs /\ job[w] # NoJob
    BY <1>11, WorkerKinds, JobKinds DEF Layers, ClaimConverges, Claimable, Queued
  <2>2. j \in Jobs
    BY <2>1, Ended
  <2>3. job' = [job EXCEPT ![w] = j] /\ worker' = Idle
    BY <1>11, <2>1 DEF ClaimConverges, Layers, TypeOK, Jobs
  <2> QED
    BY <1>11, <2>1, <2>2, <2>3 DEF ClaimConverges, Layers, TypeOK, Workers
<1>12. ASSUME Claim
      PROVE  TypeOK'
  <2> DEFINE w == worker.conv
             j == [job[w] EXCEPT !.status = "running", !.attempt = @ + 1]
  <2>1. w \in Conversations /\ job[w] \in Jobs /\ job[w] # NoJob
    BY <1>12, WorkerKinds, JobKinds DEF Layers, Claim, Claimable, Queued
  <2>2. j \in Jobs
    BY <2>1, Ended
  <2>3. job' = [job EXCEPT ![w] = j]
    BY <1>12, <2>1 DEF Claim, Layers, TypeOK, Jobs
  <2>4. worker' \in Workers
    BY <1>12, <2>1, RevType DEF Claim, Layers, Workers, Jobs
  <2> HIDE DEF j
  <2> QED
    BY <1>12, <2>1, <2>2, <2>3, <2>4 DEF Claim, Layers, TypeOK
<1>13. ASSUME AskAll
      PROVE  TypeOK'
  BY <1>13, WorkerKinds, RevType DEF Layers, TypeOK, WithinAllocated, Event, AskAll,
     Ask, Workers, TurnsOf, Turns
<1>14. ASSUME AskSome
      PROVE  TypeOK'
  BY <1>14, WorkerKinds, RevType, AdjacentIn DEF Layers, TypeOK, WithinAllocated, Event,
     AskSome, Ask, Workers, TurnsOf, Turns
<1>15. ASSUME NoEvidence \/ ModelUnavailable \/ Fails \/ Throws \/ Discard
      PROVE  TypeOK'
  BY <1>15, LetGo DEF Layers, TypeOK, Workers
<1>16. ASSUME NEW withDoc \in BOOLEAN, Publish(withDoc)
      PROVE  TypeOK'
  BY <1>16, PublishMoves DEF Layers, TypeOK, Workers
<1>17. ASSUME SwitchOff
      PROVE  TypeOK'
  BY <1>17 DEF Layers, TypeOK, WithinAllocated, Event, SwitchOff
<1>18. ASSUME SwitchMode
      PROVE  TypeOK'
  BY <1>18 DEF Layers, TypeOK, WithinAllocated, Event, SwitchMode
<1>19. ASSUME SwitchOn
      PROVE  TypeOK'
  BY <1>19 DEF Layers, TypeOK, WithinAllocated, Event, SwitchOn, HighWaters
<1>20. ASSUME StartClear
      PROVE  TypeOK'
  BY <1>20 DEF Layers, TypeOK, WithinAllocated, Event, StartClear, HighWaters
<1>21. ASSUME RemoveSpace
      PROVE  TypeOK'
  BY <1>21 DEF Layers, TypeOK, WithinAllocated, Event, RemoveSpace, Fences
<1>22. ASSUME Enabled \/ Clear
      PROVE  TypeOK'
  BY <1>22, ExcludeInMoves DEF Layers, TypeOK, WithinAllocated, Event, Enabled, Clear,
     Settled, Purged, NoMarks, TurnsOf, Turns, Fences
<1>23. ASSUME Edit
      PROVE  TypeOK'
  BY <1>23, RevType DEF Layers, TypeOK, WithinAllocated, Event, Edit, Docs
<1>24. ASSUME FinishSpace
      PROVE  TypeOK'
  BY <1>24 DEF Layers, TypeOK, WithinAllocated, Event, FinishSpace, Purged, NoProgress,
     Fences
<1>25. ASSUME Crash
      PROVE  TypeOK'
  BY <1>25, ExcludeInMoves, RecoveredKeeps DEF Layers, TypeOK, WithinAllocated, Event,
     Crash, Restart, Settled, NoMarks, Workers
<1>26. ASSUME CrashInClear
      PROVE  TypeOK'
  BY <1>26, ExcludeInMoves, RecoveredKeeps DEF Layers, TypeOK, WithinAllocated, Event,
     CrashInClear, Restart, Settled, Purged, NoMarks, Workers, Fences
<1>27. ASSUME UNCHANGED vars
      PROVE  TypeOK'
  BY <1>27 DEF Layers, TypeOK, WithinAllocated, Event, vars
<1> QED
  BY <1>1, <1>2, <1>3, <1>4, <1>5, <1>6, <1>7, <1>8, <1>9, <1>10, <1>11, <1>12, <1>13,
     <1>14, <1>15, <1>16, <1>17, <1>18, <1>19, <1>20, <1>21, <1>22, <1>23, <1>24, <1>25,
     <1>26, <1>27 DEF Next

-----------------------------------------------------------------------------
(* The layers. *)

\* Revisions stay in the past: the one in force only goes forward.
LEMMA RevisionsPastStep ==
  ASSUME Layers, [Next]_vars
  PROVE  RevisionsPast'
<1>1. TypeOK /\ TypeOK' /\ LifeMoves
  BY TypeStep, LifeStep DEF Layers
<1>2. \A r \in Revisions : Past(r) => Past(r)'
  BY <1>1 DEF Past, LifeMoves, TypeOK, Revisions
<1>3. ASSUME NEW c \in Conversations, job'[c] # NoJob
      PROVE  (Past(job[c].rev))'
  <2> DEFINE r == job'[c].rev
  <2>1. r \in Revisions
    BY <1>1, <1>3 DEF TypeOK, Jobs
  <2>2. CASE job[c] # NoJob /\ r = job[c].rev
    BY <1>1, <1>2, <2>1, <2>2 DEF Layers, RevisionsPast, Past
  <2>3. CASE \E s \in signals : s.rev # Ungated /\ r = s.rev
    BY <1>1, <1>2, <2>1, <2>3 DEF Layers, RevisionsPast, Past
  <2> QED
    BY <1>1, <1>3, <2>2, <2>3, JobsStep DEF JobsMove
<1>4. ASSUME NEW s \in signals', s.rev # Ungated
      PROVE  Past(s.rev)'
  <2>1. CASE s \in signals
    BY <1>1, <1>2, <1>4, <2>1 DEF Layers, RevisionsPast, TypeOK, Signals
  <2>2. CASE s.rev = Rev
    <3>1. s.rev \in Revisions /\ Past(s.rev)
      BY <1>1, <2>2, RevType DEF Past, TypeOK
    <3> QED
      BY <1>2, <3>1
  <2> QED
    BY <1>1, <1>4, <2>1, <2>2, SignalsStep DEF SignalsMove
<1>5. (InFlight => Past(worker.rev))'
  BY <1>1, <1>2, WorkerStep, WorkerKinds, RevType
     DEF Layers, RevisionsPast, InFlight, WorkerMoves, Claims, Asks, Past, TypeOK
<1> QED
  BY <1>3, <1>4, <1>5 DEF RevisionsPast

\* Everything stays within what was allocated.
LEMMA WithinAllocatedStep ==
  ASSUME Layers, [Next]_vars
  PROVE  WithinAllocated'
<1>1. TypeOK /\ TypeOK' /\ WithinAllocated
  BY TypeStep DEF Layers
<1>2. TurnsMove
  BY <1>1, TurnsStep
<1>3. ASSUME NEW c \in Conversations
      PROVE  (stable[c] <= allocated[c])'
  BY <1>1, <1>2 DEF TurnsMove, WithinAllocated
<1>4. ASSUME NEW c \in Conversations
      PROVE  (progress[c].processed <= allocated[c])'
  <2>1. Published => worker.to <= worker.target /\ worker.target <= allocated[worker.conv]
    BY <1>1, PublishedMeans DEF WithinAllocated, InFlight
  <2>2. /\ {progress[c].processed, allocated[c], allocated'[c]} \subseteq Nat
        /\ progress[c].processed <= allocated[c] /\ allocated[c] <= allocated'[c]
    BY <1>1, <1>2 DEF TurnsMove, WithinAllocated, TypeOK
  <2>3. CASE progress'[c].processed \in {progress[c].processed, 0}
    BY <2>2, <2>3
  <2>4. CASE Published /\ c = worker.conv /\ progress'[c].processed = worker.to
    <3>1. worker.to \in Nat /\ worker.target \in Nat
      BY <1>1, <2>4, PublishedMeans, WorkerKinds
    <3> QED
      BY <2>1, <2>2, <2>4, <3>1
  <2> QED
    BY <1>1, <2>3, <2>4, ProgressStep DEF ProgressMoves
<1>5. ASSUME NEW c \in Conversations, job'[c] # NoJob
      PROVE  (job[c].requested <= allocated[c])'
  <2> DEFINE n == job'[c].requested
  <2>1. n \in Nat
    BY <1>1, <1>5 DEF TypeOK, Jobs
  <2>2. CASE job[c] # NoJob /\ n = job[c].requested
    BY <1>1, <1>2, <2>1, <2>2 DEF TurnsMove, WithinAllocated, TypeOK
  <2>3. CASE \E s \in signals : s.conv = c /\ n = s.ord
    BY <1>1, <1>2, <2>1, <2>3 DEF TurnsMove, WithinAllocated, TypeOK
  <2> QED
    BY <1>1, <1>5, <2>2, <2>3, JobsStep DEF JobsMove
<1>6. ASSUME NEW s \in signals'
      PROVE  s.ord <= allocated'[s.conv]
  <2>1. s.conv \in Conversations /\ s.ord \in Nat
    BY <1>1, <1>6 DEF TypeOK, Signals
  <2>2. s.ord <= allocated[s.conv]
    BY <1>1, <1>6, <2>1, SignalsStep DEF SignalsMove, WithinAllocated
  <2> QED
    BY <1>1, <1>2, <2>1, <2>2 DEF TurnsMove, TypeOK
<1>7. ASSUME NEW t \in closed'
      PROVE  t[2] <= allocated'[t[1]]
  <2>1. t[1] \in Conversations /\ t[2] \in Nat
    BY <1>1, <1>7 DEF TypeOK, Turns
  <2>2. CASE t \in closed
    BY <1>1, <1>2, <2>1, <2>2 DEF TurnsMove, WithinAllocated, TypeOK
  <2> QED
    BY <1>2, <1>7, <2>2 DEF TurnsMove
<1>8. ASSUME NEW t \in Turns, Knows(t)'
      PROVE  t[2] <= allocated'[t[1]]
  <2>1. t[1] \in Conversations /\ t[2] \in Nat
    BY DEF Turns
  <2>2. CASE Knows(t)
    BY <1>1, <1>2, <2>1, <2>2 DEF TurnsMove, WithinAllocated, TypeOK
  <2>3. CASE Published /\ t \in worker.seen
    <3>1. t[1] = worker.conv /\ t[2] <= worker.target /\ worker.target <= allocated[t[1]]
          /\ worker.target \in Nat
      BY <1>1, <2>3, PublishedMeans, WorkerKinds
         DEF Layers, WorkFits, WithinAllocated, InFlight
    <3> QED
      BY <1>1, <1>2, <2>1, <3>1 DEF TurnsMove, TypeOK
  <2> QED
    BY <1>1, <1>8, <2>2, <2>3, KnownStep DEF KnownMoves
<1>9. /\ InFlight' => worker'.target <= allocated'[worker'.conv]
      /\ worker'.pc = "asking" => worker'.to <= worker'.target
      /\ worker'.pc = "reading" => worker'.legal > 0 /\ worker'.from > 0
  <2>1. WorkerMoves
    BY <1>1, WorkerStep
  <2>2. CASE worker' = worker
    BY <1>1, <1>2, <2>2, WorkerKinds DEF TurnsMove, WithinAllocated, TypeOK, InFlight
  <2>3. CASE worker'.pc \in {"idle", "listed"}
    BY <2>3 DEF InFlight
  <2>4. CASE Claims
    BY <1>1, <1>2, <2>4, WorkerKinds, RevType, JobKinds
       DEF Claims, TurnsMove, WithinAllocated, TypeOK, InFlight, Due, LegalStart
  <2>5. CASE Asks
    BY <1>1, <1>2, <2>5, WorkerKinds
       DEF Asks, TurnsMove, WithinAllocated, TypeOK, InFlight
  <2> QED
    BY <2>1, <2>2, <2>3, <2>4, <2>5 DEF WorkerMoves
<1> QED
  BY <1>3, <1>4, <1>5, <1>6, <1>7, <1>8, <1>9 DEF WithinAllocated, InFlight

\* The steps that are not the user's, nor a stop of the program.
LEMMA StillHolds ==
  ASSUME Layers, [Next]_vars, UNCHANGED <<policy, user, owner, space>>
  PROVE  UserHolds'
<1>1. TypeOK /\ TypeOK' /\ UserHolds /\ WithinAllocated /\ Rev' = Rev
  BY TypeStep DEF Layers, Rev
<1>2. JobsMove /\ WorkerMoves /\ LifeMoves /\ ProgressMoves
  BY <1>1, JobsStep, WorkerStep, LifeStep, ProgressStep
<1>3. ASSUME admin = "enabling", NEW c \in Conversations, Due(c)'
      PROVE  job'[c].rev # Rev
  BY <1>1, <1>2, <1>3 DEF JobsMove, UserHolds, Due
<1>4. ASSUME admin = "enabling", InFlight'
      PROVE  worker'.rev # Rev
  BY <1>1, <1>2, <1>4, WorkerKinds DEF WorkerMoves, Claims, Asks, UserHolds, InFlight
<1>5. ASSUME admin = "clearing", NEW c \in Conversations, closing'[c] = "none"
      PROVE  /\ progress'[c].processed <= marks[c]
             /\ Due(c)' => job'[c].requested <= marks[c]
             /\ InFlight' /\ worker'.conv = c => worker'.target <= marks[c]
  <2>1. /\ closing[c] = "none"
        /\ progress[c].processed <= marks[c]
        /\ Due(c) => job[c].requested <= marks[c]
        /\ InFlight /\ worker.conv = c => worker.target <= marks[c]
    BY <1>1, <1>2, <1>5 DEF LifeMoves, There, UserHolds
  <2>2. progress'[c].processed <= marks[c]
    <3>1. Published /\ c = worker.conv => worker.to <= marks[c]
      BY <1>1, <2>1, PublishedMeans, WorkerKinds DEF WithinAllocated, InFlight, TypeOK
    <3> QED
      BY <1>1, <1>2, <2>1, <3>1 DEF ProgressMoves, TypeOK
  <2>3. Due(c)' => job'[c].requested <= marks[c]
    BY <1>2, <1>5, <2>1 DEF JobsMove, Due
  <2>4. InFlight' /\ worker'.conv = c => worker'.target <= marks[c]
    BY <1>1, <1>2, <2>1, WorkerKinds DEF WorkerMoves, Claims, Asks, InFlight
  <2> QED
    BY <2>2, <2>3, <2>4
<1> QED
  BY <1>1, <1>3, <1>4, <1>5 DEF UserHolds

\* What the user waits for keeps its hold: a switch makes every revision an old one, a clear
\* marks all that was allocated.
LEMMA UserHoldsStep ==
  ASSUME Layers, [Next]_vars
  PROVE  UserHolds'
<1>1. TypeOK /\ TypeOK' /\ UserHolds
  BY TypeStep DEF Layers
<1> DEFINE Still == UNCHANGED <<policy, user, owner, space>>
<1>2. ASSUME NEW c \in Conversations,
             Allocate(c) \/ Stabilize(c) \/ TimerFires(c) \/ List(c) \/ Defer(c) \/
             DeleteConversation(c) \/ FinishConversation(c)
      PROVE  Still
  BY <1>2 DEF Allocate, Stabilize, TimerFires, List, Defer, DeleteConversation,
     FinishConversation
<1>3. ASSUME NEW s \in signals, Gate(s) \/ Register(s)
      PROVE  Still
  BY <1>3 DEF Gate, Register
<1>4. ASSUME NEW withDoc \in BOOLEAN, Publish(withDoc)
      PROVE  Still
  BY <1>4 DEF Publish
<1>5. ASSUME NoEvidence \/ ModelUnavailable \/ Fails \/ Throws \/ Discard
      PROVE  Still
  BY <1>5 DEF NoEvidence, ModelUnavailable, Fails, Throws, Discard
<1>6. ASSUME ClaimRefused \/ ClaimConverges \/ Claim \/ AskAll \/ AskSome \/ Edit \/
             UNCHANGED vars
      PROVE  Still
  BY <1>6 DEF ClaimRefused, ClaimConverges, Claim, AskAll, AskSome, Edit, vars
<1>7. ASSUME SwitchOff \/ SwitchMode \/ RemoveSpace \/ FinishSpace
      PROVE  UserHolds'
  BY <1>1, <1>7 DEF UserHolds, SwitchOff, SwitchMode, RemoveSpace, FinishSpace, TypeOK
<1>8. ASSUME Enabled \/ Clear
      PROVE  UserHolds'
  BY <1>1, <1>8 DEF UserHolds, Enabled, Clear, Settled
<1>9. ASSUME Crash
      PROVE  UserHolds'
  BY <1>1, <1>9 DEF UserHolds, Crash, Restart, Settled
<1>10. ASSUME CrashInClear
      PROVE  UserHolds'
  BY <1>1, <1>10 DEF UserHolds, CrashInClear, Restart, Settled
<1>11. ASSUME SwitchOn
      PROVE  UserHolds'
  <2>1. /\ space = "live" /\ UNCHANGED <<lifecycles, job, worker>>
        /\ admin' = "enabling" /\ policy'.rev = policy.rev + 1
    BY <1>11 DEF SwitchOn
  <2>2. \A r \in Revisions : Past(r) => r # Rev'
    BY <1>1, <2>1 DEF Past, Rev, TypeOK, Revisions
  <2>3. ASSUME NEW c \in Conversations, Due(c)'
        PROVE  job'[c].rev # Rev'
    BY <1>1, <2>1, <2>2, <2>3, JobKinds DEF Due, Layers, RevisionsPast
  <2>4. InFlight' => worker'.rev # Rev'
    BY <1>1, <2>1, <2>2, WorkerKinds DEF InFlight, Layers, RevisionsPast
  <2> QED
    BY <2>1, <2>3, <2>4 DEF UserHolds
<1>12. ASSUME StartClear
      PROVE  UserHolds'
  <2>1. /\ space = "live" /\ UNCHANGED <<lifecycles, progress, job, worker>>
        /\ admin' = "clearing"
        /\ \A c \in Conversations : closing[c] = "none" => marks'[c] = allocated[c]
    BY <1>12 DEF StartClear, HighWaters
  <2> QED
    BY <2>1 DEF UserHolds, Layers, WithinAllocated, Due, InFlight
<1>13. Still => UserHolds'
  BY StillHolds
<1> QED
  BY <1>2, <1>3, <1>4, <1>5, <1>6, <1>7, <1>8, <1>9, <1>10, <1>11, <1>12, <1>13
     DEF Next

\* The worker's claim stays what is left: whoever moves a boundary under it frees it, ends
\* its conversation or makes another revision.
LEMMA WorkFitsStep ==
  ASSUME Layers, [Next]_vars
  PROVE  WorkFits'
<1>1. TypeOK /\ TypeOK' /\ WorkFits /\ WithinAllocated /\ RevisionsPast /\ UserHolds
  BY TypeStep DEF Layers
<1>2. WorkerMoves /\ LifeMoves /\ ProgressMoves
  BY <1>1, WorkerStep, LifeStep, ProgressStep
<1>3. CASE worker'.pc \in {"idle", "listed"}
  BY <1>3 DEF WorkFits, InFlight
<1>4. CASE Claims
  BY <1>1, <1>4, RevType DEF Claims, WorkFits, InFlight, LegalStart, Floor
<1>5. CASE Asks
  <2> DEFINE c == worker.conv
  <2>1. /\ worker'.conv = c /\ worker'.rev = worker.rev /\ worker'.target = worker.target
        /\ Rev' = Rev /\ There(c)' = There(c) /\ progress' = progress
        /\ worker.pc = "reading" /\ worker'.pc = "asking" /\ c \in Conversations
    BY <1>1, <1>5, WorkerKinds DEF Asks, Rev, There
  <2>2. \A t \in worker'.seen : t[1] = c /\ t[2] <= worker.target
    BY <1>5 DEF Asks
  <2>3. ASSUME worker.rev = Rev, There(c)
        PROVE  /\ \A t \in worker'.seen : progress[c].excluded < t[2]
               /\ TurnsOf(c, worker'.first, worker'.to) \subseteq worker'.seen
               /\ progress[c].excluded < worker'.first /\ worker'.first <= Floor(c) + 1
    <3>1. worker.legal = LegalStart(c) /\ worker.from = Floor(c) + 1
      BY <1>1, <2>1, <2>3 DEF WorkFits, InFlight
    <3>2. /\ Floor(c) \in Nat /\ progress[c].excluded \in Nat
          /\ progress[c].excluded <= Floor(c) /\ LegalStart(c) = progress[c].excluded + 1
      BY <1>1, <2>1, RevType DEF LegalStart
    <3>3. worker'.seen \subseteq Turns /\ worker'.first \in Nat
      BY <1>1, <2>1 DEF TypeOK, Workers, Idle
    <3>4. ASSUME NEW t \in worker'.seen
          PROVE  progress[c].excluded < t[2]
      <4>1. t[2] \in Nat /\ (worker.legal <= t[2] \/ worker.from <= t[2])
        BY <1>5, <3>3 DEF Asks, Turns
      <4> QED
        BY <3>1, <3>2, <4>1
    <3> QED
      BY <1>5, <3>1, <3>2, <3>3, <3>4 DEF Asks
  <2> QED
    BY <2>1, <2>2, <2>3 DEF WorkFits, InFlight, TurnsOf, Floor, LegalStart
<1>6. CASE worker' = worker /\ InFlight
  <2> DEFINE c == worker.conv
  <2>1. c \in Conversations /\ worker.rev \in Revisions /\ worker # Idle
    BY <1>1, <1>6, WorkerKinds DEF InFlight
  <2>2. ASSUME worker.rev = Rev', There(c)'
        PROVE  worker.rev = Rev /\ There(c) /\ progress'[c] = progress[c]
    <3>1. There(c)
      BY <1>2, <1>6, <2>1, <2>2 DEF LifeMoves, There
    <3>2. /\ {policy.rev, policy'.rev, owner.gen, owner'.gen} \subseteq Nat
          /\ progress[c] \in [processed : Nat, excluded : Nat]
          /\ progress'[c] \in [processed : Nat, excluded : Nat]
      BY <1>1, <2>1 DEF TypeOK
    <3>3. worker.rev[1] <= policy.rev /\ worker.rev[2] <= owner.gen
      BY <1>1, <1>6 DEF RevisionsPast, Past
    <3>4. policy'.rev = policy.rev /\ owner'.gen = owner.gen
      BY <1>2, <2>2, <3>2, <3>3 DEF LifeMoves, Rev
    <3>5. worker.rev = Rev
      BY <2>2, <3>4 DEF Rev
    <3>6. admin # "enabling"
      BY <1>1, <1>6, <3>5 DEF UserHolds
    <3>7. progress'[c].excluded = progress[c].excluded
      BY <1>2, <1>6, <2>1, <2>2, <3>2, <3>4, <3>6 DEF ProgressMoves
    <3>8. progress'[c].processed = progress[c].processed
      BY <1>1, <1>2, <1>6, <2>1, <2>2, <3>2, PublishedMeans DEF ProgressMoves
    <3> QED
      BY <3>1, <3>2, <3>5, <3>7, <3>8
  <2>3. CASE ~(worker.rev = Rev' /\ There(c)')
    BY <1>1, <1>6, <2>3 DEF WorkFits, InFlight
  <2>4. CASE worker.rev = Rev' /\ There(c)'
    BY <1>1, <1>6, <2>2, <2>4 DEF WorkFits, InFlight, Floor, LegalStart
  <2> QED
    BY <2>3, <2>4
<1>7. CASE worker' = worker /\ ~InFlight
  BY <1>7 DEF WorkFits, InFlight
<1> QED
  BY <1>2, <1>3, <1>4, <1>5, <1>6, <1>7 DEF WorkerMoves

\* Other than by a batch or an edit, memories only get fewer.
Forgets ==
  /\ \A c \in Conversations : summary'[c] \subseteq summary[c]
  /\ docs' \subseteq docs /\ written' = written
ContentMoves == Forgets \/ Published \/ Edit

\* Every step is one of the three.
LEMMA ForgetStep ==
  ASSUME TypeOK, [Next]_vars
  PROVE  ContentMoves
<1>1. ASSUME NEW c \in Conversations,
          Allocate(c) \/ Stabilize(c) \/ TimerFires(c) \/ List(c) \/ Defer(c)
      PROVE  ContentMoves
  BY <1>1 DEF ContentMoves, Forgets, Allocate, Stabilize, TimerFires, List, Defer
<1>2. ASSUME NEW c \in Conversations, DeleteConversation(c) \/ FinishConversation(c)
      PROVE  ContentMoves
  BY <1>2 DEF ContentMoves, Forgets, DeleteConversation, FinishConversation, Without,
     TypeOK
<1>3. ASSUME NEW s \in signals, Gate(s) \/ Register(s)
      PROVE  ContentMoves
  BY <1>3 DEF ContentMoves, Forgets, Gate, Register
<1>4. ASSUME NEW withDoc \in BOOLEAN, Publish(withDoc)
      PROVE  ContentMoves
  BY <1>4 DEF ContentMoves, Published
<1>5. ASSUME ClaimRefused \/ ClaimConverges \/ Claim \/ AskAll \/ AskSome \/
          SwitchOff \/ SwitchMode \/ SwitchOn \/ Enabled \/ StartClear \/
          RemoveSpace \/ UNCHANGED vars
      PROVE  ContentMoves
  BY <1>5 DEF ContentMoves, Forgets, ClaimRefused, ClaimConverges, Claim, AskAll,
     AskSome, SwitchOff, SwitchMode, SwitchOn, Enabled, StartClear, RemoveSpace, vars
<1>6. ASSUME NoEvidence \/ ModelUnavailable \/ Fails \/ Throws \/ Discard
      PROVE  ContentMoves
  BY <1>6, LetGo DEF ContentMoves, Forgets
<1>7. ASSUME Edit
      PROVE  ContentMoves
  BY <1>7 DEF ContentMoves
<1>8. ASSUME Clear \/ FinishSpace
      PROVE  ContentMoves
  BY <1>8 DEF ContentMoves, Forgets, Clear, FinishSpace, Purged, TypeOK
<1>9. ASSUME Crash
      PROVE  ContentMoves
  BY <1>9 DEF ContentMoves, Forgets, Crash, Restart
<1>10. ASSUME CrashInClear
      PROVE  ContentMoves
  BY <1>10 DEF ContentMoves, Forgets, CrashInClear, Restart, Purged, TypeOK
<1> QED
  BY <1>1, <1>2, <1>3, <1>4, <1>5, <1>6, <1>7, <1>8, <1>9, <1>10 DEF Next

\* Summaries and documents keep naming where they come from.
LEMMA SourcesNamedStep ==
  ASSUME Layers, [Next]_vars
  PROVE  SourcesNamed'
<1>1. TypeOK /\ TypeOK' /\ SourcesNamed /\ WorkFits
  BY TypeStep DEF Layers
<1>2. CASE Forgets
  BY <1>1, <1>2 DEF Forgets, SourcesNamed
<1>3. ASSUME NEW withDoc \in BOOLEAN, Publish(withDoc)
      PROVE  SourcesNamed'
  <2> DEFINE c == worker.conv
  <2>1. /\ c \in Conversations /\ worker.pc = "asking"
        /\ summary' = [summary EXCEPT ![c] = NewSummary]
        /\ docs' \subseteq docs \cup {NewDoc(c)}
        /\ docs' # docs => written' = written + 1
        /\ written' >= written /\ written \in Nat /\ written' \in Nat
    BY <1>1, <1>3, PublishMoves DEF TypeOK
  <2>2. \A t \in NewSummary : t[1] = c
    <3>1. NewSummary = summary[c] \cup worker.seen
      BY <1>1, <1>3, PublishMoves DEF NewSummary
    <3> QED
      BY <1>1, <2>1, <3>1 DEF SourcesNamed, WorkFits
  <2>3. \A t \in NewDoc(c).knows : t[1] \in NewDoc(c).sources
    <3>1. /\ NewDoc(c).knows = NewSummary \cup UNION {d.knows : d \in Head}
          /\ NewDoc(c).sources = {c} \cup UNION {d.sources : d \in Head}
      BY <1>1, <1>3, PublishMoves
    <3>2. \A t \in UNION {d.knows : d \in Head} : t[1] \in UNION {d.sources : d \in Head}
      BY <1>1, RevType DEF SourcesNamed
    <3> QED
      BY <2>2, <3>1, <3>2
  <2>4. NewDoc(c).id = written + 1
    BY <1>1, <1>3, PublishMoves
  <2>5. \A d \in docs : d.id \in Nat /\ d.id <= written
    BY <1>1 DEF TypeOK, Docs, SourcesNamed
  <2>6. ASSUME NEW d \in docs'
        PROVE  d.id <= written' /\ \A t \in d.knows : t[1] \in d.sources
    <3>1. CASE d \in docs
      BY <1>1, <2>1, <2>5, <3>1 DEF SourcesNamed
    <3>2. CASE d \notin docs
      BY <2>1, <2>3, <2>4, <3>2
    <3> QED
      BY <3>1, <3>2
  <2>7. \A d \in Conversations : \A t \in summary'[d] : t[1] = d
    BY <1>1, <2>1, <2>2 DEF SourcesNamed, TypeOK
  <2> QED
    BY <2>6, <2>7 DEF SourcesNamed
<1>4. CASE Edit
  <2>1. \A t \in UNION {d.knows : d \in Head} : t[1] \in UNION {d.sources : d \in Head}
    BY <1>1, RevType DEF SourcesNamed
  <2>2. written' = written + 1 /\ written \in Nat /\ summary' = summary
    BY <1>1, <1>4 DEF Edit, TypeOK
  <2>3. \A d \in docs' : /\ d.id = written + 1
                         /\ d.knows = UNION {e.knows : e \in Head}
                         /\ d.sources = UNION {e.sources : e \in Head}
    BY <1>4 DEF Edit
  <2> QED
    BY <1>1, <2>1, <2>2, <2>3 DEF SourcesNamed
<1> QED
  BY <1>1, <1>2, <1>3, <1>4, ForgetStep DEF ContentMoves, Published

\* What was cleared or closed is remembered as such, and what keeps it excluded stays.
Stays ==
  /\ closed' = closed /\ cut' = cut /\ policy'.on = policy.on
  /\ admin = "enabling" => admin' = "enabling" /\ marks' = marks
HistoryMoves ==
  /\ cleared' = cleared \/ Clear
  /\ cut => cut'
  /\ \/ closed' = closed
     \/ /\ UNCHANGED <<summary, docs>>
        /\ \A t \in closed' : t \in closed \/ allocated[t[1]] < t[2]
  /\ Stays \/ ~policy'.on \/ cut' \/ SwitchOn \/ Enabled

\* Every step moves the history that way.
LEMMA HistoryStep ==
  ASSUME TypeOK, [Next]_vars
  PROVE  HistoryMoves
<1>1. ASSUME NEW c \in Conversations,
          Stabilize(c) \/ TimerFires(c) \/ List(c) \/ Defer(c) \/
          DeleteConversation(c) \/ FinishConversation(c)
      PROVE  HistoryMoves
  BY <1>1 DEF HistoryMoves, Stays, Stabilize, TimerFires, List, Defer,
     DeleteConversation, FinishConversation
<1>2. ASSUME NEW c \in Conversations, Allocate(c)
      PROVE  HistoryMoves
  BY <1>2 DEF HistoryMoves, Stays, Allocate, TypeOK
<1>3. ASSUME NEW s \in signals, Gate(s) \/ Register(s)
      PROVE  HistoryMoves
  BY <1>3 DEF HistoryMoves, Stays, Gate, Register
<1>4. ASSUME NEW withDoc \in BOOLEAN, Publish(withDoc)
      PROVE  HistoryMoves
  BY <1>4 DEF HistoryMoves, Stays, Publish
<1>5. ASSUME ClaimRefused \/ ClaimConverges \/ Claim \/ AskAll \/ AskSome \/
          SwitchOn \/ Enabled \/ StartClear \/ Clear \/ Edit \/ RemoveSpace \/
          FinishSpace \/ UNCHANGED vars
      PROVE  HistoryMoves
  BY <1>5 DEF HistoryMoves, Stays, ClaimRefused, ClaimConverges, Claim, AskAll, AskSome,
     SwitchOn, Enabled, StartClear, Clear, Edit, RemoveSpace, FinishSpace, vars
<1>6. ASSUME NoEvidence \/ ModelUnavailable \/ Fails \/ Throws \/ Discard
      PROVE  HistoryMoves
  BY <1>6, LetGo DEF HistoryMoves, Stays
<1>7. ASSUME SwitchOff \/ SwitchMode
      PROVE  HistoryMoves
  BY <1>7 DEF HistoryMoves, Stays, SwitchOff, SwitchMode, TypeOK
<1>8. ASSUME Crash \/ CrashInClear
      PROVE  HistoryMoves
  <2>1. /\ closed' = closed /\ cleared' = cleared /\ policy' = policy
        /\ cut' = (cut \/ admin = "enabling")
    BY <1>8 DEF Crash, CrashInClear, Restart
  <2>2. CASE cut'
    BY <2>1, <2>2 DEF HistoryMoves
  <2>3. CASE ~cut'
    <3>1. ~cut /\ admin # "enabling"
      BY <2>1, <2>3
    <3>2. cut' = cut
      BY <2>1, <3>1 DEF TypeOK
    <3> QED
      BY <2>1, <3>1, <3>2 DEF HistoryMoves, Stays
  <2> QED
    BY <2>2, <2>3
<1> QED
  BY <1>1, <1>2, <1>3, <1>4, <1>5, <1>6, <1>7, <1>8 DEF Next

\* Cleared turns stay excluded.
LEMMA ClearedExcludedStep ==
  ASSUME Layers, [Next]_vars
  PROVE  ClearedExcluded'
<1>1. TypeOK /\ TypeOK' /\ ClearedExcluded
  BY TypeStep DEF Layers
<1>2. LifeMoves /\ ProgressMoves
  BY <1>1, LifeStep, ProgressStep
<1>3. ASSUME NEW t \in cleared, (There(t[1]))'
      PROVE  t[2] <= progress'[t[1]].excluded
  <2>1. t[1] \in Conversations /\ t[2] \in Nat
    BY <1>1 DEF TypeOK, Turns
  <2>2. t[2] <= progress[t[1]].excluded
    BY <1>1, <1>2, <1>3, <2>1 DEF LifeMoves, ClearedExcluded, There
  <2>3. progress'[t[1]].excluded >= progress[t[1]].excluded
    BY <1>2, <1>3, <2>1 DEF ProgressMoves, There
  <2> QED
    BY <1>1, <2>1, <2>2, <2>3 DEF TypeOK
<1>4. CASE cleared' = cleared
  BY <1>3, <1>4 DEF ClearedExcluded, There
<1>5. CASE Clear
  <2>1. \A t \in cleared' : t \in cleared
           \/ (t[1] \in Conversations /\ t[2] \in Nat /\ t[2] <= marks[t[1]])
    <3>1. cleared' = cleared \cup UNION {TurnsOf(c, 1, marks[c]) : c \in Conversations}
      BY <1>5 DEF Clear
    <3>2. \A c \in Conversations : \A t \in TurnsOf(c, 1, marks[c]) :
            t[1] = c /\ t[2] \in Nat /\ t[2] <= marks[c]
      BY <1>1 DEF TurnsOf, TypeOK
    <3>3. ASSUME NEW t \in UNION {TurnsOf(c, 1, marks[c]) : c \in Conversations}
          PROVE  \E c \in Conversations : t \in TurnsOf(c, 1, marks[c])
      OBVIOUS
    <3>4. ASSUME NEW t \in UNION {TurnsOf(c, 1, marks[c]) : c \in Conversations}
          PROVE  t[1] \in Conversations /\ t[2] \in Nat /\ t[2] <= marks[t[1]]
      <4>1. PICK c \in Conversations : t \in TurnsOf(c, 1, marks[c])
        BY <3>3
      <4> QED
        BY <3>2, <4>1
    <3> QED
      BY <3>1, <3>4
  <2>2. \A c \in Conversations : progress'[c].excluded >= marks[c]
    BY <1>1, <1>5, ExcludeInMoves DEF Clear
  <2>3. \A c \in Conversations : progress'[c].excluded \in Nat /\ marks[c] \in Nat
    BY <1>1 DEF TypeOK
  <2> QED
    BY <1>3, <2>1, <2>2, <2>3 DEF ClearedExcluded, There
<1>6. cleared' = cleared \/ Clear
  BY <1>1, HistoryStep DEF HistoryMoves
<1> QED
  BY <1>4, <1>5, <1>6

\* Closed turns stay excluded, or are marked by the enabling under way.
LEMMA ClosedExcludedStep ==
  ASSUME Layers, [Next]_vars
  PROVE  ClosedExcluded'
<1>1. TypeOK /\ TypeOK' /\ ClosedExcluded /\ WithinAllocated
  BY TypeStep DEF Layers
<1>2. LifeMoves /\ ProgressMoves
  BY <1>1, LifeStep, ProgressStep
\* What is excluded stays excluded.
<1>3. ASSUME NEW t \in closed, (There(t[1]))', t[2] <= progress[t[1]].excluded
      PROVE  t[2] <= progress'[t[1]].excluded
  <2>1. t[1] \in Conversations /\ t[2] \in Nat
    BY <1>1 DEF TypeOK, Turns
  <2>2. progress'[t[1]].excluded >= progress[t[1]].excluded
    BY <1>2, <1>3, <2>1 DEF ProgressMoves, There
  <2> QED
    BY <1>1, <1>3, <2>1, <2>2 DEF TypeOK
<1>4. \A t \in closed :
        t[1] \in Conversations /\ t[2] \in Nat /\ ((There(t[1]))' => There(t[1]))
  BY <1>1, <1>2 DEF TypeOK, Turns, LifeMoves, There
<1>5. CASE Stays
  BY <1>1, <1>3, <1>4, <1>5 DEF ClosedExcluded, There, Stays
<1>6. CASE SwitchOn
  <2>1. /\ space = "live" /\ closed' = closed /\ admin' = "enabling"
        /\ \A c \in Conversations : closing[c] = "none" => marks'[c] = allocated[c]
    BY <1>6 DEF SwitchOn, HighWaters
  <2>2. \A t \in closed : t[2] <= allocated[t[1]]
    BY <1>1 DEF WithinAllocated
  <2> QED
    BY <1>4, <2>1, <2>2 DEF ClosedExcluded, There
<1>7. CASE Enabled
  <2>1. /\ closed' = closed /\ cut' = cut /\ policy' = policy
        /\ \A c \in Conversations : progress'[c].excluded >= marks[c]
               /\ progress'[c].excluded \in Nat /\ marks[c] \in Nat
    BY <1>1, <1>7, ExcludeInMoves DEF Enabled, TypeOK
  <2> QED
    BY <1>1, <1>3, <1>4, <2>1 DEF ClosedExcluded, There
<1>8. CASE ~policy'.on \/ cut'
  BY <1>8 DEF ClosedExcluded
<1> QED
  BY <1>1, <1>5, <1>6, <1>7, <1>8, HistoryStep DEF HistoryMoves, Stays

-----------------------------------------------------------------------------
(* What is remembered. *)

\* What is published is of a conversation that is there, and nothing in it is excluded.
LEMMA PublishedIsLegal ==
  ASSUME Layers, Published
  PROVE  LET c == worker.conv IN
         /\ c \in Conversations /\ There(c) /\ policy.on /\ owner.fence = "none"
         /\ admin # "enabling"
         /\ \A t \in worker.seen : t[1] = c /\ progress[c].excluded < t[2]
         /\ TurnsOf(c, worker.first, worker.to) \subseteq worker.seen
         /\ worker.first <= Floor(c) + 1
         /\ progress[c].processed <= worker.to
<1> DEFINE c == worker.conv
<1>1. TypeOK /\ UserHolds /\ WorkFits
  BY DEF Layers
<1>2. /\ worker.pc = "asking" /\ InFlight /\ c \in Conversations
      /\ Admitted(c) /\ worker.rev = Rev /\ progress[c].processed <= worker.to
  BY <1>1, PublishedMeans DEF Publishable
<1>3. There(c) /\ admin # "enabling"
  BY <1>1, <1>2 DEF Admitted, There, UserHolds
<1> QED
  BY <1>1, <1>2, <1>3 DEF WorkFits, Admitted

ForgetsCleared == \A t \in cleared : ~Knows(t)
ForgetsClosed == ~cut => \A t \in closed : ~Knows(t)
ForgetsDeleted ==
  /\ \A c \in Conversations : closing[c] = "tombstone" =>
       \A t \in Turns : t[1] = c => ~Knows(t)
  /\ space = "gone" => docs = {} /\ \A t \in Turns : ~Knows(t)

\* In these words they are the properties.
LEMMA Forgetting ==
  ASSUME TypeOK
  PROVE  /\ ForgetsCleared => ClearedStaysCleared
         /\ ForgetsClosed => ClosedStaysClosed
         /\ ForgetsDeleted => DeletedIsGone
<1>1. \A t : t \in Known <=> t \in Turns /\ Knows(t)
  BY KnownIff
<1>2. ForgetsCleared => ClearedStaysCleared
  BY <1>1 DEF ForgetsCleared, ClearedStaysCleared
<1>3. ForgetsClosed => ClosedStaysClosed
  BY <1>1 DEF ForgetsClosed, ClosedStaysClosed
<1>4. ForgetsDeleted => DeletedIsGone
  <2>1. ASSUME NEW c \in Conversations, NEW t \in Known \cap ({c} \X Nat)
        PROVE  t \in Turns /\ t[1] = c /\ Knows(t)
    BY <1>1, <2>1
  <2> QED
    BY <1>1, <2>1 DEF ForgetsDeleted, DeletedIsGone
<1> QED
  BY <1>2, <1>3, <1>4

\* Nothing cleared comes back: what is published lies above the exclusion.
LEMMA ForgetsClearedStep ==
  ASSUME Layers, ForgetsCleared, [Next]_vars
  PROVE  ForgetsCleared'
<1>1. TypeOK /\ ClearedExcluded
  BY DEF Layers
<1>2. ASSUME NEW t \in cleared, Knows(t)'
      PROVE  FALSE
  <2>1. t \in Turns /\ t[2] \in Nat /\ t[1] \in Conversations /\ ~Knows(t)
    BY <1>1 DEF TypeOK, Turns, ForgetsCleared
  <2>2. Published /\ t \in worker.seen
    BY <1>1, <1>2, <2>1, KnownStep DEF KnownMoves
  <2>3. There(t[1]) /\ progress[t[1]].excluded < t[2]
    BY <2>2, PublishedIsLegal
  <2>4. t[2] <= progress[t[1]].excluded
    BY <1>1, <2>3 DEF ClearedExcluded
  <2> QED
    BY <1>1, <2>1, <2>3, <2>4 DEF TypeOK
<1>3. CASE cleared' = cleared
  BY <1>2, <1>3 DEF ForgetsCleared, Knows
<1>4. CASE Clear
  BY <1>4 DEF Clear, Purged, ForgetsCleared, Knows
<1> QED
  BY <1>1, <1>3, <1>4, HistoryStep DEF HistoryMoves

\* Nothing closed is filled in: no batch in force is under way in an enabling.
LEMMA ForgetsClosedStep ==
  ASSUME Layers, ForgetsClosed, [Next]_vars
  PROVE  ForgetsClosed'
<1>1. TypeOK /\ TypeOK' /\ ClosedExcluded /\ WithinAllocated /\ HistoryMoves
  BY TypeStep, HistoryStep DEF Layers
<1>2. ASSUME ~cut, NEW t \in closed, Knows(t)'
      PROVE  FALSE
  <2>1. t \in Turns /\ t[2] \in Nat /\ t[1] \in Conversations /\ ~Knows(t)
    BY <1>1, <1>2 DEF TypeOK, Turns, ForgetsClosed
  <2>2. Published /\ t \in worker.seen
    BY <1>1, <1>2, <2>1, KnownStep DEF KnownMoves
  <2>3. There(t[1]) /\ progress[t[1]].excluded < t[2] /\ policy.on /\ admin # "enabling"
    BY <2>2, PublishedIsLegal
  <2>4. t[2] <= progress[t[1]].excluded
    BY <1>1, <1>2, <2>3 DEF ClosedExcluded
  <2> QED
    BY <1>1, <2>1, <2>3, <2>4 DEF TypeOK
<1>3. ASSUME UNCHANGED <<summary, docs>>,
             NEW t \in closed', allocated[t[1]] < t[2], Knows(t)'
      PROVE  FALSE
  <2>1. Knows(t)
    BY <1>3 DEF Knows
  <2>2. t \in Turns
    BY <1>1, <1>3 DEF TypeOK
  <2>3. t[2] <= allocated[t[1]] /\ t[2] \in Nat /\ allocated[t[1]] \in Nat
    BY <1>1, <2>1, <2>2 DEF WithinAllocated, Turns, TypeOK
  <2> QED
    BY <1>3, <2>3
<1> QED
  BY <1>1, <1>2, <1>3 DEF HistoryMoves, ForgetsClosed, Knows

\* Only the end of a deletion makes something gone.
GoneMoves ==
  /\ \A c \in Conversations :
       closing'[c] = "tombstone" => closing[c] = "tombstone" \/ FinishConversation(c)
  /\ space' = "gone" => space = "gone" \/ FinishSpace

\* Every step moves the deletions that way.
LEMMA GoneStep ==
  ASSUME TypeOK, [Next]_vars
  PROVE  GoneMoves
<1>1. ASSUME NEW c \in Conversations,
          Allocate(c) \/ Stabilize(c) \/ TimerFires(c) \/ List(c) \/ Defer(c)
      PROVE  GoneMoves
  BY <1>1 DEF GoneMoves, Allocate, Stabilize, TimerFires, List, Defer
<1>2. ASSUME NEW c \in Conversations, DeleteConversation(c) \/ FinishConversation(c)
      PROVE  GoneMoves
  BY <1>2 DEF GoneMoves, DeleteConversation, FinishConversation, TypeOK
<1>3. ASSUME NEW s \in signals, Gate(s) \/ Register(s)
      PROVE  GoneMoves
  BY <1>3 DEF GoneMoves, Gate, Register
<1>4. ASSUME NEW withDoc \in BOOLEAN, Publish(withDoc)
      PROVE  GoneMoves
  BY <1>4 DEF GoneMoves, Publish
<1>5. ASSUME ClaimRefused \/ ClaimConverges \/ Claim \/ AskAll \/ AskSome \/
          SwitchOff \/ SwitchMode \/ SwitchOn \/ Enabled \/ StartClear \/ Clear \/
          Edit \/ RemoveSpace \/ UNCHANGED vars
      PROVE  GoneMoves
  BY <1>5 DEF GoneMoves, ClaimRefused, ClaimConverges, Claim, AskAll, AskSome,
     SwitchOff, SwitchMode, SwitchOn, Enabled, StartClear, Clear, Edit, RemoveSpace,
     vars
<1>6. ASSUME NoEvidence \/ ModelUnavailable \/ Fails \/ Throws \/ Discard
      PROVE  GoneMoves
  BY <1>6, LetGo DEF GoneMoves
<1>7. ASSUME FinishSpace
      PROVE  GoneMoves
  BY <1>7 DEF GoneMoves, FinishSpace
<1>8. ASSUME Crash
      PROVE  GoneMoves
  BY <1>8 DEF GoneMoves, Crash, Restart
<1>9. ASSUME CrashInClear
      PROVE  GoneMoves
  BY <1>9 DEF GoneMoves, CrashInClear, Restart
<1> QED
  BY <1>1, <1>2, <1>3, <1>4, <1>5, <1>6, <1>7, <1>8, <1>9 DEF Next

\* Nothing deleted is left: what is published is of a conversation that is there.
LEMMA ForgetsDeletedStep ==
  ASSUME Layers, ForgetsDeleted, [Next]_vars
  PROVE  ForgetsDeleted'
<1>1. TypeOK /\ SourcesNamed /\ UserHolds /\ GoneMoves
  BY GoneStep DEF Layers
<1>2. ASSUME NEW c \in Conversations, closing[c] = "tombstone",
             NEW t \in Turns, t[1] = c, Knows(t)'
      PROVE  FALSE
  <2>1. Published /\ t \in worker.seen
    BY <1>1, <1>2, KnownStep DEF KnownMoves, ForgetsDeleted
  <2> QED
    BY <1>2, <2>1, PublishedIsLegal DEF There
<1>3. ASSUME NEW c \in Conversations, FinishConversation(c),
             NEW t \in Turns, t[1] = c, Knows(t)'
      PROVE  FALSE
  <2>1. summary' = [summary EXCEPT ![c] = {}] /\ docs' = {d \in docs : c \notin d.sources}
    BY <1>3 DEF FinishConversation, Without
  <2>2. ASSUME NEW d \in Conversations, t \in summary'[d]
        PROVE  FALSE
    BY <1>1, <1>3, <2>1, <2>2 DEF SourcesNamed, TypeOK
  <2>3. ASSUME NEW d \in docs', t \in d.knows
        PROVE  FALSE
    BY <1>1, <1>3, <2>1, <2>3 DEF SourcesNamed
  <2> QED
    BY <1>3, <2>2, <2>3 DEF Knows
<1>4. ASSUME space = "gone"
      PROVE  docs' = {} /\ \A t \in Turns : ~Knows(t)'
  <2>1. owner.fence # "none" /\ docs = {}
    BY <1>1, <1>4 DEF UserHolds, ForgetsDeleted
  <2>2. ~Published
    BY <2>1, PublishedIsLegal
  <2>3. \A t \in Turns : ~Knows(t)'
    BY <1>1, <1>4, <2>2, KnownStep DEF KnownMoves, ForgetsDeleted
  <2>4. ~Edit
    BY <1>4 DEF Edit
  <2>5. docs' \subseteq docs
    BY <1>1, <2>2, <2>4, ForgetStep DEF ContentMoves, Forgets
  <2> QED
    BY <2>1, <2>3, <2>5
<1>5. ASSUME FinishSpace
      PROVE  docs' = {} /\ \A t \in Turns : ~Knows(t)'
  BY <1>5 DEF FinishSpace, Purged, Knows
<1> QED
  BY <1>1, <1>2, <1>3, <1>4, <1>5 DEF GoneMoves, ForgetsDeleted, Knows

-----------------------------------------------------------------------------
(* Nothing is passed over. *)

\* A boundary that stands comes with its summary, or nothing up to it is left to cover.
SummaryMoves ==
  \A c \in Conversations : (There(c))' =>
    \/ summary[c] \subseteq summary'[c]
    \/ progress'[c].processed <= progress'[c].excluded

\* Every step moves the summaries that way.
LEMMA SummaryStep ==
  ASSUME Layers, [Next]_vars
  PROVE  SummaryMoves
<1>1. ASSUME NEW c \in Conversations,
          Allocate(c) \/ Stabilize(c) \/ TimerFires(c) \/ List(c) \/ Defer(c)
      PROVE  SummaryMoves
  BY <1>1 DEF SummaryMoves, Allocate, Stabilize, TimerFires, List, Defer
<1>2. ASSUME NEW c \in Conversations, DeleteConversation(c) \/ FinishConversation(c)
      PROVE  SummaryMoves
  BY <1>2 DEF SummaryMoves, DeleteConversation, FinishConversation, Layers, TypeOK,
     There
<1>3. ASSUME NEW s \in signals, Gate(s) \/ Register(s)
      PROVE  SummaryMoves
  BY <1>3 DEF SummaryMoves, Gate, Register
<1>4. ASSUME NEW withDoc \in BOOLEAN, Publish(withDoc)
      PROVE  SummaryMoves
  <2>1. TypeOK
    BY DEF Layers
  <2>2. /\ worker.conv \in Conversations
        /\ summary' =
             [summary EXCEPT ![worker.conv] = summary[worker.conv] \cup worker.seen]
    BY <1>4, <2>1, PublishMoves DEF NewSummary
  <2> QED
    BY <2>1, <2>2 DEF SummaryMoves, TypeOK
<1>5. ASSUME ClaimRefused \/ ClaimConverges \/ Claim \/ AskAll \/ AskSome \/
          SwitchOff \/ SwitchMode \/ SwitchOn \/ Enabled \/ StartClear \/ Edit \/
          RemoveSpace \/ UNCHANGED vars
      PROVE  SummaryMoves
  BY <1>5 DEF SummaryMoves, ClaimRefused, ClaimConverges, Claim, AskAll, AskSome,
     SwitchOff, SwitchMode, SwitchOn, Enabled, StartClear, Edit, RemoveSpace, vars
<1>6. ASSUME NoEvidence \/ ModelUnavailable \/ Fails \/ Throws \/ Discard
      PROVE  SummaryMoves
  BY <1>6, LetGo DEF Layers, SummaryMoves
<1>7. ASSUME FinishSpace
      PROVE  SummaryMoves
  BY <1>7 DEF SummaryMoves, FinishSpace, There
<1>8. ASSUME Clear
      PROVE  SummaryMoves
  <2>1. TypeOK /\ UserHolds /\ LifeMoves
    BY LifeStep DEF Layers
  <2> QED
    BY <1>8, <2>1, ExcludeInMoves
       DEF SummaryMoves, Clear, UserHolds, LifeMoves, There, TypeOK
<1>9. ASSUME Crash
      PROVE  SummaryMoves
  BY <1>9 DEF SummaryMoves, Crash, Restart
<1>10. ASSUME CrashInClear
      PROVE  SummaryMoves
  <2>1. TypeOK /\ TypeOK' /\ UserHolds /\ LifeMoves
    BY TypeStep, LifeStep DEF Layers
  <2>2. ASSUME NEW c \in Conversations, (There(c))'
        PROVE  progress'[c].processed <= progress'[c].excluded
    BY <1>10, <2>1, <2>2, ExcludeInMoves
       DEF CrashInClear, Restart, UserHolds, LifeMoves, There, TypeOK
  <2> QED
    BY <2>2 DEF SummaryMoves
<1> QED
  BY <1>1, <1>2, <1>3, <1>4, <1>5, <1>6, <1>7, <1>8, <1>9, <1>10 DEF Next

\* The boundary moves with the batch that reaches it, which began where it was.
LEMMA BoundaryStep ==
  ASSUME Layers, BoundaryIsHonest, [Next]_vars
  PROVE  BoundaryIsHonest'
<1>1. TypeOK /\ TypeOK' /\ LifeMoves /\ ProgressMoves /\ SummaryMoves
  BY TypeStep, LifeStep, ProgressStep, SummaryStep DEF Layers
<1> SUFFICES ASSUME NEW c \in Conversations, (There(c))'
             PROVE  TurnsOf(c, progress'[c].excluded + 1, progress'[c].processed)
                      \subseteq summary'[c]
  BY DEF BoundaryIsHonest, There, LegalStart, TurnsOf
<1> DEFINE p == progress[c].processed  x == progress[c].excluded
           pp == progress'[c].processed  xx == progress'[c].excluded
<1>2. {p, x, pp, xx} \subseteq Nat /\ xx >= x /\ There(c)
  BY <1>1 DEF TypeOK, LifeMoves, ProgressMoves
<1>3. \A o \in Nat : x < o /\ o <= p => <<c, o>> \in summary[c]
  BY <1>2 DEF BoundaryIsHonest, There, LegalStart, TurnsOf
<1>4. CASE pp <= xx
  BY <1>2, <1>4 DEF TurnsOf
<1>5. CASE pp \in {p, 0} /\ summary[c] \subseteq summary'[c]
  BY <1>2, <1>3, <1>5 DEF TurnsOf
<1>6. ASSUME Published, c = worker.conv, pp = worker.to
      PROVE  \A o \in Nat : xx < o /\ o <= pp => <<c, o>> \in summary'[c]
  <2>1. summary'[c] = summary[c] \cup worker.seen
    BY <1>1, <1>6, PublishedMeans DEF TypeOK
  <2>2. /\ \A t \in TurnsOf(c, worker.first, worker.to) : t \in worker.seen
        /\ worker.first <= Floor(c) + 1 /\ worker.first \in Nat /\ Floor(c) \in {p, x}
    BY <1>1, <1>6, PublishedMeans, PublishedIsLegal, WorkerKinds, RevType
  <2>3. ASSUME NEW o \in Nat, xx < o, o <= pp, ~(o <= p)
        PROVE  <<c, o>> \in worker.seen
    <3>1. o \in worker.first..worker.to
      BY <1>1, <1>2, <1>6, <2>2, <2>3
    <3> QED
      BY <2>2, <3>1 DEF TurnsOf
  <2> QED
    BY <1>2, <1>3, <2>1, <2>3
<1>7. CASE Published /\ c = worker.conv /\ pp = worker.to
  BY <1>2, <1>6, <1>7 DEF TurnsOf
<1> QED
  BY <1>1, <1>4, <1>5, <1>7 DEF SummaryMoves, ProgressMoves

\* A job that ends was done before, or had nothing left, or is not admitted.
DoneMoves ==
  \A c \in Conversations : job'[c] # NoJob /\ job'[c].status = "done" =>
    \/ /\ job[c] # NoJob /\ job[c].status = "done"
       /\ job'[c].requested = job[c].requested /\ job'[c].rev = job[c].rev
    \/ /\ job[c] # NoJob
       /\ job'[c].requested = job[c].requested /\ job'[c].rev = job[c].rev
       /\ UNCHANGED <<policy, owner, closing, progress>>
       /\ ~Admitted(c) \/ job[c].rev # Rev \/ job[c].requested <= Floor(c)
    \/ Published /\ c = worker.conv /\ progress'[c].processed = worker.to
       /\ job'[c].requested <= worker.to

\* What the worker gives up is closed only where nothing is admitted.
LEMMA GivenUp ==
  ASSUME Layers, NoEvidence \/ ModelUnavailable \/ Fails \/ Throws \/ Discard
  PROVE  DoneMoves
<1>1. TypeOK /\ UserHolds /\ WorkFits /\ worker.conv \in Conversations
      /\ InFlight /\ JobsKept /\ UNCHANGED <<policy, owner, closing, progress>>
  BY LetGo, WorkerKinds DEF Layers, InFlight
<1> DEFINE w == worker.conv
<1>2. CASE ModelUnavailable \/ Throws \/ Fails
  <2>1. \A c \in Conversations : job'[c] # NoJob /\ job'[c].status = "done" =>
          job[c].status = "done"
    <3>1. CASE ModelUnavailable
      BY <1>1, <3>1, RequeueKeeps DEF ModelUnavailable
    <3>2. CASE Throws
      <4>1. Finish("queued", FALSE)
        BY <3>2 DEF Throws
      <4> QED
        BY <1>1, <4>1, FinishKeeps
    <3>3. CASE Fails
      <4>1. Finish("failed", TRUE)
        BY <3>3 DEF Fails
      <4> QED
        BY <1>1, <4>1, FinishKeeps
    <3> QED
      BY <1>2, <3>1, <3>2, <3>3
  <2> QED
    BY <1>1, <2>1 DEF DoneMoves, JobsKept
<1>3. ASSUME Finish("done", TRUE), ~Admitted(w)
      PROVE  DoneMoves
  <2>1. \A c \in Conversations : job'[c] # NoJob /\ job'[c].status = "done" =>
          job[c].status = "done" \/ c = w
    BY <1>1, <1>3, FinishKeeps
  <2> QED
    BY <1>1, <1>3, <2>1 DEF DoneMoves, JobsKept
<1>4. CASE NoEvidence
  <2>1. ~Admitted(w)
    BY <1>1, <1>4 DEF NoEvidence, UserHolds, Admitted
  <2> QED
    BY <1>3, <1>4, <2>1 DEF NoEvidence
<1>5. CASE Discard
  <2>1. worker.pc = "asking" /\ (~Requeue => Finish("done", TRUE))
    BY <1>5 DEF Discard
  <2>2. CASE Requeue
    <3>1. \A c \in Conversations : job'[c] # NoJob /\ job'[c].status = "done" =>
            job[c].status = "done"
      BY <1>1, <2>2, RequeueKeeps
    <3> QED
      BY <1>1, <3>1 DEF DoneMoves, JobsKept
  <2>3. CASE ~Requeue
    <3>1. ~Admitted(w) \/ (worker.rev = Rev /\ progress[w].excluded >= worker.first)
      BY <1>5, <2>3 DEF Discard
    <3>2. ~(Admitted(w) /\ worker.rev = Rev /\ progress[w].excluded >= worker.first)
      <4>1. Admitted(w) => There(w)
        BY <1>1 DEF UserHolds, Admitted, There
      <4>2. progress[w].excluded \in Nat /\ worker.first \in Nat
        BY <1>1, <2>1, WorkerKinds, RevType
      <4> QED
        BY <1>1, <2>1, <4>1, <4>2 DEF WorkFits
    <3> QED
      BY <1>3, <2>1, <2>3, <3>1, <3>2
  <2> QED
    BY <2>2, <2>3
<1> QED
  BY <1>2, <1>4, <1>5

\* Every step ends jobs that way.
LEMMA DoneStep ==
  ASSUME Layers, [Next]_vars
  PROVE  DoneMoves
<1>1. ASSUME NEW c \in Conversations,
          Allocate(c) \/ Stabilize(c) \/ List(c) \/ DeleteConversation(c)
      PROVE  DoneMoves
  BY <1>1 DEF DoneMoves, Allocate, Stabilize, List, DeleteConversation
<1>2. ASSUME NEW c \in Conversations, TimerFires(c) \/ Defer(c)
      PROVE  DoneMoves
  <2>1. TypeOK /\ job[c] # NoJob /\ job[c] \in Jobs
    BY <1>2, JobKinds DEF Layers, TimerFires, Defer, Queued
  <2>2. \A b \in BOOLEAN : LET j == [job[c] EXCEPT !.eligible = b] IN
          j.status = job[c].status /\ j.requested = job[c].requested /\ j.rev = job[c].rev
    BY <2>1 DEF Jobs
  <2>3. \E b \in BOOLEAN : job' = [job EXCEPT ![c] = [job[c] EXCEPT !.eligible = b]]
    BY <1>2, <2>1 DEF TimerFires, Defer, TypeOK, Jobs
  <2> QED
    BY <2>1, <2>2, <2>3 DEF DoneMoves, TypeOK
<1>3. ASSUME NEW c \in Conversations, FinishConversation(c)
      PROVE  DoneMoves
  BY <1>3 DEF DoneMoves, FinishConversation, Layers, TypeOK
<1>4. ASSUME NEW s \in signals, Gate(s)
      PROVE  DoneMoves
  BY <1>4 DEF DoneMoves, Gate
<1>5. ASSUME NEW s \in signals, Register(s)
      PROVE  DoneMoves
  <2>1. TypeOK
    BY DEF Layers
  <2>2. s.conv \in Conversations /\ job' = [job EXCEPT ![s.conv] = Extended(s)]
    BY <1>5, <2>1 DEF Register, TypeOK, Signals
  <2>3. Extended(s) = job[s.conv] \/ Extended(s).status \in {"queued", "running"}
    BY <1>5, <2>1, ExtendedJob DEF Register
  <2> QED
    BY <1>5, <2>1, <2>2, <2>3 DEF DoneMoves, TypeOK
<1>6. ASSUME NEW withDoc \in BOOLEAN, Publish(withDoc)
      PROVE  DoneMoves
  <2> DEFINE w == worker.conv
             status == IF Exhausted(w) THEN "done" ELSE "queued"
  <2>1. /\ TypeOK /\ InFlight /\ w \in Conversations /\ JobsKept /\ Published
        /\ progress'[w].processed = worker.to
    BY <1>6, PublishMoves DEF Layers, Published
  <2>2. Finish(status, TRUE)
    BY <1>6 DEF Publish
  <2>3. \A c \in Conversations : job'[c] # NoJob =>
          job'[c].status = IF c = w /\ Running(c) THEN status ELSE job[c].status
    BY <2>1, <2>2, FinishKeeps
  <2>4. worker.to \in Nat /\ worker.target \in Nat
    BY <2>1, PublishedMeans, WorkerKinds
  <2>5. Exhausted(w) /\ job[w] # NoJob => job[w].requested <= worker.to
    BY <2>1, <2>4, JobKinds DEF Exhausted
  <2> QED
    BY <2>1, <2>3, <2>5 DEF DoneMoves, JobsKept
<1>7. ASSUME ClaimRefused \/ AskAll \/ AskSome \/ SwitchOff \/ SwitchMode \/
          SwitchOn \/ Enabled \/ StartClear \/ Edit \/ RemoveSpace \/ UNCHANGED vars
      PROVE  DoneMoves
  BY <1>7 DEF DoneMoves, ClaimRefused, AskAll, AskSome, SwitchOff, SwitchMode, SwitchOn,
     Enabled, StartClear, Edit, RemoveSpace, vars
<1>8. ASSUME ClaimConverges
      PROVE  DoneMoves
  <2> DEFINE w == worker.conv
             j == [job[w] EXCEPT !.status = "done", !.attempt = @ + 1]
  <2>1. TypeOK /\ w \in Conversations /\ job[w] # NoJob /\ job[w] \in Jobs
    BY <1>8, WorkerKinds, JobKinds DEF Layers, ClaimConverges, Claimable, Queued
  <2>2. j.requested = job[w].requested /\ j.rev = job[w].rev
    BY <2>1, Ended
  <2>3. job' = [job EXCEPT ![w] = j] /\ UNCHANGED <<policy, owner, closing, progress>>
    BY <1>8, <2>1 DEF ClaimConverges, TypeOK, Jobs
  <2>4. ~Admitted(w) \/ job[w].rev # Rev \/ job[w].requested <= Floor(w)
    BY <1>8, <2>1, RevType DEF ClaimConverges, Wanted, Jobs
  <2> HIDE DEF j
  <2> QED
    BY <2>1, <2>2, <2>3, <2>4 DEF DoneMoves, TypeOK
<1>9. ASSUME Claim
      PROVE  DoneMoves
  <2> DEFINE w == worker.conv
             j == [job[w] EXCEPT !.status = "running", !.attempt = @ + 1]
  <2>1. TypeOK /\ w \in Conversations /\ job[w] # NoJob /\ job[w] \in Jobs
    BY <1>9, WorkerKinds, JobKinds DEF Layers, Claim, Claimable, Queued
  <2>2. j.status = "running"
    BY <2>1, Ended
  <2>3. job' = [job EXCEPT ![w] = j]
    BY <1>9, <2>1 DEF Claim, TypeOK, Jobs
  <2> HIDE DEF j
  <2> QED
    BY <2>1, <2>2, <2>3 DEF DoneMoves, TypeOK
<1>10. ASSUME NoEvidence \/ ModelUnavailable \/ Fails \/ Throws \/ Discard
      PROVE  DoneMoves
  BY <1>10, GivenUp
<1>11. ASSUME Clear \/ FinishSpace
      PROVE  DoneMoves
  BY <1>11 DEF DoneMoves, Clear, FinishSpace, Purged
<1>12. ASSUME Crash
      PROVE  DoneMoves
  BY <1>12, RecoveredKeeps DEF Crash, DoneMoves, JobsKept, Layers
<1>13. ASSUME CrashInClear
      PROVE  DoneMoves
  BY <1>13, RecoveredKeeps DEF CrashInClear, Purged, DoneMoves, JobsKept, Layers
<1> QED
  BY <1>1, <1>2, <1>3, <1>4, <1>5, <1>6, <1>7, <1>8, <1>9, <1>10, <1>11, <1>12, <1>13
     DEF Next

\* A job that is done stays covered, and ends only when it is.
LEMMA DoneIsCoveredStep ==
  ASSUME Layers, DoneIsCovered, [Next]_vars
  PROVE  DoneIsCovered'
<1>1. TypeOK /\ TypeOK' /\ UserHolds' /\ RevisionsPast /\ DoneMoves /\ LifeMoves
      /\ ProgressMoves
  BY TypeStep, UserHoldsStep, DoneStep, LifeStep, ProgressStep DEF Layers
<1> SUFFICES ASSUME NEW c \in Conversations, job'[c] # NoJob, job'[c].status = "done",
                    Admitted(c)', job'[c].rev = Rev'
             PROVE  job'[c].requested <= Floor(c)'
  BY DEF DoneIsCovered
<1>2. /\ {Floor(c), Floor(c)', progress[c].processed, progress[c].excluded} \subseteq Nat
      /\ {progress'[c].processed, progress'[c].excluded, job'[c].requested} \subseteq Nat
      /\ Floor(c)' >= progress'[c].processed /\ Floor(c)' >= progress'[c].excluded
      /\ Floor(c) \in {progress[c].processed, progress[c].excluded}
  BY <1>1, RevType DEF Floor, Max2, TypeOK, Jobs
<1>3. (There(c))'
  BY <1>1 DEF UserHolds, Admitted, There
<1>4. ASSUME job[c] # NoJob, job'[c].rev = job[c].rev, RevisionsPast
      PROVE  Rev' = Rev /\ Admitted(c)
  <2>1. Past(job'[c].rev)
    BY <1>4 DEF RevisionsPast
  <2>2. {policy.rev, policy'.rev, owner.gen, owner'.gen} \subseteq Nat
    BY <1>1 DEF TypeOK
  <2>3. Rev' = Rev
    BY <1>1, <2>1, <2>2 DEF Past, Rev, LifeMoves
  <2> QED
    BY <1>1, <2>3 DEF LifeMoves
<1>5. CASE /\ job[c] # NoJob /\ job[c].status = "done"
           /\ job'[c].requested = job[c].requested /\ job'[c].rev = job[c].rev
  <2>1. job'[c].requested <= Floor(c)
    BY <1>1, <1>4, <1>5 DEF DoneIsCovered
  <2>2. Published /\ c = worker.conv => progress[c].processed <= worker.to
    BY PublishedIsLegal
  <2>3. progress'[c].excluded >= progress[c].excluded
        /\ progress'[c].processed >= progress[c].processed
    BY <1>1, <1>2, <1>3, <2>2 DEF ProgressMoves
  <2> QED
    BY <1>2, <2>1, <2>3
<1>6. CASE /\ job[c] # NoJob
           /\ job'[c].requested = job[c].requested /\ job'[c].rev = job[c].rev
           /\ UNCHANGED <<policy, owner, closing, progress>>
           /\ ~Admitted(c) \/ job[c].rev # Rev \/ job[c].requested <= Floor(c)
  <2>1. Rev' = Rev /\ Admitted(c) /\ Floor(c)' = Floor(c)
    BY <1>1, <1>4, <1>6 DEF Floor
  <2> QED
    BY <1>6, <2>1
<1>7. CASE progress'[c].processed = worker.to /\ job'[c].requested <= worker.to
  BY <1>2, <1>7
<1> QED
  BY <1>1, <1>5, <1>6, <1>7 DEF DoneMoves

-----------------------------------------------------------------------------
(* Edits. *)

\* Where there are revisions, one is the latest.
LEMMA HeadThere ==
  ASSUME TypeOK, SourcesNamed, docs # {}
  PROVE  Head # {}
<1> DEFINE R == OpToRel(<, Nat)
           T == {written - d.id : d \in docs}
<1>1. \A d \in docs : d.id \in Nat /\ d.id <= written
  BY DEF TypeOK, Docs, SourcesNamed
<1>2. T \subseteq Nat /\ T # {}
  BY <1>1 DEF TypeOK
<1>3. PICK n \in T : \A m \in T : ~(<<m, n>> \in R)
  <2>1. IsWellFoundedOn(R, Nat)
    BY NatLessThanWellFounded
  <2> HIDE DEF R, T
  <2> QED
    BY <1>2, <2>1, WFMin
<1>4. \A m \in T : ~(m < n)
  BY <1>2, <1>3 DEF OpToRel
<1>5. PICK d \in docs : n = written - d.id
  OBVIOUS
<1>6. ASSUME NEW e \in docs
      PROVE  e.id <= d.id
  <2>1. ~(written - e.id < written - d.id)
    BY <1>4, <1>5, <1>6
  <2> QED
    BY <1>1, <1>5, <1>6, <2>1 DEF TypeOK
<1> QED
  BY <1>5, <1>6 DEF Head

\* A revision is built on the latest one, which has every edit the others have.
LEMMA EditsAreBuiltOnStep ==
  ASSUME Layers, EditsAreBuiltOn, [Next]_vars
  PROVE  EditsAreBuiltOn'
<1>1. TypeOK /\ SourcesNamed
  BY DEF Layers
<1>2. CASE docs' \subseteq docs
  BY <1>2 DEF EditsAreBuiltOn
<1>3. CASE Edit
  BY <1>1, <1>3 DEF Edit, EditsAreBuiltOn, TypeOK
<1>4. ASSUME NEW withDoc \in BOOLEAN, Publish(withDoc)
      PROVE  EditsAreBuiltOn'
  <2> DEFINE new == NewDoc(worker.conv)
  <2>1. /\ docs' \subseteq docs \cup {new} /\ new.id = written + 1
        /\ new.edits = UNION {d.edits : d \in Head}
    BY <1>1, <1>4, PublishMoves
  <2>2. written \in Nat /\ \A d \in docs : d.id \in Nat /\ d.id <= written
    BY <1>1 DEF TypeOK, Docs, SourcesNamed
  <2>3. ASSUME NEW e \in docs, e.id \in e.edits
        PROVE  e.id \in new.edits
    <3>1. PICK h \in docs : h \in Head /\ e.id <= h.id
      BY <1>1, <2>3, HeadThere DEF Head
    <3>2. CASE e.id < h.id
      BY <2>1, <2>3, <3>1, <3>2 DEF EditsAreBuiltOn
    <3>3. CASE e.id = h.id
      BY <2>1, <2>3, <3>1, <3>3 DEF Head
    <3> QED
      BY <2>2, <3>1, <3>2, <3>3
  <2> HIDE DEF new
  <2>4. ASSUME NEW d \in docs', NEW e \in docs', e.id \in e.edits, e.id < d.id
        PROVE  e.id \in d.edits
    <3>1. e \in docs
      BY <2>1, <2>2, <2>4
    <3>2. d \in docs \/ d = new
      BY <2>1
    <3> QED
      BY <2>3, <2>4, <3>1, <3>2 DEF EditsAreBuiltOn
  <2> QED
    BY <2>4 DEF EditsAreBuiltOn
<1> QED
  BY <1>1, <1>2, <1>3, <1>4, ForgetStep DEF ContentMoves, Forgets, Published

-----------------------------------------------------------------------------
(* The theorems. *)

IndInv ==
  /\ Layers
  /\ ForgetsCleared /\ ForgetsClosed /\ ForgetsDeleted
  /\ BoundaryIsHonest /\ DoneIsCovered
  /\ EditsAreBuiltOn

\* The program starts with nothing remembered, asked for or excluded.
LEMMA InitHolds == Init => IndInv
<1> SUFFICES ASSUME Init
             PROVE  IndInv
  OBVIOUS
<1>1. TypeOK
  BY DEF Init, TypeOK, NoMarks, NoProgress, Workers, Fences
<1>2. RevisionsPast /\ WithinAllocated
  BY DEF Init, RevisionsPast, WithinAllocated, NoMarks, NoProgress, Idle, InFlight, Knows
<1>3. UserHolds /\ WorkFits /\ SourcesNamed /\ ClearedExcluded /\ ClosedExcluded
  BY DEF Init, UserHolds, WorkFits, SourcesNamed, ClearedExcluded, ClosedExcluded,
         Idle, InFlight
<1>4. ForgetsCleared /\ ForgetsClosed /\ ForgetsDeleted /\ DoneIsCovered /\ EditsAreBuiltOn
  BY DEF Init, ForgetsCleared, ForgetsClosed, ForgetsDeleted, DoneIsCovered,
         EditsAreBuiltOn
<1>5. BoundaryIsHonest
  BY DEF Init, BoundaryIsHonest, TurnsOf, LegalStart, NoProgress
<1> QED
  BY <1>1, <1>2, <1>3, <1>4, <1>5 DEF IndInv, Layers

\* Every step keeps the layers and what rests on them.
LEMMA StepHolds == IndInv /\ [Next]_vars => IndInv'
<1> SUFFICES ASSUME IndInv, [Next]_vars
             PROVE  IndInv'
  OBVIOUS
<1>1. Layers'
  BY TypeStep, RevisionsPastStep, WithinAllocatedStep, UserHoldsStep, WorkFitsStep,
     SourcesNamedStep, ClearedExcludedStep, ClosedExcludedStep DEF IndInv, Layers
<1>2. ForgetsCleared' /\ ForgetsClosed' /\ ForgetsDeleted'
  BY ForgetsClearedStep, ForgetsClosedStep, ForgetsDeletedStep DEF IndInv
<1>3. BoundaryIsHonest' /\ DoneIsCovered' /\ EditsAreBuiltOn'
  BY BoundaryStep, DoneIsCoveredStep, EditsAreBuiltOnStep DEF IndInv
<1> QED
  BY <1>1, <1>2, <1>3 DEF IndInv

\* The layers and what rests on them hold in every state the program reaches.
THEOREM Invariance == Spec => []IndInv
  BY InitHolds, StepHolds, PTL DEF Spec

\* Every part of the state has its type, whatever the user and the worker do.
THEOREM TypeCorrect == Spec => []TypeOK
<1>1. IndInv => TypeOK
  BY DEF IndInv, Layers
<1> QED
  BY <1>1, Invariance, PTL

\* A request that was on its way when the user cleared the memories, or a job that
\* starts later, never brings back what was cleared.
THEOREM NothingClearedReturns == Spec => []ClearedStaysCleared
<1>1. IndInv => ClearedStaysCleared
  BY Forgetting DEF IndInv, Layers
<1> QED
  BY <1>1, Invariance, PTL

\* Turns of a time when memory was off are not remembered, unless an enabling was cut
\* off between the policy and the exclusion.
THEOREM NothingClosedIsFilledIn == Spec => []ClosedStaysClosed
<1>1. IndInv => ClosedStaysClosed
  BY Forgetting DEF IndInv, Layers
<1> QED
  BY <1>1, Invariance, PTL

\* Nothing made from a deleted conversation, and nothing at all of a Space that is
\* gone, is left, whatever was being published when it went.
THEOREM NothingDeletedIsLeft == Spec => []DeletedIsGone
<1>1. IndInv => DeletedIsGone
  BY Forgetting DEF IndInv, Layers
<1> QED
  BY <1>1, Invariance, PTL

\* The boundary and the jobs that call themselves done pass over no admitted turn.
THEOREM NothingIsPassedOver == Spec => []NothingSkipped
<1>1. IndInv => NothingSkipped
  BY DEF IndInv, NothingSkipped
<1> QED
  BY <1>1, Invariance, PTL

\* No revision of the document loses an edit of the user's it had not read.
THEOREM NoEditIsLost == Spec => []EditsAreBuiltOn
<1>1. IndInv => EditsAreBuiltOn
  BY DEF IndInv
<1> QED
  BY <1>1, Invariance, PTL
=============================================================================
