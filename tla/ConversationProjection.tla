----------------------- MODULE ConversationProjection -----------------------
(***************************************************************************)
(* Which runs of a conversation are visible, in which order, and which     *)
(* queued run may start next: the pure functions of                        *)
(* conversation-projection.ts and conversation-scheduler.ts.               *)
(*                                                                         *)
(* `docs` maps every run of the conversation to its durable snapshot (runs *)
(* are numbered in birth order, which is the order of the feature's run    *)
(* map); `branch` is the active branch of the Session transcript, from its *)
(* first entry to the leaf.  An entry is <<run, kind>>.                    *)
(***************************************************************************)
EXTENDS Naturals, Sequences, FiniteSets, SequencesExt

CONSTANT MaxRuns   \* bound: how many runs the conversation ever gets

ASSUME RunsAssumption == MaxRuns \in Nat \ {0}

Runs == 1..MaxRuns
NoRun == 0

Kinds == {"input", "call", "result", "answer"}
Entries == Runs \X Kinds
Root == <<NoRun, "root">>          \* the null leaf of a transcript

Live == {"queued", "running"}
Ended == {"completed", "failed", "cancelled", "blocked"}

(* A run's snapshot: status.kind, session.phase, startLeafRef, the leaf    *)
(* that rolls it back (endLeafRef, or rollbackLeafRef of a candidate),     *)
(* whether a tool round is pending, and turn.predecessorRunId.             *)
Snapshots ==
  [status : {"absent"} \cup Live \cup Ended,
   phase  : {"not_started", "started", "rollbackable", "candidate"},
   start  : Entries \cup {Root},
   end    : Entries \cup {Root},
   round  : BOOLEAN,
   pred   : Runs \cup {NoRun}]

Terminal(d) == d.status \in Ended

-----------------------------------------------------------------------------
(* visibleOrdinaryConversationRuns                                         *)

HasDurableSessionEntry(d) ==
  \/ d.phase \in {"rollbackable", "candidate"}
  \/ d.phase = "started" /\ (d.start # Root \/ d.round)

IsPendingOrPreSessionTerminal(d) == d.status \in Live \/ d.phase = "not_started"

Present(docs) == {r \in Runs : docs[r].status # "absent"}

(* The entry that places a run on the branch, Root when it has none. *)
PlacingEntry(r, d) ==
  CASE d.phase = "rollbackable" -> d.end
    [] d.phase = "candidate" -> <<r, "answer">>
    [] OTHER -> Root

IndexOn(branch, e) == CHOOSE i \in DOMAIN branch : branch[i] = e

OnBranch(docs, branch) ==
  LET placed == {r \in Present(docs) : PlacingEntry(r, docs[r]) \in ToSet(branch)}
      At(r) == IndexOn(branch, PlacingEntry(r, docs[r]))
      Before(a, b) == At(a) < At(b) \/ (At(a) = At(b) /\ a < b)
  IN  CHOOSE runs \in [1..Cardinality(placed) -> placed] :
        \A i, j \in DOMAIN runs : i < j => Before(runs[i], runs[j])

LastRun(runs) == IF runs = <<>> THEN NoRun ELSE Last(runs)

(* Runs that may follow the last visible one.  A run that never wrote to   *)
(* the Session is placed by its predecessor instead of by an entry.        *)
Followers(docs, runs) ==
  {r \in Present(docs) \ ToSet(runs) :
     docs[r].pred = LastRun(runs) /\ IsPendingOrPreSessionTerminal(docs[r])}

(* ... and the one that does, if it is the only one. *)
Extended(docs, runs) ==
  LET next == Followers(docs, runs)
  IN  IF \E r \in next : next = {r} THEN Append(runs, CHOOSE r \in next : TRUE) ELSE runs

(* (The bound variable makes TLC evaluate the shorter sequence only once.) *)
Visible(docs, branch) ==
  LET extend[n \in 0..MaxRuns] ==
        IF n = 0 THEN OnBranch(docs, branch)
        ELSE CHOOSE longer \in {Extended(docs, runs) : runs \in {extend[n - 1]}} : TRUE
  IN  extend[MaxRuns]

(* The two errors a projection throws on: durable runs without a branch,   *)
(* and more than one pending successor of the last visible run.            *)
Projectable(docs, branch) ==
  /\ \/ branch # <<>>
     \/ \A r \in Present(docs) : ~ HasDurableSessionEntry(docs[r])
  /\ Followers(docs, Visible(docs, branch)) = {}

-----------------------------------------------------------------------------
(* isSchedulingBarrierCleared and nextEligibleQueuedRun; `facts` maps a    *)
(* run to its OrdinaryRunSchedulingFacts.                                  *)

\* Mutant: a task that has only saved its terminal snapshot does not block the queue.
BarrierClearedWhileActive(d, fact) ==
  /\ Terminal(d) /\ ~ d.round /\ ~ fact.unsettledToolWork
  /\ ~ fact.sessionFinalizationPending

BarrierCleared(d, fact) ==
  /\ Terminal(d)
  /\ ~ d.round
  /\ ~ fact.unsettledToolWork
  /\ ~ fact.sessionFinalizationPending
  /\ d.status = "cancelled" \/ ~ fact.executionActive

NextEligibleQueued(runs, docs, facts) ==
  LET eligible == {i \in DOMAIN runs :
                     /\ docs[runs[i]].status = "queued"
                     /\ \A j \in 1..(i - 1) : BarrierCleared(docs[runs[j]], facts[runs[j]])}
  IN  IF eligible = {} THEN NoRun ELSE runs[CHOOSE i \in eligible : TRUE]
=============================================================================
