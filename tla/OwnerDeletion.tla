---------------------------- MODULE OwnerDeletion ----------------------------
(***************************************************************************)
(* The birth and the deletion of conversations and of the Space that owns  *)
(* them: the journaled workflows of app/workbench-coordination, the        *)
(* promise chains they queue in, and what they ask of the Ordinary         *)
(* feature, the managed processes and the memories.  Agents of the Space   *)
(* may ask for the same operations through their tools.                    *)
(*                                                                         *)
(* Both journals and the memory lifecycle are tables of one SQLite         *)
(* database with synchronous calls that do not fail.  A step is the code   *)
(* between two awaits that do other I/O or wait for a turn, cut where it   *)
(* writes twice: the program may stop in between.                          *)
(***************************************************************************)
EXTENDS Naturals, Sequences

CONSTANTS
  Conversations,
  Space,
  Tools,      \* the operations the agents call, of ToolKinds
  Hideable,   \* conversations whose only turn may end without a place on the branch
  MaxAsked,   \* bound: requests that are accepted
  MaxFaults,  \* bound: calls that fail
  MaxCrashes  \* bound: stops of the program

ToolKinds == {"delete", "space", "reference", "folder"}

ASSUME SpaceAssumption == Space \notin Conversations
ASSUME ToolsAssumption == Tools \subseteq ToolKinds
ASSUME BoundAssumption == {MaxAsked, MaxFaults, MaxCrashes} \subseteq Nat

\* A request is an operation on an owner: the birth of a conversation, a turn of it, its
\* deletion, the deletion of the Space, and a reference or a folder its agent adds to
\* the Space.  The startup waits in the chains as well, to resume what is on record.
SpaceRequest == <<"space", Space>>
StartRequest == <<"start", Space>>
Requests ==
  ({"birth", "turn", "delete", "reference", "folder"} \X Conversations)
  \cup {SpaceRequest, StartRequest}

\* The promise chains: of the workbench commands, of the Space's admission, of the
\* conversation lifecycle, and the lease all deletions share.
Lanes == {"workbench", "owner", "lifecycle", "exclusive"}
Working == {"asked", "create", "first", "commit", "fence", "stop", "remove", "drain",
            "clean", "cleaned", "unlink", "unlinked", "purge", "purged", "forget"}
Phases == {"prepared", "processes_stopped", "conversations_deleted", "knowledge_cleaned",
           "space_deleted"}
NoSaga == [phase |-> "none", convs |-> {}]

VARIABLES
  space,    \* whether the Space is there
  control,  \* the control document of each conversation
  turns,    \* its turns, with their transcript and attachments
  queued,   \* conversations with a turn that waits for another to end
  notes,    \* whether agent notes, rules or dependencies of the Space are there
  memory,   \* whether memories made from the conversation are there
  fence,    \* memory_lifecycle of each conversation and of the Space
  journal,  \* conversation_lifecycle_journal
  saga,     \* space_conversation_deletions: where to go on, and the conversations listed
  up,       \* how far the program has started
  closing,  \* deletingConversationIds
  deleting, \* whether the Space is in deleting
  lane,     \* who waits in each promise chain, first the one whose turn it is
  place,    \* where each request is
  todo,     \* conversations the deletion of the Space still has to remove
  target,   \* the one it is removing; the Space means none
  running,  \* conversations with a turn that executes
  calls,    \* who waits for a request: <<conversation, request>>, of its turn's tool
  procs,    \* conversations with managed processes
  asked,
  faults,
  crashes

material == <<space, control, turns, queued, notes>>
memories == <<memory, fence>>
journals == <<journal, saga>>
disk == <<material, memories, journals>>
gates == <<closing, deleting>>
chains == <<lane, place>>
sweep == <<todo, target>>
runs == <<running, calls, procs>>
bounds == <<asked, faults, crashes>>
vars == <<disk, up, gates, chains, sweep, runs, bounds>>

TypeOK ==
  /\ space \in {"present", "gone"}
  /\ control \in [Conversations -> {"none", "live", "tombstone"}]
  /\ turns \in [Conversations -> {"none", "first", "visible", "hidden"}]
  /\ queued \subseteq Conversations
  /\ notes \in BOOLEAN
  /\ memory \in [Conversations -> BOOLEAN]
  /\ fence \in [Conversations \cup {Space} -> {"none", "fenced", "tombstone"}]
  /\ journal \in [Conversations -> {"none", "birth", "prepared", "processes_stopped",
                                    "conversation_deleted"}]
  /\ saga \in [phase : Phases, convs : SUBSET Conversations] \cup {NoSaga}
  /\ up \in {"down", "conversations", "spaces", "open"}
  /\ closing \subseteq Conversations
  /\ deleting \in BOOLEAN
  /\ lane \in [Lanes -> Seq(Requests)]
  /\ place \in [Requests -> {"idle"} \cup Lanes \cup Working]
  /\ todo \subseteq Conversations
  /\ target \in Conversations \cup {Space}
  /\ running \subseteq Conversations
  /\ calls \subseteq running \X Requests
  /\ procs \subseteq Conversations
  /\ asked \in Nat /\ faults \in Nat /\ crashes \in Nat

\* An empty Space, and the program has started.
Init ==
  /\ space = "present"
  /\ control = [c \in Conversations |-> "none"]
  /\ turns = [c \in Conversations |-> "none"]
  /\ queued = {}
  /\ notes = FALSE
  /\ memory = [c \in Conversations |-> FALSE]
  /\ fence = [o \in Conversations \cup {Space} |-> "none"]
  /\ journal = [c \in Conversations |-> "none"]
  /\ saga = NoSaga
  /\ up = "open"
  /\ closing = {} /\ deleting = FALSE
  /\ lane = [l \in Lanes |-> <<>>]
  /\ place = [r \in Requests |-> "idle"]
  /\ todo = {} /\ target = Space
  /\ running = {} /\ calls = {} /\ procs = {}
  /\ asked = 0 /\ faults = 0 /\ crashes = 0

Fault == faults < MaxFaults /\ faults' = faults + 1 /\ UNCHANGED <<asked, crashes>>

Visible(c) == control[c] = "live" /\ turns[c] \in {"first", "visible"}
Journaled(c) == journal[c] \notin {"none", "birth"}
Calls(c) == \E call \in calls : call[1] = c
Called(r) == \E call \in calls : call[2] = r
Idle == \A r \in Requests : place[r] = "idle"

-----------------------------------------------------------------------------
(* Waiting for a turn, and leaving. *)

HasTurn(r, l) == place[r] = l /\ lane[l] # <<>> /\ Head(lane[l]) = r

Enter(r, l) ==
  /\ lane' = [lane EXCEPT ![l] = Append(@, r)]
  /\ place' = [place EXCEPT ![r] = l]

Goto(r, p) == place' = [place EXCEPT ![r] = p] /\ UNCHANGED lane

\* A chain after r left it: whoever is through with its work was first in each chain it
\* waited in.
After(r, s) == IF s # <<>> /\ Head(s) = r THEN Tail(s) ELSE s

\* Mutant: whoever leaves keeps the lease of the deletions.
QuitKeepingLease(r) ==
  /\ lane' = [l \in Lanes |-> IF l = "exclusive" THEN lane[l] ELSE After(r, lane[l])]
  /\ place' = [place EXCEPT ![r] = "idle"]
Quit(r) ==
  /\ lane' = [l \in Lanes |-> After(r, lane[l])]
  /\ place' = [place EXCEPT ![r] = "idle"]

\* A tool returns to the agent that called it.
Done(r) ==
  /\ Quit(r)
  /\ calls' = {call \in calls : call[2] # r}

Swept == todo' = {} /\ target' = Space

\* Everything in memory is lost: the program stopped, or its startup was refused.
Down ==
  /\ up' = "down"
  /\ closing' = {} /\ deleting' = FALSE
  /\ lane' = [l \in Lanes |-> <<>>]
  /\ place' = [r \in Requests |-> "idle"]
  /\ Swept
  /\ running' = {} /\ calls' = {} /\ procs' = {}

\* A deletion that fails keeps its owner closed; the error of one the startup resumed is
\* the startup's.
Fail(r) ==
  /\ Fault
  /\ IF up = "open" \/ Called(r)
       THEN /\ Done(r)
            /\ IF r = SpaceRequest THEN Swept ELSE UNCHANGED sweep
            /\ UNCHANGED <<up, gates, running, procs>>
       ELSE Down

-----------------------------------------------------------------------------
(* Requests, of the user and of the agents. *)

\* A request is accepted and waits for its turn.  What the checks on the way refuse
\* changes nothing.
Ask(r) ==
  /\ place[r] = "idle"
  /\ asked < MaxAsked /\ asked' = asked + 1
  /\ \/ r[1] \in {"birth", "reference"} /\ ~deleting
        /\ Enter(r, "owner") /\ UNCHANGED closing
     \/ r[1] = "turn" /\ r[2] \notin closing /\ ~deleting /\ control[r[2]] = "live"
        /\ Goto(r, "asked") /\ UNCHANGED closing
     \/ r[1] = "delete" /\ closing' = closing \cup {r[2]} /\ Enter(r, "lifecycle")
     \/ r[1] \in {"space", "folder"} /\ Enter(r, "workbench") /\ UNCHANGED closing
  /\ UNCHANGED <<disk, up, deleting, sweep, running, procs, faults, crashes>>

\* The panel listens once the program is open.
UserAsks(r) ==
  /\ up = "open"
  /\ r[1] \in {"birth", "turn", "delete", "space"} /\ Ask(r) /\ UNCHANGED calls

\* A turn whose tools may be called; a run that was cancelled calls none.  A turn that was
\* recovered executes before the program is open.
Acts(c) == up # "down" /\ c \in running /\ ~Calls(c) /\ control[c] = "live"

\* The startup that waits for its turn is about to resume this deletion; it is not asked
\* for a second time meanwhile.
AboutToResume(r) ==
  up = "conversations" /\ place[StartRequest] # "idle" /\ r[1] = "delete" /\ Journaled(r[2])

AgentCalls(c, r) ==
  /\ Acts(c) /\ ~AboutToResume(r)
  /\ r[1] \in Tools
  /\ r[1] \in {"reference", "folder"} => r[2] = c
  /\ Ask(r)
  /\ calls' = calls \cup {<<c, r>>}

\* What a turn needs is read between its checks and its admission.
TurnAdmitted(r) ==
  /\ r[1] = "turn"
  /\ place[r] = "asked"
  /\ IF deleting THEN Quit(r) ELSE Enter(r, "owner")
  /\ UNCHANGED <<disk, up, gates, sweep, runs, bounds>>

\* The turn of a workbench command: attaching a folder asks for admission, deleting the
\* Space closes it and waits for those admitted before.
WorkbenchTurn(r) ==
  /\ HasTurn(r, "workbench")
  /\ \/ r[1] = "folder" /\ ~deleting /\ Enter(r, "owner") /\ UNCHANGED <<gates, calls>>
     \/ r[1] = "folder" /\ deleting /\ Done(r) /\ UNCHANGED gates
     \/ r[1] = "space" /\ deleting' = TRUE /\ Enter(r, "owner") /\ UNCHANGED <<closing, calls>>
  /\ UNCHANGED <<disk, up, sweep, running, procs, bounds>>

\* admit looks again when the turn comes.
Refused == deleting \/ saga # NoSaga \/ space = "gone"

AdmissionRefused(r) ==
  /\ HasTurn(r, "owner") /\ r[1] # "space" /\ Refused
  /\ Done(r)
  /\ deleting' = (deleting \/ saga # NoSaga)
  /\ UNCHANGED <<disk, up, closing, sweep, running, procs, bounds>>

ReferenceAdded(r) ==
  /\ HasTurn(r, "owner") /\ r[1] \in {"reference", "folder"} /\ ~Refused
  /\ Done(r)
  /\ UNCHANGED <<disk, up, gates, sweep, running, procs, bounds>>

\* The locks behind the admission.
OwnerTurn(r) ==
  /\ HasTurn(r, "owner")
  /\ \/ r[1] = "birth" /\ ~Refused /\ Enter(r, "lifecycle")
     \/ r[1] = "space" /\ Enter(r, "exclusive")
  /\ UNCHANGED <<disk, up, gates, sweep, runs, bounds>>

LifecycleTurn(r) ==
  /\ HasTurn(r, "lifecycle")
  /\ Enter(r, "exclusive")
  /\ UNCHANGED <<disk, up, gates, sweep, runs, bounds>>

-----------------------------------------------------------------------------
(* Turns and births. *)

\* Ordinary accepts a follow-up turn of a conversation that is not deleted.
TurnSubmitted(r) ==
  LET c == r[2] IN
  /\ r[1] = "turn"
  /\ HasTurn(r, "owner") /\ ~Refused
  /\ IF control[c] = "live" /\ turns[c] # "none"
       THEN /\ turns' = [turns EXCEPT ![c] = "visible"]
            /\ running' = running \cup {c}
            /\ queued' = IF c \in running THEN queued \cup {c} ELSE queued
       ELSE UNCHANGED <<turns, queued, running>>
  /\ Quit(r)
  /\ UNCHANGED <<space, control, notes, memories, journals>>
  /\ UNCHANGED <<up, gates, sweep, calls, procs, bounds>>

\* A birth left over is settled first.  A conversation that is there already gets its
\* submission once.
BirthBegins(r) ==
  LET c == r[2] IN
  /\ r[1] = "birth"
  /\ HasTurn(r, "exclusive")
  /\ IF c \in closing
       THEN Quit(r) /\ UNCHANGED journal
       ELSE IF Visible(c)
         THEN Quit(r) /\ journal' = [journal EXCEPT ![c] = "none"]
         ELSE Goto(r, "create") /\ journal' = [journal EXCEPT ![c] = "birth"]
  /\ UNCHANGED <<material, memories, saga, up, gates, sweep, runs, bounds>>

\* The transcript and the control document; not of a conversation that was deleted or
\* whose submission is known but shows nothing.
BirthCreates(r) ==
  LET c == r[2] IN
  /\ r[1] = "birth"
  /\ place[r] = "create"
  /\ IF control[c] = "none"
       THEN /\ control' = [control EXCEPT ![c] = "live"]
            /\ Goto(r, "first") /\ UNCHANGED journal
       ELSE /\ Quit(r) /\ journal' = [journal EXCEPT ![c] = "none"]
            /\ UNCHANGED control
  /\ UNCHANGED <<space, turns, queued, notes, memories, saga, up, gates, sweep, runs, bounds>>

BirthStarts(r) ==
  LET c == r[2] IN
  /\ r[1] = "birth"
  /\ place[r] = "first"
  /\ turns' = [turns EXCEPT ![c] = "first"]
  /\ running' = running \cup {c}
  /\ Goto(r, "commit")
  /\ UNCHANGED <<space, control, queued, notes, memories, journals>>
  /\ UNCHANGED <<up, gates, sweep, calls, procs, bounds>>

\* The first turn cannot be saved: the conversation is taken back.
BirthFails(r) ==
  LET c == r[2] IN
  /\ r[1] = "birth"
  /\ place[r] = "first" /\ Fault
  /\ control' = [control EXCEPT ![c] = "none"]
  /\ journal' = [journal EXCEPT ![c] = "none"]
  /\ Quit(r)
  /\ UNCHANGED <<space, turns, queued, notes, memories, saga, up, gates, sweep, runs>>

BirthCommits(r) ==
  LET c == r[2] IN
  /\ r[1] = "birth"
  /\ place[r] = "commit"
  /\ journal' = [journal EXCEPT ![c] = "none"]
  /\ Quit(r)
  /\ UNCHANGED <<material, memories, saga, up, gates, sweep, runs, bounds>>

-----------------------------------------------------------------------------
(* The deletion of a conversation. *)

At(r, p, q) == place[r] = p /\ Goto(r, q)
Checkpoint(c, j) == journal' = [journal EXCEPT ![c] = j] /\ UNCHANGED saga

\* Mutant: a deletion that is taken up again relies on its fence.
DeleteBeginsFencedOnce(r) ==
  LET c == r[2] IN
  /\ r[1] = "delete"
  /\ HasTurn(r, "exclusive")
  /\ \/ journal[c] \in {"none", "birth"} /\ Checkpoint(c, "prepared") /\ Goto(r, "fence")
     \/ journal[c] = "prepared" /\ Goto(r, "stop") /\ UNCHANGED journals
     \/ journal[c] = "processes_stopped" /\ Goto(r, "remove") /\ UNCHANGED journals
     \/ journal[c] = "conversation_deleted" /\ Goto(r, "forget") /\ UNCHANGED journals
  /\ UNCHANGED <<material, memories, up, gates, sweep, runs, bounds>>

\* A birth left over is settled and a deletion goes on from its record; the memories are
\* fenced again unless they were purged.
DeleteBegins(r) ==
  LET c == r[2] IN
  /\ r[1] = "delete"
  /\ HasTurn(r, "exclusive")
  /\ \/ journal[c] \in {"none", "birth"} /\ Checkpoint(c, "prepared") /\ Goto(r, "fence")
     \/ journal[c] \in {"prepared", "processes_stopped"}
        /\ Goto(r, "fence") /\ UNCHANGED journals
     \/ journal[c] = "conversation_deleted" /\ Goto(r, "forget") /\ UNCHANGED journals
  /\ UNCHANGED <<material, memories, up, gates, sweep, runs, bounds>>

ProcessesStopped(r) ==
  LET c == r[2] IN
  /\ r[1] = "delete"
  /\ At(r, "stop", "remove")
  /\ procs' = procs \ {c}
  /\ Checkpoint(c, "processes_stopped")
  /\ UNCHANGED <<material, memories, up, gates, sweep, running, calls, bounds>>

PurgeRecorded(r) ==
  LET c == r[2] IN
  /\ r[1] = "delete"
  /\ At(r, "purged", "forget")
  /\ Checkpoint(c, "conversation_deleted")
  /\ UNCHANGED <<material, memories, up, gates, sweep, runs, bounds>>

DeleteEnds(r) ==
  LET c == r[2] IN
  /\ r[1] = "delete"
  /\ place[r] = "forget"
  /\ Done(r)
  /\ Checkpoint(c, "none")
  /\ closing' = closing \ {c}
  /\ UNCHANGED <<material, memories, up, deleting, sweep, running, procs, bounds>>

-----------------------------------------------------------------------------
(* The removal of a conversation by Ordinary, for either deletion. *)

Targets(r) == IF r = SpaceRequest THEN todo ELSE {r[2]}
Target(r) == IF r = SpaceRequest THEN target ELSE r[2]

\* The deletion of the Space goes on with its next conversation.
Removed(r, c) ==
  /\ \/ r = SpaceRequest /\ todo' = todo \ {c} /\ target' = Space /\ Goto(r, "remove")
     \/ r # SpaceRequest /\ UNCHANGED sweep /\ Goto(r, "purge")

\* The tombstone is saved and what waits is cancelled; what executes is told to stop.
ConversationRemoved(r, c) ==
  /\ place[r] = "remove" /\ c \in Targets(r)
  /\ \/ /\ control[c] = "none"
        /\ Removed(r, c)
        /\ UNCHANGED <<control, queued>>
     \/ /\ control[c] # "none"
        /\ control' = [control EXCEPT ![c] = "tombstone"]
        /\ queued' = queued \ {c}
        /\ target' = IF r = SpaceRequest THEN c ELSE target
        /\ Goto(r, "drain") /\ UNCHANGED todo
  /\ UNCHANGED <<space, turns, notes, memories, journals, up, gates, runs, bounds>>

\* Mutant: nobody waits for the run.
ConversationCleanedAtOnce(r) ==
  /\ place[r] = "drain"
  /\ turns' = [turns EXCEPT ![Target(r)] = "none"]
  /\ Removed(r, Target(r))
  /\ UNCHANGED <<space, control, queued, notes, memories, journals, up, gates, runs, bounds>>

\* The run has ended, a tool it calls with it; its turns, transcript and attachments go.
ConversationCleaned(r) ==
  /\ place[r] = "drain" /\ Target(r) \notin running
  /\ turns' = [turns EXCEPT ![Target(r)] = "none"]
  /\ Removed(r, Target(r))
  /\ UNCHANGED <<space, control, queued, notes, memories, journals, up, gates, runs, bounds>>

-----------------------------------------------------------------------------
(* The deletion of the Space. *)

SagaTo(p) == saga' = [saga EXCEPT !.phase = p] /\ UNCHANGED journal

\* A deletion on record is taken up where its checkpoint says.
TakenUp ==
  /\ saga # NoSaga
  /\ todo' = IF saga.phase \in {"prepared", "processes_stopped"} THEN saga.convs ELSE {}
  /\ Goto(SpaceRequest, "fence") /\ UNCHANGED saga

\* The record lists the conversations that show a turn.
SpaceBegins ==
  LET r == SpaceRequest
      found == {c \in Conversations : Visible(c)} IN
  /\ HasTurn(r, "exclusive")
  /\ \/ /\ saga = NoSaga /\ space = "gone"
        /\ Done(r) /\ deleting' = FALSE
        /\ UNCHANGED <<saga, todo>>
     \/ /\ saga = NoSaga /\ space = "present"
        /\ saga' = [phase |-> "prepared", convs |-> found]
        /\ todo' = found
        /\ Goto(r, "fence") /\ UNCHANGED <<deleting, calls>>
     \/ TakenUp /\ UNCHANGED <<deleting, calls>>
  /\ UNCHANGED <<material, memories, journal, up, closing, target, running, procs, bounds>>

SpaceProcessesStopped ==
  /\ At(SpaceRequest, "stop", "remove")
  /\ procs' = {}
  /\ SagaTo("processes_stopped")
  /\ UNCHANGED <<material, memories, up, gates, sweep, running, calls, bounds>>

\* Dependencies, agent notes and rules of the Space, and its place in the knowledge base.
SpaceCleaned ==
  /\ At(SpaceRequest, "clean", "cleaned")
  /\ notes' = FALSE
  /\ UNCHANGED <<space, control, turns, queued, memories, journals, up, gates, sweep, runs, bounds>>

\* Nothing happens to a Space that is gone already.
SpaceUnlinked ==
  /\ At(SpaceRequest, "unlink", "unlinked")
  /\ space' = "gone"
  /\ UNCHANGED <<control, turns, queued, notes, memories, journals, up, gates, sweep, runs, bounds>>

SpaceCheckpoint ==
  /\ \/ At(SpaceRequest, "remove", "clean") /\ todo = {} /\ SagaTo("conversations_deleted")
     \/ At(SpaceRequest, "cleaned", "unlink") /\ SagaTo("knowledge_cleaned")
     \/ At(SpaceRequest, "unlinked", "purge") /\ SagaTo("space_deleted")
  /\ UNCHANGED <<material, memories, up, gates, sweep, runs, bounds>>

SpaceEnds ==
  /\ place[SpaceRequest] = "purged"
  /\ Done(SpaceRequest)
  /\ saga' = NoSaga
  /\ deleting' = FALSE
  /\ UNCHANGED <<material, memories, journal, up, closing, sweep, running, procs, bounds>>

-----------------------------------------------------------------------------
(* The memories, for either deletion. *)

\* Where a deletion goes on that is taken up at a checkpoint.
PlaceOf(p) ==
  [prepared |-> "stop", processes_stopped |-> "remove", conversations_deleted |-> "clean",
   knowledge_cleaned |-> "unlink", space_deleted |-> "purge"][p]

\* prepareOwnerRemoval and prepareConversationRemoval, every time a deletion is taken up.
MemoryFenced(r) ==
  /\ At(r, "fence", PlaceOf(IF r = SpaceRequest THEN saga.phase ELSE journal[r[2]]))
  /\ fence' = [fence EXCEPT ![r[2]] = "fenced"]
  /\ UNCHANGED <<material, memory, journals, up, gates, sweep, runs, bounds>>

\* finalizeOwnerRemoval and finalizeConversationRemoval.
MemoryPurged(r) ==
  /\ At(r, "purge", "purged")
  /\ fence' = [fence EXCEPT ![r[2]] = "tombstone"]
  /\ memory' = [c \in Conversations |-> memory[c] /\ ~(r = SpaceRequest \/ c = r[2])]
  /\ UNCHANGED <<material, journals, up, gates, sweep, runs, bounds>>

\* Processes that do not stop, a tombstone that is not saved, files that cannot be
\* removed, the Space's own deletion.
DeletionFails(r) ==
  /\ place[r] \in {"stop", "remove", "drain", "clean", "unlink"}
  /\ place[r] = "remove" => Targets(r) # {}
  /\ place[r] = "drain" => Target(r) \notin running
  /\ Fail(r)
  /\ UNCHANGED disk

-----------------------------------------------------------------------------
(* What goes on in the conversations. *)

\* Mutant: a cancelled turn ends while a tool of it still works.
RunEndsAtOnce(c) ==
  /\ up # "down"
  /\ c \in running /\ (~Calls(c) \/ control[c] = "tombstone")
  /\ running' = IF c \in queued THEN running ELSE running \ {c}
  /\ queued' = queued \ {c}
  /\ UNCHANGED <<space, control, turns, notes, memories, journals>>
  /\ UNCHANGED <<up, gates, chains, sweep, calls, procs, bounds>>

\* A turn ends, cancelled or not, and one that waits begins.  A first turn that never
\* reached the transcript may leave the branch.
RunEnds(c) ==
  /\ up # "down"
  /\ c \in running /\ ~Calls(c)
  /\ running' = IF c \in queued THEN running ELSE running \ {c}
  /\ queued' = queued \ {c}
  /\ \/ turns' = turns
     \/ /\ c \in Hideable /\ turns[c] = "first"
        /\ turns' = [turns EXCEPT ![c] = "hidden"]
  /\ UNCHANGED <<space, control, notes, memories, journals>>
  /\ UNCHANGED <<up, gates, chains, sweep, calls, procs, bounds>>

\* The tools of a turn start managed processes and write notes of the Space.
RunStartsProcess(c) ==
  /\ Acts(c)
  /\ procs' = procs \cup {c}
  /\ UNCHANGED <<disk, up, gates, chains, sweep, running, calls, bounds>>

RunWrites(c) ==
  /\ Acts(c)
  /\ notes' = TRUE
  /\ UNCHANGED <<space, control, turns, queued, memories, journals>>
  /\ UNCHANGED <<up, gates, chains, sweep, runs, bounds>>

\* A turn that is there is remembered, unless the memories are fenced.
Capture(c) ==
  /\ up # "down"
  /\ turns[c] # "none" /\ fence[c] = "none" /\ fence[Space] = "none"
  /\ memory' = [memory EXCEPT ![c] = TRUE]
  /\ UNCHANGED <<material, fence, journals, up, gates, chains, sweep, runs, bounds>>

-----------------------------------------------------------------------------
(* The program stops and starts again. *)

Crash ==
  /\ up # "down" /\ crashes < MaxCrashes
  /\ crashes' = crashes + 1
  /\ Down
  /\ UNCHANGED <<disk, asked, faults>>

\* Ordinary recovers: a conversation without a turn is taken back, one with a tombstone
\* is cleaned (a failure is only reported), and the turns that waited begin.
Recover ==
  /\ up = "down"
  /\ up' = "conversations"
  /\ control' = [c \in Conversations |->
       IF control[c] = "live" /\ turns[c] = "none" THEN "none" ELSE control[c]]
  /\ \E left \in SUBSET {c \in Conversations : control[c] = "tombstone" /\ turns[c] # "none"} :
       /\ turns' = [c \in Conversations |->
            IF control[c] = "tombstone" /\ c \notin left THEN "none" ELSE turns[c]]
       /\ left # {} => Fault
       /\ left = {} => UNCHANGED bounds
  /\ running' = {c \in queued : control[c] = "live"}
  /\ queued' = {}
  /\ UNCHANGED <<space, notes, memories, journals, gates, chains, sweep, calls, procs>>

\* The startup waits behind the conversation deletions of recovered turns; it holds the
\* chain of the lifecycle and the lease for all its records.
ReadyCalled ==
  /\ up = "conversations" /\ place[StartRequest] = "idle"
  /\ Enter(StartRequest, "lifecycle")
  /\ UNCHANGED <<disk, up, gates, sweep, runs, bounds>>

BirthSettled(c) ==
  /\ HasTurn(StartRequest, "exclusive")
  /\ journal[c] = "birth"
  /\ Checkpoint(c, "none")
  /\ UNCHANGED <<material, memories, up, gates, chains, sweep, runs, bounds>>

\* One record after the other is resumed with the lease of the startup.
DeleteResumed(r) ==
  /\ r[1] = "delete" /\ place[r] = "idle" /\ Journaled(r[2])
  /\ HasTurn(StartRequest, "exclusive")
  /\ lane' = [lane EXCEPT !["exclusive"] = <<r>> \o @]
  /\ place' = [place EXCEPT ![r] = "exclusive"]
  /\ closing' = closing \cup {c \in Conversations : Journaled(c)}
  /\ UNCHANGED <<disk, up, deleting, sweep, runs, bounds>>

ConversationsReady ==
  /\ HasTurn(StartRequest, "exclusive")
  /\ \A c \in Conversations : journal[c] = "none"
  /\ Quit(StartRequest)
  /\ up' = "spaces"
  /\ UNCHANGED <<disk, gates, sweep, runs, bounds>>

\* The deletion of the Space is resumed without the lease, and behind an agent's that
\* came first.
SpaceResumed ==
  /\ up = "spaces" /\ place[SpaceRequest] = "idle"
  /\ TakenUp
  /\ deleting' = TRUE
  /\ UNCHANGED <<material, memories, journal, up, closing, target, runs, bounds>>

Opened ==
  /\ up = "spaces" /\ saga = NoSaga
  /\ place[SpaceRequest] \in {"idle", "workbench"}
  /\ up' = "open"
  /\ UNCHANGED <<disk, gates, chains, sweep, runs, bounds>>

-----------------------------------------------------------------------------
(* The specification. *)

\* The steps a request takes once it was accepted.
RequestStep(r) ==
  \/ WorkbenchTurn(r) \/ AdmissionRefused(r) \/ ReferenceAdded(r)
  \/ OwnerTurn(r) \/ LifecycleTurn(r)
  \/ TurnAdmitted(r) \/ TurnSubmitted(r)
  \/ BirthBegins(r) \/ BirthCreates(r) \/ BirthStarts(r) \/ BirthCommits(r)
  \/ DeleteBegins(r) \/ ProcessesStopped(r) \/ PurgeRecorded(r) \/ DeleteEnds(r)
  \/ MemoryFenced(r) \/ ConversationCleaned(r) \/ MemoryPurged(r)
  \/ \E c \in Conversations : ConversationRemoved(r, c)
  \/ r = SpaceRequest /\ (\/ SpaceBegins \/ SpaceProcessesStopped \/ SpaceCleaned
                          \/ SpaceUnlinked \/ SpaceCheckpoint \/ SpaceEnds)

Startup ==
  \/ Recover \/ ReadyCalled
  \/ \E c \in Conversations : BirthSettled(c)
  \/ \E r \in Requests : DeleteResumed(r)
  \/ ConversationsReady \/ SpaceResumed \/ Opened

Next ==
  \/ \E r \in Requests : UserAsks(r) \/ RequestStep(r) \/ BirthFails(r) \/ DeletionFails(r)
  \/ \E c \in Conversations, r \in Requests : AgentCalls(c, r)
  \/ \E c \in Conversations : RunEnds(c) \/ RunStartsProcess(c) \/ RunWrites(c) \/ Capture(c)
  \/ Crash \/ Startup

Spec == Init /\ [][Next]_vars

\* What was accepted goes on, a turn that is told to stop ends, and the program is
\* started again.  Nobody has to ask for anything, and nothing has to fail.
FairSpec ==
  /\ Spec
  /\ \A r \in Requests : WF_vars(RequestStep(r))
  /\ \A c \in Conversations : WF_vars(RunEnds(c))
  /\ WF_vars(Startup)

-----------------------------------------------------------------------------
(* Properties. *)

\* A Space that was deleted leaves nothing that was its own: no notes, and of its
\* conversations no turn, no memory and nothing that executes.  Its deletion lists neither
\* those that show no turn, which stay, nor those their own deletion has to finish
\* (space-deletion-coordinator.ts, deleteSpace).
SpaceLeavesNothing ==
  space = "gone" /\ saga = NoSaga =>
    /\ ~notes
    /\ \A c \in {d \in Conversations \ Hideable : ~Journaled(d)} :
         control[c] # "live" /\ turns[c] = "none" /\ ~memory[c] /\ c \notin running

\* A conversation whose deletion is over leaves no turn, no memory and nothing to execute.
ConversationLeavesNothing ==
  \A c \in Conversations :
    control[c] = "tombstone" /\ journal[c] = "none" /\ saga = NoSaga =>
      turns[c] = "none" /\ ~memory[c] /\ c \notin running \cup queued

\* A deletion that is not over keeps its owner closed, and a conversation without a turn
\* is one whose birth is on record.
UnfinishedIsKnown ==
  up = "open" =>
    /\ \A c \in Conversations :
         /\ Journaled(c) => c \in closing
         /\ control[c] = "live" /\ turns[c] = "none" => journal[c] = "birth"
    /\ saga # NoSaga => deleting

\* What the two deletions promise, whatever failed or crashed on the way.
NothingLeftBehind ==
  SpaceLeavesNothing /\ ConversationLeavesNothing /\ UnfinishedIsKnown

\* What a step does to an owner and to what is its own.
RemovalStep ==
  /\ \A c \in Conversations :
       /\ control[c] = "live" /\ control'[c] = "tombstone" =>
            (Journaled(c) /\ fence[c] = "fenced") \/ (saga # NoSaga /\ fence[Space] = "fenced")
       /\ control[c] = "tombstone" =>
            control'[c] = "tombstone" /\ (turns[c] = "none" => turns'[c] = "none")
       /\ fence[c] = "tombstone" \/ fence[Space] = "tombstone" => (memory'[c] => memory[c])
  /\ space = "present" /\ space' = "gone" =>
       ~notes /\ \A c \in saga.convs : turns[c] = "none" /\ control[c] = "tombstone"

\* A conversation is removed only once the deletion is on record and the memories are
\* fenced; the Space only after its notes and its listed conversations; and nothing that
\* was deleted comes back (the order of resumeDelete and of resume of the Space).
RemovalIsOrdered == [][RemovalStep]_vars

\* A deletion waits for a run that waits for one of its own tools.
Knot == \E r \in Requests : place[r] = "drain" /\ Calls(Target(r))

\* Every request is answered and every startup ends, unless a deletion waits forever for
\* the run that waits for it (the promise chains are released by whatever leaves them).
RequestsEnd ==
  \/ <>[]Knot
  \/ /\ \A r \in Requests : []<>(place[r] = "idle")
     /\ up = "down" ~> up = "open"

\* A tool that deletes a conversation answers its agent: the tools of space-tools.ts,
\* "Delete a Conversation and its Space owner link", await the deletion.
DeletionsEnd ==
  \A c \in Conversations : place[<<"delete", c>>] # "idle" ~> place[<<"delete", c>>] = "idle"

=============================================================================
