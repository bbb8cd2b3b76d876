----------------------- MODULE SpaceReferenceDeletion -----------------------
(***************************************************************************)
(* Deleting references that own something                                  *)
(* (app/spaces/space-reference-deletion.ts under the command queue of      *)
(* app/spaces/space-feature.ts, the deletion journal and the file port of  *)
(* the panel server).                                                      *)
(*                                                                         *)
(* The metadata of a Space is one SQLite snapshot; a managed folder is a   *)
(* directory, a managed asset a row of another table.  A deletion spans    *)
(* them: journal, rename each folder to a hidden sibling, write the new    *)
(* snapshot (the commit point), then remove the renamed folders, the       *)
(* assets and the journal file.  Before the commit point a failure is      *)
(* rolled back; after it the journal is kept and recovery finishes.        *)
(* Recovery runs at startup and at release and decides by the metadata.    *)
(*                                                                         *)
(* A step is one call that touches a disk.  It may fail, without effect or *)
(* after it (a rename whose directory sync fails); the process may stop    *)
(* between any two; people may remove or re-create the folders meanwhile.  *)
(***************************************************************************)
EXTENDS Integers, FiniteSets

CONSTANTS
  Items,       \* the references of one Space
  Folders,     \* those of kind managed_folder
  Assets,      \* those of kind managed_asset
  Shelves,     \* those of kind asset_folder, which may contain others
  Pages,       \* those of kind web_page
  Subtree,     \* referenceSubtreeIds of the full Space, per reference
  Ids,         \* deletion ids
  None,        \* no journal file
  LateSaves,   \* deletions whose journal saves may be published and yet report an error
  Edited,      \* bound: the references that are edited, once each
  MaxFaults,   \* bound: how many calls fail
  MaxCrashes,  \* bound: how often the process stops without a release
  MaxOutside,  \* bound: how often somebody else touches a folder
  MaxTroubles  \* bound: how many of these three together

Owned == Folders \cup Assets
External == Items \ (Owned \cup Shelves)   \* isExternalReference
Absent == -1                 \* the revision of a reference that is not there
Revisions == {0, 1}
Contents == {"source", "gone", "lost"} \cup Ids
Phases == {"prepared", "files_staged", "metadata_committed"}

ASSUME KindAssumption ==
  /\ Owned \cup Shelves \cup Pages \subseteq Items
  /\ Folders \cap Assets = {}
  /\ (Owned \cup Shelves) \cap Pages = {}
ASSUME SubtreeAssumption ==
  /\ Subtree \in [Items -> SUBSET Items]
  /\ \A i \in Items : i \in Subtree[i]
  /\ \A i \in External : Subtree[i] = {i}
ASSUME IdAssumption ==
  /\ Ids \cap {"source", "gone", "lost"} = {}
  /\ None \notin [phase : Phases, refs : [Items -> Revisions \cup {Absent}]]
ASSUME BoundAssumption ==
  /\ LateSaves \subseteq Ids
  /\ Edited \subseteq Items
  /\ {MaxFaults, MaxCrashes, MaxOutside, MaxTroubles} \subseteq Nat

VARIABLES
  meta,      \* the revision of each reference in the repository, or Absent
  assets,    \* the managed assets that exist
  content,   \* where the content of each folder is: at its source path, staged
             \* by a deletion, destroyed by the program, or lost by an outsider
  squatters, \* the folders whose vacated source path somebody re-created
  journal,   \* the journal file of each deletion
  pc,        \* what the command queue of the feature is doing
  activity,  \* on behalf of whom: a deletion, the startup or the release
  job,       \* the deletion being worked on
  record,    \* its journal record, in memory
  todo,      \* the targets the current loop has not reached
  failed,    \* whether the current loop collected a failure
  pending,   \* the journal files recovery has listed and not handled
  answer,    \* what each command was told
  asked,     \* the references each command was to remove
  faults, crashes, outside   \* spent of the bounds

durable == <<meta, assets, content, squatters, journal>>
history == <<answer, asked>>
spent == <<faults, crashes, outside>>
control == <<pc, activity, job, record, todo, failed, pending>>
vars == <<durable, control, history, spent>>

Records == [phase : Phases, refs : [Items -> Revisions \cup {Absent}]]
Places == {"down", "idle", "blocked", "dead", "unreleased", "released",
           "saving", "staging", "writing", "committing", "cleaning",
           "forgetting", "undoing", "recovering", "restoring"}
Answers == {"unused", "running", "refused", "rolled_back", "stuck",
            "unsettled", "done", "crashed"}

TypeOK ==
  /\ meta \in [Items -> Revisions \cup {Absent}]
  /\ assets \in SUBSET Assets
  /\ content \in [Folders -> Contents]
  /\ squatters \in SUBSET Folders
  /\ journal \in [Ids -> Records \cup {None}]
  /\ pc \in Places
  /\ activity \in {"delete", "startup", "release"}
  /\ job \in Ids
  /\ record \in Records
  /\ todo \in SUBSET Folders
  /\ failed \in BOOLEAN
  /\ pending \in SUBSET Ids
  /\ answer \in [Ids -> Answers]
  /\ asked \in [Ids -> SUBSET Items]
  /\ faults \in 0..MaxFaults
  /\ crashes \in 0..MaxCrashes
  /\ outside \in 0..MaxOutside

NoRecord == [phase |-> "prepared", refs |-> [i \in Items |-> Absent]]

Init ==
  /\ meta = [i \in Items |-> 0]
  /\ assets = Assets
  /\ content = [f \in Folders |-> "source"]
  /\ squatters = {}
  /\ journal = [d \in Ids |-> None]
  /\ pc = "idle"
  /\ activity = "startup"
  /\ job \in Ids
  /\ record = NoRecord
  /\ todo = {}
  /\ failed = FALSE
  /\ pending = {}
  /\ answer = [d \in Ids |-> "unused"]
  /\ asked = [d \in Ids |-> {}]
  /\ faults = 0
  /\ crashes = 0
  /\ outside = 0

-----------------------------------------------------------------------------
Present(rev) == {i \in Items : rev[i] # Absent}
Removed == Present(record.refs)
Targets == Removed \cap Folders
Journaled == {d \in Ids : journal[d] # None}

\* SpaceReferenceDeletionFilePort.inspect
SourceExists(f) == content[f] = "source" \/ f \in squatters
StagedExists(f) == content[f] = job

Troubles == faults + crashes + outside
Fault == faults < MaxFaults /\ Troubles < MaxTroubles /\ faults' = faults + 1
NoFault == UNCHANGED faults

Answered(word) == answer' = [answer EXCEPT ![job] = word]
Told == UNCHANGED history
Goto(place) == pc' = place /\ UNCHANGED <<activity, job, record, pending>>
Journal(entry) == journal' = [journal EXCEPT ![job] = entry]
\* Mutant: a phase the journal schema does not know.
InPhaseMisspelt(phase) == [phase |-> "committed", refs |-> record.refs]
InPhase(phase) == [phase |-> phase, refs |-> record.refs]
Moved(f, place) == content' = [content EXCEPT ![f] = place]
\* A save, a rename or a removal that failed, before or after its effect.
MaybeSaved(entry) == UNCHANGED journal \/ (job \in LateSaves /\ Journal(entry))
MaybeForgotten == UNCHANGED journal \/ Journal(None)
MaybeMoved(f, place) == UNCHANGED content \/ Moved(f, place)

-----------------------------------------------------------------------------
(* Commands that touch the metadata only. *)

Revise ==
  /\ pc = "idle"
  /\ \E i \in Edited : /\ meta[i] = 0
                       /\ meta' = [meta EXCEPT ![i] = 1]
  /\ UNCHANGED <<assets, content, squatters, journal, control, history, spent>>

Unlink ==
  /\ pc = "idle"
  /\ \E i \in External : /\ meta[i] # Absent
                         /\ meta' = [meta EXCEPT ![i] = Absent]
  /\ UNCHANGED <<assets, content, squatters, journal, control, history, spent>>

\* A Space that owns nothing goes without a journal.
DeleteSpacePlainly ==
  /\ pc = "idle"
  /\ Present(meta) \cap Owned = {}
  /\ meta' = [i \in Items |-> Absent]
  /\ UNCHANGED <<assets, content, squatters, journal, control, history, spent>>

-----------------------------------------------------------------------------
(* The deletion lifecycle: remove. *)

\* What one command removes: a Space, or an owned reference and its subtree.
Removable ==
  {S \in {Present(meta)} : S \cap Owned # {}}
  \cup {Subtree[i] \cap Present(meta) :
          i \in {j \in Owned \cup Shelves : meta[j] # Absent}}

\* The files of its managed folders are looked up before anything is written;
\* the folder may be missing, and then nothing starts.
RequestDeletion(d, S) ==
  /\ pc = "idle"
  /\ answer[d] = "unused"
  /\ S \in Removable
  /\ asked' = [asked EXCEPT ![d] = S]
  /\ IF \A f \in S \cap Folders : SourceExists(f)
       THEN /\ answer' = [answer EXCEPT ![d] = "running"]
            /\ record' = [phase |-> "prepared",
                          refs |-> [i \in Items |-> IF i \in S THEN meta[i] ELSE Absent]]
            /\ job' = d
            /\ activity' = "delete"
            /\ pc' = "saving"
       ELSE /\ answer' = [answer EXCEPT ![d] = "refused"]
            /\ UNCHANGED <<record, job, activity, pc>>
  /\ UNCHANGED <<durable, todo, failed, pending, spent>>

\* The schema of a journaled reference has no web metadata and is strict.
JournalAccepts(rec) == Present(rec.refs) \cap Pages = {}

SavePrepared ==
  /\ pc = "saving"
  /\ JournalAccepts(record)
  /\ Journal(record)
  /\ Goto("staging")
  /\ todo' = Targets
  /\ UNCHANGED <<meta, assets, content, squatters, failed, history, spent>>

\* Outside the try block: the command fails and nothing is rolled back.
SavePreparedFails ==
  /\ pc = "saving"
  /\ \/ ~JournalAccepts(record) /\ NoFault /\ UNCHANGED journal
     \/ JournalAccepts(record) /\ Fault /\ MaybeSaved(record)
  /\ Answered("refused")
  /\ Goto("idle")
  /\ UNCHANGED <<meta, assets, content, squatters, todo, failed, asked, crashes, outside>>

Stage(f) ==
  /\ pc = "staging" /\ f \in todo
  /\ content[f] = "source"
  /\ Moved(f, job)
  /\ todo' = todo \ {f}
  /\ UNCHANGED <<meta, assets, squatters, journal, pc, activity, job, record, failed,
                 pending, history, spent>>

\* Mutant: only what was staged so far is rolled back, not the target that failed.
StartUndoOfStaged ==
  /\ Goto("undoing")
  /\ todo' = Targets \ todo
  /\ failed' = FALSE
  /\ UNCHANGED <<meta, assets, squatters, history, crashes, outside>>

\* What rollbackUncommittedDeletion starts with.
StartUndo ==
  /\ Goto("undoing")
  /\ todo' = Targets
  /\ failed' = FALSE
  /\ UNCHANGED <<meta, assets, squatters, history, crashes, outside>>

StageFails(f) ==
  /\ pc = "staging" /\ f \in todo
  /\ \/ content[f] = "source" /\ Fault /\ MaybeMoved(f, job)
     \/ content[f] # "source" /\ NoFault /\ UNCHANGED content
  /\ UNCHANGED journal
  /\ StartUndo

SaveStaged ==
  /\ pc = "staging" /\ todo = {}
  /\ Journal(InPhase("files_staged"))
  /\ Goto("writing")
  /\ UNCHANGED <<meta, assets, content, squatters, todo, failed, history, spent>>

SaveStagedFails ==
  /\ pc = "staging" /\ todo = {}
  /\ Fault
  /\ MaybeSaved(InPhase("files_staged"))
  /\ UNCHANGED content
  /\ StartUndo

\* Mutant: only the owned references are taken out of the snapshot.
CommitOwnedOnly ==
  /\ pc = "writing"
  /\ meta' = [i \in Items |-> IF i \in Removed \cap Folders THEN Absent ELSE meta[i]]
  /\ Goto("committing")
  /\ UNCHANGED <<assets, content, squatters, journal, todo, failed, history, spent>>

\* The commit point: one SQLite transaction.
Commit ==
  /\ pc = "writing"
  /\ meta' = [i \in Items |-> IF i \in Removed THEN Absent ELSE meta[i]]
  /\ Goto("committing")
  /\ UNCHANGED <<assets, content, squatters, journal, todo, failed, history, spent>>

\* Mutant: a failed write is taken for a commit.
CommitFailsUnnoticed ==
  /\ pc = "writing"
  /\ Fault
  /\ Goto("committing")
  /\ UNCHANGED <<durable, todo, failed, history, crashes, outside>>

CommitFails ==
  /\ pc = "writing"
  /\ Fault
  /\ UNCHANGED <<content, journal>>
  /\ StartUndo

\* What finalizeCommittedDeletion starts with.
StartCleaning ==
  /\ todo' = Targets
  /\ failed' = FALSE

SaveCommitted ==
  /\ pc = "committing"
  /\ Journal(InPhase("metadata_committed"))
  /\ Goto("cleaning")
  /\ StartCleaning
  /\ UNCHANGED <<meta, assets, content, squatters, history, spent>>

SaveCommittedFails ==
  /\ pc = "committing"
  /\ Fault
  /\ MaybeSaved(InPhase("metadata_committed"))
  /\ Answered("unsettled")
  /\ Goto("cleaning")
  /\ StartCleaning
  /\ UNCHANGED <<meta, assets, content, squatters, asked, crashes, outside>>

-----------------------------------------------------------------------------
(* finalizeCommittedDeletion, for a command or for recovery. *)

\* The end of one journal record's recovery, and its failure.
RecoveryGoesOn == pc' = "recovering" /\ pending' = pending \ {job} /\ Told
RecoveryStops ==
  /\ pc' = IF activity = "startup" THEN "dead" ELSE "unreleased"
  /\ UNCHANGED pending
  /\ Told

\* Mutant: cleanup failures are not reported.
CleaningEndsQuietly(settled) ==
  IF activity = "delete"
    THEN pc' = "idle" /\ Answered("done") /\ UNCHANGED <<pending, asked>>
    ELSE IF settled THEN RecoveryGoesOn ELSE RecoveryStops

CleaningEnds(settled) ==
  IF activity = "delete"
    THEN /\ pc' = "idle"
         /\ Answered(IF settled /\ answer[job] = "running" THEN "done" ELSE "unsettled")
         /\ UNCHANGED <<pending, asked>>
    ELSE IF settled THEN RecoveryGoesOn ELSE RecoveryStops

Clean(f) ==
  /\ pc = "cleaning" /\ f \in todo
  /\ IF StagedExists(f) THEN Moved(f, "gone") ELSE UNCHANGED content
  /\ todo' = todo \ {f}
  /\ UNCHANGED <<meta, assets, squatters, journal, pc, activity, job, record, failed,
                 pending, history, spent>>

CleanFails(f) ==
  /\ pc = "cleaning" /\ f \in todo
  /\ Fault
  /\ UNCHANGED content \/ (StagedExists(f) /\ Moved(f, "gone"))
  /\ todo' = todo \ {f}
  /\ failed' = TRUE
  /\ UNCHANGED <<meta, assets, squatters, journal, pc, activity, job, record, pending,
                 history, crashes, outside>>

DeleteAssets ==
  /\ pc = "cleaning" /\ todo = {}
  /\ \/ assets' = assets \ Removed /\ NoFault /\ UNCHANGED failed
     \/ Removed \cap Assets # {} /\ Fault /\ UNCHANGED assets /\ failed' = TRUE
  /\ Goto("forgetting")
  /\ UNCHANGED <<meta, content, squatters, journal, todo, history, crashes, outside>>

\* Mutant: the journal is deleted although the cleanup failed.
ForgetRegardless ==
  /\ pc = "forgetting"
  /\ Journal(None)
  /\ CleaningEnds(~failed)
  /\ UNCHANGED <<meta, assets, content, squatters, activity, job, record, todo, failed, spent>>

Forget ==
  /\ pc = "forgetting" /\ ~failed
  /\ Journal(None)
  /\ CleaningEnds(TRUE)
  /\ UNCHANGED <<meta, assets, content, squatters, activity, job, record, todo, failed, spent>>

CleaningFails ==
  /\ pc = "forgetting"
  /\ \/ failed /\ NoFault /\ UNCHANGED journal
     \/ ~failed /\ Fault /\ MaybeForgotten
  /\ CleaningEnds(FALSE)
  /\ UNCHANGED <<meta, assets, content, squatters, activity, job, record, todo, failed,
                 crashes, outside>>

-----------------------------------------------------------------------------
(* rollbackUncommittedDeletion. *)

Undo(f) ==
  /\ pc = "undoing" /\ f \in todo
  /\ todo' = todo \ {f}
  /\ \/ /\ StagedExists(f) /\ ~SourceExists(f)
        /\ Moved(f, "source")
        /\ UNCHANGED failed
     \/ /\ SourceExists(f) /\ ~StagedExists(f)
        /\ UNCHANGED <<content, failed>>
     \/ /\ SourceExists(f) <=> StagedExists(f)
        /\ failed' = TRUE
        /\ UNCHANGED content
  /\ UNCHANGED <<meta, assets, squatters, journal, pc, activity, job, record, pending,
                 history, spent>>

UndoFails(f) ==
  /\ pc = "undoing" /\ f \in todo
  /\ Fault
  /\ UNCHANGED content \/ (StagedExists(f) /\ ~SourceExists(f) /\ Moved(f, "source"))
  /\ todo' = todo \ {f}
  /\ failed' = TRUE
  /\ UNCHANGED <<meta, assets, squatters, journal, pc, activity, job, record, pending,
                 history, crashes, outside>>

\* Mutant: the rollback is believed although some target could not be restored.
UndoForgetsRegardless ==
  /\ pc = "undoing" /\ todo = {}
  /\ Journal(None)
  /\ Answered("rolled_back")
  /\ Goto("idle")
  /\ UNCHANGED <<meta, assets, content, squatters, todo, failed, asked, spent>>

UndoForgets ==
  /\ pc = "undoing" /\ todo = {} /\ ~failed
  /\ Journal(None)
  /\ Answered("rolled_back")
  /\ Goto("idle")
  /\ UNCHANGED <<meta, assets, content, squatters, todo, failed, asked, spent>>

\* Mutant: the failed rollback does not block the feature.
UndoGivesUpUnblocked ==
  /\ pc = "undoing" /\ todo = {}
  /\ \/ failed /\ NoFault /\ UNCHANGED journal
     \/ ~failed /\ Fault /\ MaybeForgotten
  /\ Answered("stuck")
  /\ Goto("idle")
  /\ UNCHANGED <<meta, assets, content, squatters, todo, failed, asked, crashes, outside>>

\* runtimeFailure: the feature refuses every command until a restart.
UndoGivesUp ==
  /\ pc = "undoing" /\ todo = {}
  /\ \/ failed /\ NoFault /\ UNCHANGED journal
     \/ ~failed /\ Fault /\ MaybeForgotten
  /\ Answered("stuck")
  /\ Goto("blocked")
  /\ UNCHANGED <<meta, assets, content, squatters, todo, failed, asked, crashes, outside>>

-----------------------------------------------------------------------------
(* Startup, release, and the recovery both run. *)

StartRecovery(for) ==
  /\ activity' = for
  /\ UNCHANGED <<durable, job, record, todo, failed, history, crashes, outside>>

Start ==
  /\ pc \in {"down", "released"}
  /\ \/ NoFault /\ pc' = "recovering" /\ pending' = Journaled
     \/ Fault /\ pc' = "dead" /\ UNCHANGED pending
  /\ StartRecovery("startup")

Release ==
  /\ pc \in {"idle", "blocked", "unreleased"}
  /\ \/ NoFault /\ pc' = "recovering" /\ pending' = Journaled
     \/ Fault /\ pc' = "unreleased" /\ UNCHANGED pending
  /\ StartRecovery("release")

\* A startup that failed has nothing to recover at release.
ReleaseDead ==
  /\ pc = "dead"
  /\ Goto("released")
  /\ UNCHANGED <<durable, todo, failed, history, spent>>

\* The whole subtree is there as journaled, or none of it.
StillThere(refs) == Present(refs) \cap Present(meta)
Unaltered(refs) == \A i \in Present(refs) : meta[i] = refs[i]
Restorable(d, f) == (content[f] = d) # SourceExists(f)

Recovers(d, place) ==
  /\ pc = "recovering" /\ d \in pending
  /\ job' = d
  /\ record' = journal[d]
  /\ pc' = place
  /\ UNCHANGED <<durable, activity, pending, history, crashes, outside>>

RecoverForward(d) ==
  /\ Recovers(d, "cleaning")
  /\ StillThere(journal[d].refs) = {}
  /\ todo' = Present(journal[d].refs) \cap Folders
  /\ failed' = FALSE
  /\ NoFault

RecoverBackward(d) ==
  /\ Recovers(d, "restoring")
  /\ StillThere(journal[d].refs) # {}
  /\ Unaltered(journal[d].refs)
  /\ LET targets == Present(journal[d].refs) \cap Folders
     IN  /\ \A f \in targets : Restorable(d, f)
         /\ todo' = {f \in targets : content[f] = d}
  /\ UNCHANGED failed
  /\ NoFault

RecoveryRefuses(d) ==
  /\ pc = "recovering" /\ d \in pending
  /\ \/ Fault
     \/ /\ StillThere(journal[d].refs) # {}
        /\ \/ ~Unaltered(journal[d].refs)
           \/ \E f \in Present(journal[d].refs) \cap Folders : ~Restorable(d, f)
        /\ NoFault
  /\ RecoveryStops
  /\ UNCHANGED <<durable, activity, job, record, todo, failed, crashes, outside>>

Restore(f) ==
  /\ pc = "restoring" /\ f \in todo
  /\ StagedExists(f) /\ ~SourceExists(f)
  /\ Moved(f, "source")
  /\ todo' = todo \ {f}
  /\ UNCHANGED <<meta, assets, squatters, journal, pc, activity, job, record, failed,
                 pending, history, spent>>

RestoreFails(f) ==
  /\ pc = "restoring" /\ f \in todo
  /\ LET possible == StagedExists(f) /\ ~SourceExists(f)
     IN  \/ ~possible /\ NoFault /\ UNCHANGED content
         \/ possible /\ Fault /\ MaybeMoved(f, "source")
  /\ RecoveryStops
  /\ UNCHANGED <<meta, assets, squatters, journal, activity, job, record, todo, failed,
                 crashes, outside>>

Drop ==
  /\ pc = "restoring" /\ todo = {}
  /\ \/ NoFault /\ Journal(None) /\ RecoveryGoesOn
     \/ Fault /\ MaybeForgotten /\ RecoveryStops
  /\ UNCHANGED <<meta, assets, content, squatters, activity, job, record, todo, failed,
                 crashes, outside>>

RecoveryEnds ==
  /\ pc = "recovering" /\ pending = {}
  /\ Goto(IF activity = "startup" THEN "idle" ELSE "released")
  /\ UNCHANGED <<durable, todo, failed, history, spent>>

-----------------------------------------------------------------------------
(* The process stops; somebody else touches a folder. *)

Crash ==
  /\ pc \notin {"down", "released"}
  /\ crashes < MaxCrashes /\ Troubles < MaxTroubles
  /\ crashes' = crashes + 1
  /\ answer' = [d \in Ids |-> IF d = job /\ activity = "delete" /\ answer[d] = "running"
                              THEN "crashed" ELSE answer[d]]
  /\ Goto("down")
  /\ UNCHANGED <<durable, todo, failed, asked, faults, outside>>

Outsider(f) ==
  /\ outside < MaxOutside /\ Troubles < MaxTroubles
  /\ outside' = outside + 1
  /\ \/ /\ content[f] \notin {"gone", "lost"} /\ f \notin squatters
        /\ Moved(f, "lost")
        /\ UNCHANGED squatters
     \/ /\ content[f] \in Ids /\ f \notin squatters
        /\ squatters' = squatters \cup {f}
        /\ UNCHANGED content
     \/ /\ f \in squatters
        /\ squatters' = squatters \ {f}
        /\ UNCHANGED content
  /\ UNCHANGED <<meta, assets, journal, control, history, faults, crashes>>

Next ==
  \/ Revise \/ Unlink \/ DeleteSpacePlainly
  \/ \E d \in Ids : \E S \in SUBSET Items : RequestDeletion(d, S)
  \/ SavePrepared \/ SavePreparedFails
  \/ \E f \in Folders : Stage(f) \/ StageFails(f)
  \/ SaveStaged \/ SaveStagedFails \/ Commit \/ CommitFails
  \/ SaveCommitted \/ SaveCommittedFails
  \/ \E f \in Folders : Clean(f) \/ CleanFails(f)
  \/ DeleteAssets \/ Forget \/ CleaningFails
  \/ \E f \in Folders : Undo(f) \/ UndoFails(f)
  \/ UndoForgets \/ UndoGivesUp
  \/ Start \/ Release \/ ReleaseDead
  \/ \E d \in Ids : RecoverForward(d) \/ RecoverBackward(d) \/ RecoveryRefuses(d)
  \/ \E f \in Folders : Restore(f) \/ RestoreFails(f)
  \/ Drop \/ RecoveryEnds
  \/ Crash
  \/ \E f \in Folders : Outsider(f)

Spec == Init /\ [][Next]_vars

-----------------------------------------------------------------------------
(* Properties. *)

\* While the Space refers to a material it owns, the program has not destroyed
\* it, whatever fails or crashes: removeStaged and deleteOwnedAssets only run
\* for references whose removal is durable.
NothingLost ==
  /\ \A f \in Folders : meta[f] # Absent => content[f] # "gone"
  /\ \A a \in Assets : meta[a] # Absent => a \in assets

\* A folder renamed out of the way is never forgotten: the journal still names
\* the deletion that did it, so that recovery will restore or remove it.
StagedIsJournaled ==
  \A f \in Folders : content[f] \in Ids =>
    /\ content[f] \in Journaled
    /\ journal[content[f]].refs[f] # Absent

\* Whenever no journal file is left, metadata and materials agree: what is
\* referred to is at its place and what is not has been destroyed, unless an
\* outsider removed it.
SettledIsClean ==
  Journaled = {} =>
    /\ \A f \in Folders :
         content[f] \in {"lost", IF meta[f] = Absent THEN "gone" ELSE "source"}
    /\ assets = {a \in Assets : meta[a] # Absent}

\* A deletion that was reported done left nothing of what it was asked to
\* remove, in any store, and no later recovery brings any of it back.
DoneMeansGone ==
  \A d \in Ids : answer[d] = "done" =>
    /\ d \notin Journaled
    /\ \A i \in asked[d] : meta[i] = Absent
    /\ \A f \in asked[d] \cap Folders : content[f] \in {"gone", "lost"}
    /\ asked[d] \cap assets = {}

\* A deletion that failed before its commit point and was rolled back leaves
\* every reference it was to remove, at its revision, and every folder in place.
RolledBackMeansIntact ==
  [][\A d \in Ids : answer[d] = "running" /\ answer'[d] = "rolled_back" =>
       /\ \A i \in asked[d] : meta'[i] = record.refs[i]
       /\ \A f \in asked[d] \cap Folders : content'[f] \in {"source", "lost"}
       /\ asked[d] \cap Assets \subseteq assets']_vars

\* recoverDeletion asserts that a journaled subtree is either wholly gone or
\* wholly there as journaled: a record it finds otherwise stops the startup.
JournalMatchesMetadata ==
  \A d \in Journaled \ LateSaves :
    LET refs == journal[d].refs IN StillThere(refs) # {} => Unaltered(refs)

\* References vanish in whole subtrees at once and materials only after them.
Materials ==
  INSTANCE SpaceMaterials WITH
    refs <- Present(meta),
    materials <- {f \in Folders : content[f] # "gone"} \cup assets
RemovesAtomically == Materials!Spec
=============================================================================
