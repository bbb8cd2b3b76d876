-------------------- MODULE SpaceReferenceDeletion_proofs --------------------
(***************************************************************************)
(* For every set of references and deletions, every number of failures,    *)
(* crashes and outside changes: nothing referred to is destroyed, nothing  *)
(* staged is forgotten, an empty journal means that metadata and materials *)
(* agree, and the lifecycle implements SpaceMaterials.                     *)
(***************************************************************************)
EXTENDS SpaceReferenceDeletion, TLAPS

-----------------------------------------------------------------------------
(* The bookkeeping of the command queue: what pc says of the job, its       *)
(* record, its journal file and the metadata.                               *)

BeforeCommit == {"saving", "staging", "writing", "undoing"}
AfterCommit == {"committing", "cleaning", "forgetting"}
CommandOnly == BeforeCommit \cup {"committing"}
RecoveryOnly == {"recovering", "restoring"}
Journaling == (BeforeCommit \ {"saving"}) \cup AfterCommit \cup {"restoring"}

\* While a deletion is worked on its journal file holds the record in memory.
JobJournaled ==
  pc \in Journaling => journal[job] # None /\ journal[job].refs = record.refs

\* An id that was never used has no journal file, and one being used for the
\* first time has none until its record is saved.
FreshIds ==
  /\ \A d \in Ids : answer[d] = "unused" => journal[d] = None
  /\ pc = "saving" => journal[job] = None

\* Who is being served, in each place.
Served ==
  /\ pc \in AfterCommit \cup {"restoring"} /\ activity # "delete" => job \in pending
  /\ pc \in BeforeCommit \cup AfterCommit /\ activity = "delete" =>
       answer[job] \in {"running", "unsettled"} /\ asked[job] = Removed
  /\ pc \in BeforeCommit => answer[job] = "running"

\* Up to the commit point the metadata is what the record says, and the record
\* holds a whole subtree; after it, none of it is left.
Uncommitted ==
  pc \in BeforeCommit =>
    /\ \A i \in Removed : meta[i] = record.refs[i]
    /\ \/ Removed = Present(meta)
       \/ \E root \in Present(meta) : Removed = Subtree[root] \cap Present(meta)
Committed == pc \in AfterCommit => \A i \in Removed : meta[i] = Absent
RestoringPresent == pc = "restoring" => \A i \in Removed : meta[i] # Absent

\* A command that was told "done" has no journal file and no reference left.
DoneLedger ==
  \A d \in Ids : answer[d] = "done" =>
    d \notin Journaled /\ \A i \in asked[d] : meta[i] = Absent

Ledger ==
  /\ JobJournaled /\ FreshIds /\ Served
  /\ Uncommitted /\ Committed /\ RestoringPresent /\ DoneLedger

-----------------------------------------------------------------------------
(* Where the content of a folder can be. *)

Stalled == {"blocked", "dead", "unreleased", "released", "down"}

\* Nothing is left at the source path of a folder without a reference.
AbsentNotSource == \A f \in Folders : meta[f] = Absent => content[f] # "source"
SquattersVacant == \A f \in squatters : content[f] \in Ids \cup {"gone"}

\* A staged folder that is still referred to is the job's, or waits for recovery.
StagedPresent ==
  \A f \in Folders : content[f] \in Ids /\ meta[f] # Absent =>
    \/ pc \in {"staging", "writing", "undoing"} /\ content[f] = job
    \/ pc \in Stalled
    \/ /\ pc \in {"recovering", "restoring", "cleaning", "forgetting"}
       /\ activity # "delete"
       /\ content[f] \in pending

\* How far each loop over the targets has come.
StageProgress ==
  /\ pc \in {"saving", "staging", "undoing"} =>
       \A f \in Targets : content[f] \in {"source", job, "lost"}
  /\ pc = "staging" => todo \subseteq Targets /\ \A f \in Targets \ todo : content[f] # "source"
  /\ pc \in {"writing", "committing"} => \A f \in Targets : content[f] \in {job, "lost"}
CleanProgress ==
  /\ pc \in {"cleaning", "forgetting"} /\ activity = "delete" =>
       \A f \in Targets : content[f] \in {job, "gone", "lost"}
  /\ pc \in {"undoing", "cleaning", "forgetting"} /\ ~failed =>
       \A f \in Targets \ todo : content[f] # job
  /\ pc = "forgetting" => todo = {}
  /\ pc = "restoring" => \A f \in Targets \ todo : content[f] # job

DoneFolders ==
  \A d \in Ids : answer[d] = "done" =>
    \A f \in asked[d] \cap Folders : content[f] \in {"gone", "lost"}

FolderNotLost == \A f \in Folders : meta[f] # Absent => content[f] # "gone"

FolderLedger ==
  /\ StagedIsJournaled /\ FolderNotLost /\ AbsentNotSource /\ SquattersVacant
  /\ StagedPresent /\ StageProgress /\ CleanProgress /\ DoneFolders

-----------------------------------------------------------------------------
(* Where the managed assets can be. *)

AssetLedger ==
  /\ \A a \in Assets : meta[a] # Absent => a \in assets
  /\ \A a \in assets : meta[a] = Absent =>
       \E d \in Journaled : journal[d].refs[a] # Absent
  /\ pc = "forgetting" /\ ~failed => Removed \cap assets = {}
  /\ \A d \in Ids : answer[d] = "done" => asked[d] \cap assets = {}

\* A journal file, of a deletion whose failed saves have no effect, is that of the
\* job or of a recovery to come, or all its references are gone.
NothingStale ==
  \A d \in Journaled \ LateSaves :
    \/ StillThere(journal[d].refs) = {}
    \/ /\ Unaltered(journal[d].refs)
       /\ \/ pc \in {"staging", "writing", "undoing"} /\ d = job
          \/ pc \in Stalled
          \/ /\ pc \in {"recovering", "restoring", "cleaning", "forgetting"}
             /\ activity # "delete"
             /\ d \in pending

-----------------------------------------------------------------------------
(* Type correctness, with what recovery has listed. *)

Listed ==
  /\ pc \in CommandOnly => activity = "delete"
  /\ pc \in RecoveryOnly => activity # "delete"
  /\ pc \notin Stalled => pending \subseteq Journaled
  /\ pc \in CommandOnly \cup {"idle"} \/ (pc \in AfterCommit /\ activity = "delete") =>
       pending = {}

LEMMA RecordFacts ==
  ASSUME TypeOK
  PROVE  /\ None \notin Records
         /\ Removed \subseteq Items /\ Targets \in SUBSET Folders
         /\ \A d \in Journaled : journal[d] \in Records
         /\ \A phase \in Phases : InPhase(phase) \in Records /\ InPhase(phase).refs = record.refs
BY IdAssumption DEF TypeOK, Records, Removed, Targets, Present, Journaled, InPhase, Absent

LEMMA FaultFacts == TypeOK /\ (Fault \/ NoFault) => faults' \in 0..MaxFaults
BY BoundAssumption DEF TypeOK, Fault, NoFault

LEMMA TypeStep == TypeOK /\ Listed /\ [Next]_vars => TypeOK'
<1> SUFFICES ASSUME TypeOK, Listed, [Next]_vars PROVE TypeOK'
  OBVIOUS
<1> USE RecordFacts, FaultFacts, KindAssumption, BoundAssumption
    DEF TypeOK, durable, control, history, spent, Goto, Journal, Moved, Answered,
        Told, MaybeSaved, MaybeMoved, MaybeForgotten
<1>0. {"source", "gone", "lost"} \subseteq Contents /\ Ids \subseteq Contents
  BY DEF Contents
<1>1. CASE Revise
  BY <1>0, <1>1 DEF Revise, Revisions, Absent, Places, Answers
<1>2. CASE Unlink
  BY <1>0, <1>2 DEF Unlink, External, Absent, Places, Answers
<1>3. CASE DeleteSpacePlainly
  BY <1>0, <1>3 DEF DeleteSpacePlainly, Absent, Places, Answers
<1>4. ASSUME NEW d \in Ids, NEW S \in SUBSET Items, RequestDeletion(d, S) PROVE TypeOK'
  BY <1>0, <1>4 DEF RequestDeletion, Records, Phases, Removable, Present, Places, Answers
<1>5. CASE SavePrepared
  BY <1>0, <1>5 DEF SavePrepared, Places, Answers
<1>6. CASE SavePreparedFails
  BY <1>0, <1>6 DEF SavePreparedFails, Places, Answers
<1>7. ASSUME NEW f \in Folders, Stage(f) PROVE TypeOK'
  BY <1>0, <1>7 DEF Stage, Places, Answers
<1>8. ASSUME NEW f \in Folders, StageFails(f) PROVE TypeOK'
  BY <1>0, <1>8 DEF StageFails, StartUndo, Places, Answers
<1>9. CASE SaveStaged
  BY <1>0, <1>9 DEF SaveStaged, Phases, Places, Answers
<1>10. CASE SaveStagedFails
  BY <1>0, <1>10 DEF SaveStagedFails, StartUndo, Phases, Places, Answers
<1>11. CASE Commit
  BY <1>0, <1>11 DEF Commit, Absent, Places, Answers
<1>12. CASE CommitFails
  BY <1>0, <1>12 DEF CommitFails, StartUndo, Places, Answers
<1>13. CASE SaveCommitted
  BY <1>0, <1>13 DEF SaveCommitted, StartCleaning, Phases, Places, Answers
<1>14. CASE SaveCommittedFails
  BY <1>0, <1>14 DEF SaveCommittedFails, StartCleaning, Phases, Places, Answers
<1>15. ASSUME NEW f \in Folders, Clean(f) PROVE TypeOK'
  BY <1>0, <1>15 DEF Clean, Places, Answers
<1>16. ASSUME NEW f \in Folders, CleanFails(f) PROVE TypeOK'
  BY <1>0, <1>16 DEF CleanFails, Places, Answers
<1>17. CASE DeleteAssets
  BY <1>0, <1>17 DEF DeleteAssets, Places, Answers
<1>18. CASE Forget
  BY <1>0, <1>18 DEF Forget, CleaningEnds, RecoveryGoesOn, RecoveryStops, Places, Answers
<1>19. CASE CleaningFails
  BY <1>0, <1>19 DEF CleaningFails, CleaningEnds, RecoveryGoesOn, RecoveryStops, Places, Answers
<1>20. ASSUME NEW f \in Folders, Undo(f) PROVE TypeOK'
  BY <1>0, <1>20 DEF Undo, Places, Answers
<1>21. ASSUME NEW f \in Folders, UndoFails(f) PROVE TypeOK'
  BY <1>0, <1>21 DEF UndoFails, Places, Answers
<1>22. CASE UndoForgets
  BY <1>0, <1>22 DEF UndoForgets, Places, Answers
<1>23. CASE UndoGivesUp
  BY <1>0, <1>23 DEF UndoGivesUp, Places, Answers
<1>24. CASE Start
  BY <1>0, <1>24 DEF Start, StartRecovery, Journaled, Places, Answers
<1>25. CASE Release
  BY <1>0, <1>25 DEF Release, StartRecovery, Journaled, Places, Answers
<1>26. CASE ReleaseDead
  BY <1>0, <1>26 DEF ReleaseDead, Places, Answers
<1>27. ASSUME NEW d \in Ids, RecoverForward(d) PROVE TypeOK'
  BY <1>0, <1>27 DEF RecoverForward, Recovers, Listed, Stalled, Places, Answers
<1>28. ASSUME NEW d \in Ids, RecoverBackward(d) PROVE TypeOK'
  BY <1>0, <1>28 DEF RecoverBackward, Recovers, Listed, Stalled, Places, Answers
<1>29. ASSUME NEW d \in Ids, RecoveryRefuses(d) PROVE TypeOK'
  BY <1>0, <1>29 DEF RecoveryRefuses, RecoveryStops, RecoveryGoesOn, Places, Answers
<1>30. ASSUME NEW f \in Folders, Restore(f) PROVE TypeOK'
  BY <1>0, <1>30 DEF Restore, Places, Answers
<1>31. ASSUME NEW f \in Folders, RestoreFails(f) PROVE TypeOK'
  BY <1>0, <1>31 DEF RestoreFails, RecoveryStops, RecoveryGoesOn, Places, Answers
<1>32. CASE Drop
  BY <1>0, <1>32 DEF Drop, RecoveryStops, RecoveryGoesOn, Places, Answers
<1>33. CASE RecoveryEnds
  BY <1>0, <1>33 DEF RecoveryEnds, Places, Answers
<1>34. CASE Crash
  BY <1>0, <1>34 DEF Crash, Places, Answers
<1>35. ASSUME NEW f \in Folders, Outsider(f) PROVE TypeOK'
  BY <1>0, <1>35 DEF Outsider, Places, Answers
<1>36. CASE UNCHANGED vars
  BY <1>36 DEF vars
<1> QED
  BY <1>1, <1>2, <1>3, <1>4, <1>5, <1>6, <1>7, <1>8, <1>9, <1>10, <1>11, <1>12, <1>13, <1>14, <1>15, <1>16, <1>17, <1>18, <1>19, <1>20, <1>21, <1>22, <1>23, <1>24, <1>25, <1>26, <1>27, <1>28, <1>29, <1>30, <1>31, <1>32, <1>33, <1>34, <1>35, <1>36 DEF Next

LEMMA ListedStep == TypeOK /\ Listed /\ [Next]_vars => Listed'
<1> SUFFICES ASSUME TypeOK, Listed, [Next]_vars PROVE Listed'
  OBVIOUS
<1> USE RecordFacts
    DEF TypeOK, Listed, durable, control, history, spent, Goto, Journal, Told, MaybeSaved,
        MaybeForgotten, Journaled, Stalled, CommandOnly, RecoveryOnly,
        BeforeCommit, AfterCommit
<1>1. CASE Revise
  BY <1>1 DEF Revise
<1>2. CASE Unlink
  BY <1>2 DEF Unlink, External
<1>3. CASE DeleteSpacePlainly
  BY <1>3 DEF DeleteSpacePlainly
<1>4. ASSUME NEW d \in Ids, NEW S \in SUBSET Items, RequestDeletion(d, S) PROVE Listed'
  BY <1>4 DEF RequestDeletion
<1>5. CASE SavePrepared
  BY <1>5 DEF SavePrepared
<1>6. CASE SavePreparedFails
  BY <1>6 DEF SavePreparedFails
<1>7. ASSUME NEW f \in Folders, Stage(f) PROVE Listed'
  BY <1>7 DEF Stage
<1>8. ASSUME NEW f \in Folders, StageFails(f) PROVE Listed'
  BY <1>8 DEF StageFails, StartUndo
<1>9. CASE SaveStaged
  BY <1>9 DEF SaveStaged
<1>10. CASE SaveStagedFails
  BY <1>10 DEF SaveStagedFails, StartUndo
<1>11. CASE Commit
  BY <1>11 DEF Commit
<1>12. CASE CommitFails
  BY <1>12 DEF CommitFails, StartUndo
<1>13. CASE SaveCommitted
  BY <1>13 DEF SaveCommitted, StartCleaning
<1>14. CASE SaveCommittedFails
  BY <1>14 DEF SaveCommittedFails, StartCleaning
<1>15. ASSUME NEW f \in Folders, Clean(f) PROVE Listed'
  BY <1>15 DEF Clean
<1>16. ASSUME NEW f \in Folders, CleanFails(f) PROVE Listed'
  BY <1>16 DEF CleanFails
<1>17. CASE DeleteAssets
  BY <1>17 DEF DeleteAssets
<1>18. CASE Forget
  BY <1>18 DEF Forget, CleaningEnds, RecoveryGoesOn, RecoveryStops
<1>19. CASE CleaningFails
  BY <1>19 DEF CleaningFails, CleaningEnds, RecoveryGoesOn, RecoveryStops
<1>20. ASSUME NEW f \in Folders, Undo(f) PROVE Listed'
  BY <1>20 DEF Undo
<1>21. ASSUME NEW f \in Folders, UndoFails(f) PROVE Listed'
  BY <1>21 DEF UndoFails
<1>22. CASE UndoForgets
  BY <1>22 DEF UndoForgets
<1>23. CASE UndoGivesUp
  BY <1>23 DEF UndoGivesUp
<1>24. CASE Start
  BY <1>24 DEF Start, StartRecovery
<1>25. CASE Release
  BY <1>25 DEF Release, StartRecovery
<1>26. CASE ReleaseDead
  BY <1>26 DEF ReleaseDead
<1>27. ASSUME NEW d \in Ids, RecoverForward(d) PROVE Listed'
  BY <1>27 DEF RecoverForward, Recovers
<1>28. ASSUME NEW d \in Ids, RecoverBackward(d) PROVE Listed'
  BY <1>28 DEF RecoverBackward, Recovers
<1>29. ASSUME NEW d \in Ids, RecoveryRefuses(d) PROVE Listed'
  BY <1>29 DEF RecoveryRefuses, RecoveryStops, RecoveryGoesOn
<1>30. ASSUME NEW f \in Folders, Restore(f) PROVE Listed'
  BY <1>30 DEF Restore
<1>31. ASSUME NEW f \in Folders, RestoreFails(f) PROVE Listed'
  BY <1>31 DEF RestoreFails, RecoveryStops, RecoveryGoesOn
<1>32. CASE Drop
  BY <1>32 DEF Drop, RecoveryStops, RecoveryGoesOn
<1>33. CASE RecoveryEnds
  BY <1>33 DEF RecoveryEnds
<1>34. CASE Crash
  BY <1>34 DEF Crash
<1>35. ASSUME NEW f \in Folders, Outsider(f) PROVE Listed'
  BY <1>35 DEF Outsider
<1>36. CASE UNCHANGED vars
  BY <1>36 DEF vars
<1> QED
  BY <1>1, <1>2, <1>3, <1>4, <1>5, <1>6, <1>7, <1>8, <1>9, <1>10, <1>11, <1>12, <1>13,
     <1>14, <1>15, <1>16, <1>17, <1>18, <1>19, <1>20, <1>21, <1>22, <1>23, <1>24, <1>25,
     <1>26, <1>27, <1>28, <1>29, <1>30, <1>31, <1>32, <1>33, <1>34, <1>35, <1>36 DEF Next

-----------------------------------------------------------------------------
(* The bookkeeping is inductive. *)

LEMMA LedgerStep == TypeOK /\ Listed /\ Ledger /\ [Next]_vars => Ledger'
<1> SUFFICES ASSUME TypeOK, Listed, Ledger, [Next]_vars PROVE Ledger'
  OBVIOUS
<1>0. /\ InPhase("files_staged") # None /\ InPhase("files_staged").refs = record.refs
      /\ InPhase("metadata_committed") # None /\ InPhase("metadata_committed").refs = record.refs
  BY RecordFacts DEF Phases
<1> USE <1>0, RecordFacts, IdAssumption
    DEF TypeOK, Listed, Ledger, JobJournaled, FreshIds, Served, Uncommitted, Committed,
        RestoringPresent, DoneLedger, durable, control, history, spent, Goto, Journal, Told,
        Answered, MaybeSaved, MaybeForgotten, Journaled, Stalled, CommandOnly, RecoveryOnly,
        Journaling, BeforeCommit, AfterCommit, Removed, Present, Absent, Records
<1>1. CASE Revise
  BY <1>1 DEF Revise
<1>2. CASE Unlink
  BY <1>2 DEF Unlink, External
<1>3. CASE DeleteSpacePlainly
  BY <1>3 DEF DeleteSpacePlainly
<1>4. ASSUME NEW d \in Ids, NEW S \in SUBSET Items, RequestDeletion(d, S) PROVE Ledger'
  <2>1. /\ UNCHANGED <<durable, pending>> /\ pc = "idle"
        /\ answer[d] = "unused" /\ journal[d] = None /\ asked' = [asked EXCEPT ![d] = S]
    BY <1>4 DEF RequestDeletion
  <2>2. CASE \A f \in S \cap Folders : SourceExists(f)
    <3>1. /\ answer' = [answer EXCEPT ![d] = "running"]
          /\ record' = [phase |-> "prepared",
                        refs |-> [i \in Items |-> IF i \in S THEN meta[i] ELSE Absent]]
          /\ job' = d /\ activity' = "delete" /\ pc' = "saving"
      BY <1>4, <2>2 DEF RequestDeletion
    <3>2. S \subseteq Present(meta) /\ Removed' = S
      BY <1>4, <3>1 DEF RequestDeletion, Removable
    <3>3. S = Present(meta) \/ \E root \in Present(meta) : S = Subtree[root] \cap Present(meta)
      BY <1>4, KindAssumption DEF RequestDeletion, Removable, Owned
    <3>4. Uncommitted'
      BY <2>1, <3>1, <3>2, <3>3
    <3>5. Served'
      BY <2>1, <3>1, <3>2
    <3>6. DoneLedger'
      BY <2>1, <3>1
    <3>7. FreshIds'
      BY <2>1, <3>1
    <3>8. JobJournaled' /\ Committed' /\ RestoringPresent'
      BY <3>1
    <3> QED
      BY <3>4, <3>5, <3>6, <3>7, <3>8
  <2>3. CASE ~ \A f \in S \cap Folders : SourceExists(f)
    <3>1. /\ answer' = [answer EXCEPT ![d] = "refused"]
          /\ UNCHANGED <<record, job, activity, pc>>
      BY <1>4, <2>3 DEF RequestDeletion
    <3> QED
      BY <2>1, <3>1
  <2> QED
    BY <2>2, <2>3
<1>5. CASE SavePrepared
  BY <1>5 DEF SavePrepared
<1>6. CASE SavePreparedFails
  BY <1>6 DEF SavePreparedFails
<1>7. ASSUME NEW f \in Folders, Stage(f) PROVE Ledger'
  BY <1>7 DEF Stage
<1>8. ASSUME NEW f \in Folders, StageFails(f) PROVE Ledger'
  BY <1>8 DEF StageFails, StartUndo, Targets
<1>9. CASE SaveStaged
  BY <1>9 DEF SaveStaged
<1>10. CASE SaveStagedFails
  BY <1>10 DEF SaveStagedFails, StartUndo
<1>11. CASE Commit
  BY <1>11 DEF Commit
<1>12. CASE CommitFails
  BY <1>12 DEF CommitFails, StartUndo
<1>13. CASE SaveCommitted
  BY <1>13 DEF SaveCommitted, StartCleaning
<1>14. CASE SaveCommittedFails
  BY <1>14 DEF SaveCommittedFails, StartCleaning
<1>15. ASSUME NEW f \in Folders, Clean(f) PROVE Ledger'
  BY <1>15 DEF Clean
<1>16. ASSUME NEW f \in Folders, CleanFails(f) PROVE Ledger'
  BY <1>16 DEF CleanFails
<1>17. CASE DeleteAssets
  BY <1>17 DEF DeleteAssets
<1>18. CASE Forget
  BY <1>18 DEF Forget, CleaningEnds, RecoveryGoesOn, RecoveryStops
<1>19. CASE CleaningFails
  BY <1>19 DEF CleaningFails, CleaningEnds, RecoveryGoesOn, RecoveryStops
<1>20. ASSUME NEW f \in Folders, Undo(f) PROVE Ledger'
  BY <1>20 DEF Undo
<1>21. ASSUME NEW f \in Folders, UndoFails(f) PROVE Ledger'
  BY <1>21 DEF UndoFails
<1>22. CASE UndoForgets
  BY <1>22 DEF UndoForgets
<1>23. CASE UndoGivesUp
  BY <1>23 DEF UndoGivesUp
<1>24. CASE Start
  BY <1>24 DEF Start, StartRecovery
<1>25. CASE Release
  BY <1>25 DEF Release, StartRecovery
<1>26. CASE ReleaseDead
  BY <1>26 DEF ReleaseDead
<1>27. ASSUME NEW d \in Ids, RecoverForward(d) PROVE Ledger'
  BY <1>27 DEF RecoverForward, Recovers, StillThere
<1>28. ASSUME NEW d \in Ids, RecoverBackward(d) PROVE Ledger'
  BY <1>28 DEF RecoverBackward, Recovers, StillThere, Unaltered
<1>29. ASSUME NEW d \in Ids, RecoveryRefuses(d) PROVE Ledger'
  BY <1>29 DEF RecoveryRefuses, RecoveryStops, RecoveryGoesOn
<1>30. ASSUME NEW f \in Folders, Restore(f) PROVE Ledger'
  BY <1>30 DEF Restore
<1>31. ASSUME NEW f \in Folders, RestoreFails(f) PROVE Ledger'
  BY <1>31 DEF RestoreFails, RecoveryStops, RecoveryGoesOn
<1>32. CASE Drop
  BY <1>32 DEF Drop, RecoveryStops, RecoveryGoesOn
<1>33. CASE RecoveryEnds
  BY <1>33 DEF RecoveryEnds
<1>34. CASE Crash
  BY <1>34 DEF Crash
<1>35. ASSUME NEW f \in Folders, Outsider(f) PROVE Ledger'
  BY <1>35 DEF Outsider
<1>36. CASE UNCHANGED vars
  BY <1>36 DEF vars
<1> QED
  BY <1>1, <1>2, <1>3, <1>4, <1>5, <1>6, <1>7, <1>8, <1>9, <1>10, <1>11, <1>12, <1>13,
     <1>14, <1>15, <1>16, <1>17, <1>18, <1>19, <1>20, <1>21, <1>22, <1>23, <1>24, <1>25,
     <1>26, <1>27, <1>28, <1>29, <1>30, <1>31, <1>32, <1>33, <1>34, <1>35, <1>36 DEF Next

-----------------------------------------------------------------------------
(* So is what is known of the folders. *)

LEMMA FolderStep ==
  TypeOK /\ Listed /\ Ledger /\ FolderLedger /\ [Next]_vars => FolderLedger'
<1> SUFFICES ASSUME TypeOK, Listed, Ledger, FolderLedger, [Next]_vars PROVE FolderLedger'
  OBVIOUS
<1>0. /\ \A phase \in Phases : InPhase(phase) # None /\ InPhase(phase).refs = record.refs
      /\ "source" \notin Ids /\ "gone" \notin Ids /\ "lost" \notin Ids
      /\ Folders \subseteq Items
  BY RecordFacts, IdAssumption, KindAssumption DEF Owned
<1> USE <1>0, RecordFacts
    DEF TypeOK, Listed, Ledger, JobJournaled, FreshIds, Served, Uncommitted, Committed,
        RestoringPresent, DoneLedger, FolderLedger, StagedIsJournaled, FolderNotLost,
        AbsentNotSource, SquattersVacant, StagedPresent, StageProgress, CleanProgress,
        DoneFolders, durable, control, history, spent, Goto, Journal, Told, Moved, Answered,
        MaybeSaved, MaybeMoved, MaybeForgotten, Journaled, Stalled, CommandOnly, RecoveryOnly,
        Journaling, BeforeCommit, AfterCommit, Removed, Targets, Present, Phases, StagedExists,
        SourceExists
<1>1. CASE Revise
  <2>1. \A g \in Folders : meta'[g] = Absent <=> meta[g] = Absent
    BY <1>1 DEF Revise, Absent, Revisions
  <2>2. pc = "idle" /\ UNCHANGED <<assets, content, squatters, journal, control, history, spent>>
    BY <1>1 DEF Revise
  <2> QED
    BY <2>1, <2>2
<1>2. CASE Unlink
  <2>1. \A g \in Folders : meta'[g] = Absent <=> meta[g] = Absent
    BY <1>2, KindAssumption DEF Unlink, Owned, External, Absent
  <2>2. pc = "idle" /\ UNCHANGED <<assets, content, squatters, journal, control, history, spent>>
    BY <1>2 DEF Unlink, External
  <2> QED
    BY <2>1, <2>2
<1>3. CASE DeleteSpacePlainly
  <2>1. \A g \in Folders : meta'[g] = Absent <=> meta[g] = Absent
    BY <1>3, KindAssumption DEF DeleteSpacePlainly, Owned, Absent
  <2>2. pc = "idle" /\ UNCHANGED <<assets, content, squatters, journal, control, history, spent>>
    BY <1>3 DEF DeleteSpacePlainly
  <2> QED
    BY <2>1, <2>2
<1>4. ASSUME NEW d \in Ids, NEW S \in SUBSET Items, RequestDeletion(d, S) PROVE FolderLedger'
  BY <1>4 DEF RequestDeletion, Removable, Owned
<1>5. CASE SavePrepared
  BY <1>5 DEF SavePrepared
<1>6. CASE SavePreparedFails
  BY <1>6 DEF SavePreparedFails
<1>7. ASSUME NEW f \in Folders, Stage(f) PROVE FolderLedger'
  BY <1>7 DEF Stage
<1>8. ASSUME NEW f \in Folders, StageFails(f) PROVE FolderLedger'
  BY <1>8 DEF StageFails, StartUndo
<1>9. CASE SaveStaged
  BY <1>9 DEF SaveStaged
<1>10. CASE SaveStagedFails
  BY <1>10 DEF SaveStagedFails, StartUndo
<1>11. CASE Commit
  BY <1>11 DEF Commit
<1>12. CASE CommitFails
  BY <1>12 DEF CommitFails, StartUndo
<1>13. CASE SaveCommitted
  BY <1>13 DEF SaveCommitted, StartCleaning
<1>14. CASE SaveCommittedFails
  BY <1>14 DEF SaveCommittedFails, StartCleaning
<1>15. ASSUME NEW f \in Folders, Clean(f) PROVE FolderLedger'
  BY <1>15 DEF Clean
<1>16. ASSUME NEW f \in Folders, CleanFails(f) PROVE FolderLedger'
  BY <1>16 DEF CleanFails
<1>17. CASE DeleteAssets
  BY <1>17 DEF DeleteAssets
<1>18. CASE Forget
  BY <1>18 DEF Forget, CleaningEnds, RecoveryGoesOn, RecoveryStops
<1>19. CASE CleaningFails
  BY <1>19 DEF CleaningFails, CleaningEnds, RecoveryGoesOn, RecoveryStops
<1>20. ASSUME NEW f \in Folders, Undo(f) PROVE FolderLedger'
  BY <1>20 DEF Undo
<1>21. ASSUME NEW f \in Folders, UndoFails(f) PROVE FolderLedger'
  BY <1>21 DEF UndoFails
<1>22. CASE UndoForgets
  BY <1>22 DEF UndoForgets
<1>23. CASE UndoGivesUp
  BY <1>23 DEF UndoGivesUp
<1>24. CASE Start
  BY <1>24 DEF Start, StartRecovery
<1>25. CASE Release
  BY <1>25 DEF Release, StartRecovery
<1>26. CASE ReleaseDead
  BY <1>26 DEF ReleaseDead
<1>27. ASSUME NEW d \in Ids, RecoverForward(d) PROVE FolderLedger'
  BY <1>27 DEF RecoverForward, Recovers, StillThere
<1>28. ASSUME NEW d \in Ids, RecoverBackward(d) PROVE FolderLedger'
  BY <1>28 DEF RecoverBackward, Recovers, StillThere, Unaltered, Restorable
<1>29. ASSUME NEW d \in Ids, RecoveryRefuses(d) PROVE FolderLedger'
  BY <1>29 DEF RecoveryRefuses, RecoveryStops, RecoveryGoesOn
<1>30. ASSUME NEW f \in Folders, Restore(f) PROVE FolderLedger'
  BY <1>30 DEF Restore
<1>31. ASSUME NEW f \in Folders, RestoreFails(f) PROVE FolderLedger'
  BY <1>31 DEF RestoreFails, RecoveryStops, RecoveryGoesOn
<1>32. CASE Drop
  BY <1>32 DEF Drop, RecoveryStops, RecoveryGoesOn
<1>33. CASE RecoveryEnds
  BY <1>33 DEF RecoveryEnds
<1>34. CASE Crash
  BY <1>34 DEF Crash
<1>35. ASSUME NEW f \in Folders, Outsider(f) PROVE FolderLedger'
  BY <1>35 DEF Outsider
<1>36. CASE UNCHANGED vars
  BY <1>36 DEF vars
<1> QED
  BY <1>1, <1>2, <1>3, <1>4, <1>5, <1>6, <1>7, <1>8, <1>9, <1>10, <1>11, <1>12, <1>13,
     <1>14, <1>15, <1>16, <1>17, <1>18, <1>19, <1>20, <1>21, <1>22, <1>23, <1>24, <1>25,
     <1>26, <1>27, <1>28, <1>29, <1>30, <1>31, <1>32, <1>33, <1>34, <1>35, <1>36 DEF Next
-----------------------------------------------------------------------------
(* And of the assets. *)

LEMMA AssetStep == TypeOK /\ Listed /\ Ledger /\ AssetLedger /\ [Next]_vars => AssetLedger'
<1> SUFFICES ASSUME TypeOK, Listed, Ledger, AssetLedger, [Next]_vars PROVE AssetLedger'
  OBVIOUS
<1>0. /\ \A phase \in Phases : InPhase(phase) # None /\ InPhase(phase).refs = record.refs
      /\ Assets \subseteq Items
  BY RecordFacts, KindAssumption DEF Owned
<1> USE <1>0, RecordFacts
    DEF TypeOK, Listed, Ledger, JobJournaled, FreshIds, Served, Uncommitted, Committed,
        RestoringPresent, DoneLedger, AssetLedger, durable, control, history, spent, Goto,
        Journal, Told, Answered, MaybeSaved, MaybeForgotten, Journaled, CommandOnly,
        RecoveryOnly, Journaling, BeforeCommit, AfterCommit, Removed, Present, Phases
<1>1. CASE Revise
  <2>1. \A a \in Assets : meta'[a] = Absent <=> meta[a] = Absent
    BY <1>1 DEF Revise, Absent, Revisions
  <2>2. pc = "idle" /\ UNCHANGED <<assets, content, squatters, journal, control, history, spent>>
    BY <1>1 DEF Revise
  <2> QED
    BY <2>1, <2>2
<1>2. CASE Unlink
  <2>1. \A a \in Assets : meta'[a] = Absent <=> meta[a] = Absent
    BY <1>2, KindAssumption DEF Unlink, Owned, External, Absent
  <2>2. pc = "idle" /\ UNCHANGED <<assets, content, squatters, journal, control, history, spent>>
    BY <1>2 DEF Unlink, External
  <2> QED
    BY <2>1, <2>2
<1>3. CASE DeleteSpacePlainly
  <2>1. \A a \in Assets : meta'[a] = Absent <=> meta[a] = Absent
    BY <1>3, KindAssumption DEF DeleteSpacePlainly, Owned, Absent
  <2>2. pc = "idle" /\ UNCHANGED <<assets, content, squatters, journal, control, history, spent>>
    BY <1>3 DEF DeleteSpacePlainly
  <2> QED
    BY <2>1, <2>2
<1>4. ASSUME NEW d \in Ids, NEW S \in SUBSET Items, RequestDeletion(d, S) PROVE AssetLedger'
  BY <1>4 DEF RequestDeletion, Removable, Owned
<1>5. CASE SavePrepared
  BY <1>5 DEF SavePrepared
<1>6. CASE SavePreparedFails
  BY <1>6 DEF SavePreparedFails
<1>7. ASSUME NEW f \in Folders, Stage(f) PROVE AssetLedger'
  BY <1>7 DEF Stage
<1>8. ASSUME NEW f \in Folders, StageFails(f) PROVE AssetLedger'
  BY <1>8 DEF StageFails, StartUndo
<1>9. CASE SaveStaged
  BY <1>9 DEF SaveStaged
<1>10. CASE SaveStagedFails
  BY <1>10 DEF SaveStagedFails, StartUndo
<1>11. CASE Commit
  BY <1>11 DEF Commit
<1>12. CASE CommitFails
  BY <1>12 DEF CommitFails, StartUndo
<1>13. CASE SaveCommitted
  BY <1>13 DEF SaveCommitted, StartCleaning
<1>14. CASE SaveCommittedFails
  BY <1>14 DEF SaveCommittedFails, StartCleaning
<1>15. ASSUME NEW f \in Folders, Clean(f) PROVE AssetLedger'
  BY <1>15 DEF Clean
<1>16. ASSUME NEW f \in Folders, CleanFails(f) PROVE AssetLedger'
  BY <1>16 DEF CleanFails
<1>17. CASE DeleteAssets
  BY <1>17 DEF DeleteAssets
<1>18. CASE Forget
  BY <1>18 DEF Forget, CleaningEnds, RecoveryGoesOn, RecoveryStops
<1>19. CASE CleaningFails
  BY <1>19 DEF CleaningFails, CleaningEnds, RecoveryGoesOn, RecoveryStops
<1>20. ASSUME NEW f \in Folders, Undo(f) PROVE AssetLedger'
  BY <1>20 DEF Undo
<1>21. ASSUME NEW f \in Folders, UndoFails(f) PROVE AssetLedger'
  BY <1>21 DEF UndoFails
<1>22. CASE UndoForgets
  BY <1>22 DEF UndoForgets
<1>23. CASE UndoGivesUp
  BY <1>23 DEF UndoGivesUp
<1>24. CASE Start
  BY <1>24 DEF Start, StartRecovery
<1>25. CASE Release
  BY <1>25 DEF Release, StartRecovery
<1>26. CASE ReleaseDead
  BY <1>26 DEF ReleaseDead
<1>27. ASSUME NEW d \in Ids, RecoverForward(d) PROVE AssetLedger'
  BY <1>27 DEF RecoverForward, Recovers, StillThere
<1>28. ASSUME NEW d \in Ids, RecoverBackward(d) PROVE AssetLedger'
  BY <1>28 DEF RecoverBackward, Recovers, StillThere, Unaltered
<1>29. ASSUME NEW d \in Ids, RecoveryRefuses(d) PROVE AssetLedger'
  BY <1>29 DEF RecoveryRefuses, RecoveryStops, RecoveryGoesOn
<1>30. ASSUME NEW f \in Folders, Restore(f) PROVE AssetLedger'
  BY <1>30 DEF Restore
<1>31. ASSUME NEW f \in Folders, RestoreFails(f) PROVE AssetLedger'
  BY <1>31 DEF RestoreFails, RecoveryStops, RecoveryGoesOn
<1>32. CASE Drop
  BY <1>32 DEF Drop, RecoveryStops, RecoveryGoesOn
<1>33. CASE RecoveryEnds
  BY <1>33 DEF RecoveryEnds
<1>34. CASE Crash
  BY <1>34 DEF Crash
<1>35. ASSUME NEW f \in Folders, Outsider(f) PROVE AssetLedger'
  BY <1>35 DEF Outsider
<1>36. CASE UNCHANGED vars
  BY <1>36 DEF vars
<1> QED
  BY <1>1, <1>2, <1>3, <1>4, <1>5, <1>6, <1>7, <1>8, <1>9, <1>10, <1>11, <1>12, <1>13,
     <1>14, <1>15, <1>16, <1>17, <1>18, <1>19, <1>20, <1>21, <1>22, <1>23, <1>24, <1>25,
     <1>26, <1>27, <1>28, <1>29, <1>30, <1>31, <1>32, <1>33, <1>34, <1>35, <1>36 DEF Next
-----------------------------------------------------------------------------
(* The inductive invariant and what follows from it. *)

IndInv == TypeOK /\ Listed /\ Ledger /\ FolderLedger /\ AssetLedger

LEMMA InitInv == Init => IndInv
<1> SUFFICES ASSUME Init PROVE IndInv
  OBVIOUS
<1> USE IdAssumption, KindAssumption, BoundAssumption
    DEF Init, NoRecord, Absent, Owned, Revisions
<1>1. NoRecord \in Records
  BY DEF Records, Phases
<1>2. TypeOK
  <2>1. meta \in [Items -> Revisions \cup {Absent}] /\ content \in [Folders -> Contents]
    BY DEF Contents
  <2>2. journal \in [Ids -> Records \cup {None}] /\ record \in Records /\ job \in Ids
    BY <1>1
  <2>3. answer \in [Ids -> Answers] /\ asked \in [Ids -> SUBSET Items] /\ pc \in Places
    BY DEF Answers, Places
  <2>4. faults \in 0..MaxFaults /\ crashes \in 0..MaxCrashes /\ outside \in 0..MaxOutside
    OBVIOUS
  <2>5. /\ assets \in SUBSET Assets /\ squatters \in SUBSET Folders /\ todo \in SUBSET Folders
        /\ failed \in BOOLEAN /\ pending \in SUBSET Ids
        /\ activity \in {"delete", "startup", "release"}
    OBVIOUS
  <2> HIDE DEF Init
  <2> QED
    BY <2>1, <2>2, <2>3, <2>4, <2>5 DEF TypeOK
<1>3. Listed
  BY DEF Listed, CommandOnly, RecoveryOnly, BeforeCommit, AfterCommit, Stalled
<1>4. Ledger
  BY DEF Ledger, JobJournaled, FreshIds, Served, Uncommitted, Committed, RestoringPresent,
         DoneLedger, Journaling, BeforeCommit, AfterCommit
<1>5. FolderLedger
  BY DEF FolderLedger, StagedIsJournaled, FolderNotLost, AbsentNotSource, SquattersVacant,
         StagedPresent, StageProgress, CleanProgress, DoneFolders
<1>6. AssetLedger
  BY DEF AssetLedger
<1> QED
  BY <1>2, <1>3, <1>4, <1>5, <1>6 DEF IndInv

LEMMA NextInv == IndInv /\ [Next]_vars => IndInv'
BY TypeStep, ListedStep, LedgerStep, FolderStep, AssetStep DEF IndInv

LEMMA Invariance == Spec => []IndInv
BY InitInv, NextInv, PTL DEF Spec

\* Every variable keeps its type, for any number of references and deletions.
THEOREM TypeCorrect == Spec => []TypeOK
<1>1. IndInv => TypeOK
  BY DEF IndInv
<1> QED
  BY <1>1, Invariance, PTL

\* No failure, crash or outside change makes the program destroy a folder or an
\* asset the Space still refers to.
THEOREM NeverLoses == Spec => []NothingLost
<1>1. IndInv => NothingLost
  BY DEF IndInv, FolderLedger, FolderNotLost, AssetLedger, NothingLost
<1> QED
  BY <1>1, Invariance, PTL

\* Every folder out of its place is named by a journal file, so that recovery
\* will find it.
THEOREM NeverForgets == Spec => []StagedIsJournaled
<1>1. IndInv => StagedIsJournaled
  BY DEF IndInv, FolderLedger
<1> QED
  BY <1>1, Invariance, PTL

\* Without a journal file, metadata and materials agree.
THEOREM Settles == Spec => []SettledIsClean
<1>1. IndInv => SettledIsClean
  <2> SUFFICES ASSUME IndInv, Journaled = {} PROVE SettledIsClean
    BY DEF SettledIsClean
  <2>1. \A f \in Folders : content[f] \in {"lost", IF meta[f] = Absent THEN "gone" ELSE "source"}
    BY DEF IndInv, TypeOK, Contents, FolderLedger, StagedIsJournaled, FolderNotLost, AbsentNotSource
  <2>2. assets = {a \in Assets : meta[a] # Absent}
    BY DEF IndInv, TypeOK, AssetLedger
  <2> QED
    BY <2>1, <2>2 DEF SettledIsClean
<1> QED
  BY <1>1, Invariance, PTL

\* A deletion reported done is complete, and stays so.
THEOREM DoneIsDone == Spec => []DoneMeansGone
<1>1. IndInv => DoneMeansGone
  BY DEF IndInv, Ledger, DoneLedger, FolderLedger, DoneFolders, AssetLedger, DoneMeansGone
<1> QED
  BY <1>1, Invariance, PTL

-----------------------------------------------------------------------------
(* A deletion that was rolled back. *)

LEMMA OnlyUndoAnswers ==
  ASSUME TypeOK, Next, NEW d \in Ids, answer[d] = "running", answer'[d] = "rolled_back"
  PROVE  UndoForgets /\ d = job
<1> USE DEF TypeOK, history, spent, durable, control, Told, Answered
<1>1. \A e \in Ids, S \in SUBSET Items : ~RequestDeletion(e, S)
  BY DEF RequestDeletion
<1>2. CASE UndoForgets
  BY <1>2 DEF UndoForgets
<1>3. ~(SavePreparedFails \/ SaveCommittedFails \/ UndoGivesUp \/ Crash)
  BY DEF SavePreparedFails, SaveCommittedFails, UndoGivesUp, Crash
<1>4. ~(Forget \/ CleaningFails \/ Drop)
  BY DEF Forget, CleaningFails, Drop, CleaningEnds, RecoveryGoesOn, RecoveryStops
<1>5. ~(Revise \/ Unlink \/ DeleteSpacePlainly \/ SavePrepared \/ SaveStaged \/ Commit
        \/ SaveCommitted \/ DeleteAssets \/ ReleaseDead \/ RecoveryEnds)
  BY DEF Revise, Unlink, DeleteSpacePlainly, SavePrepared, SaveStaged, Commit, SaveCommitted,
         DeleteAssets, ReleaseDead, RecoveryEnds
<1>6. ~(SaveStagedFails \/ CommitFails \/ Start \/ Release)
  BY DEF SaveStagedFails, CommitFails, StartUndo, Start, Release, StartRecovery
<1>7. \A f \in Folders : ~(Stage(f) \/ StageFails(f) \/ Clean(f) \/ CleanFails(f) \/ Undo(f)
                          \/ UndoFails(f) \/ Restore(f) \/ RestoreFails(f) \/ Outsider(f))
  BY DEF Stage, StageFails, StartUndo, Clean, CleanFails, Undo, UndoFails, Restore,
         RestoreFails, RecoveryStops, Outsider
<1>8. \A e \in Ids : ~(RecoverForward(e) \/ RecoverBackward(e) \/ RecoveryRefuses(e))
  BY DEF RecoverForward, RecoverBackward, Recovers, RecoveryRefuses, RecoveryStops
<1> QED
  BY <1>1, <1>2, <1>3, <1>4, <1>5, <1>6, <1>7, <1>8 DEF Next

\* A deletion reported as rolled back left every reference and material as it
\* found them.
THEOREM RollsBackWhole == Spec => RolledBackMeansIntact
<1>1. ASSUME IndInv, [Next]_vars, NEW d \in Ids, answer[d] = "running", answer'[d] = "rolled_back"
      PROVE  /\ \A i \in asked[d] : meta'[i] = record.refs[i]
             /\ \A f \in asked[d] \cap Folders : content'[f] \in {"source", "lost"}
             /\ asked[d] \cap Assets \subseteq assets'
  <2>1. UndoForgets /\ d = job
    BY <1>1, OnlyUndoAnswers DEF IndInv, vars, history
  <2>2. pc = "undoing" /\ todo = {} /\ ~failed /\ UNCHANGED <<meta, content, assets>>
    BY <2>1 DEF UndoForgets
  <2>3. asked[d] = Removed /\ \A i \in Removed : meta[i] = record.refs[i]
    BY <1>1, <2>1, <2>2 DEF IndInv, Listed, CommandOnly, BeforeCommit, AfterCommit, Ledger,
                            Served, Uncommitted
  <2>4. \A f \in Targets : content[f] \in {"source", "lost"}
    BY <1>1, <2>2 DEF IndInv, FolderLedger, StageProgress, CleanProgress
  <2>5. Removed \cap Assets \subseteq assets
    BY <1>1, <2>3 DEF IndInv, AssetLedger, Removed, Present
  <2> QED
    BY <2>2, <2>3, <2>4, <2>5 DEF Targets
<1>2. IndInv /\ [Next]_vars =>
        [\A d \in Ids : answer[d] = "running" /\ answer'[d] = "rolled_back" =>
           /\ \A i \in asked[d] : meta'[i] = record.refs[i]
           /\ \A f \in asked[d] \cap Folders : content'[f] \in {"source", "lost"}
           /\ asked[d] \cap Assets \subseteq assets']_vars
  BY <1>1
<1> QED
  BY <1>2, Invariance, PTL DEF Spec, RolledBackMeansIntact
-----------------------------------------------------------------------------
(* The lifecycle implements SpaceMaterials: a step either removes references  *)
(* or destroys materials nothing refers to, or neither.                       *)

Kept == {f \in Folders : content[f] # "gone"} \cup assets
Rewrites == Revise \/ Unlink \/ DeleteSpacePlainly \/ Commit

LEMMA RewriteMaps ==
  ASSUME IndInv, Rewrites
  PROVE  /\ UNCHANGED <<content, assets>>
         /\ \/ UNCHANGED Present(meta)
            \/ Present(meta)' = {}
            \/ \E root \in Present(meta) : Present(meta)' = Present(meta) \ Subtree[root]
<1> USE DEF Present, Absent
<1>1. CASE Revise
  BY <1>1 DEF Revise, IndInv, TypeOK, Revisions
<1>2. CASE Unlink
  <2>1. PICK i \in External : meta[i] # Absent /\ meta' = [meta EXCEPT ![i] = Absent]
    BY <1>2 DEF Unlink
  <2>2. Present(meta)' = Present(meta) \ Subtree[i] /\ i \in Present(meta)
    <3>1. Subtree[i] = {i}
      BY <2>1, SubtreeAssumption
    <3> QED
      BY <2>1, <3>1 DEF External, IndInv, TypeOK
  <2> QED
    BY <1>2, <2>2 DEF Unlink
<1>3. CASE DeleteSpacePlainly
  BY <1>3 DEF DeleteSpacePlainly
<1>4. CASE Commit
  <2>1. /\ pc = "writing" /\ UNCHANGED <<content, assets>>
        /\ Present(meta)' = Present(meta) \ Removed
    BY <1>4 DEF Commit
  <2>2. \/ Removed = Present(meta)
        \/ \E root \in Present(meta) : Removed = Subtree[root] \cap Present(meta)
    BY <2>1 DEF IndInv, Ledger, Uncommitted, BeforeCommit
  <2> QED
    BY <2>1, <2>2
<1> QED
  BY <1>1, <1>2, <1>3, <1>4 DEF Rewrites

LEMMA GoneStaysGone ==
  ASSUME IndInv, [Next]_vars, ~Rewrites
  PROVE  /\ UNCHANGED meta
         /\ \A f \in Folders : content[f] = "gone" => content'[f] = "gone"
         /\ assets' \subseteq assets
<1> DEFINE Goal == /\ UNCHANGED meta
                   /\ \A f \in Folders : content[f] = "gone" => content'[f] = "gone"
                   /\ assets' \subseteq assets
<1>0. job \notin {"source", "gone", "lost"} /\ \A d \in Ids : d # "gone"
  BY IdAssumption DEF IndInv, TypeOK
<1> USE <1>0 DEF IndInv, TypeOK, Rewrites, durable, StagedExists, Moved, MaybeMoved
<1>1. CASE Revise
  BY <1>1
<1>2. CASE Unlink
  BY <1>2
<1>3. CASE DeleteSpacePlainly
  BY <1>3
<1>4. ASSUME NEW d \in Ids, NEW S \in SUBSET Items, RequestDeletion(d, S) PROVE Goal
  BY <1>4 DEF RequestDeletion
<1>5. CASE SavePrepared
  BY <1>5 DEF SavePrepared
<1>6. CASE SavePreparedFails
  BY <1>6 DEF SavePreparedFails
<1>7. ASSUME NEW f \in Folders, Stage(f) PROVE Goal
  BY <1>7 DEF Stage
<1>8. ASSUME NEW f \in Folders, StageFails(f) PROVE Goal
  BY <1>8 DEF StageFails, StartUndo
<1>9. CASE SaveStaged
  BY <1>9 DEF SaveStaged
<1>10. CASE SaveStagedFails
  BY <1>10 DEF SaveStagedFails, StartUndo
<1>11. CASE Commit
  BY <1>11
<1>12. CASE CommitFails
  BY <1>12 DEF CommitFails, StartUndo
<1>13. CASE SaveCommitted
  BY <1>13 DEF SaveCommitted, StartCleaning
<1>14. CASE SaveCommittedFails
  BY <1>14 DEF SaveCommittedFails, StartCleaning
<1>15. ASSUME NEW f \in Folders, Clean(f) PROVE Goal
  BY <1>15 DEF Clean
<1>16. ASSUME NEW f \in Folders, CleanFails(f) PROVE Goal
  BY <1>16 DEF CleanFails
<1>17. CASE DeleteAssets
  BY <1>17 DEF DeleteAssets
<1>18. CASE Forget
  BY <1>18 DEF Forget, CleaningEnds, RecoveryGoesOn, RecoveryStops
<1>19. CASE CleaningFails
  BY <1>19 DEF CleaningFails, CleaningEnds, RecoveryGoesOn, RecoveryStops
<1>20. ASSUME NEW f \in Folders, Undo(f) PROVE Goal
  BY <1>20 DEF Undo
<1>21. ASSUME NEW f \in Folders, UndoFails(f) PROVE Goal
  BY <1>21 DEF UndoFails
<1>22. CASE UndoForgets
  BY <1>22 DEF UndoForgets
<1>23. CASE UndoGivesUp
  BY <1>23 DEF UndoGivesUp
<1>24. CASE Start
  BY <1>24 DEF Start, StartRecovery
<1>25. CASE Release
  BY <1>25 DEF Release, StartRecovery
<1>26. CASE ReleaseDead
  BY <1>26 DEF ReleaseDead
<1>27. ASSUME NEW d \in Ids, RecoverForward(d) PROVE Goal
  BY <1>27 DEF RecoverForward, Recovers
<1>28. ASSUME NEW d \in Ids, RecoverBackward(d) PROVE Goal
  BY <1>28 DEF RecoverBackward, Recovers
<1>29. ASSUME NEW d \in Ids, RecoveryRefuses(d) PROVE Goal
  BY <1>29 DEF RecoveryRefuses, RecoveryStops, RecoveryGoesOn
<1>30. ASSUME NEW f \in Folders, Restore(f) PROVE Goal
  BY <1>30 DEF Restore
<1>31. ASSUME NEW f \in Folders, RestoreFails(f) PROVE Goal
  BY <1>31 DEF RestoreFails, RecoveryStops, RecoveryGoesOn
<1>32. CASE Drop
  BY <1>32 DEF Drop, RecoveryStops, RecoveryGoesOn
<1>33. CASE RecoveryEnds
  BY <1>33 DEF RecoveryEnds
<1>34. CASE Crash
  BY <1>34 DEF Crash
<1>35. ASSUME NEW f \in Folders, Outsider(f) PROVE Goal
  BY <1>35 DEF Outsider
<1>36. CASE UNCHANGED vars
  BY <1>36 DEF vars
<1> QED
  BY <1>1, <1>2, <1>3, <1>4, <1>5, <1>6, <1>7, <1>8, <1>9, <1>10, <1>11, <1>12, <1>13,
     <1>14, <1>15, <1>16, <1>17, <1>18, <1>19, <1>20, <1>21, <1>22, <1>23, <1>24, <1>25,
     <1>26, <1>27, <1>28, <1>29, <1>30, <1>31, <1>32, <1>33, <1>34, <1>35, <1>36 DEF Next

\* References disappear in whole subtrees at once, and nothing owned is destroyed
\* while a reference to it is left.
THEOREM ImplementsMaterials == Spec => RemovesAtomically
<1>1. Init => Materials!Init
  BY KindAssumption DEF Init, Materials!Init, Present, Absent, Owned
<1>2. IndInv /\ IndInv' /\ [Next]_vars => [Materials!Next]_<<Present(meta), Kept>>
  <2> SUFFICES ASSUME IndInv, IndInv', [Next]_vars
               PROVE  Materials!Next \/ UNCHANGED <<Present(meta), Kept>>
    OBVIOUS
  <2>1. CASE Rewrites
    <3>1. UNCHANGED Kept
      BY <2>1, RewriteMaps DEF Kept
    <3> QED
      BY <2>1, <3>1, RewriteMaps DEF Materials!Next, Materials!Remove, Kept
  <2>2. CASE ~Rewrites
    <3>1. UNCHANGED Present(meta) /\ Kept' \subseteq Kept
      BY <2>2, GoneStaysGone DEF Present, Kept
    <3>2. Kept \ Kept' \subseteq Kept \ Present(meta)
      BY <2>2, GoneStaysGone DEF IndInv, FolderLedger, FolderNotLost, AssetLedger, Kept, Present, TypeOK
    <3>3. Kept' = Kept \ (Kept \ Kept') /\ Kept \ Kept' \in SUBSET (Kept \ Present(meta))
      BY <3>1, <3>2
    <3> QED
      BY <3>1, <3>3 DEF Materials!Next, Materials!Collect, Kept
  <2> QED
    BY <2>1, <2>2
<1> QED
  BY <1>1, <1>2, Invariance, PTL DEF Spec, RemovesAtomically, Materials!Spec, Kept
-----------------------------------------------------------------------------
(* What the startup assertion needs of a deletion: its failed saves left no   *)
(* journal file, whatever those of others did.                               *)

LEMMA StaleStep ==
  ASSUME IndInv, NothingStale, [Next]_vars
  PROVE  NothingStale'
<1>0. /\ \A phase \in Phases : InPhase(phase) # None /\ InPhase(phase).refs = record.refs
      /\ TypeOK /\ Listed /\ Ledger
  BY RecordFacts DEF IndInv
<1> USE <1>0, RecordFacts
    DEF TypeOK, Listed, Ledger, JobJournaled, FreshIds, Served, Uncommitted, Committed,
        NothingStale, StillThere, Unaltered, durable, control, history, spent, Goto,
        Journal, Told, Answered, MaybeSaved, MaybeForgotten, Journaled, CommandOnly,
        RecoveryOnly, Journaling, BeforeCommit, AfterCommit, Removed, Present, Phases, Stalled
<1>1. CASE Revise
  BY <1>1 DEF Revise, Absent, Revisions
<1>2. CASE Unlink
  BY <1>2 DEF Unlink, External
<1>3. CASE DeleteSpacePlainly
  BY <1>3 DEF DeleteSpacePlainly
<1>4. ASSUME NEW d \in Ids, NEW S \in SUBSET Items, RequestDeletion(d, S) PROVE NothingStale'
  BY <1>4 DEF RequestDeletion
<1>5. CASE SavePrepared
  BY <1>5 DEF SavePrepared
<1>6. CASE SavePreparedFails
  BY <1>6 DEF SavePreparedFails
<1>7. ASSUME NEW f \in Folders, Stage(f) PROVE NothingStale'
  BY <1>7 DEF Stage
<1>8. ASSUME NEW f \in Folders, StageFails(f) PROVE NothingStale'
  BY <1>8 DEF StageFails, StartUndo
<1>9. CASE SaveStaged
  BY <1>9 DEF SaveStaged
<1>10. CASE SaveStagedFails
  BY <1>10 DEF SaveStagedFails, StartUndo
<1>11. CASE Commit
  BY <1>11 DEF Commit
<1>12. CASE CommitFails
  BY <1>12 DEF CommitFails, StartUndo
<1>13. CASE SaveCommitted
  BY <1>13 DEF SaveCommitted, StartCleaning
<1>14. CASE SaveCommittedFails
  BY <1>14 DEF SaveCommittedFails, StartCleaning
<1>15. ASSUME NEW f \in Folders, Clean(f) PROVE NothingStale'
  BY <1>15 DEF Clean
<1>16. ASSUME NEW f \in Folders, CleanFails(f) PROVE NothingStale'
  BY <1>16 DEF CleanFails
<1>17. CASE DeleteAssets
  BY <1>17 DEF DeleteAssets
<1>18. CASE Forget
  BY <1>18 DEF Forget, CleaningEnds, RecoveryGoesOn, RecoveryStops
<1>19. CASE CleaningFails
  BY <1>19 DEF CleaningFails, CleaningEnds, RecoveryGoesOn, RecoveryStops
<1>20. ASSUME NEW f \in Folders, Undo(f) PROVE NothingStale'
  BY <1>20 DEF Undo
<1>21. ASSUME NEW f \in Folders, UndoFails(f) PROVE NothingStale'
  BY <1>21 DEF UndoFails
<1>22. CASE UndoForgets
  BY <1>22 DEF UndoForgets
<1>23. CASE UndoGivesUp
  BY <1>23 DEF UndoGivesUp
<1>24. CASE Start
  BY <1>24 DEF Start, StartRecovery
<1>25. CASE Release
  BY <1>25 DEF Release, StartRecovery
<1>26. CASE ReleaseDead
  BY <1>26 DEF ReleaseDead
<1>27. ASSUME NEW d \in Ids, RecoverForward(d) PROVE NothingStale'
  BY <1>27 DEF RecoverForward, Recovers
<1>28. ASSUME NEW d \in Ids, RecoverBackward(d) PROVE NothingStale'
  BY <1>28 DEF RecoverBackward, Recovers
<1>29. ASSUME NEW d \in Ids, RecoveryRefuses(d) PROVE NothingStale'
  BY <1>29 DEF RecoveryRefuses, RecoveryStops, RecoveryGoesOn
<1>30. ASSUME NEW f \in Folders, Restore(f) PROVE NothingStale'
  BY <1>30 DEF Restore
<1>31. ASSUME NEW f \in Folders, RestoreFails(f) PROVE NothingStale'
  BY <1>31 DEF RestoreFails, RecoveryStops, RecoveryGoesOn
<1>32. CASE Drop
  BY <1>32 DEF Drop, RecoveryStops, RecoveryGoesOn
<1>33. CASE RecoveryEnds
  BY <1>33 DEF RecoveryEnds
<1>34. CASE Crash
  BY <1>34 DEF Crash
<1>35. ASSUME NEW f \in Folders, Outsider(f) PROVE NothingStale'
  BY <1>35 DEF Outsider
<1>36. CASE UNCHANGED vars
  BY <1>36 DEF vars
<1> QED
  BY <1>1, <1>2, <1>3, <1>4, <1>5, <1>6, <1>7, <1>8, <1>9, <1>10, <1>11, <1>12, <1>13,
     <1>14, <1>15, <1>16, <1>17, <1>18, <1>19, <1>20, <1>21, <1>22, <1>23, <1>24, <1>25,
     <1>26, <1>27, <1>28, <1>29, <1>30, <1>31, <1>32, <1>33, <1>34, <1>35, <1>36 DEF Next

\* For a deletion whose failed saves leave no journal file, the assertion recovery
\* makes of the journaled subtree holds at every startup.
THEOREM AssertionHolds == Spec => []JournalMatchesMetadata
<1>1. Init => NothingStale
  BY DEF Init, NothingStale, Journaled
<1>2. IndInv /\ NothingStale /\ [Next]_vars => NothingStale'
  BY StaleStep
<1>3. NothingStale => JournalMatchesMetadata
  BY DEF NothingStale, JournalMatchesMetadata
<1> QED
  BY <1>1, <1>2, <1>3, Invariance, PTL DEF Spec
=============================================================================
