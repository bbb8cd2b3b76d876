# Synech: TLA+ models, model checking and proofs

Synech is a desktop agent: an Electron shell, a local panel server, and an
application layer that runs *ordinary agent* turns against a model, with tools,
memories and a Session transcript on disk, inside Spaces that refer to folders,
assets and web pages. This directory models the parts of it whose correctness
depends on the order of events and on what survives a failure: the turns of a
conversation (their execution, cancellation and settlement, and the file transcript
they share), the approvals of tool calls, the memories made from finished turns, the
births and deletions of conversations and Spaces, and the deletion of the files a
Space owns.
Everything runs in one Node process, so a step of a model is the code between two
awaits that do I/O; what interleaves is promises, not threads.

Paths below are relative to `src/src/` unless they start with `src/`.

## Inventory

| Part | State | Operations | What is hard | What makes it correct |
|---|---|---|---|---|
| Session write fence (`adapters/intelligence/session-write-fence.ts`) | per transcript: current generation, its status, recovery target, a FIFO of operations | acquire, write, revoke, release, runWhenIdle | revoke and release race; a failed `setLeafId` may have reached the file | one writer; a resolved revocation restored the leaf; a cancelled writer never moves it again |
| Conversation projection and scheduler (`app/ordinary-agent/conversation-projection.ts`, `conversation-scheduler.ts`) | none | visible runs, barrier, next eligible run | pure, but called on snapshots of different ages | a queued run is visible, and eligible once everything before it is released |
| Turn queue (`feature/conversation-coordinator.ts`) | conversation lock, one activation attempt per conversation, control documents | submit, activate, rollback, delete, titles, memory background | reads and awaits before it acts; attempts are joined | one turn at a time along the predecessor chain; no queued turn is forgotten |
| Execution (`feature/execution-operations.ts`, `execution-coordinator.ts`, `run-store.ts`) | controllers, tasks, continuations, approval reservations, cleanup tasks, a FIFO per run | start, cancel, decide approval, persist results, commit outcome | cancellation is durable at once while the harness still runs; every save may fail | a run ends once; what was accepted from a tool is not lost; every task ends |
| Terminal settlement (`terminal-settlement.ts`, `agent-loop-execution.ts`) | accepted tool results, finalizations and their failures, session controls | settle, finalize, retry | waits on the harness of the run it settles | no session is leaked, no deadlock, a stable run owes nothing |
| Run snapshot (`state.ts`) | status, session phase, pending tool round, tool facts, timeline | `transitionOrdinaryRun`, tool-fact recorders and reconcilers | late facts of ended runs | legal transitions only, a complete tool-fact graph |
| Session loop (`adapters/intelligence/agent-session-loop*`) | event projector, approval coordinator, pending results | execute, resume, release | append and checkpoint are separate steps | the snapshot never runs ahead of the transcript |
| Startup recovery (`ordinary-agent-feature.ts`, `session-branch-recovery.ts`) | - | recover runs, reconcile branches | a crash between any two saves | each conversation can be opened again |
| Managed attachments (`attachment-lifecycle.ts`, `managed-attachment-repository.ts`) | drafts, claims, references | draft, claim, commit, roll back | claims against deletions | a claimed file is not collected |
| Memory (`app/memory`, `app/panel-server/memory/capture-scheduler.ts`) | policies and exclusions, lifecycle fences, one job, summary and boundary per conversation, documents of a Space in versions | signal, claim, ask, publish, switch, clear, edit, remove, recover | minutes between reading and publishing; signals that extend a running job; a clear that stops half-way | what was cleared, deleted or said in an off time is never remembered; nothing admitted is passed over; an edit survives |
| Space reference deletion (`app/spaces/space-reference-deletion.ts`, `file-system-reference-deletion-journal.ts`, `space-feature.ts`, `app/panel-server/spaces/space-reference-deletion.ts`) | a SQLite snapshot of the references, managed folders and assets, one journal file per deletion, a command queue and its `runtimeFailure` | prepare, stage, write, clean, forget, roll back, recover, release | four stores that share no transaction; a call may fail after its effect; a stop between any two; people in the folders | nothing still referred to is destroyed; nothing hidden is forgotten; an answer means what it says |
| Lifecycle coordinators (`app/workbench-coordination`, their journals in `app/panel-server`) | a journal record per birth and per deletion, the owners being deleted, promise chains and one lease | give birth, submit, delete a conversation, a Space or a workspace, resume after a restart | a crash or a failure between phases, admissions against deletions, agents that ask for what waits for them | a deletion leaves nothing of its owner, in an order that can be taken up again; every request is answered |
| Spaces, workspaces, personal knowledge (`app/spaces`, `app/workspaces`, ...) | a snapshot per feature | create, move, rename | little of their own | - |
| Tool center, MCP client, process registry, tool-output store | pending calls, child processes, retained outputs | call, cancel, retain, collect | timeouts against late answers | one answer per call |
| Panel server, read models, UI, desktop shell, installer, scripts | views | rendering, HTTP, packaging | little of their own | - |

How they meet: a submission publishes a queued run; an activation starts it and
creates an execution; the execution takes a generation of the fence, appends
entries through it and saves a checkpoint per entry in the run's snapshot; when it
ends or is cancelled, terminal settlement revokes or closes the generation,
settles tool facts, and activates the successor, which the projection finds by
matching snapshots with the active branch. Deleting a Space is a saga of the workbench
coordination: it deletes conversations, notes and memories and at last calls
`deleteSpace`, which goes through the deletion lifecycle when the Space owns a folder
or an asset. The startup of the panel server waits for that saga. A turn that becomes
stable sends a signal to the memory, which makes a job of it; a deletion fences the
memories of its owner first and purges them last.

## Modules

| Module | Models | State and actions |
|---|---|---|
| `SessionWriteFence` | the write fence of one transcript | `queue` is the promise chain; `Call*` append an operation, the other actions run its head. `LateWrites` are the generations whose failed writes may have reached the file |
| `MCSessionWriteFence` | the instance TLC checks | three leaves, three generations |
| `SessionWriteFence_proofs` | proofs about `SessionWriteFence` | - |
| `ConversationProjection` | `visibleOrdinaryConversationRuns`, the scheduling barrier, the next eligible run | operators over snapshots and a branch |
| `ConversationProjection_proofs` | what these operators return | - |
| `ConversationQueue` | submission, activation, execution, cancellation, finalization and settlement of the turns of one conversation | `doc` is the published snapshot of each run, `leaf`/`pathTo` the transcript, `exec` and `cleanup` where the run's two tasks are, `control`/`finalization` its session, `activation` and `submission` the coordinator's two critical sections |
| `ConversationQueue_proofs` | proofs about `ConversationQueue` | - |
| `ChainedTurns` | what the queue promises | turns with a predecessor: submit, start, end |
| `ToolApprovals` | one tool round of one run: parallel calls, approvals before or after a start, decisions, cancellation, settlement, restart | `doc` is the run's document (status, requests, one fact per call, decisions, whether the round is open); `queue` is `withExclusiveRun`; `harness`, `place`, `result` the Session loop; `task`, `outcome`, `todo` the execution (1), each decision (2, ...) and the cleanup (0); `accepted` the settlement's memory; `executed` records effects |
| `MCToolApprovals` | the instances TLC checks | two or three calls |
| `ToolApprovals_proofs` | proofs about `ToolApprovals` | - |
| `MemoryMaintenance` | the memory of one Space: policy, signals, the scheduler and the worker, publication, clears, edits, removals, restarts | `policy`, `owner`, `closing`, `space` are the policy and lifecycle rows, `progress` and `summary` the boundaries and the digest of each conversation, `docs` the revisions of the Space's document, `job` the latest job, `signals` stable turns on their way to one; `worker` is the job being worked on, `admin` the user's operation |
| `MCMemoryMaintenance` | the instances TLC checks | one conversation of two turns and one of one |
| `MemoryMaintenance_proofs` | proofs about `MemoryMaintenance` | - |
| `OwnerDeletion` | births and deletions of conversations, the deletion of their Space, their journals, promise chains and startup | `lane` is who waits in each promise chain and `place` how far each request is; `journal` and `saga` are the two journals; `control`, `turns`, `queued`, `notes`, `memory`, `fence` what a deletion removes; `running`, `calls`, `procs` the executing turns, the tools they wait for and their processes |
| `MCOwnerDeletion` | the instances TLC checks | two conversations |
| `OwnerDeletion_proofs` | proofs about `OwnerDeletion` | - |
| `SpaceReferenceDeletion` | the command queue of a Space's references and the deletion lifecycle, with its journal and file port, recovery at startup and release | `meta`, `assets`, `content`, `squatters`, `journal` are the disks; `pc`, `job`, `record`, `todo`, `failed`, `pending` what the queue is doing; `answer` what each command was told |
| `SpaceMaterials` | what deleting promises | references go at once and in whole subtrees; materials only after their references |
| `MCSpaceReferenceDeletion` | the instance TLC checks | two folders, one inside a shelf with an asset, and a web page |
| `SpaceReferenceDeletion_proofs` | proofs about `SpaceReferenceDeletion` | - |

`ConversationQueue` extends `ConversationProjection` and implements `ChainedTurns`
(`TurnsAreChained`, by `INSTANCE ... WITH`). It keeps of the fence only whether a
run's generation is open and may write; `SessionWriteFence` justifies that view:
`SingleOwner` and `CancelledWriterIsFenced` are what `MayWrite` and `RevokeSession`
rely on.

Correspondence worth knowing when reading `ConversationQueue`:

- `NoDoc.end` and a pending `round` abstract the refs of the session phase: `end`
  is `endLeafRef` of a rollbackable run and `rollbackLeafRef` of a candidate.
- `withExclusiveRun` is one step, except in the activation, which awaits the
  branch while it holds the candidate's lock (`LockFree`).
- A harness appends an entry (`Append*`) and then its event is projected and saved
  (`Commit*`): between the two, the transcript is ahead of the snapshot.
- `FinalizeSession` replays the target of a failed attempt; `RevokeSession` waits
  for the resources; `CloseSession` waits for the harness.
- `Fault` is one failing save, acquisition, model call or revocation. A settlement that
  fails at one of its saves is one `SettlementFails` (`execution-operations.ts:181-219`,
  `terminal-settlement.ts:83-121`), and a close that fails itself
  (`agent-loop-execution.ts:322-323`) is left out.
- `MayWrite` is what `assertActive` (`session-write-fence.ts:208-212`) comes to for a
  generation the queue holds: attached, and its revocation not done; `SessionWriteFence`
  models it in full. `CaptureStartLeaf` reads the leaf and saves it in one step
  (`agent-session-loop.ts:130-136`), before the harness has written anything.
- `CommitCall` and `CommitAnswer` save a checkpoint of a run that ended meanwhile, which
  the schema of the document refuses (`file-system-repository.ts:480-492`): the model
  allows more than the code.

Correspondence worth knowing when reading `ToolApprovals`:

- Whatever loads and saves the run's document does it under `withExclusiveRun`, so one
  operation of `queue` is one step; the tasks wait for theirs in `pausing`, `ending`,
  `persisting`, `reconciling`.
- A fact of a call is `asked` (`approval_required`) or final. `denied` and `cancelled`
  say that the user or an abort refused it, `aborted` that it was stopped, `unknown`
  and `lost` are written by the reconciliation of an open round.
- A pause names the requests pending and the results known when the loop's wait ended
  (`outcome`); between that and `Paused` other calls go on (`captured`, because
  `completeReasoning` may save in between).
- `Settle` saves the accepted results one by one in any order, then reconciles an open
  round; the check of the status is made when the operation is queued, as in the code.
- `held` is the run's Session generation: while it is open the results of a closed
  round cannot go to the transcript.
- Two checks hold a pause to its facts: `assertAwaitingApprovalFacts` (`state.ts:389-414`)
  when a run begins to await decisions, and the schema of the document
  (`file-system-repository.ts:517-535`) at every save for as long as it does. Both are
  `PauseFits`; the second is `Storable`, so an undisplayed request, or a reconciliation
  that comes after a pause, is refused without any failure of the disk.
- `Crash` loses everything but the document, `Recover` is one save of the startup.
- Left out: nested calls, failures of the Session's finalization (they are in
  `ConversationQueue`), the release of the feature, failing saves of the recovery.

Correspondence worth knowing when reading `SpaceReferenceDeletion`:

- A step is one call that touches a disk; commands run one after the other
  (`serialize`), so `pc` is the place of the one command, startup or release that runs.
- `Fault` is one failing call. A failed rename or removal may have happened
  (`MaybeMoved`, `MaybeForgotten`), a failed journal save may have been published for a
  deletion in `LateSaves`, and a SQLite write is atomic. `Crash` loses everything but the disks;
  what a power loss could undo of an unsynced directory is not told from a crash.
- The loops over targets take them in any order (the code: the order of the
  references), and an `inspect` with the rename it decides is one step. A shelf has one
  asset: that of several some are removed when one fails, and managed folders inside one
  another, are not told apart from the folders and the asset that are there.
- The staged path of a folder is a sibling whose name is derived from the deletion, so
  `content[f] = d` says that deletion `d` staged folder `f`; `squatters` are folders
  somebody created anew at a vacated path (`Outsider`, external).
- `Revise` stands for every update of one reference (annotation, caption, identity,
  rename, web metadata): recovery compares revisions, not fields.
- The model starts with the references in place: `createSpace`, `addReference` and
  `move` are left out. A reference never returns under its id, so deletions race with
  edits and with each other, not with additions.

Correspondence worth knowing when reading `MemoryMaintenance`:

- Database calls are synchronous and do not fail, so a step is the code between two
  awaits: the reading of the adjacent turns, the model's answer, the high waters of the
  conversations a command reads before it writes.
- The policy rows of consent, rollout and participation are collapsed to whether
  memories are on (`policy.on`) and the revision that every change bumps.
- A batch is read (`Claim`), asked for in as many requests as the code makes of it
  (`Ask*`) and published or discarded. What `Publishable` compares is what was read with
  what is there now.
- The user's operations come one at a time (`spaceAdmission`). A job that waits out an
  idle time or a backoff waits longer than such an operation takes to read its high
  waters; these are taken at their earliest.
- A removal that is taken up again fences again, which only changes the generation.
- Left out: the fragments of a turn too long for one request, the transcript index,
  history and recall, texts, the workspace and global scopes.

Correspondence worth knowing when reading `OwnerDeletion`:

- The chains are those of the workbench commands, of the Space's admission and of the
  conversation lifecycle, and the lease all deletions take (`runExclusive`). A request
  stays in every chain it has entered until it leaves them all. What is admitted per
  conversation is also in the chain of the lifecycle and is not repeated.
- A step is the code between two awaits that do I/O or wait for a turn; the calls of the
  journals and the memory lifecycle are synchronous and do not fail. So `failed` with its
  `resumeFrom` is the phase the record stood at, and `cleanup_pending` is never written.
- Each request of a kind and an owner is made by one caller at a time, and a deletion that
  the startup is about to resume is not asked for meanwhile (`AboutToResume`): the code
  lets a second caller wait in the chain, and `deletingConversationIds`, a set, then
  forgets the second deletion when the first ends. A conversation's turns are collapsed to none, a first one, one that shows, and a first one that left the
  branch (`hidden`); files are removed in one step that may fail.
- `Recover` is Ordinary's startup: the turns that waited begin, and their tools may be
  called before the program is open (`Acts`). The journals are then gone through record by
  record. The conversations' `ready` waits for its turn in the chain of the lifecycle and
  for the lease (`StartRequest`), behind an agent that asked first; the Space's `ready`
  takes the coordinator's own chain only, so the deletion it resumes works without the
  lease and may meet the deletion of a conversation. Users ask once the program listens.
- Managed processes are known in memory only: a stop of the program loses them.
- A birth that fails takes its conversation back; that this cleanup fails too is left out.
  A removal fails before its tombstone is saved or while it cleans; that cancelling what
  waits fails in between, or that files are removed in part, is left out. Both leave the
  checkpoint where it was, and the next attempt removes what is left.
- Left out: the deletion of workspaces, and the commands of the workbench other than the
  deletion of the Space and the attaching of a folder.

## Runs

| Run | Question | Bounds |
|---|---|---|
| `fence` | ownership, honest revocations, fenced writers, and a successor at the restored leaf | 3 generations, the first with writes that fail late, 3 leaves, 3 waiting operations in every order |
| `queue_tools` | may an admitted turn's predecessor owe something again; do revocations stay on the branch; is a session ever leaked? | 2 turns, 1 cancellation, 2 failures, 1 tool round |
| `queue_three` | refinement of `ChainedTurns`, and admission | 3 turns, 1 cancellation |
| `queue_live` | does every turn end? | 2 turns, 1 cancellation, 1 failure |
| `approvals` | is anything executed that was refused or not approved, can a pause be answered, are facts final, does an ended run settle, does a decision end? | 2 calls, one gated before and one during its start, 2 cancellations, 1 failed save, 1 restart |
| `deletion_faults` | is anything lost, forgotten or half done; do the answers tell the truth; does recovery's assertion about a journaled subtree hold; refinement of `SpaceMaterials` | 2 deletions, the first in `LateSaves`, over 2 folders, a shelf with an asset and a web page, 1 edit, and any 3 of 2 failures, 1 crash, 1 outside change |
| `memory_two` | is what was cleared or deleted ever remembered again, from the Space's document too? | 2 conversations of 2 and 1 turns, any 2 of switch, clear, edit, deletion, failure, crash |
| `memory_one` | are turns of an off time filled in, admitted ones passed over, edits overwritten; does every job end? | 1 conversation of 2 turns, any 3 such events, 2 attempts |
| `owner_both` | do deletions leave anything behind, is their order kept across failures and restarts, does every request and every startup end? | 2 conversations, all four tools, any 3 requests, 1 failure, 1 stop |
| `queue_lost_answer`, `approvals_live`, `owner_knot` | the findings below | 2 turns and 1 cancellation; 3 calls, one of them gated; 1 agent and its own conversation; no failure |

Why the bounds are enough: every barrier relates a run to the one it follows, so
two turns show each race between neighbours, and a third one is there for chains
in which the middle run is hidden, cancelled or still queued. One cancellation can
be placed before, between and after all steps of a run; a second one on the same
run only repeats its cleanup. Two failures are what it takes to defeat a save and
its retry.

`queue_three` sets no failures and no tool round because they multiply the states
of three executions; `queue_tools` has both.

For deletions: two of them, because a second one meets the journal, the staged folder
and the vacated path of the first; two folders, because one can be staged and the
other not; two failures, because the first starts the rollback and the second breaks
it; a crash anywhere. Releases and startups repeat freely, so that a recovery may itself
fail and be taken up by the next one.
The proofs below remove all these bounds. Deadlock checking is off: a Space nobody
works in, or a feature blocked until its restart when no crash is left, is at rest.

For approvals: two calls race in every way two results, requests or decisions can; one
is gated before it starts and one after, so both places of the gate and an ungated
start are there. A second cancellation meets the cleanup of the first. One failed save
can be any of them, and one restart can come between any two saves. A third call is
needed for `approvals_live` only, where two results keep the settlement busy.

For memories: two conversations, because the Space's document is made from both and a
removal or a clear of one has to find what came from it; two turns, because the boundary
may stand between them and the first is context of the second. Two events are a clear
and what it races with; the third of `memory_one` is the crash or failure that a retry
follows. Both questions in one run would multiply the two bounds.

For owners: two conversations, because the saga of the Space may stop between them and
an agent may delete the other's; three requests, because a birth has to come first and a
deletion then meets one more; a failure and a stop, because each makes a deletion be
taken up again. An agent of a recovered turn that deletes its conversation while the
startup waits is in these bounds. That it does so beside the Space's own resumed deletion
takes a fourth request: with `Conversations = {c1}` and `MaxAsked = 4` the same
configuration holds as well, and the theorems do not depend on either bound. Only one conversation is `Hideable` so that the other one shows what a
deletion does to a conversation it lists.

Fairness of `MemoryMaintenance`: weak fairness of the scheduler's timer and list, of the
worker, and of the user's operation once it began, because each awaits a read or a
model call with a timeout; and of a turn becoming stable.
What the user or a fault does is not fair. `JobsEnd` needs the attempts to be bounded,
and the bound is the model's (`MaxEvents`): `requeue` gives up after `Attempts`, but the
catch of the worker (`capture/consolidation.ts:837-856`) puts a job back without a limit,
so that an unexpected error that comes back every time keeps a job alive for ever.

Fairness of `OwnerDeletion`: weak fairness of the steps of each accepted request, of the
end of each executing turn that waits for no tool (a cancelled one is aborted and calls
nothing more), and of the startup. Asking, failing and stopping are not fair. An agent
may ask for tools as long as requests are left, so a turn that is not cancelled ends
because `MaxAsked` is reached or its model has answered. `RequestsEnd` excepts `Knot`, a
deletion that waits for a run that waits for it: `owner_knot` shows that this happens.
The exception covers the startups too: a recovered turn executes before the program is
open and can tie the knot in front of the `ready` that waits for the lease.

Fairness of `ToolApprovals`: weak fairness of each call, task, the loop and the head of
the run's queue, because tools and saves are awaited with a timeout or an abort and the
queue is first come first served; and of the recovery, because a program that is started
recovers before anything else. The user need not answer and may cancel or not.

Fairness of `ConversationQueue` (`FairSpec`): weak fairness of the tasks that are waiting for a read, a
save or a model call, per run and per task, because the event loop resumes each of
them and every such call has a timeout or an abort. Submitting and cancelling are
the user's and are not fair. The same condition lets a model be slow for ever only
if nothing in the harness is enabled, which cannot be. Deadlock checking is off in
the queue runs: a conversation nobody types in is at rest.

`RunsEnd` is checked with one failure. With two it is false by design: the save of
the outcome and the save in the catch block both fail, and the run stays *running*
until it is cancelled or the program restarts (`RecommitFails`); `NoSessionLeaks`
names that run as one of the two that may hold a session.

## Findings

Each has a run that ends in the counterexample.

1. `queue_lost_answer`: `rollbackLeafRef` (`terminal-settlement.ts:312-317`) returns
   `null` for a run in phase `not_started`. When the second turn of a conversation
   is cancelled while it acquires its resources, its generation is revoked to the
   root of the transcript, not to its start, and the answers before it leave the
   active branch.
2. `approvals_live`: `settleExecution` takes a run that has an open round and is not
   *awaiting_approval* to have lost its loop (`terminal-settlement.ts:93-100`). One call
   asks while two others run; the settlement of the pause still saves the results of those
   two when the user approves the first. The run is *running* again when the settlement
   looks, so its reconciliation records the approved call as one whose outcome is unknown
   while the loop executes it, and the real result is then refused as a conflict.
   `state.ts:721` says the reconciliation closes a round "after its live execution owner
   is gone".
3. `owner_knot`: `ConversationDelete` awaits the deletion it asks for
   (`app/spaces/space-tools.ts:173`), and the deletion waits for the executing turn of that
   conversation (`feature/conversation-coordinator.ts:858`). An agent that deletes its own
   conversation is never answered; the conversation lifecycle and the lease of all
   deletions stay taken, so that no conversation is born or deleted until a restart, at
   which the deletion is finished. In bypass mode, where the tool asks for no confirmation
   (`security-policy.ts:33-36`), a turn recovered at a startup does the same before the
   startup's own deletions (`ordinary-agent-feature.ts:389-410`,
   `request-handler.ts:122-131`), and then the program never opens.

Also seen while modelling, and not given a run of their own. In the queue and the
approvals:

- `requestConversationActivation` joins an attempt in progress, whose run documents may
  be older than the run to activate. The queued turn then waits for the next event of
  its conversation.
- Two calls of a batch ask side by side. The pause of the first names one request while
  the second one's fact is already stored, which `assertAwaitingApprovalFacts` refuses;
  failing the run then merges the pause's results with newer facts, which
  `mergeOrdinaryToolResults` refuses. The run stays *running* with its controller, the
  loop is over, and every successor waits. Denying one of two pending approvals gets
  there too, and so does a cancellation queued while a request is being saved: its pause
  is then ignored and keeps the controller.
- A run cancelled around `start_leaf_captured` ends in phase `started`, which the
  projection neither places on the branch nor keeps as a pre-session turn
  (`conversation-projection.ts:79-82`, "must not hide successors"). A successor queued
  behind it is never scheduled.
- A request that is asked while another pause is on display is refused by the document's
  schema (`file-system-repository.ts:517-535`). If its loop then fails the run and the
  settlement's save of what it remembers fails once, the ended run keeps an open
  approval until the next start; `EndedRunSettles` names this exception.
- A first turn cancelled between the append of its input and the save of
  `input_entry_committed` has start leaf `null`; the branch is emptied (as in finding 1) and
  the late checkpoint then makes the run durable. The projection throws "has durable
  runs but no active Session branch" (`conversation-projection.ts:15`) from then on.
- After a session write that failed but reached the file, a revocation to the leaf
  the fence still believes in skips `setLeafId`; `SuccessorStartsAtRestoredLeaf`
  holds for a generation outside `LateWrites`.

In the deletion of references:

- The journal's schema of a reference is strict and has no `webMetadata`
  (`file-system-reference-deletion-journal.ts:65`), which `addReference` gives every web
  page (`space-feature.ts:275`). `deleteSpace` journals all references, so a Space with a
  web page and an owned folder or asset cannot be deleted. By then the saga has deleted
  its conversations and notes; it stays failed, and `ready()` of the next
  startup rejects (`app/panel-server/request-handler.ts:126`).
- A journal save whose directory sync fails has been published
  (`file-system-reference-deletion-journal.ts:201`), and `remove` lets that error out
  without deleting the file (`space-reference-deletion.ts:99`). If the reference is
  edited before the next recovery, the assertion at line 155 refuses the record and
  startup fails. `JournalMatchesMetadata` is therefore stated of the deletions
  outside `LateSaves`.
- A release after a failed startup skips recovery and resolves with the journal kept
  (`space-feature.ts:500`, action `ReleaseDead`), although `contracts.ts:213`
  promises none is left.
- A managed folder that is missing on disk makes `prepare` fail
  (`app/panel-server/spaces/space-reference-deletion.ts:41`), so its reference and its
  Space can no longer be deleted through the program (`RequestDeletion`, `refused`).

In the memories:

- `setRollout` between *active* and *shadow* bumps the policy revision; a job queued
  before is then done without evidence, and its turns wait for the next signal.
- A stop between enabling the policy and writing its exclusions lets turns of the off
  time be filled in (`admin/memory-admin-application.ts:207-251`).
- A stop in the middle of a clear leaves the owner fenced until it is cleared again.
- A clear purges the transcript index and the jobs; the next signal indexes from the
  first turn, and a turn that ended while the clear read its high waters has lost its
  signal.
- A rollback gives its ordinal to the next turn, which the boundary then regards as
  processed (`capture/consolidation.ts:590`).
- `attempt` counts claims and is not reset by a committed batch. The failure of a last
  attempt marks the job failed although a signal has extended it meanwhile.
- A signal that passed its gate before a fence may register its job after the purge of
  the conversation; the job then finds nothing.
- `panel-host.ts` says near line 1017 that a startup fills the gaps of the capture; it only
  notes activity.

In the deletion of owners:

- The knot of finding 3 is also tied by `SpaceDelete`, at a startup too, and by a user's deletion of a
  conversation whose agent waits in a chain behind it: in `SpaceMountLocalPath` while
  the Space is deleted, in `ConversationDelete` of another conversation, or in
  `SpaceAddReference` behind a birth that holds the Space's admission.
- A follow-up turn is accepted while the deletion of its conversation is on record
  (`ordinary-turn-application.ts:93-95`, `157-159`): `admitConversation` has no caller
  outside its test. `NothingLeftBehind` holds all the same, because the removal cancels it.
- A turn that executes can start managed processes after `processes_stopped`; they
  outlive the conversation. No property speaks of `procs` for that reason.
- The saga of a Space lists the conversations that show a turn
  (`conversation-coordinator.ts:991`). One whose only turn left the branch, or whose own
  deletion failed, is not removed with it (`SpaceLeavesNothing` leaves them out).
- A `deleteSpace` that fails before its record is saved leaves the Space closed until a
  restart.

## Proofs

All theorems hold for every value of the constants that meets the modules' named
assumptions; nothing else is assumed, except where said.

`SessionWriteFence_proofs`, for every set of leaves, number of generations and queue
length: type correctness, `SingleOwner`, `FulfilledMeansRestored`,
`CancelledWriterIsFenced`, `UnrestoredLeafBlocks` and `SuccessorStartsAtRestoredLeaf`. The inductive invariant adds
to these that the queue holds each generation's operations in the order they were
asked for, that an open generation is the current one, and that a revocation's
record agrees with the generation's status: without the first, a release could be
thought to overtake the revocation it must follow. The last of the six needs besides
that the newest generation's view is the file's leaf (`ViewAgrees`), which holds as long
as its failed writes do not reach the file.

`SpaceReferenceDeletion_proofs`, for every tree of references, any number of
deletions, failures, crashes, edits and outside changes:

| Theorem | Property |
|---|---|
| `TypeCorrect`, `NeverLoses`, `NeverForgets`, `Settles`, `DoneIsDone` | the five invariants of `deletion_faults` |
| `RollsBackWhole` | `RolledBackMeansIntact`, an action property |
| `ImplementsMaterials` | every step is a step of `SpaceMaterials` or leaves its variables alone |
| `AssertionHolds` | `JournalMatchesMetadata` |

The invariant `IndInv` is proved in layers, each inductive relative to those before
it, so that a step is examined for one concern at a time:

- `Listed`: what recovery has listed is journaled, and nothing is listed while a command
  runs; the place in the code agrees with whose activity it is.
- `Ledger`: before the commit point the record's references are still there, after it
  none of them is, and a deletion that was reported done has no record any more.
  Without it, cleaning could be thought to start from a record nobody committed.
- `FolderLedger`: a reference that is gone has no folder at its source path, a staged
  folder is named by its deletion's journal file, and how far each loop has come. This
  is what lets recovery act on `content` alone.
- `AssetLedger`: the same for assets, which have no staged form.
- `NothingStale`: a journal file of a deletion outside `LateSaves` whose references are not all gone
  has their revisions unaltered, and belongs to the job at work or to a recovery that
  is still to come; so no edit can get between them.

The refinement maps the references that are present, and the folders and assets not
destroyed. `Commit`, `Unlink` and `DeleteSpacePlainly` are its `Remove`; `Clean`,
`CleanFails` and `DeleteAssets` its `Collect`; all other steps stutter.

`OwnerDeletion_proofs`, for any conversations, tools and number of requests, failures
and stops of the program:

| Theorem | Property |
|---|---|
| `TypeCorrect`, `LeavesNothing` | the two invariants of `owner_both` |
| `RemovesInOrder` | `RemovalIsOrdered`, an action property |

Its invariant `IndInv` has three parts, and each action has a lemma that says what it
leaves alone and what it disturbs:

- `Turns`: whatever works is the first in the chain of the lease, except the deletion of
  the Space that the startup resumes, and once the program is open a birth or a deletion
  of the Space is also the first in the chain of its admission. So whatever works is alone
  but for that deletion, beside which only the deletion of a conversation may work
  (`OneInside`), and no birth works while the Space is deleted (`BirthOrSpace`): every
  other lemma rests on these two. What keeps the exception harmless is that each of the
  two deletions only ever adds tombstones and takes turns and memories away.
- `Progress`: the place of a deletion agrees with its checkpoint, and its memories are
  fenced from the moment it was taken up until it purges them. A restart forgets the
  place and keeps the checkpoint, which is why the fence is set again.
- `Disk`: what the Space's deletion no longer has to remove is removed (`Listed`), what
  is there is listed or shows nothing (`Accounted`), what has a tombstone is on record or
  has nothing left (`Purged`), and what is on record is closed (`Closed`). `Accounted` is
  what keeps the notes away after they were removed: nobody is left who could write them.

`MemoryMaintenance_proofs`, for any conversations of any lengths and any number of
attempts and events:

| Theorem | Property |
|---|---|
| `TypeCorrect` | `TypeOK` |
| `NothingClearedReturns`, `NothingDeletedIsLeft` | the other two invariants of `memory_two` |
| `NothingClosedIsFilledIn`, `NothingIsPassedOver`, `NoEditIsLost` | the three of `memory_one` |

Its invariant `IndInv` is layered as well. The first layers say where things stand while
a batch is being made, the others what that makes of the properties:

- `RevisionsPast` and `WithinAllocated`: whatever was asked for was asked for under a
  revision that has been in force, and names turns that ended. So a bump of the policy
  or of the generation outdates all of it, and a mark taken at the high water covers it.
- `UserHolds`: while a switch or a clear has read its high waters and has not written
  yet, nothing that may still be claimed reaches above them. Without it, a turn could be
  thought to slip in between the reading and the writing.
- `WorkFits`: as long as the revision a batch was claimed under is in force, the batch
  begins where the exclusions and the summary end. This is what the comparison at the
  publication buys.
- `SourcesNamed`: a revision of the document names every conversation it was made from,
  so a deletion finds it.
- `ClearedExcluded`, `ClosedExcluded`: what was cleared or closed lies below its
  conversation's exclusion, so that nothing reads it again. With the layers above,
  `ClearedStaysCleared` and `ClosedStaysClosed` are then inductive (`ForgetsCleared`,
  `ForgetsClosed`, `ForgetsDeleted`).
- `BoundaryIsHonest` and `DoneIsCovered` are `NothingSkipped`. `EditsAreBuiltOn` needs
  besides that the newest revision of a set of them exists (`WellFoundedInduction`).

`ToolApprovals_proofs`, for any finite set of calls, whichever of them need an
approval before or after their start, and any number of cancellations, failed saves
and stops of the program:

| Theorem | Property |
|---|---|
| `TypeCorrect`, `WhatIsRefusedIsNotExecuted`, `ApprovalComesFirst`, `RoundsCloseOverResults`, `PausesCanBeAnswered` | the five invariants of `approvals` |
| `FactsStayFinal` | `FactsAreFinal`, an action property |

`Layers`, its inductive invariant, says of the loop, the tasks and the queue of the run's
lock what the document alone does not tell:

- `CallsHold`: a call that was not started, or waits, has had no effect; a result on its
  way to the document is the one the loop recorded and the only one of its call. Without
  it, a saved result could be thought to meet another one of its call behind it.
- `TasksHold`: at most one task waits for the loop or for the pause it ends with, nobody
  does while the run awaits decisions, and a run that awaits them has a loop that goes
  on. This is what makes a pause answerable: a cancellation that stops the loop has ended
  the run, and a decision that fails hands its pause back.
- `Numbered`: each decision has a task of its own, which is there when the next one is
  made; it counts the decided calls, and is why `Calls` is assumed to be finite (a model
  answers with finitely many).
- `Refusing`: a refusal is kept in the loop's result, the settlement's memory, outcomes,
  the work of a settlement and operations still in the queue before it is in the document;
  wherever it is, its call has had no effect and is past the point of having one. The
  property itself speaks of the document only, and is not inductive for that reason.

`LiveCallsStayOpen` (finding 2) is refuted by TLC, and no theorem speaks of the facts
`unknown` and `lost`.

`ConversationProjection_proofs`, for any documents of the runs and any branch: the
projection lists the runs of a branch each once and in the order of their entries
(`OnBranchListed`), however far it is extended by followers it shows no run twice
(`VisibleListed`), and the scheduler returns the queued run behind cleared predecessors,
or nobody if there is none (`NextEligible`).

`ConversationQueue_proofs`, for any number of turns and any bounds on cancellations,
failures and tool rounds:

| Theorem | Property |
|---|---|
| `TypeCorrect`, `BarrierHolds`, `RevocationHolds`, `SessionsReturned` | the four invariants of `queue_tools` |
| `AdmissionHolds` | `AdmittedBehindBarrier`, an action property |
| `ChainHolds` | `TurnsAreChained`: the queue implements `ChainedTurns` |

`Layers`, its inductive invariant (`Invariance`), has eight parts. TLC checked them on two
turns, two cancellations, one failure and one tool round before they were proved.

- `Shape`: the types.
- `Staged`: one run at a time, what its document, its execution and its session say of
  each other: a run that has not begun has written nothing, a session is being given back
  exactly from the saved end until it is closed, and a revocation knows where to.
- `Awaited`: whoever waits for a session's return is there while it is pending, the
  execution, a cleanup or the activation's retry. Without it, a state at rest could be
  thought to hold a session nobody will close.
- `Births`: turns are born in the order of their numbers, and documents captured by the
  activation or the submission are outlasted: a turn does not vanish, change its
  predecessor or come back from its end. This is what makes a stale read usable.
- `Admits`: how much of what the activation read of its candidate still holds at each of
  its waits. At the lock the predecessor has ended, returned its session and keeps
  nothing back (`Freed`); only its round may still be open, because a late result can
  close but never open one. The second read excludes that, and so the start finds the
  barrier down. `BarrierStaysDown` is then inductive: no step raises what is `Released`.
- `Written`: the transcript is a tree, each written entry the end of its path and all
  entries of the path written.
- `Behind`: at most one session is attached, and as long as it may still be revoked, its
  safe leaf, its start and end leaves and its target lie on the active branch. A
  revocation target is chosen in one step and applied in another; `RevocationStaysOnBranch`
  speaks of the second only and is not inductive without the places it is chosen from.

For the refinement, each step is shown to leave every turn as it is, or to bring forth,
start or end exactly one (`Turns`); the barrier gives `ChainedTurns` its guard that the
predecessor has ended.

Only model-checked: liveness (`RunsEnd` and the other temporal properties under
fairness), which is beyond the prover. All safety properties of the passing runs have a
theorem.

## Not modelled

Rendering, HTTP, packaging and scripts hold no ordering of their own, and most of the
repository's lines are theirs. Of the rest:

- parsing, validation and texts of tools, prompts, settings and read models are pure
  functions over data, which unit tests reach;
- restarts of the turn queue, rollback by the user, nested tools, compaction, managed
  attachments, the deletion of workspaces, leases on paths, child processes, retained
  tool outputs and MCP connections do have an order, and are in the plan.

## Plan

1. The deletion of a workspace in `OwnerDeletion`: it has no journal, its durable status
   is the workspace's own.
2. `PathLeases`: leases on overlapping paths, first come first served.
3. Nested tool calls in `ToolApprovals`, and the recovery of the session branch.
4. Restart and rollback in `ConversationQueue`, with managed attachments.
5. The process registry and the tool-output store; MCP connections.
