-------------------------- MODULE SessionWriteFence --------------------------
(***************************************************************************)
(* One Session's write fence (adapters/intelligence/session-write-fence.ts).*)
(*                                                                         *)
(* A Session transcript has one durable leaf.  Every run that writes it    *)
(* opens a fresh storage view, a "generation"; the fence lets one          *)
(* generation write at a time, and takes the leaf back from a cancelled    *)
(* generation (which may still be executing) before a successor opens its  *)
(* own view.  All of that goes through one promise chain (`tail`), here    *)
(* `queue`: an operation runs only at the head of the chain, while revoke  *)
(* and release also change the generation synchronously when called.       *)
(*                                                                         *)
(* The transcript file belongs to a dependency: opening it may fail, and a *)
(* write whose promise rejects leaves the file as it was or, when the      *)
(* generation is one of LateWrites, may have reached it all the same.      *)
(***************************************************************************)
EXTENDS Integers, Sequences

CONSTANTS
  Leaves,          \* the entries the durable leaf may name, "null" included
  RootLeaf,        \* the leaf of the session when the fence is created
  Unset,           \* a field that is still `undefined`
  Deleted,         \* the durable leaf of a deleted session
  MaxGenerations,  \* bound: how many generations are ever opened
  MaxQueue,        \* bound: how many operations wait on the chain at once
  LateWrites       \* generations whose writes may reach the file and report an error

ASSUME LeafAssumption ==
  /\ RootLeaf \in Leaves
  /\ Unset \notin Leaves
  /\ Deleted \notin Leaves
  /\ Unset # Deleted
ASSUME BoundAssumption ==
  /\ MaxGenerations \in Nat
  /\ MaxQueue \in Nat
  /\ LateWrites \subseteq 1..MaxGenerations

Generations == 1..MaxGenerations
NoGeneration == 0

VARIABLES
  status,          \* StorageGeneration.status; "unopened" before acquire
  current,         \* currentGeneration
  nextGeneration,  \* nextGenerationId
  recoveryTarget,  \* recoveryTargetLeafId
  revokedLeaf,     \* revokedLeafId
  revocation,      \* the memoized revocation promise
  releaseAsked,    \* whether releasePromise is memoized
  view,            \* the leaf each generation's storage object believes in
  leaf,            \* the leaf in the transcript file
  queue            \* the operations on the promise chain, the running one first

vars == <<status, current, nextGeneration, recoveryTarget, revokedLeaf,
          revocation, releaseAsked, view, leaf, queue>>

Statuses == {"unopened", "active", "revoking", "revoked", "revoke_failed", "released"}
Operations ==
       [op : {"acquire", "idle"}]
  \cup [op : {"revoke", "release"}, gen : Generations]
  \cup [op : {"write"}, gen : Generations, leaf : Leaves]

TypeOK ==
  /\ status \in [Generations -> Statuses]
  /\ current \in Generations \cup {NoGeneration}
  /\ nextGeneration \in 1..(MaxGenerations + 1)
  /\ recoveryTarget \in [Generations -> Leaves \cup {Unset}]
  /\ revokedLeaf \in [Generations -> Leaves \cup {Unset}]
  /\ revocation \in [Generations -> {"none", "pending", "fulfilled"}]
  /\ releaseAsked \in [Generations -> BOOLEAN]
  /\ view \in [Generations -> Leaves \cup {Unset}]
  /\ leaf \in Leaves \cup {Deleted}
  /\ queue \in Seq(Operations)

Init ==
  /\ status = [g \in Generations |-> "unopened"]
  /\ current = NoGeneration
  /\ nextGeneration = 1
  /\ recoveryTarget = [g \in Generations |-> Unset]
  /\ revokedLeaf = [g \in Generations |-> Unset]
  /\ revocation = [g \in Generations |-> "none"]
  /\ releaseAsked = [g \in Generations |-> FALSE]
  /\ view = [g \in Generations |-> Unset]
  /\ leaf = RootLeaf
  /\ queue = << >>

-----------------------------------------------------------------------------
(* What the holders of the fence call.                                     *)

Opened == {g \in Generations : status[g] # "unopened"}
CurrentIs(s) == current # NoGeneration /\ status[current] = s

Enqueue(operation) == Len(queue) < MaxQueue /\ queue' = Append(queue, operation)

\* acquire() and runWhenIdle() only join the chain.
CallAcquire ==
  /\ nextGeneration <= MaxGenerations
  /\ Enqueue([op |-> "acquire"])
  /\ UNCHANGED <<status, current, nextGeneration, recoveryTarget, revokedLeaf,
                 revocation, releaseAsked, view, leaf>>

CallIdle ==
  /\ Enqueue([op |-> "idle"])
  /\ UNCHANGED <<status, current, nextGeneration, recoveryTarget, revokedLeaf,
                 revocation, releaseAsked, view, leaf>>

\* A lease holder appends an entry or moves its leaf, cancelled or not: an
\* execution that ignores its abort signal keeps calling this.
CallWrite(g, l) ==
  /\ g \in Opened
  /\ Enqueue([op |-> "write", gen |-> g, leaf |-> l])
  /\ UNCHANGED <<status, current, nextGeneration, recoveryTarget, revokedLeaf,
                 revocation, releaseAsked, view, leaf>>

\* revoke(): the calls that return without joining the chain (released, another
\* target, already revoked, already pending) change nothing but the target.
CallRevoke(g, target) ==
  /\ g \in Opened
  /\ status[g] # "released"
  /\ recoveryTarget[g] \in {Unset, target}
  /\ recoveryTarget' = [recoveryTarget EXCEPT ![g] = target]
  /\ IF status[g] = "revoked" \/ revocation[g] # "none"
     THEN UNCHANGED <<revocation, queue>>
     ELSE /\ revocation' = [revocation EXCEPT ![g] = "pending"]
          /\ Enqueue([op |-> "revoke", gen |-> g])
  /\ UNCHANGED <<status, current, nextGeneration, revokedLeaf, releaseAsked, view, leaf>>

CallRelease(g) ==
  /\ g \in Opened
  /\ ~releaseAsked[g]
  /\ releaseAsked' = [releaseAsked EXCEPT ![g] = TRUE]
  /\ Enqueue([op |-> "release", gen |-> g])
  /\ UNCHANGED <<status, current, nextGeneration, recoveryTarget, revokedLeaf,
                 revocation, view, leaf>>

-----------------------------------------------------------------------------
(* The operation at the head of the chain.                                 *)

HeadIs(name) == queue # << >> /\ Head(queue).op = name
Dequeue == queue' = Tail(queue)

\* acquire() refused: an active or unrestored generation, or the open fails.
AcquireRefused ==
  /\ HeadIs("acquire")
  /\ Dequeue
  /\ UNCHANGED <<status, current, nextGeneration, recoveryTarget, revokedLeaf,
                 revocation, releaseAsked, view, leaf>>

\* Mutant: the check for a revocation that failed is missing.
MayOpenUnrestored == ~CurrentIs("active") /\ leaf # Deleted

MayOpen == ~CurrentIs("active") /\ ~CurrentIs("revoke_failed") /\ leaf # Deleted
\* The file shows another leaf than the one the revoked generation restored.
LeafMismatch == CurrentIs("revoked") /\ leaf # revokedLeaf[current]

AcquireMismatch ==
  /\ HeadIs("acquire")
  /\ MayOpen
  /\ LeafMismatch
  /\ status' = [status EXCEPT ![current] = "revoke_failed"]
  /\ Dequeue
  /\ UNCHANGED <<current, nextGeneration, recoveryTarget, revokedLeaf, revocation,
                 releaseAsked, view, leaf>>

AcquireOpens ==
  /\ HeadIs("acquire")
  /\ MayOpen
  /\ ~LeafMismatch
  /\ nextGeneration <= MaxGenerations
  /\ status' = [status EXCEPT ![nextGeneration] = "active"]
  /\ view' = [view EXCEPT ![nextGeneration] = leaf]
  /\ current' = nextGeneration
  /\ nextGeneration' = nextGeneration + 1
  /\ Dequeue
  /\ UNCHANGED <<recoveryTarget, revokedLeaf, revocation, releaseAsked, leaf>>

\* Mutant: a write only has to come from the current generation.
MayWriteWhileCurrent(g) == current = g

MayWrite(g) == status[g] = "active" /\ current = g

\* executeWrite(): assertActive is evaluated at the head of the chain.
WriteRefused ==
  /\ HeadIs("write")
  /\ ~MayWrite(Head(queue).gen)
  /\ Dequeue
  /\ UNCHANGED <<status, current, nextGeneration, recoveryTarget, revokedLeaf,
                 revocation, releaseAsked, view, leaf>>

WriteSucceeds ==
  /\ HeadIs("write")
  /\ MayWrite(Head(queue).gen)
  /\ view' = [view EXCEPT ![Head(queue).gen] = Head(queue).leaf]
  /\ leaf' = Head(queue).leaf
  /\ Dequeue
  /\ UNCHANGED <<status, current, nextGeneration, recoveryTarget, revokedLeaf,
                 revocation, releaseAsked>>

WriteFails ==
  /\ HeadIs("write")
  /\ MayWrite(Head(queue).gen)
  /\ leaf' \in {leaf} \cup (IF Head(queue).gen \in LateWrites THEN {Head(queue).leaf} ELSE {})
  /\ Dequeue
  /\ UNCHANGED <<status, current, nextGeneration, recoveryTarget, revokedLeaf,
                 revocation, releaseAsked, view>>

\* The revocation turn of the chain: with nothing left to restore it returns,
\* and once a successor replaced the generation it is rejected; otherwise the
\* generation becomes "revoking" and the turn awaits the storage, while calls
\* made meanwhile see that status.
RevokeBegins ==
  /\ HeadIs("revoke")
  /\ LET g == Head(queue).gen IN
     /\ status[g] # "revoking"
     /\ IF status[g] \in {"released", "revoked"} \/ current # g
        THEN /\ revocation' = [revocation EXCEPT ![g] =
                  IF status[g] \in {"released", "revoked"} THEN "fulfilled" ELSE "none"]
             /\ Dequeue
             /\ UNCHANGED status
        ELSE /\ status' = [status EXCEPT ![g] = "revoking"]
             /\ UNCHANGED <<revocation, queue>>
  /\ UNCHANGED <<current, nextGeneration, recoveryTarget, revokedLeaf,
                 releaseAsked, view, leaf>>

\* getLeafId, then setLeafId when the view is not at the target already.
\* Mutants: a null target taken for "nothing to restore"; the restored leaf read
\* before it is assigned.
RestoredLeafUnlessRoot(g) == IF recoveryTarget[g] # RootLeaf THEN recoveryTarget[g] ELSE leaf
RestoredLeafTooEarly(g) == revokedLeaf[g]

RestoredLeaf(g) == IF view[g] # recoveryTarget[g] THEN recoveryTarget[g] ELSE leaf

RevokeRestores ==
  /\ HeadIs("revoke")
  /\ LET g == Head(queue).gen IN
     /\ status[g] = "revoking"
     /\ leaf' = RestoredLeaf(g)
     /\ view' = [view EXCEPT ![g] = recoveryTarget[g]]
     /\ status' = [status EXCEPT ![g] = "revoked"]
     /\ revokedLeaf' = [revokedLeaf EXCEPT ![g] = recoveryTarget[g]]
     /\ revocation' = [revocation EXCEPT ![g] = "fulfilled"]
  /\ Dequeue
  /\ UNCHANGED <<current, nextGeneration, recoveryTarget, releaseAsked>>

RevokeFails ==
  /\ HeadIs("revoke")
  /\ LET g == Head(queue).gen IN
     /\ status[g] = "revoking"
     /\ leaf' \in {leaf} \cup (IF g \in LateWrites THEN {recoveryTarget[g]} ELSE {})
     /\ status' = [status EXCEPT ![g] = "revoke_failed"]
     /\ revocation' = [revocation EXCEPT ![g] = "none"]
  /\ Dequeue
  /\ UNCHANGED <<current, nextGeneration, recoveryTarget, revokedLeaf, releaseAsked, view>>

\* Mutants: cleanup releases a generation whose revocation is still waiting, or
\* one whose leaf was not restored.
RevocationOwnsOnceFailed(g) == status[g] = "revoke_failed"
RevocationOwnsWhileActive(g) == status[g] = "active" /\ revocation[g] # "none"

\* Whether release() leaves the generation to a revocation.
RevocationOwns(g) ==
  \/ status[g] = "revoke_failed"
  \/ status[g] = "active" /\ revocation[g] # "none"

ReleaseTurn ==
  /\ HeadIs("release")
  /\ LET g == Head(queue).gen IN
     IF RevocationOwns(g)
     THEN UNCHANGED <<status, current>>
     ELSE /\ status' = [status EXCEPT ![g] = IF @ = "active" THEN "released" ELSE @]
          /\ current' = IF current = g THEN NoGeneration ELSE current
  /\ Dequeue
  /\ UNCHANGED <<nextGeneration, recoveryTarget, revokedLeaf, revocation,
                 releaseAsked, view, leaf>>

\* runWhenIdle(): the repository deletes the transcript, which may fail.
IdleTurn ==
  /\ HeadIs("idle")
  /\ leaf' \in {leaf} \cup (IF CurrentIs("active") \/ CurrentIs("revoke_failed")
                            THEN {} ELSE {Deleted})
  /\ Dequeue
  /\ UNCHANGED <<status, current, nextGeneration, recoveryTarget, revokedLeaf,
                 revocation, releaseAsked, view>>

Call ==
  \/ CallAcquire
  \/ CallIdle
  \/ \E g \in Generations, l \in Leaves : CallWrite(g, l)
  \/ \E g \in Generations, l \in Leaves : CallRevoke(g, l)
  \/ \E g \in Generations : CallRelease(g)

Turn ==
  \/ AcquireRefused \/ AcquireMismatch \/ AcquireOpens
  \/ WriteRefused \/ WriteSucceeds \/ WriteFails
  \/ RevokeBegins \/ RevokeRestores \/ RevokeFails
  \/ ReleaseTurn
  \/ IdleTurn

Next == Call \/ Turn

Spec == Init /\ [][Next]_vars

-----------------------------------------------------------------------------
(* What the fence promises.                                                *)

Holding == {"active", "revoking", "revoke_failed"}

\* A generation that may still touch the transcript, or whose leaf is still to
\* be restored, is the current one: two runs never own the leaf together, and a
\* successor never opens over a revocation that has not been carried out.
SingleOwner == \A g \in Generations : status[g] \in Holding => current = g

\* Whoever awaited revokeTo() and was not rejected may rely on the leaf having
\* been restored: cleanup that happened to enqueue release first, or a revocation
\* that lost its generation, never turns into a silent success.
FulfilledMeansRestored ==
  \A g \in Generations : revocation[g] = "fulfilled" =>
    /\ status[g] \in {"revoked", "revoke_failed"}
    /\ revokedLeaf[g] = recoveryTarget[g]
    /\ view[g] = recoveryTarget[g]

\* A cancelled execution that keeps writing never moves the leaf: from the moment
\* its revocation starts until the next generation opens, the file's leaf only
\* moves to the recovery target (or the transcript is deleted once idle).
CancelledWriterIsFenced ==
  [][\A g \in Generations :
       (status[g] \in {"revoking", "revoked", "revoke_failed"} /\ current = g /\ leaf' # leaf)
         => leaf' \in {recoveryTarget[g], Deleted}]_vars

\* While the leaf of a generation could not be restored, nobody takes the fence
\* over and the transcript is neither written nor deleted.
UnrestoredLeafBlocks ==
  [][\A g \in Generations : (status[g] = "revoke_failed" /\ current = g)
       => current' = g /\ leaf' = leaf]_vars

\* A run that follows a revoked one starts from exactly the leaf the revocation
\* restored, in whichever order revoke and release were asked for, unless a
\* failed write of its own reached the file behind the fence's back.
SuccessorStartsAtRestoredLeaf ==
  [][\A g \in Generations \ LateWrites :
       (nextGeneration' = nextGeneration + 1 /\ g = nextGeneration - 1 /\ status[g] = "revoked")
         => view'[nextGeneration] = recoveryTarget[g]]_vars

=============================================================================
