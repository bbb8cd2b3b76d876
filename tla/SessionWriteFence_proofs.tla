----------------------- MODULE SessionWriteFence_proofs -----------------------
(***************************************************************************)
(* The fence's promises for every number of generations, every chain       *)
(* length and every set of leaves.  The inductive invariant adds to        *)
(* SingleOwner and FulfilledMeansRestored what the chain knows about the    *)
(* revocations waiting on it.                                              *)
(***************************************************************************)
EXTENDS SessionWriteFence, TLAPS

\* A waiting revocation is the pending one of its generation, and the only one.
QueuedRevocations ==
  /\ \A i \in 1..Len(queue) : queue[i].op = "revoke" => revocation[queue[i].gen] = "pending"
  /\ \A i, j \in 1..Len(queue) :
       (queue[i].op = "revoke" /\ queue[j].op = "revoke" /\ queue[i].gen = queue[j].gen) => i = j

\* A pending revocation still has its generation, and a target for its leaf.
PendingHolds ==
  \A g \in Generations : revocation[g] = "pending" =>
    status[g] \in Holding /\ recoveryTarget[g] # Unset

\* "revoking" is the status of the turn at the head of the chain.
RevokingAtHead ==
  \A g \in Generations : status[g] = "revoking" =>
    queue # << >> /\ Head(queue).op = "revoke" /\ Head(queue).gen = g

RevokedConsistent ==
  \A g \in Generations : status[g] = "revoked" =>
    /\ recoveryTarget[g] # Unset
    /\ revokedLeaf[g] = recoveryTarget[g]
    /\ view[g] = recoveryTarget[g]

FulfilledConsistent == FulfilledMeansRestored /\
  \A g \in Generations : revocation[g] = "fulfilled" => recoveryTarget[g] # Unset

UnopenedUntouched ==
  \A g \in Generations :
    /\ g >= nextGeneration => status[g] = "unopened"
    /\ status[g] = "unopened" => revocation[g] = "none" /\ recoveryTarget[g] = Unset

IndInv ==
  /\ TypeOK
  /\ SingleOwner
  /\ FulfilledConsistent
  /\ QueuedRevocations
  /\ PendingHolds
  /\ RevokingAtHead
  /\ RevokedConsistent
  /\ UnopenedUntouched

-----------------------------------------------------------------------------
(* The chain as a sequence.                                                *)

\* What an operation of the chain carries.
LEMMA OperationFields ==
  ASSUME NEW o \in Operations
  PROVE  /\ o.op \in {"acquire", "idle", "revoke", "release", "write"}
         /\ o.op \in {"revoke", "release", "write"} => o.gen \in Generations
         /\ o.op = "write" => o.leaf \in Leaves
BY DEF Operations

\* Joining the chain adds one operation behind all the others.
LEMMA EnqueueFacts ==
  ASSUME TypeOK, NEW o \in Operations, Enqueue(o)
  PROVE  /\ queue' \in Seq(Operations)
         /\ Len(queue') = Len(queue) + 1
         /\ \A i \in 1..Len(queue) : queue'[i] = queue[i]
         /\ queue'[Len(queue) + 1] = o
         /\ queue # << >> => Head(queue') = Head(queue)
         /\ queue' # << >>
BY DEF TypeOK, Enqueue

\* A finished turn shifts the chain by one.
LEMMA DequeueFacts ==
  ASSUME TypeOK, queue # << >>, Dequeue
  PROVE  /\ queue' \in Seq(Operations)
         /\ Len(queue') = Len(queue) - 1
         /\ \A i \in 1..Len(queue') : i + 1 \in 1..Len(queue) /\ queue'[i] = queue[i + 1]
         /\ Head(queue) = queue[1]
         /\ 1 \in 1..Len(queue)
         /\ Head(queue) \in Operations
BY DEF TypeOK, Dequeue

-----------------------------------------------------------------------------
THEOREM InitInv == Init => IndInv
BY LeafAssumption, BoundAssumption
   DEF Init, IndInv, TypeOK, Statuses, Generations, NoGeneration, SingleOwner, Holding,
       FulfilledConsistent, FulfilledMeansRestored, QueuedRevocations, PendingHolds,
       RevokingAtHead, RevokedConsistent, UnopenedUntouched, Operations

\* A call that only joins the chain, with anything but a revocation.
LEMMA PlainCallInv ==
  ASSUME IndInv, NEW o \in Operations, o.op # "revoke", Enqueue(o),
         UNCHANGED <<status, current, nextGeneration, recoveryTarget, revokedLeaf,
                     revocation, view, leaf>>,
         releaseAsked' \in [Generations -> BOOLEAN]
  PROVE  IndInv'
<1> USE DEF IndInv
<1>1. TypeOK'
  BY EnqueueFacts DEF TypeOK
<1>2. QueuedRevocations'
  <2>1. \A i \in 1..Len(queue') : queue'[i].op = "revoke" =>
          i \in 1..Len(queue) /\ queue'[i] = queue[i]
    <3>1. Len(queue) \in Nat
      BY DEF TypeOK
    <3> QED BY <3>1, EnqueueFacts
  <2>2. revocation' = revocation
    OBVIOUS
  <2> QED BY <2>1, <2>2 DEF QueuedRevocations
<1>3. RevokingAtHead'
  BY EnqueueFacts DEF RevokingAtHead
<1>4. /\ SingleOwner' /\ FulfilledConsistent' /\ PendingHolds'
      /\ RevokedConsistent' /\ UnopenedUntouched'
  BY DEF SingleOwner, FulfilledConsistent, FulfilledMeansRestored, PendingHolds,
         RevokedConsistent, UnopenedUntouched
<1> QED BY <1>1, <1>2, <1>3, <1>4

LEMMA CallRevokeInv ==
  ASSUME IndInv, NEW g \in Generations, NEW target \in Leaves, CallRevoke(g, target)
  PROVE  IndInv'
<1> USE DEF IndInv
<1>0. target # Unset /\ status[g] # "unopened" /\ status[g] # "released"
  BY LeafAssumption DEF CallRevoke, Opened
<1>1. CASE status[g] = "revoked" \/ revocation[g] # "none"
  <2>1. UNCHANGED <<status, current, nextGeneration, revokedLeaf, revocation,
                    releaseAsked, view, leaf, queue>>
    BY <1>1 DEF CallRevoke
  <2>2. recoveryTarget[g] # Unset
    BY <1>1 DEF RevokedConsistent, PendingHolds, FulfilledConsistent, TypeOK
  <2>3. recoveryTarget' = recoveryTarget
    BY <2>2 DEF CallRevoke, TypeOK
  <2>4. TypeOK'
    BY <2>1, <2>3 DEF TypeOK
  <2> QED
    BY <2>1, <2>3, <2>4 DEF SingleOwner, FulfilledConsistent, FulfilledMeansRestored,
       QueuedRevocations, PendingHolds, RevokingAtHead, RevokedConsistent, UnopenedUntouched
<1>2. CASE ~(status[g] = "revoked" \/ revocation[g] # "none")
  <2> DEFINE o == [op |-> "revoke", gen |-> g]
  <2>1. /\ Enqueue(o)
        /\ revocation' = [revocation EXCEPT ![g] = "pending"]
        /\ recoveryTarget' = [recoveryTarget EXCEPT ![g] = target]
        /\ UNCHANGED <<status, current, nextGeneration, revokedLeaf, releaseAsked, view, leaf>>
    BY <1>2 DEF CallRevoke
  <2>2. o \in Operations /\ o.op = "revoke" /\ o.gen = g
    BY DEF Operations
  <2> HIDE DEF o
  <2>3. status[g] \in Holding
    BY <1>0, <1>2 DEF TypeOK, Statuses, Holding
  <2>4. TypeOK'
    BY <2>1, <2>2, EnqueueFacts DEF TypeOK
  <2>5. QueuedRevocations'
    <3>1. \A i \in 1..Len(queue) : queue[i].op = "revoke" => queue[i].gen # g
      BY <1>2 DEF QueuedRevocations
    <3>2. Len(queue) \in Nat
      BY DEF TypeOK
    <3>3. \A i \in 1..Len(queue') :
            (i \in 1..Len(queue) /\ queue'[i] = queue[i]) \/ (i = Len(queue) + 1 /\ queue'[i] = o)
      BY <2>1, <2>2, <3>2, EnqueueFacts
    <3>4. \A i \in 1..Len(queue) : queue[i].op = "revoke" => queue[i].gen \in Generations
      BY OperationFields DEF TypeOK
    <3>5. revocation'[g] = "pending" /\ \A h \in Generations : h # g => revocation'[h] = revocation[h]
      BY <2>1 DEF TypeOK
    <3>6. \A i \in 1..Len(queue') : queue'[i].op = "revoke" => revocation'[queue'[i].gen] = "pending"
      BY <2>2, <3>1, <3>3, <3>4, <3>5 DEF QueuedRevocations
    <3>7. \A i, j \in 1..Len(queue') :
            (queue'[i].op = "revoke" /\ queue'[j].op = "revoke" /\ queue'[i].gen = queue'[j].gen) => i = j
      BY <2>2, <3>1, <3>3 DEF QueuedRevocations
    <3> QED BY <3>6, <3>7 DEF QueuedRevocations
  <2>6. RevokingAtHead'
    BY <2>1, <2>2, EnqueueFacts DEF RevokingAtHead
  <2>7. PendingHolds'
    BY <1>0, <2>1, <2>3 DEF PendingHolds, TypeOK
  <2>8. FulfilledConsistent' /\ RevokedConsistent' /\ UnopenedUntouched' /\ SingleOwner'
    BY <1>0, <1>2, <2>1 DEF FulfilledConsistent, FulfilledMeansRestored, RevokedConsistent,
       UnopenedUntouched, SingleOwner, TypeOK
  <2> QED BY <2>4, <2>5, <2>6, <2>7, <2>8
<1> QED BY <1>1, <1>2

\* A turn that ends without touching any revocation keeps the facts about the
\* chain: the others only moved up by one.
LEMMA DequeueInv ==
  ASSUME IndInv, queue # << >>, Head(queue).op # "revoke", Dequeue, revocation' = revocation
  PROVE  QueuedRevocations' /\ \A g \in Generations : status[g] # "revoking"
<1> USE DEF IndInv
<1>1. QueuedRevocations'
  <2>1. \A i \in 1..Len(queue') : i \in Int /\ i + 1 \in 1..Len(queue) /\ queue'[i] = queue[i + 1]
    BY DequeueFacts
  <2>2. \A i \in 1..Len(queue') : queue'[i].op = "revoke" => revocation[queue'[i].gen] = "pending"
    BY <2>1 DEF QueuedRevocations
  <2>3. ASSUME NEW i \in 1..Len(queue'), NEW j \in 1..Len(queue'), queue'[i].op = "revoke",
               queue'[j].op = "revoke", queue'[i].gen = queue'[j].gen
        PROVE  i = j
    <3>1. i + 1 = j + 1
      BY <2>1, <2>3 DEF QueuedRevocations
    <3> QED BY <2>1, <3>1
  <2> QED BY <2>2, <2>3 DEF QueuedRevocations
<1>2. \A g \in Generations : status[g] # "revoking"
  BY DEF RevokingAtHead
<1> QED BY <1>1, <1>2

-----------------------------------------------------------------------------
(* The turns of the chain, one lemma each where they touch a generation.   *)

\* Refused turns, failed writes and the idle turn end without touching any
\* generation; a write that succeeds moves the view of an active one.
LEMMA QuietTurnInv ==
  ASSUME IndInv, queue # << >>, Head(queue).op # "revoke", Dequeue,
         UNCHANGED <<status, current, nextGeneration, recoveryTarget, revokedLeaf,
                     revocation, releaseAsked>>,
         view' \in [Generations -> Leaves \cup {Unset}],
         leaf' \in Leaves \cup {Deleted},
         \A g \in Generations : view'[g] = view[g] \/ status[g] = "active"
  PROVE  IndInv'
<1> USE DEF IndInv
<1>1. TypeOK'
  BY DequeueFacts DEF TypeOK
<1>2. QueuedRevocations' /\ \A g \in Generations : status[g] # "revoking"
  BY DequeueInv
<1>3. RevokingAtHead'
  BY <1>2 DEF RevokingAtHead
<1>4. RevokedConsistent' /\ FulfilledConsistent'
  BY DEF RevokedConsistent, FulfilledConsistent, FulfilledMeansRestored
<1>5. SingleOwner' /\ PendingHolds' /\ UnopenedUntouched'
  BY DEF SingleOwner, PendingHolds, UnopenedUntouched
<1> QED BY <1>1, <1>2, <1>3, <1>4, <1>5

LEMMA AcquireMismatchInv == IndInv /\ AcquireMismatch => IndInv'
<1> SUFFICES ASSUME IndInv, AcquireMismatch PROVE IndInv'
  OBVIOUS
<1> USE DEF IndInv
<1>1. /\ queue # << >> /\ Head(queue).op # "revoke" /\ Dequeue
      /\ current \in Generations /\ status[current] = "revoked"
      /\ status' = [status EXCEPT ![current] = "revoke_failed"]
      /\ UNCHANGED <<current, nextGeneration, recoveryTarget, revokedLeaf, revocation,
                     releaseAsked, view, leaf>>
  BY DEF AcquireMismatch, HeadIs, LeafMismatch, CurrentIs, TypeOK
<1>2. TypeOK'
  BY <1>1, DequeueFacts DEF TypeOK, Statuses
<1>3. QueuedRevocations' /\ \A g \in Generations : status[g] # "revoking"
  BY <1>1, DequeueInv
<1>4. RevokingAtHead'
  BY <1>1, <1>3 DEF RevokingAtHead, TypeOK
<1>5. RevokedConsistent' /\ FulfilledConsistent'
  BY <1>1 DEF RevokedConsistent, FulfilledConsistent, FulfilledMeansRestored, TypeOK
<1>6. SingleOwner' /\ PendingHolds'
  BY <1>1 DEF SingleOwner, PendingHolds, Holding, TypeOK
<1>7. UnopenedUntouched'
  BY <1>1 DEF UnopenedUntouched, TypeOK
<1> QED BY <1>2, <1>3, <1>4, <1>5, <1>6, <1>7

LEMMA AcquireOpensInv == IndInv /\ AcquireOpens => IndInv'
<1> SUFFICES ASSUME IndInv, AcquireOpens PROVE IndInv'
  OBVIOUS
<1> USE DEF IndInv
<1>1. /\ queue # << >> /\ Head(queue).op # "revoke" /\ Dequeue
      /\ nextGeneration \in Generations
      /\ status' = [status EXCEPT ![nextGeneration] = "active"]
      /\ view' = [view EXCEPT ![nextGeneration] = leaf]
      /\ current' = nextGeneration /\ nextGeneration' = nextGeneration + 1
      /\ leaf \in Leaves
      /\ UNCHANGED <<recoveryTarget, revokedLeaf, revocation, releaseAsked, leaf>>
  BY BoundAssumption DEF AcquireOpens, HeadIs, MayOpen, TypeOK, Generations
<1>2. /\ nextGeneration' \in 1..(MaxGenerations + 1)
      /\ \A g \in Generations : g >= nextGeneration' => g >= nextGeneration /\ g # nextGeneration
  BY <1>1, BoundAssumption DEF TypeOK, Generations
<1>3. QueuedRevocations' /\ \A g \in Generations : status[g] # "revoking"
  BY <1>1, DequeueInv
<1>4. /\ status[nextGeneration] = "unopened" /\ revocation[nextGeneration] = "none"
      /\ recoveryTarget[nextGeneration] = Unset
  BY <1>1 DEF UnopenedUntouched, TypeOK, Generations
<1>5. \A g \in Generations : status[g] \notin Holding
  <2>1. ~CurrentIs("active") /\ ~CurrentIs("revoke_failed")
    BY DEF AcquireOpens, MayOpen
  <2>2. \A g \in Generations : g # NoGeneration
    BY DEF Generations, NoGeneration
  <2> QED BY <1>3, <2>1, <2>2 DEF SingleOwner, Holding, CurrentIs
<1>6. TypeOK'
  BY <1>1, <1>2, DequeueFacts DEF TypeOK, Statuses
<1>7. RevokingAtHead'
  BY <1>1, <1>3 DEF RevokingAtHead, TypeOK
<1>8. RevokedConsistent' /\ FulfilledConsistent'
  BY <1>1, <1>4 DEF RevokedConsistent, FulfilledConsistent, FulfilledMeansRestored, TypeOK
<1>9. SingleOwner' /\ PendingHolds'
  BY <1>1, <1>4, <1>5 DEF SingleOwner, PendingHolds, Holding, TypeOK
<1>10. UnopenedUntouched'
  BY <1>1, <1>2 DEF UnopenedUntouched, TypeOK
<1> QED BY <1>3, <1>6, <1>7, <1>8, <1>9, <1>10

\* A revocation turn finds its generation in place: neither early return of the
\* turn is ever taken.
LEMMA RevocationInPlace ==
  ASSUME IndInv, HeadIs("revoke")
  PROVE  /\ queue # << >> /\ Head(queue).gen \in Generations
         /\ revocation[Head(queue).gen] = "pending"
         /\ status[Head(queue).gen] \in Holding
         /\ current = Head(queue).gen
         /\ recoveryTarget[Head(queue).gen] \in Leaves
<1> USE DEF IndInv
<1>1. queue # << >> /\ Head(queue) = queue[1] /\ 1 \in 1..Len(queue) /\ Head(queue) \in Operations
  BY DEF HeadIs, TypeOK
<1>2. Head(queue).gen \in Generations /\ revocation[Head(queue).gen] = "pending"
  BY <1>1, OperationFields DEF HeadIs, QueuedRevocations
<1>3. status[Head(queue).gen] \in Holding /\ recoveryTarget[Head(queue).gen] # Unset
  BY <1>2 DEF PendingHolds
<1> QED BY <1>1, <1>2, <1>3 DEF SingleOwner, TypeOK

LEMMA RevokeBeginsInv == IndInv /\ RevokeBegins => IndInv'
<1> SUFFICES ASSUME IndInv, RevokeBegins PROVE IndInv'
  OBVIOUS
<1> DEFINE g == Head(queue).gen
<1>1. /\ HeadIs("revoke") /\ queue # << >> /\ g \in Generations
      /\ revocation[g] = "pending" /\ status[g] \in Holding /\ current = g
  BY RevocationInPlace DEF RevokeBegins
<1>2. /\ status' = [status EXCEPT ![g] = "revoking"]
      /\ UNCHANGED <<current, nextGeneration, recoveryTarget, revokedLeaf, revocation,
                     releaseAsked, view, leaf, queue>>
  BY <1>1 DEF RevokeBegins, Holding
<1>3. TypeOK'
  BY <1>1, <1>2 DEF IndInv, TypeOK, Statuses
<1>4. QueuedRevocations'
  BY <1>2 DEF IndInv, QueuedRevocations
<1>5. RevokingAtHead'
  BY <1>1, <1>2 DEF IndInv, RevokingAtHead, HeadIs, TypeOK
<1>6. RevokedConsistent' /\ FulfilledConsistent'
  BY <1>1, <1>2 DEF IndInv, RevokedConsistent, FulfilledConsistent, FulfilledMeansRestored, TypeOK
<1>7. SingleOwner' /\ PendingHolds' /\ UnopenedUntouched'
  BY <1>1, <1>2 DEF IndInv, SingleOwner, PendingHolds, UnopenedUntouched, Holding, TypeOK
<1> QED BY <1>3, <1>4, <1>5, <1>6, <1>7 DEF IndInv

\* When a revocation leaves the head of the chain, no other one of its
\* generation is waiting behind it.
LEMMA RevocationLeaves ==
  ASSUME IndInv, HeadIs("revoke"), Dequeue, NEW value,
         revocation' = [revocation EXCEPT ![Head(queue).gen] = value]
  PROVE  QueuedRevocations'
<1> DEFINE g == Head(queue).gen
<1>1. g \in Generations /\ queue # << >> /\ TypeOK /\ QueuedRevocations
  BY RevocationInPlace DEF IndInv
<1>2. /\ Head(queue) = queue[1] /\ 1 \in 1..Len(queue) /\ queue[1].op = "revoke"
      /\ \A i \in 1..Len(queue') : i \in 1..Len(queue') /\ i + 1 \in 1..Len(queue)
                                    /\ i + 1 # 1 /\ queue'[i] = queue[i + 1]
  BY <1>1, DequeueFacts DEF HeadIs
<1>3. \A i \in 1..Len(queue) : queue[i].op = "revoke" => queue[i].gen \in Generations
  BY <1>1, OperationFields DEF TypeOK
<1>4. \A h \in Generations : h # g => revocation'[h] = revocation[h]
  BY <1>1 DEF TypeOK
<1>5. \A i \in 1..Len(queue') : queue'[i].op = "revoke" => queue'[i].gen # g
  BY <1>1, <1>2 DEF QueuedRevocations
<1>6. \A i \in 1..Len(queue') : queue'[i].op = "revoke" => revocation'[queue'[i].gen] = "pending"
  BY <1>1, <1>2, <1>3, <1>4, <1>5 DEF QueuedRevocations
<1>7. ASSUME NEW i \in 1..Len(queue'), NEW j \in 1..Len(queue'), queue'[i].op = "revoke",
             queue'[j].op = "revoke", queue'[i].gen = queue'[j].gen
      PROVE  i = j
  <2>1. i + 1 = j + 1
    BY <1>1, <1>2, <1>7 DEF QueuedRevocations
  <2> QED BY <2>1
<1> QED BY <1>6, <1>7 DEF QueuedRevocations

LEMMA RevokeRestoresInv == IndInv /\ RevokeRestores => IndInv'
<1> SUFFICES ASSUME IndInv, RevokeRestores PROVE IndInv'
  OBVIOUS
<1> DEFINE g == Head(queue).gen
<1>1. /\ HeadIs("revoke") /\ queue # << >> /\ g \in Generations
      /\ current = g /\ recoveryTarget[g] \in Leaves /\ recoveryTarget[g] # Unset
  BY RevocationInPlace, LeafAssumption DEF RevokeRestores
<1>2. /\ status[g] = "revoking"
      /\ leaf' \in Leaves \cup {Deleted}
      /\ view' = [view EXCEPT ![g] = recoveryTarget[g]]
      /\ status' = [status EXCEPT ![g] = "revoked"]
      /\ revokedLeaf' = [revokedLeaf EXCEPT ![g] = recoveryTarget[g]]
      /\ revocation' = [revocation EXCEPT ![g] = "fulfilled"]
      /\ Dequeue
      /\ UNCHANGED <<current, nextGeneration, recoveryTarget, releaseAsked>>
  BY <1>1 DEF RevokeRestores, RestoredLeaf, IndInv, TypeOK
<1>3. TypeOK'
  BY <1>1, <1>2, DequeueFacts DEF IndInv, TypeOK, Statuses
<1>4. QueuedRevocations'
  BY <1>1, <1>2, RevocationLeaves
<1>5. \A h \in Generations : status[h] = "revoking" => h = g
  BY DEF IndInv, RevokingAtHead
<1>6. RevokingAtHead'
  BY <1>1, <1>2, <1>5 DEF IndInv, RevokingAtHead, TypeOK
<1>7. RevokedConsistent' /\ FulfilledConsistent'
  BY <1>1, <1>2 DEF IndInv, RevokedConsistent, FulfilledConsistent, FulfilledMeansRestored, TypeOK
<1>8. SingleOwner' /\ PendingHolds' /\ UnopenedUntouched'
  BY <1>1, <1>2 DEF IndInv, SingleOwner, PendingHolds, UnopenedUntouched, Holding, TypeOK
<1> QED BY <1>3, <1>4, <1>6, <1>7, <1>8 DEF IndInv

LEMMA RevokeFailsInv == IndInv /\ RevokeFails => IndInv'
<1> SUFFICES ASSUME IndInv, RevokeFails PROVE IndInv'
  OBVIOUS
<1> DEFINE g == Head(queue).gen
<1>1. /\ HeadIs("revoke") /\ queue # << >> /\ g \in Generations
      /\ current = g /\ recoveryTarget[g] \in Leaves
  BY RevocationInPlace DEF RevokeFails
<1>2. /\ status[g] = "revoking"
      /\ leaf' \in Leaves \cup {Deleted}
      /\ status' = [status EXCEPT ![g] = "revoke_failed"]
      /\ revocation' = [revocation EXCEPT ![g] = "none"]
      /\ Dequeue
      /\ UNCHANGED <<current, nextGeneration, recoveryTarget, revokedLeaf, releaseAsked, view>>
  BY <1>1 DEF RevokeFails, IndInv, TypeOK
<1>3. TypeOK'
  BY <1>1, <1>2, DequeueFacts DEF IndInv, TypeOK, Statuses
<1>4. QueuedRevocations'
  BY <1>1, <1>2, RevocationLeaves
<1>5. \A h \in Generations : status[h] = "revoking" => h = g
  BY DEF IndInv, RevokingAtHead
<1>6. RevokingAtHead'
  BY <1>1, <1>2, <1>5 DEF IndInv, RevokingAtHead, TypeOK
<1>7. RevokedConsistent' /\ FulfilledConsistent'
  BY <1>1, <1>2 DEF IndInv, RevokedConsistent, FulfilledConsistent, FulfilledMeansRestored, TypeOK
<1>8. SingleOwner' /\ PendingHolds' /\ UnopenedUntouched'
  BY <1>1, <1>2 DEF IndInv, SingleOwner, PendingHolds, UnopenedUntouched, Holding, TypeOK
<1> QED BY <1>3, <1>4, <1>6, <1>7, <1>8 DEF IndInv

LEMMA ReleaseTurnInv == IndInv /\ ReleaseTurn => IndInv'
<1> SUFFICES ASSUME IndInv, ReleaseTurn PROVE IndInv'
  OBVIOUS
<1> DEFINE g == Head(queue).gen
<1>1. /\ queue # << >> /\ Head(queue).op = "release" /\ Dequeue
      /\ UNCHANGED <<nextGeneration, recoveryTarget, revokedLeaf, revocation,
                     releaseAsked, view, leaf>>
  BY DEF ReleaseTurn, HeadIs
<1>2. CASE RevocationOwns(g)
  <2>1. UNCHANGED <<status, current>>
    BY <1>2 DEF ReleaseTurn
  <2> QED BY <1>1, <2>1, QuietTurnInv DEF IndInv, TypeOK
<1>3. CASE ~RevocationOwns(g)
  <2> USE DEF IndInv
  <2>1. /\ status' = [status EXCEPT ![g] = IF @ = "active" THEN "released" ELSE @]
        /\ current' = IF current = g THEN NoGeneration ELSE current
    BY <1>3 DEF ReleaseTurn
  <2>2. g \in Generations
    BY <1>1, DequeueFacts, OperationFields
  <2>3. QueuedRevocations' /\ \A h \in Generations : status[h] # "revoking"
    BY <1>1, DequeueInv
  <2>4. status[g] \notin {"revoking", "revoke_failed"} /\ status'[g] \notin Holding
    BY <1>3, <2>1, <2>2, <2>3 DEF RevocationOwns, Holding, TypeOK
  <2>5. \A h \in Generations : h # g => status'[h] = status[h]
    BY <2>1 DEF TypeOK
  <2>6. revocation[g] # "pending"
    BY <1>3, <2>2, <2>3 DEF RevocationOwns, PendingHolds, Holding
  <2>7. status[g] = "active" => revocation[g] = "none"
    BY <1>3 DEF RevocationOwns
  <2>8. TypeOK'
    BY <1>1, <2>1, DequeueFacts DEF TypeOK, Statuses
  <2>9. RevokingAtHead'
    BY <2>3, <2>4, <2>5 DEF RevokingAtHead, Holding
  <2>10. RevokedConsistent'
    BY <1>1, <2>1 DEF RevokedConsistent, TypeOK
  <2>11. FulfilledConsistent'
    BY <1>1, <2>1, <2>7 DEF FulfilledConsistent, FulfilledMeansRestored, TypeOK
  <2>12. SingleOwner'
    BY <2>1, <2>4, <2>5 DEF SingleOwner
  <2>13. PendingHolds'
    BY <1>1, <2>5, <2>6 DEF PendingHolds
  <2>14. UnopenedUntouched'
    BY <1>1, <2>1 DEF UnopenedUntouched, TypeOK
  <2> QED BY <2>3, <2>8, <2>9, <2>10, <2>11, <2>12, <2>13, <2>14
<1> QED BY <1>2, <1>3

LEMMA CallInv == IndInv /\ Call => IndInv'
<1> SUFFICES ASSUME IndInv, Call PROVE IndInv'
  OBVIOUS
<1>1. CASE CallAcquire
  <2>1. [op |-> "acquire"] \in Operations
    BY DEF Operations
  <2> QED BY <1>1, <2>1, PlainCallInv DEF CallAcquire, IndInv, TypeOK
<1>2. CASE CallIdle
  <2>1. [op |-> "idle"] \in Operations
    BY DEF Operations
  <2> QED BY <1>2, <2>1, PlainCallInv DEF CallIdle, IndInv, TypeOK
<1>3. ASSUME NEW g \in Generations, NEW l \in Leaves, CallWrite(g, l) PROVE IndInv'
  <2>1. [op |-> "write", gen |-> g, leaf |-> l] \in Operations
    BY DEF Operations
  <2> QED BY <1>3, <2>1, PlainCallInv DEF CallWrite, IndInv, TypeOK
<1>4. ASSUME NEW g \in Generations, NEW l \in Leaves, CallRevoke(g, l) PROVE IndInv'
  BY <1>4, CallRevokeInv
<1>5. ASSUME NEW g \in Generations, CallRelease(g) PROVE IndInv'
  <2>1. [op |-> "release", gen |-> g] \in Operations
    BY DEF Operations
  <2>2. releaseAsked' \in [Generations -> BOOLEAN]
    BY <1>5 DEF CallRelease, IndInv, TypeOK
  <2> QED BY <1>5, <2>1, <2>2, PlainCallInv DEF CallRelease
<1> QED BY <1>1, <1>2, <1>3, <1>4, <1>5 DEF Call

LEMMA TurnInv == IndInv /\ Turn => IndInv'
<1> SUFFICES ASSUME IndInv, Turn PROVE IndInv'
  OBVIOUS
<1>0. TypeOK
  BY DEF IndInv
<1>1. CASE AcquireRefused
  BY <1>0, <1>1, QuietTurnInv DEF AcquireRefused, HeadIs, TypeOK
<1>2. CASE AcquireMismatch
  BY <1>2, AcquireMismatchInv
<1>3. CASE AcquireOpens
  BY <1>3, AcquireOpensInv
<1>4. CASE WriteRefused
  BY <1>0, <1>4, QuietTurnInv DEF WriteRefused, HeadIs, TypeOK
<1>5. CASE WriteSucceeds
  <2> DEFINE g == Head(queue).gen
  <2>1. /\ queue # << >> /\ Head(queue).op = "write" /\ Dequeue
        /\ view' = [view EXCEPT ![g] = Head(queue).leaf] /\ leaf' = Head(queue).leaf
        /\ status[g] = "active"
    BY <1>5 DEF WriteSucceeds, HeadIs, MayWrite
  <2>2. g \in Generations /\ Head(queue).leaf \in Leaves
    BY <1>0, <2>1, DequeueFacts, OperationFields
  <2>3. /\ view' \in [Generations -> Leaves \cup {Unset}]
        /\ \A h \in Generations : view'[h] = view[h] \/ status[h] = "active"
    BY <1>0, <2>1, <2>2 DEF TypeOK
  <2> QED BY <1>5, <2>1, <2>2, <2>3, QuietTurnInv DEF WriteSucceeds
<1>6. CASE WriteFails
  <2>1. queue # << >> /\ Head(queue).op = "write" /\ Dequeue
    BY <1>6 DEF WriteFails, HeadIs
  <2>2. Head(queue).leaf \in Leaves
    BY <1>0, <2>1, DequeueFacts, OperationFields
  <2>3. leaf' \in Leaves \cup {Deleted} /\ view' \in [Generations -> Leaves \cup {Unset}]
    BY <1>0, <1>6, <2>2 DEF WriteFails, TypeOK
  <2> QED BY <1>6, <2>1, <2>3, QuietTurnInv DEF WriteFails
<1>7. CASE RevokeBegins
  BY <1>7, RevokeBeginsInv
<1>8. CASE RevokeRestores
  BY <1>8, RevokeRestoresInv
<1>9. CASE RevokeFails
  BY <1>9, RevokeFailsInv
<1>10. CASE ReleaseTurn
  BY <1>10, ReleaseTurnInv
<1>11. CASE IdleTurn
  BY <1>0, <1>11, QuietTurnInv DEF IdleTurn, HeadIs, TypeOK
<1> QED BY <1>1, <1>2, <1>3, <1>4, <1>5, <1>6, <1>7, <1>8, <1>9, <1>10, <1>11 DEF Turn

LEMMA StutterInv == IndInv /\ UNCHANGED vars => IndInv'
BY DEF IndInv, vars, TypeOK, SingleOwner, FulfilledConsistent, FulfilledMeansRestored,
   QueuedRevocations, PendingHolds, RevokingAtHead, RevokedConsistent, UnopenedUntouched

-----------------------------------------------------------------------------
\* The strengthened invariant holds in every reachable state.
THEOREM Invariance == Spec => []IndInv
<1>1. Init => IndInv
  BY InitInv
<1>2. IndInv /\ [Next]_vars => IndInv'
  BY CallInv, TurnInv, StutterInv DEF Next
<1> QED BY <1>1, <1>2, PTL DEF Spec

\* Every variable of the fence keeps its type.
THEOREM TypeCorrect == Spec => []TypeOK
<1>1. IndInv => TypeOK
  BY DEF IndInv
<1> QED BY <1>1, Invariance, PTL

\* At most one generation may write or is still to be restored, and it is the
\* current one (acquire, executeWrite and revoke of session-write-fence.ts).
THEOREM OneOwner == Spec => []SingleOwner
<1>1. IndInv => SingleOwner
  BY DEF IndInv
<1> QED BY <1>1, Invariance, PTL

\* A revokeTo() that resolved did restore the leaf, whatever release() calls it
\* raced with.
THEOREM HonestRevocation == Spec => []FulfilledMeansRestored
<1>1. IndInv => FulfilledMeansRestored
  BY DEF IndInv, FulfilledConsistent
<1> QED BY <1>1, Invariance, PTL

\* The steps that move the durable leaf, and by whose hand.
LEMMA LeafMoves ==
  ASSUME IndInv, Next, leaf' # leaf
  PROVE  \/ CurrentIs("active")
         \/ status[current] = "revoking" /\ leaf' = recoveryTarget[current]
         \/ leaf' = Deleted
<1>1. CASE Call
  BY <1>1 DEF Call, CallAcquire, CallIdle, CallWrite, CallRevoke, CallRelease
<1>2. CASE Turn
  <2>1. CASE WriteSucceeds \/ WriteFails
    <3>1. status[Head(queue).gen] = "active" /\ current = Head(queue).gen
      BY <2>1 DEF WriteSucceeds, WriteFails, MayWrite
    <3>2. Head(queue).gen \in Generations
      BY <2>1, DequeueFacts, OperationFields DEF WriteSucceeds, WriteFails, HeadIs, IndInv
    <3> QED BY <3>1, <3>2 DEF CurrentIs, Generations, NoGeneration
  <2>2. CASE RevokeRestores \/ RevokeFails
    BY <2>2, RevocationInPlace DEF RevokeRestores, RevokeFails, RestoredLeaf
  <2>3. CASE IdleTurn
    BY <2>3 DEF IdleTurn
  <2>4. ~(AcquireRefused \/ AcquireMismatch \/ AcquireOpens \/ WriteRefused \/ RevokeBegins \/ ReleaseTurn)
    BY DEF AcquireRefused, AcquireMismatch, AcquireOpens, WriteRefused, RevokeBegins, ReleaseTurn
  <2> QED BY <1>2, <2>1, <2>2, <2>3, <2>4 DEF Turn
<1> QED BY <1>1, <1>2 DEF Next

\* From the start of a revocation to the opening of the next generation, the
\* transcript only moves to the recovery target: a cancelled execution that
\* keeps writing is fenced.
THEOREM CancelledFenced == Spec => CancelledWriterIsFenced
<1>1. IndInv /\ [Next]_vars =>
        [\A g \in Generations :
           (status[g] \in {"revoking", "revoked", "revoke_failed"} /\ current = g /\ leaf' # leaf)
             => leaf' \in {recoveryTarget[g], Deleted}]_vars
  <2> SUFFICES ASSUME IndInv, Next, NEW g \in Generations, leaf' # leaf, current = g,
                      status[g] \in {"revoking", "revoked", "revoke_failed"}
               PROVE  leaf' \in {recoveryTarget[g], Deleted}
    OBVIOUS
  <2> QED BY LeafMoves DEF CurrentIs
<1> QED BY <1>1, Invariance, PTL DEF Spec, CancelledWriterIsFenced

\* A leaf that could not be restored keeps everyone else out.
THEOREM UnrestoredBlocks == Spec => UnrestoredLeafBlocks
<1>1. IndInv /\ [Next]_vars =>
        [\A g \in Generations : (status[g] = "revoke_failed" /\ current = g)
           => current' = g /\ leaf' = leaf]_vars
  <2> SUFFICES ASSUME IndInv, Next, NEW g \in Generations, status[g] = "revoke_failed", current = g
               PROVE  current' = g /\ leaf' = leaf
    BY DEF vars
  <2>1. CurrentIs("revoke_failed")
    BY DEF CurrentIs, Generations, NoGeneration
  <2>2. CASE Call
    BY <2>2 DEF Call, CallAcquire, CallIdle, CallWrite, CallRevoke, CallRelease
  <2>3. CASE Turn
    <3>1. CASE AcquireRefused \/ WriteRefused
      BY <3>1 DEF AcquireRefused, WriteRefused
    <3>2. ~AcquireMismatch /\ ~AcquireOpens
      BY <2>1 DEF AcquireMismatch, AcquireOpens, MayOpen
    <3>3. ~WriteSucceeds /\ ~WriteFails
      BY DEF WriteSucceeds, WriteFails, MayWrite
    <3>4. CASE RevokeBegins
      BY <3>4 DEF RevokeBegins
    <3>5. ~RevokeRestores /\ ~RevokeFails
      BY RevocationInPlace DEF RevokeRestores, RevokeFails
    <3>6. CASE ReleaseTurn
      BY <3>6 DEF ReleaseTurn, RevocationOwns
    <3>7. CASE IdleTurn
      BY <2>1, <3>7 DEF IdleTurn
    <3> QED BY <2>3, <3>1, <3>2, <3>3, <3>4, <3>5, <3>6, <3>7 DEF Turn
  <2> QED BY <2>2, <2>3 DEF Next
<1> QED BY <1>1, Invariance, PTL DEF Spec, UnrestoredLeafBlocks

-----------------------------------------------------------------------------
(* What a revoked generation leaves behind.                                *)

\* Whoever is current is the newest generation, and unless its writes may fail late its
\* view is the file's leaf, from its opening to that of its successor.
Settled(g) == view[g] = leaf \/ (status[g] = "revoked" /\ leaf = Deleted)
ViewAgrees ==
  /\ current # NoGeneration => current = nextGeneration - 1
  /\ \A g \in Generations \ LateWrites :
       g = nextGeneration - 1 /\ status[g] \in Holding \cup {"revoked"} => Settled(g)

\* A step that moves neither the leaf nor a view, nor makes anyone hold the leaf.
LEMMA StillAgrees ==
  ASSUME IndInv, ViewAgrees, UNCHANGED <<nextGeneration, view, leaf>>,
         current' \in {current, NoGeneration},
         \A g \in Generations :
           \/ status'[g] = status[g]
           \/ status[g] \in Holding /\ (status'[g] \in Holding \/ status'[g] = "released")
  PROVE  ViewAgrees'
<1>1. current' # NoGeneration => current' = nextGeneration' - 1
  BY DEF ViewAgrees
<1>2. ASSUME NEW g \in Generations \ LateWrites, g = nextGeneration' - 1,
             status'[g] \in Holding \cup {"revoked"}
      PROVE  Settled(g)'
  <2>1. status'[g] = status[g] \/ (status[g] \in Holding /\ status'[g] \in Holding)
    BY <1>2 DEF Holding
  <2>2. Settled(g)
    BY <1>2, <2>1 DEF ViewAgrees
  <2> QED
    BY <2>1, <2>2 DEF Settled, Holding
<1> QED
  BY <1>1, <1>2 DEF ViewAgrees

\* Every step keeps the view of the newest generation at the file's leaf.
LEMMA AgreesStep == IndInv /\ ViewAgrees /\ [Next]_vars => ViewAgrees'
<1> SUFFICES ASSUME IndInv, ViewAgrees, [Next]_vars PROVE ViewAgrees'
  OBVIOUS
<1> USE DEF IndInv
<1>1. CASE UNCHANGED vars
  BY <1>1, StillAgrees DEF vars
<1>2. CASE Call
  BY <1>2, StillAgrees DEF Call, CallAcquire, CallIdle, CallWrite, CallRevoke, CallRelease
<1>3. CASE AcquireRefused \/ WriteRefused
  BY <1>3, StillAgrees DEF AcquireRefused, WriteRefused
<1>4. CASE AcquireMismatch
  <2>1. /\ current \in Generations /\ current = nextGeneration - 1 /\ status[current] = "revoked"
        /\ leaf # Deleted /\ leaf # revokedLeaf[current]
        /\ status' = [status EXCEPT ![current] = "revoke_failed"]
        /\ UNCHANGED <<current, nextGeneration, view, leaf>>
    BY <1>4 DEF AcquireMismatch, MayOpen, LeafMismatch, CurrentIs, ViewAgrees, TypeOK
  <2>2. current \in LateWrites
    BY <2>1 DEF ViewAgrees, Settled, RevokedConsistent
  <2> QED
    BY <2>1, <2>2 DEF ViewAgrees
<1>5. CASE AcquireOpens
  <2>1. /\ nextGeneration \in Generations /\ current' = nextGeneration
        /\ nextGeneration' = nextGeneration + 1 /\ leaf' = leaf
        /\ view' = [view EXCEPT ![nextGeneration] = leaf]
    BY <1>5, BoundAssumption DEF AcquireOpens, TypeOK, Generations
  <2>2. nextGeneration' - 1 = nextGeneration /\ view'[nextGeneration] = leaf'
    BY <2>1 DEF TypeOK, Generations
  <2> QED
    BY <2>1, <2>2 DEF ViewAgrees, Settled
<1>6. CASE WriteSucceeds \/ WriteFails
  <2> DEFINE h == Head(queue).gen
  <2>1. /\ queue # << >> /\ Head(queue).op = "write" /\ status[h] = "active" /\ current = h
        /\ UNCHANGED <<status, current, nextGeneration>>
    BY <1>6 DEF WriteSucceeds, WriteFails, MayWrite, HeadIs
  <2>2. h \in Generations
    BY <2>1, DequeueFacts, OperationFields, <1>6 DEF WriteSucceeds, WriteFails
  <2>3. h = nextGeneration - 1
    BY <2>1, <2>2 DEF ViewAgrees, Generations, NoGeneration
  <2>4. ASSUME h \notin LateWrites
        PROVE  view'[h] = leaf'
    <3>1. view[h] = leaf
      BY <2>1, <2>2, <2>3, <2>4 DEF ViewAgrees, Settled, Holding
    <3>2. CASE WriteSucceeds
      BY <2>2, <3>2 DEF WriteSucceeds, TypeOK
    <3>3. CASE WriteFails
      BY <2>4, <3>1, <3>3 DEF WriteFails
    <3> QED
      BY <1>6, <3>2, <3>3
  <2> QED
    BY <2>1, <2>3, <2>4 DEF ViewAgrees, Settled
<1>7. CASE RevokeBegins
  <2>1. /\ Head(queue).gen \in Generations /\ status[Head(queue).gen] \in Holding
        /\ current = Head(queue).gen
    BY <1>7, RevocationInPlace DEF RevokeBegins
  <2>2. /\ status' = [status EXCEPT ![Head(queue).gen] = "revoking"]
        /\ UNCHANGED <<current, nextGeneration, view, leaf>>
    BY <1>7, <2>1 DEF RevokeBegins, Holding
  <2>3. \A g \in Generations :
          status'[g] = status[g] \/ (status[g] \in Holding /\ status'[g] \in Holding)
    BY <2>1, <2>2 DEF TypeOK, Holding
  <2> QED
    BY <2>2, <2>3, StillAgrees
<1>8. CASE RevokeRestores \/ RevokeFails
  <2> DEFINE h == Head(queue).gen
  <2>1. h \in Generations /\ status[h] = "revoking" /\ current = h
    BY <1>8, RevocationInPlace DEF RevokeRestores, RevokeFails
  <2>2. h = nextGeneration - 1 /\ UNCHANGED <<current, nextGeneration>>
    BY <1>8, <2>1 DEF ViewAgrees, Generations, NoGeneration, RevokeRestores, RevokeFails
  <2>3. ASSUME h \notin LateWrites
        PROVE  view'[h] = leaf'
    <3>1. view[h] = leaf
      BY <2>1, <2>2, <2>3 DEF ViewAgrees, Settled, Holding
    <3>2. CASE RevokeRestores
      BY <2>1, <3>1, <3>2 DEF RevokeRestores, RestoredLeaf, TypeOK
    <3>3. CASE RevokeFails
      BY <2>3, <3>1, <3>3 DEF RevokeFails
    <3> QED
      BY <1>8, <3>2, <3>3
  <2> QED
    BY <2>2, <2>3, <2>1 DEF ViewAgrees, Settled
<1>9. CASE ReleaseTurn
  <2> DEFINE h == Head(queue).gen
  <2>1. /\ UNCHANGED <<nextGeneration, view, leaf>> /\ current' \in {current, NoGeneration}
        /\ status' \in {status, [status EXCEPT ![h] = IF @ = "active" THEN "released" ELSE @]}
    BY <1>9 DEF ReleaseTurn
  <2>2. \A g \in Generations :
          status'[g] = status[g] \/ (status[g] \in Holding /\ status'[g] = "released")
    BY <2>1 DEF TypeOK, Holding
  <2> QED
    BY <2>1, <2>2, StillAgrees
<1>10. CASE IdleTurn
  <2>1. /\ UNCHANGED <<status, current, nextGeneration, view>>
        /\ leaf' = leaf \/ (~CurrentIs("active") /\ ~CurrentIs("revoke_failed") /\ leaf' = Deleted)
        /\ Head(queue).op # "revoke"
    BY <1>10 DEF IdleTurn, HeadIs
  <2>2. CASE leaf' = leaf
    BY <2>1, <2>2, StillAgrees
  <2>3. CASE leaf' # leaf
    <3>1. \A g \in Generations : status[g] \notin Holding
      BY <2>1, <2>3 DEF SingleOwner, RevokingAtHead, Holding, CurrentIs, Generations, NoGeneration
    <3> QED
      BY <2>1, <2>3, <3>1 DEF ViewAgrees, Settled
  <2> QED
    BY <2>2, <2>3
<1> QED
  BY <1>1, <1>2, <1>3, <1>4, <1>5, <1>6, <1>7, <1>8, <1>9, <1>10 DEF Next, Turn

\* A run that follows a revoked one opens at exactly the leaf the revocation restored,
\* however the calls of both were ordered on the chain, unless the revoked run had a write
\* that failed and reached the file all the same (acquire and revoke).
THEOREM SuccessorAtRestoredLeaf == Spec => SuccessorStartsAtRestoredLeaf
<1>1. Init => ViewAgrees
  BY DEF Init, ViewAgrees, Generations
<1>2. Spec => []ViewAgrees
  BY <1>1, AgreesStep, Invariance, PTL DEF Spec
<1>3. IndInv /\ ViewAgrees /\ [Next]_vars =>
        [\A g \in Generations \ LateWrites :
           (nextGeneration' = nextGeneration + 1 /\ g = nextGeneration - 1 /\ status[g] = "revoked")
             => view'[nextGeneration] = recoveryTarget[g]]_vars
  <2> SUFFICES ASSUME IndInv, ViewAgrees, Next, NEW g \in Generations \ LateWrites,
                      nextGeneration' = nextGeneration + 1, g = nextGeneration - 1,
                      status[g] = "revoked"
               PROVE  view'[nextGeneration] = recoveryTarget[g]
    OBVIOUS
  <2>1. nextGeneration' # nextGeneration
    BY DEF IndInv, TypeOK
  <2>2. AcquireOpens
    BY <2>1 DEF Next, Call, CallAcquire, CallIdle, CallWrite, CallRevoke, CallRelease, Turn,
       AcquireRefused, AcquireMismatch, WriteRefused, WriteSucceeds, WriteFails,
       RevokeBegins, RevokeRestores, RevokeFails, ReleaseTurn, IdleTurn
  <2>3. /\ leaf # Deleted /\ nextGeneration \in Generations
        /\ view' = [view EXCEPT ![nextGeneration] = leaf]
    BY <2>2, BoundAssumption DEF AcquireOpens, MayOpen, IndInv, TypeOK, Generations
  <2>4. view[g] = leaf /\ view[g] = recoveryTarget[g]
    BY <2>3 DEF ViewAgrees, Settled, IndInv, RevokedConsistent
  <2> QED
    BY <2>3, <2>4 DEF IndInv, TypeOK
<1> QED
  BY <1>2, <1>3, Invariance, PTL DEF Spec, SuccessorStartsAtRestoredLeaf

=============================================================================
