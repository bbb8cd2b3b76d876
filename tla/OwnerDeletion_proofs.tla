------------------------- MODULE OwnerDeletion_proofs -------------------------
(***************************************************************************)
(* Type correctness of OwnerDeletion, that a deletion leaves nothing        *)
(* behind, and the order of a removal, for any conversations, tools,       *)
(* number of requests, failures and stops.                                 *)
(***************************************************************************)
EXTENDS OwnerDeletion, TLAPS

-----------------------------------------------------------------------------
(* Who has its turn. *)

\* The parts of TypeOK.
Places == {"idle"} \cup Lanes \cup Working
Chains == lane \in [Lanes -> Seq(Requests)] /\ place \in [Requests -> Places]
Owners ==
  /\ space \in {"present", "gone"}
  /\ control \in [Conversations -> {"none", "live", "tombstone"}]
  /\ turns \in [Conversations -> {"none", "first", "visible", "hidden"}]
  /\ queued \subseteq Conversations
  /\ notes \in BOOLEAN
Records ==
  /\ memory \in [Conversations -> BOOLEAN]
  /\ fence \in [Conversations \cup {Space} -> {"none", "fenced", "tombstone"}]
  /\ journal \in [Conversations -> {"none", "birth", "prepared", "processes_stopped",
                                    "conversation_deleted"}]
  /\ saga \in [phase : Phases, convs : SUBSET Conversations] \cup {NoSaga}
Runs ==
  /\ up \in {"down", "conversations", "spaces", "open"}
  /\ closing \subseteq Conversations /\ deleting \in BOOLEAN
  /\ todo \subseteq Conversations /\ target \in Conversations \cup {Space}
  /\ running \subseteq Conversations /\ procs \subseteq Conversations
  /\ calls \subseteq running \X Requests
  /\ asked \in Nat /\ faults \in Nat /\ crashes \in Nat

\* Where a request of each kind can be.
Kinds ==
  \A r \in Requests :
    /\ r[1] = "birth" =>
         place[r] \in {"idle", "owner", "lifecycle", "exclusive", "create", "first", "commit"}
    /\ r[1] = "turn" => place[r] \in {"idle", "asked", "owner"}
    /\ r[1] = "delete" =>
         place[r] \in {"idle", "lifecycle", "exclusive", "fence", "stop", "remove", "drain",
                      "purge", "purged", "forget"}
    /\ r[1] = "reference" => place[r] \in {"idle", "owner"}
    /\ r[1] = "folder" => place[r] \in {"idle", "workbench", "owner"}
    /\ r[1] = "space" =>
         place[r] \in {"idle", "workbench", "owner", "exclusive", "fence", "stop", "remove",
                      "drain", "clean", "cleaned", "unlink", "unlinked", "purge", "purged"}
    /\ r[1] = "start" => place[r] \in {"idle", "lifecycle", "exclusive"}

First(r, l) == lane[l] # <<>> /\ Head(lane[l]) = r
Inside == Working \ {"asked"}

\* What has its turn of the lease is the first in its chain, and so is alone; only the
\* startup deletes the Space without the lease.
Alone ==
  \A r \in Requests :
    place[r] \in Inside => First(r, "exclusive") \/ (r = SpaceRequest /\ up = "spaces")

\* Before the program is open no user asks for anything, and it waits for its own turn only
\* until the conversations are ready.
Started ==
  /\ up = "down" => Idle /\ running = {} /\ calls = {}
  /\ up # "open" => \A r \in Requests : r[1] \in {"birth", "turn"} => place[r] = "idle"
  /\ up # "conversations" => place[StartRequest] = "idle"

\* A birth and the deletion of the Space hold the Space's admission while they work.
Admits(r) == r[1] \in {"birth", "space"} /\ place[r] \notin {"idle", "workbench", "owner"}
OwnerHeld == \A r \in Requests : up = "open" /\ Admits(r) => First(r, "owner")

Turns == Chains /\ Owners /\ Records /\ Runs /\ Kinds /\ Alone /\ Started /\ OwnerHeld

-----------------------------------------------------------------------------
(* How far each request is. *)

\* No birth goes on under a deletion of the Space.
BirthAlone ==
  \A r \in Requests :
    r[1] = "birth" /\ Admits(r) => saga = NoSaga /\ space = "present"

Births ==
  \A r \in Requests :
    r[1] = "birth" =>
      /\ place[r] \in {"create", "first", "commit"} => journal[r[2]] = "birth"
      /\ place[r] = "first" => control[r[2]] = "live" /\ turns[r[2]] = "none"

\* The place of a deletion agrees with its checkpoint, and it is fenced until it purges.
Deletes ==
  \A r \in Requests :
    LET p == place[r]
        c == r[2] IN
    r[1] = "delete" =>
      /\ p = "fence" => journal[c] \in {"prepared", "processes_stopped"}
      /\ p = "stop" => journal[c] = "prepared"
      /\ p \in {"remove", "drain", "purge", "purged"} => journal[c] = "processes_stopped"
      /\ p = "forget" => journal[c] = "conversation_deleted"
      /\ p \in {"stop", "remove", "drain", "purge"} => fence[c] = "fenced"

Saga ==
  LET p == place[SpaceRequest] IN
  /\ p = "fence" => saga # NoSaga
  /\ p = "stop" => saga.phase = "prepared"
  /\ p \in {"remove", "drain"} => saga.phase = "processes_stopped"
  /\ p \in {"clean", "cleaned"} => saga.phase = "conversations_deleted"
  /\ p \in {"unlink", "unlinked"} => saga.phase = "knowledge_cleaned"
  /\ p \in {"purge", "purged"} => saga.phase = "space_deleted"
  /\ p \in {"stop", "remove", "drain", "clean", "cleaned", "unlink", "unlinked", "purge"} =>
       fence[Space] = "fenced"
  /\ p = "unlinked" \/ saga.phase = "space_deleted" => space = "gone"

\* What is being drained has its tombstone.
Draining ==
  /\ place[SpaceRequest] = "drain" => target \in todo /\ control[target] = "tombstone"
  /\ \A r \in Requests :
       r[1] = "delete" /\ place[r] = "drain" => control[r[2]] = "tombstone"

Progress == BirthAlone /\ Births /\ Deletes /\ Saga /\ Draining

-----------------------------------------------------------------------------
(* What is there. *)

\* What executes shows; what was never there has nothing; a removed conversation whose
\* turns are gone does not execute, and none of its turns waits.
Shown ==
  \A c \in Conversations :
    /\ control[c] = "none" => turns[c] = "none" /\ c \notin running \cup queued
    /\ control[c] = "live" /\ c \in running => turns[c] \in {"first", "visible"}
    /\ control[c] = "live" /\ c \in queued => turns[c] = "visible"
    /\ control[c] = "tombstone" => c \notin queued
    /\ turns[c] = "none" => c \notin running
    /\ turns[c] = "none" /\ control[c] # "tombstone" => ~memory[c]
    /\ turns[c] = "hidden" => c \in Hideable

\* A conversation that shows nothing yet is one that is being born.
Newborn ==
  \A c \in Conversations :
    control[c] = "live" /\ turns[c] = "none" =>
      /\ journal[c] = "birth"
      /\ up # "down" =>
           \E r \in Requests : r[1] = "birth" /\ r[2] = c /\ place[r] = "first"

\* What the saga lists was there, and what it no longer has to remove is removed.
Gone(c) == control[c] = "tombstone" /\ turns[c] = "none"
Removing == saga.phase \in {"prepared", "processes_stopped"}
Listed ==
  /\ \A c \in saga.convs :
       control[c] # "none" /\ (control[c] = "live" => turns[c] # "none")
  /\ todo \subseteq saga.convs /\ (~Removing => todo = {})
  /\ place[SpaceRequest] \in {"fence", "stop", "remove", "drain"} /\ Removing =>
       \A c \in saga.convs \ todo : Gone(c)
  /\ saga # NoSaga /\ ~Removing => \A c \in saga.convs : Gone(c)

\* Once its deletion began, and when the Space is gone, every conversation is listed or
\* shows nothing.
Accounted ==
  saga # NoSaga \/ space = "gone" =>
    \A c \in Conversations :
      control[c] = "live" => c \in saga.convs \/ turns[c] = "hidden"

\* The notes stay away.
Noteless ==
  /\ space = "gone" => saga = NoSaga \/ saga.phase \in {"knowledge_cleaned", "space_deleted"}
  /\ \/ space = "gone"
     \/ saga.phase \in {"knowledge_cleaned", "space_deleted"}
     \/ place[SpaceRequest] = "cleaned"
     => ~notes

\* A removed conversation is on record or has nothing left.
Purged ==
  /\ \A r \in Requests :
       r[1] = "delete" =>
         /\ place[r] \in {"purge", "purged"} => control[r[2]] # "live" /\ turns[r[2]] = "none"
         /\ place[r] = "purged" => ~memory[r[2]]
  /\ \A c \in Conversations :
       /\ journal[c] = "conversation_deleted" =>
            control[c] # "live" /\ turns[c] = "none" /\ ~memory[c]
       /\ c \in saga.convs /\ place[SpaceRequest] = "purged" => ~memory[c]
       /\ control[c] = "tombstone" =>
            Journaled(c) \/ c \in saga.convs \/ (turns[c] = "none" /\ ~memory[c])

\* What is on record is closed.
Closed ==
  /\ up \in {"spaces", "open"} => \A c \in Conversations : Journaled(c) => c \in closing
  /\ \A r \in Requests : r[1] = "delete" /\ place[r] # "idle" => r[2] \in closing
  /\ up = "open" /\ saga # NoSaga => deleting
  /\ place[SpaceRequest] \notin {"idle", "workbench"} => deleting

Disk == Shown /\ Newborn /\ Listed /\ Accounted /\ Noteless /\ Purged /\ Closed

IndInv == Turns /\ Progress /\ Disk

-----------------------------------------------------------------------------
(* What the steps are made of. *)

LEMMA Request ==
  /\ SpaceRequest \in Requests /\ SpaceRequest[1] = "space" /\ SpaceRequest[2] = Space
  /\ StartRequest \in Requests /\ StartRequest[1] = "start"
  /\ \A r \in Requests :
       /\ r[1] \in {"birth", "turn", "delete", "reference", "folder", "space", "start"}
       /\ r[1] = "space" <=> r = SpaceRequest
       /\ r[1] = "start" <=> r = StartRequest
       /\ r[1] \notin {"space", "start"} => r[2] \in Conversations
       /\ r[2] \in Conversations \cup {Space}
  /\ \A q, r \in Requests : q[1] = r[1] /\ q[2] = r[2] => q = r
  /\ Space \notin Conversations
  BY SpaceAssumption DEF Requests, SpaceRequest, StartRequest

\* What a step that moves r does to the chains.
Moved(r, p) ==
  /\ Chains'
  /\ \A q \in Requests : place'[q] = IF q = r THEN p ELSE place[q]
  /\ \A q \in Requests, l \in Lanes : First(q, l) /\ (q # r \/ p # "idle") => First(q, l)'

LEMMA EnterMoves ==
  ASSUME Chains, NEW r \in Requests, NEW l \in Lanes, Enter(r, l)
  PROVE  Moved(r, l)
<1>1. place' \in [Requests -> Places] /\ place' = [place EXCEPT ![r] = l]
  BY DEF Chains, Enter, Places
<1>2. \A m \in Lanes : lane[m] \in Seq(Requests)
  BY DEF Chains
<1>3. \A m \in Lanes : lane'[m] = IF m = l THEN Append(lane[m], r) ELSE lane[m]
  BY DEF Chains, Enter
<1>4. lane' \in [Lanes -> Seq(Requests)]
  BY <1>2 DEF Chains, Enter
<1>5. ASSUME NEW q \in Requests, NEW m \in Lanes, First(q, m)
      PROVE  First(q, m)'
  <2>1. CASE m # l
    BY <1>3, <1>5, <2>1 DEF First
  <2>2. CASE m = l
    <3> DEFINE s == lane[m]
    <3>1. s \in Seq(Requests) /\ s # <<>> /\ Head(s) = q
      BY <1>2, <1>5 DEF First
    <3>2. Append(s, r) # <<>> /\ Head(Append(s, r)) = q
      <4> HIDE DEF s
      <4> QED  BY <3>1
    <3> QED
      BY <1>3, <2>2, <3>2 DEF First
  <2> QED
    BY <2>1, <2>2
<1>6. \A q \in Requests : place'[q] = IF q = r THEN l ELSE place[q]
  BY DEF Chains, Enter
<1> QED
  BY <1>1, <1>4, <1>5, <1>6 DEF Moved, Chains

LEMMA GotoMoves ==
  ASSUME Chains, NEW r \in Requests, NEW p \in Working, Goto(r, p)
  PROVE  Moved(r, p)
  BY DEF Chains, Goto, Places, Moved, First

LEMMA QuitMoves ==
  ASSUME Chains, NEW r \in Requests, Quit(r)
  PROVE  Moved(r, "idle")
<1>1. /\ place' \in [Requests -> Places]
      /\ \A q \in Requests : place'[q] = IF q = r THEN "idle" ELSE place[q]
  BY DEF Chains, Quit, Places
<1>2. \A m \in Lanes : lane[m] \in Seq(Requests)
  BY DEF Chains
<1>3. \A m \in Lanes : After(r, lane[m]) \in Seq(Requests)
  BY <1>2 DEF After
<1>4. lane' \in [Lanes -> Seq(Requests)] /\ \A m \in Lanes : lane'[m] = After(r, lane[m])
  BY <1>3 DEF Quit
<1>5. \A q \in Requests \ {r}, m \in Lanes : First(q, m) => First(q, m)'
  BY <1>4 DEF First, After
<1> QED
  BY <1>1, <1>4, <1>5 DEF Moved, Chains

\* Whoever works is alone, but for the deletion of the Space that the startup resumes: then
\* the deletion of a conversation may work beside it, never a birth.
LEMMA OneInside ==
  ASSUME Kinds, Alone, Started, NEW r \in Requests,
         HasTurn(r, "exclusive") \/ place[r] \in Inside
  PROVE  \A q \in Requests :
           place[q] \in Inside /\ q # r =>
             /\ up = "spaces" /\ r[1] \notin {"birth", "turn"}
             /\ \/ q = SpaceRequest
                \/ r = SpaceRequest /\ q[1] = "delete"
<1> SUFFICES ASSUME NEW q \in Requests, place[q] \in Inside, q # r
             PROVE  /\ up = "spaces" /\ r[1] \notin {"birth", "turn"}
                    /\ \/ q = SpaceRequest
                       \/ r = SpaceRequest /\ q[1] = "delete"
  OBVIOUS
<1>1. up = "spaces" /\ (q = SpaceRequest \/ r = SpaceRequest)
  BY DEF Alone, First, HasTurn
<1>2. q[1] \in {"birth", "delete", "space"}
  BY Request DEF Kinds, Inside, Working
<1>3. q[1] # "birth" /\ (r[1] \in {"birth", "turn"} => place[r] = "idle")
  BY <1>1 DEF Started, Inside, Working
<1>4. r[1] \in {"birth", "turn"} => FALSE
  BY <1>1, <1>3 DEF HasTurn, Inside, Working
<1> QED
  BY <1>1, <1>2, <1>3, <1>4, Request

\* A move keeps it so.
LEMMA AloneMoves ==
  ASSUME Alone, NEW r \in Requests, NEW p \in Places, Moved(r, p), UNCHANGED up,
         p \in Inside => First(r, "exclusive") \/ (r = SpaceRequest /\ up = "spaces")
  PROVE  Alone'
  BY DEF Alone, Moved, Inside, Working, Lanes

LEMMA QuitAlone ==
  ASSUME Chains, Alone, NEW r \in Requests, Quit(r), UNCHANGED up
  PROVE  Alone'
  BY QuitMoves, AloneMoves DEF Places, Inside, Working

\* The same of the Space's admission: no birth works while its deletion does.
LEMMA HeldMoves ==
  ASSUME OwnerHeld, NEW r \in Requests, NEW p \in Places, Moved(r, p), UNCHANGED up,
         up = "open" /\ r[1] \in {"birth", "space"} /\ p \notin {"idle", "workbench", "owner"} =>
           First(r, "owner")
  PROVE  OwnerHeld'
  BY DEF OwnerHeld, Admits, Moved, Lanes

LEMMA BirthOrSpace ==
  ASSUME Started, OwnerHeld, NEW r \in Requests, r[1] = "birth", Admits(r)
  PROVE  place[SpaceRequest] \in {"idle", "workbench", "owner"}
  BY Request DEF Started, Idle, OwnerHeld, Admits, First

\* The records.
LEMMA SagaKind ==
  ASSUME Records
  PROVE  /\ saga # NoSaga => saga.phase \in Phases /\ saga.convs \in SUBSET Conversations
         /\ NoSaga.phase = "none" /\ NoSaga.convs = {}
  BY DEF Records, NoSaga, Phases

LEMMA SagaMoves ==
  ASSUME Records, saga # NoSaga, NEW p \in Phases, SagaTo(p)
  PROVE  /\ saga' \in [phase : Phases, convs : SUBSET Conversations]
         /\ saga'.phase = p /\ saga'.convs = saga.convs /\ saga' # NoSaga /\ journal' = journal
  BY DEF Records, NoSaga, Phases, SagaTo

-----------------------------------------------------------------------------
(* Every step keeps the invariant: for each action, what it leaves alone, then what it *)
(* disturbs.  Whatever works has the lease, so it works alone.                         *)

USE DEF disk, material, memories, journals, gates, chains, sweep, runs, bounds

LEMMA UserAsksStep ==
  ASSUME IndInv, NEW r \in Requests, UserAsks(r)
  PROVE  IndInv'
<1> USE Request, EnterMoves, GotoMoves DEF IndInv, Turns, Progress, Disk, UserAsks, Ask
<1>1. Owners' /\ Records' /\ Shown' /\ Accounted'
  BY DEF Owners, Records, Shown, Accounted
<1>2. Chains' /\ Runs'
  BY DEF Places, Runs, Chains, Lanes, Working, Moved
<1>3. Kinds'
  BY DEF Kinds, Moved, Chains, Lanes, Working
<1>4. Alone'
  BY DEF Alone, First, Inside, Working, Moved, Chains, Lanes
<1>5. Started'
  BY DEF Started, Idle, Moved, Chains, Lanes, Working
<1>6. OwnerHeld'
  BY DEF OwnerHeld, Admits, First, Moved, Chains, Lanes, Working, Owners, Records, Runs
<1>7. BirthAlone'
  BY DEF BirthAlone, Admits, Moved, Chains, Lanes, Working, Owners, Records, Runs
<1>8. Births'
  BY DEF Births, Moved, Chains, Lanes, Working
<1>9. Deletes'
  BY DEF Deletes, Moved, Chains, Lanes, Working
<1>10. Saga'
  BY DEF Saga, Moved, Chains, Lanes, Working
<1>11. Draining'
  BY DEF Draining, Moved, Chains, Lanes, Working
<1>12. Newborn' /\ Listed' /\ Noteless' /\ Purged' /\ Closed'
  BY SMTT(40) DEF Newborn, Listed, Removing, Gone, Owners, Records, Runs, Noteless, Purged,
     Journaled, Closed, Moved, Chains, Lanes, Working
<1> QED
  BY <1>1, <1>2, <1>3, <1>4, <1>5, <1>6, <1>7, <1>8, <1>9, <1>10, <1>11, <1>12

LEMMA AgentCallsStep ==
  ASSUME IndInv, NEW c \in Conversations, NEW r \in Requests, AgentCalls(c, r)
  PROVE  IndInv'
<1> USE Request, EnterMoves, GotoMoves DEF IndInv, Turns, Progress, Disk, AgentCalls, Acts,
   Ask, Calls
<1>1. Owners' /\ Records' /\ Shown' /\ Accounted'
  BY DEF Owners, Records, Shown, Accounted
<1>2. Chains' /\ Runs'
  BY DEF Places, Runs, Chains, Lanes, Working, Moved
<1>3. Kinds'
  BY DEF Kinds, Moved, Chains, Lanes, Working
<1>4. Alone'
  BY DEF Alone, First, Inside, Working, Moved, Chains, Lanes
<1>5. Started'
  BY ToolsAssumption DEF ToolKinds, Started, Idle, Moved, Chains, Lanes, Working
<1>6. OwnerHeld'
  BY DEF OwnerHeld, Admits, First, Moved, Chains, Lanes, Working, Owners, Records, Runs
<1>7. BirthAlone'
  BY DEF BirthAlone, Admits, Moved, Chains, Lanes, Working, Owners, Records, Runs
<1>8. Births'
  BY DEF Births, Moved, Chains, Lanes, Working
<1>9. Deletes'
  BY DEF Deletes, Moved, Chains, Lanes, Working
<1>10. Saga'
  BY DEF Saga, Moved, Chains, Lanes, Working
<1>11. Draining'
  BY DEF Draining, Moved, Chains, Lanes, Working
<1>12. Newborn' /\ Listed' /\ Noteless' /\ Purged' /\ Closed'
  BY SMTT(40) DEF Newborn, Listed, Removing, Gone, Owners, Records, Runs, Noteless, Purged,
     Journaled, Closed, Moved, Chains, Lanes, Working
<1> QED
  BY <1>1, <1>2, <1>3, <1>4, <1>5, <1>6, <1>7, <1>8, <1>9, <1>10, <1>11, <1>12

LEMMA WorkbenchTurnStep ==
  ASSUME IndInv, NEW r \in Requests, WorkbenchTurn(r)
  PROVE  IndInv'
<1> USE Request, EnterMoves, QuitMoves DEF IndInv, Turns, Progress, Disk, WorkbenchTurn,
   HasTurn, Done
<1>1. Moved(r, "owner") \/ Moved(r, "idle")
  BY DEF Chains, Lanes
<1>2. Owners' /\ Records' /\ Shown' /\ Accounted'
  BY DEF Owners, Records, Shown, Accounted
<1>3. Chains' /\ Runs'
  BY DEF Places, Runs, Chains, Lanes, Working, Moved
<1>4. Kinds' /\ Started' /\ OwnerHeld'
  BY DEF Kinds, Started, Idle, OwnerHeld, Admits, First, Owners, Records, Runs, Moved,
     Chains, Lanes, Working
<1>5. Alone'
  BY <1>1, AloneMoves DEF Places, Lanes, Inside, Working
<1>6. BirthAlone' /\ Births' /\ Deletes' /\ Saga' /\ Draining'
  BY DEF BirthAlone, Admits, Owners, Records, Runs, Births, Deletes, Saga, Draining,
     Moved, Chains, Lanes, Working
<1>7. Newborn' /\ Listed' /\ Noteless' /\ Purged' /\ Closed'
  BY DEF Newborn, Listed, Removing, Gone, Owners, Records, Runs, Noteless, Purged,
     Journaled, Closed, Moved, Chains, Lanes, Working
<1> QED
  BY <1>2, <1>3, <1>4, <1>5, <1>6, <1>7

LEMMA AdmissionRefusedStep ==
  ASSUME IndInv, NEW r \in Requests, AdmissionRefused(r)
  PROVE  IndInv'
<1> USE Request, QuitMoves DEF IndInv, Turns, Progress, Disk, AdmissionRefused, HasTurn,
   Refused, Done
<1>1. Owners' /\ Records' /\ Shown' /\ Accounted'
  BY DEF Owners, Records, Shown, Accounted
<1>2. Chains' /\ Runs'
  BY DEF Places, Runs, Chains, Lanes, Working, Moved
<1>3. Kinds'
  BY DEF Kinds, Moved, Chains, Lanes, Working
<1>4. Alone'
  BY SMTT(40) DEF Alone, First, Inside, Working, Moved, Chains, Lanes
<1>5. Started'
  BY DEF Started, Idle, Moved, Chains, Lanes, Working
<1>6. OwnerHeld'
  BY DEF OwnerHeld, Admits, First, Moved, Chains, Lanes, Working, Owners, Records, Runs
<1>7. BirthAlone' /\ Births' /\ Deletes' /\ Saga' /\ Draining'
  BY DEF BirthAlone, Admits, Owners, Records, Runs, Births, Deletes, Saga, Draining,
     Moved, Chains, Lanes, Working
<1>8. Newborn' /\ Listed' /\ Noteless' /\ Purged' /\ Closed'
  BY DEF Newborn, Listed, Removing, Gone, Owners, Records, Runs, Noteless, Purged,
     Journaled, Closed, Moved, Chains, Lanes, Working
<1> QED
  BY <1>1, <1>2, <1>3, <1>4, <1>5, <1>6, <1>7, <1>8

LEMMA ReferenceAddedStep ==
  ASSUME IndInv, NEW r \in Requests, ReferenceAdded(r)
  PROVE  IndInv'
<1> USE Request, QuitMoves DEF IndInv, Turns, Progress, Disk, ReferenceAdded, HasTurn,
   Refused, Done
<1>1. Owners' /\ Records' /\ Shown' /\ Accounted'
  BY DEF Owners, Records, Shown, Accounted
<1>2. Chains' /\ Runs'
  BY DEF Places, Runs, Chains, Lanes, Working, Moved
<1>3. Kinds'
  BY DEF Kinds, Moved, Chains, Lanes, Working
<1>4. Alone'
  BY QuitAlone DEF Done
<1>5. Started'
  BY DEF Started, Idle, Moved, Chains, Lanes, Working
<1>6. OwnerHeld'
  BY DEF OwnerHeld, Admits, First, Moved, Chains, Lanes, Working, Owners, Records, Runs
<1>7. BirthAlone' /\ Births' /\ Deletes' /\ Saga' /\ Draining'
  BY DEF BirthAlone, Admits, Owners, Records, Runs, Births, Deletes, Saga, Draining,
     Moved, Chains, Lanes, Working
<1>8. Newborn' /\ Listed' /\ Noteless' /\ Purged' /\ Closed'
  BY DEF Newborn, Listed, Removing, Gone, Owners, Records, Runs, Noteless, Purged,
     Journaled, Closed, Moved, Chains, Lanes, Working
<1> QED
  BY <1>1, <1>2, <1>3, <1>4, <1>5, <1>6, <1>7, <1>8

LEMMA OwnerTurnStep ==
  ASSUME IndInv, NEW r \in Requests, OwnerTurn(r)
  PROVE  IndInv'
<1> USE Request, EnterMoves DEF IndInv, Turns, Progress, Disk, OwnerTurn, HasTurn, Refused
<1>1. Moved(r, "lifecycle") \/ Moved(r, "exclusive")
  BY DEF Chains, Lanes
<1>2. Owners' /\ Records' /\ Runs' /\ Shown' /\ Accounted'
  BY DEF Owners, Records, Runs, Shown, Accounted
<1>3. Chains'
  BY DEF Chains, Places, Lanes, Working, Moved
<1>4. Kinds' /\ Started'
  BY DEF Kinds, Started, Idle, Moved, Chains, Lanes, Working
<1>5. Alone'
  BY <1>1, AloneMoves DEF Places, Lanes, Inside, Working
<1>6. OwnerHeld'
  BY <1>1, HeldMoves DEF First, Places, Lanes
<1>7. BirthAlone'
  BY DEF BirthAlone, Admits, Owners, Moved, Chains, Lanes, Working
<1>8. Births' /\ Deletes' /\ Saga' /\ Draining'
  BY DEF Births, Deletes, Saga, Draining, Moved, Chains, Lanes, Working
<1>9. Newborn' /\ Listed' /\ Noteless' /\ Purged' /\ Closed'
  BY DEF Newborn, Listed, Removing, Gone, Owners, Records, Runs, Noteless, Purged,
     Journaled, Closed, Moved, Chains, Lanes, Working
<1> QED
  BY <1>2, <1>3, <1>4, <1>5, <1>6, <1>7, <1>8, <1>9

LEMMA LifecycleTurnStep ==
  ASSUME IndInv, NEW r \in Requests, LifecycleTurn(r)
  PROVE  IndInv'
<1> USE Request, EnterMoves DEF IndInv, Turns, Progress, Disk, LifecycleTurn, HasTurn
<1>1. Moved(r, "exclusive")
  BY DEF Chains, Lanes
<1>2. Owners' /\ Records' /\ Runs' /\ Shown' /\ Accounted'
  BY DEF Owners, Records, Runs, Shown, Accounted
<1>3. Chains'
  BY DEF Chains, Places, Lanes, Working, Moved
<1>4. Kinds' /\ Started'
  BY DEF Kinds, Started, Idle, Moved, Chains, Lanes, Working
<1>5. Alone'
  BY <1>1, AloneMoves DEF Places, Lanes, Inside, Working
<1>6. OwnerHeld'
  BY <1>1, HeldMoves DEF OwnerHeld, Admits, Places, Lanes, Started, Kinds
<1>7. BirthAlone'
  BY <1>1 DEF BirthAlone, Admits, Moved
<1>8. Births' /\ Deletes' /\ Saga' /\ Draining'
  BY DEF Births, Deletes, Saga, Draining, Moved, Chains, Lanes, Working
<1>9. Newborn' /\ Listed' /\ Noteless' /\ Purged' /\ Closed'
  BY DEF Newborn, Listed, Removing, Gone, Owners, Records, Runs, Noteless, Purged,
     Journaled, Closed, Moved, Chains, Lanes, Working
<1> QED
  BY <1>2, <1>3, <1>4, <1>5, <1>6, <1>7, <1>8, <1>9

LEMMA TurnAdmittedStep ==
  ASSUME IndInv, NEW r \in Requests, TurnAdmitted(r)
  PROVE  IndInv'
<1> USE Request, EnterMoves, QuitMoves DEF IndInv, Turns, Progress, Disk, TurnAdmitted
<1>1. Owners' /\ Records' /\ Runs' /\ Shown' /\ Accounted'
  BY DEF Owners, Records, Runs, Shown, Accounted
<1>2. Chains'
  BY DEF Chains, Places, Lanes, Working, Moved
<1>3. Kinds'
  BY DEF Kinds, Moved, Chains, Lanes, Working
<1>4. Alone'
  <2>1. Moved(r, "owner") \/ Moved(r, "idle")
    BY DEF Lanes
  <2> QED
    BY <2>1, AloneMoves DEF Places, Lanes, Inside, Working
<1>5. Started'
  BY DEF Started, Idle, Moved, Chains, Lanes, Working
<1>6. OwnerHeld'
  BY DEF OwnerHeld, Admits, First, Moved, Chains, Lanes, Working, Owners, Records, Runs
<1>7. BirthAlone' /\ Births' /\ Deletes' /\ Saga' /\ Draining'
  BY DEF BirthAlone, Admits, Owners, Records, Runs, Births, Deletes, Saga, Draining,
     Moved, Chains, Lanes, Working
<1>8. Newborn' /\ Listed' /\ Noteless' /\ Purged' /\ Closed'
  BY DEF Newborn, Listed, Removing, Gone, Owners, Records, Runs, Noteless, Purged,
     Journaled, Closed, Moved, Chains, Lanes, Working
<1> QED
  BY <1>1, <1>2, <1>3, <1>4, <1>5, <1>6, <1>7, <1>8

LEMMA TurnSubmittedStep ==
  ASSUME IndInv, NEW r \in Requests, TurnSubmitted(r)
  PROVE  IndInv'
<1> USE Request, QuitMoves DEF IndInv, Turns, Progress, Disk, TurnSubmitted, HasTurn,
   Refused
<1>1. Records'
  BY DEF Records
<1>2. Chains' /\ Runs'
  BY DEF Places, Runs, Chains, Lanes, Working, Moved
<1>3. Owners'
  BY DEF Owners
<1>4. Kinds'
  BY DEF Kinds, Moved, Chains, Lanes, Working
<1>5. Alone'
  BY QuitAlone DEF Done
<1>6. Started'
  BY DEF Started, Idle, Moved, Chains, Lanes, Working
<1>7. OwnerHeld'
  BY DEF OwnerHeld, Admits, First, Moved, Chains, Lanes, Working, Owners, Records, Runs
<1>8. BirthAlone' /\ Births' /\ Deletes' /\ Saga' /\ Draining'
  BY DEF BirthAlone, Admits, Owners, Records, Runs, Births, Deletes, Saga, Draining,
     Moved, Chains, Lanes, Working
<1>9. Shown'
  BY DEF Shown, Moved, Chains, Lanes, Working, Owners, Records, Runs
<1>10. Newborn'
  BY DEF Newborn, Moved, Chains, Lanes, Working, Owners, Records, Runs
<1>11. Listed'
  BY SagaKind DEF Listed, Removing, Gone, Owners, Moved, Chains, Lanes, Working
<1>12. Accounted'
  BY DEF Accounted, Moved, Chains, Lanes, Working
<1>13. Noteless'
  BY DEF Noteless, Moved, Chains, Lanes, Working
<1>14. Purged'
  BY DEF Purged, Journaled, Moved, Chains, Lanes, Working, Owners, Records, Runs
<1>15. Closed'
  BY DEF Closed, Journaled, Moved, Chains, Lanes, Working
<1> QED
  BY <1>1, <1>2, <1>3, <1>4, <1>5, <1>6, <1>7, <1>8, <1>9, <1>10, <1>11, <1>12, <1>13,
     <1>14, <1>15

LEMMA BirthBeginsStep ==
  ASSUME IndInv, NEW r \in Requests, BirthBegins(r)
  PROVE  IndInv'
<1> USE Request, GotoMoves, QuitMoves DEF IndInv, Turns, Progress, Disk, BirthBegins,
   HasTurn, Visible
<1>1. First(r, "exclusive")
  BY DEF First
<1>2. \A q \in Requests : place[q] \in Inside => q = r
  BY OneInside DEF HasTurn, Inside, Working
<1>3. journal' \in [Conversations -> {"none", "birth", "prepared", "processes_stopped",
                               "conversation_deleted"}]
  /\ \A d \in Conversations \ {r[2]} : journal'[d] = journal[d]
  BY DEF Records
<1>4. Owners' /\ Runs' /\ Shown' /\ Accounted'
  BY DEF Owners, Runs, Shown, Accounted
<1>5. Chains'
  BY DEF Chains, Places, Lanes, Working, Moved
<1>6. Records'
  BY <1>3 DEF Records
<1>7. Kinds' /\ Started'
  BY DEF Kinds, Started, Idle, Moved, Chains, Lanes, Working
<1>8. Alone'
  BY <1>1, AloneMoves DEF Places, Working
<1>9. OwnerHeld'
  BY DEF OwnerHeld, Admits, First, HasTurn, Kinds, Moved, Chains, Lanes, Working
<1>10. BirthAlone'
  BY DEF BirthAlone, Admits, Moved, Chains, Lanes, Working, Owners, Records, Runs
<1>11. Births'
  BY <1>2 DEF Births, Records, Inside, Working, Moved, Chains, Lanes
<1>12. Deletes'
  BY <1>2, <1>3 DEF Deletes, Kinds, Inside, Working, Moved, Chains, Lanes
<1>13. Saga'
  BY DEF Saga, Moved, Chains, Lanes, Working
<1>14. Draining'
  BY DEF Draining, Moved, Chains, Lanes, Working
<1>15. Newborn'
  BY <1>2, <1>3 DEF Newborn, Started, Idle, Visible, Inside, Working, Moved, Chains, Lanes
<1>16. Listed' /\ Noteless'
  BY DEF Listed, Removing, Gone, Owners, Records, Runs, Noteless, Moved, Chains, Lanes,
     Working
<1>17. Purged'
   BY <1>2, <1>3 DEF Purged, Closed, Journaled, Started, Idle, Visible, Shown, Records,
     Inside, Working, Moved, Chains, Lanes
<1>18. Closed'
  <2>1. \A d \in Conversations : Journaled(d)' => Journaled(d) \/ d \in closing
    BY <1>3 DEF Journaled, Records
  <2>2. /\ \A q \in Requests : place'[q] # "idle" => place[q] # "idle"
        /\ place'[SpaceRequest] = place[SpaceRequest]
    BY DEF Moved, Chains, Lanes, Working
  <2> QED
    BY <2>1, <2>2 DEF Closed
<1> QED
  BY <1>4, <1>5, <1>6, <1>7, <1>8, <1>9, <1>10, <1>11, <1>12, <1>13, <1>14, <1>15, <1>16,
     <1>17, <1>18

LEMMA BirthCreatesStep ==
  ASSUME IndInv, NEW r \in Requests, BirthCreates(r)
  PROVE  IndInv'
<1> USE Request, GotoMoves, QuitMoves DEF IndInv, Turns, Progress, Disk, BirthCreates
<1>1. First(r, "exclusive")
  BY DEF Alone, Inside, Working
<1>2. \A q \in Requests : place[q] \in Inside => q = r
  BY OneInside DEF HasTurn, Inside, Working
<1>3. journal' \in [Conversations -> {"none", "birth", "prepared", "processes_stopped",
                               "conversation_deleted"}]
  /\ \A d \in Conversations \ {r[2]} : journal'[d] = journal[d]
  BY DEF Records
<1>4. Runs'
  BY DEF Runs
<1>5. Chains'
  BY DEF Chains, Places, Lanes, Working, Moved
<1>6. Owners'
  BY DEF Owners, Records
<1>7. Records'
  BY <1>3 DEF Records
<1>8. Kinds'
  BY DEF Kinds, Moved, Chains, Lanes, Working
<1>9. Alone'
  BY DEF Alone, First, Inside, Working, Moved, Chains, Lanes
<1>10. Started'
  BY DEF Started, Idle, Moved, Chains, Lanes, Working
<1>11. OwnerHeld'
  BY HeldMoves DEF OwnerHeld, Admits, Places, Working, Started
<1>12. BirthAlone'
  BY DEF BirthAlone, Admits, Moved, Chains, Lanes, Working, Owners, Records, Runs
<1>13. Births'
  <2>1. \A q \in Requests : place'[q] \in {"create", "first", "commit"} =>
          q = r /\ place'[q] = "first"
    BY <1>2 DEF Inside, Working, Moved, Chains, Lanes
  <2>2. place'[r] = "first" => /\ journal' = journal
                              /\ control[r[2]] = "none" /\ control'[r[2]] = "live"
    BY DEF Owners, Moved, Chains, Working
  <2> QED
    BY <2>1, <2>2 DEF Births, Shown
<1>14. Deletes'
  BY <1>2, <1>3 DEF Deletes, Inside, Working, Moved, Chains, Lanes
<1>15. Saga'
  BY DEF Saga, Moved, Chains, Lanes, Working
<1>16. Draining'
  <2>1. Moved(r, "first") \/ Moved(r, "idle")
    BY DEF Working
  <2>2. \A q \in Requests : place'[q] # "drain"
    BY <1>2, <2>1 DEF Inside, Working, Moved
  <2> QED
    BY <2>2 DEF Draining
<1>17. Shown' /\ Noteless'
  BY DEF Shown, Owners, Records, Runs, Noteless, Moved, Chains, Lanes, Working
<1>18. Newborn'
  <2>1. \A d \in Conversations : control[d] = "live" => turns[d] # "none"
    BY <1>2 DEF Newborn, Started, Idle, Inside, Working
  <2>2. turns[r[2]] = "none" => journal[r[2]] = "birth" /\ journal'[r[2]] \in {"birth", "none"}
    BY DEF Births, Records
  <2> QED
    BY <1>3, <2>1, <2>2 DEF Newborn, Owners, Records, Moved, Chains, Lanes, Working
<1>19. Listed'
  BY SagaKind DEF Listed, Removing, Gone, BirthAlone, Admits
<1>20. Accounted'
  BY DEF Accounted, BirthAlone, Admits
<1>21. Purged'
   BY <1>2, <1>3 DEF Purged, Journaled, Owners, Records, Shown, Births, Inside, Working,
     Moved, Chains, Lanes
<1>22. Closed'
  <2>1. \A d \in Conversations : Journaled(d)' => Journaled(d) \/ d \in closing
    BY <1>3 DEF Journaled, Records
  <2>2. /\ \A q \in Requests : place'[q] # "idle" => place[q] # "idle"
        /\ place'[SpaceRequest] = place[SpaceRequest]
    BY DEF Moved, Chains, Lanes, Working
  <2> QED
    BY <2>1, <2>2 DEF Closed
<1> QED
  BY <1>4, <1>5, <1>6, <1>7, <1>8, <1>9, <1>10, <1>11, <1>12, <1>13, <1>14, <1>15, <1>16,
     <1>17, <1>18, <1>19, <1>20, <1>21, <1>22

LEMMA BirthStartsStep ==
  ASSUME IndInv, NEW r \in Requests, BirthStarts(r)
  PROVE  IndInv'
<1> USE Request, GotoMoves DEF IndInv, Turns, Progress, Disk, BirthStarts
<1>1. First(r, "exclusive")
  BY DEF Alone, Inside, Working
<1>2. \A q \in Requests : place[q] \in Inside => q = r
  BY OneInside DEF HasTurn, Inside, Working
<1>3. Records'
  BY DEF Records
<1>4. Chains' /\ Owners' /\ Runs'
  <2>1. Chains'
    BY DEF Chains, Places, Lanes, Working, Moved
  <2>2. Owners'
    BY DEF Owners
  <2>3. Runs'
    BY DEF Runs
  <2> QED
    BY <2>1, <2>2, <2>3
<1>5. Kinds' /\ Alone' /\ Started'
  <2>1. Moved(r, "commit") /\ "commit" \in Places
    BY DEF Places, Working
  <2>2. Kinds' /\ Started'
    BY DEF Kinds, Started, Idle, Moved, Chains, Lanes, Working
  <2> QED
    BY <1>1, <2>1, <2>2, AloneMoves
<1>6. OwnerHeld'
  <2>1. Moved(r, "commit") /\ "commit" \in Places /\ UNCHANGED up
    BY DEF Places, Working
  <2>2. First(r, "owner")
    BY DEF OwnerHeld, Admits, Started
  <2> QED
    BY <2>1, <2>2, HeldMoves
<1>7. BirthAlone'
  BY DEF BirthAlone, Admits, Moved, Chains, Lanes, Working, Owners, Records, Runs
<1>8. Births'
  BY <1>2 DEF Births, Owners, Inside, Working, Moved, Chains, Lanes
<1>9. Deletes'
  BY DEF Deletes, Moved, Chains, Lanes, Working
<1>10. Saga'
  BY DEF Saga, Moved, Chains, Lanes, Working
<1>11. Draining'
  BY DEF Draining, Moved, Chains, Lanes, Working
<1>12. Shown'
  BY DEF Shown, Births, Owners
<1>13. Newborn'
  BY <1>2 DEF Newborn, Owners, Moved, Chains, Lanes, Working
<1>14. Listed'
  BY SagaKind DEF Listed, Removing, Gone, BirthAlone, Admits
<1>15. Accounted'
  BY DEF Accounted, BirthAlone, Admits, Owners
<1>16. Noteless' /\ Closed'
  BY DEF Noteless, Closed, Journaled, Moved, Chains, Lanes, Working
<1>17. Purged'
  BY <1>2 DEF Purged, Journaled, Births, Owners, Inside, Working, Moved, Chains, Lanes
<1> QED
  BY <1>3, <1>4, <1>5, <1>6, <1>7, <1>8, <1>9, <1>10, <1>11, <1>12, <1>13, <1>14, <1>15,
     <1>16, <1>17

LEMMA BirthCommitsStep ==
  ASSUME IndInv, NEW r \in Requests, BirthCommits(r)
  PROVE  IndInv'
<1> USE Request, QuitMoves DEF IndInv, Turns, Progress, Disk, BirthCommits
<1>1. First(r, "exclusive")
  BY DEF Alone, Inside, Working
<1>2. \A q \in Requests : place[q] \in Inside => q = r
  BY OneInside DEF HasTurn, Inside, Working
<1>3. journal' \in [Conversations -> {"none", "birth", "prepared", "processes_stopped",
                               "conversation_deleted"}]
  /\ \A d \in Conversations \ {r[2]} : journal'[d] = journal[d]
  BY DEF Records
<1>4. Owners' /\ Runs' /\ Shown' /\ Accounted'
  BY DEF Owners, Runs, Shown, Accounted
<1>5. Chains'
  BY DEF Chains, Places, Lanes, Working, Moved
<1>6. Records'
  BY <1>3 DEF Records
<1>7. Kinds'
  BY DEF Kinds, Moved, Chains, Lanes, Working
<1>8. Alone'
  BY QuitAlone DEF Done
<1>9. Started'
  BY DEF Started, Idle, Moved, Chains, Lanes, Working
<1>10. OwnerHeld'
  BY DEF OwnerHeld, Admits, First, Moved, Chains, Lanes, Working, Owners, Records, Runs
<1>11. BirthAlone' /\ Saga' /\ Draining'
  BY DEF BirthAlone, Admits, Owners, Records, Runs, Saga, Draining, Moved, Chains,
     Lanes, Working
<1>12. Births'
  BY <1>2 DEF Births, Inside, Working, Moved, Chains, Lanes
<1>13. Deletes'
  BY <1>2, <1>3 DEF Deletes, Inside, Working, Moved, Chains, Lanes
<1>14. Newborn'
  BY <1>2, <1>3 DEF Newborn, Started, Idle, Inside, Working, Moved, Chains, Lanes
<1>15. Listed' /\ Noteless' /\ Closed'
  BY DEF Listed, Removing, Gone, Owners, Records, Runs, Noteless, Closed, Journaled, Moved,
     Chains, Lanes, Working
<1>16. Purged'
  BY <1>2, <1>3 DEF Purged, Journaled, Births, Records, Inside, Working, Moved, Chains, Lanes
<1> QED
  BY <1>4, <1>5, <1>6, <1>7, <1>8, <1>9, <1>10, <1>11, <1>12, <1>13, <1>14, <1>15, <1>16

LEMMA BirthFailsStep ==
  ASSUME IndInv, NEW r \in Requests, BirthFails(r)
  PROVE  IndInv'
<1> USE Request, QuitMoves DEF IndInv, Turns, Progress, Disk, BirthFails, Fault
<1>1. First(r, "exclusive")
  BY DEF Alone, Inside, Working
<1>2. \A q \in Requests : place[q] \in Inside => q = r
  BY OneInside DEF HasTurn, Inside, Working
<1>3. journal' \in [Conversations -> {"none", "birth", "prepared", "processes_stopped",
                               "conversation_deleted"}]
  /\ \A d \in Conversations \ {r[2]} : journal'[d] = journal[d]
  BY DEF Records
<1>4. Chains' /\ Owners' /\ Runs'
  <2>1. Chains'
    BY DEF Chains, Places, Lanes, Working, Moved
  <2>2. Owners'
    BY DEF Owners
  <2>3. Runs'
    BY DEF Runs
  <2> QED
    BY <2>1, <2>2, <2>3
<1>5. Records'
  BY <1>3 DEF Records
<1>6. Kinds'
  BY DEF Kinds, Moved, Chains, Lanes, Working
<1>7. Alone'
  BY SMTT(40) DEF Alone, First, Inside, Working, Moved, Chains, Lanes
<1>8. Started'
  BY DEF Started, Idle, Moved, Chains, Lanes, Working
<1>9. OwnerHeld'
  BY DEF OwnerHeld, Admits, First, Moved, Chains, Lanes, Working, Owners, Records, Runs
<1>10. BirthAlone' /\ Saga'
  BY DEF BirthAlone, Admits, Owners, Records, Runs, Saga, Moved, Chains, Lanes, Working
<1>11. Births'
  BY <1>2 DEF Births, Inside, Working, Moved, Chains, Lanes
<1>12. Deletes'
  BY <1>2, <1>3 DEF Deletes, Inside, Working, Moved, Chains, Lanes
<1>13. Draining'
  BY <1>2 DEF Draining, Inside, Working, Moved, Chains, Lanes
<1>14. Shown'
  BY DEF Shown, Births, Owners
<1>15. Newborn'
  BY <1>2, <1>3 DEF Newborn, Owners, Started, Idle, Inside, Working, Moved, Chains, Lanes
<1>16. Listed'
  BY SagaKind DEF Listed, Removing, Gone, BirthAlone, Admits
<1>17. Accounted' /\ Noteless' /\ Closed'
  BY DEF Accounted, Noteless, Closed, Journaled, Moved, Chains, Lanes, Working
<1>18. Purged'
   BY <1>2, <1>3 DEF Purged, Journaled, Births, Owners, Records, Inside, Working, Moved,
     Chains, Lanes
<1> QED
  BY <1>4, <1>5, <1>6, <1>7, <1>8, <1>9, <1>10, <1>11, <1>12, <1>13, <1>14, <1>15, <1>16,
     <1>17, <1>18

LEMMA DeleteBeginsStep ==
  ASSUME IndInv, NEW r \in Requests, DeleteBegins(r)
  PROVE  IndInv'
<1> USE Request, GotoMoves DEF IndInv, Turns, Progress, Disk, DeleteBegins, HasTurn,
   Checkpoint
<1>1. First(r, "exclusive")
  BY DEF First
<1>2. /\ \A q \in Requests : place[q] \in Inside => q = r \/ q = SpaceRequest
      /\ r # SpaceRequest
  BY OneInside DEF HasTurn, Inside, Working
<1>3. journal' \in [Conversations -> {"none", "birth", "prepared", "processes_stopped",
                               "conversation_deleted"}]
  /\ \A d \in Conversations \ {r[2]} : journal'[d] = journal[d]
  BY DEF Records
<1>4. Owners' /\ Runs' /\ Shown' /\ Accounted'
  BY DEF Owners, Runs, Shown, Accounted
<1>5. Chains'
  BY DEF Chains, Places, Lanes, Working, Moved
<1>6. Records'
  BY <1>3 DEF Records
<1>7. Kinds'
  BY DEF Kinds, Moved, Chains, Lanes, Working
<1>8. Alone'
  BY DEF Alone, First, Inside, Working, Moved, Chains, Lanes
<1>9. Started'
  BY DEF Started, Idle, Moved, Chains, Lanes, Working
<1>10. OwnerHeld'
  BY SMTT(40) DEF OwnerHeld, Admits, First, Moved, Chains, Lanes, Working, Owners,
     Records, Runs
<1>11. BirthAlone'
  <2>1. \E p \in Working : Moved(r, p)
    BY DEF Working
  <2> QED
    BY <2>1 DEF BirthAlone, Admits, Moved
<1>12. Births'
  <2>1. \E p \in Working : Moved(r, p)
    BY DEF Working
  <2> QED
    BY <1>2, <2>1 DEF Births, Inside, Working, Moved
<1>13. Deletes'
  BY <1>2, <1>3 DEF Deletes, Records, Inside, Working, Moved, Chains, Lanes
<1>14. Saga' /\ Draining'
  BY DEF Saga, Draining, Moved, Chains, Lanes, Working
<1>15. Newborn'
  BY <1>2, <1>3 DEF Newborn, Started, Idle, Inside, Working, Moved, Chains, Lanes
<1>16. Listed' /\ Noteless'
  BY DEF Listed, Removing, Gone, Owners, Records, Runs, Noteless, Moved, Chains, Lanes,
     Working
<1>17. Purged'
  BY <1>2, <1>3 DEF Purged, Journaled, Records, Inside, Working, Moved, Chains, Lanes
<1>18. Closed'
  <2>1. \A d \in Conversations : Journaled(d)' => Journaled(d) \/ d \in closing
    BY <1>3 DEF Journaled, Records, Closed, Started, Idle
  <2>2. /\ \A q \in Requests : place'[q] # "idle" => place[q] # "idle"
        /\ place'[SpaceRequest] = place[SpaceRequest]
    BY DEF Moved, Chains, Lanes, Working
  <2> QED
    BY <2>1, <2>2 DEF Closed
<1> QED
  BY <1>4, <1>5, <1>6, <1>7, <1>8, <1>9, <1>10, <1>11, <1>12, <1>13, <1>14, <1>15, <1>16,
     <1>17, <1>18

LEMMA ProcessesStoppedStep ==
  ASSUME IndInv, NEW r \in Requests, ProcessesStopped(r)
  PROVE  IndInv'
<1> USE Request, GotoMoves DEF IndInv, Turns, Progress, Disk, ProcessesStopped, At,
   Checkpoint
<1>1. First(r, "exclusive")
  BY DEF Alone, Inside, Working
<1>2. /\ \A q \in Requests : place[q] \in Inside => q = r \/ q = SpaceRequest
      /\ r # SpaceRequest
  BY OneInside DEF HasTurn, Inside, Working
<1>3. journal' \in [Conversations -> {"none", "birth", "prepared", "processes_stopped",
                               "conversation_deleted"}]
  /\ \A d \in Conversations \ {r[2]} : journal'[d] = journal[d]
  BY DEF Records
<1>4. Owners' /\ Shown' /\ Accounted'
  BY DEF Owners, Shown, Accounted
<1>5. Chains' /\ Runs'
  BY DEF Places, Runs, Chains, Lanes, Working, Moved
<1>6. Records'
  BY <1>3 DEF Records
<1>7. Kinds'
  BY DEF Kinds, Moved, Chains, Lanes, Working
<1>8. Alone'
  BY DEF Alone, First, Inside, Working, Moved, Chains, Lanes
<1>9. Started'
  BY DEF Started, Idle, Moved, Chains, Lanes, Working
<1>10. OwnerHeld'
  <2>1. \E p \in Working : Moved(r, p)
    BY DEF Working
  <2> QED
    BY <1>2, <2>1 DEF OwnerHeld, Admits, Moved, Lanes
<1>11. BirthAlone'
  <2>1. \A q \in Requests : q[1] = "birth" => place'[q] = place[q]
    BY DEF Moved, Chains, Lanes, Working
  <2> QED
    BY <2>1 DEF BirthAlone, Admits
<1>12. Births'
  BY <1>2, <1>3 DEF Births, Inside, Working, Moved, Chains, Lanes
<1>13. Deletes'
  BY <1>2, <1>3 DEF Deletes, Records, Inside, Working, Moved, Chains, Lanes
<1>14. Saga' /\ Draining'
  BY DEF Saga, Draining, Moved, Chains, Lanes, Working
<1>15. Newborn'
  BY <1>2, <1>3 DEF Newborn, Started, Idle, Inside, Working, Moved, Chains, Lanes
<1>16. Listed' /\ Noteless' /\ Closed'
  BY DEF Listed, Removing, Gone, Owners, Records, Runs, Noteless, Closed, Journaled, Moved,
     Chains, Lanes, Working
<1>17. Purged'
  BY <1>2, <1>3 DEF Purged, Journaled, Records, Inside, Working, Moved, Chains, Lanes
<1> QED
  BY <1>4, <1>5, <1>6, <1>7, <1>8, <1>9, <1>10, <1>11, <1>12, <1>13, <1>14, <1>15, <1>16,
     <1>17

LEMMA PurgeRecordedStep ==
  ASSUME IndInv, NEW r \in Requests, PurgeRecorded(r)
  PROVE  IndInv'
<1> USE Request, GotoMoves DEF IndInv, Turns, Progress, Disk, PurgeRecorded, At, Checkpoint
<1>1. First(r, "exclusive")
  BY DEF Alone, Inside, Working
<1>2. /\ \A q \in Requests : place[q] \in Inside => q = r \/ q = SpaceRequest
      /\ r # SpaceRequest
  BY OneInside DEF HasTurn, Inside, Working
<1>3. journal' \in [Conversations -> {"none", "birth", "prepared", "processes_stopped",
                               "conversation_deleted"}]
  /\ \A d \in Conversations \ {r[2]} : journal'[d] = journal[d]
  BY DEF Records
<1>4. Owners' /\ Runs' /\ Shown' /\ Accounted'
  BY DEF Owners, Runs, Shown, Accounted
<1>5. Chains'
  BY DEF Chains, Places, Lanes, Working, Moved
<1>6. Records'
  BY <1>3 DEF Records
<1>7. Kinds'
  BY DEF Kinds, Moved, Chains, Lanes, Working
<1>8. Alone'
  BY DEF Alone, First, Inside, Working, Moved, Chains, Lanes
<1>9. Started'
  BY DEF Started, Idle, Moved, Chains, Lanes, Working
<1>10. OwnerHeld'
  <2>1. \E p \in Working : Moved(r, p)
    BY DEF Working
  <2> QED
    BY <1>2, <2>1 DEF OwnerHeld, Admits, Moved, Lanes
<1>11. BirthAlone'
  <2>1. \A q \in Requests : q[1] = "birth" => place'[q] = place[q]
    BY DEF Moved, Chains, Lanes, Working
  <2> QED
    BY <2>1 DEF BirthAlone, Admits
<1>12. Births'
  BY <1>2, <1>3 DEF Births, Inside, Working, Moved, Chains, Lanes
<1>13. Deletes'
  BY <1>2, <1>3 DEF Deletes, Records, Inside, Working, Moved, Chains, Lanes
<1>14. Saga' /\ Draining'
  BY DEF Saga, Draining, Moved, Chains, Lanes, Working
<1>15. Newborn'
  BY <1>2, <1>3 DEF Newborn, Started, Idle, Inside, Working, Moved, Chains, Lanes
<1>16. Listed' /\ Noteless' /\ Closed'
  BY DEF Listed, Removing, Gone, Owners, Records, Runs, Noteless, Closed, Journaled, Moved,
     Chains, Lanes, Working
<1>17. Purged'
  BY <1>2, <1>3 DEF Purged, Journaled, Records, Inside, Working, Moved, Chains, Lanes
<1> QED
  BY <1>4, <1>5, <1>6, <1>7, <1>8, <1>9, <1>10, <1>11, <1>12, <1>13, <1>14, <1>15, <1>16,
     <1>17

LEMMA DeleteEndsStep ==
  ASSUME IndInv, NEW r \in Requests, DeleteEnds(r)
  PROVE  IndInv'
<1> USE Request, QuitMoves DEF IndInv, Turns, Progress, Disk, DeleteEnds, Done, Checkpoint
<1>1. First(r, "exclusive")
  BY DEF Alone, Inside, Working
<1>2. /\ \A q \in Requests : place[q] \in Inside => q = r \/ q = SpaceRequest
      /\ r # SpaceRequest
  BY OneInside DEF HasTurn, Inside, Working
<1>3. journal' \in [Conversations -> {"none", "birth", "prepared", "processes_stopped",
                               "conversation_deleted"}]
  /\ \A d \in Conversations \ {r[2]} : journal'[d] = journal[d]
  BY DEF Records
<1>4. Owners' /\ Shown' /\ Accounted'
  BY DEF Owners, Shown, Accounted
<1>5. Chains' /\ Runs'
  BY DEF Places, Runs, Chains, Lanes, Working, Moved
<1>6. Records'
  BY <1>3 DEF Records
<1>7. Kinds' /\ Alone' /\ Started' /\ OwnerHeld'
  <2>1. Kinds'
    BY DEF Kinds, Admits, Owners, Moved, Chains, Lanes, Working
  <2>2. Alone'
    BY QuitAlone DEF Done
  <2>3. Started'
    BY DEF Started, Idle, Inside, Records, Runs, Moved, Chains, Lanes, Working
  <2>4. OwnerHeld'
    BY DEF OwnerHeld, Admits, Owners, Records, Moved, Chains, Lanes, Working
  <2> QED
    BY <2>1, <2>2, <2>3, <2>4
<1>8. BirthAlone' /\ Saga' /\ Draining'
  BY DEF BirthAlone, Admits, Owners, Records, Runs, Saga, Draining, Moved, Chains,
     Lanes, Working
<1>9. Births'
  BY <1>2, <1>3 DEF Births, Inside, Working, Moved, Chains, Lanes
<1>10. Deletes'
  BY <1>2, <1>3 DEF Deletes, Inside, Working, Moved, Chains, Lanes
<1>11. Newborn'
  BY <1>2, <1>3 DEF Newborn, Started, Idle, Inside, Working, Moved, Chains, Lanes
<1>12. Listed' /\ Noteless'
  BY DEF Listed, Removing, Gone, Owners, Records, Runs, Noteless, Moved, Chains, Lanes,
     Working
<1>13. Purged'
   BY <1>2, <1>3 DEF Purged, Deletes, Journaled, Records, Inside, Working, Moved, Chains,
     Lanes
<1>14. Closed'
  BY <1>3 DEF Closed, Journaled, Records, Moved, Chains, Lanes, Working
<1> QED
  BY <1>4, <1>5, <1>6, <1>7, <1>8, <1>9, <1>10, <1>11, <1>12, <1>13, <1>14

LEMMA MemoryFencedStep ==
  ASSUME IndInv, NEW r \in Requests, MemoryFenced(r)
  PROVE  IndInv'
<1> USE Request, GotoMoves DEF IndInv, Turns, Progress, Disk, MemoryFenced, At
<1>1. First(r, "exclusive") \/ (r = SpaceRequest /\ up = "spaces")
  BY DEF Alone, Inside, Working
<1>2. \A q \in Requests :
        place[q] \in Inside => q = r \/ q = SpaceRequest \/ (r = SpaceRequest /\ q[1] = "delete")
  BY OneInside DEF Inside, Working
<1>3. \E p \in {"stop", "remove", "clean", "unlink", "purge"} :
  /\ Moved(r, p)
  /\ r = SpaceRequest \/ (r[1] = "delete" /\ p \in {"stop", "remove"})
  /\ r = SpaceRequest => p = PlaceOf(saga.phase)
  /\ r # SpaceRequest => p = PlaceOf(journal[r[2]])
  <2>1. r = SpaceRequest \/ r[1] = "delete"
    BY DEF Kinds
  <2>2. CASE r = SpaceRequest
    <3>1. saga.phase \in Phases
      BY <2>2, SagaKind DEF Saga
    <3>2. PlaceOf(saga.phase) \in {"stop", "remove", "clean", "unlink", "purge"}
      BY <3>1 DEF Phases, PlaceOf
    <3> QED
      BY <2>2, <3>2 DEF Chains, Working
  <2>3. CASE r # SpaceRequest /\ r[1] = "delete"
    <3>1. journal[r[2]] \in {"prepared", "processes_stopped"}
      BY <2>3 DEF Deletes
    <3>2. PlaceOf(journal[r[2]]) \in {"stop", "remove"}
      BY <3>1 DEF PlaceOf
    <3> QED
      BY <2>3, <3>2 DEF Chains, Working
  <2> QED
    BY <2>1, <2>2, <2>3
<1>4. PICK p \in {"stop", "remove", "clean", "unlink", "purge"} :
       /\ Moved(r, p)
       /\ r = SpaceRequest \/ (r[1] = "delete" /\ p \in {"stop", "remove"})
       /\ r = SpaceRequest => p = PlaceOf(saga.phase)
       /\ r # SpaceRequest => p = PlaceOf(journal[r[2]])
  BY <1>3
<1>5. Owners' /\ Runs' /\ Shown' /\ Accounted'
  BY DEF Owners, Runs, Shown, Accounted
<1>6. Chains'
  BY <1>4 DEF Moved
<1>7. Records'
  BY DEF Records
<1>8. Kinds'
  BY <1>4 DEF Kinds, Moved
<1>9. Alone'
  BY <1>1, <1>4, AloneMoves DEF Places, Working
<1>10. Started'
  BY <1>4 DEF Started, Idle, Moved
<1>11. OwnerHeld'
  BY <1>4, HeldMoves DEF OwnerHeld, Admits, Places, Working, Started, Idle
<1>12. BirthAlone'
  BY <1>4 DEF BirthAlone, Admits, Moved
<1>13. Births'
  BY <1>4 DEF Births, Moved
<1>14. Deletes'
  BY <1>2, <1>4 DEF Deletes, Records, PlaceOf, Inside, Working, Moved
<1>15. Saga'
  BY <1>2, <1>4, SagaKind DEF Saga, Records, Phases, PlaceOf, Inside, Working, Moved
<1>16. Draining'
  BY <1>4 DEF Draining, Moved
<1>17. Newborn'
  BY <1>4 DEF Newborn, Moved
<1>18. Listed'
  BY <1>4 DEF Listed, Removing, Gone, Moved
<1>19. Noteless'
  BY <1>4 DEF Noteless, Moved
<1>20. Purged'
  BY <1>4 DEF Purged, Journaled, Moved
<1>21. Closed'
  BY <1>4 DEF Closed, Journaled, Moved
<1> QED
  BY <1>5, <1>6, <1>7, <1>8, <1>9, <1>10, <1>11, <1>12, <1>13, <1>14, <1>15, <1>16, <1>17,
     <1>18, <1>19, <1>20, <1>21

LEMMA ConversationRemovedStep ==
  ASSUME IndInv, NEW r \in Requests, NEW c \in Conversations, ConversationRemoved(r, c)
  PROVE  IndInv'
<1> USE Request, GotoMoves DEF IndInv, Turns, Progress, Disk, ConversationRemoved, Removed,
   Targets
<1>1. First(r, "exclusive") \/ (r = SpaceRequest /\ up = "spaces")
  BY DEF Alone, Inside, Working
<1>2. \A q \in Requests :
        place[q] \in Inside => q = r \/ q = SpaceRequest \/ (r = SpaceRequest /\ q[1] = "delete")
  BY OneInside DEF Inside, Working
<1>3. r = SpaceRequest \/ (r[1] = "delete" /\ r[2] = c)
  BY DEF Kinds, Targets
<1>4. Moved(r, "remove") \/ Moved(r, "purge") \/ Moved(r, "drain")
  BY DEF Chains, Working
<1>5. Records'
  BY DEF Records
<1>6. Chains' /\ Runs'
  BY DEF Places, Runs, Chains, Lanes, Working, Moved
<1>7. Owners'
  BY DEF Owners
<1>8. Kinds'
  BY DEF Kinds, Moved, Chains, Lanes, Working
<1>9. Alone'
  BY DEF Alone, First, Inside, Working, Moved, Chains, Lanes
<1>10. Started'
  BY DEF Started, Idle, Moved, Chains, Lanes, Working
<1>11. OwnerHeld'
  BY DEF OwnerHeld, Admits, First, Moved, Chains, Lanes, Working, Owners, Records, Runs
<1>12. BirthAlone'
  BY <1>3, <1>4 DEF BirthAlone, Admits, Moved
<1>13. Births'
  BY <1>2, <1>4 DEF Births, Owners, Inside, Working, Moved
<1>14. Deletes' /\ Saga'
  BY DEF Deletes, Saga, Moved, Chains, Lanes, Working
<1>15. Draining'
  <2>1. \A d \in Conversations : control[d] = "tombstone" => control'[d] = "tombstone"
    BY DEF Owners
  <2>2. control'[c] = "tombstone" \/ ~Moved(r, "drain")
    BY DEF Owners, Moved, Chains, Working
  <2>3. CASE r = SpaceRequest
    <3>1. place'[r] = "drain" => target' = c /\ todo' = todo /\ c \in todo
      <4>1. CASE Goto(r, "remove")
        <5>1. place'[r] = "remove"
          BY <4>1, GotoMoves DEF Moved, Working
        <5> QED
          BY <5>1
      <4>2. CASE target' = c /\ UNCHANGED todo
        BY <2>3, <4>2
      <4> QED
        BY <2>3, <4>1, <4>2
    <3> QED
      BY <2>1, <2>2, <2>3, <1>4, <3>1 DEF Draining, Moved
  <2>4. CASE r # SpaceRequest
    <3>1. UNCHANGED sweep /\ r[1] = "delete" /\ r[2] = c
      BY <2>4, <1>3
    <3> QED
      BY <2>1, <2>2, <2>4, <1>4, <3>1 DEF Draining, Moved, Runs
  <2> QED
    BY <2>3, <2>4
<1>16. Shown'
  BY DEF Shown, Owners
<1>17. Newborn'
  BY <1>2, <1>4 DEF Newborn, Owners, Inside, Working, Moved
<1>18. Listed'
  <2>1. control[c] = "none" => c \notin saga.convs
    BY DEF Listed
  <2>2. \/ todo' = todo
        \/ todo' = todo \ {c} /\ c \notin saga.convs
    BY <2>1
  <2>3. \A d \in Conversations : /\ Gone(d) => Gone(d)'
                                 /\ control'[d] # control[d] => control'[d] = "tombstone"
    BY DEF Gone, Owners
  <2>4. place'[SpaceRequest] \in {"fence", "stop", "remove", "drain"} =>
          place[SpaceRequest] \in {"fence", "stop", "remove", "drain"}
    BY <1>2, <1>3, <1>4, <2>1 DEF Moved, Inside, Working
  <2>5. UNCHANGED <<saga, turns>> /\ saga.convs \subseteq Conversations
    BY SagaKind
  <2>6. \A d \in saga.convs :
          control'[d] # "none" /\ (control'[d] = "live" => turns[d] # "none")
    BY <2>3, <2>5 DEF Listed
  <2>7. /\ todo' \subseteq saga.convs /\ (todo = {} => todo' = {})
        /\ saga.convs \ todo' = saga.convs \ todo
    BY <2>2 DEF Listed
  <2> QED
    BY <2>3, <2>4, <2>5, <2>6, <2>7 DEF Listed, Removing
<1>19. Accounted'
  BY DEF Accounted, Owners
<1>20. Noteless' /\ Closed'
  BY DEF Noteless, Closed, Journaled, Moved, Chains, Lanes, Working
<1>21. Purged'
   BY <1>2, <1>3, <1>4 DEF Purged, Journaled, Owners, Shown, Deletes, Listed, Targets,
     Inside, Working, Moved
<1> QED
  BY <1>5, <1>6, <1>7, <1>8, <1>9, <1>10, <1>11, <1>12, <1>13, <1>14, <1>15, <1>16, <1>17,
     <1>18, <1>19, <1>20, <1>21

LEMMA ConversationCleanedStep ==
  ASSUME IndInv, NEW r \in Requests, ConversationCleaned(r)
  PROVE  IndInv'
<1> USE Request, GotoMoves DEF IndInv, Turns, Progress, Disk, ConversationCleaned, Removed
<1>1. First(r, "exclusive") \/ (r = SpaceRequest /\ up = "spaces")
  BY DEF Alone, Inside, Working
<1>2. \A q \in Requests :
        place[q] \in Inside => q = r \/ q = SpaceRequest \/ (r = SpaceRequest /\ q[1] = "delete")
  BY OneInside DEF Inside, Working
<1>3. PICK c \in Conversations :
        /\ c = Target(r) /\ control[c] = "tombstone"
        /\ \/ r = SpaceRequest /\ c \in todo /\ todo' = todo \ {c} /\ Moved(r, "remove")
           \/ r # SpaceRequest /\ r[1] = "delete" /\ c = r[2] /\ UNCHANGED sweep /\ Moved(r, "purge")
        /\ turns' = [turns EXCEPT ![c] = "none"]
  <2>1. CASE r = SpaceRequest
    BY <2>1 DEF Draining, Target, Runs, Working
  <2>2. CASE r # SpaceRequest
    BY <2>2 DEF Draining, Target, Kinds, Working
  <2> QED
    BY <2>1, <2>2
<1>4. Moved(r, "remove") \/ Moved(r, "purge")
  BY <1>3
<1>5. \A d \in Conversations : turns'[d] = IF d = c THEN "none" ELSE turns[d]
  BY <1>3 DEF Owners
<1>6. Records'
  BY DEF Records
<1>7. Chains' /\ Owners' /\ Runs'
  <2>1. Chains'
    BY <1>4 DEF Moved
  <2>2. Owners'
    BY <1>3 DEF Owners
  <2>3. Runs'
    BY <1>3 DEF Runs
  <2> QED
    BY <2>1, <2>2, <2>3
<1>8. Kinds' /\ Alone' /\ Started'
  <2>1. Kinds' /\ Started'
    BY <1>3 DEF Kinds, Started, Idle, Moved
  <2>2. Alone'
    BY <1>1, <1>4, AloneMoves DEF Places, Working
  <2> QED
    BY <2>1, <2>2
<1>9. OwnerHeld'
  BY <1>3 DEF OwnerHeld, Admits, Moved, Lanes
<1>10. BirthAlone'
  BY <1>3 DEF BirthAlone, Admits, Moved
<1>11. Births'
  BY <1>2, <1>3, <1>5 DEF Births, Moved, Inside, Working
<1>12. Deletes' /\ Saga'
  BY <1>3 DEF Deletes, Saga, Moved
<1>13. Draining'
  BY <1>3 DEF Draining, Moved
<1>14. Shown'
  BY <1>3, <1>5 DEF Shown, Target
<1>15. Newborn'
  BY <1>3, <1>5 DEF Newborn, Moved
<1>16. Listed'
  <2>1. \A d \in Conversations : Gone(d) => Gone(d)'
    BY <1>5 DEF Gone
  <2>2. Gone(c)'
    BY <1>3, <1>5 DEF Gone
  <2>3. UNCHANGED <<saga, control>> /\ saga.convs \subseteq Conversations
    BY SagaKind
  <2>4. CASE r # SpaceRequest
    <3>1. todo' = todo /\ place'[SpaceRequest] = place[SpaceRequest]
      BY <1>3, <2>4 DEF Moved
    <3> QED
      BY <1>3, <1>5, <2>1, <2>3, <3>1 DEF Listed, Removing
  <2>5. CASE r = SpaceRequest
    <3>1. Removing /\ todo' = todo \ {c} /\ place[r] = "drain"
      BY <1>3, <2>5 DEF Saga, Removing
    <3> QED
      BY <1>3, <1>5, <2>1, <2>2, <2>3, <2>5, <3>1 DEF Listed, Removing
  <2> QED
    BY <2>4, <2>5
<1>17. Accounted'
  BY <1>3, <1>5 DEF Accounted
<1>18. Noteless' /\ Closed'
  BY <1>3 DEF Noteless, Closed, Journaled, Moved
<1>19. Purged'
  <2>1. \A q \in Requests : place'[q] \in {"purge", "purged"} =>
          place[q] \in {"purge", "purged"} \/ (q = r /\ place'[r] = "purge")
    BY <1>4 DEF Moved
  <2> QED
    BY <1>3, <1>5, <2>1 DEF Purged, Journaled, Moved
<1> QED
  BY <1>6, <1>7, <1>8, <1>9, <1>10, <1>11, <1>12, <1>13, <1>14, <1>15, <1>16, <1>17, <1>18,
     <1>19

LEMMA MemoryPurgedStep ==
  ASSUME IndInv, NEW r \in Requests, MemoryPurged(r)
  PROVE  IndInv'
<1> USE Request, GotoMoves DEF IndInv, Turns, Progress, Disk, MemoryPurged, At
<1>1. First(r, "exclusive") \/ (r = SpaceRequest /\ up = "spaces")
  BY DEF Alone, Inside, Working
<1>2. \A q \in Requests :
        place[q] \in Inside => q = r \/ q = SpaceRequest \/ (r = SpaceRequest /\ q[1] = "delete")
  BY OneInside DEF Inside, Working
<1>3. r = SpaceRequest \/ r[1] = "delete"
  BY DEF Kinds
<1>4. Moved(r, "purged")
  BY DEF Chains, Working
<1>5. \A d \in Conversations : memory'[d] => memory[d] /\ d # r[2] /\ r # SpaceRequest
  BY DEF Records
<1>6. Owners' /\ Runs' /\ Accounted'
  BY DEF Owners, Runs, Accounted
<1>7. Chains' /\ Records'
  BY DEF Places, Records, Phases, NoSaga, Chains, Lanes, Working, Moved
<1>8. Kinds'
  BY <1>3, <1>4 DEF Kinds, Moved
<1>9. Alone'
  BY DEF Alone, First, Inside, Working, Moved, Chains, Lanes
<1>10. Started'
  BY DEF Started, Idle, Moved, Chains, Lanes, Working
<1>11. OwnerHeld'
  BY <1>4, HeldMoves DEF OwnerHeld, Admits, Places, Working, Started, Idle
<1>12. BirthAlone'
  BY <1>3 DEF BirthAlone, Admits, Moved, Chains, Lanes, Working
<1>13. Births' /\ Draining'
  BY DEF Births, Draining, Moved, Chains, Lanes, Working
<1>14. Deletes'
  BY <1>2, <1>3 DEF Deletes, Records, Inside, Working, Moved, Chains, Lanes
<1>15. Saga'
  BY <1>2, <1>3 DEF Saga, Records, Inside, Working, Moved, Chains, Lanes
<1>16. Shown'
  BY <1>5 DEF Shown
<1>17. Newborn' /\ Listed' /\ Noteless' /\ Closed'
  BY DEF Newborn, Listed, Removing, Gone, Owners, Records, Runs, Noteless, Closed,
     Journaled, Moved, Chains, Lanes, Working
<1>18. Purged'
  <2>1. \A q \in Requests : place'[q] \in {"purge", "purged"} =>
          q = r \/ place[q] \in {"purge", "purged"}
    BY <1>4 DEF Moved
  <2> QED
    BY <1>3, <1>4, <1>5, <2>1, SagaKind DEF Purged, Journaled, Moved
<1> QED
  BY <1>6, <1>7, <1>8, <1>9, <1>10, <1>11, <1>12, <1>13, <1>14, <1>15, <1>16, <1>17, <1>18

LEMMA SpaceBeginsStep ==
  ASSUME IndInv, SpaceBegins
  PROVE  IndInv'
<1> USE Request, GotoMoves, QuitMoves DEF IndInv, Turns, Progress, Disk, SpaceBegins,
   TakenUp, HasTurn, Done, Visible
<1>1. First(SpaceRequest, "exclusive")
  BY DEF First
<1>2. \A q \in Requests : place[q] \in Inside => q = SpaceRequest \/ q[1] = "delete"
  BY OneInside
<1>3. \A q \in Requests : q[1] = "birth" => ~Admits(q)
  BY BirthOrSpace DEF Lanes
<1>4. Owners' /\ Shown'
  BY DEF Owners, Shown
<1>5. Chains' /\ Runs'
  BY DEF Places, Runs, Owners, Records, Chains, Lanes, Working, Moved
<1>6. Records'
  BY DEF Records, Phases
<1>7. Kinds' /\ Alone' /\ Started' /\ OwnerHeld'
  BY SMTT(40) DEF Kinds, Alone, First, Inside, Started, Idle, OwnerHeld, Admits, Owners,
     Records,
     Runs, Moved, Chains, Lanes, Working
<1>8. BirthAlone'
  BY <1>3 DEF BirthAlone, Admits, Moved, Chains, Lanes, Working
<1>9. Births' /\ Deletes' /\ Draining'
  BY DEF Births, Deletes, Draining, Moved, Chains, Lanes, Working
<1>10. Saga'
  BY SagaKind DEF Saga, NoSaga, Moved, Chains, Lanes, Working
<1>11. Newborn' /\ Closed'
  <2>1. /\ deleting /\ place'[SpaceRequest] \in {"idle", "fence"}
        /\ \A q \in Requests \ {SpaceRequest} : place'[q] = place[q]
        /\ place'[SpaceRequest] = "idle" => saga' = NoSaga
        /\ place'[SpaceRequest] = "fence" => deleting' = deleting
    <3>1. deleting
      BY DEF Closed, Lanes
    <3>2. \/ Moved(SpaceRequest, "idle") /\ saga = NoSaga /\ saga' = saga
          \/ Moved(SpaceRequest, "fence") /\ deleting' = deleting
      BY DEF Working
    <3> QED
      BY <3>1, <3>2 DEF Moved
  <2>2. Newborn'
    BY <2>1 DEF Newborn
  <2>3. Closed'
    BY <2>1 DEF Closed, Journaled
  <2> QED
    BY <2>2, <2>3
<1>12. Listed'
  <2>1. CASE saga = NoSaga /\ space = "gone"
    BY <2>1, SagaKind DEF Listed, Removing
  <2>2. CASE saga = NoSaga /\ space = "present"
    <3>1. /\ saga' = [phase |-> "prepared", convs |-> {d \in Conversations : Visible(d)}]
          /\ todo' = {d \in Conversations : Visible(d)}
      BY <2>2
    <3>2. saga'.phase = "prepared" /\ todo' = saga'.convs
      BY <3>1
    <3>3. \A d \in saga'.convs : control[d] = "live" /\ turns[d] # "none"
      BY <3>1, <3>2
    <3> QED
      BY <3>2, <3>3, <2>2 DEF Listed, Removing
  <2>3. CASE saga # NoSaga
    <3>1. UNCHANGED <<saga, control, turns>> /\ place'[SpaceRequest] = "fence"
      BY <2>3 DEF Moved, Chains, Working
    <3>2. todo' = IF Removing THEN saga.convs ELSE {}
      BY <2>3 DEF Removing
    <3> QED
      BY <2>3, <3>1, <3>2 DEF Listed, Removing, Gone
  <2> QED
    BY <2>1, <2>2, <2>3 DEF Owners
<1>13. Accounted'
  BY <1>2, SagaKind DEF Accounted, Owners, Newborn, Started, Idle, Inside, Working
<1>14. Noteless'
  BY SagaKind DEF Noteless, Moved, Chains, Lanes, Working
<1>15. Purged'
  BY SagaKind DEF Purged, Journaled, Owners, Moved, Chains, Lanes, Working
<1> QED
  BY <1>4, <1>5, <1>6, <1>7, <1>8, <1>9, <1>10, <1>11, <1>12, <1>13, <1>14, <1>15

LEMMA SpaceProcessesStoppedStep ==
  ASSUME IndInv, SpaceProcessesStopped
  PROVE  IndInv'
<1> USE Request, GotoMoves DEF IndInv, Turns, Progress, Disk, SpaceProcessesStopped, At
<1>1. \A q \in Requests : q[1] = "birth" => ~Admits(q)
  BY BirthOrSpace
<1>2. /\ saga # NoSaga /\ saga' # NoSaga
      /\ saga'.phase = "processes_stopped" /\ saga'.convs = saga.convs
      /\ journal' = journal /\ saga' \in [phase : Phases, convs : SUBSET Conversations]
  BY SagaMoves, SagaKind DEF Saga, Phases
<1>3. Owners' /\ Shown'
  BY DEF Owners, Shown
<1>4. Chains' /\ Runs'
  BY DEF Places, Runs, Chains, Lanes, Working, Moved
<1>5. Records'
  BY <1>2 DEF Records
<1>6. Kinds' /\ Alone' /\ Started' /\ OwnerHeld'
  BY DEF Kinds, Alone, First, Inside, Started, Idle, OwnerHeld, Admits, Owners, Records,
     Runs, Moved, Chains, Lanes, Working
<1>7. BirthAlone'
  <2>1. \A q \in Requests : q[1] = "birth" => place'[q] = place[q]
    BY DEF Moved, Chains, Lanes, Working
  <2> QED
    BY <1>1, <2>1 DEF BirthAlone, Admits
<1>8. Births'
  BY <1>2 DEF Births, Moved, Chains, Lanes, Working
<1>9. Deletes'
  BY <1>2 DEF Deletes, Moved, Chains, Lanes, Working
<1>10. Saga'
  BY <1>2 DEF Saga, Moved, Chains, Lanes, Working
<1>11. Draining'
  BY DEF Draining, Moved, Chains, Lanes, Working
<1>12. Newborn'
  BY <1>2 DEF Newborn, Moved, Chains, Lanes, Working
<1>13. Listed'
  BY <1>2 DEF Listed, Removing, Gone, Saga, Moved, Chains, Lanes, Working
<1>14. Accounted'
  BY <1>2 DEF Accounted
<1>15. Noteless'
  BY <1>2 DEF Noteless, Saga, Moved, Chains, Lanes, Working
<1>16. Purged'
  BY <1>2 DEF Purged, Journaled, Moved, Chains, Lanes, Working
<1>17. Closed'
  BY <1>2 DEF Closed, Journaled, Moved, Chains, Lanes, Working
<1> QED
  BY <1>3, <1>4, <1>5, <1>6, <1>7, <1>8, <1>9, <1>10, <1>11, <1>12, <1>13, <1>14, <1>15,
     <1>16, <1>17

LEMMA SpaceCleanedStep ==
  ASSUME IndInv, SpaceCleaned
  PROVE  IndInv'
<1> USE Request, GotoMoves DEF IndInv, Turns, Progress, Disk, SpaceCleaned, At
<1>1. Records' /\ Runs' /\ Shown' /\ Accounted'
  BY DEF Records, Runs, Shown, Accounted
<1>2. Chains' /\ Owners'
  BY DEF Places, Owners, Chains, Lanes, Working, Moved
<1>3. Kinds'
  BY DEF Kinds, Moved, Chains, Lanes, Working
<1>4. Alone'
  BY DEF Alone, First, Inside, Working, Moved, Chains, Lanes
<1>5. Started'
  BY DEF Started, Idle, Moved, Chains, Lanes, Working
<1>6. OwnerHeld'
  BY DEF OwnerHeld, Admits, First, Moved, Chains, Lanes, Working, Owners, Records, Runs
<1>7. BirthAlone'
  <2>1. \A q \in Requests : q[1] = "birth" => place'[q] = place[q]
    BY DEF Moved, Chains, Lanes, Working
  <2> QED
    BY <2>1 DEF BirthAlone, Admits
<1>8. Births' /\ Deletes' /\ Saga' /\ Draining'
  BY DEF Births, Deletes, Saga, Draining, Moved, Chains, Lanes, Working
<1>9. Newborn' /\ Listed' /\ Noteless' /\ Purged' /\ Closed'
  BY DEF Newborn, Listed, Removing, Gone, Owners, Records, Runs, Noteless, Purged,
     Journaled, Closed, Moved, Chains, Lanes, Working
<1> QED
  BY <1>1, <1>2, <1>3, <1>4, <1>5, <1>6, <1>7, <1>8, <1>9

LEMMA SpaceUnlinkedStep ==
  ASSUME IndInv, SpaceUnlinked
  PROVE  IndInv'
<1> USE Request, GotoMoves DEF IndInv, Turns, Progress, Disk, SpaceUnlinked, At
<1>1. \A q \in Requests : q[1] = "birth" => ~Admits(q)
  BY BirthOrSpace
<1>2. Records' /\ Runs' /\ Shown'
  BY DEF Records, Runs, Shown
<1>3. Chains' /\ Owners'
  BY DEF Places, Owners, Chains, Lanes, Working, Moved
<1>4. Kinds' /\ Alone' /\ Started' /\ OwnerHeld'
  BY SMTT(40) DEF Kinds, Alone, First, Inside, Started, Idle, OwnerHeld, Admits, Owners,
     Records,
     Runs, Moved, Chains, Lanes, Working
<1>5. BirthAlone'
  <2>1. \A q \in Requests : q[1] = "birth" => place'[q] = place[q]
    BY DEF Moved, Chains, Lanes, Working
  <2> QED
    BY <1>1, <2>1 DEF BirthAlone, Admits
<1>6. Births' /\ Deletes' /\ Saga' /\ Draining'
  BY DEF Births, Deletes, Saga, Draining, Moved, Chains, Lanes, Working
<1>7. Newborn' /\ Listed' /\ Purged' /\ Closed'
  BY DEF Newborn, Listed, Removing, Gone, Owners, Records, Runs, Purged, Journaled, Closed,
     Moved, Chains, Lanes, Working
<1>8. Accounted'
  BY SagaKind DEF Accounted, Saga, Phases
<1>9. Noteless'
  BY SagaKind DEF Noteless, Saga, Phases, Moved, Chains, Lanes, Working
<1> QED
  BY <1>2, <1>3, <1>4, <1>5, <1>6, <1>7, <1>8, <1>9

LEMMA SpaceCheckpointStep ==
  ASSUME IndInv, SpaceCheckpoint
  PROVE  IndInv'
<1> USE Request, GotoMoves DEF IndInv, Turns, Progress, Disk, SpaceCheckpoint, At
<1>1. \A q \in Requests : q[1] = "birth" => ~Admits(q)
  BY BirthOrSpace
<1>2. /\ saga # NoSaga /\ saga' # NoSaga /\ saga'.convs = saga.convs /\ journal' = journal
      /\ saga' \in [phase : Phases, convs : SUBSET Conversations]
      /\ \/ /\ Moved(SpaceRequest, "clean") /\ saga'.phase = "conversations_deleted"
            /\ place[SpaceRequest] = "remove" /\ todo = {}
         \/ /\ Moved(SpaceRequest, "unlink") /\ saga'.phase = "knowledge_cleaned"
            /\ place[SpaceRequest] = "cleaned"
         \/ /\ Moved(SpaceRequest, "purge") /\ saga'.phase = "space_deleted"
            /\ place[SpaceRequest] = "unlinked"
  <2>1. saga # NoSaga
    BY SagaKind DEF Saga
  <2> QED
    BY <2>1, SagaMoves DEF Chains, Phases, Working
<1>3. Owners' /\ Runs' /\ Shown'
  BY DEF Owners, Runs, Shown
<1>4. Chains'
  BY DEF Chains, Places, Lanes, Working, Moved
<1>5. Records'
  BY <1>2 DEF Records
<1>6. Kinds'
  BY DEF Kinds, Moved, Chains, Lanes, Working
<1>7. Alone'
  BY SMTT(40) DEF Alone, First, Inside, Working, Moved, Chains, Lanes
<1>8. Started'
  BY DEF Started, Idle, Moved, Chains, Lanes, Working
<1>9. OwnerHeld'
  BY SMTT(40) DEF OwnerHeld, Admits, First, Moved, Chains, Lanes, Working, Owners,
     Records, Runs
<1>10. BirthAlone'
  <2>1. \A q \in Requests : q[1] = "birth" => place'[q] = place[q]
    BY <1>2 DEF Moved
  <2> QED
    BY <1>1, <2>1 DEF BirthAlone, Admits
<1>11. Births'
  BY <1>2 DEF Births, Moved
<1>12. Deletes'
  BY <1>2 DEF Deletes, Moved
<1>13. Saga'
  BY <1>2 DEF Saga, Moved
<1>14. Draining'
  BY DEF Draining, Moved, Chains, Lanes, Working
<1>15. Newborn'
  BY <1>2 DEF Newborn, Moved
<1>16. Listed'
  BY <1>2 DEF Listed, Removing, Gone, Saga, Moved
<1>17. Accounted'
  BY <1>2 DEF Accounted
<1>18. Noteless'
  BY <1>2 DEF Noteless, Saga, Moved
<1>19. Purged'
  BY <1>2 DEF Purged, Journaled, Moved
<1>20. Closed'
  BY <1>2 DEF Closed, Journaled, Moved
<1> QED
  BY <1>3, <1>4, <1>5, <1>6, <1>7, <1>8, <1>9, <1>10, <1>11, <1>12, <1>13, <1>14, <1>15,
     <1>16, <1>17, <1>18, <1>19, <1>20

LEMMA SpaceEndsStep ==
  ASSUME IndInv, SpaceEnds
  PROVE  IndInv'
<1> USE Request, QuitMoves DEF IndInv, Turns, Progress, Disk, SpaceEnds, Done
<1>1. Owners' /\ Shown'
  BY DEF Owners, Shown
<1>2. Chains' /\ Records' /\ Runs'
  BY DEF Places, Records, Phases, NoSaga, Runs, Chains, Lanes, Working, Moved
<1>3. Kinds'
  BY DEF Kinds, Moved, Chains, Lanes, Working
<1>4. Alone'
  BY QuitAlone DEF Done
<1>5. Started'
  BY DEF Started, Idle, Moved, Chains, Lanes, Working
<1>6. OwnerHeld'
  BY DEF OwnerHeld, Admits, First, Moved, Chains, Lanes, Working, Owners, Records, Runs
<1>7. BirthAlone' /\ Births' /\ Deletes' /\ Saga' /\ Draining'
  BY DEF BirthAlone, Admits, Owners, Records, Runs, Births, Deletes, Saga, Draining,
     Moved, Chains, Lanes, Working
<1>8. Newborn' /\ Closed'
  BY DEF Newborn, Closed, Journaled, Moved, Chains, Lanes, Working
<1>9. Listed'
  BY SagaKind DEF Listed, Removing, Gone, Saga, Moved, Chains, Lanes, Working
<1>10. Accounted'
  BY DEF Accounted, Saga, Listed, Removing, Gone, Phases
<1>11. Noteless'
  BY SagaKind DEF Noteless, Saga, Moved, Chains, Lanes, Working
<1>12. Purged'
   BY SagaKind DEF Purged, Journaled, Saga, Listed, Removing, Gone, Moved, Chains, Lanes,
     Working
<1> QED
  BY <1>1, <1>2, <1>3, <1>4, <1>5, <1>6, <1>7, <1>8, <1>9, <1>10, <1>11, <1>12

LEMMA DownStep ==
  ASSUME IndInv, Down, UNCHANGED disk, asked' \in Nat, faults' \in Nat, crashes' \in Nat
  PROVE  IndInv'
<1> USE Request DEF IndInv, Turns, Progress, Disk, Down, Swept
<1>1. Owners' /\ Records' /\ Accounted'
  BY DEF Owners, Records, Accounted
<1>2. Chains'
  BY DEF Chains, Places
<1>3. Runs'
  BY DEF Runs
<1>4. Kinds' /\ Alone' /\ Started' /\ OwnerHeld'
  BY DEF Kinds, Alone, First, Inside, Started, Idle, OwnerHeld, Admits, Working
<1>5. BirthAlone' /\ Births' /\ Deletes' /\ Saga' /\ Draining'
  BY DEF BirthAlone, Admits, Births, Deletes, Saga, Draining
<1>6. Shown' /\ Newborn' /\ Noteless' /\ Purged' /\ Closed'
  BY DEF Shown, Newborn, Noteless, Purged, Journaled, Closed
<1>7. Listed'
  BY SagaKind DEF Listed, Removing, Gone
<1> QED
  BY <1>1, <1>2, <1>3, <1>4, <1>5, <1>6, <1>7

LEMMA FailedStep ==
  ASSUME IndInv, NEW r \in Requests,
         place[r] \in {"stop", "remove", "drain", "clean", "unlink"}, Done(r),
         IF r = SpaceRequest THEN Swept ELSE UNCHANGED sweep, UNCHANGED <<disk, up, gates, running, procs>>,
         asked' \in Nat, faults' \in Nat, crashes' \in Nat
  PROVE  IndInv'
<1> USE Request, QuitMoves DEF IndInv, Turns, Progress, Disk, Done, Swept
<1>1. First(r, "exclusive") \/ (r = SpaceRequest /\ up = "spaces")
  BY DEF Alone, Inside, Working
<1>2. \A q \in Requests :
        place[q] \in Inside => q = r \/ q = SpaceRequest \/ (r = SpaceRequest /\ q[1] = "delete")
  BY OneInside DEF Inside, Working
<1>3. Owners' /\ Records' /\ Shown' /\ Accounted'
  BY DEF Owners, Records, Shown, Accounted
<1>4. Chains' /\ Runs'
  BY DEF Places, Runs, Chains, Lanes, Working, Moved
<1>5. Kinds'
  BY DEF Kinds, Moved, Chains, Lanes, Working
<1>6. Alone'
  BY QuitAlone DEF Done
<1>7. Started'
  BY DEF Started, Idle, Moved, Chains, Lanes, Working
<1>8. OwnerHeld'
  BY DEF OwnerHeld, Admits, First, Moved, Chains, Lanes, Working
<1>9. BirthAlone' /\ Births' /\ Deletes' /\ Saga'
  BY DEF BirthAlone, Admits, Births, Deletes, Saga, Moved, Chains, Lanes, Working
<1>10. Draining'
  BY <1>2 DEF Draining, Inside, Working, Moved, Chains, Lanes
<1>11. Newborn'
  BY <1>2 DEF Newborn, Inside, Working
<1>12. Listed'
  BY <1>2, SagaKind DEF Listed, Removing, Gone, Inside, Working, Moved, Chains, Lanes
<1>13. Noteless' /\ Purged' /\ Closed'
  BY DEF Noteless, Purged, Journaled, Closed, Moved, Chains, Lanes, Working
<1> QED
  BY <1>3, <1>4, <1>5, <1>6, <1>7, <1>8, <1>9, <1>10, <1>11, <1>12, <1>13

LEMMA DeletionFailsStep ==
  ASSUME IndInv, NEW r \in Requests, DeletionFails(r)
  PROVE  IndInv'
<1>1. CASE ~(up = "open" \/ Called(r))
  BY <1>1, DownStep DEF DeletionFails, Fail, Fault, IndInv, Turns, Runs
<1>2. CASE up = "open" \/ Called(r)
  BY <1>2, FailedStep DEF DeletionFails, Fail, Fault, IndInv, Turns, Runs
<1> QED
  BY <1>1, <1>2

LEMMA RunEndsStep ==
  ASSUME IndInv, NEW c \in Conversations, RunEnds(c)
  PROVE  IndInv'
<1> USE Request DEF IndInv, Turns, Progress, Disk, RunEnds, Calls
<1>1. Chains' /\ Records' /\ Kinds' /\ Alone' /\ OwnerHeld' /\ BirthAlone' /\ Deletes' /\
   Saga' /\ Draining' /\ Noteless' /\ Closed'
  BY DEF Chains, Records, Kinds, Alone, First, Inside, OwnerHeld, Admits, BirthAlone,
     Deletes, Saga, Draining, Noteless, Closed, Journaled
<1>2. Owners' /\ Runs'
  BY DEF Owners, Runs
<1>3. Started'
  BY DEF Started, Idle
<1>4. Births'
  BY DEF Births, Owners
<1>5. Shown'
  BY DEF Shown, Owners
<1>6. Newborn'
  BY DEF Newborn, Owners
<1>7. Listed'
  BY SagaKind DEF Listed, Removing, Gone, Owners
<1>8. Accounted'
  BY DEF Accounted, Owners
<1>9. Purged'
  BY DEF Purged, Journaled, Owners
<1> QED
  BY <1>1, <1>2, <1>3, <1>4, <1>5, <1>6, <1>7, <1>8, <1>9

LEMMA RunStartsProcessStep ==
  ASSUME IndInv, NEW c \in Conversations, RunStartsProcess(c)
  PROVE  IndInv'
<1> USE Request DEF IndInv, Turns, Progress, Disk, RunStartsProcess, Acts, Calls
<1>1. Chains' /\ Owners' /\ Records' /\ Kinds' /\ Alone' /\ Started' /\ OwnerHeld' /\
   BirthAlone' /\ Births' /\ Deletes' /\ Saga' /\ Draining' /\ Shown' /\ Newborn' /\ Listed'
   /\ Accounted' /\ Noteless' /\ Purged' /\ Closed'
  BY DEF Chains, Owners, Records, Kinds, Alone, First, Inside, Started, Idle, OwnerHeld,
     Admits, BirthAlone, Births, Deletes, Saga, Draining, Shown, Newborn, Listed,
     Removing, Gone, Accounted, Noteless, Purged, Journaled, Closed
<1>2. Runs'
  BY DEF Runs
<1> QED
  BY <1>1, <1>2

LEMMA RunWritesStep ==
  ASSUME IndInv, NEW c \in Conversations, RunWrites(c)
  PROVE  IndInv'
<1> USE Request DEF IndInv, Turns, Progress, Disk, RunWrites, Acts, Calls
<1>1. Chains' /\ Records' /\ Runs' /\ Kinds' /\ Alone' /\ Started' /\ OwnerHeld' /\
   BirthAlone' /\ Births' /\ Deletes' /\ Saga' /\ Draining' /\ Shown' /\ Newborn' /\ Listed'
   /\ Accounted' /\ Purged' /\ Closed'
  BY DEF Chains, Records, Runs, Kinds, Alone, First, Inside, Started, Idle, OwnerHeld,
     Admits, BirthAlone, Births, Deletes, Saga, Draining, Shown, Newborn, Listed,
     Removing, Gone, Accounted, Purged, Journaled, Closed
<1>2. Owners'
  BY DEF Owners
<1>3. Noteless'
  BY SagaKind DEF Noteless, Accounted, Listed, Removing, Gone, Shown, Saga
<1> QED
  BY <1>1, <1>2, <1>3

LEMMA CaptureStep ==
  ASSUME IndInv, NEW c \in Conversations, Capture(c)
  PROVE  IndInv'
<1> USE Request DEF IndInv, Turns, Progress, Disk, Capture
<1>1. Chains' /\ Owners' /\ Runs' /\ Kinds' /\ Alone' /\ Started' /\ OwnerHeld' /\
   BirthAlone' /\ Births' /\ Deletes' /\ Saga' /\ Draining' /\ Newborn' /\ Listed' /\
   Accounted' /\ Noteless' /\ Closed'
  BY DEF Chains, Owners, Runs, Kinds, Alone, First, Inside, Started, Idle, OwnerHeld,
     Admits, BirthAlone, Births, Deletes, Saga, Draining, Newborn, Listed,
     Removing, Gone, Accounted, Noteless, Closed, Journaled
<1>2. Records'
  BY DEF Records, Phases, NoSaga
<1>3. Shown'
  BY DEF Shown
<1>4. Purged'
  BY SagaKind DEF Purged, Journaled, Records, Saga, Listed, Removing, Gone
<1> QED
  BY <1>1, <1>2, <1>3, <1>4

LEMMA CrashStep ==
  ASSUME IndInv, Crash
  PROVE  IndInv'
  BY DownStep DEF Crash, IndInv, Turns, Runs

LEMMA RecoverStep ==
  ASSUME IndInv, Recover
  PROVE  IndInv'
<1> USE Request DEF IndInv, Turns, Progress, Disk, Recover, Fault
<1>1. Chains' /\ Records' /\ Kinds' /\ Alone' /\ BirthAlone' /\ Deletes' /\ Saga' /\
   Noteless'
  BY DEF Chains, Records, Kinds, Alone, First, Inside, BirthAlone, Admits, Deletes, Saga,
     Noteless
<1>2. Owners'
  BY DEF Owners
<1>3. Runs'
  BY DEF Runs, Owners, Started
<1>4. Started' /\ OwnerHeld'
  BY DEF Started, Idle, OwnerHeld, Admits, First, Owners, Records, Runs
<1>5. Births'
  BY DEF Births, Started, Idle
<1>6. Draining'
  BY DEF Draining, Started, Idle
<1>7. Shown' /\ Newborn' /\ Accounted' /\ Purged'
  BY DEF Shown, Newborn, Accounted, Purged, Journaled
<1>8. Listed'
  BY SagaKind DEF Listed, Removing, Gone, Owners, Started, Idle
<1>9. Closed'
  BY DEF Closed, Journaled, Runs, Started, Idle
<1> QED
  BY <1>1, <1>2, <1>3, <1>4, <1>5, <1>6, <1>7, <1>8, <1>9

LEMMA BirthSettledStep ==
  ASSUME IndInv, NEW c \in Conversations, BirthSettled(c)
  PROVE  IndInv'
<1> USE Request DEF IndInv, Turns, Progress, Disk, BirthSettled, Checkpoint, HasTurn
<1>1. Chains' /\ Owners' /\ Runs' /\ Kinds' /\ Alone' /\ Started' /\ OwnerHeld' /\
   BirthAlone' /\ Saga' /\ Draining' /\ Shown' /\ Listed' /\ Accounted' /\ Noteless'
  BY DEF Chains, Owners, Runs, Kinds, Alone, First, Inside, Started, Idle, OwnerHeld,
     Admits, BirthAlone, Saga, Draining, Shown, Listed, Removing, Gone, Accounted,
     Noteless
<1>2. Records'
  BY DEF Records, Phases, NoSaga
<1>3. up = "conversations"
  BY DEF Started
<1>4. /\ \A d \in Conversations \ {c} : journal'[d] = journal[d]
      /\ journal[c] = "birth" /\ journal'[c] = "none"
  BY DEF Records
<1>5. Births'
  BY <1>3 DEF Births, Started
<1>6. Deletes'
  BY <1>4 DEF Deletes
<1>7. Newborn'
  BY <1>3, <1>4 DEF Newborn, Started
<1>8. Purged' /\ Closed'
  BY <1>3, <1>4 DEF Purged, Journaled, Closed
<1> QED
  BY <1>1, <1>2, <1>5, <1>6, <1>7, <1>8

LEMMA ReadyCalledStep ==
  ASSUME IndInv, ReadyCalled
  PROVE  IndInv'
<1> USE Request, EnterMoves DEF IndInv, Turns, Progress, Disk, ReadyCalled
<1>1. Moved(StartRequest, "lifecycle")
  BY DEF Lanes
<1>2. Owners' /\ Records' /\ Runs' /\ Shown' /\ Accounted'
  BY DEF Owners, Records, Runs, Shown, Accounted
<1>3. Chains' /\ Kinds' /\ Started'
  BY <1>1 DEF Kinds, Started, Idle, Moved
<1>4. Alone'
  BY <1>1, AloneMoves DEF Places, Lanes, Inside, Working
<1>5. OwnerHeld'
  BY DEF OwnerHeld
<1>6. BirthAlone' /\ Births' /\ Deletes' /\ Saga' /\ Draining'
  BY <1>1 DEF BirthAlone, Admits, Births, Deletes, Saga, Draining, Moved
<1>7. Newborn' /\ Listed' /\ Noteless' /\ Purged' /\ Closed'
  BY <1>1 DEF Newborn, Listed, Removing, Gone, Noteless, Purged, Journaled, Closed, Moved
<1> QED
  BY <1>2, <1>3, <1>4, <1>5, <1>6, <1>7

LEMMA DeleteResumedStep ==
  ASSUME IndInv, NEW r \in Requests, DeleteResumed(r)
  PROVE  IndInv'
<1> USE Request DEF IndInv, Turns, Progress, Disk, DeleteResumed, HasTurn
<1>1. up = "conversations" /\ place[StartRequest] = "exclusive"
  BY DEF Started
<1>2. \A q \in Requests : place[q] \notin Inside
  BY <1>1, OneInside DEF Inside, Working
<1>3. \A q \in Requests : place'[q] = IF q = r THEN "exclusive" ELSE place[q]
  BY DEF Chains
<1>4. Owners' /\ Records' /\ Shown' /\ Accounted'
  BY DEF Owners, Records, Shown, Accounted
<1>5. Runs'
  BY DEF Runs
<1>6. Chains'
  <2>1. <<r>> \o lane["exclusive"] \in Seq(Requests)
    BY DEF Chains, Lanes
  <2> QED
    BY <2>1 DEF Chains, Places, Lanes
<1>7. Kinds' /\ Alone' /\ Started' /\ OwnerHeld'
  BY <1>1, <1>2, <1>3 DEF Kinds, Alone, Inside, Working, Started, Idle, OwnerHeld
<1>8. BirthAlone' /\ Births' /\ Deletes' /\ Saga' /\ Draining'
  BY <1>3 DEF BirthAlone, Admits, Births, Deletes, Saga, Draining
<1>9. Newborn' /\ Listed' /\ Noteless' /\ Purged'
  BY <1>3 DEF Newborn, Listed, Removing, Gone, Noteless, Purged, Journaled
<1>10. Closed'
  BY <1>1, <1>3 DEF Closed, Journaled
<1> QED
  BY <1>4, <1>5, <1>6, <1>7, <1>8, <1>9, <1>10

LEMMA ConversationsReadyStep ==
  ASSUME IndInv, ConversationsReady
  PROVE  IndInv'
<1> USE Request, QuitMoves DEF IndInv, Turns, Progress, Disk, ConversationsReady, HasTurn
<1>1. up = "conversations" /\ up' = "spaces" /\ Moved(StartRequest, "idle")
  BY DEF Started
<1>2. Owners' /\ Records' /\ Shown' /\ Accounted'
  BY DEF Owners, Records, Shown, Accounted
<1>3. Runs'
  BY DEF Runs
<1>4. Chains' /\ Kinds' /\ Started' /\ OwnerHeld'
  BY <1>1 DEF Kinds, Started, Idle, OwnerHeld, Moved
<1>5. Alone'
  BY <1>1 DEF Alone, Moved, Inside, Working, Lanes
<1>6. BirthAlone' /\ Births' /\ Deletes' /\ Saga' /\ Draining'
  BY <1>1 DEF BirthAlone, Admits, Births, Deletes, Saga, Draining, Moved
<1>7. Newborn' /\ Listed' /\ Noteless' /\ Purged' /\ Closed'
  BY <1>1 DEF Newborn, Listed, Removing, Gone, Noteless, Purged, Journaled, Closed, Moved
<1> QED
  BY <1>2, <1>3, <1>4, <1>5, <1>6, <1>7

LEMMA SpaceResumedStep ==
  ASSUME IndInv, SpaceResumed
  PROVE  IndInv'
<1> USE Request, GotoMoves DEF IndInv, Turns, Progress, Disk, SpaceResumed, TakenUp
<1>1. Moved(SpaceRequest, "fence")
  BY DEF Working
<1>2. Owners' /\ Records' /\ Shown' /\ Accounted'
  BY DEF Owners, Records, Shown, Accounted
<1>3. Runs'
  BY SagaKind DEF Runs
<1>4. Chains' /\ Kinds' /\ Started' /\ OwnerHeld'
  BY <1>1 DEF Kinds, Started, Idle, OwnerHeld, Moved
<1>5. Alone'
  BY <1>1 DEF Alone, Moved, Inside, Working, Lanes
<1>6. BirthAlone' /\ Births' /\ Deletes' /\ Draining'
  BY <1>1 DEF BirthAlone, Admits, Births, Deletes, Draining, Moved
<1>7. Saga'
  BY <1>1, SagaKind DEF Saga, Moved
<1>8. Listed'
  BY <1>1, SagaKind DEF Listed, Removing, Gone, Moved
<1>9. Newborn' /\ Noteless' /\ Purged' /\ Closed'
  BY <1>1 DEF Newborn, Noteless, Purged, Journaled, Closed, Moved
<1> QED
  BY <1>2, <1>3, <1>4, <1>5, <1>6, <1>7, <1>8, <1>9

LEMMA OpenedStep ==
  ASSUME IndInv, Opened
  PROVE  IndInv'
<1> USE Request DEF IndInv, Turns, Progress, Disk, Opened, Idle
<1>1. Chains' /\ Owners' /\ Records' /\ Kinds' /\ BirthAlone' /\ Births' /\
   Deletes' /\ Saga' /\ Draining' /\ Shown' /\ Listed' /\ Accounted' /\ Noteless' /\ Purged'
  BY DEF Chains, Owners, Records, Kinds, Alone, First, Inside, BirthAlone, Admits, Births,
     Deletes, Saga, Draining, Shown, Listed, Removing, Gone, Accounted, Noteless,
     Purged, Journaled
<1>2. Runs'
  BY DEF Runs
<1>3. Started' /\ OwnerHeld'
  BY DEF Started, Idle, OwnerHeld, Admits, First, Owners, Records, Runs
<1>4. Newborn' /\ Closed'
  BY DEF Newborn, Closed, Journaled
<1>5. Alone'
  BY DEF Alone, First, Inside, Working, Lanes
<1> QED
  BY <1>1, <1>2, <1>3, <1>4, <1>5

LEMMA StutterStep ==
  ASSUME IndInv, UNCHANGED vars
  PROVE  IndInv'
<1> USE Request DEF IndInv, Turns, Progress, Disk, vars
<1>1. Chains' /\ Owners' /\ Records' /\ Runs' /\ Kinds' /\ Alone' /\ Started' /\ OwnerHeld'
   /\ BirthAlone' /\ Births' /\ Deletes' /\ Saga' /\ Draining' /\ Shown' /\ Newborn' /\
   Listed' /\ Accounted' /\ Noteless' /\ Purged' /\ Closed'
  BY DEF Chains, Owners, Records, Runs, Kinds, Alone, First, Inside, Started, Idle,
     OwnerHeld, Admits, BirthAlone, Births, Deletes, Saga, Draining, Shown,
     Newborn, Listed, Removing, Gone, Accounted, Noteless, Purged, Journaled, Closed
<1> QED
  BY <1>1

-----------------------------------------------------------------------------
(* The invariant. *)

LEMMA StartInv ==
  Init => IndInv
<1> SUFFICES ASSUME Init
             PROVE  IndInv
  OBVIOUS
<1> USE Request DEF Init
<1>1. Turns
  <2>1. Chains
    BY DEF Chains, Places
  <2>2. Owners /\ Records /\ Runs
    BY DEF Owners, Records, Runs
  <2>3. Kinds /\ Alone /\ Started /\ OwnerHeld
    BY DEF Kinds, Alone, Inside, Working, Started, Idle, OwnerHeld, Admits
  <2> QED
    BY <2>1, <2>2, <2>3 DEF Turns
<1>2. Progress
  BY DEF Progress, BirthAlone, Admits, Births, Deletes, Saga, Draining, NoSaga
<1>3. Disk
  <2>1. Shown /\ Newborn /\ Listed /\ Accounted
    BY DEF Shown, Newborn, Listed, Accounted, Removing, NoSaga
  <2>2. Noteless /\ Purged /\ Closed
    BY DEF Noteless, Purged, Closed, Journaled, NoSaga
  <2> QED
    BY <2>1, <2>2 DEF Disk
<1> QED
  BY <1>1, <1>2, <1>3 DEF IndInv

LEMMA Kept ==
  ASSUME IndInv, [Next]_vars
  PROVE  IndInv'
<1>1. ASSUME NEW r \in Requests, RequestStep(r)
      PROVE  IndInv'
  <2>1. CASE \/ WorkbenchTurn(r) \/ AdmissionRefused(r) \/ ReferenceAdded(r)
             \/ OwnerTurn(r) \/ LifecycleTurn(r) \/ TurnAdmitted(r) \/ TurnSubmitted(r)
    BY <2>1, WorkbenchTurnStep, AdmissionRefusedStep, ReferenceAddedStep, OwnerTurnStep,
       LifecycleTurnStep, TurnAdmittedStep, TurnSubmittedStep
  <2>2. CASE BirthBegins(r) \/ BirthCreates(r) \/ BirthStarts(r) \/ BirthCommits(r)
    BY <2>2, BirthBeginsStep, BirthCreatesStep, BirthStartsStep, BirthCommitsStep
  <2>3. CASE DeleteBegins(r) \/ ProcessesStopped(r) \/ PurgeRecorded(r) \/ DeleteEnds(r)
    BY <2>3, DeleteBeginsStep, ProcessesStoppedStep, PurgeRecordedStep, DeleteEndsStep
  <2>4. CASE \/ MemoryFenced(r) \/ ConversationCleaned(r) \/ MemoryPurged(r)
             \/ \E c \in Conversations : ConversationRemoved(r, c)
    BY <2>4, MemoryFencedStep, ConversationCleanedStep, MemoryPurgedStep,
       ConversationRemovedStep
  <2>5. CASE \/ SpaceBegins \/ SpaceProcessesStopped \/ SpaceCleaned
             \/ SpaceUnlinked \/ SpaceCheckpoint \/ SpaceEnds
    BY <2>5, SpaceBeginsStep, SpaceProcessesStoppedStep, SpaceCleanedStep, SpaceUnlinkedStep,
       SpaceCheckpointStep, SpaceEndsStep
  <2> QED
    BY <1>1, <2>1, <2>2, <2>3, <2>4, <2>5 DEF RequestStep
<1>2. ASSUME NEW r \in Requests, UserAsks(r) \/ BirthFails(r) \/ DeletionFails(r)
      PROVE  IndInv'
  BY <1>2, UserAsksStep, BirthFailsStep, DeletionFailsStep
<1>3. ASSUME NEW c \in Conversations, NEW r \in Requests, AgentCalls(c, r)
      PROVE  IndInv'
  BY <1>3, AgentCallsStep
<1>4. ASSUME NEW c \in Conversations,
             RunEnds(c) \/ RunStartsProcess(c) \/ RunWrites(c) \/ Capture(c)
      PROVE  IndInv'
  BY <1>4, RunEndsStep, RunStartsProcessStep, RunWritesStep, CaptureStep
<1>5. CASE Crash \/ Startup
  BY <1>5, CrashStep, RecoverStep, ReadyCalledStep, BirthSettledStep, DeleteResumedStep,
     SpaceResumedStep, ConversationsReadyStep, OpenedStep DEF Startup
<1>6. CASE UNCHANGED vars
  BY <1>6, StutterStep
<1> QED
  BY <1>1, <1>2, <1>3, <1>4, <1>5, <1>6 DEF Next

\* Of the deletions and births and of what they remove, for every state.
THEOREM Invariance == Spec => []IndInv
<1> QED
  BY StartInv, Kept, PTL DEF Spec

-----------------------------------------------------------------------------
(* What follows. *)

\* Every state is of the type TypeOK gives, whatever is asked, fails or stops.
THEOREM TypeCorrect == Spec => []TypeOK
<1>1. IndInv => TypeOK
  BY DEF IndInv, Turns, Chains, Owners, Records, Runs, Places, TypeOK
<1> QED
  BY <1>1, Invariance, PTL

\* A deletion that is over leaves nothing that belonged to its owner, and one that is not
\* over is known and keeps its owner closed (deleteSpace and deleteConversation).
THEOREM LeavesNothing == Spec => []NothingLeftBehind
<1>1. ASSUME IndInv
      PROVE  NothingLeftBehind
  <2> USE <1>1, SagaKind DEF IndInv, Turns, Progress, Disk
  <2>1. ASSUME NEW c \in Conversations
        PROVE  /\ control[c] = "none" => turns[c] = "none"
               /\ control[c] \in {"none", "live", "tombstone"}
               /\ turns[c] = "none" => c \notin running
               /\ turns[c] = "none" /\ control[c] # "tombstone" => ~memory[c]
               /\ control[c] = "tombstone" => c \notin queued
    BY DEF Shown, Owners
  <2>2. ASSUME NEW c \in Conversations, saga = NoSaga, control[c] = "tombstone", ~Journaled(c)
        PROVE  turns[c] = "none" /\ ~memory[c]
    BY <2>2 DEF Purged
  <2>3. SpaceLeavesNothing
    <3> SUFFICES ASSUME space = "gone", saga = NoSaga
                 PROVE  /\ ~notes
                        /\ \A c \in {d \in Conversations \ Hideable : ~Journaled(d)} :
                             /\ control[c] # "live" /\ turns[c] = "none"
                             /\ ~memory[c] /\ c \notin running
      BY DEF SpaceLeavesNothing
    <3>1. ~notes
      BY DEF Noteless
    <3>2. ASSUME NEW c \in Conversations \ Hideable, ~Journaled(c)
          PROVE  control[c] # "live" /\ turns[c] = "none" /\ ~memory[c] /\ c \notin running
      <4>1. control[c] # "live"
        BY DEF Accounted, Shown
      <4> QED
        BY <3>2, <4>1, <2>1, <2>2
    <3> QED
      BY <3>1, <3>2
  <2>4. ConversationLeavesNothing
    BY <2>1, <2>2 DEF ConversationLeavesNothing, Journaled
  <2>5. UnfinishedIsKnown
    BY DEF UnfinishedIsKnown, Closed, Newborn
  <2> QED
    BY <2>3, <2>4, <2>5 DEF NothingLeftBehind
<1> QED
  BY <1>1, Invariance, PTL

\* What is removed is removed in order and does not come back (resumeDelete, and resume of
\* the Space's deletion).
LEMMA Ordered ==
  ASSUME IndInv, [Next]_vars
  PROVE  [RemovalStep]_vars
<1> USE DEF IndInv, Turns, Progress, Disk
<1> DEFINE Quiet == UNCHANGED <<space, control, turns, memory>>
<1>1. Quiet => RemovalStep
  BY DEF RemovalStep
<1>2. ASSUME NEW r \in Requests, RequestStep(r)
      PROVE  RemovalStep
  <2>1. CASE WorkbenchTurn(r) \/ AdmissionRefused(r) \/ ReferenceAdded(r)
             \/ OwnerTurn(r) \/ LifecycleTurn(r) \/ TurnAdmitted(r)
     BY <1>1, <2>1 DEF WorkbenchTurn, AdmissionRefused, ReferenceAdded, OwnerTurn,
       LifecycleTurn,
       TurnAdmitted
  <2>2. CASE BirthBegins(r) \/ BirthCommits(r) \/ DeleteBegins(r) \/ ProcessesStopped(r)
             \/ PurgeRecorded(r) \/ DeleteEnds(r)
     BY <1>1, <2>2 DEF BirthBegins, BirthCommits, DeleteBegins, ProcessesStopped,
       PurgeRecorded,
       DeleteEnds
  <2>3. CASE \/ MemoryFenced(r) \/ SpaceBegins \/ SpaceProcessesStopped \/ SpaceCleaned
             \/ SpaceCheckpoint \/ SpaceEnds
    BY <1>1, <2>3 DEF MemoryFenced, SpaceBegins, SpaceProcessesStopped, SpaceCleaned,
       SpaceCheckpoint, SpaceEnds
  <2>4. CASE TurnSubmitted(r)
    BY <2>4 DEF TurnSubmitted, RemovalStep, Owners
  <2>5. CASE BirthCreates(r)
    BY <2>5 DEF BirthCreates, RemovalStep, Owners
  <2>6. CASE BirthStarts(r)
    BY <2>6 DEF BirthStarts, RemovalStep, Owners, Births
  <2>7. CASE ConversationCleaned(r)
    BY <2>7 DEF ConversationCleaned, RemovalStep, Owners
  <2>8. CASE MemoryPurged(r)
    BY <2>8 DEF MemoryPurged, RemovalStep, Records
  <2>9. ASSUME NEW c \in Conversations, ConversationRemoved(r, c)
        PROVE  RemovalStep
    <3>1. \/ Journaled(c) /\ fence[c] = "fenced"
          \/ saga # NoSaga /\ fence[Space] = "fenced"
      <4>1. CASE r = SpaceRequest
        BY <2>9, <4>1, SagaKind DEF ConversationRemoved, Saga
      <4>2. CASE r # SpaceRequest
        <5>1. r[1] = "delete" /\ r[2] = c
          BY <2>9, <4>2, Request DEF ConversationRemoved, Kinds, Targets
        <5> QED
          BY <2>9, <5>1 DEF ConversationRemoved, Deletes, Journaled
      <4> QED
        BY <4>1, <4>2
    <3>2. \A d \in Conversations : control'[d] # control[d] => d = c /\ control'[d] = "tombstone"
      BY <2>9 DEF ConversationRemoved, Owners
    <3> QED
      BY <2>9, <3>1, <3>2 DEF ConversationRemoved, RemovalStep
  <2>10. CASE SpaceUnlinked
    <3>1. saga # NoSaga /\ ~Removing /\ saga.phase = "knowledge_cleaned"
      BY <2>10, SagaKind DEF SpaceUnlinked, At, Saga, Removing
    <3> QED
      BY <2>10, <3>1 DEF SpaceUnlinked, RemovalStep, Noteless, Listed, Gone
  <2> QED
    BY <1>2, <2>1, <2>2, <2>3, <2>4, <2>5, <2>6, <2>7, <2>8, <2>9, <2>10 DEF RequestStep
<1>3. ASSUME NEW r \in Requests, UserAsks(r) \/ BirthFails(r) \/ DeletionFails(r)
      PROVE  RemovalStep
  <2>1. CASE UserAsks(r) \/ DeletionFails(r)
    BY <1>1, <2>1 DEF UserAsks, Ask, DeletionFails
  <2>2. CASE BirthFails(r)
    BY <2>2 DEF BirthFails, RemovalStep, Owners, Births
  <2> QED
    BY <1>3, <2>1, <2>2
<1>4. ASSUME NEW c \in Conversations, NEW r \in Requests, AgentCalls(c, r)
      PROVE  RemovalStep
  BY <1>1, <1>4 DEF AgentCalls, Ask
<1>5. ASSUME NEW c \in Conversations,
             RunEnds(c) \/ RunStartsProcess(c) \/ RunWrites(c) \/ Capture(c)
      PROVE  RemovalStep
  <2>1. CASE RunStartsProcess(c) \/ RunWrites(c)
    BY <1>1, <2>1 DEF RunStartsProcess, RunWrites
  <2>2. CASE RunEnds(c)
    BY <2>2 DEF RunEnds, RemovalStep, Owners
  <2>3. CASE Capture(c)
    BY <2>3 DEF Capture, RemovalStep, Records
  <2> QED
    BY <1>5, <2>1, <2>2, <2>3
<1>6. CASE Crash \/ Startup
  <2>1. CASE Recover
    BY <2>1 DEF Recover, RemovalStep, Owners
  <2>2. CASE \/ Crash \/ ReadyCalled \/ ConversationsReady \/ SpaceResumed \/ Opened
             \/ \E c \in Conversations : BirthSettled(c)
             \/ \E r \in Requests : DeleteResumed(r)
    BY <1>1, <2>2 DEF Crash, ReadyCalled, ConversationsReady, SpaceResumed, Opened,
       BirthSettled, DeleteResumed
  <2> QED
    BY <1>6, <2>1, <2>2 DEF Startup
<1> QED
  BY <1>2, <1>3, <1>4, <1>5, <1>6 DEF Next

THEOREM RemovesInOrder == Spec => RemovalIsOrdered
<1> QED
  BY Invariance, Ordered, PTL DEF Spec, RemovalIsOrdered


=============================================================================
