---------------------------- MODULE ChainedTurns ----------------------------
(***************************************************************************)
(* What a conversation promises about its turns, whatever the executions,  *)
(* cancellations and activations behind it do: every turn is submitted     *)
(* behind at most one earlier turn, starts only after that one ended, and  *)
(* ends once.  ConversationQueue implements it.                            *)
(***************************************************************************)
CONSTANTS
  Turns,    \* every turn the conversation may get
  NoTurn    \* the predecessor of a first turn

VARIABLES
  status,   \* turn -> absent, queued, running, or how it ended
  pred      \* turn -> the turn it was submitted behind

Ended == {"completed", "failed", "cancelled", "blocked"}

Init ==
  /\ status = [t \in Turns |-> "absent"]
  /\ pred = [t \in Turns |-> NoTurn]

Submit(t, p) ==
  /\ status[t] = "absent"
  /\ p = NoTurn \/ status[p] # "absent"
  /\ status' = [status EXCEPT ![t] = "queued"]
  /\ pred' = [pred EXCEPT ![t] = p]

Start(t) ==
  /\ status[t] = "queued"
  /\ pred[t] # NoTurn => status[pred[t]] \in Ended
  /\ status' = [status EXCEPT ![t] = "running"]
  /\ UNCHANGED pred

End(t, how) ==
  /\ status[t] \in {"queued", "running"}
  /\ status' = [status EXCEPT ![t] = how]
  /\ UNCHANGED pred

Next ==
  \E t \in Turns : \/ \E p \in Turns \cup {NoTurn} : Submit(t, p)
                   \/ Start(t)
                   \/ \E how \in Ended : End(t, how)

Spec == Init /\ [][Next]_<<status, pred>>
=============================================================================
