------------------------------ MODULE Delivery ------------------------------
(***************************************************************************)
(* What the agent promises about the messages it is given: while a run is  *)
(* active it delivers waiting messages to the transcript, each at most     *)
(* once; a message leaves the waiting set only by being delivered or by    *)
(* being discarded.  AgentLoop implements this specification.              *)
(***************************************************************************)
CONSTANT Msgs

VARIABLES
  active,     \* a run is active
  waiting,    \* accepted, not yet delivered
  delivered,  \* in the transcript, or once there
  discarded   \* cleared, or lost by a run that failed

dvars == <<active, waiting, delivered, discarded>>

Init ==
  /\ active = FALSE
  /\ waiting = {}
  /\ delivered = {}
  /\ discarded = {}

Accept(m) ==
  /\ m \notin waiting \cup delivered \cup discarded
  /\ waiting' = waiting \cup {m}
  /\ UNCHANGED <<active, delivered, discarded>>

\* A prompt is accepted by the run it begins.
Begin(S) ==
  /\ ~ active
  /\ S \cap (waiting \cup delivered \cup discarded) = {}
  /\ active' = TRUE
  /\ waiting' = waiting \cup S
  /\ UNCHANGED <<delivered, discarded>>

Deliver(m) ==
  /\ active
  /\ m \in waiting
  /\ waiting' = waiting \ {m}
  /\ delivered' = delivered \cup {m}
  /\ UNCHANGED <<active, discarded>>

Discard(S) ==
  /\ S \subseteq waiting
  /\ waiting' = waiting \ S
  /\ discarded' = discarded \cup S
  /\ UNCHANGED <<active, delivered>>

End ==
  /\ active
  /\ active' = FALSE
  /\ UNCHANGED <<waiting, delivered, discarded>>

Next ==
  \/ \E m \in Msgs : Accept(m) \/ Deliver(m)
  \/ \E S \in SUBSET Msgs : Begin(S) \/ Discard(S)
  \/ End

Spec == Init /\ [][Next]_dvars
=============================================================================
