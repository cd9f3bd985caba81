---------------------------- MODULE SessionStates ----------------------------
(***************************************************************************)
(* The states of a user's safety session and the transitions that          *)
(* StateTransitionValidator lets SessionStateMachineService apply.         *)
(***************************************************************************)

Status == {"ACTIVE", "SOFT_MONITORING", "WARNING", "IN_DANGER", "ENDED",
           "RECOVERY_PENDING", "PAUSED_MANUAL", "PAUSED_OFF_BODY"}

\* A user with no row in active_safety_sessions (the status is null).
NoSession == "NO_SESSION"

\* The EnumMap of the validator.
AllowedTransitions ==
  [ACTIVE           |-> {"SOFT_MONITORING", "WARNING", "IN_DANGER",
                         "PAUSED_MANUAL", "PAUSED_OFF_BODY", "ENDED"},
   WARNING          |-> {"ACTIVE", "IN_DANGER"},
   IN_DANGER        |-> {"RECOVERY_PENDING", "ENDED", "ACTIVE"},
   ENDED            |-> {"ACTIVE"},
   RECOVERY_PENDING |-> {"SOFT_MONITORING", "IN_DANGER", "ENDED"},
   SOFT_MONITORING  |-> {"ACTIVE", "WARNING", "IN_DANGER"},
   PAUSED_MANUAL    |-> {"ACTIVE", "ENDED"},
   PAUSED_OFF_BODY  |-> {"ACTIVE", "IN_DANGER", "ENDED"}]

\* transitionState succeeds: the bootstrap of a new session, or a move the
\* table lists. A move to the same state is not listed, hence rejected.
CanMove(from, to) ==
  \/ from = NoSession /\ to = "ACTIVE"
  \/ from \in Status /\ to \in AllowedTransitions[from]
==============================================================================
