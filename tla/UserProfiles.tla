----------------------------- MODULE UserProfiles -----------------------------
(***************************************************************************)
(* How a user gets a profile in the user service. The auth service sends   *)
(* user.created once (Accounts); UserCreatedConsumer makes the profile     *)
(* unless there is one. A consumer killed before it commits its offset is  *)
(* given the message again, and so is one whose attempt fails: as in       *)
(* SosDelivery, no serializer is configured with which @RetryableTopic     *)
(* could publish the message to a retry topic or to the dead letters.      *)
(***************************************************************************)
EXTENDS Naturals, FiniteSets

CONSTANTS
  Users,
  Phones,
  Registered  \* the users whose message is handled at the start (a bound)

ASSUME ProfilesAssumption == Registered \subseteq Users

VARIABLES
  profile,  \* whether each user has a row in user_profiles
  own,      \* the phone in that row, or else in the message
  waiting   \* the users whose message waits in the topic

profileVars == <<profile, own, waiting>>

ProfilesTypeOK ==
  /\ profile \in [Users -> BOOLEAN]
  /\ own \in [Users -> Phones]
  /\ waiting \subseteq Users

ProfilesInit ==
  /\ profile = [u \in Users |-> u \in Registered]
  /\ own \in [Users -> Phones]
  /\ waiting = Users \ Registered

\* Find or create.
Consume(u) ==
  /\ u \in waiting
  /\ profile' = [profile EXCEPT ![u] = TRUE]
  /\ waiting' = waiting \ {u}
  /\ UNCHANGED own

\* Mutant: the consumer catches the exception.
Swallowed(u) == waiting' = waiting \ {u}

NotForwarded(u) == waiting' = waiting

\* The attempt fails or is killed, before or after the profile is made.
FailedAttempt(u) ==
  /\ u \in waiting
  /\ profile' = [profile EXCEPT ![u] = TRUE] \/ profile' = profile
  /\ NotForwarded(u)
  /\ UNCHANGED own

ConsumerStep == \E u \in Users : Consume(u) \/ FailedAttempt(u)

\* A user whose message arrived has a profile, or the topic still holds the
\* message for another attempt, whatever failed or was killed when.
ProfileAccounting ==
  \A u \in Users : profile[u] \/ u \in waiting
================================================================================
