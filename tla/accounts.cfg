\* Two requests at a time on one account, two challenges, two publishers.
CONSTANTS
  Threads = {t1, t2}
  Challenges = {1, 2}
  Events <- AllEvents
  Followed <- FollowedEvents
  Publishers = {p1, p2}
  BatchSize = 2
  MaxFailures = 1
  Calls = {"register", "create", "confirm", "resend", "verify", "reset"}
  MaxKills = 1
SPECIFICATION FairAccountsSpec
CHECK_DEADLOCK FALSE
INVARIANTS
  AccountsTypeOK
  ExclusiveRows
  SentOncePerFailure
  ConfirmedOncePerOverlap
  CreatedAccounting
PROPERTIES
  VerificationLostToOverlap
  ConfirmationArrives
