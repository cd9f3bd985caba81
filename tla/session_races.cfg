SPECIFICATION FairSpec
CONSTANTS
  NoUser = NoUser
  Users = {u1}
  Paired = {u1}
  Threads = {t1, t2}
  HeartRates = {80, 150}
  Movements = {5}
  Calls = {"start", "ping", "stop", "pause", "resume", "confirm", "vitals", "marksafe", "prealert", "press", "tamper", "packet"}
  MayCrash = FALSE
  MayFail = TRUE
  MaxRaise = 2
INVARIANTS
  AlertAccounting
  WarningIsArmed
  AutoResumeOnlyWhenPaused
PROPERTIES
  ArmedWarningEscalates
  AlarmsSettle
  PauseEnds
  TransitionsRespectTable
  RaisedOnlyWhenClear
  KeepsPromise
