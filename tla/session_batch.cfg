SPECIFICATION Spec
CONSTANTS
  NoUser = NoUser
  Users = {u1, u2}
  Paired = {}
  Threads = {t1}
  HeartRates = {80, 150}
  Movements = {5, 95}
  Calls = {"start", "ping", "press", "bluetooth", "offbody"}
  MayCrash = TRUE
  MayFail = TRUE
  MaxRaise = 1
INVARIANTS
  IInv
PROPERTIES
  NoResponseOnlyIfStillWaiting
  DangerOnlyWithAlert
