SPECIFICATION Spec
CONSTANTS
  NoUser = NoUser
  Users = {u1}
  Paired = {}
  Threads = {t1}
  HeartRates = {80, 125, 150}
  Movements = {5, 75, 95}
  Calls = {"start", "confirm"}
  MayCrash = FALSE
  MayFail = FALSE
  MaxRaise = 1
PROPERTIES
  AnswerStopsEscalation
