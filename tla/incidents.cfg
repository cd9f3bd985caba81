\* Two requests at a time on two incidents and one session, which other
\* requests may activate, pause or put in danger.
CONSTANTS
  Threads = {t1, t2}
  Others <- OtherSessions
  MaxIncidents = 2
SPECIFICATION IncidentsSpec
SYMMETRY AnyOrder
CHECK_DEADLOCK FALSE
INVARIANTS
  IncidentsTypeOK
  HistoryIsLegal
  StampsReported
PROPERTIES
  HistoryLostToOverlap
  EmergencyRaisesOrRepeats
