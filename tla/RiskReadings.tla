----------------------------- MODULE RiskReadings -----------------------------
(***************************************************************************)
(* Readings of one wearable that only ever get more alarming: the heart    *)
(* rate or the movement rises by one. Checks the rules of RiskRules, each  *)
(* written with thresholds of its own, against one another over every      *)
(* reading within the bounds.                                              *)
(***************************************************************************)
EXTENDS RiskRules

CONSTANTS MinHeartRate, MaxHeartRate, MaxMovement

ASSUME ReadingAssumption ==
  /\ MinHeartRate \in Int
  /\ MaxHeartRate \in Int
  /\ MaxMovement \in Int

VARIABLES hr, mv, worn, bluetooth, preAlert

reading == <<hr, mv, worn, bluetooth, preAlert>>

Init ==
  /\ hr = MinHeartRate
  /\ mv = 0
  /\ worn \in BOOLEAN
  /\ bluetooth \in BOOLEAN
  /\ preAlert \in BOOLEAN

HeartRateRises ==
  /\ hr < MaxHeartRate
  /\ hr' = hr + 1
  /\ UNCHANGED <<mv, worn, bluetooth, preAlert>>

MovementRises ==
  /\ mv < MaxMovement
  /\ mv' = mv + 1
  /\ UNCHANGED <<hr, worn, bluetooth, preAlert>>

Next == HeartRateRises \/ MovementRises

Spec == Init /\ [][Next]_reading

Off == OffBody(worn, hr, mv, bluetooth)
Severity == [NORMAL |-> 0, ELEVATED |-> 1, DANGER |-> 2]

\* A reading with a higher heart rate or more movement is never judged less
\* severe by updateVitals, although the off-body analysis withdraws risk as
\* the readings leave its slow-removal range.
VerdictNeverDrops ==
  [][Severity[VitalsVerdict(hr', mv', worn').level]
       >= Severity[VitalsVerdict(hr, mv, worn).level]]_reading

\* The three rule sets that judge one packet, with different thresholds, do
\* not contradict each other. What the off-body analysis calls dangerous, the
\* sensor rules ask an SOS for as well; and without an AI prediction the
\* sensor fusion never raises an SOS that the off-body analysis has not.
RuleSetsAgree ==
  /\ Off.dangerous => SensorRuleSos(hr, mv, worn, bluetooth, preAlert)
  /\ \A gps \in GpsRisks :
       FusionAutoSos(FusionScore(preAlert, Off.risk, gps)) => Off.dangerous
===============================================================================
