------------------------------ MODULE RiskRules ------------------------------
(***************************************************************************)
(* The sensor rules that decide, from one reading of the wearable, whether *)
(* an SOS is raised: the risk score, the off-body analysis, the local      *)
(* sensor rules and the sensor fusion. They keep no state of their own.    *)
(***************************************************************************)
EXTENDS Integers

Smaller(a, b) == IF a < b THEN a ELSE b

\* Mutant: the two ranges of heart rates leave a gap.
HeartRateRiskWithGap(hr) == IF hr >= 150 THEN 40 ELSE IF hr \in 120 .. 148 THEN 20 ELSE 0

\* RiskScoreCalculatorService.calculateRiskScore
HeartRateRisk(hr) == IF hr >= 150 THEN 40 ELSE IF hr >= 120 THEN 20 ELSE 0
MovementRisk(mv)  == IF mv >= 90 THEN 35 ELSE IF mv >= 70 THEN 20 ELSE 0

RiskScore(hr, mv, bluetooth, worn) ==
  HeartRateRisk(hr) + MovementRisk(mv)
    + (IF bluetooth THEN 0 ELSE 10) + (IF worn THEN 0 ELSE 30)

\* OffBodyIntelligenceService.analyze: the risk it adds, whether it raised
\* an SOS, and whether it looked the session up by its device id.
OffBodyResult(risk, dangerous, lookup) ==
  [risk |-> risk, dangerous |-> dangerous, lookup |-> lookup]

OffBody(worn, hr, mv, bluetooth) ==
  IF worn                                      THEN OffBodyResult(0, FALSE, TRUE)
  ELSE IF mv >= 90 /\ hr >= 140                THEN OffBodyResult(90, TRUE, TRUE)
  ELSE IF mv >= 70 /\ hr >= 120                THEN OffBodyResult(80, TRUE, TRUE)
  ELSE IF mv >= 80                             THEN OffBodyResult(70, TRUE, TRUE)
  ELSE IF ~bluetooth /\ mv < 10 /\ hr < 100    THEN OffBodyResult(0, FALSE, FALSE)
  ELSE IF mv < 30 /\ hr < 110                  THEN OffBodyResult(20, FALSE, TRUE)
  ELSE OffBodyResult(10, FALSE, FALSE)

\* Mutant: only the extreme rule asks for an SOS.
SensorRuleSosExtreme(hr, mv, worn, bluetooth, preAlert) ==
  ~worn /\ hr >= 140 /\ mv >= 90

\* AiSensorRulesService.evaluate: one of its rules asks for an SOS.
SensorRuleSos(hr, mv, worn, bluetooth, preAlert) ==
  \/ ~worn /\ mv >= 70
  \/ preAlert /\ ~bluetooth

\* SensorFusionService.assess without tamper, heartbeat-loss and prediction
\* inputs (WearableHeartbeatService passes none) and with decision MONITOR.
GpsRisks == {0, 5, 20}
FusionScore(preAlert, offBodyRisk, gpsRisk) ==
  Smaller(100, (IF preAlert THEN 20 ELSE 0) + offBodyRisk + gpsRisk + 5)

FusionAutoSos(score) == score >= 100

\* A wearable packet raises an SOS: by a sensor rule, by the off-body
\* analysis, or by the fusion's autoSos.
PacketAlarm(hr, mv, worn, bluetooth, preAlert, gpsRisk) ==
  LET off == OffBody(worn, hr, mv, bluetooth)
  IN  \/ SensorRuleSos(hr, mv, worn, bluetooth, preAlert)
      \/ off.dangerous
      \/ FusionAutoSos(FusionScore(preAlert, off.risk, gpsRisk))

\* What updateVitals concludes from a reading: it has just set the Bluetooth
\* time, so the device always counts as connected.
VitalsVerdict(hr, mv, worn) ==
  LET off  == OffBody(worn, hr, mv, TRUE)
      risk == Smaller(100, RiskScore(hr, mv, TRUE, worn) + off.risk)
  IN  [level  |-> IF off.dangerous \/ risk >= 70 THEN "DANGER"
                  ELSE IF risk >= 40 THEN "ELEVATED" ELSE "NORMAL",
       lookup |-> off.lookup]
==============================================================================
