------------------------------ MODULE RiskProofs ------------------------------
(***************************************************************************)
(* Proofs about the sensor rules, for all heart rates and movement scores. *)
(*                                                                         *)
(* The lemmas are about the rules themselves and need no bound; the        *)
(* theorems apply them to the readings of RiskReadings, which are integers *)
(* whatever the bounds are.                                                *)
(***************************************************************************)
EXTENDS RiskReadings, TLAPS

\* What a reading is, whatever happened before.
Readings ==
  /\ hr \in Int
  /\ mv \in Int
  /\ worn \in BOOLEAN
  /\ bluetooth \in BOOLEAN
  /\ preAlert \in BOOLEAN

--------------------------------------------------------------------------------
(* The rules.                                                               *)

\* The results of the off-body analysis: an SOS goes with a risk of 70 or more
\* and is raised exactly for a device that is not worn and moves much, or moves
\* and is next to a fast heart; anything else adds at most 20.
LEMMA OffBodyRisks ==
  ASSUME NEW h \in Int, NEW m \in Int, NEW w \in BOOLEAN, NEW b \in BOOLEAN
  PROVE  /\ OffBody(w, h, m, b).dangerous <=> ~w /\ (m >= 80 \/ (m >= 70 /\ h >= 120))
         /\ OffBody(w, h, m, b).dangerous => OffBody(w, h, m, b).risk \in {70, 80, 90}
         /\ ~OffBody(w, h, m, b).dangerous => OffBody(w, h, m, b).risk \in {0, 10, 20}
<1> DEFINE off == OffBody(w, h, m, b)
           danger == ~w /\ (m >= 80 \/ (m >= 70 /\ h >= 120))
<1>1. danger => off \in {OffBodyResult(r, TRUE, TRUE) : r \in {70, 80, 90}}
  BY DEF OffBody
<1>2. ~danger => \/ off = OffBodyResult(0, FALSE, TRUE)
                 \/ off = OffBodyResult(0, FALSE, FALSE)
                 \/ off = OffBodyResult(20, FALSE, TRUE)
                 \/ off = OffBodyResult(10, FALSE, FALSE)
  <2>1. CASE w
    BY <2>1 DEF OffBody
  <2>2. CASE ~w /\ ~danger
    <3>1. ~(m >= 90 /\ h >= 140) /\ ~(m >= 70 /\ h >= 120) /\ ~(m >= 80)
      BY <2>2
    <3>2. \/ off = OffBodyResult(0, FALSE, FALSE)
          \/ off = IF m < 30 /\ h < 110 THEN OffBodyResult(20, FALSE, TRUE)
                                        ELSE OffBodyResult(10, FALSE, FALSE)
      BY <2>2, <3>1 DEF OffBody
    <3>3. QED
      BY <3>2
  <2>3. QED
    BY <2>1, <2>2
<1>3. QED
  BY <1>1, <1>2 DEF OffBodyResult

\* Without an AI prediction the fusion of the scores asks for an SOS only
\* beside an off-body danger.
LEMMA FusionNeedsOffBody ==
  ASSUME NEW h \in Int, NEW m \in Int, NEW w \in BOOLEAN, NEW b \in BOOLEAN,
         NEW pre \in BOOLEAN, NEW gps \in GpsRisks,
         FusionAutoSos(FusionScore(pre, OffBody(w, h, m, b).risk, gps))
  PROVE  OffBody(w, h, m, b).dangerous
<1> DEFINE risk == OffBody(w, h, m, b).risk
<1>1. SUFFICES ASSUME risk \in {0, 10, 20} PROVE FALSE
  BY OffBodyRisks
<1> HIDE DEF risk
<1>2. ~FusionAutoSos(FusionScore(pre, risk, gps))
  BY <1>1 DEF FusionAutoSos, FusionScore, Smaller, GpsRisks
<1>3. QED
  BY <1>2 DEF risk

\* Off-body danger is a case of the first sensor rule.
LEMMA OffBodyNeedsRule ==
  ASSUME NEW h \in Int, NEW m \in Int, NEW w \in BOOLEAN, NEW b \in BOOLEAN,
         NEW pre \in BOOLEAN, OffBody(w, h, m, b).dangerous
  PROVE  SensorRuleSos(h, m, w, b, pre)
BY OffBodyRisks DEF SensorRuleSos

\* The vitals verdict in closed form, for a device that is worn: the analysis
\* adds nothing, and only the two scores count.
LEMMA WornVerdict ==
  ASSUME NEW h \in Int, NEW m \in Int, NEW w \in BOOLEAN, w
  PROVE  VitalsVerdict(h, m, w).level =
           IF HeartRateRisk(h) + MovementRisk(m) >= 70 THEN "DANGER"
           ELSE IF HeartRateRisk(h) + MovementRisk(m) >= 40 THEN "ELEVATED" ELSE "NORMAL"
BY DEF VitalsVerdict, OffBody, OffBodyResult, RiskScore, Smaller, HeartRateRisk, MovementRisk

\* And for a device that is not worn, which is never judged NORMAL: much
\* movement, a very fast heart, or a little less of both is danger. The ranges
\* in which the analysis adds 20 and 10 make no difference.
LEMMA TakenOffVerdict ==
  ASSUME NEW h \in Int, NEW m \in Int, NEW w \in BOOLEAN, ~w
  PROVE  VitalsVerdict(h, m, w).level =
           IF m >= 80 \/ (m >= 70 /\ h >= 120) \/ h >= 150
             THEN "DANGER" ELSE "ELEVATED"
BY DEF VitalsVerdict, OffBody, OffBodyResult, RiskScore, Smaller, HeartRateRisk, MovementRisk

\* A higher heart rate or more movement never makes a verdict milder, by
\* whatever amounts the readings rise.
LEMMA VerdictRises ==
  ASSUME NEW h \in Int, NEW m \in Int, NEW h2 \in Int, NEW m2 \in Int, NEW w \in BOOLEAN,
         h <= h2, m <= m2
  PROVE  Severity[VitalsVerdict(h2, m2, w).level] >= Severity[VitalsVerdict(h, m, w).level]
<1> DEFINE level == VitalsVerdict(h, m, w).level
           level2 == VitalsVerdict(h2, m2, w).level
<1>1. Severity["NORMAL"] = 0 /\ Severity["ELEVATED"] = 1 /\ Severity["DANGER"] = 2
  BY DEF Severity
<1>2. /\ level \in {"NORMAL", "ELEVATED", "DANGER"}
      /\ level2 \in {"NORMAL", "ELEVATED", "DANGER"}
      /\ level = "DANGER" => level2 = "DANGER"
      /\ level = "ELEVATED" => level2 # "NORMAL"
  <2>1. CASE w
    <3> DEFINE score == HeartRateRisk(h) + MovementRisk(m)
               score2 == HeartRateRisk(h2) + MovementRisk(m2)
    <3>1. score \in Int /\ score2 \in Int /\ score <= score2
      BY DEF HeartRateRisk, MovementRisk
    <3>2. /\ level = IF score >= 70 THEN "DANGER" ELSE IF score >= 40 THEN "ELEVATED" ELSE "NORMAL"
          /\ level2 = IF score2 >= 70 THEN "DANGER" ELSE IF score2 >= 40 THEN "ELEVATED" ELSE "NORMAL"
      BY <2>1, WornVerdict
    <3> HIDE DEF score, score2, level, level2
    <3>3. QED
      BY <3>1, <3>2
  <2>2. CASE ~w
    BY <2>2, TakenOffVerdict
  <2>3. QED
    BY <2>1, <2>2
<1> HIDE DEF level, level2
<1>3. Severity[level2] >= Severity[level]
  BY <1>1, <1>2
<1>4. QED
  BY <1>3 DEF level, level2

--------------------------------------------------------------------------------
(* The theorems.                                                            *)

\* A wearable packet raises an SOS exactly if a sensor rule asks for one: the
\* off-body analysis and the fusion, which processHeartbeat consults as well,
\* never add one.
THEOREM SensorRulesDecide ==
  ASSUME NEW h \in Int, NEW m \in Int, NEW w \in BOOLEAN, NEW b \in BOOLEAN,
         NEW pre \in BOOLEAN, NEW gps \in GpsRisks
  PROVE  PacketAlarm(h, m, w, b, pre, gps) <=> SensorRuleSos(h, m, w, b, pre)
BY FusionNeedsOffBody, OffBodyNeedsRule DEF PacketAlarm

\* Readings stay integers: whatever the bounds are, the rules are applied to
\* what the lemmas are about.
THEOREM ReadingsTyped == Spec => []Readings
<1>1. Init => Readings
  BY ReadingAssumption DEF Init, Readings
<1>2. Readings /\ [Next]_reading => Readings'
  BY DEF Readings, Next, HeartRateRises, MovementRises, reading
<1>3. QED
  BY <1>1, <1>2, PTL DEF Spec

\* The rule sets that judge one packet never contradict each other.
THEOREM RulesAgree == Spec => []RuleSetsAgree
<1>1. Readings => RuleSetsAgree
  BY FusionNeedsOffBody, OffBodyNeedsRule DEF Readings, RuleSetsAgree, Off
<1>2. QED
  BY <1>1, ReadingsTyped, PTL

\* updateVitals never judges a more alarming reading to be less severe.
THEOREM VerdictsMonotone == Spec => VerdictNeverDrops
<1>1. Readings /\ [Next]_reading =>
        [Severity[VitalsVerdict(hr', mv', worn').level]
           >= Severity[VitalsVerdict(hr, mv, worn).level]]_reading
  <2> SUFFICES ASSUME Readings, Next
               PROVE  Severity[VitalsVerdict(hr', mv', worn').level]
                        >= Severity[VitalsVerdict(hr, mv, worn).level]
    OBVIOUS
  <2>1. hr' \in Int /\ mv' \in Int /\ hr <= hr' /\ mv <= mv' /\ worn' = worn
    BY DEF Readings, Next, HeartRateRises, MovementRises
  <2>2. QED
    BY <2>1, VerdictRises DEF Readings
<1>2. QED
  BY <1>1, ReadingsTyped, PTL DEF Spec, VerdictNeverDrops
===============================================================================
