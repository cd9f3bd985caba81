SPECIFICATION Spec
CONSTANTS
  MinHeartRate = 90
  MaxHeartRate = 160
  MaxMovement = 100
INVARIANTS
  RuleSetsAgree
PROPERTIES
  VerdictNeverDrops
CHECK_DEADLOCK FALSE
