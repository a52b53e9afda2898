SPECIFICATION Spec
CONSTANTS
  Workers = {w1, w2}
  Jobs = {1, 2, 3}
  r1 = r1
  r2 = r2
  Relationships = {r1, r2}
  RelationshipOf <- TwoRelationships
  NoWorker = NoWorker
  NoJob = NoJob
  MaxAttempts = 2
  MaxOutages = 1
  MaxOverruns = 0
  MaxFaults = 0
INVARIANTS
  FailsOnlyAfterAllAttempts
PROPERTIES
  CompletedIsFinal
\* All jobs settled, the instances find nothing to claim.
CHECK_DEADLOCK FALSE
