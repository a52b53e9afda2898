SPECIFICATION Spec
CONSTANTS
  Workers = {w1, w2}
  Jobs = {1}
  r1 = r1
  r2 = r2
  Relationships = {r1}
  RelationshipOf <- OneJob
  NoWorker = NoWorker
  NoJob = NoJob
  MaxAttempts = 2
  MaxOutages = 0
  MaxOverruns = 1
  MaxFaults = 0
INVARIANTS
  ScrubbedPayloadNeverClaimed
\* All jobs settled, the instances find nothing to claim.
CHECK_DEADLOCK FALSE
