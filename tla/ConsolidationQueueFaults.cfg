SPECIFICATION FairSpec
CONSTANTS
  Workers = {w1, w2}
  Jobs = {1, 2}
  r1 = r1
  r2 = r2
  Relationships = {r1}
  RelationshipOf <- TwoJobs
  NoWorker = NoWorker
  NoJob = NoJob
  MaxAttempts = 2
  MaxOutages = 1
  MaxOverruns = 1
  MaxFaults = 1
INVARIANTS
  SerializedPerRelationship
  ScrubbedOnlyAfterConsolidation
  TriedWithinAllowance
PROPERTIES
  EveryJobSettles
\* All jobs settled, the instances find nothing to claim.
CHECK_DEADLOCK FALSE
