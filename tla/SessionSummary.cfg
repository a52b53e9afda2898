SPECIFICATION Spec
CONSTANTS
  j1 = j1
  j2 = j2
  j3 = j3
  NoJob = NoJob
  Consolidators = {c1, c2}
  Jobs = {j1, j2, j3}
  Legacy <- OneLegacyJob
  RefreshAttempts = 2
  Messages = 4
SYMMETRY Alike
INVARIANTS
  TypeOK
  EachMessageOnce
  OneRevisionPerJob
  LosesOnlyToASave
PROPERTY
  WatermarkAdvances
