\* Two callers, three calls, two changes of the settings.
SPECIFICATION LlmSpec
CONSTANTS
  c1 = c1
  c2 = c2
  small = small
  large = large
  original = original
  rotated = rotated
  other = other
  Callers = {c1, c2}
  KindsOf <- MCKindsOf
  Models = {small, large}
  Configs = {original, rotated, other}
  ModelOf <- MCModelOf
  Embeds = {original, other}
  Unresolved = Unresolved
  Incomplete = Incomplete
  CallsOf <- MCCallsOf
  MaxChanges = 2
  MaxChunks = 1
INVARIANTS
  DefaultsAreFollowed
  ProviderIsCurrent
  StatusTellsTheOutcome
CHECK_DEADLOCK FALSE
