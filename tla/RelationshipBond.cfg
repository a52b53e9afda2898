SPECIFICATION Spec
CONSTANTS
  NoAttempt = NoAttempt
  NoExchange = NoExchange
  Attempts = {a1, a2}
  Exchanges = {x1, x2, x3}
  StartXp = {112, 956}
  StartDaily = {0, 48}
  LastDay = 2
  DailyCap = 60
SYMMETRY Alike
INVARIANTS
  TypeOK
  StoredLevelAgrees
  AllowanceKeptInOrder
PROPERTIES
  LevelIsKept
  GrantsAreAtomic
