SPECIFICATION Spec
CONSTANTS
  NoAttempt = NoAttempt
  NoExchange = NoExchange
  Attempts = {a1, a2}
  Exchanges = {x1, x2, x3}
  StartXp = {112}
  StartDaily = {0}
  LastDay = 2
  DailyCap = 20
SYMMETRY Alike
INVARIANT PositiveXpIsCappedPerDay
