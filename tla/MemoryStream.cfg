SPECIFICATION Spec
CONSTANTS
  NoJob = NoJob
  tea = tea
  coffee = coffee
  cats = cats
  dogs = dogs
  Consolidators = {c1, c2}
  Jobs = {j1, j2}
  Contents = {tea, coffee, cats, dogs}
  Similar <- Drinks
  Importance <- Weight
  Threshold = 4
  Extractions <- Finds
  Insights <- Infers
  MaxFailures = 2
SYMMETRY Alike
INVARIANTS
  TypeOK
  NoDuplicates
  BudgetBalances
  RetriesResume
PROPERTY BatchesAreFinal
