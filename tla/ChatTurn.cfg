SPECIFICATION TurnSpec
CONSTANTS
  MaxIterations = 2
  Slots = {1, 2}
  MaxText = 1
  Tools = {"photo", "thought", "fetch"}
  Closings = {"stop"}
  Blocks <- MCBlocks
  Canon <- MCCanon
  AlwaysMemory <- MCAlwaysMemory
  TextOf <- MCTextOf
  SizeOf <- MCSizeOf
  SectionBytes = 1
  TopK = 2
  MinRelevance = 1
  RecallRoom = 3
  RecallMost = 4
  Readings <- MCReadings
  MaxFailures = 1
INVARIANTS
  BudgetKeepsTheBest
  ProvenanceMatchesPrompt
  MetadataParses
  ResultsAnswerTheirCalls
  LearnsWhatWasDelivered
PROPERTIES
  SharesOnce
  ImplementsReplyStream
  TurnEnds
