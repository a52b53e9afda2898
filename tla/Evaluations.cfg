SPECIFICATION EvaluationsSpec
CONSTANTS
  Workers = {1, 2}
  Threshold = 4
  BatchTurns = 2
  SmokeTurns = 2
  H30Turns = 3
  BeatDistance = 2
  ConfidenceRuns = 2
  MinScenarios = 2
  SmokeCases = 1
  Standard <- MCStandard
  Options <- MCOptions
  Judgments <- MCJudgments
  Approval <- MCApproval
  RunIds <- MCRunIds
  Thoughts <- MCThoughts
INVARIANTS
  NothingFallsBetween
  PassesAreComplete
  GreenMeansWhole
  ReviewersAgreeOnTranscripts
CHECK_DEADLOCK FALSE
