---------------------------- MODULE SuiteReport ----------------------------
(***************************************************************************)
(* What evals/evaluate.ts and evals/cli.ts make of the results of a run:   *)
(* aggregateSuite, createBaselineManifest, smokeConnectivityPassed and the *)
(* exit code. results is a sequence of Trajectory results; rates and scores*)
(* are whole percents, rounded down.                                       *)
(***************************************************************************)
EXTENDS Trajectory, Subsequences

CONSTANTS
  ConfidenceRuns,   \* runs a scenario needs in the confidence profile, 3 in the code
  MinScenarios,     \* scenarios a certifying suite needs, 8 in the code
  SmokeCases,       \* profile smoke: scenarios it takes, 2 in the code
  Standard          \* suite.standard

ASSUME SuiteAssumption ==
  /\ {ConfidenceRuns, MinScenarios, SmokeCases} \subseteq Nat \ {0}
  /\ Standard \in [passRate: 0..100, meanScore: 0..100, p10Score: 0..100, range: 0..100]

Suite == ToSet(options.suite)

(* selectScenarios.                                                        *)
Selected ==
  IF options.cases # {"all"}
  THEN Picked(options.suite, {i \in DOMAIN options.suite : options.suite[i].id \in options.cases})
  ELSE IF options.profile = "smoke"
       THEN SubSeq(options.suite, 1, Least(SmokeCases, Len(options.suite)))
       ELSE options.suite

MemoryStructure == \A s \in Suite : s.probes # {}
Judged == options.replicas > 0

-----------------------------------------------------------------------------
(* The places of a scenario's or character's results, and statistics of a  *)
(* sequence of results.                                                    *)
OfScenario(results, id) == {i \in DOMAIN results : results[i].item.scenario.id = id}
OfCharacter(results, c) == {i \in DOMAIN results : results[i].item.character = c}
ScenarioRuns(results, id) == Picked(results, OfScenario(results, id))
CharacterRuns(results, c) == Picked(results, OfCharacter(results, c))

Share(part, whole) == IF whole = 0 THEN 0 ELSE (100 * part) \div whole
Scores(results) == [i \in DOMAIN results |-> results[i].score]
PassRate(results) ==
  Share(Cardinality({i \in DOMAIN results : results[i].passed}), Len(results))
MeanScore(results) ==
  IF results = <<>> THEN 0
  ELSE MapThenSumSet(LAMBDA i : results[i].score, DOMAIN results) \div Len(results)

ScoreRange(results) ==
  LET scores == {results[i].score : i \in DOMAIN results}
  IN  IF scores = {} THEN 0 ELSE Max(scores) - Min(scores)

P10Score(results) ==
  IF results = <<>> THEN 0
  ELSE SortSeq(Scores(results), <)[(Len(results) + 9) \div 10]

Observed(results) == {results[i].item.scenario.id : i \in DOMAIN results}
Characters(results) == {results[i].item.character : i \in DOMAIN results}

MeanScenarioMedian(results) ==
  LET ids == Observed(results)
  IN  IF ids = {} THEN 0
      ELSE MapThenSumSet(LAMBDA id : TwiceMedian(Scores(ScenarioRuns(results, id))), ids)
             \div (2 * Cardinality(ids))

FailingCharacters(results) ==
  {c \in Characters(results) :
     \/ PassRate(CharacterRuns(results, c)) < Standard.passRate
     \/ MeanScore(CharacterRuns(results, c)) < Standard.meanScore}

UnstableScenarios(results) ==
  IF options.profile # "confidence" THEN {}
  ELSE {id \in Observed(results) :
          \/ PassRate(ScenarioRuns(results, id)) < Standard.passRate
          \/ ScoreRange(ScenarioRuns(results, id)) > Standard.range}

-----------------------------------------------------------------------------
(* characterCoverage and hasRequiredRuns.                                  *)
MinimumRuns == IF options.profile = "confidence" THEN ConfidenceRuns ELSE 1

Expected == {s.id : s \in ToSet(Selected)}

MissingCells(results) ==
  {cell \in ToSet(options.characters) \X Expected :
     Cardinality(OfCharacter(results, cell[1]) \cap OfScenario(results, cell[2])) < MinimumRuns}

CoveragePassed(results) ==
  /\ MissingCells(results) = {}
  /\ options.characters # <<>> => Characters(results) \subseteq ToSet(options.characters)

HasRequiredRuns(results) ==
  IF options.characters # <<>> THEN CoveragePassed(results)
  ELSE \A id \in Expected : Cardinality(OfScenario(results, id)) >= MinimumRuns

(* Mutant: the scenarios that were selected are enough.                    *)
CertificationEligibleSelected(results) ==
  /\ options.mode = "h30" /\ Len(options.suite) >= MinScenarios
  /\ Observed(results) \subseteq {s.id : s \in Suite}
  /\ HasRequiredRuns(results)
  /\ \E i \in DOMAIN results : results[i].windowed
  /\ \A i \in DOMAIN results : results[i].certified

CertificationEligible(results) ==
  /\ options.mode = "h30" /\ Len(options.suite) >= MinScenarios
  /\ Observed(results) = {s.id : s \in Suite}
  /\ HasRequiredRuns(results)
  /\ \E i \in DOMAIN results : results[i].windowed
  /\ \A i \in DOMAIN results : results[i].certified

QualityPassed(results) ==
  /\ options.mode # "structure"
  /\ CoveragePassed(results)
  /\ options.mode = "diagnostic" => FailingCharacters(results) = {}
  /\ UnstableScenarios(results) = {}
  /\ \A i \in DOMAIN results : results[i].criticalPassed
  /\ PassRate(results) >= Standard.passRate
  /\ MeanScenarioMedian(results) >= Standard.meanScore
  /\ P10Score(results) >= Standard.p10Score

Passed(results) == CertificationEligible(results) /\ QualityPassed(results)

-----------------------------------------------------------------------------
(* createBaselineManifest: whether the run can be compared with another.   *)
(* The replies have to name one prompt for each character and one memory   *)
(* policy and model for all.                                               *)
WholeRun(result) == ~result.error /\ result.completed = result.requested

BaselineReady(results) ==
  /\ results # <<>>
  /\ \A i \in DOMAIN results : WholeRun(results[i])
  /\ \A i \in DOMAIN results :
       /\ "none" \notin {results[i].metadata.prompt, results[i].metadata.setup}
       /\ \A j \in DOMAIN results :
            /\ results[j].metadata.setup = results[i].metadata.setup
            /\ results[j].item.character = results[i].item.character =>
                 results[j].metadata.prompt = results[i].metadata.prompt
  /\ CoveragePassed(results)
  /\ options.mode = "diagnostic" => options.characters # <<>>
  /\ options.distinct

(* smokeConnectivityPassed.                                                *)
SmokePassed(results) ==
  /\ results # <<>>
  /\ \A i \in DOMAIN results : /\ WholeRun(results[i]) /\ results[i].complete
                               /\ Judged => results[i].judged

DiagnosticComplete(results) ==
  /\ CoveragePassed(results) /\ BaselineReady(results)
  /\ \A i \in DOMAIN results : WholeRun(results[i]) /\ (Judged => results[i].judged)

ExitCode(results) ==
  LET green ==
        CASE MemoryStructure ->
               SmokePassed(results) /\ \A i \in DOMAIN results : results[i].preflight
          [] ~MemoryStructure /\ options.mode = "diagnostic" -> DiagnosticComplete(results)
          [] ~MemoryStructure /\ options.mode = "h30" /\ options.profile = "smoke" ->
               SmokePassed(results)
          [] OTHER -> Passed(results)
  IN  IF green THEN 0 ELSE 1

=============================================================================
