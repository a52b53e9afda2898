---------------------------- MODULE Evaluations ----------------------------
(***************************************************************************)
(* The evaluation command line, evals/cli.ts: a pool of workers runs every *)
(* trajectory of the selected work, the results become a suite report and  *)
(* an exit code, and the report of a diagnostic run may go to two blind    *)
(* reviewers.                                                              *)
(***************************************************************************)
EXTENDS SuiteReport, BlindReview

CONSTANTS
  Options,     \* what a suite, a command line and an environment may say
  Judgments,   \* what one replica of the judge may return
  Approval,    \* the usual one
  RunIds,      \* a sequence: the run id of each result
  Thoughts     \* what a reviewer may think of the transcripts and pairs

(* What the suite's schema and the command line admit: numbers, scenarios  *)
(* with ids of their own, and three ways to consolidate.                   *)
ASSUME OptionsAssumption ==
  \A o \in Options :
    /\ {o.replicas, o.runs, o.turns} \subseteq Nat
    /\ o.suite \in Seq(ToSet(o.suite)) /\ o.characters \in Seq(ToSet(o.characters))
    /\ \A s \in ToSet(o.suite) : {s.turns, s.window} \subseteq Nat
    /\ \A i, j \in DOMAIN o.suite : o.suite[i].id = o.suite[j].id => i = j
    /\ o.consolidation \in {"none", "quiescent", "batched"}

VARIABLES
  cursor,    \* mapLimit: items the workers have taken
  results,
  phase,     \* running, reported, or rejected with an error
  review

vars == <<options, run, surprises, cursor, results, phase, review>>
pool == <<cursor, results, phase>>

Missing == [item |-> "none"]
NoReview == [status |-> "none"]

(* main refuses what cannot be run or attributed, selectScenarios an id    *)
(* the suite does not have.                                                *)
Accepted(o) ==
  LET memory == \A i \in DOMAIN o.suite : o.suite[i].probes # {}
  IN  /\ memory => o.characters = <<>> /\ o.target = "in-process"
      /\ o.mode = "diagnostic" /\ ~memory => o.characters # <<>> /\ o.target = "http"
      /\ o.mode = "h30" => o.characters = <<>>
      /\ o.mode = "structure" => memory
      /\ o.cases = {"all"} \/ o.cases \subseteq {s.id : s \in ToSet(o.suite)}

ProfileRuns == IF options.profile = "confidence" THEN ConfidenceRuns ELSE 1
Runs == IF options.runs = 0 THEN ProfileRuns ELSE options.runs

(* --concurrency or the profile's, as far as Workers reaches; the smoke    *)
(* profile runs one trajectory at a time.                                  *)
Concurrency == IF options.profile = "smoke" THEN 1 ELSE Cardinality(Workers)

(* The work, scenario by scenario, character by character, run by run; a   *)
(* run without a character set keeps each scenario's own.                  *)
Work ==
  LET characters == IF options.characters = <<>> THEN <<"own">> ELSE options.characters
      each == Len(characters) * Runs
  IN  [i \in 1..(Len(Selected) * each) |->
         [scenario |-> Selected[(i - 1) \div each + 1],
          character |-> characters[((i - 1) % each) \div Runs + 1],
          run |-> (i - 1) % Runs]]

EvaluationsInit ==
  /\ options \in {o \in Options : Accepted(o)}
  /\ run = [w \in Workers |-> Idle]
  /\ surprises = 0 /\ cursor = 0
  /\ results = [i \in DOMAIN Work |-> Missing]
  /\ phase = "running"
  /\ review = NoReview

-----------------------------------------------------------------------------
(* A worker of mapLimit takes the next item; the reactive pilots throw     *)
(* outside runTrajectory's try in any other mode, which ends the process.  *)
Take(w) ==
  /\ phase = "running" /\ run[w] = Idle /\ cursor < Len(Work) /\ w <= Concurrency
  /\ IF Work[cursor + 1].scenario.reactive /\ options.mode # "diagnostic"
     THEN phase' = "rejected" /\ UNCHANGED <<run, cursor>>
     ELSE /\ Move(w, Fresh(cursor + 1, Work[cursor + 1]))
          /\ cursor' = cursor + 1
          /\ UNCHANGED phase
  /\ UNCHANGED <<options, surprises, results, review>>

Talk(w) == phase = "running" /\ Converse(w) /\ UNCHANGED <<options, pool, review>>

(* The result goes to the place of the item the worker took, wherever the  *)
(* cursor has moved since.                                                 *)
Store(w, result) ==
  /\ results' = [results EXCEPT ![run[w].slot] = result]
  /\ Move(w, Idle)
  /\ UNCHANGED <<options, cursor, phase, review>>

Heard(w) == Judged /\ run[w].transcript # <<>>

(* The judge's replicas are asked and the result is written.               *)
Assess(w) ==
  /\ phase = "running" /\ At(w, "assessing")
  /\ \/ /\ ~Heard(w)
        /\ Store(w, Result(run[w], <<>>, FALSE))
        /\ Costs(0)
     \/ /\ Heard(w)
        /\ \E judgments \in [1..options.replicas -> Judgments] :
             /\ Store(w, Result(run[w], judgments, FALSE))
             /\ Costs(Cardinality({r \in DOMAIN judgments : judgments[r] # Approval}))
     \/ /\ Heard(w)
        /\ Store(w, Result(run[w], <<>>, TRUE))
        /\ Costs(1)

(* The artifacts cannot be written: mapLimit rejects.                      *)
WriteFails(w) ==
  /\ phase = "running" /\ At(w, "assessing") /\ Costs(1)
  /\ phase' = "rejected"
  /\ UNCHANGED <<options, run, cursor, results, review>>

Report ==
  /\ phase = "running" /\ cursor = Len(Work) /\ \A w \in Workers : run[w] = Idle
  /\ phase' = "reported"
  /\ UNCHANGED <<options, run, surprises, cursor, results, review>>

-----------------------------------------------------------------------------
(* review-prepare: a diagnostic, judged report, two transcripts or more of *)
(* each scenario. Bound: options.reviewed says whether it happens, and that*)
(* no transcript names its character.                                      *)
Transcripts == {RunIds[i] : i \in DOMAIN results}
Ran(id) == OfScenario(results, id)
Groups == {{RunIds[i] : i \in Ran(id)} : id \in Observed(results)}
Pairings ==
  {UNION {CanonicalPairs(order[g]) : g \in Groups} :
     order \in {f \in [Groups -> UNION {Orders(g) : g \in Groups}] :
                  \A g \in Groups : f[g] \in Orders(g)}}

Prepare ==
  /\ phase = "reported" /\ options.reviewed /\ review = NoReview
  /\ options.mode = "diagnostic" /\ Len(results) >= 2 /\ \A i \in DOMAIN results : results[i].judged
  /\ \A g \in Groups : Cardinality(g) >= 2
  /\ \E packets \in Bundles(Transcripts, Pairings) :
       review' = [status |-> "open", packets |-> packets, thoughts |-> <<>>, submissions |-> <<>>,
                 agreement |-> <<>>]
  /\ UNCHANGED <<options, run, surprises, pool>>

Put(f, slot, v) == [s \in DOMAIN f \cup {slot} |-> IF s = slot THEN v ELSE f[s]]

(* Reviewer a returns a form, then b: filled in, perhaps by the same person*)
(* or of the same packet again, or one that is not ready.                  *)
Submit ==
  LET slot == IF review.submissions = <<>> THEN "reviewer-a" ELSE "reviewer-b"
      returned(opinion, form) ==
        review' = [review EXCEPT !.thoughts = Put(@, slot, opinion),
                                 !.submissions = Put(@, slot, form)]
  IN  /\ review.status = "open" /\ Cardinality(DOMAIN review.submissions) < 2
      /\ \/ \E opinion \in Thoughts, packet \in {slot, "reviewer-a"},
               alias \in {slot, "reviewer-a"} :
               /\ Answers(opinion, review.packets[packet])
               /\ returned(opinion, Filled(review.packets[packet], opinion, alias))
         \/ \E form \in {Draft(review.packets[slot])} \cup HalfFilled(review.packets[slot], slot) :
               returned(<<>>, form)
      /\ UNCHANGED <<options, run, surprises, pool>>

Aggregate ==
  LET judgePassed == {RunIds[i] : i \in {k \in DOMAIN results : results[k].judgePassed}}
      agreement == Agreement(review.packets, review.submissions, judgePassed)
  IN  /\ review.status = "open" /\ Cardinality(DOMAIN review.submissions) = 2
      /\ review' = IF Acceptable(review.packets, review.submissions)
                   THEN [review EXCEPT !.status = agreement.status, !.agreement = agreement]
                   ELSE [review EXCEPT !.status = "refused"]
      /\ UNCHANGED <<options, run, surprises, pool>>

EvaluationsNext ==
  \/ \E w \in Workers : Take(w) \/ Talk(w) \/ Assess(w) \/ WriteFails(w)
  \/ Report \/ Prepare \/ Submit \/ Aggregate

EvaluationsSpec == EvaluationsInit /\ [][EvaluationsNext]_vars

-----------------------------------------------------------------------------
(* The messages between two drains, and those that may stay behind one: a  *)
(* full batch leaves none, a shorter one less than the threshold.          *)
Batch(o) == IF o.consolidation = "quiescent" THEN 2 ELSE 2 * BatchTurns
Left(o) == IF Batch(o) >= Threshold THEN 0 ELSE 2 * ((Threshold - 1) \div 2)

WideWindow(o) ==
  \A s \in ToSet(o.suite) : o.consolidation # "none" => s.window >= Batch(o) + Left(o)

(* "Delay execution in batched mode, but do not silently delete": whatever *)
(* a request leaves out of its window is in the summary the Agent reads    *)
(* for it, so that no message is lost to the conversation between the two. *)
(* It takes a window for the turns until a drain and for what a drain may  *)
(* leave below the threshold (WideWindow).                                 *)
NothingFallsBetween ==
  \A w \in Workers :
    At(w, "asking") /\ Consolidates => RetainedStart(run[w]) <= run[w].covered

(* A trajectory that passes or counts for certification went through whole:*)
(* every exchange it was asked for, every job consolidated - the ones      *)
(* close() drains after the last reply too - and its judge and its fixture *)
(* heard.                                                                  *)
PassesAreComplete ==
  \A i \in DOMAIN results :
    LET r == results[i] IN
      results[i] # Missing /\ (r.passed \/ r.certified) =>
        /\ r.completed = r.requested
        /\ Consolidates => r.owed = 0
        /\ Judged => r.judged
        /\ r.item.scenario.probes # {} => r.preflight

(* Exit code 0 is about the whole of what was to be run: each slot holds   *)
(* its own item's result, all complete; and where it certifies, every      *)
(* scenario of the suite at full length as often as the profile asks, each *)
(* time judged twice, and some conversation too long for a request.        *)
GreenMeansWhole ==
  phase = "reported" /\ ExitCode(results) = 0 =>
    /\ Work # <<>>
    /\ \A i \in DOMAIN Work : results[i].item = Work[i] /\ WholeRun(results[i])
    /\ options.mode = "diagnostic" =>
         \A c \in ToSet(options.characters), id \in Expected :
           Cardinality({i \in Ran(id) : results[i].item.character = c}) >= MinimumRuns
    /\ options.mode = "h30" /\ options.profile # "smoke" /\ ~MemoryStructure =>
         /\ \A s \in Suite :
              /\ Cardinality(Ran(s.id)) >= MinimumRuns
              /\ \A i \in Ran(s.id) : results[i].completed = s.turns /\ results[i].replicas >= 2
         /\ \E i \in DOMAIN results :
              2 * results[i].completed - 1 > results[i].item.scenario.window

(* The report finds the reviewers agreed exactly when they think the same  *)
(* of every transcript and every pair, whatever order and sides each saw;  *)
(* and no transcript is left out of the comparisons.                       *)
ReviewersAgreeOnTranscripts ==
  review.status \in {"reviewers-agree", "needs-adjudication"} =>
    LET a == review.thoughts["reviewer-a"]
        b == review.thoughts["reviewer-b"]
        keys == Keys(review.packets["reviewer-a"])
        settled(f, g, x) == f[x] = g[x] /\ f[x] # "abstain"
    IN  /\ UNION keys = Transcripts
        /\ review.status = "reviewers-agree" <=>
             /\ \A x \in Transcripts : settled(a.verdict, b.verdict, x)
             /\ \A key \in keys : settled(a.winner, b.winner, key)

=============================================================================
