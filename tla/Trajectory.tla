----------------------------- MODULE Trajectory -----------------------------
(***************************************************************************)
(* One evaluated conversation: runTrajectory of evals/evaluate.ts and the  *)
(* targets of evals/target.ts. A simulated user and the Agent exchange a   *)
(* fixed number of messages; the in-process target keeps the jobs the      *)
(* Agent enqueues and consolidates them when its mode says so.             *)
(*                                                                         *)
(* Scores are whole percents, rounded down. A reply is what the checks tell*)
(* apart: its text, the prompt metadata that came with it and, for a turn  *)
(* a memory fixture probes, the memories it was built from.                *)
(***************************************************************************)
EXTENDS ConsolidationPolicy, Sequences, SequencesExt, FiniteSetsExt

CONSTANTS
  Workers,       \* 1..n: the pool that runs the trajectories
  BatchTurns,    \* EVAL_CONSOLIDATION_BATCH_TURNS, 4 in the code
  SmokeTurns,    \* exchanges of the smoke profile, 6 in the code
  H30Turns,      \* 24 in the code
  BeatDistance   \* 10 in the code

ASSUME TrajectoryAssumption ==
  {Threshold, BatchTurns, SmokeTurns, H30Turns, BeatDistance} \subseteq Nat \ {0}

VARIABLES
  options,    \* the suite, the command line and the environment
  run,        \* the trajectory each worker is in
  surprises   \* bound: what has not gone as usual

Idle == [pc |-> "idle"]

(* What a reply tells of the prompt it came from, and of the memory policy *)
(* and the model, where it tells it.                                       *)
Unobserved == [prompt |-> "none", setup |-> "none"]
Observations ==
  {[prompt |-> "first", setup |-> "first"], [prompt |-> "second", setup |-> "first"],
   [prompt |-> "first", setup |-> "second"], Unobserved}

(* What a trajectory starts from; slot is its place in the results.        *)
Fresh(slot, item) ==
  [pc |-> "seeding", slot |-> slot, item |-> item, turn |-> 1, leaving |-> FALSE,
   reply |-> <<>>, transcript |-> <<>>, metadata |-> Unobserved, seeded |-> FALSE,
   error |-> FALSE, queue |-> <<>>, taken |-> 0, done |-> <<>>, covered |-> 0]

Least(a, b) == IF a < b THEN a ELSE b
Positive(n) == IF n > 0 THEN n ELSE 0

Scenario(t) == t.item.scenario

(* --turns, or the profile's, capped by the scenario.                      *)
Requested(t) ==
  CASE options.turns # 0 -> Least(options.turns, Scenario(t).turns)
    [] options.turns = 0 /\ options.profile = "smoke" -> Least(SmokeTurns, Scenario(t).turns)
    [] OTHER -> Scenario(t).turns

InProcess == options.target = "in-process"
Consolidates == InProcess /\ options.consolidation # "none"

Move(w, t) == run' = [run EXCEPT ![w] = t]
At(w, step) == run[w].pc = step

Costs(n) ==
  /\ surprises + n <= options.budget
  /\ surprises' = surprises + n

Price(usual) == IF usual THEN 0 ELSE 1

-----------------------------------------------------------------------------
(* setupMemoryFixture: the HTTP target has none, and a store that merges   *)
(* two records has seeded too few.                                         *)
Seed(w) ==
  LET t == run[w] IN
    /\ At(w, "seeding")
    /\ \/ /\ Scenario(t).probes = {}
          /\ Move(w, [t EXCEPT !.pc = "speaking"])
          /\ Costs(0)
       \/ /\ Scenario(t).probes # {} /\ InProcess
          /\ Move(w, [t EXCEPT !.pc = "speaking", !.seeded = TRUE])
          /\ Costs(0)
       \/ /\ Scenario(t).probes # {}
          /\ Move(w, [t EXCEPT !.pc = "closing", !.error = TRUE])
          /\ Costs(Price(~InProcess))

(* The next user message, scripted or the simulator's, which may decide to *)
(* leave after this exchange or give no valid answer.                      *)
Speak(w) ==
  LET t == run[w]
      scripted == t.turn \in Scenario(t).beats
  IN /\ At(w, "speaking")
     /\ \/ /\ Move(w, [t EXCEPT !.pc = "asking"])
           /\ Costs(0)
        \/ /\ ~scripted
           /\ Move(w, [t EXCEPT !.pc = "asking", !.leaving = TRUE])
           /\ Costs(1)
        \/ /\ ~scripted
           /\ Move(w, [t EXCEPT !.pc = "closing", !.error = TRUE])
           /\ Costs(1)

(* The history at turn n is 2n - 1 messages, the user's first. The window  *)
(* never begins with a reply.                                              *)
RetainedStart(t) ==
  LET start == Positive(2 * t.turn - 1 - Scenario(t).window)
  IN  start + (start % 2)

(* What the Agent decides on at the end of the turn.                       *)
Exchange(t) ==
  [from |-> 2 * t.turn - 2, latest |-> 2, offset |-> RetainedStart(t), claimed |-> t.covered]

Enqueued(t) ==
  LET u == Exchange(t)
      memorable == t.turn \in Scenario(t).memorable
  IN  CASE ~InProcess -> t.queue
        [] HasGap(u) /\ memorable ->
             Append(t.queue, [first |-> ConversationEnd(u) - 2, size |-> 2, refresh |-> FALSE])
        [] ~HasGap(u) /\ (memorable \/ SummaryStale(u)) ->
             Append(t.queue, [first |-> RefreshRun(u).first, size |-> RefreshRun(u).size,
                              refresh |-> TRUE])
        [] OTHER -> t.queue

(* Mutant: a batch is drained a turn later.                                *)
DueLate(t) ==
  /\ InProcess
  /\ \/ options.consolidation = "quiescent"
     \/ options.consolidation = "batched" /\ (t.turn % (BatchTurns + 1)) = 0

(* When the in-process target drains its queue.                            *)
Due(t) ==
  /\ InProcess
  /\ \/ options.consolidation = "quiescent"
     \/ options.consolidation = "batched" /\ (t.turn % BatchTurns) = 0

Texts == {"sound", "wordy", "flawed", "disclosing", "cut"}

(* Memories: an expected one is injected, some source is left out, and all *)
(* that have to be left out are.                                           *)
Sources ==
  [completed: {TRUE}, injects: BOOLEAN, excludes: BOOLEAN, spares: BOOLEAN]
    \cup [completed: {FALSE}, injects: {FALSE}, excludes: {FALSE}, spares: {FALSE}]
AsExpected == [completed |-> TRUE, injects |-> TRUE, excludes |-> TRUE, spares |-> TRUE]

Usual(reply) ==
  /\ reply.text = "sound" /\ reply.sources = AsExpected
  /\ reply.metadata = [prompt |-> "first", setup |-> "first"]

(* The target's reply: the Agent answered and enqueued its job.            *)
Answer(w) ==
  LET t == run[w] IN
    /\ At(w, "asking")
    /\ \E text \in Texts, metadata \in Observations,
          sources \in IF t.turn \in Scenario(t).probes THEN Sources ELSE {AsExpected} :
         LET reply == [text |-> text, metadata |-> metadata, sources |-> sources] IN
           /\ Move(w, [t EXCEPT !.pc = IF Due(t) THEN "draining" ELSE "checking",
                                !.queue = Enqueued(t), !.reply = reply])
           /\ Costs(Price(Usual(reply)))

(* No reply, an error status, or an answer parseChatResponse refuses: the  *)
(* job may have been enqueued all the same.                                *)
AnswerFails(w) ==
  LET t == run[w] IN
    /\ At(w, "asking")
    /\ \E queue \in {t.queue, Enqueued(t)} :
         Move(w, [t EXCEPT !.pc = "closing", !.error = TRUE, !.queue = queue])
    /\ Costs(1)

-----------------------------------------------------------------------------
(* drainQueue, in the turn or in close(): the cursor has passed a job      *)
(* before it is consolidated.                                              *)
Refused(t, job) == job.refresh /\ t.covered < job.first

Draining(w) == At(w, "draining") \/ (At(w, "closing") /\ Consolidates)

Drain(w) ==
  LET t == run[w]
      job == t.queue[t.taken + 1]
      end == job.first + job.size
  IN /\ Draining(w)
     /\ t.taken < Len(t.queue) /\ ~Refused(t, job)
     /\ Move(w, [t EXCEPT !.taken = @ + 1, !.done = Append(@, job),
                          !.covered = IF job.refresh /\ end > @ THEN end ELSE @])
     /\ Costs(0)

AfterDrain(t) == IF t.pc = "draining" THEN "closing" ELSE "assessing"

(* Mutant: what close() throws is not recorded.                            *)
DrainFailsQuietly(w) ==
  LET t == run[w] IN
    /\ Draining(w)
    /\ t.taken < Len(t.queue)
    /\ Move(w, [t EXCEPT !.taken = @ + 1, !.error = @ \/ t.pc = "draining",
                         !.pc = AfterDrain(t)])
    /\ Costs(Price(Refused(t, t.queue[t.taken + 1])))

(* A consolidation throws; nothing takes the job again.                    *)
DrainFails(w) ==
  LET t == run[w] IN
    /\ Draining(w)
    /\ t.taken < Len(t.queue)
    /\ Move(w, [t EXCEPT !.taken = @ + 1, !.error = TRUE, !.pc = AfterDrain(t)])
    /\ Costs(Price(Refused(t, t.queue[t.taken + 1])))

Drained(w) ==
  LET t == run[w] IN
    /\ \/ At(w, "draining") /\ t.taken = Len(t.queue)
          /\ Move(w, [t EXCEPT !.pc = "checking"])
       \/ At(w, "closing") /\ (Consolidates => t.taken = Len(t.queue))
          /\ Move(w, [t EXCEPT !.pc = "assessing"])
    /\ Costs(0)

(* The stable prompt, the policy and the model have to stay the same for   *)
(* the whole conversation, and a reactive pilot gets no cut reply.         *)
Unacceptable(t) ==
  \/ Scenario(t).reactive /\ t.reply.text = "cut"
  \/ t.transcript # <<>> /\ t.reply.metadata # t.metadata

Check(w) ==
  LET t == run[w] IN
    /\ At(w, "checking")
    /\ IF Unacceptable(t)
       THEN Move(w, [t EXCEPT !.pc = "closing", !.error = TRUE])
       ELSE Move(w, [t EXCEPT
              !.pc = IF t.leaving \/ t.turn = Requested(t) THEN "closing" ELSE "speaking",
              !.turn = @ + 1, !.metadata = t.reply.metadata,
              !.transcript = Append(@, [offset |-> RetainedStart(t), text |-> t.reply.text,
                                        sources |-> t.reply.sources])])
    /\ Costs(0)

-----------------------------------------------------------------------------
(* assessMemoryFixture.                                                    *)
Probes(t) == Scenario(t).probes \cap 1..Requested(t)
Probed(t, probe) == t.transcript[probe].sources

PreflightPassed(t) ==
  /\ t.seeded /\ Probes(t) # {}
  /\ \A p \in Probes(t) : p <= Len(t.transcript)
  /\ \A p \in Probes(t) : Probed(t, p).completed /\ Probed(t, p).injects
  /\ \E p \in Probes(t) : Probed(t, p).excludes

PolicyPassed(t) ==
  /\ Probes(t) # {}
  /\ \A p \in Probes(t) : /\ p <= Len(t.transcript)
                          /\ Probed(t, p).injects /\ Probed(t, p).spares

(* Every error there has been, the fixture's included.                     *)
RuntimeError(t) == t.error \/ (Scenario(t).probes # {} /\ ~PreflightPassed(t))

(* evaluateDeterministic: a wordy reply fails the one check of length, a   *)
(* flawed one that and the other checks of style, a disclosing one those   *)
(* that have to pass. An empty reply never reaches the transcript.         *)
Replies(t, text) == \E i \in DOMAIN t.transcript : t.transcript[i].text = text

Completed(t) == Len(t.transcript) = Requested(t) /\ ~RuntimeError(t)

Checks(t) ==
  {[id |-> "completed", weight |-> 3, critical |-> TRUE, passed |-> Completed(t)],
   [id |-> "non_empty", weight |-> 3, critical |-> TRUE, passed |-> TRUE],
   [id |-> "in_character", weight |-> 6, critical |-> TRUE, passed |-> ~Replies(t, "disclosing")],
   [id |-> "concise", weight |-> 1, critical |-> FALSE,
    passed |-> ~Replies(t, "wordy") /\ ~Replies(t, "flawed")],
   [id |-> "style", weight |-> 5, critical |-> FALSE, passed |-> ~Replies(t, "flawed")]}

Weight(checks) == MapThenSumSet(LAMBDA c : c.weight, checks)
Deterministic(t) ==
  LET met == {c \in Checks(t) : c.passed}
      score == (100 * Weight(met)) \div Weight(Checks(t))
      critical == \A c \in Checks(t) : c.critical => c.passed
  IN  [score |-> score, criticalPassed |-> critical, passed |-> critical /\ score >= 80]

(* evaluateWithJudge over one judgment for each replica: median dimensions *)
(* on the five-point scale, the fall from the first quarter to the last,   *)
(* and the failures two judges agree on.                                   *)
TwiceMedian(s) ==
  LET sorted == SortSeq(s, <)
      n == Len(s)
  IN  IF (n % 2) = 1 THEN 2 * sorted[n \div 2 + 1]
                   ELSE sorted[n \div 2] + sorted[n \div 2 + 1]

Field(judgments, f) == [i \in DOMAIN judgments |-> judgments[i][f]]
Normalized(judgments, f) == (100 * (TwiceMedian(Field(judgments, f)) - 2)) \div 8

(* Consensus is one vote per replica.                                      *)
CriticalFailures(judgments) ==
  LET needed == IF Len(judgments) = 1 THEN 1 ELSE 2
      codes == UNION {judgments[i].failures : i \in DOMAIN judgments}
  IN  {c \in codes :
         Cardinality({i \in DOMAIN judgments : c \in judgments[i].failures}) >= needed}

Drop(judgments) ==
  TwiceMedian(Field(judgments, "first")) - TwiceMedian(Field(judgments, "last"))

JudgeReport(judgments) ==
  [replicas |-> Len(judgments),
   criticalFailures |-> CriticalFailures(judgments),
   score |-> (7 * Normalized(judgments, "common") + 3 * Normalized(judgments, "own")) \div 10,
   passed |-> /\ \A f \in {"common", "own"} : TwiceMedian(Field(judgments, f)) >= 6
              /\ Drop(judgments) <= 1
              /\ CriticalFailures(judgments) = {}]

(* meetsH30ScenarioContract; long: thirty minutes or more in at least four *)
(* phases.                                                                 *)
MeetsH30Contract(s) ==
  /\ s.turns >= H30Turns /\ s.long
  /\ \E early, late \in s.beats : late - early >= BeatDistance

(* The result runTrajectory returns. No judgment was made where judgments  *)
(* is empty; judgeFailed says that one was asked for and failed.           *)
Result(t, judgments, judgeFailed) ==
  LET judged == Len(judgments) > 0
      judge == JudgeReport(judgments)
      deterministic == Deterministic(t)
      error == RuntimeError(t) \/ judgeFailed
      critical == deterministic.criticalPassed /\ (judged => judge.criticalFailures = {})
      base == IF judged THEN (4 * deterministic.score + 6 * judge.score) \div 10
                        ELSE deterministic.score
      score == IF critical /\ ~error THEN base ELSE 0
  IN  [item |-> t.item, metadata |-> t.metadata, requested |-> Requested(t),
       completed |-> Len(t.transcript), error |-> error, score |-> score,
       complete |-> Completed(t), criticalPassed |-> critical,
       windowed |-> \E i \in DOMAIN t.transcript : t.transcript[i].offset > 0,
       preflight |-> PreflightPassed(t), policy |-> PolicyPassed(t),
       judged |-> judged, replicas |-> Len(judgments), judgePassed |-> judged /\ judge.passed,
       owed |-> Len(t.queue) - Len(t.done),
       certified |->
         /\ options.mode = "h30" /\ ~error
         /\ MeetsH30Contract(Scenario(t))
         /\ Requested(t) = Scenario(t).turns /\ Len(t.transcript) = Requested(t)
         /\ judged /\ Len(judgments) >= 2 /\ options.distinct,
       passed |->
         /\ ~Scenario(t).reactive /\ options.mode # "structure"
         /\ critical /\ deterministic.passed /\ (judged => judge.passed)
         /\ score >= Scenario(t).passThreshold /\ ~error]

Converse(w) ==
  \/ Seed(w) \/ Speak(w) \/ Answer(w) \/ AnswerFails(w)
  \/ Drain(w) \/ DrainFails(w) \/ Drained(w) \/ Check(w)

=============================================================================
