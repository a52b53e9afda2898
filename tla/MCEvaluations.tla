--------------------------- MODULE MCEvaluations ---------------------------
EXTENDS Evaluations

MCStandard == [passRate |-> 80, meanScore |-> 80, p10Score |-> 70, range |-> 10]

(* Scenarios: three exchanges and a window of two make the smallest        *)
(* certifying one.                                                         *)
Plain ==
  [id |-> "plain", turns |-> 3, window |-> 4, beats |-> {1, 3}, probes |-> {}, long |-> TRUE,
   reactive |-> FALSE, memorable |-> {}, passThreshold |-> 78]
Chatty == [Plain EXCEPT !.id = "chatty", !.memorable = {2, 3}]
Lengthy(memorable) ==
  [Plain EXCEPT !.turns = 6, !.beats = {1, 6}, !.memorable = memorable]
Pilot == [Plain EXCEPT !.id = "pilot", !.turns = 2, !.beats = {1}, !.reactive = TRUE]
Fixture == [Plain EXCEPT !.id = "fixture", !.probes = {1, 3}]

Standard2 ==
  [suite |-> <<Plain, Chatty>>, mode |-> "h30", profile |-> "standard", cases |-> {"all"},
   characters |-> <<>>, runs |-> 0, turns |-> 0, replicas |-> 2, distinct |-> TRUE,
   target |-> "in-process", consolidation |-> "batched", budget |-> 1, reviewed |-> FALSE]

(* The certifying run, quiescent and batched.                              *)
Certifying == {Standard2, [Standard2 EXCEPT !.consolidation = "quiescent"]}

(* One long conversation, whatever is memorable in it.                     *)
Long ==
  {[Standard2 EXCEPT !.suite = <<Lengthy(m), Chatty>>, !.cases = {"plain"},
                     !.consolidation = c] :
     m \in SUBSET (1..6), c \in {"quiescent", "batched"}}

(* A subset, a short cut, an override, an empty selection, one judgment or *)
(* none, requests with room for the whole conversation.                    *)
Roomy(s) == [s EXCEPT !.window = 6]
Partial ==
  {[Standard2 EXCEPT !.cases = {"plain"}], [Standard2 EXCEPT !.cases = {}],
   [Standard2 EXCEPT !.turns = 2, !.replicas = 1], [Standard2 EXCEPT !.replicas = 1],
   [Standard2 EXCEPT !.suite = <<Roomy(Plain), Roomy(Chatty)>>],
   [Standard2 EXCEPT !.profile = "smoke", !.replicas = 1],
   [Standard2 EXCEPT !.distinct = FALSE, !.replicas = 0, !.consolidation = "none"],
   [Standard2 EXCEPT !.suite = <<Plain, Pilot>>]}

Repeated ==
  {[Standard2 EXCEPT !.profile = "confidence"],
   [Standard2 EXCEPT !.profile = "confidence", !.runs = 1]}

Structure ==
  {[Standard2 EXCEPT !.suite = <<Fixture>>, !.mode = m, !.replicas = 0, !.budget = 2] :
     m \in {"structure", "diagnostic"}}

Diagnostic ==
  [Standard2 EXCEPT !.suite = <<Plain>>, !.mode = "diagnostic", !.target = "http",
                    !.characters = <<"mina", "joon">>, !.replicas = 3]
Diagnostics ==
  {Diagnostic,
   [Diagnostic EXCEPT !.suite = <<Pilot>>],
   [Diagnostic EXCEPT !.suite = <<Plain, Fixture>>, !.characters = <<"mina">>],
   [Diagnostic EXCEPT !.characters = <<"mina", "joon", "sora">>, !.replicas = 1,
                      !.turns = 1, !.reviewed = TRUE, !.budget = 0]}

MCOptions ==
  Certifying \cup Long \cup Partial \cup Repeated \cup Structure \cup Diagnostics

MCApproval ==
  [common |-> 5, own |-> 5, first |-> 5, last |-> 5, failures |-> {}]
MCJudgments ==
  {MCApproval, [MCApproval EXCEPT !.common = 2], [MCApproval EXCEPT !.last = 4],
   [MCApproval EXCEPT !.failures = {"ai_disclosure"}]}

MCRunIds == <<"run-1", "run-2", "run-3">>

(* Verdicts with one doubtful transcript at most; pairs won by the earlier *)
(* or the later run, or left open.                                         *)
Compared == {{1, 2}, {1, 3}, {2, 3}}
Key(pair) == {MCRunIds[i] : i \in pair}
Winners(winner(_)) ==
  [key \in {Key(pair) : pair \in Compared} |->
     winner(CHOOSE pair \in Compared : Key(pair) = key)]
MCThoughts ==
  [verdict: {[x \in {MCRunIds[i] : i \in 1..3} |-> IF x = MCRunIds[odd] THEN v ELSE "pass"] :
               odd \in {1, 3}, v \in {"pass", "fail", "abstain"}},
   winner: {Winners(LAMBDA pair : MCRunIds[Min(pair)]), Winners(LAMBDA pair : MCRunIds[Max(pair)]),
            Winners(LAMBDA pair : "abstain")}]

(* The window NothingFallsBetween needs.                                   *)
ASSUME WindowAssumption == \A o \in MCOptions : WideWindow(o)

=============================================================================
