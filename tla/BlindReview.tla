---------------------------- MODULE BlindReview ----------------------------
(***************************************************************************)
(* evals/review.ts: two reviewers judge the transcripts of a diagnostic    *)
(* report without knowing whose they are. Each gets a packet with the      *)
(* items in another order and the pairs the other way round; the private   *)
(* key says what every item and pair stands for.                           *)
(*                                                                         *)
(* A transcript is its run id. The orders and sides, which the code takes    *)
(* from digests, are any.                                                  *)
(***************************************************************************)
EXTENDS Integers, Sequences, SequencesExt, FiniteSets

Slots == {"reviewer-a", "reviewer-b"}

(* createCanonicalPairs, in one scenario's pairing order; the key of a pair*)
(* is its two transcripts, whichever comes first.                          *)
CanonicalPairs(ordered) ==
  LET n == Len(ordered)
      pair(i, j) == [first |-> ordered[i], second |-> ordered[j]]
  IN  {pair(i, i + 1) : i \in {k \in 1..(n - 1) : (k % 2) = 1}}
        \cup (IF (n % 2) = 1 THEN {pair(n, 1)} ELSE {})

Orders(S) == {o \in [1..Cardinality(S) -> S] : \A x \in S : \E i \in DOMAIN o : o[i] = x}

Shown(pair, swap) ==
  [key |-> {pair.first, pair.second},
   left |-> IF swap THEN pair.second ELSE pair.first,
   right |-> IF swap THEN pair.first ELSE pair.second]

(* The packets and their key for the order of the items, the order of the  *)
(* pairs and the pairs whose first transcript is on the left.              *)
Bundle(items, pairs, firstOnLeft) ==
  LET packet(order, display, slot) ==
        [slot |-> slot, items |-> order,
         pairs |-> [i \in DOMAIN display |->
           Shown(display[i], (slot = "reviewer-a") # (display[i] \in firstOnLeft))]]
  IN  [slot \in Slots |->
         IF slot = "reviewer-a" THEN packet(items, pairs, slot)
                                ELSE packet(Reverse(items), Reverse(pairs), slot)]

Bundles(transcripts, pairings) ==
  UNION {UNION {{Bundle(items, pairs, left) : left \in SUBSET ToSet(pairs),
                                              items \in Orders(transcripts)}
                : pairs \in Orders(pairing)} : pairing \in pairings}

-----------------------------------------------------------------------------
(* What the form admits of a pair: a side, neither, or no answer.          *)
Answers(opinion, packet) ==
  \A i \in DOMAIN packet.pairs :
    LET pair == packet.pairs[i]
    IN  opinion.winner[pair.key] \in {pair.left, pair.right, "tie", "both_bad", "abstain"}

(* A reviewer who thinks opinion.verdict of a transcript and               *)
(* opinion.winner of a pair fills in the packet's form.                    *)
Filled(packet, opinion, alias) ==
  [packet |-> packet.slot, alias |-> alias, status |-> "complete",
   verdicts |-> [i \in DOMAIN packet.items |-> opinion.verdict[packet.items[i]]],
   winners |-> [i \in DOMAIN packet.pairs |->
     LET pair == packet.pairs[i]
         winner == opinion.winner[pair.key]
     IN  CASE winner = pair.left -> "left" [] winner = pair.right -> "right" [] OTHER -> winner]]

(* The form as review-prepare wrote it, and one called complete with only  *)
(* its transcripts or only its pairs answered.                             *)
Draft(packet) ==
  [packet |-> packet.slot, alias |-> "replace-with-private-alias", status |-> "draft",
   verdicts |-> [i \in DOMAIN packet.items |-> "not-reviewed"],
   winners |-> [i \in DOMAIN packet.pairs |-> "not-reviewed"]]

HalfFilled(packet, alias) ==
  LET form == [Draft(packet) EXCEPT !.alias = alias, !.status = "complete"]
  IN  {[form EXCEPT !.verdicts = [i \in DOMAIN packet.items |-> "pass"]],
       [form EXCEPT !.winners = [i \in DOMAIN packet.pairs |-> "tie"]]}

(* Mutant: sides are compared as they were shown.                          *)
CanonicalWinnerShown(pair, winner) == winner

CanonicalWinner(pair, winner) ==
  CASE winner = "left" -> pair.left [] winner = "right" -> pair.right [] OTHER -> winner

(* What a submission says of a transcript or pair, looked up by the key.   *)
VerdictOf(packet, submission, transcript) ==
  submission.verdicts[CHOOSE i \in DOMAIN packet.items : packet.items[i] = transcript]

WinnerOf(packet, submission, key) ==
  LET i == CHOOSE k \in DOMAIN packet.pairs : packet.pairs[k].key = key
  IN  CanonicalWinner(packet.pairs[i], submission.winners[i])

Keys(packet) == {packet.pairs[i].key : i \in DOMAIN packet.pairs}

(* Both complete, of the two packets, by two people, and answering every   *)
(* item and pair.                                                          *)
Acceptable(packets, submissions) ==
  /\ \A slot \in Slots :
       /\ submissions[slot].status = "complete"
       /\ "not-reviewed" \notin
            ToSet(submissions[slot].verdicts) \cup ToSet(submissions[slot].winners)
       /\ DOMAIN submissions[slot].verdicts = DOMAIN packets[slot].items
       /\ DOMAIN submissions[slot].winners = DOMAIN packets[slot].pairs
  /\ submissions["reviewer-a"].packet # submissions["reviewer-b"].packet
  /\ submissions["reviewer-a"].alias # submissions["reviewer-b"].alias

Verdicts(packets, submissions) ==
  [x \in ToSet(packets["reviewer-a"].items) |->
     {VerdictOf(packets[slot], submissions[slot], x) : slot \in Slots}]

Preferences(packets, submissions) ==
  [key \in Keys(packets["reviewer-a"]) |->
     {WinnerOf(packets[slot], submissions[slot], key) : slot \in Slots}]

Unsettled(opinions) ==
  \E x \in DOMAIN opinions : "abstain" \in opinions[x] \/ Cardinality(opinions[x]) > 1

(* Where a reviewer and the automatic judge part.                          *)
FalsePasses(packet, submission, passed) ==
  {x \in ToSet(packet.items) \cap passed : VerdictOf(packet, submission, x) = "fail"}
FalseFails(packet, submission, passed) ==
  {x \in ToSet(packet.items) \ passed : VerdictOf(packet, submission, x) = "pass"}

(* aggregateNaturalnessBlindReviews; passed: transcripts the judge passed. *)
Agreement(packets, submissions, passed) ==
  [status |-> IF Unsettled(Verdicts(packets, submissions)) \/ Unsettled(Preferences(packets, submissions))
              THEN "needs-adjudication" ELSE "reviewers-agree",
   falsePass |-> [s \in Slots |-> FalsePasses(packets[s], submissions[s], passed)],
   falseFail |-> [s \in Slots |-> FalseFails(packets[s], submissions[s], passed)]]

=============================================================================
