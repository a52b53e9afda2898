----------------------------- MODULE MCChatTurn -----------------------------
(* One turn of a character with two first-contact blocks (one text), two    *)
(* pieces of lore, an authored event and three stored memories, two of them *)
(* with one text; two tool calls per answer and two answers.                *)
EXTENDS ChatTurn

Block(id, injection) == [id |-> id, injection |-> injection]

MCBlocks == << Block("core", "always"), Block("old", "legacy"), Block("hello", "greeting"),
               Block("start1", "start_only"), Block("start2", "start_only"),
               Block("lore1", "retrieved"), Block("lore2", "retrieved"), Block("note", "never_prompt") >>
MCCanon  == << Block("fact", "legacy"), Block("vow", "always"), Block("event", "retrieved") >>

MCAlwaysMemory == {"rule"}

MCTextOf == [id \in {"core", "old", "hello", "start1", "start2", "lore1", "lore2", "note",
                     "fact", "vow", "event", "rule", "m1", "m2", "m3"} |->
  CASE id \in {"start1", "start2"} -> "welcome" [] id \in {"m1", "m2"} -> "likes tea"
    [] id = "lore1" -> "home" [] id = "lore2" -> "past" [] id = "event" -> "storm"
    [] id = "rule" -> "allergy" [] OTHER -> "words"]
MCSizeOf == [t \in {"welcome", "likes tea", "home", "past", "storm", "allergy", "words"} |->
  IF t \in {"past", "storm"} THEN 2 ELSE 1]

Candidate(id, near, words, weight) == [id |-> id, near |-> near, words |-> words, weight |-> weight]

\* What the store may find: orders, hits of one stream only, no hit at all.
Founds ==
  {<<Candidate("m1", n[1], w[1], n[1] + 1), Candidate("m2", n[2], w[2], 2), Candidate("m3", n[3], w[3], n[3])>> :
     n \in {<<2, 1, 0>>, <<0, 0, 1>>, <<0, 0, 0>>, <<1, 2, 2>>}, w \in {<<0, 0, 1>>, <<0, 2, 1>>, <<0, 0, 0>>}}
  \cup {<<>>, <<Candidate("m3", 1, 0, 1)>>}

Cues(ids) == [id \in {"lore1", "lore2", "event"} |-> IF id \in ids THEN 2 ELSE 0]
AllCues   == [id \in DOMAIN MCTextOf |-> IF id \in {"lore1", "lore2", "event"} THEN Cues({"lore2", "event"})[id] ELSE 0]
NoCues    == [id \in DOMAIN MCTextOf |-> 0]
Queries   == {[now |-> AllCues, before |-> NoCues, follow |-> FALSE],
              [now |-> NoCues, before |-> [NoCues EXCEPT !["lore1"] = 1, !["lore2"] = 1], follow |-> TRUE]}

Indexes == {[indexed |-> FALSE, index |-> {}, stale |-> {}],
            [indexed |-> TRUE, index |-> {"lore1", "lore2", "event"}, stale |-> {"lore2"}]}

\* A first message sent again, one more exchange, a window that begins later.
MCReadings ==
  {[offset |-> p[1], earlier |-> p[2], answered |-> p[4], covered |-> p[3], bond |-> TRUE, integrated |-> m >= 0,
    query |-> q, indexed |-> m >= 0 /\ x.indexed, index |-> x.index, stale |-> x.stale,
    always |-> a, found |-> f, base |-> 4, max |-> 3 + m] :
     p \in {<<0, 1, 0, FALSE>>, <<0, 2, 2, TRUE>>, <<1, 2, 3, TRUE>>}, m \in {0 - 1, 0, 3, 5, 8, 12, 20},
     q \in Queries, x \in Indexes, a \in {<<>>, <<[id |-> "rule"]>>}, f \in Founds}
=============================================================================
