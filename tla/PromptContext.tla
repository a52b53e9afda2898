--------------------------- MODULE PromptContext ---------------------------
(***************************************************************************)
(* What one persona turn puts in front of the model, and what it reports   *)
(* about it: routing of the authored blocks, recall by cue, ranking of     *)
(* memories, the byte budget, and the debug metadata with the parser that  *)
(* the evaluations read it back with.  Operators only: ChatTurn applies    *)
(* them in the step that prepares a turn.                                  *)
(*                                                                         *)
(* A text is a model value, its bytes a number; a section heading costs    *)
(* SectionBytes.  Two entries with one text are those the code's           *)
(* fingerprint (owner, then normalised content) makes equal.               *)
(***************************************************************************)
EXTENDS Integers, FiniteSets, FiniteSetsExt, SequencesExt

CONSTANTS
  Blocks,        \* the persona's blocks: <<[id, injection]>>
  Canon,         \* its canon memories, likewise
  AlwaysMemory,  \* ids of rows whose injection mode is "always"
  TextOf,        \* id -> text
  SizeOf,        \* text -> bytes
  SectionBytes,  \* bytes of one section heading
  TopK,          \* config.retrieveTopK
  MinRelevance,  \* the gate of the weighted ranking
  RecallRoom,    \* code points one cue recall may use (1200 in the code)
  RecallMost     \* ids one cue recall may return (4 in the code)

Injections == {"legacy", "greeting", "always", "never_prompt", "start_only", "retrieved"}

ASSUME PromptAssumption ==
  /\ \A rows \in {Blocks, Canon} :
       /\ Len(rows) \in Nat /\ DOMAIN rows = 1 .. Len(rows)
       /\ \A i \in DOMAIN rows : rows[i].injection \in Injections
       /\ \A i, j \in DOMAIN rows : rows[i].id = rows[j].id => i = j
  /\ TopK \in Nat

\* The rows of a list at some of its places.
IdsOf(rows, places) == {rows[i].id : i \in places}

----------------------------------------------------------------------------
(* Ranking.  A candidate is [id, near, words, weight]: cosine (in steps),  *)
(* number of query words it contains, and its weighted score.              *)

\* 1/(61+i) for the i-th hit of a stream, exact for up to four candidates.
Share(place) == (61 * 62 * 63 * 64) \div (60 + place)

Key(found, field) == [i \in DOMAIN found |-> found[i][field]]

\* Reciprocal-rank share of candidate i in the stream of those with a key.
StreamShare(keys, i) ==
  IF keys[i] = 0 THEN 0
  ELSE Share(1 + Cardinality({j \in DOMAIN keys :
         keys[j] > keys[i] \/ (keys[j] = keys[i] /\ j < i)}))

Score(found, i, hybrid) ==
  IF hybrid THEN StreamShare(Key(found, "near"), i) + StreamShare(Key(found, "words"), i)
            ELSE found[i].weight

\* 1..n in the order of a strict total order.
Ordered(n, Before(_, _)) ==
  [p \in 1 .. n |-> CHOOSE i \in 1 .. n : Cardinality({j \in 1 .. n : Before(j, i)}) = p - 1]

\* The indices of a sequence of keys, largest first, ties in order.
Descending(keys) ==
  Ordered(Len(keys), LAMBDA i, j : keys[i] > keys[j] \/ (keys[i] = keys[j] /\ i < j))

\* The first n of a set of places.
FirstOf(places, n) == {p \in places : Cardinality({q \in places : q < p}) < n}

\* Every candidate in rank order with the reason it was taken or left out.
Ranked(found, hybrid) ==
  LET at == Descending([i \in DOMAIN found |-> Score(found, i, hybrid)])
      fit(p) == IF hybrid THEN Score(found, at[p], hybrid) > 0 ELSE found[at[p]].near > MinRelevance
      repeats(p, of) == hybrid /\ \E q \in of : q < p /\ TextOf[found[at[q]].id] = TextOf[found[at[p]].id]
      hits  == {p \in DOMAIN found : fit(p)}
      taken == FirstOf({p \in hits : ~repeats(p, hits)}, TopK)
  IN [p \in DOMAIN found |->
       [id |-> found[at[p]].id,
        reason |-> IF p \in taken THEN "selected_top_k"
                   ELSE IF repeats(p, taken) THEN "duplicate_content"
                   ELSE IF p \in hits THEN "outside_top_k" ELSE "below_relevance_threshold"]]

Selected(ranked) == {p \in DOMAIN ranked : ranked[p].reason = "selected_top_k"}

----------------------------------------------------------------------------
(* Recall by authored cue and routing of the persona.                      *)

\* A query is [now, before, follow]: the length of the longest cue of each id
\* in the latest and in the preceding user message, and whether the latest is a
\* short referential follow-up that cuts no topic.
CueOf(query, rows) ==
  IF query.follow /\ \A r \in ToSet(rows) : query.now[r.id] = 0 THEN query.before ELSE query.now

RecallIds(query, rows) ==
  LET cue  == CueOf(query, rows)
      hits == SelectSeq(rows, LAMBDA r : cue[r.id] > 0)
      Keep(ids, i) ==
        LET used == FoldLeft(LAMBDA n, id : n + SizeOf[TextOf[id]], 0, ids)
        IN IF \/ Len(ids) = RecallMost
              \/ SizeOf[TextOf[hits[i].id]] > RecallRoom - used
              \/ \E id \in ToSet(ids) : TextOf[id] = TextOf[hits[i].id]
           THEN ids ELSE Append(ids, hits[i].id)
  IN ToSet(FoldLeft(Keep, <<>>, Descending([i \in DOMAIN hits |-> cue[hits[i].id]])))

\* routePersona for one block: where it goes and the reason that is reported.
RouteBlock(block, start, wanted) ==
  LET to(destination, reason) == [id |-> block.id, injection |-> block.injection,
                                  destination |-> destination, reason |-> reason]
  IN CASE block.injection = "legacy"       -> to("system_prompt", "legacy_default_always")
       [] block.injection = "greeting"     -> to("excluded", "legacy_reactive_greeting_excluded")
       [] block.injection = "always"       -> to("system_prompt", "always_in_system_prompt")
       [] block.injection = "never_prompt" -> to("excluded", "never_prompt")
       [] block.injection = "start_only" /\ start  -> to("turn_context", "start_only_first_turn")
       [] block.injection = "start_only" /\ ~start -> to("excluded", "start_only_after_first_turn")
       [] block.injection = "retrieved" /\ block.id \in wanted    -> to("turn_context", "retrieved_for_turn")
       [] block.injection = "retrieved" /\ block.id \notin wanted -> to("excluded", "not_retrieved")

Route(rows, start, wanted) == [i \in DOMAIN rows |-> RouteBlock(rows[i], start, wanted)]

\* startOnlyBlocks, retrievedBlocks, retrievedCanonMemories: their places.
InContext(routed, injection) ==
  {i \in DOMAIN routed : routed[i].destination = "turn_context" /\ routed[i].injection = injection}

----------------------------------------------------------------------------
(* The byte budget.  An entry is [type, id, section, priority, place];      *)
(* place is its position in the list of entries.                           *)

MemorySection(id) == IF id \in AlwaysMemory THEN "always_memories" ELSE "retrieved_memories"

Section(type, id) ==
  CASE type = "start"  -> "persona_start"      [] type = "persona" -> "persona_retrieved"
    [] type = "canon"  -> "character_memories" [] type = "memory"  -> MemorySection(id)

\* Of the i-th of its kind, the first being 0.
Priority(type, id, i) ==
  CASE type = "start"  -> 90     [] type = "persona" -> 60 - i
    [] type = "canon"  -> 50 - i [] type = "memory"  -> (IF id \in AlwaysMemory THEN 80 ELSE 40) - i

\* The rows at some places; the list starts after `before` others, of which
\* `ahead` are of its kind.
EntriesOf(rows, places, type, before, ahead) ==
  {[type |-> type, id |-> rows[i].id, section |-> Section(type, rows[i].id),
    priority |-> Priority(type, rows[i].id, ahead + Cardinality({j \in places : j < i})),
    place |-> before + i] : i \in places}

\* memories: the always memories, then what was recalled besides.
Recalled(in, ranked) ==
  {p \in Selected(ranked) : ranked[p].id \notin IdsOf(in.always, DOMAIN in.always)}

Entries(in, blocks, canon, ranked) ==
  LET memories == 2 * Len(Blocks) + Len(Canon)
  IN EntriesOf(blocks, InContext(blocks, "start_only"), "start", 0, 0)
       \cup EntriesOf(blocks, InContext(blocks, "retrieved"), "persona", Len(Blocks), 0)
       \cup EntriesOf(canon, InContext(canon, "retrieved"), "canon", 2 * Len(Blocks), 0)
       \cup EntriesOf(in.always, DOMAIN in.always, "memory", memories, 0)
       \cup EntriesOf(ranked, Recalled(in, ranked), "memory", memories + Len(in.always), Len(in.always))

\* The first entry of every (owner, content) stays.
Distinct(entries) ==
  {e \in entries : ~\E first \in entries :
     first.place < e.place /\ first.type = e.type /\ TextOf[first.id] = TextOf[e.id]}

\* No two entries that are measured have owner and content in common.
Bytes(entries) ==
  MapThenSumSet(LAMBDA e : SizeOf[TextOf[e.id]], entries)
    + SectionBytes * Cardinality({e.section : e \in entries})

\* Mutant: the entry listed last goes first, whatever it is worth.
GoesByPlace(d, e) == d.place > e.place

\* removalOrder: lowest priority first, and among equals the one listed last.
GoesBefore(d, e) == d.priority < e.priority \/ (d.priority = e.priority /\ d.place > e.place)

\* The first k in that order are removed.
Without(entries, k) == {e \in entries : Cardinality({d \in entries : GoesBefore(d, e)}) >= k}

Fits(entries, k, base, max) == base + Bytes(Without(entries, k)) <= max

\* fitContextBudget: how many entries go; one more than there are is an overflow.
Removed(entries, base, max) ==
  LET fitting == {k \in 0 .. Cardinality(entries) : Fits(entries, k, base, max)}
  IN IF fitting = {} THEN Cardinality(entries) + 1 ELSE CHOOSE k \in fitting : \A j \in fitting : k <= j

----------------------------------------------------------------------------
(* A prepared turn.  `in` is what the reads returned: see ChatTurn.        *)

Start(in) == in.offset = 0 /\ ~in.answered

\* The cues of the rows to be retrieved, or the ids a persona index returned
\* whose stored hash is current.
Wanted(in, rows) ==
  IF in.indexed THEN in.index \ in.stale
  ELSE RecallIds(in.query, SelectSeq(rows, LAMBDA r : r.injection = "retrieved"))

\* A summary that the raw messages of the request cover already is left out.
SummaryShown(in) == in.covered > 0 /\ ~(in.integrated /\ in.offset = 0 /\ in.covered <= in.earlier)

\* Mutant: what the budget removed stays reported as placed.
DemoteNothing(routed, kept) == routed

\* Mutant: what the budget removed keeps the reason it was placed for.
DemoteKeepingReason(routed, kept) ==
  [i \in DOMAIN routed |-> IF routed[i].destination = "turn_context" /\ routed[i].id \notin kept
     THEN [routed[i] EXCEPT !.destination = "excluded"] ELSE routed[i]]

\* A source that the budget removed is reported as not retrieved.
Demote(routed, kept) ==
  [i \in DOMAIN routed |-> IF routed[i].destination = "turn_context" /\ routed[i].id \notin kept
     THEN [routed[i] EXCEPT !.destination = "excluded", !.reason = "not_retrieved"] ELSE routed[i]]

\* The sections assembleTurnContext writes for the entries it is given.
Written(in, entries) ==
  {"current_moment"} \cup (IF in.bond THEN {"bond"} ELSE {})
    \cup (IF SummaryShown(in) THEN {"conversation_summary"} ELSE {})
    \cup {e.section : e \in entries}

\* contextSectionNames, from the lists that are left after the budget.
SectionNames(in, start, persona, canon, memories) ==
  LET name(cond, section) == IF cond THEN {section} ELSE {}
  IN {"current_moment"} \cup name(in.bond, "bond") \cup name(start # {}, "persona_start")
       \cup name(persona # {}, "persona_retrieved") \cup name(canon # {}, "character_memories")
       \cup name(memories \cap AlwaysMemory # {}, "always_memories")
       \cup name(SummaryShown(in), "conversation_summary")
       \cup name(memories \ AlwaysMemory # {}, "retrieved_memories")

\* What routing, ranking and the budget make of the reads.
BlocksOf(in) == Route(Blocks, Start(in), Wanted(in, Blocks))

CanonOf(in) ==
  Route(Restrict(Canon, {i \in DOMAIN Canon : Canon[i].injection # "legacy"}), FALSE, Wanted(in, Canon))

Optional(in, blocks, canon, ranked) ==
  IF in.integrated THEN Distinct(Entries(in, blocks, canon, ranked)) ELSE Entries(in, blocks, canon, ranked)

RemovedOf(in, optional) == IF in.integrated THEN Removed(optional, in.base, in.max) ELSE 0

\* The rows of a list that are among the entries left.
Left(ids, type, entries) == {id \in ids : \E e \in entries : e.type = type /\ e.id = id}

StartLeft(blocks, entries)   == Left(IdsOf(blocks, InContext(blocks, "start_only")), "start", entries)
PersonaLeft(blocks, entries) == Left(IdsOf(blocks, InContext(blocks, "retrieved")), "persona", entries)
CanonLeft(canon, entries)    == Left(IdsOf(canon, InContext(canon, "retrieved")), "canon", entries)
MemoriesLeft(in, ranked, entries) ==
  Left(IdsOf(in.always, DOMAIN in.always) \cup IdsOf(ranked, Recalled(in, ranked)), "memory", entries)

\* Every candidate, and whether it is in the prompt.
Sources(ranked, left) ==
  [p \in DOMAIN ranked |->
    [id |-> ranked[p].id, reason |-> ranked[p].reason,
     injected |-> ranked[p].reason = "selected_top_k" /\ ranked[p].id \in left]]

\* The body of ChatService.prepare after its reads: the entries that reach the
\* prompt, and the metadata reported beside them.
Prepared(in) ==
  LET ranked   == Ranked(in.found, in.integrated)
      blocks   == BlocksOf(in)
      canon    == CanonOf(in)
      optional == Optional(in, blocks, canon, ranked)
      k        == RemovedOf(in, optional)
      entries  == Without(optional, k)
      starts   == StartLeft(blocks, entries)
      personas == PersonaLeft(blocks, entries)
      canons   == CanonLeft(canon, entries)
      memories == MemoriesLeft(in, ranked, entries)
  IN IF k > Cardinality(optional)
     THEN [status |-> "overflow", optional |-> optional]
     ELSE [status  |-> "ready", optional |-> optional, entries |-> entries,
           dropped |-> optional \ entries,
           blocks  |-> Demote(blocks, starts \cup personas),
           canon   |-> Demote(canon, canons),
           sources |-> Sources(ranked, memories),
           names   |-> SectionNames(in, starts, personas, canons, memories)]

----------------------------------------------------------------------------
(* parsePromptDebug of the evaluation target.                              *)

ParsedSections == {"current_moment", "bond", "persona_start", "persona_retrieved",
                   "character_memories", "core_memory", "conversation_summary", "retrieved_memories"}

\* personaRouteFieldsAgree: the injection and destination each reason goes with.
FieldsAgree(source) ==
  <<source.reason, source.injection, source.destination>> \in
    { <<"always_in_system_prompt", "always", "system_prompt">>,
      <<"start_only_first_turn", "start_only", "turn_context">>,
      <<"start_only_after_first_turn", "start_only", "excluded">>,
      <<"retrieved_for_turn", "retrieved", "turn_context">>,
      <<"not_retrieved", "retrieved", "excluded">>,
      <<"never_prompt", "never_prompt", "excluded">>,
      <<"legacy_default_always", "legacy", "system_prompt">>,
      <<"legacy_reactive_greeting_excluded", "greeting", "excluded">> }

Parses(prompt, base, max, budgeted) ==
  LET ids == prompt.entries \cup prompt.dropped
  IN /\ prompt.names \subseteq ParsedSections
     /\ \A i \in DOMAIN prompt.blocks : FieldsAgree(prompt.blocks[i])
     /\ \A i \in DOMAIN prompt.sources :
          prompt.sources[i].injected => prompt.sources[i].reason = "selected_top_k"
     /\ budgeted => /\ \A d, e \in ids : d.type = e.type /\ d.id = e.id => d = e
                    /\ base + Bytes(prompt.entries) <= max
=============================================================================
