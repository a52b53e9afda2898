# opod-agent: specifications, model checking and proofs

opod-agent is a chat service with a memory: it answers OpenAI-style chat requests in the voice of a
character, and after the reply it judges the relationship, queues the exchange for *consolidation* and
later folds it into long-term memory, reflections and a running summary. A command line evaluates it
with simulated conversations. This directory specifies one request from its prompt to its last frame,
the parts that keep state across turns, processes and retries, and the evaluations; it checks them with
TLC and proves the central properties with TLAPS. Paths are relative to the repository (`src/` is the service itself).

## 1. The system

### Components, their state and their operations

| Component | State | Operations |
|---|---|---|
| Job queue (`memory/postgres-job-queue.ts`) | table `chat_memory_consolidation_jobs` | `enqueueMemoryUpdate`: INSERT, a known key is ignored |
| Worker (`memory/consolidation-worker.ts`) | the same table, one advisory lock per relationship, `running`, `stopRequested` | `start`, `stop`, `drain`, `tick` (claim, validate, lock, consolidate, finish / requeue / defer, unlock) |
| Consolidation (`memory/consolidation.ts`) | none of its own | three stages: observations, reflection, summary |
| Reflector (`memory/reflection.ts`) | none | questions, evidence, synthesis, store |
| Memory store (`memory/postgres-memory-store.ts`) | `chat_memory_entries`, the relationship row, `chat_memory_session_summaries`, the ledger `chat_applied_state_changes` | `upsertMany`, `addImportance`, `consumeReflectionBudget`, `grantBond`, `getSummary`, `saveSummary`, `retrieve`, ... |
| Bond policy (`memory/bond.ts`) | pure | `nextBondState`, levels, service days |
| Chat service (`chat/chat-service.ts`, `chat/consolidation-policy.ts`) | per turn: the summary it read, persona, memories | `prepare`, `postTurn` (`judgeBond` and `enqueueConsolidation` in parallel), `decideConsolidation` |
| HTTP routes (`chat/http-route.ts`, `memory/http-route.ts`, `http/request-lifecycle.ts`) | per request: a promise chain of frames, the signal of disconnect or deadline | stream or complete a turn; run a consolidation outside of the worker |
| Tool loop (`chat/tool-loop.ts`, `chat/tool-loop-wire.ts`, `tools/`) | per turn: messages, result cache, held-back chunks, what `share_photo` and `express_thought` did | bounded iterations of model call and tool calls |
| Context budget (`chat/context-budget.ts`) | pure | drop optional entries by priority until the request fits |
| Retrieval (`memory/retrieval.ts`) | pure | rank, fuse, deduplicate |
| Persona router (`persona/persona-router.ts`, `persona/character-recall.ts`) | pure | place each authored block, recall by cue |
| LLM settings (`provider/db-settings-provider.ts`) | cached provider, fingerprint, superseded models | `current`, `freshenModel` |
| LLM log (`provider/logged-llm-provider.ts`) | table `llm_logs` | one row per call, one terminal status |
| Persona stores, prompt assembly | none across turns | read-only projections |
| Evaluations (`evals/evaluate.ts`, `target.ts`, `cli.ts`) | per trajectory: history, the target's queue and cursor; per run: results | a pool of workers runs conversations, judges them and reports |
| Blind review (`evals/review.ts`) | two packets, their key, two submissions | prepare, submit, compare |
| Web playground (`web/`) | browser state | a client |

### How they interact

    client --- turn ---> chat route --> ChatService.prepare --- reads ---> summary, bond, memories
                              |                                                 ^
                         model / tools                                          |
                              |                                                 |
                          postTurn ---> judgeBond ---> grantBond (row lock) ----+
                              |                                                 |
                              +-> decideConsolidation -> INSERT job             |
                                                            |                   |
                       worker instances: claim -> advisory lock -> consolidate -+
                       POST /memory/consolidate (no lock) --------> consolidate -+

    every model call: settings lookup -> provider -> log row -> service -> log row
    evaluation: worker pool -> trajectory -> target (in process: its own queue) -> judges -> report -> review

Everything shared between requests lives in Postgres: the tables, the row locks and the advisory locks. Instances and
requests interleave at every awaited statement. The queue may deliver a job any number of times; the
ledger makes the operations of the store idempotent per job.

### What is hard, and what makes each part correct

* **Queue and worker** — instances race for rows, leases lapse under live workers, processes die,
  statements fail after they were applied. Correct: consolidations of a relationship never overlap, a
  payload is scrubbed only once it was consumed, completed jobs stay completed, a job has all its
  attempts and is settled at some point.
* **Session summary** — a model call lies between its read and its write, jobs overlap in what they
  carry and are delivered again. Correct: each message is folded in once and in order, the watermark
  only advances, a save is lost only to another save.
* **Turns and policy** — the watermark is read before the reply and used after it; clients cut the
  history, lose answers and ask again. Correct: no job has a gap, a full backlog is queued, what is
  queued ends up in the summary.
* **Bond** — two replies graded at once, regenerated replies, a clock read before the lock, midnight.
  Correct: grants are atomic and once per exchange, no level is lost, a day's allowance holds.
* **Memory stream** — retries extract something else, stages fail halfway, unserialised requests
  overlap. Correct: a job's rows are final, no duplicates where the worker serialises, the reflection
  budget balances, a retry resumes.
* **Prompt of a turn** — sources are ranked, routed, bounded in bytes and reported in metadata, each in
  code of its own. Correct: the budget gives up as little as it can and in the right order, the
  metadata says what was sent.
* **Tool loop** — calls run side by side and outlive a failed turn, results are kept under ids the
  provider chose, chunks are held back until an answer's nature is known. Correct: each call gets its own
  result, a photo is shared at most once, the client sees one well-formed reply.
* **Frames and `postTurn`** — the reply runs ahead of the frames written to a slow client, and the signal
  may fire anywhere. Correct: what is learned is what was sent, every request ends.
* **LLM settings and log** — settings change between the lookup of a call and another's installation;
  consumers disconnect and closing writes fail. Correct: no call uses settings that were not current
  during its lookup, a row never contradicts its outcome.
* **Evaluations** — a result has many ways of being incomplete and one number to be summed up in.
  Correct: what passes is complete, a green run covers what was to be run, two blind reviewers are compared
  on the same transcripts.

`PROJECT.json` lists the hazards line by line, with the properties that cover each.

## 2. Modules

| Module | Models | Extends / uses |
|---|---|---|
| `ConsolidationQueue` | queue, worker, lock, process lifetime | |
| `RunningSummary` | *abstract*: a digest that grows into the conversation | |
| `SessionSummary` | `refreshSummary`, `getSummary`, `saveSummary` | implements `RunningSummary` |
| `ChatCoverage` | turns, policy, enqueueing, and the refreshes they cause | composes with `SessionSummary` |
| `BondPolicy` | `bond.ts` as operators | |
| `AtomicGrants` | *abstract*: an atomic register of grants | `BondPolicy` |
| `RelationshipBond` | `judgeBond`, `grantBond`, the row lock and the clock | `BondPolicy`, implements `AtomicGrants` |
| `MemoryStream` | observation and reflection stages over the store | |
| `ConsolidationPolicy` | `consolidation-policy.ts` as operators | used by `ChatCoverage` and `Trajectory` |
| `ReplyStream` | *abstract*: the reply a client may rely on | |
| `ToolLoop` | `runToolLoop`, `runToolLoopStream`, the tools of a turn | implements `ReplyStream` |
| `PromptContext` | ranking, routing, recall, byte budget and metadata as operators | |
| `ChatTurn` | one chat request, from `prepare` to its last frame | composes `ToolLoop` with `PromptContext` |
| `LlmCalls` | the settings of a call, the provider and the log row | |
| `Trajectory` | one evaluated conversation | `ConsolidationPolicy` |
| `Subsequences` | what `Array.filter` returns | used by `SuiteReport` |
| `SuiteReport` | `aggregateSuite`, baselines, exit codes as operators | `Trajectory` |
| `BlindReview` | packets, submissions and their comparison as operators | |
| `Evaluations` | the command line: pool, report, review | composes `SuiteReport` with `BlindReview` |
| `MC*` | constants of the runs | one per module above |
| `*Proofs` | theorems | one per proved module; the tool loop's are in `ChatTurnProofs` |

Operators marked *Mutant* are plausible slips in the definition that follows them; nothing uses them
except to confirm that a property notices.

**ConsolidationQueue.** `status`, `lease`, `attempts`, `payload` are the columns of a job row; a lease
(or a retry's backoff, which shares the column) is none, pending or past. `holder` is the advisory
lock, `pc` and `claim` are a `tick()` in progress and the row its claim returned, `up` the instances
that were not asked to stop. One action per statement: `Claim`, `RejectInvalid`, `Acquire` /
`FindBusy`, `Defer`, `Consolidate`, `Complete`, `Settle`, `Release`, and for each a variant that throws
with the statement applied or not; where the lock cannot be asked for at all (`AcquireThrows`: no connection, or
a failing probe, whose connection the code gives up), the tick ends and the row stays leased. `tried` is history: how
often a row's consolidation was begun. None of the worker's UPDATEs looks at the row's status, here as in
the code. `Crash` ends a process and its sessions, so its locks are free and its row stays `running`.
The consolidation is one step that succeeds or throws. A failing unlock is taken to mean a dead
session.

**SessionSummary.** A summary's text is the sequence of positions folded into it, so that "twice",
"never" and "out of order" are visible. `Read` is `getSummary` and the slice, the model call is the gap
between `Read` and the save, and `SaveDuplicate`, `Save`, `SaveConflict` are the outcomes of the
`saveSummary` transaction. `Begin` is a first delivery, a retry and an overlapping request alike.
`Legacy` jobs have no offset.

**ChatCoverage** adds a session's turns: `Prepare` reads the watermark (a failing read counts as no
summary), `Reply` / `ReplyUnheard` end the reply, with or without the client seeing it, `PostTurn` is
`decideConsolidation` and the INSERT, and submits a job to `SessionSummary`. The decision itself is `ConsolidationPolicy`, which the evaluations use as well. A turn keeps its id when it
is sent again; a job's key is its turn's id.

**RelationshipBond.** `Judge` stamps a grade with the clock, `LockRow` is `SELECT ... FOR UPDATE`,
`GrantAgain` finds the key in the ledger, `GrantBond` applies `nextBondState` and commits. `Midnight`
advances the service day, the only resolution of time the policy reads. `gained` and `reordered` are
history: what each day gave in total, and whether a grant was committed after one of a later day.

**MemoryStream.** Rows carry their job, kind and batch index. `Look`, `Compare`, `Store`, `Reread` are
the steps of `upsertMany`, `Credit` is `addImportance` under the job's key, `Consume` the single UPDATE
of `consumeReflectionBudget`, `Restore` the catch block of `maybeReflect`. `exclusive` is fixed at the
start: TRUE where every consolidation of the relationship comes from the worker, one at a time, FALSE
where some come from `POST /memory/consolidate` and overlap.

**ToolLoop.** `pc` is the place in the loop, `stream` the answer being read (the assembled calls, a held
opener or finish, whether it was flushed), `reply` what the client was given, `cache` the map
`toolResults`, `answers` the tool messages pushed. `Dispatch` is everything up to the first `await` of
every call of an answer, in order; `FetchAnswers` and `SelectorAnswers` are the answers, which come in
any order and also after the turn has failed; `Collect` is the end of `Promise.all`. `style` is how the
provider names its calls: anew, the same in every answer, or not at all. `mode` tells the two forms
apart. A stream that ends without closing text or calling anything is `lapsed`: the code treats it as a
completed text turn.

**PromptContext.** `Ranked` is the ranking of candidates with the reason each was taken or left out,
`RecallIds` the recall by cue, `Route` the router, `Removed` and `Without` are `fitContextBudget`, and
`Prepared` is the body of `prepare` after its reads: the entries that reach the prompt, and the lists the
metadata is made of. What the code keeps in a list is here a set of places of that list, or of entries that
know theirs: what the `for` loop of the ranking selects are the first `TopK` of the places that qualify
(`FirstOf`), and what the loop of the budget removes is the shortest end of the removal order that makes the
rest fit (`GoesBefore`). `StartLeft`, `PersonaLeft`, `CanonLeft` and `MemoriesLeft` are the lists the code filters
by the retained ids. `Parses` is `parsePromptDebug` of the evaluations, applied to the metadata. Texts
are values, bytes are small numbers, and scores are integers given with the candidates.
`PromptAssumption` and `ReadingsAssumption` say that ids are unique, that a row is injected in one of the ways
the schema knows, that what is always injected comes from the read of always memories, and that the search
returns none of those: its three queries ask for `context_injection_mode = 'retrieved'`, and nothing updates the mode
of a row.

**ChatTurn.** `Prepare` takes what the reads returned (`Readings`) with some of them failing, and
`PrepareFails` are the failures that end the request. `Relay` runs a step of the loop and puts what it
shows on `queue`, the promise chain; `Deliver` writes a frame. `StartPost` is the call of `postTurn` after
`await chain`, `JudgeAnswers` the judge, `Complete` the `[DONE]`. `ReplyFails` writes the error frame past
the chain, as the catch block does, and `Lose` is what then becomes of the frames behind it. The bond
itself and the job are `RelationshipBond` and `ChatCoverage`.

**LlmCalls.** Each caller takes a model name from its request or from the provider's default, and then
makes calls: `Query` and `Install` are the two sides of the settings lookup, `Start`, `Answers` / `Fails`,
`Chunk`, `StreamEnds`, `Leaves`, `Finish` and `Fail` the logged call. The cached provider, the fingerprint
and the configuration are one value, since equal configurations make interchangeable providers. `seen` and
`ever` are history: the settings the database held during a lookup, and the models that were ever the
default.

**Trajectory, SuiteReport, BlindReview, Evaluations.** `Seed`, `Speak`, `Answer`, `Drain`, `Check` and
`Assess` are the awaited steps of `runTrajectory`; `queue`, `taken` and `done` are the in-process
target's jobs, its cursor and what was consolidated. A reply is one of five texts (`sound`, `wordy`,
`flawed`, `disclosing`, `cut`), an observation of the metadata (which of two prompts, which of two setups, or
neither) and what is wrong with the sources of a probe. A `Result` is computed from the transcript as the code does it:
five groups of deterministic checks (a wordy reply fails `concise` alone, a flawed one that and all the
other checks of style), the medians of the judges, the fall from the first quarter to the last,
the consensus on failures, and the rules for passing and for certification. Percentages are integers
rounded down. `Take` and `Store` are `mapLimit`, whose results go to the place of their item, `ExitCode`
is what `main` ends with. A submission may return a packet twice, leave a form half filled, or carry the
other reviewer's alias, and `Acceptable` refuses each. The refusal of a transcript in which the character names
itself stands behind `options.reviewed`, a transcript being the id of its run here. In the review the order of items and pairs and the side of each pair are chosen
freely where the code hashes a seed.

## 3. Runs

| Run | Instance | Shows |
|---|---|---|
| `queue_calm` | 2 instances, 3 jobs, 2 relationships, 2 attempts, 1 crash or stop | `FailsOnlyAfterAllAttempts`, `CompletedIsFinal`, as long as no lease lapses under a live worker |
| `queue_faults` | 2 instances, 2 jobs of one relationship, 2 attempts, 1 crash or stop, 1 overrun, 1 throwing statement | `SerializedPerRelationship`, `ScrubbedOnlyAfterConsolidation`, `TriedWithinAllowance`, `EveryJobSettles` |
| `queue_scrub` | 1 overrun, no crash, no throwing statement | **violation** of `ScrubbedPayloadNeverClaimed` |
| `summary` | 2 executions, 3 jobs (one without offset), 4 messages | `TypeOK`, `EachMessageOnce`, `OneRevisionPerJob`, `LosesOnlyToASave`, `WatermarkAdvances` |
| `chat_coverage` | 1 consolidation, 2 turns, 4 messages, threshold 3, 1 failure | `NeverMeetsAGap`, `BacklogIsQueued`, `GrowingPrefix`, `EveryRefreshLands` |
| `bond` | 2 attempts, 3 exchanges, 2 days, starting near a threshold, the cap and the last level | `TypeOK`, `StoredLevelAgrees`, `AllowanceKeptInOrder`, `LevelIsKept`, `GrantsAreAtomic` |
| `bond_daily` | as above, cap 20 | **violation** of `PositiveXpIsCappedPerDay` |
| `memory` | 2 executions, 2 jobs, 4 contents of which 2 are similar, threshold 4, 2 failures | `TypeOK`, `NoDuplicates`, `BudgetBalances`, `RetriesResume`, `BatchesAreFinal` |
| `memory_retry` | as above | **violation** of `RetriesAlwaysResume` |
| `turn` | 2 iterations, 2 calls in each, every tool, 3 ways of naming calls, both modes, 1 failing read, 1 disconnect or deadline | `BudgetKeepsTheBest`, `ProvenanceMatchesPrompt`, `MetadataParses`, `ResultsAnswerTheirCalls`, `SharesOnce`, `LearnsWhatWasDelivered`, `ImplementsReplyStream`, `TurnEnds` |
| `llm` | 2 callers with 3 calls, 2 models in 3 configurations, 2 changes, 1 chunk | `DefaultsAreFollowed`, `ProviderIsCurrent`, `StatusTellsTheOutcome` |
| `evals` | 2 workers; diagnostic, certifying, structural and smoke runs, in-process and HTTP targets; up to a run's budget of surprises | `NothingFallsBetween`, `PassesAreComplete`, `GreenMeansWhole`, `ReviewersAgreeOnTranscripts` |

### What the violations say

* `queue_scrub`: an instance outlives its lease; another claims the job, finds the lock busy, and is
  about to defer it when the first completes and scrubs it. The deferral, `WHERE id = $1`, puts the row
  back; it is claimed with payload `{}` and marked failed, although its turns were consumed.
* `bond_daily`: a grant stamped before midnight commits after one stamped after it. The row's counter
  goes back to the old day, so the new day's allowance is handed out again.
* `memory_retry`: a delivery stores observations and fails before their importance is added; the retry's
  extraction finds nothing, returns before asking the store, and completes. The observations stay, but
  never count towards a reflection.

### What the passing runs say besides

Some properties hold with an exception that the code makes and that their comments name:

* `TriedWithinAllowance`: a job is consolidated at most as often as its row is charged, and charged at most
  `maxAttempts` times, and once more for each crash or stop, each lease that lapses under its worker and each statement that throws. Of those the code keeps no count: only the
  catch block of a failed consolidation compares the attempts with the allowance, so a row whose worker dies after its
  last attempt is claimed again.
* `MetadataParses`: `parsePromptDebug` throws on the metadata of a turn with always memories (its set of
  section names, `evals/target.ts`, lacks `always_memories`), and on a first turn whose budget
  removed first-contact guidance (the service reports it as `not_retrieved`, which the parser takes for
  the reason of a retrieved block only). An evaluation of such a turn ends as an error.
* `ResultsAnswerTheirCalls` holds for a provider that names each call anew. One that reuses ids, or leaves
  them out, gets the result of the first call with the id, for all the turn.
* `LearnsWhatWasDelivered` and `ImplementsReplyStream` allow a lapsed answer: a provider's stream that ends
  without a finish reason is an ended reply, is judged and learned from, and closes without a finish chunk.
* The error frame does not go through the promise chain: it may be written before frames that are queued,
  and `ending = "error"` promises nothing about them.
* `DefaultsAreFollowed` says nothing of a request that names a model which once was the default:
  `freshenModel` cannot tell it from one that took the default then, and replaces it.
* `NothingFallsBetween` needs a window that holds the messages between two drains and those that a drain may
  leave because they are fewer than the threshold (`WideWindow`, which `MCEvaluations` assumes of its suites). A window as
  long as the batches it takes to reach the threshold, which looks sufficient, is not: with batches of 8
  messages and a threshold of 12, a window of 16 loses messages, as the proof showed. The code's defaults, a window of 12
  messages and a batch and a threshold of 8, satisfy it; the scenario schema admits a window of 4, with which messages
  drop out of the window before a summary covers them and every later refresh meets the gap.
* `BacklogIsQueued` needs a threshold above 1 (`BacklogKept` assumes it; the default is 8, but `bootstrap/env.ts:49` admits
  any positive number). With 1, TLC finds this: a reply is blank and its answer is lost, so the summary covers the
  user's message alone; the client asks again, the watermark it reads lies beyond what was said before that turn, the policy
  calls it an unverifiable gap, and unless the exchange is memorable the one message left is not queued, although it is
  a full batch. The next turn that brings its window covers it.
* `GreenMeansWhole` of a certifying run says that each scenario ran as often as the profile asks, to its full length,
  with two judgments each time, and that *some* conversation outgrew the window of its requests: the code asks that of
  the suite's results together, not of each. Runs of one judgment, and of a suite whose window holds the
  whole conversation, are among the instance's (`Partial`).
* `GreenMeansWhole` for a diagnostic run says complete and not good: exit code 0 does not look at a score.
* `docs/long-conversation-eval.md:127-128` says that batched mode merges overlapping jobs of a stale summary
  into the latest one. The code (`drainQueue`, and the comment in it) runs every job, and `Drain` does.

### Bounds, and why they are enough

Two instances or executions are the smallest number that race, and each property relates at most two
of them; three jobs let two jobs of one relationship compete while another one is free, and let three
overlapping runs meet at one watermark. Four messages are two exchanges: enough for a stale watermark, a
shortened window and a lost answer. Two attempts are enough to tell the last from an earlier one. Crashes,
overruns, faults and failures are bounded by constants in the guards (`MaxOutages`, `MaxOverruns`,
`MaxFaults`, `MaxFailures`); each is large enough for one to hit every step, and the safety theorems of
section 4 hold for every value. `RefreshAttempts` is 2 in the runs and 3 in the code, `DailyCap` is 20
instead of 60 in `bond_daily` so that three exchanges suffice. `Messages` bounds the conversation,
`LastDay` the days, `Extractions` and `Insights` what a model may find.

In `turn`, two iterations tell the last from an earlier one (5 in the code), two calls in an answer run side by side
and two answers share the cache; one piece of text tells a text turn from an empty one. `Readings` combines
each way of being over the budget, of routing and of recall with few rows; the budget operators are over the
same handful of entries. In `llm`, two changes let a configuration go and come back, and three
calls let one be prepared before, looked up during and installed after a change (`MaxChanges`,
`MaxChunks`, `CallsOf`). In `evals` the thresholds are scaled down together: consolidation at 4 messages instead of
8, batches of 2 turns instead of 4, windows of 4 messages instead of 12, conversations of 2 to 6
exchanges; `options.budget` bounds how many things in a run go otherwise than usual, and
`options.reviewed` says whether a review follows, so that orders and sides are not multiplied with failures. Which turns
an evaluated Agent finds worth keeping is fixed with the scenario, and an evaluation runs one kind of
target, as in the code. Assumptions of the modules (`LoopAssumption`, `PromptAssumption`, ...) are evaluated in each run.
Symmetry is used over
executions, keys and exchanges, in runs without liveness properties only.

`CHECK_DEADLOCK FALSE` is set where the system may stop: a queue whose jobs are all settled, a
conversation that ends, callers that have made their calls, an evaluation that has exited. `turn` checks
deadlock: a finished request steps in place, anything else that stops is an error.

### Fairness

* `ConsolidationQueue`: `setTimeout(loop)` keeps every started instance polling, a statement in flight
  ends, `now()` advances, and the platform restarts a stopped instance: weak fairness of each. Nothing
  is assumed of the producer, of faults, or of leases that lapse under a live worker.
* `ChatCoverage`: a consolidation that has begun takes its steps (weak), and a submitted job keeps being
  delivered until it is done (strong, since deliveries of other jobs come in between). The queue stops
  after `maxAttempts`; the run's `MaxFailures` is below it, and in this run no refresh fails for any
  other reason. Nothing is assumed of the chat.

* `ChatTurn`: the reads of a prompt, the tools and the judge answer, for each bounds its own network call; the client
  reads its frames, or its connection fails and writes return at once; the deadline
  (`LLM_REQUEST_TIMEOUT_MS`) comes; and a provider whose signal has fired throws. Nothing else is assumed of
  the provider, which may stream for ever. That the client reads is a real assumption: `await chain` is
  not bounded by the deadline.

The other specifications have no liveness property and state no fairness.

## 4. Theorems

All are proved for every value of the constants that satisfies the modules' named assumptions.

**ConsolidationQueueProofs.** `Serialized` and `NoUnreadScrub` from one inductive
invariant: an instance past its lock holds it (`HoldsItsLock`), and one that has consolidated, or sees a
scrubbed row, knows the job to be consumed (`KnowsConsolidated`). `CompletedStaysCompleted` and
`DeferralsAreFree` assume `MaxOverruns = 0` and `MaxFaults = 0`. Their invariant says that the instance
engaged with a row is the only one and that its attempt is still the row's (`OwnsRow`), and accounts for
each attempt by a consolidation begun, a crash or a tick that has not decided yet
(`AttemptsAccounted`). `queue_scrub` shows the first of the assumptions to be needed. `ConsolidationsAreBounded`
needs neither, nor does `TypeInvariant`, by which a deferral never hands back an attempt that no claim has
charged, so that `attempts` is a count. Their invariant is a row's budget (`WithinBudget`): what was begun, with the workers that
may still begin, is charged in `attempts`; those charges, with the workers that may still put the row back for a retry, stay
within the allowance and the disruptions; and while the row can be claimed there is room for one more. It
counts the workers that believe the row is theirs, so each action is a step in which at most one worker joins or
leaves a finite set (`CountsMove`).

**SessionSummaryProofs.** The invariant is what an execution knows (`Known`): what it read is no newer
than the row, *is* the row while the revisions agree, ends below its own run, and its revision accounts
for the saves it lost to. From it follow `Beaten`, `Forward` and `OneEach`; `Once` adds that, without jobs
that lack an offset, the content is exactly the positions below the watermark; `Implements` maps every
step to a step of `RunningSummary` or a stutter.

**ChatCoverageProofs.** `Composition`: turns and consolidations together take only steps of
`SessionSummary`, so that its theorems carry over. `NoGap` needs the invariant that no watermark a turn
read, and no run made from one, is ahead of the summary (`Behind`): watermarks only advance. `ChatDigest`
is the refinement again, for the composition. `BacklogKept` compares what a finished turn leaves, counted from
the watermark it read, with the summary as it is by then; a turn that finds a gap leaves one message at most.

**RelationshipBondProofs.** The row lock makes the row an attempt read the row it writes over
(`ReadsStand`), so every commit is one application of the policy to the current row. On top of that
`BookAgrees` says that, until a grant commits out of order, the row's counter is the book of the latest
day and later days are untouched. `LevelColumn`, `Allowance`, `LevelsAreKept` and the refinement
`Implements` follow by the arithmetic of the policy.

**ChatTurnProofs**, first part, is about `LoopSpec`, the tool loop under any caller that begins it and may abort it.
`EveryCallGetsItsResult` needs to know who wrote a cache entry: with fresh names what is cached under an id is
the call of that id (`CachedByItself`), and nothing is cached before the naming is known (`Untouched`).
`ATurnSharesOnce` counts: `asked` and the photos shown are bounded by `attempted`, and a photo can only be shown
by the one call that is selecting. `TheLoopIsAReplyStream` maps every step to a step of `ReplyStream` or a
stutter; its invariant ties what is held back to what was shown (nothing is closed while an answer is read
unless it was flushed, and the provider is only asked again while the reply is open).

**MemoryStreamProofs.** The worth of a set of observations is a sum, which here is the number of its points (one
for each unit of importance), so that what a sum needs are facts about cardinalities. Induction over the batch
of a delivery (`Survivors`) is a least counterexample in a set of naturals (`LeastNatural`,
`NaturalInduction`). The inductive invariant says of each execution what it may rely on (`Held`): what it saw in the store when it
looked is still what is there as long as it is alone (`Fresh`), and what it carries fits its step
(`Coherent`); of the whole, that the reflections in progress and past are paid for (`Paid`), that only stored
jobs are credited (`Earned`) and that the worker's executions are alone (`Alone`). `BudgetBalances` follows by
counting points, `NoDuplicates` and `BatchesAreFinal` by what a serialised execution saw.

**LlmCallsProofs.** `SettingsAreCurrent` follows from what a call carries: between `Query` and `Install` its
rows are among the settings `seen` since it began. `TheDefaultIsFollowed` rests on `superseded`: every
default there ever was is the present one or is in the set, and the present one is not, so a caller that took
a default is always served the current one, whatever others installed. `TheLogIsTrue` follows the row through
the call.

**EvaluationsProofs** has one invariant for each property, and each uses those before it.
`WhatPassesIsWhole` follows each trajectory through its steps (`Traced`): unless an error is recorded, every job
the target's cursor has passed was consolidated, a conversation that closes has had an exchange, and one that is
assessed has left no job behind. `GreenRunsAreWhole` adds where results go (`Placed`): whatever item was taken is
with a worker or has its result in its place, and a result that certifies is of a whole conversation at full length,
judged twice; what the report counts are then the places of the work itself. That some conversation outgrew its window
rests on where each request's window began (`Grown`): it only begins after the first message once there are more. `ReviewersAreCompared` adds what each packet holds
(`Fair`: every transcript once, the pairs of both packets the same, each on some side, and no transcript without a
pair) and that a form is filled in from its reviewer's thoughts or is a draft (`Reviewed`), so that looking answers up
by the key gives the thoughts back. `NoMessageIsLost` adds how far a summary may fall behind (`KeptUp`): it covers whole
exchanges, all but `Left` messages of those before the last drain, or a job that ends with them is still in the
queue. That is needed because the window is only looked at when the next turn asks; the arithmetic is that of
remainders (`NextRemainder`). Assumptions: `OptionsAssumption`, what the suite's schema and the command line admit; for
`NoMessageIsLost` also `WideWindow` of all options, explained in section 3.

**ChatTurnProofs**, second part, takes the loop's invariant over for turns of a persona; a turn without one never
touches the tools. `OnlyTheDeliveredIsLearned` adds an account (`Accounted`): until an error frame cuts the
stream off, what was written and what is queued are together what the loop made. It also needs `Settled`: tools
only run for the answer being handled or past a failed reply, so that no tool queues a frame behind [DONE].

**ChatTurnProofs**, third part, is about the prompt. `RankingTakesTheBest` is about the ranking alone: counting who is
ahead of whom numbers the candidates without a gap (`RanksFill`, the pigeonhole principle for finite sets),
so that choosing by that count sorts (`DescendingSorts`), and the first `TopK` are `TopK` or all (`FirstAreFirst`). The
best copy of a text is a least place (`LeastNatural`). For the budget, entries have a place of their own
(`CandidatesAreListed`), so the removal order is total on them and ranks rise along it (`RankRises`); the number that is
removed is the least that fits (`RemovesTheLeast`), hence nothing that stays ranks below what went and the
last to go was needed (`BudgetIsLeast`). `BudgetIsKept` adds what the priorities are: an always memory ranks
above any recalled one because recalled memories are numbered on after them and are none of them
(`RecalledAreNotAlways`). `ProvenanceIsTrue` compares the two computations: each entry comes from the list of its kind
(`FromList`), the lists are filtered by the entries that are left, and `Demote` leaves what is kept
(`Demotes`). `MetadataIsReadable` adds that every route the router gives agrees with the parser (`BlocksAreRouted`) and
that a demoted one does unless it is of first contact. The invariant of the turn is that a prompt, while there is
one, was prepared from a reading some of whose reads failed (`PromptIsPrepared`). What `RecallIds` folds and
what `Bytes` sums stays opaque in these proofs: they hold whichever ids are recalled by cue, and for any measure of
a set of entries.

**Model-checked only.** Liveness (`EveryJobSettles`, `EveryRefreshLands`, `TurnEnds`), which rests on fairness and is
out of the prover's reach, as is ENABLED. Every other property of a passing run is stated by a theorem.

## 5. What is not modelled

* Text: the parsing of model output, the wording of prompts and sections, redaction, the patterns of the
  deterministic checks. Models take what they yield as inputs.
* Floating point: cosine, recency and decay are scores given to the ranking; percentages in the evaluations
  are rounded.
* Persona stores: read-only; what they read is a constant or an input. The bond judge and the photo selector:
  one outbound call without state; any answer, or none, is an input.
* HTTP wiring: authentication, validation, error mapping. The signal of a request and the lifetime of the
  worker are modelled.
* Evaluations: the reviews of persona routing and injection (`persona-router-eval.ts`), calibration fixtures, the
  structured-output client (`evals/llm.ts`), rendering and files. Git and suite hashes of a baseline are taken to be
  available.
* The in-memory stubs, the web playground.
* Within modelled parts: `last_exchange_at`, which only the wording of a prompt reads; retired core
  memory; the embedding requests; the connection pool behind a session-level advisory lock; the metrics of a log row.

## 6. Plan

The order is that of importance to what the service remembers and says. Done:

1. `ConsolidationQueue` with its proofs.
2. `SessionSummary`, implementing `RunningSummary`, with its proofs.
3. `ChatCoverage` over `SessionSummary`, with its proofs.
4. `BondPolicy`, `RelationshipBond` implementing `AtomicGrants`, with its proofs.
5. `MemoryStream` with its proofs.
6. `ToolLoop`, implementing `ReplyStream`; its proofs are in `ChatTurnProofs`.
7. `LlmCalls` with its proofs.
8. `PromptContext`, and `ChatTurn` over it and `ToolLoop`, with its proofs.
9. `Trajectory`, `SuiteReport`, `BlindReview` and `Evaluations`, with its proofs.

Left:

10. The queue, the summary and the memory stream composed into one `Consolidation`: the lock that
    `MemoryStream` assumes as `exclusive` is the one `ConsolidationQueue` proves.
