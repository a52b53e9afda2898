------------------------------ MODULE LlmCalls ------------------------------
(***************************************************************************)
(* The calls the agent makes to its language model.  Every call reads the  *)
(* model settings from admin_settings, reuses or replaces the cached       *)
(* provider (src/src/provider/db-settings-provider.ts), logs itself in     *)
(* opod.llm_logs before and after (logged-llm-provider.ts) and only in     *)
(* between asks the model service (openai-compat-provider.ts).             *)
(*                                                                         *)
(* A caller is a chat turn or a memory pass.  It takes the model's name    *)
(* from its request or from the provider's default at that time, and may   *)
(* make several calls with it; the settings may change at any moment.      *)
(***************************************************************************)
EXTENDS Integers, FiniteSets

CONSTANTS
  Callers, KindsOf,  \* who calls, and how ("complete" is completeText)
  Models,       \* chat models
  Configs,      \* complete settings an administrator may store
  ModelOf,      \* the chat model of each
  Embeds,       \* those that name an embedding endpoint, key and model too
  Unresolved,   \* UNRESOLVED_MODEL, the default before the first lookup
  Incomplete,   \* settings with a part missing or no URL; also: no provider yet
  CallsOf,      \* how many calls each caller makes; this and the next bound the instance
  MaxChanges, MaxChunks

ASSUME LlmAssumption ==
  /\ KindsOf \in [Callers -> SUBSET {"chat", "complete", "stream", "embed"}]
  /\ ModelOf \in [Configs -> Models] /\ Embeds \subseteq Configs
  /\ Unresolved \notin Models /\ Incomplete \notin Configs
  /\ CallsOf \in [Callers -> Nat] /\ MaxChanges \in Nat /\ MaxChunks \in Nat

VARIABLES
  settings,    \* what admin_settings holds
  cached,      \* the settings of the provider in use
  superseded,  \* supersededDefaults
  call,        \* the call each caller makes
  changes,
  ever         \* history: the models that have been the default

llmVars == <<settings, cached, superseded, call, changes, ever>>

Default == IF cached = Incomplete THEN Unresolved ELSE ModelOf[cached]

Idle == [pc |-> "idle", kind |-> "none", asked |-> Unresolved, follows |-> FALSE, made |-> 0,
         rows |-> Incomplete, used |-> Incomplete, sent |-> Unresolved, seen |-> {},
         row |-> "none", logged |-> 0, spent |-> FALSE, chunks |-> 0, outcome |-> "none", got |-> "none"]

LlmInit ==
  /\ settings \in Configs \cup {Incomplete}
  /\ cached = Incomplete /\ superseded = {Unresolved}
  /\ call = [c \in Callers |-> Idle]
  /\ changes = 0 /\ ever = {}

\* A step of one call alone.
Only(c, next) ==
  /\ call' = [call EXCEPT ![c] = next]
  /\ UNCHANGED <<settings, cached, superseded, changes, ever>>

-----------------------------------------------------------------------------
(* The caller.                                                             *)

\* The request names a model.
Prepare(c) ==
  /\ call[c].pc = "idle" /\ call[c].made < CallsOf[c]
  /\ \E model \in Models : Only(c, [call[c] EXCEPT !.pc = "ready", !.asked = model, !.follows = FALSE])

\* It names none: the turn takes the default of this moment, for all its calls.
PrepareDefault(c) ==
  /\ call[c].pc = "idle" /\ call[c].made < CallsOf[c]
  /\ Only(c, [call[c] EXCEPT !.pc = "ready", !.asked = Default, !.follows = TRUE])

Call(c, kind) ==
  /\ call[c].pc = "ready" /\ call[c].made < CallsOf[c]
  /\ Only(c, [call[c] EXCEPT !.pc = "query", !.kind = kind, !.seen = {settings}, !.made = call[c].made + 1])

\* Another call of the same turn, or a new turn.
Settled(c) ==
  /\ call[c].pc = "end" /\ call[c].made < CallsOf[c]
  /\ \E next \in {[Idle EXCEPT !.pc = "ready", !.asked = call[c].asked, !.follows = call[c].follows], Idle} :
       Only(c, [next EXCEPT !.made = call[c].made])

-----------------------------------------------------------------------------
(* The settings of the call.                                               *)

Throw(c) == [call[c] EXCEPT !.pc = "end", !.got = "error"]

Query(c) ==
  /\ call[c].pc = "query"
  /\ Only(c, [call[c] EXCEPT !.pc = "rows", !.rows = settings])

\* A failing lookup never falls back to the provider in use.
QueryFails(c) == call[c].pc = "query" /\ Only(c, Throw(c))

Usable(c) == call[c].rows # Incomplete /\ (call[c].kind = "embed" => call[c].rows \in Embeds)

RejectRows(c) == call[c].pc = "rows" /\ ~Usable(c) /\ Only(c, Throw(c))

\* Mutant: the new default is remembered in place of the old one.
SupersedeNew(config) ==
  IF cached # Incomplete /\ ModelOf[cached] # ModelOf[config]
  THEN superseded \cup {ModelOf[config]} ELSE superseded

Supersede(config) ==
  IF cached # Incomplete /\ ModelOf[cached] # ModelOf[config]
  THEN (superseded \cup {ModelOf[cached]}) \ {ModelOf[config]} ELSE superseded

\* A default that was replaced is read as the provider's own.
Freshen(model, config, old) == IF model \in old THEN ModelOf[config] ELSE model

\* Mutant: a cached provider is used as long as it has the same model.
ProviderKept(config) == IF cached # Incomplete /\ ModelOf[cached] = ModelOf[config] THEN cached ELSE config

\* The provider this call uses.  A configuration stands for its fingerprint: to
\* keep the cached provider of an equal one or to make another is the same.
Provider(config) == config

\* current and freshenModel, from the rows' arrival to the logged provider.
Install(c) ==
  /\ call[c].pc = "rows" /\ Usable(c)
  /\ LET provider == Provider(call[c].rows)
         old      == Supersede(provider)
     IN /\ cached' = provider /\ superseded' = old
        /\ ever' = ever \cup {ModelOf[provider]}
        /\ call' = [call EXCEPT ![c] = [call[c] EXCEPT !.pc = "start", !.used = provider, !.rows = Incomplete,
                      !.seen = call[c].seen \cap {provider},
                      !.sent = IF call[c].kind = "embed" THEN Unresolved ELSE Freshen(call[c].asked, provider, old)]]
  /\ UNCHANGED <<settings, changes>>

-----------------------------------------------------------------------------
(* The call itself, inside its log row.                                    *)

\* No texts, no call: nothing is logged either.
EmbedNothing(c) ==
  /\ call[c].pc = "start" /\ call[c].kind = "embed"
  /\ Only(c, [call[c] EXCEPT !.pc = "end", !.got = "answer", !.outcome = "whole"])

Start(c) ==
  /\ call[c].pc = "start"
  /\ Only(c, [call[c] EXCEPT !.pc = "external", !.row = "started"])

\* Without its row the call is not made (and without a database none ever is).
StartFails(c) == call[c].pc = "start" /\ Only(c, Throw(c))

\* The service answers a chat or an embedding, or opens the stream.
Answers(c) ==
  /\ call[c].pc = "external"
  /\ Only(c, IF call[c].kind = "stream" THEN [call[c] EXCEPT !.pc = "stream", !.spent = TRUE]
             ELSE [call[c] EXCEPT !.pc = "finish", !.spent = TRUE, !.chunks = 1, !.outcome = "whole"])

\* The service fails, or the caller's signal fires.
Fails(c) ==
  /\ call[c].pc \in {"external", "stream"}
  /\ Only(c, [call[c] EXCEPT !.pc = "fail", !.spent = TRUE, !.outcome = "broken"])

Chunk(c) ==
  /\ call[c].pc = "stream" /\ call[c].chunks < MaxChunks
  /\ Only(c, [call[c] EXCEPT !.chunks = @ + 1])

StreamEnds(c) ==
  /\ call[c].pc = "stream"
  /\ Only(c, [call[c] EXCEPT !.pc = "finish", !.outcome = "whole"])

\* Mutant: the finally block takes a consumer that leaves for one that is done.
LeavesQuietly(c) ==
  /\ call[c].pc = "stream"
  /\ Only(c, [call[c] EXCEPT !.pc = "finish", !.outcome = "left"])

\* The consumer stops reading: the finally block closes the row.
Leaves(c) ==
  /\ call[c].pc = "stream"
  /\ Only(c, [call[c] EXCEPT !.pc = "fail", !.outcome = "left"])

\* What the caller of a finished call has: a memory pass takes complete text only.
Received(kind) == IF kind = "complete" THEN {"answer", "error"} ELSE {"answer"}

\* The store's two closing statements go by the row's id alone, and may fail.
Response(r, written)   == IF written THEN r.chunks ELSE r.logged
Closed(status, r, written) == IF written THEN status ELSE r.row

\* The response is stored; that write may fail, which nobody but the log hears of.
Finish(c) ==
  /\ call[c].pc = "finish"
  /\ \E written \in BOOLEAN, got \in Received(call[c].kind) :
       Only(c, [call[c] EXCEPT !.pc = "end", !.got = got,
                  !.row = Closed("succeeded", call[c], written), !.logged = Response(call[c], written)])

Fail(c) ==
  /\ call[c].pc = "fail"
  /\ \E written \in BOOLEAN :
       Only(c, [call[c] EXCEPT !.pc = "end", !.got = "error", !.row = Closed("failed", call[c], written)])

-----------------------------------------------------------------------------
(* The environment.                                                        *)

\* An administrator stores other settings.
ChangeSettings ==
  /\ changes < MaxChanges /\ changes' = changes + 1
  /\ \E next \in (Configs \cup {Incomplete}) \ {settings} :
       /\ settings' = next
       /\ call' = [c \in Callers |-> IF call[c].pc \in {"query", "rows"}
                                      THEN [call[c] EXCEPT !.seen = @ \cup {next}] ELSE call[c]]
  /\ UNCHANGED <<cached, superseded, ever>>

Step(c) ==
  \/ Prepare(c) \/ PrepareDefault(c) \/ (\E kind \in KindsOf[c] : Call(c, kind)) \/ Settled(c)
  \/ Query(c) \/ QueryFails(c) \/ RejectRows(c) \/ Install(c)
  \/ EmbedNothing(c) \/ Start(c) \/ StartFails(c) \/ Answers(c) \/ Fails(c)
  \/ Chunk(c) \/ StreamEnds(c) \/ Leaves(c) \/ Finish(c) \/ Fail(c)

LlmNext == (\E c \in Callers : Step(c)) \/ ChangeSettings

LlmSpec == LlmInit /\ [][LlmNext]_llmVars

-----------------------------------------------------------------------------
(* Properties.                                                             *)

Resolved(c) == call[c].used # Incomplete /\ call[c].kind # "embed"

(* A caller that left the model to the default is served with the default   *)
(* of the very settings its call used, however long ago it was prepared and *)
(* whatever other calls installed in between; a caller that named a model   *)
(* that never was a default gets that model.                                *)
DefaultsAreFollowed ==
  \A c \in Callers : Resolved(c) =>
    /\ call[c].follows => call[c].sent = ModelOf[call[c].used]
    /\ call[c].asked \notin ever => call[c].follows \/ call[c].sent = call[c].asked

(* A call is made with settings that the database held at some time between *)
(* the call's begin and the arrival of its lookup, also when the answers to *)
(* two lookups arrive the other way round and when only the key was rotated. *)
ProviderIsCurrent ==
  \A c \in Callers : call[c].used # Incomplete => call[c].used \in call[c].seen

(* The log tells what became of a call: the service is never asked without  *)
(* a row, a row succeeds only if the whole response was given, with that    *)
(* response, and fails only if it was not; and a caller gets a whole answer *)
(* even when its row could not be closed.                                   *)
StatusTellsTheOutcome ==
  \A c \in Callers :
    /\ call[c].spent => call[c].row # "none"
    /\ call[c].row = "succeeded" => call[c].outcome = "whole" /\ call[c].logged = call[c].chunks
    /\ call[c].row = "failed" => call[c].outcome \in {"broken", "left"}
    /\ call[c].pc = "end" /\ call[c].got = "answer" => call[c].outcome = "whole"
=============================================================================
