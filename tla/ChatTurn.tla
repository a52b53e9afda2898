------------------------------ MODULE ChatTurn ------------------------------
(***************************************************************************)
(* One POST /v1/chat/completions from the request to its last frame: the   *)
(* prompt is prepared (PromptContext), the reply is made by the tool loop  *)
(* (ToolLoop) or by the provider alone, frames are written to the client   *)
(* through one promise chain, and after a completed reply the bond is      *)
(* judged and the exchange is queued for learning.                         *)
(***************************************************************************)
EXTENDS ToolLoop, PromptContext

CONSTANTS
  Readings,     \* what the reads of prepare may return (records, see below)
  MaxFailures   \* reads of one turn that fail

(* A reading is [offset, earlier, answered, covered, bond, integrated,       *)
(* query, indexed, index, stale, always, found, base, max]:                  *)
(* X-Opod-History-Offset, messages before the latest user message, whether   *)
(* one of them is an assistant's, turns the stored summary covers, whether   *)
(* a bond is known, config.integratedContext, the cues of the query, whether *)
(* a persona index answered and with which ids, those of them whose hash is  *)
(* out of date, the always memories, the candidates, and the bytes of the    *)
(* mandatory request next to CONTEXT_MAX_BYTES.  The search asks for rows    *)
(* whose mode is "retrieved" only, and the mode of a row never changes.      *)

ASSUME ReadingsAssumption ==
  \A in \in Readings :
    /\ {"covered", "bond", "index", "always", "found"} \subseteq DOMAIN in
    /\ in.integrated \in BOOLEAN
    /\ \A rows \in {in.always, in.found} : Len(rows) \in Nat /\ DOMAIN rows = 1 .. Len(rows)
    /\ IdsOf(in.always, DOMAIN in.always) \subseteq AlwaysMemory
    /\ IdsOf(in.found, DOMAIN in.found) \cap AlwaysMemory = {}
    /\ \A i \in DOMAIN in.found : {in.found[i].near, in.found[i].words, in.found[i].weight} \subseteq Int

VARIABLES
  phase,    \* "request", "ready", "replying", "posting", "over"
  kind,     \* "none", "proxy" or "persona"
  input,    \* the reading the prompt was prepared from
  prompt,   \* the prepared prompt
  queue,    \* frames on the promise chain, not written yet: pieces of text, and
            \* whether there are others
  shown,    \* pieces of text the client was sent
  ending,   \* the last frame: "none", "done", "error", or the HTTP status kind
  judged,   \* postTurn's bond judgement: "no", "asked", "granted", "skipped"
  learned   \* postTurn's enqueue: the text it was given, or Unlearned

httpVars == <<phase, kind, input, prompt, queue, shown, ending, judged, learned>>
turnVars == <<loopVars, httpVars>>

NoPrompt  == [status |-> "none"]
Nothing   == [integrated |-> FALSE]
Unlearned == 0 - 1
Empty     == [text |-> 0, other |-> FALSE]

TurnInit ==
  /\ LoopInit
  /\ phase = "request" /\ kind = "none" /\ input = Nothing /\ prompt = NoPrompt
  /\ queue = Empty /\ shown = 0 /\ ending = "none"
  /\ judged = "no" /\ learned = Unlearned

----------------------------------------------------------------------------
(* Preparing the prompt.                                                   *)

Reads == {"always", "found", "summary", "bond", "index"}

\* A read that fails is as if it had found nothing; no reply is lost to it.
AfterFailures(in, failed) ==
  [in EXCEPT !.always  = IF "always" \in failed THEN <<>> ELSE @,
             !.found   = IF "found" \in failed THEN <<>> ELSE @,
             !.covered = IF "summary" \in failed THEN 0 ELSE @,
             !.bond    = @ /\ "bond" \notin failed,
             !.index   = IF "index" \in failed THEN {} ELSE @]

Answer(status) == phase' = "over" /\ ending' = status

\* An invalid body, offset or missing turn id.
Refuse ==
  /\ phase = "request" /\ Answer("refused")
  /\ UNCHANGED <<loopVars, kind, input, prompt, queue, shown, judged, learned>>

\* The caller brought its own tools, or there is no such persona.
PrepareProxy ==
  /\ phase = "request"
  /\ phase' = "ready" /\ kind' = "proxy"
  /\ UNCHANGED <<loopVars, input, prompt, queue, shown, ending, judged, learned>>

Prepare(in, failed) ==
  /\ phase = "request"
  /\ kind' = "persona"
  /\ LET known == AfterFailures(in, failed)
     IN input' = known /\ prompt' = Prepared(known)
  /\ IF prompt'.status = "overflow" THEN Answer("error") ELSE phase' = "ready" /\ UNCHANGED ending
  /\ UNCHANGED <<loopVars, queue, shown, judged, learned>>

\* The persona store, its integrity check or the LLM settings fail.
PrepareFails ==
  /\ phase = "request" /\ Answer("error")
  /\ UNCHANGED <<loopVars, kind, input, prompt, queue, shown, judged, learned>>

----------------------------------------------------------------------------
(* The reply and its frames.                                               *)

StartReply ==
  /\ phase = "ready" /\ phase' = "replying"
  /\ Begin(IF kind = "persona" THEN "ask" ELSE "proxy")
  /\ input' = Nothing /\ prompt' = NoPrompt
  /\ UNCHANGED <<kind, queue, shown, ending, judged, learned>>

\* What a step of the loop puts on the chain: chunks, and public expressions.
Relay(step) ==
  /\ phase \in {"replying", "over"} /\ step
  /\ queue' = IF mode = "plain" THEN queue
              ELSE [text  |-> queue.text + (reply'.text - reply.text),
                    other |-> queue.other \/ reply' # reply \/ shared' # shared]
  /\ UNCHANGED <<phase, kind, input, prompt, shown, ending, judged, learned>>

LoopStep == Relay(LoopNext)

\* Without a persona the provider's chunks are passed on as they are.
ProxyText ==
  /\ phase = "replying" /\ pc = "proxy" /\ ~aborted
  /\ reply.text < MaxText
  /\ reply' = [reply EXCEPT !.text = @ + 1]
  /\ queue' = IF mode = "plain" THEN queue ELSE [queue EXCEPT !.text = @ + 1]
  /\ UNCHANGED <<mode, style, pc, iter, stream, lapsed, cache, answers, attempted, asked, shared, aborted>>
  /\ UNCHANGED <<phase, kind, input, prompt, shown, ending, judged, learned>>

ProxyEnds ==
  /\ phase = "replying" /\ pc = "proxy"
  /\ pc' \in {"failed"} \cup (IF aborted THEN {} ELSE {"done"})
  /\ lapsed' = (pc' = "done")
  /\ UNCHANGED <<mode, style, iter, stream, reply, cache, answers, attempted, asked, shared, aborted>>
  /\ UNCHANGED httpVars

\* The next frame of the chain reaches the client.
Deliver ==
  /\ \/ /\ queue.text > 0 /\ shown' = shown + 1
        /\ queue' = [queue EXCEPT !.text = @ - 1]
     \/ queue.other /\ queue' = [queue EXCEPT !.other = FALSE] /\ UNCHANGED shown
  /\ UNCHANGED <<loopVars, phase, kind, input, prompt, ending, judged, learned>>

\* The stream is closed behind the error frame: what is queued is lost.
Lose ==
  /\ ending = "error" /\ queue # Empty
  /\ queue' = Empty
  /\ UNCHANGED <<loopVars, phase, kind, input, prompt, shown, ending, judged, learned>>

\* Mutant: the chain is not awaited.
FlushedUnawaited == TRUE

\* `await chain`.
Flushed == queue = Empty

\* postTurn is called with the text the client was sent; a request that names
\* no user, session or turn, or needs no job, judges or learns nothing.
StartPost ==
  /\ phase = "replying" /\ pc = "done" /\ Flushed
  /\ phase' = "posting"
  /\ judged' \in {"skipped"} \cup (IF kind = "persona" THEN {"asked"} ELSE {})
  /\ learned' \in {Unlearned} \cup (IF kind = "persona" THEN {reply.text} ELSE {})
  /\ UNCHANGED <<loopVars, kind, input, prompt, queue, shown, ending>>

\* The judge answers, refuses or fails; a grant is shown before the end.
JudgeAnswers ==
  /\ phase = "posting" /\ judged = "asked"
  /\ judged' \in {"granted", "skipped"}
  /\ queue' = IF judged' = "granted" /\ mode = "stream" THEN [queue EXCEPT !.other = TRUE] ELSE queue
  /\ UNCHANGED <<loopVars, phase, kind, input, prompt, shown, ending, learned>>

Complete ==
  /\ phase = "posting" /\ judged # "asked" /\ Flushed
  /\ Answer("done")
  /\ UNCHANGED <<loopVars, kind, input, prompt, queue, shown, judged, learned>>

\* The catch block writes the error frame itself, past what the chain holds.
ReplyFails ==
  /\ phase = "replying" /\ pc = "failed"
  /\ Answer("error")
  /\ UNCHANGED <<loopVars, kind, input, prompt, queue, shown, judged, learned>>

\* While the prompt is prepared nothing but its reads sees the signal: one that
\* fires then is as one that fires when the reply starts, and nothing sees one
\* that fires later.
Interrupt == phase = "replying" /\ Abort /\ UNCHANGED httpVars

Finished == phase = "over" /\ Flushed /\ UNCHANGED turnVars

TurnNext ==
  \/ Refuse \/ PrepareProxy \/ PrepareFails \/ StartReply \/ LoopStep
  \/ phase = "request" /\ \E in \in Readings : \E failed \in {f \in SUBSET Reads : Cardinality(f) <= MaxFailures} : Prepare(in, failed)
  \/ ProxyText \/ ProxyEnds \/ Deliver \/ Lose
  \/ StartPost \/ JudgeAnswers \/ Complete \/ ReplyFails \/ Interrupt \/ Finished

(* The reads of a prompt, the tools (each bounds its own network call), the  *)
(* judge and the writes to the client answer; the deadline comes.  Nothing   *)
(* is assumed of the provider but that it throws once the signal fired: a    *)
(* model may stream for ever.                                                *)
TurnFairness ==
  /\ WF_turnVars(Interrupt)
  /\ WF_turnVars(PrepareFails \/ StartReply)
  /\ WF_turnVars(Relay(aborted /\ ProviderThrows))
  /\ WF_turnVars(Relay(\E id \in Calls : FetchAnswers(id) \/ SelectorAnswers(id)))
  /\ WF_turnVars(Relay(Collect \/ ToolsThrow))
  /\ WF_turnVars(aborted /\ ProxyEnds)
  /\ WF_turnVars(Deliver)
  /\ WF_turnVars(StartPost \/ JudgeAnswers \/ Complete \/ ReplyFails)

TurnSpec == TurnInit /\ [][TurnNext]_turnVars /\ TurnFairness

----------------------------------------------------------------------------
(* Properties of the prompt.                                               *)

(* The byte budget gives up as little as it can and the right things first:  *)
(* the request fits, the entry removed last would not have fitted, no entry  *)
(* that stays ranks below one that went, no recalled memory stays where an   *)
(* always memory or first-contact guidance went, and a turn is refused only  *)
(* when it does not fit without any (fitContextBudget, prepare).             *)
BudgetKeepsTheBest ==
  LET fits(entries) == input.base + Bytes(entries) <= input.max
      last(d) == \A o \in prompt.dropped \ {d} : GoesBefore(o, d)
  IN /\ prompt.status = "overflow" => ~fits({})
     /\ prompt.status = "ready" /\ input.integrated =>
          /\ fits(prompt.entries)
          /\ \A d \in prompt.dropped :
               /\ last(d) => ~fits(prompt.entries \cup {d})
               /\ \A e \in prompt.entries :
                    /\ e.priority >= d.priority
                    /\ e.section = "retrieved_memories" => d.section \notin {"always_memories", "persona_start"}

(* The metadata of a turn describes the prompt that was sent: the section    *)
(* names are the sections that were written, a source reported as injected   *)
(* is in the text, and an entry of the text is reported.  The two are        *)
(* computed apart, from the retained entries and from the filtered lists.    *)
ProvenanceMatchesPrompt ==
  prompt.status = "ready" =>
    LET sent(types) == {e.id : e \in {d \in prompt.entries : d.type \in types}}
        placed(sources) == {sources[i].id :
                              i \in {j \in DOMAIN sources : sources[j].destination = "turn_context"}}
        injected == {prompt.sources[i].id :
                              i \in {j \in DOMAIN prompt.sources : prompt.sources[j].injected}}
    IN /\ prompt.names = Written(input, prompt.entries)
       /\ placed(prompt.blocks) = sent({"start", "persona"})
       /\ placed(prompt.canon) = sent({"canon"})
       /\ injected \subseteq sent({"memory"})
       /\ sent({"memory"}) \ AlwaysMemory \subseteq injected

(* The evaluations can read the metadata of a turn back, with two named      *)
(* exceptions, in which parsePromptDebug throws: a turn that carries always  *)
(* memories (its set of section names lacks "always_memories") and a first   *)
(* turn whose budget removed first-contact guidance (it reads the reason     *)
(* not_retrieved as one of retrieved blocks only).                           *)
MetadataParses ==
  prompt.status = "ready" =>
    (Parses(prompt, input.base, input.max, input.integrated) <=>
       /\ "always_memories" \notin prompt.names
       /\ ~\E i \in DOMAIN prompt.blocks : /\ prompt.blocks[i].injection = "start_only"
                                         /\ prompt.blocks[i].reason = "not_retrieved")

----------------------------------------------------------------------------
(* Properties of the reply.                                                *)

(* Only an ended reply is judged or learned from, after every frame of it    *)
(* was written and with exactly the text that was; [DONE] follows all of it, *)
(* and nothing of the reply follows [DONE].                                  *)
LearnsWhatWasDelivered ==
  /\ judged \in {"asked", "granted"} \/ learned # Unlearned =>
       /\ pc = "done" /\ kind = "persona"
       /\ mode = "stream" => shown = reply.text /\ queue.text = 0
  /\ learned # Unlearned => learned = reply.text
  /\ ending = "done" => judged # "asked" /\ queue = Empty

(* Every request ends, whatever the provider does: one that streams for ever *)
(* is ended by the deadline, and the tools it left running do not hold it.   *)
TurnEnds == <>(phase = "over")
=============================================================================
