------------------------------ MODULE ToolLoop ------------------------------
(***************************************************************************)
(* The server-side tool loop of one turn (src/src/chat/tool-loop.ts), in   *)
(* both its forms: "stream" (runToolLoopStream) and "plain" (runToolLoop). *)
(* The provider is asked again and again, each time with the results of    *)
(* the calls it made; calls of one answer run together; the client sees    *)
(* neither calls nor reasoning.                                            *)
(*                                                                         *)
(* Tools: "fetch" is any tool that awaits the network, "photo" share_photo *)
(* with valid arguments, "thought" express_thought with a valid text, and  *)
(* "refused" a call answered at once by an error text (unknown tool,       *)
(* unparsable arguments).  A call is named <<iteration, slot>>.            *)
(***************************************************************************)
EXTENDS Integers, FiniteSets

CONSTANTS
  MaxIterations,  \* provider calls of one turn (5 in the code)
  Slots,          \* indices of the calls of one answer
  MaxText,        \* pieces of text counted in one answer; more are not told apart
  Tools,          \* the tools the model may call
  Closings        \* finish reasons of an answer without calls

ASSUME LoopAssumption ==
  /\ MaxIterations \in Nat \ {0}
  /\ Slots \subseteq Nat \ {0}
  /\ MaxText \in Nat /\ "none" \notin Tools
  /\ "none" \notin Closings /\ "tool_calls" \notin Closings /\ "stop" \in Closings

NoTool == "none"
Calls  == (0 .. MaxIterations) \X (Slots \cup {0})

\* How the provider names its calls: anew, the same in every answer, not at all.
IdStyles == {"fresh", "reused", "missing"}

VARIABLES
  mode,     \* "stream" or "plain"
  style,    \* the provider's way of naming calls
  pc,       \* "idle", "ask", "stream", "tools", "done", "failed"
  iter,     \* the current iteration
  stream,   \* the answer being read
  reply,    \* what the client was given: role, text, finish
  lapsed,   \* the provider ended an answer with neither call nor close
  cache,    \* toolResults: call id -> the call that was run for it, and its state
  answers,  \* the tool messages pushed: call, and the call whose result it got
  attempted,\* share_photo's flag
  asked,    \* times the photo selector was asked
  shared,   \* what the tools showed the client: photos, thoughts
  aborted   \* the request signal: disconnect or deadline

loopVars == <<mode, style, pc, iter, stream, reply, lapsed, cache, answers,
              attempted, asked, shared, aborted>>

NoCache  == [by |-> <<0, 0>>, state |-> "none"]
Fresh    == [acc |-> [s \in Slots |-> NoTool], opener |-> FALSE, held |-> "none",
             tool |-> FALSE, flushed |-> FALSE, finish |-> "none", text |-> 0]

LoopInit ==
  /\ mode = "none" /\ style = "none"
  /\ pc = "idle" /\ iter = 1 /\ stream = Fresh
  /\ reply = [role |-> 0, text |-> 0, finish |-> "none"] /\ lapsed = FALSE
  /\ cache = [id \in Calls |-> NoCache] /\ answers = {}
  /\ attempted = FALSE /\ asked = 0 /\ shared = [photo |-> 0, thought |-> 0]
  /\ aborted = FALSE

----------------------------------------------------------------------------
(* The calls of one answer.                                                *)

\* Mutant: results are kept by the index of the call.
CallIdBySlot(s) == <<0, s>>

CallId(s) == CASE style = "fresh"   -> <<iter, s>>
               [] style = "reused"  -> <<0, s>>
               [] style = "missing" -> <<0, 0>>

Called(acc) == {s \in Slots : acc[s] # NoTool}

\* The slots whose id has no result yet: for each id, its first call is run.
RunSlots(acc) ==
  {s \in Called(acc) : /\ cache[CallId(s)].state = "none"
                       /\ \A r \in Called(acc) : CallId(r) = CallId(s) => s <= r}

\* Mutant: the attempt is not marked before the selector is awaited.
FirstUnmarked(acc, tool, s) == acc[s] = tool

First(acc, tool, s) == acc[s] = tool /\ \A r \in RunSlots(acc) : acc[r] = tool => s <= r

\* invoke and executeToolCall up to the first await, for every call in order.
Dispatch(acc) ==
  LET runs     == RunSlots(acc)
      selects  == {s \in runs : ~aborted /\ ~attempted /\ First(acc, "photo", s)}
      speaks   == {s \in runs : ~aborted /\ shared.thought = 0 /\ First(acc, "thought", s)}
      State(s) == IF aborted THEN "thrown" ELSE IF s \in selects THEN "selecting"
                  ELSE IF acc[s] = "fetch" THEN "fetching" ELSE "done"
      Run(id)  == CHOOSE s \in runs : CallId(s) = id
  IN /\ pc' = "tools"
     /\ stream' = [stream EXCEPT !.acc = acc]
     /\ cache' = [id \in Calls |-> IF \E s \in runs : CallId(s) = id
                    THEN [by |-> <<iter, Run(id)>>, state |-> State(Run(id))] ELSE cache[id]]
     /\ attempted' = (attempted \/ selects # {})
     /\ asked' = asked + Cardinality(selects)
     /\ shared' = [shared EXCEPT !.thought = @ + Cardinality(speaks)]

\* A network tool answers, fails or times out: a result text either way.
FetchAnswers(id) ==
  /\ cache[id].state = "fetching"
  /\ cache' = [cache EXCEPT ![id].state = IF aborted THEN "thrown" ELSE "done"]
  /\ UNCHANGED <<mode, style, pc, iter, stream, reply, lapsed, answers, attempted, asked, shared, aborted>>

\* The selector chooses a photo, or none, or fails.
SelectorAnswers(id) ==
  /\ cache[id].state = "selecting"
  /\ cache' = [cache EXCEPT ![id].state = IF aborted THEN "thrown" ELSE "done"]
  /\ shared' \in {shared} \cup (IF aborted THEN {} ELSE {[shared EXCEPT !.photo = @ + 1]})
  /\ UNCHANGED <<mode, style, pc, iter, stream, reply, lapsed, answers, attempted, asked, aborted>>

\* stopChunk, toStopCompletion: the turn closed for the model.
Stopped == [reply EXCEPT !.role = 1, !.finish = "stop"]

\* Every result is there: they are pushed, and the provider is asked again.
Collect ==
  /\ pc = "tools"
  /\ \A s \in Called(stream.acc) : cache[CallId(s)].state = "done"
  /\ answers' = answers \cup {[call |-> <<iter, s>>, by |-> cache[CallId(s)].by] : s \in Called(stream.acc)}
  /\ stream' = Fresh
  /\ IF iter < MaxIterations
     THEN iter' = iter + 1 /\ pc' = "ask" /\ UNCHANGED reply
     ELSE pc' = "done" /\ reply' = Stopped /\ UNCHANGED iter
  /\ UNCHANGED <<mode, style, lapsed, cache, attempted, asked, shared, aborted>>

\* Promise.all rejects; calls that still run go on by themselves.
ToolsThrow ==
  /\ pc = "tools"
  /\ \E s \in Called(stream.acc) : cache[CallId(s)].state = "thrown"
  /\ pc' = "failed"
  /\ UNCHANGED <<mode, style, iter, stream, reply, lapsed, cache, answers, attempted, asked, shared, aborted>>

----------------------------------------------------------------------------
(* The provider.                                                           *)

Begin(next) ==
  /\ pc = "idle" /\ pc' = next
  /\ mode' \in {"stream", "plain"} /\ style' \in IdStyles
  /\ UNCHANGED <<iter, stream, reply, lapsed, cache, answers, attempted, asked, shared, aborted>>

Ask ==
  /\ pc = "ask" /\ mode = "stream" /\ ~aborted
  /\ pc' = "stream"
  /\ UNCHANGED <<mode, style, iter, stream, reply, lapsed, cache, answers, attempted, asked, shared, aborted>>

\* A plain answer: the calls, or the final completion.
Completion(acc, finish) ==
  /\ pc = "ask" /\ mode = "plain" /\ ~aborted
  /\ IF Called(acc) # {}
     THEN Dispatch(acc) /\ UNCHANGED <<reply, lapsed>>
     ELSE /\ pc' = "done"
          /\ reply' = [role |-> 1, text |-> 1, finish |-> finish]
          /\ lapsed' = (finish = "none")
          /\ UNCHANGED <<stream, cache, attempted, asked, shared>>
  /\ UNCHANGED <<mode, style, iter, answers, aborted>>

Reading == pc = "stream" /\ stream.finish = "none"

Read(next, shown) ==
  /\ stream' = next /\ reply' = shown
  /\ UNCHANGED <<mode, style, pc, iter, lapsed, cache, answers, attempted, asked, shared, aborted>>

\* Mutant: every role that arrives is passed on.
WithRoleAgain(r, carries) == IF carries THEN [r EXCEPT !.role = @ + 1] ELSE r

\* The client filter lets the first role through and drops every later one.
WithRole(r, carries) == IF carries THEN [r EXCEPT !.role = 1] ELSE r

\* A role-only or reasoning chunk: one is held until the turn's nature is known.
Opener ==
  /\ Reading /\ ~stream.tool
  /\ IF stream.flushed THEN Read(stream, WithRole(reply, TRUE))
                       ELSE Read([stream EXCEPT !.opener = TRUE], reply)

\* Text settles the turn: what was held is flushed and the text streams on.
Text(carriesRole) ==
  /\ Reading /\ ~stream.tool /\ stream.text < MaxText
  /\ Read([stream EXCEPT !.flushed = TRUE, !.opener = FALSE, !.text = @ + 1],
          [WithRole(reply, carriesRole \/ stream.opener) EXCEPT !.text = @ + 1])

\* The first fragment of the next call; from here on nothing of the answer is
\* shown.
Fragment(s, tool) ==
  /\ Reading /\ stream.acc[s] = NoTool
  /\ \A r \in Slots : r < s => stream.acc[r] # NoTool
  /\ Read([stream EXCEPT !.acc[s] = tool, !.tool = TRUE], reply)

Finish(reason) ==
  /\ Reading
  /\ LET hidden == stream.tool \/ reason = "tool_calls"
     IN Read([stream EXCEPT !.finish = reason, !.tool = hidden,
                            !.held = IF hidden \/ stream.flushed THEN "none" ELSE reason],
             IF ~hidden /\ stream.flushed THEN [reply EXCEPT !.finish = reason] ELSE reply)

\* The stream is over: a text turn is final, a tool turn runs its calls.
EndStream ==
  /\ pc = "stream"
  /\ IF Called(stream.acc) # {}
     THEN Dispatch(stream.acc) /\ UNCHANGED <<reply, lapsed>>
     ELSE /\ pc' = "done"
          /\ reply' = IF stream.flushed THEN reply
                      ELSE [WithRole(reply, stream.opener) EXCEPT !.finish = stream.held]
          /\ lapsed' = (stream.finish \notin Closings)
          /\ UNCHANGED <<stream, cache, attempted, asked, shared>>
  /\ UNCHANGED <<mode, style, iter, answers, aborted>>

\* Mutant: a stream that was opened does not see the signal.
ProviderThrowsUnsignalled ==
  /\ pc = "ask" \/ (pc = "stream" /\ ~aborted)
  /\ pc' = "failed"
  /\ UNCHANGED <<mode, style, iter, stream, reply, lapsed, cache, answers, attempted, asked, shared, aborted>>

\* The provider call fails, or throws because the signal fired.
ProviderThrows ==
  /\ pc \in {"ask", "stream"} /\ pc' = "failed"
  /\ UNCHANGED <<mode, style, iter, stream, reply, lapsed, cache, answers, attempted, asked, shared, aborted>>

\* The client disconnects or LLM_REQUEST_TIMEOUT_MS is over.
Abort ==
  /\ ~aborted /\ aborted' = TRUE
  /\ UNCHANGED <<mode, style, pc, iter, stream, reply, lapsed, cache, answers, attempted, asked, shared>>

LoopNext ==
  \/ Ask \/ Opener \/ EndStream \/ Collect \/ ToolsThrow \/ ProviderThrows
  \/ \E acc \in [Slots -> Tools \cup {NoTool}], f \in Closings \cup {"none"} : Completion(acc, f)
  \/ \E r \in BOOLEAN : Text(r)
  \/ \E s \in Slots, t \in Tools : Fragment(s, t)
  \/ \E f \in Closings \cup {"tool_calls"} : Finish(f)
  \/ \E id \in Calls : FetchAnswers(id) \/ SelectorAnswers(id)

LoopSpec == LoopInit /\ [][Begin("ask") \/ LoopNext \/ Abort]_loopVars

----------------------------------------------------------------------------
(* A provider that names every call anew gets, for each call, the result of  *)
(* that call.  (toolResults is keyed by the call's id for the whole turn: a  *)
(* provider that numbers its calls anew in every answer, or leaves the id    *)
(* out, gets earlier results for later calls.)                               *)
ResultsAnswerTheirCalls ==
  style = "fresh" => \A a \in answers : a.by = a.call

(* One turn asks the photo selector at most once, also when calls run side   *)
(* by side or are repeated, shows at most one photo and one thought, and a   *)
(* tool shows nothing after the disconnect or the deadline.                  *)
SharesOnce ==
  [][/\ asked' <= 1 /\ shared'.photo <= 1 /\ shared'.thought <= 1
     /\ aborted => shared' = shared]_loopVars

(* The loop implements the reply a client may rely on, in both modes.        *)
Reply == INSTANCE ReplyStream WITH
  role <- reply.role, text <- reply.text, finish <- reply.finish,
  over <- CASE pc = "done" -> "ended" [] pc = "failed" -> "broken" [] OTHER -> "no"
ImplementsReplyStream == Reply!Spec
=============================================================================
