--------------------------- MODULE ChatTurnProofs ---------------------------
(***************************************************************************)
(* The safety properties ChatTurn.cfg checks, proved for any persona,      *)
(* readings, iterations, calls and tools.                                  *)
(*                                                                         *)
(* The first part is about the tool loop under any caller that begins it   *)
(* and may abort it (LoopSpec).  The second takes its invariant over for   *)
(* turns of a persona; a turn without one never touches the tools.  The    *)
(* third is about the prompt: what the budget keeps and what is reported.  *)
(***************************************************************************)
EXTENDS ChatTurn, FiniteSetTheorems, WellFoundedInduction, TLAPS

-----------------------------------------------------------------------------
(* The tool loop.                                                          *)

Reasons == Closings \cup {"none", "tool_calls"}

Streams == [acc : [Slots -> Tools \cup {NoTool}], opener : BOOLEAN, held : Reasons, tool : BOOLEAN,
            flushed : BOOLEAN, finish : Reasons, text : Nat]

LoopTypeOK ==
  /\ mode \in {"none", "stream", "plain"} /\ style \in IdStyles \cup {"none"}
  /\ pc \in {"idle", "ask", "stream", "tools", "done", "failed"}
  /\ pc # "idle" => style \in IdStyles
  /\ iter \in 1 .. MaxIterations
  /\ stream \in Streams
  /\ reply \in [role : {0, 1}, text : Nat, finish : Reasons]
  /\ lapsed \in BOOLEAN
  /\ cache \in [Calls -> [by : Calls, state : {"none", "fetching", "selecting", "done", "thrown"}]]
  /\ attempted \in BOOLEAN /\ asked \in Nat /\ shared \in [photo : Nat, thought : Nat]
  /\ aborted \in BOOLEAN

(* With fresh ids, what is cached under an id is the call of that id.      *)
CachedByItself ==
  style = "fresh" => \A id \in Calls : cache[id].state # "none" => cache[id].by = id

(* The selector is asked only by the attempt that set the flag; a photo    *)
(* comes only from the one call that waits for it.                         *)
OneSelection ==
  /\ asked = (IF attempted THEN 1 ELSE 0)
  /\ shared.photo <= 1 /\ shared.thought <= 1
  /\ \A id \in Calls : cache[id].state = "selecting" => attempted /\ shared.photo = 0
  /\ \A id, other \in Calls :
       cache[id].state = "selecting" /\ cache[other].state = "selecting" => id = other
  /\ ~attempted => shared.photo = 0

(* How the answer being read, what is held of it and the reply agree.      *)
Agreed ==
  /\ pc \in {"idle", "ask"} => stream = Fresh
  /\ pc \in {"idle", "ask", "tools"} => reply.finish = "none"
  /\ pc = "stream" =>
       /\ mode = "stream"
       /\ stream.tool => reply.finish = "none"
       /\ Called(stream.acc) # {} => stream.tool
       /\ stream.tool /\ Called(stream.acc) = {} => stream.finish = "tool_calls"
       /\ stream.finish = "tool_calls" => stream.tool
       /\ stream.finish = "none" => reply.finish = "none"
       /\ stream.held # "none" => ~stream.tool /\ stream.held = stream.finish
       /\ ~stream.tool /\ stream.finish \in Closings =>
            IF stream.flushed THEN reply.finish = stream.finish ELSE stream.held = stream.finish
       /\ stream.finish \notin Closings => reply.finish = "none"
       /\ ~stream.flushed => reply.finish = "none"
  /\ mode = "plain" /\ pc # "done" => reply.text = 0
  /\ pc = "idle" => reply.text = 0
  /\ lapsed => pc = "done"

(* Nothing was called before the turn's naming of calls is known.          *)
Untouched == pc = "idle" => answers = {} /\ \A id \in Calls : cache[id].state = "none"

IInv == LoopTypeOK /\ CachedByItself /\ OneSelection /\ Agreed /\ Untouched /\ ResultsAnswerTheirCalls

-----------------------------------------------------------------------------
(* What starting the calls of one answer does.                             *)

LEMMA IdsAreCalls ==
  ASSUME LoopTypeOK, pc # "idle"
  PROVE  \A s \in Slots : CallId(s) \in Calls /\ (style = "fresh" => CallId(s) = <<iter, s>>)
BY LoopAssumption DEF LoopTypeOK, CallId, Calls, IdStyles

LEMMA AtMostOne ==
  ASSUME NEW S \in SUBSET Slots, \A r, s \in S : r = s
  PROVE  IsFiniteSet(S) /\ Cardinality(S) = (IF S = {} THEN 0 ELSE 1)
<1>1. CASE S = {}
  BY <1>1, FS_EmptySet
<1>2. CASE S # {}
  <2>1. PICK s \in S : S = {s}
    BY <1>2
  <2> QED
    BY <1>2, <2>1, FS_Singleton
<1> QED
  BY <1>1, <1>2

(* Calls that one answer makes enter the cache under their own ids, and of *)
(* them at most one selects a photo and at most one speaks.                *)
LEMMA DispatchKeeps ==
  ASSUME IInv, pc # "idle", NEW acc \in [Slots -> Tools \cup {NoTool}], Dispatch(acc), UNCHANGED <<style, iter>>
  PROVE  /\ cache' \in [Calls -> [by : Calls, state : {"none", "fetching", "selecting", "done", "thrown"}]]
         /\ stream' \in Streams
         /\ attempted' \in BOOLEAN /\ asked' \in Nat /\ shared' \in [photo : Nat, thought : Nat]
         /\ CachedByItself' /\ OneSelection'
         /\ aborted => shared' = shared
<1> DEFINE runs     == RunSlots(acc)
           selects  == {s \in runs : ~aborted /\ ~attempted /\ First(acc, "photo", s)}
           speaks   == {s \in runs : ~aborted /\ shared.thought = 0 /\ First(acc, "thought", s)}
           State(s) == IF aborted THEN "thrown" ELSE IF s \in selects THEN "selecting"
                       ELSE IF acc[s] = "fetch" THEN "fetching" ELSE "done"
           Run(id)  == CHOOSE s \in runs : CallId(s) = id
           Entry(id) == [by |-> <<iter, Run(id)>>, state |-> State(Run(id))]
<1>1. /\ stream' = [stream EXCEPT !.acc = acc]
      /\ cache' = [id \in Calls |-> IF \E s \in runs : CallId(s) = id THEN Entry(id) ELSE cache[id]]
      /\ attempted' = (attempted \/ selects # {})
      /\ asked' = asked + Cardinality(selects)
      /\ shared' = [shared EXCEPT !.thought = @ + Cardinality(speaks)]
  BY DEF Dispatch
<1>2. runs \subseteq Slots /\ \A r \in Slots : r \in Nat
  BY LoopAssumption DEF RunSlots, Called
<1>3. /\ Cardinality(selects) = (IF selects = {} THEN 0 ELSE 1)
      /\ \A r, s \in selects : r = s
  <2>1. \A r, s \in selects : r = s
    BY <1>2 DEF First
  <2> HIDE DEF runs
  <2>2. selects \in SUBSET Slots
    BY <1>2
  <2> HIDE DEF selects
  <2> QED
    BY <2>1, <2>2, AtMostOne
<1>4. Cardinality(speaks) = (IF speaks = {} THEN 0 ELSE 1)
  <2>1. \A r, s \in speaks : r = s
    BY <1>2 DEF First
  <2> HIDE DEF runs
  <2>2. speaks \in SUBSET Slots
    BY <1>2
  <2> HIDE DEF speaks
  <2> QED
    BY <2>1, <2>2, AtMostOne
<1>5. shared.thought # 0 => speaks = {}
  OBVIOUS
<1>6. aborted => selects = {} /\ speaks = {}
  OBVIOUS
<1>7. attempted => selects = {}
  OBVIOUS
<1>8. \A id \in Calls : (\E s \in runs : CallId(s) = id) => Run(id) \in runs /\ CallId(Run(id)) = id
  <2> HIDE DEF runs
  <2> QED
    OBVIOUS
<1>9. \A s \in runs : State(s) \in {"fetching", "selecting", "done", "thrown"} /\ (State(s) = "selecting" => s \in selects)
  <2> HIDE DEF runs, selects
  <2> QED
    OBVIOUS
<1>10. \A s \in Slots : <<iter, s>> \in Calls
  BY DEF IInv, LoopTypeOK, Calls
<1>11. \A r \in runs : cache[CallId(r)].state = "none"
  BY DEF RunSlots
<1>12. \A id \in Calls :
         \/ /\ Run(id) \in runs /\ CallId(Run(id)) = id
            /\ cache'[id] = [by |-> <<iter, Run(id)>>, state |-> State(Run(id))]
         \/ cache'[id] = cache[id]
  <2> HIDE DEF runs, State, Run
  <2> QED
    BY <1>1, <1>8
<1> HIDE DEF runs, selects, speaks, State, Run
<1>13. \A id \in Calls : cache'[id] \in [by : Calls, state : {"none", "fetching", "selecting", "done", "thrown"}]
  <2> SUFFICES ASSUME NEW id \in Calls
               PROVE  cache'[id] \in [by : Calls, state : {"none", "fetching", "selecting", "done", "thrown"}]
    OBVIOUS
  <2>1. CASE cache'[id] = cache[id]
    BY <2>1 DEF IInv, LoopTypeOK
  <2>2. CASE Run(id) \in runs /\ cache'[id] = [by |-> <<iter, Run(id)>>, state |-> State(Run(id))]
    <3>1. <<iter, Run(id)>> \in Calls
      BY <1>2, <1>10, <2>2
    <3>2. State(Run(id)) \in {"fetching", "selecting", "done", "thrown"}
      BY <1>9, <2>2
    <3> QED
      BY <2>2, <3>1, <3>2
  <2> QED
    BY <1>12, <2>1, <2>2
<1>14. cache' \in [Calls -> [by : Calls, state : {"none", "fetching", "selecting", "done", "thrown"}]]
  BY <1>1, <1>13
<1>15. stream' \in Streams
  BY <1>1 DEF IInv, LoopTypeOK, Streams
<1>16. attempted' \in BOOLEAN /\ asked' \in Nat /\ shared' \in [photo : Nat, thought : Nat]
  BY <1>1, <1>3, <1>4 DEF IInv, LoopTypeOK
<1>17. CachedByItself'
  <2> SUFFICES ASSUME style = "fresh", NEW id \in Calls, cache'[id].state # "none"
               PROVE  cache'[id].by = id
    BY DEF CachedByItself
  <2>1. \A s \in Slots : CallId(s) = <<iter, s>>
    BY IdsAreCalls DEF IInv
  <2>2. CASE cache'[id] = cache[id]
    BY <2>2 DEF IInv, CachedByItself
  <2>3. CASE /\ Run(id) \in runs /\ CallId(Run(id)) = id
             /\ cache'[id] = [by |-> <<iter, Run(id)>>, state |-> State(Run(id))]
    <3>1. CallId(Run(id)) = <<iter, Run(id)>>
      BY <1>2, <2>1, <2>3
    <3> QED
      BY <2>3, <3>1
  <2> QED
    BY <1>12, <2>2, <2>3
<1>18. \A id \in Calls : cache'[id].state = "selecting" =>
         \/ Run(id) \in selects /\ CallId(Run(id)) = id
         \/ cache[id].state = "selecting"
  <2> SUFFICES ASSUME NEW id \in Calls, cache'[id].state = "selecting", cache'[id] # cache[id]
               PROVE  Run(id) \in selects /\ CallId(Run(id)) = id
    OBVIOUS
  <2>1. /\ Run(id) \in runs /\ CallId(Run(id)) = id
        /\ cache'[id] = [by |-> <<iter, Run(id)>>, state |-> State(Run(id))]
    BY <1>12
  <2>2. State(Run(id)) = "selecting"
    BY <2>1
  <2> QED
    BY <1>9, <2>1, <2>2
<1>19. OneSelection'
  <2>1. asked' = (IF attempted' THEN 1 ELSE 0)
    <3>1. CASE selects = {}
      <4>1. asked' = asked /\ attempted' = attempted
        BY <1>1, <1>3, <3>1 DEF IInv, LoopTypeOK
      <4> QED
        BY <4>1 DEF IInv, OneSelection
    <3>2. CASE selects # {}
      <4>1. ~attempted /\ asked = 0
        BY <1>7, <3>2 DEF IInv, OneSelection
      <4>2. asked' = 1
        <5>1. Cardinality(selects) = 1
          BY <1>3, <3>2
        <5> QED
          BY <1>1, <4>1, <5>1
      <4>3. attempted'
        BY <1>1, <3>2
      <4> QED
        BY <4>2, <4>3
    <3> QED
      BY <3>1, <3>2
  <2>2. shared'.photo = shared.photo /\ shared'.thought <= 1
    BY <1>1, <1>4, <1>5 DEF IInv, OneSelection, LoopTypeOK
  <2>3. selects # {} => /\ shared.photo = 0
                        /\ \A id \in Calls : cache[id].state # "selecting"
    BY <1>7 DEF IInv, OneSelection, LoopTypeOK
  <2>4. \A id \in Calls : cache'[id].state = "selecting" => attempted' /\ shared'.photo = 0
    BY <1>1, <1>18, <2>2, <2>3 DEF IInv, OneSelection
  <2>5. \A id, other \in Calls :
          cache'[id].state = "selecting" /\ cache'[other].state = "selecting" => id = other
    BY <1>3, <1>18, <2>3 DEF IInv, OneSelection
  <2>6. ~attempted' => shared'.photo = 0
    BY <1>1, <2>2 DEF IInv, OneSelection, LoopTypeOK
  <2> QED
    BY <2>1, <2>2, <2>4, <2>5, <2>6 DEF OneSelection, IInv
<1>20. aborted => shared' = shared
  BY <1>1, <1>4, <1>6 DEF IInv, LoopTypeOK
<1> QED
  BY <1>14, <1>15, <1>16, <1>17, <1>19, <1>20

-----------------------------------------------------------------------------
(* The invariant.                                                          *)

LEMMA FreshIsAnAnswer == Fresh \in Streams
  BY DEF Fresh, Streams, Reasons

LEMMA Initially == LoopInit => IInv
<1> SUFFICES ASSUME LoopInit PROVE IInv
  OBVIOUS
<1>1. <<0, 0>> \in Calls
  BY LoopAssumption DEF Calls
<1>2. NoCache \in [by : Calls, state : {"none", "fetching", "selecting", "done", "thrown"}]
  BY <1>1 DEF NoCache
<1>3. cache \in [Calls -> [by : Calls, state : {"none", "fetching", "selecting", "done", "thrown"}]]
  BY <1>2 DEF LoopInit
<1>4. reply \in [role : {0, 1}, text : Nat, finish : Reasons] /\ reply.finish = "none" /\ reply.text = 0
  BY DEF LoopInit, Reasons
<1>5. LoopTypeOK
  <2>1. iter \in 1 .. MaxIterations
    BY LoopAssumption DEF LoopInit
  <2>2. stream \in Streams
    BY FreshIsAnAnswer DEF LoopInit
  <2>3. asked \in Nat /\ shared \in [photo : Nat, thought : Nat]
    BY DEF LoopInit
  <2> QED
    BY <1>3, <1>4, <2>1, <2>2, <2>3 DEF LoopInit, LoopTypeOK
<1>6. CachedByItself /\ ResultsAnswerTheirCalls
  BY DEF LoopInit, CachedByItself, ResultsAnswerTheirCalls, NoCache
<1>7. OneSelection
  BY DEF LoopInit, OneSelection, NoCache
<1>8. Agreed
  BY <1>4 DEF LoopInit, Agreed
<1>9. Untouched
  BY DEF LoopInit, Untouched, NoCache
<1> QED
  BY <1>5, <1>6, <1>7, <1>8, <1>9 DEF IInv

(* A step that only reads the answer leaves the tools alone.               *)
LEMMA ReadingKeeps ==
  ASSUME IInv, Reading, NEW next \in Streams, NEW given, Read(next, given),
         given \in [role : {0, 1}, text : Nat, finish : Reasons],
         Agreed'
  PROVE  IInv'
BY DEF IInv, LoopTypeOK, CachedByItself, OneSelection, Untouched, ResultsAnswerTheirCalls, Read, Reading

LEMMA OpenerKeeps == ASSUME IInv, Opener PROVE IInv'
<1>1. PICK next \in Streams, given \in [role : {0, 1}, text : Nat, finish : Reasons] :
        /\ Read(next, given)
        /\ next = [stream EXCEPT !.opener = next.opener]
        /\ given = [reply EXCEPT !.role = given.role]
  <2>1. CASE stream.flushed
    BY <2>1 DEF Opener, WithRole, IInv, LoopTypeOK, Streams
  <2>2. CASE ~stream.flushed
    <3> DEFINE next == [stream EXCEPT !.opener = TRUE]
    <3>1. Read(next, reply)
      BY <2>2 DEF Opener
    <3>2. next \in Streams /\ next = [stream EXCEPT !.opener = next.opener]
      BY DEF IInv, LoopTypeOK, Streams
    <3>3. reply \in [role : {0, 1}, text : Nat, finish : Reasons] /\ reply = [reply EXCEPT !.role = reply.role]
      BY DEF IInv, LoopTypeOK
    <3> HIDE DEF next
    <3> QED
      BY <3>1, <3>2, <3>3
  <2> QED
    BY <2>1, <2>2
<1>2. Agreed'
  BY <1>1 DEF Opener, Read, Reading, IInv, LoopTypeOK, Agreed, Called, Streams
<1> QED
  BY <1>1, <1>2, ReadingKeeps DEF Opener

LEMMA TextKeeps == ASSUME IInv, NEW r \in BOOLEAN, Text(r) PROVE IInv'
<1> DEFINE next  == [stream EXCEPT !.flushed = TRUE, !.opener = FALSE, !.text = @ + 1]
           given == [WithRole(reply, r \/ stream.opener) EXCEPT !.text = @ + 1]
<1>1. Read(next, given) /\ Reading /\ ~stream.tool
  BY DEF Text
<1>2. next \in Streams
  <2> DEFINE one == [stream EXCEPT !.flushed = TRUE]
             two == [one EXCEPT !.opener = FALSE]
  <2>1. one \in Streams
    BY DEF IInv, LoopTypeOK, Streams
  <2>2. two \in Streams
    <3> HIDE DEF one
    <3> QED
      BY <2>1 DEF Streams
  <2>3. [two EXCEPT !.text = @ + 1] \in Streams
    <3> HIDE DEF two
    <3> QED
      BY <2>2 DEF Streams
  <2> QED
    BY <2>3
<1>3. given \in [role : {0, 1}, text : Nat, finish : Reasons] /\ given.finish = reply.finish
  BY DEF IInv, LoopTypeOK, WithRole
<1>4. Agreed'
  BY <1>1, <1>2, <1>3 DEF Read, Reading, IInv, LoopTypeOK, Agreed, Called, Streams
<1> QED
  BY <1>1, <1>2, <1>3, <1>4, ReadingKeeps

LEMMA FragmentKeeps == ASSUME IInv, NEW s \in Slots, NEW t \in Tools, Fragment(s, t) PROVE IInv'
<1> DEFINE next == [stream EXCEPT !.acc[s] = t, !.tool = TRUE]
<1>1. Read(next, reply) /\ Reading
  BY DEF Fragment
<1>2. next \in Streams
  BY DEF IInv, LoopTypeOK, Streams
<1>3. Called(next.acc) # {}
  BY LoopAssumption DEF Called, NoTool, IInv, LoopTypeOK, Streams
<1>4. Agreed'
  BY <1>1, <1>2, <1>3 DEF Read, Reading, IInv, LoopTypeOK, Agreed, Streams
<1>5. reply \in [role : {0, 1}, text : Nat, finish : Reasons]
  BY DEF IInv, LoopTypeOK
<1> QED
  BY <1>1, <1>2, <1>4, <1>5, ReadingKeeps

LEMMA FinishKeeps == ASSUME IInv, NEW f \in Closings \cup {"tool_calls"}, Finish(f) PROVE IInv'
<1> DEFINE hidden == stream.tool \/ f = "tool_calls"
           next   == [stream EXCEPT !.finish = f, !.tool = hidden,
                        !.held = IF hidden \/ stream.flushed THEN "none" ELSE f]
           given  == IF ~hidden /\ stream.flushed THEN [reply EXCEPT !.finish = f] ELSE reply
<1>1. Read(next, given) /\ Reading
  BY DEF Finish
<1>2. f \in Reasons /\ f # "none"
  BY LoopAssumption DEF Reasons
<1>3. next \in Streams
  BY <1>2 DEF IInv, LoopTypeOK, Streams, Reasons
<1>4. given \in [role : {0, 1}, text : Nat, finish : Reasons]
  BY <1>2 DEF IInv, LoopTypeOK
<1>5. /\ stream' = next /\ reply' = given /\ next.acc = stream.acc /\ next.finish = f
      /\ next.tool = hidden /\ next.flushed = stream.flushed
      /\ next.held = (IF hidden \/ stream.flushed THEN "none" ELSE f)
  BY <1>1 DEF Read, IInv, LoopTypeOK, Streams
<1>6. Agreed'
  <2>1. /\ pc = "stream" /\ stream.finish = "none" /\ reply.finish = "none"
        /\ UNCHANGED <<pc, mode, lapsed>> /\ ~lapsed
        /\ stream.tool /\ Called(stream.acc) = {} => stream.finish = "tool_calls"
        /\ Called(stream.acc) # {} => stream.tool
    BY <1>1 DEF Read, Reading, IInv, Agreed
  <2>2. given.finish = (IF ~hidden /\ stream.flushed THEN f ELSE "none") /\ given.text = reply.text
    BY <2>1 DEF IInv, LoopTypeOK
  <2> HIDE DEF next, given
  <2>3. f \in Closings => f # "tool_calls"
    BY LoopAssumption
  <2> QED
    BY <1>2, <1>5, <2>1, <2>2, <2>3, LoopAssumption DEF Agreed, IInv, LoopTypeOK
<1> QED
  BY <1>1, <1>3, <1>4, <1>6, ReadingKeeps

LEMMA DispatchingKeeps ==
  ASSUME IInv, pc # "idle", NEW acc \in [Slots -> Tools \cup {NoTool}], Dispatch(acc),
         reply.finish = "none", mode = "plain" => reply.text = 0, ~lapsed,
         UNCHANGED <<reply, lapsed, mode, style, iter, answers, aborted>>
  PROVE  IInv'
<1>1. /\ cache' \in [Calls -> [by : Calls, state : {"none", "fetching", "selecting", "done", "thrown"}]]
      /\ stream' \in Streams
      /\ attempted' \in BOOLEAN /\ asked' \in Nat /\ shared' \in [photo : Nat, thought : Nat]
      /\ CachedByItself' /\ OneSelection'
  BY DispatchKeeps
<1>2. pc' = "tools"
  BY DEF Dispatch
<1>3. LoopTypeOK'
  BY <1>1, <1>2 DEF IInv, LoopTypeOK
<1>4. Agreed'
  BY <1>2 DEF Agreed
<1>5. ResultsAnswerTheirCalls'
  BY DEF IInv, ResultsAnswerTheirCalls
<1> QED
  BY <1>1, <1>2, <1>3, <1>4, <1>5 DEF IInv, Untouched

(* Without calls the turn is over, and the tools are left as they are.     *)
LEMMA ClosingKeeps ==
  ASSUME IInv, pc' \in {"done", "failed"}, pc # "idle",
         reply' \in [role : {0, 1}, text : Nat, finish : Reasons],
         lapsed' \in BOOLEAN, lapsed' => pc' = "done",
         pc' = "failed" => reply' = reply /\ pc # "done",
         UNCHANGED <<mode, style, iter, stream, cache, answers, attempted, asked, shared, aborted>>
  PROVE  IInv'
BY DEF IInv, LoopTypeOK, CachedByItself, OneSelection, ResultsAnswerTheirCalls, Agreed, Untouched

LEMMA EndStreamKeeps == ASSUME IInv, EndStream PROVE IInv'
<1>1. CASE Called(stream.acc) # {}
  <2>1. reply.finish = "none" /\ mode = "stream" /\ ~lapsed
    BY <1>1 DEF EndStream, IInv, Agreed
  <2>2. stream.acc \in [Slots -> Tools \cup {NoTool}]
    BY DEF IInv, LoopTypeOK, Streams
  <2> QED
    BY <1>1, <2>1, <2>2, DispatchingKeeps DEF EndStream
<1>2. CASE Called(stream.acc) = {}
  <2>1. reply' \in [role : {0, 1}, text : Nat, finish : Reasons]
    <3>1. stream.held \in Reasons
      BY DEF IInv, LoopTypeOK, Streams
    <3> QED
      BY <1>2, <3>1 DEF EndStream, WithRole, IInv, LoopTypeOK
  <2> QED
    BY <1>2, <2>1, ClosingKeeps DEF EndStream
<1> QED
  BY <1>1, <1>2

LEMMA CompletionKeeps ==
  ASSUME IInv, NEW acc \in [Slots -> Tools \cup {NoTool}], NEW f \in Closings \cup {"none"}, Completion(acc, f)
  PROVE  IInv'
<1>1. CASE Called(acc) # {}
  BY <1>1, DispatchingKeeps DEF Completion, IInv, Agreed
<1>2. CASE Called(acc) = {}
  <2>1. reply' \in [role : {0, 1}, text : Nat, finish : Reasons]
    BY <1>2 DEF Completion, Reasons
  <2> QED
    BY <1>2, <2>1, ClosingKeeps DEF Completion
<1> QED
  BY <1>1, <1>2

LEMMA CollectKeeps == ASSUME IInv, Collect PROVE IInv'
<1>1. ResultsAnswerTheirCalls'
  <2> SUFFICES ASSUME style = "fresh", NEW a \in answers', a \notin answers
               PROVE  a.by = a.call
    BY DEF ResultsAnswerTheirCalls, Collect, IInv
  <2>1. PICK s \in Called(stream.acc) : a = [call |-> <<iter, s>>, by |-> cache[CallId(s)].by]
    BY DEF Collect
  <2>2. s \in Slots /\ pc # "idle" /\ cache[CallId(s)].state = "done"
    BY DEF Collect, Called
  <2>3. CallId(s) \in Calls /\ CallId(s) = <<iter, s>>
    BY <2>2, IdsAreCalls DEF IInv
  <2>4. cache[CallId(s)].by = CallId(s)
    BY <2>2, <2>3 DEF IInv, CachedByItself
  <2> QED
    BY <2>1, <2>3, <2>4
<1>2. Fresh \in Streams
  BY FreshIsAnAnswer
<1>3. iter' \in 1 .. MaxIterations /\ pc' \in {"ask", "done"} /\ ~lapsed
  BY LoopAssumption DEF Collect, IInv, LoopTypeOK, Agreed
<1>4. reply' \in [role : {0, 1}, text : Nat, finish : Reasons]
  BY LoopAssumption DEF Collect, Stopped, IInv, LoopTypeOK, Reasons
<1>5. LoopTypeOK'
  BY <1>2, <1>3, <1>4 DEF Collect, IInv, LoopTypeOK
<1>6. Agreed'
  <2>1. stream' = Fresh /\ UNCHANGED <<mode, lapsed>> /\ (pc' = "ask" => reply' = reply)
    BY DEF Collect
  <2>2. reply.finish = "none" /\ (mode = "plain" => reply.text = 0)
    BY DEF Collect, IInv, Agreed
  <2> QED
    BY <1>3, <2>1, <2>2 DEF Agreed
<1>7. CachedByItself' /\ OneSelection'
  BY DEF Collect, IInv, CachedByItself, OneSelection
<1> QED
  BY <1>1, <1>3, <1>5, <1>6, <1>7 DEF IInv, Untouched

(* A running tool ends.                                                    *)
LEMMA AnswersKeep ==
  ASSUME IInv, NEW id \in Calls, FetchAnswers(id) \/ SelectorAnswers(id)
  PROVE  IInv'
<1>1. PICK st \in {"done", "thrown"} : cache' = [cache EXCEPT ![id].state = st]
  BY DEF FetchAnswers, SelectorAnswers
<1>2. /\ cache[id].state \in {"fetching", "selecting"}
      /\ UNCHANGED <<mode, style, pc, iter, stream, reply, lapsed, answers, attempted, asked, aborted>>
  BY DEF FetchAnswers, SelectorAnswers
<1>3. /\ cache' \in [Calls -> [by : Calls, state : {"none", "fetching", "selecting", "done", "thrown"}]]
      /\ \A other \in Calls : /\ cache'[other].by = cache[other].by
                              /\ cache'[other].state = (IF other = id THEN st ELSE cache[other].state)
  BY <1>1 DEF IInv, LoopTypeOK
<1>4. /\ shared' \in [photo : Nat, thought : Nat] /\ shared'.thought = shared.thought
      /\ shared' = shared \/ (cache[id].state = "selecting" /\ shared'.photo = shared.photo + 1)
  BY DEF FetchAnswers, SelectorAnswers, IInv, LoopTypeOK
<1>5. LoopTypeOK'
  BY <1>2, <1>3, <1>4 DEF IInv, LoopTypeOK
<1>6. CachedByItself'
  BY <1>2, <1>3 DEF IInv, CachedByItself
<1>7. OneSelection'
  <2>1. CASE cache[id].state = "selecting"
    <3>1. attempted /\ shared.photo = 0 /\ \A other \in Calls : cache'[other].state # "selecting"
      BY <1>3, <2>1 DEF IInv, OneSelection
    <3> QED
      BY <1>2, <1>4, <3>1 DEF IInv, LoopTypeOK, OneSelection
  <2>2. CASE cache[id].state # "selecting"
    <3>1. shared' = shared /\ \A other \in Calls : cache'[other].state = "selecting" => cache[other].state = "selecting"
      BY <1>3, <1>4, <2>2
    <3> QED
      BY <1>2, <3>1 DEF IInv, OneSelection
  <2> QED
    BY <2>1, <2>2
<1>8. Agreed' /\ ResultsAnswerTheirCalls' /\ pc # "idle"
  BY <1>2 DEF IInv, Agreed, ResultsAnswerTheirCalls, Called, Untouched
<1> QED
  BY <1>2, <1>5, <1>6, <1>7, <1>8 DEF IInv, Untouched

LEMMA Keeps == IInv /\ [Begin("ask") \/ LoopNext \/ Abort]_loopVars => IInv'
<1> SUFFICES ASSUME IInv, [Begin("ask") \/ LoopNext \/ Abort]_loopVars
             PROVE  IInv'
  OBVIOUS
<1> USE DEF LoopNext
<1>1. CASE Begin("ask")
  <2>1. pc' = "ask" /\ pc = "idle" /\ mode' \in {"stream", "plain"} /\ style' \in IdStyles
        /\ UNCHANGED <<iter, stream, reply, lapsed, cache, answers, attempted, asked, shared, aborted>>
    BY <1>1 DEF Begin
  <2>2. (\A id \in Calls : cache[id].state = "none") /\ answers = {}
    BY <2>1 DEF IInv, Untouched
  <2>3. LoopTypeOK' /\ OneSelection' /\ Untouched'
    BY <2>1 DEF IInv, LoopTypeOK, OneSelection, Untouched
  <2>4. Agreed'
    BY <2>1 DEF IInv, Agreed
  <2>5. CachedByItself' /\ ResultsAnswerTheirCalls'
    BY <2>1, <2>2 DEF CachedByItself, ResultsAnswerTheirCalls
  <2> QED
    BY <2>3, <2>4, <2>5 DEF IInv
<1>2. CASE Ask
  <2>1. pc' = "stream" /\ pc = "ask" /\ mode = "stream"
        /\ UNCHANGED <<mode, style, iter, stream, reply, lapsed, cache, answers, attempted, asked, shared, aborted>>
    BY <1>2 DEF Ask
  <2>2. /\ stream = Fresh /\ reply.finish = "none" /\ Called(Fresh.acc) = {}
        /\ ~Fresh.tool /\ Fresh.finish = "none" /\ Fresh.held = "none"
    BY <2>1 DEF IInv, Agreed, Fresh, Called
  <2>3. LoopTypeOK' /\ CachedByItself' /\ OneSelection' /\ ResultsAnswerTheirCalls' /\ Untouched'
    BY <2>1 DEF IInv, LoopTypeOK, CachedByItself, OneSelection, ResultsAnswerTheirCalls, Untouched
  <2>4. ~lapsed
    BY <2>1 DEF IInv, Agreed
  <2>5. Agreed'
    BY <2>1, <2>2, <2>4, LoopAssumption DEF Agreed
  <2> QED
    BY <2>3, <2>5 DEF IInv
<1>3. CASE Opener
  BY <1>3, OpenerKeeps
<1>4. CASE EndStream
  BY <1>4, EndStreamKeeps
<1>5. CASE Collect
  BY <1>5, CollectKeeps
<1>6. CASE ToolsThrow
  BY <1>6, ClosingKeeps DEF ToolsThrow, IInv, LoopTypeOK, Agreed
<1>7. CASE ProviderThrows
  BY <1>7, ClosingKeeps DEF ProviderThrows, IInv, LoopTypeOK, Agreed
<1>8. CASE \E acc \in [Slots -> Tools \cup {NoTool}], f \in Closings \cup {"none"} : Completion(acc, f)
  BY <1>8, CompletionKeeps
<1>9. CASE \E r \in BOOLEAN : Text(r)
  BY <1>9, TextKeeps
<1>10. CASE \E s \in Slots, t \in Tools : Fragment(s, t)
  BY <1>10, FragmentKeeps
<1>11. CASE \E f \in Closings \cup {"tool_calls"} : Finish(f)
  BY <1>11, FinishKeeps
<1>12. CASE \E id \in Calls : FetchAnswers(id) \/ SelectorAnswers(id)
  BY <1>12, AnswersKeep
<1>13. CASE Abort
  BY <1>13 DEF Abort, IInv, LoopTypeOK, CachedByItself, OneSelection, Agreed, ResultsAnswerTheirCalls, Called, Untouched
<1>14. CASE UNCHANGED loopVars
  BY <1>14 DEF loopVars, IInv, LoopTypeOK, CachedByItself, OneSelection, Agreed, ResultsAnswerTheirCalls, Called, Untouched
<1> QED
  BY <1>1, <1>2, <1>3, <1>4, <1>5, <1>6, <1>7, <1>8, <1>9, <1>10, <1>11, <1>12, <1>13, <1>14

-----------------------------------------------------------------------------
(* Every call gets its own result when calls are named anew, however many  *)
(* answers and calls there are.                                            *)
THEOREM EveryCallGetsItsResult == LoopSpec => []ResultsAnswerTheirCalls
<1>1. IInv => ResultsAnswerTheirCalls
  BY DEF IInv
<1> QED
  BY <1>1, Initially, Keeps, PTL DEF LoopSpec

(* In every turn the selector is asked once at most, one photo and one     *)
(* thought at most are shown, and nothing once the turn is aborted.        *)
THEOREM ATurnSharesOnce == LoopSpec => SharesOnce
<1>1. IInv /\ IInv' /\ [Begin("ask") \/ LoopNext \/ Abort]_loopVars
        => [/\ asked' <= 1 /\ shared'.photo <= 1 /\ shared'.thought <= 1
            /\ aborted => shared' = shared]_loopVars
  <2> SUFFICES ASSUME IInv, IInv', [Begin("ask") \/ LoopNext \/ Abort]_loopVars
               PROVE  /\ asked' <= 1 /\ shared'.photo <= 1 /\ shared'.thought <= 1
                      /\ aborted => shared' = shared
    OBVIOUS
  <2>1. asked' <= 1 /\ shared'.photo <= 1 /\ shared'.thought <= 1
    BY DEF IInv, OneSelection
  <2>2. ASSUME aborted, NEW acc \in [Slots -> Tools \cup {NoTool}], Dispatch(acc), UNCHANGED <<style, iter>>, pc # "idle"
        PROVE  shared' = shared
    BY <2>2, DispatchKeeps
  <2>3. EndStream /\ aborted => shared' = shared
    <3>1. stream.acc \in [Slots -> Tools \cup {NoTool}]
      BY DEF IInv, LoopTypeOK, Streams
    <3> QED
      BY <2>2, <3>1 DEF EndStream
  <2>4. \A acc \in [Slots -> Tools \cup {NoTool}], f \in Closings \cup {"none"} :
          Completion(acc, f) /\ aborted => shared' = shared
    BY DEF Completion
  <2>5. \A id \in Calls : (FetchAnswers(id) \/ SelectorAnswers(id)) /\ aborted => shared' = shared
    BY DEF FetchAnswers, SelectorAnswers
  <2>6. aborted => shared' = shared
    BY <2>3, <2>4, <2>5
    DEF LoopNext, loopVars, Begin, Ask, Opener, Text, Fragment, Finish, Read, Collect, ToolsThrow, ProviderThrows, Abort
  <2> QED
    BY <2>1, <2>6
<1> QED
  BY <1>1, Initially, Keeps, PTL DEF LoopSpec, SharesOnce

-----------------------------------------------------------------------------
(* The refinement: what the loop does to the reply is a frame, the end or  *)
(* the break of the reply stream, or nothing at all.                       *)

LEMMA StepsAreReplySteps ==
  ASSUME IInv, IInv', [Begin("ask") \/ LoopNext \/ Abort]_loopVars
  PROVE  [Reply!Next]_Reply!vars
<1> DEFINE Abstract == Reply!Frame \/ Reply!End \/ Reply!Break \/ UNCHANGED Reply!vars
<1>1. SUFFICES Abstract
  BY DEF Reply!Next
<1>2. ASSUME pc \notin {"done", "failed"}, pc' \notin {"done", "failed"}, UNCHANGED <<reply, lapsed>>
      PROVE  Abstract
  BY <1>2 DEF Reply!vars
<1>3. CASE Begin("ask") \/ Ask \/ (\E s \in Slots, t \in Tools : Fragment(s, t))
  BY <1>2, <1>3 DEF Begin, Ask, Fragment, Reading, Read
<1>4. ASSUME Reading, NEW next, NEW given, Read(next, given), reply.finish = "none",
             given.role \in {reply.role, 1}, given.text \in {reply.text, reply.text + 1},
             given.finish \in {"none"} \cup Closings
      PROVE  Abstract
  BY <1>4 DEF Reading, Read, Reply!Frame
<1>5. CASE Opener
  <2>1. reply.finish = "none" /\ Reading
    BY <1>5 DEF Opener, Reading, IInv, Agreed
  <2>2. CASE stream.flushed
    BY <1>4, <1>5, <2>1, <2>2 DEF Opener, WithRole, IInv, LoopTypeOK
  <2>3. CASE ~stream.flushed
    BY <1>4, <1>5, <2>1, <2>3 DEF Opener, IInv, LoopTypeOK
  <2> QED
    BY <2>2, <2>3
<1>6. CASE \E r \in BOOLEAN : Text(r)
  <2>1. PICK r \in BOOLEAN : Text(r)
    BY <1>6
  <2> DEFINE given == [WithRole(reply, r \/ stream.opener) EXCEPT !.text = @ + 1]
  <2>2. reply.finish = "none" /\ Reading
    BY <2>1 DEF Text, Reading, IInv, Agreed
  <2>3. given.role \in {reply.role, 1} /\ given.text = reply.text + 1 /\ given.finish = "none"
    BY <2>2 DEF WithRole, IInv, LoopTypeOK
  <2> HIDE DEF given
  <2> QED
    BY <1>4, <2>1, <2>2, <2>3 DEF Text, given
<1>7. CASE \E f \in Closings \cup {"tool_calls"} : Finish(f)
  <2>1. PICK f \in Closings \cup {"tool_calls"} : Finish(f)
    BY <1>7
  <2> DEFINE hidden == stream.tool \/ f = "tool_calls"
             given  == IF ~hidden /\ stream.flushed THEN [reply EXCEPT !.finish = f] ELSE reply
  <2>2. reply.finish = "none" /\ Reading
    BY <2>1 DEF Finish, Reading, IInv, Agreed
  <2>3. given.role = reply.role /\ given.text = reply.text /\ given.finish \in {"none"} \cup Closings
    BY <2>2 DEF IInv, LoopTypeOK
  <2> HIDE DEF given
  <2> QED
    BY <1>4, <2>1, <2>2, <2>3 DEF Finish, given
<1>8. CASE EndStream
  <2>1. CASE Called(stream.acc) # {}
    BY <1>2, <1>8, <2>1 DEF EndStream, Dispatch
  <2>2. CASE Called(stream.acc) = {}
    <3>1. /\ pc = "stream" /\ pc' = "done" /\ lapsed' = (stream.finish \notin Closings) /\ ~lapsed
          /\ reply' = IF stream.flushed THEN reply ELSE [WithRole(reply, stream.opener) EXCEPT !.finish = stream.held]
      BY <1>8, <2>2 DEF EndStream, IInv, Agreed
    <3>2. reply'.role \in {reply.role, 1} /\ reply'.text = reply.text
      BY <3>1 DEF WithRole, IInv, LoopTypeOK
    <3>3. reply'.finish = (IF stream.flushed THEN reply.finish ELSE stream.held)
      BY <3>1 DEF WithRole, IInv, LoopTypeOK
    <3>4. reply'.finish \in IF reply.finish # "none" THEN {reply.finish}
                            ELSE Closings \cup (IF lapsed' THEN {"none"} ELSE {})
      BY <3>1, <3>3, <2>2, LoopAssumption DEF IInv, Agreed, LoopTypeOK, Reasons, Streams
    <3>5. lapsed' \in {lapsed, TRUE}
      <4>1. lapsed \in BOOLEAN /\ lapsed' \in BOOLEAN
        BY DEF IInv, LoopTypeOK
      <4> QED
        BY <3>1, <4>1
    <3> QED
      BY <3>1, <3>2, <3>4, <3>5 DEF Reply!End
  <2> QED
    BY <2>1, <2>2
<1>9. CASE \E acc \in [Slots -> Tools \cup {NoTool}], f \in Closings \cup {"none"} : Completion(acc, f)
  <2>1. PICK acc \in [Slots -> Tools \cup {NoTool}], f \in Closings \cup {"none"} : Completion(acc, f)
    BY <1>9
  <2>2. CASE Called(acc) # {}
    BY <1>2, <2>1, <2>2 DEF Completion, Dispatch
  <2>3. CASE Called(acc) = {}
    <3>1. /\ pc = "ask" /\ pc' = "done" /\ reply' = [role |-> 1, text |-> 1, finish |-> f]
          /\ lapsed' = (f = "none") /\ reply.text = 0 /\ reply.finish = "none" /\ ~lapsed
      BY <2>1, <2>3 DEF Completion, IInv, Agreed
    <3>2. lapsed' \in {lapsed, TRUE} /\ (f # "none" => f \in Closings)
      <4>1. lapsed \in BOOLEAN /\ lapsed' \in BOOLEAN
        BY DEF IInv, LoopTypeOK
      <4> QED
        BY <3>1, <4>1
    <3>3. reply'.role = 1 /\ reply'.text = reply.text + 1 /\ reply'.finish = f
      BY <3>1
    <3>4. reply'.finish \in IF reply.finish # "none" THEN {reply.finish}
                            ELSE Closings \cup (IF lapsed' THEN {"none"} ELSE {})
      BY <3>1, <3>2, <3>3
    <3> QED
      BY <3>1, <3>2, <3>3, <3>4 DEF Reply!End
  <2> QED
    BY <2>2, <2>3
<1>10. CASE Collect
  <2>1. CASE iter < MaxIterations
    BY <1>2, <1>10, <2>1 DEF Collect
  <2>2. CASE ~(iter < MaxIterations)
    <3>1. pc = "tools" /\ pc' = "done" /\ reply' = Stopped /\ lapsed' = lapsed /\ reply.finish = "none"
      BY <1>10, <2>2 DEF Collect, IInv, Agreed
    <3>2. reply'.role = 1 /\ reply'.text = reply.text /\ reply'.finish = "stop"
      BY <3>1 DEF Stopped, IInv, LoopTypeOK
    <3> QED
      BY <3>1, <3>2, LoopAssumption DEF Reply!End
  <2> QED
    BY <2>1, <2>2
<1>11. CASE ToolsThrow \/ ProviderThrows
  BY <1>11 DEF ToolsThrow, ProviderThrows, Reply!Break
<1>12. CASE Abort \/ (\E id \in Calls : FetchAnswers(id) \/ SelectorAnswers(id)) \/ UNCHANGED loopVars
  BY <1>12 DEF Abort, FetchAnswers, SelectorAnswers, loopVars, Reply!vars
<1> QED
  BY <1>3, <1>5, <1>6, <1>7, <1>8, <1>9, <1>10, <1>11, <1>12 DEF LoopNext

(* In both modes the loop gives its client the reply of ReplyStream.       *)
THEOREM TheLoopIsAReplyStream == LoopSpec => ImplementsReplyStream
<1>1. LoopInit => Reply!Init
  BY DEF LoopInit, Reply!Init
<1> QED
  BY <1>1, Initially, Keeps, StepsAreReplySteps, PTL DEF LoopSpec, ImplementsReplyStream, Reply!Spec
-----------------------------------------------------------------------------
(* The request around it.                                                  *)

(* A turn without a persona: the loop stands still, text may pass.         *)
Passing ==
  /\ pc \in {"idle", "proxy", "done", "failed"}
  /\ reply \in [role : {0, 1}, text : Nat, finish : Reasons]
  /\ \A id \in Calls : cache[id].state = "none"

Looping == IF kind = "proxy" THEN Passing ELSE IInv

(* Tools run only for the answer being handled, or past a failed reply.    *)
Running(id) == cache[id].state \in {"fetching", "selecting"}

Settled ==
  \A id \in Calls : Running(id) =>
    /\ pc \in {"tools", "failed"}
    /\ pc = "tools" => \E s \in Called(stream.acc) : CallId(s) = id

(* Where in the request the loop may be.                                   *)
Phased ==
  /\ phase \in {"request", "ready", "replying", "posting", "over"}
  /\ phase = "request" => kind = "none"
  /\ phase = "ready" => kind \in {"proxy", "persona"}
  /\ phase \in {"request", "ready"} => pc = "idle" /\ mode = "none" /\ reply.text = 0
  /\ phase = "posting" => pc = "done"
  /\ phase = "over" => pc \in {"idle", "done", "failed"}
  /\ phase = "over" /\ pc = "failed" => ending = "error"
  /\ phase # "over" => ending = "none"
  /\ pc # "idle" => mode \in {"stream", "plain"}

(* Until an error frame cuts it off, what was sent and what is queued are  *)
(* together what the loop made; a plain reply queues nothing.              *)
Accounted ==
  /\ shown \in Nat /\ queue \in [text : Nat, other : BOOLEAN]
  /\ mode # "stream" => queue = Empty
  /\ mode = "none" => shown = 0
  /\ mode = "stream" /\ ending # "error" => shown + queue.text = reply.text

(* What is judged or learned from is an ended reply that was written.      *)
Posted ==
  /\ judged \in {"asked", "granted"} \/ learned # Unlearned =>
       /\ phase \in {"posting", "over"} /\ pc = "done" /\ kind = "persona" /\ ending # "error"
       /\ queue.text = 0
  /\ learned # Unlearned => learned = reply.text
  /\ ending = "done" => phase = "over" /\ pc = "done" /\ judged # "asked" /\ queue = Empty

TInv == Looping /\ Settled /\ Phased /\ Accounted /\ Posted

-----------------------------------------------------------------------------
LEMMA DeliveredWhatIsLearned == TInv => LearnsWhatWasDelivered
<1> SUFFICES ASSUME TInv PROVE LearnsWhatWasDelivered
  OBVIOUS
<1>1. reply.text \in Nat
  BY DEF TInv, Looping, Passing, IInv, LoopTypeOK
<1> QED
  BY <1>1 DEF TInv, Accounted, Posted, LearnsWhatWasDelivered

LEMMA TurnInitially == TurnInit => TInv
<1> SUFFICES ASSUME TurnInit PROVE TInv
  OBVIOUS
<1>1. IInv
  BY Initially DEF TurnInit
<1>2. Looping
  BY <1>1 DEF TurnInit, Looping
<1>3. Settled
  BY DEF TurnInit, LoopInit, NoCache, Settled, Running
<1>4. Phased /\ Accounted /\ Posted
  BY DEF TurnInit, LoopInit, Empty, Phased, Accounted, Posted
<1> QED
  BY <1>2, <1>3, <1>4 DEF TInv

(* A step of the request that leaves the loop alone.                       *)
LEMMA Apart ==
  ASSUME TInv, UNCHANGED loopVars, kind' = kind
  PROVE  Looping' /\ Settled'
<1>1. /\ UNCHANGED <<pc, reply, cache, stream, style, iter>>
      /\ IInv => IInv'
  BY Keeps DEF loopVars
<1>2. Looping'
  BY <1>1 DEF TInv, Looping, Passing
<1>3. Settled'
  BY <1>1 DEF TInv, Settled, Running, Called, CallId
<1> QED
  BY <1>2, <1>3

-----------------------------------------------------------------------------
(* The steps of the loop.                                                  *)

(* A reply that is streamed only grows.                                    *)
LEMMA Grows ==
  ASSUME IInv, LoopNext, mode = "stream"
  PROVE  reply'.text \in Nat /\ reply'.text >= reply.text
<1>1. reply \in [role : {0, 1}, text : Nat, finish : Reasons]
  BY DEF IInv, LoopTypeOK
<1>2. CASE UNCHANGED reply
  BY <1>1, <1>2
<1>3. CASE Opener
  BY <1>1, <1>3 DEF Opener, Read, WithRole
<1>4. CASE EndStream
  BY <1>1, <1>4 DEF EndStream, WithRole
<1>5. CASE Collect
  <2>1. reply' = reply \/ reply' = Stopped
    BY <1>5 DEF Collect
  <2>2. Stopped.text = reply.text
    BY <1>1 DEF Stopped
  <2> QED
    BY <1>1, <2>1, <2>2
<1>6. CASE \E r \in BOOLEAN : Text(r)
  BY <1>1, <1>6 DEF Text, Read, WithRole
<1>7. CASE \E f \in Closings \cup {"tool_calls"} : Finish(f)
  BY <1>1, <1>7 DEF Finish, Read
<1>8. CASE \/ Ask \/ ToolsThrow \/ ProviderThrows
           \/ \E s \in Slots, t \in Tools : Fragment(s, t)
           \/ \E id \in Calls : FetchAnswers(id) \/ SelectorAnswers(id)
  BY <1>2, <1>8 DEF Ask, ToolsThrow, ProviderThrows, Fragment, Read, FetchAnswers, SelectorAnswers
<1>9. CASE \E acc \in [Slots -> Tools \cup {NoTool}], f \in Closings \cup {"none"} : Completion(acc, f)
  BY <1>9 DEF Completion
<1> QED
  BY <1>3, <1>4, <1>5, <1>6, <1>7, <1>8, <1>9 DEF LoopNext

(* What is started belongs to the answer whose calls are handled.          *)
LEMMA DispatchSettles ==
  ASSUME Settled, pc \in {"ask", "stream"}, NEW acc, stream.acc \in [Slots -> Tools \cup {NoTool}],
         stream \in Streams, acc \in [Slots -> Tools \cup {NoTool}],
         Dispatch(acc), UNCHANGED <<style, iter>>
  PROVE  Settled'
<1> DEFINE runs == RunSlots(acc)
           Run(id) == CHOOSE s \in runs : CallId(s) = id
<1>1. pc' = "tools" /\ stream'.acc = acc
  BY DEF Dispatch, Streams
<1>2. \A id \in Calls : Running(id)' => \E s \in runs : CallId(s) = id
  <2> SUFFICES ASSUME NEW id \in Calls, ~\E s \in runs : CallId(s) = id
               PROVE  ~Running(id)'
    OBVIOUS
  <2>1. cache'[id] = cache[id]
    BY DEF Dispatch
  <2> QED
    BY <2>1 DEF Settled, Running
<1>3. runs \subseteq Called(acc)
  BY DEF RunSlots
<1>4. \A s : CallId(s)' = CallId(s)
  BY DEF CallId
<1>5. Called(stream.acc)' = Called(acc)
  BY <1>1 DEF Called
<1> QED
  BY <1>1, <1>2, <1>3, <1>4, <1>5 DEF Settled

LEMMA LoopSettles ==
  ASSUME IInv, Settled, LoopNext
  PROVE  Settled'
<1>1. stream.acc \in [Slots -> Tools \cup {NoTool}] /\ stream \in Streams
  BY DEF IInv, LoopTypeOK, Streams
<1>2. ASSUME cache' = cache, pc \notin {"tools", "failed"}
      PROVE  Settled'
  BY <1>2 DEF Settled, Running
<1>3. CASE Ask \/ Opener \/ (\E r \in BOOLEAN : Text(r)) \/ (\E s \in Slots, t \in Tools : Fragment(s, t))
           \/ \E f \in Closings \cup {"tool_calls"} : Finish(f)
  <2>1. CASE Ask
    BY <1>2, <2>1 DEF Ask
  <2>2. CASE Opener
    BY <1>2, <2>2 DEF Opener, Reading, Read
  <2>3. CASE \E r \in BOOLEAN : Text(r)
    BY <1>2, <2>3 DEF Text, Reading, Read
  <2>4. CASE \E s \in Slots, t \in Tools : Fragment(s, t)
    BY <1>2, <2>4 DEF Fragment, Reading, Read
  <2>5. CASE \E f \in Closings \cup {"tool_calls"} : Finish(f)
    BY <1>2, <2>5 DEF Finish, Reading, Read
  <2> QED
    BY <1>3, <2>1, <2>2, <2>3, <2>4, <2>5
<1>4. CASE EndStream
  <2>1. CASE Called(stream.acc) # {}
    BY <1>1, <1>4, <2>1, DispatchSettles DEF EndStream
  <2>2. CASE Called(stream.acc) = {}
    BY <1>2, <1>4, <2>2 DEF EndStream
  <2> QED
    BY <2>1, <2>2
<1>5. CASE \E acc \in [Slots -> Tools \cup {NoTool}], f \in Closings \cup {"none"} : Completion(acc, f)
  <2>1. PICK acc \in [Slots -> Tools \cup {NoTool}], f \in Closings \cup {"none"} : Completion(acc, f)
    BY <1>5
  <2>2. CASE Called(acc) # {}
    BY <1>1, <2>1, <2>2, DispatchSettles DEF Completion
  <2>3. CASE Called(acc) = {}
    BY <1>2, <2>1, <2>3 DEF Completion
  <2> QED
    BY <2>2, <2>3
<1>6. CASE Collect
  <2>1. \A id \in Calls : ~Running(id)
    BY <1>6 DEF Collect, Settled, Running
  <2> QED
    BY <1>6, <2>1 DEF Collect, Settled, Running
<1>7. CASE ToolsThrow
  BY <1>7 DEF ToolsThrow, Settled, Running
<1>8. CASE ProviderThrows
  BY <1>2, <1>8 DEF ProviderThrows
<1>9. CASE \E id \in Calls : FetchAnswers(id) \/ SelectorAnswers(id)
  <2>1. PICK id \in Calls : FetchAnswers(id) \/ SelectorAnswers(id)
    BY <1>9
  <2>2. PICK st \in {"done", "thrown"} : cache' = [cache EXCEPT ![id].state = st]
    BY <2>1 DEF FetchAnswers, SelectorAnswers
  <2>3. UNCHANGED <<pc, stream, style, iter>>
    BY <2>1 DEF FetchAnswers, SelectorAnswers
  <2>4. \A other \in Calls : cache'[other].state = (IF other = id THEN st ELSE cache[other].state)
    BY <2>2 DEF IInv, LoopTypeOK
  <2>5. \A other \in Calls : Running(other)' => Running(other)
    BY <2>4 DEF Running
  <2>6. Called(stream.acc)' = Called(stream.acc) /\ \A s : CallId(s)' = CallId(s)
    BY <2>3 DEF Called, CallId
  <2> QED
    BY <2>3, <2>5, <2>6 DEF Settled
<1> QED
  BY <1>3, <1>4, <1>5, <1>6, <1>7, <1>8, <1>9 DEF LoopNext

(* Without a persona, and once the reply is over, the loop does nothing,   *)
(* but for the tools a failed reply left running.                          *)
LEMMA Idles ==
  ASSUME Settled, LoopNext, pc \notin {"ask", "stream", "tools"}
  PROVE  /\ pc = "failed" /\ \E id \in Calls : Running(id)
         /\ UNCHANGED <<pc, reply, mode>>
<1>1. CASE \E id \in Calls : FetchAnswers(id) \/ SelectorAnswers(id)
  BY <1>1 DEF FetchAnswers, SelectorAnswers, Settled, Running
<1>2. CASE Ask \/ Opener \/ EndStream \/ Collect \/ ToolsThrow \/ ProviderThrows
  BY <1>2 DEF Ask, Opener, Reading, EndStream, Collect, ToolsThrow, ProviderThrows
<1>3. CASE \E acc \in [Slots -> Tools \cup {NoTool}], f \in Closings \cup {"none"} : Completion(acc, f)
  BY <1>3 DEF Completion
<1>4. CASE \/ \E r \in BOOLEAN : Text(r)
           \/ \E s \in Slots, t \in Tools : Fragment(s, t)
           \/ \E f \in Closings \cup {"tool_calls"} : Finish(f)
  BY <1>4 DEF Text, Fragment, Finish, Reading
<1> QED
  BY <1>1, <1>2, <1>3, <1>4 DEF LoopNext

LEMMA LoopStepKeeps == ASSUME TInv, LoopStep PROVE TInv'
<1>1. /\ phase \in {"replying", "over"} /\ LoopNext
      /\ queue' = IF mode = "plain" THEN queue
                  ELSE [text  |-> queue.text + (reply'.text - reply.text),
                        other |-> queue.other \/ reply' # reply \/ shared' # shared]
      /\ UNCHANGED <<phase, kind, input, prompt, shown, ending, judged, learned>>
  BY DEF LoopStep, Relay
<1>2. kind # "proxy" /\ IInv
  <2>1. kind # "proxy"
    BY <1>1, Idles DEF TInv, Looping, Passing, Running
  <2> QED
    BY <2>1 DEF TInv, Looping
<1>3. Looping'
  BY <1>1, <1>2, Keeps DEF Looping
<1>4. Settled'
  BY <1>1, <1>2, LoopSettles DEF TInv
<1>5. reply.text \in Nat /\ queue \in [text : Nat, other : BOOLEAN]
  BY <1>2 DEF IInv, LoopTypeOK, TInv, Accounted
<1>6. mode' = mode
  BY <1>1 DEF LoopNext, Ask, Opener, EndStream, Collect, ToolsThrow, ProviderThrows, Completion,
              Text, Fragment, Finish, Read, FetchAnswers, SelectorAnswers
<1>7. CASE pc \notin {"ask", "stream", "tools"}
  <2>1. pc = "failed" /\ UNCHANGED <<pc, reply, mode>>
    BY <1>1, <1>7, Idles DEF TInv
  <2>2. mode \in {"stream", "plain"}
    BY <2>1 DEF TInv, Phased
  <2>3. queue' \in [text : Nat, other : BOOLEAN] /\ (mode # "plain" => queue'.text = queue.text)
    BY <1>1, <1>5, <2>1
  <2>4. Phased' /\ Posted'
    BY <1>1, <2>1 DEF TInv, Phased, Posted
  <2>5. Accounted'
    BY <1>1, <2>1, <2>2, <2>3 DEF TInv, Accounted
  <2> QED
    BY <1>3, <1>4, <2>4, <2>5 DEF TInv
<1>8. CASE pc \in {"ask", "stream", "tools"}
  <2>1. phase = "replying" /\ ending = "none"
    BY <1>1, <1>8 DEF TInv, Phased
  <2>2. judged \notin {"asked", "granted"} /\ learned = Unlearned
    BY <2>1 DEF TInv, Posted
  <2>3. Phased' /\ Posted'
    BY <1>1, <1>6, <1>8, <2>1, <2>2 DEF Phased, Posted, TInv
  <2>4. Accounted'
    <3>1. CASE mode = "stream"
      <4>1. reply'.text \in Nat /\ reply'.text >= reply.text
        BY <1>1, <1>2, <3>1, Grows
      <4>2. /\ queue'.text = queue.text + (reply'.text - reply.text)
            /\ queue' \in [text : Nat, other : BOOLEAN]
        BY <1>1, <1>5, <3>1, <4>1
      <4> QED
        BY <1>1, <1>5, <1>6, <3>1, <4>1, <4>2 DEF TInv, Accounted
    <3>2. CASE mode = "plain"
      BY <1>1, <1>6, <3>2 DEF TInv, Accounted
    <3>3. mode \in {"stream", "plain"}
      BY <1>8 DEF TInv, Phased
    <3> QED
      BY <3>1, <3>2, <3>3
  <2> QED
    BY <1>3, <1>4, <2>3, <2>4 DEF TInv
<1> QED
  BY <1>7, <1>8

-----------------------------------------------------------------------------
(* The steps of the request.                                               *)

LEMMA StartReplyKeeps == ASSUME TInv, StartReply PROVE TInv'
<1>1. /\ phase = "ready" /\ phase' = "replying" /\ kind \in {"proxy", "persona"}
      /\ Begin(IF kind = "persona" THEN "ask" ELSE "proxy")
      /\ UNCHANGED <<kind, queue, shown, ending, judged, learned>>
      /\ pc = "idle" /\ mode = "none" /\ reply.text = 0
  BY DEF StartReply, TInv, Phased
<1>2. /\ mode' \in {"stream", "plain"} /\ pc' = (IF kind = "persona" THEN "ask" ELSE "proxy")
      /\ UNCHANGED <<iter, stream, reply, lapsed, cache, answers, attempted, asked, shared, aborted>>
  BY <1>1 DEF Begin
<1>3. Looping'
  <2>1. CASE kind = "persona"
    BY <1>1, <2>1, Keeps DEF TInv, Looping
  <2>2. CASE kind = "proxy"
    BY <1>1, <1>2, <2>2 DEF TInv, Looping, Passing
  <2> QED
    BY <1>1, <2>1, <2>2
<1>4. Settled'
  BY <1>1, <1>2 DEF TInv, Settled, Running
<1>5. Phased' /\ Posted'
  BY <1>1, <1>2 DEF TInv, Phased, Posted
<1>6. Accounted'
  BY <1>1, <1>2 DEF TInv, Accounted, Empty
<1> QED
  BY <1>3, <1>4, <1>5, <1>6 DEF TInv

LEMMA ProxyTextKeeps == ASSUME TInv, ProxyText PROVE TInv'
<1>1. kind = "proxy" /\ Passing
  BY DEF ProxyText, TInv, Looping, IInv, LoopTypeOK
<1>2. /\ phase = "replying" /\ pc = "proxy"
      /\ reply' = [reply EXCEPT !.text = @ + 1]
      /\ queue' = IF mode = "plain" THEN queue ELSE [queue EXCEPT !.text = @ + 1]
      /\ UNCHANGED <<mode, style, pc, iter, stream, cache, phase, kind, shown, ending, judged, learned>>
  BY DEF ProxyText
<1>3. /\ reply' \in [role : {0, 1}, text : Nat, finish : Reasons] /\ reply'.text = reply.text + 1
      /\ reply.text \in Nat
  BY <1>1, <1>2 DEF Passing
<1>4. Looping'
  BY <1>1, <1>2, <1>3 DEF Looping, Passing
<1>5. Settled'
  BY <1>1, <1>2 DEF Passing, Settled, Running
<1>6. Phased' /\ Posted'
  BY <1>2 DEF TInv, Phased, Posted
<1>7. Accounted'
  BY <1>2, <1>3 DEF TInv, Accounted, Phased
<1> QED
  BY <1>4, <1>5, <1>6, <1>7 DEF TInv

LEMMA ProxyEndsKeeps == ASSUME TInv, ProxyEnds PROVE TInv'
<1>1. kind = "proxy" /\ Passing
  BY DEF ProxyEnds, TInv, Looping, IInv, LoopTypeOK
<1>2. /\ phase = "replying" /\ pc = "proxy" /\ pc' \in {"done", "failed"}
      /\ UNCHANGED <<mode, style, iter, stream, reply, cache>> /\ UNCHANGED httpVars
  BY DEF ProxyEnds
<1>3. Looping' /\ Settled'
  BY <1>1, <1>2 DEF Looping, Passing, Settled, Running, httpVars
<1>4. Phased' /\ Posted' /\ Accounted'
  BY <1>2 DEF TInv, Phased, Posted, Accounted, httpVars
<1> QED
  BY <1>3, <1>4 DEF TInv

LEMMA DeliverKeeps == ASSUME TInv, Deliver PROVE TInv'
<1>1. UNCHANGED <<loopVars, phase, kind, ending, judged, learned>>
  BY DEF Deliver
<1>2. Looping' /\ Settled'
  BY <1>1, Apart
<1>3. queue \in [text : Nat, other : BOOLEAN] /\ shown \in Nat /\ queue # Empty
  BY DEF TInv, Accounted, Deliver, Empty
<1>4. \/ /\ queue.text > 0 /\ shown' = shown + 1
         /\ queue' = [queue EXCEPT !.text = @ - 1]
      \/ queue' = [queue EXCEPT !.other = FALSE] /\ shown' = shown
  BY DEF Deliver
<1>5. /\ queue' \in [text : Nat, other : BOOLEAN] /\ shown' \in Nat
      /\ shown' + queue'.text = shown + queue.text
      /\ queue.text = 0 => queue'.text = 0
  <2>1. CASE queue.text > 0 /\ shown' = shown + 1 /\ queue' = [queue EXCEPT !.text = @ - 1]
    <3>1. queue.text - 1 \in Nat /\ shown + 1 \in Nat
      BY <1>3, <2>1
    <3>2. queue' = [text |-> queue.text - 1, other |-> queue.other]
      BY <1>3, <2>1
    <3> QED
      BY <1>3, <2>1, <3>1, <3>2
  <2>2. CASE queue' = [queue EXCEPT !.other = FALSE] /\ shown' = shown
    <3>1. queue' = [text |-> queue.text, other |-> FALSE]
      BY <1>3, <2>2
    <3> QED
      BY <1>3, <2>2, <3>1
  <2> QED
    BY <1>4, <2>1, <2>2
<1>6. mode = "stream"
  <2>1. mode # "stream" => queue = Empty
    BY DEF TInv, Accounted
  <2> QED
    BY <1>3, <2>1
<1>7. UNCHANGED <<pc, mode, reply, phase, kind, ending, judged, learned>>
  BY <1>1 DEF loopVars
<1>8. Phased'
  BY <1>7 DEF TInv, Phased
<1>9. Accounted'
  BY <1>5, <1>6, <1>7 DEF TInv, Accounted
<1>10. Posted'
  BY <1>3, <1>5, <1>7 DEF TInv, Posted
<1> QED
  BY <1>2, <1>8, <1>9, <1>10 DEF TInv

LEMMA LoseKeeps == ASSUME TInv, Lose PROVE TInv'
<1>1. ending = "error" /\ queue' = Empty /\ UNCHANGED <<loopVars, phase, kind, shown, ending, judged, learned>>
  BY DEF Lose
<1>2. Looping' /\ Settled'
  BY <1>1, Apart
<1>3. UNCHANGED <<pc, mode, reply>>
  BY <1>1 DEF loopVars
<1>4. Empty \in [text : Nat, other : BOOLEAN] /\ Empty.text = 0
  BY DEF Empty
<1>5. Phased' /\ Accounted' /\ Posted'
  BY <1>1, <1>3, <1>4 DEF TInv, Phased, Accounted, Posted
<1> QED
  BY <1>2, <1>5 DEF TInv

(* Before a reply: the answer is a status, or there is a prompt.           *)
LEMMA RequestKeeps ==
  ASSUME TInv, phase = "request", UNCHANGED <<loopVars, queue, shown, judged, learned>>,
         \/ phase' = "over" /\ ending' \in {"refused", "error"} /\ kind' \in {"none", "persona"}
         \/ phase' = "ready" /\ ending' = ending /\ kind' \in {"proxy", "persona"}
  PROVE  TInv'
<1>1. UNCHANGED <<pc, mode, reply, cache, stream, style, iter>>
  BY DEF loopVars
<1>2. kind = "none" /\ pc = "idle" /\ mode = "none" /\ reply.text = 0 /\ IInv /\ IInv'
  BY Keeps DEF TInv, Phased, Looping
<1>3. Looping'
  BY <1>1, <1>2 DEF Looping, Passing, IInv, LoopTypeOK, Untouched
<1>4. Settled'
  BY <1>1, <1>2 DEF Settled, Running, IInv, Untouched
<1>5. Phased' /\ Accounted'
  BY <1>1, <1>2 DEF TInv, Phased, Accounted
<1>6. Posted'
  BY <1>1 DEF TInv, Posted
<1> QED
  BY <1>3, <1>4, <1>5, <1>6 DEF TInv

(* After a reply.                                                          *)
LEMMA PostKeeps == ASSUME TInv, StartPost \/ JudgeAnswers \/ Complete \/ ReplyFails PROVE TInv'
<1>1. UNCHANGED <<loopVars, kind, shown>>
  BY DEF StartPost, JudgeAnswers, Complete, ReplyFails
<1>2. Looping' /\ Settled'
  BY <1>1, Apart
<1>3. UNCHANGED <<pc, mode, reply>>
  BY <1>1 DEF loopVars
<1>4. queue \in [text : Nat, other : BOOLEAN] /\ Empty.text = 0
  BY DEF TInv, Accounted, Empty
<1>5. CASE StartPost
  <2>1. /\ phase = "replying" /\ pc = "done" /\ queue = Empty /\ phase' = "posting" /\ ending = "none"
        /\ UNCHANGED <<queue, ending>>
        /\ kind # "persona" => judged' = "skipped" /\ learned' = Unlearned
        /\ learned' \in {Unlearned, reply.text}
    BY <1>5 DEF StartPost, Flushed, TInv, Phased
  <2>2. Phased' /\ Accounted'
    BY <1>1, <1>3, <2>1 DEF TInv, Phased, Accounted
  <2>3. Posted'
    BY <1>1, <1>3, <1>4, <2>1 DEF Posted
  <2> QED
    BY <1>2, <2>2, <2>3 DEF TInv
<1>6. CASE JudgeAnswers
  <2>1. /\ phase = "posting" /\ judged = "asked" /\ UNCHANGED <<phase, ending, learned>>
        /\ judged' \in {"granted", "skipped"}
        /\ queue' = queue \/ (mode = "stream" /\ queue' = [queue EXCEPT !.other = TRUE])
    BY <1>6 DEF JudgeAnswers
  <2>2. queue' \in [text : Nat, other : BOOLEAN] /\ queue'.text = queue.text
    BY <1>4, <2>1
  <2>3. Phased' /\ Accounted'
    BY <1>1, <1>3, <2>1, <2>2 DEF TInv, Phased, Accounted
  <2>4. Posted'
    BY <1>1, <1>3, <2>1, <2>2 DEF TInv, Posted, Phased
  <2> QED
    BY <1>2, <2>3, <2>4 DEF TInv
<1>7. CASE Complete
  <2>1. /\ phase = "posting" /\ judged # "asked" /\ queue = Empty /\ phase' = "over" /\ ending' = "done"
        /\ UNCHANGED <<queue, judged, learned>> /\ pc = "done"
    BY <1>7 DEF Complete, Answer, Flushed, TInv, Phased
  <2>2. Phased' /\ Accounted' /\ Posted'
    BY <1>1, <1>3, <2>1 DEF TInv, Phased, Accounted, Posted
  <2> QED
    BY <1>2, <2>2 DEF TInv
<1>8. CASE ReplyFails
  <2>1. /\ phase = "replying" /\ pc = "failed" /\ phase' = "over" /\ ending' = "error"
        /\ UNCHANGED <<queue, judged, learned>>
    BY <1>8 DEF ReplyFails, Answer
  <2>2. Phased' /\ Accounted' /\ Posted'
    BY <1>1, <1>3, <2>1 DEF TInv, Phased, Accounted, Posted
  <2> QED
    BY <1>2, <2>2 DEF TInv
<1> QED
  BY <1>5, <1>6, <1>7, <1>8

LEMMA InterruptKeeps == ASSUME TInv, Interrupt PROVE TInv'
<1>1. Abort /\ UNCHANGED httpVars
  BY DEF Interrupt
<1>2. /\ UNCHANGED <<pc, mode, reply, cache, stream, style, iter>>
      /\ UNCHANGED <<phase, kind, queue, shown, ending, judged, learned>>
      /\ IInv => IInv'
  BY <1>1, Keeps DEF Abort, httpVars
<1>3. Looping'
  BY <1>2 DEF TInv, Looping, Passing
<1>4. Settled'
  BY <1>2 DEF TInv, Settled, Running, Called, CallId
<1>5. Phased' /\ Accounted' /\ Posted'
  BY <1>2 DEF TInv, Phased, Accounted, Posted
<1> QED
  BY <1>3, <1>4, <1>5 DEF TInv

LEMMA TurnKeeps == TInv /\ [TurnNext]_turnVars => TInv'
<1> SUFFICES ASSUME TInv, [TurnNext]_turnVars PROVE TInv'
  OBVIOUS
<1>1. CASE Refuse \/ PrepareFails
  BY <1>1, RequestKeeps DEF Refuse, PrepareFails, Answer, TInv, Phased
<1>2. CASE PrepareProxy
  BY <1>2, RequestKeeps DEF PrepareProxy
<1>3. CASE phase = "request" /\ \E in \in Readings :
             \E failed \in {f \in SUBSET Reads : Cardinality(f) <= MaxFailures} : Prepare(in, failed)
  BY <1>3, RequestKeeps DEF Prepare, Answer
<1>4. CASE StartReply
  BY <1>4, StartReplyKeeps
<1>5. CASE LoopStep
  BY <1>5, LoopStepKeeps
<1>6. CASE ProxyText \/ ProxyEnds
  BY <1>6, ProxyTextKeeps, ProxyEndsKeeps
<1>7. CASE Deliver \/ Lose
  BY <1>7, DeliverKeeps, LoseKeeps
<1>8. CASE StartPost \/ JudgeAnswers \/ Complete \/ ReplyFails
  BY <1>8, PostKeeps
<1>9. CASE Interrupt
  BY <1>9, InterruptKeeps
<1>10. CASE Finished \/ UNCHANGED turnVars
  <2>1. UNCHANGED loopVars /\ UNCHANGED httpVars
    BY <1>10 DEF Finished, turnVars
  <2>2. UNCHANGED <<pc, mode, reply, phase, kind, queue, shown, ending, judged, learned>>
    BY <2>1 DEF loopVars, httpVars
  <2>3. Looping' /\ Settled'
    BY <2>1, <2>2, Apart
  <2> QED
    BY <2>2, <2>3 DEF TInv, Phased, Accounted, Posted
<1> QED
  BY <1>1, <1>2, <1>3, <1>4, <1>5, <1>6, <1>7, <1>8, <1>9, <1>10 DEF TurnNext

-----------------------------------------------------------------------------
(* Whatever the provider, the tools and the client do, only an ended reply *)
(* is judged or learned from, with exactly the text that was delivered,    *)
(* and [DONE] is the last frame (postTurn, `await chain`).                 *)
THEOREM OnlyTheDeliveredIsLearned == TurnSpec => []LearnsWhatWasDelivered
<1> QED
  BY TurnInitially, TurnKeeps, DeliveredWhatIsLearned, PTL DEF TurnSpec

-----------------------------------------------------------------------------
(* The prompt: numbers and places.                                         *)

(* A set of naturals has a least element.                                  *)
LEMMA LeastNatural ==
  ASSUME NEW T, T \subseteq Nat, T # {}
  PROVE  \E x \in T : \A y \in T : x <= y
<1> DEFINE less == {ss \in Nat \X Nat : ss[1] < ss[2]}
<1>1. OpToRel(<, Nat) = less
  BY DEF OpToRel
<1>2. IsWellFoundedOn(less, Nat)
  BY <1>1, NatLessThanWellFounded
<1>3. PICK x \in T : \A y \in T : ~(<<y, x>> \in less)
  <2> HIDE DEF less
  <2> QED
    BY <1>2, WFMin
<1>4. ASSUME NEW y \in T
      PROVE  x <= y
  <2>1. x \in Nat /\ y \in Nat /\ <<y, x>>[1] = y /\ <<y, x>>[2] = x
    OBVIOUS
  <2>2. ~(y < x)
    BY <1>3, <2>1
  <2> QED
    BY <2>1, <2>2
<1> QED
  BY <1>4

(* Some of the numbers from 1 to n are finitely many.                      *)
LEMMA SomePlaces ==
  ASSUME NEW n \in Nat, NEW I, I \subseteq 1 .. n
  PROVE  /\ IsFiniteSet(I)
         /\ Cardinality(I) \in Nat
         /\ \A J : J \subseteq I => IsFiniteSet(J) /\ Cardinality(J) \in Nat /\ Cardinality(J) <= Cardinality(I)
<1>1. IsFiniteSet(1 .. n)
  <2>1. \A a, b \in Int : IsFiniteSet(a .. b)
    BY FS_Interval
  <2>2. 1 \in Int /\ n \in Int
    OBVIOUS
  <2> QED
    BY <2>1, <2>2, Zenon
<1>2. IsFiniteSet(I)
  BY <1>1, FS_Subset
<1>3. ASSUME NEW J, J \subseteq I
      PROVE  IsFiniteSet(J) /\ Cardinality(J) <= Cardinality(I)
  BY <1>2, <1>3, FS_Subset
<1> QED
  BY <1>2, <1>3, FS_CardinalityType

(* Numbers below the size of a finite set that tell its members apart.     *)
Numbers(r, S) ==
  /\ IsFiniteSet(S) /\ r \in [S -> Nat]
  /\ \A x \in S : r[x] < Cardinality(S)
  /\ \A x, y \in S : r[x] = r[y] => x = y

Fill(r, S) == \A k \in Nat : k < Cardinality(S) => \E x \in S : r[x] = k

(* They are all the numbers below that size.                               *)
LEMMA RanksFill ==
  ASSUME NEW S, NEW r, Numbers(r, S)
  PROVE  Fill(r, S)
<1> SUFFICES ASSUME NEW k \in Nat, k < Cardinality(S)
             PROVE  \E x \in S : r[x] = k
  BY DEF Fill
<1> DEFINE n == Cardinality(S)
           T == 0 .. n - 1
<1>1. n \in Nat
  BY FS_CardinalityType DEF Numbers
<1>2. IsFiniteSet(T) /\ Cardinality(T) = n
  <2>1. \A a, b \in Int : IsFiniteSet(a .. b) /\ Cardinality(a .. b) = IF a > b THEN 0 ELSE b - a + 1
    BY FS_Interval
  <2>2. 0 \in Int /\ n - 1 \in Int
    BY <1>1
  <2>3. IsFiniteSet(0 .. n - 1) /\ Cardinality(0 .. n - 1) = IF 0 > n - 1 THEN 0 ELSE n - 1 - 0 + 1
    BY <2>1, <2>2, Zenon
  <2> HIDE DEF n
  <2> QED
    BY <1>1, <2>3
<1> HIDE DEF n
<1>3. r \in [S -> T]
  BY <1>1 DEF n, Numbers
<1> HIDE DEF T
<1>4. r \in Injection(S, T)
  BY <1>3 DEF Injection, IsInjective, Numbers
<1>5. r \in Surjection(S, T)
  BY <1>2, <1>4, FS_Injection DEF n, Numbers
<1>6. k \in T
  BY <1>1 DEF T, n
<1> QED
  BY <1>5, <1>6 DEF Surjection

(* The first n of a set of places come before the others, and there are n  *)
(* of them or all.                                                         *)
LEMMA FirstAreFirst ==
  ASSUME NEW m \in Nat, NEW places, places \subseteq 1 .. m, NEW n \in Nat
  PROVE  LET first == FirstOf(places, n) IN
         /\ first \subseteq places
         /\ Cardinality(first) <= n
         /\ \A p \in first, q \in places \ first : p < q
         /\ first # places => Cardinality(first) = n
<1> DEFINE Before(p) == {q \in places : q < p}
           F == FirstOf(places, n)
           f == [p \in F |-> Cardinality(Before(p)) + 1]
<1>1. \A p : IsFiniteSet(Before(p)) /\ Cardinality(Before(p)) \in Nat
  <2> TAKE p
  <2>1. Before(p) \subseteq places
    OBVIOUS
  <2> HIDE DEF Before
  <2> QED
    BY <2>1, SomePlaces
<1>2. F = {p \in places : Cardinality(Before(p)) < n}
  BY DEF FirstOf
<1>3. ASSUME NEW p \in places, NEW q \in places, p < q
      PROVE  Cardinality(Before(p)) < Cardinality(Before(q))
  <2>1. p \in Before(q) /\ Before(p) \subseteq Before(q) \ {p}
    <3>1. ASSUME NEW j \in places, j < p
          PROVE  j < q /\ j # p
      BY <1>3, <3>1
    <3> QED
      BY <1>3, <3>1
  <2> HIDE DEF Before
  <2>2. /\ IsFiniteSet(Before(q) \ {p})
        /\ Cardinality(Before(q) \ {p}) = Cardinality(Before(q)) - 1
    BY <1>1, <2>1, FS_RemoveElement
  <2>3. Cardinality(Before(p)) <= Cardinality(Before(q)) - 1
    BY <2>1, <2>2, FS_Subset
  <2> QED
    BY <1>1, <2>3
<1>4. IsFiniteSet(places) /\ Cardinality(places) \in Nat
  BY SomePlaces
<1>5. ASSUME NEW p \in places
      PROVE  Cardinality(Before(p)) < Cardinality(places)
  <2>1. Before(p) \in SUBSET (places \ {p})
    OBVIOUS
  <2> HIDE DEF Before
  <2>2. IsFiniteSet(places \ {p}) /\ Cardinality(places \ {p}) = Cardinality(places) - 1
    BY <1>4, FS_RemoveElement
  <2>3. Cardinality(Before(p)) <= Cardinality(places) - 1
    BY <2>1, <2>2, FS_Subset
  <2> QED
    BY <1>1, <1>4, <2>3
<1> HIDE DEF Before, F
<1>6. ASSUME NEW p \in places, NEW q \in places, Cardinality(Before(p)) = Cardinality(Before(q))
      PROVE  p = q
  <2>1. ~(p < q) /\ ~(q < p)
    BY <1>1, <1>3, <1>6
  <2> QED
    BY <2>1
<1>7. IsFiniteSet(1 .. n) /\ Cardinality(1 .. n) = n
  <2>1. \A a, b \in Int : IsFiniteSet(a .. b) /\ Cardinality(a .. b) = IF a > b THEN 0 ELSE b - a + 1
    BY FS_Interval
  <2>2. 1 \in Int /\ n \in Int
    OBVIOUS
  <2>3. IsFiniteSet(1 .. n) /\ Cardinality(1 .. n) = IF 1 > n THEN 0 ELSE n - 1 + 1
    BY <2>1, <2>2, Zenon
  <2> QED
    BY <2>3
<1>8. f \in Injection(F, 1 .. n)
  <2>1. f \in [F -> 1 .. n]
    BY <1>1, <1>2
  <2>2. \A p, q \in F : f[p] = f[q] => p = q
    <3> SUFFICES ASSUME NEW p \in F, NEW q \in F, f[p] = f[q] PROVE p = q
      OBVIOUS
    <3>1. Cardinality(Before(p)) = Cardinality(Before(q)) /\ p \in places /\ q \in places
      BY <1>1, <1>2
    <3> QED
      BY <1>6, <3>1
  <2> QED
    BY <2>1, <2>2 DEF Injection, IsInjective
<1>9. /\ Cardinality(F) <= n
      /\ Cardinality(F) = Cardinality(1 .. n) <=> f \in Surjection(F, 1 .. n)
  BY <1>7, <1>8, FS_Injection
<1>10. ASSUME NEW p \in F, NEW q \in places \ F
       PROVE  p < q
  <2>1. p \in places /\ Cardinality(Before(p)) < n /\ ~(Cardinality(Before(q)) < n)
    BY <1>2
  <2>2. p # q /\ ~(q < p)
    BY <1>1, <1>3, <2>1
  <2> QED
    BY <2>1, <2>2
<1>11. ASSUME F # places
       PROVE  Cardinality(F) = n
  <2>1. PICK q \in places : ~(Cardinality(Before(q)) < n)
    BY <1>2, <1>11
  <2>2. n < Cardinality(places)
    BY <1>1, <1>4, <1>5, <2>1
  <2>3. ASSUME NEW k \in 1 .. n
        PROVE  \E p \in F : f[p] = k
    <3>1. PICK rank \in [places -> Nat] : \A p \in places : rank[p] = Cardinality(Before(p))
      <4> DEFINE r == [p \in places |-> Cardinality(Before(p))]
      <4>1. r \in [places -> Nat] /\ \A p \in places : r[p] = Cardinality(Before(p))
        BY <1>1
      <4> QED
        BY <4>1
    <3>2. Numbers(rank, places)
      BY <1>4, <1>5, <1>6, <3>1 DEF Numbers
    <3>3. PICK j \in Nat : j = k - 1 /\ j < Cardinality(places)
      BY <1>4, <2>2
    <3>4. Fill(rank, places)
      BY <3>2, RanksFill
    <3>5. PICK p \in places : rank[p] = j
      BY <3>3, <3>4 DEF Fill
    <3>6. p \in F /\ Cardinality(Before(p)) = k - 1
      BY <1>2, <3>1, <3>3, <3>5
    <3> QED
      BY <3>6
  <2>4. f \in Surjection(F, 1 .. n)
    BY <1>8, <2>3 DEF Surjection, Injection
  <2> QED
    BY <1>7, <1>9, <2>4
<1>12. F \subseteq places
  BY <1>2
<1> QED
  BY <1>9, <1>10, <1>11, <1>12 DEF F

-----------------------------------------------------------------------------
(* Ranking.                                                                *)

Ahead(keys, i, j) == keys[i] > keys[j] \/ (keys[i] = keys[j] /\ i < j)

Sorts(at, keys, n) ==
  /\ at \in [1 .. n -> 1 .. n]
  /\ \A p, q \in 1 .. n : at[p] = at[q] => p = q
  /\ \A i \in 1 .. n : \E p \in 1 .. n : at[p] = i
  /\ \A p, q \in 1 .. n : p < q => Ahead(keys, at[p], at[q])

(* Sorting by keys only rearranges, largest key first and ties in order.   *)
LEMMA DescendingSorts ==
  ASSUME NEW n \in Nat, NEW keys \in [1 .. n -> Int], Len(keys) = n
  PROVE  Sorts(Descending(keys), keys, n)
<1> DEFINE S == 1 .. n
           Before(i) == {j \in S : Ahead(keys, j, i)}
           r == [i \in S |-> Cardinality(Before(i))]
           at == [p \in S |-> CHOOSE i \in S : Cardinality(Before(i)) = p - 1]
<1>1. Descending(keys) = at
  BY DEF Descending, Ordered, Ahead
<1>2. IsFiniteSet(S) /\ Cardinality(S) = n
  <2>1. \A a, b \in Int : IsFiniteSet(a .. b) /\ Cardinality(a .. b) = IF a > b THEN 0 ELSE b - a + 1
    BY FS_Interval
  <2>2. 1 \in Int /\ n \in Int
    OBVIOUS
  <2>3. IsFiniteSet(1 .. n) /\ Cardinality(1 .. n) = IF 1 > n THEN 0 ELSE n - 1 + 1
    BY <2>1, <2>2, Zenon
  <2> QED
    BY <2>3
<1>3. ASSUME NEW i
      PROVE  IsFiniteSet(Before(i)) /\ Cardinality(Before(i)) \in Nat /\ Cardinality(Before(i)) <= n
  <2>1. Before(i) \subseteq 1 .. n
    OBVIOUS
  <2> HIDE DEF Before
  <2> QED
    BY <1>2, <2>1, SomePlaces, FS_Subset
<1>4. ASSUME NEW i \in S, NEW j \in S, Ahead(keys, i, j)
      PROVE  Cardinality(Before(i)) < Cardinality(Before(j))
  <2>1. i \in Before(j)
    BY <1>4
  <2>2. ASSUME NEW x \in Before(i)
        PROVE  x \in Before(j) /\ x # i
    BY <1>4, <2>2 DEF Ahead
  <2>3. Before(i) \in SUBSET (Before(j) \ {i})
    BY <2>2
  <2> HIDE DEF Before
  <2>4. IsFiniteSet(Before(j) \ {i}) /\ Cardinality(Before(j) \ {i}) = Cardinality(Before(j)) - 1
    BY <1>3, <2>1, FS_RemoveElement
  <2>5. Cardinality(Before(i)) <= Cardinality(Before(j) \ {i})
    BY <2>3, <2>4, FS_Subset
  <2> QED
    BY <1>3, <2>4, <2>5
<1>5. \A i, j \in S : i = j \/ Ahead(keys, i, j) \/ Ahead(keys, j, i)
  BY DEF Ahead
<1>6. ASSUME NEW i \in S
      PROVE  Cardinality(Before(i)) < n
  <2>1. Before(i) \in SUBSET (S \ {i})
    BY DEF Ahead
  <2> HIDE DEF Before, S
  <2>2. IsFiniteSet(S \ {i}) /\ Cardinality(S \ {i}) = n - 1
    BY <1>2, FS_RemoveElement
  <2>3. Cardinality(Before(i)) <= n - 1
    BY <2>1, <2>2, FS_Subset
  <2> QED
    BY <1>3, <2>3
<1> HIDE DEF Before
<1>7. ASSUME NEW p \in S
      PROVE  \E i \in S : Cardinality(Before(i)) = p - 1
  <2>1. r \in [S -> Nat] /\ \A i \in S : r[i] = Cardinality(Before(i))
    BY <1>3
  <2>2. \A i \in S : r[i] < Cardinality(S)
    BY <1>2, <1>6, <2>1
  <2>3. \A i, j \in S : r[i] = r[j] => i = j
    BY <1>3, <1>4, <1>5, <2>1
  <2>4. p - 1 \in Nat /\ p - 1 < Cardinality(S)
    BY <1>2
  <2> HIDE DEF r, S
  <2>5. Numbers(r, S)
    BY <1>2, <2>1, <2>2, <2>3 DEF Numbers
  <2>6. Fill(r, S)
    BY <2>5, RanksFill
  <2>7. \E i \in S : r[i] = p - 1
    BY <2>4, <2>6 DEF Fill
  <2> QED
    BY <2>1, <2>7
<1>8. \A p \in S : at[p] \in S /\ Cardinality(Before(at[p])) = p - 1
  <2> TAKE p \in S
  <2>1. at[p] = CHOOSE i \in S : Cardinality(Before(i)) = p - 1
    OBVIOUS
  <2>2. \E i \in S : Cardinality(Before(i)) = p - 1
    BY <1>7
  <2> HIDE DEF at, S
  <2> QED
    BY <2>1, <2>2
<1>9. at \in [S -> S]
  <2>1. at = [p \in S |-> at[p]]
    OBVIOUS
  <2> HIDE DEF at
  <2> QED
    BY <1>8, <2>1
<1> HIDE DEF at
<1>10. \A p, q \in S : at[p] = at[q] => p = q
  BY <1>8
<1>11. ASSUME NEW i \in S
       PROVE  \E p \in S : at[p] = i
  <2> DEFINE p == Cardinality(Before(i)) + 1
  <2>1. p \in S /\ p - 1 = Cardinality(Before(i))
    BY <1>3, <1>6
  <2>2. at[p] \in S /\ Cardinality(Before(at[p])) = Cardinality(Before(i))
    BY <1>8, <2>1
  <2>3. ~Ahead(keys, at[p], i) /\ ~Ahead(keys, i, at[p])
    BY <1>3, <1>4, <2>2
  <2> QED
    BY <1>5, <2>1, <2>2, <2>3
<1>12. ASSUME NEW p \in S, NEW q \in S, p < q
       PROVE  Ahead(keys, at[p], at[q])
  <2>1. ~Ahead(keys, at[q], at[p])
    <3>1. at[p] \in S /\ at[q] \in S /\ Cardinality(Before(at[p])) = p - 1 /\ Cardinality(Before(at[q])) = q - 1
      BY <1>8
    <3>2. Ahead(keys, at[q], at[p]) => q - 1 < p - 1
      BY <1>4, <3>1
    <3> QED
      BY <1>12, <3>2
  <2>2. at[p] # at[q]
    BY <1>10, <1>12
  <2> QED
    BY <1>5, <1>8, <2>1, <2>2
<1> QED
  BY <1>1, <1>9, <1>10, <1>11, <1>12 DEF Sorts

(* What ReadingsAssumption says of the candidates.                         *)
Candidates(found) ==
  /\ Len(found) \in Nat /\ DOMAIN found = 1 .. Len(found)
  /\ \A i \in DOMAIN found : {found[i].near, found[i].words, found[i].weight} \subseteq Int

LEMMA ScoresAreIntegers ==
  ASSUME NEW found, Candidates(found), NEW hybrid \in BOOLEAN, NEW i \in DOMAIN found
  PROVE  Score(found, i, hybrid) \in Int
<1>1. ASSUME NEW keys, DOMAIN keys = DOMAIN found
      PROVE  StreamShare(keys, i) \in Int
  <2> DEFINE ahead == {j \in DOMAIN keys : keys[j] > keys[i] \/ (keys[j] = keys[i] /\ j < i)}
  <2>1. ahead \subseteq 1 .. Len(found) /\ Len(found) \in Nat
    BY <1>1 DEF Candidates
  <2>2. StreamShare(keys, i) = IF keys[i] = 0 THEN 0 ELSE Share(1 + Cardinality(ahead))
    BY DEF StreamShare
  <2> HIDE DEF ahead
  <2>3. Cardinality(ahead) \in Nat
    BY <2>1, SomePlaces
  <2> QED
    BY <2>2, <2>3 DEF Share
<1>2. ASSUME NEW field
      PROVE  DOMAIN Key(found, field) = DOMAIN found
  BY DEF Key
<1>3. StreamShare(Key(found, "near"), i) \in Int /\ StreamShare(Key(found, "words"), i) \in Int
  BY <1>1, <1>2
<1>4. found[i].weight \in Int
  BY DEF Candidates
<1> QED
  BY <1>3, <1>4 DEF Score

(* The order in which candidates are considered is theirs by score.        *)
LEMMA RanksByScore ==
  ASSUME NEW found, Candidates(found), NEW hybrid \in BOOLEAN
  PROVE  LET at == Descending([i \in DOMAIN found |-> Score(found, i, hybrid)]) IN
         /\ at \in [DOMAIN found -> DOMAIN found]
         /\ \A p, q \in DOMAIN found : at[p] = at[q] => p = q
         /\ \A i \in DOMAIN found : \E p \in DOMAIN found : at[p] = i
         /\ \A p, q \in DOMAIN found : p < q => Score(found, at[p], hybrid) >= Score(found, at[q], hybrid)
<1> DEFINE n == Len(found)
           keys == [i \in DOMAIN found |-> Score(found, i, hybrid)]
           at == Descending(keys)
<1>1. n \in Nat /\ DOMAIN found = 1 .. n
  BY DEF Candidates
<1>2. \A i \in DOMAIN found : keys[i] = Score(found, i, hybrid) /\ Score(found, i, hybrid) \in Int
  BY ScoresAreIntegers
<1>3. keys \in [1 .. n -> Int]
  <2>1. keys = [i \in 1 .. n |-> keys[i]]
    BY <1>1
  <2> HIDE DEF keys
  <2> QED
    BY <1>1, <1>2, <2>1
<1> HIDE DEF keys, n
<1>4. Len(keys) = n
  BY <1>1, <1>3
<1>5. /\ at \in [1 .. n -> 1 .. n]
      /\ \A p, q \in 1 .. n : at[p] = at[q] => p = q
      /\ \A i \in 1 .. n : \E p \in 1 .. n : at[p] = i
      /\ \A p, q \in 1 .. n : p < q => Ahead(keys, at[p], at[q])
  <2>1. Sorts(Descending(keys), keys, n)
    BY <1>1, <1>3, <1>4, DescendingSorts
  <2> QED
    BY <2>1 DEF Sorts
<1> HIDE DEF at
<1>6. \A p, q \in 1 .. n : p < q => keys[at[p]] >= keys[at[q]]
  <2> SUFFICES ASSUME NEW p \in 1 .. n, NEW q \in 1 .. n, p < q
               PROVE  keys[at[p]] >= keys[at[q]]
    OBVIOUS
  <2>1. Ahead(keys, at[p], at[q])
    BY <1>5
  <2>2. keys[at[p]] \in Int /\ keys[at[q]] \in Int
    BY <1>3, <1>5
  <2> QED
    BY <2>1, <2>2 DEF Ahead
<1>7. \A p \in 1 .. n : keys[at[p]] = Score(found, at[p], hybrid)
  BY <1>1, <1>2, <1>5
<1>8. \A p, q \in 1 .. n : p < q => Score(found, at[p], hybrid) >= Score(found, at[q], hybrid)
  BY <1>6, <1>7
<1> QED
  BY <1>1, <1>5, <1>8 DEF at, keys

(* The ranking (scoreHybridRetrievalCandidates, scoreRetrievalCandidates): *)
(* every candidate is reported once, best score first; what is taken is    *)
(* relevant, at most TopK, and better than what is left out for lack of    *)
(* room, which only happens when TopK are taken; the hybrid ranking never  *)
(* takes one text twice, and leaves one out as a duplicate only of a       *)
(* better one that it took.                                                *)
THEOREM RankingTakesTheBest ==
  ASSUME NEW found, Candidates(found), NEW hybrid \in BOOLEAN
  PROVE  LET ranked == Ranked(found, hybrid)
             at     == Descending([i \in DOMAIN found |-> Score(found, i, hybrid)])
             taken  == Selected(ranked)
             text(p) == TextOf[ranked[p].id]
         IN /\ DOMAIN ranked = DOMAIN found
            /\ at \in Bijection(DOMAIN found, DOMAIN found)
            /\ \A p \in DOMAIN ranked : ranked[p].id = found[at[p]].id
            /\ \A p, q \in DOMAIN ranked : p < q => Score(found, at[p], hybrid) >= Score(found, at[q], hybrid)
            /\ \A p \in taken : IF hybrid THEN Score(found, at[p], hybrid) > 0
                                           ELSE found[at[p]].near > MinRelevance
            /\ Cardinality(taken) <= TopK
            /\ \A q \in DOMAIN ranked : ranked[q].reason = "outside_top_k" =>
                 Cardinality(taken) = TopK /\ \A p \in taken : p < q
            /\ hybrid => \A p, q \in taken : text(p) = text(q) => p = q
            /\ \A q \in DOMAIN ranked : ranked[q].reason = "duplicate_content" =>
                 \E p \in taken : p < q /\ text(p) = text(q)
<1> DEFINE at == Descending([i \in DOMAIN found |-> Score(found, i, hybrid)])
           same(q, p) == TextOf[found[at[q]].id] = TextOf[found[at[p]].id]
           fit(p) == IF hybrid THEN Score(found, at[p], hybrid) > 0 ELSE found[at[p]].near > MinRelevance
           repeats(p, of) == hybrid /\ \E q \in of : q < p /\ same(q, p)
           hits  == {p \in DOMAIN found : fit(p)}
           best  == {p \in hits : ~repeats(p, hits)}
           taken == FirstOf(best, TopK)
           reason(p) == IF p \in taken THEN "selected_top_k"
                        ELSE IF repeats(p, taken) THEN "duplicate_content"
                        ELSE IF p \in hits THEN "outside_top_k" ELSE "below_relevance_threshold"
           ranked == Ranked(found, hybrid)
<1>1. ranked = [p \in DOMAIN found |-> [id |-> found[at[p]].id, reason |-> reason(p)]]
  BY DEF Ranked
<1>2. Len(found) \in Nat /\ DOMAIN found = 1 .. Len(found) /\ TopK \in Nat
  BY PromptAssumption DEF Candidates
<1>3. /\ at \in [DOMAIN found -> DOMAIN found]
      /\ \A p, q \in DOMAIN found : at[p] = at[q] => p = q
      /\ \A i \in DOMAIN found : \E p \in DOMAIN found : at[p] = i
      /\ \A p, q \in DOMAIN found : p < q => Score(found, at[p], hybrid) >= Score(found, at[q], hybrid)
  BY RanksByScore
<1>4. at \in Bijection(DOMAIN found, DOMAIN found)
  BY <1>3 DEF Bijection, Injection, Surjection, IsInjective
<1>5. best \subseteq hits /\ hits \subseteq DOMAIN found
  OBVIOUS
<1> HIDE DEF at
<1>6. /\ taken \subseteq best /\ Cardinality(taken) <= TopK
      /\ \A p \in taken, q \in best \ taken : p < q
      /\ taken # best => Cardinality(taken) = TopK
  <2>1. best \subseteq 1 .. Len(found)
    BY <1>2
  <2> HIDE DEF best
  <2> QED
    BY <1>2, <2>1, FirstAreFirst
<1> HIDE DEF taken, fit, ranked, same
<1>7. /\ DOMAIN ranked = DOMAIN found
      /\ \A p \in DOMAIN found : ranked[p].id = found[at[p]].id /\ ranked[p].reason = reason(p)
  BY <1>1
<1>8. Selected(ranked) = taken
  <2>1. \A p : reason(p) = "selected_top_k" <=> p \in taken
    OBVIOUS
  <2> HIDE DEF reason
  <2> QED
    BY <1>5, <1>6, <1>7, <2>1 DEF Selected
<1>9. ASSUME NEW q \in DOMAIN found, reason(q) = "outside_top_k"
      PROVE  Cardinality(taken) = TopK /\ \A p \in taken : p < q
  <2>1. q \in hits /\ q \notin taken /\ ~repeats(q, taken)
    BY <1>9
  <2>2. CASE q \in best
    BY <1>6, <2>1, <2>2
  <2>3. CASE q \notin best
    <3> DEFINE copies == {x \in hits : same(x, q)}
    <3>1. hybrid /\ \E x \in copies : x < q
      BY <2>1, <2>3
    <3>2. copies \subseteq Nat /\ copies # {}
      BY <1>2, <1>5, <3>1
    <3>3. PICK x \in copies : \A y \in copies : x <= y
      <4> HIDE DEF copies
      <4> QED
        BY <3>2, LeastNatural
    <3>4. x \in hits /\ same(x, q) /\ x < q
      BY <1>2, <1>5, <3>1, <3>3
    <3>5. \A y \in hits : y < x => ~same(y, x)
      <4> SUFFICES ASSUME NEW y \in hits, y < x, same(y, x)
                   PROVE  FALSE
        OBVIOUS
      <4>1. same(y, q)
        BY <3>4 DEF same
      <4>2. x <= y
        BY <3>3, <4>1
      <4> QED
        BY <1>2, <1>5, <3>4, <4>2
    <3>6. x \in best
      BY <3>4, <3>5
    <3>7. x \notin taken
      BY <2>1, <3>1, <3>4
    <3>8. Cardinality(taken) = TopK /\ \A p \in taken : p < x
      BY <1>6, <3>6, <3>7
    <3>9. \A p \in taken : p \in Nat
      BY <1>2, <1>5, <1>6
    <3> QED
      BY <1>2, <1>5, <3>4, <3>8, <3>9
  <2> QED
    BY <2>2, <2>3
<1>10. ASSUME hybrid, NEW p \in taken, NEW q \in taken, same(p, q)
       PROVE  p = q
  <2>1. p \in best /\ q \in best /\ same(q, p)
    BY <1>6, <1>10 DEF same
  <2>2. ~(p < q) /\ ~(q < p)
    BY <1>10, <2>1
  <2>3. p \in Nat /\ q \in Nat
    BY <1>2, <1>5, <2>1
  <2> QED
    BY <2>2, <2>3
<1>11. ASSUME NEW q \in DOMAIN found, reason(q) = "duplicate_content"
       PROVE  \E p \in taken : p < q /\ same(p, q)
  BY <1>11
<1>12. \A p \in taken : p \in DOMAIN found /\ fit(p)
  BY <1>5, <1>6
<1> HIDE DEF reason, hits, best
<1>13. \A p, q \in DOMAIN found : same(p, q) <=> TextOf[ranked[p].id] = TextOf[ranked[q].id]
  BY <1>7 DEF same
<1>14. hybrid => \A p, q \in taken : TextOf[ranked[p].id] = TextOf[ranked[q].id] => p = q
  BY <1>10, <1>12, <1>13
<1>15. \A q \in DOMAIN found : ranked[q].reason = "duplicate_content" =>
         \E p \in taken : p < q /\ TextOf[ranked[p].id] = TextOf[ranked[q].id]
  BY <1>7, <1>11, <1>12, <1>13
<1>16. \A q \in DOMAIN found : ranked[q].reason = "outside_top_k" =>
         Cardinality(taken) = TopK /\ \A p \in taken : p < q
  BY <1>7, <1>9
<1>17. \A p \in taken : IF hybrid THEN Score(found, at[p], hybrid) > 0 ELSE found[at[p]].near > MinRelevance
  BY <1>12 DEF fit
<1> HIDE DEF same, fit
<1> QED
  BY <1>3, <1>4, <1>6, <1>7, <1>8, <1>14, <1>15, <1>16, <1>17 DEF at, ranked

-----------------------------------------------------------------------------
(* The byte budget, of any list of entries with a place of its own each.   *)

Listed(entries) ==
  /\ IsFiniteSet(entries)
  /\ \A e \in entries : e.priority \in Int /\ e.place \in Int
  /\ \A d, e \in entries : d.place = e.place => d = e

RemovalRank(entries, e) == Cardinality({d \in entries : GoesBefore(d, e)})

LEMMA RankRises ==
  ASSUME NEW E, Listed(E), NEW e \in E
  PROVE  /\ RemovalRank(E, e) \in Nat /\ RemovalRank(E, e) < Cardinality(E)
         /\ Cardinality(E) \in Nat
         /\ \A d \in E : GoesBefore(d, e) => RemovalRank(E, d) < RemovalRank(E, e)
<1> DEFINE Before(x) == {d \in E : GoesBefore(d, x)}
<1>1. IsFiniteSet(E) /\ Cardinality(E) \in Nat
  BY FS_CardinalityType DEF Listed
<1>2. ASSUME NEW x
      PROVE  IsFiniteSet(Before(x)) /\ Cardinality(Before(x)) \in Nat
  <2>1. Before(x) \in SUBSET E
    OBVIOUS
  <2> HIDE DEF Before
  <2> QED
    BY <1>1, <2>1, FS_Subset, FS_CardinalityType
<1>3. ASSUME NEW x, NEW S \in SUBSET E, NEW y \in S, y \notin Before(x), Before(x) \subseteq S
      PROVE  Cardinality(Before(x)) < Cardinality(S)
  <2> HIDE DEF Before
  <2>1. IsFiniteSet(S)
    BY <1>1, FS_Subset
  <2>2. IsFiniteSet(S \ {y}) /\ Cardinality(S \ {y}) = Cardinality(S) - 1 /\ Cardinality(S) \in Nat
    BY <2>1, FS_RemoveElement, FS_CardinalityType
  <2>3. Before(x) \in SUBSET (S \ {y})
    BY <1>3
  <2>4. Cardinality(Before(x)) <= Cardinality(S \ {y})
    BY <2>2, <2>3, FS_Subset
  <2> QED
    BY <1>2, <2>2, <2>4
<1>4. \A x \in E : ~GoesBefore(x, x)
  BY DEF Listed, GoesBefore
<1>5. Cardinality(Before(e)) < Cardinality(E)
  BY <1>3, <1>4
<1>6. ASSUME NEW d \in E, GoesBefore(d, e)
      PROVE  Cardinality(Before(d)) < Cardinality(Before(e))
  <2>1. d \in Before(e) /\ d \notin Before(d)
    BY <1>4, <1>6
  <2>2. Before(d) \subseteq Before(e)
    BY <1>6 DEF Listed, GoesBefore
  <2>3. Before(e) \in SUBSET E
    OBVIOUS
  <2> HIDE DEF Before
  <2> QED
    BY <1>3, <2>1, <2>2, <2>3
<1> QED
  BY <1>1, <1>2, <1>5, <1>6 DEF RemovalRank

(* The budget removes an end of the removal order, the shortest that makes *)
(* the rest fit, or there is none.                                         *)
LEMMA RemovesTheLeast ==
  ASSUME NEW E, Listed(E), NEW base, NEW max
  PROVE  LET k == Removed(E, base, max) IN
         /\ k \in Nat /\ k <= Cardinality(E) + 1
         /\ k <= Cardinality(E) => Fits(E, k, base, max)
         /\ \A j \in Nat : j < k /\ j <= Cardinality(E) => ~Fits(E, j, base, max)
<1> DEFINE fitting == {k \in 0 .. Cardinality(E) : Fits(E, k, base, max)}
<1>1. Cardinality(E) \in Nat
  BY FS_CardinalityType DEF Listed
<1>2. CASE fitting = {}
  <2>1. Removed(E, base, max) = Cardinality(E) + 1
    BY <1>2 DEF Removed
  <2>2. \A j \in Nat : j <= Cardinality(E) => ~Fits(E, j, base, max)
    BY <1>1, <1>2
  <2> QED
    BY <1>1, <2>1, <2>2
<1>3. CASE fitting # {}
  <2>1. \E k \in fitting : \A j \in fitting : k <= j
    <3>1. fitting \subseteq Nat
      BY <1>1
    <3> HIDE DEF fitting
    <3> QED
      BY <1>3, <3>1, LeastNatural
  <2>2. Removed(E, base, max) = CHOOSE k \in fitting : \A j \in fitting : k <= j
    BY <1>3 DEF Removed
  <2> DEFINE k == Removed(E, base, max)
  <2>3. k \in fitting /\ \A j \in fitting : k <= j
    <3> HIDE DEF fitting
    <3> QED
      BY <2>1, <2>2
  <2> HIDE DEF k
  <2>4. \A j \in Nat : j < k /\ j <= Cardinality(E) => ~Fits(E, j, base, max)
    BY <1>1, <2>3
  <2> QED
    BY <1>1, <2>3, <2>4 DEF k
<1> QED
  BY <1>2, <1>3

(* What the budget does with such a list: what is left fits, the one that  *)
(* went last was needed, and those that went are worth less.               *)
LEMMA BudgetIsLeast ==
  ASSUME NEW E, Listed(E), NEW base, NEW max
  PROVE  LET k    == Removed(E, base, max)
             left == Without(E, k)
         IN /\ k > Cardinality(E) => ~(base + Bytes({}) <= max)
            /\ k <= Cardinality(E) =>
                 /\ base + Bytes(left) <= max
                 /\ \A d \in E \ left :
                      /\ (\A o \in (E \ left) \ {d} : GoesBefore(o, d)) => ~(base + Bytes(left \cup {d}) <= max)
                      /\ \A e \in left : ~GoesBefore(e, d)
<1> DEFINE k    == Removed(E, base, max)
           left == Without(E, k)
           N    == Cardinality(E)
<1>1. /\ k \in Nat /\ k <= N + 1 /\ N \in Nat
      /\ k <= N => Fits(E, k, base, max)
      /\ \A j \in Nat : j < k /\ j <= N => ~Fits(E, j, base, max)
  <2>1. N \in Nat
    BY FS_CardinalityType DEF Listed
  <2> QED
    BY <2>1, RemovesTheLeast
<1>2. ASSUME NEW j \in Nat
      PROVE  Without(E, j) = {e \in E : RemovalRank(E, e) >= j}
  BY DEF Without, RemovalRank
<1> HIDE DEF k
<1>3. ASSUME k > N
      PROVE  ~(base + Bytes({}) <= max)
  <2>1. Without(E, N) = {}
    <3>1. \A e \in E : RemovalRank(E, e) \in Nat /\ RemovalRank(E, e) < N
      BY RankRises
    <3> QED
      BY <1>1, <1>2, <3>1
  <2>2. ~Fits(E, N, base, max)
    BY <1>1, <1>3
  <2> QED
    BY <2>1, <2>2 DEF Fits
<1>4. ASSUME k <= N
      PROVE  base + Bytes(left) <= max
  BY <1>1, <1>4 DEF Fits
<1>5. ASSUME k <= N, NEW d \in E \ left
      PROVE  \A e \in left : ~GoesBefore(e, d)
  <2> TAKE e \in left
  <2>1. d \in E /\ e \in E /\ RemovalRank(E, e) >= k /\ ~(RemovalRank(E, d) >= k)
    BY <1>1, <1>2
  <2>2. RemovalRank(E, e) \in Nat /\ RemovalRank(E, d) \in Nat
    BY <2>1, RankRises
  <2>3. GoesBefore(e, d) => RemovalRank(E, e) < RemovalRank(E, d)
    BY <2>1, RankRises
  <2> QED
    BY <1>1, <2>1, <2>2, <2>3
<1>6. ASSUME k <= N, NEW d \in E \ left, \A o \in (E \ left) \ {d} : GoesBefore(o, d)
      PROVE  ~(base + Bytes(left \cup {d}) <= max)
  <2>1. left = {e \in E : RemovalRank(E, e) >= k}
    BY <1>1, <1>2
  <2>2. \A e \in E : RemovalRank(E, e) \in Nat
    BY RankRises
  <2>3. RemovalRank(E, d) < k /\ d \in E
    BY <1>1, <2>1, <2>2
  <2>4. k - 1 \in Nat /\ k - 1 < k /\ k - 1 <= N
    BY <1>1, <1>6, <2>2, <2>3
  <2>5. ~Fits(E, k - 1, base, max)
    BY <1>1, <2>4
  <2>6. Without(E, k - 1) = {e \in E : RemovalRank(E, e) >= k - 1}
    BY <1>2, <2>4
  <2>7. \A e \in E : RemovalRank(E, e) = k - 1 => e = d
    <3> SUFFICES ASSUME NEW e \in E, RemovalRank(E, e) = k - 1, e # d
                 PROVE  FALSE
      OBVIOUS
    <3>1. e \in (E \ left) \ {d}
      BY <1>1, <2>1
    <3>2. GoesBefore(e, d)
      BY <1>6, <3>1
    <3>3. RemovalRank(E, e) < RemovalRank(E, d)
      BY <2>3, <3>2, RankRises
    <3> QED
      BY <1>1, <2>2, <2>3, <3>3
  <2>8. \E e \in E : RemovalRank(E, e) = k - 1
    <3>1. Without(E, k - 1) # left
      BY <1>1, <1>6, <2>5 DEF Fits
    <3> QED
      BY <1>1, <2>1, <2>2, <2>6, <3>1
  <2>9. Without(E, k - 1) = left \cup {d}
    BY <1>1, <2>1, <2>2, <2>3, <2>6, <2>7, <2>8
  <2> QED
    BY <2>5, <2>9 DEF Fits
<1> QED
  BY <1>3, <1>4, <1>5, <1>6 DEF k

-----------------------------------------------------------------------------
(* The entries of a turn.                                                  *)

(* What ReadingsAssumption says of a reading, with or without its reads.   *)
Readable(in) ==
  /\ in.integrated \in BOOLEAN
  /\ Len(in.always) \in Nat /\ DOMAIN in.always = 1 .. Len(in.always)
  /\ Candidates(in.found)
  /\ IdsOf(in.always, DOMAIN in.always) \subseteq AlwaysMemory
  /\ IdsOf(in.found, DOMAIN in.found) \cap AlwaysMemory = {}

LEMMA FailuresStayReadable ==
  ASSUME NEW in \in Readings, NEW failed
  PROVE  Readable(AfterFailures(in, failed))
<1> DEFINE known == AfterFailures(in, failed)
<1>1. /\ in.integrated \in BOOLEAN
      /\ Len(in.always) \in Nat /\ DOMAIN in.always = 1 .. Len(in.always)
      /\ Candidates(in.found)
      /\ IdsOf(in.always, DOMAIN in.always) \subseteq AlwaysMemory
      /\ IdsOf(in.found, DOMAIN in.found) \cap AlwaysMemory = {}
      /\ "always" \in DOMAIN in /\ "found" \in DOMAIN in
  BY ReadingsAssumption DEF Candidates
<1>2. /\ known.integrated = in.integrated
      /\ known.always \in {in.always, <<>>}
      /\ known.found \in {in.found, <<>>}
  BY <1>1 DEF AfterFailures
<1>3. Len(<<>>) = 0 /\ DOMAIN <<>> = 1 .. 0 /\ IdsOf(<<>>, DOMAIN <<>>) = {}
  BY DEF IdsOf
<1>4. Candidates(<<>>)
  BY <1>3 DEF Candidates
<1> HIDE DEF known
<1>5. known.always = in.always \/ known.always = <<>>
  BY <1>2
<1>6. known.found = in.found \/ known.found = <<>>
  BY <1>2
<1>7. /\ Len(known.always) \in Nat /\ DOMAIN known.always = 1 .. Len(known.always)
      /\ IdsOf(known.always, DOMAIN known.always) \subseteq AlwaysMemory
  BY <1>1, <1>3, <1>5
<1>8. Candidates(known.found) /\ IdsOf(known.found, DOMAIN known.found) \cap AlwaysMemory = {}
  BY <1>1, <1>3, <1>4, <1>6
<1>9. Readable(known)
  BY <1>1, <1>2, <1>7, <1>8 DEF Readable
<1> QED
  BY <1>9 DEF known

Kinds == {"start", "persona", "canon", "memory"}

(* What is known of the e-th entry of a list, and of the places of a list. *)
AsListed(e, rows, I, type, ahead) ==
  \E i \in I :
    LET q == Cardinality({j \in I : j < i})
    IN  /\ q \in Nat /\ q < Cardinality(I)
        /\ e.type = type /\ e.id = rows[i].id /\ e.section = Section(type, e.id)
        /\ e.priority = Priority(type, e.id, ahead + q) /\ e.priority \in Int

OnePlaceEach(es, before, n) ==
  /\ \A e \in es : e.place \in Nat /\ before < e.place /\ e.place <= before + n
  /\ \A d, e \in es : d.place = e.place => d = e

LEMMA EntriesOfList ==
  ASSUME NEW rows, NEW n \in Nat, NEW I, I \subseteq 1 .. n, NEW type \in Kinds,
         NEW before, NEW ahead \in Nat,
         NEW e \in EntriesOf(rows, I, type, before, ahead)
  PROVE  AsListed(e, rows, I, type, ahead)
<1>1. PICK i \in I :
        e = [type |-> type, id |-> rows[i].id, section |-> Section(type, rows[i].id),
             priority |-> Priority(type, rows[i].id, ahead + Cardinality({j \in I : j < i})),
             place |-> before + i]
  BY DEF EntriesOf
<1> DEFINE B == {j \in I : j < i}
           q == Cardinality(B)
<1>2. IsFiniteSet(I) /\ Cardinality(I) \in Nat
  BY SomePlaces
<1>3. IsFiniteSet(I \ {i}) /\ Cardinality(I \ {i}) = Cardinality(I) - 1
  BY <1>2, FS_RemoveElement
<1>4. B \in SUBSET (I \ {i})
  OBVIOUS
<1>5. q \in Nat /\ q < Cardinality(I)
  <2> HIDE DEF B
  <2>1. IsFiniteSet(B) /\ Cardinality(B) <= Cardinality(I \ {i})
    BY <1>3, <1>4, FS_Subset
  <2> QED
    BY <1>2, <1>3, <2>1, FS_CardinalityType
<1>6. Priority(type, e.id, ahead + q) \in Int
  <2> HIDE DEF q
  <2> QED
    BY <1>5 DEF Priority, Kinds
<1> QED
  BY <1>1, <1>5, <1>6 DEF AsListed

(* Within a list a place belongs to one entry.                             *)
LEMMA PlacesOfList ==
  ASSUME NEW rows, NEW n \in Nat, NEW I, I \subseteq 1 .. n, NEW type,
         NEW before \in Nat, NEW ahead
  PROVE  OnePlaceEach(EntriesOf(rows, I, type, before, ahead), before, n)
<1> SUFFICES ASSUME NEW d \in EntriesOf(rows, I, type, before, ahead),
                    NEW e \in EntriesOf(rows, I, type, before, ahead)
             PROVE  /\ d.place = e.place => d = e
                    /\ e.place \in Nat /\ before < e.place /\ e.place <= before + n
  BY DEF OnePlaceEach
<1> DEFINE entry(i) == [type |-> type, id |-> rows[i].id, section |-> Section(type, rows[i].id),
                        priority |-> Priority(type, rows[i].id, ahead + Cardinality({j \in I : j < i})),
                        place |-> before + i]
<1>1. \A i \in I : entry(i).place = before + i
  OBVIOUS
<1>2. PICK i \in I : d = entry(i)
  BY DEF EntriesOf
<1>3. PICK k \in I : e = entry(k)
  BY DEF EntriesOf
<1> HIDE DEF entry
<1>4. d.place = before + i /\ e.place = before + k /\ i \in 1 .. n /\ k \in 1 .. n
  BY <1>1, <1>2, <1>3
<1>5. d.place = e.place => i = k
  BY <1>4
<1> QED
  BY <1>2, <1>3, <1>4, <1>5

(* Where the rows of the lists come from.                                  *)
LEMMA PlacesOfRows ==
  ASSUME NEW in, Readable(in)
  PROVE  LET ranked == Ranked(in.found, in.integrated) IN
         /\ DOMAIN BlocksOf(in) = 1 .. Len(Blocks) /\ Len(Blocks) \in Nat
         /\ DOMAIN CanonOf(in) \subseteq 1 .. Len(Canon) /\ Len(Canon) \in Nat
         /\ DOMAIN ranked = 1 .. Len(in.found)
         /\ Recalled(in, ranked) \subseteq 1 .. Len(in.found) /\ Len(in.found) \in Nat
         /\ Cardinality(Recalled(in, ranked)) <= TopK
<1>1. /\ Len(Blocks) \in Nat /\ DOMAIN Blocks = 1 .. Len(Blocks)
      /\ Len(Canon) \in Nat /\ DOMAIN Canon = 1 .. Len(Canon)
  BY PromptAssumption
<1>2. DOMAIN BlocksOf(in) = 1 .. Len(Blocks)
  BY <1>1 DEF BlocksOf, Route
<1>3. DOMAIN CanonOf(in) \subseteq 1 .. Len(Canon)
  BY <1>1 DEF CanonOf, Route, Restrict
<1> DEFINE found  == in.found
           hybrid == in.integrated
           ranked == Ranked(found, hybrid)
           at == Descending([i \in DOMAIN found |-> Score(found, i, hybrid)])
           fit(p) == IF hybrid THEN Score(found, at[p], hybrid) > 0 ELSE found[at[p]].near > MinRelevance
           repeats(p, of) == hybrid /\ \E q \in of : q < p /\ TextOf[found[at[q]].id] = TextOf[found[at[p]].id]
           hits  == {p \in DOMAIN found : fit(p)}
           best  == {p \in hits : ~repeats(p, hits)}
           taken == FirstOf(best, TopK)
           reason(p) == IF p \in taken THEN "selected_top_k"
                        ELSE IF repeats(p, taken) THEN "duplicate_content"
                        ELSE IF p \in hits THEN "outside_top_k" ELSE "below_relevance_threshold"
<1>4. ranked = [p \in DOMAIN found |-> [id |-> found[at[p]].id, reason |-> reason(p)]]
  BY DEF Ranked
<1>5. best \subseteq 1 .. Len(found) /\ Len(found) \in Nat /\ DOMAIN found = 1 .. Len(found)
  BY DEF Readable, Candidates
<1>6. \A p : reason(p) = "selected_top_k" => p \in taken
  OBVIOUS
<1> HIDE DEF best, reason
<1>7. taken \subseteq best /\ Cardinality(taken) <= TopK
  BY <1>5, FirstAreFirst, PromptAssumption
<1> HIDE DEF taken, at, found, hybrid
<1>8. DOMAIN ranked = 1 .. Len(found)
  BY <1>4, <1>5
<1>9. \A p \in DOMAIN ranked : ranked[p].reason = "selected_top_k" => p \in taken
  BY <1>4, <1>6
<1> HIDE DEF ranked
<1>10. Recalled(in, ranked) \subseteq taken
  BY <1>9 DEF Recalled, Selected
<1>11. Recalled(in, ranked) \subseteq 1 .. Len(found)
  BY <1>5, <1>7, <1>10
<1>12. Cardinality(Recalled(in, ranked)) <= TopK
  <2>1. IsFiniteSet(taken) /\ Cardinality(taken) \in Nat
    BY <1>5, <1>7, SomePlaces
  <2>2. Cardinality(Recalled(in, ranked)) \in Nat
    BY <1>5, <1>11, SomePlaces
  <2>3. Cardinality(Recalled(in, ranked)) <= Cardinality(taken)
    BY <1>10, <2>1, FS_Subset
  <2> QED
    BY <1>7, <2>1, <2>2, <2>3, PromptAssumption
<1> QED
  BY <1>1, <1>2, <1>3, <1>5, <1>8, <1>11, <1>12 DEF ranked, found, hybrid

(* No always memory is recalled: the search asks for the others only.      *)
LEMMA RecalledAreNotAlways ==
  ASSUME NEW in, Readable(in)
  PROVE  IdsOf(Ranked(in.found, in.integrated), Recalled(in, Ranked(in.found, in.integrated))) \cap AlwaysMemory = {}
<1> DEFINE found  == in.found
           ranked == Ranked(found, in.integrated)
           at == Descending([i \in DOMAIN found |-> Score(found, i, in.integrated)])
<1>1. /\ DOMAIN ranked = DOMAIN found
      /\ \A p \in DOMAIN ranked : ranked[p].id = found[at[p]].id
  BY DEF Ranked
<1>2. at \in [DOMAIN found -> DOMAIN found]
  BY RanksByScore DEF Readable
<1>3. IdsOf(found, DOMAIN found) \cap AlwaysMemory = {}
  BY DEF Readable
<1> HIDE DEF at, ranked, found
<1>4. IdsOf(ranked, Recalled(in, ranked)) \subseteq IdsOf(found, DOMAIN found)
  BY <1>1, <1>2 DEF IdsOf, Recalled, Selected
<1> QED
  BY <1>3, <1>4 DEF ranked, found

(* The entry comes from the list of its kind.                              *)
FromList(in, e) ==
  LET blocks == BlocksOf(in)
      canon  == CanonOf(in)
      ranked == Ranked(in.found, in.integrated)
  IN \/ /\ e.type = "start" /\ e.id \in IdsOf(blocks, InContext(blocks, "start_only"))
        /\ e.priority = 90
     \/ e.type = "persona" /\ e.id \in IdsOf(blocks, InContext(blocks, "retrieved"))
     \/ e.type = "canon" /\ e.id \in IdsOf(canon, InContext(canon, "retrieved"))
     \/ /\ e.type = "memory" /\ e.id \in IdsOf(in.always, DOMAIN in.always)
        /\ \E q \in Nat : q < Len(in.always) /\ e.priority = Priority("memory", e.id, q)
     \/ /\ e.type = "memory" /\ e.id \in IdsOf(ranked, Recalled(in, ranked))
        /\ \E q \in Nat : /\ q < TopK
                          /\ e.priority = Priority("memory", e.id, Len(in.always) + q)

LEMMA CandidatesAreListed ==
  ASSUME NEW in, Readable(in)
  PROVE  LET E == Entries(in, BlocksOf(in), CanonOf(in), Ranked(in.found, in.integrated)) IN
         /\ Listed(E)
         /\ \A e \in E : e.section = Section(e.type, e.id) /\ FromList(in, e)
<1> DEFINE blocks == BlocksOf(in)
           canon  == CanonOf(in)
           ranked == Ranked(in.found, in.integrated)
           E == Entries(in, blocks, canon, ranked)
           B == Len(Blocks)
           C == Len(Canon)
           A == Len(in.always)
           F == Len(in.found)
           memories == 2 * B + C
           start    == EntriesOf(blocks, InContext(blocks, "start_only"), "start", 0, 0)
           persona  == EntriesOf(blocks, InContext(blocks, "retrieved"), "persona", B, 0)
           recalled == EntriesOf(canon, InContext(canon, "retrieved"), "canon", 2 * B, 0)
           always   == EntriesOf(in.always, DOMAIN in.always, "memory", memories, 0)
           found    == EntriesOf(ranked, Recalled(in, ranked), "memory", memories + A, A)
<1>1. /\ B \in Nat /\ C \in Nat /\ A \in Nat /\ F \in Nat
      /\ InContext(blocks, "start_only") \subseteq 1 .. B
      /\ InContext(blocks, "retrieved") \subseteq 1 .. B
      /\ InContext(canon, "retrieved") \subseteq 1 .. C
      /\ DOMAIN in.always = 1 .. A
      /\ Recalled(in, ranked) \subseteq 1 .. F
      /\ Cardinality(Recalled(in, ranked)) <= TopK
  BY PlacesOfRows DEF InContext, Readable
<1>2. Cardinality(1 .. A) = A
  <2>1. \A a, b \in Int : Cardinality(a .. b) = IF a > b THEN 0 ELSE b - a + 1
    BY FS_Interval
  <2>2. 1 \in Int /\ A \in Int
    BY <1>1
  <2>3. Cardinality(1 .. A) = IF 1 > A THEN 0 ELSE A - 1 + 1
    BY <2>1, <2>2, Zenon
  <2> HIDE DEF A
  <2> QED
    BY <1>1, <2>3
<1>3. TopK \in Nat /\ Cardinality(Recalled(in, ranked)) \in Nat
  BY <1>1, SomePlaces, PromptAssumption
<1>4. E = start \cup persona \cup recalled \cup always \cup found
  BY DEF Entries
<1> DEFINE Row(e) == e.section = Section(e.type, e.id) /\ e.priority \in Int
<1> HIDE DEF blocks, canon, ranked, E, B, C, A, F
<1> DEFINE starts   == InContext(blocks, "start_only")
           personas == InContext(blocks, "retrieved")
           canons   == InContext(canon, "retrieved")
           rules    == DOMAIN in.always
           picks    == Recalled(in, ranked)
<1> HIDE DEF starts, personas, canons, rules, picks
<1>5. /\ "start" \in Kinds /\ "persona" \in Kinds /\ "canon" \in Kinds /\ "memory" \in Kinds
      /\ 0 \in Nat /\ 2 * B \in Nat /\ memories \in Nat /\ memories + A \in Nat /\ 2 * B <= memories
  BY <1>1 DEF Kinds
<1> HIDE DEF memories
<1>6. /\ starts \subseteq 1 .. B /\ personas \subseteq 1 .. B /\ canons \subseteq 1 .. C
      /\ rules \subseteq 1 .. A /\ picks \subseteq 1 .. F
  BY <1>1 DEF starts, personas, canons, rules, picks
<1>7. ASSUME NEW e \in start
      PROVE  Row(e) /\ FromList(in, e)
  <2>1. e \in EntriesOf(blocks, starts, "start", 0, 0)
    BY <1>7 DEF starts
  <2>2. AsListed(e, blocks, starts, "start", 0)
    BY <1>1, <1>5, <1>6, <2>1, EntriesOfList
  <2> QED
    BY <2>2 DEF AsListed, FromList, IdsOf, Priority, blocks, starts
<1>8. ASSUME NEW e \in persona
      PROVE  Row(e) /\ FromList(in, e)
  <2>1. e \in EntriesOf(blocks, personas, "persona", B, 0)
    BY <1>8 DEF personas
  <2>2. AsListed(e, blocks, personas, "persona", 0)
    BY <1>1, <1>5, <1>6, <2>1, EntriesOfList
  <2> QED
    BY <2>2 DEF AsListed, FromList, IdsOf, blocks, personas
<1>9. ASSUME NEW e \in recalled
      PROVE  Row(e) /\ FromList(in, e)
  <2>1. e \in EntriesOf(canon, canons, "canon", 2 * B, 0)
    BY <1>9 DEF canons
  <2>2. AsListed(e, canon, canons, "canon", 0)
    BY <1>1, <1>5, <1>6, <2>1, EntriesOfList
  <2> QED
    BY <2>2 DEF AsListed, FromList, IdsOf, canon, canons
<1>10. ASSUME NEW e \in always
      PROVE  Row(e) /\ FromList(in, e)
  <2>1. e \in EntriesOf(in.always, rules, "memory", memories, 0)
    BY <1>10 DEF rules
  <2>2. AsListed(e, in.always, rules, "memory", 0)
    BY <1>1, <1>5, <1>6, <2>1, EntriesOfList
  <2>3. PICK i \in rules :
          LET q == Cardinality({j \in rules : j < i})
          IN  /\ q \in Nat /\ q < Cardinality(rules)
              /\ e.type = "memory" /\ e.id = in.always[i].id /\ e.section = Section("memory", e.id)
              /\ e.priority = Priority("memory", e.id, 0 + q) /\ e.priority \in Int
    BY <2>2 DEF AsListed
  <2> DEFINE q == Cardinality({j \in rules : j < i})
  <2>4. q \in Nat /\ q < A /\ e.priority = Priority("memory", e.id, 0 + q)
    BY <1>1, <1>2, <2>3 DEF rules
  <2> HIDE DEF q
  <2>5. 0 + q = q
    BY <2>4
  <2>6. \E n \in Nat : n < A /\ e.priority = Priority("memory", e.id, n)
    BY <2>4, <2>5
  <2>7. e.id \in IdsOf(in.always, DOMAIN in.always)
    BY <2>3 DEF IdsOf, rules
  <2> QED
    BY <2>3, <2>6, <2>7 DEF FromList, A
<1>11. ASSUME NEW e \in found
      PROVE  Row(e) /\ FromList(in, e)
  <2>1. e \in EntriesOf(ranked, picks, "memory", memories + A, A)
    BY <1>11 DEF picks
  <2>2. AsListed(e, ranked, picks, "memory", A)
    BY <1>1, <1>5, <1>6, <2>1, EntriesOfList
  <2>3. PICK i \in picks :
          LET q == Cardinality({j \in picks : j < i})
          IN  /\ q \in Nat /\ q < Cardinality(picks)
              /\ e.type = "memory" /\ e.id = ranked[i].id /\ e.section = Section("memory", e.id)
              /\ e.priority = Priority("memory", e.id, A + q) /\ e.priority \in Int
    BY <2>2 DEF AsListed
  <2> DEFINE q == Cardinality({j \in picks : j < i})
  <2>4. q \in Nat /\ q < TopK /\ e.priority = Priority("memory", e.id, A + q)
    BY <1>1, <1>3, <2>3 DEF picks
  <2> HIDE DEF q
  <2>5. \E n \in Nat : n < TopK /\ e.priority = Priority("memory", e.id, A + n)
    BY <2>4
  <2>6. e.id \in IdsOf(ranked, picks)
    BY <2>3 DEF IdsOf
  <2> QED
    BY <2>3, <2>5, <2>6 DEF FromList, A, picks, ranked
<1>12. \A e \in E : Row(e) /\ FromList(in, e)
  BY <1>4, <1>7, <1>8, <1>9, <1>10, <1>11
<1>13. OnePlaceEach(start, 0, B)
  BY <1>1, <1>5, <1>6, PlacesOfList DEF starts
<1>14. OnePlaceEach(persona, B, B)
  BY <1>1, <1>5, <1>6, PlacesOfList DEF personas
<1>15. OnePlaceEach(recalled, 2 * B, C)
  BY <1>1, <1>5, <1>6, PlacesOfList DEF canons
<1>16. OnePlaceEach(always, memories, A)
  BY <1>1, <1>5, <1>6, PlacesOfList DEF rules
<1>17. OnePlaceEach(found, memories + A, F)
  BY <1>1, <1>5, <1>6, PlacesOfList DEF picks
<1>18. memories = 2 * B + C
  BY DEF memories
<1> HIDE DEF start, persona, recalled, always, found
<1>19. \A e \in E : e.place \in 1 .. memories + A + F
  BY <1>1, <1>4, <1>13, <1>14, <1>15, <1>16, <1>17, <1>18 DEF OnePlaceEach
<1>20. \A d, e \in E : d.place = e.place => d = e
  <2> SUFFICES ASSUME NEW d \in E, NEW e \in E, d.place = e.place
               PROVE  d = e
    OBVIOUS
  <2>1. CASE e \in start
    BY <1>1, <1>4, <1>13, <1>14, <1>15, <1>16, <1>17, <1>18, <2>1 DEF OnePlaceEach
  <2>2. CASE e \in persona
    BY <1>1, <1>4, <1>13, <1>14, <1>15, <1>16, <1>17, <1>18, <2>2 DEF OnePlaceEach
  <2>3. CASE e \in recalled
    BY <1>1, <1>4, <1>13, <1>14, <1>15, <1>16, <1>17, <1>18, <2>3 DEF OnePlaceEach
  <2>4. CASE e \in always
    BY <1>1, <1>4, <1>13, <1>14, <1>15, <1>16, <1>17, <1>18, <2>4 DEF OnePlaceEach
  <2>5. CASE e \in found
    BY <1>1, <1>4, <1>13, <1>14, <1>15, <1>16, <1>17, <1>18, <2>5 DEF OnePlaceEach
  <2> QED
    BY <1>4, <2>1, <2>2, <2>3, <2>4, <2>5
<1>21. IsFiniteSet(E)
  <2> DEFINE f == [e \in E |-> e.place]
             N == memories + A + F
  <2>1. N \in Nat
    BY <1>1, <1>18
  <2> HIDE DEF N
  <2>2. f \in Injection(E, 1 .. N)
    BY <1>19, <1>20 DEF Injection, IsInjective, N
  <2>3. IsFiniteSet(1 .. N)
    BY <2>1, SomePlaces
  <2> QED
    BY <2>2, <2>3, FS_Injection
<1>22. Listed(E)
  BY <1>12, <1>19, <1>20, <1>21 DEF Listed
<1> QED
  BY <1>12, <1>22 DEF E, blocks, canon, ranked

OptionalOf(in) == Optional(in, BlocksOf(in), CanonOf(in), Ranked(in.found, in.integrated))
RetainedOf(in) == Without(OptionalOf(in), RemovedOf(in, OptionalOf(in)))

(* What may be removed is listed; with a budget, no two entries of one     *)
(* owner have one text.                                                    *)
LEMMA OptionalIsListed ==
  ASSUME NEW in, Readable(in)
  PROVE  /\ Listed(OptionalOf(in))
         /\ RetainedOf(in) \subseteq OptionalOf(in)
         /\ \A e \in OptionalOf(in) : e.section = Section(e.type, e.id) /\ FromList(in, e)
         /\ in.integrated => \A d, e \in OptionalOf(in) :
              d.type = e.type /\ TextOf[d.id] = TextOf[e.id] => d = e
<1> DEFINE E == Entries(in, BlocksOf(in), CanonOf(in), Ranked(in.found, in.integrated))
           O == OptionalOf(in)
<1>1. /\ Listed(E)
      /\ \A e \in E : e.section = Section(e.type, e.id) /\ FromList(in, e)
  BY CandidatesAreListed
<1>2. O = IF in.integrated THEN Distinct(E) ELSE E
  BY DEF OptionalOf, Optional
<1> HIDE DEF E, O
<1>3. O \in SUBSET E
  BY <1>2 DEF Distinct
<1>4. Listed(O)
  <2>1. IsFiniteSet(O)
    BY <1>1, <1>3, FS_Subset DEF Listed
  <2> QED
    BY <1>1, <1>3, <2>1 DEF Listed
<1>5. ASSUME in.integrated, NEW d \in O, NEW e \in O, d.type = e.type, TextOf[d.id] = TextOf[e.id]
      PROVE  d = e
  <2>1. ~(d.place < e.place) /\ ~(e.place < d.place)
    BY <1>2, <1>3, <1>5 DEF Distinct
  <2>2. d \in E /\ e \in E /\ d.place \in Int /\ e.place \in Int
    BY <1>1, <1>3 DEF Listed
  <2>3. d.place = e.place
    BY <2>1, <2>2
  <2> QED
    BY <1>1, <2>2, <2>3 DEF Listed
<1>6. RetainedOf(in) \subseteq O
  BY DEF RetainedOf, Without, O
<1> QED
  BY <1>1, <1>3, <1>4, <1>5, <1>6 DEF O

(* The parts of a prepared prompt.                                         *)
LEMMA PartsOfThePrompt ==
  ASSUME NEW in, Readable(in)
  PROVE  LET p == Prepared(in)
             k == RemovedOf(in, OptionalOf(in))
         IN /\ p.status = "overflow" => k > Cardinality(OptionalOf(in))
            /\ p.status = "ready" =>
                 /\ ~(k > Cardinality(OptionalOf(in)))
                 /\ p.entries = RetainedOf(in)
                 /\ p.dropped = OptionalOf(in) \ RetainedOf(in)
                 /\ p.blocks = Demote(BlocksOf(in), StartLeft(BlocksOf(in), p.entries)
                                                     \cup PersonaLeft(BlocksOf(in), p.entries))
                 /\ p.canon = Demote(CanonOf(in), CanonLeft(CanonOf(in), p.entries))
                 /\ p.sources = Sources(Ranked(in.found, in.integrated),
                                        MemoriesLeft(in, Ranked(in.found, in.integrated), p.entries))
                 /\ p.names = SectionNames(in, StartLeft(BlocksOf(in), p.entries), PersonaLeft(BlocksOf(in), p.entries),
                                           CanonLeft(CanonOf(in), p.entries),
                                           MemoriesLeft(in, Ranked(in.found, in.integrated), p.entries))
  BY DEF Prepared, OptionalOf, RetainedOf

LEMMA BudgetHolds ==
  ASSUME NEW in, Readable(in), input = in, prompt = Prepared(in)
  PROVE  BudgetKeepsTheBest
<1> DEFINE O == OptionalOf(in)
           k == RemovedOf(in, O)
           left == Without(O, k)
           worth(e, d) == /\ e.priority >= d.priority
                          /\ e.section = "retrieved_memories" => d.section \notin {"always_memories", "persona_start"}
<1>1. /\ Listed(O) /\ Cardinality(O) \in Nat
      /\ \A e \in O : e.section = Section(e.type, e.id) /\ FromList(in, e)
  BY OptionalIsListed, FS_CardinalityType DEF Listed
<1>2. /\ prompt.status = "overflow" => k > Cardinality(O)
      /\ prompt.status = "ready" =>
           /\ ~(k > Cardinality(O)) /\ prompt.entries = left /\ prompt.dropped = O \ left
  BY PartsOfThePrompt DEF RetainedOf
<1>3. in.integrated \in BOOLEAN /\ (~in.integrated => k = 0)
  BY DEF Readable, RemovedOf
<1>4. in.integrated => k = Removed(O, in.base, in.max)
  BY DEF RemovedOf
<1> HIDE DEF O, k
<1>5. in.integrated =>
        /\ k \in Nat
        /\ k > Cardinality(O) => ~(in.base + Bytes({}) <= in.max)
        /\ k <= Cardinality(O) =>
             /\ in.base + Bytes(left) <= in.max
             /\ \A d \in O \ left :
                  /\ (\A o \in (O \ left) \ {d} : GoesBefore(o, d)) => ~(in.base + Bytes(left \cup {d}) <= in.max)
                  /\ \A e \in left : ~GoesBefore(e, d)
  BY <1>1, <1>4, BudgetIsLeast, RemovesTheLeast
<1>6. left \subseteq O
  BY DEF Without
<1> HIDE DEF left
<1>7. ASSUME NEW d \in O, NEW e \in O, ~GoesBefore(e, d)
      PROVE  worth(e, d)
  <2>1. d.priority \in Int /\ e.priority \in Int
    BY <1>1 DEF Listed
  <2>2. e.priority >= d.priority
    BY <1>7, <2>1 DEF GoesBefore
  <2>3. ASSUME e.section = "retrieved_memories", d.section \in {"always_memories", "persona_start"}
        PROVE  FALSE
    <3>1. /\ Len(in.always) \in Nat
          /\ IdsOf(in.always, DOMAIN in.always) \subseteq AlwaysMemory
          /\ IdsOf(Ranked(in.found, in.integrated), Recalled(in, Ranked(in.found, in.integrated)))
               \cap AlwaysMemory = {}
      BY RecalledAreNotAlways DEF Readable
    <3>2. e.type = "memory" /\ e.id \notin AlwaysMemory
      BY <1>1, <2>3 DEF FromList, Section, MemorySection
    <3>3. \E q \in Nat : e.priority = 40 - (Len(in.always) + q)
      BY <1>1, <3>1, <3>2 DEF FromList, Priority
    <3>6. e.priority <= 40 - Len(in.always)
      BY <3>1, <3>3
    <3>4. CASE d.type = "start"
      <4>1. d.priority = 90
        BY <1>1, <3>4 DEF FromList
      <4> QED
        BY <2>1, <2>2, <3>1, <3>6, <4>1
    <3>5. CASE d.type # "start"
      <4>1. d.type = "memory" /\ d.id \in AlwaysMemory
        BY <1>1, <2>3, <3>5 DEF FromList, Section, MemorySection
      <4>2. \E q \in Nat : q < Len(in.always) /\ d.priority = 80 - q
        BY <1>1, <3>1, <4>1 DEF FromList, Priority
      <4> QED
        BY <2>2, <3>1, <3>3, <4>2
    <3> QED
      BY <3>4, <3>5
  <2> QED
    BY <2>2, <2>3
<1>8. prompt.status = "overflow" => ~(in.base + Bytes({}) <= in.max)
  BY <1>1, <1>2, <1>3, <1>5
<1>9. ASSUME prompt.status = "ready", in.integrated
      PROVE  /\ in.base + Bytes(left) <= in.max
             /\ \A d \in O \ left :
                  /\ (\A o \in (O \ left) \ {d} : GoesBefore(o, d)) => ~(in.base + Bytes(left \cup {d}) <= in.max)
                  /\ \A e \in left : worth(e, d)
  <2>1. k <= Cardinality(O)
    BY <1>1, <1>2, <1>5, <1>9
  <2> HIDE DEF worth
  <2> QED
    BY <1>5, <1>6, <1>7, <1>9, <2>1
<1> QED
  BY <1>2, <1>8, <1>9 DEF BudgetKeepsTheBest

-----------------------------------------------------------------------------
(* What is reported of the prompt.                                         *)

\* A route, and what a source of the turn context is there for.
Routed(r) ==
  /\ \E id, injection, destination, reason :
       r = [id |-> id, injection |-> injection, destination |-> destination, reason |-> reason]
  /\ FieldsAgree(r)

LEMMA BlocksAreRouted ==
  ASSUME NEW block, block.injection \in Injections, NEW start \in BOOLEAN, NEW wanted
  PROVE  Routed(RouteBlock(block, start, wanted))
<1> DEFINE to(destination, reason) == [id |-> block.id, injection |-> block.injection,
                                       destination |-> destination, reason |-> reason]
           r == RouteBlock(block, start, wanted)
<1>1. \/ block.injection = "legacy" /\ r = to("system_prompt", "legacy_default_always")
      \/ block.injection = "greeting" /\ r = to("excluded", "legacy_reactive_greeting_excluded")
      \/ block.injection = "always" /\ r = to("system_prompt", "always_in_system_prompt")
      \/ block.injection = "never_prompt" /\ r = to("excluded", "never_prompt")
      \/ block.injection = "start_only" /\ r = to("turn_context", "start_only_first_turn")
      \/ block.injection = "start_only" /\ r = to("excluded", "start_only_after_first_turn")
      \/ block.injection = "retrieved" /\ r = to("turn_context", "retrieved_for_turn")
      \/ block.injection = "retrieved" /\ r = to("excluded", "not_retrieved")
  <2>1. CASE block.injection \in {"legacy", "greeting", "always", "never_prompt"}
    BY <2>1 DEF RouteBlock
  <2>2. CASE block.injection = "start_only" /\ start
    BY <2>2 DEF RouteBlock
  <2>3. CASE block.injection = "start_only" /\ ~start
    BY <2>3 DEF RouteBlock
  <2>4. CASE block.injection = "retrieved" /\ block.id \in wanted
    BY <2>4 DEF RouteBlock
  <2>5. CASE block.injection = "retrieved" /\ block.id \notin wanted
    BY <2>5 DEF RouteBlock
  <2> QED
    BY <2>1, <2>2, <2>3, <2>4, <2>5 DEF Injections
<1> HIDE DEF r
<1>2. FieldsAgree(r)
  BY <1>1 DEF FieldsAgree
<1>3. \E id, injection, destination, reason :
        r = [id |-> id, injection |-> injection, destination |-> destination, reason |-> reason]
  BY <1>1
<1> QED
  BY <1>2, <1>3 DEF Routed, r

LEMMA RowsAreRouted ==
  ASSUME NEW in
  PROVE  /\ \A i \in DOMAIN BlocksOf(in) : Routed(BlocksOf(in)[i])
         /\ \A i \in DOMAIN CanonOf(in) : Routed(CanonOf(in)[i])
<1>1. /\ \A i \in DOMAIN Blocks : Blocks[i].injection \in Injections
      /\ \A i \in DOMAIN Canon : Canon[i].injection \in Injections
  BY PromptAssumption
<1>2. Start(in) \in BOOLEAN /\ FALSE \in BOOLEAN
  BY DEF Start
<1>3. \A i \in DOMAIN BlocksOf(in) :
        i \in DOMAIN Blocks /\ BlocksOf(in)[i] = RouteBlock(Blocks[i], Start(in), Wanted(in, Blocks))
  BY DEF BlocksOf, Route
<1>4. \A i \in DOMAIN CanonOf(in) :
        i \in DOMAIN Canon /\ CanonOf(in)[i] = RouteBlock(Canon[i], FALSE, Wanted(in, Canon))
  BY DEF CanonOf, Route, Restrict
<1> QED
  BY <1>1, <1>2, <1>3, <1>4, BlocksAreRouted

Placed(routed) == {routed[i].id : i \in {j \in DOMAIN routed : routed[j].destination = "turn_context"}}

(* What a demotion leaves in place is what is kept; the rest reads as not  *)
(* retrieved.                                                              *)
LEMMA Demotes ==
  ASSUME NEW routed, \A i \in DOMAIN routed : Routed(routed[i]),
         NEW kept, kept \subseteq Placed(routed)
  PROVE  LET left == Demote(routed, kept) IN
         /\ DOMAIN left = DOMAIN routed
         /\ Placed(left) = kept
         /\ \A i \in DOMAIN left :
              FieldsAgree(left[i]) \/ (left[i].injection = "start_only" /\ left[i].reason = "not_retrieved")
<1> DEFINE left == Demote(routed, kept)
           goes(i) == routed[i].destination = "turn_context" /\ routed[i].id \notin kept
<1>1. /\ DOMAIN left = DOMAIN routed
      /\ \A i \in DOMAIN routed : left[i] = IF goes(i)
           THEN [routed[i] EXCEPT !.destination = "excluded", !.reason = "not_retrieved"] ELSE routed[i]
  BY DEF Demote
<1> HIDE DEF left
<1>2. ASSUME NEW i \in DOMAIN routed, goes(i)
      PROVE  /\ left[i].destination = "excluded" /\ left[i].reason = "not_retrieved"
             /\ left[i].injection = routed[i].injection
             /\ routed[i].injection \in {"start_only", "retrieved"}
  <2>1. PICK id, injection, destination, reason :
          routed[i] = [id |-> id, injection |-> injection, destination |-> destination, reason |-> reason]
    BY DEF Routed
  <2> DEFINE r == routed[i]
             moved == [r EXCEPT !.destination = "excluded", !.reason = "not_retrieved"]
  <2>2. /\ left[i].destination = "excluded" /\ left[i].reason = "not_retrieved"
        /\ left[i].injection = routed[i].injection
    <3>1. left[i] = moved
      BY <1>1, <1>2
    <3>2. DOMAIN r = {"id", "injection", "destination", "reason"}
      BY <2>1
    <3> HIDE DEF r
    <3>3. moved.destination = "excluded" /\ moved.reason = "not_retrieved" /\ moved.injection = r.injection
      BY <3>2
    <3> QED
      BY <3>1, <3>3 DEF r
  <2>3. FieldsAgree(routed[i]) /\ routed[i].destination = "turn_context"
    <3>1. Routed(routed[i])
      OBVIOUS
    <3> QED
      BY <1>2, <3>1 DEF Routed
  <2>4. routed[i].injection \in {"start_only", "retrieved"}
    BY <2>3 DEF FieldsAgree
  <2> QED
    BY <2>1, <2>2, <2>4
<1>3. ASSUME NEW i \in DOMAIN routed, ~goes(i)
      PROVE  left[i] = routed[i]
  BY <1>1, <1>3
<1>4. Placed(left) = kept
  <2>1. ASSUME NEW i \in DOMAIN left, left[i].destination = "turn_context"
        PROVE  left[i].id \in kept
    BY <1>1, <1>2, <1>3, <2>1
  <2>2. ASSUME NEW id \in kept
        PROVE  \E i \in DOMAIN left : left[i].destination = "turn_context" /\ left[i].id = id
    <3>1. PICK i \in DOMAIN routed : routed[i].destination = "turn_context" /\ routed[i].id = id
      BY DEF Placed
    <3> QED
      BY <1>1, <1>3, <3>1
  <2> QED
    BY <2>1, <2>2 DEF Placed
<1>5. ASSUME NEW i \in DOMAIN left
      PROVE  FieldsAgree(left[i]) \/ (left[i].injection = "start_only" /\ left[i].reason = "not_retrieved")
  <2>1. CASE goes(i)
    <3>1. /\ left[i].destination = "excluded" /\ left[i].reason = "not_retrieved"
          /\ left[i].injection \in {"start_only", "retrieved"}
      BY <1>1, <1>2, <2>1
    <3> QED
      BY <3>1 DEF FieldsAgree
  <2>2. CASE ~goes(i)
    BY <1>1, <1>3, <2>2 DEF Routed
  <2> QED
    BY <2>1, <2>2
<1>6. \A i \in DOMAIN left : FieldsAgree(left[i]) \/ (left[i].injection = "start_only" /\ left[i].reason = "not_retrieved")
  BY <1>5
<1>7. DOMAIN left = DOMAIN routed
  BY <1>1
<1> HIDE DEF goes
<1> QED
  BY <1>4, <1>6, <1>7 DEF left

LEMMA ProvenanceHolds ==
  ASSUME NEW in, Readable(in), input = in, prompt = Prepared(in)
  PROVE  ProvenanceMatchesPrompt
<1> DEFINE blocks == BlocksOf(in)
           canon  == CanonOf(in)
           ranked == Ranked(in.found, in.integrated)
           K      == RetainedOf(in)
           starts == StartLeft(blocks, K)
           personas == PersonaLeft(blocks, K)
           canons == CanonLeft(canon, K)
           memories == MemoriesLeft(in, ranked, K)
           sent(types) == {e.id : e \in {d \in K : d.type \in types}}
           listed  == Sources(ranked, memories)
<1> SUFFICES ASSUME prompt.status = "ready"
             PROVE  ProvenanceMatchesPrompt
  BY DEF ProvenanceMatchesPrompt
<1>1. /\ prompt.entries = K
      /\ prompt.blocks = Demote(blocks, starts \cup personas)
      /\ prompt.canon = Demote(canon, canons)
      /\ prompt.sources = Sources(ranked, memories)
      /\ prompt.names = SectionNames(in, starts, personas, canons, memories)
  BY PartsOfThePrompt
<1>2. \A e \in K : e.section = Section(e.type, e.id) /\ FromList(in, e)
  BY OptionalIsListed
<1> HIDE DEF K
<1>3. sent({"start"}) = starts
  BY <1>2 DEF FromList, StartLeft, Left
<1>4. sent({"persona"}) = personas
  BY <1>2 DEF FromList, PersonaLeft, Left
<1>5. sent({"canon"}) = canons
  BY <1>2 DEF FromList, CanonLeft, Left
<1>6. sent({"memory"}) = memories
  BY <1>2 DEF FromList, MemoriesLeft, Left
<1>7. sent({"start", "persona"}) = starts \cup personas
  BY <1>3, <1>4
<1> DEFINE S == starts \cup personas
<1>8. Placed(Demote(blocks, S)) = S
  <2>1. \A i \in DOMAIN blocks : Routed(blocks[i])
    BY RowsAreRouted
  <2>2. S \subseteq Placed(blocks)
    BY DEF StartLeft, PersonaLeft, Left, IdsOf, InContext, Placed
  <2> HIDE DEF S, blocks
  <2> QED
    BY <2>1, <2>2, Demotes
<1>9. Placed(Demote(canon, canons)) = canons
  <2>1. \A i \in DOMAIN canon : Routed(canon[i])
    BY RowsAreRouted
  <2>2. canons \subseteq Placed(canon)
    BY DEF CanonLeft, Left, IdsOf, InContext, Placed
  <2> HIDE DEF canons, canon
  <2> QED
    BY <2>1, <2>2, Demotes
<1>10. SectionNames(in, starts, personas, canons, memories) = Written(in, K)
  <2>1. "persona_start" \in {e.section : e \in K} <=> starts # {}
    <3>1. \A e \in K : e.section = "persona_start" <=> e.type = "start"
      BY <1>2 DEF FromList, Section, MemorySection
    <3> HIDE DEF starts
    <3> QED
      BY <1>3, <3>1
  <2>2. "persona_retrieved" \in {e.section : e \in K} <=> personas # {}
    BY <1>2, <1>4 DEF FromList, Section, MemorySection
  <2>3. "character_memories" \in {e.section : e \in K} <=> canons # {}
    BY <1>2, <1>5 DEF FromList, Section, MemorySection
  <2>4. "always_memories" \in {e.section : e \in K} <=> memories \cap AlwaysMemory # {}
    BY <1>2, <1>6 DEF FromList, Section, MemorySection
  <2>5. "retrieved_memories" \in {e.section : e \in K} <=> memories \ AlwaysMemory # {}
    BY <1>2, <1>6 DEF FromList, Section, MemorySection
  <2>6. {e.section : e \in K} \subseteq {"persona_start", "persona_retrieved", "character_memories", "always_memories", "retrieved_memories"}
    BY <1>2 DEF FromList, Section, MemorySection
  <2> DEFINE W == {e.section : e \in K}
  <2> HIDE DEF W, starts, personas, canons, memories
  <2> QED
    BY <2>1, <2>2, <2>3, <2>4, <2>5, <2>6 DEF SectionNames, Written, W
<1>11. /\ DOMAIN listed = DOMAIN ranked
       /\ \A i \in DOMAIN ranked :
            /\ listed[i].id = ranked[i].id
            /\ listed[i].injected <=> ranked[i].reason = "selected_top_k" /\ ranked[i].id \in memories
  BY DEF Sources
<1> DEFINE injected == {listed[i].id : i \in {j \in DOMAIN listed : listed[j].injected}}
<1> HIDE DEF listed, ranked
<1>12. injected \subseteq memories
  <2> HIDE DEF memories
  <2> QED
    BY <1>11
<1>13. memories \ AlwaysMemory \subseteq injected
  <2> SUFFICES ASSUME NEW id \in memories, id \notin AlwaysMemory
               PROVE  id \in injected
    OBVIOUS
  <2>1. id \in IdsOf(ranked, Recalled(in, ranked))
    BY DEF MemoriesLeft, Left, Readable
  <2>2. PICK i \in DOMAIN ranked : ranked[i].reason = "selected_top_k" /\ ranked[i].id = id
    BY <2>1 DEF IdsOf, Recalled, Selected
  <2> HIDE DEF memories
  <2> QED
    BY <1>11, <2>2
<1> HIDE DEF starts, personas, canons, memories, blocks, canon, S
<1>14. /\ prompt.names = Written(input, prompt.entries)
       /\ Placed(prompt.blocks) = sent({"start", "persona"})
       /\ Placed(prompt.canon) = sent({"canon"})
  BY <1>1, <1>5, <1>7, <1>8, <1>9, <1>10 DEF S
<1>15. prompt.sources = listed /\ sent({"memory"}) = memories
  BY <1>1, <1>6 DEF listed
<1>16. injected \subseteq sent({"memory"}) /\ sent({"memory"}) \ AlwaysMemory \subseteq injected
  BY <1>12, <1>13, <1>15
<1> DEFINE reported == {prompt.sources[i].id : i \in {j \in DOMAIN prompt.sources : prompt.sources[j].injected}}
<1>17. reported = injected
  BY <1>15 DEF injected
<1> HIDE DEF sent, injected
<1>18. reported \subseteq sent({"memory"}) /\ sent({"memory"}) \ AlwaysMemory \subseteq reported
  BY <1>16, <1>17
<1> QED
  <2>1. /\ prompt.names = Written(input, prompt.entries)
        /\ {prompt.blocks[i].id : i \in {j \in DOMAIN prompt.blocks : prompt.blocks[j].destination = "turn_context"}}
             = {e.id : e \in {d \in prompt.entries : d.type \in {"start", "persona"}}}
        /\ {prompt.canon[i].id : i \in {j \in DOMAIN prompt.canon : prompt.canon[j].destination = "turn_context"}}
             = {e.id : e \in {d \in prompt.entries : d.type \in {"canon"}}}
        /\ reported \subseteq {e.id : e \in {d \in prompt.entries : d.type \in {"memory"}}}
        /\ {e.id : e \in {d \in prompt.entries : d.type \in {"memory"}}} \ AlwaysMemory \subseteq reported
    BY <1>1, <1>14, <1>18 DEF Placed, sent
  <2> QED
    BY <2>1 DEF ProvenanceMatchesPrompt

LEMMA MetadataHolds ==
  ASSUME NEW in, Readable(in), input = in, prompt = Prepared(in)
  PROVE  MetadataParses
<1> DEFINE blocks == BlocksOf(in)
           ranked == Ranked(in.found, in.integrated)
           O      == OptionalOf(in)
           K      == RetainedOf(in)
           S      == StartLeft(blocks, K) \cup PersonaLeft(blocks, K)
           late(r) == r.injection = "start_only" /\ r.reason = "not_retrieved"
           known  == prompt.names \subseteq ParsedSections
           routes == \A i \in DOMAIN prompt.blocks : FieldsAgree(prompt.blocks[i])
           given  == \A i \in DOMAIN prompt.sources :
                       prompt.sources[i].injected => prompt.sources[i].reason = "selected_top_k"
           budget == /\ \A d, e \in prompt.entries \cup prompt.dropped : d.type = e.type /\ d.id = e.id => d = e
                     /\ in.base + Bytes(prompt.entries) <= in.max
<1> SUFFICES ASSUME prompt.status = "ready"
             PROVE  MetadataParses
  BY DEF MetadataParses
<1>1. /\ prompt.entries = K
      /\ prompt.dropped = O \ K
      /\ prompt.blocks = Demote(blocks, S)
      /\ prompt.sources = Sources(ranked, MemoriesLeft(in, ranked, K))
      /\ prompt.names = SectionNames(in, StartLeft(blocks, K), PersonaLeft(blocks, K),
                                     CanonLeft(CanonOf(in), K), MemoriesLeft(in, ranked, K))
      /\ ~(RemovedOf(in, O) > Cardinality(O))
  BY PartsOfThePrompt
<1>2. known <=> "always_memories" \notin prompt.names
  <2>1. prompt.names \subseteq ParsedSections \cup {"always_memories"}
    BY <1>1 DEF SectionNames, ParsedSections
  <2>2. "always_memories" \notin ParsedSections
    BY DEF ParsedSections
  <2> HIDE DEF K, blocks, ranked
  <2> QED
    BY <2>1, <2>2
<1>3. routes <=> ~\E i \in DOMAIN prompt.blocks : late(prompt.blocks[i])
  <2>1. \A i \in DOMAIN blocks : Routed(blocks[i])
    BY RowsAreRouted
  <2>2. S \subseteq Placed(blocks)
    BY DEF StartLeft, PersonaLeft, Left, IdsOf, InContext, Placed
  <2> HIDE DEF S, blocks
  <2>3. \A i \in DOMAIN prompt.blocks : FieldsAgree(prompt.blocks[i]) \/ late(prompt.blocks[i])
    BY <1>1, <2>1, <2>2, Demotes
  <2>4. \A r : late(r) => ~FieldsAgree(r)
    BY DEF FieldsAgree
  <2> HIDE DEF late
  <2> QED
    BY <2>3, <2>4
<1>4. given
  <2> DEFINE left == MemoriesLeft(in, ranked, K)
  <2>1. prompt.sources = Sources(ranked, left)
    BY <1>1
  <2> HIDE DEF left, ranked
  <2>2. \A i \in DOMAIN Sources(ranked, left) :
          Sources(ranked, left)[i].injected => Sources(ranked, left)[i].reason = "selected_top_k"
    BY DEF Sources
  <2> QED
    BY <2>1, <2>2
<1>5. in.integrated => budget
  <2> SUFFICES ASSUME in.integrated PROVE budget
    OBVIOUS
  <2>1. /\ Listed(O) /\ K \subseteq O
        /\ \A d, e \in O : d.type = e.type /\ TextOf[d.id] = TextOf[e.id] => d = e
    BY OptionalIsListed
  <2>2. RemovedOf(in, O) = Removed(O, in.base, in.max) /\ K = Without(O, RemovedOf(in, O))
    BY DEF RemovedOf, RetainedOf
  <2> HIDE DEF O, K
  <2>3. in.base + Bytes(K) <= in.max
    <3>1. Removed(O, in.base, in.max) \in Nat /\ Cardinality(O) \in Nat
      BY <2>1, RemovesTheLeast, FS_CardinalityType DEF Listed
    <3>2. Removed(O, in.base, in.max) <= Cardinality(O)
      BY <1>1, <2>2, <3>1
    <3> QED
      BY <2>1, <2>2, <3>2, BudgetIsLeast
  <2>4. prompt.entries \cup prompt.dropped = O
    BY <1>1, <2>1
  <2>5. \A d, e \in O : d.type = e.type /\ d.id = e.id => d = e
    BY <2>1
  <2> QED
    BY <1>1, <2>3, <2>4, <2>5
<1>6. in.integrated \in BOOLEAN
  BY DEF Readable
<1>7. Parses(prompt, in.base, in.max, in.integrated) <=> known /\ routes /\ given /\ (in.integrated => budget)
  BY DEF Parses
<1> HIDE DEF known, routes, given, budget
<1>8. Parses(prompt, in.base, in.max, in.integrated) <=> known /\ routes
  BY <1>4, <1>5, <1>7
<1>9. Parses(prompt, in.base, in.max, in.integrated) <=>
        /\ "always_memories" \notin prompt.names
        /\ ~\E i \in DOMAIN prompt.blocks : late(prompt.blocks[i])
  BY <1>2, <1>3, <1>8
<1> QED
  BY <1>9 DEF MetadataParses

-----------------------------------------------------------------------------
(* Along a turn.                                                           *)

(* A prompt is there only between its preparation and the reply, and is    *)
(* the one that was prepared from the readings the turn holds.             *)
PromptIsPrepared ==
  \/ prompt = NoPrompt
  \/ \E in \in Readings, failed \in SUBSET Reads : input = AfterFailures(in, failed) /\ prompt = Prepared(input)

LEMMA PromptStays ==
  PromptIsPrepared /\ [TurnNext]_turnVars => PromptIsPrepared'
<1> SUFFICES ASSUME PromptIsPrepared, [TurnNext]_turnVars PROVE PromptIsPrepared'
  OBVIOUS
<1>1. CASE UNCHANGED <<input, prompt>>
  BY <1>1 DEF PromptIsPrepared
<1>2. ASSUME NEW in \in Readings, NEW failed \in SUBSET Reads, Prepare(in, failed)
      PROVE  PromptIsPrepared'
  <2>1. input' = AfterFailures(in, failed) /\ prompt' = Prepared(input')
    BY <1>2 DEF Prepare
  <2> QED
    BY <2>1 DEF PromptIsPrepared
<1>3. CASE StartReply
  BY <1>3 DEF StartReply, PromptIsPrepared
<1>4. CASE Refuse \/ PrepareProxy \/ PrepareFails
  BY <1>1, <1>4 DEF Refuse, PrepareProxy, PrepareFails
<1>5. CASE LoopStep \/ ProxyText
  BY <1>1, <1>5 DEF LoopStep, Relay, ProxyText
<1>6. CASE ProxyEnds \/ Interrupt
  BY <1>1, <1>6 DEF ProxyEnds, Interrupt, httpVars
<1>7. CASE Deliver \/ Lose
  BY <1>1, <1>7 DEF Deliver, Lose
<1>8. CASE StartPost \/ JudgeAnswers \/ Complete \/ ReplyFails
  BY <1>1, <1>8 DEF StartPost, JudgeAnswers, Complete, ReplyFails
<1>9. CASE Finished \/ UNCHANGED turnVars
  BY <1>1, <1>9 DEF Finished, turnVars, httpVars
<1> QED
  BY <1>2, <1>3, <1>4, <1>5, <1>6, <1>7, <1>8, <1>9 DEF TurnNext

LEMMA PromptStarts == TurnInit => PromptIsPrepared
BY DEF TurnInit, PromptIsPrepared

(* Whatever the three say of a prepared prompt, they say of the turn.      *)
LEMMA PreparedOrNone ==
  ASSUME PromptIsPrepared
  PROVE  \/ prompt.status = "none"
         \/ Readable(input) /\ prompt = Prepared(input)
BY FailuresStayReadable DEF PromptIsPrepared, NoPrompt

-----------------------------------------------------------------------------
(* Whatever was read and whichever reads failed, the budget gives up the     *)
(* right things, as few as it can (fitContextBudget, prepare).               *)
THEOREM BudgetIsKept == TurnSpec => []BudgetKeepsTheBest
<1>1. PromptIsPrepared => BudgetKeepsTheBest
  BY PreparedOrNone, BudgetHolds DEF BudgetKeepsTheBest
<1> QED
  BY <1>1, PromptStarts, PromptStays, PTL DEF TurnSpec

(* What is reported of a prompt is the prompt that was sent                  *)
(* (contextSectionNames, routePersona, rankMemories against the retained     *)
(* entries), whatever was read and whatever the budget removed.              *)
THEOREM ProvenanceIsTrue == TurnSpec => []ProvenanceMatchesPrompt
<1>1. PromptIsPrepared => ProvenanceMatchesPrompt
  BY PreparedOrNone, ProvenanceHolds DEF ProvenanceMatchesPrompt
<1> QED
  BY <1>1, PromptStarts, PromptStays, PTL DEF TurnSpec

(* The evaluations can read back the metadata of every prepared turn but    *)
(* the two kinds named, and never that of those (parsePromptDebug).          *)
THEOREM MetadataIsReadable == TurnSpec => []MetadataParses
<1>1. PromptIsPrepared => MetadataParses
  BY PreparedOrNone, MetadataHolds DEF MetadataParses
<1> QED
  BY <1>1, PromptStarts, PromptStays, PTL DEF TurnSpec
=============================================================================
