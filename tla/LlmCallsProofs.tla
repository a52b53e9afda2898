--------------------------- MODULE LlmCallsProofs ---------------------------
(***************************************************************************)
(* What LlmCalls.cfg checks for two callers and three settings, proved for *)
(* any callers, models, settings and changes of them.                      *)
(***************************************************************************)
EXTENDS LlmCalls, TLAPS

Rows  == Configs \cup {Incomplete}
Names == Models \cup {Unresolved}

CallStates == [
  pc : {"idle", "ready", "query", "rows", "start", "external", "stream", "finish", "fail", "end"},
  kind : {"none", "chat", "complete", "stream", "embed"},
  asked : Names, follows : BOOLEAN, made : Nat, rows : Rows, used : Rows, sent : Names,
  seen : SUBSET Rows, row : {"none", "started", "succeeded", "failed"}, logged : Nat,
  spent : BOOLEAN, chunks : Nat, outcome : {"none", "whole", "broken", "left"},
  got : {"none", "answer", "error"}]

(* The names the process has taken for the default are the current default *)
(* and the superseded ones.                                                *)
DefaultsKnown ==
  /\ settings \in Rows /\ cached \in Rows /\ ever \subseteq Models
  /\ IF cached = Incomplete THEN superseded = {Unresolved} /\ ever = {}
     ELSE superseded = ({Unresolved} \cup ever) \ {ModelOf[cached]} /\ ModelOf[cached] \in ever

Before == {"idle", "ready", "query", "rows", "start"}

(* A call by itself, given the names taken for the default so far: what it  *)
(* asks for, which settings it holds, and what its row says.               *)
AsksOK(r, e) ==
  /\ r.follows => r.asked \in e \cup {Unresolved}
  /\ r.pc # "idle" /\ ~r.follows => r.asked \in Models
SettingsOK(r, e) ==
  /\ r.pc \in {"idle", "ready", "query", "rows"} => r.used = Incomplete
  /\ r.pc = "rows" => r.rows \in r.seen
  /\ r.used # Incomplete => r.used \in r.seen
  /\ r.used # Incomplete /\ r.kind # "embed" =>
       /\ r.follows => r.sent = ModelOf[r.used]
       /\ r.asked \notin e => r.follows \/ r.sent = r.asked
RowOK(r) ==
  /\ r.pc \in Before => r.row = "none" /\ r.outcome = "none" /\ ~r.spent /\ r.got = "none"
  /\ r.pc \in {"external", "stream", "finish", "fail"} => r.row = "started" /\ r.got = "none"
  /\ r.pc \in {"external", "stream"} => r.outcome = "none"
  /\ r.pc = "finish" => r.outcome = "whole"
  /\ r.pc = "fail" => r.outcome \in {"broken", "left"}
  /\ r.spent => r.row # "none"
  /\ r.row = "succeeded" => r.outcome = "whole" /\ r.logged = r.chunks
  /\ r.row = "failed" => r.outcome \in {"broken", "left"}
  /\ r.got = "answer" => r.outcome = "whole"
CallOK(r, e) == r \in CallStates /\ AsksOK(r, e) /\ SettingsOK(r, e) /\ RowOK(r)

(* A lookup that is under way can still find what is stored now.           *)
QueriesSeeTheSettings == \A c \in Callers : call[c].pc = "query" => settings \in call[c].seen

IInv ==
  /\ DefaultsKnown /\ QueriesSeeTheSettings
  /\ call = [c \in Callers |-> call[c]] /\ \A c \in Callers : CallOK(call[c], ever)

-----------------------------------------------------------------------------
LEMMA InvariantSuffices ==
  ASSUME IInv
  PROVE  DefaultsAreFollowed /\ ProviderIsCurrent /\ StatusTellsTheOutcome
BY DEF IInv, CallOK, SettingsOK, RowOK, DefaultsAreFollowed, ProviderIsCurrent, StatusTellsTheOutcome, Resolved

LEMMA IdleIsOK == ASSUME NEW e PROVE CallOK(Idle, e)
BY LlmAssumption DEF Idle, CallOK, CallStates, Rows, Names, AsksOK, SettingsOK, RowOK, Before

LEMMA Initially == LlmInit => IInv
<1> SUFFICES ASSUME LlmInit PROVE IInv
  OBVIOUS
<1>1. DefaultsKnown
  BY DEF LlmInit, DefaultsKnown, Rows
<1>2. \A c \in Callers : call[c] = Idle /\ CallOK(call[c], ever) /\ call[c].pc # "query"
  BY IdleIsOK DEF LlmInit, Idle
<1>3. call = [c \in Callers |-> call[c]]
  BY DEF LlmInit
<1> QED
  BY <1>1, <1>2, <1>3 DEF IInv, QueriesSeeTheSettings

(* The replaced defaults and the current one stay all there have been.     *)
LEMMA InstallKnowsDefaults ==
  ASSUME IInv, NEW c \in Callers, Install(c)
  PROVE  /\ DefaultsKnown'
         /\ superseded' = ({Unresolved} \cup ever') \ {ModelOf[call[c].rows]}
<1>1. /\ call[c].rows \in Configs /\ ModelOf[call[c].rows] \in Models
      /\ cached' = call[c].rows /\ superseded' = Supersede(call[c].rows)
      /\ ever' = ever \cup {ModelOf[call[c].rows]} /\ settings' = settings
  BY LlmAssumption DEF Install, Usable, Provider, IInv, CallOK, CallStates, Rows
<1> DEFINE model == ModelOf[call[c].rows]
<1>2. superseded' = ({Unresolved} \cup ever') \ {model}
  <2>1. CASE cached = Incomplete
    BY <1>1, <2>1, LlmAssumption DEF Supersede, IInv, DefaultsKnown
  <2>2. CASE cached # Incomplete
    BY <1>1, <2>2, LlmAssumption DEF Supersede, IInv, DefaultsKnown
  <2> QED
    BY <2>1, <2>2
<1> QED
  BY <1>1, <1>2, LlmAssumption DEF DefaultsKnown, IInv, Rows

LEMMA InstallKeeps ==
  ASSUME IInv, NEW c \in Callers, Install(c)
  PROVE  IInv'
<1> DEFINE config == call[c].rows
           r == [call[c] EXCEPT !.pc = "start", !.used = config, !.rows = Incomplete, !.seen = call[c].seen \cap {config},
                   !.sent = IF call[c].kind = "embed" THEN Unresolved
                            ELSE Freshen(call[c].asked, config, Supersede(config))]
<1>1. /\ config \in Configs /\ ModelOf[config] \in Models /\ call[c].pc = "rows"
      /\ ever' = ever \cup {ModelOf[config]} /\ superseded' = Supersede(config)
      /\ call' = [call EXCEPT ![c] = r]
  <2>1. config \in Rows /\ config # Incomplete
    BY DEF Install, Usable, IInv, CallOK, CallStates
  <2>2. superseded' = Supersede(config) /\ ever' = ever \cup {ModelOf[config]} /\ call[c].pc = "rows"
    BY DEF Install, Provider
  <2>3. call' = [call EXCEPT ![c] = r]
    BY DEF Install, Provider
  <2> HIDE DEF r
  <2> QED
    BY <2>1, <2>2, <2>3, LlmAssumption DEF Rows
<1>2. DefaultsKnown' /\ superseded' = ({Unresolved} \cup ever') \ {ModelOf[config]}
  BY InstallKnowsDefaults
<1>3. /\ call[c] \in CallStates /\ AsksOK(call[c], ever) /\ SettingsOK(call[c], ever) /\ RowOK(call[c])
  BY DEF IInv, CallOK
<1>4. Freshen(call[c].asked, config, superseded') \in Names
  BY <1>1, <1>3 DEF Freshen, Names, CallStates
<1>5. r \in CallStates
  BY <1>1, <1>3, <1>4 DEF CallStates, Rows, Names
<1>6. /\ r.pc = "start" /\ r.used = config /\ config \in r.seen /\ r.follows = call[c].follows
      /\ r.asked = call[c].asked /\ r.kind = call[c].kind
      /\ r.kind # "embed" => r.sent = Freshen(r.asked, config, superseded')
      /\ r.row = call[c].row /\ r.outcome = call[c].outcome /\ r.spent = call[c].spent /\ r.got = call[c].got
  BY <1>1, <1>3 DEF CallStates, SettingsOK
<1>7. AsksOK(r, ever')
  BY <1>1, <1>3, <1>6 DEF AsksOK
<1> HIDE DEF r
<1>8. SettingsOK(r, ever')
  <2>1. r.kind # "embed" /\ r.follows => r.sent = ModelOf[config]
    BY <1>2, <1>6, <1>7 DEF Freshen, AsksOK
  <2>2. r.kind # "embed" /\ r.asked \notin ever' => r.follows \/ r.sent = r.asked
    <3>1. r.asked = Unresolved \/ r.asked \in Models
      BY <1>5 DEF CallStates, Names
    <3>2. ASSUME r.kind # "embed", r.asked \notin ever', r.asked \in Models
          PROVE  r.sent = r.asked
      BY <1>2, <1>6, <3>2, LlmAssumption DEF Freshen
    <3>3. r.asked = Unresolved => r.follows
      BY <1>6, <1>7, LlmAssumption DEF AsksOK
    <3> QED
      BY <3>1, <3>2, <3>3
  <2> QED
    BY <1>6, <2>1, <2>2 DEF SettingsOK
<1>9. RowOK(r)
  BY <1>1, <1>3, <1>6 DEF RowOK, Before
<1>10. \A d \in Callers : d # c => CallOK(call[d], ever') /\ call'[d] = call[d]
  BY <1>1 DEF IInv, CallOK, AsksOK, SettingsOK, RowOK
<1>11. call'[c] = r /\ call' = [d \in Callers |-> call'[d]]
  BY <1>1 DEF IInv
<1>12. QueriesSeeTheSettings'
  BY <1>6, <1>10, <1>11 DEF IInv, QueriesSeeTheSettings, Install
<1> QED
  BY <1>2, <1>5, <1>7, <1>8, <1>9, <1>10, <1>11, <1>12 DEF IInv, CallOK

(* A step of one call that leaves the settings alone.                      *)
LEMMA OnlyKeeps ==
  ASSUME IInv, NEW c \in Callers, NEW r, Only(c, r), CallOK(r, ever),
         r.pc = "query" => settings \in r.seen
  PROVE  IInv'
BY DEF Only, IInv, DefaultsKnown, QueriesSeeTheSettings

LEMMA CallerKeeps ==
  ASSUME IInv, NEW c \in Callers,
         Prepare(c) \/ PrepareDefault(c) \/ (\E kind \in KindsOf[c] : Call(c, kind)) \/ Settled(c)
  PROVE  IInv'
<1>1. /\ call[c] \in CallStates /\ AsksOK(call[c], ever) /\ SettingsOK(call[c], ever) /\ RowOK(call[c])
      /\ DefaultsKnown
  BY DEF IInv, CallOK
<1>2. ASSUME NEW name \in Names, NEW f \in BOOLEAN, call[c].pc = "idle",
             IF f THEN name \in ever \cup {Unresolved} ELSE name \in Models,
             Only(c, [call[c] EXCEPT !.pc = "ready", !.asked = name, !.follows = f])
      PROVE  IInv'
  <2> DEFINE r == [call[c] EXCEPT !.pc = "ready", !.asked = name, !.follows = f]
  <2>1. r \in CallStates
    BY <1>1 DEF CallStates
  <2>2. r.pc = "ready" /\ r.asked = name /\ r.follows = f /\ r.used = Incomplete
    BY <1>1, <1>2 DEF CallStates, SettingsOK
  <2>3. RowOK(r)
    BY <1>1, <1>2 DEF CallStates, RowOK, Before
  <2> HIDE DEF r
  <2>4. AsksOK(r, ever) /\ SettingsOK(r, ever)
    BY <1>2, <2>2 DEF AsksOK, SettingsOK
  <2> QED
    BY <1>2, <2>1, <2>2, <2>3, <2>4, OnlyKeeps DEF CallOK, r
<1>3. CASE Prepare(c)
  BY <1>2, <1>3 DEF Prepare, Only, Names
<1>4. CASE PrepareDefault(c)
  <2>1. Default \in ever \cup {Unresolved} /\ Default \in Names
    BY <1>1 DEF Default, DefaultsKnown, Names
  <2> QED
    BY <1>2, <1>4, <2>1 DEF PrepareDefault, Only
<1>5. CASE \E kind \in KindsOf[c] : Call(c, kind)
  <2>1. PICK kind \in KindsOf[c] : Call(c, kind)
    BY <1>5
  <2>2. kind \in {"chat", "complete", "stream", "embed"}
    BY LlmAssumption
  <2> DEFINE r == [call[c] EXCEPT !.pc = "query", !.kind = kind, !.seen = {settings}, !.made = call[c].made + 1]
  <2>3. Only(c, r) /\ call[c].pc = "ready"
    BY <2>1 DEF Call, Only
  <2>4. call[c].made + 1 \in Nat /\ {settings} \in SUBSET Rows
    BY <1>1 DEF CallStates, DefaultsKnown
  <2>5. r \in CallStates
    BY <1>1, <2>2, <2>4 DEF CallStates
  <2>6. /\ r.pc = "query" /\ r.seen = {settings} /\ r.used = Incomplete
        /\ r.asked = call[c].asked /\ r.follows = call[c].follows
    BY <1>1, <2>3 DEF CallStates, SettingsOK
  <2>7. RowOK(r)
    BY <1>1, <2>3 DEF CallStates, RowOK, Before
  <2> HIDE DEF r
  <2>8. AsksOK(r, ever) /\ SettingsOK(r, ever)
    BY <1>1, <2>3, <2>6 DEF AsksOK, SettingsOK
  <2> QED
    BY <2>3, <2>5, <2>6, <2>7, <2>8, OnlyKeeps DEF CallOK
<1>6. CASE Settled(c)
  <2>1. PICK next \in {[Idle EXCEPT !.pc = "ready", !.asked = call[c].asked, !.follows = call[c].follows], Idle} :
          Only(c, [next EXCEPT !.made = call[c].made]) /\ call[c].pc = "end"
    BY <1>6 DEF Settled, Only
  <2>2. CallOK(Idle, ever)
    BY IdleIsOK
  <2> DEFINE r == [next EXCEPT !.made = call[c].made]
  <2>3. /\ r \in CallStates /\ r.used = Incomplete /\ r.row = "none" /\ r.outcome = "none"
        /\ ~r.spent /\ r.got = "none"
        /\ \/ r.pc = "idle" /\ ~r.follows
           \/ r.pc = "ready" /\ r.asked = call[c].asked /\ r.follows = call[c].follows
    <3>1. CASE next = Idle
      BY <1>1, <2>2, <3>1 DEF CallOK, CallStates, Idle
    <3>2. CASE next = [Idle EXCEPT !.pc = "ready", !.asked = call[c].asked, !.follows = call[c].follows]
      <4>1. next \in CallStates
        BY <1>1, <2>2, <3>2 DEF CallOK, CallStates
      <4>2. /\ next.used = Incomplete /\ next.row = "none" /\ next.outcome = "none" /\ ~next.spent
            /\ next.got = "none" /\ next.pc = "ready" /\ next.asked = call[c].asked /\ next.follows = call[c].follows
        BY <3>2 DEF Idle
      <4> HIDE <3>2
      <4> QED
        BY <1>1, <4>1, <4>2 DEF CallStates
    <3> QED
      BY <2>1, <3>1, <3>2
  <2> HIDE DEF r
  <2>4. AsksOK(r, ever) /\ SettingsOK(r, ever) /\ RowOK(r)
    BY <1>1, <2>1, <2>3 DEF AsksOK, SettingsOK, RowOK, Before
  <2> QED
    BY <2>1, <2>3, <2>4, OnlyKeeps DEF CallOK, r
<1> QED
  BY <1>3, <1>4, <1>5, <1>6

LEMMA QueryKeeps ==
  ASSUME IInv, NEW c \in Callers, Query(c)
  PROVE  IInv'
<1> DEFINE r == [call[c] EXCEPT !.pc = "rows", !.rows = settings]
<1>1. /\ call[c] \in CallStates /\ AsksOK(call[c], ever) /\ SettingsOK(call[c], ever) /\ RowOK(call[c])
      /\ settings \in Rows /\ call[c].pc = "query" /\ settings \in call[c].seen /\ Only(c, r)
  BY DEF IInv, CallOK, DefaultsKnown, QueriesSeeTheSettings, Query
<1>2. r \in CallStates
  BY <1>1 DEF CallStates
<1>3. /\ r.pc = "rows" /\ r.rows = settings /\ r.seen = call[c].seen /\ r.used = Incomplete
      /\ r.asked = call[c].asked /\ r.follows = call[c].follows
  BY <1>1 DEF CallStates, SettingsOK
<1>4. RowOK(r)
  BY <1>1 DEF CallStates, RowOK, Before
<1> HIDE DEF r
<1>5. AsksOK(r, ever) /\ SettingsOK(r, ever)
  BY <1>1, <1>3 DEF AsksOK, SettingsOK
<1> QED
  BY <1>1, <1>2, <1>3, <1>4, <1>5, OnlyKeeps DEF CallOK

(* A step after the lookup leaves what was asked and with what.            *)
SameRequest(r, q) ==
  /\ r.used = q.used /\ r.seen = q.seen /\ r.kind = q.kind
  /\ r.sent = q.sent /\ r.asked = q.asked /\ r.follows = q.follows

LEMMA LogStepKeeps ==
  ASSUME IInv, NEW c \in Callers, NEW r \in CallStates, Only(c, r), SameRequest(r, call[c]), RowOK(r),
         call[c].pc # "idle", r.pc \notin {"idle", "ready", "query", "rows"}
  PROVE  IInv'
<1>1. AsksOK(call[c], ever) /\ SettingsOK(call[c], ever)
  BY DEF IInv, CallOK
<1>2. AsksOK(r, ever) /\ SettingsOK(r, ever)
  BY <1>1 DEF SameRequest, AsksOK, SettingsOK
<1> QED
  BY <1>2, OnlyKeeps DEF CallOK

LEMMA ThrowKeeps ==
  ASSUME IInv, NEW c \in Callers, QueryFails(c) \/ RejectRows(c) \/ StartFails(c)
  PROVE  IInv'
<1> DEFINE r == Throw(c)
<1>1. call[c] \in CallStates /\ RowOK(call[c]) /\ Only(c, r) /\ call[c].pc \in {"query", "rows", "start"}
  BY DEF IInv, CallOK, QueryFails, RejectRows, StartFails
<1>2. r \in CallStates /\ r.pc = "end" /\ SameRequest(r, call[c])
  BY <1>1 DEF Throw, CallStates, SameRequest
<1>3. RowOK(r)
  BY <1>1 DEF Throw, CallStates, RowOK, Before
<1> HIDE DEF r
<1> QED
  BY <1>1, <1>2, <1>3, LogStepKeeps

(* What happens to a call from its row on.                                 *)
LEMMA LoggedKeeps ==
  ASSUME IInv, NEW c \in Callers,
         EmbedNothing(c) \/ Start(c) \/ Answers(c) \/ Fails(c) \/ Chunk(c) \/ StreamEnds(c) \/ Leaves(c)
           \/ Finish(c) \/ Fail(c)
  PROVE  IInv'
<1>1. call[c] \in CallStates /\ RowOK(call[c])
  BY DEF IInv, CallOK
<1> DEFINE q == call[c]
<1> USE <1>1 DEF CallStates, SameRequest
<1>2. CASE EmbedNothing(c)
  <2> DEFINE r == [q EXCEPT !.pc = "end", !.got = "answer", !.outcome = "whole"]
  <2>1. Only(c, r) /\ q.pc # "idle" /\ r.pc \notin {"idle", "ready", "query", "rows"}
    BY <1>2 DEF EmbedNothing
  <2>2. r \in CallStates /\ SameRequest(r, q)
    OBVIOUS
  <2>3. RowOK(r)
    BY <1>2 DEF EmbedNothing, RowOK, Before
  <2> HIDE DEF r, CallStates
  <2> QED
    BY <2>1, <2>2, <2>3, LogStepKeeps
<1>3. CASE Start(c)
  <2> DEFINE r == [q EXCEPT !.pc = "external", !.row = "started"]
  <2>1. Only(c, r) /\ q.pc # "idle" /\ r.pc \notin {"idle", "ready", "query", "rows"}
    BY <1>3 DEF Start
  <2>2. r \in CallStates /\ SameRequest(r, q)
    OBVIOUS
  <2>3. RowOK(r)
    BY <1>3 DEF Start, RowOK, Before
  <2> HIDE DEF r, CallStates
  <2> QED
    BY <2>1, <2>2, <2>3, LogStepKeeps
<1>4. CASE Answers(c)
  <2>1. CASE q.kind = "stream"
    <3> DEFINE r == [q EXCEPT !.pc = "stream", !.spent = TRUE]
    <3>1. Only(c, r) /\ q.pc # "idle" /\ r.pc \notin {"idle", "ready", "query", "rows"}
      BY <1>4, <2>1 DEF Answers
    <3>2. r \in CallStates /\ SameRequest(r, q)
      OBVIOUS
    <3>3. RowOK(r)
      BY <1>4 DEF Answers, RowOK, Before
    <3> HIDE DEF r, CallStates
    <3> QED
      BY <3>1, <3>2, <3>3, LogStepKeeps
  <2>2. CASE q.kind # "stream"
    <3> DEFINE r == [q EXCEPT !.pc = "finish", !.spent = TRUE, !.chunks = 1, !.outcome = "whole"]
    <3>1. Only(c, r) /\ q.pc # "idle" /\ r.pc \notin {"idle", "ready", "query", "rows"}
      BY <1>4, <2>2 DEF Answers
    <3>2. r \in CallStates /\ SameRequest(r, q)
      OBVIOUS
    <3>3. RowOK(r)
      BY <1>4 DEF Answers, RowOK, Before
    <3> HIDE DEF r, CallStates
    <3> QED
      BY <3>1, <3>2, <3>3, LogStepKeeps
  <2> QED
    BY <2>1, <2>2
<1>5. CASE Fails(c)
  <2> DEFINE r == [q EXCEPT !.pc = "fail", !.spent = TRUE, !.outcome = "broken"]
  <2>1. Only(c, r) /\ q.pc # "idle" /\ r.pc \notin {"idle", "ready", "query", "rows"}
    BY <1>5 DEF Fails
  <2>2. r \in CallStates /\ SameRequest(r, q)
    OBVIOUS
  <2>3. RowOK(r)
    BY <1>5 DEF Fails, RowOK, Before
  <2> HIDE DEF r, CallStates
  <2> QED
    BY <2>1, <2>2, <2>3, LogStepKeeps
<1>6. CASE Chunk(c)
  <2> DEFINE r == [q EXCEPT !.chunks = @ + 1]
  <2>1. Only(c, r) /\ q.pc # "idle" /\ r.pc \notin {"idle", "ready", "query", "rows"}
    BY <1>6 DEF Chunk
  <2>2. r \in CallStates /\ SameRequest(r, q)
    OBVIOUS
  <2>3. RowOK(r)
    BY <1>6 DEF Chunk, RowOK, Before
  <2> HIDE DEF r, CallStates
  <2> QED
    BY <2>1, <2>2, <2>3, LogStepKeeps
<1>7. CASE StreamEnds(c)
  <2> DEFINE r == [q EXCEPT !.pc = "finish", !.outcome = "whole"]
  <2>1. Only(c, r) /\ q.pc # "idle" /\ r.pc \notin {"idle", "ready", "query", "rows"}
    BY <1>7 DEF StreamEnds
  <2>2. r \in CallStates /\ SameRequest(r, q)
    OBVIOUS
  <2>3. RowOK(r)
    BY <1>7 DEF StreamEnds, RowOK, Before
  <2> HIDE DEF r, CallStates
  <2> QED
    BY <2>1, <2>2, <2>3, LogStepKeeps
<1>8. CASE Leaves(c)
  <2> DEFINE r == [q EXCEPT !.pc = "fail", !.outcome = "left"]
  <2>1. Only(c, r) /\ q.pc # "idle" /\ r.pc \notin {"idle", "ready", "query", "rows"}
    BY <1>8 DEF Leaves
  <2>2. r \in CallStates /\ SameRequest(r, q)
    OBVIOUS
  <2>3. RowOK(r)
    BY <1>8 DEF Leaves, RowOK, Before
  <2> HIDE DEF r, CallStates
  <2> QED
    BY <2>1, <2>2, <2>3, LogStepKeeps
<1>9. CASE Finish(c)
  <2>1. PICK written \in BOOLEAN, got \in {"answer", "error"} :
          /\ q.pc = "finish"
          /\ Only(c, [q EXCEPT !.pc = "end", !.got = got,
                            !.row = IF written THEN "succeeded" ELSE @, !.logged = IF written THEN q.chunks ELSE @])
    BY <1>9 DEF Finish, Received, Closed, Response
  <2> DEFINE r == [q EXCEPT !.pc = "end", !.got = got,
                            !.row = IF written THEN "succeeded" ELSE @, !.logged = IF written THEN q.chunks ELSE @]
  <2>2. r \in CallStates /\ SameRequest(r, q) /\ r.pc = "end"
    <3>1. CASE written
      <4>1. r = [q EXCEPT !.pc = "end", !.got = got, !.row = "succeeded", !.logged = q.chunks]
        BY <3>1
      <4> HIDE DEF r
      <4> QED
        BY <4>1
    <3>2. CASE ~written
      <4>1. r = [q EXCEPT !.pc = "end", !.got = got, !.row = q.row, !.logged = q.logged]
        BY <3>2
      <4> HIDE DEF r
      <4> QED
        BY <4>1
    <3> QED
      BY <3>1, <3>2
  <2>3. RowOK(r)
    BY <2>1 DEF RowOK, Before
  <2> HIDE DEF r, CallStates
  <2> QED
    BY <2>1, <2>2, <2>3, LogStepKeeps DEF r
<1>10. CASE Fail(c)
  <2>1. PICK written \in BOOLEAN :
          /\ q.pc = "fail"
          /\ Only(c, [q EXCEPT !.pc = "end", !.got = "error", !.row = IF written THEN "failed" ELSE @])
    BY <1>10 DEF Fail, Closed
  <2> DEFINE r == [q EXCEPT !.pc = "end", !.got = "error", !.row = IF written THEN "failed" ELSE @]
  <2>2. r \in CallStates /\ SameRequest(r, q) /\ r.pc = "end"
    OBVIOUS
  <2>3. RowOK(r)
    BY <2>1 DEF RowOK, Before
  <2> HIDE DEF r, CallStates
  <2> QED
    BY <2>1, <2>2, <2>3, LogStepKeeps DEF r
<1> QED
  BY <1>2, <1>3, <1>4, <1>5, <1>6, <1>7, <1>8, <1>9, <1>10

LEMMA ChangeKeeps == ASSUME IInv, ChangeSettings PROVE IInv'
<1>1. PICK next \in Rows :
        /\ settings' = next
        /\ call' = [c \in Callers |-> IF call[c].pc \in {"query", "rows"}
                                      THEN [call[c] EXCEPT !.seen = @ \cup {next}] ELSE call[c]]
  BY DEF ChangeSettings, Rows
<1>2. DefaultsKnown' /\ ever' = ever
  BY <1>1 DEF ChangeSettings, DefaultsKnown, IInv
<1>3. ASSUME NEW c \in Callers PROVE CallOK(call'[c], ever) /\ (call'[c].pc = "query" => next \in call'[c].seen)
  <2>1. CallOK(call[c], ever)
    BY DEF IInv
  <2>2. CASE call[c].pc \in {"query", "rows"}
    <3> DEFINE r == [call[c] EXCEPT !.seen = @ \cup {next}]
    <3>1. call'[c] = r
      BY <1>1, <2>2
    <3>2. r \in CallStates /\ AsksOK(r, ever) /\ SettingsOK(r, ever) /\ RowOK(r) /\ next \in r.seen
      BY <2>1, <2>2 DEF CallOK, CallStates, AsksOK, SettingsOK, RowOK, Before
    <3> QED
      BY <3>1, <3>2 DEF CallOK
  <2>3. CASE call[c].pc \notin {"query", "rows"}
    BY <1>1, <2>1, <2>3
  <2> QED
    BY <2>2, <2>3
<1> QED
  BY <1>1, <1>2, <1>3 DEF IInv, QueriesSeeTheSettings

LEMMA Keeps == IInv /\ [LlmNext]_llmVars => IInv'
<1> SUFFICES ASSUME IInv, [LlmNext]_llmVars PROVE IInv'
  OBVIOUS
<1>1. ASSUME NEW c \in Callers, Step(c) PROVE IInv'
  BY <1>1, CallerKeeps, QueryKeeps, ThrowKeeps, InstallKeeps, LoggedKeeps DEF Step
<1>2. CASE UNCHANGED llmVars
  BY <1>2 DEF llmVars, IInv, DefaultsKnown, QueriesSeeTheSettings
<1> QED
  BY <1>1, <1>2, ChangeKeeps DEF LlmNext

-----------------------------------------------------------------------------
(* However the settings change and the calls overlap, a caller of the      *)
(* default model is served with the default of its call's own settings.    *)
THEOREM TheDefaultIsFollowed == LlmSpec => []DefaultsAreFollowed
  BY Initially, Keeps, InvariantSuffices, PTL DEF LlmSpec

(* No call is made with settings that were gone before it began.           *)
THEOREM SettingsAreCurrent == LlmSpec => []ProviderIsCurrent
  BY Initially, Keeps, InvariantSuffices, PTL DEF LlmSpec

(* The log row of every call agrees with what became of it.                *)
THEOREM TheLogIsTrue == LlmSpec => []StatusTellsTheOutcome
  BY Initially, Keeps, InvariantSuffices, PTL DEF LlmSpec
=============================================================================
