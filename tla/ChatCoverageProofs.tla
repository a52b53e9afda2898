------------------------- MODULE ChatCoverageProofs -------------------------
(***************************************************************************)
(* The chat's policy over the summary it reads: for any threshold, number  *)
(* of turns and consolidations, no job meets a gap and the summary is the  *)
(* digest of a growing prefix of the conversation.                         *)
(***************************************************************************)
EXTENDS ChatCoverage, SessionSummaryProofs

(* No watermark that was read, and no run made from one, is ahead of the   *)
(* summary, which stays inside the conversation.                           *)
Behind ==
  /\ \A t \in Jobs : turn[t] # NoTurn => turn[t].claimed <= summary.turnsCovered
  /\ \A j \in Jobs : Submitted(j) => source[j].first <= summary.turnsCovered
  /\ summary.turnsCovered <= Messages

ChatInv == TypeOK /\ Known /\ TurnsOK /\ Behind /\ said \in 0..Messages

(* One turn of the chat takes a step.                                      *)
Served(t) ==
  \/ \E offset \in 0..Messages, fetched \in BOOLEAN : Prepare(t, offset, fetched)
  \/ \E latest \in 1..2 : Reply(t, latest) \/ ReplyUnheard(t, latest)
  \/ \E memorable \in BOOLEAN : PostTurn(t, memorable)
  \/ Drop(t)

(* The run of a turn without a gap is one SessionSummary knows.            *)
LEMMA RefreshRunFits ==
  ASSUME TurnsOK, NEW t \in Jobs, turn[t] # NoTurn, turn[t].latest # 0,
         ~HasGap(turn[t])
  PROVE  /\ RefreshRun(turn[t]) \in Runs
         /\ RefreshRun(turn[t]).first = turn[t].claimed
<1> DEFINE u == turn[t]
<1>1. /\ u.from \in 0..Messages /\ u.offset \in 0..Messages
      /\ u.claimed \in 0..Messages /\ u.latest \in 0..2
      /\ u.offset <= u.from /\ u.from + 2 <= Messages
  BY DEF TurnsOK, Turns
<1>2. u.latest \in 1..2
  BY <1>1
<1>3. MaxSafeCovered(u) = u.from
  BY <1>1, SummaryAssumption DEF MaxSafeCovered, Conversation
<1>4. u.claimed <= u.from
  BY <1>1, <1>3, SummaryAssumption DEF HasGap
<1>5. ConversationEnd(u) = u.from + u.latest
  BY <1>1, SummaryAssumption DEF ConversationEnd, Conversation
<1> HIDE DEF u
<1>6. RefreshRun(u) = [first |-> u.claimed, size |-> (u.from + u.latest) - u.claimed]
  BY <1>5, Zenon DEF RefreshRun
<1>7. u.from + u.latest - u.claimed \in 1..Messages
  BY <1>1, <1>2, <1>4, SummaryAssumption
<1>8. u.claimed + (u.from + u.latest - u.claimed) <= Messages
  BY <1>1, <1>2, <1>4, SummaryAssumption
<1>9. RefreshRun(u) \in Runs
  BY <1>1, <1>6, <1>7, <1>8 DEF Runs
<1> QED
  BY <1>6, <1>9 DEF u

(* Every step of the composition is a step of SessionSummary or leaves the *)
(* summary's side alone.                                                   *)
LEMMA ChatStepIsSummaryStep ==
  ASSUME TurnsOK, [ChatNext]_chatVars
  PROVE  [Next]_vars
<1>1. CASE UNCHANGED chatVars
  BY <1>1 DEF chatVars
<1>2. ASSUME NEW t \in Jobs, NEW memorable \in BOOLEAN, PostTurn(t, memorable)
      PROVE  [Next]_vars
  <2>1. CASE UNCHANGED vars
    BY <2>1
  <2>2. CASE ~UNCHANGED vars
    <3>1. /\ turn[t] # NoTurn /\ turn[t].latest # 0 /\ ~HasGap(turn[t])
          /\ Submit(t, RefreshRun(turn[t]))
      BY <1>2, <2>2 DEF PostTurn
    <3>2. RefreshRun(turn[t]) \in Runs
      BY <3>1, RefreshRunFits
    <3> QED
      BY <3>1, <3>2 DEF Next
  <2> QED
    BY <2>1, <2>2
<1>3. ASSUME NEW c \in Consolidators, Start(c) \/ Continue(c) \/ Falter(c)
      PROVE  [Next]_vars
  BY <1>3 DEF Start, Continue, Falter, Next, Refresh
<1> QED
  BY <1>1, <1>2, <1>3 DEF ChatNext, Prepare, Reply, ReplyUnheard, Drop

(* The chat's own types are kept.                                          *)
LEMMA TurnsStep ==
  ASSUME ChatInv, [ChatNext]_chatVars
  PROVE  TurnsOK' /\ (said \in 0..Messages)'
<1>1. CASE UNCHANGED chatVars
  BY <1>1 DEF ChatInv, TurnsOK, chatVars, chat
<1>2. ASSUME NEW t \in Jobs, turn' = [turn EXCEPT ![t] = NoTurn], said' = said
      PROVE  TurnsOK' /\ (said \in 0..Messages)'
  BY <1>2 DEF ChatInv, TurnsOK
<1>3. ASSUME NEW t \in Jobs, NEW offset \in 0..Messages, NEW fetched \in BOOLEAN,
             Prepare(t, offset, fetched)
      PROVE  TurnsOK' /\ (said \in 0..Messages)'
  <2> DEFINE watermark == IF fetched THEN summary.turnsCovered ELSE 0
             u == [from |-> said, offset |-> offset, latest |-> 0, claimed |-> watermark]
  <2>1. summary.turnsCovered \in Nat
    BY DEF ChatInv, TypeOK, RowsOK, Summaries
  <2>2. watermark \in 0..Messages
    BY <2>1, SummaryAssumption DEF ChatInv, Behind
  <2>3. said \in 0..Messages /\ said + 2 <= Messages /\ offset <= said
    BY <1>3 DEF ChatInv, Prepare
  <2>4. turn' = [turn EXCEPT ![t] = u] /\ said' = said
    BY <1>3 DEF Prepare
  <2> HIDE DEF watermark
  <2>5. u \in Turns
    BY <2>2, <2>3 DEF Turns
  <2>6. u.offset <= u.from /\ u.from + 2 <= Messages
    BY <2>3
  <2> HIDE DEF u
  <2> QED
    BY <2>3, <2>4, <2>5, <2>6 DEF ChatInv, TurnsOK
<1>4. ASSUME NEW t \in Jobs, NEW latest \in 1..2,
             turn[t] # NoTurn, turn' = [turn EXCEPT ![t].latest = latest],
             said' = said \/ said' = turn[t].from + latest
      PROVE  TurnsOK' /\ (said \in 0..Messages)'
  <2> DEFINE u == turn[t]  v == [u EXCEPT !.latest = latest]
  <2>1. u \in Turns /\ u.offset <= u.from /\ u.from + 2 <= Messages
    BY <1>4 DEF ChatInv, TurnsOK
  <2>2. v \in Turns /\ v.offset = u.offset /\ v.from = u.from
    BY <2>1 DEF Turns
  <2>3. turn' = [turn EXCEPT ![t] = v]
    BY <1>4
  <2>4. u.from \in 0..Messages
    BY <2>1 DEF Turns
  <2>5. u.from + latest \in 0..Messages
    BY <2>1, <2>4, SummaryAssumption
  <2>6. (said \in 0..Messages)'
    BY <1>4, <2>5 DEF ChatInv
  <2> HIDE DEF u, v
  <2>7. TurnsOK'
    BY <2>1, <2>2, <2>3 DEF ChatInv, TurnsOK
  <2> QED
    BY <2>6, <2>7
<1>5. ASSUME NEW t \in Jobs, NEW latest \in 1..2, Reply(t, latest)
      PROVE  TurnsOK' /\ (said \in 0..Messages)'
  BY <1>4, <1>5 DEF Reply
<1>6. ASSUME NEW t \in Jobs, NEW latest \in 1..2, ReplyUnheard(t, latest)
      PROVE  TurnsOK' /\ (said \in 0..Messages)'
  BY <1>4, <1>6 DEF ReplyUnheard
<1>7. ASSUME NEW t \in Jobs, NEW memorable \in BOOLEAN, PostTurn(t, memorable)
      PROVE  TurnsOK' /\ (said \in 0..Messages)'
  BY <1>2, <1>7 DEF PostTurn
<1>8. ASSUME NEW t \in Jobs, Drop(t)
      PROVE  TurnsOK' /\ (said \in 0..Messages)'
  BY <1>2, <1>8 DEF Drop
<1>9. ASSUME NEW c \in Consolidators, Start(c) \/ Continue(c) \/ Falter(c)
      PROVE  TurnsOK' /\ (said \in 0..Messages)'
  BY <1>9 DEF Start, Continue, Falter, ChatInv, TurnsOK, chat
<1> QED
  BY <1>1, <1>3, <1>5, <1>6, <1>7, <1>8, <1>9 DEF ChatNext

-----------------------------------------------------------------------------
(* The watermark never falls, and stays inside the conversation.           *)
LEMMA WatermarkRises ==
  ASSUME ChatInv, [Next]_vars
  PROVE  /\ summary.turnsCovered \in Nat /\ summary'.turnsCovered \in Nat
         /\ summary.turnsCovered <= summary'.turnsCovered
         /\ summary'.turnsCovered <= Messages
<1>1. summary.turnsCovered \in Nat /\ summary.turnsCovered <= Messages
  BY DEF ChatInv, Behind, TypeOK, RowsOK, Summaries
<1>2. CASE WritesNothing
  BY <1>1, <1>2 DEF WritesNothing
<1>3. ASSUME NEW c \in Consolidators, Save(c)
      PROVE  /\ summary'.turnsCovered \in Nat
             /\ summary.turnsCovered <= summary'.turnsCovered
             /\ summary'.turnsCovered <= Messages
  <2>1. /\ job[c] \in Jobs /\ Submitted(job[c])
        /\ summary' = Merged(job[c], summary)
        /\ summary' \in Summaries
        /\ summary'.turnsCovered > summary.turnsCovered
    BY <1>3, SavedRow DEF ChatInv
  <2>2. job[c] \notin Legacy
    BY ChatAssumption
  <2>3. summary'.turnsCovered = End(job[c])
    BY <2>1, <2>2 DEF Merged
  <2>4. source[job[c]] \in Runs
    BY <2>1 DEF ChatInv, TypeOK, RowsOK, Submitted
  <2>5. End(job[c]) <= Messages
    BY <2>4 DEF Runs, End
  <2>6. summary'.turnsCovered \in Nat
    BY <2>1 DEF Summaries
  <2> QED
    BY <1>1, <2>1, <2>3, <2>5, <2>6
<1> QED
  BY <1>1, <1>2, <1>3, OnlySavesWrite

(* Once it is behind the watermark, a claim or a run stays behind it; new  *)
(* ones are made from the watermark as it stands or stood.                 *)
LEMMA BehindStep ==
  ASSUME ChatInv, TurnsOK', [ChatNext]_chatVars
  PROVE  Behind'
<1>1. [Next]_vars
  BY ChatStepIsSummaryStep DEF ChatInv
<1>2. /\ summary.turnsCovered \in Nat /\ summary'.turnsCovered \in Nat
      /\ summary.turnsCovered <= summary'.turnsCovered
      /\ summary'.turnsCovered <= Messages
  BY <1>1, WatermarkRises
<1>3. \A t \in Jobs : turn[t] # NoTurn => turn[t].claimed <= summary'.turnsCovered
  <2> TAKE t \in Jobs
  <2> HAVE turn[t] # NoTurn
  <2>1. turn[t].claimed \in 0..Messages
    BY DEF ChatInv, TurnsOK, Turns
  <2>2. turn[t].claimed <= summary.turnsCovered
    BY DEF ChatInv, Behind
  <2> QED
    BY <1>2, <2>1, <2>2, SummaryAssumption
<1>4. ASSUME NEW t \in Jobs, turn'[t] # NoTurn
      PROVE  turn'[t].claimed <= summary'.turnsCovered
  <2>1. CASE turn'[t] = turn[t]
    BY <1>3, <1>4, <2>1
  <2>2. ASSUME NEW offset \in 0..Messages, NEW fetched \in BOOLEAN,
               Prepare(t, offset, fetched)
        PROVE  turn'[t].claimed <= summary'.turnsCovered
    <3>1. turn'[t].claimed = IF fetched THEN summary.turnsCovered ELSE 0
      BY <2>2 DEF Prepare, ChatInv, TurnsOK
    <3> QED
      BY <1>2, <3>1
  <2>3. ASSUME NEW latest \in 1..2, Reply(t, latest) \/ ReplyUnheard(t, latest)
        PROVE  turn'[t].claimed <= summary'.turnsCovered
    <3>1. turn'[t] = [turn[t] EXCEPT !.latest = latest] /\ turn[t] # NoTurn
      BY <2>3 DEF Reply, ReplyUnheard, ChatInv, TurnsOK
    <3>2. turn[t] \in Turns
      BY <3>1 DEF ChatInv, TurnsOK
    <3>3. turn'[t].claimed = turn[t].claimed
      BY <3>1, <3>2 DEF Turns
    <3> QED
      BY <1>3, <3>1, <3>3
  <2>4. \/ turn'[t] = turn[t]
        \/ \E offset \in 0..Messages, fetched \in BOOLEAN : Prepare(t, offset, fetched)
        \/ \E latest \in 1..2 : Reply(t, latest) \/ ReplyUnheard(t, latest)
    <3>1. ASSUME NEW s \in Jobs, NEW u, turn' = [turn EXCEPT ![s] = u]
          PROVE  turn'[t] = turn[t] \/ s = t
      BY <3>1 DEF ChatInv, TurnsOK
    <3>2. turn'[t] = turn[t] \/ Served(t)
      <4>1. CASE UNCHANGED chatVars
        BY <4>1 DEF chatVars, chat
      <4>2. CASE \E c \in Consolidators : Start(c) \/ Continue(c) \/ Falter(c)
        BY <4>2 DEF Start, Continue, Falter, chat
      <4>3. ASSUME NEW s \in Jobs, NEW offset \in 0..Messages, NEW fetched \in BOOLEAN,
                   Prepare(s, offset, fetched)
            PROVE  turn'[t] = turn[t] \/ s = t
        BY <3>1, <4>3 DEF Prepare
      <4>4. ASSUME NEW s \in Jobs, NEW latest \in 1..2,
                   Reply(s, latest) \/ ReplyUnheard(s, latest)
            PROVE  turn'[t] = turn[t] \/ s = t
        <5>1. turn' = [turn EXCEPT ![s] = [turn[s] EXCEPT !.latest = latest]]
          BY <4>4 DEF Reply, ReplyUnheard
        <5> QED
          BY <3>1, <5>1
      <4>5. ASSUME NEW s \in Jobs, NEW memorable \in BOOLEAN, PostTurn(s, memorable)
            PROVE  turn'[t] = turn[t] \/ s = t
        BY <3>1, <4>5 DEF PostTurn
      <4>6. ASSUME NEW s \in Jobs, Drop(s)
            PROVE  turn'[t] = turn[t] \/ s = t
        BY <3>1, <4>6 DEF Drop
      <4> SUFFICES ASSUME turn'[t] # turn[t]
                   PROVE  Served(t)
        OBVIOUS
      <4>7. PICK s \in Jobs : Served(s)
        BY <4>1, <4>2 DEF ChatNext, Served
      <4>8. s = t
        BY <4>3, <4>4, <4>5, <4>6, <4>7 DEF Served
      <4> QED
        BY <4>7, <4>8
    <3>3. ASSUME (\E memorable \in BOOLEAN : PostTurn(t, memorable)) \/ Drop(t)
          PROVE  turn'[t] = NoTurn
      BY <3>3 DEF PostTurn, Drop, ChatInv, TurnsOK
    <3>4. ~((\E memorable \in BOOLEAN : PostTurn(t, memorable)) \/ Drop(t))
      BY <1>4, <3>3
    <3> QED
      BY <3>2, <3>4 DEF Served
  <2> QED
    BY <2>1, <2>2, <2>3, <2>4
<1>5. ASSUME NEW j \in Jobs, Submitted(j)'
      PROVE  source'[j].first <= summary'.turnsCovered
  <2>1. CASE source'[j] = source[j]
    <3>1. Submitted(j)
      BY <1>5, <2>1 DEF Submitted
    <3>2. source[j].first <= summary.turnsCovered /\ source[j].first \in Nat
      BY <3>1, SubmittedRun DEF ChatInv, Behind
    <3> QED
      BY <1>2, <2>1, <3>2
  <2>2. CASE source'[j] # source[j]
    <3>1. PICK t \in Jobs, memorable \in BOOLEAN :
            PostTurn(t, memorable) /\ ~UNCHANGED vars
      <4>1. ASSUME NEW c \in Consolidators, Start(c) \/ Continue(c) \/ Falter(c)
            PROVE  source' = source
        BY <4>1 DEF Start, Continue, Falter, Step, Begin, RefuseGap, FindCovered,
                    Read, SaveDuplicate, Save, SaveConflict, Fail
      <4>2. ASSUME UNCHANGED vars PROVE source' = source
        BY <4>2 DEF vars
      <4> QED
        BY <2>2, <4>1, <4>2
           DEF ChatNext, Prepare, Reply, ReplyUnheard, Drop, chatVars
    <3>2. /\ turn[t] # NoTurn /\ turn[t].latest # 0 /\ ~HasGap(turn[t])
          /\ Submit(t, RefreshRun(turn[t]))
      BY <3>1 DEF PostTurn
    <3>3. RefreshRun(turn[t]).first = turn[t].claimed
      BY <3>2, RefreshRunFits DEF ChatInv
    <3>4. source' = [source EXCEPT ![t] = RefreshRun(turn[t])]
      BY <3>2 DEF Submit
    <3>5. j = t /\ source'[j] = RefreshRun(turn[t])
      BY <2>2, <3>4 DEF ChatInv, TypeOK, RowsOK
    <3> QED
      BY <1>3, <3>2, <3>3, <3>5
  <2> QED
    BY <2>1, <2>2
<1> QED
  BY <1>2, <1>4, <1>5 DEF Behind

(* The composition's inductive invariant.                                  *)
LEMMA ChatInvariant == ChatSpec => []ChatInv
<1>1. ChatInit => ChatInv
  <2> SUFFICES ASSUME ChatInit PROVE ChatInv
    OBVIOUS
  <2>1. TypeOK /\ Known
    BY InitKnown DEF ChatInit
  <2>2. TurnsOK
    BY DEF ChatInit, TurnsOK
  <2>3. Behind
    BY SummaryAssumption DEF ChatInit, Init, Behind, NoSummary, Submitted
  <2>4. said \in 0..Messages
    BY SummaryAssumption DEF ChatInit
  <2> QED
    BY <2>1, <2>2, <2>3, <2>4 DEF ChatInv
<1>2. ChatInv /\ [ChatNext]_chatVars => ChatInv'
  <2> SUFFICES ASSUME ChatInv, [ChatNext]_chatVars PROVE ChatInv'
    OBVIOUS
  <2>1. [Next]_vars
    BY ChatStepIsSummaryStep DEF ChatInv
  <2>2. TypeOK' /\ Known'
    BY <2>1, TypeStep, KnownStep DEF ChatInv
  <2>3. TurnsOK' /\ (said \in 0..Messages)'
    BY TurnsStep
  <2>4. Behind'
    BY <2>3, BehindStep
  <2> QED
    BY <2>2, <2>3, <2>4 DEF ChatInv
<1> QED
  BY <1>1, <1>2, PTL DEF ChatSpec

(* Composed with the chat, the summary takes only SessionSummary's steps:  *)
(* what holds there for all jobs holds here for the policy's.              *)
THEOREM Composition == ChatSpec => SummaryModule
<1>1. ChatInit => Init
  BY DEF ChatInit
<1>2. ChatInv /\ [ChatNext]_chatVars => [Next]_vars
  BY ChatStepIsSummaryStep DEF ChatInv
<1> QED
  BY <1>1, <1>2, ChatInvariant, PTL DEF ChatSpec, Spec, SummaryModule

(* No job of the policy is ever refused for a gap.                         *)
THEOREM NoGap == ChatSpec => []NeverMeetsAGap
<1>1. ChatInv => NeverMeetsAGap
  <2> SUFFICES ASSUME ChatInv, NEW c \in Consolidators, pc[c] = "reading"
               PROVE  ~Gap(job[c], summary.turnsCovered)
    BY DEF NeverMeetsAGap
  <2>1. job[c] \in Jobs /\ Submitted(job[c])
    BY DEF ChatInv, TypeOK, ExecutionsOK, Known, Reader
  <2>2. source[job[c]].first <= summary.turnsCovered
    BY <2>1 DEF ChatInv, Behind
  <2>3. source[job[c]].first \in Nat /\ summary.turnsCovered \in Nat
    BY <2>1, SubmittedRun DEF ChatInv, TypeOK, RowsOK, Summaries
  <2> QED
    BY <2>2, <2>3 DEF Gap
<1> QED
  BY <1>1, ChatInvariant, PTL

(* A turn past the reply whose window reaches back to the watermark it     *)
(* read owes the summary less than a batch, or a job.                      *)
LEMMA PostTurnOwes ==
  ASSUME Threshold >= 2, ChatInv, NEW t \in Jobs, NEW memorable \in BOOLEAN,
         PostTurn(t, memorable), turn[t].offset <= turn[t].claimed, t \notin enqueued
  PROVE  Owed(t)
<1> DEFINE u == turn[t]
<1>1. /\ u # NoTurn /\ u.latest # 0
      /\ u \in Turns /\ u.offset <= u.from /\ u.from + 2 <= Messages
  BY DEF PostTurn, ChatInv, TurnsOK
<1>2. /\ u.from \in Nat /\ u.offset \in Nat /\ u.claimed \in Nat
      /\ u.latest \in 1..2 /\ Threshold \in Nat
  BY <1>1, SummaryAssumption, ChatAssumption DEF Turns
<1>3. /\ summary.turnsCovered \in Nat
      /\ u.claimed <= summary.turnsCovered
  BY <1>1 DEF ChatInv, Behind, TypeOK, RowsOK, Summaries
<1>4. ConversationEnd(u) = u.from + u.latest /\ MaxSafeCovered(u) = u.from
  BY <1>1, <1>2 DEF ConversationEnd, MaxSafeCovered, Conversation
<1>5. CASE HasGap(u)
  <2>1. u.claimed > u.from
    BY <1>2, <1>4, <1>5 DEF HasGap
  <2>2. ConversationEnd(u) - summary.turnsCovered < Threshold
    BY <1>2, <1>3, <1>4, <2>1
  <2> QED
    BY <2>2 DEF Owed
<1>6. CASE ~HasGap(u) /\ ~(memorable \/ SummaryStale(u))
  <2>1. ConversationEnd(u) - u.claimed < Threshold
    BY <1>2, <1>4, <1>6 DEF SummaryStale, RefreshRun
  <2>2. ConversationEnd(u) - summary.turnsCovered < Threshold
    BY <1>2, <1>3, <1>4, <2>1
  <2> QED
    BY <2>2 DEF Owed
<1>7. CASE ~HasGap(u) /\ (memorable \/ SummaryStale(u))
  <2>1. source' = [source EXCEPT ![t] = RefreshRun(u)]
    BY <1>7 DEF PostTurn, Submit
  <2>2. source'[t] = RefreshRun(u)
    BY <2>1 DEF ChatInv, TypeOK, RowsOK
  <2>3. RefreshRun(u) \in Runs /\ RefreshRun(u).first = u.claimed
    BY <1>1, <1>7, RefreshRunFits DEF ChatInv
  <2>4. Submitted(t)'
    BY <2>2, <2>3 DEF Submitted, Runs, NoRun
  <2>5. RefreshRun(u).first + RefreshRun(u).size = ConversationEnd(u)
    BY <1>2, <1>4 DEF RefreshRun
  <2>6. End(t)' >= ConversationEnd(u)
    BY <1>2, <1>4, <2>2, <2>5 DEF End
  <2> QED
    BY <1>3, <2>2, <2>3, <2>4, <2>6 DEF Owed
<1> QED
  BY <1>5, <1>6, <1>7

(* A full backlog is never left without a job: with a threshold above 1,   *)
(* whatever watermark a turn had read.                                     *)
THEOREM BacklogKept == ASSUME Threshold >= 2 PROVE ChatSpec => BacklogIsQueued
<1> DEFINE Kept == \A t \in Jobs, memorable \in BOOLEAN :
                     PostTurn(t, memorable) /\ turn[t].offset <= turn[t].claimed /\ t \notin enqueued
                       => Owed(t)
<1>1. ASSUME ChatInv PROVE Kept
  BY <1>1, PostTurnOwes
<1>2. BacklogIsQueued <=> [][Kept]_chatVars
  BY DEF BacklogIsQueued
<1> HIDE DEF Kept
<1>3. ChatInv /\ [ChatNext]_chatVars => [Kept]_chatVars
  BY <1>1
<1> QED
  BY <1>2, <1>3, ChatInvariant, PTL DEF ChatSpec

(* The summary the chat reads is the digest of a growing prefix.           *)
THEOREM ChatDigest == ChatSpec => GrowingPrefix
<1>1. Spec => GrowingPrefix
  BY Implements, ChatAssumption
<1> QED
  BY <1>1, Composition, PTL DEF SummaryModule

=============================================================================
