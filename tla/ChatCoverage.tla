---------------------------- MODULE ChatCoverage ----------------------------
(***************************************************************************)
(* A session's chat turns, the policy that batches them into jobs and the  *)
(* summary those jobs refresh: prepare and postTurn of                     *)
(* src/chat/chat-service.ts, src/chat/consolidation-policy.ts and          *)
(* SessionSummary.                                                         *)
(*                                                                         *)
(* A turn reads the summary's watermark before the model is called and     *)
(* uses it after the reply was streamed; other turns and consolidations    *)
(* run in between. A client shows a reply before postTurn has run, retries *)
(* a turn whose answer it did not get, and sends only the newest part of   *)
(* the conversation when it likes. A job's key is its turn's id.           *)
(***************************************************************************)
EXTENDS SessionSummary, ConsolidationPolicy

CONSTANT
  MaxFailures  \* bound: lost answers; requests and consolidations that fail

ASSUME ChatAssumption ==
  /\ Legacy = {}
  /\ Threshold \in Nat \ {0}
  /\ MaxFailures \in Nat

VARIABLES
  said,      \* messages of the session the client holds
  turn,      \* the turns the Agent is answering
  enqueued,  \* keys in the queue's table
  failures

chat == <<said, turn, enqueued>>
chatVars == <<vars, chat, failures>>

(* from: position of the turn's user message; offset: x-opod-history-      *)
(* offset; claimed: turnsCovered of the summary that was read; latest: the *)
(* messages of the exchange once it is answered.                           *)
Turns == [from: 0..Messages, offset: 0..Messages, claimed: 0..Messages, latest: 0..2]
NoTurn == [from |-> 0, offset |-> 0, claimed |-> 0, latest |-> 3]

TurnsOK ==
  /\ turn \in [Jobs -> Turns \cup {NoTurn}]
  /\ \A t \in Jobs : turn[t] # NoTurn =>
       turn[t].offset <= turn[t].from /\ turn[t].from + 2 <= Messages

ChatInit ==
  /\ Init
  /\ said = 0
  /\ turn = [t \in Jobs |-> NoTurn]
  /\ enqueued = {}
  /\ failures = 0

-----------------------------------------------------------------------------
(* prepare: the request is sent and the summary read, or its read fails    *)
(* and counts as no summary.                                               *)
Prepare(t, offset, fetched) ==
  /\ turn[t] = NoTurn
  /\ said + 2 <= Messages /\ offset <= said
  /\ turn' = [turn EXCEPT ![t] =
       [from |-> said, offset |-> offset, latest |-> 0,
        claimed |-> IF fetched THEN summary.turnsCovered ELSE 0]]
  /\ UNCHANGED <<vars, said, enqueued, failures>>

(* The reply, blank or not, is complete and the client has been shown it.  *)
Reply(t, latest) ==
  LET end == turn[t].from + latest IN
    /\ turn[t] # NoTurn /\ turn[t].latest = 0
    /\ turn' = [turn EXCEPT ![t].latest = latest]
    /\ said' = IF end > said THEN end ELSE said
    /\ UNCHANGED <<vars, enqueued, failures>>

(* A reply that is not streamed is sent after postTurn; the client may     *)
(* never get it and asks again.                                            *)
ReplyUnheard(t, latest) ==
  /\ turn[t] # NoTurn /\ turn[t].latest = 0 /\ failures < MaxFailures
  /\ failures' = failures + 1
  /\ turn' = [turn EXCEPT ![t].latest = latest]
  /\ UNCHANGED <<vars, said, enqueued>>

(* postTurn: the decision, and the INSERT that ignores a key it knows. A   *)
(* memorable exchange beyond a gap becomes a job that leaves the summary   *)
(* alone.                                                                  *)
PostTurn(t, memorable) ==
  LET u == turn[t]
      refresh == ~HasGap(u) /\ (memorable \/ SummaryStale(u))
      latestOnly == HasGap(u) /\ memorable
  IN /\ u # NoTurn /\ u.latest # 0
     /\ turn' = [turn EXCEPT ![t] = NoTurn]
     /\ enqueued' = IF refresh \/ latestOnly THEN enqueued \cup {t} ELSE enqueued
     /\ IF refresh /\ t \notin enqueued THEN Submit(t, RefreshRun(u))
                                        ELSE UNCHANGED vars
     /\ UNCHANGED <<said, failures>>

(* The request fails, before or after the reply was shown, or the INSERT   *)
(* does: nothing is enqueued and the client may send the turn again.       *)
Drop(t) ==
  /\ turn[t] # NoTurn /\ failures < MaxFailures
  /\ failures' = failures + 1
  /\ turn' = [turn EXCEPT ![t] = NoTurn]
  /\ UNCHANGED <<vars, said, enqueued>>

(* The consolidations of the session, SessionSummary's own actions.        *)
Start(c) == (\E j \in Jobs : Begin(c, j)) /\ UNCHANGED <<chat, failures>>
Continue(c) == Step(c) /\ UNCHANGED <<chat, failures>>
Falter(c) ==
  /\ failures < MaxFailures /\ Fail(c)
  /\ failures' = failures + 1
  /\ UNCHANGED chat

ChatNext ==
  \/ \E t \in Jobs :
       \/ \E offset \in 0..Messages, fetched \in BOOLEAN : Prepare(t, offset, fetched)
       \/ \E latest \in 1..2 : Reply(t, latest) \/ ReplyUnheard(t, latest)
       \/ \E memorable \in BOOLEAN : PostTurn(t, memorable)
       \/ Drop(t)
  \/ \E c \in Consolidators : Start(c) \/ Continue(c) \/ Falter(c)

(* A consolidation under way runs to its end, and the worker keeps coming  *)
(* back to a job that has not completed; nothing is assumed of the chat.   *)
ChatFairness ==
  /\ \A c \in Consolidators : WF_chatVars(Continue(c))
  /\ \A j \in Jobs :
       SF_chatVars(\E c \in Consolidators : Begin(c, j) /\ UNCHANGED <<chat, failures>>)

ChatSpec == ChatInit /\ [][ChatNext]_chatVars
FairChatSpec == ChatSpec /\ ChatFairness

-----------------------------------------------------------------------------
(* "Callers cannot accidentally create gaps while batching": no job the    *)
(* policy made is ever refused for a gap, however stale the watermark its  *)
(* turn had read.                                                          *)
NeverMeetsAGap ==
  \A c \in Consolidators :
    pc[c] = "reading" => ~Gap(job[c], summary.turnsCovered)

(* A turn whose window reaches back to the watermark it read leaves fewer  *)
(* than Threshold messages uncovered, or a job that will cover them, unless*)
(* its key was spent by an earlier attempt. (With a threshold of 1 the     *)
(* exchange after a blank reply may be left out, see README.)              *)
Owed(t) ==
  LET u == turn[t] IN
    ConversationEnd(u) - summary.turnsCovered < Threshold
      \/ \E j \in Jobs : /\ Submitted(j)'
                         /\ source'[j].first <= summary.turnsCovered
                         /\ End(j)' >= ConversationEnd(u)

BacklogIsQueued ==
  [][\A t \in Jobs, memorable \in BOOLEAN :
       PostTurn(t, memorable) /\ turn[t].offset <= turn[t].claimed /\ t \notin enqueued
         => Owed(t)]_chatVars

(* Every refresh the policy asked for lands: its turns end up under the    *)
(* watermark.                                                              *)
EveryRefreshLands ==
  \A j \in Jobs : Submitted(j) ~> summary.turnsCovered >= End(j)

(* Composed with the chat, the summary still does only what SessionSummary *)
(* allows it.                                                              *)
SummaryModule == Spec

=============================================================================
