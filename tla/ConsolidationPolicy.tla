------------------------ MODULE ConsolidationPolicy ------------------------
(***************************************************************************)
(* src/chat/consolidation-policy.ts: whether a finished exchange sends the *)
(* session to consolidation, and from where.                               *)
(*                                                                         *)
(* An exchange u is a record with from: position of its user message in    *)
(* the session; latest: its messages; offset: x-opod-history-offset, the   *)
(* messages the request left out; claimed: turnsCovered of the summary the *)
(* turn read.                                                              *)
(***************************************************************************)
EXTENDS Integers

CONSTANT Threshold   \* config.summaryTurnThreshold, 8 in the code

Conversation(u) == u.from + u.latest - u.offset
ConversationEnd(u) == u.offset + Conversation(u)
MaxSafeCovered(u) ==
  LET before == Conversation(u) - u.latest
  IN  u.offset + (IF before > 0 THEN before ELSE 0)

HasGap(u) == u.claimed < u.offset \/ u.claimed > MaxSafeCovered(u)

(* Mutant: only the latest exchange is sent to the summary.                *)
RefreshRunLatest(u) == [first |-> ConversationEnd(u) - u.latest, size |-> u.latest]

(* The turns after the watermark that was read.                            *)
RefreshRun(u) == [first |-> u.claimed, size |-> ConversationEnd(u) - u.claimed]

(* Mutant: a full batch is not enough.                                     *)
SummaryStaleBeyond(u) == RefreshRun(u).size > Threshold

SummaryStale(u) == RefreshRun(u).size >= Threshold

=============================================================================
