--------------------------- MODULE SessionSummary ---------------------------
(***************************************************************************)
(* The recursive summary of one session: refreshSummary of                 *)
(* src/memory/consolidation.ts over getSummary and saveSummary of          *)
(* src/memory/postgres-memory-store.ts.                                    *)
(*                                                                         *)
(* Jobs carry a run of conversation messages and, unless they are old ones *)
(* (Legacy), the position where the run starts. Consolidators are          *)
(* executions of the stage: the worker serialises those of one             *)
(* relationship, POST /memory/consolidate does not, and a job may be       *)
(* delivered again at any time. The model call between the read and the    *)
(* write is where they interleave; the write is one transaction.           *)
(*                                                                         *)
(* The text of a summary is abstracted to the positions of the messages    *)
(* folded into it.                                                         *)
(***************************************************************************)
EXTENDS Integers, Sequences, FiniteSets

CONSTANTS
  Consolidators,  \* concurrent executions of refreshSummary
  Jobs,           \* idempotency keys
  Legacy,         \* jobs without a turnsStartOffset
  NoJob,
  RefreshAttempts, \* the loop bound of refreshSummary, 3 in the code
  Messages        \* bound: length of the conversation

ASSUME SummaryAssumption ==
  /\ IsFiniteSet(Jobs) /\ Legacy \subseteq Jobs
  /\ NoJob \notin Jobs
  /\ RefreshAttempts \in Nat \ {0}
  /\ Messages \in Nat

VARIABLES
  source,     \* the run of messages a submitted job carries
  summary,    \* the row of chat_memory_session_summaries; revision 0 is no row
  ledger,     \* jobs with a row in chat_applied_state_changes
  pc, job,    \* where an execution stands and on which job
  previous,   \* the summary it read
  conflicts,  \* writes it has lost so far, refreshSummary's loop counter
  began       \* history: the revision when it began

execution == <<pc, job, previous, conflicts, began>>
vars == <<source, summary, ledger, execution>>

Runs == {r \in [first: 0..Messages, size: 1..Messages] : r.first + r.size <= Messages}
NoRun == [first |-> 0, size |-> 0]
Summaries == [content: Seq(Nat), turnsCovered: Nat, revision: Nat]
NoSummary == [content |-> <<>>, turnsCovered |-> 0, revision |-> 0]

RowsOK ==
  /\ source \in [Jobs -> Runs \cup {NoRun}]
  /\ summary \in Summaries
  /\ ledger \subseteq Jobs

ExecutionsOK ==
  /\ pc \in [Consolidators -> {"idle", "reading", "saving"}]
  /\ job \in [Consolidators -> Jobs \cup {NoJob}]
  /\ \A c \in Consolidators : pc[c] # "idle" => job[c] \in Jobs
  /\ previous \in [Consolidators -> Summaries]
  /\ conflicts \in [Consolidators -> 0..(RefreshAttempts - 1)]
  /\ began \in [Consolidators -> Nat]

(* The one type invariant, of the rows and of the executions.              *)
TypeOK == RowsOK /\ ExecutionsOK

Init ==
  /\ source = [j \in Jobs |-> NoRun]
  /\ summary = NoSummary
  /\ ledger = {}
  /\ pc = [c \in Consolidators |-> "idle"]
  /\ job = [c \in Consolidators |-> NoJob]
  /\ previous = [c \in Consolidators |-> NoSummary]
  /\ conflicts = [c \in Consolidators |-> 0]
  /\ began = [c \in Consolidators |-> 0]

-----------------------------------------------------------------------------
Positions(from, to) == [i \in 1..(to - from) |-> from + i - 1]
End(j) == source[j].first + source[j].size
Submitted(j) == source[j] # NoRun

(* Mutant: the whole run is folded in again.                               *)
UncoveredWhole(j, covered) == Positions(source[j].first, End(j))

(* turns, or turns.slice(covered - turnsStartOffset).                      *)
Uncovered(j, covered) ==
  Positions(IF j \in Legacy THEN source[j].first ELSE covered, End(j))

Gap(j, covered) == j \notin Legacy /\ covered < source[j].first

NothingNew(j, covered) == Uncovered(j, covered) = <<>>

(* What the model is asked to merge, with the watermark that goes with it. *)
Merged(j, before) ==
  [content |-> before.content \o Uncovered(j, before.turnsCovered),
   turnsCovered |-> IF j \in Legacy THEN before.turnsCovered + source[j].size ELSE End(j),
   revision |-> before.revision + 1]

Return(c) ==
  /\ pc' = [pc EXCEPT ![c] = "idle"]
  /\ job' = [job EXCEPT ![c] = NoJob]
  /\ previous' = [previous EXCEPT ![c] = NoSummary]
  /\ conflicts' = [conflicts EXCEPT ![c] = 0]
  /\ began' = [began EXCEPT ![c] = 0]

-----------------------------------------------------------------------------
(* A job with refreshSummary set enters the system.                        *)
Submit(j, run) ==
  /\ ~Submitted(j)
  /\ source' = [source EXCEPT ![j] = run]
  /\ UNCHANGED <<summary, ledger, execution>>

(* First delivery, redelivery and retry alike.                             *)
Begin(c, j) ==
  /\ pc[c] = "idle" /\ Submitted(j)
  /\ pc' = [pc EXCEPT ![c] = "reading"]
  /\ job' = [job EXCEPT ![c] = j]
  /\ began' = [began EXCEPT ![c] = summary.revision]
  /\ UNCHANGED <<source, summary, ledger, previous, conflicts>>

(* "Summary source range has an unverifiable gap".                         *)
RefuseGap(c) ==
  /\ pc[c] = "reading"
  /\ Gap(job[c], summary.turnsCovered)
  /\ Return(c)
  /\ UNCHANGED <<source, summary, ledger>>

FindCovered(c) ==
  /\ pc[c] = "reading"
  /\ ~Gap(job[c], summary.turnsCovered)
  /\ NothingNew(job[c], summary.turnsCovered)
  /\ Return(c)
  /\ UNCHANGED <<source, summary, ledger>>

Read(c) ==
  /\ pc[c] = "reading"
  /\ ~Gap(job[c], summary.turnsCovered)
  /\ ~NothingNew(job[c], summary.turnsCovered)
  /\ pc' = [pc EXCEPT ![c] = "saving"]
  /\ previous' = [previous EXCEPT ![c] = summary]
  /\ UNCHANGED <<source, summary, ledger, job, conflicts, began>>

(* saveSummary: the ledger row first ...                                   *)
SaveDuplicate(c) ==
  /\ pc[c] = "saving" /\ job[c] \in ledger
  /\ Return(c)
  /\ UNCHANGED <<source, summary, ledger>>

(* Mutant: the ledger is not consulted.                                    *)
SaveUnclaimed(c) ==
  /\ pc[c] = "saving"
  /\ summary.revision = previous[c].revision
  /\ summary' = Merged(job[c], previous[c])
  /\ ledger' = ledger \cup {job[c]}
  /\ Return(c)
  /\ UNCHANGED <<source>>

(* Mutant: the write does not look at the revision.                        *)
SaveUnconditionally(c) ==
  /\ pc[c] = "saving" /\ job[c] \notin ledger
  /\ summary' = Merged(job[c], previous[c])
  /\ ledger' = ledger \cup {job[c]}
  /\ Return(c)
  /\ UNCHANGED <<source>>

(* ... then INSERT ON CONFLICT DO NOTHING or UPDATE of that revision. The  *)
(* caller that never hears of the commit ends in the same state.           *)
Save(c) ==
  /\ pc[c] = "saving" /\ job[c] \notin ledger
  /\ summary.revision = previous[c].revision
  /\ summary' = Merged(job[c], previous[c])
  /\ ledger' = ledger \cup {job[c]}
  /\ Return(c)
  /\ UNCHANGED <<source>>

(* Mutant: the loop writes again without reading again.                    *)
SaveConflictStale(c) ==
  /\ pc[c] = "saving" /\ job[c] \notin ledger
  /\ summary.revision # previous[c].revision
  /\ IF conflicts[c] + 1 < RefreshAttempts
       THEN /\ conflicts' = [conflicts EXCEPT ![c] = @ + 1]
            /\ UNCHANGED <<pc, previous, job, began>>
       ELSE Return(c)
  /\ UNCHANGED <<source, summary, ledger>>

(* Mutant: the loop runs once too often.                                   *)
SaveConflictOnceMore(c) ==
  /\ pc[c] = "saving" /\ job[c] \notin ledger
  /\ summary.revision # previous[c].revision
  /\ IF conflicts[c] < RefreshAttempts
       THEN /\ pc' = [pc EXCEPT ![c] = "reading"]
            /\ conflicts' = [conflicts EXCEPT ![c] = @ + 1]
            /\ previous' = [previous EXCEPT ![c] = NoSummary]
            /\ UNCHANGED <<job, began>>
       ELSE Return(c)
  /\ UNCHANGED <<source, summary, ledger>>

(* No row matched: the ledger row rolls back with it and the loop starts   *)
(* over, or throws after its third loss.                                   *)
SaveConflict(c) ==
  /\ pc[c] = "saving" /\ job[c] \notin ledger
  /\ summary.revision # previous[c].revision
  /\ IF conflicts[c] + 1 < RefreshAttempts
       THEN /\ pc' = [pc EXCEPT ![c] = "reading"]
            /\ conflicts' = [conflicts EXCEPT ![c] = @ + 1]
            /\ previous' = [previous EXCEPT ![c] = NoSummary]
            /\ UNCHANGED <<job, began>>
       ELSE Return(c)
  /\ UNCHANGED <<source, summary, ledger>>

(* The model call throws or answers blank, a query throws, the process     *)
(* dies: nothing was written.                                              *)
Fail(c) ==
  /\ pc[c] # "idle"
  /\ Return(c)
  /\ UNCHANGED <<source, summary, ledger>>

-----------------------------------------------------------------------------
Step(c) ==
  \/ RefuseGap(c) \/ FindCovered(c) \/ Read(c)
  \/ SaveDuplicate(c) \/ Save(c) \/ SaveConflict(c)

Refresh(c) == (\E j \in Jobs : Begin(c, j)) \/ Step(c) \/ Fail(c)

Next ==
  \/ \E j \in Jobs, run \in Runs : Submit(j, run)
  \/ \E c \in Consolidators : Refresh(c)

Spec == Init /\ [][Next]_vars

-----------------------------------------------------------------------------
(* While every job says where its turns start, the summary holds each      *)
(* message of the conversation up to its watermark exactly once, in order, *)
(* however the runs overlap and whichever execution wins.                  *)
EachMessageOnce ==
  (\A j \in Legacy : ~Submitted(j)) =>
     summary.content = Positions(0, summary.turnsCovered)

(* Jobs without a position may repeat messages, but the watermark still    *)
(* counts what was folded, and a job delivered twice is folded once: there *)
(* is one revision for each job in the ledger.                             *)
OneRevisionPerJob ==
  /\ summary.turnsCovered = Len(summary.content)
  /\ summary.revision = Cardinality(ledger)

(* "CAS protects writers": no write takes back what an earlier one had     *)
(* covered.                                                                *)
WatermarkAdvances ==
  [][summary' # summary =>
       /\ summary'.turnsCovered > summary.turnsCovered
       /\ summary'.revision = summary.revision + 1]_vars

(* "Summary update conflicted repeatedly" is never spurious: every lost    *)
(* write is answered by a save of another execution since this one began.  *)
LosesOnlyToASave ==
  \A c \in Consolidators :
    pc[c] = "saving" /\ previous[c].revision # summary.revision =>
      summary.revision > began[c] + conflicts[c]

(* The summary is the digest of a growing prefix of the conversation.      *)
Digest == INSTANCE RunningSummary WITH digest <- summary.content
GrowingPrefix == Digest!Spec

=============================================================================
