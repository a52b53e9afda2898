---------------------------- MODULE MemoryStream ----------------------------
(***************************************************************************)
(* One relationship's memory stream and reflection budget: the observation *)
(* and reflection stages of src/memory/consolidation.ts with               *)
(* src/memory/reflection.ts, over upsertMany, addImportance and            *)
(* consumeReflectionBudget of src/memory/postgres-memory-store.ts.         *)
(*                                                                         *)
(* Each step is one query or transaction; model calls and other queries    *)
(* run in between. Any job may be delivered again at any time and the      *)
(* model then answers differently. An exclusive relationship gets all its  *)
(* consolidations from the worker, one at a time; otherwise some arrive    *)
(* through POST /memory/consolidate and overlap.                           *)
(***************************************************************************)
EXTENDS Integers, Sequences, FiniteSets

CONSTANTS
  Consolidators,  \* concurrent executions of consolidate()
  Jobs, NoJob,    \* idempotency keys
  Contents,       \* what a memory may say
  Similar,        \* pairs of contents duplicateMemory takes for the same
  Importance,     \* importance of an observation, by content
  Threshold,      \* config.reflectionThreshold
  Extractions,    \* bound: batches of observations an extraction may find
  Insights,       \* bound: batches of reflections a synthesis may find
  MaxFailures     \* bound: stages that throw, processes that die

ASSUME MemoryAssumption ==
  /\ NoJob \notin Jobs
  /\ Similar \subseteq Contents \X Contents
  /\ \A x, y \in Contents : <<x, x>> \in Similar /\ (<<x, y>> \in Similar => <<y, x>> \in Similar)
  /\ Importance \in [Contents -> 1..10]
  /\ Extractions \cup Insights \subseteq Seq(Contents)
  /\ Threshold \in Nat \ {0} /\ MaxFailures \in Nat

VARIABLES
  exclusive,
  entries,    \* rows of chat_memory_entries
  credited,   \* jobs with an importance: row in chat_applied_state_changes
  score,      \* unreflected_importance_score
  pc, job, kind, batch,
  rows,       \* what upsertMany returned
  spent,      \* history: budgets consumed and not restored
  blank,      \* history: executions whose extraction found nothing
  failures

execution == <<pc, job, kind, batch, rows>>
store == <<entries, credited, score, spent>>
vars == <<exclusive, store, execution, blank, failures>>

Kinds == {"observation", "reflection"}

(* The type invariant. An execution knows its job, it has a batch exactly  *)
(* while it is storing one and it credits rows of its own job only.        *)
TypeOK ==
  /\ exclusive \in BOOLEAN
  /\ \A e \in entries : e.job \in Jobs /\ e.kind \in Kinds /\ e.index \in Nat \ {0}
                       /\ e.content \in Contents
  /\ credited \subseteq Jobs
  /\ score \in Int /\ spent \in Nat
  /\ blank \subseteq Consolidators /\ failures \in 0..MaxFailures
  /\ kind \in [Consolidators -> Kinds]
  /\ \A c \in Consolidators :
       /\ pc[c] \in {"idle", "extracting", "looking", "comparing", "storing", "rereading",
                     "crediting", "budgeting", "reflecting", "reflected", "restoring"}
       /\ (job[c] = NoJob) <=> (pc[c] = "idle")
       /\ batch[c] \in Seq(Contents)
       /\ batch[c] # <<>> <=> pc[c] \in {"looking", "comparing", "storing"}
       /\ \A e \in rows[c] : e \in entries /\ e.job = job[c] /\ e.kind = kind[c]

Init ==
  /\ exclusive \in BOOLEAN
  /\ entries = {} /\ credited = {} /\ score = 0 /\ spent = 0
  /\ pc = [c \in Consolidators |-> "idle"]
  /\ job = [c \in Consolidators |-> NoJob]
  /\ kind = [c \in Consolidators |-> "observation"]
  /\ batch = [c \in Consolidators |-> <<>>]
  /\ rows = [c \in Consolidators |-> {}]
  /\ blank = {} /\ failures = 0

-----------------------------------------------------------------------------
(* Mutant: the stages of a job share its key.                              *)
RowsOfJob(j, k) == {e \in entries : e.job = j}

(* memoriesForOperation, under a key per job and stage.                    *)
RowsOf(j, k) == {e \in entries : e.job = j /\ e.kind = k}

(* The sum of the rows' importance: a row of importance n is n points.      *)
Points(es) == {p \in es \X (1..10) : p[2] <= Importance[p[1].content]}
Worth(es) == Cardinality(Points(es))

(* Mutant: a batch is compared with the stream, not with itself.           *)
SurvivorsUnseen(contents, k) ==
  SelectSeq(contents, LAMBDA m : \A e \in entries : e.kind = k => <<e.content, m>> \notin Similar)

(* What is left of a batch next to the stream and to its own earlier items. *)
Survivors(contents, k) ==
  LET kept[i \in 0 .. Len(contents)] ==
        IF i = 0 THEN <<>>
        ELSE IF \/ \E e \in entries : e.kind = k /\ <<e.content, contents[i]>> \in Similar
                \/ \E n \in DOMAIN kept[i - 1] : <<kept[i - 1][n], contents[i]>> \in Similar
             THEN kept[i - 1] ELSE Append(kept[i - 1], contents[i])
  IN  kept[Len(contents)]

Goto(c, step) == pc' = [pc EXCEPT ![c] = step]

End(c) ==
  /\ Goto(c, "idle")
  /\ job' = [job EXCEPT ![c] = NoJob]
  /\ kind' = [kind EXCEPT ![c] = "observation"]
  /\ batch' = [batch EXCEPT ![c] = <<>>]
  /\ rows' = [rows EXCEPT ![c] = {}]
  /\ blank' = blank \ {c}

(* upsertMany returns.                                                     *)
Returned(c, es) ==
  /\ rows' = [rows EXCEPT ![c] = es]
  /\ batch' = [batch EXCEPT ![c] = <<>>]
  /\ Goto(c, IF kind[c] = "reflection" THEN "reflected"
             ELSE IF es = {} THEN "budgeting" ELSE "crediting")
  /\ UNCHANGED <<job, kind>>

-----------------------------------------------------------------------------
Begin(c, j) ==
  /\ pc[c] = "idle"
  /\ exclusive => \A d \in Consolidators : pc[d] = "idle"
  /\ Goto(c, "extracting")
  /\ job' = [job EXCEPT ![c] = j]
  /\ UNCHANGED <<exclusive, store, kind, batch, rows, blank, failures>>

(* An extraction that found nothing never asks the store for what an       *)
(* earlier delivery of the job has left there.                             *)
Extract(c, contents) ==
  /\ pc[c] = "extracting"
  /\ batch' = [batch EXCEPT ![c] = contents]
  /\ Goto(c, IF contents = <<>> THEN "budgeting" ELSE "looking")
  /\ blank' = IF contents = <<>> THEN blank \cup {c} ELSE blank
  /\ UNCHANGED <<exclusive, store, job, kind, rows, failures>>

(* Mutant: an operation is not looked up before it is applied.             *)
LookAway(c) ==
  /\ pc[c] = "looking"
  /\ Goto(c, "comparing")
  /\ UNCHANGED <<exclusive, store, job, kind, batch, rows, blank, failures>>

(* Mutant: a retry has stored nothing itself, so it reports nothing.       *)
LookForgets(c) ==
  /\ pc[c] = "looking"
  /\ IF RowsOf(job[c], kind[c]) # {} THEN Returned(c, {})
     ELSE Goto(c, "comparing") /\ UNCHANGED <<job, kind, batch, rows>>
  /\ UNCHANGED <<exclusive, store, blank, failures>>

(* A retry gets the rows of the first application.                         *)
Look(c) ==
  LET previous == RowsOf(job[c], kind[c]) IN
    /\ pc[c] = "looking"
    /\ IF previous # {} THEN Returned(c, previous)
       ELSE Goto(c, "comparing") /\ UNCHANGED <<job, kind, batch, rows>>
    /\ UNCHANGED <<exclusive, store, blank, failures>>

(* The stream is read and compared with outside of any transaction.        *)
Compare(c) ==
  LET survivors == Survivors(batch[c], kind[c]) IN
    /\ pc[c] = "comparing"
    /\ IF survivors = <<>> THEN Returned(c, {})
       ELSE /\ batch' = [batch EXCEPT ![c] = survivors]
            /\ Goto(c, "storing")
            /\ UNCHANGED <<job, kind, rows>>
    /\ UNCHANGED <<exclusive, store, blank, failures>>

(* The INSERTs, ON CONFLICT (operation, index) DO NOTHING. Their own rows  *)
(* are the result unless some had been inserted before.                    *)
Store(c) ==
  LET offered == {[job |-> job[c], kind |-> kind[c], index |-> i, content |-> batch[c][i]]
                    : i \in DOMAIN batch[c]}
      inserted == {e \in offered : \A f \in RowsOf(job[c], kind[c]) : f.index # e.index}
  IN /\ pc[c] = "storing"
     /\ entries' = entries \cup inserted
     /\ IF inserted = offered THEN Returned(c, inserted)
        ELSE /\ Goto(c, "rereading")
             /\ batch' = [batch EXCEPT ![c] = <<>>]
             /\ UNCHANGED <<job, kind, rows>>
     /\ UNCHANGED <<exclusive, credited, score, spent, blank, failures>>

Reread(c) ==
  /\ pc[c] = "rereading"
  /\ Returned(c, RowsOf(job[c], kind[c]))
  /\ UNCHANGED <<exclusive, store, blank, failures>>

(* Mutant: the ledger is not consulted.                                    *)
CreditUnclaimed(c) ==
  /\ pc[c] = "crediting"
  /\ credited' = credited \cup {job[c]}
  /\ score' = score + Worth(rows[c])
  /\ rows' = [rows EXCEPT ![c] = {}]
  /\ Goto(c, "budgeting")
  /\ UNCHANGED <<exclusive, entries, spent, job, kind, batch, blank, failures>>

(* addImportance: the claim and the increment are one transaction.         *)
Credit(c) ==
  /\ pc[c] = "crediting"
  /\ credited' = credited \cup {job[c]}
  /\ score' = IF job[c] \in credited THEN score ELSE score + Worth(rows[c])
  /\ rows' = [rows EXCEPT ![c] = {}]
  /\ Goto(c, "budgeting")
  /\ UNCHANGED <<exclusive, entries, spent, job, kind, batch, blank, failures>>

(* Mutant: the overflow is zeroed instead of carried forward.              *)
ConsumeZeroing(c) ==
  /\ pc[c] = "budgeting" /\ score >= Threshold
  /\ score' = 0 /\ spent' = spent + 1
  /\ kind' = [kind EXCEPT ![c] = "reflection"]
  /\ Goto(c, "reflecting")
  /\ UNCHANGED <<exclusive, entries, credited, job, batch, rows, blank, failures>>

(* consumeReflectionBudget, a single UPDATE.                               *)
Consume(c) ==
  /\ pc[c] = "budgeting" /\ score >= Threshold
  /\ score' = score - Threshold /\ spent' = spent + 1
  /\ kind' = [kind EXCEPT ![c] = "reflection"]
  /\ Goto(c, "reflecting")
  /\ UNCHANGED <<exclusive, entries, credited, job, batch, rows, blank, failures>>

NoBudget(c) ==
  /\ pc[c] = "budgeting" /\ score < Threshold
  /\ End(c)
  /\ UNCHANGED <<exclusive, store, failures>>

(* Questions, evidence and synthesis: what comes of them may be nothing.   *)
Reflect(c, contents) ==
  /\ pc[c] = "reflecting"
  /\ batch' = [batch EXCEPT ![c] = contents]
  /\ Goto(c, IF contents = <<>> THEN "reflected" ELSE "looking")
  /\ UNCHANGED <<exclusive, store, job, kind, rows, blank, failures>>

Finish(c) ==
  /\ pc[c] = "reflected"
  /\ End(c)
  /\ UNCHANGED <<exclusive, store, failures>>

(* reflect() throws, its last statement applied or not.                    *)
ReflectionThrows(c) ==
  /\ kind[c] = "reflection" /\ pc[c] # "restoring" /\ failures < MaxFailures
  /\ Goto(c, "restoring")
  /\ batch' = [batch EXCEPT ![c] = <<>>]
  /\ rows' = [rows EXCEPT ![c] = {}]
  /\ failures' = failures + 1
  /\ UNCHANGED <<exclusive, store, job, kind, blank>>

(* The catch block gives the budget back, under no key, and throws on.     *)
Restore(c) ==
  /\ pc[c] = "restoring"
  /\ score' = score + Threshold /\ spent' = spent - 1
  /\ End(c)
  /\ UNCHANGED <<exclusive, entries, credited, failures>>

(* The process dies, the request is aborted, or a stage throws.            *)
Die(c) ==
  /\ pc[c] # "idle" /\ failures < MaxFailures
  /\ End(c)
  /\ failures' = failures + 1
  /\ UNCHANGED <<exclusive, store>>

Step(c) ==
  \/ \E contents \in Extractions : Extract(c, contents)
  \/ \E contents \in Insights : Reflect(c, contents)
  \/ Look(c) \/ Compare(c) \/ Store(c) \/ Reread(c) \/ Credit(c)
  \/ Consume(c) \/ NoBudget(c) \/ Finish(c) \/ Restore(c)

Next ==
  \E c \in Consolidators :
    \/ \E j \in Jobs : Begin(c, j)
    \/ Step(c) \/ ReflectionThrows(c) \/ Die(c)

Spec == Init /\ [][Next]_vars

-----------------------------------------------------------------------------
(* Where the worker serialises, the similarity check that reads outside of *)
(* the transaction never lets two similar memories of a kind in.           *)
NoDuplicates ==
  exclusive => \A e, f \in entries :
    e # f /\ e.kind = f.kind => <<e.content, f.content>> \notin Similar

(* "Retries return the original logical result without applying a changed  *)
(* batch again": the rows of an operation, once there, are final.          *)
BatchesAreFinal ==
  [][exclusive => \A j \in Jobs, k \in Kinds :
       RowsOf(j, k) # {} => RowsOf(j, k)' = RowsOf(j, k)]_vars

(* Every stored observation is paid for once and every reflection paid for *)
(* in full: nothing is counted twice by a retry, lost to an increment that *)
(* overlaps a reflection, or reflected on credit. Overlapping deliveries   *)
(* of one job may leave rows uncounted, never count too much.              *)
BudgetBalances ==
  LET counted == Worth({e \in entries : e.kind = "observation" /\ e.job \in credited})
      balance == score + Threshold * spent
  IN  /\ score >= 0
      /\ IF exclusive THEN balance = counted ELSE balance <= counted

(* A retry resumes: an execution past its first stage has the observations *)
(* of its job counted, also when an earlier delivery stored them and then  *)
(* failed, so long as its own extraction found something.                  *)
Uncounted(j) == RowsOf(j, "observation") # {} /\ j \notin credited
PastObservations(c) == pc[c] = "budgeting" \/ kind[c] = "reflection"

RetriesResume ==
  exclusive => \A c \in Consolidators \ blank : PastObservations(c) => ~Uncounted(job[c])

(* "A retry can therefore resume after a partial failure": the same,       *)
(* whatever the model extracts the second time.                            *)
RetriesAlwaysResume ==
  exclusive => \A c \in Consolidators : PastObservations(c) => ~Uncounted(job[c])

=============================================================================
