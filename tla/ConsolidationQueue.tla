------------------------- MODULE ConsolidationQueue -------------------------
(***************************************************************************)
(* The durable queue of memory-consolidation jobs and the in-process       *)
(* workers that drain it: src/memory/consolidation-worker.ts over the      *)
(* table opod.chat_memory_consolidation_jobs, fed by                       *)
(* src/memory/postgres-job-queue.ts.                                       *)
(*                                                                         *)
(* One worker is one Agent instance; its loop handles one job at a time.   *)
(* Every SQL statement is one atomic step, and everything between two      *)
(* awaited statements of tick() may interleave with the other instances.   *)
(* A statement may throw, applied by the server or not (faults); a process *)
(* may die at any point (outages); a consolidation may outlive its lease   *)
(* (overruns).                                                             *)
(***************************************************************************)
EXTENDS Integers, FiniteSets

CONSTANTS
  Workers,        \* Agent instances hosting the loop
  Jobs,           \* job rows, numbered in (created_at, id) order
  Relationships,  \* (user, character) pairs, the key of the advisory lock
  RelationshipOf, \* the relationship a job's row names
  NoWorker, NoJob,
  MaxAttempts,    \* config.maxAttempts
  MaxOutages,     \* bound: process crashes and orderly stops
  MaxOverruns,    \* bound: leases that lapse under a worker still on the job
  MaxFaults       \* bound: statements that throw

ASSUME QueueAssumption ==
  /\ IsFiniteSet(Workers)
  /\ Jobs \subseteq Nat
  /\ RelationshipOf \in [Jobs -> Relationships]
  /\ NoWorker \notin Workers
  /\ NoJob \notin Jobs
  /\ MaxAttempts \in Nat \ {0}
  /\ MaxOutages \in Nat /\ MaxOverruns \in Nat /\ MaxFaults \in Nat

VARIABLES
  \* the table
  status,    \* processing_status, "absent" before the INSERT
  lease,     \* processing_lease_expires_at: NULL, in the future or in the past
  attempts,  \* attempt_count
  payload,   \* consolidation_request: the turns, or {} once scrubbed
  \* the Postgres advisory locks
  holder,
  \* the instances
  up,        \* instances that have not been asked to stop
  pc,        \* where the current tick() stands
  claim,     \* what the claiming UPDATE returned to it
  \* history and bounds
  consolidated, \* jobs whose turns were consumed into the memory tables
  tried,        \* consolidations begun for each job
  outages, overruns, faults

table == <<status, lease, attempts, payload>>
process == <<up, pc, claim>>
bounds == <<outages, overruns, faults>>
vars == <<table, holder, process, consolidated, tried, bounds>>

Statuses == {"absent", "queued", "running", "completed", "failed"}
Leases == {"none", "pending", "past"}
Payloads == {"turns", "scrubbed"}
Steps ==
  {"idle", "claimed", "deferring", "consolidating", "consolidated", "raised", "releasing"}

NoClaim == [job |-> NoJob, attempt |-> 0, payload |-> "scrubbed"]
Claims == [job: Jobs, attempt: Int, payload: Payloads]

TableOK ==
  /\ status \in [Jobs -> Statuses]
  /\ lease \in [Jobs -> Leases]
  /\ attempts \in [Jobs -> Int]
  /\ payload \in [Jobs -> Payloads]

InstancesOK ==
  /\ up \subseteq Workers
  /\ pc \in [Workers -> Steps]
  /\ claim \in [Workers -> Claims \cup {NoClaim}]
  /\ \A w \in Workers : pc[w] # "idle" => claim[w] \in Claims

Shape ==
  /\ TableOK /\ InstancesOK
  /\ holder \in [Relationships -> Workers \cup {NoWorker}]
  /\ consolidated \subseteq Jobs
  /\ tried \in [Jobs -> Nat]
  /\ outages \in 0..MaxOutages
  /\ overruns \in 0..MaxOverruns
  /\ faults \in 0..MaxFaults

(* One type invariant for the table, the locks and the instances: a tick   *)
(* under way has the row its claim returned, and whatever deferrals and    *)
(* reclaims overlap, an attempt handed back by a deferral was charged by   *)
(* a claim before, so attempt_count is a count and never drops below zero. *)
TypeOK == Shape /\ \A j \in Jobs : attempts[j] >= 0

Init ==
  /\ status = [j \in Jobs |-> "absent"]
  /\ lease = [j \in Jobs |-> "none"]
  /\ attempts = [j \in Jobs |-> 0]
  /\ payload = [j \in Jobs |-> "turns"]
  /\ holder = [r \in Relationships |-> NoWorker]
  /\ up = Workers
  /\ pc = [w \in Workers |-> "idle"]
  /\ claim = [w \in Workers |-> NoClaim]
  /\ consolidated = {}
  /\ tried = [j \in Jobs |-> 0]
  /\ outages = 0 /\ overruns = 0 /\ faults = 0

-----------------------------------------------------------------------------
(* The statements the worker runs against one row: none of them looks at   *)
(* the row's status, lease or attempt_count, they all say WHERE id = $1.   *)

Lock(w) == RelationshipOf[claim[w].job]

FinishCompleted(j) ==
  /\ status' = [status EXCEPT ![j] = "completed"]
  /\ lease' = [lease EXCEPT ![j] = "none"]
  /\ payload' = [payload EXCEPT ![j] = "scrubbed"]
  /\ UNCHANGED attempts

(* Mutant: the scrub's CASE on the status is gone.                         *)
FinishFailedScrubs(j) ==
  /\ status' = [status EXCEPT ![j] = "failed"]
  /\ lease' = [lease EXCEPT ![j] = "none"]
  /\ payload' = [payload EXCEPT ![j] = "scrubbed"]
  /\ UNCHANGED attempts

FinishFailed(j) ==
  /\ status' = [status EXCEPT ![j] = "failed"]
  /\ lease' = [lease EXCEPT ![j] = "none"]
  /\ UNCHANGED <<attempts, payload>>

Requeue(j, refund) ==
  /\ status' = [status EXCEPT ![j] = "queued"]
  /\ lease' = [lease EXCEPT ![j] = "pending"]
  /\ attempts' = [attempts EXCEPT ![j] = @ - refund]
  /\ UNCHANGED payload

GoTo(w, step) ==
  /\ pc' = [pc EXCEPT ![w] = step]
  /\ UNCHANGED <<up, claim>>

GoIdle(w) ==
  /\ pc' = [pc EXCEPT ![w] = "idle"]
  /\ claim' = [claim EXCEPT ![w] = NoClaim]
  /\ UNCHANGED up

Fault == faults < MaxFaults /\ faults' = faults + 1 /\ UNCHANGED <<outages, overruns>>

-----------------------------------------------------------------------------
(* The producer. ON CONFLICT (idempotency_key) DO NOTHING: a second INSERT *)
(* of the same logical job changes nothing.                                *)
Enqueue(j) ==
  /\ status[j] = "absent"
  /\ \A k \in Jobs : k < j => status[k] # "absent"
  /\ status' = [status EXCEPT ![j] = "queued"]
  /\ UNCHANGED <<lease, attempts, payload, holder, process, consolidated, tried, bounds>>

(* Mutant: a running row may be taken whatever its lease says.             *)
ClaimableWhileLeased(j) ==
  \/ status[j] = "queued" /\ lease[j] # "pending"
  \/ status[j] = "running"

(* Mutant: running rows are not reclaimed.                                 *)
ClaimableIfQueued(j) == status[j] = "queued" /\ lease[j] # "pending"

(* Queued rows carry their retry backoff in the lease column.              *)
Claimable(j) ==
  \/ status[j] = "queued" /\ lease[j] # "pending"
  \/ status[j] = "running" /\ lease[j] = "past"

TakeLease(j) ==
  /\ Claimable(j)
  /\ \A k \in Jobs : Claimable(k) => j <= k
  /\ status' = [status EXCEPT ![j] = "running"]
  /\ lease' = [lease EXCEPT ![j] = "pending"]
  /\ attempts' = [attempts EXCEPT ![j] = @ + 1]
  /\ UNCHANGED payload

Claim(w, j) ==
  /\ pc[w] = "idle" /\ w \in up
  /\ TakeLease(j)
  /\ pc' = [pc EXCEPT ![w] = "claimed"]
  /\ claim' = [claim EXCEPT ![w] =
       [job |-> j, attempt |-> attempts[j] + 1, payload |-> payload[j]]]
  /\ UNCHANGED <<up, holder, consolidated, tried, bounds>>

(* The claim committed but its result never arrived: tick() throws, the    *)
(* row stays running with nobody on it.                                    *)
ClaimLost(w, j) ==
  /\ pc[w] = "idle" /\ w \in up
  /\ TakeLease(j)
  /\ Fault
  /\ UNCHANGED <<holder, process, consolidated, tried>>

RejectInvalid(w) ==
  /\ pc[w] = "claimed" /\ claim[w].payload = "scrubbed"
  /\ FinishFailed(claim[w].job)
  /\ GoIdle(w)
  /\ UNCHANGED <<holder, consolidated, tried, bounds>>

(* Mutant: the result of the probe is not looked at.                       *)
AcquireBlindly(w) ==
  /\ pc[w] = "claimed" /\ claim[w].payload = "turns"
  /\ holder' = [holder EXCEPT ![Lock(w)] = w]
  /\ GoTo(w, "consolidating")
  /\ tried' = [tried EXCEPT ![claim[w].job] = @ + 1]
  /\ UNCHANGED <<table, consolidated, bounds>>

(* pg_try_advisory_lock on a dedicated connection.                         *)
Acquire(w) ==
  /\ pc[w] = "claimed" /\ claim[w].payload = "turns"
  /\ holder[Lock(w)] = NoWorker
  /\ holder' = [holder EXCEPT ![Lock(w)] = w]
  /\ GoTo(w, "consolidating")
  /\ tried' = [tried EXCEPT ![claim[w].job] = @ + 1]
  /\ UNCHANGED <<table, consolidated, bounds>>

(* The pool has no connection to give or the probe fails: tick() throws    *)
(* before its try block, and a session that died holds no lock.            *)
AcquireThrows(w) ==
  /\ pc[w] = "claimed" /\ claim[w].payload = "turns"
  /\ Fault
  /\ GoIdle(w)
  /\ UNCHANGED <<table, holder, consolidated, tried>>

FindBusy(w) ==
  /\ pc[w] = "claimed" /\ claim[w].payload = "turns"
  /\ holder[Lock(w)] # NoWorker
  /\ GoTo(w, "deferring")
  /\ UNCHANGED <<table, holder, consolidated, tried, bounds>>

(* Mutant: the deferral keeps the attempt the claim charged.               *)
DeferSpendingAttempt(w) ==
  /\ pc[w] = "deferring"
  /\ Requeue(claim[w].job, 0)
  /\ GoIdle(w)
  /\ UNCHANGED <<holder, consolidated, tried, bounds>>

(* Back behind the retry backoff without spending an attempt. The UPDATE   *)
(* runs after the failed probe, whatever happened to the row in between.   *)
Defer(w) ==
  /\ pc[w] = "deferring"
  /\ Requeue(claim[w].job, 1)
  /\ GoIdle(w)
  /\ UNCHANGED <<holder, consolidated, tried, bounds>>

(* The deferral or the rejection throws out of tick(); no lock is held.    *)
UnlockedWriteThrows(w, applied) ==
  /\ \/ pc[w] = "deferring" /\ IF applied THEN Requeue(claim[w].job, 1) ELSE UNCHANGED table
     \/ /\ pc[w] = "claimed" /\ claim[w].payload = "scrubbed"
        /\ IF applied THEN FinishFailed(claim[w].job) ELSE UNCHANGED table
  /\ Fault
  /\ GoIdle(w)
  /\ UNCHANGED <<holder, consolidated, tried>>

(* consolidate() itself: its stages are modelled in modules of their own.  *)
Consolidate(w) ==
  /\ pc[w] = "consolidating"
  /\ \/ /\ consolidated' = consolidated \cup {claim[w].job}
        /\ GoTo(w, "consolidated")
     \/ /\ GoTo(w, "raised")
        /\ UNCHANGED consolidated
  /\ UNCHANGED <<table, holder, tried, bounds>>

Complete(w) ==
  /\ pc[w] = "consolidated"
  /\ FinishCompleted(claim[w].job)
  /\ GoTo(w, "releasing")
  /\ UNCHANGED <<holder, consolidated, tried, bounds>>

(* finish() is inside the try: its own failure takes the retry path.       *)
CompleteThrows(w, applied) ==
  /\ pc[w] = "consolidated"
  /\ IF applied THEN FinishCompleted(claim[w].job) ELSE UNCHANGED table
  /\ Fault
  /\ GoTo(w, "raised")
  /\ UNCHANGED <<holder, consolidated, tried>>

(* Mutant: the last attempt is retried once more.                          *)
GiveUpOrRetryLate(w) ==
  IF claim[w].attempt > MaxAttempts THEN FinishFailed(claim[w].job)
                                    ELSE Requeue(claim[w].job, 0)

(* The catch block judges by the attempt_count its own claim returned.     *)
GiveUpOrRetry(w) ==
  IF claim[w].attempt >= MaxAttempts THEN FinishFailed(claim[w].job)
                                     ELSE Requeue(claim[w].job, 0)

Settle(w) ==
  /\ pc[w] = "raised"
  /\ GiveUpOrRetry(w)
  /\ GoTo(w, "releasing")
  /\ UNCHANGED <<holder, consolidated, tried, bounds>>

SettleThrows(w, applied) ==
  /\ pc[w] = "raised"
  /\ IF applied THEN GiveUpOrRetry(w) ELSE UNCHANGED table
  /\ Fault
  /\ GoTo(w, "releasing")
  /\ UNCHANGED <<holder, consolidated, tried>>

(* The finally block. When the unlock itself throws, its connection is     *)
(* taken to be dead, and a dead session holds no advisory lock.            *)
Release(w) ==
  /\ pc[w] = "releasing"
  /\ holder' = [holder EXCEPT ![Lock(w)] = NoWorker]
  /\ GoIdle(w)
  /\ UNCHANGED <<table, consolidated, tried, bounds>>

-----------------------------------------------------------------------------
(* The process dies: its sessions die with it and free their locks; the    *)
(* row keeps whatever was last committed. The platform starts it again.    *)
Crash(w) ==
  /\ pc[w] # "idle" /\ outages < MaxOutages
  /\ outages' = outages + 1
  /\ holder' = [r \in Relationships |-> IF holder[r] = w THEN NoWorker ELSE holder[r]]
  /\ GoIdle(w)
  /\ UNCHANGED <<table, consolidated, tried, overruns, faults>>

(* stop(): the job in flight is finished, no further one is claimed.       *)
Stop(w) ==
  /\ w \in up /\ outages < MaxOutages
  /\ outages' = outages + 1
  /\ up' = up \ {w}
  /\ UNCHANGED <<table, holder, pc, claim, consolidated, tried, overruns, faults>>

Start(w) ==
  /\ w \notin up /\ pc[w] = "idle"
  /\ up' = up \cup {w}
  /\ UNCHANGED <<table, holder, pc, claim, consolidated, tried, bounds>>

(* A worker between its claim and its last write to the row.               *)
Engaged(w) == pc[w] \notin {"idle", "releasing"}
OnJob(j) == \E w \in Workers : Engaged(w) /\ claim[w].job = j

(* now() passes the row's lease or backoff. Under a worker that is still   *)
(* engaged with the job this is an overrun.                                *)

TimePasses(j) ==
  /\ lease[j] = "pending"
  /\ lease' = [lease EXCEPT ![j] = "past"]
  /\ IF status[j] = "running" /\ OnJob(j)
       THEN overruns < MaxOverruns /\ overruns' = overruns + 1
       ELSE UNCHANGED overruns
  /\ UNCHANGED <<status, attempts, payload, holder, process, consolidated, tried,
                 outages, faults>>

-----------------------------------------------------------------------------
TickStep(w) ==
  \/ RejectInvalid(w) \/ Acquire(w) \/ FindBusy(w) \/ Defer(w)
  \/ Consolidate(w) \/ Complete(w) \/ Settle(w) \/ Release(w)

Throws(w) ==
  \/ \E j \in Jobs : ClaimLost(w, j)
  \/ AcquireThrows(w)
  \/ \E applied \in BOOLEAN :
       \/ UnlockedWriteThrows(w, applied)
       \/ CompleteThrows(w, applied)
       \/ SettleThrows(w, applied)

Next ==
  \/ \E j \in Jobs : Enqueue(j) \/ TimePasses(j)
  \/ \E w \in Workers :
       \/ \E j \in Jobs : Claim(w, j)
       \/ TickStep(w) \/ Throws(w)
       \/ Crash(w) \/ Stop(w) \/ Start(w)

(* setTimeout(loop) keeps every started instance polling, a step in flight *)
(* ends, time passes, and the platform restarts what stopped. Nothing is   *)
(* assumed of the producer, of faults, or of leases outlived by their run. *)
Fairness ==
  /\ \A w \in Workers :
       /\ WF_vars(\E j \in Jobs : Claim(w, j))
       /\ WF_vars(TickStep(w))
       /\ WF_vars(Start(w))
  /\ \A j \in Jobs : WF_vars(TimePasses(j) /\ UNCHANGED overruns)

Spec == Init /\ [][Next]_vars
FairSpec == Spec /\ Fairness

-----------------------------------------------------------------------------
(* "Serialize execution per (user, character)": two instances never        *)
(* consolidate the same relationship at once, not even when a lease lapses *)
(* under the first of them or a process dies and its jobs are reclaimed.   *)
UnderLock(w) == pc[w] \in {"consolidating", "consolidated", "raised", "releasing"}

SerializedPerRelationship ==
  \A v, w \in Workers :
    v # w /\ UnderLock(v) /\ UnderLock(w) => Lock(v) # Lock(w)

(* The scrub never eats turns: the conversation in a row is only replaced  *)
(* by {} after a consolidation consumed it, whatever throws or dies.       *)
ScrubbedOnlyAfterConsolidation ==
  \A j \in Jobs : payload[j] = "scrubbed" => j \in consolidated

(* "Without spending an attempt": a job that fails for good has had all    *)
(* its consolidations, save for those lost with a crashed process.         *)
FailsOnlyAfterAllAttempts ==
  \A j \in Jobs : status[j] = "failed" => tried[j] + outages >= MaxAttempts

(* "Instead of double-spending LLM calls": each consolidation of a job is  *)
(* charged to its row, and no deferral ever hands that charge back; and    *)
(* the row is charged at most maxAttempts times, whatever instances        *)
(* reclaim, defer and retry it, save for one more time per crash or stop,  *)
(* per lease that lapsed under its worker and per statement that threw:    *)
(* none of these is seen by the catch block, which alone asks whether the  *)
(* attempts are used up.                                                   *)
TriedWithinAllowance ==
  \A j \in Jobs :
    /\ tried[j] <= attempts[j]
    /\ attempts[j] <= MaxAttempts + outages + overruns + faults

(* A completed job leaves the queue for good: no later statement of any    *)
(* worker takes the row out of completed.                                  *)
CompletedIsFinal ==
  [][\A j \in Jobs : status[j] = "completed" => status'[j] = "completed"]_vars

(* finish(): the payload of a completed job "is never read again".         *)
ScrubbedPayloadNeverClaimed ==
  \A w \in Workers : pc[w] # "idle" => claim[w].payload = "turns"

(* Every job that enters the queue is eventually completed or given up.    *)
EveryJobSettles ==
  \A j \in Jobs :
    status[j] = "queued" ~> status[j] \in {"completed", "failed"}

=============================================================================
