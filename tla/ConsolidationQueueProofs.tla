----------------------- MODULE ConsolidationQueueProofs -----------------------
(***************************************************************************)
(* What holds of ConsolidationQueue for every number of instances, jobs,   *)
(* attempts, crashes and throwing statements.                              *)
(***************************************************************************)
EXTENDS ConsolidationQueue, FiniteSetTheorems, TLAPS

USE QueueAssumption

(* A tick that is under way works on a job of the table.                   *)
LEMMA ClaimedJob ==
  ASSUME InstancesOK, NEW w \in Workers, pc[w] # "idle"
  PROVE  /\ claim[w] \in Claims
         /\ claim[w].job \in Jobs /\ claim[w].attempt \in Int
         /\ Lock(w) \in Relationships
BY DEF InstancesOK, Claims, Lock

(* What the claiming UPDATE returns of a row of the table is a claim.      *)
LEMMA ReturnedRow ==
  ASSUME TableOK, NEW j \in Jobs
  PROVE  [job |-> j, attempt |-> attempts[j] + 1, payload |-> payload[j]] \in Claims
<1>1. attempts[j] \in Int /\ payload[j] \in Payloads
  BY DEF TableOK
<1> QED
  BY <1>1 DEF Claims

(* Counting one entry of a table of counters up keeps it one.              *)
LEMMA CountUp ==
  ASSUME NEW S, NEW f \in [S -> Nat], NEW x \in S
  PROVE  [f EXCEPT ![x] = f[x] + 1] \in [S -> Nat]
OBVIOUS

(* Whatever a worker writes to a row leaves a table.                       *)
LEMMA WriteKeepsTable ==
  ASSUME TableOK, NEW j \in Jobs,
         \/ FinishCompleted(j) \/ FinishFailed(j)
         \/ Requeue(j, 0) \/ Requeue(j, 1) \/ TakeLease(j)
  PROVE  TableOK'
<1> USE DEF TableOK, Statuses, Leases, Payloads
<1>1. CASE FinishCompleted(j) \/ FinishFailed(j)
  BY <1>1 DEF FinishCompleted, FinishFailed
<1>2. CASE Requeue(j, 0) \/ Requeue(j, 1)
  BY <1>2 DEF Requeue
<1>3. CASE TakeLease(j)
  BY <1>3 DEF TakeLease
<1> QED
  BY <1>1, <1>2, <1>3

(* So does writing to none.                                                *)
LEMMA NoWriteKeepsTable == TableOK /\ UNCHANGED table => TableOK'
BY DEF TableOK, table

(* Moving a tick under way to another step, or ending it, keeps its claim. *)
LEMMA MoveKeepsInstances ==
  ASSUME InstancesOK, NEW w \in Workers,
         \/ GoIdle(w)
         \/ \E step \in Steps : pc[w] # "idle" /\ GoTo(w, step)
  PROVE  InstancesOK'
<1>1. CASE GoIdle(w)
  BY <1>1 DEF InstancesOK, GoIdle, Steps
<1>2. CASE \E step \in Steps : pc[w] # "idle" /\ GoTo(w, step)
  BY <1>2 DEF InstancesOK, GoTo
<1> QED
  BY <1>1, <1>2

(* The shape of the table, the locks and the instances never breaks.       *)
LEMMA ShapeInvariant == Spec => []Shape
<1> USE DEF Shape
<1>1. Init => Shape
  BY DEF Init, TableOK, InstancesOK, Statuses, Leases, Payloads, Steps
<1>2. Shape /\ [Next]_vars => Shape'
  <2> SUFFICES ASSUME Shape, [Next]_vars PROVE Shape'
    OBVIOUS
  <2> USE ClaimedJob, WriteKeepsTable, NoWriteKeepsTable, MoveKeepsInstances DEF bounds, Fault
  <2>1. ASSUME NEW j \in Jobs, Enqueue(j) PROVE Shape'
    BY <2>1 DEF Enqueue, TableOK, Statuses, process, InstancesOK
  <2>2. ASSUME NEW j \in Jobs, TimePasses(j) PROVE Shape'
    BY <2>2 DEF TimePasses, TableOK, Leases, process, InstancesOK
  <2>3. ASSUME NEW w \in Workers, NEW j \in Jobs, Claim(w, j) PROVE Shape'
    <3>1. InstancesOK'
      <4>1. [job |-> j, attempt |-> attempts[j] + 1, payload |-> payload[j]] \in Claims
        BY ReturnedRow
      <4>2. /\ pc' = [pc EXCEPT ![w] = "claimed"] /\ up' = up
            /\ claim' = [claim EXCEPT ![w] =
                 [job |-> j, attempt |-> attempts[j] + 1, payload |-> payload[j]]]
        BY <2>3 DEF Claim
      <4> QED
        BY <4>1, <4>2 DEF InstancesOK, Steps
    <3> QED
      BY <2>3, <3>1 DEF Claim
  <2>4. ASSUME NEW w \in Workers, TickStep(w) PROVE Shape'
    <3> USE DEF Steps
    <3>1. CASE RejectInvalid(w)
      BY <3>1 DEF RejectInvalid
    <3>2. CASE Acquire(w)
      <4>1. tried' \in [Jobs -> Nat]
        BY <3>2, CountUp DEF Acquire
      <4>2. holder' \in [Relationships -> Workers \cup {NoWorker}]
        BY <3>2 DEF Acquire
      <4> QED
        BY <3>2, <4>1, <4>2 DEF Acquire
    <3>3. CASE FindBusy(w)
      BY <3>3 DEF FindBusy
    <3>4. CASE Defer(w)
      BY <3>4 DEF Defer
    <3>5. CASE Consolidate(w)
      BY <3>5 DEF Consolidate
    <3>6. CASE Complete(w)
      BY <3>6 DEF Complete
    <3>7. CASE Settle(w)
      BY <3>7 DEF Settle, GiveUpOrRetry
    <3>8. CASE Release(w)
      BY <3>8 DEF Release
    <3> QED
      BY <2>4, <3>1, <3>2, <3>3, <3>4, <3>5, <3>6, <3>7, <3>8 DEF TickStep
  <2>5. ASSUME NEW w \in Workers, NEW j \in Jobs, ClaimLost(w, j) PROVE Shape'
    <3>1. TableOK' /\ InstancesOK'
      BY <2>5 DEF ClaimLost, process, InstancesOK
    <3> QED
      BY <2>5, <3>1 DEF ClaimLost
  <2>6. ASSUME NEW w \in Workers, NEW applied \in BOOLEAN, UnlockedWriteThrows(w, applied)
        PROVE Shape'
    <3>1. TableOK' /\ InstancesOK'
      BY <2>6 DEF UnlockedWriteThrows
    <3> QED
      BY <2>6, <3>1 DEF UnlockedWriteThrows
  <2>12. ASSUME NEW w \in Workers, AcquireThrows(w) PROVE Shape'
    <3>1. TableOK' /\ InstancesOK'
      BY <2>12 DEF AcquireThrows
    <3> QED
      BY <2>12, <3>1 DEF AcquireThrows
  <2>7. ASSUME NEW w \in Workers, NEW applied \in BOOLEAN, CompleteThrows(w, applied)
        PROVE Shape'
    <3>1. TableOK' /\ InstancesOK'
      BY <2>7 DEF CompleteThrows, Steps
    <3> QED
      BY <2>7, <3>1 DEF CompleteThrows
  <2>8. ASSUME NEW w \in Workers, NEW applied \in BOOLEAN, SettleThrows(w, applied)
        PROVE Shape'
    <3>1. TableOK'
      BY <2>8 DEF SettleThrows, GiveUpOrRetry
    <3>2. InstancesOK'
      BY <2>8 DEF SettleThrows, Steps
    <3> QED
      BY <2>8, <3>1, <3>2 DEF SettleThrows
  <2>9. ASSUME NEW w \in Workers, Crash(w) PROVE Shape'
    <3>1. TableOK' /\ InstancesOK'
      BY <2>9 DEF Crash
    <3> QED
      BY <2>9, <3>1 DEF Crash
  <2>10. ASSUME NEW w \in Workers, Stop(w) \/ Start(w) PROVE Shape'
    <3>1. /\ UNCHANGED <<table, holder, pc, claim, consolidated, tried, overruns, faults>>
          /\ up' \subseteq Workers /\ outages' \in 0..MaxOutages
      BY <2>10 DEF Stop, Start, InstancesOK
    <3>2. TableOK'
      BY <3>1
    <3>3. InstancesOK'
      BY <3>1 DEF InstancesOK
    <3> QED
      BY <3>1, <3>2, <3>3
  <2>11. CASE UNCHANGED vars
    BY <2>11 DEF vars, process, InstancesOK
  <2> QED
    BY <2>1, <2>2, <2>3, <2>4, <2>5, <2>6, <2>7, <2>8, <2>9, <2>10, <2>11, <2>12 DEF Next, Throws
<1>3. QED
  BY <1>1, <1>2, PTL DEF Spec

-----------------------------------------------------------------------------
(* The lock of a relationship is recorded as held by the worker that works *)
(* under it, and a consolidated job is known as such to the worker that    *)
(* will complete it: with these the two safety properties are inductive.   *)
HoldsItsLock == \A w \in Workers : UnderLock(w) => holder[Lock(w)] = w

KnowsConsolidated ==
  \A w \in Workers : pc[w] = "consolidated" => claim[w].job \in consolidated

SafetyInv == HoldsItsLock /\ KnowsConsolidated /\ ScrubbedOnlyAfterConsolidation

(* A step that takes no lock, and enters no step under one, keeps it so.   *)
LEMMA LockFrame ==
  ASSUME HoldsItsLock, UNCHANGED holder,
         \A v \in Workers : UnderLock(v)' => UnderLock(v) /\ claim'[v] = claim[v]
  PROVE  HoldsItsLock'
BY DEF HoldsItsLock, Lock

(* Neither does a step that leaves the memory tables alone and scrubs no   *)
(* row forget what was consolidated.                                       *)
LEMMA ScrubFrame ==
  ASSUME KnowsConsolidated, ScrubbedOnlyAfterConsolidation,
         consolidated \subseteq consolidated',
         \A j \in Jobs : payload'[j] = "scrubbed" => payload[j] = "scrubbed" \/ j \in consolidated,
         \A v \in Workers : pc'[v] = "consolidated" =>
            \/ claim'[v].job \in consolidated'
            \/ pc[v] = "consolidated" /\ claim'[v] = claim[v]
  PROVE  KnowsConsolidated' /\ ScrubbedOnlyAfterConsolidation'
BY DEF KnowsConsolidated, ScrubbedOnlyAfterConsolidation

(* Every step of the code keeps the ownership of the locks and of the      *)
(* knowledge that a scrubbed job was consolidated.                         *)
LEMMA SafetyStep == Shape /\ SafetyInv /\ [Next]_vars => SafetyInv'
<1> SUFFICES ASSUME Shape, SafetyInv, [Next]_vars PROVE SafetyInv'
  OBVIOUS
<1> USE LockFrame, ScrubFrame
    DEF SafetyInv, Shape, TableOK, InstancesOK, table, process, UnderLock
<1>1. ASSUME NEW j \in Jobs, Enqueue(j) \/ TimePasses(j) PROVE SafetyInv'
  BY <1>1 DEF Enqueue, TimePasses
<1>2. ASSUME NEW w \in Workers, NEW j \in Jobs, Claim(w, j) \/ ClaimLost(w, j)
      PROVE SafetyInv'
  BY <1>2 DEF Claim, ClaimLost, TakeLease
<1>3. ASSUME NEW w \in Workers, RejectInvalid(w) \/ Defer(w) PROVE SafetyInv'
  BY <1>3 DEF RejectInvalid, Defer, FinishFailed, Requeue, GoIdle
<1>4. ASSUME NEW w \in Workers, Acquire(w) PROVE SafetyInv'
  <2>1. Lock(w) \in Relationships
    BY <1>4, ClaimedJob DEF Acquire
  <2>2. HoldsItsLock'
    BY <1>4, <2>1 DEF Acquire, GoTo, HoldsItsLock, Lock
  <2> QED
    BY <1>4, <2>2 DEF Acquire, GoTo
<1>5. ASSUME NEW w \in Workers, FindBusy(w) PROVE SafetyInv'
  BY <1>5 DEF FindBusy, GoTo
<1>6. ASSUME NEW w \in Workers, Consolidate(w) PROVE SafetyInv'
  BY <1>6 DEF Consolidate, GoTo
<1>7. ASSUME NEW w \in Workers, Complete(w) \/ \E applied \in BOOLEAN : CompleteThrows(w, applied)
      PROVE SafetyInv'
  <2>1. /\ UNCHANGED <<holder, consolidated>> /\ pc[w] = "consolidated"
        /\ GoTo(w, "raised") \/ GoTo(w, "releasing")
        /\ FinishCompleted(claim[w].job) \/ UNCHANGED payload
    BY <1>7 DEF Complete, CompleteThrows
  <2>2. claim[w].job \in Jobs /\ claim[w].job \in consolidated
    BY <2>1, ClaimedJob DEF KnowsConsolidated
  <2> QED
    BY <2>1, <2>2 DEF GoTo, FinishCompleted
<1>8. ASSUME NEW w \in Workers, Settle(w) \/ \E applied \in BOOLEAN : SettleThrows(w, applied)
      PROVE SafetyInv'
  BY <1>8 DEF Settle, SettleThrows, GiveUpOrRetry, FinishFailed, Requeue, GoTo
<1>9. ASSUME NEW w \in Workers, Release(w) PROVE SafetyInv'
  <2>1. HoldsItsLock'
    BY <1>9, ClaimedJob DEF Release, GoIdle, HoldsItsLock, Lock
  <2> QED
    BY <1>9, <2>1 DEF Release, GoIdle
<1>16. ASSUME NEW w \in Workers, AcquireThrows(w) PROVE SafetyInv'
  BY <1>16 DEF AcquireThrows, GoIdle
<1>10. ASSUME NEW w \in Workers, NEW applied \in BOOLEAN, UnlockedWriteThrows(w, applied)
       PROVE SafetyInv'
  BY <1>10 DEF UnlockedWriteThrows, FinishFailed, Requeue, GoIdle
<1>11. ASSUME NEW w \in Workers, Crash(w) PROVE SafetyInv'
  <2>1. HoldsItsLock'
    BY <1>11, ClaimedJob DEF Crash, GoIdle, HoldsItsLock, Lock
  <2> QED
    BY <1>11, <2>1 DEF Crash, GoIdle
<1>12. ASSUME NEW w \in Workers, Stop(w) \/ Start(w) PROVE SafetyInv'
  BY <1>12 DEF Stop, Start
<1>13. CASE UNCHANGED vars
  BY <1>13 DEF vars
<1> HIDE LockFrame, ScrubFrame
         DEF SafetyInv, Shape, TableOK, InstancesOK, table, process, UnderLock
<1>14. ASSUME NEW w \in Workers, TickStep(w) PROVE SafetyInv'
  BY <1>14, <1>3, <1>4, <1>5, <1>6, <1>7, <1>8, <1>9 DEF TickStep
<1>15. ASSUME NEW w \in Workers, Throws(w) PROVE SafetyInv'
  BY <1>15, <1>2, <1>7, <1>8, <1>10, <1>16 DEF Throws
<1> QED
  BY <1>1, <1>2, <1>11, <1>12, <1>13, <1>14, <1>15 DEF Next

(* However many instances share the queue, and whatever crashes, lapses or *)
(* throws, two of them never consolidate one relationship at a time.       *)
THEOREM Serialized == Spec => []SerializedPerRelationship
<1>1. Init => SafetyInv
  BY DEF Init, SafetyInv, HoldsItsLock, KnowsConsolidated, ScrubbedOnlyAfterConsolidation, UnderLock
<1>2. Shape /\ SafetyInv => SerializedPerRelationship
  BY DEF SafetyInv, HoldsItsLock, SerializedPerRelationship
<1> QED
  BY <1>1, <1>2, SafetyStep, ShapeInvariant, PTL DEF Spec

(* No conversation is replaced by {} before it reached the memory tables.  *)
THEOREM NoUnreadScrub == Spec => []ScrubbedOnlyAfterConsolidation
<1>1. Init => SafetyInv
  BY DEF Init, SafetyInv, HoldsItsLock, KnowsConsolidated, ScrubbedOnlyAfterConsolidation, UnderLock
<1>2. SafetyInv => ScrubbedOnlyAfterConsolidation
  BY DEF SafetyInv
<1> QED
  BY <1>1, <1>2, SafetyStep, ShapeInvariant, PTL DEF Spec

-----------------------------------------------------------------------------
(* The account of a row's attempts. Every worker between its claim and its *)
(* last write to the row is one attempt charged, one that waits for the    *)
(* probe has not spent it, and one that may still put the row back with    *)
(* its attempt kept counts against the allowance. A row that can be        *)
(* claimed has one consolidation of its allowance left.                    *)
OnRow(j) == {w \in Workers : Engaged(w) /\ claim[w].job = j}
AtProbe(j) == {w \in OnRow(j) : pc[w] \in {"claimed", "deferring"}}
Retriers(j) == {w \in OnRow(j) : claim[w].attempt < MaxAttempts /\ pc[w] # "deferring"}

Disruptions == outages + overruns + faults

(* No further disruption is needed before the row is claimed again.        *)
Reclaimable(j) ==
  \/ status[j] \in {"absent", "queued"}
  \/ status[j] = "running" /\ (lease[j] = "past" \/ OnRow(j) = {})

WithinBudget(j) ==
  /\ tried[j] + Cardinality(AtProbe(j)) <= attempts[j]
  /\ Cardinality(OnRow(j)) <= Disruptions + 1
  /\ attempts[j] + Cardinality(Retriers(j)) <= MaxAttempts + Disruptions
  /\ Reclaimable(j) => /\ Cardinality(OnRow(j)) <= Disruptions
                       /\ attempts[j] + Cardinality(Retriers(j)) < MaxAttempts + Disruptions

BudgetInv == \A j \in Jobs : WithinBudget(j)

(* Sets of workers that differ in at most one of them.                     *)
LEMMA CountOne ==
  ASSUME NEW S \in SUBSET Workers, NEW T \in SUBSET Workers, NEW w, S \ {w} = T \ {w}
  PROVE  /\ Cardinality(S) \in Nat /\ Cardinality(T) \in Nat
         /\ (w \in S <=> w \in T) => Cardinality(T) = Cardinality(S)
         /\ w \in S /\ w \notin T => Cardinality(S) = Cardinality(T) + 1
         /\ w \notin S /\ w \in T => Cardinality(T) = Cardinality(S) + 1
<1>1. IsFiniteSet(S) /\ IsFiniteSet(T)
  BY FS_Subset
<1>2. Cardinality(S) \in Nat /\ Cardinality(T) \in Nat
  BY <1>1, FS_CardinalityType
<1>3. /\ Cardinality(S \ {w}) = IF w \in S THEN Cardinality(S) - 1 ELSE Cardinality(S)
      /\ Cardinality(T \ {w}) = IF w \in T THEN Cardinality(T) - 1 ELSE Cardinality(T)
  BY <1>1, FS_RemoveElement
<1>4. Cardinality(S \ {w}) = Cardinality(T \ {w})
  OBVIOUS
<1>5. CASE w \in S
  BY <1>2, <1>3, <1>4, <1>5
<1>6. CASE w \notin S
  BY <1>2, <1>3, <1>4, <1>6
<1> QED
  BY <1>5, <1>6

(* What the three counts of a row are, and that the retriers are engaged.  *)
LEMMA RowCounts ==
  ASSUME NEW j \in Jobs
  PROVE  /\ Cardinality(OnRow(j)) \in Nat /\ Cardinality(AtProbe(j)) \in Nat
         /\ Cardinality(Retriers(j)) \in Nat
         /\ Cardinality(Retriers(j)) <= Cardinality(OnRow(j))
         /\ OnRow(j) \in SUBSET Workers
<1>1. /\ OnRow(j) \in SUBSET Workers /\ AtProbe(j) \in SUBSET Workers
      /\ Retriers(j) \in SUBSET OnRow(j)
  BY DEF OnRow, AtProbe, Retriers
<1>2. IsFiniteSet(OnRow(j)) /\ IsFiniteSet(AtProbe(j)) /\ IsFiniteSet(Retriers(j))
  BY <1>1, FS_Subset
<1> QED
  BY <1>1, <1>2, FS_CardinalityType, FS_Subset

(* How a step of the worker w moves the counts of the row j.               *)
LEMMA CountsMove ==
  ASSUME NEW j \in Jobs, NEW w \in Workers,
         \A v \in Workers \ {w} : pc'[v] = pc[v] /\ claim'[v] = claim[v]
  PROVE  /\ Cardinality(OnRow(j)') \in Nat /\ Cardinality(AtProbe(j)') \in Nat
         /\ Cardinality(Retriers(j)') \in Nat
         /\ (w \in OnRow(j) <=> w \in OnRow(j)') =>
              Cardinality(OnRow(j)') = Cardinality(OnRow(j)) /\ OnRow(j)' = OnRow(j)
         /\ w \in OnRow(j) /\ w \notin OnRow(j)' =>
              Cardinality(OnRow(j)) = Cardinality(OnRow(j)') + 1
         /\ w \notin OnRow(j) /\ w \in OnRow(j)' =>
              Cardinality(OnRow(j)') = Cardinality(OnRow(j)) + 1
         /\ (w \in AtProbe(j) <=> w \in AtProbe(j)') =>
              Cardinality(AtProbe(j)') = Cardinality(AtProbe(j))
         /\ w \in AtProbe(j) /\ w \notin AtProbe(j)' =>
              Cardinality(AtProbe(j)) = Cardinality(AtProbe(j)') + 1
         /\ w \notin AtProbe(j) /\ w \in AtProbe(j)' =>
              Cardinality(AtProbe(j)') = Cardinality(AtProbe(j)) + 1
         /\ (w \in Retriers(j) <=> w \in Retriers(j)') =>
              Cardinality(Retriers(j)') = Cardinality(Retriers(j))
         /\ w \in Retriers(j) /\ w \notin Retriers(j)' =>
              Cardinality(Retriers(j)) = Cardinality(Retriers(j)') + 1
         /\ w \notin Retriers(j) /\ w \in Retriers(j)' =>
              Cardinality(Retriers(j)') = Cardinality(Retriers(j)) + 1
<1>1. /\ OnRow(j) \in SUBSET Workers /\ AtProbe(j) \in SUBSET Workers
      /\ Retriers(j) \in SUBSET Workers
      /\ OnRow(j)' \in SUBSET Workers /\ AtProbe(j)' \in SUBSET Workers
      /\ Retriers(j)' \in SUBSET Workers
  BY DEF OnRow, AtProbe, Retriers
<1>2. /\ OnRow(j) \ {w} = OnRow(j)' \ {w}
      /\ AtProbe(j) \ {w} = AtProbe(j)' \ {w}
      /\ Retriers(j) \ {w} = Retriers(j)' \ {w}
  BY DEF OnRow, AtProbe, Retriers, Engaged
<1>3. (w \in OnRow(j) <=> w \in OnRow(j)') => OnRow(j)' = OnRow(j)
  BY <1>2
<1> HIDE DEF OnRow, AtProbe, Retriers
<1> QED
  BY <1>1, <1>2, <1>3, CountOne

(* The counters of a table are numbers.                                    *)
LEMMA Numbers ==
  ASSUME Shape, Shape', NEW j \in Jobs
  PROVE  /\ attempts[j] \in Int /\ attempts'[j] \in Int /\ tried[j] \in Nat
         /\ Disruptions \in Nat /\ Disruptions' \in Nat
<1>1. attempts[j] \in Int /\ tried[j] \in Nat
  BY DEF Shape, TableOK
<1>2. attempts'[j] \in Int
  BY DEF Shape, TableOK
<1>3. outages \in Nat /\ overruns \in Nat /\ faults \in Nat
  BY DEF Shape
<1>4. outages' \in Nat /\ overruns' \in Nat /\ faults' \in Nat
  BY DEF Shape
<1>5. \A a, b, c \in Nat : a + b + c \in Nat
  OBVIOUS
<1>6. outages + overruns + faults \in Nat /\ outages' + overruns' + faults' \in Nat
  BY <1>3, <1>4, <1>5
<1> QED
  BY <1>1, <1>2, <1>6 DEF Disruptions

(* A step elsewhere: the row is not written and its workers stay where     *)
(* they were, however many disruptions there are by now.                   *)
LEMMA BudgetElsewhere ==
  ASSUME Shape, Shape', NEW j \in Jobs, WithinBudget(j), NEW w \in Workers,
         \A v \in Workers \ {w} : pc'[v] = pc[v] /\ claim'[v] = claim[v],
         w \notin OnRow(j), w \notin OnRow(j)',
         status'[j] = status[j], lease'[j] = lease[j],
         attempts'[j] = attempts[j], tried'[j] = tried[j],
         Disruptions <= Disruptions'
  PROVE  WithinBudget(j)'
<1>1. /\ w \notin AtProbe(j) /\ w \notin AtProbe(j)'
      /\ w \notin Retriers(j) /\ w \notin Retriers(j)'
  BY DEF AtProbe, Retriers
<1>2. /\ OnRow(j)' = OnRow(j) /\ Cardinality(OnRow(j)') = Cardinality(OnRow(j))
      /\ Cardinality(AtProbe(j)') = Cardinality(AtProbe(j))
      /\ Cardinality(Retriers(j)') = Cardinality(Retriers(j))
  BY <1>1, CountsMove
<1>3. Reclaimable(j)' <=> Reclaimable(j)
  BY <1>2 DEF Reclaimable
<1>4. /\ attempts[j] \in Int /\ tried[j] \in Nat
      /\ Disruptions \in Nat /\ Disruptions' \in Nat
  BY Numbers
<1> QED
  BY <1>2, <1>3, <1>4, RowCounts DEF WithinBudget

(* The last step of a worker on its row. The row is settled for good, or   *)
(* put back by a worker that hands its attempt back or has one left, or    *)
(* the worker was disrupted.                                               *)
LEMMA BudgetLeaving ==
  ASSUME Shape, Shape', NEW j \in Jobs, WithinBudget(j), NEW w \in Workers,
         \A v \in Workers \ {w} : pc'[v] = pc[v] /\ claim'[v] = claim[v],
         w \in OnRow(j), w \notin OnRow(j)', tried'[j] = tried[j],
         \/ attempts'[j] = attempts[j]
         \/ pc[w] = "deferring" /\ attempts'[j] = attempts[j] - 1,
         \/ Disruptions' = Disruptions + 1
         \/ /\ Disruptions' = Disruptions
            /\ \/ status'[j] \in {"completed", "failed"}
               \/ attempts'[j] = attempts[j] - 1
               \/ w \in Retriers(j)
  PROVE  WithinBudget(j)'
<1>1. /\ w \notin AtProbe(j)' /\ w \notin Retriers(j)'
      /\ pc[w] = "deferring" => w \in AtProbe(j)
  BY DEF AtProbe, Retriers
<1>2. /\ Cardinality(OnRow(j)) = Cardinality(OnRow(j)') + 1
      /\ w \in AtProbe(j) => Cardinality(AtProbe(j)) = Cardinality(AtProbe(j)') + 1
      /\ w \notin AtProbe(j) => Cardinality(AtProbe(j)') = Cardinality(AtProbe(j))
      /\ w \in Retriers(j) => Cardinality(Retriers(j)) = Cardinality(Retriers(j)') + 1
      /\ w \notin Retriers(j) => Cardinality(Retriers(j)') = Cardinality(Retriers(j))
      /\ Cardinality(OnRow(j)') \in Nat /\ Cardinality(AtProbe(j)') \in Nat
      /\ Cardinality(Retriers(j)') \in Nat
  BY <1>1, CountsMove
<1>3. Reclaimable(j)' => status'[j] \notin {"completed", "failed"}
  BY DEF Reclaimable
<1>4. /\ attempts[j] \in Int /\ attempts'[j] \in Int /\ tried[j] \in Nat
      /\ Disruptions \in Nat /\ Disruptions' \in Nat
  BY Numbers
<1>5. /\ tried[j] + Cardinality(AtProbe(j)) <= attempts[j]
      /\ Cardinality(OnRow(j)) <= Disruptions + 1
      /\ attempts[j] + Cardinality(Retriers(j)) <= MaxAttempts + Disruptions
  BY DEF WithinBudget
<1>6. tried'[j] + Cardinality(AtProbe(j)') <= attempts'[j]
  BY <1>1, <1>2, <1>4, <1>5
<1>7. /\ Cardinality(OnRow(j)') <= Disruptions'
      /\ attempts'[j] + Cardinality(Retriers(j)') <= MaxAttempts + Disruptions'
  BY <1>2, <1>4, <1>5
<1>8. Reclaimable(j)' => attempts'[j] + Cardinality(Retriers(j)') < MaxAttempts + Disruptions'
  BY <1>2, <1>3, <1>4, <1>5
<1> QED
  BY <1>2, <1>4, <1>6, <1>7, <1>8 DEF WithinBudget

(* A step of a worker that stays on its row: it may be granted the lock,   *)
(* and the row may be completed under it.                                  *)
LEMMA BudgetStaying ==
  ASSUME Shape, Shape', NEW j \in Jobs, WithinBudget(j), NEW w \in Workers,
         \A v \in Workers \ {w} : pc'[v] = pc[v] /\ claim'[v] = claim[v],
         w \in OnRow(j), w \in OnRow(j)', claim'[w] = claim[w],
         attempts'[j] = attempts[j], Disruptions <= Disruptions',
         status'[j] = "completed" \/ (status'[j] = status[j] /\ lease'[j] = lease[j]),
         w \in AtProbe(j)' => w \in AtProbe(j),
         w \in Retriers(j)' => w \in Retriers(j),
         \/ tried'[j] = tried[j]
         \/ w \in AtProbe(j) /\ w \notin AtProbe(j)' /\ tried'[j] = tried[j] + 1
  PROVE  WithinBudget(j)'
<1>2. /\ OnRow(j)' = OnRow(j) /\ Cardinality(OnRow(j)') = Cardinality(OnRow(j))
      /\ Cardinality(AtProbe(j)') <= Cardinality(AtProbe(j))
      /\ w \in AtProbe(j) /\ w \notin AtProbe(j)' =>
           Cardinality(AtProbe(j)) = Cardinality(AtProbe(j)') + 1
      /\ Cardinality(Retriers(j)') <= Cardinality(Retriers(j))
      /\ Cardinality(AtProbe(j)') \in Nat /\ Cardinality(Retriers(j)') \in Nat
  BY CountsMove, RowCounts
<1>3. Reclaimable(j)' => Reclaimable(j)
  BY <1>2 DEF Reclaimable
<1>4. /\ attempts[j] \in Int /\ tried[j] \in Nat
      /\ Disruptions \in Nat /\ Disruptions' \in Nat
  BY Numbers
<1>5. tried'[j] + Cardinality(AtProbe(j)') <= attempts'[j]
  BY <1>2, <1>4, RowCounts DEF WithinBudget
<1> QED
  BY <1>2, <1>3, <1>4, <1>5, RowCounts DEF WithinBudget

(* A claim takes a row that has a consolidation left; the worker on it may *)
(* retry only below the allowance.                                         *)
LEMMA BudgetClaim ==
  ASSUME Shape, Shape', BudgetInv, NEW w \in Workers, NEW j \in Jobs,
         Claim(w, j) \/ ClaimLost(w, j)
  PROVE  WithinBudget(j)'
<1> DEFINE s == Cardinality(OnRow(j))
           u == Cardinality(AtProbe(j))
           r == Cardinality(Retriers(j))
<1>1. /\ TakeLease(j) /\ UNCHANGED tried /\ pc[w] = "idle"
      /\ \A v \in Workers \ {w} : pc'[v] = pc[v] /\ claim'[v] = claim[v]
  BY DEF Claim, ClaimLost, process, Shape, InstancesOK
<1>2. Reclaimable(j) /\ status'[j] = "running" /\ lease'[j] = "pending"
      /\ attempts'[j] = attempts[j] + 1
  BY <1>1 DEF TakeLease, Claimable, Reclaimable, Shape, TableOK
<1>3. /\ attempts[j] \in Int /\ tried[j] \in Nat
      /\ Disruptions \in Nat /\ Disruptions' \in Nat
  BY Numbers
<1>4. /\ tried[j] + u <= attempts[j] /\ s <= Disruptions
      /\ attempts[j] + r < MaxAttempts + Disruptions
  BY <1>2 DEF BudgetInv, WithinBudget
<1>5. w \notin OnRow(j) /\ w \notin AtProbe(j) /\ w \notin Retriers(j)
  BY <1>1 DEF OnRow, AtProbe, Retriers, Engaged
<1>6. s \in Nat /\ u \in Nat /\ r \in Nat /\ r <= s
  BY RowCounts
<1>7. CASE Claim(w, j)
  <2>1. /\ pc'[w] = "claimed" /\ claim'[w].job = j /\ claim'[w].attempt = attempts[j] + 1
        /\ Disruptions' = Disruptions
    BY <1>7 DEF Claim, Shape, InstancesOK, bounds, Disruptions
  <2>2. /\ w \in OnRow(j)' /\ w \in AtProbe(j)'
        /\ w \in Retriers(j)' <=> attempts[j] + 1 < MaxAttempts
    BY <2>1 DEF OnRow, AtProbe, Retriers, Engaged
  <2>3. /\ Cardinality(OnRow(j)') = s + 1 /\ Cardinality(AtProbe(j)') = u + 1
        /\ w \notin Retriers(j)' => Cardinality(Retriers(j)') = r
        /\ w \in Retriers(j)' => Cardinality(Retriers(j)') = r + 1
    BY <1>1, <1>5, <2>2, CountsMove
  <2>4. ~ Reclaimable(j)'
    BY <1>2, <2>2 DEF Reclaimable
  <2>5. attempts'[j] + Cardinality(Retriers(j)') <= MaxAttempts + Disruptions'
    <3> HIDE DEF s, u, r
    <3>1. CASE attempts[j] + 1 < MaxAttempts
      BY <3>1, <1>2, <1>3, <1>4, <1>6, <2>1, <2>2, <2>3
    <3>2. CASE ~ (attempts[j] + 1 < MaxAttempts)
      BY <3>2, <1>2, <1>3, <1>4, <1>6, <2>1, <2>2, <2>3
    <3> QED
      BY <3>1, <3>2
  <2>6. /\ tried'[j] + Cardinality(AtProbe(j)') <= attempts'[j]
        /\ Cardinality(OnRow(j)') <= Disruptions' + 1
    <3> HIDE DEF s, u, r
    <3> QED
      BY <1>1, <1>2, <1>3, <1>4, <1>6, <2>1, <2>3
  <2> QED
    BY <2>4, <2>5, <2>6 DEF WithinBudget
<1>8. CASE ClaimLost(w, j)
  <2>1. /\ Disruptions' = Disruptions + 1 /\ UNCHANGED <<pc, claim>>
    BY <1>8 DEF ClaimLost, Fault, process, Disruptions, Shape
  <2>2. UNCHANGED <<OnRow(j), AtProbe(j), Retriers(j)>>
    BY <2>1 DEF OnRow, AtProbe, Retriers, Engaged
  <2>3. /\ tried'[j] + Cardinality(AtProbe(j)') <= attempts'[j]
        /\ Cardinality(OnRow(j)') <= Disruptions'
        /\ attempts'[j] + Cardinality(Retriers(j)') < MaxAttempts + Disruptions'
    <3>1. Cardinality(OnRow(j)') = s /\ Cardinality(AtProbe(j)') = u /\ Cardinality(Retriers(j)') = r
      BY <2>2
    <3> HIDE DEF s, u, r
    <3> QED
      BY <3>1, <1>1, <1>2, <1>3, <1>4, <1>6, <2>1
  <2>4. Cardinality(OnRow(j)') \in Nat /\ Cardinality(Retriers(j)') \in Nat
    BY <2>2, RowCounts
  <2> QED
    BY <1>2, <1>3, <2>1, <2>3, <2>4 DEF WithinBudget
<1> QED
  BY <1>7, <1>8

(* A step of a worker that writes its own row only.                        *)
LEMMA BudgetOneRow ==
  ASSUME Shape, Shape', BudgetInv, NEW j \in Jobs, NEW w \in Workers,
         \A v \in Workers \ {w} : pc'[v] = pc[v] /\ claim'[v] = claim[v],
         \A k \in Jobs \ {j} : /\ status'[k] = status[k] /\ lease'[k] = lease[k]
                              /\ attempts'[k] = attempts[k] /\ tried'[k] = tried[k]
                              /\ w \notin OnRow(k) /\ w \notin OnRow(k)',
         Disruptions <= Disruptions', WithinBudget(j)'
  PROVE  BudgetInv'
<1> SUFFICES ASSUME NEW k \in Jobs, k # j PROVE WithinBudget(k)'
  BY DEF BudgetInv
<1> QED
  BY BudgetElsewhere DEF BudgetInv

(* What a throwing step, and one that does not throw, adds to the count.   *)
LEMMA Disrupted ==
  ASSUME Shape, Shape'
  PROVE  /\ UNCHANGED bounds => Disruptions' = Disruptions
         /\ Fault => Disruptions' = Disruptions + 1
         /\ UNCHANGED <<overruns, faults>> /\ outages' = outages + 1 =>
              Disruptions' = Disruptions + 1
         /\ UNCHANGED <<outages, faults>> /\ overruns' = overruns + 1 =>
              Disruptions' = Disruptions + 1
<1>1. \A a, b, c \in Nat : /\ (a + 1) + b + c = (a + b + c) + 1
                           /\ a + (b + 1) + c = (a + b + c) + 1
                           /\ a + b + (c + 1) = (a + b + c) + 1
  OBVIOUS
<1>2. outages \in Nat /\ overruns \in Nat /\ faults \in Nat
  BY DEF Shape
<1> QED
  BY <1>1, <1>2 DEF Disruptions, bounds, Fault

(* Each way a worker ends its work on a row keeps the row within budget.   *)
LEMMA BudgetEnd ==
  ASSUME Shape, Shape', BudgetInv, NEW w \in Workers,
         \/ RejectInvalid(w) \/ Defer(w) \/ Complete(w) \/ Settle(w)
         \/ AcquireThrows(w)
         \/ Engaged(w) /\ Crash(w)
         \/ \E applied \in BOOLEAN : UnlockedWriteThrows(w, applied) \/ SettleThrows(w, applied)
  PROVE  BudgetInv'
<1>1. /\ pc[w] # "idle" /\ Engaged(w) /\ ~ Engaged(w)' /\ UNCHANGED tried
      /\ \A v \in Workers \ {w} : pc'[v] = pc[v] /\ claim'[v] = claim[v]
  BY DEF RejectInvalid, Defer, Complete, Settle, AcquireThrows, Crash, UnlockedWriteThrows,
         SettleThrows, GoIdle, GoTo, Engaged, Shape, InstancesOK
<1>2. PICK j \in Jobs : j = claim[w].job
  BY <1>1, ClaimedJob DEF Shape
<1>0. claim[w].attempt \in Int
  BY <1>1, ClaimedJob DEF Shape
<1>3. w \in OnRow(j) /\ \A k \in Jobs : w \notin OnRow(k)' /\ (k # j => w \notin OnRow(k))
  BY <1>1, <1>2 DEF OnRow
<1>4. attempts[j] - 0 = attempts[j] /\ attempts[j] \in Int
  <2>1. attempts[j] \in Int
    BY <1>2, Numbers
  <2> QED
    BY <2>1
<1>5. \/ /\ UNCHANGED table /\ Disruptions' = Disruptions + 1
      \/ /\ FinishCompleted(j) \/ FinishFailed(j)
         /\ Disruptions' \in {Disruptions, Disruptions + 1}
      \/ /\ pc[w] = "deferring" /\ Requeue(j, 1)
         /\ Disruptions' \in {Disruptions, Disruptions + 1}
      \/ /\ pc[w] = "raised" /\ claim[w].attempt < MaxAttempts /\ Requeue(j, 0)
         /\ Disruptions' \in {Disruptions, Disruptions + 1}
  <2> USE Disrupted, <1>2
  <2>1. CASE RejectInvalid(w)
    BY <2>1 DEF RejectInvalid
  <2>2. CASE Defer(w)
    BY <2>2 DEF Defer
  <2>3. CASE Complete(w)
    BY <2>3 DEF Complete
  <2>4. CASE Settle(w)
    BY <2>4, <1>0 DEF Settle, GiveUpOrRetry
  <2>5. CASE AcquireThrows(w)
    BY <2>5 DEF AcquireThrows
  <2>6. CASE Crash(w)
    BY <2>6 DEF Crash
  <2>7. ASSUME NEW applied \in BOOLEAN, UnlockedWriteThrows(w, applied) PROVE <1>5!:
    BY <2>7 DEF UnlockedWriteThrows
  <2>8. ASSUME NEW applied \in BOOLEAN, SettleThrows(w, applied) PROVE <1>5!:
    BY <2>8, <1>0 DEF SettleThrows, GiveUpOrRetry
  <2> QED
    BY <2>1, <2>2, <2>3, <2>4, <2>5, <2>6, <2>7, <2>8
<1>6. \A k \in Jobs \ {j} : /\ status'[k] = status[k] /\ lease'[k] = lease[k]
                            /\ attempts'[k] = attempts[k] /\ tried'[k] = tried[k]
  BY <1>1, <1>2, <1>5 DEF table, FinishCompleted, FinishFailed, Requeue, Shape, TableOK
<1>7. \/ attempts'[j] = attempts[j]
      \/ pc[w] = "deferring" /\ attempts'[j] = attempts[j] - 1
  BY <1>2, <1>4, <1>5 DEF table, FinishCompleted, FinishFailed, Requeue, Shape, TableOK
<1>8. \/ Disruptions' = Disruptions + 1
      \/ /\ Disruptions' = Disruptions
         /\ \/ status'[j] \in {"completed", "failed"}
            \/ attempts'[j] = attempts[j] - 1
            \/ w \in Retriers(j)
  <2>1. FinishCompleted(j) \/ FinishFailed(j) => status'[j] \in {"completed", "failed"}
    BY <1>2 DEF FinishCompleted, FinishFailed, Shape, TableOK
  <2>2. Requeue(j, 1) => attempts'[j] = attempts[j] - 1
    BY <1>2 DEF Requeue, Shape, TableOK
  <2>3. pc[w] = "raised" /\ claim[w].attempt < MaxAttempts => w \in Retriers(j)
    BY <1>2, <1>3 DEF Retriers, OnRow
  <2> QED
    BY <1>5, <2>1, <2>2, <2>3
<1>9. Disruptions <= Disruptions'
  <2>1. Disruptions' \in {Disruptions, Disruptions + 1}
    BY <1>8
  <2> QED
    BY <2>1, <1>2, Numbers
<1>10. WithinBudget(j)'
  BY <1>1, <1>2, <1>3, <1>7, <1>8, BudgetLeaving DEF BudgetInv
<1> QED
  BY <1>1, <1>2, <1>3, <1>6, <1>9, <1>10, BudgetOneRow

(* So does every step in between.                                          *)
LEMMA BudgetMidway ==
  ASSUME Shape, Shape', BudgetInv, NEW w \in Workers,
         \/ Acquire(w) \/ FindBusy(w) \/ Consolidate(w)
         \/ \E applied \in BOOLEAN : CompleteThrows(w, applied)
  PROVE  BudgetInv'
<1>1. /\ pc[w] # "idle" /\ Engaged(w) /\ Engaged(w)' /\ claim' = claim
      /\ \A v \in Workers \ {w} : pc'[v] = pc[v] /\ claim'[v] = claim[v]
      /\ pc[w] \notin {"claimed", "deferring"} => pc'[w] \notin {"claimed", "deferring"}
      /\ pc[w] # "deferring"
  BY DEF Acquire, FindBusy, Consolidate, CompleteThrows, GoTo, Engaged, Shape, InstancesOK
<1>2. PICK j \in Jobs : j = claim[w].job
  BY <1>1, ClaimedJob DEF Shape
<1>3. /\ w \in OnRow(j) /\ w \in OnRow(j)'
      /\ \A k \in Jobs : k # j => w \notin OnRow(k) /\ w \notin OnRow(k)'
  BY <1>1, <1>2 DEF OnRow
<1>4. /\ w \in AtProbe(j)' => w \in AtProbe(j)
      /\ w \in Retriers(j)' => w \in Retriers(j)
  BY <1>1, <1>2, <1>3 DEF AtProbe, Retriers
<1>5. UNCHANGED attempts /\ (FinishCompleted(j) \/ UNCHANGED <<status, lease>>)
  BY <1>2 DEF Acquire, FindBusy, Consolidate, CompleteThrows, table, FinishCompleted
<1>6. Disruptions' \in {Disruptions, Disruptions + 1}
  BY Disrupted DEF Acquire, FindBusy, Consolidate, CompleteThrows
<1>7. \/ UNCHANGED tried
      \/ /\ w \in AtProbe(j) /\ w \notin AtProbe(j)'
         /\ tried' = [tried EXCEPT ![j] = @ + 1]
  BY <1>1, <1>2, <1>3 DEF Acquire, FindBusy, Consolidate, CompleteThrows, AtProbe, GoTo, Shape, InstancesOK
<1>8. \A k \in Jobs \ {j} : /\ status'[k] = status[k] /\ lease'[k] = lease[k]
                            /\ attempts'[k] = attempts[k] /\ tried'[k] = tried[k]
  BY <1>2, <1>5, <1>7 DEF FinishCompleted, Shape, TableOK
<1>9. /\ attempts'[j] = attempts[j]
      /\ \/ status'[j] = "completed"
         \/ status'[j] = status[j] /\ lease'[j] = lease[j]
  <2>1. FinishCompleted(j) => status'[j] = "completed"
    BY <1>2 DEF FinishCompleted, Shape, TableOK
  <2> QED
    BY <1>5, <2>1
<1>10. \/ tried'[j] = tried[j]
       \/ w \in AtProbe(j) /\ w \notin AtProbe(j)' /\ tried'[j] = tried[j] + 1
  BY <1>2, <1>7 DEF Shape
<1>11. Disruptions <= Disruptions'
  BY <1>6, <1>2, Numbers
<1>12. WithinBudget(j)'
  BY <1>1, <1>2, <1>3, <1>4, <1>9, <1>10, <1>11, BudgetStaying DEF BudgetInv
<1> QED
  BY <1>1, <1>2, <1>3, <1>8, <1>11, <1>12, BudgetOneRow

(* The producer and the clock. A lease that lapses under an engaged worker *)
(* is a disruption of its own.                                             *)
LEMMA BudgetClock ==
  ASSUME Shape, Shape', BudgetInv, NEW j \in Jobs, Enqueue(j) \/ TimePasses(j)
  PROVE  BudgetInv'
<1> SUFFICES ASSUME NEW k \in Jobs PROVE WithinBudget(k)'
  BY DEF BudgetInv
<1>1. UNCHANGED <<attempts, tried, pc, claim>>
  BY DEF Enqueue, TimePasses, process
<1>2. UNCHANGED <<OnRow(k), AtProbe(k), Retriers(k)>>
  BY <1>1 DEF OnRow, AtProbe, Retriers, Engaged
<1>3. \/ Disruptions' = Disruptions /\ (Reclaimable(k)' => Reclaimable(k))
      \/ Disruptions' = Disruptions + 1
  <2>1. CASE Enqueue(j)
    BY <2>1, <1>2, Disrupted DEF Enqueue, Reclaimable, Shape, TableOK
  <2>2. CASE TimePasses(j)
    <3>1. status[j] = "running" /\ OnJob(j) => Disruptions' = Disruptions + 1
      BY <2>2, Disrupted DEF TimePasses
    <3>2. ~ (status[j] = "running" /\ OnJob(j)) => Disruptions' = Disruptions
      BY <2>2 DEF TimePasses, Disruptions
    <3>3. ~ (status[j] = "running" /\ OnJob(j)) => (Reclaimable(k)' => Reclaimable(k))
      BY <2>2, <1>2 DEF TimePasses, Reclaimable, OnJob, OnRow, Shape, TableOK
    <3> QED
      BY <3>1, <3>2, <3>3
  <2> QED
    BY <2>1, <2>2
<1>4. /\ Cardinality(OnRow(k)') = Cardinality(OnRow(k))
      /\ Cardinality(AtProbe(k)') = Cardinality(AtProbe(k))
      /\ Cardinality(Retriers(k)') = Cardinality(Retriers(k))
      /\ attempts'[k] = attempts[k] /\ tried'[k] = tried[k]
  BY <1>1, <1>2
<1>5. WithinBudget(k)
  BY DEF BudgetInv
<1> QED
  BY <1>3, <1>4, <1>5, Numbers, RowCounts DEF WithinBudget

(* Every step keeps every row within its budget.                           *)
LEMMA BudgetStep == Shape /\ Shape' /\ BudgetInv /\ [Next]_vars => BudgetInv'
<1> SUFFICES ASSUME Shape, Shape', BudgetInv, [Next]_vars PROVE BudgetInv'
  OBVIOUS
<1>1. ASSUME NEW w \in Workers, NEW j \in Jobs, Claim(w, j) \/ ClaimLost(w, j)
      PROVE  BudgetInv'
  <2>1. /\ pc[w] = "idle" /\ TakeLease(j) /\ UNCHANGED tried
        /\ \A v \in Workers \ {w} : pc'[v] = pc[v] /\ claim'[v] = claim[v]
        /\ pc'[w] = "idle" \/ claim'[w].job = j
    BY <1>1 DEF Claim, ClaimLost, process, Shape, InstancesOK
  <2>2. \A k \in Jobs \ {j} : w \notin OnRow(k) /\ w \notin OnRow(k)'
    BY <2>1 DEF OnRow, Engaged
  <2>3. \A k \in Jobs \ {j} : /\ status'[k] = status[k] /\ lease'[k] = lease[k]
                              /\ attempts'[k] = attempts[k] /\ tried'[k] = tried[k]
    BY <2>1 DEF TakeLease, Shape, TableOK
  <2>4. Disruptions' \in {Disruptions, Disruptions + 1}
    BY <1>1, Disrupted DEF Claim, ClaimLost
  <2>5. Disruptions <= Disruptions'
    BY <2>4, Numbers
  <2> QED
    BY <1>1, <2>1, <2>2, <2>3, <2>5, BudgetClaim, BudgetOneRow
<1>2. ASSUME NEW w \in Workers, \/ Release(w) \/ Stop(w) \/ Start(w)
                                \/ ~ Engaged(w) /\ Crash(w)
      PROVE  BudgetInv'
  <2>1. /\ UNCHANGED <<table, tried>>
        /\ \A v \in Workers \ {w} : pc'[v] = pc[v] /\ claim'[v] = claim[v]
        /\ \/ ~ Engaged(w) /\ ~ Engaged(w)'
           \/ pc'[w] = pc[w] /\ claim'[w] = claim[w]
        /\ Disruptions' \in {Disruptions, Disruptions + 1}
    <3>1. CASE Release(w)
      BY <3>1, Disrupted DEF Release, GoIdle, Engaged, Shape, InstancesOK
    <3>2. CASE Stop(w)
      BY <3>2, Disrupted DEF Stop
    <3>3. CASE Start(w)
      BY <3>3, Disrupted DEF Start
    <3>4. CASE ~ Engaged(w) /\ Crash(w)
      BY <3>4, Disrupted DEF Crash, GoIdle, Engaged, Shape, InstancesOK
    <3> QED
      BY <1>2, <3>1, <3>2, <3>3, <3>4
  <2> SUFFICES ASSUME NEW k \in Jobs PROVE WithinBudget(k)'
    BY DEF BudgetInv
  <2>2. UNCHANGED <<OnRow(k), AtProbe(k), Retriers(k)>>
    BY <2>1 DEF OnRow, AtProbe, Retriers, Engaged
  <2>3. /\ Cardinality(OnRow(k)') = Cardinality(OnRow(k))
        /\ Cardinality(AtProbe(k)') = Cardinality(AtProbe(k))
        /\ Cardinality(Retriers(k)') = Cardinality(Retriers(k))
        /\ attempts'[k] = attempts[k] /\ tried'[k] = tried[k]
        /\ Reclaimable(k)' => Reclaimable(k)
    BY <2>1, <2>2 DEF table, Reclaimable
  <2> QED
    BY <2>1, <2>3, Numbers, RowCounts DEF WithinBudget, BudgetInv
<1>3. CASE UNCHANGED vars
  BY <1>3 DEF vars, table, process, bounds, BudgetInv, WithinBudget, Reclaimable, Disruptions,
              OnRow, AtProbe, Retriers, Engaged
<1>4. ASSUME NEW w \in Workers, TickStep(w) PROVE BudgetInv'
  BY <1>2, <1>4, BudgetEnd, BudgetMidway DEF TickStep
<1>5. ASSUME NEW w \in Workers, Throws(w) PROVE BudgetInv'
  <2>1. CASE \E j \in Jobs : ClaimLost(w, j)
    <3>1. PICK j \in Jobs : ClaimLost(w, j)
      BY <2>1
    <3> QED
      BY <1>1, <3>1
  <2>2. CASE AcquireThrows(w)
    BY <2>2, BudgetEnd
  <2>3. ASSUME NEW applied \in BOOLEAN, UnlockedWriteThrows(w, applied) \/ SettleThrows(w, applied)
        PROVE  BudgetInv'
    BY <2>3, BudgetEnd
  <2>4. ASSUME NEW applied \in BOOLEAN, CompleteThrows(w, applied) PROVE BudgetInv'
    BY <2>4, BudgetMidway
  <2> QED
    BY <1>5, <2>1, <2>2, <2>3, <2>4 DEF Throws
<1>6. ASSUME NEW w \in Workers, Crash(w) PROVE BudgetInv'
  BY <1>2, <1>6, BudgetEnd
<1> QED
  BY <1>1, <1>2, <1>3, <1>4, <1>5, <1>6, BudgetClock DEF Next

(* Nothing is charged, spent or disrupted at the start.                    *)
LEMMA BudgetInit == Init => BudgetInv
<1> SUFFICES ASSUME Init, NEW j \in Jobs PROVE WithinBudget(j)
  BY DEF BudgetInv
<1>1. OnRow(j) = {} /\ AtProbe(j) = {} /\ Retriers(j) = {}
  BY DEF Init, OnRow, AtProbe, Retriers, Engaged
<1>2. attempts[j] = 0 /\ tried[j] = 0 /\ Disruptions = 0
  BY DEF Init, Disruptions
<1> QED
  BY <1>1, <1>2, FS_EmptySet DEF WithinBudget

(* The shape holds, and attempt_count never drops below zero: a deferral   *)
(* hands back what its own claim charged, whoever charged more since.      *)
THEOREM TypeInvariant == Spec => []TypeOK
<1>1. ASSUME Shape, BudgetInv, NEW j \in Jobs PROVE attempts[j] >= 0
  <2>1. attempts[j] \in Int /\ tried[j] \in Nat
    BY <1>1 DEF Shape, TableOK
  <2> QED
    BY <1>1, <2>1, RowCounts DEF BudgetInv, WithinBudget
<1>2. Shape /\ BudgetInv => TypeOK
  BY <1>1 DEF TypeOK
<1> QED
  BY <1>2, BudgetInit, BudgetStep, ShapeInvariant, PTL DEF Spec

(* However many instances reclaim, defer and retry a job, it is never      *)
(* consolidated more often than it is charged, nor charged more often than *)
(* maxAttempts and the disruptions allow.                                  *)
THEOREM ConsolidationsAreBounded == Spec => []TriedWithinAllowance
<1>1. ASSUME Shape, BudgetInv, NEW j \in Jobs
      PROVE  /\ tried[j] <= attempts[j]
             /\ attempts[j] <= MaxAttempts + outages + overruns + faults
  <2>1. /\ attempts[j] \in Int /\ tried[j] \in Nat
        /\ outages \in Nat /\ overruns \in Nat /\ faults \in Nat
    BY <1>1 DEF Shape, TableOK
  <2>2. /\ tried[j] + Cardinality(AtProbe(j)) <= attempts[j]
        /\ attempts[j] + Cardinality(Retriers(j)) <= MaxAttempts + (outages + overruns + faults)
    BY <1>1 DEF BudgetInv, WithinBudget, Disruptions
  <2> QED
    BY <2>1, <2>2, RowCounts
<1>2. Shape /\ BudgetInv => TriedWithinAllowance
  BY <1>1 DEF TriedWithinAllowance
<1> QED
  BY <1>2, BudgetInit, BudgetStep, ShapeInvariant, PTL DEF Spec

-----------------------------------------------------------------------------
(* With no lease lapsing under its worker and no statement throwing, a row *)
(* belongs to at most one engaged worker: it is running under an unexpired *)
(* lease, with the turns and the attempt that worker read. This is what    *)
(* makes the unconditional UPDATEs of tick() safe.                         *)
OwnsRow ==
  /\ \A w \in Workers : Engaged(w) =>
       /\ status[claim[w].job] = "running" /\ lease[claim[w].job] = "pending"
       /\ claim[w].payload = "turns" /\ claim[w].attempt = attempts[claim[w].job]
  /\ \A v, w \in Workers :
       Engaged(v) /\ Engaged(w) /\ claim[v].job = claim[w].job => v = w
  /\ \A j \in Jobs : payload[j] = "scrubbed" => status[j] = "completed"

(* An attempt was spent on a consolidation, lost to a crash, or is in the  *)
(* hands of a worker that has not been granted the lock yet.               *)
Undecided(j) == \E w \in Workers : pc[w] \in {"claimed", "deferring"} /\ claim[w].job = j

AttemptsAccounted ==
  /\ \A j \in Jobs :
       /\ attempts[j] <= tried[j] + outages + 1
       /\ Undecided(j) \/ attempts[j] <= tried[j] + outages
  /\ FailsOnlyAfterAllAttempts

CalmInv == OwnsRow /\ AttemptsAccounted

(* No attempt has been counted and no row is owned at the start.           *)
LEMMA CalmInit == Init => CalmInv
BY DEF Init, CalmInv, OwnsRow, AttemptsAccounted, FailsOnlyAfterAllAttempts, Engaged

(* A step that writes the row j alone keeps ownership if the workers that  *)
(* stay engaged have other rows, save for one that has just claimed j.     *)
LEMMA OwnerFrame ==
  ASSUME OwnsRow, InstancesOK, NEW j \in Jobs, NEW w \in Workers,
         \A k \in Jobs \ {j} : /\ status'[k] = status[k] /\ lease'[k] = lease[k]
                              /\ attempts'[k] = attempts[k] /\ payload'[k] = payload[k],
         payload'[j] = "scrubbed" => status'[j] = "completed",
         \A v \in Workers : Engaged(v)' =>
           \/ Engaged(v) /\ claim'[v] = claim[v] /\ claim[v].job # j
           \/ /\ v = w /\ claim'[w].job = j
              /\ status'[j] = "running" /\ lease'[j] = "pending"
              /\ claim'[w].payload = "turns" /\ claim'[w].attempt = attempts'[j]
  PROVE  OwnsRow'
<1>1. \A v \in Workers : Engaged(v) => claim[v].job \in Jobs
  BY ClaimedJob DEF Engaged
<1>2. ASSUME NEW v \in Workers, Engaged(v)'
      PROVE  /\ status'[claim'[v].job] = "running" /\ lease'[claim'[v].job] = "pending"
             /\ claim'[v].payload = "turns" /\ claim'[v].attempt = attempts'[claim'[v].job]
  <2>1. CASE Engaged(v) /\ claim'[v] = claim[v] /\ claim[v].job # j
    <3>1. claim[v].job \in Jobs \ {j}
      BY <1>1, <2>1
    <3>2. /\ status[claim[v].job] = "running" /\ lease[claim[v].job] = "pending"
          /\ claim[v].payload = "turns" /\ claim[v].attempt = attempts[claim[v].job]
      BY <2>1 DEF OwnsRow
    <3>3. /\ status'[claim[v].job] = status[claim[v].job]
          /\ lease'[claim[v].job] = lease[claim[v].job]
          /\ attempts'[claim[v].job] = attempts[claim[v].job]
      BY <3>1
    <3> QED
      BY <2>1, <3>2, <3>3
  <2> QED
    BY <1>2, <2>1
<1>3. ASSUME NEW u \in Workers, NEW v \in Workers, Engaged(u)', Engaged(v)',
             claim'[u].job = claim'[v].job
      PROVE  u = v
  BY <1>3 DEF OwnsRow
<1>4. \A k \in Jobs : payload'[k] = "scrubbed" => status'[k] = "completed"
  BY DEF OwnsRow
<1> QED
  BY <1>2, <1>3, <1>4 DEF OwnsRow

(* Once a step charges no attempt, the account stays balanced if no worker *)
(* gives up the benefit of the doubt and only spent jobs fail.             *)
LEMMA AccountFrame ==
  ASSUME AttemptsAccounted, Shape, UNCHANGED tried,
         outages' \in Nat, outages <= outages',
         \A k \in Jobs :
           /\ attempts'[k] \in Int /\ attempts'[k] <= attempts[k]
           /\ Undecided(k) => \/ Undecided(k)' \/ attempts'[k] <= tried[k] + outages
                              \/ outages' = outages + 1
           /\ status'[k] = "failed" => status[k] = "failed" \/ MaxAttempts <= tried[k] + outages
  PROVE  AttemptsAccounted'
<1> SUFFICES ASSUME NEW k \in Jobs
             PROVE  /\ attempts'[k] <= tried[k] + outages' + 1
                    /\ Undecided(k)' \/ attempts'[k] <= tried[k] + outages'
                    /\ status'[k] = "failed" => tried[k] + outages' >= MaxAttempts
  BY DEF AttemptsAccounted, FailsOnlyAfterAllAttempts
<1>1. /\ attempts[k] \in Int /\ tried[k] \in Nat /\ outages \in Nat
      /\ attempts'[k] \in Int /\ attempts'[k] <= attempts[k]
  BY DEF Shape, TableOK
<1>2. /\ attempts[k] <= tried[k] + outages + 1
      /\ Undecided(k) \/ attempts[k] <= tried[k] + outages
      /\ status[k] = "failed" => tried[k] + outages >= MaxAttempts
  BY DEF AttemptsAccounted, FailsOnlyAfterAllAttempts
<1>3. attempts'[k] <= tried[k] + outages' + 1
  BY <1>1, <1>2
<1>4. Undecided(k)' \/ attempts'[k] <= tried[k] + outages'
  BY <1>1, <1>2
<1>5. status'[k] = "failed" => tried[k] + outages' >= MaxAttempts
  <2>1. status'[k] = "failed" => tried[k] + outages >= MaxAttempts
    BY <1>1, <1>2
  <2> QED
    BY <2>1, <1>1
<1> QED
  BY <1>3, <1>4, <1>5

(* Without lapsed leases and failing statements, each step keeps the rows  *)
(* owned and the attempts accounted for, and no completed job changes.     *)
LEMMA CalmStep ==
  ASSUME MaxOverruns = 0, MaxFaults = 0, Shape, CalmInv, [Next]_vars
  PROVE  CalmInv' /\ \A j \in Jobs : status[j] = "completed" => status'[j] = "completed"
<1> DEFINE Final == \A j \in Jobs : status[j] = "completed" => status'[j] = "completed"
<1> SUFFICES OwnsRow' /\ AttemptsAccounted' /\ Final
  BY DEF CalmInv
<1> USE DEF CalmInv, table, process, bounds
<1>0. ~ Fault /\ overruns \in 0..MaxOverruns
  BY DEF Fault, Shape
<1>a. \A w \in Workers : pc[w] # "idle" => claim[w].job \in Jobs
  BY ClaimedJob DEF Shape
<1>t. TableOK /\ InstancesOK /\ tried \in [Jobs -> Nat]
  BY DEF Shape
<1>n. outages \in Nat /\ \A k \in Jobs : attempts[k] \in Int /\ tried[k] \in Nat
  BY DEF Shape, TableOK
<1>1. ASSUME NEW j \in Jobs, Enqueue(j) PROVE OwnsRow' /\ AttemptsAccounted' /\ Final
  <2>1. OwnsRow' /\ Final
    BY <1>1, <1>a, <1>t DEF Enqueue, OwnsRow, Engaged, TableOK
  <2>2. AttemptsAccounted'
    BY <1>1, <1>t, <1>n DEF Enqueue, AttemptsAccounted, Undecided, FailsOnlyAfterAllAttempts, TableOK
  <2> QED
    BY <2>1, <2>2
<1>2. ASSUME NEW j \in Jobs, TimePasses(j) PROVE OwnsRow' /\ AttemptsAccounted' /\ Final
  <2>1. /\ lease' = [lease EXCEPT ![j] = "past"] /\ UNCHANGED <<status, attempts, payload, pc, claim>>
        /\ ~ (status[j] = "running" /\ OnJob(j))
    BY <1>2, <1>0 DEF TimePasses
  <2>3. \A w \in Workers : Engaged(w) => claim[w].job # j
    BY <2>1 DEF OwnsRow, OnJob
  <2>4. OwnsRow'
    <3>1. \A k \in Jobs : k # j => lease'[k] = lease[k]
      BY <2>1, <1>t DEF TableOK
    <3> QED
      BY <1>a, <2>1, <2>3, <3>1 DEF OwnsRow, Engaged
  <2>5. Final
    BY <2>1
  <2>2. AttemptsAccounted'
    BY <1>2, <1>t, <1>n DEF TimePasses, AttemptsAccounted, Undecided, FailsOnlyAfterAllAttempts, TableOK
  <2> QED
    BY <2>2, <2>4, <2>5
<1>3. ASSUME NEW w \in Workers, NEW j \in Jobs, Claim(w, j)
      PROVE  OwnsRow' /\ AttemptsAccounted' /\ Final
  <2>1. /\ status' = [status EXCEPT ![j] = "running"] /\ lease' = [lease EXCEPT ![j] = "pending"]
        /\ attempts' = [attempts EXCEPT ![j] = @ + 1] /\ payload' = payload
        /\ Claimable(j) /\ pc[w] = "idle" /\ pc' = [pc EXCEPT ![w] = "claimed"]
        /\ claim' = [claim EXCEPT ![w] =
             [job |-> j, attempt |-> attempts[j] + 1, payload |-> payload[j]]]
        /\ UNCHANGED <<tried, outages>>
    BY <1>3 DEF Claim, TakeLease
  <2>2. \A v \in Workers : Engaged(v) => claim[v].job # j
    BY <2>1 DEF Claimable, OwnsRow
  <2>3. status[j] # "completed" /\ payload[j] = "turns"
    BY <2>1, <1>t DEF Claimable, OwnsRow, TableOK, Payloads
  <2>4. /\ claim'[w].job = j /\ claim'[w].payload = "turns"
        /\ claim'[w].attempt = attempts'[j] /\ Engaged(w)' /\ pc'[w] = "claimed"
    BY <2>1, <2>3, <1>t DEF TableOK, InstancesOK, Engaged
  <2>5. \A v \in Workers \ {w} : pc'[v] = pc[v] /\ claim'[v] = claim[v] /\ Engaged(v)' = Engaged(v)
    BY <2>1, <1>t DEF InstancesOK, Engaged
  <2>6. \A k \in Jobs \ {j} : /\ status'[k] = status[k] /\ lease'[k] = lease[k]
                              /\ attempts'[k] = attempts[k] /\ payload'[k] = payload[k]
    BY <2>1, <1>t DEF TableOK
  <2>7. status'[j] = "running" /\ lease'[j] = "pending" /\ payload'[j] = "turns"
    BY <2>1, <2>3, <1>t DEF TableOK
  <2>8. OwnsRow'
    BY <2>2, <2>4, <2>5, <2>6, <2>7, <1>t, OwnerFrame
  <2>9. \A k \in Jobs : Undecided(k) => Undecided(k)'
    BY <2>1, <2>5 DEF Undecided
  <2>10. Undecided(j)'
    BY <2>4 DEF Undecided
  <2>11. attempts'[j] = attempts[j] + 1
    BY <2>1, <1>t DEF TableOK
  <2>12. attempts[j] <= tried[j] + outages
    BY <2>2, <1>n DEF AttemptsAccounted, Undecided, Engaged
  <2>13. AttemptsAccounted'
    BY <2>1, <2>6, <2>7, <2>9, <2>10, <2>11, <2>12
      , <1>t, <1>n DEF AttemptsAccounted, FailsOnlyAfterAllAttempts, TableOK
  <2> QED
    BY <2>3, <2>6, <2>8, <2>13
<1>4. ASSUME NEW w \in Workers, Acquire(w) PROVE OwnsRow' /\ AttemptsAccounted' /\ Final
  <2>1. OwnsRow' /\ Final
    BY <1>4, <1>t DEF Acquire, GoTo, OwnsRow, Engaged, InstancesOK
  <2>2. claim[w].job \in Jobs /\ tried' = [tried EXCEPT ![claim[w].job] = @ + 1] /\ UNCHANGED <<status, attempts, outages, claim>>
    BY <1>4, <1>a DEF Acquire, GoTo
  <2>3. \A k \in Jobs : Undecided(k) => Undecided(k)' \/ k = claim[w].job
    BY <1>4, <2>2, <1>t DEF Acquire, GoTo, Undecided, InstancesOK
  <2>4. \A k \in Jobs : tried'[k] = IF k = claim[w].job THEN tried[k] + 1 ELSE tried[k]
    BY <2>2, <1>t
  <2>5. AttemptsAccounted'
    BY <2>2, <2>3, <2>4, <1>t, <1>n DEF AttemptsAccounted, FailsOnlyAfterAllAttempts, TableOK
  <2> QED
    BY <2>1, <2>5
<1>5. ASSUME NEW w \in Workers, FindBusy(w) \/ Consolidate(w)
      PROVE  OwnsRow' /\ AttemptsAccounted' /\ Final
  <2>1. /\ UNCHANGED <<table, claim, tried, outages>> /\ Engaged(w)
        /\ \/ pc[w] = "claimed" /\ pc' = [pc EXCEPT ![w] = "deferring"]
           \/ pc[w] = "consolidating" /\ pc' = [pc EXCEPT ![w] = "consolidated"]
           \/ pc[w] = "consolidating" /\ pc' = [pc EXCEPT ![w] = "raised"]
    BY <1>5 DEF FindBusy, Consolidate, GoTo, Engaged
  <2>2. OwnsRow' /\ Final
    BY <2>1, <1>t DEF OwnsRow, Engaged, InstancesOK
  <2>3. \A k \in Jobs : Undecided(k)' = Undecided(k)
    BY <2>1, <1>t DEF Undecided, InstancesOK
  <2>4. AttemptsAccounted'
    BY <2>1, <2>3, <1>n DEF AttemptsAccounted, FailsOnlyAfterAllAttempts
  <2> QED
    BY <2>2, <2>4
<1>6. ASSUME NEW w \in Workers, Defer(w) \/ Complete(w) \/ Settle(w)
      PROVE  OwnsRow' /\ AttemptsAccounted' /\ Final
  <2> DEFINE j == claim[w].job
  <2>1. j \in Jobs /\ Engaged(w) /\ status[j] = "running" /\ payload[j] = "turns"
    BY <1>6, <1>a, <1>t DEF Defer, Complete, Settle, Engaged, OwnsRow, TableOK, Payloads
  <2>2. /\ ~ Engaged(w)' /\ UNCHANGED <<tried, outages>>
        /\ \A v \in Workers \ {w} : pc'[v] = pc[v] /\ claim'[v] = claim[v] /\ Engaged(v)' = Engaged(v)
    BY <1>6, <1>t DEF Defer, Complete, Settle, GoIdle, GoTo, InstancesOK, Engaged
  <2>3. /\ \A k \in Jobs \ {j} : /\ status'[k] = status[k] /\ lease'[k] = lease[k]
                                 /\ attempts'[k] = attempts[k] /\ payload'[k] = payload[k]
        /\ payload'[j] = "scrubbed" => status'[j] = "completed"
    BY <1>6, <2>1, <1>t DEF Defer, Complete, Settle, GiveUpOrRetry, Requeue, FinishCompleted,
                      FinishFailed, TableOK
  <2>4. \A v \in Workers : Engaged(v)' =>
          \/ Engaged(v) /\ claim'[v] = claim[v] /\ claim[v].job # j
          \/ /\ v = w /\ claim'[w].job = j
             /\ status'[j] = "running" /\ lease'[j] = "pending"
             /\ claim'[w].payload = "turns" /\ claim'[w].attempt = attempts'[j]
    BY <2>1, <2>2 DEF OwnsRow
  <2>5. OwnsRow'
    <3> HIDE DEF j
    <3> QED
      BY <2>1, <2>3, <2>4, <1>t, OwnerFrame
  <2>6. Final
    BY <2>1, <2>3
  <2>7. \A k \in Jobs \ {j} : Undecided(k) => Undecided(k)'
    BY <2>2 DEF Undecided
  <2>8. pc[w] = "deferring" \/ ~ Undecided(j)
    BY <1>6, <2>1 DEF Defer, Complete, Settle, Undecided, OwnsRow, Engaged
  <2>9. attempts'[j] = IF pc[w] = "deferring" THEN attempts[j] - 1 ELSE attempts[j]
    <3>1. CASE Defer(w)
      BY <3>1, <2>1, <1>t DEF Defer, Requeue, TableOK
    <3>2. CASE Complete(w)
      BY <3>2 DEF Complete, FinishCompleted
    <3>3. CASE Settle(w)
      <4>1. attempts[j] - 0 = attempts[j]
        <5>1. attempts[j] \in Int
          BY <1>n, <2>1
        <5> QED
          BY <5>1
      <4> QED
        BY <3>3, <4>1, <2>1, <1>t DEF Settle, GiveUpOrRetry, FinishFailed, Requeue, TableOK
    <3> QED
      BY <1>6, <3>1, <3>2, <3>3
  <2>10. /\ attempts'[j] \in Int /\ attempts'[j] <= attempts[j]
         /\ attempts'[j] <= tried[j] + outages
    <3>1. attempts[j] <= tried[j] + outages + 1
      BY <2>1 DEF AttemptsAccounted
    <3>2. ~ Undecided(j) => attempts[j] <= tried[j] + outages
      BY <2>1 DEF AttemptsAccounted
    <3>3. attempts[j] \in Int /\ tried[j] \in Nat /\ outages \in Nat
      BY <1>n, <2>1
    <3> QED
      BY <2>8, <2>9, <3>1, <3>2, <3>3
  <2>11. status'[j] = "failed" => MaxAttempts <= tried[j] + outages
    <3>1. ASSUME status'[j] = "failed" PROVE pc[w] = "raised" /\ claim[w].attempt >= MaxAttempts
      BY <3>1, <1>6, <2>1, <1>t DEF Defer, Complete, Settle, GiveUpOrRetry, Requeue,
                                    FinishCompleted, TableOK
    <3>2. claim[w].attempt = attempts[j]
      BY <2>1 DEF OwnsRow
    <3>3. pc[w] = "raised" => attempts[j] <= tried[j] + outages
      BY <2>1, <2>8 DEF AttemptsAccounted
    <3>4. attempts[j] \in Int /\ tried[j] \in Nat /\ outages \in Nat
      BY <1>n, <2>1
    <3> QED
      BY <3>1, <3>2, <3>3, <3>4
  <2>12. AttemptsAccounted'
    <3>1. \A k \in Jobs :
            /\ attempts'[k] \in Int /\ attempts'[k] <= attempts[k]
            /\ Undecided(k) => Undecided(k)' \/ attempts'[k] <= tried[k] + outages
            /\ status'[k] = "failed" => status[k] = "failed" \/ MaxAttempts <= tried[k] + outages
      BY <2>3, <2>7, <2>10, <2>11, <1>n
    <3> QED
      BY <2>2, <3>1, <1>n, AccountFrame
  <2> QED
    BY <2>5, <2>6, <2>12
<1>7. ASSUME NEW w \in Workers, Release(w) \/ Crash(w)
      PROVE  OwnsRow' /\ AttemptsAccounted' /\ Final
  <2>1. /\ UNCHANGED <<table, tried>> /\ pc'[w] = "idle"
        /\ \A v \in Workers \ {w} : pc'[v] = pc[v] /\ claim'[v] = claim[v]
        /\ \/ pc[w] = "releasing" /\ outages' = outages
           \/ outages' = outages + 1
    BY <1>7, <1>t DEF Release, Crash, GoIdle, InstancesOK
  <2>2. OwnsRow' /\ Final
    BY <2>1 DEF OwnsRow, Engaged
  <2>3. \A k \in Jobs : Undecided(k) => Undecided(k)' \/ outages' = outages + 1
    BY <2>1 DEF Undecided
  <2>4. AttemptsAccounted'
    BY <2>1, <2>3, <1>n, AccountFrame
  <2> QED
    BY <2>1, <2>2, <2>4
<1>8. ASSUME NEW w \in Workers, Stop(w) \/ Start(w) PROVE OwnsRow' /\ AttemptsAccounted' /\ Final
  <2>1. UNCHANGED <<table, pc, claim, tried>> /\ outages' \in {outages, outages + 1}
    BY <1>8 DEF Stop, Start
  <2>2. OwnsRow' /\ Final
    BY <2>1 DEF OwnsRow, Engaged
  <2>3. \A k \in Jobs : Undecided(k) => Undecided(k)'
    BY <2>1 DEF Undecided
  <2>4. outages' \in Nat /\ outages <= outages'
    BY <2>1, <1>n
  <2>5. AttemptsAccounted'
    BY <2>1, <2>3, <2>4, <1>n, AccountFrame
  <2> QED
    BY <2>2, <2>5
<1>9. ASSUME NEW w \in Workers, RejectInvalid(w) PROVE FALSE
  BY <1>9 DEF RejectInvalid, OwnsRow, Engaged
<1>10. ASSUME NEW w \in Workers, Throws(w) PROVE FALSE
  BY <1>10, <1>0 DEF Throws, ClaimLost, AcquireThrows, UnlockedWriteThrows, CompleteThrows, SettleThrows
<1>11. CASE UNCHANGED vars
  BY <1>11, <1>n DEF vars, OwnsRow, Engaged, AttemptsAccounted, Undecided, FailsOnlyAfterAllAttempts
<1> QED
  BY <1>1, <1>2, <1>3, <1>4, <1>5, <1>6, <1>7, <1>8, <1>9, <1>10, <1>11 DEF Next, TickStep

(* Without lapsed leases and throwing statements a completed job never     *)
(* comes back, however many instances, jobs and crashes there are.         *)
THEOREM CompletedStaysCompleted ==
  ASSUME MaxOverruns = 0, MaxFaults = 0
  PROVE  Spec => CompletedIsFinal
<1>1. Shape /\ CalmInv /\ [Next]_vars => CalmInv'
  BY CalmStep
<1>2. Shape /\ CalmInv /\ [Next]_vars
        => [\A j \in Jobs : status[j] = "completed" => status'[j] = "completed"]_vars
  BY CalmStep
<1> QED
  BY <1>1, <1>2, CalmInit, ShapeInvariant, PTL DEF Spec, CompletedIsFinal

(* Under the same conditions no job is given up before its last attempt:   *)
(* a deferral is free, whoever else deferred, crashed or retried.          *)
THEOREM DeferralsAreFree ==
  ASSUME MaxOverruns = 0, MaxFaults = 0
  PROVE  Spec => []FailsOnlyAfterAllAttempts
<1>1. Shape /\ CalmInv /\ [Next]_vars => CalmInv'
  BY CalmStep
<1>2. CalmInv => FailsOnlyAfterAllAttempts
  BY DEF CalmInv, AttemptsAccounted
<1> QED
  BY <1>1, <1>2, CalmInit, ShapeInvariant, PTL DEF Spec
=============================================================================
