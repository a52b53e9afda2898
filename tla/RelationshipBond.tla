-------------------------- MODULE RelationshipBond --------------------------
(***************************************************************************)
(* The bond columns of one relationship's row under concurrent turns:      *)
(* judgeBond of src/chat/chat-service.ts over grantBond of                 *)
(* src/memory/postgres-memory-store.ts.                                    *)
(*                                                                         *)
(* A turn is graded, its clock is read, and only then does its transaction *)
(* wait for the row; between the lock and the commit other statements run, *)
(* but none of them writes the row. A turn may be answered twice under one *)
(* turn id, with two grades, and any attempt may fail at any point.        *)
(***************************************************************************)
EXTENDS BondPolicy

CONSTANTS
  Attempts,    \* concurrent executions of judgeBond
  Exchanges,   \* operation keys, session and turn id
  NoAttempt, NoExchange,
  StartXp,     \* bound: experience and
  StartDaily,  \* bound: the day's earnings a relationship starts from
  LastDay      \* bound: service days

ASSUME BondAssumption ==
  /\ NoAttempt \notin Attempts /\ NoExchange \notin Exchanges
  /\ StartXp \subseteq 0..MaxBondXp /\ StartDaily \subseteq 0..DailyCap
  /\ LastDay \in Nat \ {0}

VARIABLES
  row,       \* the bond columns of chat_relationship_states
  granted,   \* exchanges with a bond: row in chat_applied_state_changes
  holder,    \* who holds the row lock
  pc, exchange, grade,
  day,       \* the service day an attempt's clock showed
  before,    \* the row its SELECT FOR UPDATE returned
  today,
  gained,    \* history: positive experience granted on each service day
  reordered  \* history: a grant was committed after one of a later day

attempt == <<pc, exchange, grade, day, before>>
vars == <<row, granted, holder, attempt, today, gained, reordered>>

(* A relationship never written reads as zeroes with no date.              *)
NewRow == [bondXp |-> 0, bondLevel |-> 1, dailyBondDate |-> 0, dailyBondXp |-> 0]

StartRows ==
  {NewRow} \cup
  {[bondXp |-> xp, bondLevel |-> BondLevelForXp(xp), dailyBondDate |-> 1, dailyBondXp |-> d]
     : xp \in StartXp, d \in StartDaily}

(* An attempt under way knows its exchange and its day; the row is locked  *)
(* by the attempt that holds it and by no other.                           *)
AttemptsOK ==
  /\ pc \in [Attempts -> {"idle", "graded", "locked"}]
  /\ exchange \in [Attempts -> Exchanges \cup {NoExchange}]
  /\ grade \in [Attempts -> Grades]
  /\ day \in [Attempts -> 0..LastDay]
  /\ before \in [Attempts -> Rows]
  /\ \A a \in Attempts :
       /\ pc[a] # "idle" => exchange[a] \in Exchanges /\ day[a] \in 1..today
       /\ holder = a <=> pc[a] = "locked"

(* The type invariant.                                                     *)
TypeOK ==
  /\ row \in Rows
  /\ granted \subseteq Exchanges
  /\ holder \in Attempts \cup {NoAttempt}
  /\ today \in 1..LastDay
  /\ gained \in [1..LastDay -> Nat]
  /\ reordered \in BOOLEAN
  /\ AttemptsOK

Init ==
  /\ row \in StartRows
  /\ granted = {}
  /\ holder = NoAttempt
  /\ pc = [a \in Attempts |-> "idle"]
  /\ exchange = [a \in Attempts |-> NoExchange]
  /\ grade = [a \in Attempts |-> 0]
  /\ day = [a \in Attempts |-> 0]
  /\ before = [a \in Attempts |-> NewRow]
  /\ today = 1
  /\ gained = [d \in 1..LastDay |-> IF d = 1 THEN row.dailyBondXp ELSE 0]
  /\ reordered = FALSE

-----------------------------------------------------------------------------
Finish(a) ==
  /\ pc' = [pc EXCEPT ![a] = "idle"]
  /\ exchange' = [exchange EXCEPT ![a] = NoExchange]
  /\ grade' = [grade EXCEPT ![a] = 0]
  /\ day' = [day EXCEPT ![a] = 0]
  /\ before' = [before EXCEPT ![a] = NewRow]
  /\ holder' = IF holder = a THEN NoAttempt ELSE holder

(* judgeBond: a judgement that succeeded, stamped with the clock. A failed *)
(* one writes nothing and is no step of this module.                       *)
Judge(a, x, g) ==
  /\ pc[a] = "idle"
  /\ pc' = [pc EXCEPT ![a] = "graded"]
  /\ exchange' = [exchange EXCEPT ![a] = x]
  /\ grade' = [grade EXCEPT ![a] = g]
  /\ day' = [day EXCEPT ![a] = today]
  /\ UNCHANGED <<row, granted, holder, before, today, gained, reordered>>

(* Mutant: the row is read without FOR UPDATE.                             *)
ReadUnlocked(a) ==
  /\ pc[a] = "graded"
  /\ holder' = a
  /\ pc' = [pc EXCEPT ![a] = "locked"]
  /\ before' = [before EXCEPT ![a] = row]
  /\ UNCHANGED <<row, granted, exchange, grade, day, today, gained, reordered>>

(* INSERT ON CONFLICT DO NOTHING, then SELECT ... FOR UPDATE.              *)
LockRow(a) ==
  /\ pc[a] = "graded" /\ holder = NoAttempt
  /\ holder' = a
  /\ pc' = [pc EXCEPT ![a] = "locked"]
  /\ before' = [before EXCEPT ![a] = row]
  /\ UNCHANGED <<row, granted, exchange, grade, day, today, gained, reordered>>

GrantAgain(a) ==
  /\ pc[a] = "locked" /\ exchange[a] \in granted
  /\ Finish(a)
  /\ UNCHANGED <<row, granted, today, gained, reordered>>

Commit(a) ==
  /\ row' = NextBondState(before[a], grade[a], day[a])
  /\ granted' = granted \cup {exchange[a]}
  /\ gained' = [gained EXCEPT ![day[a]] =
       @ + AtLeast(0, Delta(before[a], grade[a], day[a]))]
  /\ reordered' = (reordered \/ day[a] < row.dailyBondDate)
  /\ Finish(a)
  /\ UNCHANGED today

(* Mutant: the operation key is not looked up.                             *)
GrantUnclaimed(a) == pc[a] = "locked" /\ Commit(a)

(* The claim, nextBondState and the upsert commit together.                *)
GrantBond(a) ==
  /\ pc[a] = "locked" /\ exchange[a] \notin granted
  /\ Commit(a)

(* A statement throws or the process dies: the transaction rolls back.     *)
Abort(a) ==
  /\ pc[a] # "idle"
  /\ Finish(a)
  /\ UNCHANGED <<row, granted, today, gained, reordered>>

Midnight ==
  /\ today < LastDay
  /\ today' = today + 1
  /\ UNCHANGED <<row, granted, holder, attempt, gained, reordered>>

Next ==
  \/ Midnight
  \/ \E a \in Attempts :
       \/ \E x \in Exchanges, g \in Grades : Judge(a, x, g)
       \/ LockRow(a) \/ GrantAgain(a) \/ GrantBond(a) \/ Abort(a)

Spec == Init /\ [][Next]_vars

-----------------------------------------------------------------------------
(* "A level, once reached, is never lost", and no more experience is kept  *)
(* than the last level takes.                                              *)
LevelIsKept ==
  [][/\ BondLevelForXp(row'.bondXp) >= BondLevelForXp(row.bondXp)
     /\ row'.bondXp <= MaxBondXp]_vars

(* The denormalised column another repository serves is the level of the   *)
(* experience beside it.                                                   *)
StoredLevelAgrees == row.bondLevel = BondLevelForXp(row.bondXp)

(* As long as grants commit in the order of their days, no service day     *)
(* gives more than its allowance, across all attempts and exchanges.       *)
AllowanceKeptInOrder ==
  ~reordered => \A d \in 1..LastDay : gained[d] <= DailyCap

(* "Positive XP is capped per service day."                                *)
PositiveXpIsCappedPerDay == \A d \in 1..LastDay : gained[d] <= DailyCap

(* No grade vanishes and no exchange counts twice: the row moves as if     *)
(* each exchange were granted at once, one after the other.                *)
Atomic == INSTANCE AtomicGrants
GrantsAreAtomic == Atomic!Spec

=============================================================================
