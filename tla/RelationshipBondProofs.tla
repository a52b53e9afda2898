----------------------- MODULE RelationshipBondProofs -----------------------
(***************************************************************************)
(* What RelationshipBond.cfg checks on a small instance, proved for any    *)
(* number of attempts, exchanges and service days and for any allowance.   *)
(*                                                                         *)
(* The argument: the row lock makes the row an attempt read the row it     *)
(* writes over (ReadsStand), so that every commit is one application of    *)
(* the policy to the current row; the rest is arithmetic of the policy.    *)
(***************************************************************************)
EXTENDS RelationshipBond, TLAPS

(* Who holds the lock read the row as it still is.                         *)
ReadsStand == \A a \in Attempts : pc[a] = "locked" => before[a] = row

(* Until a grant is committed out of order, the row's own counter is the   *)
(* book of the latest day, and no later day has been written to.           *)
BookAgrees ==
  /\ row.dailyBondDate \in 0..LastDay
  /\ ~reordered => \A d \in 1..LastDay :
       /\ gained[d] <= DailyCap
       /\ d > row.dailyBondDate => gained[d] = 0
       /\ d = row.dailyBondDate => gained[d] = row.dailyBondXp

(* No experience beyond the last threshold is ever stored.                 *)
Topped == row.bondXp <= MaxBondXp

IInv == TypeOK /\ ReadsStand /\ StoredLevelAgrees /\ BookAgrees /\ Topped

-----------------------------------------------------------------------------
(* The level of any experience is the last threshold it has reached.       *)
LEMMA LevelReached ==
  ASSUME NEW xp \in Nat
  PROVE  /\ BondLevelForXp(xp) \in Levels
         /\ BondLevelXp[BondLevelForXp(xp)] <= xp
         /\ \A m \in Levels : BondLevelXp[m] <= xp => m <= BondLevelForXp(xp)
<1> DEFINE Is(l) == /\ BondLevelXp[l] <= xp
                    /\ \A m \in Levels : BondLevelXp[m] <= xp => m <= l
<1>1. \E l \in Levels : Is(l)
  <2> \A m \in Levels : m = 1 \/ m = 2 \/ m = 3 \/ m = 4 \/ m = 5
    BY DEF Levels
  <2> /\ BondLevelXp[1] = 0 /\ BondLevelXp[2] = 120 /\ BondLevelXp[3] = 320
      /\ BondLevelXp[4] = 600 /\ BondLevelXp[5] = 960
    BY DEF BondLevelXp
  <2>1. CASE xp >= 960
    <3> Is(5)
      BY <2>1
    <3> QED
      BY DEF Levels
  <2>2. CASE xp >= 600 /\ xp < 960
    <3> Is(4)
      BY <2>2
    <3> QED
      BY DEF Levels
  <2>3. CASE xp >= 320 /\ xp < 600
    <3> Is(3)
      BY <2>3
    <3> QED
      BY DEF Levels
  <2>4. CASE xp >= 120 /\ xp < 320
    <3> Is(2)
      BY <2>4
    <3> QED
      BY DEF Levels
  <2>5. CASE xp < 120
    <3> Is(1)
      BY <2>5
    <3> QED
      BY DEF Levels
  <2> QED
    BY <2>1, <2>2, <2>3, <2>4, <2>5
<1>2. BondLevelForXp(xp) = CHOOSE l \in Levels : Is(l)
  BY DEF BondLevelForXp
<1> HIDE DEF Is
<1>3. BondLevelForXp(xp) \in Levels /\ Is(BondLevelForXp(xp))
  BY <1>1, <1>2
<1> QED
  BY <1>3 DEF Is

(* The floor of a level is a threshold, never above the experience.        *)
LEMMA FloorBelow ==
  ASSUME NEW xp \in Nat
  PROVE  LevelFloorForXp(xp) \in 0..MaxBondXp /\ LevelFloorForXp(xp) <= xp
<1>1. \A l \in Levels : BondLevelXp[l] \in 0..MaxBondXp
  BY DEF Levels, BondLevelXp, MaxBondXp
<1> QED
  BY <1>1, LevelReached DEF LevelFloorForXp

(* A grant moves the experience by at most what is left of the day.        *)
LEMMA GainFitsTheDay ==
  ASSUME NEW r \in Rows, NEW g \in Grades, NEW d \in Nat
  PROVE  /\ EarnedToday(r, d) \in Nat
         /\ Delta(r, g, d) \in Int
         /\ AtLeast(0, Delta(r, g, d)) \in Nat
         /\ EarnedToday(r, d) <= DailyCap
              => EarnedToday(r, d) + AtLeast(0, Delta(r, g, d)) <= DailyCap
<1>1. EarnedToday(r, d) \in Nat
  BY DEF EarnedToday, Rows
<1>2. BondXpByGrade(g) \in Int
  BY DEF BondXpByGrade, Grades
<1> QED
  BY <1>1, <1>2, CapAssumption DEF Delta, AtLeast, AtMost

(* What one application of the policy returns.                             *)
LEMMA PolicyStep ==
  ASSUME NEW r \in Rows, NEW g \in Grades, NEW d \in Nat
  PROVE  /\ NextBondState(r, g, d) \in Rows
         /\ NextBondState(r, g, d).bondXp <= MaxBondXp
         /\ NextBondState(r, g, d).bondLevel
              = BondLevelForXp(NextBondState(r, g, d).bondXp)
         /\ NextBondState(r, g, d).dailyBondDate = d
         /\ NextBondState(r, g, d).dailyBondXp
              = EarnedToday(r, d) + AtLeast(0, Delta(r, g, d))
         /\ BondLevelForXp(NextBondState(r, g, d).bondXp) >= BondLevelForXp(r.bondXp)
<1> DEFINE xp == NextBondXp(r, g, d)
<1>1. r.bondXp \in Nat
  BY DEF Rows
<1>2. /\ Delta(r, g, d) \in Int
      /\ EarnedToday(r, d) + AtLeast(0, Delta(r, g, d)) \in Nat
  BY GainFitsTheDay
<1>3. /\ LevelFloorForXp(r.bondXp) \in 0..MaxBondXp
      /\ LevelFloorForXp(r.bondXp) <= r.bondXp
  BY <1>1, FloorBelow
<1>4. xp \in Nat /\ xp <= MaxBondXp /\ LevelFloorForXp(r.bondXp) <= xp
  <2>1. \A a, b \in Int : /\ AtLeast(a, b) \in {a, b}
                          /\ AtLeast(a, b) >= a /\ AtLeast(a, b) >= b
    BY DEF AtLeast
  <2>2. \A a, b \in Int : /\ AtMost(a, b) \in {a, b}
                          /\ AtMost(a, b) <= a
                          /\ \A c \in Int : c <= a /\ c <= b => c <= AtMost(a, b)
    BY DEF AtMost
  <2>3. PICK floor \in 0..MaxBondXp : floor = LevelFloorForXp(r.bondXp)
    BY <1>3
  <2>4. PICK moved \in Int : moved = r.bondXp + Delta(r, g, d)
    BY <1>1, <1>2
  <2>5. PICK kept \in Int : kept = AtLeast(floor, moved) /\ kept >= floor
    BY <2>1 DEF MaxBondXp
  <2>6. xp = AtMost(MaxBondXp, kept)
    BY <2>3, <2>4, <2>5 DEF NextBondXp
  <2> HIDE DEF xp
  <2>7. MaxBondXp \in Nat /\ floor \in Int /\ floor \in Nat
    BY <2>3 DEF MaxBondXp
  <2>8. xp \in {MaxBondXp, kept} /\ xp <= MaxBondXp
    BY <2>2, <2>5, <2>6, <2>7
  <2>9. floor <= MaxBondXp /\ floor <= kept
    BY <2>3, <2>5, <2>7
  <2>10. floor <= xp
    BY <2>2, <2>5, <2>6, <2>7, <2>9
  <2> QED
    BY <2>3, <2>5, <2>7, <2>8, <2>10
<1>5. BondLevelForXp(xp) \in Levels /\ BondLevelForXp(xp) >= BondLevelForXp(r.bondXp)
  <2> HIDE DEF xp
  <2>1. /\ BondLevelForXp(r.bondXp) \in Levels
        /\ BondLevelForXp(xp) \in Levels
        /\ \A m \in Levels : BondLevelXp[m] <= xp => m <= BondLevelForXp(xp)
    BY <1>1, <1>4, LevelReached
  <2>2. BondLevelXp[BondLevelForXp(r.bondXp)] <= xp
    BY <1>4 DEF LevelFloorForXp
  <2> QED
    BY <2>1, <2>2 DEF Levels
<1>6. NextBondState(r, g, d) =
        [bondXp |-> xp, bondLevel |-> BondLevelForXp(xp), dailyBondDate |-> d,
         dailyBondXp |-> EarnedToday(r, d) + AtLeast(0, Delta(r, g, d))]
  BY DEF NextBondState
<1> HIDE DEF xp
<1> QED
  BY <1>2, <1>4, <1>5, <1>6 DEF Rows

-----------------------------------------------------------------------------
(* A relationship never written reads as level one with nothing earned.    *)
LEMMA NewRowFits ==
  /\ NewRow \in Rows
  /\ NewRow.dailyBondDate = 0 /\ NewRow.dailyBondXp = 0
  /\ NewRow.bondLevel = BondLevelForXp(NewRow.bondXp)
<1>1. /\ BondLevelForXp(0) \in Levels
      /\ BondLevelXp[BondLevelForXp(0)] <= 0
  BY LevelReached
<1>2. BondLevelForXp(0) = 1
  BY <1>1 DEF Levels, BondLevelXp
<1> QED
  BY <1>2 DEF NewRow, Rows, Levels

(* A relationship starts with its books in order.                          *)
LEMMA InitInv == Init => IInv
<1> SUFFICES ASSUME Init PROVE IInv
  OBVIOUS
<1> USE DEF Init
<1>1. NewRow \in Rows /\ NewRow.dailyBondDate = 0 /\ NewRow.dailyBondXp = 0
      /\ NewRow.bondLevel = BondLevelForXp(NewRow.bondXp)
  BY NewRowFits
<1>2. /\ row \in Rows /\ row.bondLevel = BondLevelForXp(row.bondXp)
      /\ row.dailyBondDate \in {0, 1} /\ row.dailyBondXp \in 0..DailyCap
      /\ row.dailyBondDate = 0 => row.dailyBondXp = 0
      /\ row.bondXp <= MaxBondXp
  <2>1. CASE row = NewRow
    BY <2>1, <1>1, CapAssumption DEF NewRow, MaxBondXp
  <2>2. ASSUME NEW xp \in StartXp, NEW e \in StartDaily,
               row = [bondXp |-> xp, bondLevel |-> BondLevelForXp(xp),
                      dailyBondDate |-> 1, dailyBondXp |-> e]
        PROVE  /\ row \in Rows /\ row.bondLevel = BondLevelForXp(row.bondXp)
               /\ row.dailyBondDate \in {0, 1} /\ row.dailyBondXp \in 0..DailyCap
               /\ row.dailyBondDate = 0 => row.dailyBondXp = 0
               /\ row.bondXp <= MaxBondXp
    <3>1. xp \in Nat /\ xp <= MaxBondXp /\ e \in 0..DailyCap
      BY BondAssumption, CapAssumption DEF MaxBondXp
    <3>2. BondLevelForXp(xp) \in Levels
      BY <3>1, LevelReached
    <3> QED
      BY <3>1, <3>2, <2>2, CapAssumption DEF Rows
  <2> QED
    BY <2>1, <2>2 DEF StartRows
<1>3. TypeOK
  <2>1. AttemptsOK
    BY <1>1, BondAssumption DEF AttemptsOK, Grades
  <2>2. gained \in [1..LastDay -> Nat]
    BY <1>2, CapAssumption
  <2>3. granted \subseteq Exchanges /\ holder \in Attempts \cup {NoAttempt}
    OBVIOUS
  <2>4. today \in 1..LastDay
    BY BondAssumption
  <2>5. reordered \in BOOLEAN
    OBVIOUS
  <2> HIDE DEF Init
  <2> QED
    BY <1>2, <2>1, <2>2, <2>3, <2>4, <2>5 DEF TypeOK
<1>4. BookAgrees
  BY <1>2, BondAssumption, CapAssumption DEF BookAgrees
<1> QED
  BY <1>2, <1>3, <1>4 DEF IInv, ReadsStand, StoredLevelAgrees, Topped

-----------------------------------------------------------------------------
(* Ending an attempt, however it ends, disturbs no other.                  *)
LEMMA FinishStep ==
  ASSUME AttemptsOK, holder \in Attempts \cup {NoAttempt}, NEW a \in Attempts,
         Finish(a), today' = today
  PROVE  /\ AttemptsOK'
         /\ holder' \in Attempts \cup {NoAttempt}
         /\ \A b \in Attempts : pc'[b] = "locked" =>
              b # a /\ pc[b] = "locked" /\ before'[b] = before[b]
<1> USE DEF Finish, AttemptsOK
<1>1. /\ pc' \in [Attempts -> {"idle", "graded", "locked"}]
      /\ exchange' \in [Attempts -> Exchanges \cup {NoExchange}]
      /\ day' \in [Attempts -> 0..LastDay]
  BY BondAssumption
<1>2. grade' \in [Attempts -> Grades]
  BY DEF Grades
<1>3. NewRow \in Rows
  BY NewRowFits
<1>4. before' \in [Attempts -> Rows]
  BY <1>3
<1>5. holder' \in Attempts \cup {NoAttempt}
  OBVIOUS
<1>6. \A b \in Attempts :
        /\ pc'[b] # "idle" => exchange'[b] \in Exchanges /\ day'[b] \in 1..today'
        /\ holder' = b <=> pc'[b] = "locked"
  BY BondAssumption
<1>7. \A b \in Attempts : pc'[b] = "locked" =>
        b # a /\ pc[b] = "locked" /\ before'[b] = before[b]
  OBVIOUS
<1> QED
  BY <1>1, <1>2, <1>4, <1>5, <1>6, <1>7

(* The steps that write neither the row nor the books: the attempts stay   *)
(* well formed and the reads they hold stay current.                       *)
LEMMA BookkeepingStep ==
  ASSUME IInv, NEW a \in Attempts,
         \/ \E x \in Exchanges, g \in Grades : Judge(a, x, g)
         \/ LockRow(a)
         \/ GrantAgain(a)
         \/ Abort(a)
  PROVE  IInv'
<1>1. UNCHANGED <<row, granted, today, gained, reordered>>
  BY DEF Judge, LockRow, GrantAgain, Abort
<1>2. StoredLevelAgrees' /\ BookAgrees' /\ Topped'
  BY <1>1 DEF IInv, StoredLevelAgrees, BookAgrees, Topped
<1>3. /\ AttemptsOK /\ ReadsStand /\ row \in Rows /\ today \in 1..LastDay
      /\ holder \in Attempts \cup {NoAttempt}
  BY DEF IInv, TypeOK
<1>4. AttemptsOK' /\ ReadsStand' /\ holder' \in Attempts \cup {NoAttempt}
  <2>1. ASSUME NEW x \in Exchanges, NEW g \in Grades, Judge(a, x, g)
        PROVE  AttemptsOK' /\ ReadsStand' /\ holder' \in Attempts \cup {NoAttempt}
    <3>1. holder' = holder /\ pc[a] = "idle"
      BY <2>1 DEF Judge
    <3>2. AttemptsOK'
      BY <1>3, <2>1, BondAssumption DEF Judge, AttemptsOK
    <3>3. ReadsStand'
      BY <1>3, <2>1 DEF Judge, ReadsStand, AttemptsOK
    <3> QED
      BY <1>3, <3>1, <3>2, <3>3
  <2>2. CASE LockRow(a)
    <3>1. AttemptsOK'
      BY <1>3, <2>2, BondAssumption DEF LockRow, AttemptsOK
    <3>2. ReadsStand' /\ holder' \in Attempts \cup {NoAttempt}
      BY <1>3, <2>2 DEF LockRow, ReadsStand, AttemptsOK
    <3> QED
      BY <3>1, <3>2
  <2>3. CASE Finish(a)
    <3>1. today' = today /\ row' = row
      BY <1>1
    <3>2. /\ AttemptsOK' /\ holder' \in Attempts \cup {NoAttempt}
          /\ \A b \in Attempts : pc'[b] = "locked" =>
               b # a /\ pc[b] = "locked" /\ before'[b] = before[b]
      BY <1>3, <2>3, <3>1, FinishStep
    <3> QED
      BY <1>3, <3>1, <3>2 DEF ReadsStand
  <2> QED
    BY <2>1, <2>2, <2>3 DEF GrantAgain, Abort
<1> QED
  BY <1>1, <1>2, <1>4 DEF IInv, TypeOK

(* A commit is one application of the policy to the current row.           *)
LEMMA CommitAppliesPolicy ==
  ASSUME IInv, NEW a \in Attempts, GrantBond(a)
  PROVE  /\ row \in Rows /\ grade[a] \in Grades /\ day[a] \in 1..LastDay
         /\ exchange[a] \in Exchanges \ granted
         /\ row' = NextBondState(row, grade[a], day[a])
         /\ gained' = [gained EXCEPT ![day[a]] =
              @ + AtLeast(0, Delta(row, grade[a], day[a]))]
         /\ granted' = granted \cup {exchange[a]}
<1>1. before[a] = row
  BY DEF IInv, ReadsStand, GrantBond
<1>2. today \in 1..LastDay /\ day[a] \in 1..today
  BY DEF IInv, TypeOK, AttemptsOK, GrantBond
<1> QED
  BY <1>1, <1>2, BondAssumption DEF IInv, TypeOK, AttemptsOK, GrantBond, Commit

(* A commit preserves the invariant, the day's book included.              *)
LEMMA GrantStep ==
  ASSUME IInv, NEW a \in Attempts, GrantBond(a)
  PROVE  IInv'
<1> DEFINE d == day[a]
           g == grade[a]
           more == AtLeast(0, Delta(row, g, d))
<1>1. /\ row \in Rows /\ g \in Grades /\ d \in 1..LastDay /\ d \in Nat
      /\ exchange[a] \in Exchanges \ granted
      /\ row' = NextBondState(row, g, d)
      /\ gained' = [gained EXCEPT ![d] = @ + more]
      /\ granted' = granted \cup {exchange[a]}
  BY CommitAppliesPolicy, BondAssumption
<1>2. /\ row' \in Rows
      /\ row'.bondLevel = BondLevelForXp(row'.bondXp)
      /\ row'.bondXp <= MaxBondXp
      /\ row'.dailyBondDate = d
      /\ row'.dailyBondXp = EarnedToday(row, d) + more
  BY <1>1, PolicyStep
<1>3. more \in Nat /\ EarnedToday(row, d) \in Nat
      /\ (EarnedToday(row, d) <= DailyCap => EarnedToday(row, d) + more <= DailyCap)
  BY <1>1, GainFitsTheDay
<1>4. /\ AttemptsOK /\ holder \in Attempts \cup {NoAttempt}
      /\ gained \in [1..LastDay -> Nat] /\ granted \subseteq Exchanges
      /\ today' = today /\ today \in 1..LastDay /\ Finish(a)
      /\ holder = a /\ reordered \in BOOLEAN
      /\ reordered' = (reordered \/ d < row.dailyBondDate)
  BY DEF IInv, TypeOK, AttemptsOK, GrantBond, Commit
<1>5. /\ AttemptsOK' /\ holder' \in Attempts \cup {NoAttempt}
      /\ \A b \in Attempts : pc'[b] = "locked" =>
           b # a /\ pc[b] = "locked" /\ before'[b] = before[b]
  BY <1>4, FinishStep
<1>6. ReadsStand'
  BY <1>4, <1>5 DEF ReadsStand, AttemptsOK
<1> HIDE DEF more, g, d
<1>7. gained' \in [1..LastDay -> Nat]
  BY <1>1, <1>3, <1>4
<1>8. BookAgrees'
  <2>1. row'.dailyBondDate \in 0..LastDay
    BY <1>1, <1>2
  <2>2. ASSUME ~reordered', NEW e \in 1..LastDay
        PROVE  /\ gained'[e] <= DailyCap
               /\ e > row'.dailyBondDate => gained'[e] = 0
               /\ e = row'.dailyBondDate => gained'[e] = row'.dailyBondXp
    <3>0. ~reordered /\ ~(d < row.dailyBondDate)
      BY <1>4, <2>2
    <3>1. ~reordered /\ row.dailyBondDate \in 0..LastDay /\ row.dailyBondDate <= d
      BY <1>1, <3>0, BondAssumption DEF IInv, BookAgrees
    <3>2. \A f \in 1..LastDay :
            /\ gained[f] \in Nat /\ gained[f] <= DailyCap
            /\ f > row.dailyBondDate => gained[f] = 0
            /\ f = row.dailyBondDate => gained[f] = row.dailyBondXp
      BY <1>4, <3>1 DEF IInv, BookAgrees
    <3>3. gained[d] = EarnedToday(row, d)
      BY <1>1, <3>1, <3>2 DEF EarnedToday
    <3>4. CASE e = d
      <4>1. gained'[e] = EarnedToday(row, d) + more
        BY <1>1, <1>4, <3>3, <3>4
      <4> QED
        BY <1>1, <1>2, <1>3, <3>2, <3>3, <3>4, <4>1, CapAssumption
    <3>5. CASE e # d
      <4>1. gained'[e] = gained[e]
        BY <1>1, <1>4, <3>5
      <4> QED
        BY <1>1, <1>2, <3>1, <3>2, <3>5, <4>1
    <3> QED
      BY <3>4, <3>5
  <2> QED
    BY <2>1, <2>2 DEF BookAgrees
<1>9. TypeOK'
  BY <1>1, <1>2, <1>4, <1>5, <1>7 DEF TypeOK
<1> QED
  BY <1>2, <1>6, <1>8, <1>9 DEF IInv, StoredLevelAgrees, Topped

(* Every step preserves the invariant.                                     *)
LEMMA InvStep == IInv /\ [Next]_vars => IInv'
<1> SUFFICES ASSUME IInv, [Next]_vars PROVE IInv'
  OBVIOUS
<1>1. CASE Midnight
  <2>1. today \in 1..LastDay /\ today' \in 1..LastDay /\ today < today'
    BY <1>1, BondAssumption DEF IInv, TypeOK, Midnight
  <2>2. UNCHANGED <<row, granted, holder, pc, exchange, grade, day, before, gained, reordered>>
    BY <1>1 DEF Midnight, attempt
  <2>3. AttemptsOK'
    <3>1. \A b \in Attempts : day[b] \in 1..today => day[b] \in 1..today'
      BY <2>1, BondAssumption
    <3> QED
      BY <2>2, <3>1 DEF IInv, TypeOK, AttemptsOK
  <2> QED
    BY <2>1, <2>2, <2>3
       DEF IInv, TypeOK, ReadsStand, StoredLevelAgrees, BookAgrees, Topped
<1>2. ASSUME NEW a \in Attempts,
             \/ \E x \in Exchanges, g \in Grades : Judge(a, x, g)
             \/ LockRow(a)
             \/ GrantAgain(a)
             \/ Abort(a)
      PROVE  IInv'
  BY <1>2, BookkeepingStep
<1>3. ASSUME NEW a \in Attempts, GrantBond(a) PROVE IInv'
  BY <1>3, GrantStep
<1>4. CASE UNCHANGED vars
  BY <1>4 DEF vars, attempt, IInv, TypeOK, AttemptsOK, ReadsStand,
              StoredLevelAgrees, BookAgrees, Topped
<1> QED
  BY <1>1, <1>2, <1>3, <1>4 DEF Next

(* IInv is an invariant of every relationship.                             *)
LEMMA InvAlways == Spec => []IInv
<1> QED
  BY InitInv, InvStep, PTL DEF Spec

-----------------------------------------------------------------------------
(* The row, the attempts and the lock are always well formed.              *)
THEOREM TypeInvariant == Spec => []TypeOK
<1>1. IInv => TypeOK
  BY DEF IInv
<1> QED
  BY <1>1, InvAlways, PTL

(* The level another repository serves is that of the experience beside it. *)
THEOREM LevelColumn == Spec => []StoredLevelAgrees
<1>1. IInv => StoredLevelAgrees
  BY DEF IInv
<1> QED
  BY <1>1, InvAlways, PTL

(* While grants commit in the order of their days no day exceeds its       *)
(* allowance, however the attempts of the day interleave.                  *)
THEOREM Allowance == Spec => []AllowanceKeptInOrder
<1>1. IInv => AllowanceKeptInOrder
  BY DEF IInv, BookAgrees, AllowanceKeptInOrder
<1> QED
  BY <1>1, InvAlways, PTL

(* What a step does to the row: nothing, or one application of the policy. *)
LEMMA RowStep ==
  ASSUME IInv, [Next]_vars
  PROVE  \/ UNCHANGED <<row, granted>>
         \/ \E a \in Attempts : GrantBond(a)
<1>1. CASE Midnight
  BY <1>1 DEF Midnight
<1>2. CASE UNCHANGED vars
  BY <1>2 DEF vars
<1>3. ASSUME NEW a \in Attempts, NEW x \in Exchanges, NEW g \in Grades, Judge(a, x, g)
      PROVE  UNCHANGED <<row, granted>>
  BY <1>3 DEF Judge
<1>4. ASSUME NEW a \in Attempts, LockRow(a) \/ GrantAgain(a) \/ Abort(a)
      PROVE  UNCHANGED <<row, granted>>
  BY <1>4 DEF LockRow, GrantAgain, Abort
<1> QED
  BY <1>1, <1>2, <1>3, <1>4 DEF Next

(* A level, once reached, is never lost, whatever the grades.              *)
THEOREM LevelsAreKept == Spec => LevelIsKept
<1> DEFINE Kept == /\ BondLevelForXp(row'.bondXp) >= BondLevelForXp(row.bondXp)
                   /\ row'.bondXp <= MaxBondXp
<1>1. IInv /\ [Next]_vars => [Kept]_vars
  <2> SUFFICES ASSUME IInv, [Next]_vars PROVE Kept
    OBVIOUS
  <2>1. CASE \E a \in Attempts : GrantBond(a)
    <3>1. PICK a \in Attempts : GrantBond(a)
      BY <2>1
    <3>2. /\ row \in Rows /\ grade[a] \in Grades /\ day[a] \in Nat
          /\ row' = NextBondState(row, grade[a], day[a])
      BY <3>1, CommitAppliesPolicy, BondAssumption
    <3> QED
      BY <3>2, PolicyStep
  <2>2. CASE UNCHANGED <<row, granted>>
    <3>1. row.bondXp \in Nat /\ row.bondXp <= MaxBondXp
      BY DEF IInv, TypeOK, Rows, Topped
    <3>2. BondLevelForXp(row.bondXp) \in Levels
      BY <3>1, LevelReached
    <3> QED
      BY <2>2, <3>1, <3>2 DEF Levels
  <2> QED
    BY <2>1, <2>2, RowStep
<1> QED
  BY <1>1, InvAlways, PTL DEF Spec, LevelIsKept

(* The refinement: the row moves as if each exchange were granted at once. *)
THEOREM Implements == Spec => GrantsAreAtomic
<1>1. Init => Atomic!Init
  BY InitInv DEF Init, IInv, TypeOK, Atomic!Init, Atomic!Rows, Rows,
                 Atomic!Levels, Levels
<1>2. \A r, g, d : Atomic!NextBondState(r, g, d) = NextBondState(r, g, d)
  BY DEF NextBondState, NextBondXp, BondLevelForXp, LevelFloorForXp, Delta,
         EarnedToday, BondXpByGrade, BondLevelXp, Levels, MaxBondXp, AtLeast, AtMost,
         Atomic!NextBondState, Atomic!NextBondXp, Atomic!BondLevelForXp,
         Atomic!LevelFloorForXp, Atomic!Delta, Atomic!EarnedToday,
         Atomic!BondXpByGrade, Atomic!BondLevelXp, Atomic!Levels,
         Atomic!MaxBondXp, Atomic!AtLeast, Atomic!AtMost
<1>3. IInv /\ [Next]_vars => [Atomic!Grant]_<<row, granted>>
  <2> SUFFICES ASSUME IInv, NEW a \in Attempts, GrantBond(a)
               PROVE  Atomic!Grant
    BY RowStep
  <2>1. /\ grade[a] \in Grades /\ day[a] \in 1..LastDay
        /\ exchange[a] \in Exchanges \ granted
        /\ row' = NextBondState(row, grade[a], day[a])
        /\ granted' = granted \cup {exchange[a]}
    BY CommitAppliesPolicy
  <2> QED
    BY <1>2, <2>1 DEF Atomic!Grant, Atomic!Grades, Grades
<1> QED
  BY <1>1, <1>3, InvAlways, PTL DEF Spec, GrantsAreAtomic, Atomic!Spec

=============================================================================
