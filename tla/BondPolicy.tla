----------------------------- MODULE BondPolicy -----------------------------
(***************************************************************************)
(* src/memory/bond.ts: how one graded exchange moves a relationship. Time  *)
(* is counted in service days, the only resolution the policy looks at.    *)
(***************************************************************************)
EXTENDS Integers, Sequences

CONSTANT DailyCap   \* DAILY_BOND_XP_CAP, 60 in the code

ASSUME CapAssumption == DailyCap \in Nat

Grades == -2..2

BondXpByGrade(grade) ==
  CASE grade = -2 -> -24 [] grade = -1 -> -8 [] grade = 0 -> 0
    [] grade = 1 -> 8 [] grade = 2 -> 16

BondLevelXp == <<0, 120, 320, 600, 960>>
Levels == 1..5
MaxBondXp == 960

(* The last level whose threshold has been reached.                        *)
BondLevelForXp(xp) ==
  CHOOSE l \in Levels : /\ BondLevelXp[l] <= xp
                        /\ \A m \in Levels : BondLevelXp[m] <= xp => m <= l

(* Mutant: a dip is stopped at zero only.                                  *)
LevelFloorAtZero(xp) == 0

LevelFloorForXp(xp) == BondLevelXp[BondLevelForXp(xp)]

AtLeast(a, b) == IF b > a THEN b ELSE a
AtMost(a, b) == IF b < a THEN b ELSE a

Rows == [bondXp: Nat, bondLevel: Levels, dailyBondDate: Nat, dailyBondXp: Nat]

(* Mutant: the day's earnings do not count against its allowance.          *)
EarnedNothing(row, day) == 0

EarnedToday(row, day) == IF row.dailyBondDate = day THEN row.dailyBondXp ELSE 0

Delta(row, grade, day) ==
  LET raw == BondXpByGrade(grade)
  IN  IF raw > 0 THEN AtMost(raw, AtLeast(0, DailyCap - EarnedToday(row, day))) ELSE raw

NextBondXp(row, grade, day) ==
  AtMost(MaxBondXp,
         AtLeast(LevelFloorForXp(row.bondXp), row.bondXp + Delta(row, grade, day)))

(* Mutant: the stored level is that of the row before the grant.           *)
NextBondStateLate(row, grade, day) ==
  [bondXp |-> NextBondXp(row, grade, day),
   bondLevel |-> BondLevelForXp(row.bondXp),
   dailyBondDate |-> day,
   dailyBondXp |-> EarnedToday(row, day) + AtLeast(0, Delta(row, grade, day))]

NextBondState(row, grade, day) ==
  LET xp == NextBondXp(row, grade, day)
  IN  [bondXp |-> xp,
       bondLevel |-> BondLevelForXp(xp),
       dailyBondDate |-> day,
       dailyBondXp |-> EarnedToday(row, day) + AtLeast(0, Delta(row, grade, day))]

=============================================================================
