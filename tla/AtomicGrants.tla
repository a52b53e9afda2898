---------------------------- MODULE AtomicGrants ----------------------------
(***************************************************************************)
(* What grantBond promises its callers (src/memory/memory-store.ts): each  *)
(* exchange moves the bond at most once, and each move is computed from    *)
(* the row as the move before it left it.                                  *)
(***************************************************************************)
EXTENDS BondPolicy

CONSTANTS Exchanges, LastDay

VARIABLES row, granted

Init == row \in Rows /\ granted = {}

Grant ==
  \E x \in Exchanges \ granted, grade \in Grades, day \in 1..LastDay :
    /\ row' = NextBondState(row, grade, day)
    /\ granted' = granted \cup {x}

Spec == Init /\ [][Grant]_<<row, granted>>

=============================================================================
