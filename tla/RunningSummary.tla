--------------------------- MODULE RunningSummary ---------------------------
(***************************************************************************)
(* What the recursive session summary promises its reader: it stands for a *)
(* prefix of the conversation, every message of that prefix folded in once *)
(* and in order, and the prefix only ever grows. SessionSummary and        *)
(* ChatCoverage are shown to implement this module.                        *)
(***************************************************************************)
EXTENDS Integers, Sequences

VARIABLE digest   \* the messages folded into the summary, by position

Prefix(n) == [i \in 1..n |-> i - 1]

Init == digest = <<>>

Advance ==
  /\ Len(digest') > Len(digest)
  /\ digest' = Prefix(Len(digest'))

Spec == Init /\ [][Advance]_digest

=============================================================================
