------------------------ MODULE MCConsolidationQueue ------------------------
(* Small instances of ConsolidationQueue: two instances of the Agent over  *)
(* one job, over two jobs that contend for the lock of one relationship,   *)
(* or over those and a third that runs beside them.                        *)
EXTENDS ConsolidationQueue

CONSTANTS r1, r2

OneJob == [j \in {1} |-> r1]
TwoJobs == [j \in {1, 2} |-> r1]
TwoRelationships == <<r1, r1, r2>>
=============================================================================
