------------------------ MODULE SessionSummaryProofs ------------------------
(***************************************************************************)
(* What SessionSummary guarantees for any number of jobs, executions and   *)
(* messages.                                                               *)
(***************************************************************************)
EXTENDS SessionSummary, FiniteSetTheorems, SequenceTheorems, TLAPS

(* What an execution about to write knows: its job was submitted, what it  *)
(* read is no newer than the row, is the row itself while the revisions    *)
(* agree, ends below its own run, and accounts for the writes it lost. A   *)
(* new execution has lost none.                                            *)
Reader(c) ==
  /\ pc[c] = "idle" => conflicts[c] = 0
  /\ pc[c] # "idle" => /\ Submitted(job[c])
                       /\ summary.revision >= began[c] + conflicts[c]

Writer(c) ==
  pc[c] = "saving" =>
    /\ previous[c].revision <= summary.revision
    /\ previous[c].revision >= began[c] + conflicts[c]
    /\ previous[c].revision = summary.revision => previous[c] = summary
    /\ job[c] \notin Legacy => previous[c].turnsCovered < End(job[c])

Known == \A c \in Consolidators : Reader(c) /\ Writer(c)

(* Positions: a sequence of the right length.                              *)
LEMMA PositionsLength ==
  ASSUME NEW a \in Nat, NEW b \in Nat, a <= b
  PROVE  /\ Positions(a, b) \in Seq(Nat)
         /\ Len(Positions(a, b)) = b - a
<1> DEFINE n == b - a
<1>1. n \in Nat /\ n = b - a
  OBVIOUS
<1>2. \A i \in 1..n : a + i - 1 \in Nat
  OBVIOUS
<1>3. Positions(a, b) \in [1..n -> Nat]
  BY <1>2 DEF Positions
<1>4. Positions(a, b) \in Seq(Nat)
  BY <1>1, <1>3
<1>5. DOMAIN Positions(a, b) = 1..n
  BY DEF Positions
<1> QED
  BY <1>1, <1>4, <1>5

(* Adjacent runs of positions join.                                        *)
LEMMA PositionsJoin ==
  ASSUME NEW a \in Nat, NEW b \in Nat, NEW d \in Nat, a <= b, b <= d
  PROVE  Positions(a, b) \o Positions(b, d) = Positions(a, d)
<1> DEFINE s == Positions(a, b)  t == Positions(b, d)  u == Positions(a, d)
<1>1. s \in Seq(Nat) /\ Len(s) = b - a
  BY PositionsLength
<1>2. t \in Seq(Nat) /\ Len(t) = d - b
  BY PositionsLength
<1>3. a <= d
  OBVIOUS
<1>4. u \in Seq(Nat) /\ Len(u) = d - a
  BY <1>3, PositionsLength
<1>5. s \o t \in Seq(Nat) /\ Len(s \o t) = d - a
  BY <1>1, <1>2
<1>6. \A i \in 1..(d - a) : (s \o t)[i] = u[i]
  <2> TAKE i \in 1..(d - a)
  <2>1. u[i] = a + i - 1
    BY DEF Positions
  <2>2. CASE i <= b - a
    <3>1. (s \o t)[i] = s[i]
      BY <1>1, <1>2, <2>2
    <3>2. i \in 1..(b - a)
      BY <2>2
    <3>3. s[i] = a + i - 1
      BY <3>2 DEF Positions
    <3> QED
      BY <2>1, <3>1, <3>3
  <2>3. CASE i > b - a
    <3>1. (s \o t)[i] = t[i - (b - a)]
      BY <1>1, <1>2, <2>3
    <3>2. i - (b - a) \in 1..(d - b)
      BY <2>3
    <3>3. t[i - (b - a)] = b + (i - (b - a)) - 1
      BY <3>2 DEF Positions
    <3> QED
      BY <2>1, <3>1, <3>3
  <2>4. i <= b - a \/ i > b - a
    OBVIOUS
  <2> QED
    BY <2>2, <2>3, <2>4
<1> HIDE DEF s, t, u
<1>7. s \o t = u
  BY <1>4, <1>5, <1>6, SeqEqual
<1> QED
  BY <1>7 DEF s, t, u

(* A run with nothing above the watermark is empty, and only such a run.   *)
LEMMA NothingNewMeansCovered ==
  ASSUME NEW j \in Jobs, j \notin Legacy, NEW n \in Nat, End(j) \in Nat,
         ~NothingNew(j, n)
  PROVE  n < End(j)
<1>1. ASSUME End(j) <= n
      PROVE  NothingNew(j, n)
  <2>1. 1..(End(j) - n) = {}
    BY <1>1
  <2>2. Uncovered(j, n) = [i \in {} |-> n + i - 1]
    BY <2>1 DEF Uncovered, Positions
  <2>3. Uncovered(j, n) = <<>>
    BY <2>2
  <2> QED
    BY <2>3 DEF NothingNew
<1> QED
  BY <1>1

(* A submitted job carries at least one message.                           *)
LEMMA SubmittedRun ==
  ASSUME TypeOK, NEW j \in Jobs, Submitted(j)
  PROVE  /\ source[j].first \in Nat /\ source[j].size \in Nat \ {0}
         /\ End(j) \in Nat
         /\ End(j) = source[j].first + source[j].size
<1>1. source[j] \in Runs
  BY DEF TypeOK, RowsOK, Submitted
<1>2. source[j].first \in 0..Messages /\ source[j].size \in 1..Messages
  BY <1>1 DEF Runs
<1>3. source[j].first \in Nat /\ source[j].size \in Nat \ {0}
  BY <1>2, SummaryAssumption
<1> QED
  BY <1>3 DEF End

(* What a save writes, given what the writer knows: a longer summary whose *)
(* watermark counts its messages.                                          *)
LEMMA MergedRow ==
  ASSUME TypeOK, NEW j \in Jobs, Submitted(j), NEW before \in Summaries,
         j \notin Legacy => before.turnsCovered < End(j)
  PROVE  /\ Merged(j, before) \in Summaries
         /\ Merged(j, before).turnsCovered > before.turnsCovered
         /\ Merged(j, before).revision = before.revision + 1
         /\ Len(Merged(j, before).content) - Len(before.content) =
              Merged(j, before).turnsCovered - before.turnsCovered
<1> DEFINE row == Merged(j, before)
<1>1. /\ before.content \in Seq(Nat) /\ before.turnsCovered \in Nat
      /\ before.revision \in Nat /\ Len(before.content) \in Nat
  BY DEF Summaries
<1>2. /\ source[j].first \in Nat /\ source[j].size \in Nat \ {0}
      /\ End(j) \in Nat /\ End(j) = source[j].first + source[j].size
  BY SubmittedRun
<1>3. /\ row.content = before.content \o Uncovered(j, before.turnsCovered)
      /\ row.turnsCovered =
           IF j \in Legacy THEN before.turnsCovered + source[j].size ELSE End(j)
      /\ row.revision = before.revision + 1
      /\ row = [content |-> row.content, turnsCovered |-> row.turnsCovered,
                revision |-> row.revision]
  BY DEF Merged
<1>4. /\ Uncovered(j, before.turnsCovered) \in Seq(Nat)
      /\ Len(Uncovered(j, before.turnsCovered)) = row.turnsCovered - before.turnsCovered
      /\ row.turnsCovered > before.turnsCovered
  <2>1. CASE j \in Legacy
    <3>1. source[j].first <= End(j)
      BY <1>2
    <3>2. Uncovered(j, before.turnsCovered) = Positions(source[j].first, End(j))
      BY <2>1 DEF Uncovered
    <3>3. /\ Uncovered(j, before.turnsCovered) \in Seq(Nat)
          /\ Len(Uncovered(j, before.turnsCovered)) = End(j) - source[j].first
      BY <1>2, <3>1, <3>2, PositionsLength
    <3>4. row.turnsCovered = before.turnsCovered + source[j].size
      BY <1>3, <2>1
    <3> HIDE DEF row
    <3> QED
      BY <1>1, <1>2, <3>3, <3>4
  <2>2. CASE j \notin Legacy
    <3>1. before.turnsCovered <= End(j)
      BY <1>1, <1>2, <2>2
    <3>2. Uncovered(j, before.turnsCovered) = Positions(before.turnsCovered, End(j))
      BY <2>2 DEF Uncovered
    <3>3. /\ Uncovered(j, before.turnsCovered) \in Seq(Nat)
          /\ Len(Uncovered(j, before.turnsCovered)) = End(j) - before.turnsCovered
      BY <1>1, <1>2, <3>1, <3>2, PositionsLength
    <3>4. row.turnsCovered = End(j)
      BY <1>3, <2>2
    <3> HIDE DEF row
    <3> QED
      BY <1>1, <1>2, <2>2, <3>3, <3>4
  <2> QED
    BY <2>1, <2>2
<1>5. row.turnsCovered \in Nat
  BY <1>1, <1>2, <1>3
<1> HIDE DEF row
<1>6. row.content \in Seq(Nat)
  BY <1>1, <1>3, <1>4
<1>7. Len(row.content) = Len(before.content) + Len(Uncovered(j, before.turnsCovered))
  BY <1>1, <1>3, <1>4, ConcatProperties
<1>8. row.revision \in Nat
  BY <1>1, <1>3
<1>9. row \in Summaries
  BY <1>3, <1>5, <1>6, <1>8 DEF Summaries
<1>10. Len(row.content) - Len(before.content) = row.turnsCovered - before.turnsCovered
  BY <1>1, <1>4, <1>5, <1>7
<1> QED
  BY <1>3, <1>4, <1>9, <1>10 DEF row

-----------------------------------------------------------------------------
(* An execution that returns leaves the others as they were.               *)
LEMMA ReturnedExecution ==
  ASSUME TypeOK, NEW c \in Consolidators, Return(c)
  PROVE  /\ ExecutionsOK'
         /\ pc'[c] = "idle" /\ conflicts'[c] = 0
         /\ \A d \in Consolidators \ {c} :
              /\ pc'[d] = pc[d] /\ job'[d] = job[d] /\ previous'[d] = previous[d]
              /\ conflicts'[d] = conflicts[d] /\ began'[d] = began[d]
<1>1. NoSummary \in Summaries
  <2>1. <<>> \in Seq(Nat)
    BY EmptySeq
  <2> QED
    BY <2>1 DEF NoSummary, Summaries
<1>2. 0 \in 0..(RefreshAttempts - 1)
  BY SummaryAssumption
<1>3. pc' \in [Consolidators -> {"idle", "reading", "saving"}]
  BY DEF TypeOK, ExecutionsOK, Return
<1>4. job' \in [Consolidators -> Jobs \cup {NoJob}]
  BY DEF TypeOK, ExecutionsOK, Return
<1>5. previous' \in [Consolidators -> Summaries]
  BY <1>1 DEF TypeOK, ExecutionsOK, Return
<1>6. conflicts' \in [Consolidators -> 0..(RefreshAttempts - 1)]
  BY <1>2 DEF TypeOK, ExecutionsOK, Return
<1>7. began' \in [Consolidators -> Nat]
  BY DEF TypeOK, ExecutionsOK, Return
<1>8. pc'[c] = "idle" /\ conflicts'[c] = 0
  BY DEF TypeOK, ExecutionsOK, Return
<1>9. \A d \in Consolidators \ {c} :
        /\ pc'[d] = pc[d] /\ job'[d] = job[d] /\ previous'[d] = previous[d]
        /\ conflicts'[d] = conflicts[d] /\ began'[d] = began[d]
  BY DEF TypeOK, ExecutionsOK, Return
<1>10. \A d \in Consolidators : pc'[d] # "idle" => job'[d] \in Jobs
  BY <1>8, <1>9 DEF TypeOK, ExecutionsOK
<1> QED
  BY <1>3, <1>4, <1>5, <1>6, <1>7, <1>8, <1>9, <1>10 DEF ExecutionsOK

(* What the code tells apart of a step: it writes nothing ...              *)
WritesNothing == UNCHANGED <<summary, ledger>>

(* ... or it is a save that won, of the row that was read.                 *)
LEMMA SavedRow ==
  ASSUME TypeOK, Known, NEW c \in Consolidators, Save(c)
  PROVE  /\ job[c] \in Jobs \ ledger /\ Submitted(job[c])
         /\ job[c] \notin Legacy => summary.turnsCovered < End(job[c])
         /\ summary' = Merged(job[c], summary)
         /\ summary' \in Summaries
         /\ summary'.turnsCovered > summary.turnsCovered
         /\ summary'.revision = summary.revision + 1
         /\ Len(summary'.content) - Len(summary.content) =
              summary'.turnsCovered - summary.turnsCovered
<1>1. pc[c] = "saving" /\ job[c] \notin ledger
  BY DEF Save
<1>2. job[c] \in Jobs
  BY <1>1 DEF TypeOK, ExecutionsOK
<1>3. Submitted(job[c])
  BY <1>1 DEF Known, Reader
<1>4. previous[c] = summary
  BY <1>1 DEF Known, Writer, Save
<1>5. job[c] \notin Legacy => summary.turnsCovered < End(job[c])
  BY <1>1, <1>4 DEF Known, Writer
<1>6. summary' = Merged(job[c], summary)
  BY <1>4 DEF Save
<1>7. summary \in Summaries
  BY DEF TypeOK, RowsOK
<1>8. /\ Merged(job[c], summary) \in Summaries
      /\ Merged(job[c], summary).turnsCovered > summary.turnsCovered
      /\ Merged(job[c], summary).revision = summary.revision + 1
      /\ Len(Merged(job[c], summary).content) - Len(summary.content) =
           Merged(job[c], summary).turnsCovered - summary.turnsCovered
  BY <1>2, <1>3, <1>5, <1>7, MergedRow
<1> QED
  BY <1>1, <1>2, <1>3, <1>5, <1>6, <1>8

(* Every other step writes nothing.                                        *)
LEMMA OnlySavesWrite ==
  ASSUME [Next]_vars
  PROVE  WritesNothing \/ \E c \in Consolidators : Save(c)
<1>1. CASE UNCHANGED vars
  BY <1>1 DEF vars, WritesNothing
<1>2. ASSUME NEW j \in Jobs, NEW run \in Runs, Submit(j, run)
      PROVE  WritesNothing
  BY <1>2 DEF Submit, WritesNothing
<1>3. ASSUME NEW c \in Consolidators, Refresh(c)
      PROVE  WritesNothing \/ Save(c)
  BY <1>3 DEF Refresh, Step, Begin, RefuseGap, FindCovered, Read, SaveDuplicate,
              SaveConflict, Fail, WritesNothing
<1> QED
  BY <1>1, <1>2, <1>3 DEF Next

-----------------------------------------------------------------------------
(* Types are kept by each action.                                          *)
LEMMA TypeStep ==
  ASSUME TypeOK, Known, [Next]_vars
  PROVE  TypeOK'
<1>1. CASE UNCHANGED vars
  BY <1>1 DEF TypeOK, RowsOK, ExecutionsOK, vars, execution
<1>2. ASSUME NEW j \in Jobs, NEW run \in Runs, Submit(j, run)
      PROVE  TypeOK'
  <2>1. source' \in [Jobs -> Runs \cup {NoRun}]
    BY <1>2 DEF TypeOK, RowsOK, Submit
  <2> QED
    BY <1>2, <2>1 DEF TypeOK, RowsOK, ExecutionsOK, Submit, execution
<1>3. ASSUME NEW c \in Consolidators, NEW j \in Jobs, Begin(c, j)
      PROVE  TypeOK'
  <2>1. summary.revision \in Nat
    BY DEF TypeOK, RowsOK, Summaries
  <2>2. began' \in [Consolidators -> Nat]
    BY <1>3, <2>1 DEF TypeOK, ExecutionsOK, Begin
  <2>3. ExecutionsOK'
    BY <1>3, <2>2 DEF TypeOK, ExecutionsOK, Begin
  <2> QED
    BY <1>3, <2>3 DEF TypeOK, RowsOK, Begin
<1>4. ASSUME NEW c \in Consolidators, Return(c), UNCHANGED <<source, summary, ledger>>
      PROVE  TypeOK'
  BY <1>4, ReturnedExecution DEF TypeOK, RowsOK
<1>5. ASSUME NEW c \in Consolidators, Read(c)
      PROVE  TypeOK'
  <2>1. previous' \in [Consolidators -> Summaries]
    BY <1>5 DEF TypeOK, RowsOK, ExecutionsOK, Read
  <2>2. ExecutionsOK'
    BY <1>5, <2>1 DEF TypeOK, ExecutionsOK, Read
  <2> QED
    BY <1>5, <2>2 DEF TypeOK, RowsOK, Read
<1>6. ASSUME NEW c \in Consolidators, Save(c)
      PROVE  TypeOK'
  <2>1. summary' \in Summaries /\ job[c] \in Jobs
    BY <1>6, SavedRow
  <2>2. ledger' = ledger \cup {job[c]} /\ source' = source /\ Return(c)
    BY <1>6 DEF Save
  <2>3. RowsOK'
    BY <2>1, <2>2 DEF TypeOK, RowsOK
  <2> QED
    BY <2>2, <2>3, ReturnedExecution DEF TypeOK
<1>7. ASSUME NEW c \in Consolidators, SaveConflict(c)
      PROVE  TypeOK'
  <2>1. CASE conflicts[c] + 1 < RefreshAttempts
    <3>1. NoSummary \in Summaries
      <4>1. <<>> \in Seq(Nat)
        BY EmptySeq
      <4> QED
        BY <4>1 DEF NoSummary, Summaries
    <3>2. conflicts[c] \in 0..(RefreshAttempts - 1)
      BY DEF TypeOK, ExecutionsOK
    <3>3. conflicts[c] + 1 \in 0..(RefreshAttempts - 1)
      BY <2>1, <3>2, SummaryAssumption
    <3>4. conflicts' = [conflicts EXCEPT ![c] = conflicts[c] + 1]
      BY <1>7, <2>1 DEF SaveConflict
    <3>5. conflicts' \in [Consolidators -> 0..(RefreshAttempts - 1)]
      BY <3>3, <3>4 DEF TypeOK, ExecutionsOK
    <3>6. previous' \in [Consolidators -> Summaries]
      BY <1>7, <2>1, <3>1 DEF TypeOK, ExecutionsOK, SaveConflict
    <3>7. ExecutionsOK'
      BY <1>7, <2>1, <3>5, <3>6 DEF TypeOK, ExecutionsOK, SaveConflict
    <3> QED
      BY <1>7, <3>7 DEF TypeOK, RowsOK, SaveConflict
  <2>2. CASE ~(conflicts[c] + 1 < RefreshAttempts)
    BY <1>4, <1>7, <2>2 DEF SaveConflict
  <2> QED
    BY <2>1, <2>2
<1>8. ASSUME NEW c \in Consolidators, Refresh(c)
      PROVE  TypeOK'
  BY <1>3, <1>4, <1>5, <1>6, <1>7, <1>8
     DEF Refresh, Step, RefuseGap, FindCovered, SaveDuplicate, Fail
<1> QED
  BY <1>1, <1>2, <1>8 DEF Next

(* An execution that stands where it stood keeps what it knows, whatever   *)
(* the row has become.                                                     *)
LEMMA BystanderKnows ==
  ASSUME TypeOK, TypeOK', NEW d \in Consolidators, Reader(d), Writer(d),
         pc'[d] = pc[d], job'[d] = job[d], previous'[d] = previous[d],
         conflicts'[d] = conflicts[d], began'[d] = began[d],
         pc[d] # "idle" => source'[job[d]] = source[job[d]],
         summary' = summary \/ summary'.revision > summary.revision
  PROVE  Reader(d)' /\ Writer(d)'
<1>1. /\ summary.revision \in Nat /\ summary'.revision \in Nat
      /\ previous[d].revision \in Nat
      /\ began[d] \in Nat /\ conflicts[d] \in Nat
  <2>1. summary \in Summaries /\ summary' \in Summaries
    BY DEF TypeOK, RowsOK
  <2>2. previous[d] \in Summaries
    BY DEF TypeOK, ExecutionsOK
  <2>3. began[d] \in Nat
    BY DEF TypeOK, ExecutionsOK
  <2>4. conflicts[d] \in 0..(RefreshAttempts - 1)
    BY DEF TypeOK, ExecutionsOK
  <2>5. conflicts[d] \in Nat
    BY <2>4, SummaryAssumption
  <2> QED
    BY <2>1, <2>2, <2>3, <2>5 DEF Summaries
<1>2. summary'.revision >= summary.revision
  BY <1>1
<1>3. Reader(d)'
  BY <1>1, <1>2 DEF Reader, Submitted
<1>4. Writer(d)'
  <2> SUFFICES ASSUME pc[d] = "saving"
               PROVE  /\ previous[d].revision <= summary'.revision
                      /\ previous[d].revision >= began[d] + conflicts[d]
                      /\ previous[d].revision = summary'.revision => previous[d] = summary'
                      /\ job[d] \notin Legacy => previous[d].turnsCovered < End(job[d])'
    BY DEF Writer
  <2>1. previous[d].revision <= summary.revision
    BY DEF Writer
  <2>2. previous[d].revision <= summary'.revision
    BY <1>1, <1>2, <2>1
  <2>3. previous[d].revision = summary'.revision => previous[d] = summary'
    <3>1. CASE summary' = summary
      BY <3>1 DEF Writer
    <3>2. CASE summary'.revision > summary.revision
      BY <1>1, <2>1, <3>2
    <3> QED
      BY <3>1, <3>2
  <2>4. End(job[d])' = End(job[d])
    BY DEF End
  <2> QED
    BY <2>2, <2>3, <2>4 DEF Writer
<1> QED
  BY <1>3, <1>4

(* What the executions know is kept by each action.                        *)
LEMMA KnownStep ==
  ASSUME TypeOK, TypeOK', Known, [Next]_vars
  PROVE  Known'
<1>1. CASE UNCHANGED vars
  <2>1. \A d \in Consolidators : Reader(d)' /\ Writer(d)'
    BY <1>1 DEF vars, execution, Known, Reader, Writer, Submitted, End
  <2> QED
    BY <2>1 DEF Known
<1>2. ASSUME NEW j \in Jobs, NEW run \in Runs, Submit(j, run)
      PROVE  Known'
  <2>1. ASSUME NEW d \in Consolidators
        PROVE  Reader(d)' /\ Writer(d)'
    <3>1. pc[d] # "idle" => job[d] # j
      BY <1>2, <2>1 DEF Submit, Known, Reader
    <3>2. pc[d] # "idle" => source'[job[d]] = source[job[d]]
      BY <1>2, <3>1 DEF Submit, TypeOK, RowsOK, ExecutionsOK
    <3>3. Reader(d) /\ Writer(d)
      BY DEF Known
    <3>4. /\ pc'[d] = pc[d] /\ job'[d] = job[d] /\ previous'[d] = previous[d]
          /\ conflicts'[d] = conflicts[d] /\ began'[d] = began[d]
          /\ summary' = summary
      BY <1>2 DEF Submit, execution
    <3> QED
      BY <3>2, <3>3, <3>4, BystanderKnows
  <2> QED
    BY <2>1 DEF Known
<1>3. ASSUME NEW c \in Consolidators, source' = source,
             summary' = summary \/ summary'.revision > summary.revision,
             \A d \in Consolidators \ {c} :
               /\ pc'[d] = pc[d] /\ job'[d] = job[d] /\ previous'[d] = previous[d]
               /\ conflicts'[d] = conflicts[d] /\ began'[d] = began[d],
             Reader(c)' /\ Writer(c)'
      PROVE  Known'
  <2>1. ASSUME NEW d \in Consolidators \ {c}
        PROVE  Reader(d)' /\ Writer(d)'
    <3>1. Reader(d) /\ Writer(d)
      BY DEF Known
    <3> QED
      BY <1>3, <3>1, BystanderKnows
  <2> QED
    BY <1>3, <2>1 DEF Known
<1>4. ASSUME NEW c \in Consolidators, Return(c), source' = source,
             summary' = summary \/ summary'.revision > summary.revision
      PROVE  Known'
  <2>1. pc'[c] = "idle" /\ conflicts'[c] = 0
    BY <1>4, ReturnedExecution
  <2>2. Reader(c)' /\ Writer(c)'
    BY <2>1 DEF Reader, Writer
  <2>3. \A d \in Consolidators \ {c} :
          /\ pc'[d] = pc[d] /\ job'[d] = job[d] /\ previous'[d] = previous[d]
          /\ conflicts'[d] = conflicts[d] /\ began'[d] = began[d]
    BY <1>4, ReturnedExecution
  <2> QED
    BY <1>3, <1>4, <2>2, <2>3
<1>5. ASSUME NEW c \in Consolidators, NEW j \in Jobs, Begin(c, j)
      PROVE  Known'
  <2>1. /\ pc'[c] = "reading" /\ job'[c] = j /\ began'[c] = summary.revision
        /\ conflicts'[c] = conflicts[c] /\ summary' = summary /\ source' = source
        /\ Submitted(j) /\ pc[c] = "idle"
    BY <1>5 DEF Begin, TypeOK, ExecutionsOK
  <2>2. conflicts[c] = 0
    BY <2>1 DEF Known, Reader
  <2>3. Reader(c)'
    BY <2>1, <2>2 DEF Reader, Submitted, TypeOK, RowsOK, Summaries
  <2>4. Writer(c)'
    BY <2>1 DEF Writer
  <2>5. \A d \in Consolidators \ {c} :
          /\ pc'[d] = pc[d] /\ job'[d] = job[d] /\ previous'[d] = previous[d]
          /\ conflicts'[d] = conflicts[d] /\ began'[d] = began[d]
    BY <1>5 DEF Begin, TypeOK, ExecutionsOK
  <2> QED
    BY <1>3, <2>1, <2>3, <2>4, <2>5
<1>6. ASSUME NEW c \in Consolidators, Read(c)
      PROVE  Known'
  <2>1. /\ pc[c] = "reading" /\ pc'[c] = "saving" /\ job'[c] = job[c]
        /\ previous'[c] = summary /\ conflicts'[c] = conflicts[c]
        /\ began'[c] = began[c] /\ summary' = summary /\ source' = source
    BY <1>6 DEF Read, TypeOK, ExecutionsOK
  <2>2. Submitted(job[c]) /\ summary.revision >= began[c] + conflicts[c]
    BY <2>1 DEF Known, Reader
  <2>3. job[c] \in Jobs
    BY <2>1 DEF TypeOK, ExecutionsOK
  <2>4. summary.turnsCovered \in Nat /\ summary.revision \in Nat
    BY DEF TypeOK, RowsOK, Summaries
  <2>5. End(job[c]) \in Nat
    BY <2>2, <2>3, SubmittedRun
  <2>6. job[c] \notin Legacy => summary.turnsCovered < End(job[c])
    BY <1>6, <2>3, <2>4, <2>5, NothingNewMeansCovered DEF Read
  <2>7. Reader(c)'
    BY <2>1, <2>2 DEF Reader, Submitted
  <2>8. Writer(c)'
    BY <2>1, <2>2, <2>4, <2>6 DEF Writer, End
  <2>9. \A d \in Consolidators \ {c} :
          /\ pc'[d] = pc[d] /\ job'[d] = job[d] /\ previous'[d] = previous[d]
          /\ conflicts'[d] = conflicts[d] /\ began'[d] = began[d]
    BY <1>6 DEF Read, TypeOK, ExecutionsOK
  <2> QED
    BY <1>3, <2>1, <2>7, <2>8, <2>9
<1>7. ASSUME NEW c \in Consolidators, Save(c)
      PROVE  Known'
  <2>1. summary'.revision = summary.revision + 1
    BY <1>7, SavedRow
  <2>2. summary.revision \in Nat
    BY DEF TypeOK, RowsOK, Summaries
  <2>3. summary'.revision > summary.revision
    BY <2>1, <2>2
  <2> QED
    BY <1>4, <1>7, <2>3 DEF Save
<1>8. ASSUME NEW c \in Consolidators, SaveConflict(c)
      PROVE  Known'
  <2>1. CASE conflicts[c] + 1 < RefreshAttempts
    <3>1. /\ pc[c] = "saving" /\ pc'[c] = "reading" /\ job'[c] = job[c]
          /\ conflicts'[c] = conflicts[c] + 1 /\ began'[c] = began[c]
          /\ summary' = summary /\ source' = source
          /\ summary.revision # previous[c].revision
      BY <1>8, <2>1 DEF SaveConflict, TypeOK, ExecutionsOK
    <3>2. /\ Submitted(job[c])
          /\ previous[c].revision <= summary.revision
          /\ previous[c].revision >= began[c] + conflicts[c]
      BY <3>1 DEF Known, Reader, Writer
    <3>3. previous[c].revision \in Nat /\ summary.revision \in Nat
      BY DEF TypeOK, RowsOK, ExecutionsOK, Summaries
    <3>4. began[c] \in Nat /\ conflicts[c] \in Int
      BY DEF TypeOK, ExecutionsOK
    <3>5. summary.revision >= began[c] + (conflicts[c] + 1)
      BY <3>1, <3>2, <3>3, <3>4
    <3>6. Reader(c)'
      BY <3>1, <3>2, <3>5 DEF Reader, Submitted
    <3>7. Writer(c)'
      BY <3>1 DEF Writer
    <3>8. \A d \in Consolidators \ {c} :
            /\ pc'[d] = pc[d] /\ job'[d] = job[d] /\ previous'[d] = previous[d]
            /\ conflicts'[d] = conflicts[d] /\ began'[d] = began[d]
      BY <1>8, <2>1 DEF SaveConflict, TypeOK, ExecutionsOK
    <3> QED
      BY <1>3, <3>1, <3>6, <3>7, <3>8
  <2>2. CASE ~(conflicts[c] + 1 < RefreshAttempts)
    BY <1>4, <1>8, <2>2 DEF SaveConflict
  <2> QED
    BY <2>1, <2>2
<1>9. ASSUME NEW c \in Consolidators, Refresh(c)
      PROVE  Known'
  BY <1>4, <1>5, <1>6, <1>7, <1>8, <1>9
     DEF Refresh, Step, RefuseGap, FindCovered, SaveDuplicate, Fail
<1> QED
  BY <1>1, <1>2, <1>9 DEF Next

-----------------------------------------------------------------------------
(* It all holds before the first job.                                      *)
LEMMA InitKnown == Init => TypeOK /\ Known
<1> SUFFICES ASSUME Init PROVE TypeOK /\ Known
  OBVIOUS
<1>1. NoSummary \in Summaries
  <2>1. <<>> \in Seq(Nat)
    BY EmptySeq
  <2> QED
    BY <2>1 DEF NoSummary, Summaries
<1>2. RowsOK
  BY <1>1 DEF Init, RowsOK
<1>3. ExecutionsOK
  BY <1>1, SummaryAssumption DEF Init, ExecutionsOK
<1>4. Known
  BY DEF Init, Known, Reader, Writer
<1> QED
  BY <1>2, <1>3, <1>4 DEF TypeOK

(* The inductive invariant of the specification.                           *)
LEMMA KnownAlways == Spec => [](TypeOK /\ Known)
<1>1. TypeOK /\ Known /\ [Next]_vars => (TypeOK /\ Known)'
  BY TypeStep, KnownStep
<1> QED
  BY <1>1, InitKnown, PTL DEF Spec

(* The row, the ledger and every execution stay well formed.               *)
THEOREM TypeInvariant == Spec => []TypeOK
  BY KnownAlways, PTL

(* A refresh is beaten only by a save made since it began, so that its     *)
(* "conflicted repeatedly" error takes as many saves as it has attempts.   *)
THEOREM Beaten == Spec => []LosesOnlyToASave
<1>1. TypeOK /\ Known => LosesOnlyToASave
  <2> SUFFICES ASSUME TypeOK, Known, NEW c \in Consolidators, pc[c] = "saving",
                      previous[c].revision # summary.revision
               PROVE  summary.revision > began[c] + conflicts[c]
    BY DEF LosesOnlyToASave
  <2>1. /\ previous[c].revision <= summary.revision
        /\ previous[c].revision >= began[c] + conflicts[c]
    BY DEF Known, Writer
  <2>2. previous[c].revision \in Nat /\ summary.revision \in Nat
    BY DEF TypeOK, RowsOK, ExecutionsOK, Summaries
  <2>3. began[c] \in Nat /\ conflicts[c] \in Int
    BY DEF TypeOK, ExecutionsOK
  <2> QED
    BY <2>1, <2>2, <2>3
<1> QED
  BY <1>1, KnownAlways, PTL

(* No write takes back what an earlier one had covered.                    *)
THEOREM Forward == Spec => WatermarkAdvances
<1>1. TypeOK /\ Known /\ [Next]_vars =>
        (summary' # summary =>
           /\ summary'.turnsCovered > summary.turnsCovered
           /\ summary'.revision = summary.revision + 1)
  <2> SUFFICES ASSUME TypeOK, Known, [Next]_vars, summary' # summary
               PROVE  /\ summary'.turnsCovered > summary.turnsCovered
                      /\ summary'.revision = summary.revision + 1
    OBVIOUS
  <2>1. PICK c \in Consolidators : Save(c)
    BY OnlySavesWrite DEF WritesNothing
  <2> QED
    BY <2>1, SavedRow
<1> QED
  BY <1>1, KnownAlways, PTL DEF Spec, WatermarkAdvances

(* The watermark counts what was folded, and each job makes at most one    *)
(* revision.                                                               *)
THEOREM OneEach == Spec => []OneRevisionPerJob
<1>1. Init => OneRevisionPerJob
  BY FS_EmptySet, EmptySeq DEF Init, OneRevisionPerJob, NoSummary
<1>2. TypeOK /\ Known /\ OneRevisionPerJob /\ [Next]_vars => OneRevisionPerJob'
  <2> SUFFICES ASSUME TypeOK, Known, OneRevisionPerJob, [Next]_vars
               PROVE  OneRevisionPerJob'
    OBVIOUS
  <2>1. CASE WritesNothing
    BY <2>1 DEF WritesNothing, OneRevisionPerJob
  <2>2. ASSUME NEW c \in Consolidators, Save(c)
        PROVE  OneRevisionPerJob'
    <3>1. /\ job[c] \in Jobs \ ledger
          /\ summary'.revision = summary.revision + 1
          /\ summary' \in Summaries
          /\ Len(summary'.content) - Len(summary.content) =
               summary'.turnsCovered - summary.turnsCovered
      BY <2>2, SavedRow
    <3>2. ledger' = ledger \cup {job[c]}
      BY <2>2 DEF Save
    <3>3. IsFiniteSet(ledger)
      BY SummaryAssumption, FS_Subset DEF TypeOK, RowsOK
    <3>4. Cardinality(ledger') = Cardinality(ledger) + 1
      BY <3>1, <3>2, <3>3, FS_AddElement
    <3>5. /\ summary.content \in Seq(Nat) /\ summary'.content \in Seq(Nat)
          /\ summary.turnsCovered \in Nat /\ summary'.turnsCovered \in Nat
      BY <3>1 DEF TypeOK, RowsOK, Summaries
    <3>6. Len(summary.content) \in Nat /\ Len(summary'.content) \in Nat
      BY <3>5, LenProperties
    <3>7. summary.turnsCovered = Len(summary.content)
      BY DEF OneRevisionPerJob
    <3>8. \A a, b, d, e \in Nat : a - b = d - e /\ e = b => d = a
      OBVIOUS
    <3>9. summary'.turnsCovered = Len(summary'.content)
      BY <3>1, <3>5, <3>6, <3>7, <3>8
    <3> QED
      BY <3>1, <3>4, <3>9 DEF OneRevisionPerJob
  <2> QED
    BY <2>1, <2>2, OnlySavesWrite
<1> QED
  BY <1>1, <1>2, KnownAlways, PTL DEF Spec

(* Where every job says where its turns start, a won save extends the      *)
(* prefix to the end of its run.                                           *)
LEMMA SaveExtends ==
  ASSUME TypeOK, Known, NEW c \in Consolidators, Save(c), job[c] \notin Legacy,
         summary.content = Positions(0, summary.turnsCovered)
  PROVE  /\ summary'.turnsCovered = End(job[c])
         /\ summary'.turnsCovered \in Nat
         /\ summary'.content = Positions(0, summary'.turnsCovered)
<1>1. /\ job[c] \in Jobs /\ Submitted(job[c])
      /\ summary.turnsCovered < End(job[c])
      /\ summary' = Merged(job[c], summary)
  BY SavedRow
<1>2. End(job[c]) \in Nat /\ summary.turnsCovered \in Nat
  BY <1>1, SubmittedRun DEF TypeOK, RowsOK, Summaries
<1>3. /\ summary'.turnsCovered = End(job[c])
      /\ summary'.content = summary.content \o Positions(summary.turnsCovered, End(job[c]))
  BY <1>1 DEF Merged, Uncovered
<1>4. 0 <= summary.turnsCovered /\ summary.turnsCovered <= End(job[c])
  BY <1>1, <1>2
<1>5. Positions(0, summary.turnsCovered) \o Positions(summary.turnsCovered, End(job[c]))
        = Positions(0, End(job[c]))
  BY <1>2, <1>4, PositionsJoin
<1> QED
  BY <1>2, <1>3, <1>5

(* Every message up to the watermark is in the summary once and in order,  *)
(* for any overlap of runs and any interleaving of executions.             *)
THEOREM Once == Spec => []EachMessageOnce
<1>1. Init => EachMessageOnce
  <2> SUFFICES ASSUME Init PROVE <<>> = Positions(0, 0)
    BY DEF Init, EachMessageOnce, NoSummary
  <2>1. Positions(0, 0) \in Seq(Nat) /\ Len(Positions(0, 0)) = 0
    BY PositionsLength
  <2> QED
    BY <2>1, EmptySeq
<1>2. TypeOK /\ Known /\ EachMessageOnce /\ [Next]_vars => EachMessageOnce'
  <2> SUFFICES ASSUME TypeOK, Known, EachMessageOnce, [Next]_vars,
                      \A j \in Legacy : ~Submitted(j)'
               PROVE  summary'.content = Positions(0, summary'.turnsCovered)
    BY DEF EachMessageOnce, Positions
  <2>1. \A j \in Legacy : ~Submitted(j)
    <3>1. \A j \in Jobs : Submitted(j) => Submitted(j)'
      <4>1. CASE UNCHANGED vars
        BY <4>1 DEF vars, Submitted
      <4>2. ASSUME NEW k \in Jobs, NEW run \in Runs, Submit(k, run)
            PROVE  \A j \in Jobs : Submitted(j) => Submitted(j)'
        BY <4>2 DEF Submit, Submitted, TypeOK, RowsOK
      <4>3. ASSUME NEW c \in Consolidators, Refresh(c)
            PROVE  source' = source
        BY <4>3 DEF Refresh, Step, Begin, RefuseGap, FindCovered, Read,
                    SaveDuplicate, Save, SaveConflict, Fail
      <4> QED
        BY <4>1, <4>2, <4>3 DEF Next, Submitted
    <3> QED
      BY <3>1, SummaryAssumption
  <2>2. summary.content = Positions(0, summary.turnsCovered)
    BY <2>1 DEF EachMessageOnce
  <2>3. CASE WritesNothing
    BY <2>2, <2>3 DEF WritesNothing
  <2>4. ASSUME NEW c \in Consolidators, Save(c)
        PROVE  summary'.content = Positions(0, summary'.turnsCovered)
    <3>1. job[c] \notin Legacy
      BY <2>1, <2>4, SavedRow
    <3> QED
      BY <2>2, <2>4, <3>1, SaveExtends
  <2> QED
    BY <2>3, <2>4, OnlySavesWrite
<1> QED
  BY <1>1, <1>2, KnownAlways, PTL DEF Spec

(* Without legacy jobs the module implements RunningSummary: each step     *)
(* extends the digested prefix or leaves it alone.                         *)
THEOREM Implements == ASSUME Legacy = {} PROVE Spec => GrowingPrefix
<1>1. Init => Digest!Init
  BY DEF Init, Digest!Init, NoSummary
<1>2. TypeOK /\ Known /\ EachMessageOnce /\ [Next]_vars
        => [Digest!Advance]_(summary.content)
  <2> SUFFICES ASSUME TypeOK, Known, EachMessageOnce, [Next]_vars,
                      summary'.content # summary.content
               PROVE  Digest!Advance
    OBVIOUS
  <2>1. PICK c \in Consolidators : Save(c)
    BY OnlySavesWrite DEF WritesNothing
  <2>2. summary.content = Positions(0, summary.turnsCovered)
    BY DEF EachMessageOnce
  <2>3. /\ summary'.turnsCovered \in Nat
        /\ summary'.content = Positions(0, summary'.turnsCovered)
    BY <2>1, <2>2, SaveExtends
  <2>4. summary'.turnsCovered > summary.turnsCovered /\ summary.turnsCovered \in Nat
    BY <2>1, SavedRow DEF TypeOK, RowsOK, Summaries
  <2>5. Len(summary.content) = summary.turnsCovered
    <3>1. 0 <= summary.turnsCovered
      BY <2>4
    <3>2. Len(Positions(0, summary.turnsCovered)) = summary.turnsCovered - 0
      BY <2>4, <3>1, PositionsLength
    <3> QED
      BY <2>2, <2>4, <3>2
  <2>6. Len(summary'.content) = summary'.turnsCovered
    <3>1. 0 <= summary'.turnsCovered
      BY <2>3
    <3>2. Len(Positions(0, summary'.turnsCovered)) = summary'.turnsCovered - 0
      BY <2>3, <3>1, PositionsLength
    <3> QED
      BY <2>3, <3>2
  <2>7. Positions(0, summary'.turnsCovered) = Digest!Prefix(summary'.turnsCovered)
    BY <2>3 DEF Positions, Digest!Prefix
  <2> QED
    BY <2>3, <2>4, <2>5, <2>6, <2>7 DEF Digest!Advance
<1> QED
  BY <1>1, <1>2, KnownAlways, Once, PTL DEF Spec, GrowingPrefix, Digest!Spec

=============================================================================
