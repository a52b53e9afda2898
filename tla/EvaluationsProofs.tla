------------------------- MODULE EvaluationsProofs -------------------------
(***************************************************************************)
(* What Evaluations.cfg checks, proved for any suites, options, workers,   *)
(* replies, judgments, reviewers and failures. In this order: what a       *)
(* trajectory has been through (IInv), where its result goes (Placed), how *)
(* the reviewers' forms are read back (Reviewed), and how far a summary    *)
(* may fall behind its conversation (Watched).                             *)
(***************************************************************************)
EXTENDS Evaluations, FiniteSetTheorems, SequenceTheorems, TLAPS

Steps == {"seeding", "speaking", "asking", "draining", "checking", "closing", "assessing"}

(* The fields of a trajectory; what is in most of them does not matter.    *)
Trajectories(V) ==
  [pc : Steps, slot : V, item : V, turn : V, leaving : V, reply : V, transcript : Seq(V),
   metadata : V, seeded : V, error : BOOLEAN, queue : V, taken : Nat, done : Seq(V), covered : V]

(* Unless an error is recorded, each job the cursor has passed was         *)
(* consolidated, a conversation that closes has had an exchange, and one   *)
(* that is assessed has left no job behind.                                *)
Traced(t) ==
  ~t.error =>
    /\ Len(t.done) = t.taken
    /\ t.pc \in {"closing", "assessing"} => t.transcript # <<>>
    /\ t.pc = "assessing" /\ Consolidates => t.taken = Len(t.queue)

Recorded(t) == (\E V : t \in Trajectories(V)) /\ Traced(t)

(* A result that passes or certifies is of a whole trajectory.             *)
Whole(r) ==
  r.passed \/ r.certified =>
    /\ r.completed = r.requested
    /\ Consolidates => r.owed = 0
    /\ Judged => r.judged
    /\ r.item.scenario.probes # {} => r.preflight

IInv ==
  /\ options \in Options
  /\ DOMAIN run = Workers
  /\ \A w \in Workers : run[w] = Idle \/ Recorded(run[w])
  /\ \A i \in DOMAIN results : results[i] # Missing => Whole(results[i])

-----------------------------------------------------------------------------
LEMMA NotIdle ==
  ASSUME IInv, NEW w \in Workers, run[w].pc # "idle"
  PROVE  Recorded(run[w])
BY DEF IInv, Idle

(* The sets of values may always be taken larger.                          *)
LEMMA Larger ==
  ASSUME NEW V, NEW W, V \subseteq W
  PROVE  Trajectories(V) \subseteq Trajectories(W)
<1>1. Seq(V) \subseteq Seq(W)
  OBVIOUS
<1> QED
  BY <1>1 DEF Trajectories

(* A worker that moves to a trajectory in order keeps the invariant.       *)
LEMMA MoveKeeps ==
  ASSUME IInv, NEW w \in Workers, NEW t, Recorded(t) \/ t = Idle, Move(w, t),
         options' = options, results' = results
  PROVE  IInv'
<1>1. options' \in Options /\ DOMAIN run' = Workers
  BY DEF IInv, Move
<1>2. Consolidates' = Consolidates /\ Judged' = Judged
  BY DEF Consolidates, InProcess, Judged
<1>3. ASSUME NEW v \in Workers
      PROVE  run[v]' = Idle \/ Recorded(run[v])'
  <2>1. run'[v] = IF v = w THEN t ELSE run[v]
    BY DEF Move, IInv
  <2>2. run'[v] = Idle \/ Recorded(run'[v])
    BY <2>1 DEF IInv
  <2> QED
    BY <2>2, <1>2 DEF Recorded, Traced, Trajectories
<1>4. \A i \in DOMAIN results' : results'[i] # Missing => Whole(results[i])'
  BY <1>2 DEF IInv, Whole
<1> QED
  BY <1>1, <1>3, <1>4 DEF IInv

(* Between two replies, and once an error is recorded, there is little to  *)
(* be kept.                                                                *)
LEMMA TracedAsBefore ==
  ASSUME NEW t, NEW n, Traced(t), n.error = t.error, n.done = t.done, n.taken = t.taken,
         n.pc \notin {"closing", "assessing"}
  PROVE  Traced(n)
BY DEF Traced

LEMMA TracedInError == ASSUME NEW n, n.error = TRUE PROVE Traced(n)
BY DEF Traced

-----------------------------------------------------------------------------
(* The steps of a conversation.                                            *)

LEMMA SeedKeeps ==
  ASSUME IInv, NEW w \in Workers, Seed(w), options' = options, results' = results
  PROVE  IInv'
<1> DEFINE t == run[w]
<1>1. Recorded(t) /\ t.pc = "seeding"
  BY NotIdle DEF Seed, At
<1>2. PICK V : t \in Trajectories(V)
  BY <1>1 DEF Recorded
<1> DEFINE W == V \cup BOOLEAN
<1>3. t \in Trajectories(W)
  BY <1>2, Larger
<1> DEFINE n1 == [t EXCEPT !.pc = "speaking"]
           n2 == [t EXCEPT !.pc = "speaking", !.seeded = TRUE]
           n3 == [t EXCEPT !.pc = "closing", !.error = TRUE]
<1>4. Move(w, n1) \/ Move(w, n2) \/ Move(w, n3)
  BY DEF Seed
<1>5. n1 \in Trajectories(W) /\ n2 \in Trajectories(W) /\ n3 \in Trajectories(W)
  <2>1. n1 \in Trajectories(W)
    BY <1>3 DEF Trajectories, Steps
  <2>2. n2 \in Trajectories(W)
    BY <1>3 DEF Trajectories, Steps
  <2>3. n3 \in Trajectories(W)
    BY <1>3 DEF Trajectories, Steps
  <2> QED
    BY <2>1, <2>2, <2>3
<1>6. \A n \in {n1, n2} : n.error = t.error /\ n.done = t.done /\ n.taken = t.taken /\ n.pc = "speaking"
  BY <1>3 DEF Trajectories
<1>7. n3.error = TRUE
  BY <1>3 DEF Trajectories
<1>8. Traced(n1) /\ Traced(n2) /\ Traced(n3)
  <2> HIDE DEF n1, n2, n3
  <2>1. Traced(t)
    BY <1>1 DEF Recorded
  <2> QED
    BY <2>1, <1>6, <1>7, TracedAsBefore, TracedInError
<1>9. Recorded(n1) /\ Recorded(n2) /\ Recorded(n3)
  BY <1>5, <1>8 DEF Recorded
<1> HIDE DEF n1, n2, n3
<1> QED
  BY <1>4, <1>9, MoveKeeps

LEMMA SpeakKeeps ==
  ASSUME IInv, NEW w \in Workers, Speak(w), options' = options, results' = results
  PROVE  IInv'
<1> DEFINE t == run[w]
<1>1. Recorded(t) /\ t.pc = "speaking"
  BY NotIdle DEF Speak, At
<1>2. PICK V : t \in Trajectories(V)
  BY <1>1 DEF Recorded
<1> DEFINE W == V \cup BOOLEAN
<1>3. t \in Trajectories(W)
  BY <1>2, Larger
<1> DEFINE n1 == [t EXCEPT !.pc = "asking"]
           n2 == [t EXCEPT !.pc = "asking", !.leaving = TRUE]
           n3 == [t EXCEPT !.pc = "closing", !.error = TRUE]
<1>4. Move(w, n1) \/ Move(w, n2) \/ Move(w, n3)
  BY DEF Speak
<1>5. n1 \in Trajectories(W) /\ n2 \in Trajectories(W) /\ n3 \in Trajectories(W)
  <2>1. n1 \in Trajectories(W)
    BY <1>3 DEF Trajectories, Steps
  <2>2. n2 \in Trajectories(W)
    BY <1>3 DEF Trajectories, Steps
  <2>3. n3 \in Trajectories(W)
    BY <1>3 DEF Trajectories, Steps
  <2> QED
    BY <2>1, <2>2, <2>3
<1>6. \A n \in {n1, n2} : n.error = t.error /\ n.done = t.done /\ n.taken = t.taken /\ n.pc = "asking"
  BY <1>3 DEF Trajectories
<1>7. n3.error = TRUE
  BY <1>3 DEF Trajectories
<1>8. Traced(n1) /\ Traced(n2) /\ Traced(n3)
  <2> HIDE DEF n1, n2, n3
  <2>1. Traced(t)
    BY <1>1 DEF Recorded
  <2> QED
    BY <2>1, <1>6, <1>7, TracedAsBefore, TracedInError
<1>9. Recorded(n1) /\ Recorded(n2) /\ Recorded(n3)
  BY <1>5, <1>8 DEF Recorded
<1> HIDE DEF n1, n2, n3
<1> QED
  BY <1>4, <1>9, MoveKeeps

(* Whatever a turn enqueues, none of it has been passed by the cursor.     *)
LEMMA AnswerKeeps ==
  ASSUME IInv, NEW w \in Workers, Answer(w) \/ AnswerFails(w), options' = options, results' = results
  PROVE  IInv'
<1> DEFINE t == run[w]
<1>1. Recorded(t) /\ t.pc = "asking"
  BY NotIdle DEF Answer, AnswerFails, At
<1>2. PICK V : t \in Trajectories(V)
  BY <1>1 DEF Recorded
<1>3. CASE Answer(w)
  <2>1. PICK reply : Move(w, [t EXCEPT !.pc = IF Due(t) THEN "draining" ELSE "checking",
                                      !.queue = Enqueued(t), !.reply = reply])
    BY <1>3 DEF Answer
  <2> DEFINE next == IF Due(t) THEN "draining" ELSE "checking"
             n == [t EXCEPT !.pc = next, !.queue = Enqueued(t), !.reply = reply]
             W == V \cup {Enqueued(t), reply}
  <2>2. t \in Trajectories(W)
    BY <1>2, Larger
  <2>3. next \in {"draining", "checking"} /\ Move(w, n)
    BY <2>1
  <2>4. Enqueued(t) \in W /\ reply \in W
    OBVIOUS
  <2> HIDE DEF next, W
  <2>5. n \in Trajectories(W)
    BY <2>2, <2>3, <2>4 DEF Trajectories, Steps
  <2>6. n.error = t.error /\ n.done = t.done /\ n.taken = t.taken /\ n.pc \notin {"closing", "assessing"}
    BY <2>2, <2>3 DEF Trajectories
  <2>7. Traced(n)
    BY <1>1, <2>6, TracedAsBefore DEF Recorded
  <2> QED
    BY <2>3, <2>5, <2>7, MoveKeeps DEF Recorded
<1>4. CASE AnswerFails(w)
  <2>1. PICK queue \in {t.queue, Enqueued(t)} :
          Move(w, [t EXCEPT !.pc = "closing", !.error = TRUE, !.queue = queue])
    BY <1>4 DEF AnswerFails
  <2> DEFINE n == [t EXCEPT !.pc = "closing", !.error = TRUE, !.queue = queue]
             W == V \cup {queue}
  <2>2. t \in Trajectories(W)
    BY <1>2, Larger
  <2>3. n \in Trajectories(W) /\ n.error = TRUE
    BY <2>2 DEF Trajectories, Steps
  <2>4. Traced(n)
    BY <2>3, TracedInError
  <2> QED
    BY <2>1, <2>3, <2>4, MoveKeeps DEF Recorded
<1> QED
  BY <1>3, <1>4

LEMMA DrainKeeps ==
  ASSUME IInv, NEW w \in Workers, Drain(w), options' = options, results' = results
  PROVE  IInv'
<1> DEFINE t   == run[w]
           job == t.queue[t.taken + 1]
           end == job.first + job.size
           covered == IF job.refresh /\ end > t.covered THEN end ELSE t.covered
           done == Append(t.done, job)
           taken == t.taken + 1
           n == [t EXCEPT !.taken = taken, !.done = done, !.covered = covered]
<1>1. Recorded(t) /\ t.pc \in {"draining", "closing"} /\ Move(w, n)
  BY NotIdle DEF Drain, Draining, At
<1>2. PICK V : t \in Trajectories(V)
  BY <1>1 DEF Recorded
<1> DEFINE W == V \cup {job, covered}
<1>3. t \in Trajectories(W)
  BY <1>2, Larger
<1>4. t.done \in Seq(W) /\ job \in W /\ covered \in W /\ t.taken \in Nat
  BY <1>3 DEF Trajectories
<1>5. done \in Seq(W) /\ Len(done) = Len(t.done) + 1
  BY <1>4
<1>6. taken \in Nat
  BY <1>4
<1> HIDE DEF job, end, covered, done, taken, W
<1>7. n \in Trajectories(W)
  BY <1>3, <1>4, <1>5, <1>6 DEF Trajectories
<1>8. /\ n.error = t.error /\ n.pc = t.pc /\ n.taken = taken /\ n.done = done
      /\ n.transcript = t.transcript
  BY <1>3 DEF Trajectories
<1>9. Traced(n)
  BY <1>1, <1>4, <1>5, <1>8 DEF Recorded, Traced, taken
<1> QED
  BY <1>1, <1>7, <1>9, MoveKeeps DEF Recorded

LEMMA DrainFailsKeeps ==
  ASSUME IInv, NEW w \in Workers, DrainFails(w), options' = options, results' = results
  PROVE  IInv'
<1> DEFINE t == run[w]
           taken == t.taken + 1
           n == [t EXCEPT !.taken = taken, !.error = TRUE, !.pc = AfterDrain(t)]
<1>1. Recorded(t) /\ Move(w, n)
  BY NotIdle DEF DrainFails, Draining, At
<1>2. PICK V : t \in Trajectories(V)
  BY <1>1 DEF Recorded
<1>3. AfterDrain(t) \in Steps /\ taken \in Nat
  BY <1>2 DEF AfterDrain, Steps, Trajectories
<1> HIDE DEF taken
<1>4. n \in Trajectories(V) /\ n.error = TRUE
  BY <1>2, <1>3 DEF Trajectories
<1>5. Traced(n)
  BY <1>4, TracedInError
<1> QED
  BY <1>1, <1>4, <1>5, MoveKeeps DEF Recorded

LEMMA DrainedKeeps ==
  ASSUME IInv, NEW w \in Workers, Drained(w), options' = options, results' = results
  PROVE  IInv'
<1> DEFINE t == run[w]
<1>1. Recorded(t)
  BY NotIdle DEF Drained, At
<1>2. PICK V : t \in Trajectories(V)
  BY <1>1 DEF Recorded
<1>3. CASE At(w, "draining") /\ Move(w, [t EXCEPT !.pc = "checking"])
  <2>1. [t EXCEPT !.pc = "checking"] \in Trajectories(V) /\ Traced([t EXCEPT !.pc = "checking"])
    BY <1>1, <1>2 DEF Trajectories, Recorded, Traced, Steps
  <2> QED
    BY <1>3, <2>1, MoveKeeps DEF Recorded
<1>4. CASE /\ At(w, "closing") /\ (Consolidates => t.taken = Len(t.queue))
           /\ Move(w, [t EXCEPT !.pc = "assessing"])
  <2>1. [t EXCEPT !.pc = "assessing"] \in Trajectories(V) /\ Traced([t EXCEPT !.pc = "assessing"])
    BY <1>1, <1>2, <1>4 DEF Trajectories, Recorded, Traced, Steps, At
  <2> QED
    BY <1>4, <2>1, MoveKeeps DEF Recorded
<1> QED
  BY <1>3, <1>4 DEF Drained

LEMMA CheckKeeps ==
  ASSUME IInv, NEW w \in Workers, Check(w), options' = options, results' = results
  PROVE  IInv'
<1> DEFINE t == run[w]
           turn == t.turn + 1
           exchange == [offset |-> RetainedStart(t), text |-> t.reply.text, sources |-> t.reply.sources]
           next == IF t.leaving \/ t.turn = Requested(t) THEN "closing" ELSE "speaking"
           n == [t EXCEPT !.pc = next, !.turn = turn, !.metadata = t.reply.metadata,
                          !.transcript = Append(t.transcript, exchange)]
           refused == [t EXCEPT !.pc = "closing", !.error = TRUE]
<1>1. Recorded(t) /\ t.pc = "checking" /\ (Move(w, refused) \/ Move(w, n))
  BY NotIdle DEF Check, At
<1>2. PICK V : t \in Trajectories(V)
  BY <1>1 DEF Recorded
<1>3. CASE Move(w, refused)
  <2>1. refused \in Trajectories(V) /\ Traced(refused)
    BY <1>2 DEF Trajectories, Traced, Steps
  <2> QED
    BY <1>3, <2>1, MoveKeeps DEF Recorded
<1>4. CASE Move(w, n)
  <2> DEFINE W == V \cup {turn, t.reply.metadata, exchange}
  <2>1. t \in Trajectories(W)
    BY <1>2, Larger
  <2>2. next \in {"closing", "speaking"} /\ turn \in W /\ t.reply.metadata \in W /\ exchange \in W
    OBVIOUS
  <2> HIDE DEF turn, exchange, next
  <2>3. t.transcript \in Seq(W)
    BY <2>1 DEF Trajectories
  <2>4. Append(t.transcript, exchange) \in Seq(W) /\ Append(t.transcript, exchange) # <<>>
    BY <2>2, <2>3
  <2>5. n \in Trajectories(W)
    BY <2>1, <2>2, <2>4 DEF Trajectories, Steps
  <2>6. /\ n.error = t.error /\ n.pc = next /\ n.taken = t.taken /\ n.done = t.done
        /\ n.transcript = Append(t.transcript, exchange)
    BY <2>1 DEF Trajectories
  <2>7. Traced(n)
    BY <1>1, <2>2, <2>4, <2>6 DEF Recorded, Traced
  <2> QED
    BY <1>4, <2>5, <2>7, MoveKeeps DEF Recorded
<1> QED
  BY <1>1, <1>3, <1>4

LEMMA ConverseKeeps ==
  ASSUME IInv, NEW w \in Workers, Talk(w)
  PROVE  IInv'
<1>1. Converse(w) /\ options' = options /\ results' = results
  BY DEF Talk, pool
<1> QED
  BY <1>1, SeedKeeps, SpeakKeeps, AnswerKeeps, DrainKeeps, DrainFailsKeeps, DrainedKeeps, CheckKeeps
     DEF Converse

-----------------------------------------------------------------------------
(* Results.                                                                *)

(* What a recorded trajectory and its judges amount to.                    *)
LEMMA ResultIsWhole ==
  ASSUME IInv, NEW t, Recorded(t), t.pc = "assessing", NEW judgments, NEW failed \in BOOLEAN,
         Judged => Len(judgments) > 0 \/ failed \/ t.transcript = <<>>
  PROVE  Whole(Result(t, judgments, failed))
<1> DEFINE r == Result(t, judgments, failed)
<1>1. t.error \in BOOLEAN /\ t.taken \in Nat /\ (\E V : t.done \in Seq(V))
  BY DEF Recorded, Trajectories
<1>2. SUFFICES ASSUME r.passed \/ r.certified
               PROVE  /\ r.completed = r.requested
                      /\ Consolidates => r.owed = 0
                      /\ Judged => r.judged
                      /\ r.item.scenario.probes # {} => r.preflight
  BY DEF Whole
<1>3. ~RuntimeError(t) /\ ~failed
  BY <1>2 DEF Result
<1>4. ~t.error /\ (Scenario(t).probes # {} => PreflightPassed(t))
  BY <1>1, <1>3 DEF RuntimeError
<1>5. Len(t.transcript) = Requested(t)
  <2>1. CASE r.passed
    <3>1. Deterministic(t).criticalPassed
      BY <2>1 DEF Result
    <3>2. \A c \in Checks(t) : c.critical => c.passed
      BY <3>1 DEF Deterministic
    <3>3. [id |-> "completed", weight |-> 3, critical |-> TRUE, passed |-> Completed(t)] \in Checks(t)
      BY DEF Checks
    <3> QED
      BY <3>2, <3>3 DEF Completed
  <2>2. CASE r.certified
    BY <2>2 DEF Result
  <2> QED
    BY <1>2, <2>1, <2>2
<1>6. Consolidates => r.owed = 0
  <2>1. Consolidates => Len(t.queue) = t.taken /\ Len(t.done) = t.taken
    BY <1>4 DEF Recorded, Traced
  <2>2. r.owed = Len(t.queue) - Len(t.done)
    BY DEF Result
  <2> QED
    BY <1>1, <2>1, <2>2
<1>7. Judged => r.judged
  <2>1. t.transcript # <<>>
    BY <1>4 DEF Recorded, Traced
  <2>2. Judged => Len(judgments) > 0
    BY <1>3, <2>1
  <2> QED
    BY <2>2 DEF Result
<1>8. r.completed = Len(t.transcript) /\ r.requested = Requested(t) /\ r.item = t.item /\ r.preflight = PreflightPassed(t)
  BY DEF Result
<1> QED
  BY <1>4, <1>5, <1>6, <1>7, <1>8 DEF Scenario

LEMMA StoreKeeps ==
  ASSUME IInv, NEW w \in Workers, NEW result, Whole(result), Store(w, result)
  PROVE  IInv'
<1>1. Consolidates' = Consolidates /\ Judged' = Judged
  BY DEF Store, Consolidates, InProcess, Judged
<1>2. options' \in Options /\ DOMAIN run' = Workers
  BY DEF IInv, Store, Move
<1>3. ASSUME NEW v \in Workers
      PROVE  (run[v] = Idle \/ Recorded(run[v]))'
  <2>1. run'[v] = Idle \/ Recorded(run'[v])
    BY DEF IInv, Store, Move
  <2> QED
    BY <2>1, <1>1 DEF Recorded, Traced, Trajectories
<1>4. ASSUME NEW i \in DOMAIN results'
      PROVE  (results[i] # Missing => Whole(results[i]))'
  <2>1. i \in DOMAIN results /\ (results'[i] = result \/ results'[i] = results[i])
    BY DEF Store
  <2>2. results'[i] # Missing => Whole(results'[i])
    BY <2>1 DEF IInv
  <2> QED
    BY <2>2, <1>1 DEF Whole, Missing
<1> QED
  BY <1>2, <1>3, <1>4 DEF IInv

LEMMA AssessKeeps ==
  ASSUME IInv, NEW w \in Workers, Assess(w)
  PROVE  IInv'
<1>1. Recorded(run[w]) /\ run[w].pc = "assessing"
  BY NotIdle DEF Assess, At
<1>2. CASE ~Heard(w) /\ Store(w, Result(run[w], <<>>, FALSE))
  <2>1. Judged => run[w].transcript = <<>>
    BY <1>2 DEF Heard
  <2>2. Whole(Result(run[w], <<>>, FALSE))
    BY <1>1, <2>1, ResultIsWhole
  <2> QED
    BY <1>2, <2>2, StoreKeeps
<1>3. ASSUME NEW judgments \in [1..options.replicas -> Judgments], Heard(w),
             Store(w, Result(run[w], judgments, FALSE))
      PROVE  IInv'
  <2>1. options.replicas \in Nat
    BY OptionsAssumption DEF IInv
  <2>2. Len(judgments) = options.replicas
    BY <2>1
  <2>3. Judged => Len(judgments) > 0
    BY <2>2 DEF Judged
  <2>4. Whole(Result(run[w], judgments, FALSE))
    BY <1>1, <2>3, ResultIsWhole
  <2> QED
    BY <1>3, <2>4, StoreKeeps
<1>4. CASE Store(w, Result(run[w], <<>>, TRUE))
  <2>1. Whole(Result(run[w], <<>>, TRUE))
    BY <1>1, ResultIsWhole
  <2> QED
    BY <1>4, <2>1, StoreKeeps
<1> QED
  BY <1>2, <1>3, <1>4 DEF Assess

(* Nothing else touches a trajectory that runs or a result.                *)
LEMMA OthersKeep ==
  ASSUME IInv, UNCHANGED <<options, results>>, DOMAIN run' = Workers,
         \A w \in Workers : run'[w] = run[w] \/ run'[w] = Idle \/ (\E s, i : run'[w] = Fresh(s, i))
  PROVE  IInv'
<1>1. Consolidates' = Consolidates /\ Judged' = Judged
  BY DEF Consolidates, InProcess, Judged
<1>2. ASSUME NEW s, NEW i
      PROVE  Recorded(Fresh(s, i))
  <2> DEFINE V == {s, i, 1, FALSE, <<>>, Unobserved, 0}
  <2>1. Fresh(s, i) \in Trajectories(V)
    BY DEF Fresh, Trajectories, Steps
  <2>2. Traced(Fresh(s, i))
    BY DEF Fresh, Traced
  <2> QED
    BY <2>1, <2>2 DEF Recorded
<1>3. ASSUME NEW w \in Workers
      PROVE  (run[w] = Idle \/ Recorded(run[w]))'
  <2>1. run'[w] = Idle \/ Recorded(run'[w])
    BY <1>2 DEF IInv
  <2> QED
    BY <2>1, <1>1 DEF Recorded, Traced, Trajectories
<1>4. (\A i \in DOMAIN results : results[i] # Missing => Whole(results[i]))'
  BY <1>1 DEF IInv, Whole
<1> QED
  BY <1>3, <1>4 DEF IInv

LEMMA Inductive == ASSUME IInv, [EvaluationsNext]_vars PROVE IInv'
<1>1. CASE \E w \in Workers : Talk(w)
  BY <1>1, ConverseKeeps
<1>2. CASE \E w \in Workers : Assess(w)
  BY <1>2, AssessKeeps
<1>3. ASSUME NEW w \in Workers, Take(w)
      PROVE  IInv'
  <2>1. CASE run' = run
    BY <1>3, <2>1, OthersKeep DEF Take, IInv
  <2>2. CASE Move(w, Fresh(cursor + 1, Work[cursor + 1]))
    BY <1>3, <2>2, OthersKeep DEF Take, IInv, Move
  <2> QED
    BY <1>3, <2>1, <2>2 DEF Take
<1>4. CASE Report \/ Prepare \/ Submit \/ Aggregate \/ UNCHANGED vars \/ \E w \in Workers : WriteFails(w)
  <2>1. UNCHANGED <<options, run, results>>
    BY <1>4 DEF Report, Prepare, Submit, Aggregate, vars, WriteFails, pool
  <2> QED
    BY <2>1, OthersKeep DEF IInv
<1> QED
  BY <1>1, <1>2, <1>3, <1>4 DEF EvaluationsNext

LEMMA Initially == EvaluationsInit => IInv
<1> SUFFICES ASSUME EvaluationsInit PROVE IInv
  OBVIOUS
<1>1. options \in Options /\ DOMAIN run = Workers /\ \A w \in Workers : run[w] = Idle
  BY DEF EvaluationsInit
<1>2. \A i \in DOMAIN results : results[i] = Missing
  BY DEF EvaluationsInit
<1> QED
  BY <1>1, <1>2 DEF IInv

(* However replies, drains, judges and writes go wrong, in any suite with  *)
(* any options: a trajectory that passes or certifies went through whole   *)
(* (runTrajectory, close() and the drain that belongs to it).              *)
THEOREM WhatPassesIsWhole == EvaluationsSpec => []PassesAreComplete
<1>1. IInv => PassesAreComplete
  BY DEF IInv, PassesAreComplete, Whole
<1> QED
  BY Initially, Inductive, <1>1, PTL DEF EvaluationsSpec

-----------------------------------------------------------------------------
(* The places of a sequence.                                               *)

(* Of a finite set of places, one has any smaller number of places of the  *)
(* set before it: places are told apart by how many there are before them. *)
LEMMA PlacesInOrder ==
  ASSUME NEW I, IsFiniteSet(I), I \subseteq Nat, NEW n \in 1..Cardinality(I)
  PROVE  \E i \in I : Cardinality({j \in I : j < i}) = n - 1
<1> DEFINE N == Cardinality(I)
           Before(i) == {j \in I : j < i}
           f == [i \in I |-> Cardinality(Before(i)) + 1]
<1>1. N \in Nat
  BY FS_CardinalityType
<1>2. ASSUME NEW i \in I
      PROVE  IsFiniteSet(Before(i)) /\ Cardinality(Before(i)) \in 0..(N - 1)
  <2>1. Before(i) \subseteq I \ {i}
    OBVIOUS
  <2>2. IsFiniteSet(I \ {i}) /\ Cardinality(I \ {i}) = N - 1
    BY FS_RemoveElement
  <2>3. IsFiniteSet(Before(i)) /\ Cardinality(Before(i)) <= N - 1
    BY <2>1, <2>2, FS_Subset
  <2> QED
    BY <1>1, <2>3, FS_CardinalityType
<1>3. ASSUME NEW i \in I, NEW k \in I, i < k
      PROVE  Cardinality(Before(i)) < Cardinality(Before(k))
  <2>1. i \in Before(k) /\ Before(i) \subseteq Before(k) \ {i}
    <3>1. ASSUME NEW j \in I, j < i
          PROVE  j < k /\ j # i
      BY <1>3, <3>1
    <3> QED
      BY <1>3, <3>1
  <2>2. IsFiniteSet(Before(k) \ {i}) /\ Cardinality(Before(k) \ {i}) = Cardinality(Before(k)) - 1
    BY <1>2, <2>1, FS_RemoveElement
  <2>3. Cardinality(Before(i)) <= Cardinality(Before(k)) - 1
    BY <2>1, <2>2, FS_Subset
  <2> QED
    BY <1>2, <2>3
<1> HIDE DEF Before, N
<1>4. f \in Injection(I, 1..N)
  <2>1. f \in [I -> 1..N]
    BY <1>1, <1>2
  <2>2. ASSUME NEW i \in I, NEW k \in I, f[i] = f[k]
        PROVE  i = k
    <3>1. Cardinality(Before(i)) = Cardinality(Before(k))
      BY <1>2, <2>2
    <3>2. ~(i < k) /\ ~(k < i)
      BY <1>2, <1>3, <3>1
    <3> QED
      BY <3>2
  <2> QED
    BY <2>1, <2>2 DEF Injection, IsInjective
<1>5. f \in Surjection(I, 1..N)
  <2>1. IsFiniteSet(1..N) /\ Cardinality(1..N) = N
    <3>1. \A a, b \in Int : IsFiniteSet(a..b) /\ Cardinality(a..b) = IF a > b THEN 0 ELSE b - a + 1
      BY FS_Interval
    <3> QED
      BY <1>1, <3>1
  <2> QED
    BY <1>4, <2>1, FS_Injection DEF N
<1>6. PICK i \in I : f[i] = n
  BY <1>5 DEF Surjection, N
<1>7. Cardinality(Before(i)) = n - 1
  BY <1>2, <1>6
<1> QED
  BY <1>7 DEF Before

(* What is picked is a sequence of entries.                                *)
LEMMA PickedIsASequence ==
  ASSUME NEW S, NEW s \in Seq(S), NEW I, I \subseteq DOMAIN s
  PROVE  /\ IsFiniteSet(I) /\ Cardinality(I) \in Nat
         /\ Picked(s, I) \in Seq(S) /\ Len(Picked(s, I)) = Cardinality(I)
         /\ \A n \in 1..Cardinality(I) : \E i \in I : Picked(s, I)[n] = s[i]
<1>1. I \subseteq Nat /\ IsFiniteSet(I) /\ Cardinality(I) \in Nat
  <2>1. I \subseteq 1..Len(s)
    OBVIOUS
  <2>2. IsFiniteSet(1..Len(s))
    <3>1. \A a, b \in Int : IsFiniteSet(a..b)
      BY FS_Interval
    <3> QED
      BY <3>1
  <2> QED
    BY <2>1, <2>2, FS_Subset, FS_CardinalityType
<1> DEFINE place(n) == CHOOSE i \in I : Cardinality({j \in I : j < i}) = n - 1
<1>2. \A n \in 1..Cardinality(I) : place(n) \in I
  BY <1>1, PlacesInOrder
<1>3. Picked(s, I) = [n \in 1..Cardinality(I) |-> s[place(n)]]
  BY DEF Picked
<1> HIDE DEF place
<1>4. \A i \in I : s[i] \in S
  OBVIOUS
<1> QED
  BY <1>1, <1>2, <1>3, <1>4

-----------------------------------------------------------------------------
(* The work and the pool.                                                  *)

LEMMA SelectedOfTheSuite ==
  ASSUME options \in Options
  PROVE  Selected \in Seq(Suite)
<1>1. options.suite \in Seq(Suite)
  BY OptionsAssumption DEF Suite
<1>2. CASE options.cases # {"all"}
  <2> DEFINE I == {i \in DOMAIN options.suite : options.suite[i].id \in options.cases}
  <2>1. I \subseteq DOMAIN options.suite
    OBVIOUS
  <2> HIDE DEF I
  <2>2. Picked(options.suite, I) \in Seq(Suite)
    BY <1>1, <2>1, PickedIsASequence
  <2> QED
    BY <1>2, <2>2 DEF Selected, I
<1>3. CASE options.cases = {"all"} /\ options.profile = "smoke"
  <2> DEFINE n == Least(SmokeCases, Len(options.suite))
  <2>1. n \in Nat /\ n <= Len(options.suite)
    BY <1>1, SuiteAssumption DEF Least
  <2> HIDE DEF n
  <2>2. SubSeq(options.suite, 1, n) \in Seq(Suite)
    BY <1>1, <2>1
  <2> QED
    BY <1>3, <2>2 DEF Selected, n
<1> QED
  BY <1>1, <1>2, <1>3 DEF Selected

(* Every item of the work is about a selected scenario.                    *)
LEMMA WorkOfTheSelected ==
  ASSUME options \in Options
  PROVE  /\ Len(Work) \in Nat /\ DOMAIN Work = 1..Len(Work)
         /\ \A i \in DOMAIN Work : Work[i].scenario \in ToSet(Selected)
<1> DEFINE characters == IF options.characters = <<>> THEN <<"own">> ELSE options.characters
           each == Len(characters) * Runs
           n == Len(Selected) * each
           item(i) == [scenario |-> Selected[(i - 1) \div each + 1],
                       character |-> characters[((i - 1) % each) \div Runs + 1],
                       run |-> (i - 1) % Runs]
<1>1. Selected \in Seq(Suite)
  BY SelectedOfTheSuite
<1>2. each \in Nat
  <2>1. Runs \in Nat
    BY OptionsAssumption, SuiteAssumption DEF Runs, ProfileRuns
  <2>2. Len(characters) \in Nat
    BY OptionsAssumption
  <2> HIDE DEF characters
  <2> QED
    BY <2>1, <2>2
<1> HIDE DEF each
<1>3. n \in Nat /\ Len(Selected) \in Nat
  BY <1>1, <1>2
<1>4. Work = [i \in 1..n |-> item(i)]
  BY DEF Work, each
<1>5. ASSUME NEW i \in 1..n
      PROVE  Work[i].scenario \in ToSet(Selected)
  <2>1. (i - 1) \div each \in 0..(Len(Selected) - 1)
    <3>1. each > 0
      BY <1>2, <1>3, <1>5
    <3>2. i - 1 \in Nat /\ i - 1 < each * Len(Selected)
      BY <1>2, <1>3, <1>5
    <3> HIDE DEF n
    <3>3. \A a, b, c \in Nat : b > 0 /\ a < b * c => a \div b \in 0..(c - 1)
      OBVIOUS
    <3> QED
      BY <1>2, <1>3, <3>1, <3>2, <3>3
  <2>2. (i - 1) \div each + 1 \in DOMAIN Selected
    BY <1>1, <1>3, <2>1
  <2>3. Work[i].scenario = Selected[(i - 1) \div each + 1]
    BY <1>4
  <2> QED
    BY <2>2, <2>3 DEF ToSet
<1> HIDE DEF n, item
<1> QED
  BY <1>3, <1>4, <1>5

LEMMA WorkStays == options' = options => Work' = Work /\ Selected' = Selected
BY DEF Work, Selected, Runs, ProfileRuns

(* A request leaves something out only once the conversation has outgrown  *)
(* its window.                                                             *)
Grown(t) ==
  /\ t.turn = Len(t.transcript) + 1
  /\ \A i \in DOMAIN t.transcript :
       t.transcript[i].offset > 0 => 2 * i - 1 > Scenario(t).window

(* Only a whole trajectory of full length, judged twice, certifies.        *)
Attested(r) ==
  /\ r.certified => /\ ~r.error /\ r.replicas >= 2
                    /\ r.completed = r.requested /\ r.completed = r.item.scenario.turns
  /\ r.windowed => 2 * r.completed - 1 > r.item.scenario.window

(* Whatever has been taken is with a worker or in its place.               *)
Placed ==
  /\ Accepted(options)
  /\ DOMAIN results = DOMAIN Work
  /\ cursor \in 0..Len(Work)
  /\ \A w \in Workers :
       run[w] # Idle => /\ run[w].slot \in 1..cursor /\ run[w].item = Work[run[w].slot]
                        /\ Grown(run[w])
  /\ \A i \in DOMAIN results :
       results[i] # Missing => results[i].item = Work[i] /\ Attested(results[i])
  /\ \A i \in 1..cursor :
       results[i] # Missing \/ \E w \in Workers : run[w] # Idle /\ run[w].slot = i
  /\ phase = "reported" => \A i \in DOMAIN results : results[i] # Missing

(* What a worker converses about is a scenario of the suite.               *)
LEMMA ScenarioOfTheSuite ==
  ASSUME IInv, Placed, NEW w \in Workers, run[w] # Idle
  PROVE  Scenario(run[w]) \in Suite /\ {Scenario(run[w]).turns, Scenario(run[w]).window} \subseteq Nat
<1>1. options \in Options
  BY DEF IInv
<1>2. run[w].slot \in DOMAIN Work /\ run[w].item = Work[run[w].slot]
  <2>1. Len(Work) \in Nat /\ DOMAIN Work = 1..Len(Work)
    BY <1>1, WorkOfTheSelected
  <2> QED
    BY <2>1 DEF Placed
<1>3. Scenario(run[w]) \in ToSet(Selected)
  BY <1>1, <1>2, WorkOfTheSelected DEF Scenario
<1>4. \A x \in ToSet(Selected) : x \in Suite
  BY <1>1, SelectedOfTheSuite DEF ToSet
<1> QED
  BY <1>1, <1>3, <1>4, OptionsAssumption DEF Suite

(* One more exchange, from where the window begins.                        *)
LEMMA GrownByATurn ==
  ASSUME NEW V, NEW t \in Trajectories(V), Grown(t), Scenario(t).window \in Nat,
         NEW x, x.offset = RetainedStart(t),
         NEW n, n.item = t.item, n.turn = t.turn + 1, n.transcript = Append(t.transcript, x)
  PROVE  Grown(n)
<1> DEFINE len == Len(t.transcript)
           window == Scenario(t).window
<1>1. t.transcript \in Seq(V) /\ len \in Nat /\ DOMAIN t.transcript = 1..len /\ t.turn = len + 1
  BY DEF Trajectories, Grown
<1>2. t.transcript \in Seq(V \cup {x}) /\ x \in V \cup {x}
  BY <1>1
<1>3. /\ Len(n.transcript) = len + 1 /\ DOMAIN n.transcript = 1..(len + 1)
      /\ \A i \in 1..len : n.transcript[i] = t.transcript[i]
      /\ n.transcript[len + 1] = x
  BY <1>2
<1>4. x.offset > 0 => 2 * t.turn - 1 > window
  <2>1. CASE 2 * t.turn - 1 - window > 0
    BY <1>1, <2>1
  <2>2. CASE ~(2 * t.turn - 1 - window > 0)
    <3>1. RetainedStart(t) = 0
      BY <2>2 DEF RetainedStart, Positive
    <3> QED
      BY <3>1
  <2> QED
    BY <2>1, <2>2
<1>5. Scenario(n) = Scenario(t)
  BY DEF Scenario
<1>6. ASSUME NEW i \in DOMAIN n.transcript, n.transcript[i].offset > 0
      PROVE  2 * i - 1 > Scenario(n).window
  <2>1. CASE i = len + 1
    BY <1>1, <1>3, <1>4, <1>5, <1>6, <2>1
  <2>2. CASE i \in 1..len
    BY <1>1, <1>3, <1>5, <1>6, <2>2 DEF Grown
  <2> QED
    BY <1>1, <1>3, <2>1, <2>2
<1>7. n.turn = Len(n.transcript) + 1
  BY <1>1, <1>3
<1> QED
  BY <1>6, <1>7 DEF Grown

LEMMA ResultIsAttested ==
  ASSUME NEW V, NEW t \in Trajectories(V), Grown(t), Scenario(t).window \in Nat,
         NEW judgments, NEW failed
  PROVE  /\ Result(t, judgments, failed).item = t.item
         /\ Attested(Result(t, judgments, failed))
         /\ Result(t, judgments, failed) # Missing
<1> DEFINE r == Result(t, judgments, failed)
<1>1. r.item = t.item
  BY DEF Result
<1>2. Attested(r)
  <2>1. ASSUME r.certified
        PROVE  /\ ~(RuntimeError(t) \/ failed)
               /\ Requested(t) = Scenario(t).turns /\ Len(t.transcript) = Requested(t)
               /\ Len(judgments) >= 2
    BY <2>1 DEF Result
  <2>2. /\ r.error = (RuntimeError(t) \/ failed) /\ r.replicas = Len(judgments)
        /\ r.completed = Len(t.transcript) /\ r.requested = Requested(t)
        /\ r.windowed = \E i \in DOMAIN t.transcript : t.transcript[i].offset > 0
    BY DEF Result
  <2>3. ASSUME r.windowed
        PROVE  2 * r.completed - 1 > r.item.scenario.window
    <3>1. PICK i \in DOMAIN t.transcript : t.transcript[i].offset > 0
      BY <2>2, <2>3
    <3>2. 2 * i - 1 > Scenario(t).window
      BY <3>1 DEF Grown
    <3>3. Len(t.transcript) \in Nat /\ i \in 1..Len(t.transcript)
      BY DEF Trajectories
    <3>4. 2 * Len(t.transcript) - 1 > Scenario(t).window
      BY <3>2, <3>3
    <3> QED
      BY <1>1, <2>2, <3>4 DEF Scenario
  <2> QED
    BY <1>1, <2>1, <2>2, <2>3 DEF Scenario, Attested
<1>3. r # Missing
  <2>1. "metadata" \in DOMAIN r
    BY DEF Result
  <2>2. "metadata" \notin DOMAIN Missing
    BY DEF Missing
  <2> QED
    BY <2>1, <2>2
<1> QED
  BY <1>1, <1>2, <1>3

(* A conversation stays with its worker, its item and its place, and grows *)
(* by an exchange at most.                                                 *)
LEMMA ConversationStaysInPlace ==
  ASSUME IInv, NEW w \in Workers, Converse(w)
  PROVE  \E n : /\ Move(w, n) /\ n # Idle /\ run[w] # Idle
                /\ n.slot = run[w].slot /\ n.item = run[w].item
                /\ \/ n.turn = run[w].turn /\ n.transcript = run[w].transcript
                   \/ /\ n.turn = run[w].turn + 1
                      /\ \E x : /\ x.offset = RetainedStart(run[w])
                                /\ n.transcript = Append(run[w].transcript, x)
<1> DEFINE t == run[w]
           Ahead(n) == Move(w, n) /\ n.slot = t.slot /\ n.item = t.item /\ n.pc \in Steps
           Same(n) == n.turn = t.turn /\ n.transcript = t.transcript
           Longer(n) ==
             /\ n.turn = t.turn + 1
             /\ \E x : x.offset = RetainedStart(t) /\ n.transcript = Append(t.transcript, x)
           Onward(n) == Ahead(n) /\ (Same(n) \/ Longer(n))
<1>1. Recorded(t) /\ t.pc # "idle"
  <2>1. t.pc \in Steps
    BY DEF Converse, Seed, Speak, Answer, AnswerFails, Drain, DrainFails, Drained, Check, At, Draining, Steps
  <2>2. t.pc # "idle"
    BY <2>1 DEF Steps
  <2> QED
    BY <2>2, NotIdle
<1>2. PICK V : t \in Trajectories(V)
  BY <1>1 DEF Recorded
<1>3. ASSUME Seed(w)
      PROVE  \E n : Onward(n)
  <2>1. \/ Onward([t EXCEPT !.pc = "speaking"])
        \/ Onward([t EXCEPT !.pc = "speaking", !.seeded = TRUE])
        \/ Onward([t EXCEPT !.pc = "closing", !.error = TRUE])
    BY <1>2, <1>3 DEF Seed, Trajectories, Steps
  <2> QED
    BY <2>1
<1>4. ASSUME Speak(w)
      PROVE  \E n : Onward(n)
  <2>1. \/ Onward([t EXCEPT !.pc = "asking"])
        \/ Onward([t EXCEPT !.pc = "asking", !.leaving = TRUE])
        \/ Onward([t EXCEPT !.pc = "closing", !.error = TRUE])
    BY <1>2, <1>4 DEF Speak, Trajectories, Steps
  <2> QED
    BY <2>1
<1>5. ASSUME Answer(w)
      PROVE  \E n : Onward(n)
  <2>1. PICK reply : Move(w, [t EXCEPT !.pc = IF Due(t) THEN "draining" ELSE "checking",
                                      !.queue = Enqueued(t), !.reply = reply])
    BY <1>5 DEF Answer
  <2>2. Onward([t EXCEPT !.pc = IF Due(t) THEN "draining" ELSE "checking",
                         !.queue = Enqueued(t), !.reply = reply])
    BY <1>2, <2>1 DEF Trajectories, Steps
  <2> QED
    BY <2>2
<1>6. ASSUME AnswerFails(w)
      PROVE  \E n : Onward(n)
  <2>1. PICK queue : Move(w, [t EXCEPT !.pc = "closing", !.error = TRUE, !.queue = queue])
    BY <1>6 DEF AnswerFails
  <2>2. Onward([t EXCEPT !.pc = "closing", !.error = TRUE, !.queue = queue])
    BY <1>2, <2>1 DEF Trajectories, Steps
  <2> QED
    BY <2>2
<1>7. ASSUME Drain(w)
      PROVE  \E n : Onward(n)
  <2> DEFINE job == t.queue[t.taken + 1]
             end == job.first + job.size
             n == [t EXCEPT !.taken = @ + 1, !.done = Append(@, job),
                            !.covered = IF job.refresh /\ end > @ THEN end ELSE @]
  <2>1. Move(w, n)
    BY <1>7 DEF Drain
  <2>2. Onward(n)
    BY <1>2, <2>1 DEF Trajectories
  <2> QED
    BY <2>2
<1>8. ASSUME DrainFails(w)
      PROVE  \E n : Onward(n)
  <2>1. Move(w, [t EXCEPT !.taken = @ + 1, !.error = TRUE, !.pc = AfterDrain(t)])
    BY <1>8 DEF DrainFails
  <2>2. Onward([t EXCEPT !.taken = @ + 1, !.error = TRUE, !.pc = AfterDrain(t)])
    BY <1>2, <2>1 DEF Trajectories, Steps, AfterDrain
  <2> QED
    BY <2>2
<1>9. ASSUME Drained(w)
      PROVE  \E n : Onward(n)
  <2>1. Onward([t EXCEPT !.pc = "checking"]) \/ Onward([t EXCEPT !.pc = "assessing"])
    BY <1>2, <1>9 DEF Drained, Trajectories, Steps
  <2> QED
    BY <2>1
<1>10. ASSUME Check(w)
      PROVE  \E n : Onward(n)
  <2>1. CASE Move(w, [t EXCEPT !.pc = "closing", !.error = TRUE])
    <3>1. Onward([t EXCEPT !.pc = "closing", !.error = TRUE])
      BY <1>2, <2>1 DEF Trajectories, Steps
    <3> QED
      BY <3>1
  <2> DEFINE pc == IF t.leaving \/ t.turn = Requested(t) THEN "closing" ELSE "speaking"
             exchange == [offset |-> RetainedStart(t), text |-> t.reply.text,
                          sources |-> t.reply.sources]
             transcript == Append(t.transcript, exchange)
             turn == t.turn + 1
             metadata == t.reply.metadata
  <2>2. \/ Move(w, [t EXCEPT !.pc = "closing", !.error = TRUE])
        \/ Move(w, [t EXCEPT !.pc = pc, !.turn = turn, !.metadata = metadata,
                             !.transcript = transcript])
    BY <1>10 DEF Check
  <2>3. CASE Move(w, [t EXCEPT !.pc = pc, !.turn = turn, !.metadata = metadata,
                               !.transcript = transcript])
    <3>1. pc \in {"closing", "speaking"}
      OBVIOUS
    <3> DEFINE n == [t EXCEPT !.pc = pc, !.turn = turn, !.metadata = metadata,
                              !.transcript = transcript]
    <3>2. exchange.offset = RetainedStart(t)
      OBVIOUS
    <3>3. transcript = Append(t.transcript, exchange) /\ turn = t.turn + 1
      OBVIOUS
    <3> HIDE DEF pc, exchange, transcript, turn, metadata
    <3>4. Ahead(n) /\ n.turn = turn /\ n.transcript = transcript
      BY <1>2, <2>3, <3>1 DEF Trajectories, Steps
    <3>5. Longer(n)
      BY <3>2, <3>3, <3>4
    <3> HIDE DEF n, Ahead, Longer
    <3> QED
      BY <3>4, <3>5
  <2> QED
    BY <2>1, <2>2, <2>3
<1>11. PICK n : Onward(n)
  <2> HIDE DEF Onward, t
  <2> QED
    BY <1>3, <1>4, <1>5, <1>6, <1>7, <1>8, <1>9, <1>10 DEF Converse
<1>12. n # Idle
  BY <1>11 DEF Steps, Idle
<1> QED
  BY <1>1, <1>11, <1>12 DEF Idle

LEMMA PlacedAtFirst == EvaluationsInit => Placed
<1> SUFFICES ASSUME EvaluationsInit PROVE Placed
  OBVIOUS
<1>1. options \in Options /\ Accepted(options)
  BY DEF EvaluationsInit
<1>2. Len(Work) \in Nat
  BY <1>1, WorkOfTheSelected
<1>3. /\ cursor = 0 /\ phase = "running"
      /\ \A w \in Workers : run[w] = Idle
      /\ results = [i \in DOMAIN Work |-> Missing]
  BY DEF EvaluationsInit
<1> HIDE DEF Missing
<1> QED
  BY <1>1, <1>2, <1>3 DEF Placed

(* A worker takes the next item, and what it took is its own.              *)
LEMMA TakePlaces ==
  ASSUME IInv, Placed, NEW w \in Workers, Take(w)
  PROVE  Placed'
<1> DEFINE t == Fresh(cursor + 1, Work[cursor + 1])
<1>1. options' = options /\ results' = results /\ Work' = Work
  BY WorkStays DEF Take
<1>2. Len(Work) \in Nat /\ DOMAIN Work = 1..Len(Work)
  BY WorkOfTheSelected DEF IInv
<1>3. CASE phase' = "rejected" /\ UNCHANGED <<run, cursor>>
  BY <1>1, <1>3 DEF Placed, Accepted, Attested, Grown, Scenario
<1>4. CASE Move(w, t) /\ cursor' = cursor + 1 /\ UNCHANGED phase
  <2>1. cursor < Len(Work) /\ cursor \in Nat /\ cursor' \in 0..Len(Work) /\ phase' = "running"
    BY <1>2, <1>4 DEF Take, Placed
  <2>2. t.slot = cursor' /\ t.item = Work[cursor'] /\ t # Idle
    BY <1>4 DEF Fresh, Idle
  <2>3. \A v \in Workers : run'[v] = IF v = w THEN t ELSE run[v]
    BY <1>4 DEF Move, IInv
  <2>8. Grown(t)
    <3>1. t.turn = 1 /\ t.transcript = <<>>
      BY DEF Fresh
    <3> QED
      BY <3>1 DEF Grown
  <2> HIDE DEF t
  <2>4. \A v \in Workers :
          run'[v] # Idle => /\ run'[v].slot \in 1..cursor' /\ run'[v].item = Work[run'[v].slot]
                            /\ Grown(run'[v])
    <3> SUFFICES ASSUME NEW v \in Workers, run'[v] # Idle
                 PROVE  /\ run'[v].slot \in 1..cursor' /\ run'[v].item = Work[run'[v].slot]
                        /\ Grown(run'[v])
      OBVIOUS
    <3>1. CASE v = w
      BY <1>4, <2>1, <2>2, <2>3, <2>8, <3>1
    <3>2. CASE v # w
      <4>1. run'[v] = run[v]
        BY <2>3, <3>2
      <4>2. run[v].slot \in 1..cursor /\ run[v].item = Work[run[v].slot] /\ Grown(run[v])
        BY <4>1 DEF Placed
      <4> QED
        BY <1>4, <2>1, <4>1, <4>2
    <3> QED
      BY <3>1, <3>2
  <2>5. \A i \in 1..cursor' :
          results[i] # Missing \/ \E v \in Workers : run'[v] # Idle /\ run'[v].slot = i
    <3> SUFFICES ASSUME NEW i \in 1..cursor', results[i] = Missing
                 PROVE  \E v \in Workers : run'[v] # Idle /\ run'[v].slot = i
      OBVIOUS
    <3>1. CASE i = cursor'
      BY <2>2, <2>3, <3>1
    <3>2. CASE i # cursor'
      <4>1. i \in 1..cursor
        BY <1>4, <2>1, <3>2
      <4>2. PICK v \in Workers : run[v] # Idle /\ run[v].slot = i
        BY <4>1 DEF Placed
      <4>3. v # w
        BY <4>2 DEF Take
      <4> QED
        BY <2>3, <4>2, <4>3
    <3> QED
      BY <3>1, <3>2
  <2>6. Accepted(options)' /\ DOMAIN results' = DOMAIN Work'
    BY <1>1 DEF Placed, Accepted
  <2>7. \A i \in DOMAIN results' :
          results'[i] # Missing => results'[i].item = Work'[i] /\ Attested(results[i])'
    BY <1>1 DEF Placed, Attested
  <2> QED
    BY <1>1, <2>1, <2>4, <2>5, <2>6, <2>7 DEF Placed, Missing, Idle, Grown, Scenario
<1> QED
  BY <1>3, <1>4 DEF Take

LEMMA ConversePlaces ==
  ASSUME IInv, Placed, NEW w \in Workers, Talk(w)
  PROVE  Placed'
<1>1. /\ options' = options /\ results' = results /\ Work' = Work /\ cursor' = cursor
      /\ phase' = phase
  BY WorkStays DEF Talk, pool
<1>2. PICK n : /\ Move(w, n) /\ n # Idle /\ run[w] # Idle
               /\ n.slot = run[w].slot /\ n.item = run[w].item
               /\ \/ n.turn = run[w].turn /\ n.transcript = run[w].transcript
                  \/ /\ n.turn = run[w].turn + 1
                     /\ \E x : /\ x.offset = RetainedStart(run[w])
                               /\ n.transcript = Append(run[w].transcript, x)
  BY ConversationStaysInPlace DEF Talk
<1>9. Grown(n)
  <2>1. PICK V : run[w] \in Trajectories(V)
    BY <1>2 DEF IInv, Recorded
  <2>2. Grown(run[w]) /\ Scenario(run[w]).window \in Nat
    BY <1>2, ScenarioOfTheSuite DEF Placed
  <2>3. CASE n.turn = run[w].turn /\ n.transcript = run[w].transcript
    BY <1>2, <2>2, <2>3 DEF Grown, Scenario
  <2> QED
    BY <1>2, <2>1, <2>2, <2>3, GrownByATurn
<1>10. \A v \in Workers : run'[v] = IF v = w THEN n ELSE run[v]
  BY <1>2 DEF Move, IInv
<1>11. \A v \in Workers : run'[v] # Idle => Grown(run[v])'
  <2> SUFFICES ASSUME NEW v \in Workers, run'[v] # Idle
               PROVE  Grown(run'[v])
    BY DEF Grown, Scenario
  <2> QED
    BY <1>9, <1>10 DEF Placed
<1>3. \A v \in Workers : /\ run'[v] # Idle <=> run[v] # Idle
                         /\ run'[v].slot = run[v].slot /\ run'[v].item = run[v].item
  BY <1>2 DEF Move, IInv
<1>4. Accepted(options)' /\ DOMAIN results' = DOMAIN Work' /\ cursor' \in 0..Len(Work')
  BY <1>1 DEF Placed, Accepted
<1>5. \A v \in Workers :
        run'[v] # Idle => run'[v].slot \in 1..cursor' /\ run'[v].item = Work'[run'[v].slot]
  BY <1>1, <1>3 DEF Placed
<1>6. \A i \in DOMAIN results' :
        results'[i] # Missing => results'[i].item = Work'[i] /\ Attested(results[i])'
  BY <1>1 DEF Placed, Attested
<1>7. \A i \in 1..cursor' :
        results'[i] # Missing \/ \E v \in Workers : run'[v] # Idle /\ run'[v].slot = i
  BY <1>1, <1>3 DEF Placed
<1>8. phase' = "reported" => \A i \in DOMAIN results' : results'[i] # Missing
  BY <1>1 DEF Placed
<1> QED
  BY <1>4, <1>5, <1>6, <1>7, <1>8, <1>11 DEF Placed, Missing, Idle

(* The result of a worker goes to the place of its item.                   *)
LEMMA StorePlaces ==
  ASSUME IInv, Placed, phase = "running", NEW w \in Workers, run[w] # Idle,
         NEW r, r.item = run[w].item, Attested(r), r # Missing, Store(w, r)
  PROVE  Placed'
<1> DEFINE slot == run[w].slot
<1>1. options' = options /\ Work' = Work /\ cursor' = cursor /\ phase' = "running"
  BY WorkStays DEF Store
<1>2. slot \in 1..cursor /\ r.item = Work[slot]
  BY DEF Placed
<1>3. DOMAIN results' = DOMAIN results
      /\ \A i \in DOMAIN results : results'[i] = IF i = slot THEN r ELSE results[i]
  BY DEF Store
<1>4. slot \in DOMAIN results
  <2>1. Len(Work) \in Nat /\ DOMAIN Work = 1..Len(Work)
    BY WorkOfTheSelected DEF IInv
  <2> QED
    BY <1>2, <2>1 DEF Placed
<1>5. \A v \in Workers : run'[v] = IF v = w THEN Idle ELSE run[v]
  BY DEF Store, Move, IInv
<1> HIDE DEF slot
<1>6. Accepted(options)' /\ DOMAIN results' = DOMAIN Work' /\ cursor' \in 0..Len(Work')
  BY <1>1, <1>3 DEF Placed, Accepted
<1>7. \A v \in Workers :
        run'[v] # Idle => run'[v].slot \in 1..cursor' /\ run'[v].item = Work'[run'[v].slot]
  BY <1>1, <1>5 DEF Placed
<1>10. \A v \in Workers : run'[v] # Idle => Grown(run[v])'
  BY <1>1, <1>5 DEF Placed, Grown, Scenario
<1>8. \A i \in DOMAIN results' :
        results'[i] # Missing => results'[i].item = Work'[i] /\ Attested(results[i])'
  BY <1>1, <1>2, <1>3 DEF Placed, Attested
<1>9. \A i \in 1..cursor' :
        results'[i] # Missing \/ \E v \in Workers : run'[v] # Idle /\ run'[v].slot = i
  <2> SUFFICES ASSUME NEW i \in 1..cursor
               PROVE  results'[i] # Missing \/ \E v \in Workers : run'[v] # Idle /\ run'[v].slot = i
    BY <1>1
  <2>1. CASE i = slot
    BY <1>3, <1>4, <2>1
  <2>2. CASE i # slot
    <3>1. results'[i] = results[i]
      <4>1. i \in DOMAIN results
        <5>1. Len(Work) \in Nat /\ DOMAIN Work = 1..Len(Work)
          BY WorkOfTheSelected DEF IInv
        <5> QED
          BY <5>1 DEF Placed
      <4> QED
        BY <1>3, <2>2, <4>1
    <3>2. ASSUME NEW v \in Workers, run[v] # Idle, run[v].slot = i
          PROVE  run'[v] # Idle /\ run'[v].slot = i
      BY <1>5, <2>2, <3>2 DEF slot
    <3> QED
      BY <3>1, <3>2 DEF Placed
  <2> QED
    BY <2>1, <2>2
<1> QED
  BY <1>1, <1>6, <1>7, <1>8, <1>9, <1>10 DEF Placed, Missing, Idle

LEMMA AssessPlaces ==
  ASSUME IInv, Placed, NEW w \in Workers, Assess(w)
  PROVE  Placed'
<1>1. phase = "running" /\ run[w] # Idle
  BY DEF Assess, At, Idle
<1>2. PICK judgments, failed : Store(w, Result(run[w], judgments, failed))
  BY DEF Assess
<1>3. PICK V : run[w] \in Trajectories(V)
  BY <1>1 DEF IInv, Recorded
<1>4. Grown(run[w]) /\ Scenario(run[w]).window \in Nat
  BY <1>1, ScenarioOfTheSuite DEF Placed
<1> QED
  BY <1>1, <1>2, <1>3, <1>4, ResultIsAttested, StorePlaces

LEMMA OthersPlace ==
  ASSUME IInv, Placed, UNCHANGED <<options, run, cursor, results>>,
         phase' = "reported" => phase = "reported" \/ Report
  PROVE  Placed'
<1>1. Work' = Work
  BY WorkStays
<1>2. phase' = "reported" => \A i \in DOMAIN results : results[i] # Missing
  <2>1. CASE Report
    <3>1. Len(Work) \in Nat /\ DOMAIN Work = 1..Len(Work)
      BY WorkOfTheSelected DEF IInv
    <3> QED
      BY <2>1, <3>1 DEF Report, Placed
  <2> QED
    BY <2>1 DEF Placed
<1> QED
  BY <1>1, <1>2 DEF Placed, Accepted, Attested, Grown, Scenario, Missing, Idle

LEMMA PlacedStays == ASSUME IInv, Placed, [EvaluationsNext]_vars PROVE Placed'
<1>1. CASE \E w \in Workers : Take(w)
  BY <1>1, TakePlaces
<1>2. CASE \E w \in Workers : Talk(w)
  BY <1>2, ConversePlaces
<1>3. CASE \E w \in Workers : Assess(w)
  BY <1>3, AssessPlaces
<1>4. CASE Report \/ Prepare \/ Submit \/ Aggregate \/ UNCHANGED vars \/ \E w \in Workers : WriteFails(w)
  <2>1. UNCHANGED <<options, run, cursor, results>> /\ (phase' = "reported" => phase = "reported" \/ Report)
    BY <1>4 DEF Report, Prepare, Submit, Aggregate, vars, WriteFails, pool
  <2> QED
    BY <2>1, OthersPlace
<1> QED
  BY <1>1, <1>2, <1>3, <1>4 DEF EvaluationsNext

(* What the report finds of a run that is over.                            *)
LEMMA GreenIsWhole == ASSUME IInv, Placed PROVE GreenMeansWhole
<1> SUFFICES ASSUME phase = "reported", ExitCode(results) = 0
             PROVE  /\ Work # <<>>
                    /\ \A i \in DOMAIN Work : results[i].item = Work[i] /\ WholeRun(results[i])
                    /\ options.mode = "diagnostic" =>
                         \A c \in ToSet(options.characters), id \in Expected :
                           Cardinality({i \in Ran(id) : results[i].item.character = c}) >= MinimumRuns
                    /\ options.mode = "h30" /\ options.profile # "smoke" /\ ~MemoryStructure =>
                         /\ \A s \in Suite :
                              /\ Cardinality(Ran(s.id)) >= MinimumRuns
                              /\ \A i \in Ran(s.id) :
                                   results[i].completed = s.turns /\ results[i].replicas >= 2
                         /\ \E i \in DOMAIN results :
                              2 * results[i].completed - 1 > results[i].item.scenario.window
  BY DEF GreenMeansWhole
<1>1. DOMAIN results = DOMAIN Work
      /\ \A i \in DOMAIN results : results[i].item = Work[i] /\ Attested(results[i])
  BY DEF Placed
<1>2. IsFiniteSet(DOMAIN results)
  <2>1. Len(Work) \in Nat /\ DOMAIN Work = 1..Len(Work)
    BY WorkOfTheSelected DEF IInv
  <2>2. \A a, b \in Int : IsFiniteSet(a..b)
    BY FS_Interval
  <2> QED
    BY <1>1, <2>1, <2>2
<1>3. MinimumRuns \in Int
  BY SuiteAssumption DEF MinimumRuns
<1>4. CASE MemoryStructure
  <2>1. SmokePassed(results)
    BY <1>4 DEF ExitCode
  <2>2. options.characters = <<>>
    <3>1. \A i \in DOMAIN options.suite : options.suite[i].probes # {}
      BY <1>4 DEF MemoryStructure, Suite, ToSet
    <3> QED
      BY <3>1 DEF Placed, Accepted
  <2>3. ToSet(options.characters) = {}
    BY <2>2 DEF ToSet
  <2>4. DOMAIN results # {} /\ \A i \in DOMAIN results : WholeRun(results[i])
    BY <2>1 DEF SmokePassed
  <2> QED
    BY <1>1, <1>4, <2>3, <2>4
<1>5. CASE ~MemoryStructure /\ options.mode = "diagnostic"
  <2>1. CoveragePassed(results) /\ BaselineReady(results)
    BY <1>5 DEF ExitCode, DiagnosticComplete
  <2>2. ASSUME NEW c \in ToSet(options.characters), NEW id \in Expected
        PROVE  Cardinality({i \in Ran(id) : results[i].item.character = c}) >= MinimumRuns
    <3> DEFINE cell == <<c, id>>
               ran == {i \in Ran(id) : results[i].item.character = c}
    <3>1. cell \in ToSet(options.characters) \X Expected /\ cell[1] = c /\ cell[2] = id
      OBVIOUS
    <3> HIDE DEF cell
    <3>2. ~(Cardinality(OfCharacter(results, cell[1]) \cap OfScenario(results, cell[2])) < MinimumRuns)
      BY <2>1, <3>1 DEF CoveragePassed, MissingCells
    <3>3. OfCharacter(results, c) \cap OfScenario(results, id) = ran
      BY DEF OfCharacter, OfScenario, Ran
    <3>4. ran \subseteq DOMAIN results
      BY DEF Ran, OfScenario
    <3> HIDE DEF ran
    <3>5. Cardinality(ran) \in Int
      BY <1>2, <3>4, FS_CardinalityType, FS_Subset
    <3>6. ~(Cardinality(ran) < MinimumRuns)
      BY <3>1, <3>2, <3>3
    <3>7. Cardinality(ran) >= MinimumRuns
      BY <1>3, <3>5, <3>6
    <3> QED
      BY <3>7 DEF ran
  <2>3. Work # <<>> /\ \A i \in DOMAIN Work : WholeRun(results[i])
    BY <1>1, <2>1 DEF BaselineReady
  <2> QED
    BY <1>1, <1>5, <2>2, <2>3
<1>6. CASE ~MemoryStructure /\ options.mode # "diagnostic"
           /\ ~(options.mode = "h30" /\ options.profile = "smoke")
  <2>1. CertificationEligible(results)
    BY <1>6 DEF ExitCode, Passed
  <2>2. Work # <<>> /\ \A i \in DOMAIN Work : results[i].certified /\ WholeRun(results[i])
    BY <1>1, <2>1 DEF CertificationEligible, Attested, WholeRun
  <2>3. ASSUME options.mode = "h30", NEW s \in Suite
        PROVE  /\ Cardinality(Ran(s.id)) >= MinimumRuns
               /\ \A i \in Ran(s.id) : results[i].completed = s.turns /\ results[i].replicas >= 2
    <3>1. options.characters = <<>>
      BY <2>3 DEF Placed, Accepted
    <3>2. \A id \in Expected : Cardinality(OfScenario(results, id)) >= MinimumRuns
      BY <2>1, <3>1 DEF CertificationEligible, HasRequiredRuns
    <3>3. \A i \in DOMAIN results : results[i].item.scenario \in ToSet(Selected)
      BY <1>1, WorkOfTheSelected DEF IInv
    <3>4. s.id \in Expected
      <4>1. PICK i \in DOMAIN results : results[i].item.scenario.id = s.id
        BY <2>1 DEF CertificationEligible, Observed
      <4> QED
        BY <3>3, <4>1 DEF Expected
    <3>5. ASSUME NEW i \in Ran(s.id)
          PROVE  results[i].completed = s.turns /\ results[i].replicas >= 2
      <4>1. i \in DOMAIN results /\ results[i].item.scenario.id = s.id
        BY DEF Ran, OfScenario
      <4>2. results[i].item.scenario \in Suite
        <5>1. \A x \in ToSet(Selected) : x \in Suite
          BY SelectedOfTheSuite DEF ToSet, IInv
        <5> QED
          BY <3>3, <4>1, <5>1
      <4>3. results[i].item.scenario = s
        BY <4>1, <4>2, OptionsAssumption DEF Suite, ToSet, IInv
      <4> QED
        BY <1>1, <2>2, <4>1, <4>3 DEF Attested
    <3> QED
      BY <3>2, <3>4, <3>5 DEF Ran
  <2>4. \E i \in DOMAIN results : 2 * results[i].completed - 1 > results[i].item.scenario.window
    BY <1>1, <2>1 DEF CertificationEligible, Attested
  <2> QED
    BY <1>1, <1>6, <2>2, <2>3, <2>4
<1>7. CASE ~MemoryStructure /\ options.mode = "h30" /\ options.profile = "smoke"
  <2>1. SmokePassed(results)
    BY <1>7 DEF ExitCode
  <2> QED
    BY <1>1, <1>7, <2>1 DEF SmokePassed
<1> QED
  BY <1>4, <1>5, <1>6, <1>7

(* Exit code 0, whatever fails on the way and whoever takes which item:     *)
(* every slot of the report holds the whole run of its own item, and where  *)
(* the run certifies or compares, nothing that was to be run is missing     *)
(* (mapLimit, aggregateSuite and the exit code of cli.ts).                  *)
THEOREM GreenRunsAreWhole == EvaluationsSpec => []GreenMeansWhole
<1>1. IInv /\ Placed /\ [EvaluationsNext]_vars => IInv' /\ Placed'
  BY Inductive, PlacedStays
<1>2. IInv /\ Placed => GreenMeansWhole
  BY GreenIsWhole
<1> QED
  BY Initially, PlacedAtFirst, <1>1, <1>2, PTL DEF EvaluationsSpec

-----------------------------------------------------------------------------
(* The blind review.                                                       *)

LEMMA ReversedHasTheSame ==
  ASSUME NEW S, NEW s \in Seq(S)
  PROVE  /\ Reverse(s) \in Seq(S) /\ DOMAIN Reverse(s) = DOMAIN s
         /\ \A x : (\E i \in DOMAIN s : s[i] = x) <=> (\E i \in DOMAIN s : Reverse(s)[i] = x)
<1>1. DOMAIN s = 1..Len(s) /\ Len(s) \in Nat
  OBVIOUS
<1>2. Reverse(s) = [i \in 1..Len(s) |-> s[(Len(s) - i) + 1]]
  BY DEF Reverse
<1>3. \A i \in 1..Len(s) : (Len(s) - i) + 1 \in 1..Len(s)
  BY <1>1
<1>4. \A i \in 1..Len(s) : Reverse(s)[i] = s[(Len(s) - i) + 1] /\ Reverse(s)[(Len(s) - i) + 1] = s[i]
  <2> SUFFICES ASSUME NEW i \in 1..Len(s)
               PROVE  Reverse(s)[i] = s[(Len(s) - i) + 1] /\ Reverse(s)[(Len(s) - i) + 1] = s[i]
    OBVIOUS
  <2> DEFINE k == (Len(s) - i) + 1
  <2>1. k \in 1..Len(s) /\ (Len(s) - k) + 1 = i
    BY <1>1
  <2>2. Reverse(s)[k] = s[(Len(s) - k) + 1]
    BY <1>2, <2>1
  <2> QED
    BY <1>2, <2>1, <2>2
<1>5. Reverse(s) \in Seq(S) /\ DOMAIN Reverse(s) = DOMAIN s
  <2>1. \A i \in 1..Len(s) : s[i] \in S
    OBVIOUS
  <2>2. Reverse(s) \in [1..Len(s) -> S]
    BY <1>2, <1>3, <2>1
  <2> QED
    BY <1>1, <1>2, <2>2
<1>6. ASSUME NEW x
      PROVE  (\E i \in 1..Len(s) : s[i] = x) <=> (\E i \in 1..Len(s) : Reverse(s)[i] = x)
  BY <1>3, <1>4
<1> QED
  BY <1>1, <1>5, <1>6

LEMMA OrderIsASequence ==
  ASSUME NEW S, IsFiniteSet(S), NEW o \in Orders(S)
  PROVE  /\ o \in Seq(S) /\ Len(o) = Cardinality(S)
         /\ \A x : x \in S <=> \E i \in DOMAIN o : o[i] = x
<1>1. Cardinality(S) \in Nat
  BY FS_CardinalityType
<1>2. o \in [1..Cardinality(S) -> S] /\ \A x \in S : \E i \in DOMAIN o : o[i] = x
  BY DEF Orders
<1> QED
  BY <1>1, <1>2

(* Every transcript of a group is in one of its pairs.                     *)
LEMMA PairsCoverTheirGroup ==
  ASSUME NEW S, IsFiniteSet(S), NEW o \in Orders(S)
  PROVE  UNION {{p.first, p.second} : p \in CanonicalPairs(o)} = S
<1> DEFINE n == Len(o)
           pair(i, j) == [first |-> o[i], second |-> o[j]]
<1>1. /\ n \in Nat /\ DOMAIN o = 1..n /\ \A i \in 1..n : o[i] \in S
      /\ \A x \in S : \E i \in 1..n : o[i] = x
  BY OrderIsASequence
<1> HIDE DEF n
<1>2. CanonicalPairs(o) = {pair(i, i + 1) : i \in {k \in 1..(n - 1) : (k % 2) = 1}}
                            \cup (IF (n % 2) = 1 THEN {pair(n, 1)} ELSE {})
  BY DEF CanonicalPairs, n
<1>3. ASSUME NEW p \in CanonicalPairs(o)
      PROVE  p.first \in S /\ p.second \in S
  <2>1. CASE \E i \in {k \in 1..(n - 1) : (k % 2) = 1} : p = pair(i, i + 1)
    <3>1. PICK i \in 1..(n - 1) : p = pair(i, i + 1)
      BY <2>1
    <3>2. i \in 1..n /\ i + 1 \in 1..n
      BY <1>1
    <3> QED
      BY <1>1, <3>1, <3>2
  <2>2. CASE (n % 2) = 1 /\ p = pair(n, 1)
    <3>1. n \in 1..n /\ 1 \in 1..n
      BY <1>1, <2>2
    <3> QED
      BY <1>1, <2>2, <3>1
  <2> QED
    BY <1>2, <1>3, <2>1, <2>2
<1>4. ASSUME NEW x \in S
      PROVE  \E p \in CanonicalPairs(o) : x \in {p.first, p.second}
  <2>1. PICK k \in 1..n : o[k] = x
    BY <1>1
  <2>2. CASE (k % 2) = 1 /\ k < n
    <3>1. k \in 1..(n - 1)
      BY <1>1, <2>2
    <3>2. pair(k, k + 1) \in CanonicalPairs(o)
      BY <1>2, <2>2, <3>1
    <3> QED
      BY <2>1, <3>2
  <2>3. CASE (k % 2) = 1 /\ k = n
    <3>1. pair(k, 1) \in CanonicalPairs(o)
      BY <1>2, <2>3
    <3> QED
      BY <2>1, <3>1
  <2>4. CASE (k % 2) # 1
    <3>1. k - 1 \in 1..(n - 1) /\ ((k - 1) % 2) = 1 /\ (k - 1) + 1 = k
      BY <1>1, <2>4
    <3>2. pair(k - 1, (k - 1) + 1) \in CanonicalPairs(o)
      <4>1. k - 1 \in {j \in 1..(n - 1) : (j % 2) = 1}
        BY <3>1
      <4> QED
        BY <1>2, <4>1
    <3> QED
      BY <2>1, <3>1, <3>2
  <2>5. k <= n
    BY <1>1
  <2> QED
    BY <1>1, <2>2, <2>3, <2>4, <2>5
<1> QED
  BY <1>3, <1>4

(* What a packet shows: every transcript, and pairs of two sides that are  *)
(* together their key.                                                     *)
Complete(packet) ==
  /\ ToSet(packet.items) = Transcripts
  /\ UNION Keys(packet) = Transcripts
  /\ \A i \in DOMAIN packet.pairs :
       packet.pairs[i].key = {packet.pairs[i].left, packet.pairs[i].right}

Fair(packets) ==
  /\ \A slot \in Slots : Complete(packets[slot])
  /\ Keys(packets["reviewer-a"]) = Keys(packets["reviewer-b"])
  /\ \A slot \in Slots : packets[slot].slot = slot

LEMMA ShownAsIs ==
  ASSUME NEW pair, NEW swap
  PROVE  /\ Shown(pair, swap).key = {pair.first, pair.second}
         /\ Shown(pair, swap).key = {Shown(pair, swap).left, Shown(pair, swap).right}
BY DEF Shown


(* Pairs of a finite set are finitely many.                                *)
LEMMA FinitelyManyPairs ==
  ASSUME NEW T, IsFiniteSet(T)
  PROVE  IsFiniteSet([first : T, second : T])
<1> DEFINE f == [x \in T \X T |-> [first |-> x[1], second |-> x[2]]]
<1>1. IsFiniteSet(T \X T)
  BY FS_Product
<1>2. f \in [T \X T -> [first : T, second : T]]
  OBVIOUS
<1>3. ASSUME NEW p \in [first : T, second : T]
      PROVE  \E x \in T \X T : f[x] = p
  <2> DEFINE x == <<p.first, p.second>>
  <2>1. x \in T \X T /\ f[x] = [first |-> p.first, second |-> p.second]
    OBVIOUS
  <2>2. p = [first |-> p.first, second |-> p.second]
    OBVIOUS
  <2> QED
    BY <2>1, <2>2
<1>4. f \in Surjection(T \X T, [first : T, second : T])
  <2> HIDE DEF f
  <2> QED
    BY <1>2, <1>3 DEF Surjection
<1> QED
  BY <1>1, <1>4, FS_Surjection

(* Whatever the order and the sides of a packet.                           *)
Covers(s, S) == \A x : x \in S <=> \E i \in DOMAIN s : s[i] = x
Shows(packet, order, display) ==
  /\ packet.items = order
  /\ DOMAIN packet.pairs = DOMAIN display
  /\ \A i \in DOMAIN display : \E swap : packet.pairs[i] = Shown(display[i], swap)

LEMMA ReversedCovers ==
  ASSUME NEW S, NEW s \in Seq(S), Covers(s, S)
  PROVE  Covers(Reverse(s), S)
<1>1. DOMAIN Reverse(s) = DOMAIN s
      /\ \A x : (\E i \in DOMAIN s : s[i] = x) <=> (\E i \in DOMAIN s : Reverse(s)[i] = x)
  BY ReversedHasTheSame
<1> QED
  BY <1>1 DEF Covers

LEMMA PacketIsComplete ==
  ASSUME NEW P, UNION {{p.first, p.second} : p \in P} = Transcripts,
         NEW order, NEW display, Covers(order, Transcripts), Covers(display, P),
         NEW packet, Shows(packet, order, display)
  PROVE  Complete(packet) /\ Keys(packet) = {{p.first, p.second} : p \in P}
<1>1. ToSet(packet.items) = Transcripts
  BY DEF ToSet, Shows, Covers
<1>2. \A i \in DOMAIN packet.pairs :
        packet.pairs[i].key = {packet.pairs[i].left, packet.pairs[i].right}
  BY ShownAsIs DEF Shows
<1>3. Keys(packet) = {{p.first, p.second} : p \in P}
  <2>1. DOMAIN packet.pairs = DOMAIN display
        /\ \A i \in DOMAIN display : packet.pairs[i].key = {display[i].first, display[i].second}
    BY ShownAsIs DEF Shows
  <2>2. Keys(packet) = {packet.pairs[i].key : i \in DOMAIN display}
    BY <2>1 DEF Keys
  <2>3. ASSUME NEW i \in DOMAIN display
        PROVE  \E p \in P : packet.pairs[i].key = {p.first, p.second}
    BY <2>1 DEF Covers
  <2>4. ASSUME NEW p \in P
        PROVE  \E i \in DOMAIN display : packet.pairs[i].key = {p.first, p.second}
    <3>1. PICK i \in DOMAIN display : display[i] = p
      BY DEF Covers
    <3>2. packet.pairs[i].key = {p.first, p.second}
      BY <2>1, <3>1
    <3> QED
      BY <3>2
  <2> DEFINE ends(p) == {p.first, p.second}
  <2>5. /\ \A i \in DOMAIN display : \E p \in P : packet.pairs[i].key = ends(p)
        /\ \A p \in P : \E i \in DOMAIN display : packet.pairs[i].key = ends(p)
    BY <2>3, <2>4
  <2> HIDE DEF ends
  <2>6. Keys(packet) = {ends(p) : p \in P}
    BY <2>2, <2>5
  <2> QED
    BY <2>6 DEF ends
<1> QED
  BY <1>1, <1>2, <1>3 DEF Complete

LEMMA BundlesAreFair ==
  ASSUME IInv, Placed, NEW packets \in Bundles(Transcripts, Pairings)
  PROVE  Fair(packets)
<1>1. PICK P \in Pairings :
        packets \in UNION {{Bundle(items, pairs, left) : left \in SUBSET ToSet(pairs),
                                                         items \in Orders(Transcripts)}
                             : pairs \in Orders(P)}
  BY DEF Bundles
<1>10. PICK pairs \in Orders(P) :
         packets \in {Bundle(items, pairs, left) : left \in SUBSET ToSet(pairs),
                                                   items \in Orders(Transcripts)}
  BY <1>1
<1>11. PICK left \in SUBSET ToSet(pairs), items \in Orders(Transcripts) :
         packets = Bundle(items, pairs, left)
  BY <1>10
<1>2. ASSUME NEW I \in SUBSET DOMAIN results
      PROVE  IsFiniteSet({RunIds[i] : i \in I})
  <2> DEFINE f == [i \in I |-> RunIds[i]]
  <2>1. IsFiniteSet(I)
    <3>1. Len(Work) \in Nat /\ DOMAIN results = 1..Len(Work)
      BY WorkOfTheSelected DEF IInv, Placed
    <3>2. \A a, b \in Int : IsFiniteSet(a..b)
      BY FS_Interval
    <3> QED
      BY <3>1, <3>2, FS_Subset
  <2>2. f \in Surjection(I, {RunIds[i] : i \in I})
    BY DEF Surjection
  <2> QED
    BY <2>1, <2>2, FS_Surjection
<1>3. IsFiniteSet(Transcripts) /\ \A g \in Groups : IsFiniteSet(g)
  BY <1>2 DEF Transcripts, Groups, Ran, OfScenario
<1>4. UNION Groups = Transcripts
  <2>1. \A i \in DOMAIN results :
          /\ results[i].item.scenario.id \in Observed(results)
          /\ i \in Ran(results[i].item.scenario.id)
    BY DEF Observed, Ran, OfScenario
  <2> QED
    BY <2>1 DEF Groups, Transcripts, Ran, OfScenario
<1>5. IsFiniteSet(P) /\ UNION {{p.first, p.second} : p \in P} = Transcripts
  <2>1. PICK order : /\ \A g \in Groups : order[g] \in Orders(g)
                     /\ P = UNION {CanonicalPairs(order[g]) : g \in Groups}
    BY DEF Pairings
  <2>2. ASSUME NEW g \in Groups
        PROVE  UNION {{p.first, p.second} : p \in CanonicalPairs(order[g])} = g
    BY <1>3, <2>1, PairsCoverTheirGroup
  <2>3. UNION {{p.first, p.second} : p \in P} = Transcripts
    <3>1. ASSUME NEW p \in P
          PROVE  p.first \in Transcripts /\ p.second \in Transcripts
      <4>1. PICK g \in Groups : p \in CanonicalPairs(order[g])
        BY <2>1
      <4>2. p.first \in g /\ p.second \in g
        BY <2>2, <4>1
      <4> QED
        BY <1>4, <4>2
    <3>2. ASSUME NEW x \in Transcripts
          PROVE  \E p \in P : x \in {p.first, p.second}
      <4>1. PICK g \in Groups : x \in g
        BY <1>4
      <4>2. PICK p \in CanonicalPairs(order[g]) : x \in {p.first, p.second}
        BY <2>2, <4>1
      <4> QED
        BY <2>1, <4>2
    <3> QED
      BY <3>1, <3>2
  <2>4. P \subseteq [first : Transcripts, second : Transcripts]
    <3> SUFFICES ASSUME NEW p \in P
                 PROVE  p \in [first : Transcripts, second : Transcripts]
      OBVIOUS
    <3>1. PICK g \in Groups : p \in CanonicalPairs(order[g])
      BY <2>1
    <3>2. \E a, b : p = [first |-> a, second |-> b]
      BY <3>1 DEF CanonicalPairs
    <3>3. p.first \in Transcripts /\ p.second \in Transcripts
      BY <2>3
    <3> QED
      BY <3>2, <3>3
  <2> QED
    BY <1>3, <2>3, <2>4, FinitelyManyPairs, FS_Subset
<1>6. /\ pairs \in Seq(P) /\ Covers(pairs, P)
      /\ items \in Seq(Transcripts) /\ Covers(items, Transcripts)
  BY <1>3, <1>5, OrderIsASequence DEF Covers
<1>7. ASSUME NEW order, NEW display, Covers(order, Transcripts), Covers(display, P),
             NEW packet, Shows(packet, order, display)
      PROVE  Complete(packet) /\ Keys(packet) = {{p.first, p.second} : p \in P}
  BY <1>5, <1>7, PacketIsComplete
<1>8. Complete(packets["reviewer-a"]) /\ Keys(packets["reviewer-a"]) = {{p.first, p.second} : p \in P}
  <2>1. Shows(packets["reviewer-a"], items, pairs)
    BY <1>11 DEF Bundle, Slots, Shows
  <2> QED
    BY <1>6, <1>7, <2>1
<1>9. Complete(packets["reviewer-b"]) /\ Keys(packets["reviewer-b"]) = {{p.first, p.second} : p \in P}
  <2>1. Shows(packets["reviewer-b"], Reverse(items), Reverse(pairs))
    BY <1>11 DEF Bundle, Slots, Shows
  <2>2. Covers(Reverse(items), Transcripts) /\ Covers(Reverse(pairs), P)
    BY <1>6, ReversedCovers
  <2> QED
    BY <1>7, <2>1, <2>2
<1>12. \A slot \in Slots : packets[slot].slot = slot
  BY <1>11 DEF Bundle, Slots
<1> QED
  BY <1>8, <1>9, <1>12 DEF Fair, Slots

(* A form says of each transcript and each pair what its reviewer thinks,  *)
(* wherever and on whichever side the packet showed it.                    *)
LEMMA FormsAreReadBack ==
  ASSUME NEW packet, Complete(packet), NEW opinion, Answers(opinion, packet),
         NEW alias, NEW form, form = Filled(packet, opinion, alias)
  PROVE  /\ \A x \in Transcripts : VerdictOf(packet, form, x) = opinion.verdict[x]
         /\ \A key \in Keys(packet) : WinnerOf(packet, form, key) = opinion.winner[key]
<1>1. ASSUME NEW x \in Transcripts
      PROVE  VerdictOf(packet, form, x) = opinion.verdict[x]
  <2> DEFINE i == CHOOSE k \in DOMAIN packet.items : packet.items[k] = x
  <2>1. \E k \in DOMAIN packet.items : packet.items[k] = x
    BY DEF Complete, ToSet
  <2>2. i \in DOMAIN packet.items /\ packet.items[i] = x
    BY <2>1
  <2>3. VerdictOf(packet, form, x) = form.verdicts[i]
    BY DEF VerdictOf
  <2> HIDE DEF i
  <2>4. form.verdicts[i] = opinion.verdict[packet.items[i]]
    BY <2>2 DEF Filled
  <2> QED
    BY <2>2, <2>3, <2>4
<1>2. ASSUME NEW key \in Keys(packet)
      PROVE  WinnerOf(packet, form, key) = opinion.winner[key]
  <2> DEFINE i == CHOOSE k \in DOMAIN packet.pairs : packet.pairs[k].key = key
             pair == packet.pairs[i]
             winner == opinion.winner[pair.key]
  <2>1. \E k \in DOMAIN packet.pairs : packet.pairs[k].key = key
    BY DEF Keys
  <2>2. i \in DOMAIN packet.pairs /\ pair.key = key
    BY <2>1
  <2>3. WinnerOf(packet, form, key) = CanonicalWinner(pair, form.winners[i])
    BY DEF WinnerOf
  <2>4. winner \in {pair.left, pair.right, "tie", "both_bad", "abstain"}
    BY <2>2 DEF Answers
  <2> HIDE DEF i
  <2>5. form.winners[i] = CASE winner = pair.left -> "left" [] winner = pair.right -> "right" [] OTHER -> winner
    BY <2>2 DEF Filled
  <2> HIDE DEF winner, pair
  <2>6. CanonicalWinner(pair, form.winners[i]) = winner
    <3>1. CASE winner = pair.left
      <4>1. form.winners[i] = "left" \/ (winner = pair.right /\ form.winners[i] = "right")
        BY <2>5, <3>1
      <4> QED
        BY <3>1, <4>1 DEF CanonicalWinner
    <3>2. CASE winner # pair.left /\ winner = pair.right
      <4>1. form.winners[i] = "right"
        BY <2>5, <3>2
      <4> QED
        BY <3>2, <4>1 DEF CanonicalWinner
    <3>3. CASE winner # pair.left /\ winner # pair.right
      <4>1. form.winners[i] = winner /\ winner \in {"tie", "both_bad", "abstain"}
        BY <2>4, <2>5, <3>3
      <4> QED
        BY <4>1 DEF CanonicalWinner
    <3> QED
      BY <3>1, <3>2, <3>3
  <2> QED
    BY <2>2, <2>3, <2>6 DEF winner
<1> QED
  BY <1>1, <1>2

(* Two opinions are settled when they are one and no abstention.           *)
LEMMA TwoOpinions ==
  ASSUME NEW a, NEW b
  PROVE  ("abstain" \in {a, b} \/ Cardinality({a, b}) > 1) <=> ~(a = b /\ a # "abstain")
<1>1. CASE a = b
  <2>1. {a, b} = {a}
    BY <1>1
  <2>2. Cardinality({a, b}) = 1
    BY <2>1, FS_Singleton
  <2> QED
    BY <1>1, <2>2
<1>2. CASE a # b
  <2>1. IsFiniteSet({a}) /\ Cardinality({a}) = 1
    BY FS_Singleton
  <2>2. Cardinality({a} \cup {b}) = 2
    BY <1>2, <2>1, FS_AddElement
  <2>3. {a} \cup {b} = {a, b}
    OBVIOUS
  <2> QED
    BY <1>2, <2>2, <2>3
<1> QED
  BY <1>1, <1>2

(* A form that is not ready, or as a reviewer filled it in, who may have   *)
(* taken the packet of the first.                                          *)
Returned(packets, slot, opinion, form) ==
  \/ form \in {Draft(packets[slot])} \cup HalfFilled(packets[slot], slot)
  \/ \E packet \in {slot, "reviewer-a"} : \E alias :
       /\ Answers(opinion, packets[packet])
       /\ form = Filled(packets[packet], opinion, alias)

Reviewed ==
  review # NoReview =>
    /\ phase = "reported" /\ Transcripts # {}
    /\ DOMAIN review = {"status", "packets", "thoughts", "submissions", "agreement"}
    /\ Fair(review.packets)
    /\ DOMAIN review.submissions \subseteq Slots
    /\ DOMAIN review.thoughts = DOMAIN review.submissions
    /\ \A slot \in DOMAIN review.submissions :
         Returned(review.packets, slot, review.thoughts[slot], review.submissions[slot])
    /\ ReviewersAgreeOnTranscripts

LEMMA ReviewStays ==
  ASSUME Reviewed, review' = review, results' = results, phase = "reported" => phase' = "reported"
  PROVE  Reviewed'
<1>1. Transcripts' = Transcripts
  BY DEF Transcripts
<1>2. CASE review = NoReview
  BY <1>2 DEF Reviewed, NoReview
<1>3. CASE review # NoReview
  <2>1. Fair(review.packets)'
    BY <1>1, <1>3 DEF Reviewed, Fair, Complete
  <2>2. ReviewersAgreeOnTranscripts'
    BY <1>1, <1>3 DEF Reviewed, ReviewersAgreeOnTranscripts
  <2>3. review' # NoReview => DOMAIN review' = {"status", "packets", "thoughts", "submissions", "agreement"}
    BY <1>3 DEF Reviewed
  <2>4. phase' = "reported" /\ Transcripts' # {}
    BY <1>1, <1>3 DEF Reviewed
  <2>5. /\ DOMAIN review'.submissions \subseteq Slots
        /\ DOMAIN review'.thoughts = DOMAIN review'.submissions
        /\ \A slot \in DOMAIN review'.submissions :
             Returned(review'.packets, slot, review'.thoughts[slot], review'.submissions[slot])
    BY <1>3 DEF Reviewed
  <2> QED
    BY <2>1, <2>2, <2>3, <2>4, <2>5 DEF Reviewed
<1> QED
  BY <1>2, <1>3

LEMMA PrepareReviews ==
  ASSUME IInv, Placed, Prepare
  PROVE  Reviewed'
<1>1. PICK packets \in Bundles(Transcripts, Pairings) :
        review' = [status |-> "open", packets |-> packets, thoughts |-> <<>>, submissions |-> <<>>,
                   agreement |-> <<>>]
  BY DEF Prepare
<1>2. phase' = "reported" /\ results' = results /\ Transcripts' = Transcripts
  BY DEF Prepare, pool, Transcripts
<1>3. Fair(packets)
  BY BundlesAreFair
<1>4. /\ review'.status = "open" /\ review'.packets = packets
      /\ DOMAIN review' = {"status", "packets", "thoughts", "submissions", "agreement"}
      /\ DOMAIN review'.submissions = {} /\ DOMAIN review'.thoughts = {}
  BY <1>1
<1>5. Fair(review.packets)'
  BY <1>2, <1>3, <1>4 DEF Fair, Complete
<1>6. ReviewersAgreeOnTranscripts'
  BY <1>4 DEF ReviewersAgreeOnTranscripts
<1>7. Transcripts # {}
  <2>1. Len(Work) \in Nat /\ DOMAIN results = 1..Len(Work)
    BY WorkOfTheSelected DEF IInv, Placed
  <2>2. 1 \in DOMAIN results
    <3>1. phase = "reported" /\ Len(results) >= 2
      BY DEF Prepare
    <3> QED
      BY <2>1, <3>1
  <2> QED
    BY <2>2 DEF Transcripts
<1> QED
  BY <1>2, <1>4, <1>5, <1>6, <1>7 DEF Reviewed

LEMMA SubmitReviews ==
  ASSUME Reviewed, Submit
  PROVE  Reviewed'
<1> DEFINE slot == IF review.submissions = <<>> THEN "reviewer-a" ELSE "reviewer-b"
<1>1. PICK opinion, form :
        /\ Returned(review.packets, slot, opinion, form)
        /\ review' = [review EXCEPT !.thoughts = Put(@, slot, opinion),
                                    !.submissions = Put(@, slot, form)]
  <2>1. CASE \E opinion \in Thoughts, packet \in {slot, "reviewer-a"},
               alias \in {slot, "reviewer-a"} :
               /\ Answers(opinion, review.packets[packet])
               /\ review' = [review EXCEPT
                    !.thoughts = Put(@, slot, opinion),
                    !.submissions = Put(@, slot, Filled(review.packets[packet], opinion, alias))]
    <3>1. PICK opinion \in Thoughts, packet \in {slot, "reviewer-a"}, alias \in {slot, "reviewer-a"} :
            /\ Answers(opinion, review.packets[packet])
            /\ review' = [review EXCEPT
                 !.thoughts = Put(@, slot, opinion),
                 !.submissions = Put(@, slot, Filled(review.packets[packet], opinion, alias))]
      BY <2>1
    <3>2. Returned(review.packets, slot, opinion, Filled(review.packets[packet], opinion, alias))
      BY <3>1 DEF Returned
    <3> QED
      BY <3>1, <3>2
  <2>2. CASE \E form \in {Draft(review.packets[slot])} \cup HalfFilled(review.packets[slot], slot) :
               review' = [review EXCEPT !.thoughts = Put(@, slot, <<>>),
                                        !.submissions = Put(@, slot, form)]
    BY <2>2 DEF Returned
  <2> QED
    BY <2>1, <2>2 DEF Submit
<1>2. review # NoReview /\ review.status = "open"
  <2>1. review.status = "open"
    BY DEF Submit
  <2>2. NoReview.status = "none"
    BY DEF NoReview
  <2> QED
    BY <2>1, <2>2
<1>3. slot \in Slots
  BY DEF Slots
<1> HIDE DEF slot
<1>4. /\ DOMAIN review = {"status", "packets", "thoughts", "submissions", "agreement"}
      /\ Fair(review.packets) /\ phase = "reported" /\ Transcripts # {}
      /\ DOMAIN review.submissions \subseteq Slots
      /\ DOMAIN review.thoughts = DOMAIN review.submissions
      /\ \A s \in DOMAIN review.submissions :
           Returned(review.packets, s, review.thoughts[s], review.submissions[s])
  BY <1>2 DEF Reviewed
<1>5. /\ DOMAIN review' = DOMAIN review
      /\ review'.status = "open" /\ review'.packets = review.packets
      /\ review'.thoughts = Put(review.thoughts, slot, opinion)
      /\ review'.submissions = Put(review.submissions, slot, form)
  BY <1>1, <1>2, <1>4
<1>6. /\ DOMAIN review'.submissions = {slot} \cup DOMAIN review.submissions
      /\ DOMAIN review'.thoughts = {slot} \cup DOMAIN review.thoughts
      /\ review'.submissions[slot] = form /\ review'.thoughts[slot] = opinion
  BY <1>5 DEF Put
<1>7. ASSUME NEW s \in DOMAIN review.submissions, s # slot
      PROVE  review'.submissions[s] = review.submissions[s] /\ review'.thoughts[s] = review.thoughts[s]
  BY <1>4, <1>5, <1>7 DEF Put
<1>8. \A s \in DOMAIN review'.submissions :
        Returned(review'.packets, s, review'.thoughts[s], review'.submissions[s])
  <2> SUFFICES ASSUME NEW s \in DOMAIN review'.submissions
               PROVE  Returned(review'.packets, s, review'.thoughts[s], review'.submissions[s])
    OBVIOUS
  <2>1. CASE s = slot
    BY <1>1, <1>5, <1>6, <2>1
  <2>2. CASE s # slot
    <3>1. s \in DOMAIN review.submissions
      BY <1>6, <2>2
    <3> QED
      BY <1>4, <1>5, <1>7, <2>2, <3>1
  <2> QED
    BY <2>1, <2>2
<1>9. phase' = "reported" /\ Transcripts' = Transcripts
  BY <1>4 DEF Submit, pool, Transcripts
<1>10. Fair(review.packets)'
  BY <1>4, <1>5, <1>9 DEF Fair, Complete
<1>11. ReviewersAgreeOnTranscripts'
  BY <1>5 DEF ReviewersAgreeOnTranscripts
<1> QED
  BY <1>3, <1>4, <1>5, <1>6, <1>8, <1>9, <1>10, <1>11 DEF Reviewed

(* What is not ready is not accepted: a packet has items and pairs.        *)
LEMMA Unready ==
  ASSUME NEW packets, NEW forms, Acceptable(packets, forms), Transcripts # {},
         NEW s \in Slots, Complete(packets[s])
  PROVE  forms[s] \notin {Draft(packets[s])} \cup HalfFilled(packets[s], s)
<1> DEFINE packet == packets[s]
           form == forms[s]
<1>1. (\E i : i \in DOMAIN packet.items) /\ (\E i : i \in DOMAIN packet.pairs)
  BY DEF Complete, ToSet, Keys
<1>2. /\ form.status = "complete"
      /\ \A i \in DOMAIN form.verdicts : form.verdicts[i] # "not-reviewed"
      /\ \A i \in DOMAIN form.winners : form.winners[i] # "not-reviewed"
  BY DEF Acceptable, ToSet
<1> HIDE DEF form
<1>3. form # Draft(packet)
  BY <1>2 DEF Draft
<1>4. CASE form \in HalfFilled(packet, s)
  <2> DEFINE blank(domain) == [i \in domain |-> "not-reviewed"]
  <2>1. form.winners = blank(DOMAIN packet.pairs) \/ form.verdicts = blank(DOMAIN packet.items)
    BY <1>4 DEF HalfFilled, Draft
  <2> QED
    BY <1>1, <1>2, <2>1
<1> QED
  BY <1>3, <1>4 DEF form

LEMMA AggregateReviews ==
  ASSUME Reviewed, Aggregate
  PROVE  Reviewed'
<1> DEFINE packets == review.packets
           forms == review.submissions
           a == review.thoughts["reviewer-a"]
           b == review.thoughts["reviewer-b"]
           judgePassed == {RunIds[i] : i \in {k \in DOMAIN results : results[k].judgePassed}}
           agreement == Agreement(packets, forms, judgePassed)
<1>1. /\ review.status = "open" /\ Cardinality(DOMAIN forms) = 2
      /\ review' = IF Acceptable(packets, forms)
                   THEN [review EXCEPT !.status = agreement.status, !.agreement = agreement]
                   ELSE [review EXCEPT !.status = "refused"]
  BY DEF Aggregate
<1> HIDE DEF agreement
<1>2. review # NoReview
  <2>1. NoReview.status = "none"
    BY DEF NoReview
  <2> QED
    BY <1>1, <2>1
<1>3. /\ DOMAIN review = {"status", "packets", "thoughts", "submissions", "agreement"}
      /\ Fair(packets) /\ phase = "reported" /\ Transcripts # {}
      /\ DOMAIN forms \subseteq Slots /\ DOMAIN review.thoughts = DOMAIN forms
      /\ \A s \in DOMAIN forms : Returned(packets, s, review.thoughts[s], forms[s])
  BY <1>2 DEF Reviewed
<1>4. /\ DOMAIN review' = DOMAIN review
      /\ review'.packets = packets /\ review'.thoughts = review.thoughts
      /\ review'.submissions = forms
      /\ review'.status = IF Acceptable(packets, forms) THEN agreement.status ELSE "refused"
  BY <1>1, <1>3
<1>5. phase' = "reported" /\ Transcripts' = Transcripts
  BY <1>3 DEF Aggregate, pool, Transcripts
<1>6. Fair(review.packets)'
  BY <1>3, <1>4, <1>5 DEF Fair, Complete
<1>7. DOMAIN forms = Slots
  <2>1. IsFiniteSet(Slots) /\ Cardinality(Slots) = 2
    <3>1. IsFiniteSet({"reviewer-a"}) /\ Cardinality({"reviewer-a"}) = 1
      BY FS_Singleton
    <3>2. IsFiniteSet({"reviewer-a"} \cup {"reviewer-b"})
          /\ Cardinality({"reviewer-a"} \cup {"reviewer-b"}) = 2
      BY <3>1, FS_AddElement
    <3>3. {"reviewer-a"} \cup {"reviewer-b"} = Slots
      BY DEF Slots
    <3> QED
      BY <3>2, <3>3
  <2> QED
    BY <1>1, <1>3, <2>1, FS_Subset
<1>8. ASSUME Acceptable(packets, forms)
      PROVE  /\ \A x \in Transcripts : /\ VerdictOf(packets["reviewer-a"], forms["reviewer-a"], x) = a.verdict[x]
                                       /\ VerdictOf(packets["reviewer-b"], forms["reviewer-b"], x) = b.verdict[x]
             /\ \A key \in Keys(packets["reviewer-a"]) :
                  /\ WinnerOf(packets["reviewer-a"], forms["reviewer-a"], key) = a.winner[key]
                  /\ WinnerOf(packets["reviewer-b"], forms["reviewer-b"], key) = b.winner[key]
  <2>5. ASSUME NEW s \in Slots
        PROVE  forms[s] \notin {Draft(packets[s])} \cup HalfFilled(packets[s], s)
    BY <1>3, <1>8, Unready DEF Fair
  <2>6. ASSUME NEW s \in Slots
        PROVE  \E packet \in {s, "reviewer-a"} : \E alias :
                 /\ Answers(review.thoughts[s], packets[packet])
                 /\ forms[s] = Filled(packets[packet], review.thoughts[s], alias)
    BY <1>3, <1>7, <2>5 DEF Returned
  <2>7. \A packet \in Slots : \A opinion, alias : Filled(packets[packet], opinion, alias).packet = packet
    BY <1>3 DEF Fair, Filled
  <2>1. ASSUME NEW s \in Slots
        PROVE  /\ Answers(review.thoughts[s], packets[s])
               /\ \E alias : forms[s] = Filled(packets[s], review.thoughts[s], alias)
    <3>1. "reviewer-a" \in Slots /\ "reviewer-b" \in Slots /\ s \in {"reviewer-a", "reviewer-b"}
      BY DEF Slots
    <3>2. CASE s = "reviewer-a"
      BY <2>6, <3>2
    <3>3. CASE s = "reviewer-b"
      <4>1. forms["reviewer-a"].packet = "reviewer-a"
        BY <2>6, <2>7, <3>1
      <4>2. forms["reviewer-a"].packet # forms["reviewer-b"].packet
        BY <1>8 DEF Acceptable
      <4> QED
        BY <2>6, <2>7, <3>1, <3>3, <4>1, <4>2
    <3> QED
      BY <3>1, <3>2, <3>3
  <2>2. /\ "reviewer-a" \in Slots /\ "reviewer-b" \in Slots
        /\ Complete(packets["reviewer-a"]) /\ Complete(packets["reviewer-b"])
        /\ Keys(packets["reviewer-a"]) = Keys(packets["reviewer-b"])
    BY <1>3 DEF Fair, Slots
  <2>3. /\ \A x \in Transcripts : VerdictOf(packets["reviewer-a"], forms["reviewer-a"], x) = a.verdict[x]
        /\ \A key \in Keys(packets["reviewer-a"]) :
             WinnerOf(packets["reviewer-a"], forms["reviewer-a"], key) = a.winner[key]
    BY <2>1, <2>2, FormsAreReadBack
  <2>4. /\ \A x \in Transcripts : VerdictOf(packets["reviewer-b"], forms["reviewer-b"], x) = b.verdict[x]
        /\ \A key \in Keys(packets["reviewer-b"]) :
             WinnerOf(packets["reviewer-b"], forms["reviewer-b"], key) = b.winner[key]
    BY <2>1, <2>2, FormsAreReadBack
  <2> QED
    BY <2>2, <2>3, <2>4
<1>9. ReviewersAgreeOnTranscripts'
  <2> DEFINE keys == Keys(packets["reviewer-a"])
             settled(f, g, x) == f[x] = g[x] /\ f[x] # "abstain"
  <2>1. UNION keys = Transcripts
    BY <1>3 DEF Fair, Complete, Slots
  <2>2. ASSUME Acceptable(packets, forms)
        PROVE  agreement.status = "reviewers-agree" <=>
                 /\ \A x \in Transcripts : settled(a.verdict, b.verdict, x)
                 /\ \A key \in keys : settled(a.winner, b.winner, key)
    <3>1. Unsettled(Verdicts(packets, forms)) <=>
            \E x \in Transcripts : ~settled(a.verdict, b.verdict, x)
      <4>1. DOMAIN Verdicts(packets, forms) = Transcripts
        BY <1>3 DEF Verdicts, Fair, Complete, Slots
      <4>2. \A x \in Transcripts : Verdicts(packets, forms)[x] = {a.verdict[x], b.verdict[x]}
        BY <1>8, <2>2, <4>1 DEF Verdicts, Slots
      <4>3. ASSUME NEW x \in DOMAIN Verdicts(packets, forms)
            PROVE  ("abstain" \in Verdicts(packets, forms)[x] \/ Cardinality(Verdicts(packets, forms)[x]) > 1)
                     <=> ~settled(a.verdict, b.verdict, x)
        <5>1. ("abstain" \in {a.verdict[x], b.verdict[x]}
                 \/ Cardinality({a.verdict[x], b.verdict[x]}) > 1)
                <=> ~(a.verdict[x] = b.verdict[x] /\ a.verdict[x] # "abstain")
          BY TwoOpinions
        <5> QED
          BY <4>1, <4>2, <4>3, <5>1
      <4> QED
        BY <4>1, <4>3 DEF Unsettled
    <3>2. Unsettled(Preferences(packets, forms)) <=>
            \E key \in keys : ~settled(a.winner, b.winner, key)
      <4>1. DOMAIN Preferences(packets, forms) = keys
        BY DEF Preferences
      <4>2. \A key \in keys : Preferences(packets, forms)[key] = {a.winner[key], b.winner[key]}
        BY <1>8, <2>2, <4>1 DEF Preferences, Slots
      <4>3. ASSUME NEW key \in DOMAIN Preferences(packets, forms)
            PROVE  ("abstain" \in Preferences(packets, forms)[key] \/ Cardinality(Preferences(packets, forms)[key]) > 1)
                     <=> ~settled(a.winner, b.winner, key)
        <5>1. ("abstain" \in {a.winner[key], b.winner[key]}
                 \/ Cardinality({a.winner[key], b.winner[key]}) > 1)
                <=> ~(a.winner[key] = b.winner[key] /\ a.winner[key] # "abstain")
          BY TwoOpinions
        <5> QED
          BY <4>1, <4>2, <4>3, <5>1
      <4> QED
        BY <4>1, <4>3 DEF Unsettled
    <3>3. agreement.status = IF Unsettled(Verdicts(packets, forms)) \/ Unsettled(Preferences(packets, forms))
                             THEN "needs-adjudication" ELSE "reviewers-agree"
      BY DEF agreement, Agreement
    <3> QED
      BY <3>1, <3>2, <3>3
  <2>3. SUFFICES ASSUME review'.status \in {"reviewers-agree", "needs-adjudication"}
                 PROVE  /\ UNION keys = Transcripts
                        /\ review'.status = "reviewers-agree" <=>
                             /\ \A x \in Transcripts : settled(a.verdict, b.verdict, x)
                             /\ \A key \in keys : settled(a.winner, b.winner, key)
    BY <1>4, <1>5 DEF ReviewersAgreeOnTranscripts
  <2>4. Acceptable(packets, forms)
    BY <1>4, <2>3
  <2> QED
    BY <1>4, <2>1, <2>2, <2>4
<1> QED
  BY <1>3, <1>4, <1>5, <1>6, <1>9 DEF Reviewed

LEMMA ReviewedStays ==
  ASSUME IInv, Placed, Reviewed, [EvaluationsNext]_vars
  PROVE  Reviewed'
<1>1. CASE Prepare
  BY <1>1, PrepareReviews
<1>2. CASE Submit
  BY <1>2, SubmitReviews
<1>3. CASE Aggregate
  BY <1>3, AggregateReviews
<1>4. CASE Report \/ UNCHANGED vars
  <2>1. review' = review /\ results' = results /\ (phase = "reported" => phase' = "reported")
    BY <1>4 DEF Report, vars
  <2> QED
    BY <2>1, ReviewStays
<1>5. ASSUME NEW w \in Workers, Take(w) \/ Talk(w) \/ Assess(w) \/ WriteFails(w)
      PROVE  Reviewed'
  <2>1. review' = review /\ phase # "reported"
    BY <1>5 DEF Take, Talk, Assess, Store, WriteFails
  <2>2. review = NoReview
    BY <2>1 DEF Reviewed
  <2> QED
    BY <2>1, <2>2 DEF Reviewed, NoReview
<1> QED
  BY <1>1, <1>2, <1>3, <1>4, <1>5 DEF EvaluationsNext

(* Whatever order and side each reviewer saw, and whatever run was under    *)
(* review: the report finds agreement exactly where both think the same of  *)
(* every transcript and pair, and no transcript is left out                *)
(* (createNaturalnessBlindReviewBundle, aggregateNaturalnessBlindReviews).  *)
THEOREM ReviewersAreCompared == EvaluationsSpec => []ReviewersAgreeOnTranscripts
<1>1. EvaluationsInit => Reviewed
  BY DEF EvaluationsInit, Reviewed
<1>2. IInv /\ Placed /\ Reviewed /\ [EvaluationsNext]_vars => IInv' /\ Placed' /\ Reviewed'
  BY Inductive, PlacedStays, ReviewedStays
<1>3. Reviewed => ReviewersAgreeOnTranscripts
  <2>1. NoReview.status \notin {"reviewers-agree", "needs-adjudication"}
    BY DEF NoReview
  <2> QED
    BY <2>1 DEF Reviewed, ReviewersAgreeOnTranscripts
<1> QED
  BY Initially, PlacedAtFirst, <1>1, <1>2, <1>3, PTL DEF EvaluationsSpec

-----------------------------------------------------------------------------
(* What is left of a number of turns after whole batches.                  *)

LEMMA Division ==
  ASSUME NEW m \in Nat, NEW n \in Nat \ {0}
  PROVE  m % n = m - n * (m \div n) /\ m % n \in 0..(n - 1) /\ m \div n \in Nat
<1>1. m % n = m - n * (m \div n)
  OBVIOUS
<1>2. m % n \in 0..(n - 1)
  OBVIOUS
<1>3. m \div n \in Nat
  OBVIOUS
<1> QED
  BY <1>1, <1>2, <1>3

LEMMA Remainder ==
  ASSUME NEW b \in Nat \ {0}, NEW q \in Nat, NEW r \in 0..(b - 1)
  PROVE  (b * q + r) % b = r
<1> DEFINE x == b * q + r
<1>1. x \in Nat
  <2>1. \A m, n \in Nat : m * n \in Nat
    OBVIOUS
  <2> QED
    BY <2>1
<1> HIDE DEF x
<1>2. PICK p \in Int, s \in 0..(b - 1) : x = b * p + s /\ x % b = s
  <2> DEFINE p == x \div b
             s == x % b
  <2>1. s = x - b * p /\ s \in 0..(b - 1) /\ p \in Int
    BY <1>1, Division
  <2>2. b * p \in Int
    BY <2>1
  <2>3. x % b = s
    OBVIOUS
  <2> HIDE DEF p, s
  <2>4. x = b * p + s
    BY <1>1, <2>1, <2>2
  <2> QED
    BY <2>1, <2>3, <2>4
<1>3. b * q + r = b * p + s
  BY <1>2 DEF x
<1>4. q = p
  <2>1. \A m, n \in Int : m < n => b * n >= b * m + b
    <3>1. \A m, n \in Int : m < n => b * (n - m) >= b /\ b * (n - m) = b * n - b * m
      OBVIOUS
    <3> QED
      BY <3>1
  <2>2. b * q \in Int /\ b * p \in Int
    OBVIOUS
  <2>3. ~(q < p) /\ ~(p < q)
    BY <1>3, <2>1, <2>2
  <2> QED
    BY <2>3
<1>5. b * q = b * p /\ b * q \in Int
  BY <1>4
<1>6. r = s
  BY <1>3, <1>5
<1> QED
  BY <1>2, <1>6 DEF x

LEMMA NextRemainder ==
  ASSUME NEW b \in Nat \ {0}, NEW k \in Nat
  PROVE  /\ k % b \in 0..(b - 1) /\ k % b <= k
         /\ (k + 1) % b = IF k % b = b - 1 THEN 0 ELSE (k % b) + 1
<1> DEFINE q == k \div b
           r == k % b
<1>1. q \in Nat /\ r \in 0..(b - 1) /\ k = b * q + r
  <2>1. r = k - b * q /\ r \in 0..(b - 1) /\ q \in Nat
    BY Division
  <2>2. b * q \in Int
    BY <2>1
  <2> HIDE DEF q, r
  <2> QED
    BY <2>1, <2>2
<1> HIDE DEF q, r
<1>2. b * q \in Nat /\ b * (q + 1) = b * q + b
  <2>1. \A m, n \in Nat : m * n \in Nat /\ m * (n + 1) = m * n + m
    OBVIOUS
  <2> QED
    BY <1>1, <2>1
<1>3. CASE r = b - 1
  <2>1. k + 1 = b * (q + 1) + 0
    BY <1>1, <1>2, <1>3
  <2>2. (b * (q + 1) + 0) % b = 0
    BY <1>1, Remainder
  <2> QED
    BY <1>1, <1>2, <1>3, <2>1, <2>2 DEF r
<1>4. CASE r # b - 1
  <2>1. k + 1 = b * q + (r + 1) /\ r + 1 \in 0..(b - 1)
    BY <1>1, <1>2, <1>4
  <2>2. (b * q + (r + 1)) % b = r + 1
    BY <1>1, <2>1, Remainder
  <2> QED
    BY <1>1, <1>2, <1>4, <2>1, <2>2 DEF r
<1> QED
  BY <1>3, <1>4


-----------------------------------------------------------------------------
(* How far a conversation's summary may fall behind.                       *)

Talking == {"seeding", "speaking", "asking", "draining", "checking"}
Jobs == [first: Int, size: Int, refresh: BOOLEAN]
End(job) == job.first + job.size

(* The turns since the last drain, and the messages it had before it.      *)
Since(k) == IF options.consolidation = "quiescent" THEN 0 ELSE k % BatchTurns
DrainedAt(k) == 2 * (k - Since(k))
Spoken(pc, turn) == IF pc \in {"draining", "checking"} THEN turn ELSE turn - 1
Pending(taken, queue) == {k \in (taken + 1)..Len(queue) : queue[k].refresh}

(* The summary covers whole exchanges, all but a few of those before the   *)
(* last drain; while that drain goes on, a job that ends with the latest   *)
(* of them may still be in the queue.                                      *)
KeptUp(pc, turn, covered, taken, queue) ==
  LET due == DrainedAt(Spoken(pc, turn))
  IN  /\ turn \in Nat \ {0} /\ queue \in Seq(Jobs) /\ taken \in 0..Len(queue)
      /\ covered \in 0..due /\ covered % 2 = 0
      /\ \A k \in Pending(taken, queue) :
           End(queue[k]) \in 0..(2 * turn) /\ End(queue[k]) % 2 = 0
      /\ pc = "draining" => Since(turn) = 0
      /\ \/ due - covered <= Left(options)
         \/ pc = "draining" /\ \E k \in Pending(taken, queue) : End(queue[k]) = due

InStep(t) == KeptUp(t.pc, t.turn, t.covered, t.taken, t.queue)

Watched ==
  Consolidates => \A w \in Workers : run[w].pc \in Talking => InStep(run[w])

LEMMA Drains ==
  ASSUME options \in Options, Consolidates, NEW k \in Nat
  PROVE  /\ Since(k) \in 0..k /\ 2 * Since(k) + 2 <= Batch(options)
         /\ Since(k + 1) = 0 => 2 * Since(k) + 2 = Batch(options)
         /\ Since(k + 1) # 0 => Since(k + 1) = Since(k) + 1
<1>1. BatchTurns \in Nat \ {0}
  BY TrajectoryAssumption
<1>2. CASE options.consolidation = "quiescent"
  BY <1>2 DEF Since, Batch
<1>3. CASE options.consolidation # "quiescent"
  <2> DEFINE r == k % BatchTurns
             s == (k + 1) % BatchTurns
  <2>1. r \in 0..(BatchTurns - 1) /\ r <= k /\ s = IF r = BatchTurns - 1 THEN 0 ELSE r + 1
    BY <1>1, NextRemainder
  <2>2. Since(k) = r /\ Since(k + 1) = s /\ Batch(options) = 2 * BatchTurns
    BY <1>3 DEF Since, Batch
  <2> HIDE DEF r, s
  <2> QED
    BY <1>1, <2>1, <2>2
<1> QED
  BY <1>2, <1>3

LEMMA DueAtADrain ==
  ASSUME options \in Options, Consolidates, NEW t
  PROVE  Due(t) <=> Since(t.turn) = 0
<1>1. options.consolidation \in {"quiescent", "batched"} /\ InProcess
  BY OptionsAssumption DEF Consolidates
<1> QED
  BY <1>1 DEF Due, Since

LEMMA LeftAndBatch ==
  ASSUME options \in Options
  PROVE  /\ Batch(options) \in Nat /\ Left(options) \in Nat /\ Threshold \in Nat
         /\ Batch(options) < Threshold =>
              \A d \in Nat : d < Threshold /\ d % 2 = 0 => d <= Left(options)
<1>1. BatchTurns \in Nat /\ Threshold \in Nat \ {0}
  BY TrajectoryAssumption
<1>2. Batch(options) \in Nat
  BY <1>1 DEF Batch
<1>3. \A d \in Nat : d < Threshold /\ d % 2 = 0 => d <= 2 * ((Threshold - 1) \div 2)
  BY <1>1
<1>4. (Threshold - 1) \div 2 \in Nat
  BY <1>1
<1> QED
  BY <1>1, <1>2, <1>3, <1>4 DEF Left

(* A turn that asks: its window begins within the summary.                 *)
LEMMA WindowInSummary ==
  ASSUME options \in Options, Consolidates, NEW t, t.pc = "asking", InStep(t),
         Scenario(t).window \in Nat, Scenario(t).window >= Batch(options) + Left(options)
  PROVE  RetainedStart(t) \in 0..t.covered
<1> DEFINE n == t.turn
           window == Scenario(t).window
           start == Positive(2 * n - 1 - window)
           since == Since(n - 1)
<1>1. n \in Nat \ {0} /\ t.covered \in 0..(2 * (n - 1 - since)) /\ t.covered % 2 = 0
      /\ 2 * (n - 1 - since) - t.covered <= Left(options)
  BY DEF InStep, KeptUp, Spoken, DrainedAt
<1>2. since \in 0..(n - 1) /\ 2 * since + 2 <= Batch(options)
  <2> HIDE DEF n
  <2>1. n - 1 \in Nat
    BY <1>1
  <2> QED
    BY <2>1, Drains
<1>3. RetainedStart(t) = start + (start % 2)
  BY DEF RetainedStart
<1>4. Batch(options) \in Nat /\ Left(options) \in Nat
  BY LeftAndBatch
<1> HIDE DEF n, since, window
<1>5. t.covered \in Nat /\ t.covered >= 2 * n - window
  BY <1>1, <1>2, <1>4 DEF window
<1>6. window \in Nat
  BY DEF window
<1>7. \A m \in Nat : m % 2 \in {0, 1}
  OBVIOUS
<1>8. CASE 2 * n - 1 - window > 0
  <2>1. start \in Nat /\ start < t.covered
    BY <1>1, <1>5, <1>6, <1>8 DEF Positive
  <2> HIDE DEF start
  <2>2. \A m, c \in Nat : m < c => m + (m % 2) \in 0..c
    BY <1>7
  <2> QED
    BY <1>3, <1>5, <2>1, <2>2
<1>9. CASE ~(2 * n - 1 - window > 0)
  <2>1. start = 0
    BY <1>9 DEF Positive
  <2> HIDE DEF start
  <2> QED
    BY <1>3, <1>5, <2>1
<1> QED
  BY <1>8, <1>9

(* What the turn enqueues then: never the exchange alone.                  *)
Refresh(t) == [first |-> t.covered, size |-> 2 * t.turn - t.covered, refresh |-> TRUE]

OnlyRefreshes(t) ==
  \/ Enqueued(t) = Append(t.queue, Refresh(t))
  \/ Enqueued(t) = t.queue /\ 2 * t.turn - t.covered < Threshold

LEMMA EnqueuedInStep ==
  ASSUME options \in Options, Consolidates, NEW t, t.pc = "asking", InStep(t),
         Scenario(t).window \in Nat, Scenario(t).window >= Batch(options) + Left(options)
  PROVE  OnlyRefreshes(t)
<1> DEFINE n == t.turn
           offset == RetainedStart(t)
           u == Exchange(t)
           job == Refresh(t)
<1>1. n \in Nat \ {0} /\ t.covered \in 0..(2 * n - 2)
  <2>1. /\ n \in Nat \ {0} /\ t.covered \in 0..(2 * (n - 1 - Since(n - 1)))
    BY DEF InStep, KeptUp, Spoken, DrainedAt
  <2> DEFINE since == Since(n - 1)
  <2> HIDE DEF n
  <2>2. n - 1 \in Nat
    BY <2>1
  <2>3. since \in 0..(n - 1)
    BY <2>2, Drains
  <2> HIDE DEF since
  <2> QED
    BY <2>1, <2>3 DEF since
<1>2. offset \in 0..t.covered
  BY WindowInSummary
<1>3. u.from = 2 * n - 2 /\ u.latest = 2 /\ u.offset = offset /\ u.claimed = t.covered
  BY DEF Exchange
<1> HIDE DEF n, offset, u
<1>4. Conversation(u) = 2 * n - offset /\ ConversationEnd(u) = 2 * n
  BY <1>1, <1>2, <1>3 DEF Conversation, ConversationEnd
<1>5. MaxSafeCovered(u) = 2 * n - 2
  BY <1>1, <1>2, <1>3, <1>4 DEF MaxSafeCovered
<1>6. ~HasGap(u)
  BY <1>1, <1>2, <1>3, <1>5 DEF HasGap
<1>7. RefreshRun(u) = [first |-> t.covered, size |-> 2 * n - t.covered]
  BY <1>3, <1>4 DEF RefreshRun
<1>8. [first |-> RefreshRun(u).first, size |-> RefreshRun(u).size, refresh |-> TRUE] = job
  BY <1>7 DEF n, Refresh
<1>9. SummaryStale(u) <=> 2 * n - t.covered >= Threshold
  BY <1>7 DEF SummaryStale
<1>10. InProcess
  BY DEF Consolidates
<1> DEFINE memorable == n \in Scenario(t).memorable
<1>11. Enqueued(t) = IF memorable \/ SummaryStale(u) THEN Append(t.queue, job) ELSE t.queue
  BY <1>6, <1>8, <1>10 DEF Enqueued, u, n
<1>12. 2 * n - t.covered < Threshold \/ 2 * n - t.covered >= Threshold
  BY <1>1, LeftAndBatch
<1> HIDE DEF memorable, job
<1> QED
  BY <1>9, <1>11, <1>12 DEF OnlyRefreshes, job, n

(* One more job in the queue.                                              *)
OneMore(taken, queue, job) ==
  LET longer == Append(queue, job)
  IN  /\ longer \in Seq(Jobs)
      /\ \A k \in Pending(taken, longer) :
           (k \in Pending(taken, queue) /\ longer[k] = queue[k]) \/ longer[k] = job
      /\ Len(queue) + 1 \in Pending(taken, longer)
      /\ longer[Len(queue) + 1] = job

LEMMA OneMorePending ==
  ASSUME NEW taken \in Nat, NEW queue \in Seq(Jobs), taken <= Len(queue), NEW job \in Jobs, job.refresh
  PROVE  OneMore(taken, queue, job)
<1> DEFINE longer == Append(queue, job)
<1>1. longer \in Seq(Jobs) /\ Len(longer) = Len(queue) + 1 /\ longer[Len(queue) + 1] = job
      /\ \A k \in 1..Len(queue) : longer[k] = queue[k]
  OBVIOUS
<1>2. Len(queue) \in Nat
  OBVIOUS
<1> HIDE DEF longer
<1>3. ASSUME NEW k \in Pending(taken, longer)
      PROVE  (k \in Pending(taken, queue) /\ longer[k] = queue[k]) \/ longer[k] = job
  <2>1. k \in (taken + 1)..Len(longer) /\ longer[k].refresh
    BY DEF Pending
  <2>2. CASE k = Len(queue) + 1
    BY <1>1, <2>2
  <2>3. CASE k # Len(queue) + 1
    <3>1. k \in (taken + 1)..Len(queue) /\ k \in 1..Len(queue)
      BY <1>1, <1>2, <2>1, <2>3
    <3>2. longer[k] = queue[k]
      BY <1>1, <3>1
    <3> QED
      BY <2>1, <3>1, <3>2 DEF Pending
  <2> QED
    BY <2>2, <2>3
<1>4. Len(queue) + 1 \in Pending(taken, longer)
  BY <1>1, <1>2 DEF Pending
<1> QED
  BY <1>1, <1>3, <1>4 DEF OneMore, longer

LEMMA KeptUpAnswered ==
  ASSUME options \in Options, Consolidates, NEW t, t.pc = "asking", InStep(t),
         Scenario(t).window \in Nat, Scenario(t).window >= Batch(options) + Left(options)
  PROVE  KeptUp(IF Due(t) THEN "draining" ELSE "checking", t.turn, t.covered, t.taken, Enqueued(t))
<1> DEFINE n == t.turn
           c == t.covered
           since == Since(n - 1)
           queue == Enqueued(t)
           job == Refresh(t)
           Kept(q) == \A k \in Pending(t.taken, q) :
                        End(q[k]) \in 0..(2 * n) /\ End(q[k]) % 2 = 0
           grown == \E k \in Pending(t.taken, queue) : End(queue[k]) = 2 * n
<1>1. /\ n \in Nat \ {0} /\ t.queue \in Seq(Jobs) /\ t.taken \in 0..Len(t.queue)
      /\ c \in 0..(2 * (n - 1 - since)) /\ c % 2 = 0
      /\ Kept(t.queue)
      /\ 2 * (n - 1 - since) - c <= Left(options)
  BY DEF InStep, KeptUp, Spoken, DrainedAt
<1>2. queue = Append(t.queue, job) \/ (queue = t.queue /\ 2 * n - c < Threshold)
  <2>1. OnlyRefreshes(t)
    BY EnqueuedInStep
  <2> QED
    BY <2>1 DEF OnlyRefreshes
<1>3. since \in 0..(n - 1) /\ (Since(n) = 0 => 2 * since + 2 = Batch(options))
      /\ (Since(n) # 0 => Since(n) = since + 1)
  <2> HIDE DEF n
  <2>1. n - 1 \in Nat /\ n = (n - 1) + 1
    BY <1>1
  <2> DEFINE m == n - 1
  <2>2. m \in Nat /\ n = m + 1
    BY <2>1
  <2> HIDE DEF m
  <2>3. /\ Since(m) \in 0..m
        /\ Since(m + 1) = 0 => 2 * Since(m) + 2 = Batch(options)
        /\ Since(m + 1) # 0 => Since(m + 1) = Since(m) + 1
    BY <2>2, Drains
  <2> QED
    BY <2>2, <2>3 DEF m
<1>4. Due(t) <=> Since(n) = 0
  BY DueAtADrain
<1> HIDE DEF n, c, since, queue
<1>5. c \in 0..(2 * n) /\ 2 * n - c \in Nat /\ (2 * n - c) % 2 = 0
  <2>1. c \in 0..(2 * n)
    BY <1>1, <1>3
  <2>2. \A a, b \in Nat : b % 2 = 0 => (2 * a - b) % 2 = 0
    OBVIOUS
  <2> QED
    BY <1>1, <2>1, <2>2
<1>6. job \in Jobs /\ job.refresh /\ End(job) = 2 * n
  BY <1>1, <1>5 DEF Jobs, End, Refresh, n, c
<1>7. (2 * n) % 2 = 0 /\ 2 * n \in Nat
  BY <1>1
<1> HIDE DEF job
<1>8. /\ queue \in Seq(Jobs) /\ t.taken \in 0..Len(queue) /\ Kept(queue)
      /\ grown \/ 2 * n - c < Threshold
  <2>1. CASE queue = Append(t.queue, job)
    <3>1. /\ queue \in Seq(Jobs)
          /\ \A k \in Pending(t.taken, queue) :
               (k \in Pending(t.taken, t.queue) /\ queue[k] = t.queue[k]) \/ queue[k] = job
          /\ Len(t.queue) + 1 \in Pending(t.taken, queue)
          /\ queue[Len(t.queue) + 1] = job
      <4> DEFINE longer == Append(t.queue, job)
      <4>1. /\ longer \in Seq(Jobs)
            /\ \A k \in Pending(t.taken, longer) :
                 (k \in Pending(t.taken, t.queue) /\ longer[k] = t.queue[k]) \/ longer[k] = job
            /\ Len(t.queue) + 1 \in Pending(t.taken, longer)
            /\ longer[Len(t.queue) + 1] = job
        <5>1. t.taken \in Nat /\ t.taken <= Len(t.queue)
          BY <1>1
        <5>2. OneMore(t.taken, t.queue, job)
          BY <1>1, <1>6, <5>1, OneMorePending
        <5> QED
          BY <5>2 DEF OneMore
      <4> HIDE DEF longer
      <4>2. queue = longer
        BY <2>1 DEF longer
      <4> QED
        BY <4>1, <4>2
    <3>2. Kept(queue)
      <4> SUFFICES ASSUME NEW k \in Pending(t.taken, queue)
                   PROVE  End(queue[k]) \in 0..(2 * n) /\ End(queue[k]) % 2 = 0
        OBVIOUS
      <4>1. CASE queue[k] = job
        BY <1>6, <1>7, <4>1
      <4>2. CASE k \in Pending(t.taken, t.queue) /\ queue[k] = t.queue[k]
        BY <1>1, <4>2
      <4> QED
        BY <3>1, <4>1, <4>2
    <3>3. t.taken \in 0..Len(queue)
      <4>1. Len(queue) = Len(t.queue) + 1 /\ Len(t.queue) \in Nat
        BY <1>1, <2>1
      <4> QED
        BY <1>1, <4>1
    <3>4. grown
      BY <1>6, <3>1
    <3> QED
      BY <3>1, <3>2, <3>3, <3>4
  <2>2. CASE queue = t.queue /\ 2 * n - c < Threshold
    BY <1>1, <2>2
  <2> QED
    BY <1>2, <2>1, <2>2
<1>9. Batch(options) \in Nat /\ Left(options) \in Nat /\ Threshold \in Nat
  BY LeftAndBatch
<1>10. CASE Since(n) = 0
  <2>1. Spoken("draining", n) = n /\ DrainedAt(n) = 2 * n
    BY <1>1, <1>10 DEF Spoken, DrainedAt
  <2>2. 2 * n - c <= Left(options) \/ grown
    <3>1. CASE 2 * n - c < Threshold
      <4>1. Batch(options) < Threshold
        BY <1>1, <1>3, <1>9, <1>10, <3>1
      <4> QED
        BY <1>5, <3>1, <4>1, LeftAndBatch
    <3> QED
      BY <1>8, <3>1
  <2> HIDE DEF Kept, grown
  <2>3. KeptUp("draining", n, c, t.taken, queue)
    BY <1>1, <1>5, <1>8, <1>10, <2>1, <2>2 DEF KeptUp, Kept, grown
  <2> QED
    BY <1>4, <1>10, <2>3 DEF n, c, queue
<1>11. CASE Since(n) # 0
  <2>1. Spoken("checking", n) = n /\ DrainedAt(n) = 2 * (n - 1 - since)
    BY <1>1, <1>3, <1>11 DEF Spoken, DrainedAt
  <2> HIDE DEF Kept, grown
  <2>2. KeptUp("checking", n, c, t.taken, queue)
    BY <1>1, <1>8, <2>1 DEF KeptUp, Kept
  <2> QED
    BY <1>4, <1>11, <2>2 DEF n, c, queue
<1> QED
  BY <1>10, <1>11

LEMMA KeptUpDraining ==
  ASSUME NEW n, NEW c, NEW taken, NEW queue, KeptUp("draining", n, c, taken, queue),
         taken < Len(queue)
  PROVE  LET job == queue[taken + 1]
             covered == IF job.refresh /\ End(job) > c THEN End(job) ELSE c
         IN  KeptUp("draining", n, covered, taken + 1, queue)
<1> DEFINE job == queue[taken + 1]
           covered == IF job.refresh /\ End(job) > c THEN End(job) ELSE c
<1>1. /\ n \in Nat \ {0} /\ queue \in Seq(Jobs) /\ taken \in 0..Len(queue)
      /\ Since(n) = 0 /\ DrainedAt(Spoken("draining", n)) = 2 * n
      /\ c \in 0..(2 * n) /\ c % 2 = 0
      /\ \A k \in Pending(taken, queue) : End(queue[k]) \in 0..(2 * n) /\ End(queue[k]) % 2 = 0
      /\ 2 * n - c <= Left(options) \/ \E k \in Pending(taken, queue) : End(queue[k]) = 2 * n
  <2>1. n \in Nat \ {0} /\ Since(n) = 0
    BY DEF KeptUp
  <2>2. DrainedAt(Spoken("draining", n)) = 2 * n
    BY <2>1 DEF Spoken, DrainedAt
  <2> QED
    BY <2>1, <2>2 DEF KeptUp
<1>2. Len(queue) \in Nat /\ taken + 1 \in 0..Len(queue)
  BY <1>1
<1>3. \A k \in Pending(taken + 1, queue) : k \in Pending(taken, queue)
  BY <1>1, <1>2 DEF Pending
<1>4. \A k \in Pending(taken, queue) : k = taken + 1 \/ k \in Pending(taken + 1, queue)
  BY <1>1, <1>2 DEF Pending
<1>5. job.refresh => taken + 1 \in Pending(taken, queue)
  BY <1>1, <1>2 DEF Pending
<1>6. taken + 1 \in Pending(taken, queue) => job.refresh
  BY DEF Pending
<1>7. covered \in 0..(2 * n) /\ covered % 2 = 0 /\ c <= covered
  BY <1>1, <1>5
<1>8. (taken + 1 \in Pending(taken, queue) /\ End(job) = 2 * n) => covered = 2 * n
  BY <1>1, <1>6
<1> HIDE DEF covered
<1>9. \/ 2 * n - covered <= Left(options)
      \/ \E k \in Pending(taken + 1, queue) : End(queue[k]) = 2 * n
  <2>0. Left(options) \in Nat
    BY TrajectoryAssumption DEF Left, Batch
  <2>1. CASE 2 * n - c <= Left(options)
    BY <1>1, <1>7, <2>0, <2>1
  <2>2. ASSUME NEW k \in Pending(taken, queue), End(queue[k]) = 2 * n
        PROVE  \/ 2 * n - covered <= Left(options)
               \/ \E j \in Pending(taken + 1, queue) : End(queue[j]) = 2 * n
    <3>1. CASE k = taken + 1
      BY <1>1, <1>8, <2>0, <2>2, <3>1
    <3> QED
      BY <1>4, <2>2, <3>1
  <2> QED
    BY <1>1, <2>1, <2>2
<1>10. \A k \in Pending(taken + 1, queue) : End(queue[k]) \in 0..(2 * n) /\ End(queue[k]) % 2 = 0
  BY <1>1, <1>3
<1> QED
  BY <1>1, <1>2, <1>7, <1>9, <1>10 DEF KeptUp, covered

LEMMA KeptUpDrained ==
  ASSUME NEW n, NEW c, NEW taken, NEW queue, KeptUp("draining", n, c, taken, queue),
         taken = Len(queue)
  PROVE  KeptUp("checking", n, c, taken, queue)
<1>1. queue \in Seq(Jobs)
  BY DEF KeptUp
<1>2. Len(queue) \in Nat
  BY <1>1
<1>3. Pending(taken, queue) = {}
  BY <1>2 DEF Pending
<1>4. Spoken("checking", n) = Spoken("draining", n)
  BY DEF Spoken
<1> QED
  BY <1>3, <1>4 DEF KeptUp

LEMMA KeptUpChecked ==
  ASSUME NEW n, NEW c, NEW taken, NEW queue, KeptUp("checking", n, c, taken, queue)
  PROVE  KeptUp("speaking", n + 1, c, taken, queue)
<1>1. n \in Nat \ {0}
  BY DEF KeptUp
<1>2. Spoken("speaking", n + 1) = n /\ Spoken("checking", n) = n
  BY <1>1 DEF Spoken
<1>3. ASSUME NEW k \in Pending(taken, queue)
      PROVE  End(queue[k]) \in 0..(2 * (n + 1)) /\ End(queue[k]) % 2 = 0
  <2>1. End(queue[k]) \in 0..(2 * n) /\ End(queue[k]) % 2 = 0
    BY DEF KeptUp
  <2> QED
    BY <1>1, <2>1
<1>4. n + 1 \in Nat \ {0}
  BY <1>1
<1> QED
  BY <1>2, <1>3, <1>4 DEF KeptUp

LEMMA KeptUpBeforeASpeech ==
  ASSUME NEW n, NEW c, NEW taken, NEW queue,
         NEW p \in {"seeding", "speaking", "asking"}, NEW q \in {"seeding", "speaking", "asking"},
         KeptUp(p, n, c, taken, queue)
  PROVE  KeptUp(q, n, c, taken, queue)
<1>1. Spoken(p, n) = Spoken(q, n) /\ p # "draining" /\ q # "draining"
  BY DEF Spoken
<1> QED
  BY <1>1 DEF KeptUp

LEMMA KeptUpAtFirst ==
  ASSUME options \in Options, Consolidates
  PROVE  KeptUp("seeding", 1, 0, 0, <<>>)
<1>1. Since(0) = 0
  <2>1. 0 \in Nat /\ Since(0) \in 0..0
    BY Drains
  <2> QED
    BY <2>1
<1>2. Spoken("seeding", 1) = 0 /\ DrainedAt(0) = 0
  BY <1>1 DEF Spoken, DrainedAt
<1>3. Pending(0, <<>>) = {}
  BY DEF Pending
<1>4. <<>> \in Seq(Jobs) /\ Len(<<>>) = 0
  OBVIOUS
<1>5. Left(options) \in Nat
  BY LeftAndBatch
<1> QED
  BY <1>2, <1>3, <1>4, <1>5 DEF KeptUp

LEMMA WindowOfTheSuite ==
  ASSUME IInv, Placed, Consolidates, \A o \in Options : WideWindow(o),
         NEW w \in Workers, run[w] # Idle
  PROVE  /\ Scenario(run[w]).window \in Nat
         /\ Scenario(run[w]).window >= Batch(options) + Left(options)
<1>1. WideWindow(options)
  BY DEF IInv
<1>2. options.consolidation # "none"
  BY DEF Consolidates
<1> QED
  BY <1>1, <1>2, ScenarioOfTheSuite DEF WideWindow, Suite

(* A worker that moves on in step stays watched.                           *)
LEMMA MoveInStep ==
  ASSUME IInv, Watched, NEW w \in Workers, NEW n, Move(w, n), options' = options,
         Consolidates /\ n.pc \in Talking => InStep(n)
  PROVE  Watched'
<1>1. Consolidates' = Consolidates
  BY DEF Consolidates, InProcess
<1>2. ASSUME NEW t, InStep(t)
      PROVE  InStep(t)'
  BY <1>2 DEF InStep, KeptUp, DrainedAt, Since, Left, Batch
<1>3. ASSUME Consolidates, NEW v \in Workers, run'[v].pc \in Talking
      PROVE  InStep(run'[v])
  <2>1. run'[v] = IF v = w THEN n ELSE run[v]
    BY DEF Move, IInv
  <2>2. CASE v = w
    BY <1>3, <2>1, <2>2
  <2>3. CASE v # w
    BY <1>3, <2>1, <2>3 DEF Watched
  <2> QED
    BY <2>2, <2>3
<1>4. ASSUME Consolidates, NEW v \in Workers, run'[v].pc \in Talking
      PROVE  InStep(run[v])'
  <2> DEFINE t == run'[v]
  <2>1. InStep(t)
    BY <1>3, <1>4
  <2> QED
    BY <2>1 DEF InStep, KeptUp, DrainedAt, Since, Left, Batch
<1> QED
  BY <1>1, <1>4 DEF Watched

LEMMA ConverseInStep ==
  ASSUME IInv, Placed, Watched, \A o \in Options : WideWindow(o), NEW w \in Workers, Talk(w)
  PROVE  Watched'
<1> DEFINE t == run[w]
           Onward(n) == Move(w, n) /\ (Consolidates /\ n.pc \in Talking => InStep(n))
<1>1. Recorded(t) /\ t.pc # "idle" /\ t # Idle
  <2>1. t.pc \in Steps
    BY DEF Talk, Converse, Seed, Speak, Answer, AnswerFails, Drain, DrainFails, Drained, Check, At,
           Draining, Steps
  <2>2. t.pc # "idle"
    BY <2>1 DEF Steps
  <2> QED
    BY <2>2, NotIdle DEF Idle
<1>2. PICK V : t \in Trajectories(V)
  BY <1>1 DEF Recorded
<1>3. options' = options /\ options \in Options
  BY DEF Talk, IInv
<1>4. Consolidates /\ t.pc \in Talking => KeptUp(t.pc, t.turn, t.covered, t.taken, t.queue)
  BY DEF Watched, InStep
<1>5. ASSUME Seed(w)
      PROVE  \E n : Onward(n)
  <2> DEFINE n1 == [t EXCEPT !.pc = "speaking"]
             n2 == [t EXCEPT !.pc = "speaking", !.seeded = TRUE]
             n3 == [t EXCEPT !.pc = "closing", !.error = TRUE]
  <2>1. t.pc = "seeding" /\ (Move(w, n1) \/ Move(w, n2) \/ Move(w, n3))
    BY <1>5 DEF Seed, At
  <2>2. \A n \in {n1, n2} : /\ n.pc = "speaking" /\ n.turn = t.turn /\ n.covered = t.covered
                            /\ n.taken = t.taken /\ n.queue = t.queue
    BY <1>2 DEF Trajectories
  <2>3. n3.pc \notin Talking
    BY <1>2 DEF Trajectories, Talking
  <2> HIDE DEF n1, n2, n3
  <2>4. ASSUME Consolidates, NEW n \in {n1, n2}
        PROVE  InStep(n)
    <3>1. KeptUp("seeding", t.turn, t.covered, t.taken, t.queue)
      BY <1>4, <2>1, <2>4 DEF Talking
    <3>2. KeptUp("speaking", t.turn, t.covered, t.taken, t.queue)
      BY <3>1, KeptUpBeforeASpeech
    <3> QED
      BY <2>2, <3>2 DEF InStep
  <2> QED
    BY <2>1, <2>3, <2>4
<1>6. ASSUME Speak(w)
      PROVE  \E n : Onward(n)
  <2> DEFINE n1 == [t EXCEPT !.pc = "asking"]
             n2 == [t EXCEPT !.pc = "asking", !.leaving = TRUE]
             n3 == [t EXCEPT !.pc = "closing", !.error = TRUE]
  <2>1. t.pc = "speaking" /\ (Move(w, n1) \/ Move(w, n2) \/ Move(w, n3))
    BY <1>6 DEF Speak, At
  <2>2. \A n \in {n1, n2} : /\ n.pc = "asking" /\ n.turn = t.turn /\ n.covered = t.covered
                            /\ n.taken = t.taken /\ n.queue = t.queue
    BY <1>2 DEF Trajectories
  <2>3. n3.pc \notin Talking
    BY <1>2 DEF Trajectories, Talking
  <2> HIDE DEF n1, n2, n3
  <2>4. ASSUME Consolidates, NEW n \in {n1, n2}
        PROVE  InStep(n)
    <3>1. KeptUp("speaking", t.turn, t.covered, t.taken, t.queue)
      BY <1>4, <2>1, <2>4 DEF Talking
    <3>2. KeptUp("asking", t.turn, t.covered, t.taken, t.queue)
      BY <3>1, KeptUpBeforeASpeech
    <3> QED
      BY <2>2, <3>2 DEF InStep
  <2> QED
    BY <2>1, <2>3, <2>4
<1>7. ASSUME Answer(w)
      PROVE  \E n : Onward(n)
  <2> DEFINE next == IF Due(t) THEN "draining" ELSE "checking"
  <2>1. PICK reply : Move(w, [t EXCEPT !.pc = next, !.queue = Enqueued(t), !.reply = reply])
    BY <1>7 DEF Answer
  <2> DEFINE n == [t EXCEPT !.pc = next, !.queue = Enqueued(t), !.reply = reply]
  <2>2. /\ n.pc = next /\ n.turn = t.turn /\ n.covered = t.covered
        /\ n.taken = t.taken /\ n.queue = Enqueued(t)
    BY <1>2 DEF Trajectories
  <2>3. ASSUME Consolidates
        PROVE  InStep(n)
    <3>1. t.pc = "asking" /\ InStep(t)
      BY <1>4, <1>7, <2>3 DEF Answer, At, Talking, InStep
    <3>2. Scenario(t).window \in Nat /\ Scenario(t).window >= Batch(options) + Left(options)
      BY <1>1, <2>3, WindowOfTheSuite
    <3>3. KeptUp(next, t.turn, t.covered, t.taken, Enqueued(t))
      BY <1>3, <2>3, <3>1, <3>2, KeptUpAnswered
    <3> HIDE DEF n, next
    <3> QED
      BY <2>2, <3>3 DEF InStep
  <2> HIDE DEF n
  <2> QED
    BY <2>1, <2>3 DEF n
<1>8. ASSUME AnswerFails(w)
      PROVE  \E n : Onward(n)
  <2>1. PICK queue : Move(w, [t EXCEPT !.pc = "closing", !.error = TRUE, !.queue = queue])
    BY <1>8 DEF AnswerFails
  <2>2. Onward([t EXCEPT !.pc = "closing", !.error = TRUE, !.queue = queue])
    BY <1>2, <2>1 DEF Trajectories, Talking
  <2> QED
    BY <2>2
<1>9. ASSUME Drain(w)
      PROVE  \E n : Onward(n)
  <2> DEFINE job == t.queue[t.taken + 1]
             covered == IF job.refresh /\ End(job) > t.covered THEN End(job) ELSE t.covered
             n == [t EXCEPT !.taken = @ + 1, !.done = Append(@, job), !.covered = covered]
  <2>1. Move(w, n) /\ t.pc \in {"draining", "closing"} /\ t.taken < Len(t.queue)
    BY <1>9 DEF Drain, Draining, At, End
  <2>2. /\ n.pc = t.pc /\ n.turn = t.turn /\ n.covered = covered
        /\ n.taken = t.taken + 1 /\ n.queue = t.queue
    BY <1>2 DEF Trajectories
  <2>3. ASSUME Consolidates, n.pc \in Talking
        PROVE  InStep(n)
    <3>1. KeptUp("draining", t.turn, t.covered, t.taken, t.queue) /\ n.pc = "draining"
      BY <1>4, <2>1, <2>2, <2>3 DEF Talking
    <3>2. KeptUp("draining", t.turn, covered, t.taken + 1, t.queue)
      BY <2>1, <3>1, KeptUpDraining
    <3> HIDE DEF n, covered
    <3> QED
      BY <2>2, <3>1, <3>2 DEF InStep
  <2> HIDE DEF n
  <2> QED
    BY <2>1, <2>3
<1>10. ASSUME DrainFails(w)
      PROVE  \E n : Onward(n)
  <2> DEFINE n == [t EXCEPT !.taken = @ + 1, !.error = TRUE, !.pc = AfterDrain(t)]
  <2>1. Move(w, n)
    BY <1>10 DEF DrainFails
  <2>2. n.pc \notin Talking
    BY <1>2 DEF Trajectories, AfterDrain, Talking
  <2> QED
    BY <2>1, <2>2
<1>11. ASSUME Drained(w)
      PROVE  \E n : Onward(n)
  <2>1. CASE /\ t.pc = "draining" /\ t.taken = Len(t.queue)
             /\ Move(w, [t EXCEPT !.pc = "checking"])
    <3> DEFINE n == [t EXCEPT !.pc = "checking"]
    <3>1. /\ n.pc = "checking" /\ n.turn = t.turn /\ n.covered = t.covered
          /\ n.taken = t.taken /\ n.queue = t.queue
      BY <1>2 DEF Trajectories
    <3>2. ASSUME Consolidates
          PROVE  InStep(n)
      <4>1. KeptUp("draining", t.turn, t.covered, t.taken, t.queue)
        BY <1>4, <2>1, <3>2 DEF Talking
      <4>2. KeptUp("checking", t.turn, t.covered, t.taken, t.queue)
        BY <2>1, <4>1, KeptUpDrained
      <4> HIDE DEF n
      <4> QED
        BY <3>1, <4>2 DEF InStep
    <3> HIDE DEF n
    <3> QED
      BY <2>1, <3>2 DEF n
  <2>2. CASE Move(w, [t EXCEPT !.pc = "assessing"])
    <3>1. Onward([t EXCEPT !.pc = "assessing"])
      BY <1>2, <2>2 DEF Trajectories, Talking
    <3> QED
      BY <3>1
  <2> QED
    BY <1>11, <2>1, <2>2 DEF Drained, At
<1>12. ASSUME Check(w)
      PROVE  \E n : Onward(n)
  <2> DEFINE refused == [t EXCEPT !.pc = "closing", !.error = TRUE]
             next == IF t.leaving \/ t.turn = Requested(t) THEN "closing" ELSE "speaking"
             n == [t EXCEPT !.pc = next, !.turn = @ + 1, !.metadata = t.reply.metadata,
                            !.transcript = Append(@, [offset |-> RetainedStart(t),
                                                      text |-> t.reply.text,
                                                      sources |-> t.reply.sources])]
  <2>1. t.pc = "checking" /\ (Move(w, refused) \/ Move(w, n))
    BY <1>12 DEF Check, At
  <2>2. refused.pc \notin Talking
    BY <1>2 DEF Trajectories, Talking
  <2>3. /\ n.pc = next /\ n.turn = t.turn + 1 /\ n.covered = t.covered
        /\ n.taken = t.taken /\ n.queue = t.queue
    BY <1>2 DEF Trajectories
  <2>4. ASSUME Consolidates, n.pc \in Talking
        PROVE  InStep(n)
    <3>1. KeptUp("checking", t.turn, t.covered, t.taken, t.queue) /\ n.pc = "speaking"
      BY <1>4, <2>1, <2>3, <2>4 DEF Talking
    <3>2. KeptUp("speaking", t.turn + 1, t.covered, t.taken, t.queue)
      BY <3>1, KeptUpChecked
    <3> HIDE DEF n, next
    <3> QED
      BY <2>3, <3>1, <3>2 DEF InStep
  <2> HIDE DEF n, refused
  <2> QED
    BY <2>1, <2>2, <2>4
<1>13. \E n : Onward(n)
  BY <1>5, <1>6, <1>7, <1>8, <1>9, <1>10, <1>11, <1>12 DEF Talk, Converse
<1> QED
  BY <1>3, <1>13, MoveInStep

LEMMA WatchedStays ==
  ASSUME IInv, Placed, Watched, \A o \in Options : WideWindow(o), [EvaluationsNext]_vars
  PROVE  Watched'
<1>1. ASSUME NEW w \in Workers, Take(w), Move(w, Fresh(cursor + 1, Work[cursor + 1]))
      PROVE  Watched'
  <2> DEFINE n == Fresh(cursor + 1, Work[cursor + 1])
  <2>1. options' = options /\ options \in Options
    BY <1>1 DEF Take, IInv
  <2>2. /\ n.pc = "seeding" /\ n.turn = 1 /\ n.covered = 0 /\ n.taken = 0 /\ n.queue = <<>>
    BY DEF Fresh
  <2> HIDE DEF n
  <2>3. Consolidates => InStep(n)
    BY <2>1, <2>2, KeptUpAtFirst DEF InStep
  <2> QED
    BY <1>1, <2>1, <2>3, MoveInStep DEF n
<1>2. CASE \E w \in Workers : Talk(w)
  BY <1>2, ConverseInStep
<1>3. ASSUME NEW w \in Workers, Assess(w)
      PROVE  Watched'
  <2>1. Move(w, Idle) /\ options' = options
    BY <1>3 DEF Assess, Store
  <2>2. Idle.pc \notin Talking
    BY DEF Idle, Talking
  <2> QED
    BY <2>1, <2>2, MoveInStep
<1>4. ASSUME UNCHANGED <<options, run>>
      PROVE  Watched'
  BY <1>4 DEF Watched, Consolidates, InProcess, InStep, KeptUp, DrainedAt, Since, Left, Batch
<1>5. CASE \/ \E w \in Workers : (Take(w) /\ UNCHANGED run) \/ WriteFails(w)
           \/ Report \/ Prepare \/ Submit \/ Aggregate \/ UNCHANGED vars
  <2>1. UNCHANGED <<options, run>>
    BY <1>5 DEF Take, Report, Prepare, Submit, Aggregate, vars, WriteFails, pool
  <2> QED
    BY <1>4, <2>1
<1>6. ASSUME NEW w \in Workers, Take(w)
      PROVE  UNCHANGED run \/ Move(w, Fresh(cursor + 1, Work[cursor + 1]))
  BY <1>6 DEF Take
<1> QED
  BY <1>1, <1>2, <1>3, <1>5, <1>6 DEF EvaluationsNext

(* Where every window holds the messages between two drains and those that *)
(* a drain may leave, nothing a request leaves out is missing from the      *)
(* summary the Agent reads, however long the conversation and wherever it   *)
(* fails (retainChatHistory of target.ts, shouldEnqueue of the policy).     *)
THEOREM NoMessageIsLost ==
  ASSUME \A o \in Options : WideWindow(o)
  PROVE  EvaluationsSpec => []NothingFallsBetween
<1>1. EvaluationsInit => Watched
  <2>1. Idle.pc \notin Talking
    BY DEF Idle, Talking
  <2> QED
    BY <2>1 DEF EvaluationsInit, Watched
<1>2. IInv /\ Placed /\ Watched /\ [EvaluationsNext]_vars => IInv' /\ Placed' /\ Watched'
  BY Inductive, PlacedStays, WatchedStays
<1>3. IInv /\ Placed /\ Watched => NothingFallsBetween
  <2> SUFFICES ASSUME IInv, Placed, Watched, NEW w \in Workers, At(w, "asking"), Consolidates
               PROVE  RetainedStart(run[w]) <= run[w].covered
    BY DEF NothingFallsBetween
  <2>1. run[w].pc = "asking" /\ run[w] # Idle
    BY DEF At, Idle
  <2>2. InStep(run[w]) /\ options \in Options
    BY <2>1 DEF Watched, Talking, IInv
  <2>3. RetainedStart(run[w]) \in 0..run[w].covered
    BY <2>1, <2>2, WindowOfTheSuite, WindowInSummary
  <2>4. run[w].covered \in Nat
    BY <2>2 DEF InStep, KeptUp
  <2> QED
    BY <2>3, <2>4
<1> QED
  BY Initially, PlacedAtFirst, <1>1, <1>2, <1>3, PTL DEF EvaluationsSpec


=============================================================================
