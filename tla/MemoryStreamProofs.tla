------------------------- MODULE MemoryStreamProofs -------------------------
(***************************************************************************)
(* What MemoryStream.cfg checks with two jobs and two consolidations,      *)
(* proved for any jobs, consolidations, contents and similarities, any     *)
(* threshold and any number of failures.                                   *)
(***************************************************************************)
EXTENDS MemoryStream, FiniteSetTheorems, SequenceTheorems, WellFoundedInduction, TLAPS

-----------------------------------------------------------------------------
(* Induction on the naturals, stated of a set instead of a predicate.      *)

LEMMA LeastNatural ==
  ASSUME NEW T, T \subseteq Nat, T # {}
  PROVE  \E x \in T : \A y \in T : x <= y
<1> DEFINE less == {ss \in Nat \X Nat : ss[1] < ss[2]}
<1>1. OpToRel(<, Nat) = less
  BY DEF OpToRel
<1>2. IsWellFoundedOn(less, Nat)
  BY <1>1, NatLessThanWellFounded
<1>3. PICK x \in T : \A y \in T : ~(<<y, x>> \in less)
  <2> HIDE DEF less
  <2> QED
    BY <1>2, WFMin
<1>4. ASSUME NEW y \in T
      PROVE  x <= y
  <2>1. x \in Nat /\ y \in Nat /\ <<y, x>>[1] = y /\ <<y, x>>[2] = x
    OBVIOUS
  <2>2. ~(y < x)
    BY <1>3, <2>1
  <2> QED
    BY <2>1, <2>2
<1> QED
  BY <1>4

LEMMA NaturalInduction ==
  ASSUME NEW S, 0 \in S, \A n \in Nat : n \in S => n + 1 \in S
  PROVE  Nat \subseteq S
<1> DEFINE T == Nat \ S
<1>1. SUFFICES ASSUME T # {} PROVE FALSE
  OBVIOUS
<1>2. PICK x \in T : \A y \in T : x <= y
  BY <1>1, LeastNatural
<1>3. x # 0 /\ x - 1 \in Nat /\ x - 1 \notin T
  BY <1>2
<1> QED
  BY <1>3

-----------------------------------------------------------------------------
(* Points.                                                                 *)

LEMMA PointsAreFinite ==
  ASSUME NEW es, IsFiniteSet(es)
  PROVE  IsFiniteSet(Points(es)) /\ Worth(es) \in Nat
<1>1. IsFiniteSet(1 .. 10)
  <2>1. \A a, b \in Int : IsFiniteSet(a .. b)
    BY FS_Interval
  <2>2. 1 \in Int /\ 10 \in Int
    OBVIOUS
  <2> QED
    BY <2>1, <2>2, Zenon
<1>2. IsFiniteSet(es \X (1 .. 10))
  BY <1>1, FS_Product
<1>3. Points(es) \in SUBSET (es \X (1 .. 10))
  BY DEF Points
<1>4. IsFiniteSet(Points(es))
  BY <1>2, <1>3, FS_Subset
<1> QED
  BY <1>4, FS_CardinalityType DEF Worth

LEMMA NothingIsWorthNothing == Worth({}) = 0
<1>1. Points({}) = {}
  BY DEF Points
<1> QED
  BY <1>1, FS_EmptySet DEF Worth

(* What two disjoint sets of rows are worth together.                      *)
LEMMA WorthAdds ==
  ASSUME NEW A, NEW B, IsFiniteSet(A), IsFiniteSet(B), A \cap B = {}
  PROVE  Worth(A \cup B) = Worth(A) + Worth(B)
<1>1. Points(A \cup B) = Points(A) \cup Points(B)
  BY DEF Points
<1>2. Points(A) \cap Points(B) = {}
  BY DEF Points
<1>3. IsFiniteSet(Points(A)) /\ IsFiniteSet(Points(B)) /\ Worth(A) \in Nat /\ Worth(B) \in Nat
  BY PointsAreFinite
<1> DEFINE P == Points(A)
           Q == Points(B)
<1>4. Cardinality(P \cup Q) = Cardinality(P) + Cardinality(Q) - Cardinality(P \cap Q)
  <2> HIDE DEF P, Q
  <2> QED
    BY <1>3, FS_Union DEF P, Q
<1>5. Cardinality(P \cap Q) = 0
  BY <1>2, FS_EmptySet
<1>6. Worth(A \cup B) = Cardinality(P \cup Q)
  BY <1>1, Zenon DEF Worth
<1>7. Worth(A) = Cardinality(P) /\ Worth(B) = Cardinality(Q)
  BY DEF Worth
<1> HIDE DEF P, Q
<1> QED
  BY <1>3, <1>4, <1>5, <1>6, <1>7

LEMMA WorthGrows ==
  ASSUME NEW A, NEW B, IsFiniteSet(B), A \subseteq B
  PROVE  Worth(A) <= Worth(B) /\ Worth(A) \in Nat /\ Worth(B) \in Nat
<1>1. IsFiniteSet(A) /\ IsFiniteSet(B \ A)
  BY FS_Subset
<1>2. Worth(A \cup (B \ A)) = Worth(A) + Worth(B \ A)
  BY <1>1, WorthAdds
<1>3. A \cup (B \ A) = B
  OBVIOUS
<1>4. Worth(A) \in Nat /\ Worth(B \ A) \in Nat
  BY <1>1, PointsAreFinite
<1>5. Worth(B) = Worth(A) + Worth(B \ A)
  BY <1>2, <1>3, Zenon
<1> QED
  BY <1>4, <1>5

-----------------------------------------------------------------------------
(* The survivors of a batch.                                               *)

(* The function that Survivors defines by recursion does satisfy it.       *)
Kept(contents, k) ==
  CHOOSE g : g = [i \in 0 .. Len(contents) |->
    IF i = 0 THEN <<>>
    ELSE IF \/ \E e \in entries : e.kind = k /\ <<e.content, contents[i]>> \in Similar
            \/ \E n \in DOMAIN g[i - 1] : <<g[i - 1][n], contents[i]>> \in Similar
         THEN g[i - 1] ELSE Append(g[i - 1], contents[i])]

LEMMA KeepingIsDefined ==
  ASSUME NEW contents \in Seq(Contents), NEW k
  PROVE  /\ Kept(contents, k)[0] = <<>>
         /\ \A i \in 1 .. Len(contents) :
              LET s == Kept(contents, k)[i - 1] IN
                Kept(contents, k)[i] =
                  IF \/ \E e \in entries : e.kind = k /\ <<e.content, contents[i]>> \in Similar
                     \/ \E n \in DOMAIN s : <<s[n], contents[i]>> \in Similar
                  THEN s ELSE Append(s, contents[i])
<1> DEFINE Drops(s, i) == \/ \E e \in entries : e.kind = k /\ <<e.content, contents[i]>> \in Similar
                          \/ \E n \in DOMAIN s : <<s[n], contents[i]>> \in Similar
           Next1(s, i) == IF Drops(s, i) THEN s ELSE Append(s, contents[i])
           Is(g, m) == g = [i \in 0 .. m |-> IF i = 0 THEN <<>> ELSE Next1(g[i - 1], i)]
           Defined == {m \in Nat : \E g : Is(g, m)}
           kept == Kept(contents, k)
<1>1. 0 \in Defined
  <2> DEFINE g == [i \in 0 .. 0 |-> <<>>]
  <2>1. Is(g, 0)
    OBVIOUS
  <2> HIDE DEF Is
  <2> QED
    BY <2>1
<1>2. ASSUME NEW m \in Nat, m \in Defined
      PROVE  m + 1 \in Defined
  <2>1. PICK g : Is(g, m)
    BY <1>2
  <2> HIDE DEF Next1
  <2> DEFINE h == [i \in 0 .. m + 1 |-> IF i = m + 1 THEN Next1(g[m], m + 1) ELSE g[i]]
  <2>2. ASSUME NEW i \in 0 .. m + 1
        PROVE  h[i] = IF i = 0 THEN <<>> ELSE Next1(h[i - 1], i)
    <3>1. CASE i = m + 1
      <4>1. h[i - 1] = g[m]
        BY <3>1
      <4> QED
        BY <3>1, <4>1
    <3>2. CASE i # m + 1
      <4>1. i \in 0 .. m /\ h[i] = g[i] /\ (i # 0 => i - 1 \in 0 .. m /\ h[i - 1] = g[i - 1])
        BY <3>2
      <4> HIDE DEF h
      <4> QED
        BY <2>1, <4>1
    <3> QED
      BY <3>1, <3>2
  <2>3. Is(h, m + 1)
    BY <2>2
  <2> HIDE DEF Is
  <2> QED
    BY <2>3
<1>3. Nat \subseteq Defined
  <2> HIDE DEF Defined
  <2> QED
    BY <1>1, <1>2, NaturalInduction
<1>4. Len(contents) \in Nat
  OBVIOUS
<1>5. \E g : Is(g, Len(contents))
  BY <1>3, <1>4
<1>6. kept = CHOOSE g : Is(g, Len(contents))
  BY DEF Kept
<1> HIDE DEF kept
<1>7. Is(kept, Len(contents))
  <2> HIDE DEF Is
  <2> QED
    BY <1>5, <1>6
<1>8. kept[0] = <<>>
  <2>1. 0 \in 0 .. Len(contents)
    BY <1>4
  <2> QED
    BY <1>7, <2>1
<1>9. ASSUME NEW i \in 1 .. Len(contents)
      PROVE  kept[i] = Next1(kept[i - 1], i)
  <2>1. i \in 0 .. Len(contents) /\ i # 0
    BY <1>4
  <2> HIDE DEF Next1
  <2> QED
    BY <1>7, <2>1
<1> QED
  BY <1>8, <1>9 DEF kept

-----------------------------------------------------------------------------
(* The inductive invariant. Its parts are named for what they say of the   *)
(* store and of one execution.                                             *)

Steps == {"idle", "extracting", "looking", "comparing", "storing", "rereading",
          "crediting", "budgeting", "reflecting", "reflected", "restoring"}
Rows == [job : Jobs, kind : Kinds, index : Nat \ {0}, content : Contents]

Shape ==
  /\ exclusive \in BOOLEAN
  /\ entries \subseteq Rows /\ IsFiniteSet(entries)
  /\ credited \subseteq Jobs /\ score \in Int
  /\ blank \subseteq Consolidators /\ failures \in 0..MaxFailures
  /\ pc \in [Consolidators -> Steps]
  /\ job \in [Consolidators -> Jobs \cup {NoJob}]
  /\ kind \in [Consolidators -> Kinds]
  /\ batch \in [Consolidators -> Seq(Contents)]
  /\ rows \in [Consolidators -> SUBSET entries]

(* What an execution holds at each step. It observes until it has consumed *)
(* a budget, and it holds rows only where it is about to use them.         *)
Coherent(c) ==
  /\ (job[c] = NoJob) <=> (pc[c] = "idle")
  /\ batch[c] # <<>> <=> pc[c] \in {"looking", "comparing", "storing"}
  /\ \A e \in rows[c] : e.job = job[c] /\ e.kind = kind[c]
  /\ pc[c] \in {"idle", "extracting", "crediting", "budgeting"} => kind[c] = "observation"
  /\ pc[c] \in {"reflecting", "reflected", "restoring"} => kind[c] = "reflection"
  /\ rows[c] # {} => pc[c] \in {"crediting", "reflected"}
  /\ pc[c] = "crediting" => rows[c] # {}

(* Whoever reflects has a budget that is spent.                            *)
Reflecting == {c \in Consolidators : kind[c] = "reflection"}
Paid == /\ IsFiniteSet(Reflecting)
        /\ spent \in Nat /\ Cardinality(Reflecting) <= spent

(* Only a job with observations is credited.                               *)
Earned == \A j \in credited : RowsOf(j, "observation") # {}

Alone == exclusive => \A c, d \in Consolidators : pc[c] # "idle" /\ pc[d] # "idle" => c = d

(* A batch that may be stored: no item like a row of the kind, none like   *)
(* another item.                                                           *)
Clear(s, k) ==
  /\ \A i \in DOMAIN s, e \in entries : e.kind = k => <<e.content, s[i]>> \notin Similar
  /\ \A i, n \in DOMAIN s : i # n => <<s[i], s[n]>> \notin Similar

(* What a lone execution has read is still so when it is used.             *)
Fresh(c) ==
  exclusive =>
    /\ pc[c] # "rereading"
    /\ pc[c] \in {"comparing", "storing"} => RowsOf(job[c], kind[c]) = {}
    /\ pc[c] = "storing" => Clear(batch[c], kind[c])
    /\ pc[c] = "crediting" => rows[c] = RowsOf(job[c], "observation")

Held == \A c \in Consolidators : Coherent(c) /\ Fresh(c)

IInv == /\ Shape /\ Held /\ Paid /\ Earned /\ Alone
        /\ NoDuplicates /\ BudgetBalances /\ RetriesResume

-----------------------------------------------------------------------------
(* What is left of a batch may be stored.                                  *)
LEMMA SurvivorsAreClear ==
  ASSUME NEW contents \in Seq(Contents), NEW k
  PROVE  Survivors(contents, k) \in Seq(Contents) /\ Clear(Survivors(contents, k), k)
<1> DEFINE kept == Kept(contents, k)
           Good(s) == s \in Seq(Contents) /\ Clear(s, k)
           Reached == {m \in Nat : m <= Len(contents) => Good(kept[m])}
<1>1. Survivors(contents, k) = kept[Len(contents)]
  BY DEF Survivors, Kept
<1>2. /\ kept[0] = <<>>
      /\ \A i \in 1 .. Len(contents) :
           kept[i] = IF \/ \E e \in entries : e.kind = k /\ <<e.content, contents[i]>> \in Similar
                        \/ \E n \in DOMAIN kept[i - 1] : <<kept[i - 1][n], contents[i]>> \in Similar
                     THEN kept[i - 1] ELSE Append(kept[i - 1], contents[i])
  BY KeepingIsDefined
<1> HIDE DEF kept
<1>3. 0 \in Reached
  <2>1. Clear(<<>>, k) /\ <<>> \in Seq(Contents)
    BY DEF Clear
  <2>2. Good(kept[0])
    BY <1>2, <2>1, Zenon
  <2> QED
    BY <2>2
<1>4. ASSUME NEW m \in Nat, m \in Reached
      PROVE  m + 1 \in Reached
  <2>1. SUFFICES ASSUME m + 1 <= Len(contents) PROVE Good(kept[m + 1])
    OBVIOUS
  <2> DEFINE s == kept[m]
             item == contents[m + 1]
  <2>2. m + 1 \in 1 .. Len(contents) /\ (m + 1) - 1 = m /\ m <= Len(contents)
    BY <2>1
  <2>3. s \in Seq(Contents) /\ Clear(s, k)
    BY <1>4, <2>2
  <2>4. item \in Contents
    BY <2>2
  <2>5. kept[m + 1] = IF \/ \E e \in entries : e.kind = k /\ <<e.content, item>> \in Similar
                         \/ \E n \in DOMAIN s : <<s[n], item>> \in Similar
                      THEN s ELSE Append(s, item)
    BY <1>2, <2>2
  <2> HIDE DEF s, item
  <2>6. CASE kept[m + 1] = s
    BY <2>3, <2>6
  <2>7. CASE /\ kept[m + 1] = Append(s, item)
             /\ \A e \in entries : e.kind = k => <<e.content, item>> \notin Similar
             /\ \A n \in DOMAIN s : <<s[n], item>> \notin Similar
    <3> DEFINE t == Append(s, item)
    <3>1. t \in Seq(Contents) /\ DOMAIN t = 1 .. Len(s) + 1 /\ DOMAIN s = 1 .. Len(s) /\ Len(s) \in Nat
      BY <2>3, <2>4
    <3>2. t[Len(s) + 1] = item /\ \A i \in 1 .. Len(s) : t[i] = s[i] /\ s[i] \in Contents
      BY <2>3, <2>4
    <3> HIDE DEF t
    <3>3. ASSUME NEW i \in DOMAIN t, NEW e \in entries, e.kind = k
          PROVE  <<e.content, t[i]>> \notin Similar
      <4>1. CASE i = Len(s) + 1
        BY <2>7, <3>2, <3>3, <4>1
      <4>2. CASE i \in 1 .. Len(s)
        BY <2>3, <3>1, <3>2, <3>3, <4>2 DEF Clear
      <4> QED
        BY <3>1, <4>1, <4>2
    <3>4. ASSUME NEW i \in DOMAIN t, NEW n \in DOMAIN t, i # n
          PROVE  <<t[i], t[n]>> \notin Similar
      <4>1. CASE i \in 1 .. Len(s) /\ n \in 1 .. Len(s)
        BY <2>3, <3>1, <3>2, <3>4, <4>1 DEF Clear
      <4>2. CASE i \in 1 .. Len(s) /\ n = Len(s) + 1
        BY <2>7, <3>1, <3>2, <4>2
      <4>3. CASE i = Len(s) + 1 /\ n \in 1 .. Len(s)
        <5>1. <<s[n], item>> \notin Similar /\ s[n] \in Contents
          BY <2>7, <3>1, <3>2, <4>3
        <5>2. <<item, s[n]>> \notin Similar
          BY <2>4, <5>1, MemoryAssumption
        <5> QED
          BY <3>2, <4>3, <5>2
      <4> QED
        BY <3>1, <3>4, <4>1, <4>2, <4>3
    <3>5. Clear(t, k)
      BY <3>3, <3>4 DEF Clear
    <3> QED
      BY <2>7, <3>1, <3>5 DEF t
  <2> QED
    BY <2>5, <2>6, <2>7
<1>5. Nat \subseteq Reached
  <2> HIDE DEF Reached
  <2> QED
    BY <1>3, <1>4, NaturalInduction
<1>6. Len(contents) \in Nat
  OBVIOUS
<1>7. Good(kept[Len(contents)])
  BY <1>5, <1>6
<1> QED
  BY <1>1, <1>7

-----------------------------------------------------------------------------
(* One execution moves at a time.                                          *)

Moves(c) == (\E j \in Jobs : Begin(c, j)) \/ Step(c) \/ ReflectionThrows(c) \/ Die(c)

(* Another one keeps its place.                                            *)
Keeps(d) ==
  /\ pc'[d] = pc[d] /\ job'[d] = job[d] /\ kind'[d] = kind[d]
  /\ batch'[d] = batch[d] /\ rows'[d] = rows[d] /\ (d \in blank' <=> d \in blank)

Others(c) == exclusive' = exclusive /\ \A d \in Consolidators \ {c} : Keeps(d)

(* Where the one that ends is left, and the one that has its rows.         *)
LEMMA Ended ==
  ASSUME Shape, NEW c \in Consolidators, End(c), exclusive' = exclusive, entries' = entries,
         credited' \subseteq Jobs, score' \in Int, failures' \in 0..MaxFailures
  PROVE  /\ Shape' /\ Others(c)
         /\ pc'[c] = "idle" /\ job'[c] = NoJob /\ kind'[c] = "observation"
         /\ batch'[c] = <<>> /\ rows'[c] = {} /\ c \notin blank'
<1>1. <<>> \in Seq(Contents) /\ "idle" \in Steps /\ "observation" \in Kinds
  BY DEF Steps, Kinds
<1>2. pc' \in [Consolidators -> Steps] /\ job' \in [Consolidators -> Jobs \cup {NoJob}]
      /\ kind' \in [Consolidators -> Kinds] /\ batch' \in [Consolidators -> Seq(Contents)]
  BY <1>1 DEF Shape, End, Goto
<1>3. rows' \in [Consolidators -> SUBSET entries']
  BY DEF Shape, End
<1>4. Shape'
  BY <1>2, <1>3 DEF Shape, End
<1> QED
  BY <1>4 DEF Shape, End, Goto, Others, Keeps

AfterRows(c, es) == IF kind[c] = "reflection" THEN "reflected" ELSE IF es = {} THEN "budgeting" ELSE "crediting"

LEMMA ReturnedLeaves ==
  ASSUME Shape, NEW c \in Consolidators, NEW es, Returned(c, es), es \subseteq entries',
         exclusive' = exclusive, entries \subseteq entries', entries' \subseteq Rows,
         IsFiniteSet(entries'), UNCHANGED <<credited, score, blank, failures>>
  PROVE  /\ Shape' /\ Others(c)
         /\ pc'[c] = AfterRows(c, es) /\ job'[c] = job[c] /\ kind'[c] = kind[c]
         /\ batch'[c] = <<>> /\ rows'[c] = es
<1>1. <<>> \in Seq(Contents) /\ AfterRows(c, es) \in Steps
  BY DEF Steps, AfterRows
<1>2. pc' = [pc EXCEPT ![c] = AfterRows(c, es)]
  BY DEF Returned, Goto, AfterRows
<1>3. pc' \in [Consolidators -> Steps] /\ job' \in [Consolidators -> Jobs \cup {NoJob}]
      /\ kind' \in [Consolidators -> Kinds] /\ batch' \in [Consolidators -> Seq(Contents)]
  BY <1>1, <1>2 DEF Shape, Returned
<1>4. rows' \in [Consolidators -> SUBSET entries']
  BY DEF Shape, Returned
<1>5. Shape'
  BY <1>3, <1>4 DEF Shape
<1> QED
  BY <1>2, <1>5 DEF Shape, Returned, Others, Keeps

(* What Store adds.                                                        *)
Offered(c) == {[job |-> job[c], kind |-> kind[c], index |-> i, content |-> batch[c][i]]
                 : i \in DOMAIN batch[c]}
Inserted(c) == {e \in Offered(c) : \A f \in RowsOf(job[c], kind[c]) : f.index # e.index}

LEMMA OfferedAreRows ==
  ASSUME Shape, NEW c \in Consolidators, job[c] # NoJob
  PROVE  /\ Offered(c) \subseteq Rows /\ IsFiniteSet(Offered(c))
         /\ \A e \in Offered(c) : /\ e.job = job[c] /\ e.kind = kind[c]
                                  /\ e.index \in DOMAIN batch[c]
                                  /\ e.content = batch[c][e.index]
         /\ \A e, f \in Offered(c) : e # f => e.index # f.index
         /\ batch[c] # <<>> => Offered(c) # {}
<1> DEFINE s == batch[c]
           Row(i) == [job |-> job[c], kind |-> kind[c], index |-> i, content |-> s[i]]
           f == [i \in 1 .. Len(s) |-> Row(i)]
<1>1. s \in Seq(Contents) /\ Len(s) \in Nat /\ DOMAIN s = 1 .. Len(s)
      /\ job[c] \in Jobs /\ kind[c] \in Kinds
  BY DEF Shape
<1>2. \A i \in 1 .. Len(s) : s[i] \in Contents /\ i \in Nat \ {0}
  BY <1>1
<1>3. Offered(c) = {Row(i) : i \in 1 .. Len(s)}
  BY <1>1 DEF Offered
<1>4. Offered(c) \subseteq Rows
  <2> HIDE DEF s
  <2> QED
    BY <1>1, <1>2, <1>3 DEF Rows
<1>5. \A e \in Offered(c) : e.job = job[c] /\ e.kind = kind[c] /\ e.index \in DOMAIN s
                            /\ e.content = s[e.index]
  BY DEF Offered
<1>6. \A e, g \in Offered(c) : e # g => e.index # g.index
  BY DEF Offered
<1>7. IsFiniteSet(Offered(c))
  <2>1. IsFiniteSet(1 .. Len(s))
    <3>1. \A a, b \in Int : IsFiniteSet(a .. b)
      BY FS_Interval
    <3>2. 1 \in Int /\ Len(s) \in Int
      BY <1>1
    <3> QED
      BY <3>1, <3>2, Zenon
  <2>2. f \in Surjection(1 .. Len(s), Offered(c))
    BY <1>3 DEF Surjection
  <2> HIDE DEF f
  <2> QED
    BY <2>1, <2>2, FS_Surjection
<1>8. s # <<>> => Offered(c) # {}
  <2>1. s # <<>> => 1 \in 1 .. Len(s)
    BY <1>1
  <2> QED
    BY <1>3, <2>1
<1> QED
  BY <1>4, <1>5, <1>6, <1>7, <1>8

LEMMA StoreInserts ==
  ASSUME Shape, NEW c \in Consolidators, Coherent(c), Store(c)
  PROVE  /\ entries' = entries \cup Inserted(c) /\ entries' \subseteq Rows /\ IsFiniteSet(entries')
         /\ IF Inserted(c) = Offered(c) THEN Returned(c, Inserted(c))
            ELSE /\ Goto(c, "rereading")
                 /\ batch' = [batch EXCEPT ![c] = <<>>]
                 /\ UNCHANGED <<job, kind, rows>>
<1>1. entries' = entries \cup Inserted(c)
  BY DEF Store, Inserted, Offered
<1>2. job[c] # NoJob
  BY DEF Coherent, Store
<1>3. Inserted(c) \subseteq Offered(c)
  BY DEF Inserted
<1>4. Inserted(c) \subseteq Rows /\ IsFiniteSet(Inserted(c))
  BY <1>2, <1>3, OfferedAreRows, FS_Subset
<1>5. entries' \subseteq Rows /\ IsFiniteSet(entries')
  BY <1>1, <1>4, FS_Union DEF Shape
<1> QED
  BY <1>1, <1>5 DEF Store, Inserted, Offered

(* Every step keeps the shape of the store, moves one execution and leaves *)
(* it with what its new place calls for.                                   *)
LEMMA StepsAreLocal ==
  ASSUME Shape, NEW c \in Consolidators, Coherent(c), Moves(c)
  PROVE  Shape' /\ Others(c) /\ Coherent(c)'
<1>1. ASSUME NEW j \in Jobs, Begin(c, j) PROVE Shape' /\ Others(c) /\ Coherent(c)'
  <2>1. j \in Jobs \cup {NoJob} /\ "extracting" \in Steps
    BY <1>1 DEF Shape, Steps, Kinds
  <2>2. Shape'
    BY <1>1, <2>1, MemoryAssumption DEF Shape, Goto, Begin, store
  <2>3. Others(c)
    BY <1>1 DEF Shape, Others, Keeps, Goto, Begin
  <2>4. /\ pc'[c] = "extracting" /\ job'[c] = j /\ UNCHANGED <<entries, kind, batch, rows>>
    BY <1>1 DEF Shape, Goto, Begin, store
  <2> QED
    BY <1>1, <2>2, <2>3, <2>4, MemoryAssumption DEF Coherent, Begin
<1>2. ASSUME NEW contents \in Extractions, Extract(c, contents) PROVE Shape' /\ Others(c) /\ Coherent(c)'
  <2>1. {"budgeting", "looking"} \subseteq Steps
    BY <1>2 DEF Shape, Steps, Kinds
  <2>2. Shape'
    BY <1>2, <2>1, MemoryAssumption DEF Shape, Goto, Extract, store
  <2>3. Others(c)
    BY <1>2 DEF Shape, Others, Keeps, Goto, Extract
  <2>4. /\ pc'[c] = IF contents = <<>> THEN "budgeting" ELSE "looking"
        /\ batch'[c] = contents /\ UNCHANGED <<entries, job, kind, rows>>
    BY <1>2 DEF Shape, Goto, Extract, store
  <2> QED
    BY <1>2, <2>2, <2>3, <2>4 DEF Coherent, Extract
<1>3. ASSUME NEW contents \in Insights, Reflect(c, contents) PROVE Shape' /\ Others(c) /\ Coherent(c)'
  <2>1. {"reflected", "looking"} \subseteq Steps
    BY <1>3 DEF Shape, Steps, Kinds
  <2>2. Shape'
    BY <1>3, <2>1, MemoryAssumption DEF Shape, Goto, Reflect, store
  <2>3. Others(c)
    BY <1>3 DEF Shape, Others, Keeps, Goto, Reflect
  <2>4. /\ pc'[c] = IF contents = <<>> THEN "reflected" ELSE "looking"
        /\ batch'[c] = contents /\ UNCHANGED <<entries, job, kind, rows>>
    BY <1>3 DEF Shape, Goto, Reflect, store
  <2> QED
    BY <1>3, <2>2, <2>3, <2>4 DEF Coherent, Reflect
<1>4. CASE Look(c)
  <2>1. CASE Returned(c, RowsOf(job[c], kind[c])) /\ RowsOf(job[c], kind[c]) # {}
    <3>1. Shape' /\ Others(c) /\ pc'[c] = AfterRows(c, RowsOf(job[c], kind[c]))
          /\ job'[c] = job[c] /\ kind'[c] = kind[c]
          /\ batch'[c] = <<>> /\ rows'[c] = RowsOf(job[c], kind[c])
      <4>1. RowsOf(job[c], kind[c]) \subseteq entries
        BY DEF RowsOf
      <4>2. UNCHANGED <<exclusive, entries, credited, score, blank, failures>>
        BY <1>4 DEF Look, store
      <4> QED
        BY <2>1, <4>1, <4>2, ReturnedLeaves DEF Shape
    <3> QED
      BY <1>4, <2>1, <3>1 DEF Look, Coherent, AfterRows, RowsOf, Kinds, Shape
  <2>2. CASE Goto(c, "comparing") /\ UNCHANGED <<job, kind, batch, rows>>
    <3>1. Shape'
      BY <1>4, <2>2 DEF Shape, Goto, Look, store, Steps
    <3>2. Others(c)
      BY <1>4, <2>2 DEF Shape, Others, Keeps, Goto, Look
    <3>3. pc'[c] = "comparing"
      BY <2>2 DEF Shape, Goto
    <3> QED
      BY <1>4, <2>2, <3>1, <3>2, <3>3 DEF Look, Coherent
  <2> QED
    BY <1>4, <2>1, <2>2 DEF Look
<1>5. CASE Compare(c)
  <2> DEFINE s == Survivors(batch[c], kind[c])
  <2>1. s \in Seq(Contents)
    BY SurvivorsAreClear DEF Shape
  <2>2. UNCHANGED <<exclusive, entries, credited, score, blank, failures>> /\ pc[c] = "comparing"
    BY <1>5 DEF Compare, store
  <2>3. CASE Returned(c, {})
    <3>1. Shape' /\ Others(c) /\ pc'[c] = AfterRows(c, {}) /\ job'[c] = job[c] /\ kind'[c] = kind[c]
          /\ batch'[c] = <<>> /\ rows'[c] = {}
      BY <2>2, <2>3, ReturnedLeaves DEF Shape
    <3> QED
      BY <2>2, <3>1 DEF Coherent, AfterRows, Kinds, Shape
  <2>4. CASE /\ s # <<>> /\ batch' = [batch EXCEPT ![c] = s]
             /\ Goto(c, "storing") /\ UNCHANGED <<job, kind, rows>>
    <3> HIDE DEF s
    <3>1. Shape'
      BY <2>1, <2>2, <2>4 DEF Shape, Goto, Steps
    <3>2. Others(c)
      BY <2>2, <2>4 DEF Shape, Others, Keeps, Goto
    <3>3. pc'[c] = "storing" /\ batch'[c] = s
      BY <2>4 DEF Shape, Goto
    <3> QED
      BY <2>2, <2>4, <3>1, <3>2, <3>3 DEF Coherent
  <2> QED
    BY <1>5, <2>3, <2>4 DEF Compare
<1>6. CASE Store(c)
  <2>1. UNCHANGED <<exclusive, credited, score, blank, failures>> /\ pc[c] = "storing"
    BY <1>6 DEF Store
  <2>2. /\ entries' = entries \cup Inserted(c) /\ entries' \subseteq Rows /\ IsFiniteSet(entries')
        /\ Inserted(c) \subseteq Offered(c)
    BY <1>6, StoreInserts DEF Inserted
  <2>3. job[c] # NoJob /\ batch[c] # <<>>
    BY <2>1 DEF Coherent
  <2>4. CASE Returned(c, Inserted(c)) /\ Inserted(c) = Offered(c)
    <3>1. Shape' /\ Others(c) /\ pc'[c] = AfterRows(c, Inserted(c))
          /\ job'[c] = job[c] /\ kind'[c] = kind[c] /\ batch'[c] = <<>> /\ rows'[c] = Inserted(c)
      BY <2>1, <2>2, <2>4, ReturnedLeaves
    <3>2. Inserted(c) # {} /\ \A e \in Inserted(c) : e.job = job[c] /\ e.kind = kind[c]
      BY <2>2, <2>3, <2>4, OfferedAreRows
    <3> QED
      BY <2>1, <3>1, <3>2 DEF Coherent, AfterRows, Kinds, Shape
  <2>5. CASE /\ Goto(c, "rereading") /\ batch' = [batch EXCEPT ![c] = <<>>]
             /\ UNCHANGED <<job, kind, rows>>
    <3>1. Shape'
      <4>1. <<>> \in Seq(Contents)
        OBVIOUS
      <4> QED
        BY <2>1, <2>2, <2>5, <4>1 DEF Shape, Goto, Steps
    <3>2. Others(c)
      BY <2>1, <2>5 DEF Shape, Others, Keeps, Goto
    <3>3. pc'[c] = "rereading" /\ batch'[c] = <<>>
      BY <2>5 DEF Shape, Goto
    <3> QED
      BY <2>1, <2>5, <3>1, <3>2, <3>3 DEF Coherent
  <2> QED
    BY <1>6, <2>4, <2>5, StoreInserts
<1>7. CASE Reread(c)
  <2>1. UNCHANGED <<exclusive, entries, credited, score, blank, failures>> /\ pc[c] = "rereading"
    BY <1>7 DEF Reread, store
  <2>2. RowsOf(job[c], kind[c]) \subseteq entries
    BY DEF RowsOf
  <2>3. Shape' /\ Others(c) /\ pc'[c] = AfterRows(c, RowsOf(job[c], kind[c]))
        /\ job'[c] = job[c] /\ kind'[c] = kind[c]
        /\ batch'[c] = <<>> /\ rows'[c] = RowsOf(job[c], kind[c])
    BY <1>7, <2>1, <2>2, ReturnedLeaves DEF Reread, Shape
  <2> QED
    BY <2>1, <2>3 DEF Coherent, AfterRows, RowsOf, Kinds, Shape
<1>8. CASE Credit(c)
  <2>1. job[c] \in Jobs /\ pc[c] = "crediting"
    BY <1>8 DEF Shape, Credit, Coherent
  <2>2. Worth(rows[c]) \in Nat
    BY FS_Subset, PointsAreFinite DEF Shape
  <2>3. score' \in Int /\ credited' \subseteq Jobs
    BY <1>8, <2>1, <2>2 DEF Shape, Credit
  <2>4. Shape'
    BY <1>8, <2>3 DEF Shape, Goto, Credit, Steps
  <2>5. Others(c)
    BY <1>8 DEF Shape, Others, Keeps, Goto, Credit
  <2>6. pc'[c] = "budgeting" /\ rows'[c] = {} /\ UNCHANGED <<job, kind, batch>>
    BY <1>8 DEF Shape, Goto, Credit
  <2> QED
    BY <2>1, <2>4, <2>5, <2>6 DEF Coherent
<1>9. CASE Consume(c)
  <2>1. "reflecting" \in Steps /\ "reflection" \in Kinds
    BY <1>9 DEF Shape, Steps, Kinds
  <2>2. Shape'
    BY <1>9, <2>1, MemoryAssumption DEF Shape, Goto, Consume, store
  <2>3. Others(c)
    BY <1>9 DEF Shape, Others, Keeps, Goto, Consume
  <2>4. /\ pc'[c] = "reflecting" /\ kind'[c] = "reflection" /\ UNCHANGED <<entries, job, batch, rows>>
    BY <1>9 DEF Shape, Goto, Consume
  <2> QED
    BY <1>9, <2>2, <2>3, <2>4 DEF Coherent, Consume
<1>10. CASE NoBudget(c)
  <2>1. End(c) /\ exclusive' = exclusive /\ UNCHANGED <<entries, credited>>
    BY <1>10 DEF NoBudget, store
  <2>2. score' \in Int /\ failures' \in 0..MaxFailures
    BY <1>10, MemoryAssumption DEF Shape, NoBudget, store
  <2>3. credited' \subseteq Jobs
    BY <2>1 DEF Shape
  <2> QED
    BY <2>1, <2>2, <2>3, Ended DEF Coherent
<1>11. CASE Finish(c)
  <2>1. End(c) /\ exclusive' = exclusive /\ UNCHANGED <<entries, credited>>
    BY <1>11 DEF Finish, store
  <2>2. score' \in Int /\ failures' \in 0..MaxFailures
    BY <1>11, MemoryAssumption DEF Shape, Finish, store
  <2>3. credited' \subseteq Jobs
    BY <2>1 DEF Shape
  <2> QED
    BY <2>1, <2>2, <2>3, Ended DEF Coherent
<1>12. CASE Restore(c)
  <2>1. End(c) /\ exclusive' = exclusive /\ UNCHANGED <<entries, credited>>
    BY <1>12 DEF Restore, store
  <2>2. score' \in Int /\ failures' \in 0..MaxFailures
    BY <1>12, MemoryAssumption DEF Shape, Restore, store
  <2>3. credited' \subseteq Jobs
    BY <2>1 DEF Shape
  <2> QED
    BY <2>1, <2>2, <2>3, Ended DEF Coherent
<1>13. CASE ReflectionThrows(c)
  <2>1. "restoring" \in Steps /\ <<>> \in Seq(Contents) /\ failures + 1 \in 0..MaxFailures
    BY <1>13, MemoryAssumption DEF Shape, Steps, ReflectionThrows
  <2>2. Shape'
    BY <1>13, <2>1, MemoryAssumption DEF Shape, Goto, ReflectionThrows, store
  <2>3. Others(c)
    BY <1>13 DEF Shape, Others, Keeps, Goto, ReflectionThrows
  <2>4. /\ pc'[c] = "restoring" /\ batch'[c] = <<>> /\ rows'[c] = {} /\ UNCHANGED <<entries, job, kind>>
    BY <1>13 DEF Shape, Goto, ReflectionThrows, store
  <2> QED
    BY <1>13, <2>2, <2>3, <2>4 DEF Coherent, ReflectionThrows
<1>14. CASE Die(c)
  <2>1. End(c) /\ exclusive' = exclusive /\ UNCHANGED <<entries, credited>>
    BY <1>14 DEF Die, store
  <2>2. score' \in Int /\ failures' \in 0..MaxFailures
    BY <1>14, MemoryAssumption DEF Shape, Die, store
  <2>3. credited' \subseteq Jobs
    BY <2>1 DEF Shape
  <2> QED
    BY <2>1, <2>2, <2>3, Ended DEF Coherent
<1> QED
  BY <1>1, <1>2, <1>3, <1>4, <1>5, <1>6, <1>7, <1>8, <1>9, <1>10, <1>11, <1>12, <1>13, <1>14
  DEF Moves, Step

LEMMA RowsStay ==
  ASSUME Shape, NEW c \in Consolidators, Coherent(c), Moves(c)
  PROVE  entries \subseteq entries' /\ (entries' = entries \/ Store(c))
<1>1. CASE Store(c)
  BY <1>1, StoreInserts
<1>2. CASE ~Store(c)
  <2>1. entries' = entries
    BY <1>2 DEF Moves, Step, Begin, Extract, Reflect, Look, Compare, Reread, Credit, Consume,
                NoBudget, Finish, Restore, ReflectionThrows, Die, store
  <2> QED
    BY <2>1
<1> QED
  BY <1>1, <1>2

(* Only one that has begun moves, or one that begins where nobody has.     *)
LEMMA OthersAreIdle ==
  ASSUME Shape, NEW c \in Consolidators, Coherent(c), Moves(c), Alone, exclusive
  PROVE  \A d \in Consolidators \ {c} : pc[d] = "idle"
<1>1. CASE \E j \in Jobs : Begin(c, j)
  BY <1>1 DEF Begin
<1>2. CASE ~\E j \in Jobs : Begin(c, j)
  <2>1. pc[c] # "idle"
    BY <1>2 DEF Moves, Step, Extract, Reflect, Look, Compare, Store, Reread, Credit, Consume,
                NoBudget, Finish, Restore, ReflectionThrows, Die, Coherent
  <2> QED
    BY <2>1 DEF Alone
<1> QED
  BY <1>1, <1>2

LEMMA AloneStays ==
  ASSUME Shape, NEW c \in Consolidators, Coherent(c), Moves(c), Alone
  PROVE  Alone'
<1>1. SUFFICES ASSUME exclusive' PROVE \A d \in Consolidators \ {c} : pc'[d] = "idle"
  BY DEF Alone
<1>2. Others(c)
  BY StepsAreLocal
<1>3. \A d \in Consolidators \ {c} : pc[d] = "idle"
  BY <1>1, <1>2, OthersAreIdle DEF Others
<1> QED
  BY <1>2, <1>3 DEF Others, Keeps

LEMMA EarnedStays ==
  ASSUME Shape, NEW c \in Consolidators, Coherent(c), Moves(c), Earned
  PROVE  Earned'
<1>1. entries \subseteq entries'
  BY RowsStay
<1>2. \A j \in Jobs : RowsOf(j, "observation") \subseteq RowsOf(j, "observation")'
  BY <1>1 DEF RowsOf
<1>3. \A j \in credited' : j \in credited \/ RowsOf(j, "observation") # {}
  <2>1. CASE Credit(c)
    <3>1. credited' = credited \cup {job[c]} /\ rows[c] # {}
      BY <2>1 DEF Credit, Coherent
    <3>2. rows[c] \subseteq RowsOf(job[c], "observation")
      BY <2>1 DEF Credit, Coherent, RowsOf, Shape
    <3> QED
      BY <3>1, <3>2
  <2>2. CASE ~Credit(c)
    BY <2>2 DEF Moves, Step, Begin, Extract, Reflect, Look, Compare, Store, Reread, Consume,
                NoBudget, Finish, Restore, ReflectionThrows, Die, store
  <2> QED
    BY <2>1, <2>2
<1>4. credited' \subseteq Jobs
  BY StepsAreLocal DEF Shape
<1>5. \A j \in credited' : j \in Jobs /\ RowsOf(j, "observation") # {} => RowsOf(j, "observation")' # {}
  BY <1>2, <1>4
<1>6. \A j \in credited' : RowsOf(j, "observation") # {}
  BY <1>3 DEF Earned
<1>7. \A j \in credited' : RowsOf(j, "observation")' # {}
  BY <1>4, <1>5, <1>6
<1> QED
  BY <1>7 DEF Earned

(* What the budgets are spent on.                                          *)
LEMMA PaidStays ==
  ASSUME Shape, NEW c \in Consolidators, Coherent(c), Moves(c), Paid
  PROVE  Paid'
<1> DEFINE R == Reflecting
<1>1. IsFiniteSet(R) /\ spent \in Nat /\ Cardinality(R) <= spent /\ Cardinality(R) \in Nat
  BY FS_CardinalityType DEF Paid
<1>2. CASE Consume(c)
  <2>1. Reflecting' = R \cup {c} /\ spent' = spent + 1
    BY <1>2 DEF Consume, Shape, Reflecting
  <2> HIDE DEF R
  <2>2. IsFiniteSet(R \cup {c})
        /\ Cardinality(R \cup {c}) = IF c \in R THEN Cardinality(R) ELSE Cardinality(R) + 1
    BY <1>1, FS_AddElement
  <2> QED
    BY <1>1, <2>1, <2>2 DEF Paid
<1>3. CASE End(c)
  <2>1. Reflecting' = R \ {c}
    BY <1>3 DEF End, Shape, Reflecting
  <2>2. spent' = spent \/ (spent' = spent - 1 /\ c \in R)
    <3>1. CASE Restore(c)
      BY <3>1 DEF Restore, Coherent, Reflecting
    <3>2. CASE ~Restore(c)
      <4>1. pc' = [pc EXCEPT ![c] = "idle"] /\ pc'[c] = "idle"
        BY <1>3 DEF End, Goto, Shape
      <4>2. ~Consume(c)
        BY <4>1 DEF Consume, Goto, Shape
      <4> QED
        BY <3>2, <4>2 DEF Moves, Step, Begin, Extract, Reflect, Look, Compare, Store, Reread, Credit,
                NoBudget, Finish, ReflectionThrows, Die, store
    <3> QED
      BY <3>1, <3>2
  <2> HIDE DEF R
  <2>3. IsFiniteSet(R \ {c}) /\ Cardinality(R \ {c}) \in Nat
        /\ Cardinality(R \ {c}) = IF c \in R THEN Cardinality(R) - 1 ELSE Cardinality(R)
    BY <1>1, FS_RemoveElement, FS_CardinalityType
  <2> QED
    BY <1>1, <2>1, <2>2, <2>3 DEF Paid
<1>4. CASE ~Consume(c) /\ ~End(c)
  <2>1. spent' = spent
    BY <1>4 DEF Moves, Step, Begin, Extract, Reflect, Look, Compare, Store, Reread, Credit,
                NoBudget, Finish, Restore, ReflectionThrows, Die, store
  <2>2. kind' = kind
    BY <1>4 DEF Moves, Step, Begin, Extract, Reflect, Look, Compare, Store, Reread, Credit,
                NoBudget, Finish, Restore, ReflectionThrows, Die, Returned
  <2>3. Reflecting' = R
    BY <2>2 DEF Reflecting
  <2> QED
    BY <1>1, <2>1, <2>3 DEF Paid
<1> QED
  BY <1>2, <1>3, <1>4

-----------------------------------------------------------------------------
(* What an execution that is alone has read is still so.                   *)

(* Its batch is stored whole, under a key that nothing was stored under.   *)
LEMMA AloneStoresAll ==
  ASSUME Shape, NEW c \in Consolidators, Coherent(c), Fresh(c), exclusive, Store(c)
  PROVE  /\ Inserted(c) = Offered(c) /\ Returned(c, Offered(c))
         /\ entries' = entries \cup Offered(c)
         /\ RowsOf(job[c], kind[c]) = {}
         /\ RowsOf(job[c], kind[c])' = Offered(c)
<1>1. RowsOf(job[c], kind[c]) = {}
  BY DEF Store, Fresh
<1>2. Inserted(c) = Offered(c)
  BY <1>1 DEF Inserted
<1>3. Returned(c, Offered(c)) /\ entries' = entries \cup Offered(c)
  BY <1>2, StoreInserts
<1>4. job'[c] = job[c] /\ kind'[c] = kind[c]
  BY <1>3 DEF Returned
<1>5. \A e \in Offered(c) : e.job = job[c] /\ e.kind = kind[c]
  BY OfferedAreRows DEF Store, Coherent
<1>6. {e \in entries \cup Offered(c) : e.job = job[c] /\ e.kind = kind[c]} = Offered(c)
  BY <1>1, <1>5 DEF RowsOf
<1> QED
  BY <1>1, <1>2, <1>3, <1>4, <1>6 DEF RowsOf

LEMMA FreshStays ==
  ASSUME Shape, NEW c \in Consolidators, Coherent(c), Fresh(c), Moves(c), exclusive
  PROVE  Fresh(c)'
<1> USE DEF Fresh
<1>1. CASE Look(c)
  <2>1. entries' = entries
    BY <1>1 DEF Look, store
  <2>2. CASE Returned(c, RowsOf(job[c], kind[c])) /\ RowsOf(job[c], kind[c]) # {}
    <3>1. pc'[c] = AfterRows(c, RowsOf(job[c], kind[c])) /\ rows'[c] = RowsOf(job[c], kind[c])
          /\ job'[c] = job[c] /\ kind'[c] = kind[c]
      BY <2>2 DEF Returned, Goto, AfterRows, Shape
    <3>2. kind[c] # "reflection" => kind[c] = "observation"
      BY DEF Shape, Kinds
    <3> QED
      BY <2>1, <3>1, <3>2 DEF AfterRows, RowsOf
  <2>3. CASE Goto(c, "comparing") /\ UNCHANGED <<job, kind, batch, rows>> /\ RowsOf(job[c], kind[c]) = {}
    <3>1. pc'[c] = "comparing"
      BY <2>3 DEF Goto, Shape
    <3> QED
      BY <2>1, <2>3, <3>1 DEF RowsOf
  <2> QED
    BY <1>1, <2>2, <2>3 DEF Look
<1>2. CASE Compare(c)
  <2> DEFINE s == Survivors(batch[c], kind[c])
  <2>1. entries' = entries /\ RowsOf(job[c], kind[c]) = {}
    BY <1>2 DEF Compare, store
  <2>2. Clear(s, kind[c])
    BY SurvivorsAreClear DEF Shape
  <2>3. CASE Returned(c, {})
    <3>1. pc'[c] = AfterRows(c, {})
      BY <2>3 DEF Returned, Goto, AfterRows, Shape
    <3> QED
      BY <3>1 DEF AfterRows
  <2>4. CASE /\ batch' = [batch EXCEPT ![c] = s]
             /\ Goto(c, "storing") /\ UNCHANGED <<job, kind, rows>>
    <3> HIDE DEF s
    <3>1. pc'[c] = "storing" /\ batch'[c] = s /\ job'[c] = job[c] /\ kind'[c] = kind[c]
      BY <2>4 DEF Goto, Shape
    <3>2. RowsOf(job[c], kind[c])' = {}
      BY <2>1, <3>1 DEF RowsOf
    <3>3. Clear(batch[c], kind[c])'
      BY <2>1, <2>2, <3>1 DEF Clear
    <3> QED
      BY <3>1, <3>2, <3>3
  <2> QED
    BY <1>2, <2>3, <2>4 DEF Compare
<1>3. CASE Store(c)
  <2>1. Returned(c, Offered(c)) /\ RowsOf(job[c], kind[c])' = Offered(c)
    BY <1>3, AloneStoresAll
  <2>2. pc'[c] = AfterRows(c, Offered(c)) /\ rows'[c] = Offered(c)
        /\ job'[c] = job[c] /\ kind'[c] = kind[c]
    BY <2>1 DEF Returned, Goto, AfterRows, Shape
  <2>3. kind[c] # "reflection" => kind[c] = "observation"
    BY DEF Shape, Kinds
  <2> QED
    BY <2>1, <2>2, <2>3 DEF AfterRows, RowsOf
<1>4. CASE ~Look(c) /\ ~Compare(c) /\ ~Store(c)
  <2>1. ~Reread(c)
    BY DEF Reread
  <2>2. pc'[c] \in {"idle", "extracting", "looking", "budgeting", "reflecting", "reflected", "restoring"}
    BY <1>4, <2>1 DEF Moves, Step, Begin, Extract, Reflect, Credit, Consume, Shape,
            NoBudget, Finish, Restore, ReflectionThrows, Die, End, Goto
  <2> QED
    BY <2>2
<1> QED
  BY <1>1, <1>2, <1>3, <1>4

LEMMA HeldStays ==
  ASSUME Shape, Held, Alone, NEW c \in Consolidators, Moves(c)
  PROVE  Held'
<1>1. Coherent(c) /\ Fresh(c)
  BY DEF Held
<1>2. Others(c) /\ Coherent(c)'
  BY <1>1, StepsAreLocal
<1>3. exclusive' = exclusive
  BY <1>2 DEF Others
<1>4. Fresh(c)'
  BY <1>1, <1>3, FreshStays DEF Fresh
<1>5. ASSUME NEW d \in Consolidators \ {c}
      PROVE  Coherent(d)' /\ Fresh(d)'
  <2>1. Coherent(d) /\ Keeps(d)
    BY <1>2 DEF Held, Others
  <2>2. Coherent(d)'
    BY <2>1 DEF Coherent, Keeps
  <2>3. exclusive => pc'[d] = "idle"
    BY <1>1, <2>1, OthersAreIdle DEF Keeps
  <2> QED
    BY <1>3, <2>2, <2>3 DEF Fresh
<1> QED
  BY <1>2, <1>4, <1>5 DEF Held

-----------------------------------------------------------------------------
(* What the store promises.                                                *)

LEMMA NoDuplicatesStays ==
  ASSUME Shape, NEW c \in Consolidators, Coherent(c), Fresh(c), Moves(c), NoDuplicates
  PROVE  NoDuplicates'
<1>1. SUFFICES ASSUME exclusive, NEW e \in entries', NEW f \in entries', e # f, e.kind = f.kind
               PROVE  <<e.content, f.content>> \notin Similar
  <2>1. exclusive' = exclusive
    BY StepsAreLocal DEF Others
  <2> QED
    BY <2>1 DEF NoDuplicates
<1>2. CASE entries' = entries
  BY <1>1, <1>2 DEF NoDuplicates
<1>3. CASE Store(c)
  <2>1. entries' = entries \cup Offered(c) /\ Clear(batch[c], kind[c]) /\ job[c] # NoJob
    BY <1>1, <1>3, AloneStoresAll DEF Fresh, Store, Coherent
  <2>2. \A g \in Offered(c) : g.kind = kind[c] /\ g.index \in DOMAIN batch[c]
                              /\ g.content = batch[c][g.index]
    BY <2>1, OfferedAreRows
  <2>3. e.content \in Contents /\ f.content \in Contents
    <3>1. entries' \subseteq Rows
      BY StepsAreLocal DEF Shape
    <3> QED
      BY <1>1, <3>1 DEF Rows
  <2>4. CASE e \in entries /\ f \in entries
    BY <1>1, <2>4 DEF NoDuplicates
  <2>5. CASE e \in entries /\ f \in Offered(c)
    BY <1>1, <2>1, <2>2, <2>5 DEF Clear
  <2>6. CASE e \in Offered(c) /\ f \in entries
    <3>1. <<f.content, e.content>> \notin Similar
      BY <1>1, <2>1, <2>2, <2>6 DEF Clear
    <3> QED
      BY <2>3, <3>1, MemoryAssumption
  <2>7. CASE e \in Offered(c) /\ f \in Offered(c)
    <3>1. e.index # f.index
      BY <1>1, <2>1, <2>7, OfferedAreRows
    <3> QED
      BY <2>1, <2>2, <2>7, <3>1 DEF Clear
  <2> QED
    BY <1>1, <2>1, <2>4, <2>5, <2>6, <2>7
<1> QED
  BY <1>2, <1>3, RowsStay

(* The rows of every other operation stay as they are.                     *)
LEMMA StoreIsItsOwn ==
  ASSUME Shape, NEW c \in Consolidators, Coherent(c), Store(c), NEW j, NEW k,
         <<j, k>> # <<job[c], kind[c]>>
  PROVE  {e \in entries' : e.job = j /\ e.kind = k} = RowsOf(j, k)
<1>1. entries' = entries \cup Inserted(c) /\ Inserted(c) \subseteq Offered(c) /\ job[c] # NoJob
  BY StoreInserts DEF Inserted, Store, Coherent
<1>2. \A e \in Offered(c) : e.job = job[c] /\ e.kind = kind[c]
  BY <1>1, OfferedAreRows
<1> QED
  BY <1>1, <1>2 DEF RowsOf

LEMMA RetriesResumeStays ==
  ASSUME Shape, Held, Alone, NEW c \in Consolidators, Moves(c), RetriesResume
  PROVE  RetriesResume'
<1>1. SUFFICES ASSUME exclusive, NEW d \in Consolidators \ blank', PastObservations(d)'
               PROVE  ~Uncounted(job[d])'
  <2>1. exclusive' = exclusive
    BY StepsAreLocal DEF Others, Held
  <2> QED
    BY <2>1 DEF RetriesResume
<1>2. Coherent(c) /\ Fresh(c) /\ Shape' /\ Others(c) /\ Coherent(c)'
  BY StepsAreLocal DEF Held
<1>3. d = c
  <2>1. SUFFICES ASSUME d # c PROVE FALSE
    OBVIOUS
  <2>2. pc[d] = "idle" /\ Keeps(d) /\ Coherent(d)
    BY <1>1, <1>2, <2>1, OthersAreIdle DEF Others, Held
  <2> QED
    BY <1>1, <2>2 DEF Keeps, Coherent, PastObservations
<1>4. pc'[c] = "budgeting" \/ kind'[c] = "reflection"
  BY <1>1, <1>3 DEF PastObservations
<1>5. CASE /\ PastObservations(c) /\ c \notin blank /\ job'[c] = job[c] /\ credited' = credited
           /\ RowsOf(job[c], "observation")' = RowsOf(job[c], "observation")
  BY <1>1, <1>3, <1>5 DEF RetriesResume, Uncounted
<1>6. CASE Store(c)
  <2>1. Returned(c, Offered(c)) /\ credited' = credited /\ blank' = blank
    BY <1>1, <1>2, <1>6, AloneStoresAll DEF Store
  <2>2. pc'[c] = AfterRows(c, Offered(c)) /\ job'[c] = job[c] /\ kind'[c] = kind[c]
    BY <2>1 DEF Returned, Goto, AfterRows, Shape
  <2>3. Offered(c) # {}
    BY <1>2, <1>6, OfferedAreRows DEF Store, Coherent
  <2>4. kind[c] = "reflection"
    BY <1>4, <2>2, <2>3 DEF AfterRows
  <2>5. {e \in entries' : e.job = job[c] /\ e.kind = "observation"} = RowsOf(job[c], "observation")
    BY <1>2, <1>6, <2>4, StoreIsItsOwn
  <2>6. RowsOf(job[c], "observation")' = RowsOf(job[c], "observation")
    BY <2>2, <2>5 DEF RowsOf
  <2> QED
    BY <1>1, <1>3, <1>5, <2>1, <2>2, <2>4, <2>6 DEF PastObservations
<1>7. CASE Compare(c)
  <2>1. UNCHANGED <<entries, credited, blank>> /\ RowsOf(job[c], kind[c]) = {}
    BY <1>1, <1>2, <1>7 DEF Compare, Fresh, store
  <2>2. job'[c] = job[c] /\ kind'[c] = kind[c]
    BY <1>7 DEF Compare, Returned
  <2>3. CASE kind[c] = "reflection"
    BY <1>1, <1>3, <1>5, <2>1, <2>2, <2>3 DEF PastObservations, RowsOf
  <2>4. CASE kind[c] = "observation"
    BY <1>3, <2>1, <2>2, <2>4 DEF Uncounted, RowsOf
  <2> QED
    BY <2>3, <2>4 DEF Shape, Kinds
<1>8. CASE Credit(c)
  <2>1. job[c] \in credited' /\ job'[c] = job[c]
    BY <1>8 DEF Credit
  <2> QED
    BY <1>3, <2>1 DEF Uncounted
<1>9. CASE \E contents \in Extractions : Extract(c, contents)
  <2>1. PICK contents \in Extractions : Extract(c, contents)
    BY <1>9
  <2>2. pc'[c] = (IF contents = <<>> THEN "budgeting" ELSE "looking") /\ kind'[c] = "observation"
    BY <1>2, <2>1 DEF Extract, Goto, Shape, Coherent
  <2>3. c \in blank'
    BY <1>4, <2>1, <2>2 DEF Extract
  <2> QED
    BY <1>1, <1>3, <2>3
<1>10. CASE ~Store(c) /\ ~Compare(c) /\ ~Credit(c) /\ ~\E contents \in Extractions : Extract(c, contents)
  <2>1. entries' = entries
    BY <1>2, <1>10, RowsStay
  <2>2. ~End(c)
    BY <1>1, <1>2, <1>3, <1>4, Ended DEF End, Goto, Shape
  <2>3. UNCHANGED <<credited, blank>>
    BY <1>10, <2>2 DEF Moves, Step, Begin, Reflect, Look, Reread, Consume,
                NoBudget, Finish, Restore, ReflectionThrows, Die, store
  <2>4. ~\E j \in Jobs : Begin(c, j)
    BY <1>2, <1>4 DEF Begin, Goto, Coherent, Shape
  <2>5. job' = job
    BY <1>10, <2>2, <2>4 DEF Moves, Step, Reflect, Look, Reread, Consume, Returned,
                NoBudget, Finish, Restore, ReflectionThrows, Die
  <2>6. PastObservations(c)
    BY <1>1, <1>2, <1>4, <1>10, <2>2, <2>4 DEF PastObservations, Moves, Step, Reflect, Look, Reread, Consume,
                NoBudget, Finish, Restore, ReflectionThrows, Die, Returned, Goto, Coherent, Fresh, Shape, Kinds
  <2>7. RowsOf(job[c], "observation")' = RowsOf(job[c], "observation")
    BY <2>1, <2>5 DEF RowsOf
  <2> QED
    BY <1>1, <1>3, <1>5, <2>3, <2>5, <2>6, <2>7
<1> QED
  BY <1>6, <1>7, <1>8, <1>9, <1>10

(* The observations that are counted, and what has come of their points.   *)
Counted == {e \in entries : e.kind = "observation" /\ e.job \in credited}
Balance == score + Threshold * spent

LEMMA BalanceUnfolds ==
  BudgetBalances <=> /\ score >= 0
                     /\ IF exclusive THEN Balance = Worth(Counted) ELSE Balance <= Worth(Counted)
BY DEF BudgetBalances, Counted, Balance

LEMMA BudgetBalancesStays ==
  ASSUME Shape, Held, Paid, Earned, Alone, NEW c \in Consolidators, Moves(c), BudgetBalances
  PROVE  BudgetBalances'
<1>1. Coherent(c) /\ Fresh(c) /\ Shape' /\ exclusive' = exclusive
  BY StepsAreLocal DEF Held, Others
<1>2. /\ score \in Int /\ spent \in Nat /\ Threshold \in Nat \ {0} /\ spent' \in Nat /\ score' \in Int
      /\ exclusive \in BOOLEAN
  BY <1>1, PaidStays, MemoryAssumption DEF Shape, Paid
<1>3. IsFiniteSet(Counted) /\ IsFiniteSet(Counted') /\ Worth(Counted) \in Nat /\ Worth(Counted') \in Nat
  <2>1. Counted \subseteq entries /\ Counted' \subseteq entries'
    BY DEF Counted
  <2> QED
    BY <1>1, <2>1, FS_Subset, PointsAreFinite DEF Shape
<1>4. Worth(Counted)' = Worth(Counted')
  BY DEF Worth, Points, Counted
<1>5. score >= 0 /\ IF exclusive THEN Balance = Worth(Counted) ELSE Balance <= Worth(Counted)
  BY BalanceUnfolds
<1>6. SUFFICES /\ score' >= 0
               /\ IF exclusive THEN Balance' = Worth(Counted') ELSE Balance' <= Worth(Counted')
  BY <1>1, <1>4 DEF BudgetBalances, Counted, Balance, Worth, Points
<1>7. Balance \in Int /\ Balance' \in Int
  BY <1>2 DEF Balance
<1>8. CASE Consume(c)
  <2>1. Counted' = Counted /\ score' >= 0
    BY <1>2, <1>8 DEF Consume, Counted
  <2>2. Balance' = Balance
    <3>1. score' = score - Threshold /\ spent' = spent + 1
      BY <1>8 DEF Consume
    <3>2. Threshold * (spent + 1) = Threshold * spent + Threshold
      BY <1>2
    <3> QED
      BY <1>2, <3>1, <3>2 DEF Balance
  <2> QED
    BY <1>5, <2>1, <2>2
<1>9. CASE Restore(c)
  <2>1. Counted' = Counted /\ score' >= 0
    BY <1>2, <1>5, <1>9 DEF Restore, Counted
  <2>2. Balance' = Balance
    <3>1. score' = score + Threshold /\ spent' = spent - 1
      BY <1>9 DEF Restore
    <3>2. Threshold * (spent - 1) = Threshold * spent - Threshold
      BY <1>2
    <3> QED
      BY <1>2, <3>1, <3>2 DEF Balance
  <2> QED
    BY <1>5, <2>1, <2>2
<1>10. CASE Store(c)
  <2>1. score' = score /\ Balance' = Balance /\ credited' = credited /\ entries \subseteq entries'
    BY <1>1, <1>10, RowsStay DEF Store, Balance
  <2>2. Worth(Counted) <= Worth(Counted')
    <3>1. Counted \subseteq Counted'
      BY <2>1 DEF Counted
    <3> QED
      BY <1>3, <3>1, WorthGrows
  <2>3. exclusive => Counted' = Counted
    <3>1. SUFFICES ASSUME exclusive PROVE Counted' = Counted
      OBVIOUS
    <3>2. entries' = entries \cup Offered(c) /\ RowsOf(job[c], kind[c]) = {} /\ job[c] # NoJob
      BY <1>1, <1>10, <3>1, AloneStoresAll DEF Store, Coherent
    <3>3. \A e \in Offered(c) : e.job = job[c] /\ e.kind = kind[c]
      BY <3>2, OfferedAreRows
    <3>4. kind[c] = "observation" => job[c] \notin credited
      BY <3>2 DEF Earned
    <3> QED
      BY <2>1, <3>2, <3>3, <3>4 DEF Counted
  <2> HIDE DEF Counted
  <2> QED
    BY <1>3, <1>5, <1>7, <2>1, <2>2, <2>3
<1>11. CASE Credit(c) /\ job[c] \in credited
  <2>1. Counted' = Counted /\ score' = score /\ Balance' = Balance
    BY <1>11 DEF Credit, Counted, Balance
  <2> QED
    BY <1>5, <2>1
<1>12. CASE Credit(c) /\ job[c] \notin credited
  <2> DEFINE new == RowsOf(job[c], "observation")
  <2>1. Counted' = Counted \cup new /\ Counted \cap new = {}
    BY <1>12 DEF Credit, Counted, RowsOf
  <2>2. IsFiniteSet(new)
    <3>1. new \subseteq entries
      BY DEF RowsOf
    <3> QED
      BY <3>1, FS_Subset DEF Shape
  <2>3. rows[c] \subseteq new
    BY <1>1, <1>12 DEF Credit, Coherent, RowsOf, Shape
  <2>4. exclusive => rows[c] = new
    BY <1>1, <1>12 DEF Fresh, Credit
  <2> HIDE DEF new
  <2>5. Worth(Counted \cup new) = Worth(Counted) + Worth(new)
    BY <1>3, <2>1, <2>2, WorthAdds
  <2>6. Worth(Counted') = Worth(Counted) + Worth(new)
    BY <2>1, <2>5, Zenon
  <2>7. Worth(rows[c]) <= Worth(new) /\ Worth(rows[c]) \in Nat /\ Worth(new) \in Nat
    BY <2>2, <2>3, WorthGrows
  <2>8. exclusive => Worth(rows[c]) = Worth(new)
    BY <2>4, Zenon
  <2>9. score' = score + Worth(rows[c]) /\ spent' = spent
    BY <1>12 DEF Credit
  <2>10. Balance' = Balance + Worth(rows[c])
    <3>1. Threshold * spent \in Nat
      BY <1>2
    <3> QED
      BY <1>2, <2>7, <2>9, <3>1 DEF Balance
  <2> QED
    BY <1>2, <1>3, <1>5, <1>7, <2>6, <2>7, <2>8, <2>9, <2>10
<1>13. CASE ~Consume(c) /\ ~Restore(c) /\ ~Store(c) /\ ~Credit(c)
  <2>1. UNCHANGED <<entries, credited, score, spent>>
    BY <1>13 DEF Moves, Step, Begin, Extract, Reflect, Look, Compare, Reread,
                NoBudget, Finish, ReflectionThrows, Die, store
  <2>2. Counted' = Counted /\ Balance' = Balance
    BY <2>1 DEF Counted, Balance
  <2> QED
    BY <1>5, <2>1, <2>2
<1> QED
  BY <1>8, <1>9, <1>10, <1>11, <1>12, <1>13

-----------------------------------------------------------------------------
LEMMA InitInv == Init => IInv
<1> SUFFICES ASSUME Init PROVE IInv
  OBVIOUS
<1> USE MemoryAssumption DEF Init
<1>1. IsFiniteSet({}) /\ Cardinality({}) = 0
  BY FS_EmptySet
<1>2. <<>> \in Seq(Contents)
  OBVIOUS
<1>3. Shape
  BY <1>1, <1>2 DEF Shape, Steps, Kinds
<1>4. Held
  BY DEF Held, Coherent, Fresh
<1>5. Paid
  <2>1. Reflecting = {}
    BY DEF Reflecting
  <2> QED
    BY <1>1, <2>1 DEF Paid
<1>6. Earned /\ Alone /\ NoDuplicates
  BY DEF Earned, Alone, NoDuplicates
<1>7. BudgetBalances
  <2>1. Counted = {} /\ Balance = 0
    BY DEF Counted, Balance
  <2>2. Worth(Counted) = 0
    BY <2>1, NothingIsWorthNothing, Zenon
  <2> QED
    BY <2>1, <2>2, BalanceUnfolds
<1>8. RetriesResume
  BY DEF RetriesResume, PastObservations
<1> QED
  BY <1>3, <1>4, <1>5, <1>6, <1>7, <1>8 DEF IInv

LEMMA NextIsAMove == Next => \E c \in Consolidators : Moves(c)
BY DEF Next, Moves

LEMMA StepInv == IInv /\ [Next]_vars => IInv'
<1> SUFFICES ASSUME IInv, [Next]_vars PROVE IInv'
  OBVIOUS
<1>1. CASE Next
  <2>1. PICK c \in Consolidators : Moves(c)
    BY <1>1, NextIsAMove
  <2>2. Shape /\ Held /\ Paid /\ Earned /\ Alone /\ Coherent(c) /\ Fresh(c)
        /\ NoDuplicates /\ BudgetBalances /\ RetriesResume
    BY DEF IInv, Held
  <2>3. Shape' /\ Held' /\ Paid' /\ Earned' /\ Alone'
    BY <2>1, <2>2, StepsAreLocal, HeldStays, PaidStays, EarnedStays, AloneStays
  <2>4. NoDuplicates' /\ RetriesResume' /\ BudgetBalances'
    BY <2>1, <2>2, NoDuplicatesStays, RetriesResumeStays, BudgetBalancesStays
  <2> QED
    BY <2>3, <2>4 DEF IInv
<1>2. CASE UNCHANGED vars
  <2>1. UNCHANGED <<exclusive, entries, credited, score, spent, pc, job, kind, batch, rows, blank, failures>>
    BY <1>2 DEF vars, store, execution
  <2>2. Shape' /\ Paid' /\ Earned' /\ Alone'
    BY <2>1 DEF IInv, Shape, Paid, Reflecting, Earned, RowsOf, Alone
  <2>3. Held'
    BY <2>1 DEF IInv, Held, Coherent, Fresh, Clear, RowsOf
  <2>4. NoDuplicates' /\ RetriesResume'
    BY <2>1 DEF IInv, NoDuplicates, RetriesResume, PastObservations, Uncounted, RowsOf
  <2>5. BudgetBalances'
    BY <2>1 DEF IInv, BudgetBalances, Worth, Points
  <2> QED
    BY <2>2, <2>3, <2>4, <2>5 DEF IInv
<1> QED
  BY <1>1, <1>2

LEMMA Invariance == Spec => []IInv
BY InitInv, StepInv, PTL DEF Spec

(* The types, with what an execution holds at each step: it knows its job, *)
(* has a batch only while it stores one and rows of its own job only.      *)
THEOREM TypeInvariant == Spec => []TypeOK
<1>1. IInv => TypeOK
  BY DEF IInv, Shape, Held, Coherent, Paid, TypeOK, Rows, Steps
<1> QED
  BY <1>1, Invariance, PTL

(* Where the worker serialises a relationship, the similarity check made   *)
(* outside of the inserting transaction never lets two similar memories    *)
(* of a kind in, whatever the jobs, retries and failures.                  *)
THEOREM NoDuplicatesHolds == Spec => []NoDuplicates
<1>1. IInv => NoDuplicates
  BY DEF IInv
<1> QED
  BY <1>1, Invariance, PTL

(* The reflection budget is the worth of the observations counted, less    *)
(* what reflections have spent and not given back; with overlapping        *)
(* deliveries never more.                                                  *)
THEOREM BudgetBalancesHolds == Spec => []BudgetBalances
<1>1. IInv => BudgetBalances
  BY DEF IInv
<1> QED
  BY <1>1, Invariance, PTL

(* An execution that is past its observations has those of its job counted *)
(* unless its own extraction found nothing.                                *)
THEOREM RetriesResumeHolds == Spec => []RetriesResume
<1>1. IInv => RetriesResume
  BY DEF IInv
<1> QED
  BY <1>1, Invariance, PTL

(* The rows of an operation, once there, never change: a redelivery with   *)
(* another extraction adds nothing to them.                                *)
THEOREM BatchesAreFinalHolds == Spec => BatchesAreFinal
<1>1. ASSUME IInv, Next, exclusive, NEW j \in Jobs, NEW k \in Kinds, RowsOf(j, k) # {}
      PROVE  RowsOf(j, k)' = RowsOf(j, k)
  <2>1. PICK c \in Consolidators : Moves(c)
    BY <1>1, NextIsAMove
  <2>2. Shape /\ Coherent(c) /\ Fresh(c)
    BY <1>1 DEF IInv, Held
  <2>3. CASE entries' = entries
    BY <2>3 DEF RowsOf
  <2>4. CASE Store(c)
    <3>1. <<j, k>> # <<job[c], kind[c]>>
      BY <1>1, <2>2, <2>4, AloneStoresAll
    <3> QED
      BY <2>2, <2>4, <3>1, StoreIsItsOwn DEF RowsOf
  <2> QED
    BY <2>1, <2>2, <2>3, <2>4, RowsStay
<1>2. IInv /\ [Next]_vars => [exclusive => \A j \in Jobs, k \in Kinds :
        RowsOf(j, k) # {} => RowsOf(j, k)' = RowsOf(j, k)]_vars
  BY <1>1
<1> QED
  BY <1>2, Invariance, PTL DEF Spec, BatchesAreFinal

=============================================================================
