-------------------- MODULE ConversationProjection_proofs --------------------
(***************************************************************************)
(* What the projection of a conversation and its scheduler return, for any *)
(* documents of the runs and any branch of the transcript.                 *)
(***************************************************************************)
EXTENDS ConversationProjection, FiniteSetTheorems, SequenceTheorems, WellFoundedInduction,
        TLAPS

\* R orders any two elements of S, strictly.
StrictOrder(R, S) ==
  /\ \A x \in S : <<x, x>> \notin R
  /\ \A x, y, z \in S : <<x, y>> \in R /\ <<y, z>> \in R => <<x, z>> \in R
  /\ \A x, y \in S : x = y \/ <<x, y>> \in R \/ <<y, x>> \in R

\* A finite set with a strict total order can be listed in that order.
LEMMA Listing ==
  ASSUME NEW S, IsFiniteSet(S), NEW R, StrictOrder(R, S)
  PROVE  \E f \in [1 .. Cardinality(S) -> S] :
           /\ \A x \in S : \E i \in 1 .. Cardinality(S) : f[i] = x
           /\ \A i, j \in 1 .. Cardinality(S) : i < j => <<f[i], f[j]>> \in R
<1> DEFINE n == Cardinality(S)
           Below(x) == {y \in S : <<y, x>> \in R}
           Rank == [x \in S |-> Cardinality(Below(x)) + 1]
<1>1. n \in Nat
  BY FS_CardinalityType
<1>2. \A x \in S : IsFiniteSet(Below(x)) /\ Cardinality(Below(x)) \in Nat
  BY FS_Subset, FS_CardinalityType
<1>3. ASSUME NEW x \in S, NEW y \in S, <<x, y>> \in R
      PROVE  Rank[x] < Rank[y]
  <2>1. Below(x) \in SUBSET Below(y) /\ x \in Below(y) /\ x \notin Below(x)
    BY <1>3 DEF StrictOrder
  <2>2. Cardinality(Below(x)) <= Cardinality(Below(y)) /\ Cardinality(Below(x)) # Cardinality(Below(y))
    BY <1>2, <2>1, FS_Subset
  <2> QED
    BY <1>2, <2>2
<1>4. ASSUME NEW x \in S
      PROVE  Rank[x] \in 1 .. n
  <2>1. Below(x) \in SUBSET S /\ x \notin Below(x)
    BY DEF StrictOrder
  <2>2. Cardinality(Below(x)) <= n /\ Cardinality(Below(x)) # n
    BY <2>1, FS_Subset
  <2> QED
    BY <1>1, <1>2, <2>2
<1>5. Rank \in Injection(S, 1 .. n)
  <2>1. Rank \in [S -> 1 .. n]
    BY <1>4
  <2>2. ASSUME NEW x \in S, NEW y \in S, Rank[x] = Rank[y]
        PROVE  x = y
    <3>1. Rank[x] \in Int
      BY <1>4
    <3> HIDE DEF Rank
    <3>2. <<x, y>> \notin R
      BY <1>3, <2>2, <3>1
    <3>3. <<y, x>> \notin R
      BY <1>3, <2>2, <3>1
    <3> QED
      BY <3>2, <3>3 DEF StrictOrder
  <2> HIDE DEF Rank
  <2> QED
    BY <2>1, <2>2 DEF Injection, IsInjective
<1>6. Rank \in Surjection(S, 1 .. n)
  <2>1. IsFiniteSet(1 .. n) /\ Cardinality(1 .. n) = n
    BY <1>1, FS_Interval
  <2> HIDE DEF Rank
  <2> QED
    BY <1>5, <2>1, FS_Injection
<1>7. \A i \in 1 .. n : \E x \in S : Rank[x] = i
  <2> HIDE DEF Rank
  <2> QED
    BY <1>6 DEF Surjection
<1> DEFINE f == [i \in 1 .. n |-> CHOOSE x \in S : Rank[x] = i]
<1>8. \A i \in 1 .. n : f[i] \in S /\ Rank[f[i]] = i
  <2> HIDE DEF Rank
  <2> QED
    BY <1>7
<1>9. f \in [1 .. n -> S]
  <2> HIDE DEF Rank
  <2> QED
    BY <1>7
<1> HIDE DEF f
<1>10. ASSUME NEW x \in S
       PROVE  \E i \in 1 .. n : f[i] = x
  <2>1. Rank[x] \in 1 .. n /\ f[Rank[x]] \in S /\ Rank[f[Rank[x]]] = Rank[x]
    BY <1>4, <1>8
  <2> HIDE DEF Rank
  <2>2. f[Rank[x]] = x
    BY <1>5, <2>1 DEF Injection, IsInjective
  <2> QED
    BY <2>1, <2>2
<1>11. ASSUME NEW i \in 1 .. n, NEW j \in 1 .. n, i < j
       PROVE  <<f[i], f[j]>> \in R
  <2>1. f[i] \in S /\ f[j] \in S /\ Rank[f[i]] = i /\ Rank[f[j]] = j
    BY <1>8
  <2>2. ~(<<f[j], f[i]>> \in R)
    <3> HIDE DEF Rank
    <3> QED
      BY <1>1, <1>3, <1>11, <2>1
  <2>3. f[i] # f[j]
    <3> HIDE DEF Rank
    <3> QED
      BY <1>1, <1>11, <2>1
  <2> QED
    BY <2>1, <2>2, <2>3 DEF StrictOrder
<1> QED
  BY <1>9, <1>10, <1>11

\* A set of numbers has a least one.
LEMMA Least ==
  ASSUME NEW T, T \subseteq Nat, T # {}
  PROVE  \E n \in T : \A m \in T : n <= m
<1>1. PICK n \in T : \A m \in T : ~(<<m, n>> \in OpToRel(<, Nat))
  <2>1. IsWellFoundedOn(OpToRel(<, Nat), Nat)
    BY NatLessThanWellFounded
  <2> QED
    BY <2>1, WFMin
<1>2. \A m \in T : ~(m < n)
  BY <1>1 DEF OpToRel
<1> QED
  BY <1>2

\* Where on the branch the entry of a run is.
PlaceOf(docs, branch, r) == IndexOn(branch, PlacingEntry(r, docs[r]))

\* visibleOrdinaryConversationRuns lists the runs that an entry places on the branch: every
\* one of them once, in the order of their entries, and in the order of birth at the same entry.
THEOREM OnBranchListed ==
  ASSUME NEW docs, NEW branch \in Seq(Entries), NEW listed, listed = OnBranch(docs, branch)
  PROVE  /\ listed \in Seq(Present(docs))
         /\ \A i, j \in 1 .. Len(listed) : listed[i] = listed[j] => i = j
         /\ \A r \in Present(docs) : PlacingEntry(r, docs[r]) \in ToSet(branch) =>
              \E i \in 1 .. Len(listed) : listed[i] = r
         /\ \A i, j \in 1 .. Len(listed) : i < j =>
              \/ PlaceOf(docs, branch, listed[i]) < PlaceOf(docs, branch, listed[j])
              \/ /\ PlaceOf(docs, branch, listed[i]) = PlaceOf(docs, branch, listed[j])
                 /\ listed[i] < listed[j]
<1> DEFINE placed == {r \in Present(docs) : PlacingEntry(r, docs[r]) \in ToSet(branch)}
           At(r) == IndexOn(branch, PlacingEntry(r, docs[r]))
           Before(a, b) == At(a) < At(b) \/ (At(a) = At(b) /\ a < b)
           R == {p \in placed \X placed : Before(p[1], p[2])}
           n == Cardinality(placed)
           Sorted(runs) == \A i, j \in DOMAIN runs : i < j => Before(runs[i], runs[j])
<1>1. placed \in SUBSET Runs /\ Runs \subseteq Nat /\ placed \subseteq Present(docs)
  BY RunsAssumption DEF Present, Runs
<1>2. IsFiniteSet(placed)
  <2>1. IsFiniteSet(Runs)
    BY FS_Interval, RunsAssumption DEF Runs
  <2> HIDE DEF placed
  <2> QED
    BY <1>1, <2>1, FS_Subset
<1>3. n \in Nat
  BY <1>2, FS_CardinalityType
<1>4. \A r \in placed : At(r) \in Nat
  BY DEF IndexOn, ToSet
<1> HIDE DEF placed, At, n
<1>5. StrictOrder(R, placed)
  <2>1. \A x, y \in placed : <<x, y>> \in R <=> Before(x, y)
    OBVIOUS
  <2>2. \A x, y \in placed : x \in Nat /\ At(x) \in Nat
    BY <1>1, <1>4
  <2>3. \A x \in placed : ~Before(x, x)
    BY <2>2
  <2>4. \A x, y, z \in placed : Before(x, y) /\ Before(y, z) => Before(x, z)
    BY <2>2
  <2>5. \A x, y \in placed : x = y \/ Before(x, y) \/ Before(y, x)
    BY <2>2
  <2> HIDE DEF Before, R
  <2> QED
    BY <2>1, <2>3, <2>4, <2>5 DEF StrictOrder
<1>6. PICK f \in [1 .. n -> placed] :
        \A i, j \in 1 .. n : i < j => <<f[i], f[j]>> \in R
  <2> HIDE DEF R
  <2> QED
    BY <1>2, <1>5, Listing DEF n
<1>7. Sorted(f)
  <2>1. DOMAIN f = 1 .. n /\ \A i \in 1 .. n : f[i] \in placed
    OBVIOUS
  <2>2. ASSUME NEW i \in 1 .. n, NEW j \in 1 .. n, i < j
        PROVE  Before(f[i], f[j])
    <3>1. <<f[i], f[j]>> \in R
      BY <1>6, <2>2
    <3> HIDE DEF Before
    <3> QED
      BY <3>1
  <2> HIDE DEF Before
  <2> QED
    BY <2>1, <2>2
<1>8. OnBranch(docs, branch) = CHOOSE runs \in [1 .. n -> placed] : Sorted(runs)
  BY DEF OnBranch, placed, At, n
<1>10. listed \in [1 .. n -> placed] /\ Sorted(listed)
  <2> HIDE DEF Sorted
  <2> QED
    BY <1>7, <1>8
<1>11. listed \in Seq(Present(docs)) /\ Len(listed) = n
  <2>1. listed \in [1 .. n -> Present(docs)]
    BY <1>1, <1>10
  <2> QED
    BY <1>3, <2>1, SeqDef, LenProperties
<1>12. \A i, j \in 1 .. n : i < j => Before(listed[i], listed[j])
  <2>1. DOMAIN listed = 1 .. n
    BY <1>10
  <2> HIDE DEF Before
  <2> QED
    BY <1>10, <2>1
<1>13. \A i, j \in 1 .. n : listed[i] = listed[j] => i = j
  <2>1. ASSUME NEW i \in 1 .. n, NEW j \in 1 .. n, i < j
        PROVE  listed[i] # listed[j]
    <3>1. listed[i] \in placed /\ listed[j] \in placed /\ Before(listed[i], listed[j])
      BY <1>10, <1>12, <2>1
    <3>2. listed[i] \in Nat /\ At(listed[i]) \in Nat
      BY <1>1, <1>4, <3>1
    <3> QED
      BY <3>1, <3>2
  <2> HIDE DEF Before, Sorted
  <2> QED
    BY <1>3, <2>1
<1>14. listed \in Surjection(1 .. n, placed)
  <2>1. IsFiniteSet(1 .. n) /\ Cardinality(1 .. n) = n
    BY <1>3, FS_Interval
  <2>2. listed \in Injection(1 .. n, placed)
    BY <1>10, <1>13 DEF Injection, IsInjective
  <2> QED
    BY <1>2, <2>1, <2>2, FS_Injection DEF n
<1>15. \A r \in placed : \E i \in 1 .. n : listed[i] = r
  BY <1>14 DEF Surjection
<1> QED
  BY <1>11, <1>12, <1>13, <1>15 DEF placed, At, PlaceOf

\* A list of runs of the conversation, none of them twice.
Listings(docs) ==
  {runs \in Seq(Present(docs)) : \A i, j \in 1 .. Len(runs) : runs[i] = runs[j] => i = j}

\* One turn that follows the last is added, a run of the conversation that was not there.
LEMMA ExtendedRuns ==
  ASSUME NEW docs, NEW runs \in Listings(docs)
  PROVE  Extended(docs, runs) \in Listings(docs)
<1> DEFINE next == Followers(docs, runs)
<1>1. runs \in Seq(Present(docs)) /\ \A i, j \in 1 .. Len(runs) : runs[i] = runs[j] => i = j
  BY DEF Listings
<1>2. CASE \E r \in next : next = {r}
  <2>1. PICK r : r = CHOOSE q \in next : TRUE
    OBVIOUS
  <2>2. r \in Present(docs) /\ r \notin ToSet(runs)
    <3>1. r \in next
      BY <1>2, <2>1
    <3> QED
      BY <3>1 DEF Followers
  <2>3. PICK longer : longer = Append(runs, r)
    OBVIOUS
  <2>4. /\ longer \in Seq(Present(docs)) /\ Len(longer) = Len(runs) + 1
        /\ longer[Len(longer)] = r /\ \A i \in 1 .. Len(runs) : longer[i] = runs[i]
    BY <1>1, <2>2, <2>3, AppendProperties
  <2>5. \A i \in 1 .. Len(runs) : runs[i] # r
    BY <1>1, <2>2, LenProperties DEF ToSet
  <2>6. Len(runs) \in Nat
    BY <1>1, LenProperties
  <2>7. \A i, j \in 1 .. Len(longer) : longer[i] = longer[j] => i = j
    <3>1. \A i \in 1 .. Len(longer) : i \in 1 .. Len(runs) \/ i = Len(longer)
      BY <2>4, <2>6
    <3> QED
      BY <1>1, <2>4, <2>5, <2>6, <3>1
  <2>8. Extended(docs, runs) = longer
    BY <1>2, <2>1, <2>3 DEF Extended
  <2> QED
    BY <2>4, <2>7, <2>8 DEF Listings
<1>3. CASE ~\E r \in next : next = {r}
  BY <1>3 DEF Extended
<1> QED
  BY <1>2, <1>3

\* What is visible is runs of the conversation, and none of them twice, however often the
\* list is extended.
THEOREM VisibleListed ==
  ASSUME NEW docs, NEW branch \in Seq(Entries)
  PROVE  Visible(docs, branch) \in Listings(docs)
<1> DEFINE Q == Listings(docs)
           A == OnBranch(docs, branch)
           Step(x) == CHOOSE longer \in {Extended(docs, runs) : runs \in {x}} : TRUE
           Lists(m, g) == g = [n \in 0 .. m |-> IF n = 0 THEN A ELSE Step(g[n - 1])]
           Fails == {m \in 0 .. MaxRuns : ~\E g \in [0 .. m -> Q] : Lists(m, g)}
<1>1. A \in Q
  BY OnBranchListed DEF A, Listings
<1>2. \A x \in Q : Step(x) \in Q
  BY ExtendedRuns
<1>3. MaxRuns \in Nat
  BY RunsAssumption
<1> HIDE DEF A, Q, Step
<1>4. Fails = {}
  <2> SUFFICES ASSUME Fails # {}
               PROVE  FALSE
    OBVIOUS
  <2>1. PICK m \in Fails : \A k \in Fails : m <= k
    <3>1. Fails \subseteq Nat
      BY <1>3
    <3> HIDE DEF Fails
    <3> QED
      BY <3>1, Least
  <2>2. m \in 0 .. MaxRuns /\ ~\E g \in [0 .. m -> Q] : Lists(m, g)
    OBVIOUS
  <2>3. CASE m = 0
    <3> DEFINE h == [n \in 0 .. 0 |-> A]
    <3>1. h \in [0 .. 0 -> Q]
      BY <1>1
    <3>2. h = [n \in 0 .. 0 |-> IF n = 0 THEN A ELSE Step(h[n - 1])]
      OBVIOUS
    <3> QED
      BY <2>2, <2>3, <3>1, <3>2
  <2>4. CASE m # 0
    <3>1. m - 1 \in 0 .. MaxRuns /\ m - 1 \notin Fails /\ m \in Nat
      <4>1. m \in Nat /\ m - 1 \in 0 .. MaxRuns
        BY <1>3, <2>2, <2>4
      <4> HIDE DEF Fails
      <4> QED
        BY <2>1, <4>1
    <3>2. PICK g \in [0 .. m - 1 -> Q] : Lists(m - 1, g)
      BY <3>1
    <3> DEFINE h == [n \in 0 .. m |-> IF n = m THEN Step(g[m - 1]) ELSE g[n]]
    <3>3. h \in [0 .. m -> Q]
      <4>1. g[m - 1] \in Q
        BY <3>1
      <4>2. \A n \in 0 .. m : n # m => n \in 0 .. m - 1
        BY <3>1
      <4> QED
        BY <1>2, <4>1, <4>2
    <3>4. ASSUME NEW n \in 0 .. m
          PROVE  h[n] = IF n = 0 THEN A ELSE Step(h[n - 1])
      <4>1. \A k \in 0 .. m - 1 : h[k] = g[k] /\ g[k] = IF k = 0 THEN A ELSE Step(g[k - 1])
        BY <3>1, <3>2
      <4>2. CASE n = m
        <5>1. h[n] = Step(g[m - 1]) /\ m - 1 \in 0 .. m - 1 /\ n # 0
          BY <2>4, <3>1, <4>2
        <5> HIDE DEF h
        <5> QED
          BY <4>1, <4>2, <5>1
      <4>3. CASE n # m
        <5>1. n \in 0 .. m - 1 /\ (n # 0 => n - 1 \in 0 .. m - 1)
          BY <3>1, <4>3
        <5> HIDE DEF h
        <5> QED
          BY <4>1, <5>1
      <4> QED
        BY <4>2, <4>3
    <3>5. h = [n \in 0 .. m |-> IF n = 0 THEN A ELSE Step(h[n - 1])]
      <4>1. DOMAIN h = 0 .. m /\ h = [n \in 0 .. m |-> h[n]]
        OBVIOUS
      <4> HIDE DEF h
      <4> QED
        BY <3>4, <4>1
    <3> HIDE DEF h
    <3> QED
      BY <2>2, <3>3, <3>5
  <2> QED
    BY <2>3, <2>4
<1>5. \E g \in [0 .. MaxRuns -> Q] : Lists(MaxRuns, g)
  <2>1. MaxRuns \in 0 .. MaxRuns
    BY <1>3
  <2>2. MaxRuns \notin Fails
    BY <1>4
  <2> HIDE DEF Lists
  <2> QED
    BY <2>1, <2>2
<1> DEFINE extend == CHOOSE g : Lists(MaxRuns, g)
<1>6. Lists(MaxRuns, extend)
  <2> HIDE DEF Lists
  <2> QED
    BY <1>5
<1>7. Visible(docs, branch) = extend[MaxRuns]
  BY DEF Visible, A, Step
<1> HIDE DEF extend
<1>8. extend[0] = A /\ \A n \in 1 .. MaxRuns : extend[n] = Step(extend[n - 1])
  <2>1. \A n \in 0 .. MaxRuns : extend[n] = IF n = 0 THEN A ELSE Step(extend[n - 1])
    BY <1>6
  <2> QED
    BY <1>3, <2>1
<1> DEFINE Wrong == {m \in 0 .. MaxRuns : extend[m] \notin Q}
<1>9. Wrong = {}
  <2> SUFFICES ASSUME Wrong # {}
               PROVE  FALSE
    OBVIOUS
  <2>1. PICK m \in Wrong : \A k \in Wrong : m <= k
    <3>1. Wrong \subseteq Nat
      BY <1>3
    <3> HIDE DEF Wrong
    <3> QED
      BY <3>1, Least
  <2>2. m \in 0 .. MaxRuns /\ extend[m] \notin Q
    OBVIOUS
  <2>3. m # 0
    BY <1>1, <1>8, <2>2
  <2>4. m - 1 \in 0 .. MaxRuns /\ extend[m - 1] \in Q
    BY <1>3, <2>1, <2>2, <2>3
  <2> QED
    BY <1>2, <1>3, <1>8, <2>2, <2>3, <2>4
<1>10. MaxRuns \in 0 .. MaxRuns
  BY <1>3
<1> QED
  BY <1>7, <1>9, <1>10 DEF Q

\* In particular it is a sequence of them.
LEMMA VisibleRuns ==
  ASSUME NEW docs, NEW branch \in Seq(Entries)
  PROVE  Visible(docs, branch) \in Seq(Present(docs))
BY VisibleListed DEF Listings

\* The last of them, or none.
LEMMA LastRunIs ==
  ASSUME NEW docs, NEW branch \in Seq(Entries)
  PROVE  LastRun(Visible(docs, branch)) \in Present(docs) \cup {NoRun}
<1> DEFINE runs == Visible(docs, branch)
<1>1. runs \in Seq(Present(docs))
  BY VisibleRuns
<1> HIDE DEF runs
<1>2. CASE runs = <<>>
  BY <1>2 DEF LastRun, runs
<1>3. CASE runs # <<>>
  <2>1. Len(runs) \in 1 .. Len(runs)
    BY <1>1, <1>3, EmptySeq
  <2>2. runs[Len(runs)] \in Present(docs)
    BY <1>1, <2>1, ElementOfSeq
  <2> QED
    BY <1>3, <2>2 DEF LastRun, Last, runs
<1> QED
  BY <1>2, <1>3

\* nextEligibleQueuedRun finds the first queued run if all before it are cleared, and
\* nothing only if none of the queued runs is next.
THEOREM NextEligible ==
  ASSUME NEW docs, NEW facts, NEW runs \in Seq(Runs),
         NEW r, r = NextEligibleQueued(runs, docs, facts)
  PROVE  /\ r # NoRun => \E i \in 1 .. Len(runs) :
              /\ runs[i] = r /\ docs[r].status = "queued"
              /\ \A j \in 1 .. (i - 1) : /\ BarrierCleared(docs[runs[j]], facts[runs[j]])
                                         /\ docs[runs[j]].status # "queued"
         /\ r = NoRun => \A i \in 1 .. Len(runs) : docs[runs[i]].status = "queued" =>
              \E j \in 1 .. (i - 1) : ~BarrierCleared(docs[runs[j]], facts[runs[j]])
<1> DEFINE Cleared(i) == BarrierCleared(docs[runs[i]], facts[runs[i]])
           eligible == {i \in DOMAIN runs : /\ docs[runs[i]].status = "queued"
                                            /\ \A j \in 1 .. (i - 1) : Cleared(j)}
<1>1. DOMAIN runs = 1 .. Len(runs) /\ \A i \in 1 .. Len(runs) : runs[i] \in Runs
  BY LenProperties, ElementOfSeq
<1>2. r = IF eligible = {} THEN NoRun ELSE runs[CHOOSE i \in eligible : TRUE]
  BY DEF NextEligibleQueued
<1>3. NoRun \notin Runs
  BY RunsAssumption DEF NoRun, Runs
<1>4. CASE eligible = {}
  <2>1. \A i \in 1 .. Len(runs) : docs[runs[i]].status = "queued" =>
          \E j \in 1 .. (i - 1) : ~Cleared(j)
    BY <1>1, <1>4
  <2> QED
    BY <1>2, <1>4, <2>1
<1>5. CASE eligible # {}
  <2>1. PICK i \in eligible : r = runs[i]
    <3> HIDE DEF eligible
    <3> QED
      BY <1>2, <1>5
  <2>2. i \in 1 .. Len(runs) /\ docs[r].status = "queued" /\ \A j \in 1 .. (i - 1) : Cleared(j)
    BY <1>1, <2>1
  <2>3. \A j \in 1 .. (i - 1) : docs[runs[j]].status # "queued"
    BY <2>2 DEF BarrierCleared, Terminal, Ended
  <2>4. r # NoRun
    BY <1>1, <1>3, <2>1, <2>2
  <2> QED
    BY <2>1, <2>2, <2>3, <2>4
<1> QED
  BY <1>4, <1>5
=============================================================================
