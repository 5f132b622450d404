---------------------------- MODULE BatchesProofs ----------------------------
(***************************************************************************)
(* Theorems about Batches, for any number of jobs, any limit and any jobs  *)
(* that cannot be deleted, as long as they are fewer than the limit.       *)
(***************************************************************************)
EXTENDS Batches, FiniteSetTheorems, WellFoundedInduction, TLAPS

(* What Selected returns is defined by recursion on the length, so the argument *)
(* goes from the empty beginning to the whole sequence.                         *)

Less == {pair \in Nat \X Nat : pair[1] < pair[2]}

\* Every nonempty set of natural numbers has a least element.
LEMMA LeastElement ==
    ASSUME NEW T \in SUBSET Nat, T # {}
    PROVE  \E x \in T : \A y \in T : x <= y
<1>1. OpToRel(<, Nat) = Less
    BY DEF OpToRel, Less
<1>2. IsWellFoundedOn(Less, Nat)
    BY <1>1, NatLessThanWellFounded
<1>3. PICK x \in T : \A y \in T : ~ (<<y, x>> \in Less)
    BY <1>2, WFMin, Zenon
<1>4. ASSUME NEW y \in T PROVE x <= y
  <2>1. x \in Nat /\ y \in Nat
      OBVIOUS
  <2>2. ~ (y < x)
      BY <1>3, <2>1 DEF Less
  <2> QED
      BY <2>1, <2>2
<1> QED
    BY <1>4

\* What holds at 0, and after each one if at it, holds of the last.
LEMMA UpToLast ==
    ASSUME NEW last \in Nat, NEW Good \in SUBSET (0..last),
           0 \in Good,
           \A n \in Good : n < last => n + 1 \in Good
    PROVE  last \in Good
<1> SUFFICES ASSUME last \notin Good PROVE FALSE
    OBVIOUS
<1> DEFINE Bad == {n \in 0..last : n \notin Good}
<1>1. Bad \in SUBSET Nat /\ Bad # {}
    OBVIOUS
<1>2. PICK least \in Bad : \A n \in Bad : least <= n
    BY <1>1, LeastElement
<1>3. least - 1 \in 0..last /\ least - 1 < last /\ (least - 1) + 1 = least
    BY <1>2
<1>4. least - 1 \notin Bad
    BY <1>2, <1>3
<1> QED
    BY <1>2, <1>3, <1>4

\* What is selected of the first n elements, given what is of the first n - 1.
SelectedOf(seq, chosen, before, n) ==
    IF n = 0 THEN <<>>
    ELSE IF seq[n] \in chosen THEN Append(before[n - 1], seq[n])
    ELSE before[n - 1]

\* The recursion defines a function: it can be built up from nothing.
LEMMA SelectedRecur ==
    ASSUME NEW seq, Len(seq) \in Nat, NEW chosen
    PROVE  \E upTo : /\ upTo = [n \in 0..Len(seq) |-> SelectedOf(seq, chosen, upTo, n)]
                     /\ Selected(seq, chosen) = upTo[Len(seq)]
<1> DEFINE last == Len(seq)
           Of(before, n) == SelectedOf(seq, chosen, before, n)
           Built(n) == \E f : f = [m \in 0..n |-> Of(f, m)]
           T == {n \in 0..last : Built(n)}
<1>1. 0 \in T
  <2> DEFINE f == [m \in 0..0 |-> <<>>]
  <2>1. f = [m \in 0..0 |-> Of(f, m)]
      BY DEF SelectedOf
  <2>2. Built(0)
    <3> HIDE DEF f, Of
    <3> QED
        BY <2>1
  <2> HIDE DEF Built
  <2> QED
      BY <2>2
<1>2. ASSUME NEW n \in T, n < last PROVE n + 1 \in T
  <2>1. PICK f : f = [m \in 0..n |-> Of(f, m)]
      BY <1>2
  <2>2. n \in Nat
      BY <1>2
  <2> DEFINE g == [m \in 0..(n + 1) |-> IF m = n + 1 THEN Of(f, m) ELSE f[m]]
  <2>3. ASSUME NEW m \in 0..(n + 1) PROVE Of(g, m) = Of(f, m)
    <3>1. CASE m = 0
        BY <3>1 DEF SelectedOf
    <3>2. CASE m # 0
      <4>1. m - 1 \in 0..(n + 1) /\ m - 1 # n + 1
          BY <2>2, <3>2
      <4>2. g[m - 1] = f[m - 1]
          BY <4>1
      <4> HIDE DEF g
      <4> QED
          BY <3>2, <4>2 DEF SelectedOf
    <3> QED
        BY <3>1, <3>2
  <2>4. ASSUME NEW m \in 0..(n + 1) PROVE g[m] = Of(g, m)
    <3> HIDE DEF Of
    <3>1. CASE m = n + 1
        BY <2>3, <3>1
    <3>2. CASE m # n + 1
      <4>1. m \in 0..n
          BY <2>2, <3>2
      <4> QED
          BY <2>1, <2>3, <3>2, <4>1
    <3> QED
        BY <3>1, <3>2
  <2>5. g = [m \in 0..(n + 1) |-> Of(g, m)]
    <3> HIDE DEF Of
    <3> QED
        BY <2>4
  <2>6. Built(n + 1)
    <3> HIDE DEF g, Of
    <3> QED
        BY <2>5
  <2> HIDE DEF Built
  <2> QED
      BY <1>2, <2>2, <2>6
<1>3. last \in T
  <2>1. T \in SUBSET (0..last)
      OBVIOUS
  <2> HIDE DEF T
  <2> QED
      BY <1>1, <1>2, <2>1, UpToLast
<1>4. PICK f : f = [m \in 0..last |-> Of(f, m)]
    BY <1>3
<1> DEFINE upTo == CHOOSE g : g = [m \in 0..last |-> Of(g, m)]
<1>5. upTo = [m \in 0..last |-> Of(upTo, m)]
    BY <1>4
<1>6. Selected(seq, chosen) = upTo[last]
    BY DEF Selected, SelectedOf
<1> HIDE DEF upTo
<1> QED
    BY <1>5, <1>6

\* A selection has the chosen elements, in their order.
LEMMA SelectedIs ==
    ASSUME NEW seq \in Seq(Jobs), NEW chosen
    PROVE  /\ Selected(seq, chosen) \in Seq(Jobs)
           /\ Len(Selected(seq, chosen)) <= Len(seq)
           /\ ToSet(Selected(seq, chosen)) = ToSet(seq) \intersect chosen
           /\ \A i, j : Before(Selected(seq, chosen), i, j) => Before(seq, i, j)
<1>1. Len(seq) \in Nat
    OBVIOUS
<1>2. PICK upTo : /\ upTo = [n \in 0..Len(seq) |-> SelectedOf(seq, chosen, upTo, n)]
                  /\ Selected(seq, chosen) = upTo[Len(seq)]
    BY <1>1, SelectedRecur
<1> DEFINE Typed(n) == upTo[n] \in Seq(Jobs) /\ Len(upTo[n]) <= n
           Has(n) == \A i \in 1..n : seq[i] \in chosen =>
                         \E p \in 1..Len(upTo[n]) : upTo[n][p] = seq[i]
           From(n) == \A p \in 1..Len(upTo[n]) :
                          upTo[n][p] \in chosen /\ \E i \in 1..n : seq[i] = upTo[n][p]
           Ordered(n) == \A p, q \in 1..Len(upTo[n]) : p < q =>
                             \E i, k \in 1..n : i < k /\ seq[i] = upTo[n][p] /\ seq[k] = upTo[n][q]
           Good == {n \in 0..Len(seq) : Typed(n) /\ Has(n) /\ From(n) /\ Ordered(n)}
<1>3. 0 \in Good
  <2>1. upTo[0] = <<>>
      BY <1>1, <1>2 DEF SelectedOf
  <2>2. Typed(0)
      BY <2>1
  <2>3. Has(0) /\ From(0) /\ Ordered(0)
      BY <2>1
  <2> QED
      BY <1>1, <2>2, <2>3
<1>4. ASSUME NEW n \in Good, n < Len(seq) PROVE n + 1 \in Good
  <2>1. n \in Nat /\ n + 1 \in 1..Len(seq) /\ n + 1 \in 0..Len(seq) /\ seq[n + 1] \in Jobs
      BY <1>1, <1>4
  <2>2. upTo[n + 1] = IF seq[n + 1] \in chosen THEN Append(upTo[n], seq[n + 1]) ELSE upTo[n]
    <3>1. upTo[n + 1] = SelectedOf(seq, chosen, upTo, n + 1)
        BY <1>2, <2>1
    <3>2. n + 1 # 0 /\ (n + 1) - 1 = n
        BY <2>1
    <3> QED
        BY <3>1, <3>2 DEF SelectedOf
  <2>3. Typed(n) /\ Has(n) /\ From(n) /\ Ordered(n)
      BY <1>4
  <2> DEFINE s == upTo[n]
             job == seq[n + 1]
             next == upTo[n + 1]
  <2>4. s \in Seq(Jobs) /\ Len(s) \in Nat /\ Len(s) <= n
      BY <2>3
  <2>5. CASE job \notin chosen
    <3>1. next = s
        BY <2>2, <2>5
    <3>2. Typed(n + 1)
        BY <2>1, <2>3, <3>1
    <3>3. Has(n + 1)
      <4> SUFFICES ASSUME NEW i \in 1..(n + 1), seq[i] \in chosen
                   PROVE  \E p \in 1..Len(next) : next[p] = seq[i]
          OBVIOUS
      <4>1. i \in 1..n
          BY <2>1, <2>5
      <4> QED
          BY <2>3, <3>1, <4>1
    <3>4. From(n + 1)
      <4> SUFFICES ASSUME NEW p \in 1..Len(next)
                   PROVE  next[p] \in chosen /\ \E i \in 1..(n + 1) : seq[i] = next[p]
          OBVIOUS
      <4>1. PICK i \in 1..n : seq[i] = next[p]
          BY <2>3, <3>1
      <4> QED
          BY <2>1, <2>3, <3>1, <4>1
    <3>5. Ordered(n + 1)
      <4> SUFFICES ASSUME NEW p \in 1..Len(next), NEW q \in 1..Len(next), p < q
                   PROVE  \E i, k \in 1..(n + 1) : i < k /\ seq[i] = next[p] /\ seq[k] = next[q]
          OBVIOUS
      <4>1. PICK i \in 1..n, k \in 1..n : i < k /\ seq[i] = next[p] /\ seq[k] = next[q]
          BY <2>3, <3>1
      <4>2. i \in 1..(n + 1) /\ k \in 1..(n + 1)
          BY <2>1
      <4> QED
          BY <4>1, <4>2
    <3> QED
        BY <2>1, <3>2, <3>3, <3>4, <3>5
  <2>6. CASE job \in chosen
    <3>1. next = Append(s, job)
        BY <2>2, <2>6
    <3>2. /\ next \in Seq(Jobs)
          /\ Len(next) = Len(s) + 1
          /\ next[Len(s) + 1] = job
          /\ \A p \in 1..Len(s) : next[p] = s[p]
        BY <2>1, <2>4, <3>1
    <3> HIDE DEF next, s
    <3>3. Typed(n + 1)
        BY <2>1, <2>4, <3>2 DEF next
    <3>4. Has(n + 1)
      <4> SUFFICES ASSUME NEW i \in 1..(n + 1), seq[i] \in chosen
                   PROVE  \E p \in 1..Len(next) : next[p] = seq[i]
          BY DEF next
      <4>1. CASE i = n + 1
        <5>1. Len(s) + 1 \in 1..Len(next) /\ next[Len(s) + 1] = seq[i]
            BY <2>4, <3>2, <4>1
        <5> QED
            BY <5>1
      <4>2. CASE i # n + 1
        <5>1. PICK p \in 1..Len(s) : s[p] = seq[i]
            BY <2>1, <2>3, <4>2 DEF s
        <5>2. p \in 1..Len(next)
            BY <2>4, <3>2
        <5> QED
            BY <3>2, <5>1, <5>2
      <4> QED
          BY <4>1, <4>2
    <3>5. From(n + 1)
      <4> SUFFICES ASSUME NEW p \in 1..Len(next)
                   PROVE  next[p] \in chosen /\ \E i \in 1..(n + 1) : seq[i] = next[p]
          BY DEF next
      <4>1. CASE p = Len(s) + 1
        <5>1. n + 1 \in 1..(n + 1) /\ seq[n + 1] = next[p]
            BY <2>1, <3>2, <4>1
        <5> QED
            BY <2>6, <3>2, <4>1, <5>1
      <4>2. CASE p # Len(s) + 1
        <5>1. p \in 1..Len(s) /\ next[p] = s[p]
            BY <2>4, <3>2, <4>2
        <5>2. s[p] \in chosen /\ \E i \in 1..n : seq[i] = s[p]
            BY <2>3, <5>1 DEF s
        <5>3. PICK i \in 1..n : seq[i] = s[p]
            BY <5>2
        <5>4. i \in 1..(n + 1)
            BY <2>1
        <5> QED
            BY <5>1, <5>2, <5>3, <5>4
      <4> QED
          BY <4>1, <4>2
    <3>6. Ordered(n + 1)
      <4> SUFFICES ASSUME NEW p \in 1..Len(next), NEW q \in 1..Len(next), p < q
                   PROVE  \E i, k \in 1..(n + 1) : i < k /\ seq[i] = next[p] /\ seq[k] = next[q]
          BY DEF next
      <4>1. p \in 1..Len(s) /\ next[p] = s[p]
          BY <2>4, <3>2
      <4>2. CASE q = Len(s) + 1
        <5>1. PICK i \in 1..n : seq[i] = s[p]
            BY <2>3, <4>1 DEF s
        <5>2. i \in 1..(n + 1) /\ n + 1 \in 1..(n + 1) /\ i < n + 1
            BY <2>1
        <5> QED
            BY <3>2, <4>1, <4>2, <5>1, <5>2
      <4>3. CASE q # Len(s) + 1
        <5>1. q \in 1..Len(s) /\ next[q] = s[q]
            BY <2>4, <3>2, <4>3
        <5>2. PICK i \in 1..n, k \in 1..n : i < k /\ seq[i] = s[p] /\ seq[k] = s[q]
            BY <2>3, <4>1, <5>1 DEF s
        <5>3. i \in 1..(n + 1) /\ k \in 1..(n + 1)
            BY <2>1
        <5> QED
            BY <4>1, <5>1, <5>2, <5>3
      <4> QED
          BY <4>2, <4>3
    <3> QED
        BY <2>1, <3>3, <3>4, <3>5, <3>6
  <2> QED
      BY <2>5, <2>6
<1>5. Len(seq) \in Good
  <2>1. Good \in SUBSET (0..Len(seq))
      OBVIOUS
  <2> HIDE DEF Good
  <2> QED
      BY <1>1, <1>3, <1>4, <2>1, UpToLast
<1> DEFINE s == Selected(seq, chosen)
<1>6. /\ s \in Seq(Jobs) /\ Len(s) <= Len(seq)
      /\ \A i \in 1..Len(seq) : seq[i] \in chosen => \E p \in 1..Len(s) : s[p] = seq[i]
      /\ \A p \in 1..Len(s) : s[p] \in chosen /\ \E i \in 1..Len(seq) : seq[i] = s[p]
      /\ \A p, q \in 1..Len(s) : p < q =>
             \E i, k \in 1..Len(seq) : i < k /\ seq[i] = s[p] /\ seq[k] = s[q]
    BY <1>2, <1>5
<1> HIDE DEF s
<1>7. DOMAIN s = 1..Len(s) /\ DOMAIN seq = 1..Len(seq)
    BY <1>6
<1>8. ToSet(s) = ToSet(seq) \intersect chosen
  <2>1. ASSUME NEW p \in 1..Len(s) PROVE s[p] \in ToSet(seq) \intersect chosen
      BY <1>6, <1>7 DEF ToSet
  <2>2. ASSUME NEW i \in 1..Len(seq), seq[i] \in chosen PROVE seq[i] \in ToSet(s)
      BY <1>6, <1>7, <2>2 DEF ToSet
  <2> QED
      BY <1>7, <2>1, <2>2 DEF ToSet
<1>9. ASSUME NEW i, NEW j, Before(s, i, j) PROVE Before(seq, i, j)
  <2>1. PICK p \in 1..Len(s), q \in 1..Len(s) : p < q /\ s[p] = i /\ s[q] = j
      BY <1>7, <1>9 DEF Before
  <2>2. PICK a \in 1..Len(seq), b \in 1..Len(seq) : a < b /\ seq[a] = s[p] /\ seq[b] = s[q]
      BY <1>6, <2>1
  <2> QED
      BY <1>7, <2>1, <2>2 DEF Before
<1> QED
    BY <1>6, <1>8, <1>9 DEF s

\* A selection repeats nothing that the sequence does not.
LEMMA SelectedOnce ==
    ASSUME NEW seq \in Seq(Jobs), NEW chosen, IsInjective(seq)
    PROVE  IsInjective(Selected(seq, chosen))
<1> DEFINE s == Selected(seq, chosen)
<1>1. s \in Seq(Jobs) /\ \A i, j : Before(s, i, j) => Before(seq, i, j)
    BY SelectedIs
<1> HIDE DEF s
<1>2. ASSUME NEW p \in DOMAIN s, NEW q \in DOMAIN s, p < q PROVE s[p] # s[q]
  <2>0. Before(s, s[p], s[q])
      BY <1>2 DEF Before
  <2>1. Before(seq, s[p], s[q])
      BY <1>1, <2>0
  <2>2. PICK i \in DOMAIN seq, j \in DOMAIN seq : i < j /\ seq[i] = s[p] /\ seq[j] = s[q]
      BY <2>1 DEF Before
  <2>3. i # j
      BY <2>2
  <2> QED
      BY <2>2, <2>3 DEF IsInjective
<1>3. ASSUME NEW p \in DOMAIN s, NEW q \in DOMAIN s, s[p] = s[q] PROVE p = q
  <2>1. p \in Nat /\ q \in Nat
      BY <1>1
  <2>2. ~(p < q) /\ ~(q < p)
      BY <1>2, <1>3
  <2> QED
      BY <2>1, <2>2
<1> QED
    BY <1>3 DEF IsInjective, s

\* The number of jobs.
LEMMA JobsCount == Cardinality(Jobs) \in Nat /\ IsFiniteSet(Jobs)
BY BatchesAssumption, FS_CardinalityType

\* An order is a sequence of all jobs without repetition, and any such is an order.
LEMMA OrdersAre ==
    ASSUME NEW jobs
    PROVE  jobs \in Orders <=> /\ jobs \in Seq(Jobs)
                               /\ Len(jobs) = Cardinality(Jobs)
                               /\ ToSet(jobs) = Jobs
                               /\ IsInjective(jobs)
<1>1. jobs \in [1..Cardinality(Jobs) -> Jobs] <=>
          jobs \in Seq(Jobs) /\ Len(jobs) = Cardinality(Jobs)
    BY JobsCount
<1>2. ASSUME jobs \in [1..Cardinality(Jobs) -> Jobs]
      PROVE  (\A job \in Jobs : \E i \in 1..Cardinality(Jobs) : jobs[i] = job) <=>
                 ToSet(jobs) = Jobs
    BY <1>2 DEF ToSet
<1> QED
    BY <1>1, <1>2 DEF Orders, Bijection, Injection, Surjection

\* Who is stamped goes to the end, and the others move up.
LEMMA StampedIs ==
    ASSUME order \in Orders, NEW job \in Jobs
    PROVE  /\ Stamped(job) \in Orders
           /\ \A i, j \in Jobs : j # job /\ Before(Stamped(job), i, j) => Before(order, i, j)
<1> DEFINE s == Selected(order, Jobs \ {job})
<1>1. /\ order \in Seq(Jobs) /\ Len(order) = Cardinality(Jobs)
      /\ ToSet(order) = Jobs /\ IsInjective(order)
    BY OrdersAre
<1>2. /\ s \in Seq(Jobs) /\ ToSet(s) = Jobs \ {job} /\ IsInjective(s)
      /\ \A i, j : Before(s, i, j) => Before(order, i, j)
    BY <1>1, SelectedIs, SelectedOnce
<1>3. Stamped(job) = Append(s, job)
    BY DEF Stamped
<1> HIDE DEF s
<1> DEFINE stamped == Append(s, job)
<1>4. /\ Len(s) \in Nat /\ DOMAIN s = 1..Len(s)
      /\ stamped \in Seq(Jobs) /\ Len(stamped) = Len(s) + 1
      /\ DOMAIN stamped = 1..(Len(s) + 1)
      /\ stamped[Len(s) + 1] = job
      /\ \A p \in 1..Len(s) : stamped[p] = s[p] /\ s[p] \in Jobs \ {job}
  <2>1. \A p \in 1..Len(s) : s[p] \in ToSet(s)
      BY <1>2 DEF ToSet
  <2> QED
      BY <1>2, <2>1
<1> HIDE DEF stamped
<1>5. Len(s) + 1 = Cardinality(Jobs)
  <2>1. s \in Bijection(1..Len(s), Jobs \ {job})
    <3>1. s \in [1..Len(s) -> Jobs \ {job}]
        BY <1>2, <1>4
    <3>2. \A j \in Jobs \ {job} : \E i \in 1..Len(s) : s[i] = j
        BY <1>2, <1>4 DEF ToSet
    <3> QED
        BY <1>2, <3>1, <3>2 DEF Bijection, Injection, Surjection
  <2>2. Cardinality(Jobs \ {job}) = Len(s)
      BY <1>4, <2>1, FS_CountingElements DEF ExistsBijection
  <2>3. Cardinality(Jobs \ {job}) = Cardinality(Jobs) - 1
      BY JobsCount, FS_RemoveElement
  <2> QED
      BY <1>4, <2>2, <2>3, JobsCount
<1>6. ToSet(stamped) = Jobs
  <2>1. \A p \in 1..(Len(s) + 1) : stamped[p] \in Jobs
      BY <1>4
  <2>2. ASSUME NEW j \in Jobs PROVE \E p \in 1..(Len(s) + 1) : stamped[p] = j
    <3>1. CASE j = job
        BY <1>4, <3>1
    <3>2. CASE j # job
      <4>1. j \in ToSet(s)
          BY <1>2, <3>2
      <4>2. PICK p \in 1..Len(s) : s[p] = j
          BY <1>4, <4>1 DEF ToSet
      <4> QED
          BY <1>4, <4>2
    <3> QED
        BY <3>1, <3>2
  <2> QED
      BY <1>4, <2>1, <2>2 DEF ToSet
<1>7. IsInjective(stamped)
  <2> SUFFICES ASSUME NEW p \in 1..(Len(s) + 1), NEW q \in 1..(Len(s) + 1), stamped[p] = stamped[q]
               PROVE  p = q
      BY <1>4 DEF IsInjective
  <2>1. CASE p \in 1..Len(s) /\ q \in 1..Len(s)
      BY <1>2, <1>4, <2>1 DEF IsInjective
  <2>2. CASE p = Len(s) + 1 \/ q = Len(s) + 1
      BY <1>4, <2>2
  <2> QED
      BY <1>4, <2>1, <2>2
<1>8. ASSUME NEW i \in Jobs, NEW j \in Jobs, j # job, Before(stamped, i, j) PROVE Before(order, i, j)
  <2>1. PICK p \in 1..(Len(s) + 1), q \in 1..(Len(s) + 1) :
            p < q /\ stamped[p] = i /\ stamped[q] = j
      BY <1>4, <1>8 DEF Before
  <2>2. q \in 1..Len(s) /\ p \in 1..Len(s)
      BY <1>4, <1>8, <2>1
  <2>3. Before(s, i, j)
      BY <1>4, <2>1, <2>2 DEF Before
  <2> QED
      BY <1>2, <2>3
<1> QED
    BY <1>3, <1>4, <1>5, <1>6, <1>7, <1>8, OrdersAre DEF stamped

\* Sequences of at most so many elements.
LEMMA BoundedSeqIs ==
    ASSUME NEW n \in Nat, NEW seq
    PROVE  seq \in BoundedSeq(Jobs, n) <=> seq \in Seq(Jobs) /\ Len(seq) <= n
<1>1. seq \in BoundedSeq(Jobs, n) <=> \E m \in 0..n : seq \in [1..m -> Jobs]
    BY DEF BoundedSeq, SeqOf
<1>2. ASSUME NEW m \in 0..n, seq \in [1..m -> Jobs]
      PROVE  seq \in Seq(Jobs) /\ Len(seq) <= n
    BY <1>2
<1>3. ASSUME seq \in Seq(Jobs), Len(seq) <= n
      PROVE  \E m \in 0..n : seq \in [1..m -> Jobs]
  <2>1. Len(seq) \in 0..n /\ seq \in [1..Len(seq) -> Jobs]
      BY <1>3
  <2> QED
      BY <2>1
<1> QED
    BY <1>1, <1>2, <1>3

\* A list has no more than Limit jobs, each once, and misses none unless it is full.
LEMMA FirstOfIs ==
    ASSUME order \in Orders, NEW rows \in SUBSET Jobs
    PROVE  /\ FirstOf(rows) \in BoundedSeq(Jobs, Limit)
           /\ IsInjective(FirstOf(rows))
           /\ rows \subseteq ToSet(FirstOf(rows)) \/ Len(FirstOf(rows)) = Limit
<1> DEFINE s == InOrder(rows)
           n == IF Len(s) < Limit THEN Len(s) ELSE Limit
           first == FirstOf(rows)
<1>1. Limit \in Nat
    BY BatchesAssumption
<1>2. order \in Seq(Jobs) /\ ToSet(order) = Jobs /\ IsInjective(order)
    BY OrdersAre
<1>3. s \in Seq(Jobs) /\ ToSet(s) = rows /\ IsInjective(s)
  <2>1. s = Selected(order, rows)
      BY DEF InOrder
  <2>2. s \in Seq(Jobs) /\ ToSet(s) = ToSet(order) \intersect rows
      BY <1>2, <2>1, SelectedIs
  <2>3. IsInjective(s)
      BY <1>2, <2>1, SelectedOnce
  <2> QED
      BY <1>2, <2>2, <2>3
<1>4. first = SubSeq(s, 1, n)
    BY DEF FirstOf, FirstN
<1> HIDE DEF s, first
<1>5. Len(s) \in Nat /\ n \in 0..Limit /\ n <= Len(s) /\ DOMAIN s = 1..Len(s)
    BY <1>1, <1>3
<1> HIDE DEF n
<1>6. /\ first \in Seq(Jobs) /\ Len(first) = n /\ DOMAIN first = 1..n
      /\ \A p \in 1..n : first[p] = s[p]
    BY <1>1, <1>3, <1>4, <1>5
<1>7. first \in BoundedSeq(Jobs, Limit)
    BY <1>1, <1>5, <1>6, BoundedSeqIs
<1>8. IsInjective(first)
  <2>1. \A p \in 1..n : p \in DOMAIN s
      BY <1>1, <1>5
  <2> QED
      BY <1>3, <1>6, <2>1 DEF IsInjective
<1>9. CASE n = Limit
    BY <1>6, <1>7, <1>8, <1>9 DEF first
<1>10. CASE n # Limit
  <2>1. n = Len(s)
      BY <1>10 DEF n
  <2>2. rows \subseteq ToSet(first)
      BY <1>3, <1>5, <1>6, <2>1 DEF ToSet
  <2> QED
      BY <1>7, <1>8, <2>2 DEF first
<1> QED
    BY <1>9, <1>10

-----------------------------------------------------------------------------
(* The invariant. *)

BInv == TypeOK /\ IsInjective(sweep.todo)

\* The list of a sweep that does nothing.
LEMMA NothingToDo == <<>> \in BoundedSeq(Jobs, Limit) /\ IsInjective(<<>>)
<1>1. <<>> \in Seq(Jobs) /\ Len(<<>>) = 0 /\ Limit \in Nat
    BY BatchesAssumption
<1>2. <<>> \in BoundedSeq(Jobs, Limit)
  <2>1. Len(<<>>) <= Limit
      BY <1>1
  <2> QED
      BY <1>1, <2>1, BoundedSeqIs
<1> QED
    BY <1>2 DEF IsInjective

\* The rest of a list is a list.
LEMMA RestIsList ==
    ASSUME NEW seq \in BoundedSeq(Jobs, Limit), IsInjective(seq), seq # <<>>
    PROVE  /\ Head(seq) \in Jobs
           /\ Tail(seq) \in BoundedSeq(Jobs, Limit)
           /\ IsInjective(Tail(seq))
<1>1. Limit \in Nat /\ seq \in Seq(Jobs) /\ Len(seq) <= Limit
    BY BatchesAssumption, BoundedSeqIs
<1>2. /\ Head(seq) \in Jobs /\ Tail(seq) \in Seq(Jobs) /\ Len(Tail(seq)) = Len(seq) - 1
      /\ \A p \in 1..(Len(seq) - 1) : Tail(seq)[p] = seq[p + 1]
      /\ DOMAIN Tail(seq) = 1..(Len(seq) - 1) /\ DOMAIN seq = 1..Len(seq)
    BY <1>1
<1>3. Tail(seq) \in BoundedSeq(Jobs, Limit)
  <2>1. Len(Tail(seq)) <= Limit
      BY <1>1, <1>2
  <2> QED
      BY <1>1, <1>2, <2>1, BoundedSeqIs
<1>4. ASSUME NEW p \in 1..(Len(seq) - 1), NEW q \in 1..(Len(seq) - 1), Tail(seq)[p] = Tail(seq)[q]
      PROVE  p = q
  <2>1. p + 1 \in DOMAIN seq /\ q + 1 \in DOMAIN seq /\ seq[p + 1] = seq[q + 1]
      BY <1>1, <1>2, <1>4
  <2> QED
      BY <2>1 DEF IsInjective
<1> QED
    BY <1>2, <1>3, <1>4 DEF IsInjective

\* Every job is in the order, and nothing is listed.
LEMMA InitBInv == Init => BInv
BY NothingToDo, BatchesAssumption DEF Init, BInv, TypeOK

\* Any change to one job's row keeps the rows' types.
LEMMA GatewayBInv == BInv /\ Gateway => BInv'
<1> SUFFICES ASSUME BInv, NEW job \in Jobs,
                    RecordEvent(job) \/ Reopen(job) \/ SetLatestK8sJob(job) \/ Age(job)
             PROVE  BInv'
    BY DEF Gateway
<1>1. Stamped(job) \in Orders
    BY StampedIs DEF BInv, TypeOK
<1>2. CASE RecordEvent(job)
    BY <1>1, <1>2 DEF BInv, TypeOK, RecordEvent
<1>3. CASE Reopen(job)
    BY <1>1, <1>3 DEF BInv, TypeOK, Reopen
<1>4. CASE SetLatestK8sJob(job)
  <2> DEFINE rest == Selected(sweep.todo, Jobs \ {job})
  <2>1. Limit \in Nat /\ sweep.todo \in Seq(Jobs) /\ Len(sweep.todo) <= Limit
        /\ IsInjective(sweep.todo)
      BY BatchesAssumption, BoundedSeqIs DEF BInv, TypeOK
  <2>2. rest \in Seq(Jobs) /\ Len(rest) <= Len(sweep.todo) /\ IsInjective(rest)
      BY <2>1, SelectedIs, SelectedOnce
  <2>3. rest \in BoundedSeq(Jobs, Limit)
    <3> HIDE DEF rest
    <3>1. Len(rest) <= Limit
        BY <2>1, <2>2
    <3> QED
        BY <2>1, <2>2, <3>1, BoundedSeqIs
  <2>4. sweep' = sweep \/ sweep' = [sweep EXCEPT !.todo = rest]
      BY <1>4 DEF SetLatestK8sJob
  <2> HIDE DEF rest
  <2> QED
      BY <1>4, <2>2, <2>3, <2>4 DEF BInv, TypeOK, SetLatestK8sJob
<1>5. CASE Age(job)
    BY <1>5 DEF BInv, TypeOK, Age
<1> QED
    BY <1>2, <1>3, <1>4, <1>5

\* A list of jobs is made or shortened.
LEMMA ReconcileBInv == BInv /\ (Reconcile \/ SweepDies) => BInv'
<1> SUFFICES ASSUME BInv, Reconcile \/ SweepDies PROVE BInv'
    OBVIOUS
<1>1. CASE SweepBegins
  <2>1. ListStaleActive \in BoundedSeq(Jobs, Limit) /\ IsInjective(ListStaleActive)
    <3>1. {j \in Jobs : status[j] = "overdue"} \in SUBSET Jobs
        OBVIOUS
    <3> QED
        BY <3>1, FirstOfIs DEF BInv, TypeOK, ListStaleActive
  <2> QED
      BY <1>1, <2>1 DEF BInv, TypeOK, SweepBegins
<1>2. CASE ExpireOne
  <2>1. sweep.todo \in BoundedSeq(Jobs, Limit) /\ sweep.todo # <<>> /\ IsInjective(sweep.todo)
      BY <1>2 DEF BInv, TypeOK, ExpireOne
  <2>2. /\ Head(sweep.todo) \in Jobs
        /\ Tail(sweep.todo) \in BoundedSeq(Jobs, Limit)
        /\ IsInjective(Tail(sweep.todo))
      BY <2>1, RestIsList
  <2>3. Stamped(Head(sweep.todo)) \in Orders
      BY <2>2, StampedIs DEF BInv, TypeOK
  <2>4. order' \in Orders /\ status' \in [Jobs -> {"active", "overdue", "ended"}]
        /\ named' \subseteq Jobs
      BY <1>2, <2>2, <2>3 DEF BInv, TypeOK, ExpireOne, Expire
  <2>5. sweep' = [sweep EXCEPT !.todo = Tail(sweep.todo)] /\ deaths' = deaths
      BY <1>2 DEF ExpireOne
  <2> QED
      BY <2>2, <2>4, <2>5 DEF BInv, TypeOK
<1>3. CASE ExpiryDone
  <2>1. ListFinishedWithK8sJob \in BoundedSeq(Jobs, Limit) /\ IsInjective(ListFinishedWithK8sJob)
    <3>1. {j \in named : status[j] = "ended"} \in SUBSET Jobs
        BY DEF BInv, TypeOK
    <3> QED
        BY <3>1, FirstOfIs DEF BInv, TypeOK, ListFinishedWithK8sJob
  <2> QED
      BY <1>3, <2>1 DEF BInv, TypeOK, ExpiryDone
<1>4. CASE ReleaseOne
  <2>1. sweep.todo \in BoundedSeq(Jobs, Limit) /\ sweep.todo # <<>> /\ IsInjective(sweep.todo)
      BY <1>4 DEF BInv, TypeOK, ReleaseOne
  <2>2. /\ Tail(sweep.todo) \in BoundedSeq(Jobs, Limit)
        /\ IsInjective(Tail(sweep.todo))
      BY <2>1, RestIsList
  <2>3. sweep' = [sweep EXCEPT !.todo = Tail(sweep.todo)] /\ named' \subseteq named
      BY <1>4 DEF ReleaseOne, AfterRelease
  <2> QED
      BY <1>4, <2>2, <2>3 DEF BInv, TypeOK, ReleaseOne
<1>5. CASE SweepEnds
    BY <1>5, NothingToDo, BatchesAssumption DEF BInv, TypeOK, SweepEnds
<1>6. CASE SweepDies
    BY <1>6, NothingToDo, BatchesAssumption DEF BInv, TypeOK, SweepDies
<1> QED
    BY <1>1, <1>2, <1>3, <1>4, <1>5, <1>6 DEF Reconcile

\* The invariant holds in every reachable state.
LEMMA Invariance == Init /\ [][Next]_vars => []BInv
<1>1. BInv /\ [Next]_vars => BInv'
  <2> SUFFICES ASSUME BInv, [Next]_vars PROVE BInv'
      OBVIOUS
  <2>1. CASE UNCHANGED vars
      BY <2>1 DEF vars, BInv, TypeOK
  <2> QED
      BY <2>1, GatewayBInv, ReconcileBInv DEF Next
<1> QED
    BY <1>1, InitBInv, PTL

-----------------------------------------------------------------------------
(* The theorems. *)

\* Every job keeps its one place in the order, and no sweep takes more than Limit
\* jobs at a time, for any number of jobs.
THEOREM BatchesTypeOK == FairSpec => []TypeOK
<1>1. BInv => TypeOK
    BY DEF BInv
<1> QED
    BY <1>1, Invariance, PTL DEF FairSpec

\* However often other jobs are heard of, reopened, ended or swept, none of them
\* comes before a job that waits to be ended, unless it did so already: the argument
\* why no job starves.
THEOREM OverdueJobsMoveUp == FairSpec => NoneOvertakesOverdue
<1> DEFINE A == \A j \in Jobs : status[j] = "overdue" /\ status'[j] = "overdue" =>
                    \A i \in Jobs : Before(order', i, j) => Before(order, i, j)
<1>1. BInv /\ [Next]_vars => [A]_vars
  <2> SUFFICES ASSUME BInv, Next,
                      NEW j \in Jobs, status[j] = "overdue", status'[j] = "overdue",
                      NEW i \in Jobs, Before(order', i, j)
               PROVE  Before(order, i, j)
      OBVIOUS
  <2>1. ASSUME NEW job \in Jobs, order' = Stamped(job), status'[job] # "overdue"
        PROVE  Before(order, i, j)
      BY <2>1, StampedIs DEF BInv, TypeOK
  <2>2. ASSUME order' = order PROVE Before(order, i, j)
      BY <2>2
  <2>3. ASSUME NEW job \in Jobs,
               RecordEvent(job) \/ Reopen(job) \/ SetLatestK8sJob(job) \/ Age(job)
        PROVE  Before(order, i, j)
    <3>1. CASE RecordEvent(job)
        BY <2>1, <3>1 DEF RecordEvent, BInv, TypeOK
    <3>2. CASE Reopen(job)
        BY <2>1, <3>2 DEF Reopen, BInv, TypeOK
    <3>3. CASE SetLatestK8sJob(job) \/ Age(job)
        BY <2>2, <3>3 DEF SetLatestK8sJob, Age
    <3> QED
        BY <2>3, <3>1, <3>2, <3>3
  <2>4. CASE ExpireOne
    <3>1. Head(sweep.todo) \in Jobs
        BY <2>4, RestIsList DEF BInv, TypeOK, ExpireOne
    <3>2. CASE status[Head(sweep.todo)] = "ended"
        BY <2>2, <2>4, <3>2 DEF ExpireOne
    <3>3. CASE status[Head(sweep.todo)] # "ended"
      <4>1. Expire(Head(sweep.todo))
          BY <2>4, <3>3 DEF ExpireOne
      <4> QED
          BY <2>1, <3>1, <4>1 DEF Expire, BInv, TypeOK
    <3> QED
        BY <3>2, <3>3
  <2>5. CASE SweepBegins \/ ExpiryDone \/ ReleaseOne \/ SweepEnds \/ SweepDies
      BY <2>2, <2>5 DEF SweepBegins, ExpiryDone, ReleaseOne, SweepEnds, SweepDies
  <2> QED
      BY <2>3, <2>4, <2>5 DEF Next, Gateway, Reconcile
<1> QED
    BY <1>1, Invariance, PTL DEF FairSpec, NoneOvertakesOverdue

\* However many Kubernetes Jobs cannot be deleted, as long as they are fewer than the
\* limit, every list of the release sweep has one that can, or all there are.
THEOREM EveryReleaseListGetsOn == FairSpec => ReleaseListsGetOn
<1> DEFINE A == ExpiryDone =>
                  \/ \A j \in named : status[j] = "ended" => j \in ToSet(sweep'.todo)
                  \/ ToSet(sweep'.todo) \ Stuck # {}
<1>1. BInv => A
  <2> SUFFICES ASSUME BInv, ExpiryDone,
                      ~ \A j \in named : status[j] = "ended" => j \in ToSet(sweep'.todo),
                      ToSet(sweep'.todo) \ Stuck = {}
               PROVE  FALSE
      OBVIOUS
  <2> DEFINE rows == {j \in named : status[j] = "ended"}
             list == FirstOf(rows)
  <2>1. sweep'.todo = list
      BY DEF ExpiryDone, ListFinishedWithK8sJob
  <2>2. order \in Orders /\ rows \in SUBSET Jobs
      BY DEF BInv, TypeOK
  <2>3. /\ list \in BoundedSeq(Jobs, Limit) /\ IsInjective(list)
        /\ rows \subseteq ToSet(list) \/ Len(list) = Limit
      BY <2>2, FirstOfIs
  <2>4. Len(list) = Limit
      BY <2>1, <2>3
  <2> HIDE DEF list
  <2>5. Limit \in Nat /\ list \in Seq(Jobs) /\ DOMAIN list = 1..Limit
      BY <2>3, <2>4, BatchesAssumption, BoundedSeqIs
  <2>6. list \in Injection(1..Limit, Stuck)
      BY <2>1, <2>3, <2>5 DEF Injection, ToSet
  <2>7. IsFiniteSet(Stuck)
      BY BatchesAssumption, FS_Subset
  <2>8. Cardinality(1..Limit) <= Cardinality(Stuck)
      BY <2>6, <2>7, FS_Injection
  <2>9. Cardinality(1..Limit) = Limit
      BY <2>5, FS_Interval
  <2>10. Cardinality(Stuck) \in Nat
      BY <2>7, FS_CardinalityType
  <2> QED
      BY <2>5, <2>8, <2>9, <2>10, BatchesAssumption
<1> QED
    BY <1>1, Invariance, PTL DEF FairSpec, ReleaseListsGetOn
=============================================================================
