--------------------------- MODULE TimeChecksProofs ---------------------------
(***************************************************************************)
(* Sorting and comparing neighbours finds every overlap, in lists of any   *)
(* length.  The times kept have a sorting, since the rank of a time among  *)
(* them is one; no induction over the list is needed.                      *)
(***************************************************************************)
EXTENDS TimeChecks, FiniteSetTheorems, TLAPS

-----------------------------------------------------------------------------
(* The sorted list *)

\* Before is a strict total order of the positions of a list.
LEMMA BeforeIsTotal ==
  ASSUME NEW list \in Seq(Time),
         NEW x \in DOMAIN list, NEW y \in DOMAIN list, NEW z \in DOMAIN list
  PROVE  /\ ~(Before(list, x, y) /\ Before(list, y, x))
         /\ ~Before(list, x, x)
         /\ Before(list, x, y) /\ Before(list, y, z) => Before(list, x, z)
         /\ x # y => Before(list, x, y) \/ Before(list, y, x)
<1>1. /\ x \in Nat /\ y \in Nat /\ z \in Nat
      /\ list[x] \in Time /\ list[y] \in Time /\ list[z] \in Time
  OBVIOUS
<1>2. /\ list[x].startDate \in Nat
      /\ list[y].startDate \in Nat
      /\ list[z].startDate \in Nat
  BY <1>1, DatesAssumption DEF Time
<1> QED
  BY <1>1, <1>2 DEF Before

LEMMA KeptIsFinite ==
  ASSUME NEW list \in Seq(Time), NEW kept \in SUBSET DOMAIN list
  PROVE  IsFiniteSet(kept) /\ Cardinality(kept) \in Nat
<1>1. DOMAIN list = 1..Len(list) /\ Len(list) \in Nat
  OBVIOUS
<1>2. IsFiniteSet(1..Len(list))
  BY <1>1, FS_Interval
<1>3. IsFiniteSet(kept)
  BY <1>1, <1>2, FS_Subset
<1> QED
  BY <1>3, FS_CardinalityType

\* Whatever times are kept, they can be sorted: the array that filter and sort
\* leave is one of them.
LEMMA SortingExists ==
  ASSUME NEW list \in Seq(Time), NEW kept \in SUBSET DOMAIN list
  PROVE  \E p \in Bijection(1..Cardinality(kept), kept) : IsSorting(p, list)
<1> DEFINE n == Cardinality(kept)
           upTo(x) == {y \in kept : y = x \/ Before(list, y, x)}
           rank == [x \in kept |-> Cardinality(upTo(x))]
           p == [k \in 1..n |-> CHOOSE x \in kept : rank[x] = k]
<1>1. IsFiniteSet(kept) /\ n \in Nat
  BY KeptIsFinite
<1>2. ASSUME NEW x \in kept
      PROVE  IsFiniteSet(upTo(x)) /\ rank[x] \in 1..n
  <2>1. upTo(x) \in SUBSET kept /\ {x} \in SUBSET upTo(x)
    OBVIOUS
  <2>2. IsFiniteSet(upTo(x)) /\ Cardinality(upTo(x)) <= n
    BY <1>1, <2>1, FS_Subset
  <2>3. Cardinality({x}) = 1 /\ Cardinality({x}) <= Cardinality(upTo(x))
    BY <2>1, <2>2, FS_Singleton, FS_Subset
  <2>4. Cardinality(upTo(x)) \in Nat
    BY <2>2, FS_CardinalityType
  <2> QED
    BY <1>1, <2>2, <2>3, <2>4
<1> HIDE DEF n
<1>3. \A x \in kept : rank[x] \in 1..n /\ rank[x] \in Nat
  <2>1. n \in Nat => \A k \in 1..n : k \in Nat
    OBVIOUS
  <2> HIDE DEF rank
  <2> QED
    BY <1>1, <1>2, <2>1
<1>4. ASSUME NEW x \in kept, NEW y \in kept, Before(list, x, y)
      PROVE  rank[x] < rank[y]
  <2>1. upTo(x) \in SUBSET upTo(y) /\ y \in upTo(y)
    BY <1>4, BeforeIsTotal
  <2>2. y \notin upTo(x)
    BY <1>4, BeforeIsTotal
  <2>3. /\ Cardinality(upTo(x)) <= Cardinality(upTo(y))
        /\ Cardinality(upTo(x)) # Cardinality(upTo(y))
    BY <1>2, <2>1, <2>2, FS_Subset
  <2> QED
    BY <1>3, <2>3
<1> HIDE DEF rank
<1>5. ASSUME NEW x \in kept, NEW y \in kept, rank[x] = rank[y]
      PROVE  x = y
  <2>1. ~Before(list, x, y)
    BY <1>3, <1>4, <1>5
  <2>2. ~Before(list, y, x)
    BY <1>3, <1>4, <1>5
  <2> QED
    BY <2>1, <2>2, BeforeIsTotal
<1>6. rank \in [kept -> 1..n]
  BY <1>3 DEF rank
<1>7. rank \in Surjection(kept, 1..n)
  <2>1. rank \in Injection(kept, 1..n)
    BY <1>5, <1>6 DEF Injection, IsInjective
  <2>2. IsFiniteSet(1..n) /\ Cardinality(1..n) = n
    BY <1>1, FS_Interval
  <2> QED
    BY <2>1, <2>2, FS_Injection DEF n
<1>8. \A k \in 1..n : p[k] \in kept /\ rank[p[k]] = k
  BY <1>7 DEF Surjection
<1> HIDE DEF p
<1>9. p \in Bijection(1..n, kept)
  <2>1. p \in [1..n -> kept]
    BY <1>8 DEF p
  <2>2. \A x \in kept : p[rank[x]] = x
    BY <1>5, <1>6, <1>8
  <2> QED
    BY <1>6, <1>8, <2>1, <2>2
       DEF Bijection, Injection, Surjection, IsInjective
<1>10. IsSorting(p, list)
  <2>1. DOMAIN p = 1..n
    BY DEF p
  <2>2. SUFFICES ASSUME NEW i \in 1..n, NEW j \in 1..n, i < j
                 PROVE  Before(list, p[i], p[j])
    BY <2>1 DEF IsSorting
  <2>3. ~Before(list, p[j], p[i]) /\ p[i] # p[j]
    BY <1>1, <1>4, <1>8, <2>2
  <2> QED
    BY <1>8, <2>3, BeforeIsTotal
<1> QED
  BY <1>9, <1>10 DEF n

\* The sorted list holds each time kept once, and no other, by start date.
LEMMA SortedTimes ==
  ASSUME NEW list \in Seq(Time), NEW kept \in SUBSET DOMAIN list
  PROVE  \E p \in Bijection(1..Cardinality(kept), kept) :
           /\ IsSorting(p, list)
           /\ SortedByStart(list, kept)
                = [i \in 1..Cardinality(kept) |-> list[p[i]]]
<1> DEFINE order == CHOOSE p \in Bijection(1..Cardinality(kept), kept) :
                      IsSorting(p, list)
<1>1. /\ order \in Bijection(1..Cardinality(kept), kept)
      /\ IsSorting(order, list)
  BY SortingExists
<1>2. DOMAIN order = 1..Cardinality(kept)
  BY <1>1 DEF Bijection, Injection
<1> QED
  BY <1>1, <1>2 DEF SortedByStart

-----------------------------------------------------------------------------
(* Comparing neighbours *)

\* In a list of any length that is sorted by start date, no two times overlap
\* exactly if no neighbours do: validateNewTimes and validateEditedTimes need
\* compare no others.
THEOREM NeighboursDecideOverlap ==
  ASSUME NEW Times, NEW list \in Seq(Times),
         \A time \in Times : time.startDate \in Int /\ time.endDate \in Int,
         \A i \in 1..Len(list) : list[i].startDate <= list[i].endDate,
         \A i, j \in 1..Len(list) :
           i < j => list[i].startDate <= list[j].startDate
  PROVE  ~NeighboursTouch(list)
           <=> \A i, j \in 1..Len(list) : i # j => ~Overlap(list[i], list[j])
<1>0. /\ Len(list) \in Nat
      /\ \A i \in 1..Len(list) :
           list[i].startDate \in Int /\ list[i].endDate \in Int
  OBVIOUS
<1>1. ASSUME ~NeighboursTouch(list),
             NEW i \in 1..Len(list), NEW j \in 1..Len(list), i < j
      PROVE  list[i].endDate < list[j].startDate
  <2>1. i + 1 \in 2..Len(list) /\ i + 1 \in 1..Len(list) /\ (i + 1) - 1 = i
    BY <1>0, <1>1
  <2>2. list[i].endDate < list[i + 1].startDate
    BY <1>0, <1>1, <2>1 DEF NeighboursTouch
  <2>3. list[i + 1].startDate <= list[j].startDate
    BY <1>0, <1>1, <2>1
  <2> QED
    BY <1>0, <2>1, <2>2, <2>3
<1>2. ASSUME ~NeighboursTouch(list),
             NEW i \in 1..Len(list), NEW j \in 1..Len(list), i # j
      PROVE  ~Overlap(list[i], list[j])
  <2>1. i < j \/ j < i
    BY <1>2
  <2> QED
    BY <1>0, <1>1, <1>2, <2>1 DEF Overlap
<1>3. ASSUME NeighboursTouch(list)
      PROVE  \E i, j \in 1..Len(list) : i # j /\ Overlap(list[i], list[j])
  <2>1. PICK i \in 2..Len(list) : list[i].startDate <= list[i - 1].endDate
    BY <1>3 DEF NeighboursTouch
  <2>2. i \in 1..Len(list) /\ i - 1 \in 1..Len(list) /\ i - 1 < i
    BY <1>0
  <2>3. Overlap(list[i - 1], list[i])
    BY <1>0, <2>1, <2>2 DEF Overlap
  <2> QED
    BY <2>2, <2>3
<1> QED
  BY <1>2, <1>3
\* The loop over the sorted times kept finds an overlap exactly if two of the
\* times kept overlap.
LEMMA NeighboursOverlapFinds ==
  ASSUME NEW list \in Seq(Time), NEW kept \in SUBSET DOMAIN list,
         ValidRanges(list)
  PROVE  ~NeighboursOverlap(list, kept)
           <=> \A x, y \in kept : x # y => ~Overlap(list[x], list[y])
<1> DEFINE n == Cardinality(kept)
           sorted == SortedByStart(list, kept)
<1>1. PICK p \in Bijection(1..n, kept) :
        IsSorting(p, list) /\ sorted = [i \in 1..n |-> list[p[i]]]
  BY SortedTimes
<1>2. /\ p \in [1..n -> kept]
      /\ \A x \in kept : \E i \in 1..n : p[i] = x
      /\ \A i, j \in 1..n : p[i] = p[j] => i = j
  BY <1>1 DEF Bijection, Injection, Surjection, IsInjective
<1>3. n \in Nat
  BY KeptIsFinite
<1> HIDE DEF sorted, n
<1>4. sorted \in Seq(Time) /\ Len(sorted) = n
  <2>1. \A i \in 1..n : list[p[i]] \in Time
    BY <1>2
  <2> QED
    BY <1>1, <1>3, <2>1
<1>5. \A time \in Time : time.startDate \in Int /\ time.endDate \in Int
  <2>1. \A d \in Dates : d \in Int
    BY DatesAssumption
  <2> QED
    BY <2>1 DEF Time
<1>6. \A i \in 1..n : sorted[i].startDate <= sorted[i].endDate
  BY <1>1, <1>2 DEF ValidRanges
<1>7. ASSUME NEW i \in 1..n, NEW j \in 1..n, i < j
      PROVE  sorted[i].startDate <= sorted[j].startDate
  <2>1. Before(list, p[i], p[j])
    BY <1>1, <1>2, <1>7 DEF IsSorting
  <2>2. sorted[i].startDate \in Int /\ sorted[j].startDate \in Int
    BY <1>4, <1>5
  <2> QED
    BY <1>1, <2>1, <2>2 DEF Before
<1>8. ~NeighboursTouch(sorted)
        <=> \A i, j \in 1..n : i # j => ~Overlap(sorted[i], sorted[j])
  BY <1>4, <1>5, <1>6, <1>7, NeighboursDecideOverlap
<1>9. (\A i, j \in 1..n : i # j => ~Overlap(sorted[i], sorted[j]))
        <=> \A x, y \in kept : x # y => ~Overlap(list[x], list[y])
  <2>1. \A i \in 1..n : sorted[i] = list[p[i]]
    BY <1>1
  <2>2. ASSUME \A i, j \in 1..n : i # j => ~Overlap(sorted[i], sorted[j]),
               NEW x \in kept, NEW y \in kept, x # y
        PROVE  ~Overlap(list[x], list[y])
    <3>1. PICK i \in 1..n : p[i] = x
      BY <1>2
    <3>2. PICK j \in 1..n : p[j] = y
      BY <1>2
    <3>3. i # j
      BY <2>2, <3>1, <3>2
    <3> QED
      BY <2>1, <2>2, <3>1, <3>2, <3>3
  <2>3. ASSUME \A x, y \in kept : x # y => ~Overlap(list[x], list[y]),
               NEW i \in 1..n, NEW j \in 1..n, i # j
        PROVE  ~Overlap(sorted[i], sorted[j])
    BY <1>2, <2>1, <2>3
  <2> QED
    BY <2>2, <2>3
<1> QED
  BY <1>8, <1>9 DEF NeighboursOverlap, sorted

-----------------------------------------------------------------------------
(* The two checks *)

\* What validateEditedTimes and validateNewTimes accept, of a list of any
\* length: no two times of an edit that will run, and no two of a new tour,
\* overlap, and every range is valid.
THEOREM AcceptedLists ==
  ASSUME NEW list \in Seq(Time)
  PROVE  LET opened == [i \in DOMAIN list |->
                          [list[i] EXCEPT !.status = "open"]]
         IN  /\ ValidateEditedTimes(list) <=> NoOverlaps(list, DOMAIN list)
             /\ ValidateNewTimes(list) <=> NoOverlaps(opened, DOMAIN opened)
<1> DEFINE opened == [i \in DOMAIN list |-> [list[i] EXCEPT !.status = "open"]]
<1>1. ValidateEditedTimes(list) <=> NoOverlaps(list, DOMAIN list)
  <2>1. NotCancelled(list) \in SUBSET DOMAIN list
    BY DEF NotCancelled
  <2> QED
    BY <2>1, NeighboursOverlapFinds
       DEF ValidateEditedTimes, NotCancelled, NoOverlaps, ValidRanges
<1>2. ValidateNewTimes(list) <=> NoOverlaps(opened, DOMAIN opened)
  <2>1. /\ DOMAIN opened = DOMAIN list
        /\ \A i \in DOMAIN list : /\ opened[i].status = "open"
                                  /\ opened[i].startDate = list[i].startDate
                                  /\ opened[i].endDate = list[i].endDate
    <3>1. \A i \in DOMAIN list : list[i] \in Time
      OBVIOUS
    <3> QED
      BY <3>1 DEF Time
  <2>2. \A x, y \in DOMAIN list :
          Overlap(opened[x], opened[y]) <=> Overlap(list[x], list[y])
    BY <2>1 DEF Overlap
  <2>3. NoOverlaps(opened, DOMAIN opened)
          <=> /\ ValidRanges(list)
              /\ \A x, y \in DOMAIN list :
                   x # y => ~Overlap(list[x], list[y])
    BY <2>1, <2>2 DEF NoOverlaps, ValidRanges
  <2> QED
    BY <2>3, NeighboursOverlapFinds DEF ValidateNewTimes
<1> QED
  BY <1>1, <1>2

\* Comparing neighbours decides overlap, for every list an admin may submit.
THEOREM NeighbourChecksAreEnough == Spec => []ChecksFindOverlaps
<1>1. Init => times \in Seq(Time)
  BY DEF Init
<1>2. times \in Seq(Time) /\ [Next]_times => (times \in Seq(Time))'
  BY DEF Next, AddTime
<1>3. times \in Seq(Time) => ChecksFindOverlaps
  BY AcceptedLists DEF ChecksFindOverlaps
<1> QED
  BY <1>1, <1>2, <1>3, PTL DEF Spec
=============================================================================
