------------------------- MODULE HeaderIndexProofs -------------------------
(***************************************************************************)
(* Proofs about HeaderIndex, for every size of a stored list, every length *)
(* of a message and every height of the chain.                             *)
(*                                                                         *)
(* First the members of a set in ascending order, which is how a start     *)
(* puts the headers it reads together; then what the parts of a step do to *)
(* a sequence that is right; then the invariant and the two theorems.      *)
(***************************************************************************)
EXTENDS HeaderIndex, FiniteSums, SequenceTheorems

-----------------------------------------------------------------------------
(* Ascending.                                                              *)

\* A set of heights is finite and its members are naturals.
LEMMA HeightsFinite ==
    ASSUME NEW N \in Nat, NEW S \in SUBSET (0..N)
    PROVE  IsFiniteSet(S) /\ Cardinality(S) \in Nat /\ \A m \in S : m \in Nat /\ m <= N
  <1>1. IsFiniteSet(0..N)
    BY FS_Interval
  <1>2. IsFiniteSet(S)
    BY <1>1, FS_Subset
  <1>3. Cardinality(S) \in Nat
    BY <1>2, FS_CardinalityType
  <1> QED  BY <1>2, <1>3

\* How many members of a set are below a number, and how that grows by one.
Below(S, n) == {m \in S : m < n}

LEMMA BelowGrows ==
    ASSUME NEW N \in Nat, NEW S \in SUBSET (0..N), NEW n \in Nat
    PROVE  /\ IsFiniteSet(Below(S, n))
           /\ Cardinality(Below(S, n)) \in Nat
           /\ Below(S, n + 1) = IF n \in S THEN Below(S, n) \union {n} ELSE Below(S, n)
           /\ Cardinality(Below(S, n + 1)) =
                IF n \in S THEN Cardinality(Below(S, n)) + 1 ELSE Cardinality(Below(S, n))
  <1>2. Below(S, n) \in SUBSET (0..N)
    BY DEF Below
  <1>3. IsFiniteSet(Below(S, n))
    BY <1>2, HeightsFinite
  <1>4. Cardinality(Below(S, n)) \in Nat
    BY <1>2, HeightsFinite
  <1>5. Below(S, n + 1) = IF n \in S THEN Below(S, n) \union {n} ELSE Below(S, n)
    <2>1. \A m \in S : m \in Nat /\ (m < n + 1 <=> m < n \/ m = n)
      OBVIOUS
    <2>2. CASE n \in S
      <3>1. \A m : m \in Below(S, n + 1) <=> m \in Below(S, n) \union {n}
        BY <2>1, <2>2 DEF Below
      <3> QED  BY <2>2, <3>1
    <2>3. CASE n \notin S
      <3>1. \A m : m \in Below(S, n + 1) <=> m \in Below(S, n)
        BY <2>1, <2>3 DEF Below
      <3> QED  BY <2>3, <3>1
    <2> QED  BY <2>2, <2>3
  <1>6. n \notin Below(S, n)
    BY DEF Below
  <1>7. Cardinality(Below(S, n) \union {n}) = Cardinality(Below(S, n)) + 1
    BY <1>3, <1>6, FS_AddElement
  <1> QED  BY <1>3, <1>4, <1>5, <1>7

\* Every place has a member: the least number with as many members below it
\* comes just after that member.
LEMMA PlaceHasMember ==
    ASSUME NEW N \in Nat, NEW S \in SUBSET (0..N), NEW i \in 1..Cardinality(S)
    PROVE  \E n \in S : Cardinality({m \in S : m <= n}) = i
  <1> DEFINE Enough == {n \in Nat : Cardinality(Below(S, n)) >= i}
  <1>1. N + 1 \in Enough
    <2>1. Below(S, N + 1) = S
      <3>1. \A m \in S : m < N + 1
        OBVIOUS
      <3> QED  BY <3>1 DEF Below
    <2>2. Cardinality(S) \in Nat
      BY HeightsFinite
    <2> QED  BY <2>1, <2>2
  <1>2. PICK n \in Enough : \A m \in Enough : n <= m
    <2>1. Enough \in SUBSET Nat /\ Enough # {}
      BY <1>1
    <2> HIDE DEF Enough
    <2> QED  BY <2>1, LeastNat
  <1>3. n # 0
    <2>1. Below(S, 0) = {}
      <3>1. \A m \in S : m \in Nat /\ ~ (m < 0)
        BY HeightsFinite
      <3> QED  BY <3>1 DEF Below
    <2>2. Cardinality(Below(S, 0)) = 0
      BY <2>1, FS_EmptySet
    <2> QED  BY <2>2
  <1>4. n \in Nat /\ Cardinality(Below(S, n)) >= i /\ n - 1 \in Nat /\ n - 1 \notin Enough
    BY <1>2, <1>3
  <1>8. Cardinality(Below(S, n - 1)) \in Nat
    BY <1>4, BelowGrows
  <1>5. Cardinality(Below(S, n - 1)) < i
    BY <1>4, <1>8
  <1>6. n - 1 \in S /\ Cardinality(Below(S, n)) = i
    <2>1. Cardinality(Below(S, (n - 1) + 1)) =
             IF n - 1 \in S THEN Cardinality(Below(S, n - 1)) + 1 ELSE Cardinality(Below(S, n - 1))
      BY <1>4, BelowGrows
    <2>2. (n - 1) + 1 = n
      BY <1>4
    <2> QED  BY <1>4, <1>8, <1>5, <2>1, <2>2
  <1>7. {m \in S : m <= n - 1} = Below(S, n)
    <2>1. \A m \in S : m <= n - 1 <=> m < n
      BY <1>4, HeightsFinite
    <2> QED  BY <2>1 DEF Below
  <1> QED  BY <1>6, <1>7

LEMMA AscendingType ==
    ASSUME NEW N \in Nat, NEW S \in SUBSET (0..N)
    PROVE  /\ Cardinality(S) \in Nat
           /\ Ascending(S) \in [1..Cardinality(S) -> S]
  <1>1. Cardinality(S) \in Nat
    BY HeightsFinite
  <1>2. \A i \in 1..Cardinality(S) :
            (CHOOSE n \in S : Cardinality({m \in S : m <= n}) = i) \in S
    BY PlaceHasMember
  <1> QED  BY <1>1, <1>2 DEF Ascending

\* An interval in ascending order counts up from its first member.
LEMMA AscendingInterval ==
    ASSUME NEW a \in Nat, NEW b \in Int, a <= b + 1
    PROVE  /\ Cardinality(a..b) = b - a + 1
           /\ Ascending(a..b) = [i \in 1..(b - a + 1) |-> a + i - 1]
  <1>1. Cardinality(a..b) = b - a + 1
    BY FS_Interval
  <1>2. ASSUME NEW i \in 1..(b - a + 1)
        PROVE  (CHOOSE n \in a..b : Cardinality({m \in a..b : m <= n}) = i) = a + i - 1
    <2>1. ASSUME NEW n \in a..b
          PROVE  Cardinality({m \in a..b : m <= n}) = n - a + 1
      <3>1. {m \in a..b : m <= n} = a..n
        OBVIOUS
      <3>2. Cardinality(a..n) = n - a + 1
        BY FS_Interval
      <3> QED  BY <3>1, <3>2
    <2>2. a + i - 1 \in a..b /\ (\A n \in a..b : n - a + 1 = i <=> n = a + i - 1)
      OBVIOUS
    <2>3. \A n \in a..b : Cardinality({m \in a..b : m <= n}) = i <=> n = a + i - 1
      BY <2>1, <2>2
    <2> QED  BY <2>2, <2>3
  <1> QED  BY <1>1, <1>2 DEF Ascending

-----------------------------------------------------------------------------
(* The parts of a step.                                                    *)

\* Writing whole lists of ListSize never gets past the header it starts from.
LEMMA WholeLists ==
    ASSUME NEW b \in Nat, NEW count \in Nat
    PROVE  /\ ListsToWrite(b, count) \in Nat
           /\ ListSize * ListsToWrite(b, count) \in Nat
           /\ ListsToWrite(b, count) # 0 => count + ListSize * ListsToWrite(b, count) <= b
  <1>1. ListSize \in Nat \ {0}
    BY HeaderAssumption
  <1>2. CASE b - ListSize >= count
    <2>1. b - count \in Nat
      BY <1>1, <1>2
    <2>2. /\ (b - count) \div ListSize \in Nat
          /\ ListSize * ((b - count) \div ListSize) \in Nat
          /\ ListSize * ((b - count) \div ListSize) <= b - count
      BY <1>1, <2>1
    <2> QED  BY <1>2, <2>1, <2>2 DEF ListsToWrite
  <1>3. CASE ~ (b - ListSize >= count)
    BY <1>1, <1>3 DEF ListsToWrite
  <1> QED  BY <1>2, <1>3

LEMMA SliceProperties ==
    ASSUME NEW idx \in Seq(Int), NEW from \in Nat, NEW upTo \in Nat, from <= upTo
    PROVE  /\ Slice(idx, from, upTo) \in Seq(Int)
           /\ Len(Slice(idx, from, upTo)) = upTo - from
           /\ Right(idx) /\ upTo <= Len(idx) =>
                \A i \in 1..(upTo - from) : Slice(idx, from, upTo)[i] = from + i - 1
  <1>1. \A i \in 1..(upTo - from) :
            (IF from + i <= Len(idx) THEN idx[from + i] ELSE -1) \in Int
    OBVIOUS
  <1>2. Slice(idx, from, upTo) \in [1..(upTo - from) -> Int]
    BY <1>1 DEF Slice
  <1>3. upTo - from \in Nat
    OBVIOUS
  <1> QED  BY <1>2, <1>3 DEF Slice, Right

LEMMA RunProperties ==
    ASSUME NEW first \in Int, NEW last \in Int, first <= last + 1
    PROVE  /\ Run(first, last) \in Seq(Int)
           /\ Len(Run(first, last)) = last - first + 1
           /\ \A i \in 1..(last - first + 1) : Run(first, last)[i] = first + i - 1
  BY DEF Run

\* The headers a walk back to the header `to` puts into the index.
LEMMA RunAfter ==
    ASSUME NEW to \in Int, NEW last \in Int, to <= last
    PROVE  /\ Run(to + 1, last) \in Seq(Int)
           /\ Len(Run(to + 1, last)) = last - to
           /\ \A i \in 1..(last - to) : Run(to + 1, last)[i] = to + i
  <1>1. last - (to + 1) + 1 = last - to /\ \A i \in 1..(last - to) : to + 1 + i - 1 = to + i
    OBVIOUS
  <1> QED  BY <1>1 DEF Run

\* What is right stays right when it is followed by what comes next.
LEMMA RightGoesOn ==
    ASSUME NEW s \in Seq(Int), NEW t \in Seq(Int),
           Right(s), \A i \in 1..Len(t) : t[i] = Len(s) + i - 1
    PROVE  Right(s \o t)
  BY DEF Right

\* OnAddHeader counts the headers it puts into lists, and puts right ones there
\* from an index that has them.
LEMMA OnAddHeaderKeeps ==
    ASSUME lists \in Seq(Int), NEW b \in Height, NEW idx \in Seq(Int),
           OnAddHeader(b, idx, Len(lists))
    PROVE  /\ lists' \in Seq(Int)
           /\ stored' = Len(lists')
           /\ currentHeader' = b
           /\ Right(idx) /\ Right(lists) /\ b < Len(idx) => Right(lists')
  <1> DEFINE more == ListsToWrite(b, Len(lists))
             upTo == Len(lists) + ListSize * more
  <1>1. b \in Nat /\ Len(lists) \in Nat
    BY HeaderAssumption DEF Height
  <1>2. /\ more \in Nat /\ ListSize * more \in Nat
        /\ more # 0 => upTo <= b
    BY <1>1, WholeLists
  <1>3. upTo \in Nat /\ Len(lists) <= upTo
    BY <1>1, <1>2
  <1>4. /\ lists' = lists \o Slice(idx, Len(lists), upTo)
        /\ stored' = upTo
        /\ currentHeader' = b
    BY DEF OnAddHeader
  <1>5. more = 0 => upTo = Len(lists)
    BY <1>1, HeaderAssumption
  <1> HIDE DEF more, upTo
  <1>6. /\ Slice(idx, Len(lists), upTo) \in Seq(Int)
        /\ Len(Slice(idx, Len(lists), upTo)) = upTo - Len(lists)
        /\ Right(idx) /\ upTo <= Len(idx) =>
             \A i \in 1..(upTo - Len(lists)) : Slice(idx, Len(lists), upTo)[i] = Len(lists) + i - 1
    BY <1>1, <1>3, SliceProperties
  <1>7. lists' \in Seq(Int) /\ Len(lists') = upTo
    BY <1>1, <1>3, <1>4, <1>6
  <1>8. ASSUME Right(idx), Right(lists), b < Len(idx)
        PROVE  Right(lists')
    <2>1. CASE more = 0
      <3>1. upTo = Len(lists)
        BY <1>5, <2>1
      <3>2. \A i \in 1..Len(Slice(idx, Len(lists), upTo)) :
                Slice(idx, Len(lists), upTo)[i] = Len(lists) + i - 1
        BY <1>6, <3>1
      <3> QED  BY <1>4, <1>6, <1>8, <3>2, RightGoesOn
    <2>2. CASE more # 0
      <3>1. upTo <= Len(idx)
        BY <1>1, <1>2, <1>3, <1>8, <2>2
      <3>2. \A i \in 1..Len(Slice(idx, Len(lists), upTo)) :
                Slice(idx, Len(lists), upTo)[i] = Len(lists) + i - 1
        BY <1>6, <1>8, <3>1
      <3> QED  BY <1>4, <1>6, <1>8, <3>2, RightGoesOn
    <2> QED  BY <2>1, <2>2
  <1> QED  BY <1>4, <1>7, <1>8

\* AddHeadersTo, from a memory that counts the stored headers.
LEMMA AddHeadersToKeeps ==
    ASSUME lists \in Seq(Int), index \in Seq(Int), stored = Len(lists),
           currentHeader \in Height,
           NEW first \in Height, NEW last \in Height, AddHeadersTo(first, last)
    PROVE  /\ index' \in Seq(Int) /\ lists' \in Seq(Int)
           /\ stored' = Len(lists')
           /\ currentHeader' \in Height
           /\ IndexRight => IndexRight'
  <1> DEFINE from == IF first > Len(index) THEN first ELSE Len(index)
             idx == index \o Run(from, last)
  <1>1. CASE Takes(first, last)
    <2>1. first \in Int /\ last \in Int /\ Len(index) \in Nat
      BY DEF Height
    <2>2. from = Len(index) /\ Len(index) <= last + 1 /\ last - Len(index) + 1 \in Nat
      BY <1>1, <2>1 DEF Takes
    <2>3. /\ Run(from, last) \in Seq(Int)
          /\ Len(Run(from, last)) = last - Len(index) + 1
          /\ \A i \in 1..(last - Len(index) + 1) : Run(from, last)[i] = Len(index) + i - 1
      <3>1. /\ Run(Len(index), last) \in Seq(Int)
            /\ Len(Run(Len(index), last)) = last - Len(index) + 1
            /\ \A i \in 1..(last - Len(index) + 1) : Run(Len(index), last)[i] = Len(index) + i - 1
        BY <2>1, <2>2, RunProperties
      <3> QED  BY <2>2, <3>1
    <2>4. index' = idx /\ OnAddHeader(last, idx, stored)
      BY <1>1 DEF AddHeadersTo
    <2> HIDE DEF from
    <2>5. idx \in Seq(Int) /\ Len(idx) = last + 1
      BY <2>1, <2>3
    <2>6. Right(index) => Right(idx)
      BY <2>3, RightGoesOn
    <2> HIDE DEF idx
    <2>7. last < Len(idx)
      BY <2>1, <2>5
    <2> QED  BY <2>4, <2>5, <2>6, <2>7, OnAddHeaderKeeps DEF IndexRight
  <1>2. CASE ~ Takes(first, last)
    BY <1>2 DEF AddHeadersTo, IndexRight
  <1> QED  BY <1>1, <1>2

-----------------------------------------------------------------------------
(* Starting.                                                               *)

\* The lists read back, and the same from lists that are right.
LEMMA IndexFromListsProperties ==
    ASSUME lists \in Seq(Int)
    PROVE  /\ IndexFromLists \in Seq(Int)
           /\ Len(IndexFromLists) >= 1
           /\ Right(lists) /\ lists # <<>> => IndexFromLists = lists
  <1> DEFINE places == {i \in 1..Len(lists) : lists[i] # 0}
             kept == Ascending(places)
             rest == [i \in DOMAIN kept |-> lists[kept[i]]]
  <1>1. Len(lists) \in Nat /\ places \in SUBSET (0..Len(lists))
    OBVIOUS
  <1>2. Cardinality(places) \in Nat /\ kept \in [1..Cardinality(places) -> places]
    <2> HIDE DEF places
    <2> QED  BY <1>1, AscendingType
  <1>3. rest \in Seq(Int) /\ Len(rest) = Cardinality(places)
    <2>1. \A i \in 1..Cardinality(places) : lists[kept[i]] \in Int
      <3>1. \A n \in places : lists[n] \in Int
        OBVIOUS
      <3> HIDE DEF places, kept
      <3> QED  BY <1>2, <3>1
    <2>2. DOMAIN kept = 1..Cardinality(places)
      BY <1>2
    <2> HIDE DEF places, kept
    <2> QED  BY <1>2, <2>1, <2>2
  <1>4. IndexFromLists = Genesis \o rest
    BY DEF IndexFromLists
  <1>5. ASSUME Right(lists), lists # <<>>
        PROVE  IndexFromLists = lists
    <2>1. Len(lists) >= 1
      BY <1>5
    <2>2. places = 2..Len(lists)
      BY <1>5, <2>1 DEF Right
    <2>3. Cardinality(places) = Len(lists) - 1 /\ kept = [i \in 1..(Len(lists) - 1) |-> i + 1]
      <3>1. /\ Cardinality(2..Len(lists)) = Len(lists) - 2 + 1
            /\ Ascending(2..Len(lists)) = [i \in 1..(Len(lists) - 2 + 1) |-> 2 + i - 1]
        BY <1>1, <2>1, AscendingInterval
      <3>2. Len(lists) - 2 + 1 = Len(lists) - 1
        BY <1>1
      <3>3. \A i \in 1..(Len(lists) - 1) : 2 + i - 1 = i + 1
        OBVIOUS
      <3> QED  BY <2>2, <3>1, <3>2, <3>3
    <2>4. rest = [i \in 1..(Len(lists) - 1) |-> lists[i + 1]]
      <3> HIDE DEF kept
      <3> QED  BY <2>3
    <2>5. lists[1] = 0
      BY <1>5, <2>1 DEF Right
    <2> HIDE DEF rest
    <2>6. /\ Len(Genesis \o rest) = Len(lists)
          /\ \A i \in 1..Len(lists) : (Genesis \o rest)[i] = lists[i]
      BY <1>3, <2>1, <2>3, <2>4, <2>5 DEF Genesis
    <2>7. Genesis \o rest \in Seq(Int)
      BY <1>3 DEF Genesis
    <2> QED  BY <1>4, <2>6, <2>7, SeqEqual
  <1> HIDE DEF rest
  <1> QED  BY <1>3, <1>4, <1>5 DEF Genesis

\* The rows read back, and the same from rows without a gap.
LEMMA IndexFromRowsProperties ==
    ASSUME rows \in [Height -> {"none", "header", "block"}], currentHeader \in Height
    PROVE  /\ IndexFromRows \in Seq(Int)
           /\ Len(IndexFromRows) >= 1
           /\ Last(IndexFromRows) \in Height
           /\ RowsComplete =>
                /\ Right(IndexFromRows)
                /\ Last(IndexFromRows) = Len(IndexFromRows) - 1
                /\ currentHeader <= Last(IndexFromRows)
  <1> DEFINE found == {h \in Height \ {0} : rows[h] # "none"}
  <1>1. MaxHeight \in Nat /\ 0 \in Height /\ found \in SUBSET (0..MaxHeight)
    BY HeaderAssumption DEF Height
  <1>2. Cardinality(found) \in Nat /\ Ascending(found) \in [1..Cardinality(found) -> found]
    <2> HIDE DEF found
    <2> QED  BY <1>1, AscendingType
  <1>3. IndexFromRows = Genesis \o Ascending(found)
    BY DEF IndexFromRows
  <1>4. found \subseteq Height
    OBVIOUS
  <1>5. ASSUME RowsComplete
        PROVE  \E top \in Height : found = 1..top /\ currentHeader <= top
    <2>1. CASE found = {}
      <3>1. currentHeader = 0
        BY <1>5, <2>1 DEF RowsComplete, Height
      <3> QED  BY <1>1, <2>1, <3>1
    <2>2. CASE found # {}
      <3> DEFINE above == {MaxHeight - h : h \in found}
      <3>1. above \in SUBSET Nat /\ above # {}
        BY <1>1, <2>2 DEF Height
      <3>2. PICK n \in above : \A m \in above : n <= m
        <4> HIDE DEF above
        <4> QED  BY <3>1, LeastNat
      <3>3. PICK top \in found : n = MaxHeight - top
        BY <3>2
      <3>4. \A h \in found : h <= top
        <4>1. \A h \in found : h \in Nat /\ MaxHeight - h \in above
          BY <1>1
        <4>2. \A h \in found : MaxHeight - top <= MaxHeight - h
          BY <3>2, <3>3, <4>1
        <4> QED  BY <1>1, <3>3, <4>1, <4>2
      <3>5. found = 1..top
        <4>1. found \subseteq 1..top
          BY <1>1, <3>3, <3>4 DEF Height
        <4>2. 1..top \subseteq found
          BY <1>1, <1>5, <3>3 DEF Height, RowsComplete
        <4> QED  BY <4>1, <4>2
      <3>6. currentHeader <= top
        BY <1>1, <1>5, <3>3, <3>4 DEF Height, RowsComplete
      <3> QED  BY <1>4, <3>3, <3>5, <3>6
    <2> QED  BY <2>1, <2>2
  <1>6. ASSUME RowsComplete
        PROVE  /\ Right(IndexFromRows)
               /\ Last(IndexFromRows) = Len(IndexFromRows) - 1
               /\ currentHeader <= Last(IndexFromRows)
    <2>1. PICK top \in Height : found = 1..top /\ currentHeader <= top
      BY <1>5, <1>6
    <2>2. top \in Nat
      BY <2>1, HeaderAssumption DEF Height
    <2>3. Ascending(found) = [i \in 1..top |-> i]
      <3>1. Ascending(1..top) = [i \in 1..(top - 1 + 1) |-> 1 + i - 1]
        BY <2>2, AscendingInterval
      <3>2. top - 1 + 1 = top /\ \A i \in 1..top : 1 + i - 1 = i
        BY <2>2
      <3>3. [i \in 1..(top - 1 + 1) |-> 1 + i - 1] = [i \in 1..top |-> i]
        BY <3>2
      <3> HIDE DEF found
      <3> QED  BY <2>1, <3>1, <3>3
    <2>4. IndexFromRows = Genesis \o [i \in 1..top |-> i]
      BY <1>3, <2>3
    <2>5. [i \in 1..top |-> i] \in Seq(Int) /\ Len([i \in 1..top |-> i]) = top
      BY <2>2
    <2>6. Len(IndexFromRows) = top + 1 /\ \A i \in 1..(top + 1) : IndexFromRows[i] = i - 1
      BY <2>2, <2>4, <2>5 DEF Genesis
    <2> QED  BY <2>1, <2>2, <2>6 DEF Right, Last
  <1> HIDE DEF found
  <1>7. Ascending(found) \in Seq(Height) /\ Genesis \in Seq(Height) /\ Len(Genesis) = 1
    BY <1>1, <1>2, <1>4 DEF Genesis
  <1>8. IndexFromRows \in Seq(Height) /\ Len(IndexFromRows) >= 1
    <2>1. /\ Genesis \o Ascending(found) \in Seq(Height)
          /\ Len(Genesis \o Ascending(found)) = Len(Genesis) + Len(Ascending(found))
      BY <1>7, ConcatProperties
    <2>2. Len(Ascending(found)) \in Nat
      BY <1>7
    <2> QED  BY <1>3, <1>7, <2>1, <2>2
  <1>9. Last(IndexFromRows) \in Height
    BY <1>8 DEF Last
  <1>10. Height \subseteq Int
    BY DEF Height
  <1> QED  BY <1>6, <1>8, <1>9, <1>10

\* A start, from what is on disk.
LEMMA StartKeeps ==
    ASSUME rows \in [Height -> {"none", "header", "block"}],
           lists \in Seq(Int), currentHeader \in Height, Start
    PROVE  /\ index' \in Seq(Int) /\ lists' \in Seq(Int)
           /\ stored' = Len(lists')
           /\ currentHeader' \in Height
           /\ (lists # <<>> \/ RowsComplete) /\ Right(lists) => IndexRight'
           /\ RowsComplete /\ Right(lists) => HeaderHeight' >= currentHeader - 1
  <1>1. Len(lists) \in Nat /\ currentHeader \in Nat
    BY HeaderAssumption DEF Height
  <1>2. CASE StartFromLists
    <2> DEFINE base == IndexFromLists
               back == NeedsWalk(Len(lists)) /\ WalkReaches(Last(base)) /\ WalkGoesOn(base)
               idx == base \o Run(Len(base), currentHeader)
    <2>1. lists # <<>>
      BY <1>1, <1>2 DEF StartFromLists
    <2>2. /\ base \in Seq(Int) /\ Len(base) >= 1
          /\ Right(lists) => base = lists
      BY <2>1, IndexFromListsProperties
    <2>4. Right(lists) => Last(base) = Len(lists) - 1
      <3>1. Right(lists) => Last(lists) = Len(lists) - 1
        BY <1>1, <2>1 DEF Right, Last
      <3> HIDE DEF base
      <3> QED  BY <2>2, <3>1
    <2>5. CASE back
      <3>1. index' = idx /\ OnAddHeader(currentHeader, idx, Len(lists))
        BY <1>2, <2>5 DEF StartFromLists
      <3>2. currentHeader >= Len(base)
        BY <2>5 DEF WalkGoesOn
      <3> HIDE DEF base
      <3> DEFINE to == Len(base) - 1
                 walked == Run(to + 1, currentHeader)
      <3>3. idx = base \o walked
        <4>1. to + 1 = Len(base)
          BY <2>2
        <4> QED  BY <4>1
      <3>4. to \in Int /\ to < currentHeader /\ (Right(lists) => to = Len(lists) - 1)
        BY <1>1, <2>2, <3>2
      <3> HIDE DEF idx, to
      <3>5. /\ walked \in Seq(Int)
            /\ Len(walked) = currentHeader - to
            /\ \A i \in 1..(currentHeader - to) : walked[i] = to + i
        BY <1>1, <3>4, RunAfter
      <3> HIDE DEF walked
      <3>6. idx \in Seq(Int) /\ Len(idx) = Len(base) + (currentHeader - to)
        <4>1. /\ base \o walked \in Seq(Int)
              /\ Len(base \o walked) = Len(base) + Len(walked)
          BY <2>2, <3>5, ConcatProperties
        <4> QED  BY <3>3, <3>5, <4>1
      <3>7. Right(lists) => Right(idx) /\ Len(idx) = currentHeader + 1
        <4> SUFFICES ASSUME Right(lists)
                     PROVE  Right(idx) /\ Len(idx) = currentHeader + 1
          OBVIOUS
        <4>1. base = lists /\ to = Len(base) - 1 /\ Right(base)
          BY <2>2, <3>4
        <4>2. \A i \in 1..Len(walked) : walked[i] = Len(base) + i - 1
          <5>1. Len(base) \in Nat /\ Len(walked) = currentHeader - to
            BY <2>2, <3>5
          <5>2. \A i \in 1..(currentHeader - to) : to + i = Len(base) + i - 1
            BY <1>1, <3>4, <4>1, <5>1
          <5> QED  BY <3>5, <5>1, <5>2
        <4>3. Right(base \o walked)
          BY <2>2, <3>5, <4>1, <4>2, RightGoesOn
        <4> QED  BY <1>1, <2>2, <3>3, <3>6, <4>1, <4>3
      <3>8. /\ lists' \in Seq(Int) /\ stored' = Len(lists') /\ currentHeader' = currentHeader
            /\ Right(idx) /\ Right(lists) /\ currentHeader < Len(idx) => Right(lists')
        BY <3>1, <3>6, OnAddHeaderKeeps
      <3>9. Right(lists) => IndexRight' /\ HeaderHeight' = currentHeader
        <4> SUFFICES ASSUME Right(lists)
                     PROVE  IndexRight' /\ HeaderHeight' = currentHeader
          OBVIOUS
        <4>1. index' = idx /\ Right(idx) /\ Len(idx) = currentHeader + 1
          BY <3>1, <3>7
        <4>2. Right(lists')
          BY <1>1, <3>8, <4>1
        <4>3. IndexRight'
          BY <4>1, <4>2 DEF IndexRight, Right
        <4> QED  BY <1>1, <4>1, <4>3 DEF HeaderHeight
      <3> QED  BY <1>1, <3>1, <3>6, <3>8, <3>9
    <2>6. CASE ~ back
      <3>1. index' = base /\ stored' = Len(lists) /\ UNCHANGED <<lists, currentHeader>>
        BY <1>2, <2>6 DEF StartFromLists
      <3>2. Right(lists) => IndexRight'
        <4> HIDE DEF base
        <4> QED  BY <2>2, <3>1 DEF IndexRight, Right
      <3>3. RowsComplete /\ Right(lists) => currentHeader <= Len(lists)
        <4> SUFFICES ASSUME RowsComplete, Right(lists), currentHeader > Len(lists)
                     PROVE  FALSE
          BY <1>1
        <4>1. WalkReaches(Last(base)) /\ WalkGoesOn(base)
          <5>1. Last(base) = Len(lists) - 1 /\ Len(base) = Len(lists)
            BY <2>2, <2>4
          <5> HIDE DEF base
          <5> QED  BY <1>1, <2>1, <5>1 DEF WalkReaches, WalkGoesOn, RowsComplete
        <4> QED  BY <2>6, <4>1 DEF NeedsWalk
      <3>4. RowsComplete /\ Right(lists) => HeaderHeight' >= currentHeader - 1
        <4> HIDE DEF base
        <4> QED  BY <1>1, <2>2, <3>1, <3>3 DEF HeaderHeight
      <3> QED  BY <2>2, <3>1, <3>2, <3>4
    <2> QED  BY <2>5, <2>6
  <1>3. CASE StartFromRows
    <2>1. lists = <<>> /\ Len(lists) = 0
      BY <1>1, <1>3 DEF StartFromRows
    <2>2. /\ index' = IndexFromRows
          /\ OnAddHeader(Last(IndexFromRows), IndexFromRows, Len(lists))
      BY <1>3, <2>1 DEF StartFromRows
    <2>3. /\ IndexFromRows \in Seq(Int)
          /\ Last(IndexFromRows) \in Height
          /\ RowsComplete =>
               /\ Right(IndexFromRows)
               /\ Last(IndexFromRows) = Len(IndexFromRows) - 1
               /\ currentHeader <= Last(IndexFromRows)
      BY IndexFromRowsProperties
    <2>4. /\ lists' \in Seq(Int) /\ stored' = Len(lists')
          /\ currentHeader' = Last(IndexFromRows)
          /\ Right(IndexFromRows) /\ Right(lists) /\ Last(IndexFromRows) < Len(IndexFromRows)
               => Right(lists')
      BY <2>2, <2>3, OnAddHeaderKeeps
    <2>5. Len(index') \in Nat
      BY <2>2, <2>3
    <2>6. RowsComplete => /\ Right(lists) => IndexRight'
                          /\ HeaderHeight' >= currentHeader - 1
      BY <1>1, <2>2, <2>3, <2>4, <2>5 DEF IndexRight, Right, HeaderHeight
    <2> QED  BY <2>1, <2>2, <2>3, <2>4, <2>6
  <1> QED  BY <1>2, <1>3 DEF Start

-----------------------------------------------------------------------------
(* The invariant and the theorems.                                         *)

\* The types, and that a running node has counted every header in its lists: the
\* count is what OnAddHeader goes on from.
HeaderInvariant ==
    /\ rows \in [Height -> {"none", "header", "block"}]
    /\ lists \in Seq(Int) /\ index \in Seq(Int)
    /\ currentHeader \in Height /\ currentBlock \in Height /\ height \in Height
    /\ running \in BOOLEAN
    /\ running => stored = Len(lists)

LEMMA HeaderInit == Init => HeaderInvariant
  <1>1. 0 \in Height
    BY HeaderAssumption DEF Height
  <1> QED  BY <1>1 DEF Init, HeaderInvariant, Genesis

\* What every step keeps, and what it may do to an index that is right.
LEMMA HeaderStep ==
    ASSUME HeaderInvariant, [Next]_vars
    PROVE  /\ HeaderInvariant'
           /\ (lists # <<>> \/ RowsComplete) /\ IndexRight => IndexRight'
  <1> USE DEF HeaderInvariant
  <1>1. ASSUME NEW first \in Height, NEW last \in Height, AddHeaders(first, last)
        PROVE  HeaderInvariant' /\ (IndexRight => IndexRight')
    <2>1. /\ index' \in Seq(Int) /\ lists' \in Seq(Int)
          /\ stored' = Len(lists')
          /\ currentHeader' \in Height
          /\ IndexRight => IndexRight'
      BY <1>1, AddHeadersToKeeps DEF AddHeaders
    <2> QED  BY <1>1, <2>1 DEF AddHeaders
  <1>2. CASE AddBlock
    <2>1. height + 1 \in Height
      BY <1>2, HeaderAssumption DEF AddBlock, Height
    <2>2. /\ index' \in Seq(Int) /\ lists' \in Seq(Int)
          /\ stored' = Len(lists')
          /\ currentHeader' \in Height
          /\ IndexRight => IndexRight'
      BY <1>2, <2>1, AddHeadersToKeeps DEF AddBlock
    <2> QED  BY <1>2, <2>1, <2>2 DEF AddBlock
  <1>3. CASE Stop
    <2>1. 0 \in Height
      BY HeaderAssumption DEF Height
    <2>2. index' = <<>> /\ UNCHANGED disk /\ running' = FALSE /\ height' = 0
      BY <1>3 DEF Stop
    <2>3. IndexRight => IndexRight'
      BY <2>2 DEF disk, IndexRight, Right
    <2> QED  BY <2>1, <2>2, <2>3 DEF disk
  <1>4. CASE Start
    <2>1. /\ index' \in Seq(Int) /\ lists' \in Seq(Int)
          /\ stored' = Len(lists')
          /\ currentHeader' \in Height
          /\ (lists # <<>> \/ RowsComplete) /\ Right(lists) => IndexRight'
      BY <1>4, StartKeeps
    <2> QED  BY <1>4, <2>1 DEF Start, IndexRight
  <1>5. CASE UNCHANGED vars
    BY <1>5 DEF vars, disk, memory, IndexRight, Right
  <1> QED  BY <1>1, <1>2, <1>3, <1>4, <1>5 DEF Next

\* A running node has counted exactly the headers that are in its lists, however
\* it was stopped and started (_stored_header_count against IX_HeaderHashList).
THEOREM CountsStoredHeaders == Spec => []HeaderInvariant
  <1>1. HeaderInvariant /\ [Next]_vars => HeaderInvariant'
    BY HeaderStep
  <1> QED  BY <1>1, HeaderInit, PTL DEF Spec

\* No step puts a wrong hash into the index or the stored lists, once a list is
\* stored or when no header is without its row: whatever the sizes of lists and
\* messages, and wherever the node stops.
THEOREM IndexStaysRight == Spec => IndexKeptRight
  <1>1. HeaderInvariant /\ [Next]_vars =>
            ((lists # <<>> \/ RowsComplete) /\ IndexRight => IndexRight')
    BY HeaderStep
  <1> QED  BY <1>1, CountsStoredHeaders, PTL DEF Spec, IndexKeptRight

\* A start that finds every row and right lists ends at most one header short of
\* the current one (the walk is skipped when the current header is not above the
\* count).
THEOREM StartComesBack == Spec => StartLosesAtMostOne
  <1>1. HeaderInvariant /\ [Next]_vars =>
            (Start /\ RowsComplete /\ IndexRight => HeaderHeight' >= currentHeader - 1)
    BY StartKeeps DEF HeaderInvariant, IndexRight
  <1> QED  BY <1>1, CountsStoredHeaders, PTL DEF Spec, StartLosesAtMostOne
=============================================================================
