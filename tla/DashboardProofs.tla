--------------------------- MODULE DashboardProofs ---------------------------
(***************************************************************************)
(* What the page shows, for any networks and limit: its selection, its     *)
(* card, its news, the ids of the disruptions and the fixtures.            *)
(*                                                                         *)
(* Everything on the page is listed by InOrder, so the proofs begin with   *)
(* it: ranking the elements of a finite set by how many are before them    *)
(* lists each of them once and in order (InOrderLists).  A filter keeps    *)
(* the entries it is for (EntriesProperties), and the sort of the rows     *)
(* neither loses nor repeats one (SummariesOf).                            *)
(*                                                                         *)
(* The state needs one invariant, PageInvariant: what the feeds hold is    *)
(* the answer to a network, or the fixtures; and the selection is a line   *)
(* of the page unless the effect that repairs it is still to run.          *)
(***************************************************************************)
EXTENDS Dashboard, SequenceTheorems, FiniteSetTheorems, TLAPS

-----------------------------------------------------------------------------
(* Listing a finite set in order *)

StrictlyOrders(R, S) ==
  /\ \A x \in S : <<x, x>> \notin R
  /\ \A x, y, z \in S : <<x, y>> \in R /\ <<y, z>> \in R => <<x, z>> \in R
  /\ \A x, y \in S : x = y \/ <<x, y>> \in R \/ <<y, x>> \in R

\* s lists S in the order R.
Lists(s, S, R) ==
  /\ Cardinality(S) \in Nat /\ DOMAIN s = 1..Cardinality(S)
  /\ \A k \in DOMAIN s : s[k] \in S
  /\ \A x \in S : \E k \in DOMAIN s : s[k] = x
  /\ \A j, k \in DOMAIN s : j < k <=> <<s[j], s[k]>> \in R

LEMMA InOrderLists ==
  ASSUME NEW S, IsFiniteSet(S), NEW R, StrictlyOrders(R, S)
  PROVE  Lists(InOrder(S, R), S, R)
<1> DEFINE n == Cardinality(S)
           Before(x) == {y \in S : <<y, x>> \in R}
           place == [x \in S |-> Cardinality(Before(x)) + 1]
<1>1. n \in Nat
  BY FS_CardinalityType
<1>2. \A x \in S : IsFiniteSet(Before(x)) /\ Cardinality(Before(x)) \in 0..(n - 1)
  <2> SUFFICES ASSUME NEW x \in S
               PROVE  IsFiniteSet(Before(x)) /\ Cardinality(Before(x)) \in 0..(n - 1)
    OBVIOUS
  <2>1. Before(x) \in SUBSET S /\ Before(x) # S
    BY DEF StrictlyOrders
  <2>2. IsFiniteSet(Before(x)) /\ Cardinality(Before(x)) <= n /\ Cardinality(Before(x)) # n
    BY <2>1, FS_Subset
  <2>3. Cardinality(Before(x)) \in Nat
    BY <2>2, FS_CardinalityType
  <2> QED BY <1>1, <2>2, <2>3
<1>3. \A x, y \in S : <<x, y>> \in R => place[x] < place[y]
  <2> SUFFICES ASSUME NEW x \in S, NEW y \in S, <<x, y>> \in R PROVE place[x] < place[y]
    OBVIOUS
  <2>1. Before(x) \in SUBSET Before(y) /\ Before(x) # Before(y)
    BY DEF StrictlyOrders
  <2>2. Cardinality(Before(x)) <= Cardinality(Before(y))
        /\ Cardinality(Before(x)) # Cardinality(Before(y))
    BY <1>2, <2>1, FS_Subset
  <2>3. Cardinality(Before(x)) \in Int /\ Cardinality(Before(y)) \in Int
    BY <1>2
  <2> HIDE DEF Before
  <2> QED BY <2>2, <2>3
<1>4. place \in [S -> 1..n]
  <2> HIDE DEF Before, n
  <2> QED BY <1>1, <1>2
<1>5. \A x, y \in S : place[x] = place[y] => x = y
  <2> SUFFICES ASSUME NEW x \in S, NEW y \in S, place[x] = place[y] PROVE x = y
    OBVIOUS
  <2> HIDE DEF place
  <2>1. place[x] \in Int /\ place[y] \in Int
    BY <1>1, <1>4
  <2>2. ~(place[x] < place[y]) /\ ~(place[y] < place[x])
    BY <2>1
  <2> QED BY <1>3, <2>2 DEF StrictlyOrders
<1>6. \A k \in 1..n : \E x \in S : place[x] = k
  <2>1. place \in Injection(S, 1..n)
    <3> HIDE DEF place
    <3> QED BY <1>4, <1>5 DEF Injection, IsInjective
  <2>2. IsFiniteSet(1..n) /\ Cardinality(1..n) = n
    BY <1>1, FS_Interval
  <2>3. place \in Surjection(S, 1..n)
    <3> HIDE DEF place
    <3> QED BY <2>1, <2>2, FS_Injection
  <2> HIDE DEF place
  <2> QED BY <2>3 DEF Surjection
<1> DEFINE s == InOrder(S, R)
<1>7. DOMAIN s = 1..n /\ \A k \in 1..n : s[k] = CHOOSE x \in S : Cardinality(Before(x)) = k - 1
  BY DEF InOrder
<1>8. \A k \in 1..n : s[k] \in S /\ place[s[k]] = k
  <2> SUFFICES ASSUME NEW k \in 1..n PROVE s[k] \in S /\ place[s[k]] = k
    OBVIOUS
  <2>1. PICK x \in S : Cardinality(Before(x)) = k - 1
    <3>1. PICK x \in S : place[x] = k
      BY <1>6
    <3>2. Cardinality(Before(x)) \in Int
      BY <1>2, <1>1
    <3>3. Cardinality(Before(x)) + 1 = k
      BY <3>1
    <3> HIDE DEF Before
    <3> QED BY <3>2, <3>3
  <2>2. s[k] \in S /\ Cardinality(Before(s[k])) = k - 1
    <3> HIDE DEF Before, s
    <3> QED BY <1>7, <2>1
  <2> HIDE DEF s, Before
  <2> QED BY <2>2
<1> HIDE DEF s, place, Before
<1>9. \A x \in S : \E k \in 1..n : s[k] = x
  BY <1>4, <1>5, <1>8
<1>10. \A j, k \in 1..n : j < k <=> <<s[j], s[k]>> \in R
  <2> SUFFICES ASSUME NEW j \in 1..n, NEW k \in 1..n PROVE j < k <=> <<s[j], s[k]>> \in R
    OBVIOUS
  <2>1. s[j] = s[k] \/ <<s[j], s[k]>> \in R \/ <<s[k], s[j]>> \in R
    BY <1>8 DEF StrictlyOrders
  <2>2. s[j] = s[k] => <<s[j], s[k]>> \notin R
    BY <1>8 DEF StrictlyOrders
  <2>3. <<s[j], s[k]>> \in R => j < k
    BY <1>3, <1>8
  <2>4. <<s[k], s[j]>> \in R => k < j
    BY <1>3, <1>8
  <2>5. s[j] = s[k] => j = k
    BY <1>8
  <2> QED BY <1>1, <2>1, <2>3, <2>4, <2>5
<1> QED BY <1>1, <1>7, <1>8, <1>9, <1>10, Zenon DEF Lists, s

LEMMA SeqOfItsEntries ==
  ASSUME NEW T, NEW s \in Seq(T)
  PROVE  /\ s \in Seq({s[k] : k \in DOMAIN s})
         /\ Len(s) \in Nat /\ DOMAIN s = 1..Len(s)
<1>1. Len(s) \in Nat /\ DOMAIN s = 1..Len(s) /\ s \in [1..Len(s) -> T]
  BY LenProperties
<1>2. s \in [1..Len(s) -> {s[k] : k \in DOMAIN s}]
  BY <1>1
<1> QED BY <1>1, <1>2, IsASeq

\* The positions in I, in their order.
Ascending(I) == InOrder(I, {p \in I \X I : p[1] < p[2]})

LEMMA AscendingLists ==
  ASSUME NEW n \in Nat, NEW I \in SUBSET (1..n)
  PROVE  LET at == Ascending(I) IN
         /\ IsFiniteSet(I) /\ Cardinality(I) \in Nat /\ DOMAIN at = 1..Cardinality(I)
         /\ \A k \in DOMAIN at : at[k] \in I
         /\ \A i \in I : \E k \in DOMAIN at : at[k] = i
         /\ \A j, k \in DOMAIN at : j < k <=> at[j] < at[k]
<1> DEFINE R == {p \in I \X I : p[1] < p[2]}
           at == Ascending(I)
<1>1. IsFiniteSet(I)
  <2>1. 1 \in Int /\ n \in Int
    OBVIOUS
  <2>2. IsFiniteSet(1..n)
    BY <2>1, FS_Interval
  <2> QED BY <2>2, FS_Subset
<1>2. \A i, j \in I : <<i, j>> \in R <=> i < j
  OBVIOUS
<1>3. StrictlyOrders(R, I)
  <2> HIDE DEF R
  <2> QED BY <1>2 DEF StrictlyOrders
<1>4. Lists(at, I, R)
  BY <1>1, <1>3, InOrderLists DEF Ascending
<1>5. \A j, k \in DOMAIN at : j < k <=> at[j] < at[k]
  <2> HIDE DEF R, at
  <2> QED BY <1>2, <1>4 DEF Lists
<1> HIDE DEF R, at
<1>6. /\ IsFiniteSet(I) /\ Cardinality(I) \in Nat /\ DOMAIN at = 1..Cardinality(I)
      /\ \A k \in DOMAIN at : at[k] \in I
      /\ \A i \in I : \E k \in DOMAIN at : at[k] = i
      /\ \A j, k \in DOMAIN at : j < k <=> at[j] < at[k]
  BY <1>1, <1>4, <1>5 DEF Lists
<1> QED BY <1>6 DEF at

\* A set of positions that is not empty has a first one.
LEMMA FirstPosition ==
  ASSUME NEW n \in Nat, NEW I \in SUBSET (1..n), I # {}
  PROVE  \E i \in I : \A j \in I : i <= j
<1> DEFINE at == Ascending(I)
<1>1. /\ Cardinality(I) \in Nat /\ DOMAIN at = 1..Cardinality(I)
      /\ \A k \in DOMAIN at : at[k] \in I
      /\ \A i \in I : \E k \in DOMAIN at : at[k] = i
      /\ \A j, k \in DOMAIN at : j < k <=> at[j] < at[k]
  BY AscendingLists
<1> HIDE DEF at
<1>2. 1 \in DOMAIN at
  <2>1. PICK k \in DOMAIN at : at[k] \in I
    BY <1>1
  <2> QED BY <1>1, <2>1
<1>3. ASSUME NEW j \in I PROVE at[1] <= j
  <2>1. PICK k \in DOMAIN at : at[k] = j
    BY <1>1
  <2>2. k = 1 \/ 1 < k
    BY <1>1
  <2>3. k = 1 \/ at[1] < at[k]
    BY <1>1, <1>2, <2>2
  <2>4. \A i \in I : i \in Int
    OBVIOUS
  <2>5. at[1] \in Int /\ j \in Int
    BY <1>1, <1>2, <2>4
  <2> QED BY <2>1, <2>3, <2>5
<1> QED BY <1>1, <1>2, <1>3

\* The entries of a sequence at some positions: one per position, in order.
LEMMA EntriesProperties ==
  ASSUME NEW T, NEW seq \in Seq(T), NEW I \in SUBSET (DOMAIN seq)
  PROVE  LET at == Ascending(I)
             s == Entries(seq, I)
         IN /\ IsFiniteSet(I) /\ Cardinality(I) \in Nat
            /\ s \in Seq(T) /\ Len(s) = Cardinality(I) /\ DOMAIN s = 1..Len(s)
            /\ DOMAIN at = DOMAIN s
            /\ \A k \in DOMAIN s : at[k] \in I /\ s[k] = seq[at[k]]
            /\ \A i \in I : \E k \in DOMAIN s : at[k] = i
            /\ \A j, k \in DOMAIN s : j < k <=> at[j] < at[k]
<1> DEFINE at == Ascending(I)
           s == Entries(seq, I)
<1>1. Len(seq) \in Nat /\ DOMAIN seq = 1..Len(seq) /\ \A i \in DOMAIN seq : seq[i] \in T
  BY LenProperties, ElementOfSeq
<1>2. /\ IsFiniteSet(I) /\ Cardinality(I) \in Nat /\ DOMAIN at = 1..Cardinality(I)
      /\ \A k \in DOMAIN at : at[k] \in I
      /\ \A i \in I : \E k \in DOMAIN at : at[k] = i
      /\ \A j, k \in DOMAIN at : j < k <=> at[j] < at[k]
  BY <1>1, AscendingLists
<1>3. s = [k \in DOMAIN at |-> seq[at[k]]]
  BY DEF Entries, Ascending
<1> HIDE DEF at, s
<1>4. s \in [1..Cardinality(I) -> T]
  BY <1>1, <1>2, <1>3
<1>5. s \in Seq(T) /\ Len(s) = Cardinality(I) /\ DOMAIN s = 1..Len(s)
  BY <1>2, <1>4, IsASeq, LenProperties
<1>6. /\ IsFiniteSet(I) /\ Cardinality(I) \in Nat
      /\ s \in Seq(T) /\ Len(s) = Cardinality(I) /\ DOMAIN s = 1..Len(s)
      /\ DOMAIN at = DOMAIN s
      /\ \A k \in DOMAIN s : at[k] \in I /\ s[k] = seq[at[k]]
      /\ \A i \in I : \E k \in DOMAIN s : at[k] = i
      /\ \A j, k \in DOMAIN s : j < k <=> at[j] < at[k]
  BY <1>2, <1>3, <1>5
<1> QED BY <1>6 DEF at, s

\* None, if there is no position.
LEMMA NoEntries ==
  ASSUME NEW T, NEW seq \in Seq(T), NEW I \in SUBSET (DOMAIN seq)
  PROVE  Entries(seq, I) = <<>> <=> I = {}
<1>1. /\ IsFiniteSet(I) /\ Entries(seq, I) \in Seq(T) /\ Len(Entries(seq, I)) = Cardinality(I)
  BY EntriesProperties
<1>2. Cardinality(I) = 0 <=> I = {}
  BY <1>1, FS_EmptySet
<1> QED BY <1>1, <1>2, EmptySeq

-----------------------------------------------------------------------------
(* The status rows and the lines of the page *)

\* As many rows as there are, each with a name that can be sorted.
Sortable(rows) ==
  /\ Len(rows) \in Nat /\ DOMAIN rows = 1..Len(rows)
  /\ \A i \in DOMAIN rows : rows[i].name \in Nat
DistinctIds(rows) == \A i, j \in DOMAIN rows : rows[i].id = rows[j].id => i = j

LEMMA LiveStatusRows ==
  ASSUME NEW n \in Networks
  PROVE  Sortable(LiveStatus(n)) /\ DistinctIds(LiveStatus(n))
<1> DEFINE I == {i \in DOMAIN n : n[i].mode \in ValidModes /\ n[i].statuses # <<>>}
           served == Entries(n, I)
           at == Ascending(I)
           rows == LiveStatus(n)
<1>1. n \in Seq(LineResponse) /\ \A i, j \in DOMAIN n : n[i].id = n[j].id => i = j
  BY DashboardAssumption
<1>2. I \in SUBSET DOMAIN n
  OBVIOUS
<1>3. /\ served \in Seq(LineResponse) /\ Len(served) \in Nat /\ DOMAIN served = 1..Len(served)
      /\ \A k \in DOMAIN served : at[k] \in I /\ served[k] = n[at[k]]
      /\ \A j, k \in DOMAIN served : j < k <=> at[j] < at[k]
  <2> HIDE DEF I
  <2>1. /\ served \in Seq(LineResponse) /\ DOMAIN served = 1..Len(served)
        /\ \A k \in DOMAIN served : at[k] \in I /\ served[k] = n[at[k]]
        /\ \A j, k \in DOMAIN served : j < k <=> at[j] < at[k]
    BY <1>1, <1>2, EntriesProperties
  <2> QED BY <2>1, LenProperties
<1>4. /\ DOMAIN rows = DOMAIN served
      /\ \A i \in DOMAIN served : rows[i].id = served[i].id /\ rows[i].name = served[i].name
      /\ rows \in Seq({rows[i] : i \in DOMAIN rows})
  <2>1. /\ DOMAIN rows = DOMAIN served
        /\ \A i \in DOMAIN served : rows[i].id = served[i].id /\ rows[i].name = served[i].name
    BY DEF LiveStatus
  <2>2. rows = [i \in DOMAIN rows |-> rows[i]]
    BY DEF LiveStatus
  <2> HIDE DEF rows, served, at, I
  <2>3. rows \in [1..Len(served) -> {rows[i] : i \in DOMAIN rows}]
    BY <2>1, <2>2, <1>3
  <2> QED BY <2>1, <2>3, <1>3, IsASeq
<1> HIDE DEF rows, served, at
<1>5. Len(rows) \in Nat /\ DOMAIN rows = 1..Len(rows)
  BY <1>4, LenProperties
<1>6. ASSUME NEW i \in DOMAIN rows PROVE rows[i].name \in Nat
  <2>1. served[i] \in LineResponse
    BY <1>3, <1>4, ElementOfSeq
  <2> QED BY <1>4, <2>1 DEF LineResponse
<1>7. ASSUME NEW i \in DOMAIN rows, NEW j \in DOMAIN rows, rows[i].id = rows[j].id
      PROVE  i = j
  <2>1. at[i] = at[j]
    BY <1>1, <1>2, <1>3, <1>4, <1>7
  <2>2. at[i] \in Int
    BY <1>1, <1>2, <1>3, <1>4, LenProperties
  <2>3. ~(i < j) /\ ~(j < i)
    BY <1>3, <1>4, <2>1, <2>2
  <2> QED BY <1>5, <2>3
<1> QED BY <1>5, <1>6, <1>7 DEF Sortable, DistinctIds, rows

LEMMA ModeRankType == \A mode : ModeRank(mode) \in 1..5
<1> SUFFICES ASSUME NEW mode PROVE ModeRank(mode) \in 1..5
  OBVIOUS
<1>1. DOMAIN MODE_PRECEDENCE = 1..4 /\ Len(MODE_PRECEDENCE) = 4
  BY DEF MODE_PRECEDENCE
<1>2. CASE Contains(MODE_PRECEDENCE, mode)
  <2>1. \E i \in DOMAIN MODE_PRECEDENCE : MODE_PRECEDENCE[i] = mode
    BY <1>1, <1>2 DEF Contains
  <2> QED BY <1>1, <1>2, <2>1 DEF ModeRank
<1>3. CASE ~Contains(MODE_PRECEDENCE, mode)
  BY <1>1, <1>3 DEF ModeRank
<1> QED BY <1>2, <1>3

\* The sort is a permutation of the rows.
LEMMA SummariesOf ==
  ASSUME NEW rows, Sortable(rows)
  PROVE  LET at == InOrder(DOMAIN rows, SortOrder(rows))
             s == LineStatusesToSummaries(rows)
         IN /\ DOMAIN at = DOMAIN rows /\ DOMAIN s = DOMAIN rows /\ DOMAIN rows = 1..Len(rows)
            /\ Len(s) = Len(rows) /\ Len(rows) \in Nat
            /\ s \in Seq({ToSummary(rows[i]) : i \in DOMAIN rows})
            /\ \A k \in DOMAIN s : at[k] \in DOMAIN rows /\ s[k] = ToSummary(rows[at[k]])
            /\ \A i \in DOMAIN rows : \E k \in DOMAIN s : at[k] = i
            /\ \A j, k \in DOMAIN s : at[j] = at[k] => j = k
<1> DEFINE D == DOMAIN rows
           R == SortOrder(rows)
           at == InOrder(D, R)
           s == LineStatusesToSummaries(rows)
           rank(i) == ModeRank(rows[i].mode)
           name(i) == rows[i].name
<1>1. /\ Len(rows) \in Nat /\ D = 1..Len(rows)
      /\ \A i \in D : rank(i) \in Nat /\ name(i) \in Nat /\ i \in Nat
  BY ModeRankType DEF Sortable
<1>2. \A i, j \in D : <<i, j>> \in R <=>
        \/ rank(i) < rank(j)
        \/ rank(i) = rank(j) /\ name(i) < name(j)
        \/ rank(i) = rank(j) /\ name(i) = name(j) /\ i < j
  <2> SUFFICES ASSUME NEW i \in D, NEW j \in D
               PROVE  <<i, j>> \in R <=>
                        \/ rank(i) < rank(j)
                        \/ rank(i) = rank(j) /\ name(i) < name(j)
                        \/ rank(i) = rank(j) /\ name(i) = name(j) /\ i < j
    OBVIOUS
  <2>1. <<i, j>> \in R <=> \/ RowBefore(rows[i], rows[j])
                           \/ ~RowBefore(rows[j], rows[i]) /\ i < j
    BY DEF SortOrder
  <2>2. /\ RowBefore(rows[i], rows[j])
              <=> rank(i) < rank(j) \/ (rank(i) = rank(j) /\ name(i) < name(j))
        /\ RowBefore(rows[j], rows[i])
              <=> rank(j) < rank(i) \/ (rank(j) = rank(i) /\ name(j) < name(i))
    BY DEF RowBefore
  <2> HIDE DEF rank, name, R, D
  <2> QED BY <1>1, <2>1, <2>2
<1> HIDE DEF rank, name, R, D
<1>3. StrictlyOrders(R, D)
  <2>1. \A x \in D : <<x, x>> \notin R
    BY <1>1, <1>2
  <2>2. \A x, y, z \in D : <<x, y>> \in R /\ <<y, z>> \in R => <<x, z>> \in R
    BY <1>1, <1>2
  <2>3. ASSUME NEW x \in D, NEW y \in D PROVE x = y \/ <<x, y>> \in R \/ <<y, x>> \in R
    <3>1. rank(x) < rank(y) \/ rank(x) = rank(y) \/ rank(y) < rank(x)
      BY <1>1
    <3>2. name(x) < name(y) \/ name(x) = name(y) \/ name(y) < name(x)
      BY <1>1
    <3>3. x < y \/ x = y \/ y < x
      BY <1>1
    <3> QED BY <1>2, <3>1, <3>2, <3>3
  <2> QED BY <2>1, <2>2, <2>3 DEF StrictlyOrders
<1>4. IsFiniteSet(D) /\ Cardinality(D) = Len(rows)
  <2>1. 1 \in Int /\ Len(rows) \in Int
    BY <1>1
  <2>2. IsFiniteSet(1..Len(rows)) /\ Cardinality(1..Len(rows)) = Len(rows)
    BY <1>1, <2>1, FS_Interval
  <2> QED BY <1>1, <2>2
<1>5. Lists(at, D, R)
  BY <1>3, <1>4, InOrderLists
<1> HIDE DEF at
<1>6. DOMAIN at = D /\ (\A k \in D : at[k] \in D) /\ (\A i \in D : \E k \in D : at[k] = i)
      /\ \A j, k \in D : at[j] = at[k] => j = k
  <2>1. DOMAIN at = D /\ (\A k \in D : at[k] \in D) /\ (\A i \in D : \E k \in D : at[k] = i)
        /\ \A j, k \in D : j < k <=> <<at[j], at[k]>> \in R
    BY <1>1, <1>4, <1>5 DEF Lists
  <2>2. ASSUME NEW j \in D, NEW k \in D, at[j] = at[k] PROVE j = k
    <3>1. ~(j < k) /\ ~(k < j)
      BY <1>3, <2>1, <2>2 DEF StrictlyOrders
    <3> QED BY <1>1, <3>1
  <2> QED BY <2>1, <2>2
<1>7. DOMAIN s = D /\ \A k \in D : s[k] = ToSummary(rows[at[k]])
  BY <1>6 DEF LineStatusesToSummaries, at, D, R
<1>8. s \in [1..Len(rows) -> {ToSummary(rows[i]) : i \in D}]
  <2>1. s = [k \in D |-> ToSummary(rows[at[k]])]
    BY <1>6 DEF LineStatusesToSummaries, at, D, R
  <2> HIDE DEF s
  <2> QED BY <1>1, <1>6, <2>1
<1> HIDE DEF s
<1>9. s \in Seq({ToSummary(rows[i]) : i \in D}) /\ Len(s) = Len(rows)
  <2>1. s \in Seq({ToSummary(rows[i]) : i \in D})
    BY <1>1, <1>8, IsASeq
  <2> QED BY <1>1, <1>8, <2>1, LenProperties
<1>10. /\ DOMAIN at = D /\ DOMAIN s = D /\ D = 1..Len(rows)
       /\ Len(s) = Len(rows) /\ Len(rows) \in Nat
       /\ s \in Seq({ToSummary(rows[i]) : i \in D})
       /\ \A k \in DOMAIN s : at[k] \in D /\ s[k] = ToSummary(rows[at[k]])
       /\ \A i \in D : \E k \in DOMAIN s : at[k] = i
       /\ \A j, k \in DOMAIN s : at[j] = at[k] => j = k
  BY <1>1, <1>6, <1>7, <1>9
<1> QED BY <1>10 DEF at, s, D, R

-----------------------------------------------------------------------------
(* The registry of lines *)

LEMMA RegistryInjective ==
  \A a, b \in DOMAIN LineMetaById : LineMetaById[a] = LineMetaById[b] => a = b
<1> SUFFICES ASSUME NEW a \in DOMAIN LineMetaById, NEW b \in DOMAIN LineMetaById,
                    LineMetaById[a] = LineMetaById[b]
             PROVE  a = b
  OBVIOUS
<1> QED BY SMTT(60) DEF LineMetaById

\* A code names one line, whether it is in the registry or not.
LEMMA CodesDiffer ==
  ASSUME NEW a, NEW b, Code(a) = Code(b)
  PROVE  a = b
<1> DEFINE M == LineMetaById
           u(x) == Code(x).unknown
           c(x) == Code(x).text
<1>1. u(a) = u(b) /\ c(a) = c(b)
  OBVIOUS
<1>2. \A x : IF x \in DOMAIN M THEN u(x) = FALSE /\ c(x) = M[x] ELSE u(x) = TRUE /\ c(x) = x
  BY DEF Code
<1> HIDE DEF u, c, M
<1>3. CASE a \in DOMAIN M /\ b \in DOMAIN M
  BY <1>1, <1>2, <1>3, RegistryInjective DEF M
<1>4. CASE a \notin DOMAIN M /\ b \notin DOMAIN M
  BY <1>1, <1>2, <1>4
<1> QED BY <1>1, <1>2, <1>3, <1>4

\* lineIdForCode undoes the coding of an id.
LEMMA LineIdOfCode ==
  ASSUME NEW id
  PROVE  LineIdForCode(Code(id)) = <<id>>
<1> DEFINE M == LineMetaById
<1>1. CASE id \in DOMAIN M
  <2>1. ~Code(id).unknown /\ Code(id).text = M[id]
    BY <1>1 DEF Code
  <2>2. Registered(Code(id)) = {x \in DOMAIN M : M[x] = M[id]}
    BY <2>1 DEF Registered
  <2>3. Registered(Code(id)) = {id}
    <3> HIDE DEF M
    <3>1. \A x \in DOMAIN M : M[x] = M[id] => x = id
      BY <1>1, RegistryInjective DEF M
    <3> QED BY <1>1, <2>2, <3>1
  <2> QED BY <2>1, <2>3 DEF LineIdForCode, LineIdRegistered
<1>2. CASE id \notin DOMAIN M
  BY <1>2 DEF Code, LineIdForCode
<1> QED BY <1>1, <1>2

-----------------------------------------------------------------------------
(* The rows of the disruptions *)

\* Once keeps what is there, and one of each.
LEMMA OnceProperties ==
  ASSUME NEW T, NEW seq \in Seq(T)
  PROVE  /\ Once(seq) \in Seq(T) /\ IsInjective(Once(seq))
         /\ \A i \in DOMAIN seq : \E k \in DOMAIN Once(seq) : Once(seq)[k] = seq[i]
<1> DEFINE I == {i \in DOMAIN seq : \A j \in DOMAIN seq : seq[j] = seq[i] => i <= j}
           at == Ascending(I)
           s == Entries(seq, I)
<1>1. Once(seq) = s
  BY DEF Once
<1>2. Len(seq) \in Nat /\ DOMAIN seq = 1..Len(seq)
  BY LenProperties
<1>3. I \in SUBSET DOMAIN seq
  OBVIOUS
<1>4. /\ s \in Seq(T) /\ DOMAIN s = 1..Len(s) /\ Len(s) \in Nat
      /\ \A k \in DOMAIN s : at[k] \in I /\ s[k] = seq[at[k]]
      /\ \A i \in I : \E k \in DOMAIN s : at[k] = i
      /\ \A j, k \in DOMAIN s : j < k <=> at[j] < at[k]
  <2> HIDE DEF I
  <2>1. /\ s \in Seq(T) /\ DOMAIN s = 1..Len(s)
        /\ \A k \in DOMAIN s : at[k] \in I /\ s[k] = seq[at[k]]
        /\ \A i \in I : \E k \in DOMAIN s : at[k] = i
        /\ \A j, k \in DOMAIN s : j < k <=> at[j] < at[k]
    BY <1>3, EntriesProperties
  <2> QED BY <2>1, LenProperties
<1>5. \A i \in I : i \in Nat /\ \A j \in DOMAIN seq : seq[j] = seq[i] => i <= j
  BY <1>2
<1>6. ASSUME NEW j \in DOMAIN s, NEW k \in DOMAIN s, s[j] = s[k] PROVE j = k
  <2> HIDE DEF s, at
  <2>1. at[j] \in I /\ at[k] \in I /\ seq[at[j]] = seq[at[k]]
    BY <1>4, <1>6
  <2>2. at[j] <= at[k] /\ at[k] <= at[j] /\ at[j] \in Nat /\ at[k] \in Nat
    <3> HIDE DEF I
    <3> QED BY <1>3, <1>5, <2>1
  <2>3. ~(j < k) /\ ~(k < j)
    BY <1>4, <2>2
  <2> QED BY <1>4, <2>3
<1>7. ASSUME NEW i \in DOMAIN seq PROVE \E k \in DOMAIN s : s[k] = seq[i]
  <2> DEFINE same == {j \in DOMAIN seq : seq[j] = seq[i]}
  <2>1. PICK f \in same : \A j \in same : f <= j
    <3>1. same \in SUBSET (1..Len(seq)) /\ same # {}
      BY <1>2
    <3> HIDE DEF same
    <3> QED BY <1>2, <3>1, FirstPosition
  <2>2. f \in I /\ seq[f] = seq[i]
    BY <2>1
  <2> HIDE DEF I, s, at
  <2>3. PICK k \in DOMAIN s : at[k] = f
    BY <1>4, <2>2
  <2> QED BY <1>4, <2>2, <2>3
<1> HIDE DEF s, I
<1> QED BY <1>1, <1>4, <1>6, <1>7 DEF IsInjective

\* The stops of a row are told once each.
LEMMA StopsOnce ==
  ASSUME NEW stops \in Seq(STRING)
  PROVE  ExtractIds(stops) \in Seq(STRING) /\ IsInjective(ExtractIds(stops))
<1> DEFINE I == {i \in DOMAIN stops : stops[i] # ""}
<1>1. I \in SUBSET DOMAIN stops
  OBVIOUS
<1> HIDE DEF I
<1>2. Entries(stops, I) \in Seq(STRING)
  BY <1>1, EntriesProperties
<1>3. Once(Entries(stops, I)) \in Seq(STRING) /\ IsInjective(Once(Entries(stops, I)))
  BY <1>2, OnceProperties
<1> QED BY <1>3 DEF ExtractIds, I

\* They are the stops that have an id.
LEMMA StopsKept ==
  ASSUME NEW stops \in Seq(STRING)
  PROVE  ToSet(ExtractIds(stops)) = ToSet(stops) \ {""}
<1> DEFINE I == {i \in DOMAIN stops : stops[i] # ""}
           A == ToSet(stops) \ {""}
           named == Entries(stops, I)
           once == Once(named)
<1>1. /\ Len(named) \in Nat /\ DOMAIN named = 1..Len(named)
      /\ \A k \in DOMAIN named : Ascending(I)[k] \in I /\ named[k] = stops[Ascending(I)[k]]
      /\ \A i \in I : \E k \in DOMAIN named : Ascending(I)[k] = i
      /\ named \in Seq(STRING)
  <2>1. I \in SUBSET DOMAIN stops
    OBVIOUS
  <2> HIDE DEF I
  <2> QED BY <2>1, EntriesProperties, LenProperties
<1>2. \A i \in I : stops[i] \in A
  BY DEF ToSet
<1>3. \A a \in A : \E i \in I : stops[i] = a
  BY DEF ToSet
<1> HIDE DEF I, A, named
<1>4. named \in Seq(A)
  <2>1. \A k \in DOMAIN named : named[k] \in A
    BY <1>1, <1>2
  <2>2. named \in [1..Len(named) -> A]
    BY <1>1, <2>1, LenProperties
  <2> QED BY <1>1, <2>2, IsASeq
<1>5. /\ once \in Seq(A)
      /\ \A i \in DOMAIN named : \E k \in DOMAIN once : once[k] = named[i]
  BY <1>4, OnceProperties
<1> HIDE DEF once
<1>6. \A k \in DOMAIN once : once[k] \in A
  BY <1>5, LenProperties, ElementOfSeq
<1>7. \A a \in A : \E k \in DOMAIN once : once[k] = a
  BY <1>1, <1>3, <1>5
<1>8. ToSet(once) = A
  BY <1>6, <1>7 DEF ToSet
<1> QED BY <1>8 DEF ExtractIds, I, A, named, once

LEMMA DisruptedFinite ==
  ASSUME NEW lines \in Seq(LineResponse)
  PROVE  /\ IsFiniteSet(Disrupted(lines))
         /\ \A p \in Disrupted(lines) :
              /\ p = <<p[1], p[2]>> /\ p[1] \in Nat /\ p[2] \in Nat
              /\ p[1] \in DOMAIN lines /\ p[2] \in DOMAIN lines[p[1]].statuses
              /\ lines[p[1]].statuses[p[2]].disruption # <<>>
<1> DEFINE J(i) == {j \in DOMAIN lines[i].statuses : lines[i].statuses[j].disruption # <<>>}
           part == [i \in DOMAIN lines |-> {i} \X J(i)]
           parts == {part[i] : i \in DOMAIN lines}
<1>1. Disrupted(lines) = UNION parts
  BY DEF Disrupted
<1>2. Len(lines) \in Nat /\ DOMAIN lines = 1..Len(lines)
  BY LenProperties
<1>3. ASSUME NEW i \in DOMAIN lines
      PROVE  /\ IsFiniteSet(J(i)) /\ DOMAIN lines[i].statuses \in SUBSET Nat
  <2>0. lines[i] \in LineResponse
    BY <1>2, ElementOfSeq
  <2>1. lines[i].statuses \in Seq(LineStatusItem)
    BY <2>0 DEF LineResponse
  <2>2. DOMAIN lines[i].statuses = 1..Len(lines[i].statuses) /\ Len(lines[i].statuses) \in Nat
    BY <2>1, LenProperties
  <2>3. 1 \in Int /\ Len(lines[i].statuses) \in Int
    BY <2>2
  <2>4. IsFiniteSet(DOMAIN lines[i].statuses)
    BY <2>2, <2>3, FS_Interval
  <2>5. J(i) \in SUBSET DOMAIN lines[i].statuses
    OBVIOUS
  <2> HIDE DEF J
  <2>6. IsFiniteSet(J(i))
    BY <2>4, <2>5, FS_Subset
  <2> QED BY <2>2, <2>6
<1>4. \A S \in parts : IsFiniteSet(S)
  <2> SUFFICES ASSUME NEW i \in DOMAIN lines PROVE IsFiniteSet({i} \X J(i))
    OBVIOUS
  <2> HIDE DEF J
  <2>1. IsFiniteSet({i})
    BY FS_Singleton
  <2> QED BY <1>3, <2>1, FS_Product
<1>5. IsFiniteSet(parts)
  <2>1. part \in Surjection(DOMAIN lines, parts)
    <3> HIDE DEF J
    <3> QED BY DEF Surjection
  <2>2. 1 \in Int /\ Len(lines) \in Int
    BY <1>2
  <2>3. IsFiniteSet(DOMAIN lines)
    BY <1>2, <2>2, FS_Interval
  <2> HIDE DEF part, parts
  <2> QED BY <2>1, <2>3, FS_Surjection
<1>6. IsFiniteSet(Disrupted(lines))
  <2> HIDE DEF parts
  <2> QED BY <1>1, <1>4, <1>5, FS_UNION
<1>7. ASSUME NEW p \in Disrupted(lines)
      PROVE  /\ p = <<p[1], p[2]>> /\ p[1] \in Nat /\ p[2] \in Nat
             /\ p[1] \in DOMAIN lines /\ p[2] \in DOMAIN lines[p[1]].statuses
             /\ lines[p[1]].statuses[p[2]].disruption # <<>>
  <2>1. PICK i \in DOMAIN lines : p \in {i} \X J(i)
    BY <1>1
  <2>2. p = <<p[1], p[2]>> /\ p[1] = i /\ p[2] \in J(i)
    <3> HIDE DEF J
    <3> QED BY <2>1
  <2>3. p[2] \in DOMAIN lines[i].statuses /\ lines[i].statuses[p[2]].disruption # <<>>
    BY <2>2
  <2>4. p[1] \in Nat
    BY <1>2, <2>2
  <2>5. p[2] \in Nat
    BY <1>3, <2>2, <2>3
  <2> HIDE DEF J
  <2> QED BY <2>2, <2>3, <2>4, <2>5
<1> QED BY <1>6, <1>7

\* Each row of the API is the payload of one disruption of one line.
IsReport(report) ==
  report.line \in LineResponse /\ report.disruption \in LineStatusDisruption

LEMMA RecentDisruptionsRows ==
  ASSUME NEW n \in Networks
  PROVE  LET rows == RecentDisruptions(n, Limit) IN
         /\ rows \in Seq({rows[k] : k \in DOMAIN rows})
         /\ Len(rows) \in Nat /\ DOMAIN rows = 1..Len(rows)
         /\ \A k \in DOMAIN rows :
              /\ IsReport(Reports(n)[k])
              /\ rows[k] = Payload(Reports(n)[k].line, Reports(n)[k].disruption)
<1> DEFINE D == Disrupted(n)
           walk == InOrder(D, WalkOrder)
           reports == Reports(n)
           all == Payloads(n)
           rows == RecentDisruptions(n, Limit)
<1>1. n \in Seq(LineResponse) /\ Limit \in 1..200
  BY DashboardAssumption
<1>2. /\ IsFiniteSet(D)
      /\ \A p \in D : /\ p = <<p[1], p[2]>> /\ p[1] \in Nat /\ p[2] \in Nat
                      /\ p[1] \in DOMAIN n /\ p[2] \in DOMAIN n[p[1]].statuses
                      /\ n[p[1]].statuses[p[2]].disruption # <<>>
  BY <1>1, DisruptedFinite
<1>3. StrictlyOrders(WalkOrder, D)
  <2> DEFINE Earlier(p, q) == p[1] < q[1] \/ (p[1] = q[1] /\ p[2] < q[2])
  <2>1. \A p, q \in D : <<p, q>> \in WalkOrder <=> Earlier(p, q)
    <3> SUFFICES ASSUME NEW p \in D, NEW q \in D
                 PROVE  <<p, q>> \in WalkOrder <=> Earlier(p, q)
      OBVIOUS
    <3> HIDE DEF D
    <3>1. p \in Nat \X Nat /\ q \in Nat \X Nat
      BY <1>2
    <3> QED BY <3>1 DEF WalkOrder
  <2> HIDE DEF D
  <2>2. ASSUME NEW p \in D PROVE <<p, p>> \notin WalkOrder
    BY <1>2, <2>1
  <2>3. ASSUME NEW p \in D, NEW q \in D, NEW r \in D,
               <<p, q>> \in WalkOrder, <<q, r>> \in WalkOrder
        PROVE  <<p, r>> \in WalkOrder
    BY <1>2, <2>1, <2>3
  <2>4. ASSUME NEW p \in D, NEW q \in D
        PROVE  p = q \/ <<p, q>> \in WalkOrder \/ <<q, p>> \in WalkOrder
    <3>1. p[1] \in Nat /\ p[2] \in Nat /\ q[1] \in Nat /\ q[2] \in Nat
      BY <1>2
    <3>2. p[1] < q[1] \/ p[1] = q[1] \/ q[1] < p[1]
      BY <3>1
    <3>3. p[2] < q[2] \/ p[2] = q[2] \/ q[2] < p[2]
      BY <3>1
    <3>4. p[1] = q[1] /\ p[2] = q[2] => p = q
      <4>1. p = <<p[1], p[2]>> /\ q = <<q[1], q[2]>>
        BY <1>2
      <4> QED BY <4>1
    <3> QED BY <2>1, <3>2, <3>3, <3>4
  <2> QED BY <2>2, <2>3, <2>4 DEF StrictlyOrders
<1>4. /\ Cardinality(D) \in Nat /\ DOMAIN walk = 1..Cardinality(D)
      /\ \A k \in DOMAIN walk : walk[k] \in D
  <2> HIDE DEF D
  <2>1. Lists(InOrder(D, WalkOrder), D, WalkOrder)
    BY <1>2, <1>3, InOrderLists
  <2> QED BY <2>1 DEF Lists
<1>5. ASSUME NEW k \in DOMAIN walk
      PROVE  IsReport(reports[k]) /\ all[k] = Payload(reports[k].line, reports[k].disruption)
  <2> DEFINE line == n[walk[k][1]]
             status == line.statuses[walk[k][2]]
             d == status.disruption[1]
  <2>1. reports[k] = [line |-> line, disruption |-> d] /\ DOMAIN reports = DOMAIN walk
    BY DEF Reports
  <2> HIDE DEF walk, D
  <2>2. walk[k][1] \in DOMAIN n /\ walk[k][2] \in DOMAIN line.statuses /\ status.disruption # <<>>
    BY <1>2, <1>4
  <2>3. line \in LineResponse
    BY <1>1, <2>2, ElementOfSeq, LenProperties
  <2>4. line.statuses \in Seq(LineStatusItem)
    BY <2>3 DEF LineResponse
  <2>5. status \in LineStatusItem
    <3> HIDE DEF line
    <3> QED BY <2>2, <2>4, ElementOfSeq, LenProperties
  <2>6. status.disruption \in Seq(LineStatusDisruption)
    <3> HIDE DEF status
    <3> QED BY <2>5 DEF LineStatusItem
  <2>7. d \in LineStatusDisruption
    <3> HIDE DEF status
    <3>1. Len(status.disruption) \in Nat /\ Len(status.disruption) # 0
      BY <2>2, <2>6, LenProperties, EmptySeq
    <3> QED BY <2>6, <3>1, ElementOfSeq
  <2> HIDE DEF d, line, reports
  <2>8. IsReport(reports[k])
    BY <2>1, <2>3, <2>7 DEF IsReport
  <2>9. all[k] = Payload(reports[k].line, reports[k].disruption)
    BY <2>1 DEF Payloads, reports
  <2> QED BY <2>8, <2>9
<1>6. all \in Seq({all[k] : k \in DOMAIN walk}) /\ Len(all) = Cardinality(D)
  <2>1. all = [k \in DOMAIN walk |-> all[k]]
    BY DEF Payloads, Reports
  <2> HIDE DEF all, walk, D
  <2>2. all \in [1..Cardinality(D) -> {all[k] : k \in DOMAIN walk}]
    BY <1>4, <2>1
  <2>3. all \in Seq({all[k] : k \in DOMAIN walk})
    BY <1>4, <2>2, IsASeq
  <2> QED BY <1>4, <2>2, <2>3, LenProperties
<1>7. rows = SubSeq(all, 1, Smaller(Limit, Len(all)))
  BY DEF RecentDisruptions, Cut
<1> HIDE DEF all, walk, D, rows, reports
<1>8. /\ rows \in Seq({rows[k] : k \in DOMAIN rows})
      /\ Len(rows) \in Nat /\ DOMAIN rows = 1..Len(rows)
      /\ \A k \in DOMAIN rows : k \in DOMAIN walk /\ rows[k] = all[k]
  <2> DEFINE m == Smaller(Limit, Len(all))
  <2>1. m \in 1..Len(all) \/ m < 1
    BY <1>1, <1>4, <1>6 DEF Smaller
  <2>2. m \in Int
    BY <1>1, <1>4, <1>6 DEF Smaller
  <2>3. /\ rows \in Seq({all[k] : k \in DOMAIN walk})
        /\ Len(rows) = (IF 1 <= m THEN m ELSE 0)
        /\ \A k \in 1..m : rows[k] = all[k]
    <3> HIDE DEF m
    <3>0. rows = SubSeq(all, 1, m)
      BY <1>7 DEF m
    <3>1. /\ SubSeq(all, 1, m) \in Seq({all[k] : k \in DOMAIN walk})
          /\ Len(SubSeq(all, 1, m)) = (IF 1 <= m THEN m - 1 + 1 ELSE 0)
          /\ \A k \in 1..m - 1 + 1 : SubSeq(all, 1, m)[k] = all[1 + k - 1]
      BY <1>4, <1>6, <2>1, <2>2, SubSeqProperties
    <3>2. m - 1 + 1 = m /\ \A k \in 1..m : 1 + k - 1 = k
      BY <2>2
    <3> QED BY <3>0, <3>1, <3>2
  <2>4. 1 <= m => m <= Len(all)
    BY <1>1, <1>4, <1>6 DEF Smaller
  <2> HIDE DEF m
  <2>5. Len(rows) \in Nat /\ DOMAIN rows = 1..Len(rows)
    BY <2>3, LenProperties
  <2>6. \A k \in DOMAIN rows : k \in 1..m
    BY <2>2, <2>3, <2>5
  <2>7. \A k \in 1..m : k \in DOMAIN walk
    BY <1>4, <1>6, <2>2, <2>4
  <2>8. rows \in Seq({rows[k] : k \in DOMAIN rows})
    BY <2>3, SeqOfItsEntries
  <2> QED BY <2>3, <2>5, <2>6, <2>7, <2>8
<1>9. ASSUME NEW k \in DOMAIN rows
      PROVE  IsReport(reports[k]) /\ rows[k] = Payload(reports[k].line, reports[k].disruption)
  BY <1>5, <1>8
<1> QED BY <1>8, <1>9 DEF reports, rows

-----------------------------------------------------------------------------
(* The fixtures *)

Fixtures == 1..19

LEMMA MockCodesDiffer ==
  /\ DOMAIN MockCodes = Fixtures /\ Len(MockCodes) = 19
  /\ \A i \in Fixtures : MockCodes[i] \in {MockCodes[k] : k \in Fixtures}
  /\ \A i, j \in Fixtures : MockCodes[i] = MockCodes[j] => i = j
<1>1. DOMAIN MockCodes = Fixtures /\ Len(MockCodes) = 19
  BY DEF MockCodes, Fixtures
<1>2. ASSUME NEW i \in Fixtures, NEW j \in Fixtures, MockCodes[i] = MockCodes[j] PROVE i = j
  BY <1>2, SMTT(60) DEF MockCodes, Fixtures
<1> QED BY <1>1, <1>2

\* The two tables of codes and ids are inverse to each other.
LEMMA FixtureIds ==
  \A i \in Fixtures : /\ CODE_TO_LINE_ID[MockCodes[i]] \in DOMAIN LineMetaById
                      /\ LineMetaById[CODE_TO_LINE_ID[MockCodes[i]]] = MockCodes[i]
<1> SUFFICES ASSUME NEW i \in Fixtures
             PROVE  /\ CODE_TO_LINE_ID[MockCodes[i]] \in DOMAIN LineMetaById
                    /\ LineMetaById[CODE_TO_LINE_ID[MockCodes[i]]] = MockCodes[i]
  OBVIOUS
<1> QED BY SMTT(60) DEF MockCodes, Fixtures, CODE_TO_LINE_ID, LineMetaById

\* A fixture as the API would report it.
LEMMA MockRows ==
  /\ DOMAIN MOCK_LINES = Fixtures /\ Len(MOCK_LINES) = 19
  /\ DOMAIN MockStatus = Fixtures /\ Len(MockStatus) = 19
  /\ \A i \in Fixtures :
       /\ MOCK_LINES[i].code = MockCodes[i] /\ MOCK_LINES[i].name = i
       /\ MockStatus[i].id = CODE_TO_LINE_ID[MockCodes[i]] /\ MockStatus[i].name = i
       /\ MockStatus[i].severity = BUCKET_TO_SEVERITY[MOCK_LINES[i].status]
       /\ MockStatus[i].reason = MOCK_LINES[i].reason
       /\ MOCK_LINES[i].status \in StatusBucket
       /\ MOCK_LINES[i].status = "severe" <=> MockCodes[i] = "ELZ"
<1>1. DOMAIN MOCK_LINES = Fixtures /\ DOMAIN MockStatus = Fixtures
  BY MockCodesDiffer DEF MOCK_LINES, MockStatus
<1>2. ASSUME NEW i \in Fixtures
      PROVE  /\ MOCK_LINES[i].code = MockCodes[i] /\ MOCK_LINES[i].name = i
             /\ MOCK_LINES[i].status \in StatusBucket
             /\ MOCK_LINES[i].status = "severe" <=> MockCodes[i] = "ELZ"
  BY MockCodesDiffer DEF MOCK_LINES, StatusBucket
<1>3. ASSUME NEW i \in Fixtures
      PROVE  /\ MockStatus[i].id = CODE_TO_LINE_ID[MockCodes[i]] /\ MockStatus[i].name = i
             /\ MockStatus[i].severity = BUCKET_TO_SEVERITY[MOCK_LINES[i].status]
             /\ MockStatus[i].reason = MOCK_LINES[i].reason
  BY <1>1, <1>2 DEF MockStatus, LineSummaryToLineStatus
<1>4. 19 \in Nat /\ Fixtures = 1..19
  BY DEF Fixtures
<1>5. Len(MOCK_LINES) = 19
  <2>1. MOCK_LINES = [i \in 1..19 |-> MOCK_LINES[i]]
    BY <1>1, <1>4 DEF MOCK_LINES
  <2>2. MOCK_LINES \in [1..19 -> {MOCK_LINES[i] : i \in 1..19}]
    BY <2>1
  <2> QED BY <2>2, <1>4, IsASeq, LenProperties
<1>6. Len(MockStatus) = 19
  <2>1. MockStatus = [i \in 1..19 |-> MockStatus[i]]
    BY <1>1, <1>4 DEF MockStatus
  <2>2. MockStatus \in [1..19 -> {MockStatus[i] : i \in 1..19}]
    BY <2>1
  <2> QED BY <2>2, <1>4, IsASeq, LenProperties
<1> QED BY <1>1, <1>2, <1>3, <1>5, <1>6

LEMMA MockStatusRows == Sortable(MockStatus) /\ DistinctIds(MockStatus)
<1>1. Fixtures = 1..19
  BY DEF Fixtures
<1>2. ASSUME NEW i \in Fixtures, NEW j \in Fixtures, MockStatus[i].id = MockStatus[j].id
      PROVE  i = j
  <2>1. CODE_TO_LINE_ID[MockCodes[i]] = CODE_TO_LINE_ID[MockCodes[j]]
    BY <1>2, MockRows
  <2>2. MockCodes[i] = MockCodes[j]
    BY <2>1, FixtureIds
  <2> QED BY <2>2, MockCodesDiffer
<1> QED BY <1>1, <1>2, MockRows DEF Sortable, DistinctIds

\* A bucket survives the way to a severity and back.
LEMMA BucketSurvives ==
  \A status \in StatusBucket : SeverityToBucket(BUCKET_TO_SEVERITY[status]) = status
BY DEF StatusBucket, BUCKET_TO_SEVERITY, SeverityToBucket

-----------------------------------------------------------------------------
(* What the page holds: answers of the routes, and a selection among them *)

StatusAnswers == IF USE_MOCKS THEN {MockStatus} ELSE {StatusAnswer[n] : n \in Networks}
DisruptionAnswers ==
  IF USE_MOCKS THEN {MockDisruptions} ELSE {DisruptionsAnswer[n] : n \in Networks}

\* Each feed holds nothing yet, or an answer to one of its polls.
FeedsInv ==
  /\ USE_MOCKS \in BOOLEAN
  /\ network \in Networks
  /\ statusData # Null => statusData \in StatusAnswers
  /\ disruptionData # Null => disruptionData \in DisruptionAnswers

\* With no effect to come, a selected line is on the page.
SelectedIsThere == ~effect /\ LineSummaries # <<>> => selectedCode \in Codes(LineSummaries)

\* The lines on the page are those of the status feed.
LEMMA LinesOfFeed ==
  ASSUME FeedsInv, statusData # Null
  PROVE  /\ LineSummaries = LineStatusesToSummaries(statusData)
         /\ Sortable(statusData) /\ DistinctIds(statusData)
<1>1. /\ statusData \in {StatusAnswer[n] : n \in Networks} \cup {MockStatus}
      /\ Sortable(statusData) /\ DistinctIds(statusData)
  <2>1. CASE USE_MOCKS
    BY <2>1, MockStatusRows DEF FeedsInv, StatusAnswers
  <2>2. CASE ~USE_MOCKS
    <3>1. PICK n \in Networks : statusData = StatusAnswer[n]
      BY <2>2 DEF FeedsInv, StatusAnswers
    <3>2. statusData = LiveStatus(n)
      BY <3>1 DEF StatusAnswer
    <3> QED BY <3>1, <3>2, LiveStatusRows
  <2> QED BY <2>1, <2>2
<1>2. LineSummaries = Summaries[statusData]
  BY DEF LineSummaries
<1>3. Summaries[statusData] = LineStatusesToSummaries(statusData)
  BY <1>1 DEF Summaries
<1> QED BY <1>1, <1>2, <1>3

LEMMA PreferredIsThere ==
  ASSUME FeedsInv, LineSummaries # <<>>
  PROVE  Preferred(LineSummaries) \in Codes(LineSummaries)
<1> DEFINE s == LineSummaries
           T == {ToSummary(statusData[i]) : i \in DOMAIN statusData}
           I == {i \in DOMAIN s : s[i].status = "severe"}
           e == Entries(s, I)
<1>1. statusData # Null
  BY DEF LineSummaries
<1>2. s \in Seq(T)
  BY <1>1, LinesOfFeed, SummariesOf
<1>3. Len(s) \in Nat /\ DOMAIN s = 1..Len(s) /\ Len(s) # 0
  BY <1>2, LenProperties, EmptySeq
<1>4. s[1].code \in Codes(s)
  BY <1>3 DEF Codes
<1>5. e # <<>> => e[1].code \in Codes(s)
  <2> HIDE DEF T, s, e
  <2>1. I \in SUBSET DOMAIN s
    OBVIOUS
  <2>2. /\ e \in Seq(T) /\ DOMAIN e = 1..Len(e)
        /\ \A k \in DOMAIN e : Ascending(I)[k] \in I /\ e[k] = s[Ascending(I)[k]]
    <3> HIDE DEF I
    <3> QED BY <1>2, <2>1, EntriesProperties DEF e
  <2>3. e # <<>> => 1 \in DOMAIN e
    BY <2>2, LenProperties, EmptySeq
  <2>4. \A k \in DOMAIN e : e[k].code \in Codes(s)
    <3> HIDE DEF I
    <3> QED BY <2>1, <2>2 DEF Codes
  <2> QED BY <2>3, <2>4
<1>6. Preferred(s) = IF e # <<>> THEN e[1].code ELSE s[1].code
  BY DEF Preferred
<1> HIDE DEF e, s, I
<1>7. Preferred(s) \in Codes(s)
  BY <1>4, <1>5, <1>6
<1> QED BY <1>7 DEF s

\* Running the effect leaves a line of the page selected.
LEMMA AfterEffectIsThere ==
  ASSUME FeedsInv, LineSummaries # <<>>
  PROVE  AfterEffect(LineSummaries) \in Codes(LineSummaries)
BY PreferredIsThere DEF AfterEffect, Keeps

LEMMA FeedsStep == FeedsInv /\ [Next]_vars => FeedsInv'
<1> SUFFICES ASSUME FeedsInv, [Next]_vars PROVE FeedsInv'
  OBVIOUS
<1> USE DEF FeedsInv, StatusAnswers, DisruptionAnswers
<1>1. CASE UNCHANGED <<USE_MOCKS, network, feeds>>
  BY <1>1 DEF feeds, StatusAnswer, DisruptionsAnswer
<1>2. CASE StatusArrives
  <2>1. statusData' \in IF USE_MOCKS THEN {MockStatus} ELSE {StatusAnswer[n] : n \in Networks}
    BY <1>2 DEF StatusArrives
  <2> QED BY <1>2, <2>1 DEF StatusArrives, StatusAnswer, DisruptionsAnswer
<1>3. CASE DisruptionsArrive
  <2>1. disruptionData' \in
          IF USE_MOCKS THEN {MockDisruptions} ELSE {DisruptionsAnswer[n] : n \in Networks}
    BY <1>3 DEF DisruptionsArrive
  <2> QED BY <1>3, <2>1 DEF DisruptionsArrive, StatusAnswer, DisruptionsAnswer
<1>4. CASE TflChanges
  BY <1>4 DEF TflChanges, feeds, StatusAnswer, DisruptionsAnswer
<1>5. CASE RunEffect \/ CloseDetail \/ Resize \/ \E code \in Rows : Click(code)
  BY <1>1, <1>5 DEF RunEffect, CloseDetail, Resize, Click
<1>6. CASE UNCHANGED vars
  BY <1>1, <1>6 DEF vars
<1> QED BY <1>2, <1>3, <1>4, <1>5, <1>6 DEF Next

LEMMA SelectedStep == FeedsInv /\ SelectedIsThere /\ [Next]_vars => SelectedIsThere'
<1> SUFFICES ASSUME FeedsInv, SelectedIsThere, [Next]_vars PROVE SelectedIsThere'
  OBVIOUS
<1>0. ASSUME UNCHANGED statusData
      PROVE  LineSummaries' = LineSummaries /\ Codes(LineSummaries)' = Codes(LineSummaries)
  <2>1. LineSummaries' = LineSummaries
    BY <1>0 DEF LineSummaries, Summaries, StatusAnswer
  <2> QED BY <2>1 DEF Codes
<1>1. ASSUME UNCHANGED statusData, Flush PROVE SelectedIsThere'
  <2>1. LineSummaries # <<>> =>
          (IF effect THEN AfterEffect(LineSummaries) ELSE selectedCode) \in Codes(LineSummaries)
    BY AfterEffectIsThere DEF SelectedIsThere
  <2> QED BY <1>0, <1>1, <2>1 DEF Flush, SelectedIsThere
<1>2. CASE StatusArrives
  BY <1>2 DEF StatusArrives, SelectedIsThere
<1>3. CASE RunEffect \/ DisruptionsArrive \/ CloseDetail \/ Resize
  BY <1>1, <1>3 DEF RunEffect, DisruptionsArrive, CloseDetail, Resize, feeds
<1>4. ASSUME NEW code \in Rows, Click(code) PROVE SelectedIsThere'
  <2>1. UNCHANGED statusData
    BY <1>4 DEF Click, feeds
  <2>2. CASE selectedCode' = code
    BY <1>0, <2>1, <2>2 DEF Rows, SelectedIsThere
  <2>3. CASE effect /\ selectedCode' = AfterEffect(LineSummaries)
    BY <1>0, <2>1, <2>3, AfterEffectIsThere DEF SelectedIsThere
  <2> QED BY <1>4, <2>2, <2>3 DEF Click
<1>5. CASE TflChanges \/ UNCHANGED vars
  <2>1. UNCHANGED <<statusData, effect, selectedCode>>
    BY <1>5 DEF TflChanges, vars, feeds
  <2> QED BY <1>0, <2>1 DEF SelectedIsThere
<1> QED BY <1>2, <1>3, <1>4, <1>5 DEF Next

LEMMA PageInvariant == Spec => [](FeedsInv /\ SelectedIsThere)
<1>1. Init => FeedsInv /\ SelectedIsThere
  BY DEF Init, FeedsInv, SelectedIsThere, LineSummaries
<1> QED BY <1>1, FeedsStep, SelectedStep, PTL DEF Spec

-----------------------------------------------------------------------------
(* The selection *)

\* No two lines of the page have a code in common.
LEMMA OneLinePerCode ==
  ASSUME FeedsInv
  PROVE  \A i, j \in DOMAIN LineSummaries : LineSummaries[i].code = LineSummaries[j].code => i = j
<1> DEFINE s == LineSummaries
           rows == statusData
           at == InOrder(DOMAIN rows, SortOrder(rows))
<1>1. CASE statusData = Null
  BY <1>1 DEF LineSummaries
<1>2. CASE statusData # Null
  <2>1. s = LineStatusesToSummaries(rows) /\ Sortable(rows) /\ DistinctIds(rows)
    BY <1>2, LinesOfFeed
  <2>2. /\ \A k \in DOMAIN s : at[k] \in DOMAIN rows /\ s[k] = ToSummary(rows[at[k]])
        /\ \A j, k \in DOMAIN s : at[j] = at[k] => j = k
    BY <2>1, SummariesOf
  <2> HIDE DEF s, at
  <2>3. ASSUME NEW i \in DOMAIN s, NEW j \in DOMAIN s, s[i].code = s[j].code PROVE i = j
    <3>1. Code(rows[at[i]].id) = Code(rows[at[j]].id)
      BY <2>2, <2>3 DEF ToSummary
    <3>2. at[i] = at[j]
      BY <2>1, <2>2, <3>1, CodesDiffer DEF DistinctIds
    <3> QED BY <2>2, <3>2
  <2> QED BY <2>3 DEF s
<1> QED BY <1>1, <1>2

LEMMA LineSummariesType ==
  ASSUME FeedsInv
  PROVE  /\ LineSummaries \in Seq({LineSummaries[i] : i \in DOMAIN LineSummaries})
         /\ Len(LineSummaries) \in Nat /\ DOMAIN LineSummaries = 1..Len(LineSummaries)
<1> DEFINE s == LineSummaries
<1>1. PICK T : s \in Seq(T)
  <2>1. CASE statusData = Null
    BY <2>1 DEF LineSummaries
  <2>2. CASE statusData # Null
    <3>1. s = LineStatusesToSummaries(statusData) /\ Sortable(statusData)
      BY <2>2, LinesOfFeed
    <3>2. LineStatusesToSummaries(statusData)
            \in Seq({ToSummary(statusData[i]) : i \in DOMAIN statusData})
      BY <3>1, SummariesOf
    <3> QED BY <3>1, <3>2
  <2> QED BY <2>1, <2>2
<1> QED BY <1>1, SeqOfItsEntries

\* Whatever comes and goes in the feed, once the selection effect of page.tsx
\* has run, exactly one line of the page is selected.
THEOREM OneLineSelectedHolds == Spec => []OneLineSelected
<1>1. FeedsInv /\ SelectedIsThere => OneLineSelected
  <2> SUFFICES ASSUME FeedsInv, SelectedIsThere, ~effect, LineSummaries # <<>>
               PROVE  Len(SelectedLine) = 1
    BY DEF OneLineSelected
  <2> DEFINE s == LineSummaries
             I == {i \in DOMAIN s : s[i].code = selectedCode}
  <2>1. PICK k \in DOMAIN s : s[k].code = selectedCode
    BY DEF SelectedIsThere, Codes
  <2>2. I = {k}
    BY <2>1, OneLinePerCode
  <2>3. Cardinality(I) = 1
    BY <2>2, FS_Singleton
  <2>4. Len(Entries(s, I)) = Cardinality(I)
    <3>1. I \in SUBSET DOMAIN s /\ s \in Seq({s[i] : i \in DOMAIN s})
      BY LineSummariesType
    <3> HIDE DEF I, s
    <3> QED BY <3>1, EntriesProperties
  <2> QED BY <2>3, <2>4 DEF SelectedLine
<1> QED BY <1>1, PageInvariant, PTL

\* A click selects its line, and the user's choice goes only for another one or
\* because the effect of page.tsx found the line gone from the page; a click is
\* lost only to an effect still to run, on a selection that is not on the page.
THEOREM ChoiceIsKept == Spec => ChoiceKept
<1> DEFINE Kept == /\ Clicked => selectedCode' = chosen' \/ Overridden
                   /\ selectedCode = chosen /\ chosen' = chosen
                        => selectedCode' = chosen \/ chosen \notin Rows
<1>1. AfterEffect(LineSummaries) # selectedCode => selectedCode \notin Rows
  BY DEF AfterEffect, Keeps, Rows
<1>2. ASSUME NEW code \in Rows, Click(code)
      PROVE  /\ chosen' = code
             /\ selectedCode' = code \/ Overridden
  <2>1. CASE effect /\ AfterEffect(LineSummaries) # selectedCode
    BY <1>1, <1>2, <2>1 DEF Click, Overridden
  <2>2. CASE ~(effect /\ AfterEffect(LineSummaries) # selectedCode)
    BY <1>2, <2>2 DEF Click
  <2> QED BY <1>2, <2>1, <2>2 DEF Click
<1>3. Clicked => selectedCode' = chosen' \/ Overridden
  BY <1>2 DEF Clicked
<1>4. ASSUME [Next]_vars, selectedCode = chosen, chosen' = chosen
      PROVE  selectedCode' = chosen \/ chosen \notin Rows
  <2>1. ASSUME Flush PROVE selectedCode' = chosen \/ chosen \notin Rows
    BY <1>1, <1>4, <2>1 DEF Flush
  <2>2. ASSUME NEW code \in Rows, Click(code) PROVE selectedCode' = chosen
    BY <1>2, <1>4, <2>2 DEF Click, Overridden, Rows
  <2>3. CASE RunEffect \/ StatusArrives \/ DisruptionsArrive \/ CloseDetail \/ Resize
    BY <2>1, <2>3 DEF RunEffect, StatusArrives, DisruptionsArrive, CloseDetail, Resize
  <2>4. CASE TflChanges \/ UNCHANGED vars
    BY <1>4, <2>4 DEF TflChanges, vars
  <2> QED BY <1>4, <2>2, <2>3, <2>4 DEF Next
<1>5. [Next]_vars => [Kept]_vars
  BY <1>3, <1>4
<1> QED BY <1>5, PTL DEF Spec, ChoiceKept

-----------------------------------------------------------------------------
(* The card of a line *)

\* What the API says of one line: a text, and each stop once.
OneLineRow(row) ==
  (\E id : row.routes = <<id>>) /\ IsInjective(row.stops) /\ \E T : row.text \in Seq(T)

LEMMA RowsOfFeed ==
  ASSUME FeedsInv, disruptionData # Null
  PROVE  /\ disruptionData \in Seq({disruptionData[k] : k \in DOMAIN disruptionData})
         /\ Len(disruptionData) \in Nat /\ DOMAIN disruptionData = 1..Len(disruptionData)
         /\ \A k \in DOMAIN disruptionData : OneLineRow(disruptionData[k])
<1> DEFINE rows == disruptionData
<1>1. CASE USE_MOCKS
  <2>1. rows = MockDisruptions
    BY <1>1 DEF FeedsInv, DisruptionAnswers
  <2>2. rows = <<MockDisruptions[1]>>
    BY <2>1 DEF MockDisruptions
  <2>3. rows \in Seq({MockDisruptions[1]}) /\ \A k \in DOMAIN rows : rows[k] = MockDisruptions[1]
    BY <2>2
  <2>4. OneLineRow(MockDisruptions[1])
    <3>1. MockDisruptions[1].routes = <<"elizabeth">>
      BY DEF MockDisruptions
    <3>2. MockDisruptions[1].stops = <<"PAD", "EAL", "WEA", "HAN", "STL", "HAY">>
      BY DEF MockDisruptions
    <3>3. IsInjective(<<"PAD", "EAL", "WEA", "HAN", "STL", "HAY">>)
      BY DEF IsInjective
    <3>4. \E T : MockDisruptions[1].text \in Seq(T)
      <4> DEFINE a == [says |-> "a faulty train", length |-> 180]
                 b == [says |-> "tickets are accepted", length |-> 125]
      <4>1. MockDisruptions[1].text = <<a, b>>
        BY DEF MockDisruptions
      <4> HIDE DEF a, b
      <4>2. <<a, b>> \in Seq({a, b})
        OBVIOUS
      <4> QED BY <4>1, <4>2
    <3> QED BY <3>1, <3>2, <3>3, <3>4 DEF OneLineRow
  <2> QED BY <2>3, <2>4, SeqOfItsEntries
<1>2. CASE ~USE_MOCKS
  <2>1. PICK n \in Networks : rows = RecentDisruptions(n, Limit)
    BY <1>2 DEF FeedsInv, DisruptionAnswers, DisruptionsAnswer
  <2>2. /\ Len(rows) \in Nat /\ DOMAIN rows = 1..Len(rows)
        /\ rows \in Seq({rows[k] : k \in DOMAIN rows})
        /\ \A k \in DOMAIN rows :
             /\ IsReport(Reports(n)[k])
             /\ rows[k] = Payload(Reports(n)[k].line, Reports(n)[k].disruption)
    BY <2>1, RecentDisruptionsRows
  <2>3. ASSUME NEW k \in DOMAIN rows PROVE OneLineRow(rows[k])
    <3>1. PICK line \in LineResponse, d \in LineStatusDisruption : rows[k] = Payload(line, d)
      BY <2>2 DEF IsReport
    <3>2. /\ rows[k].routes = <<line.id>> /\ rows[k].stops = ExtractIds(d.stops)
          /\ rows[k].text = d.text
      BY <3>1 DEF Payload
    <3>3. d.stops \in Seq(STRING) /\ d.text \in Seq([says : STRING, length : Nat])
      BY DEF LineStatusDisruption, Text
    <3>4. \E T : rows[k].text \in Seq(T)
      BY <3>2, <3>3
    <3> QED BY <3>2, <3>3, <3>4, StopsOnce DEF OneLineRow
  <2> QED BY <2>2, <2>3
<1> QED BY <1>1, <1>2 DEF FeedsInv

\* A row on one line affects no other.
LEMMA NoOtherLine ==
  ASSUME NEW id, NEW routes \in Seq({id})
  PROVE  AffectedRoutesChips(Code(id), routes) = <<>>
<1> DEFINE once == Once(routes)
           codes == [i \in DOMAIN once |-> Code(once[i])]
           I == {i \in DOMAIN codes : codes[i] # Code(id)}
<1>1. once \in Seq({id})
  BY OnceProperties
<1> HIDE DEF once
<1>2. Len(once) \in Nat /\ DOMAIN once = 1..Len(once) /\ \A i \in DOMAIN once : once[i] = id
  BY <1>1, LenProperties, ElementOfSeq
<1>3. codes \in Seq({Code(id)}) /\ I = {}
  <2>1. codes \in [1..Len(once) -> {Code(id)}]
    BY <1>2
  <2>2. codes \in Seq({Code(id)})
    <3> HIDE DEF codes
    <3> QED BY <1>2, <2>1, IsASeq
  <2> QED BY <1>2, <2>2
<1>4. Entries(codes, I) = <<>>
  <2> HIDE DEF codes, I
  <2>1. I \in SUBSET DOMAIN codes
    BY <1>3
  <2> QED BY <1>3, <2>1, NoEntries
<1> QED BY <1>4 DEF AffectedRoutesChips, once

\* The report on a line is the first of those that name it.
LEMMA ReportOfLine ==
  ASSUME FeedsInv, disruptionData # Null, NEW id, NEW summary, summary.code = Code(id)
  PROVE  LET rows == disruptionData
             match == DisruptionForLine(rows, summary)
         IN IF \E k \in DOMAIN rows : rows[k].routes = <<id>>
            THEN \E k \in DOMAIN rows : rows[k].routes = <<id>> /\ match = <<rows[k]>>
            ELSE match = <<>>
<1> DEFINE rows == disruptionData
           T == {rows[k] : k \in DOMAIN rows}
           I == {k \in DOMAIN rows : <<id>> # <<>> /\ Contains(rows[k].routes, id)}
           about == Entries(rows, I)
           match == DisruptionForLine(rows, summary)
<1>1. rows \in Seq(T) /\ \A k \in DOMAIN rows : OneLineRow(rows[k])
  BY RowsOfFeed
<1>2. I \in SUBSET DOMAIN rows /\ \A k \in DOMAIN rows : k \in I <=> rows[k].routes = <<id>>
  <2>1. \A x : Contains(<<x>>, id) <=> x = id
    BY DEF Contains
  <2>2. ASSUME NEW k \in DOMAIN rows PROVE k \in I <=> rows[k].routes = <<id>>
    <3>1. PICK x : rows[k].routes = <<x>>
      BY <1>1 DEF OneLineRow
    <3>2. Contains(rows[k].routes, id) <=> x = id
      BY <2>1, <3>1
    <3> QED BY <3>1, <3>2
  <2> QED BY <2>2
<1>3. match = IF about = <<>> THEN <<>> ELSE <<Head(about)>>
  <2>1. LineIdForCode(summary.code) = <<id>>
    BY LineIdOfCode
  <2>2. <<id>>[1] = id
    OBVIOUS
  <2> QED BY <2>1, <2>2 DEF DisruptionForLine
<1> HIDE DEF I, T, match, about
<1>4. about = <<>> <=> I = {}
  BY <1>1, <1>2, NoEntries DEF about
<1>5. ASSUME I # {} PROVE \E k \in I : Head(about) = rows[k]
  <2>1. /\ about \in Seq(T) /\ DOMAIN about = 1..Len(about)
        /\ \A k \in DOMAIN about : Ascending(I)[k] \in I /\ about[k] = rows[Ascending(I)[k]]
    BY <1>1, <1>2, EntriesProperties DEF about
  <2>2. 1 \in DOMAIN about
    BY <1>4, <1>5, <2>1, LenProperties, EmptySeq
  <2> QED BY <2>1, <2>2
<1>6. IF \E k \in DOMAIN rows : rows[k].routes = <<id>>
      THEN \E k \in DOMAIN rows : rows[k].routes = <<id>> /\ match = <<rows[k]>>
      ELSE match = <<>>
  BY <1>2, <1>3, <1>4, <1>5
<1> QED BY <1>6 DEF match

\* The line that is selected is the one the feed reports under its code.
LEMMA SelectedIsRow ==
  ASSUME FeedsInv, NEW line \in ToSet(SelectedLine), NEW row \in ToSet(statusData),
         line.code = Code(row.id)
  PROVE  line = ToSummary(row)
<1> DEFINE s == LineSummaries
           rows == statusData
           at == InOrder(DOMAIN rows, SortOrder(rows))
           I == {i \in DOMAIN s : s[i].code = selectedCode}
<1>1. PICK k \in DOMAIN s : line = s[k]
  <2>1. s \in Seq({s[i] : i \in DOMAIN s}) /\ I \in SUBSET DOMAIN s
    BY LineSummariesType
  <2>2. SelectedLine = Entries(s, I)
    BY DEF SelectedLine
  <2> HIDE DEF s, I
  <2>3. \A k \in DOMAIN SelectedLine :
          Ascending(I)[k] \in I /\ SelectedLine[k] = s[Ascending(I)[k]]
    BY <2>1, <2>2, EntriesProperties
  <2> QED BY <2>1, <2>3 DEF ToSet
<1>2. statusData # Null
  BY <1>1 DEF LineSummaries
<1>3. s = LineStatusesToSummaries(rows) /\ Sortable(rows) /\ DistinctIds(rows)
  BY <1>2, LinesOfFeed
<1>4. \A j \in DOMAIN s : at[j] \in DOMAIN rows /\ s[j] = ToSummary(rows[at[j]])
  BY <1>3, SummariesOf
<1> HIDE DEF s, at
<1>5. PICK j \in DOMAIN rows : row = rows[j]
  BY DEF ToSet
<1>6. Code(rows[at[k]].id) = Code(rows[j].id)
  BY <1>1, <1>4, <1>5 DEF ToSummary
<1>7. at[k] = j
  BY <1>1, <1>3, <1>4, <1>5, <1>6, CodesDiffer DEF DistinctIds
<1> QED BY <1>1, <1>4, <1>5, <1>7

\* The page of the selected line, in the registry of adapt.ts or not, tells
\* what the API reports of that very line, or else what the status feed says of
\* it; each station once, and no other line as affected.
THEOREM OwnReportHolds == Spec => []OwnReport
<1>1. FeedsInv => OwnReport
  <2> SUFFICES ASSUME FeedsInv, NEW summary \in ToSet(SelectedLine),
                      NEW row \in ToSet(statusData), summary.code = Code(row.id)
               PROVE  LET detail == LineDetail(summary.code, CardOf(summary))
                          reports == IF disruptionData = Null THEN {}
                                     ELSE {d \in ToSet(disruptionData) : d.routes = <<row.id>>}
                      IN /\ IF reports # {}
                            THEN \E d \in reports :
                                   /\ detail.text = <<ChooseHeadlineAndBody(d.summary, d.text)>>
                                   /\ detail.stations = d.stops
                            ELSE detail.text = IF row.reason = "" THEN <<>>
                                               ELSE <<Reason(row.reason)>>
                         /\ IsInjective(detail.stations)
                         /\ detail.chips = <<>>
    BY DEF OwnReport
  <2> DEFINE id == row.id
             reason == row.reason
             card == CardOf(summary)
             detail == LineDetail(summary.code, card)
             reports == IF disruptionData = Null THEN {}
                        ELSE {d \in ToSet(disruptionData) : d.routes = <<id>>}
             match == IF disruptionData = Null THEN <<>>
                      ELSE DisruptionForLine(disruptionData, summary)
  <2>1. IF reports # {} THEN \E d \in reports : match = <<d>> ELSE match = <<>>
    <3>1. CASE disruptionData = Null
      BY <3>1
    <3>2. CASE disruptionData # Null
      <4> DEFINE rows == disruptionData
      <4>1. summary.code = Code(id)
        OBVIOUS
      <4>2. IF \E k \in DOMAIN rows : rows[k].routes = <<id>>
            THEN \E k \in DOMAIN rows : rows[k].routes = <<id>> /\ match = <<rows[k]>>
            ELSE match = <<>>
        <5> HIDE DEF id
        <5> QED BY <3>2, <4>1, ReportOfLine
      <4>3. reports = {rows[k] : k \in {k \in DOMAIN rows : rows[k].routes = <<id>>}}
        BY <3>2 DEF ToSet
      <4> HIDE DEF reports, match, id, rows
      <4> QED BY <4>2, <4>3
    <3> QED BY <3>1, <3>2
  <2>2. card = IF match # <<>> THEN <<DisruptionToSnapshot(match[1])>>
                               ELSE FallbackSnapshot(summary)
    BY DEF CardOf
  <2>3. detail = [code |-> Code(id),
                  text |-> [k \in DOMAIN card |-> card[k].card],
                  chips |-> IF card = <<>> THEN <<>>
                            ELSE AffectedRoutesChips(Code(id), card[1].routes),
                  stations |-> IF card = <<>> THEN <<>> ELSE card[1].stops]
    BY DEF LineDetail
  <2>4. \A d \in reports : IsInjective(d.stops) /\ d.routes = <<id>>
    <3>1. CASE disruptionData = Null
      BY <3>1
    <3>2. CASE disruptionData # Null
      BY <3>2, RowsOfFeed DEF ToSet, OneLineRow
    <3> QED BY <3>1, <3>2
  <2>5. AffectedRoutesChips(Code(id), <<id>>) = <<>> /\ AffectedRoutesChips(Code(id), <<>>) = <<>>
    <3> HIDE DEF id
    <3>1. <<id>> \in Seq({id}) /\ <<>> \in Seq({id})
      OBVIOUS
    <3> QED BY <3>1, NoOtherLine
  <2>6. ASSUME NEW d \in reports, match = <<d>>
        PROVE  /\ detail.text = <<ChooseHeadlineAndBody(d.summary, d.text)>>
               /\ detail.stations = d.stops /\ detail.chips = <<>>
    <3>1. card = <<DisruptionToSnapshot(d)>>
      BY <2>2, <2>6
    <3>2. card[1].card = ChooseHeadlineAndBody(d.summary, d.text)
          /\ card[1].routes = d.routes /\ card[1].stops = d.stops
      BY <3>1 DEF DisruptionToSnapshot
    <3> HIDE DEF card, id, detail, reports
    <3>3. DOMAIN card = {1} /\ card # <<>>
      BY <3>1
    <3> QED BY <2>3, <2>4, <2>5, <3>2, <3>3
  <2>7. ASSUME match = <<>>
        PROVE  /\ detail.text = IF reason = "" THEN <<>> ELSE <<Reason(reason)>>
               /\ detail.stations = <<>> /\ detail.chips = <<>>
    <3>1. summary.reason = reason
      BY SelectedIsRow DEF ToSummary
    <3>2. card = IF reason = "" THEN <<>>
                 ELSE <<[card |-> Reason(reason), routes |-> <<>>, stops |-> <<>>]>>
      BY <2>2, <2>7, <3>1 DEF FallbackSnapshot
    <3> DEFINE said == Reason(reason)
    <3> HIDE DEF card, id, detail, reason, said
    <3>3. CASE reason = ""
      <4>1. card = <<>>
        BY <3>2, <3>3
      <4>2. detail.text = <<>> /\ detail.stations = <<>> /\ detail.chips = <<>>
        BY <2>3, <4>1
      <4> QED BY <3>3, <4>2
    <3>4. CASE reason # ""
      <4>1. card = <<[card |-> said, routes |-> <<>>, stops |-> <<>>]>>
        BY <3>2, <3>4 DEF said
      <4>2. detail.text = <<said>> /\ detail.stations = <<>> /\ detail.chips = <<>>
        BY <2>3, <2>5, <4>1
      <4> QED BY <3>4, <4>2 DEF said
    <3> QED BY <3>3, <3>4
  <2>8. IsInjective(<<>>)
    BY DEF IsInjective
  <2> HIDE DEF detail, reports, match, reason
  <2>9. /\ IF reports # {}
           THEN \E d \in reports :
                  /\ detail.text = <<ChooseHeadlineAndBody(d.summary, d.text)>>
                  /\ detail.stations = d.stops
           ELSE detail.text = IF reason = "" THEN <<>> ELSE <<Reason(reason)>>
        /\ IsInjective(detail.stations)
        /\ detail.chips = <<>>
    BY <2>1, <2>4, <2>6, <2>7, <2>8
  <2> QED BY <2>9 DEF detail, reports, reason
<1> QED BY <1>1, PageInvariant, PTL

-----------------------------------------------------------------------------
(* The news and the fixtures *)

\* What a text says is in the headline or in the body.
LEMMA NothingLost ==
  ASSUME NEW T, NEW text \in Seq(T), NEW summary
  PROVE  Covers(ChooseHeadlineAndBody(summary, text), text)
<1> DEFINE item == ChooseHeadlineAndBody(summary, text)
<1>1. Len(text) \in Nat /\ DOMAIN text = 1..Len(text)
  BY LenProperties
<1>2. CASE text # <<>> /\ IsEcho(summary, Head(text))
  <2>1. item.headline = <<Head(text)>> /\ item.body = Tail(text)
    BY <1>2 DEF ChooseHeadlineAndBody
  <2>2. ASSUME NEW i \in DOMAIN text
        PROVE  text[i] \in ToSet(item.headline) \cup ToSet(item.body)
    <3>1. CASE i = 1
      BY <2>1, <3>1 DEF ToSet
    <3>2. CASE i # 1
      <4>1. /\ Tail(text) \in Seq(T) /\ Len(Tail(text)) = Len(text) - 1
            /\ \A k \in 1..Len(Tail(text)) : Tail(text)[k] = text[k + 1]
        BY <1>2, HeadTailProperties
      <4>2. i - 1 \in DOMAIN Tail(text) /\ Tail(text)[i - 1] = text[i]
        BY <1>1, <3>2, <4>1, LenProperties
      <4> QED BY <2>1, <4>2 DEF ToSet
    <3> QED BY <3>1, <3>2
  <2> HIDE DEF item
  <2>3. Covers(item, text)
    BY <2>2 DEF Covers
  <2> QED BY <2>3 DEF item
<1>3. CASE ~(text # <<>> /\ IsEcho(summary, Head(text)))
  <2>1. item.body = text
    BY <1>3 DEF ChooseHeadlineAndBody
  <2> HIDE DEF item
  <2>2. Covers(item, text)
    BY <2>1 DEF Covers, ToSet
  <2> QED BY <2>2 DEF item
<1> QED BY <1>2, <1>3

\* Every text TfL published is in the news pane of adapt.ts, once and in full.
THEOREM NewsTellsAll == Spec => []NewsTellsAllOnce
<1>1. ASSUME FeedsInv PROVE NewsTellsAllOnce
  <2> DEFINE rows == disruptionData
             Item(k) == ChooseHeadlineAndBody(rows[k].summary, rows[k].text)
             items == [k \in DOMAIN rows |-> Item(k)]
             T == {Item(k) : k \in DOMAIN rows}
  <2>1. CASE rows = Null
    BY <2>1 DEF NewsTellsAllOnce, NewsItems
  <2>2. CASE rows # Null
    <3>1. /\ Len(rows) \in Nat /\ DOMAIN rows = 1..Len(rows)
          /\ \A k \in DOMAIN rows : \E S : rows[k].text \in Seq(S)
      BY <1>1, <2>2, RowsOfFeed DEF OneLineRow
    <3>2. NewsItems = Once(items)
      <4>1. \A i, j \in DOMAIN rows : SameNews(rows[j], rows[i]) <=> Item(j) = Item(i)
        BY DEF SameNews
      <4>2. {i \in DOMAIN rows : \A j \in DOMAIN rows : SameNews(rows[j], rows[i]) => i <= j}
              = {i \in DOMAIN items : \A j \in DOMAIN items : items[j] = items[i] => i <= j}
        <5> HIDE DEF Item
        <5> QED BY <4>1
      <4> QED BY <2>2, <4>2 DEF NewsItems, DisruptionsToNews, Once
    <3>3. items \in Seq(T)
      <4> HIDE DEF Item
      <4>1. items \in [1..Len(rows) -> T]
        BY <3>1
      <4> QED BY <3>1, <4>1, IsASeq
    <3> HIDE DEF items, T
    <3>4. /\ IsInjective(NewsItems)
          /\ \A k \in DOMAIN items : \E i \in DOMAIN NewsItems : NewsItems[i] = items[k]
      BY <3>2, <3>3, OnceProperties
    <3>5. \A k \in DOMAIN rows : Covers(Item(k), rows[k].text)
      <4> SUFFICES ASSUME NEW k \in DOMAIN rows PROVE Covers(Item(k), rows[k].text)
        OBVIOUS
      <4>1. PICK S : rows[k].text \in Seq(S)
        BY <3>1
      <4> QED BY <4>1, NothingLost
    <3>6. ASSUME NEW d \in ToSet(rows)
          PROVE  \E i \in DOMAIN NewsItems : Covers(NewsItems[i], d.text)
      <4>1. PICK k \in DOMAIN rows : d = rows[k]
        BY DEF ToSet
      <4>2. k \in DOMAIN items /\ items[k] = Item(k)
        BY DEF items
      <4> HIDE DEF Item
      <4>3. PICK i \in DOMAIN NewsItems : NewsItems[i] = Item(k)
        BY <3>4, <4>2
      <4> QED BY <3>5, <4>1, <4>3
    <3>7. \A i, j \in DOMAIN NewsItems : NewsItems[i] = NewsItems[j] => i = j
      BY <3>4 DEF IsInjective
    <3> QED BY <3>6, <3>7 DEF NewsTellsAllOnce
  <2> QED BY <2>1, <2>2
<1> QED BY <1>1, PageInvariant, PTL

\* The fixtures of web/lib/mocks survive the API's shape and its tables: each
\* is on the page under its own code, bucket and reason, and the disruption is
\* on the severe line.
THEOREM FixturesAreShown == Spec => []FixturesShown
<1>1. ASSUME FeedsInv, USE_MOCKS, statusData # Null PROVE FixturesShown
  <2> DEFINE s == LineSummaries
             at == InOrder(DOMAIN MockStatus, SortOrder(MockStatus))
             Fixture(l) == [code |-> [unknown |-> FALSE, text |-> l.code], status |-> l.status,
                            reason |-> l.reason]
             Row(l) == [code |-> l.code, status |-> l.status, reason |-> l.reason]
             Id(i) == CODE_TO_LINE_ID[MockCodes[i]]
             Named(l) == DisruptionForLine(disruptionData, l) # <<>>
             reported == {l \in ToSet(s) : disruptionData # Null /\ Named(l)}
             severe == {l \in ToSet(s) : l.status = "severe"}
  <2>1. statusData = MockStatus /\ s = LineStatusesToSummaries(MockStatus)
    BY <1>1, LinesOfFeed DEF FeedsInv, StatusAnswers
  <2>2. /\ DOMAIN s = Fixtures /\ Len(s) = 19
        /\ \A k \in Fixtures : at[k] \in Fixtures /\ s[k] = ToSummary(MockStatus[at[k]])
        /\ \A i \in Fixtures : \E k \in Fixtures : at[k] = i
    <3>1. /\ DOMAIN s = DOMAIN MockStatus /\ Len(s) = Len(MockStatus)
          /\ \A k \in DOMAIN s : at[k] \in DOMAIN MockStatus /\ s[k] = ToSummary(MockStatus[at[k]])
          /\ \A i \in DOMAIN MockStatus : \E k \in DOMAIN s : at[k] = i
      BY <2>1, MockStatusRows, SummariesOf
    <3> HIDE DEF s, at
    <3> QED BY <3>1, MockRows
  <2> HIDE DEF s, at
  <2>3. \A i \in Fixtures :
          LET l == ToSummary(MockStatus[i])
          IN /\ l.code = Code(Id(i))
             /\ l.code = [unknown |-> FALSE, text |-> MOCK_LINES[i].code]
             /\ l.status = MOCK_LINES[i].status /\ l.reason = MOCK_LINES[i].reason
    <3> SUFFICES ASSUME NEW i \in Fixtures
                 PROVE  LET l == ToSummary(MockStatus[i])
                        IN /\ l.code = Code(Id(i))
                           /\ l.code = [unknown |-> FALSE, text |-> MOCK_LINES[i].code]
                           /\ l.status = MOCK_LINES[i].status /\ l.reason = MOCK_LINES[i].reason
      OBVIOUS
    <3>1. Code(Id(i)) = [unknown |-> FALSE, text |-> MOCK_LINES[i].code]
      <4>1. Id(i) \in DOMAIN LineMetaById /\ LineMetaById[Id(i)] = MOCK_LINES[i].code
        BY MockRows, FixtureIds
      <4> HIDE DEF Id
      <4> QED BY <4>1 DEF Code
    <3>2. SeverityToBucket(MockStatus[i].severity) = MOCK_LINES[i].status
      BY MockRows, BucketSurvives
    <3> QED BY <3>1, <3>2, MockRows DEF ToSummary
  <2>4. Len(s) = Len(MOCK_LINES)
    BY <2>2, MockRows
  <2>5. {Row(l) : l \in ToSet(s)} = {Fixture(l) : l \in ToSet(MOCK_LINES)}
    <3>1. ASSUME NEW k \in Fixtures PROVE Row(s[k]) = Fixture(MOCK_LINES[at[k]])
      BY <2>2, <2>3
    <3>2. DOMAIN MOCK_LINES = Fixtures
      BY MockRows
    <3> HIDE DEF Row, Fixture
    <3> QED BY <2>2, <3>1, <3>2 DEF ToSet
  <2>6. ASSUME disruptionData # Null PROVE reported = severe
    <3>1. disruptionData = MockDisruptions
      BY <1>1, <2>6 DEF FeedsInv, DisruptionAnswers
    <3>2. \A id : (\E k \in DOMAIN disruptionData : disruptionData[k].routes = <<id>>)
                    <=> id = "elizabeth"
      <4>1. DOMAIN MockDisruptions = {1} /\ MockDisruptions[1].routes = <<"elizabeth">>
        <5>1. MockDisruptions = <<MockDisruptions[1]>>
          BY DEF MockDisruptions
        <5>2. MockDisruptions[1].routes = <<"elizabeth">>
          BY DEF MockDisruptions
        <5>3. \A e : DOMAIN <<e>> = {1}
          OBVIOUS
        <5>4. DOMAIN MockDisruptions = {1}
          BY <5>1, <5>3, Zenon
        <5> QED BY <5>2, <5>4
      <4>2. \A id : <<"elizabeth">> = <<id>> <=> id = "elizabeth"
        OBVIOUS
      <4> QED BY <3>1, <4>1, <4>2
    <3>3. \A i \in Fixtures : Id(i) = "elizabeth" <=> MockCodes[i] = "ELZ"
      <4>1. CODE_TO_LINE_ID["ELZ"] = "elizabeth" /\ LineMetaById["elizabeth"] = "ELZ"
        BY DEF CODE_TO_LINE_ID, LineMetaById
      <4> QED BY <4>1, FixtureIds
    <3>4. ASSUME NEW k \in Fixtures PROVE Named(s[k]) <=> s[k].status = "severe"
      <4>1. s[k].code = Code(Id(at[k])) /\ s[k].status = MOCK_LINES[at[k]].status
        BY <2>2, <2>3
      <4>2. Named(s[k]) <=>
              \E j \in DOMAIN disruptionData : disruptionData[j].routes = <<Id(at[k])>>
        <5> DEFINE id == Id(at[k])
                   l == s[k]
                   rows == disruptionData
                   match == DisruptionForLine(rows, l)
        <5>1. l.code = Code(id)
          BY <4>1
        <5> HIDE DEF l, id
        <5>2. IF \E j \in DOMAIN rows : rows[j].routes = <<id>>
              THEN \E j \in DOMAIN rows : rows[j].routes = <<id>> /\ match = <<rows[j]>>
              ELSE match = <<>>
          BY <1>1, <2>6, <5>1, ReportOfLine
        <5>3. match # <<>> <=> \E j \in DOMAIN rows : rows[j].routes = <<id>>
          <6> HIDE DEF match
          <6>1. \A x : <<x>> # <<>>
            OBVIOUS
          <6> QED BY <5>2, <6>1
        <5> QED BY <5>3 DEF l, id
      <4>3. Named(s[k]) <=> Id(at[k]) = "elizabeth"
        <5> HIDE DEF Named, Id
        <5> QED BY <3>2, <4>2
      <4>4. at[k] \in Fixtures
        BY <2>2
      <4>5. Id(at[k]) = "elizabeth" <=> MOCK_LINES[at[k]].status = "severe"
        <5> HIDE DEF Id
        <5> QED BY <3>3, <4>4, MockRows
      <4> HIDE DEF Named, Id
      <4> QED BY <4>1, <4>3, <4>5
    <3> HIDE DEF Named
    <3> QED BY <2>2, <2>6, <3>4 DEF ToSet
  <2> HIDE DEF reported, severe
  <2>7. /\ Len(s) = Len(MOCK_LINES)
        /\ {Row(l) : l \in ToSet(s)} = {Fixture(l) : l \in ToSet(MOCK_LINES)}
        /\ disruptionData # Null => reported = severe
    BY <2>4, <2>5, <2>6
  <2> QED BY <2>7 DEF FixturesShown, s, reported, severe
<1>2. FeedsInv => FixturesShown
  BY <1>1 DEF FixturesShown
<1> QED BY <1>2, PageInvariant, PTL

-----------------------------------------------------------------------------
(* The identity of a disruption *)

\* The digest that normalise.py makes of a disruption is that of an incident:
\* the order of the stops does not matter, the rest does.
LEMMA PayloadsIdentified ==
  ASSUME NEW r, IsReport(r), NEW q, IsReport(q)
  PROVE  Payload(r.line, r.disruption).id = Payload(q.line, q.disruption).id
           <=> Incident(r) = Incident(q)
<1> DEFINE d == r.disruption
           e == q.disruption
           ids(stops) == ToSet(ExtractIds(stops))
           incident(report) == Incident(report)
<1>1. ids(d.stops) = ToSet(d.stops) \ {""} /\ ids(e.stops) = ToSet(e.stops) \ {""}
  <2>1. d.stops \in Seq(STRING) /\ e.stops \in Seq(STRING)
    BY DEF IsReport, LineStatusDisruption
  <2> QED BY <2>1, StopsKept
<1>2. /\ Payload(r.line, d).id = [category |-> d.category, text |-> d.text,
                                 closure |-> d.closure, route |-> r.line.id,
                                 stops |-> ids(d.stops)]
      /\ Payload(q.line, e).id = [category |-> e.category, text |-> e.text,
                                 closure |-> e.closure, route |-> q.line.id,
                                 stops |-> ids(e.stops)]
  BY DEF Payload, SyntheticId, StopsSorted
<1>3. /\ Incident(r) = [route |-> r.line.id, category |-> d.category, text |-> d.text,
                       closure |-> d.closure, stops |-> ids(d.stops)]
      /\ Incident(q) = [route |-> q.line.id, category |-> e.category, text |-> e.text,
                       closure |-> e.closure, stops |-> ids(e.stops)]
  BY <1>1 DEF Incident
<1> HIDE DEF ids
<1> QED BY <1>2, <1>3

\* The id of a disruption is that of an incident, from one poll to the next and
\* for any two answers of TfL, whether or not the rows of the API tell the two
\* categories apart.
THEOREM IdsDoFollowIncidents == Spec => IdsFollowIncidents
<1> DEFINE Follow == ~USE_MOCKS =>
             \A m, n \in Networks :
               disruptionData = DisruptionsAnswer[m] /\ disruptionData' = DisruptionsAnswer[n] =>
                 \A i \in DOMAIN disruptionData, j \in DOMAIN disruptionData' :
                   disruptionData[i].id = disruptionData'[j].id
                     <=> Incident(Reported[m][i]) = Incident(Reported[n][j])
<1>1. ASSUME NEW m \in Networks, NEW n \in Networks,
             disruptionData = DisruptionsAnswer[m], disruptionData' = DisruptionsAnswer[n],
             NEW i \in DOMAIN disruptionData, NEW j \in DOMAIN disruptionData'
      PROVE  disruptionData[i].id = disruptionData'[j].id
               <=> Incident(Reported[m][i]) = Incident(Reported[n][j])
  <2>1. /\ disruptionData = RecentDisruptions(m, Limit)
        /\ disruptionData' = RecentDisruptions(n, Limit)
        /\ Reported[m] = Reports(m) /\ Reported[n] = Reports(n)
    BY <1>1 DEF DisruptionsAnswer, Reported
  <2>2. /\ IsReport(Reported[m][i])
        /\ disruptionData[i] = Payload(Reported[m][i].line, Reported[m][i].disruption)
    BY <2>1, RecentDisruptionsRows
  <2>3. /\ IsReport(Reported[n][j])
        /\ disruptionData'[j] = Payload(Reported[n][j].line, Reported[n][j].disruption)
    BY <2>1, RecentDisruptionsRows
  <2> QED BY <2>2, <2>3, PayloadsIdentified
<1>2. [Follow]_vars
  BY <1>1
<1> QED BY <1>2, PTL DEF Spec, IdsFollowIncidents

-----------------------------------------------------------------------------
(* What the page shows of TfL's answer *)

\* The minimum that _primary_status takes is the worst status that is not Good
\* Service.  A key is one number: Good Service weighs more than any other.
Weight(status) ==
  IF status.severity = GOOD_SERVICE THEN status.severity + 21 ELSE status.severity

LEMMA LeastWeight ==
  ASSUME NEW s \in Seq(LineStatusItem), s # <<>>
  PROVE  \E i \in DOMAIN s : \A j \in DOMAIN s :
           Weight(s[i]) <= Weight(s[j]) /\ (j < i => Weight(s[i]) < Weight(s[j]))
<1> DEFINE W == {Weight(s[i]) + 1 : i \in DOMAIN s}
<1>1. /\ Len(s) \in Nat /\ DOMAIN s = 1..Len(s) /\ 1 \in DOMAIN s
      /\ \A i \in DOMAIN s : i \in Nat
  BY LenProperties, EmptySeq
<1>2. \A i \in DOMAIN s : Weight(s[i]) \in 0..41
  <2> SUFFICES ASSUME NEW i \in DOMAIN s PROVE Weight(s[i]) \in 0..41
    OBVIOUS
  <2>1. s[i] \in LineStatusItem
    BY ElementOfSeq
  <2>2. s[i].severity \in 0..20
    BY <2>1 DEF LineStatusItem
  <2> QED BY <2>2 DEF Weight, GOOD_SERVICE
<1> HIDE DEF Weight
<1>3. W \in SUBSET (1..42) /\ W # {}
  <2>1. ASSUME NEW i \in DOMAIN s PROVE Weight(s[i]) + 1 \in 1..42
    <3> DEFINE a == Weight(s[i])
    <3>1. a \in 0..41
      BY <1>2
    <3> HIDE DEF a
    <3>2. a + 1 \in 1..42
      BY <3>1
    <3> QED BY <3>2 DEF a
  <2> QED BY <1>1, <2>1
<1>4. PICK w \in W : \A v \in W : w <= v
  <2> HIDE DEF W
  <2> QED BY <1>3, FirstPosition
<1> DEFINE I == {i \in DOMAIN s : Weight(s[i]) + 1 = w}
<1>5. I \in SUBSET (1..Len(s)) /\ I # {}
  BY <1>1, <1>4
<1>6. PICK i \in I : \A j \in I : i <= j
  <2> HIDE DEF I
  <2> QED BY <1>1, <1>5, FirstPosition
<1>7. ASSUME NEW j \in DOMAIN s
      PROVE  Weight(s[i]) <= Weight(s[j]) /\ (j < i => Weight(s[i]) < Weight(s[j]))
  <2>1. /\ Weight(s[i]) \in 0..41 /\ Weight(s[j]) \in 0..41
        /\ i \in Nat /\ j \in Nat
    BY <1>1, <1>2, <1>6
  <2>2. w = Weight(s[i]) + 1 /\ w <= Weight(s[j]) + 1
    BY <1>4, <1>6
  <2>3. Weight(s[j]) = Weight(s[i]) => i <= j
    BY <1>6, <2>2
  <2> DEFINE a == Weight(s[i])
             b == Weight(s[j])
  <2>4. a \in 0..41 /\ b \in 0..41 /\ a + 1 <= b + 1 /\ (b = a => i <= j)
    BY <2>1, <2>2, <2>3
  <2> HIDE DEF a, b
  <2>5. a <= b /\ (j < i => a < b)
    BY <2>1, <2>4
  <2> QED BY <2>5 DEF a, b
<1> QED BY <1>6, <1>7

LEMMA PrimaryIsWorst ==
  ASSUME NEW line \in LineResponse, line.statuses # <<>>
  PROVE  PrimaryStatus(line.statuses).severity = Worst(line) /\ Worst(line) \in 0..20
<1> DEFINE s == line.statuses
           sev(i) == s[i].severity
           good(i) == Key(s[i])[1]
           First(i) == \A j \in DOMAIN s :
                         /\ ~Below(Key(s[j]), Key(s[i]))
                         /\ j < i => Below(Key(s[i]), Key(s[j]))
           bad == {s[i].severity : i \in DOMAIN s} \ {10}
<1>1. s \in Seq(LineStatusItem) /\ s # <<>>
  BY DEF LineResponse
<1>2. \A i \in DOMAIN s : sev(i) \in 0..20
  BY <1>1, ElementOfSeq DEF LineStatusItem
<1>3. \A i \in DOMAIN s : good(i) = IF sev(i) = 10 THEN 1 ELSE 0
  BY DEF Key, GOOD_SERVICE
<1>4. \A i, j \in DOMAIN s :
        Below(Key(s[i]), Key(s[j])) <=> good(i) < good(j) \/ (good(i) = good(j) /\ sev(i) < sev(j))
  BY DEF Below, Key
<1>5. \A i \in DOMAIN s : Weight(s[i]) = IF sev(i) = 10 THEN sev(i) + 21 ELSE sev(i)
  BY DEF Weight, GOOD_SERVICE
<1> DEFINE wt(i) == Weight(s[i])
<1>6. PICK m \in DOMAIN s : \A j \in DOMAIN s : wt(m) <= wt(j) /\ (j < m => wt(m) < wt(j))
  BY <1>1, LeastWeight
<1>7. s[CHOOSE i \in DOMAIN s : First(i)] = PrimaryStatus(s)
  BY DEF PrimaryStatus
<1> HIDE DEF good, wt, s
<1>8. ASSUME NEW i \in DOMAIN s, NEW j \in DOMAIN s
      PROVE  Below(Key(s[i]), Key(s[j])) <=> wt(i) < wt(j)
  <2>1. /\ wt(i) = IF sev(i) = 10 THEN sev(i) + 21 ELSE sev(i)
        /\ wt(j) = IF sev(j) = 10 THEN sev(j) + 21 ELSE sev(j)
    BY <1>5 DEF wt
  <2>2. /\ good(i) = IF sev(i) = 10 THEN 1 ELSE 0
        /\ good(j) = IF sev(j) = 10 THEN 1 ELSE 0
        /\ sev(i) \in 0..20 /\ sev(j) \in 0..20
    BY <1>2, <1>3
  <2> HIDE DEF sev
  <2> QED BY <1>4, <2>1, <2>2
<1>9. \A i \in DOMAIN s : wt(i) \in 0..41
  <2> SUFFICES ASSUME NEW i \in DOMAIN s PROVE wt(i) \in 0..41
    OBVIOUS
  <2>1. wt(i) = (IF sev(i) = 10 THEN sev(i) + 21 ELSE sev(i)) /\ sev(i) \in 0..20
    BY <1>2, <1>5 DEF wt
  <2> HIDE DEF sev
  <2> QED BY <2>1
<1>10. First(m)
  <2> SUFFICES ASSUME NEW j \in DOMAIN s
               PROVE  /\ ~Below(Key(s[j]), Key(s[m]))
                      /\ j < m => Below(Key(s[m]), Key(s[j]))
    OBVIOUS
  <2>1. wt(m) <= wt(j) /\ (j < m => wt(m) < wt(j)) /\ wt(m) \in 0..41 /\ wt(j) \in 0..41
    BY <1>6, <1>9
  <2>2. Below(Key(s[j]), Key(s[m])) <=> wt(j) < wt(m)
    BY <1>8
  <2>3. Below(Key(s[m]), Key(s[j])) <=> wt(m) < wt(j)
    BY <1>8
  <2>4. ~(wt(j) < wt(m))
    <3> DEFINE a == wt(m)
               b == wt(j)
    <3>1. a <= b /\ a \in 0..41 /\ b \in 0..41
      BY <2>1
    <3> HIDE DEF a, b
    <3>2. ~(b < a)
      BY <3>1
    <3> QED BY <3>2 DEF a, b
  <2> QED BY <2>1, <2>2, <2>3, <2>4, Zenon
<1> DEFINE c == CHOOSE i \in DOMAIN s : First(i)
<1>11. c \in DOMAIN s /\ First(c)
  BY <1>10
<1>12. \A j \in DOMAIN s : ~Below(Key(s[j]), Key(s[c]))
  BY <1>11
<1> HIDE DEF c, First
<1>13. \A j \in DOMAIN s : good(c) < good(j) \/ (good(c) = good(j) /\ sev(c) <= sev(j))
  <2> SUFFICES ASSUME NEW j \in DOMAIN s
               PROVE  good(c) < good(j) \/ (good(c) = good(j) /\ sev(c) <= sev(j))
    OBVIOUS
  <2>1. good(c) \in {0, 1} /\ good(j) \in {0, 1} /\ sev(c) \in 0..20 /\ sev(j) \in 0..20
    BY <1>2, <1>3, <1>11
  <2>2. ~(good(j) < good(c) \/ (good(j) = good(c) /\ sev(j) < sev(c)))
    BY <1>4, <1>11, <1>12
  <2> HIDE DEF sev
  <2> QED BY <2>1, <2>2
<1>14. Worst(line) = IF bad = {} THEN 10 ELSE CHOOSE x \in bad : \A y \in bad : x <= y
  BY DEF Worst, s
<1>15. CASE bad = {}
  <2>1. sev(c) = 10
    BY <1>11, <1>15
  <2> QED BY <1>7, <1>14, <1>15, <2>1 DEF c, s
<1>16. CASE bad # {}
  <2>1. PICK b \in DOMAIN s : sev(b) # 10
    BY <1>16
  <2>2. good(b) = 0 /\ good(c) \in {0, 1}
    BY <1>3, <1>11, <2>1
  <2>3. good(c) = 0 /\ sev(c) # 10
    BY <1>3, <1>11, <1>13, <2>1, <2>2
  <2>4. sev(c) \in bad
    BY <1>11, <2>3
  <2>5. ASSUME NEW y \in bad PROVE sev(c) <= y
    <3>1. PICK j \in DOMAIN s : y = sev(j) /\ sev(j) # 10
      OBVIOUS
    <3>2. good(j) = 0
      BY <1>3, <3>1
    <3> QED BY <1>13, <2>3, <3>1, <3>2
  <2>6. \A x \in bad : x \in Int
    BY <1>2
  <2> HIDE DEF bad, sev
  <2>7. ASSUME NEW x \in bad, \A y \in bad : x <= y PROVE x = sev(c)
    <3>1. x <= sev(c) /\ sev(c) <= x /\ x \in Int /\ sev(c) \in Int
      BY <2>4, <2>5, <2>6, <2>7
    <3> QED BY <3>1
  <2>8. (CHOOSE x \in bad : \A y \in bad : x <= y) = sev(c)
    BY <2>4, <2>5, <2>7
  <2>9. Worst(line) = sev(c) /\ sev(c) \in 0..20
    BY <1>2, <1>11, <1>14, <1>16, <2>8
  <2> QED BY <1>7, <2>9 DEF c, s, sev
<1> QED BY <1>15, <1>16

\* The lines that fetch_live_status serves of an answer of TfL.
Served(n) == {i \in DOMAIN n : n[i].mode \in ValidModes /\ n[i].statuses # <<>>}

\* The page has one line per line served, in some order, under its code and
\* its worst status.
LEMMA LinesOfAnswer ==
  ASSUME NEW n \in Networks
  PROVE  LET s == LineStatusesToSummaries(LiveStatus(n))
         IN /\ IsFiniteSet(DOMAIN s) /\ Len(s) = Cardinality(DOMAIN s)
            /\ \E f \in Bijection(DOMAIN s, Served(n)) :
                 \A k \in DOMAIN s :
                   /\ s[k].code = Code(n[f[k]].id) /\ s[k].severity = Worst(n[f[k]])
                   /\ s[k].status = SeverityToBucket(Worst(n[f[k]]))
<1> DEFINE I == Served(n)
           served == Entries(n, I)
           at == Ascending(I)
           rows == LiveStatus(n)
           s == LineStatusesToSummaries(rows)
           place == InOrder(DOMAIN rows, SortOrder(rows))
           f == [k \in DOMAIN s |-> at[place[k]]]
<1>1. n \in Seq(LineResponse) /\ I \in SUBSET DOMAIN n
  BY DashboardAssumption DEF Served
<1>2. /\ served \in Seq(LineResponse) /\ DOMAIN at = DOMAIN served
      /\ \A k \in DOMAIN served : at[k] \in I /\ served[k] = n[at[k]]
      /\ \A i \in I : \E k \in DOMAIN served : at[k] = i
      /\ \A j, k \in DOMAIN served : j < k <=> at[j] < at[k]
  <2> HIDE DEF I
  <2> QED BY <1>1, EntriesProperties
<1>3. /\ DOMAIN rows = DOMAIN served
      /\ \A k \in DOMAIN served :
           /\ rows[k].id = served[k].id
           /\ rows[k].severity = PrimaryStatus(served[k].statuses).severity
  BY DEF LiveStatus, Served
<1>4. Sortable(rows)
  BY LiveStatusRows
<1>5. /\ DOMAIN s = DOMAIN rows /\ DOMAIN s = 1..Len(s) /\ Len(s) \in Nat
      /\ \A k \in DOMAIN s : place[k] \in DOMAIN rows /\ s[k] = ToSummary(rows[place[k]])
      /\ \A i \in DOMAIN rows : \E k \in DOMAIN s : place[k] = i
      /\ \A j, k \in DOMAIN s : place[j] = place[k] => j = k
  <2> HIDE DEF rows
  <2> QED BY <1>4, SummariesOf
<1>6. \A i \in I : n[i] \in LineResponse /\ n[i].statuses # <<>> /\ i \in Nat
  BY <1>1, ElementOfSeq, LenProperties DEF Served
<1> HIDE DEF I, served, at, rows, s, place
<1>7. IsFiniteSet(DOMAIN s) /\ Len(s) = Cardinality(DOMAIN s)
  <2>1. IsFiniteSet(1..Len(s)) /\ Cardinality(1..Len(s)) = Len(s)
    BY <1>5, FS_Interval
  <2> QED BY <1>5, <2>1
<1>8. \A j, k \in DOMAIN served : at[j] = at[k] => j = k
  <2> SUFFICES ASSUME NEW j \in DOMAIN served, NEW k \in DOMAIN served, at[j] = at[k]
               PROVE  j = k
    OBVIOUS
  <2>1. DOMAIN served = 1..Len(s) /\ Len(s) \in Nat
    BY <1>3, <1>5
  <2>2. j \in Nat /\ k \in Nat
    BY <2>1
  <2>3. at[j] \in Nat
    BY <1>2, <1>6
  <2>4. ~(j < k) /\ ~(k < j)
    BY <1>2, <2>3
  <2> QED BY <2>2, <2>4
<1>9. f \in Bijection(DOMAIN s, I)
  <2>1. f \in [DOMAIN s -> I]
    BY <1>2, <1>3, <1>5
  <2>2. \A j, k \in DOMAIN s : f[j] = f[k] => j = k
    BY <1>3, <1>5, <1>8
  <2>3. \A i \in I : \E k \in DOMAIN s : f[k] = i
    <3> SUFFICES ASSUME NEW i \in I PROVE \E k \in DOMAIN s : f[k] = i
      OBVIOUS
    <3>1. PICK r \in DOMAIN rows : at[r] = i
      BY <1>2, <1>3
    <3>2. PICK k \in DOMAIN s : place[k] = r
      BY <1>5
    <3> QED BY <3>1, <3>2
  <2> HIDE DEF f
  <2>4. f \in Injection(DOMAIN s, I)
    BY <2>1, <2>2 DEF Injection, IsInjective
  <2>5. f \in Surjection(DOMAIN s, I)
    BY <2>1, <2>3 DEF Surjection
  <2> QED BY <2>4, <2>5 DEF Bijection
<1>10. ASSUME NEW k \in DOMAIN s
       PROVE  /\ s[k].code = Code(n[f[k]].id) /\ s[k].severity = Worst(n[f[k]])
              /\ s[k].status = SeverityToBucket(Worst(n[f[k]]))
  <2> DEFINE r == place[k]
             line == n[f[k]]
  <2>1. r \in DOMAIN rows /\ r \in DOMAIN served /\ s[k] = ToSummary(rows[r])
    BY <1>3, <1>5
  <2>2. f[k] = at[r] /\ f[k] \in I /\ served[r] = line
    BY <1>2, <2>1
  <2>3. rows[r].id = line.id /\ rows[r].severity = PrimaryStatus(line.statuses).severity
    BY <1>3, <2>1, <2>2
  <2>4. line \in LineResponse /\ line.statuses # <<>>
    BY <1>6, <2>2
  <2>5. PrimaryStatus(line.statuses).severity = Worst(line)
    <3> HIDE DEF line
    <3> QED BY <2>4, PrimaryIsWorst
  <2> HIDE DEF r, line, f
  <2>6. /\ s[k].code = Code(rows[r].id) /\ s[k].severity = rows[r].severity
        /\ s[k].status = SeverityToBucket(rows[r].severity)
    BY <2>1 DEF ToSummary
  <2> QED BY <2>3, <2>5, <2>6 DEF line
<1> HIDE DEF f
<1>11. /\ IsFiniteSet(DOMAIN s) /\ Len(s) = Cardinality(DOMAIN s)
       /\ \E g \in Bijection(DOMAIN s, I) :
            \A k \in DOMAIN s :
              /\ s[k].code = Code(n[g[k]].id) /\ s[k].severity = Worst(n[g[k]])
              /\ s[k].status = SeverityToBucket(Worst(n[g[k]]))
  BY <1>7, <1>9, <1>10
<1> QED BY <1>11 DEF s, I, rows

\* A bijection maps the part of its domain that has a property to the part of
\* its range that has it.
LEMMA PartsCorrespond ==
  ASSUME NEW S, NEW T, NEW f \in Bijection(S, T), IsFiniteSet(S),
         NEW A \in SUBSET S, NEW B \in SUBSET T, \A x \in S : x \in A <=> f[x] \in B
  PROVE  Cardinality(A) = Cardinality(B)
<1> DEFINE g == [x \in A |-> f[x]]
<1>1. /\ f \in [S -> T] /\ \A x, y \in S : f[x] = f[y] => x = y
      /\ \A y \in T : \E x \in S : f[x] = y
  BY DEF Bijection, Injection, Surjection, IsInjective
<1>2. g \in Injection(A, B)
  BY <1>1 DEF Injection, IsInjective
<1>3. g \in Surjection(A, B)
  BY <1>1 DEF Surjection
<1>4. g \in Bijection(A, B)
  BY <1>2, <1>3 DEF Bijection
<1>5. IsFiniteSet(A)
  BY FS_Subset
<1> QED BY <1>4, <1>5, FS_Bijection DEF ExistsBijection

\* Both feeds have answered since TfL's state became n.
Settled(n) ==
  /\ ~USE_MOCKS /\ network = n
  /\ statusData # Null /\ statusData = StatusAnswer[n]
  /\ disruptionData = DisruptionsAnswer[n]

LEMMA SettledShows ==
  ASSUME NEW n \in Networks, Settled(n)
  PROVE  Shows(n)
<1> DEFINE s == LineSummaries
           I == Served(n)
<1>1. s = LineStatusesToSummaries(LiveStatus(n))
  <2>1. statusData = LiveStatus(n) /\ statusData # Null
    BY DEF Settled, StatusAnswer
  <2>2. statusData \in {StatusAnswer[m] : m \in Networks} \cup {MockStatus}
    BY DEF Settled
  <2> QED BY <2>1, <2>2 DEF LineSummaries, Summaries
<1> HIDE DEF s, I
<1>2. IsFiniteSet(DOMAIN s) /\ Len(s) = Cardinality(DOMAIN s)
  BY <1>1, LinesOfAnswer
<1>3. PICK f \in Bijection(DOMAIN s, I) :
        \A k \in DOMAIN s :
          /\ s[k].code = Code(n[f[k]].id) /\ s[k].severity = Worst(n[f[k]])
          /\ s[k].status = SeverityToBucket(Worst(n[f[k]]))
  BY <1>1, LinesOfAnswer DEF I
<1>4. /\ \A k \in DOMAIN s : f[k] \in I
      /\ \A i \in I : \E k \in DOMAIN s : f[k] = i
  BY <1>3 DEF Bijection, Surjection
<1>5. Len(s) = Cardinality(I)
  <2>1. Cardinality(DOMAIN s) = Cardinality(I)
    BY <1>2, <1>3, FS_Bijection DEF ExistsBijection
  <2> QED BY <1>2, <2>1
<1>6. \A i \in I : \E k \in DOMAIN s :
        s[k].code = Code(n[i].id) /\ s[k].severity = Worst(n[i])
  BY <1>3, <1>4
<1>7. ASSUME NEW bucket \in StatusBucket
      PROVE  Counts[bucket] = Cardinality({i \in I : SeverityToBucket(Worst(n[i])) = bucket})
  <2> DEFINE A == {k \in DOMAIN s : s[k].status = bucket}
             B == {i \in I : SeverityToBucket(Worst(n[i])) = bucket}
  <2>1. Counts[bucket] = Cardinality(A)
    BY DEF Counts, SummarizeCounts, s
  <2>2. A \in SUBSET DOMAIN s /\ B \in SUBSET I
    OBVIOUS
  <2>3. \A k \in DOMAIN s : k \in A <=> f[k] \in B
    BY <1>3, <1>4
  <2> HIDE DEF A, B
  <2>4. Cardinality(A) = Cardinality(B)
    BY <1>2, <1>3, <2>2, <2>3, PartsCorrespond
  <2> QED BY <2>1, <2>4 DEF B
<1>8. disruptionData = DisruptionsAnswer[n]
  BY DEF Settled
<1> QED BY <1>5, <1>6, <1>7, <1>8 DEF Shows, Served, I, s

\* While TfL's state stays what both feeds have reported, whatever else
\* happens, the page shows it: each line once, under the worst of its statuses
\* and counted there.  What ShowsTfl leaves to fairness is that both report.
THEOREM SettledPagesShowTfl ==
  Spec => [][ \A n \in Networks : Settled(n) /\ network' = n => Settled(n)' /\ Shows(n)' ]_vars
<1> DEFINE Told == \A n \in Networks : Settled(n) => Shows(n)
           Stays == \A n \in Networks : Settled(n) /\ network' = n => Settled(n)' /\ Shows(n)'
<1>1. Told
  BY SettledShows
<1>2. ASSUME [Next]_vars, NEW n \in Networks, Settled(n), network' = n PROVE Settled(n)'
  <2>1. /\ ~USE_MOCKS' /\ statusData' \in {statusData, StatusAnswer[n]}
        /\ disruptionData' \in {disruptionData, DisruptionsAnswer[n]}
    BY <1>2 DEF Settled, Next, RunEffect, StatusArrives, DisruptionsArrive, Click, CloseDetail,
                Resize, TflChanges, vars, feeds
  <2>2. statusData' = StatusAnswer[n] /\ statusData' # Null
    BY <1>2, <2>1 DEF Settled
  <2>3. disruptionData' = DisruptionsAnswer[n]
    BY <1>2, <2>1 DEF Settled
  <2> QED BY <1>2, <2>1, <2>2, <2>3 DEF Settled
<1>3. [Next]_vars /\ Told' => Stays
  BY <1>2
<1> HIDE DEF Told, Stays
<1>4. [Next]_vars /\ Told' => [Stays]_vars
  BY <1>3
<1>5. Spec => [][Stays]_vars
  BY <1>1, <1>4, PTL DEF Spec
<1> QED BY <1>5 DEF Stays
=============================================================================
