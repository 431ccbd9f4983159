--------------------------- MODULE ListingProofs ---------------------------
(* Proofs about Listing, for any rows and any size of a page.               *)
(*                                                                          *)
(*   InductiveInvariant   stamps differ, and how far a walk has come        *)
(*   TypeCorrect          types, and no page is larger than it may be       *)
(*   PagesCover           `pages' counts the pages that have rows           *)
(*   RepeatsNeedInserts   without an insert no row is told twice            *)
(*   MissesNeedDeletes    without a deletion no row is left out             *)
(*                                                                          *)
(* The ranks of the live rows are the numbers below their count, each once; *)
(* a page is a stretch of ranks.  While nothing is inserted ranks only fall *)
(* and what a walk has told stays behind it; while nothing is deleted they  *)
(* only rise and what it has not told stays ahead of it.                    *)
EXTENDS Listing, FiniteSetTheorems, TLAPS

-----------------------------------------------------------------------------
(* Pages of numbers.                                                         *)

LEMMA Products ==
    /\ \A p, s \in Nat : p * s \in Nat
    /\ \A p \in Nat \ {0}, s \in Nat : p - 1 \in Nat /\ p * s = (p - 1) * s + s
OBVIOUS

LEMMA Monotone ==
    ASSUME NEW p \in Nat, NEW q \in Nat, NEW s \in Nat, p <= q
    PROVE  p * s <= q * s
<1>1. PICK d \in Nat : q = p + d
  <2>1. q - p \in Nat /\ q = p + (q - p)
    OBVIOUS
  <2>. QED
    BY <2>1
<1>2. q * s = p * s + d * s /\ d * s \in Nat /\ p * s \in Nat
  BY <1>1
<1>. QED
  BY <1>2

LEMMA Offsets ==
    ASSUME NEW p \in Nat \ {0}
    PROVE  /\ p * Size \in Nat /\ (p - 1) * Size \in Nat
           /\ p * Size = (p - 1) * Size + Size
           /\ ((p + 1) - 1) * Size = p * Size
<1>1. Size \in Nat /\ (p + 1) - 1 = p
  BY SizeAssumption
<1>. QED
  BY <1>1, Products

\* The ceiling of a quotient.
LEMMA Quotient ==
    ASSUME NEW n \in Nat
    PROVE  /\ Pages(n) \in Nat
           /\ Pages(n) * Size <= n + Size - 1
           /\ n + Size - 1 < Pages(n) * Size + Size
<1>1. \A a \in Nat, b \in Nat \ {0} :
          /\ a \div b \in Nat
          /\ (a \div b) * b <= a
          /\ a < (a \div b) * b + b
  OBVIOUS
<1>2. n + Size - 1 \in Nat /\ Size \in Nat \ {0}
  BY SizeAssumption
<1>. QED
  BY <1>1, <1>2 DEF Pages

\* A page has an offset below n exactly if it is one of n's pages.
LEMMA PagesBound ==
    ASSUME NEW n \in Nat, NEW p \in Nat \ {0}
    PROVE  p <= Pages(n) <=> (p - 1) * Size < n
<1>. DEFINE q == Pages(n)
<1>1. Size \in Nat \ {0} /\ q \in Nat /\ q * Size \in Nat
      /\ q * Size <= n + Size - 1 /\ n + Size - 1 < q * Size + Size
  BY Quotient, SizeAssumption, Products
<1>2. ASSUME p <= q PROVE (p - 1) * Size < n
  <2>1. p * Size <= q * Size
    BY <1>1, <1>2, Monotone
  <2>2. (p - 1) * Size \in Nat /\ p * Size = (p - 1) * Size + Size
    BY Offsets
  <2>. HIDE DEF q
  <2>3. \A a, b, c \in Nat, s \in Nat \ {0} :
            b = a + s /\ b <= c /\ c <= n + s - 1 => a < n
    OBVIOUS
  <2>. QED
    BY <1>1, <2>1, <2>2, <2>3
<1>3. ASSUME q < p PROVE n <= (p - 1) * Size
  <2>1. q <= p - 1 /\ p - 1 \in Nat
    BY <1>1, <1>3
  <2>2. q * Size <= (p - 1) * Size
    BY <1>1, <2>1, Monotone
  <2>3. (p - 1) * Size \in Nat
    BY Offsets
  <2>. HIDE DEF q
  <2>4. \A a, c \in Nat, s \in Nat \ {0} :
            n + s - 1 < c + s /\ c <= a => n <= a
    OBVIOUS
  <2>. QED
    BY <1>1, <2>2, <2>3, <2>4
<1>4. (p - 1) * Size \in Nat
  BY Offsets
<1>. HIDE DEF q
<1>5. q < p \/ p <= q
  BY <1>1
<1>6. \A a \in Nat : n <= a => ~(a < n)
  OBVIOUS
<1>7. ~(q < p /\ p <= q)
  BY <1>1
<1>. QED
  BY <1>2, <1>3, <1>4, <1>5, <1>6, <1>7 DEF q

-----------------------------------------------------------------------------
(* The invariant.                                                            *)

Begun == {r \in Rows : table[r].pc # "absent"}

\* Stamps are the numbers of the transactions in the order they began.
Stamps ==
    /\ table \in [Rows -> Row]
    /\ \A r \in Begun : table[r].created \in 1..Cardinality(Begun)
    /\ \A r, x \in Begun : r # x => table[r].created # table[x].created

\* How far a walk has come: what it told stays behind it while nothing is
\* inserted, what it did not tell stays ahead while nothing is deleted.
Progress ==
    reader.pc # "idle" =>
        /\ ~came => \A r \in seen \cap Live : Rank(r) < (reader.page - 1) * Size
        /\ ~went => \A r \in stayed \ seen : (reader.page - 1) * Size <= Rank(r)

Inductive ==
    /\ TypeOK
    /\ Stamps
    /\ Progress
    /\ RepeatsOnlyForInsert
    /\ PagesCoverRows
    /\ reader.pc = "select" /\ ~reader.moved => reader.total = Cardinality(Live)
    /\ answer.last => reader.pc = "idle"

-----------------------------------------------------------------------------
(* Ranks.                                                                    *)

LEMMA LiveFinite ==
    /\ IsFiniteSet(Live) /\ Live \subseteq Rows /\ Cardinality(Live) \in Nat
    /\ \A r : IsFiniteSet(Before(r)) /\ Before(r) \subseteq Live
              /\ Rank(r) \in Nat
<1>1. IsFiniteSet(Live) /\ Live \subseteq Rows
  BY FiniteAssumption, FS_Subset DEF Live
<1>2. ASSUME NEW r
      PROVE IsFiniteSet(Before(r)) /\ Before(r) \subseteq Live
  BY <1>1, FS_Subset DEF Before
<1>. QED
  BY <1>1, <1>2, FS_CardinalityType DEF Rank

\* A set that is larger by one element at least has more of them.
LEMMA LargerSet ==
    ASSUME NEW S, NEW T, NEW x \in T, IsFiniteSet(T), S \subseteq T, x \notin S
    PROVE  Cardinality(S) < Cardinality(T)
<1>1. IsFiniteSet(S) /\ Cardinality(S) <= Cardinality(T)
      /\ (Cardinality(S) = Cardinality(T) => S = T)
  BY FS_Subset
<1>2. Cardinality(S) \in Nat /\ Cardinality(T) \in Nat
  BY <1>1, FS_CardinalityType
<1>. QED
  BY <1>1, <1>2

LEMMA RankBelow ==
    ASSUME Stamps, NEW r \in Live PROVE Rank(r) < Cardinality(Live)
<1>1. table[r].created \in Nat
  BY DEF Stamps, Live, Row
<1>2. r \notin Before(r)
  BY <1>1 DEF Before
<1>. QED
  BY <1>2, LiveFinite, LargerSet DEF Rank

LEMMA RankDistinct ==
    ASSUME Stamps, NEW r \in Live, NEW x \in Live, r # x
    PROVE  Rank(r) # Rank(x)
<1>1. ASSUME NEW a \in Live, NEW b \in Live,
             table[a].created < table[b].created
      PROVE  Rank(b) < Rank(a)
  <2>1. \A y \in Live : table[y].created \in Nat
    BY DEF Stamps, Live, Row
  <2>2. b \in Before(a) /\ b \notin Before(b) /\ Before(b) \subseteq Before(a)
    BY <1>1, <2>1 DEF Before
  <2>. QED
    BY <2>2, LiveFinite, LargerSet DEF Rank
<1>2. r \in Begun /\ x \in Begun
  BY DEF Live, Begun
<1>3. table[r].created \in Nat /\ table[x].created \in Nat
      /\ table[r].created # table[x].created
  BY <1>2 DEF Stamps, Begun, Row
<1>4. Rank(r) \in Nat /\ Rank(x) \in Nat
  BY LiveFinite
<1>. QED
  BY <1>1, <1>3, <1>4

\* Every number below the count is somebody's rank.
LEMMA RankTaken ==
    ASSUME Stamps, NEW k \in Nat, k < Cardinality(Live)
    PROVE  \E r \in Live : Rank(r) = k
<1>. DEFINE n == Cardinality(Live)
            f == [r \in Live |-> Rank(r)]
<1>1. n \in Nat /\ IsFiniteSet(0..(n - 1)) /\ Cardinality(0..(n - 1)) = n
  <2>1. n \in Nat /\ 0 \in Int /\ n - 1 \in Int
    BY LiveFinite
  <2>. HIDE DEF n
  <2>2. (IF 0 > n - 1 THEN 0 ELSE (n - 1) - 0 + 1) = n
    BY <2>1
  <2>. QED
    BY <2>1, <2>2, FS_Interval
<1>2. \A r \in Live : Rank(r) \in 0..(n - 1)
  BY <1>1, RankBelow, LiveFinite
<1>3. f \in Injection(Live, 0..(n - 1))
  BY <1>2, RankDistinct DEF Injection, IsInjective
<1>4. f \in Surjection(Live, 0..(n - 1))
  BY <1>1, <1>3, FS_Injection
<1>5. k \in 0..(n - 1)
  BY <1>1
<1>. QED
  BY <1>4, <1>5 DEF Surjection

-----------------------------------------------------------------------------
(* A page.                                                                   *)

Stretch(p) == ((p - 1) * Size)..(p * Size - 1)

LEMMA StretchSize ==
    ASSUME NEW p \in Nat \ {0}
    PROVE  /\ IsFiniteSet(Stretch(p)) /\ Cardinality(Stretch(p)) = Size
           /\ \A k \in Nat : k \in Stretch(p) <=>
                  (p - 1) * Size <= k /\ k < p * Size
<1>1. \A a, b \in Nat, s \in Nat \ {0} : b = a + s =>
          /\ a \in Int /\ b - 1 \in Int
          /\ (IF a > b - 1 THEN 0 ELSE (b - 1) - a + 1) = s
          /\ \A k \in Nat : k \in a..(b - 1) <=> a <= k /\ k < b
  OBVIOUS
<1>. QED
  BY <1>1, Offsets, SizeAssumption, FS_Interval DEF Stretch

LEMMA PageSmall ==
    ASSUME Stamps, NEW p \in Nat \ {0}
    PROVE  /\ Page(p) \subseteq Live /\ IsFiniteSet(Page(p))
           /\ Cardinality(Page(p)) \in Nat
           /\ Cardinality(Page(p)) <= Size
<1>. DEFINE f == [r \in Page(p) |-> Rank(r)]
<1>1. Page(p) \subseteq Live
  BY DEF Page
<1>2. \A r \in Page(p) : Rank(r) \in Stretch(p)
  BY StretchSize, LiveFinite DEF Page
<1>3. f \in Injection(Page(p), Stretch(p))
  BY <1>1, <1>2, RankDistinct DEF Injection, IsInjective
<1>4. IsFiniteSet(Page(p)) /\ Cardinality(Page(p)) <= Cardinality(Stretch(p))
  BY <1>3, StretchSize, FS_Injection
<1>. QED
  BY <1>1, <1>4, StretchSize, FS_CardinalityType

\* A page with rows behind it is full.
LEMMA PageFull ==
    ASSUME Stamps, NEW p \in Nat \ {0}, NEW x \in Live, p * Size <= Rank(x)
    PROVE  Cardinality(Page(p)) >= Size
<1>. DEFINE f == [k \in Stretch(p) |-> CHOOSE r \in Live : Rank(r) = k]
<1>1. Rank(x) < Cardinality(Live) /\ Rank(x) \in Nat
      /\ Cardinality(Live) \in Nat /\ p * Size \in Nat
      /\ (p - 1) * Size \in Nat
  BY RankBelow, LiveFinite, Offsets
<1>2. ASSUME NEW k \in Stretch(p)
      PROVE  k \in Nat /\ f[k] \in Page(p) /\ Rank(f[k]) = k
  <2>1. k \in Nat /\ (p - 1) * Size <= k /\ k < p * Size
    BY <1>1, StretchSize DEF Stretch
  <2>2. k < Cardinality(Live)
    BY <1>1, <2>1
  <2>3. \E r \in Live : Rank(r) = k
    BY <2>1, <2>2, RankTaken
  <2>4. f[k] \in Live /\ Rank(f[k]) = k
    BY <2>3
  <2>. QED
    BY <2>1, <2>4 DEF Page
<1>. HIDE DEF f
<1>3. f \in Injection(Stretch(p), Page(p))
  <2>1. f \in [Stretch(p) -> Page(p)]
    <3>1. f = [k \in Stretch(p) |-> f[k]]
      BY DEF f
    <3>. QED
      BY <1>2, <3>1
  <2>. QED
    BY <1>2, <2>1 DEF Injection, IsInjective
<1>4. Cardinality(Stretch(p)) <= Cardinality(Page(p))
  BY <1>3, PageSmall, FS_Injection
<1>. QED
  BY <1>4, PageSmall, StretchSize, SizeAssumption

LEMMA ShortPage ==
    ASSUME Stamps, NEW p \in Nat \ {0}, Cardinality(Page(p)) < Size,
           NEW x \in Live
    PROVE  Rank(x) < p * Size
<1>1. Rank(x) \in Nat /\ p * Size \in Nat /\ Cardinality(Page(p)) \in Nat
      /\ Size \in Nat
  BY LiveFinite, Offsets, PageSmall, SizeAssumption
<1>2. p * Size <= Rank(x) => Cardinality(Page(p)) >= Size
  BY PageFull
<1>. QED
  BY <1>1, <1>2

LEMMA PageEmpty ==
    ASSUME Stamps, NEW p \in Nat \ {0}
    PROVE  Page(p) # {} <=> p <= Pages(Cardinality(Live))
<1>. DEFINE n == Cardinality(Live)
            low == (p - 1) * Size
<1>1. n \in Nat /\ low \in Nat /\ p * Size \in Nat /\ low < p * Size
  BY LiveFinite, Offsets, SizeAssumption
<1>2. ASSUME NEW r \in Page(p) PROVE low < n
  <2>1. r \in Live /\ low <= Rank(r)
    BY DEF Page
  <2>2. Rank(r) < n /\ Rank(r) \in Nat
    BY <2>1, RankBelow, LiveFinite
  <2>. QED
    BY <1>1, <2>1, <2>2
<1>3. ASSUME low < n PROVE Page(p) # {}
  <2>1. PICK r \in Live : Rank(r) = low
    BY <1>1, <1>3, RankTaken
  <2>. QED
    BY <1>1, <2>1 DEF Page
<1>4. p <= Pages(n) <=> low < n
  BY <1>1, PagesBound
<1>. QED
  BY <1>2, <1>3, <1>4

-----------------------------------------------------------------------------
(* The steps.                                                                *)

\* Transactions change ranks in one direction.
LEMMA RanksOf ==
    ASSUME NEW r, Before(r) \subseteq Before(r)', IsFiniteSet(Before(r)')
    PROVE  Rank(r) <= Rank(r)'
BY FS_Subset DEF Rank

LEMMA LiveFinitePrime ==
    /\ IsFiniteSet(Live') /\ Live' \subseteq Rows
    /\ \A r : IsFiniteSet(Before(r)') /\ Rank(r)' \in Nat
<1>1. IsFiniteSet(Live') /\ Live' \subseteq Rows
  BY FiniteAssumption, FS_Subset DEF Live
<1>2. ASSUME NEW r PROVE IsFiniteSet(Before(r)')
  <2>1. Before(r)' \subseteq Live'
    BY DEF Before
  <2>. QED
    BY <1>1, <2>1, FS_Subset
<1>. QED
  BY <1>1, <1>2, FS_CardinalityType DEF Rank

\* A transaction begins: it is no row yet.
LEMMA BeginInductive ==
    ASSUME Inductive, NEW r \in Rows, Begin(r) PROVE Inductive'
<1>. DEFINE n == Cardinality(Begun)
<1>1. n \in Nat /\ Begun' = Begun \cup {r} /\ r \notin Begun
      /\ Cardinality(Begun') = n + 1
  <2>1. IsFiniteSet(Begun) /\ n \in Nat
    BY FiniteAssumption, FS_Subset, FS_CardinalityType DEF Begun
  <2>2. Begun' = Begun \cup {r} /\ r \notin Begun
    BY DEF Begin, Begun, Inductive, Stamps
  <2>. QED
    BY <2>1, <2>2, FS_AddElement
<1>2. table' = [table EXCEPT ![r] = [pc |-> "writing", created |-> n + 1]]
      /\ table \in [Rows -> Row] /\ table[r].pc = "absent"
  BY DEF Begin, Begun, Inductive, Stamps
<1>. HIDE DEF n
<1>3. [pc |-> "writing", created |-> n + 1] \in Row
  BY <1>1 DEF Row
<1>4. Stamps'
  <2>1. table' \in [Rows -> Row]
    BY <1>2, <1>3
  <2>2. ASSUME NEW x \in Begun
        PROVE  table'[x] = table[x] /\ table[x].created \in 1..n
    BY <1>1, <1>2, <2>2 DEF Inductive, Stamps, Begun, n
  <2>3. table'[r].created = n + 1
    BY <1>2
  <2>4. ASSUME NEW x \in Begun' PROVE table'[x].created \in 1..(n + 1)
    BY <1>1, <2>2, <2>3
  <2>5. ASSUME NEW x \in Begun', NEW y \in Begun', x # y
        PROVE  table'[x].created # table'[y].created
    <3>1. CASE x \in Begun /\ y \in Begun
      BY <2>2, <2>5, <3>1 DEF Inductive, Stamps
    <3>2. CASE x = r \/ y = r
      <4>1. \A a \in 1..n : a # n + 1
        BY <1>1
      <4>. QED
        BY <1>1, <2>2, <2>3, <2>5, <3>2, <4>1
    <3>. QED
      BY <1>1, <3>1, <3>2
  <2>. QED
    BY <1>1, <2>1, <2>4, <2>5 DEF Stamps
<1>5. Live' = Live /\ \A x \in Live : table'[x] = table[x]
  BY <1>2 DEF Live
<1>6. \A x \in Live : Before(x)' = Before(x)
  BY <1>5 DEF Before
<1>7. \A x \in Live : Rank(x)' = Rank(x)
  BY <1>6 DEF Rank
<1>8. UNCHANGED <<reader, answer, seen, stayed, came, went>>
  BY DEF Begin
<1>9. TypeOK'
  BY <1>4, <1>5, <1>8 DEF Inductive, TypeOK, Stamps
<1>10. Progress'
  BY <1>5, <1>7, <1>8 DEF Inductive, TypeOK, Progress
<1>. QED
  BY <1>4, <1>5, <1>8, <1>9, <1>10
     DEF Inductive, RepeatsOnlyForInsert, PagesCoverRows

\* A commit moves the pages, in one direction.
LEMMA CommitInductive ==
    ASSUME Inductive, NEW r \in Rows, NEW pc \in {"live", "deleted"},
           table' = [table EXCEPT ![r].pc = pc], table[r].pc # "absent",
           reader' = [reader EXCEPT !.moved = TRUE],
           answer' = answer, seen' = seen,
           stayed' \subseteq stayed, stayed' \subseteq Live',
           came' \in BOOLEAN, went' \in BOOLEAN,
           came => came', went => went',
           came' \/ Live' \subseteq Live,
           went' \/ Live \subseteq Live'
    PROVE  Inductive'
<1>1. table \in [Rows -> Row] /\ reader \in Reader
  BY DEF Inductive, TypeOK
<1>2. table' \in [Rows -> Row]
      /\ \A x \in Rows : /\ table'[x].created = table[x].created
                         /\ table'[x].pc = "absent" <=> table[x].pc = "absent"
  BY <1>1 DEF Row
<1>3. Stamps'
  <2>1. Begun' = Begun /\ Begun \subseteq Rows
    BY <1>2 DEF Begun
  <2>. QED
    BY <1>2, <2>1 DEF Inductive, Stamps
<1>4. reader' \in Reader /\ reader'.pc = reader.pc
      /\ reader'.page = reader.page /\ reader'.moved
  BY <1>1 DEF Reader
<1>5. TypeOK'
  BY <1>2, <1>4 DEF Inductive, TypeOK
<1>6. reader.page \in Nat \ {0} /\ (reader.page - 1) * Size \in Nat
  BY <1>1, Offsets DEF Reader
<1>7. Progress'
  <2>. DEFINE low == (reader.page - 1) * Size
  <2>1. ASSUME reader.pc # "idle", ~came', NEW x \in seen \cap Live'
        PROVE  Rank(x)' < low
    <3>1. Live' \subseteq Live /\ ~came
      BY <2>1
    <3>2. Rank(x) < low
      BY <2>1, <3>1 DEF Inductive, Progress
    <3>3. Before(x)' \subseteq Before(x)
      BY <1>2, <2>1, <3>1, LiveFinite, LiveFinitePrime DEF Before
    <3>4. Rank(x)' <= Rank(x)
      BY <3>3, LiveFinite, FS_Subset DEF Rank
    <3>5. Rank(x) \in Nat /\ Rank(x)' \in Nat /\ low \in Nat
      BY <1>6, LiveFinite, LiveFinitePrime
    <3>. HIDE DEF low
    <3>. QED
      BY <3>2, <3>4, <3>5
  <2>2. ASSUME reader.pc # "idle", ~went', NEW x \in stayed' \ seen
        PROVE  low <= Rank(x)'
    <3>1. Live \subseteq Live' /\ ~went
      BY <2>2
    <3>2. low <= Rank(x) /\ x \in Rows
      BY <2>2, <3>1, LiveFinitePrime DEF Inductive, Progress
    <3>3. Before(x) \subseteq Before(x)'
      BY <1>2, <3>1, <3>2, LiveFinite, LiveFinitePrime DEF Before
    <3>4. Rank(x) <= Rank(x)'
      BY <3>3, LiveFinitePrime, RanksOf
    <3>5. Rank(x) \in Nat /\ Rank(x)' \in Nat /\ low \in Nat
      BY <1>6, LiveFinite, LiveFinitePrime
    <3>. HIDE DEF low
    <3>. QED
      BY <3>2, <3>4, <3>5
  <2>. QED
    BY <1>4, <2>1, <2>2 DEF Progress
<1>. QED
  BY <1>3, <1>4, <1>5, <1>7
     DEF Inductive, RepeatsOnlyForInsert, PagesCoverRows

LEMMA InsertInductive ==
    ASSUME Inductive, NEW r \in Rows, Insert(r) PROVE Inductive'
<1>1. Live' = Live \cup {r}
  BY DEF Insert, Live, Inductive, TypeOK, Row
<1>. QED
  BY <1>1, CommitInductive DEF Insert, Inductive, TypeOK

LEMMA DeleteInductive ==
    ASSUME Inductive, NEW r \in Rows, Delete(r) PROVE Inductive'
<1>1. Live' = Live \ {r}
  BY DEF Delete, Live, Inductive, TypeOK, Row
<1>. QED
  BY <1>1, CommitInductive DEF Delete, Inductive, TypeOK

\* Steps of the client leave the table alone, and ranks with it.
LEMMA SameTable ==
    ASSUME UNCHANGED table
    PROVE  /\ Live' = Live /\ (Stamps => Stamps')
           /\ \A x : Rank(x)' = Rank(x)
BY DEF Live, Stamps, Begun, Rank, Before

LEMMA WalkInductive ==
    ASSUME Inductive, Walk PROVE Inductive'
<1>1. reader' = [pc |-> "count", page |-> 1, total |-> 0, moved |-> FALSE]
      /\ answer' = NoAnswer /\ seen' = {} /\ stayed' = Live
      /\ came' = FALSE /\ went' = FALSE /\ table' = table
  BY DEF Walk, Resting
<1>2. TypeOK'
  <2>1. NoAnswer \in Answer /\ NoAnswer.data = {} /\ Cardinality({}) <= Size
    BY FS_EmptySet, SizeAssumption DEF NoAnswer, Answer
  <2>2. reader' \in Reader
    BY <1>1 DEF Reader
  <2>. QED
    BY <1>1, <2>1, <2>2, SameTable DEF Inductive, TypeOK
<1>3. Progress'
  <2>1. (1 - 1) * Size = 0
    BY SizeAssumption
  <2>2. \A x : 0 <= Rank(x)
    BY LiveFinite
  <2>. QED
    BY <1>1, <2>1, <2>2, SameTable DEF Progress
<1>4. RepeatsOnlyForInsert' /\ PagesCoverRows' /\ ~answer'.last
  BY <1>1 DEF RepeatsOnlyForInsert, PagesCoverRows, NoAnswer
<1>. QED
  BY <1>1, <1>2, <1>3, <1>4, SameTable DEF Inductive

LEMMA CountInductive ==
    ASSUME Inductive, Count PROVE Inductive'
<1>1. reader.pc = "count" /\ reader \in Reader
      /\ UNCHANGED <<table, answer, seen, stayed, came, went>>
  BY DEF Count, Inductive, TypeOK
<1>2. reader' = [pc |-> "select", page |-> reader.page,
                 total |-> Cardinality(Live), moved |-> FALSE]
  BY <1>1 DEF Count, Reader
<1>3. reader' \in Reader
  BY <1>1, <1>2, LiveFinite DEF Reader
<1>4. TypeOK'
  BY <1>1, <1>3, SameTable DEF Inductive, TypeOK
<1>5. Progress'
  BY <1>1, <1>2, SameTable DEF Inductive, Progress
<1>. QED
  BY <1>1, <1>2, <1>4, <1>5, SameTable
     DEF Inductive, RepeatsOnlyForInsert, PagesCoverRows

LEMMA StopInductive ==
    ASSUME Inductive, Stop PROVE Inductive'
<1>1. reader' = [pc |-> "idle", page |-> 1, total |-> 0, moved |-> FALSE]
      /\ answer' = NoAnswer /\ UNCHANGED <<table, seen, stayed, came, went>>
  BY DEF Stop, Resting
<1>2. TypeOK'
  <2>1. NoAnswer \in Answer /\ NoAnswer.data = {} /\ Cardinality({}) <= Size
    BY FS_EmptySet, SizeAssumption DEF NoAnswer, Answer
  <2>2. reader' \in Reader
    BY <1>1 DEF Reader
  <2>. QED
    BY <1>1, <2>1, <2>2, SameTable DEF Inductive, TypeOK
<1>3. Progress'
  BY <1>1 DEF Progress
<1>4. RepeatsOnlyForInsert' /\ PagesCoverRows' /\ ~answer'.last
  BY <1>1 DEF RepeatsOnlyForInsert, PagesCoverRows, NoAnswer
<1>. QED
  BY <1>1, <1>2, <1>3, <1>4, SameTable DEF Inductive

\* What is behind the walk and ahead of it when a page is told.
LEMMA SelectProgress ==
    ASSUME Inductive, reader.pc = "select"
    PROVE  LET p == reader.page
               told == seen \cup Page(p) IN
           /\ p \in Nat \ {0}
           /\ ~came => /\ Page(p) \cap seen = {}
                       /\ \A r \in told \cap Live : Rank(r) < p * Size
           /\ ~went => \A r \in stayed \ told : p * Size <= Rank(r)
           /\ ~went /\ Cardinality(Page(p)) < Size => stayed \subseteq told
<1>. DEFINE p == reader.page
            low == (p - 1) * Size
            high == p * Size
<1>1. p \in Nat \ {0}
  BY DEF Inductive, TypeOK, Reader
<1>2. low \in Nat /\ high \in Nat /\ low <= high
  BY <1>1, Offsets, SizeAssumption
<1>3. \A r \in Page(p) : r \in Live /\ low <= Rank(r) /\ Rank(r) < high
  BY DEF Page
<1>4. \A r \in Live : low <= Rank(r) /\ Rank(r) < high => r \in Page(p)
  BY DEF Page
<1>5. stayed \subseteq Live /\ Stamps
  BY DEF Inductive, TypeOK
<1>6. ~came => \A r \in seen \cap Live : Rank(r) < low
  BY DEF Inductive, Progress
<1>7. ~went => \A r \in stayed \ seen : low <= Rank(r)
  BY DEF Inductive, Progress
<1>8. \A r : Rank(r) \in Nat
  BY LiveFinite
<1>9. Cardinality(Page(p)) < Size => \A r \in Live : Rank(r) < high
  BY <1>1, <1>5, ShortPage
<1>. HIDE DEF p, low, high
<1>10. ~came => Page(p) \cap seen = {}
  BY <1>2, <1>3, <1>6, <1>8
<1>11. ~came => \A r \in (seen \cup Page(p)) \cap Live : Rank(r) < high
  BY <1>2, <1>3, <1>6, <1>8
<1>12. ~went => \A r \in stayed \ (seen \cup Page(p)) : high <= Rank(r)
  BY <1>2, <1>4, <1>5, <1>7, <1>8
<1>13. ~went /\ Cardinality(Page(p)) < Size =>
           stayed \subseteq seen \cup Page(p)
  BY <1>2, <1>5, <1>8, <1>9, <1>12
<1>. QED
  BY <1>1, <1>10, <1>11, <1>12, <1>13 DEF p, high

LEMMA SelectInductive ==
    ASSUME Inductive, Select PROVE Inductive'
<1>. DEFINE p == reader.page
            data == Page(p)
            last == Cardinality(data) < Size
<1>1. /\ reader.pc = "select" /\ reader \in Reader
      /\ answer' = [data |-> data, page |-> p, pages |-> Pages(reader.total),
                    still |-> ~reader.moved, twice |-> data \cap seen # {},
                    last |-> last]
      /\ seen' = seen \cup data
      /\ reader' = IF last THEN Resting
                   ELSE [reader EXCEPT !.pc = "count", !.page = p + 1]
      /\ UNCHANGED <<table, stayed, came, went>>
  BY DEF Select, Inductive, TypeOK
<1>2. Stamps /\ TypeOK
  BY DEF Inductive
<1>3. p \in Nat \ {0} /\ reader.total \in Nat /\ reader.moved \in BOOLEAN
  BY <1>1 DEF Reader
<1>4. data \subseteq Live /\ Cardinality(data) <= Size
  BY <1>2, <1>3, PageSmall
<1>5. ~reader.moved => (data # {} <=> p <= Pages(reader.total))
  BY <1>1, <1>2, <1>3, PageEmpty DEF Inductive
<1>6. Pages(reader.total) \in Nat
  BY <1>3, Quotient
<1>7. /\ ~came => data \cap seen = {}
      /\ ~came => \A r \in (seen \cup data) \cap Live : Rank(r) < p * Size
      /\ ~went => \A r \in stayed \ (seen \cup data) : p * Size <= Rank(r)
  BY <1>1, SelectProgress
<1>8. ((p + 1) - 1) * Size = p * Size
  BY <1>3, Offsets
<1>9. reader' \in Reader /\ (last => reader'.pc = "idle")
      /\ (reader'.pc # "idle" => reader'.page = p + 1)
      /\ reader'.pc # "select"
  <2>1. CASE last
    BY <1>1, <2>1 DEF Resting, Reader
  <2>2. CASE ~last
    <3>1. reader' = [pc |-> "count", page |-> p + 1, total |-> reader.total,
                     moved |-> reader.moved]
      BY <1>1, <2>2 DEF Reader
    <3>2. p + 1 \in Nat \ {0}
      BY <1>3
    <3>. HIDE DEF p
    <3>. QED
      BY <1>3, <2>2, <3>1, <3>2 DEF Reader
  <2>. QED
    BY <2>1, <2>2
<1>. HIDE DEF data, p
<1>10. answer' \in Answer
  BY <1>1, <1>3, <1>4, <1>6, LiveFinite DEF Answer
<1>11. TypeOK'
  BY <1>1, <1>2, <1>4, <1>9, <1>10, SameTable, LiveFinite DEF TypeOK
<1>12. Progress'
  BY <1>1, <1>7, <1>8, <1>9, SameTable DEF Progress
<1>13. RepeatsOnlyForInsert' /\ PagesCoverRows'
  BY <1>1, <1>5, <1>7 DEF RepeatsOnlyForInsert, PagesCoverRows
<1>. QED
  BY <1>1, <1>2, <1>9, <1>11, <1>12, <1>13, SameTable DEF Inductive

-----------------------------------------------------------------------------
(* The theorems.                                                             *)

LEMMA InductiveInit == Init => Inductive
<1>. SUFFICES ASSUME Init PROVE Inductive
  OBVIOUS
<1>1. Live = {} /\ Begun = {}
  BY DEF Init, Live, Begun
<1>2. NoAnswer \in Answer /\ NoAnswer.data = {} /\ Cardinality({}) <= Size
  BY FS_EmptySet, SizeAssumption DEF NoAnswer, Answer
<1>3. Resting \in Reader /\ Resting.pc = "idle"
  BY DEF Resting, Reader
<1>4. table \in [Rows -> Row]
  BY DEF Init, Row
<1>5. TypeOK
  BY <1>1, <1>2, <1>3, <1>4 DEF Init, TypeOK
<1>. QED
  BY <1>1, <1>3, <1>4, <1>5
     DEF Init, Inductive, Stamps, Progress, RepeatsOnlyForInsert,
         PagesCoverRows, NoAnswer

LEMMA InductiveStep == Inductive /\ [Next]_vars => Inductive'
<1>1. Inductive /\ UNCHANGED vars => Inductive'
  BY DEF vars, Inductive, TypeOK, Stamps, Begun, Progress, Live, Rank, Before,
     RepeatsOnlyForInsert, PagesCoverRows
<1>. QED
  BY <1>1, BeginInductive, InsertInductive, DeleteInductive, WalkInductive,
     CountInductive, SelectInductive, StopInductive DEF Next

\* In every reachable state stamps differ and a walk is where it should be.
THEOREM InductiveInvariant == Spec => []Inductive
<1>. QED
  BY InductiveInit, InductiveStep, PTL DEF Spec

\* crud/base.py 64-117: types, and no page has more rows than were asked for.
THEOREM TypeCorrect == Spec => []TypeOK
<1>1. Inductive => TypeOK
  BY DEF Inductive
<1>. QED
  BY <1>1, InductiveInvariant, PTL

\* schemas/base.py 49-53: when nothing is committed between count and page,
\* `pages' is the last page that has rows, for every size and number of rows.
THEOREM PagesCover == Spec => []PagesCoverRows
<1>1. Inductive => PagesCoverRows
  BY DEF Inductive
<1>. QED
  BY <1>1, InductiveInvariant, PTL

\* crud/base.py 64-117: a walk during which nothing is inserted tells no row
\* twice, whatever is deleted.
THEOREM RepeatsNeedInserts == Spec => []RepeatsOnlyForInsert
<1>1. Inductive => RepeatsOnlyForInsert
  BY DEF Inductive
<1>. QED
  BY <1>1, InductiveInvariant, PTL

\* crud/base.py 64-117: a finished walk during which nothing was deleted has
\* told every row that was there all the time, whatever was inserted.
THEOREM MissesNeedDeletes == Spec => MissesOnlyForDelete
<1>1. ASSUME Inductive, [Next]_vars, reader.pc = "select",
             answer'.last, ~went, ~UNCHANGED vars
      PROVE  stayed \subseteq seen'
  <2>1. CASE Select
    BY <1>1, <2>1, SelectProgress DEF Select
  <2>2. ASSUME NEW r \in Rows, Begin(r) \/ Insert(r) \/ Delete(r)
        PROVE  stayed \subseteq seen'
    <3>1. answer' = answer
      BY <2>2 DEF Begin, Insert, Delete
    <3>. QED
      BY <1>1, <3>1 DEF Inductive
  <2>3. ~Walk /\ ~Count /\ ~Stop
    BY <1>1 DEF Walk, Count, Stop
  <2>. QED
    BY <1>1, <2>1, <2>2, <2>3 DEF Next
<1>. QED
  BY <1>1, InductiveInvariant, PTL DEF Spec, MissesOnlyForDelete

=============================================================================
