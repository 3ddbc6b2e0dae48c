---------------------------- MODULE ListingProofs ----------------------------
(***************************************************************************)
(* Theorems about Listing for any orders, products and page sizes.  The    *)
(* place of a row in every enumeration that Sorted allows is the number of *)
(* rows before it, unless it is tied with another (PlaceOf): in a list     *)
(* that only grows that number never falls, which is why a walk misses     *)
(* nothing, and a row is shown again only after a push.                    *)
(***************************************************************************)
EXTENDS Listing, FunctionTheorems, FiniteSetTheorems, SequenceTheorems, TLAPS

-----------------------------------------------------------------------------
(* What the bounds of ValidateFilters are worth: the offsets they let      *)
(* through are beyond the integers of TLC, so that no run can state it.    *)

MaxInt32 == 2147483647

LEMMA ProductBounded ==
  ASSUME NEW m \in Nat, NEW n \in Nat, NEW x \in 0 .. m, NEW y \in 0 .. n
  PROVE  x * y \in 0 .. m * n
<1>1. x * y \in Nat /\ m * y \in Nat /\ m * n \in Nat
  OBVIOUS
<1>2. x * y <= m * y
  OBVIOUS
<1>3. m * y <= m * n
  OBVIOUS
<1>. QED
  BY <1>1, <1>2, <1>3

(* internal/data/filters.go computes the offset in int and the queries     *)
(* take it as int32: no page and page size that ValidateFilters accepts    *)
(* has an offset that the narrowing changes, nor a last row beyond it.     *)
THEOREM OffsetFits ==
  ASSUME NEW pg \in Int, NEW sz \in Int, ValidFilters(pg, sz)
  PROVE  /\ 0 <= Offset(pg, sz)
         /\ Offset(pg, sz) + Limit(sz) <= MaxInt32
<1>1. PICK m \in Nat : m = 9999999
  BY SMT
<1>2. pg - 1 \in 0 .. m /\ sz \in 0 .. 100
  <2>1. pg > 0 /\ pg - 1 <= 9999999 /\ sz > 0 /\ sz <= 100
    BY SMT DEF ValidFilters
  <2>2. pg - 1 \in Int /\ pg - 1 >= 0 /\ pg - 1 <= m
    BY <1>1, <2>1, SMT
  <2>3. sz \in 0 .. 100
    BY <2>1, SMT
  <2>. QED
    BY <2>2, <2>3, SMT
<1>3. (pg - 1) * sz \in 0 .. m * 100
  BY <1>2, ProductBounded, SMT
<1>4. m * 100 = 999999900
  BY <1>1, SMT
<1>. QED
  BY <1>2, <1>3, <1>4, SMT DEF Offset, Limit, MaxInt32
-----------------------------------------------------------------------------
(* The inductive invariant.                                                *)

ForProducts == query.of = "products"
Pages == UNION {[E -> SUBSET Nat] : E \in SUBSET Entries}

TablesInv ==
  /\ IsFiniteSet(Stored) /\ IsFiniteSet(created)

(* The rows of base are still rows unless an order left the list; what was *)
(* shown of an order are items of it.                                      *)
WalkInv ==
  /\ responses \in Seq(Pages)
  /\ phase = "start" => page = 1
  /\ phase \in {"start", "invalid"} => base = {} /\ responses = << >>
  /\ phase \in {"walking", "done", "notfound"} => size > 0
  /\ \A r \in base : IF ForProducts THEN r \in created \X {0}
                     ELSE r[1] \in Stored /\ r[2] \in LinesOf(r[1])
  /\ ~ left /\ ~ ForProducts => \A r \in base : r[1] \in Selected
  /\ pushed = 0 => ~ left
  /\ ~ ForProducts =>
       \A k \in DOMAIN responses : \A o \in DOMAIN responses[k] : responses[k][o] \subseteq LinesOf(o)
  /\ phase \in {"walking", "done", "notfound"} /\ pushed = 0 =>
       base = {r \in Rows : ForProducts \/ r[2] # 0}

(* How many rows come before r, which is its place unless it is tied.      *)
Before(r) == {s \in Rows : Precedes(s, r)}
Passed(r) == Cardinality(Before(r)) < Offset(page, size)

GrowsOnly == ~ left

(* A row that is not yet shown is still to come, and one that is to come   *)
(* was shown no more often than it was pushed on.                          *)
PlaceInv ==
  \A r \in base : ~ Tied(r) =>
    /\ phase = "walking" /\ GrowsOnly => TimesShown(r) > 0 \/ ~ Passed(r)
    /\ phase = "done" /\ GrowsOnly => TimesShown(r) > 0
    /\ TimesShown(r) <= 1 + pushed
    /\ phase = "walking" /\ r \in Rows /\ ~ Passed(r) => TimesShown(r) <= pushed

IInv == TypeOK /\ TablesInv /\ WalkInv /\ PlaceInv
-----------------------------------------------------------------------------
(* Sets and enumerations.                                                  *)

Elements(s) == {s[i] : i \in 1 .. Len(s)}

LEMMA UpToFinite ==
  ASSUME NEW n \in Nat PROVE IsFiniteSet(1 .. n) /\ Cardinality(1 .. n) = n
  BY FS_Interval

(* As many values as places at most.                                       *)
LEMMA ElementsFinite ==
  ASSUME NEW s, NEW n \in Nat, Len(s) = n
  PROVE  IsFiniteSet(Elements(s)) /\ Cardinality(Elements(s)) \in Nat
         /\ Cardinality(Elements(s)) <= n
<1>. DEFINE f == [i \in 1 .. n |-> s[i]]
<1>1. f \in Surjection(1 .. n, Elements(s))
  BY DEF Surjection, Elements
<1>. QED
  BY <1>1, UpToFinite, FS_Surjection, FS_CardinalityType

LEMMA UnionOfDisjoint ==
  ASSUME NEW S, NEW T, IsFiniteSet(S), IsFiniteSet(T), S \cap T = {}
  PROVE  /\ IsFiniteSet(S \cup T)
         /\ Cardinality(S \cup T) = Cardinality(S) + Cardinality(T)
<1>1. Cardinality(S \cap T) = 0
  BY FS_EmptySet
<1>. QED
  BY <1>1, FS_Union, FS_CardinalityType

(* An enumeration of a finite set without repetitions reaches all of it.   *)
LEMMA SetToSeqsAll ==
  ASSUME NEW S, IsFiniteSet(S), NEW s \in SetToSeqs(S)
  PROVE  /\ s \in Seq(S) /\ Len(s) = Cardinality(S) /\ Elements(s) = S
         /\ \A i, j \in 1 .. Len(s) : i # j => s[i] # s[j]
<1>. DEFINE D == 1 .. Cardinality(S)
<1>1. Cardinality(S) \in Nat /\ IsFiniteSet(D) /\ Cardinality(D) = Cardinality(S)
  BY FS_CardinalityType, FS_Interval
<1>2. s \in [D -> S] /\ \A i, j \in D : i # j => s[i] # s[j]
  BY DEF SetToSeqs
<1>3. s \in Injection(D, S)
  BY <1>2 DEF Injection, IsInjective
<1>4. s \in Surjection(D, S)
  <2>. HIDE DEF D
  <2>. QED
    BY <1>1, <1>3, FS_Injection
<1>5. \A x \in S : \E i \in D : s[i] = x
  BY <1>4 DEF Surjection
<1>6. s \in Seq(S) /\ Len(s) = Cardinality(S)
  BY <1>1, <1>2
<1>. QED
  BY <1>2, <1>5, <1>6 DEF Elements

-----------------------------------------------------------------------------
(* The rows of a list.                                                     *)

LEMMA ItemsAreStored ==
  ASSUME TypeOK, NEW o \in Stored
  PROVE  LinesOf(o) \subseteq 1 .. Len(lines) /\ Len(lines) \in Nat /\ LinesOf(o) \subseteq Nat \ {0}
<1>1. lines \in Seq(Stored) /\ Len(lines) \in Nat /\ DOMAIN lines = 1 .. Len(lines)
  BY DEF TypeOK
<1>. QED
  BY <1>1 DEF LinesOf

(* A row is an order, or a product, with an item of it or with none.       *)
LEMMA RowShape ==
  ASSUME TypeOK, NEW r \in Rows
  PROVE  /\ r \in Row /\ r = <<r[1], r[2]>> /\ r[2] \in 0 .. Len(lines) /\ Len(lines) \in Nat
         /\ ForProducts => r[1] \in created /\ r[2] = 0
         /\ ~ ForProducts =>
              /\ r[1] \in Selected /\ r[1] \in Stored
              /\ r[2] \in LinesOf(r[1]) \/ (r[2] = 0 /\ LinesOf(r[1]) = {})
<1>0. Len(lines) \in Nat
  BY DEF TypeOK
<1>1. CASE ForProducts
  <2>1. r \in created \X {0}
    BY <1>1 DEF Rows, ProductRows, ForProducts
  <2>. QED
    BY <1>0, <1>1, <2>1 DEF Row, Entries, TypeOK
<1>2. CASE ~ ForProducts
  <2>1. PICK o \in Selected : r \in OrderRows(o)
    BY <1>2 DEF Rows, ForProducts
  <2>2. o \in Stored /\ LinesOf(o) \subseteq 1 .. Len(lines)
    BY <2>1, ItemsAreStored DEF Selected
  <2>3. \/ r = <<o, 0>> /\ LinesOf(o) = {}
        \/ r \in {o} \X LinesOf(o)
    BY <2>1 DEF OrderRows
  <2>4. r = <<o, r[2]>> /\ (r[2] \in LinesOf(o) \/ (r[2] = 0 /\ LinesOf(o) = {}))
    BY <2>3
  <2>5. r[1] = o /\ r[2] \in 0 .. Len(lines)
    BY <1>0, <2>2, <2>4
  <2>6. o \in Entries
    BY <2>2 DEF Entries, TypeOK
  <2>. QED
    BY <1>0, <1>2, <2>1, <2>2, <2>4, <2>5, <2>6 DEF Row
<1>. QED
  BY <1>1, <1>2

LEMMA RowOfItem ==
  ASSUME ~ ForProducts, NEW o \in Selected
  PROVE  /\ \A n \in LinesOf(o) : <<o, n>> \in Rows
         /\ LinesOf(o) = {} => <<o, 0>> \in Rows
<1>1. OrderRows(o) \subseteq Rows
  BY DEF Rows, ForProducts
<1>2. \A n \in LinesOf(o) : <<o, n>> \in OrderRows(o)
  BY DEF OrderRows
<1>3. LinesOf(o) = {} => <<o, 0>> \in OrderRows(o)
  BY DEF OrderRows
<1>. QED
  BY <1>1, <1>2, <1>3

LEMMA RowsFinite ==
  ASSUME TypeOK, TablesInv PROVE IsFiniteSet(Rows) /\ Cardinality(Rows) \in Nat
<1>. DEFINE n == Len(lines)
            E == Stored \cup created
<1>1. n \in Nat /\ IsFiniteSet(0 .. n) /\ IsFiniteSet(E)
  <2>1. n \in Nat
    BY DEF TypeOK
  <2>2. IsFiniteSet(0 .. n)
    BY <2>1, FS_Interval
  <2>3. IsFiniteSet(E)
    BY FS_Union DEF TablesInv
  <2>. QED
    BY <2>1, <2>2, <2>3
<1>2. Rows \subseteq E \X (0 .. n)
  <2>1. ASSUME NEW r \in Rows PROVE r = <<r[1], r[2]>> /\ r[1] \in E /\ r[2] \in 0 .. n
    BY RowShape
  <2>. HIDE DEF E
  <2>. QED
    BY <2>1
<1>3. IsFiniteSet(E \X (0 .. n))
  BY <1>1, FS_Product
<1>4. IsFiniteSet(Rows)
  <2>. HIDE DEF E, n
  <2>. QED
    BY <1>2, <1>3, FS_Subset
<1>. QED
  BY <1>4, FS_CardinalityType

LEMMA SortedRows ==
  ASSUME TypeOK, TablesInv, NEW rows \in Sorted
  PROVE  /\ rows \in Seq(Rows) /\ Len(rows) \in Nat /\ Elements(rows) = Rows
         /\ \A i \in 1 .. Len(rows) : rows[i] \in Rows
         /\ \A i, j \in 1 .. Len(rows) : i # j => rows[i] # rows[j]
         /\ \A i, j \in 1 .. Len(rows) : i < j => ~ Precedes(rows[j], rows[i])
<1>1. rows \in SetToSeqs(Rows)
      /\ \A i, j \in DOMAIN rows : i < j => ~ Precedes(rows[j], rows[i])
  BY DEF Sorted
<1>2. /\ rows \in Seq(Rows) /\ Elements(rows) = Rows
      /\ \A i, j \in 1 .. Len(rows) : i # j => rows[i] # rows[j]
  BY <1>1, RowsFinite, SetToSeqsAll
<1>3. Len(rows) \in Nat /\ DOMAIN rows = 1 .. Len(rows)
  BY <1>2
<1>. QED
  BY <1>1, <1>2, <1>3

(* A row that is not tied has as many rows before it in the list as there  *)
(* are rows that precede it.                                               *)
LEMMA PlaceOf ==
  ASSUME TypeOK, TablesInv, NEW rows \in Sorted, NEW i \in 1 .. Len(rows), ~ Tied(rows[i])
  PROVE  Cardinality(Before(rows[i])) = i - 1
<1>. DEFINE r == rows[i]
            m == i - 1
            f == [j \in 1 .. m |-> rows[j]]
<1>1. /\ Len(rows) \in Nat /\ Elements(rows) = Rows /\ r \in Rows
      /\ \A j \in 1 .. Len(rows) : rows[j] \in Rows
      /\ \A j, k \in 1 .. Len(rows) : j # k => rows[j] # rows[k]
      /\ \A j, k \in 1 .. Len(rows) : j < k => ~ Precedes(rows[k], rows[j])
  BY SortedRows
<1>2. \A s \in Rows \ {r} : Precedes(r, s) \/ Precedes(s, r)
  BY DEF Tied
<1>3. ~ Precedes(r, r)
  <2>1. CASE ForProducts
    <3>1. NameOf[r[1]] \in Nat
      BY <1>1, <2>1, RowShape, ListingAssumption DEF TypeOK
    <3>. QED
      BY <2>1, <3>1 DEF Precedes, ForProducts
  <2>2. CASE ~ ForProducts
    <3>1. r[2] \in Nat /\ r[1] \in Stored /\ at[r[1]] \in Nat
      BY <1>1, <2>2, RowShape, ListingAssumption DEF TypeOK
    <3>. QED
      BY <2>2, <3>1 DEF Precedes, ForProducts
  <2>. QED
    BY <2>1, <2>2
<1>4. m \in Nat /\ m < Len(rows)
  BY <1>1
<1>5. ASSUME NEW s \in Before(r) PROVE \E j \in 1 .. m : rows[j] = s
  <2>1. s \in Rows /\ Precedes(s, r)
    BY DEF Before
  <2>2. PICK j \in 1 .. Len(rows) : rows[j] = s
    BY <1>1, <2>1 DEF Elements
  <2>3. j # i /\ ~ i < j
    BY <1>1, <1>3, <2>1, <2>2
  <2>. QED
    BY <1>1, <2>2, <2>3
<1>6. ASSUME NEW j \in 1 .. m PROVE rows[j] \in Before(r)
  <2>1. j \in 1 .. Len(rows) /\ j < i
    BY <1>1
  <2>2. rows[j] \in Rows \ {r} /\ ~ Precedes(r, rows[j])
    BY <1>1, <2>1
  <2>. QED
    BY <1>2, <2>2 DEF Before
<1>. HIDE DEF m
<1>7. f \in Surjection(1 .. m, Before(r))
  BY <1>5, <1>6 DEF Surjection
<1>8. f \in Injection(1 .. m, Before(r))
  <2>1. \A j, k \in 1 .. m : f[j] = f[k] => j = k
    BY <1>1, <1>4
  <2>2. f \in [1 .. m -> Before(r)]
    BY <1>6
  <2>. QED
    BY <2>1, <2>2 DEF Injection, IsInjective
<1>9. IsFiniteSet(1 .. m) /\ Cardinality(1 .. m) = m
  BY <1>4, UpToFinite
<1>10. Cardinality(Before(r)) = m
  <2>. HIDE DEF f, r
  <2>. QED
    BY <1>7, <1>8, <1>9, FS_Surjection
<1>. QED
  BY <1>10 DEF m

-----------------------------------------------------------------------------
(* The rows of a page.                                                     *)

LEMMA OffsetSteps ==
  ASSUME NEW pg \in Nat \ {0}, NEW sz \in Nat
  PROVE  /\ Offset(pg, sz) \in Nat /\ Offset(1, sz) = 0
         /\ Offset(pg + 1, sz) = Offset(pg, sz) + sz
<1>1. PICK k \in Nat : pg = k + 1
  <2>1. pg - 1 \in Nat /\ pg = (pg - 1) + 1
    OBVIOUS
  <2>. QED
    BY <2>1
<1>2. k * sz \in Nat /\ (k + 1) * sz = k * sz + sz /\ 0 * sz = 0
  OBVIOUS
<1>3. pg - 1 = k /\ pg + 1 - 1 = k + 1
  BY <1>1
<1>. QED
  BY <1>2, <1>3 DEF Offset

(* A page that is not before the last one reaches the last row.            *)
LEMMA LastPageReaches ==
  ASSUME NEW n \in Nat, NEW sz \in Nat \ {0}, NEW pg \in Nat \ {0}, pg >= LastPage(n, sz)
  PROVE  n <= Offset(pg, sz) + sz
<1>1. PICK q \in Int : q = (n + sz - 1) \div sz
  BY DEF LastPage
<1>2. PICK m \in Int : m = n + sz - 1
  OBVIOUS
<1>3. m < sz * (q + 1)
  BY <1>1, <1>2
<1>4. PICK k \in Nat : pg = k + 1
  <2>1. pg - 1 \in Nat /\ pg = (pg - 1) + 1
    OBVIOUS
  <2>. QED
    BY <2>1
<1>5. pg >= q
  BY <1>1 DEF LastPage
<1>6. sz * (q + 1) = sz * q + sz /\ (k + 1) * sz = k * sz + sz
  BY SMT
<1>7. sz * q <= (k + 1) * sz
  BY <1>4, <1>5
<1>8. sz * q \in Int /\ k * sz \in Nat
  OBVIOUS
<1>9. n <= k * sz + sz
  BY <1>2, <1>3, <1>6, <1>7, <1>8
<1>10. pg - 1 = k
  BY <1>4
<1>. QED
  BY <1>9, <1>10 DEF Offset

Cut(rows) ==
  LET first == Offset(page, size) + 1
  IN  SubSeq(rows, first, Min({Len(rows), first + Limit(size) - 1}))

LEMMA MinOfTwo ==
  ASSUME NEW m \in Int, NEW n \in Int
  PROVE  Min({m, n}) = IF m <= n THEN m ELSE n
<1>. DEFINE k == IF m <= n THEN m ELSE n
<1>1. k \in {m, n} /\ \A y \in {m, n} : k <= y
  OBVIOUS
<1>2. \A x \in {m, n} : (\A y \in {m, n} : x <= y) => x = k
  OBVIOUS
<1>. HIDE DEF k
<1>3. Min({m, n}) = k
  BY <1>1, <1>2 DEF Min
<1>. QED
  BY <1>3 DEF k

LEMMA CutIs ==
  ASSUME TypeOK, TablesInv, size > 0, NEW rows \in Sorted
  PROVE  LET k == Offset(page, size)
         IN  /\ k \in Nat
             /\ Cut(rows) \in Seq(Rows) /\ Len(Cut(rows)) \in 0 .. size
             /\ \A i \in 1 .. Len(Cut(rows)) : k + i \in 1 .. Len(rows) /\ Cut(rows)[i] = rows[k + i]
             /\ \A i \in 1 .. Len(rows) : k < i /\ i <= k + size => i - k \in 1 .. Len(Cut(rows))
<1>. DEFINE k == Offset(page, size)
            n == Len(rows)
            last == IF n <= k + size THEN n ELSE k + size
            cut == SubSeq(rows, k + 1, last)
<1>1. size \in Nat \ {0} /\ page \in Nat \ {0}
  BY ListingAssumption DEF TypeOK
<1>2. k \in Nat
  BY <1>1, OffsetSteps
<1>3. n \in Nat /\ \A i \in 1 .. n : rows[i] \in Rows
  BY SortedRows
<1>. HIDE DEF k, n
<1>4. k + 1 + size - 1 = k + size /\ k + size \in Int
  BY <1>1, <1>2
<1>5. Min({n, k + 1 + size - 1}) = last
  BY <1>3, <1>4, MinOfTwo
<1>6. Cut(rows) = cut
  BY <1>5 DEF Cut, k, n, Limit
<1>7. last \in Int /\ k + 1 \in Int /\ \A i \in k + 1 .. last : i \in 1 .. n
  BY <1>1, <1>2, <1>3
<1>8. \A i \in k + 1 .. last : rows[i] \in Rows
  BY <1>3, <1>7
<1>. HIDE DEF last
<1>9. /\ cut \in Seq(Rows)
      /\ Len(cut) = IF k + 1 <= last THEN last - (k + 1) + 1 ELSE 0
      /\ \A i \in 1 .. last - (k + 1) + 1 : cut[i] = rows[k + 1 + i - 1]
  BY <1>7, <1>8, SubSeqProperties
<1>. HIDE DEF cut
<1>. USE DEF last
<1>10. Len(cut) \in 0 .. size
  BY <1>1, <1>2, <1>3, <1>9
<1>11. ASSUME NEW i \in 1 .. Len(cut) PROVE k + i \in 1 .. n /\ cut[i] = rows[k + i]
  <2>1. i \in 1 .. last - (k + 1) + 1 /\ k + 1 + i - 1 = k + i /\ k + i \in k + 1 .. last
    BY <1>2, <1>7, <1>9, <1>11
  <2>. QED
    BY <1>7, <1>9, <2>1
<1>12. ASSUME NEW i \in 1 .. n, k < i, i <= k + size PROVE i - k \in 1 .. Len(cut)
  <2>1. i \in Int /\ i <= last /\ last \in Int
    BY <1>1, <1>2, <1>3, <1>12
  <2>. HIDE DEF last
  <2>2. k + 1 <= last /\ Len(cut) = last - k
    BY <1>2, <1>9, <1>12, <2>1
  <2>. QED
    BY <1>2, <1>12, <2>1, <2>2
<1>. QED
  BY <1>2, <1>6, <1>9, <1>10, <1>11, <1>12 DEF k, n

(* A page has at most as many entries, and an entry as many items, as the  *)
(* page has rows.                                                          *)
LEMMA ResponseType ==
  ASSUME TypeOK, NEW cut \in Seq(Rows), NEW n \in Nat \ {0}, Len(cut) \in 1 .. n
  PROVE  LET shown == Response(cut)
         IN  /\ shown \in Pages
             /\ DOMAIN shown \subseteq Entries
             /\ Cardinality(DOMAIN shown) \in 1 .. n
             /\ \A e \in DOMAIN shown : Cardinality(shown[e]) <= n
<1>. DEFINE m == Len(cut)
            shown == Response(cut)
            E == {cut[k][1] : k \in DOMAIN cut}
            es == [k \in 1 .. m |-> cut[k][1]]
            ns == [k \in 1 .. m |-> cut[k][2]]
<1>1. /\ m \in Nat \ {0} /\ m <= n /\ DOMAIN cut = 1 .. m
      /\ \A k \in 1 .. m : cut[k] \in Rows
  OBVIOUS
<1>2. ASSUME NEW k \in 1 .. m PROVE cut[k][1] \in Entries /\ cut[k][2] \in Nat
  <2>1. cut[k] \in Row
    BY <1>1, RowShape
  <2>. QED
    BY <2>1 DEF Row
<1>3. DOMAIN shown = E /\ \A e \in E : shown[e] = {} \/
        shown[e] = {cut[k][2] : k \in {k \in DOMAIN cut : cut[k][1] = e}} \ {0}
  BY DEF Response, Grouped, Populated
<1>4. E \subseteq Entries /\ cut[1][1] \in E
  BY <1>1, <1>2
<1>5. ASSUME NEW e \in E PROVE shown[e] \subseteq Elements(ns) /\ shown[e] \subseteq Nat
  <2>1. \A k \in 1 .. m : cut[k][2] \in Elements(ns) /\ cut[k][2] \in Nat
    BY <1>1, <1>2 DEF Elements
  <2>2. shown[e] \subseteq {cut[k][2] : k \in 1 .. m}
    BY <1>1, <1>3, <1>5
  <2>. HIDE DEF ns, shown
  <2>. QED
    BY <2>1, <2>2
<1>6. IsFiniteSet(Elements(es)) /\ Cardinality(Elements(es)) \in Nat
      /\ Cardinality(Elements(es)) <= m
  BY <1>1, ElementsFinite
<1>7. IsFiniteSet(Elements(ns)) /\ Cardinality(Elements(ns)) \in Nat
      /\ Cardinality(Elements(ns)) <= m
  BY <1>1, ElementsFinite
<1>8. E = Elements(es)
  BY <1>1 DEF Elements
<1>. HIDE DEF E, es, ns, shown, m
<1>9. Cardinality(E) # 0
  BY <1>4, <1>6, <1>8, FS_EmptySet
<1>10. Cardinality(E) \in 1 .. n
  BY <1>1, <1>6, <1>8, <1>9
<1>11. ASSUME NEW e \in E PROVE Cardinality(shown[e]) <= n
  <2>1. IsFiniteSet(shown[e]) /\ Cardinality(shown[e]) <= Cardinality(Elements(ns))
    BY <1>5, <1>7, FS_Subset
  <2>2. Cardinality(shown[e]) \in Nat
    BY <2>1, FS_CardinalityType
  <2>. QED
    BY <1>1, <1>7, <2>1, <2>2
<1>12. shown \in [E -> SUBSET Nat]
  <2>1. shown = [e \in DOMAIN shown |-> shown[e]]
    BY DEF shown, Response, Grouped, Populated
  <2>. QED
    BY <1>3, <1>5, <2>1
<1>13. shown \in Pages
  BY <1>4, <1>12 DEF Pages
<1>. QED
  BY <1>3, <1>4, <1>10, <1>11, <1>13 DEF shown

(* What a page shows of the rows that count is what was cut.               *)
LEMMA ShowsWhatIsCut ==
  ASSUME TypeOK, NEW cut \in Seq(Rows), NEW r, r = <<r[1], r[2]>>,
         IF ForProducts THEN r[2] = 0 ELSE r[2] # 0
  PROVE  Shows(Response(cut), r) <=> r \in Elements(cut)
<1>. DEFINE m == Len(cut)
<1>1. /\ m \in Nat /\ DOMAIN cut = 1 .. m
      /\ \A k \in 1 .. m : cut[k] = <<cut[k][1], cut[k][2]>>
      /\ ForProducts => \A k \in 1 .. m : cut[k][2] = 0
  <2>1. ASSUME NEW k \in 1 .. m PROVE cut[k] \in Rows
    OBVIOUS
  <2>. QED
    BY <2>1, RowShape
<1>2. r \in Elements(cut) <=> \E k \in 1 .. m : cut[k][1] = r[1] /\ cut[k][2] = r[2]
  <2>1. ASSUME NEW k \in 1 .. m, cut[k][1] = r[1], cut[k][2] = r[2] PROVE cut[k] = r
    BY <1>1, <2>1
  <2>. QED
    BY <2>1 DEF Elements
<1>3. CASE ForProducts
  <2>1. Shows(Response(cut), r) <=> \E k \in 1 .. m : cut[k][1] = r[1]
    BY <1>1, <1>3 DEF Shows, Response, Populated, ForProducts
  <2>. QED
    BY <1>1, <1>2, <1>3, <2>1
<1>4. CASE ~ ForProducts
  <2>1. Shows(Response(cut), r) <=> r[1] \in DOMAIN Grouped(cut) /\ r[2] \in Grouped(cut)[r[1]]
    BY <1>4 DEF Shows, Response, ForProducts
  <2>2. r[1] \in DOMAIN Grouped(cut) <=> \E k \in 1 .. m : cut[k][1] = r[1]
    BY <1>1 DEF Grouped
  <2>3. r[1] \in DOMAIN Grouped(cut) =>
          (r[2] \in Grouped(cut)[r[1]] <=> \E k \in 1 .. m : cut[k][1] = r[1] /\ cut[k][2] = r[2])
    BY <1>1, <1>4 DEF Grouped
  <2>. QED
    BY <1>2, <2>1, <2>2, <2>3
<1>. QED
  BY <1>3, <1>4

(* A row that is not tied is on the page that its place falls on.          *)
LEMMA PageShows ==
  ASSUME TypeOK, TablesInv, size > 0, NEW rows \in Sorted,
         NEW r, r = <<r[1], r[2]>>, IF ForProducts THEN r[2] = 0 ELSE r[2] # 0, ~ Tied(r)
  PROVE  LET b == Cardinality(Before(r))
             k == Offset(page, size)
         IN  /\ r \notin Rows => ~ Shows(Response(Cut(rows)), r)
             /\ r \in Rows =>
                  /\ b \in Nat /\ b < Len(rows)
                  /\ Shows(Response(Cut(rows)), r) <=> k <= b /\ b < k + size
<1>. DEFINE b == Cardinality(Before(r))
            k == Offset(page, size)
            cut == Cut(rows)
<1>1. /\ k \in Nat /\ cut \in Seq(Rows) /\ Len(cut) \in Nat
      /\ \A i \in 1 .. Len(cut) : k + i \in 1 .. Len(rows) /\ cut[i] = rows[k + i]
      /\ \A i \in 1 .. Len(rows) : k < i /\ i <= k + size => i - k \in 1 .. Len(cut)
      /\ Len(cut) <= size
  BY CutIs
<1>2. Shows(Response(cut), r) <=> r \in Elements(cut)
  BY <1>1, ShowsWhatIsCut
<1>3. size \in Nat
  BY ListingAssumption DEF TypeOK
<1>4. /\ Len(rows) \in Nat /\ Elements(rows) = Rows
      /\ \A i \in 1 .. Len(rows) : rows[i] \in Rows
      /\ \A i, j \in 1 .. Len(rows) : i # j => rows[i] # rows[j]
  BY SortedRows
<1>. HIDE DEF k, cut
<1>5. r \in Elements(cut) => r \in Rows
  BY <1>1, <1>4 DEF Elements
<1>6. ASSUME r \in Rows
      PROVE  b \in Nat /\ b < Len(rows) /\ (r \in Elements(cut) <=> k <= b /\ b < k + size)
  <2>1. PICK i \in 1 .. Len(rows) : rows[i] = r
    BY <1>4, <1>6 DEF Elements
  <2>2. b = i - 1
    BY <2>1, PlaceOf
  <2>. HIDE DEF b
  <2>3. ASSUME r \in Elements(cut) PROVE k <= b /\ b < k + size
    <3>1. PICK j \in 1 .. Len(cut) : cut[j] = r
      BY <2>3 DEF Elements
    <3>2. k + j = i
      BY <1>1, <1>4, <2>1, <3>1
    <3>. QED
      BY <1>1, <1>3, <2>2, <3>1, <3>2
  <2>4. ASSUME k <= b, b < k + size PROVE r \in Elements(cut)
    <3>1. k < i /\ i <= k + size
      BY <1>1, <1>3, <2>1, <2>2, <2>4
    <3>2. i - k \in 1 .. Len(cut) /\ k + (i - k) = i
      BY <1>1, <1>4, <3>1
    <3>3. cut[i - k] = r
      BY <1>1, <2>1, <3>2
    <3>. QED
      BY <3>2, <3>3 DEF Elements
  <2>. QED
    BY <1>4, <2>1, <2>2, <2>3, <2>4
<1>. QED
  BY <1>2, <1>5, <1>6 DEF k, cut

-----------------------------------------------------------------------------
(* What a step does to the lists.                                          *)

LEMMA SeqMonotone == ASSUME NEW S, NEW T, S \subseteq T, NEW s \in Seq(S) PROVE s \in Seq(T)
<1>1. Len(s) \in Nat /\ s \in [1 .. Len(s) -> S]
  OBVIOUS
<1>2. s \in [1 .. Len(s) -> T]
  BY <1>1
<1>. QED
  BY <1>1, <1>2

(* Nothing is taken away from the tables, and what is there stays.         *)
TablesGrow ==
  /\ Stored \subseteq Stored' /\ created \subseteq created'
  /\ \A o \in Stored : at'[o] = at[o]
  /\ \A o : LinesOf(o) \subseteq LinesOf(o)'

TableStep ==
  /\ \/ \E o \in Orders : CreateOrder(o) \/ CreateOrderItem(o) \/ UpdateOrderStatus(o)
     \/ \E p \in Products : CreateProduct(p)
  /\ phase \in {"start", "walking"}
  /\ \E leaves \in BOOLEAN : Changed(leaves)

LEMMA NextCases ==
  ASSUME [Next]_vars
  PROVE  \/ TableStep \/ AsksBadly \/ Starts \/ GetPage
         \/ UNCHANGED vars
<1>1. CASE \/ \E o \in Orders : CreateOrder(o) \/ CreateOrderItem(o) \/ UpdateOrderStatus(o)
           \/ \E p \in Products : CreateProduct(p)
  BY <1>1 DEF TableStep, CreateOrder, CreateOrderItem, UpdateOrderStatus, CreateProduct, Watched
<1>2. Finished => UNCHANGED vars
  BY DEF Finished
<1>. QED
  BY <1>1, <1>2 DEF Next

LEMMA ItemsKept ==
  ASSUME TypeOK, NEW x, lines' = Append(lines, x) \/ lines' = lines, NEW o
  PROVE  /\ LinesOf(o) \subseteq LinesOf(o)'
         /\ lines' = lines => LinesOf(o)' = LinesOf(o)
         /\ lines' = Append(lines, x) =>
              LinesOf(o)' = IF x = o THEN LinesOf(o) \cup {Len(lines) + 1} ELSE LinesOf(o)
<1>1. /\ Len(lines) \in Nat /\ DOMAIN lines = 1 .. Len(lines)
      /\ lines' = Append(lines, x) =>
           /\ DOMAIN lines' = 1 .. Len(lines) + 1 /\ lines'[Len(lines) + 1] = x
           /\ \A i \in 1 .. Len(lines) : lines'[i] = lines[i]
  <2>1. lines \in Seq(Stored)
    BY DEF TypeOK
  <2>2. PICK S : S = Stored \cup {x}
    OBVIOUS
  <2>3. lines \in Seq(S) /\ x \in S
    BY <2>1, <2>2
  <2>. QED
    BY <2>3, AppendProperties
<1>2. CASE lines' = lines
  BY <1>2 DEF LinesOf
<1>3. CASE lines' = Append(lines, x)
  <2>. DEFINE n == Len(lines) + 1
  <2>1. LinesOf(o)' = {i \in 1 .. n : lines'[i] = o} /\ LinesOf(o) = {i \in 1 .. n - 1 : lines[i] = o}
    BY <1>1, <1>3 DEF LinesOf
  <2>2. n \in 1 .. n /\ n \notin 1 .. n - 1 /\ 1 .. n = (1 .. n - 1) \cup {n}
    BY <1>1
  <2>3. lines'[n] = x /\ \A i \in 1 .. n - 1 : lines'[i] = lines[i]
    BY <1>1, <1>3
  <2>4. LinesOf(o)' = IF x = o THEN LinesOf(o) \cup {n} ELSE LinesOf(o)
    <3>. HIDE DEF n
    <3>. QED
      BY <2>1, <2>2, <2>3
  <2>5. lines' # lines
    <3>1. n \in DOMAIN lines' /\ n \notin DOMAIN lines
      BY <1>1, <1>3
    <3>. QED
      BY <3>1, Zenon
  <2>. QED
    BY <1>3, <2>4, <2>5
<1>. QED
  BY <1>1, <1>2, <1>3

LEMMA TableEffect ==
  ASSUME TypeOK, TablesInv, TableStep
  PROVE  /\ TablesGrow /\ TablesInv'
         /\ Stored' \subseteq Orders /\ at' \in [Stored' -> 0 .. MaxTime]
         /\ status' \in [Stored' -> Statuses] /\ lines' \in Seq(Stored') /\ created' \subseteq Products
<1>0. TypeOK /\ TablesInv
  OBVIOUS
<1>. USE DEF TypeOK, TablesInv
<1>1. ASSUME NEW o \in Orders, CreateOrder(o)
      PROVE  /\ TablesGrow /\ TablesInv'
             /\ Stored' \subseteq Orders /\ at' \in [Stored' -> 0 .. MaxTime]
             /\ status' \in [Stored' -> Statuses] /\ lines' \in Seq(Stored') /\ created' \subseteq Products
  <2>1. PICK t \in 0 .. MaxTime : at' = Extended(at, o, t)
    BY <1>1 DEF CreateOrder
  <2>2. o \notin Stored /\ status' = Extended(status, o, "PLACED") /\ UNCHANGED <<lines, created>>
    BY <1>1 DEF CreateOrder
  <2>4. Stored' = Stored \cup {o} /\ \A x \in Stored : at'[x] = at[x]
    BY <2>1, <2>2 DEF Stored, Extended
  <2>5. at'[o] = t
    BY <2>1 DEF Extended
  <2>6. at' \in [Stored' -> 0 .. MaxTime]
    <3>1. at' = [x \in Stored' |-> at'[x]]
      BY <2>1 DEF Stored, Extended
    <3>2. \A x \in Stored' : at'[x] \in 0 .. MaxTime
      BY <2>1, <2>4, <2>5
    <3>. QED
      BY <3>1, <3>2
  <2>7. status' \in [Stored' -> Statuses]
    BY <2>2, <2>4 DEF Extended, Statuses
  <2>8. lines' \in Seq(Stored')
    BY <2>2, <2>4, SeqMonotone
  <2>9. IsFiniteSet(Stored')
    BY <2>4, FS_AddElement
  <2>10. \A x : LinesOf(x)' = LinesOf(x)
    BY <2>2 DEF LinesOf
  <2>. QED
    BY <2>2, <2>4, <2>6, <2>7, <2>8, <2>9, <2>10 DEF TablesGrow
<1>2. ASSUME NEW o \in Orders, CreateOrderItem(o)
      PROVE  /\ TablesGrow /\ TablesInv'
             /\ Stored' \subseteq Orders /\ at' \in [Stored' -> 0 .. MaxTime]
             /\ status' \in [Stored' -> Statuses] /\ lines' \in Seq(Stored') /\ created' \subseteq Products
  <2>1. o \in Stored /\ lines' = Append(lines, o) /\ UNCHANGED <<at, status, created>>
    BY <1>2 DEF CreateOrderItem
  <2>2. Stored' = Stored
    BY <2>1 DEF Stored
  <2>3. \A x : LinesOf(x) \subseteq LinesOf(x)'
    BY <1>0, <2>1, ItemsKept
  <2>4. lines' \in Seq(Stored')
    BY <2>1, <2>2
  <2>. QED
    BY <2>1, <2>2, <2>3, <2>4 DEF TablesGrow
<1>3. ASSUME NEW o \in Orders, UpdateOrderStatus(o)
      PROVE  /\ TablesGrow /\ TablesInv'
             /\ Stored' \subseteq Orders /\ at' \in [Stored' -> 0 .. MaxTime]
             /\ status' \in [Stored' -> Statuses] /\ lines' \in Seq(Stored') /\ created' \subseteq Products
  <2>1. PICK s \in Statuses : status' = [status EXCEPT ![o] = s]
    BY <1>3 DEF UpdateOrderStatus
  <2>2. Stored' = Stored /\ UNCHANGED <<at, lines, created>>
    BY <1>3 DEF UpdateOrderStatus, Stored
  <2>3. status' \in [Stored -> Statuses]
    BY <2>1
  <2>4. \A x : LinesOf(x)' = LinesOf(x)
    BY <2>2 DEF LinesOf
  <2>. QED
    BY <2>2, <2>3, <2>4 DEF TablesGrow
<1>4. ASSUME NEW p \in Products, CreateProduct(p)
      PROVE  /\ TablesGrow /\ TablesInv'
             /\ Stored' \subseteq Orders /\ at' \in [Stored' -> 0 .. MaxTime]
             /\ status' \in [Stored' -> Statuses] /\ lines' \in Seq(Stored') /\ created' \subseteq Products
  <2>1. created' = created \cup {p} /\ UNCHANGED <<at, status, lines>>
    BY <1>4 DEF CreateProduct
  <2>2. Stored' = Stored /\ IsFiniteSet(created')
    BY <2>1, FS_AddElement DEF Stored
  <2>3. \A x : LinesOf(x)' = LinesOf(x)
    BY <2>1 DEF LinesOf
  <2>. QED
    BY <2>1, <2>2, <2>3 DEF TablesGrow
<1>. QED
  BY <1>1, <1>2, <1>3, <1>4 DEF TableStep

(* Unless an order leaves it, a list keeps the orders it has.              *)
LEMMA SelectedGrows ==
  ASSUME TypeOK, TablesInv, TableStep, phase = "walking", ~ left'
  PROVE  ~ left /\ Selected \subseteq Selected'
<1>1. TablesGrow /\ query' = query
  BY TableEffect DEF TableStep, Changed
<1>2. ~ left /\ \A x \in Selected : query.of = "status" => status'[x] = status[x]
  <2>1. ASSUME NEW o \in Orders, CreateOrder(o)
        PROVE  ~ left /\ \A x \in Stored : status'[x] = status[x]
    <3>1. o \notin Stored /\ status' = Extended(status, o, "PLACED") /\ Changed(FALSE)
      BY <2>1 DEF CreateOrder
    <3>2. \A x \in Stored : x \in DOMAIN status
      BY DEF TypeOK
    <3>3. \A x \in Stored : status'[x] = status[x]
      BY <3>1, <3>2 DEF Extended
    <3>4. ~ left
      BY <3>1 DEF Changed
    <3>. QED
      BY <3>3, <3>4
  <2>2. ASSUME NEW o \in Orders, CreateOrderItem(o)
        PROVE  ~ left /\ \A x \in Stored : status'[x] = status[x]
    BY <2>2 DEF CreateOrderItem, Changed
  <2>3. ASSUME NEW p \in Products, CreateProduct(p)
        PROVE  ~ left /\ \A x \in Stored : status'[x] = status[x]
    BY <2>3 DEF CreateProduct, Changed
  <2>4. ASSUME NEW o \in Orders, UpdateOrderStatus(o)
        PROVE  ~ left /\ \A x \in Selected : query.of = "status" => status'[x] = status[x]
    <3>1. PICK s \in Statuses : status' = [status EXCEPT ![o] = s]
      BY <2>4 DEF UpdateOrderStatus
    <3>2. ~ left /\ ~ (query.of = "status" /\ status[o] = query.status)
      BY <2>4 DEF UpdateOrderStatus, Changed
    <3>3. \A x \in Selected : query.of = "status" => x # o
      BY <3>2 DEF Selected
    <3>. QED
      BY <3>1, <3>2, <3>3
  <2>5. Selected \subseteq Stored
    BY DEF Selected
  <2>. QED
    BY <2>1, <2>2, <2>3, <2>4, <2>5 DEF TableStep
<1>. QED
  BY <1>1, <1>2 DEF Selected, TablesGrow

(* The statement of GetPage with the names used here.                      *)
LEMMA PageEffect ==
  ASSUME TypeOK, TablesInv, size > 0, GetPage
  PROVE  \E rows \in Sorted :
           LET cut  == Cut(rows)
               more == cut # << >> /\ page < LastPage(Len(rows), size)
           IN  /\ responses' = IF cut = << >> THEN responses ELSE Append(responses, Response(cut))
               /\ page' = IF more THEN page + 1 ELSE page
               /\ phase' = IF more THEN "walking" ELSE EndOf(cut)
               /\ UNCHANGED <<tables, query, size, base, pushed, left>>
  BY DEF GetPage, Cut

-----------------------------------------------------------------------------
(* Type correctness.                                                       *)

PageOK(shown, sz) ==
  /\ DOMAIN shown \subseteq Entries
  /\ Cardinality(DOMAIN shown) \in 1 .. sz
  /\ \A e \in DOMAIN shown : Cardinality(shown[e]) <= sz

TablesType ==
  /\ Stored \subseteq Orders /\ at \in [Stored -> 0 .. MaxTime]
  /\ status \in [Stored -> Statuses]
  /\ lines \in Seq(Stored)
  /\ created \subseteq Products

WalkType ==
  /\ query \in Queries /\ size \in Sizes /\ page \in Nat \ {0}
  /\ phase \in {"start", "walking", "done", "notfound", "invalid"}
  /\ base \subseteq Row /\ pushed \in Nat /\ left \in BOOLEAN
  /\ \A k \in DOMAIN responses : PageOK(responses[k], size)

LEMMA TypeParts == TypeOK <=> TablesType /\ WalkType
  BY DEF TypeOK, TablesType, WalkType, PageOK

LEMMA TypeInit == Init => TypeOK /\ TablesInv
<1>1. ASSUME Init PROVE Stored = {} /\ at \in [{} -> 0 .. MaxTime] /\ status \in [{} -> Statuses]
  BY <1>1 DEF Init, Stored
<1>2. ASSUME Init PROVE lines \in Seq(Stored) /\ DOMAIN responses = {}
  BY <1>2 DEF Init
<1>3. Init => TablesType
  BY <1>1, <1>2, ListingAssumption DEF Init, TablesType
<1>4. Init => WalkType
  <2>1. Init => left \in BOOLEAN
    BY DEF Init
  <2>2. Init => /\ query \in Queries /\ size \in Sizes /\ page \in Nat \ {0} /\ phase = "start"
                /\ base \subseteq Row /\ pushed \in Nat
    BY DEF Init
  <2>. QED
    BY <1>2, <2>1, <2>2 DEF WalkType
<1>5. Init => TablesInv
  BY <1>1, FS_EmptySet DEF Init, TablesInv
<1>. QED
  BY <1>3, <1>4, <1>5, TypeParts

LEMMA TypeStep ==
  ASSUME TypeOK, TablesInv, WalkInv, [Next]_vars
  PROVE  TypeOK' /\ TablesInv'
<1>0. Rows \subseteq Row
  BY RowShape
<1>6. (TablesType /\ WalkType => TypeOK)'
  BY TypeParts, PTL
<1>7. TablesType /\ WalkType
  BY TypeParts
<1>8. ASSUME UNCHANGED tables PROVE TablesType' /\ TablesInv'
  BY <1>7, <1>8 DEF tables, TablesType, TablesInv, Stored
<1>1. CASE TableStep
  <2>1. UNCHANGED <<query, size, page, phase, responses, base>> /\ pushed' \in Nat /\ left' \in BOOLEAN
    BY <1>1 DEF TableStep, Changed, TypeOK
  <2>2. WalkType'
    BY <1>7, <2>1 DEF WalkType
  <2>3. TablesInv' /\ TablesType'
    BY <1>1, TableEffect DEF TypeOK, TablesType
  <2>. QED
    BY <1>6, <2>2, <2>3
<1>2. CASE AsksBadly
  <2>1. WalkType'
    BY <1>2, <1>7 DEF AsksBadly, WalkType
  <2>. QED
    BY <1>2, <1>6, <1>8, <2>1 DEF AsksBadly
<1>3. CASE Starts
  <2>1. base' \subseteq Row
    BY <1>0, <1>3 DEF Starts
  <2>2. WalkType'
    BY <1>3, <1>7, <2>1 DEF Starts, WalkType
  <2>. QED
    BY <1>3, <1>6, <1>8, <2>2 DEF Starts
<1>4. CASE GetPage
  <2>1. size > 0 /\ size \in Nat \ {0}
    BY <1>4, ListingAssumption DEF GetPage, WalkInv, TypeOK
  <2>2. PICK rows \in Sorted :
          /\ \/ responses' = responses
             \/ Cut(rows) # << >> /\ responses' = Append(responses, Response(Cut(rows)))
          /\ page' \in {page, page + 1}
          /\ phase' \in {"walking", EndOf(Cut(rows))}
          /\ UNCHANGED <<tables, query, size, base, pushed, left>>
    BY <1>4, <2>1, PageEffect
  <2>3. phase' \in {"walking", "done", "notfound"}
    BY <2>2 DEF EndOf
  <2>4. \A k \in DOMAIN responses' : PageOK(responses'[k], size)
    <3>1. \A k \in DOMAIN responses : PageOK(responses[k], size)
      BY DEF TypeOK, PageOK
    <3>2. CASE Cut(rows) # << >> /\ responses' = Append(responses, Response(Cut(rows)))
      <4>1. Cut(rows) \in Seq(Rows) /\ Len(Cut(rows)) \in 0 .. size
        BY <2>1, CutIs
      <4>2. Len(Cut(rows)) \in 1 .. size
        BY <3>2, <4>1
      <4>3. PageOK(Response(Cut(rows)), size)
        BY <2>1, <4>1, <4>2, ResponseType DEF PageOK
      <4>4. responses \in Seq(Pages)
        BY DEF WalkInv
      <4>. QED
        BY <3>1, <3>2, <4>3, <4>4
    <3>. QED
      BY <2>2, <3>1, <3>2
  <2>5. page' \in Nat \ {0}
    BY <2>2 DEF TypeOK
  <2>6. WalkType'
    BY <1>7, <2>2, <2>3, <2>4, <2>5 DEF WalkType
  <2>. QED
    BY <1>6, <1>8, <2>2, <2>6
<1>5. CASE UNCHANGED vars
  <2>1. WalkType'
    BY <1>5, <1>7 DEF WalkType, vars, walk
  <2>. QED
    BY <1>5, <1>6, <1>8, <2>1 DEF vars
<1>. QED
  BY <1>1, <1>2, <1>3, <1>4, <1>5, NextCases

-----------------------------------------------------------------------------
(* Places and ties, while the lists stay and while they grow.              *)

LEMMA SameLists ==
  ASSUME UNCHANGED <<at, status, lines, created, query>>
  PROVE  /\ Stored' = Stored /\ Selected' = Selected /\ Rows' = Rows
         /\ ForProducts' = ForProducts
         /\ \A o : LinesOf(o)' = LinesOf(o)
         /\ \A r : Before(r)' = Before(r) /\ Tied(r)' = Tied(r)
<1>1. Stored' = Stored /\ (\A o : LinesOf(o)' = LinesOf(o)) /\ ForProducts' = ForProducts
  BY DEF Stored, LinesOf, ForProducts
<1>2. Selected' = Selected
  BY <1>1 DEF Selected
<1>3. \A o : OrderRows(o)' = OrderRows(o)
  BY <1>1 DEF OrderRows
<1>4. Rows' = Rows
  BY <1>2, <1>3 DEF Rows, ProductRows
<1>5. \A r, s : Precedes(s, r)' = Precedes(s, r)
  BY DEF Precedes
<1>6. \A r : Before(r)' = Before(r)
  BY <1>4, <1>5 DEF Before
<1>7. \A r : Tied(r)' = Tied(r)
  BY <1>4, <1>5 DEF Tied
<1>. QED
  BY <1>1, <1>2, <1>4, <1>6, <1>7

BaseRow(r) ==
  /\ r = <<r[1], r[2]>>
  /\ IF ForProducts THEN r \in created \X {0} ELSE r[1] \in Stored /\ r[2] \in LinesOf(r[1])

(* Two items come in the order of their ids: no item is tied.              *)
LEMMA ItemNotTied ==
  ASSUME TypeOK, ~ ForProducts, NEW r, BaseRow(r) PROVE ~ Tied(r)
<1>1. r = <<r[1], r[2]>> /\ r[1] \in Stored /\ r[2] \in LinesOf(r[1]) /\ lines[r[2]] = r[1]
  BY DEF BaseRow, LinesOf
<1>2. r[2] \in Nat \ {0} /\ at[r[1]] \in Int
  BY <1>1, ItemsAreStored DEF TypeOK
<1>3. ASSUME NEW s \in Rows \ {r} PROVE Precedes(r, s) \/ Precedes(s, r)
  <2>1. /\ s = <<s[1], s[2]>> /\ s[1] \in Stored /\ s[2] \in Nat
        /\ s[2] \in LinesOf(s[1]) \/ s[2] = 0
    BY RowShape DEF Row
  <2>2. at[s[1]] \in Int
    BY <2>1 DEF TypeOK
  <2>3. s[2] # r[2]
    BY <1>1, <1>2, <2>1 DEF LinesOf
  <2>. QED
    BY <1>2, <2>1, <2>2, <2>3 DEF Precedes, ForProducts
<1>. QED
  BY <1>3 DEF Tied

LEMMA PrecedesKept ==
  ASSUME TablesGrow, query' = query, NEW r, NEW s,
         ForProducts \/ (r[1] \in Stored /\ s[1] \in Stored)
  PROVE  Precedes(s, r)' <=> Precedes(s, r)
  BY DEF Precedes, TablesGrow, ForProducts

LEMMA TiedStays ==
  ASSUME TypeOK, TablesGrow, query' = query, NEW r, BaseRow(r), Tied(r)
  PROVE  Tied(r)'
<1>1. ForProducts
  BY ItemNotTied
<1>2. PICK s \in Rows \ {r} : ~ Precedes(r, s) /\ ~ Precedes(s, r)
  BY DEF Tied
<1>3. Rows \subseteq Rows'
  BY <1>1 DEF Rows, ProductRows, ForProducts, TablesGrow
<1>4. ~ Precedes(r, s)' /\ ~ Precedes(s, r)'
  BY <1>1, <1>2, PrecedesKept
<1>. QED
  BY <1>2, <1>3, <1>4 DEF Tied

LEMMA RowsFiniteAlways == TypeOK /\ TablesInv => IsFiniteSet(Rows)
  BY RowsFinite

LEMMA RowOfItemAlways ==
  ~ ForProducts => \A o \in Selected : /\ \A n \in LinesOf(o) : <<o, n>> \in Rows
                                       /\ LinesOf(o) = {} => <<o, 0>> \in Rows
  BY RowOfItem

(* The row of an order without items gives way to those of its items, and  *)
(* precedes only rows of older orders, which they precede as well.         *)
LEMMA BeforeGrows ==
  ASSUME TypeOK, TablesInv, TypeOK', TablesInv', TablesGrow, query' = query,
         Selected \subseteq Selected', NEW r, BaseRow(r)
  PROVE  /\ Cardinality(Before(r)) \in Nat /\ Cardinality(Before(r)') \in Nat
         /\ Cardinality(Before(r)) <= Cardinality(Before(r)')
<1>1. IsFiniteSet(Before(r)) /\ IsFiniteSet(Before(r)')
  <2>1. IsFiniteSet(Rows)
    BY RowsFinite
  <2>2. (TypeOK /\ TablesInv => IsFiniteSet(Rows))'
    BY RowsFiniteAlways, PTL
  <2>3. Before(r) \subseteq Rows /\ Before(r)' \subseteq Rows'
    BY DEF Before
  <2>. QED
    BY <2>1, <2>2, <2>3, FS_Subset
<1>2. Cardinality(Before(r)) \in Nat /\ Cardinality(Before(r)') \in Nat
  BY <1>1, FS_CardinalityType
<1>3. CASE ForProducts
  <2>1. Rows \subseteq Rows'
    BY <1>3 DEF Rows, ProductRows, ForProducts, TablesGrow
  <2>2. Before(r) \subseteq Before(r)'
    BY <1>3, <2>1, PrecedesKept DEF Before
  <2>. QED
    BY <1>1, <1>2, <2>2, FS_Subset
<1>4. CASE ~ ForProducts
  <2>. DEFINE some(s) == CHOOSE n \in LinesOf(s[1])' : TRUE
              g == [s \in Before(r) |-> IF s \in Rows' THEN s ELSE <<s[1], some(s)>>]
  <2>0. r[1] \in Stored
    BY <1>4 DEF BaseRow
  <2>1. Selected \subseteq Selected'
    OBVIOUS
  <2>2. ~ ForProducts'
    BY <1>4 DEF ForProducts
  <2>3. \A o \in Selected : /\ \A n \in LinesOf(o)' : <<o, n>> \in Rows'
                            /\ LinesOf(o)' = {} => <<o, 0>> \in Rows'
    <3>1. (~ ForProducts => \A o \in Selected : /\ \A n \in LinesOf(o) : <<o, n>> \in Rows
                                                /\ LinesOf(o) = {} => <<o, 0>> \in Rows)'
      BY RowOfItemAlways, PTL
    <3>. QED
      BY <2>1, <2>2, <3>1
  <2>4. ASSUME NEW s \in Before(r)
        PROVE  /\ s = <<s[1], s[2]>> /\ s[1] \in Selected /\ s[1] \in Stored /\ Precedes(s, r)
               /\ s[2] \in LinesOf(s[1]) \/ (s[2] = 0 /\ LinesOf(s[1]) = {})
    BY <1>4, RowShape DEF Before
  <2>5. ASSUME NEW s \in Before(r), s \notin Rows'
        PROVE  /\ s[2] = 0 /\ LinesOf(s[1]) = {} /\ some(s) \in LinesOf(s[1])'
               /\ <<s[1], some(s)>> \in Before(r)'
    <3>1. s[2] = 0 /\ LinesOf(s[1]) = {} /\ LinesOf(s[1])' # {}
      <4>1. LinesOf(s[1]) \subseteq LinesOf(s[1])'
        BY DEF TablesGrow
      <4>. QED
        BY <2>3, <2>4, <2>5, <4>1
    <3>2. PICK n \in LinesOf(s[1])' : n = some(s)
      BY <3>1
    <3>. HIDE DEF some, g
    <3>3. <<s[1], n>> \in Rows'
      BY <2>3, <2>4, <3>2
    <3>4. at[s[1]] > at[r[1]]
      BY <1>4, <2>4, <3>1 DEF Precedes, ForProducts
    <3>5. at'[s[1]] > at'[r[1]]
      BY <2>0, <2>4, <3>4 DEF TablesGrow
    <3>6. Precedes(<<s[1], n>>, r)'
      BY <2>2, <3>5 DEF Precedes, ForProducts
    <3>7. <<s[1], n>> \in Before(r)'
      BY <3>3, <3>6 DEF Before
    <3>. QED
      BY <3>1, <3>2, <3>7
  <2>6. ASSUME NEW s \in Before(r) PROVE g[s] \in Before(r)'
    <3>1. CASE s \in Rows'
      <4>1. Precedes(s, r)'
        BY <2>0, <2>4, PrecedesKept
      <4>. QED
        BY <3>1, <4>1 DEF Before
    <3>2. CASE s \notin Rows'
      BY <2>5, <3>2
    <3>. QED
      BY <3>1, <3>2
  <2>. HIDE DEF some
  <2>7. ASSUME NEW s \in Before(r), NEW t \in Before(r), g[s] = g[t] PROVE s = t
    <3>1. g[s][1] = s[1] /\ g[t][1] = t[1]
      OBVIOUS
    <3>2. s[1] = t[1]
      BY <2>7, <3>1
    <3>3. CASE s \in Rows' /\ t \in Rows'
      BY <2>7, <3>3
    <3>4. CASE s \notin Rows' \/ t \notin Rows'
      <4>1. LinesOf(s[1]) = {}
        BY <2>5, <3>2, <3>4
      <4>2. s[2] = 0 /\ t[2] = 0
        BY <2>4, <3>2, <4>1
      <4>. QED
        BY <2>4, <3>2, <4>2
    <3>. QED
      BY <3>3, <3>4
  <2>8. g \in [Before(r) -> Before(r)']
    BY <2>6
  <2>. HIDE DEF g
  <2>9. g \in Injection(Before(r), Before(r)')
    BY <2>7, <2>8 DEF Injection, IsInjective
  <2>. QED
    BY <1>1, <1>2, <2>9, FS_Injection
<1>. QED
  BY <1>2, <1>3, <1>4

(* A page is counted for a row when it shows it.                           *)
LEMMA TimesShownSteps ==
  ASSUME NEW r, responses \in Seq(Pages)
  PROVE  /\ TimesShown(r) \in Nat
         /\ responses' = responses => TimesShown(r)' = TimesShown(r)
         /\ \A shown \in Pages : responses' = Append(responses, shown) =>
              TimesShown(r)' = TimesShown(r) + IF Shows(shown, r) THEN 1 ELSE 0
<1>. DEFINE K == {k \in DOMAIN responses : Shows(responses[k], r)}
            n == Len(responses)
<1>1. n \in Nat /\ DOMAIN responses = 1 .. n
  OBVIOUS
<1>2. IsFiniteSet(K) /\ Cardinality(K) \in Nat
  <2>1. IsFiniteSet(1 .. n)
    BY <1>1, UpToFinite
  <2>2. K \subseteq 1 .. n
    BY <1>1
  <2>. HIDE DEF K
  <2>. QED
    BY <2>1, <2>2, FS_Subset, FS_CardinalityType
<1>3. TimesShown(r) = Cardinality(K)
  BY DEF TimesShown
<1>4. responses' = responses => TimesShown(r)' = TimesShown(r)
  BY DEF TimesShown
<1>5. ASSUME NEW shown \in Pages, responses' = Append(responses, shown)
      PROVE  TimesShown(r)' = TimesShown(r) + IF Shows(shown, r) THEN 1 ELSE 0
  <2>1. /\ DOMAIN responses' = 1 .. n + 1 /\ responses'[n + 1] = shown
        /\ \A k \in 1 .. n : responses'[k] = responses[k]
    BY <1>1, <1>5
  <2>2. /\ 1 .. n + 1 = (1 .. n) \cup {n + 1} /\ n + 1 \notin 1 .. n
    BY <1>1
  <2>. DEFINE J == {k \in DOMAIN responses' : Shows(responses'[k], r)}
  <2>3. n + 1 \notin K /\ J = IF Shows(shown, r) THEN K \cup {n + 1} ELSE K
    <3>. HIDE DEF n
    <3>. QED
      BY <1>1, <2>1, <2>2
  <2>4. TimesShown(r)' = Cardinality(J)
    BY DEF TimesShown
  <2>. HIDE DEF J, K, n
  <2>5. Cardinality(K \cup {n + 1}) = Cardinality(K) + 1
    BY <1>2, <2>3, FS_AddElement
  <2>. QED
    BY <1>2, <1>3, <2>3, <2>4, <2>5
<1>. QED
  BY <1>2, <1>3, <1>4, <1>5

-----------------------------------------------------------------------------
(* The invariant of the walk.                                              *)

LEMMA WalkInit == Init => WalkInv /\ PlaceInv
<1>1. Init => WalkInv
  BY DEF Init, WalkInv
<1>2. Init => PlaceInv
  BY DEF Init, PlaceInv
<1>. QED
  BY <1>1, <1>2

LEMMA BaseRows == ASSUME TypeOK, WalkInv, NEW r \in base PROVE BaseRow(r)
<1>1. r \in Row
  BY DEF TypeOK
<1>. QED
  BY <1>1 DEF WalkInv, BaseRow, Row

(* What a page of orders shows under an order are items of it.             *)
LEMMA PageOfItems ==
  ASSUME TypeOK, ~ ForProducts, NEW cut \in Seq(Rows), NEW o \in DOMAIN Response(cut)
  PROVE  Response(cut)[o] \subseteq LinesOf(o)
<1>1. DOMAIN cut = 1 .. Len(cut) /\ \A k \in 1 .. Len(cut) : cut[k] \in Rows
  OBVIOUS
<1>2. \A k \in DOMAIN cut : cut[k][2] \in LinesOf(cut[k][1]) \/ cut[k][2] = 0
  BY <1>1, RowShape
<1>3. Response(cut) = Grouped(cut)
  BY DEF Response, ForProducts
<1>4. Grouped(cut)[o] = {cut[k][2] : k \in {k \in DOMAIN cut : cut[k][1] = o}} \ {0}
  BY <1>3 DEF Grouped
<1>. QED
  BY <1>2, <1>3, <1>4

LEMMA WalkStep ==
  ASSUME TypeOK, TablesInv, WalkInv, [Next]_vars
  PROVE  WalkInv'
<1>1. CASE TableStep
  <2>1. /\ UNCHANGED <<query, size, page, phase, responses, base>>
        /\ phase \in {"start", "walking"} /\ (phase = "walking" => pushed' = pushed + 1)
        /\ pushed \in Nat /\ (phase = "start" => UNCHANGED <<pushed, left>>)
    BY <1>1 DEF TableStep, Changed, TypeOK
  <2>2. TablesGrow
    BY <1>1, TableEffect
  <2>3. ForProducts' = ForProducts
    BY <2>1 DEF ForProducts
  <2>4. ASSUME NEW r \in base
        PROVE  IF ForProducts THEN r \in created' \X {0}
               ELSE r[1] \in Stored' /\ r[2] \in LinesOf(r[1])'
    BY <2>2 DEF WalkInv, TablesGrow
  <2>5. ~ ForProducts => \A k \in DOMAIN responses : \A o \in DOMAIN responses[k] :
                           responses[k][o] \subseteq LinesOf(o)'
    BY <2>2 DEF WalkInv, TablesGrow
  <2>6. ~ (phase' \in {"walking", "done", "notfound"} /\ pushed' = 0)
    BY <2>1
  <2>7. ~ left' /\ ~ ForProducts => \A r \in base : r[1] \in Selected'
    <3>1. CASE phase = "start"
      BY <3>1 DEF WalkInv
    <3>2. CASE phase = "walking"
      BY <1>1, <3>2, SelectedGrows DEF WalkInv
    <3>. QED
      BY <2>1, <3>1, <3>2
  <2>8. pushed' = 0 => ~ left'
    BY <2>1 DEF WalkInv
  <2>. QED
    BY <2>1, <2>3, <2>4, <2>5, <2>6, <2>7, <2>8 DEF WalkInv
<1>2. CASE AsksBadly
  <2>1. /\ UNCHANGED <<at, status, lines, created, query, size, responses, base, pushed, left>>
        /\ phase = "start" /\ phase' = "invalid"
    BY <1>2 DEF AsksBadly, tables
  <2>2. /\ Stored' = Stored /\ Selected' = Selected /\ ForProducts' = ForProducts /\ \A o : LinesOf(o)' = LinesOf(o)
    BY <2>1, SameLists
  <2>. QED
    BY <2>1, <2>2 DEF WalkInv
<1>3. CASE Starts
  <2>1. /\ UNCHANGED <<at, status, lines, created, query, size, page, responses>>
        /\ phase = "start" /\ phase' = "walking" /\ size > 0
        /\ base' = {r \in Rows : ForProducts \/ r[2] # 0} /\ pushed' = 0 /\ left' = FALSE
    BY <1>3 DEF Starts, tables, ValidFilters, ForProducts
  <2>2. /\ Stored' = Stored /\ ForProducts' = ForProducts /\ Rows' = Rows /\ Selected' = Selected
        /\ \A o : LinesOf(o)' = LinesOf(o)
    BY <2>1, SameLists
  <2>3. ASSUME NEW r \in base'
        PROVE  /\ IF ForProducts THEN r \in created \X {0}
                  ELSE r[1] \in Stored /\ r[2] \in LinesOf(r[1])
               /\ ~ ForProducts => r[1] \in Selected
    <3>1. r \in Rows /\ (ForProducts \/ r[2] # 0)
      BY <2>1
    <3>2. IF ForProducts THEN r \in created \X {0}
          ELSE r[1] \in Stored /\ r[2] \in LinesOf(r[1])
      BY <3>1, RowShape DEF Rows, ProductRows, ForProducts
    <3>3. ~ ForProducts => r[1] \in Selected
      BY <3>1, RowShape
    <3>. QED
      BY <3>2, <3>3
  <2>4. responses = << >> /\ DOMAIN responses = {} /\ responses \in Seq(Pages)
    <3>1. responses = << >> /\ responses \in Seq(Pages)
      BY <2>1 DEF WalkInv
    <3>. QED
      BY <3>1
  <2>. QED
    BY <2>1, <2>2, <2>3, <2>4 DEF WalkInv
<1>4. CASE GetPage
  <2>1. size > 0 /\ size \in Nat \ {0} /\ phase = "walking"
    BY <1>4, ListingAssumption DEF GetPage, WalkInv, TypeOK
  <2>2. PICK rows \in Sorted :
          /\ \/ responses' = responses
             \/ Cut(rows) # << >> /\ responses' = Append(responses, Response(Cut(rows)))
          /\ phase' \in {"walking", EndOf(Cut(rows))}
          /\ UNCHANGED <<tables, query, size, base, pushed, left>>
    BY <1>4, <2>1, PageEffect
  <2>3. /\ UNCHANGED <<at, status, lines, created, query, size, base, pushed, left>>
        /\ phase' \in {"walking", "done", "notfound"}
    BY <2>2 DEF tables, EndOf
  <2>4. /\ Stored' = Stored /\ ForProducts' = ForProducts /\ Rows' = Rows /\ Selected' = Selected
        /\ \A o : LinesOf(o)' = LinesOf(o)
    BY <2>3, SameLists
  <2>5. /\ responses' \in Seq(Pages)
        /\ ~ ForProducts =>
             \A k \in DOMAIN responses' : \A o \in DOMAIN responses'[k] :
               responses'[k][o] \subseteq LinesOf(o)
    <3>1. /\ responses \in Seq(Pages)
          /\ ~ ForProducts =>
               \A k \in DOMAIN responses : \A o \in DOMAIN responses[k] :
                 responses[k][o] \subseteq LinesOf(o)
      BY DEF WalkInv
    <3>2. CASE responses' = responses
      BY <3>1, <3>2
    <3>3. CASE Cut(rows) # << >> /\ responses' = Append(responses, Response(Cut(rows)))
      <4>1. Cut(rows) \in Seq(Rows) /\ Len(Cut(rows)) \in 0 .. size
        BY <2>1, CutIs
      <4>2. Len(Cut(rows)) \in 1 .. size
        BY <3>3, <4>1
      <4>3. Response(Cut(rows)) \in Pages
        BY <2>1, <4>1, <4>2, ResponseType
      <4>4. ~ ForProducts => \A o \in DOMAIN Response(Cut(rows)) :
                               Response(Cut(rows))[o] \subseteq LinesOf(o)
        BY <4>1, PageOfItems
      <4>5. PICK shown \in Pages :
              /\ responses' = Append(responses, shown)
              /\ ~ ForProducts => \A o \in DOMAIN shown : shown[o] \subseteq LinesOf(o)
        BY <3>3, <4>3, <4>4
      <4>6. \A k \in DOMAIN responses' :
              (k \in DOMAIN responses /\ responses'[k] = responses[k]) \/ responses'[k] = shown
        BY <3>1, <4>5
      <4>7. responses' \in Seq(Pages)
        BY <3>1, <4>5
      <4>. QED
        BY <3>1, <4>5, <4>6, <4>7
    <3>. QED
      BY <2>2, <3>2, <3>3
  <2>6. /\ ~ left /\ ~ ForProducts => \A r \in base : r[1] \in Selected
        /\ pushed = 0 => ~ left
        /\ \A r \in base : IF ForProducts THEN r \in created \X {0}
                           ELSE r[1] \in Stored /\ r[2] \in LinesOf(r[1])
        /\ pushed = 0 => base = {r \in Rows : ForProducts \/ r[2] # 0}
    BY <2>1 DEF WalkInv
  <2>. QED
    BY <2>1, <2>3, <2>4, <2>5, <2>6 DEF WalkInv
<1>5. CASE UNCHANGED vars
  <2>1. UNCHANGED <<at, status, lines, created, query, size, page, phase, responses, base, pushed, left>>
    BY <1>5 DEF vars, tables, walk
  <2>2. /\ Stored' = Stored /\ ForProducts' = ForProducts /\ Rows' = Rows /\ Selected' = Selected
        /\ \A o : LinesOf(o)' = LinesOf(o)
    BY <2>1, SameLists
  <2>. QED
    BY <2>1, <2>2 DEF WalkInv
<1>. QED
  BY <1>1, <1>2, <1>3, <1>4, <1>5, NextCases

-----------------------------------------------------------------------------
(* The places of the rows that could be shown.                             *)

PlaceOK(r) ==
  /\ phase = "walking" /\ GrowsOnly => TimesShown(r) > 0 \/ ~ Passed(r)
  /\ phase = "done" /\ GrowsOnly => TimesShown(r) > 0
  /\ TimesShown(r) <= 1 + pushed
  /\ phase = "walking" /\ r \in Rows /\ ~ Passed(r) => TimesShown(r) <= pushed

LEMMA PlaceInvIs == PlaceInv <=> \A r \in base : ~ Tied(r) => PlaceOK(r)
  BY DEF PlaceInv, PlaceOK

LEMMA PlacePushed ==
  ASSUME TypeOK, TablesInv, WalkInv, TypeOK', TablesInv', TableStep, phase = "walking",
         NEW r \in base, Tied(r) \/ PlaceOK(r), ~ Tied(r)'
  PROVE  PlaceOK(r)'
<1>1. /\ UNCHANGED <<query, size, page, phase, responses, base>> /\ pushed' = pushed + 1
      /\ pushed \in Nat
  BY DEF TableStep, Changed, TypeOK
<1>2. BaseRow(r) /\ TablesGrow
  BY BaseRows, TableEffect
<1>3. PlaceOK(r)
  BY <1>1, <1>2, TiedStays
<1>4. TimesShown(r) \in Nat /\ TimesShown(r)' = TimesShown(r)
  BY <1>1, TimesShownSteps DEF WalkInv
<1>5. TimesShown(r) <= 1 + pushed
  BY <1>3 DEF PlaceOK
<1>6. ASSUME ~ left', TimesShown(r) = 0 PROVE ~ Passed(r)'
  <2>0. ~ left /\ Selected \subseteq Selected'
    BY <1>6, SelectedGrows
  <2>1. ~ Passed(r)
    BY <1>3, <1>6, <2>0 DEF PlaceOK, GrowsOnly
  <2>2. /\ Cardinality(Before(r)) \in Nat /\ Cardinality(Before(r)') \in Nat
        /\ Cardinality(Before(r)) <= Cardinality(Before(r)')
    BY <1>1, <1>2, <2>0, BeforeGrows
  <2>3. Offset(page, size) \in Nat /\ Offset(page, size)' = Offset(page, size)
    <3>1. page \in Nat \ {0} /\ size \in Nat
      BY ListingAssumption DEF TypeOK
    <3>. QED
      BY <1>1, <3>1, OffsetSteps DEF Offset
  <2>. QED
    BY <2>1, <2>2, <2>3 DEF Passed
<1>7. GrowsOnly' <=> ~ left'
  BY DEF GrowsOnly
<1>. QED
  BY <1>1, <1>4, <1>5, <1>6, <1>7 DEF PlaceOK

LEMMA PlacePage ==
  ASSUME TypeOK, TablesInv, WalkInv, GetPage, NEW r \in base, ~ Tied(r), PlaceOK(r)
  PROVE  PlaceOK(r)'
<1>. DEFINE b == Cardinality(Before(r))
            k == Offset(page, size)
<1>1. size > 0 /\ size \in Nat \ {0} /\ phase = "walking" /\ page \in Nat \ {0} /\ pushed \in Nat
  BY ListingAssumption DEF GetPage, WalkInv, TypeOK
<1>2. PICK rows \in Sorted :
        LET cut  == Cut(rows)
            more == cut # << >> /\ page < LastPage(Len(rows), size)
        IN  /\ responses' = IF cut = << >> THEN responses ELSE Append(responses, Response(cut))
            /\ page' = IF more THEN page + 1 ELSE page
            /\ phase' = IF more THEN "walking" ELSE EndOf(cut)
            /\ UNCHANGED <<tables, query, size, base, pushed, left>>
  BY <1>1, PageEffect
<1>. DEFINE cut == Cut(rows)
            n == Len(rows)
            shows == Shows(Response(cut), r)
<1>3. BaseRow(r) /\ (IF ForProducts THEN r[2] = 0 ELSE r[2] # 0)
  <2>1. BaseRow(r)
    BY BaseRows
  <2>2. CASE ForProducts
    BY <2>1, <2>2 DEF BaseRow
  <2>3. CASE ~ ForProducts
    BY <2>1, <2>3, ItemsAreStored DEF BaseRow
  <2>. QED
    BY <2>1, <2>2, <2>3
<1>4. /\ r \notin Rows => ~ shows
      /\ r \in Rows => b \in Nat /\ b < n /\ (shows <=> k <= b /\ b < k + size)
  BY <1>1, <1>3, PageShows DEF BaseRow
<1>5. /\ k \in Nat /\ Offset(page + 1, size) = k + size
  BY <1>1, OffsetSteps
<1>6. n \in Nat /\ (page >= LastPage(n, size) => n <= k + size)
  BY <1>1, SortedRows, LastPageReaches
<1>7. /\ cut \in Seq(Rows) /\ Len(cut) \in 0 .. size
      /\ \A i \in 1 .. n : k < i /\ i <= k + size => i - k \in 1 .. Len(cut)
  BY <1>1, CutIs
<1>8. cut = << >> => n <= k
  <2>1. cut = << >> => Len(cut) = 0
    <3>1. Len(<< >>) = 0
      OBVIOUS
    <3>. QED
      BY <3>1
  <2>2. ASSUME n > k PROVE k + 1 \in 1 .. n /\ k + 1 <= k + size
    BY <1>1, <1>5, <1>6, <2>2
  <2>3. n > k => (k + 1) - k \in 1 .. Len(cut)
    BY <1>5, <1>7, <2>2
  <2>. HIDE DEF k, n, cut
  <2>. QED
    BY <1>5, <1>6, <1>7, <2>1, <2>3
<1>9. Response(cut) \in Pages \/ cut = << >>
  <2>1. cut # << >> => Len(cut) \in 1 .. size
    BY <1>7
  <2>. HIDE DEF cut
  <2>. QED
    BY <1>1, <1>7, <2>1, ResponseType
<1>10. /\ TimesShown(r) \in Nat
       /\ TimesShown(r)' = TimesShown(r) + IF cut # << >> /\ shows THEN 1 ELSE 0
  <2>1. /\ TimesShown(r) \in Nat
        /\ responses' = responses => TimesShown(r)' = TimesShown(r)
        /\ \A shown \in Pages : responses' = Append(responses, shown) =>
             TimesShown(r)' = TimesShown(r) + IF Shows(shown, r) THEN 1 ELSE 0
    BY TimesShownSteps DEF WalkInv
  <2>2. responses' = IF cut = << >> THEN responses ELSE Append(responses, Response(cut))
    BY <1>2
  <2>. HIDE DEF cut
  <2>. QED
    BY <1>9, <2>1, <2>2
<1>11. /\ UNCHANGED <<at, status, lines, created, query, size, base, pushed, left>>
       /\ \/ phase' = "walking" /\ page' = page + 1 /\ cut # << >>
          \/ /\ phase' \in {"done", "notfound"} /\ page' = page
             /\ cut = << >> \/ page >= LastPage(n, size)
  <2>1. LastPage(n, size) \in Int
    BY <1>1, <1>6 DEF LastPage
  <2>. QED
    BY <1>1, <1>2, <2>1 DEF tables, EndOf
<1>12. /\ Rows' = Rows /\ Before(r)' = Before(r) /\ ForProducts' = ForProducts
  BY <1>11, SameLists
<1>13. Passed(r) <=> b < k
  BY DEF Passed
<1>14. phase' = "walking" => (Passed(r)' <=> b < k + size)
  BY <1>5, <1>11, <1>12 DEF Passed
<1>15. GrowsOnly' = GrowsOnly
  BY <1>11 DEF GrowsOnly
<1>16. GrowsOnly => r \in Rows
  <2>1. CASE ForProducts
    BY <1>3, <2>1 DEF BaseRow, Rows, ProductRows, ForProducts
  <2>2. CASE ~ ForProducts /\ ~ left
    <3>1. r = <<r[1], r[2]>> /\ r[2] \in LinesOf(r[1])
      BY <1>3, <2>2 DEF BaseRow
    <3>2. r[1] \in Selected
      BY <2>2 DEF WalkInv
    <3>. QED
      BY <2>2, <3>1, <3>2, RowOfItem
  <2>. QED
    BY <2>1, <2>2 DEF GrowsOnly
<1>. HIDE DEF b, k, cut, n, shows
<1>17. /\ GrowsOnly => TimesShown(r) > 0 \/ ~ b < k
       /\ TimesShown(r) <= 1 + pushed
       /\ r \in Rows /\ ~ b < k => TimesShown(r) <= pushed
  BY <1>1, <1>13 DEF PlaceOK
<1>18. TimesShown(r)' <= 1 + pushed
  BY <1>1, <1>4, <1>5, <1>10, <1>17
<1>19. CASE phase' = "walking" /\ page' = page + 1 /\ cut # << >>
  <2>1. GrowsOnly => TimesShown(r)' > 0 \/ ~ b < k + size
    BY <1>1, <1>4, <1>5, <1>10, <1>16, <1>17, <1>19
  <2>2. r \in Rows /\ ~ b < k + size => TimesShown(r)' <= pushed
    BY <1>1, <1>4, <1>5, <1>10, <1>17
  <2>. QED
    BY <1>11, <1>12, <1>14, <1>15, <1>18, <1>19, <2>1, <2>2 DEF PlaceOK
<1>20. CASE /\ phase' \in {"done", "notfound"} /\ page' = page
            /\ cut = << >> \/ page >= LastPage(n, size)
  <2>1. GrowsOnly => TimesShown(r)' > 0
    <3>1. CASE cut = << >>
      BY <1>4, <1>5, <1>6, <1>8, <1>10, <1>16, <1>17, <3>1
    <3>2. CASE cut # << >> /\ page >= LastPage(n, size)
      BY <1>1, <1>4, <1>5, <1>6, <1>10, <1>16, <1>17, <3>2
    <3>. QED
      BY <1>20, <3>1, <3>2
  <2>. QED
    BY <1>11, <1>15, <1>18, <1>20, <2>1 DEF PlaceOK
<1>. QED
  BY <1>11, <1>19, <1>20

LEMMA PlaceStep ==
  ASSUME TypeOK, TablesInv, WalkInv, PlaceInv, [Next]_vars
  PROVE  PlaceInv'
<1>0. TypeOK' /\ TablesInv'
  BY TypeStep
<1>1. (PlaceInv <=> \A r \in base : ~ Tied(r) => PlaceOK(r))'
  BY PlaceInvIs, PTL
<1>2. \A r \in base : Tied(r) \/ PlaceOK(r)
  BY PlaceInvIs
<1>3. CASE TableStep
  <2>1. base' = base /\ phase \in {"start", "walking"}
    BY <1>3 DEF TableStep, Changed
  <2>2. phase = "start" => base = {}
    BY DEF WalkInv
  <2>3. ASSUME NEW r \in base, ~ Tied(r)' PROVE PlaceOK(r)'
    BY <1>0, <1>2, <1>3, <2>1, <2>2, <2>3, PlacePushed
  <2>. QED
    BY <1>1, <2>1, <2>3
<1>4. CASE AsksBadly
  <2>1. base' = {}
    BY <1>4 DEF AsksBadly, WalkInv
  <2>. QED
    BY <1>1, <2>1
<1>5. CASE Starts
  <2>1. /\ UNCHANGED <<at, status, lines, created, query, size, page, responses>>
        /\ page = 1 /\ phase' = "walking" /\ responses = << >> /\ pushed' = 0
        /\ base' \subseteq Rows
    BY <1>5 DEF Starts, tables, WalkInv
  <2>2. Rows' = Rows /\ \A r : Before(r)' = Before(r)
    BY <2>1, SameLists
  <2>3. ASSUME NEW r \in base' PROVE PlaceOK(r)'
    <3>1. Cardinality(Before(r)) \in Nat
      <4>1. Before(r) \subseteq Rows
        BY DEF Before
      <4>. QED
        BY <4>1, RowsFinite, FS_Subset, FS_CardinalityType
    <3>2. Offset(page', size') = 0
      <4>1. size \in Nat
        BY ListingAssumption DEF TypeOK
      <4>. QED
        BY <2>1, <4>1, OffsetSteps
    <3>3. ~ Passed(r)'
      BY <2>2, <3>1, <3>2 DEF Passed
    <3>4. TimesShown(r)' = 0
      <4>1. DOMAIN responses' = {}
        BY <2>1
      <4>. QED
        BY <4>1, FS_EmptySet DEF TimesShown
    <3>. QED
      BY <2>1, <3>3, <3>4 DEF PlaceOK
  <2>. QED
    BY <1>1, <2>3
<1>6. CASE GetPage
  <2>1. UNCHANGED <<at, status, lines, created, query, base>>
    BY <1>6 DEF GetPage, tables
  <2>2. \A r : Tied(r)' = Tied(r)
    BY <2>1, SameLists
  <2>3. ASSUME NEW r \in base, ~ Tied(r) PROVE PlaceOK(r)'
    BY <1>2, <1>6, <2>3, PlacePage
  <2>. QED
    BY <1>1, <2>1, <2>2, <2>3
<1>7. CASE UNCHANGED vars
  <2>1. UNCHANGED <<at, status, lines, created, query, size, page, phase, responses, base, pushed, left>>
    BY <1>7 DEF vars, tables, walk
  <2>2. Rows' = Rows /\ \A r : Before(r)' = Before(r) /\ Tied(r)' = Tied(r)
    BY <2>1, SameLists
  <2>3. ASSUME NEW r \in base, ~ Tied(r) PROVE PlaceOK(r)'
    <3>1. PlaceOK(r) /\ TimesShown(r)' = TimesShown(r) /\ Passed(r)' = Passed(r)
      BY <1>2, <2>1, <2>2, <2>3 DEF TimesShown, Passed
    <3>. QED
      BY <2>1, <2>2, <3>1 DEF PlaceOK, GrowsOnly
  <2>. QED
    BY <1>1, <2>1, <2>2, <2>3
<1>. QED
  BY <1>3, <1>4, <1>5, <1>6, <1>7, NextCases

THEOREM IInvariant == Spec => []IInv
<1>1. Init => IInv
  BY TypeInit, WalkInit DEF IInv
<1>2. IInv /\ [Next]_vars => IInv'
  BY TypeStep, WalkStep, PlaceStep DEF IInv
<1>. QED
  BY <1>1, <1>2, PTL DEF Spec

(* Every variable keeps its type, and no page has more entries, nor an     *)
(* entry more items, than the page size asked for.                         *)
THEOREM TypeCorrect == Spec => []TypeOK
<1>1. IInv => TypeOK
  BY DEF IInv
<1>. QED
  BY <1>1, IInvariant, PTL

(* A walk read to its last page has shown every item and product that was  *)
(* stored when it began, unless an order left the list meanwhile, which    *)
(* only the list of one status allows (GetAllOrders, GetUserOrders and     *)
(* GetAllProducts, with calculateMetadata).                                *)
THEOREM WalkMissesNothingThm == Spec => []WalkMissesNothing
<1>1. IInv => WalkMissesNothing
  BY DEF IInv, PlaceInv, GrowsOnly, WalkMissesNothing
<1>. QED
  BY <1>1, IInvariant, PTL

(* No row is shown more often than once and once more for each statement   *)
(* that changed the lists during the walk.                                 *)
THEOREM RepeatedOnlyIfPushedThm == Spec => []RepeatedOnlyIfPushed
<1>1. IInv => RepeatedOnlyIfPushed
  BY DEF IInv, PlaceInv, RepeatedOnlyIfPushed
<1>. QED
  BY <1>1, IInvariant, PTL

(* The pages of an undisturbed walk through any list of orders show, under *)
(* every order of it, exactly its items (populateAllOrders and its like).  *)
THEOREM QuietWalkIsExactThm == Spec => []QuietWalkIsExact
<1>1. ASSUME IInv, phase = "done", pushed = 0, query.of # "products", NEW o \in Selected
      PROVE  UNION {responses[k][o] : k \in {k \in DOMAIN responses : o \in DOMAIN responses[k]}}
               = LinesOf(o)
  <2>0. TypeOK /\ TablesInv /\ WalkInv /\ PlaceInv /\ ~ ForProducts /\ o \in Stored
    BY <1>1 DEF IInv, ForProducts, Selected
  <2>1. \A k \in DOMAIN responses : o \in DOMAIN responses[k] => responses[k][o] \subseteq LinesOf(o)
    BY <2>0 DEF WalkInv
  <2>2. ASSUME NEW n \in LinesOf(o)
        PROVE  \E k \in DOMAIN responses : o \in DOMAIN responses[k] /\ n \in responses[k][o]
    <3>. DEFINE r == <<o, n>>
                K == {k \in DOMAIN responses : Shows(responses[k], r)}
    <3>1. n # 0
      BY <2>0, ItemsAreStored
    <3>2. r \in Rows
      BY <2>0, RowOfItem
    <3>3. r \in base
      BY <1>1, <2>0, <3>1, <3>2 DEF WalkInv
    <3>4. ~ Tied(r)
      BY <2>0, ItemNotTied DEF BaseRow
    <3>5. TimesShown(r) > 0
      BY <1>1, <2>0, <3>3, <3>4 DEF PlaceInv, GrowsOnly, WalkInv
    <3>6. K # {}
      <4>1. TimesShown(r) = Cardinality(K)
        BY DEF TimesShown
      <4>. HIDE DEF K
      <4>. QED
        BY <3>5, <4>1, FS_EmptySet
    <3>7. PICK k \in DOMAIN responses : Shows(responses[k], r)
      BY <3>6
    <3>. QED
      BY <3>1, <3>7 DEF Shows
  <2>. QED
    BY <2>1, <2>2
<1>2. IInv => QuietWalkIsExact
  BY <1>1 DEF QuietWalkIsExact
<1>. QED
  BY <1>2, IInvariant, PTL
=============================================================================
