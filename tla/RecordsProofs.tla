----------------------------- MODULE RecordsProofs -----------------------------
(***************************************************************************)
(* Records for every demo database, set of queries and number of writes:   *)
(* the types, the two walks, the pages, the tasks' listing and reopening.  *)
(***************************************************************************)
EXTENDS Records, FiniteSetTheorems, TLAPS

RowsOf == Statement(asked).rows
OrderOf == Statement(asked).order
SizeOf == Statement(asked).size

\* A row that the client has still to be given is on a page it has still to read.
WalkInv ==
  SizeOf > 0 =>
    /\ done => steady \subseteq seen
    /\ \A x \in steady \ seen : Rank(x, RowsOf, OrderOf) >= page * SizeOf

\* What a task remembers: its value before it was completed, and the last of its values
\* that was not COMPLETE.
Remembers(t) ==
  /\ tasks[t].value # "COMPLETE" =>
       last[t] = IF tasks[t].value = NULL THEN "OPEN" ELSE tasks[t].value
  /\ t \notin again =>
       /\ tasks[t].previous_value # "COMPLETE"
       /\ tasks[t].value = "COMPLETE" =>
            last[t] = IF tasks[t].previous_value = NULL THEN "OPEN"
                      ELSE tasks[t].previous_value

TaskInv ==
  \A t \in Existing :
    /\ tasks[t].work_order = home[t] /\ home[t] \in DOMAIN orders \cup {NULL}
    /\ Remembers(t)

IInv == TypeOK /\ WalkInv /\ TaskInv

-------------------------------------------------------------------------------
(* Pages.                                                                      *)

LEMMA RankType ==
  ASSUME NEW R, IsFiniteSet(R), NEW B, NEW x
  PROVE  /\ Rank(x, R, B) \in Nat
         /\ \A S \in SUBSET R : (\A y \in S : <<y, x>> \in B) => Cardinality(S) <= Rank(x, R, B)
<1> DEFINE E == {y \in R : <<y, x>> \in B}
<1>1. IsFiniteSet(E)
  BY FS_Subset
<1>2. Cardinality(E) \in Nat
  BY <1>1, FS_CardinalityType
<1>3. ASSUME NEW S \in SUBSET R, \A y \in S : <<y, x>> \in B
      PROVE  Cardinality(S) <= Cardinality(E)
  <2>1. S \in SUBSET E
    BY <1>3
  <2> QED BY <1>1, <2>1, FS_Subset
<1> QED BY <1>2, <1>3 DEF Rank

LEMMA PrefixSize ==
  ASSUME NEW R, IsFiniteSet(R), NEW B, NEW k \in Nat, NEW D, Prefix(D, k, R, B)
  PROVE  /\ D \in SUBSET R /\ IsFiniteSet(D) /\ Cardinality(D) \in Nat
         /\ Cardinality(R) \in Nat /\ Cardinality(D) <= k
         /\ Cardinality(D) = k \/ D = R
<1>1. D \in SUBSET R /\ Cardinality(D) = Least(k, Cardinality(R))
  BY DEF Prefix
<1>2. IsFiniteSet(D) /\ Cardinality(D) \in Nat /\ Cardinality(R) \in Nat
  BY <1>1, FS_Subset, FS_CardinalityType
<1>3. CASE k <= Cardinality(R)
  BY <1>1, <1>2, <1>3 DEF Least
<1>4. CASE ~(k <= Cardinality(R))
  <2>1. Cardinality(D) = Cardinality(R)
    BY <1>1, <1>4 DEF Least
  <2>2. D = R
    BY <1>1, <2>1, FS_Subset
  <2> QED BY <1>1, <1>2, <1>4, <2>1, <2>2
<1> QED BY <1>3, <1>4

\* A row at or behind the page's offset that is tied with no other is on the page or
\* behind it.
LEMMA PageKeeps ==
  ASSUME NEW R, IsFiniteSet(R), NEW B, \A y \in R : <<y, y>> \notin B,
         NEW off \in Nat, NEW n \in Nat, NEW P \in Pages(R, B, off, n),
         NEW x \in R \ P, Untied(x, R, B), Rank(x, R, B) >= off
  PROVE  Rank(x, R, B) >= off + n
<1>1. PICK D \in SUBSET (R \ P) : Prefix(D, off, R, B) /\ Prefix(D \cup P, off + n, R, B)
  BY DEF Pages
<1>2. x \notin D
  <2> SUFFICES ASSUME x \in D PROVE FALSE
    OBVIOUS
  <2> DEFINE E == {y \in R : <<y, x>> \in B}
  <2>1. IsFiniteSet(E) /\ Cardinality(E) = Rank(x, R, B) /\ Cardinality(E) \in Nat
    <3>1. IsFiniteSet(E)
      BY FS_Subset
    <3> QED BY <3>1, FS_CardinalityType DEF Rank
  <2>2. E \cup {x} \in SUBSET D /\ x \notin E
    BY <1>1 DEF Prefix
  <2>3. Cardinality(E \cup {x}) = Cardinality(E) + 1
    BY <2>1, <2>2, FS_AddElement
  <2>4. Cardinality(E \cup {x}) <= Cardinality(D) /\ Cardinality(D) <= off
    BY <1>1, <2>2, PrefixSize, FS_Subset
  <2>5. Cardinality(D) \in Nat
    BY <1>1, PrefixSize
  <2> HIDE DEF E
  <2> QED BY <2>1, <2>3, <2>4, <2>5
<1>3. \A y \in D \cup P : <<y, x>> \in B
  BY <1>1, <1>2 DEF Prefix, Untied
<1>4. Cardinality(D \cup P) <= Rank(x, R, B)
  BY <1>1, <1>3, PrefixSize, RankType
<1>5. Cardinality(D \cup P) = off + n
  <2>1. D \cup P # R
    BY <1>2
  <2> QED BY <1>1, <2>1, PrefixSize
<1> QED BY <1>4, <1>5

\* Behind an empty page there is no row.
LEMMA LastPage ==
  ASSUME NEW R, IsFiniteSet(R), NEW B, \A y \in R : <<y, y>> \notin B,
         NEW off \in Nat, NEW n \in Nat \ {0}, {} \in Pages(R, B, off, n),
         NEW x \in R
  PROVE  Rank(x, R, B) < off
<1>1. PICK D : Prefix(D, off, R, B) /\ Prefix(D \cup {}, off + n, R, B)
  BY DEF Pages
<1>2. D \cup {} = D
  OBVIOUS
<1>3. D = R /\ Cardinality(R) \in Nat /\ Cardinality(R) <= off
  <2>1. Prefix(D, off + n, R, B) /\ off + n \in Nat
    BY <1>1, <1>2
  <2>2. Cardinality(D) \in Nat /\ Cardinality(D) <= off
    BY <1>1, PrefixSize
  <2>3. Cardinality(D) = off + n \/ D = R
    BY <2>1, PrefixSize
  <2> QED BY <2>2, <2>3
<1> DEFINE E == {y \in R : <<y, x>> \in B}
<1>4. IsFiniteSet(E) /\ Cardinality(E) \in Nat /\ Cardinality(E) = Rank(x, R, B)
  <2>1. IsFiniteSet(E)
    BY FS_Subset
  <2> QED BY <2>1, FS_CardinalityType DEF Rank
<1>5. E \cup {x} \in SUBSET R /\ x \notin E
  OBVIOUS
<1>6. Cardinality(E \cup {x}) = Cardinality(E) + 1 /\ Cardinality(E \cup {x}) <= Cardinality(R)
  BY <1>4, <1>5, FS_AddElement, FS_Subset
<1> HIDE DEF E
<1> QED BY <1>3, <1>4, <1>6

\* Among rows of which no two are tied, k rows can be the first in one way.
LEMMA OnePrefix ==
  ASSUME NEW R, IsFiniteSet(R), NEW B, \A x \in R : Untied(x, R, B), NEW k \in Nat,
         NEW D, NEW E, Prefix(D, k, R, B), Prefix(E, k, R, B)
  PROVE  D = E
<1>1. /\ D \in SUBSET R /\ IsFiniteSet(D) /\ E \in SUBSET R /\ IsFiniteSet(E)
      /\ Cardinality(D) = Cardinality(E)
  BY PrefixSize DEF Prefix
<1>2. D \in SUBSET E \/ E \in SUBSET D
  <2> SUFFICES ASSUME NEW x \in D \ E, NEW y \in E \ D PROVE FALSE
    OBVIOUS
  <2>1. <<x, y>> \in B \/ <<y, x>> \in B
    BY <1>1 DEF Untied
  <2> QED BY <1>1, <2>1 DEF Prefix
<1> QED BY <1>1, <1>2, FS_Subset

\* B puts the rows R in a line.
Linear(R, B) ==
  /\ \A x \in R : <<x, x>> \notin B
  /\ \A x, y, z \in R : <<x, y>> \in B /\ <<y, z>> \in B => <<x, z>> \in B
  /\ \A x \in R : Untied(x, R, B)

\* The ranks of a line are 0, 1, 2 and so on, so its first k rows are those of rank < k.
LEMMA FirstRows ==
  ASSUME NEW R, IsFiniteSet(R), NEW B, Linear(R, B), NEW k \in Nat
  PROVE  Prefix({x \in R : Rank(x, R, B) < k}, k, R, B)
<1> DEFINE n == Cardinality(R)
           D == {x \in R : Rank(x, R, B) < k}
           f == [x \in R |-> Rank(x, R, B)]
           T == {f[x] : x \in R}
<1>1. n \in Nat
  BY FS_CardinalityType
<1>2. ASSUME NEW x \in R PROVE f[x] \in Nat /\ f[x] < n
  <2> DEFINE E == {y \in R : <<y, x>> \in B}
  <2>1. IsFiniteSet(E) /\ Cardinality(E) \in Nat /\ f[x] = Cardinality(E)
    BY FS_Subset, FS_CardinalityType DEF Rank
  <2>2. E \cup {x} \in SUBSET R /\ x \notin E
    BY DEF Linear
  <2>3. Cardinality(E \cup {x}) = Cardinality(E) + 1 /\ Cardinality(E \cup {x}) <= n
    BY <2>1, <2>2, FS_AddElement, FS_Subset
  <2> HIDE DEF E, f, n
  <2> QED BY <1>1, <2>1, <2>3
<1>3. ASSUME NEW x \in R, NEW y \in R, <<x, y>> \in B PROVE f[x] < f[y]
  <2> DEFINE E == {z \in R : <<z, x>> \in B}
             G == {z \in R : <<z, y>> \in B}
  <2>1. /\ IsFiniteSet(E) /\ Cardinality(E) \in Nat /\ f[x] = Cardinality(E)
        /\ IsFiniteSet(G) /\ Cardinality(G) \in Nat /\ f[y] = Cardinality(G)
    BY FS_Subset, FS_CardinalityType DEF Rank
  <2>2. E \cup {x} \in SUBSET G /\ x \notin E
    BY <1>3 DEF Linear
  <2>3. Cardinality(E \cup {x}) = Cardinality(E) + 1 /\ Cardinality(E \cup {x}) <= Cardinality(G)
    BY <2>1, <2>2, FS_AddElement, FS_Subset
  <2> HIDE DEF E, G, f
  <2> QED BY <2>1, <2>3
<1> HIDE DEF f
<1>4. ASSUME NEW x \in R, NEW y \in R, f[x] = f[y] PROVE x = y
  <2>1. ~(f[x] < f[y]) /\ ~(f[y] < f[x])
    BY <1>2, <1>4
  <2> QED BY <1>3, <2>1 DEF Linear, Untied
<1>5. T = 0..(n - 1)
  <2>1. f \in Surjection(R, T) /\ f \in Injection(R, T)
    BY <1>4 DEF f, Surjection, Injection, IsInjective
  <2>2. Cardinality(T) = n
    BY <2>1, FS_Surjection
  <2>3. IsFiniteSet(0..(n - 1)) /\ Cardinality(0..(n - 1)) = n
    BY <1>1, FS_Interval
  <2>4. T \in SUBSET (0..(n - 1))
    BY <1>1, <1>2
  <2> HIDE DEF T, n
  <2> QED BY <2>2, <2>3, <2>4, FS_Subset
<1>6. D = {x \in R : f[x] < k}
  BY DEF f
<1> HIDE DEF D
<1>7. Cardinality(D) = Least(k, n)
  <2>1. CASE n <= k
    <3>1. D = R
      BY <1>1, <1>2, <1>6, <2>1
    <3> QED BY <1>1, <2>1, <3>1 DEF Least
  <2>2. CASE k < n
    <3> DEFINE K == 0..(k - 1)
               g == [x \in D |-> f[x]]
    <3>1. \A x \in D : f[x] \in K
      BY <1>2, <1>6
    <3>2. \A i \in K : \E x \in D : f[x] = i
      <4> SUFFICES ASSUME NEW i \in K PROVE \E x \in D : f[x] = i
        OBVIOUS
      <4>1. i \in 0..(n - 1) /\ i < k
        BY <1>1, <2>2
      <4> QED BY <1>5, <1>6, <4>1
    <3>3. g \in Surjection(D, K) /\ g \in Injection(D, K)
      BY <1>4, <1>6, <3>1, <3>2 DEF Surjection, Injection, IsInjective
    <3>4. IsFiniteSet(D)
      BY <1>6, FS_Subset
    <3>5. Cardinality(K) = Cardinality(D)
      BY <3>3, <3>4, FS_Surjection
    <3>6. Cardinality(K) = k
      BY FS_Interval
    <3> QED BY <1>1, <2>2, <3>5, <3>6 DEF Least
  <2> QED BY <1>1, <2>1, <2>2
<1>8. ASSUME NEW x \in R, NEW y \in D, <<x, y>> \in B PROVE x \in D
  BY <1>2, <1>3, <1>6, <1>8
<1> QED BY <1>6, <1>7, <1>8 DEF Prefix, D, f

LEMMA OnePage ==
  ASSUME NEW R, IsFiniteSet(R), NEW B, Linear(R, B), NEW off \in Nat, NEW n \in Nat
  PROVE  Cardinality(Pages(R, B, off, n)) = 1
<1> DEFINE D == {x \in R : Rank(x, R, B) < off}
           F == {x \in R : Rank(x, R, B) < off + n}
<1>1. Prefix(D, off, R, B)
  BY FirstRows
<1>2. Prefix(F, off + n, R, B)
  BY FirstRows
<1>3. D \in SUBSET F /\ F \in SUBSET R
  <2>1. \A x \in R : Rank(x, R, B) \in Nat
    BY RankType
  <2> QED BY <2>1
<1> HIDE DEF D, F
<1>4. F \ D \in Pages(R, B, off, n)
  <2>1. D \cup (F \ D) = F /\ D \in SUBSET (R \ (F \ D)) /\ F \ D \in SUBSET R
    BY <1>3
  <2> QED BY <1>1, <1>2, <2>1 DEF Pages
<1>5. ASSUME NEW P \in Pages(R, B, off, n) PROVE P = F \ D
  <2>1. PICK E \in SUBSET (R \ P) : Prefix(E, off, R, B) /\ Prefix(E \cup P, off + n, R, B)
    BY DEF Pages
  <2>2. E = D
    BY <1>1, <2>1, OnePrefix DEF Linear
  <2>3. E \cup P = F
    <3>1. off + n \in Nat
      OBVIOUS
    <3> QED BY <1>2, <2>1, <3>1, OnePrefix DEF Linear
  <2> QED BY <2>1, <2>2, <2>3
<1>6. Pages(R, B, off, n) = {F \ D}
  BY <1>4, <1>5
<1> QED BY <1>6, FS_Singleton

-------------------------------------------------------------------------------
(* Statements.                                                                 *)

LEMMA InUseFinite ==
  ASSUME CatalogueTypeOK, NEW column
  PROVE  IsFiniteSet(InUse(column))
<1> DEFINE f == [w \in DOMAIN orders |-> orders[w][column]]
           T == {orders[w][column] : w \in DOMAIN orders}
<1>1. IsFiniteSet(DOMAIN orders)
  <2>1. DOMAIN orders \in SUBSET Orders
    BY DEF CatalogueTypeOK
  <2> QED BY <2>1, CatalogueAssumption, FS_Subset
<1>2. f \in Surjection(DOMAIN orders, T)
  BY DEF Surjection
<1>3. IsFiniteSet(T)
  BY <1>1, <1>2, FS_Surjection
<1>4. InUse(column) \in SUBSET T
  BY DEF InUse
<1> QED BY <1>3, <1>4, FS_Subset

LEMMA KeptFinite ==
  ASSUME NEW S, IsFiniteSet(S), NEW groups
  PROVE  IsFiniteSet(Kept(S, groups))
<1>1. Kept(S, groups) \in SUBSET S
  BY DEF Kept
<1> QED BY <1>1, FS_Subset

LEMMA PageSizeType ==
  ASSUME NEW n \in Nat \cup {NULL}
  PROVE  PageSize(n) \in Nat \ {0}
  BY CatalogueAssumption DEF PageSize, Least

LEMMA QueryKinds ==
  ASSUME NEW q \in Queries
  PROVE  \/ q.on = "work_orders" /\ q.pageSize \in Nat /\ Statement(q) = ListWorkOrdersPaged(q)
         \/ /\ q.on # "work_orders" /\ q.pageSize \in Nat \cup {NULL}
            /\ \/ Statement(q) = SearchOrgUsers(q)
               \/ Statement(q) = SearchOrgAssets(q)
               \/ Statement(q) = SearchOrgTeams(q)
               \/ Statement(q) = SearchOrgLocations(q)
<1>1. CASE q.on = "work_orders" /\ q.pageSize \in Nat
  BY <1>1 DEF Statement
<1>2. CASE q.on \in Searches /\ q.pageSize \in Nat \cup {NULL}
  BY <1>2 DEF Statement, Searches
<1> QED BY <1>1, <1>2, RecordsAssumption

LEMMA SearchShape ==
  ASSUME CatalogueTypeOK, NEW q \in Queries, q.on # "work_orders"
  PROVE  /\ IsFiniteSet(Statement(q).rows)
         /\ \A x : <<x, x>> \notin Statement(q).order
         /\ Statement(q).size = PageSize(q.pageSize)
         /\ Statement(q).size \in Nat \ {0}
<1>1. PICK S \in SUBSET Entities :
        IsFiniteSet(S) /\ Statement(q) = NewestFirst(S, q.pageSize)
  <2>1. IsFiniteSet({u \in Users : members[u] # NULL})
    BY CatalogueAssumption, FS_Subset
  <2>2. \A column \in {"asset", "team", "location"} :
          InUse(column) \subseteq Assets \cup Teams \cup Locations
    BY DEF InUse, CatalogueTypeOK, RowTypeOK
  <2>3. \A T, groups : Kept(T, groups) \subseteq T
    BY DEF Kept
  <2> QED BY <2>1, <2>2, <2>3, InUseFinite, KeptFinite, QueryKinds DEF SearchOrgUsers,
             SearchOrgAssets, SearchOrgTeams, SearchOrgLocations, Entities
<1>2. PageSize(q.pageSize) \in Nat \ {0}
  BY QueryKinds, PageSizeType
<1>3. \A x \in S : ~(Born[x] > Born[x])
  BY CatalogueAssumption
<1> QED BY <1>1, <1>2, <1>3 DEF NewestFirst

\* The list's order leaves no two work orders uncompared.
LEMMA ListShape ==
  ASSUME CatalogueTypeOK, NEW q \in Queries, q.on = "work_orders"
  PROVE  /\ IsFiniteSet(Statement(q).rows)
         /\ \A x : <<x, x>> \notin Statement(q).order
         /\ Statement(q).size = q.pageSize /\ Statement(q).size \in Nat
         /\ \A x \in Statement(q).rows : Untied(x, Statement(q).rows, Statement(q).order)
<1> DEFINE f == Filtered(q)
<1>1. /\ Statement(q) = ListWorkOrdersPaged(q) /\ q.pageSize \in Nat
  BY QueryKinds
<1>2. f \in SUBSET Orders
  BY DEF Filtered, CatalogueTypeOK
<1>3. IsFiniteSet(f)
  BY <1>2, CatalogueAssumption, FS_Subset
<1>4. ASSUME NEW i \in f, NEW j \in f, i # j PROVE Before(i, j, q) \/ Before(j, i, q)
  <2>1. i \in Nat /\ j \in Nat
    BY <1>2, CatalogueAssumption
  <2>2. orders[i].created_at \in Nat /\ orders[j].created_at \in Nat
    BY CatalogueAssumption DEF Filtered, CatalogueTypeOK, RowTypeOK
  <2> QED BY <1>4, <2>1, <2>2 DEF Before
<1> HIDE DEF f
<1>5. /\ Statement(q).rows = f /\ Statement(q).size = q.pageSize
      /\ Statement(q).order = {e \in f \X f : e[1] # e[2] /\ Before(e[1], e[2], q)}
  BY <1>1 DEF ListWorkOrdersPaged, f
<1>6. \A x, y \in f : x # y => <<x, y>> \in Statement(q).order \/ <<y, x>> \in Statement(q).order
  BY <1>4, <1>5
<1>7. \A x : <<x, x>> \notin Statement(q).order
  BY <1>5
<1> QED BY <1>1, <1>3, <1>5, <1>6, <1>7 DEF Untied

\* Keys compare like their values, rows without one come last, and ties are broken by
\* creation and id: the three make one line.
LEMMA ListLinear ==
  ASSUME CatalogueTypeOK, NEW q \in Queries, q.on = "work_orders"
  PROVE  Linear(Statement(q).rows, Statement(q).order)
<1> DEFINE f == Filtered(q)
           c == q.sortField
<1>1. Statement(q) = ListWorkOrdersPaged(q)
  BY QueryKinds
<1>2. \A i \in f : /\ i \in Nat /\ orders[i].created_at \in Nat
                   /\ c \in Columns => orders[i][c] \in Nat \cup {NULL}
  <2>1. \A i \in f : i \in Nat /\ RowTypeOK(orders[i])
    BY CatalogueAssumption DEF Filtered, CatalogueTypeOK
  <2> HIDE DEF f
  <2> QED BY <2>1, CatalogueAssumption DEF RowTypeOK, Columns
<1>3. ASSUME NEW i \in f, NEW j \in f, NEW k \in f, Before(i, j, q), Before(j, k, q)
      PROVE  Before(i, k, q) /\ i # k
  <2> DEFINE at == orders[i].created_at
             bt == orders[j].created_at
             ct == orders[k].created_at
  <2>1. {i, j, k, at, bt, ct} \subseteq Nat
    BY <1>2
  <2>2. CASE c \notin Columns
    BY <1>3, <2>1, <2>2 DEF Before, KeyBefore
  <2>3. CASE c \in Columns
    <3> DEFINE a == orders[i][c]
               b == orders[j][c]
               d == orders[k][c]
    <3>1. {a, b, d} \subseteq Nat \cup {NULL}
      BY <1>2, <2>3
    <3>2. NULL \notin Nat
      BY CatalogueAssumption
    <3> QED BY <1>3, <2>1, <2>3, <3>1, <3>2 DEF Before, KeyBefore
  <2> QED BY <2>2, <2>3
<1> HIDE DEF f
<1>4. /\ Statement(q).rows = f
      /\ Statement(q).order = {e \in f \X f : e[1] # e[2] /\ Before(e[1], e[2], q)}
  BY <1>1 DEF ListWorkOrdersPaged, f
<1>5. ASSUME NEW x \in f, NEW y \in f, NEW z \in f,
             <<x, y>> \in Statement(q).order, <<y, z>> \in Statement(q).order
      PROVE  <<x, z>> \in Statement(q).order
  BY <1>3, <1>4, <1>5
<1> QED BY <1>4, <1>5, ListShape DEF Linear

LEMMA StatementShape ==
  ASSUME CatalogueTypeOK, NEW q \in Queries
  PROVE  /\ IsFiniteSet(Statement(q).rows) /\ \A x : <<x, x>> \notin Statement(q).order
         /\ Statement(q).size \in Nat
  BY SearchShape, ListShape

LEMMA RowsFinite == CatalogueTypeOK /\ asked \in Queries => IsFiniteSet(RowsOf)
  BY StatementShape DEF RowsOf

LEMMA RowsFiniteNext == (CatalogueTypeOK /\ asked \in Queries => IsFiniteSet(RowsOf))'
  BY RowsFinite, PTL

\* Between two writes a query stays what it is.
LEMMA StatementStays ==
  ASSUME UNCHANGED <<orders, members>>, NEW q \in Queries
  PROVE  Statement(q)' = Statement(q)
<1>1. \A column : InUse(column)' = InUse(column)
  BY DEF InUse
<1>2. \A x, f : Field(x, f)' = Field(x, f)
  BY DEF Field
<1>3. ASSUME NEW S, NEW groups PROVE Kept(S, groups)' = Kept(S, groups)
  BY <1>2 DEF Kept
<1>4. Filtered(q)' = Filtered(q)
  BY DEF Filtered
<1>5. \A i, j : Before(i, j, q)' <=> Before(i, j, q)
  BY DEF Before, KeyBefore
<1>6. ListWorkOrdersPaged(q)' = ListWorkOrdersPaged(q)
  BY <1>4, <1>5 DEF ListWorkOrdersPaged
<1>7. {u \in Users : members[u] # NULL}' = {u \in Users : members[u] # NULL}
  OBVIOUS
<1>8. SearchOrgUsers(q)' = SearchOrgUsers(q)
  BY <1>3, <1>7 DEF SearchOrgUsers, NewestFirst
<1>9. /\ SearchOrgAssets(q)' = SearchOrgAssets(q) /\ SearchOrgTeams(q)' = SearchOrgTeams(q)
      /\ SearchOrgLocations(q)' = SearchOrgLocations(q)
  BY <1>1, <1>3 DEF SearchOrgAssets, SearchOrgTeams, SearchOrgLocations, NewestFirst
<1> QED BY <1>6, <1>8, <1>9 DEF Statement

\* Nothing that is written changes the page size that was asked for.
LEMMA SizeKept ==
  ASSUME NEW q \in Queries
  PROVE  Statement(q)'.size = Statement(q).size
<1>1. CASE q.on = "work_orders"
  BY <1>1 DEF Statement, ListWorkOrdersPaged
<1>2. CASE q.on \in Searches
  BY <1>2 DEF Searches, Statement, SearchOrgUsers, SearchOrgAssets, SearchOrgTeams,
     SearchOrgLocations, NewestFirst
<1> QED BY <1>1, <1>2, RecordsAssumption

-------------------------------------------------------------------------------
(* Writes.                                                                     *)

LEMMA CatalogueTypes ==
  ASSUME CatalogueTypeOK, CatalogueWrite
  PROVE  CatalogueTypeOK'
<1>1. ASSUME NEW w \in Orders, NEW b \in Bodies, NEW t \in Times, CreateWorkOrder(w, b, t)
      PROVE  CatalogueTypeOK'
  <2>1. RowTypeOK(NewRow(b, t))
    BY CatalogueAssumption, RecordsAssumption DEF NewRow, RowTypeOK, Columns
  <2>2. /\ unborn' = unborn \ {w} /\ w \in unborn /\ members' = members
        /\ orders' = [x \in DOMAIN orders \cup {w} |->
                        IF x = w THEN NewRow(b, t) ELSE orders[x]]
    BY <1>1 DEF CreateWorkOrder
  <2> QED BY <2>1, <2>2 DEF CatalogueTypeOK
<1>2. ASSUME NEW w \in Orders, NEW p \in Patches, NEW t \in Times, ModifyWorkOrder(w, p, t)
      PROVE  CatalogueTypeOK'
  <2>1. w \in DOMAIN orders /\ RowTypeOK(orders[w])
    BY <1>2 DEF ModifyWorkOrder, CatalogueTypeOK
  <2>2. RowTypeOK(Touch(orders[w], p, t))
    BY <2>1, RecordsAssumption DEF Touch, RowTypeOK, Columns
  <2>3. orders' = [orders EXCEPT ![w] = Touch(orders[w], p, t)] /\ UNCHANGED <<unborn, members>>
    BY <1>2 DEF ModifyWorkOrder
  <2> QED BY <2>2, <2>3 DEF CatalogueTypeOK
<1>3. ASSUME NEW w \in Orders, NEW s \in Statuses, NEW t \in Times, ChangeStatus(w, s, t)
      PROVE  CatalogueTypeOK'
  <2>1. w \in DOMAIN orders /\ RowTypeOK(orders[w])
    BY <1>3 DEF ChangeStatus, CatalogueTypeOK
  <2>2. RowTypeOK([orders[w] EXCEPT !.status = s, !.updated_at = t])
    BY <2>1 DEF RowTypeOK
  <2>3. /\ orders' = [orders EXCEPT ![w] = [orders[w] EXCEPT !.status = s, !.updated_at = t]]
        /\ UNCHANGED <<unborn, members>>
    BY <1>3 DEF ChangeStatus
  <2> QED BY <2>2, <2>3 DEF CatalogueTypeOK
<1>4. ASSUME NEW u \in Users, Join(u) PROVE CatalogueTypeOK'
  BY <1>4, CatalogueAssumption DEF Join, CatalogueTypeOK, Entities
<1>5. ASSUME NEW u \in Users, NEW n \in Renames, UpdateUserProfile(u, n) PROVE CatalogueTypeOK'
  BY <1>5, RecordsAssumption DEF UpdateUserProfile, CatalogueTypeOK
<1> QED BY <1>1, <1>2, <1>3, <1>4, <1>5 DEF CatalogueWrite

\* Work orders only go when they are deleted.
LEMMA OrdersStay ==
  ASSUME CatalogueTypeOK, CatalogueWrite
  PROVE  DOMAIN orders \subseteq DOMAIN orders'
  BY DEF CatalogueWrite, CreateWorkOrder, ModifyWorkOrder, ChangeStatus, Join,
     UpdateUserProfile

LEMMA DeleteTypes ==
  ASSUME CatalogueTypeOK, NEW w \in Orders, DeleteWorkOrder(w)
  PROVE  CatalogueTypeOK'
  BY DEF DeleteWorkOrder, CatalogueTypeOK

LEMMA TaskTypes ==
  ASSUME TasksTypeOK, TaskWrite \/ \E w \in Orders : CascadeTasks(w)
  PROVE  TasksTypeOK'
<1>1. ASSUME NEW t \in TaskIds, NEW complete \in BOOLEAN, ToggleComplete(t, complete)
      PROVE  TasksTypeOK'
  <2>1. t \in Existing /\ tasks[t] \in TaskRows
    BY <1>1 DEF ToggleComplete, Existing, TasksTypeOK
  <2>2. ToggleTaskCompletion(tasks[t], complete) \in TaskRows
    BY <2>1, TaskAssumption DEF ToggleTaskCompletion, TaskRows
  <2>3. /\ tasks' = [tasks EXCEPT ![t] = ToggleTaskCompletion(tasks[t], complete)]
        /\ last' = IF tasks'[t].value = "COMPLETE" THEN last
                   ELSE [last EXCEPT ![t] = tasks'[t].value]
        /\ again' \subseteq TaskIds /\ home' = home
    BY <1>1 DEF ToggleComplete, TasksTypeOK
  <2>4. tasks'[t].value \in Values
    BY <2>1, <2>3, TaskAssumption DEF TasksTypeOK, ToggleTaskCompletion, TaskRows
  <2> QED BY <2>2, <2>3, <2>4 DEF TasksTypeOK
<1>2. ASSUME NEW t \in TaskIds, DeleteTask(t) PROVE TasksTypeOK'
  BY <1>2 DEF DeleteTask, TasksTypeOK
<1>3. ASSUME NEW w \in Orders, CascadeTasks(w) PROVE TasksTypeOK'
  BY <1>3 DEF CascadeTasks, TasksTypeOK
<1> QED BY <1>1, <1>2, <1>3 DEF TaskWrite

LEMMA ToggleRemembers ==
  ASSUME TasksTypeOK, TaskInv, NEW t \in TaskIds, NEW complete \in BOOLEAN,
         ToggleComplete(t, complete), UNCHANGED orders
  PROVE  TaskInv'
<1>1. t \in Existing /\ tasks[t] \in TaskRows /\ tasks[t] # NULL
  BY DEF ToggleComplete, Existing, TasksTypeOK
<1> DEFINE old == tasks[t]
           row == ToggleTaskCompletion(old, complete)
<1>2. /\ tasks' = [tasks EXCEPT ![t] = row]
      /\ last' = IF tasks'[t].value = "COMPLETE" THEN last
                 ELSE [last EXCEPT ![t] = tasks'[t].value]
      /\ again' = IF complete /\ old.value = "COMPLETE" THEN again \cup {t} ELSE again
      /\ home' = home
  BY DEF ToggleComplete
<1>3. /\ row \in TaskRows /\ row # NULL /\ row.work_order = old.work_order
      /\ row.value = IF complete THEN "COMPLETE"
                     ELSE IF old.previous_value # NULL THEN old.previous_value ELSE "OPEN"
      /\ row.previous_value = IF complete THEN old.value ELSE old.previous_value
  BY <1>1, TaskAssumption DEF ToggleTaskCompletion, TaskRows
<1>4. tasks'[t] = row /\ \A s \in TaskIds \ {t} : tasks'[s] = tasks[s] /\ last'[s] = last[s]
  BY <1>2 DEF TasksTypeOK
<1>5. last'[t] = IF row.value = "COMPLETE" THEN last[t] ELSE row.value
  BY <1>2, <1>4 DEF TasksTypeOK
<1> HIDE DEF row
<1>6. Remembers(t) /\ old.work_order = home[t] /\ home[t] \in DOMAIN orders \cup {NULL}
  BY <1>1 DEF TaskInv
<1>7. Remembers(t)'
  BY <1>2, <1>3, <1>4, <1>5, <1>6, TaskAssumption DEF Remembers
<1>8. \A s \in Existing \ {t} : Remembers(s)'
  BY <1>2, <1>4 DEF TaskInv, Remembers, Existing
<1>9. Existing' = Existing
  BY <1>1, <1>3, <1>4 DEF Existing
<1> QED BY <1>1, <1>2, <1>3, <1>4, <1>6, <1>7, <1>8, <1>9 DEF TaskInv, Existing

\* A row that is removed takes nothing from the others.
LEMMA RemovalRemembers ==
  ASSUME TasksTypeOK, TaskInv, NEW gone \in SUBSET TaskIds,
         tasks' = [t \in TaskIds |-> IF t \in gone THEN NULL ELSE tasks[t]],
         UNCHANGED <<home, last, again>>,
         \A t \in Existing \ gone : tasks[t].work_order \in DOMAIN orders' \cup {NULL}
  PROVE  TaskInv'
  BY DEF TaskInv, Remembers, Existing

-------------------------------------------------------------------------------
(* The walk.                                                                   *)

\* A page that is read, and what the query's rows say of it.
LEMMA ReadWalk ==
  ASSUME IInv, ReadPage(Statement(asked)), steady' \subseteq steady,
         \A x \in steady' : Untied(x, RowsOf, OrderOf)
  PROVE  WalkInv'
<1> DEFINE off == page * SizeOf
<1>1. /\ CatalogueTypeOK /\ asked \in Queries /\ page \in Nat /\ steady \subseteq RowsOf
      /\ done = FALSE
  BY DEF IInv, TypeOK, RowsOf, ReadPage
<1>2. PICK P \in Pages(RowsOf, OrderOf, off, SizeOf) :
        seen' = seen \cup P /\ page' = page + 1 /\ done' = (P = {})
  BY DEF ReadPage, RowsOf, OrderOf, SizeOf
<1>3. /\ IsFiniteSet(RowsOf) /\ \A x : <<x, x>> \notin OrderOf
      /\ SizeOf \in Nat
  BY <1>1, StatementShape DEF RowsOf, OrderOf, SizeOf
<1>4. off \in Nat /\ (page + 1) * SizeOf = off + SizeOf
  BY <1>1, <1>3
<1>5. UNCHANGED <<RowsOf, OrderOf, SizeOf>>
  <2>1. UNCHANGED <<orders, members, asked>>
    BY DEF ReadPage, catalogueVars
  <2>2. Statement(asked)' = Statement(asked)
    BY <1>1, <2>1, StatementStays
  <2> QED BY <2>2 DEF RowsOf, OrderOf, SizeOf
<1> HIDE DEF off
<1>6. ASSUME SizeOf > 0, NEW x \in steady' \ seen'
      PROVE  Rank(x, RowsOf, OrderOf) >= off + SizeOf /\ P # {}
  <2>1. x \in RowsOf \ P /\ x \in steady \ seen
    BY <1>1, <1>2, <1>6
  <2>2. Rank(x, RowsOf, OrderOf) >= off
    BY <1>6, <2>1 DEF IInv, WalkInv, off
  <2>3. Rank(x, RowsOf, OrderOf) >= off + SizeOf
    BY <1>3, <1>4, <1>6, <2>1, <2>2, PageKeeps
  <2>4. P # {}
    <3> SUFFICES ASSUME P = {} PROVE FALSE
      OBVIOUS
    <3>1. Rank(x, RowsOf, OrderOf) < off
      BY <1>2, <1>3, <1>4, <1>6, <2>1, LastPage
    <3>2. Rank(x, RowsOf, OrderOf) \in Nat
      BY <1>3, RankType
    <3> QED BY <1>4, <2>2, <3>1, <3>2
  <2> QED BY <2>3, <2>4
<1>7. page' * SizeOf' = off + SizeOf
  BY <1>2, <1>4, <1>5
<1> QED BY <1>2, <1>5, <1>6, <1>7 DEF WalkInv

LEMMA WriteWalk ==
  ASSUME IInv, Write, CatalogueTypeOK'
  PROVE  WalkInv'
<1>1. /\ asked \in Queries /\ CatalogueTypeOK /\ page \in Nat
      /\ UNCHANGED <<asked, page, seen, done>>
  BY DEF IInv, TypeOK, Write, walkVars
<1>2. SizeOf' = SizeOf /\ SizeOf \in Nat
  BY <1>1, SizeKept, StatementShape DEF SizeOf
<1>3. /\ IsFiniteSet(RowsOf) /\ IsFiniteSet(RowsOf')
  BY <1>1, RowsFinite, RowsFiniteNext
<1>4. \A x \in steady' :
        x \in steady /\ Rank(x, RowsOf', OrderOf') >= Rank(x, RowsOf, OrderOf)
  BY <1>1 DEF Write, Unmoved, Place, RowsOf, OrderOf
<1>5. \A x : Rank(x, RowsOf, OrderOf) \in Nat /\ Rank(x, RowsOf', OrderOf') \in Nat
  BY <1>3, RankType
<1>6. page * SizeOf \in Nat
  BY <1>1, <1>2
<1>7. ASSUME SizeOf > 0, NEW x \in steady' \ seen'
      PROVE  Rank(x, RowsOf', OrderOf') >= page * SizeOf
  BY <1>1, <1>4, <1>5, <1>6, <1>7 DEF IInv, WalkInv
<1>8. SizeOf > 0 /\ done => steady' \subseteq seen
  BY <1>4 DEF IInv, WalkInv
<1> QED BY <1>1, <1>2, <1>7, <1>8 DEF WalkInv

-------------------------------------------------------------------------------
(* The inductive invariant.                                                    *)

LEMMA InitIInv == Init => IInv
<1> SUFFICES ASSUME Init PROVE IInv
  OBVIOUS
<1>1. PICK d \in Demos : CatalogueInit(d.orders, d.members) /\ TasksInit(d.tasks)
  BY DEF Init
<1>2. /\ DOMAIN d.orders \subseteq Orders /\ d.members \in [Users -> Nat \cup {NULL}]
      /\ \A w \in DOMAIN d.orders : RowTypeOK(d.orders[w])
      /\ d.tasks \in [TaskIds -> TaskRows]
      /\ \A t \in TaskIds :
           /\ d.tasks[t].work_order \in DOMAIN d.orders \cup {NULL}
           /\ d.tasks[t].previous_value = NULL
  BY RecordsAssumption
<1>3. CatalogueTypeOK
  BY <1>1, <1>2 DEF CatalogueInit, CatalogueTypeOK
<1>4. \A t \in TaskIds : tasks[t] \in TaskRows /\ tasks[t].value \in Values \cup {NULL}
  BY <1>1, <1>2 DEF TasksInit, TaskRows
<1>5. TasksTypeOK
  BY <1>1, <1>2, <1>4, TaskAssumption DEF TasksInit, TasksTypeOK
<1>6. TypeOK
  <2>1. asked \in Queries /\ steady \subseteq Statement(asked).rows
    BY DEF Init
  <2>2. page \in Nat /\ done \in BOOLEAN
    BY DEF Init
  <2>3. writes \in 0..MaxWrites
    BY RecordsAssumption DEF Init
  <2> QED BY <1>3, <1>5, <2>1, <2>2, <2>3 DEF TypeOK
<1>7. WalkInv
  <2>1. SizeOf \in Nat /\ steady = RowsOf /\ page = 0 /\ seen = {} /\ done = FALSE
    BY <1>3, StatementShape DEF Init, RowsOf, SizeOf
  <2>2. \A x : Rank(x, RowsOf, OrderOf) \in Nat
    BY <1>6, RowsFinite, RankType DEF TypeOK
  <2>3. page * SizeOf = 0
    BY <2>1
  <2> QED BY <2>1, <2>2, <2>3 DEF WalkInv
<1>8. TaskInv
  <2> SUFFICES ASSUME NEW t \in TaskIds
               PROVE  /\ tasks[t].work_order = home[t] /\ home[t] \in DOMAIN orders \cup {NULL}
                      /\ Remembers(t)
    BY DEF TaskInv, Existing
  <2>1. /\ tasks[t].work_order = home[t] /\ home[t] \in DOMAIN orders \cup {NULL}
        /\ tasks[t].previous_value = NULL
    BY <1>1, <1>2 DEF CatalogueInit, TasksInit
  <2>2. last[t] = IF tasks[t].value \in {"COMPLETE", NULL} THEN "OPEN" ELSE tasks[t].value
    BY <1>1 DEF TasksInit
  <2> QED BY <2>1, <2>2, TaskAssumption DEF Remembers
<1> QED BY <1>6, <1>7, <1>8 DEF IInv

LEMMA ReadIInv ==
  ASSUME IInv, FilterSearch \/ Search
  PROVE  IInv'
<1>1. /\ ReadPage(Statement(asked)) /\ steady' \subseteq steady
      /\ UNCHANGED taskVars
      /\ \/ asked.on = "work_orders"
         \/ \A x \in steady' : Untied(x, RowsOf, OrderOf)
  <2>1. CASE FilterSearch
    BY <2>1 DEF FilterSearch, ReadPage
  <2>2. CASE Search
    <3>1. /\ ReadPage(Statement(asked))
          /\ steady' = {x \in steady : Untied(x, RowsOf, OrderOf)}
      BY <2>2 DEF Search, RowsOf, OrderOf
    <3>2. UNCHANGED taskVars
      BY <3>1 DEF ReadPage
    <3> QED BY <3>1, <3>2
  <2> QED BY <2>1, <2>2
<1>2. /\ CatalogueTypeOK /\ asked \in Queries /\ steady \subseteq RowsOf
  BY DEF IInv, TypeOK, RowsOf
<1>3. \A x \in steady' : Untied(x, RowsOf, OrderOf)
  BY <1>1, <1>2, ListShape DEF RowsOf, OrderOf
<1>4. UNCHANGED <<orders, unborn, members, asked, writes, tasks, home, last, again>>
  BY <1>1 DEF ReadPage, catalogueVars, taskVars
<1>5. Statement(asked)' = Statement(asked)
  BY <1>2, <1>4, StatementStays
<1>6. TypeOK'
  <2>1. CatalogueTypeOK' /\ TasksTypeOK'
    BY <1>4 DEF IInv, TypeOK, CatalogueTypeOK, TasksTypeOK
  <2>2. page' \in Nat /\ done' \in BOOLEAN
    BY <1>1 DEF IInv, TypeOK, ReadPage
  <2> QED BY <1>1, <1>4, <1>5, <2>1, <2>2 DEF IInv, TypeOK
<1>7. WalkInv'
  BY <1>1, <1>3, ReadWalk
<1>8. TaskInv'
  BY <1>4 DEF IInv, TaskInv, Remembers, Existing
<1> QED BY <1>6, <1>7, <1>8 DEF IInv

LEMMA WriteIInv ==
  ASSUME IInv, Write
  PROVE  IInv'
<1>1. CatalogueTypeOK /\ TasksTypeOK /\ TaskInv
  BY DEF IInv, TypeOK
<1>2. CatalogueTypeOK' /\ TasksTypeOK' /\ TaskInv'
  <2>1. CASE CatalogueWrite /\ UNCHANGED taskVars
    <3>1. TasksTypeOK'
      BY <1>1, <2>1 DEF taskVars, TasksTypeOK
    <3>2. TaskInv'
      BY <1>1, <2>1, OrdersStay DEF taskVars, TaskInv, Remembers, Existing
    <3> QED BY <1>1, <2>1, <3>1, <3>2, CatalogueTypes
  <2>2. CASE TaskWrite /\ UNCHANGED catalogueVars
    <3>1. CatalogueTypeOK'
      BY <1>1, <2>2 DEF catalogueVars, CatalogueTypeOK
    <3>2. ASSUME NEW t \in TaskIds, DeleteTask(t) PROVE TaskInv'
      <4>1. tasks' = [s \in TaskIds |-> IF s \in {t} THEN NULL ELSE tasks[s]]
        BY <1>1, <3>2 DEF DeleteTask, TasksTypeOK
      <4>2. UNCHANGED <<home, last, again>> /\ orders' = orders
        BY <2>2, <3>2 DEF DeleteTask, catalogueVars
      <4>3. \A s \in Existing : tasks[s].work_order \in DOMAIN orders' \cup {NULL}
        BY <1>1, <4>2 DEF TaskInv
      <4> QED BY <1>1, <4>1, <4>2, <4>3, RemovalRemembers
    <3>3. ASSUME NEW t \in TaskIds, NEW complete \in BOOLEAN, ToggleComplete(t, complete)
          PROVE  TaskInv'
      BY <1>1, <2>2, <3>3, ToggleRemembers DEF catalogueVars
    <3> QED BY <1>1, <2>2, <3>1, <3>2, <3>3, TaskTypes DEF TaskWrite
  <2>3. ASSUME NEW w \in Orders, Delete(w)
        PROVE  CatalogueTypeOK' /\ TasksTypeOK' /\ TaskInv'
    <3>1. DeleteWorkOrder(w) /\ CascadeTasks(w)
      BY <2>3 DEF Delete
    <3> DEFINE gone == {t \in TaskIds : tasks[t] # NULL /\ tasks[t].work_order = w}
    <3>2. tasks' = [t \in TaskIds |-> IF t \in gone THEN NULL ELSE tasks[t]]
      BY <3>1 DEF CascadeTasks
    <3>3. UNCHANGED <<home, last, again>> /\ DOMAIN orders' = DOMAIN orders \ {w}
      BY <3>1 DEF CascadeTasks, DeleteWorkOrder
    <3>4. \A t \in Existing \ gone : tasks[t].work_order \in DOMAIN orders' \cup {NULL}
      BY <1>1, <3>3 DEF TaskInv, Existing
    <3>5. TaskInv'
      BY <1>1, <3>2, <3>3, <3>4, RemovalRemembers
    <3> QED BY <1>1, <3>1, <3>5, DeleteTypes, TaskTypes
  <2> QED BY <2>1, <2>2, <2>3 DEF Write
<1>3. TypeOK'
  <2>1. writes' \in 0..MaxWrites
    BY RecordsAssumption DEF IInv, TypeOK, Write
  <2>2. UNCHANGED <<asked, page, done>>
    BY DEF Write, walkVars
  <2>3. steady' \subseteq Statement(asked)'.rows
    BY DEF Write, Unmoved
  <2> QED BY <1>2, <2>1, <2>2, <2>3 DEF IInv, TypeOK
<1>4. WalkInv'
  BY <1>2, WriteWalk
<1> QED BY <1>2, <1>3, <1>4 DEF IInv

LEMMA NextIInv == IInv /\ [Next]_vars => IInv'
<1> SUFFICES ASSUME IInv, [Next]_vars PROVE IInv'
  OBVIOUS
<1>1. CASE UNCHANGED vars
  <2>1. UNCHANGED <<orders, unborn, members, tasks, home, last, again>>
    BY <1>1 DEF vars, catalogueVars, taskVars
  <2>2. UNCHANGED <<asked, page, seen, done, steady, writes>> /\ asked \in Queries
    BY <1>1 DEF vars, walkVars, IInv, TypeOK
  <2>3. Statement(asked)' = Statement(asked)
    BY <2>1, <2>2, StatementStays
  <2>4. TypeOK'
    BY <2>1, <2>2, <2>3 DEF IInv, TypeOK, CatalogueTypeOK, TasksTypeOK
  <2>5. WalkInv'
    BY <2>2, <2>3 DEF IInv, WalkInv, RowsOf, OrderOf, SizeOf
  <2>6. TaskInv'
    BY <2>1 DEF IInv, TaskInv, Remembers, Existing
  <2> QED BY <2>4, <2>5, <2>6 DEF IInv
<1> QED BY <1>1, ReadIInv, WriteIInv DEF Next

\* The catalogue, the walk and the tasks keep the inductive invariant at every step.
THEOREM Invariant == Spec => []IInv
<1> QED BY InitIInv, NextIInv, PTL DEF Spec

-------------------------------------------------------------------------------

\* The catalogue, the tasks and the walk stay well typed.
THEOREM TypeCorrect == Spec => []TypeOK
<1>1. IInv => TypeOK
  BY DEF IInv
<1> QED BY <1>1, Invariant, PTL

\* Paging through the work-order list misses none that stayed where it was
\* (ListWorkOrdersPaged).
THEOREM OrdersWalked == Spec => []OrdersWalk
<1>1. IInv => OrdersWalk
  <2> SUFFICES ASSUME IInv, asked.on = "work_orders", done, asked.pageSize > 0
               PROVE  steady \subseteq seen
    BY DEF OrdersWalk
  <2>1. SizeOf = asked.pageSize
    BY ListShape DEF IInv, TypeOK, SizeOf
  <2> QED BY <2>1 DEF IInv, WalkInv
<1> QED BY <1>1, Invariant, PTL

\* Paging through a search misses no row that stayed where it was and shares its
\* creation time with none (SearchOrgUsers and its siblings).
THEOREM SearchesWalked == Spec => []SearchWalk
<1>1. IInv => SearchWalk
  <2> SUFFICES ASSUME IInv, asked.on # "work_orders", done
               PROVE  steady \subseteq seen
    BY DEF SearchWalk
  <2>1. SizeOf > 0
    BY SearchShape DEF IInv, TypeOK, SizeOf
  <2> QED BY <2>1 DEF IInv, WalkInv
<1> QED BY <1>1, Invariant, PTL

\* The work-order list is one line, so the table has one page to every offset and size,
\* whichever order is asked for (ListWorkOrdersPaged and its last key, the id).
THEOREM PagesAreDetermined == Spec => []PagesDetermined
<1>1. IInv => PagesDetermined
  <2> SUFFICES ASSUME IInv, asked.on = "work_orders"
               PROVE  Cardinality(Pages(RowsOf, OrderOf, page * SizeOf, SizeOf)) = 1
    BY DEF PagesDetermined, RowsOf, OrderOf, SizeOf
  <2>1. /\ IsFiniteSet(RowsOf) /\ Linear(RowsOf, OrderOf)
        /\ SizeOf \in Nat /\ page \in Nat
    BY ListShape, ListLinear DEF IInv, TypeOK, RowsOf, OrderOf, SizeOf
  <2>2. page * SizeOf \in Nat
    BY <2>1
  <2> QED BY <2>1, <2>2, OnePage
<1> QED BY <1>1, Invariant, PTL

\* A task is in the two lists of the work order it was made for and in no other, for as
\* long as it is there (tasks.work_order_id).
THEOREM AllTasksListed == Spec => []TasksListed
<1>1. IInv => TasksListed
  <2> SUFFICES ASSUME IInv, NEW t \in Existing, NEW w \in Orders
               PROVE  /\ w = home[t] <=>
                           \E row \in ListSimpleTasksByWorkOrder(w, DOMAIN orders) : row.id = t
                      /\ w = home[t] <=>
                           \E row \in GetTasksByWorkOrderID(w, DOMAIN orders) :
                             row.task_id = t /\ row.task_value = tasks[t].value
    BY DEF TasksListed
  <2>1. tasks[t].work_order = home[t] /\ home[t] \in DOMAIN orders \cup {NULL}
    BY DEF IInv, TaskInv
  <2>2. w # NULL
    BY CatalogueAssumption
  <2>3. CASE w = home[t]
    <3> DEFINE full == [task_id |-> t, task_value |-> tasks[t].value]
               simple == [id |-> t, completed |-> tasks[t].value \in {"COMPLETE", "PASS"}]
    <3>1. simple \in ListSimpleTasksByWorkOrder(w, DOMAIN orders) /\ simple.id = t
      BY <2>1, <2>2, <2>3 DEF ListSimpleTasksByWorkOrder
    <3>2. /\ full \in GetTasksByWorkOrderID(w, DOMAIN orders)
          /\ full.task_id = t /\ full.task_value = tasks[t].value
      BY <2>1, <2>2, <2>3 DEF GetTasksByWorkOrderID
    <3> QED BY <2>3, <3>1, <3>2
  <2>4. CASE w # home[t]
    BY <2>1, <2>4 DEF ListSimpleTasksByWorkOrder, GetTasksByWorkOrderID
  <2> QED BY <2>3, <2>4
<1> QED BY <1>1, Invariant, PTL

\* A reopened task has the value it had before it was completed
\* (ToggleTaskCompletion).
THEOREM TasksReopened == Spec => ReopenRestores
<1> DEFINE A == \A t \in Existing \ again :
                  tasks[t].value = "COMPLETE" /\ ToggleComplete(t, FALSE)
                    => tasks'[t].value = last[t]
<1>1. IInv => A
  <2> SUFFICES ASSUME IInv, NEW t \in Existing \ again, tasks[t].value = "COMPLETE",
                      ToggleComplete(t, FALSE)
               PROVE  tasks'[t].value = last[t]
    OBVIOUS
  <2>1. t \in TaskIds /\ tasks[t] \in TaskRows
    BY DEF IInv, TypeOK, TasksTypeOK, Existing
  <2>2. tasks'[t] = ToggleTaskCompletion(tasks[t], FALSE)
    BY <2>1 DEF ToggleComplete, IInv, TypeOK, TasksTypeOK
  <2>3. tasks'[t].value = IF tasks[t].previous_value # NULL THEN tasks[t].previous_value
                          ELSE "OPEN"
    BY <2>1, <2>2 DEF ToggleTaskCompletion, TaskRows
  <2> QED BY <2>1, <2>3 DEF IInv, TaskInv, Remembers
<1> QED BY <1>1, Invariant, PTL DEF ReopenRestores
===============================================================================
