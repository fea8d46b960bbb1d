------------------------- MODULE SyncPaging_proofs --------------------------
(***************************************************************************)
(* A sync passes no row by: for any stores and links, any number of rows   *)
(* and tables, and pages of any size.                                      *)
(*                                                                         *)
(* An offset finds the rows of a table by their position among those dated *)
(* `since` or later, so the argument is about positions.  It is in four    *)
(* parts: positions in a finite order, offsets into the rows of a store,   *)
(* the stores and what is under way (SyncInv), and what a request covers   *)
(* (CoverInv).                                                             *)
(*                                                                         *)
(* A request for the rows dated `since` or later, with c rows of a table   *)
(* counted, covers a link when every row behind it is safe: it is held by  *)
(* the writer, or by the page that the request counts.  Rows written after *)
(* the cycle began go to the end of the order of ids or are overtaken, so  *)
(* that positions only grow; a query extends the page by the rows at the   *)
(* positions that it counts; a merge makes them safe.  When a page stays   *)
(* empty, every table was asked at an offset no row lies beyond: what is   *)
(* not safe is then no older than the new `when`.                          *)
(*                                                                         *)
(* An upload that arrives late is merged against a checkpoint (staged) or  *)
(* blindly (inline): the last part assumes that none is late, or that all  *)
(* pages with rows are staged.                                             *)
(***************************************************************************)
EXTENDS SyncPaging, FiniteSetTheorems, WellFoundedInduction, TLAPS

-----------------------------------------------------------------------------
(***************************************************************************)
(* Positions.  F is a finite set of rows and o puts them in an order; the  *)
(* position of a row is the number of those before it.                     *)
(***************************************************************************)
Linear(F, o) ==
    /\ \A j, k \in F : /\ j = k \/ <<j, k>> \in o \/ <<k, j>> \in o
                       /\ <<j, k>> \in o => <<k, j>> \notin o
    /\ \A i, j, k \in F : <<i, j>> \in o /\ <<j, k>> \in o => <<i, k>> \in o

Below(F, o, k) == {j \in F : <<j, k>> \in o}
Pos(F, o, k) == Cardinality(Below(F, o, k))

\* A nonempty set of natural numbers has a least element.
LEMMA Least ==
  ASSUME NEW T \in SUBSET Nat, T # {}
  PROVE  \E x \in T : \A y \in T : x <= y
<1>1. PICK R : R = OpToRel(<, Nat)
  OBVIOUS
<1>2. IsWellFoundedOn(R, Nat)
  BY <1>1, NatLessThanWellFounded
<1>3. PICK x \in T : \A y \in T : ~(<<y, x>> \in R)
  BY <1>2, WFMin
<1>4. \A m, n \in Nat : <<m, n>> \in R <=> m < n
  BY <1>1 DEF OpToRel
<1>5. ASSUME NEW y \in T PROVE x <= y
  <2>1. x \in Nat /\ y \in Nat /\ ~(y < x)
    BY <1>3, <1>4
  <2> QED BY <2>1
<1> QED BY <1>5

\* A nonempty set of natural numbers up to n has a greatest one.
LEMMA MaxOf ==
  ASSUME NEW n \in Nat, NEW S \in SUBSET (0..n), S # {}
  PROVE  Max(S) \in S /\ \A y \in S : y <= Max(S)
<1> DEFINE T == {n - y : y \in S}
<1>1. T \in SUBSET Nat /\ T # {}
  <2>1. \A y \in S : n - y \in Nat
    OBVIOUS
  <2>2. T \subseteq Nat
    BY <2>1
  <2>3. PICK y \in S : TRUE
    OBVIOUS
  <2>4. n - y \in T
    OBVIOUS
  <2> QED BY <2>2, <2>4
<1>2. PICK d \in T : \A e \in T : d <= e
  BY <1>1, Least
<1>3. PICK x \in S : d = n - x
  BY <1>2
<1>4. \A y \in S : x >= y
  <2>1. TAKE y \in S
  <2>2. n - x <= n - y
    BY <1>2, <1>3
  <2> QED BY <2>2
<1> QED BY <1>3, <1>4 DEF Max

\* A row has a smaller position than those it is before.
LEMMA PosLess ==
  ASSUME NEW F, NEW o, IsFiniteSet(F), Linear(F, o)
  PROVE  /\ \A k \in F : Pos(F, o, k) \in Nat /\ Pos(F, o, k) < Cardinality(F)
         /\ \A j, k \in F : <<j, k>> \in o => Pos(F, o, j) < Pos(F, o, k)
<1>1. ASSUME NEW k \in F
      PROVE  /\ IsFiniteSet(Below(F, o, k)) /\ Pos(F, o, k) \in Nat
             /\ Below(F, o, k) \subseteq F \ {k}
  <2>1. Below(F, o, k) \subseteq F \ {k}
    BY DEF Below, Linear
  <2>2. IsFiniteSet(Below(F, o, k))
    BY <2>1, FS_Subset
  <2> QED BY <2>1, <2>2, FS_CardinalityType DEF Pos
<1>2. ASSUME NEW k \in F PROVE Pos(F, o, k) < Cardinality(F)
  <2>1. Cardinality(F) \in Nat /\ Pos(F, o, k) <= Cardinality(F)
    BY <1>1, FS_Subset, FS_CardinalityType DEF Pos
  <2>2. Cardinality(F) # Pos(F, o, k)
    BY <1>1, FS_Subset DEF Pos
  <2> QED BY <1>1, <2>1, <2>2
<1>3. ASSUME NEW j \in F, NEW k \in F, <<j, k>> \in o PROVE Pos(F, o, j) < Pos(F, o, k)
  <2>1. Below(F, o, j) \subseteq Below(F, o, k)
    BY <1>3 DEF Below, Linear
  <2>2. j \in Below(F, o, k) /\ j \notin Below(F, o, j)
    BY <1>1, <1>3 DEF Below
  <2>3. /\ Pos(F, o, j) <= Pos(F, o, k)
        /\ Pos(F, o, k) # Pos(F, o, j)
    BY <1>1, <2>1, <2>2, FS_Subset DEF Pos
  <2> QED BY <1>1, <2>3
<1> QED BY <1>1, <1>2, <1>3

\* No more rows have positions from a to b than there are numbers.
LEMMA FewPos ==
  ASSUME NEW F, NEW o, IsFiniteSet(F), Linear(F, o), NEW a \in Nat, NEW b \in Nat, a <= b,
         NEW P \in SUBSET F, \A k \in P : a <= Pos(F, o, k) /\ Pos(F, o, k) < b
  PROVE  IsFiniteSet(P) /\ Cardinality(P) \in Nat /\ Cardinality(P) <= b - a
<1>1. IsFiniteSet(P) /\ Cardinality(P) \in Nat
  BY FS_Subset, FS_CardinalityType
<1>2. SUFFICES ASSUME Cardinality(P) > b - a PROVE FALSE
  BY <1>1
<1> DEFINE f == [k \in P |-> Pos(F, o, k)]
<1>3. IsFiniteSet(a..(b - 1)) /\ Cardinality(a..(b - 1)) = b - a
  <2>1. PICK c \in Int : c = b - 1
    OBVIOUS
  <2>2. IsFiniteSet(a..c) /\ Cardinality(a..c) = IF a > c THEN 0 ELSE c - a + 1
    BY FS_Interval
  <2> QED BY <2>1, <2>2
<1>4. f \in [P -> a..(b - 1)]
  BY PosLess
<1>5. PICK x, y \in P : x # y /\ f[x] = f[y]
  <2> HIDE DEF f
  <2> QED BY <1>1, <1>2, <1>3, <1>4, FS_PigeonHole
<1>6. Pos(F, o, x) < Pos(F, o, y) \/ Pos(F, o, y) < Pos(F, o, x)
  BY <1>5, PosLess DEF Linear
<1> QED BY <1>5, <1>6, PosLess

\* The rows with positions from a on, m at most.
Part(F, o, a, m) == {k \in F : Pos(F, o, k) >= a /\ Pos(F, o, k) < a + m}

LEMMA PartSmall ==
  ASSUME NEW F, NEW o, IsFiniteSet(F), Linear(F, o), NEW a \in Nat, NEW m \in Nat
  PROVE  /\ IsFiniteSet(Part(F, o, a, m)) /\ Cardinality(Part(F, o, a, m)) \in Nat
         /\ Cardinality(Part(F, o, a, m)) <= m
<1>1. Part(F, o, a, m) \in SUBSET F
  BY DEF Part
<1>2. \A k \in Part(F, o, a, m) : a <= Pos(F, o, k) /\ Pos(F, o, k) < a + m
  BY PosLess DEF Part
<1>3. a + m \in Nat /\ a <= a + m /\ (a + m) - a = m
  OBVIOUS
<1> QED BY <1>1, <1>2, <1>3, FewPos

\* Among the rows with positions of a or more, the one before all others has
\* only rows with positions less than a before it.
LEMMA FirstPos ==
  ASSUME NEW F, NEW o, IsFiniteSet(F), Linear(F, o), NEW a \in Nat,
         NEW k \in F, Pos(F, o, k) >= a
  PROVE  \E x \in F : /\ Pos(F, o, x) >= a /\ Pos(F, o, x) <= Pos(F, o, k)
                      /\ \A j \in Below(F, o, x) : Pos(F, o, j) < a
<1> DEFINE T == {Pos(F, o, x) : x \in {y \in F : Pos(F, o, y) >= a}}
<1>1. T \in SUBSET Nat /\ T # {} /\ Pos(F, o, k) \in T
  BY PosLess
<1>2. PICK p \in T : \A q \in T : p <= q
  BY <1>1, Least
<1>3. PICK x \in F : Pos(F, o, x) >= a /\ p = Pos(F, o, x)
  BY <1>2
<1>4. ASSUME NEW j \in Below(F, o, x) PROVE Pos(F, o, j) < a
  <2>1. j \in F /\ Pos(F, o, j) < Pos(F, o, x) /\ Pos(F, o, j) \in Nat /\ Pos(F, o, x) \in Nat
    BY PosLess DEF Below
  <2>2. CASE Pos(F, o, j) >= a
    <3>1. Pos(F, o, j) \in T
      BY <2>1, <2>2
    <3> QED BY <1>2, <1>3, <2>1, <3>1
  <2> QED BY <2>1, <2>2
<1>5. Pos(F, o, x) <= Pos(F, o, k)
  BY <1>1, <1>2, <1>3
<1> QED BY <1>3, <1>4, <1>5

\* When there is room but nothing to take, all rows have been taken before.
LEMMA PartDrained ==
  ASSUME NEW F, NEW o, IsFiniteSet(F), Linear(F, o), NEW a \in Nat, NEW m \in Nat, m > 0,
         Part(F, o, a, m) = {}
  PROVE  \A k \in F : Pos(F, o, k) < a
<1>1. SUFFICES ASSUME NEW k \in F, Pos(F, o, k) >= a PROVE FALSE
  BY PosLess
<1>2. PICK x \in F : Pos(F, o, x) >= a /\ \A j \in Below(F, o, x) : Pos(F, o, j) < a
  BY <1>1, FirstPos
<1>3. Pos(F, o, x) >= a + m
  BY <1>2, PosLess DEF Part
<1>4. \A j \in Below(F, o, x) : 0 <= Pos(F, o, j) /\ Pos(F, o, j) < a
  BY <1>2, PosLess DEF Below
<1>5. Below(F, o, x) \in SUBSET F
  BY DEF Below
<1>6. Cardinality(Below(F, o, x)) <= a - 0
  BY <1>4, <1>5, FewPos
<1>7. Pos(F, o, x) \in Nat /\ Pos(F, o, x) <= a
  BY <1>6, PosLess DEF Pos
<1> QED BY <1>3, <1>7

\* The offset after a page is within the rows there are.
LEMMA PartFits ==
  ASSUME NEW F, NEW o, IsFiniteSet(F), Linear(F, o), NEW a \in Nat, NEW m \in Nat,
         a <= Cardinality(F)
  PROVE  a + Cardinality(Part(F, o, a, m)) <= Cardinality(F)
<1> DEFINE P == Part(F, o, a, m)
<1>1. P \in SUBSET F /\ IsFiniteSet(P) /\ Cardinality(P) \in Nat /\ Cardinality(F) \in Nat
  BY PartSmall, FS_CardinalityType DEF Part
<1>2. CASE P = {}
  BY <1>1, <1>2, FS_EmptySet
<1>3. CASE P # {}
  <2>1. PICK k \in F : Pos(F, o, k) >= a /\ Pos(F, o, k) < a + m
    BY <1>3 DEF Part
  <2>2. PICK x \in F : /\ Pos(F, o, x) >= a
                       /\ \A j \in Below(F, o, x) : Pos(F, o, j) < a
    BY <2>1, FirstPos
  <2>3. Below(F, o, x) \in SUBSET F /\ IsFiniteSet(Below(F, o, x))
    BY FS_Subset DEF Below
  <2>4. Below(F, o, x) \cap P = {}
    BY <2>2, PosLess DEF Below, Part
  <2>5. /\ IsFiniteSet(Below(F, o, x) \cup P)
        /\ Cardinality(Below(F, o, x) \cup P) = Pos(F, o, x) + Cardinality(P)
    <3>1. Cardinality(Below(F, o, x) \cup P) = Pos(F, o, x) + Cardinality(P) - 0
      BY <1>1, <2>3, <2>4, FS_Union, FS_EmptySet DEF Pos
    <3>2. IsFiniteSet(Below(F, o, x) \cup P)
      BY <1>1, <2>3, FS_Union
    <3>3. Pos(F, o, x) \in Nat
      BY PosLess
    <3> QED BY <1>1, <3>1, <3>2, <3>3
  <2>6. Pos(F, o, x) + Cardinality(P) <= Cardinality(F)
    BY <1>1, <2>3, <2>5, FS_Subset
  <2> QED BY <1>1, <2>2, <2>6, PosLess
<1> QED BY <1>2, <1>3

-----------------------------------------------------------------------------
(***************************************************************************)
(* Offsets.  d are the dates of a store's rows, o its order of ids.        *)
(***************************************************************************)
RowsIn(d) == {k \in Keys : d[k] > 0}
Found(d, e, since) == {k \in RowsIn(d) : Kind[k] = e /\ d[k] >= since}
Place(d, o, k, since) == Pos(Found(d, Kind[k], since), o, k)

Sorted(d, o) ==
    /\ \A j, k \in Keys :
          /\ <<j, k>> \in o => {j, k} \subseteq RowsIn(d) /\ Kind[j] = Kind[k]
          /\ {j, k} \subseteq RowsIn(d) /\ Kind[j] = Kind[k] =>
                j = k \/ <<j, k>> \in o \/ <<k, j>> \in o
          /\ <<j, k>> \in o => <<k, j>> \notin o
    /\ \A i, j, k \in Keys : <<i, j>> \in o /\ <<j, k>> \in o => <<i, k>> \in o

\* A request for rows dated `since` or later, with c rows of each table counted,
\* has only rows of S behind it, and counts no more rows than there are.
Covered(d, o, since, c, S) ==
    /\ \A k \in RowsIn(d) : d[k] < since \/ Place(d, o, k, since) < c[Kind[k]] => k \in S
    /\ \A e \in Tables : c[e] <= Cardinality(Found(d, e, since))

LEMMA FoundLinear ==
  ASSUME NEW d \in [Keys -> Times], NEW o, NEW since \in Nat, NEW e \in Tables,
         Sorted(d, o), IsFiniteSet(RowsIn(d))
  PROVE  /\ IsFiniteSet(Found(d, e, since)) /\ Cardinality(Found(d, e, since)) \in Nat
         /\ Linear(Found(d, e, since), o)
<1>1. Found(d, e, since) \subseteq RowsIn(d)
  BY DEF Found
<1>2. IsFiniteSet(Found(d, e, since)) /\ Cardinality(Found(d, e, since)) \in Nat
  BY <1>1, FS_Subset, FS_CardinalityType
<1>3. Linear(Found(d, e, since), o)
  BY DEF Linear, Found, RowsIn, Sorted
<1> QED BY <1>2, <1>3

\* Rows are written: each one is safe then, or untouched, or was not counted.
LEMMA CoveredGrows ==
  ASSUME NEW d \in [Keys -> Times], NEW f \in [Keys -> Times], NEW o, NEW p,
         Sorted(d, o), Sorted(f, p), IsFiniteSet(RowsIn(f)), o \subseteq p,
         \A k \in Keys : d[k] <= f[k],
         \A j, k \in Keys : d[j] > 0 /\ d[k] = 0 /\ f[k] > 0 /\ Kind[j] = Kind[k]
                              => <<j, k>> \in p,
         NEW since \in Nat, NEW c \in [Tables -> Nat], NEW S, NEW T,
         Covered(d, o, since, c, S),
         \A k \in RowsIn(f) :
            \/ k \in T
            \/ f[k] = d[k] /\ k \notin S
            \/ f[k] >= since /\ (d[k] = 0 \/ c[Kind[k]] = 0)
  PROVE  Covered(f, p, since, c, T)
<1>1. RowsIn(d) \subseteq RowsIn(f) /\ \A k \in Keys : Kind[k] \in Tables
  BY RowsAssumption DEF RowsIn, Times
<1>2. IsFiniteSet(RowsIn(d))
  BY <1>1, FS_Subset
<1>3. ASSUME NEW e \in Tables
      PROVE  /\ Found(d, e, since) \subseteq Found(f, e, since)
             /\ Cardinality(Found(d, e, since)) <= Cardinality(Found(f, e, since))
             /\ c[e] <= Cardinality(Found(d, e, since)) /\ c[e] \in Nat
             /\ Cardinality(Found(d, e, since)) \in Nat /\ Cardinality(Found(f, e, since)) \in Nat
  <2>1. Found(d, e, since) \subseteq Found(f, e, since)
    BY <1>1 DEF Found, RowsIn, Times
  <2>2. /\ IsFiniteSet(Found(f, e, since)) /\ Cardinality(Found(f, e, since)) \in Nat
        /\ Cardinality(Found(d, e, since)) \in Nat
    BY <1>2, FoundLinear
  <2> QED BY <2>1, <2>2, FS_Subset DEF Covered
<1>4. ASSUME NEW k \in RowsIn(f), f[k] < since \/ Place(f, p, k, since) < c[Kind[k]]
      PROVE  k \in T
  <2> DEFINE e == Kind[k]
             F == Found(d, e, since)
             G == Found(f, e, since)
  <2>1. k \in Keys /\ e \in Tables /\ f[k] \in Nat /\ d[k] \in Nat /\ c[e] \in Nat
    BY <1>1 DEF RowsIn, Times
  <2>2. IsFiniteSet(F) /\ Linear(F, o) /\ IsFiniteSet(G) /\ Linear(G, p) /\ F \subseteq G
    BY <1>2, <1>3, <2>1, FoundLinear
  <2>3. CASE f[k] = d[k] /\ k \notin S
    <3>1. k \in RowsIn(d)
      BY <2>1, <2>3 DEF RowsIn
    <3>2. ~(d[k] < since) /\ ~(Place(d, o, k, since) < c[e])
      BY <2>3, <3>1 DEF Covered
    <3>3. k \in F /\ k \in G
      BY <2>1, <2>2, <3>1, <3>2 DEF Found
    <3>4. Below(F, o, k) \subseteq Below(G, p, k)
      BY <2>2 DEF Below
    <3>5. Below(G, p, k) \in SUBSET G /\ IsFiniteSet(Below(G, p, k))
      BY <2>2, FS_Subset DEF Below
    <3>6. Pos(F, o, k) <= Pos(G, p, k)
      BY <3>4, <3>5, FS_Subset DEF Pos
    <3>7. Pos(F, o, k) \in Nat /\ Pos(G, p, k) \in Nat
      BY <2>2, <3>3, PosLess
    <3> QED BY <1>4, <2>1, <2>3, <3>2, <3>6, <3>7 DEF Place
  <2>4. CASE f[k] >= since /\ c[e] = 0
    <3>1. k \in G
      BY <2>1, <2>4 DEF Found
    <3>2. Pos(G, p, k) \in Nat
      BY <2>2, <3>1, PosLess
    <3> QED BY <1>4, <2>1, <2>4, <3>2 DEF Place
  <2>5. CASE f[k] >= since /\ d[k] = 0
    <3>1. k \in G
      BY <2>1, <2>5 DEF Found
    <3>2. F \subseteq Below(G, p, k)
      BY <2>1, <2>2, <2>5 DEF Below, Found, RowsIn
    <3>3. Below(G, p, k) \in SUBSET G /\ IsFiniteSet(Below(G, p, k))
      BY <2>2, FS_Subset DEF Below
    <3>4. Cardinality(F) <= Pos(G, p, k)
      BY <3>2, <3>3, FS_Subset DEF Pos
    <3>5. Pos(G, p, k) \in Nat
      BY <2>2, <3>1, PosLess
    <3> QED BY <1>3, <1>4, <2>1, <2>5, <3>4, <3>5 DEF Place
  <2> QED BY <2>3, <2>4, <2>5
<1>5. \A e \in Tables : c[e] <= Cardinality(Found(f, e, since))
  BY <1>3
<1> QED BY <1>4, <1>5 DEF Covered

\* Fewer rows counted, and more of them safe.
LEMMA CoveredLess ==
  ASSUME NEW d \in [Keys -> Times], NEW o, Sorted(d, o), IsFiniteSet(RowsIn(d)),
         NEW since \in Nat, NEW c \in [Tables -> Nat], NEW b \in [Tables -> Nat],
         NEW S, NEW T, Covered(d, o, since, c, S),
         \A e \in Tables : b[e] <= c[e], S \cap RowsIn(d) \subseteq T
  PROVE  Covered(d, o, since, b, T)
<1>1. ASSUME NEW e \in Tables PROVE b[e] <= Cardinality(Found(d, e, since))
  BY FoundLinear DEF Covered
<1>2. ASSUME NEW k \in RowsIn(d), d[k] < since \/ Place(d, o, k, since) < b[Kind[k]]
      PROVE  k \in T
  <2>1. k \in Keys /\ Kind[k] \in Tables /\ d[k] \in Nat
    BY RowsAssumption DEF RowsIn, Times
  <2>2. CASE d[k] < since
    BY <2>2 DEF Covered
  <2>3. CASE d[k] >= since
    <3>1. k \in Found(d, Kind[k], since)
      BY <2>3 DEF Found
    <3>2. Place(d, o, k, since) \in Nat
      BY <2>1, <3>1, FoundLinear, PosLess DEF Place
    <3>3. Place(d, o, k, since) < c[Kind[k]]
      BY <1>2, <2>1, <2>3, <3>2
    <3> QED BY <3>3 DEF Covered
  <2> QED BY <2>1, <2>2, <2>3
<1> QED BY <1>1, <1>2 DEF Covered

\* The next table is asked: what is found is counted.
Queried(d, o, since, c, b, e, m, S, T) ==
    /\ d \in [Keys -> Times] /\ Sorted(d, o) /\ IsFiniteSet(RowsIn(d))
    /\ since \in Nat /\ c \in [Tables -> Nat] /\ b \in [Tables -> Nat] /\ e \in Tables /\ m \in Nat
    /\ Covered(d, o, since, c, S)
    /\ b = [c EXCEPT ![e] = @ + Cardinality(Part(Found(d, e, since), o, c[e], m))]
    /\ (S \cup Part(Found(d, e, since), o, c[e], m)) \cap RowsIn(d) \subseteq T

LEMMA CoveredPart ==
  ASSUME NEW d, NEW o, NEW since, NEW c, NEW b, NEW e, NEW m, NEW S, NEW T,
         Queried(d, o, since, c, b, e, m, S, T)
  PROVE  Covered(d, o, since, b, T)
<1> USE DEF Queried
<1> DEFINE F == Found(d, e, since)
           P == Part(F, o, c[e], m)
<1>1. /\ IsFiniteSet(F) /\ Linear(F, o) /\ Cardinality(F) \in Nat /\ c[e] \in Nat
      /\ c[e] <= Cardinality(F)
  BY FoundLinear DEF Covered
<1>2. Cardinality(P) \in Nat /\ Cardinality(P) <= m /\ c[e] + Cardinality(P) <= Cardinality(F)
  BY <1>1, PartSmall, PartFits
<1>3. \A x \in Tables : b[x] = IF x = e THEN c[e] + Cardinality(P) ELSE c[x]
  OBVIOUS
<1>4. \A x \in Tables : b[x] <= Cardinality(Found(d, x, since))
  BY <1>2, <1>3 DEF Covered
<1>5. ASSUME NEW k \in RowsIn(d), d[k] < since \/ Place(d, o, k, since) < b[Kind[k]]
      PROVE  k \in T
  <2>1. k \in Keys /\ Kind[k] \in Tables /\ d[k] \in Nat
    BY RowsAssumption DEF RowsIn, Times
  <2>2. CASE d[k] < since \/ Place(d, o, k, since) < c[Kind[k]]
    BY <2>2 DEF Covered
  <2>3. CASE ~(d[k] < since) /\ ~(Place(d, o, k, since) < c[Kind[k]])
    <3>1. Kind[k] = e
      BY <1>3, <1>5, <2>1, <2>3
    <3>2. k \in F
      BY <2>1, <2>3, <3>1 DEF Found
    <3>3. Pos(F, o, k) \in Nat /\ Pos(F, o, k) >= c[e] /\ Pos(F, o, k) < c[e] + Cardinality(P)
      BY <1>1, <1>3, <1>5, <2>3, <3>1, <3>2, PosLess DEF Place
    <3>4. k \in P
      BY <1>1, <1>2, <3>2, <3>3 DEF Part
    <3> QED BY <3>4
  <2> QED BY <2>2, <2>3
<1> QED BY <1>4, <1>5 DEF Covered

\* There was room, and nothing was found: all rows of the table are safe.
LEMMA CoveredDrained ==
  ASSUME NEW d \in [Keys -> Times], NEW o, Sorted(d, o), IsFiniteSet(RowsIn(d)),
         NEW since \in Nat, NEW c \in [Tables -> Nat],
         NEW e \in Tables, NEW m \in Nat, m > 0, NEW S,
         Covered(d, o, since, c, S),
         Part(Found(d, e, since), o, c[e], m) = {}
  PROVE  \A k \in RowsIn(d) : Kind[k] = e => k \in S
<1> SUFFICES ASSUME NEW k \in RowsIn(d), Kind[k] = e PROVE k \in S
  OBVIOUS
<1>1. k \in Keys /\ d[k] \in Nat /\ c[e] \in Nat
  BY DEF RowsIn, Times
<1>2. CASE d[k] < since
  BY <1>2 DEF Covered
<1>3. CASE d[k] >= since
  <2>1. k \in Found(d, e, since)
    BY <1>3 DEF Found
  <2>2. Pos(Found(d, e, since), o, k) < c[e]
    BY <1>1, <2>1, FoundLinear, PartDrained
  <2> QED BY <2>2 DEF Covered, Place
<1> QED BY <1>1, <1>2, <1>3

-----------------------------------------------------------------------------
(***************************************************************************)
(* Stores.                                                                 *)
(***************************************************************************)

\* The rows of a store at time n.
StoreOK(d, o, n) ==
    /\ d \in [Keys -> Times] /\ o \in SUBSET (Keys \X Keys)
    /\ Sorted(d, o)
    /\ IsFiniteSet(RowsIn(d))
    /\ \A k \in RowsIn(d) : Parent[k] \in RowsIn(d)
    /\ \A k \in Keys : d[k] <= n

\* Dates grow, and new rows come after the rows of their tables.
Grows(d, o, f, p) ==
    /\ \A k \in Keys : d[k] <= f[k]
    /\ o \subseteq p
    /\ \A j, k \in Keys : d[j] > 0 /\ d[k] = 0 /\ f[k] > 0 /\ Kind[j] = Kind[k]
                            => <<j, k>> \in p

\* The sync state of a reader, in a store with dates d at time n.
StateOK(st, d, n) ==
    /\ st \in [when : Times, max : Times, mapped : SUBSET Keys, count : [Tables -> Nat]]
    /\ st.when <= n /\ st.max <= n
    /\ st.mapped \subseteq RowsIn(d)

StoreInv ==
    /\ env \in Environments
    /\ now \in Times /\ now > 0
    /\ at \in [Stores -> [Keys -> Times]]
    /\ before \in [Stores -> SUBSET (Keys \X Keys)]
    /\ \A s \in Stores : StoreOK(at[s], before[s], now)
    /\ user \in [Stores -> Times] /\ \A s \in Stores : user[s] <= now
    /\ state \in [Links -> [when : Times, max : Times, mapped : SUBSET Keys,
                            count : [Tables -> Nat]]]
    /\ \A l \in Links : StateOK(state[l], at[l[2]], now)
    /\ disturbed \subseteq Links

\* What every step keeps or lets grow.
Forward ==
    /\ env' = env
    /\ now <= now'
    /\ \A s \in Stores : Grows(at[s], before[s], at'[s], before'[s])
    /\ \A l \in Links : state[l].mapped \subseteq state'[l].mapped
    /\ disturbed \subseteq disturbed'

LEMMA SameStore ==
  ASSUME NEW d, NEW o, NEW n \in Nat, NEW m \in Nat, n <= m, StoreOK(d, o, n)
  PROVE  StoreOK(d, o, m) /\ Grows(d, o, d, o)
<1>1. d \in [Keys -> Times] /\ \A k \in Keys : d[k] \in Nat /\ d[k] <= n
  BY DEF StoreOK, Times
<1>2. \A k \in Keys : d[k] <= m /\ d[k] <= d[k]
  BY <1>1
<1> QED BY <1>1, <1>2 DEF StoreOK, Grows

\* Rows are written in a store with dates d and order o, which become f and p;
\* N are the new ones, which get ids in the order r.
Writes(d, o, n, f, p, N, r) ==
    /\ f \in [Keys -> Times] /\ \A k \in Keys : d[k] <= f[k] /\ f[k] <= n
    /\ N = {k \in Keys : d[k] = 0 /\ f[k] > 0} /\ IsFiniteSet(N)
    /\ \A k \in N : Parent[k] \in RowsIn(f)
    /\ \A j, k \in N : /\ <<j, k>> \in r => Kind[j] = Kind[k] /\ <<k, j>> \notin r
                       /\ Kind[j] = Kind[k] => j = k \/ <<j, k>> \in r \/ <<k, j>> \in r
    /\ \A i, j, k \in N : <<i, j>> \in r /\ <<j, k>> \in r => <<i, k>> \in r
    /\ p \in SUBSET (Keys \X Keys)
    /\ \A j, k \in Keys : <<j, k>> \in p <=>
            \/ <<j, k>> \in o
            \/ j \in RowsIn(d) /\ k \in N /\ Kind[j] = Kind[k]
            \/ j \in N /\ k \in N /\ <<j, k>> \in r

LEMMA StoreGrown ==
  ASSUME NEW d, NEW o, NEW n \in Nat, StoreOK(d, o, n),
         NEW f, NEW p, NEW N, NEW r, Writes(d, o, n, f, p, N, r)
  PROVE  StoreOK(f, p, n) /\ Grows(d, o, f, p)
<1> USE DEF Writes
<1>1. d \in [Keys -> Times] /\ o \in SUBSET (Keys \X Keys) /\ Sorted(d, o)
  BY DEF StoreOK
<1>2. \A k \in Keys : d[k] \in Nat /\ f[k] \in Nat
  BY <1>1 DEF Times
<1>3. RowsIn(f) = RowsIn(d) \cup N /\ RowsIn(d) \cap N = {}
  BY <1>2 DEF RowsIn
<1>4. IsFiniteSet(RowsIn(f))
  <2>1. IsFiniteSet(RowsIn(d)) /\ IsFiniteSet(N)
    BY DEF StoreOK
  <2>2. IsFiniteSet(RowsIn(d) \cup N)
    BY <2>1, FS_Union
  <2> QED BY <1>3, <2>2
<1>5. \A k \in RowsIn(f) : Parent[k] \in RowsIn(f)
  BY <1>3 DEF StoreOK
<1>6. ASSUME NEW j \in Keys, NEW k \in Keys
      PROVE  /\ <<j, k>> \in p => {j, k} \subseteq RowsIn(f) /\ Kind[j] = Kind[k]
             /\ {j, k} \subseteq RowsIn(f) /\ Kind[j] = Kind[k] =>
                   j = k \/ <<j, k>> \in p \/ <<k, j>> \in p
             /\ <<j, k>> \in p => <<k, j>> \notin p
  <2>1. /\ <<j, k>> \in o => {j, k} \subseteq RowsIn(d) /\ Kind[j] = Kind[k]
        /\ <<k, j>> \in o => {j, k} \subseteq RowsIn(d)
        /\ {j, k} \subseteq RowsIn(d) /\ Kind[j] = Kind[k] =>
              j = k \/ <<j, k>> \in o \/ <<k, j>> \in o
        /\ <<j, k>> \in o => <<k, j>> \notin o
    BY <1>1 DEF Sorted
  <2>2. <<j, k>> \in p => {j, k} \subseteq RowsIn(f) /\ Kind[j] = Kind[k]
    BY <1>3, <2>1
  <2>3. {j, k} \subseteq RowsIn(f) /\ Kind[j] = Kind[k] =>
                   j = k \/ <<j, k>> \in p \/ <<k, j>> \in p
    BY <1>3, <2>1
  <2>4. <<j, k>> \in p => <<k, j>> \notin p
    BY <1>3, <2>1
  <2> QED BY <2>2, <2>3, <2>4
<1>7. ASSUME NEW i \in Keys, NEW j \in Keys, NEW k \in Keys,
             <<i, j>> \in p, <<j, k>> \in p
      PROVE  <<i, k>> \in p
  <2>1. /\ <<i, j>> \in o => {i, j} \subseteq RowsIn(d) /\ Kind[i] = Kind[j]
        /\ <<j, k>> \in o => {j, k} \subseteq RowsIn(d) /\ Kind[j] = Kind[k]
        /\ <<i, j>> \in o /\ <<j, k>> \in o => <<i, k>> \in o
    BY <1>1 DEF Sorted
  <2>2. Kind[i] = Kind[j] /\ Kind[j] = Kind[k]
    BY <1>6, <1>7
  <2>3. CASE <<j, k>> \in o
    <3>1. <<i, j>> \in o
      BY <1>3, <1>7, <2>1, <2>3
    <3> QED BY <2>1, <2>3, <3>1
  <2>4. CASE j \in RowsIn(d) /\ k \in N
    <3>1. i \in RowsIn(d)
      BY <1>3, <1>7, <2>1, <2>4
    <3> QED BY <2>2, <2>4, <3>1
  <2>5. CASE j \in N /\ k \in N /\ <<j, k>> \in r
    <3>1. i \in RowsIn(d) \/ (i \in N /\ <<i, j>> \in r)
      BY <1>3, <1>7, <2>1, <2>5
    <3> QED BY <2>2, <2>5, <3>1
  <2> QED BY <1>7, <2>3, <2>4, <2>5
<1>8. Sorted(f, p)
  BY <1>6, <1>7 DEF Sorted
<1>9. Grows(d, o, f, p)
  <2>1. o \subseteq p
    BY <1>1
  <2>2. ASSUME NEW j \in Keys, NEW k \in Keys, d[j] > 0, d[k] = 0, f[k] > 0, Kind[j] = Kind[k]
        PROVE  <<j, k>> \in p
    BY <2>2 DEF RowsIn
  <2> QED BY <2>1, <2>2 DEF Grows
<1> QED BY <1>4, <1>5, <1>8, <1>9 DEF StoreOK

\* Row k of store s gets the date of now; it is new or an older version.
LEMMA RowWritten ==
  ASSUME NEW d, NEW o, NEW n \in Times, n > 0, StoreOK(d, o, n), NEW k \in Keys,
         NEW p \in SUBSET (Keys \X Keys),
         \/ /\ d[k] = 0 /\ (Parent[k] # k => d[Parent[k]] > 0)
            /\ p = o \cup {x \in RowsIn(d) \X {k} : Kind[x[1]] = Kind[x[2]]}
         \/ d[k] > 0 /\ p = o
  PROVE  StoreOK([d EXCEPT ![k] = n], p, n) /\ Grows(d, o, [d EXCEPT ![k] = n], p)
<1> DEFINE f == [d EXCEPT ![k] = n]
           N == {j \in Keys : d[j] = 0 /\ f[j] > 0}
<1>1. d \in [Keys -> Times] /\ n \in Nat /\ \A j \in Keys : d[j] \in Nat /\ d[j] <= n
  BY DEF StoreOK, Times
<1>2. f \in [Keys -> Times] /\ \A j \in Keys : f[j] = IF j = k THEN n ELSE d[j]
  BY <1>1
<1>3. \A j \in Keys : d[j] <= f[j] /\ f[j] <= n
  BY <1>1, <1>2
<1>4. N = IF d[k] = 0 THEN {k} ELSE {}
  BY <1>1, <1>2
<1>5. IsFiniteSet(N)
  BY <1>4, FS_EmptySet, FS_Singleton
<1>6. \A j \in N : Parent[j] \in RowsIn(f)
  BY <1>1, <1>2, <1>4, RowsAssumption DEF RowsIn
<1>7. \A i, j \in Keys : <<i, j>> \in p <=>
            \/ <<i, j>> \in o
            \/ i \in RowsIn(d) /\ j \in N /\ Kind[i] = Kind[j]
            \/ i \in N /\ j \in N /\ <<i, j>> \in {}
  BY <1>1, <1>4 DEF RowsIn
<1>8. \A i, j \in N : i = j
  BY <1>4
<1> HIDE DEF f, N
<1>9. StoreOK(f, p, n) /\ Grows(d, o, f, p)
  <2> DEFINE r == {}
  <2>1. \A i, j \in N : /\ <<i, j>> \in r => Kind[i] = Kind[j] /\ <<j, i>> \notin r
                        /\ Kind[i] = Kind[j] => i = j \/ <<i, j>> \in r \/ <<j, i>> \in r
    BY <1>8
  <2>2. \A h, i, j \in N : <<h, i>> \in r /\ <<i, j>> \in r => <<h, j>> \in r
    OBVIOUS
  <2>3. N = {j \in Keys : d[j] = 0 /\ f[j] > 0}
    BY DEF N
  <2> HIDE DEF r
  <2>4. \A i, j \in Keys : <<i, j>> \in p <=>
            \/ <<i, j>> \in o
            \/ i \in RowsIn(d) /\ j \in N /\ Kind[i] = Kind[j]
            \/ i \in N /\ j \in N /\ <<i, j>> \in r
    BY <1>7 DEF r
  <2>5. Writes(d, o, n, f, p, N, r)
    BY <1>2, <1>3, <1>5, <1>6, <2>1, <2>2, <2>3, <2>4 DEF Writes
  <2> QED BY <1>1, <2>5, StoreGrown
<1> QED BY <1>9 DEF f

\* The rows v of a page, read from a store with dates b and order r, are merged
\* by a store that knows the ids of the rows M.
Merges(d, o, n, b, r, v, M, f, p) ==
    /\ StoreOK(d, o, n) /\ StoreOK(b, r, n)
    /\ v \in Versions /\ \A k \in DOMAIN v : k \in RowsIn(b) /\ v[k] \in 1..n
    /\ M \subseteq RowsIn(d) /\ \A k \in DOMAIN v : Parent[k] \in M \cup DOMAIN v
    /\ f = [k \in Keys |-> IF k \in DOMAIN v /\ v[k] > d[k] THEN v[k] ELSE d[k]]
    /\ p = o \cup {x \in RowsIn(d) \X (DOMAIN v \ RowsIn(d)) : Kind[x[1]] = Kind[x[2]]}
            \cup (r \cap ((DOMAIN v \ RowsIn(d)) \X (DOMAIN v \ RowsIn(d))))

LEMMA RowsMerged ==
  ASSUME NEW d, NEW o, NEW n \in Nat, NEW b, NEW r, NEW v, NEW M, NEW f, NEW p,
         Merges(d, o, n, b, r, v, M, f, p)
  PROVE  /\ StoreOK(f, p, n) /\ Grows(d, o, f, p)
         /\ RowsIn(f) = RowsIn(d) \cup DOMAIN v
         /\ \A k \in DOMAIN v : f[k] >= v[k]
<1> USE DEF Merges
<1> DEFINE N == DOMAIN v \ RowsIn(d)
<1>1. DOMAIN v \in SUBSET Keys /\ \A k \in DOMAIN v : v[k] \in Times
  BY DEF Versions
<1>2. d \in [Keys -> Times] /\ o \in SUBSET (Keys \X Keys) /\ r \in SUBSET (Keys \X Keys)
  BY DEF StoreOK
<1>3. \A k \in Keys : d[k] \in Nat /\ d[k] <= n
  BY DEF StoreOK, Times
<1>4. f \in [Keys -> Times] /\ \A k \in Keys : d[k] <= f[k] /\ f[k] <= n
  BY <1>1, <1>2, <1>3 DEF Times
<1>5. N = {k \in Keys : d[k] = 0 /\ f[k] > 0}
  BY <1>1, <1>3, <1>4 DEF RowsIn
<1>6. RowsIn(f) = RowsIn(d) \cup DOMAIN v /\ \A k \in DOMAIN v : f[k] >= v[k]
  BY <1>1, <1>3, <1>4 DEF RowsIn
<1>7. IsFiniteSet(N)
  <2>1. N \subseteq RowsIn(b) /\ IsFiniteSet(RowsIn(b))
    BY DEF StoreOK
  <2> QED BY <2>1, FS_Subset
<1>8. \A k \in N : Parent[k] \in RowsIn(f)
  BY <1>6
<1>9. p \in SUBSET (Keys \X Keys)
  BY <1>1, <1>2 DEF RowsIn
<1>10. \A j, k \in Keys : <<j, k>> \in p <=>
            \/ <<j, k>> \in o
            \/ j \in RowsIn(d) /\ k \in N /\ Kind[j] = Kind[k]
            \/ j \in N /\ k \in N /\ <<j, k>> \in r
  OBVIOUS
<1>11. N \subseteq RowsIn(b) /\ Sorted(b, r) /\ N \subseteq Keys
  BY <1>1 DEF StoreOK
<1>12. \A j, k \in N : /\ <<j, k>> \in r => Kind[j] = Kind[k] /\ <<k, j>> \notin r
                       /\ Kind[j] = Kind[k] => j = k \/ <<j, k>> \in r \/ <<k, j>> \in r
  <2>1. TAKE j, k \in N
  <2>2. j \in Keys /\ k \in Keys /\ {j, k} \subseteq RowsIn(b)
    BY <1>11
  <2>3. /\ <<j, k>> \in r => Kind[j] = Kind[k] /\ <<k, j>> \notin r
        /\ {j, k} \subseteq RowsIn(b) /\ Kind[j] = Kind[k] =>
              j = k \/ <<j, k>> \in r \/ <<k, j>> \in r
    BY <1>11, <2>2 DEF Sorted
  <2> QED BY <2>2, <2>3
<1>13. \A i, j, k \in N : <<i, j>> \in r /\ <<j, k>> \in r => <<i, k>> \in r
  BY <1>11 DEF Sorted
<1> HIDE DEF N
<1>14. Writes(d, o, n, f, p, N, r)
  BY <1>4, <1>5, <1>7, <1>8, <1>9, <1>10, <1>12, <1>13 DEF Writes
<1>15. StoreOK(f, p, n) /\ Grows(d, o, f, p)
  BY <1>14, StoreGrown
<1> QED BY <1>6, <1>15

\* Page `page` of link l was read for request q, by time n and from stores with
\* dates A.
Proper(n, A, l, q, page) ==
    /\ l \in Links /\ q \in Requests /\ page \in Pages
    /\ q.since <= n /\ page.user <= n
    /\ \A k \in KeysOf(page) : /\ k \in RowsIn(A[l[1]]) /\ Kind[k] <= page.asked
                               /\ page.rows[k] \in 1..n

LEMMA LinkStores ==
  ASSUME NEW l \in Links
  PROVE  l[1] \in Stores /\ l[2] \in Stores /\ l[1] # l[2]
BY LinksAssumption

LEMMA PageRows ==
  ASSUME NEW page \in Pages
  PROVE  /\ page.rows \in Versions /\ KeysOf(page) \in SUBSET Keys
         /\ \A k \in KeysOf(page) : page.rows[k] \in Times
         /\ page.user \in Times /\ page.asked \in 0..Entities
BY DEF Pages, Versions, KeysOf

\* The rows of a page are finitely many, and counted.
LEMMA CountedRows ==
  ASSUME NEW page, IsFiniteSet(KeysOf(page)), NEW c \in [Tables -> Nat]
  PROVE  /\ Counted(c, page) \in [Tables -> Nat]
         /\ \A e \in Tables : c[e] <= Counted(c, page)[e]
         /\ KeysOf(page) = {} => Counted(c, page) = c
<1>1. ASSUME NEW e \in Tables
      PROVE  /\ Cardinality({k \in KeysOf(page) : Kind[k] = e}) \in Nat
             /\ KeysOf(page) = {} => Cardinality({k \in KeysOf(page) : Kind[k] = e}) = 0
  <2>1. {k \in KeysOf(page) : Kind[k] = e} \subseteq KeysOf(page)
    OBVIOUS
  <2>2. IsFiniteSet({k \in KeysOf(page) : Kind[k] = e})
    BY <2>1, FS_Subset
  <2>3. KeysOf(page) = {} => {k \in KeysOf(page) : Kind[k] = e} = {}
    BY <2>1
  <2> QED BY <2>2, <2>3, FS_CardinalityType, FS_EmptySet
<1> QED BY <1>1 DEF Counted

LEMMA ProperFinite ==
  ASSUME NEW l, NEW q, NEW page, StoreInv, Proper(now, at, l, q, page)
  PROVE  IsFiniteSet(KeysOf(page)) /\ KeysOf(page) \subseteq RowsIn(at[l[1]])
<1>1. KeysOf(page) \subseteq RowsIn(at[l[1]]) /\ l[1] \in Stores
  BY LinkStores DEF Proper
<1>2. IsFiniteSet(RowsIn(at[l[1]]))
  BY <1>1 DEF StoreInv, StoreOK
<1> QED BY <1>1, <1>2, FS_Subset

\* The newest date is no less than those it is the newest of, and no later.
LEMMA NewestDate ==
  ASSUME NEW n \in Nat, NEW st, st.max \in 0..n,
         NEW page, \A k \in KeysOf(page) : page.rows[k] \in 0..n
  PROVE  /\ Newest(st, page) \in 0..n
         /\ st.max <= Newest(st, page)
         /\ \A k \in KeysOf(page) : page.rows[k] <= Newest(st, page)
         /\ Newest(st, page) = st.max \/ \E k \in KeysOf(page) : Newest(st, page) = page.rows[k]
<1> DEFINE S == {st.max} \cup {page.rows[k] : k \in KeysOf(page)}
<1>1. S \in SUBSET (0..n) /\ S # {}
  OBVIOUS
<1>2. Max(S) \in S /\ \A y \in S : y <= Max(S)
  <2> HIDE DEF S
  <2> QED BY <1>1, MaxOf
<1> QED BY <1>1, <1>2 DEF Newest

LEMMA NextStateOK ==
  ASSUME NEW l, NEW q, NEW page, StoreInv, Proper(now, at, l, q, page),
         NEW f, RowsIn(f) = RowsIn(at[l[2]]) \cup KeysOf(page)
  PROVE  /\ StateOK(NextState(l[2], state[l], page), f, now)
         /\ state[l].mapped \subseteq NextState(l[2], state[l], page).mapped
<1> DEFINE st == state[l]
           ns == NextState(l[2], st, page)
<1>1. /\ l \in Links /\ page \in Pages /\ page.user <= now
      /\ \A k \in KeysOf(page) : page.rows[k] \in 1..now
  BY DEF Proper
<1>2. /\ st \in [when : Times, max : Times, mapped : SUBSET Keys, count : [Tables -> Nat]]
      /\ st.when <= now /\ st.max <= now /\ st.mapped \subseteq RowsIn(at[l[2]])
      /\ now \in Nat /\ now <= MaxTime
  BY <1>1, BoundsAssumption DEF StoreInv, StateOK, Times
<1>3. KeysOf(page) \in SUBSET Keys /\ page.user \in Times
  BY <1>1, PageRows
<1>4. CASE LastPage(page)
  <2>1. ns = [st EXCEPT !.when = IF page.user > user[l[2]] /\ page.user > st.max
                                 THEN page.user ELSE st.max,
                        !.count = [e \in Tables |-> 0]]
    BY <1>4 DEF NextState
  <2> HIDE DEF ns, st
  <2>2. /\ ns.when \in {page.user, st.max} /\ ns.max = st.max /\ ns.mapped = st.mapped
        /\ ns \in [when : Times, max : Times, mapped : SUBSET Keys, count : [Tables -> Nat]]
    BY <1>2, <1>3, <2>1
  <2> QED BY <1>1, <1>2, <2>2 DEF StateOK, ns, st
<1>5. CASE ~LastPage(page)
  <2>1. ns = [st EXCEPT !.max = Newest(st, page), !.mapped = @ \cup KeysOf(page),
                        !.count = Counted(@, page)]
    BY <1>5 DEF NextState
  <2>2. Counted(st.count, page) \in [Tables -> Nat]
    BY <1>2, CountedRows, ProperFinite
  <2>3. st.max \in 0..now /\ \A k \in KeysOf(page) : page.rows[k] \in 0..now
    BY <1>1, <1>2 DEF Times
  <2>4. Newest(st, page) \in Times /\ Newest(st, page) <= now
    <3> HIDE DEF st
    <3> QED BY <1>2, <2>3, NewestDate, BoundsAssumption DEF Times
  <2> HIDE DEF ns, st
  <2>5. /\ ns.when = st.when /\ ns.max = Newest(st, page) /\ ns.mapped = st.mapped \cup KeysOf(page)
        /\ ns \in [when : Times, max : Times, mapped : SUBSET Keys, count : [Tables -> Nat]]
    BY <1>2, <1>3, <2>1, <2>2, <2>4
  <2> QED BY <1>2, <2>4, <2>5 DEF StateOK, ns, st
<1> QED BY <1>4, <1>5

\* What a merge of `page` on link l changes: the writer and the sync state of l.
Merged(l, page) ==
    /\ \A k \in KeysOf(page) : at'[l[2]][k] >= page.rows[k]
    /\ \A s \in Stores \ {l[2]} : at'[s] = at[s] /\ before'[s] = before[s]
    /\ \A m \in Links \ {l} : state'[m] = state[m]
    /\ state'[l] = NextState(l[2], state[l], page)
    /\ \A m \in Links \ disturbed', k \in Keys :
          m[1] = l[2] /\ at'[l[2]][k] # at[l[2]][k] => ~Overtakes(m, k, at'[l[2]][k])

LEMMA MergeStores ==
  ASSUME NEW l, NEW q, NEW page, StoreInv, Proper(now, at, l, q, page),
         ProcessSyncChunk(l, page), UNCHANGED <<env, now>>
  PROVE  StoreInv' /\ Forward /\ Merged(l, page)
<1> DEFINE w == l[2]
           r == l[1]
<1>1. /\ l \in Links /\ r \in Stores /\ w \in Stores /\ page \in Pages
      /\ \A k \in KeysOf(page) : k \in RowsIn(at[r]) /\ page.rows[k] \in 1..now
      /\ page.user \in Times /\ page.user <= now
  BY LinkStores, PageRows DEF Proper
<1>2. /\ StoreOK(at[w], before[w], now) /\ StoreOK(at[r], before[r], now) /\ now \in Nat
      /\ StateOK(state[l], at[w], now)
  BY <1>1, BoundsAssumption DEF StoreInv, Times
<1>3. /\ at' = [at EXCEPT ![w] = MergedDates(w, page)]
      /\ before' = [before EXCEPT ![w] = MergedOrder(l, page)]
      /\ user' = [user EXCEPT ![w] = Max({@, page.user})]
      /\ state' = [state EXCEPT ![l] = NextState(w, @, page)]
      /\ disturbed' = disturbed \cup {m \in Links : m[1] = w /\
           \E x \in {[key |-> k, date |-> MergedDates(w, page)[k]] :
                         k \in {y \in Keys : MergedDates(w, page)[y] # at[w][y]}} :
              Overtakes(m, x.key, x.date)}
  BY DEF ProcessSyncChunk, Disturb
<1>4. Mergeable(state[l], page)
  BY DEF ProcessSyncChunk
<1>5. /\ at'[w] = MergedDates(w, page) /\ \A s \in Stores \ {w} : at'[s] = at[s]
      /\ before'[w] = MergedOrder(l, page) /\ \A s \in Stores \ {w} : before'[s] = before[s]
  BY <1>1, <1>3 DEF StoreInv
<1>6. /\ MergedDates(w, page) = [k \in Keys |-> IF k \in DOMAIN page.rows /\ page.rows[k] > at[w][k]
                                              THEN page.rows[k] ELSE at[w][k]]
      /\ MergedOrder(l, page) = before[w]
            \cup {x \in RowsIn(at[w]) \X (DOMAIN page.rows \ RowsIn(at[w])) : Kind[x[1]] = Kind[x[2]]}
            \cup (before[r] \cap ((DOMAIN page.rows \ RowsIn(at[w])) \X (DOMAIN page.rows \ RowsIn(at[w]))))
  BY DEF MergedDates, MergedOrder, NewIds, Inserted, RowsOf, RowsIn, KeysOf
<1>7. /\ StoreOK(at'[w], before'[w], now) /\ Grows(at[w], before[w], at'[w], before'[w])
      /\ RowsIn(at'[w]) = RowsIn(at[w]) \cup KeysOf(page)
      /\ \A k \in KeysOf(page) : at'[w][k] >= page.rows[k]
  <2>1. \A k \in DOMAIN page.rows : k \in RowsIn(at[r]) /\ page.rows[k] \in 1..now
    BY <1>1 DEF KeysOf
  <2>2. /\ page.rows \in Versions /\ state[l].mapped \subseteq RowsIn(at[w])
        /\ \A k \in DOMAIN page.rows : Parent[k] \in state[l].mapped \cup DOMAIN page.rows
    BY <1>1, <1>2, <1>4, PageRows DEF StateOK, Mergeable, KeysOf
  <2> DEFINE f == MergedDates(w, page)
             p == MergedOrder(l, page)
  <2>3. /\ StoreOK(f, p, now) /\ Grows(at[w], before[w], f, p)
        /\ RowsIn(f) = RowsIn(at[w]) \cup DOMAIN page.rows
        /\ \A k \in DOMAIN page.rows : f[k] >= page.rows[k]
    <3>1. Merges(at[w], before[w], now, at[r], before[r], page.rows, state[l].mapped, f, p)
      BY <1>2, <1>6, <2>1, <2>2 DEF Merges
    <3> HIDE DEF f, p, w, r
    <3> QED BY <1>2, <3>1, RowsMerged
  <2> QED BY <1>5, <2>3 DEF KeysOf
<1>8. \A s \in Stores : StoreOK(at'[s], before'[s], now) /\ Grows(at[s], before[s], at'[s], before'[s])
  <2>1. TAKE s \in Stores
  <2>2. CASE s = w
    BY <1>7, <2>2
  <2>3. CASE s # w
    BY <1>2, <1>5, <2>3, SameStore DEF StoreInv
  <2> QED BY <2>2, <2>3
<1>9. /\ state'[l] = NextState(w, state[l], page) /\ \A m \in Links \ {l} : state'[m] = state[m]
      /\ StateOK(state'[l], at'[w], now) /\ state[l].mapped \subseteq state'[l].mapped
  <2>1. state'[l] = NextState(w, state[l], page) /\ \A m \in Links \ {l} : state'[m] = state[m]
    BY <1>1, <1>3 DEF StoreInv
  <2> QED BY <1>7, <2>1, NextStateOK
<1>10. \A m \in Links : StateOK(state'[m], at'[m[2]], now) /\ state[m].mapped \subseteq state'[m].mapped
  <2>1. TAKE m \in Links
  <2>2. CASE m = l
    BY <1>9, <2>2
  <2>3. CASE m # l
    <3>1. StateOK(state[m], at[m[2]], now) /\ state'[m] = state[m] /\ m[2] \in Stores
      BY <1>9, <2>3, LinkStores DEF StoreInv
    <3>2. RowsIn(at[m[2]]) \subseteq RowsIn(at'[m[2]])
      BY <1>5, <1>7, <3>1
    <3> QED BY <3>1, <3>2 DEF StateOK
  <2> QED BY <2>2, <2>3
<1>11. /\ at' \in [Stores -> [Keys -> Times]] /\ before' \in [Stores -> SUBSET (Keys \X Keys)]
       /\ disturbed' \subseteq Links /\ disturbed \subseteq disturbed'
  <2>1. at'[w] \in [Keys -> Times] /\ before'[w] \in SUBSET (Keys \X Keys)
    BY <1>7 DEF StoreOK
  <2> QED BY <1>3, <1>5, <2>1 DEF StoreInv
<1>12. user' \in [Stores -> Times] /\ \A s \in Stores : user'[s] <= now
  <2> DEFINE T == {user[w], page.user}
  <2>1. T \in SUBSET (0..now) /\ T # {}
    BY <1>1, <1>2 DEF StoreInv, Times
  <2>2. Max(T) \in T
    <3> HIDE DEF T
    <3> QED BY <1>2, <2>1, MaxOf
  <2>3. user' = [user EXCEPT ![w] = Max(T)]
    BY <1>3
  <2>4. Max(T) \in Times /\ Max(T) <= now
    BY <1>1, <2>2 DEF StoreInv
  <2> HIDE DEF T
  <2> QED BY <1>1, <2>3, <2>4 DEF StoreInv
<1>13. state' \in [Links -> [when : Times, max : Times, mapped : SUBSET Keys, count : [Tables -> Nat]]]
  <2>1. \A m \in Links : state'[m] \in [when : Times, max : Times, mapped : SUBSET Keys, count : [Tables -> Nat]]
    BY <1>10 DEF StateOK
  <2> QED BY <1>3, <2>1 DEF StoreInv
<1>14. StoreInv'
  BY <1>8, <1>10, <1>11, <1>12, <1>13 DEF StoreInv
<1>15. Forward
  BY <1>2, <1>8, <1>10, <1>11 DEF Forward
<1>16. ASSUME NEW m \in Links \ disturbed', NEW k \in Keys, m[1] = w, at'[w][k] # at[w][k]
       PROVE  ~Overtakes(m, k, at'[w][k])
  <2> DEFINE x == [key |-> k, date |-> MergedDates(w, page)[k]]
  <2>1. x \in {[key |-> j, date |-> MergedDates(w, page)[j]] :
                   j \in {y \in Keys : MergedDates(w, page)[y] # at[w][y]}}
    BY <1>5, <1>16
  <2>2. ~Overtakes(m, x.key, x.date)
    BY <1>3, <1>16, <2>1
  <2> QED BY <1>5, <2>2
<1>17. Merged(l, page)
  BY <1>5, <1>7, <1>9, <1>16 DEF Merged
<1> QED BY <1>14, <1>15, <1>17

LEMMA QuietStores ==
  ASSUME StoreInv, UNCHANGED <<env, now, at, before, user, state, disturbed>>
  PROVE  StoreInv' /\ Forward
<1>1. StoreInv'
  BY DEF StoreInv
<1>2. \A s \in Stores : Grows(at[s], before[s], at'[s], before'[s])
  BY BoundsAssumption, SameStore DEF StoreInv, Times
<1> QED BY <1>1, <1>2, BoundsAssumption DEF StoreInv, Times, Forward

LEMMA TickStores ==
  ASSUME StoreInv, Tick
  PROVE  StoreInv' /\ Forward
<1>1. /\ now \in Nat /\ now' \in Nat /\ now < now' /\ now' \in Times
  BY BoundsAssumption DEF StoreInv, Times, Tick
<1>2. UNCHANGED <<env, at, before, user, state, disturbed>>
  BY DEF Tick
<1>3. \A s \in Stores : StoreOK(at[s], before[s], now') /\ Grows(at[s], before[s], at[s], before[s])
  BY <1>1, SameStore DEF StoreInv
<1>4. \A l \in Links : StateOK(state[l], at[l[2]], now')
  BY <1>1 DEF StoreInv, StateOK, Times
<1>5. \A s \in Stores : user[s] <= now'
  BY <1>1 DEF StoreInv, Times
<1>6. StoreInv'
  BY <1>1, <1>2, <1>3, <1>4, <1>5 DEF StoreInv
<1>7. Forward
  BY <1>1, <1>2, <1>3 DEF Forward
<1> QED BY <1>6, <1>7

LEMMA UserStores ==
  ASSUME NEW s \in Stores, StoreInv, UpdateUser(s)
  PROVE  StoreInv' /\ Forward
<1>1. now \in Nat /\ \A x \in Stores : user'[x] \in {user[x], now}
  BY BoundsAssumption DEF StoreInv, Times, UpdateUser
<1>2. UNCHANGED <<env, now, at, before, state, disturbed>>
  BY DEF UpdateUser
<1>3. \A x \in Stores : Grows(at[x], before[x], at[x], before[x])
  BY <1>1, SameStore DEF StoreInv
<1>4. user' \in [Stores -> Times] /\ \A x \in Stores : user'[x] <= now
  BY <1>1 DEF StoreInv, UpdateUser
<1>5. StoreInv'
  BY <1>2, <1>4 DEF StoreInv
<1>6. Forward
  BY <1>1, <1>2, <1>3 DEF Forward
<1> QED BY <1>5, <1>6

\* Row k of store s is created or updated.
Written(s, k) ==
    /\ StoreOK(at'[s], before'[s], now) /\ Grows(at[s], before[s], at'[s], before'[s])
    /\ at' = [at EXCEPT ![s] = [at[s] EXCEPT ![k] = now]]
    /\ before' = [before EXCEPT ![s] = before'[s]]
    /\ disturbed' = disturbed \cup {l \in Links : l[1] = s /\ Overtakes(l, k, now)}
    /\ UNCHANGED <<env, now, user, state, job, late, kept>>

LEMMA RowIsWritten ==
  ASSUME NEW s \in Stores, NEW k \in Keys, StoreInv, Create(s, k) \/ Update(s, k)
  PROVE  Written(s, k)
<1> DEFINE d == at[s]
           o == before[s]
<1>1. StoreOK(d, o, now) /\ now \in Times /\ now > 0
  BY DEF StoreInv
<1>2. d \in [Keys -> Times] /\ o \in SUBSET (Keys \X Keys)
  BY <1>1 DEF StoreOK
<1>3. /\ at' = [at EXCEPT ![s] = [at[s] EXCEPT ![k] = now]]
      /\ at'[s] = [d EXCEPT ![k] = now]
  BY DEF Create, Update, StoreInv
<1>4. disturbed' = disturbed \cup {l \in Links : l[1] = s /\ Overtakes(l, k, now)}
  <2>1. disturbed' = disturbed \cup {l \in Links : l[1] = s /\
            \E x \in {[key |-> k, date |-> now]} : Overtakes(l, x.key, x.date)}
    BY DEF Create, Update, Disturb
  <2>2. \A l : (\E x \in {[key |-> k, date |-> now]} : Overtakes(l, x.key, x.date))
                 <=> Overtakes(l, k, now)
    OBVIOUS
  <2> QED BY <2>1, <2>2
<1>5. UNCHANGED <<env, now, user, state, job, late, kept>>
  BY DEF Create, Update
<1>6. CASE Create(s, k)
  <2>1. /\ before'[s] = o \cup {x \in RowsIn(d) \X {k} : Kind[x[1]] = Kind[x[2]]}
        /\ before' = [before EXCEPT ![s] = before'[s]]
        /\ d[k] = 0 /\ (Parent[k] # k => d[Parent[k]] > 0)
    BY <1>6 DEF Create, StoreInv, NewIds, RowsOf, RowsIn
  <2>2. before'[s] \in SUBSET (Keys \X Keys)
    BY <1>2, <2>1 DEF RowsIn
  <2>3. StoreOK([d EXCEPT ![k] = now], before'[s], now)
          /\ Grows(d, o, [d EXCEPT ![k] = now], before'[s])
    <3> HIDE DEF d, o
    <3> QED BY <1>1, <2>1, <2>2, RowWritten
  <2> QED BY <1>3, <1>4, <1>5, <2>1, <2>3 DEF Written
<1>7. CASE Update(s, k)
  <2>1. before'[s] = o /\ before' = [before EXCEPT ![s] = before'[s]] /\ d[k] > 0
    BY <1>2, <1>7 DEF Update, StoreInv, Times
  <2>2. StoreOK([d EXCEPT ![k] = now], before'[s], now)
          /\ Grows(d, o, [d EXCEPT ![k] = now], before'[s])
    <3> HIDE DEF d, o
    <3> QED BY <1>1, <1>2, <2>1, RowWritten
  <2> QED BY <1>3, <1>4, <1>5, <2>1, <2>2 DEF Written
<1> QED BY <1>6, <1>7

LEMMA WrittenStores ==
  ASSUME NEW s \in Stores, NEW k \in Keys, StoreInv, Written(s, k)
  PROVE  StoreInv' /\ Forward
<1>1. /\ \A x \in Stores \ {s} : at'[x] = at[x] /\ before'[x] = before[x]
      /\ at' \in [Stores -> [Keys -> Times]] /\ before' \in [Stores -> SUBSET (Keys \X Keys)]
  <2>1. at'[s] \in [Keys -> Times] /\ before'[s] \in SUBSET (Keys \X Keys)
    BY DEF Written, StoreOK
  <2>2. before' = [before EXCEPT ![s] = before'[s]] /\ at' = [at EXCEPT ![s] = at'[s]]
    BY DEF Written, StoreInv
  <2> QED BY <2>1, <2>2 DEF StoreInv
<1>2. UNCHANGED <<env, now, user, state>> /\ now \in Nat
  BY BoundsAssumption DEF Written, StoreInv, Times
<1>3. \A x \in Stores : StoreOK(at'[x], before'[x], now) /\ Grows(at[x], before[x], at'[x], before'[x])
  <2>1. TAKE x \in Stores
  <2>2. CASE x = s
    BY <2>2 DEF Written
  <2>3. CASE x # s
    BY <1>1, <1>2, <2>3, SameStore DEF StoreInv
  <2> QED BY <2>2, <2>3
<1>4. ASSUME NEW l \in Links PROVE StateOK(state[l], at'[l[2]], now)
  <2>1. l[2] \in Stores /\ StateOK(state[l], at[l[2]], now)
    BY LinkStores DEF StoreInv
  <2>2. RowsIn(at[l[2]]) \subseteq RowsIn(at'[l[2]])
    <3>1. /\ \A j \in Keys : at[l[2]][j] <= at'[l[2]][j]
          /\ at[l[2]] \in [Keys -> Times] /\ at'[l[2]] \in [Keys -> Times]
      BY <1>1, <1>3, <2>1 DEF Grows, StoreInv
    <3> QED BY <3>1 DEF RowsIn, Times
  <2> QED BY <2>1, <2>2 DEF StateOK
<1>5. disturbed' \subseteq Links /\ disturbed \subseteq disturbed'
  BY DEF Written, StoreInv
<1>6. StoreInv'
  BY <1>1, <1>2, <1>3, <1>4, <1>5 DEF StoreInv
<1>7. Forward
  BY <1>2, <1>3, <1>5 DEF Forward
<1> QED BY <1>6, <1>7

-----------------------------------------------------------------------------
(***************************************************************************)
(* The sync under way, uploads and transfers.                              *)
(***************************************************************************)
JobOK ==
    /\ job \in Jobs \cup {NoJob}
    /\ Running =>
        /\ Proper(now, at, job.link, job.request, Page)
        /\ job.phase = "ready" => job.asked = 0 /\ job.rows = NoRows /\ job.user = 0
        /\ job.phase = "reading" => job.asked < Entities /\ job.room > 0
        /\ job.phase = "uploading" => job.asked = Entities \/ KeysOf(Page) # {}
        /\ env.late = {} =>
              /\ job.request.since = state[job.link].when
              /\ \A e \in Tables : state[job.link].count[e] <= job.request.offsets[e]

\* A late upload, of a kind that may be late.
SentOK(n, A, e, u) ==
    /\ u \in Sent /\ Proper(n, A, u.link, u.request, u.page)
    /\ u.kind \in e.late
    /\ u.kind = "staged" => KeysOf(u.page) # {}

LateOK == \A u \in late : SentOK(now, at, env, u)

\* A transfer that was committed: its rows have been merged.
Recorded(A, st, c) ==
    /\ c \in [upload : Sent, next : Requests]
    /\ c.upload.kind = "staged" /\ KeysOf(c.upload.page) # {}
    /\ c.next = [since |-> c.upload.request.since,
                 offsets |-> Counted(c.upload.request.offsets, c.upload.page)]
    /\ \A k \in KeysOf(c.upload.page) :
          /\ A[c.upload.link[2]][k] >= c.upload.page.rows[k]
          /\ k \in st[c.upload.link].mapped

KeptOK == \A c \in kept : Recorded(at, state, c)

SyncInv == StoreInv /\ JobOK /\ LateOK /\ KeptOK

LEMMA SyncTypes == SyncInv => TypeOK
<1> SUFFICES ASSUME SyncInv PROVE TypeOK
  OBVIOUS
<1>1. \A s \in Stores : Ordered(s)
  BY DEF SyncInv, StoreInv, StoreOK, Sorted, Ordered, RowsIn, RowsOf
<1>2. late \subseteq Sent /\ kept \subseteq [upload : Sent, next : Requests]
  BY DEF SyncInv, LateOK, SentOK, KeptOK, Recorded
<1> QED BY <1>1, <1>2 DEF SyncInv, StoreInv, JobOK, TypeOK

LEMMA DatesGrow ==
  ASSUME StoreInv, StoreInv', Forward
  PROVE  /\ \A s \in Stores, k \in Keys : at[s][k] <= at'[s][k]
         /\ \A s \in Stores : RowsIn(at[s]) \subseteq RowsIn(at'[s])
<1>1. at \in [Stores -> [Keys -> Times]] /\ at' \in [Stores -> [Keys -> Times]]
  BY DEF StoreInv
<1>2. \A s \in Stores, k \in Keys : at[s][k] <= at'[s][k]
  BY DEF Forward, Grows
<1> QED BY <1>1, <1>2 DEF RowsIn, Times

LEMMA ProperStays ==
  ASSUME NEW l, NEW q, NEW page, StoreInv, StoreInv', Forward, Proper(now, at, l, q, page)
  PROVE  Proper(now', at', l, q, page)
<1>1. /\ l \in Links /\ l[1] \in Stores /\ q \in Requests /\ page \in Pages
      /\ RowsIn(at[l[1]]) \subseteq RowsIn(at'[l[1]])
  BY LinkStores, DatesGrow DEF Proper
<1>2. now \in Nat /\ now' \in Nat /\ now <= now' /\ q.since \in Nat /\ page.user \in Nat
  BY <1>1, BoundsAssumption DEF StoreInv, Forward, Times, Requests, Pages
<1>3. \A k \in KeysOf(page) : page.rows[k] \in 1..now'
  BY <1>2 DEF Proper
<1> QED BY <1>1, <1>2, <1>3 DEF Proper

LEMMA LateStays ==
  ASSUME StoreInv, StoreInv', Forward, LateOK, late' \subseteq late
  PROVE  LateOK'
<1>1. ASSUME NEW u \in late' PROVE SentOK(now', at', env', u)
  BY ProperStays DEF LateOK, SentOK, Forward
<1> QED BY <1>1 DEF LateOK

LEMMA RecordedStays ==
  ASSUME StoreInv, StoreInv', Forward, NEW c, Recorded(at, state, c)
  PROVE  Recorded(at', state', c)
<1>1. c.upload.link \in Links /\ c.upload.link[2] \in Stores /\ c.upload.page \in Pages
  BY LinkStores DEF Recorded, Sent
<1>2. ASSUME NEW k \in KeysOf(c.upload.page)
      PROVE  /\ at'[c.upload.link[2]][k] >= c.upload.page.rows[k]
             /\ k \in state'[c.upload.link].mapped
  <2>1. k \in Keys /\ c.upload.page.rows[k] \in Nat
    BY <1>1, PageRows DEF Times
  <2>2. at[c.upload.link[2]][k] \in Nat /\ at'[c.upload.link[2]][k] \in Nat
    BY <1>1, <2>1 DEF StoreInv, Times
  <2>3. /\ at[c.upload.link[2]][k] <= at'[c.upload.link[2]][k]
        /\ at[c.upload.link[2]][k] >= c.upload.page.rows[k]
    BY <1>1, <2>1, DatesGrow DEF Recorded
  <2>4. k \in state'[c.upload.link].mapped
    BY <1>1 DEF Recorded, Forward
  <2> QED BY <2>1, <2>2, <2>3, <2>4
<1> QED BY <1>2 DEF Recorded

LEMMA KeptStays ==
  ASSUME StoreInv, StoreInv', Forward, KeptOK, kept' \subseteq kept
  PROVE  KeptOK'
<1>1. \A c \in kept' : Recorded(at', state', c)
  BY RecordedStays DEF KeptOK
<1> QED BY <1>1 DEF KeptOK

LEMMA NoJobOK ==
  ASSUME job' = NoJob
  PROVE  JobOK' /\ ~Running'
BY DEF JobOK, Running

\* The sync is not touched, nor the sync state of its link.
LEMMA JobStays ==
  ASSUME StoreInv, StoreInv', Forward, JobOK, job' = job,
         Running => state'[job.link] = state[job.link] \/ env.late # {}
  PROVE  JobOK'
<1>1. CASE ~Running
  BY <1>1 DEF JobOK, Running
<1>2. CASE Running
  <2>1. Proper(now', at', job.link, job.request, Page)
    BY <1>2, ProperStays DEF JobOK
  <2>2. env' = env
    BY DEF Forward
  <2>3. CASE state'[job.link] = state[job.link]
    BY <1>2, <2>1, <2>2, <2>3 DEF JobOK, Running, Page
  <2>4. CASE env.late # {}
    BY <1>2, <2>1, <2>2, <2>4 DEF JobOK, Running, Page
  <2> QED BY <1>2, <2>3, <2>4
<1> QED BY <1>1, <1>2

\* The parts of the sync under way.
LEMMA JobFields ==
  ASSUME JobOK, Running
  PROVE  /\ job \in Jobs /\ job.link \in Links /\ job.request \in Requests
         /\ job.request.since \in Times /\ job.request.offsets \in [Tables -> Nat]
         /\ job.rows \in Versions /\ job.asked \in 0..Entities /\ job.room \in Nat
         /\ job.user \in Times
         /\ Page \in Pages /\ KeysOf(Page) = DOMAIN job.rows /\ Page.rows = job.rows
         /\ Page.asked = job.asked /\ Page.user = job.user
         /\ \A kind \in Uploads : Upload(kind) \in Sent
<1>1. job \in Jobs
  BY DEF JobOK, Running
<1>2. /\ job.link \in Links /\ job.request \in Requests
      /\ job.rows \in Versions /\ job.asked \in 0..Entities /\ job.room \in Nat
      /\ job.user \in Times
  BY <1>1 DEF Jobs
<1>3. Page \in Pages /\ KeysOf(Page) = DOMAIN job.rows /\ Page.rows = job.rows
         /\ Page.asked = job.asked /\ Page.user = job.user
  BY <1>2 DEF Page, Pages, KeysOf
<1>4. job.request.since \in Times /\ job.request.offsets \in [Tables -> Nat]
  BY <1>2 DEF Requests
<1>5. \A kind \in Uploads : Upload(kind) \in Sent
  BY <1>2, <1>3 DEF Upload, Sent
<1> QED BY <1>1, <1>2, <1>3, <1>4, <1>5

LEMMA NoRowsYet ==
  /\ NoRows \in Versions /\ DOMAIN NoRows = {}
<1>1. NoRows \in [{} -> Times] /\ DOMAIN NoRows = {}
  BY DEF NoRows
<1> QED BY <1>1 DEF Versions

LEMMA CheckpointType ==
  ASSUME NEW st, NEW d, NEW n, StateOK(st, d, n)
  PROVE  Checkpoint(st) \in Requests /\ Checkpoint(st).since = st.when
         /\ Checkpoint(st).offsets = st.count /\ st.count \in [Tables -> Nat] /\ st.when <= n
BY DEF StateOK, Checkpoint, Requests

\* A sync is ready to ask for the next page.
LEMMA ReadyOK ==
  ASSUME StoreInv, NEW l \in Links, NEW q \in Requests, q.since <= now, UNCHANGED <<env, now>>,
         job' = [phase |-> "ready", link |-> l, request |-> q,
                 room |-> 0, user |-> 0, rows |-> NoRows, asked |-> 0],
         env.late = {} => /\ q.since = state'[l].when
                          /\ \A e \in Tables : state'[l].count[e] <= q.offsets[e]
  PROVE  JobOK'
<1>1. 0 \in Times /\ 0 \in 0..Entities /\ 0 <= now /\ now \in Nat
  BY BoundsAssumption DEF StoreInv, Times
<1>2. /\ job'.phase = "ready" /\ job'.link = l /\ job'.request = q /\ job'.room = 0
      /\ job'.user = 0 /\ job'.rows = NoRows /\ job'.asked = 0
  OBVIOUS
<1>3. job' \in Jobs
  BY <1>1, NoRowsYet DEF Jobs
<1>4. /\ Page' = [user |-> 0, rows |-> NoRows, asked |-> 0]
      /\ Page' \in Pages /\ KeysOf(Page') = {} /\ Page'.user = 0
  BY <1>1, <1>2, NoRowsYet DEF Page, Pages, KeysOf
<1>5. Proper(now', at', job'.link, job'.request, Page')
  BY <1>1, <1>2, <1>4 DEF Proper
<1> QED BY <1>2, <1>3, <1>5 DEF JobOK

LEMMA StartOK ==
  ASSUME NEW l \in Links, SyncInv, StartSync(l)
  PROVE  JobOK'
<1>1. /\ StoreInv /\ StateOK(state[l], at[l[2]], now) /\ now \in Nat
      /\ UNCHANGED <<env, now>> /\ state' = state
      /\ job' = [phase |-> "ready", link |-> l, request |-> Checkpoint(state[l]),
                 room |-> 0, user |-> 0, rows |-> NoRows, asked |-> 0]
  BY BoundsAssumption DEF SyncInv, StoreInv, StartSync, Times
<1>2. Checkpoint(state[l]) \in Requests /\ Checkpoint(state[l]).since = state[l].when
         /\ Checkpoint(state[l]).offsets = state[l].count /\ state[l].count \in [Tables -> Nat]
         /\ state[l].when <= now
  BY <1>1, CheckpointType
<1>3. \A e \in Tables : state[l].count[e] <= state[l].count[e]
  BY <1>2
<1> DEFINE q == Checkpoint(state[l])
<1> HIDE DEF q
<1>4. /\ q \in Requests /\ q.since <= now /\ q.since = state'[l].when
      /\ \A e \in Tables : state'[l].count[e] <= q.offsets[e]
      /\ job' = [phase |-> "ready", link |-> l, request |-> q,
                 room |-> 0, user |-> 0, rows |-> NoRows, asked |-> 0]
  BY <1>1, <1>2, <1>3 DEF q
<1> QED BY <1>1, <1>4, ReadyOK

\* The sync goes on from checkpoint `next`, or ends.
LEMMA ContinueOK ==
  ASSUME StoreInv, JobOK, Running, NEW next \in Requests, next.since <= now,
         Continue(next), UNCHANGED <<env, now>>,
         env.late = {} => /\ next.since = state'[job.link].when
                          /\ \A e \in Tables : state'[job.link].count[e] <= next.offsets[e]
  PROVE  JobOK'
<1>1. CASE job' = NoJob
  BY <1>1, NoJobOK
<1>2. CASE job' = [job EXCEPT !.phase = "ready", !.request = next,
                              !.room = 0, !.user = 0, !.rows = NoRows, !.asked = 0]
  <2>1. job \in Jobs /\ job.link \in Links
    BY JobFields
  <2>2. job' = [phase |-> "ready", link |-> job.link, request |-> next,
                room |-> 0, user |-> 0, rows |-> NoRows, asked |-> 0]
    BY <1>2, <2>1 DEF Jobs
  <2> DEFINE l == job.link
  <2> HIDE DEF l
  <2>3. /\ l \in Links /\ job' = [phase |-> "ready", link |-> l, request |-> next,
                                  room |-> 0, user |-> 0, rows |-> NoRows, asked |-> 0]
        /\ env.late = {} => /\ next.since = state'[l].when
                            /\ \A e \in Tables : state'[l].count[e] <= next.offsets[e]
    BY <2>1, <2>2 DEF l
  <2> QED BY <2>3, ReadyOK
<1> QED BY <1>1, <1>2 DEF Continue

LEMMA GetOK ==
  ASSUME NEW m \in Nat \ {0}, SyncInv, GetSyncChunk(m)
  PROVE  JobOK'
<1>1. /\ JobOK /\ Running /\ job.phase = "ready" /\ job.asked = 0 /\ job.rows = NoRows
      /\ UNCHANGED <<env, now, at, state>>
  BY DEF SyncInv, JobOK, GetSyncChunk
<1>2. /\ job \in Jobs /\ job.link \in Links /\ job.request \in Requests
      /\ job.request.since <= now
  BY <1>1, JobFields DEF JobOK, Proper
<1>3. PICK u \in Times : /\ u <= now
                         /\ job' = [job EXCEPT !.phase = "reading", !.room = m, !.user = u]
  <2>1. job.link[1] \in Stores
    BY <1>2, LinkStores
  <2>2. user[job.link[1]] \in Times /\ user[job.link[1]] <= now /\ 0 \in Times /\ 0 <= now
    BY <2>1, BoundsAssumption DEF SyncInv, StoreInv, Times
  <2> QED BY <2>2 DEF GetSyncChunk
<1>4. /\ job'.phase = "reading" /\ job'.link = job.link /\ job'.request = job.request
      /\ job'.room = m /\ job'.user = u /\ job'.rows = NoRows /\ job'.asked = 0
      /\ job' \in Jobs
  BY <1>1, <1>2, <1>3 DEF Jobs
<1>5. /\ Page' = [user |-> u, rows |-> NoRows, asked |-> 0]
      /\ Page' \in Pages /\ KeysOf(Page') = {} /\ Page'.user = u
  BY <1>4, NoRowsYet, BoundsAssumption DEF Page, Pages, KeysOf
<1>6. Proper(now', at', job'.link, job'.request, Page')
  BY <1>1, <1>2, <1>3, <1>4, <1>5 DEF Proper
<1> QED BY <1>1, <1>4, <1>6, BoundsAssumption DEF JobOK

\* What one query adds to the page.
Asked == Part(Found(at[job.link[1]], job.asked + 1, job.request.since), before[job.link[1]],
              job.request.offsets[job.asked + 1], job.room)

\* The table asked is found in the order of ids, and the part added is small.
LEMMA AskedFacts ==
  ASSUME SyncInv, Running, job.phase = "reading"
  PROVE  /\ job.asked + 1 \in Tables /\ job.room \in Nat /\ job.room > 0
         /\ job.link[1] \in Stores
         /\ Asked = {k \in FindItems(job.link[1], job.asked + 1, job.request.since) :
                       LET x == Rank(job.link[1], k, job.request.since)
                       IN /\ x >= job.request.offsets[job.asked + 1]
                          /\ x < job.request.offsets[job.asked + 1] + job.room}
         /\ Asked \subseteq Found(at[job.link[1]], job.asked + 1, job.request.since)
         /\ IsFiniteSet(Asked) /\ Cardinality(Asked) \in Nat /\ Cardinality(Asked) <= job.room
<1> DEFINE s == job.link[1]
           e == job.asked + 1
           since == job.request.since
           from == job.request.offsets[e]
           F == Found(at[s], e, since)
<1>1. /\ e \in Tables /\ job.room \in Nat /\ job.room > 0 /\ s \in Stores
      /\ since \in Nat /\ from \in Nat
  BY JobFields, LinkStores, BoundsAssumption DEF SyncInv, JobOK, Tables, Times
<1>2. StoreOK(at[s], before[s], now)
  BY <1>1 DEF SyncInv, StoreInv
<1>3. IsFiniteSet(F) /\ Linear(F, before[s])
  BY <1>1, <1>2, FoundLinear DEF StoreOK
<1>4. FindItems(s, e, since) = F
  BY DEF FindItems, Found, RowsOf, RowsIn
<1>5. \A k \in F : Rank(s, k, since) = Pos(F, before[s], k)
  BY DEF FindItems, Found, RowsOf, RowsIn, Rank, Pos, Below
<1>6. Asked = {k \in FindItems(s, e, since) :
                  Rank(s, k, since) >= from /\ Rank(s, k, since) < from + job.room}
  BY <1>4, <1>5 DEF Asked, Part
<1>7. Asked \subseteq F
  BY DEF Asked, Part
<1>8. IsFiniteSet(Asked) /\ Cardinality(Asked) \in Nat /\ Cardinality(Asked) <= job.room
  BY <1>1, <1>3, PartSmall DEF Asked
<1> QED BY <1>1, <1>6, <1>7, <1>8

LEMMA AddFields ==
  ASSUME SyncInv, AddItems
  PROVE  /\ Running /\ job.phase = "reading" /\ job \in Jobs
         /\ job'.link = job.link /\ job'.request = job.request /\ job'.user = job.user
         /\ job'.asked = job.asked + 1
         /\ job'.rows = [k \in DOMAIN job.rows \cup Asked |->
                            IF k \in Asked THEN at[job.link[1]][k] ELSE job.rows[k]]
         /\ job'.room \in Nat /\ job' \in Jobs
         /\ job'.phase \in {"reading", "uploading"}
         /\ job'.phase = "reading" => job'.asked < Entities /\ job'.room > 0
         /\ job'.phase = "uploading" => job'.asked = Entities \/ Asked # {}
         /\ UNCHANGED <<env, now, at, before, user, state, late, kept, disturbed>>
<1>1. Running /\ job.phase = "reading" /\ JobOK
  BY DEF AddItems, SyncInv
<1>2. job \in Jobs /\ job.rows \in Versions
  BY <1>1, JobFields
<1> DEFINE e == job.asked + 1
           full == Cardinality(Asked) = job.room
           rows == [k \in DOMAIN job.rows \cup Asked |->
                            IF k \in Asked THEN at[job.link[1]][k] ELSE job.rows[k]]
           room == IF e = Entities THEN 0 ELSE job.room - Cardinality(Asked)
           phase == IF e = Entities \/ full THEN "uploading" ELSE "reading"
<1>3. job' = [job EXCEPT !.rows = rows, !.asked = e, !.room = room, !.phase = phase]
  BY <1>1, AskedFacts DEF AddItems
<1>4. rows \in Versions
  <2>1. job.link[1] \in Stores /\ Asked \subseteq Keys
    BY <1>1, AskedFacts DEF Found, RowsIn
  <2>2. at[job.link[1]] \in [Keys -> Times]
    BY <2>1 DEF SyncInv, StoreInv
  <2>3. DOMAIN job.rows \in SUBSET Keys /\ \A k \in DOMAIN job.rows : job.rows[k] \in Times
    BY <1>2 DEF Versions
  <2>4. rows \in [DOMAIN job.rows \cup Asked -> Times]
    BY <2>1, <2>2, <2>3
  <2>5. DOMAIN job.rows \cup Asked \in SUBSET Keys
    BY <2>1, <2>3
  <2> HIDE DEF rows
  <2> QED BY <2>4, <2>5 DEF Versions
<1>5. room \in Nat /\ (phase = "reading" => e < Entities /\ room > 0)
  BY <1>1, AskedFacts, BoundsAssumption DEF Tables
<1>6. phase = "uploading" => e = Entities \/ Asked # {}
  BY <1>1, AskedFacts, FS_EmptySet
<1>7. e \in 0..Entities
  BY <1>1, AskedFacts DEF Tables
<1> HIDE DEF rows, room, phase, e
<1>8. phase \in {"reading", "uploading"}
  BY DEF phase
<1>9. /\ job'.rows = rows /\ job'.asked = e /\ job'.room = room /\ job'.phase = phase
      /\ job'.link = job.link /\ job'.request = job.request /\ job'.user = job.user
      /\ job' \in Jobs
  BY <1>2, <1>3, <1>4, <1>5, <1>7, <1>8 DEF Jobs
<1>10. UNCHANGED <<env, now, at, before, user, state, late, kept, disturbed>>
  BY DEF AddItems
<1> QED BY <1>1, <1>2, <1>5, <1>6, <1>8, <1>9, <1>10 DEF rows, e

LEMMA AddOK ==
  ASSUME SyncInv, AddItems
  PROVE  JobOK'
<1>1. /\ Running /\ job.phase = "reading" /\ JobOK /\ job' \in Jobs
      /\ UNCHANGED <<env, now, at, state>>
  BY AddFields DEF SyncInv
<1>2. /\ Page' = [user |-> job.user, rows |-> job'.rows, asked |-> job.asked + 1]
      /\ KeysOf(Page') = KeysOf(Page) \cup Asked
      /\ \A k \in KeysOf(Page') : Page'.rows[k] =
                                    IF k \in Asked THEN at[job.link[1]][k] ELSE Page.rows[k]
      /\ Page'.user = Page.user /\ Page'.asked = Page.asked + 1
  BY AddFields DEF Page, KeysOf
<1>3. Proper(now, at, job.link, job.request, Page) /\ Page.asked = job.asked /\ job.asked \in Nat
  BY <1>1, JobFields DEF JobOK
<1>4. Page' \in Pages
  BY <1>1, <1>2 DEF Jobs, Page, Pages
<1>5. ASSUME NEW k \in KeysOf(Page')
      PROVE  /\ k \in RowsIn(at[job.link[1]]) /\ Kind[k] <= Page'.asked
             /\ Page'.rows[k] \in 1..now
  <2>1. CASE k \in Asked
    <3>1. k \in RowsIn(at[job.link[1]]) /\ Kind[k] = job.asked + 1 /\ job.link[1] \in Stores
      BY <1>1, <2>1, AskedFacts DEF Found
    <3>2. at[job.link[1]][k] \in 1..now
      <4>1. StoreOK(at[job.link[1]], before[job.link[1]], now) /\ now \in Nat
        BY <3>1, BoundsAssumption DEF SyncInv, StoreInv, Times
      <4>2. /\ k \in Keys /\ at[job.link[1]][k] > 0
            /\ at[job.link[1]][k] \in Nat /\ at[job.link[1]][k] <= now
        BY <3>1, <4>1 DEF StoreOK, RowsIn, Times
      <4> QED BY <4>1, <4>2
    <3> QED BY <1>2, <1>3, <2>1, <3>1, <3>2
  <2>2. CASE k \notin Asked
    <3>1. k \in KeysOf(Page) /\ Page'.rows[k] = Page.rows[k]
      BY <1>2, <2>2
    <3>2. /\ k \in RowsIn(at[job.link[1]]) /\ Kind[k] <= Page.asked /\ Page.rows[k] \in 1..now
          /\ Kind[k] \in Nat
      BY <1>3, <3>1, RowsAssumption DEF Proper, RowsIn, Tables
    <3> QED BY <1>2, <1>3, <3>1, <3>2
  <2> QED BY <2>1, <2>2
<1>6. Proper(now', at', job'.link, job'.request, Page')
  BY <1>1, <1>2, <1>3, <1>4, <1>5, AddFields DEF Proper
<1>7. job'.phase = "uploading" => job'.asked = Entities \/ KeysOf(Page') # {}
  BY <1>2, AddFields
<1> QED BY <1>1, <1>6, <1>7, AddFields DEF JobOK

\* A page with rows leaves `when` as it is, and its rows are counted and known.
LEMMA NextCheckpoint ==
  ASSUME NEW w, NEW st, NEW d, NEW n, StateOK(st, d, n), NEW page, KeysOf(page) # {}
  PROVE  /\ NextState(w, st, page).when = st.when
         /\ NextState(w, st, page).count = Counted(st.count, page)
         /\ NextState(w, st, page).max = Newest(st, page)
         /\ KeysOf(page) \subseteq NextState(w, st, page).mapped
         /\ Checkpoint(NextState(w, st, page)) =
               [since |-> st.when, offsets |-> Counted(st.count, page)]
<1>1. NextState(w, st, page) = [st EXCEPT !.max = Newest(st, page),
                                          !.mapped = @ \cup KeysOf(page),
                                          !.count = Counted(@, page)]
  BY DEF NextState, LastPage
<1>2. st \in [when : Times, max : Times, mapped : SUBSET Keys, count : [Tables -> Nat]]
  BY DEF StateOK
<1> DEFINE ns == NextState(w, st, page)
<1> HIDE DEF ns
<1>3. ns.when = st.when /\ ns.count = Counted(st.count, page) /\ ns.max = Newest(st, page)
         /\ ns.mapped = st.mapped \cup KeysOf(page)
  BY <1>1, <1>2 DEF ns
<1> QED BY <1>3 DEF ns, Checkpoint

\* An upload was staged and is committed.
LEMMA CommitOK ==
  ASSUME StoreInv, KeptOK, NEW u \in Sent, Proper(now, at, u.link, u.request, u.page),
         u.kind = "staged", KeysOf(u.page) # {}, Commit(u), Record(u), UNCHANGED <<env, now>>
  PROVE  /\ StoreInv' /\ Forward /\ Merged(u.link, u.page) /\ KeptOK'
         /\ Checkpoint(state[u.link]) = u.request
         /\ Checkpoint(state'[u.link]) = [since |-> u.request.since,
                                          offsets |-> Counted(u.request.offsets, u.page)]
         /\ Checkpoint(state'[u.link]) \in Requests
<1> DEFINE l == u.link
           next == Checkpoint(state'[l])
<1>1. ProcessSyncChunk(l, u.page) /\ Checkpoint(state[l]) = u.request
  BY DEF Commit, Matches
<1>2. StoreInv' /\ Forward /\ Merged(l, u.page)
  BY <1>1, MergeStores
<1>3. l \in Links /\ StateOK(state[l], at[l[2]], now) /\ StateOK(state'[l], at'[l[2]], now')
  BY <1>2 DEF Proper, StoreInv
<1>4. /\ state'[l] = NextState(l[2], state[l], u.page)
      /\ \A k \in KeysOf(u.page) : at'[l[2]][k] >= u.page.rows[k]
  BY <1>2 DEF Merged
<1>5. u.request.since = state[l].when /\ u.request.offsets = state[l].count
  BY <1>1 DEF Checkpoint
<1>6. /\ next = [since |-> u.request.since, offsets |-> Counted(u.request.offsets, u.page)]
      /\ KeysOf(u.page) \subseteq state'[l].mapped
  BY <1>3, <1>4, <1>5, NextCheckpoint
<1>7. next \in Requests
  BY <1>3, CheckpointType
<1>8. ASSUME NEW c \in kept' PROVE Recorded(at', state', c)
  <2>1. CASE c \in kept
    BY <1>2, <2>1, RecordedStays DEF KeptOK
  <2>2. CASE c = [upload |-> u, next |-> next]
    <3>1. c.upload = u /\ c.next = next /\ c \in [upload : Sent, next : Requests]
      BY <1>7, <2>2
    <3> HIDE DEF next
    <3> QED BY <1>4, <1>6, <3>1 DEF Recorded
  <2> QED BY <1>8, <2>1, <2>2 DEF Record
<1> QED BY <1>1, <1>2, <1>6, <1>7, <1>8 DEF KeptOK

Quiet == UNCHANGED <<env, now, at, before, user, state, disturbed>>

LEMMA CreateKeeps ==
  ASSUME NEW s \in Stores, NEW k \in Keys, SyncInv, Create(s, k) \/ Update(s, k)
  PROVE  SyncInv' /\ Forward
<1>1. Written(s, k) /\ StoreInv' /\ Forward
  BY RowIsWritten, WrittenStores DEF SyncInv
<1>2. UNCHANGED <<state, job, late, kept>>
  BY <1>1 DEF Written
<1> QED BY <1>1, <1>2, JobStays, LateStays, KeptStays DEF SyncInv

LEMMA UserKeeps ==
  ASSUME NEW s \in Stores, SyncInv, UpdateUser(s)
  PROVE  SyncInv' /\ Forward
<1>1. StoreInv' /\ Forward
  BY UserStores DEF SyncInv
<1>2. UNCHANGED <<state, job, late, kept>>
  BY DEF UpdateUser
<1> QED BY <1>1, <1>2, JobStays, LateStays, KeptStays DEF SyncInv

LEMMA TickKeeps ==
  ASSUME SyncInv, Tick
  PROVE  SyncInv' /\ Forward
<1>1. StoreInv' /\ Forward
  BY TickStores DEF SyncInv
<1>2. UNCHANGED <<state, job, late, kept>>
  BY DEF Tick
<1> QED BY <1>1, <1>2, JobStays, LateStays, KeptStays DEF SyncInv

\* Steps that leave the stores alone.
LEMMA QuietKeeps ==
  ASSUME SyncInv, Quiet, JobOK', late' \subseteq late, kept' \subseteq kept
  PROVE  SyncInv' /\ Forward
<1>1. StoreInv' /\ Forward
  BY QuietStores DEF SyncInv, Quiet
<1> QED BY <1>1, LateStays, KeptStays DEF SyncInv

LEMMA InlineKeeps ==
  ASSUME SyncInv, SendInline
  PROVE  SyncInv' /\ Forward /\ Merged(job.link, Page)
<1>1. /\ Running /\ JobOK /\ StoreInv /\ Proper(now, at, job.link, job.request, Page)
      /\ UNCHANGED <<env, now, late, kept>> /\ job.link \in Links
  BY JobFields DEF SyncInv, JobOK, SendInline, Uploading
<1> DEFINE l == job.link
           next == Checkpoint(state'[l])
<1>2. StoreInv' /\ Forward /\ Merged(l, Page)
  <2> DEFINE q == job.request
             page == Page
  <2>1. Proper(now, at, l, q, page) /\ ProcessSyncChunk(l, page)
    BY <1>1 DEF SendInline
  <2> HIDE DEF l, q, page
  <2>2. StoreInv' /\ Forward /\ Merged(l, page)
    BY <1>1, <2>1, MergeStores
  <2> QED BY <2>2 DEF page
<1>3. StateOK(state'[l], at'[l[2]], now')
  BY <1>1, <1>2 DEF StoreInv
<1>4. /\ next \in Requests /\ next.since = state'[l].when /\ next.offsets = state'[l].count
      /\ state'[l].count \in [Tables -> Nat] /\ next.since <= now
  BY <1>1, <1>3, CheckpointType
<1>5. \A e \in Tables : state'[l].count[e] <= next.offsets[e]
  BY <1>4
<1>6. Continue(next)
  BY DEF SendInline
<1>7. JobOK'
  <2> HIDE DEF next
  <2> QED BY <1>1, <1>4, <1>5, <1>6, ContinueOK
<1> QED BY <1>1, <1>2, <1>7, LateStays, KeptStays DEF SyncInv

\* The staged upload of the page under way.
LEMMA StagedFields ==
  ASSUME SyncInv, Uploading, Sendable("staged")
  PROVE  /\ Upload("staged") \in Sent /\ Upload("staged").kind = "staged"
         /\ Upload("staged").link = job.link /\ Upload("staged").request = job.request
         /\ Upload("staged").page = Page /\ KeysOf(Page) # {}
         /\ Proper(now, at, job.link, job.request, Page) /\ Running /\ JobOK
         /\ job.link \in Links
<1>1. Running /\ JobOK
  BY DEF Uploading, SyncInv
<1>2. KeysOf(Page) # {}
  BY DEF Sendable
<1> QED BY <1>1, <1>2, JobFields DEF Upload, Uploads, JobOK

LEMMA StagedKeeps ==
  ASSUME SyncInv, SendStaged
  PROVE  SyncInv' /\ Forward /\ Merged(job.link, Page)
<1>1. Uploading /\ Sendable("staged") /\ UNCHANGED <<env, now, late>>
  BY DEF SendStaged
<1> DEFINE u == Upload("staged")
           next == Checkpoint(state'[job.link])
<1>2. /\ u \in Sent /\ Proper(now, at, u.link, u.request, u.page) /\ u.kind = "staged"
      /\ KeysOf(u.page) # {} /\ u.link = job.link /\ u.request = job.request /\ u.page = Page
      /\ Commit(u) /\ Record(u) /\ Continue(next) /\ Running /\ JobOK
  BY <1>1, StagedFields DEF SendStaged
<1>3. /\ StoreInv' /\ Forward /\ Merged(u.link, u.page) /\ KeptOK' /\ next \in Requests
      /\ Checkpoint(state[u.link]) = u.request
  <2>1. /\ StoreInv' /\ Forward /\ Merged(u.link, u.page) /\ KeptOK'
        /\ Checkpoint(state'[u.link]) \in Requests
        /\ Checkpoint(state[u.link]) = u.request
    <3> HIDE DEF u
    <3> QED BY <1>1, <1>2, CommitOK DEF SyncInv
  <2> QED BY <1>2, <2>1
<1>4. StateOK(state'[job.link], at'[job.link[2]], now') /\ now' = now
  BY <1>1, <1>3, StagedFields DEF StoreInv
<1>5. /\ next.since = state'[job.link].when /\ next.since <= now
      /\ next.offsets = state'[job.link].count /\ state'[job.link].count \in [Tables -> Nat]
  BY <1>4, CheckpointType
<1>6. \A e \in Tables : state'[job.link].count[e] <= next.offsets[e]
  BY <1>5
<1>7. JobOK'
  <2> HIDE DEF next
  <2> QED BY <1>1, <1>2, <1>3, <1>5, <1>6, ContinueOK DEF SyncInv
<1> QED BY <1>1, <1>2, <1>3, <1>7, LateStays DEF SyncInv

\* The result recorded for the same bytes.
LEMMA AgainFields ==
  ASSUME SyncInv, Uploading, Sendable("staged"), NEW c \in KeptFor(Upload("staged"))
  PROVE  /\ Running /\ JobOK /\ job.link \in Links
         /\ Proper(now, at, job.link, job.request, Page) /\ KeysOf(Page) # {}
         /\ c.next \in Requests /\ c.next.since = job.request.since
         /\ c.next.offsets = Counted(job.request.offsets, Page)
         /\ \A k \in KeysOf(Page) : /\ at[job.link[2]][k] >= Page.rows[k]
                                    /\ k \in state[job.link].mapped
<1>1. c \in kept /\ c.upload = Upload("staged") /\ Recorded(at, state, c)
  BY DEF KeptFor, SyncInv, KeptOK
<1>2. c.upload.link = job.link /\ c.upload.request = job.request /\ c.upload.page = Page
  BY <1>1, StagedFields
<1>3. /\ c.next = [since |-> job.request.since, offsets |-> Counted(job.request.offsets, Page)]
      /\ c.next \in Requests
      /\ \A k \in KeysOf(Page) : /\ at[job.link[2]][k] >= Page.rows[k]
                                 /\ k \in state[job.link].mapped
  BY <1>1, <1>2 DEF Recorded
<1> QED BY <1>3, StagedFields

LEMMA AgainKeeps ==
  ASSUME SyncInv, SendAgain
  PROVE  SyncInv' /\ Forward
<1>1. Uploading /\ Sendable("staged") /\ Quiet /\ late' = late /\ StoreInv
  BY DEF SendAgain, Quiet, SyncInv
<1>2. PICK c \in KeptFor(Upload("staged")) : Continue(c.next) /\ kept' \in {kept, kept \ {c}}
  BY DEF SendAgain
<1>3. /\ Running /\ JobOK /\ job.link \in Links
      /\ Proper(now, at, job.link, job.request, Page)
      /\ c.next \in Requests /\ c.next.since = job.request.since
      /\ c.next.offsets = Counted(job.request.offsets, Page)
  BY <1>1, AgainFields DEF SyncInv
<1> DEFINE next == c.next
<1>4. next.since <= now
  BY <1>3 DEF Proper
<1>5. env.late = {} => /\ next.since = state'[job.link].when
                       /\ \A e \in Tables : state'[job.link].count[e] <= next.offsets[e]
  <2>1. SUFFICES ASSUME env.late = {}
                 PROVE  /\ next.since = state'[job.link].when
                        /\ \A e \in Tables : state'[job.link].count[e] <= next.offsets[e]
    OBVIOUS
  <2>2. /\ job.request.since = state[job.link].when /\ state' = state
        /\ \A e \in Tables : state[job.link].count[e] <= job.request.offsets[e]
    BY <1>1, <1>3, <2>1 DEF JobOK, Quiet
  <2>3. IsFiniteSet(KeysOf(Page)) /\ job.request.offsets \in [Tables -> Nat]
    <3> DEFINE l == job.link
               q == job.request
               page == Page
    <3>1. Proper(now, at, l, q, page)
      BY <1>3
    <3> HIDE DEF l, q, page
    <3>2. IsFiniteSet(KeysOf(page))
      BY <1>1, <3>1, ProperFinite
    <3> QED BY <1>3, <3>2, JobFields DEF page
  <2>4. \A e \in Tables : /\ job.request.offsets[e] <= Counted(job.request.offsets, Page)[e]
                          /\ job.request.offsets[e] \in Nat
                          /\ Counted(job.request.offsets, Page)[e] \in Nat
    BY <2>3, CountedRows
  <2>5. \A e \in Tables : state[job.link].count[e] \in Nat
    BY <1>1, <1>3 DEF StoreInv
  <2> QED BY <1>3, <2>2, <2>4, <2>5
<1>6. JobOK'
  <2> HIDE DEF next
  <2>1. Continue(next)
    BY <1>2 DEF next
  <2>2. next \in Requests
    BY <1>3 DEF next
  <2> QED BY <1>1, <1>3, <1>4, <1>5, <2>1, <2>2, ContinueOK DEF Quiet
<1> QED BY <1>1, <1>2, <1>6, QuietKeeps

LEMMA ReadKeeps ==
  ASSUME SyncInv,
         \/ \E l \in Links : StartSync(l)
         \/ \E m \in env.sizes : GetSyncChunk(m)
         \/ AddItems
  PROVE  SyncInv' /\ Forward /\ Quiet /\ UNCHANGED <<late, kept>>
<1>1. Quiet /\ UNCHANGED <<late, kept>>
  BY DEF StartSync, GetSyncChunk, AddItems, Quiet
<1>2. env.sizes \subseteq Nat \ {0}
  BY EnvironmentsAssumption DEF SyncInv, StoreInv
<1>3. JobOK'
  BY <1>2, StartOK, GetOK, AddOK
<1> QED BY <1>1, <1>3, QuietKeeps

LEMMA StopKeeps ==
  ASSUME SyncInv,
         \/ Refuse \/ Fail
         \/ \E u \in late : Drop(u)
         \/ \E c \in kept : ExpireTransfer(c)
  PROVE  SyncInv' /\ Forward /\ Quiet /\ late' \subseteq late /\ kept' \subseteq kept
         /\ job' \in {job, NoJob}
<1>1. Quiet /\ late' \subseteq late /\ kept' \subseteq kept /\ job' \in {job, NoJob}
  BY DEF Refuse, Fail, Drop, ExpireTransfer, Quiet
<1>2. StoreInv' /\ Forward
  BY <1>1, QuietStores DEF SyncInv, Quiet
<1>3. state' = state
  BY <1>1 DEF Quiet
<1>4. JobOK'
  BY <1>1, <1>2, <1>3, NoJobOK, JobStays DEF SyncInv
<1> QED BY <1>1, <1>4, QuietKeeps

LEMMA LateKeeps ==
  ASSUME SyncInv, NEW kind \in Uploads, FailAfterSending(kind)
  PROVE  /\ SyncInv' /\ Forward /\ Quiet /\ job' = NoJob /\ late' = {Upload(kind)}
         /\ Upload(kind).link = job.link /\ Upload(kind).request = job.request
         /\ Upload(kind).page = Page /\ Upload(kind).kind \in env.late
<1>1. Uploading /\ Sendable(kind) /\ kind \in env.late /\ late' = {Upload(kind)}
         /\ Quiet /\ kept' = kept /\ job' = NoJob /\ Running
  BY DEF FailAfterSending, Quiet, Uploading
<1>2. StoreInv' /\ Forward
  BY <1>1, QuietStores DEF SyncInv, Quiet
<1> DEFINE u == Upload(kind)
<1>3. u \in Sent /\ u.link = job.link /\ u.request = job.request /\ u.page = Page /\ u.kind = kind
  BY <1>1, JobFields DEF SyncInv, Upload
<1>4. Proper(now, at, u.link, u.request, u.page)
  BY <1>1, <1>3 DEF SyncInv, JobOK
<1>5. u.kind = "staged" => KeysOf(u.page) # {}
  BY <1>1, <1>3 DEF Sendable
<1>6. SentOK(now', at', env', u)
  BY <1>1, <1>3, <1>4, <1>5 DEF SentOK, Quiet
<1>7. LateOK'
  BY <1>1, <1>6 DEF LateOK
<1> QED BY <1>1, <1>2, <1>3, <1>7, NoJobOK, KeptStays DEF SyncInv

LEMMA LostKeeps ==
  ASSUME SyncInv, FailAfterMerge
  PROVE  /\ SyncInv' /\ Forward /\ Merged(job.link, Page)
         /\ job' = NoJob /\ UNCHANGED <<env, now, late, kept>>
<1>1. /\ Running /\ JobOK /\ StoreInv /\ Proper(now, at, job.link, job.request, Page)
      /\ UNCHANGED <<env, now, late, kept>> /\ job' = NoJob
  BY DEF SyncInv, JobOK, FailAfterMerge, Uploading
<1>2. StoreInv' /\ Forward /\ Merged(job.link, Page)
  <2> DEFINE l == job.link
             q == job.request
             page == Page
  <2>1. Proper(now, at, l, q, page) /\ ProcessSyncChunk(l, page)
    BY <1>1 DEF FailAfterMerge
  <2> HIDE DEF l, q, page
  <2>2. StoreInv' /\ Forward /\ Merged(l, page)
    BY <1>1, <2>1, MergeStores
  <2> QED BY <2>2 DEF page, l
<1> QED BY <1>1, <1>2, NoJobOK, LateStays, KeptStays DEF SyncInv

LEMMA ArriveKeeps ==
  ASSUME SyncInv, NEW u \in late, Arrive(u)
  PROVE  /\ SyncInv' /\ Forward /\ Merged(u.link, u.page)
         /\ UNCHANGED <<env, now, job>> /\ late' = late \ {u}
<1>1. /\ SentOK(now, at, env, u) /\ UNCHANGED <<env, now, job>> /\ late' = late \ {u}
      /\ env.late # {} /\ StoreInv
  BY DEF SyncInv, LateOK, SentOK, Arrive
<1>2. StoreInv' /\ Forward /\ Merged(u.link, u.page) /\ KeptOK'
  <2>1. CASE u.kind = "inline" /\ ProcessSyncChunk(u.link, u.page) /\ kept' = kept
    <3> DEFINE l == u.link
               q == u.request
               page == u.page
    <3>1. Proper(now, at, l, q, page) /\ ProcessSyncChunk(l, page)
      BY <1>1, <2>1 DEF SentOK
    <3> HIDE DEF l, q, page
    <3>2. StoreInv' /\ Forward /\ Merged(l, page)
      BY <1>1, <3>1, MergeStores
    <3>3. KeptOK'
      BY <1>1, <2>1, <3>2, KeptStays DEF SyncInv
    <3> QED BY <3>2, <3>3 DEF page, l
  <2>2. CASE u.kind = "staged" /\ Commit(u) /\ Record(u)
    BY <1>1, <2>2, CommitOK DEF SentOK, SyncInv
  <2> QED BY <2>1, <2>2 DEF Arrive
<1>3. JobOK'
  BY <1>1, <1>2, JobStays DEF SyncInv
<1>4. LateOK'
  BY <1>1, <1>2, LateStays DEF SyncInv
<1> QED BY <1>1, <1>2, <1>3, <1>4 DEF SyncInv

LEMMA SyncInit == Init => SyncInv
<1> SUFFICES ASSUME Init PROVE SyncInv
  OBVIOUS
<1>1. /\ MaxTime \in Nat /\ 0 \in Times /\ now = 1 /\ 1 \in Times /\ env \in Environments
  BY BoundsAssumption DEF Times, Init
<1> DEFINE d == [k \in Keys |-> 0]
           c == [e \in Tables |-> 0]
           st == [when |-> 0, max |-> 0, mapped |-> {}, count |-> c]
<1>2. d \in [Keys -> Times] /\ c \in [Tables -> Nat] /\ \A k \in Keys : d[k] <= 1
  BY <1>1
<1>3. RowsIn(d) = {}
  BY DEF RowsIn
<1>4. StoreOK(d, {}, 1)
  <2> HIDE DEF d
  <2>1. Sorted(d, {})
    BY <1>3 DEF Sorted
  <2> QED BY <1>2, <1>3, <2>1, FS_EmptySet DEF StoreOK
<1>5. StateOK(st, d, 1)
  <2> HIDE DEF c, d
  <2> QED BY <1>1, <1>2 DEF StateOK
<1>6. at = [s \in Stores |-> d] /\ before = [s \in Stores |-> {}]
        /\ user = [s \in Stores |-> 0] /\ state = [l \in Links |-> st]
        /\ job = NoJob /\ late = {} /\ kept = {} /\ disturbed = {}
  BY DEF Init
<1>7. st \in [when : Times, max : Times, mapped : SUBSET Keys, count : [Tables -> Nat]]
  BY <1>5 DEF StateOK
<1> HIDE DEF d, st
<1>8. StoreInv
  BY <1>1, <1>2, <1>4, <1>5, <1>6, <1>7, LinkStores DEF StoreInv
<1> QED BY <1>6, <1>8 DEF SyncInv, JobOK, LateOK, KeptOK, Running

LEMMA SyncNext ==
  ASSUME SyncInv, Next
  PROVE  SyncInv' /\ Forward
<1>1. CASE \E s \in Stores : UpdateUser(s) \/ \E k \in Keys : Create(s, k) \/ Update(s, k)
  BY <1>1, UserKeeps, CreateKeeps
<1>2. CASE Tick
  BY <1>2, TickKeeps
<1>3. CASE (\E l \in Links : StartSync(l)) \/ (\E m \in env.sizes : GetSyncChunk(m)) \/ AddItems
  BY <1>3, ReadKeeps
<1>4. CASE SendInline
  BY <1>4, InlineKeeps
<1>5. CASE SendStaged
  BY <1>5, StagedKeeps
<1>6. CASE SendAgain
  BY <1>6, AgainKeeps
<1>7. CASE \/ Refuse \/ Fail
           \/ \E u \in late : Drop(u)
           \/ \E c \in kept : ExpireTransfer(c)
  BY <1>7, StopKeeps
<1>8. CASE FailAfterMerge
  BY <1>8, LostKeeps
<1>9. CASE \E kind \in Uploads : FailAfterSending(kind)
  BY <1>9, LateKeeps
<1>10. CASE \E u \in late : Arrive(u)
  BY <1>10, ArriveKeeps
<1> QED BY <1>1, <1>2, <1>3, <1>4, <1>5, <1>6, <1>7, <1>8, <1>9, <1>10 DEF Next, SyncStep

LEMMA SyncStutter ==
  ASSUME SyncInv, UNCHANGED vars
  PROVE  SyncInv' /\ Forward
<1>1. Quiet /\ job' = job /\ late' = late /\ kept' = kept
  BY DEF vars, Quiet
<1>2. StoreInv' /\ Forward /\ state' = state
  BY <1>1, QuietStores DEF SyncInv, Quiet
<1> QED BY <1>1, <1>2, JobStays, LateStays, KeptStays DEF SyncInv

\* The inductive invariant of syncs: stores, sync states, the page under way,
\* late uploads and kept transfers agree.
THEOREM SyncSound == Spec => []SyncInv
<1>1. Init => SyncInv
  BY SyncInit
<1>2. SyncInv /\ [Next]_vars => SyncInv'
  BY SyncNext, SyncStutter
<1> QED BY <1>1, <1>2, PTL DEF Spec

\* Every variable keeps its type: in particular the rows of a table have
\* different ids in every store, also where a page is merged twice.
THEOREM TypeCorrect == Spec => []TypeOK
<1>1. SyncInv => TypeOK
  BY SyncTypes
<1> QED BY <1>1, SyncSound, PTL

\* No row goes back to an older version, whichever pages are merged late or again.
THEOREM NoRegress == Spec => RowsNeverRegress
<1>1. SyncInv /\ [Next]_vars => [\A s \in Stores, k \in Keys : at'[s][k] >= at[s][k]]_vars
  <2> SUFFICES ASSUME SyncInv, Next PROVE \A s \in Stores, k \in Keys : at'[s][k] >= at[s][k]
    OBVIOUS
  <2>1. StoreInv /\ StoreInv' /\ Forward
    BY SyncNext DEF SyncInv
  <2>2. ASSUME NEW s \in Stores, NEW k \in Keys PROVE at'[s][k] >= at[s][k]
    <3>1. at[s][k] <= at'[s][k]
      BY <2>1, DatesGrow
    <3> QED BY <3>1
  <2> QED BY <2>2
<1> QED BY <1>1, SyncSound, PTL DEF Spec, RowsNeverRegress

-----------------------------------------------------------------------------
(***************************************************************************)
(* Nothing is skipped.  A row of the reader of l is safe when the writer   *)
(* has it, at least as new, and knows its id; page `page` holds it when it *)
(* has its latest version.                                                 *)
(***************************************************************************)
Safe(A, st, l) == {k \in Keys : A[l[2]][k] >= A[l[1]][k] /\ k \in st[l].mapped}
Held(A, l, page) == {k \in KeysOf(page) : page.rows[k] >= A[l[1]][k]}

StateCovered(A, B, st, l) ==
    Covered(A[l[1]], B[l[1]], st[l].when, st[l].count, Safe(A, st, l))

RequestCovered(A, B, st, l, q, page) ==
    Covered(A[l[1]], B[l[1]], q.since, Counted(q.offsets, page),
            Safe(A, st, l) \cup Held(A, l, page))

\* While a page is empty, what is not safe of the tables asked is no older than
\* what `when` can become.
Drained(A, st, ups, l, page) ==
    KeysOf(page) = {} =>
        \A k \in RowsIn(A[l[1]]) : Kind[k] <= page.asked /\ k \notin Safe(A, st, l) =>
            /\ A[l[1]][k] >= st[l].max /\ A[l[1]][k] >= page.user
            /\ \A u \in ups : u.link = l =>
                  \A j \in KeysOf(u.page) : A[l[1]][k] >= u.page.rows[j]

JobCovered(l) ==
    Running /\ job.link = l =>
        /\ RequestCovered(at, before, state, l, job.request, Page)
        /\ Drained(at, state, late, l, Page)

LateCovered(l) ==
    \A u \in late : u.link = l => RequestCovered(at, before, state, l, u.request, u.page)

LinkCovered(l) == StateCovered(at, before, state, l) /\ JobCovered(l) /\ LateCovered(l)

\* No upload is late, or those that may be are committed against a checkpoint.
Careful(e) == e.late = {} \/ (e.late \subseteq {"staged"} /\ e.sends \subseteq {"staged"})

CoverInv == Careful(env) => \A l \in Links \ disturbed : LinkCovered(l)

\* What the step writes into the reader of l does not overtake the sync.
Timely(l) ==
    \A k \in Keys : at'[l[1]][k] # at[l[1]][k] => ~Overtakes(l, k, at'[l[1]][k])

LEMMA ReaderFacts ==
  ASSUME StoreInv, StoreInv', Forward, NEW l \in Links
  PROVE  /\ l[1] \in Stores /\ l[2] \in Stores /\ l[1] # l[2]
         /\ at[l[1]] \in [Keys -> Times] /\ at'[l[1]] \in [Keys -> Times]
         /\ at[l[2]] \in [Keys -> Times] /\ at'[l[2]] \in [Keys -> Times]
         /\ Sorted(at[l[1]], before[l[1]]) /\ Sorted(at'[l[1]], before'[l[1]])
         /\ IsFiniteSet(RowsIn(at[l[1]])) /\ IsFiniteSet(RowsIn(at'[l[1]]))
         /\ before[l[1]] \subseteq before'[l[1]]
         /\ \A k \in Keys : at[l[1]][k] <= at'[l[1]][k] /\ at[l[2]][k] <= at'[l[2]][k]
         /\ \A j, k \in Keys : at[l[1]][j] > 0 /\ at[l[1]][k] = 0 /\ at'[l[1]][k] > 0
                                 /\ Kind[j] = Kind[k] => <<j, k>> \in before'[l[1]]
         /\ now \in Nat /\ state[l].mapped \subseteq state'[l].mapped
         /\ state[l].when \in Nat /\ state[l].max \in Nat /\ state[l].count \in [Tables -> Nat]
<1>1. l[1] \in Stores /\ l[2] \in Stores /\ l[1] # l[2]
  BY LinkStores
<1>2. /\ StoreOK(at[l[1]], before[l[1]], now) /\ StoreOK(at'[l[1]], before'[l[1]], now')
      /\ StoreOK(at[l[2]], before[l[2]], now) /\ StoreOK(at'[l[2]], before'[l[2]], now')
  BY <1>1 DEF StoreInv
<1>3. Grows(at[l[1]], before[l[1]], at'[l[1]], before'[l[1]])
        /\ Grows(at[l[2]], before[l[2]], at'[l[2]], before'[l[2]])
        /\ state[l].mapped \subseteq state'[l].mapped
  BY <1>1 DEF Forward
<1>4. now \in Nat /\ state[l].when \in Nat /\ state[l].max \in Nat
        /\ state[l].count \in [Tables -> Nat]
  BY BoundsAssumption DEF StoreInv, Times
<1>5. /\ before[l[1]] \subseteq before'[l[1]]
      /\ \A k \in Keys : at[l[1]][k] <= at'[l[1]][k] /\ at[l[2]][k] <= at'[l[2]][k]
      /\ \A j, k \in Keys : at[l[1]][j] > 0 /\ at[l[1]][k] = 0 /\ at'[l[1]][k] > 0
                                 /\ Kind[j] = Kind[k] => <<j, k>> \in before'[l[1]]
  BY <1>3 DEF Grows
<1> QED BY <1>1, <1>2, <1>3, <1>4, <1>5 DEF StoreOK

\* A written row is safe, or its date is not behind and it was not counted.
LEMMA TimelyRow ==
  ASSUME StoreInv, StoreInv', Forward, NEW l \in Links, Timely(l), NEW k \in Keys,
         at'[l[1]][k] # at[l[1]][k]
  PROVE  \/ k \in Safe(at', state', l)
         \/ /\ at'[l[1]][k] >= state[l].when /\ at'[l[1]][k] >= state[l].max
            /\ CycleOpen(l) => at[l[1]][k] = 0 /\ at'[l[1]][k] >= now
<1> DEFINE t == at'[l[1]][k]
<1>1. /\ t \in Nat /\ at[l[1]][k] \in Nat /\ at[l[2]][k] \in Nat /\ at'[l[2]][k] \in Nat
      /\ at[l[2]][k] <= at'[l[2]][k] /\ now \in Nat /\ state[l].mapped \subseteq state'[l].mapped
      /\ state[l].when \in Nat /\ state[l].max \in Nat
  BY ReaderFacts DEF Times
<1>2. ~Overtakes(l, k, t)
  BY DEF Timely
<1>3. CASE at[l[2]][k] >= t /\ k \in state[l].mapped
  BY <1>1, <1>3 DEF Safe
<1>4. CASE ~(at[l[2]][k] < t \/ k \notin state[l].mapped)
  BY <1>1, <1>3, <1>4
<1>5. CASE ~(t < state[l].when \/ t < state[l].max \/ (CycleOpen(l) /\ (k \in RowsOf(l[1]) \/ t < now)))
  <2>1. CycleOpen(l) => k \notin RowsOf(l[1]) /\ ~(t < now)
    BY <1>5
  <2>2. k \notin RowsOf(l[1]) => at[l[1]][k] = 0
    BY <1>1 DEF RowsOf
  <2> QED BY <1>1, <1>5, <2>1, <2>2
<1> QED BY <1>2, <1>4, <1>5 DEF Overtakes

LEMMA SafeGrows ==
  ASSUME StoreInv, StoreInv', Forward, NEW l \in Links, NEW k \in Safe(at, state, l),
         at'[l[1]][k] = at[l[1]][k]
  PROVE  k \in Safe(at', state', l)
<1>1. k \in Keys /\ at[l[2]][k] >= at[l[1]][k] /\ k \in state[l].mapped
  BY DEF Safe
<1>2. /\ at[l[1]][k] \in Nat /\ at[l[2]][k] \in Nat /\ at'[l[2]][k] \in Nat
      /\ at[l[2]][k] <= at'[l[2]][k] /\ state[l].mapped \subseteq state'[l].mapped
  BY <1>1, ReaderFacts DEF Times
<1> QED BY <1>1, <1>2 DEF Safe

LEMMA StateGrows ==
  ASSUME StoreInv, StoreInv', Forward, NEW l \in Links, Timely(l),
         StateCovered(at, before, state, l),
         state'[l].when = state[l].when, state'[l].count = state[l].count
  PROVE  StateCovered(at', before', state', l)
<1> DEFINE d == at[l[1]]
           f == at'[l[1]]
           c == state[l].count
           since == state[l].when
           S == Safe(at, state, l)
           T == Safe(at', state', l)
<1>1. ASSUME NEW k \in RowsIn(f)
      PROVE  \/ k \in T
             \/ f[k] = d[k] /\ k \notin S
             \/ f[k] >= since /\ (d[k] = 0 \/ c[Kind[k]] = 0)
  <2>1. k \in Keys /\ Kind[k] \in Tables /\ c[Kind[k]] \in Nat
    BY ReaderFacts, RowsAssumption DEF RowsIn
  <2>2. CASE f[k] = d[k]
    BY <2>2, SafeGrows
  <2>3. CASE f[k] # d[k]
    <3>1. CASE CycleOpen(l)
      BY <2>1, <2>3, <3>1, TimelyRow
    <3>2. CASE ~CycleOpen(l)
      <4>1. c[Kind[k]] = 0
        BY <2>1, <3>2 DEF CycleOpen
      <4> QED BY <2>1, <2>3, <4>1, TimelyRow
    <3> QED BY <3>1, <3>2
  <2> QED BY <2>2, <2>3
<1>2. Covered(d, before[l[1]], since, c, S)
  BY DEF StateCovered
<1>3. Covered(f, before'[l[1]], since, c, T)
  <2> HIDE DEF d, f, c, since, S, T
  <2>1. /\ d \in [Keys -> Times] /\ f \in [Keys -> Times]
        /\ Sorted(d, before[l[1]]) /\ Sorted(f, before'[l[1]]) /\ IsFiniteSet(RowsIn(f))
        /\ before[l[1]] \subseteq before'[l[1]] /\ \A k \in Keys : d[k] <= f[k]
        /\ \A j, k \in Keys : d[j] > 0 /\ d[k] = 0 /\ f[k] > 0 /\ Kind[j] = Kind[k]
                                => <<j, k>> \in before'[l[1]]
        /\ since \in Nat /\ c \in [Tables -> Nat]
    BY ReaderFacts DEF d, f, c, since
  <2> DEFINE o == before[l[1]]
             p == before'[l[1]]
  <2>2. /\ Sorted(d, o) /\ Sorted(f, p) /\ o \subseteq p /\ Covered(d, o, since, c, S)
        /\ \A j, k \in Keys : d[j] > 0 /\ d[k] = 0 /\ f[k] > 0 /\ Kind[j] = Kind[k]
                                => <<j, k>> \in p
    BY <1>2, <2>1
  <2> HIDE DEF o, p
  <2>3. Covered(f, p, since, c, T)
    BY <1>1, <2>1, <2>2, CoveredGrows
  <2> QED BY <2>3 DEF p
<1> QED BY <1>3 DEF StateCovered

LEMMA RequestGrows ==
  ASSUME StoreInv, StoreInv', Forward, NEW l \in Links, Timely(l), CycleOpen(l),
         NEW q, NEW page, Proper(now, at, l, q, page),
         RequestCovered(at, before, state, l, q, page)
  PROVE  RequestCovered(at', before', state', l, q, page)
<1> DEFINE d == at[l[1]]
           f == at'[l[1]]
           o == before[l[1]]
           p == before'[l[1]]
           c == Counted(q.offsets, page)
           since == q.since
           S == Safe(at, state, l) \cup Held(at, l, page)
           T == Safe(at', state', l) \cup Held(at', l, page)
<1>1. since \in Nat /\ since <= now /\ c \in [Tables -> Nat] /\ q.offsets \in [Tables -> Nat]
  <2>1. q.since \in Nat /\ q.since <= now /\ q.offsets \in [Tables -> Nat]
    BY DEF Proper, Requests, Times
  <2> QED BY <2>1, CountedRows, ProperFinite
<1>2. ASSUME NEW k \in RowsIn(f)
      PROVE  \/ k \in T
             \/ f[k] = d[k] /\ k \notin S
             \/ f[k] >= since /\ (d[k] = 0 \/ c[Kind[k]] = 0)
  <2>1. k \in Keys /\ f[k] \in Nat /\ now \in Nat
    <3>1. f \in [Keys -> Times] /\ now \in Nat
      BY ReaderFacts
    <3>2. k \in Keys
      BY DEF RowsIn
    <3> QED BY <3>1, <3>2 DEF Times
  <2>2. CASE f[k] = d[k]
    <3>1. k \in Held(at, l, page) => k \in Held(at', l, page)
      BY <2>2 DEF Held
    <3> QED BY <2>2, <3>1, SafeGrows
  <2>3. CASE f[k] # d[k]
    <3>1. k \in T \/ (d[k] = 0 /\ f[k] >= now)
      BY <2>1, <2>3, TimelyRow
    <3> QED BY <1>1, <2>1, <3>1
  <2> QED BY <2>2, <2>3
<1>3. Covered(d, o, since, c, S)
  BY DEF RequestCovered
<1>4. Covered(f, p, since, c, T)
  <2>1. /\ d \in [Keys -> Times] /\ f \in [Keys -> Times]
        /\ Sorted(d, o) /\ Sorted(f, p) /\ IsFiniteSet(RowsIn(f))
        /\ o \subseteq p /\ \A k \in Keys : d[k] <= f[k]
        /\ \A j, k \in Keys : d[j] > 0 /\ d[k] = 0 /\ f[k] > 0 /\ Kind[j] = Kind[k]
                                => <<j, k>> \in p
    BY ReaderFacts
  <2> HIDE DEF d, f, c, since, S, T, o, p
  <2> QED BY <1>1, <1>2, <1>3, <2>1, CoveredGrows
<1> QED BY <1>4 DEF RequestCovered

\* The sync state of l keeps its newest date, or gets that of a late upload.
LEMMA DrainedGrows ==
  ASSUME SyncInv, StoreInv', Forward, NEW l \in Links, Timely(l), CycleOpen(l),
         NEW q, NEW page, Proper(now, at, l, q, page),
         \/ state'[l].max = state[l].max
         \/ \E u \in late : u.link = l /\ state'[l].max = Newest(state[l], u.page),
         late' \subseteq late, Drained(at, state, late, l, page)
  PROVE  Drained(at', state', late', l, page)
<1> DEFINE d == at[l[1]]
           f == at'[l[1]]
<1>1. SUFFICES ASSUME KeysOf(page) = {}, NEW k \in RowsIn(f), Kind[k] <= page.asked,
                      k \notin Safe(at', state', l)
               PROVE  /\ f[k] >= state[l].max /\ f[k] >= page.user
                      /\ \A u \in late : u.link = l =>
                            \A j \in KeysOf(u.page) : f[k] >= u.page.rows[j]
  <2>1. SUFFICES ASSUME KeysOf(page) = {}, NEW k \in RowsIn(f), Kind[k] <= page.asked,
                        k \notin Safe(at', state', l)
                 PROVE  /\ f[k] >= state'[l].max /\ f[k] >= page.user
                        /\ \A u \in late' : u.link = l =>
                              \A j \in KeysOf(u.page) : f[k] >= u.page.rows[j]
    BY DEF Drained
  <2>2. /\ f[k] >= state[l].max /\ f[k] >= page.user
        /\ \A u \in late : u.link = l => \A j \in KeysOf(u.page) : f[k] >= u.page.rows[j]
    BY <1>1, <2>1
  <2>3. ASSUME NEW u \in late, u.link = l, state'[l].max = Newest(state[l], u.page)
        PROVE  f[k] >= state'[l].max
    <3>1. /\ state[l].max \in 0..now /\ now \in Nat
          /\ \A j \in KeysOf(u.page) : u.page.rows[j] \in 0..now
      <4>1. \A j \in KeysOf(u.page) : u.page.rows[j] \in 1..now
        BY <2>3 DEF SyncInv, LateOK, SentOK, Proper
      <4>2. state[l].max \in Nat /\ state[l].max <= now /\ now \in Nat
        BY ReaderFacts DEF SyncInv, StoreInv, StateOK
      <4> QED BY <4>1, <4>2
    <3> DEFINE st == state[l]
               pg == u.page
    <3>2. Newest(st, pg) = st.max \/ \E j \in KeysOf(pg) : Newest(st, pg) = pg.rows[j]
      <4>1. st.max \in 0..now /\ now \in Nat /\ \A j \in KeysOf(pg) : pg.rows[j] \in 0..now
        BY <3>1
      <4> HIDE DEF st, pg
      <4> QED BY <4>1, NewestDate
    <3> QED BY <2>2, <2>3, <3>2
  <2> QED BY <2>2, <2>3
<1>2. StoreInv /\ k \in Keys /\ f[k] \in Nat /\ now \in Nat /\ d[k] \in Nat
  <2>1. f \in [Keys -> Times] /\ d \in [Keys -> Times] /\ now \in Nat /\ StoreInv
    BY ReaderFacts DEF SyncInv
  <2>2. k \in Keys
    BY <1>1 DEF RowsIn
  <2> QED BY <2>1, <2>2 DEF Times
<1>3. CASE f[k] = d[k]
  <2>1. k \notin Safe(at, state, l) /\ k \in RowsIn(d)
    BY <1>1, <1>2, <1>3, SafeGrows DEF RowsIn
  <2> QED BY <1>1, <1>3, <2>1 DEF Drained
<1>4. CASE f[k] # d[k]
  <2>1. f[k] >= now /\ f[k] >= state[l].max
    BY <1>1, <1>2, <1>4, TimelyRow
  <2>2. page.user <= now /\ page.user \in Nat
    BY PageRows DEF Proper, Times
  <2>3. ASSUME NEW u \in late, u.link = l, NEW j \in KeysOf(u.page) PROVE f[k] >= u.page.rows[j]
    <3>1. u.page.rows[j] \in 1..now
      BY <2>3 DEF SyncInv, LateOK, SentOK, Proper
    <3> QED BY <1>2, <2>1, <3>1
  <2> QED BY <1>2, <2>1, <2>2, <2>3
<1> QED BY <1>3, <1>4

LEMMA LateMoves ==
  ASSUME SyncInv, SyncInv', Forward, NEW l \in Links, Timely(l), LateCovered(l), late' \subseteq late
  PROVE  LateCovered(l)'
<1>1. ASSUME NEW u \in late', u.link = l
      PROVE  RequestCovered(at', before', state', l, u.request, u.page)
  <2>1. u \in late /\ SentOK(now, at, env, u)
    BY DEF SyncInv, LateOK
  <2>2. CycleOpen(l)
    BY <1>1, <2>1 DEF CycleOpen
  <2> DEFINE q == u.request
             page == u.page
  <2>3. Proper(now, at, l, q, page) /\ RequestCovered(at, before, state, l, q, page)
    BY <1>1, <2>1 DEF SentOK, LateCovered
  <2> HIDE DEF q, page
  <2>4. RequestCovered(at', before', state', l, q, page)
    BY <2>2, <2>3, RequestGrows DEF SyncInv
  <2> QED BY <2>4 DEF q, page
<1> QED BY <1>1 DEF LateCovered

LEMMA JobMoves ==
  ASSUME SyncInv, SyncInv', Forward, NEW l \in Links, Timely(l), JobCovered(l),
         \/ state'[l].max = state[l].max
         \/ \E u \in late : u.link = l /\ state'[l].max = Newest(state[l], u.page),
         late' \subseteq late, job' = job \/ ~(Running' /\ job'.link = l)
  PROVE  JobCovered(l)'
<1> SUFFICES ASSUME Running', job'.link = l
             PROVE  /\ RequestCovered(at', before', state', l, job'.request, Page')
                    /\ Drained(at', state', late', l, Page')
  BY DEF JobCovered
<1>1. job' = job /\ Running /\ job.link = l /\ Page' = Page
  BY DEF Running, Page
<1> DEFINE q == job.request
           page == Page
<1>2. CycleOpen(l) /\ Proper(now, at, l, q, page)
  BY <1>1 DEF CycleOpen, SyncInv, JobOK
<1>3. RequestCovered(at, before, state, l, q, page) /\ Drained(at, state, late, l, page)
  BY <1>1 DEF JobCovered
<1>4. RequestCovered(at', before', state', l, q, page) /\ Drained(at', state', late', l, page)
  <2> HIDE DEF q, page
  <2> QED BY <1>2, <1>3, RequestGrows, DrainedGrows DEF SyncInv
<1> QED BY <1>1, <1>4

\* A link whose sync state is not touched.
LEMMA LinkStays ==
  ASSUME SyncInv, SyncInv', Forward, NEW l \in Links, Timely(l), LinkCovered(l),
         state'[l] = state[l], late' \subseteq late,
         job' = job \/ ~(Running' /\ job'.link = l)
  PROVE  LinkCovered(l)'
<1>1. StateCovered(at', before', state', l)
  BY StateGrows DEF SyncInv, LinkCovered
<1>2. JobCovered(l)' /\ LateCovered(l)'
  BY JobMoves, LateMoves DEF LinkCovered
<1> QED BY <1>1, <1>2 DEF LinkCovered

\* A page without rows, from where the sync state is.
LEMMA FreshCovered ==
  ASSUME NEW A, NEW B, NEW st, NEW l, StateCovered(A, B, st, l), st[l].count \in [Tables -> Nat],
         NEW q, NEW page, q.since = st[l].when, q.offsets = st[l].count, KeysOf(page) = {}
  PROVE  RequestCovered(A, B, st, l, q, page)
<1>1. Counted(q.offsets, page) = st[l].count
  BY CountedRows, FS_EmptySet
<1>2. Held(A, l, page) = {}
  BY DEF Held
<1> QED BY <1>1, <1>2 DEF StateCovered, RequestCovered

\* The sync of l is ready for its next page.
LEMMA ReadyCovered ==
  ASSUME SyncInv', NEW l \in Links, StateCovered(at', before', state', l),
         Running' /\ job'.link = l =>
            /\ job'.phase = "ready" /\ job'.request = Checkpoint(state'[l])
  PROVE  JobCovered(l)'
<1> SUFFICES ASSUME Running', job'.link = l
             PROVE  /\ RequestCovered(at', before', state', l, job'.request, Page')
                    /\ Drained(at', state', late', l, Page')
  BY DEF JobCovered
<1>1. /\ job'.phase = "ready" /\ job'.request = Checkpoint(state'[l])
      /\ job'.rows = NoRows /\ job'.asked = 0
  BY DEF SyncInv, JobOK
<1>2. KeysOf(Page') = {} /\ Page'.asked = 0
  BY <1>1, NoRowsYet DEF Page, KeysOf
<1>3. StateOK(state'[l], at'[l[2]], now')
  BY DEF SyncInv, StoreInv
<1>4. /\ job'.request.since = state'[l].when /\ job'.request.offsets = state'[l].count
      /\ state'[l].count \in [Tables -> Nat]
  BY <1>1, <1>3, CheckpointType
<1>5. RequestCovered(at', before', state', l, job'.request, Page')
  BY <1>2, <1>4, FreshCovered
<1>6. \A k \in Keys : ~(Kind[k] <= 0)
  BY RowsAssumption DEF Tables
<1>7. Drained(at', state', late', l, Page')
  BY <1>2, <1>6 DEF Drained, RowsIn
<1> QED BY <1>5, <1>7

LEMMA CountedLess ==
  ASSUME NEW b \in [Tables -> Nat], NEW c \in [Tables -> Nat], \A e \in Tables : b[e] <= c[e],
         NEW page, IsFiniteSet(KeysOf(page))
  PROVE  \A e \in Tables : Counted(b, page)[e] <= Counted(c, page)[e]
<1>1. ASSUME NEW e \in Tables PROVE Counted(b, page)[e] <= Counted(c, page)[e]
  <2>1. {k \in KeysOf(page) : Kind[k] = e} \subseteq KeysOf(page)
    OBVIOUS
  <2>2. Cardinality({k \in KeysOf(page) : Kind[k] = e}) \in Nat
    BY <2>1, FS_Subset, FS_CardinalityType
  <2> QED BY <2>2 DEF Counted
<1> QED BY <1>1

\* A merge leaves the reader of its link alone.
LEMMA MergedTimely ==
  ASSUME NEW l \in Links, NEW page, Merged(l, page)
  PROVE  at'[l[1]] = at[l[1]] /\ before'[l[1]] = before[l[1]] /\ Timely(l)
BY LinkStores DEF Merged, Timely

\* Rows held by a page that was merged are safe.
LEMMA HeldSafe ==
  ASSUME SyncInv, SyncInv', NEW l \in Links, NEW page \in Pages, Merged(l, page), KeysOf(page) # {}
  PROVE  Held(at, l, page) \subseteq Safe(at', state', l)
<1> SUFFICES ASSUME NEW k \in Held(at, l, page) PROVE k \in Safe(at', state', l)
  OBVIOUS
<1>1. k \in KeysOf(page) /\ page.rows[k] >= at[l[1]][k] /\ k \in Keys /\ page.rows[k] \in Nat
  BY PageRows DEF Held, Times
<1>2. at'[l[2]][k] >= page.rows[k] /\ at'[l[1]] = at[l[1]]
  BY <1>1, MergedTimely DEF Merged
<1>3. k \in state'[l].mapped
  <2>1. state'[l] = NextState(l[2], state[l], page) /\ StateOK(state[l], at[l[2]], now)
    BY DEF Merged, SyncInv, StoreInv
  <2> QED BY <1>1, <2>1, NextCheckpoint
<1>4. at[l[1]][k] \in Nat /\ at'[l[2]][k] \in Nat
  <2>1. l[1] \in Stores /\ l[2] \in Stores
    BY LinkStores
  <2>2. at \in [Stores -> [Keys -> Times]] /\ at' \in [Stores -> [Keys -> Times]]
    BY DEF SyncInv, StoreInv
  <2> QED BY <1>1, <2>1, <2>2 DEF Times
<1> QED BY <1>1, <1>2, <1>3, <1>4 DEF Safe

\* A page with rows is merged: the rows counted afterwards are safe.
LEMMA RowsCover ==
  ASSUME SyncInv, SyncInv', Forward, NEW l \in Links, NEW q, NEW page,
         Proper(now, at, l, q, page), Merged(l, page), KeysOf(page) # {},
         RequestCovered(at, before, state, l, q, page),
         q.since = state[l].when, \A e \in Tables : state[l].count[e] <= q.offsets[e]
  PROVE  StateCovered(at', before', state', l)
<1> DEFINE d == at[l[1]]
           o == before[l[1]]
           since == state[l].when
           c == Counted(q.offsets, page)
           b == Counted(state[l].count, page)
           S == Safe(at, state, l) \cup Held(at, l, page)
           T == Safe(at', state', l)
<1>1. page \in Pages /\ q.offsets \in [Tables -> Nat] /\ IsFiniteSet(KeysOf(page))
  BY ProperFinite DEF Proper, Requests, SyncInv
<1>2. /\ state'[l] = NextState(l[2], state[l], page) /\ StateOK(state[l], at[l[2]], now)
      /\ state[l].count \in [Tables -> Nat]
  BY DEF Merged, SyncInv, StoreInv, StateOK
<1>3. state'[l].when = since /\ state'[l].count = b
  BY <1>2, NextCheckpoint
<1>4. /\ c \in [Tables -> Nat] /\ b \in [Tables -> Nat] /\ \A e \in Tables : b[e] <= c[e]
  BY <1>1, <1>2, CountedRows, CountedLess
<1>5. at'[l[1]] = d /\ before'[l[1]] = o
  BY MergedTimely
<1>6. S \subseteq T
  <2>1. Held(at, l, page) \subseteq T
    BY <1>1, HeldSafe
  <2>2. Safe(at, state, l) \subseteq T
    BY <1>5, SafeGrows DEF SyncInv
  <2> QED BY <2>1, <2>2
<1>7. Covered(d, o, since, c, S)
  BY DEF RequestCovered
<1>8. d \in [Keys -> Times] /\ Sorted(d, o) /\ IsFiniteSet(RowsIn(d)) /\ since \in Nat
  BY ReaderFacts DEF SyncInv
<1>9. Covered(d, o, since, b, T)
  <2>1. S \cap RowsIn(d) \subseteq T
    BY <1>6
  <2> HIDE DEF d, o, since, c, b, S, T
  <2> QED BY <1>4, <1>7, <1>8, <2>1, CoveredLess
<1> QED BY <1>3, <1>5, <1>9 DEF StateCovered

\* The last page is merged: no row that is older than `when` is left.
LEMMA LastCovers ==
  ASSUME SyncInv, SyncInv', Forward, NEW l \in Links, NEW q, NEW page,
         Proper(now, at, l, q, page), Merged(l, page), LastPage(page),
         Drained(at, state, late, l, page)
  PROVE  StateCovered(at', before', state', l) /\ state'[l].max = state[l].max
<1> DEFINE d == at[l[1]]
           o == before[l[1]]
           since == state'[l].when
           zero == [e \in Tables |-> 0]
           T == Safe(at', state', l)
<1>1. /\ state'[l] = NextState(l[2], state[l], page)
      /\ state[l] \in [when : Times, max : Times, mapped : SUBSET Keys, count : [Tables -> Nat]]
      /\ page \in Pages /\ page.user \in Nat
  BY PageRows DEF Merged, SyncInv, StoreInv, Proper, Times
<1>2. since \in {state[l].max, page.user} /\ state'[l].count = zero /\ state'[l].max = state[l].max
  <2> DEFINE st == state[l]
             ns == state'[l]
  <2>1. ns = [st EXCEPT !.when = IF page.user > user[l[2]] /\ page.user > st.max
                                 THEN page.user ELSE st.max,
                        !.count = [e \in Tables |-> 0]]
    BY <1>1 DEF NextState
  <2>2. st \in [when : Times, max : Times, mapped : SUBSET Keys, count : [Tables -> Nat]]
    BY <1>1
  <2>3. ns.when \in {st.max, page.user} /\ ns.count = zero /\ ns.max = st.max
    <3> HIDE DEF st, ns
    <3> QED BY <2>1, <2>2
  <2> QED BY <2>3
<1>3. at'[l[1]] = d /\ before'[l[1]] = o
  BY MergedTimely
<1>4. /\ d \in [Keys -> Times] /\ Sorted(d, o) /\ IsFiniteSet(RowsIn(d)) /\ since \in Nat
      /\ state[l].max \in Nat
  BY <1>1, <1>2, ReaderFacts DEF SyncInv
<1>5. ASSUME NEW k \in RowsIn(d), d[k] < since PROVE k \in T
  <2>1. k \in Keys /\ d[k] \in Nat /\ Kind[k] \in Tables /\ Kind[k] <= page.asked
    BY <1>4, RowsAssumption DEF RowsIn, Times, LastPage, Tables
  <2>2. ~(d[k] >= state[l].max /\ d[k] >= page.user)
    BY <1>1, <1>2, <1>4, <1>5, <2>1
  <2>3. k \in Safe(at, state, l)
    BY <2>1, <2>2 DEF Drained, LastPage
  <2> QED BY <1>3, <2>3, SafeGrows DEF SyncInv
<1>6. \A e \in Tables : /\ Cardinality(Found(d, e, since)) \in Nat
                        /\ IsFiniteSet(Found(d, e, since)) /\ Linear(Found(d, e, since), o)
  <2> HIDE DEF d, o, since
  <2> QED BY <1>4, FoundLinear
<1>7. Covered(d, o, since, zero, T)
  <2>1. ASSUME NEW k \in RowsIn(d), Place(d, o, k, since) < 0, ~(d[k] < since) PROVE FALSE
    <3>1. k \in Keys /\ d[k] \in Nat /\ Kind[k] \in Tables
      BY <1>4, RowsAssumption DEF RowsIn, Times
    <3>2. k \in Found(d, Kind[k], since)
      BY <1>4, <2>1, <3>1 DEF Found
    <3>3. Place(d, o, k, since) \in Nat
      <4> DEFINE F == Found(d, Kind[k], since)
      <4>1. k \in F /\ IsFiniteSet(F) /\ Linear(F, o)
        BY <1>6, <3>1, <3>2
      <4> HIDE DEF F
      <4>2. Pos(F, o, k) \in Nat
        BY <4>1, PosLess
      <4> QED BY <4>2 DEF Place, F
    <3> QED BY <2>1, <3>3
  <2>2. \A k \in RowsIn(d) : zero[Kind[k]] = 0
    BY RowsAssumption DEF RowsIn
  <2>3. \A e \in Tables : zero[e] <= Cardinality(Found(d, e, since))
    BY <1>6
  <2> QED BY <1>5, <2>1, <2>2, <2>3 DEF Covered
<1> QED BY <1>2, <1>3, <1>7 DEF StateCovered

\* Whatever page is merged, the links but its own stay covered.
LEMMA OthersCovered ==
  ASSUME SyncInv, SyncInv', Forward, NEW l \in Links, NEW page, Merged(l, page),
         NEW m \in Links \ disturbed', m # l, LinkCovered(m), late' \subseteq late,
         job' = job \/ ~(Running' /\ job'.link = m)
  PROVE  LinkCovered(m)'
<1>1. Timely(m)
  <2>1. CASE m[1] = l[2]
    BY <2>1 DEF Merged, Timely
  <2>2. CASE m[1] # l[2]
    BY <2>2, LinkStores DEF Merged, Timely
  <2> QED BY <2>1, <2>2
<1>2. state'[m] = state[m]
  BY DEF Merged
<1> QED BY <1>1, <1>2, LinkStays

\* After a Continue the sync is ready on its link, or has ended.
LEMMA ContinueReady ==
  ASSUME JobOK, Running, NEW next, Continue(next)
  PROVE  Running' => job'.link = job.link /\ job'.phase = "ready" /\ job'.request = next
<1>1. job \in Jobs
  BY JobFields
<1> QED BY <1>1 DEF Continue, Running, Jobs

\* The links whose cover has to be shown had it.
LEMMA StillCovered ==
  ASSUME Forward, CoverInv, Careful(env')
  PROVE  \A m \in Links \ disturbed' : LinkCovered(m)
BY DEF Forward, CoverInv

\* Steps that write no row and no sync state, and start no page.
LEMMA CalmCovers ==
  ASSUME SyncInv, SyncInv', Forward, CoverInv, UNCHANGED <<at, state>>,
         late' \subseteq late, job' \in {job, NoJob}
  PROVE  CoverInv'
<1> SUFFICES ASSUME Careful(env'), NEW m \in Links \ disturbed' PROVE LinkCovered(m)'
  BY DEF CoverInv
<1>1. LinkCovered(m)
  BY StillCovered
<1>2. Timely(m) /\ state'[m] = state[m] /\ (job' = job \/ ~(Running' /\ job'.link = m))
  BY DEF Timely, Running
<1> QED BY <1>1, <1>2, LinkStays

\* A wallet call writes a row: only the links that were not overtaken count.
LEMMA WriteCovers ==
  ASSUME SyncInv, SyncInv', Forward, CoverInv, NEW s \in Stores, NEW k \in Keys, Written(s, k)
  PROVE  CoverInv'
<1> SUFFICES ASSUME Careful(env'), NEW m \in Links \ disturbed' PROVE LinkCovered(m)'
  BY DEF CoverInv
<1>1. LinkCovered(m) /\ UNCHANGED <<state, job, late>>
  BY StillCovered DEF Written
<1>2. Timely(m)
  <2>1. CASE m[1] = s
    <3>1. ~Overtakes(m, k, now)
      BY <2>1 DEF Written
    <3>2. at'[m[1]] = [at[m[1]] EXCEPT ![k] = now] /\ at[m[1]] \in [Keys -> Times]
      BY <2>1 DEF Written, SyncInv, StoreInv
    <3> QED BY <3>1, <3>2 DEF Timely
  <2>2. CASE m[1] # s
    <3>1. at'[m[1]] = at[m[1]]
      BY <2>2, LinkStores DEF Written, SyncInv, StoreInv
    <3> QED BY <3>1 DEF Timely
  <2> QED BY <2>1, <2>2
<1> QED BY <1>1, <1>2, LinkStays

\* Steps of the sync that leave the stores alone.
LEMMA ReadCovers ==
  ASSUME Forward, CoverInv, Quiet, late' = late,
         \A l \in Links : Running' /\ job'.link = l /\ LinkCovered(l) =>
            /\ RequestCovered(at, before, state, l, job'.request, Page')
            /\ Drained(at, state, late, l, Page')
  PROVE  CoverInv'
<1> SUFFICES ASSUME Careful(env'), NEW m \in Links \ disturbed' PROVE LinkCovered(m)'
  BY DEF CoverInv
<1>1. LinkCovered(m)
  BY StillCovered
<1>2. StateCovered(at', before', state', m)
  BY <1>1 DEF LinkCovered, Quiet
<1>3. LateCovered(m)'
  BY <1>1 DEF LinkCovered, LateCovered, Quiet
<1>4. JobCovered(m)'
  BY <1>1 DEF JobCovered, Quiet
<1> QED BY <1>2, <1>3, <1>4 DEF LinkCovered

LEMMA StartCovers ==
  ASSUME SyncInv, SyncInv', Forward, CoverInv, NEW l \in Links, StartSync(l)
  PROVE  CoverInv'
<1>1. Quiet /\ late' = late /\ ~Running
  BY DEF StartSync, Quiet
<1>2. job'.link = l /\ job'.phase = "ready" /\ job'.request = Checkpoint(state'[l])
  BY <1>1 DEF StartSync, Quiet
<1>3. ASSUME NEW m \in Links, Running', job'.link = m, LinkCovered(m)
      PROVE  /\ RequestCovered(at, before, state, m, job'.request, Page')
             /\ Drained(at, state, late, m, Page')
  <2>1. StateCovered(at', before', state', m)
    BY <1>1, <1>3 DEF LinkCovered, Quiet
  <2>2. JobCovered(m)'
    BY <1>2, <1>3, <2>1, ReadyCovered
  <2> QED BY <1>1, <1>3, <2>2 DEF JobCovered, Quiet
<1> QED BY <1>1, <1>3, ReadCovers

LEMMA GetCovers ==
  ASSUME SyncInv, SyncInv', Forward, CoverInv, NEW n, GetSyncChunk(n)
  PROVE  CoverInv'
<1>1. Quiet /\ late' = late /\ Running /\ JobOK /\ job.phase = "ready"
  BY DEF GetSyncChunk, Quiet, SyncInv
<1>2. job \in Jobs /\ job.asked = 0
  BY <1>1, JobFields DEF JobOK
<1>3. /\ job'.link = job.link /\ job'.request = job.request /\ job'.rows = job.rows
      /\ job'.asked = 0
  BY <1>2 DEF GetSyncChunk, Jobs
<1>4. Page'.rows = Page.rows /\ Page'.asked = 0 /\ KeysOf(Page') = KeysOf(Page)
  BY <1>3 DEF Page, KeysOf
<1>5. ASSUME NEW m \in Links, Running', job'.link = m, LinkCovered(m)
      PROVE  /\ RequestCovered(at, before, state, m, job'.request, Page')
             /\ Drained(at, state, late, m, Page')
  <2>1. RequestCovered(at, before, state, m, job.request, Page)
    BY <1>1, <1>3, <1>5 DEF LinkCovered, JobCovered
  <2>2. Counted(job.request.offsets, Page') = Counted(job.request.offsets, Page)
          /\ Held(at, m, Page') = Held(at, m, Page)
    BY <1>4 DEF Counted, Held
  <2>3. RequestCovered(at, before, state, m, job'.request, Page')
    BY <1>3, <2>1, <2>2 DEF RequestCovered
  <2>4. \A k \in Keys : ~(Kind[k] <= 0)
    BY RowsAssumption DEF Tables
  <2>5. Drained(at, state, late, m, Page')
    BY <1>4, <2>4 DEF Drained, RowsIn
  <2> QED BY <2>3, <2>5
<1> QED BY <1>1, <1>5, ReadCovers

\* The page after a query, and the offsets after that page.
LEMMA AskedPage ==
  ASSUME SyncInv, AddItems
  PROVE  /\ KeysOf(Page') = KeysOf(Page) \cup Asked
         /\ \A k \in KeysOf(Page') : Page'.rows[k] =
                                       IF k \in Asked THEN at[job.link[1]][k] ELSE Page.rows[k]
         /\ Page'.user = Page.user /\ Page'.asked = Page.asked + 1 /\ Page.asked = job.asked
         /\ Counted(job.request.offsets, Page)[job.asked + 1] = job.request.offsets[job.asked + 1]
         /\ Counted(job.request.offsets, Page') =
               [Counted(job.request.offsets, Page) EXCEPT ![job.asked + 1] = @ + Cardinality(Asked)]
<1> DEFINE e == job.asked + 1
           c == job.request.offsets
<1>1. /\ Running /\ JobOK /\ Proper(now, at, job.link, job.request, Page)
      /\ job.phase = "reading"
  BY DEF AddItems, SyncInv, JobOK
<1>2. /\ KeysOf(Page') = KeysOf(Page) \cup Asked
      /\ \A k \in KeysOf(Page') : Page'.rows[k] =
                                       IF k \in Asked THEN at[job.link[1]][k] ELSE Page.rows[k]
      /\ Page'.user = Page.user /\ Page'.asked = Page.asked + 1 /\ Page.asked = job.asked
  BY AddFields DEF Page, KeysOf
<1>3. e \in Tables /\ c \in [Tables -> Nat] /\ Asked \subseteq Keys /\ job.asked \in Nat
        /\ \A k \in Asked : Kind[k] = e
  BY <1>1, AskedFacts, JobFields DEF Found, RowsIn
<1>4. \A k \in KeysOf(Page) : k \in Keys /\ Kind[k] \in Nat /\ Kind[k] <= job.asked
  BY <1>1, <1>2, RowsAssumption DEF Proper, RowsIn, Tables
<1>5. \A k \in KeysOf(Page) : Kind[k] # e
  BY <1>3, <1>4
<1>6. {k \in KeysOf(Page) : Kind[k] = e} = {} /\ {k \in KeysOf(Page') : Kind[k] = e} = Asked
  BY <1>2, <1>3, <1>5
<1>7. \A x \in Tables \ {e} : {k \in KeysOf(Page') : Kind[k] = x} = {k \in KeysOf(Page) : Kind[k] = x}
  BY <1>2, <1>3
<1>8. Cardinality({}) = 0 /\ Cardinality(Asked) \in Nat
  BY <1>1, FS_EmptySet, AskedFacts
<1>9. Counted(c, Page)[e] = c[e]
  BY <1>3, <1>6, <1>8 DEF Counted
<1>10. \A x \in Tables : Counted(c, Page')[x] =
          IF x = e THEN Counted(c, Page)[e] + Cardinality(Asked) ELSE Counted(c, Page)[x]
  BY <1>3, <1>6, <1>7, <1>8, <1>9 DEF Counted
<1>11. Counted(c, Page') = [Counted(c, Page) EXCEPT ![e] = @ + Cardinality(Asked)]
  <2>1. /\ Counted(c, Page') = [x \in Tables |-> Counted(c, Page')[x]]
        /\ Counted(c, Page) = [x \in Tables |-> Counted(c, Page)[x]]
    BY DEF Counted
  <2> HIDE DEF e
  <2> QED BY <1>10, <2>1
<1> QED BY <1>2, <1>9, <1>11

\* A query counts what it adds to the page.  When the page stays empty, it has
\* shown that all rows of the table are safe.
LEMMA AddCovers ==
  ASSUME SyncInv, SyncInv', Forward, CoverInv, AddItems
  PROVE  CoverInv'
<1> DEFINE e == job.asked + 1
           q == job.request
           c == Counted(q.offsets, Page)
           b == Counted(q.offsets, Page')
           l == job.link
           d == at[l[1]]
           o == before[l[1]]
           S == Safe(at, state, l) \cup Held(at, l, Page)
           T == Safe(at, state, l) \cup Held(at, l, Page')
           F == Found(d, e, q.since)
           n == job.room
<1>1. /\ Quiet /\ late' = late /\ Running /\ JobOK /\ job.phase = "reading" /\ StoreInv
      /\ job'.link = l /\ job'.request = q
  BY AddFields DEF Quiet, SyncInv
<1>2. /\ e \in Tables /\ n \in Nat /\ n > 0 /\ l \in Links /\ q.since \in Nat
      /\ q.offsets \in [Tables -> Nat]
  BY <1>1, AskedFacts, JobFields DEF Times
<1>3. IsFiniteSet(KeysOf(Page)) /\ IsFiniteSet(KeysOf(Page'))
  <2>1. IsFiniteSet(KeysOf(Page))
    <3> DEFINE page == Page
    <3>1. Proper(now, at, l, q, page)
      BY <1>1 DEF JobOK
    <3> HIDE DEF page, q, l
    <3>2. IsFiniteSet(KeysOf(page))
      BY <1>1, <3>1, ProperFinite
    <3> QED BY <3>2 DEF page
  <2>2. IsFiniteSet(KeysOf(Page) \cup Asked)
    BY <1>1, <2>1, AskedFacts, FS_Union
  <2> QED BY <2>1, <2>2, AskedPage
<1>4. c \in [Tables -> Nat] /\ b \in [Tables -> Nat]
  BY <1>2, <1>3, CountedRows
<1>5. /\ Part(F, o, c[e], n) = Asked
      /\ b = [c EXCEPT ![e] = @ + Cardinality(Part(F, o, c[e], n))]
  BY AskedPage DEF Asked
<1>6. d \in [Keys -> Times] /\ Sorted(d, o) /\ IsFiniteSet(RowsIn(d))
  BY <1>2, ReaderFacts DEF SyncInv
<1>7. S \cup Asked \subseteq T
  <2>1. ASSUME NEW k \in Held(at, l, Page) PROVE k \in Held(at, l, Page')
    <3>1. k \in KeysOf(Page') /\ Page.rows[k] >= d[k] /\ d[k] \in Nat
      <4>1. k \in Keys
        BY <1>1, JobFields, PageRows DEF Held
      <4> QED BY <1>6, <4>1, AskedPage DEF Held, Times
    <3>2. Page'.rows[k] = d[k] \/ Page'.rows[k] = Page.rows[k]
      BY <3>1, AskedPage
    <3> QED BY <3>1, <3>2 DEF Held
  <2>2. ASSUME NEW k \in Asked PROVE k \in Held(at, l, Page')
    <3>1. k \in KeysOf(Page') /\ Page'.rows[k] = d[k]
      BY AskedPage
    <3>2. d[k] \in Nat
      <4>1. k \in Keys
        BY <1>1, AskedFacts DEF Found, RowsIn
      <4> QED BY <1>6, <4>1 DEF Times
    <3> QED BY <3>1, <3>2 DEF Held
  <2> QED BY <2>1, <2>2
<1>8. ASSUME NEW m \in Links, Running', job'.link = m, LinkCovered(m)
      PROVE  /\ RequestCovered(at, before, state, m, job'.request, Page')
             /\ Drained(at, state, late, m, Page')
  <2>1. m = l /\ RequestCovered(at, before, state, l, q, Page) /\ Drained(at, state, late, l, Page)
    BY <1>1, <1>8 DEF LinkCovered, JobCovered
  <2>2. Covered(d, o, q.since, c, S)
    BY <2>1 DEF RequestCovered
  <2>3. Covered(d, o, q.since, b, T)
    <3> DEFINE since == q.since
    <3>1. /\ (S \cup Part(Found(d, e, since), o, c[e], n)) \cap RowsIn(d) \subseteq T
          /\ b = [c EXCEPT ![e] = @ + Cardinality(Part(Found(d, e, since), o, c[e], n))]
          /\ Covered(d, o, since, c, S) /\ since \in Nat
      BY <1>2, <1>5, <1>7, <2>2
    <3>2. /\ d \in [Keys -> Times] /\ Sorted(d, o) /\ IsFiniteSet(RowsIn(d))
          /\ c \in [Tables -> Nat] /\ b \in [Tables -> Nat] /\ e \in Tables /\ n \in Nat
      BY <1>2, <1>4, <1>6
    <3> HIDE DEF d, o, since, c, b, e, n, S, T
    <3>3. Covered(d, o, since, b, T)
      BY <3>1, <3>2, CoveredPart DEF Queried
    <3> QED BY <3>3 DEF since
  <2>4. Drained(at, state, late, l, Page')
    <3> SUFFICES ASSUME KeysOf(Page') = {}, NEW k \in RowsIn(d), Kind[k] <= Page'.asked,
                        k \notin Safe(at, state, l)
                 PROVE  /\ d[k] >= state[l].max /\ d[k] >= Page'.user
                        /\ \A u \in late : u.link = l =>
                              \A j \in KeysOf(u.page) : d[k] >= u.page.rows[j]
      BY DEF Drained
    <3>1. Asked = {} /\ KeysOf(Page) = {}
      BY AskedPage
    <3>2. CASE Kind[k] <= Page.asked
      BY <2>1, <3>1, <3>2, AskedPage DEF Drained
    <3>3. CASE ~(Kind[k] <= Page.asked)
      <4>1. Kind[k] = e
        <5>1. Kind[k] \in Nat /\ job.asked \in Nat
          BY <1>1, JobFields, RowsAssumption DEF RowsIn, Tables
        <5> QED BY <3>3, <5>1, AskedPage
      <4>2. \A j \in RowsIn(d) : Kind[j] = e => j \in S
        <5> DEFINE since == q.since
        <5>1. /\ Covered(d, o, since, c, S) /\ since \in Nat
              /\ Part(Found(d, e, since), o, c[e], n) = {}
          BY <1>2, <1>5, <2>2, <3>1
        <5> HIDE DEF d, o, since, c, e, n, S
        <5> QED BY <1>2, <1>4, <1>6, <5>1, CoveredDrained
      <4>3. Held(at, l, Page) = {}
        BY <3>1 DEF Held
      <4> QED BY <4>1, <4>2, <4>3
    <3> QED BY <3>2, <3>3
  <2> QED BY <1>1, <2>1, <2>3, <2>4 DEF RequestCovered
<1> QED BY <1>1, <1>8, ReadCovers

\* The page was read from where the sync state is, or it is the last one.
Current(l, q, page) ==
    \/ LastPage(page)
    \/ /\ KeysOf(page) # {}
       /\ q.since = state[l].when
       /\ \A e \in Tables : state[l].count[e] <= q.offsets[e]

\* The page of the sync is merged, and the sync goes on from the new checkpoint
\* or ends.
LEMMA MergeCovers ==
  ASSUME SyncInv, SyncInv', Forward, CoverInv, Running, Merged(job.link, Page), late' = late,
         Careful(env) => Current(job.link, job.request, Page),
         Running' => /\ job'.link = job.link /\ job'.phase = "ready"
                     /\ job'.request = Checkpoint(state'[job.link])
  PROVE  CoverInv'
<1> SUFFICES ASSUME Careful(env'), NEW m \in Links \ disturbed' PROVE LinkCovered(m)'
  BY DEF CoverInv
<1>1. LinkCovered(m) /\ Careful(env) /\ job.link \in Links
  BY StillCovered, JobFields DEF Forward, SyncInv
<1>2. CASE m # job.link
  <2> DEFINE l == job.link
             page == Page
  <2>1. l \in Links /\ m # l /\ Merged(l, page) /\ ~(Running' /\ job'.link = m)
    BY <1>1, <1>2
  <2> HIDE DEF l, page
  <2> QED BY <1>1, <2>1, OthersCovered
<1>3. CASE m = job.link
  <2> DEFINE q == job.request
             page == Page
  <2>1. /\ Merged(m, page) /\ Current(m, q, page) /\ Proper(now, at, m, q, page)
        /\ RequestCovered(at, before, state, m, q, page)
        /\ Drained(at, state, late, m, page)
    BY <1>1, <1>3 DEF LinkCovered, JobCovered, SyncInv, JobOK
  <2> HIDE DEF q, page
  <2>2. StateCovered(at', before', state', m)
    BY <2>1, RowsCover, LastCovers DEF Current
  <2>3. Timely(m)
    BY <2>1, MergedTimely
  <2>4. LateCovered(m)'
    BY <1>1, <2>3, LateMoves DEF LinkCovered
  <2>5. JobCovered(m)'
    BY <1>3, <2>2, ReadyCovered
  <2> QED BY <2>2, <2>4, <2>5 DEF LinkCovered
<1> QED BY <1>2, <1>3

\* A page sent in one request is merged whatever the sync state: it is current
\* as long as no upload can be late where pages go in one request.
LEMMA InlineCurrent ==
  ASSUME SyncInv, Uploading, Sendable("inline"), Careful(env)
  PROVE  Current(job.link, job.request, Page)
<1>1. Running /\ JobOK /\ job.phase = "uploading" /\ Page.asked = job.asked
  BY JobFields DEF Uploading, SyncInv
<1>2. CASE KeysOf(Page) = {}
  BY <1>1, <1>2 DEF JobOK, Current, LastPage
<1>3. CASE KeysOf(Page) # {}
  <2>1. env.late = {}
    BY <1>3 DEF Sendable, Careful
  <2> QED BY <1>1, <1>3, <2>1 DEF JobOK, Current
<1> QED BY <1>2, <1>3

LEMMA InlineCovers ==
  ASSUME SyncInv, SyncInv', Forward, CoverInv, SendInline
  PROVE  CoverInv'
<1>1. /\ Merged(job.link, Page) /\ Running /\ JobOK /\ late' = late
      /\ Uploading /\ Sendable("inline")
  BY InlineKeeps DEF SendInline, Uploading, SyncInv
<1>2. Careful(env) => Current(job.link, job.request, Page)
  BY <1>1, InlineCurrent
<1> DEFINE next == Checkpoint(state'[job.link])
<1>3. Continue(next)
  BY DEF SendInline
<1>4. Running' => job'.link = job.link /\ job'.phase = "ready" /\ job'.request = next
  <2> HIDE DEF next
  <2> QED BY <1>1, <1>3, ContinueReady
<1> QED BY <1>1, <1>2, <1>4, MergeCovers

LEMMA LostCovers ==
  ASSUME SyncInv, SyncInv', Forward, CoverInv, FailAfterMerge
  PROVE  CoverInv'
<1>1. /\ Merged(job.link, Page) /\ Running /\ late' = late
      /\ Uploading /\ Sendable("inline") /\ ~Running'
  BY LostKeeps DEF FailAfterMerge, Uploading, Running
<1>2. Careful(env) => Current(job.link, job.request, Page)
  BY <1>1, InlineCurrent
<1> QED BY <1>1, <1>2, MergeCovers

\* What a staged page was read for is the checkpoint when it is committed.
LEMMA MatchCurrent ==
  ASSUME SyncInv, NEW u, Matches(u), u.link \in Links, KeysOf(u.page) # {}
  PROVE  Current(u.link, u.request, u.page)
<1>1. StateOK(state[u.link], at[u.link[2]], now) /\ Checkpoint(state[u.link]) = u.request
  BY DEF SyncInv, StoreInv, Matches
<1>2. /\ u.request.since = state[u.link].when /\ u.request.offsets = state[u.link].count
      /\ state[u.link].count \in [Tables -> Nat]
  BY <1>1, CheckpointType
<1>3. \A e \in Tables : state[u.link].count[e] <= u.request.offsets[e]
  BY <1>2
<1> QED BY <1>2, <1>3 DEF Current

LEMMA StagedCovers ==
  ASSUME SyncInv, SyncInv', Forward, CoverInv, SendStaged
  PROVE  CoverInv'
<1>1. /\ Merged(job.link, Page) /\ Running /\ JobOK /\ late' = late
      /\ Uploading /\ Sendable("staged")
  BY StagedKeeps DEF SendStaged, Uploading, SyncInv
<1>2. Current(job.link, job.request, Page)
  <2> DEFINE u == Upload("staged")
  <2>1. /\ Matches(u) /\ u.link \in Links /\ KeysOf(u.page) # {} /\ u.link = job.link
        /\ u.request = job.request /\ u.page = Page
    BY <1>1, StagedFields DEF SendStaged, Commit
  <2> HIDE DEF u
  <2>2. Current(u.link, u.request, u.page)
    BY <2>1, MatchCurrent
  <2> QED BY <2>1, <2>2
<1> DEFINE next == Checkpoint(state'[job.link])
<1>3. Continue(next)
  BY DEF SendStaged
<1>4. Running' => job'.link = job.link /\ job'.phase = "ready" /\ job'.request = next
  <2> HIDE DEF next
  <2> QED BY <1>1, <1>3, ContinueReady
<1> QED BY <1>1, <1>2, <1>4, MergeCovers

\* The same bytes were merged before: the recorded checkpoint passes their rows
\* and no others.
LEMMA AgainCovers ==
  ASSUME SyncInv, SyncInv', Forward, CoverInv, SendAgain
  PROVE  CoverInv'
<1>1. Uploading /\ Sendable("staged") /\ Quiet /\ late' = late
  BY DEF SendAgain, Quiet
<1>2. PICK c \in KeptFor(Upload("staged")) : Continue(c.next)
  BY DEF SendAgain
<1> DEFINE l == job.link
           q == job.request
           page == Page
           next == c.next
<1>3. /\ Running /\ JobOK /\ l \in Links /\ Proper(now, at, l, q, page)
      /\ next.since = q.since /\ next.offsets = Counted(q.offsets, page)
      /\ \A k \in KeysOf(page) : at[l[2]][k] >= page.rows[k] /\ k \in state[l].mapped
      /\ Continue(next) /\ page \in Pages /\ q.offsets \in [Tables -> Nat]
  BY <1>1, <1>2, AgainFields, JobFields
<1>4. Running' => job'.link = l /\ job'.phase = "ready" /\ job'.request = next
  <2> HIDE DEF next
  <2> QED BY <1>3, ContinueReady
<1> HIDE DEF l, q, page, next
<1>5. Counted(q.offsets, page) \in [Tables -> Nat]
  <2>1. IsFiniteSet(KeysOf(page))
    BY <1>3, ProperFinite DEF SyncInv
  <2> QED BY <1>3, <2>1, CountedRows
<1>6. Held(at, l, page) \subseteq Safe(at, state, l)
  <2> SUFFICES ASSUME NEW k \in Held(at, l, page) PROVE k \in Safe(at, state, l)
    OBVIOUS
  <2>1. /\ k \in KeysOf(page) /\ k \in Keys /\ page.rows[k] \in Nat
        /\ page.rows[k] >= at[l[1]][k] /\ at[l[2]][k] >= page.rows[k] /\ k \in state[l].mapped
    BY <1>3, PageRows DEF Held, Times
  <2>2. at[l[1]][k] \in Nat /\ at[l[2]][k] \in Nat
    <3>1. at[l[1]] \in [Keys -> Times] /\ at[l[2]] \in [Keys -> Times]
      BY <1>3, ReaderFacts DEF SyncInv
    <3> QED BY <2>1, <3>1 DEF Times
  <2> QED BY <2>1, <2>2 DEF Safe
<1>7. ASSUME NEW m \in Links, Running', job'.link = m, LinkCovered(m)
      PROVE  /\ RequestCovered(at, before, state, m, job'.request, Page')
             /\ Drained(at, state, late, m, Page')
  <2>1. m = l /\ RequestCovered(at, before, state, l, q, page) /\ job'.request = next
    BY <1>3, <1>4, <1>7 DEF LinkCovered, JobCovered, l, q, page
  <2>2. KeysOf(Page') = {} /\ Page'.asked = 0
    <3>1. job'.rows = NoRows /\ job'.asked = 0
      BY <1>4, <1>7 DEF SyncInv, JobOK
    <3> QED BY <3>1, NoRowsYet DEF Page, KeysOf
  <2>3. Counted(next.offsets, Page') = Counted(q.offsets, page) /\ Held(at, l, Page') = {}
    <3>1. Counted(next.offsets, Page') = next.offsets
      BY <1>3, <1>5, <2>2, CountedRows, FS_EmptySet
    <3> QED BY <1>3, <2>2, <3>1 DEF Held
  <2>4. Safe(at, state, l) \cup Held(at, l, page) = Safe(at, state, l) \cup Held(at, l, Page')
    BY <1>6, <2>3
  <2>5. RequestCovered(at, before, state, l, next, Page')
    BY <1>3, <2>1, <2>3, <2>4 DEF RequestCovered
  <2>6. \A k \in Keys : ~(Kind[k] <= 0)
    BY RowsAssumption DEF Tables
  <2>7. Drained(at, state, late, m, Page')
    BY <2>2, <2>6 DEF Drained, RowsIn
  <2> QED BY <2>1, <2>5, <2>7
<1> QED BY <1>1, <1>7, ReadCovers

\* A page whose sender gives up is covered as an upload that may still arrive.
LEMMA LateCovers ==
  ASSUME SyncInv, SyncInv', Forward, CoverInv, NEW kind \in Uploads, FailAfterSending(kind)
  PROVE  CoverInv'
<1>1. /\ Quiet /\ ~Running' /\ late' = {Upload(kind)} /\ Running
      /\ Upload(kind).link = job.link /\ Upload(kind).request = job.request
      /\ Upload(kind).page = Page
  BY LateKeeps DEF Running, FailAfterSending, Uploading
<1> SUFFICES ASSUME Careful(env'), NEW m \in Links \ disturbed' PROVE LinkCovered(m)'
  BY DEF CoverInv
<1>2. LinkCovered(m)
  BY StillCovered
<1>3. StateCovered(at', before', state', m) /\ JobCovered(m)'
  BY <1>1, <1>2 DEF LinkCovered, JobCovered, Quiet
<1>4. LateCovered(m)'
  <2>1. job.link = m => RequestCovered(at, before, state, m, job.request, Page)
    BY <1>1, <1>2 DEF LinkCovered, JobCovered
  <2>2. \A u \in late' : u.link = m =>
            RequestCovered(at', before', state', m, u.request, u.page)
    BY <1>1, <2>1 DEF Quiet
  <2> QED BY <2>2 DEF LateCovered
<1> QED BY <1>3, <1>4 DEF LinkCovered

\* A late upload arrives.  It was staged: it is merged only if the checkpoint is
\* still the one its page was read for.
LEMMA ArriveCovers ==
  ASSUME SyncInv, SyncInv', Forward, CoverInv, NEW u \in late, Arrive(u)
  PROVE  CoverInv'
<1> DEFINE l == u.link
           q == u.request
           page == u.page
<1>1. /\ Merged(l, page) /\ job' = job /\ late' = late \ {u}
      /\ SentOK(now, at, env, u)
  BY ArriveKeeps DEF SyncInv, LateOK
<1>2. l \in Links /\ Proper(now, at, l, q, page)
  BY <1>1 DEF SentOK, Proper
<1> SUFFICES ASSUME Careful(env'), NEW m \in Links \ disturbed' PROVE LinkCovered(m)'
  BY DEF CoverInv
<1>3. LinkCovered(m) /\ Careful(env)
  BY StillCovered DEF Forward
<1>4. CASE m # l
  <2> HIDE DEF l, page
  <2> QED BY <1>1, <1>2, <1>3, <1>4, OthersCovered
<1>5. CASE m = l
  <2>1. u.kind = "staged" /\ KeysOf(page) # {} /\ Matches(u)
    <3>1. u.kind = "staged"
      BY <1>1, <1>3 DEF SentOK, Careful
    <3> QED BY <1>1, <3>1 DEF SentOK, Arrive, Commit
  <2>2. /\ KeysOf(page) # {} /\ q.since = state[m].when
        /\ \A e \in Tables : state[m].count[e] <= q.offsets[e]
    BY <1>2, <1>5, <2>1, MatchCurrent DEF Current, LastPage
  <2>3. RequestCovered(at, before, state, m, q, page)
    BY <1>3, <1>5 DEF LinkCovered, LateCovered
  <2>4. u \in late /\ u.link = m /\ state'[m].max = Newest(state[m], u.page)
    <3>1. state'[m] = NextState(m[2], state[m], page) /\ StateOK(state[m], at[m[2]], now)
      BY <1>1, <1>5 DEF Merged, SyncInv, StoreInv
    <3>2. state'[m].max = Newest(state[m], page)
      <4> DEFINE st == state[m]
      <4> HIDE DEF st, page
      <4>1. state'[m] = NextState(m[2], st, page) /\ StateOK(st, at[m[2]], now)
        BY <3>1 DEF st
      <4>2. NextState(m[2], st, page).max = Newest(st, page)
        BY <2>1, <4>1, NextCheckpoint
      <4> QED BY <4>1, <4>2 DEF st
    <3> QED BY <1>5, <3>2
  <2>5. /\ Merged(m, page) /\ Proper(now, at, m, q, page)
    BY <1>1, <1>2, <1>5
  <2>6. Timely(m)
    BY <2>5, MergedTimely
  <2>7. JobCovered(m)' /\ LateCovered(m)'
    BY <1>1, <1>3, <2>4, <2>6, JobMoves, LateMoves DEF LinkCovered
  <2>8. StateCovered(at', before', state', m)
    <3> HIDE DEF l, q, page
    <3> QED BY <2>2, <2>3, <2>5, RowsCover
  <2> QED BY <2>7, <2>8 DEF LinkCovered
<1> QED BY <1>4, <1>5

LEMMA CoverInit == Init => CoverInv
<1> SUFFICES ASSUME Init, NEW l \in Links PROVE LinkCovered(l)
  BY DEF CoverInv
<1>1. /\ l[1] \in Stores /\ ~Running /\ late = {}
      /\ at[l[1]] = [k \in Keys |-> 0] /\ state[l].count = [e \in Tables |-> 0]
      /\ state[l].when = 0
  BY LinkStores DEF Init, Running
<1>2. RowsIn(at[l[1]]) = {}
  BY <1>1 DEF RowsIn
<1>3. ASSUME NEW e \in Tables
      PROVE  state[l].count[e] <= Cardinality(Found(at[l[1]], e, state[l].when))
  <2>1. Found(at[l[1]], e, state[l].when) = {}
    BY <1>2 DEF Found
  <2> QED BY <1>1, <2>1, FS_EmptySet
<1>4. StateCovered(at, before, state, l)
  BY <1>2, <1>3 DEF StateCovered, Covered
<1> QED BY <1>1, <1>4 DEF LinkCovered, JobCovered, LateCovered

LEMMA CoverNext ==
  ASSUME SyncInv, CoverInv, Next
  PROVE  CoverInv'
<1>1. SyncInv' /\ Forward
  BY SyncNext
<1>2. ASSUME NEW s \in Stores, UpdateUser(s) PROVE CoverInv'
  <2>1. UNCHANGED <<at, state, late, job>>
    BY <1>2 DEF UpdateUser
  <2> QED BY <1>1, <2>1, CalmCovers
<1>3. ASSUME NEW s \in Stores, NEW k \in Keys, Create(s, k) \/ Update(s, k) PROVE CoverInv'
  BY <1>1, <1>3, RowIsWritten, WriteCovers DEF SyncInv
<1>4. CASE Tick
  <2>1. UNCHANGED <<at, state, late, job>>
    BY <1>4 DEF Tick
  <2> QED BY <1>1, <2>1, CalmCovers
<1>5. CASE \E l \in Links : StartSync(l)
  BY <1>1, <1>5, StartCovers
<1>6. CASE \E n \in env.sizes : GetSyncChunk(n)
  BY <1>1, <1>6, GetCovers
<1>7. CASE AddItems
  BY <1>1, <1>7, AddCovers
<1>8. CASE SendInline
  BY <1>1, <1>8, InlineCovers
<1>9. CASE SendStaged
  BY <1>1, <1>9, StagedCovers
<1>10. CASE SendAgain
  BY <1>1, <1>10, AgainCovers
<1>11. CASE \/ Refuse \/ Fail
            \/ \E u \in late : Drop(u)
            \/ \E c \in kept : ExpireTransfer(c)
  <2>1. UNCHANGED <<at, state>> /\ late' \subseteq late /\ job' \in {job, NoJob}
    BY <1>11, StopKeeps DEF Quiet
  <2> QED BY <1>1, <2>1, CalmCovers
<1>12. CASE FailAfterMerge
  BY <1>1, <1>12, LostCovers
<1>13. CASE \E kind \in Uploads : FailAfterSending(kind)
  BY <1>1, <1>13, LateCovers
<1>14. CASE \E u \in late : Arrive(u)
  BY <1>1, <1>14, ArriveCovers
<1> QED BY <1>2, <1>3, <1>4, <1>5, <1>6, <1>7, <1>8, <1>9, <1>10, <1>11, <1>12, <1>13, <1>14
        DEF Next, SyncStep

LEMMA CoverStutter ==
  ASSUME SyncInv, CoverInv, UNCHANGED vars
  PROVE  CoverInv'
<1>1. SyncInv' /\ Forward /\ UNCHANGED <<at, state, late, job>>
  BY SyncStutter DEF vars
<1> QED BY <1>1, CalmCovers

\* What is not safe is pending.
LEMMA UnsafePending ==
  ASSUME SyncInv, NEW l \in Links, StateCovered(at, before, state, l),
         NEW k \in RowsIn(at[l[1]]), k \notin Safe(at, state, l)
  PROVE  k \in Pending(l)
<1> DEFINE d == at[l[1]]
           o == before[l[1]]
           since == state[l].when
<1>1. /\ l[1] \in Stores /\ StoreOK(d, o, now) /\ StateOK(state[l], at[l[2]], now)
  BY LinkStores DEF SyncInv, StoreInv
<1>2. /\ d \in [Keys -> Times] /\ Sorted(d, o) /\ IsFiniteSet(RowsIn(d))
      /\ since \in Nat /\ state[l].count \in [Tables -> Nat]
  BY <1>1 DEF StoreOK, StateOK, Times
<1>3. /\ k \in Keys /\ Kind[k] \in Tables /\ d[k] \in Nat
      /\ ~(d[k] < since) /\ ~(Place(d, o, k, since) < state[l].count[Kind[k]])
  BY <1>2, RowsAssumption DEF RowsIn, Times, StateCovered, Covered
<1>4. k \in Found(d, Kind[k], since)
  BY <1>2, <1>3 DEF Found
<1>5. Place(d, o, k, since) \in Nat
  <2> HIDE DEF d, o, since
  <2> QED BY <1>2, <1>3, <1>4, FoundLinear, PosLess DEF Place
<1>6. Rank(l[1], k, since) = Place(d, o, k, since)
  BY DEF Rank, FindItems, RowsOf, Place, Pos, Below, Found, RowsIn
<1>7. k \in RowsOf(l[1]) /\ d[k] >= since /\ Rank(l[1], k, since) >= state[l].count[Kind[k]]
  BY <1>2, <1>3, <1>5, <1>6 DEF RowsOf, RowsIn
<1> QED BY <1>7 DEF Pending

LEMMA CoverSkips ==
  ASSUME SyncInv, CoverInv, Careful(env)
  PROVE  NothingSkipped /\ ParentsFirst
<1> USE DEF CoverInv
<1>1. NothingSkipped
  <2> SUFFICES ASSUME NEW l \in Links \ disturbed, NEW k \in Keys, at[l[1]][k] > at[l[2]][k]
               PROVE  k \in Pending(l)
    BY DEF NothingSkipped
  <2>1. at[l[1]][k] \in Nat /\ at[l[2]][k] \in Nat
    <3>1. at[l[1]] \in [Keys -> Times] /\ at[l[2]] \in [Keys -> Times]
      BY LinkStores DEF SyncInv, StoreInv
    <3> QED BY <3>1 DEF Times
  <2>2. k \in RowsIn(at[l[1]]) /\ k \notin Safe(at, state, l)
    BY <2>1 DEF RowsIn, Safe
  <2> QED BY <2>2, UnsafePending DEF LinkCovered
<1>2. ParentsFirst
  <2> SUFFICES ASSUME NEW l \in Links \ disturbed, NEW k \in Keys, k \in RowsOf(l[1])
               PROVE  Parent[k] \in state[l].mapped \cup Pending(l)
    BY DEF ParentsFirst
  <2>1. Parent[k] \in RowsIn(at[l[1]])
    <3>1. StoreOK(at[l[1]], before[l[1]], now)
      BY LinkStores DEF SyncInv, StoreInv
    <3> QED BY <3>1 DEF StoreOK, RowsOf, RowsIn
  <2>2. CASE Parent[k] \in Safe(at, state, l)
    BY <2>2 DEF Safe
  <2>3. CASE Parent[k] \notin Safe(at, state, l)
    BY <2>1, <2>3, UnsafePending DEF LinkCovered
  <2> QED BY <2>2, <2>3
<1> QED BY <1>1, <1>2

\* Checkpoints, pages and late uploads cover what they count: the inductive
\* invariant behind the two theorems below.
THEOREM SyncCovered == Spec => []CoverInv
<1>1. Init => CoverInv
  BY CoverInit
<1>2. SyncInv /\ CoverInv /\ [Next]_vars => CoverInv'
  BY CoverNext, CoverStutter
<1> QED BY <1>1, <1>2, SyncSound, PTL DEF Spec

\* The checkpoint passes no row the writer lacks (getSyncChunk's offsets and
\* `since`, as processSyncChunk moves them), on a link no write has overtaken,
\* whichever syncs have failed, been repeated or arrived late.
THEOREM NeverSkips == Spec => [](Careful(env) => NothingSkipped)
<1>1. SyncInv /\ CoverInv => (Careful(env) => NothingSkipped)
  BY CoverSkips
<1> QED BY <1>1, SyncSound, SyncCovered, PTL

\* The row a row refers to (foreignKey through the idMap) is known to the writer
\* or still to be sent, on a link no write has overtaken.
THEOREM ParentsReach == Spec => [](Careful(env) => ParentsFirst)
<1>1. SyncInv /\ CoverInv => (Careful(env) => ParentsFirst)
  BY CoverSkips
<1> QED BY <1>1, SyncSound, SyncCovered, PTL
=============================================================================
