-------------------------- MODULE PeerQueryProofs --------------------------
(***************************************************************************)
(* What the queries return, for any collection of peers: the counts of     *)
(* their rows, and what sorting does to them.                              *)
(***************************************************************************)
EXTENDS PeerQueries, FiniteSetTheorems, SequenceTheorems, TLAPS
-----------------------------------------------------------------------------
(* Sums of counts *)

(* A set of natural numbers that is not empty has a least element.         *)
LEMMA LeastNumber ==
  ASSUME NEW T, T \subseteq Nat, T # {}
  PROVE  \E x \in T : \A y \in T : x <= y
<1> DEFINE R == OpToRel(<, Nat)
<1>1. IsWellFoundedOn(R, Nat)
  BY NatLessThanWellFounded
<1>2. \A x, y \in Nat : x < y => <<x, y>> \in R
  BY DEF OpToRel
<1> HIDE DEF R
<1>3. PICK x \in T : \A y \in T : ~(<<y, x>> \in R)
  BY <1>1, WFMin, Zenon
<1>4. x \in Nat /\ \A y \in T : y \in Nat
  BY <1>3
<1>5. \A y \in T : ~(y < x)
  BY <1>2, <1>3, <1>4
<1>6. \A y \in T : x <= y
  BY <1>4, <1>5
<1> QED
  BY <1>3, <1>6

(* The equation by which TotalCount recurs on the sets of keys.            *)
FoldEquation(rows, R, F) ==
  F = [s \in SUBSET R |-> IF s = {} THEN 0
         ELSE rows[CHOOSE x \in s : TRUE].count + F[s \ {CHOOSE x \in s : TRUE}]]

(* It has one solution.                                                    *)
LEMMA FoldUnique ==
  ASSUME NEW R, IsFiniteSet(R), NEW rows, NEW F, NEW G,
         FoldEquation(rows, R, F),
         FoldEquation(rows, R, G)
  PROVE  F[R] = G[R]
<1> DEFINE Bad == {s \in SUBSET R : F[s] # G[s]}
           Sizes == {Cardinality(s) : s \in Bad}
<1>1. SUFFICES ASSUME Bad # {} PROVE FALSE
  OBVIOUS
<1>2. \A s \in Bad : IsFiniteSet(s) /\ Cardinality(s) \in Nat
  BY FS_Subset, FS_CardinalityType
<1>3. Sizes \subseteq Nat /\ Sizes # {}
  <2>1. \A k \in Sizes : k \in Nat
    BY <1>2
  <2>2. PICK s \in Bad : TRUE
    BY <1>1
  <2>3. Cardinality(s) \in Sizes
    BY <2>2
  <2> HIDE DEF Sizes
  <2> QED
    BY <2>1, <2>3
<1>4. PICK m \in Sizes : \A k \in Sizes : m <= k
  BY <1>3, LeastNumber
<1>5. PICK s \in Bad : Cardinality(s) = m
  BY <1>4
<1> DEFINE x == CHOOSE y \in s : TRUE
<1>6. s # {}
  BY <1>5 DEF FoldEquation
<1>7. x \in s
  BY <1>6
<1>8. F[s] = rows[x].count + F[s \ {x}] /\ G[s] = rows[x].count + G[s \ {x}]
  BY <1>5, <1>6 DEF FoldEquation
<1>9. s \ {x} \in Bad
  <2>1. s \ {x} \in SUBSET R
    BY <1>5
  <2> QED
    BY <1>5, <1>8, <2>1
<1>10. Cardinality(s \ {x}) = Cardinality(s) - 1
  BY <1>2, <1>5, <1>7, FS_RemoveElement
<1>11. Cardinality(s \ {x}) \in Sizes
  BY <1>9
<1> QED
  BY <1>2, <1>4, <1>5, <1>10, <1>11

(* What satisfies the equation of a total is the total.                    *)
LEMMA TotalUnique ==
  ASSUME NEW R, IsFiniteSet(R), NEW rows, NEW F,
         FoldEquation(rows, R, F)
  PROVE  TotalCount(rows, R) = F[R]
<1> DEFINE iter == CHOOSE G : FoldEquation(rows, R, G)
<1>1. TotalCount(rows, R) = iter[R]
  BY Zenon DEF TotalCount, MapThenSumSet, MapThenFoldSet, FoldEquation
<1>2. FoldEquation(rows, R, iter)
  OBVIOUS
<1> HIDE DEF iter
<1>3. iter[R] = F[R]
  BY <1>2, FoldUnique
<1> QED
  BY <1>1, <1>3

(* The members of S that a function puts into class k.                     *)
InClass(S, class, k) == {d \in S : class[d] = k}

(* When every member of a set is in one class and each row counts its      *)
(* class, the total of the rows is the size of the set.                    *)
LEMMA TotalOfClasses ==
  ASSUME NEW S, IsFiniteSet(S), NEW R, IsFiniteSet(R), NEW class, NEW rows,
         \A d \in S : class[d] \in R,
         \A k \in R : rows[k].count = Cardinality(InClass(S, class, k))
  PROVE  TotalCount(rows, R) = Cardinality(S)
<1> DEFINE In(s) == {d \in S : class[d] \in s}
           F == [s \in SUBSET R |-> Cardinality(In(s))]
<1>1. \A s : IsFiniteSet(In(s)) /\ Cardinality(In(s)) \in Nat
  BY FS_Subset, FS_CardinalityType
<1>2. ASSUME NEW s \in SUBSET R, NEW x \in s
      PROVE  F[s] = rows[x].count + F[s \ {x}]
  <2>1. In(s) = In({x}) \cup In(s \ {x}) /\ In({x}) \cap In(s \ {x}) = {}
    BY <1>2
  <2>2. Cardinality(In(s)) = Cardinality(In({x})) + Cardinality(In(s \ {x}))
                             - Cardinality(In({x}) \cap In(s \ {x}))
    <3> HIDE DEF In
    <3> QED
      BY <1>1, <2>1, FS_Union
  <2>3. Cardinality({}) = 0
    BY FS_EmptySet
  <2>4. rows[x].count = Cardinality(In({x}))
    <3>1. In({x}) = InClass(S, class, x)
      BY DEF InClass
    <3> QED
      BY <1>2, <3>1
  <2>5. s \ {x} \in SUBSET R
    OBVIOUS
  <2>6. F[s] = Cardinality(In(s)) /\ F[s \ {x}] = Cardinality(In(s \ {x}))
    BY <2>5
  <2>7. Cardinality(In({x})) \in Nat /\ Cardinality(In(s \ {x})) \in Nat
    BY <1>1
  <2> HIDE DEF In, F
  <2>8. Cardinality(In({x}) \cap In(s \ {x})) = 0
    BY <2>1, <2>3
  <2>9. Cardinality(In(s)) = Cardinality(In({x})) + Cardinality(In(s \ {x}))
    BY <2>2, <2>7, <2>8
  <2> QED
    BY <2>4, <2>6, <2>9
<1>3. F[{}] = 0
  <2>1. In({}) = {}
    OBVIOUS
  <2>2. F[{}] = Cardinality(In({}))
    OBVIOUS
  <2> QED
    BY <2>1, <2>2, FS_EmptySet
<1>4. FoldEquation(rows, R, F)
  <2> DEFINE E(s) == IF s = {} THEN 0
             ELSE rows[CHOOSE x \in s : TRUE].count + F[s \ {CHOOSE x \in s : TRUE}]
  <2>1. \A s \in SUBSET R : F[s] = E(s)
    <3> SUFFICES ASSUME NEW s \in SUBSET R PROVE F[s] = E(s)
      OBVIOUS
    <3>1. s # {} => (CHOOSE x \in s : TRUE) \in s
      OBVIOUS
    <3> HIDE DEF F
    <3> QED
      BY <1>2, <1>3, <3>1
  <2>2. F = [s \in SUBSET R |-> F[s]]
    OBVIOUS
  <2> HIDE DEF F
  <2> QED
    BY <2>1, <2>2 DEF FoldEquation
<1>5. TotalCount(rows, R) = F[R]
  <2> HIDE DEF F
  <2> QED
    BY <1>4, TotalUnique
<1>6. F[R] = Cardinality(In(R)) /\ In(R) = S
  OBVIOUS
<1> QED
  BY <1>5, <1>6

-----------------------------------------------------------------------------
(* What a call of a store returns *)

LEMMA FilteredIs ==
  ASSUME NEW filter, NEW results, NEW data \in Filtered(filter, results)
  PROVE  \/ data = Panicked /\ filter = "short"
         \/ data = Failed
         \/ data \in results /\ Filtered(filter, results) = {Failed} \cup results
<1>1. CASE filter = "short"
  BY <1>1 DEF Filtered
<1>2. CASE filter = "odd"
  BY <1>2 DEF Filtered
<1>3. CASE filter \notin {"short", "odd"}
  BY <1>3, Zenon DEF Filtered
<1> QED
  BY <1>1, <1>2, <1>3

(* What a call returns is an error, the panic of a filter that is too      *)
(* short, or some of the rows.                                             *)
LEMMA FetchedIs ==
  ASSUME NEW filter, NEW rows, NEW data \in Filtered(filter, Fetched(rows))
  PROVE  /\ data.kind \in {"error", "panic", "rows"}
         /\ data.kind = "panic" => filter = "short"
         /\ data.kind = "rows" =>
              /\ DOMAIN data.rows \subseteq DOMAIN rows
              /\ data.rows = [k \in DOMAIN data.rows |-> rows[k]]
<1>1. CASE data = Panicked /\ filter = "short"
  BY <1>1 DEF Panicked
<1>2. CASE data = Failed
  BY <1>2 DEF Failed
<1>3. CASE data \in Fetched(rows)
  <2>1. PICK keys \in SUBSET DOMAIN rows : data = [kind |-> "rows", rows |-> [k \in keys |-> rows[k]]]
    BY <1>3 DEF Fetched, Rows, Restrict
  <2>2. data.kind = "rows" /\ data.rows = [k \in keys |-> rows[k]]
    BY <2>1
  <2>3. DOMAIN data.rows = keys
    BY <2>2
  <2> QED
    BY <2>2, <2>3
<1> QED
  BY <1>1, <1>2, <1>3, FilteredIs

(* Nothing is missing from rows that hold all that a call could return.    *)
LEMMA FetchedWhole ==
  ASSUME NEW filter, NEW rows, rows = [k \in DOMAIN rows |-> rows[k]],
         NEW data \in Filtered(filter, Fetched(rows)), data.kind = "rows",
         \A d \in Filtered(filter, Fetched(rows)) :
           d.kind = "rows" => DOMAIN d.rows \subseteq DOMAIN data.rows
  PROVE  data.rows = rows
<1>1. data # Panicked /\ data # Failed
  BY DEF Panicked, Failed
<1>2. Filtered(filter, Fetched(rows)) = {Failed} \cup Fetched(rows)
  BY <1>1, FilteredIs
<1> DEFINE all == Rows(Restrict(rows, DOMAIN rows))
<1>3. all \in Fetched(rows)
  BY DEF Fetched
<1>4. all.kind = "rows" /\ DOMAIN all.rows = DOMAIN rows
  BY DEF Rows, Restrict
<1> HIDE DEF all
<1>5. DOMAIN rows \subseteq DOMAIN data.rows
  BY <1>2, <1>3, <1>4
<1>6. DOMAIN data.rows = DOMAIN rows /\ data.rows = [k \in DOMAIN data.rows |-> rows[k]]
  BY <1>5, FetchedIs
<1>7. data.rows = [k \in DOMAIN rows |-> rows[k]]
  BY <1>6, Zenon
<1> QED
  BY <1>7

(* $group leaves out no document, and counts none twice.                   *)
LEMMA GroupedTotal ==
  ASSUME NEW key, IsFiniteSet(DOMAIN key), key = [d \in DOMAIN key |-> key[d]]
  PROVE  LET rows == Grouped(key) IN
         /\ rows = [k \in DOMAIN rows |-> rows[k]]
         /\ IsFiniteSet(DOMAIN rows)
         /\ Cardinality(DOMAIN rows) <= Cardinality(DOMAIN key)
         /\ TotalCount(rows, DOMAIN rows) = Cardinality(DOMAIN key)
<1> DEFINE rows == Grouped(key)
           R == Range(key)
<1>1. key \in Surjection(DOMAIN key, R)
  BY DEF Range, Surjection
<1>2. IsFiniteSet(R) /\ Cardinality(R) <= Cardinality(DOMAIN key)
  BY <1>1, FS_Surjection
<1>3. rows = [k \in R |-> rows[k]] /\ DOMAIN rows = R
  BY DEF Grouped
<1>4. \A k \in R : rows[k].count = Cardinality(InClass(DOMAIN key, key, k))
  BY DEF Grouped, InClass
<1>5. \A d \in DOMAIN key : key[d] \in R
  BY DEF Range
<1>6. TotalCount(rows, R) = Cardinality(DOMAIN key)
  <2> HIDE DEF rows, R
  <2> QED
    BY <1>2, <1>4, <1>5, TotalOfClasses
<1> QED
  BY <1>2, <1>3, <1>6

LEMMA RangeFinite ==
  ASSUME NEW f, f = [x \in DOMAIN f |-> f[x]], IsFiniteSet(DOMAIN f)
  PROVE  IsFiniteSet(Range(f)) /\ Cardinality(Range(f)) <= Cardinality(DOMAIN f)
<1>1. f \in Surjection(DOMAIN f, Range(f))
  BY DEF Range, Surjection
<1> QED
  BY <1>1, FS_Surjection

Names(docs) == [d \in docs |-> d.agent.name]
Versions(docs) == [d \in docs |-> d.agent.version]
ClientRows(docs) == [c \in {d.agent.name : d \in docs} |-> ClientRow(docs, c)]

(* The versions of a client add up to its nodes.                           *)
LEMMA ClientTotal ==
  ASSUME NEW docs, IsFiniteSet(docs), NEW c
  PROVE  LET row == ClientRow(docs, c)
             own == InClass(docs, Names(docs), c)
         IN  /\ row.versions = [v \in {d.agent.version : d \in own} |-> VersionRow(own, v)]
             /\ row.count = TotalCount(row.versions, DOMAIN row.versions)
             /\ row.count = Cardinality(own)
<1> DEFINE row == ClientRow(docs, c)
           own == {d \in docs : d.agent.name = c}
           vs == [v \in {d.agent.version : d \in own} |-> VersionRow(own, v)]
<1>1. own = InClass(docs, Names(docs), c)
  BY DEF InClass, Names
<1>2. row.versions = vs /\ row.count = TotalCount(vs, DOMAIN vs)
  BY Zenon DEF ClientRow
<1>3. IsFiniteSet(own)
  BY FS_Subset
<1> HIDE DEF own
<1>4. DOMAIN vs = Range(Versions(own)) /\ DOMAIN Versions(own) = own
  BY DEF Range, Versions
<1>5. IsFiniteSet(DOMAIN vs)
  BY <1>3, <1>4, RangeFinite DEF Versions
<1>6. \A d \in own : Versions(own)[d] \in DOMAIN vs
  BY DEF Versions
<1>7. \A v \in DOMAIN vs : vs[v].count = Cardinality(InClass(own, Versions(own), v))
  BY DEF VersionRow, InClass, Versions
<1> HIDE DEF vs
<1>8. TotalCount(vs, DOMAIN vs) = Cardinality(own)
  BY <1>3, <1>5, <1>6, <1>7, TotalOfClasses
<1> USE DEF vs
<1> QED
  BY <1>1, <1>2, <1>8

(* So do the clients to all nodes.                                         *)
LEMMA ClientsTotal ==
  ASSUME NEW docs, IsFiniteSet(docs)
  PROVE  LET rows == ClientRows(docs) IN
         /\ rows = [c \in DOMAIN rows |-> rows[c]]
         /\ IsFiniteSet(DOMAIN rows)
         /\ Cardinality(DOMAIN rows) <= Cardinality(docs)
         /\ TotalCount(rows, DOMAIN rows) = Cardinality(docs)
<1> DEFINE rows == ClientRows(docs)
           R == DOMAIN rows
<1>1. rows = [c \in R |-> rows[c]] /\ R = {d.agent.name : d \in docs}
  BY DEF ClientRows
<1>2. R = Range(Names(docs)) /\ DOMAIN Names(docs) = docs
  BY <1>1 DEF Range, Names
<1>3. IsFiniteSet(R) /\ Cardinality(R) <= Cardinality(docs)
  BY <1>2, RangeFinite DEF Names
<1>4. \A d \in docs : Names(docs)[d] \in R
  BY <1>1 DEF Names
<1>5. \A c \in R : rows[c].count = Cardinality(InClass(docs, Names(docs), c))
  BY <1>1, ClientTotal DEF ClientRows
<1>6. TotalCount(rows, R) = Cardinality(docs)
  <2> HIDE DEF rows, R
  <2> QED
    BY <1>3, <1>4, <1>5, TotalOfClasses
<1> QED
  BY <1>1, <1>3, <1>6

(* The percentage of upgraded nodes is one of all nodes.                   *)
LEMMA UpgradeOfAll ==
  ASSUME NEW docs, IsFiniteSet(docs)
  PROVE  GetAltairUpgradePercentage(ClientRows(docs)).den = Cardinality(docs)
<1> DEFINE rows == ClientRows(docs)
           pairs == UNION {{<<c, v>> : v \in DOMAIN rows[c].versions} : c \in DOMAIN rows}
           versions == [p \in pairs |-> rows[p[1]].versions[p[2]]]
           class == [d \in docs |-> <<d.agent.name, d.agent.version>>]
           own(c) == InClass(docs, Names(docs), c)
<1>1. GetAltairUpgradePercentage(rows).den = TotalCount(versions, pairs)
  BY DEF GetAltairUpgradePercentage, Float
<1>2. DOMAIN rows = {d.agent.name : d \in docs}
  BY DEF ClientRows
<1>3. \A c \in DOMAIN rows :
        rows[c].versions = [v \in {d.agent.version : d \in own(c)} |-> VersionRow(own(c), v)]
  BY <1>2, ClientTotal DEF ClientRows
<1>4. \A c : \A d \in docs : d \in own(c) <=> d.agent.name = c
  BY DEF InClass, Names
<1> HIDE DEF rows, own
<1>5. pairs = Range(class)
  <2>1. ASSUME NEW p \in pairs PROVE p \in Range(class)
    <3>1. PICK c \in DOMAIN rows : p \in {<<c, v>> : v \in DOMAIN rows[c].versions}
      OBVIOUS
    <3>2. PICK v \in DOMAIN rows[c].versions : p = <<c, v>>
      BY <3>1
    <3>3. DOMAIN rows[c].versions = {d.agent.version : d \in own(c)}
      BY <1>3
    <3>4. PICK d \in own(c) : v = d.agent.version
      BY <3>3
    <3>5. d \in docs /\ d.agent.name = c
      BY <1>4, <3>4 DEF own, InClass
    <3>6. class[d] = p
      BY <3>2, <3>4, <3>5
    <3> QED
      BY <3>5, <3>6 DEF Range
  <2>2. ASSUME NEW d \in docs PROVE class[d] \in pairs
    <3>1. d.agent.name \in DOMAIN rows /\ d \in own(d.agent.name)
      BY <1>2, <1>4
    <3>2. d.agent.version \in DOMAIN rows[d.agent.name].versions
      BY <1>3, <3>1
    <3>3. class[d] = <<d.agent.name, d.agent.version>>
      OBVIOUS
    <3> QED
      BY <3>1, <3>2, <3>3
  <2>3. Range(class) \subseteq pairs
    BY <2>2 DEF Range
  <2> QED
    BY <2>1, <2>3
<1>6. IsFiniteSet(pairs)
  <2>1. class = [d \in DOMAIN class |-> class[d]] /\ DOMAIN class = docs
    OBVIOUS
  <2> HIDE DEF class, pairs
  <2> QED
    BY <1>5, <2>1, RangeFinite
<1>7. \A d \in docs : class[d] \in pairs
  <2>1. \A d \in docs : class[d] \in Range(class)
    BY DEF Range
  <2> QED
    BY <1>5, <2>1
<1>8. ASSUME NEW p \in pairs
      PROVE  versions[p].count = Cardinality(InClass(docs, class, p))
  <2>1. PICK c \in DOMAIN rows : p \in {<<c, v>> : v \in DOMAIN rows[c].versions}
    OBVIOUS
  <2>2. PICK v \in DOMAIN rows[c].versions : p = <<c, v>>
    BY <2>1
  <2>3. versions[p] = VersionRow(own(c), v)
    BY <1>3, <2>2
  <2>4. {d \in own(c) : d.agent.version = v} = InClass(docs, class, p)
    BY <1>4, <2>2 DEF InClass, own
  <2>5. VersionRow(own(c), v).count = Cardinality({d \in own(c) : d.agent.version = v})
    BY DEF VersionRow
  <2> QED
    BY <2>3, <2>4, <2>5
<1> HIDE DEF pairs, versions, class
<1>9. TotalCount(versions, pairs) = Cardinality(docs)
  BY <1>6, <1>7, <1>8, TotalOfClasses
<1> QED
  BY <1>1, <1>9 DEF rows

-----------------------------------------------------------------------------
(* Sorting *)

LEMMA DivModBounds ==
  ASSUME NEW n \in Nat \ {0}, NEW a \in Nat
  PROVE  a \div n \in Nat /\ a % n \in 0 .. n - 1
<1>1. a \div n \in Nat
  OBVIOUS
<1>2. a % n \in 0 .. n - 1
  OBVIOUS
<1> QED
  BY <1>1, <1>2

LEMMA DivMod ==
  ASSUME NEW n \in Nat \ {0}, NEW q \in Nat, NEW r \in Nat, r < n,
         NEW a \in Int, a = n * q + r
  PROVE  a \div n = q /\ a % n = r
OBVIOUS

(* The equation by which SortByCount recurs on the number of comparisons.  *)
SortEquation(data, n, m, f) ==
  f = [k \in 0 .. m |->
        IF k = 0 THEN data
        ELSE Swapped(f[k - 1], ((k - 1) \div n) + 1, ((k - 1) % n) + 1)]

LEMMA SortEquationSolved ==
  ASSUME NEW data, NEW n, NEW m \in Nat
  PROVE  \E f : SortEquation(data, n, m, f)
<1> DEFINE Bad == {l \in Nat : ~\E f : SortEquation(data, n, l, f)}
<1>1. SUFFICES ASSUME Bad # {} PROVE FALSE
  OBVIOUS
<1>2. PICK l \in Bad : \A x \in Bad : l <= x
  BY <1>1, LeastNumber
<1>3. CASE l = 0
  <2>1. SortEquation(data, n, 0, [k \in 0 .. 0 |-> data])
    BY DEF SortEquation
  <2> QED
    BY <1>2, <1>3, <2>1
<1>4. CASE l # 0
  <2>1. l \in Nat /\ l - 1 \in Nat /\ l - 1 \notin Bad
    BY <1>2, <1>4
  <2>2. PICK g : SortEquation(data, n, l - 1, g)
    BY <2>1
  <2> DEFINE next(h, k) == IF k = 0 THEN data
                           ELSE Swapped(h[k - 1], ((k - 1) \div n) + 1, ((k - 1) % n) + 1)
             f == [k \in 0 .. l |-> IF k = l THEN next(g, l) ELSE g[k]]
  <2>3. ASSUME NEW k \in 0 .. l PROVE f[k] = next(f, k)
    <3>1. CASE k = l
      <4>1. f[k] = next(g, k)
        BY <3>1
      <4>2. f[k - 1] = g[k - 1]
        BY <2>1, <3>1
      <4> HIDE DEF f
      <4> QED
        BY <2>1, <3>1, <4>1, <4>2
    <3>2. CASE k # l
      <4>1. k \in 0 .. l - 1 /\ f[k] = g[k]
        BY <2>1, <3>2
      <4>2. g[k] = next(g, k)
        BY <2>2, <4>1 DEF SortEquation
      <4>3. k # 0 => f[k - 1] = g[k - 1]
        BY <2>1, <3>2
      <4> HIDE DEF f
      <4> QED
        BY <4>1, <4>2, <4>3
    <3> QED
      BY <3>1, <3>2
  <2>4. f = [k \in 0 .. l |-> f[k]]
    OBVIOUS
  <2>5. f = [k \in 0 .. l |-> next(f, k)]
    <3> HIDE DEF f, next
    <3> QED
      BY <2>3, <2>4
  <2>6. SortEquation(data, n, l, f)
    <3> HIDE DEF f
    <3> QED
      BY <2>5 DEF SortEquation
  <2> HIDE DEF f
  <2> QED
    BY <1>2, <2>6
<1> QED
  BY <1>3, <1>4

(* The comparisons of SortByCount, one after the other.                    *)
Sorting(data, n, f) ==
  /\ SortByCount(data) = f[n * n] /\ f[0] = data
  /\ \A k \in 1 .. n * n :
       f[k] = Swapped(f[k - 1], ((k - 1) \div n) + 1, ((k - 1) % n) + 1)

LEMMA SortSteps ==
  ASSUME NEW data, NEW n \in Nat, Len(data) = n
  PROVE  \E f : Sorting(data, n, f)
<1> DEFINE f == CHOOSE g : SortEquation(data, n, n * n, g)
<1>1. n * n \in Nat
  OBVIOUS
<1>2. SortByCount(data) = f[n * n]
  BY Zenon DEF SortByCount, SortEquation
<1>3. SortEquation(data, n, n * n, f)
  BY <1>1, SortEquationSolved
<1> HIDE DEF f
<1>4. f[0] = data
  BY <1>1, <1>3 DEF SortEquation
<1>5. \A k \in 1 .. n * n :
        f[k] = Swapped(f[k - 1], ((k - 1) \div n) + 1, ((k - 1) % n) + 1)
  BY <1>1, <1>3 DEF SortEquation
<1> QED
  BY <1>2, <1>4, <1>5 DEF Sorting

(* A sequence of n elements.                                               *)
Indexed(s, n) == s = [i \in 1 .. n |-> s[i]]

(* The same elements in another order.                                     *)
Rearranged(s, data, n) ==
  /\ Indexed(s, n)
  /\ \E p \in [1 .. n -> 1 .. n] : IsInjective(p) /\ \A i \in 1 .. n : s[i] = data[p[i]]

LEMMA SwapRearranges ==
  ASSUME NEW n \in Nat, NEW s, NEW data, Rearranged(s, data, n),
         NEW i \in Int, NEW j \in Int, 1 <= i, j <= n
  PROVE  Rearranged(Swapped(s, i, j), data, n)
<1>1. CASE ~(i < j /\ s[i].count < s[j].count)
  BY <1>1 DEF Swapped
<1>2. CASE i < j /\ s[i].count < s[j].count
  <2> DEFINE t == [s EXCEPT ![i] = s[j], ![j] = s[i]]
  <2>1. Swapped(s, i, j) = t
    BY <1>2 DEF Swapped
  <2>2. i \in 1 .. n /\ j \in 1 .. n /\ i # j
    BY <1>2
  <2>3. s = [k \in 1 .. n |-> s[k]]
    BY DEF Rearranged, Indexed
  <2>4. PICK p \in [1 .. n -> 1 .. n] :
          (\A a, b \in 1 .. n : p[a] = p[b] => a = b) /\ \A k \in 1 .. n : s[k] = data[p[k]]
    BY DEF Rearranged, IsInjective
  <2> DEFINE q == [p EXCEPT ![i] = p[j], ![j] = p[i]]
  <2>5. q \in [1 .. n -> 1 .. n]
    BY <2>2
  <2>6. \A k \in 1 .. n : q[k] = IF k = i THEN p[j] ELSE IF k = j THEN p[i] ELSE p[k]
    BY <2>2
  <2>7. \A k \in 1 .. n : t[k] = IF k = i THEN s[j] ELSE IF k = j THEN s[i] ELSE s[k]
    BY <2>2, <2>3
  <2>8. Indexed(t, n)
    BY <2>3 DEF Indexed
  <2> HIDE DEF q, t
  <2>9. ASSUME NEW a \in 1 .. n, NEW b \in 1 .. n, q[a] = q[b] PROVE a = b
    <3> DEFINE o(k) == IF k = i THEN j ELSE IF k = j THEN i ELSE k
    <3>1. q[a] = p[o(a)] /\ q[b] = p[o(b)] /\ o(a) \in 1 .. n /\ o(b) \in 1 .. n
      BY <2>2, <2>6
    <3>2. o(a) = o(b)
      <4> HIDE DEF o
      <4> QED
        BY <2>4, <2>9, <3>1
    <3> QED
      BY <2>2, <3>2
  <2>10. \A k \in 1 .. n : t[k] = data[q[k]]
    BY <2>2, <2>4, <2>6, <2>7
  <2>11. IsInjective(q)
    BY <2>5, <2>9 DEF IsInjective
  <2> QED
    BY <2>1, <2>5, <2>8, <2>10, <2>11 DEF Rearranged
<1> QED
  BY <1>1, <1>2

(* No element is lost or doubled by the sort, whatever the counts are.     *)
LEMMA SortingRearranges ==
  ASSUME NEW n \in Nat, NEW data, Indexed(data, n), NEW f, Sorting(data, n, f)
  PROVE  \A k \in 0 .. n * n : Rearranged(f[k], data, n)
<1> DEFINE Bad == {k \in 0 .. n * n : ~Rearranged(f[k], data, n)}
<1>1. n * n \in Nat
  OBVIOUS
<1>2. Bad = {}
  <2>1. SUFFICES ASSUME Bad # {} PROVE FALSE
    OBVIOUS
  <2>2. PICK k \in Bad : \A x \in Bad : k <= x
    <3>1. Bad \subseteq Nat
      BY <1>1
    <3> HIDE DEF Bad
    <3> QED
      BY <2>1, <3>1, LeastNumber
  <2>3. Rearranged(data, data, n)
    <3> DEFINE p == [i \in 1 .. n |-> i]
    <3>1. p \in [1 .. n -> 1 .. n] /\ IsInjective(p) /\ \A i \in 1 .. n : data[i] = data[p[i]]
      BY DEF IsInjective
    <3> QED
      BY <3>1 DEF Rearranged
  <2>4. k # 0
    BY <2>2, <2>3 DEF Sorting
  <2>5. k \in 1 .. n * n /\ k - 1 \in 0 .. n * n /\ k - 1 \notin Bad
    BY <1>1, <2>2, <2>4
  <2>6. n \in Nat \ {0} /\ k - 1 \in Nat
    BY <2>5
  <2>7. ((k - 1) \div n) \in Nat /\ ((k - 1) % n) \in 0 .. n - 1
    BY <2>6, DivModBounds
  <2>8. Rearranged(f[k - 1], data, n)
    BY <2>5
  <2>9. f[k] = Swapped(f[k - 1], ((k - 1) \div n) + 1, ((k - 1) % n) + 1)
    BY <2>5 DEF Sorting
  <2> DEFINE i == ((k - 1) \div n) + 1
             j == ((k - 1) % n) + 1
  <2>10. i \in Int /\ j \in Int /\ 1 <= i /\ j <= n
    BY <2>6, <2>7
  <2> HIDE DEF i, j
  <2>11. Rearranged(Swapped(f[k - 1], i, j), data, n)
    BY <2>8, <2>10, SwapRearranges
  <2> QED
    BY <2>2, <2>9, <2>11 DEF i, j
<1> QED
  BY <1>2

(* What the first comparisons have put in order: the places before i, for  *)
(* good, and place i among those it has been compared with.                *)
SortedTo(s, n, i, j) ==
  /\ \A a \in 1 .. n, b \in 1 .. n : a < b /\ a < i => s[a].count >= s[b].count
  /\ \A b \in 1 .. n : i < b /\ b <= j => s[i].count >= s[b].count

Counts(s, n) == \A a \in 1 .. n : s[a].count \in Int

LEMMA SwapSorts ==
  ASSUME NEW n \in Nat, NEW s, Indexed(s, n), Counts(s, n),
         NEW i \in 1 .. n, NEW j \in 2 .. n, SortedTo(s, n, i, j - 1)
  PROVE  SortedTo(Swapped(s, i, j), n, i, j)
<1> USE DEF SortedTo, Counts
<1> DEFINE t == Swapped(s, i, j)
<1>1. CASE ~(i < j)
  <2>1. t = s
    BY <1>1 DEF Swapped
  <2> HIDE DEF t
  <2> QED
    BY <1>1, <2>1 DEF t
<1>2. CASE i < j /\ ~(s[i].count < s[j].count)
  <2>1. t = s
    BY <1>2 DEF Swapped
  <2>2. \A b \in 1 .. n : b <= j => b <= j - 1 \/ b = j
    OBVIOUS
  <2>3. s[i].count >= s[j].count
    BY <1>2
  <2> HIDE DEF t
  <2> QED
    BY <2>1, <2>2, <2>3 DEF t
<1>3. CASE i < j /\ s[i].count < s[j].count
  <2>1. t = [s EXCEPT ![i] = s[j], ![j] = s[i]]
    BY <1>3 DEF Swapped
  <2>2. \A k \in 1 .. n : t[k] = IF k = i THEN s[j] ELSE IF k = j THEN s[i] ELSE s[k]
    BY <1>3, <2>1 DEF Indexed
  <2> HIDE DEF t
  <2>3. ASSUME NEW a \in 1 .. n, NEW b \in 1 .. n, a < b, a < i
        PROVE  t[a].count >= t[b].count
    <3>1. t[a] = s[a] /\ a < j
      BY <1>3, <2>2, <2>3
    <3>2. s[a].count >= s[i].count /\ s[a].count >= s[j].count /\ s[a].count >= s[b].count
      BY <1>3, <2>3, <3>1
    <3> QED
      BY <2>2, <3>1, <3>2
  <2>4. ASSUME NEW b \in 1 .. n, i < b, b <= j
        PROVE  t[i].count >= t[b].count
    <3>1. t[i] = s[j]
      BY <2>2
    <3>2. CASE b = j
      BY <1>3, <2>2, <2>4, <3>1, <3>2
    <3>3. CASE b # j
      <4>1. t[b] = s[b] /\ b <= j - 1
        BY <2>2, <2>4, <3>3
      <4>2. s[i].count >= s[b].count
        BY <2>4, <4>1
      <4> QED
        BY <1>3, <3>1, <4>1, <4>2
    <3> QED
      BY <3>2, <3>3
  <2> QED
    BY <2>3, <2>4 DEF t
<1> QED
  BY <1>1, <1>2, <1>3

(* SortByCount sorts: by falling count, and nothing is lost (helpers.go,   *)
(* 14-23).                                                                 *)
THEOREM SortByCountCorrect ==
  ASSUME NEW n \in Nat, NEW data, Len(data) = n, Indexed(data, n), Counts(data, n)
  PROVE  /\ Rearranged(SortByCount(data), data, n)
         /\ \A a \in 1 .. n, b \in 1 .. n :
              a < b => SortByCount(data)[a].count >= SortByCount(data)[b].count
<1>1. PICK f : Sorting(data, n, f)
  BY SortSteps
<1>2. n * n \in Nat
  OBVIOUS
<1>3. \A k \in 0 .. n * n : Rearranged(f[k], data, n)
  BY <1>1, SortingRearranges
<1>4. \A k \in 0 .. n * n : Indexed(f[k], n) /\ Counts(f[k], n)
  <2> SUFFICES ASSUME NEW k \in 0 .. n * n PROVE Indexed(f[k], n) /\ Counts(f[k], n)
    OBVIOUS
  <2>1. Rearranged(f[k], data, n)
    BY <1>3
  <2> QED
    BY <2>1 DEF Rearranged, Counts
<1> DEFINE Step(i, j) == n * (i - 1) + j
           Bad == {k \in 1 .. n * n : \E i, j \in 1 .. n : k = Step(i, j) /\ ~SortedTo(f[k], n, i, j)}
<1>5. ASSUME NEW i \in 1 .. n, NEW j \in 1 .. n, Step(i, j) \in 1 .. n * n
      PROVE  f[Step(i, j)] = Swapped(f[Step(i, j) - 1], i, j)
  <2> DEFINE k == Step(i, j)
             q == i - 1
             r == j - 1
  <2>1. n \in Nat \ {0} /\ q \in Nat /\ r \in Nat /\ r < n
    OBVIOUS
  <2>2. k - 1 = n * q + r
    BY <2>1
  <2>3. (k - 1) \div n = q /\ (k - 1) % n = r
    <3>1. n * q + r \in Int /\ k - 1 \in Int
      BY <2>1
    <3> DEFINE a == k - 1
    <3>2. a \in Int /\ a = n * q + r
      BY <2>2, <3>1
    <3> HIDE DEF k, q, r, a
    <3>3. a \div n = q /\ a % n = r
      BY <2>1, <3>2, DivMod
    <3> QED
      BY <3>3 DEF a
  <2> HIDE DEF k
  <2>4. f[k] = Swapped(f[k - 1], ((k - 1) \div n) + 1, ((k - 1) % n) + 1)
    BY <1>1, <1>5 DEF Sorting, k
  <2>5. (i - 1) + 1 = i /\ (j - 1) + 1 = j
    OBVIOUS
  <2> QED
    BY <2>3, <2>4, <2>5 DEF k
<1>6. Bad = {}
  <2>1. SUFFICES ASSUME Bad # {} PROVE FALSE
    OBVIOUS
  <2>2. PICK k \in Bad : \A x \in Bad : k <= x
    <3>1. Bad \subseteq Nat
      BY <1>2
    <3> HIDE DEF Bad
    <3> QED
      BY <2>1, <3>1, LeastNumber
  <2>3. PICK i \in 1 .. n, j \in 1 .. n : k = Step(i, j) /\ ~SortedTo(f[k], n, i, j)
    BY <2>2
  <2>4. k \in 1 .. n * n /\ n \in Nat \ {0} /\ f[k] = Swapped(f[k - 1], i, j)
    BY <1>5, <2>2, <2>3
  <2>5. \A x \in 1 .. n * n, a, b \in 1 .. n : x < k /\ x = Step(a, b) => SortedTo(f[x], n, a, b)
    <3>1. k \in Int /\ \A x \in 1 .. n * n : x < k => x \notin Bad
      BY <1>2, <2>2
    <3> QED
      BY <3>1
  <2>6. Indexed(f[k - 1], n) /\ Counts(f[k - 1], n)
    BY <1>2, <1>4, <2>4
  <2>7. CASE j # 1
    <3>1. j \in 2 .. n /\ j - 1 \in 1 .. n
      BY <2>7
    <3>2. n * (i - 1) \in Nat
      BY <2>4
    <3>3. k - 1 = Step(i, j - 1) /\ k - 1 \in 1 .. n * n /\ k - 1 < k
      BY <1>2, <2>3, <2>4, <3>1, <3>2
    <3>4. SortedTo(f[k - 1], n, i, j - 1)
      BY <2>5, <3>1, <3>3
    <3>5. SortedTo(Swapped(f[k - 1], i, j), n, i, j)
      BY <2>6, <3>1, <3>4, SwapSorts
    <3> QED
      BY <2>3, <2>4, <3>5
  <2>8. CASE j = 1
    <3>1. f[k] = f[k - 1]
      BY <2>4, <2>8 DEF Swapped
    <3>2. CASE i = 1
      BY <2>3, <2>8, <3>2 DEF SortedTo
    <3>3. CASE i # 1
      <4>1. i - 1 \in 1 .. n /\ n * (i - 1) = n * ((i - 1) - 1) + n
        BY <2>4, <3>3
      <4>2. k - 1 = Step(i - 1, n) /\ n * (i - 1) \in Nat \ {0}
        BY <2>3, <2>4, <2>8, <4>1
      <4>3. k - 1 \in 1 .. n * n /\ k - 1 < k /\ n \in 1 .. n
        BY <1>2, <2>3, <2>4, <2>8, <4>2
      <4>4. SortedTo(f[k - 1], n, i - 1, n)
        BY <2>5, <4>1, <4>2, <4>3
      <4>5. SortedTo(f[k], n, i, 1)
        <5> DEFINE s == f[k]
        <5>1. SortedTo(s, n, i - 1, n)
          BY <3>1, <4>4
        <5> HIDE DEF s
        <5>2. \A a \in 1 .. n, b \in 1 .. n : a < b /\ a < i => s[a].count >= s[b].count
          <6> SUFFICES ASSUME NEW a \in 1 .. n, NEW b \in 1 .. n, a < b, a < i
                       PROVE  s[a].count >= s[b].count
            OBVIOUS
          <6>1. CASE a < i - 1
            BY <5>1, <6>1 DEF SortedTo
          <6>2. CASE a = i - 1
            BY <5>1, <6>2 DEF SortedTo
          <6> QED
            BY <6>1, <6>2
        <5>3. \A b \in 1 .. n : ~(i < b /\ b <= 1)
          OBVIOUS
        <5> QED
          BY <5>2, <5>3 DEF SortedTo, s
      <4> QED
        BY <2>3, <2>8, <4>5
    <3> QED
      BY <3>2, <3>3
  <2> QED
    BY <2>7, <2>8
<1>7. CASE n = 0
  <2>1. Rearranged(SortByCount(data), data, n)
    BY <1>1, <1>2, <1>3 DEF Sorting
  <2> QED
    BY <1>7, <2>1
<1>8. CASE n # 0
  <2>1. n \in 1 .. n /\ n * n \in 1 .. n * n /\ n * n = Step(n, n)
    BY <1>8
  <2>2. SortedTo(f[n * n], n, n, n)
    BY <1>6, <2>1
  <2>3. SortByCount(data) = f[n * n]
    BY <1>1 DEF Sorting
  <2>4. Rearranged(SortByCount(data), data, n)
    BY <1>2, <1>3, <2>3
  <2> DEFINE s == SortByCount(data)
  <2>5. SortedTo(s, n, n, n)
    BY <2>2, <2>3
  <2> HIDE DEF s
  <2>6. \A a \in 1 .. n, b \in 1 .. n : a < b => s[a].count >= s[b].count
    BY <2>5 DEF SortedTo
  <2> QED
    BY <2>4, <2>6 DEF s
<1> QED
  BY <1>7, <1>8

LEMMA LenIndexed ==
  ASSUME NEW n \in Nat, NEW data, Indexed(data, n)
  PROVE  Len(data) = n
<1> DEFINE S == Range(data)
<1>1. data \in [1 .. n -> S] /\ DOMAIN data = 1 .. n
  BY DEF Indexed, Range
<1>2. data \in Seq(S)
  BY <1>1, SeqDef
<1> HIDE DEF S
<1>3. Len(data) \in Nat /\ 1 .. Len(data) = 1 .. n
  BY <1>1, <1>2, LenProperties
<1> QED
  BY <1>3

(* The groups of the hard forks, in any order and sorted, still account    *)
(* for every peer.                                                         *)
LEMMA HardforkTotal ==
  ASSUME NEW peers, IsFiniteSet(DOMAIN peers), NEW rows \in AggregateByHardforkSchedule(peers)
  PROVE  /\ rows = [k \in DOMAIN rows |-> rows[k]]
         /\ IsFiniteSet(DOMAIN rows)
         /\ Cardinality(DOMAIN rows) <= Cardinality(DOMAIN peers)
         /\ TotalCount(rows, DOMAIN rows) = Cardinality(DOMAIN peers)
<1> DEFINE ids == DOMAIN peers
           next == [id \in ids |-> peers[id].next]
           groups == GroupByHardforkSchedule(peers)
           G == DOMAIN groups
           N == Cardinality(G)
<1>1. G = Range(next) /\ DOMAIN next = ids
  BY DEF GroupByHardforkSchedule, Range
<1>2. \A g \in G : groups[g].count = Cardinality(InClass(ids, next, g))
  BY DEF GroupByHardforkSchedule, InClass
<1>3. \A id \in ids : next[id] \in G
  BY <1>1 DEF Range
<1>4. IsFiniteSet(G) /\ N <= Cardinality(ids) /\ N \in Nat
  <2>1. next = [id \in DOMAIN next |-> next[id]]
    OBVIOUS
  <2> HIDE DEF next, groups
  <2> QED
    BY <1>1, <2>1, RangeFinite, FS_CardinalityType
<1>5. PICK order \in [1 .. N -> G] :
        IsInjective(order) /\ rows = SortByCount([i \in DOMAIN order |-> groups[order[i]]])
  BY DEF AggregateByHardforkSchedule
<1> HIDE DEF next, groups, N
<1> DEFINE data == [i \in 1 .. N |-> groups[order[i]]]
<1>6. rows = SortByCount(data) /\ Indexed(data, N)
  BY <1>5 DEF Indexed
<1>7. Rearranged(rows, data, N)
  <2> HIDE DEF data
  <2>1. Len(data) = N
    BY <1>4, <1>6, LenIndexed
  <2>2. PICK f : Sorting(data, N, f)
    BY <1>4, <2>1, SortSteps
  <2>3. Rearranged(f[N * N], data, N)
    <3>1. N * N \in 0 .. N * N
      BY <1>4
    <3> QED
      BY <1>4, <1>6, <2>2, <3>1, SortingRearranges
  <2> QED
    BY <1>6, <2>2, <2>3 DEF Sorting
<1>8. PICK p \in [1 .. N -> 1 .. N] : IsInjective(p) /\ \A i \in 1 .. N : rows[i] = data[p[i]]
  BY <1>7 DEF Rearranged
<1>9. rows = [i \in 1 .. N |-> rows[i]]
  BY <1>7 DEF Rearranged, Indexed
<1>10. DOMAIN rows = 1 .. N
  BY <1>9
<1>11. IsFiniteSet(1 .. N) /\ Cardinality(1 .. N) = N
  BY <1>4, FS_Interval
<1> DEFINE place == [i \in 1 .. N |-> order[p[i]]]
<1>12. place \in Injection(1 .. N, G) /\ \A i \in 1 .. N : rows[i] = groups[place[i]]
  BY <1>5, <1>8 DEF Injection, IsInjective
<1> HIDE DEF place
<1>13. place \in Surjection(1 .. N, G)
  BY <1>4, <1>11, <1>12, FS_Injection DEF N
<1> DEFINE class == [id \in ids |-> CHOOSE i \in 1 .. N : place[i] = next[id]]
<1>14. ASSUME NEW id \in ids PROVE class[id] \in 1 .. N /\ place[class[id]] = next[id]
  <2>1. \E i \in 1 .. N : place[i] = next[id]
    BY <1>3, <1>13 DEF Surjection
  <2> QED
    BY <2>1
<1>15. \A i, j \in 1 .. N : place[i] = place[j] => i = j
  BY <1>12 DEF Injection, IsInjective
<1>16. ASSUME NEW i \in 1 .. N PROVE rows[i].count = Cardinality(InClass(ids, class, i))
  <2>1. place[i] \in G
    BY <1>12 DEF Injection
  <2>2. InClass(ids, next, place[i]) = InClass(ids, class, i)
    <3> HIDE DEF class
    <3> QED
      BY <1>14, <1>15 DEF InClass
  <2> QED
    BY <1>2, <1>12, <2>1, <2>2
<1> HIDE DEF class
<1>17. TotalCount(rows, 1 .. N) = Cardinality(ids)
  BY <1>11, <1>14, <1>16, TotalOfClasses
<1> QED
  BY <1>4, <1>9, <1>10, <1>11, <1>17

LEMMA TotalSame ==
  ASSUME NEW a, NEW b, NEW R, \A k \in R : a[k].count = b[k].count
  PROVE  TotalCount(a, R) = TotalCount(b, R)
<1>1. ASSUME NEW G PROVE FoldEquation(a, R, G) <=> FoldEquation(b, R, G)
  <2>1. \A s \in SUBSET R : s # {} => a[CHOOSE x \in s : TRUE].count = b[CHOOSE x \in s : TRUE].count
    OBVIOUS
  <2> QED
    BY <2>1 DEF FoldEquation
<1>2. (CHOOSE G : FoldEquation(a, R, G)) = (CHOOSE G : FoldEquation(b, R, G))
  BY <1>1, Zenon
<1>3. /\ TotalCount(a, R) = (CHOOSE G : FoldEquation(a, R, G))[R]
      /\ TotalCount(b, R) = (CHOOSE G : FoldEquation(b, R, G))[R]
  BY Zenon DEF TotalCount, MapThenSumSet, MapThenFoldSet, FoldEquation
<1> QED
  BY <1>2, <1>3

(* One row for each peer that is found.                                    *)
LEMMA ViewAllRows ==
  ASSUME NEW docs, IsFiniteSet(docs), \A d \in docs : \A e \in docs : d.id = e.id => d = e
  PROVE  LET rows == [id \in {d.id : d \in docs} |-> CHOOSE d \in docs : d.id = id] IN
         /\ IsFiniteSet(DOMAIN rows)
         /\ Cardinality(DOMAIN rows) = Cardinality(docs)
         /\ \A id \in DOMAIN rows : rows[id] \in docs
<1> DEFINE rows == [id \in {d.id : d \in docs} |-> CHOOSE d \in docs : d.id = id]
           ids == [d \in docs |-> d.id]
           R == {d.id : d \in docs}
<1>1. ids \in Injection(docs, R) /\ ids \in Surjection(docs, R)
  BY DEF Injection, Surjection, IsInjective
<1>2. IsFiniteSet(R) /\ Cardinality(R) = Cardinality(docs)
  <2> HIDE DEF ids, R
  <2> QED
    BY <1>1, FS_Surjection
<1>3. DOMAIN rows = R
  OBVIOUS
<1>4. \A id \in R : rows[id] \in docs
  OBVIOUS
<1> QED
  BY <1>2, <1>3, <1>4
=============================================================================
