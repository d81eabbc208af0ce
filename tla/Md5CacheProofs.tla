--------------------------- MODULE Md5CacheProofs ---------------------------
(***************************************************************************)
(* Proofs about Md5Cache, for every set of keys and values and every limit *)
(* of the list and of the parser: the list in memory keeps its order and   *)
(* its limit, a crash at any point of a save loses nothing that was saved, *)
(* and a damaged file costs at most one save, or, when the copy of the     *)
(* backup was cut off, the entries of the last save used longest ago.      *)
(***************************************************************************)
EXTENDS Md5Cache, FiniteSetTheorems, TLAPS

Entry == [val : Values, touched : Nat]

\* A list: no two entries were touched at the same time.
List(e) ==
  /\ DOMAIN e \subseteq Keys /\ e \in [DOMAIN e -> Entry]
  /\ \A j, k \in DOMAIN e : e[j].touched = e[k].touched => j = k

-----------------------------------------------------------------------------
(***************************************************************************)
(* normalize_entries                                                       *)
(***************************************************************************)
\* The entries newer than one of a list are some of the others.
LEMMA NewerSome ==
  ASSUME NEW e, List(e), NEW k \in DOMAIN e
  PROVE  /\ IsFiniteSet(DOMAIN e) /\ Cardinality(DOMAIN e) \in Nat
         /\ Newer(e, k) \subseteq DOMAIN e /\ k \notin Newer(e, k)
         /\ IsFiniteSet(Newer(e, k)) /\ Cardinality(Newer(e, k)) \in 0 .. Cardinality(DOMAIN e) - 1
<1>1. IsFiniteSet(DOMAIN e) /\ Cardinality(DOMAIN e) \in Nat
  BY KeysAssumption, FS_Subset, FS_CardinalityType DEF List
<1>2. Newer(e, k) \subseteq DOMAIN e /\ k \notin Newer(e, k)
  BY DEF Newer, List, Entry
<1>3. IsFiniteSet(Newer(e, k)) /\ Cardinality(Newer(e, k)) \in Nat
  BY <1>1, <1>2, FS_Subset, FS_CardinalityType
<1>4. Cardinality(Newer(e, k)) <= Cardinality(DOMAIN e) /\ Cardinality(Newer(e, k)) # Cardinality(DOMAIN e)
  BY <1>1, <1>2, FS_Subset
<1>5. QED
  BY <1>1, <1>2, <1>3, <1>4

\* The more entries are newer, the earlier was an entry touched.
LEMMA NewerOrders ==
  ASSUME NEW e, List(e), NEW j \in DOMAIN e, NEW k \in DOMAIN e
  PROVE  e[j].touched < e[k].touched <=> Cardinality(Newer(e, k)) < Cardinality(Newer(e, j))
<1>1. e[j].touched \in Nat /\ e[k].touched \in Nat /\ \A i \in DOMAIN e : e[i].touched \in Nat
  BY DEF List, Entry
<1>2. ASSUME NEW a \in DOMAIN e, NEW b \in DOMAIN e, e[a].touched < e[b].touched
      PROVE  Cardinality(Newer(e, b)) < Cardinality(Newer(e, a))
  <2>1. Newer(e, b) \subseteq Newer(e, a) /\ b \in Newer(e, a) /\ b \notin Newer(e, b)
    BY <1>1, <1>2 DEF Newer
  <2>2. IsFiniteSet(Newer(e, a)) /\ Cardinality(Newer(e, a)) \in Nat /\ Cardinality(Newer(e, b)) \in Nat
    BY NewerSome
  <2>3. Cardinality(Newer(e, b)) <= Cardinality(Newer(e, a))
    BY <2>1, <2>2, FS_Subset
  <2>4. Cardinality(Newer(e, b)) # Cardinality(Newer(e, a))
    BY <2>1, <2>2, FS_Subset
  <2>5. QED
    BY <2>2, <2>3, <2>4
<1>3. Cardinality(Newer(e, j)) \in Nat /\ Cardinality(Newer(e, k)) \in Nat
  BY NewerSome
<1>4. CASE e[j].touched < e[k].touched
  BY <1>2, <1>4
<1>5. CASE e[k].touched < e[j].touched
  <2>1. Cardinality(Newer(e, j)) < Cardinality(Newer(e, k))
    BY <1>2, <1>5
  <2>2. QED
    BY <1>1, <1>3, <1>5, <2>1
<1>6. CASE e[j].touched = e[k].touched
  <2>1. j = k
    BY <1>6 DEF List
  <2>2. QED
    BY <1>1, <1>3, <2>1
<1>7. QED
  BY <1>1, <1>4, <1>5, <1>6

\* What is cut was touched before everything that is kept.
LEMMA TopIsLatest ==
  ASSUME NEW e, List(e), NEW n \in Nat, NEW j \in Top(e, n), NEW k \in DOMAIN e
  PROVE  /\ k \notin Top(e, n) => e[k].touched < e[j].touched
         /\ k \in Newer(e, j) => k \in Top(e, n)
<1>1. /\ j \in DOMAIN e /\ Cardinality(Newer(e, j)) < n
      /\ k \in Top(e, n) <=> Cardinality(Newer(e, k)) < n
  BY DEF Top
<1>2. Cardinality(Newer(e, j)) \in Nat /\ Cardinality(Newer(e, k)) \in Nat
  BY <1>1, NewerSome
<1>3. k \notin Top(e, n) => e[k].touched < e[j].touched
  BY <1>1, <1>2, NewerOrders
<1>4. ASSUME k \in Newer(e, j) PROVE k \in Top(e, n)
  <2>1. e[j].touched < e[k].touched
    BY <1>1, <1>4 DEF Newer, List, Entry
  <2>2. QED
    BY <1>1, <1>2, <2>1, NewerOrders
<1>5. QED
  BY <1>3, <1>4

\* At most n entries are kept.
LEMMA TopSize ==
  ASSUME NEW e, List(e), NEW n \in Nat
  PROVE  IsFiniteSet(Top(e, n)) /\ Cardinality(Top(e, n)) \in Nat /\ Cardinality(Top(e, n)) <= n
<1> DEFINE rank == [k \in Top(e, n) |-> Cardinality(Newer(e, k))]
<1>1. ASSUME NEW k \in Top(e, n) PROVE k \in DOMAIN e /\ rank[k] \in 0 .. n - 1
  <2>1. k \in DOMAIN e /\ Cardinality(Newer(e, k)) < n
    BY DEF Top
  <2>2. Cardinality(Newer(e, k)) \in Nat
    BY <2>1, NewerSome
  <2>3. QED
    BY <2>1, <2>2
<1>2. ASSUME NEW j \in Top(e, n), NEW k \in Top(e, n), rank[j] = rank[k] PROVE j = k
  <2>1. j \in DOMAIN e /\ k \in DOMAIN e /\ rank[j] \in Nat /\ rank[k] \in Nat
    BY <1>1
  <2>2. Cardinality(Newer(e, j)) = Cardinality(Newer(e, k)) /\ Cardinality(Newer(e, k)) \in Nat
    BY <1>2, <2>1, NewerSome
  <2>3. ~(e[j].touched < e[k].touched) /\ ~(e[k].touched < e[j].touched)
    BY <2>1, <2>2, NewerOrders
  <2>4. e[j].touched \in Nat /\ e[k].touched \in Nat
    BY <2>1 DEF List, Entry
  <2>5. e[j].touched = e[k].touched
    BY <2>3, <2>4
  <2>6. QED
    BY <2>1, <2>5 DEF List
<1>3. rank \in Injection(Top(e, n), 0 .. n - 1)
  BY <1>1, <1>2 DEF Injection, IsInjective
<1>4. IsFiniteSet(0 .. n - 1) /\ Cardinality(0 .. n - 1) = n
  <2>1. IsFiniteSet(0 .. n - 1) /\ Cardinality(0 .. n - 1) = IF 0 > n - 1 THEN 0 ELSE (n - 1) - 0 + 1
    BY FS_Interval, 0 \in Int, n - 1 \in Int
  <2>2. QED
    BY <2>1
<1>5. QED
  BY <1>3, <1>4, FS_Injection, FS_CardinalityType

\* A list of at most n entries is kept as a whole.
LEMMA TopAll ==
  ASSUME NEW e, List(e), NEW n \in Nat, Cardinality(DOMAIN e) <= n
  PROVE  Top(e, n) = DOMAIN e
<1>1. ASSUME NEW k \in DOMAIN e PROVE Cardinality(Newer(e, k)) < n
  BY NewerSome
<1>2. QED
  BY <1>1 DEF Top

\* A part of a list is a list.
LEMMA KeepList ==
  ASSUME NEW e, List(e), NEW S \in SUBSET DOMAIN e
  PROVE  /\ List(Keep(e, S)) /\ DOMAIN Keep(e, S) = S
         /\ \A k \in S : Keep(e, S)[k] = e[k]
BY DEF Keep, List

\* Seen from an entry that is kept, nothing newer is cut.
LEMMA TopNewer ==
  ASSUME NEW e, List(e), NEW n \in Nat, NEW k \in Top(e, n)
  PROVE  Newer(Keep(e, Top(e, n)), k) = Newer(e, k)
<1>1. Top(e, n) \in SUBSET DOMAIN e
  BY DEF Top
<1>2. \A j \in Newer(e, k) : j \in Top(e, n)
  BY TopIsLatest DEF Newer
<1>3. QED
  BY <1>1, <1>2, KeepList DEF Newer

\* The list that normalize_entries leaves: the entries kept, numbered in their order.
LEMMA Normalized ==
  ASSUME NEW e, List(e), NEW n \in Nat
  PROVE  LET m == Normalize(e, n)
         IN /\ List(m) /\ DOMAIN m = Top(e, n) /\ Top(e, n) \subseteq DOMAIN e
            /\ \A k \in Top(e, n) :
                 /\ m[k].val = e[k].val
                 /\ m[k].touched = Cardinality(Top(e, n)) - Cardinality(Newer(e, k))
            /\ \A j, k \in Top(e, n) : m[j].touched < m[k].touched <=> e[j].touched < e[k].touched
<1> DEFINE m == Normalize(e, n)
           T == Top(e, n)
           c == Cardinality(T)
<1>1. T \in SUBSET DOMAIN e /\ c \in Nat
  BY TopSize DEF Top
<1>2. List(Keep(e, T)) /\ DOMAIN Keep(e, T) = T /\ \A k \in T : Keep(e, T)[k] = e[k]
  BY <1>1, KeepList
<1>3. \A k \in T : Newer(Keep(e, T), k) = Newer(e, k)
  BY TopNewer
<1>4. m = [k \in T |-> [e[k] EXCEPT !.touched = c - Cardinality(Newer(e, k))]]
  BY <1>2, <1>3 DEF Normalize
<1>5. ASSUME NEW k \in T
      PROVE  Cardinality(Newer(e, k)) \in Nat /\ c - Cardinality(Newer(e, k)) \in Nat
  <2>1. Cardinality(Newer(Keep(e, T), k)) \in 0 .. Cardinality(DOMAIN Keep(e, T)) - 1
    BY <1>2, NewerSome
  <2>2. QED
    BY <1>1, <1>2, <1>3, <2>1
<1>6. ASSUME NEW k \in T
      PROVE  /\ m[k] \in Entry /\ m[k].val = e[k].val
             /\ m[k].touched = c - Cardinality(Newer(e, k))
  <2>1. e[k] \in Entry
    BY <1>1 DEF List
  <2>2. QED
    BY <1>4, <1>5, <2>1 DEF Entry
<1>7. ASSUME NEW j \in T, NEW k \in T
      PROVE  m[j].touched < m[k].touched <=> e[j].touched < e[k].touched
  <2>1. e[j].touched < e[k].touched <=> Cardinality(Newer(e, k)) < Cardinality(Newer(e, j))
    BY <1>1, NewerOrders
  <2>2. Cardinality(Newer(e, j)) \in Nat /\ Cardinality(Newer(e, k)) \in Nat
    BY <1>5
  <2>3. QED
    BY <1>1, <1>6, <2>1, <2>2
<1>8. List(m)
  <2>1. DOMAIN m = T /\ m \in [T -> Entry] /\ T \subseteq Keys
    BY <1>1, <1>4, <1>6 DEF List
  <2>2. ASSUME NEW j \in T, NEW k \in T, m[j].touched = m[k].touched PROVE j = k
    <3>1. m[j].touched \in Nat /\ m[k].touched \in Nat
      BY <1>6 DEF Entry
    <3>2. ~(e[j].touched < e[k].touched) /\ ~(e[k].touched < e[j].touched)
      BY <1>7, <2>2, <3>1
    <3>3. e[j].touched \in Nat /\ e[k].touched \in Nat /\ j \in DOMAIN e /\ k \in DOMAIN e
      BY <1>1 DEF List, Entry
    <3>4. e[j].touched = e[k].touched
      BY <3>2, <3>3
    <3>5. QED
      BY <3>3, <3>4 DEF List
  <2>3. QED
    BY <2>1, <2>2 DEF List
<1>9. QED
  BY <1>1, <1>4, <1>6, <1>7, <1>8

\* A list that was normalised stays what it is when it is normalised again.
LEMMA NormalizeAgain ==
  ASSUME NEW e, List(e), NEW n \in Nat
  PROVE  Normalize(Normalize(e, n), n) = Normalize(e, n)
<1> DEFINE m == Normalize(e, n)
           T == Top(e, n)
<1>1. /\ List(m) /\ DOMAIN m = T /\ T \subseteq DOMAIN e
      /\ \A k \in T : m[k].touched = Cardinality(T) - Cardinality(Newer(e, k))
      /\ \A j, k \in T : m[j].touched < m[k].touched <=> e[j].touched < e[k].touched
  BY Normalized
<1> HIDE DEF m
<1>2. ASSUME NEW k \in T PROVE Newer(m, k) = Newer(e, k)
  <2>1. \A j \in Newer(e, k) : j \in T
    BY TopIsLatest DEF Newer
  <2>2. \A j \in T : m[j].touched > m[k].touched <=> e[j].touched > e[k].touched
    <3>1. \A j \in T : m[j].touched \in Nat /\ e[j].touched \in Nat
      BY <1>1 DEF List, Entry
    <3>2. QED
      BY <1>1, <3>1
  <2>3. QED
    BY <1>1, <2>1, <2>2 DEF Newer
<1>3. Top(m, n) = T
  BY <1>1, <1>2 DEF Top
<1>4. Keep(m, T) = m
  BY <1>1 DEF Keep, List
<1>5. Normalize(m, n) = [k \in T |-> [m[k] EXCEPT !.touched = m[k].touched]]
  BY <1>1, <1>2, <1>3, <1>4 DEF Normalize
<1>6. \A k \in T : [m[k] EXCEPT !.touched = m[k].touched] = m[k]
  BY <1>1 DEF List, Entry
<1>7. m = [k \in T |-> m[k]]
  BY <1>1 DEF List
<1>8. Normalize(m, n) = m
  BY <1>5, <1>6, <1>7
<1>9. QED
  BY <1>8 DEF m

\* next_touch is above everything that was touched.
LEMMA NextTouchAbove ==
  ASSUME NEW e, List(e)
  PROVE  NextTouch(e) \in Nat /\ \A k \in DOMAIN e : e[k].touched < NextTouch(e)
<1> DEFINE times == {0} \cup {e[k].touched : k \in DOMAIN e}
<1>1. \A k \in DOMAIN e : e[k].touched \in Nat
  BY DEF List, Entry
<1>2. \E x \in times : \A y \in times : x >= y
  <2>1. CASE DOMAIN e = {}
    BY <2>1
  <2>2. CASE DOMAIN e # {}
    <3> DEFINE D == DOMAIN e
               R == StrictSubsetOrdering(D)
               N == {Newer(e, k) : k \in D}
    <3>1. IsWellFoundedOn(R, FiniteSubsetsOf(D))
      BY FS_StrictSubsetOrderingWellFounded
    <3>2. N \subseteq FiniteSubsetsOf(D) /\ N # {}
      BY <2>2, NewerSome DEF FiniteSubsetsOf
    <3>3. PICK X \in N : \A Y \in N : ~(<<Y, X>> \in R)
      <4> HIDE DEF R, N, D
      <4> QED BY <3>1, <3>2, WFMin
    <3>4. PICK k \in D : X = Newer(e, k)
      OBVIOUS
    <3>5. ASSUME NEW j \in D, e[k].touched < e[j].touched PROVE FALSE
      <4>1. Newer(e, j) \subseteq Newer(e, k) /\ j \in Newer(e, k) /\ j \notin Newer(e, j)
        BY <1>1, <3>5 DEF Newer
      <4>2. Newer(e, k) \subseteq D /\ Newer(e, j) \in N
        BY DEF Newer
      <4>3. <<Newer(e, j), X>> \in R
        BY <3>4, <4>1, <4>2 DEF StrictSubsetOrdering
      <4>4. QED
        BY <3>3, <4>2, <4>3
    <3>6. \A y \in times : e[k].touched >= y
      BY <1>1, <3>5
    <3>7. QED
      BY <3>6
  <2>3. QED
    BY <2>1, <2>2
<1>3. Max(times) \in times /\ \A y \in times : Max(times) >= y
  BY <1>2 DEF Max
<1>4. Max(times) \in Nat /\ \A k \in DOMAIN e : e[k].touched <= Max(times)
  BY <1>1, <1>3
<1>5. NextTouch(e) = Max(times) + 1
  BY DEF NextTouch
<1> HIDE DEF times
<1>6. QED
  BY <1>1, <1>4, <1>5
-----------------------------------------------------------------------------
(***************************************************************************)
(* The order of the list and that of the uses.                             *)
(***************************************************************************)
\* RecencyKept of any list and any order.
Agrees(e, o) ==
  /\ DOMAIN e \subseteq DOMAIN o
  /\ \A j, k \in DOMAIN e : e[j].touched < e[k].touched <=> o[j] < o[k]
  /\ \A j \in DOMAIN e, k \in DOMAIN o \ DOMAIN e : o[k] < o[j]

Order(o) == DOMAIN o \subseteq Keys /\ o \in [DOMAIN o -> Nat]

\* Cutting and numbering again keeps the order.
LEMMA NormalizeAgrees ==
  ASSUME NEW e, List(e), NEW o, Order(o), Agrees(e, o), NEW n \in Nat
  PROVE  Agrees(Normalize(e, n), o)
<1> DEFINE m == Normalize(e, n)
<1>1. /\ DOMAIN m = Top(e, n) /\ Top(e, n) \subseteq DOMAIN e
      /\ \A j, k \in Top(e, n) : m[j].touched < m[k].touched <=> e[j].touched < e[k].touched
  BY Normalized
<1> HIDE DEF m
<1>2. ASSUME NEW j \in DOMAIN m, NEW k \in DOMAIN o \ DOMAIN m PROVE o[k] < o[j]
  <2>1. CASE k \in DOMAIN e
    <3>1. e[k].touched < e[j].touched
      BY <1>1, <2>1, TopIsLatest
    <3>2. QED
      BY <1>1, <2>1, <3>1 DEF Agrees
  <2>2. CASE k \notin DOMAIN e
    BY <1>1, <2>2 DEF Agrees
  <2>3. QED
    BY <2>1, <2>2
<1>3. Agrees(m, o)
  BY <1>1, <1>2 DEF Agrees
<1>4. QED
  BY <1>3 DEF m

\* Ranking some keys anew keeps their order.
Rank(o, S, j) == Cardinality({i \in S : o[i] <= o[j]})
LEMMA RankOrders ==
  ASSUME NEW o, Order(o), NEW S \in SUBSET DOMAIN o
  PROVE  /\ IsFiniteSet(S) /\ Cardinality(S) \in Nat
         /\ \A j \in S : Rank(o, S, j) \in 0 .. Cardinality(S)
         /\ \A j, k \in S : Rank(o, S, j) < Rank(o, S, k) <=> o[j] < o[k]
<1>1. IsFiniteSet(S) /\ Cardinality(S) \in Nat /\ \A j \in S : o[j] \in Nat
  BY KeysAssumption, FS_Subset, FS_CardinalityType DEF Order
<1> DEFINE U(j) == {i \in S : o[i] <= o[j]}
<1>2. ASSUME NEW j \in S
      PROVE  IsFiniteSet(U(j)) /\ Cardinality(U(j)) \in Nat /\ Cardinality(U(j)) <= Cardinality(S)
  <2>1. U(j) \in SUBSET S
    OBVIOUS
  <2>2. QED
    BY <1>1, <2>1, FS_Subset, FS_CardinalityType
<1>3. ASSUME NEW j \in S, NEW k \in S, o[j] < o[k] PROVE Cardinality(U(j)) < Cardinality(U(k))
  <2>1. U(j) \in SUBSET U(k) /\ k \in U(k) /\ k \notin U(j)
    BY <1>1, <1>3
  <2>2. Cardinality(U(j)) <= Cardinality(U(k)) /\ Cardinality(U(j)) # Cardinality(U(k))
    BY <1>2, <2>1, FS_Subset
  <2>3. QED
    BY <1>2, <2>2
<1>4. ASSUME NEW j \in S, NEW k \in S, o[j] = o[k] PROVE U(j) = U(k)
  BY <1>4
<1>5. \A j \in S : Rank(o, S, j) = Cardinality(U(j))
  BY DEF Rank
<1>6. ASSUME NEW j \in S, NEW k \in S
      PROVE  Rank(o, S, j) < Rank(o, S, k) <=> o[j] < o[k]
  <2>1. CASE o[j] < o[k]
    BY <1>3, <1>5, <2>1
  <2>0. Rank(o, S, j) \in Nat /\ Rank(o, S, k) \in Nat /\ o[j] \in Nat /\ o[k] \in Nat
    BY <1>1, <1>2, <1>5
  <2>2. CASE o[k] < o[j]
    <3>1. Rank(o, S, k) < Rank(o, S, j)
      BY <1>3, <1>5, <2>2
    <3>2. QED
      BY <2>0, <2>2, <3>1
  <2>3. CASE o[j] = o[k]
    <3>1. Rank(o, S, j) = Rank(o, S, k)
      BY <1>4, <1>5, <2>3
    <3>2. QED
      BY <2>0, <2>3, <3>1
  <2>4. QED
    BY <1>1, <2>1, <2>2, <2>3
<1> HIDE DEF U
<1>7. \A j \in S : Rank(o, S, j) \in 0 .. Cardinality(S)
  BY <1>1, <1>2, <1>5
<1>8. QED
  BY <1>1, <1>6, <1>7

\* A use of k, known or not, makes it the latest in the list and in the order.
LEMMA UseAgrees ==
  ASSUME List(mem), Order(order), Agrees(mem, order), NEW k \in Keys,
         NEW e, List(e), DOMAIN e = DOMAIN mem \cup {k},
         \A j \in DOMAIN mem \ {k} : e[j].touched = mem[j].touched /\ e[j].touched < e[k].touched
  PROVE  Order(Used(k)) /\ Agrees(e, Used(k))
<1> DEFINE others == DOMAIN order \ {k}
           o == Used(k)
<1>1. /\ DOMAIN o = others \cup {k} /\ o[k] = Cardinality(others) + 1
      /\ \A j \in others : o[j] = Rank(order, others, j)
  BY DEF Used, Rank
<1>2. /\ IsFiniteSet(others) /\ Cardinality(others) \in Nat
      /\ \A j \in others : Rank(order, others, j) \in 0 .. Cardinality(others)
      /\ \A i, j \in others : Rank(order, others, i) < Rank(order, others, j) <=> order[i] < order[j]
  BY RankOrders
<1> HIDE DEF o
<1>3. Order(o)
  <2>1. ASSUME NEW j \in DOMAIN o PROVE o[j] \in Nat
    <3>1. CASE j = k
      BY <1>1, <1>2, <3>1
    <3>2. CASE j # k
      <4>1. j \in others /\ o[j] = Rank(order, others, j)
        BY <1>1, <3>2
      <4>2. QED
        BY <1>2, <4>1
    <3>3. QED
      BY <3>1, <3>2
  <2>2. o \in [DOMAIN o -> Nat]
    <3>1. o = [j \in others \cup {k} |-> o[j]]
      BY DEF o, Used
    <3>2. \A j \in others \cup {k} : o[j] \in Nat
      BY <1>1, <2>1
    <3> HIDE DEF others
    <3>3. o \in [others \cup {k} -> Nat]
      BY <3>1, <3>2
    <3>4. QED
      BY <1>1, <3>3
  <2>3. DOMAIN o \subseteq Keys
    BY <1>1 DEF Order
  <2>4. QED
    BY <2>2, <2>3 DEF Order
<1>4. ASSUME NEW j \in others PROVE o[j] < o[k]
  <2>1. o[j] \in 0 .. Cardinality(others) /\ o[k] = Cardinality(others) + 1
    BY <1>1, <1>2
  <2>2. QED
    BY <1>2, <2>1
<1>5. \A i, j \in others : o[i] < o[j] <=> order[i] < order[j]
  BY <1>1, <1>2
<1>6. \A j \in DOMAIN e : j = k \/ (j \in others /\ j \in DOMAIN mem /\ e[j].touched = mem[j].touched)
  BY DEF Agrees
<1>7. DOMAIN e \subseteq DOMAIN o
  BY <1>1, <1>6
<1>8. ASSUME NEW i \in DOMAIN e, NEW j \in DOMAIN e
      PROVE  e[i].touched < e[j].touched <=> o[i] < o[j]
  <2>0. e[i].touched \in Nat /\ e[j].touched \in Nat /\ e[k].touched \in Nat
    BY DEF List, Entry
  <2>1. CASE i # k /\ j # k
    BY <1>5, <1>6, <2>1 DEF Agrees
  <2>2. CASE i # k /\ j = k
    BY <1>4, <1>6, <2>2
  <2>3. CASE i = k /\ j # k
    <3>1. e[j].touched < e[i].touched /\ o[j] < o[i]
      BY <1>4, <1>6, <2>3
    <3>2. o[i] \in Nat /\ o[j] \in Nat
      BY <1>3, <1>7 DEF Order
    <3>3. QED
      BY <2>0, <3>1, <3>2
  <2>4. CASE i = k /\ j = k
    BY <1>3, <1>7, <2>0, <2>4 DEF Order
  <2>5. QED
    BY <2>1, <2>2, <2>3, <2>4
<1>9. ASSUME NEW j \in DOMAIN e, NEW i \in DOMAIN o \ DOMAIN e PROVE o[i] < o[j]
  <2>1. i \in others /\ i \notin DOMAIN mem /\ i \in DOMAIN order
    BY <1>1
  <2>2. CASE j = k
    BY <1>4, <2>1, <2>2
  <2>3. CASE j # k
    <3>1. order[i] < order[j]
      BY <1>6, <2>1, <2>3 DEF Agrees
    <3>2. QED
      BY <1>5, <1>6, <2>1, <2>3, <3>1
  <2>4. QED
    BY <2>2, <2>3
<1>10. Agrees(e, o)
  BY <1>7, <1>8, <1>9 DEF Agrees
<1>11. QED
  BY <1>3, <1>10 DEF o

\* Forgetting k takes it out of both.
LEMMA ForgetAgrees ==
  ASSUME List(mem), Order(order), Agrees(mem, order), NEW k, NEW o,
         o = [j \in DOMAIN order \ {k} |-> Rank(order, DOMAIN order \ {k}, j)]
  PROVE  Order(o) /\ Agrees(Keep(mem, DOMAIN mem \ {k}), o)
<1> DEFINE known == DOMAIN order \ {k}
           e == Keep(mem, DOMAIN mem \ {k})
<1>1. DOMAIN o = known /\ \A j \in known : o[j] = Rank(order, known, j)
  OBVIOUS
<1>2. /\ Cardinality(known) \in Nat
      /\ \A j \in known : Rank(order, known, j) \in 0 .. Cardinality(known)
      /\ \A i, j \in known : Rank(order, known, i) < Rank(order, known, j) <=> order[i] < order[j]
  BY RankOrders
<1>3. DOMAIN e = DOMAIN mem \ {k} /\ \A j \in DOMAIN e : e[j] = mem[j]
  BY KeepList
<1> HIDE DEF e
<1>4. Order(o)
  <2>1. o \in [known -> Nat]
    BY <1>2
  <2>2. QED
    BY <1>1, <2>1 DEF Order
<1>5. \A i, j \in known : o[i] < o[j] <=> order[i] < order[j]
  BY <1>1, <1>2
<1>6. DOMAIN e \subseteq known
  BY <1>3 DEF Agrees
<1>7. ASSUME NEW i \in DOMAIN e, NEW j \in DOMAIN e PROVE e[i].touched < e[j].touched <=> o[i] < o[j]
  BY <1>3, <1>5, <1>6 DEF Agrees
<1>8. ASSUME NEW j \in DOMAIN e, NEW i \in DOMAIN o \ DOMAIN e PROVE o[i] < o[j]
  <2>1. i \in known /\ j \in known /\ i \in DOMAIN order \ DOMAIN mem /\ j \in DOMAIN mem
    BY <1>1, <1>3, <1>6
  <2>2. QED
    BY <1>5, <2>1 DEF Agrees
<1>9. Agrees(e, o)
  BY <1>1, <1>6, <1>7, <1>8 DEF Agrees
<1>10. QED
  BY <1>4, <1>9 DEF e
-----------------------------------------------------------------------------
(***************************************************************************)
(* The list in memory.                                                     *)
(***************************************************************************)
Lists ==
  /\ List(mem) /\ Cardinality(DOMAIN mem) <= MaxEntries
  /\ List(saving) /\ List(primary.rows) /\ List(backup.rows) /\ List(tmp.rows)
Ordered == Order(order) /\ Agrees(mem, order)

ListInv == Lists /\ Ordered

LEMMA EmptyList ==
  /\ List(NoRows) /\ DOMAIN NoRows = {} /\ Cardinality(DOMAIN NoRows) = 0
  /\ Order(NoRows) /\ Agrees(NoRows, NoRows)
<1>1. DOMAIN NoRows = {} /\ NoRows \in [{} -> Entry] /\ NoRows \in [{} -> Nat]
  BY DEF NoRows
<1>2. QED
  BY <1>1, FS_EmptySet DEF List, Order, Agrees

\* The rows of a file that is not there or broken.
LEMMA FileRows ==
  /\ Missing.rows = NoRows /\ Bad.rows = NoRows /\ Empty.rows = NoRows
  /\ \A m : Complete(m).rows = m
BY DEF Missing, Bad, Empty, Complete, FileRec

\* A load gives a list that keeps to the limit.
LEMMA LoadList ==
  ASSUME Lists
  PROVE  List(Load) /\ Cardinality(DOMAIN Load) <= MaxEntries
<1> MaxEntries \in Nat /\ MaxLines - 1 \in Nat
  BY LimitsAssumption
<1>1. ASSUME NEW f, List(f.rows)
      PROVE  List(Parse(f).rows) /\ Cardinality(DOMAIN Parse(f).rows) <= MaxEntries
  <2> DEFINE r == Keep(f.rows, Top(f.rows, MaxLines - 1))
  <2>1. List(r)
    <3>1. Top(f.rows, MaxLines - 1) \in SUBSET DOMAIN f.rows
      BY DEF Top
    <3>2. QED
      BY <1>1, <3>1, KeepList
  <2>2. Parse(f).rows = Normalize(r, MaxEntries)
    BY DEF Parse
  <2> HIDE DEF r
  <2>3. List(Normalize(r, MaxEntries)) /\ DOMAIN Normalize(r, MaxEntries) = Top(r, MaxEntries)
    BY <2>1, Normalized
  <2>4. QED
    BY <2>1, <2>2, <2>3, TopSize
<1>2. QED
  BY <1>1, EmptyList, LimitsAssumption DEF Lists, Load

\* remember and lookup use a key; the list and its order agree on that.
LEMMA RememberList ==
  ASSUME ListInv, NEW k \in Keys, NEW v \in Values, Remember(k, v)
  PROVE  List(mem') /\ Cardinality(DOMAIN mem') <= MaxEntries /\ Order(order') /\ Agrees(mem', order')
<1> DEFINE e == [j \in DOMAIN mem \cup {k} |->
                   IF j = k THEN [val |-> v, touched |-> NextTouch(mem)] ELSE mem[j]]
<1>1. mem' = Normalize(e, MaxEntries) /\ order' = Used(k)
  BY DEF Remember
<1>2. List(mem) /\ Order(order) /\ Agrees(mem, order) /\ MaxEntries \in Nat
  BY LimitsAssumption DEF ListInv, Lists, Ordered
<1>3. NextTouch(mem) \in Nat /\ \A j \in DOMAIN mem : mem[j].touched < NextTouch(mem)
  BY <1>2, NextTouchAbove
<1>4. /\ DOMAIN e = DOMAIN mem \cup {k} /\ e[k].touched = NextTouch(mem)
      /\ \A j \in DOMAIN mem \ {k} : e[j] = mem[j]
  OBVIOUS
<1>5. List(e)
  <2>1. e \in [DOMAIN mem \cup {k} -> Entry]
    BY <1>2, <1>3 DEF List, Entry
  <2>2. ASSUME NEW i \in DOMAIN e, NEW j \in DOMAIN e, e[i].touched = e[j].touched PROVE i = j
    <3>1. \A n \in DOMAIN mem : mem[n].touched \in Nat
      BY <1>2 DEF List, Entry
    <3> HIDE DEF e
    <3>2. CASE i # k /\ j # k
      BY <1>2, <1>4, <2>2, <3>2 DEF List
    <3>3. CASE i = k /\ j # k
      BY <1>3, <1>4, <2>2, <3>1, <3>3
    <3>4. CASE i # k /\ j = k
      BY <1>3, <1>4, <2>2, <3>1, <3>4
    <3>5. QED
      BY <3>2, <3>3, <3>4
  <2>3. QED
    BY <1>2, <1>4, <2>1, <2>2 DEF List
<1> HIDE DEF e
<1>6. \A j \in DOMAIN mem \ {k} : e[j].touched = mem[j].touched /\ e[j].touched < e[k].touched
  BY <1>3, <1>4
<1>7. Order(Used(k)) /\ Agrees(e, Used(k))
  BY <1>2, <1>4, <1>5, <1>6, UseAgrees
<1>8. Agrees(Normalize(e, MaxEntries), Used(k))
  BY <1>2, <1>5, <1>7, NormalizeAgrees
<1>9. List(Normalize(e, MaxEntries)) /\ DOMAIN Normalize(e, MaxEntries) = Top(e, MaxEntries)
  BY <1>2, <1>5, Normalized
<1>10. QED
  BY <1>1, <1>2, <1>5, <1>7, <1>8, <1>9, TopSize

LEMMA LookupList ==
  ASSUME ListInv, NEW k \in Keys, Lookup(k)
  PROVE  List(mem') /\ Cardinality(DOMAIN mem') <= MaxEntries /\ Order(order') /\ Agrees(mem', order')
<1>1. mem' = [mem EXCEPT ![k].touched = NextTouch(mem)] /\ order' = Used(k) /\ k \in DOMAIN mem
  BY DEF Lookup
<1>2. List(mem) /\ Order(order) /\ Agrees(mem, order) /\ Cardinality(DOMAIN mem) <= MaxEntries
  BY DEF ListInv, Lists, Ordered
<1>3. NextTouch(mem) \in Nat /\ \A j \in DOMAIN mem : mem[j].touched < NextTouch(mem)
  BY <1>2, NextTouchAbove
<1>4. /\ DOMAIN mem' = DOMAIN mem /\ mem' \in [DOMAIN mem -> Entry]
      /\ mem'[k].touched = NextTouch(mem) /\ \A j \in DOMAIN mem \ {k} : mem'[j] = mem[j]
  BY <1>1, <1>2, <1>3 DEF List, Entry
<1>5. \A n \in DOMAIN mem : mem[n].touched \in Nat
  BY <1>2 DEF List, Entry
<1>6. ASSUME NEW i \in DOMAIN mem, NEW j \in DOMAIN mem, mem'[i].touched = mem'[j].touched PROVE i = j
  <2>1. CASE i # k /\ j # k
    BY <1>2, <1>4, <1>6, <2>1 DEF List
  <2>2. CASE i = k /\ j # k
    BY <1>3, <1>4, <1>5, <1>6, <2>2
  <2>3. CASE i # k /\ j = k
    BY <1>3, <1>4, <1>5, <1>6, <2>3
  <2>4. QED
    BY <2>1, <2>2, <2>3
<1>7. List(mem')
  BY <1>2, <1>4, <1>6 DEF List
<1>8. \A j \in DOMAIN mem \ {k} : mem'[j].touched = mem[j].touched /\ mem'[j].touched < mem'[k].touched
  BY <1>3, <1>4
<1>9. DOMAIN mem' = DOMAIN mem \cup {k}
  BY <1>1, <1>4
<1>10. Order(Used(k)) /\ Agrees(mem', Used(k))
  BY <1>2, <1>7, <1>8, <1>9, UseAgrees
<1>11. QED
  BY <1>1, <1>2, <1>4, <1>7, <1>10

LEMMA ForgetList ==
  ASSUME ListInv, NEW k \in Keys, Forget(k)
  PROVE  List(mem') /\ Cardinality(DOMAIN mem') <= MaxEntries /\ Order(order') /\ Agrees(mem', order')
<1> DEFINE e == Keep(mem, DOMAIN mem \ {k})
           n == Cardinality(DOMAIN e)
<1>1. mem' = Normalize(e, n)
  BY DEF Forget
<1>2. order' = [j \in DOMAIN order \ {k} |-> Rank(order, DOMAIN order \ {k}, j)]
  BY DEF Forget, Rank
<1>3. List(mem) /\ Order(order) /\ Agrees(mem, order) /\ Cardinality(DOMAIN mem) <= MaxEntries
  BY DEF ListInv, Lists, Ordered
<1>4. List(e) /\ DOMAIN e = DOMAIN mem \ {k}
  BY <1>3, KeepList
<1>5. IsFiniteSet(DOMAIN mem) /\ Cardinality(DOMAIN mem) \in Nat
  BY <1>3, KeysAssumption, FS_Subset, FS_CardinalityType DEF List
<1>6. n \in Nat /\ n <= Cardinality(DOMAIN mem)
  BY <1>4, <1>5, FS_Subset, FS_CardinalityType
<1>7. Order(order') /\ Agrees(e, order')
  BY <1>2, <1>3, ForgetAgrees
<1> HIDE DEF e, n
<1>8. List(Normalize(e, n)) /\ DOMAIN Normalize(e, n) = Top(e, n)
  BY <1>4, <1>6, Normalized
<1>9. Cardinality(Top(e, n)) <= n /\ Cardinality(Top(e, n)) \in Nat
  BY <1>4, <1>6, TopSize
<1>10. Agrees(Normalize(e, n), order')
  BY <1>4, <1>6, <1>7, NormalizeAgrees
<1>11. QED
  BY <1>1, <1>3, <1>5, <1>6, <1>7, <1>8, <1>9, <1>10, LimitsAssumption
\* A step of save, a crash, a restart or damage.
SaveStep ==
  \/ SaveOpen \/ SaveWritePart \/ SaveFlush \/ SaveVerify
  \/ SaveCopyBegin \/ SaveCopyPart \/ SaveCopyEnd \/ SaveRename

\* What a save puts into the files and into saving are lists; the list in memory stays.
LEMMA SaveLists ==
  ASSUME ListInv, SaveStep
  PROVE  ListInv'
<1> USE LimitsAssumption, EmptyList, FileRows
<1>1. mem' = mem /\ order' = order
  BY DEF SaveStep, SaveOpen, SaveWritePart, SaveFlush, SaveVerify, SaveCopyBegin, SaveCopyPart, SaveCopyEnd, SaveRename
<1>2. Ordered'
  BY <1>1 DEF ListInv, Ordered
<1>3. List(saving')
  <2>1. CASE SaveOpen
    BY <2>1, Normalized DEF SaveOpen, ListInv, Lists
  <2>2. CASE ~SaveOpen
    <3>1. saving' = saving \/ saving' = NoRows
      BY <2>2 DEF SaveStep, SaveWritePart, SaveFlush, SaveVerify, SaveCopyBegin, SaveCopyPart, SaveCopyEnd, SaveRename,
         SaveReturns, ReplaceFails
    <3>2. QED
      BY <3>1 DEF ListInv, Lists
  <2>3. QED
    BY <2>1, <2>2
<1>4. List(tmp'.rows)
  <2>1. CASE SaveWritePart
    <3>1. PICK n \in 0 .. Cardinality(DOMAIN saving), torn \in BOOLEAN :
            tmp' = FirstRows(saving, n, torn)
      BY <2>1 DEF SaveWritePart
    <3>2. tmp'.rows = Keep(saving, Top(saving, n)) /\ Top(saving, n) \in SUBSET DOMAIN saving
      BY <3>1 DEF FirstRows, FileRec, Top
    <3>3. QED
      BY <3>2, KeepList DEF ListInv, Lists
  <2>2. CASE ~SaveWritePart
    <3>1. tmp' = tmp \/ tmp' = Empty \/ tmp' = Missing \/ tmp' = Complete(saving)
      BY <2>2 DEF SaveStep, SaveOpen, SaveFlush, SaveVerify, SaveCopyBegin, SaveCopyPart, SaveCopyEnd, SaveRename,
         SaveReturns, ReplaceFails
    <3>2. QED
      BY <3>1 DEF ListInv, Lists
  <2>3. QED
    BY <2>1, <2>2
<1>5. List(backup'.rows)
  <2>1. CASE SaveCopyPart
    <3>1. CASE backup' = Bad
      BY <3>1
    <3>2. CASE backup' # Bad
      <4>1. PICK n \in 0 .. Cardinality(DOMAIN primary.rows), torn \in BOOLEAN :
              backup' = FirstRows(primary.rows, n, torn)
        BY <2>1, <3>2 DEF SaveCopyPart
      <4>2. /\ backup'.rows = Keep(primary.rows, Top(primary.rows, n))
            /\ Top(primary.rows, n) \in SUBSET DOMAIN primary.rows
        BY <4>1 DEF FirstRows, FileRec, Top
      <4>3. QED
        BY <4>2, KeepList DEF ListInv, Lists
    <3>3. QED
      BY <3>1, <3>2
  <2>2. CASE ~SaveCopyPart
    <3>1. backup' = backup \/ backup' = Empty \/ backup' = primary
      BY <2>2 DEF SaveStep, SaveOpen, SaveWritePart, SaveFlush, SaveVerify, SaveCopyBegin, SaveCopyEnd, SaveRename
    <3>2. QED
      BY <3>1 DEF ListInv, Lists
  <2>3. QED
    BY <2>1, <2>2
<1>6. List(primary'.rows)
  <2>1. primary' = primary \/ primary' = tmp
    BY DEF SaveStep, SaveOpen, SaveWritePart, SaveFlush, SaveVerify, SaveCopyBegin, SaveCopyPart, SaveCopyEnd, SaveRename
  <2>2. QED
    BY <2>1 DEF ListInv, Lists
<1>7. QED
  BY <1>1, <1>2, <1>3, <1>4, <1>5, <1>6 DEF ListInv, Lists

\* Every step leaves lists, in memory in the order of the uses.
LEMMA StepLists == ListInv /\ [CacheNext]_cacheVars => ListInv'
<1> SUFFICES ASSUME ListInv, [CacheNext]_cacheVars PROVE ListInv'
  OBVIOUS
<1>1. ASSUME NEW k \in Keys, Lookup(k) \/ Forget(k) \/ \E v \in Values : Remember(k, v)
      PROVE  ListInv'
  <2>1. List(mem') /\ Cardinality(DOMAIN mem') <= MaxEntries /\ Order(order') /\ Agrees(mem', order')
    BY <1>1, LookupList, ForgetList, RememberList
  <2>2. UNCHANGED <<files, saving>>
    BY <1>1 DEF Lookup, Forget, Remember
  <2>3. QED
    BY <2>1, <2>2 DEF ListInv, Lists, Ordered, files
<1>2. CASE SaveStep
  BY <1>2, SaveLists
<1>3. CASE Crash
  <2>1. mem' = NoRows /\ order' = NoRows /\ UNCHANGED <<files, saving>>
    BY <1>3 DEF Crash
  <2>2. QED
    BY <2>1, EmptyList, LimitsAssumption DEF ListInv, Lists, Ordered, files
<1>4. CASE Restart
  <2>1. mem' = Load /\ order' = [k \in DOMAIN mem' |-> mem'[k].touched] /\ saving' = NoRows /\ UNCHANGED files
    BY <1>4 DEF Restart
  <2>2. List(mem') /\ Cardinality(DOMAIN mem') <= MaxEntries
    BY <2>1, LoadList DEF ListInv
  <2>3. \A k \in DOMAIN mem' : mem'[k].touched \in Nat
    BY <2>2 DEF List, Entry
  <2>4. Order(order')
    BY <2>1, <2>2, <2>3 DEF Order, List
  <2>5. Agrees(mem', order')
    BY <2>1 DEF Agrees
  <2>6. QED
    BY <2>1, <2>2, <2>4, <2>5, EmptyList DEF ListInv, Lists, Ordered, files
<1>5. CASE Damage
  <2>1. primary' = Bad /\ UNCHANGED <<mem, backup, tmp, saving, order>>
    BY <1>5 DEF Damage
  <2>2. QED
    BY <2>1, EmptyList, FileRows DEF ListInv, Lists, Ordered
<1>6. CASE UNCHANGED cacheVars
  BY <1>6 DEF cacheVars, files, ListInv, Lists, Ordered
<1>7. QED
  BY <1>1, <1>2, <1>3, <1>4, <1>5, <1>6 DEF CacheNext, SaveStep

-----------------------------------------------------------------------------
(***************************************************************************)
(* The files.                                                              *)
(***************************************************************************)
\* A list that a save wrote and the parser reads back whole.
Written(s) == List(s) /\ Normalize(s, MaxEntries) = s
Readable(s) == Written(s) /\ Cardinality(DOMAIN s) < MaxLines

\* From "copy" on the .tmp file is known to read back as what is saved.
Installing == step \in {"copy", "copyEnd", "rename"}
Saving ==
  /\ step = "write" \/ step = "verify" \/ Installing => Written(saving)
  /\ step = "verify" \/ Installing => tmp = Complete(saving)
  /\ Installing => Readable(saving)

\* A copy of the list e that was cut off behind the header.
CutOff(f, e) == \E n \in 0 .. Cardinality(DOMAIN e), torn \in BOOLEAN : f = FirstRows(e, n, torn)

\* A backup with a header is one of the last two saves, or the beginning of the last.
BackupHolds ==
  \/ \E s \in {committed, previous} : backup = Complete(s) /\ Readable(s)
  \/ cut /\ CutOff(backup, committed) /\ Readable(committed)

\* Until the damage the primary file is what was committed, and the backup what was
\* committed before, or a part of what the copy has reached; once the copy is made both
\* are the same.
Undamaged == damaged = "no" =>
  /\ \/ primary = Missing /\ ~backup.header /\ ~cut
     \/ primary = Complete(committed) /\ Readable(committed)
  /\ backup.header => BackupHolds
  /\ step = "rename" => ~cut
  /\ step = "rename" /\ backup.header => backup = Complete(committed)
  /\ step = "copy" => primary # Missing
  /\ step = "copyEnd" => cut

\* After it there is always one good file: the backup, then the .tmp file while the bad
\* file takes the place of the backup, then the primary file again.
TmpHolds ==
  /\ ~backup.header /\ step \in {"copyEnd", "rename", "down"}
  /\ tmp = Complete(saving) /\ Readable(saving)
OneHolds == damaged = "yes" /\ ~ioFailed =>
  \/ primary = Complete(committed) /\ Readable(committed)
  \/ primary = Bad /\ (BackupHolds \/ TmpHolds)

FileInv == Saving /\ Undamaged /\ OneHolds

\* A file that was verified reads back as what it holds.
LEMMA ReadsBack ==
  ASSUME NEW s, Readable(s)
  PROVE  Parse(Complete(s)).header /\ Parse(Complete(s)).rows = s
<1>1. Complete(s).rows = s /\ Complete(s).header = TRUE
  BY DEF Complete, FileRec
<1>2. /\ List(s) /\ Normalize(s, MaxEntries) = s /\ Cardinality(DOMAIN s) < MaxLines
      /\ Cardinality(DOMAIN s) \in Nat /\ MaxLines \in Nat \ {0}
  BY LimitsAssumption, KeysAssumption, FS_Subset, FS_CardinalityType DEF Readable, Written, List
<1>3. Top(s, MaxLines - 1) = DOMAIN s
  BY <1>2, TopAll
<1>4. Keep(s, DOMAIN s) = s
  BY <1>2 DEF Keep, List
<1>5. Parse(Complete(s)).rows = Normalize(s, MaxEntries) /\ Parse(Complete(s)).header = TRUE
  BY <1>1, <1>3, <1>4 DEF Parse
<1>6. QED
  BY <1>2, <1>5

\* What the verification of a save finds.
LEMMA VerifyReads ==
  ASSUME NEW s, Written(s), ~Parse(Complete(s)).corrupt
  PROVE  Readable(s)
<1>1. Complete(s).rows = s /\ Complete(s).torn = FALSE
  BY DEF Complete, FileRec
<1>2. ~(Cardinality(DOMAIN s) >= MaxLines)
  BY <1>1 DEF Parse
<1>3. Cardinality(DOMAIN s) \in Nat /\ MaxLines \in Nat
  BY LimitsAssumption, KeysAssumption, FS_Subset, FS_CardinalityType DEF Written, List
<1>4. QED
  BY <1>2, <1>3 DEF Readable

\* The parts of the files that there are.
LEMMA FileParts ==
  /\ Missing.exists = FALSE /\ Missing.header = FALSE
  /\ Bad.exists = TRUE /\ Bad.header = FALSE
  /\ Empty.exists = TRUE /\ Empty.header = FALSE
  /\ \A s : Complete(s).exists = TRUE /\ Complete(s).header = TRUE
BY DEF Missing, Bad, Empty, Complete, FileRec

LEMMA StepSaving == ListInv /\ FileInv /\ [CacheNext]_cacheVars => Saving'
<1> SUFFICES ASSUME ListInv, Saving, [CacheNext]_cacheVars PROVE Saving'
  BY DEF FileInv
<1> USE DEF files, history
<1>1. CASE SaveOpen
  <2>1. Written(Normalize(mem, MaxEntries))
    BY Normalized, NormalizeAgain, LimitsAssumption DEF Written, ListInv, Lists
  <2>2. QED
    BY <1>1, <2>1 DEF SaveOpen, Saving, Installing
<1>2. CASE SaveWritePart
  BY <1>2 DEF SaveWritePart, Saving, Installing
<1>3. CASE SaveFlush
  BY <1>3 DEF SaveFlush, SaveReturns, Saving, Installing
<1>4. CASE SaveVerify
  <2>1. tmp = Complete(saving) /\ Written(saving)
    BY <1>4 DEF SaveVerify, Saving
  <2>2. CASE Parse(tmp).header /\ ~Parse(tmp).corrupt
    <3>1. Readable(saving)
      BY <2>1, <2>2, VerifyReads
    <3>2. QED
      BY <1>4, <2>1, <2>2, <3>1 DEF SaveVerify, Saving, Installing
  <2>3. CASE ~(Parse(tmp).header /\ ~Parse(tmp).corrupt)
    BY <1>4, <2>3 DEF SaveVerify, SaveReturns, Saving, Installing
  <2>4. QED
    BY <2>2, <2>3
<1>5. CASE SaveCopyBegin
  BY <1>5 DEF SaveCopyBegin, ReplaceFails, SaveReturns, Saving, Installing
<1>6. CASE SaveCopyPart \/ SaveCopyEnd
  BY <1>6 DEF SaveCopyPart, SaveCopyEnd, ReplaceFails, SaveReturns, Saving, Installing
<1>7. CASE SaveRename
  BY <1>7 DEF SaveRename, ReplaceFails, SaveReturns, Saving, Installing
<1>8. CASE Crash
  BY <1>8 DEF Crash, Saving, Installing
<1>9. CASE Restart
  BY <1>9 DEF Restart, Saving, Installing
<1>10. CASE Damage
  BY <1>10 DEF Damage, Saving, Installing
<1>11. ASSUME NEW k \in Keys, Lookup(k) \/ Forget(k) \/ \E v \in Values : Remember(k, v) PROVE Saving'
  BY <1>11 DEF Lookup, Forget, Remember, Saving, Installing
<1>12. CASE UNCHANGED cacheVars
  BY <1>12 DEF cacheVars, Saving, Installing
<1>13. QED
  BY <1>1, <1>2, <1>3, <1>4, <1>5, <1>6, <1>7, <1>8, <1>9, <1>10, <1>11, <1>12 DEF CacheNext

\* What is copied of a list is a beginning of it.
LEMMA PartIsCutOff ==
  ASSUME NEW e, NEW n \in 0 .. Cardinality(DOMAIN e), NEW torn \in BOOLEAN
  PROVE  CutOff(FirstRows(e, n, torn), e)
BY DEF CutOff

LEMMA StepUndamaged == FileInv /\ [CacheNext]_cacheVars => Undamaged'
<1> SUFFICES ASSUME Saving, Undamaged, [CacheNext]_cacheVars, damaged' = "no" PROVE Undamaged'
  BY DEF FileInv, Undamaged
<1> USE FileParts DEF files, history
<1>0. damaged = "no"
  BY DEF CacheNext, Lookup, Forget, Remember, SaveOpen, SaveWritePart, SaveFlush, SaveVerify, SaveCopyBegin,
     SaveCopyPart, SaveCopyEnd, SaveRename, Crash, Restart, Damage, cacheVars
<1>1. CASE SaveOpen \/ SaveWritePart \/ SaveFlush
  <2>1. UNCHANGED <<primary, backup, committed, previous, cut>> /\ step' \notin {"rename", "copy", "copyEnd"}
    BY <1>1 DEF SaveOpen, SaveWritePart, SaveFlush, SaveReturns
  <2>2. QED
    BY <1>0, <2>1 DEF Undamaged, BackupHolds
<1>2. CASE SaveVerify
  <2>1. /\ UNCHANGED <<primary, backup, committed, previous, cut>> /\ step' # "copyEnd"
        /\ step' = "rename" => ~primary.exists
        /\ step' = "copy" => primary.exists
    BY <1>2 DEF SaveVerify, SaveReturns
  <2>2. QED
    BY <1>0, <2>1 DEF Undamaged, BackupHolds
<1>3. CASE SaveCopyBegin
  <2>1. step = "copy" /\ step' # "rename" /\ step' # "copy" /\ UNCHANGED <<primary, committed, previous>>
    BY <1>3 DEF SaveCopyBegin, ReplaceFails, SaveReturns
  <2>2. \/ backup' = Empty /\ cut' = TRUE
        \/ UNCHANGED <<backup, cut>> /\ step' # "copyEnd"
    BY <1>3 DEF SaveCopyBegin, ReplaceFails, SaveReturns
  <2>3. primary # Missing
    BY <1>0, <2>1 DEF Undamaged
  <2>4. CASE backup' = Empty /\ cut' = TRUE
    BY <1>0, <2>1, <2>3, <2>4 DEF Undamaged
  <2>5. CASE UNCHANGED <<backup, cut>> /\ step' # "copyEnd"
    BY <1>0, <2>1, <2>5 DEF Undamaged, BackupHolds
  <2>6. QED
    BY <2>2, <2>4, <2>5
<1>4. CASE SaveCopyPart
  <2>1. UNCHANGED <<primary, committed, previous, step, cut>> /\ step = "copyEnd"
    BY <1>4 DEF SaveCopyPart
  <2>2. cut /\ primary = Complete(committed) /\ Readable(committed)
    BY <1>0, <2>1 DEF Undamaged
  <2>3. backup' = Bad \/ CutOff(backup', committed)
    <3>1. primary.rows = committed
      BY <2>2, FileRows
    <3>2. QED
      BY <1>4, <3>1, PartIsCutOff DEF SaveCopyPart
  <2>4. QED
    BY <1>0, <2>1, <2>2, <2>3 DEF Undamaged, BackupHolds
<1>5. CASE SaveCopyEnd
  <2>1. UNCHANGED <<primary, committed, previous>> /\ step = "copyEnd" /\ step' # "copyEnd" /\ step' # "copy"
    BY <1>5 DEF SaveCopyEnd, ReplaceFails, SaveReturns
  <2>2. cut /\ primary = Complete(committed) /\ Readable(committed)
    BY <1>0, <2>1 DEF Undamaged
  <2>3. \/ backup' = primary /\ ~cut'
        \/ UNCHANGED <<backup, cut>> /\ step' # "rename"
    BY <1>5 DEF SaveCopyEnd, ReplaceFails, SaveReturns
  <2>4. QED
    BY <1>0, <2>1, <2>2, <2>3 DEF Undamaged, BackupHolds
<1>6. CASE SaveRename
  <2>1. UNCHANGED <<backup, cut>> /\ step = "rename" /\ step' = "idle"
    BY <1>6 DEF SaveRename, ReplaceFails, SaveReturns
  <2>2. CASE primary' = tmp /\ previous' = committed /\ committed' = saving
    <3>1. tmp = Complete(saving) /\ Readable(saving)
      BY <2>1 DEF Saving, Installing
    <3>2. ~cut /\ (backup.header => backup = Complete(committed) /\ Readable(committed))
      BY <1>0, <2>1 DEF Undamaged
    <3>3. QED
      BY <2>1, <2>2, <3>1, <3>2 DEF Undamaged, BackupHolds
  <2>3. CASE UNCHANGED <<primary, committed, previous>>
    BY <1>0, <2>1, <2>3 DEF Undamaged, BackupHolds
  <2>4. QED
    BY <1>6, <2>2, <2>3 DEF SaveRename
<1>7. CASE Crash \/ Restart
  <2>1. UNCHANGED <<primary, backup, committed, previous, cut>> /\ step' \notin {"rename", "copy", "copyEnd"}
    BY <1>7 DEF Crash, Restart
  <2>2. QED
    BY <1>0, <2>1 DEF Undamaged, BackupHolds
<1>8. CASE Damage
  BY <1>8 DEF Damage
<1>9. ASSUME NEW k \in Keys, Lookup(k) \/ Forget(k) \/ \E v \in Values : Remember(k, v)
      PROVE  UNCHANGED <<files, step, committed, previous, damaged, cut>>
  BY <1>9 DEF Lookup, Forget, Remember
<1>10. CASE UNCHANGED <<files, step, committed, previous, damaged, cut>>
  BY <1>0, <1>10 DEF Undamaged, BackupHolds
<1>11. QED
  BY <1>1, <1>2, <1>3, <1>4, <1>5, <1>6, <1>7, <1>8, <1>9, <1>10 DEF CacheNext, cacheVars

LEMMA StepOneHolds == FileInv /\ [CacheNext]_cacheVars => OneHolds'
<1> SUFFICES ASSUME Saving, Undamaged, OneHolds, [CacheNext]_cacheVars, damaged' = "yes", ~ioFailed' PROVE OneHolds'
  BY DEF FileInv, OneHolds
<1> USE FileParts DEF files, history
<1>1. CASE Damage
  <2>1. /\ damaged = "no" /\ backup.header /\ primary' = Bad
        /\ UNCHANGED <<backup, committed, previous, cut>>
    BY <1>1 DEF Damage
  <2>2. BackupHolds'
    BY <2>1 DEF Undamaged, BackupHolds
  <2>3. QED
    BY <2>1, <2>2 DEF OneHolds
<1>2. CASE ~Damage
  <2>0. damaged = "yes" /\ ~Restart
    BY <1>2 DEF CacheNext, Lookup, Forget, Remember, SaveOpen, SaveWritePart, SaveFlush, SaveVerify, SaveCopyBegin,
       SaveCopyPart, SaveCopyEnd, SaveRename, Crash, Restart, cacheVars
  <2>1. ~ioFailed
    BY <1>2, <2>0 DEF CacheNext, Lookup, Forget, Remember, SaveOpen, SaveWritePart, SaveFlush, SaveVerify,
       SaveCopyBegin, SaveCopyPart, SaveCopyEnd, SaveRename, ReplaceFails, Crash, cacheVars
  <2>2. \/ primary = Complete(committed) /\ Readable(committed)
        \/ primary = Bad /\ (BackupHolds \/ TmpHolds)
    BY <2>0, <2>1 DEF OneHolds
  <2>3. CASE SaveOpen \/ SaveWritePart \/ SaveFlush \/ SaveVerify
    <3>1. UNCHANGED <<primary, backup, committed, previous, cut>> /\ step \in {"idle", "write", "verify"}
      BY <2>3 DEF SaveOpen, SaveWritePart, SaveFlush, SaveVerify
    <3>2. ~TmpHolds
      BY <3>1 DEF TmpHolds
    <3>3. QED
      BY <2>2, <3>1, <3>2 DEF OneHolds, BackupHolds
  <2>4. CASE SaveCopyBegin
    <3>1. /\ UNCHANGED <<primary, committed, previous, tmp, saving>>
          /\ backup' = Empty /\ step = "copy" /\ step' = "copyEnd"
      BY <2>0, <2>4 DEF SaveCopyBegin, ReplaceFails
    <3>2. tmp = Complete(saving) /\ Readable(saving)
      BY <3>1 DEF Saving, Installing
    <3>3. TmpHolds'
      BY <3>1, <3>2 DEF TmpHolds
    <3>4. QED
      BY <2>2, <3>1, <3>3 DEF OneHolds
  <2>5. CASE SaveCopyPart
    <3>1. /\ UNCHANGED <<primary, committed, previous, tmp, saving, step>> /\ step = "copyEnd"
          /\ backup' = Bad \/ primary.header
      BY <2>5 DEF SaveCopyPart
    <3>2. tmp = Complete(saving) /\ Readable(saving)
      BY <3>1 DEF Saving, Installing
    <3>3. primary = Bad => TmpHolds'
      BY <3>1, <3>2 DEF TmpHolds
    <3>4. QED
      BY <2>2, <3>1, <3>3 DEF OneHolds
  <2>6. CASE SaveCopyEnd
    <3>1. /\ UNCHANGED <<primary, committed, previous, tmp, saving>>
          /\ backup' = primary /\ step = "copyEnd" /\ step' = "rename"
      BY <2>0, <2>6 DEF SaveCopyEnd, ReplaceFails
    <3>2. tmp = Complete(saving) /\ Readable(saving)
      BY <3>1 DEF Saving, Installing
    <3>3. primary = Bad => TmpHolds'
      BY <3>1, <3>2 DEF TmpHolds
    <3>4. QED
      BY <2>2, <3>1, <3>3 DEF OneHolds
  <2>7. CASE SaveRename
    <3>1. primary' = tmp /\ committed' = saving /\ step = "rename"
      BY <2>0, <2>7 DEF SaveRename, ReplaceFails
    <3>2. tmp = Complete(saving) /\ Readable(saving)
      BY <3>1 DEF Saving, Installing
    <3>3. QED
      BY <3>1, <3>2 DEF OneHolds
  <2>8. CASE Crash
    <3>1. UNCHANGED <<primary, backup, committed, previous, tmp, saving, cut>> /\ step' = "down"
      BY <2>8 DEF Crash
    <3>2. QED
      BY <2>2, <3>1 DEF OneHolds, BackupHolds, TmpHolds
  <2>9. ASSUME NEW k \in Keys, Lookup(k) \/ Forget(k) \/ \E v \in Values : Remember(k, v)
        PROVE  UNCHANGED <<files, step, saving, committed, previous, cut>>
    BY <2>9 DEF Lookup, Forget, Remember
  <2>10. CASE UNCHANGED <<files, step, saving, committed, previous, cut>>
    BY <2>2, <2>10 DEF OneHolds, BackupHolds, TmpHolds
  <2>11. QED
    BY <1>2, <2>0, <2>3, <2>4, <2>5, <2>6, <2>7, <2>8, <2>9, <2>10 DEF CacheNext, cacheVars
<1>3. QED
  BY <1>1, <1>2

-----------------------------------------------------------------------------
\* The variables that say where things are keep to their values.
Flagged(f) == f.exists \in BOOLEAN /\ f.header \in BOOLEAN /\ f.torn \in BOOLEAN
Places ==
  /\ Flagged(primary) /\ Flagged(backup) /\ Flagged(tmp)
  /\ step \in {"idle", "down", "write", "verify", "copy", "copyEnd", "rename"}
  /\ outcome \in {"none", "ok", "refused", "ioError"}
  /\ damaged \in {"no", "yes", "reloaded"} /\ cut \in BOOLEAN /\ ioFailed \in BOOLEAN

LEMMA StepPlaces == Places /\ [CacheNext]_cacheVars => Places'
<1> SUFFICES ASSUME Places, [CacheNext]_cacheVars PROVE Places'
  OBVIOUS
<1> USE DEF files, history, Places
<1>0. Flagged(Missing) /\ Flagged(Bad) /\ Flagged(Empty) /\ \A s : Flagged(Complete(s))
  BY DEF Flagged, Missing, Bad, Empty, Complete, FileRec
<1>1. CASE SaveOpen
  BY <1>0, <1>1 DEF SaveOpen
<1>2. CASE SaveWritePart
  <2>1. PICK torn \in BOOLEAN : \E r : tmp' = FileRec(TRUE, TRUE, torn, r)
    BY <1>2 DEF SaveWritePart, FirstRows
  <2>2. Flagged(tmp')
    BY <2>1 DEF FileRec, Flagged
  <2>3. QED
    BY <1>2, <2>2 DEF SaveWritePart
<1>3. CASE SaveFlush
  BY <1>0, <1>3 DEF SaveFlush, SaveReturns
<1>4. CASE SaveVerify
  BY <1>0, <1>4 DEF SaveVerify, SaveReturns
<1>5. CASE SaveCopyBegin
  BY <1>0, <1>5 DEF SaveCopyBegin, ReplaceFails, SaveReturns
<1>6. CASE SaveCopyEnd
  BY <1>0, <1>6 DEF SaveCopyEnd, ReplaceFails, SaveReturns
<1>13. CASE SaveCopyPart
  <2>1. CASE backup' = Bad
    BY <1>0, <1>13, <2>1 DEF SaveCopyPart
  <2>2. CASE backup' # Bad
    <3>1. PICK torn \in BOOLEAN : \E r : backup' = FileRec(TRUE, TRUE, torn, r)
      BY <1>13, <2>2 DEF SaveCopyPart, FirstRows
    <3>2. Flagged(backup')
      BY <3>1 DEF FileRec, Flagged
    <3>3. QED
      BY <1>13, <3>2 DEF SaveCopyPart
  <2>3. QED
    BY <2>1, <2>2
<1>7. CASE SaveRename
  BY <1>0, <1>7 DEF SaveRename, ReplaceFails, SaveReturns
<1>8. CASE Crash
  BY <1>8 DEF Crash
<1>9. CASE Restart
  BY <1>9 DEF Restart
<1>10. CASE Damage
  BY <1>0, <1>10 DEF Damage
<1>11. ASSUME NEW k \in Keys, Lookup(k) \/ Forget(k) \/ \E v \in Values : Remember(k, v) PROVE Places'
  BY <1>11 DEF Lookup, Forget, Remember
<1>12. CASE UNCHANGED cacheVars
  BY <1>12 DEF cacheVars
<1>14. QED
  BY <1>1, <1>2, <1>3, <1>4, <1>5, <1>6, <1>7, <1>8, <1>9, <1>10, <1>11, <1>12, <1>13 DEF CacheNext

IInv == ListInv /\ FileInv /\ Places

LEMMA InitSound == CacheInit => IInv
<1> SUFFICES ASSUME CacheInit PROVE IInv
  OBVIOUS
<1> USE FileRows, FileParts, EmptyList, LimitsAssumption DEF CacheInit
<1>1. ListInv
  BY DEF ListInv, Lists, Ordered
<1>2. FileInv
  BY DEF FileInv, Saving, Installing, Undamaged, OneHolds
<1>3. Places
  BY DEF Places, Flagged, Missing, FileRec
<1>4. QED
  BY <1>1, <1>2, <1>3 DEF IInv

LEMMA Inductive == CacheSpec => []IInv
<1>1. IInv /\ [CacheNext]_cacheVars => IInv'
  BY StepLists, StepSaving, StepUndamaged, StepOneHolds, StepPlaces DEF IInv, FileInv
<1>2. QED
  BY <1>1, InitSound, PTL DEF CacheSpec

\* However many uses, saves, crashes and restarts: the list in memory keeps to its limit,
\* its entries are in the order of their last uses, and what was evicted was used before
\* everything that is kept.
THEOREM CacheKeepsOrder == CacheSpec => []ListSound
<1>1. IInv => ListSound
  <2> SUFFICES ASSUME IInv PROVE CacheTypes /\ RecencyKept
    BY DEF ListSound
  <2>1. \A e : List(e) => IsList(e)
    BY DEF List, IsList, Entry
  <2>2. CacheTypes
    BY <2>1 DEF IInv, ListInv, Lists, Places, Flagged, CacheTypes, IsFile
  <2>3. RecencyKept
    BY DEF IInv, ListInv, Ordered, Agrees, RecencyKept
  <2>4. QED
    BY <2>2, <2>3
<1>2. QED
  BY <1>1, Inductive, PTL

\* Wherever in a save the process dies, a write fails or a save is refused, the next load
\* reads exactly the entries of the last save that succeeded.
THEOREM SavesSurvive == CacheSpec => []CommittedSurvives
<1>1. IInv => CommittedSurvives
  <2> SUFFICES ASSUME IInv, damaged = "no", primary.exists PROVE Load = committed
    BY DEF CommittedSurvives
  <2>1. primary = Complete(committed) /\ Readable(committed)
    BY FileParts DEF IInv, FileInv, Undamaged
  <2>2. QED
    BY <2>1, ReadsBack DEF Load
<1>2. QED
  BY <1>1, Inductive, PTL

\* What a load makes of a copy that was cut off: the entries that it holds, renumbered.
LEMMA CutOffReads ==
  ASSUME NEW e, Readable(e), NEW n \in 0 .. Cardinality(DOMAIN e), NEW torn \in BOOLEAN
  PROVE  /\ Parse(FirstRows(e, n, torn)).header
         /\ Parse(FirstRows(e, n, torn)).rows = Normalize(e, n)
<1> DEFINE r == Keep(e, Top(e, n))
<1>1. FirstRows(e, n, torn).rows = r /\ FirstRows(e, n, torn).header = TRUE
  BY DEF FirstRows, FileRec
<1>2. /\ List(e) /\ Cardinality(DOMAIN e) < MaxLines /\ Normalize(e, MaxEntries) = e
      /\ IsFiniteSet(DOMAIN e) /\ Cardinality(DOMAIN e) \in Nat
      /\ MaxLines - 1 \in Nat /\ MaxLines \in Nat /\ MaxEntries \in Nat /\ n \in Nat
  BY LimitsAssumption, KeysAssumption, FS_Subset, FS_CardinalityType DEF Readable, Written, List
<1>3. DOMAIN e = Top(e, MaxEntries)
  BY <1>2, Normalized
<1>4. Cardinality(DOMAIN e) <= MaxEntries
  BY <1>2, <1>3, TopSize
<1>5. List(r) /\ DOMAIN r = Top(e, n) /\ Top(e, n) \subseteq DOMAIN e
  <2>1. Top(e, n) \in SUBSET DOMAIN e
    BY DEF Top
  <2>2. QED
    BY <1>2, <2>1, KeepList
<1> HIDE DEF r
<1>6. Cardinality(DOMAIN r) \in Nat /\ Cardinality(DOMAIN r) <= Cardinality(DOMAIN e)
  BY <1>2, <1>5, FS_Subset, FS_CardinalityType
<1>7. Top(r, MaxLines - 1) = DOMAIN r /\ Top(r, MaxEntries) = DOMAIN r
  <2>1. Cardinality(DOMAIN r) <= MaxLines - 1 /\ Cardinality(DOMAIN r) <= MaxEntries
    BY <1>2, <1>4, <1>6
  <2>2. QED
    BY <1>2, <1>5, <2>1, TopAll
<1>8. Keep(r, DOMAIN r) = r
  BY <1>5 DEF Keep, List
<1>9. Parse(FirstRows(e, n, torn)).rows = Normalize(r, MaxEntries)
  BY <1>1, <1>7, <1>8 DEF Parse
<1>10. Normalize(r, MaxEntries) = Normalize(e, n)
  BY <1>7, <1>8 DEF Normalize, r
<1>11. QED
  BY <1>1, <1>9, <1>10 DEF Parse

\* A damaged primary file costs at most one save, also when the bad file is copied over the
\* backup: the .tmp file is known to be good by then and stays until it is the primary file.
\* Only where a copy over the backup was cut off, the backup is a beginning of the last save,
\* and the load gives its entries used last.
THEOREM OneSaveLost == CacheSpec => []DamageRecovers
<1>1. IInv => DamageRecovers
  <2> SUFFICES ASSUME IInv, damaged = "yes", ~ioFailed
               PROVE  \/ Load \in {committed, previous, saving}
                      \/ cut /\ \E n \in 0 .. Cardinality(DOMAIN committed) : Load = Normalize(committed, n)
    BY DEF DamageRecovers
  <2>0. ASSUME NEW f PROVE Parse(f).header = f.header
    BY DEF Parse
  <2>1. CASE primary = Complete(committed) /\ Readable(committed)
    BY <2>1, ReadsBack DEF Load
  <2>2. CASE primary = Bad /\ BackupHolds
    <3>1. ~Parse(primary).header
      BY <2>0, <2>2, FileParts
    <3>2. CASE \E s \in {committed, previous} : backup = Complete(s) /\ Readable(s)
      <4>1. PICK s \in {committed, previous} : backup = Complete(s) /\ Readable(s)
        BY <3>2
      <4>2. Load = s
        BY <3>1, <4>1, ReadsBack DEF Load
      <4>3. QED
        BY <4>2
    <3>3. CASE cut /\ CutOff(backup, committed) /\ Readable(committed)
      <4>1. PICK n \in 0 .. Cardinality(DOMAIN committed), torn \in BOOLEAN :
              backup = FirstRows(committed, n, torn)
        BY <3>3 DEF CutOff
      <4>2. Load = Normalize(committed, n)
        BY <3>1, <3>3, <4>1, CutOffReads DEF Load
      <4>3. QED
        BY <3>3, <4>2
    <3>4. QED
      BY <2>2, <3>2, <3>3 DEF BackupHolds
  <2>3. CASE primary = Bad /\ TmpHolds
    <3>1. ~Parse(primary).header /\ ~Parse(backup).header /\ tmp = Complete(saving) /\ Readable(saving)
      BY <2>0, <2>3, FileParts DEF TmpHolds
    <3>2. Load = saving
      BY <3>1, ReadsBack DEF Load
    <3>3. QED
      BY <3>2
  <2>4. QED
    BY <2>1, <2>2, <2>3 DEF IInv, FileInv, OneHolds
<1>2. QED
  BY <1>1, Inductive, PTL
=============================================================================
