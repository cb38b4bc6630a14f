------------------------- MODULE AutoSelection_proofs -------------------------
(***************************************************************************)
(* What automatic selection and the maintenance of the reserves guarantee  *)
(* for every list of servers, every outcome of probes and any number of    *)
(* requests, failovers and restarts.                                       *)
(*                                                                         *)
(* First the lists: the entries of a sequence at some of its places, the   *)
(* order of the ranking, the best server of a list.  Then what is probed   *)
(* and decided, and what an attempt leaves.  Then the invariant: types,    *)
(* the route of the running Xray, the times of the observations, and what  *)
(* the holder of the store lock relies on.                                 *)
(***************************************************************************)
EXTENDS AutoSelection, FiniteSetTheorems, SequenceTheorems, WellFoundedInduction, TLAPS

-------------------------------------------------------------------------------
(* Orders and places. *)

\* A set of naturals that is not empty has a least element.
LEMMA LeastOf ==
  ASSUME NEW S, S \subseteq Nat, S # {}
  PROVE  \E m \in S : \A n \in S : m <= n
<1> DEFINE R == OpToRel(<, Nat)
<1>1. \E m \in S : \A n \in S : ~(<<n, m>> \in R)
  <2> HIDE DEF R
  <2>1. IsWellFoundedOn(R, Nat)
    BY NatLessThanWellFounded DEF R
  <2> QED BY <2>1, WFMin
<1>2. PICK m \in S : \A n \in S : ~(<<n, m>> \in R)
  BY <1>1
<1>3. \A n \in S : ~(n < m)
  BY <1>2 DEF OpToRel
<1> QED BY <1>3

\* The number of the elements before x in a finite set with a strict total order, as
\* one of the numbers below its size, tells the elements apart and occurs for one.
Ordered(S, R) ==
    /\ \A x \in S : <<x, x>> \notin R
    /\ \A x, y, z \in S : <<x, y>> \in R /\ <<y, z>> \in R => <<x, z>> \in R
    /\ \A x, y \in S : x = y \/ <<x, y>> \in R \/ <<y, x>> \in R
Before(S, R, x) == {y \in S : <<y, x>> \in R}
\* Elements of a finite ordered set have places that tell them apart, and all places are taken.
LEMMA Placed ==
  ASSUME NEW S, IsFiniteSet(S), NEW R, Ordered(S, R)
  PROVE  /\ \A x \in S : Cardinality(Before(S, R, x)) \in 0..(Cardinality(S) - 1)
         /\ \A x, y \in S : Cardinality(Before(S, R, x)) = Cardinality(Before(S, R, y)) => x = y
         /\ \A k \in 1..Cardinality(S) : \E x \in S : Cardinality(Before(S, R, x)) = k - 1
<1> DEFINE f == [x \in S |-> Cardinality(Before(S, R, x))]
           T == 0..(Cardinality(S) - 1)
<1>1. Cardinality(S) \in Nat
  BY FS_CardinalityType
<1>2. ASSUME NEW x \in S
      PROVE  /\ IsFiniteSet(Before(S, R, x)) /\ Cardinality(Before(S, R, x)) \in Nat
             /\ Cardinality(Before(S, R, x)) <= Cardinality(S) - 1
  <2>1. Before(S, R, x) \in SUBSET (S \ {x})
    BY DEF Before, Ordered
  <2>2. IsFiniteSet(S \ {x}) /\ Cardinality(S \ {x}) = Cardinality(S) - 1
    BY FS_RemoveElement
  <2>3. IsFiniteSet(Before(S, R, x)) /\ Cardinality(Before(S, R, x)) <= Cardinality(S \ {x})
    BY <2>1, <2>2, FS_Subset
  <2> QED BY <2>2, <2>3, FS_CardinalityType
<1>3. \A x \in S : Cardinality(Before(S, R, x)) \in T
  BY <1>1, <1>2
<1>4. ASSUME NEW x \in S, NEW y \in S, <<x, y>> \in R
      PROVE  Cardinality(Before(S, R, x)) # Cardinality(Before(S, R, y))
  <2>1. Before(S, R, x) \in SUBSET Before(S, R, y)
    BY <1>4 DEF Before, Ordered
  <2>2. x \in Before(S, R, y) /\ x \notin Before(S, R, x)
    BY <1>4 DEF Before, Ordered
  <2>3. IsFiniteSet(Before(S, R, y))
    BY <1>2
  <2> QED BY ONLY <2>1, <2>2, <2>3, FS_Subset
<1>5. \A x, y \in S : Cardinality(Before(S, R, x)) = Cardinality(Before(S, R, y)) => x = y
  BY <1>4 DEF Ordered
<1>6. f \in Injection(S, T)
  BY <1>3, <1>5 DEF Injection, IsInjective
<1>7. IsFiniteSet(T) /\ Cardinality(T) = Cardinality(S)
  <2> DEFINE n == Cardinality(S) - 1
  <2>1. n \in Int /\ (IF 0 > n THEN 0 ELSE n - 0 + 1) = Cardinality(S)
    BY <1>1
  <2> HIDE DEF n
  <2>2. IsFiniteSet(0..n) /\ Cardinality(0..n) = IF 0 > n THEN 0 ELSE n - 0 + 1
    BY ONLY <2>1, FS_Interval
  <2> QED BY ONLY <2>1, <2>2 DEF n
<1>8. f \in Surjection(S, T)
  <2> HIDE DEF f, T
  <2> QED BY <1>6, <1>7, FS_Injection
<1>9. \A k \in T : \E x \in S : f[x] = k
  BY <1>8 DEF Surjection
<1>10. \A k \in 1..Cardinality(S) : \E x \in S : Cardinality(Before(S, R, x)) = k - 1
  BY <1>1, <1>9
<1> QED BY <1>3, <1>5, <1>10

\* A function on the first numbers is a sequence.
LEMMA FunctionSeq ==
  ASSUME NEW n \in Nat, NEW S, NEW f \in [1..n -> S]
  PROVE  f \in Seq(S) /\ Len(f) = n /\ DOMAIN f = 1..n
OBVIOUS

\* The entries at some places of a sequence: each of them, and nothing else.
LEMMA EntriesAt ==
  ASSUME NEW X, NEW seq \in Seq(X), NEW places \in SUBSET DOMAIN seq
  PROVE  /\ Entries(seq, places) \in Seq(X)
         /\ Len(Entries(seq, places)) = Cardinality(places) /\ Cardinality(places) \in Nat
         /\ \A i \in places : \E k \in DOMAIN Entries(seq, places) : Entries(seq, places)[k] = seq[i]
         /\ \A k \in DOMAIN Entries(seq, places) : \E i \in places : Entries(seq, places)[k] = seq[i]
<1> DEFINE R == {p \in places \X places : p[1] < p[2]}
           Place(k) == CHOOSE i \in places : Cardinality({j \in places : j < i}) = k - 1
<1>1. DOMAIN seq = 1..Len(seq) /\ Len(seq) \in Nat /\ \A i \in DOMAIN seq : seq[i] \in X
  BY LenProperties, ElementOfSeq
<1>2. IsFiniteSet(places)
  <2>1. IsFiniteSet(1..Len(seq))
    BY ONLY <1>1, FS_Interval
  <2> QED BY <1>1, <2>1, FS_Subset
<1>3. Cardinality(places) \in Nat
  BY <1>2, FS_CardinalityType
<1>4. places \subseteq Nat
  BY <1>1
<1>5. \A i \in places : Before(places, R, i) = {j \in places : j < i}
  BY DEF Before
<1>6. /\ \A i \in places : Cardinality({j \in places : j < i}) \in 0..(Cardinality(places) - 1)
      /\ \A i, j \in places : Cardinality({l \in places : l < i}) = Cardinality({l \in places : l < j}) => i = j
      /\ \A k \in 1..Cardinality(places) : \E i \in places : Cardinality({j \in places : j < i}) = k - 1
  <2>1. Ordered(places, R)
    BY <1>4 DEF Ordered
  <2> HIDE DEF R
  <2>2. /\ \A x \in places : Cardinality(Before(places, R, x)) \in 0..(Cardinality(places) - 1)
        /\ \A x, y \in places : Cardinality(Before(places, R, x)) = Cardinality(Before(places, R, y)) => x = y
        /\ \A k \in 1..Cardinality(places) : \E x \in places : Cardinality(Before(places, R, x)) = k - 1
    BY ONLY <1>2, <2>1, Placed
  <2> QED BY ONLY <1>5, <2>2
<1>7. \A k \in 1..Cardinality(places) : Place(k) \in places /\ Cardinality({j \in places : j < Place(k)}) = k - 1
  BY ONLY <1>6
<1>8. Entries(seq, places) = [k \in 1..Cardinality(places) |-> seq[Place(k)]]
  BY DEF Entries
<1>9. \A i \in places : LET k == Cardinality({j \in places : j < i}) + 1
                        IN  k \in 1..Cardinality(places) /\ Place(k) = i
  <2> TAKE i \in places
  <2> DEFINE k == Cardinality({j \in places : j < i}) + 1
  <2>1. k \in 1..Cardinality(places) /\ k - 1 = Cardinality({j \in places : j < i})
    BY ONLY <1>3, <1>6
  <2>2. Place(k) \in places /\ Cardinality({j \in places : j < Place(k)}) = k - 1
    BY ONLY <1>7, <2>1
  <2> HIDE DEF Place
  <2>3. Place(k) = i
    BY ONLY <1>6, <2>1, <2>2
  <2> QED BY <2>1, <2>3
<1> HIDE DEF Place
<1>10. \A k \in 1..Cardinality(places) : seq[Place(k)] \in X
  BY <1>1, <1>7
<1>11. Entries(seq, places) \in Seq(X)
  <2> DEFINE f == Entries(seq, places)
  <2>1. f \in [1..Cardinality(places) -> X]
    BY ONLY <1>8, <1>10
  <2> HIDE DEF f
  <2>2. f \in Seq(X)
    BY ONLY <1>3, <2>1, FunctionSeq
  <2> QED BY <2>2 DEF f
<1>12. Len(Entries(seq, places)) = Cardinality(places) /\ DOMAIN Entries(seq, places) = 1..Cardinality(places)
  BY ONLY <1>3, <1>8, <1>11, LenProperties
<1>13. \A i \in places : \E k \in DOMAIN Entries(seq, places) : Entries(seq, places)[k] = seq[i]
  BY ONLY <1>8, <1>9, <1>12
<1>14. \A k \in DOMAIN Entries(seq, places) : \E i \in places : Entries(seq, places)[k] = seq[i]
  BY ONLY <1>7, <1>8, <1>12
<1> QED BY <1>3, <1>11, <1>12, <1>13, <1>14

\* The entries of a list that are in a set.
LEMMA WithinSet ==
  ASSUME NEW X, NEW seq \in Seq(X), NEW nodes
  PROVE  /\ Within(seq, nodes) \in Seq(X) /\ Within(seq, nodes) \in Seq(nodes)
         /\ \A k \in DOMAIN Within(seq, nodes) : Within(seq, nodes)[k] \in nodes /\ Within(seq, nodes)[k] \in X
         /\ \A i \in DOMAIN seq : seq[i] \in nodes => \E k \in DOMAIN Within(seq, nodes) : Within(seq, nodes)[k] = seq[i]
<1> DEFINE P == {i \in DOMAIN seq : seq[i] \in nodes}
           w == Entries(seq, P)
<1>1. P \in SUBSET DOMAIN seq /\ \A i \in P : seq[i] \in nodes
  OBVIOUS
<1>2. \A i \in DOMAIN seq : seq[i] \in nodes => i \in P
  OBVIOUS
<1>3. Within(seq, nodes) = w
  BY DEF Within
<1> HIDE DEF P
<1>4. /\ w \in Seq(X) /\ Len(w) = Cardinality(P) /\ Cardinality(P) \in Nat
      /\ \A i \in P : \E k \in DOMAIN w : w[k] = seq[i]
      /\ \A k \in DOMAIN w : \E i \in P : w[k] = seq[i]
  BY ONLY <1>1, EntriesAt, seq \in Seq(X)
<1> HIDE DEF w
<1>5. \A k \in DOMAIN w : w[k] \in nodes
  BY ONLY <1>1, <1>4
<1>6. w \in [1..Len(w) -> X] /\ Len(w) \in Nat /\ DOMAIN w = 1..Len(w)
  BY ONLY <1>4, LenProperties
<1>7. w \in [1..Len(w) -> nodes]
  BY ONLY <1>5, <1>6
<1>8. w \in Seq(nodes)
  BY ONLY <1>6, <1>7, FunctionSeq
<1>9. \A k \in DOMAIN w : w[k] \in X
  BY ONLY <1>6
<1> QED BY ONLY <1>2, <1>3, <1>4, <1>5, <1>8, <1>9

\* The first entries of a list.
LEMMA FirstEntries ==
  ASSUME NEW X, NEW seq \in Seq(X), NEW k \in Int
  PROVE  FirstOf(seq, k) \in Seq(X)
<1>1. Len(seq) \in Nat /\ \A i \in 1..Len(seq) : seq[i] \in X
  BY LenProperties, ElementOfSeq
<1>2. Least(Len(seq), k) \in Int /\ Least(Len(seq), k) <= Len(seq)
  BY <1>1 DEF Least
<1>3. \A i \in 1..Least(Len(seq), k) : seq[i] \in X
  BY <1>1, <1>2
<1> QED BY <1>2, <1>3, SubSeqProperties DEF FirstOf

\* The elements of a sequence.
LEMMA Elements ==
  ASSUME NEW X, NEW seq \in Seq(X)
  PROVE  ToSet(seq) \subseteq X /\ IsFiniteSet(ToSet(seq)) /\ seq \in Seq(ToSet(seq))
<1>1. Len(seq) \in Nat /\ DOMAIN seq = 1..Len(seq) /\ \A i \in 1..Len(seq) : seq[i] \in X
  BY LenProperties, ElementOfSeq
<1>2. ToSet(seq) \subseteq X
  BY <1>1 DEF ToSet
<1>3. seq \in [1..Len(seq) -> ToSet(seq)]
  BY <1>1 DEF ToSet
<1>4. seq \in Surjection(1..Len(seq), ToSet(seq))
  BY <1>1, <1>3 DEF Surjection, ToSet
<1>5. IsFiniteSet(1..Len(seq))
  BY <1>1, FS_Interval
<1>6. IsFiniteSet(ToSet(seq))
  BY <1>4, <1>5, FS_Surjection
<1> QED BY <1>1, <1>2, <1>3, <1>6, FunctionSeq

-------------------------------------------------------------------------------
(* Servers and what is known of them. *)

\* The list names every server, at a first place of its own.
LEMMA ListedNodes ==
  /\ Listed \in Seq(Node) /\ IsFiniteSet(Node) /\ Listed[1] \in Node /\ Len(Listed) \in Nat
  /\ \A n \in Node : Order(n) \in Nat
  /\ \A m, n \in Node : Order(m) = Order(n) => m = n
<1>1. Listed \in Seq(Node) /\ Listed # <<>>
  BY Servers
<1>2. Len(Listed) \in Nat /\ DOMAIN Listed = 1..Len(Listed) /\ Len(Listed) # 0
  BY <1>1, LenProperties, EmptySeq
<1>3. IsFiniteSet(Node)
  BY <1>1, Elements DEF Node
<1>4. Listed[1] \in Node
  BY <1>1, <1>2, ElementOfSeq
<1>5. ASSUME NEW n \in Node
      PROVE  Order(n) \in 1..Len(Listed) /\ Listed[Order(n)] = n
  <2> DEFINE I == {i \in 1..Len(Listed) : Listed[i] = n}
  <2>1. I \subseteq Nat /\ I # {}
    BY <1>2 DEF Node, ToSet
  <2>2. \E m \in I : \A i \in I : m <= i
    BY <2>1, LeastOf
  <2>3. Order(n) = Min(I)
    BY <2>1 DEF Order, SelectInSeq
  <2>4. Min(I) \in I
    BY <2>2 DEF Min
  <2> QED BY <2>3, <2>4
<1> QED BY <1>1, <1>2, <1>3, <1>4, <1>5

\* A quotient of naturals.
LEMMA Quotient == \A a \in Nat, b \in Nat \ {0} : a \div b \in Nat
OBVIOUS

\* Latencies are not negative.
LEMMA Latency ==
  ASSUME NEW h \in HealthRecord
  PROVE  EffectiveLatency(h) \in Nat /\ Score(h) \in Int
<1>0. /\ h.succ \in Nat /\ h.fail \in Nat /\ h.cs \in Nat /\ h.cf \in Nat /\ h.inst \in Nat
      /\ h.last \in Nat /\ h.avg \in Nat /\ h.var \in Nat /\ h.ok \in BOOLEAN
  BY DEF HealthRecord
<1>1. Weighted(h) \in Nat
  BY <1>0 DEF Weighted
<1>2. (3 * h.var) \div 2 \in Nat
  BY <1>0
<1>3. (IF h.ok /\ h.succ \in 1..3 THEN (4 - h.succ) * 15 ELSE 0) \in Nat
  BY <1>0
<1>4. (IF h.succ + h.fail > 0 THEN (2500 * h.fail) \div ((h.succ + h.fail) * (1 + h.cs)) ELSE 0) \in Nat
  <2>1. 2500 * h.fail \in Nat
    BY <1>0
  <2>2. h.succ + h.fail > 0 => (h.succ + h.fail) * (1 + h.cs) \in Nat \ {0}
    BY <1>0
  <2> QED BY <2>1, <2>2, Quotient
<1>5. 3000 * h.cf \in Nat /\ 500 * h.inst \in Nat
  BY <1>0
<1>6. EffectiveLatency(h) \in Nat
  BY <1>1, <1>2, <1>3, <1>4, <1>5 DEF EffectiveLatency
<1> QED BY <1>0, <1>6 DEF Score, ScoreAt

-------------------------------------------------------------------------------
(* The ranking of the reserves. *)

\* Ranks that tell the servers apart, as those of rankManagedReserveCandidates do.
Ranked(nodes, rank) ==
    \A n \in nodes : rank[n].tier \in Int /\ rank[n].score \in Int /\ rank[n].order = Order(n)

\* The ranks of healthy candidates are ranks of that kind.
LEMMA RanksOf ==
  ASSUME NEW ok, ok \subseteq Node, NEW health \in [Node -> HealthRecord], NEW S, S \subseteq ok
  PROVE  Ranked(S, Ranks(ok, health)) /\ DOMAIN Ranks(ok, health) = ok
<1>1. \A n \in S : health[n] \in HealthRecord /\ Ranks(ok, health)[n] = Rank(health[n], n)
  BY DEF Ranks
<1>2. \A n \in S : Score(health[n]) \in Int
  BY <1>1, Latency
<1>3. \A h : managedReserveHealthTier(h) \in Int
  BY DEF managedReserveHealthTier
<1> QED BY <1>1, <1>2, <1>3 DEF Ranked, Rank, Ranks

\* The list in the order of the ranks holds servers of the set.
LEMMA SortedPlaces ==
  ASSUME NEW nodes, nodes \subseteq Node, NEW rank, Ranked(nodes, rank)
  PROVE  SortedByRank(nodes, rank) \in Seq(nodes)
<1> DEFINE R == {p \in nodes \X nodes : RanksBefore(rank[p[1]], rank[p[2]])}
           Place(k) == CHOOSE n \in nodes : Cardinality({m \in nodes : RanksBefore(rank[m], rank[n])}) = k - 1
           f == SortedByRank(nodes, rank)
<1>1. IsFiniteSet(nodes) /\ Cardinality(nodes) \in Nat
  BY ListedNodes, FS_Subset, FS_CardinalityType
<1>2. Ordered(nodes, R)
  <2>1. \A n \in nodes : rank[n].tier \in Int /\ rank[n].score \in Int /\ rank[n].order \in Nat
    BY ListedNodes DEF Ranked
  <2>2. \A m, n \in nodes : rank[m].order = rank[n].order => m = n
    BY ListedNodes DEF Ranked
  <2>3. \A m, n \in nodes : <<m, n>> \in R <=> RanksBefore(rank[m], rank[n])
    OBVIOUS
  <2> HIDE DEF R
  <2>4. \A n \in nodes : ~RanksBefore(rank[n], rank[n])
    BY ONLY <2>1 DEF RanksBefore
  <2>5. \A l, m, n \in nodes : RanksBefore(rank[l], rank[m]) /\ RanksBefore(rank[m], rank[n]) => RanksBefore(rank[l], rank[n])
    BY ONLY <2>1 DEF RanksBefore
  <2>6. \A m, n \in nodes : m = n \/ RanksBefore(rank[m], rank[n]) \/ RanksBefore(rank[n], rank[m])
    BY ONLY <2>1, <2>2 DEF RanksBefore
  <2> QED BY ONLY <2>3, <2>4, <2>5, <2>6 DEF Ordered
<1>3. \A n \in nodes : Before(nodes, R, n) = {m \in nodes : RanksBefore(rank[m], rank[n])}
  BY DEF Before
<1> HIDE DEF R
<1>4. \A k \in 1..Cardinality(nodes) : \E n \in nodes : Cardinality(Before(nodes, R, n)) = k - 1
  BY ONLY <1>1, <1>2, Placed
<1>5. \A k \in 1..Cardinality(nodes) :
         \E n \in nodes : Cardinality({m \in nodes : RanksBefore(rank[m], rank[n])}) = k - 1
  BY ONLY <1>3, <1>4
<1>6. \A k \in 1..Cardinality(nodes) : Place(k) \in nodes
  BY ONLY <1>5
<1>7. f = [k \in 1..Cardinality(nodes) |-> Place(k)]
  BY DEF SortedByRank
<1> HIDE DEF Place, f
<1>8. f \in [1..Cardinality(nodes) -> nodes]
  BY ONLY <1>6, <1>7
<1> QED BY ONLY <1>1, <1>8, FunctionSeq DEF f

\* So does the list after an equivalent server of another subscription was moved up.
LEMMA SortedNodes ==
  ASSUME NEW nodes, nodes \subseteq Node, NEW rank, Ranked(nodes, rank)
  PROVE  Sorted(nodes, rank) \in Seq(nodes)
<1> DEFINE r == SortedByRank(nodes, rank)
           from == {i \in 3..Len(r) : /\ rank[r[i]].sub # rank[r[1]].sub
                                      /\ \A j \in 3..i : /\ rank[r[j]].tier = rank[r[2]].tier
                                                        /\ rank[r[j]].score >= rank[r[2]].score - 100}
<1>1. r \in Seq(nodes) /\ Len(r) \in Nat /\ DOMAIN r = 1..Len(r) /\ \A i \in 1..Len(r) : r[i] \in nodes
  BY SortedPlaces, LenProperties, ElementOfSeq
<1>2. Sorted(nodes, rank) = r \/ Sorted(nodes, rank) = Moved(r, from)
  BY DEF Sorted, preferEquivalentDifferentSubscription
<1>3. from \subseteq 3..Len(r)
  OBVIOUS
<1> HIDE DEF r, from
<1>4. CASE from # {}
  <2>1. from \subseteq Nat
    BY ONLY <1>1, <1>3
  <2>2. \E m \in from : \A n \in from : m <= n
    BY ONLY <1>4, <2>1, LeastOf
  <2>3. Min(from) \in from
    BY ONLY <2>2 DEF Min
  <2>4. Min(from) \in 3..Len(r)
    BY ONLY <1>3, <2>3
  <2> DEFINE m == Min(from)
             g == Raised(r, m)
  <2> HIDE DEF m
  <2>5. g = [k \in 1..Len(r) |-> r[CASE k = 2 -> m [] k \in 3..m -> k - 1 [] OTHER -> k]]
    BY ONLY <1>1 DEF Raised
  <2>6. \A k \in 1..Len(r) : (CASE k = 2 -> m [] k \in 3..m -> k - 1 [] OTHER -> k) \in 1..Len(r)
    BY ONLY <1>1, <2>4 DEF m
  <2>7. g \in [1..Len(r) -> nodes]
    BY ONLY <1>1, <2>5, <2>6
  <2> HIDE DEF g
  <2>8. g \in Seq(nodes)
    BY ONLY <1>1, <2>7, FunctionSeq
  <2>9. Moved(r, from) = g
    BY ONLY <1>4 DEF Moved, g, m
  <2> QED BY ONLY <1>1, <1>2, <2>8, <2>9
<1>5. CASE from = {}
  BY ONLY <1>1, <1>2, <1>5 DEF Moved
<1> QED BY <1>4, <1>5

-------------------------------------------------------------------------------
(* The best server of a list. *)

\* Among servers there is a best one, and of several the first.
LEMMA BestNode ==
  ASSUME NEW nodes \in Seq(Node), nodes # <<>>, NEW health \in [Node -> HealthRecord]
  PROVE  \E i \in DOMAIN nodes : SelectBestNode(nodes, health) = nodes[i]
<1> DEFINE D == DOMAIN nodes
           h(i) == health[nodes[i]]
           lat(i) == EffectiveLatency(h(i))
           okay(i) == h(i).ok
           fine(i) == lat(i) \in 1..300
<1>1. Len(nodes) \in Nat \ {0} /\ D = 1..Len(nodes) /\ \A i \in D : nodes[i] \in Node
  BY LenProperties, ElementOfSeq, EmptySeq
<1>2. \A i \in D : h(i) \in HealthRecord /\ lat(i) \in Nat /\ okay(i) \in BOOLEAN
  BY <1>1, Latency DEF HealthRecord
<1>3. \A i, j \in D : Better(h(i), h(j)) <=>
         \/ okay(i) /\ ~okay(j)
         \/ okay(i) = okay(j) /\ fine(i) /\ ~fine(j)
         \/ okay(i) = okay(j) /\ fine(i) = fine(j) /\ lat(i) > 0 /\ (lat(j) = 0 \/ lat(i) < lat(j))
  <2> TAKE i, j \in D
  <2> DEFINE a == lat(i)
             b == lat(j)
             g == h(i)
             k == h(j)
  <2>1. a \in Nat /\ b \in Nat /\ g.ok \in BOOLEAN /\ k.ok \in BOOLEAN
    BY <1>2
  <2>2. Better(g, k) = BetterAt(g, a, k, b)
    BY DEF Better
  <2> HIDE DEF a, b, g, k
  <2>3. BetterAt(g, a, k, b) <=>
         \/ g.ok /\ ~k.ok
         \/ g.ok = k.ok /\ a \in 1..300 /\ ~(b \in 1..300)
         \/ g.ok = k.ok /\ (a \in 1..300) = (b \in 1..300) /\ a > 0 /\ (b = 0 \/ a < b)
    <3> DEFINE x == a \in 1..300
               y == b \in 1..300
    <3>1. x \in BOOLEAN /\ y \in BOOLEAN
      OBVIOUS
    <3>2. BetterAt(g, a, k, b) =
            CASE g.ok # k.ok -> g.ok
              [] g.ok = k.ok /\ x # y -> x
              [] OTHER -> IF a > 0 /\ b > 0 /\ a # b THEN a < b
                          ELSE IF (a > 0) # (b > 0) THEN a > 0
                          ELSE ScoreAt(g, a) > ScoreAt(k, b)
      BY ONLY DEF BetterAt
    <3> HIDE DEF x, y
    <3>3. CASE g.ok # k.ok
      BY ONLY <2>1, <3>2, <3>3
    <3>4. CASE g.ok = k.ok /\ x # y
      BY ONLY <2>1, <3>1, <3>2, <3>4, ZenonT(60) DEF x, y
    <3>5. CASE g.ok = k.ok /\ x = y
      <4>1. BetterAt(g, a, k, b) = IF a > 0 /\ b > 0 /\ a # b THEN a < b
                                   ELSE IF (a > 0) # (b > 0) THEN a > 0
                                   ELSE ScoreAt(g, a) > ScoreAt(k, b)
        BY ONLY <3>2, <3>5
      <4>2. CASE a > 0 /\ b > 0 /\ a # b
        <5>1. BetterAt(g, a, k, b) <=> a < b
          BY ONLY <4>1, <4>2
        <5> HIDE DEF a, b
        <5>2. a > 0 /\ b # 0 /\ ~(g.ok /\ ~k.ok) /\ ~(x /\ ~y) /\ (x = y) /\ g.ok = k.ok
          BY ONLY <2>1, <3>1, <3>5, <4>2
        <5> QED BY ONLY <5>1, <5>2 DEF x, y
      <4>3. CASE a = b
        <5>1. ~(ScoreAt(g, a) > ScoreAt(k, b))
          BY ONLY <2>1, <3>5, <4>3 DEF ScoreAt
        <5>2. ~BetterAt(g, a, k, b)
          BY ONLY <2>1, <4>1, <4>3, <5>1
        <5> QED BY ONLY <2>1, <3>1, <3>5, <4>3, <5>2 DEF x, y
      <4>4. CASE a # b /\ (a = 0 \/ b = 0)
        <5>1. BetterAt(g, a, k, b) <=> a > 0
          <6>1. ~(a > 0 /\ b > 0 /\ a # b)
            BY ONLY <2>1, <4>4
          <6>2. (a > 0) # (b > 0)
            <7>1. CASE a = 0
              <8>1. ~(a > 0) /\ b > 0
                BY ONLY <2>1, <4>4, <7>1
              <8> QED BY ONLY <8>1
            <7>2. CASE b = 0
              <8>1. ~(b > 0) /\ a > 0
                BY ONLY <2>1, <4>4, <7>2
              <8> QED BY ONLY <8>1
            <7> QED BY ONLY <4>4, <7>1, <7>2
          <6> QED BY ONLY <4>1, <6>1, <6>2
        <5>2. a > 0 => b = 0
          BY ONLY <4>4
        <5>3. ~(g.ok /\ ~k.ok) /\ ~(x /\ ~y) /\ (x = y) /\ g.ok = k.ok
          BY ONLY <2>1, <3>1, <3>5
        <5> QED BY ONLY <5>1, <5>2, <5>3 DEF x, y
      <4> QED BY ONLY <2>1, <4>2, <4>3, <4>4
    <3> QED BY ONLY <2>1, <3>1, <3>3, <3>4, <3>5
  <2> QED BY ONLY <2>2, <2>3 DEF a, b, g, k
<1> HIDE DEF D, h, lat, okay, fine
<1>4. \E A \in SUBSET D : A # {} /\ \A i \in A, j \in D : okay(j) => okay(i)
  <2>1. CASE \E i \in D : okay(i)
    <3>1. LET A == {i \in D : okay(i)} IN A \in SUBSET D /\ A # {} /\ \A i \in A, j \in D : okay(j) => okay(i)
      BY ONLY <2>1
    <3> QED BY ONLY <3>1
  <2>2. CASE ~\E i \in D : okay(i)
    BY ONLY <1>1, <2>2
  <2> QED BY ONLY <2>1, <2>2
<1>5. PICK A \in SUBSET D : A # {} /\ \A i \in A, j \in D : okay(j) => okay(i)
  BY ONLY <1>4
<1>5a. \E B \in SUBSET D : /\ B # {} /\ \A i \in B, j \in D : okay(j) => okay(i)
                           /\ \A i \in B, j \in D : okay(i) = okay(j) => (j \in B)
  <2> DEFINE B == {i \in D : \E j \in A : okay(i) = okay(j)}
  <2>1. B \in SUBSET D /\ B # {} /\ \A i \in B, j \in D : okay(j) => okay(i)
    BY ONLY <1>5, <1>2
  <2>2. \A i \in B, j \in D : okay(i) = okay(j) => j \in B
    BY ONLY <1>5
  <2> QED BY ONLY <2>1, <2>2
<1>6. PICK B \in SUBSET D : /\ B # {} /\ \A i \in B, j \in D : okay(j) => okay(i)
                            /\ \A i \in B, j \in D : okay(i) = okay(j) => (j \in B)
  BY ONLY <1>5a
<1>7. \E C \in SUBSET B : /\ C # {} /\ \A i \in C, j \in B : fine(j) => fine(i)
                          /\ \A i \in C, j \in B : fine(i) = fine(j) => (j \in C)
  <2>1. CASE \E i \in B : fine(i)
    <3> DEFINE C == {i \in B : fine(i)}
    <3>1. C \in SUBSET B /\ C # {} /\ \A i \in C, j \in B : fine(j) => fine(i)
      BY ONLY <2>1
    <3>2. \A i \in C, j \in B : fine(i) = fine(j) => j \in C
      OBVIOUS
    <3> QED BY ONLY <3>1, <3>2
  <2>2. CASE ~\E i \in B : fine(i)
    BY ONLY <1>6, <2>2
  <2> QED BY ONLY <2>1, <2>2
<1>8. PICK C \in SUBSET B : /\ C # {} /\ \A i \in C, j \in B : fine(j) => fine(i)
                            /\ \A i \in C, j \in B : fine(i) = fine(j) => (j \in C)
  BY ONLY <1>7
<1>9. \E E \in SUBSET C : /\ E # {}
                          /\ \A i \in E, j \in C : ~(lat(j) > 0 /\ (lat(i) = 0 \/ lat(j) < lat(i)))
                          /\ \A i \in E, j \in C : j \notin E => lat(i) > 0 /\ (lat(j) = 0 \/ lat(i) < lat(j))
  <2>1. CASE \E i \in C : lat(i) > 0
    <3> DEFINE L == {lat(i) : i \in {j \in C : lat(j) > 0}}
    <3>1. L \subseteq Nat /\ L # {}
      BY ONLY <1>2, <1>6, <1>8, <2>1
    <3>2. PICK l \in L : \A m \in L : l <= m
      BY ONLY <3>1, LeastOf
    <3> DEFINE E == {i \in C : lat(i) = l}
    <3>3. E \in SUBSET C /\ E # {}
      BY ONLY <3>2
    <3>4. l \in Nat /\ l > 0 /\ \A i \in C : lat(i) \in Nat /\ (lat(i) > 0 => l <= lat(i))
      BY ONLY <1>2, <1>6, <1>8, <3>1, <3>2
    <3>5. \A i \in E, j \in C : ~(lat(j) > 0 /\ (lat(i) = 0 \/ lat(j) < lat(i)))
      BY ONLY <3>4
    <3>6. \A i \in E, j \in C : j \notin E => lat(i) > 0 /\ (lat(j) = 0 \/ lat(i) < lat(j))
      BY ONLY <3>4
    <3> QED BY ONLY <3>3, <3>5, <3>6
  <2>2. CASE ~\E i \in C : lat(i) > 0
    BY ONLY <1>2, <1>6, <1>8, <2>2
  <2> QED BY ONLY <2>1, <2>2
<1>10. PICK E \in SUBSET C : /\ E # {}
                             /\ \A i \in E, j \in C : ~(lat(j) > 0 /\ (lat(i) = 0 \/ lat(j) < lat(i)))
                             /\ \A i \in E, j \in C : j \notin E => lat(i) > 0 /\ (lat(j) = 0 \/ lat(i) < lat(j))
  BY ONLY <1>9
<1>11. PICK e \in E : \A i \in E : e <= i
  <2>1. \A i \in E : i \in C /\ i \in B
    OBVIOUS
  <2>2. \A i \in E : i \in D
    BY <2>1
  <2>3. \A i \in E : i \in Nat
    BY ONLY <1>1, <2>2
  <2>4. E \subseteq Nat /\ E # {}
    BY ONLY <1>10, <2>3
  <2> QED BY ONLY <2>4, LeastOf
<1>12. e \in C /\ e \in B /\ e \in D
  BY ONLY <1>6, <1>8, <1>10, <1>11
<1>13. \A j \in D \ {e} : IF j < e THEN Better(h(e), h(j)) ELSE ~Better(h(j), h(e))
  <2> TAKE j \in D \ {e}
  <2>1. ~Better(h(j), h(e))
    <3>1. okay(j) => okay(e)
      BY ONLY <1>6, <1>12
    <3>2. okay(j) = okay(e) => j \in B
      BY ONLY <1>6, <1>12
    <3>3. j \in B /\ fine(j) => fine(e)
      BY ONLY <1>8, <1>12
    <3>4. j \in B /\ fine(j) = fine(e) => j \in C
      BY ONLY <1>8, <1>12
    <3>5. j \in C => ~(lat(j) > 0 /\ (lat(e) = 0 \/ lat(j) < lat(e)))
      BY ONLY <1>10, <1>11
    <3> QED BY ONLY <1>3, <1>12, <3>1, <3>2, <3>3, <3>4, <3>5
  <2>2. j < e => Better(h(e), h(j))
    <3> SUFFICES ASSUME j < e PROVE Better(h(e), h(j))
      OBVIOUS
    <3>1. j \notin E
      BY ONLY <1>1, <1>11, <1>12, j < e, j \in D \ {e}
    <3>2. CASE j \notin B
      <4>1. okay(e) /\ ~okay(j)
        BY ONLY <1>2, <1>6, <1>12, <3>2
      <4> QED BY ONLY <1>3, <1>12, <4>1
    <3>3. CASE j \in B /\ j \notin C
      <4>1. fine(e) /\ ~fine(j) /\ okay(e) = okay(j)
        <5>1. fine(e) \in BOOLEAN /\ fine(j) \in BOOLEAN
          BY ONLY DEF fine
        <5>2. fine(j) => fine(e)
          BY ONLY <1>8, <1>12, <3>3
        <5>3. fine(e) # fine(j)
          BY ONLY <1>8, <1>12, <3>3
        <5>4. okay(j) => okay(e)
          BY ONLY <1>6, <1>12
        <5>5. okay(e) => okay(j)
          BY ONLY <1>6, <1>12, <3>3
        <5>6. okay(e) \in BOOLEAN /\ okay(j) \in BOOLEAN
          BY ONLY <1>2, <1>12
        <5> QED BY ONLY <5>1, <5>2, <5>3, <5>4, <5>5, <5>6
      <4> QED BY ONLY <1>3, <1>12, <4>1
    <3>4. CASE j \in C
      <4>1. lat(e) > 0 /\ (lat(j) = 0 \/ lat(e) < lat(j))
        BY ONLY <1>10, <1>11, <3>1, <3>4
      <4>2. okay(e) = okay(j) /\ fine(e) = fine(j)
        <5>1. fine(e) \in BOOLEAN /\ fine(j) \in BOOLEAN
          BY ONLY DEF fine
        <5>2. okay(e) \in BOOLEAN /\ okay(j) \in BOOLEAN
          BY ONLY <1>2, <1>12
        <5>3. (okay(e) <=> okay(j)) /\ (fine(e) <=> fine(j))
          BY ONLY <1>6, <1>8, <1>12, <3>4
        <5> QED BY ONLY <5>1, <5>2, <5>3
      <4> QED BY ONLY <1>3, <1>12, <4>1, <4>2
    <3> QED BY ONLY <3>2, <3>3, <3>4
  <2> QED BY ONLY <2>1, <2>2
<1>14. \E i \in DOMAIN nodes : \A j \in DOMAIN nodes \ {i} :
            IF j < i THEN Better(health[nodes[i]], health[nodes[j]])
            ELSE ~Better(health[nodes[j]], health[nodes[i]])
  BY ONLY <1>12, <1>13 DEF D, h
<1> DEFINE best == CHOOSE i \in DOMAIN nodes : \A j \in DOMAIN nodes \ {i} :
            IF j < i THEN Better(health[nodes[i]], health[nodes[j]])
            ELSE ~Better(health[nodes[j]], health[nodes[i]])
<1>15. best \in DOMAIN nodes
  BY ONLY <1>14
<1> HIDE DEF best
<1>16. SelectBestNode(nodes, health) = nodes[best]
  BY ONLY DEF SelectBestNode, best
<1> QED BY ONLY <1>15, <1>16

-------------------------------------------------------------------------------
(* The invariant. *)

\* The scopes of an automatic selection, and the types of the state file, of a decision
\* and of what the processes hold.
Scope == Scopes \cup {"all"} \cup {SubOf[n] : n \in Node}
Health == [Node -> HealthRecord]
Backoffs == [Node -> [count : Nat, until : Nat]]
States == [mode : {"off", "auto", "manual"}, sub : Scope \cup {None}, node : Node \cup {None}, connected : BOOLEAN,
           scope : Scope \cup {None}, failed : BOOLEAN, health : Health, backoff : Backoffs,
           outs : Seq(Entry), switched : 0..MaxTime]
Xrays == [outs : SUBSET Node, sel : Node \cup {None}]
Decisions == [healthy : BOOLEAN, sel : Node \cup {None}, switch : BOOLEAN, health : Health]
Checks == [snap : States, hid : SUBSET Node, d : Decisions]
Connects == [kind : {"connect"}, scope : Scope, snap : States, hid : SUBSET Node, d : Decisions]
Measures == [kind : {"one", "all"}, nodes : SUBSET Node, out : Outcome, at : 0..MaxTime, seen : Health]
Keeps == [snap : States, hid : SUBSET Node, take : SUBSET Node, new : SUBSET Node, at : 0..MaxTime]
Tries == [kind : {"connect"}, who : {"daemon", "client"}, scope : Scope \cup {None}, snap : States, d : Decisions,
          tried : SUBSET Node, left : Nat]
Queues == [kind : {"reserves"}, who : {"daemon"}, mode : {"auto", "manual"}, queue : Seq(Node), outs : Seq(Entry)]

CacheOK == cache # None => cache.health \in Health /\ cache.failed \in BOOLEAN
Typed ==
    /\ st \in States /\ CacheOK
    /\ hidden \in SUBSET Node /\ now \in 0..MaxTime /\ xr \in Xrays
    /\ check # None => check \in Checks
    /\ ask # None => ask \in Connects \cup Measures
    /\ keep # None => keep \in Keeps
    /\ loop # None => loop \in Tries \cup Queues

\* A server is listed as the active one; a connection has a server that is, and is not
\* one of a state that is off; the running Xray has its outbound and is pinned to it.
Active(outs, n) == \E i \in DOMAIN outs : outs[i].node = n /\ outs[i].role = "active"
Sound(s) == (s.mode = "off" => ~s.connected) /\ (Live(s) => Active(s.outs, s.node))
Routes(s, x) == Live(s) => x.sel = s.node /\ s.node \in x.outs
Pinned == Sound(st) /\ Routes(st, xr)

\* No observation is of the future; none is older than the one it is put over.
NoLater(health, at) == \A n \in Node : health[n].at <= at
Newer(old, new) == \A n \in Node : old[n].at <= new[n].at
Timed == NoLater(st.health, now) /\ (cache # None => NoLater(cache.health, now))

\* The time of the last automatic change is the one in the state file.
Recorded == st.switched = moved

\* A decision names a server; one made over a snapshot, one that is not hidden or is in use.
Selects(d) == d.healthy => d.sel \in Node
Decided(s, h, d) == d.healthy => d.sel \notin h \/ (d.sel = s.node /\ Live(s))
Ripe(s, d, at) ==
    (/\ Live(s) /\ d.healthy /\ d.sel # s.node
     /\ SubOf[s.node] = s.sub /\ ~Emergency(d.health[s.node], Policy))
    => at - s.switched >= Policy.cooldown

CheckOK ==
    check # None =>
        /\ check.snap.mode = "auto" /\ Selects(check.d) /\ Decided(check.snap, check.hid, check.d)
        /\ Newer(check.snap.health, check.d.health) /\ NoLater(check.d.health, now)
        /\ Ripe(check.snap, check.d, now)
AskOK ==
    ask # None =>
        /\ ask.kind = "connect" =>
             Selects(ask.d) /\ Newer(ask.snap.health, ask.d.health) /\ NoLater(ask.d.health, now)
        /\ ask.kind # "connect" => /\ ask.at <= now /\ NoLater(ask.seen, now)
                                   /\ \A n \in ask.nodes : ask.seen[n].at = ask.at
KeepOK == keep # None => NoLater(keep.snap.health, keep.at) /\ keep.at <= now

\* The state that the last of the attempts may write names the connection there is.
Holds(snap, s) ==
    /\ Live(snap) => Live(s) /\ s.node = snap.node /\ Active(snap.outs, snap.node)
    /\ snap.switched = s.switched
LoopOK ==
    loop # None =>
        /\ loop.kind = "connect" => /\ Holds(loop.snap, st) /\ Selects(loop.d)
                                    /\ Newer(st.health, loop.d.health) /\ NoLater(loop.d.health, now)
        /\ loop.kind = "reserves" => /\ Live(st) /\ st.mode = loop.mode /\ loop.queue # <<>>
                                     /\ \A i \in DOMAIN loop.queue : loop.queue[i] \notin hidden
Inv == /\ Typed /\ Pinned /\ Timed /\ Recorded
       /\ CheckOK /\ AskOK /\ KeepOK /\ LoopOK

-------------------------------------------------------------------------------
(* Observations. *)

\* The assumptions on the constants, one by one.
LEMMA Bounds == /\ MaxTime \in Nat \ {0} /\ MaxAttempts \in Nat \ {0} /\ ReserveLimit \in Nat /\ ProbeLimit \in Nat
                /\ None \notin Node /\ Policy.threshold \in Nat /\ Policy.cooldown \in Nat
                /\ \A out \in Outcome : \A n \in Node : out[n] \in Nat
BY Constants, PolicyAssumption

\* What a measurement makes of a record: one of its time.
LEMMA Succeeded ==
  ASSUME NEW h \in HealthRecord, NEW latency \in Nat, NEW at \in Nat
  PROVE  Success(h, latency, at) \in HealthRecord /\ Success(h, latency, at).at = at
<1>0. /\ h.succ \in Nat /\ h.fail \in Nat /\ h.cs \in Nat /\ h.cf \in Nat /\ h.inst \in 0..20
      /\ h.last \in Nat /\ h.avg \in Nat /\ h.var \in Nat /\ h.ok \in BOOLEAN
  BY DEF HealthRecord
<1> DEFINE dev == Distance(latency, h.avg)
           v == IF h.avg = 0 THEN h.var ELSE IF h.var = 0 THEN dev ELSE (4 * h.var + dev) \div 5
           a == IF h.avg = 0 THEN latency ELSE (4 * h.avg + latency) \div 5
           i == Greatest(h.inst - 1, 0)
<1>1. dev \in Nat
  BY <1>0 DEF Distance
<1> HIDE DEF dev
<1>2. v \in Nat /\ a \in Nat
  BY <1>0, <1>1
<1>3. i \in 0..20
  BY <1>0 DEF Greatest
<1>4. Success(h, latency, at) = [h EXCEPT !.ok = TRUE, !.succ = h.succ + 1, !.cs = h.cs + 1, !.cf = 0, !.at = at,
                                          !.inst = i, !.last = latency, !.var = v, !.avg = a]
  BY <1>0 DEF Success, HealthRecord, dev
<1> HIDE DEF v, a, i
<1> DEFINE sc == h.succ + 1
           cs == h.cs + 1
           p == [h EXCEPT !.ok = TRUE, !.succ = sc, !.cs = cs]
           q == [p EXCEPT !.cf = 0, !.at = at, !.inst = i]
           r == [q EXCEPT !.last = latency, !.var = v, !.avg = a]
<1>4a. sc \in Nat /\ cs \in Nat
  BY <1>0
<1>6. Success(h, latency, at) = r
  BY <1>4
<1> HIDE DEF sc, cs
<1>5. p \in HealthRecord
  BY <1>4a DEF HealthRecord
<1> HIDE DEF p
<1>7. q \in HealthRecord /\ q.at = at
  BY ONLY <1>3, <1>5, at \in Nat DEF HealthRecord
<1> HIDE DEF q
<1>8. r \in HealthRecord /\ r.at = at
  BY ONLY <1>2, <1>7, latency \in Nat DEF HealthRecord
<1> QED BY ONLY <1>6, <1>8

\* A failed probe leaves a record of its time, whatever the threshold.
LEMMA Failed ==
  ASSUME NEW h \in HealthRecord, NEW latency \in Nat, NEW at \in Nat, NEW threshold \in Nat
  PROVE  Failure(h, latency, at, threshold) \in HealthRecord /\ Failure(h, latency, at, threshold).at = at
<1>0. /\ h.succ \in Nat /\ h.fail \in Nat /\ h.cs \in Nat /\ h.cf \in Nat /\ h.inst \in 0..20
      /\ h.last \in Nat /\ h.avg \in Nat /\ h.var \in Nat /\ h.ok \in BOOLEAN
  BY DEF HealthRecord
<1> DEFINE ok == h.succ > 0 /\ h.cf + 1 < Greatest(threshold, 1)
           a == IF h.avg = 0 THEN latency ELSE h.avg
           i == Least(h.inst + 3, 20)
<1>1. ok \in BOOLEAN /\ a \in Nat /\ i \in 0..20
  BY <1>0 DEF Least
<1>2. Failure(h, latency, at, threshold) =
        [h EXCEPT !.ok = ok, !.fail = h.fail + 1, !.cs = 0, !.cf = h.cf + 1, !.at = at, !.inst = i,
                  !.last = latency, !.avg = a]
  BY <1>0 DEF Failure, HealthRecord
<1> HIDE DEF ok, a, i
<1> DEFINE f == h.fail + 1
           cf == h.cf + 1
           p == [h EXCEPT !.ok = ok, !.fail = f, !.cs = 0]
           q == [p EXCEPT !.cf = cf, !.at = at, !.inst = i]
           r == [q EXCEPT !.last = latency, !.avg = a]
<1>4. Failure(h, latency, at, threshold) = r
  BY <1>2
<1>4a. f \in Nat /\ cf \in Nat
  BY <1>0
<1> HIDE DEF f, cf
<1>3. p \in HealthRecord
  BY <1>1, <1>4a DEF HealthRecord
<1> HIDE DEF p
<1>5. q \in HealthRecord /\ q.at = at
  BY ONLY <1>1, <1>3, <1>4a, at \in Nat DEF HealthRecord
<1> HIDE DEF q
<1>6. r \in HealthRecord /\ r.at = at
  BY ONLY <1>1, <1>5, latency \in Nat DEF HealthRecord
<1> QED BY ONLY <1>4, <1>6

\* So does a failure that is forced up to the threshold.
LEMMA ForcedFailure ==
  ASSUME NEW h \in HealthRecord, NEW at \in Nat, NEW threshold \in Nat
  PROVE  ForceFailure(h, at, threshold) \in HealthRecord /\ ForceFailure(h, at, threshold).at = at
<1> DEFINE f == Failure(h, h.last, at, 1)
<1>1. h.last \in Nat
  BY DEF HealthRecord
<1>2. f \in HealthRecord /\ f.at = at
  <2>1. ASSUME NEW latency \in Nat, NEW one \in Nat
        PROVE  Failure(h, latency, at, one) \in HealthRecord /\ Failure(h, latency, at, one).at = at
    BY Failed, SMT
  <2>2. \A latency, one \in Nat :
          Failure(h, latency, at, one) \in HealthRecord /\ Failure(h, latency, at, one).at = at
    BY ONLY <2>1
  <2> QED BY ONLY <1>1, <2>2, 1 \in Nat DEF f
<1>3. ForceFailure(h, at, threshold) = [f EXCEPT !.cf = Greatest(f.cf, threshold)]
  BY <1>2 DEF ForceFailure, HealthRecord
<1> HIDE DEF f
<1>4. Greatest(f.cf, threshold) \in Nat
  BY <1>2 DEF Greatest, HealthRecord
<1> QED BY ONLY <1>2, <1>3, <1>4 DEF HealthRecord

\* A measurement of either outcome leaves a record of its time.
LEMMA MeasuredAt ==
  ASSUME NEW h \in HealthRecord, NEW latency \in Nat, NEW at \in Nat, NEW threshold \in Nat
  PROVE  Measure(h, latency, at, threshold) \in HealthRecord /\ Measure(h, latency, at, threshold).at = at
BY Succeeded, Failed, SMTT(30) DEF Measure

\* A server that was never measured has a record of time zero.
LEMMA Unmeasured == NoHealth \in HealthRecord /\ NoHealth.at = 0
BY DEF NoHealth, HealthRecord

\* Times are naturals; newer is transitive.
LEMMA Times ==
  ASSUME NEW health \in Health, NEW n \in Node
  PROVE  health[n] \in HealthRecord /\ health[n].at \in Nat
BY DEF Health, HealthRecord

\* Newer is reflexive and transitive.
LEMMA NewerStill ==
  ASSUME NEW a \in Health, NEW b \in Health, NEW c \in Health
  PROVE  Newer(a, a) /\ (Newer(a, b) /\ Newer(b, c) => Newer(a, c))
<1>1. \A n \in Node : a[n].at \in Nat /\ b[n].at \in Nat /\ c[n].at \in Nat
  BY Times
<1> QED BY ONLY <1>1 DEF Newer

\* What is no later than one time is no later than a greater one.
LEMMA Later ==
  ASSUME NEW a \in Health, NEW at \in Nat, NEW by \in Nat, at <= by, NoLater(a, at)
  PROVE  NoLater(a, by)
<1>1. \A n \in Node : a[n].at \in Nat
  BY Times
<1> QED BY <1>1 DEF NoLater

\* Of two sets of observations the newer ones (mergeProbeHealth).
LEMMA MergedHealth ==
  ASSUME NEW a \in Health, NEW b \in Health, NEW failed
  PROVE  /\ MergeProbeHealth(a, b, failed) \in Health /\ Newer(a, MergeProbeHealth(a, b, failed))
         /\ \A at \in Nat : NoLater(a, at) /\ NoLater(b, at) => NoLater(MergeProbeHealth(a, b, failed), at)
<1> DEFINE m == MergeProbeHealth(a, b, failed)
<1>1. \A n \in Node : a[n] \in HealthRecord /\ a[n].at \in Nat /\ b[n] \in HealthRecord /\ b[n].at \in Nat
  BY Times
<1>2. m = [n \in Node |-> IF Known(a[n]) /\ (n = failed \/ ~Known(b[n]) \/ a[n].at > b[n].at) THEN a[n] ELSE b[n]]
  BY DEF MergeProbeHealth, Health
<1> HIDE DEF m
<1>3. \A n \in Node : m[n] \in {a[n], b[n]} /\ a[n].at <= m[n].at
  BY ONLY <1>1, <1>2 DEF Known
<1>4. m \in Health
  BY ONLY <1>1, <1>2 DEF Health
<1>5. Newer(a, m)
  BY ONLY <1>3 DEF Newer
<1>6. \A at \in Nat : NoLater(a, at) /\ NoLater(b, at) => NoLater(m, at)
  BY ONLY <1>3 DEF NoLater
<1> QED BY ONLY <1>4, <1>5, <1>6 DEF m

\* A server that is counted as failed.
LEMMA ForcedAt ==
  ASSUME NEW a \in Health, NEW n \in Node, NEW at \in Nat, NoLater(a, at)
  PROVE  LET f == [a EXCEPT ![n] = ForceFailure(@, at, Policy.threshold)]
         IN  f \in Health /\ Newer(a, f) /\ NoLater(f, at)
<1> DEFINE f == [a EXCEPT ![n] = ForceFailure(@, at, Policy.threshold)]
<1>1. \A m \in Node : a[m] \in HealthRecord /\ a[m].at \in Nat
  BY Times
<1>2. ForceFailure(a[n], at, Policy.threshold) \in HealthRecord /\ ForceFailure(a[n], at, Policy.threshold).at = at
  BY <1>1, Bounds, ForcedFailure
<1>3. f = [m \in Node |-> IF m = n THEN ForceFailure(a[n], at, Policy.threshold) ELSE a[m]]
  BY DEF Health
<1> HIDE DEF f
<1>4. \A m \in Node : f[m] \in HealthRecord /\ a[m].at <= f[m].at /\ f[m].at <= at
  BY <1>1, <1>2, <1>3 DEF NoLater
<1>5. f \in Health /\ Newer(a, f) /\ NoLater(f, at)
  BY ONLY <1>3, <1>4 DEF Health, Newer, NoLater
<1> QED BY <1>5 DEF f

\* A current server that is hidden is recorded as failed now, and nothing else changes.
LEMMA HiddenForced ==
  ASSUME NEW s \in States, NEW health \in Health, NEW scope, NEW h, NEW at \in Nat, NoLater(health, at)
  PROVE  LET f == ForcedHealth(s, health, scope, h, at)
         IN  f \in Health /\ Newer(health, f) /\ NoLater(f, at)
<1> DEFINE cur == Current(s, scope)
           g == [health EXCEPT ![cur] = ForceFailure(@, at, Policy.threshold)]
           f == ForcedHealth(s, health, scope, h, at)
<1>1. f = health \/ (f = g /\ cur # None)
  BY DEF ForcedHealth, CurrentListed
<1>2. cur \in Node \cup {None}
  BY DEF Current, States
<1>3. CASE f = g /\ cur # None
  <2>1. cur \in Node
    BY <1>2, <1>3
  <2> HIDE DEF cur, f
  <2>2. g \in Health /\ Newer(health, g) /\ NoLater(g, at)
    BY ONLY <2>1, ForcedAt, health \in Health, at \in Nat, NoLater(health, at)
  <2>3. f \in Health /\ Newer(health, f) /\ NoLater(f, at)
    BY ONLY <1>3, <2>2
  <2> QED BY <2>3 DEF f
<1>4. CASE f = health
  BY <1>4, NewerStill
<1> QED BY <1>1, <1>3, <1>4

\* A round of probes.
LEMMA ProbedNodes ==
  ASSUME NEW health \in Health, NEW nodes, NEW out \in Outcome, NEW at \in Nat, NoLater(health, at)
  PROVE  LET p == probeSubscription(health, nodes, out, at)
         IN  /\ p \in Health /\ Newer(health, p) /\ NoLater(p, at)
             /\ \A n \in Node : n \in nodes => p[n].at = at
<1> DEFINE p == probeSubscription(health, nodes, out, at)
<1>1. \A n \in Node : health[n] \in HealthRecord /\ health[n].at \in Nat /\ out[n] \in Nat
  BY Times, Bounds
<1>2. \A n \in Node : LET m == Measure(health[n], out[n], at, Policy.threshold) IN m \in HealthRecord /\ m.at = at
  <2> TAKE n \in Node
  <2>1. health[n] \in HealthRecord /\ out[n] \in Nat /\ Policy.threshold \in Nat
    BY <1>1, Bounds
  <2>2. \A g \in HealthRecord, l \in Nat, t \in Nat :
           Measure(g, l, at, t) \in HealthRecord /\ Measure(g, l, at, t).at = at
    BY MeasuredAt
  <2> QED BY ONLY <2>1, <2>2
<1>3. p = [n \in Node |-> IF n \in nodes THEN Measure(health[n], out[n], at, Policy.threshold) ELSE health[n]]
  BY DEF probeSubscription
<1> HIDE DEF p
<1>4. \A n \in Node : /\ p[n] \in HealthRecord /\ health[n].at <= p[n].at /\ p[n].at <= at
                      /\ n \in nodes => p[n].at = at
  BY <1>1, <1>2, <1>3 DEF NoLater
<1>5. p \in Health /\ Newer(health, p) /\ NoLater(p, at)
  BY ONLY <1>3, <1>4 DEF Health, Newer, NoLater
<1> QED BY <1>4, <1>5 DEF p

\* What a pass observes is newer than the snapshot it started from, and not of the future.
LEMMA ProbedHealth ==
  ASSUME NEW s \in States, NEW scope, NEW h, NEW out \in Outcome, NEW egress, NEW at \in Nat, NoLater(s.health, at)
  PROVE  LET p == Probed(s, scope, h, out, egress, at)
         IN  p \in Health /\ Newer(s.health, p) /\ NoLater(p, at)
<1> DEFINE f == ForcedHealth(s, s.health, scope, h, at)
           m == probeSubscription(f, ToSet(autoSelectableNodes(scope, h)), out, at)
           cur == Current(s, scope)
           g == [m EXCEPT ![cur] = ForceFailure(@, at, Policy.threshold)]
           p == Probed(s, scope, h, out, egress, at)
<1>1. p = m \/ (p = g /\ cur # None)
  BY DEF Probed
<1>2. cur \in Node \cup {None} /\ s.health \in Health
  BY DEF Current, States
<1>3. f \in Health /\ Newer(s.health, f) /\ NoLater(f, at)
  BY <1>2, HiddenForced
<1> HIDE DEF f
<1>4. m \in Health /\ Newer(f, m) /\ NoLater(m, at)
  BY <1>3, ProbedNodes
<1> HIDE DEF m
<1>5. Newer(s.health, m)
  BY <1>2, <1>3, <1>4, NewerStill
<1>6. CASE p = g /\ cur # None
  <2>1. cur \in Node
    BY <1>2, <1>6
  <2> HIDE DEF cur, p
  <2>2. g \in Health /\ Newer(m, g) /\ NoLater(g, at)
    BY ONLY <1>4, <2>1, ForcedAt, at \in Nat
  <2>3. Newer(s.health, g)
    BY ONLY <1>2, <1>4, <1>5, <2>2, NewerStill
  <2>4. p \in Health /\ Newer(s.health, p) /\ NoLater(p, at)
    BY ONLY <1>6, <2>2, <2>3
  <2> QED BY <2>4 DEF p
<1>7. CASE p = m
  BY <1>4, <1>5, <1>7
<1> QED BY <1>1, <1>6, <1>7

-------------------------------------------------------------------------------
(* Decisions. *)

\* The servers that may be selected: those of the list that are not hidden.
LEMMA Selectable ==
  ASSUME NEW scope, NEW h
  PROVE  /\ autoSelectableNodes(scope, h) \in Seq(Node) /\ Len(autoSelectableNodes(scope, h)) \in Nat
         /\ \A i \in DOMAIN autoSelectableNodes(scope, h) : autoSelectableNodes(scope, h)[i] \notin h
<1> DEFINE P == {i \in DOMAIN Listed : Listed[i] \notin h /\ scope \in {"all", SubOf[Listed[i]]}}
<1>1. P \in SUBSET DOMAIN Listed /\ \A i \in P : Listed[i] \notin h
  OBVIOUS
<1>2. autoSelectableNodes(scope, h) = Entries(Listed, P)
  BY DEF autoSelectableNodes
<1> HIDE DEF P
<1>3. /\ Entries(Listed, P) \in Seq(Node) /\ Len(Entries(Listed, P)) \in Nat
      /\ \A k \in DOMAIN Entries(Listed, P) : \E i \in P : Entries(Listed, P)[k] = Listed[i]
  BY ONLY <1>1, ListedNodes, EntriesAt
<1> QED BY ONLY <1>1, <1>2, <1>3

\* What evaluateAutoSelection decides: a server that may be selected or the one in use; a
\* server in use that answers is only left after the cooldown.
LEMMA Evaluated ==
  ASSUME NEW s \in States, NEW scope, NEW h, NEW health \in Health, NEW at \in Nat, NEW probed
  PROVE  LET d == evaluateAutoSelection(s, scope, h, health, at, probed)
         IN  /\ d \in Decisions /\ d.health = health /\ Selects(d) /\ Decided(s, h, d)
             /\ scope \in {"all", s.sub} => Ripe(s, d, at)
<1> DEFINE nodes == autoSelectableNodes(scope, h)
           cur == Current(s, scope)
           cand == SelectBestNode(nodes, health)
           stay == MayStay(s, cur, IF cur = None THEN NoHealth ELSE health[cur], health[cand], at, probed)
           d == evaluateAutoSelection(s, scope, h, health, at, probed)
<1>1. d = NoDecision(health) \/ (nodes # <<>> /\ d = Decision(s, cur, IF stay THEN cur ELSE cand, health))
  BY DEF evaluateAutoSelection, Judge
<1>2. s.node \in Node \cup {None} /\ s.switched \in 0..MaxTime /\ None \notin Node
  BY Bounds DEF States
<1>3. cur # None => cur = s.node /\ Live(s) /\ cur \in Node
  BY <1>2 DEF Current, Live
<1>4. CASE d = NoDecision(health)
  BY <1>4 DEF NoDecision, Decisions, Selects, Decided, Ripe
<1>5. CASE nodes # <<>> /\ d = Decision(s, cur, IF stay THEN cur ELSE cand, health)
  <2>1. nodes \in Seq(Node) /\ \A i \in DOMAIN nodes : nodes[i] \notin h
    BY Selectable
  <2>2. \E i \in DOMAIN nodes : cand = nodes[i]
    <3> HIDE DEF nodes
    <3> QED BY <1>5, <2>1, BestNode DEF Health
  <2>3. cand \in Node /\ cand \notin h
    BY <2>1, <2>2, ElementOfSeq, LenProperties
  <2>4. stay => cur # None
    BY DEF MayStay, CurrentListed
  <2> DEFINE sel == IF stay THEN cur ELSE cand
  <2>5. sel \in Node
    BY <1>3, <2>3, <2>4
  <2>6. sel \notin h \/ (sel = s.node /\ Live(s))
    BY <1>3, <2>3, <2>4
  <2>7. ASSUME scope \in {"all", s.sub}, Live(s), sel # s.node, SubOf[s.node] = s.sub,
               ~Emergency(health[s.node], Policy)
        PROVE  at - s.switched >= Policy.cooldown
    <3>1. cur = s.node /\ cur # None
      BY <2>7 DEF Current, Live
    <3>2. ~stay
      BY <2>7, <3>1
    <3>3. s.connected /\ CurrentListed(s, cur)
      BY <2>7, <3>1 DEF Live, CurrentListed
    <3>4. ShouldSwitch(health[cur], health[cand], at, s.switched, Policy,
                       optimizationCandidateWins(health[cur], health[cand], probed))
      BY <3>1, <3>2, <3>3 DEF MayStay
    <3> QED BY <2>7, <3>1, <3>4 DEF ShouldSwitch
  <2> HIDE DEF sel, stay, cand, nodes, cur
  <2>8. d = [healthy |-> TRUE, sel |-> sel, switch |-> sel # cur \/ SubOf[sel] # s.sub, health |-> health]
    BY <1>5 DEF Decision, sel
  <2>9. (sel # cur \/ SubOf[sel] # s.sub) \in BOOLEAN
    OBVIOUS
  <2> HIDE DEF d
  <2>10. d \in Decisions /\ d.health = health /\ d.sel = sel
    BY <2>5, <2>8, <2>9 DEF Decisions
  <2>11. Selects(d) /\ Decided(s, h, d)
    BY ONLY <2>5, <2>6, <2>10 DEF Selects, Decided
  <2>12. scope \in {"all", s.sub} => Ripe(s, d, at)
    BY ONLY <2>7, <2>10 DEF Ripe
  <2> QED BY <2>10, <2>11, <2>12 DEF d
<1> QED BY <1>1, <1>4, <1>5

-------------------------------------------------------------------------------
(* What the daemon remembers. *)

\* The state with what the daemon remembers of it: the same connection, newer observations.
LEMMA MergedState ==
  ASSUME st \in States, CacheOK, now \in Nat, Timed
  PROVE  /\ Merged \in States /\ Newer(st.health, Merged.health) /\ NoLater(Merged.health, now)
         /\ Merged.mode = st.mode /\ Merged.sub = st.sub /\ Merged.node = st.node /\ Merged.connected = st.connected
         /\ Merged.scope = st.scope /\ Merged.backoff = st.backoff /\ Merged.outs = st.outs
         /\ Merged.switched = st.switched
<1>1. CASE Matches(cache, st)
  <2> DEFINE m == MergeProbeHealth(st.health, cache.health, None)
  <2>1. cache.health \in Health /\ cache.failed \in BOOLEAN /\ NoLater(cache.health, now) /\ NoLater(st.health, now)
    BY <1>1 DEF Matches, CacheOK, Timed
  <2>2. st.health \in Health
    BY DEF States
  <2>3. m \in Health /\ Newer(st.health, m) /\ NoLater(m, now)
    BY <2>1, <2>2, MergedHealth
  <2>4. Merged = [st EXCEPT !.health = m, !.failed = cache.failed]
    BY <1>1 DEF Merged, mergeAutoHealthState
  <2> HIDE DEF m
  <2> QED BY <2>1, <2>3, <2>4 DEF States
<1>2. CASE ~Matches(cache, st)
  <2>1. Merged = st
    BY <1>2 DEF Merged, mergeAutoHealthState
  <2>2. st.health \in Health
    BY DEF States
  <2> QED BY <2>1, <2>2, NewerStill DEF Timed
<1> QED BY <1>1, <1>2

\* The cache of the daemon holds observations that a state file held.
LEMMA RememberedState ==
  ASSUME NEW s \in States, NEW persisted, NoLater(s.health, now)
  PROVE  LET c == rememberAutoHealthState(s, persisted)
         IN  c # None => c.health \in Health /\ c.failed \in BOOLEAN /\ NoLater(c.health, now)
<1> DEFINE c == rememberAutoHealthState(s, persisted)
<1>1. SUFFICES ASSUME c # None PROVE c.health = s.health /\ c.failed = s.failed
  BY DEF States
<1> QED BY <1>1 DEF rememberAutoHealthState

\* A save keeps the state file and the cache well formed and no later than now.
LEMMA SavedState ==
  ASSUME NEW who, NEW s \in States, Save(who, s), CacheOK, Timed, NoLater(s.health, now), now' = now
  PROVE  st' = s /\ CacheOK' /\ Timed'
<1> DEFINE c == rememberAutoHealthState(s, TRUE)
<1>1. st' = s /\ (cache' = c \/ cache' = cache)
  BY DEF Save
<1>2. c # None => c.health \in Health /\ c.failed \in BOOLEAN /\ NoLater(c.health, now)
  BY RememberedState
<1> HIDE DEF c
<1>3. cache' # None => cache'.health \in Health /\ cache'.failed \in BOOLEAN /\ NoLater(cache'.health, now')
  BY <1>1, <1>2 DEF CacheOK, Timed
<1>4. NoLater(st'.health, now')
  BY <1>1
<1>5. CacheOK'
  BY <1>3 DEF CacheOK
<1>6. Timed'
  BY <1>3, <1>4 DEF Timed
<1> QED BY <1>1, <1>5, <1>6

-------------------------------------------------------------------------------
(* Attempts. *)

Roles == {"active", "reserve", "candidate", "draining"}

\* updateRuntimeOutbound sets one entry and leaves what the others say.
LEMMA Outbound ==
  ASSUME NEW outs \in Seq(Entry), NEW n \in Node, NEW role \in Roles, NEW verified \in 0..MaxTime,
         NEW retire \in 0..(MaxTime + 1)
  PROVE  LET o == SetOutbound(outs, n, role, verified, retire)
         IN  /\ o \in Seq(Entry) /\ (role = "active" => Active(o, n))
             /\ \A m : m # n /\ Active(outs, m) => Active(o, m)
<1> DEFINE I == {j \in 1..Len(outs) : outs[j].node = n}
           i == IndexOf(outs, n)
           v == IF verified = 0 /\ i > 0 THEN outs[i].verified ELSE verified
           new == [node |-> n, role |-> role, wins |-> 0, retire |-> retire, verified |-> v]
           o == SetOutbound(outs, n, role, verified, retire)
<1>1. Len(outs) \in Nat /\ DOMAIN outs = 1..Len(outs) /\ \A j \in 1..Len(outs) : outs[j] \in Entry
  BY LenProperties, ElementOfSeq
<1>2. i = 0 \/ (i \in 1..Len(outs) /\ outs[i].node = n)
  <2>1. i = IF I # {} THEN Min(I) ELSE 0
    BY DEF IndexOf, SelectInSeq
  <2>2. CASE I # {}
    <3>1. I \subseteq Nat
      BY <1>1
    <3>2. \E m \in I : \A j \in I : m <= j
      BY <2>2, <3>1, LeastOf
    <3>3. Min(I) \in I
      BY <3>2 DEF Min
    <3> QED BY <2>1, <2>2, <3>3
  <2> QED BY <2>1, <2>2
<1>3. o = IF i = 0 THEN Append(outs, new) ELSE ReplaceAt(outs, i, new)
  BY DEF SetOutbound
<1> HIDE DEF i, o
<1>4. v \in 0..MaxTime
  BY <1>1, <1>2 DEF Entry
<1> HIDE DEF v
<1>5. new \in Entry /\ new.node = n /\ new.role = role
  BY <1>4 DEF Entry, Roles
<1> HIDE DEF new
<1>6. CASE i = 0
  <2>1. o = Append(outs, new)
    BY <1>3, <1>6
  <2>2. o \in Seq(Entry) /\ Len(o) = Len(outs) + 1 /\ o[Len(outs) + 1] = new /\ \A j \in 1..Len(outs) : o[j] = outs[j]
    BY <1>1, <1>5, <2>1, AppendProperties
  <2>3. DOMAIN o = 1..(Len(outs) + 1)
    BY <2>2, LenProperties
  <2>4. role = "active" => Active(o, n)
    BY <1>1, <1>5, <2>2, <2>3 DEF Active
  <2>5. \A m : Active(outs, m) => Active(o, m)
    BY <1>1, <2>2, <2>3 DEF Active
  <2> QED BY <2>2, <2>4, <2>5 DEF o
<1>7. CASE i # 0
  <2>1. o = [outs EXCEPT ![i] = new] /\ i \in DOMAIN outs
    BY <1>1, <1>2, <1>3, <1>7 DEF ReplaceAt
  <2>2. o \in Seq(Entry)
    BY <1>5, <2>1, ExceptSeq, <1>1
  <2>3. DOMAIN o = DOMAIN outs /\ o[i] = new /\ \A j \in DOMAIN outs : j # i => o[j] = outs[j]
    BY ONLY <1>1, <2>1
  <2>4. role = "active" => Active(o, n)
    BY <1>5, <2>1, <2>3 DEF Active
  <2>5. \A m : m # n /\ Active(outs, m) => Active(o, m)
    BY <1>2, <1>7, <2>1, <2>3 DEF Active
  <2> QED BY <2>2, <2>4, <2>5 DEF o
<1> QED BY <1>6, <1>7

\* A selection that was applied.
LEMMA SelectedState ==
  ASSUME NEW s \in States, NEW n \in Node, NEW mode \in {"auto", "manual"}, NEW at \in 0..MaxTime
  PROVE  LET a == Selected(s, n, mode, at)
         IN  /\ a \in States /\ a.node = n /\ a.connected /\ a.mode = mode /\ a.health = s.health
             /\ a.switched = s.switched /\ Active(a.outs, n)
<1> DEFINE o == SetOutbound(s.outs, n, "active", at, 0)
           sub == SubOf[n]
           scope == IF mode = "auto" THEN s.scope ELSE None
           p == [s EXCEPT !.sub = sub, !.node = n, !.mode = mode, !.connected = TRUE]
           q == [p EXCEPT !.failed = FALSE, !.scope = scope, !.outs = o]
<1>1. Selected(s, n, mode, at) = q
  BY DEF Selected, States
<1>2. s.outs \in Seq(Entry) /\ 0 \in 0..(MaxTime + 1) /\ "active" \in Roles
  BY Bounds DEF States, Roles
<1>3. o \in Seq(Entry) /\ Active(o, n)
  BY <1>2, Outbound
<1>4. sub \in Scope \cup {None} /\ scope \in Scope \cup {None}
  BY DEF Scope, States
<1> HIDE DEF o, sub, scope
<1>5. p \in States /\ p.node = n /\ p.connected /\ p.mode = mode /\ p.health = s.health /\ p.switched = s.switched
  BY <1>4 DEF States
<1> HIDE DEF p
<1>6. /\ q \in States /\ q.node = n /\ q.connected /\ q.mode = mode /\ q.health = s.health
      /\ q.switched = s.switched /\ q.outs = o
  BY ONLY <1>3, <1>4, <1>5 DEF States
<1> HIDE DEF q
<1> QED BY ONLY <1>1, <1>3, <1>6

\* The outbounds of a live switch: the server in use stays listed as active until it is made.
LEMMA IntentOutbounds ==
  ASSUME NEW s \in States, NEW n \in Node, Live(s), n # s.node, NEW at \in 0..MaxTime
  PROVE  IntentOuts(s, n, at) \in Seq(Entry) /\ Active(IntentOuts(s, n, at), s.node) /\ SwitchedOuts(s, n, at) \in Seq(Entry)
<1> DEFINE o == SetOutbound(s.outs, s.node, "active", 0, 0)
           i == IntentOuts(s, n, at)
<1>1. /\ s.outs \in Seq(Entry) /\ s.node \in Node /\ 0 \in 0..(MaxTime + 1) /\ 0 \in 0..MaxTime
      /\ {"active", "reserve", "draining"} \subseteq Roles /\ at + 1 \in 0..(MaxTime + 1)
  BY Bounds DEF States, Roles, Live
<1>2. o \in Seq(Entry) /\ Active(o, s.node)
  BY <1>1, Outbound
<1>3. i = SetOutbound(o, n, "reserve", at, 0)
  BY DEF IntentOuts
<1> HIDE DEF o, i
<1>4. i \in Seq(Entry) /\ Active(i, s.node)
  BY <1>1, <1>2, <1>3, Outbound, SMTT(30)
<1> DEFINE r == at + 1
<1>5. SwitchedOuts(s, n, at) = SetOutbound(i, s.node, "draining", 0, r) /\ r \in 0..(MaxTime + 1)
  BY <1>1 DEF SwitchedOuts, i
<1> HIDE DEF r
<1>6. SwitchedOuts(s, n, at) \in Seq(Entry)
  BY <1>1, <1>4, <1>5, Outbound, SMTT(30)
<1> QED BY <1>4, <1>6 DEF i

\* How an attempt leaves the state a and the running Xray y.
Attempted(s, n, mode, res, a, y, at) ==
    /\ a \in States /\ y \in Xrays /\ Sound(a) /\ Routes(a, y) /\ a.switched = s.switched
    /\ Newer(s.health, a.health) /\ NoLater(a.health, at)
    /\ res \in Good => a.connected /\ a.node = n /\ a.mode = mode /\ a.health = s.health
    /\ res \notin Good => /\ Live(s) => Live(a) /\ a.node = s.node /\ a.mode = s.mode
                          /\ ~Live(s) => ~a.connected

\* A failed candidate is not tried for a while.
LEMMA BackoffRecord ==
  ASSUME NEW b \in [count : Nat, until : Nat], NEW at \in Nat
  PROVE  recordFailure(b, at) \in [count : Nat, until : Nat] /\ NoBackoff \in [count : Nat, until : Nat]
<1>1. managedCandidateBackoff(b.count + 1) \in Nat
  BY DEF managedCandidateBackoff
<1> QED BY <1>1 DEF recordFailure, NoBackoff

\* Every outcome of one attempt keeps the connection and the running Xray in step.
LEMMA Attempt ==
  ASSUME NEW s \in States, Sound(s), xr \in Xrays, NEW n \in Node, NEW mode \in {"auto", "manual"}, NEW skip,
         NEW at \in 0..MaxTime, NoLater(s.health, at), NEW res \in Results(s, n, skip, at)
  PROVE  Attempted(s, n, mode, res, StateAfter(s, n, mode, res, at), XrayAfter(s, n, res), at)
<1> DEFINE a == StateAfter(s, n, mode, res, at)
           y == XrayAfter(s, n, res)
<1>0. /\ s.health \in Health /\ s.outs \in Seq(Entry) /\ s.backoff \in Backoffs /\ at \in Nat /\ n # None
      /\ s.node \in Node \cup {None} /\ Newer(s.health, s.health) /\ xr.outs \subseteq Node
  BY Bounds, NewerStill DEF States, Xrays
<1>1. CASE res = "switched" 
  <2> DEFINE p == [s EXCEPT !.outs = SwitchedOuts(s, n, at)]
  <2>1. Live(s) /\ n # s.node /\ s.node \in Node
    BY <1>0, <1>1 DEF Results, Live
  <2>2. SwitchedOuts(s, n, at) \in Seq(Entry)
    BY <2>1, IntentOutbounds
  <2>3. p \in States /\ p.health = s.health /\ p.switched = s.switched
    BY <2>2 DEF States
  <2>4. a = Selected(p, n, mode, at) /\ y = [outs |-> xr.outs \cup {s.node, n}, sel |-> n]
    BY <1>1 DEF StateAfter, XrayAfter
  <2> HIDE DEF p, a
  <2>5. /\ a \in States /\ a.node = n /\ a.connected /\ a.mode = mode /\ a.health = s.health
        /\ a.switched = s.switched /\ Active(a.outs, n)
    BY <2>3, <2>4, SelectedState
  <2>6. y \in Xrays /\ Routes(a, y)
    BY <1>0, <2>1, <2>4, <2>5 DEF Xrays, Routes
  <2>7. Sound(a) /\ res \in Good
    BY <1>1, <2>5 DEF Sound, Good
  <2> QED BY <1>0, <2>5, <2>6, <2>7 DEF Attempted, a
<1>2. CASE res = "unverified"
  <2> DEFINE o == IntentOuts(s, n, at)
             b == [s.backoff EXCEPT ![n] = NoBackoff]
  <2>1. Live(s) /\ n # s.node /\ s.node \in Node
    BY <1>0, <1>2 DEF Results, Live
  <2>2. o \in Seq(Entry) /\ Active(o, s.node)
    BY <2>1, IntentOutbounds
  <2>3. b \in Backoffs
    BY <1>0 DEF Backoffs, NoBackoff
  <2>4. /\ a = [s EXCEPT !.outs = o, !.backoff = b, !.connected = TRUE, !.failed = TRUE]
        /\ y = [outs |-> xr.outs \cup {s.node, n}, sel |-> s.node]
    BY <1>2 DEF StateAfter, XrayAfter, Preserved
  <2> HIDE DEF o, b, a
  <2>5. /\ a \in States /\ a.node = s.node /\ a.connected /\ a.mode = s.mode /\ a.health = s.health
        /\ a.switched = s.switched /\ a.outs = o
    BY <2>2, <2>3, <2>4 DEF States
  <2>6. y \in Xrays /\ Routes(a, y)
    BY <1>0, <2>1, <2>4, <2>5 DEF Xrays, Routes
  <2>7. Sound(a) /\ res \notin Good /\ Live(a)
    BY <1>2, <2>1, <2>2, <2>5 DEF Sound, Good, Live
  <2> QED BY <1>0, <2>1, <2>5, <2>6, <2>7 DEF Attempted, a
<1>3. CASE res = "probe failed"
  <2> DEFINE b == [s.backoff EXCEPT ![n] = recordFailure(@, at)]
  <2>1. Live(s) /\ n # s.node /\ s.node \in Node
    BY <1>0, <1>3 DEF Results, Live
  <2>2. recordFailure(s.backoff[n], at) \in [count : Nat, until : Nat]
    BY <1>0, BackoffRecord DEF Backoffs
  <2>3. b \in Backoffs
    BY <1>0, <2>2 DEF Backoffs
  <2>4. /\ a = [s EXCEPT !.backoff = b, !.connected = TRUE, !.failed = TRUE]
        /\ y = [outs |-> (xr.outs \cup {s.node}) \ {n}, sel |-> s.node]
    BY <1>3 DEF StateAfter, XrayAfter, Preserved
  <2> HIDE DEF b, a
  <2>5. /\ a \in States /\ a.node = s.node /\ a.connected /\ a.mode = s.mode /\ a.health = s.health
        /\ a.switched = s.switched /\ a.outs = s.outs
    BY <2>3, <2>4 DEF States
  <2>6. y \in Xrays /\ Routes(a, y)
    BY <1>0, <2>1, <2>4, <2>5 DEF Xrays, Routes
  <2>7. Sound(a) /\ res \notin Good /\ Live(a)
    BY <1>3, <2>1, <2>5 DEF Sound, Good, Live
  <2> QED BY <1>0, <2>1, <2>5, <2>6, <2>7 DEF Attempted, a
<1>4. CASE res = "paused"
  <2>1. Live(s) /\ s.node \in Node
    BY <1>0, <1>4 DEF Results, Live
  <2>4. /\ a = [s EXCEPT !.connected = TRUE, !.failed = TRUE]
        /\ y = [outs |-> xr.outs \cup {s.node, n}, sel |-> s.node]
    BY <1>4 DEF StateAfter, XrayAfter, Preserved
  <2> HIDE DEF a
  <2>5. /\ a \in States /\ a.node = s.node /\ a.connected /\ a.mode = s.mode /\ a.health = s.health
        /\ a.switched = s.switched /\ a.outs = s.outs
    BY <2>4 DEF States
  <2>6. y \in Xrays /\ Routes(a, y)
    BY <1>0, <2>1, <2>4, <2>5 DEF Xrays, Routes
  <2>7. Sound(a) /\ res \notin Good /\ Live(a)
    BY <1>4, <2>1, <2>5 DEF Sound, Good, Live
  <2> QED BY <1>0, <2>1, <2>5, <2>6, <2>7 DEF Attempted, a
<1>5. CASE res \in {"same", "reloaded"}
  <2>1. res = "same" => s.node \in Node
    BY <1>0, <1>5 DEF Results, Live
  <2>4. /\ a = Selected(s, n, mode, at) /\ y.sel = n /\ n \in y.outs
        /\ y = [outs |-> IF res = "same" THEN xr.outs \cup {s.node, n} ELSE {n}, sel |-> n]
    BY <1>5 DEF StateAfter, XrayAfter
  <2> HIDE DEF a
  <2>5. /\ a \in States /\ a.node = n /\ a.connected /\ a.mode = mode /\ a.health = s.health
        /\ a.switched = s.switched /\ Active(a.outs, n)
    BY <2>4, SelectedState
  <2>6. y \in Xrays /\ Routes(a, y)
    BY <1>0, <2>1, <2>4, <2>5 DEF Xrays, Routes
  <2>7. Sound(a) /\ res \in Good
    BY <1>5, <2>5 DEF Sound, Good
  <2> QED BY <1>0, <2>5, <2>6, <2>7 DEF Attempted, a
<1>6. CASE res \in {"no egress", "broken"}
  <2> DEFINE f == [s.health EXCEPT ![n] = ForceFailure(@, at, Policy.threshold)]
             h == IF res = "broken" THEN s.health ELSE f
             sub == SubOf[n]
  <2>1. ~Live(s)
    BY <1>6 DEF Results
  <2>2. f \in Health /\ Newer(s.health, f) /\ NoLater(f, at)
    BY <1>0, ForcedAt
  <2>3. h \in Health /\ Newer(s.health, h) /\ NoLater(h, at) /\ sub \in Scope
    BY <1>0, <2>2 DEF Scope
  <2>4. a = [s EXCEPT !.health = h, !.sub = sub, !.node = n, !.mode = mode, !.connected = FALSE, !.failed = TRUE]
    BY <1>6 DEF StateAfter, markConnectionFailed, States
  <2>5. y = [outs |-> {}, sel |-> None]
    BY <1>6 DEF XrayAfter, Stopped
  <2> HIDE DEF h, a, sub
  <2>6. /\ a \in States /\ ~a.connected /\ a.health = h /\ a.switched = s.switched
    BY <2>3, <2>4 DEF States
  <2>7. y \in Xrays
    BY <2>5 DEF Xrays
  <2>8. Sound(a) /\ Routes(a, y) /\ res \notin Good
    BY <1>6, <2>6 DEF Sound, Good, Live, Routes
  <2> QED BY <1>0, <2>1, <2>3, <2>6, <2>7, <2>8 DEF Attempted, a
<1>7. res \in {"paused", "same", "switched", "unverified", "probe failed", "reloaded", "no egress", "broken"}
  BY DEF Results
<1> QED BY <1>1, <1>2, <1>3, <1>4, <1>5, <1>6, <1>7

-------------------------------------------------------------------------------
(* Reserves. *)

\* The servers of some outbounds.
LEMMA OutboundNodes ==
  ASSUME NEW outs \in Seq(Entry), NEW roles
  PROVE  Nodes(outs, roles) \in Seq(Node) /\ ToSet(Nodes(outs, roles)) \subseteq Node
<1> DEFINE first == {i \in DOMAIN outs : /\ outs[i].role \in roles
                                        /\ \A j \in 1..(i - 1) : outs[j].role \in roles => outs[j].node # outs[i].node}
           e == Entries(outs, first)
           f == Nodes(outs, roles)
<1>1. f = [k \in DOMAIN e |-> e[k].node]
  BY DEF Nodes
<1>2. first \in SUBSET DOMAIN outs
  OBVIOUS
<1> HIDE DEF first, f
<1>3. e \in Seq(Entry)
  BY <1>2, EntriesAt
<1> HIDE DEF e
<1>4. Len(e) \in Nat /\ DOMAIN e = 1..Len(e) /\ \A k \in 1..Len(e) : e[k] \in Entry
  BY <1>3, LenProperties, ElementOfSeq
<1>5. \A k \in DOMAIN e : e[k].node \in Node
  BY <1>4 DEF Entry
<1>6. f \in [1..Len(e) -> Node]
  BY <1>1, <1>4, <1>5
<1>7. f \in Seq(Node)
  BY <1>4, <1>6, FunctionSeq
<1> QED BY <1>7, Elements DEF f

\* The ranking of candidates holds candidates.
LEMMA RankedNodes ==
  ASSUME NEW nodes, nodes \subseteq Node, NEW health \in Health
  PROVE  rankManagedReserveCandidates(nodes, health) \in Seq(nodes)
<1>1. Ranked(nodes, Ranks(nodes, health))
  BY RanksOf DEF Health
<1> QED BY <1>1, SortedNodes DEF rankManagedReserveCandidates

\* The reserves that a failover tries are listed servers that are not hidden.
LEMMA ReservesOf ==
  ASSUME NEW s \in States
  PROVE  Reserves(s) \in Seq(Node) /\ \A i \in DOMAIN Reserves(s) : Reserves(s)[i] \notin hidden
<1> DEFINE usable == {n \in ToSet(Nodes(s.outs, {"reserve"})) :
                        n \in collectManagedReserveCandidates(s, hidden) /\ ~Paused(s, n, now)}
<1>1. s.outs \in Seq(Entry) /\ s.health \in Health
  BY DEF States
<1>2. usable \subseteq Node /\ \A n \in usable : n \notin hidden
  BY DEF collectManagedReserveCandidates
<1>3. Reserves(s) = rankManagedReserveCandidates(usable, s.health)
  BY DEF Reserves
<1> HIDE DEF usable
<1>4. Reserves(s) \in Seq(usable)
  BY <1>1, <1>2, <1>3, RankedNodes
<1>5. Reserves(s) \in Seq(Node)
  BY <1>2, <1>4, SeqMonotonic
<1>6. \A i \in DOMAIN Reserves(s) : Reserves(s)[i] \in usable
  BY <1>4, LenProperties, ElementOfSeq
<1> QED BY <1>2, <1>5, <1>6

\* What is probed for the reserves, in order.
LEMMA OrderedNodes ==
  ASSUME NEW existing \in Seq(Node), NEW measured \in Seq(Node), NEW unknown \in Seq(Node), NEW offset \in Nat
  PROVE  OrderedBy(existing, measured, unknown, offset) \in Seq(Node)
<1> DEFINE slots == MeasuredSlots(Len(existing), measured, unknown)
           k == IF unknown = <<>> THEN 0 ELSE offset % Len(unknown)
           a == SubSeq(measured, 1, slots)
           b == SubSeq(unknown, k + 1, Len(unknown))
           c == SubSeq(unknown, 1, k)
           d == SubSeq(measured, slots + 1, Len(measured))
<1>1. /\ Len(existing) \in Nat /\ Len(measured) \in Nat /\ Len(unknown) \in Nat
      /\ \A i \in 1..Len(measured) : measured[i] \in Node
      /\ \A i \in 1..Len(unknown) : unknown[i] \in Node
      /\ unknown # <<>> => Len(unknown) > 0
  BY LenProperties, ElementOfSeq, EmptySeq
<1>2. slots \in 0..Len(measured)
  BY <1>1, Bounds DEF MeasuredSlots, Least, Greatest
<1>3. k \in 0..Len(unknown)
  BY <1>1
<1>4. OrderedBy(existing, measured, unknown, offset) = existing \o a \o b \o c \o d
  BY DEF OrderedBy, ProbeOrder
<1> HIDE DEF slots, k
<1>5. a \in Seq(Node)
  <2>1. slots \in Int /\ 1 \in Int /\ \A i \in 1..slots : measured[i] \in Node
    BY <1>1, <1>2
  <2> QED BY ONLY <2>1, SubSeqProperties
<1>6. b \in Seq(Node)
  <2> DEFINE m == k + 1
             n == Len(unknown)
  <2>1. m \in Int /\ n \in Int /\ \A i \in m..n : unknown[i] \in Node
    BY <1>1, <1>3
  <2>2. b = SubSeq(unknown, m, n)
    OBVIOUS
  <2> HIDE DEF m, n, b
  <2> QED BY ONLY <2>1, <2>2, SubSeqProperties
<1>7. c \in Seq(Node)
  <2>1. k \in Int /\ 1 \in Int /\ \A i \in 1..k : unknown[i] \in Node
    BY <1>1, <1>3
  <2> QED BY ONLY <2>1, SubSeqProperties
<1>8. d \in Seq(Node)
  <2> DEFINE m == slots + 1
             n == Len(measured)
  <2>1. m \in Int /\ n \in Int /\ \A i \in m..n : measured[i] \in Node
    BY <1>1, <1>2
  <2>2. d = SubSeq(measured, m, n)
    OBVIOUS
  <2> HIDE DEF m, n, d
  <2> QED BY ONLY <2>1, <2>2, SubSeqProperties
<1> HIDE DEF a, b, c, d
<1>9. existing \o a \in Seq(Node)
  BY <1>5, ConcatProperties
<1>10. existing \o a \o b \in Seq(Node)
  BY <1>6, <1>9, ConcatProperties
<1>11. existing \o a \o b \o c \in Seq(Node)
  BY <1>7, <1>10, ConcatProperties
<1> QED BY <1>4, <1>8, <1>11, ConcatProperties

\* What is taken of them are servers.
LEMMA Prepared ==
  ASSUME NEW s \in States, NEW h, NEW offset \in Nat, NEW at
  PROVE  LET p == PrepareCandidates(s, h, offset, at)
         IN  p.take \subseteq Node /\ p.new \subseteq Node /\ p.prepared \subseteq Node
<1> DEFINE existing == existingManagedReserveCandidates(s, h)
           candidates == collectManagedReserveCandidates(s, h)
           ranked == rankManagedReserveCandidates(candidates, s.health)
           measured == Within(ranked, {n \in Node : Known(s.health[n])})
           unknown == Within(ranked, {n \in Node : ~Known(s.health[n])})
           ordered == OrderedBy(existing, measured, unknown, offset)
           p == PrepareCandidates(s, h, offset, at)
<1>1. s.outs \in Seq(Entry) /\ s.health \in Health
  BY DEF States
<1>2. existing \in Seq(Node)
  <2>1. Nodes(s.outs, {"reserve", "candidate"}) \in Seq(Node)
    BY <1>1, OutboundNodes
  <2> QED BY <2>1, WithinSet DEF existingManagedReserveCandidates
<1>3. candidates \subseteq Node
  BY DEF collectManagedReserveCandidates
<1>4. ranked \in Seq(Node)
  <2> HIDE DEF candidates
  <2>1. ranked \in Seq(candidates)
    BY <1>1, <1>3, RankedNodes
  <2> QED BY <1>3, <2>1, SeqMonotonic
<1>5. p = Take(s, ToSet(existing), {s.outs[i].node : i \in DOMAIN s.outs}, ordered, at)
  BY DEF PrepareCandidates, PrepareFrom, managedReserveProbeOrder
<1> HIDE DEF existing, ranked
<1>6. measured \in Seq(Node) /\ unknown \in Seq(Node)
  BY <1>4, WithinSet
<1> HIDE DEF measured, unknown
<1>7. ordered \in Seq(Node)
  BY <1>2, <1>6, OrderedNodes
<1> HIDE DEF ordered, p
<1>8. \A i \in DOMAIN ordered : ordered[i] \in Node
  BY <1>7, LenProperties, ElementOfSeq
<1>9. p.take \subseteq Node /\ p.new \subseteq Node /\ p.prepared \subseteq Node
  BY ONLY <1>5, <1>8 DEF Take
<1> QED BY <1>9 DEF p

\* The entries of reserves.
LEMMA EntriesOfReserves ==
  ASSUME NEW first \in Seq(Node), NEW at \in 0..MaxTime
  PROVE  ReserveEntries(first, at) \in Seq(Entry)
<1> DEFINE f == ReserveEntries(first, at)
<1>1. Len(first) \in Nat /\ DOMAIN first = 1..Len(first) /\ \A i \in 1..Len(first) : first[i] \in Node
  BY LenProperties, ElementOfSeq
<1>2. \A i \in 1..Len(first) : ReserveEntry(first[i], "reserve", 0, at) \in Entry
  BY <1>1, Bounds DEF ReserveEntry, Entry
<1>3. f \in [1..Len(first) -> Entry]
  BY <1>1, <1>2 DEF ReserveEntries
<1> HIDE DEF f
<1>4. f \in Seq(Entry)
  BY <1>1, <1>3, FunctionSeq
<1> QED BY <1>4 DEF f

\* selectManagedReserveStates chooses among the servers that passed.
LEMMA ChosenReserves ==
  ASSUME NEW ok, ok \subseteq Node, NEW health \in Health, NEW outs \in Seq(Entry), NEW at \in 0..MaxTime
  PROVE  selectManagedReserveStates(ok, health, outs, at) \in Seq(Entry)
<1> DEFINE conf == {n \in ok : health[n].cs >= 2}
           rank == Ranks(ok, health)
           ranked == Sorted(conf, rank)
           stay == FirstOf(Within(Nodes(outs, {"reserve"}), conf), ReserveLimit)
           more == FirstOf(Within(ranked, ToSet(ranked) \ ToSet(stay)), ReserveLimit - Len(stay))
           held == Hold(stay, ranked)
           weakest == Weakest(held, rank)
           up == IF Len(held) = ReserveLimit THEN Challengers(ranked, held, weakest, rank) ELSE <<>>
           r == selectManagedReserveStates(ok, health, outs, at)
<1>1. CASE conf = {}
  BY <1>1, EmptySeq DEF selectManagedReserveStates, SelectConfirmed
<1>2. CASE conf # {}
  <2>1. conf \subseteq ok /\ conf \subseteq Node
    OBVIOUS
  <2>2. r = Challenge(held, weakest, up, rank, outs, at)
    BY <1>2 DEF selectManagedReserveStates, SelectConfirmed, ChooseFrom, Choose
  <2> HIDE DEF conf, r
  <2>3. \A S : S \subseteq conf => Ranked(S, rank)
    BY <2>1, RanksOf DEF Health
  <2> HIDE DEF rank
  <2>4. \A S : S \subseteq conf => Sorted(S, rank) \in Seq(S)
    BY <2>1, <2>3, SortedNodes
  <2>5. ranked \in Seq(conf)
    BY <2>4
  <2> HIDE DEF ranked
  <2>6. stay \in Seq(conf) /\ Len(stay) \in Nat
    <3>1. Nodes(outs, {"reserve"}) \in Seq(Node)
      BY OutboundNodes
    <3>2. Within(Nodes(outs, {"reserve"}), conf) \in Seq(conf)
      BY <3>1, WithinSet
    <3>3. ReserveLimit \in Int
      BY Bounds
    <3> QED BY <3>2, <3>3, FirstEntries, LenProperties
  <2>7. held = stay \o more
    BY DEF Hold
  <2> HIDE DEF stay, held
  <2>8. more \in Seq(conf)
    <3> DEFINE w == Within(ranked, ToSet(ranked) \ ToSet(stay))
               k == ReserveLimit - Len(stay)
    <3>1. w \in Seq(conf)
      BY <2>5, WithinSet
    <3>2. k \in Int
      BY <2>6, Bounds
    <3>3. more = FirstOf(w, k)
      OBVIOUS
    <3> HIDE DEF w, k, more
    <3> QED BY <3>1, <3>2, <3>3, FirstEntries
  <2> HIDE DEF more
  <2>9. held \in Seq(conf) /\ ToSet(held) \subseteq conf
    BY <2>6, <2>7, <2>8, ConcatProperties, Elements
  <2> HIDE DEF weakest
  <2>10. up \in Seq(conf)
    BY <2>5, WithinSet, EmptySeq DEF Challengers
  <2> HIDE DEF up
  <2>11. \A S : S \subseteq conf => ReserveEntries(Sorted(S, rank), at) \in Seq(Entry)
    <3> TAKE S
    <3> HAVE S \subseteq conf
    <3>1. Sorted(S, rank) \in Seq(S) /\ S \subseteq Node
      BY <2>1, <2>4
    <3>2. Sorted(S, rank) \in Seq(Node)
      BY <3>1, SeqMonotonic
    <3> QED BY <3>2, EntriesOfReserves
  <2>12. CASE up = <<>>
    <3>1. r = ReserveEntries(Sorted(ToSet(held), rank), at)
      BY <2>2, <2>12 DEF Challenge
    <3> QED BY <2>9, <2>11, <3>1 DEF r
  <2>13. CASE up # <<>>
    <3>1. Head(up) \in conf
      BY <2>10, <2>13, HeadTailProperties
    <3>2. CASE PromotionWins(outs, Head(up)) >= 1
      <4> DEFINE S == (ToSet(held) \ {weakest}) \cup {Head(up)}
      <4>1. r = ReserveEntries(Sorted(S, rank), at)
        BY <2>2, <2>13, <3>2 DEF Challenge
      <4>2. S \subseteq conf
        BY <2>9, <3>1
      <4> HIDE DEF S
      <4> QED BY <2>11, <4>1, <4>2 DEF r
    <3>3. CASE ~(PromotionWins(outs, Head(up)) >= 1)
      <4> DEFINE e == ReserveEntry(Head(up), "candidate", 1, at)
      <4>1. r = Append(ReserveEntries(Sorted(ToSet(held), rank), at), e)
        BY <2>2, <2>13, <3>3 DEF Challenge
      <4>2. e \in Entry
        BY <2>1, <3>1, Bounds DEF ReserveEntry, Entry
      <4> HIDE DEF e
      <4>3. ReserveEntries(Sorted(ToSet(held), rank), at) \in Seq(Entry)
        BY <2>9, <2>11
      <4> QED BY <4>1, <4>2, <4>3, AppendProperties DEF r
    <3> QED BY <3>2, <3>3
  <2> QED BY <2>12, <2>13
<1> QED BY <1>1, <1>2

-------------------------------------------------------------------------------
(* The invariant is kept: what the steps share. *)

\* The initial states.
LEMMA InitInv == Init => Inv
<1> SUFFICES ASSUME Init PROVE Inv
  OBVIOUS
<1>0. /\ cache = None /\ hidden = {} /\ check = None /\ ask = None /\ keep = None /\ loop = None /\ moved = now
      /\ MaxTime \in Nat \ {0} /\ None \notin Node
  BY Bounds DEF Init
<1> DEFINE fresh == [n \in Node |-> NoHealth]
           b == [n \in Node |-> NoBackoff]
           met == [n \in Node |-> Success(NoHealth, 100, 1)]
<1>1. fresh \in Health /\ NoLater(fresh, 0) /\ b \in Backoffs
  BY Unmeasured DEF Health, NoLater, Backoffs, NoBackoff
<1>2. Success(NoHealth, 100, 1) \in HealthRecord /\ Success(NoHealth, 100, 1).at = 1
  BY Unmeasured, Succeeded, 1 \in Nat, 100 \in Nat
<1>3. met \in Health /\ NoLater(met, 1)
  BY <1>2 DEF Health, NoLater
<1>4. Disconnected = [mode |-> "off", sub |-> None, node |-> None, connected |-> FALSE, scope |-> None,
                      failed |-> FALSE, health |-> fresh, backoff |-> b, outs |-> <<>>, switched |-> 0]
  BY DEF Disconnected
<1> HIDE DEF fresh, b
<1>5. Disconnected \in States /\ Disconnected.health = fresh /\ Disconnected.switched = 0 /\ ~Disconnected.connected
  BY <1>0, <1>1, <1>4, EmptySeq DEF States
<1>6. st \in States /\ xr \in Xrays /\ Pinned /\ NoLater(st.health, now) /\ Recorded /\ now \in 0..MaxTime
  <2>1. CASE st = Disconnected /\ now = 0 /\ xr = Stopped
    BY <1>0, <1>1, <1>5, <2>1 DEF Xrays, Stopped, Pinned, Sound, Routes, Live, Recorded
  <2>2. CASE st = Running /\ now = 1 /\ xr = [outs |-> {st.node}, sel |-> st.node]
    <3> DEFINE n == Listed[1]
               s == [Disconnected EXCEPT !.health = met, !.scope = "all", !.switched = 1]
    <3>1. n \in Node /\ st = Selected(s, n, "auto", 1)
      BY <2>2, ListedNodes DEF Running
    <3> HIDE DEF met
    <3>2. s \in States /\ s.health = met /\ s.switched = 1
      <4>1. "all" \in Scope \cup {None} /\ 1 \in 0..MaxTime
        BY <1>0 DEF Scope
      <4> QED BY <1>3, <1>5, <4>1 DEF States
    <3> HIDE DEF n, s
    <3>3. 1 \in 0..MaxTime
      BY <1>0
    <3>4. /\ st \in States /\ st.node = n /\ st.connected /\ st.mode = "auto" /\ st.health = met
          /\ st.switched = 1 /\ Active(st.outs, n)
      BY <3>1, <3>2, <3>3, SelectedState
    <3>5. xr \in Xrays /\ Pinned
      BY <2>2, <3>1, <3>4 DEF Xrays, Pinned, Sound, Routes
    <3> QED BY <1>0, <1>3, <2>2, <3>3, <3>4, <3>5 DEF Recorded
  <2> QED BY <2>1, <2>2 DEF Init
<1> QED BY <1>0, <1>6 DEF Inv, Typed, CacheOK, Timed, CheckOK, AskOK, KeepOK, LoopOK

\* What was found holds while the clock goes on.
LEMMA Waiting ==
  ASSUME Typed, now' \in 0..MaxTime, now <= now'
  PROVE  /\ CheckOK /\ check' = check => CheckOK'
         /\ AskOK /\ ask' = ask => AskOK'
         /\ KeepOK /\ keep' = keep => KeepOK'
<1>0. now \in Nat /\ now' \in Nat /\ MaxTime \in Nat
  BY Bounds DEF Typed
<1>1. CheckOK /\ check' = check => CheckOK'
  <2> SUFFICES ASSUME CheckOK, check' = check, check # None PROVE CheckOK'
    BY DEF CheckOK
  <2>1. /\ check.snap.mode = "auto" /\ Selects(check.d) /\ Decided(check.snap, check.hid, check.d)
        /\ Newer(check.snap.health, check.d.health) /\ NoLater(check.d.health, now)
        /\ Ripe(check.snap, check.d, now)
    BY DEF CheckOK
  <2>2. check.d.health \in Health /\ check.snap.switched \in Nat
    BY <1>0 DEF Typed, Checks, Decisions, States
  <2>3. NoLater(check.d.health, now')
    BY <1>0, <2>1, <2>2, Later
  <2>4. Ripe(check.snap, check.d, now')
    <3>1. now - check.snap.switched >= Policy.cooldown => now' - check.snap.switched >= Policy.cooldown
      BY <1>0, <2>2, Bounds
    <3> QED BY <2>1, <3>1 DEF Ripe
  <2> QED BY <2>1, <2>3, <2>4 DEF CheckOK
<1>2. AskOK /\ ask' = ask => AskOK'
  <2> SUFFICES ASSUME AskOK, ask' = ask, ask # None PROVE AskOK'
    BY DEF AskOK
  <2>1. CASE ask.kind = "connect"
    <3>1. Selects(ask.d) /\ Newer(ask.snap.health, ask.d.health) /\ NoLater(ask.d.health, now)
      BY <2>1 DEF AskOK
    <3>2. ask.d.health \in Health
      BY <2>1 DEF Typed, Connects, Measures, Decisions
    <3>3. NoLater(ask.d.health, now')
      BY <1>0, <3>1, <3>2, Later
    <3> QED BY <2>1, <3>1, <3>3 DEF AskOK
  <2>2. CASE ask.kind # "connect"
    <3>1. ask.at <= now /\ NoLater(ask.seen, now) /\ \A n \in ask.nodes : ask.seen[n].at = ask.at
      BY <2>2 DEF AskOK
    <3>2. ask.seen \in Health /\ ask.at \in Nat
      BY <1>0, <2>2 DEF Typed, Connects, Measures
    <3>3. NoLater(ask.seen, now') /\ ask.at <= now'
      BY <1>0, <3>1, <3>2, Later
    <3> QED BY <2>2, <3>1, <3>3 DEF AskOK
  <2> QED BY <2>1, <2>2
<1>3. KeepOK /\ keep' = keep => KeepOK'
  <2> SUFFICES ASSUME KeepOK, keep' = keep, keep # None PROVE KeepOK'
    BY DEF KeepOK
  <2>1. keep.at \in Nat
    BY <1>0 DEF Typed, Keeps
  <2> QED BY <1>0, <2>1 DEF KeepOK
<1> QED BY <1>1, <1>2, <1>3

\* The parts of the invariant that a step has to show.
LEMMA Composed ==
  ASSUME Inv, now' \in 0..MaxTime, now <= now', hidden' \in SUBSET Node,
         check' \in {check, None} \/ (check' \in Checks /\ CheckOK'),
         ask' \in {ask, None} \/ (ask' \in Connects \cup Measures /\ AskOK'),
         keep' \in {keep, None} \/ (keep' \in Keeps /\ KeepOK'),
         loop' = None \/ (loop' \in Tries \cup Queues /\ LoopOK'),
         st' \in States, xr' \in Xrays, Pinned', CacheOK', Timed', Recorded'
  PROVE  Inv'
<1>0. Typed /\ CheckOK /\ AskOK /\ KeepOK
  BY DEF Inv
<1>1. CheckOK' /\ (check' # None => check' \in Checks)
  <2>1. CASE check' = None
    BY <2>1 DEF CheckOK
  <2>2. CASE check' = check
    BY <1>0, <2>2, Waiting DEF Typed
  <2> QED BY <2>1, <2>2
<1>2. AskOK' /\ (ask' # None => ask' \in Connects \cup Measures)
  <2>1. CASE ask' = None
    BY <2>1 DEF AskOK
  <2>2. CASE ask' = ask
    BY <1>0, <2>2, Waiting DEF Typed
  <2> QED BY <2>1, <2>2
<1>3. KeepOK' /\ (keep' # None => keep' \in Keeps)
  <2>1. CASE keep' = None
    BY <2>1 DEF KeepOK
  <2>2. CASE keep' = keep
    BY <1>0, <2>2, Waiting DEF Typed
  <2> QED BY <2>1, <2>2
<1>4. LoopOK' /\ (loop' # None => loop' \in Tries \cup Queues)
  BY DEF LoopOK
<1>5. Typed'
  BY <1>1, <1>2, <1>3, <1>4 DEF Typed
<1> QED BY <1>1, <1>2, <1>3, <1>4, <1>5 DEF Inv

\* What the invariant says of the state, the running Xray and the clock.
LEMMA Facts ==
  ASSUME Inv
  PROVE  /\ st \in States /\ st.health \in Health /\ Sound(st) /\ Routes(st, xr) /\ xr \in Xrays
         /\ NoLater(st.health, now) /\ now \in 0..MaxTime /\ now \in Nat /\ CacheOK /\ Timed
         /\ hidden \in SUBSET Node /\ st.switched = moved /\ Newer(st.health, st.health)
<1>1. now \in 0..MaxTime /\ MaxTime \in Nat /\ st \in States
  BY Bounds DEF Inv, Typed
<1>2. now \in Nat /\ st.health \in Health
  BY <1>1 DEF States
<1>3. Newer(st.health, st.health)
  BY <1>2, NewerStill
<1> QED BY <1>1, <1>2, <1>3 DEF Inv, Typed, Pinned, Timed, Recorded

\* A step that changes neither the state file nor Xray keeps what is said of them.
LEMMA Untouched ==
  ASSUME Inv, UNCHANGED <<st, cache, xr, moved>>, now' \in 0..MaxTime, now <= now'
  PROVE  /\ st' \in States /\ xr' \in Xrays /\ Pinned' /\ CacheOK' /\ Timed' /\ Recorded'
         /\ Newer(st.health, st'.health)
<1>0. now \in Nat /\ now' \in Nat
  BY Facts, Bounds
<1>1. st' = st /\ cache' = cache /\ xr' = xr /\ moved' = moved
  OBVIOUS
<1>2. st' \in States /\ xr' \in Xrays /\ Recorded' /\ CacheOK' /\ Newer(st.health, st'.health)
  BY <1>1, Facts DEF Recorded, CacheOK
<1>3. Pinned'
  BY <1>1, Facts DEF Pinned
<1>4. NoLater(st.health, now')
  BY <1>0, Facts, Later
<1>5. cache # None => NoLater(cache.health, now')
  BY <1>0, Facts, Later DEF CacheOK, Timed
<1> QED BY <1>1, <1>2, <1>3, <1>4, <1>5 DEF Timed

-------------------------------------------------------------------------------
(* Requests of the user and steps of a client. *)

\* States over the same connection.
SameRoute(c, a) == c.mode = a.mode /\ c.node = a.node /\ c.connected = a.connected /\ c.outs = a.outs
\* What is said of a connection depends on nothing else.
LEMMA RouteOf ==
  ASSUME NEW c, NEW a, SameRoute(c, a)
  PROVE  (Sound(a) => Sound(c)) /\ (Live(a) <=> Live(c)) /\ \A y : Routes(a, y) => Routes(c, y)
BY DEF SameRoute, Sound, Live, Routes

\* commitAutoSelection, and with the scope that was asked for.
LEMMA CommittedState ==
  ASSUME NEW a \in States, NEW d, d.health \in Health, d.switch \in BOOLEAN, NEW at \in 0..MaxTime
  PROVE  LET c == Committed(a, d, at)
         IN  /\ c \in States /\ SameRoute(c, a) /\ c.health = d.health
             /\ c.switched = IF d.switch THEN at ELSE a.switched
<1> DEFINE sw == IF d.switch THEN at ELSE a.switched
           p == Committed(a, d, at)
<1>1. p = [a EXCEPT !.health = d.health, !.switched = sw]
  BY DEF Committed, States
<1>2. sw \in 0..MaxTime
  BY DEF States
<1> HIDE DEF sw, p
<1>3. p \in States /\ SameRoute(p, a) /\ p.health = d.health /\ p.switched = sw
  BY <1>1, <1>2 DEF States, SameRoute
<1> QED BY <1>3 DEF p, sw

\* The same, when the commit also records the scope that was asked for.
LEMMA CommittedScope ==
  ASSUME NEW a \in States, NEW d, d.health \in Health, d.switch \in BOOLEAN, NEW at \in 0..MaxTime,
         NEW scope \in Scope \cup {None}
  PROVE  LET c == [Committed(a, d, at) EXCEPT !.scope = scope]
         IN  /\ c \in States /\ SameRoute(c, a) /\ c.health = d.health
             /\ c.switched = IF d.switch THEN at ELSE a.switched
<1> DEFINE p == Committed(a, d, at)
           c == [p EXCEPT !.scope = scope]
<1>3. p \in States /\ SameRoute(p, a) /\ p.health = d.health /\ p.switched = IF d.switch THEN at ELSE a.switched
  BY CommittedState
<1> HIDE DEF p
<1>4. c \in States /\ SameRoute(c, p) /\ c.health = p.health /\ c.switched = p.switched
  BY <1>3 DEF States, SameRoute
<1> QED BY <1>3, <1>4 DEF SameRoute, p

\* Connect to one server: the attempt under the lock of the store.
LEMMA ConnectManualInv ==
  ASSUME Inv, NEW n \in Picked, ConnectManual(n)
  PROVE  Inv' /\ Newer(st.health, st'.health)
<1>1. n \in Node /\ "manual" \in {"auto", "manual"}
  BY Servers
<1>2. /\ cache' = cache /\ hidden' = hidden /\ now' = now /\ check' = check /\ ask' = ask /\ keep' = keep
      /\ loop' = None /\ moved' = moved
  BY DEF ConnectManual, Unlocked
<1>3. PICK res \in Results(st, n, FALSE, now) :
         st' = StateAfter(st, n, "manual", res, now) /\ xr' = XrayAfter(st, n, res)
  BY DEF ConnectManual
<1>4. Attempted(st, n, "manual", res, st', xr', now)
  BY <1>1, <1>3, Facts, Attempt
<1>5. /\ st' \in States /\ xr' \in Xrays /\ Sound(st') /\ Routes(st', xr') /\ st'.switched = st.switched
      /\ Newer(st.health, st'.health) /\ NoLater(st'.health, now)
  BY <1>4 DEF Attempted
<1>6. Pinned' /\ CacheOK' /\ Timed' /\ Recorded'
  BY <1>2, <1>5, Facts DEF Pinned, CacheOK, Timed, Recorded
<1> QED BY <1>2, <1>5, <1>6, Facts, Composed

\* Automatic connect to a server that was named.
LEMMA ConnectAutoSelectedInv ==
  ASSUME Inv, NEW n \in Picked, NEW scope \in {"all", SubOf[n]}, ConnectAutoSelected(n, scope)
  PROVE  Inv' /\ Newer(st.health, st'.health)
<1>1. n \in Node /\ "auto" \in {"auto", "manual"}
  BY Servers
<1>2. /\ cache' = cache /\ hidden' = hidden /\ now' = now + 1 /\ check' = check /\ ask' = ask /\ keep' = keep
      /\ loop' = None /\ now < MaxTime
  BY DEF ConnectAutoSelected, Unlocked
<1>3. now' \in 0..MaxTime /\ now' \in Nat /\ now <= now'
  BY <1>2, Facts, Bounds
<1>4. NoLater(st.health, now')
  BY <1>3, Facts, Later
<1> DEFINE h(out) == [Success(st.health[n], out[n], now') EXCEPT
                       !.avg = out[n], !.var = st.health[n].var, !.inst = st.health[n].inst]
           d(out) == [health |-> [st.health EXCEPT ![n] = h(out)], switch |-> st.node # n \/ st.sub # SubOf[n]]
<1>5. PICK out \in Outcome, res \in Results(st, n, FALSE, now') :
         /\ st' = IF res \in Good THEN [Committed(StateAfter(st, n, "auto", res, now'), d(out), now') EXCEPT !.scope = scope]
                  ELSE StateAfter(st, n, "auto", res, now')
         /\ xr' = XrayAfter(st, n, res)
         /\ moved' = IF res \in Good /\ d(out).switch THEN now' ELSE moved
  BY DEF ConnectAutoSelected
<1> DEFINE a == StateAfter(st, n, "auto", res, now')
<1>6. Attempted(st, n, "auto", res, a, xr', now')
  BY <1>1, <1>3, <1>4, <1>5, Facts, Attempt
<1> HIDE DEF a
<1>7. /\ a \in States /\ xr' \in Xrays /\ Sound(a) /\ Routes(a, xr') /\ a.switched = st.switched
      /\ Newer(st.health, a.health) /\ NoLater(a.health, now')
  BY <1>6 DEF Attempted
<1>8. d(out).health \in Health /\ d(out).switch \in BOOLEAN /\ Newer(st.health, d(out).health) /\ NoLater(d(out).health, now')
  <2> DEFINE g == Success(st.health[n], out[n], now')
  <2>1. st.health[n] \in HealthRecord /\ out[n] \in Nat /\ \A m \in Node : st.health[m].at \in Nat /\ st.health[m].at <= now'
    BY <1>1, <1>4, Facts, Times, Bounds DEF NoLater
  <2>2. \A k \in HealthRecord, l \in Nat : Success(k, l, now') \in HealthRecord /\ Success(k, l, now').at = now'
    BY <1>3, Succeeded
  <2>3. g \in HealthRecord /\ g.at = now'
    BY ONLY <2>1, <2>2
  <2>4. h(out) = [g EXCEPT !.avg = out[n], !.var = st.health[n].var, !.inst = st.health[n].inst]
    OBVIOUS
  <2> HIDE DEF g
  <2>5. h(out) \in HealthRecord /\ h(out).at = now'
    BY <2>1, <2>3, <2>4 DEF HealthRecord
  <2>6. d(out).health = [st.health EXCEPT ![n] = h(out)] /\ d(out).switch \in BOOLEAN
    OBVIOUS
  <2> HIDE DEF h, d
  <2>7. d(out).health \in Health
    BY <2>5, <2>6, Facts DEF Health
  <2>8. \A m \in Node : d(out).health[m].at = IF m = n THEN now' ELSE st.health[m].at
    BY <2>5, <2>6, Facts DEF Health
  <2> QED BY <1>3, <2>1, <2>6, <2>7, <2>8 DEF Newer, NoLater
<1> HIDE DEF d
<1>9. ASSUME res \in Good
      PROVE  st' \in States /\ Pinned' /\ Recorded' /\ Newer(st.health, st'.health) /\ NoLater(st'.health, now')
  <2>1. scope \in Scope \cup {None}
    BY <1>1 DEF Scope
  <2>2. st' = [Committed(a, d(out), now') EXCEPT !.scope = scope] /\ moved' = IF d(out).switch THEN now' ELSE moved
    BY <1>5, <1>9 DEF a
  <2>3. /\ st' \in States /\ SameRoute(st', a) /\ st'.health = d(out).health
        /\ st'.switched = IF d(out).switch THEN now' ELSE a.switched
    BY <1>3, <1>7, <1>8, <2>1, <2>2, CommittedScope
  <2>4. Sound(st') /\ Routes(st', xr')
    BY <1>7, <2>3, RouteOf
  <2>5. Pinned' /\ Recorded' /\ Newer(st.health, st'.health) /\ NoLater(st'.health, now')
    BY <1>7, <1>8, <2>2, <2>3, <2>4, Facts DEF Pinned, Recorded
  <2> QED BY <2>3, <2>5
<1>10. ASSUME res \notin Good
       PROVE  st' \in States /\ Pinned' /\ Recorded' /\ Newer(st.health, st'.health) /\ NoLater(st'.health, now')
  <2>1. st' = a /\ moved' = moved
    BY <1>5, <1>10 DEF a
  <2>2. Pinned' /\ Recorded' /\ Newer(st.health, st'.health) /\ NoLater(st'.health, now') /\ st' \in States
    BY <1>7, <2>1, Facts DEF Pinned, Recorded
  <2> QED BY <2>2
<1>11. CacheOK' /\ (cache' # None => NoLater(cache'.health, now'))
  <2>1. cache # None => cache.health \in Health /\ NoLater(cache.health, now)
    BY Facts DEF CacheOK, Timed
  <2>2. cache # None => NoLater(cache.health, now')
    BY <1>3, <2>1, Facts, Later
  <2> QED BY <1>2, <2>2, Facts DEF CacheOK
<1>12. Timed'
  BY <1>9, <1>10, <1>11 DEF Timed
<1> QED BY <1>2, <1>3, <1>7, <1>9, <1>10, <1>11, <1>12, Facts, Composed

\* Disconnect: the state is off, Xray is stopped.
LEMMA DisconnectInv ==
  ASSUME Inv, Disconnect
  PROVE  Inv' /\ Newer(st.health, st'.health)
<1>1. /\ cache' = cache /\ hidden' = hidden /\ now' = now /\ check' = check /\ ask' = ask /\ keep' = keep
      /\ loop' = None /\ moved' = moved /\ xr' = [outs |-> {}, sel |-> None]
      /\ st' = [st EXCEPT !.mode = "off", !.sub = None, !.node = None, !.connected = FALSE, !.scope = None]
  BY DEF Disconnect, Unlocked, Stopped
<1>2. st' \in States /\ st'.health = st.health /\ st'.switched = st.switched /\ ~st'.connected
  BY <1>1, Facts DEF States
<1>3. xr' \in Xrays
  BY <1>1 DEF Xrays
<1>4. Pinned'
  BY <1>2 DEF Pinned, Sound, Routes, Live
<1>5. CacheOK' /\ Timed' /\ Recorded'
  BY <1>1, <1>2, Facts DEF CacheOK, Timed, Recorded
<1> QED BY <1>1, <1>2, <1>3, <1>4, <1>5, Facts, Composed

\* A server is hidden or shown again, while checks over the old list are under way.
LEMMA HideInv ==
  ASSUME Inv, NEW n \in Picked, Hide(n)
  PROVE  Inv' /\ Newer(st.health, st'.health)
<1>1. /\ UNCHANGED <<st, cache, xr, moved>> /\ now' = now /\ check' = check /\ ask' = ask /\ keep' = keep /\ loop' = None
      /\ hidden' = IF n \in hidden THEN hidden \ {n} ELSE hidden \cup {n}
  BY DEF Hide, Unlocked
<1>2. hidden' \in SUBSET Node
  BY <1>1, Facts, Servers
<1>3. now' \in 0..MaxTime /\ now <= now'
  BY <1>1, Facts
<1> QED BY <1>1, <1>2, <1>3, Untouched, Composed

\* The probes and the decision of an automatic connect, without the lock.
LEMMA BeginConnectAutoInv ==
  ASSUME Inv, NEW scope \in Scopes, BeginConnectAuto(scope)
  PROVE  Inv' /\ Newer(st.health, st'.health)
<1>1. /\ UNCHANGED <<st, cache, xr, moved>> /\ now' = now + 1 /\ now < MaxTime /\ check' = check /\ keep' = keep
      /\ loop' = None /\ hidden' = hidden
  BY DEF BeginConnectAuto, Unlocked
<1>2. now' \in 0..MaxTime /\ now' \in Nat /\ now <= now'
  BY <1>1, Facts, Bounds
<1>3. NoLater(st.health, now')
  BY <1>2, Facts, Later
<1> DEFINE yes == TRUE
           p(out, egress) == Probed(st, scope, hidden, out, egress, now')
           d(out, egress) == evaluateAutoSelection(st, scope, hidden, p(out, egress), now', yes)
<1>4. PICK out \in Outcome, egress \in BOOLEAN :
         ask' = [kind |-> "connect", scope |-> scope, snap |-> st, hid |-> hidden, d |-> d(out, egress)]
  BY DEF BeginConnectAuto
<1>5. p(out, egress) \in Health /\ Newer(st.health, p(out, egress)) /\ NoLater(p(out, egress), now')
  BY <1>2, <1>3, Facts, ProbedHealth
<1> HIDE DEF p, yes
<1>6. d(out, egress) \in Decisions /\ d(out, egress).health = p(out, egress) /\ Selects(d(out, egress))
  BY <1>2, <1>5, Facts, Evaluated
<1> HIDE DEF d
<1>7. ask' \in Connects
  <2>1. scope \in Scope
    BY DEF Scope
  <2> QED BY <1>4, <1>6, <2>1, Facts DEF Connects
<1>8. AskOK'
  BY <1>4, <1>5, <1>6 DEF AskOK
<1> QED BY <1>1, <1>2, <1>7, <1>8, Facts, Untouched, Composed

\* The probes of a health command, without the lock.
LEMMA BeginMeasureInv ==
  ASSUME Inv, NEW nodes \in SUBSET Node, NEW single \in BOOLEAN, BeginMeasure(nodes, single)
  PROVE  Inv' /\ Newer(st.health, st'.health)
<1>1. /\ UNCHANGED <<st, cache, xr, moved>> /\ now' = now + 1 /\ now < MaxTime /\ check' = check /\ keep' = keep
      /\ loop' = None /\ hidden' = hidden
  BY DEF BeginMeasure, Unlocked
<1>2. now' \in 0..MaxTime /\ now' \in Nat /\ now <= now'
  BY <1>1, Facts, Bounds
<1>3. NoLater(st.health, now')
  BY <1>2, Facts, Later
<1> DEFINE p(out) == probeSubscription(st.health, nodes, out, now')
           kind == IF single THEN "one" ELSE "all"
<1>4. PICK out \in Outcome : ask' = [kind |-> kind, nodes |-> nodes, out |-> out, at |-> now', seen |-> p(out)]
  BY DEF BeginMeasure
<1>5. p(out) \in Health /\ NoLater(p(out), now') /\ \A n \in Node : n \in nodes => p(out)[n].at = now'
  BY <1>2, <1>3, Facts, ProbedNodes
<1>6. kind \in {"one", "all"} /\ kind # "connect"
  OBVIOUS
<1> HIDE DEF p, kind
<1>7. ask' \in Measures
  BY <1>2, <1>4, <1>5, <1>6 DEF Measures
<1>8. AskOK'
  BY <1>2, <1>4, <1>5, <1>6 DEF AskOK
<1> QED BY <1>1, <1>2, <1>7, <1>8, Facts, Untouched, Composed

\* The decision of an automatic connect meets the files as they are.
LEMMA CommitConnectAutoInv ==
  ASSUME Inv, CommitConnectAuto
  PROVE  Inv' /\ Newer(st.health, st'.health)
<1>1. /\ UNCHANGED <<st, cache, xr, moved>> /\ now' = now /\ check' = check /\ keep' = keep
      /\ ask' = None /\ hidden' = hidden /\ ask # None /\ ask.kind = "connect"
      /\ loop' = IF Fresh(ask, st) THEN Attempts("client", ask.scope, ask.snap, ask.d) ELSE None
  BY DEF CommitConnectAuto
<1>2. now' \in 0..MaxTime /\ now <= now'
  BY <1>1, Facts
<1>3. ASSUME Fresh(ask, st)
      PROVE  loop' \in Tries \cup Queues /\ LoopOK'
  <2> DEFINE left == Least(MaxAttempts, Len(autoSelectableNodes(ask.scope, hidden)))
  <2>1. ask \in Connects
    BY <1>1 DEF Inv, Typed, Measures
  <2>2. Selects(ask.d) /\ Newer(st.health, ask.d.health) /\ NoLater(ask.d.health, now) /\ ask.snap = st
    BY <1>1, <1>3 DEF Inv, AskOK, Fresh
  <2>3. left \in Nat
    BY Selectable, Bounds DEF Least
  <2>4. loop' = [kind |-> "connect", who |-> "client", scope |-> ask.scope, snap |-> ask.snap, d |-> ask.d,
                 tried |-> {}, left |-> left]
    BY <1>1, <1>3 DEF Attempts
  <2> HIDE DEF left
  <2>5. loop' \in Tries
    BY <2>1, <2>3, <2>4 DEF Tries, Connects
  <2>6. Holds(st, st)
    BY Facts DEF Holds, Sound
  <2>7. LoopOK'
    BY <1>1, <2>2, <2>4, <2>6 DEF LoopOK
  <2> QED BY <2>5, <2>7
<1>4. loop' = None \/ (loop' \in Tries \cup Queues /\ LoopOK')
  BY <1>1, <1>3
<1> QED BY <1>1, <1>2, <1>4, Facts, Untouched, Composed

\* The measurements are put over the observations of the state file.
LEMMA CommitMeasureInv ==
  ASSUME Inv, CommitMeasure
  PROVE  Inv' /\ Newer(st.health, st'.health)
<1>1. /\ cache' = cache /\ xr' = xr /\ moved' = moved /\ now' = now /\ check' = check /\ keep' = keep
      /\ ask' = None /\ hidden' = hidden /\ loop' = None /\ ask # None /\ ask.kind \in {"one", "all"}
  BY DEF CommitMeasure, Unlocked
<1> DEFINE h == [n \in Node |-> IF n \in ask.nodes THEN Observed(n) ELSE st.health[n]]
<1>2. st' = [st EXCEPT !.health = h]
  BY Facts DEF CommitMeasure, States
<1>3. ask \in Measures
  BY <1>1 DEF Inv, Typed, Connects
<1>4. ask.at \in Nat /\ ask.at <= now /\ NoLater(ask.seen, now) /\ \A n \in ask.nodes : ask.seen[n].at = ask.at
  BY <1>1, <1>3, Bounds DEF Inv, AskOK, Measures
<1>5. ASSUME NEW n \in Node
      PROVE  h[n] \in HealthRecord /\ st.health[n].at <= h[n].at /\ h[n].at <= now
  <2>1. /\ st.health[n] \in HealthRecord /\ st.health[n].at \in Nat /\ st.health[n].at <= now
        /\ ask.seen[n] \in HealthRecord /\ ask.out[n] \in Nat
    BY <1>3, Facts, Times, Bounds DEF NoLater, Measures
  <2>2. \A k \in HealthRecord, l \in Nat, t \in Nat : Success(k, l, t) \in HealthRecord /\ Success(k, l, t).at = t
    BY Succeeded
  <2>3. Success(st.health[n], ask.out[n], ask.at) \in HealthRecord /\ Success(st.health[n], ask.out[n], ask.at).at = ask.at
    BY ONLY <1>4, <2>1, <2>2
  <2>4. CASE n \in ask.nodes /\ ask.kind = "all"
    BY <1>4, <2>1, <2>4, Facts DEF Observed
  <2>5. CASE n \in ask.nodes /\ ask.kind = "one"
    BY <1>4, <2>1, <2>3, <2>5, Facts DEF Observed, Known
  <2>6. CASE n \notin ask.nodes
    BY <2>1, <2>6
  <2> QED BY <1>1, <2>4, <2>5, <2>6
<1>6. h \in Health /\ Newer(st.health, h) /\ NoLater(h, now)
  <2>1. h = [n \in Node |-> h[n]]
    OBVIOUS
  <2> HIDE DEF h
  <2> QED BY <1>5, <2>1 DEF Health, Newer, NoLater
<1> HIDE DEF h
<1>7. st' \in States /\ SameRoute(st', st) /\ st'.health = h /\ st'.switched = st.switched
  BY <1>2, <1>6, Facts DEF States, SameRoute
<1>8. Sound(st') /\ Routes(st', xr')
  BY <1>1, <1>7, Facts, RouteOf
<1>9. Pinned' /\ CacheOK' /\ Timed' /\ Recorded'
  BY <1>1, <1>6, <1>7, <1>8, Facts DEF Pinned, CacheOK, Timed, Recorded
<1> QED BY <1>1, <1>6, <1>7, <1>9, Facts, Composed

\* A loop that goes on over the same state.
LEMMA LoopKept ==
  ASSUME Inv, UNCHANGED <<st, hidden, now>>, loop' \in {loop, None}
  PROVE  loop' = None \/ (loop' \in Tries \cup Queues /\ LoopOK')
<1>1. CASE loop' = loop /\ loop # None
  <2>1. LoopOK /\ loop \in Tries \cup Queues
    BY <1>1 DEF Inv, Typed
  <2> QED BY <1>1, <2>1 DEF LoopOK
<1> QED BY <1>1

\* The process of a request is gone; the daemon and the files stay.
LEMMA KillClientInv ==
  ASSUME Inv, KillClient
  PROVE  Inv' /\ Newer(st.health, st'.health)
<1>1. /\ UNCHANGED <<st, cache, xr, moved>> /\ now' = now /\ check' = check /\ keep' = keep
      /\ ask' = None /\ hidden' = hidden /\ loop' \in {loop, None}
  BY DEF KillClient
<1>2. now' \in 0..MaxTime /\ now <= now'
  BY <1>1, Facts
<1>3. loop' = None \/ (loop' \in Tries \cup Queues /\ LoopOK')
  BY <1>1, LoopKept
<1> QED BY <1>1, <1>2, <1>3, Facts, Untouched, Composed

\* Xray starts again, with the selected outbound alone.
LEMMA ReloadInv ==
  ASSUME Inv, Reload
  PROVE  Inv' /\ Newer(st.health, st'.health)
<1>1. /\ st' = st /\ cache' = cache /\ moved' = moved /\ now' = now /\ check' = check /\ keep' = keep /\ ask' = ask
      /\ hidden' = hidden /\ loop' = None /\ Live(st) /\ xr' = [outs |-> {st.node}, sel |-> st.node]
  BY DEF Reload, Unlocked
<1>2. st.node \in Node
  BY <1>1, Facts DEF States, Live
<1>3. xr' \in Xrays /\ Routes(st', xr')
  BY <1>1, <1>2 DEF Xrays, Routes
<1>4. Pinned' /\ CacheOK' /\ Timed' /\ Recorded'
  BY <1>1, <1>3, Facts DEF Pinned, CacheOK, Timed, Recorded
<1> QED BY <1>1, <1>3, <1>4, Facts, Composed

-------------------------------------------------------------------------------
(* Steps of the daemon. *)

\* What the daemon leaves of the user's choice.
Leaves ==
    /\ st.mode = "manual" => st'.mode = "manual"
    /\ st.mode = "off" => ~st'.connected
    /\ st'.connected /\ st'.node # st.node => st'.node \notin hidden
Stays == st.mode = "manual" => st'.node = st.node

\* A step of the daemon that writes no state file leaves the choice of the user.
LEMMA UntouchedChoice ==
  ASSUME Inv, st' = st
  PROVE  Leaves /\ Stays
BY Facts DEF Leaves, Stays, Sound

\* The probes and the decision of a health pass, without the lock.
LEMMA BeginHealthCheckInv ==
  ASSUME Inv, BeginHealthCheck
  PROVE  Inv' /\ Newer(st.health, st'.health) /\ Leaves /\ Stays
<1>1. /\ UNCHANGED <<st, cache, xr, moved>> /\ now' = now + 1 /\ now < MaxTime /\ ask' = ask /\ keep' = keep
      /\ loop' = None /\ hidden' = hidden /\ st.mode = "auto"
  BY DEF BeginHealthCheck, Unlocked
<1>2. now' \in 0..MaxTime /\ now' \in Nat /\ now <= now'
  BY <1>1, Facts, Bounds
<1> DEFINE yes == TRUE
           s == Merged
           scope == ScopeOf(s)
           p(out, egress) == Probed(s, scope, hidden, out, egress, now')
           d(out, egress) == evaluateAutoSelection(s, scope, hidden, p(out, egress), now', yes)
<1>3. PICK out \in Outcome, egress \in BOOLEAN : check' = [snap |-> s, hid |-> hidden, d |-> d(out, egress)]
  BY DEF BeginHealthCheck
<1> HIDE DEF s
<1>4. s \in States /\ s.mode = "auto" /\ NoLater(s.health, now) /\ s.health \in Health
  BY <1>1, Facts, MergedState DEF s, States
<1>5. NoLater(s.health, now')
  BY <1>2, <1>4, Facts, Later
<1>6. scope \in {"all", s.sub}
  BY DEF ScopeOf
<1> HIDE DEF scope
<1>7. p(out, egress) \in Health /\ Newer(s.health, p(out, egress)) /\ NoLater(p(out, egress), now')
  BY <1>2, <1>4, <1>5, ProbedHealth
<1> HIDE DEF p, yes
<1>8. /\ d(out, egress) \in Decisions /\ d(out, egress).health = p(out, egress) /\ Selects(d(out, egress))
      /\ Decided(s, hidden, d(out, egress)) /\ Ripe(s, d(out, egress), now')
  BY <1>2, <1>4, <1>6, <1>7, Evaluated
<1> HIDE DEF d
<1>9. check' \in Checks
  BY <1>3, <1>4, <1>8, Facts DEF Checks
<1>10. CheckOK'
  BY <1>3, <1>4, <1>7, <1>8 DEF CheckOK
<1> QED BY <1>1, <1>2, <1>9, <1>10, Facts, Untouched, Composed, UntouchedChoice

\* commitAutoSelection of a fresh decision.
LEMMA CommitSelectionInv ==
  ASSUME Inv, NEW d \in Decisions, d.sel \in Node, CommitSelection(st, d), st.mode = "auto", now' = now,
         Newer(st.health, d.health), NoLater(d.health, now)
  PROVE  /\ st' \in States /\ xr' \in Xrays /\ Pinned' /\ CacheOK' /\ Timed' /\ Recorded'
         /\ Newer(st.health, st'.health)
         /\ st'.connected /\ st'.node # st.node => st'.node = d.sel
<1> DEFINE a(res) == StateAfter(st, d.sel, "auto", res, now)
           s(res) == IF res \in Good THEN Committed(a(res), d, now) ELSE a(res)
<1>1. PICK res \in Results(st, d.sel, FALSE, now) :
        /\ Save("daemon", s(res)) /\ xr' = XrayAfter(st, d.sel, res)
        /\ moved' = IF res \in Good /\ d.switch THEN now ELSE moved
  BY DEF CommitSelection
<1>2. Attempted(st, d.sel, "auto", res, a(res), xr', now)
  BY <1>1, Facts, Attempt, "auto" \in {"auto", "manual"}
<1> HIDE DEF a
<1>3. /\ a(res) \in States /\ xr' \in Xrays /\ Sound(a(res)) /\ Routes(a(res), xr') /\ a(res).switched = st.switched
      /\ Newer(st.health, a(res).health) /\ NoLater(a(res).health, now)
  BY <1>2 DEF Attempted
<1>4. a(res).connected /\ a(res).node # st.node => a(res).node = d.sel
  BY <1>2 DEF Attempted
<1>5. /\ s(res) \in States /\ SameRoute(s(res), a(res)) /\ Newer(st.health, s(res).health) /\ NoLater(s(res).health, now)
      /\ s(res).switched = IF res \in Good /\ d.switch THEN now ELSE st.switched
  <2>1. CASE res \in Good
    <3>1. s(res) = Committed(a(res), d, now) /\ d.health \in Health /\ d.switch \in BOOLEAN
      BY <2>1 DEF Decisions
    <3> HIDE DEF s
    <3>2. /\ s(res) \in States /\ SameRoute(s(res), a(res)) /\ s(res).health = d.health
          /\ s(res).switched = IF d.switch THEN now ELSE a(res).switched
      BY <1>3, <3>1, Facts, CommittedState
    <3> QED BY <1>3, <2>1, <3>2
  <2>2. CASE res \notin Good
    BY <1>3, <2>2 DEF SameRoute
  <2> QED BY <2>1, <2>2
<1> HIDE DEF s
<1>6. st' = s(res) /\ CacheOK' /\ Timed'
  BY <1>1, <1>5, Facts, SavedState
<1>7. Sound(st') /\ Routes(st', xr')
  BY <1>3, <1>5, <1>6, RouteOf
<1>8. Pinned' /\ Recorded'
  BY <1>1, <1>5, <1>6, <1>7, Facts DEF Pinned, Recorded
<1>9. st'.connected /\ st'.node # st.node => st'.node = d.sel
  BY <1>4, <1>5, <1>6 DEF SameRoute
<1> QED BY <1>3, <1>5, <1>6, <1>8, <1>9

\* What the daemon may leave of a server that answers.
Cooled ==
    (Live(st) /\ st'.connected /\ st'.node # st.node /\ SubOf[st.node] = st.sub
     /\ ~Emergency(check.d.health[st.node], Policy))
    => now - moved >= Policy.cooldown

\* The decision of a health pass is applied, dropped, or starts the attempts.
LEMMA CommitHealthCheckInv ==
  ASSUME Inv, CommitHealthCheck
  PROVE  Inv' /\ Newer(st.health, st'.health) /\ Leaves /\ Stays /\ Cooled
<1>1. /\ now' = now /\ hidden' = hidden /\ ask' = ask /\ keep' = keep /\ loop' = None /\ check # None /\ check' = None
  BY DEF CommitHealthCheck, Unlocked
<1>2. /\ check \in Checks /\ check.snap.mode = "auto" /\ Selects(check.d) /\ Decided(check.snap, check.hid, check.d)
      /\ Newer(check.snap.health, check.d.health) /\ NoLater(check.d.health, now) /\ Ripe(check.snap, check.d, now)
  BY <1>1 DEF Inv, Typed, CheckOK
<1>3. check.d \in Decisions /\ check.d.health \in Health /\ check.snap \in States /\ check.snap.health \in Health
  BY <1>2 DEF Checks, Decisions, States
<1>4. SUFFICES /\ st' \in States /\ xr' \in Xrays /\ Pinned' /\ CacheOK' /\ Timed' /\ Recorded'
               /\ Newer(st.health, st'.health) /\ Leaves /\ Stays /\ Cooled
  BY <1>1, Facts, Composed
<1>5. CASE ~Fresh(check, Merged) /\ UNCHANGED <<st, cache, xr, moved>>
  BY <1>1, <1>5, Facts, Untouched, UntouchedChoice DEF Cooled
<1>6. ASSUME Fresh(check, Merged)
      PROVE  /\ check.snap = Merged /\ check.hid = hidden /\ st.mode = "auto"
             /\ SameRoute(check.snap, st) /\ check.snap.switched = st.switched /\ check.snap.sub = st.sub
             /\ Newer(st.health, check.d.health)
  <2>1. check.snap = Merged /\ check.hid = hidden
    BY <1>6 DEF Fresh
  <2>2. /\ Newer(st.health, check.snap.health) /\ SameRoute(check.snap, st) /\ check.snap.switched = st.switched
        /\ check.snap.sub = st.sub /\ st.mode = "auto"
    BY <1>2, <2>1, Facts, MergedState DEF SameRoute
  <2>3. Newer(st.health, check.d.health)
    BY <1>2, <1>3, <2>2, Facts, NewerStill
  <2> QED BY <2>1, <2>2, <2>3
<1>7. CASE Fresh(check, Merged) /\ ~check.d.healthy /\ persistAutoFailure(check.snap, check.d)
  <2> DEFINE m == IF check.snap.connected THEN markConnectionFailed(st, st.sub, check.snap.node, "auto") ELSE check.snap
             s == [m EXCEPT !.health = check.d.health, !.failed = TRUE]
  <2>1. Save("daemon", s) /\ moved' = moved /\ xr' = IF check.snap.connected THEN [outs |-> {}, sel |-> None] ELSE xr
    BY <1>7 DEF persistAutoFailure, Stopped
  <2>2. m \in States /\ ~m.connected /\ m.switched = st.switched
    <3>1. CASE check.snap.connected
      <4>1. m = [st EXCEPT !.sub = st.sub, !.node = check.snap.node, !.mode = "auto", !.connected = FALSE, !.failed = TRUE]
        BY <3>1 DEF markConnectionFailed
      <4>2. check.snap.node \in Node \cup {None} /\ st.sub \in Scope \cup {None}
        BY <1>3, Facts DEF States
      <4> HIDE DEF m
      <4> QED BY <4>1, <4>2, Facts DEF States
    <3>2. CASE ~check.snap.connected
      BY <1>3, <1>6, <1>7, <3>2
    <3> QED BY <3>1, <3>2
  <2> HIDE DEF m
  <2>3. s \in States /\ ~s.connected /\ s.switched = st.switched /\ s.health = check.d.health
    BY <1>3, <2>2 DEF States
  <2> HIDE DEF s
  <2>4. st' = s /\ CacheOK' /\ Timed'
    BY <1>1, <1>2, <2>1, <2>3, Facts, SavedState
  <2>5. xr' \in Xrays
    BY <2>1, Facts DEF Xrays
  <2>6. Pinned' /\ Recorded'
    BY <2>1, <2>3, <2>4, Facts DEF Pinned, Sound, Routes, Live, Recorded
  <2>7. Newer(st.health, st'.health) /\ Leaves /\ Stays /\ Cooled
    BY <1>6, <1>7, <2>3, <2>4 DEF Leaves, Stays, Cooled
  <2> QED BY <2>3, <2>4, <2>5, <2>6, <2>7
<1>8. CASE Fresh(check, Merged) /\ StayHealthy(check.snap, check.d)
  <2> DEFINE next == [check.snap EXCEPT !.health = check.d.health, !.failed = FALSE]
             c == rememberAutoHealthState(next, FALSE)
  <2>1. moved' = moved /\ xr' = xr /\ (Save("daemon", next) \/ (cache' = c /\ st' = st))
    BY <1>8 DEF StayHealthy
  <2>2. /\ next \in States /\ SameRoute(next, st) /\ next.switched = st.switched /\ next.health = check.d.health
    <3>1. next \in States /\ SameRoute(next, check.snap) /\ next.switched = check.snap.switched /\ next.health = check.d.health
      BY <1>3 DEF States, SameRoute
    <3> QED BY <1>6, <1>8, <3>1 DEF SameRoute
  <2> HIDE DEF next
  <2>3. CASE Save("daemon", next)
    <3>1. st' = next /\ CacheOK' /\ Timed'
      BY <1>1, <1>2, <2>2, <2>3, Facts, SavedState
    <3>2. Sound(st') /\ Routes(st', xr')
      BY <2>1, <2>2, <3>1, Facts, RouteOf
    <3>3. Pinned' /\ Recorded'
      BY <2>1, <2>2, <3>1, <3>2, Facts DEF Pinned, Recorded
    <3>4. st'.node = st.node /\ st'.mode = st.mode /\ st.mode = "auto"
      BY <1>6, <1>8, <2>2, <3>1 DEF SameRoute
    <3>5. Leaves /\ Stays /\ Cooled
      BY <3>4 DEF Leaves, Stays, Cooled
    <3> QED BY <1>6, <1>8, <2>1, <2>2, <3>1, <3>3, <3>5, Facts
  <2>4. CASE cache' = c /\ st' = st
    <3>1. c # None => c.health \in Health /\ c.failed \in BOOLEAN /\ NoLater(c.health, now)
      BY <1>2, <2>2, RememberedState
    <3> HIDE DEF c
    <3>2. CacheOK' /\ Timed'
      BY <1>1, <2>4, <3>1, Facts DEF CacheOK, Timed
    <3>3. Pinned' /\ Recorded'
      BY <2>1, <2>4, Facts DEF Pinned, Recorded
    <3>4. Leaves /\ Stays /\ Cooled
      BY <2>4, UntouchedChoice DEF Cooled
    <3> QED BY <2>1, <2>4, <3>2, <3>3, <3>4, Facts
  <2> QED BY <2>1, <2>3, <2>4
<1>9. CASE Fresh(check, Merged) /\ check.d.healthy /\ CommitSelection(st, check.d)
  <2>1. check.d.sel \in Node
    BY <1>2, <1>9 DEF Selects
  <2>2. /\ st' \in States /\ xr' \in Xrays /\ Pinned' /\ CacheOK' /\ Timed' /\ Recorded'
        /\ Newer(st.health, st'.health) /\ (st'.connected /\ st'.node # st.node => st'.node = check.d.sel)
    BY <1>1, <1>2, <1>3, <1>6, <1>9, <2>1, CommitSelectionInv
  <2>3. Live(check.snap) <=> Live(st)
    BY <1>6, <1>9, RouteOf
  <2>4. check.snap.node = st.node /\ check.snap.sub = st.sub /\ check.snap.switched = moved /\ st.mode = "auto" /\ check.hid = hidden
    BY <1>6, <1>9, Facts DEF SameRoute
  <2>5. Leaves /\ Stays
    BY <1>2, <1>9, <2>2, <2>4 DEF Leaves, Stays, Decided
  <2>6. Cooled
    BY <1>2, <1>9, <2>2, <2>3, <2>4 DEF Cooled, Ripe
  <2> QED BY <2>2, <2>5, <2>6
<1> QED BY <1>5, <1>7, <1>8, <1>9 DEF CommitHealthCheck

-------------------------------------------------------------------------------
(* Maintenance of the reserves. *)

\* The probes of reserve maintenance, without the lock.
LEMMA BeginMaintainReservesInv ==
  ASSUME Inv, BeginMaintainReserves
  PROVE  Inv' /\ Newer(st.health, st'.health) /\ Leaves /\ Stays
<1>1. /\ st' = st /\ cache' = cache /\ moved' = moved /\ now' = now + 1 /\ now < MaxTime /\ ask' = ask /\ check' = check
      /\ loop' = None /\ hidden' = hidden
  BY DEF BeginMaintainReserves, Unlocked
<1>2. now' \in 0..MaxTime /\ now' \in Nat /\ now <= now'
  BY <1>1, Facts, Bounds
<1> DEFINE p(offset) == PrepareCandidates(Merged, hidden, offset, now')
<1>3. PICK offset \in 0..(Len(Listed) - 1) :
        /\ keep' = [snap |-> Merged, hid |-> hidden, take |-> p(offset).take, new |-> p(offset).new, at |-> now']
        /\ xr' = [xr EXCEPT !.outs = @ \cup p(offset).prepared]
  BY DEF BeginMaintainReserves
<1>4. offset \in Nat
  BY ListedNodes
<1>5. Merged \in States /\ Merged.health \in Health /\ NoLater(Merged.health, now)
  BY Facts, MergedState DEF States
<1>6. p(offset).take \subseteq Node /\ p(offset).new \subseteq Node /\ p(offset).prepared \subseteq Node
  BY <1>4, <1>5, Prepared
<1> HIDE DEF p
<1>7. keep' \in Keeps
  BY <1>2, <1>3, <1>5, <1>6, Facts DEF Keeps
<1>8. KeepOK'
  <2>1. NoLater(Merged.health, now')
    BY <1>2, <1>5, Facts, Later
  <2>2. keep'.at = now' /\ keep'.snap = Merged
    BY <1>3
  <2> QED BY <1>2, <2>1, <2>2 DEF KeepOK
<1>9. xr' \in Xrays /\ xr'.sel = xr.sel /\ xr.outs \subseteq xr'.outs
  BY <1>3, <1>6, Facts DEF Xrays
<1>10. Pinned' /\ CacheOK' /\ Recorded'
  BY <1>1, <1>9, Facts DEF Pinned, Routes, CacheOK, Recorded
<1>11. NoLater(st.health, now') /\ (cache # None => NoLater(cache.health, now'))
  BY <1>2, Facts, Later DEF CacheOK, Timed
<1>12. Timed'
  BY <1>1, <1>11 DEF Timed
<1> QED BY <1>1, <1>2, <1>7, <1>8, <1>9, <1>10, <1>12, Facts, Composed, UntouchedChoice

\* A list that goes on lists what it listed.
LEMMA ActiveIn ==
  ASSUME NEW a \in Seq(Entry), NEW b \in Seq(Entry), NEW n, Active(a, n)
  PROVE  a \o b \in Seq(Entry) /\ Active(a \o b, n)
<1>1. PICK i \in DOMAIN a : a[i].node = n /\ a[i].role = "active"
  BY DEF Active
<1>2. i \in 1..Len(a) /\ Len(a) \in Nat /\ Len(b) \in Nat
  BY LenProperties
<1>3. a \o b \in Seq(Entry) /\ Len(a \o b) = Len(a) + Len(b) /\ (a \o b)[i] = a[i]
  BY <1>2, ConcatProperties
<1>4. i \in DOMAIN (a \o b)
  BY <1>2, <1>3, LenProperties
<1> QED BY <1>1, <1>3, <1>4 DEF Active

\* Entries of other roles may go.
LEMMA ActiveAmong ==
  ASSUME NEW outs \in Seq(Entry), NEW places \in SUBSET DOMAIN outs,
         \A i \in DOMAIN outs : outs[i].role = "active" => i \in places
  PROVE  Entries(outs, places) \in Seq(Entry) /\ \A n : Active(outs, n) => Active(Entries(outs, places), n)
<1>1. /\ Entries(outs, places) \in Seq(Entry)
      /\ \A i \in places : \E k \in DOMAIN Entries(outs, places) : Entries(outs, places)[k] = outs[i]
  BY EntriesAt
<1> QED BY <1>1 DEF Active

\* The same connection, with other outbounds.
SameServer(c, a) == c.mode = a.mode /\ c.node = a.node /\ c.connected = a.connected
\* So does one that writes the same server and mode.
LEMMA ServerKept ==
  ASSUME Inv, SameServer(st', st)
  PROVE  Leaves /\ Stays
BY Facts DEF SameServer, Leaves, Stays, Sound

\* Removal leaves the selected outbound and what lists it.
LEMMA RemoveOutboundsInv ==
  ASSUME Inv, NEW s \in States, SameServer(s, st), Sound(s), s.switched = st.switched, Newer(st.health, s.health),
         NoLater(s.health, now), NEW nodes, NEW saves, saves \/ s = st, NEW broken,
         RemoveOutbounds(s, nodes, saves, broken), now' = now, moved' = moved
  PROVE  /\ st' \in States /\ xr' \in Xrays /\ Pinned' /\ CacheOK' /\ Timed' /\ Recorded'
         /\ Newer(st.health, st'.health) /\ SameServer(st', st)
<1> DEFINE gone == Removable(s, nodes)
           w == Within(Listed, gone)
           e == DrainingEntries(w)
           k == [s EXCEPT !.outs = s.outs \o e]
<1>1. \/ Save("daemon", k) /\ xr' = xr
      \/ xr' = [xr EXCEPT !.outs = @ \ gone] /\ (Save("daemon", s) \/ (s = st /\ st' = st /\ cache' = cache))
  BY DEF RemoveOutbounds, States
<1>2. xr.sel \notin gone
  BY DEF Removable
<1>3. s.outs \in Seq(Entry) /\ e \in Seq(Entry)
  <2>1. w \in Seq(Node)
    BY ListedNodes, WithinSet
  <2> HIDE DEF w
  <2>2. Len(w) \in Nat /\ DOMAIN w = 1..Len(w) /\ \A i \in 1..Len(w) : w[i] \in Node
    BY <2>1, LenProperties, ElementOfSeq
  <2>3. \A i \in 1..Len(w) : [node |-> w[i], role |-> "draining", wins |-> 0, retire |-> now, verified |-> 0] \in Entry
    BY <2>2, Facts, Bounds DEF Entry
  <2>4. e \in [1..Len(w) -> Entry]
    BY <2>2, <2>3 DEF DrainingEntries
  <2> HIDE DEF e
  <2> QED BY <2>2, <2>4, FunctionSeq DEF States
<1> HIDE DEF gone, e
<1>4. CASE Save("daemon", k) /\ xr' = xr
  <2>1. s.outs \o e \in Seq(Entry)
    BY <1>3, ConcatProperties
  <2>2. k \in States /\ SameServer(k, st) /\ k.outs = s.outs \o e /\ k.switched = st.switched /\ k.health = s.health
    BY <2>1 DEF States, SameServer
  <2> HIDE DEF k
  <2>3. st' = k /\ CacheOK' /\ Timed'
    BY <1>4, <2>2, Facts, SavedState
  <2>4. \A n : Active(s.outs, n) => Active(k.outs, n)
    BY <1>3, <2>2, ActiveIn
  <2>5. Sound(st')
    BY <2>2, <2>3, <2>4 DEF Sound, SameServer, Live
  <2>6. Routes(st', xr')
    BY <1>4, <2>2, <2>3, Facts DEF Routes, SameServer, Live
  <2> QED BY <1>4, <2>2, <2>3, <2>5, <2>6, Facts DEF Pinned, Recorded
<1>5. CASE /\ xr' = [xr EXCEPT !.outs = @ \ gone]
           /\ Save("daemon", s) \/ (s = st /\ st' = st /\ cache' = cache)
  <2>1. st' = s /\ CacheOK' /\ Timed'
    <3>1. CASE Save("daemon", s)
      BY <3>1, Facts, SavedState
    <3>2. CASE s = st /\ st' = st /\ cache' = cache
      BY <3>2, Facts DEF CacheOK, Timed
    <3> QED BY <1>5, <3>1, <3>2
  <2>2. xr' \in Xrays /\ xr'.sel = xr.sel /\ xr'.outs = xr.outs \ gone
    BY <1>5, Facts DEF Xrays
  <2>3. Routes(st', xr')
    BY <1>2, <2>1, <2>2, Facts DEF Routes, SameServer, Live
  <2> QED BY <2>1, <2>2, <2>3, Facts DEF Pinned, Recorded
<1> QED BY <1>1, <1>4, <1>5

\* What a maintenance makes of the state it started from.
LEMMA MaintainedState ==
  ASSUME keep \in Keeps, NoLater(keep.snap.health, keep.at), Sound(keep.snap), NEW out \in Outcome
  PROVE  LET s == Maintained(out)
         IN  /\ s \in States /\ SameServer(s, keep.snap) /\ Sound(s) /\ s.switched = keep.snap.switched
             /\ Newer(keep.snap.health, s.health) /\ NoLater(s.health, keep.at)
<1> DEFINE ok == Reached(out)
           h == ReserveHealth(out, ok)
           o == keep.snap.outs
           b == [n \in Node |-> IF n \in ok THEN NoBackoff
                                ELSE IF n \in keep.take THEN recordFailure(keep.snap.backoff[n], keep.at)
                                ELSE keep.snap.backoff[n]]
           places == {i \in DOMAIN o : o[i].role \notin {"reserve", "candidate"}}
           e == Entries(o, places)
           r == selectManagedReserveStates(ok, h, o, keep.at)
           s == Maintained(out)
<1>1. /\ keep.snap \in States /\ keep.snap.health \in Health /\ keep.snap.backoff \in Backoffs /\ o \in Seq(Entry)
      /\ keep.at \in 0..MaxTime /\ keep.at \in Nat /\ keep.take \subseteq Node
  BY Bounds DEF Keeps, States
<1>2. s = [keep.snap EXCEPT !.health = h, !.backoff = b, !.outs = e \o r]
  BY <1>1 DEF Maintained, MaintainedWith, States
<1>3. ok \subseteq Node
  BY <1>1 DEF Reached
<1>4. h \in Health /\ Newer(keep.snap.health, h) /\ NoLater(h, keep.at)
  <2> DEFINE lat(n) == IF n \in ok THEN out[n] ELSE Fail
             m(n) == Measure(keep.snap.health[n], lat(n), keep.at, 2)
  <2>1. \A n \in Node : keep.snap.health[n] \in HealthRecord /\ keep.snap.health[n].at \in Nat /\ out[n] \in Nat
    BY <1>1, Times, Bounds
  <2>2. \A g \in HealthRecord, l \in Nat : Measure(g, l, keep.at, 2) \in HealthRecord /\ Measure(g, l, keep.at, 2).at = keep.at
    BY <1>1, MeasuredAt, 2 \in Nat, ZenonT(60)
  <2>3. \A n \in Node : lat(n) \in Nat
    BY <2>1 DEF Fail
  <2>4. h = [n \in Node |-> IF n \notin keep.take THEN keep.snap.health[n] ELSE m(n)]
    BY DEF ReserveHealth
  <2> HIDE DEF lat
  <2>5. \A n \in Node : m(n) \in HealthRecord /\ m(n).at = keep.at
    BY ONLY <2>1, <2>2, <2>3
  <2> HIDE DEF m, h
  <2>6. \A n \in Node : h[n] \in HealthRecord /\ keep.snap.health[n].at <= h[n].at /\ h[n].at <= keep.at
    BY <1>1, <2>1, <2>4, <2>5 DEF NoLater
  <2> QED BY ONLY <2>4, <2>6 DEF Health, Newer, NoLater
<1>5. b \in Backoffs
  <2>1. \A n \in Node : keep.snap.backoff[n] \in [count : Nat, until : Nat]
    BY <1>1 DEF Backoffs
  <2>2. \A n \in Node : recordFailure(keep.snap.backoff[n], keep.at) \in [count : Nat, until : Nat] /\ NoBackoff \in [count : Nat, until : Nat]
    BY <1>1, <2>1, BackoffRecord
  <2> HIDE DEF ok
  <2> QED BY <2>1, <2>2 DEF Backoffs
<1> HIDE DEF ok, h, b
<1>6. r \in Seq(Entry)
  BY <1>1, <1>3, <1>4, ChosenReserves
<1>7. e \in Seq(Entry) /\ \A n : Active(o, n) => Active(e, n)
  <2>1. places \in SUBSET DOMAIN o /\ \A i \in DOMAIN o : o[i].role = "active" => i \in places
    OBVIOUS
  <2> HIDE DEF places
  <2> QED BY <1>1, <2>1, ActiveAmong
<1> HIDE DEF o, e, r, s
<1>8. e \o r \in Seq(Entry) /\ \A n : Active(o, n) => Active(e \o r, n)
  BY <1>6, <1>7, ActiveIn, ConcatProperties
<1>9. /\ s \in States /\ SameServer(s, keep.snap) /\ s.outs = e \o r /\ s.switched = keep.snap.switched /\ s.health = h
  BY <1>1, <1>2, <1>4, <1>5, <1>8 DEF States, SameServer
<1>10. Sound(s)
  BY <1>8, <1>9 DEF Sound, SameServer, Live, o
<1> QED BY <1>4, <1>9, <1>10 DEF s

\* Outbounds are added and removed around the selected one.
LEMMA CommitMaintainReservesInv ==
  ASSUME Inv, CommitMaintainReserves
  PROVE  Inv' /\ Newer(st.health, st'.health) /\ Leaves /\ Stays
<1>1. /\ now' = now /\ hidden' = hidden /\ ask' = ask /\ check' = check /\ loop' = None /\ keep # None /\ keep' = None
      /\ moved' = moved
  BY DEF CommitMaintainReserves, Unlocked
<1>2. keep \in Keeps /\ NoLater(keep.snap.health, keep.at) /\ keep.at <= now /\ keep.at \in Nat
  BY <1>1, Bounds DEF Inv, Typed, KeepOK, Keeps
<1>3. SUFFICES /\ st' \in States /\ xr' \in Xrays /\ Pinned' /\ CacheOK' /\ Timed' /\ Recorded'
               /\ Newer(st.health, st'.health) /\ SameServer(st', st)
  BY <1>1, Facts, Composed, ServerKept
<1>4. PICK out \in Outcome, broken \in BOOLEAN :
        IF Fresh(keep, Merged) THEN KeepReserves(Maintained(out), broken)
        ELSE RemoveOutbounds(st, keep.new, FALSE, broken)
  BY DEF CommitMaintainReserves
<1>5. CASE ~Fresh(keep, Merged)
  <2> DEFINE no == FALSE
  <2>1. RemoveOutbounds(st, keep.new, no, broken) /\ SameServer(st, st)
    BY <1>4, <1>5 DEF SameServer
  <2> HIDE DEF no
  <2> QED BY <1>1, <2>1, Facts, RemoveOutboundsInv
<1>6. CASE Fresh(keep, Merged)
  <2> DEFINE s == Maintained(out)
             yes == TRUE
             nodes == (ToSet(Nodes(keep.snap.outs, {"reserve", "candidate"})) \cup keep.new)
                      \ ToSet(Nodes(s.outs, {"reserve", "candidate"}))
  <2>1. keep.snap = Merged
    BY <1>6 DEF Fresh
  <2>2. /\ SameRoute(keep.snap, st) /\ keep.snap.switched = st.switched /\ Newer(st.health, keep.snap.health)
        /\ keep.snap.health \in Health
    BY <2>1, Facts, MergedState DEF SameRoute, States
  <2>3. Sound(keep.snap)
    BY <2>2, Facts, RouteOf
  <2>4. RemoveOutbounds(s, nodes, yes, broken) /\ yes
    BY <1>4, <1>6 DEF KeepReserves
  <2> HIDE DEF s, yes, nodes
  <2>5. /\ s \in States /\ SameServer(s, keep.snap) /\ Sound(s) /\ s.switched = keep.snap.switched
        /\ Newer(keep.snap.health, s.health) /\ NoLater(s.health, keep.at)
    BY <1>2, <2>3, MaintainedState DEF s
  <2>6. SameServer(s, st) /\ s.switched = st.switched /\ s.health \in Health
    BY <2>2, <2>5 DEF SameServer, SameRoute, States
  <2>7. Newer(st.health, s.health) /\ NoLater(s.health, now)
    BY <1>2, <2>2, <2>5, <2>6, Facts, NewerStill, Later
  <2> QED BY <1>1, <2>4, <2>5, <2>6, <2>7, RemoveOutboundsInv
<1> QED BY <1>5, <1>6

\* Draining outbounds whose time is over are removed.
LEMMA CleanupInv ==
  ASSUME Inv, CleanupManagedOutbounds
  PROVE  Inv' /\ Newer(st.health, st'.health) /\ Leaves /\ Stays
<1> DEFINE due == {i \in DOMAIN st.outs : LET e == st.outs[i]
                     IN e.role = "draining" /\ e.retire > 0 /\ now >= e.retire /\ e.node # xr.sel}
           k(gone) == [st EXCEPT !.outs = Entries(st.outs, DOMAIN st.outs \ gone)]
<1>1. /\ now' = now /\ hidden' = hidden /\ ask' = ask /\ check' = check /\ loop' = None /\ keep' = keep /\ moved' = moved
  BY DEF CleanupManagedOutbounds, Unlocked
<1>2. PICK gone \in SUBSET due :
        Save("daemon", k(gone)) /\ xr' = [xr EXCEPT !.outs = @ \ {st.outs[i].node : i \in gone}]
  BY Facts DEF CleanupManagedOutbounds, States
<1>3. \A i \in gone : i \in DOMAIN st.outs /\ st.outs[i].role # "active" /\ st.outs[i].node # xr.sel
  OBVIOUS
<1> HIDE DEF due
<1> DEFINE o == Entries(st.outs, DOMAIN st.outs \ gone)
<1>4. o \in Seq(Entry) /\ \A n : Active(st.outs, n) => Active(o, n)
  <2> DEFINE places == DOMAIN st.outs \ gone
  <2>1. places \in SUBSET DOMAIN st.outs /\ \A i \in DOMAIN st.outs : st.outs[i].role = "active" => i \in places
    BY <1>3
  <2>2. st.outs \in Seq(Entry)
    BY Facts DEF States
  <2> HIDE DEF places
  <2>3. Entries(st.outs, places) \in Seq(Entry) /\ \A n : Active(st.outs, n) => Active(Entries(st.outs, places), n)
    BY <2>1, <2>2, ActiveAmong
  <2> QED BY <2>3 DEF places
<1> HIDE DEF o
<1>5. /\ k(gone) \in States /\ SameServer(k(gone), st) /\ k(gone).outs = o /\ k(gone).switched = st.switched
      /\ k(gone).health = st.health
  <2>1. k(gone) = [st EXCEPT !.outs = o]
    BY DEF o
  <2> HIDE DEF k
  <2> QED BY <1>4, <2>1, Facts DEF States, SameServer
<1> HIDE DEF k
<1>6. st' = k(gone) /\ CacheOK' /\ Timed'
  BY <1>1, <1>2, <1>5, Facts, SavedState
<1>7. xr' \in Xrays /\ xr'.sel = xr.sel /\ xr'.outs = xr.outs \ {st.outs[i].node : i \in gone}
  BY <1>2, Facts DEF Xrays
<1>8. Sound(st')
  BY <1>4, <1>5, <1>6, Facts DEF Sound, SameServer, Live
<1>9. Routes(st', xr')
  BY <1>3, <1>5, <1>6, <1>7, Facts DEF Routes, SameServer, Live
<1>10. Pinned' /\ Recorded'
  BY <1>1, <1>5, <1>6, <1>8, <1>9, Facts DEF Pinned, Recorded
<1> QED BY <1>1, <1>5, <1>6, <1>7, <1>10, Facts, Composed, ServerKept

-------------------------------------------------------------------------------
(* Failover and the attempts under the store lock. *)

\* A failover collects its reserves.
LEMMA BeginFailoverInv ==
  ASSUME Inv, BeginFailover
  PROVE  Inv' /\ Newer(st.health, st'.health) /\ Leaves
<1>1. /\ UNCHANGED <<st, cache, xr, moved>> /\ now' = now /\ check' = check /\ ask' = ask /\ keep' = keep
      /\ hidden' = hidden /\ Live(st) /\ st.mode \in {"auto", "manual"} /\ Reserves(Merged) # <<>>
      /\ loop' = [kind |-> "reserves", who |-> "daemon", mode |-> st.mode, queue |-> Reserves(Merged),
                  outs |-> Merged.outs]
  BY DEF BeginFailover
<1>2. now' \in 0..MaxTime /\ now <= now'
  BY <1>1, Facts
<1>3. Merged \in States /\ Merged.outs \in Seq(Entry)
  BY Facts, MergedState DEF States
<1>4. Reserves(Merged) \in Seq(Node) /\ \A i \in DOMAIN Reserves(Merged) : Reserves(Merged)[i] \notin hidden
  BY <1>3, ReservesOf
<1>5. loop' \in Queues
  BY <1>1, <1>3, <1>4 DEF Queues
<1>6. LoopOK'
  BY <1>1, <1>4 DEF LoopOK
<1> QED BY <1>1, <1>2, <1>5, <1>6, Facts, Untouched, UntouchedChoice, Composed

\* One reserve is tried, then the next.
LEMMA TryReserveInv ==
  ASSUME Inv, TryReserve
  PROVE  Inv' /\ Newer(st.health, st'.health) /\ Leaves
<1> DEFINE n == Head(loop.queue)
           rest == Tail(loop.queue)
           i == SelectInSeq(loop.outs, LAMBDA e : e.node = n /\ e.role = "reserve")
           skip == loop.outs[i].verified = now
           a(res) == StateAfter(st, n, loop.mode, res, now)
           s(res) == IF res \in Good THEN [a(res) EXCEPT !.switched = now, !.failed = TRUE] ELSE a(res)
<1>1. /\ now' = now /\ hidden' = hidden /\ check' = check /\ ask' = ask /\ keep' = keep /\ loop # None
      /\ loop.kind = "reserves"
  BY DEF TryReserve
<1>2. PICK res \in Results(st, n, skip, now) :
        /\ xr' = XrayAfter(st, n, res) /\ Save("daemon", s(res))
        /\ loop' = IF res \in Good \/ rest = <<>> THEN None ELSE [loop EXCEPT !.queue = rest]
        /\ moved' = IF res \in Good THEN now ELSE moved
  BY DEF TryReserve
<1>3. /\ loop \in Queues /\ loop.queue \in Seq(Node) /\ loop.queue # <<>> /\ loop.mode \in {"auto", "manual"}
      /\ Live(st) /\ st.mode = loop.mode /\ \A k \in DOMAIN loop.queue : loop.queue[k] \notin hidden
  BY <1>1 DEF Inv, Typed, LoopOK, Tries, Queues
<1>4. n \in Node /\ n \notin hidden /\ rest \in Seq(Node) /\ \A k \in DOMAIN rest : rest[k] \notin hidden
  <2>1. Len(loop.queue) \in Nat \ {0} /\ DOMAIN loop.queue = 1..Len(loop.queue)
    BY <1>3, EmptySeq, LenProperties
  <2>2. n = loop.queue[1] /\ n \in Node
    BY <1>3, HeadTailProperties
  <2>3. /\ rest \in Seq(Node) /\ Len(rest) = Len(loop.queue) - 1
        /\ \A k \in 1..Len(rest) : rest[k] = loop.queue[k + 1]
    BY <1>3, HeadTailProperties
  <2>4. DOMAIN rest = 1..Len(rest)
    BY <2>3, LenProperties
  <2> HIDE DEF n, rest
  <2> QED BY <1>3, <2>1, <2>2, <2>3, <2>4, SMTT(30)
<1> HIDE DEF n, rest, skip
<1>5. Attempted(st, n, loop.mode, res, a(res), xr', now)
  BY <1>2, <1>3, <1>4, Facts, Attempt
<1> HIDE DEF a
<1>6. /\ a(res) \in States /\ xr' \in Xrays /\ Sound(a(res)) /\ Routes(a(res), xr') /\ a(res).switched = st.switched
      /\ Newer(st.health, a(res).health) /\ NoLater(a(res).health, now) /\ a(res).mode = st.mode
      /\ res \in Good => a(res).node = n
      /\ res \notin Good => Live(a(res)) /\ a(res).node = st.node
  BY <1>3, <1>5 DEF Attempted
<1>7. /\ s(res) \in States /\ SameRoute(s(res), a(res)) /\ s(res).health = a(res).health
      /\ s(res).switched = IF res \in Good THEN now ELSE st.switched
  <2>1. CASE res \in Good
    <3>1. s(res) = [a(res) EXCEPT !.switched = now, !.failed = TRUE]
      BY <2>1
    <3> HIDE DEF s
    <3> QED BY <1>6, <2>1, <3>1, Facts DEF States, SameRoute
  <2>2. CASE res \notin Good
    BY <1>6, <2>2 DEF SameRoute
  <2> QED BY <2>1, <2>2
<1> HIDE DEF s
<1>8. st' = s(res) /\ CacheOK' /\ Timed'
  BY <1>1, <1>2, <1>6, <1>7, Facts, SavedState
<1>9. Sound(st') /\ Routes(st', xr') /\ (Live(st') <=> Live(a(res)))
  BY <1>6, <1>7, <1>8, RouteOf
<1>10. Pinned' /\ Recorded'
  BY <1>2, <1>7, <1>8, <1>9, Facts DEF Pinned, Recorded
<1>11. st'.mode = st.mode /\ (res \in Good => st'.node = n) /\ (res \notin Good => st'.node = st.node)
  BY <1>6, <1>7, <1>8 DEF SameRoute
<1>12. Leaves
  BY <1>3, <1>4, <1>11, Facts DEF Leaves, Sound, Live
<1>13. ASSUME ~(res \in Good \/ rest = <<>>)
       PROVE  loop' \in Tries \cup Queues /\ LoopOK'
  <2>1. loop' = [loop EXCEPT !.queue = rest]
    BY <1>2, <1>13
  <2>2. loop' \in Queues /\ loop'.kind = "reserves" /\ loop'.queue = rest /\ loop'.mode = loop.mode
    BY <1>3, <1>4, <2>1 DEF Queues
  <2>3. Live(st') /\ st'.mode = loop'.mode
    BY <1>3, <1>6, <1>9, <1>11, <1>13, <2>2
  <2>4. LoopOK'
    BY <1>1, <1>4, <1>13, <2>2, <2>3 DEF LoopOK
  <2> QED BY <2>2, <2>4
<1>14. loop' = None \/ (loop' \in Tries \cup Queues /\ LoopOK')
  BY <1>2, <1>13
<1> QED BY <1>1, <1>6, <1>7, <1>8, <1>10, <1>12, <1>14, Facts, Composed

\* What is decided without probes, the current server counting as failed.
LEMMA KnownDecided ==
  ASSUME Inv, Live(st), NEW scope, NEW h
  PROVE  LET d == KnownDecision(Merged, scope, h)
             f == [Merged EXCEPT !.health[Merged.node] = ForceFailure(@, now, Policy.threshold)]
         IN  /\ d \in Decisions /\ Selects(d) /\ Decided(Merged, h, d)
             /\ Newer(st.health, d.health) /\ NoLater(d.health, now)
             /\ f \in States /\ SameRoute(f, Merged) /\ f.switched = Merged.switched
<1> DEFINE s == Merged
           g == [s.health EXCEPT ![s.node] = ForceFailure(@, now, Policy.threshold)]
           k == ForcedHealth(s, g, scope, h, now)
           no == FALSE
           d == KnownDecision(Merged, scope, h)
           f == [s EXCEPT !.health[s.node] = ForceFailure(@, now, Policy.threshold)]
<1>1. /\ s \in States /\ s.health \in Health /\ NoLater(s.health, now) /\ s.node = st.node /\ s.node \in Node
      /\ Newer(st.health, s.health)
  BY Facts, MergedState DEF States, Live
<1>2. d = evaluateAutoSelection(s, scope, h, k, now, no) /\ f = [s EXCEPT !.health = g]
  BY DEF KnownDecision
<1> HIDE DEF s, no
<1>3. g \in Health /\ Newer(s.health, g) /\ NoLater(g, now)
  BY <1>1, Facts, ForcedAt
<1> HIDE DEF g
<1>4. k \in Health /\ Newer(g, k) /\ NoLater(k, now)
  BY <1>1, <1>3, Facts, HiddenForced
<1> HIDE DEF k, d, f
<1>5. d \in Decisions /\ d.health = k /\ Selects(d) /\ Decided(s, h, d)
  BY <1>1, <1>2, <1>4, Facts, Evaluated
<1>6. Newer(st.health, g)
  BY <1>1, <1>3, Facts, NewerStill
<1>7. Newer(st.health, k)
  BY <1>3, <1>4, <1>6, Facts, NewerStill
<1>8. f \in States /\ SameRoute(f, s) /\ f.switched = s.switched
  BY <1>1, <1>2, <1>3 DEF States, SameRoute
<1> QED BY <1>4, <1>5, <1>7, <1>8 DEF s, d, f

\* No reserve is left: an automatic selection is made anew.
LEMMA AutoFailoverInv ==
  ASSUME Inv, AutoFailover
  PROVE  Inv' /\ Newer(st.health, st'.health) /\ Leaves
<1> DEFINE s == Merged
           scope == ScopeOf(s)
           d == KnownDecision(s, scope, hidden)
           f == [s EXCEPT !.health[s.node] = ForceFailure(@, now, Policy.threshold)]
           left == Least(MaxAttempts, Len(autoSelectableNodes(scope, hidden)))
<1>1. /\ UNCHANGED <<st, cache, xr, moved>> /\ now' = now /\ check' = check /\ ask' = ask /\ keep' = keep
      /\ hidden' = hidden /\ Live(st)
      /\ loop' = None \/ loop' = [kind |-> "connect", who |-> "daemon", scope |-> scope, snap |-> f, d |-> d,
                                  tried |-> {}, left |-> left]
  BY DEF AutoFailover, Attempts
<1>2. now' \in 0..MaxTime /\ now <= now'
  BY <1>1, Facts
<1>3. /\ d \in Decisions /\ Selects(d) /\ Newer(st.health, d.health) /\ NoLater(d.health, now)
      /\ f \in States /\ SameRoute(f, s) /\ f.switched = s.switched
  BY <1>1, KnownDecided
<1>4. SameRoute(s, st) /\ s.switched = st.switched
  BY Facts, MergedState DEF SameRoute
<1>5. scope \in Scope \cup {None} /\ left \in Nat
  <2>1. scope \in Scope \cup {None}
    BY Facts, MergedState DEF ScopeOf, States, Scope
  <2> QED BY <2>1, Selectable, Bounds DEF Least
<1> HIDE DEF s, scope, d, f, left
<1>6. Holds(f, st)
  <2>1. SameRoute(f, st) /\ f.switched = st.switched
    BY <1>3, <1>4 DEF SameRoute
  <2> QED BY <2>1, Facts DEF Holds, SameRoute, Live, Sound
<1>7. ASSUME loop' # None
      PROVE  loop' \in Tries \cup Queues /\ LoopOK'
  <2>1. loop' = [kind |-> "connect", who |-> "daemon", scope |-> scope, snap |-> f, d |-> d, tried |-> {}, left |-> left]
    BY <1>1, <1>7
  <2>2. loop' \in Tries
    BY <1>3, <1>5, <2>1 DEF Tries
  <2>3. LoopOK'
    BY <1>1, <1>3, <1>6, <2>1 DEF LoopOK
  <2> QED BY <2>2, <2>3
<1>8. loop' = None \/ (loop' \in Tries \cup Queues /\ LoopOK')
  BY <1>7
<1> QED BY <1>1, <1>2, <1>8, Facts, Untouched, UntouchedChoice, Composed

\* No reserve is left: another server of any subscription is tried.
LEMMA ManualFailoverInv ==
  ASSUME Inv, ManualFailover
  PROVE  Inv' /\ Newer(st.health, st'.health) /\ Leaves
<1> DEFINE d == KnownDecision(Merged, "all", hidden \cup {st.node})
           a(res) == StateAfter(st, d.sel, "manual", res, now)
           s(res) == IF res \notin Good THEN a(res)
                     ELSE [a(res) EXCEPT !.health = d.health, !.switched = now, !.failed = TRUE]
<1>1. /\ now' = now /\ hidden' = hidden /\ check' = check /\ ask' = ask /\ keep' = keep /\ loop' = None
      /\ Live(st) /\ st.mode = "manual" /\ d.healthy /\ d.sel # st.node
  BY DEF ManualFailover, Unlocked
<1>2. PICK res \in Results(st, d.sel, FALSE, now) :
        /\ Save("daemon", s(res)) /\ xr' = XrayAfter(st, d.sel, res)
        /\ moved' = IF res \in Good THEN now ELSE moved
  BY DEF ManualFailover
<1>3. /\ d \in Decisions /\ Selects(d) /\ Decided(Merged, hidden \cup {st.node}, d)
      /\ Newer(st.health, d.health) /\ NoLater(d.health, now)
  BY <1>1, KnownDecided
<1>4. d.sel \in Node /\ d.sel \notin hidden /\ d.health \in Health
  <2>1. Merged.node = st.node
    BY Facts, MergedState
  <2> HIDE DEF d
  <2> QED BY <1>1, <1>3, <2>1 DEF Selects, Decided, Decisions
<1> HIDE DEF d
<1>5. Attempted(st, d.sel, "manual", res, a(res), xr', now)
  BY <1>2, <1>4, Facts, Attempt, "manual" \in {"auto", "manual"}
<1> HIDE DEF a
<1>6. /\ a(res) \in States /\ xr' \in Xrays /\ Sound(a(res)) /\ Routes(a(res), xr') /\ a(res).switched = st.switched
      /\ Newer(st.health, a(res).health) /\ NoLater(a(res).health, now) /\ a(res).mode = "manual"
      /\ res \in Good => a(res).node = d.sel
      /\ res \notin Good => a(res).node = st.node
  BY <1>1, <1>5 DEF Attempted
<1>7. /\ s(res) \in States /\ SameRoute(s(res), a(res)) /\ Newer(st.health, s(res).health) /\ NoLater(s(res).health, now)
      /\ s(res).switched = IF res \in Good THEN now ELSE st.switched
  <2>1. CASE res \in Good
    <3>1. s(res) = [a(res) EXCEPT !.health = d.health, !.switched = now, !.failed = TRUE]
      BY <2>1
    <3> HIDE DEF s
    <3>2. /\ s(res) \in States /\ SameRoute(s(res), a(res)) /\ s(res).health = d.health /\ s(res).switched = now
      BY <1>4, <1>6, <3>1, Facts DEF States, SameRoute
    <3> QED BY <1>3, <2>1, <3>2
  <2>2. CASE res \notin Good
    BY <1>6, <2>2 DEF SameRoute
  <2> QED BY <2>1, <2>2
<1> HIDE DEF s
<1>8. st' = s(res) /\ CacheOK' /\ Timed'
  BY <1>1, <1>2, <1>7, Facts, SavedState
<1>9. Sound(st') /\ Routes(st', xr')
  BY <1>6, <1>7, <1>8, RouteOf
<1>10. Pinned' /\ Recorded'
  BY <1>2, <1>7, <1>8, <1>9, Facts DEF Pinned, Recorded
<1>11. st'.mode = st.mode /\ st'.node \in {d.sel, st.node}
  BY <1>1, <1>6, <1>7, <1>8 DEF SameRoute
<1>12. Leaves
  BY <1>1, <1>4, <1>11 DEF Leaves
<1> QED BY <1>1, <1>6, <1>7, <1>8, <1>10, <1>12, Facts, Composed

\* The failover is over.
LEMMA EndFailoverInv ==
  ASSUME Inv, EndFailover
  PROVE  Inv' /\ Newer(st.health, st'.health) /\ Leaves /\ Stays
<1>1. /\ UNCHANGED <<st, cache, xr, moved>> /\ now' = now /\ check' = check /\ ask' = ask /\ keep' = keep
      /\ hidden' = hidden /\ loop' = None
  BY DEF EndFailover, Unlocked
<1>2. now' \in 0..MaxTime /\ now <= now'
  BY <1>1, Facts
<1> QED BY <1>1, <1>2, Facts, Untouched, UntouchedChoice, Composed

\* The daemon loses its cache and its loop; the files stay.
LEMMA RestartDaemonInv ==
  ASSUME Inv, RestartDaemon
  PROVE  Inv' /\ Newer(st.health, st'.health) /\ Leaves /\ Stays
<1>1. /\ st' = st /\ hidden' = hidden /\ now' = now /\ xr' = xr /\ ask' = ask /\ moved' = moved
      /\ cache' = None /\ check' = None /\ keep' = None /\ loop' \in {loop, None}
  BY DEF RestartDaemon
<1>2. Pinned' /\ CacheOK' /\ Timed' /\ Recorded'
  BY <1>1, Facts DEF Pinned, CacheOK, Timed, Recorded
<1>3. loop' = None \/ (loop' \in Tries \cup Queues /\ LoopOK')
  BY <1>1, LoopKept
<1> QED BY <1>1, <1>2, <1>3, Facts, UntouchedChoice, Composed

\* One candidate of an automatic selection is tried.
LEMMA TryCandidateInv ==
  ASSUME Inv, TryCandidate
  PROVE  Inv' /\ Newer(st.health, st'.health)
<1> DEFINE n == loop.d.sel
           a(res) == StateAfter(st, n, "auto", res, now)
           c(res) == [Committed(a(res), loop.d, now) EXCEPT !.scope = loop.scope]
<1>1. /\ now' = now /\ hidden' = hidden /\ check' = check /\ ask' = ask /\ keep' = keep /\ loop # None
      /\ loop.kind = "connect" /\ loop.d.healthy /\ loop.left > 0
  BY DEF TryCandidate
<1>2. PICK res \in Results(st, n, FALSE, now) :
        /\ xr' = XrayAfter(st, n, res)
        /\ \/ /\ res \in Good /\ Save(loop.who, c(res)) /\ loop' = None
              /\ moved' = IF loop.d.switch THEN now ELSE moved
           \/ res \in Retryable /\ Save(loop.who, a(res)) /\ loop' = NextDecision(a(res), n) /\ moved' = moved
           \/ res \notin Good \cup Retryable /\ Save(loop.who, a(res)) /\ loop' = None /\ moved' = moved
  BY DEF TryCandidate
<1>3. /\ loop \in Tries /\ loop.d \in Decisions /\ loop.d.health \in Health /\ loop.d.switch \in BOOLEAN
      /\ loop.scope \in Scope \cup {None} /\ Holds(loop.snap, st) /\ n \in Node
      /\ Newer(st.health, loop.d.health) /\ NoLater(loop.d.health, now)
  BY <1>1 DEF Inv, Typed, LoopOK, Tries, Queues, Decisions, Selects
<1>4. Attempted(st, n, "auto", res, a(res), xr', now)
  BY <1>2, <1>3, Facts, Attempt, "auto" \in {"auto", "manual"}
<1> HIDE DEF a
<1>5. /\ a(res) \in States /\ xr' \in Xrays /\ Sound(a(res)) /\ Routes(a(res), xr') /\ a(res).switched = st.switched
      /\ Newer(st.health, a(res).health) /\ NoLater(a(res).health, now)
      /\ res \notin Good /\ Live(st) => Live(a(res)) /\ a(res).node = st.node
  BY <1>4 DEF Attempted
<1>6. CASE /\ res \in Good /\ Save(loop.who, c(res)) /\ loop' = None
           /\ moved' = IF loop.d.switch THEN now ELSE moved
  <2>1. /\ c(res) \in States /\ SameRoute(c(res), a(res)) /\ c(res).health = loop.d.health
        /\ c(res).switched = IF loop.d.switch THEN now ELSE a(res).switched
    BY <1>3, <1>5, Facts, CommittedScope
  <2> HIDE DEF c
  <2>2. st' = c(res) /\ CacheOK' /\ Timed'
    BY <1>1, <1>3, <1>6, <2>1, Facts, SavedState
  <2>3. Sound(st') /\ Routes(st', xr')
    BY <1>5, <2>1, <2>2, RouteOf
  <2>4. Pinned' /\ Recorded' /\ Newer(st.health, st'.health)
    BY <1>3, <1>5, <1>6, <2>1, <2>2, <2>3, Facts DEF Pinned, Recorded
  <2> QED BY <1>1, <1>5, <1>6, <2>1, <2>2, <2>4, Facts, Composed
<1>7. ASSUME Save(loop.who, a(res)), moved' = moved
      PROVE  st' = a(res) /\ CacheOK' /\ Timed' /\ Pinned' /\ Recorded' /\ Newer(st.health, st'.health)
  <2>1. st' = a(res) /\ CacheOK' /\ Timed'
    BY <1>1, <1>5, <1>7, Facts, SavedState
  <2> QED BY <1>5, <1>7, <2>1, Facts DEF Pinned, Recorded
<1>8. CASE res \in Retryable /\ Save(loop.who, a(res)) /\ loop' = NextDecision(a(res), n) /\ moved' = moved
  <2> DEFINE tried == loop.tried \cup {n}
             h == MergeProbeHealth(a(res).health, loop.d.health, n)
             k == ForcedHealth(a(res), h, loop.scope, hidden \cup tried, now)
             no == FALSE
             d == evaluateAutoSelection(a(res), loop.scope, hidden \cup tried, k, now, no)
             left == loop.left - 1
  <2>1. loop' = [loop EXCEPT !.tried = tried, !.left = left, !.d = d]
    BY <1>3, <1>8 DEF NextDecision, Tries
  <2>2. left \in Nat /\ tried \in SUBSET Node
    BY <1>1, <1>3 DEF Tries
  <2> HIDE DEF no, left, tried
  <2>3. a(res).health \in Health
    BY <1>5 DEF States
  <2>4. h \in Health /\ Newer(a(res).health, h) /\ NoLater(h, now)
    BY <1>3, <1>5, <2>3, Facts, MergedHealth
  <2> HIDE DEF h
  <2>5. k \in Health /\ Newer(h, k) /\ NoLater(k, now)
    BY <1>5, <2>4, Facts, HiddenForced
  <2> HIDE DEF k
  <2>6. d \in Decisions /\ d.health = k /\ Selects(d)
    BY <1>5, <2>5, Facts, Evaluated
  <2> HIDE DEF d
  <2>7. Newer(a(res).health, k)
    BY <2>3, <2>4, <2>5, NewerStill
  <2>8. loop' \in Tries /\ loop'.kind = "connect" /\ loop'.snap = loop.snap /\ loop'.d = d
    BY <1>3, <2>1, <2>2, <2>6 DEF Tries
  <2>9. Holds(loop.snap, a(res))
    BY <1>3, <1>5, <1>8 DEF Holds, Retryable, Good
  <2>10. LoopOK'
    BY <1>1, <1>7, <1>8, <2>5, <2>6, <2>7, <2>8, <2>9 DEF LoopOK
  <2> QED BY <1>1, <1>5, <1>7, <1>8, <2>8, <2>10, Facts, Composed
<1>9. CASE Save(loop.who, a(res)) /\ loop' = None /\ moved' = moved
  BY <1>1, <1>5, <1>7, <1>9, Facts, Composed
<1> QED BY <1>2, <1>6, <1>8, <1>9

\* All attempts failed: the last state is written.
LEMMA GiveUpInv ==
  ASSUME Inv, GiveUp
  PROVE  Inv' /\ Newer(st.health, st'.health)
<1> DEFINE scope == IF loop.scope = "all" THEN "all" ELSE loop.snap.scope
           sub == IF loop.scope # "all" THEN loop.scope
                  ELSE IF loop.snap.sub = None THEN SubOf[Listed[1]] ELSE loop.snap.sub
           s == [loop.snap EXCEPT !.health = loop.d.health, !.mode = "auto", !.failed = TRUE, !.scope = scope, !.sub = sub]
<1>1. /\ now' = now /\ hidden' = hidden /\ check' = check /\ ask' = ask /\ keep' = keep /\ loop # None /\ loop' = None
      /\ xr' = xr /\ moved' = moved /\ loop.kind = "connect"
  BY DEF GiveUp
<1>2. /\ loop \in Tries /\ loop.snap \in States /\ loop.d.health \in Health
      /\ loop.scope \in Scope \cup {None} /\ Holds(loop.snap, st)
      /\ Newer(st.health, loop.d.health) /\ NoLater(loop.d.health, now)
  BY <1>1 DEF Inv, Typed, LoopOK, Tries, Queues, Decisions
<1>3. (st' = st /\ cache' = cache) \/ Save(loop.who, s)
  BY <1>2 DEF GiveUp, States
<1>4. CASE st' = st /\ cache' = cache
  BY <1>1, <1>4, Facts, Untouched, Composed
<1>5. CASE Save(loop.who, s)
  <2>1. scope \in Scope \cup {None} /\ sub \in Scope \cup {None}
    BY <1>2, ListedNodes DEF Scope, States
  <2> HIDE DEF scope, sub
  <2>2. /\ s \in States /\ s.mode = "auto" /\ s.node = loop.snap.node /\ s.connected = loop.snap.connected
        /\ s.outs = loop.snap.outs /\ s.health = loop.d.health /\ s.switched = loop.snap.switched
    BY <1>2, <2>1 DEF States
  <2> HIDE DEF s
  <2>3. st' = s /\ CacheOK' /\ Timed'
    BY <1>1, <1>2, <1>5, <2>2, Facts, SavedState
  <2>4. Sound(st') /\ Routes(st', xr')
    BY <1>1, <1>2, <2>2, <2>3, Facts DEF Sound, Routes, Live, Holds
  <2>5. Pinned' /\ Recorded'
    BY <1>1, <1>2, <2>2, <2>3, <2>4, Facts DEF Pinned, Recorded, Holds
  <2> QED BY <1>1, <1>2, <2>2, <2>3, <2>5, Facts, Composed
<1> QED BY <1>3, <1>4, <1>5

-------------------------------------------------------------------------------
(* The theorems. *)

\* A command of the user keeps the invariant and the newest observations.
LEMMA UserInv ==
  ASSUME Inv, User
  PROVE  Inv' /\ Newer(st.health, st'.health)
<1>1. CASE \E n \in Picked : ConnectManual(n)
  BY <1>1, ConnectManualInv
<1>2. CASE \E n \in Picked : Hide(n)
  BY <1>2, HideInv
<1>3. CASE \E n \in Picked : \E scope \in {"all", SubOf[n]} : ConnectAutoSelected(n, scope)
  BY <1>3, ConnectAutoSelectedInv
<1>4. CASE Disconnect
  BY <1>4, DisconnectInv
<1> QED BY <1>1, <1>2, <1>3, <1>4 DEF User

\* A request whose probes run without the lock does, too.
LEMMA ClientInv ==
  ASSUME Inv, Client
  PROVE  Inv' /\ Newer(st.health, st'.health)
<1>1. CASE \E scope \in Scopes : BeginConnectAuto(scope)
  BY <1>1, BeginConnectAutoInv
<1>2. CASE \E scope \in Scopes : BeginMeasure(ToSet(autoSelectableNodes(scope, hidden)), FALSE)
  <2> DEFINE no == FALSE
  <2>1. PICK scope \in Scopes : BeginMeasure(ToSet(autoSelectableNodes(scope, hidden)), no)
    BY <1>2
  <2>2. ToSet(autoSelectableNodes(scope, hidden)) \in SUBSET Node /\ no \in BOOLEAN
    BY Selectable, Elements
  <2> HIDE DEF no
  <2> QED BY <2>1, <2>2, BeginMeasureInv
<1>3. CASE \E n \in Picked : BeginMeasure({n}, TRUE)
  <2> DEFINE yes == TRUE
  <2>1. PICK n \in Picked : BeginMeasure({n}, yes)
    BY <1>3
  <2>2. {n} \in SUBSET Node /\ yes \in BOOLEAN
    BY Servers
  <2> HIDE DEF yes
  <2> QED BY <2>1, <2>2, BeginMeasureInv
<1>4. CASE CommitConnectAuto
  BY <1>4, CommitConnectAutoInv
<1>5. CASE CommitMeasure
  BY <1>5, CommitMeasureInv
<1>6. CASE KillClient
  BY <1>6, KillClientInv
<1> QED BY <1>1, <1>2, <1>3, <1>4, <1>5, <1>6 DEF Client

\* A step of the daemon does, and leaves the choice of the user.
LEMMA DaemonInv ==
  ASSUME Inv, Daemon
  PROVE  Inv' /\ Newer(st.health, st'.health) /\ Leaves /\ (Stays \/ Failover)
<1>1. CASE BeginHealthCheck
  BY <1>1, BeginHealthCheckInv
<1>2. CASE CommitHealthCheck
  BY <1>2, CommitHealthCheckInv
<1>3. CASE BeginMaintainReserves
  BY <1>3, BeginMaintainReservesInv
<1>4. CASE CommitMaintainReserves
  BY <1>4, CommitMaintainReservesInv
<1>5. CASE CleanupManagedOutbounds
  BY <1>5, CleanupInv
<1>6. CASE Failover
  <2>1. CASE BeginFailover
    BY <1>6, <2>1, BeginFailoverInv
  <2>2. CASE TryReserve
    BY <1>6, <2>2, TryReserveInv
  <2>3. CASE AutoFailover
    BY <1>6, <2>3, AutoFailoverInv
  <2>4. CASE ManualFailover
    BY <1>6, <2>4, ManualFailoverInv
  <2> QED BY <1>6, <2>1, <2>2, <2>3, <2>4 DEF Failover
<1>7. CASE EndFailover
  BY <1>7, EndFailoverInv
<1>8. CASE RestartDaemon
  BY <1>8, RestartDaemonInv
<1> QED BY <1>1, <1>2, <1>3, <1>4, <1>5, <1>6, <1>7, <1>8 DEF Daemon

\* Nothing changes.
LEMMA StutterInv ==
  ASSUME Inv, UNCHANGED vars
  PROVE  Inv' /\ Newer(st.health, st'.health)
<1>1. /\ UNCHANGED <<st, cache, xr, moved>> /\ now' = now /\ check' = check /\ ask' = ask /\ keep' = keep
      /\ hidden' = hidden /\ loop' = loop
  BY DEF vars
<1>2. now' \in 0..MaxTime /\ now <= now'
  BY <1>1, Facts
<1>3. loop' = None \/ (loop' \in Tries \cup Queues /\ LoopOK')
  BY <1>1, LoopKept
<1> QED BY <1>1, <1>2, <1>3, Facts, Untouched, Composed

\* Every step does.
LEMMA NextInv ==
  ASSUME Inv, [Next]_vars
  PROVE  Inv' /\ Newer(st.health, st'.health)
<1>1. CASE User
  BY <1>1, UserInv
<1>2. CASE Client
  BY <1>2, ClientInv
<1>3. CASE Daemon
  BY <1>3, DaemonInv
<1>4. CASE TryCandidate
  BY <1>4, TryCandidateInv
<1>5. CASE GiveUp
  BY <1>5, GiveUpInv
<1>6. CASE Reload
  BY <1>6, ReloadInv
<1>7. CASE UNCHANGED vars
  BY <1>7, StutterInv
<1> QED BY <1>1, <1>2, <1>3, <1>4, <1>5, <1>6, <1>7 DEF Next

\* The invariant of automatic selection: types, the route of the running Xray, times of
\* observations and switches, and what every process under way relies on.
THEOREM Invariant == Spec => []Inv
<1>1. Inv /\ [Next]_vars => Inv'
  BY NextInv
<1> QED BY InitInv, <1>1, PTL DEF Spec

\* Everything has its type: the state file as the store reads it, the outbounds of the
\* running Xray and the clock, whatever is probed, ranked and written.
THEOREM TypeCorrect == Spec => []TypeOK
<1>1. Inv => TypeOK
  BY DEF Inv, Typed, States, Health, Xrays, TypeOK
<1> QED BY Invariant, <1>1, PTL

\* Whatever maintenance, cleanup and failed switches removed (safeRemoveManagedOutbound,
\* CleanupManagedOutbounds, tryManagedNodeSelection): when no switch is under way the
\* running Xray is pinned to the server the state names, has its outbound, and the state
\* lists it as active.
THEOREM PinnedServer == Spec => []SelectedPresent
<1>1. Inv => SelectedPresent
  BY DEF Inv, Pinned, Sound, Routes, Active, SelectedPresent
<1> QED BY Invariant, <1>1, PTL

\* No operation puts an older observation of a server into the state file over a newer one
\* (mergeProbeHealth, CheckHealth, persistInspectedHealth, autoSelectionSnapshotCurrentLocked).
THEOREM NewestObservations == Spec => ObservationsKept
<1>1. Inv /\ [Next]_vars => [\A n \in Node : st'.health[n].at >= st.health[n].at]_vars
  <2> SUFFICES ASSUME Inv, [Next]_vars PROVE \A n \in Node : st'.health[n].at >= st.health[n].at
    OBVIOUS
  <2>1. Newer(st.health, st'.health) /\ Inv'
    BY NextInv
  <2>2. st.health \in Health /\ st'.health \in Health
    BY <2>1 DEF Inv, Typed, States
  <2>3. \A n \in Node : st.health[n].at \in Nat /\ st'.health[n].at \in Nat
    BY <2>2, Times
  <2> QED BY <2>1, <2>3 DEF Newer
<1> QED BY Invariant, <1>1, PTL DEF Spec, ObservationsKept

\* Probes that are under way do not undo a choice of the user (RunAutoHealthCheck,
\* MaintainManagedReserves, failover): the daemon leaves a manual selection only in a
\* failover and keeps its mode, connects nothing that was disconnected, and moves to no
\* server that is hidden by then.
THEOREM ChoiceOfUser == Spec => UserChoiceKept
<1> DEFINE A == Daemon => /\ st.mode = "manual" => st'.mode = "manual" /\ (st'.node = st.node \/ Failover)
                          /\ st.mode = "off" => ~st'.connected
                          /\ st'.connected /\ st'.node # st.node => st'.node \notin hidden
<1>1. Inv /\ [Next]_vars => [A]_vars
  <2> SUFFICES ASSUME Inv, Daemon PROVE A
    OBVIOUS
  <2>1. Leaves /\ (Stays \/ Failover)
    BY DaemonInv
  <2> QED BY <2>1 DEF Leaves, Stays
<1>2. UserChoiceKept <=> [][A]_vars
  BY DEF UserChoiceKept
<1> QED BY Invariant, <1>1, <1>2, PTL DEF Spec

\* The health pass leaves a server that answers only when the cooldown since the last
\* automatic change is over, however the change before came about (ShouldSwitch over the
\* snapshot, commitAutoSelection over the files as they are).
THEOREM Cooldown == Spec => CooldownKept
<1> DEFINE A == (CommitHealthCheck /\ Live(st) /\ st'.connected /\ st'.node # st.node
                 /\ SubOf[st.node] = st.sub /\ ~Emergency(check.d.health[st.node], Policy))
                => now - moved >= Policy.cooldown
<1>1. Inv /\ [Next]_vars => [A]_vars
  <2> SUFFICES ASSUME Inv, CommitHealthCheck PROVE A
    OBVIOUS
  <2>1. Cooled
    BY CommitHealthCheckInv
  <2> QED BY <2>1 DEF Cooled
<1>2. CooldownKept <=> [][A]_vars
  BY DEF CooldownKept
<1> QED BY Invariant, <1>1, <1>2, PTL DEF Spec
===============================================================================
