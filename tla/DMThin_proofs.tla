---------------------------- MODULE DMThin_proofs ----------------------------
(***************************************************************************)
(* fies-dmthin, for every number of pools and volumes, whatever their      *)
(* trees look like and every use others make of them: what is reserved is  *)
(* released, the extents found in the metadata are what is mapped, and a   *)
(* receiver has what is in the volumes.                                    *)
(***************************************************************************)
EXTENDS DMThin, FiniteSetTheorems, WellFoundedInduction, NaturalsInduction, SequenceTheorems, TLAPS
------------------------------------------------------------------------------
LEMMA LeastOf ==
    ASSUME NEW T, T \subseteq Nat, T # {}
    PROVE  \E x \in T : \A y \in T : x <= y
<1>1. PICK x \in T : \A y \in T : ~ (<<y, x>> \in OpToRel(<, Nat))
  BY NatLessThanWellFounded, WFMin
<1>2. \A y \in T : ~ (y < x)
  BY <1>1 DEF OpToRel
<1> QED
  BY <1>2

\* S, a step of a recursion as a function on functions, asks only for what the
\* measure mu of is less.
GoesDown(D, R, B, mu, S) ==
    /\ R # {} /\ B \in Nat /\ mu \in [D -> 0 .. B] /\ S \in [[D -> R] -> [D -> R]]
    /\ \A f, g \in [D -> R], x \in D :
         (\A y \in D : mu[y] < mu[x] => f[y] = g[y]) => S[f][x] = S[g][x]

LEMMA RecursionExists ==
    ASSUME NEW D, NEW R, NEW B, NEW mu, NEW S, GoesDown(D, R, B, mu, S)
    PROVE  \E f \in [D -> R] : f = S[f]
<1>0. /\ R # {} /\ B \in Nat /\ mu \in [D -> 0 .. B] /\ S \in [[D -> R] -> [D -> R]]
      /\ \A f, g \in [D -> R], x \in D :
           (\A y \in D : mu[y] < mu[x] => f[y] = g[y]) => S[f][x] = S[g][x]
  BY DEF GoesDown
<1> DEFINE Has(n) == \E f \in [D -> R] : \A x \in D : mu[x] < n => f[x] = S[f][x]
           T == {n \in Nat : ~ Has(n)}
<1>1. Has(0)
  <2>1. PICK r \in R : TRUE
    BY <1>0
  <2>2. [x \in D |-> r] \in [D -> R]
    OBVIOUS
  <2>3. \A x \in D : ~ (mu[x] < 0)
    BY <1>0
  <2> QED
    BY <2>2, <2>3
<1>2. ASSUME NEW n \in Nat, Has(n) PROVE Has(n + 1)
  <2>1. PICK f \in [D -> R] : \A x \in D : mu[x] < n => f[x] = S[f][x]
    BY <1>2
  <2>2. S[f] \in [D -> R]
    BY <1>0
  <2>3. PICK g \in [D -> R] : g = S[f]
    BY <2>2
  <2>4. ASSUME NEW x \in D, mu[x] < n + 1 PROVE g[x] = S[g][x]
    <3>1. \A y \in D : mu[y] < mu[x] => mu[y] < n
      BY <1>0, <2>4
    <3>2. \A y \in D : mu[y] < mu[x] => f[y] = g[y]
      BY <2>1, <2>3, <3>1
    <3> QED
      BY <1>0, <2>3, <3>2
  <2> QED
    BY <2>4
<1> HIDE DEF Has
<1>3. \A n \in Nat : Has(n)
  <2> SUFFICES ASSUME T # {} PROVE FALSE
    OBVIOUS
  <2>1. PICK m \in T : \A y \in T : m <= y
    BY LeastOf
  <2>2. m \in Nat /\ ~ Has(m) /\ m # 0 /\ \A y \in Nat : y < m => Has(y)
    BY <1>1, <2>1
  <2>3. m - 1 \in Nat /\ m - 1 < m /\ m - 1 + 1 = m
    BY <2>2
  <2> QED
    BY <1>2, <2>2, <2>3
<1>4. PICK f \in [D -> R] : \A x \in D : mu[x] < B + 1 => f[x] = S[f][x]
  BY <1>0, <1>3 DEF Has
<1>5. \A x \in D : f[x] = S[f][x]
  BY <1>0, <1>4
<1>6. S[f] \in [D -> R]
  BY <1>0
<1> QED
  BY <1>5, <1>6

\* One round of btree_node_search, f being what the rounds after it find.
Bounds(node) == (-1 .. Entries(node)) \X (0 .. Entries(node))

SearchRound(node, key, hi, f, ab) ==
    LET a == ab[1]
        b == ab[2]
        mid == a + (b - a) \div 2
        k == node.keys[mid + 1]
    IN  IF b - a <= 1 THEN IF hi THEN b ELSE a
        ELSE IF key < k THEN f[<<a, mid>>]
        ELSE IF key > k THEN f[<<mid, b>>]
        ELSE mid

IsSearch(node, key, hi, f) == f = [ab \in Bounds(node) |-> SearchRound(node, key, hi, f, ab)]

LEMMA SearchIsRounds ==
    ASSUME NEW node, NEW key, NEW hi \in BOOLEAN
    PROVE  btree_node_search(node, key, hi) =
             (CHOOSE f : IsSearch(node, key, hi, f))[<<-1, Entries(node)>>]
BY DEF btree_node_search, IsSearch, SearchRound, Bounds

LEMMA Halfway ==
    ASSUME NEW a \in Int, NEW b \in Int, b - a > 1, NEW mid, mid = a + (b - a) \div 2
    PROVE  mid \in Int /\ a < mid /\ mid < b
OBVIOUS

LEMMA RoundEnds ==
    ASSUME NEW node, NEW key, NEW hi \in BOOLEAN, NEW f, NEW a, NEW b, b - a <= 1
    PROVE  SearchRound(node, key, hi, f, <<a, b>>) = IF hi THEN b ELSE a
BY DEF SearchRound

LEMMA RoundHalves ==
    ASSUME NEW node, NEW key, NEW hi \in BOOLEAN, NEW f, NEW a, NEW b, ~ (b - a <= 1),
           NEW mid, mid = a + (b - a) \div 2
    PROVE  SearchRound(node, key, hi, f, <<a, b>>) =
             IF key < node.keys[mid + 1] THEN f[<<a, mid>>]
             ELSE IF key > node.keys[mid + 1] THEN f[<<mid, b>>]
             ELSE mid
BY DEF SearchRound

LEMMA SearchExists ==
    ASSUME NEW node, NEW key, NEW hi \in BOOLEAN, Entries(node) \in Nat
    PROVE  \E f : IsSearch(node, key, hi, f)
<1> DEFINE n == Entries(node)
           D == Bounds(node)
           R(f, ab) == SearchRound(node, key, hi, f, ab)
           mu == [ab \in D |-> IF ab[2] - ab[1] >= 0 THEN ab[2] - ab[1] ELSE 0]
           S == [f \in [D -> Int] |-> [ab \in D |-> R(f, ab)]]
<1>1. mu \in [D -> 0 .. n + 1] /\ n + 1 \in Nat
  BY DEF Bounds
<1>2. ASSUME NEW f \in [D -> Int], NEW g \in [D -> Int], NEW ab \in D,
             \A y \in D : mu[y] < mu[ab] => f[y] = g[y]
      PROVE  R(f, ab) \in Int /\ R(f, ab) = R(g, ab)
  <2>1. PICK a \in -1 .. n, b \in 0 .. n : ab = <<a, b>>
    BY DEF Bounds
  <2>2. CASE b - a <= 1
    BY <2>1, <2>2, RoundEnds
  <2>3. CASE ~ (b - a <= 1)
    <3> DEFINE mid == a + (b - a) \div 2
    <3>1. mid \in Int /\ a < mid /\ mid < b /\ mid = a + (b - a) \div 2
      BY <2>3, Halfway
    <3> HIDE DEF mid
    <3>2. <<a, mid>> \in D /\ <<mid, b>> \in D
      BY <3>1 DEF Bounds
    <3>3. mu[ab] = b - a /\ mu[<<a, mid>>] = mid - a /\ mu[<<mid, b>>] = b - mid
      BY <2>1, <2>3, <3>1, <3>2
    <3>4. f[<<a, mid>>] = g[<<a, mid>>] /\ f[<<mid, b>>] = g[<<mid, b>>]
      <4> HIDE DEF mu
      <4> QED
        BY <1>2, <3>1, <3>2, <3>3
    <3>5. R(f, ab) = IF key < node.keys[mid + 1] THEN f[<<a, mid>>]
                     ELSE IF key > node.keys[mid + 1] THEN f[<<mid, b>>] ELSE mid
      BY <2>1, <2>3, <3>1 DEF SearchRound
    <3>6. R(g, ab) = IF key < node.keys[mid + 1] THEN g[<<a, mid>>]
                     ELSE IF key > node.keys[mid + 1] THEN g[<<mid, b>>] ELSE mid
      BY <2>1, <2>3, <3>1 DEF SearchRound
    <3>7. f[<<a, mid>>] \in Int /\ f[<<mid, b>>] \in Int
      BY <3>2
    <3> HIDE DEF D, R
    <3> QED
      BY <3>1, <3>4, <3>5, <3>6, <3>7
  <2> QED
    BY <2>2, <2>3
<1> HIDE DEF R, D, mu
<1>3. \A f, g \in [D -> Int], ab \in D :
        (\A y \in D : mu[y] < mu[ab] => f[y] = g[y]) => R(f, ab) = R(g, ab)
  BY <1>2
<1>4. \A f \in [D -> Int], ab \in D : R(f, ab) \in Int
  BY <1>2
<1>5. S \in [[D -> Int] -> [D -> Int]] /\ \A f \in [D -> Int] : S[f] = [ab \in D |-> R(f, ab)]
  BY <1>4
<1> HIDE DEF S
<1>6. \A f, g \in [D -> Int], ab \in D :
        (\A y \in D : mu[y] < mu[ab] => f[y] = g[y]) => S[f][ab] = S[g][ab]
  <2> SUFFICES ASSUME NEW f \in [D -> Int], NEW g \in [D -> Int], NEW ab \in D,
                      \A y \in D : mu[y] < mu[ab] => f[y] = g[y]
               PROVE  S[f][ab] = S[g][ab]
    OBVIOUS
  <2>1. S[f][ab] = R(f, ab) /\ S[g][ab] = R(g, ab)
    <3>1. S[f] = [z \in D |-> R(f, z)] /\ S[g] = [z \in D |-> R(g, z)]
      BY <1>5
    <3> HIDE DEF D
    <3> QED
      BY <3>1
  <2> QED
    BY <1>3, <2>1
<1> HIDE DEF n
<1>7. PICK f \in [D -> Int] : f = S[f]
  <2>1. GoesDown(D, Int, n + 1, mu, S)
    BY <1>1, <1>5, <1>6 DEF GoesDown
  <2> QED
    BY <2>1, RecursionExists
<1>8. f = [ab \in D |-> R(f, ab)]
  BY <1>5, <1>7
<1> QED
  BY <1>8 DEF IsSearch, R, D

\* The keys of a node are in order.
IsNode(node) ==
    /\ Entries(node) \in Nat
    /\ \A j \in 1 .. Entries(node) : node.keys[j] \in Int
    /\ \A j, k \in 1 .. Entries(node) : j < k => node.keys[j] < node.keys[k]

\* What the search promises of an index.
IsBelow(node, key, r) ==
    /\ r \in -1 .. Entries(node) - 1
    /\ \A j \in 1 .. Entries(node) : IF j <= r + 1 THEN node.keys[j] <= key ELSE node.keys[j] > key

IsAbove(node, key, r) ==
    /\ r \in 0 .. Entries(node)
    /\ \A j \in 1 .. Entries(node) : IF j <= r THEN node.keys[j] < key ELSE node.keys[j] >= key

IsFound(node, key, hi, r) == (hi => IsAbove(node, key, r)) /\ (~ hi => IsBelow(node, key, r))

\* The loop's invariant.
IsBetween(node, key, a, b) ==
    /\ a \in -1 .. Entries(node) /\ b \in 0 .. Entries(node) /\ a < b
    /\ \A j \in 1 .. Entries(node) :
         (j <= a + 1 => node.keys[j] < key) /\ (j >= b + 1 => node.keys[j] > key)

LEMMA RoundKeeps ==
    ASSUME NEW node, IsNode(node), NEW key \in Int, NEW hi \in BOOLEAN, NEW f,
           NEW a, NEW b, IsBetween(node, key, a, b), NEW r, r = SearchRound(node, key, hi, f, <<a, b>>)
    PROVE  \/ IsFound(node, key, hi, r)
           \/ \E mid \in Int : /\ a < mid /\ mid < b
                            /\ \/ r = f[<<a, mid>>] /\ IsBetween(node, key, a, mid)
                               \/ r = f[<<mid, b>>] /\ IsBetween(node, key, mid, b)
<1> DEFINE n == Entries(node)
           K(j) == node.keys[j]
<1>1. /\ n \in Nat /\ \A j \in 1 .. n : K(j) \in Int
      /\ \A j, k \in 1 .. n : j < k => K(j) < K(k)
  BY DEF IsNode
<1>2. /\ a \in -1 .. n /\ b \in 0 .. n /\ a < b
      /\ \A j \in 1 .. n : (j <= a + 1 => K(j) < key) /\ (j >= b + 1 => K(j) > key)
  <2>1. a \in -1 .. n /\ b \in 0 .. n /\ a < b
    BY DEF IsBetween
  <2>2. ASSUME NEW j \in 1 .. Entries(node)
        PROVE (j <= a + 1 => node.keys[j] < key) /\ (j >= b + 1 => node.keys[j] > key)
    BY Zenon DEF IsBetween
  <2> QED
    BY <2>1, <2>2
<1>3. CASE b - a <= 1
  <2>1. b = a + 1
    BY <1>1, <1>2, <1>3
  <2>2. r = IF hi THEN b ELSE a
    BY <1>3, RoundEnds
  <2> HIDE DEF n, K
  <2>3. /\ b \in 0 .. n /\ a \in -1 .. n - 1
        /\ \A j \in 1 .. n : IF j <= b THEN K(j) < key ELSE K(j) >= key
        /\ \A j \in 1 .. n : IF j <= a + 1 THEN K(j) <= key ELSE K(j) > key
    <3> SUFFICES ASSUME NEW j \in 1 .. n
                 PROVE  /\ b \in 0 .. n /\ a \in -1 .. n - 1
                        /\ IF j <= b THEN K(j) < key ELSE K(j) >= key
                        /\ IF j <= a + 1 THEN K(j) <= key ELSE K(j) > key
      BY <1>1, <1>2, <2>1
    <3>1. K(j) \in Int
      BY <1>1
    <3>2. (j <= a + 1 => K(j) < key) /\ (j >= b + 1 => K(j) > key)
      BY <1>2
    <3>3. j <= b \/ j >= b + 1
      BY <1>1, <1>2
    <3> QED
      BY <1>1, <1>2, <2>1, <3>1, <3>2, <3>3
  <2>4. IsAbove(node, key, b) /\ IsBelow(node, key, a)
    BY <2>3 DEF IsAbove, IsBelow, n, K
  <2> QED
    BY <2>2, <2>4 DEF IsFound
<1>4. CASE ~ (b - a <= 1)
  <2> DEFINE mid == a + (b - a) \div 2
  <2>1. mid \in Int /\ a < mid /\ mid < b /\ mid = a + (b - a) \div 2
    <3>1. a \in Int /\ b \in Int /\ b - a > 1
      BY <1>1, <1>2, <1>4
    <3> QED
      BY <3>1, Halfway
  <2> HIDE DEF mid
  <2>2. mid + 1 \in 1 .. n /\ mid \in 0 .. n /\ mid \in -1 .. n /\ mid \in 0 .. n - 1 /\ mid \in -1 .. n - 1
    BY <1>1, <1>2, <2>1
  <2>3. K(mid + 1) \in Int /\ \A j \in 1 .. n : (j < mid + 1 => K(j) < K(mid + 1)) /\ (j > mid + 1 => K(j) > K(mid + 1))
    <3> HIDE DEF K
    <3> QED
      BY <1>1, <2>2
  <2>4. r = IF key < K(mid + 1) THEN f[<<a, mid>>] ELSE IF key > K(mid + 1) THEN f[<<mid, b>>] ELSE mid
    BY <1>4, <2>1 DEF SearchRound
  <2> HIDE DEF n, K
  <2>5. CASE key < K(mid + 1)
    <3>1. \A j \in 1 .. n : (j <= a + 1 => K(j) < key) /\ (j >= mid + 1 => K(j) > key)
      BY <1>1, <1>2, <2>2, <2>3, <2>5
    <3>2. IsBetween(node, key, a, mid)
      BY <1>2, <2>1, <2>2, <3>1 DEF IsBetween, n, K
    <3> QED
      BY <2>1, <2>4, <2>5, <3>2
  <2>6. CASE key > K(mid + 1)
    <3>1. \A j \in 1 .. n : (j <= mid + 1 => K(j) < key) /\ (j >= b + 1 => K(j) > key)
      BY <1>1, <1>2, <2>2, <2>3, <2>6
    <3>2. IsBetween(node, key, mid, b)
      BY <1>2, <2>1, <2>2, <3>1 DEF IsBetween, n, K
    <3>3. r = f[<<mid, b>>]
      BY <2>3, <2>4, <2>6
    <3> QED
      BY <2>1, <3>2, <3>3
  <2>7. CASE key = K(mid + 1)
    <3>1. r = mid
      BY <2>3, <2>4, <2>7
    <3>2. \A j \in 1 .. n : IF j <= mid + 1 THEN K(j) <= key ELSE K(j) > key
      BY <1>1, <2>2, <2>3, <2>7
    <3>3. \A j \in 1 .. n : IF j <= mid THEN K(j) < key ELSE K(j) >= key
      BY <1>1, <2>2, <2>3, <2>7
    <3>4. IsAbove(node, key, mid) /\ IsBelow(node, key, mid)
      BY <2>2, <3>2, <3>3 DEF IsAbove, IsBelow, n, K
    <3> QED
      BY <3>1, <3>4 DEF IsFound
  <2> QED
    BY <2>3, <2>5, <2>6, <2>7
<1> QED
  BY <1>1, <1>2, <1>3, <1>4

\* btree_node_search finds the key, or its neighbour on the side asked for.
LEMMA SearchFinds ==
    ASSUME NEW node, IsNode(node), NEW key \in Int, NEW hi \in BOOLEAN
    PROVE  IsFound(node, key, hi, btree_node_search(node, key, hi))
<1> DEFINE f == CHOOSE f : IsSearch(node, key, hi, f)
           n == Entries(node)
<1>1. n \in Nat
  BY DEF IsNode
<1>2. IsSearch(node, key, hi, f)
  BY <1>1, SearchExists
<1>3. btree_node_search(node, key, hi) = f[<<-1, n>>]
  BY SearchIsRounds
<1> HIDE DEF f
<1> DEFINE r(ab) == SearchRound(node, key, hi, f, ab)
<1>4. \A ab \in Bounds(node) : f[ab] = r(ab)
  <2>1. f = [ab \in Bounds(node) |-> r(ab)]
    BY <1>2 DEF IsSearch
  <2> HIDE DEF r
  <2> QED
    BY <2>1
<1> DEFINE Wrong(a, b) == IsBetween(node, key, a, b) /\ ~ IsFound(node, key, hi, f[<<a, b>>])
           T == {d \in Nat : \E a, b \in Int : Wrong(a, b) /\ b - a = d}
<1>5. T = {}
  <2> SUFFICES ASSUME T # {} PROVE FALSE
    OBVIOUS
  <2>1. PICK d \in T : \A y \in T : d <= y
    BY LeastOf
  <2>2. PICK a \in Int, b \in Int : Wrong(a, b) /\ b - a = d
    BY <2>1
  <2> HIDE DEF Wrong
  <2>3. d \in Nat /\ \A x, y \in Int : y - x \in Nat /\ y - x < d => ~ Wrong(x, y)
    <3> SUFFICES ASSUME NEW x \in Int, NEW y \in Int, Wrong(x, y), y - x \in Nat, y - x < d
                 PROVE  FALSE
      BY <2>1
    <3>1. y - x \in T
      OBVIOUS
    <3>2. d <= y - x
      BY <2>1, <3>1
    <3>3. d \in Int
      BY <2>1
    <3> QED
      BY <3>2, <3>3
  <2> USE DEF Wrong
  <2>4. <<a, b>> \in Bounds(node)
    BY <2>2 DEF IsBetween, Bounds
  <2>5. f[<<a, b>>] = SearchRound(node, key, hi, f, <<a, b>>)
    BY <1>4, <2>4
  <2>6. PICK mid \in Int : /\ a < mid /\ mid < b
                        /\ \/ f[<<a, b>>] = f[<<a, mid>>] /\ IsBetween(node, key, a, mid)
                           \/ f[<<a, b>>] = f[<<mid, b>>] /\ IsBetween(node, key, mid, b)
    BY <2>2, <2>5, RoundKeeps
  <2>7. mid - a \in Nat /\ mid - a < d /\ b - mid \in Nat /\ b - mid < d
    BY <2>2, <2>6
  <2> QED
    BY <2>2, <2>3, <2>6, <2>7
<1>6. IsBetween(node, key, -1, n)
  BY <1>1 DEF IsBetween
<1>7. n - (-1) \in Nat /\ n \in Int /\ -1 \in Int
  BY <1>1
<1>8. ~ Wrong(-1, n)
  <2> HIDE DEF Wrong, n
  <2>1. \A a, b \in Int : b - a \in Nat => ~ Wrong(a, b)
    BY <1>5
  <2> QED
    BY <1>7, <2>1
<1> QED
  BY <1>3, <1>6, <1>8
------------------------------------------------------------------------------
\* A sequence of <<key, value>> in the order of its keys, as a tree has it.
IsEntries(E) ==
    /\ Len(E) \in Nat /\ Len(E) <= MaxNode
    /\ \A j \in 1 .. Len(E) : E[j][1] \in Nat /\ E[j][2] \in Nat
    /\ \A j, k \in 1 .. Len(E) : j < k => E[j][1] < E[k][1]

\* A leaf with the entries behind lo up to hi.
IsPart(node, E, lo, hi) ==
    /\ node.internal = FALSE
    /\ Entries(node) = hi - lo
    /\ \A j \in 1 .. hi - lo : node.keys[j] = E[lo + j][1] /\ node.values[j] = E[lo + j][2]

\* An internal node, whose child k has the entries behind cut[k - 1] up to cut[k].
IsInner(meta, node, E, cut) ==
    LET n == Entries(node) IN
    /\ node.internal = TRUE
    /\ n \in 1 .. MaxNode
    /\ cut \in [0 .. n -> 0 .. Len(E)] /\ cut[0] = 0 /\ cut[n] = Len(E)
    /\ \A a, b \in 0 .. n : a < b => cut[a] < cut[b]
    /\ \A k \in 1 .. n :
         /\ node.values[k] \in 0 .. MaxNode
         /\ IsPart(meta[node.values[k]], E, cut[k - 1], cut[k])
         /\ node.keys[k] \in Nat
         /\ node.keys[k] <= E[cut[k - 1] + 1][1]
         /\ k > 1 => node.keys[k] > E[cut[k - 1]][1]

IsTree(meta, pos, E) ==
    /\ pos \in 0 .. MaxNode
    /\ IsEntries(E)
    /\ \/ IsPart(meta[pos], E, 0, Len(E))
       \/ \E cut : IsInner(meta, meta[pos], E, cut)

LEMMA SearchBelow ==
    ASSUME NEW node, IsNode(node), NEW key \in Int
    PROVE  IsBelow(node, key, btree_node_search(node, key, FALSE))
<1>1. IsFound(node, key, FALSE, btree_node_search(node, key, FALSE))
  BY SearchFinds, Zenon
<1> QED
  BY <1>1, Zenon DEF IsFound

LEMMA SearchAbove ==
    ASSUME NEW node, IsNode(node), NEW key \in Int
    PROVE  IsAbove(node, key, btree_node_search(node, key, TRUE))
<1>1. IsFound(node, key, TRUE, btree_node_search(node, key, TRUE))
  BY SearchFinds, Zenon
<1> QED
  BY <1>1, Zenon DEF IsFound

LEMMA EntriesAscend ==
    ASSUME NEW E, IsEntries(E), NEW x \in 1 .. Len(E), NEW y \in 1 .. Len(E), x <= y
    PROVE  E[x][1] \in Nat /\ E[y][1] \in Nat /\ E[x][1] <= E[y][1]
<1>1. CASE x = y
  BY <1>1 DEF IsEntries
<1>2. CASE x < y
  BY <1>2 DEF IsEntries
<1> QED
  BY <1>1, <1>2 DEF IsEntries

LEMMA PartIsNode ==
    ASSUME NEW E, IsEntries(E), NEW lo \in 0 .. Len(E), NEW hi \in lo .. Len(E), NEW node,
           IsPart(node, E, lo, hi)
    PROVE  /\ IsNode(node)
           /\ \A j \in 1 .. Entries(node) :
                /\ lo + j \in 1 .. Len(E)
                /\ node.keys[j] = E[lo + j][1] /\ node.values[j] = E[lo + j][2]
                /\ node.keys[j] \in Nat /\ node.values[j] \in Nat
<1>1. Entries(node) = hi - lo /\ Entries(node) \in Nat /\ Len(E) \in Nat
  BY DEF IsPart, IsEntries
<1>2. \A j \in 1 .. Entries(node) : lo + j \in 1 .. Len(E)
  BY <1>1
<1>3. \A j \in 1 .. Entries(node) :
        /\ node.keys[j] = E[lo + j][1] /\ node.values[j] = E[lo + j][2]
        /\ node.keys[j] \in Nat /\ node.values[j] \in Nat
  BY <1>1, <1>2 DEF IsPart, IsEntries
<1>4. ASSUME NEW j \in 1 .. Entries(node), NEW k \in 1 .. Entries(node), j < k
      PROVE  node.keys[j] < node.keys[k]
  <2>1. lo + j < lo + k
    BY <1>1, <1>4
  <2>2. E[lo + j][1] < E[lo + k][1]
    BY <1>2, <2>1 DEF IsEntries
  <2> QED
    BY <1>3, <2>2
<1> QED
  BY <1>1, <1>2, <1>3, <1>4 DEF IsNode

LEMMA InnerIsNode ==
    ASSUME NEW meta, NEW E, IsEntries(E), NEW node, NEW cut, IsInner(meta, node, E, cut)
    PROVE  IsNode(node)
<1> DEFINE n == Entries(node)
<1>1. n \in Nat /\ \A k \in 1 .. n : node.keys[k] \in Nat
  BY DEF IsInner
<1>2. ASSUME NEW j \in 1 .. n, NEW k \in 1 .. n, j < k
      PROVE  node.keys[j] < node.keys[k]
  <2>1. /\ \A a \in 0 .. n : cut[a] \in 0 .. Len(E)
        /\ \A a, b \in 0 .. n : a < b => cut[a] < cut[b]
    BY DEF IsInner
  <2>2. j - 1 \in 0 .. n /\ j \in 0 .. n /\ k - 1 \in 0 .. n /\ Len(E) \in Nat
    BY <1>1 DEF IsEntries
  <2>3. cut[j - 1] < cut[j] /\ cut[j] <= cut[k - 1] /\ cut[j - 1] \in Nat /\ cut[k - 1] \in 0 .. Len(E)
    <3>1. j = k - 1 \/ j < k - 1
      BY <1>1, <1>2
    <3>2. cut[j - 1] < cut[j]
      BY <2>1, <2>2
    <3>3. j < k - 1 => cut[j] < cut[k - 1]
      BY <2>1, <2>2
    <3>4. cut[j] \in Nat /\ cut[k - 1] \in 0 .. Len(E) /\ cut[j - 1] \in Nat
      BY <2>1, <2>2
    <3> QED
      BY <3>1, <3>2, <3>3, <3>4
  <2>4. cut[j - 1] + 1 \in 1 .. Len(E) /\ cut[k - 1] \in 1 .. Len(E) /\ cut[j - 1] + 1 <= cut[k - 1]
    BY <2>1, <2>2, <2>3
  <2>5. E[cut[j - 1] + 1][1] <= E[cut[k - 1]][1] /\ E[cut[j - 1] + 1][1] \in Nat /\ E[cut[k - 1]][1] \in Nat
    BY <2>4, EntriesAscend
  <2>6. node.keys[j] <= E[cut[j - 1] + 1][1]
    BY DEF IsInner
  <2>7. node.keys[k] > E[cut[k - 1]][1]
    <3>1. k > 1
      BY <1>1, <1>2
    <3> QED
      BY <3>1 DEF IsInner
  <2> QED
    BY <1>1, <2>5, <2>6, <2>7
<1> QED
  BY <1>1, <1>2 DEF IsNode

\* Every entry is in a child.
LEMMA ChildOfEntry ==
    ASSUME NEW meta, NEW E, IsEntries(E), NEW node, NEW cut, IsInner(meta, node, E, cut),
           NEW j \in 1 .. Len(E)
    PROVE  \E k \in 1 .. Entries(node) : cut[k - 1] < j /\ j <= cut[k]
<1> DEFINE n == Entries(node)
           T == {k \in 0 .. n : j <= cut[k]}
<1>1. n \in Nat /\ n \in T /\ T \subseteq Nat /\ T # {}
  BY DEF IsInner, IsEntries
<1>2. PICK k \in T : \A y \in T : k <= y
  BY <1>1, LeastOf
<1>3. k # 0
  BY DEF IsInner
<1>4. k - 1 \in 0 .. n /\ k \in 1 .. n
  BY <1>1, <1>2, <1>3
<1>5. k - 1 \notin T
  BY <1>1, <1>2, <1>4
<1>6. cut[k - 1] \in Nat
  <2>1. \A a \in 0 .. n : cut[a] \in 0 .. Len(E)
    BY DEF IsInner
  <2> QED
    BY <1>4, <2>1 DEF IsEntries
<1> QED
  BY <1>2, <1>4, <1>5, <1>6
------------------------------------------------------------------------------
\* fdmt_search at a node, f being what it gives for the others.
SearchNode(meta, key, f, b) ==
    LET node  == meta[b]
        index == btree_node_search(node, key, FALSE)
    IN  IF index < 0 THEN [error |-> "ERANGE"]
        ELSE IF node.internal THEN f[node.values[index + 1]]
        ELSE IF node.keys[index + 1] # key THEN [error |-> "ENOENT"]
        ELSE [error |-> "none", value |-> node.values[index + 1]]

IsLookup(meta, key, f) == f = [b \in 0 .. MaxNode |-> SearchNode(meta, key, f, b)]

LEMMA LookupIsNodes ==
    ASSUME NEW meta, NEW key, NEW pos
    PROVE  fdmt_search(meta, pos, key) = (CHOOSE f : IsLookup(meta, key, f))[pos]
BY DEF fdmt_search, IsLookup, SearchNode

\* All nodes are in order, and children are leaves.
IsShallow(meta) ==
    \A b \in 0 .. MaxNode :
      /\ IsNode(meta[b]) /\ Entries(meta[b]) <= MaxNode /\ meta[b].internal \in BOOLEAN
      /\ IF meta[b].internal
         THEN \A k \in 1 .. Entries(meta[b]) :
                meta[b].values[k] \in 0 .. MaxNode /\ ~ meta[meta[b].values[k]].internal
         ELSE \A k \in 1 .. Entries(meta[b]) : meta[b].keys[k] \in Nat /\ meta[b].values[k] \in Nat

LEMMA LookupExists ==
    ASSUME NEW meta, IsShallow(meta), NEW key \in Nat
    PROVE  \E f : IsLookup(meta, key, f)
<1> DEFINE N == 0 .. MaxNode
           R(f, b) == SearchNode(meta, key, f, b)
           g == [b \in N |-> R(<<>>, b)]
           f == [b \in N |-> R(g, b)]
<1>1. ASSUME NEW b \in N, ~ meta[b].internal, NEW h1, NEW h2
      PROVE  R(h1, b) = R(h2, b)
  BY <1>1 DEF SearchNode
<1>2. ASSUME NEW b \in N, meta[b].internal
      PROVE  R(f, b) = R(g, b)
  <2> DEFINE index == btree_node_search(meta[b], key, FALSE)
  <2>1. IsBelow(meta[b], key, index)
    <3>1. IsNode(meta[b]) /\ key \in Int
      BY DEF IsShallow
    <3> QED
      BY <3>1, SearchBelow, Zenon
  <2>0. index = btree_node_search(meta[b], key, FALSE)
    OBVIOUS
  <2> HIDE DEF index
  <2>2. index \in -1 .. Entries(meta[b]) - 1 /\ Entries(meta[b]) \in Nat
    BY <2>1 DEF IsBelow, IsShallow, IsNode
  <2>3. CASE index < 0
    BY <2>0, <2>3 DEF SearchNode
  <2>4. CASE ~ (index < 0)
    <3> DEFINE c == meta[b].values[index + 1]
    <3>1. index + 1 \in 1 .. Entries(meta[b])
      BY <2>2, <2>4
    <3>2. c \in N /\ ~ meta[c].internal
      BY <1>2, <3>1 DEF IsShallow
    <3>3. R(f, b) = f[c] /\ R(g, b) = g[c]
      <4> HIDE DEF f, g
      <4> QED
        BY <1>2, <2>0, <2>4 DEF SearchNode
    <3> HIDE DEF R, c
    <3>4. f[c] = R(g, c) /\ g[c] = R(<<>>, c)
      BY <3>2
    <3>5. R(g, c) = R(<<>>, c)
      BY <1>1, <3>2
    <3> QED
      BY <3>3, <3>4, <3>5
  <2> QED
    BY <2>3, <2>4
<1>3. \A b \in N : R(g, b) = R(f, b)
  BY <1>1, <1>2
<1> HIDE DEF R
<1>4. f = [b \in N |-> R(f, b)]
  <2>1. [b \in N |-> R(g, b)] = [b \in N |-> R(f, b)]
    BY <1>3
  <2> QED
    BY <2>1
<1> QED
  BY <1>4 DEF IsLookup, R

LEMMA LookupStep ==
    ASSUME NEW meta, IsShallow(meta), NEW key \in Nat, NEW b \in 0 .. MaxNode
    PROVE  fdmt_search(meta, b, key) =
             SearchNode(meta, key, [c \in 0 .. MaxNode |-> fdmt_search(meta, c, key)], b)
<1> DEFINE f == CHOOSE f : IsLookup(meta, key, f)
           N == 0 .. MaxNode
           R(c) == SearchNode(meta, key, f, c)
<1>1. IsLookup(meta, key, f)
  BY LookupExists
<1>2. \A c \in N : fdmt_search(meta, c, key) = f[c]
  BY LookupIsNodes
<1> HIDE DEF f
<1>3. f = [c \in N |-> R(c)]
  BY <1>1 DEF IsLookup
<1>4. f = [c \in N |-> f[c]] /\ f[b] = R(b)
  <2> HIDE DEF R
  <2> QED
    BY <1>3
<1>5. [c \in N |-> fdmt_search(meta, c, key)] = f
  BY <1>2, <1>4
<1> QED
  BY <1>2, <1>4, <1>5

LEMMA LookupInLeaf ==
    ASSUME NEW meta, IsShallow(meta), NEW E, IsEntries(E),
           NEW lo \in 0 .. Len(E), NEW hi \in lo .. Len(E), NEW pos \in 0 .. MaxNode,
           IsPart(meta[pos], E, lo, hi), NEW j \in lo + 1 .. hi
    PROVE  fdmt_search(meta, pos, E[j][1]) = [error |-> "none", value |-> E[j][2]]
<1> DEFINE node == meta[pos]
           key == E[j][1]
           r == btree_node_search(node, key, FALSE)
           f == [c \in 0 .. MaxNode |-> fdmt_search(meta, c, key)]
<1>1. /\ IsNode(node) /\ Entries(node) = hi - lo /\ ~ node.internal
      /\ \A k \in 1 .. Entries(node) :
           /\ lo + k \in 1 .. Len(E)
           /\ node.keys[k] = E[lo + k][1] /\ node.values[k] = E[lo + k][2]
  <2>1. Entries(node) = hi - lo /\ ~ node.internal
    BY DEF IsPart
  <2> HIDE DEF node
  <2>2. IsPart(node, E, lo, hi)
    BY DEF node
  <2>3. /\ IsNode(node)
        /\ \A k \in 1 .. Entries(node) :
             /\ lo + k \in 1 .. Len(E)
             /\ node.keys[k] = E[lo + k][1] /\ node.values[k] = E[lo + k][2]
    BY <2>2, PartIsNode
  <2> QED
    BY <2>1, <2>3
<1>2. j \in 1 .. Len(E) /\ Len(E) \in Nat /\ key \in Nat
  BY DEF IsEntries
<1>3. IsBelow(node, key, r)
  <2>1. key \in Int
    BY <1>2
  <2> HIDE DEF node, key
  <2> QED
    BY <1>1, <2>1, SearchBelow
<1>4. fdmt_search(meta, pos, key) = SearchNode(meta, key, f, pos)
  <2> HIDE DEF key
  <2> QED
    BY <1>2, LookupStep
<1>5. r = btree_node_search(node, key, FALSE)
  OBVIOUS
<1> HIDE DEF r, f
<1>6. r = j - lo - 1
  <2> DEFINE n == Entries(node)
             K(k) == node.keys[k]
             m == j - lo
  <2>1. n = hi - lo /\ m \in 1 .. n /\ n \in Nat /\ lo + m = j
    BY <1>1, <1>2
  <2>2. K(m) = key
    BY <1>1, <2>1
  <2>3. r \in -1 .. n - 1 /\ \A k \in 1 .. n : IF k <= r + 1 THEN K(k) <= key ELSE K(k) > key
    BY <1>3 DEF IsBelow
  <2>4. \A k \in 1 .. n : K(k) \in Int /\ \A k2 \in 1 .. n : k < k2 => K(k) < K(k2)
    BY <1>1 DEF IsNode
  <2> HIDE DEF n, K, m, key, node
  <2>5. m <= r + 1
    BY <2>1, <2>2, <2>3, <1>2
  <2>6. ~ (m < r + 1)
    <3> SUFFICES ASSUME m < r + 1 PROVE FALSE
      OBVIOUS
    <3>1. r + 1 \in 1 .. n
      BY <2>1, <2>3
    <3>2. K(m) < K(r + 1) /\ K(r + 1) <= key /\ K(r + 1) \in Int
      BY <2>1, <2>3, <2>4, <3>1
    <3> QED
      BY <1>2, <2>2, <3>2
  <2>7. r + 1 = m
    BY <2>1, <2>3, <2>5, <2>6
  <2> QED
    BY <2>1, <2>3, <2>7 DEF m
<1>7. r + 1 = j - lo /\ ~ (r < 0) /\ r + 1 \in 1 .. Entries(node) /\ lo + (r + 1) = j
  BY <1>1, <1>2, <1>6
<1>8. node.keys[r + 1] = key /\ node.values[r + 1] = E[j][2]
  BY <1>1, <1>7
<1>9. SearchNode(meta, key, f, pos) = [error |-> "none", value |-> node.values[r + 1]]
  <2> HIDE DEF key
  <2> QED
    BY <1>1, <1>5, <1>7, <1>8 DEF SearchNode
<1> QED
  BY <1>4, <1>8, <1>9

\* fdmt_search finds every entry of a tree.
LEMMA LookupFinds ==
    ASSUME NEW meta, IsShallow(meta), NEW E, NEW pos, IsTree(meta, pos, E), NEW j \in 1 .. Len(E)
    PROVE  fdmt_search(meta, pos, E[j][1]) = [error |-> "none", value |-> E[j][2]]
<1>1. IsEntries(E) /\ pos \in 0 .. MaxNode /\ Len(E) \in Nat
  BY DEF IsTree, IsEntries
<1>2. CASE IsPart(meta[pos], E, 0, Len(E))
  BY <1>1, <1>2, LookupInLeaf
<1>3. ASSUME NEW cut, IsInner(meta, meta[pos], E, cut)
      PROVE  fdmt_search(meta, pos, E[j][1]) = [error |-> "none", value |-> E[j][2]]
  <2> DEFINE node == meta[pos]
             n == Entries(node)
             K(k) == node.keys[k]
             key == E[j][1]
             r == btree_node_search(node, key, FALSE)
             f == [c \in 0 .. MaxNode |-> fdmt_search(meta, c, key)]
  <2>1. PICK m \in 1 .. n : cut[m - 1] < j /\ j <= cut[m]
    BY <1>1, <1>3, ChildOfEntry
  <2>2. IsNode(node) /\ node.internal = TRUE /\ n \in Nat
    <3>1. IsNode(node)
      BY <1>1, <1>3, InnerIsNode
    <3> QED
      BY <1>3, <3>1 DEF IsInner
  <2>3. key \in Nat
    BY <1>1 DEF IsEntries
  <2>4. IsBelow(node, key, r)
    <3>1. key \in Int
      BY <2>3
    <3> HIDE DEF node, key
    <3> QED
      BY <2>2, <3>1, SearchBelow
  <2>5. fdmt_search(meta, pos, key) = SearchNode(meta, key, f, pos)
    <3> HIDE DEF key
    <3> QED
      BY <1>1, <2>3, LookupStep
  <2>6. r = btree_node_search(node, key, FALSE)
    OBVIOUS
  <2> HIDE DEF r
  <2>7. r \in -1 .. n - 1 /\ \A k \in 1 .. n : IF k <= r + 1 THEN K(k) <= key ELSE K(k) > key
    BY <2>4 DEF IsBelow
  <2>8. \A a \in 0 .. n : cut[a] \in 0 .. Len(E)
    BY <1>3 DEF IsInner
  <2>9. \A a, b \in 0 .. n : a < b => cut[a] < cut[b]
    BY <1>3 DEF IsInner
  <2>10. \A k \in 1 .. n :
           K(k) \in Nat /\ K(k) <= E[cut[k - 1] + 1][1] /\ (k > 1 => K(k) > E[cut[k - 1]][1])
    BY <1>3 DEF IsInner
  <2>11. m \in 0 .. n /\ m - 1 \in 0 .. n /\ cut[m] \in 0 .. Len(E) /\ cut[m - 1] \in 0 .. Len(E)
    BY <2>2, <2>8
  <2> HIDE DEF n, K, key, node
  <2>12. m <= r + 1
    <3>1. cut[m - 1] + 1 \in 1 .. Len(E) /\ cut[m - 1] + 1 <= j
      BY <1>1, <2>1, <2>11
    <3>2. E[cut[m - 1] + 1][1] <= key /\ E[cut[m - 1] + 1][1] \in Nat
      BY <1>1, <3>1, EntriesAscend DEF key
    <3>3. K(m) <= key
      BY <2>3, <2>10, <3>2
    <3> QED
      BY <2>2, <2>3, <2>7, <2>10, <3>3
  <2>13. ~ (m < r + 1)
    <3> SUFFICES ASSUME m < r + 1 PROVE FALSE
      OBVIOUS
    <3>1. r + 1 \in 1 .. n /\ r \in 0 .. n /\ r + 1 > 1 /\ m <= r /\ r + 1 - 1 = r
      BY <2>2, <2>7
    <3>2. cut[m] <= cut[r] /\ cut[r] \in 0 .. Len(E)
      <4>1. m = r \/ m < r
        BY <2>2, <3>1
      <4> QED
        BY <1>1, <2>8, <2>9, <2>11, <3>1, <4>1
    <3>3. j <= cut[r] /\ cut[r] \in 1 .. Len(E)
      BY <1>1, <2>1, <2>11, <3>2
    <3>4. key <= E[cut[r]][1] /\ E[cut[r]][1] \in Nat
      BY <1>1, <3>3, EntriesAscend DEF key
    <3>5. K(r + 1) > E[cut[r]][1]
      BY <2>10, <3>1
    <3>6. K(r + 1) <= key /\ K(r + 1) \in Nat
      BY <2>7, <2>10, <3>1
    <3> QED
      BY <2>3, <3>4, <3>5, <3>6
  <2>14. r + 1 = m /\ ~ (r < 0)
    BY <2>2, <2>7, <2>12, <2>13
  <2> DEFINE c == node.values[m]
  <2>15. c \in 0 .. MaxNode /\ IsPart(meta[c], E, cut[m - 1], cut[m])
    BY <1>3 DEF IsInner, n, node
  <2>16. SearchNode(meta, key, f, pos) = f[c]
    BY <2>2, <2>6, <2>14 DEF SearchNode, node
  <2>17. f[c] = fdmt_search(meta, c, key)
    BY <2>15
  <2>18. cut[m - 1] \in 0 .. Len(E) /\ cut[m] \in cut[m - 1] .. Len(E) /\ j \in cut[m - 1] + 1 .. cut[m]
    BY <1>1, <2>1, <2>11
  <2>19. fdmt_search(meta, c, E[j][1]) = [error |-> "none", value |-> E[j][2]]
    <3> HIDE DEF c
    <3> QED
      BY <1>1, <2>15, <2>18, LookupInLeaf
  <2> QED
    BY <2>5, <2>16, <2>17, <2>19 DEF key
<1> QED
  BY <1>2, <1>3 DEF IsTree
------------------------------------------------------------------------------
\* The step of LeafExtents: an entry of the leaf lengthens the last extent, or is
\* one of its own.
Lengthened(o) == [o EXCEPT ![Len(o)].length = @ + BlockSize]

Walk(leaf) == (0 .. Entries(leaf)) \X Seq(Mapped)

LeafRound(leaf, f, io) ==
    LET j == io[1]
        o == io[2]
        logaddr  == leaf.keys[j + 1] * BlockSize
        physaddr == (leaf.values[j + 1] \div TimeSize) * BlockSize
    IN  IF j = Entries(leaf) THEN o
        ELSE IF Continues(o, physaddr, logaddr) THEN f[<<j + 1, Lengthened(o)>>]
        ELSE IF Len(o) < ExtentRoom THEN f[<<j + 1, Append(o, MapExtent(physaddr, logaddr))>>]
        ELSE o

IsWalk(leaf, f) == f = [io \in Walk(leaf) |-> LeafRound(leaf, f, io)]

LEMMA LeafExtentsIsWalk ==
    ASSUME NEW leaf, NEW from, NEW out
    PROVE  LeafExtents(leaf, from, out) = (CHOOSE f : IsWalk(leaf, f))[<<from, out>>]
BY DEF LeafExtents, IsWalk, LeafRound, Lengthened, Walk

\* A leaf of a tree.
IsLeaf(node) ==
    /\ ~ node.internal
    /\ Entries(node) \in Nat
    /\ \A k \in 1 .. Entries(node) : node.keys[k] \in Nat /\ node.values[k] \in Nat

LEMMA LengthenedIsMapped ==
    ASSUME NEW o \in Seq(Mapped), o # <<>>
    PROVE  Lengthened(o) \in Seq(Mapped)
<1>1. Len(o) \in 1 .. Len(o) /\ o[Len(o)] \in Mapped
  OBVIOUS
<1>2. [o[Len(o)] EXCEPT !.length = @ + BlockSize] \in Mapped
  <2> DEFINE u == o[Len(o)]
  <2>1. u \in Mapped /\ BlockSize \in Int
    BY <1>1, BlockSizeAssumption
  <2> HIDE DEF u
  <2>2. u.length + BlockSize \in Int
    BY <2>1 DEF Mapped
  <2>3. [u EXCEPT !.length = @ + BlockSize] \in Mapped
    BY <2>1, <2>2 DEF Mapped
  <2> QED
    BY <2>3 DEF u
<1>3. Lengthened(o) = [o EXCEPT ![Len(o)] = [o[Len(o)] EXCEPT !.length = @ + BlockSize]]
  BY DEF Lengthened
<1> QED
  BY <1>1, <1>2, <1>3

LEMMA TimeSizeIsPositive == TimeSize \in Nat \ {0}
BY DEF TimeSize

LEMMA AppendedIsMapped ==
    ASSUME NEW o \in Seq(Mapped), NEW key \in Nat, NEW value \in Nat
    PROVE  Append(o, MapExtent((value \div TimeSize) * BlockSize, key * BlockSize)) \in Seq(Mapped)
<1>1. value \div TimeSize \in Nat
  BY TimeSizeIsPositive
<1>2. BlockSize \in Int
  BY BlockSizeAssumption
<1>3. MapExtent((value \div TimeSize) * BlockSize, key * BlockSize) \in Mapped
  BY <1>1, <1>2 DEF MapExtent, Mapped
<1> QED
  BY <1>3

LEMMA WalkExists ==
    ASSUME NEW leaf, IsLeaf(leaf)
    PROVE  \E f \in [Walk(leaf) -> Seq(Mapped)] : IsWalk(leaf, f)
<1> DEFINE n == Entries(leaf)
           D == Walk(leaf)
           Q == Seq(Mapped)
           R(f, io) == LeafRound(leaf, f, io)
           mu == [io \in D |-> n - io[1]]
           S == [f \in [D -> Q] |-> [io \in D |-> R(f, io)]]
<1>0. n \in Nat
  BY DEF IsLeaf
<1>1. mu \in [D -> 0 .. n]
  BY <1>0 DEF Walk
<1>2. ASSUME NEW f \in [D -> Q], NEW g \in [D -> Q], NEW io \in D,
             \A y \in D : mu[y] < mu[io] => f[y] = g[y]
      PROVE  R(f, io) \in Q /\ R(f, io) = R(g, io)
  <2>1. PICK j \in 0 .. n, o \in Q : io = <<j, o>>
    BY DEF Walk
  <2>2. CASE j = n
    BY <2>1, <2>2 DEF LeafRound
  <2>3. CASE j # n
    <3> DEFINE key == leaf.keys[j + 1]
               value == leaf.values[j + 1]
               logaddr == key * BlockSize
               physaddr == (value \div TimeSize) * BlockSize
               next == Append(o, MapExtent(physaddr, logaddr))
    <3>1. key \in Nat /\ value \in Nat
      <4>1. j + 1 \in 1 .. n
        BY <1>0, <2>3
      <4> QED
        BY <4>1 DEF IsLeaf
    <3>2. next \in Q
      <4> HIDE DEF key, value
      <4> QED
        BY <3>1, AppendedIsMapped
    <3>3. Continues(o, physaddr, logaddr) => Lengthened(o) \in Q
      BY LengthenedIsMapped DEF Continues
    <3> HIDE DEF next
    <3>4. ASSUME NEW x \in Q PROVE <<j + 1, x>> \in D /\ f[<<j + 1, x>>] = g[<<j + 1, x>>] /\ f[<<j + 1, x>>] \in Q
      <4>1. <<j + 1, x>> \in D
        BY <1>0, <2>3 DEF Walk
      <4>2. mu[<<j + 1, x>>] = n - (j + 1) /\ mu[io] = n - j
        BY <2>1, <4>1
      <4> HIDE DEF mu, D
      <4>3. f[<<j + 1, x>>] = g[<<j + 1, x>>]
        BY <1>0, <1>2, <4>1, <4>2
      <4> QED
        BY <4>1, <4>3
    <3>5. R(f, io) = IF Continues(o, physaddr, logaddr) THEN f[<<j + 1, Lengthened(o)>>]
                     ELSE IF Len(o) < ExtentRoom THEN f[<<j + 1, next>>] ELSE o
      BY <2>1, <2>3 DEF LeafRound, next
    <3>6. R(g, io) = IF Continues(o, physaddr, logaddr) THEN g[<<j + 1, Lengthened(o)>>]
                     ELSE IF Len(o) < ExtentRoom THEN g[<<j + 1, next>>] ELSE o
      BY <2>1, <2>3 DEF LeafRound, next
    <3> HIDE DEF R, D, mu, Q, physaddr, logaddr
    <3> QED
      BY <3>2, <3>3, <3>4, <3>5, <3>6
  <2> QED
    BY <2>2, <2>3
<1> HIDE DEF R, D, mu
<1>3. \A f, g \in [D -> Q], io \in D :
        (\A y \in D : mu[y] < mu[io] => f[y] = g[y]) => R(f, io) = R(g, io)
  BY <1>2
<1>4. \A f \in [D -> Q], io \in D : R(f, io) \in Q
  BY <1>2
<1>5. S \in [[D -> Q] -> [D -> Q]] /\ \A f \in [D -> Q] : S[f] = [io \in D |-> R(f, io)]
  BY <1>4
<1> HIDE DEF S
<1>6. \A f, g \in [D -> Q], io \in D :
        (\A y \in D : mu[y] < mu[io] => f[y] = g[y]) => S[f][io] = S[g][io]
  <2> SUFFICES ASSUME NEW f \in [D -> Q], NEW g \in [D -> Q], NEW io \in D,
                      \A y \in D : mu[y] < mu[io] => f[y] = g[y]
               PROVE  S[f][io] = S[g][io]
    OBVIOUS
  <2>1. S[f][io] = R(f, io) /\ S[g][io] = R(g, io)
    <3>1. S[f] = [z \in D |-> R(f, z)] /\ S[g] = [z \in D |-> R(g, z)]
      BY <1>5
    <3> HIDE DEF D
    <3> QED
      BY <3>1
  <2> QED
    BY <1>3, <2>1
<1>7. PICK f \in [D -> Q] : f = S[f]
  <2>1. Q # {}
    BY EmptySeq
  <2>2. GoesDown(D, Q, n, mu, S)
    <3> HIDE DEF Q, n
    <3> QED
      BY <1>0, <1>1, <1>5, <1>6, <2>1 DEF GoesDown
  <2> HIDE DEF Q, n
  <2> QED
    BY <2>2, RecursionExists
<1>8. f = [io \in D |-> R(f, io)]
  BY <1>5, <1>7
<1> QED
  BY <1>7, <1>8 DEF IsWalk, R, D

LEMMA WalkIsMapped ==
    ASSUME NEW leaf, IsLeaf(leaf), NEW f, IsWalk(leaf, f)
    PROVE  \A io \in Walk(leaf) : f[io] \in Seq(Mapped) /\ f[io] = LeafRound(leaf, f, io)
<1> DEFINE n == Entries(leaf)
           D == Walk(leaf)
           R(io) == LeafRound(leaf, f, io)
           Bad(j, o) == f[<<j, o>>] \notin Seq(Mapped)
           T == {d \in 0 .. n : \E o \in Seq(Mapped) : Bad(n - d, o)}
<1>0. n \in Nat
  BY DEF IsLeaf
<1>1. f = [io \in D |-> R(io)]
  BY DEF IsWalk
<1>2. \A io \in D : f[io] = R(io)
  <2> HIDE DEF R
  <2> QED
    BY <1>1
<1> HIDE DEF R
<1>3. T = {}
  <2> SUFFICES ASSUME T # {} PROVE FALSE
    OBVIOUS
  <2>1. PICK d \in T : \A y \in T : d <= y
    <3>1. T \subseteq Nat
      BY <1>0
    <3> HIDE DEF T
    <3> QED
      BY <3>1, LeastOf
  <2>2. PICK o \in Seq(Mapped) : Bad(n - d, o)
    BY <2>1
  <2> DEFINE j == n - d
  <2>3. j \in 0 .. n /\ <<j, o>> \in D
    BY <1>0, <2>1 DEF Walk
  <2>4. f[<<j, o>>] = R(<<j, o>>)
    BY <1>2, <2>3
  <2>5. CASE j = n
    BY <2>2, <2>4, <2>5 DEF R, LeafRound
  <2>6. CASE j # n
    <3> DEFINE key == leaf.keys[j + 1]
               value == leaf.values[j + 1]
               logaddr == key * BlockSize
               physaddr == (value \div TimeSize) * BlockSize
               next == Append(o, MapExtent(physaddr, logaddr))
    <3>1. key \in Nat /\ value \in Nat
      <4>1. j + 1 \in 1 .. n
        BY <1>0, <2>3, <2>6
      <4> HIDE DEF j
      <4> QED
        BY <4>1 DEF IsLeaf
    <3>2. next \in Seq(Mapped)
      <4> HIDE DEF key, value
      <4> QED
        BY <3>1, AppendedIsMapped
    <3>3. Continues(o, physaddr, logaddr) => Lengthened(o) \in Seq(Mapped)
      BY LengthenedIsMapped DEF Continues
    <3> HIDE DEF next
    <3>4. ASSUME NEW x \in Seq(Mapped) PROVE f[<<j + 1, x>>] \in Seq(Mapped)
      <4>1. d - 1 \in 0 .. n /\ ~ (d <= d - 1) /\ n - (d - 1) = j + 1
        BY <1>0, <2>1, <2>6
      <4>2. d - 1 \notin T
        BY <2>1, <4>1
      <4> HIDE DEF j
      <4> QED
        BY <4>1, <4>2
    <3>5. R(<<j, o>>) = IF Continues(o, physaddr, logaddr) THEN f[<<j + 1, Lengthened(o)>>]
                        ELSE IF Len(o) < ExtentRoom THEN f[<<j + 1, next>>] ELSE o
      <4> HIDE DEF j
      <4> QED
        BY <2>6 DEF R, LeafRound, next
    <3> HIDE DEF physaddr, logaddr, j
    <3> QED
      BY <2>2, <2>4, <3>2, <3>3, <3>4, <3>5 DEF j
  <2> QED
    BY <2>5, <2>6
<1>4. ASSUME NEW io \in D PROVE f[io] \in Seq(Mapped)
  <2>1. PICK j \in 0 .. n, o \in Seq(Mapped) : io = <<j, o>>
    BY DEF Walk
  <2>2. n - j \in 0 .. n /\ n - (n - j) = j
    BY <1>0
  <2>3. n - j \notin T
    BY <1>3
  <2> HIDE DEF n
  <2>4. ~ Bad(n - (n - j), o)
    BY <2>2, <2>3
  <2> QED
    BY <2>1, <2>2, <2>4
<1> QED
  BY <1>2, <1>4 DEF R

\* LeafExtents, entry by entry.
LEMMA LeafStep ==
    ASSUME NEW leaf, IsLeaf(leaf), NEW j \in 0 .. Entries(leaf), NEW o \in Seq(Mapped)
    PROVE  /\ LeafExtents(leaf, j, o) \in Seq(Mapped)
           /\ LeafExtents(leaf, j, o) =
                LET logaddr  == leaf.keys[j + 1] * BlockSize
                    physaddr == (leaf.values[j + 1] \div TimeSize) * BlockSize
                IN  IF j = Entries(leaf) THEN o
                    ELSE IF Continues(o, physaddr, logaddr)
                    THEN LeafExtents(leaf, j + 1, Lengthened(o))
                    ELSE IF Len(o) < ExtentRoom
                    THEN LeafExtents(leaf, j + 1, Append(o, MapExtent(physaddr, logaddr)))
                    ELSE o
<1> DEFINE f == CHOOSE f : IsWalk(leaf, f)
<1>1. IsWalk(leaf, f)
  <2>1. \E g : IsWalk(leaf, g)
    BY WalkExists
  <2> QED
    BY <2>1
<1>2. \A x, y : LeafExtents(leaf, x, y) = f[<<x, y>>]
  BY LeafExtentsIsWalk
<1> HIDE DEF f
<1>3. <<j, o>> \in Walk(leaf)
  BY DEF Walk
<1>4. f[<<j, o>>] \in Seq(Mapped) /\ f[<<j, o>>] = LeafRound(leaf, f, <<j, o>>)
  BY <1>1, <1>3, WalkIsMapped
<1> QED
  BY <1>2, <1>4 DEF LeafRound
------------------------------------------------------------------------------
\* An extent, in blocks.
Run == [block : Nat, from : Nat, count : Nat \ {0}]

RunBytes(u) == [physical |-> u.block * BlockSize, logical |-> u.from * BlockSize,
                length |-> u.count * BlockSize]

Bytes(r) == [k \in 1 .. Len(r) |-> RunBytes(r[k])]

OneBlock(p, key) == [block |-> p, from |-> key, count |-> 1]
Longer(r) == [r EXCEPT ![Len(r)] = [block |-> @.block, from |-> @.from, count |-> @.count + 1]]

LEMMA BytesAreMapped ==
    ASSUME NEW r \in Seq(Run)
    PROVE  Bytes(r) \in Seq(Mapped) /\ Len(Bytes(r)) = Len(r) /\ (Bytes(r) = <<>> <=> r = <<>>)
<1>1. \A k \in 1 .. Len(r) : r[k] \in Run
  OBVIOUS
<1>2. \A u \in Run : RunBytes(u) \in Mapped
  <2> SUFFICES ASSUME NEW u \in Run PROVE RunBytes(u) \in Mapped
    OBVIOUS
  <2>1. u.block * BlockSize \in Int /\ u.from * BlockSize \in Int /\ u.count * BlockSize \in Int
    BY BlockSizeAssumption DEF Run
  <2> QED
    BY <2>1 DEF RunBytes, Mapped
<1>3. Len(r) \in Nat
  OBVIOUS
<1> DEFINE B == [k \in 1 .. Len(r) |-> RunBytes(r[k])]
<1>4. B \in [1 .. Len(r) -> Mapped]
  BY <1>1, <1>2
<1>5. B \in Seq(Mapped) /\ Len(B) = Len(r)
  BY <1>3, <1>4
<1>6. Bytes(r) = B
  BY DEF Bytes
<1> HIDE DEF B
<1> QED
  BY <1>3, <1>5, <1>6

LEMMA Cancels ==
    ASSUME NEW x \in Int, NEW y \in Int
    PROVE  x * BlockSize = y * BlockSize <=> x = y
BY BlockSizeAssumption

LEMMA Spreads ==
    ASSUME NEW x \in Int, NEW y \in Int
    PROVE  x * BlockSize + y * BlockSize = (x + y) * BlockSize
BY BlockSizeAssumption

LEMMA LastOfBytes ==
    ASSUME NEW r \in Seq(Run), r # <<>>
    PROVE  Len(r) \in 1 .. Len(r) /\ r[Len(r)] \in Run /\ Last(Bytes(r)) = RunBytes(r[Len(r)])
<1>1. Len(r) \in 1 .. Len(r) /\ r[Len(r)] \in Run
  OBVIOUS
<1>2. Len(Bytes(r)) = Len(r)
  BY BytesAreMapped
<1>3. Bytes(r)[Len(r)] = RunBytes(r[Len(r)])
  BY <1>1 DEF Bytes
<1> QED
  BY <1>1, <1>2, <1>3 DEF Last

LEMMA ContinuesIsNext ==
    ASSUME NEW r \in Seq(Run), NEW p \in Nat, NEW key \in Nat
    PROVE  Continues(Bytes(r), p * BlockSize, key * BlockSize) <=>
             r # <<>> /\ r[Len(r)].block + r[Len(r)].count = p /\ r[Len(r)].from + r[Len(r)].count = key
<1>1. CASE r = <<>>
  BY <1>1, BytesAreMapped DEF Continues
<1>2. CASE r # <<>>
  <2> DEFINE u == r[Len(r)]
  <2>1. u \in Run /\ Last(Bytes(r)) = RunBytes(u) /\ Bytes(r) # <<>>
    BY <1>2, LastOfBytes, BytesAreMapped
  <2>2. u.block \in Nat /\ u.from \in Nat /\ u.count \in Nat
    BY <2>1 DEF Run
  <2> DEFINE a == u.block  b == u.from  c == u.count
  <2>3. /\ Last(Bytes(r)).physical = a * BlockSize /\ Last(Bytes(r)).logical = b * BlockSize
        /\ Last(Bytes(r)).length = c * BlockSize
    BY <2>1 DEF RunBytes
  <2>4. Continues(Bytes(r), p * BlockSize, key * BlockSize) <=>
          a * BlockSize + c * BlockSize = p * BlockSize /\ b * BlockSize + c * BlockSize = key * BlockSize
    BY <2>1, <2>3 DEF Continues
  <2>0. a \in Int /\ b \in Int /\ c \in Int /\ a + c \in Int /\ b + c \in Int
    BY <2>2
  <2> HIDE DEF a, b, c
  <2>5. a * BlockSize + c * BlockSize = (a + c) * BlockSize /\ b * BlockSize + c * BlockSize = (b + c) * BlockSize
    BY <2>0, Spreads
  <2>6. /\ (a + c) * BlockSize = p * BlockSize <=> a + c = p
        /\ (b + c) * BlockSize = key * BlockSize <=> b + c = key
    BY <2>0, Cancels
  <2> QED
    BY <1>2, <2>4, <2>5, <2>6 DEF a, b, c
<1> QED
  BY <1>1, <1>2

LEMMA LongerIsRuns ==
    ASSUME NEW r \in Seq(Run), r # <<>>
    PROVE  /\ Longer(r) \in Seq(Run) /\ Len(Longer(r)) = Len(r)
           /\ \A k \in 1 .. Len(r) : k # Len(r) => Longer(r)[k] = r[k]
           /\ LET u == r[Len(r)] IN Longer(r)[Len(r)] = [block |-> u.block, from |-> u.from, count |-> u.count + 1]
<1> DEFINE u == r[Len(r)]
           w == [block |-> u.block, from |-> u.from, count |-> u.count + 1]
<1>1. Len(r) \in 1 .. Len(r) /\ u \in Run
  OBVIOUS
<1>2. w \in Run
  BY <1>1 DEF Run
<1>3. Longer(r) = [r EXCEPT ![Len(r)] = w]
  BY DEF Longer
<1> HIDE DEF w
<1>4. Longer(r) \in Seq(Run) /\ Len(Longer(r)) = Len(r) /\ Longer(r)[Len(r)] = w
  BY <1>1, <1>2, <1>3
<1>5. \A k \in 1 .. Len(r) : k # Len(r) => Longer(r)[k] = r[k]
  BY <1>1, <1>2, <1>3
<1> QED
  BY <1>4, <1>5 DEF w

LEMMA LengthenedIsLonger ==
    ASSUME NEW r \in Seq(Run), r # <<>>
    PROVE  Lengthened(Bytes(r)) = Bytes(Longer(r))
<1> DEFINE B == Bytes(r)
           n == Len(r)
           u == r[n]
<1>1. n \in 1 .. n /\ u \in Run /\ Len(B) = n /\ B \in Seq(Mapped) /\ n \in Nat
  BY LastOfBytes, BytesAreMapped
<1>2. \A k \in 1 .. n : B[k] = RunBytes(r[k])
  BY DEF Bytes
<1>3. Lengthened(B) = [B EXCEPT ![n] = [B[n] EXCEPT !.length = @ + BlockSize]]
  BY <1>1 DEF Lengthened
<1>4. B[n] = RunBytes(u)
  BY <1>1, <1>2
<1>5. [B[n] EXCEPT !.length = @ + BlockSize] = RunBytes([block |-> u.block, from |-> u.from, count |-> u.count + 1])
  <2>1. u.count \in Int
    BY <1>1 DEF Run
  <2>2. u.count * BlockSize + BlockSize = (u.count + 1) * BlockSize
    BY <2>1, BlockSizeAssumption
  <2> HIDE DEF u, B
  <2> QED
    BY <1>4, <2>2 DEF RunBytes
<1>6. [B EXCEPT ![n] = [B[n] EXCEPT !.length = @ + BlockSize]] = [k \in 1 .. n |-> RunBytes(Longer(r)[k])]
  <2> DEFINE w == [B[n] EXCEPT !.length = @ + BlockSize]
             C == [B EXCEPT ![n] = w]
             G(k) == RunBytes(Longer(r)[k])
  <2>1. C = [k \in 1 .. n |-> C[k]]
    BY <1>1
  <2>2. C[n] = w /\ \A k \in 1 .. n : k # n => C[k] = B[k]
    BY <1>1
  <2>3. /\ Longer(r)[n] = [block |-> u.block, from |-> u.from, count |-> u.count + 1]
        /\ \A k \in 1 .. n : k # n => Longer(r)[k] = r[k]
    BY LongerIsRuns
  <2> HIDE DEF C, w, B
  <2>4. \A k \in 1 .. n : C[k] = G(k)
    BY <1>2, <1>5, <2>2, <2>3 DEF w
  <2> HIDE DEF G
  <2>5. C = [k \in 1 .. n |-> G(k)]
    BY <2>1, <2>4
  <2> QED
    BY <2>5 DEF C, w, G
<1>7. Bytes(Longer(r)) = [k \in 1 .. n |-> RunBytes(Longer(r)[k])]
  BY LongerIsRuns DEF Bytes
<1> QED
  BY <1>3, <1>6, <1>7

LEMMA AppendedIsRun ==
    ASSUME NEW r \in Seq(Run), NEW p \in Nat, NEW key \in Nat
    PROVE  /\ Append(r, OneBlock(p, key)) \in Seq(Run)
           /\ Append(Bytes(r), MapExtent(p * BlockSize, key * BlockSize)) =
                Bytes(Append(r, OneBlock(p, key)))
<1> DEFINE u == OneBlock(p, key)
           e == MapExtent(p * BlockSize, key * BlockSize)
           s == Append(r, u)
           B == Bytes(r)
           n == Len(r)
<1>1. u \in Run
  BY DEF OneBlock, Run
<1>2. e = RunBytes(u)
  BY BlockSizeAssumption DEF OneBlock, RunBytes, MapExtent
<1>3. B \in Seq(Mapped) /\ Len(B) = n /\ n \in Nat
  BY BytesAreMapped
<1>0. e \in Mapped
  BY BlockSizeAssumption DEF MapExtent, Mapped
<1> HIDE DEF u, e
<1>4. s \in Seq(Run) /\ Len(s) = n + 1 /\ s[n + 1] = u /\ \A k \in 1 .. n : s[k] = r[k]
  BY <1>1
<1>5. \A k \in 1 .. n : B[k] = RunBytes(r[k])
  BY DEF Bytes
<1>6. Append(B, e) = [k \in 1 .. n + 1 |-> IF k = n + 1 THEN e ELSE B[k]]
  <2> HIDE DEF B
  <2> DEFINE C == Append(B, e)
  <2>1. C \in Seq(Mapped) /\ Len(C) = n + 1 /\ C[n + 1] = e /\ \A k \in 1 .. n : C[k] = B[k]
    BY <1>0, <1>3
  <2> HIDE DEF C
  <2>2. C = [k \in 1 .. n + 1 |-> C[k]]
    <3>1. C = [k \in 1 .. Len(C) |-> C[k]]
      BY <2>1
    <3> QED
      BY <2>1, <3>1
  <2>3. \A k \in 1 .. n + 1 : C[k] = IF k = n + 1 THEN e ELSE B[k]
    BY <1>3, <2>1
  <2>4. C = [k \in 1 .. n + 1 |-> IF k = n + 1 THEN e ELSE B[k]]
    BY <2>2, <2>3
  <2> QED
    BY <2>4 DEF C
<1>7. Bytes(s) = [k \in 1 .. n + 1 |-> RunBytes(s[k])]
  BY <1>4 DEF Bytes
<1> HIDE DEF s, B
<1>8. \A k \in 1 .. n + 1 : RunBytes(s[k]) = IF k = n + 1 THEN e ELSE B[k]
  BY <1>2, <1>3, <1>4, <1>5
<1>9. Append(B, e) = Bytes(s)
  <2> DEFINE G(k) == RunBytes(s[k])
             H(k) == IF k = n + 1 THEN e ELSE B[k]
  <2>1. \A k \in 1 .. n + 1 : G(k) = H(k)
    BY <1>8
  <2> HIDE DEF G, H
  <2>2. [k \in 1 .. n + 1 |-> G(k)] = [k \in 1 .. n + 1 |-> H(k)]
    BY <2>1
  <2> QED
    BY <1>6, <1>7, <2>2 DEF G, H
<1> QED
  BY <1>4, <1>9 DEF s, B, e, u
------------------------------------------------------------------------------
\* The runs are the blocks of the entries behind lo up to hi, in their order.
IsIn(u, key) == u.from <= key /\ key < u.from + u.count

RunsAreEntries(r, E, lo, hi) ==
    \A k \in 1 .. Len(r) : \A d \in 0 .. r[k].count - 1 :
      \E j \in lo + 1 .. hi : /\ E[j][1] = r[k].from + d
                              /\ E[j][2] \div TimeSize = r[k].block + d

EntriesAreInRuns(r, E, lo, hi) ==
    \A j \in lo + 1 .. hi : \E k \in 1 .. Len(r) : IsIn(r[k], E[j][1])

RunsAscend(r) == \A k \in 1 .. Len(r) - 1 : r[k].from + r[k].count <= r[k + 1].from

EndsAt(r, E, lo, hi) == r # <<>> => lo < hi /\ E[hi][1] = r[Len(r)].from + r[Len(r)].count - 1

IsRuns(r, E, lo, hi) ==
    /\ r \in Seq(Run) /\ Len(r) <= ExtentRoom
    /\ RunsAreEntries(r, E, lo, hi) /\ EntriesAreInRuns(r, E, lo, hi)
    /\ RunsAscend(r) /\ EndsAt(r, E, lo, hi)

LEMMA NoRuns ==
    ASSUME NEW E, NEW lo \in Nat
    PROVE  IsRuns(<<>>, E, lo, lo)
<1>1. <<>> \in Seq(Run) /\ Len(<<>>) = 0 /\ lo + 1 .. lo = {} /\ 1 .. 0 = {} /\ 1 .. 0 - 1 = {}
  OBVIOUS
<1> QED
  BY <1>1, BoundsAssumption
     DEF IsRuns, RunsAreEntries, EntriesAreInRuns, RunsAscend, EndsAt

LEMMA RunLengthens ==
    ASSUME NEW E, IsEntries(E), NEW lo \in 0 .. Len(E), NEW j \in lo .. Len(E) - 1,
           NEW r, IsRuns(r, E, lo, j), r # <<>>,
           NEW p, p = E[j + 1][2] \div TimeSize, NEW key, key = E[j + 1][1],
           r[Len(r)].block + r[Len(r)].count = p, r[Len(r)].from + r[Len(r)].count = key
    PROVE  IsRuns(Longer(r), E, lo, j + 1)
<1> DEFINE n == Len(r)
           s == Longer(r)
           u == r[n]
           w == s[n]
<1>0. r \in Seq(Run) /\ n <= ExtentRoom /\ Len(E) \in Nat /\ lo \in Nat /\ j \in Nat
  BY DEF IsRuns, IsEntries
<1>1. n \in 1 .. n /\ n \in Nat /\ \A k \in 1 .. n : r[k] \in Run
  BY <1>0
<1>2. /\ s \in Seq(Run) /\ Len(s) = n /\ (\A k \in 1 .. n : k # n => s[k] = r[k])
      /\ w = [block |-> u.block, from |-> u.from, count |-> u.count + 1]
  BY <1>0, LongerIsRuns
<1>3. /\ w.block = u.block /\ w.from = u.from /\ w.count = u.count + 1
      /\ u.block \in Nat /\ u.from \in Nat /\ u.count \in Nat \ {0}
  BY <1>1, <1>2 DEF Run
<1>9. w = s[n] /\ u = r[n] /\ E[j + 1][1] = u.from + u.count
  OBVIOUS
<1> HIDE DEF s, w, u
<1>4. RunsAreEntries(s, E, lo, j + 1)
  <2> SUFFICES ASSUME NEW k \in 1 .. n, NEW d \in 0 .. s[k].count - 1
               PROVE  \E x \in lo + 1 .. j + 1 : /\ E[x][1] = s[k].from + d
                                                 /\ E[x][2] \div TimeSize = s[k].block + d
    BY <1>2 DEF RunsAreEntries
  <2>1. lo + 1 .. j \subseteq lo + 1 .. j + 1 /\ j + 1 \in lo + 1 .. j + 1
    BY <1>0
  <2>2. \A d2 \in 0 .. r[k].count - 1 : \E x \in lo + 1 .. j :
          E[x][1] = r[k].from + d2 /\ E[x][2] \div TimeSize = r[k].block + d2
    BY DEF IsRuns, RunsAreEntries
  <2>3. CASE k # n
    <3>1. s[k] = r[k]
      BY <1>2, <2>3
    <3> QED
      BY <2>1, <2>2, <3>1
  <2>4. CASE k = n /\ d < u.count
    <3>1. s[k].from = r[k].from /\ s[k].block = r[k].block /\ d \in 0 .. r[k].count - 1
      BY <1>3, <1>9, <2>4
    <3> QED
      BY <2>1, <2>2, <3>1
  <2>5. CASE k = n /\ d = u.count
    <3>1. s[k].from + d = key /\ s[k].block + d = p
      BY <1>3, <1>9, <2>5
    <3> QED
      BY <2>1, <3>1
  <2>6. k # n \/ (k = n /\ (d < u.count \/ d = u.count))
    <3> SUFFICES ASSUME k = n PROVE d < u.count \/ d = u.count
      OBVIOUS
    <3> DEFINE q == u.count
    <3>1. d \in 0 .. q + 1 - 1 /\ q \in Nat
      BY <1>3, <1>9
    <3> HIDE DEF q
    <3>2. d < q \/ d = q
      BY <3>1
    <3> QED
      BY <3>2 DEF q
  <2> QED
    BY <2>3, <2>4, <2>5, <2>6
<1>5. EntriesAreInRuns(s, E, lo, j + 1)
  <2> SUFFICES ASSUME NEW x \in lo + 1 .. j + 1 PROVE \E k \in 1 .. n : IsIn(s[k], E[x][1])
    BY <1>2 DEF EntriesAreInRuns
  <2>1. CASE x = j + 1
    <3> DEFINE a == u.from
               c == u.count
    <3>2. a \in Nat /\ c \in Nat \ {0} /\ E[x][1] = a + c /\ w.from = a /\ w.count = c + 1
      BY <1>3, <1>9, <2>1
    <3> HIDE DEF a, c
    <3>3. a <= a + c /\ a + c < a + (c + 1)
      BY <3>2
    <3>1. IsIn(w, E[x][1])
      BY <3>2, <3>3 DEF IsIn
    <3> QED
      BY <1>1, <3>1 DEF w, u
  <2>2. CASE x # j + 1
    <3>1. x \in lo + 1 .. j
      BY <1>0, <2>2
    <3>2. PICK k \in 1 .. n : IsIn(r[k], E[x][1])
      BY <3>1 DEF IsRuns, EntriesAreInRuns
    <3>3. CASE k # n
      BY <1>2, <3>2, <3>3
    <3>4. CASE k = n
      <4>1. x \in 1 .. Len(E)
        BY <1>0, <3>1
      <4>2. E[x][1] \in Nat
        BY <4>1 DEF IsEntries
      <4>3. IsIn(u, E[x][1])
        BY <1>9, <3>2, <3>4
      <4>4. u.from <= E[x][1] /\ E[x][1] < u.from + u.count
        BY <4>3 DEF IsIn
      <4>5. IsIn(w, E[x][1])
        <5> DEFINE a == u.from
                   b == u.count
                   c == E[x][1]
        <5>1. a \in Nat /\ b \in Nat /\ c \in Nat /\ a <= c /\ c < a + b
          BY <1>3, <4>2, <4>4
        <5>2. w.from = a /\ w.count = b + 1
          BY <1>3
        <5> HIDE DEF a, b, c
        <5>3. a <= c /\ c < a + (b + 1)
          BY <5>1
        <5>4. w.from <= c /\ c < w.from + w.count
          BY <5>2, <5>3
        <5> QED
          BY <5>4 DEF IsIn, c
      <4> QED
        BY <1>1, <4>5 DEF w, u
    <3> QED
      BY <3>3, <3>4
  <2> QED
    BY <2>1, <2>2
<1>6. RunsAscend(s)
  <2> SUFFICES ASSUME NEW k \in 1 .. n - 1 PROVE s[k].from + s[k].count <= s[k + 1].from
    BY <1>2 DEF RunsAscend
  <2>1. r[k].from + r[k].count <= r[k + 1].from
    BY DEF IsRuns, RunsAscend
  <2>2. k \in 1 .. n /\ k # n /\ k + 1 \in 1 .. n
    BY <1>1
  <2>3. s[k] = r[k] /\ s[k + 1].from = r[k + 1].from
    BY <1>2, <1>3, <2>2 DEF w, u
  <2> QED
    BY <2>1, <2>3
<1>7. EndsAt(s, E, lo, j + 1)
  <2>1. lo < j + 1
    BY <1>0
  <2>2. E[j + 1][1] = w.from + w.count - 1
    <3> DEFINE a == u.from
               c == u.count
    <3>1. a \in Nat /\ c \in Nat /\ E[j + 1][1] = a + c /\ w.from = a /\ w.count = c + 1
      BY <1>3, <1>9
    <3> HIDE DEF a, c
    <3>2. a + c = a + (c + 1) - 1
      BY <3>1
    <3> QED
      BY <3>1, <3>2
  <2> QED
    BY <1>2, <2>1, <2>2 DEF EndsAt, w
<1> QED
  BY <1>0, <1>2, <1>4, <1>5, <1>6, <1>7 DEF IsRuns, s

LEMMA RunBegins ==
    ASSUME NEW E, IsEntries(E), NEW lo \in 0 .. Len(E), NEW j \in lo .. Len(E) - 1,
           NEW r, IsRuns(r, E, lo, j), Len(r) < ExtentRoom,
           NEW p \in Nat, p = E[j + 1][2] \div TimeSize, NEW key \in Nat, key = E[j + 1][1]
    PROVE  IsRuns(Append(r, OneBlock(p, key)), E, lo, j + 1)
<1> DEFINE n == Len(r)
           s == Append(r, OneBlock(p, key))
           w == OneBlock(p, key)
<1>0. r \in Seq(Run) /\ n < ExtentRoom /\ Len(E) \in Nat /\ lo \in Nat /\ j \in Nat /\ n \in Nat
  BY DEF IsRuns, IsEntries
<1>1. w \in Run /\ w.block = p /\ w.from = key /\ w.count = 1
  BY DEF OneBlock, Run
<1> HIDE DEF w
<1>2. /\ s \in Seq(Run) /\ Len(s) = n + 1 /\ s[n + 1] = w /\ \A k \in 1 .. n : s[k] = r[k] /\ r[k] \in Run
  BY <1>0, <1>1 DEF w
<1> HIDE DEF s
<1>3. n + 1 \in 1 .. n + 1 /\ \A k \in 1 .. n + 1 : k = n + 1 \/ k \in 1 .. n
  BY <1>0
<1>4. RunsAreEntries(s, E, lo, j + 1)
  <2> SUFFICES ASSUME NEW k \in 1 .. n + 1, NEW d \in 0 .. s[k].count - 1
               PROVE  \E x \in lo + 1 .. j + 1 : /\ E[x][1] = s[k].from + d
                                                 /\ E[x][2] \div TimeSize = s[k].block + d
    BY <1>2 DEF RunsAreEntries
  <2>1. lo + 1 .. j \subseteq lo + 1 .. j + 1 /\ j + 1 \in lo + 1 .. j + 1
    BY <1>0
  <2>3. CASE k # n + 1
    <3>1. s[k] = r[k] /\ k \in 1 .. n
      BY <1>2, <1>3, <2>3
    <3>2. \A d2 \in 0 .. r[k].count - 1 : \E x \in lo + 1 .. j :
            E[x][1] = r[k].from + d2 /\ E[x][2] \div TimeSize = r[k].block + d2
      BY <3>1 DEF IsRuns, RunsAreEntries
    <3> QED
      BY <2>1, <3>1, <3>2
  <2>4. CASE k = n + 1
    <3>1. s[k] = w /\ d = 0
      BY <1>1, <1>2, <2>4
    <3>2. s[k].from + d = key /\ s[k].block + d = p
      BY <1>1, <3>1
    <3> QED
      BY <2>1, <3>2
  <2> QED
    BY <2>3, <2>4
<1>5. EntriesAreInRuns(s, E, lo, j + 1)
  <2> SUFFICES ASSUME NEW x \in lo + 1 .. j + 1 PROVE \E k \in 1 .. n + 1 : IsIn(s[k], E[x][1])
    BY <1>2 DEF EntriesAreInRuns
  <2>1. CASE x = j + 1
    <3>1. IsIn(w, E[x][1])
      BY <1>1, <2>1 DEF IsIn
    <3> QED
      BY <1>2, <1>3, <3>1
  <2>2. CASE x # j + 1
    <3>1. x \in lo + 1 .. j
      BY <1>0, <2>2
    <3>2. PICK k \in 1 .. n : IsIn(r[k], E[x][1])
      BY <3>1 DEF IsRuns, EntriesAreInRuns
    <3>3. k \in 1 .. n + 1 /\ s[k] = r[k]
      BY <1>0, <1>2
    <3> QED
      BY <3>2, <3>3
  <2> QED
    BY <2>1, <2>2
<1>6. RunsAscend(s)
  <2> SUFFICES ASSUME NEW k \in 1 .. n PROVE s[k].from + s[k].count <= s[k + 1].from
    <3>1. n + 1 - 1 = n
      BY <1>0
    <3> QED
      BY <1>2, <3>1 DEF RunsAscend
  <2>1. CASE k # n
    <3>1. k \in 1 .. n - 1 /\ k + 1 \in 1 .. n
      BY <1>0, <2>1
    <3>2. r[k].from + r[k].count <= r[k + 1].from
      BY <3>1 DEF IsRuns, RunsAscend
    <3> QED
      BY <1>2, <3>1, <3>2
  <2>2. CASE k = n
    <3>1. s[k + 1] = w /\ s[k] = r[n] /\ r[n] \in Run
      BY <1>2, <2>2
    <3>2. lo < j /\ E[j][1] = r[n].from + r[n].count - 1
      <4>1. r # <<>>
        BY <1>0, <2>2
      <4> QED
        BY <4>1 DEF IsRuns, EndsAt
    <3>3. j \in 1 .. Len(E) /\ j + 1 \in 1 .. Len(E) /\ j < j + 1
      BY <1>0, <3>2
    <3>4. E[j][1] < E[j + 1][1] /\ E[j][1] \in Nat
      BY <3>3 DEF IsEntries
    <3>5. r[n].from \in Nat /\ r[n].count \in Nat
      BY <3>1 DEF Run
    <3> QED
      <4> DEFINE a == r[n].from
                 b == r[n].count
                 c == E[j][1]
      <4>1. a \in Nat /\ b \in Nat /\ c \in Nat /\ c = a + b - 1 /\ c < key
        BY <3>2, <3>4, <3>5
      <4>2. s[k].from + s[k].count = a + b /\ s[k + 1].from = key
        BY <1>1, <3>1
      <4> HIDE DEF a, b, c
      <4>3. a + b <= key
        BY <4>1
      <4> QED
        BY <4>2, <4>3
  <2> QED
    BY <2>1, <2>2
<1>7. EndsAt(s, E, lo, j + 1)
  <2>1. lo < j + 1
    BY <1>0
  <2>2. E[j + 1][1] = w.from + w.count - 1
    BY <1>1
  <2> QED
    BY <1>2, <2>1, <2>2 DEF EndsAt
<1>8. Len(s) <= ExtentRoom
  BY <1>0, <1>2, BoundsAssumption
<1> QED
  BY <1>2, <1>4, <1>5, <1>6, <1>7, <1>8 DEF IsRuns, s
------------------------------------------------------------------------------
\* What the extents o, for the entries behind lo, end with: those up to hi.
Takes(o, E, lo, least, most) ==
    \E hi \in least .. most : \E s :
      IsRuns(s, E, lo, hi) /\ o = Bytes(s) /\ (hi = most \/ Len(s) = ExtentRoom)

LEMMA BlockOfValue ==
    ASSUME NEW value \in Nat
    PROVE  value \div TimeSize \in Nat
BY TimeSizeIsPositive

LEMMA PartIsLeaf ==
    ASSUME NEW E, IsEntries(E), NEW lo \in 0 .. Len(E), NEW hi \in lo .. Len(E), NEW node,
           IsPart(node, E, lo, hi)
    PROVE  IsLeaf(node) /\ Entries(node) = hi - lo
<1>1. Entries(node) = hi - lo /\ ~ node.internal /\ Entries(node) \in Nat
  BY DEF IsPart, IsEntries
<1>2. \A j \in 1 .. Entries(node) : node.keys[j] \in Nat /\ node.values[j] \in Nat
  BY PartIsNode
<1> QED
  BY <1>1, <1>2 DEF IsLeaf

LEMMA LeafTakes ==
    ASSUME NEW E, IsEntries(E), NEW lo \in 0 .. Len(E), NEW c0 \in 0 .. Len(E), NEW c1 \in c0 .. Len(E),
           NEW node, IsPart(node, E, c0, c1), NEW from \in 0 .. c1 - c0, lo <= c0 + from,
           NEW r, IsRuns(r, E, lo, c0 + from)
    PROVE  Takes(LeafExtents(node, from, Bytes(r)), E, lo, c0 + from, c1)
<1> DEFINE n == c1 - c0
           Good(j) == \A q : IsRuns(q, E, lo, c0 + j) => Takes(LeafExtents(node, j, Bytes(q)), E, lo, c0 + j, c1)
           T == {d \in 0 .. n : lo <= c0 + (n - d) /\ ~ Good(n - d)}
<1>0. Len(E) \in Nat /\ n \in Nat /\ c0 \in Nat /\ c1 \in Nat /\ lo \in Nat
  BY DEF IsEntries
<1>1. IsLeaf(node) /\ Entries(node) = n
  BY PartIsLeaf
<1>2. Good(n)
  <2> SUFFICES ASSUME NEW q, IsRuns(q, E, lo, c0 + n)
               PROVE  Takes(LeafExtents(node, n, Bytes(q)), E, lo, c0 + n, c1)
    OBVIOUS
  <2>1. q \in Seq(Run)
    BY DEF IsRuns
  <2>2. Bytes(q) \in Seq(Mapped)
    BY <2>1, BytesAreMapped
  <2>3. n \in 0 .. Entries(node) /\ n = Entries(node)
    BY <1>0, <1>1
  <2> HIDE DEF n
  <2>4. LeafExtents(node, n, Bytes(q)) = Bytes(q)
    BY <1>1, <2>2, <2>3, LeafStep
  <2>5. c0 + n \in c0 + n .. c1 /\ c0 + n = c1
    BY <1>0 DEF n
  <2> QED
    BY <2>4, <2>5 DEF Takes
<1>3. ASSUME NEW j \in 0 .. n - 1, lo <= c0 + j, Good(j + 1)
      PROVE  Good(j)
  <2> SUFFICES ASSUME NEW q, IsRuns(q, E, lo, c0 + j)
               PROVE  Takes(LeafExtents(node, j, Bytes(q)), E, lo, c0 + j, c1)
    OBVIOUS
  <2> DEFINE x == c0 + j
             key == node.keys[j + 1]
             value == node.values[j + 1]
             p == value \div TimeSize
             o == Bytes(q)
  <2>1. q \in Seq(Run) /\ Len(q) <= ExtentRoom /\ Len(q) \in Nat
    BY DEF IsRuns
  <2>2. o \in Seq(Mapped) /\ Len(o) = Len(q)
    BY <2>1, BytesAreMapped
  <2>3. /\ x + 1 \in 1 .. Len(E) /\ x \in lo .. Len(E) - 1 /\ x + 1 <= c1
        /\ key = E[x + 1][1] /\ value = E[x + 1][2] /\ key \in Nat /\ value \in Nat
    <3>1. j + 1 \in 1 .. n /\ c0 + (j + 1) = x + 1
      BY <1>0
    <3>2. x + 1 \in 1 .. Len(E) /\ x \in lo .. Len(E) - 1 /\ x + 1 <= c1
      BY <1>0, <1>3
    <3>3. \A k \in 1 .. n : node.keys[k] = E[c0 + k][1] /\ node.values[k] = E[c0 + k][2]
      BY DEF IsPart
    <3>4. key = E[x + 1][1] /\ value = E[x + 1][2]
      BY <3>1, <3>3
    <3> QED
      BY <3>2, <3>4 DEF IsEntries
  <2>4. p \in Nat
    <3> HIDE DEF value
    <3> QED
      BY <2>3, BlockOfValue
  <2>5. j \in 0 .. Entries(node) /\ j # Entries(node)
    BY <1>0, <1>1
  <2>6. LeafExtents(node, j, o) =
          IF Continues(o, p * BlockSize, key * BlockSize) THEN LeafExtents(node, j + 1, Lengthened(o))
          ELSE IF Len(o) < ExtentRoom
          THEN LeafExtents(node, j + 1, Append(o, MapExtent(p * BlockSize, key * BlockSize)))
          ELSE o
    <3> HIDE DEF o
    <3> QED
      BY <1>1, <2>2, <2>5, LeafStep
  <2>7. ASSUME NEW s, IsRuns(s, E, lo, x + 1), LeafExtents(node, j, o) = LeafExtents(node, j + 1, Bytes(s))
        PROVE  Takes(LeafExtents(node, j, o), E, lo, x, c1)
    <3>1. c0 + (j + 1) = x + 1
      BY <1>0
    <3>2. Takes(LeafExtents(node, j + 1, Bytes(s)), E, lo, x + 1, c1)
      BY <1>3, <2>7, <3>1
    <3>3. x + 1 .. c1 \subseteq x .. c1
      BY <1>0
    <3> QED
      BY <2>7, <3>2, <3>3 DEF Takes
  <2> HIDE DEF Good
  <2>8. IsRuns(q, E, lo, x)
    OBVIOUS
  <2>9. p = E[x + 1][2] \div TimeSize /\ key = E[x + 1][1]
    BY <2>3
  <2> HIDE DEF x, key, value, p
  <2>10. CASE Continues(o, p * BlockSize, key * BlockSize)
    <3>1. q # <<>> /\ q[Len(q)].block + q[Len(q)].count = p /\ q[Len(q)].from + q[Len(q)].count = key
      BY <2>1, <2>3, <2>4, <2>10, ContinuesIsNext
    <3>2. IsRuns(Longer(q), E, lo, x + 1)
      BY <2>3, <2>8, <2>9, <3>1, RunLengthens
    <3>3. Lengthened(o) = Bytes(Longer(q))
      BY <2>1, <3>1, LengthenedIsLonger
    <3> QED
      BY <2>6, <2>7, <2>10, <3>2, <3>3 DEF x
  <2>11. CASE ~ Continues(o, p * BlockSize, key * BlockSize) /\ Len(o) < ExtentRoom
    <3> DEFINE s == Append(q, OneBlock(p, key))
    <3>1. IsRuns(s, E, lo, x + 1)
      BY <2>2, <2>3, <2>4, <2>8, <2>9, <2>11, RunBegins
    <3>2. Append(o, MapExtent(p * BlockSize, key * BlockSize)) = Bytes(s)
      BY <2>1, <2>3, <2>4, AppendedIsRun
    <3> QED
      BY <2>6, <2>7, <2>11, <3>1, <3>2 DEF x
  <2>12. CASE ~ Continues(o, p * BlockSize, key * BlockSize) /\ ~ (Len(o) < ExtentRoom)
    <3>1. LeafExtents(node, j, o) = o
      BY <2>6, <2>12
    <3>2. Len(q) = ExtentRoom
      BY <2>1, <2>2, <2>12, BoundsAssumption
    <3>3. x \in x .. c1
      BY <1>0, <2>3
    <3>4. Takes(LeafExtents(node, j, o), E, lo, x, c1)
      BY <2>8, <3>1, <3>2, <3>3 DEF Takes
    <3> QED
      BY <3>4 DEF x
  <2> QED
    BY <2>10, <2>11, <2>12
<1>4. T = {}
  <2> HIDE DEF Good
  <2> SUFFICES ASSUME T # {} PROVE FALSE
    OBVIOUS
  <2>1. PICK d \in T : \A y \in T : d <= y
    <3>1. T \subseteq Nat
      BY <1>0
    <3> HIDE DEF T
    <3> QED
      BY <3>1, LeastOf
  <2>2. d \in 0 .. n /\ lo <= c0 + (n - d) /\ ~ Good(n - d)
    BY <2>1
  <2> HIDE DEF n
  <2>3. d # 0
    <3>1. d = 0 => n - d = n
      BY <1>0
    <3> QED
      BY <1>2, <2>2, <3>1
  <2>4. d - 1 \in 0 .. n /\ ~ (d <= d - 1) /\ n - (d - 1) = (n - d) + 1 /\ n - d \in 0 .. n - 1
    BY <1>0, <2>2, <2>3
  <2>5. lo <= c0 + ((n - d) + 1)
    BY <1>0, <2>2, <2>4
  <2>6. Good((n - d) + 1)
    BY <2>1, <2>4, <2>5
  <2>7. Good(n - d)
    BY <1>3, <2>2, <2>4, <2>6
  <2> QED
    BY <2>2, <2>7
<1>5. n - from \in 0 .. n /\ n - (n - from) = from
  BY <1>0
<1>6. Good(from)
  <2> HIDE DEF Good
  <2>1. n - from \notin T
    BY <1>4
  <2> HIDE DEF n
  <2> QED
    BY <1>5, <2>1
<1> QED
  BY <1>6
------------------------------------------------------------------------------
\* fdmt_mapAddressRange at a node and index, f being what it gives for the others.
Ranges == (0 .. MaxNode) \X (0 .. MaxNode) \X Seq(Mapped)

RangeRound(meta, begin, end, f, pio) ==
    LET p == pio[1]
        k == pio[2]
        o == pio[3]
        node == meta[p]
        child == node.values[k + 1]
    IN  IF k >= Entries(node) THEN o
        ELSE IF ~ node.internal THEN LeafExtents(node, k, o)
        ELSE IF Len(o) # ExtentRoom /\ child < end
        THEN f[<<p, k + 1, f[<<child, FirstIndex(meta[child], begin), o>>]>>]
        ELSE o

IsRange(meta, begin, end, f) ==
    f = [pio \in Ranges |-> RangeRound(meta, begin, end, f, pio)]

LEMMA MapIsRange ==
    ASSUME NEW meta, NEW pos, NEW begin, NEW end
    PROVE  fdmt_mapAddressRange(meta, pos, begin, end) =
             (CHOOSE f : IsRange(meta, begin, end, f))[<<pos, FirstIndex(meta[pos], begin), <<>>>>]
BY DEF fdmt_mapAddressRange, IsRange, RangeRound, Ranges

LEMMA FirstIndexOfLeaf ==
    ASSUME NEW node, IsNode(node), node.internal = FALSE, NEW begin \in Int
    PROVE  IsAbove(node, begin, FirstIndex(node, begin)) /\ FirstIndex(node, begin) \in 0 .. Entries(node)
<1> DEFINE r == btree_node_search(node, begin, TRUE)
<1>1. IsAbove(node, begin, r)
  BY SearchAbove
<1>2. r \in 0 .. Entries(node) /\ Entries(node) \in Nat
  BY <1>1 DEF IsAbove, IsNode
<1>3. FirstIndex(node, begin) = IF r < 0 THEN 0 ELSE r
  <2>1. (~ node.internal) = TRUE
    OBVIOUS
  <2> QED
    BY <2>1, Zenon DEF FirstIndex
<1> HIDE DEF r
<1>4. ~ (r < 0)
  BY <1>2
<1> QED
  BY <1>1, <1>2, <1>3, <1>4

LEMMA FirstIndexOfInner ==
    ASSUME NEW node, IsNode(node), node.internal = TRUE, NEW begin \in Int
    PROVE  \E r : /\ IsBelow(node, begin, r)
                  /\ FirstIndex(node, begin) = IF r < 0 THEN 0 ELSE r
<1>1. IsBelow(node, begin, btree_node_search(node, begin, FALSE))
  BY SearchBelow
<1>2. FirstIndex(node, begin) = IF btree_node_search(node, begin, FALSE) < 0 THEN 0
                                ELSE btree_node_search(node, begin, FALSE)
  <2>1. (~ node.internal) = FALSE
    OBVIOUS
  <2> QED
    BY <2>1, Zenon DEF FirstIndex
<1> QED
  BY <1>1, <1>2, Zenon

LEMMA FirstIndexIsIndex ==
    ASSUME NEW node, IsNode(node), node.internal \in BOOLEAN, NEW begin \in Int
    PROVE  FirstIndex(node, begin) \in 0 .. Entries(node)
<1>0. Entries(node) \in Nat
  BY DEF IsNode
<1>1. CASE node.internal = FALSE
  BY <1>1, FirstIndexOfLeaf
<1>2. CASE node.internal = TRUE
  <2>1. PICK r : IsBelow(node, begin, r) /\ FirstIndex(node, begin) = IF r < 0 THEN 0 ELSE r
    BY <1>2, FirstIndexOfInner
  <2>2. r \in -1 .. Entries(node) - 1
    BY <2>1 DEF IsBelow
  <2> QED
    BY <1>0, <2>1, <2>2
<1> QED
  BY <1>1, <1>2

LEMMA RangeExists ==
    ASSUME NEW meta, IsShallow(meta), NEW begin \in Nat, NEW end
    PROVE  \E f : IsRange(meta, begin, end, f)
<1> DEFINE N == 0 .. MaxNode
           D == Ranges
           Q == Seq(Mapped)
           n(p) == Entries(meta[p])
           R(f, x) == RangeRound(meta, begin, end, f, x)
           height(p, k) == IF meta[p].internal THEN (IF k <= n(p) THEN n(p) - k ELSE 0) + 1 ELSE 0
           mu == [x \in D |-> height(x[1], x[2])]
           S == [f \in [D -> Q] |-> [x \in D |-> R(f, x)]]
<1>0. MaxNode \in Nat /\ \A p \in N : n(p) \in 0 .. MaxNode /\ IsNode(meta[p]) /\ meta[p].internal \in BOOLEAN
  BY BoundsAssumption DEF IsShallow, IsNode
<1>1. mu \in [D -> 0 .. MaxNode + 1]
  <2>1. \A p, k \in N : height(p, k) \in 0 .. MaxNode + 1
    BY <1>0
  <2>2. \A x \in D : x[1] \in N /\ x[2] \in N
    BY DEF Ranges
  <2> HIDE DEF height
  <2> QED
    BY <2>1, <2>2
<1>2. \A p, k \in N, o \in Q : <<p, k, o>> \in D /\ mu[<<p, k, o>>] = height(p, k)
  BY DEF Ranges
<1> HIDE DEF mu
<1>3. ASSUME NEW f \in [D -> Q], NEW g \in [D -> Q], NEW x \in D,
             \A y \in D : mu[y] < mu[x] => f[y] = g[y]
      PROVE  R(f, x) \in Q /\ R(f, x) = R(g, x)
  <2>1. PICK p \in N, k \in N, o \in Q : x = <<p, k, o>>
    BY DEF Ranges
  <2> DEFINE node == meta[p]
             child == node.values[k + 1]
             from == FirstIndex(meta[child], begin)
  <2>0. n(p) \in 0 .. MaxNode /\ MaxNode \in Nat /\ n(p) \in Nat /\ k \in Nat /\ k <= MaxNode
    <3>1. p \in N /\ k \in N
      BY <2>1
    <3>2. n(p) \in 0 .. MaxNode /\ MaxNode \in Nat
      BY <1>0, <3>1
    <3> HIDE DEF n
    <3> QED
      BY <3>1, <3>2
  <2>2. CASE k >= n(p)
    BY <2>1, <2>2 DEF RangeRound
  <2>3. CASE ~ (k >= n(p)) /\ ~ node.internal
    <3>1. R(f, x) = LeafExtents(node, k, o) /\ R(g, x) = LeafExtents(node, k, o)
      BY <2>1, <2>3 DEF RangeRound
    <3>2. IsLeaf(node) /\ k \in 0 .. Entries(node)
      <4>1. \A j \in 1 .. Entries(node) : node.keys[j] \in Nat /\ node.values[j] \in Nat
        BY <2>3 DEF IsShallow
      <4>2. Entries(node) \in Nat
        BY <2>0
      <4>3. k \in 0 .. Entries(node)
        BY <2>0, <2>3
      <4> QED
        BY <2>3, <4>1, <4>2, <4>3 DEF IsLeaf
    <3>3. LeafExtents(node, k, o) \in Q
      <4> HIDE DEF node
      <4> QED
        BY <3>2, LeafStep
    <3> QED
      BY <3>1, <3>3
  <2>4. CASE ~ (k >= n(p)) /\ node.internal
    <3>1. child \in N /\ ~ meta[child].internal
      <4>1. k + 1 \in 1 .. n(p)
        BY <1>0, <2>4
      <4> QED
        BY <2>4, <4>1 DEF IsShallow
    <3> HIDE DEF child
    <3>2. from \in 0 .. n(child)
      <4>1. IsNode(meta[child]) /\ meta[child].internal \in BOOLEAN /\ begin \in Int
        BY <1>0, <3>1
      <4> QED
        BY <4>1, FirstIndexIsIndex
    <3> HIDE DEF from
    <3>3. from \in N /\ k + 1 \in N
      <4>1. n(child) \in 0 .. MaxNode
        BY <1>0, <3>1
      <4> HIDE DEF n
      <4> QED
        BY <2>0, <2>4, <3>2, <4>1
    <3>4. mu[x] = n(p) - k + 1 /\ n(p) - k + 1 > 0
      <4>1. mu[x] = height(p, k)
        BY <1>2, <2>1
      <4>2. ~ (k >= n(p)) /\ height(p, k) = (IF k <= n(p) THEN n(p) - k ELSE 0) + 1
        BY <2>4
      <4> HIDE DEF n, height
      <4> QED
        BY <2>0, <4>1, <4>2
    <3> DEFINE a == <<child, from, o>>
    <3>5. a \in D /\ mu[a] = 0
      BY <1>2, <3>1, <3>3
    <3>6. f[a] = g[a] /\ f[a] \in Q
      <4> HIDE DEF a, D
      <4> QED
        BY <1>3, <3>4, <3>5
    <3> DEFINE b == <<p, k + 1, f[a]>>
    <3>7. b \in D /\ mu[b] = n(p) - (k + 1) + 1
      <4> HIDE DEF a
      <4>1. mu[b] = height(p, k + 1) /\ b \in D
        BY <1>2, <3>3, <3>6
      <4> QED
        BY <1>0, <2>4, <4>1
    <3>8. f[b] = g[b] /\ f[b] \in Q
      <4>1. mu[b] < mu[x]
        <5> HIDE DEF n, b
        <5> QED
          BY <2>0, <3>4, <3>7
      <4> HIDE DEF b, D
      <4> QED
        BY <1>3, <3>7, <4>1
    <3>9. R(f, x) = IF Len(o) # ExtentRoom /\ child < end THEN f[<<p, k + 1, f[a]>>] ELSE o
      BY <2>1, <2>4 DEF RangeRound, child, from
    <3>10. R(g, x) = IF Len(o) # ExtentRoom /\ child < end THEN g[<<p, k + 1, g[a]>>] ELSE o
      BY <2>1, <2>4 DEF RangeRound, child, from
    <3>11. R(f, x) = IF Len(o) # ExtentRoom /\ child < end THEN f[b] ELSE o
      BY <3>9
    <3>12. R(g, x) = IF Len(o) # ExtentRoom /\ child < end THEN g[b] ELSE o
      BY <3>6, <3>10
    <3> HIDE DEF R, a, b, D, Q
    <3> QED
      BY <3>8, <3>11, <3>12
  <2> QED
    BY <2>2, <2>3, <2>4
<1> HIDE DEF R, D
<1>4. \A f, g \in [D -> Q], x \in D :
        (\A y \in D : mu[y] < mu[x] => f[y] = g[y]) => R(f, x) = R(g, x)
  BY <1>3
<1>5. \A f \in [D -> Q], x \in D : R(f, x) \in Q
  BY <1>3
<1>6. S \in [[D -> Q] -> [D -> Q]] /\ \A f \in [D -> Q] : S[f] = [x \in D |-> R(f, x)]
  BY <1>5
<1> HIDE DEF S
<1>7. \A f, g \in [D -> Q], x \in D :
        (\A y \in D : mu[y] < mu[x] => f[y] = g[y]) => S[f][x] = S[g][x]
  <2> SUFFICES ASSUME NEW f \in [D -> Q], NEW g \in [D -> Q], NEW x \in D,
                      \A y \in D : mu[y] < mu[x] => f[y] = g[y]
               PROVE  S[f][x] = S[g][x]
    OBVIOUS
  <2>1. S[f][x] = R(f, x) /\ S[g][x] = R(g, x)
    <3>1. S[f] = [z \in D |-> R(f, z)] /\ S[g] = [z \in D |-> R(g, z)]
      BY <1>6
    <3> HIDE DEF D
    <3> QED
      BY <3>1
  <2> QED
    BY <1>4, <2>1
<1>8. PICK f \in [D -> Q] : f = S[f]
  <2>1. Q # {} /\ MaxNode + 1 \in Nat
    <3>1. <<>> \in Q
      OBVIOUS
    <3> HIDE DEF Q
    <3> QED
      BY <1>0, <3>1
  <2>2. GoesDown(D, Q, MaxNode + 1, mu, S)
    <3> HIDE DEF Q
    <3> QED
      BY <1>1, <1>6, <1>7, <2>1 DEF GoesDown
  <2> HIDE DEF Q
  <2> QED
    BY <2>2, RecursionExists
<1>9. f = [x \in D |-> R(f, x)]
  BY <1>6, <1>8
<1> QED
  BY <1>9 DEF IsRange, R, D
------------------------------------------------------------------------------
\* The first J entries are those below "begin".
IsSplit(E, begin, J) ==
    /\ J \in 0 .. Len(E)
    /\ \A x \in 1 .. Len(E) : x <= J <=> E[x][1] < begin

LEMMA SplitExists ==
    ASSUME NEW E, IsEntries(E), NEW begin \in Nat
    PROVE  \E J : IsSplit(E, begin, J)
<1> DEFINE n == Len(E)
           T == {j \in 1 .. n + 1 : j = n + 1 \/ E[j][1] >= begin}
<1>1. n \in Nat /\ T \subseteq Nat /\ n + 1 \in T
  BY DEF IsEntries
<1>2. PICK m \in T : \A y \in T : m <= y
  <2> HIDE DEF T
  <2> QED
    BY <1>1, LeastOf
<1>3. m \in 1 .. n + 1 /\ m - 1 \in 0 .. n /\ (m = n + 1 \/ E[m][1] >= begin)
  BY <1>1, <1>2
<1>4. ASSUME NEW x \in 1 .. n PROVE x <= m - 1 <=> E[x][1] < begin
  <2>1. E[x][1] \in Nat
    BY DEF IsEntries
  <2>2. CASE x <= m - 1
    <3>1. x \notin T /\ x \in 1 .. n + 1 /\ x # n + 1
      BY <1>1, <1>2, <1>3, <2>2
    <3> QED
      BY <2>1, <2>2, <3>1
  <2>3. CASE ~ (x <= m - 1)
    <3>1. m <= x /\ m # n + 1 /\ m \in 1 .. n
      BY <1>1, <1>3, <2>3
    <3>2. E[m][1] <= E[x][1] /\ E[m][1] \in Nat
      BY <3>1, EntriesAscend
    <3>3. E[m][1] >= begin
      BY <1>3, <3>1
    <3> QED
      BY <2>1, <2>3, <3>2, <3>3
  <2> QED
    BY <2>2, <2>3
<1> QED
  BY <1>3, <1>4 DEF IsSplit

\* The further of two positions.
Further(a, b) == IF a < b THEN b ELSE a

\* Of a leaf that reaches beyond J the search begins behind J.
LEMMA LeafBegins ==
    ASSUME NEW E, IsEntries(E), NEW begin \in Nat, NEW J, IsSplit(E, begin, J),
           NEW c0 \in 0 .. Len(E), NEW c1 \in c0 .. Len(E), J <= c1,
           NEW node, IsPart(node, E, c0, c1)
    PROVE  /\ c0 + FirstIndex(node, begin) = Further(c0, J)
           /\ FirstIndex(node, begin) \in 0 .. c1 - c0
<1> DEFINE a == FirstIndex(node, begin)
           n == c1 - c0
           K(k) == E[c0 + k][1]
<1>0. Len(E) \in Nat /\ c0 \in Nat /\ c1 \in Nat /\ n \in Nat /\ J \in Nat /\ begin \in Int /\ J <= Len(E)
  BY DEF IsEntries, IsSplit
<1>1. IsNode(node) /\ node.internal = FALSE /\ Entries(node) = n
  <2>1. IsNode(node)
    BY PartIsNode
  <2> QED
    BY <2>1 DEF IsPart
<1>2. IsAbove(node, begin, a) /\ a \in 0 .. n
  <2>1. IsAbove(node, begin, a) /\ a \in 0 .. Entries(node)
    BY <1>0, <1>1, FirstIndexOfLeaf
  <2> QED
    BY <1>1, <2>1
<1> HIDE DEF a
<1>3. \A k \in 1 .. n : /\ c0 + k \in 1 .. Len(E) /\ K(k) \in Nat
                        /\ (k <= a <=> K(k) < begin)
                        /\ (c0 + k <= J <=> K(k) < begin)
  <2> SUFFICES ASSUME NEW k \in 1 .. n
               PROVE  /\ c0 + k \in 1 .. Len(E) /\ K(k) \in Nat
                      /\ (k <= a <=> K(k) < begin)
                      /\ (c0 + k <= J <=> K(k) < begin)
    OBVIOUS
  <2>1. c0 + k \in 1 .. Len(E)
    BY <1>0
  <2>2. K(k) \in Nat
    BY <2>1 DEF IsEntries
  <2>3. node.keys[k] = K(k)
    BY DEF IsPart
  <2>4. IF k <= a THEN K(k) < begin ELSE K(k) >= begin
    BY <1>1, <1>2, <2>3 DEF IsAbove
  <2>5. c0 + k <= J <=> K(k) < begin
    BY <2>1 DEF IsSplit
  <2> HIDE DEF K
  <2> QED
    BY <1>0, <2>1, <2>2, <2>4, <2>5
<1>4. \A k \in 1 .. n : k <= a <=> c0 + k <= J
  BY <1>3
<1> HIDE DEF K, n
<1>5. CASE J <= c0
  <2>1. ~ (a >= 1)
    <3> SUFFICES ASSUME a >= 1 PROVE FALSE
      OBVIOUS
    <3>1. 1 \in 1 .. n /\ 1 <= a
      BY <1>0, <1>2
    <3>2. c0 + 1 <= J
      BY <1>4, <3>1
    <3> QED
      BY <1>0, <1>5, <3>2
  <2>2. a = 0
    BY <1>0, <1>2, <2>1
  <2>3. Further(c0, J) = c0
    BY <1>0, <1>5 DEF Further
  <2> QED
    BY <1>0, <1>2, <2>2, <2>3 DEF a, n
<1>6. CASE c0 < J
  <2> DEFINE m == J - c0
  <2>1. m \in 1 .. n /\ c0 + m = J
    BY <1>0, <1>6 DEF n
  <2>2. m <= a
    BY <1>0, <1>4, <2>1
  <2>3. ~ (m < a)
    <3> SUFFICES ASSUME m < a PROVE FALSE
      OBVIOUS
    <3>1. m + 1 \in 1 .. n /\ m + 1 <= a
      BY <1>0, <1>2, <2>1
    <3>2. c0 + (m + 1) <= J
      BY <1>4, <3>1
    <3> QED
      BY <1>0, <2>1, <3>2
  <2>4. a = m
    BY <1>0, <1>2, <2>1, <2>2, <2>3
  <2>5. Further(c0, J) = J
    BY <1>0, <1>6 DEF Further
  <2> QED
    BY <1>2, <2>1, <2>4, <2>5 DEF a, n
<1> QED
  BY <1>0, <1>5, <1>6

\* Where the walk through an internal node begins.
LEMMA InnerBegins ==
    ASSUME NEW meta, NEW node, NEW E, IsEntries(E), NEW cut, IsInner(meta, node, E, cut),
           NEW begin \in Nat, NEW J, IsSplit(E, begin, J)
    PROVE  LET k == FirstIndex(node, begin)
           IN  k \in 0 .. Entries(node) - 1 /\ cut[k] <= J /\ J <= cut[k + 1]
<1> DEFINE n == Entries(node)
           K(k) == node.keys[k]
<1>0. Len(E) \in Nat /\ J \in 0 .. Len(E) /\ n \in Nat \ {0} /\ begin \in Int
  BY DEF IsEntries, IsSplit, IsInner
<1>1. IsNode(node) /\ node.internal = TRUE
  <2>1. IsNode(node)
    BY InnerIsNode
  <2> QED
    BY <2>1 DEF IsInner
<1>2. PICK r : IsBelow(node, begin, r) /\ FirstIndex(node, begin) = IF r < 0 THEN 0 ELSE r
  BY <1>0, <1>1, FirstIndexOfInner
<1> DEFINE k == FirstIndex(node, begin)
<1>3. r \in -1 .. n - 1 /\ \A j \in 1 .. n : IF j <= r + 1 THEN K(j) <= begin ELSE K(j) > begin
  BY <1>2 DEF IsBelow
<1>4. k \in 0 .. n - 1 /\ (k # 0 => k = r)
  <2> HIDE DEF n
  <2> QED
    BY <1>0, <1>2, <1>3
<1>5. /\ cut[0] = 0 /\ cut[n] = Len(E)
      /\ \A a \in 0 .. n : cut[a] \in 0 .. Len(E)
      /\ \A a, b \in 0 .. n : a < b => cut[a] < cut[b]
  BY DEF IsInner
<1>6. \A j \in 1 .. n :
        K(j) \in Nat /\ K(j) <= E[cut[j - 1] + 1][1] /\ (j > 1 => K(j) > E[cut[j - 1]][1])
  BY DEF IsInner
<1> HIDE DEF n, K, k
<1>7. cut[k] <= J
  <2>1. CASE k = 0
    BY <1>0, <1>5, <2>1
  <2>2. CASE k # 0
    <3>1. k = r /\ k + 1 \in 1 .. n /\ k + 1 > 1 /\ k + 1 - 1 = k /\ k \in 0 .. n
      BY <1>0, <1>4, <2>2
    <3>2. K(k + 1) <= begin /\ K(k + 1) \in Nat
      BY <1>3, <1>6, <3>1
    <3>3. K(k + 1) > E[cut[k]][1]
      BY <1>6, <3>1
    <3>4. cut[k] \in 0 .. Len(E) /\ cut[k] # 0
      <4>1. 0 \in 0 .. n /\ 0 < k
        BY <1>0, <1>4, <2>2
      <4>2. cut[0] < cut[k]
        BY <1>5, <3>1, <4>1
      <4> QED
        BY <1>0, <1>5, <3>1, <4>2
    <3>5. cut[k] \in 1 .. Len(E)
      BY <1>0, <3>4
    <3>6. E[cut[k]][1] \in Nat /\ (cut[k] <= J <=> E[cut[k]][1] < begin)
      BY <3>5 DEF IsEntries, IsSplit
    <3> QED
      BY <3>2, <3>3, <3>6
  <2> QED
    BY <2>1, <2>2
<1>8. J <= cut[k + 1]
  <2>1. CASE k + 1 = n
    BY <1>0, <1>5, <2>1
  <2>2. CASE k + 1 # n
    <3>1. k + 2 \in 1 .. n /\ k + 1 \in 0 .. n /\ k + 2 - 1 = k + 1 /\ n \in 0 .. n /\ k + 1 < n
      BY <1>0, <1>4, <2>2
    <3>2. ~ (k + 2 <= r + 1)
      BY <1>0, <1>2, <1>3, <1>4 DEF k
    <3>3. K(k + 2) > begin /\ K(k + 2) \in Nat
      BY <1>3, <1>6, <3>1, <3>2
    <3>4. K(k + 2) <= E[cut[k + 1] + 1][1]
      <4> DEFINE j == k + 2
      <4>1. j \in 1 .. n /\ j - 1 = k + 1
        BY <1>0, <1>4, <3>1
      <4> HIDE DEF j
      <4>2. K(j) <= E[cut[j - 1] + 1][1]
        BY <1>6, <4>1
      <4>3. K(j) <= E[cut[k + 1] + 1][1]
        BY <4>1, <4>2
      <4> QED
        BY <4>3 DEF j
    <3> DEFINE c == cut[k + 1] + 1
    <3>5. c \in 1 .. Len(E) /\ cut[k + 1] \in Nat /\ cut[k + 1] + 1 = c
      <4>1. cut[k + 1] \in 0 .. Len(E) /\ cut[k + 1] < cut[n]
        BY <1>5, <3>1
      <4> QED
        BY <1>0, <1>5, <4>1
    <3> HIDE DEF c
    <3>6. E[c][1] \in Nat /\ (c <= J <=> E[c][1] < begin)
      BY <3>5 DEF IsEntries, IsSplit
    <3>7. E[c][1] > begin
      BY <3>3, <3>4, <3>6 DEF c
    <3>8. ~ (c <= J)
      BY <3>6, <3>7
    <3> QED
      BY <1>0, <3>5, <3>8
  <2> QED
    BY <2>1, <2>2
<1> QED
  BY <1>4, <1>7, <1>8 DEF k, n
------------------------------------------------------------------------------
LEMMA NoBytes == Bytes(<<>>) = <<>>
<1>1. <<>> \in Seq(Run)
  OBVIOUS
<1> QED
  BY <1>1, BytesAreMapped

LEMMA MapLeaf ==
    ASSUME NEW meta, IsShallow(meta), NEW begin \in Nat, NEW end, NEW f, IsRange(meta, begin, end, f),
           NEW E, IsEntries(E), NEW J, IsSplit(E, begin, J),
           NEW c0 \in 0 .. Len(E), NEW c1 \in c0 .. Len(E), J <= c1,
           NEW pos \in 0 .. MaxNode, IsPart(meta[pos], E, c0, c1),
           NEW r, IsRuns(r, E, J, Further(c0, J))
    PROVE  Takes(f[<<pos, FirstIndex(meta[pos], begin), Bytes(r)>>], E, J, Further(c0, J), c1)
<1> DEFINE node == meta[pos]
           from == FirstIndex(node, begin)
           x == <<pos, from, Bytes(r)>>
           R(y) == RangeRound(meta, begin, end, f, y)
<1>0. Len(E) \in Nat /\ MaxNode \in Nat /\ J \in 0 .. Len(E) /\ Entries(node) \in 0 .. MaxNode
  BY BoundsAssumption DEF IsEntries, IsSplit, IsShallow, IsNode
<1>1. c0 + from = Further(c0, J) /\ from \in 0 .. c1 - c0
  BY LeafBegins
<1>2. r \in Seq(Run) /\ Bytes(r) \in Seq(Mapped)
  BY BytesAreMapped DEF IsRuns
<1>3. IsLeaf(node) /\ Entries(node) = c1 - c0 /\ node.internal = FALSE
  <2>1. IsLeaf(node) /\ Entries(node) = c1 - c0
    BY PartIsLeaf
  <2> QED
    BY <2>1 DEF IsPart
<1> HIDE DEF from
<1>4. x \in Ranges /\ x[1] = pos /\ x[2] = from /\ x[3] = Bytes(r)
  BY <1>0, <1>1, <1>2, <1>3 DEF Ranges
<1>5. f[x] = R(x)
  <2>1. f = [y \in Ranges |-> R(y)]
    BY DEF IsRange
  <2> HIDE DEF R, x
  <2> QED
    BY <1>4, <2>1
<1>6. J <= c0 + from
  BY <1>0, <1>1 DEF Further
<1>7. Takes(LeafExtents(node, from, Bytes(r)), E, J, c0 + from, c1)
  BY <1>0, <1>1, <1>6, LeafTakes
<1>8. R(x) = LeafExtents(node, from, Bytes(r))
  <2>1. CASE from = Entries(node)
    <3>1. LeafExtents(node, from, Bytes(r)) = Bytes(r)
      <4> HIDE DEF node
      <4>1. from \in 0 .. Entries(node)
        BY <1>0, <2>1
      <4> QED
        BY <1>2, <1>3, <2>1, <4>1, LeafStep
    <3> HIDE DEF node
    <3>2. from >= Entries(node)
      BY <1>0, <2>1
    <3> QED
      BY <1>4, <3>1, <3>2 DEF RangeRound, node
  <2>2. CASE from # Entries(node)
    <3>1. ~ (from >= Entries(node))
      <4> HIDE DEF node
      <4> QED
        BY <1>0, <1>1, <1>3, <2>2
    <3> QED
      BY <1>3, <1>4, <3>1 DEF RangeRound
  <2> QED
    BY <2>1, <2>2
<1> QED
  BY <1>1, <1>5, <1>7, <1>8 DEF from

LEMMA MapInner ==
    ASSUME NEW meta, IsShallow(meta), NEW begin \in Nat, NEW end \in Nat, end > MaxNode,
           NEW f, IsRange(meta, begin, end, f),
           NEW E, IsEntries(E), NEW J, IsSplit(E, begin, J), NEW pos \in 0 .. MaxNode,
           NEW cut, IsInner(meta, meta[pos], E, cut),
           NEW m \in 0 .. Entries(meta[pos]) - 1, cut[m] <= J, J <= cut[m + 1]
    PROVE  Takes(f[<<pos, m, <<>>>>], E, J, J, Len(E))
<1> DEFINE node == meta[pos]
           n == Entries(node)
           C(k) == cut[k]
           Meets(k) == k < n => J <= C(k + 1)
           Good(k) == \A q : IsRuns(q, E, J, Further(C(k), J)) => Takes(f[<<pos, k, Bytes(q)>>], E, J, J, Len(E))
           T == {d \in 0 .. n : n - d >= m /\ Meets(n - d) /\ ~ Good(n - d)}
           R(y) == RangeRound(meta, begin, end, f, y)
<1>0. /\ Len(E) \in Nat /\ MaxNode \in Nat /\ J \in 0 .. Len(E) /\ n \in 1 .. MaxNode /\ n \in Nat
      /\ node.internal = TRUE /\ m \in 0 .. n - 1 /\ m \in Nat
  BY BoundsAssumption DEF IsEntries, IsSplit, IsInner
<1>1. /\ C(0) = 0 /\ C(n) = Len(E)
      /\ \A a \in 0 .. n : C(a) \in 0 .. Len(E)
      /\ \A a, b \in 0 .. n : a < b => C(a) < C(b)
  BY DEF IsInner
<1>2. \A y \in Ranges : f[y] = R(y)
  <2>1. f = [y \in Ranges |-> R(y)]
    BY DEF IsRange
  <2> HIDE DEF R
  <2> QED
    BY <2>1
<1>3. ASSUME NEW k \in 0 .. n, NEW q, IsRuns(q, E, J, Further(C(k), J))
      PROVE  /\ q \in Seq(Run) /\ Bytes(q) \in Seq(Mapped) /\ Len(Bytes(q)) = Len(q)
             /\ Further(C(k), J) \in J .. Len(E)
             /\ f[<<pos, k, Bytes(q)>>] =
                  IF k >= n THEN Bytes(q)
                  ELSE LET child == node.values[k + 1] IN
                       IF Len(q) # ExtentRoom /\ child < end
                       THEN f[<<pos, k + 1, f[<<child, FirstIndex(meta[child], begin), Bytes(q)>>]>>]
                       ELSE Bytes(q)
  <2>1. q \in Seq(Run) /\ Bytes(q) \in Seq(Mapped) /\ Len(Bytes(q)) = Len(q)
    BY <1>3, BytesAreMapped DEF IsRuns
  <2>2. Further(C(k), J) \in J .. Len(E)
    <3>1. C(k) \in 0 .. Len(E)
      BY <1>1
    <3> HIDE DEF C
    <3> QED
      BY <1>0, <3>1 DEF Further
  <2> DEFINE x == <<pos, k, Bytes(q)>>
  <2>3. x \in Ranges /\ x[1] = pos /\ x[2] = k /\ x[3] = Bytes(q)
    <3>1. k \in 0 .. MaxNode
      BY <1>0
    <3> QED
      BY <2>1, <3>1 DEF Ranges
  <2>4. f[x] = R(x)
    BY <1>2, <2>3
  <2> HIDE DEF x
  <2>5. R(x) = IF k >= n THEN Bytes(q)
               ELSE LET child == node.values[k + 1] IN
                    IF Len(q) # ExtentRoom /\ child < end
                    THEN f[<<pos, k + 1, f[<<child, FirstIndex(meta[child], begin), Bytes(q)>>]>>]
                    ELSE Bytes(q)
    BY <1>0, <2>1, <2>3 DEF RangeRound
  <2> QED
    BY <2>1, <2>2, <2>4, <2>5 DEF x
<1>4. ASSUME NEW k \in 0 .. n, NEW q, NEW hi \in J .. Len(E), IsRuns(q, E, J, hi), Len(q) = ExtentRoom
      PROVE  Takes(f[<<pos, k, Bytes(q)>>], E, J, J, Len(E))
  <2>1. q \in Seq(Run) /\ Bytes(q) \in Seq(Mapped) /\ Len(Bytes(q)) = Len(q)
    BY <1>4, BytesAreMapped DEF IsRuns
  <2> DEFINE x == <<pos, k, Bytes(q)>>
  <2>2. x \in Ranges /\ x[1] = pos /\ x[2] = k /\ x[3] = Bytes(q)
    <3>1. k \in 0 .. MaxNode
      BY <1>0
    <3> QED
      BY <2>1, <3>1 DEF Ranges
  <2>3. f[x] = R(x)
    BY <1>2, <2>2
  <2> HIDE DEF x
  <2>4. R(x) = Bytes(q)
    BY <1>0, <1>4, <2>1, <2>2 DEF RangeRound
  <2> QED
    BY <1>4, <2>3, <2>4 DEF x, Takes
<1>5. ASSUME NEW q, IsRuns(q, E, J, Further(C(n), J)) PROVE Takes(f[<<pos, n, Bytes(q)>>], E, J, J, Len(E))
  <2>0. n \in 0 .. n /\ n >= n
    BY <1>0
  <2>1. f[<<pos, n, Bytes(q)>>] = Bytes(q)
    BY <1>3, <1>5, <2>0
  <2>2. Further(C(n), J) = Len(E) /\ Len(E) \in J .. Len(E)
    BY <1>0, <1>1 DEF Further
  <2>3. IsRuns(q, E, J, Len(E))
    BY <1>5, <2>2
  <2> QED
    BY <2>1, <2>2, <2>3 DEF Takes
<1>6. ASSUME NEW k \in 0 .. n - 1, J <= C(k + 1), Good(k + 1) PROVE Good(k)
  <2> SUFFICES ASSUME NEW q, IsRuns(q, E, J, Further(C(k), J))
               PROVE  Takes(f[<<pos, k, Bytes(q)>>], E, J, J, Len(E))
    OBVIOUS
  <2> DEFINE child == node.values[k + 1]
             o == f[<<child, FirstIndex(meta[child], begin), Bytes(q)>>]
             goal == Takes(f[<<pos, k, Bytes(q)>>], E, J, J, Len(E))
  <2>1. k \in 0 .. n /\ k + 1 \in 1 .. n /\ k + 1 \in 0 .. n /\ ~ (k >= n) /\ k + 1 - 1 = k
    BY <1>0
  <2>2. CASE Len(q) = ExtentRoom
    <3>1. Further(C(k), J) \in J .. Len(E)
      BY <1>3, <2>1
    <3> QED
      BY <1>4, <2>1, <2>2, <3>1
  <2>3. CASE Len(q) # ExtentRoom
    <3>1. child \in 0 .. MaxNode /\ IsPart(meta[child], E, C(k), C(k + 1))
      <4> DEFINE j == k + 1
      <4>1. j \in 1 .. n /\ j - 1 = k
        BY <2>1
      <4> HIDE DEF j
      <4>2. node.values[j] \in 0 .. MaxNode /\ IsPart(meta[node.values[j]], E, C(j - 1), C(j))
        BY <4>1 DEF IsInner
      <4> QED
        BY <4>1, <4>2 DEF j
    <3>2. child < end
      <4> HIDE DEF child
      <4> QED
        BY <1>0, <3>1
    <3>3. f[<<pos, k, Bytes(q)>>] = f[<<pos, k + 1, o>>]
      <4> HIDE DEF n
      <4> QED
        BY <1>3, <2>1, <2>3, <3>2
    <3>4. C(k) \in 0 .. Len(E) /\ C(k + 1) \in C(k) .. Len(E)
      <4>1. C(k) < C(k + 1) /\ C(k) \in 0 .. Len(E) /\ C(k + 1) \in 0 .. Len(E)
        <5>1. k < k + 1
          OBVIOUS
        <5> QED
          BY <1>1, <2>1, <5>1
      <4> HIDE DEF C
      <4> QED
        BY <1>0, <4>1
    <3>5. Takes(o, E, J, Further(C(k), J), C(k + 1))
      <4> HIDE DEF C, child
      <4> QED
        BY <1>6, <3>1, <3>4, MapLeaf
    <3> DEFINE least == Further(C(k), J)
               most == C(k + 1)
    <3>10. PICK hi \in least .. most :
             \E s : IsRuns(s, E, J, hi) /\ o = Bytes(s) /\ (hi = most \/ Len(s) = ExtentRoom)
      BY <3>5, Zenon DEF Takes
    <3>6. PICK s : IsRuns(s, E, J, hi) /\ o = Bytes(s) /\ (hi = most \/ Len(s) = ExtentRoom)
      BY <3>10
    <3>7. least \in J .. Len(E) /\ most \in Nat /\ most <= Len(E) /\ J <= most
      <4>1. least \in J .. Len(E)
        BY <1>3, <2>1
      <4>2. most \in Nat /\ most <= Len(E) /\ J <= most
        <5> HIDE DEF C
        <5> QED
          BY <1>0, <1>6, <3>4
      <4> QED
        BY <4>1, <4>2
    <3>8. CASE Len(s) = ExtentRoom
      <4>1. hi \in J .. Len(E)
        <5> HIDE DEF least, most
        <5> QED
          BY <1>0, <3>7
      <4>2. Takes(f[<<pos, k + 1, Bytes(s)>>], E, J, J, Len(E))
        BY <1>4, <2>1, <3>6, <3>8, <4>1
      <4> QED
        BY <3>3, <3>6, <4>2
    <3>9. CASE hi = most
      <4>1. Further(C(k + 1), J) = most
        <5> HIDE DEF C
        <5> QED
          BY <1>0, <1>6, <3>4, <3>7 DEF Further
      <4>2. IsRuns(s, E, J, Further(C(k + 1), J))
        BY <3>6, <3>9, <4>1
      <4>3. Takes(f[<<pos, k + 1, Bytes(s)>>], E, J, J, Len(E))
        BY <1>6, <4>2
      <4> QED
        BY <3>3, <3>6, <4>3
    <3> QED
      BY <3>6, <3>8, <3>9
  <2> QED
    BY <2>2, <2>3
<1>7. Good(n)
  BY <1>5
<1>8. ASSUME NEW k \in 0 .. n, Meets(k), k < n PROVE Meets(k + 1)
  <2>1. J <= C(k + 1) /\ k + 1 \in 0 .. n
    BY <1>0, <1>8
  <2>2. k + 1 < n => C(k + 1) < C((k + 1) + 1) /\ C(k + 1) \in Nat /\ C((k + 1) + 1) \in Nat
    <3> SUFFICES ASSUME k + 1 < n
                 PROVE  C(k + 1) < C((k + 1) + 1) /\ C(k + 1) \in Nat /\ C((k + 1) + 1) \in Nat
      OBVIOUS
    <3>1. (k + 1) + 1 \in 0 .. n /\ k + 1 < (k + 1) + 1
      BY <1>0, <2>1
    <3>2. C(k + 1) < C((k + 1) + 1)
      BY <1>1, <2>1, <3>1
    <3>3. C(k + 1) \in 0 .. Len(E) /\ C((k + 1) + 1) \in 0 .. Len(E)
      BY <1>1, <2>1, <3>1
    <3> QED
      BY <1>0, <3>2, <3>3
  <2> HIDE DEF C
  <2> QED
    BY <1>0, <2>1, <2>2
<1> HIDE DEF Good
<1>9. T = {}
  <2> SUFFICES ASSUME T # {} PROVE FALSE
    OBVIOUS
  <2>1. PICK d \in T : \A y \in T : d <= y
    <3>1. T \subseteq Nat
      BY <1>0
    <3> HIDE DEF T
    <3> QED
      BY <3>1, LeastOf
  <2>2. d \in 0 .. n /\ n - d >= m /\ Meets(n - d) /\ ~ Good(n - d)
    BY <2>1
  <2> HIDE DEF n
  <2>3. d # 0
    <3>1. d = 0 => n - d = n
      BY <1>0
    <3> QED
      BY <1>7, <2>2, <3>1
  <2> DEFINE k == n - d
  <2>4. /\ d - 1 \in 0 .. n /\ ~ (d <= d - 1) /\ n - (d - 1) = k + 1
        /\ k \in 0 .. n - 1 /\ k \in 0 .. n /\ k < n /\ k + 1 >= m
    BY <1>0, <2>2, <2>3
  <2> HIDE DEF k
  <2>5. Meets(k) /\ ~ Good(k)
    BY <2>2 DEF k
  <2>6. Meets(k + 1)
    <3> HIDE DEF Meets
    <3> QED
      BY <1>8, <2>4, <2>5
  <2>7. d - 1 \notin T
    BY <2>1, <2>4
  <2>8. Good(k + 1)
    <3> HIDE DEF Meets
    <3> QED
      BY <2>4, <2>6, <2>7
  <2>9. J <= C(k + 1)
    BY <2>4, <2>5
  <2> QED
    BY <1>6, <2>4, <2>5, <2>8, <2>9
<1>10. n - m \in 0 .. n /\ n - (n - m) = m /\ n - (n - m) >= m /\ m \in 0 .. n /\ Meets(m)
  BY <1>0
<1>11. Good(m)
  <2>1. n - m \notin T
    BY <1>9
  <2> HIDE DEF n, Meets
  <2> QED
    BY <1>10, <2>1
<1>12. IsRuns(<<>>, E, J, Further(C(m), J))
  <2>1. Further(C(m), J) = J
    <3>1. C(m) \in 0 .. Len(E) /\ C(m) <= J
      BY <1>1, <1>10
    <3> HIDE DEF C
    <3> QED
      BY <1>0, <3>1 DEF Further
  <2>2. J \in Nat
    BY <1>0
  <2> HIDE DEF C
  <2> QED
    BY <2>1, <2>2, NoRuns
<1>13. Bytes(<<>>) = <<>>
  BY NoBytes
<1> QED
  BY <1>11, <1>12, <1>13 DEF Good

\* What fdmt_mapAddressRange gives for a tree: the runs of its entries from
\* "begin" on.
LEMMA MapTakes ==
    ASSUME NEW meta, IsShallow(meta), NEW begin \in Nat, NEW end \in Nat, end > MaxNode,
           NEW E, NEW pos, IsTree(meta, pos, E), NEW J, IsSplit(E, begin, J)
    PROVE  Takes(fdmt_mapAddressRange(meta, pos, begin, end), E, J, J, Len(E))
<1> DEFINE f == CHOOSE f : IsRange(meta, begin, end, f)
           k == FirstIndex(meta[pos], begin)
<1>1. IsRange(meta, begin, end, f)
  BY RangeExists
<1>2. fdmt_mapAddressRange(meta, pos, begin, end) = f[<<pos, k, <<>>>>]
  BY MapIsRange
<1> HIDE DEF f
<1>3. IsEntries(E) /\ pos \in 0 .. MaxNode /\ Len(E) \in Nat /\ J \in 0 .. Len(E)
  BY DEF IsTree, IsEntries, IsSplit
<1>4. CASE IsPart(meta[pos], E, 0, Len(E))
  <2>1. Further(0, J) = J /\ 0 \in 0 .. Len(E) /\ Len(E) \in 0 .. Len(E) /\ J <= Len(E) /\ J \in Nat
    BY <1>3 DEF Further
  <2>2. IsRuns(<<>>, E, J, Further(0, J))
    BY <2>1, NoRuns
  <2>3. Takes(f[<<pos, k, Bytes(<<>>)>>], E, J, Further(0, J), Len(E))
    BY <1>1, <1>3, <1>4, <2>1, <2>2, MapLeaf
  <2>4. Bytes(<<>>) = <<>>
    BY NoBytes
  <2> QED
    BY <1>2, <2>1, <2>3, <2>4
<1>5. ASSUME NEW cut, IsInner(meta, meta[pos], E, cut)
      PROVE  Takes(fdmt_mapAddressRange(meta, pos, begin, end), E, J, J, Len(E))
  <2>1. k \in 0 .. Entries(meta[pos]) - 1 /\ cut[k] <= J /\ J <= cut[k + 1]
    BY <1>3, <1>5, InnerBegins
  <2> HIDE DEF k
  <2>2. Takes(f[<<pos, k, <<>>>>], E, J, J, Len(E))
    BY <1>1, <1>3, <1>5, <2>1, MapInner
  <2> QED
    BY <1>2, <2>2
<1> QED
  BY <1>4, <1>5 DEF IsTree
------------------------------------------------------------------------------
LEMMA SizesAreNat ==
    /\ Volumes \in Nat /\ Blocks \in Nat /\ NodesPerTree \in Nat \ {0}
    /\ Volumes < NodesPerTree /\ Blocks < NodesPerTree
    /\ MaxNode \in Nat /\ MaxNode = (Volumes + 1) * NodesPerTree - 1 /\ NodesPerTree <= MaxNode + 1
<1>1. Volumes \in Nat /\ Blocks \in Nat /\ NodesPerTree = Blocks + Volumes + 1 /\ MaxNode \in Nat
  BY SizesAssumption, BoundsAssumption DEF NodesPerTree
<1>2. MaxNode = (Volumes + 1) * NodesPerTree - 1
  BY SizesAssumption
<1> DEFINE s == NodesPerTree
<1>3. s \in Nat
  BY <1>1
<1> HIDE DEF s
<1>4. (Volumes + 1) * s = Volumes * s + s /\ Volumes * s \in Nat
  BY <1>1, <1>3
<1> QED
  BY <1>1, <1>2, <1>4 DEF s

\* The first n blocks of a mapping, as the entries of a tree.
IsMappedUpTo(f, n, s) ==
    /\ s \in Seq(Nat \X Nat)
    /\ Len(s) <= n
    /\ \A j \in 1 .. Len(s) :
         s[j][1] \in 0 .. n - 1 /\ f[s[j][1]] # Nothing /\ s[j][2] = f[s[j][1]] * TimeSize + 1
    /\ \A j, k \in 1 .. Len(s) : j < k => s[j][1] < s[k][1]
    /\ \A b \in 0 .. n - 1 : f[b] # Nothing => \E j \in 1 .. Len(s) : s[j][1] = b

MappedStep(f, g, n) ==
    IF n = 0 THEN <<>>
    ELSE IF f[n - 1] = Nothing THEN g[n - 1]
    ELSE Append(g[n - 1], <<n - 1, f[n - 1] * TimeSize + 1>>)

LEMMA MappedOfIsSteps ==
    ASSUME NEW f
    PROVE  MappedOf(f) = (CHOOSE g : g = [n \in 0 .. Blocks |-> MappedStep(f, g, n)])[Blocks]
BY DEF MappedOf, MappedStep

LEMMA ValueIsNat ==
    ASSUME NEW x \in Nat
    PROVE  x * TimeSize + 1 \in Nat
BY TimeSizeIsPositive

LEMMA MappedExists ==
    ASSUME NEW f \in Mapping
    PROVE  \E g : g = [n \in 0 .. Blocks |-> MappedStep(f, g, n)]
<1> DEFINE D == 0 .. Blocks
           Q == Seq(Nat \X Nat)
           R(g, n) == MappedStep(f, g, n)
           mu == [n \in D |-> n]
           S == [g \in [D -> Q] |-> [n \in D |-> R(g, n)]]
<1>0. Blocks \in Nat
  BY SizesAreNat
<1>1. mu \in [D -> 0 .. Blocks] /\ \A n \in D : mu[n] = n
  OBVIOUS
<1> HIDE DEF mu
<1>2. ASSUME NEW g \in [D -> Q], NEW h \in [D -> Q], NEW n \in D, \A y \in D : mu[y] < mu[n] => g[y] = h[y]
      PROVE  R(g, n) \in Q /\ R(g, n) = R(h, n)
  <2>1. CASE n = 0
    BY <2>1 DEF MappedStep
  <2>2. CASE n # 0
    <3>1. n - 1 \in D /\ n - 1 < n /\ n - 1 \in Block
      BY <1>0, <2>2 DEF Block
    <3>2. g[n - 1] = h[n - 1] /\ g[n - 1] \in Q
      BY <1>1, <1>2, <3>1
    <3>3. f[n - 1] # Nothing => f[n - 1] \in Nat
      BY <3>1, SizesAssumption DEF Mapping
    <3>4. f[n - 1] # Nothing => <<n - 1, f[n - 1] * TimeSize + 1>> \in Nat \X Nat
      <4> DEFINE w == f[n - 1] * TimeSize + 1
      <4>1. f[n - 1] # Nothing => w \in Nat
        BY <3>3, ValueIsNat
      <4>2. n - 1 \in Nat
        BY <1>0, <3>1
      <4> HIDE DEF w
      <4>3. f[n - 1] # Nothing => <<n - 1, w>> \in Nat \X Nat
        BY <4>1, <4>2
      <4> QED
        BY <4>3 DEF w
    <3>5. f[n - 1] # Nothing => Append(g[n - 1], <<n - 1, f[n - 1] * TimeSize + 1>>) \in Q
      BY <3>2, <3>4
    <3> HIDE DEF Q
    <3> QED
      BY <2>2, <3>2, <3>5 DEF MappedStep
  <2> QED
    BY <2>1, <2>2
<1> HIDE DEF R, D
<1>3. \A g, h \in [D -> Q], n \in D : (\A y \in D : mu[y] < mu[n] => g[y] = h[y]) => R(g, n) = R(h, n)
  <2> SUFFICES ASSUME NEW g \in [D -> Q], NEW h \in [D -> Q], NEW n \in D,
                      \A y \in D : mu[y] < mu[n] => g[y] = h[y]
               PROVE  R(g, n) = R(h, n)
    OBVIOUS
  <2> HIDE DEF Q
  <2> QED
    BY <1>2
<1>4. \A g \in [D -> Q], n \in D : R(g, n) \in Q
  BY <1>2
<1>5. S \in [[D -> Q] -> [D -> Q]] /\ \A g \in [D -> Q] : S[g] = [n \in D |-> R(g, n)]
  BY <1>4
<1> HIDE DEF S
<1>6. \A g, h \in [D -> Q], n \in D : (\A y \in D : mu[y] < mu[n] => g[y] = h[y]) => S[g][n] = S[h][n]
  <2> SUFFICES ASSUME NEW g \in [D -> Q], NEW h \in [D -> Q], NEW n \in D,
                      \A y \in D : mu[y] < mu[n] => g[y] = h[y]
               PROVE  S[g][n] = S[h][n]
    OBVIOUS
  <2>1. S[g][n] = R(g, n) /\ S[h][n] = R(h, n)
    <3>1. S[g] = [z \in D |-> R(g, z)] /\ S[h] = [z \in D |-> R(h, z)]
      BY <1>5
    <3> HIDE DEF D
    <3> QED
      BY <3>1
  <2> QED
    BY <1>3, <2>1
<1>7. PICK g \in [D -> Q] : g = S[g]
  <2>1. Q # {}
    <3>1. <<>> \in Q
      OBVIOUS
    <3> QED
      BY <3>1
  <2>2. GoesDown(D, Q, Blocks, mu, S)
    <3> HIDE DEF Q
    <3> QED
      BY <1>0, <1>1, <1>5, <1>6, <2>1 DEF GoesDown
  <2> HIDE DEF Q
  <2> QED
    BY <2>2, RecursionExists
<1>8. g = [n \in D |-> R(g, n)]
  BY <1>5, <1>7
<1> QED
  BY <1>8 DEF R, D

LEMMA MappedGrows ==
    ASSUME NEW f \in Mapping, NEW n \in 1 .. Blocks, NEW s, IsMappedUpTo(f, n - 1, s)
    PROVE  IsMappedUpTo(f, n, IF f[n - 1] = Nothing THEN s
                              ELSE Append(s, <<n - 1, f[n - 1] * TimeSize + 1>>))
<1>0. Blocks \in Nat /\ n - 1 \in Nat /\ n \in Nat /\ n - 1 \in Block /\ s \in Seq(Nat \X Nat) /\ Len(s) \in Nat
  BY SizesAreNat DEF Block, IsMappedUpTo
<1>1. /\ Len(s) <= n - 1
      /\ \A j \in 1 .. Len(s) :
           s[j][1] \in 0 .. n - 2 /\ f[s[j][1]] # Nothing /\ s[j][2] = f[s[j][1]] * TimeSize + 1
      /\ \A j, k \in 1 .. Len(s) : j < k => s[j][1] < s[k][1]
      /\ \A b \in 0 .. n - 2 : f[b] # Nothing => \E j \in 1 .. Len(s) : s[j][1] = b
  <2>1. n - 1 - 1 = n - 2
    BY <1>0
  <2> QED
    BY <2>1 DEF IsMappedUpTo
<1>2. \A b \in 0 .. n - 1 : b = n - 1 \/ b \in 0 .. n - 2
  BY <1>0
<1>3. CASE f[n - 1] = Nothing
  <2>1. \A j \in 1 .. Len(s) : s[j][1] \in 0 .. n - 1
    BY <1>0, <1>1
  <2>2. Len(s) <= n
    BY <1>0, <1>1
  <2>3. \A b \in 0 .. n - 1 : f[b] # Nothing => \E j \in 1 .. Len(s) : s[j][1] = b
    BY <1>1, <1>2, <1>3
  <2>4. IsMappedUpTo(f, n, s)
    BY <1>0, <1>1, <2>1, <2>2, <2>3 DEF IsMappedUpTo
  <2> QED
    BY <1>3, <2>4
<1>4. CASE f[n - 1] # Nothing
  <2> DEFINE e == <<n - 1, f[n - 1] * TimeSize + 1>>
             t == Append(s, e)
             m == Len(s)
  <2>0. m \in Nat /\ m <= n - 1
    BY <1>0, <1>1
  <2>1. e \in Nat \X Nat /\ e[1] = n - 1 /\ e[2] = f[n - 1] * TimeSize + 1
    <3>1. f[n - 1] \in Nat
      BY <1>0, <1>4, SizesAssumption DEF Mapping
    <3> DEFINE w == f[n - 1] * TimeSize + 1
    <3>2. w \in Nat
      BY <3>1, ValueIsNat
    <3> HIDE DEF w
    <3>3. <<n - 1, w>> \in Nat \X Nat
      BY <1>0, <3>2
    <3> QED
      BY <3>3 DEF w
  <2> HIDE DEF e
  <2>2. t \in Seq(Nat \X Nat) /\ Len(t) = m + 1 /\ t[m + 1] = e /\ \A j \in 1 .. m : t[j] = s[j]
    BY <1>0, <2>1
  <2> HIDE DEF t
  <2>3. m + 1 \in 1 .. m + 1 /\ (\A j \in 1 .. m + 1 : j = m + 1 \/ j \in 1 .. m) /\ 1 .. m \subseteq 1 .. m + 1
    BY <1>0
  <2>4. m + 1 <= n
    BY <1>0, <1>1
  <2>5. \A j \in 1 .. m + 1 :
          t[j][1] \in 0 .. n - 1 /\ f[t[j][1]] # Nothing /\ t[j][2] = f[t[j][1]] * TimeSize + 1
    <3> SUFFICES ASSUME NEW j \in 1 .. m + 1
                 PROVE  t[j][1] \in 0 .. n - 1 /\ f[t[j][1]] # Nothing /\ t[j][2] = f[t[j][1]] * TimeSize + 1
      OBVIOUS
    <3>1. CASE j = m + 1
      BY <1>0, <1>4, <2>1, <2>2, <3>1
    <3>2. CASE j \in 1 .. m
      <4>1. t[j] = s[j] /\ s[j][1] \in 0 .. n - 2 /\ f[s[j][1]] # Nothing /\ s[j][2] = f[s[j][1]] * TimeSize + 1
        BY <1>1, <2>2, <3>2
      <4>2. 0 .. n - 2 \subseteq 0 .. n - 1
        BY <1>0
      <4> QED
        BY <4>1, <4>2
    <3> QED
      BY <2>3, <3>1, <3>2
  <2>6. \A j, k \in 1 .. m + 1 : j < k => t[j][1] < t[k][1]
    <3> SUFFICES ASSUME NEW j \in 1 .. m + 1, NEW k \in 1 .. m + 1, j < k PROVE t[j][1] < t[k][1]
      OBVIOUS
    <3>0. j \in 1 .. m
      <4> HIDE DEF m
      <4> QED
        BY <2>0
    <3>1. t[j] = s[j] /\ s[j][1] \in 0 .. n - 2
      BY <1>1, <2>2, <3>0
    <3>2. CASE k = m + 1
      <4>1. t[k][1] = n - 1
        BY <2>1, <2>2, <3>2
      <4>2. t[j][1] \in 0 .. n - 2
        BY <3>1
      <4> QED
        BY <1>0, <4>1, <4>2
    <3>3. CASE k \in 1 .. m
      <4>1. t[k] = s[k] /\ s[j][1] < s[k][1]
        BY <1>1, <2>2, <3>0, <3>3
      <4> QED
        BY <3>1, <4>1
    <3> QED
      BY <2>3, <3>2, <3>3
  <2>7. \A b \in 0 .. n - 1 : f[b] # Nothing => \E j \in 1 .. m + 1 : t[j][1] = b
    <3> SUFFICES ASSUME NEW b \in 0 .. n - 1, f[b] # Nothing PROVE \E j \in 1 .. m + 1 : t[j][1] = b
      OBVIOUS
    <3>1. CASE b = n - 1
      BY <2>1, <2>2, <2>3, <3>1
    <3>2. CASE b \in 0 .. n - 2
      <4>1. PICK j \in 1 .. m : s[j][1] = b
        BY <1>1, <3>2
      <4> QED
        BY <2>2, <2>3, <4>1
    <3> QED
      BY <1>2, <3>1, <3>2
  <2>8. IsMappedUpTo(f, n, t)
    BY <2>2, <2>4, <2>5, <2>6, <2>7 DEF IsMappedUpTo
  <2> QED
    BY <1>4, <2>8 DEF t, e
<1> QED
  BY <1>3, <1>4

LEMMA MappedOfIsMapped ==
    ASSUME NEW f \in Mapping
    PROVE  IsMappedUpTo(f, Blocks, MappedOf(f))
<1> DEFINE g == CHOOSE g : g = [n \in 0 .. Blocks |-> MappedStep(f, g, n)]
           R(n) == MappedStep(f, g, n)
           T == {n \in 0 .. Blocks : ~ IsMappedUpTo(f, n, g[n])}
<1>0. Blocks \in Nat
  BY SizesAreNat
<1>1. g = [n \in 0 .. Blocks |-> R(n)]
  BY MappedExists
<1>2. MappedOf(f) = g[Blocks]
  BY MappedOfIsSteps
<1> HIDE DEF g
<1>3. \A n \in 0 .. Blocks : g[n] = R(n)
  <2> HIDE DEF R
  <2> QED
    BY <1>1
<1>4. T = {}
  <2> SUFFICES ASSUME T # {} PROVE FALSE
    OBVIOUS
  <2>1. PICK n \in T : \A y \in T : n <= y
    <3>1. T \subseteq Nat
      BY <1>0
    <3> HIDE DEF T
    <3> QED
      BY <3>1, LeastOf
  <2>2. n \in 0 .. Blocks /\ ~ IsMappedUpTo(f, n, g[n]) /\ g[n] = R(n)
    BY <1>3, <2>1
  <2>3. CASE n = 0
    <3>1. g[n] = <<>>
      BY <2>2, <2>3 DEF MappedStep
    <3>2. IsMappedUpTo(f, 0, <<>>)
      BY DEF IsMappedUpTo
    <3> QED
      BY <2>2, <2>3, <3>1, <3>2
  <2>4. CASE n # 0
    <3>1. n \in 1 .. Blocks /\ n - 1 \in 0 .. Blocks /\ ~ (n <= n - 1)
      BY <1>0, <2>2, <2>4
    <3>2. n - 1 \notin T
      BY <2>1, <3>1
    <3>3. IsMappedUpTo(f, n - 1, g[n - 1])
      BY <3>1, <3>2
    <3>4. g[n] = IF f[n - 1] = Nothing THEN g[n - 1] ELSE Append(g[n - 1], <<n - 1, f[n - 1] * TimeSize + 1>>)
      BY <2>2, <2>4 DEF MappedStep
    <3>5. IsMappedUpTo(f, n, g[n])
      BY <3>1, <3>3, <3>4, MappedGrows
    <3> QED
      BY <2>2, <3>5
  <2> QED
    BY <2>3, <2>4
<1>5. Blocks \notin T /\ Blocks \in 0 .. Blocks
  BY <1>0, <1>4
<1> QED
  BY <1>2, <1>5
------------------------------------------------------------------------------
CutAt(len, room, k) == IF k * room < len THEN k * room ELSE len
LeavesOf(len, room) == (len + room - 1) \div room

LEMMA Products ==
    ASSUME NEW a \in Nat, NEW b \in Nat, NEW room \in Nat \ {0}
    PROVE  /\ a * room \in Nat
           /\ a < b => a * room < b * room
           /\ a <= b => a * room <= b * room
           /\ (a + 1) * room = a * room + room
<1>1. a * room \in Nat /\ b * room \in Nat /\ (a + 1) * room = a * room + room
  OBVIOUS
<1>2. ASSUME a < b PROVE a * room < b * room
  <2> DEFINE d == b - a
  <2>1. d \in Nat /\ d >= 1 /\ b = a + d
    BY <1>2
  <2> HIDE DEF d
  <2>2. b * room = a * room + d * room
    BY <2>1
  <2>3. d * room >= room
    BY <2>1
  <2>4. d * room \in Nat
    BY <2>1
  <2> QED
    BY <1>1, <2>2, <2>3, <2>4
<1>3. ASSUME a <= b PROVE a * room <= b * room
  <2>1. a = b \/ a < b
    BY <1>3
  <2> QED
    BY <1>1, <1>2, <2>1
<1> QED
  BY <1>1, <1>2, <1>3

LEMMA CutsAscend ==
    ASSUME NEW len \in Nat, NEW room \in Nat \ {0}, NEW a \in Nat, NEW b \in Nat, a <= b
    PROVE  /\ CutAt(len, room, a) \in 0 .. len
           /\ CutAt(len, room, b) \in 0 .. len
           /\ CutAt(len, room, a) <= CutAt(len, room, b)
           /\ a < b /\ a * room < len => CutAt(len, room, a) < CutAt(len, room, b)
<1> DEFINE x == a * room
           y == b * room
<1>1. x \in Nat /\ y \in Nat /\ x <= y /\ (a < b => x < y)
  BY Products
<1>2. CutAt(len, room, a) = (IF x < len THEN x ELSE len) /\ CutAt(len, room, b) = (IF y < len THEN y ELSE len)
  BY DEF CutAt
<1>3. (a < b /\ a * room < len) <=> (a < b /\ x < len)
  OBVIOUS
<1> HIDE DEF x, y
<1> QED
  BY <1>1, <1>2, <1>3

\* With q leaves there is room for all entries, and with q - 1 there is not.
LEMMA LeavesAreEnough ==
    ASSUME NEW len \in Nat, NEW room \in Nat \ {0}, NEW q, q = LeavesOf(len, room)
    PROVE  /\ q \in Nat /\ q <= len
           /\ len <= q * room
           /\ \A a \in Nat : a < q => a * room < len
<1>1. len + room - 1 \in Nat
  OBVIOUS
<1>2. q \in Nat /\ q * room <= len + room - 1 /\ len + room - 1 < (q + 1) * room
  BY <1>1 DEF LeavesOf
<1> DEFINE x == q * room
<1>3. x \in Nat /\ (q + 1) * room = x + room
  BY <1>2, Products
<1>4. len <= x /\ x <= len + room - 1
  <2> HIDE DEF x
  <2> QED
    BY <1>2, <1>3 DEF x
<1>5. ASSUME NEW a \in Nat, a < q PROVE a * room < len
  <2> DEFINE y == a * room
  <2>1. a + 1 <= q /\ a + 1 \in Nat
    BY <1>2, <1>5
  <2>2. (a + 1) * room <= x /\ (a + 1) * room = y + room /\ y \in Nat
    <3>1. (a + 1) * room <= q * room
      BY <1>2, <2>1, Products
    <3>2. (a + 1) * room = a * room + room /\ a * room \in Nat
      BY Products
    <3> QED
      BY <3>1, <3>2
  <2> DEFINE z == (a + 1) * room
  <2>3. z <= x /\ z = y + room
    BY <2>2
  <2> HIDE DEF x, y, z
  <2>4. y < len
    BY <1>3, <1>4, <2>2, <2>3
  <2> QED
    BY <2>4 DEF y
<1>6. q <= len
  <2>1. CASE q = 0
    BY <2>1
  <2>2. CASE q # 0
    <3>1. q - 1 \in Nat /\ q - 1 < q
      BY <1>2, <2>2
    <3>2. (q - 1) * room < len
      BY <1>5, <3>1
    <3>3. q - 1 <= (q - 1) * room
      <4> DEFINE p == q - 1
      <4>1. p \in Nat
        BY <3>1
      <4> HIDE DEF p
      <4>2. p <= p * room
        <5> DEFINE d == room - 1
        <5>1. d \in Nat /\ room = d + 1
          OBVIOUS
        <5> HIDE DEF d
        <5>2. p * room = p * d + p /\ p * d \in Nat
          BY <4>1, <5>1
        <5> QED
          BY <4>1, <5>2
      <4> QED
        BY <4>2 DEF p
    <3>4. (q - 1) * room \in Nat
      BY <3>1, Products
    <3> QED
      BY <1>2, <3>1, <3>2, <3>3, <3>4
  <2> QED
    BY <2>1, <2>2
<1> QED
  BY <1>2, <1>4, <1>5, <1>6

LeafAt(E, lo, hi) ==
    [internal |-> FALSE, keys |-> [j \in 1 .. hi - lo |-> E[lo + j][1]],
     values |-> [j \in 1 .. hi - lo |-> E[lo + j][2]]]

LowestOf(E, k) ==
    IF ~ shape.low THEN E[CutAt(Len(E), shape.room, k - 1) + 1][1]
    ELSE IF k = 1 THEN 0 ELSE E[CutAt(Len(E), shape.room, k - 1)][1] + 1

LEMMA NodeAtIs ==
    ASSUME NEW E, NEW base, NEW n
    PROVE  NodeAt(E, base, n) =
             LET leaves == LeavesOf(Len(E), shape.room) IN
             IF n > 0 THEN LeafAt(E, CutAt(Len(E), shape.room, n - 1), CutAt(Len(E), shape.room, n))
             ELSE IF leaves <= 1 THEN LeafAt(E, 0, Len(E))
             ELSE [internal |-> TRUE, keys |-> [k \in 1 .. leaves |-> LowestOf(E, k)],
                   values |-> [k \in 1 .. leaves |-> base + k]]
BY DEF NodeAt, LeafAt, LowestOf, CutAt, LeavesOf

LEMMA LeafIsPart ==
    ASSUME NEW E, NEW lo \in Nat, NEW hi \in Nat, lo <= hi
    PROVE  IsPart(LeafAt(E, lo, hi), E, lo, hi)
<1> DEFINE keys == [j \in 1 .. hi - lo |-> E[lo + j][1]]
           values == [j \in 1 .. hi - lo |-> E[lo + j][2]]
<1>1. hi - lo \in Nat
  OBVIOUS
<1>2. Len(keys) = hi - lo
  BY <1>1
<1>3. \A j \in 1 .. hi - lo : keys[j] = E[lo + j][1] /\ values[j] = E[lo + j][2]
  OBVIOUS
<1>4. LeafAt(E, lo, hi).internal = FALSE /\ LeafAt(E, lo, hi).keys = keys /\ LeafAt(E, lo, hi).values = values
  BY DEF LeafAt
<1> HIDE DEF keys, values
<1> QED
  BY <1>2, <1>3, <1>4 DEF IsPart, Entries

ShapeIsRight == shape.room \in Nat \ {0} /\ shape.low \in BOOLEAN

LEMMA NodeIsPart ==
    ASSUME ShapeIsRight, NEW E, IsEntries(E), NEW base, NEW n \in Nat \ {0}
    PROVE  IsPart(NodeAt(E, base, n), E, CutAt(Len(E), shape.room, n - 1), CutAt(Len(E), shape.room, n))
<1> DEFINE a == CutAt(Len(E), shape.room, n - 1)
           b == CutAt(Len(E), shape.room, n)
<1>1. a \in Nat /\ b \in Nat /\ a <= b
  <2>1. Len(E) \in Nat /\ shape.room \in Nat \ {0} /\ n - 1 \in Nat /\ n \in Nat /\ n - 1 <= n
    BY DEF IsEntries, ShapeIsRight
  <2> QED
    <3> DEFINE L == Len(E)
               room == shape.room
               m == n - 1
    <3>1. L \in Nat /\ room \in Nat \ {0} /\ m \in Nat /\ m <= n
      BY <2>1
    <3> HIDE DEF L, room, m
    <3>2. CutAt(L, room, m) \in 0 .. L /\ CutAt(L, room, n) \in 0 .. L /\ CutAt(L, room, m) <= CutAt(L, room, n)
      BY <3>1, CutsAscend
    <3>3. CutAt(L, room, m) = a /\ CutAt(L, room, n) = b
      BY DEF L, room, m
    <3> HIDE DEF a, b
    <3> QED
      BY <3>1, <3>2, <3>3
<1>2. NodeAt(E, base, n) = LeafAt(E, a, b)
  <2>1. n > 0
    OBVIOUS
  <2> QED
    BY <2>1, NodeAtIs
<1> HIDE DEF a, b
<1>3. IsPart(LeafAt(E, a, b), E, a, b)
  BY <1>1, LeafIsPart
<1> QED
  BY <1>2, <1>3 DEF a, b

\* The nodes of a tree from base on.
HasTree(meta, base, E) ==
    /\ base \in Nat /\ base + NodesPerTree <= MaxNode + 1
    /\ IsEntries(E) /\ Len(E) < NodesPerTree
    /\ \A n \in 0 .. NodesPerTree - 1 : meta[base + n] = NodeAt(E, base, n)

LEMMA RootIsInner ==
    ASSUME ShapeIsRight, NEW meta, NEW base, NEW E, HasTree(meta, base, E),
           NEW q, q = LeavesOf(Len(E), shape.room), ~ (q <= 1),
           NEW cut, cut = [k \in 0 .. q |-> CutAt(Len(E), shape.room, k)]
    PROVE  /\ IsInner(meta, meta[base], E, cut) /\ Entries(meta[base]) = q
           /\ \A k \in 1 .. q : meta[base].values[k] = base + k
<1> DEFINE L == Len(E)
           room == shape.room
           C(k) == CutAt(L, room, k)
           node == meta[base]
<1>0. L \in Nat /\ room \in Nat \ {0} /\ IsEntries(E) /\ base \in Nat /\ L < NodesPerTree
  BY DEF ShapeIsRight, HasTree, IsEntries
<1>1. q \in Nat /\ q <= L /\ L <= q * room /\ \A a \in Nat : a < q => a * room < L
  <2> HIDE DEF L, room
  <2> QED
    BY <1>0, LeavesAreEnough DEF L, room
<1>2. node = [internal |-> TRUE, keys |-> [k \in 1 .. q |-> LowestOf(E, k)],
              values |-> [k \in 1 .. q |-> base + k]]
  <2>1. node = NodeAt(E, base, 0)
    <3>1. 0 \in 0 .. NodesPerTree - 1 /\ base + 0 = base
      BY <1>0, SizesAreNat
    <3> QED
      BY <3>1 DEF HasTree
  <2> QED
    BY <2>1, NodeAtIs
<1> DEFINE keys == [k \in 1 .. q |-> LowestOf(E, k)]
<1>3. node.internal = TRUE /\ node.keys = keys /\ Len(keys) = q /\ Entries(node) = q
      /\ \A k \in 1 .. q : node.values[k] = base + k /\ node.keys[k] = LowestOf(E, k)
  <2>1. Len(keys) = q
    BY <1>1
  <2>2. node.keys = keys /\ node.internal = TRUE /\ node.values = [k \in 1 .. q |-> base + k]
    BY <1>2
  <2>3. \A k \in 1 .. q : keys[k] = LowestOf(E, k)
    OBVIOUS
  <2> HIDE DEF keys, node
  <2> QED
    BY <2>1, <2>2, <2>3 DEF Entries
<1> HIDE DEF keys
<1>4. \A k \in 0 .. q : C(k) \in 0 .. L /\ cut[k] = C(k)
  <2> HIDE DEF L, room
  <2>1. \A k \in 0 .. q : k \in Nat /\ k <= k
    BY <1>1
  <2>2. \A k \in 0 .. q : C(k) \in 0 .. L
    BY <1>0, <2>1, CutsAscend
  <2>3. \A k \in 0 .. q : cut[k] = C(k)
    BY DEF L, room
  <2> QED
    BY <2>2, <2>3
<1>5. C(0) = 0 /\ C(q) = L
  <2>1. 0 * room = 0
    BY <1>0
  <2>2. ~ (q * room < L)
    <3>1. q * room \in Nat
      BY <1>0, <1>1, Products
    <3> QED
      BY <1>0, <1>1, <3>1
  <2>3. 0 < L
    BY <1>0, <1>1
  <2> HIDE DEF L, room
  <2> QED
    BY <2>1, <2>2, <2>3 DEF CutAt
<1>6. \A a, b \in 0 .. q : a < b => C(a) < C(b)
  <2> SUFFICES ASSUME NEW a \in 0 .. q, NEW b \in 0 .. q, a < b PROVE C(a) < C(b)
    OBVIOUS
  <2>1. a \in Nat /\ b \in Nat /\ a <= b /\ a < q
    BY <1>1
  <2>2. a * room < L
    BY <1>1, <2>1
  <2> HIDE DEF L, room
  <2> QED
    BY <1>0, <2>1, <2>2, CutsAscend
<1>7. ASSUME NEW k \in 1 .. q
      PROVE  /\ node.values[k] \in 0 .. MaxNode
             /\ IsPart(meta[node.values[k]], E, cut[k - 1], cut[k])
             /\ node.keys[k] \in Nat
             /\ node.keys[k] <= E[cut[k - 1] + 1][1]
             /\ k > 1 => node.keys[k] > E[cut[k - 1]][1]
  <2>1. k \in Nat \ {0} /\ k - 1 \in 0 .. q /\ k \in 0 .. q /\ k <= L /\ k \in 0 .. NodesPerTree - 1
    BY <1>0, <1>1, SizesAreNat
  <2>2. node.values[k] = base + k /\ meta[base + k] = NodeAt(E, base, k) /\ base + k \in 0 .. MaxNode
    <3>1. base + NodesPerTree <= MaxNode + 1 /\ meta[base + k] = NodeAt(E, base, k)
      BY <2>1 DEF HasTree
    <3>2. base + k \in 0 .. MaxNode
      BY <1>0, <2>1, <3>1, SizesAreNat
    <3> QED
      BY <1>3, <3>1, <3>2
  <2>3. cut[k - 1] = C(k - 1) /\ cut[k] = C(k)
    BY <1>4, <2>1
  <2>4. IsPart(meta[node.values[k]], E, cut[k - 1], cut[k])
    <3>1. IsPart(NodeAt(E, base, k), E, C(k - 1), C(k))
      BY <1>0, <2>1, NodeIsPart
    <3> QED
      BY <2>2, <2>3, <3>1
  <2> DEFINE x == C(k - 1)
  <2>5. x \in 0 .. L /\ x < C(k) /\ C(k) \in 0 .. L
    <3>1. k - 1 < k
      BY <2>1
    <3> HIDE DEF C
    <3> QED
      BY <1>4, <1>6, <2>1, <3>1
  <2>6. k > 1 => 0 < x
    <3> HIDE DEF C
    <3>1. k > 1 => 0 < k - 1 /\ 0 \in 0 .. q
      BY <1>1, <2>1
    <3> QED
      BY <1>5, <1>6, <2>1, <3>1
  <2>7. node.keys[k] = IF ~ shape.low THEN E[x + 1][1] ELSE IF k = 1 THEN 0 ELSE E[x][1] + 1
    BY <1>3 DEF LowestOf
  <2> DEFINE y == C(k)
  <2>8. y \in 0 .. L /\ x < y
    BY <2>5
  <2> HIDE DEF x, y, L
  <2>9. x + 1 \in 1 .. L /\ (k > 1 => x \in 1 .. L /\ x < x + 1)
    BY <1>0, <2>1, <2>5, <2>6, <2>8
  <2>10. E[x + 1][1] \in Nat /\ (k > 1 => E[x][1] \in Nat /\ E[x][1] < E[x + 1][1])
    <3>1. 1 .. L = 1 .. Len(E)
      BY DEF L
    <3> QED
      BY <1>0, <2>9, <3>1 DEF IsEntries
  <2>11. node.keys[k] \in Nat /\ node.keys[k] <= E[x + 1][1] /\ (k > 1 => node.keys[k] > E[x][1])
    <3> DEFINE e1 == E[x + 1][1]
               e0 == E[x][1]
               key == node.keys[k]
    <3>1. key = (IF ~ shape.low THEN e1 ELSE IF k = 1 THEN 0 ELSE e0 + 1) /\ k \in Nat \ {0}
      BY <2>1, <2>7
    <3>2. e1 \in Nat /\ (k > 1 => e0 \in Nat /\ e0 < e1)
      BY <2>10
    <3> HIDE DEF e1, e0, key
    <3>3. key \in Nat /\ key <= e1 /\ (k > 1 => key > e0)
      <4>1. CASE ~ shape.low
        BY <3>1, <3>2, <4>1
      <4>2. CASE shape.low /\ k = 1
        BY <3>1, <3>2, <4>2
      <4>3. CASE shape.low /\ k # 1
        <5>1. k > 1 /\ key = e0 + 1
          BY <2>1, <3>1, <4>3
        <5> QED
          BY <3>2, <5>1
      <4> QED
        BY <4>1, <4>2, <4>3
    <3> QED
      BY <3>3 DEF e1, e0, key
  <2>12. cut[k - 1] = x
    BY <2>3 DEF x
  <2> HIDE DEF node, C
  <2> QED
    BY <2>2, <2>4, <2>11, <2>12
<1>8. IsInner(meta, node, E, cut)
  <2>1. q \in 1 .. MaxNode
    <3>1. NodesPerTree \in Nat /\ NodesPerTree <= MaxNode + 1 /\ MaxNode \in Nat
      BY SizesAreNat
    <3> HIDE DEF L, room, C
    <3> QED
      BY <1>0, <1>1, <3>1
  <2>2. cut \in [0 .. q -> 0 .. Len(E)] /\ cut[0] = 0 /\ cut[q] = Len(E)
    <3>1. \A k \in 0 .. q : cut[k] \in 0 .. Len(E)
      BY <1>4
    <3>2. cut = [k \in 0 .. q |-> cut[k]]
      OBVIOUS
    <3>3. 0 \in 0 .. q /\ q \in 0 .. q
      BY <1>1
    <3>4. cut[0] = C(0) /\ cut[q] = C(q)
      BY <1>4, <3>3
    <3> HIDE DEF C
    <3>5. cut \in [0 .. q -> 0 .. Len(E)]
      BY <3>1, <3>2
    <3> QED
      BY <1>5, <3>4, <3>5
  <2>3. \A a, b \in 0 .. q : a < b => cut[a] < cut[b]
    <3> HIDE DEF C
    <3> QED
      BY <1>4, <1>6
  <2> HIDE DEF node
  <2> QED
    BY <1>3, <1>7, <2>1, <2>2, <2>3 DEF IsInner
<1> QED
  BY <1>3, <1>8
------------------------------------------------------------------------------
ShallowAt(meta, b) ==
    /\ IsNode(meta[b]) /\ Entries(meta[b]) <= MaxNode /\ meta[b].internal \in BOOLEAN
    /\ IF meta[b].internal
       THEN \A k \in 1 .. Entries(meta[b]) :
              meta[b].values[k] \in 0 .. MaxNode /\ ~ meta[meta[b].values[k]].internal
       ELSE \A k \in 1 .. Entries(meta[b]) : meta[b].keys[k] \in Nat /\ meta[b].values[k] \in Nat

LEMMA PartIsShallow ==
    ASSUME NEW meta, NEW b, NEW E, IsEntries(E), NEW lo \in 0 .. Len(E), NEW hi \in lo .. Len(E),
           IsPart(meta[b], E, lo, hi)
    PROVE  ShallowAt(meta, b)
<1> DEFINE node == meta[b]
<1>1. IsPart(node, E, lo, hi)
  OBVIOUS
<1>2. node.internal = FALSE /\ Entries(node) = hi - lo
  BY <1>1 DEF IsPart
<1>3. hi - lo <= MaxNode
  <2>1. Len(E) \in Nat /\ Len(E) <= MaxNode /\ MaxNode \in Nat
    BY SizesAreNat DEF IsEntries
  <2> QED
    BY <2>1
<1> HIDE DEF node
<1>4. IsNode(node) /\ \A k \in 1 .. Entries(node) : node.keys[k] \in Nat /\ node.values[k] \in Nat
  BY <1>1, PartIsNode
<1> QED
  BY <1>2, <1>3, <1>4 DEF ShallowAt, node

LEMMA TreeStands ==
    ASSUME ShapeIsRight, NEW meta, NEW base, NEW E, HasTree(meta, base, E)
    PROVE  IsTree(meta, base, E) /\ \A n \in 0 .. NodesPerTree - 1 : ShallowAt(meta, base + n)
<1> DEFINE L == Len(E)
           room == shape.room
           q == LeavesOf(L, room)
<1>0. L \in Nat /\ room \in Nat \ {0} /\ IsEntries(E) /\ base \in Nat /\ L < NodesPerTree
      /\ NodesPerTree \in Nat \ {0} /\ base \in 0 .. MaxNode
  <2>1. base + NodesPerTree <= MaxNode + 1
    BY DEF HasTree
  <2>2. L \in Nat /\ room \in Nat \ {0} /\ IsEntries(E) /\ base \in Nat /\ L < NodesPerTree
    BY DEF ShapeIsRight, HasTree, IsEntries
  <2> QED
    BY <2>1, <2>2, SizesAreNat
<1>1. q \in Nat /\ q <= L
  <2> HIDE DEF L, room
  <2> QED
    BY <1>0, LeavesAreEnough
<1>2. ASSUME NEW n \in 0 .. NodesPerTree - 1, n # 0
      PROVE  ShallowAt(meta, base + n) /\ meta[base + n].internal = FALSE
  <2> DEFINE lo == CutAt(Len(E), shape.room, n - 1)
             hi == CutAt(Len(E), shape.room, n)
  <2>1. n \in Nat \ {0} /\ n - 1 \in Nat /\ n - 1 <= n
    BY <1>0, <1>2
  <2>2. meta[base + n] = NodeAt(E, base, n)
    BY DEF HasTree
  <2>3. IsPart(NodeAt(E, base, n), E, lo, hi)
    <3> HIDE DEF L, room
    <3> QED
      BY <1>0, <2>1, NodeIsPart
  <2>4. lo \in 0 .. L /\ hi \in lo .. L
    <3> DEFINE m == n - 1
    <3>1. m \in Nat /\ m <= n /\ n \in Nat
      BY <2>1
    <3> HIDE DEF L, room, m
    <3>2. CutAt(L, room, m) \in 0 .. L /\ CutAt(L, room, n) \in 0 .. L /\ CutAt(L, room, m) <= CutAt(L, room, n)
      BY <1>0, <3>1, CutsAscend
    <3>3. CutAt(L, room, m) = lo /\ CutAt(L, room, n) = hi
      BY DEF L, room, m
    <3> HIDE DEF lo, hi
    <3> QED
      BY <1>0, <3>2, <3>3
  <2>5. lo \in 0 .. Len(E) /\ hi \in lo .. Len(E)
    BY <2>4
  <2> HIDE DEF lo, hi
  <2>6. IsPart(meta[base + n], E, lo, hi)
    BY <2>2, <2>3
  <2> DEFINE b == base + n
  <2>7. IsPart(meta[b], E, lo, hi)
    BY <2>6
  <2>8. meta[b].internal = FALSE
    BY <2>7 DEF IsPart
  <2> HIDE DEF b
  <2>9. ShallowAt(meta, b)
    BY <1>0, <2>5, <2>7, PartIsShallow
  <2> QED
    BY <2>8, <2>9 DEF b
<1>3. CASE q <= 1
  <2>1. meta[base] = NodeAt(E, base, 0)
    <3>1. 0 \in 0 .. NodesPerTree - 1 /\ base + 0 = base
      BY <1>0
    <3> QED
      BY <3>1 DEF HasTree
  <2>2. meta[base] = LeafAt(E, 0, Len(E))
    BY <1>3, <2>1, NodeAtIs
  <2>3. IsPart(LeafAt(E, 0, Len(E)), E, 0, Len(E))
    BY <1>0, LeafIsPart
  <2>4. IsPart(meta[base], E, 0, Len(E))
    BY <2>2, <2>3
  <2>5. 0 \in 0 .. Len(E) /\ Len(E) \in 0 .. Len(E)
    BY <1>0
  <2>6. ShallowAt(meta, base)
    BY <1>0, <2>4, <2>5, PartIsShallow
  <2>7. IsTree(meta, base, E)
    BY <1>0, <2>4 DEF IsTree
  <2>8. ASSUME NEW n \in 0 .. NodesPerTree - 1 PROVE ShallowAt(meta, base + n)
    <3>1. CASE n = 0
      <4>1. base + n = base
        BY <1>0, <3>1
      <4> QED
        BY <2>6, <4>1
    <3> QED
      BY <1>2, <3>1
  <2> QED
    BY <2>7, <2>8
<1>4. CASE ~ (q <= 1)
  <2> DEFINE cut == [k \in 0 .. q |-> CutAt(Len(E), shape.room, k)]
             node == meta[base]
  <2>1. /\ IsInner(meta, node, E, cut) /\ Entries(node) = q
        /\ \A k \in 1 .. q : node.values[k] = base + k
    BY <1>4, RootIsInner
  <2> HIDE DEF cut
  <2>2. IsTree(meta, base, E)
    BY <1>0, <2>1 DEF IsTree
  <2>3. IsNode(node)
    <3> HIDE DEF node
    <3> QED
      BY <1>0, <2>1, InnerIsNode
  <2>4. node.internal = TRUE /\ q <= MaxNode /\ \A k \in 1 .. q : node.values[k] \in 0 .. MaxNode
    BY <2>1 DEF IsInner
  <2>5. ASSUME NEW k \in 1 .. q PROVE meta[node.values[k]].internal = FALSE
    <3>1. k \in 0 .. NodesPerTree - 1 /\ k # 0
      <4> HIDE DEF q, L
      <4> QED
        BY <1>0, <1>1
    <3>2. meta[base + k].internal = FALSE
      BY <1>2, <3>1
    <3> QED
      BY <2>1, <3>2
  <2>6. ShallowAt(meta, base)
    <3>1. Entries(node) <= MaxNode /\ node.internal \in BOOLEAN
      BY <2>1, <2>4
    <3>2. \A k \in 1 .. Entries(node) : node.values[k] \in 0 .. MaxNode /\ ~ meta[node.values[k]].internal
      BY <2>1, <2>4, <2>5
    <3> HIDE DEF q
    <3> QED
      BY <2>3, <2>4, <3>1, <3>2 DEF ShallowAt
  <2>7. ASSUME NEW n \in 0 .. NodesPerTree - 1 PROVE ShallowAt(meta, base + n)
    <3>1. CASE n = 0
      <4>1. base + n = base
        BY <1>0, <3>1
      <4> QED
        BY <2>6, <4>1
    <3> QED
      BY <1>2, <3>1
  <2> QED
    BY <2>2, <2>7
<1> QED
  BY <1>3, <1>4
------------------------------------------------------------------------------
LEMMA Places ==
    ASSUME NEW t \in Nat, NEW n \in 0 .. NodesPerTree - 1
    PROVE  /\ (t * NodesPerTree + n) \div NodesPerTree = t /\ (t * NodesPerTree + n) % NodesPerTree = n
           /\ t * NodesPerTree \in Nat
<1> DEFINE s == NodesPerTree
           b == t * s + n
<1>1. s \in Nat \ {0} /\ n \in Nat /\ n < s
  BY SizesAreNat
<1> HIDE DEF s
<1>2. b \in Nat /\ t * s \in Nat
  BY <1>1
<1> DEFINE d == b \div s
           r == b % s
<1>3. d \in Nat /\ r \in 0 .. s - 1 /\ b = d * s + r
  BY <1>1, <1>2
<1> HIDE DEF d, r
<1>4. ~ (d < t)
  <2> SUFFICES ASSUME d < t PROVE FALSE
    OBVIOUS
  <2>1. (d + 1) * s <= t * s /\ (d + 1) * s = d * s + s /\ d * s \in Nat
    <3>1. d + 1 \in Nat /\ d + 1 <= t
      BY <1>3
    <3>2. (d + 1) * s <= t * s
      BY <1>1, <3>1, Products
    <3> QED
      BY <1>1, <1>3, <3>2, Products
  <2> DEFINE x == d * s
             y == t * s
             z == (d + 1) * s
  <2>2. z <= y /\ z = x + s /\ x \in Nat /\ y \in Nat /\ x + r = y + n
    BY <1>2, <1>3, <2>1
  <2> HIDE DEF x, y, z
  <2> QED
    BY <1>1, <1>3, <2>2
<1>5. ~ (t < d)
  <2> SUFFICES ASSUME t < d PROVE FALSE
    OBVIOUS
  <2>1. (t + 1) * s <= d * s /\ (t + 1) * s = t * s + s /\ d * s \in Nat
    <3>1. t + 1 \in Nat /\ t + 1 <= d
      BY <1>3
    <3>2. (t + 1) * s <= d * s
      BY <1>1, <1>3, <3>1, Products
    <3> QED
      BY <1>1, <1>3, <3>2, Products
  <2> DEFINE x == d * s
             y == t * s
             z == (t + 1) * s
  <2>2. z <= x /\ z = y + s /\ x \in Nat /\ y \in Nat /\ x + r = y + n
    BY <1>2, <1>3, <2>1
  <2> HIDE DEF x, y, z
  <2> QED
    BY <1>1, <1>3, <2>2
<1>6. d = t
  BY <1>3, <1>4, <1>5
<1>7. r = n
  <2> DEFINE y == t * s
  <2>1. y + n = y + r /\ y \in Nat
    BY <1>2, <1>3, <1>6
  <2> HIDE DEF y
  <2> QED
    BY <1>1, <1>3, <2>1
<1> QED
  BY <1>2, <1>6, <1>7 DEF d, r, s

MapsAreRight(m) == m \in [Vol -> Mapping]

LEMMA TreeEntriesAreEntries ==
    ASSUME NEW m, MapsAreRight(m), NEW t \in 0 .. Volumes
    PROVE  IsEntries(TreeEntries(m, t)) /\ Len(TreeEntries(m, t)) < NodesPerTree
<1>0. Volumes \in Nat /\ Blocks \in Nat /\ NodesPerTree \in Nat \ {0} /\ Volumes < NodesPerTree
      /\ Blocks < NodesPerTree /\ MaxNode \in Nat /\ NodesPerTree <= MaxNode + 1
  BY SizesAreNat
<1>1. CASE t = 0
  <2> DEFINE E == [w \in Vol |-> <<w, w * NodesPerTree>>]
  <2>1. TreeEntries(m, t) = E
    BY <1>1 DEF TreeEntries
  <2>2. Len(E) = Volumes
    BY <1>0 DEF Vol
  <2>3. \A j \in 1 .. Volumes : E[j] = <<j, j * NodesPerTree>>
    BY DEF Vol
  <2> HIDE DEF E
  <2>4. \A j \in 1 .. Volumes : E[j][1] = j /\ E[j][2] = j * NodesPerTree
    <3> SUFFICES ASSUME NEW j \in 1 .. Volumes PROVE E[j][1] = j /\ E[j][2] = j * NodesPerTree
      OBVIOUS
    <3> DEFINE y == j * NodesPerTree
    <3>1. E[j] = <<j, y>>
      BY <2>3
    <3> HIDE DEF y
    <3>2. E[j][1] = j /\ E[j][2] = y
      BY <3>1
    <3> QED
      BY <3>2 DEF y
  <2>5. \A j \in 1 .. Len(E) : E[j][1] \in Nat /\ E[j][2] \in Nat
    <3> SUFFICES ASSUME NEW j \in 1 .. Volumes PROVE E[j][1] \in Nat /\ E[j][2] \in Nat
      BY <2>2
    <3>1. j \in Nat
      BY <1>0
    <3>2. j * NodesPerTree \in Nat
      BY <1>0, <3>1, Products
    <3> QED
      BY <2>4, <3>1, <3>2
  <2>6. \A j, k \in 1 .. Len(E) : j < k => E[j][1] < E[k][1]
    BY <2>2, <2>4
  <2>7. Volumes <= MaxNode
    BY <1>0
  <2>8. IsEntries(E)
    BY <1>0, <2>2, <2>5, <2>6, <2>7 DEF IsEntries
  <2> QED
    BY <1>0, <2>1, <2>2, <2>8
<1>2. CASE t # 0
  <2> DEFINE f == m[t]
             E == MappedOf(f)
  <2>1. TreeEntries(m, t) = E
    BY <1>2 DEF TreeEntries
  <2>2. f \in Mapping
    <3>1. t \in Vol
      BY <1>0, <1>2 DEF Vol
    <3> QED
      BY <3>1 DEF MapsAreRight
  <2>3. IsMappedUpTo(f, Blocks, E)
    <3> HIDE DEF f
    <3> QED
      BY <2>2, MappedOfIsMapped
  <2> HIDE DEF E, f
  <2>4. E \in Seq(Nat \X Nat) /\ Len(E) <= Blocks
    BY <2>3 DEF IsMappedUpTo
  <2>5. Len(E) \in Nat /\ \A j \in 1 .. Len(E) : E[j] \in Nat \X Nat
    BY <2>4
  <2>6. \A j \in 1 .. Len(E) : E[j][1] \in Nat /\ E[j][2] \in Nat
    BY <2>5
  <2>7. \A j, k \in 1 .. Len(E) : j < k => E[j][1] < E[k][1]
    BY <2>3 DEF IsMappedUpTo
  <2>8. Len(E) <= MaxNode /\ Len(E) < NodesPerTree
    BY <1>0, <2>4, <2>5
  <2> QED
    BY <2>1, <2>5, <2>6, <2>7, <2>8 DEF IsEntries
<1> QED
  BY <1>1, <1>2

LEMMA MetadataHasTrees ==
    ASSUME NEW m, MapsAreRight(m), NEW t \in 0 .. Volumes
    PROVE  HasTree(Metadata(m), t * NodesPerTree, TreeEntries(m, t))
<1> DEFINE base == t * NodesPerTree
           E == TreeEntries(m, t)
           meta == Metadata(m)
<1>0. Volumes \in Nat /\ NodesPerTree \in Nat \ {0} /\ MaxNode = (Volumes + 1) * NodesPerTree - 1
      /\ MaxNode \in Nat /\ t \in Nat
  BY SizesAreNat
<1>1. base \in Nat /\ base + NodesPerTree <= MaxNode + 1
  <2>1. t * NodesPerTree <= Volumes * NodesPerTree /\ t * NodesPerTree \in Nat
        /\ (Volumes + 1) * NodesPerTree = Volumes * NodesPerTree + NodesPerTree /\ Volumes * NodesPerTree \in Nat
    <3>1. t <= Volumes
      BY <1>0
    <3> QED
      BY <1>0, <3>1, Products
  <2> DEFINE x == t * NodesPerTree
             y == Volumes * NodesPerTree
             z == (Volumes + 1) * NodesPerTree
  <2>2. x <= y /\ z = y + NodesPerTree /\ MaxNode = z - 1 /\ x \in Nat /\ y \in Nat
    BY <1>0, <2>1
  <2> HIDE DEF x, y, z
  <2>3. x \in Nat /\ x + NodesPerTree <= MaxNode + 1
    BY <1>0, <2>2
  <2> QED
    BY <2>3 DEF x
<1>2. ASSUME NEW n \in 0 .. NodesPerTree - 1 PROVE meta[base + n] = NodeAt(E, base, n)
  <2> DEFINE b == base + n
  <2>1. b \div NodesPerTree = t /\ b % NodesPerTree = n
    BY <1>0, Places
  <2>2. b \in 0 .. MaxNode
    <3> HIDE DEF base
    <3> QED
      BY <1>0, <1>1
  <2> HIDE DEF b
  <2>3. meta[b] = NodeAt(TreeEntries(m, b \div NodesPerTree), (b \div NodesPerTree) * NodesPerTree, b % NodesPerTree)
    BY <2>2 DEF Metadata
  <2>4. meta[b] = NodeAt(E, base, n)
    BY <2>1, <2>3
  <2> QED
    BY <2>4 DEF b
<1>3. IsEntries(E) /\ Len(E) < NodesPerTree
  BY TreeEntriesAreEntries
<1> HIDE DEF base, E, meta
<1>4. HasTree(meta, base, E)
  BY <1>1, <1>2, <1>3 DEF HasTree
<1> QED
  BY <1>4 DEF base, E, meta

LEMMA MetadataAreShallow ==
    ASSUME ShapeIsRight, NEW m, MapsAreRight(m)
    PROVE  IsShallow(Metadata(m))
<1> DEFINE meta == Metadata(m)
<1>1. ASSUME NEW b \in 0 .. MaxNode PROVE ShallowAt(meta, b)
  <2> DEFINE t == b \div NodesPerTree
             n == b % NodesPerTree
             base == t * NodesPerTree
             E == TreeEntries(m, t)
  <2>1. Volumes \in Nat /\ NodesPerTree \in Nat \ {0} /\ MaxNode = (Volumes + 1) * NodesPerTree - 1 /\ b \in Nat
    BY SizesAreNat
  <2>2. t \in Nat /\ n \in 0 .. NodesPerTree - 1 /\ base + n = b
    BY <2>1
  <2> HIDE DEF n, t
  <2>3. t <= Volumes
    <3> SUFFICES ASSUME t > Volumes PROVE FALSE
      BY <2>1, <2>2
    <3>1. (Volumes + 1) * NodesPerTree <= t * NodesPerTree /\ t * NodesPerTree \in Nat
      <4>1. Volumes + 1 \in Nat /\ Volumes + 1 <= t
        BY <2>1, <2>2
      <4> QED
        BY <2>1, <2>2, <4>1, Products
    <3> DEFINE z == (Volumes + 1) * NodesPerTree
    <3>2. z <= base /\ MaxNode = z - 1 /\ base \in Nat
      BY <2>1, <3>1
    <3>3. z \in Nat
      BY <2>1, Products
    <3> HIDE DEF z, base
    <3> QED
      BY <2>1, <2>2, <3>2, <3>3
  <2>4. HasTree(meta, base, E)
    <3>1. t \in 0 .. Volumes
      BY <2>1, <2>2, <2>3
    <3> QED
      BY <3>1, MetadataHasTrees
  <2> HIDE DEF base, E, meta
  <2>5. ShallowAt(meta, base + n)
    BY <2>2, <2>4, TreeStands
  <2> QED
    BY <2>2, <2>5
<1> HIDE DEF meta
<1>2. IsShallow(meta)
  BY <1>1 DEF IsShallow, ShallowAt
<1> QED
  BY <1>2 DEF meta

\* The device's tree is found and its extents are those of its mapping.
LEMMA MapFinds ==
    ASSUME ShapeIsRight, MapsAreRight(dmthin), NEW x \in Vol, NEW l \in Nat,
           NEW J, IsSplit(MappedOf(dmthin[x]), l \div BlockSize, J)
    PROVE  \E o : /\ ThinMeta_map(x, l) = [error |-> "none", extents |-> CutTo(l, o)]
                  /\ Takes(o, MappedOf(dmthin[x]), J, J, Len(MappedOf(dmthin[x])))
<1> DEFINE meta == Metadata(dmthin)
           D == TreeEntries(dmthin, 0)
           E == MappedOf(dmthin[x])
           begin == l \div BlockSize
           long == (MaxNode + 1) * BlockSize
           end == begin + long \div BlockSize
           pos == x * NodesPerTree
<1>0. Volumes \in Nat /\ MaxNode \in Nat /\ x \in 1 .. Volumes /\ BlockSize \in Nat \ {0} /\ NodesPerTree \in Nat \ {0}
  BY SizesAreNat, BlockSizeAssumption DEF Vol
<1>1. IsShallow(meta)
  BY MetadataAreShallow
<1>2. IsTree(meta, 0, D)
  <2>1. 0 \in 0 .. Volumes /\ 0 * NodesPerTree = 0
    BY <1>0
  <2>2. HasTree(meta, 0, D)
    BY <2>1, MetadataHasTrees
  <2> HIDE DEF meta, D
  <2> QED
    BY <2>2, TreeStands
<1>3. IsTree(meta, pos, E)
  <2>1. x \in 0 .. Volumes /\ x # 0
    BY <1>0
  <2>2. HasTree(meta, pos, TreeEntries(dmthin, x))
    BY <2>1, MetadataHasTrees
  <2>3. TreeEntries(dmthin, x) = E
    BY <2>1 DEF TreeEntries
  <2> HIDE DEF meta, pos, E
  <2> QED
    BY <2>2, <2>3, TreeStands
<1>4. Len(D) = Volumes /\ D[x] = <<x, pos>>
  <2>1. D = [w \in Vol |-> <<w, w * NodesPerTree>>]
    BY DEF TreeEntries
  <2> HIDE DEF D
  <2> QED
    BY <1>0, <2>1 DEF Vol
<1>5. fdmt_search(meta, 0, x) = [error |-> "none", value |-> pos]
  <2>1. x \in 1 .. Len(D) /\ D[x][1] = x /\ D[x][2] = pos
    BY <1>0, <1>4
  <2> HIDE DEF meta, D, pos
  <2>2. fdmt_search(meta, 0, D[x][1]) = [error |-> "none", value |-> D[x][2]]
    BY <1>1, <1>2, <2>1, LookupFinds
  <2> QED
    BY <2>1, <2>2
<1>6. begin \in Nat /\ end \in Nat /\ end > MaxNode
  <2>1. begin \in Nat
    BY <1>0
  <2>2. long \div BlockSize = MaxNode + 1
    <3> DEFINE k == MaxNode + 1
    <3>1. k \in Nat
      BY <1>0
    <3> HIDE DEF k
    <3>2. (k * BlockSize) \div BlockSize = k
      BY <1>0, <3>1
    <3> QED
      BY <3>2 DEF k
  <2> HIDE DEF begin, long
  <2> QED
    BY <1>0, <2>1, <2>2
<1> DEFINE o == fdmt_mapAddressRange(meta, pos, begin, end)
<1>7. Takes(o, E, J, J, Len(E))
  <2>1. IsSplit(E, begin, J)
    OBVIOUS
  <2> HIDE DEF meta, pos, begin, end, E
  <2> QED
    BY <1>1, <1>3, <1>6, <2>1, MapTakes
<1>8. ThinMeta_map(x, l) = [error |-> "none", extents |-> CutTo(l, o)]
  <2> DEFINE a == fdmt_search(meta, 0, x)
  <2>1. ThinMeta_map(x, l) =
          IF a.error # "none" THEN a
          ELSE [error |-> "none",
                extents |-> CutTo(l, fdmt_mapAddressRange(meta, a.value, begin, end))]
    BY DEF ThinMeta_map, FiesDMThin_mapExtents
  <2>2. a.error = "none" /\ a.value = pos
    BY <1>5
  <2> HIDE DEF a, meta, pos, begin, end
  <2> QED
    BY <2>1, <2>2
<1> HIDE DEF o, E
<1>9. \E z : ThinMeta_map(x, l) = [error |-> "none", extents |-> CutTo(l, z)] /\ Takes(z, E, J, J, Len(E))
  BY <1>7, <1>8
<1> QED
  BY <1>9 DEF E
------------------------------------------------------------------------------
LEMMA InBlocks ==
    ASSUME NEW y \in Nat, NEW a \in Nat
    PROVE  (a * BlockSize <= y <=> a <= y \div BlockSize) /\ a * BlockSize \in Nat
<1> DEFINE s == BlockSize
           d == y \div s
           r == y % s
<1>1. s \in Nat \ {0}
  BY BlockSizeAssumption
<1> HIDE DEF s
<1>2. d \in Nat /\ r \in 0 .. s - 1 /\ y = d * s + r
  BY <1>1
<1> HIDE DEF d, r
<1>3. a * s \in Nat /\ d * s \in Nat
  BY <1>1, <1>2, Products
<1>4. ASSUME a <= d PROVE a * s <= y
  <2>1. a * s <= d * s
    BY <1>1, <1>2, <1>4, Products
  <2> DEFINE w == a * s
             z == d * s
  <2>2. w <= z /\ w \in Nat /\ z \in Nat /\ y = z + r
    BY <1>2, <1>3, <2>1
  <2> HIDE DEF w, z
  <2>3. w <= y
    BY <1>2, <2>2
  <2> QED
    BY <2>3 DEF w
<1>5. ASSUME ~ (a <= d) PROVE ~ (a * s <= y)
  <2>1. (d + 1) * s <= a * s /\ (d + 1) * s = d * s + s
    <3>1. d + 1 \in Nat /\ d + 1 <= a
      BY <1>2, <1>5
    <3>2. (d + 1) * s <= a * s
      BY <1>1, <3>1, Products
    <3> QED
      BY <1>1, <1>2, <3>2, Products
  <2> DEFINE w == a * s
             z == d * s
             q == (d + 1) * s
  <2>2. q <= w /\ q = z + s /\ w \in Nat /\ z \in Nat /\ y = z + r
    BY <1>2, <1>3, <2>1
  <2> HIDE DEF w, z, q
  <2>3. ~ (w <= y)
    BY <1>1, <1>2, <2>2
  <2> QED
    BY <2>3 DEF w
<1>6. a * s <= y <=> a <= d
  BY <1>4, <1>5
<1> QED
  BY <1>3, <1>6 DEF d, s

\* What CutTo leaves of a run.
CutRun(l, u) ==
    LET first == Further(l, u.from * BlockSize) IN
    [physical |-> u.block * BlockSize + (first - u.from * BlockSize), logical |-> first,
     length |-> (u.from + u.count) * BlockSize - first]

LEMMA RunInBytes ==
    ASSUME NEW u \in Run
    PROVE  /\ u.block * BlockSize \in Nat /\ u.from * BlockSize \in Nat /\ u.count * BlockSize \in Nat
           /\ (u.from + u.count) * BlockSize = u.from * BlockSize + u.count * BlockSize
           /\ u.block \in Nat /\ u.from \in Nat /\ u.count \in Nat \ {0}
<1>1. u.block \in Nat /\ u.from \in Nat /\ u.count \in Nat \ {0}
  BY DEF Run
<1>2. BlockSize \in Nat \ {0}
  BY BlockSizeAssumption
<1>3. u.block * BlockSize \in Nat /\ u.from * BlockSize \in Nat /\ u.count * BlockSize \in Nat
  BY <1>1, <1>2, Products
<1>4. u.from * BlockSize + u.count * BlockSize = (u.from + u.count) * BlockSize
  BY <1>1, Spreads
<1> QED
  BY <1>1, <1>3, <1>4

LEMMA CutOfBytes ==
    ASSUME NEW s \in Seq(Run), NEW l \in Nat,
           \A k \in 1 .. Len(s) : k # 1 => l <= s[k].from * BlockSize,
           s # <<>> => l < (s[1].from + s[1].count) * BlockSize
    PROVE  Len(CutTo(l, Bytes(s))) = Len(s) /\ \A k \in 1 .. Len(s) : CutTo(l, Bytes(s))[k] = CutRun(l, s[k])
<1> DEFINE o == Bytes(s)
           x == CutTo(l, o)
<1>1. o \in Seq(Mapped) /\ Len(o) = Len(s) /\ (o = <<>> <=> s = <<>>) /\ Len(s) \in Nat
  BY BytesAreMapped
<1>2. \A k \in 1 .. Len(s) : o[k] = RunBytes(s[k]) /\ s[k] \in Run
  BY DEF Bytes
<1> HIDE DEF o
<1>3. ASSUME NEW k \in 1 .. Len(s), ~ (s[k].from * BlockSize < l) PROVE CutRun(l, s[k]) = o[k]
  <2> DEFINE u == s[k]
             a == u.from * BlockSize
             b == u.block * BlockSize
             c == u.count * BlockSize
             e == (u.from + u.count) * BlockSize
  <2>1. u \in Run
    BY <1>2
  <2>2. a \in Nat /\ b \in Nat /\ c \in Nat /\ e = a + c
    BY <2>1, RunInBytes
  <2>3. Further(l, a) = a
    BY <1>3, <2>2 DEF Further
  <2>4. CutRun(l, u) = [physical |-> b + (a - a), logical |-> a, length |-> e - a]
    BY <2>3 DEF CutRun
  <2>5. o[k] = [physical |-> b, logical |-> a, length |-> c]
    BY <1>2 DEF RunBytes
  <2> HIDE DEF a, b, c, e, u
  <2>6. b + (a - a) = b /\ e - a = c
    BY <2>2
  <2>7. CutRun(l, u) = o[k]
    BY <2>4, <2>5, <2>6
  <2> QED
    BY <2>7 DEF u
<1>4. CASE o # <<>> /\ o[1].logical < l
  <2> DEFINE shift == l - o[1].logical
             g == o[1]
             h == [physical |-> g.physical + shift, logical |-> g.logical + shift,
                   length |-> IF g.length <= shift THEN 0 ELSE g.length - shift]
  <2>1. x = [o EXCEPT ![1] = h]
    BY <1>4 DEF CutTo
  <2>2. 1 \in 1 .. Len(s)
    BY <1>1, <1>4
  <2>3. h = CutRun(l, s[1])
    <3> DEFINE u == s[1]
               a == u.from * BlockSize
               b == u.block * BlockSize
               c == u.count * BlockSize
               e == (u.from + u.count) * BlockSize
    <3>1. u \in Run /\ g = RunBytes(u)
      BY <1>2, <2>2
    <3>2. a \in Nat /\ b \in Nat /\ c \in Nat /\ e = a + c
      BY <3>1, RunInBytes
    <3>3. g.physical = b /\ g.logical = a /\ g.length = c
      BY <3>1 DEF RunBytes
    <3>4. a < l /\ l < e
      BY <1>1, <1>4, <3>3
    <3>5. Further(l, a) = l
      BY <3>2, <3>4 DEF Further
    <3>6. CutRun(l, u) = [physical |-> b + (l - a), logical |-> l, length |-> e - l]
      BY <3>5 DEF CutRun
    <3>7. shift = l - a
      BY <3>3
    <3> HIDE DEF a, b, c, e, g, shift
    <3>8. a + shift = l /\ ~ (c <= shift) /\ c - shift = e - l
      BY <3>2, <3>4, <3>7
    <3>9. h = [physical |-> b + shift, logical |-> a + shift, length |-> c - shift]
      BY <3>3, <3>8
    <3> HIDE DEF h
    <3>10. h = CutRun(l, u)
      BY <3>6, <3>7, <3>8, <3>9
    <3> QED
      BY <3>10
  <2> HIDE DEF h, shift, x
  <2>4. Len(x) = Len(s)
    BY <1>1, <2>1
  <2>5. ASSUME NEW k \in 1 .. Len(s) PROVE x[k] = CutRun(l, s[k])
    <3>1. k \in 1 .. Len(o)
      BY <1>1
    <3>2. CASE k = 1
      BY <1>1, <2>1, <2>3, <3>1, <3>2
    <3>3. CASE k # 1
      <4>1. x[k] = o[k]
        BY <1>1, <2>1, <3>1, <3>3
      <4>2. ~ (s[k].from * BlockSize < l)
        <5> DEFINE a == s[k].from * BlockSize
        <5>1. a \in Nat /\ l <= a
          BY <1>2, <3>3, RunInBytes
        <5> HIDE DEF a
        <5>2. ~ (a < l)
          BY <5>1
        <5> QED
          BY <5>2 DEF a
      <4> QED
        BY <1>3, <4>1, <4>2
    <3> QED
      BY <3>2, <3>3
  <2> QED
    BY <2>4, <2>5 DEF x, o
<1>5. CASE ~ (o # <<>> /\ o[1].logical < l)
  <2>1. x = o
    BY <1>5 DEF CutTo
  <2> HIDE DEF x
  <2>2. ASSUME NEW k \in 1 .. Len(s) PROVE x[k] = CutRun(l, s[k])
    <3>1. ~ (s[k].from * BlockSize < l)
      <4> DEFINE a == s[k].from * BlockSize
      <4>1. a \in Nat
        BY <1>2, RunInBytes
      <4>2. CASE k # 1
        <5>1. l <= a
          BY <4>2
        <5> HIDE DEF a
        <5>2. ~ (a < l)
          BY <4>1, <5>1
        <5> QED
          BY <5>2 DEF a
      <4>3. CASE k = 1
        <5>1. o # <<>>
          BY <1>1
        <5>2. o[1].logical = a
          <6>1. o[k] = RunBytes(s[k])
            BY <1>2
          <6>2. o[k].logical = a
            BY <6>1 DEF RunBytes
          <6> QED
            BY <4>3, <6>2
        <5> QED
          BY <1>5, <5>1, <5>2
      <4> QED
        BY <4>2, <4>3
    <3> QED
      BY <1>3, <2>1, <3>1
  <2> QED
    BY <1>1, <2>1, <2>2 DEF x, o
<1> QED
  BY <1>4, <1>5
------------------------------------------------------------------------------
EndOf(exts) ==
    IF Len(exts) = ExtentRoom THEN Last(exts).logical + Last(exts).length ELSE Blocks * BlockSize

\* Extents of the mapping f from l on.
AreExtents(exts, f, l) ==
    /\ Len(exts) \in Nat
    /\ DOMAIN exts = 1 .. Len(exts) /\ exts = [k \in 1 .. Len(exts) |-> exts[k]]
    /\ \A k \in 1 .. Len(exts) :
         /\ exts[k].physical \in Nat
         /\ exts[k].logical \in Nat /\ l <= exts[k].logical
         /\ exts[k].length \in Nat \ {0} /\ exts[k].logical + exts[k].length <= Blocks * BlockSize
         /\ exts[k].logical + exts[k].length <= EndOf(exts)
         /\ \A y \in exts[k].logical .. exts[k].logical + exts[k].length - 1 :
              /\ f[y \div BlockSize] # Nothing
              /\ exts[k].physical + (y - exts[k].logical) = f[y \div BlockSize] * BlockSize + (y % BlockSize)
    /\ \A k \in 1 .. Len(exts) - 1 : exts[k].logical + exts[k].length <= exts[k + 1].logical
    /\ \A y \in l .. EndOf(exts) - 1 :
         f[y \div BlockSize] # Nothing =>
           \E k \in 1 .. Len(exts) :
             y \in exts[k].logical .. exts[k].logical + exts[k].length - 1

\* The entry of a block of a run.
LEMMA BlockOfRun ==
    ASSUME NEW f \in Mapping, NEW E, IsMappedUpTo(f, Blocks, E), NEW J \in 0 .. Len(E),
           NEW hi \in J .. Len(E), NEW s, IsRuns(s, E, J, hi), NEW k \in 1 .. Len(s),
           NEW b \in Int, s[k].from <= b, b < s[k].from + s[k].count
    PROVE  /\ b \in Block /\ f[b] # Nothing /\ f[b] \in Nat
           /\ f[b] = s[k].block + (b - s[k].from)
           /\ \E j \in J + 1 .. hi : E[j][1] = b
<1>0. Blocks \in Nat /\ s \in Seq(Run) /\ s[k] \in Run /\ Len(E) \in Nat
  BY SizesAreNat DEF IsRuns, IsMappedUpTo
<1> DEFINE u == s[k]
           d == b - u.from
<1>1. u.block \in Nat /\ u.from \in Nat /\ u.count \in Nat \ {0}
  BY <1>0 DEF Run
<1>2. d \in 0 .. u.count - 1 /\ u.from + d = b
  <2> DEFINE p == u.from
             q == u.count
  <2>1. p \in Nat /\ q \in Nat \ {0} /\ p <= b /\ b < p + q
    BY <1>1
  <2> HIDE DEF p, q
  <2>2. b - p \in 0 .. q - 1 /\ p + (b - p) = b
    BY <2>1
  <2> QED
    BY <2>2 DEF p, q
<1> HIDE DEF d
<1>3. PICK j \in J + 1 .. hi : E[j][1] = u.from + d /\ E[j][2] \div TimeSize = u.block + d
  <2>1. RunsAreEntries(s, E, J, hi)
    BY DEF IsRuns
  <2> QED
    BY <1>2, <2>1 DEF RunsAreEntries
<1>4. j \in 1 .. Len(E) /\ E[j][1] = b
  BY <1>0, <1>2, <1>3
<1>5. b \in 0 .. Blocks - 1 /\ f[b] # Nothing /\ E[j][2] = f[b] * TimeSize + 1
  BY <1>4 DEF IsMappedUpTo
<1>6. f[b] \in Nat
  BY <1>5, SizesAssumption DEF Mapping, Block
<1>7. E[j][2] \div TimeSize = f[b]
  <2> DEFINE p == f[b]
             w == TimeSize
  <2>1. p \in Nat /\ w \in Nat /\ w > 1
    BY <1>6 DEF TimeSize
  <2> HIDE DEF p, w
  <2>2. (p * w + 1) \div w = p
    BY <2>1
  <2> QED
    BY <1>5, <2>2 DEF p, w
<1>8. f[b] = s[k].block + (b - s[k].from)
  BY <1>3, <1>7 DEF d
<1> QED
  BY <1>4, <1>5, <1>6, <1>8 DEF Block

\* What is needed of a run that is cut.
RunStands(s, l, k) ==
    LET u == s[k] IN
    /\ u.block \in Nat /\ u.from \in Nat /\ u.count \in Nat \ {0}
    /\ l \div BlockSize <= u.from
    /\ k # 1 => l < u.from * BlockSize
    /\ l < (u.from + u.count) * BlockSize
    /\ u.from + u.count <= Blocks

LEMMA RunsStand ==
    ASSUME NEW f \in Mapping, NEW l \in Nat, NEW E, IsMappedUpTo(f, Blocks, E), NEW J, IsSplit(E, l \div BlockSize, J),
           NEW hi \in J .. Len(E), NEW s, IsRuns(s, E, J, hi), NEW k \in 1 .. Len(s)
    PROVE  RunStands(s, l, k)
<1>0. Blocks \in Nat /\ s \in Seq(Run) /\ Len(s) \in Nat /\ Len(E) \in Nat /\ J \in 0 .. Len(E) /\ BlockSize \in Nat \ {0}
  BY SizesAreNat, BlockSizeAssumption DEF IsRuns, IsMappedUpTo, IsSplit
<1> DEFINE begin == l \div BlockSize
<1>1. begin \in Nat
  BY <1>0
<1>2. \A x \in 1 .. Len(s) : s[x].block \in Nat /\ s[x].from \in Nat /\ s[x].count \in Nat \ {0}
  <2> SUFFICES ASSUME NEW x \in 1 .. Len(s)
               PROVE  s[x].block \in Nat /\ s[x].from \in Nat /\ s[x].count \in Nat \ {0}
    OBVIOUS
  <2>1. s[x] \in Run
    BY <1>0
  <2> QED
    BY <2>1 DEF Run
<1>3. ASSUME NEW x \in 1 .. Len(s) PROVE begin <= s[x].from
  <2>0. J \in 0 .. Len(E)
    BY <1>0
  <2>1. ASSUME NEW b \in Int, s[x].from <= b, b < s[x].from + s[x].count
        PROVE  \E j \in J + 1 .. hi : E[j][1] = b
    BY <2>0, <2>1, BlockOfRun
  <2>2. \E j \in J + 1 .. hi : E[j][1] = s[x].from
    <3>1. s[x].from \in Int /\ s[x].from <= s[x].from /\ s[x].from < s[x].from + s[x].count
      BY <1>2
    <3> QED
      BY <2>1, <3>1
  <2>3. PICK j \in J + 1 .. hi : E[j][1] = s[x].from
    BY <2>2
  <2>4. j \in 1 .. Len(E) /\ ~ (j <= J)
    BY <1>0
  <2>5. ~ (E[j][1] < begin)
    BY <2>4 DEF IsSplit
  <2> HIDE DEF begin
  <2> QED
    BY <1>1, <1>2, <2>3, <2>5
<1>4. s[k].from + s[k].count <= Blocks
  <2> DEFINE p == s[k].from
             q == s[k].count
             b == p + q - 1
  <2>0. p \in Nat /\ q \in Nat \ {0}
    BY <1>2
  <2> HIDE DEF p, q
  <2>1. b \in Int /\ p <= b /\ b < p + q
    BY <2>0
  <2>2. ASSUME NEW z \in Int, s[k].from <= z, z < s[k].from + s[k].count PROVE z \in Block
    BY <1>0, <2>2, BlockOfRun
  <2>3. b \in Block
    <3> HIDE DEF b
    <3> QED
      BY <2>1, <2>2 DEF p, q
  <2>4. p + q <= Blocks
    BY <1>0, <2>0, <2>3 DEF Block
  <2> QED
    BY <2>4 DEF p, q
<1>5. ASSUME NEW a \in Nat, begin < a PROVE l < a * BlockSize
  <2>1. (a * BlockSize <= l <=> a <= begin) /\ a * BlockSize \in Nat
    BY InBlocks
  <2> DEFINE w == a * BlockSize
  <2>2. w \in Nat /\ (w <= l <=> a <= begin)
    BY <2>1
  <2> HIDE DEF w, begin
  <2>3. l < w
    BY <1>1, <1>5, <2>2
  <2> QED
    BY <2>3 DEF w
<1>6. begin < s[k].from + s[k].count /\ begin <= s[k].from /\ s[k].from + s[k].count \in Nat
  <2> HIDE DEF begin
  <2> DEFINE p == s[k].from
             q == s[k].count
  <2>1. begin <= p /\ p \in Nat /\ q \in Nat \ {0}
    BY <1>2, <1>3
  <2> HIDE DEF p, q
  <2>2. begin < p + q /\ begin <= p /\ p + q \in Nat
    BY <1>1, <2>1
  <2> QED
    BY <2>2 DEF p, q
<1>7. l < (s[k].from + s[k].count) * BlockSize
  <2> HIDE DEF begin
  <2> QED
    BY <1>5, <1>6
<1>8. k # 1 => l < s[k].from * BlockSize
  <2> SUFFICES ASSUME k # 1 PROVE l < s[k].from * BlockSize
    OBVIOUS
  <2> DEFINE h == k - 1
  <2>1. h \in 1 .. Len(s) - 1 /\ h \in 1 .. Len(s) /\ h + 1 = k
    BY <1>0
  <2>2. s[h].from + s[h].count <= s[h + 1].from
    <3> HIDE DEF h
    <3> QED
      BY <2>1 DEF IsRuns, RunsAscend
  <2>3. begin <= s[h].from
    <3> HIDE DEF begin, h
    <3> QED
      BY <1>3, <2>1
  <2>4. begin < s[k].from
    <3>1. s[h].from + s[h].count <= s[k].from
      BY <2>1, <2>2
    <3>2. s[h].from \in Nat /\ s[h].count \in Nat \ {0} /\ s[k].from \in Nat
      BY <1>2, <2>1
    <3> DEFINE p == s[h].from
               q == s[h].count
               z == s[k].from
    <3>3. begin <= p /\ p + q <= z /\ p \in Nat /\ q \in Nat \ {0} /\ z \in Nat
      BY <2>3, <3>1, <3>2
    <3> HIDE DEF begin, h, p, q, z
    <3>4. begin < z
      BY <1>1, <3>3
    <3> QED
      BY <3>4 DEF z
  <2> HIDE DEF begin
  <2> QED
    BY <1>2, <1>5, <2>4
<1> QED
  BY <1>2, <1>4, <1>6, <1>7, <1>8 DEF RunStands

\* A run after CutTo.
IsCut(s, l, k, x) == l \in Nat /\ RunStands(s, l, k) /\ x = CutRun(l, s[k])

LEMMA CutStands ==
    ASSUME NEW s, NEW l, NEW k, NEW x, IsCut(s, l, k, x)
    PROVE  /\ s[k].from * BlockSize \in Nat /\ s[k].block * BlockSize \in Nat
           /\ (s[k].from + s[k].count) * BlockSize \in Nat
           /\ (s[k].from + s[k].count) * BlockSize <= Blocks * BlockSize
           /\ x.logical \in Nat /\ l <= x.logical /\ s[k].from * BlockSize <= x.logical
           /\ x.logical < (s[k].from + s[k].count) * BlockSize
           /\ (x.logical = l \/ x.logical = s[k].from * BlockSize)
           /\ x.length \in Nat \ {0} /\ x.logical + x.length = (s[k].from + s[k].count) * BlockSize
           /\ x.physical \in Nat
           /\ x.physical = s[k].block * BlockSize + (x.logical - s[k].from * BlockSize)
<1> DEFINE a == s[k].from * BlockSize
           e == (s[k].from + s[k].count) * BlockSize
           b == s[k].block * BlockSize
<1> DEFINE u == s[k]
           first == Further(l, a)
<1>0. Blocks \in Nat /\ BlockSize \in Nat \ {0} /\ l \in Nat /\ RunStands(s, l, k) /\ x = CutRun(l, s[k])
  BY SizesAreNat, BlockSizeAssumption DEF IsCut
<1>1. u.block \in Nat /\ u.from \in Nat /\ u.count \in Nat \ {0} /\ u.from + u.count <= Blocks /\ l < e
  BY <1>0 DEF RunStands
<1>2. a \in Nat /\ b \in Nat
  BY <1>0, <1>1, Products
<1>3. e \in Nat /\ a < e
  <2> DEFINE c == u.from + u.count
  <2>1. c \in Nat /\ u.from < c
    BY <1>1
  <2> HIDE DEF c
  <2>2. u.from * BlockSize < c * BlockSize /\ c * BlockSize \in Nat
    BY <1>0, <1>1, <2>1, Products
  <2> QED
    BY <2>2 DEF c
<1>4. e <= Blocks * BlockSize
  <2> DEFINE c == u.from + u.count
  <2>1. c \in Nat /\ c <= Blocks
    BY <1>1
  <2> HIDE DEF c
  <2>2. c * BlockSize <= Blocks * BlockSize
    BY <1>0, <2>1, Products
  <2> QED
    BY <2>2 DEF c
<1>5. first \in Nat /\ l <= first /\ a <= first /\ first < e /\ (first = l \/ first = a)
  <2>1. first = IF l < a THEN a ELSE l
    BY DEF Further
  <2> HIDE DEF first
  <2> QED
    BY <1>0, <1>1, <1>2, <1>3, <2>1
<1>6. x.physical = b + (first - a) /\ x.logical = first /\ x.length = e - first
  <2>1. CutRun(l, u) = [physical |-> b + (first - a), logical |-> first, length |-> e - first]
    BY DEF CutRun
  <2> HIDE DEF first
  <2> QED
    BY <1>0, <2>1
<1> HIDE DEF first, u, a, e, b
<1>7. x.length \in Nat \ {0} /\ x.logical + x.length = e /\ x.physical \in Nat
  BY <1>2, <1>3, <1>5, <1>6
<1>8. /\ a \in Nat /\ b \in Nat /\ e \in Nat /\ e <= Blocks * BlockSize
      /\ x.logical \in Nat /\ l <= x.logical /\ a <= x.logical /\ x.logical < e
      /\ (x.logical = l \/ x.logical = a)
      /\ x.length \in Nat \ {0} /\ x.logical + x.length = e
      /\ x.physical \in Nat /\ x.physical = b + (x.logical - a)
  BY <1>2, <1>3, <1>4, <1>5, <1>6, <1>7
<1> QED
  BY <1>8 DEF a, b, e

LEMMA BytesOfBlock ==
    ASSUME NEW y \in Nat
    PROVE  y = (y \div BlockSize) * BlockSize + (y % BlockSize) /\ y \div BlockSize \in Nat
           /\ y % BlockSize \in 0 .. BlockSize - 1
<1> DEFINE w == BlockSize
<1>1. w \in Nat \ {0}
  BY BlockSizeAssumption
<1> HIDE DEF w
<1>2. y = (y \div w) * w + (y % w) /\ y \div w \in Nat /\ y % w \in 0 .. w - 1
  BY <1>1
<1> QED
  BY <1>2 DEF w

\* What was taken of the entries behind J, cut at l.
IsTaken(f, l, E, J, hi, s, exts) ==
    /\ f \in Mapping /\ l \in Nat
    /\ IsMappedUpTo(f, Blocks, E) /\ IsSplit(E, l \div BlockSize, J)
    /\ hi \in J .. Len(E) /\ IsRuns(s, E, J, hi) /\ (hi = Len(E) \/ Len(s) = ExtentRoom)
    /\ exts = CutTo(l, Bytes(s))

LEMMA TakenFacts ==
    ASSUME NEW f, NEW l, NEW E, NEW J, NEW hi, NEW s, NEW exts, IsTaken(f, l, E, J, hi, s, exts)
    PROVE  /\ Blocks \in Nat /\ BlockSize \in Nat \ {0} /\ ExtentRoom \in Nat \ {0}
           /\ Len(s) \in Nat /\ Len(E) \in Nat /\ J \in 0 .. Len(E) /\ hi \in J .. Len(E)
           /\ Len(exts) = Len(s)
           /\ \A k \in 1 .. Len(s) : RunStands(s, l, k) /\ IsCut(s, l, k, exts[k])
<1>0. Blocks \in Nat /\ s \in Seq(Run) /\ Len(s) \in Nat /\ Len(E) \in Nat /\ J \in 0 .. Len(E)
      /\ BlockSize \in Nat \ {0} /\ ExtentRoom \in Nat \ {0} /\ hi \in J .. Len(E) /\ l \in Nat
  BY SizesAreNat, BlockSizeAssumption, BoundsAssumption DEF IsTaken, IsRuns, IsMappedUpTo, IsSplit
<1>1. ASSUME NEW k \in 1 .. Len(s) PROVE RunStands(s, l, k)
  <2>1. f \in Mapping /\ IsMappedUpTo(f, Blocks, E) /\ IsSplit(E, l \div BlockSize, J) /\ IsRuns(s, E, J, hi)
    BY DEF IsTaken
  <2> QED
    BY <1>0, <2>1, RunsStand
<1>2. \A k \in 1 .. Len(s) : k # 1 => l <= s[k].from * BlockSize
  <2> SUFFICES ASSUME NEW k \in 1 .. Len(s), k # 1 PROVE l <= s[k].from * BlockSize
    OBVIOUS
  <2> DEFINE w == s[k].from * BlockSize
  <2>1. l < w /\ s[k].from \in Nat
    BY <1>1 DEF RunStands
  <2>2. w \in Nat
    BY <1>0, <2>1, Products
  <2> HIDE DEF w
  <2>3. l <= w
    BY <1>0, <2>1, <2>2
  <2> QED
    BY <2>3 DEF w
<1>3. s # <<>> => l < (s[1].from + s[1].count) * BlockSize
  <2> SUFFICES ASSUME s # <<>> PROVE l < (s[1].from + s[1].count) * BlockSize
    OBVIOUS
  <2>1. 1 \in 1 .. Len(s)
    BY <1>0
  <2> QED
    BY <1>1, <2>1 DEF RunStands
<1>4. Len(exts) = Len(s) /\ \A k \in 1 .. Len(s) : exts[k] = CutRun(l, s[k])
  BY <1>0, <1>2, <1>3, CutOfBytes DEF IsTaken
<1> QED
  BY <1>0, <1>1, <1>4 DEF IsCut

LEMMA Shifted ==
    ASSUME NEW a \in Int, NEW p \in Int, NEW g \in Int, NEW d \in Int, NEW z \in Int
    PROVE  (p + (g - a)) + (((a + d) + z) - g) = (p + d) + z
OBVIOUS

\* The bytes of an extent.
LEMMA ExtentBytes ==
    ASSUME NEW f, NEW l, NEW E, NEW J, NEW hi, NEW s, NEW exts, IsTaken(f, l, E, J, hi, s, exts),
           NEW k \in 1 .. Len(s), NEW y, y \in exts[k].logical .. exts[k].logical + exts[k].length - 1
    PROVE  /\ y \in Nat /\ s[k].from <= y \div BlockSize /\ y \div BlockSize < s[k].from + s[k].count
           /\ f[y \div BlockSize] # Nothing
           /\ exts[k].physical + (y - exts[k].logical) = f[y \div BlockSize] * BlockSize + (y % BlockSize)
<1> DEFINE u == s[k]
           a == u.from * BlockSize
           e == (u.from + u.count) * BlockSize
           p == u.block * BlockSize
           x == exts[k]
           b == y \div BlockSize
           r == y % BlockSize
<1>0. RunStands(s, l, k) /\ IsCut(s, l, k, x) /\ l \in Nat /\ BlockSize \in Nat \ {0} /\ J \in 0 .. Len(E)
      /\ hi \in J .. Len(E)
  BY TakenFacts DEF IsTaken
<1>1. /\ a \in Nat /\ p \in Nat /\ e \in Nat
      /\ x.logical \in Nat /\ l <= x.logical /\ a <= x.logical /\ x.logical < e
      /\ x.length \in Nat \ {0} /\ x.logical + x.length = e
      /\ x.physical \in Nat /\ x.physical = p + (x.logical - a)
  <2> HIDE DEF x
  <2> QED
    BY <1>0, CutStands
<1>2. u.block \in Nat /\ u.from \in Nat /\ u.count \in Nat \ {0}
  BY <1>0 DEF RunStands
<1>3. y \in Nat /\ a <= y /\ y < e /\ y - x.logical \in Nat
  <2> DEFINE g == x.logical
             h == x.length
  <2>1. y \in g .. g + h - 1 /\ g \in Nat /\ h \in Nat /\ g + h = e /\ a <= g /\ a \in Nat /\ e \in Nat
    BY <1>1
  <2> HIDE DEF a, e, p, g, h
  <2>2. y \in Nat /\ a <= y /\ y < e /\ y - g \in Nat
    BY <2>1
  <2> QED
    BY <2>2 DEF g
<1>4. u.from <= b
  BY <1>2, <1>3, InBlocks
<1>5. b < u.from + u.count
  <2> DEFINE c == u.from + u.count
  <2>1. c \in Nat
    BY <1>2
  <2>2. ~ (c * BlockSize <= y)
    <3> DEFINE w == c * BlockSize
    <3>1. w = e
      OBVIOUS
    <3> HIDE DEF w, e
    <3>2. ~ (w <= y)
      BY <1>1, <1>3, <3>1
    <3> QED
      BY <3>2 DEF w
  <2> HIDE DEF c
  <2>3. ~ (c <= b)
    BY <1>3, <2>1, <2>2, InBlocks
  <2>4. b \in Nat
    BY <1>3, BytesOfBlock
  <2> HIDE DEF b
  <2>5. b < c
    BY <2>1, <2>3, <2>4
  <2> QED
    BY <2>5 DEF c
<1>6. y = b * BlockSize + r /\ b \in Nat /\ r \in Nat
  <2>1. y = b * BlockSize + r /\ b \in Nat /\ r \in 0 .. BlockSize - 1
    BY <1>3, BytesOfBlock
  <2> HIDE DEF b, r
  <2> QED
    BY <1>0, <2>1
<1>7. f[b] # Nothing /\ f[b] = u.block + (b - u.from)
  <2>1. f \in Mapping /\ IsMappedUpTo(f, Blocks, E) /\ IsRuns(s, E, J, hi)
    BY DEF IsTaken
  <2>2. ASSUME NEW z \in Int, s[k].from <= z, z < s[k].from + s[k].count
        PROVE  f[z] # Nothing /\ f[z] = s[k].block + (z - s[k].from)
    BY <1>0, <2>1, <2>2, BlockOfRun
  <2> HIDE DEF b
  <2>3. b \in Int
    BY <1>6
  <2> QED
    BY <1>4, <1>5, <2>2, <2>3
<1>8. x.physical + (y - x.logical) = f[b] * BlockSize + r
  <2> DEFINE bb == b * BlockSize
             d == b - u.from
             ff == f[b] * BlockSize
  <2>1. y = bb + r
    BY <1>6
  <2>2. bb \in Nat
    BY <1>0, <1>6, Products
  <2>3. d \in Nat /\ f[b] = u.block + d /\ b = u.from + d
    <3> HIDE DEF b
    <3> QED
      BY <1>2, <1>4, <1>6, <1>7
  <2> HIDE DEF d
  <2> DEFINE dd == d * BlockSize
  <2>4. p + dd = ff
    <3>1. u.block * BlockSize + d * BlockSize = (u.block + d) * BlockSize
      <4>1. u.block \in Int /\ d \in Int
        BY <1>2, <2>3
      <4> QED
        BY <4>1, Spreads
    <3> HIDE DEF b
    <3> QED
      BY <2>3, <3>1
  <2>5. a + dd = bb
    <3>1. u.from * BlockSize + d * BlockSize = (u.from + d) * BlockSize
      <4>1. u.from \in Int /\ d \in Int
        BY <1>2, <2>3
      <4> QED
        BY <4>1, Spreads
    <3> HIDE DEF b
    <3> QED
      BY <2>3, <3>1
  <2>6. dd \in Nat
    BY <1>0, <2>3, Products
  <2> DEFINE g == x.logical
             h == x.physical
  <2>7. g \in Nat /\ h = p + (g - a) /\ a \in Nat /\ p \in Nat /\ r \in Nat /\ y \in Nat
    BY <1>1, <1>3, <1>6
  <2> HIDE DEF a, p, e, b, r, bb, ff, dd, g, h
  <2>8. h + (y - g) = ff + r
    <3>1. g \in Int /\ a \in Int /\ p \in Int /\ r \in Int /\ dd \in Int
      BY <2>6, <2>7
    <3>2. (p + (g - a)) + (((a + dd) + r) - g) = (p + dd) + r
      BY <3>1, Shifted
    <3> QED
      BY <2>1, <2>4, <2>5, <2>7, <3>2
  <2> QED
    BY <2>8 DEF ff, g, h
<1> QED
  BY <1>3, <1>4, <1>5, <1>7, <1>8

\* Where the extents end.
LEMMA EndOfTaken ==
    ASSUME NEW f, NEW l, NEW E, NEW J, NEW hi, NEW s, NEW exts, IsTaken(f, l, E, J, hi, s, exts)
    PROVE  /\ EndOf(exts) \in Nat /\ EndOf(exts) <= Blocks * BlockSize
           /\ Len(s) = ExtentRoom =>
                /\ Len(s) \in 1 .. Len(s) /\ hi \in J + 1 .. Len(E)
                /\ E[hi][1] \in Nat /\ E[hi][1] + 1 = s[Len(s)].from + s[Len(s)].count
                /\ EndOf(exts) = (E[hi][1] + 1) * BlockSize
           /\ Len(s) # ExtentRoom => EndOf(exts) = Blocks * BlockSize
<1>0. Blocks \in Nat /\ BlockSize \in Nat \ {0} /\ ExtentRoom \in Nat \ {0} /\ l \in Nat
      /\ Len(s) \in Nat /\ Len(E) \in Nat /\ J \in 0 .. Len(E) /\ hi \in J .. Len(E)
      /\ Len(exts) = Len(s)
      /\ \A k \in 1 .. Len(s) : RunStands(s, l, k) /\ IsCut(s, l, k, exts[k])
  BY TakenFacts DEF IsTaken
<1>1. CASE Len(s) # ExtentRoom
  <2>1. EndOf(exts) = Blocks * BlockSize
    BY <1>0, <1>1 DEF EndOf
  <2>2. Blocks * BlockSize \in Nat
    BY <1>0, Products
  <2> DEFINE w == Blocks * BlockSize
  <2>3. EndOf(exts) = w /\ w \in Nat
    BY <2>1, <2>2
  <2> HIDE DEF w
  <2>4. EndOf(exts) <= w /\ EndOf(exts) \in Nat
    BY <2>3
  <2> QED
    BY <1>1, <2>1, <2>4 DEF w
<1>2. CASE Len(s) = ExtentRoom
  <2> DEFINE n == Len(s)
             u == s[n]
             e == (u.from + u.count) * BlockSize
  <2>1. n \in 1 .. Len(s) /\ s # <<>> /\ Last(exts) = exts[n]
    BY <1>0, <1>2 DEF Last
  <2>2. RunStands(s, l, n) /\ IsCut(s, l, n, exts[n])
    BY <1>0, <2>1
  <2>3. e \in Nat /\ e <= Blocks * BlockSize /\ exts[n].logical + exts[n].length = e
    <3> HIDE DEF n
    <3> QED
      BY <2>2, CutStands
  <2>4. EndOf(exts) = e
    BY <1>0, <1>2, <2>1, <2>3 DEF EndOf
  <2>5. u.from \in Nat /\ u.count \in Nat \ {0}
    BY <2>2 DEF RunStands
  <2>6. J < hi /\ E[hi][1] = u.from + u.count - 1
    BY <2>1 DEF IsTaken, IsRuns, EndsAt
  <2>7. hi \in J + 1 .. Len(E)
    BY <1>0, <2>6
  <2>8. E[hi][1] \in Nat /\ E[hi][1] + 1 = u.from + u.count
    <3> HIDE DEF u
    <3> QED
      BY <2>5, <2>6
  <2>9. (E[hi][1] + 1) * BlockSize = e
    BY <2>8
  <2> HIDE DEF e
  <2> QED
    BY <1>2, <2>1, <2>3, <2>4, <2>7, <2>8, <2>9
<1> QED
  BY <1>1, <1>2

LEMMA ExtentEndsBefore ==
    ASSUME NEW f, NEW l, NEW E, NEW J, NEW hi, NEW s, NEW exts, IsTaken(f, l, E, J, hi, s, exts),
           NEW k \in 1 .. Len(s)
    PROVE  (s[k].from + s[k].count) * BlockSize <= EndOf(exts)
<1> DEFINE u == s[k]
           c == u.from + u.count
           b == c - 1
<1>0. Blocks \in Nat /\ BlockSize \in Nat \ {0} /\ l \in Nat
      /\ Len(s) \in Nat /\ Len(E) \in Nat /\ J \in 0 .. Len(E) /\ hi \in J .. Len(E)
      /\ RunStands(s, l, k)
  BY TakenFacts DEF IsTaken
<1>1. u.from \in Nat /\ u.count \in Nat \ {0} /\ c \in Nat \ {0} /\ c <= Blocks
  <2>1. u.from \in Nat /\ u.count \in Nat \ {0} /\ c <= Blocks
    BY <1>0 DEF RunStands
  <2> HIDE DEF u
  <2> QED
    BY <2>1
<1>2. CASE Len(s) # ExtentRoom
  <2>1. c * BlockSize <= Blocks * BlockSize
    <3> HIDE DEF c
    <3> QED
      BY <1>0, <1>1, Products
  <2>2. EndOf(exts) = Blocks * BlockSize
    BY <1>2, EndOfTaken
  <2> QED
    BY <2>1, <2>2
<1>3. CASE Len(s) = ExtentRoom
  <2>1. hi \in J + 1 .. Len(E) /\ E[hi][1] \in Nat /\ EndOf(exts) = (E[hi][1] + 1) * BlockSize
    BY <1>3, EndOfTaken
  <2>2. f \in Mapping /\ IsMappedUpTo(f, Blocks, E) /\ IsRuns(s, E, J, hi)
    BY DEF IsTaken
  <2>3. ASSUME NEW z \in Int, s[k].from <= z, z < s[k].from + s[k].count
        PROVE  \E j \in J + 1 .. hi : E[j][1] = z
    BY <1>0, <2>2, <2>3, BlockOfRun
  <2>4. b \in Int /\ u.from <= b /\ b < u.from + u.count
    BY <1>1
  <2>5. PICK j \in J + 1 .. hi : E[j][1] = b
    <3> HIDE DEF b
    <3> QED
      BY <2>3, <2>4
  <2>6. E[j][1] <= E[hi][1]
    <3>1. j \in 1 .. Len(E) /\ hi \in 1 .. Len(E) /\ (j < hi \/ j = hi)
      BY <1>0, <2>1
    <3>2. j < hi => E[j][1] < E[hi][1]
      BY <2>2, <3>1 DEF IsMappedUpTo
    <3>3. E[j][1] \in Int /\ E[hi][1] \in Int
      BY <2>1, <2>4, <2>5
    <3> QED
      BY <3>1, <3>2, <3>3
  <2> DEFINE g == E[hi][1] + 1
  <2>7. g \in Nat /\ c <= g
    <3> DEFINE p == E[j][1]
               q == E[hi][1]
    <3>1. p = c - 1 /\ p <= q /\ q \in Nat /\ c \in Nat
      BY <1>1, <2>1, <2>5, <2>6
    <3> HIDE DEF p, q, c
    <3>2. q + 1 \in Nat /\ c <= q + 1
      BY <3>1
    <3> QED
      BY <3>2 DEF q
  <2> HIDE DEF g, c
  <2>8. c * BlockSize <= g * BlockSize
    BY <1>0, <1>1, <2>7, Products
  <2> QED
    BY <2>1, <2>8 DEF g, c
<1> QED
  BY <1>2, <1>3

\* No mapped byte is left out.
LEMMA NoByteIsLeftOut ==
    ASSUME NEW f, NEW l, NEW E, NEW J, NEW hi, NEW s, NEW exts, IsTaken(f, l, E, J, hi, s, exts),
           NEW y \in l .. EndOf(exts) - 1, f[y \div BlockSize] # Nothing
    PROVE  \E k \in 1 .. Len(exts) : y \in exts[k].logical .. exts[k].logical + exts[k].length - 1
<1> DEFINE b == y \div BlockSize
           begin == l \div BlockSize
<1>0. Blocks \in Nat /\ BlockSize \in Nat \ {0} /\ ExtentRoom \in Nat \ {0} /\ l \in Nat
      /\ Len(s) \in Nat /\ Len(E) \in Nat /\ J \in 0 .. Len(E) /\ hi \in J .. Len(E)
      /\ Len(exts) = Len(s)
      /\ \A k \in 1 .. Len(s) : RunStands(s, l, k) /\ IsCut(s, l, k, exts[k])
  BY TakenFacts DEF IsTaken
<1>1. f \in Mapping /\ IsMappedUpTo(f, Blocks, E) /\ IsRuns(s, E, J, hi) /\ IsSplit(E, begin, J)
      /\ (hi = Len(E) \/ Len(s) = ExtentRoom)
  BY DEF IsTaken
<1>2. EndOf(exts) \in Nat /\ EndOf(exts) <= Blocks * BlockSize
  BY EndOfTaken
<1>3. y \in Nat /\ l <= y /\ y < EndOf(exts)
  BY <1>0, <1>2
<1>4. b \in Nat /\ begin \in Nat
  BY <1>0, <1>3
<1>5. b \in 0 .. Blocks - 1
  <2> DEFINE w == Blocks * BlockSize
  <2>1. w \in Nat
    BY <1>0, Products
  <2>2. ~ (w <= y)
    <3>1. EndOf(exts) <= w
      BY <1>2
    <3> HIDE DEF w
    <3> QED
      BY <1>2, <1>3, <2>1, <3>1
  <2>3. ~ (Blocks <= b)
    BY <1>0, <1>3, <2>2, InBlocks
  <2> HIDE DEF b
  <2> QED
    BY <1>0, <1>4, <2>3
<1>6. begin <= b
  <2>1. begin * BlockSize <= l /\ begin * BlockSize \in Nat
    <3>1. begin <= begin
      BY <1>4
    <3> HIDE DEF begin
    <3>2. begin * BlockSize <= l <=> begin <= l \div BlockSize
      BY <1>0, <1>4, InBlocks
    <3> QED
      BY <1>0, <1>4, <3>1, <3>2, Products DEF begin
  <2> DEFINE w == begin * BlockSize
  <2>2. w <= l /\ w \in Nat
    BY <2>1
  <2> HIDE DEF w
  <2>3. w <= y
    BY <1>0, <1>3, <2>2
  <2>4. begin * BlockSize <= y
    BY <2>3 DEF w
  <2> HIDE DEF begin
  <2> QED
    BY <1>3, <1>4, <2>4, InBlocks
<1>7. PICK j \in 1 .. Len(E) : E[j][1] = b
  <2> HIDE DEF b
  <2>1. f[b] # Nothing
    BY DEF b
  <2> QED
    BY <1>1, <1>5, <2>1 DEF IsMappedUpTo
<1>8. ~ (j <= J)
  <2>1. j <= J <=> E[j][1] < begin
    <3> HIDE DEF begin
    <3> QED
      BY <1>1 DEF IsSplit
  <2> HIDE DEF b, begin
  <2> QED
    BY <1>4, <1>6, <1>7, <2>1
<1>9. j <= hi
  <2>1. CASE hi = Len(E)
    BY <1>0, <2>1
  <2>2. CASE Len(s) = ExtentRoom
    <3>1. hi \in J + 1 .. Len(E) /\ E[hi][1] \in Nat /\ EndOf(exts) = (E[hi][1] + 1) * BlockSize
      BY <2>2, EndOfTaken
    <3> DEFINE g == E[hi][1] + 1
    <3>2. ~ (g * BlockSize <= y)
      BY <1>2, <1>3, <3>1
    <3>3. g \in Nat
      BY <3>1
    <3>4. ~ (g <= b)
      <4> HIDE DEF g
      <4> QED
        BY <1>3, <3>2, <3>3, InBlocks
    <3> HIDE DEF b
    <3>5. ~ (E[hi][1] < E[j][1])
      BY <1>4, <1>7, <3>1, <3>4
    <3>6. hi \in 1 .. Len(E)
      BY <1>0, <3>1
    <3>7. ~ (hi < j)
      BY <1>1, <3>5, <3>6 DEF IsMappedUpTo
    <3> QED
      BY <1>0, <3>6, <3>7
  <2> QED
    BY <1>1, <2>1, <2>2
<1>10. PICK k \in 1 .. Len(s) : IsIn(s[k], E[j][1])
  <2>1. j \in J + 1 .. hi
    BY <1>0, <1>8, <1>9
  <2> QED
    BY <1>1, <2>1 DEF IsRuns, EntriesAreInRuns
<1> DEFINE u == s[k]
           a == u.from * BlockSize
           e == (u.from + u.count) * BlockSize
           x == exts[k]
<1>11. u.from \in Nat /\ u.count \in Nat \ {0} /\ RunStands(s, l, k) /\ IsCut(s, l, k, x)
  BY <1>0 DEF RunStands
<1>12. u.from <= b /\ b < u.from + u.count
  BY <1>7, <1>10 DEF IsIn
<1>13. /\ a \in Nat /\ e \in Nat
       /\ x.logical \in Nat /\ (x.logical = l \/ x.logical = a)
       /\ x.length \in Nat \ {0} /\ x.logical + x.length = e
  <2> HIDE DEF x
  <2> QED
    BY <1>0, <1>11, CutStands
<1>14. a <= y
  BY <1>3, <1>11, <1>12, InBlocks
<1>15. ~ (e <= y)
  <2> DEFINE c == u.from + u.count
  <2>1. c \in Nat /\ ~ (c <= b)
    <3> HIDE DEF b
    <3> QED
      BY <1>4, <1>11, <1>12
  <2> HIDE DEF c
  <2>2. ~ (c * BlockSize <= y)
    BY <1>3, <2>1, InBlocks
  <2> QED
    BY <2>2 DEF c
<1>16. y \in x.logical .. x.logical + x.length - 1
  <2> DEFINE g == x.logical
             h == x.length
  <2>1. g \in Nat /\ h \in Nat /\ g + h = e /\ (g = l \/ g = a) /\ a \in Nat /\ e \in Nat /\ a <= y /\ ~ (e <= y)
    BY <1>13, <1>14, <1>15
  <2> HIDE DEF a, e, g, h
  <2>2. y \in g .. g + h - 1
    BY <1>0, <1>3, <2>1
  <2> QED
    BY <2>2 DEF g, h
<1> QED
  BY <1>0, <1>16

LEMMA TakenExtents ==
    ASSUME NEW f, NEW l, NEW E, NEW J, NEW hi, NEW s, NEW exts, IsTaken(f, l, E, J, hi, s, exts)
    PROVE  AreExtents(exts, f, l)
<1>0. Blocks \in Nat /\ BlockSize \in Nat \ {0} /\ l \in Nat /\ Len(s) \in Nat /\ Len(exts) = Len(s)
      /\ \A k \in 1 .. Len(s) : RunStands(s, l, k) /\ IsCut(s, l, k, exts[k])
  BY TakenFacts DEF IsTaken
<1>1. DOMAIN exts = 1 .. Len(exts) /\ exts = [k \in 1 .. Len(exts) |-> exts[k]]
  <2>1. s \in Seq(Run)
    BY DEF IsTaken, IsRuns
  <2>2. Bytes(s) \in Seq(Mapped) /\ Len(Bytes(s)) = Len(s)
    BY <2>1, BytesAreMapped
  <2>3. DOMAIN Bytes(s) = 1 .. Len(s)
    BY <2>2
  <2>4. DOMAIN CutTo(l, Bytes(s)) = DOMAIN Bytes(s)
    BY DEF CutTo
  <2>5. exts = CutTo(l, Bytes(s))
    BY DEF IsTaken
  <2>6. exts = [k \in DOMAIN exts |-> exts[k]]
    <3> DEFINE b == Bytes(s)
    <3>1. CutTo(l, b) = [k \in DOMAIN CutTo(l, b) |-> CutTo(l, b)[k]]
      <4>1. b = [k \in DOMAIN b |-> b[k]]
        BY <2>2, LenProperties
      <4> HIDE DEF b
      <4>2. CASE CutTo(l, b) = b
        BY <4>1, <4>2
      <4>3. CASE CutTo(l, b) # b
        BY <4>3 DEF CutTo
      <4> QED
        BY <4>2, <4>3
    <3> QED
      BY <2>5, <3>1
  <2> QED
    BY <1>0, <2>3, <2>4, <2>5, <2>6
<1>2. ASSUME NEW k \in 1 .. Len(exts)
      PROVE  /\ exts[k].physical \in Nat
             /\ exts[k].logical \in Nat /\ l <= exts[k].logical
             /\ exts[k].length \in Nat \ {0} /\ exts[k].logical + exts[k].length <= Blocks * BlockSize
             /\ exts[k].logical + exts[k].length <= EndOf(exts)
             /\ \A y \in exts[k].logical .. exts[k].logical + exts[k].length - 1 :
                  /\ f[y \div BlockSize] # Nothing
                  /\ exts[k].physical + (y - exts[k].logical) = f[y \div BlockSize] * BlockSize + (y % BlockSize)
  <2> DEFINE x == exts[k]
             e == (s[k].from + s[k].count) * BlockSize
  <2>1. x.physical \in Nat /\ x.logical \in Nat /\ l <= x.logical /\ x.length \in Nat \ {0}
        /\ x.logical + x.length = e /\ e <= Blocks * BlockSize
    <3>1. k \in 1 .. Len(s) /\ RunStands(s, l, k) /\ IsCut(s, l, k, x)
      BY <1>0
    <3> HIDE DEF x
    <3> QED
      BY <1>0, <3>1, CutStands
  <2>2. e <= EndOf(exts)
    BY <1>0, ExtentEndsBefore
  <2>3. \A y \in x.logical .. x.logical + x.length - 1 :
          /\ f[y \div BlockSize] # Nothing
          /\ x.physical + (y - x.logical) = f[y \div BlockSize] * BlockSize + (y % BlockSize)
    <3>1. k \in 1 .. Len(s)
      BY <1>0
    <3> HIDE DEF x
    <3>2. ASSUME NEW y, y \in exts[k].logical .. exts[k].logical + exts[k].length - 1
          PROVE  /\ f[y \div BlockSize] # Nothing
                 /\ exts[k].physical + (y - exts[k].logical) = f[y \div BlockSize] * BlockSize + (y % BlockSize)
      BY <3>1, <3>2, ExtentBytes
    <3> QED
      BY <3>2 DEF x
  <2> HIDE DEF e
  <2>4. x.logical + x.length <= Blocks * BlockSize /\ x.logical + x.length <= EndOf(exts)
    BY <2>1, <2>2
  <2> QED
    BY <2>1, <2>3, <2>4
<1>3. ASSUME NEW k \in 1 .. Len(exts) - 1
      PROVE  exts[k].logical + exts[k].length <= exts[k + 1].logical
  <2> DEFINE h == k + 1
             e == (s[k].from + s[k].count) * BlockSize
             a == s[h].from * BlockSize
  <2>1. k \in 1 .. Len(s) /\ h \in 1 .. Len(s) /\ k \in 1 .. Len(s) - 1
    BY <1>0
  <2>2. s[k].from + s[k].count <= s[h].from
    BY <2>1 DEF IsTaken, IsRuns, RunsAscend
  <2> HIDE DEF h
  <2>3. RunStands(s, l, k) /\ RunStands(s, l, h) /\ IsCut(s, l, k, exts[k]) /\ IsCut(s, l, h, exts[h])
    BY <1>0, <2>1
  <2>4. exts[k].logical + exts[k].length = e
    BY <1>0, <2>3, CutStands
  <2>5. a <= exts[h].logical /\ exts[h].logical \in Nat /\ a \in Nat
    BY <1>0, <2>3, CutStands
  <2>6. e <= a /\ e \in Nat
    <3> DEFINE c == s[k].from + s[k].count
    <3>1. c \in Nat /\ s[h].from \in Nat
      BY <2>3 DEF RunStands
    <3>2. c <= s[h].from
      BY <2>2
    <3> HIDE DEF c
    <3>3. c * BlockSize <= a /\ c * BlockSize \in Nat
      BY <1>0, <3>1, <3>2, Products
    <3> QED
      BY <3>3 DEF c
  <2> DEFINE g == exts[h].logical
  <2>7. a <= g /\ g \in Nat /\ a \in Nat
    BY <2>5
  <2> HIDE DEF e, a, g
  <2>8. e <= g
    BY <2>6, <2>7
  <2>9. exts[k].logical + exts[k].length <= g
    BY <2>4, <2>8
  <2> QED
    BY <2>9 DEF g, h
<1>4. \A y \in l .. EndOf(exts) - 1 :
        f[y \div BlockSize] # Nothing =>
          \E k \in 1 .. Len(exts) : y \in exts[k].logical .. exts[k].logical + exts[k].length - 1
  BY NoByteIsLeftOut
<1>5. Len(exts) \in Nat
  BY <1>0
<1> QED
  BY <1>1, <1>2, <1>3, <1>4, <1>5 DEF AreExtents

\* What ThinMeta_map gives.
LEMMA MapIsRight ==
    ASSUME ShapeIsRight, MapsAreRight(dmthin), NEW x \in Vol, NEW l \in Nat
    PROVE  /\ ThinMeta_map(x, l) = [error |-> "none", extents |-> ThinMeta_map(x, l).extents]
           /\ AreExtents(ThinMeta_map(x, l).extents, dmthin[x], l)
<1> DEFINE f == dmthin[x]
           E == MappedOf(f)
           begin == l \div BlockSize
<1>1. f \in Mapping
  BY DEF MapsAreRight
<1>2. IsMappedUpTo(f, Blocks, E)
  <2> HIDE DEF f
  <2> QED
    BY <1>1, MappedOfIsMapped
<1>3. IsEntries(E)
  <2>1. TreeEntries(dmthin, x) = E
    BY SizesAreNat DEF TreeEntries, Vol
  <2>2. x \in 0 .. Volumes
    BY SizesAreNat DEF Vol
  <2>3. IsEntries(TreeEntries(dmthin, x))
    BY <2>2, TreeEntriesAreEntries
  <2> QED
    BY <2>1, <2>3
<1>4. begin \in Nat
  BY BlockSizeAssumption
<1>5. PICK J : IsSplit(E, begin, J)
  <2> HIDE DEF E, begin
  <2> QED
    BY <1>3, <1>4, SplitExists
<1>6. PICK o : /\ ThinMeta_map(x, l) = [error |-> "none", extents |-> CutTo(l, o)]
               /\ Takes(o, E, J, J, Len(E))
  BY <1>5, MapFinds
<1>7. PICK hi \in J .. Len(E) :
        \E s : IsRuns(s, E, J, hi) /\ o = Bytes(s) /\ (hi = Len(E) \/ Len(s) = ExtentRoom)
  BY <1>6, Zenon DEF Takes
<1>8. PICK s : IsRuns(s, E, J, hi) /\ o = Bytes(s) /\ (hi = Len(E) \/ Len(s) = ExtentRoom)
  BY <1>7
<1>9. IsTaken(f, l, E, J, hi, s, CutTo(l, o))
  <2> HIDE DEF f, E
  <2> QED
    BY <1>1, <1>2, <1>5, <1>8 DEF IsTaken
<1>10. AreExtents(CutTo(l, o), f, l)
  <2> HIDE DEF f, E
  <2> QED
    BY <1>9, TakenExtents
<1> DEFINE exts == CutTo(l, o)
<1>11. ThinMeta_map(x, l) = [error |-> "none", extents |-> exts] /\ AreExtents(exts, f, l)
  BY <1>6, <1>10
<1> HIDE DEF exts, f
<1>12. ThinMeta_map(x, l).extents = exts
  BY <1>11
<1> QED
  BY <1>11, <1>12 DEF f
------------------------------------------------------------------------------
\* The kinds of reservations of pool p.
By(p) == held[p].by

HeldType ==
    /\ held = [p \in Pool |-> held[p]]
    /\ \A p \in Pool : held[p] = Nobody \/ By(p) \in {"me", "other", "gone"}

\* A flag says that there is a snapshot to release, unless it was just released.
FlagMeansHeld ==
    ~ late /\ pc # "killed" =>
      \A p \in Pool : release[p] => By(p) = "me" \/ (pc = "released" /\ p = cur)

\* What is reserved has its flag, unless it was just reserved.
HeldHasFlag ==
    ~ late /\ pc # "killed" =>
      \A p \in Pool : By(p) = "me" => release[p] \/ (pc = "reserved" /\ p = cur)

\* What has its flag will be cleaned up.
FlagIsInTable ==
    ~ late /\ ~ warned /\ pc # "killed" =>
      \A p \in Pool : release[p] => p \in DOMAIN table \/ (Cleaning /\ pc # "cleaning" /\ p = cur)

\* The current volume's pool is in the table.
CurInTable ==
    \/ pc \in {"reserve", "reserved", "load", "file", "extents"}
    \/ pc \in {"release", "released"} /\ after # "cleaning"
    => cur \in DOMAIN table

\* A snapshot that was just released is not reserved, unless by others.
Released == pc = "released" => By(cur) # "me"

\* The table has been emptied in the end.
Emptied == pc = "exited" => DOMAIN table = {}

\* While a volume is being read its metadata are reserved.
Reserved ==
    IF raw THEN pc \notin {"reserve", "reserved", "load"}
    ELSE /\ pc = "reserved" => By(cur) = "me"
         /\ pc \in {"load", "file", "extents"} => By(cur) = "me" /\ release[cur]

Reservations ==
    /\ TypeOK /\ HeldType
    /\ FlagMeansHeld /\ HeldHasFlag /\ FlagIsInTable /\ CurInTable /\ Reserved
    /\ Released /\ Emptied
------------------------------------------------------------------------------
LEMMA InitReservations == Init => Reservations
<1> SUFFICES ASSUME Init PROVE Reservations
  OBVIOUS
<1>1. PICK c \in Cases : pool = c.pool /\ args = c.args
  BY DEF Init
<1>2. pool \in [Vol -> Pool] /\ args \in Seq(Vol) /\ args # <<>>
  BY <1>1, CasesAssumption
<1>3. pool[args[1]] \in Pool
  BY <1>2
<1>4. TypeOK
  <2>1. i \in 0 .. Len(args)
    BY <1>2 DEF Init
  <2>2. release \in [Pool -> BOOLEAN] /\ DOMAIN table \subseteq Pool
    BY DEF Init
  <2>3. /\ pc \in {"loadraw", "volume"} /\ after = "volume" /\ cur = pool[args[1]]
        /\ warned = FALSE /\ late = FALSE /\ raw \in BOOLEAN
    BY DEF Init
  <2>4. QED
    BY <1>2, <1>3, <2>1, <2>2, <2>3 DEF TypeOK
<1>5. held = [p \in Pool |-> held[p]] /\ \A p \in Pool : held[p] = Nobody \/ By(p) = "gone"
  <2>1. CASE held = [p \in Pool |-> Nobody]
    BY <2>1 DEF By
  <2>2. CASE \E x \in Cases : held = [p \in Pool |-> IF p = pool[1]
                                        THEN [by |-> "gone", maps |-> x.maps] ELSE Nobody]
    BY <2>2 DEF By
  <2>3. QED
    BY <2>1, <2>2 DEF Init
<1>6. pc \in {"loadraw", "volume"} /\ \A p \in Pool : ~ release[p] /\ By(p) # "me"
  BY <1>5 DEF Init, By, Nobody
<1>7. QED
  BY <1>4, <1>5, <1>6 DEF Reservations, HeldType, By, FlagMeansHeld, HeldHasFlag, FlagIsInTable,
     CurInTable, Reserved, Released, Emptied

LEMMA StepReservations == Reservations /\ [Next]_vars => Reservations'
<1> SUFFICES ASSUME Reservations, [Next]_vars PROVE Reservations'
  OBVIOUS
<1> USE DEF Reservations, TypeOK, HeldType, By, Nobody, FlagMeansHeld, HeldHasFlag, FlagIsInTable,
        CurInTable, Reserved, Released, Emptied, Cleaning, pool_vars, arg_vars, send_vars, ReleaseThen, Goto,
        ThinMetaTable_addPool, OthersRun, Gone
<1>1. CASE LoadRaw
  BY <1>1 DEF LoadRaw
<1>2. CASE OpenVolume
  BY <1>2 DEF OpenVolume
<1>3. CASE OpenFails
  BY <1>3 DEF OpenFails
<1>4. CASE AllDone
  BY <1>4 DEF AllDone
<1>5. CASE ReserveMessage
  BY <1>5 DEF ReserveMessage
<1>6. CASE ReserveFails
  BY <1>6 DEF ReserveFails
<1>7. CASE NoteReserved
  <2>1. /\ pc = "reserved" /\ pc' = "load" /\ held' = held /\ cur' = cur
        /\ \A p \in Pool : release'[p] = (release[p] \/ p = cur)
        /\ release' \in [Pool -> BOOLEAN]
    BY <1>7 DEF NoteReserved
  <2>2. UNCHANGED <<pool, args, i, raw, late, warned, table, after>>
    BY <1>7 DEF NoteReserved
  <2>3. TypeOK' /\ HeldType' /\ CurInTable' /\ FlagIsInTable'
    BY <2>1, <2>2
  <2>4. FlagMeansHeld' /\ HeldHasFlag' /\ Reserved'
    <3>1. ~ raw /\ By(cur) = "me"
      BY <2>1
    <3>2. QED
      BY <3>1, <2>1, <2>2
  <2>5. Released' /\ Emptied'
    BY <2>1
  <2>6. QED
    BY <2>3, <2>4, <2>5
<1>8. CASE FiesDMThin_new
  BY <1>8 DEF FiesDMThin_new
<1>9. CASE LoadFails
  BY <1>9 DEF LoadFails
<1>10. CASE BeginFile
  BY <1>10 DEF BeginFile
<1>11. CASE MapExtents
  BY <1>11 DEF MapExtents
<1>12. CASE SendExtent
  BY <1>12 DEF SendExtent
<1>13. CASE EndFile
  BY <1>13 DEF EndFile
<1>14. CASE FileFails
  BY <1>14 DEF FileFails
<1>15. CASE NothingToRelease
  BY <1>15 DEF NothingToRelease
<1>16. CASE ReleaseMessage
  BY <1>16 DEF ReleaseMessage
<1>17. CASE ReleaseFails
  BY <1>17 DEF ReleaseFails
<1>18. CASE NoteReleased
  <2>1. /\ pc = "released" /\ held' = held /\ cur' = cur
        /\ \A p \in Pool : release'[p] = (release[p] /\ p # cur)
        /\ release' \in [Pool -> BOOLEAN]
    BY <1>18 DEF NoteReleased
  <2>2. UNCHANGED <<pool, args, i, raw, late, warned, table>>
    BY <1>18 DEF NoteReleased
  <2>3. /\ pc' \in {"release", "volume", "cleanup", "cleaning"}
        /\ after' \in {"volume", "destroy", "cleanup", "cleaning"}
        /\ pc' = "release" => after' = "cleanup" /\ after = "destroy"
        /\ pc' # "release" => pc' = after /\ after' = after
    BY <1>18 DEF NoteReleased
  <2>4. TypeOK' /\ HeldType' /\ CurInTable' /\ Reserved' /\ Released'
    BY <2>1, <2>2, <2>3
  <2>5. FlagMeansHeld' /\ HeldHasFlag' /\ FlagIsInTable'
    BY <2>1, <2>2, <2>3
  <2>6. Emptied'
    BY <1>18 DEF NoteReleased
  <2>7. QED
    BY <2>4, <2>5, <2>6
<1>19. CASE CleanUp
  BY <1>19 DEF CleanUp
<1>20. CASE Exit
  BY <1>20 DEF Exit
<1>21. CASE HandleSignal
  BY <1>21 DEF HandleSignal
<1>22. CASE Kill
  BY <1>22 DEF Kill
<1>23. CASE OtherWrites
  BY <1>23 DEF OtherWrites
<1>24. CASE OtherDiscards
  BY <1>24 DEF OtherDiscards
<1>25. CASE OtherReserves
  BY <1>25 DEF OtherReserves
<1>26. CASE OtherReleases
  BY <1>26 DEF OtherReleases
<1>27. CASE UNCHANGED vars
  BY <1>27 DEF vars
<1> QED
  BY <1>1, <1>2, <1>3, <1>4, <1>5, <1>6, <1>7, <1>8, <1>9, <1>10, <1>11, <1>12, <1>13, <1>14, <1>15, <1>16, <1>17, <1>18, <1>19, <1>20, <1>21, <1>22, <1>23, <1>24, <1>25, <1>26, <1>27 DEF Next, Program, Others
------------------------------------------------------------------------------
\* The bookkeeping is right in every state.
THEOREM ReservationsHold == Spec => []Reservations
BY InitReservations, StepReservations, PTL DEF Spec

\* The metadata of a pool are only read while they are reserved for it, for any
\* number of pools and volumes and whatever other programs do.
THEOREM MetadataStayReserved == Spec => []MetadataAreHeld
<1>1. Reservations => MetadataAreHeld
  BY DEF Reservations, Reserved, By, MetadataAreHeld
<1>2. QED
  BY <1>1, ReservationsHold, PTL

\* A program that ends leaves no metadata reserved, with the exceptions that
\* NoneLeftReserved names.
THEOREM ExitReleases == Spec => []NoneLeftReserved
<1>1. Reservations => NoneLeftReserved
  BY DEF Reservations, TypeOK, HeldHasFlag, FlagIsInTable, Emptied, Cleaning, By, NoneLeftReserved
<1>2. QED
  BY <1>1, ReservationsHold, PTL

\* What other programs have reserved, or have left behind, is not released by
\* this one, with the same exception.
THEOREM OthersAreSpared == Spec => OthersKeepTheirs
<1>1. ASSUME Reservations, [Next]_vars
      PROVE [\A p \in Pool : held[p].by \in {"other", "gone"} /\ ~ late =>
               held'[p] = held[p] \/ OtherReleases]_vars
  <2>1. CASE UNCHANGED vars
    BY <2>1
  <2>2. CASE OtherReleases
    BY <2>2
  <2>3. CASE ReserveMessage
    BY <2>3, <1>1 DEF ReserveMessage, Reservations, TypeOK, HeldType, Nobody
  <2>4. CASE ReleaseMessage
    BY <2>4, <1>1 DEF ReleaseMessage, Reservations, TypeOK, HeldType, FlagMeansHeld, By
  <2>5. CASE OtherReserves
    BY <2>5, <1>1 DEF OtherReserves, Reservations, HeldType, Nobody
  <2>6. ASSUME held' = held
        PROVE \A p \in Pool : held'[p] = held[p]
    BY <2>6
  <2>7. QED
    BY <1>1, <2>1, <2>2, <2>3, <2>4, <2>5, <2>6
    DEF Next, Program, Others, pool_vars, arg_vars, send_vars, LoadRaw, OpenVolume, OpenFails,
        AllDone, ReserveFails, NoteReserved, FiesDMThin_new, LoadFails, BeginFile, MapExtents,
        SendExtent, EndFile, FileFails, NothingToRelease, ReleaseFails, NoteReleased, CleanUp,
        Exit, HandleSignal, Kill, OtherWrites, OtherDiscards
<1>2. QED
  BY <1>1, ReservationsHold, PTL DEF Spec, OthersKeepTheirs
------------------------------------------------------------------------------
\* What is known of the pools and of what was read of them.
MapsTyped ==
    /\ ShapeIsRight /\ MapsAreRight(maps) /\ MapsAreRight(dmthin)
    /\ size \in [Vol -> 0 .. Blocks * BlockSize]
    /\ \A p \in Pool : held[p] # Nobody => MapsAreRight(held[p].maps)

Reading == pc \in {"reserve", "reserved", "load", "file", "extents"}

CurIs == Reading => i \in 1 .. Len(args) /\ cur = pool[args[i]]

Mappings == MapsTyped /\ CurIs

LEMMA InitMappings == Init => Mappings
<1> SUFFICES ASSUME Init PROVE Mappings
  OBVIOUS
<1>1. PICK c \in Cases : size = c.size /\ maps = c.maps /\ shape = c.shape
  BY DEF Init
<1>2. MapsAreRight(maps) /\ MapsAreRight(dmthin) /\ size \in [Vol -> 0 .. Blocks * BlockSize] /\ ShapeIsRight
  BY <1>1, CasesAssumption DEF Init, MapsAreRight, ShapeIsRight
<1>3. \A p \in Pool : held[p] # Nobody => MapsAreRight(held[p].maps)
  <2>1. CASE held = [p \in Pool |-> Nobody]
    BY <2>1
  <2>2. CASE \E x \in Cases : held = [p \in Pool |-> IF p = pool[1]
                                        THEN [by |-> "gone", maps |-> x.maps] ELSE Nobody]
    <3>1. PICK x \in Cases : held = [p \in Pool |-> IF p = pool[1]
                                        THEN [by |-> "gone", maps |-> x.maps] ELSE Nobody]
      BY <2>2
    <3>2. MapsAreRight(x.maps)
      BY CasesAssumption DEF MapsAreRight
    <3> QED
      BY <3>1, <3>2
  <2> QED
    BY <2>1, <2>2 DEF Init
<1>4. CurIs
  BY DEF Init, CurIs, Reading
<1> QED
  BY <1>2, <1>3, <1>4 DEF Mappings, MapsTyped

LEMMA MapsChange ==
    ASSUME NEW m, MapsAreRight(m), NEW w \in Vol, NEW b \in Block, NEW new \in Phys \cup {Nothing}
    PROVE  MapsAreRight([m EXCEPT ![w][b] = new])
<1>1. m \in [Vol -> Mapping] /\ m[w] \in Mapping
  BY DEF MapsAreRight
<1>2. [m[w] EXCEPT ![b] = new] \in Mapping
  BY <1>1 DEF Mapping
<1> DEFINE h == [m[w] EXCEPT ![b] = new]
<1>3. [m EXCEPT ![w][b] = new] = [m EXCEPT ![w] = h]
  OBVIOUS
<1> HIDE DEF h
<1>4. h \in Mapping
  BY <1>2 DEF h
<1>5. [m EXCEPT ![w] = h] \in [Vol -> Mapping]
  <2> HIDE DEF Mapping
  <2> QED
    BY <1>1, <1>4
<1> QED
  BY <1>3, <1>5 DEF MapsAreRight

LEMMA StepMappings == Reservations /\ Mappings /\ [Next]_vars => Mappings'
<1> SUFFICES ASSUME Reservations, Mappings, [Next]_vars PROVE Mappings'
  OBVIOUS
<1> USE DEF Mappings
<1>0. /\ ShapeIsRight /\ MapsAreRight(maps) /\ MapsAreRight(dmthin)
      /\ size \in [Vol -> 0 .. Blocks * BlockSize]
      /\ \A p \in Pool : held[p] # Nobody => MapsAreRight(held[p].maps)
      /\ args \in Seq(Vol) /\ i \in 0 .. Len(args) /\ Len(args) \in Nat /\ cur \in Pool
      /\ held = [p \in Pool |-> held[p]]
  BY DEF MapsTyped, Reservations, TypeOK, HeldType
<1>1. ASSUME UNCHANGED pool_vars, dmthin' = dmthin, held' = held PROVE MapsTyped'
  BY <1>1 DEF MapsTyped, pool_vars, ShapeIsRight, MapsAreRight
<1>2. ASSUME UNCHANGED pool_vars, dmthin' = dmthin, NEW p \in Pool, NEW h, held' = [held EXCEPT ![p] = h],
             h # Nobody => MapsAreRight(h.maps)
      PROVE  MapsTyped'
  BY <1>0, <1>2 DEF MapsTyped, pool_vars, ShapeIsRight, MapsAreRight
<1>3. ASSUME UNCHANGED <<pool, args, i, cur>>, Reading' => Reading PROVE CurIs'
  BY <1>3 DEF CurIs
<1>4. ASSUME ~ Reading' PROVE CurIs'
  BY <1>4 DEF CurIs
<1>5. ASSUME UNCHANGED pool_vars, held' = held,
             dmthin' = IF held[cur'] = Nobody THEN maps ELSE held[cur'].maps, cur' \in Pool
      PROVE  MapsTyped'
  BY <1>0, <1>5 DEF MapsTyped, pool_vars, ShapeIsRight, MapsAreRight
<1>6. CASE OpenVolume
  <2>1. MapsTyped'
    BY <1>1, <1>6 DEF OpenVolume
  <2>2. i' = i + 1 /\ i < Len(args) /\ cur' = pool[args[i + 1]] /\ UNCHANGED <<pool, args>>
    BY <1>6 DEF OpenVolume, pool_vars, arg_vars
  <2>3. CurIs'
    BY <1>0, <2>2 DEF CurIs
  <2> QED
    BY <2>1, <2>3
<1>7. CASE LoadRaw
  <2>1. UNCHANGED pool_vars /\ held' = held /\ cur' = pool[args[1]]
        /\ (dmthin' = (IF held[cur'] = Nobody THEN maps ELSE held[cur'].maps) \/ dmthin' = dmthin)
    BY <1>7 DEF LoadRaw
  <2>2. cur' \in Pool
    <3>1. args \in Seq(Vol) /\ args # <<>> /\ pool \in [Vol -> Pool]
      BY DEF Reservations, TypeOK
    <3>2. args[1] \in Vol
      BY <3>1
    <3> QED
      BY <2>1, <3>1, <3>2
  <2>3. MapsTyped'
    BY <1>1, <1>5, <2>1, <2>2
  <2>4. CurIs'
    BY <1>4, <1>7 DEF LoadRaw, Reading
  <2> QED
    BY <2>3, <2>4
<1>8. CASE FiesDMThin_new
  <2>1. MapsTyped'
    BY <1>0, <1>5, <1>8 DEF FiesDMThin_new
  <2>2. CurIs'
    BY <1>3, <1>8 DEF FiesDMThin_new, Reading, pool_vars, arg_vars
  <2> QED
    BY <2>1, <2>2
<1>9. CASE OtherWrites \/ OtherDiscards
  <2>1. PICK w \in Vol, b \in Block, new \in Phys \cup {Nothing} : maps' = [maps EXCEPT ![w][b] = new]
    <3>1. CASE OtherDiscards
      <4>1. PICK w \in Vol, b \in Block : maps' = [maps EXCEPT ![w][b] = Nothing]
        BY <3>1 DEF OtherDiscards
      <4> QED
        BY <4>1
    <3>2. CASE OtherWrites
      <4>1. PICK w \in Vol, b \in Block :
               \E new \in IF maps[w][b] # Nothing /\ Users(pool[w], maps[w][b]) = {<<w, b>>}
                          THEN {maps[w][b]} ELSE {x \in Phys : Users(pool[w], x) = {}} :
                 maps' = [maps EXCEPT ![w][b] = new]
        BY <3>2 DEF OtherWrites
      <4>2. maps[w][b] \in Phys \cup {Nothing}
        BY <1>0 DEF MapsAreRight, Mapping
      <4>3. PICK new \in Phys \cup {Nothing} : maps' = [maps EXCEPT ![w][b] = new]
        BY <4>1, <4>2
      <4> QED
        BY <4>3
    <3> QED
      BY <1>9, <3>1, <3>2
  <2>2. MapsAreRight(maps')
    BY <1>0, <2>1, MapsChange
  <2>3. UNCHANGED <<pool, size, shape, held, args, pc, i, cur, dmthin>>
    BY <1>9 DEF OtherWrites, OtherDiscards, arg_vars
  <2>4. MapsTyped'
    BY <1>0, <2>2, <2>3 DEF MapsTyped, ShapeIsRight, MapsAreRight
  <2>5. CurIs'
    BY <1>3, <2>3 DEF Reading
  <2> QED
    BY <2>4, <2>5
<1>10. CASE ReserveMessage
  <2>1. MapsTyped'
    BY <1>0, <1>2, <1>10 DEF ReserveMessage
  <2>2. CurIs'
    BY <1>3, <1>10 DEF ReserveMessage, Reading, pool_vars, arg_vars
  <2> QED
    BY <2>1, <2>2
<1>11. CASE OtherReserves
  <2>1. MapsTyped'
    BY <1>0, <1>2, <1>11 DEF OtherReserves
  <2>2. CurIs'
    BY <1>3, <1>11 DEF OtherReserves, Reading, pool_vars, arg_vars
  <2> QED
    BY <2>1, <2>2
<1>12. CASE OtherReleases
  <2>1. MapsTyped'
    BY <1>0, <1>2, <1>12 DEF OtherReleases
  <2>2. CurIs'
    BY <1>3, <1>12 DEF OtherReleases, Reading, pool_vars, arg_vars
  <2> QED
    BY <2>1, <2>2
<1>13. CASE ReleaseMessage
  <2>1. MapsTyped'
    BY <1>0, <1>2, <1>13 DEF ReleaseMessage
  <2>2. CurIs'
    BY <1>4, <1>13 DEF ReleaseMessage, Reading
  <2> QED
    BY <2>1, <2>2
<1>14. CASE NoteReserved \/ BeginFile \/ MapExtents \/ SendExtent
  <2>1. MapsTyped'
    BY <1>1, <1>14 DEF NoteReserved, BeginFile, MapExtents, SendExtent
  <2>2. CurIs'
    BY <1>3, <1>14 DEF NoteReserved, BeginFile, MapExtents, SendExtent, Reading, pool_vars, arg_vars
  <2> QED
    BY <2>1, <2>2
<1>15. CASE OpenFails \/ AllDone \/ ReserveFails \/ LoadFails \/ EndFile \/ FileFails
            \/ NothingToRelease \/ ReleaseFails \/ NoteReleased \/ CleanUp \/ Exit \/ HandleSignal \/ Kill
  <2>1. MapsTyped'
    BY <1>1, <1>15 DEF OpenFails, AllDone, ReserveFails, LoadFails, EndFile, FileFails, NothingToRelease,
       ReleaseFails, NoteReleased, CleanUp, Exit, HandleSignal, Kill
  <2>2. after \in {"volume", "destroy", "cleanup", "cleaning"}
    BY DEF Reservations, TypeOK
  <2>3. ~ Reading'
    BY <1>15, <2>2 DEF OpenFails, AllDone, ReserveFails, LoadFails, EndFile, FileFails, NothingToRelease,
       ReleaseFails, NoteReleased, CleanUp, Exit, HandleSignal, Kill, ReleaseThen, Goto, Reading
  <2> QED
    BY <1>4, <2>1, <2>3
<1>16. CASE UNCHANGED vars
  <2>1. MapsTyped'
    BY <1>1, <1>16 DEF vars
  <2>2. CurIs'
    BY <1>3, <1>16 DEF vars, Reading, pool_vars, arg_vars
  <2> QED
    BY <2>1, <2>2
<1> QED
  BY <1>6, <1>7, <1>8, <1>9, <1>10, <1>11, <1>12, <1>13, <1>14, <1>15, <1>16 DEF Next, Program, Others

\* Whatever the other programs do, what was read of the metadata, and the
\* current volume, are such that volumes can be mapped.
THEOREM MappingsHold == Spec => []Mappings
<1>1. Init => Reservations /\ Mappings
  BY InitReservations, InitMappings
<1>2. (Reservations /\ Mappings) /\ [Next]_vars => (Reservations /\ Mappings)'
  BY StepReservations, StepMappings
<1> QED
  BY <1>1, <1>2, PTL DEF Spec

\* What the writer is given is right.
LEMMA MapsAreFound == Reservations /\ Mappings => MapsWhatIsMapped
<1> SUFFICES ASSUME Reservations, Mappings, pc = "extents", NEW l \in 0 .. size[v] - 1
             PROVE  LET map == ThinMeta_map(v, l)
                        exts == map.extents
                        end == IF Len(exts) = ExtentRoom THEN Last(exts).logical + Last(exts).length
                               ELSE Blocks * BlockSize
                        mapped == {x \in l .. end - 1 : dmthin[v][x \div BlockSize] # Nothing}
                    IN  /\ map.error = "none"
                        /\ mapped = UNION {exts[k].logical .. exts[k].logical + exts[k].length - 1 :
                                             k \in DOMAIN exts}
                        /\ \A k \in DOMAIN exts : \A x \in 0 .. exts[k].length - 1 :
                             LET y == exts[k].logical + x IN
                             exts[k].physical + x = dmthin[v][y \div BlockSize] * BlockSize + (y % BlockSize)
                        /\ \A k \in 1 .. Len(exts) - 1 :
                             exts[k].logical + exts[k].length <= exts[k + 1].logical
  BY DEF MapsWhatIsMapped
<1> DEFINE exts == ThinMeta_map(v, l).extents
           f == dmthin[v]
           end == EndOf(exts)
           bytes(k) == exts[k].logical .. exts[k].logical + exts[k].length - 1
           mapped == {x \in l .. end - 1 : f[x \div BlockSize] # Nothing}
<1>1. v \in Vol /\ l \in Nat
  <2>1. args \in Seq(Vol) /\ i \in 1 .. Len(args)
    BY DEF Reservations, TypeOK, Mappings, CurIs, Reading
  <2>2. v \in Vol
    BY <2>1 DEF v
  <2>3. size[v] \in 0 .. Blocks * BlockSize /\ Blocks * BlockSize \in Nat
    BY <2>2, SizesAreNat, BlockSizeAssumption, Products DEF Mappings, MapsTyped
  <2> QED
    BY <2>2
<1>2. ThinMeta_map(v, l).error = "none" /\ AreExtents(exts, f, l)
  BY <1>1, MapIsRight DEF Mappings, MapsTyped
<1> HIDE DEF exts, f
<1>3. /\ Len(exts) \in Nat /\ DOMAIN exts = 1 .. Len(exts)
      /\ \A k \in 1 .. Len(exts) - 1 : exts[k].logical + exts[k].length <= exts[k + 1].logical
      /\ \A y \in l .. end - 1 : f[y \div BlockSize] # Nothing => \E k \in 1 .. Len(exts) : y \in bytes(k)
  BY <1>2 DEF AreExtents
<1>4. ASSUME NEW k \in DOMAIN exts
      PROVE  /\ exts[k].logical \in Nat /\ l <= exts[k].logical /\ exts[k].length \in Nat
             /\ exts[k].logical + exts[k].length <= end
             /\ \A y \in bytes(k) :
                  /\ f[y \div BlockSize] # Nothing
                  /\ exts[k].physical + (y - exts[k].logical) = f[y \div BlockSize] * BlockSize + (y % BlockSize)
  BY <1>2, <1>3 DEF AreExtents
<1>5. mapped = UNION {bytes(k) : k \in DOMAIN exts}
  <2>1. ASSUME NEW y \in mapped PROVE \E k \in DOMAIN exts : y \in bytes(k)
    BY <1>3
  <2>2. ASSUME NEW k \in DOMAIN exts, NEW y \in bytes(k) PROVE y \in mapped
    <3>1. f[y \div BlockSize] # Nothing
      BY <1>4
    <3>2. y \in l .. end - 1
      <4> DEFINE g == exts[k].logical
                 h == exts[k].length
      <4>1. g \in Nat /\ l <= g /\ h \in Nat /\ g + h <= end /\ y \in g .. g + h - 1 /\ end \in Int
        <5>1. end \in Int
          <6>1. CASE Len(exts) = ExtentRoom
            <7>1. Len(exts) \in DOMAIN exts /\ Last(exts) = exts[Len(exts)]
              BY <1>3, <6>1, BoundsAssumption DEF Last
            <7> QED
              BY <1>4, <6>1, <7>1 DEF EndOf
          <6>2. CASE Len(exts) # ExtentRoom
            <7>1. Blocks * BlockSize \in Nat
              BY SizesAreNat, BlockSizeAssumption, Products
            <7> QED
              BY <6>2, <7>1 DEF EndOf
          <6> QED
            BY <6>1, <6>2
        <5> HIDE DEF end
        <5> QED
          BY <1>4, <5>1
      <4> HIDE DEF g, h, end
      <4> QED
        BY <1>1, <4>1
    <3> QED
      BY <3>1, <3>2
  <2> HIDE DEF bytes, mapped
  <2> QED
    BY <2>1, <2>2
<1>6. ASSUME NEW k \in DOMAIN exts, NEW x \in 0 .. exts[k].length - 1
      PROVE  exts[k].physical + x =
               f[(exts[k].logical + x) \div BlockSize] * BlockSize + ((exts[k].logical + x) % BlockSize)
  <2> DEFINE y == exts[k].logical + x
  <2>1. exts[k].logical \in Nat /\ exts[k].length \in Nat
    BY <1>4
  <2>2. y \in bytes(k) /\ y - exts[k].logical = x
    BY <2>1
  <2> HIDE DEF y
  <2>3. exts[k].physical + (y - exts[k].logical) = f[y \div BlockSize] * BlockSize + (y % BlockSize)
    BY <1>4, <2>2
  <2>4. exts[k].physical + x = f[y \div BlockSize] * BlockSize + (y % BlockSize)
    BY <2>2, <2>3
  <2> QED
    BY <2>4 DEF y
<1> QED
  BY <1>2, <1>3, <1>5, <1>6 DEF exts, f, EndOf

\* Wherever the writer asks from, it is given all mapped bytes and no others.
THEOREM MapsAreComplete == Spec => []MapsWhatIsMapped
BY ReservationsHold, MappingsHold, MapsAreFound, PTL
------------------------------------------------------------------------------
\* s is a sequence, of whatever elements.
IsSeq(s) == Len(s) \in Nat /\ s = [k \in 1 .. Len(s) |-> s[k]]

DiskTyped == disk \in [Pool -> [Phys -> {"first", "other"}]]

\* The raw mode uses one pool and reserves nothing.
RawQuiet ==
    /\ pc = "loadraw" => raw
    /\ raw => /\ \A p \in Pool : ~ release[p]
              /\ \A k \in 1 .. Len(args) : pool[args[k]] = pool[args[1]]
              /\ cur = pool[args[1]] /\ DOMAIN table \subseteq {cur}

\* The metadata that are reserved, and those that are read, have the mappings of
\* the volumes given.
HeldAgree ==
    \A p \in Pool : By(p) = "me" => \A k \in 1 .. Len(args) : held[p].maps[args[k]] = maps[args[k]]

Agreed == \A k \in 1 .. Len(args) : dmthin[args[k]] = maps[args[k]]

Working == ~ Cleaning /\ ~ Gone

\* The devices of the pools are different.
Devices ==
    Working => /\ IsFiniteSet(DOMAIN table)
               /\ \A p \in DOMAIN table : table[p] \in 1 .. Cardinality(DOMAIN table)
               /\ \A p, q \in DOMAIN table : table[p] = table[q] => p = q

\* The volume that is begun is the last one the receiver has.
Lengths ==
    /\ IsSeq(got) /\ Len(got) \in 0 .. Len(args)
    /\ pc = "loadraw" => i = 0 /\ got = <<>>
    /\ pc = "volume" \/ (pc \in {"release", "released"} /\ after = "volume") => Len(got) = i
    /\ pc \in {"reserve", "reserved", "load", "file"} => Len(got) = i - 1
    /\ pc = "extents" => Len(got) = i

BytesOf(k) == 0 .. size[args[k]] - 1
Right(k, l) == got[k][l] = LiveByte(args[k], l)

\* What was finished is right, and stays so.
Finished ==
    \A k \in ended : /\ k \in 1 .. Len(got) /\ (pc = "extents" => k # i)
                     /\ \A l \in BytesOf(k) : Right(k, l)

PlaceOf(k, l) == <<table[pool[args[k]]], maps[args[k]][l \div BlockSize] * BlockSize + (l % BlockSize)>>

\* A copy refers to a byte that is right, and is the byte at its place.
IsOwned(x, k, l) ==
    /\ k \in 1 .. Len(got) /\ l \in BytesOf(k)
    /\ pool[args[k]] \in DOMAIN table /\ maps[args[k]][l \div BlockSize] # Nothing
    /\ x = PlaceOf(k, l) /\ Right(k, l)
    /\ pc = "extents" /\ k = i => l < at

Owners == Working => \A x \in DOMAIN owner : IsOwned(x, owner[x].volume, owner[x].logical)

\* So far the current volume is right, and all of it if it is the reference.
Current ==
    pc = "extents" =>
      /\ at \in 0 .. size[v]
      /\ got[i] = [l \in 0 .. size[v] - 1 |-> got[i][l]]
      /\ \A l \in 0 .. size[v] - 1 : ref \/ l < at => Right(i, l)

ExtentOf(e) == e.logical .. e.logical + e.length - 1

\* Extents of the mapping f that are to be sent, from "from" on.
IsBatch(e, f, from, end) ==
    /\ \A k \in 1 .. Len(e) :
         /\ e[k].physical \in Nat /\ e[k].logical \in Nat /\ from <= e[k].logical
         /\ e[k].length \in Nat \ {0}
         /\ \A y \in ExtentOf(e[k]) :
              /\ f[y \div BlockSize] # Nothing
              /\ e[k].physical + (y - e[k].logical) = f[y \div BlockSize] * BlockSize + (y % BlockSize)
         /\ \A y \in from .. e[k].logical - 1 :
              y < end /\ f[y \div BlockSize] # Nothing => \E j \in 1 .. k - 1 : y \in ExtentOf(e[j])
    /\ \A j, k \in 1 .. Len(e) : j < k => e[j].logical + e[j].length <= e[k].logical

Batch == pc = "extents" => IsSeq(exs) /\ IsBatch(exs, dmthin[v], at, size[v])

\* What holds of the volumes unless stale metadata are read.
Sent == Agreed /\ Finished /\ Owners /\ Current /\ Batch

Contents ==
    /\ DiskTyped /\ RawQuiet /\ HeldAgree /\ Devices /\ Lengths
    /\ ~ Stale => Sent

------------------------------------------------------------------------------
LEMMA GivenAre == TypeOK => Len(args) \in Nat /\ \A k \in 1 .. Len(args) : args[k] \in Vol
BY DEF TypeOK

\* A byte of a volume given is in a block.
LEMMA ByteIsIn ==
    ASSUME TypeOK, MapsTyped, NEW k \in 1 .. Len(args), NEW l \in BytesOf(k)
    PROVE  /\ args[k] \in Vol /\ size[args[k]] \in Nat /\ size[args[k]] <= Blocks * BlockSize
           /\ l \in Nat /\ l < size[args[k]]
           /\ l \div BlockSize \in Block /\ l % BlockSize \in 0 .. BlockSize - 1
           /\ maps[args[k]][l \div BlockSize] \in Phys \cup {Nothing}
<1>1. args[k] \in Vol
  BY GivenAre
<1>2. Blocks \in Nat /\ BlockSize \in Nat \ {0} /\ Blocks * BlockSize \in Nat
  BY SizesAreNat, BlockSizeAssumption, Products
<1> DEFINE z == size[args[k]]
           d == l \div BlockSize
           w == Blocks * BlockSize
<1>3. z \in 0 .. w
  BY <1>1 DEF MapsTyped
<1>4. l \in 0 .. z - 1
  BY DEF BytesOf
<1>5. w \in Nat
  BY <1>2
<1> HIDE DEF z, w
<1>6. l \in Nat /\ l < z /\ z \in Nat /\ z <= w /\ ~ (w <= l)
  BY <1>3, <1>4, <1>5
<1>7. d \in Nat /\ l % BlockSize \in 0 .. BlockSize - 1
  BY <1>6, BytesOfBlock
<1>8. ~ (Blocks <= d)
  BY <1>2, <1>6, InBlocks DEF w
<1> HIDE DEF d
<1>9. d \in Block
  BY <1>2, <1>7, <1>8 DEF Block
<1>10. maps[args[k]][d] \in Phys \cup {Nothing}
  BY <1>1, <1>9 DEF MapsTyped, MapsAreRight, Mapping
<1> QED
  BY <1>1, <1>6, <1>7, <1>9, <1>10 DEF z, d, w

\* What no step changes of the volumes given.
SameBytes ==
    /\ UNCHANGED <<pool, size, args, raw>>
    /\ \A k \in 1 .. Len(args) : maps'[args[k]] = maps[args[k]]
    /\ \A k \in 1 .. Len(args) : \A l \in BytesOf(k) : LiveByte(args[k], l)' = LiveByte(args[k], l)

\* Steps of the program change nothing of the pools.
LEMMA PoolsStay ==
    ASSUME [Next]_vars, ~ OtherWrites, ~ OtherDiscards
    PROVE  UNCHANGED <<pool_vars, arg_vars>>
<1> USE DEF pool_vars, arg_vars
<1>1. CASE LoadRaw \/ OpenVolume \/ OpenFails \/ AllDone
  BY <1>1 DEF LoadRaw, OpenVolume, OpenFails, AllDone
<1>2. CASE ReserveMessage \/ ReserveFails \/ NoteReserved \/ FiesDMThin_new \/ LoadFails
  BY <1>2 DEF ReserveMessage, ReserveFails, NoteReserved, FiesDMThin_new, LoadFails
<1>3. CASE BeginFile \/ MapExtents \/ SendExtent \/ EndFile \/ FileFails
  BY <1>3 DEF BeginFile, MapExtents, SendExtent, EndFile, FileFails
<1>4. CASE NothingToRelease \/ ReleaseMessage \/ ReleaseFails \/ NoteReleased \/ CleanUp \/ Exit
  BY <1>4 DEF NothingToRelease, ReleaseMessage, ReleaseFails, NoteReleased, CleanUp, Exit
<1>5. CASE HandleSignal \/ Kill \/ OtherReserves \/ OtherReleases \/ UNCHANGED vars
  BY <1>5 DEF HandleSignal, Kill, OtherReserves, OtherReleases, vars
<1> QED
  BY <1>1, <1>2, <1>3, <1>4, <1>5 DEF Next, Program, Others

\* No step changes the bytes of a volume that was given, although others write to
\* the pool.
LEMMA BytesStay ==
    ASSUME TypeOK, MapsTyped, DiskTyped, [Next]_vars
    PROVE  SameBytes /\ DiskTyped'
<1>1. ASSUME UNCHANGED <<pool_vars, arg_vars>> PROVE SameBytes /\ DiskTyped'
  BY <1>1 DEF SameBytes, DiskTyped, pool_vars, arg_vars, BytesOf, LiveByte, ByteAt
<1>2. ASSUME OtherDiscards PROVE SameBytes /\ DiskTyped'
  <2>1. PICK w \in {x \in Vol : ~ Given(x)}, b \in Block : maps' = [maps EXCEPT ![w][b] = Nothing]
    BY <1>2 DEF OtherDiscards
  <2>2. UNCHANGED <<pool, size, args, raw, disk>>
    BY <1>2 DEF OtherDiscards, arg_vars
  <2>3. ASSUME NEW k \in 1 .. Len(args) PROVE maps'[args[k]] = maps[args[k]]
    <3>1. args[k] # w /\ args[k] \in Vol
      BY <2>1, GivenAre DEF Given, Range, TypeOK
    <3> QED
      BY <2>1, <3>1 DEF MapsTyped, MapsAreRight
  <2> QED
    BY <2>2, <2>3 DEF SameBytes, DiskTyped, BytesOf, LiveByte, ByteAt
<1>3. ASSUME OtherWrites PROVE SameBytes /\ DiskTyped'
  <2>1. PICK w \in {x \in Vol : ~ Given(x)}, b \in Block :
          LET p == pool[w]
              old == maps[w][b]
              inplace == old # Nothing /\ Users(p, old) = {<<w, b>>}
          IN  \E new \in IF inplace THEN {old} ELSE {x \in Phys : Users(p, x) = {}} :
               /\ maps' = [maps EXCEPT ![w][b] = new]
               /\ disk' = [disk EXCEPT ![p][new] = "other"]
    BY <1>3 DEF OtherWrites
  <2> DEFINE p == pool[w]
             old == maps[w][b]
  <2>2. PICK new : /\ new \in (IF old # Nothing /\ Users(p, old) = {<<w, b>>} THEN {old}
                               ELSE {x \in Phys : Users(p, x) = {}})
                   /\ maps' = [maps EXCEPT ![w][b] = new] /\ disk' = [disk EXCEPT ![p][new] = "other"]
    BY <2>1
  <2>3. UNCHANGED <<pool, size, args, raw>>
    BY <1>3 DEF OtherWrites, arg_vars
  <2>4. Users(p, new) \subseteq {<<w, b>>}
    BY <2>2
  <2>5. ASSUME NEW k \in 1 .. Len(args) PROVE args[k] # w /\ args[k] \in Vol
    BY <2>1, GivenAre DEF Given, Range, TypeOK
  <2>6. ASSUME NEW k \in 1 .. Len(args) PROVE maps'[args[k]] = maps[args[k]]
    BY <2>2, <2>5 DEF MapsTyped, MapsAreRight
  <2>7. disk \in [Pool -> [Phys -> {"first", "other"}]] /\ p \in Pool
    BY <2>1 DEF DiskTyped, TypeOK
  <2> HIDE DEF p, old
  <2>8. disk' = [disk EXCEPT ![p] = [disk[p] EXCEPT ![new] = "other"]]
    BY <2>2
  <2>9. [disk[p] EXCEPT ![new] = "other"] \in [Phys -> {"first", "other"}]
    BY <2>7
  <2>10. DiskTyped'
    BY <2>7, <2>8, <2>9 DEF DiskTyped
  <2>11. ASSUME NEW k \in 1 .. Len(args), NEW l \in BytesOf(k)
         PROVE  LiveByte(args[k], l)' = LiveByte(args[k], l)
    <3> DEFINE y == maps[args[k]][l \div BlockSize]
               q == pool[args[k]]
    <3>1. args[k] \in Vol /\ l \div BlockSize \in Block /\ y \in Phys \cup {Nothing} /\ q \in Pool
      BY ByteIsIn, GivenAre DEF TypeOK
    <3>2. ~ (q = p /\ y = new)
      <4> SUFFICES ASSUME q = p, y = new PROVE FALSE
        OBVIOUS
      <4>1. <<args[k], l \div BlockSize>> \in Users(p, new)
        BY <3>1 DEF Users
      <4> QED
        BY <2>4, <2>5, <4>1
    <3>3. maps'[args'[k]][l \div BlockSize] = y /\ pool'[args'[k]] = q /\ args'[k] = args[k]
      BY <2>3, <2>6
    <3>4. y # Nothing => disk'[q][y] = disk[q][y]
      <4>1. CASE q # p
        BY <2>7, <2>8, <4>1
      <4>2. CASE q = p
        <5>1. disk'[q] = [disk[p] EXCEPT ![new] = "other"]
          BY <2>7, <2>8, <4>2
        <5>2. y # new
          BY <3>2, <4>2
        <5> HIDE DEF y, q
        <5> QED
          BY <2>7, <3>1, <4>2, <5>1, <5>2
      <4> QED
        BY <4>1, <4>2
    <3>5. ByteAt(args[k], y, l)' = ByteAt(args[k], y, l)
      <4> USE <2>3, <2>6
      <4>1. CASE y = Nothing
        BY <3>3, <4>1 DEF ByteAt
      <4>2. CASE y # Nothing
        BY <3>3, <3>4, <4>2 DEF ByteAt
      <4> QED
        BY <4>1, <4>2
    <3> QED
      BY <3>5 DEF LiveByte
  <2> QED
    BY <2>3, <2>6, <2>10, <2>11 DEF SameBytes
<1> QED
  BY <1>1, <1>2, <1>3, PoolsStay
------------------------------------------------------------------------------
\* The raw mode goes on to use one pool, and none is reserved in it.
LEMMA RawStays ==
    ASSUME Reservations, RawQuiet, SameBytes, [Next]_vars
    PROVE  RawQuiet' /\ (raw => held' = held /\ maps' = maps /\ cur' = cur)
<1>0. /\ UNCHANGED <<pool, args, raw>> /\ TypeOK /\ Reserved /\ Len(args) \in Nat
      /\ args # <<>> /\ 1 \in 1 .. Len(args)
  BY DEF SameBytes, Reservations, TypeOK
<1>1. /\ pc' = "loadraw" => pc = "loadraw"
      /\ raw => /\ cur' = cur /\ held' = held /\ maps' = maps
                /\ \A p \in Pool : ~ release'[p]
                /\ DOMAIN table' \subseteq {cur}
  <2>1. after # "loadraw"
    BY <1>0 DEF TypeOK
  <2> DEFINE Here == /\ pc' = "loadraw" => pc = "loadraw"
                     /\ raw => /\ cur' = cur /\ held' = held /\ maps' = maps
                               /\ \A p \in Pool : ~ release'[p]
                               /\ DOMAIN table' \subseteq {cur}
  <2>2. ASSUME UNCHANGED <<cur, held, maps, release, table>>, pc' = "loadraw" => pc = "loadraw" PROVE Here
    BY <2>2 DEF RawQuiet
  <2>3. CASE AllDone \/ FiesDMThin_new \/ BeginFile \/ MapExtents \/ SendExtent \/ Exit
             \/ HandleSignal \/ Kill \/ UNCHANGED vars
    BY <2>2, <2>3 DEF AllDone, FiesDMThin_new, BeginFile, MapExtents, SendExtent, Exit,
       HandleSignal, Kill, vars, pool_vars
  <2>4. CASE ReserveFails \/ LoadFails \/ EndFile \/ FileFails \/ NothingToRelease \/ ReleaseFails
    BY <2>1, <2>2, <2>4 DEF ReserveFails, LoadFails, EndFile, FileFails, NothingToRelease,
       ReleaseFails, pool_vars, ReleaseThen, Goto
  <2>5. CASE OtherWrites \/ OtherDiscards \/ OtherReserves \/ OtherReleases
    BY <2>5 DEF OtherWrites, OtherDiscards, OtherReserves, OtherReleases, OthersRun
  <2>6. CASE LoadRaw \/ OpenVolume
    <3>1. PICK k \in 1 .. Len(args) : cur' = pool[args[k]] /\ table' = ThinMetaTable_addPool(pool[args[k]])
      <4>1. i + 1 \in 1 .. Len(args) \/ LoadRaw
        BY <1>0, <2>6 DEF OpenVolume, TypeOK
      <4> QED
        BY <1>0, <2>6, <4>1 DEF LoadRaw, OpenVolume
    <3>2. pc' # "loadraw" /\ UNCHANGED <<held, maps, release>>
      BY <2>6 DEF LoadRaw, OpenVolume, pool_vars
    <3>3. raw => cur' = cur /\ DOMAIN table' \subseteq {cur}
      BY <3>1 DEF RawQuiet, ThinMetaTable_addPool
    <3> QED
      BY <3>2, <3>3 DEF RawQuiet
  <2>11. CASE OpenFails
    <3>1. i + 1 \in 1 .. Len(args)
      BY <1>0, <2>11 DEF OpenFails, TypeOK
    <3>2. raw => pool[args[i + 1]] = cur
      BY <3>1 DEF RawQuiet
    <3>3. raw => DOMAIN table' \subseteq {cur}
      BY <2>11, <3>2 DEF OpenFails, RawQuiet, ThinMetaTable_addPool
    <3>4. pc' # "loadraw" /\ UNCHANGED <<held, maps, release, cur>>
      BY <2>11 DEF OpenFails, pool_vars
    <3> QED
      BY <3>3, <3>4 DEF RawQuiet
  <2>7. CASE ReserveMessage \/ NoteReserved
    BY <1>0, <2>7 DEF ReserveMessage, NoteReserved, Reserved
  <2>8. CASE ReleaseMessage
    BY <1>0, <2>8 DEF ReleaseMessage, RawQuiet, TypeOK
  <2>9. CASE NoteReleased
    <3>1. UNCHANGED <<cur, held, maps, table>> /\ pc' # "loadraw"
      BY <2>1, <2>9 DEF NoteReleased, Goto, pool_vars
    <3>2. \A p \in Pool : release'[p] => release[p]
      BY <1>0, <2>9 DEF NoteReleased, TypeOK
    <3> QED
      BY <3>1, <3>2 DEF RawQuiet
  <2>10. CASE CleanUp
    BY <2>10 DEF CleanUp, RawQuiet, pool_vars
  <2> QED
    BY <2>3, <2>4, <2>5, <2>6, <2>7, <2>8, <2>9, <2>10, <2>11 DEF Next, Program, Others
<1>2. RawQuiet'
  BY <1>0, <1>1 DEF RawQuiet
<1> QED
  BY <1>1, <1>2

LEMMA StaleStays ==
    ASSUME Reservations, RawQuiet, SameBytes, [Next]_vars
    PROVE  Stale' <=> Stale
<1>1. raw' = raw /\ (raw => held' = held /\ maps' = maps /\ cur' = cur)
  BY RawStays DEF SameBytes
<1> QED
  BY <1>1 DEF Stale

LEMMA HeldAgreeStays ==
    ASSUME Reservations, HeldAgree, SameBytes, [Next]_vars
    PROVE  HeldAgree'
<1>0. /\ args' = args /\ \A k \in 1 .. Len(args) : maps'[args[k]] = maps[args[k]]
      /\ held = [p \in Pool |-> held[p]] /\ cur \in Pool
  BY DEF SameBytes, Reservations, TypeOK, HeldType
<1>1. ASSUME UNCHANGED held PROVE HeldAgree'
  BY <1>0, <1>1 DEF HeldAgree, By
<1>2. ASSUME NEW p \in Pool, NEW h, held' = [held EXCEPT ![p] = h],
             h.by = "me" => h.maps = maps
      PROVE  HeldAgree'
  BY <1>0, <1>2 DEF HeldAgree, By
<1>3. CASE ReserveMessage
  BY <1>0, <1>2, <1>3 DEF ReserveMessage
<1>4. CASE ReleaseMessage \/ OtherReleases
  <2>1. PICK p \in Pool : held' = [held EXCEPT ![p] = Nobody]
    BY <1>0, <1>4 DEF ReleaseMessage, OtherReleases
  <2> QED
    BY <1>2, <2>1 DEF Nobody
<1>5. CASE OtherReserves
  <2>1. PICK p \in Pool : held' = [held EXCEPT ![p] = [by |-> "other", maps |-> maps]]
    BY <1>5 DEF OtherReserves
  <2> QED
    BY <1>2, <2>1
<1>6. CASE LoadRaw \/ OpenVolume \/ OpenFails \/ AllDone \/ ReserveFails \/ NoteReserved
           \/ FiesDMThin_new \/ LoadFails
  BY <1>1, <1>6 DEF LoadRaw, OpenVolume, OpenFails, AllDone, ReserveFails, NoteReserved,
     FiesDMThin_new, LoadFails
<1>7. CASE BeginFile \/ MapExtents \/ SendExtent \/ EndFile \/ FileFails
  BY <1>1, <1>7 DEF BeginFile, MapExtents, SendExtent, EndFile, FileFails
<1>8. CASE NothingToRelease \/ ReleaseFails \/ NoteReleased \/ CleanUp \/ Exit
           \/ HandleSignal \/ Kill \/ OtherWrites \/ OtherDiscards \/ UNCHANGED vars
  BY <1>1, <1>8 DEF NothingToRelease, ReleaseFails, NoteReleased, CleanUp, Exit, HandleSignal, Kill,
     OtherWrites, OtherDiscards, vars
<1> QED
  BY <1>3, <1>4, <1>5, <1>6, <1>7, <1>8 DEF Next, Program, Others

LEMMA AgreedStays ==
    ASSUME Reservations, RawQuiet, HeldAgree, Agreed, ~ Stale, SameBytes, [Next]_vars
    PROVE  Agreed'
<1>0. args' = args /\ \A k \in 1 .. Len(args) : maps'[args[k]] = maps[args[k]]
  BY DEF SameBytes
<1>1. ASSUME dmthin' = dmthin PROVE Agreed'
  BY <1>0, <1>1 DEF Agreed
<1>2. CASE FiesDMThin_new
  <2>1. By(cur) = "me" /\ cur \in Pool /\ held[cur] # Nobody
    BY <1>2 DEF FiesDMThin_new, Reservations, Reserved, TypeOK, By, Nobody
  <2>2. dmthin' = held[cur].maps
    BY <1>2, <2>1 DEF FiesDMThin_new
  <2> QED
    BY <1>0, <2>1, <2>2 DEF Agreed, HeldAgree
<1>3. CASE LoadRaw
  <2>1. raw /\ cur' = cur /\ held' = held
    BY <1>3, RawStays DEF LoadRaw, RawQuiet
  <2>2. dmthin' = maps \/ dmthin' = dmthin
    BY <1>3, <2>1 DEF LoadRaw, Stale
  <2> QED
    BY <1>0, <2>2 DEF Agreed
<1>4. CASE OpenVolume \/ OpenFails \/ AllDone \/ ReserveMessage \/ ReserveFails \/ NoteReserved \/ LoadFails
  BY <1>1, <1>4 DEF OpenVolume, OpenFails, AllDone, ReserveMessage, ReserveFails, NoteReserved, LoadFails
<1>5. CASE BeginFile \/ MapExtents \/ SendExtent \/ EndFile \/ FileFails
  BY <1>1, <1>5 DEF BeginFile, MapExtents, SendExtent, EndFile, FileFails
<1>6. CASE NothingToRelease \/ ReleaseMessage \/ ReleaseFails \/ NoteReleased \/ CleanUp \/ Exit
           \/ HandleSignal \/ Kill \/ Others \/ UNCHANGED vars
  BY <1>1, <1>6 DEF NothingToRelease, ReleaseMessage, ReleaseFails, NoteReleased, CleanUp, Exit,
     HandleSignal, Kill, Others, OtherWrites, OtherDiscards, OtherReserves, OtherReleases, vars
<1> QED
  BY <1>2, <1>3, <1>4, <1>5, <1>6 DEF Next, Program
------------------------------------------------------------------------------
\* The pools of the table stay in it until the program cleans up.
LEMMA TableGrows ==
    ASSUME Reservations, [Next]_vars, Working'
    PROVE  Working /\ (table' = table \/ \E p \in Pool : table' = ThinMetaTable_addPool(p))
<1>0. TypeOK /\ Len(args) \in Nat /\ args # <<>>
      /\ \A k \in 1 .. Len(args) : pool[args[k]] \in Pool
  BY GivenAre DEF Reservations, TypeOK
<1> USE DEF Working, Cleaning, Gone
<1>1. CASE LoadRaw
  BY <1>0, <1>1 DEF LoadRaw
<1>2. CASE OpenVolume \/ OpenFails
  <2>1. i + 1 \in 1 .. Len(args)
    BY <1>0, <1>2 DEF OpenVolume, OpenFails, TypeOK
  <2>2. pool[args[i + 1]] \in Pool
    BY <1>0, <2>1
  <2> QED
    BY <1>2, <2>2 DEF OpenVolume, OpenFails
<1>3. CASE AllDone \/ ReserveMessage \/ ReserveFails \/ NoteReserved \/ FiesDMThin_new \/ LoadFails
  BY <1>3 DEF AllDone, ReserveMessage, ReserveFails, NoteReserved, FiesDMThin_new, LoadFails,
     ReleaseThen, Goto
<1>4. CASE BeginFile \/ MapExtents \/ SendExtent \/ EndFile \/ FileFails
  BY <1>4 DEF BeginFile, MapExtents, SendExtent, EndFile, FileFails, ReleaseThen, Goto
<1>5. CASE NothingToRelease \/ ReleaseFails \/ NoteReleased
  BY <1>5 DEF NothingToRelease, ReleaseFails, NoteReleased, Goto
<1>6. CASE ReleaseMessage \/ CleanUp \/ Exit \/ HandleSignal \/ Kill
  BY <1>6 DEF ReleaseMessage, CleanUp, Exit, HandleSignal, Kill
<1>7. CASE OtherWrites \/ OtherDiscards \/ OtherReserves \/ OtherReleases \/ UNCHANGED vars
  BY <1>7 DEF OtherWrites, OtherDiscards, OtherReserves, OtherReleases, vars
<1> QED
  BY <1>1, <1>2, <1>3, <1>4, <1>5, <1>6, <1>7 DEF Next, Program, Others

\* What is in the table stays there.
LEMMA AddsToTable ==
    ASSUME NEW p
    PROVE  /\ DOMAIN table \subseteq DOMAIN ThinMetaTable_addPool(p)
           /\ \A q \in DOMAIN table : ThinMetaTable_addPool(p)[q] = table[q] \/ q = p
           /\ p \in DOMAIN table => ThinMetaTable_addPool(p) = table
BY DEF ThinMetaTable_addPool

LEMMA TableStays ==
    ASSUME Reservations, [Next]_vars, Working'
    PROVE  Working /\ \A q \in DOMAIN table : q \in DOMAIN table' /\ table'[q] = table[q]
BY TableGrows, AddsToTable

LEMMA DevicesStay ==
    ASSUME Reservations, Devices, [Next]_vars
    PROVE  Devices'
<1> SUFFICES ASSUME Working' PROVE Devices'
  BY DEF Devices
<1> DEFINE T == DOMAIN table
<1>0. /\ Working /\ IsFiniteSet(T) /\ \A p \in T : table[p] \in 1 .. Cardinality(T)
      /\ \A p, q \in T : table[p] = table[q] => p = q
  BY TableGrows DEF Devices
<1>1. CASE table' = table
  BY <1>0, <1>1 DEF Devices
<1>2. ASSUME NEW p \in Pool, p \notin T, table' = ThinMetaTable_addPool(p) PROVE Devices'
  <2>1. table' = [q \in T \cup {p} |-> IF q = p THEN Cardinality(T) + 1 ELSE table[q]]
    BY <1>2 DEF ThinMetaTable_addPool
  <2>2. DOMAIN table' = T \cup {p}
    BY <2>1
  <2>3. IsFiniteSet(T \cup {p}) /\ Cardinality(T \cup {p}) = Cardinality(T) + 1
    BY <1>0, <1>2, FS_AddElement
  <2>4. Cardinality(T) \in Nat
    BY <1>0, FS_CardinalityType
  <2> DEFINE c == Cardinality(T)
  <2> HIDE DEF T, c
  <2>5. \A q \in T \cup {p} : table'[q] = IF q = p THEN c + 1 ELSE table[q]
    BY <2>1 DEF c
  <2>6. \A q \in T : q # p /\ table[q] \in 1 .. c /\ c \in Nat
    BY <1>0, <1>2, <2>4 DEF c
  <2>7. \A q \in T \cup {p} : table'[q] \in 1 .. c + 1
    BY <2>4, <2>5, <2>6 DEF c
  <2>8. \A q, r \in T \cup {p} : table'[q] = table'[r] => q = r
    BY <1>0, <2>5, <2>6
  <2> QED
    BY <2>2, <2>3, <2>7, <2>8 DEF Devices, c
<1>3. CASE \E p \in Pool : table' = ThinMetaTable_addPool(p)
  <2>1. PICK p \in Pool : table' = ThinMetaTable_addPool(p)
    BY <1>3
  <2>2. CASE p \in T
    BY <1>1, <2>1, <2>2, AddsToTable
  <2> QED
    BY <1>2, <2>1, <2>2
<1> QED
  BY <1>1, <1>3, TableGrows

\* A step that does nothing to a file.
Aside == UNCHANGED send_vars /\ (pc' = "extents" => pc = "extents" /\ UNCHANGED <<i, dmthin, cur>>)

LEMMA Steps ==
    ASSUME TypeOK, [Next]_vars
    PROVE  SendExtent \/ MapExtents \/ BeginFile \/ EndFile \/ Aside
<1>0. after # "extents"
  BY DEF TypeOK
<1> USE DEF Aside, send_vars
<1>1. CASE LoadRaw \/ OpenVolume \/ OpenFails \/ AllDone
  BY <1>1 DEF LoadRaw, OpenVolume, OpenFails, AllDone
<1>2. CASE ReserveMessage \/ ReserveFails \/ NoteReserved \/ FiesDMThin_new \/ LoadFails \/ FileFails
  BY <1>2 DEF ReserveMessage, ReserveFails, NoteReserved, FiesDMThin_new, LoadFails, FileFails,
     ReleaseThen, Goto
<1>3. CASE NothingToRelease \/ ReleaseFails \/ NoteReleased
  BY <1>0, <1>3 DEF NothingToRelease, ReleaseFails, NoteReleased, Goto
<1>4. CASE ReleaseMessage \/ CleanUp \/ Exit \/ HandleSignal \/ Kill
  BY <1>4 DEF ReleaseMessage, CleanUp, Exit, HandleSignal, Kill
<1>5. CASE OtherWrites \/ OtherDiscards \/ OtherReserves \/ OtherReleases \/ UNCHANGED vars
  BY <1>5 DEF OtherWrites, OtherDiscards, OtherReserves, OtherReleases, vars
<1> QED
  BY <1>1, <1>2, <1>3, <1>4, <1>5 DEF Next, Program, Others

LEMMA AppendIsSeq ==
    ASSUME NEW s, IsSeq(s), NEW e
    PROVE  /\ IsSeq(Append(s, e)) /\ Len(Append(s, e)) = Len(s) + 1
           /\ \A k \in 1 .. Len(s) : Append(s, e)[k] = s[k]
           /\ Append(s, e)[Len(s) + 1] = e
<1> DEFINE S == {s[k] : k \in 1 .. Len(s)} \cup {e}
           t == Append(s, e)
<1>1. Len(s) \in Nat /\ s = [k \in 1 .. Len(s) |-> s[k]]
  BY DEF IsSeq
<1>2. s \in [1 .. Len(s) -> S]
  BY <1>1
<1>3. s \in Seq(S) /\ e \in S
  BY <1>1, <1>2
<1> HIDE DEF S
<1>4. t \in Seq(S) /\ Len(t) = Len(s) + 1 /\ t[Len(s) + 1] = e /\ \A k \in 1 .. Len(s) : t[k] = s[k]
  BY <1>3
<1>5. t = [k \in 1 .. Len(t) |-> t[k]] /\ Len(t) \in Nat
  <2> HIDE DEF t
  <2>1. t \in [1 .. Len(t) -> S] /\ Len(t) \in Nat
    BY <1>4, LenProperties
  <2> QED
    BY <2>1
<1> QED
  BY <1>4, <1>5 DEF IsSeq

\* Item j of s is replaced by e.
Replaced(s, j, e, t) == t = [s EXCEPT ![j] = e]

LEMMA ExceptIsSeq ==
    ASSUME NEW s, IsSeq(s), NEW j, j \in 1 .. Len(s), NEW e, NEW t, Replaced(s, j, e, t)
    PROVE  IsSeq(t) /\ Len(t) = Len(s) /\ t[j] = e /\ \A k \in 1 .. Len(s) : k # j => t[k] = s[k]
<1> DEFINE S == {s[k] : k \in 1 .. Len(s)} \cup {e}
<1>1. Len(s) \in Nat /\ s = [k \in 1 .. Len(s) |-> s[k]]
  BY DEF IsSeq
<1>2. s \in [1 .. Len(s) -> S]
  BY <1>1
<1>3. s \in Seq(S) /\ e \in S
  BY <1>1, <1>2
<1> HIDE DEF S
<1>4. t \in Seq(S) /\ Len(t) = Len(s) /\ \A k \in 1 .. Len(s) : t[k] = IF k = j THEN e ELSE s[k]
  BY <1>3, ExceptSeq DEF Replaced
<1>5. t = [k \in 1 .. Len(t) |-> t[k]] /\ Len(t) \in Nat
  <2>1. t \in [1 .. Len(t) -> S] /\ Len(t) \in Nat
    BY <1>4, LenProperties
  <2> QED
    BY <2>1
<1> QED
  BY <1>4, <1>5 DEF IsSeq

LEMMA TailIsSeq ==
    ASSUME NEW s, IsSeq(s), s # <<>>
    PROVE  /\ IsSeq(Tail(s)) /\ Len(s) \in Nat \ {0} /\ Len(Tail(s)) = Len(s) - 1
           /\ Head(s) = s[1] /\ \A k \in 1 .. Len(s) - 1 : Tail(s)[k] = s[k + 1]
<1> DEFINE S == {s[k] : k \in 1 .. Len(s)}
           t == Tail(s)
<1>1. Len(s) \in Nat /\ s = [k \in 1 .. Len(s) |-> s[k]]
  BY DEF IsSeq
<1>2. s \in [1 .. Len(s) -> S]
  BY <1>1
<1>3. s \in Seq(S)
  BY <1>1, <1>2
<1> HIDE DEF S
<1>4. Len(s) \in Nat \ {0}
  BY <1>3, EmptySeq
<1>5. t \in Seq(S) /\ Len(t) = Len(s) - 1 /\ Head(s) = s[1] /\ \A k \in 1 .. Len(s) - 1 : t[k] = s[k + 1]
  BY <1>3, <1>4
<1>6. t = [k \in 1 .. Len(t) |-> t[k]] /\ Len(t) \in Nat
  <2> HIDE DEF t
  <2>1. t \in [1 .. Len(t) -> S] /\ Len(t) \in Nat
    BY <1>4, <1>5, LenProperties
  <2> QED
    BY <2>1
<1> QED
  BY <1>4, <1>5, <1>6 DEF IsSeq
------------------------------------------------------------------------------
\* What is changed of the volume that is sent leaves the others alone.
LEMMA GotChanges ==
    ASSUME TypeOK, CurIs, Lengths, pc = "extents", NEW g, got' = [got EXCEPT ![i] = g] \/ got' = got
    PROVE  /\ IsSeq(got') /\ Len(got') = Len(got) /\ i \in 1 .. Len(got) /\ Len(got) = i
           /\ got' = [got EXCEPT ![i] = g] => got'[i] = g
           /\ \A k \in 1 .. Len(got) : k # i => got'[k] = got[k]
<1>1. IsSeq(got) /\ Len(got) = i /\ i \in Nat
  BY DEF Lengths, TypeOK
<1>2. i \in 1 .. Len(got)
  BY <1>1 DEF CurIs, Reading, TypeOK
<1>3. \A h : Replaced(got, i, g, h) =>
        IsSeq(h) /\ Len(h) = Len(got) /\ h[i] = g /\ \A k \in 1 .. Len(got) : k # i => h[k] = got[k]
  <2>1. IsSeq(got) /\ i \in 1 .. Len(got)
    BY <1>1, <1>2
  <2> QED
    BY <2>1, ExceptIsSeq
<1>4. CASE got' = [got EXCEPT ![i] = g]
  <2>1. Replaced(got, i, g, got')
    BY <1>4 DEF Replaced
  <2> QED
    BY <1>1, <1>2, <1>3, <2>1
<1>5. CASE got' = got /\ got' # [got EXCEPT ![i] = g]
  BY <1>1, <1>2, <1>5
<1> QED
  BY <1>4, <1>5

LEMMA LengthsStay ==
    ASSUME TypeOK, CurIs, Lengths, SameBytes, [Next]_vars
    PROVE  Lengths'
<1>0. /\ IsSeq(got) /\ Len(got) \in 0 .. Len(args) /\ args' = args /\ Len(args) \in Nat /\ i \in 0 .. Len(args)
      /\ pc = "loadraw" => i = 0 /\ got = <<>>
      /\ pc = "volume" \/ (pc \in {"release", "released"} /\ after = "volume") => Len(got) = i
      /\ pc \in {"reserve", "reserved", "load", "file"} => Len(got) = i - 1
      /\ pc = "extents" => Len(got) = i
      /\ after \in {"volume", "destroy", "cleanup", "cleaning"}
  BY GivenAre DEF Lengths, SameBytes, TypeOK
<1> DEFINE Fits(g) ==
             /\ pc' = "loadraw" => i' = 0 /\ g = <<>>
             /\ pc' = "volume" \/ (pc' \in {"release", "released"} /\ after' = "volume") => Len(g) = i'
             /\ pc' \in {"reserve", "reserved", "load", "file"} => Len(g) = i' - 1
             /\ pc' = "extents" => Len(g) = i'
<1>1. ASSUME got' = got, Fits(got) PROVE Lengths'
  BY <1>0, <1>1 DEF Lengths
<1>2. CASE LoadRaw
  <2>1. Len(got) = 0
    BY <1>0, <1>2 DEF LoadRaw
  <2> QED
    BY <1>0, <1>1, <1>2, <2>1 DEF LoadRaw, send_vars
<1>3. CASE OpenVolume \/ OpenFails \/ AllDone
  <2>1. got' = got
    BY <1>3 DEF OpenVolume, OpenFails, AllDone, send_vars
  <2>2. Len(got) = i
    BY <1>0, <1>3 DEF OpenVolume, OpenFails, AllDone
  <2>3. Fits(got)
    BY <1>0, <1>3, <2>2 DEF OpenVolume, OpenFails, AllDone
  <2> QED
    BY <1>1, <2>1, <2>3
<1>4. CASE ReserveMessage \/ ReserveFails \/ NoteReserved \/ FiesDMThin_new \/ LoadFails
  <2>1. got' = got
    BY <1>4 DEF ReserveMessage, ReserveFails, NoteReserved, FiesDMThin_new, LoadFails, send_vars
  <2>2. Fits(got)
    BY <1>0, <1>4 DEF ReserveMessage, ReserveFails, NoteReserved, FiesDMThin_new, LoadFails,
       ReleaseThen, Goto
  <2> QED
    BY <1>1, <2>1, <2>2
<1>5. CASE NothingToRelease \/ ReleaseFails \/ NoteReleased
  <2>1. got' = got
    BY <1>5 DEF NothingToRelease, ReleaseFails, NoteReleased, send_vars
  <2>2. Fits(got)
    BY <1>0, <1>5 DEF NothingToRelease, ReleaseFails, NoteReleased, Goto
  <2> QED
    BY <1>1, <2>1, <2>2
<1>6. CASE ReleaseMessage \/ CleanUp \/ Exit \/ HandleSignal \/ Kill \/ FileFails
  <2>1. got' = got
    BY <1>6 DEF ReleaseMessage, CleanUp, Exit, HandleSignal, Kill, FileFails, send_vars
  <2>2. Fits(got)
    BY <1>0, <1>6 DEF ReleaseMessage, CleanUp, Exit, HandleSignal, Kill, FileFails, ReleaseThen, Goto
  <2> QED
    BY <1>1, <2>1, <2>2
<1>7. CASE OtherWrites \/ OtherDiscards \/ OtherReserves \/ OtherReleases \/ UNCHANGED vars
  <2>1. UNCHANGED <<got, pc, after, i>>
    BY <1>7 DEF OtherWrites, OtherDiscards, OtherReserves, OtherReleases, vars, send_vars
  <2> QED
    BY <1>0, <1>1, <2>1
<1>8. CASE BeginFile
  <2>1. PICK e : got' = Append(got, e)
    BY <1>8 DEF BeginFile
  <2>2. IsSeq(got') /\ Len(got') = Len(got) + 1 /\ Len(got) = i - 1
    BY <1>0, <1>8, <2>1, AppendIsSeq DEF BeginFile
  <2>3. pc' = "extents" /\ i' = i
    BY <1>8 DEF BeginFile
  <2> HIDE DEF Fits
  <2>4. Len(got') \in 0 .. Len(args)
    BY <1>0, <2>2
  <2>5. Len(got') = i'
    BY <1>0, <2>2, <2>3
  <2> QED
    BY <1>0, <2>2, <2>3, <2>4, <2>5 DEF Lengths
<1>9. CASE MapExtents
  BY <1>0, <1>1, <1>9 DEF MapExtents
<1>10. CASE SendExtent \/ EndFile
  <2>1. PICK g : got' = got \/ got' = [got EXCEPT ![i] = g]
    <3>1. CASE SendExtent
      BY <3>1 DEF SendExtent
    <3>2. CASE EndFile
      BY <3>2 DEF EndFile
    <3> QED
      BY <1>10, <3>1, <3>2
  <2>2. pc = "extents"
    BY <1>10 DEF SendExtent, EndFile
  <2>3. IsSeq(got') /\ Len(got') = Len(got) /\ Len(got) = i
    BY <2>1, <2>2, GotChanges
  <2>4. i' = i /\ pc' \notin {"loadraw", "reserve", "reserved", "load", "file"}
    BY <1>0, <1>10 DEF SendExtent, EndFile, ReleaseThen, Goto
  <2> QED
    BY <1>0, <2>3, <2>4 DEF Lengths
<1> QED
  BY <1>2, <1>3, <1>4, <1>5, <1>6, <1>7, <1>8, <1>9, <1>10 DEF Next, Program, Others
------------------------------------------------------------------------------
\* What is owned stays so as long as it is there and is not what is being sent.
LEMMA OwnedStays ==
    ASSUME Lengths, Lengths', SameBytes, Len(got) <= Len(got'),
           \A q \in DOMAIN table : q \in DOMAIN table' /\ table'[q] = table[q],
           NEW x, NEW k, NEW l, IsOwned(x, k, l), got'[k][l] = got[k][l],
           pc' = "extents" /\ k = i' => l < at'
    PROVE  IsOwned(x, k, l)'
<1>1. /\ k \in 1 .. Len(got) /\ l \in BytesOf(k)
      /\ pool[args[k]] \in DOMAIN table /\ maps[args[k]][l \div BlockSize] # Nothing
      /\ x = PlaceOf(k, l) /\ Right(k, l)
  BY DEF IsOwned
<1>2. k \in 1 .. Len(args) /\ k \in 1 .. Len(got')
  BY <1>1 DEF Lengths, IsSeq
<1>3. UNCHANGED <<pool, size, args>> /\ maps'[args[k]] = maps[args[k]] /\ LiveByte(args[k], l)' = LiveByte(args[k], l)
  BY <1>1, <1>2 DEF SameBytes
<1>4. l \in BytesOf(k)' /\ Right(k, l)'
  BY <1>1, <1>3 DEF BytesOf, Right
<1>5. pool'[args'[k]] \in DOMAIN table' /\ maps'[args'[k]][l \div BlockSize] # Nothing /\ x = PlaceOf(k, l)'
  BY <1>1, <1>3 DEF PlaceOf
<1> QED
  BY <1>2, <1>4, <1>5 DEF IsOwned

\* What was finished stays right if its bytes stay.
LEMMA FinishedStays ==
    ASSUME Lengths, Lengths', SameBytes, Len(got) <= Len(got'), NEW k, k \in 1 .. Len(got),
           \A l \in BytesOf(k) : Right(k, l), got'[k] = got[k]
    PROVE  k \in 1 .. Len(got') /\ \A l \in BytesOf(k)' : Right(k, l)'
<1>1. k \in 1 .. Len(args) /\ k \in 1 .. Len(got')
  BY DEF Lengths, IsSeq
<1>2. \A l \in BytesOf(k) : LiveByte(args[k], l)' = LiveByte(args[k], l)
  BY <1>1 DEF SameBytes
<1> QED
  BY <1>1, <1>2 DEF SameBytes, BytesOf, Right

LEMMA AsideKeeps ==
    ASSUME Reservations, Mappings, Lengths, Lengths', Finished, Owners, Current, Batch, SameBytes,
           Aside, [Next]_vars
    PROVE  Finished' /\ Owners' /\ Current' /\ Batch'
<1>1. /\ UNCHANGED <<ref, at, exs, owner, got, ended>> /\ Len(got) \in Nat
      /\ pc' = "extents" => pc = "extents" /\ UNCHANGED <<i, dmthin, cur>>
  BY DEF Aside, send_vars, Lengths, IsSeq
<1>2. Finished'
  <2> SUFFICES ASSUME NEW k \in ended
               PROVE  k \in 1 .. Len(got') /\ (pc' = "extents" => k # i') /\ \A l \in BytesOf(k)' : Right(k, l)'
    BY <1>1 DEF Finished
  <2>1. k \in 1 .. Len(got) /\ (pc = "extents" => k # i) /\ \A l \in BytesOf(k) : Right(k, l)
    BY DEF Finished
  <2> QED
    BY <1>1, <2>1, FinishedStays
<1>3. Owners'
  <2> SUFFICES ASSUME Working', NEW x \in DOMAIN owner
               PROVE  IsOwned(x, owner[x].volume, owner[x].logical)'
    BY <1>1 DEF Owners
  <2>1. Working /\ \A q \in DOMAIN table : q \in DOMAIN table' /\ table'[q] = table[q]
    BY TableStays
  <2> DEFINE k == owner[x].volume
             l == owner[x].logical
  <2>2. IsOwned(x, k, l)
    BY <2>1 DEF Owners
  <2>3. owner'[x].volume = k /\ owner'[x].logical = l
    BY <1>1
  <2>4. IsOwned(x, k, l)'
    <3>1. ASSUME NEW a, NEW b, IsOwned(x, a, b) PROVE IsOwned(x, a, b)'
      <4>1. pc = "extents" /\ a = i => b < at
        BY <3>1 DEF IsOwned
      <4> QED
        BY <1>1, <2>1, <3>1, <4>1, OwnedStays
    <3>2. ASSUME NEW a, NEW b, a = k, b = l PROVE IsOwned(x, a, b)'
      BY <2>2, <3>1, <3>2
    <3>3. ASSUME NEW a, NEW b, a = owner[x].volume, b = owner[x].logical
          PROVE  IsOwned(x, owner[x].volume, owner[x].logical)'
      BY <1>1, <3>2, <3>3 DEF IsOwned, PlaceOf, Right
    <3> QED
      BY <3>3
  <2> QED
    BY <2>4
<1>4. Current' /\ Batch'
  <2> SUFFICES ASSUME pc' = "extents" PROVE Current' /\ Batch'
    BY DEF Current, Batch
  <2>1. pc = "extents" /\ UNCHANGED <<i, dmthin, ref, at, exs, got, size, args>>
    BY <1>1 DEF SameBytes
  <2>2. i \in 1 .. Len(args) /\ v = args[i]
    BY <2>1 DEF Mappings, CurIs, Reading, v
  <2>3. \A l \in 0 .. size[v] - 1 : LiveByte(args[i], l)' = LiveByte(args[i], l)
    BY <2>1, <2>2 DEF SameBytes, BytesOf
  <2>4. v' = v
    BY <2>1 DEF v
  <2>5. Current'
    BY <2>1, <2>2, <2>3, <2>4 DEF Current, Right
  <2>6. Batch'
    BY <2>1, <2>4 DEF Batch, IsSeq, IsBatch, ExtentOf
  <2> QED
    BY <2>5, <2>6
<1> QED
  BY <1>2, <1>3, <1>4
------------------------------------------------------------------------------
\* The first k of increasing extents end before the next.
LEMMA ExtentsAscend ==
    ASSUME NEW exts, NEW f, NEW l, AreExtents(exts, f, l)
    PROVE  \A j, k \in 1 .. Len(exts) : j < k => exts[j].logical + exts[j].length <= exts[k].logical
<1>1. /\ Len(exts) \in Nat
      /\ \A k \in 1 .. Len(exts) : exts[k].logical \in Nat /\ exts[k].length \in Nat \ {0}
      /\ \A k \in 1 .. Len(exts) - 1 : exts[k].logical + exts[k].length <= exts[k + 1].logical
  BY DEF AreExtents
<1> SUFFICES ASSUME NEW j \in 1 .. Len(exts)
             PROVE  \A k \in 1 .. Len(exts) : j < k => exts[j].logical + exts[j].length <= exts[k].logical
  OBVIOUS
<1> DEFINE T == {k \in 1 .. Len(exts) : j < k /\ ~ (exts[j].logical + exts[j].length <= exts[k].logical)}
<1>2. T \subseteq Nat
  BY <1>1
<1> SUFFICES ASSUME T # {} PROVE FALSE
  OBVIOUS
<1>3. PICK k \in T : \A y \in T : k <= y
  <2> HIDE DEF T
  <2> QED
    BY <1>2, LeastOf
<1>4. k \in 1 .. Len(exts) /\ j < k /\ ~ (exts[j].logical + exts[j].length <= exts[k].logical)
  OBVIOUS
<1>5. CASE k = j + 1
  BY <1>1, <1>4, <1>5
<1>6. CASE k # j + 1
  <2> DEFINE h == k - 1
  <2>1. h \in 1 .. Len(exts) - 1 /\ j < h /\ h + 1 = k /\ h < k
    BY <1>1, <1>4, <1>6
  <2>2. h \notin T
    BY <1>3, <2>1
  <2> HIDE DEF h
  <2>3. exts[j].logical + exts[j].length <= exts[h].logical
    BY <1>1, <2>1, <2>2
  <2>4. exts[h].logical + exts[h].length <= exts[k].logical
    BY <1>1, <2>1
  <2> DEFINE a == exts[j].logical + exts[j].length
             b == exts[h].logical
             c == exts[h].length
             d == exts[k].logical
  <2>5. a \in Nat /\ b \in Nat /\ c \in Nat /\ d \in Nat
    BY <1>1, <1>4, <2>1
  <2>6. a <= b /\ b + c <= d /\ ~ (a <= d)
    BY <1>4, <2>3, <2>4
  <2> HIDE DEF a, b, c, d
  <2> QED
    BY <2>5, <2>6
<1> QED
  BY <1>5, <1>6

LEMMA EndIsInt ==
    ASSUME NEW exts, NEW f, NEW l, AreExtents(exts, f, l)
    PROVE  EndOf(exts) \in Int
<1>1. CASE Len(exts) = ExtentRoom
  <2>1. Len(exts) \in 1 .. Len(exts) /\ Last(exts) = exts[Len(exts)]
    BY <1>1, BoundsAssumption DEF Last
  <2>2. exts[Len(exts)].logical \in Nat /\ exts[Len(exts)].length \in Nat
    BY <2>1 DEF AreExtents
  <2> QED
    BY <1>1, <2>1, <2>2 DEF EndOf
<1>2. CASE Len(exts) # ExtentRoom
  <2>1. Blocks * BlockSize \in Nat
    BY SizesAreNat, BlockSizeAssumption, Products
  <2> QED
    BY <1>2, <2>1 DEF EndOf
<1> QED
  BY <1>1, <1>2

LEMMA ExtentsAreBatch ==
    ASSUME NEW exts, NEW f, NEW l \in Nat, NEW z, AreExtents(exts, f, l)
    PROVE  IsSeq(exts) /\ IsBatch(exts, f, l, z)
<1>1. IsSeq(exts) /\ Len(exts) \in Nat
  BY DEF AreExtents, IsSeq
<1>2. ASSUME NEW k \in 1 .. Len(exts)
      PROVE  /\ exts[k].physical \in Nat /\ exts[k].logical \in Nat /\ l <= exts[k].logical
             /\ exts[k].length \in Nat \ {0} /\ exts[k].logical + exts[k].length <= EndOf(exts)
             /\ \A y \in ExtentOf(exts[k]) :
                  /\ f[y \div BlockSize] # Nothing
                  /\ exts[k].physical + (y - exts[k].logical) = f[y \div BlockSize] * BlockSize + (y % BlockSize)
  BY DEF AreExtents, ExtentOf
<1>3. ASSUME NEW k \in 1 .. Len(exts), NEW y \in l .. exts[k].logical - 1, f[y \div BlockSize] # Nothing
      PROVE  \E j \in 1 .. k - 1 : y \in ExtentOf(exts[j])
  <2> DEFINE a == exts[k].logical
             e == EndOf(exts)
  <2>1. a \in Nat /\ a + exts[k].length <= e /\ exts[k].length \in Nat \ {0} /\ e \in Int
    BY <1>2, EndIsInt
  <2>2. y \in l .. a - 1
    BY <1>3
  <2> HIDE DEF a, e
  <2>3. y \in l .. e - 1 /\ y \in Nat /\ y < a
    BY <2>1, <2>2
  <2>4. PICK j \in 1 .. Len(exts) : y \in exts[j].logical .. exts[j].logical + exts[j].length - 1
    BY <1>3, <2>3 DEF AreExtents, e
  <2>5. exts[j].logical \in Nat /\ exts[j].logical <= y
    BY <1>2, <2>4
  <2>6. ~ (k <= j)
    <3> SUFFICES ASSUME k <= j PROVE FALSE
      OBVIOUS
    <3>1. CASE k = j
      BY <2>1, <2>3, <2>5, <3>1 DEF a
    <3>2. CASE k # j
      <4>1. k < j
        BY <1>1, <3>2
      <4>2. a + exts[k].length <= exts[j].logical
        BY <4>1, ExtentsAscend DEF a
      <4> QED
        BY <2>1, <2>3, <2>5, <4>2
    <3> QED
      BY <3>1, <3>2
  <2>7. j \in 1 .. k - 1
    BY <1>1, <2>6
  <2> QED
    BY <2>4, <2>7 DEF ExtentOf
<1>4. \A j, k \in 1 .. Len(exts) : j < k => exts[j].logical + exts[j].length <= exts[k].logical
  BY ExtentsAscend
<1>5. IsBatch(exts, f, l, z)
  BY <1>2, <1>3, <1>4 DEF IsBatch
<1> QED
  BY <1>1, <1>5

\* The current volume.
LEMMA CurrentIs ==
    ASSUME TypeOK, Mappings, Reading
    PROVE  /\ i \in 1 .. Len(args) /\ i \in Nat /\ v = args[i] /\ v \in Vol /\ cur = pool[v]
           /\ size[v] \in Nat /\ size[v] <= Blocks * BlockSize /\ BytesOf(i) = 0 .. size[v] - 1
<1>1. i \in 1 .. Len(args) /\ cur = pool[args[i]] /\ v = args[i] /\ args[i] \in Vol /\ Len(args) \in Nat
  BY GivenAre DEF Mappings, CurIs, v
<1>2. size[v] \in 0 .. Blocks * BlockSize /\ Blocks * BlockSize \in Nat
  BY <1>1, SizesAreNat, BlockSizeAssumption, Products DEF Mappings, MapsTyped
<1> QED
  BY <1>1, <1>2 DEF BytesOf

LEMMA MapKeeps ==
    ASSUME Reservations, Mappings, Lengths, Lengths', Finished, Owners, Current, SameBytes,
           MapExtents, [Next]_vars
    PROVE  Finished' /\ Owners' /\ Current' /\ Batch'
<1>1. /\ pc = "extents" /\ UNCHANGED <<pc, i, args, size, pool, ref, at, owner, got, ended, dmthin, maps, table, disk, after>>
      /\ exs' = ThinMeta_map(v, at).extents
  BY DEF MapExtents, pool_vars, arg_vars
<1>2. Finished' /\ Owners' /\ Current'
  <2>1. \A k, l : Right(k, l)' <=> Right(k, l)
    BY <1>1 DEF Right, LiveByte, ByteAt
  <2>2. \A k : BytesOf(k)' = BytesOf(k)
    BY <1>1 DEF BytesOf
  <2>3. Finished'
    BY <1>1, <2>1, <2>2 DEF Finished
  <2>4. \A x, k, l : IsOwned(x, k, l)' <=> IsOwned(x, k, l)
    BY <1>1, <2>1, <2>2 DEF IsOwned, PlaceOf
  <2>5. Owners'
    <3>1. ASSUME NEW x \in DOMAIN owner
          PROVE  IsOwned(x, owner[x].volume, owner[x].logical)' <=> IsOwned(x, owner[x].volume, owner[x].logical)
      <4>1. ASSUME NEW a, NEW b, a = owner[x].volume, b = owner[x].logical
            PROVE  IsOwned(x, owner[x].volume, owner[x].logical)' <=> IsOwned(x, a, b)
        BY <1>1, <2>1, <2>2, <4>1 DEF IsOwned, PlaceOf
      <4> QED
        BY <4>1
    <3>2. Working' <=> Working
      BY <1>1 DEF Working, Cleaning, Gone
    <3> QED
      BY <1>1, <3>1, <3>2 DEF Owners
  <2>6. Current'
    BY <1>1, <2>1 DEF Current, v, Right, LiveByte, ByteAt
  <2> QED
    BY <2>3, <2>5, <2>6
<1>3. v \in Vol /\ at \in Nat
  BY <1>1, CurrentIs DEF Reservations, Reading, Current
<1>4. AreExtents(ThinMeta_map(v, at).extents, dmthin[v], at)
  BY <1>3, MapIsRight DEF Mappings, MapsTyped
<1>5. IsSeq(exs') /\ IsBatch(exs', dmthin[v], at, size[v])
  BY <1>1, <1>3, <1>4, ExtentsAreBatch
<1>6. Batch'
  BY <1>1, <1>5 DEF Batch, v
<1> QED
  BY <1>2, <1>6

LEMMA BeginKeeps ==
    ASSUME Reservations, Mappings, Lengths, Lengths', Finished, Owners, SameBytes, BeginFile, [Next]_vars
    PROVE  Finished' /\ Owners' /\ Current' /\ Batch'
<1>1. /\ pc = "file" /\ pc' = "extents" /\ at' = 0 /\ exs' = <<>>
      /\ UNCHANGED <<i, args, size, pool, owner, ended, maps, table, disk, after>>
      /\ got' = Append(got, [l \in 0 .. size[v] - 1 |-> IF ref' THEN LiveByte(v, l) ELSE Nothing])
  BY DEF BeginFile, pool_vars, arg_vars
<1>2. /\ i \in 1 .. Len(args) /\ i \in Nat /\ v = args[i] /\ v \in Vol /\ v' = v
      /\ size[v] \in Nat /\ BytesOf(i) = 0 .. size[v] - 1
  BY <1>1, CurrentIs DEF Reservations, Reading, v
<1>3. Len(got) = i - 1 /\ IsSeq(got)
  BY <1>1 DEF Lengths
<1> DEFINE e == [l \in 0 .. size[v] - 1 |-> IF ref' THEN LiveByte(v, l) ELSE Nothing]
<1>4. Len(got') = i /\ got'[i] = e /\ \A k \in 1 .. Len(got) : got'[k] = got[k]
  <2>1. got' = Append(got, e)
    BY <1>1
  <2> HIDE DEF e
  <2>2. Len(got') = Len(got) + 1 /\ got'[Len(got) + 1] = e /\ \A k \in 1 .. Len(got) : got'[k] = got[k]
    BY <1>3, <2>1, AppendIsSeq
  <2> QED
    BY <1>2, <1>3, <2>2
<1>5. Finished'
  <2> SUFFICES ASSUME NEW k \in ended
               PROVE  k \in 1 .. Len(got') /\ k # i /\ \A l \in BytesOf(k)' : Right(k, l)'
    BY <1>1 DEF Finished
  <2>1. k \in 1 .. Len(got) /\ \A l \in BytesOf(k) : Right(k, l)
    BY DEF Finished
  <2>2. k # i /\ Len(got) <= Len(got')
    BY <1>2, <1>3, <1>4, <2>1
  <2> QED
    BY <1>4, <2>1, <2>2, FinishedStays
<1>6. Owners'
  <2> SUFFICES ASSUME Working', NEW x \in DOMAIN owner
               PROVE  IsOwned(x, owner[x].volume, owner[x].logical)'
    BY <1>1 DEF Owners
  <2>1. Working /\ \A q \in DOMAIN table : q \in DOMAIN table' /\ table'[q] = table[q]
    BY TableStays
  <2>2. ASSUME NEW a, NEW b, IsOwned(x, a, b) PROVE IsOwned(x, a, b)'
    <3>1. a \in 1 .. Len(got) /\ a # i
      BY <1>2, <1>3, <2>2 DEF IsOwned
    <3>2. Len(got) <= Len(got') /\ got'[a][b] = got[a][b] /\ i' # a
      BY <1>1, <1>2, <1>3, <1>4, <3>1
    <3> QED
      BY <2>1, <2>2, <3>2, OwnedStays
  <2>3. IsOwned(x, owner[x].volume, owner[x].logical)
    BY <2>1 DEF Owners
  <2>4. ASSUME NEW a, NEW b, a = owner[x].volume, b = owner[x].logical
        PROVE  IsOwned(x, owner[x].volume, owner[x].logical)'
    <3>1. IsOwned(x, a, b)'
      BY <2>2, <2>3, <2>4
    <3> QED
      BY <1>1, <2>4, <3>1 DEF IsOwned, PlaceOf, Right
  <2> QED
    BY <2>4
<1>7. Current'
  <2>1. at' \in 0 .. size'[v']
    BY <1>1, <1>2
  <2>2. got'[i] = [l \in 0 .. size[v] - 1 |-> got'[i][l]]
    BY <1>4
  <2>3. ASSUME NEW l \in 0 .. size[v] - 1, ref' \/ l < 0 PROVE got'[i][l] = LiveByte(args[i], l)'
    <3>1. ref' /\ got'[i][l] = LiveByte(v, l)
      BY <1>2, <1>4, <2>3
    <3>2. LiveByte(args[i], l)' = LiveByte(args[i], l)
      BY <1>1 DEF LiveByte, ByteAt
    <3> QED
      BY <1>1, <1>2, <3>1, <3>2
  <2> QED
    BY <1>1, <1>2, <2>1, <2>2, <2>3 DEF Current, Right
<1>8. Batch'
  <2>1. IsSeq(<<>>) /\ Len(<<>>) = 0
    BY DEF IsSeq
  <2> QED
    BY <1>1, <2>1 DEF Batch, IsBatch
<1> QED
  BY <1>5, <1>6, <1>7, <1>8
------------------------------------------------------------------------------
\* A place in bytes has one block and one offset in it.
LEMMA BlockAndOffset ==
    ASSUME NEW b \in Nat, NEW o, o \in 0 .. BlockSize - 1
    PROVE  (b * BlockSize + o) \div BlockSize = b /\ (b * BlockSize + o) % BlockSize = o
<1> DEFINE w == BlockSize
           y == b * w + o
           d == y \div w
           r == y % w
<1>1. w \in Nat \ {0} /\ b * w \in Nat /\ o \in Nat /\ o < w
  BY BlockSizeAssumption, Products
<1>2. y \in Nat /\ y = b * w + o
  BY <1>1
<1> HIDE DEF y
<1>3. y = d * w + r /\ d \in Nat /\ r \in 0 .. w - 1
  BY <1>2, BytesOfBlock
<1>4. d * w \in Nat /\ (b + 1) * w = b * w + w /\ (d + 1) * w = d * w + w
      /\ (b < d => (b + 1) * w <= d * w) /\ (d < b => (d + 1) * w <= b * w)
  <2>1. b < d => b + 1 <= d
    BY <1>3
  <2>2. d < b => d + 1 <= b
    BY <1>3
  <2>3. b + 1 \in Nat /\ d + 1 \in Nat
    BY <1>3
  <2> HIDE DEF d
  <2> QED
    BY <1>1, <1>3, <2>1, <2>2, <2>3, Products
<1> HIDE DEF d, r
<1> DEFINE p == b * w
           q == d * w
<1>5. p \in Nat /\ q \in Nat /\ p + o = q + r /\ (b < d => p + w <= q) /\ (d < b => q + w <= p)
  BY <1>1, <1>2, <1>3, <1>4
<1> HIDE DEF p, q, w
<1>6. ~ (b < d) /\ ~ (d < b)
  BY <1>1, <1>3, <1>5
<1>7. b = d
  BY <1>3, <1>6
<1>8. p = q
  BY <1>7 DEF p, q
<1>9. o = r
  BY <1>1, <1>3, <1>5, <1>8
<1> QED
  BY <1>7, <1>9 DEF d, r, y, w

\* Bytes at the same place are the same.
LEMMA SamePlace ==
    ASSUME TypeOK, MapsTyped, Devices, Working,
           NEW k, k \in 1 .. Len(args), NEW l, l \in BytesOf(k), NEW j, j \in 1 .. Len(args), NEW y, y \in BytesOf(j),
           maps[args[k]][l \div BlockSize] # Nothing, maps[args[j]][y \div BlockSize] # Nothing,
           pool[args[k]] \in DOMAIN table, pool[args[j]] \in DOMAIN table, PlaceOf(k, l) = PlaceOf(j, y)
    PROVE  LiveByte(args[k], l) = LiveByte(args[j], y)
<1> DEFINE a == maps[args[k]][l \div BlockSize]
           b == maps[args[j]][y \div BlockSize]
           o == l % BlockSize
           r == y % BlockSize
<1>1. table[pool[args[k]]] = table[pool[args[j]]] /\ a * BlockSize + o = b * BlockSize + r
  BY DEF PlaceOf
<1>2. pool[args[k]] = pool[args[j]]
  BY <1>1 DEF Devices
<1>3. a \in Nat /\ b \in Nat /\ o \in 0 .. BlockSize - 1 /\ r \in 0 .. BlockSize - 1
  BY ByteIsIn, SizesAssumption
<1>4. a # Nothing /\ b # Nothing
  OBVIOUS
<1>5. LiveByte(args[k], l) = ByteAt(args[k], a, l) /\ LiveByte(args[j], y) = ByteAt(args[j], b, y)
  BY DEF LiveByte
<1> HIDE DEF a, b
<1>6. a = b /\ o = r
  <2> HIDE DEF o, r
  <2> QED
    BY <1>1, <1>3, BlockAndOffset
<1> QED
  BY <1>2, <1>4, <1>5, <1>6 DEF ByteAt

\* The byte of a block, wherever it is read.
LEMMA ReadIsLive ==
    ASSUME TypeOK, MapsTyped, NEW k, k \in 1 .. Len(args), v = args[k], NEW l, l \in BytesOf(k),
           maps[v][l \div BlockSize] # Nothing,
           NEW p, p = maps[v][l \div BlockSize] * BlockSize + (l % BlockSize)
    PROVE  Read(l, p) = LiveByte(v, l)
<1> DEFINE a == maps[v][l \div BlockSize]
           o == l % BlockSize
<1>1. a \in Nat /\ o \in 0 .. BlockSize - 1
  BY ByteIsIn, SizesAssumption
<1>2. p \div BlockSize = a
  <2>1. p = a * BlockSize + o
    OBVIOUS
  <2> HIDE DEF a, o
  <2> QED
    BY <1>1, <2>1, BlockAndOffset
<1> QED
  BY <1>2 DEF Read, LiveByte

SendPlace(l) == <<table[cur], Head(exs).physical + l - Head(exs).logical>>
SendEnd == Smaller(Head(exs).logical + Head(exs).length, size[v])

\* The extent that is sent.
LEMMA ExtentToSend ==
    ASSUME Reservations, Mappings, Lengths, Agreed, Current, Batch, SendExtent
    PROVE  LET e == Head(exs) IN
           /\ e.logical \in Nat /\ e.length \in Nat \ {0} /\ at \in Nat /\ at <= e.logical
           /\ SendEnd \in Nat /\ at <= SendEnd /\ SendEnd <= size[v] /\ SendEnd <= e.logical + e.length
           /\ SendEnd = e.logical + e.length \/ SendEnd = size[v]
           /\ \A l \in at .. e.logical - 1 : l < size[v] => maps[v][l \div BlockSize] = Nothing
           /\ \A l \in e.logical .. SendEnd - 1 :
                /\ maps[v][l \div BlockSize] # Nothing /\ SendPlace(l) = PlaceOf(i, l)
                /\ SendPlace(l)[2] = maps[v][l \div BlockSize] * BlockSize + (l % BlockSize)
<1> DEFINE e == Head(exs)
           f == maps[v]
           z == size[v]
           end == SendEnd
<1>0. pc = "extents" /\ exs # <<>>
  BY DEF SendExtent
<1>1. i \in 1 .. Len(args) /\ v = args[i] /\ v \in Vol /\ cur = pool[v] /\ z \in Nat
  BY <1>0, CurrentIs DEF Reservations, Reading
<1>2. dmthin[v] = f
  BY <1>1 DEF Agreed
<1>3. IsSeq(exs) /\ IsBatch(exs, f, at, z)
  BY <1>0, <1>2 DEF Batch
<1>4. e = exs[1] /\ 1 \in 1 .. Len(exs)
  <2>1. Len(exs) \in Nat \ {0} /\ Head(exs) = exs[1]
    BY <1>0, <1>3, TailIsSeq
  <2> QED
    BY <2>1
<1> HIDE DEF f, z
<1>5. /\ e.physical \in Nat /\ e.logical \in Nat /\ at <= e.logical /\ e.length \in Nat \ {0}
      /\ \A y \in ExtentOf(e) :
              /\ f[y \div BlockSize] # Nothing
              /\ e.physical + (y - e.logical) = f[y \div BlockSize] * BlockSize + (y % BlockSize)
      /\ \A y \in at .. e.logical - 1 : ~ (y < z /\ f[y \div BlockSize] # Nothing)
  <2>1. 1 .. 1 - 1 = {}
    OBVIOUS
  <2> QED
    BY <1>3, <1>4, <2>1 DEF IsBatch
<1>6. at \in Nat /\ at <= z
  BY <1>0, <1>1 DEF Current, z
<1> DEFINE a == e.logical
           n == e.length
           p == e.physical
<1>7. end = IF a + n < z THEN a + n ELSE z
  BY DEF SendEnd, Smaller, z
<1>8. a \in Nat /\ n \in Nat \ {0} /\ p \in Nat
  BY <1>5
<1>9. at <= a
  BY <1>5
<1>10. ASSUME NEW l \in a .. end - 1
       PROVE  /\ f[l \div BlockSize] # Nothing /\ SendPlace(l) = PlaceOf(i, l)
              /\ SendPlace(l)[2] = f[l \div BlockSize] * BlockSize + (l % BlockSize)
  <2>1. l \in Nat /\ l \in a .. a + n - 1 /\ p + l - a = p + (l - a)
    <3> HIDE DEF a, n, p, end
    <3> QED
      BY <1>1, <1>7, <1>8
  <2>2. l \in ExtentOf(e)
    BY <2>1 DEF ExtentOf
  <2>3. f[l \div BlockSize] # Nothing /\ p + (l - a) = f[l \div BlockSize] * BlockSize + (l % BlockSize)
    BY <1>5, <2>2
  <2>4. SendPlace(l) = <<table[cur], f[l \div BlockSize] * BlockSize + (l % BlockSize)>>
    BY <2>1, <2>3 DEF SendPlace
  <2>5. PlaceOf(i, l) = <<table[cur], f[l \div BlockSize] * BlockSize + (l % BlockSize)>>
    BY <1>1 DEF PlaceOf, f
  <2> QED
    BY <2>3, <2>4, <2>5
<1>11. end \in Nat /\ at <= end /\ end <= z /\ end <= a + n /\ (end = a + n \/ end = z)
  <2> HIDE DEF a, n, p, end
  <2> QED
    BY <1>1, <1>6, <1>7, <1>8, <1>9
<1> QED
  BY <1>5, <1>6, <1>8, <1>9, <1>10, <1>11 DEF f, z

\* Where each byte is owned after that.
LEMMA OwnersOfExtent ==
    ASSUME SendExtent, NEW x \in DOMAIN owner'
    PROVE  \/ x \in DOMAIN owner /\ owner'[x] = owner[x]
           \/ \E l \in Head(exs).logical .. SendEnd - 1 :
                x = SendPlace(l) /\ owner'[x] = [volume |-> i, logical |-> l]
<1> DEFINE new == {l \in Head(exs).logical .. SendEnd - 1 : SendPlace(l) \notin DOMAIN owner}
           own(l) == [volume |-> i, logical |-> l]
<1>1. owner' = [y \in DOMAIN owner \cup {SendPlace(l) : l \in new} |->
                  IF y \in DOMAIN owner THEN owner[y] ELSE own(CHOOSE l \in new : SendPlace(l) = y)]
  BY DEF SendExtent, SendPlace, SendEnd
<1>2. CASE x \in DOMAIN owner
  BY <1>1, <1>2
<1>3. CASE x \notin DOMAIN owner
  <2> DEFINE b == CHOOSE l \in new : SendPlace(l) = x
  <2>1. x \in {SendPlace(l) : l \in new} /\ owner'[x] = own(b)
    BY <1>1, <1>3
  <2>2. \E l \in new : SendPlace(l) = x
    BY <2>1
  <2>3. b \in new /\ SendPlace(b) = x
    BY <2>2
  <2> HIDE DEF b
  <2> QED
    BY <2>1, <2>3
<1> QED
  BY <1>2, <1>3
------------------------------------------------------------------------------
\* What the receiver has of the volume then.
LEMMA GotOfExtent ==
    ASSUME Reservations, Mappings, Devices, Lengths, Agreed, Owners, Current, Batch, SendExtent
    PROVE  /\ got'[i] = [l \in 0 .. size[v] - 1 |-> got'[i][l]]
           /\ \A l \in 0 .. size[v] - 1 : ref \/ l < SendEnd => got'[i][l] = LiveByte(v, l)
           /\ IsSeq(got') /\ Len(got') = Len(got) /\ \A k \in 1 .. Len(got) : k # i => got'[k] = got[k]
<1> DEFINE z == size[v]
           lo == Head(exs).logical
           end == SendEnd
           new == {l \in lo .. end - 1 : SendPlace(l) \notin DOMAIN owner}
           of(l) == owner[SendPlace(l)]
           g == [l \in DOMAIN got[i] |->
                   IF l \in at .. lo - 1 THEN Zero
                   ELSE IF l \in new THEN Read(l, SendPlace(l)[2])
                   ELSE IF l \in lo .. end - 1 THEN got[of(l).volume][of(l).logical]
                   ELSE got[i][l]]
<1>0. pc = "extents" /\ TypeOK /\ CurIs /\ MapsTyped /\ Working
  BY DEF SendExtent, Reservations, Mappings, Working, Cleaning, Gone
<1>1. got' = IF ref THEN got ELSE [got EXCEPT ![i] = g]
  BY DEF SendExtent, SendPlace, SendEnd
<1>2. /\ i \in 1 .. Len(args) /\ v = args[i] /\ v \in Vol /\ cur = pool[v] /\ z \in Nat
      /\ BytesOf(i) = 0 .. z - 1
  BY <1>0, CurrentIs DEF Reading
<1>3. /\ got[i] = [l \in 0 .. z - 1 |-> got[i][l]]
      /\ \A l \in 0 .. z - 1 : ref \/ l < at => got[i][l] = LiveByte(v, l)
  BY <1>0, <1>2 DEF Current, Right
<1>4. /\ IsSeq(got') /\ Len(got') = Len(got) /\ i \in 1 .. Len(got)
      /\ got' = [got EXCEPT ![i] = g] => got'[i] = g
      /\ \A k \in 1 .. Len(got) : k # i => got'[k] = got[k]
  <2> HIDE DEF g
  <2> QED
    BY <1>0, <1>1, GotChanges
<1>5. CASE ref
  BY <1>1, <1>3, <1>4, <1>5
<1>6. CASE ~ ref
  <2>1. got'[i] = g
    BY <1>1, <1>4, <1>6
  <2>2. DOMAIN got[i] = 0 .. z - 1
    BY <1>3
  <2>3. got'[i] = [l \in 0 .. z - 1 |-> got'[i][l]]
    BY <2>1, <2>2
  <2>4. /\ lo \in Nat /\ at \in Nat /\ at <= lo /\ end \in Nat
        /\ \A l \in at .. lo - 1 : l < z => maps[v][l \div BlockSize] = Nothing
        /\ \A l \in lo .. end - 1 :
             /\ maps[v][l \div BlockSize] # Nothing /\ SendPlace(l) = PlaceOf(i, l)
             /\ SendPlace(l)[2] = maps[v][l \div BlockSize] * BlockSize + (l % BlockSize)
    BY ExtentToSend
  <2>5. ASSUME NEW l \in 0 .. z - 1, l < end PROVE g[l] = LiveByte(v, l)
    <3>0. l \in DOMAIN got[i] /\ l \in BytesOf(i) /\ l \in Nat
      BY <1>2, <2>2
    <3>1. CASE l \in at .. lo - 1
      <4>1. maps[v][l \div BlockSize] = Nothing
        BY <1>2, <2>4, <3>1
      <4>2. g[l] = Zero
        BY <3>0, <3>1
      <4> QED
        BY <4>1, <4>2 DEF LiveByte, ByteAt
    <3>2. CASE l \in new
      <4>1. l \in lo .. end - 1 /\ l \notin at .. lo - 1
        BY <2>4, <3>2
      <4>2. g[l] = Read(l, SendPlace(l)[2])
        BY <3>0, <3>2, <4>1
      <4>3. Read(l, SendPlace(l)[2]) = LiveByte(v, l)
        <5>1. maps[v][l \div BlockSize] # Nothing
              /\ SendPlace(l)[2] = maps[v][l \div BlockSize] * BlockSize + (l % BlockSize)
          BY <2>4, <4>1
        <5> QED
          BY <1>0, <1>2, <3>0, <5>1, ReadIsLive
      <4> QED
        BY <4>2, <4>3
    <3>3. CASE l \in lo .. end - 1 /\ l \notin new
      <4>1. l \notin at .. lo - 1 /\ SendPlace(l) \in DOMAIN owner
        BY <2>4, <3>3
      <4>2. g[l] = got[of(l).volume][of(l).logical]
        BY <3>0, <3>3, <4>1
      <4> DEFINE j == of(l).volume
                 y == of(l).logical
      <4>3. IsOwned(SendPlace(l), j, y)
        BY <1>0, <4>1 DEF Owners
      <4> HIDE DEF j, y
      <4>4. /\ j \in 1 .. Len(got) /\ y \in BytesOf(j) /\ got[j][y] = LiveByte(args[j], y)
            /\ pool[args[j]] \in DOMAIN table /\ maps[args[j]][y \div BlockSize] # Nothing
            /\ SendPlace(l) = PlaceOf(j, y)
        BY <4>3 DEF IsOwned, Right
      <4>5. j \in 1 .. Len(args)
        BY <4>4 DEF Lengths
      <4>6. maps[v][l \div BlockSize] # Nothing /\ PlaceOf(i, l) = PlaceOf(j, y)
        BY <2>4, <3>3, <4>4
      <4>7. pool[args[i]] \in DOMAIN table
        BY <1>0, <1>2 DEF Reservations, CurInTable
      <4>8. LiveByte(args[i], l) = LiveByte(args[j], y)
        BY <1>0, <1>2, <3>0, <4>4, <4>5, <4>6, <4>7, SamePlace
      <4> QED
        BY <1>2, <4>2, <4>4, <4>8 DEF j, y
    <3>4. CASE l < at
      <4>1. l \notin at .. lo - 1 /\ l \notin lo .. end - 1 /\ l \notin new
        BY <2>4, <3>0, <3>4
      <4>2. g[l] = got[i][l]
        BY <3>0, <4>1
      <4> QED
        BY <1>3, <3>4, <4>2
    <3>5. l < at \/ l \in at .. lo - 1 \/ l \in lo .. end - 1
      <4> HIDE DEF z, lo, end
      <4> QED
        BY <2>4, <2>5, <3>0
    <3> QED
      BY <3>1, <3>2, <3>3, <3>4, <3>5
  <2> HIDE DEF g
  <2> QED
    BY <1>4, <1>6, <2>1, <2>3, <2>5
<1> QED
  BY <1>5, <1>6

LEMMA BatchGoesOn ==
    ASSUME NEW e, NEW f, NEW a \in Nat, NEW b \in Nat, NEW z \in Nat, IsSeq(e), e # <<>>, IsBatch(e, f, a, z),
           a <= b, b = e[1].logical + e[1].length \/ (b = z /\ b <= e[1].logical + e[1].length)
    PROVE  IsSeq(Tail(e)) /\ IsBatch(Tail(e), f, b, z)
<1> DEFINE t == Tail(e)
<1>1. /\ IsSeq(t) /\ Len(e) \in Nat \ {0} /\ Len(t) = Len(e) - 1
      /\ \A k \in 1 .. Len(e) - 1 : t[k] = e[k + 1]
  BY TailIsSeq
<1> HIDE DEF t
<1>2. /\ \A k \in 1 .. Len(e) :
           /\ e[k].physical \in Nat /\ e[k].logical \in Nat /\ a <= e[k].logical
           /\ e[k].length \in Nat \ {0}
           /\ \A y \in ExtentOf(e[k]) :
                /\ f[y \div BlockSize] # Nothing
                /\ e[k].physical + (y - e[k].logical) = f[y \div BlockSize] * BlockSize + (y % BlockSize)
           /\ \A y \in a .. e[k].logical - 1 :
                y < z /\ f[y \div BlockSize] # Nothing => \E j \in 1 .. k - 1 : y \in ExtentOf(e[j])
      /\ \A j, k \in 1 .. Len(e) : j < k => e[j].logical + e[j].length <= e[k].logical
  BY DEF IsBatch
<1>3. \A k \in 1 .. Len(t) : k + 1 \in 1 .. Len(e) /\ t[k] = e[k + 1] /\ 1 \in 1 .. Len(e) /\ 1 < k + 1
  BY <1>1
<1>4. ASSUME NEW k \in 1 .. Len(t)
      PROVE  /\ t[k].physical \in Nat /\ t[k].logical \in Nat /\ b <= t[k].logical
             /\ t[k].length \in Nat \ {0}
             /\ \A y \in ExtentOf(t[k]) :
                  /\ f[y \div BlockSize] # Nothing
                  /\ t[k].physical + (y - t[k].logical) = f[y \div BlockSize] * BlockSize + (y % BlockSize)
  <2> DEFINE h == k + 1
  <2>1. h \in 1 .. Len(e) /\ t[k] = e[h] /\ 1 \in 1 .. Len(e) /\ 1 < h
    BY <1>3
  <2> HIDE DEF h
  <2>2. e[1].logical + e[1].length <= e[h].logical
    BY <1>2, <2>1
  <2>3. b <= e[h].logical
    <3> DEFINE c == e[1].logical + e[1].length
               d == e[h].logical
    <3>1. c \in Nat /\ d \in Nat /\ c <= d /\ (b = c \/ b <= c)
      BY <1>2, <2>1, <2>2
    <3> HIDE DEF c, d
    <3>2. b <= d
      BY <3>1
    <3> QED
      BY <3>2 DEF d
  <2>4. /\ e[h].physical \in Nat /\ e[h].logical \in Nat /\ e[h].length \in Nat \ {0}
        /\ \A y \in ExtentOf(e[h]) :
             /\ f[y \div BlockSize] # Nothing
             /\ e[h].physical + (y - e[h].logical) = f[y \div BlockSize] * BlockSize + (y % BlockSize)
    BY <1>2, <2>1
  <2> DEFINE u == e[h]
  <2>5. t[k] = u
    BY <2>1
  <2> HIDE DEF u
  <2> QED
    BY <2>3, <2>4, <2>5 DEF u
<1>5. ASSUME NEW k \in 1 .. Len(t), NEW y \in b .. t[k].logical - 1, y < z, f[y \div BlockSize] # Nothing
      PROVE  \E j \in 1 .. k - 1 : y \in ExtentOf(t[j])
  <2> DEFINE h == k + 1
             d == e[h].logical
  <2>1. h \in 1 .. Len(e) /\ t[k] = e[h] /\ h = k + 1 /\ k \in Nat
    BY <1>3
  <2>2. d \in Nat /\ y \in b .. d - 1
    BY <1>2, <1>5, <2>1
  <2>3. y \in a .. d - 1 /\ b <= y
    <3> HIDE DEF d
    <3> QED
      BY <2>2
  <2> HIDE DEF h
  <2>4. PICK j \in 1 .. h - 1 : y \in ExtentOf(e[j])
    BY <1>2, <1>5, <2>1, <2>3
  <2>5. j # 1
    <3> SUFFICES ASSUME j = 1 PROVE FALSE
      OBVIOUS
    <3> DEFINE c == e[1].logical
               n == e[1].length
    <3>1. c \in Nat /\ n \in Nat /\ y \in c .. c + n - 1 /\ (b = c + n \/ b = z)
      BY <1>2, <1>3, <2>4 DEF ExtentOf
    <3> HIDE DEF c, n
    <3> QED
      BY <1>5, <2>3, <3>1
  <2>6. j - 1 \in 1 .. k - 1 /\ j - 1 \in 1 .. Len(e) - 1 /\ (j - 1) + 1 = j
    BY <1>1, <2>1, <2>4, <2>5
  <2> DEFINE x == j - 1
  <2>7. x \in 1 .. k - 1 /\ x \in 1 .. Len(e) - 1 /\ x + 1 = j
    BY <2>6
  <2> HIDE DEF x
  <2>8. t[x] = e[j]
    BY <1>1, <2>7
  <2> QED
    BY <2>4, <2>7, <2>8
<1>6. ASSUME NEW j \in 1 .. Len(t), NEW k \in 1 .. Len(t), j < k
      PROVE  t[j].logical + t[j].length <= t[k].logical
  <2> DEFINE x == j + 1
             y == k + 1
  <2>1. x \in 1 .. Len(e) /\ y \in 1 .. Len(e) /\ x < y /\ t[j] = e[x] /\ t[k] = e[y]
    BY <1>3, <1>6
  <2> HIDE DEF x, y
  <2> QED
    BY <1>2, <2>1
<1>7. IsBatch(t, f, b, z)
  BY <1>4, <1>5, <1>6 DEF IsBatch
<1> QED
  BY <1>1, <1>7 DEF t
------------------------------------------------------------------------------
LEMMA SendKeeps ==
    ASSUME Reservations, Mappings, Devices, Lengths, Lengths', Agreed, Finished, Owners, Current, Batch,
           SameBytes, SendExtent, [Next]_vars
    PROVE  Finished' /\ Owners' /\ Current' /\ Batch'
<1>1. /\ pc = "extents" /\ exs # <<>> /\ at' = SendEnd /\ exs' = Tail(exs)
      /\ UNCHANGED <<pc, i, args, size, pool, maps, disk, table, dmthin, ref, ended, after>>
  BY DEF SendExtent, SendEnd, pool_vars, arg_vars
<1>2. /\ i \in 1 .. Len(args) /\ i \in Nat /\ v = args[i] /\ v \in Vol /\ v' = v /\ cur = pool[v]
      /\ size[v] \in Nat /\ BytesOf(i) = 0 .. size[v] - 1
  BY <1>1, CurrentIs DEF Reservations, Reading, v
<1>3. /\ at \in Nat /\ SendEnd \in Nat /\ at <= SendEnd /\ SendEnd <= size[v]
      /\ SendEnd <= Head(exs).logical + Head(exs).length
      /\ SendEnd = Head(exs).logical + Head(exs).length \/ SendEnd = size[v]
      /\ Head(exs).logical \in Nat
      /\ \A l \in Head(exs).logical .. SendEnd - 1 :
           maps[v][l \div BlockSize] # Nothing /\ SendPlace(l) = PlaceOf(i, l)
  BY ExtentToSend
<1>4. /\ got'[i] = [l \in 0 .. size[v] - 1 |-> got'[i][l]]
      /\ \A l \in 0 .. size[v] - 1 : ref \/ l < SendEnd => got'[i][l] = LiveByte(v, l)
      /\ IsSeq(got') /\ Len(got') = Len(got) /\ \A k \in 1 .. Len(got) : k # i => got'[k] = got[k]
  BY GotOfExtent
<1>5. Len(got) = i /\ Len(got) \in Nat
  BY <1>1, <1>2 DEF Lengths
<1>6. \A l \in 0 .. size[v] - 1 : LiveByte(args[i], l)' = LiveByte(v, l)
  BY <1>1, <1>2 DEF LiveByte, ByteAt
<1>7. Finished'
  <2> SUFFICES ASSUME NEW k \in ended
               PROVE  k \in 1 .. Len(got') /\ k # i /\ \A l \in BytesOf(k)' : Right(k, l)'
    BY <1>1 DEF Finished
  <2>1. k \in 1 .. Len(got) /\ k # i /\ \A l \in BytesOf(k) : Right(k, l)
    BY <1>1 DEF Finished
  <2>2. got'[k] = got[k] /\ Len(got) <= Len(got')
    BY <1>4, <1>5, <2>1
  <2> QED
    BY <2>1, <2>2, FinishedStays
<1>8. Owners'
  <2> SUFFICES ASSUME Working', NEW x \in DOMAIN owner'
               PROVE  IsOwned(x, owner[x].volume, owner[x].logical)'
    BY DEF Owners
  <2>1. Working /\ \A q \in DOMAIN table : q \in DOMAIN table' /\ table'[q] = table[q]
    BY TableStays
  <2>2. ASSUME NEW a, NEW b, IsOwned(x, a, b) PROVE IsOwned(x, a, b)'
    <3>1. a \in 1 .. Len(got) /\ b \in BytesOf(a) /\ Right(a, b) /\ (a = i => b < at)
      BY <1>1, <2>2 DEF IsOwned
    <3>2. a = i => b < SendEnd
      BY <1>2, <1>3, <3>1
    <3>3. got'[a][b] = got[a][b]
      BY <1>2, <1>4, <3>1, <3>2 DEF Right
    <3>4. Len(got) <= Len(got') /\ (a = i' => b < at')
      BY <1>1, <1>4, <1>5, <3>2
    <3> QED
      BY <2>1, <2>2, <3>3, <3>4, OwnedStays
  <2>3. ASSUME NEW l \in Head(exs).logical .. SendEnd - 1, x = SendPlace(l) PROVE IsOwned(x, i, l)'
    <3>1. l \in 0 .. size[v] - 1 /\ l < SendEnd
      BY <1>2, <1>3
    <3>2. i' \in 1 .. Len(got')
      BY <1>1, <1>2, <1>4, <1>5
    <3>3. l \in BytesOf(i)'
      BY <1>1, <1>2, <3>1 DEF BytesOf
    <3>4. pool'[args'[i']] \in DOMAIN table'
      BY <1>1, <1>2 DEF Reservations, CurInTable
    <3>5. maps'[args'[i']][l \div BlockSize] # Nothing /\ x = PlaceOf(i, l)'
      BY <1>1, <1>2, <1>3, <2>3 DEF PlaceOf
    <3>6. Right(i, l)'
      BY <1>1, <1>4, <1>6, <3>1 DEF Right
    <3> QED
      BY <1>1, <3>1, <3>2, <3>3, <3>4, <3>5, <3>6 DEF IsOwned
  <2>4. CASE x \in DOMAIN owner /\ owner'[x] = owner[x]
    <3>1. IsOwned(x, owner[x].volume, owner[x].logical)
      BY <2>1, <2>4 DEF Owners
    <3>2. ASSUME NEW a, NEW b, a = owner[x].volume, b = owner[x].logical
          PROVE  IsOwned(x, owner[x].volume, owner[x].logical)'
      <4>1. IsOwned(x, a, b)'
        BY <2>2, <3>1, <3>2
      <4> QED
        BY <2>4, <3>2, <4>1 DEF IsOwned, PlaceOf, Right
    <3> QED
      BY <3>2
  <2>5. CASE \E l \in Head(exs).logical .. SendEnd - 1 :
               x = SendPlace(l) /\ owner'[x] = [volume |-> i, logical |-> l]
    <3>1. PICK l \in Head(exs).logical .. SendEnd - 1 :
               x = SendPlace(l) /\ owner'[x] = [volume |-> i, logical |-> l]
      BY <2>5
    <3>2. IsOwned(x, i, l)'
      BY <2>3, <3>1
    <3>3. owner'[x].volume = i' /\ owner'[x].logical = l
      BY <1>1, <3>1
    <3> QED
      BY <3>2, <3>3 DEF IsOwned, PlaceOf, Right
  <2> QED
    BY <2>4, <2>5, OwnersOfExtent
<1>9. Current'
  <2>1. at' \in 0 .. size'[v']
    BY <1>1, <1>2, <1>3
  <2>2. ASSUME NEW l \in 0 .. size[v] - 1, ref \/ l < SendEnd PROVE Right(i, l)'
    BY <1>1, <1>4, <1>6, <2>2 DEF Right
  <2> QED
    BY <1>1, <1>2, <1>4, <2>1, <2>2 DEF Current
<1>10. Batch'
  <2>1. IsSeq(exs) /\ IsBatch(exs, dmthin[v], at, size[v])
    BY <1>1 DEF Batch
  <2>2. Head(exs) = exs[1]
    BY <1>1, <2>1, TailIsSeq
  <2>3. IsSeq(Tail(exs)) /\ IsBatch(Tail(exs), dmthin[v], SendEnd, size[v])
    BY <1>1, <1>2, <1>3, <2>1, <2>2, BatchGoesOn
  <2> QED
    BY <1>1, <1>2, <2>3 DEF Batch
<1> QED
  BY <1>7, <1>8, <1>9, <1>10

\* Behind what was sent there is nothing when a file ends.
LEMMA RestIsHole ==
    ASSUME Reservations, Mappings, Agreed, Current, EndFile, NEW l, l \in 0 .. size[v] - 1, l >= at
    PROVE  maps[v][l \div BlockSize] = Nothing
<1>0. pc = "extents" /\ (at = size[v] \/ ThinMeta_map(v, at) = [error |-> "none", extents |-> <<>>])
  BY DEF EndFile
<1>1. /\ i \in 1 .. Len(args) /\ v = args[i] /\ v \in Vol /\ size[v] \in Nat /\ size[v] <= Blocks * BlockSize
      /\ at \in 0 .. size[v]
  BY <1>0, CurrentIs DEF Reservations, Reading, Current
<1>2. dmthin[v] = maps[v]
  BY <1>1 DEF Agreed
<1>3. l \in Nat /\ at \in Nat /\ at # size[v]
  BY <1>1
<1>4. ThinMeta_map(v, at).extents = <<>>
  BY <1>0, <1>3
<1>5. AreExtents(<<>>, maps[v], at)
  BY <1>1, <1>2, <1>3, <1>4, MapIsRight DEF Mappings, MapsTyped
<1>6. EndOf(<<>>) = Blocks * BlockSize
  <2>1. Len(<<>>) = 0
    OBVIOUS
  <2> QED
    BY <2>1, BoundsAssumption DEF EndOf
<1> DEFINE w == Blocks * BlockSize
<1>7. w \in Nat
  BY SizesAreNat, BlockSizeAssumption, Products
<1>8. size[v] <= w
  BY <1>1
<1> HIDE DEF w
<1>9. l \in at .. w - 1
  BY <1>1, <1>3, <1>7, <1>8
<1>10. l \in at .. EndOf(<<>>) - 1
  BY <1>6, <1>9 DEF w
<1>11. ~ \E k \in 1 .. Len(<<>>) : TRUE
  OBVIOUS
<1> QED
  BY <1>5, <1>10, <1>11 DEF AreExtents

LEMMA EndKeeps ==
    ASSUME Reservations, Mappings, Lengths, Lengths', Agreed, Finished, Owners, Current,
           SameBytes, EndFile, [Next]_vars
    PROVE  Finished' /\ Owners' /\ Current' /\ Batch'
<1> DEFINE g == [l \in DOMAIN got[i] |-> IF l >= at THEN Zero ELSE got[i][l]]
<1>1. /\ pc = "extents" /\ pc' # "extents" /\ got' = (IF ref THEN got ELSE [got EXCEPT ![i] = g])
      /\ UNCHANGED <<i, args, size, pool, maps, disk, table, owner>> /\ ended' = ended \cup {i}
  BY DEF EndFile, pool_vars, arg_vars, ReleaseThen, Goto
<1>2. /\ i \in 1 .. Len(args) /\ i \in Nat /\ v = args[i] /\ v \in Vol /\ size[v] \in Nat
      /\ BytesOf(i) = 0 .. size[v] - 1
  BY <1>1, CurrentIs DEF Reservations, Reading
<1>3. /\ at \in 0 .. size[v] /\ got[i] = [l \in 0 .. size[v] - 1 |-> got[i][l]]
      /\ \A l \in 0 .. size[v] - 1 : ref \/ l < at => got[i][l] = LiveByte(v, l)
  BY <1>1, <1>2 DEF Current, Right
<1>4. /\ Len(got') = Len(got) /\ i \in 1 .. Len(got)
      /\ got' = [got EXCEPT ![i] = g] => got'[i] = g
      /\ \A k \in 1 .. Len(got) : k # i => got'[k] = got[k]
  <2> HIDE DEF g
  <2> QED
    BY <1>1, GotChanges DEF Reservations, Mappings
<1>5. ASSUME NEW l \in 0 .. size[v] - 1
      PROVE  got'[i][l] = LiveByte(v, l) /\ (l < at => got'[i][l] = got[i][l])
  <2>1. CASE ref
    BY <1>1, <1>3, <2>1
  <2>2. CASE ~ ref
    <3>1. got'[i] = g /\ l \in DOMAIN got[i]
      BY <1>1, <1>3, <1>4, <2>2
    <3>2. CASE l < at
      <4>1. got'[i][l] = got[i][l]
        BY <1>2, <1>3, <3>1, <3>2
      <4> QED
        BY <1>3, <3>2, <4>1
    <3>3. CASE ~ (l < at)
      <4>1. l >= at
        BY <1>2, <1>3, <3>3
      <4>2. maps[v][l \div BlockSize] = Nothing
        BY <4>1, RestIsHole
      <4>3. got'[i][l] = Zero
        BY <3>1, <4>1
      <4> QED
        BY <3>3, <4>2, <4>3 DEF LiveByte, ByteAt
    <3> QED
      BY <3>2, <3>3
  <2> QED
    BY <2>1, <2>2
<1>6. Len(got) <= Len(got')
  BY <1>4 DEF Lengths, IsSeq
<1>7. Finished'
  <2> SUFFICES ASSUME NEW k \in ended \cup {i}
               PROVE  k \in 1 .. Len(got') /\ \A l \in BytesOf(k)' : Right(k, l)'
    BY <1>1 DEF Finished
  <2>1. CASE k = i
    <3>1. \A l \in 0 .. size[v] - 1 : LiveByte(args[i], l)' = LiveByte(v, l)
      BY <1>1, <1>2 DEF LiveByte, ByteAt
    <3>2. ASSUME NEW l \in BytesOf(i) PROVE got'[i][l] = LiveByte(args[i], l)'
      BY <1>2, <1>5, <3>1
    <3> QED
      BY <1>1, <1>4, <2>1, <3>2 DEF BytesOf, Right
  <2>2. CASE k # i
    <3>1. k \in 1 .. Len(got) /\ \A l \in BytesOf(k) : Right(k, l)
      BY <2>2 DEF Finished
    <3>2. got'[k] = got[k]
      BY <1>4, <2>2, <3>1
    <3> QED
      BY <1>6, <3>1, <3>2, FinishedStays
  <2> QED
    BY <2>1, <2>2
<1>8. Owners'
  <2> SUFFICES ASSUME Working', NEW x \in DOMAIN owner
               PROVE  IsOwned(x, owner[x].volume, owner[x].logical)'
    BY <1>1 DEF Owners
  <2>1. Working /\ \A q \in DOMAIN table : q \in DOMAIN table' /\ table'[q] = table[q]
    BY TableStays
  <2>2. ASSUME NEW a, NEW b, IsOwned(x, a, b) PROVE IsOwned(x, a, b)'
    <3>1. a \in 1 .. Len(got) /\ b \in BytesOf(a) /\ (a = i => b < at)
      BY <1>1, <2>2 DEF IsOwned
    <3>2. got'[a][b] = got[a][b]
      BY <1>2, <1>4, <1>5, <3>1
    <3> QED
      BY <1>1, <1>6, <2>1, <2>2, <3>2, OwnedStays
  <2>3. IsOwned(x, owner[x].volume, owner[x].logical)
    BY <2>1 DEF Owners
  <2>4. ASSUME NEW a, NEW b, a = owner[x].volume, b = owner[x].logical
        PROVE  IsOwned(x, owner[x].volume, owner[x].logical)'
    <3>1. IsOwned(x, a, b)'
      BY <2>2, <2>3, <2>4
    <3> QED
      BY <1>1, <2>4, <3>1 DEF IsOwned, PlaceOf, Right
  <2> QED
    BY <2>4
<1> QED
  BY <1>1, <1>7, <1>8 DEF Current, Batch
------------------------------------------------------------------------------
LEMMA InitContents == Init => Contents
<1> SUFFICES ASSUME Init PROVE Contents
  OBVIOUS
<1>1. /\ disk = [p \in Pool |-> [b \in Phys |-> "first"]]
      /\ pc = (IF raw THEN "loadraw" ELSE "volume") /\ raw \in BOOLEAN /\ i = 0 /\ got = <<>> /\ ended = {}
      /\ release = [p \in Pool |-> FALSE] /\ cur = pool[args[1]] /\ dmthin = maps
      /\ table = [p \in {} |-> 0] /\ owner = [x \in {} |-> 0]
      /\ raw => \A k \in DOMAIN args : pool[args[k]] = pool[args[1]]
  BY DEF Init
<1>2. args \in Seq(Vol) /\ Len(args) \in Nat /\ DOMAIN args = 1 .. Len(args)
  <2>1. args \in Seq(Vol)
    BY CasesAssumption DEF Init
  <2> QED
    BY <2>1
<1>3. \A p \in Pool : held[p] = Nobody \/ By(p) = "gone"
  <2>1. CASE held = [p \in Pool |-> Nobody]
    BY <2>1
  <2>2. CASE \E x \in Cases : held = [p \in Pool |-> IF p = pool[1]
                                        THEN [by |-> "gone", maps |-> x.maps] ELSE Nobody]
    BY <2>2 DEF By
  <2> QED
    BY <2>1, <2>2 DEF Init
<1>4. DiskTyped
  BY <1>1 DEF DiskTyped
<1>5. RawQuiet
  BY <1>1, <1>2 DEF RawQuiet
<1>6. HeldAgree
  BY <1>3 DEF HeldAgree, By, Nobody
<1>7. Devices
  <2>1. DOMAIN table = {}
    BY <1>1
  <2> QED
    BY <2>1, FS_EmptySet DEF Devices
<1>8. Lengths
  <2>1. IsSeq(<<>>) /\ Len(<<>>) = 0
    BY DEF IsSeq
  <2> QED
    BY <1>1, <1>2, <2>1 DEF Lengths
<1>9. Sent
  <2>1. pc # "extents" /\ DOMAIN owner = {}
    BY <1>1
  <2> QED
    BY <1>1, <2>1 DEF Sent, Agreed, Finished, Owners, Current, Batch
<1> QED
  BY <1>4, <1>5, <1>6, <1>7, <1>8, <1>9 DEF Contents

LEMMA StepContents == Reservations /\ Mappings /\ Contents /\ [Next]_vars => Contents'
<1> SUFFICES ASSUME Reservations, Mappings, Contents, [Next]_vars PROVE Contents'
  OBVIOUS
<1>1. TypeOK /\ MapsTyped /\ CurIs /\ DiskTyped /\ RawQuiet /\ HeldAgree /\ Devices /\ Lengths
  BY DEF Reservations, Mappings, Contents
<1>2. SameBytes /\ DiskTyped'
  BY <1>1, BytesStay
<1>3. RawQuiet' /\ HeldAgree' /\ Devices' /\ Lengths'
  BY <1>1, <1>2, RawStays, HeldAgreeStays, DevicesStay, LengthsStay
<1>4. ASSUME ~ Stale' PROVE Sent'
  <2>1. ~ Stale /\ Sent
    BY <1>1, <1>2, <1>4, StaleStays DEF Contents
  <2>2. Agreed /\ Finished /\ Owners /\ Current /\ Batch
    BY <2>1 DEF Sent
  <2>3. Agreed'
    BY <1>1, <1>2, <2>1, <2>2, AgreedStays
  <2>4. Finished' /\ Owners' /\ Current' /\ Batch'
    BY <1>1, <1>2, <1>3, <2>2, Steps, AsideKeeps, BeginKeeps, MapKeeps, SendKeeps, EndKeeps
  <2> QED
    BY <2>3, <2>4 DEF Sent
<1> QED
  BY <1>2, <1>3, <1>4 DEF Contents

\* Whatever a receiver has of the volumes so far, and what will be copied for it,
\* is right, unless stale metadata are read.
THEOREM ContentsHold == Spec => []Contents
<1>1. Init => Reservations /\ Mappings /\ Contents
  BY InitReservations, InitMappings, InitContents
<1>2. (Reservations /\ Mappings /\ Contents) /\ [Next]_vars => (Reservations /\ Mappings /\ Contents)'
  BY StepReservations, StepMappings, StepContents
<1> QED
  BY <1>1, <1>2, PTL DEF Spec

\* Every volume that was finished is what is in the volume, although the others of
\* its pool are written to, and whichever of them it shares blocks with.
THEOREM VolumesAreAlwaysRight == Spec => []VolumesAreRight
<1>1. Contents => VolumesAreRight
  BY DEF Contents, Sent, Finished, VolumesAreRight, Right, BytesOf
<1> QED
  BY <1>1, ContentsHold, PTL
==============================================================================
