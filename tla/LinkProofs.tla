----------------------------- MODULE LinkProofs -----------------------------
(***************************************************************************)
(* What the proofs about linked lists share.  Chain says that the links    *)
(* from x visit the elements of S, each once, and end in z; the lemmas say *)
(* how pushing, popping, splicing and unrelated writes change it, and that *)
(* Follow, which the properties are stated with, then finds exactly S.     *)
(***************************************************************************)
EXTENDS Links, FiniteSetTheorems, TLAPS

\* s lists the elements of S in the order of the links.
Lists(f, x, z, S, k, s) ==
  /\ k \in Nat /\ s \in [1 .. k -> S]
  /\ \A y \in S : \E i \in 1 .. k : s[i] = y
  /\ \A i, j \in 1 .. k : s[i] = s[j] => i = j
  /\ x = IF k = 0 THEN z ELSE s[1]
  /\ \A i \in 1 .. k : f[s[i]] = IF i = k THEN z ELSE s[i + 1]

Chain(f, x, z, S) == \E k, s : Lists(f, x, z, S, k, s)

-----------------------------------------------------------------------------
(* Induction over the natural numbers, for sets *)

\* A set of natural numbers has a least element.
LEMMA LeastElement ==
  ASSUME NEW S \in SUBSET Nat, S # {}
  PROVE  \E m \in S : \A k \in S : m <= k
<1> DEFINE R == {ss \in Nat \X Nat : ss[1] < ss[2]}
<1>1. IsWellFoundedOn(R, Nat)
  BY NatLessThanWellFounded DEF OpToRel
<1> HIDE DEF R
<1>2. PICK x \in S : \A y \in S : ~(<<y, x>> \in R)
  BY <1>1, WFMin
<1>3. \A y \in S : ~(y < x)
  BY <1>2 DEF R
<1> QED
  BY <1>3

\* A set with 0 that is closed under successor has every natural number.
LEMMA Induction ==
  ASSUME NEW S \in SUBSET Nat, 0 \in S, \A n \in S : n + 1 \in S
  PROVE  S = Nat
<1>1. SUFFICES ASSUME Nat \ S # {} PROVE FALSE
  OBVIOUS
<1>2. PICK m \in Nat \ S : \A k \in Nat \ S : m <= k
  BY <1>1, LeastElement
<1>3. m # 0 /\ m - 1 \in Nat
  BY <1>2
<1>4. m - 1 \in S
  BY <1>2, <1>3
<1>5. (m - 1) + 1 \in S
  BY <1>4
<1> QED
  BY <1>2, <1>5

-----------------------------------------------------------------------------
(* Following the links *)

\* Trail obeys its recursive definition as soon as any function does.
LEMMA TrailDef ==
  ASSUME NEW x, NEW f, NEW n \in Nat, NEW g,
         g = [i \in 0 .. n |-> IF i = 0 THEN x
                               ELSE IF g[i - 1] \in DOMAIN f THEN f[g[i - 1]] ELSE g[i - 1]]
  PROVE  Trail(x, f, n) = g
<1> DEFINE at == Trail(x, f, n)
<1>1. at = [i \in 0 .. n |-> IF i = 0 THEN x
                             ELSE IF at[i - 1] \in DOMAIN f THEN f[at[i - 1]] ELSE at[i - 1]]
  BY DEF Trail
<1> HIDE DEF at
<1> DEFINE S == {i \in Nat : i <= n => at[i] = g[i]}
<1>2. 0 \in S
  BY <1>1
<1>3. ASSUME NEW i \in S PROVE i + 1 \in S
  <2>1. SUFFICES ASSUME i + 1 <= n PROVE at[i + 1] = g[i + 1]
    BY DEF S
  <2>2. i \in Nat /\ i + 1 \in 0 .. n /\ i + 1 # 0 /\ (i + 1) - 1 = i
    BY <2>1
  <2>3. at[i] = g[i]
    BY <2>1, <2>2
  <2>4. at[i + 1] = IF at[i] \in DOMAIN f THEN f[at[i]] ELSE at[i]
    BY <1>1, <2>2
  <2>5. g[i + 1] = IF g[i] \in DOMAIN f THEN f[g[i]] ELSE g[i]
    BY <2>2
  <2> QED
    BY <2>3, <2>4, <2>5
<1>4. S = Nat
  BY <1>2, <1>3, Induction
<1>5. ASSUME NEW i \in 0 .. n PROVE at[i] = g[i]
  <2>1. i \in S /\ i <= n
    <3> HIDE DEF S
    <3> QED
      BY <1>4
  <2> QED
    BY <2>1
<1>6. at = g
  BY <1>1, <1>5
<1> QED
  BY <1>6 DEF at

\* A chain of k elements is found, with its end, by following k links or more.
LEMMA FollowLists ==
  ASSUME NEW f, NEW x, NEW z, z \notin DOMAIN f,
         NEW S \in SUBSET DOMAIN f, NEW k, NEW s, Lists(f, x, z, S, k, s),
         NEW n \in Nat, k <= n
  PROVE  Follow(x, f, n) = S \cup {z}
<1> DEFINE g == [i \in 0 .. n |-> IF i < k THEN s[i + 1] ELSE z]
<1> k \in Nat
  BY DEF Lists
<1>1. g = [i \in 0 .. n |-> IF i = 0 THEN x
                            ELSE IF g[i - 1] \in DOMAIN f THEN f[g[i - 1]] ELSE g[i - 1]]
  <2> SUFFICES ASSUME NEW i \in 0 .. n
               PROVE  g[i] = IF i = 0 THEN x
                             ELSE IF g[i - 1] \in DOMAIN f THEN f[g[i - 1]] ELSE g[i - 1]
    OBVIOUS
  <2>1. CASE i = 0
    BY <2>1 DEF Lists
  <2>2. CASE i # 0 /\ i <= k
    <3>1. g[i - 1] = s[i] /\ i \in 1 .. k
      BY <2>2
    <3>2. s[i] \in DOMAIN f /\ f[s[i]] = IF i = k THEN z ELSE s[i + 1]
      BY <3>1 DEF Lists
    <3>3. g[i] = IF i = k THEN z ELSE s[i + 1]
      BY <2>2
    <3> QED
      BY <2>2, <3>1, <3>2, <3>3
  <2>3. CASE i # 0 /\ i > k
    <3>1. g[i - 1] = z /\ g[i] = z
      BY <2>3
    <3> QED
      BY <2>3, <3>1
  <2> QED
    BY <2>1, <2>2, <2>3
<1> HIDE DEF g
<1>2. Trail(x, f, n) = g
  BY <1>1, TrailDef
<1>3. Follow(x, f, n) = {g[i] : i \in 0 .. n}
  BY <1>2 DEF Follow
<1>4. \A i \in 0 .. n : g[i] \in S \cup {z}
  BY DEF g, Lists
<1>5. z \in {g[i] : i \in 0 .. n}
  BY DEF g
<1>6. ASSUME NEW y \in S PROVE \E i \in 0 .. n : g[i] = y
  <2>1. PICK i \in 1 .. k : s[i] = y
    BY DEF Lists
  <2>2. i - 1 \in 0 .. n /\ g[i - 1] = s[i]
    BY <2>1 DEF g
  <2> QED
    BY <2>1, <2>2
<1> QED
  BY <1>3, <1>4, <1>5, <1>6

-----------------------------------------------------------------------------
(* Chains *)

\* The length of a chain is the number of its elements.
LEMMA ChainSize ==
  ASSUME NEW f, NEW x, NEW z, NEW S, Chain(f, x, z, S)
  PROVE  IsFiniteSet(S) /\ \E s : Lists(f, x, z, S, Cardinality(S), s)
<1>1. PICK k, s : Lists(f, x, z, S, k, s)
  BY DEF Chain
<1> k \in Nat /\ s \in [1 .. k -> S]
  BY <1>1 DEF Lists
<1>2. s \in Bijection(1 .. k, S)
  BY <1>1 DEF Lists, Bijection, Injection, Surjection, IsInjective
<1>3. ExistsBijection(1 .. k, S)
  BY <1>2 DEF ExistsBijection
<1>4. Cardinality(S) = k
  BY <1>3, FS_CountingElements
<1>5. IsFiniteSet(S)
  BY <1>3, FS_NatBijection
<1> QED
  BY <1>1, <1>4, <1>5

\* Following the links of a chain far enough finds its elements and its end.
LEMMA ChainFollow ==
  ASSUME NEW f, NEW x, NEW z, z \notin DOMAIN f,
         NEW S \in SUBSET DOMAIN f, Chain(f, x, z, S),
         NEW n \in Nat, Cardinality(S) <= n
  PROVE  Follow(x, f, n) = S \cup {z}
<1>1. PICK s : Lists(f, x, z, S, Cardinality(S), s)
  BY ChainSize
<1> QED
  BY <1>1, FollowLists

\* The list without elements.
LEMMA ChainEmpty ==
  ASSUME NEW f, NEW z
  PROVE  Chain(f, z, z, {})
<1> DEFINE s == [i \in 1 .. 0 |-> z]
<1>1. s \in [1 .. 0 -> {}]
  OBVIOUS
<1>2. Lists(f, z, z, {}, 0, s)
  BY <1>1 DEF Lists
<1> QED
  BY <1>1, <1>2 DEF Chain

\* A chain is empty when it starts at its end marker; otherwise its start is
\* one of its elements.
LEMMA ChainHead ==
  ASSUME NEW f, NEW x, NEW z, NEW S, z \notin S, Chain(f, x, z, S)
  PROVE  /\ x = z <=> S = {}
         /\ x # z => x \in S
<1>1. PICK k, s : Lists(f, x, z, S, k, s)
  BY DEF Chain
<1> k \in Nat /\ s \in [1 .. k -> S]
  BY <1>1 DEF Lists
<1>2. CASE k = 0
  <2>1. x = z /\ S = {}
    BY <1>1, <1>2 DEF Lists
  <2> QED
    BY <2>1
<1>3. CASE k # 0
  <2>1. 1 \in 1 .. k
    BY <1>3
  <2>2. x = s[1] /\ s[1] \in S
    BY <1>1, <1>3, <2>1 DEF Lists
  <2> QED
    BY <2>2
<1> QED
  BY <1>2, <1>3

\* Writes to other elements' links do not concern a chain.
LEMMA ChainFrame ==
  ASSUME NEW f, NEW g, NEW x, NEW z, NEW S, Chain(f, x, z, S),
         \A y \in S : g[y] = f[y]
  PROVE  Chain(g, x, z, S)
<1>1. PICK k, s : Lists(f, x, z, S, k, s)
  BY DEF Chain
<1> k \in Nat /\ s \in [1 .. k -> S]
  BY <1>1 DEF Lists
<1>2. Lists(g, x, z, S, k, s)
  BY <1>1 DEF Lists
<1> QED
  BY <1>2 DEF Chain

\* Linking a new element in front of a chain.
LEMMA ChainPush ==
  ASSUME NEW f, NEW g, NEW x, NEW z, NEW S, Chain(f, x, z, S),
         NEW b, b \notin S, g[b] = x, \A y \in S : g[y] = f[y]
  PROVE  Chain(g, b, z, S \cup {b})
<1>1. PICK k, s : Lists(f, x, z, S, k, s)
  BY DEF Chain
<1> k \in Nat /\ s \in [1 .. k -> S]
  BY <1>1 DEF Lists
<1> DEFINE r == [i \in 1 .. k + 1 |-> IF i = 1 THEN b ELSE s[i - 1]]
           T == S \cup {b}
<1>2. \A i \in 1 .. k + 1 : i # 1 => i - 1 \in 1 .. k
  OBVIOUS
<1>3. r \in [1 .. k + 1 -> T]
  BY <1>2
<1>4. ASSUME NEW y \in T PROVE \E i \in 1 .. k + 1 : r[i] = y
  <2>1. CASE y = b
    BY <2>1
  <2>2. CASE y \in S
    <3>1. PICK i \in 1 .. k : s[i] = y
      BY <1>1, <2>2 DEF Lists
    <3>2. i + 1 \in 1 .. k + 1 /\ i + 1 # 1 /\ (i + 1) - 1 = i
      OBVIOUS
    <3> QED
      BY <3>1, <3>2
  <2> QED
    BY <2>1, <2>2
<1>5. ASSUME NEW i \in 1 .. k + 1, NEW j \in 1 .. k + 1, r[i] = r[j] PROVE i = j
  <2>1. CASE i # 1 /\ j # 1
    <3>1. i - 1 \in 1 .. k /\ j - 1 \in 1 .. k /\ s[i - 1] = s[j - 1]
      BY <1>2, <1>5, <2>1
    <3>2. i - 1 = j - 1
      BY <1>1, <3>1 DEF Lists
    <3> QED
      BY <3>2
  <2>2. CASE i = 1 \/ j = 1
    BY <1>2, <1>5, <2>2
  <2> QED
    BY <2>1, <2>2
<1>6. ASSUME NEW i \in 1 .. k + 1 PROVE g[r[i]] = IF i = k + 1 THEN z ELSE r[i + 1]
  <2>1. CASE i = 1
    <3>1. k # 0 => r[2] = s[1]
      OBVIOUS
    <3> QED
      BY <1>1, <2>1, <3>1 DEF Lists
  <2>2. CASE i # 1
    <3>1. i - 1 \in 1 .. k /\ r[i] = s[i - 1]
      BY <1>2, <2>2
    <3>2. f[s[i - 1]] = IF i - 1 = k THEN z ELSE s[(i - 1) + 1]
      BY <1>1, <3>1 DEF Lists
    <3>3. g[r[i]] = f[s[i - 1]]
      BY <3>1
    <3>4. i # k + 1 => r[i + 1] = s[i]
      BY <2>2
    <3> QED
      BY <3>2, <3>3, <3>4
  <2> QED
    BY <2>1, <2>2
<1>7. r[1] = b /\ k + 1 # 0 /\ k + 1 \in Nat
  OBVIOUS
<1>8. Lists(g, b, z, T, k + 1, r)
  <2> HIDE DEF r, T
  <2> QED
    BY <1>3, <1>4, <1>5, <1>6, <1>7 DEF Lists
<1> QED
  BY <1>3, <1>7, <1>8 DEF Chain

\* Unlinking the first element.
LEMMA ChainPop ==
  ASSUME NEW f, NEW x, NEW z, NEW S, Chain(f, x, z, S), z \notin S, x \in S
  PROVE  Chain(f, f[x], z, S \ {x})
<1>1. PICK k, s : Lists(f, x, z, S, k, s)
  BY DEF Chain
<1> k \in Nat /\ s \in [1 .. k -> S]
  BY <1>1 DEF Lists
<1>2. k # 0 /\ x = s[1] /\ k - 1 \in Nat /\ 1 \in 1 .. k
  BY <1>1 DEF Lists
<1> DEFINE r == [i \in 1 .. k - 1 |-> s[i + 1]]
           T == S \ {x}
<1>3. \A i \in 1 .. k - 1 : i + 1 \in 1 .. k /\ i + 1 # 1
  BY <1>2
<1>4. r \in [1 .. k - 1 -> T]
  BY <1>1, <1>2, <1>3 DEF Lists
<1>5. ASSUME NEW y \in T PROVE \E i \in 1 .. k - 1 : r[i] = y
  <2>1. PICK i \in 1 .. k : s[i] = y
    BY <1>1 DEF Lists
  <2>2. i # 1
    BY <1>2, <2>1
  <2>3. i - 1 \in 1 .. k - 1 /\ (i - 1) + 1 = i
    BY <1>2, <2>2
  <2> QED
    BY <2>1, <2>3
<1>6. ASSUME NEW i \in 1 .. k - 1, NEW j \in 1 .. k - 1, r[i] = r[j] PROVE i = j
  <2>1. i + 1 = j + 1
    BY <1>1, <1>3, <1>6 DEF Lists
  <2> QED
    BY <2>1
<1>7. f[x] = IF k - 1 = 0 THEN z ELSE r[1]
  BY <1>1, <1>2 DEF Lists
<1>8. ASSUME NEW i \in 1 .. k - 1 PROVE f[r[i]] = IF i = k - 1 THEN z ELSE r[i + 1]
  <2>1. f[s[i + 1]] = IF i + 1 = k THEN z ELSE s[(i + 1) + 1]
    BY <1>1, <1>3 DEF Lists
  <2>2. i # k - 1 => r[i + 1] = s[(i + 1) + 1]
    BY <1>2
  <2> QED
    BY <1>2, <2>1, <2>2
<1>9. Lists(f, f[x], z, T, k - 1, r)
  <2> HIDE DEF r, T
  <2> QED
    BY <1>2, <1>4, <1>5, <1>6, <1>7, <1>8 DEF Lists
<1> QED
  BY <1>2, <1>4, <1>9 DEF Chain

\* Putting one chain in front of another by linking its last element.
LEMMA ChainSplice ==
  ASSUME NEW f, NEW g, NEW x, NEW y, NEW z, NEW S, NEW T,
         Chain(f, x, z, S), Chain(f, y, z, T), S \cap T = {}, z \notin S,
         NEW t \in S, f[t] = z, g[t] = y,
         \A w \in S \cup T : w # t => g[w] = f[w]
  PROVE  Chain(g, x, z, S \cup T)
<1>1. PICK k, s : Lists(f, x, z, S, k, s)
  BY DEF Chain
<1> k \in Nat /\ s \in [1 .. k -> S]
  BY <1>1 DEF Lists
<1>2. PICK m, r : Lists(f, y, z, T, m, r)
  BY DEF Chain
<1> m \in Nat /\ r \in [1 .. m -> T]
  BY <1>2 DEF Lists
<1>3. s[k] = t /\ k # 0
  <2>1. PICK i \in 1 .. k : s[i] = t
    BY <1>1 DEF Lists
  <2>2. i # k => s[i + 1] \in S /\ f[s[i]] = s[i + 1]
    <3> SUFFICES ASSUME i # k PROVE s[i + 1] \in S /\ f[s[i]] = s[i + 1]
      OBVIOUS
    <3>1. i + 1 \in 1 .. k
      OBVIOUS
    <3> QED
      BY <1>1, <3>1 DEF Lists
  <2>3. i = k
    BY <2>1, <2>2
  <2> QED
    BY <2>1, <2>3
<1> DEFINE q == [i \in 1 .. k + m |-> IF i <= k THEN s[i] ELSE r[i - k]]
           U == S \cup T
<1>4. \A i \in 1 .. k + m : i <= k => i \in 1 .. k /\ q[i] = s[i] /\ s[i] \in S
  OBVIOUS
<1>5. \A i \in 1 .. k + m : i > k => i - k \in 1 .. m /\ q[i] = r[i - k] /\ r[i - k] \in T
  OBVIOUS
<1>6. q \in [1 .. k + m -> U]
  BY <1>4, <1>5
<1>7. ASSUME NEW w \in U PROVE \E i \in 1 .. k + m : q[i] = w
  <2>1. CASE w \in S
    <3>1. PICK i \in 1 .. k : s[i] = w
      BY <1>1, <2>1 DEF Lists
    <3>2. i \in 1 .. k + m /\ i <= k
      OBVIOUS
    <3> QED
      BY <3>1, <3>2
  <2>2. CASE w \in T
    <3>1. PICK i \in 1 .. m : r[i] = w
      BY <1>2, <2>2 DEF Lists
    <3>2. i + k \in 1 .. k + m /\ ~(i + k <= k) /\ (i + k) - k = i
      OBVIOUS
    <3> QED
      BY <3>1, <3>2
  <2> QED
    BY <2>1, <2>2
<1> HIDE DEF q
<1>8. ASSUME NEW i \in 1 .. k + m, NEW j \in 1 .. k + m, q[i] = q[j] PROVE i = j
  <2>1. CASE i <= k /\ j <= k
    BY <1>1, <1>4, <1>8, <2>1 DEF Lists
  <2>2. CASE i > k /\ j > k
    <3>1. i - k = j - k
      BY <1>2, <1>5, <1>8, <2>2 DEF Lists
    <3> QED
      BY <3>1
  <2>3. CASE i <= k /\ j > k
    <3>1. q[i] \in S /\ q[j] \in T
      BY <1>4, <1>5, <2>3
    <3> QED
      BY <1>8, <3>1
  <2>4. CASE i > k /\ j <= k
    <3>1. q[j] \in S /\ q[i] \in T
      BY <1>4, <1>5, <2>4
    <3> QED
      BY <1>8, <3>1
  <2> QED
    BY <2>1, <2>2, <2>3, <2>4
<1>9. ASSUME NEW i \in 1 .. k + m PROVE g[q[i]] = IF i = k + m THEN z ELSE q[i + 1]
  <2>1. CASE i < k
    <3>1. i \in 1 .. k /\ i + 1 \in 1 .. k /\ k \in 1 .. k /\ i # k /\ i + 1 \in 1 .. k + m /\ i # k + m
      BY <2>1
    <3>2. q[i] = s[i] /\ s[i] \in S /\ q[i + 1] = s[i + 1]
      BY <1>4, <3>1
    <3>3. s[i] # t
      BY <1>1, <1>3, <3>1 DEF Lists
    <3>4. f[s[i]] = s[i + 1]
      BY <1>1, <3>1 DEF Lists
    <3> QED
      BY <3>1, <3>2, <3>3, <3>4
  <2>2. CASE i = k
    <3>1. q[i] = t
      BY <1>3, <1>4, <2>2
    <3>2. CASE m = 0
      <4>1. y = z
        BY <1>2, <3>2 DEF Lists
      <4> QED
        BY <2>2, <3>1, <3>2, <4>1
    <3>3. CASE m # 0
      <4>1. y = r[1]
        BY <1>2, <3>3 DEF Lists
      <4>2. k + 1 \in 1 .. k + m /\ k + 1 > k /\ (k + 1) - k = 1 /\ k # k + m
        BY <3>3
      <4>3. q[k + 1] = r[1]
        BY <1>5, <4>2
      <4> QED
        BY <2>2, <3>1, <4>1, <4>2, <4>3
    <3> QED
      BY <3>2, <3>3
  <2>3. CASE i > k
    <3>1. i - k \in 1 .. m /\ q[i] = r[i - k] /\ r[i - k] \in T
      BY <1>5, <2>3
    <3>2. f[r[i - k]] = IF i - k = m THEN z ELSE r[(i - k) + 1]
      BY <1>2, <3>1 DEF Lists
    <3>3. g[q[i]] = f[r[i - k]]
      BY <3>1
    <3>4. i # k + m => i + 1 \in 1 .. k + m /\ i + 1 > k /\ (i + 1) - k = (i - k) + 1
      BY <2>3
    <3>5. i # k + m => q[i + 1] = r[(i - k) + 1]
      BY <1>5, <3>4
    <3>6. i - k = m <=> i = k + m
      BY <2>3
    <3> QED
      BY <3>2, <3>3, <3>5, <3>6
  <2> QED
    BY <2>1, <2>2, <2>3
<1>10. x = IF k + m = 0 THEN z ELSE q[1]
  <2>1. x = s[1] /\ 1 \in 1 .. k + m /\ 1 <= k /\ k + m # 0
    BY <1>1, <1>3 DEF Lists
  <2> QED
    BY <1>4, <2>1
<1>11. Lists(g, x, z, U, k + m, q)
  <2> HIDE DEF U
  <2> QED
    BY <1>6, <1>7, <1>8, <1>9, <1>10 DEF Lists
<1> QED
  BY <1>6, <1>11 DEF Chain

\* Consecutive elements, each linked to the next one.
LEMMA ChainRun ==
  ASSUME NEW f, NEW z, NEW a \in Nat, NEW b \in Nat, a <= b,
         \A i \in a .. b : f[i] = IF i = b THEN z ELSE i + 1
  PROVE  Chain(f, a, z, a .. b)
<1> DEFINE k == (b - a) + 1
           S == a .. b
           s == [i \in 1 .. k |-> (a + i) - 1]
<1>1. k \in Nat /\ k # 0
  OBVIOUS
<1>2. s \in [1 .. k -> S]
  OBVIOUS
<1>3. ASSUME NEW y \in S PROVE \E i \in 1 .. k : s[i] = y
  <2>1. (y - a) + 1 \in 1 .. k /\ (a + ((y - a) + 1)) - 1 = y
    OBVIOUS
  <2> QED
    BY <2>1
<1>4. \A i, j \in 1 .. k : s[i] = s[j] => i = j
  OBVIOUS
<1>5. s[1] = a
  OBVIOUS
<1>6. \A i \in 1 .. k : f[s[i]] = IF i = k THEN z ELSE s[i + 1]
  OBVIOUS
<1>7. Lists(f, a, z, S, k, s)
  <2> HIDE DEF k, S, s
  <2> QED
    BY <1>1, <1>2, <1>3, <1>4, <1>5, <1>6 DEF Lists
<1> QED
  BY <1>1, <1>2, <1>7 DEF Chain

=============================================================================
