-------------------------- MODULE MemBlocksProofs --------------------------
(***************************************************************************)
(* The buddy allocator is correct for every pool, page and set of sizes:   *)
(* its tree stays a tree, its allocated nodes are the callers' blocks and   *)
(* share no byte, and a request is refused only when nothing fits.          *)
(*                                                                          *)
(* The operators of Buddy are recursive functions on the tree's nodes, some *)
(* from a node's parent, some from its halves.  That there are such         *)
(* functions is shown once for each kind; what they compute then follows    *)
(* from their equations, by taking the least node that is an exception.     *)
(***************************************************************************)
EXTENDS MemBlocks, NaturalsInduction, WellFoundedInduction, TLAPS

(***************************************************************************)
(* Numbers and functions.                                                   *)
(***************************************************************************)
\* A set of natural numbers has a least one.
LEMMA LeastExists ==
  ASSUME NEW S, S \subseteq Nat, S # {}
  PROVE  \E m \in S : \A k \in S : m <= k
<1>1. PICK m \in S : \A k \in S : ~(<<k, m>> \in OpToRel(<, Nat))
  BY NatLessThanWellFounded, WFMin
<1>2. ASSUME NEW k \in S
      PROVE  m <= k
  <2>1. m \in Nat /\ k \in Nat
    OBVIOUS
  <2>2. ~(k < m)
    <3>1. k < m => <<k, m>> \in OpToRel(<, Nat)
      BY <2>1, Zenon DEF OpToRel
    <3> QED
      BY <1>1, <3>1
  <2> QED
    BY <2>1, <2>2
<1> QED
  BY <1>2

\* The equations of f from a node's parent, a at the head; and from its halves, at
\* the nodes of D.
ByParent(f, L, a, G) ==
  \A n \in 1..L : f[n] = IF n = 1 THEN a ELSE G[n][f[n \div 2]]

ByHalves(f, L, D, base, G) ==
  \A n \in 1..L : f[n] = IF n \in D THEN G[f[2 * n]][f[2 * n + 1]] ELSE base[n]

\* A recursion that asks for its value at n \div 2 defines a function.
LEMMA FromTheParent ==
  ASSUME NEW L \in Nat, NEW S, NEW a \in S, NEW G \in [1..L -> [S -> S]]
  PROVE  \E f \in [1..L -> S] : ByParent(f, L, a, G)
<1> DEFINE Right(f, n) == f[n] = IF n = 1 THEN a ELSE G[n][f[n \div 2]]
           Bad == {k \in 0..L : ~ \E f \in [1..L -> S] : \A n \in 1..k : Right(f, n)}
<1>1. L \notin Bad => \E f \in [1..L -> S] : ByParent(f, L, a, G)
  <2>1. L \notin Bad => \E f \in [1..L -> S] : \A n \in 1..L : Right(f, n)
    <3> HIDE DEF Right
    <3> QED
      OBVIOUS
  <2> HIDE DEF Bad
  <2> QED
    BY <2>1 DEF ByParent
<1>2. SUFFICES ASSUME L \in Bad
               PROVE  FALSE
  BY <1>1
<1>3. Bad \subseteq Nat
  <2>1. Bad \subseteq 0..L
    OBVIOUS
  <2> HIDE DEF Bad
  <2> QED
    BY <2>1
<1> HIDE DEF Bad
<1>4. PICK k \in Bad : \A j \in Bad : k <= j
  BY <1>2, <1>3, LeastExists
<1>5. k # 0
  <2>1. [n \in 1..L |-> a] \in [1..L -> S]
    OBVIOUS
  <2>2. 1..0 = {}
    OBVIOUS
  <2> QED
    BY <2>1, <2>2, <1>4 DEF Bad
<1>6. k \in 1..L /\ k - 1 \in 0..L /\ k - 1 \notin Bad
  <2>1. k \in 0..L
    BY <1>4, Zenon DEF Bad
  <2>2. k \in 1..L /\ k - 1 \in 0..L /\ ~(k <= k - 1)
    BY <2>1, <1>5
  <2> QED
    BY <1>4, <2>2
<1>7. PICK f \in [1..L -> S] : \A n \in 1..(k - 1) : Right(f, n)
  BY <1>6 DEF Bad
<1> DEFINE v == IF k = 1 THEN a ELSE G[k][f[k \div 2]]
           g == [f EXCEPT ![k] = v]
<1>8. v \in S
  <2>1. CASE k = 1
    BY <2>1
  <2>2. CASE k # 1
    <3>1. k \div 2 \in 1..L
      BY <1>6, <2>2
    <3> QED
      BY <1>6, <2>2, <3>1
  <2> QED
    BY <2>1, <2>2
<1>9. g \in [1..L -> S] /\ g[k] = v /\ \A n \in 1..L : n # k => g[n] = f[n]
  BY <1>6, <1>8
<1> HIDE DEF v, g
<1>10. ASSUME NEW n \in 1..k
       PROVE  Right(g, n)
  <2>1. n \in 1..L /\ n \in Nat /\ k \in Nat
    BY <1>6
  <2>2. n # 1 => n \div 2 \in 1..L /\ n \div 2 < n
    BY <2>1
  <2>3. n # 1 => g[n \div 2] = f[n \div 2]
    BY <1>9, <2>1, <2>2
  <2>4. CASE n = k
    BY <1>9, <2>3, <2>4 DEF v
  <2>5. CASE n # k
    <3>1. n \in 1..(k - 1) /\ g[n] = f[n]
      BY <1>9, <2>1, <2>5
    <3> QED
      BY <1>7, <2>3, <3>1
  <2> QED
    BY <2>4, <2>5
<1>11. k \notin Bad
  BY <1>9, <1>10 DEF Bad
<1> QED
  BY <1>4, <1>11

\* So does one that asks, at the nodes of D, for its values at the two halves.
LEMMA FromTheHalves ==
  ASSUME NEW L \in Nat, NEW S, NEW D, D \subseteq 1..L,
         \A n \in D : 2 * n + 1 \in 1..L,
         NEW base \in [1..L -> S], NEW G \in [S -> [S -> S]]
  PROVE  \E f \in [1..L -> S] : ByHalves(f, L, D, base, G)
<1> DEFINE Right(f, n) ==
             f[n] = IF n \in D THEN G[f[2 * n]][f[2 * n + 1]] ELSE base[n]
           Good == {k \in 1..(L + 1) : \E f \in [1..L -> S] : \A n \in k..L : Right(f, n)}
<1>1. L + 1 \in Good
  <2>1. \A n \in (L + 1)..L : FALSE
    OBVIOUS
  <2>2. L + 1 \in 1..(L + 1)
    OBVIOUS
  <2> HIDE DEF Right
  <2> QED
    BY <2>1, <2>2
<1>2. Good \subseteq 1..(L + 1)
  BY Zenon
<1>3. \A k \in Good : \E f \in [1..L -> S] : \A n \in k..L : Right(f, n)
  BY Zenon
<1> HIDE DEF Good
<1>4. PICK k \in Good : \A j \in Good : k <= j
  <2>1. 1..(L + 1) \subseteq Nat
    OBVIOUS
  <2> QED
    BY <1>1, <1>2, <2>1, LeastExists
<1>5. k \in 1..(L + 1) /\ k \in Nat
  BY <1>2, <1>4
<1>6. PICK f \in [1..L -> S] : \A n \in k..L : Right(f, n)
  BY <1>3, <1>4
<1>7. SUFFICES ASSUME k # 1
               PROVE  FALSE
  BY <1>6 DEF ByHalves
<1> DEFINE j == k - 1
<1>8. j \in 1..L /\ j < k /\ j \in Nat /\ k = j + 1
  BY <1>5, <1>7
<1> HIDE DEF j
<1>9. \A n \in D : n \in 1..L /\ 2 * n \in 1..L /\ 2 * n + 1 \in 1..L /\ n < 2 * n
  <2>1. \A n \in 1..L : 2 * n + 1 \in 1..L => 2 * n \in 1..L /\ n < 2 * n
    OBVIOUS
  <2> QED
    BY <2>1
<1> DEFINE v == IF j \in D THEN G[f[2 * j]][f[2 * j + 1]] ELSE base[j]
           g == [f EXCEPT ![j] = v]
<1>10. v \in S
  <2>1. CASE j \in D
    BY <1>9, <2>1
  <2>2. CASE j \notin D
    BY <1>8, <2>2
  <2> QED
    BY <2>1, <2>2
<1> HIDE DEF v
<1>11. g \in [1..L -> S] /\ g[j] = v /\ \A n \in 1..L : n # j => g[n] = f[n]
  BY <1>8, <1>10
<1> HIDE DEF g
<1>12. ASSUME NEW n \in j..L
       PROVE  Right(g, n)
  <2>1. n \in 1..L /\ n >= j
    BY <1>8
  <2>2. n \in D => g[2 * n] = f[2 * n] /\ g[2 * n + 1] = f[2 * n + 1]
    <3>1. n \in D => 2 * n # j /\ 2 * n + 1 # j
      BY <1>8, <2>1
    <3> QED
      BY <1>9, <1>11, <3>1
  <2>3. CASE n = j
    BY <1>11, <2>2, <2>3 DEF v
  <2>4. CASE n # j
    <3>1. n \in k..L /\ g[n] = f[n]
      BY <1>8, <1>11, <2>1, <2>4
    <3> QED
      BY <1>6, <2>2, <3>1
  <2> QED
    BY <2>3, <2>4
<1>13. j \in Good
  <2>1. j \in 1..(L + 1)
    BY <1>8
  <2> HIDE DEF Right
  <2> QED
    BY <1>11, <1>12, <2>1 DEF Good
<1> QED
  BY <1>4, <1>8, <1>13

(***************************************************************************)
(* The tree's numbers, and the places of its nodes in the pool.             *)
(***************************************************************************)
LEMMA Parent ==
  ASSUME NEW n \in Nodes, n # 1
  PROVE  /\ n \div 2 \in Nodes /\ n \div 2 < n
         /\ \/ n % 2 = 0 /\ n = 2 * (n \div 2)
            \/ n % 2 = 1 /\ n = 2 * (n \div 2) + 1
BY BuddyAssumption DEF Nodes

\* Nodes have both halves or none, and the halves have the node as their parent.
LEMMA HalvesOf ==
  ASSUME NEW n \in Nodes, 2 * n \in Nodes
  PROVE  /\ 2 * n + 1 \in Nodes /\ n < 2 * n /\ 2 * n # 1 /\ 2 * n + 1 # 1
         /\ (2 * n) \div 2 = n /\ (2 * n) % 2 = 0
         /\ (2 * n + 1) \div 2 = n /\ (2 * n + 1) % 2 = 1
BY BuddyAssumption DEF Nodes

\* The nodes are counted from the head, 1.
LEMMA NodesAreNat == Nodes \subseteq Nat \ {0} /\ 1 \in Nodes
BY BuddyAssumption DEF Nodes

\* SizeOf is a function, and a half has half of its parent's size.
LEMMA SizeEquation ==
  /\ SizeOf \in [Nodes -> Nat]
  /\ \A n \in Nodes : SizeOf[n] = IF n = 1 THEN Pool ELSE SizeOf[n \div 2] \div 2
<1> DEFINE G == [n \in Nodes |-> [s \in Nat |-> s \div 2]]
<1>1. G \in [Nodes -> [Nat -> Nat]]
  OBVIOUS
<1>2. \A n \in Nodes, s \in Nat : G[n][s] = s \div 2
  OBVIOUS
<1> HIDE DEF G
<1>3. PICK f \in [Nodes -> Nat] :
        \A n \in Nodes : f[n] = IF n = 1 THEN Pool ELSE G[n][f[n \div 2]]
  <2>1. Pool \in Nat /\ Last \in Nat
    BY BuddyAssumption
  <2>2. G \in [1..Last -> [Nat -> Nat]]
    BY <1>1 DEF Nodes
  <2>3. \E f \in [1..Last -> Nat] : ByParent(f, Last, Pool, G)
    BY <2>1, <2>2, FromTheParent
  <2> QED
    BY <2>3 DEF Nodes, ByParent
<1>4. f = [n \in Nodes |-> IF n = 1 THEN Pool ELSE f[n \div 2] \div 2]
  <2>1. \A n \in Nodes : n # 1 => f[n \div 2] \in Nat
    BY Parent
  <2> QED
    BY <1>2, <1>3, <2>1
<1>5. SizeOf = [n \in Nodes |-> IF n = 1 THEN Pool ELSE SizeOf[n \div 2] \div 2]
  BY <1>4 DEF SizeOf
<1>6. \A n \in Nodes : SizeOf[n] = IF n = 1 THEN Pool ELSE SizeOf[n \div 2] \div 2
  BY <1>5
<1> DEFINE Odd == {n \in Nodes : SizeOf[n] \notin Nat}
<1>7. Odd = {}
  <2>1. SUFFICES ASSUME Odd # {}
                 PROVE  FALSE
    OBVIOUS
  <2>2. PICK n \in Odd : \A k \in Odd : n <= k
    BY <2>1, NodesAreNat, LeastExists
  <2>3. n # 1
    BY <1>6, <2>2, BuddyAssumption
  <2>4. n \div 2 \in Nodes /\ ~(n <= n \div 2)
    BY <2>2, <2>3, Parent, NodesAreNat
  <2>5. SizeOf[n \div 2] \in Nat
    BY <2>2, <2>4
  <2> QED
    BY <1>6, <2>2, <2>3, <2>5
<1> QED
  BY <1>5, <1>6, <1>7

\* IdxOf is a function: the left half begins where its parent does.
LEMMA IdxEquation ==
  /\ IdxOf \in [Nodes -> Nat]
  /\ \A n \in Nodes :
       IdxOf[n] = IF n = 1 THEN 0
                  ELSE IF n % 2 = 0 THEN IdxOf[n \div 2] ELSE IdxOf[n \div 2] + SizeOf[n]
<1> DEFINE G == [n \in Nodes |-> [s \in Nat |-> IF n % 2 = 0 THEN s ELSE s + SizeOf[n]]]
<1>1. G \in [Nodes -> [Nat -> Nat]]
  BY SizeEquation
<1>2. \A n \in Nodes, s \in Nat : G[n][s] = IF n % 2 = 0 THEN s ELSE s + SizeOf[n]
  OBVIOUS
<1> HIDE DEF G
<1>3. PICK f \in [Nodes -> Nat] :
        \A n \in Nodes : f[n] = IF n = 1 THEN 0 ELSE G[n][f[n \div 2]]
  <2>1. 0 \in Nat /\ Last \in Nat
    BY BuddyAssumption
  <2>2. G \in [1..Last -> [Nat -> Nat]]
    BY <1>1 DEF Nodes
  <2>3. \E f \in [1..Last -> Nat] : ByParent(f, Last, 0, G)
    BY <2>1, <2>2, FromTheParent
  <2> QED
    BY <2>3 DEF Nodes, ByParent
<1> DEFINE E(g, n) ==
             IF n = 1 THEN 0 ELSE IF n % 2 = 0 THEN g[n \div 2] ELSE g[n \div 2] + SizeOf[n]
<1>4. \A n \in Nodes : f[n] = E(f, n)
  <2>1. \A n \in Nodes : n # 1 => f[n \div 2] \in Nat
    BY Parent
  <2> QED
    BY <1>2, <1>3, <2>1
<1>5. f = [n \in Nodes |-> E(f, n)]
  <2> HIDE DEF E
  <2> QED
    BY <1>4
<1>6. IdxOf = [n \in Nodes |-> E(IdxOf, n)]
  BY <1>5 DEF IdxOf
<1>7. \A n \in Nodes : IdxOf[n] = E(IdxOf, n)
  <2> HIDE DEF E
  <2> QED
    BY <1>6
<1>8. DOMAIN IdxOf = Nodes /\ IdxOf = [n \in Nodes |-> IdxOf[n]]
  <2> HIDE DEF E
  <2> QED
    BY <1>6
<1> DEFINE Odd == {n \in Nodes : IdxOf[n] \notin Nat}
<1>9. Odd = {}
  <2>1. SUFFICES ASSUME Odd # {}
                 PROVE  FALSE
    OBVIOUS
  <2>2. PICK n \in Odd : \A k \in Odd : n <= k
    BY <2>1, NodesAreNat, LeastExists
  <2>3. n # 1
    BY <1>7, <2>2
  <2>4. n \div 2 \in Nodes /\ ~(n <= n \div 2)
    BY <2>2, <2>3, Parent, NodesAreNat
  <2>5. IdxOf[n \div 2] \in Nat /\ SizeOf[n] \in Nat
    BY <2>2, <2>4, SizeEquation
  <2> QED
    BY <1>7, <2>2, <2>3, <2>5
<1>10. IdxOf \in [Nodes -> Nat]
  BY <1>8, <1>9
<1> QED
  BY <1>7, <1>10

\* A node's bytes are those of another node; two nodes share no byte.
Inside(n, m) ==
  IdxOf[m] <= IdxOf[n] /\ IdxOf[n] + SizeOf[n] <= IdxOf[m] + SizeOf[m]

Beside(m, n) ==
  IdxOf[m] + SizeOf[m] <= IdxOf[n] \/ IdxOf[n] + SizeOf[n] <= IdxOf[m]

\* A node and the places of its halves.
LEMMA HalvesInside ==
  ASSUME NEW n \in Nodes, 2 * n \in Nodes
  PROVE  /\ SizeOf[2 * n] = SizeOf[n] \div 2 /\ SizeOf[2 * n + 1] = SizeOf[n] \div 2
         /\ IdxOf[2 * n] = IdxOf[n] /\ IdxOf[2 * n + 1] = IdxOf[n] + SizeOf[n] \div 2
         /\ Inside(2 * n, n) /\ Inside(2 * n + 1, n) /\ Beside(2 * n, 2 * n + 1)
<1>1. /\ SizeOf[2 * n] = SizeOf[n] \div 2 /\ SizeOf[2 * n + 1] = SizeOf[n] \div 2
      /\ SizeOf[n] \in Nat /\ IdxOf[n] \in Nat
  BY HalvesOf, SizeEquation, IdxEquation
<1>2. IdxOf[2 * n] = IdxOf[n] /\ IdxOf[2 * n + 1] = IdxOf[n] + SizeOf[n] \div 2
  BY <1>1, HalvesOf, IdxEquation
<1>3. SizeOf[n] \div 2 \in Nat /\ 2 * (SizeOf[n] \div 2) <= SizeOf[n]
  BY <1>1
<1> QED
  BY <1>1, <1>2, <1>3 DEF Inside, Beside

\* A half lies in its parent.
LEMMA InsideParent ==
  ASSUME NEW n \in Nodes, n # 1
  PROVE  Inside(n, n \div 2)
<1> DEFINE p == n \div 2
<1>1. p \in Nodes /\ (n = 2 * p \/ n = 2 * p + 1)
  BY Parent
<1>2. 2 * p \in Nodes
  BY <1>1, BuddyAssumption DEF Nodes
<1> HIDE DEF p
<1>3. Inside(n, p)
  BY <1>1, <1>2, HalvesInside
<1> QED
  BY <1>3 DEF p

\* What lies in a part of c lies in c.
LEMMA InsideIsTransitive ==
  ASSUME NEW a \in Nodes, NEW b \in Nodes, NEW c \in Nodes, Inside(a, b), Inside(b, c)
  PROVE  Inside(a, c)
<1>1. /\ IdxOf[a] \in Nat /\ IdxOf[b] \in Nat /\ IdxOf[c] \in Nat
      /\ SizeOf[a] \in Nat /\ SizeOf[b] \in Nat /\ SizeOf[c] \in Nat
  BY SizeEquation, IdxEquation
<1> QED
  BY <1>1 DEF Inside

\* What lies beside b lies beside every part of b.
LEMMA InsideBeside ==
  ASSUME NEW a \in Nodes, NEW b \in Nodes, NEW c \in Nodes, Inside(a, b), Beside(b, c)
  PROVE  Beside(a, c)
<1>1. /\ IdxOf[a] \in Nat /\ IdxOf[b] \in Nat /\ IdxOf[c] \in Nat
      /\ SizeOf[a] \in Nat /\ SizeOf[b] \in Nat /\ SizeOf[c] \in Nat
  BY SizeEquation, IdxEquation
<1> QED
  BY <1>1 DEF Inside, Beside

\* Every node lies in the pool.
LEMMA InsidePool ==
  \A n \in Nodes : IdxOf[n] + SizeOf[n] <= Pool
<1> DEFINE Odd == {n \in Nodes : ~ Inside(n, 1)}
<1>1. Odd = {}
  <2>1. SUFFICES ASSUME Odd # {}
                 PROVE  FALSE
    OBVIOUS
  <2>2. PICK n \in Odd : \A k \in Odd : n <= k
    BY <2>1, NodesAreNat, LeastExists
  <2>3. n # 1
    <3>1. IdxOf[1] \in Nat /\ SizeOf[1] \in Nat
      BY NodesAreNat, IdxEquation, SizeEquation
    <3>2. Inside(1, 1)
      BY <3>1 DEF Inside
    <3> QED
      BY <2>2, <3>2
  <2>4. n \div 2 \in Nodes /\ ~(n <= n \div 2)
    BY <2>2, <2>3, Parent, NodesAreNat
  <2>5. Inside(n \div 2, 1)
    BY <2>2, <2>4
  <2>6. Inside(n, 1)
    BY <2>2, <2>3, <2>4, <2>5, InsideParent, InsideIsTransitive, NodesAreNat
  <2> QED
    BY <2>2, <2>6
<1>2. IdxOf[1] = 0 /\ SizeOf[1] = Pool
  BY NodesAreNat, IdxEquation, SizeEquation
<1>3. Pool \in Nat
  BY BuddyAssumption
<1> QED
  BY <1>1, <1>2, <1>3 DEF Inside

(***************************************************************************)
(* Trees.                                                                   *)
(***************************************************************************)
\* TypeOK's conjuncts on the tree, for any tree t.
WellFormed(t) ==
  /\ t \in [Nodes -> States]
  /\ t[1] # "none"
  /\ \A n \in Nodes \ {1} : t[n] # "none" <=> t[n \div 2] = "SPLIT"
  /\ \A n \in Nodes : t[n] = "SPLIT" => 2 * n \in Nodes

\* Of two nodes, one comes later: it lies beside the other or below it, and
\* then it exists only if the other is split.
Placed(t, m, n) ==
  \/ Beside(m, n)
  \/ 2 * m <= n /\ Inside(n, m) /\ (t[n] # "none" => t[m] = "SPLIT")

\* Two nodes: the later lies beside the other or below it.
LEMMA Places ==
  ASSUME NEW t, WellFormed(t)
  PROVE  \A m, n \in Nodes : m < n => Placed(t, m, n)
<1> DEFINE Odd == {n \in Nodes : \E m \in Nodes : m < n /\ ~ Placed(t, m, n)}
<1>1. SUFFICES ASSUME Odd # {}
               PROVE  FALSE
  <2>1. Odd = {} => \A n \in Nodes : \A m \in Nodes : m < n => Placed(t, m, n)
    BY Zenon
  <2> QED
    BY <2>1, Zenon
<1>2. Odd \subseteq Nodes
  BY Zenon
<1>3. \A n \in Odd : \E m \in Nodes : m < n /\ ~ Placed(t, m, n)
  BY Zenon
<1>4. \A n \in Nodes \ Odd : \A m \in Nodes : m < n => Placed(t, m, n)
  BY Zenon
<1> HIDE DEF Odd
<1>5. PICK n \in Odd : \A k \in Odd : n <= k
  BY <1>1, <1>2, NodesAreNat, LeastExists
<1>6. PICK m \in Nodes : m < n /\ ~ Placed(t, m, n)
  BY <1>3, <1>5
<1> DEFINE p == n \div 2
<1>7. n \in Nodes /\ n # 1 /\ m \in Nat \ {0} /\ n \in Nat
  BY <1>2, <1>5, <1>6, NodesAreNat
<1>8. p \in Nodes /\ p < n /\ (n = 2 * p \/ n = 2 * p + 1)
  BY <1>7, Parent
<1>9. Inside(n, p) /\ (t[n] # "none" <=> t[p] = "SPLIT")
  BY <1>7, InsideParent DEF WellFormed
<1>10. p \in Nat \ {0} /\ 2 * p \in Nodes
  <2>1. p \in 1..Last /\ n \in 1..Last /\ Last \in Nat
    BY <1>7, <1>8, BuddyAssumption DEF Nodes
  <2> HIDE DEF p
  <2>2. p \in Nat \ {0} /\ 2 * p \in 1..Last
    BY <1>8, <2>1
  <2> QED
    BY <2>2 DEF Nodes
<1> HIDE DEF p
<1>11. \A k \in Nodes : k < n => k \notin Odd
  BY <1>2, <1>5, <1>7, NodesAreNat
<1>12. CASE m = p
  BY <1>6, <1>8, <1>9, <1>10, <1>12 DEF Placed
<1>13. CASE m < p
  <2>1. Placed(t, m, p)
    BY <1>4, <1>8, <1>11, <1>13
  <2>2. CASE Beside(m, p)
    <3>1. Beside(p, m)
      BY <2>2, Zenon DEF Beside
    <3>2. Beside(n, m)
      BY <1>7, <1>8, <1>9, <3>1, InsideBeside
    <3>3. Beside(m, n)
      BY <3>2, Zenon DEF Beside
    <3> QED
      BY <1>6, <3>3 DEF Placed
  <2>3. CASE 2 * m <= p /\ Inside(p, m) /\ (t[p] # "none" => t[m] = "SPLIT")
    <3>1. Inside(n, m)
      BY <1>7, <1>8, <1>9, <2>3, InsideIsTransitive
    <3>2. 2 * m <= n
      BY <1>7, <1>8, <1>10, <2>3
    <3>3. t[n] # "none" => t[m] = "SPLIT"
      BY <1>9, <2>3
    <3> QED
      BY <1>6, <3>1, <3>2, <3>3 DEF Placed
  <2> QED
    BY <2>1, <2>2, <2>3 DEF Placed
<1>14. CASE p < m
  <2>1. Placed(t, p, m)
    BY <1>4, <1>6, <1>8, <1>11, <1>14
  <2>2. CASE Beside(p, m)
    <3>1. Beside(n, m)
      BY <1>7, <1>8, <1>9, <2>2, InsideBeside
    <3>2. Beside(m, n)
      BY <3>1, Zenon DEF Beside
    <3> QED
      BY <1>6, <3>2 DEF Placed
  <2>3. CASE 2 * p <= m
    <3>1. m = 2 * p /\ n = 2 * p + 1
      BY <1>6, <1>7, <1>8, <1>10, <2>3
    <3>2. Beside(m, n)
      BY <1>8, <1>10, <3>1, HalvesInside
    <3> QED
      BY <1>6, <3>2 DEF Placed
  <2> QED
    BY <2>1, <2>2, <2>3 DEF Placed
<1>15. m = p \/ m < p \/ p < m
  BY <1>7, <1>10
<1> QED
  BY <1>12, <1>13, <1>14, <1>15

\* Two nodes that exist and are not split share no byte.
LEMMA LeavesBeside ==
  ASSUME NEW t, WellFormed(t), NEW m \in Nodes, NEW n \in Nodes, m # n,
         t[m] \notin {"none", "SPLIT"}, t[n] \notin {"none", "SPLIT"}
  PROVE  Beside(m, n)
<1>1. m < n \/ n < m
  BY NodesAreNat
<1>2. m < n => Beside(m, n)
  BY Places DEF Placed
<1>3. n < m => Beside(n, m)
  BY Places DEF Placed
<1>4. Beside(n, m) => Beside(m, n)
  BY Zenon DEF Beside
<1> QED
  BY <1>1, <1>2, <1>3, <1>4

\* A set of nodes has a last one.
LEMMA LastExists ==
  ASSUME NEW S, S \subseteq Nodes, S # {}
  PROVE  \E n \in S : \A k \in S : k <= n
<1> DEFINE T == {Last - n : n \in S}
<1>1. Last \in Nat /\ \A n \in S : n \in Nat /\ Last - n \in Nat
  BY BuddyAssumption DEF Nodes
<1>2. T \subseteq Nat /\ T # {}
  BY <1>1
<1>3. \A u \in T : \E n \in S : u = Last - n
  OBVIOUS
<1>4. \A n \in S : Last - n \in T
  OBVIOUS
<1> HIDE DEF T
<1>5. PICK u \in T : \A v \in T : u <= v
  BY <1>2, LeastExists
<1>6. PICK n \in S : u = Last - n
  BY <1>3
<1>7. \A k \in S : Last - n <= Last - k
  BY <1>4, <1>5, <1>6
<1> QED
  BY <1>1, <1>7

\* What the walk of _buddy_alloc finds: a free node that is large enough, or
\* none if there is none.
LEMMA FoundIsFree ==
  ASSUME NEW t, WellFormed(t), NEW size \in Nat
  PROVE  \/ /\ Found(t, size) \in Nodes /\ t[Found(t, size)] = "FREE"
            /\ SizeOf[Found(t, size)] >= size
         \/ /\ Found(t, size) = 0
            /\ \A n \in Nodes : t[n] = "FREE" => ~(SizeOf[n] >= size)
<1> DEFINE Fit(n) == t[n] = "FREE" /\ SizeOf[n] >= size
           E(f, n) == IF t[n] = "SPLIT"
                      THEN IF f[2 * n] # 0 THEN f[2 * n] ELSE f[2 * n + 1]
                      ELSE IF Fit(n) THEN n ELSE 0
           find == CHOOSE f : f = [n \in Nodes |-> E(f, n)]
<1>1. Found(t, size) = find[1]
  BY DEF Found
<1>2. \E f : f = [n \in Nodes |-> E(f, n)]
  <2> DEFINE S == 0..Last
             D == {n \in Nodes : t[n] = "SPLIT"}
             base == [n \in Nodes |-> IF Fit(n) THEN n ELSE 0]
             G == [l \in S |-> [r \in S |-> IF l # 0 THEN l ELSE r]]
  <2>1. D \subseteq 1..Last /\ \A n \in D : 2 * n + 1 \in 1..Last
    BY HalvesOf DEF WellFormed, Nodes
  <2>2. base \in [1..Last -> S] /\ \A n \in Nodes : base[n] = IF Fit(n) THEN n ELSE 0
    <3> HIDE DEF Fit
    <3> QED
      BY BuddyAssumption DEF Nodes
  <2>3. G \in [S -> [S -> S]] /\ \A l, r \in S : G[l][r] = IF l # 0 THEN l ELSE r
    OBVIOUS
  <2>4. \A n \in Nodes : n \in D <=> t[n] = "SPLIT"
    OBVIOUS
  <2> HIDE DEF S, D, base, G
  <2>5. PICK f \in [1..Last -> S] : ByHalves(f, Last, D, base, G)
    BY <2>1, <2>2, <2>3, BuddyAssumption, FromTheHalves
  <2>6. f \in [Nodes -> S]
    BY <2>5 DEF Nodes
  <2>7. ASSUME NEW n \in Nodes
        PROVE  f[n] = E(f, n)
    <3>1. f[n] = IF n \in D THEN G[f[2 * n]][f[2 * n + 1]] ELSE base[n]
      BY <2>5 DEF ByHalves, Nodes
    <3>2. CASE t[n] = "SPLIT"
      <4>1. 2 * n \in Nodes /\ 2 * n + 1 \in Nodes
        BY <3>2, HalvesOf DEF WellFormed
      <4>2. f[2 * n] \in S /\ f[2 * n + 1] \in S
        BY <2>6, <4>1
      <4> QED
        BY <2>3, <2>4, <3>1, <3>2, <4>2
    <3>3. CASE t[n] # "SPLIT"
      BY <2>2, <2>4, <3>1, <3>3
    <3> QED
      BY <3>2, <3>3
  <2>8. f = [n \in Nodes |-> E(f, n)]
    <3> HIDE DEF E
    <3> QED
      BY <2>6, <2>7
  <2> QED
    BY <2>8
<1>3. \A n \in Nodes : find[n] = E(find, n)
  <2>1. find = [n \in Nodes |-> E(find, n)]
    <3> HIDE DEF E
    <3> QED
      BY <1>2
  <2> HIDE DEF find, E
  <2> QED
    BY <2>1
<1> HIDE DEF find
<1> DEFINE Answer(v) == v = 0 \/ (v \in Nodes /\ Fit(v))
           Odd == {n \in Nodes : ~ Answer(find[n])}
<1>4. Odd = {}
  <2>1. SUFFICES ASSUME Odd # {}
                 PROVE  FALSE
    OBVIOUS
  <2>2. PICK n \in Odd : \A k \in Odd : k <= n
    BY <2>1, LastExists
  <2>3. CASE t[n] = "SPLIT"
    <3>1. 2 * n \in Nodes /\ 2 * n + 1 \in Nodes
      BY <2>3, HalvesOf DEF WellFormed
    <3>2. 2 * n \notin Odd /\ 2 * n + 1 \notin Odd
      <4>1. n \in Nat \ {0} /\ ~(2 * n <= n) /\ ~(2 * n + 1 <= n)
        BY NodesAreNat
      <4> QED
        BY <2>2, <4>1
    <3>3. Answer(find[2 * n]) /\ Answer(find[2 * n + 1])
      <4> HIDE DEF Answer
      <4> QED
        BY <3>1, <3>2
    <3>4. find[n] = find[2 * n] \/ find[n] = find[2 * n + 1]
      BY <1>3, <2>2, <2>3
    <3>5. Answer(find[n])
      <4> HIDE DEF Answer
      <4> QED
        BY <3>3, <3>4
    <3> QED
      BY <2>2, <3>5
  <2>4. CASE t[n] # "SPLIT"
    <3>1. n \in Nodes /\ find[n] = IF Fit(n) THEN n ELSE 0
      BY <1>3, <2>2, <2>4
    <3>2. Answer(find[n])
      BY <3>1
    <3> QED
      BY <2>2, <3>2
  <2> QED
    BY <2>3, <2>4
<1> DEFINE Missed == {n \in Nodes : t[n] # "none" /\ find[n] # 0}
<1>5. find[1] = 0 => Missed = {}
  <2>1. SUFFICES ASSUME find[1] = 0, Missed # {}
                 PROVE  FALSE
    OBVIOUS
  <2>2. PICK n \in Missed : \A k \in Missed : n <= k
    BY <2>1, NodesAreNat, LeastExists
  <2>3. n # 1
    BY <2>1, <2>2
  <2> DEFINE p == n \div 2
  <2>4. p \in Nodes /\ p < n /\ (n = 2 * p \/ n = 2 * p + 1)
    BY <2>3, Parent
  <2>5. t[p] = "SPLIT"
    BY <2>2, <2>3 DEF WellFormed
  <2> HIDE DEF p
  <2>6. find[p] = 0
    BY <2>2, <2>4, <2>5, NodesAreNat
  <2>7. find[2 * p] = 0 /\ find[2 * p + 1] = 0
    BY <1>3, <2>4, <2>5, <2>6
  <2>8. find[n] # 0
    BY <2>2
  <2> HIDE DEF Missed
  <2> QED
    BY <2>4, <2>7, <2>8
<1>6. find[1] = 0 => \A n \in Nodes : ~ Fit(n)
  <2>1. SUFFICES ASSUME find[1] = 0, NEW n \in Nodes, Fit(n)
                 PROVE  FALSE
    BY Zenon
  <2>2. find[n] = n /\ n # 0 /\ t[n] # "none"
    BY <1>3, <2>1, NodesAreNat
  <2> QED
    BY <1>5, <2>1, <2>2
<1> QED
  BY <1>1, <1>4, <1>6, NodesAreNat

\* Two free halves of a node have been given back to it.
NoFreeHalves(t) ==
  \A n \in Nodes : t[n] = "SPLIT" => ~(t[2 * n] = "FREE" /\ t[2 * n + 1] = "FREE")

\* A tree whose nodes' states come from the halves up, and are kept below the
\* nodes that stay split.
LEMMA KeptIsTree ==
  ASSUME NEW t, WellFormed(t), NEW state \in [Nodes -> States],
         NEW kept \in [Nodes -> States],
         \A n \in Nodes : state[n] = "none" <=> t[n] = "none",
         \A n \in Nodes : t[n] # "SPLIT" => state[n] # "SPLIT",
         \A n \in Nodes : t[n] = "SPLIT" =>
           state[n] = IF state[2 * n] = "FREE" /\ state[2 * n + 1] = "FREE"
                      THEN "FREE" ELSE "SPLIT",
         \A n \in Nodes :
           kept[n] = IF n = 1 THEN state[n]
                     ELSE IF kept[n \div 2] = "SPLIT" THEN state[n] ELSE "none"
  PROVE  /\ WellFormed(kept)
         /\ NoFreeHalves(kept)
         /\ \A n \in Nodes : kept[n] = "ALLOC" <=> state[n] = "ALLOC"
<1>1. \A n \in Nodes : kept[n] = state[n] \/ kept[n] = "none"
  OBVIOUS
<1>2. \A n \in Nodes : kept[n] = "SPLIT" => t[n] = "SPLIT" /\ 2 * n \in Nodes
  BY <1>1 DEF WellFormed
<1>3. WellFormed(kept)
  <2>1. kept[1] # "none"
    BY NodesAreNat DEF WellFormed
  <2>2. ASSUME NEW n \in Nodes \ {1}
        PROVE  kept[n] # "none" <=> kept[n \div 2] = "SPLIT"
    <3>1. n \div 2 \in Nodes
      BY Parent
    <3>2. kept[n \div 2] = "SPLIT" => state[n] # "none"
      BY <1>2, <3>1 DEF WellFormed
    <3> QED
      BY <3>2
  <2> QED
    BY <1>2, <2>1, <2>2 DEF WellFormed
<1>4. NoFreeHalves(kept)
  <2>1. SUFFICES ASSUME NEW n \in Nodes, kept[n] = "SPLIT",
                        kept[2 * n] = "FREE", kept[2 * n + 1] = "FREE"
                 PROVE  FALSE
    BY DEF NoFreeHalves
  <2>2. 2 * n \in Nodes /\ 2 * n + 1 \in Nodes /\ t[n] = "SPLIT"
    BY <1>2, <2>1, HalvesOf
  <2>3. state[n] = "SPLIT" /\ state[2 * n] = "FREE" /\ state[2 * n + 1] = "FREE"
    BY <1>1, <2>1, <2>2
  <2> QED
    BY <2>2, <2>3
<1> DEFINE Odd == {n \in Nodes : state[n] \in {"ALLOC", "SPLIT"} /\ kept[n] # state[n]}
<1>5. Odd = {}
  <2>1. SUFFICES ASSUME Odd # {}
                 PROVE  FALSE
    OBVIOUS
  <2>2. PICK n \in Odd : \A k \in Odd : n <= k
    BY <2>1, NodesAreNat, LeastExists
  <2>3. n \in Nodes /\ state[n] \in {"ALLOC", "SPLIT"} /\ kept[n] # state[n]
    BY <2>2
  <2>4. n # 1
    BY <2>3
  <2> DEFINE p == n \div 2
  <2>5. p \in Nodes /\ p < n /\ (n = 2 * p \/ n = 2 * p + 1)
    BY <2>3, <2>4, Parent
  <2>6. kept[n] = IF kept[p] = "SPLIT" THEN state[n] ELSE "none"
    BY <2>3, <2>4
  <2>7. t[p] = "SPLIT"
    BY <2>3, <2>4 DEF WellFormed
  <2> HIDE DEF p
  <2>8. state[p] = "SPLIT"
    <3>1. ~(state[2 * p] = "FREE" /\ state[2 * p + 1] = "FREE")
      BY <2>3, <2>5
    <3> QED
      BY <2>5, <2>7, <3>1
  <2>9. kept[p] = "SPLIT"
    <3>1. ~(n <= p)
      BY <2>3, <2>5, NodesAreNat
    <3> QED
      BY <2>2, <2>5, <2>8, <3>1
  <2> QED
    BY <2>3, <2>6, <2>9
<1>6. \A n \in Nodes : kept[n] = "ALLOC" <=> state[n] = "ALLOC"
  BY <1>1, <1>5
<1> QED
  BY <1>3, <1>4, <1>6

\* _buddy_free frees the allocated nodes with the index, and keeps the tree.
LEMMA FreedIsTree ==
  ASSUME NEW t, WellFormed(t), NEW idx
  PROVE  /\ WellFormed(Freed(t, idx))
         /\ NoFreeHalves(Freed(t, idx))
         /\ \A n \in Nodes :
              Freed(t, idx)[n] = "ALLOC" <=> t[n] = "ALLOC" /\ IdxOf[n] # idx
<1> DEFINE Own(n) == IF IdxOf[n] = idx /\ t[n] = "ALLOC" THEN "FREE" ELSE t[n]
           E(f, n) == IF t[n] = "SPLIT"
                      THEN IF f[2 * n] = "FREE" /\ f[2 * n + 1] = "FREE"
                           THEN "FREE" ELSE "SPLIT"
                      ELSE Own(n)
           state == CHOOSE f : f = [n \in Nodes |-> E(f, n)]
           K(f, n) == IF n = 1 THEN state[n]
                      ELSE IF f[n \div 2] = "SPLIT" THEN state[n] ELSE "none"
           kept == CHOOSE f : f = [n \in Nodes |-> K(f, n)]
<1>1. Freed(t, idx) = kept
  BY DEF Freed
<1>2. \A n \in Nodes : t[n] \in States /\ Own(n) \in States
  BY DEF WellFormed, States
<1>3. \E f : f = [n \in Nodes |-> E(f, n)]
  <2> DEFINE D == {n \in Nodes : t[n] = "SPLIT"}
             base == [n \in Nodes |-> Own(n)]
             G == [l \in States |-> [r \in States |->
                     IF l = "FREE" /\ r = "FREE" THEN "FREE" ELSE "SPLIT"]]
  <2>1. D \subseteq 1..Last /\ \A n \in D : 2 * n + 1 \in 1..Last
    BY HalvesOf DEF WellFormed, Nodes
  <2>2. base \in [1..Last -> States] /\ \A n \in Nodes : base[n] = Own(n)
    <3> HIDE DEF Own
    <3> QED
      BY <1>2 DEF Nodes
  <2>3. /\ G \in [States -> [States -> States]]
        /\ \A l, r \in States :
             G[l][r] = IF l = "FREE" /\ r = "FREE" THEN "FREE" ELSE "SPLIT"
    BY DEF States
  <2>4. \A n \in Nodes : n \in D <=> t[n] = "SPLIT"
    OBVIOUS
  <2> HIDE DEF D, base, G, Own
  <2>5. PICK f \in [1..Last -> States] : ByHalves(f, Last, D, base, G)
    BY <2>1, <2>2, <2>3, BuddyAssumption, FromTheHalves
  <2>6. f \in [Nodes -> States]
    BY <2>5 DEF Nodes
  <2>7. ASSUME NEW n \in Nodes
        PROVE  f[n] = E(f, n)
    <3>1. f[n] = IF n \in D THEN G[f[2 * n]][f[2 * n + 1]] ELSE base[n]
      BY <2>5 DEF ByHalves, Nodes
    <3>2. CASE t[n] = "SPLIT"
      <4>1. 2 * n \in Nodes /\ 2 * n + 1 \in Nodes
        BY <3>2, HalvesOf DEF WellFormed
      <4>2. f[2 * n] \in States /\ f[2 * n + 1] \in States
        BY <2>6, <4>1
      <4> QED
        BY <2>3, <2>4, <3>1, <3>2, <4>2
    <3>3. CASE t[n] # "SPLIT"
      BY <2>2, <2>4, <3>1, <3>3
    <3> QED
      BY <3>2, <3>3
  <2>8. f = [n \in Nodes |-> E(f, n)]
    <3> HIDE DEF E
    <3> QED
      BY <2>6, <2>7
  <2> QED
    BY <2>8
<1>4. state = [n \in Nodes |-> E(state, n)]
  <2> HIDE DEF E
  <2> QED
    BY <1>3
<1> HIDE DEF state
<1>5. state \in [Nodes -> States] /\ \A n \in Nodes : state[n] = E(state, n)
  <2>1. \A n \in Nodes : E(state, n) \in States
    <3> HIDE DEF Own
    <3> QED
      BY <1>2 DEF States
  <2> HIDE DEF E
  <2> QED
    BY <1>4, <2>1
<1>6. \E f : f = [n \in Nodes |-> K(f, n)]
  <2> DEFINE G == [n \in Nodes |-> [s \in States |->
                     IF s = "SPLIT" THEN state[n] ELSE "none"]]
  <2>1. /\ G \in [Nodes -> [States -> States]]
        /\ \A n \in Nodes, s \in States :
             G[n][s] = IF s = "SPLIT" THEN state[n] ELSE "none"
    BY <1>5 DEF States
  <2>2. state[1] \in States
    BY <1>5, NodesAreNat
  <2> HIDE DEF G
  <2>3. G \in [1..Last -> [States -> States]]
    BY <2>1 DEF Nodes
  <2>4. PICK f \in [1..Last -> States] : ByParent(f, Last, state[1], G)
    BY <2>2, <2>3, BuddyAssumption, FromTheParent
  <2>5. f \in [Nodes -> States]
    BY <2>4 DEF Nodes
  <2>6. ASSUME NEW n \in Nodes
        PROVE  f[n] = K(f, n)
    <3>1. f[n] = IF n = 1 THEN state[1] ELSE G[n][f[n \div 2]]
      BY <2>4 DEF ByParent, Nodes
    <3>2. n # 1 => f[n \div 2] \in States
      BY <2>5, Parent
    <3> QED
      BY <2>1, <3>1, <3>2
  <2>7. f = [n \in Nodes |-> K(f, n)]
    <3> HIDE DEF K
    <3> QED
      BY <2>5, <2>6
  <2> QED
    BY <2>7
<1>7. kept = [n \in Nodes |-> K(kept, n)]
  <2> HIDE DEF K
  <2> QED
    BY <1>6
<1> HIDE DEF kept
<1>8. kept \in [Nodes -> States] /\ \A n \in Nodes : kept[n] = K(kept, n)
  <2>1. \A n \in Nodes : K(kept, n) \in States
    BY <1>5 DEF States
  <2> HIDE DEF K
  <2> QED
    BY <1>7, <2>1
<1>9. /\ \A n \in Nodes : t[n] # "SPLIT" => state[n] = Own(n)
      /\ \A n \in Nodes : t[n] = "SPLIT" =>
           state[n] = IF state[2 * n] = "FREE" /\ state[2 * n + 1] = "FREE"
                      THEN "FREE" ELSE "SPLIT"
  <2> HIDE DEF Own
  <2> QED
    BY <1>5
<1>10. /\ \A n \in Nodes : state[n] = "none" <=> t[n] = "none"
       /\ \A n \in Nodes : t[n] # "SPLIT" => state[n] # "SPLIT"
       /\ \A n \in Nodes : state[n] = "ALLOC" <=> t[n] = "ALLOC" /\ IdxOf[n] # idx
  <2>1. ASSUME NEW n \in Nodes, t[n] = "SPLIT"
        PROVE  state[n] \in {"FREE", "SPLIT"}
    BY <1>9, <2>1
  <2>2. ASSUME NEW n \in Nodes, t[n] # "SPLIT"
        PROVE  state[n] = IF IdxOf[n] = idx /\ t[n] = "ALLOC" THEN "FREE" ELSE t[n]
    BY <1>9, <2>2
  <2> QED
    BY <2>1, <2>2
<1>11. \A n \in Nodes :
         kept[n] = IF n = 1 THEN state[n]
                   ELSE IF kept[n \div 2] = "SPLIT" THEN state[n] ELSE "none"
  BY <1>8
<1> HIDE DEF Own, E, K
<1>12. /\ WellFormed(kept) /\ NoFreeHalves(kept)
       /\ \A n \in Nodes : kept[n] = "ALLOC" <=> state[n] = "ALLOC"
  BY <1>5, <1>8, <1>9, <1>10, <1>11, KeptIsTree
<1> QED
  BY <1>1, <1>10, <1>12

(***************************************************************************)
(* Splitting.                                                               *)
(***************************************************************************)
LEMMA VisitedIs ==
  ASSUME NEW start, NEW size
  PROVE  /\ Visited(start, size) \subseteq Nodes
         /\ \A n \in Nodes :
              n \in Visited(start, size) <=>
                \/ n = start
                \/ /\ n % 2 = 0
                   /\ n \div 2 \in Visited(start, size)
                   /\ Halves(n \div 2, size)
<1> DEFINE E(f, n) == \/ n = start
                      \/ n % 2 = 0 /\ f[n \div 2] /\ Halves(n \div 2, size)
           visited == CHOOSE f : f = [n \in Nodes |-> E(f, n)]
<1>1. Visited(start, size) = {n \in Nodes : visited[n]}
  BY DEF Visited
<1>2. \E f : f = [n \in Nodes |-> E(f, n)]
  <2> DEFINE G == [n \in Nodes |-> [b \in BOOLEAN |->
                     n = start \/ (n % 2 = 0 /\ b /\ Halves(n \div 2, size))]]
  <2>1. G \in [Nodes -> [BOOLEAN -> BOOLEAN]]
    BY Zenon
  <2>2. ASSUME NEW n \in Nodes, NEW b \in BOOLEAN
        PROVE  G[n][b] = (n = start \/ (n % 2 = 0 /\ b /\ Halves(n \div 2, size)))
    BY Zenon
  <2>3. (1 = start) \in BOOLEAN
    BY Zenon
  <2> HIDE DEF G
  <2>4. G \in [1..Last -> [BOOLEAN -> BOOLEAN]]
    BY <2>1 DEF Nodes
  <2>5. PICK f \in [1..Last -> BOOLEAN] : ByParent(f, Last, (1 = start), G)
    BY <2>3, <2>4, BuddyAssumption, FromTheParent, Zenon
  <2>6. f \in [Nodes -> BOOLEAN]
    BY <2>5 DEF Nodes
  <2>7. ASSUME NEW n \in Nodes
        PROVE  f[n] = E(f, n)
    <3>1. f[n] = IF n = 1 THEN (1 = start) ELSE G[n][f[n \div 2]]
      BY <2>5, Zenon DEF ByParent, Nodes
    <3>2. CASE n = 1
      <4>1. ~(n % 2 = 0)
        BY <3>2
      <4> QED
        BY <3>1, <3>2, <4>1, Zenon
    <3>3. CASE n # 1
      <4>1. n \div 2 \in Nodes
        BY <3>3, Parent
      <4>2. f[n \div 2] \in BOOLEAN
        BY <2>6, <4>1, Zenon
      <4> QED
        BY <2>2, <3>1, <3>3, <4>2, Zenon
    <3> QED
      BY <3>2, <3>3
  <2>8. f = [n \in Nodes |-> E(f, n)]
    <3> HIDE DEF E
    <3> QED
      BY <2>6, <2>7, Zenon
  <2> QED
    BY <2>8, Zenon
<1>3. visited = [n \in Nodes |-> E(visited, n)]
  <2> HIDE DEF E
  <2> QED
    BY <1>2, Zenon
<1> HIDE DEF visited
<1>4. \A n \in Nodes : visited[n] = E(visited, n)
  <2> HIDE DEF E
  <2> QED
    BY <1>3, Zenon
<1>5. ASSUME NEW n \in Nodes, n % 2 = 0
      PROVE  n \div 2 \in Nodes
  BY <1>5, Parent
<1>6. ASSUME NEW n \in Nodes
      PROVE  n \in Visited(start, size) <=>
               \/ n = start
               \/ /\ n % 2 = 0
                  /\ n \div 2 \in Visited(start, size)
                  /\ Halves(n \div 2, size)
  BY <1>1, <1>4, <1>5, Zenon
<1> QED
  BY <1>1, <1>6, Zenon

\* What the recursion of _buddy_alloc goes through from a node that is large
\* enough: a chain of nodes, each but the last larger than needed.
LEMMA VisitedChain ==
  ASSUME NEW start \in Nodes, NEW size \in Nat, size >= Page, SizeOf[start] >= size
  PROVE  /\ start \in Visited(start, size)
         /\ \A n \in Visited(start, size) :
              /\ n \in Nodes /\ SizeOf[n] >= size /\ start <= n
              /\ Halves(n, size) => 2 * n \in Visited(start, size)
         /\ \A m, n \in Visited(start, size) : m < n => 2 * m <= n /\ Halves(m, size)
<1> DEFINE V == Visited(start, size)
<1>1. /\ V \subseteq Nodes /\ start \in V
      /\ \A n \in V : n = start \/
           (n % 2 = 0 /\ n \div 2 \in V /\ Halves(n \div 2, size))
      /\ \A n \in Nodes :
           n % 2 = 0 /\ n \div 2 \in V /\ Halves(n \div 2, size) => n \in V
  BY VisitedIs
<1> HIDE DEF V
<1>2. ASSUME NEW n \in V
      PROVE  SizeOf[n] >= size
  <2>1. CASE n = start
    BY <2>1
  <2>2. CASE n # start
    <3> DEFINE p == n \div 2
    <3>1. n \in Nodes /\ n % 2 = 0 /\ p \in V /\ Halves(p, size)
      BY <1>1, <2>2
    <3>2. n # 1
      BY <3>1
    <3>3. SizeOf[n] = SizeOf[p] \div 2
      BY <3>1, <3>2, SizeEquation
    <3> QED
      BY <3>1, <3>3 DEF Halves
  <2> QED
    BY <2>1, <2>2
<1>3. ASSUME NEW n \in V, Halves(n, size)
      PROVE  2 * n \in V
  <2>1. n \in Nodes
    BY <1>1
  <2>2. 2 * n \in Nodes
    <3>1. SizeOf[n] \div 2 \in Nat /\ SizeOf[n] \div 2 >= size /\ Page \in Nat
      BY <1>3, <2>1, SizeEquation, MemBlocksAssumption DEF Halves
    <3>2. ~(SizeOf[n] \div 2 < Page)
      BY <3>1
    <3> QED
      BY <2>1, <3>2, MemBlocksAssumption
  <2>3. (2 * n) % 2 = 0 /\ (2 * n) \div 2 = n
    BY <2>1, <2>2, HalvesOf
  <2> QED
    BY <1>1, <1>3, <2>2, <2>3
\* Below the start nothing is gone through: the least node is the start.
<1>4. \A n \in V : start <= n
  <2>1. PICK n \in V : \A k \in V : n <= k
    BY <1>1, NodesAreNat, LeastExists
  <2>2. n = start
    <3>1. SUFFICES ASSUME n # start
                   PROVE  FALSE
      OBVIOUS
    <3>2. n \in Nodes /\ n % 2 = 0 /\ n \div 2 \in V
      BY <1>1, <3>1
    <3>3. n # 1
      BY <3>2
    <3>4. n \div 2 < n /\ n \in Nat /\ n \div 2 \in Nat
      BY <3>2, <3>3, Parent, NodesAreNat
    <3> QED
      BY <2>1, <3>2, <3>4
  <2> QED
    BY <2>1, <2>2
<1> DEFINE Odd == {n \in V : \E m \in V : m < n /\ ~(2 * m <= n /\ Halves(m, size))}
<1>5. Odd = {}
  <2>1. SUFFICES ASSUME Odd # {}
                 PROVE  FALSE
    OBVIOUS
  <2>2. Odd \subseteq V
    BY Zenon
  <2>3. \A n \in Odd : \E m \in V : m < n /\ ~(2 * m <= n /\ Halves(m, size))
    BY Zenon
  <2>4. \A n \in V \ Odd : \A m \in V : m < n => 2 * m <= n /\ Halves(m, size)
    BY Zenon
  <2> HIDE DEF Odd
  <2>5. PICK n \in Odd : \A k \in Odd : n <= k
    BY <1>1, <2>1, <2>2, NodesAreNat, LeastExists
  <2>6. PICK m \in V : m < n /\ ~(2 * m <= n /\ Halves(m, size))
    BY <2>3, <2>5
  <2> DEFINE p == n \div 2
  <2>7. n \in Nodes /\ m \in Nodes /\ n \in Nat \ {0} /\ m \in Nat \ {0} /\ n \in V
    BY <1>1, <2>2, <2>5, NodesAreNat
  <2>8. n # start
    BY <1>4, <2>6, <2>7, NodesAreNat
  <2>9. n % 2 = 0 /\ p \in V /\ Halves(p, size)
    BY <1>1, <2>7, <2>8
  <2>10. n = 2 * p /\ p < n /\ p \in Nat /\ p \in Nodes
    <3>1. n # 1
      BY <2>9
    <3>2. n \div 2 \in Nat
      BY <2>7
    <3> QED
      BY <2>7, <2>9, <3>1, <3>2, Parent
  <2> HIDE DEF p
  <2>11. CASE m = p
    BY <2>6, <2>7, <2>9, <2>10, <2>11
  <2>12. CASE m < p
    <3>1. p \notin Odd
      BY <2>5, <2>7, <2>10
    <3>2. 2 * m <= p /\ Halves(m, size)
      BY <2>4, <2>9, <2>12, <3>1
    <3> QED
      BY <2>6, <2>7, <2>10, <3>2
  <2>13. CASE p < m
    <3>1. m \notin Odd
      BY <2>5, <2>6, <2>7
    <3>2. 2 * p <= m
      BY <2>4, <2>9, <2>13, <3>1
    <3> QED
      BY <2>6, <2>7, <2>10, <3>2
  <2> QED
    BY <2>7, <2>10, <2>11, <2>12, <2>13
<1>6. \A m, n \in V : m < n => 2 * m <= n /\ Halves(m, size)
  BY <1>5
<1> QED
  BY <1>1, <1>2, <1>3, <1>4, <1>6 DEF V

\* It ends at one node, which is large enough and less than twice as large.
LEMMA AllocNodeIs ==
  ASSUME NEW start \in Nodes, NEW size \in Nat, size >= Page, SizeOf[start] >= size
  PROVE  /\ AllocNode(start, size) \in Nodes
         /\ \A n \in Nodes :
              n = AllocNode(start, size) <=> n \in Visited(start, size) /\ ~ Halves(n, size)
         /\ SizeOf[AllocNode(start, size)] >= size
         /\ SizeOf[AllocNode(start, size)] \div 2 < size
<1> DEFINE V == Visited(start, size)
           e == AllocNode(start, size)
<1>1. /\ V \subseteq Nodes /\ start \in V
      /\ \A n \in V : SizeOf[n] >= size /\ (Halves(n, size) => 2 * n \in V)
      /\ \A m, n \in V : m < n => Halves(m, size)
  BY VisitedChain
<1>2. e = CHOOSE n \in V : ~ Halves(n, size)
  BY DEF AllocNode
<1> HIDE DEF V
<1>3. \E n \in V : ~ Halves(n, size)
  <2>1. PICK n \in V : \A k \in V : k <= n
    BY <1>1, LastExists
  <2>2. n \in Nat \ {0}
    BY <1>1, NodesAreNat
  <2>3. ~(2 * n <= n)
    BY <2>2
  <2>4. ~ Halves(n, size)
    BY <1>1, <2>1, <2>3
  <2> QED
    BY <2>4
<1>4. e \in V /\ ~ Halves(e, size)
  BY <1>2, <1>3
<1> HIDE DEF e
<1>5. ASSUME NEW n \in V, ~ Halves(n, size)
      PROVE  n = e
  <2>1. n \in Nat /\ e \in Nat
    BY <1>1, <1>4, NodesAreNat
  <2>2. ~(n < e) /\ ~(e < n)
    BY <1>1, <1>4, <1>5
  <2> QED
    BY <2>1, <2>2
<1>6. e \in Nodes /\ SizeOf[e] >= size
  BY <1>1, <1>4
<1>7. SizeOf[e] \div 2 < size
  <2>1. SizeOf[e] \in Nat
    BY <1>6, SizeEquation
  <2>2. ~(SizeOf[e] \div 2 >= size)
    BY <1>4 DEF Halves
  <2> QED
    BY <2>1, <2>2
<1> QED
  BY <1>4, <1>5, <1>6, <1>7 DEF e, V

\* Below a free node there is nothing.
LEMMA NothingBelow ==
  ASSUME NEW t, WellFormed(t), NEW start \in Nodes, t[start] = "FREE",
         NEW size \in Nat, size >= Page, SizeOf[start] >= size
  PROVE  \A n \in Visited(start, size) : n # start => t[n] = "none"
<1> DEFINE V == Visited(start, size)
<1>1. /\ V \subseteq Nodes
      /\ \A n \in V : n # start => n % 2 = 0 /\ n \div 2 \in V
  BY VisitedIs
<1> HIDE DEF V
<1> DEFINE Odd == {n \in V : n # start /\ t[n] # "none"}
<1>2. Odd = {}
  <2>1. SUFFICES ASSUME Odd # {}
                 PROVE  FALSE
    OBVIOUS
  <2>2. PICK n \in Odd : \A k \in Odd : n <= k
    BY <1>1, <2>1, NodesAreNat, LeastExists
  <2>3. n \in Nodes /\ n # start /\ t[n] # "none" /\ n % 2 = 0 /\ n \div 2 \in V
    BY <1>1, <2>2
  <2>4. n # 1
    BY <2>3
  <2>5. n \div 2 < n /\ n \in Nat /\ n \div 2 \in Nat
    BY <2>3, <2>4, Parent, NodesAreNat
  <2>6. t[n \div 2] = "SPLIT"
    BY <2>3, <2>4 DEF WellFormed
  <2>7. n \div 2 \in Odd
    BY <2>3, <2>6
  <2> QED
    BY <2>2, <2>5, <2>7
<1> QED
  BY <1>2 DEF V

\* _buddy_alloc keeps the tree, and allocates one node more.
LEMMA AllocatedIsTree ==
  ASSUME NEW t, WellFormed(t), NoFreeHalves(t), NEW start \in Nodes, t[start] = "FREE",
         NEW size \in Nat, size >= Page, SizeOf[start] >= size
  PROVE  /\ WellFormed(Allocated(t, start, size))
         /\ NoFreeHalves(Allocated(t, start, size))
         /\ t[AllocNode(start, size)] # "ALLOC"
         /\ \A n \in Nodes :
              Allocated(t, start, size)[n] = "ALLOC" <=>
                t[n] = "ALLOC" \/ n = AllocNode(start, size)
<1> DEFINE V == Visited(start, size)
           Split(n) == n \in V /\ Halves(n, size)
           Right(n) == n % 2 = 1 /\ Split(n \div 2)
           u == Allocated(t, start, size)
<1>1. u = [n \in Nodes |->
             IF n \in V THEN IF Halves(n, size) THEN "SPLIT" ELSE "ALLOC"
             ELSE IF Right(n) THEN "FREE" ELSE t[n]]
  BY DEF Allocated
<1>2. /\ V \subseteq Nodes /\ start \in V
      /\ \A n \in V : n # start => n % 2 = 0 /\ Split(n \div 2)
      /\ \A n \in Nodes : n % 2 = 0 /\ Split(n \div 2) => n \in V
      /\ \A n \in V : Split(n) => 2 * n \in V
  BY VisitedIs, VisitedChain
<1>3. \A n \in V : t[n] # "SPLIT" /\ t[n] # "ALLOC" /\ (n # start => t[n] = "none")
  BY NothingBelow
<1>4. \A n \in Nodes : n \in V /\ ~ Halves(n, size) <=> n = AllocNode(start, size)
  BY AllocNodeIs
<1> HIDE DEF V, u
<1>5. \A n \in Nodes : Right(n) => n # 1 /\ t[n] = "none" /\ n \notin V
  <2>1. SUFFICES ASSUME NEW n \in Nodes, Right(n)
                 PROVE  n # 1 /\ t[n] = "none" /\ n \notin V
    BY Zenon
  <2>2. n # 1
    <3>1. n = 1 => n \div 2 = 0
      OBVIOUS
    <3>2. 0 \notin V
      BY <1>2, NodesAreNat
    <3> QED
      BY <2>1, <3>1, <3>2
  <2>3. t[n \div 2] # "SPLIT"
    BY <1>3, <2>1
  <2>4. t[n] = "none"
    BY <2>2, <2>3 DEF WellFormed
  <2>5. n \notin V
    <3>1. n # start
      BY <2>4
    <3>2. n % 2 # 0
      BY <2>1
    <3> QED
      BY <1>2, <3>1, <3>2
  <2> QED
    BY <2>2, <2>4, <2>5
<1> HIDE DEF Right, Split
<1>6. \A n \in Nodes : /\ n \in V => u[n] = IF Halves(n, size) THEN "SPLIT" ELSE "ALLOC"
                       /\ Right(n) => u[n] = "FREE"
                       /\ n \notin V /\ ~ Right(n) => u[n] = t[n]
  BY <1>1, <1>5
<1>7. \A n \in Nodes : u[n] = "SPLIT" <=> Split(n) \/ t[n] = "SPLIT"
  BY <1>3, <1>5, <1>6 DEF Split
<1>8. \A n \in Nodes : u[n] = "ALLOC" <=> t[n] = "ALLOC" \/ (n \in V /\ ~ Halves(n, size))
  BY <1>3, <1>5, <1>6
<1>9. \A n \in Nodes : u[n] # "none" <=> n \in V \/ Right(n) \/ t[n] # "none"
  BY <1>6
<1>10. u \in [Nodes -> States]
  BY <1>1 DEF WellFormed, States
<1>11. WellFormed(u)
  <2>1. u[1] # "none"
    BY <1>9, NodesAreNat DEF WellFormed
  <2>2. ASSUME NEW n \in Nodes \ {1}
        PROVE  u[n] # "none" <=> u[n \div 2] = "SPLIT"
    <3> DEFINE p == n \div 2
    <3>1. p \in Nodes /\ (n % 2 = 0 \/ n % 2 = 1)
      BY Parent
    <3>2. t[n] # "none" <=> t[p] = "SPLIT"
      BY DEF WellFormed
    <3>3. u[p] = "SPLIT" <=> Split(p) \/ t[p] = "SPLIT"
      BY <1>7, <3>1
    <3>4. Split(p) => n \in V \/ Right(n)
      BY <1>2, <3>1 DEF Right
    <3>5. n \in V => Split(p) \/ t[n] # "none"
      BY <1>2
    <3>6. Right(n) => Split(p)
      BY DEF Right
    <3> QED
      BY <1>9, <3>2, <3>3, <3>4, <3>5, <3>6
  <2>3. \A n \in Nodes : u[n] = "SPLIT" => 2 * n \in Nodes
    BY <1>2, <1>7 DEF WellFormed, Split
  <2> QED
    BY <1>10, <2>1, <2>2, <2>3 DEF WellFormed
<1>12. NoFreeHalves(u)
  <2>1. SUFFICES ASSUME NEW n \in Nodes, u[n] = "SPLIT",
                        u[2 * n] = "FREE", u[2 * n + 1] = "FREE"
                 PROVE  FALSE
    BY DEF NoFreeHalves
  <2>2. 2 * n \in Nodes
    BY <1>11, <2>1 DEF WellFormed
  <2>3. /\ 2 * n + 1 \in Nodes /\ (2 * n) % 2 = 0
        /\ (2 * n + 1) \div 2 = n
    BY <2>2, HalvesOf
  <2>4. 2 * n \notin V
    BY <1>6, <2>1, <2>2
  <2>5. ~ Split(n)
    BY <1>2, <2>4 DEF Split
  <2>6. t[n] = "SPLIT"
    BY <1>7, <2>1, <2>5
  <2>7. t[2 * n] = "FREE"
    <3>1. ~ Right(2 * n)
      BY <2>3 DEF Right
    <3> QED
      BY <1>6, <2>1, <2>2, <2>4, <3>1
  <2>8. t[2 * n + 1] = "FREE"
    <3>1. ~ Right(2 * n + 1)
      BY <2>3, <2>5 DEF Right
    <3>2. 2 * n + 1 \notin V
      BY <1>6, <2>1, <2>3
    <3> QED
      BY <1>6, <2>1, <2>3, <3>1, <3>2
  <2> QED
    BY <2>6, <2>7, <2>8 DEF NoFreeHalves
<1>13. t[AllocNode(start, size)] # "ALLOC"
  BY <1>3, <1>4, AllocNodeIs
<1> QED
  BY <1>4, <1>8, <1>11, <1>12, <1>13 DEF u

(***************************************************************************)
(* The invariant.                                                           *)
(***************************************************************************)
\* A place is held once: the caller's pointer names one block.
OneBlockPerPlace == \A b, c \in live : b.ptr = c.ptr => b = c

\* An allocated node has a page at least, so that two of them, which share no
\* byte, do not share an index either.
PagesHeld == \A n \in Leaves("ALLOC") : SizeOf[n] >= Page

\* The inductive invariant.  LiveAreAllocated is the goal; that a free hits the
\* caller's node alone needs the tree's shape and PagesHeld, that it takes one block
\* of live needs OneBlockPerPlace.
IInv ==
  /\ TypeOK
  /\ NoFreeHalves(tree)
  /\ LiveAreAllocated
  /\ OneBlockPerPlace
  /\ PagesHeld

\* The type invariant speaks of the tree and of live apart.
LEMMA TypeOKIs ==
  TypeOK <=> WellFormed(tree) /\ \A b \in live : b.ptr \in Nat /\ b.size \in Sizes
BY DEF TypeOK, WellFormed

\* The types of the constants.
LEMMA Constants ==
  /\ MemStart \in Nat /\ Page \in Nat \ {0} /\ Pool \in Nat \ {0}
  /\ Sizes \subseteq Nat \ {0}
BY MemBlocksAssumption, BuddyAssumption

\* paged_size rounds up to whole pages.
LEMMA PagedSizeIs ==
  ASSUME NEW size \in Sizes
  PROVE  PagedSize(size) \in Nat /\ PagedSize(size) >= size /\ PagedSize(size) >= Page
<1> DEFINE q == size \div Page
           r == size % Page
<1>1. size \in Nat \ {0} /\ Page \in Nat \ {0}
  BY Constants
<1>2. q \in Nat /\ r \in 0..(Page - 1) /\ size = Page * q + r
  BY <1>1
<1>3. PagedSize(size) = IF r = 0 THEN size ELSE Page * (q + 1)
  BY DEF PagedSize
<1> HIDE DEF q, r
<1>4. Page * (q + 1) = Page * q + Page /\ Page * q \in Nat
  BY <1>1, <1>2
<1>5. CASE r = 0
  <2>1. q # 0
    BY <1>1, <1>2, <1>5
  <2>2. Page * q >= Page
    <3>1. PICK d \in Nat : q = d + 1
      <4>1. q - 1 \in Nat /\ q = (q - 1) + 1
        BY <1>2, <2>1
      <4> QED
        BY <4>1
    <3>2. Page * q = Page * d + Page /\ Page * d \in Nat
      BY <1>1, <3>1
    <3> QED
      BY <1>1, <3>2
  <2> QED
    BY <1>1, <1>2, <1>3, <1>4, <1>5, <2>2
<1>6. CASE r # 0
  BY <1>1, <1>2, <1>3, <1>4, <1>6
<1> QED
  BY <1>5, <1>6

\* Two allocated nodes of a page or more do not have the same index.
LEMMA IndicesDiffer ==
  ASSUME NEW t, WellFormed(t), NEW m \in Nodes, NEW n \in Nodes,
         t[m] = "ALLOC", t[n] = "ALLOC", SizeOf[m] >= Page, SizeOf[n] >= Page,
         IdxOf[m] = IdxOf[n]
  PROVE  m = n
<1>1. /\ IdxOf[m] \in Nat /\ SizeOf[m] \in Nat /\ SizeOf[n] \in Nat
      /\ Page \in Nat \ {0}
  BY SizeEquation, IdxEquation, Constants
<1>2. ~ Beside(m, n)
  BY <1>1 DEF Beside
<1> QED
  BY <1>2, LeavesBeside

\* buddy_init: one free node, the whole pool, and nothing held.
LEMMA InitIInv == Init => IInv
<1> SUFFICES ASSUME Init
             PROVE  IInv
  OBVIOUS
<1>1. \A n \in Nodes : tree[n] = IF n = 1 THEN "FREE" ELSE "none"
  BY DEF Init, BuddyInit
<1>2. tree \in [Nodes -> States] /\ live = {}
  BY DEF Init, BuddyInit, States
<1>3. WellFormed(tree)
  <2>1. \A n \in Nodes \ {1} : n \div 2 \in Nodes
    BY Parent
  <2> QED
    BY <1>1, <1>2, <2>1, NodesAreNat DEF WellFormed
<1>4. Leaves("ALLOC") = {}
  BY <1>1 DEF Leaves
<1> QED
  BY <1>1, <1>2, <1>3, <1>4, TypeOKIs
  DEF IInv, NoFreeHalves, LiveAreAllocated, OneBlockPerPlace, PagesHeld

\* get_memblock: the walk ends at a free node, which becomes one that nobody holds.
LEMMA GetMemblockGives ==
  ASSUME IInv, NEW size \in Sizes, Found(tree, PagedSize(size)) # 0
  PROVE  LET u == Allocated(tree, Found(tree, PagedSize(size)), PagedSize(size))
             e == AllocNode(Found(tree, PagedSize(size)), PagedSize(size))
         IN  /\ WellFormed(u) /\ NoFreeHalves(u)
             /\ e \in Nodes /\ SizeOf[e] >= PagedSize(size) /\ SizeOf[e] \div 2 < PagedSize(size)
             /\ tree[e] # "ALLOC"
             /\ \A n \in Nodes : u[n] = "ALLOC" <=> tree[n] = "ALLOC" \/ n = e
             /\ \A n \in Nodes : tree[n] = "ALLOC" => IdxOf[n] # IdxOf[e]
<1> DEFINE psize == PagedSize(size)
           start == Found(tree, psize)
           u == Allocated(tree, start, psize)
           e == AllocNode(start, psize)
<1>1. WellFormed(tree) /\ NoFreeHalves(tree)
  BY TypeOKIs DEF IInv
<1>2. psize \in Nat /\ psize >= Page
  BY PagedSizeIs
<1>3. start \in Nodes /\ tree[start] = "FREE" /\ SizeOf[start] >= psize
  BY <1>1, <1>2, FoundIsFree
<1> HIDE DEF psize, start
<1>4. /\ WellFormed(u) /\ NoFreeHalves(u) /\ tree[e] # "ALLOC"
      /\ \A n \in Nodes : u[n] = "ALLOC" <=> tree[n] = "ALLOC" \/ n = e
  BY <1>1, <1>2, <1>3, AllocatedIsTree
<1>5. e \in Nodes /\ SizeOf[e] >= psize /\ SizeOf[e] \div 2 < psize
  BY <1>2, <1>3, AllocNodeIs
<1> HIDE DEF u, e
<1>6. SizeOf[e] >= Page
  BY <1>2, <1>5, SizeEquation, Constants
<1>7. ASSUME NEW n \in Nodes, tree[n] = "ALLOC"
      PROVE  IdxOf[n] # IdxOf[e]
  <2>1. SizeOf[n] >= Page /\ n # e
    BY <1>4, <1>7 DEF IInv, PagesHeld, Leaves
  <2> QED
    BY <1>4, <1>5, <1>6, <1>7, <2>1, IndicesDiffer
<1> QED
  BY <1>4, <1>5, <1>7 DEF u, e, start, psize

\* get_memblock keeps the inductive invariant.
LEMMA GetMemblockStep ==
  ASSUME IInv, NEW size \in Sizes, GetMemblock(size)
  PROVE  IInv'
<1> DEFINE psize == PagedSize(size)
           e == AllocNode(Found(tree, psize), psize)
<1>1. PICK n0 \in Nodes : n0 = e
  BY GetMemblockGives DEF GetMemblock
<1> DEFINE new == [ptr |-> MemStart + IdxOf[n0], size |-> size]
<1>2. /\ WellFormed(tree') /\ NoFreeHalves(tree')
      /\ SizeOf[n0] >= psize /\ SizeOf[n0] \div 2 < psize
      /\ \A n \in Nodes : tree'[n] = "ALLOC" <=> tree[n] = "ALLOC" \/ n = n0
      /\ \A n \in Nodes : tree[n] = "ALLOC" => IdxOf[n] # IdxOf[n0]
  BY <1>1, GetMemblockGives DEF GetMemblock
<1>3. live' = live \cup {new}
  BY <1>1 DEF GetMemblock
<1>4. new.ptr = MemStart + IdxOf[n0] /\ new.size = size
  OBVIOUS
<1>5. psize \in Nat /\ psize >= size /\ psize >= Page /\ size \in Nat /\ Page \in Nat
  BY PagedSizeIs, Constants
<1>6. SizeOf[n0] \in Nat /\ IdxOf[n0] \in Nat /\ MemStart \in Nat
  BY SizeEquation, IdxEquation, Constants
<1> HIDE DEF new, e, psize
<1>7. /\ \A n \in Nodes : tree[n] = "ALLOC" =>
           SizeOf[n] >= Page /\ \E b \in live : b.ptr = MemStart + IdxOf[n]
      /\ \A b \in live : \E n \in Nodes :
           /\ tree[n] = "ALLOC" /\ b.ptr = MemStart + IdxOf[n]
           /\ b.size <= SizeOf[n] /\ SizeOf[n] \div 2 < PagedSize(b.size)
      /\ \A b \in live : b.ptr \in Nat /\ b.size \in Sizes
      /\ \A b, c \in live : b.ptr = c.ptr => b = c
  BY TypeOKIs DEF IInv, LiveAreAllocated, OneBlockPerPlace, PagesHeld, Leaves
<1>8. Leaves("ALLOC")' = {n \in Nodes : tree'[n] = "ALLOC"}
  BY DEF Leaves
<1>9. \A b \in live : b.ptr # new.ptr
  <2>1. ASSUME NEW b \in live
        PROVE  b.ptr # new.ptr
    <3>1. PICK n \in Nodes : tree[n] = "ALLOC" /\ b.ptr = MemStart + IdxOf[n]
      BY <1>7
    <3>2. IdxOf[n] \in Nat /\ IdxOf[n] # IdxOf[n0]
      BY <1>2, <3>1, IdxEquation
    <3> QED
      BY <1>4, <1>6, <3>1, <3>2
  <2> QED
    BY <2>1
<1>10. TypeOK'
  <2>1. \A b \in live' : b.ptr \in Nat /\ b.size \in Sizes
    BY <1>3, <1>4, <1>6, <1>7
  <2> QED
    BY <1>2, <2>1 DEF TypeOK, WellFormed
<1>11. LiveAreAllocated'
  <2>1. \A n \in Nodes : tree'[n] = "ALLOC" => \E b \in live' : b.ptr = MemStart + IdxOf[n]
    BY <1>2, <1>3, <1>4, <1>7
  <2>2. ASSUME NEW b \in live'
        PROVE  \E n \in Nodes : /\ tree'[n] = "ALLOC" /\ b.ptr = MemStart + IdxOf[n]
                                /\ b.size <= SizeOf[n] /\ SizeOf[n] \div 2 < PagedSize(b.size)
    <3>1. CASE b \in live
      BY <1>2, <1>7, <3>1
    <3>2. CASE b = new
      <4>1. size <= SizeOf[n0]
        BY <1>2, <1>5, <1>6
      <4> QED
        BY <1>2, <1>4, <3>2, <4>1 DEF psize
    <3> QED
      BY <1>3, <3>1, <3>2
  <2> QED
    BY <1>8, <2>1, <2>2 DEF LiveAreAllocated
<1>12. OneBlockPerPlace'
  BY <1>3, <1>7, <1>9 DEF OneBlockPerPlace
<1>13. PagesHeld'
  <2>1. SizeOf[n0] >= Page
    BY <1>2, <1>5, <1>6
  <2> QED
    BY <1>2, <1>7, <1>8, <2>1 DEF PagesHeld
<1> QED
  BY <1>2, <1>10, <1>11, <1>12, <1>13 DEF IInv

\* free_memblock: the node with the block's index that is allocated is the caller's.
LEMMA FreeMemblockTakes ==
  ASSUME IInv, NEW block \in live
  PROVE  \E n0 \in Nodes :
           /\ tree[n0] = "ALLOC" /\ block.ptr = MemStart + IdxOf[n0]
           /\ \A n \in Nodes :
                Freed(tree, block.ptr - MemStart)[n] = "ALLOC" <=> tree[n] = "ALLOC" /\ n # n0
<1>1. WellFormed(tree)
  BY TypeOKIs DEF IInv
<1>2. PICK n0 \in Nodes : tree[n0] = "ALLOC" /\ block.ptr = MemStart + IdxOf[n0]
  BY DEF IInv, LiveAreAllocated, Leaves
<1>3. \A n \in Nodes : tree[n] = "ALLOC" => SizeOf[n] >= Page
  BY DEF IInv, PagesHeld, Leaves
<1>4. \A n \in Nodes : tree[n] = "ALLOC" /\ IdxOf[n] = IdxOf[n0] => n = n0
  BY <1>1, <1>2, <1>3, IndicesDiffer
<1>5. block.ptr - MemStart = IdxOf[n0]
  BY <1>2, IdxEquation, Constants
<1> QED
  BY <1>1, <1>2, <1>4, <1>5, FreedIsTree

\* free_memblock keeps the inductive invariant.
LEMMA FreeMemblockStep ==
  ASSUME IInv, NEW block \in live, FreeMemblock(block)
  PROVE  IInv'
<1>1. tree' = Freed(tree, block.ptr - MemStart) /\ live' = live \ {block}
  BY DEF FreeMemblock
<1>2. PICK n0 \in Nodes :
        /\ tree[n0] = "ALLOC" /\ block.ptr = MemStart + IdxOf[n0]
        /\ \A n \in Nodes : tree'[n] = "ALLOC" <=> tree[n] = "ALLOC" /\ n # n0
  BY <1>1, FreeMemblockTakes
<1>3. WellFormed(tree') /\ NoFreeHalves(tree')
  <2>1. WellFormed(tree)
    BY TypeOKIs DEF IInv
  <2> QED
    BY <1>1, <2>1, FreedIsTree
<1>4. /\ \A n \in Nodes : tree[n] = "ALLOC" =>
           SizeOf[n] >= Page /\ \E b \in live : b.ptr = MemStart + IdxOf[n]
      /\ \A b \in live : \E n \in Nodes :
           /\ tree[n] = "ALLOC" /\ b.ptr = MemStart + IdxOf[n]
           /\ b.size <= SizeOf[n] /\ SizeOf[n] \div 2 < PagedSize(b.size)
      /\ \A b \in live : b.ptr \in Nat /\ b.size \in Sizes
      /\ \A b, c \in live : b.ptr = c.ptr => b = c
  BY TypeOKIs DEF IInv, LiveAreAllocated, OneBlockPerPlace, PagesHeld, Leaves
<1>5. Leaves("ALLOC")' = {n \in Nodes : tree'[n] = "ALLOC"}
  BY DEF Leaves
<1>6. TypeOK'
  <2>1. \A b \in live' : b.ptr \in Nat /\ b.size \in Sizes
    BY <1>1, <1>4
  <2> QED
    BY <1>3, <2>1 DEF TypeOK, WellFormed
<1>7. LiveAreAllocated'
  <2>1. ASSUME NEW n \in Nodes, tree'[n] = "ALLOC"
        PROVE  \E b \in live' : b.ptr = MemStart + IdxOf[n]
    <3>1. tree[n] = "ALLOC" /\ n # n0
      BY <1>2, <2>1
    <3>2. PICK b \in live : b.ptr = MemStart + IdxOf[n]
      BY <1>4, <3>1
    <3>3. IdxOf[n] # IdxOf[n0]
      <4>1. WellFormed(tree) /\ SizeOf[n] >= Page /\ SizeOf[n0] >= Page
        BY <1>2, <1>4, <3>1, TypeOKIs DEF IInv
      <4> QED
        BY <1>2, <3>1, <4>1, IndicesDiffer
    <3>4. b.ptr # block.ptr
      BY <1>2, <3>2, <3>3, IdxEquation, Constants
    <3> QED
      BY <1>1, <3>2, <3>4
  <2>2. ASSUME NEW b \in live'
        PROVE  \E n \in Nodes : /\ tree'[n] = "ALLOC" /\ b.ptr = MemStart + IdxOf[n]
                                /\ b.size <= SizeOf[n] /\ SizeOf[n] \div 2 < PagedSize(b.size)
    <3>1. b \in live /\ b # block
      BY <1>1
    <3>2. PICK n \in Nodes : /\ tree[n] = "ALLOC" /\ b.ptr = MemStart + IdxOf[n]
                             /\ b.size <= SizeOf[n] /\ SizeOf[n] \div 2 < PagedSize(b.size)
      BY <1>4, <3>1
    <3>3. n # n0
      BY <1>2, <1>4, <3>1, <3>2
    <3> QED
      BY <1>2, <3>2, <3>3
  <2> QED
    BY <1>5, <2>1, <2>2 DEF LiveAreAllocated
<1>8. OneBlockPerPlace'
  BY <1>1, <1>4 DEF OneBlockPerPlace
<1>9. PagesHeld'
  BY <1>2, <1>4, <1>5 DEF PagesHeld
<1> QED
  BY <1>3, <1>6, <1>7, <1>8, <1>9 DEF IInv

\* What changes neither tree nor live keeps the inductive invariant.
LEMMA StutterStep ==
  ASSUME IInv, UNCHANGED vars
  PROVE  IInv'
<1>1. tree' = tree /\ live' = live
  BY DEF vars
<1>2. Leaves("ALLOC")' = Leaves("ALLOC")
  BY <1>1 DEF Leaves
<1>3. TypeOK' /\ LiveAreAllocated'
  BY <1>1, <1>2 DEF IInv, TypeOK, LiveAreAllocated
<1> QED
  BY <1>1, <1>2, <1>3 DEF IInv, OneBlockPerPlace, PagesHeld

\* memlib.c and buddy.c: the inductive invariant, for every pool, page and set of sizes.
THEOREM BlocksInvariant == Spec => []IInv
<1>1. IInv /\ [Next]_vars => IInv'
  <2> SUFFICES ASSUME IInv, [Next]_vars
               PROVE  IInv'
    OBVIOUS
  <2>1. ASSUME NEW size \in Sizes, GetMemblock(size)
        PROVE  IInv'
    BY <2>1, GetMemblockStep
  <2>2. ASSUME NEW size \in Sizes, GetMemblockFails(size)
        PROVE  IInv'
    BY <2>2, StutterStep DEF GetMemblockFails
  <2>3. ASSUME NEW block \in live, FreeMemblock(block)
        PROVE  IInv'
    BY <2>3, FreeMemblockStep
  <2>4. CASE UNCHANGED vars
    BY <2>4, StutterStep
  <2> QED
    BY <2>1, <2>2, <2>3, <2>4 DEF Next
<1> QED
  BY <1>1, InitIInv, PTL DEF Spec

\* buddy.c: below a split node there are two nodes, below others none, whatever is
\* allocated and freed.
THEOREM TreeStaysATree == Spec => []TypeOK
<1>1. IInv => TypeOK
  BY DEF IInv
<1> QED
  BY <1>1, BlocksInvariant, PTL

\* memlib.c: the allocated nodes are the blocks that callers hold, one for one, large
\* enough and less than twice as large as the pages asked for.
THEOREM BlocksAreAllocated == Spec => []LiveAreAllocated
<1>1. IInv => LiveAreAllocated
  BY DEF IInv
<1> QED
  BY <1>1, BlocksInvariant, PTL

(***************************************************************************)
(* A request is refused only if the blocks held leave no room for it.       *)
(***************************************************************************)
\* Since free halves are given back, a split node has an allocated one below it.
LEMMA HeldBelow ==
  ASSUME NEW t, WellFormed(t), NoFreeHalves(t)
  PROVE  \A n \in Nodes : t[n] = "SPLIT" =>
           \E m \in Nodes : t[m] = "ALLOC" /\ Inside(m, n)
<1> DEFINE Held(n) == \E m \in Nodes : t[m] = "ALLOC" /\ Inside(m, n)
           Odd == {n \in Nodes : t[n] = "SPLIT" /\ ~ Held(n)}
<1>1. SUFFICES ASSUME Odd # {}
               PROVE  FALSE
  <2> HIDE DEF Held
  <2>1. Odd = {} => \A n \in Nodes : t[n] = "SPLIT" => Held(n)
    BY Zenon
  <2> QED
    BY <2>1, Zenon DEF Held
<1>2. Odd \subseteq Nodes
  BY Zenon
<1>3. PICK n \in Odd : \A k \in Odd : k <= n
  <2> HIDE DEF Odd
  <2> QED
    BY <1>1, <1>2, LastExists
<1>4. n \in Nodes /\ t[n] = "SPLIT" /\ ~ Held(n)
  BY <1>3, Zenon
<1>5. 2 * n \in Nodes /\ 2 * n + 1 \in Nodes
  BY <1>4, HalvesOf DEF WellFormed
<1>6. Inside(2 * n, n) /\ Inside(2 * n + 1, n)
  BY <1>4, <1>5, HalvesInside
<1>7. PICK h \in {2 * n, 2 * n + 1} : t[h] # "FREE"
  BY <1>4 DEF NoFreeHalves
<1>8. h \in Nodes /\ h # 1 /\ h \div 2 = n /\ Inside(h, n) /\ ~(h <= n)
  <2>1. 2 * n # 1 /\ 2 * n + 1 # 1 /\ (2 * n) \div 2 = n /\ (2 * n + 1) \div 2 = n
    BY <1>4, <1>5, HalvesOf
  <2>2. ~(2 * n <= n) /\ ~(2 * n + 1 <= n)
    BY <1>4, NodesAreNat
  <2> QED
    BY <1>5, <1>6, <1>7, <2>1, <2>2
<1>9. t[h] \in {"ALLOC", "SPLIT"}
  BY <1>4, <1>7, <1>8 DEF WellFormed, States
<1>10. Held(h)
  <2>1. CASE t[h] = "ALLOC"
    <3>1. Inside(h, h)
      BY <1>8, SizeEquation, IdxEquation DEF Inside
    <3> QED
      BY <1>8, <2>1, <3>1
  <2>2. CASE t[h] = "SPLIT"
    <3>1. h \notin Odd
      BY <1>3, <1>8
    <3> QED
      BY <1>8, <2>2, <3>1, Zenon
  <2> QED
    BY <1>9, <2>1, <2>2
<1>11. PICK m \in Nodes : t[m] = "ALLOC" /\ Inside(m, h)
  BY <1>10
<1>12. Inside(m, n)
  BY <1>4, <1>8, <1>11, InsideIsTransitive
<1> QED
  BY <1>4, <1>11, <1>12

\* A place where no node is lies in a node that is free or allocated.
LEMMA LeafAbove ==
  ASSUME NEW t, WellFormed(t)
  PROVE  \A n \in Nodes : t[n] # "SPLIT" =>
           \E a \in Nodes : t[a] \in {"FREE", "ALLOC"} /\ Inside(n, a)
<1> DEFINE Covered(n) == \E a \in Nodes : t[a] \in {"FREE", "ALLOC"} /\ Inside(n, a)
           Odd == {n \in Nodes : t[n] # "SPLIT" /\ ~ Covered(n)}
<1>1. SUFFICES ASSUME Odd # {}
               PROVE  FALSE
  <2> HIDE DEF Covered
  <2>1. Odd = {} => \A n \in Nodes : t[n] # "SPLIT" => Covered(n)
    BY Zenon
  <2> QED
    BY <2>1, Zenon DEF Covered
<1>2. Odd \subseteq Nodes
  BY Zenon
<1>3. PICK n \in Odd : \A k \in Odd : n <= k
  <2> HIDE DEF Odd
  <2> QED
    BY <1>1, <1>2, NodesAreNat, LeastExists
<1>4. n \in Nodes /\ t[n] # "SPLIT" /\ ~ Covered(n)
  BY <1>3, Zenon
<1>5. t[n] = "none"
  <2>1. Inside(n, n)
    BY <1>4, SizeEquation, IdxEquation DEF Inside
  <2>2. t[n] \notin {"FREE", "ALLOC"}
    BY <1>4, <2>1
  <2> QED
    BY <1>4, <2>2 DEF WellFormed, States
<1>6. n # 1
  BY <1>5 DEF WellFormed
<1> DEFINE p == n \div 2
<1>7. p \in Nodes /\ Inside(n, p) /\ t[p] # "SPLIT" /\ ~(n <= p)
  BY <1>4, <1>5, <1>6, Parent, InsideParent, NodesAreNat DEF WellFormed
<1> HIDE DEF p
<1>8. Covered(p)
  <2>1. p \notin Odd
    BY <1>3, <1>7
  <2> QED
    BY <1>7, <2>1, Zenon
<1>9. PICK a \in Nodes : t[a] \in {"FREE", "ALLOC"} /\ Inside(p, a)
  BY <1>8
<1>10. Inside(n, a)
  BY <1>4, <1>7, <1>9, InsideIsTransitive
<1> QED
  BY <1>4, <1>9, <1>10

\* memlib.c: NULL is returned only if every part of the pool of the size asked for
\* has a byte of a block that a caller holds.
THEOREM RefusalsAreNeeded == Spec => []RefusedOnlyIfFull
<1>1. IInv => RefusedOnlyIfFull
  <2>1. SUFFICES ASSUME IInv, NEW size \in Sizes, Found(tree, PagedSize(size)) = 0,
                        NEW n \in Nodes, SizeOf[n] >= PagedSize(size)
                 PROVE  \E b \in live : Overlaps(n, b)
    BY DEF RefusedOnlyIfFull
  <2> DEFINE psize == PagedSize(size)
  <2>2. WellFormed(tree) /\ NoFreeHalves(tree)
    BY <2>1, TypeOKIs DEF IInv
  <2>3. psize \in Nat /\ psize >= Page /\ Page \in Nat \ {0} /\ MemStart \in Nat
    BY PagedSizeIs, Constants
  <2>4. \A k \in Nodes : tree[k] = "FREE" => ~(SizeOf[k] >= psize)
    <3>1. Found(tree, psize) \notin Nodes
      BY <2>1, NodesAreNat
    <3> QED
      BY <2>2, <2>3, <3>1, FoundIsFree
  <2>5. SizeOf[n] >= psize
    BY <2>1
  <2> HIDE DEF psize
  <2>6. IdxOf[n] \in Nat /\ SizeOf[n] \in Nat /\ SizeOf[n] > 0
    <3>1. SizeOf[n] \in Nat /\ IdxOf[n] \in Nat
      BY SizeEquation, IdxEquation
    <3> QED
      BY <2>3, <2>5, <3>1
  <2>7. \E m \in Nodes : /\ tree[m] = "ALLOC"
                         /\ IdxOf[m] < IdxOf[n] + SizeOf[n]
                         /\ IdxOf[n] < IdxOf[m] + SizeOf[m]
    <3>1. CASE tree[n] = "SPLIT"
      <4>1. PICK m \in Nodes : tree[m] = "ALLOC" /\ Inside(m, n)
        BY <2>2, <3>1, HeldBelow
      <4>2. SizeOf[m] >= Page
        BY <2>1, <4>1 DEF IInv, PagesHeld, Leaves
      <4>3. IdxOf[m] \in Nat /\ SizeOf[m] \in Nat
        BY SizeEquation, IdxEquation
      <4>4. IdxOf[m] < IdxOf[n] + SizeOf[n] /\ IdxOf[n] < IdxOf[m] + SizeOf[m]
        BY <2>3, <2>6, <4>1, <4>2, <4>3 DEF Inside
      <4> QED
        BY <4>1, <4>4
    <3>2. CASE tree[n] # "SPLIT"
      <4>1. PICK a \in Nodes : tree[a] \in {"FREE", "ALLOC"} /\ Inside(n, a)
        BY <2>2, <3>2, LeafAbove
      <4>2. IdxOf[a] \in Nat /\ SizeOf[a] \in Nat
        BY SizeEquation, IdxEquation
      <4>3. SizeOf[a] >= psize
        BY <2>3, <2>5, <2>6, <4>1, <4>2 DEF Inside
      <4>4. tree[a] = "ALLOC"
        BY <2>4, <4>1, <4>3
      <4>5. IdxOf[a] < IdxOf[n] + SizeOf[n] /\ IdxOf[n] < IdxOf[a] + SizeOf[a]
        BY <2>6, <4>1, <4>2 DEF Inside
      <4> QED
        BY <4>4, <4>5
    <3> QED
      BY <3>1, <3>2
  <2>8. PICK m \in Nodes : /\ tree[m] = "ALLOC"
                          /\ IdxOf[m] < IdxOf[n] + SizeOf[n]
                          /\ IdxOf[n] < IdxOf[m] + SizeOf[m]
    BY <2>7
  <2>9. m \in Leaves("ALLOC")
    BY <2>8 DEF Leaves
  <2>10. PICK b \in live : b.ptr = MemStart + IdxOf[m]
    BY <2>1, <2>9 DEF IInv, LiveAreAllocated
  <2>11. b.ptr - MemStart = IdxOf[m]
    BY <2>3, <2>10, IdxEquation
  <2> QED
    BY <2>8, <2>9, <2>11 DEF Overlaps
<1> QED
  BY <1>1, BlocksInvariant, PTL

(***************************************************************************)
(* The tree implements HeapSpec.                                            *)
(***************************************************************************)
\* What HeapSpec sees of the tree.
Held == {[ptr |-> IdxOf[n], size |-> SizeOf[n]] : n \in Leaves("ALLOC")}

Block(n) == [ptr |-> IdxOf[n], size |-> SizeOf[n]]

\* The blocks held, before a step and after it.
LEMMA HeldIs ==
  /\ Held = {Block(n) : n \in Leaves("ALLOC")}
  /\ Held' = {Block(n) : n \in Leaves("ALLOC")'}
BY DEF Held, Block

\* get_memblock is an Alloc of HeapSpec: the new block shares no byte with another.
LEMMA GetImplemented ==
  ASSUME IInv, NEW size \in Sizes, GetMemblock(size)
  PROVE  Abstract!Alloc
<1> DEFINE e == AllocNode(Found(tree, PagedSize(size)), PagedSize(size))
<1>1. PICK n0 \in Nodes : n0 = e
  BY GetMemblockGives DEF GetMemblock
<1>2. /\ WellFormed(tree') /\ tree[n0] # "ALLOC"
      /\ \A n \in Nodes : tree'[n] = "ALLOC" <=> tree[n] = "ALLOC" \/ n = n0
  BY <1>1, GetMemblockGives DEF GetMemblock
<1>3. Leaves("ALLOC")' = Leaves("ALLOC") \cup {n0}
  BY <1>2 DEF Leaves
<1>4. Held' = Held \cup {Block(n0)}
  BY <1>3, HeldIs
<1>5. IdxOf[n0] \in Nat /\ SizeOf[n0] \in Nat /\ IdxOf[n0] + SizeOf[n0] <= Pool
  BY SizeEquation, IdxEquation, InsidePool
<1>6. Block(n0).ptr = IdxOf[n0] /\ Block(n0).size = SizeOf[n0]
  BY DEF Block
<1>7. Block(n0) \in Abstract!Blocks
  <2>1. IdxOf[n0] \in 0..Pool
    BY <1>5, Constants
  <2> QED
    BY <2>1 DEF Block, Abstract!Blocks
<1>8. ASSUME NEW a \in Held
      PROVE  Abstract!Apart(a, Block(n0))
  <2>1. PICK n \in Nodes : tree[n] = "ALLOC" /\ a = Block(n)
    BY HeldIs DEF Leaves
  <2>2. Beside(n, n0)
    BY <1>2, <2>1, LeavesBeside
  <2>3. a.ptr = IdxOf[n] /\ a.size = SizeOf[n]
    BY <2>1 DEF Block
  <2>4. IdxOf[n] \in Nat /\ SizeOf[n] \in Nat
    BY SizeEquation, IdxEquation
  <2> QED
    BY <1>5, <1>6, <2>2, <2>3, <2>4 DEF Abstract!Apart, Beside
<1> QED
  BY <1>4, <1>5, <1>6, <1>7, <1>8 DEF Abstract!Alloc, Held

\* free_memblock is a Free of HeapSpec: it takes back one block, the caller's.
LEMMA FreeImplemented ==
  ASSUME IInv, NEW block \in live, FreeMemblock(block)
  PROVE  Abstract!Free
<1>1. PICK n0 \in Nodes :
        /\ tree[n0] = "ALLOC" /\ block.ptr = MemStart + IdxOf[n0]
        /\ \A n \in Nodes : tree'[n] = "ALLOC" <=> tree[n] = "ALLOC" /\ n # n0
  BY FreeMemblockTakes DEF FreeMemblock
<1>2. Leaves("ALLOC")' = Leaves("ALLOC") \ {n0} /\ n0 \in Leaves("ALLOC")
  BY <1>1 DEF Leaves
<1>3. \A n \in Leaves("ALLOC") : Block(n) = Block(n0) => n = n0
  <2>1. ASSUME NEW n \in Leaves("ALLOC"), Block(n) = Block(n0)
        PROVE  n = n0
    <3>1. IdxOf[n] = IdxOf[n0]
      BY <2>1 DEF Block
    <3>2. n \in Nodes /\ tree[n] = "ALLOC" /\ SizeOf[n] >= Page /\ SizeOf[n0] >= Page
      BY <1>2, <2>1 DEF IInv, PagesHeld, Leaves
    <3> QED
      BY <1>1, <3>1, <3>2, TypeOKIs, IndicesDiffer DEF IInv
  <2> QED
    BY <2>1
<1>4. Held' = Held \ {Block(n0)} /\ Block(n0) \in Held
  BY <1>2, <1>3, HeldIs
<1> QED
  BY <1>4 DEF Abstract!Free, Held

\* memlib.c: seen from its callers, get_memblock hands out a block that shares no
\* byte with another, or nothing, and free_memblock takes back the block it names.
THEOREM BlocksRefineHeap == Spec => BlockPromise
<1>1. Init => Abstract!Init
  <2>1. SUFFICES ASSUME Init
                 PROVE  Abstract!Init
    OBVIOUS
  <2>2. Leaves("ALLOC") = {}
    BY <2>1 DEF Init, BuddyInit, Leaves
  <2> QED
    BY <2>2 DEF Abstract!Init
<1>2. IInv /\ [Next]_vars => [Abstract!Next]_Held
  <2> SUFFICES ASSUME IInv, [Next]_vars
               PROVE  [Abstract!Next]_Held
    OBVIOUS
  <2>1. ASSUME NEW size \in Sizes, GetMemblock(size)
        PROVE  Abstract!Next
    BY <2>1, GetImplemented DEF Abstract!Next
  <2>2. ASSUME UNCHANGED vars
        PROVE  UNCHANGED Held
    BY <2>2 DEF vars, Held, Leaves
  <2>3. ASSUME NEW size \in Sizes, GetMemblockFails(size)
        PROVE  UNCHANGED Held
    BY <2>2, <2>3 DEF GetMemblockFails
  <2>4. ASSUME NEW block \in live, FreeMemblock(block)
        PROVE  Abstract!Next
    BY <2>4, FreeImplemented DEF Abstract!Next
  <2> QED
    BY <2>1, <2>2, <2>3, <2>4 DEF Next
<1> QED
  BY <1>1, <1>2, BlocksInvariant, PTL DEF Spec, BlockPromise, Abstract!Spec, Held
=============================================================================
