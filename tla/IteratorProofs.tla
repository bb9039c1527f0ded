--------------------------- MODULE IteratorProofs ---------------------------
(***************************************************************************)
(* An iterator is a cursor, over every search tree with any number of      *)
(* keys, balanced or not.  The stack divides what is ahead: between one    *)
(* entry and the next are exactly the nodes under the entry's far child.   *)
(***************************************************************************)
EXTENDS Iterator, MinMaxFacts, FiniteSetTheorems

Sub(n) == IF n = Nil THEN {} ELSE tree[n].under

(* What the children of a node have under them, and a node has under it what  *)
(* every node under it has.                                                  *)
SearchTree ==
    /\ Nodes \subseteq Catalog \cup User
    /\ root \in Nodes /\ Sub(root) = Nodes
    /\ \A n \in Nodes :
          /\ tree[n].left \in Nodes \cup {Nil} /\ tree[n].right \in Nodes \cup {Nil}
          /\ n \in tree[n].under /\ tree[n].under \subseteq Nodes
          /\ Sub(tree[n].left) = {k \in tree[n].under : k < n}
          /\ Sub(tree[n].right) = {k \in tree[n].under : k > n}
          /\ \A m \in tree[n].under : tree[m].under \subseteq tree[n].under

-----------------------------------------------------------------------------
(* The trees. *)

(* An order of the nodes: a list without repetition. *)
Order(q) ==
    /\ \E n \in Nat : DOMAIN q = 1..n
    /\ \A i \in DOMAIN q : q[i] \in Nat /\ q[i] # Nil
    /\ \A i, j \in DOMAIN q : i # j => q[i] # q[j]

\* The nodes under q[i] come after it and no earlier node is between it and them.
LEMMA UnderIs ==
    ASSUME NEW q, Order(q), NEW i \in DOMAIN q, NEW j \in DOMAIN q
    PROVE  q[j] \in Under(q, i) <=>
              i <= j /\ \A l \in DOMAIN q : l < i => ~Between(q[l], q[i], q[j])
  BY DEF Under, Order

\* Everything is under the first node, and a node is under itself.
LEMMA UnderSelf ==
    ASSUME NEW q, Order(q), NEW i \in DOMAIN q
    PROVE  q[i] \in Under(q, i) /\ Under(q, i) \subseteq {q[j] : j \in DOMAIN q}
<1>1. \A j \in DOMAIN q : j \in Nat /\ q[j] \in Nat
  BY DEF Order
<1>2. q[i] \in Under(q, i)
  BY <1>1, UnderIs DEF Between
<1>3. QED  BY <1>2 DEF Under

\* A node has under it what every node under it has.
LEMMA UnderTransitive ==
    ASSUME NEW q, Order(q), NEW i \in DOMAIN q, NEW j \in DOMAIN q, q[j] \in Under(q, i)
    PROVE  Under(q, j) \subseteq Under(q, i)
<1>1. \A k \in DOMAIN q : k \in Nat /\ q[k] \in Nat
  BY DEF Order
<1>2. i <= j /\ \A l \in DOMAIN q : l < i => ~Between(q[l], q[i], q[j])
  BY UnderIs
<1>3. ASSUME NEW k \in DOMAIN q, q[k] \in Under(q, j)
      PROVE  q[k] \in Under(q, i)
  <2>1. j <= k /\ \A l \in DOMAIN q : l < j => ~Between(q[l], q[j], q[k])
    BY <1>3, UnderIs
  <2>2. i <= k
    BY <1>1, <1>2, <2>1
  <2>3. ASSUME NEW l \in DOMAIN q, l < i
        PROVE  ~Between(q[l], q[i], q[k])
    <3>1. ~Between(q[l], q[i], q[j]) /\ ~Between(q[l], q[j], q[k])
      BY <1>1, <1>2, <2>1, <2>3
    <3>2. l # j /\ q[l] # q[j]
      BY <1>1, <1>2, <2>3 DEF Order
    <3>3. QED  BY <1>1, <3>1, <3>2 DEF Between
  <2>4. QED  BY <2>2, <2>3, UnderIs
<1>4. QED  BY <1>3 DEF Under

\* Under the topmost node on one side of q[i] are the nodes on that side.
LEMMA UnderTopmost ==
    ASSUME NEW q, Order(q), NEW i \in DOMAIN q, NEW S,
           \/ S = {k \in Under(q, i) : k < q[i]}
           \/ S = {k \in Under(q, i) : k > q[i]},
           S # {}
    PROVE  \E m \in DOMAIN q : Topmost(q, S) = q[m] /\ Under(q, m) = S
<1> DEFINE I == {j \in DOMAIN q : q[j] \in S}
           m == Min(I)
<1>1. \A k \in DOMAIN q : k \in Nat /\ q[k] \in Nat
  BY DEF Order
<1>2. S \subseteq Under(q, i) /\ \A k \in S : k # q[i]
  BY <1>1, UnderSelf
<1>3. I \in SUBSET Nat /\ I # {}
  BY <1>1, <1>2, UnderSelf
<1>4. m \in I /\ \A j \in I : m <= j
  BY <1>3, MinOfNats
<1>5. m \in DOMAIN q /\ q[m] \in S /\ Topmost(q, S) = q[m]
  BY <1>4 DEF Topmost
<1> HIDE DEF m
<1>6. i < m /\ \A l \in DOMAIN q : l < i => ~Between(q[l], q[i], q[m])
  <2>1. i <= m /\ \A l \in DOMAIN q : l < i => ~Between(q[l], q[i], q[m])
    BY <1>2, <1>5, UnderIs
  <2>2. i # m
    BY <1>2, <1>5
  <2>3. QED  BY <1>1, <1>5, <2>1, <2>2
<1>7. ASSUME NEW k \in DOMAIN q, q[k] \in S
      PROVE  q[k] \in Under(q, m)
  <2>1. m <= k
    BY <1>4, <1>7
  <2>2. \A l \in DOMAIN q : l < i => ~Between(q[l], q[i], q[k])
    BY <1>2, <1>7, UnderIs
  <2>3. ASSUME NEW l \in DOMAIN q, l < m, Between(q[l], q[m], q[k])
        PROVE  FALSE
    <3>1. l # i
      BY <1>1, <1>5, <1>7, <2>3 DEF Between
    <3>2. CASE l < i
      BY <1>1, <1>5, <1>6, <1>7, <2>2, <2>3, <3>2 DEF Between
    <3>3. CASE i < l
      <4>1. ASSUME NEW j \in DOMAIN q, j < i, Between(q[j], q[i], q[l])
            PROVE  FALSE
        <5>1. ~Between(q[j], q[i], q[m]) /\ ~Between(q[j], q[i], q[k])
          BY <1>6, <2>2, <4>1
        <5>2. QED  BY <1>1, <1>5, <1>7, <2>3, <4>1, <5>1 DEF Between
      <4>2. q[l] \in Under(q, i)
        BY <1>1, <3>3, <4>1, UnderIs
      <4>3. q[l] \in S
        BY <1>1, <1>5, <1>7, <2>3, <4>2 DEF Between
      <4>4. m <= l
        BY <1>4, <4>3
      <4>5. QED  BY <1>1, <1>5, <2>3, <4>4
    <3>4. QED  BY <1>1, <3>1, <3>2, <3>3
  <2>4. QED  BY <1>5, <2>1, <2>3, UnderIs
<1>8. ASSUME NEW k \in DOMAIN q, q[k] \in Under(q, m)
      PROVE  q[k] \in S
  <2>1. m <= k /\ \A l \in DOMAIN q : l < m => ~Between(q[l], q[m], q[k])
    BY <1>5, <1>8, UnderIs
  <2>2. q[k] \in Under(q, i)
    BY <1>2, <1>5, <1>8, UnderTransitive
  <2>3. ~Between(q[i], q[m], q[k])
    BY <1>6, <2>1
  <2>4. q[k] # q[i]
    BY <1>1, <1>5, <1>6, <2>1 DEF Order
  <2>5. QED  BY <1>1, <1>5, <2>2, <2>3, <2>4 DEF Between
<1>9. Under(q, m) = S
  <2>1. \A x \in Under(q, m) : \E k \in DOMAIN q : x = q[k]
    BY DEF Under
  <2>2. \A x \in S : \E k \in DOMAIN q : x = q[k]
    BY <1>2 DEF Under
  <2>3. QED  BY <1>7, <1>8, <2>1, <2>2
<1>10. QED  BY <1>5, <1>9

\* A finite set of numbers has an upper bound.
LEMMA FiniteBounded ==
    ASSUME NEW S \in SUBSET Nat, IsFiniteSet(S)
    PROVE  \E b \in Nat : \A x \in S : x <= b
<1>1. PICK seq \in Seq(S) : \A x \in S : \E n \in 1..Len(seq) : seq[n] = x
  BY DEF IsFiniteSet
<1>2. Len(seq) \in Nat /\ \A n \in 1..Len(seq) : seq[n] \in Nat
  <2>1. Len(seq) \in Nat /\ \A n \in 1..Len(seq) : seq[n] \in S
    BY <1>1
  <2>2. QED  BY <2>1
<1> DEFINE Unbounded == {n \in 0..Len(seq) : ~\E b \in Nat : \A j \in 1..n : seq[j] <= b}
<1>3. ASSUME Unbounded # {} PROVE FALSE
  <2>1. Unbounded \in SUBSET Nat
    BY <1>2
  <2>2. PICK n : n = Min(Unbounded)
    OBVIOUS
  <2>3. n \in Unbounded /\ \A y \in Unbounded : n <= y
    BY <1>3, <2>1, <2>2, MinOfNats
  <2>4. n \in Nat /\ n <= Len(seq) /\ ~\E b \in Nat : \A j \in 1..n : seq[j] <= b
    BY <1>2, <2>3
  <2>5. n # 0
    <3>1. n = 0 => \A j \in 1..n : seq[j] <= 0
      BY <2>4
    <3>2. QED  BY <2>4, <3>1
  <2> HIDE DEF Unbounded
  <2>6. n - 1 \in 0..Len(seq) /\ n - 1 \notin Unbounded
    <3>1. PICK len : len = Len(seq) /\ len \in Nat
      BY <1>2
    <3>2. n - 1 \in 0..len /\ ~(n <= n - 1)
      BY <2>4, <2>5, <3>1
    <3>3. QED  BY <2>3, <3>1, <3>2
  <2>7. PICK b \in Nat : \A j \in 1..(n - 1) : seq[j] <= b
    BY <2>6 DEF Unbounded
  <2>8. n \in 1..Len(seq) /\ seq[n] \in Nat
    BY <1>2, <2>4, <2>5
  <2>9. PICK c \in Nat : b <= c /\ seq[n] <= c
    <3>1. CASE b <= seq[n]  BY <2>8, <3>1
    <3>2. CASE ~(b <= seq[n])  BY <2>8, <3>2
    <3>3. QED  BY <3>1, <3>2
  <2>10. \A j \in 1..n : seq[j] <= c
    <3>1. TAKE j \in 1..n
    <3>2. seq[j] \in Nat
      BY <1>2, <2>4
    <3>3. CASE j = n  BY <2>9, <3>3
    <3>4. CASE j # n
      <4>1. seq[j] <= b
        BY <2>4, <2>7, <3>4
      <4>2. QED  BY <2>9, <3>2, <4>1
    <3>5. QED  BY <3>3, <3>4
  <2>11. QED  BY <2>4, <2>10
<1> HIDE DEF Unbounded
<1>4. Len(seq) \notin Unbounded /\ Len(seq) \in 0..Len(seq)
  BY <1>2, <1>3
<1>5. PICK b \in Nat : \A j \in 1..Len(seq) : seq[j] <= b
  BY <1>4 DEF Unbounded
<1>6. QED  BY <1>1, <1>5

\* The keys of a prefix lie between prefix_ and past.
LEMMA PrefixBounds ==
    /\ prefix_("U") \in Nat /\ past("U") \in Nat
    /\ \A u \in User : prefix_("U") < u /\ u < past("U")
    /\ \A c \in Catalog : c < prefix_("U") /\ c < past("U")
<1> USE IteratorAssumption
<1>1. Prefixed("U") = User
  BY DEF Prefixed
<1>2. Min(User) \in User /\ \A u \in User : Min(User) <= u
  BY MinOfNats
<1>3. PICK b \in Nat : \A u \in User : u <= b
  BY FiniteBounded
<1>4. User \in SUBSET (0..b)
  BY <1>3
<1>5. Max(User) \in User /\ \A u \in User : u <= Max(User)
  BY <1>4, MaxOfBounded
<1>6. PICK c \in Catalog : TRUE
  OBVIOUS
<1>7. prefix_("U") = Min(User) - 1 /\ past("U") = Max(User) + 1
  BY <1>1 DEF prefix_, past
<1>8. c \in Nat /\ Min(User) \in Nat /\ Max(User) \in Nat /\ c + 1 < Min(User)
  BY <1>2, <1>5, <1>6
<1>9. \A u \in User : u \in Nat
  OBVIOUS
<1>10. \A x \in Catalog : x \in Nat /\ x + 1 < Min(User) /\ x + 1 < Max(User)
  BY <1>2, <1>5
<1>11. QED  BY <1>2, <1>5, <1>7, <1>8, <1>9, <1>10

\* The tree of an order is a search tree, with the first node as its root.
LEMMA InitTree == Init => SearchTree
<1> SUFFICES ASSUME Init PROVE SearchTree
  OBVIOUS
<1> USE IteratorAssumption
<1>0. PICK s \in SUBSET (Catalog \cup User) :
         s # {} /\ \E q \in Orders(s) : tree = TreeOf(q) /\ root = q[1]
  BY DEF Init
<1>1. PICK q \in Orders(s) : tree = TreeOf(q) /\ root = q[1]
  BY <1>0
<1>2. IsFiniteSet(s)
  <2>1. IsFiniteSet(Catalog \cup User)
    BY FS_Union
  <2>2. QED  BY <2>1, FS_Subset
<1>3. Cardinality(s) \in Nat /\ Cardinality(s) # 0
  BY <1>0, <1>2, FS_CardinalityType, FS_EmptySet
<1>4. /\ q \in [1..Cardinality(s) -> s] /\ DOMAIN q = 1..Cardinality(s)
      /\ \A i, j \in DOMAIN q : i # j => q[i] # q[j]
  BY DEF Orders
<1>5. \A i \in DOMAIN q : q[i] \in Catalog \cup User /\ q[i] \in Nat /\ q[i] # 0 /\ i \in Nat /\ 1 <= i
  <2>1. \A x \in Catalog \cup User : x \in Nat /\ x # 0
    <3>1. \A c \in Catalog, u \in User : c \in Nat /\ u \in Nat /\ c > 1 /\ c + 1 < u
      OBVIOUS
    <3>2. (\E c \in Catalog : TRUE) /\ (\E u \in User : TRUE)
      OBVIOUS
    <3>3. QED  BY <3>1, <3>2
  <2>2. \A i \in DOMAIN q : q[i] \in Catalog \cup User
    BY <1>4
  <2>3. \A i \in DOMAIN q : i \in Nat /\ 1 <= i
    <3>1. PICK n \in Nat : DOMAIN q = 1..n
      BY <1>3, <1>4
    <3>2. QED  BY <3>1
  <2>4. QED  BY <2>1, <2>2, <2>3
<1>6. Order(q) /\ 1 \in DOMAIN q
  BY <1>3, <1>4, <1>5 DEF Order, Nil
<1>7. Nodes = {q[i] : i \in DOMAIN q}
  BY <1>1 DEF Nodes, TreeOf
<1>8. ASSUME NEW i \in DOMAIN q
      PROVE  q[i] \in Nodes /\ tree[q[i]] = NodeOf(q, i)
  <2>1. (CHOOSE j \in DOMAIN q : q[j] = q[i]) = i
    BY <1>4
  <2>2. QED  BY <1>1, <1>7, <2>1 DEF TreeOf
<1>9. ASSUME NEW i \in DOMAIN q
      PROVE  /\ tree[q[i]].under = Under(q, i)
             /\ tree[q[i]].left = Topmost(q, {k \in Under(q, i) : k < q[i]})
             /\ tree[q[i]].right = Topmost(q, {k \in Under(q, i) : k > q[i]})
  <2>1. PICK L, R, U : /\ L = Topmost(q, {k \in Under(q, i) : k < q[i]})
                       /\ R = Topmost(q, {k \in Under(q, i) : k > q[i]})
                       /\ U = Under(q, i)
    OBVIOUS
  <2>2. tree[q[i]] = [left |-> L, right |-> R, under |-> U]
    BY <1>8, <2>1 DEF NodeOf
  <2>3. QED  BY <2>1, <2>2
<1>10. ASSUME NEW i \in DOMAIN q, NEW S,
              \/ S = {k \in Under(q, i) : k < q[i]}
              \/ S = {k \in Under(q, i) : k > q[i]}
       PROVE  Topmost(q, S) \in Nodes \cup {Nil} /\ Sub(Topmost(q, S)) = S
  <2>1. CASE S = {}
    BY <2>1 DEF Topmost, Sub
  <2>2. CASE S # {}
    <3>1. PICK m \in DOMAIN q : Topmost(q, S) = q[m] /\ Under(q, m) = S
      BY <1>6, <1>10, <2>2, UnderTopmost
    <3>2. q[m] \in Nodes /\ q[m] # Nil /\ tree[q[m]].under = S
      BY <1>5, <1>8, <1>9, <3>1 DEF Nil
    <3>3. QED  BY <3>1, <3>2 DEF Sub
  <2>3. QED  BY <2>1, <2>2
<1>11. ASSUME NEW i \in DOMAIN q
       PROVE  /\ q[i] \in tree[q[i]].under /\ tree[q[i]].under \subseteq Nodes
              /\ \A m \in tree[q[i]].under : tree[m].under \subseteq tree[q[i]].under
  <2>1. q[i] \in Under(q, i) /\ Under(q, i) \subseteq Nodes
    BY <1>6, <1>7, UnderSelf
  <2>2. ASSUME NEW m \in Under(q, i)
        PROVE  tree[m].under \subseteq Under(q, i)
    <3>1. PICK j \in DOMAIN q : m = q[j]
      BY DEF Under
    <3>2. q[j] \in Under(q, i)
      BY <2>2, <3>1
    <3>3. Under(q, j) \subseteq Under(q, i)
      BY <1>6, <3>2, UnderTransitive
    <3>4. tree[q[j]].under = Under(q, j)
      BY <1>9
    <3>5. QED  BY <3>1, <3>3, <3>4
  <2>3. QED  BY <1>9, <2>1, <2>2
<1>12. Sub(root) = Nodes
  <2>1. \A j \in DOMAIN q : q[j] \in Under(q, 1)
    BY <1>5, <1>6, UnderIs
  <2>2. Under(q, 1) = Nodes
    BY <1>6, <1>7, <2>1, UnderSelf
  <2>3. QED  BY <1>1, <1>5, <1>6, <1>9, <2>2 DEF Sub, Nil
<1>13. ASSUME NEW n \in Nodes
       PROVE  /\ tree[n].left \in Nodes \cup {Nil} /\ tree[n].right \in Nodes \cup {Nil}
              /\ n \in tree[n].under /\ tree[n].under \subseteq Nodes
              /\ Sub(tree[n].left) = {k \in tree[n].under : k < n}
              /\ Sub(tree[n].right) = {k \in tree[n].under : k > n}
              /\ \A m \in tree[n].under : tree[m].under \subseteq tree[n].under
  <2>1. PICK i \in DOMAIN q : n = q[i]
    BY <1>7
  <2>2. tree[n].left \in Nodes \cup {Nil} /\ Sub(tree[n].left) = {k \in tree[n].under : k < n}
    <3>1. PICK S : S = {k \in Under(q, i) : k < q[i]}
      OBVIOUS
    <3>2. tree[q[i]].left = Topmost(q, S) /\ S = {k \in tree[q[i]].under : k < q[i]}
      BY <1>9, <3>1
    <3>3. QED  BY <1>10, <2>1, <3>1, <3>2
  <2>3. tree[n].right \in Nodes \cup {Nil} /\ Sub(tree[n].right) = {k \in tree[n].under : k > n}
    <3>1. PICK S : S = {k \in Under(q, i) : k > q[i]}
      OBVIOUS
    <3>2. tree[q[i]].right = Topmost(q, S) /\ S = {k \in tree[q[i]].under : k > q[i]}
      BY <1>9, <3>1
    <3>3. QED  BY <1>10, <2>1, <3>1, <3>2
  <2>4. QED  BY <1>11, <2>1, <2>2, <2>3
<1>14. QED  BY <1>1, <1>5, <1>6, <1>7, <1>12, <1>13 DEF SearchTree

-----------------------------------------------------------------------------
(* Stacks. *)

(* A stack s for direction d: each entry is ahead of the ones on top of it   *)
(* and has them under it, and what lies between an entry and the ones below  *)
(* it on the stack is under its far child.                                   *)
Holding(d, s) ==
    /\ s \in Seq(Nodes)
    /\ \A i, j \in DOMAIN s : i < j => Ahead(d, s[i], s[j]) /\ s[i] \in Sub(s[j])
    /\ \A i \in DOMAIN s : \A k \in Nodes :
          (Ahead(d, s[i], k) /\ \A j \in DOMAIN s : i < j => Ahead(d, k, s[j]))
             => k \in Sub(Far(d, s[i]))

(* A loop with this stack has come to node n. *)
Descending(d, n, s) ==
    /\ Holding(d, s)
    /\ n \in Nodes \cup {Nil}
    /\ \A j \in DOMAIN s : \A k \in Sub(n) : Ahead(d, k, s[j]) /\ k \in Sub(s[j])

(* Of the nodes W that a call looks for, those that are nearer than the      *)
(* stack are still under n.                                                  *)
Covers(d, W, n, s) ==
    /\ \A j \in DOMAIN s : s[j] \in W
    /\ \A k \in W : (\A j \in DOMAIN s : Ahead(d, k, s[j])) => k \in Sub(n)

(* With a node, everything ahead of it. *)
Onward(d, W) ==
    /\ W \in SUBSET Nodes
    /\ \A k \in W, m \in Nodes : Ahead(d, k, m) => m \in W

\* Each direction orders the numbers.
LEMMA AheadOrders ==
    ASSUME NEW d, NEW a \in Nat, NEW b \in Nat
    PROVE  /\ Ahead(d, a, b) \/ a = b \/ Ahead(d, b, a)
           /\ ~(Ahead(d, a, b) /\ Ahead(d, b, a)) /\ ~Ahead(d, a, a)
           /\ \A c \in Nat : (Ahead(d, a, b) /\ Ahead(d, b, c)) => Ahead(d, a, c)
  BY DEF Ahead

\* The two children of a node divide what is under it.
LEMMA Children ==
    ASSUME SearchTree, NEW d, NEW n \in Nodes
    PROVE  /\ Nodes \in SUBSET Nat /\ n # Nil /\ n \in Sub(n) /\ Sub(n) \subseteq Nodes
           /\ Far(d, n) \in Nodes \cup {Nil} /\ Near(d, n) \in Nodes \cup {Nil}
           /\ Sub(Far(d, n)) = {k \in Sub(n) : Ahead(d, n, k)}
           /\ Sub(Near(d, n)) = {k \in Sub(n) : Ahead(d, k, n)}
           /\ \A m \in Sub(n) : Sub(m) \subseteq Sub(n)
<1>1. \A x \in Catalog \cup User : x \in Nat /\ x # 0
  <2>1. \A c \in Catalog, u \in User : c \in Nat /\ u \in Nat /\ c > 1 /\ c + 1 < u
    BY IteratorAssumption
  <2>2. (\E c \in Catalog : TRUE) /\ (\E u \in User : TRUE)
    BY IteratorAssumption
  <2>3. QED  BY <2>1, <2>2
<1>2. Nodes \in SUBSET Nat /\ \A m \in Nodes : m # Nil
  BY <1>1 DEF SearchTree, Nil
<1>3. \A m \in Nodes : Sub(m) = tree[m].under
  BY <1>2 DEF Sub
<1>4. /\ tree[n].left \in Nodes \cup {Nil} /\ tree[n].right \in Nodes \cup {Nil}
      /\ n \in Sub(n) /\ Sub(n) \subseteq Nodes
      /\ Sub(tree[n].left) = {k \in Sub(n) : k < n}
      /\ Sub(tree[n].right) = {k \in Sub(n) : k > n}
      /\ \A m \in Sub(n) : Sub(m) \subseteq Sub(n)
  BY <1>3 DEF SearchTree
<1>5. CASE d = "forward"
  BY <1>2, <1>4, <1>5 DEF Far, Near, Ahead
<1>6. CASE d # "forward"
  BY <1>2, <1>4, <1>6 DEF Far, Near, Ahead
<1>7. QED  BY <1>5, <1>6

\* Pushing an element moves the others one position down.
LEMMA Pushed ==
    ASSUME NEW S, NEW s \in Seq(S), NEW e \in S
    PROVE  /\ <<e>> \o s \in Seq(S)
           /\ (<<e>> \o s)[1] = e /\ 1 \in DOMAIN (<<e>> \o s)
           /\ \A j \in DOMAIN (<<e>> \o s) :
                 j = 1 \/ (j - 1 \in DOMAIN s /\ (<<e>> \o s)[j] = s[j - 1])
           /\ \A i \in DOMAIN s : i + 1 \in DOMAIN (<<e>> \o s) /\ (<<e>> \o s)[i + 1] = s[i]
           /\ DOMAIN s \in SUBSET Nat /\ DOMAIN (<<e>> \o s) \in SUBSET Nat
           /\ \A j \in DOMAIN (<<e>> \o s) : j >= 1
  OBVIOUS

\* A turn that pushes its node and goes on with what is nearer.
LEMMA PushTurn ==
    ASSUME SearchTree, NEW d, NEW n \in Nodes, NEW s, NEW W, Onward(d, W),
           Descending(d, n, s), Covers(d, W, n, s), n \in W
    PROVE  Descending(d, Near(d, n), <<n>> \o s) /\ Covers(d, W, Near(d, n), <<n>> \o s)
<1> DEFINE s2 == <<n>> \o s
<1>1. /\ Nodes \in SUBSET Nat /\ n \in Sub(n) /\ Sub(n) \subseteq Nodes
      /\ Near(d, n) \in Nodes \cup {Nil}
      /\ Sub(Far(d, n)) = {k \in Sub(n) : Ahead(d, n, k)}
      /\ Sub(Near(d, n)) = {k \in Sub(n) : Ahead(d, k, n)}
  BY Children
<1>2. s \in Seq(Nodes)
  BY DEF Descending, Holding
<1>3. /\ s2 \in Seq(Nodes) /\ s2[1] = n /\ 1 \in DOMAIN s2
      /\ \A j \in DOMAIN s2 : j = 1 \/ (j - 1 \in DOMAIN s /\ s2[j] = s[j - 1])
      /\ \A i \in DOMAIN s : i + 1 \in DOMAIN s2 /\ s2[i + 1] = s[i]
      /\ DOMAIN s \in SUBSET Nat /\ DOMAIN s2 \in SUBSET Nat
      /\ \A j \in DOMAIN s2 : j >= 1
  BY <1>2, Pushed
<1> HIDE DEF s2
<1>4. \A j \in DOMAIN s : \A k \in Sub(n) : Ahead(d, k, s[j]) /\ k \in Sub(s[j])
  BY DEF Descending
<1>5. ASSUME NEW i \in DOMAIN s2, NEW j \in DOMAIN s2, i < j
      PROVE  Ahead(d, s2[i], s2[j]) /\ s2[i] \in Sub(s2[j])
  <2>1. j - 1 \in DOMAIN s /\ s2[j] = s[j - 1]
    BY <1>3, <1>5
  <2>2. CASE i = 1
    BY <1>1, <1>3, <1>4, <2>1, <2>2
  <2>3. CASE i # 1
    <3>1. i - 1 \in DOMAIN s /\ s2[i] = s[i - 1] /\ i - 1 < j - 1
      BY <1>3, <1>5, <2>3
    <3>2. QED  BY <2>1, <3>1 DEF Descending, Holding
  <2>4. QED  BY <2>2, <2>3
<1>6. ASSUME NEW i \in DOMAIN s2, NEW k \in Nodes, Ahead(d, s2[i], k),
             \A j \in DOMAIN s2 : i < j => Ahead(d, k, s2[j])
      PROVE  k \in Sub(Far(d, s2[i]))
  <2>1. CASE i = 1
    <3>1. \A j \in DOMAIN s : Ahead(d, k, s[j])
      <4>1. TAKE j \in DOMAIN s
      <4>2. j + 1 \in DOMAIN s2 /\ s2[j + 1] = s[j] /\ i < j + 1
        BY <1>3, <2>1
      <4>3. QED  BY <1>6, <4>2
    <3>2. Ahead(d, n, k)
      BY <1>3, <1>6, <2>1
    <3>3. k \in W
      BY <3>2 DEF Onward
    <3>4. k \in Sub(n)
      BY <3>1, <3>3 DEF Covers
    <3>5. QED  BY <1>1, <1>3, <2>1, <3>2, <3>4
  <2>2. CASE i # 1
    <3>1. i - 1 \in DOMAIN s /\ s2[i] = s[i - 1]
      BY <1>3, <2>2
    <3>2. \A j \in DOMAIN s : i - 1 < j => Ahead(d, k, s[j])
      <4>1. TAKE j \in DOMAIN s
      <4>2. j + 1 \in DOMAIN s2 /\ s2[j + 1] = s[j] /\ (i - 1 < j => i < j + 1)
        BY <1>3
      <4>3. QED  BY <1>6, <4>2
    <3>3. QED  BY <1>6, <3>1, <3>2 DEF Descending, Holding
  <2>3. QED  BY <2>1, <2>2
<1>7. ASSUME NEW j \in DOMAIN s2, NEW k \in Sub(Near(d, n))
      PROVE  Ahead(d, k, s2[j]) /\ k \in Sub(s2[j])
  <2>1. k \in Sub(n) /\ Ahead(d, k, n)
    BY <1>1, <1>7
  <2>2. CASE j = 1  BY <1>3, <2>1, <2>2
  <2>3. CASE j # 1
    <3>1. j - 1 \in DOMAIN s /\ s2[j] = s[j - 1]
      BY <1>3, <2>3
    <3>2. QED  BY <1>4, <2>1, <3>1
  <2>4. QED  BY <2>2, <2>3
<1>8. \A j \in DOMAIN s2 : s2[j] \in W
  BY <1>3 DEF Covers
<1>9. ASSUME NEW k \in W, \A j \in DOMAIN s2 : Ahead(d, k, s2[j])
      PROVE  k \in Sub(Near(d, n))
  <2>1. Ahead(d, k, n)
    BY <1>3, <1>9
  <2>2. \A j \in DOMAIN s : Ahead(d, k, s[j])
    BY <1>3, <1>9
  <2>3. QED  BY <1>1, <2>1, <2>2 DEF Covers
<1>10. Holding(d, s2)
  BY <1>3, <1>5, <1>6 DEF Holding
<1>11. QED  BY <1>1, <1>7, <1>8, <1>9, <1>10 DEF Descending, Covers, s2

\* A turn that leaves out its node, which is not looked for.
LEMMA PassTurn ==
    ASSUME SearchTree, NEW d, NEW n \in Nodes, NEW s, NEW W, Onward(d, W),
           Descending(d, n, s), Covers(d, W, n, s), n \notin W
    PROVE  Descending(d, Far(d, n), s) /\ Covers(d, W, Far(d, n), s)
<1>1. /\ Nodes \in SUBSET Nat /\ Sub(n) \subseteq Nodes
      /\ Far(d, n) \in Nodes \cup {Nil}
      /\ Sub(Far(d, n)) = {k \in Sub(n) : Ahead(d, n, k)}
  BY Children
<1>2. ASSUME NEW k \in W
      PROVE  Ahead(d, n, k)
  <2>1. k \in Nodes /\ k # n /\ ~Ahead(d, k, n)
    BY <1>2 DEF Onward
  <2>2. QED  BY <1>1, <2>1, AheadOrders
<1>3. Descending(d, Far(d, n), s)
  BY <1>1 DEF Descending
<1>4. QED  BY <1>1, <1>2, <1>3 DEF Covers

\* Taking off the top and going to its far child.
LEMMA PopStep ==
    ASSUME SearchTree, NEW d, NEW s, Holding(d, s), s # <<>>
    PROVE  LET n == Far(d, Head(s))
               W == {k \in Nodes : Ahead(d, Head(s), k)}
           IN  /\ Head(s) \in Nodes
               /\ Onward(d, W)
               /\ Descending(d, n, Tail(s))
               /\ Covers(d, W, n, Tail(s))
               /\ Sub(n) \subseteq W
<1> DEFINE n == Far(d, Head(s))
           W == {k \in Nodes : Ahead(d, Head(s), k)}
           r == Tail(s)
<1>1. s \in Seq(Nodes)
  BY DEF Holding
<1>2. /\ r \in Seq(Nodes) /\ Head(s) = s[1] /\ s[1] \in Nodes /\ 1 \in DOMAIN s
      /\ \A i \in DOMAIN r : i + 1 \in DOMAIN s /\ r[i] = s[i + 1] /\ i \in Nat /\ 1 < i + 1
      /\ \A j \in DOMAIN s : j = 1 \/ (j - 1 \in DOMAIN r /\ s[j] = r[j - 1] /\ j \in Nat)
  BY <1>1
<1>3. /\ Nodes \in SUBSET Nat /\ Sub(s[1]) \subseteq Nodes
      /\ n \in Nodes \cup {Nil} /\ Sub(n) = {k \in Sub(s[1]) : Ahead(d, s[1], k)}
  BY <1>2, Children
<1>4. Onward(d, W)
  <2>1. \A k \in W, m \in Nodes : Ahead(d, k, m) => m \in W
    BY <1>2, <1>3, AheadOrders
  <2>2. QED  BY <2>1 DEF Onward
<1> HIDE DEF r, n
<1>5. ASSUME NEW i \in DOMAIN r, NEW j \in DOMAIN r, i < j
      PROVE  Ahead(d, r[i], r[j]) /\ r[i] \in Sub(r[j])
  <2>1. i + 1 \in DOMAIN s /\ j + 1 \in DOMAIN s /\ r[i] = s[i + 1] /\ r[j] = s[j + 1] /\ i + 1 < j + 1
    BY <1>2, <1>5
  <2>2. QED  BY <2>1 DEF Holding
<1>6. ASSUME NEW i \in DOMAIN r, NEW k \in Nodes, Ahead(d, r[i], k),
             \A j \in DOMAIN r : i < j => Ahead(d, k, r[j])
      PROVE  k \in Sub(Far(d, r[i]))
  <2>1. i + 1 \in DOMAIN s /\ r[i] = s[i + 1] /\ i \in Nat
    BY <1>2
  <2>2. \A j \in DOMAIN s : i + 1 < j => Ahead(d, k, s[j])
    <3>1. TAKE j \in DOMAIN s
    <3>2. SUFFICES ASSUME i + 1 < j PROVE Ahead(d, k, s[j])
      OBVIOUS
    <3>3. j - 1 \in DOMAIN r /\ s[j] = r[j - 1] /\ i < j - 1
      BY <1>2, <2>1, <3>2
    <3>4. QED  BY <1>6, <3>3
  <2>3. QED  BY <1>6, <2>1, <2>2 DEF Holding
<1>7. ASSUME NEW j \in DOMAIN r, NEW k \in Sub(n)
      PROVE  Ahead(d, k, r[j]) /\ k \in Sub(r[j])
  <2>1. r[j] \in Nodes /\ Ahead(d, s[1], r[j]) /\ s[1] \in Sub(r[j])
    BY <1>2 DEF Holding
  <2>2. Sub(Near(d, r[j])) = {x \in Sub(r[j]) : Ahead(d, x, r[j])} /\ Near(d, r[j]) \in Nodes \cup {Nil}
    BY <2>1, Children
  <2>3. s[1] \in Sub(Near(d, r[j])) /\ Near(d, r[j]) \in Nodes
    BY <2>1, <2>2 DEF Sub
  <2>4. Sub(s[1]) \subseteq Sub(Near(d, r[j]))
    BY <2>3, Children
  <2>5. QED  BY <1>3, <1>7, <2>2, <2>4
<1>8. \A j \in DOMAIN r : r[j] \in W
  BY <1>2 DEF Holding
<1>9. ASSUME NEW k \in W, \A j \in DOMAIN r : Ahead(d, k, r[j])
      PROVE  k \in Sub(n)
  <2>1. \A j \in DOMAIN s : 1 < j => Ahead(d, k, s[j])
    BY <1>2, <1>9
  <2>2. k \in Nodes /\ Ahead(d, s[1], k)
    BY <1>2, <1>9
  <2>3. k \in Sub(Far(d, s[1]))
    BY <1>2, <2>1, <2>2 DEF Holding
  <2>4. QED  BY <1>2, <2>3 DEF n
<1>10. Holding(d, r)
  BY <1>2, <1>5, <1>6 DEF Holding
<1>11. Sub(n) \subseteq W
  BY <1>2, <1>3
<1>12. Descending(d, n, r) /\ Covers(d, W, n, r)
  BY <1>3, <1>7, <1>8, <1>9, <1>10 DEF Descending, Covers
<1>13. QED  BY <1>2, <1>4, <1>11, <1>12 DEF n, r

\* A search has a target; what it looks for is at it or ahead of it.
LEMMA TargetOnward ==
    ASSUME SearchTree, NEW d, NEW t \in Nat
    PROVE  Onward(d, {k \in Nodes : ~Ahead(d, k, t)})
<1>1. Nodes \in SUBSET Nat
  BY Children DEF SearchTree
<1>2. QED  BY <1>1, AheadOrders DEF Onward

\* The turn that comes to the target, and leaves the loop.
LEMMA FoundTurn ==
    ASSUME SearchTree, NEW d, NEW n \in Nodes, NEW s, NEW W,
           W = {k \in Nodes : ~Ahead(d, k, n)},
           Descending(d, n, s), Covers(d, W, n, s)
    PROVE  Descending(d, Nil, <<n>> \o s) /\ Covers(d, W, Nil, <<n>> \o s)
<1>1. /\ Nodes \in SUBSET Nat /\ Sub(n) \subseteq Nodes
      /\ Sub(Near(d, n)) = {k \in Sub(n) : Ahead(d, k, n)}
  BY Children
<1>2. Onward(d, W) /\ n \in W
  BY <1>1, TargetOnward, AheadOrders
<1>3. Descending(d, Near(d, n), <<n>> \o s) /\ Covers(d, W, Near(d, n), <<n>> \o s)
  BY <1>2, PushTurn
<1>4. \A k \in W : k \notin Sub(Near(d, n))
  BY <1>1
<1>5. Sub(Nil) = {}
  BY DEF Sub
<1>6. Descending(d, Nil, <<n>> \o s)
  BY <1>3, <1>5 DEF Descending
<1>7. Covers(d, W, Nil, <<n>> \o s)
  BY <1>3, <1>4 DEF Covers
<1>8. QED  BY <1>6, <1>7

\* A loop starts at the root with no stack.
LEMMA Start ==
    ASSUME SearchTree, NEW d, NEW W \in SUBSET Nodes
    PROVE  Descending(d, root, <<>>) /\ Covers(d, W, root, <<>>)
<1>1. DOMAIN <<>> = {} /\ <<>> \in Seq(Nodes)
  OBVIOUS
<1>2. root \in Nodes /\ Sub(root) = Nodes
  BY DEF SearchTree
<1>3. QED  BY <1>1, <1>2 DEF Descending, Holding, Covers

\* When a loop is over, the top of the stack is the nearest of what was looked for.
LEMMA Nearest ==
    ASSUME SearchTree, NEW d, NEW s, NEW W \in SUBSET Nodes,
           Descending(d, Nil, s), Covers(d, W, Nil, s)
    PROVE  /\ s = <<>> => W = {}
           /\ s # <<>> => Head(s) \in W /\ \A k \in W : ~Ahead(d, k, Head(s))
<1>1. Nodes \in SUBSET Nat
  BY Children DEF SearchTree
<1>2. s \in Seq(Nodes)
  BY DEF Descending, Holding
<1>3. ASSUME NEW k \in W
      PROVE  \E j \in DOMAIN s : ~Ahead(d, k, s[j])
  BY DEF Covers, Sub
<1>4. CASE s = <<>>
  BY <1>3, <1>4
<1>5. CASE s # <<>>
  <2>1. Head(s) = s[1] /\ 1 \in DOMAIN s /\ \A j \in DOMAIN s : j \in Nat /\ (j = 1 \/ 1 < j) /\ s[j] \in Nodes
    BY <1>2, <1>5
  <2>2. ASSUME NEW k \in W, Ahead(d, k, s[1])
        PROVE  FALSE
    <3>1. PICK j \in DOMAIN s : ~Ahead(d, k, s[j])
      BY <1>3
    <3>2. 1 < j
      BY <2>1, <2>2, <3>1
    <3>3. Ahead(d, s[1], s[j])
      BY <2>1, <3>2 DEF Descending, Holding
    <3>4. k \in Nat /\ s[1] \in Nat /\ s[j] \in Nat
      BY <1>1, <2>1
    <3>5. QED  BY <2>2, <3>1, <3>3, <3>4, AheadOrders
  <2>3. s[1] \in W
    BY <2>1 DEF Covers
  <2>4. QED  BY <1>5, <2>1, <2>2, <2>3
<1>6. QED  BY <1>4, <1>5

-----------------------------------------------------------------------------
(* The invariant. *)

(* What the loop of the call in progress looks for. *)
Sought ==
    IF call.loop = "search" THEN {k \in Nodes : ~Ahead(call.d, k, call.target)}
    ELSE IF call.op = "last" THEN Nodes
    ELSE {k \in Nodes : Ahead(call.d, at, k)}

LoopInv ==
    /\ Descending(call.d, call.node, stack)
    /\ Covers(call.d, Sought, call.node, stack)

Steps(op, d) ==
    /\ at \in Nodes /\ at \in Prefixed(prefix)
    /\ \/ op = "next" /\ d = "forward"
       \/ op = "prev" /\ d = "reverse" /\ prefix = "U"

(* Between two calls. *)
Resting ==
    /\ call = NoCall
    /\ stack # <<>> => Holding(dir, stack)
    /\ at = IF Valid THEN key ELSE Nil

(* In the loop to a target. *)
Searching ==
    /\ call = [op |-> call.op, loop |-> "search", d |-> call.d, node |-> call.node, target |-> call.target]
    /\ call.target \in Nat
    /\ \/ call.op = "first" /\ call.d = "forward" /\ prefix = "U" /\ call.target = prefix_("U")
       \/ call.op = "last" /\ call.d = "forward" /\ prefix = "U" /\ call.target = past("U")
       \/ call.op = "seek" /\ call.d = "forward" /\ call.target \in Prefixed(prefix)
       \/ Steps(call.op, call.d) /\ call.target = at
    /\ LoopInv

(* In the loop down one side. *)
Sinking ==
    /\ call = [op |-> call.op, loop |-> "spine", d |-> call.d, node |-> call.node]
    /\ \/ call.op = "last" /\ call.d = "reverse" /\ prefix = "U"
       \/ Steps(call.op, call.d)
    /\ Sub(call.node) \subseteq Sought
    /\ LoopInv

IterInv ==
    /\ SearchTree
    /\ prefix \in {"C", "U"}
    /\ Resting \/ Searching \/ Sinking

\* The invariant of a loop after a step, from what the step makes of the stack.
LEMMA LoopNext ==
    ASSUME tree' = tree, NEW d, NEW n, NEW s, NEW W,
           call'.d = d, call'.node = n, stack' = s, Sought' = W,
           Descending(d, n, s), Covers(d, W, n, s)
    PROVE  LoopInv'
<1>1. Descending(call.d, call.node, stack)'
  BY DEF Descending, Holding, Sub, Far, Ahead, Nodes
<1>2. Covers(call.d, Sought, call.node, stack)'
  BY DEF Covers, Sub, Ahead
<1>3. QED  BY <1>1, <1>2 DEF LoopInv

\* The tree is never written.
LEMMA TreeNext ==
    ASSUME SearchTree, tree' = tree, root' = root
    PROVE  SearchTree'
  BY DEF SearchTree, Sub, Nodes

\* An iterator starts at rest.
LEMMA InitIter == Init => IterInv
<1> SUFFICES ASSUME Init PROVE IterInv
  OBVIOUS
<1>1. SearchTree
  BY InitTree
<1>2. Resting
  BY DEF Init, Resting, Valid
<1>3. QED  BY <1>1, <1>2 DEF IterInv, Init

\* A call that begins with a search.
LEMMA BeginSearch ==
    ASSUME SearchTree, NEW op, NEW d, NEW t \in Nat, Search(op, d, t),
           UNCHANGED <<tree, root, prefix, at>>,
           \/ op = "first" /\ d = "forward" /\ prefix = "U" /\ t = prefix_("U")
           \/ op = "last" /\ d = "forward" /\ prefix = "U" /\ t = past("U")
           \/ op = "seek" /\ d = "forward" /\ t \in Prefixed(prefix)
           \/ Steps(op, d) /\ t = at
    PROVE  Searching'
<1> DEFINE W == {k \in Nodes : ~Ahead(d, k, t)}
<1>1. /\ call' = [op |-> op, loop |-> "search", d |-> d, node |-> root, target |-> t]
      /\ stack' = <<>>
  BY DEF Search
<1>2. /\ call'.op = op /\ call'.loop = "search" /\ call'.d = d /\ call'.node = root
      /\ call'.target = t
      /\ call' = [op |-> call'.op, loop |-> "search", d |-> call'.d, node |-> call'.node,
                  target |-> call'.target]
  BY <1>1
<1>3. Sought' = W
  BY <1>2 DEF Sought, Ahead, Nodes
<1>4. Descending(d, root, <<>>) /\ Covers(d, W, root, <<>>)
  BY Start
<1> HIDE DEF W
<1>5. LoopInv'
  BY <1>1, <1>2, <1>3, <1>4, LoopNext
<1>6. Steps(op, d) => Steps(op, d)'
  BY DEF Steps, Nodes, Prefixed
<1>7. Prefixed(prefix)' = Prefixed(prefix)
  BY DEF Prefixed
<1>8. Steps(op, d)' => Steps(call.op, call.d)'
  BY <1>2 DEF Steps
<1>9. QED  BY <1>2, <1>5, <1>6, <1>7, <1>8 DEF Searching

\* Next and Prev go on from the current node.
LEMMA BeginSpine ==
    ASSUME SearchTree, NEW op, NEW d, Step(op, d), UNCHANGED <<tree, root, prefix, at>>,
           stack # <<>>, Holding(d, stack), key = at, Steps(op, d)
    PROVE  Sinking'
<1> DEFINE W == {k \in Nodes : Ahead(d, at, k)}
           n == Far(d, at)
<1>1. /\ call' = [op |-> op, loop |-> "spine", d |-> d, node |-> n]
      /\ stack' = Tail(stack)
  BY DEF Step, Spine
<1>2. Descending(d, n, Tail(stack)) /\ Covers(d, W, n, Tail(stack)) /\ Sub(n) \subseteq W
  BY PopStep DEF key
<1> HIDE DEF n
<1>3. /\ call'.op = op /\ call'.loop = "spine" /\ call'.d = d /\ call'.node = n
      /\ call' = [op |-> call'.op, loop |-> "spine", d |-> call'.d, node |-> call'.node]
  BY <1>1
<1>4. op # "last"
  BY DEF Steps
<1>5. Sought' = W
  BY <1>3, <1>4 DEF Sought, Ahead, Nodes
<1> HIDE DEF W
<1>6. LoopInv'
  BY <1>1, <1>2, <1>3, <1>5, LoopNext
<1>7. Sub(call.node)' \subseteq Sought'
  <2>1. Sub(call.node)' = Sub(n)
    BY <1>3 DEF Sub
  <2>2. QED  BY <1>2, <1>5, <2>1
<1>8. Steps(call.op, call.d)'
  <2>1. Prefixed(prefix)' = Prefixed(prefix) /\ Nodes' = Nodes
    BY DEF Prefixed, Nodes
  <2>2. QED  BY <1>3, <2>1 DEF Steps
<1>9. QED  BY <1>3, <1>6, <1>7, <1>8 DEF Sinking

\* A turn of the loop to a target.
LEMMA SearchTurnInv ==
    ASSUME IterInv, SearchTurn
    PROVE  Searching'
<1>1. SearchTree /\ Searching
  BY DEF IterInv, SearchTurn, Resting, NoCall, Sinking
<1> DEFINE d == call.d
           n == call.node
           t == call.target
           W == {k \in Nodes : ~Ahead(d, k, t)}
           m == IF t = n THEN Nil ELSE IF Ahead(d, t, n) THEN Near(d, n) ELSE Far(d, n)
           s == IF t = n \/ Ahead(d, t, n) THEN <<n>> \o stack ELSE stack
<1>2. /\ n # Nil /\ call.loop = "search" /\ t \in Nat
      /\ call = [op |-> call.op, loop |-> "search", d |-> d, node |-> n, target |-> t]
      /\ UNCHANGED <<tree, root, prefix, dir, at>>
  BY <1>1 DEF SearchTurn, Searching
<1>3. call' = [call EXCEPT !.node = m] /\ stack' = s
  BY DEF SearchTurn
<1>4. Sought = W
  BY <1>2 DEF Sought
<1>5. Descending(d, n, stack) /\ Covers(d, W, n, stack)
  BY <1>1, <1>4 DEF Searching, LoopInv
<1>6. n \in Nodes /\ Nodes \in SUBSET Nat
  BY <1>1, <1>2, <1>5, Children DEF Descending, SearchTree
<1>7. Onward(d, W)
  BY <1>1, <1>2, TargetOnward
<1>8. Descending(d, m, s) /\ Covers(d, W, m, s)
  <2>1. CASE t = n
    BY <1>1, <1>5, <1>6, <2>1, FoundTurn
  <2>2. CASE t # n /\ Ahead(d, t, n)
    <3>1. n \in W
      BY <1>2, <1>6, <2>2, AheadOrders
    <3>2. QED  BY <1>1, <1>5, <1>6, <1>7, <2>2, <3>1, PushTurn
  <2>3. CASE t # n /\ ~Ahead(d, t, n)
    <3>1. n \notin W
      BY <1>2, <1>6, <2>3, AheadOrders
    <3>2. QED  BY <1>1, <1>5, <1>6, <1>7, <2>3, <3>1, PassTurn
  <2>4. QED  BY <2>1, <2>2, <2>3
<1> HIDE DEF m, s
<1>9. /\ call'.op = call.op /\ call'.loop = "search" /\ call'.d = d /\ call'.node = m
      /\ call'.target = t
      /\ call' = [op |-> call'.op, loop |-> "search", d |-> call'.d, node |-> call'.node,
                  target |-> call'.target]
  <2>1. call' = [op |-> call.op, loop |-> "search", d |-> d, node |-> m, target |-> t]
    BY <1>2, <1>3
  <2>2. QED  BY <2>1
<1>10. Sought' = W
  BY <1>2, <1>9 DEF Sought, Ahead, Nodes
<1>11. LoopInv'
  <2> HIDE DEF W
  <2>1. QED  BY <1>2, <1>3, <1>8, <1>9, <1>10, LoopNext
<1>12. Prefixed(prefix)' = Prefixed(prefix) /\ Nodes' = Nodes
  BY <1>2 DEF Prefixed, Nodes
<1>13. Steps(call.op, call.d) => Steps(call.op, call.d)'
  BY <1>2, <1>9, <1>12 DEF Steps
<1>14. /\ call'.target \in Nat
       /\ \/ call'.op = "first" /\ call'.d = "forward" /\ prefix' = "U" /\ call'.target = prefix_("U")
          \/ call'.op = "last" /\ call'.d = "forward" /\ prefix' = "U" /\ call'.target = past("U")
          \/ call'.op = "seek" /\ call'.d = "forward" /\ call'.target \in Prefixed(prefix)'
          \/ Steps(call.op, call.d)' /\ call'.target = at'
  BY <1>1, <1>2, <1>9, <1>12, <1>13 DEF Searching
<1>15. QED  BY <1>9, <1>11, <1>14 DEF Searching

\* A turn of the loop down one side.
LEMMA SpineTurnInv ==
    ASSUME IterInv, SpineTurn
    PROVE  Sinking'
<1>1. SearchTree /\ Sinking
  BY DEF IterInv, SpineTurn, Resting, NoCall, Searching
<1> DEFINE d == call.d
           n == call.node
           W == Sought
           m == Near(d, n)
<1>2. /\ n # Nil /\ call.loop = "spine"
      /\ call = [op |-> call.op, loop |-> "spine", d |-> d, node |-> n]
      /\ UNCHANGED <<tree, root, prefix, dir, at>>
  BY <1>1 DEF SpineTurn, Sinking
<1>3. call' = [call EXCEPT !.node = m] /\ stack' = <<n>> \o stack
  BY DEF SpineTurn
<1>4. Descending(d, n, stack) /\ Covers(d, W, n, stack)
  BY <1>1 DEF Sinking, LoopInv
<1>5. n \in Nodes
  BY <1>2, <1>4 DEF Descending
<1>6. /\ Nodes \in SUBSET Nat /\ n \in Sub(n) /\ Sub(n) \subseteq Nodes
      /\ Sub(m) = {k \in Sub(n) : Ahead(d, k, n)}
  BY <1>1, <1>5, Children
<1>7. n \in W /\ Sub(m) \subseteq W
  BY <1>1, <1>6 DEF Sinking
<1>8. Onward(d, W)
  <2>1. CASE call.op = "last"
    BY <1>2, <2>1 DEF Sought, Onward
  <2>2. CASE call.op # "last"
    <3>1. W = {k \in Nodes : Ahead(d, at, k)}
      BY <1>2, <2>2 DEF Sought
    <3>2. at \in Nat
      BY <1>1, <1>6, <2>2 DEF Sinking, Steps
    <3>3. QED  BY <1>6, <3>1, <3>2, AheadOrders DEF Onward
  <2>3. QED  BY <2>1, <2>2
<1>9. Descending(d, m, <<n>> \o stack) /\ Covers(d, W, m, <<n>> \o stack)
  BY <1>1, <1>4, <1>5, <1>7, <1>8, PushTurn
<1> HIDE DEF m
<1>10. /\ call'.op = call.op /\ call'.loop = "spine" /\ call'.d = d /\ call'.node = m
       /\ call' = [op |-> call'.op, loop |-> "spine", d |-> call'.d, node |-> call'.node]
  <2>1. call' = [op |-> call.op, loop |-> "spine", d |-> d, node |-> m]
    BY <1>2, <1>3
  <2>2. QED  BY <2>1
<1>11. Sought' = W
  BY <1>2, <1>10 DEF Sought, Ahead, Nodes
<1>12. LoopInv'
  BY <1>2, <1>3, <1>9, <1>10, <1>11, LoopNext
<1>13. Sub(call.node)' \subseteq Sought'
  <2>1. Sub(call.node)' = Sub(m)
    BY <1>2, <1>10 DEF Sub
  <2>2. QED  BY <1>7, <1>11, <2>1
<1>14. Steps(call.op, call.d) => Steps(call.op, call.d)'
  BY <1>2, <1>10 DEF Steps, Prefixed, Nodes
<1>15. QED  BY <1>1, <1>2, <1>10, <1>12, <1>13, <1>14 DEF Sinking

\* A call returns with the stack for its direction.
LEMMA ReturnInv ==
    ASSUME NEW d, Holding(d, stack), Return, dir' = d, UNCHANGED <<tree, root, prefix>>
    PROVE  Resting'
<1>1. call' = NoCall /\ stack' = stack /\ at' = IF Valid THEN key ELSE Nil
  BY DEF Return
<1>2. Holding(dir, stack)'
  BY <1>1 DEF Holding, Ahead, Sub, Far, Nodes
<1>3. Valid' = Valid /\ key' = key
  BY <1>1 DEF Valid, key, Prefixed
<1>4. NoCall' = NoCall /\ Nil' = Nil
  BY DEF NoCall, Nil
<1>5. QED  BY <1>1, <1>2, <1>3, <1>4 DEF Resting

\* A search for a key of the tree ends with this key on top of the stack.
LEMMA TargetFound ==
    ASSUME SearchTree, Searching, call.node = Nil, call.target \in Nodes
    PROVE  stack # <<>> /\ key = call.target /\ Holding(call.d, stack)
<1> DEFINE W == {k \in Nodes : ~Ahead(call.d, k, call.target)}
<1>1. Nodes \in SUBSET Nat
  BY Children
<1>2. call.loop = "search"
  BY DEF Searching
<1>3. Sought = W
  BY <1>2 DEF Sought
<1>4. Descending(call.d, Nil, stack) /\ Covers(call.d, W, Nil, stack)
  BY <1>3 DEF Searching, LoopInv
<1>5. call.target \in W
  BY <1>1, AheadOrders
<1>6. stack # <<>> /\ Head(stack) \in W /\ ~Ahead(call.d, call.target, Head(stack))
  BY <1>4, <1>5, Nearest
<1>7. Head(stack) = call.target
  BY <1>1, <1>6, AheadOrders
<1>8. QED  BY <1>4, <1>6, <1>7 DEF key, Descending

\* No key of the tree is past those of the users.
LEMMA NothingPast ==
    ASSUME SearchTree, Searching, call.node = Nil, call.op = "last"
    PROVE  stack = <<>>
<1> DEFINE W == {k \in Nodes : ~Ahead(call.d, k, call.target)}
<1>1. call.loop = "search" /\ call.d = "forward" /\ call.target = past("U")
  BY DEF Searching, Steps
<1>2. Sought = W
  BY <1>1 DEF Sought
<1>3. Descending(call.d, Nil, stack) /\ Covers(call.d, W, Nil, stack)
  BY <1>2 DEF Searching, LoopInv
<1>4. W = {}
  <2>1. \A k \in Nodes : k < past("U")
    BY PrefixBounds DEF SearchTree
  <2>2. QED  BY <1>1, <2>1 DEF Ahead
<1>5. QED  BY <1>3, <1>4, Nearest

\* The end of the loop to a target.
LEMMA SearchEndsInv ==
    ASSUME IterInv, SearchEnds
    PROVE  Resting' \/ Sinking'
<1>1. SearchTree /\ Searching
  BY DEF IterInv, SearchEnds, Resting, NoCall, Sinking
<1>2. call.node = Nil /\ dir' = call.d /\ UNCHANGED <<tree, root, prefix>>
  BY DEF SearchEnds
<1>3. CASE call.op \in {"first", "seek"}
  <2>1. call.op # "next" /\ call.op # "prev" /\ call.op # "last" /\ call.d = "forward"
    BY <1>1, <1>3 DEF Searching, Steps
  <2>2. Return
    BY <2>1 DEF SearchEnds
  <2>3. Holding(call.d, stack)
    BY <1>1 DEF Searching, LoopInv, Descending
  <2>4. QED  BY <1>2, <2>2, <2>3, ReturnInv
<1>4. CASE call.op \in {"next", "prev"}
  <2>1. call.op # "first" /\ call.op # "seek" /\ call.op # "last"
    BY <1>4
  <2>2. Step(call.op, call.d) /\ at' = at
    BY <2>1 DEF SearchEnds
  <2>3. Steps(call.op, call.d) /\ call.target = at
    BY <1>1, <2>1 DEF Searching
  <2>4. stack # <<>> /\ key = at /\ Holding(call.d, stack)
    BY <1>1, <1>2, <2>3, TargetFound DEF Steps
  <2>5. QED  BY <1>1, <1>2, <2>2, <2>3, <2>4, BeginSpine
<1>5. CASE call.op = "last"
  <2>1. stack = <<>> /\ call.d = "forward" /\ prefix = "U"
    BY <1>1, <1>2, <1>5, NothingPast DEF Searching, Steps
  <2>2. Spine("last", "reverse", root, <<>>) /\ at' = at
    BY <1>5, <2>1 DEF SearchEnds, Valid
  <2>3. /\ call' = [op |-> "last", loop |-> "spine", d |-> "reverse", node |-> root]
        /\ stack' = <<>>
    BY <2>2 DEF Spine
  <2>4. /\ call'.op = "last" /\ call'.loop = "spine" /\ call'.d = "reverse" /\ call'.node = root
        /\ call' = [op |-> call'.op, loop |-> "spine", d |-> call'.d, node |-> call'.node]
    BY <2>3
  <2>5. Sought' = Nodes
    BY <1>2, <2>4 DEF Sought, Nodes
  <2>6. Descending("reverse", root, <<>>) /\ Covers("reverse", Nodes, root, <<>>)
    BY <1>1, Start
  <2>7. LoopInv'
    BY <1>2, <2>3, <2>4, <2>5, <2>6, LoopNext
  <2>8. Sub(call.node)' \subseteq Sought'
    <3>1. Sub(call.node)' = Sub(root)
      BY <1>2, <2>4 DEF Sub
    <3>2. QED  BY <1>1, <2>5, <3>1 DEF SearchTree
  <2>9. QED  BY <1>2, <2>1, <2>4, <2>7, <2>8 DEF Sinking
<1>6. call.op \in {"first", "seek", "next", "prev", "last"}
  BY <1>1 DEF Searching, Steps
<1>7. QED  BY <1>3, <1>4, <1>5, <1>6

\* The end of the loop down one side.
LEMMA SpineEndsInv ==
    ASSUME IterInv, SpineEnds
    PROVE  Resting'
<1>1. Sinking
  BY DEF IterInv, SpineEnds, Resting, NoCall, Searching
<1>2. Holding(call.d, stack)
  BY <1>1 DEF Sinking, LoopInv, Descending
<1>3. QED  BY <1>2, ReturnInv DEF SpineEnds

\* Next and Prev begin.
LEMMA MoveInv ==
    ASSUME IterInv, NEW op, NEW d, Move(op, d), UNCHANGED <<tree, root, prefix, dir, at>>,
           Valid, call.op = "none",
           \/ op = "next" /\ d = "forward"
           \/ op = "prev" /\ d = "reverse" /\ prefix = "U"
    PROVE  Searching' \/ Sinking'
<1>1. SearchTree /\ Resting
  <2>1. ~Searching /\ ~Sinking
    BY DEF Searching, Sinking, Steps
  <2>2. QED  BY <2>1 DEF IterInv
<1>2. stack # <<>> /\ Holding(dir, stack) /\ at = key /\ key \in Prefixed(prefix)
  BY <1>1 DEF Resting, Valid
<1>3. key \in Nodes /\ key \in Nat
  <2>1. stack \in Seq(Nodes) /\ Nodes \in SUBSET Nat
    BY <1>1, <1>2, Children DEF Holding, SearchTree
  <2>2. Head(stack) \in Nodes
    BY <1>2, <2>1, TailFacts
  <2>3. QED  BY <2>1, <2>2 DEF key
<1>4. Steps(op, d)
  BY <1>2, <1>3 DEF Steps
<1>5. CASE dir = d
  BY <1>1, <1>2, <1>4, <1>5, BeginSpine DEF Move
<1>6. CASE dir # d
  <2>1. PICK t \in Nat : t = key
    BY <1>3
  <2>2. Search(op, d, t)
    BY <1>6, <2>1 DEF Move, Search
  <2>3. QED  BY <1>1, <1>2, <1>4, <2>1, <2>2, BeginSearch
<1>7. QED  BY <1>5, <1>6

\* Every step keeps the invariant.
LEMMA NextIter == IterInv /\ [Next]_vars => IterInv'
<1> SUFFICES ASSUME IterInv, [Next]_vars PROVE IterInv'
  OBVIOUS
<1>1. CASE UNCHANGED vars
  <2>1. UNCHANGED <<tree, root, prefix, stack, dir, call, at>>
    BY <1>1 DEF vars
  <2>2. Resting => Resting'
    BY <2>1 DEF Resting, Holding, Valid, key, Prefixed, Ahead, Sub, Far, Nodes
  <2>3. LoopInv => LoopInv' /\ (Sub(call.node) \subseteq Sought => Sub(call.node)' \subseteq Sought')
    BY <2>1 DEF LoopInv, Descending, Covers, Holding, Sought, Ahead, Sub, Far, Nodes
  <2>4. Searching => Searching'
    BY <2>1, <2>3 DEF Searching, Steps, Prefixed, Nodes
  <2>5. Sinking => Sinking'
    BY <2>1, <2>3 DEF Sinking, Steps, Prefixed, Nodes
  <2>6. QED  BY <2>1, <2>2, <2>4, <2>5, TreeNext DEF IterInv
<1>2. CASE Next
  <2>1. UNCHANGED <<tree, root, prefix>>
    BY <1>2 DEF Next, SeekToFirst, SeekToLast, Seek, NextEntry, PrevEntry, SearchTurn, SearchEnds,
                SpineTurn, SpineEnds
  <2>2. SearchTree /\ SearchTree' /\ prefix' \in {"C", "U"}
    BY <2>1, TreeNext DEF IterInv
  <2>3. CASE SeekToFirst
    <3>1. Search("first", "forward", prefix_("U")) /\ prefix = "U" /\ at' = at
      BY <2>3 DEF SeekToFirst
    <3>2. QED  BY <2>1, <2>2, <3>1, BeginSearch, PrefixBounds DEF IterInv
  <2>4. CASE SeekToLast
    <3>1. Search("last", "forward", past("U")) /\ prefix = "U" /\ at' = at
      BY <2>4 DEF SeekToLast
    <3>2. QED  BY <2>1, <2>2, <3>1, BeginSearch, PrefixBounds DEF IterInv
  <2>5. CASE \E t \in Prefixed(prefix) : Seek(t)
    <3>1. PICK t \in Prefixed(prefix) : Seek(t)
      BY <2>5
    <3>2. t \in Nat
      BY IteratorAssumption DEF Prefixed
    <3>3. Search("seek", "forward", t) /\ at' = at
      BY <3>1 DEF Seek
    <3>4. QED  BY <2>1, <2>2, <3>2, <3>3, BeginSearch DEF IterInv
  <2>6. CASE NextEntry
    <3>1. Searching' \/ Sinking'
      BY <2>6, MoveInv DEF NextEntry
    <3>2. QED  BY <2>2, <3>1 DEF IterInv
  <2>7. CASE PrevEntry
    <3>1. Searching' \/ Sinking'
      BY <2>7, MoveInv DEF PrevEntry
    <3>2. QED  BY <2>2, <3>1 DEF IterInv
  <2>8. CASE SearchTurn
    BY <2>2, <2>8, SearchTurnInv DEF IterInv
  <2>9. CASE SearchEnds
    BY <2>2, <2>9, SearchEndsInv DEF IterInv
  <2>10. CASE SpineTurn
    BY <2>2, <2>10, SpineTurnInv DEF IterInv
  <2>11. CASE SpineEnds
    BY <2>2, <2>11, SpineEndsInv DEF IterInv
  <2>12. QED  BY <1>2, <2>3, <2>4, <2>5, <2>6, <2>7, <2>8, <2>9, <2>10, <2>11 DEF Next
<1>3. QED  BY <1>1, <1>2

-----------------------------------------------------------------------------
(* The theorems. *)

\* The stack of an iterator at rest is the path from the current node to the root,
\* without the nodes that were visited already.
LEMMA HoldingUnvisited ==
    ASSUME SearchTree, NEW d, NEW s, Holding(d, s), s # <<>>
    PROVE  {s[i] : i \in DOMAIN s} = {n \in Nodes : Head(s) \in Sub(n) /\ ~Ahead(d, n, Head(s))}
<1>1. s \in Seq(Nodes) /\ Nodes \in SUBSET Nat
  BY Children DEF Holding, SearchTree
<1>2. PICK len \in Nat : DOMAIN s = 1..len
  BY <1>1
<1>3. /\ Head(s) = s[1] /\ s[1] \in Nodes /\ 1 \in DOMAIN s
      /\ \A j \in DOMAIN s : j \in Nat /\ (j = 1 \/ 1 < j) /\ s[j] \in Nodes /\ s[j] \in Nat
  <2>1. Head(s) = s[1] /\ s[1] \in Nodes /\ 1 \in DOMAIN s /\ \A j \in DOMAIN s : s[j] \in Nodes
    BY <1>1, TailFacts
  <2>2. \A j \in DOMAIN s : j \in Nat /\ (j = 1 \/ 1 < j)
    BY <1>2
  <2>3. \A j \in DOMAIN s : s[j] \in Nat
    BY <1>1, <2>1
  <2>4. QED  BY <2>1, <2>2, <2>3
<1>4. /\ \A i, j \in DOMAIN s : i < j => Ahead(d, s[i], s[j]) /\ s[i] \in Sub(s[j])
      /\ \A i \in DOMAIN s : \A k \in Nodes :
            (Ahead(d, s[i], k) /\ \A j \in DOMAIN s : i < j => Ahead(d, k, s[j]))
               => k \in Sub(Far(d, s[i]))
  BY DEF Holding
<1>5. ASSUME NEW i \in DOMAIN s
      PROVE  s[1] \in Sub(s[i]) /\ ~Ahead(d, s[i], s[1])
  <2>1. CASE i = 1
    BY <1>3, <2>1, Children, AheadOrders
  <2>2. CASE 1 < i
    <3>1. Ahead(d, s[1], s[i]) /\ s[1] \in Sub(s[i])
      BY <1>3, <1>4, <2>2
    <3>2. QED  BY <1>3, <3>1, AheadOrders
  <2>3. QED  BY <1>3, <2>1, <2>2
<1>6. ASSUME NEW n \in Nodes, s[1] \in Sub(n), ~Ahead(d, n, s[1])
      PROVE  \E i \in DOMAIN s : s[i] = n
  <2> DEFINE I == {i \in DOMAIN s : ~Ahead(d, n, s[i])}
  <2>1. I \in SUBSET (0..len) /\ 1 \in I
    BY <1>2, <1>3, <1>6
  <2>2. PICK i : i = Max(I)
    OBVIOUS
  <2>3. i \in I /\ \A j \in I : j <= i
    BY <2>1, <2>2, MaxOfBounded
  <2>4. i \in DOMAIN s /\ ~Ahead(d, n, s[i]) /\ \A j \in DOMAIN s : i < j => Ahead(d, n, s[j])
    BY <1>3, <2>3
  <2>5. SUFFICES ASSUME s[i] # n PROVE FALSE
    BY <2>4
  <2>6. Ahead(d, s[i], n)
    BY <1>1, <1>3, <2>4, <2>5, AheadOrders
  <2>7. n \in Sub(Far(d, s[i]))
    BY <1>4, <2>4, <2>6
  <2>8. /\ Far(d, s[i]) \in Nodes \cup {Nil}
        /\ Sub(Far(d, s[i])) = {k \in Sub(s[i]) : Ahead(d, s[i], k)}
    BY <1>3, <2>4, Children
  <2>9. Far(d, s[i]) \in Nodes
    BY <2>7, <2>8 DEF Sub
  <2>10. Sub(n) \subseteq Sub(Far(d, s[i]))
    BY <2>7, <2>9, Children
  <2>11. Ahead(d, s[i], s[1])
    BY <1>6, <2>8, <2>10
  <2>12. QED  BY <1>5, <2>4, <2>11
<1>7. QED  BY <1>3, <1>5, <1>6

\* The stack of an iterator holds the current node and its unvisited parents
\* (the comment on stack_ in iterator_impl.h), all of them and in order.
THEOREM StackIsPath == Spec => []StackHoldsUnvisited
<1>1. Init => IterInv
  BY InitIter
<1>2. IterInv /\ [Next]_vars => IterInv'
  BY NextIter
<1>3. IterInv => StackHoldsUnvisited
  <2> SUFFICES ASSUME IterInv, call.op = "none", stack # <<>>
               PROVE  /\ \A i, j \in DOMAIN stack : i < j => Ahead(dir, stack[i], stack[j])
                      /\ {stack[i] : i \in DOMAIN stack}
                           = {n \in Nodes : key \in tree[n].under /\ ~Ahead(dir, n, key)}
    BY DEF StackHoldsUnvisited
  <2>1. SearchTree /\ Resting
    <3>1. ~Searching /\ ~Sinking
      BY DEF Searching, Sinking, Steps
    <3>2. QED  BY <3>1 DEF IterInv
  <2>2. Holding(dir, stack)
    BY <2>1 DEF Resting
  <2>3. \A n \in Nodes : Sub(n) = tree[n].under
    BY <2>1, Children DEF Sub
  <2>4. {stack[i] : i \in DOMAIN stack} = {n \in Nodes : key \in Sub(n) /\ ~Ahead(dir, n, key)}
    BY <2>1, <2>2, HoldingUnvisited DEF key
  <2>5. \A i, j \in DOMAIN stack : i < j => Ahead(dir, stack[i], stack[j])
    BY <2>2 DEF Holding
  <2>6. QED  BY <2>3, <2>4, <2>5
<1>4. QED  BY <1>1, <1>2, <1>3, PTL DEF Spec

\* What a call leaves the iterator at, for what it looked for: the nearest key of the
\* prefix, if the keys without the prefix are all farther than those with it.
LEMMA Landing ==
    ASSUME SearchTree, NEW d, NEW s, NEW W \in SUBSET Nodes, NEW P,
           Descending(d, Nil, s), Covers(d, W, Nil, s),
           \A h \in W, k \in W \cap P : h \in P \/ Ahead(d, k, h),
           NEW r, r = IF s # <<>> /\ Head(s) \in P THEN Head(s) ELSE Nil
    PROVE  /\ W \cap P = {} => r = Nil
           /\ W \cap P # {} => r \in W \cap P /\ \A k \in W \cap P : ~Ahead(d, k, r)
<1>1. /\ s = <<>> => W = {}
      /\ s # <<>> => Head(s) \in W /\ \A k \in W : ~Ahead(d, k, Head(s))
  BY Nearest
<1>2. CASE W \cap P = {}
  BY <1>1, <1>2
<1>3. CASE W \cap P # {}
  <2>1. PICK k \in W \cap P : TRUE
    BY <1>3
  <2>2. s # <<>> /\ Head(s) \in W /\ \A m \in W : ~Ahead(d, m, Head(s))
    BY <1>1, <2>1
  <2>3. Head(s) \in P
    BY <2>1, <2>2
  <2>4. QED  BY <1>3, <2>2, <2>3
<1>4. QED  BY <1>2, <1>3

\* The nearest of a set of keys is what the cursor calls its smallest or largest.
LEMMA NearestIs ==
    ASSUME NEW S \in SUBSET Nat, NEW d, NEW r,
           S = {} => r = Nil,
           S # {} => r \in S /\ \A k \in S : ~Ahead(d, k, r)
    PROVE  /\ d = "forward" => r = Abstract!Smallest(S)
           /\ d = "reverse" => r = Abstract!Largest(S)
<1>1. CASE S = {}
  BY <1>1 DEF Abstract!Smallest, Abstract!Largest
<1>2. CASE S # {} /\ d = "forward"
  <2>0. r \in S /\ r \in Nat /\ \A k \in S : k \in Nat /\ ~(k < r)
    BY <1>2 DEF Ahead
  <2>1. r \in S /\ \A k \in S : r <= k
    BY <2>0
  <2>2. Min(S) \in S /\ \A k \in S : Min(S) <= k
    BY <1>2, MinOfNats
  <2>3. r = Min(S)
    <3>1. PICK m : m = Min(S)
      OBVIOUS
    <3>2. m \in Nat /\ r <= m /\ m <= r
      BY <2>0, <2>1, <2>2, <3>1
    <3>3. QED  BY <2>0, <3>1, <3>2
  <2>4. Abstract!Min(S) = Min(S)
    BY DEF Abstract!Min, Min
  <2>5. QED  BY <1>2, <2>3, <2>4 DEF Abstract!Smallest
<1>3. CASE S # {} /\ d = "reverse"
  <2>0. r \in S /\ r \in Nat /\ \A k \in S : k \in Nat /\ ~(r < k)
    BY <1>3 DEF Ahead
  <2>1. r \in S /\ r \in Nat /\ \A k \in S : k <= r
    BY <2>0
  <2>2. S \in SUBSET (0..r)
    BY <2>1
  <2>3. Max(S) \in S /\ \A k \in S : k <= Max(S)
    BY <1>3, <2>1, <2>2, MaxOfBounded
  <2>4. r = Max(S)
    <3>1. PICK m : m = Max(S)
      OBVIOUS
    <3>2. m \in Nat /\ r <= m /\ m <= r
      BY <2>0, <2>1, <2>3, <3>1
    <3>3. QED  BY <2>0, <3>1, <3>2
  <2>5. Abstract!Max(S) = Max(S)
    BY DEF Abstract!Max, Max
  <2>6. QED  BY <1>3, <2>4, <2>5 DEF Abstract!Largest
<1>4. QED  BY <1>1, <1>2, <1>3

\* The users' keys are after those of the catalog.
LEMMA PrefixOrder ==
    ASSUME SearchTree, prefix \in {"C", "U"}, NEW d, NEW h \in Nodes, NEW k \in Nodes,
           h \notin Prefixed(prefix), k \in Prefixed(prefix)
    PROVE  \/ prefix = "C" /\ k < h
           \/ prefix = "U" /\ h < k /\ h \in Catalog
<1>1. \A c \in Catalog, u \in User : c < u
  BY IteratorAssumption
<1>2. QED  BY <1>1 DEF SearchTree, Prefixed

\* Seek and SeekToFirst return the first key of the prefix that is not before the target.
LEMMA SeekLands ==
    ASSUME IterInv, SearchEnds, call.op \in {"first", "seek"}
    PROVE  \/ Abstract!SeekToFirst
           \/ \E t \in Catalog \cup User : Abstract!Seek(t)
<1> DEFINE t == call.target
           P == Prefixed(prefix)
           W == {k \in Nodes : ~Ahead("forward", k, t)}
<1>1. SearchTree /\ Searching /\ prefix \in {"C", "U"}
  BY DEF IterInv, SearchEnds, Resting, NoCall, Sinking
<1>2. /\ call.d = "forward" /\ call.loop = "search" /\ call.node = Nil /\ t \in Nat
      /\ \/ call.op = "first" /\ prefix = "U" /\ t = prefix_("U")
         \/ call.op = "seek" /\ t \in P
  BY <1>1 DEF Searching, SearchEnds, Steps
<1>3. at' = IF stack # <<>> /\ Head(stack) \in P THEN Head(stack) ELSE Nil
  BY <1>2 DEF SearchEnds, Return, Valid, key
<1>4. Descending("forward", Nil, stack) /\ Covers("forward", W, Nil, stack)
  BY <1>1, <1>2 DEF Searching, LoopInv, Sought
<1>5. Nodes \in SUBSET Nat /\ \A k \in Nodes : k \in W <=> t <= k
  <2>1. Nodes \in SUBSET Nat
    BY <1>1, Children DEF SearchTree
  <2>2. QED  BY <1>2, <2>1 DEF Ahead
<1> HIDE DEF W
<1>6. ASSUME NEW h \in W, NEW k \in W \cap P, h \notin P
      PROVE  Ahead("forward", k, h)
  <2>1. h \in Nodes /\ k \in Nodes /\ h \in Nat /\ k \in Nat /\ t <= h
    BY <1>5 DEF W
  <2>2. CASE prefix = "C"
    BY <1>1, <1>6, <2>1, <2>2, PrefixOrder DEF Ahead
  <2>3. CASE prefix = "U"
    <3>1. h \in Catalog
      BY <1>1, <1>6, <2>1, <2>3, PrefixOrder
    <3>2. P = User
      BY <2>3 DEF Prefixed
    <3>3. h < t
      <4>1. \A u \in User : u \in Nat /\ h < u
        BY <3>1, IteratorAssumption
      <4>2. h < prefix_("U")
        BY <3>1, PrefixBounds
      <4>3. QED  BY <1>2, <3>2, <4>1, <4>2
    <3>4. QED  BY <1>2, <2>1, <3>3
  <2>4. QED  BY <1>1, <2>2, <2>3
<1>7. PICK r : r = at'
  OBVIOUS
<1>8. W \in SUBSET Nodes
  BY DEF W
<1>9. /\ W \cap P = {} => r = Nil
      /\ W \cap P # {} => r \in W \cap P /\ \A k \in W \cap P : ~Ahead("forward", k, r)
  BY <1>1, <1>3, <1>4, <1>6, <1>7, <1>8, Landing
<1>10. r = Abstract!Smallest(W \cap P)
  <2>1. PICK S : S = W \cap P
    OBVIOUS
  <2>2. S \in SUBSET Nat
    BY <1>5, <1>8, <2>1
  <2>3. QED  BY <1>9, <2>1, <2>2, NearestIs
<1>11. CASE call.op = "first"
  <2>1. W \cap P = Nodes \cap P
    <3>1. prefix = "U" /\ P = User /\ t = prefix_("U")
      BY <1>2, <1>11 DEF Prefixed
    <3>2. \A u \in User : u \in Nat /\ t < u
      BY <3>1, PrefixBounds, IteratorAssumption
    <3>3. QED  BY <1>2, <1>5, <1>8, <3>1, <3>2
  <2>2. QED  BY <1>7, <1>10, <2>1 DEF Abstract!SeekToFirst
<1>12. CASE call.op = "seek"
  <2>1. W \cap P = {k \in Nodes \cap P : k >= t}
    BY <1>2, <1>5, <1>8
  <2>2. t \in Catalog \cup User
    BY <1>2, <1>12 DEF Prefixed
  <2>3. at' = Abstract!Smallest({k \in Nodes \cap P : k >= t})
    BY <1>7, <1>10, <2>1
  <2>4. Abstract!Seek(t)
    BY <2>3 DEF Abstract!Seek
  <2>5. QED  BY <2>2, <2>4
<1>13. QED  BY <1>11, <1>12

\* The loop down one side returns the next key of the prefix, or the last one.
LEMMA SpineLands ==
    ASSUME IterInv, SpineEnds
    PROVE  Abstract!SeekToLast \/ Abstract!Next \/ Abstract!Prev
<1> DEFINE d == call.d
           P == Prefixed(prefix)
           W == Sought
<1>1. SearchTree /\ Sinking /\ prefix \in {"C", "U"}
  BY DEF IterInv, SpineEnds, Resting, NoCall, Searching
<1>2. /\ call.loop = "spine" /\ call.node = Nil
      /\ \/ call.op = "last" /\ d = "reverse" /\ prefix = "U" /\ W = Nodes
         \/ call.op # "last" /\ Steps(call.op, d) /\ W = {k \in Nodes : Ahead(d, at, k)}
  BY <1>1 DEF Sinking, SpineEnds, Sought, Steps
<1>3. at' = IF stack # <<>> /\ Head(stack) \in P THEN Head(stack) ELSE Nil
  BY DEF SpineEnds, Return, Valid, key
<1>4. Descending(d, Nil, stack) /\ Covers(d, W, Nil, stack)
  BY <1>1, <1>2 DEF Sinking, LoopInv
<1>5. Nodes \in SUBSET Nat /\ W \in SUBSET Nodes
  BY <1>1, <1>2, Children DEF SearchTree
<1> HIDE DEF W
<1>6. ASSUME NEW h \in W, NEW k \in W \cap P, h \notin P
      PROVE  Ahead(d, k, h)
  <2>1. h \in Nodes /\ k \in Nodes /\ h \in Nat /\ k \in Nat
    BY <1>5
  <2>2. CASE d = "reverse"
    <3>1. prefix = "U"
      BY <1>2, <2>2 DEF Steps
    <3>2. QED  BY <1>1, <1>6, <2>1, <2>2, <3>1, PrefixOrder DEF Ahead
  <2>3. CASE d = "forward"
    <3>1. at \in Nodes /\ at \in P /\ at \in Nat /\ Ahead(d, at, h)
      BY <1>2, <1>5, <2>3 DEF Steps
    <3>2. at < h
      BY <2>3, <3>1 DEF Ahead
    <3>3. prefix = "C"
      BY <1>1, <1>6, <2>1, <3>1, <3>2, PrefixOrder
    <3>4. QED  BY <1>1, <1>6, <2>1, <2>3, <3>3, PrefixOrder DEF Ahead
  <2>4. d = "forward" \/ d = "reverse"
    BY <1>2 DEF Steps
  <2>5. QED  BY <2>2, <2>3, <2>4
<1>7. PICK r : r = at'
  OBVIOUS
<1>8. /\ W \cap P = {} => r = Nil
      /\ W \cap P # {} => r \in W \cap P /\ \A k \in W \cap P : ~Ahead(d, k, r)
  BY <1>1, <1>3, <1>4, <1>5, <1>6, <1>7, Landing
<1>9. /\ d = "forward" => r = Abstract!Smallest(W \cap P)
      /\ d = "reverse" => r = Abstract!Largest(W \cap P)
  <2>1. PICK S : S = W \cap P
    OBVIOUS
  <2>2. S \in SUBSET Nat
    BY <1>5, <2>1
  <2>3. QED  BY <1>8, <2>1, <2>2, NearestIs
<1>10. CASE call.op = "last"
  <2>1. W \cap P = Nodes \cap P /\ d = "reverse"
    BY <1>2, <1>10 DEF Steps
  <2>2. QED  BY <1>7, <1>9, <2>1 DEF Abstract!SeekToLast
<1>11. CASE call.op # "last"
  <2>1. /\ at \in Nodes /\ at \in Nat /\ at # Nil
        /\ d = "forward" \/ d = "reverse"
        /\ W = {k \in Nodes : Ahead(d, at, k)}
    BY <1>1, <1>2, <1>5, <1>11, Children DEF Steps
  <2>2. CASE d = "forward"
    <3>1. W \cap P = {k \in Nodes \cap P : k > at}
      BY <1>5, <2>1, <2>2 DEF Ahead
    <3>2. at' = Abstract!Smallest({k \in Nodes \cap P : k > at})
      BY <1>7, <1>9, <2>2, <3>1
    <3>3. QED  BY <2>1, <3>2 DEF Abstract!Next
  <2>3. CASE d = "reverse"
    <3>1. W \cap P = {k \in Nodes \cap P : k < at}
      BY <1>5, <2>1, <2>3 DEF Ahead
    <3>2. at' = Abstract!Largest({k \in Nodes \cap P : k < at})
      BY <1>7, <1>9, <2>3, <3>1
    <3>3. QED  BY <2>1, <3>2 DEF Abstract!Prev
  <2>4. QED  BY <2>1, <2>2, <2>3
<1>12. QED  BY <1>10, <1>11

\* The iterators implement the interface of include/cruzdb/iterator.h: each call takes
\* them to the key of their prefix that it promises, whatever calls came before.
THEOREM IteratorIsCursor == Spec => IsCursor
<1>1. Init => IterInv
  BY InitIter
<1>2. IterInv /\ [Next]_vars => IterInv'
  BY NextIter
<1>3. Init => Abstract!Init
  <2> SUFFICES ASSUME Init PROVE Abstract!Init
    OBVIOUS
  <2>1. SearchTree
    BY InitTree
  <2>2. Nodes \cap Prefixed(prefix) \subseteq Catalog \cup User /\ at = Nil
    BY <2>1 DEF SearchTree, Init
  <2>3. QED  BY <2>2 DEF Abstract!Init
<1>4. ASSUME IterInv, [Next]_vars
      PROVE  [UNCHANGED (Nodes \cap Prefixed(prefix)) /\ Abstract!Moves]_(Abstract!vars)
  <2>1. CASE UNCHANGED vars \/ SearchTurn \/ SpineTurn \/ SeekToFirst \/ SeekToLast \/ NextEntry
             \/ PrevEntry \/ \E t \in Prefixed(prefix) : Seek(t)
    <3>1. UNCHANGED <<tree, prefix, at>>
      BY <2>1 DEF vars, SearchTurn, SpineTurn, SeekToFirst, SeekToLast, NextEntry, PrevEntry, Seek
    <3>2. UNCHANGED Abstract!vars
      BY <3>1 DEF Abstract!vars, Nodes, Prefixed
    <3>3. QED  BY <3>2
  <2>2. CASE SearchEnds \/ SpineEnds
    <3>1. UNCHANGED (Nodes \cap Prefixed(prefix))
      BY <2>2 DEF SearchEnds, SpineEnds, Nodes, Prefixed
    <3>2. CASE SpineEnds
      BY <1>4, <3>1, <3>2, SpineLands DEF Abstract!Moves
    <3>3. CASE SearchEnds /\ call.op \in {"first", "seek"}
      BY <1>4, <3>1, <3>3, SeekLands DEF Abstract!Moves
    <3>4. CASE SearchEnds /\ call.op \notin {"first", "seek"}
      <4>1. UNCHANGED at
        BY <3>4 DEF SearchEnds
      <4>2. QED  BY <3>1, <4>1 DEF Abstract!vars
    <3>5. QED  BY <2>2, <3>2, <3>3, <3>4
  <2>3. QED  BY <1>4, <2>1, <2>2 DEF Next
<1>5. QED  BY <1>1, <1>2, <1>3, <1>4, PTL DEF Spec, IsCursor, Abstract!Spec
=============================================================================
