-------------------------- MODULE InputQueueProofs --------------------------
(***************************************************************************)
(* Theorems about the input queue, for any set of inputs, strings and      *)
(* nodes.  The invariant says which sequence of nodes each list is; that   *)
(* the walks along next pointers visit just these nodes, in this order,    *)
(* needs induction (SetInduction, RecursionExists).                        *)
(***************************************************************************)
EXTENDS InputQueue, Induction, FiniteSetTheorems, SequenceTheorems

Address == Nodes \cup {NULL}

(***************************************************************************)
(* Walking along a list.                                                   *)
(***************************************************************************)

\* A walk is well defined, and goes from each node to the next one.
LEMMA WalkSteps ==
  ASSUME TypeOK, NEW q \in Queues
  PROVE  /\ Walk(q) \in [Nat -> Address]
         /\ Walk(q)[0] = head[q]
         /\ \A k \in Nat : Walk(q)[k + 1] = IF Walk(q)[k] = NULL THEN NULL
                                            ELSE next[Walk(q)[k]]
<1> DEFINE step == [n \in Nat |-> [c \in Address |-> IF c = NULL THEN NULL ELSE next[c]]]
           Walks(f) == f = [k \in Nat |-> IF k = 0 THEN head[q]
                                          ELSE IF f[k - 1] = NULL THEN NULL
                                          ELSE next[f[k - 1]]]
<1>1. head[q] \in Address /\ step \in [Nat -> [Address -> Address]]
  BY DEF TypeOK, Address
<1>2. PICK f \in [Nat -> Address] :
         f[0] = head[q] /\ \A n \in Nat : f[n + 1] = step[n][f[n]]
  <2> DEFINE start == head[q]
  <2>1. start \in Address /\ step \in [Nat -> [Address -> Address]]
    BY <1>1
  <2> HIDE DEF step, start
  <2>2. \E f : Iterates(f, Address, start, step)
    BY <2>1, RecursionExists
  <2> QED BY <2>2 DEF start, Iterates
<1>3. \A n \in Nat : f[n + 1] = IF f[n] = NULL THEN NULL ELSE next[f[n]]
  BY <1>2
<1>4. Walks(f)
  <2>1. ASSUME NEW k \in Nat
        PROVE  f[k] = IF k = 0 THEN head[q]
                      ELSE IF f[k - 1] = NULL THEN NULL ELSE next[f[k - 1]]
    <3>1. CASE k = 0
      BY <1>2, <3>1
    <3>2. CASE k # 0
      <4>1. k - 1 \in Nat /\ (k - 1) + 1 = k
        BY <3>2
      <4> QED BY <1>3, <3>2, <4>1
    <3> QED BY <3>1, <3>2
  <2> QED BY <1>2, <2>1
<1>5. Walk(q) = CHOOSE c : Walks(c)
  BY DEF Walk
<1>6. Walks(Walk(q))
  <2> HIDE DEF Walks
  <2> QED BY <1>4, <1>5
<1> DEFINE w == Walk(q)
<1>7. /\ DOMAIN w = Nat /\ w[0] = head[q]
      /\ \A k \in Nat : w[k + 1] = IF w[k] = NULL THEN NULL ELSE next[w[k]]
  <2> HIDE DEF w
  <2>1. w = [k \in Nat |-> IF k = 0 THEN head[q]
                           ELSE IF w[k - 1] = NULL THEN NULL ELSE next[w[k - 1]]]
    BY <1>6 DEF w
  <2>2. ASSUME NEW k \in Nat
        PROVE  w[k + 1] = IF w[k] = NULL THEN NULL ELSE next[w[k]]
    <3>1. k + 1 \in Nat /\ k + 1 # 0 /\ (k + 1) - 1 = k
      OBVIOUS
    <3> QED BY <2>1, <3>1
  <2>3. DOMAIN w = Nat /\ w[0] = head[q]
    BY <2>1
  <2> QED BY <2>2, <2>3
<1>8. \A k \in Nat : w[k] \in Address
  <2> DEFINE T == {k \in Nat : w[k] \in Address}
  <2>1. 0 \in T
    BY <1>1, <1>7
  <2>2. \A k \in Nat : k \in T => k + 1 \in T
    BY <1>7 DEF TypeOK, Address
  <2>3. Nat \subseteq T
    <3> HIDE DEF T
    <3> QED BY <2>1, <2>2, SetInduction
  <2> QED BY <2>3
<1>9. w = [k \in Nat |-> w[k]]
  BY <1>6
<1> QED BY <1>7, <1>8, <1>9

\* A walk along a list that is laid out as s visits s, and ends behind it.
LEMMA WalkVisits ==
  ASSUME TypeOK, NEW q \in Queues, NEW s, LinkedAs(q, s)
  PROVE  \A k \in Nat : Walk(q)[k] = IF k < len[q] THEN s[k + 1] ELSE NULL
<1> DEFINE w == Walk(q)
           T == {k \in Nat : w[k] = IF k < len[q] THEN s[k + 1] ELSE NULL}
<1>1. /\ w[0] = head[q]
      /\ \A k \in Nat : w[k + 1] = IF w[k] = NULL THEN NULL ELSE next[w[k]]
  BY WalkSteps
<1>2. len[q] \in Nat /\ \A k \in 1 .. len[q] : s[k] \in Nodes /\ s[k] # NULL
  BY QueueAssumption DEF TypeOK, LinkedAs
<1> HIDE DEF w
<1>3. 0 \in T
  BY <1>1, <1>2 DEF LinkedAs, IsEmpty
<1>4. ASSUME NEW k \in Nat, k \in T
      PROVE  k + 1 \in T
  <2>1. CASE k + 1 < len[q]
    <3>1. w[k] = s[k + 1] /\ s[k + 1] # NULL
      BY <1>2, <1>4, <2>1
    <3>2. next[s[k + 1]] = s[(k + 1) + 1]
      BY <1>2, <2>1 DEF LinkedAs
    <3> QED BY <1>1, <2>1, <3>1, <3>2
  <2>2. CASE k + 1 = len[q]
    <3>1. w[k] = s[len[q]] /\ s[len[q]] # NULL
      BY <1>2, <1>4, <2>2
    <3>2. next[s[len[q]]] = NULL
      BY <1>2, <2>2 DEF LinkedAs, IsEmpty
    <3> QED BY <1>1, <2>2, <3>1, <3>2
  <2>3. CASE k + 1 > len[q]
    <3>1. w[k] = NULL
      BY <1>2, <1>4, <2>3
    <3> QED BY <1>1, <1>2, <2>3, <3>1
  <2> QED BY <1>2, <2>1, <2>2, <2>3
<1>5. Nat \subseteq T
  <2> HIDE DEF T
  <2> QED BY <1>3, <1>4, SetInduction
<1> QED BY <1>5 DEF w

\* The layout that the walks find is the only one there is.
FoundIsLayout ==
  TypeOK => \A lay : Layout(lay) => \A q \in Queues : Found[q] = lay[q]

LEMMA LayoutUnique == FoundIsLayout
<1> SUFFICES ASSUME TypeOK, NEW lay, Layout(lay), NEW q \in Queues
             PROVE  Found[q] = lay[q]
  BY DEF FoundIsLayout
<1>1. LinkedAs(q, lay[q])
  BY DEF Layout
<1>2. \A k \in Nat : Walk(q)[k] = IF k < len[q] THEN lay[q][k + 1] ELSE NULL
  BY <1>1, WalkVisits
<1>3. len[q] \in Nat /\ lay[q] \in [1 .. len[q] -> Nodes]
  BY <1>1 DEF TypeOK, LinkedAs
<1>4. ASSUME NEW k \in 1 .. len[q]
      PROVE  Walk(q)[k - 1] = lay[q][k]
  <2>1. k - 1 \in Nat /\ k - 1 < len[q] /\ (k - 1) + 1 = k
    BY <1>3
  <2> QED BY <1>2, <2>1
<1>5. Found[q] = [k \in 1 .. len[q] |-> Walk(q)[k - 1]]
  BY DEF Found
<1> QED BY <1>3, <1>4, <1>5

LEMMA LayoutUniqueNext == FoundIsLayout'
BY LayoutUnique, PTL

\* A list has no more nodes than there are, and while(cur) visits each of them.
LEMMA ChainIsList ==
  ASSUME TypeOK, NEW q \in Queues, NEW s, LinkedAs(q, s)
  PROVE  /\ Chain(q) = {s[k] : k \in 1 .. len[q]}
         /\ Cardinality(Chain(q)) = len[q]
<1> DEFINE visited == {s[k] : k \in 1 .. len[q]}
<1>1. /\ len[q] \in Nat /\ s \in [1 .. len[q] -> Nodes]
      /\ NULL \notin Nodes /\ IsFiniteSet(Nodes)
  BY QueueAssumption DEF TypeOK, LinkedAs
<1>2. s \in Injection(1 .. len[q], Nodes)
  BY <1>1 DEF LinkedAs, Injection, IsInjective
<1>3. s \in Bijection(1 .. len[q], visited)
  BY <1>1 DEF LinkedAs, Injection, IsInjective, Surjection, Bijection
<1>4. IsFiniteSet(1 .. len[q]) /\ Cardinality(1 .. len[q]) = len[q]
  BY <1>1, FS_Interval
<1>5. Cardinality(visited) = len[q]
  <2>1. ExistsBijection(1 .. len[q], visited)
    BY <1>3 DEF ExistsBijection
  <2> HIDE DEF visited
  <2> QED BY <2>1, <1>4, FS_Bijection
<1>6. Cardinality(Nodes) \in Nat /\ len[q] <= Cardinality(Nodes)
  BY <1>1, <1>2, <1>4, FS_Injection, FS_CardinalityType
<1>7. \A k \in Nat : Walk(q)[k] = IF k < len[q] THEN s[k + 1] ELSE NULL
  BY WalkVisits
<1>8. Chain(q) = visited
  <2>1. ASSUME NEW n \in Chain(q) PROVE n \in visited
    <3>1. PICK k \in 0 .. Cardinality(Nodes) : n = Walk(q)[k] /\ n # NULL
      BY <2>1 DEF Chain
    <3>2. k < len[q] /\ n = s[k + 1]
      BY <1>6, <1>7, <3>1
    <3> QED BY <1>1, <3>1, <3>2
  <2>2. ASSUME NEW k \in 1 .. len[q] PROVE s[k] \in Chain(q)
    <3>1. k - 1 \in 0 .. Cardinality(Nodes) /\ k - 1 < len[q] /\ (k - 1) + 1 = k
      BY <1>1, <1>6
    <3>2. Walk(q)[k - 1] = s[k] /\ s[k] # NULL
      BY <1>1, <1>7, <3>1
    <3> QED BY <3>1, <3>2 DEF Chain
  <2> QED BY <2>1, <2>2
<1> QED BY <1>5, <1>8

\* The walks along both lists visit the allocated nodes.
LEMMA ChainsAreHeap ==
  ASSUME TypeOK, NEW lay, Layout(lay)
  PROVE  /\ Chain("high") \cup Chain("low") = allocated
         /\ Chain("high") \cap Chain("low") = {}
<1>1. ASSUME NEW q \in Queues
      PROVE  Chain(q) = {lay[q][k] : k \in 1 .. len[q]}
  BY ChainIsList DEF Layout
<1>2. ASSUME NEW q \in Queues, NEW k \in 1 .. len[q]
      PROVE  lay[q][k] \in Nodes
  <2>1. lay[q] \in [1 .. len[q] -> Nodes]
    BY DEF Layout, LinkedAs
  <2> QED BY <2>1
<1>3. Queues = {"high", "low"}
  BY DEF Queues
<1>4. \A n \in Nodes : n \in allocated <=> n \in Chain("high") \/ n \in Chain("low")
  BY <1>1, <1>3 DEF Layout
<1>5. Chain("high") \subseteq Nodes /\ Chain("low") \subseteq Nodes
  BY <1>1, <1>2, <1>3
<1>6. allocated \subseteq Nodes
  BY DEF TypeOK
<1>7. Chain("high") \cap Chain("low") = {}
  BY <1>1, <1>3 DEF Layout
<1> QED BY <1>4, <1>5, <1>6, <1>7

\* helpr_inp_is_duplicate finds a string exactly if the queue owns an input with it.
LEMMA DuplicateFinds ==
  ASSUME QueueInv, NEW i \in Inputs
  PROVE  Duplicate(i) <=> \E j \in Inputs : owner[j] = "queue" /\ str[j] = str[i]
<1>1. Chain("high") \cup Chain("low") = allocated
  BY ChainsAreHeap DEF QueueInv
<1>2. Contents("high") \cup Contents("low") = {input[n] : n \in allocated}
  BY <1>1 DEF Contents
<1> QED BY <1>2 DEF Duplicate, QueueInv, NodesHoldInputs

-----------------------------------------------------------------------------
(***************************************************************************)
(* The lists under each operation.                                         *)
(***************************************************************************)

\* The list q with the node n behind its last, and with its first node last.
Longer(lay, q, n) ==
    [lay EXCEPT ![q] = [k \in 1 .. len[q] + 1 |-> IF k = len[q] + 1 THEN n ELSE lay[q][k]]]

Rotated(lay, q) ==
    [lay EXCEPT ![q] = [k \in 1 .. len[q] |-> IF k = len[q] THEN lay[q][1] ELSE lay[q][k + 1]]]

\* Linking a new node makes one list longer.
LEMMA LinkLayout ==
  ASSUME TypeOK, NEW lay, Layout(lay), DOMAIN lay = Queues, NEW q \in Queues,
         NEW n \in Nodes \ allocated, Link(q, n), allocated' = allocated \cup {n},
         NEW new, new = Longer(lay, q, n)
  PROVE  Layout(new)'
<1>1. /\ \A p \in Queues : len[p] \in Nat
      /\ len' = [len EXCEPT ![q] = @ + 1] /\ len \in [Queues -> Nat]
      /\ next \in [Nodes -> Nodes \cup {NULL}] /\ allocated \subseteq Nodes
      /\ head \in [Queues -> Nodes \cup {NULL}] /\ tail \in [Queues -> Nodes \cup {NULL}]
  BY DEF TypeOK, Link
<1>3. \A p \in Queues : LinkedAs(p, lay[p])
  BY DEF Layout
<1>2. ASSUME NEW p \in Queues, NEW k \in 1 .. len[p]
      PROVE  lay[p][k] \in allocated /\ lay[p][k] # n
  <2>1. lay[p] \in [1 .. len[p] -> Nodes]
    BY <1>3 DEF LinkedAs
  <2>2. lay[p][k] \in Nodes
    BY <2>1
  <2> QED BY <2>2 DEF Layout
<1>4. /\ new[q] = [k \in 1 .. len[q] + 1 |-> IF k = len[q] + 1 THEN n ELSE lay[q][k]]
      /\ \A p \in Queues : p # q => new[p] = lay[p]
  BY DEF Longer
<1>5. /\ len'[q] = len[q] + 1
      /\ \A p \in Queues : p # q => len'[p] = len[p]
  BY <1>1
<1>6. \A p \in Queues : p # q => \A j \in 1 .. len[p], k \in 1 .. len[q] : lay[p][j] # lay[q][k]
  BY DEF Layout, Queues
<1>7. LinkedAs(q, new[q])'
  <2>1. new[q] \in [1 .. len'[q] -> Nodes]
    BY <1>1, <1>2, <1>4, <1>5
  <2>2. \A j, k \in 1 .. len'[q] : new[q][j] = new[q][k] => j = k
    BY <1>1, <1>2, <1>3, <1>4, <1>5 DEF LinkedAs
  <2>3. CASE IsEmpty(q)
    <3>1. len[q] = 0 /\ new[q][1] = n /\ head'[q] = n /\ tail'[q] = n /\ next'[n] = NULL
      BY <1>1, <1>4, <2>3 DEF Link, IsEmpty
    <3> QED BY <1>5, <2>1, <2>2, <3>1 DEF LinkedAs, IsEmpty
  <2>4. CASE ~IsEmpty(q)
    <3>1. len[q] >= 1 /\ tail[q] = lay[q][len[q]] /\ tail[q] \in Nodes /\ tail[q] # n
      BY <1>1, <1>2, <1>3, <2>4 DEF LinkedAs, IsEmpty
    <3>2. head'[q] = head[q] /\ head[q] = new[q][1]
      BY <1>1, <1>3, <1>4, <2>4, <3>1 DEF Link, LinkedAs, IsEmpty
    <3>3. tail'[q] = n /\ new[q][len[q] + 1] = n /\ next'[n] = NULL /\ next'[tail[q]] = n
      BY <1>1, <1>4, <2>4, <3>1 DEF Link
    <3>4. ASSUME NEW k \in 1 .. len[q]
          PROVE  next'[new[q][k]] = new[q][k + 1]
      <4>1. CASE k = len[q]
        BY <1>1, <1>4, <3>1, <3>3, <4>1
      <4>2. CASE k # len[q]
        <5>1. lay[q][k] # tail[q] /\ lay[q][k] # n /\ lay[q][k] \in Nodes
          BY <1>1, <1>2, <1>3, <3>1, <4>2 DEF LinkedAs
        <5>2. next'[lay[q][k]] = next[lay[q][k]]
          BY <1>1, <2>4, <5>1 DEF Link
        <5>3. next[lay[q][k]] = lay[q][k + 1]
          BY <1>1, <1>3, <4>2 DEF LinkedAs
        <5>4. new[q][k] = lay[q][k] /\ new[q][k + 1] = lay[q][k + 1]
          BY <1>1, <1>4, <4>2
        <5> QED BY <5>2, <5>3, <5>4
      <4> QED BY <4>1, <4>2
    <3>5. len'[q] # 0 /\ len'[q] - 1 = len[q]
      BY <1>1, <1>5
    <3> QED BY <1>5, <2>1, <2>2, <3>2, <3>3, <3>4, <3>5 DEF LinkedAs, IsEmpty
  <2> QED BY <2>3, <2>4
<1>8. ASSUME NEW p \in Queues, p # q
      PROVE  LinkedAs(p, new[p])'
  <2>1. new[p] = lay[p] /\ len'[p] = len[p] /\ head'[p] = head[p] /\ tail'[p] = tail[p]
    BY <1>1, <1>4, <1>5, <1>8 DEF Link
  <2>2. ASSUME NEW k \in 1 .. len[p]
        PROVE  next'[lay[p][k]] = next[lay[p][k]]
    <3>1. lay[p][k] \in Nodes /\ lay[p][k] # n
      BY <1>1, <1>2
    <3>2. ~IsEmpty(q) => tail[q] # lay[p][k]
      <4>1. ~IsEmpty(q) => len[q] \in 1 .. len[q] /\ tail[q] = lay[q][len[q]]
        BY <1>1, <1>3 DEF LinkedAs, IsEmpty
      <4> QED BY <4>1, <1>6, <1>8
    <3>3. next \in [Nodes -> Nodes \cup {NULL}]
      BY <1>1
    <3>4. CASE IsEmpty(q)
      BY <3>1, <3>3, <3>4 DEF Link
    <3>5. CASE ~IsEmpty(q)
      BY <3>1, <3>2, <3>3, <3>5 DEF Link
    <3> QED BY <3>4, <3>5
  <2>3. ~IsEmpty(p) => len[p] \in 1 .. len[p] /\ tail[p] = lay[p][len[p]]
    BY <1>1, <1>3 DEF LinkedAs, IsEmpty
  <2>4. \A k \in 1 .. len[p] - 1 : k \in 1 .. len[p] /\ next[lay[p][k]] = lay[p][k + 1]
    BY <1>1, <1>3 DEF LinkedAs
  <2> QED BY <1>3, <2>1, <2>2, <2>3, <2>4 DEF LinkedAs, IsEmpty
<1>9. \A j \in 1 .. len'["high"], k \in 1 .. len'["low"] : new["high"][j] # new["low"][k]
  BY <1>1, <1>2, <1>4, <1>5 DEF Layout, Queues
<1>10. ASSUME NEW m \in Nodes
       PROVE  m \in allocated' <=> \E p \in Queues : \E k \in 1 .. len'[p] : new[p][k] = m
  <2>1. m \in allocated <=> \E p \in Queues : \E k \in 1 .. len[p] : lay[p][k] = m
    BY DEF Layout
  <2>2. len[q] + 1 \in 1 .. len'[q] /\ new[q][len[q] + 1] = n
    BY <1>1, <1>4, <1>5
  <2>3. ASSUME NEW p \in Queues, NEW k \in 1 .. len[p]
        PROVE  k \in 1 .. len'[p] /\ new[p][k] = lay[p][k]
    BY <1>1, <1>4, <1>5
  <2>4. ASSUME NEW p \in Queues, NEW k \in 1 .. len'[p], new[p][k] # n
        PROVE  k \in 1 .. len[p] /\ new[p][k] = lay[p][k]
    BY <1>1, <1>4, <1>5, <2>4
  <2> QED BY <2>1, <2>2, <2>3, <2>4
<1> QED BY <1>7, <1>8, <1>9, <1>10 DEF Layout

\* Dequeuing rotates one list.
LEMMA RotateLayout ==
  ASSUME TypeOK, NEW lay, Layout(lay), DOMAIN lay = Queues, NEW q \in Queues, ~IsEmpty(q),
         Rotate(q), UNCHANGED allocated, NEW new, new = Rotated(lay, q)
  PROVE  Layout(new)'
<1>1. /\ \A p \in Queues : len[p] \in Nat
      /\ len' = len /\ allocated' = allocated
      /\ next \in [Nodes -> Nodes \cup {NULL}]
      /\ head \in [Queues -> Nodes \cup {NULL}] /\ tail \in [Queues -> Nodes \cup {NULL}]
  BY DEF TypeOK, Rotate
<1>2. \A p \in Queues : LinkedAs(p, lay[p])
  BY DEF Layout
<1>3. ASSUME NEW p \in Queues, NEW k \in 1 .. len[p]
      PROVE  lay[p][k] \in Nodes
  <2>1. lay[p] \in [1 .. len[p] -> Nodes]
    BY <1>2 DEF LinkedAs
  <2> QED BY <2>1
<1>4. /\ new[q] = [k \in 1 .. len[q] |-> IF k = len[q] THEN lay[q][1] ELSE lay[q][k + 1]]
      /\ \A p \in Queues : p # q => new[p] = lay[p]
  BY DEF Rotated
<1>5. \A p \in Queues : p # q => \A j \in 1 .. len[p], k \in 1 .. len[q] : lay[p][j] # lay[q][k]
  BY DEF Layout, Queues
<1>6. /\ len[q] \in Nat \ {0} /\ 1 \in 1 .. len[q] /\ len[q] \in 1 .. len[q]
      /\ head[q] = lay[q][1] /\ tail[q] = lay[q][len[q]]
      /\ head[q] \in Nodes /\ tail[q] \in Nodes /\ next[tail[q]] = NULL
  BY <1>1, <1>2, <1>3 DEF LinkedAs, IsEmpty
<1>7. LinkedAs(q, new[q])'
  <2>1. new[q] \in [1 .. len[q] -> Nodes]
    BY <1>3, <1>4, <1>6
  <2>2. \A j, k \in 1 .. len[q] : lay[q][j] = lay[q][k] => j = k
    BY <1>2 DEF LinkedAs
  <2>3. ASSUME NEW j \in 1 .. len[q], NEW k \in 1 .. len[q], new[q][j] = new[q][k]
        PROVE  j = k
    <3> DEFINE from(i) == IF i = len[q] THEN 1 ELSE i + 1
    <3>1. from(j) \in 1 .. len[q] /\ from(k) \in 1 .. len[q]
      BY <1>6
    <3>2. lay[q][from(j)] = lay[q][from(k)]
      BY <1>4, <2>3
    <3>3. from(j) = from(k)
      BY <2>2, <3>1, <3>2
    <3> QED BY <1>6, <3>3
  <2>4. tail'[q] = lay[q][1] /\ new[q][len[q]] = lay[q][1]
    BY <1>1, <1>4, <1>6 DEF Rotate
  <2>5. CASE len[q] = 1
    <3>1. head'[q] = lay[q][1] /\ next'[lay[q][1]] = NULL
      BY <1>1, <1>6, <2>5 DEF Rotate
    <3> QED BY <1>1, <1>4, <1>6, <2>1, <2>3, <2>4, <2>5, <3>1 DEF LinkedAs, IsEmpty
  <2>6. CASE len[q] # 1
    <3>1. lay[q][1] # lay[q][len[q]] /\ next[lay[q][1]] = lay[q][2] /\ new[q][1] = lay[q][2]
      <4>1. 1 \in 1 .. len[q] - 1 /\ 1 + 1 = 2
        BY <1>6, <2>6
      <4> QED BY <1>2, <1>4, <1>6, <2>2, <2>6, <4>1 DEF LinkedAs
    <3>2. next' = [next EXCEPT ![lay[q][1]] = NULL, ![lay[q][len[q]]] = lay[q][1]]
      BY <1>6, <2>6 DEF Rotate
    <3>3. head'[q] = new[q][1] /\ next'[lay[q][1]] = NULL
      BY <1>1, <1>6, <2>6, <3>1, <3>2 DEF Rotate
    <3>4. ASSUME NEW k \in 1 .. len[q] - 1
          PROVE  next'[new[q][k]] = new[q][k + 1]
      <4>1. k \in 1 .. len[q] /\ k + 1 \in 2 .. len[q] /\ new[q][k] = lay[q][k + 1]
        BY <1>4, <1>6
      <4>2. lay[q][k + 1] \in Nodes /\ lay[q][k + 1] # lay[q][1]
        BY <1>3, <1>6, <2>2, <4>1
      <4>3. CASE k + 1 = len[q]
        <5>1. next'[lay[q][len[q]]] = lay[q][1]
          BY <1>1, <1>6, <3>1, <3>2
        <5> QED BY <2>4, <4>1, <4>3, <5>1
      <4>4. CASE k + 1 # len[q]
        <5>1. lay[q][k + 1] # lay[q][len[q]]
          BY <1>6, <2>2, <4>1, <4>4
        <5>2. next'[lay[q][k + 1]] = next[lay[q][k + 1]]
          BY <1>1, <3>2, <4>2, <5>1
        <5>3. k + 1 \in 1 .. len[q] - 1
          BY <1>6, <4>1, <4>4
        <5>4. next[lay[q][k + 1]] = lay[q][(k + 1) + 1]
          BY <1>2, <5>3 DEF LinkedAs
        <5>5. new[q][k + 1] = lay[q][(k + 1) + 1]
          BY <1>4, <1>6, <4>1, <4>4
        <5> QED BY <4>1, <5>2, <5>4, <5>5
      <4> QED BY <4>3, <4>4
    <3> QED BY <1>1, <1>6, <2>1, <2>3, <2>4, <3>3, <3>4 DEF LinkedAs, IsEmpty
  <2> QED BY <2>5, <2>6
<1>8. ASSUME NEW p \in Queues, p # q
      PROVE  LinkedAs(p, new[p])'
  <2>1. new[p] = lay[p] /\ len'[p] = len[p] /\ head'[p] = head[p] /\ tail'[p] = tail[p]
    BY <1>1, <1>4, <1>8 DEF Rotate
  <2>2. ASSUME NEW k \in 1 .. len[p]
        PROVE  next'[lay[p][k]] = next[lay[p][k]]
    <3>1. lay[p][k] \in Nodes /\ lay[p][k] # head[q] /\ lay[p][k] # tail[q]
      BY <1>3, <1>5, <1>6, <1>8
    <3>2. next \in [Nodes -> Nodes \cup {NULL}]
      BY <1>1
    <3> QED BY <3>1, <3>2 DEF Rotate
  <2>3. ~IsEmpty(p) => len[p] \in 1 .. len[p] /\ tail[p] = lay[p][len[p]]
    BY <1>1, <1>2 DEF LinkedAs, IsEmpty
  <2>4. \A k \in 1 .. len[p] - 1 : k \in 1 .. len[p] /\ next[lay[p][k]] = lay[p][k + 1]
    BY <1>1, <1>2 DEF LinkedAs
  <2> QED BY <1>2, <2>1, <2>2, <2>3, <2>4 DEF LinkedAs, IsEmpty
<1>9. ASSUME NEW p \in Queues, NEW k \in 1 .. len[p]
      PROVE  \E j \in 1 .. len[p] : new[p][k] = lay[p][j]
  <2>1. CASE p = q
    <3>1. new[q][k] = lay[q][IF k = len[q] THEN 1 ELSE k + 1]
      BY <1>4, <2>1
    <3>2. (IF k = len[q] THEN 1 ELSE k + 1) \in 1 .. len[q]
      BY <1>6, <2>1
    <3> QED BY <2>1, <3>1, <3>2
  <2>2. CASE p # q
    BY <1>4, <2>2
  <2> QED BY <2>1, <2>2
<1>10. ASSUME NEW p \in Queues, NEW k \in 1 .. len[p]
       PROVE  \E j \in 1 .. len[p] : lay[p][k] = new[p][j]
  <2>1. CASE p = q
    <3>1. (IF k = 1 THEN len[q] ELSE k - 1) \in 1 .. len[q]
      BY <1>6, <2>1
    <3>2. lay[q][k] = new[q][IF k = 1 THEN len[q] ELSE k - 1]
      BY <1>4, <1>6, <2>1, <3>1
    <3> QED BY <2>1, <3>1, <3>2
  <2>2. CASE p # q
    BY <1>4, <2>2
  <2> QED BY <2>1, <2>2
<1>11. \A j \in 1 .. len["high"], k \in 1 .. len["low"] : new["high"][j] # new["low"][k]
  <2> SUFFICES ASSUME NEW j \in 1 .. len["high"], NEW k \in 1 .. len["low"]
               PROVE  new["high"][j] # new["low"][k]
    OBVIOUS
  <2>1. PICK a \in 1 .. len["high"] : new["high"][j] = lay["high"][a]
    BY <1>9 DEF Queues
  <2>2. PICK b \in 1 .. len["low"] : new["low"][k] = lay["low"][b]
    BY <1>9 DEF Queues
  <2> QED BY <2>1, <2>2 DEF Layout
<1>12. ASSUME NEW m \in Nodes
       PROVE  m \in allocated <=> \E p \in Queues : \E k \in 1 .. len[p] : new[p][k] = m
  <2>1. m \in allocated <=> \E p \in Queues : \E k \in 1 .. len[p] : lay[p][k] = m
    BY DEF Layout
  <2> QED BY <1>9, <1>10, <2>1
<1> QED BY <1>1, <1>7, <1>8, <1>11, <1>12 DEF Layout

-----------------------------------------------------------------------------
(***************************************************************************)
(* The invariant.                                                          *)
(***************************************************************************)

\* Whatever the lists are laid out as after a step is what the walks will find.
LEMMA LayoutIsFound ==
  ASSUME TypeOK', NEW new, DOMAIN new = Queues, Layout(new)',
         new = [q \in DOMAIN new |-> new[q]]
  PROVE  Found' = new /\ Layout(Found)'
<1>1. \A q \in Queues : Found'[q] = new[q]
  BY LayoutUniqueNext DEF FoundIsLayout
<1>2. DOMAIN Found' = Queues /\ Found' = [q \in Queues |-> Found'[q]]
  BY DEF Found
<1>3. Found' = new
  BY <1>1, <1>2
<1> QED BY <1>3

\* Empty lists, in an empty heap.
LEMMA EmptyLayout ==
  ASSUME len' = [q \in Queues |-> 0], head' = [q \in Queues |-> NULL], allocated' = {},
         NEW new, new = [q \in Queues |-> <<>>]
  PROVE  Layout(new)'
<1>1. \A q \in Queues : new[q] = <<>> /\ len'[q] = 0 /\ head'[q] = NULL
  OBVIOUS
<1>2. <<>> \in [1 .. 0 -> Nodes] /\ 1 .. 0 = {} /\ 1 .. 0 - 1 = {}
  OBVIOUS
<1>3. ASSUME NEW q \in Queues PROVE LinkedAs(q, new[q])'
  BY <1>1, <1>2 DEF LinkedAs, IsEmpty
<1>4. "high" \in Queues /\ "low" \in Queues
  BY DEF Queues
<1> QED BY <1>1, <1>2, <1>3, <1>4 DEF Layout

\* The queue starts empty.
LEMMA QueueInvInit == Init => QueueInv
<1> SUFFICES ASSUME Init PROVE QueueInv
  OBVIOUS
<1>1. TypeOK
  BY QueueAssumption DEF Init, TypeOK
<1>2. \A q \in Queues : len[q] = 0 /\ head[q] = NULL
  BY DEF Init
<1>3. ASSUME NEW q \in Queues PROVE LinkedAs(q, Found[q])
  <2>1. Found[q] = [k \in 1 .. 0 |-> Walk(q)[k - 1]]
    BY <1>2 DEF Found
  <2>2. Found[q] \in [1 .. 0 -> Nodes] /\ 1 .. 0 = {} /\ 1 .. 0 - 1 = {}
    BY <2>1
  <2> QED BY <1>2, <2>2 DEF LinkedAs, IsEmpty
<1>4. "high" \in Queues /\ "low" \in Queues /\ allocated = {}
  BY DEF Queues, Init
<1>5. Layout(Found)
  BY <1>2, <1>3, <1>4 DEF Layout
<1>6. NodesHoldInputs /\ NoDuplicates /\ GapIsTurn /\ (~open => allocated = {})
  BY DEF Init, NodesHoldInputs, NoDuplicates, GapIsTurn
<1> QED BY <1>1, <1>5, <1>6 DEF QueueInv

\* An input that is enqueued is new to the queue, or freed, or lost.
LEMMA EnqueueKeeps ==
  ASSUME QueueInv, NEW q \in Queues, NEW i \in Inputs, Enqueue(q, i)
  PROVE  QueueInv'
<1> USE DEF QueueInv
<1>1. PICK lay : lay = Found
  OBVIOUS
<1>2. Layout(lay) /\ DOMAIN lay = Queues /\ lay = [p \in DOMAIN lay |-> lay[p]]
  BY <1>1 DEF Found
<1>3. /\ open /\ open' /\ owner[i] = "caller"
      /\ UNCHANGED <<deq_cycle_ind, returned, gap>>
  BY DEF Enqueue
<1>4. CASE UNCHANGED lists /\ \E w \in {"freed", "lost"} : owner' = [owner EXCEPT ![i] = w]
  <2> USE DEF lists
  <2>1. TypeOK'
    BY <1>3, <1>4 DEF TypeOK
  <2>2. Layout(lay)'
    BY <1>2, <1>4 DEF Layout, LinkedAs, IsEmpty
  <2>3. Layout(Found)'
    BY <1>2, <2>1, <2>2, LayoutIsFound
  <2>4. \A j \in Inputs : owner'[j] = "queue" <=> owner[j] = "queue"
    BY <1>3, <1>4 DEF TypeOK
  <2>5. NodesHoldInputs' /\ NoDuplicates' /\ GapIsTurn'
    BY <1>3, <1>4, <2>4 DEF NodesHoldInputs, NoDuplicates, GapIsTurn
  <2> QED BY <1>3, <2>1, <2>3, <2>5
<1>5. ASSUME ~Duplicate(i), NEW n \in Nodes \ allocated,
             allocated' = allocated \cup {n}, input' = [input EXCEPT ![n] = i],
             Link(q, n), owner' = [owner EXCEPT ![i] = "queue"]
      PROVE  QueueInv'
  <2>1. /\ input' \in [Nodes -> Inputs \cup {NULL}] /\ input'[n] = i
        /\ \A m \in allocated : input'[m] = input[m] /\ m # n
        /\ owner'[i] = "queue" /\ \A j \in Inputs : j # i => owner'[j] = owner[j]
    BY <1>5 DEF TypeOK
  <2>2. TypeOK'
    <3>1. next' \in [Nodes -> Nodes \cup {NULL}]
      BY <1>5 DEF Link, TypeOK
    <3>2. head' \in [Queues -> Nodes \cup {NULL}] /\ tail' \in [Queues -> Nodes \cup {NULL}]
      BY <1>5 DEF Link, TypeOK
    <3>3. len' \in [Queues -> Nat]
      BY <1>5 DEF Link, TypeOK
    <3>4. owner' \in [Inputs -> {"caller", "queue", "freed", "lost"}]
      BY <1>5 DEF TypeOK
    <3> QED BY <1>3, <1>5, <2>1, <3>1, <3>2, <3>3, <3>4 DEF TypeOK
  <2>3. PICK new : new = Longer(lay, q, n)
    OBVIOUS
  <2>4. DOMAIN new = Queues /\ new = [p \in DOMAIN new |-> new[p]]
    BY <1>2, <2>3 DEF Longer
  <2>5. Layout(new)'
    BY <1>2, <1>5, <2>3, LinkLayout
  <2>6. Layout(Found)'
    BY <2>2, <2>4, <2>5, LayoutIsFound
  <2>7. NodesHoldInputs'
    <3>1. ASSUME NEW m \in allocated' PROVE input'[m] \in Inputs /\ owner'[input'[m]] = "queue"
      BY <1>5, <2>1 DEF NodesHoldInputs
    <3>2. ASSUME NEW j \in Inputs, owner'[j] = "queue"
          PROVE  \E m \in allocated' : input'[m] = j
      BY <1>5, <2>1, <3>2 DEF NodesHoldInputs
    <3> QED BY <3>1, <3>2 DEF NodesHoldInputs
  <2>8. NoDuplicates'
    <3>1. \A j \in Inputs : owner[j] = "queue" => str[j] # str[i]
      BY <1>5, DuplicateFinds
    <3> QED BY <2>1, <3>1 DEF NoDuplicates
  <2>9. GapIsTurn'
    BY <1>3 DEF GapIsTurn
  <2> QED BY <1>3, <2>2, <2>6, <2>7, <2>8, <2>9
<1> QED BY <1>4, <1>5 DEF Enqueue

\* The list that is dequeued from is one of the two, and has a head.
LEMMA TargetHasHead ==
  ASSUME QueueInv, \E q \in Queues : ~IsEmpty(q)
  PROVE  /\ TargetQueue \in Queues /\ ~IsEmpty(TargetQueue)
         /\ head[TargetQueue] \in allocated
         /\ input[head[TargetQueue]] \in Inputs
<1>1. TargetQueue \in Queues /\ ~IsEmpty(TargetQueue)
  BY DEF TargetQueue, Queues
<1>2. PICK t \in Queues : t = TargetQueue
  BY <1>1
<1>3. LinkedAs(t, Found[t]) /\ len[t] \in Nat \ {0}
  BY <1>1, <1>2 DEF QueueInv, Layout, TypeOK, IsEmpty
<1>4. 1 \in 1 .. len[t] /\ head[t] = Found[t][1] /\ Found[t][1] \in Nodes
  BY <1>3 DEF LinkedAs, IsEmpty
<1>5. head[t] \in allocated
  BY <1>4 DEF QueueInv, Layout
<1> QED BY <1>1, <1>2, <1>5 DEF QueueInv, NodesHoldInputs

\* Dequeuing changes the order within one list, and the turn.
LEMMA DequeueKeeps ==
  ASSUME QueueInv, Dequeue
  PROVE  QueueInv'
<1> USE DEF QueueInv
<1>1. PICK lay : lay = Found
  OBVIOUS
<1>2. Layout(lay) /\ DOMAIN lay = Queues /\ lay = [p \in DOMAIN lay |-> lay[p]]
  BY <1>1 DEF Found
<1>3. UNCHANGED <<open, owner, input, allocated>>
  BY DEF Dequeue, lists
<1>4. NodesHoldInputs' /\ NoDuplicates'
  BY <1>3 DEF NodesHoldInputs, NoDuplicates
<1>5. CASE \A q \in Queues : IsEmpty(q)
  <2>1. returned' = NULL /\ UNCHANGED <<lists, deq_cycle_ind, gap>>
    BY <1>5 DEF Dequeue
  <2>2. TypeOK' /\ GapIsTurn'
    BY <1>3, <2>1 DEF TypeOK, GapIsTurn, lists
  <2>3. Layout(lay)'
    BY <1>2, <2>1 DEF Layout, LinkedAs, IsEmpty, lists
  <2>4. Layout(Found)'
    BY <1>2, <2>2, <2>3, LayoutIsFound
  <2> QED BY <1>3, <1>4, <2>2, <2>4
<1>6. CASE \E q \in Queues : ~IsEmpty(q)
  <2>1. PICK t \in Queues : t = TargetQueue
    BY <1>6, TargetHasHead
  <2>2. ~IsEmpty(t) /\ head[t] \in Nodes /\ input[head[t]] \in Inputs
    BY <1>6, <2>1, TargetHasHead DEF TypeOK
  <2>3. /\ Rotate(t) /\ returned' = input[head[t]]
        /\ deq_cycle_ind' = (deq_cycle_ind + 1) % 10 /\ gap' = NewGap(t)
    BY <1>6, <2>1 DEF Dequeue, NextTurn
  <2>4. deq_cycle_ind \in 0 .. 9 /\ gap \in 0 .. 10
    BY DEF TypeOK
  <2>5. deq_cycle_ind' \in 0 .. 9
    BY <2>3, <2>4
  <2>6. gap' \in 0 .. 10 /\ GapIsTurn'
    <3>1. CASE gap' = 10
      BY <3>1 DEF GapIsTurn
    <3>2. CASE gap' # 10
      <4>1. ~IsEmpty("high") /\ ~IsEmpty("low")
        BY <2>3, <3>2 DEF NewGap, Queues
      <4>2. t = "low" <=> deq_cycle_ind = 9
        BY <2>1, <2>4, <4>1 DEF TargetQueue
      <4>3. CASE t = "low"
        BY <2>3, <2>4, <4>1, <4>2, <4>3 DEF NewGap, GapIsTurn, Queues
      <4>4. CASE t # "low"
        <5>1. gap # 10 /\ gap' = gap + 1
          BY <2>3, <3>2, <4>1, <4>4 DEF NewGap, Queues
        <5>2. gap = deq_cycle_ind /\ deq_cycle_ind < 9
          BY <2>4, <4>2, <4>4, <5>1 DEF GapIsTurn
        <5> QED BY <2>3, <2>4, <5>1, <5>2 DEF GapIsTurn
      <4> QED BY <4>3, <4>4
    <3> QED BY <3>1, <3>2
  <2>7. TypeOK'
    <3>1. next' \in [Nodes -> Nodes \cup {NULL}] /\ len' = len
      BY <2>2, <2>3 DEF Rotate, TypeOK
    <3>2. head' \in [Queues -> Nodes \cup {NULL}] /\ tail' \in [Queues -> Nodes \cup {NULL}]
      BY <2>2, <2>3 DEF Rotate, TypeOK
    <3> QED BY <1>3, <2>2, <2>3, <2>5, <2>6, <3>1, <3>2 DEF TypeOK
  <2>8. PICK new : new = Rotated(lay, t)
    OBVIOUS
  <2>9. DOMAIN new = Queues /\ new = [p \in DOMAIN new |-> new[p]]
    BY <1>2, <2>8 DEF Rotated
  <2>10. Layout(new)'
    BY <1>2, <1>3, <2>2, <2>3, <2>8, RotateLayout
  <2>11. Layout(Found)'
    BY <2>7, <2>9, <2>10, LayoutIsFound
  <2> QED BY <1>3, <1>4, <2>6, <2>7, <2>11
<1> QED BY <1>5, <1>6

\* input_queue_fini leaves nothing behind.
LEMMA FiniKeeps ==
  ASSUME QueueInv, Fini
  PROVE  QueueInv'
<1> USE DEF QueueInv
<1>1. FiniNodes = allocated
  BY ChainsAreHeap DEF FiniNodes
<1>2. allocated' = {} /\ \A i \in Inputs : owner'[i] # "queue"
  BY <1>1 DEF Fini, NodesHoldInputs
<1>3. TypeOK'
  BY QueueAssumption DEF Fini, TypeOK
<1>4. PICK new : new = [q \in Queues |-> <<>>]
  OBVIOUS
<1>5. Layout(new)'
  BY <1>2, <1>4, EmptyLayout DEF Fini
<1>6. Layout(Found)'
  BY <1>3, <1>4, <1>5, LayoutIsFound
<1>7. NodesHoldInputs' /\ NoDuplicates'
  BY <1>2 DEF NodesHoldInputs, NoDuplicates
<1>8. GapIsTurn'
  BY DEF Fini, GapIsTurn
<1> QED BY <1>2, <1>3, <1>6, <1>7, <1>8

LEMMA QueueInvNext == QueueInv /\ [Next]_vars => QueueInv'
<1> SUFFICES ASSUME QueueInv, [Next]_vars PROVE QueueInv'
  OBVIOUS
<1>1. CASE Next
  BY <1>1, EnqueueKeeps, DequeueKeeps, FiniKeeps DEF Next
<1>2. CASE UNCHANGED vars
  <2> USE <1>2 DEF QueueInv, vars, lists
  <2>1. PICK lay : lay = Found
    OBVIOUS
  <2>2. Layout(lay) /\ DOMAIN lay = Queues /\ lay = [p \in DOMAIN lay |-> lay[p]]
    BY <2>1 DEF Found
  <2>3. TypeOK'
    BY DEF TypeOK
  <2>4. Layout(lay)'
    BY <2>2 DEF Layout, LinkedAs, IsEmpty
  <2>5. Layout(Found)'
    BY <2>2, <2>3, <2>4, LayoutIsFound
  <2> QED BY <2>3, <2>5 DEF NodesHoldInputs, NoDuplicates, GapIsTurn
<1> QED BY <1>1, <1>2

\* The heap is always two lists that hold what the queue owns.
THEOREM QueueInvariance == Spec => []QueueInv
<1> QED BY QueueInvInit, QueueInvNext, PTL DEF Spec

\* Every variable keeps its type.
THEOREM QueueTypeCorrect == Spec => []TypeOK
<1>1. QueueInv => TypeOK
  BY DEF QueueInv
<1> QED BY <1>1, QueueInvariance, PTL

-----------------------------------------------------------------------------
(***************************************************************************)
(* What the invariant says about the lists.                                *)
(***************************************************************************)

\* Each list ends where its tail says and is as long as its length says, and the
\* nodes of the two are the allocated ones: input_queue.c loses no node.
THEOREM ListsAreSound == Spec => []ListsSound
<1>1. ASSUME QueueInv PROVE ListsSound
  <2> USE <1>1 DEF QueueInv
  <2>1. ASSUME NEW q \in Queues
        PROVE  /\ Walk(q)[len[q]] = NULL
               /\ Cardinality(Chain(q)) = len[q]
               /\ IF IsEmpty(q) THEN head[q] = NULL ELSE tail[q] = Walk(q)[len[q] - 1]
    <3>1. LinkedAs(q, Found[q]) /\ len[q] \in Nat
      BY DEF Layout, TypeOK
    <3>2. \A k \in Nat : Walk(q)[k] = IF k < len[q] THEN Found[q][k + 1] ELSE NULL
      BY <3>1, WalkVisits
    <3>3. Cardinality(Chain(q)) = len[q]
      BY <3>1, ChainIsList
    <3>4. ~IsEmpty(q) => Walk(q)[len[q] - 1] = Found[q][len[q]]
      BY <3>1, <3>2 DEF IsEmpty
    <3> QED BY <3>1, <3>2, <3>3, <3>4 DEF LinkedAs
  <2>2. Chain("high") \cup Chain("low") = allocated /\ Chain("high") \cap Chain("low") = {}
    BY ChainsAreHeap
  <2> QED BY <2>1, <2>2 DEF ListsSound
<1> QED BY <1>1, QueueInvariance, PTL

\* No string is queued twice, in one list or across the two.
THEOREM StringsDistinct == Spec => []NoDuplicates
<1>1. QueueInv => NoDuplicates
  BY DEF QueueInv
<1> QED BY <1>1, QueueInvariance, PTL

\* The lists hold just what the queue is to free, and input_queue_fini frees all of it.
THEOREM QueueOwns == Spec => []Ownership
<1>1. ASSUME QueueInv PROVE Ownership
  <2> USE <1>1 DEF QueueInv
  <2>1. Chain("high") \cup Chain("low") = allocated
    BY ChainsAreHeap
  <2>2. Contents("high") \cup Contents("low") = {input[n] : n \in allocated}
    BY <2>1 DEF Contents
  <2> QED BY <2>2 DEF Ownership, NodesHoldInputs
<1> QED BY <1>1, QueueInvariance, PTL

\* While both lists are non-empty, low is dequeued from once in exactly ten turns.
THEOREM TurnsNineToOne == Spec => NineToOne
<1> DEFINE A == deq_cycle_ind' # deq_cycle_ind /\ gap # 10 /\ gap' # 10
                  => gap' = IF gap = 9 THEN 0 ELSE gap + 1
<1>1. ASSUME QueueInv, [Next]_vars PROVE [A]_vars
  <2> SUFFICES ASSUME deq_cycle_ind' # deq_cycle_ind, gap # 10, gap' # 10
               PROVE  gap' = IF gap = 9 THEN 0 ELSE gap + 1
    OBVIOUS
  <2>1. Dequeue /\ \E q \in Queues : ~IsEmpty(q)
    BY <1>1 DEF Next, Enqueue, Dequeue, Fini, vars
  <2>2. /\ deq_cycle_ind \in 0 .. 9 /\ gap = deq_cycle_ind
        /\ gap' = NewGap(TargetQueue)
    BY <1>1, <2>1 DEF QueueInv, TypeOK, GapIsTurn, Dequeue
  <2>3. ~IsEmpty("high") /\ ~IsEmpty("low")
    BY <2>2 DEF NewGap, Queues
  <2>4. TargetQueue = "low" <=> deq_cycle_ind = 9
    BY <2>2, <2>3 DEF TargetQueue
  <2> QED BY <2>2, <2>3, <2>4 DEF NewGap, Queues
<1>2. QueueInv /\ [Next]_vars => [A]_vars
  BY <1>1
<1> QED BY <1>2, QueueInvariance, PTL DEF Spec, NineToOne

-----------------------------------------------------------------------------
(***************************************************************************)
(* The linked lists implement the two queues of input_queue.h.             *)
(***************************************************************************)

\* Appending to a sequence, and moving its first element behind its last.
LEMMA AppendIs ==
  ASSUME NEW S, NEW s \in Seq(S), NEW e \in S,
         NEW t, t = [k \in 1 .. Len(s) + 1 |-> IF k = Len(s) + 1 THEN e ELSE s[k]]
  PROVE  t = Append(s, e)
<1>1. Len(s) \in Nat /\ \A k \in 1 .. Len(s) : s[k] \in S
  BY LenProperties
<1>2. t \in Seq(S) /\ Len(t) = Len(s) + 1
  BY <1>1
<1>3. /\ Append(s, e) \in Seq(S) /\ Len(Append(s, e)) = Len(s) + 1
      /\ \A k \in 1 .. Len(s) : Append(s, e)[k] = s[k]
      /\ Append(s, e)[Len(s) + 1] = e
  BY AppendProperties
<1>4. ASSUME NEW k \in 1 .. Len(t) PROVE t[k] = Append(s, e)[k]
  BY <1>1, <1>2, <1>3
<1> QED BY <1>2, <1>3, <1>4, SeqEqual

LEMMA RotatedIs ==
  ASSUME NEW S, NEW s \in Seq(S), s # <<>>,
         NEW t, t = [k \in 1 .. Len(s) |-> IF k = Len(s) THEN s[1] ELSE s[k + 1]]
  PROVE  t = Append(Tail(s), Head(s))
<1> DEFINE r == Tail(s)
           e == Head(s)
<1>1. r \in Seq(S) /\ e \in S /\ Len(r) = Len(s) - 1 /\ \A k \in 1 .. Len(r) : r[k] = s[k + 1]
  BY HeadTailProperties
<1>2. e = s[1] /\ Len(s) \in Nat
  BY LenProperties
<1> HIDE DEF r, e
<1>3. Len(r) + 1 = Len(s)
  BY <1>1, <1>2
<1>4. ASSUME NEW k \in 1 .. Len(s)
      PROVE  (IF k = Len(s) THEN s[1] ELSE s[k + 1]) = IF k = Len(r) + 1 THEN e ELSE r[k]
  BY <1>1, <1>2, <1>3
<1>5. t = [k \in 1 .. Len(r) + 1 |-> IF k = Len(r) + 1 THEN e ELSE r[k]]
  BY <1>3, <1>4
<1>6. t = Append(r, e)
  BY <1>1, <1>5, AppendIs
<1> QED BY <1>6 DEF r, e

\* The inputs of a list, in the order of its nodes.
LEMMA SequenceOfFound ==
  ASSUME NEW q \in Queues
  PROVE  /\ Sequence(q) = [k \in 1 .. len[q] |-> input[Found[q][k]]]
         /\ Sequence(q)' = [k \in 1 .. len'[q] |-> input'[Found'[q][k]]]
BY DEF Sequence, Found

LEMMA SequenceType ==
  ASSUME QueueInv, NEW q \in Queues
  PROVE  /\ len[q] \in Nat /\ Sequence(q) \in Seq(Inputs) /\ Len(Sequence(q)) = len[q]
         /\ \A k \in 1 .. len[q] : /\ Found[q][k] \in allocated
                                   /\ Sequence(q)[k] = input[Found[q][k]]
         /\ IsEmpty(q) <=> Sequence(q) = <<>>
<1>1. len[q] \in Nat /\ LinkedAs(q, Found[q])
  BY DEF QueueInv, TypeOK, Layout
<1>2. ASSUME NEW k \in 1 .. len[q] PROVE Found[q][k] \in allocated
  <2>1. Found[q][k] \in Nodes
    BY <1>1 DEF LinkedAs
  <2> QED BY <2>1 DEF QueueInv, Layout
<1>3. Sequence(q) = [k \in 1 .. len[q] |-> input[Found[q][k]]]
  BY SequenceOfFound
<1>4. \A k \in 1 .. len[q] : Sequence(q)[k] = input[Found[q][k]] /\ Sequence(q)[k] \in Inputs
  BY <1>2, <1>3 DEF QueueInv, NodesHoldInputs
<1>5. Sequence(q) \in Seq(Inputs) /\ Len(Sequence(q)) = len[q]
  <2>1. Sequence(q) \in [1 .. len[q] -> Inputs]
    BY <1>3, <1>4
  <2>2. Sequence(q) \in Seq(Inputs)
    BY <1>1, <2>1, SeqDef
  <2> QED BY <1>1, <2>1, <2>2, LenProperties
<1>6. Sequence(q) = <<>> <=> Len(Sequence(q)) = 0
  BY <1>5, EmptySeq
<1> QED BY <1>1, <1>2, <1>4, <1>5, <1>6 DEF IsEmpty

\* A list that is neither linked nor rotated holds the inputs it held.
LEMMA SameSequence ==
  ASSUME QueueInv, NEW q \in Queues, len'[q] = len[q], Found'[q] = Found[q],
         \A n \in allocated : input'[n] = input[n]
  PROVE  Sequence(q)' = Sequence(q)
BY SequenceOfFound, SequenceType

\* What leaves the lists alone leaves the queues alone.
LEMMA ListsUnchanged ==
  ASSUME QueueInv, TypeOK', UNCHANGED lists, NEW q \in Queues
  PROVE  Sequence(q)' = Sequence(q)
<1>1. PICK lay : lay = Found
  OBVIOUS
<1>2. Layout(lay) /\ DOMAIN lay = Queues /\ lay = [p \in DOMAIN lay |-> lay[p]]
  BY <1>1 DEF Found, QueueInv
<1>3. Layout(lay)'
  BY <1>2 DEF Layout, LinkedAs, IsEmpty, lists
<1>4. Found' = Found
  BY <1>1, <1>2, <1>3, LayoutIsFound
<1> QED BY <1>4, SameSequence DEF lists

AbstractVars == <<Sequence("high"), Sequence("low"), deq_cycle_ind, returned>>

\* enqueue_high_prio_input and enqueue_low_prio_input add an input, or nothing.
LEMMA EnqueueAdds ==
  ASSUME QueueInv, NEW q \in Queues, NEW i \in Inputs, Enqueue(q, i)
  PROVE  QS!Add(i) \/ UNCHANGED AbstractVars
<1>1. QueueInv' /\ TypeOK'
  BY EnqueueKeeps DEF QueueInv
<1>2. UNCHANGED <<deq_cycle_ind, returned>> /\ "high" \in Queues /\ "low" \in Queues
  BY DEF Enqueue, Queues
<1>3. CASE UNCHANGED lists
  BY <1>1, <1>2, <1>3, ListsUnchanged DEF AbstractVars
<1>4. ASSUME NEW n \in Nodes \ allocated, allocated' = allocated \cup {n},
             input' = [input EXCEPT ![n] = i], Link(q, n)
      PROVE  QS!Add(i)
  <2>1. PICK lay : lay = Found
    OBVIOUS
  <2>2. Layout(lay) /\ DOMAIN lay = Queues
    BY <2>1 DEF Found, QueueInv
  <2>3. PICK new : new = Longer(lay, q, n)
    OBVIOUS
  <2>4. DOMAIN new = Queues /\ new = [p \in DOMAIN new |-> new[p]]
    BY <2>2, <2>3 DEF Longer
  <2>5. Layout(new)'
    BY <1>4, <2>2, <2>3, LinkLayout DEF QueueInv
  <2>6. Found' = new
    BY <1>1, <2>4, <2>5, LayoutIsFound
  <2>7. /\ new[q] = [k \in 1 .. len[q] + 1 |-> IF k = len[q] + 1 THEN n ELSE lay[q][k]]
        /\ \A p \in Queues : p # q => new[p] = lay[p]
    BY <2>2, <2>3 DEF Longer
  <2>8. /\ len'[q] = len[q] + 1 /\ \A p \in Queues : p # q => len'[p] = len[p]
        /\ input'[n] = i /\ \A m \in allocated : input'[m] = input[m]
    BY <1>4 DEF Link, QueueInv, TypeOK
  <2>9. ASSUME NEW p \in Queues, p # q PROVE Sequence(p)' = Sequence(p)
    BY <2>1, <2>6, <2>7, <2>8, <2>9, SameSequence
  <2>10. Sequence(q)' = Append(Sequence(q), i)
    <3>1. Sequence(q)' = [k \in 1 .. len[q] + 1 |-> input'[new[q][k]]]
      BY <2>6, <2>8, SequenceOfFound
    <3>2. ASSUME NEW k \in 1 .. len[q] + 1
          PROVE  input'[new[q][k]] = IF k = len[q] + 1 THEN i ELSE Sequence(q)[k]
      <4>1. len[q] \in Nat
        BY SequenceType
      <4>2. CASE k = len[q] + 1
        BY <2>7, <2>8, <4>2
      <4>3. CASE k # len[q] + 1
        <5>1. k \in 1 .. len[q] /\ new[q][k] = Found[q][k]
          BY <2>1, <2>7, <4>1, <4>3
        <5> QED BY <2>8, <4>3, <5>1, SequenceType
      <4> QED BY <4>2, <4>3
    <3>3. Sequence(q)' = [k \in 1 .. len[q] + 1 |-> IF k = len[q] + 1 THEN i ELSE Sequence(q)[k]]
      BY <3>1, <3>2
    <3>4. Sequence(q) \in Seq(Inputs) /\ Len(Sequence(q)) = len[q]
      BY SequenceType
    <3> QED BY <3>3, <3>4, AppendIs
  <2>11. CASE q = "high"
    BY <1>2, <2>9, <2>10, <2>11 DEF QS!Add
  <2>12. CASE q = "low"
    BY <1>2, <2>9, <2>10, <2>12 DEF QS!Add
  <2> QED BY <2>11, <2>12 DEF Queues
<1> QED BY <1>3, <1>4 DEF Enqueue

\* dequeue_input takes from one queue, in turn, or finds both empty.
LEMMA DequeueTakes ==
  ASSUME QueueInv, Dequeue
  PROVE  QS!Take \/ QS!TakeNothing
<1>1. QueueInv' /\ TypeOK' /\ deq_cycle_ind \in 0 .. 9
  BY DequeueKeeps DEF QueueInv, TypeOK
<1>2. "high" \in Queues /\ "low" \in Queues /\ Queues = {"high", "low"}
  BY DEF Queues
<1>3. CASE \A q \in Queues : IsEmpty(q)
  <2>1. returned' = NULL /\ UNCHANGED <<lists, deq_cycle_ind>>
    BY <1>3 DEF Dequeue
  <2>2. \A q \in Queues : Sequence(q)' = Sequence(q) /\ Sequence(q) = <<>>
    BY <1>1, <1>3, <2>1, ListsUnchanged, SequenceType
  <2> QED BY <1>2, <2>1, <2>2 DEF QS!TakeNothing
<1>4. CASE \E q \in Queues : ~IsEmpty(q)
  <2>1. PICK t \in Queues : t = TargetQueue /\ ~IsEmpty(t)
    BY <1>4, TargetHasHead
  <2>2. /\ Rotate(t) /\ returned' = input[head[t]] /\ UNCHANGED <<input, allocated>>
        /\ deq_cycle_ind' = (deq_cycle_ind + 1) % 10
    BY <1>4, <2>1 DEF Dequeue, NextTurn
  <2>3. PICK lay : lay = Found
    OBVIOUS
  <2>4. Layout(lay) /\ DOMAIN lay = Queues
    BY <2>3 DEF Found, QueueInv
  <2>5. PICK new : new = Rotated(lay, t)
    OBVIOUS
  <2>6. DOMAIN new = Queues /\ new = [p \in DOMAIN new |-> new[p]]
    BY <2>4, <2>5 DEF Rotated
  <2>7. Layout(new)'
    BY <2>1, <2>2, <2>4, <2>5, RotateLayout DEF QueueInv
  <2>8. Found' = new
    BY <1>1, <2>6, <2>7, LayoutIsFound
  <2>9. /\ new[t] = [k \in 1 .. len[t] |-> IF k = len[t] THEN lay[t][1] ELSE lay[t][k + 1]]
        /\ \A p \in Queues : p # t => new[p] = lay[p]
    BY <2>4, <2>5 DEF Rotated
  <2>10. len' = len /\ input' = input
    BY <2>2 DEF Rotate
  <2>11. ASSUME NEW p \in Queues, p # t PROVE Sequence(p)' = Sequence(p)
    BY <2>3, <2>8, <2>9, <2>10, <2>11, SameSequence
  <2>12. len[t] \in Nat \ {0} /\ Sequence(t) \in Seq(Inputs) /\ Len(Sequence(t)) = len[t]
    BY <2>1, SequenceType DEF IsEmpty
  <2>13. Sequence(t)' = QS!Rotated(Sequence(t))
    <3>1. Sequence(t)' = [k \in 1 .. len[t] |-> input[new[t][k]]]
      BY <2>8, <2>10, SequenceOfFound
    <3>2. ASSUME NEW k \in 1 .. len[t]
          PROVE  input[new[t][k]] = IF k = len[t] THEN Sequence(t)[1] ELSE Sequence(t)[k + 1]
      <4>1. 1 \in 1 .. len[t] /\ (k # len[t] => k + 1 \in 1 .. len[t])
        BY <2>12
      <4> QED BY <2>3, <2>9, <4>1, SequenceType
    <3>3. Sequence(t)' = [k \in 1 .. len[t] |-> IF k = len[t] THEN Sequence(t)[1]
                                               ELSE Sequence(t)[k + 1]]
      BY <3>1, <3>2
    <3>4. Sequence(t) # <<>>
      BY <2>12
    <3> QED BY <2>12, <3>3, <3>4, RotatedIs DEF QS!Rotated
  <2>14. returned' = Head(Sequence(t))
    <3>1. head[t] = Found[t][1] /\ 1 \in 1 .. len[t]
      BY <2>1, <2>12 DEF QueueInv, Layout, LinkedAs
    <3> QED BY <2>2, <2>12, <3>1, SequenceType
  <2>15. \A q \in Queues : IsEmpty(q) <=> Sequence(q) = <<>>
    BY SequenceType
  <2>16. CASE t = "high"
    <3>1. deq_cycle_ind < 9 \/ IsEmpty("low")
      BY <2>1, <2>16 DEF TargetQueue
    <3> QED BY <1>2, <2>1, <2>2, <2>11, <2>13, <2>14, <2>15, <2>16, <3>1 DEF QS!Take, QS!FromHigh
  <2>17. CASE t = "low"
    <3>1. deq_cycle_ind = 9 \/ IsEmpty("high")
      BY <1>1, <2>1, <2>17 DEF TargetQueue
    <3> QED BY <1>2, <2>1, <2>2, <2>11, <2>13, <2>14, <2>15, <2>17, <3>1 DEF QS!Take, QS!FromLow
  <2> QED BY <1>2, <2>16, <2>17
<1> QED BY <1>3, <1>4

\* input_queue_fini empties both queues.
LEMMA FiniCloses ==
  ASSUME Fini
  PROVE  QS!Close
<1>1. ASSUME NEW q \in Queues PROVE Sequence(q)' = <<>>
  <2>1. len'[q] = 0 /\ 1 .. 0 = {}
    BY DEF Fini
  <2> QED BY <2>1, SequenceOfFound
<1> QED BY <1>1 DEF Fini, QS!Close, Queues

\* input_queue.c behaves as two queues with a cycle of turns: each step of the linked
\* lists is a step of InputQueueSpec, or none of its business.
THEOREM ListsImplementQueues == Spec => ImplementsQueueSpec
<1>1. Init => QS!Init
  <2> SUFFICES ASSUME Init PROVE QS!Init
    OBVIOUS
  <2>1. ASSUME NEW q \in Queues PROVE Sequence(q) = <<>>
    <3>1. len[q] = 0 /\ 1 .. 0 = {}
      BY DEF Init
    <3> QED BY <3>1, SequenceOfFound
  <2> QED BY <2>1 DEF Init, QS!Init, Queues
<1>2. QueueInv /\ QueueInv' /\ [Next]_vars => [QS!Next]_AbstractVars
  <2> SUFFICES ASSUME QueueInv, QueueInv', [Next]_vars PROVE [QS!Next]_AbstractVars
    OBVIOUS
  <2>1. ASSUME NEW q \in Queues, NEW i \in Inputs, Enqueue(q, i)
        PROVE  QS!Next \/ UNCHANGED AbstractVars
    BY <2>1, EnqueueAdds DEF QS!Next
  <2>2. CASE Dequeue
    BY <2>2, DequeueTakes DEF QS!Next
  <2>3. CASE Fini
    BY <2>3, FiniCloses DEF QS!Next
  <2>4. CASE UNCHANGED vars
    <3>1. UNCHANGED lists /\ UNCHANGED <<deq_cycle_ind, returned>> /\ TypeOK'
      BY <2>4 DEF vars, QueueInv
    <3> QED BY <3>1, ListsUnchanged DEF AbstractVars, Queues
  <2> QED BY <2>1, <2>2, <2>3, <2>4 DEF Next
<1> QED BY <1>1, <1>2, QueueInvariance, PTL DEF Spec, ImplementsQueueSpec, QS!Spec, AbstractVars
=============================================================================
