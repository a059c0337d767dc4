--------------------------- MODULE CoverageProofs ---------------------------
(***************************************************************************)
(* The coverage map implements CoverageSpec for every hash function, every *)
(* number of edges, buckets, runners and executions, out of memory or not. *)
(***************************************************************************)
EXTENDS CoverageFeedback, TLAPS

MapInv == MapTypeOK /\ HashsetSound

\* What prepending a node does to a chain.
LEMMA ChainInsert ==
  ASSUME NEW S, NEW chain \in Seq(S), NEW data \in S
  PROVE  LET longer == <<data>> \o chain IN
         /\ longer \in Seq(S)
         /\ Range(longer) = {data} \cup Range(chain)
         /\ DOMAIN longer = 1 .. Len(chain) + 1
         /\ longer[1] = data
         /\ \A i \in DOMAIN chain : longer[i + 1] = chain[i]
         /\ \A i \in DOMAIN longer : i # 1 => i - 1 \in DOMAIN chain /\ longer[i] = chain[i - 1]
<1> DEFINE longer == <<data>> \o chain
<1>1. longer \in Seq(S) /\ Len(longer) = Len(chain) + 1 /\ longer[1] = data
  OBVIOUS
<1>2. DOMAIN longer = 1 .. Len(chain) + 1 /\ DOMAIN chain = 1 .. Len(chain)
  BY <1>1
<1>3. \A i \in DOMAIN chain : longer[i + 1] = chain[i]
  BY <1>2
<1>4. ASSUME NEW i \in DOMAIN longer, i # 1
      PROVE  i - 1 \in DOMAIN chain /\ longer[i] = chain[i - 1]
  <2>1. i \in 1 .. Len(chain) + 1 /\ Len(chain) \in Nat
    BY <1>2
  <2>2. i - 1 \in DOMAIN chain /\ (i - 1) + 1 = i
    BY <1>2, <1>4, <2>1
  <2>3. longer[(i - 1) + 1] = chain[i - 1]
    BY <1>3, <2>2
  <2> QED BY <2>2, <2>3
<1>5. Range(longer) = {data} \cup Range(chain)
  <2>1. ASSUME NEW x \in Range(longer) PROVE x \in {data} \cup Range(chain)
    BY <1>1, <1>4 DEF Range
  <2>2. ASSUME NEW x \in {data} \cup Range(chain) PROVE x \in Range(longer)
    <3>1. CASE x = data
      BY <1>1, <1>2, <3>1 DEF Range
    <3>2. CASE x \in Range(chain)
      <4>1. PICK i \in DOMAIN chain : x = chain[i]
        BY <3>2 DEF Range
      <4>2. i + 1 \in DOMAIN longer /\ longer[i + 1] = x
        BY <1>2, <1>3, <4>1
      <4> QED BY <4>2 DEF Range
    <3> QED BY <2>2, <3>1, <3>2
  <2> QED BY <2>1, <2>2
<1> QED BY <1>1, <1>2, <1>3, <1>4, <1>5

\* A buffer is stored if and only if it is in the chain of its bucket.
LEMMA LookupFinds ==
  ASSUME MapInv, NEW data \in SUBSET Edges
  PROVE  FoundNewPath(data) <=> data \notin Stored
<1>1. hash_ind[data] \in Buckets
  BY MapAssumption
<1>2. ASSUME NEW b \in Buckets, data \in Range(hashset[b]) PROVE b = hash_ind[data]
  BY <1>2 DEF MapInv, HashsetSound, Range
<1> QED BY <1>1, <1>2 DEF FoundNewPath, Stored

\* Storing a new buffer keeps the hash set sound and adds that buffer to it.
LEMMA InsertStores ==
  ASSUME MapInv, NEW data \in SUBSET Edges, data \notin Stored,
         hashset' = Insert(data)
  PROVE  /\ hashset' \in [Buckets -> Seq(SUBSET Edges)]
         /\ Stored' = Stored \cup {data}
         /\ \A b \in Buckets : \A i \in DOMAIN hashset'[b] :
               /\ hash_ind[hashset'[b][i]] = b
               /\ \A j \in DOMAIN hashset'[b] :
                     hashset'[b][i] = hashset'[b][j] => i = j
<1> DEFINE h == hash_ind[data]
<1> DEFINE chain == hashset[h]
<1>1. h \in Buckets /\ chain \in Seq(SUBSET Edges)
  BY MapAssumption DEF MapInv, MapTypeOK
<1>2. /\ hashset'[h] = <<data>> \o chain
      /\ \A b \in Buckets \ {h} : hashset'[b] = hashset[b]
      /\ DOMAIN hashset' = Buckets
  BY <1>1 DEF Insert, MapInv, MapTypeOK
<1>3. /\ hashset'[h] \in Seq(SUBSET Edges)
      /\ Range(hashset'[h]) = {data} \cup Range(chain)
      /\ hashset'[h][1] = data
      /\ \A i \in DOMAIN hashset'[h] :
            i # 1 => i - 1 \in DOMAIN chain /\ hashset'[h][i] = chain[i - 1]
      /\ DOMAIN hashset'[h] = 1 .. Len(chain) + 1
  BY <1>1, <1>2, ChainInsert
<1>4. hashset' \in [Buckets -> Seq(SUBSET Edges)]
  BY <1>1, <1>2, <1>3 DEF MapInv, MapTypeOK, Insert
<1>5. Stored' = Stored \cup {data}
  <2>1. \A x : x \in Stored <=> \E b \in Buckets : x \in Range(hashset[b])
    BY DEF Stored
  <2>2. \A x : x \in Stored' <=> \E b \in Buckets : x \in Range(hashset'[b])
    BY DEF Stored
  <2>3. \A b \in Buckets : \A x : x \in Range(hashset'[b])
                              <=> x \in Range(hashset[b]) \/ (b = h /\ x = data)
    BY <1>1, <1>2, <1>3
  <2> HIDE DEF h, chain
  <2>4. \A x : x \in Stored' <=> x \in Stored \/ x = data
    BY <1>1, <2>1, <2>2, <2>3
  <2> QED BY <2>4
<1>6. /\ \A i \in DOMAIN chain : chain[i] \in Stored
      /\ \A i \in DOMAIN chain : /\ hash_ind[chain[i]] = h
                               /\ \A j \in DOMAIN chain : chain[i] = chain[j] => i = j
  <2>1. \A i \in DOMAIN chain : chain[i] \in Stored
    BY <1>1 DEF Stored, Range
  <2>2. \A b \in Buckets : \A i \in DOMAIN hashset[b] :
           /\ hash_ind[hashset[b][i]] = b
           /\ \A j \in DOMAIN hashset[b] : hashset[b][i] = hashset[b][j] => i = j
    BY DEF MapInv, HashsetSound
  <2> QED BY <1>1, <2>1, <2>2
<1>7. ASSUME NEW b \in Buckets, NEW i \in DOMAIN hashset'[b], NEW j \in DOMAIN hashset'[b]
      PROVE  /\ hash_ind[hashset'[b][i]] = b
             /\ hashset'[b][i] = hashset'[b][j] => i = j
  <2>1. CASE b # h
    BY <1>2, <1>7, <2>1 DEF MapInv, HashsetSound
  <2>2. CASE b = h
    <3>1. i \in Nat /\ j \in Nat
      BY <1>1, <1>3, <2>2
    <3>2. \A k \in DOMAIN chain : chain[k] # data /\ hash_ind[chain[k]] = h
      BY <1>6
    <3>3. hash_ind[hashset'[b][i]] = b
      BY <1>3, <2>2, <3>2
    <3>4. ASSUME hashset'[b][i] = hashset'[b][j] PROVE i = j
      <4>1. CASE i = 1 \/ j = 1
        BY <1>3, <2>2, <3>2, <3>4, <4>1
      <4>2. CASE i # 1 /\ j # 1
        <5>1. i - 1 \in DOMAIN chain /\ j - 1 \in DOMAIN chain /\ chain[i - 1] = chain[j - 1]
          BY <1>3, <2>2, <3>4, <4>2
        <5>2. i - 1 = j - 1
          BY <1>6, <5>1
        <5> QED BY <3>1, <5>2
      <4> QED BY <4>1, <4>2
    <3> QED BY <3>3, <3>4
  <2> QED BY <2>1, <2>2
<1> QED BY <1>4, <1>5, <1>7

-----------------------------------------------------------------------------
\* One call of coverage_map_add keeps the invariant and is a step of CoverageSpec.
LEMMA CallImplements ==
  ASSUME MapInv, NEW data \in SUBSET Edges, Add(data) \/ AddFails(data)
  PROVE  MapInv' /\ (CS!Record(data) \/ CS!Forget(data))
<1>1. FoundNewPath(data) <=> data \notin Stored
  BY LookupFinds
<1>2. bitmap' = bitmap \cup data /\ bitmap' \subseteq Edges
  BY DEF Add, AddFails, MapInv, MapTypeOK
<1>3. CASE Add(data) /\ FoundNewPath(data)
  <2>1. hashset' = Insert(data)
    BY <1>3 DEF Add
  <2>2. /\ hashset' \in [Buckets -> Seq(SUBSET Edges)]
        /\ Stored' = Stored \cup {data}
        /\ \A b \in Buckets : \A i \in DOMAIN hashset'[b] :
              /\ hash_ind[hashset'[b][i]] = b
              /\ \A j \in DOMAIN hashset'[b] :
                    hashset'[b][i] = hashset'[b][j] => i = j
    BY <1>1, <1>3, <2>1, InsertStores
  <2>3. \A d \in Stored' : d \subseteq bitmap'
    BY <1>2, <2>2 DEF MapInv, HashsetSound
  <2>4. MapInv'
    BY <1>2, <1>3, <2>2, <2>3 DEF MapInv, MapTypeOK, HashsetSound, Add, Priority
  <2>5. CS!Record(data)
    BY <1>1, <1>2, <1>3, <2>2 DEF CS!Record, CS!Rank, Add, Priority, FoundNewEdge
  <2> QED BY <2>4, <2>5
<1>4. CASE Add(data) /\ ~FoundNewPath(data)
  <2>1. hashset' = hashset
    BY <1>4 DEF Add
  <2>2. Stored' = Stored
    BY <2>1 DEF Stored
  <2>3. MapInv'
    BY <1>2, <1>4, <2>1, <2>2 DEF MapInv, MapTypeOK, HashsetSound, Add, Priority
  <2>4. CS!Record(data)
    BY <1>1, <1>2, <1>4, <2>2 DEF CS!Record, CS!Rank, Add, Priority, FoundNewEdge
  <2> QED BY <2>3, <2>4
<1>5. CASE AddFails(data)
  <2>1. hashset' = hashset
    BY <1>5 DEF AddFails
  <2>2. Stored' = Stored
    BY <2>1 DEF Stored
  <2>3. MapInv'
    BY <1>2, <1>5, <2>1, <2>2 DEF MapInv, MapTypeOK, HashsetSound, AddFails
  <2>4. CS!Forget(data)
    BY <1>1, <1>2, <1>5, <2>2 DEF CS!Forget, AddFails
  <2> QED BY <2>3, <2>4
<1> QED BY <1>3, <1>4, <1>5

\* Steps that do not call coverage_map_add keep the map's invariant.
LEMMA MapStutter ==
  ASSUME MapInv, UNCHANGED mapVars
  PROVE  MapInv' /\ UNCHANGED <<bitmap, Stored, priority>>
BY DEF MapInv, MapTypeOK, HashsetSound, Stored, mapVars

\* coverage_map_init leaves an empty, sound map.
LEMMA MapInitial == MapInit => MapInv /\ CS!Init
<1> SUFFICES ASSUME MapInit PROVE MapInv /\ CS!Init
  OBVIOUS
<1>1. \A b \in Buckets : hashset[b] = <<>> /\ Range(hashset[b]) = {}
  BY DEF MapInit, Range
<1>2. Stored = {}
  BY <1>1 DEF Stored
<1> QED BY <1>1, <1>2 DEF MapInit, MapInv, MapTypeOK, HashsetSound, CS!Init

-----------------------------------------------------------------------------
IInv == TypeOK /\ MapInv /\ OwnCovered

\* The initial state of the composition satisfies the invariant.
LEMMA Initial == Init => IInv
BY MapInitial DEF Init, IInv, TypeOK, MapInv, OwnCovered, Outcomes

\* Every step of the composition keeps the invariant, and what it does to the
\* map is a step of CoverageSpec or nothing.
LEMMA StepImplements ==
  ASSUME IInv, [Next]_vars
  PROVE  IInv' /\ [CS!Next]_<<bitmap, Stored, priority>>
<1>1. CASE UNCHANGED vars
  <2>1. UNCHANGED mapVars
    BY <1>1 DEF vars
  <2>2. MapInv' /\ UNCHANGED <<bitmap, Stored, priority>>
    BY <2>1, MapStutter DEF IInv
  <2> QED BY <1>1, <2>2 DEF IInv, TypeOK, MapInv, OwnCovered, vars
<1>2. ASSUME NEW r \in Runners, UNCHANGED mapVars,
             \/ Execute(r) \/ Finish(r) \/ HandleOther(r)
             \/ \E edge \in Edges : TracePcGuard(r, edge)
      PROVE  IInv' /\ [CS!Next]_<<bitmap, Stored, priority>>
  <2>1. MapInv' /\ UNCHANGED <<bitmap, Stored, priority>>
    BY <1>2, MapStutter DEF IInv
  <2>2. CASE Execute(r)
    BY <2>1, <2>2 DEF IInv, TypeOK, MapInv, OwnCovered, Execute
  <2>3. CASE Finish(r)
    BY <2>1, <2>3 DEF IInv, TypeOK, MapInv, OwnCovered, Finish
  <2>4. CASE HandleOther(r)
    BY <2>1, <2>4 DEF IInv, TypeOK, MapInv, OwnCovered, HandleOther
  <2>5. ASSUME NEW edge \in Edges, TracePcGuard(r, edge)
        PROVE  IInv' /\ [CS!Next]_<<bitmap, Stored, priority>>
    BY <2>1, <2>5 DEF IInv, TypeOK, MapInv, OwnCovered, TracePcGuard
  <2> QED BY <1>2, <2>2, <2>3, <2>4, <2>5
<1>3. ASSUME NEW r \in Runners, HandleValid(r)
      PROVE  IInv' /\ [CS!Next]_<<bitmap, Stored, priority>>
  <2>1. shm_mmap[r] \in SUBSET Edges
    BY DEF IInv, TypeOK
  <2>2. MapInv' /\ (CS!Record(shm_mmap[r]) \/ CS!Forget(shm_mmap[r]))
    BY <1>3, <2>1, CallImplements DEF IInv, HandleValid
  <2>3. IInv'
    BY <1>3, <2>2 DEF IInv, TypeOK, MapInv, OwnCovered, HandleValid
  <2>4. CS!Next
    BY <2>1, <2>2 DEF CS!Next
  <2> QED BY <2>3, <2>4
<1>4. \A r \in Runners : \A edge \in Edges :
         Execute(r) \/ Finish(r) \/ HandleOther(r) \/ TracePcGuard(r, edge)
            => UNCHANGED mapVars
  BY DEF Execute, Finish, HandleOther, TracePcGuard
<1>5. \A r \in Runners : Execute(r) \/ Finish(r) \/ HandleOther(r) => UNCHANGED mapVars
  BY DEF Execute, Finish, HandleOther
<1> QED BY <1>1, <1>2, <1>3, <1>4, <1>5 DEF Next

\* The invariant holds in every state of the composition.
LEMMA Invariance == Spec => []IInv
<1>1. Init => IInv
  BY Initial
<1>2. IInv /\ [Next]_vars => IInv'
  BY StepImplements
<1> QED BY <1>1, <1>2, PTL DEF Spec

\* Every variable of the map and of the shared bitmaps keeps its type.
THEOREM TypeCorrect == Spec => []TypeOK
<1>1. IInv => TypeOK
  BY DEF IInv
<1> QED BY <1>1, Invariance, PTL

\* Every buffer the hash set holds is where coverage_map_add will look for it,
\* once, and none has an edge that the bitmap lacks.
THEOREM HashsetStaysSound == Spec => []HashsetSound
<1>1. IInv => HashsetSound
  BY DEF IInv, MapInv
<1> QED BY <1>1, Invariance, PTL

\* The map as run_fuzzer uses it ranks every buffer as coverage_map.h promises.
THEOREM MapImplements == Spec => ImplementsCoverageSpec
<1>1. Init => CS!Init
  BY MapInitial DEF Init
<1>2. IInv /\ [Next]_vars => [CS!Next]_<<bitmap, Stored, priority>>
  BY StepImplements
<1> QED BY <1>1, <1>2, Invariance, PTL DEF Spec, CS!Spec, ImplementsCoverageSpec

\* No execution with an edge unknown to the map goes without the high priority.
THEOREM NovelEdges == Spec => NovelEdgesFound
<1>1. ASSUME IInv, [Next]_vars
      PROVE  \A r \in Runners : Handled(r) /\ ~(own[r] \subseteq bitmap)
                => priority' = "HIGH" \/ AddFails(shm_mmap[r])
  <2> SUFFICES ASSUME NEW r \in Runners, Handled(r), ~(own[r] \subseteq bitmap)
               PROVE  priority' = "HIGH" \/ AddFails(shm_mmap[r])
    OBVIOUS
  <2>1. run[r] = "VALID" /\ run'[r] = "idle" /\ run \in [Runners -> {"idle", "running"} \cup Outcomes]
    BY <1>1 DEF Handled, IInv, TypeOK
  <2>2. HandleValid(r)
    BY <1>1, <2>1 DEF Next, vars, Execute, Finish, HandleValid, HandleOther,
                      TracePcGuard, Outcomes
  <2>3. ~(shm_mmap[r] \subseteq bitmap)
    BY <1>1 DEF IInv, OwnCovered
  <2> QED BY <2>2, <2>3 DEF HandleValid, Add, Priority, FoundNewEdge
<1> QED BY <1>1, Invariance, PTL DEF Spec, NovelEdgesFound

=============================================================================
