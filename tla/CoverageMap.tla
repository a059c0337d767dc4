---------------------------- MODULE CoverageMap ----------------------------
(***************************************************************************)
(* The coverage map (src/fuzzer/src/coverage_map.c): a bitmap of edges and *)
(* a hash set of whole bitmaps with one chain per bucket.  A buffer of     *)
(* coverage data is the set of edges whose bits are on; the FNV-1a hash    *)
(* modulo TABLE_SIZE is an arbitrary function into the buckets.            *)
(***************************************************************************)
EXTENDS Naturals, Sequences, FiniteSets, Functions

CONSTANTS
    Edges,       \* bits of the bitmap
    Buckets,     \* indices of the hash table
    hash_ind,    \* the bucket of each buffer
    MayFail      \* may malloc of a hash node fail?

ASSUME MapAssumption ==
    /\ hash_ind \in [SUBSET Edges -> Buckets]
    /\ MayFail \in BOOLEAN

VARIABLES
    bitmap,    \* map->bitmap
    hashset,   \* map->hashset: per bucket its chain, newest node first
    priority   \* what the last coverage_map_add returned

mapVars == <<bitmap, hashset, priority>>

\* coverage_map_init
MapInit ==
    /\ bitmap = {}
    /\ hashset = [b \in Buckets |-> <<>>]
    /\ priority = "NONE"

FoundNewEdge(data) == ~(data \subseteq bitmap)

\* Mutant: only the first node of the chain is compared.
HeadDiffers(data) ==
    LET chain == hashset[hash_ind[data]]
    IN  IF chain = <<>> THEN TRUE ELSE Head(chain) # data

\* Mutant: a collision counts as the same path.
BucketEmpty(data) == hashset[hash_ind[data]] = <<>>

\* The walk along the chain of the buffer's bucket.
FoundNewPath(data) == data \notin Range(hashset[hash_ind[data]])

\* Mutant: the path is looked at before the edge.
LowBeforeHigh(data) ==
    IF FoundNewPath(data) THEN "LOW" ELSE IF FoundNewEdge(data) THEN "HIGH" ELSE "NO"

Priority(data) ==
    IF FoundNewEdge(data) THEN "HIGH" ELSE IF FoundNewPath(data) THEN "LOW" ELSE "NO"

\* Mutant: the hash is not reduced to the size of the table.
InsertBeyond(data) ==
    [b \in Buckets \cup {Cardinality(Buckets)} |->
        IF b \in Buckets THEN hashset[b] ELSE <<data>>]

\* A new node becomes the head of its chain.
Insert(data) == [hashset EXCEPT ![hash_ind[data]] = <<data>> \o @]

\* coverage_map_add
Add(data) ==
    /\ bitmap' = bitmap \cup data
    /\ hashset' = (IF FoundNewPath(data) THEN Insert(data) ELSE hashset)
    /\ priority' = Priority(data)

\* coverage_map_add, malloc of the node fails after the bitmap has been updated.
AddFails(data) ==
    /\ MayFail /\ FoundNewPath(data)
    /\ bitmap' = bitmap \cup data
    /\ priority' = "NO"
    /\ UNCHANGED hashset

MapNext == \E data \in SUBSET Edges : Add(data) \/ AddFails(data)

MapSpec == MapInit /\ [][MapNext]_mapVars

-----------------------------------------------------------------------------
Stored == UNION {Range(hashset[b]) : b \in Buckets}

MapTypeOK ==
    /\ bitmap \subseteq Edges
    /\ hashset \in [Buckets -> Seq(SUBSET Edges)]
    /\ priority \in {"NONE", "NO", "LOW", "HIGH"}

\* The hash set holds every buffer once, in the bucket where the lookup will
\* search for it, and no edge that the bitmap does not have.
HashsetSound ==
    /\ \A b \in Buckets : \A i \in DOMAIN hashset[b] :
          /\ hash_ind[hashset[b][i]] = b
          /\ \A j \in DOMAIN hashset[b] : hashset[b][i] = hashset[b][j] => i = j
    /\ \A data \in Stored : data \subseteq bitmap

CS == INSTANCE CoverageSpec WITH branches <- bitmap, behaviours <- Stored

\* coverage_map_add keeps what coverage_map.h promises of it, whatever the hash.
ImplementsCoverageSpec == CS!Spec

=============================================================================
