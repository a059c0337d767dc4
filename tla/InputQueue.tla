----------------------------- MODULE InputQueue -----------------------------
(***************************************************************************)
(* The input queue (src/fuzzer/src/input_queue.c) down to its pointers:    *)
(* two singly linked lists with head, tail and length, in a heap of nodes. *)
(* run_fuzzer is its only caller, so a call is one step.                   *)
(***************************************************************************)
EXTENDS Naturals, Sequences, FiniteSets

CONSTANTS
    Inputs,    \* input objects
    str,       \* the string of each input
    Nodes,     \* addresses malloc can return for a node
    NULL,
    MayFail    \* may malloc of a node fail?

ASSUME QueueAssumption ==
    /\ NULL \notin Inputs \cup Nodes
    /\ IsFiniteSet(Nodes)
    /\ DOMAIN str = Inputs
    /\ MayFail \in BOOLEAN

Queues == {"high", "low"}

VARIABLES
    head, tail, len,   \* the fields of each Queue
    next, input,       \* the fields of each Node
    allocated,         \* the nodes that are allocated
    deq_cycle_ind,
    open,              \* is the queue between its init and its fini?
    owner,             \* who is to free each input, or "freed", or "lost"
    returned,          \* what the last dequeue_input returned
    gap                \* history: turns of high since the last turn of low, both non-empty

lists == <<head, tail, len, next, input, allocated>>
vars == <<lists, deq_cycle_ind, open, owner, returned, gap>>

\* input_queue_init
Init ==
    /\ head = [q \in Queues |-> NULL]
    /\ tail = [q \in Queues |-> NULL]
    /\ len = [q \in Queues |-> 0]
    /\ next = [n \in Nodes |-> NULL]
    /\ input = [n \in Nodes |-> NULL]
    /\ allocated = {}
    /\ deq_cycle_ind = 0
    /\ open = TRUE
    /\ owner = [i \in Inputs |-> "caller"]
    /\ returned = NULL
    /\ gap = 10

IsEmpty(q) == len[q] = 0

\* The address that a walk along a list has reached after k steps.
Walk(q) ==
    LET cur[k \in Nat] ==
          IF k = 0 THEN head[q] ELSE IF cur[k - 1] = NULL THEN NULL ELSE next[cur[k - 1]]
    IN  cur

\* The nodes that while(cur) visits.
Chain(q) == {Walk(q)[k] : k \in 0 .. Cardinality(Nodes)} \ {NULL}

Contents(q) == {input[n] : n \in Chain(q)}

\* Mutant: only the high list is searched.
DuplicateInHigh(i) == \E j \in Contents("high") : str[j] = str[i]

\* helpr_inp_is_duplicate
Duplicate(i) == \E j \in Contents("high") \cup Contents("low") : str[j] = str[i]

\* Mutant: the tail of a list that is not empty stays where it is.
LinkBehindTail(q, n) ==
    /\ head' = (IF IsEmpty(q) THEN [head EXCEPT ![q] = n] ELSE head)
    /\ tail' = (IF IsEmpty(q) THEN [tail EXCEPT ![q] = n] ELSE tail)
    /\ next' = (IF IsEmpty(q) THEN [next EXCEPT ![n] = NULL]
                ELSE [next EXCEPT ![n] = NULL, ![tail[q]] = n])
    /\ len' = [len EXCEPT ![q] = @ + 1]

\* A node becomes the tail of a list.
Link(q, n) ==
    /\ head' = (IF IsEmpty(q) THEN [head EXCEPT ![q] = n] ELSE head)
    /\ next' = (IF IsEmpty(q) THEN [next EXCEPT ![n] = NULL]
                ELSE [next EXCEPT ![n] = NULL, ![tail[q]] = n])
    /\ tail' = [tail EXCEPT ![q] = n]
    /\ len' = [len EXCEPT ![q] = @ + 1]

\* enqueue_high_prio_input and enqueue_low_prio_input, given an input of the caller's.
Enqueue(q, i) ==
    /\ open /\ owner[i] = "caller"
    /\ \/ /\ Duplicate(i)
          /\ owner' = [owner EXCEPT ![i] = "freed"]
          /\ UNCHANGED lists
       \/ /\ ~Duplicate(i)
          /\ \E n \in Nodes \ allocated :
                /\ allocated' = allocated \cup {n}
                /\ input' = [input EXCEPT ![n] = i]
                /\ Link(q, n)
          /\ owner' = [owner EXCEPT ![i] = "queue"]
       \/ /\ ~Duplicate(i) /\ MayFail
          /\ owner' = [owner EXCEPT ![i] = "lost"]
          /\ UNCHANGED lists
    /\ UNCHANGED <<deq_cycle_ind, open, returned, gap>>

\* Mutant: eight turns for high, two for low.
EightTurns ==
    IF deq_cycle_ind < 8
    THEN IF IsEmpty("high") THEN "low" ELSE "high"
    ELSE IF IsEmpty("low") THEN "high" ELSE "low"

\* Mutant: every turn is a turn of high.
NoLowTurn ==
    IF deq_cycle_ind <= 9
    THEN IF IsEmpty("high") THEN "low" ELSE "high"
    ELSE IF IsEmpty("low") THEN "high" ELSE "low"

\* The list that dequeue_input takes from.
TargetQueue ==
    IF deq_cycle_ind < 9
    THEN IF IsEmpty("high") THEN "low" ELSE "high"
    ELSE IF IsEmpty("low") THEN "high" ELSE "low"

\* Mutant: the cycle has no end.
NoCycle == deq_cycle_ind + 1

NextTurn == (deq_cycle_ind + 1) % 10

\* Mutant: the head stays at the head.
KeepHead(q) == UNCHANGED <<head, tail, len, next>>

\* The head of a list is unlinked and linked again as its tail.
Rotate(q) ==
    /\ head' = (IF len[q] = 1 THEN head ELSE [head EXCEPT ![q] = next[head[q]]])
    /\ next' = (IF len[q] = 1 THEN [next EXCEPT ![head[q]] = NULL]
                ELSE [next EXCEPT ![head[q]] = NULL, ![tail[q]] = head[q]])
    /\ tail' = [tail EXCEPT ![q] = head[q]]
    /\ UNCHANGED len

NewGap(q) ==
    IF \E p \in Queues : IsEmpty(p) THEN 10
    ELSE IF q = "low" THEN 0
    ELSE IF gap = 10 THEN 10 ELSE gap + 1

\* dequeue_input
Dequeue ==
    /\ open
    /\ \/ /\ \A q \in Queues : IsEmpty(q)
          /\ returned' = NULL
          /\ UNCHANGED <<lists, deq_cycle_ind, gap>>
       \/ /\ \E q \in Queues : ~IsEmpty(q)
          /\ returned' = input[head[TargetQueue]]
          /\ Rotate(TargetQueue)
          /\ deq_cycle_ind' = NextTurn
          /\ gap' = NewGap(TargetQueue)
          /\ UNCHANGED <<input, allocated>>
    /\ UNCHANGED <<open, owner>>

\* Mutant: the low list is forgotten.
FiniHigh == Chain("high")

\* The nodes input_queue_fini visits.
FiniNodes == Chain("high") \cup Chain("low")

\* input_queue_fini
Fini ==
    /\ open
    /\ open' = FALSE
    /\ owner' = [i \in Inputs |-> IF \E n \in FiniNodes : input[n] = i
                                  THEN "freed" ELSE owner[i]]
    /\ allocated' = allocated \ FiniNodes
    /\ head' = [q \in Queues |-> NULL]
    /\ tail' = [q \in Queues |-> NULL]
    /\ len' = [q \in Queues |-> 0]
    /\ returned' = NULL
    /\ UNCHANGED <<next, input, deq_cycle_ind, gap>>

Next == (\E q \in Queues, i \in Inputs : Enqueue(q, i)) \/ Dequeue \/ Fini

Spec == Init /\ [][Next]_vars

\* A caller that keeps dequeuing as long as the queue exists.
FairSpec == Spec /\ WF_vars(Dequeue)

-----------------------------------------------------------------------------
TypeOK ==
    /\ head \in [Queues -> Nodes \cup {NULL}]
    /\ tail \in [Queues -> Nodes \cup {NULL}]
    /\ len \in [Queues -> Nat]
    /\ next \in [Nodes -> Nodes \cup {NULL}]
    /\ input \in [Nodes -> Inputs \cup {NULL}]
    /\ allocated \subseteq Nodes
    /\ deq_cycle_ind \in 0 .. 9
    /\ open \in BOOLEAN
    /\ owner \in [Inputs -> {"caller", "queue", "freed", "lost"}]
    /\ returned \in Inputs \cup {NULL}
    /\ gap \in 0 .. 10

\* Every list ends where its tail says, after as many distinct nodes as its
\* length says, and the nodes of the two lists are apart and are the allocated ones.
ListsSound ==
    /\ \A q \in Queues :
          /\ Walk(q)[len[q]] = NULL
          /\ Cardinality(Chain(q)) = len[q]
          /\ IF IsEmpty(q) THEN head[q] = NULL ELSE tail[q] = Walk(q)[len[q] - 1]
    /\ Chain("high") \cap Chain("low") = {}
    /\ Chain("high") \cup Chain("low") = allocated

\* No two queued inputs have the same string, in one list or across the two.
NoDuplicates ==
    LET queued == {i \in Inputs : owner[i] = "queue"}
    IN  \A i, j \in queued : str[i] = str[j] => i = j

\* The lists hold exactly the inputs the queue is to free, and none once it is
\* gone: no list points to a freed input, and input_queue_fini leaks none.
Ownership ==
    /\ {i \in Inputs : owner[i] = "queue"} = Contents("high") \cup Contents("low")
    /\ ~open => allocated = {}

\* While neither list is empty, exactly nine inputs come from the high list
\* between two that come from the low list.
NineToOne ==
    [][ deq_cycle_ind' # deq_cycle_ind /\ gap # 10 /\ gap' # 10
          => gap' = IF gap = 9 THEN 0 ELSE gap + 1 ]_vars

\* The nodes of a list are those of s, in that order.
LinkedAs(q, s) ==
    /\ s \in [1 .. len[q] -> Nodes]
    /\ \A j, k \in 1 .. len[q] : s[j] = s[k] => j = k
    /\ head[q] = IF IsEmpty(q) THEN NULL ELSE s[1]
    /\ ~IsEmpty(q) => tail[q] = s[len[q]] /\ next[tail[q]] = NULL
    /\ \A k \in 1 .. len[q] - 1 : next[s[k]] = s[k + 1]

\* The heap is two lists without a common node, and nothing else.
Layout(lay) ==
    /\ \A q \in Queues : LinkedAs(q, lay[q])
    /\ \A j \in 1 .. len["high"], k \in 1 .. len["low"] : lay["high"][j] # lay["low"][k]
    /\ \A n \in Nodes :
          n \in allocated <=> \E q \in Queues : \E k \in 1 .. len[q] : lay[q][k] = n

Found == [q \in Queues |-> [k \in 1 .. len[q] |-> Walk(q)[k - 1]]]

\* An input is the queue's exactly if an allocated node holds it.
NodesHoldInputs ==
    /\ \A n \in allocated : input[n] \in Inputs /\ owner[input[n]] = "queue"
    /\ \A i \in Inputs : owner[i] = "queue" => \E n \in allocated : input[n] = i

\* The history variable runs with the cycle.
GapIsTurn == gap # 10 => gap = deq_cycle_ind

\* The inductive invariant: the heap is laid out as two lists, which hold what the
\* queue owns, no string twice, and are gone with the queue.
QueueInv ==
    /\ TypeOK /\ Layout(Found) /\ NodesHoldInputs /\ NoDuplicates /\ GapIsTurn
    /\ ~open => allocated = {}

Sequence(q) == [k \in 1 .. len[q] |-> input[Walk(q)[k - 1]]]

QS == INSTANCE InputQueueSpec
        WITH high <- Sequence("high"), low <- Sequence("low"), turn <- deq_cycle_ind

\* The two linked lists behave as the two queues that input_queue.h describes.
ImplementsQueueSpec == QS!Spec

\* A caller that keeps dequeuing is given every queued input again and again.
NoStarvation == \A i \in Inputs : [](owner[i] = "queue" => <>(returned = i \/ ~open))

=============================================================================
