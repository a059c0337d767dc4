---------------------------- MODULE CoverageSpec ----------------------------
(***************************************************************************)
(* What the coverage map is for (include/coverage_map.h): it remembers the *)
(* branches and the sets of branches it has been shown, and ranks each new *)
(* set of branches by what is new in it.                                   *)
(***************************************************************************)
CONSTANTS
    Edges,     \* edges of the target's control-flow graph
    MayFail    \* may the program run out of memory?

VARIABLES
    branches,   \* every branch shown so far
    behaviours, \* every set of branches remembered
    priority    \* the rank of the last set shown

Rank(data) ==
    IF ~(data \subseteq branches) THEN "HIGH"
    ELSE IF data \notin behaviours THEN "LOW" ELSE "NO"

Init == branches = {} /\ behaviours = {} /\ priority = "NONE"

Record(data) ==
    /\ priority' = Rank(data)
    /\ branches' = branches \cup data
    /\ behaviours' = behaviours \cup {data}

\* Out of memory: the branches are remembered, the set of them is not.
Forget(data) ==
    /\ MayFail /\ data \notin behaviours
    /\ priority' = "NO"
    /\ branches' = branches \cup data
    /\ UNCHANGED behaviours

Next == \E data \in SUBSET Edges : Record(data) \/ Forget(data)

Spec == Init /\ [][Next]_<<branches, behaviours, priority>>

=============================================================================
