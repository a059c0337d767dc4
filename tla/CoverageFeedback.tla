-------------------------- MODULE CoverageFeedback --------------------------
(***************************************************************************)
(* The coverage map composed with the runners' shared bitmaps: a target    *)
(* sets bits in the memory of its runner (programs/coverage.c), and the    *)
(* fuzzer reads that memory when it handles a VALID result (run_fuzzer).   *)
(***************************************************************************)
EXTENDS CoverageMap

CONSTANTS
    Runners,    \* runner jobs
    MaxRuns     \* bound: executions of the target

ASSUME FeedbackAssumption == MaxRuns \in Nat

Outcomes == {"VALID", "CRASH", "TIMEOUT"}

VARIABLES
    shm_mmap,   \* runner->shm_mmap: the edges whose bits are on
    run,        \* what each runner's target is doing, or its unhandled outcome
    own,        \* history: the edges executed by the runner's last target
    observed,   \* history: the edge sets of the VALID executions handled
    runs        \* executions started

vars == <<mapVars, shm_mmap, run, own, observed, runs>>

Init ==
    /\ MapInit
    /\ shm_mmap = [r \in Runners |-> {}]
    /\ run = [r \in Runners |-> "idle"]
    /\ own = [r \in Runners |-> {}]
    /\ observed = {}
    /\ runs = 0

\* The runner forks a target.  Nobody clears the shared bitmap.
Execute(r) ==
    /\ run[r] = "idle" /\ runs < MaxRuns
    /\ run' = [run EXCEPT ![r] = "running"]
    /\ own' = [own EXCEPT ![r] = {}]
    /\ runs' = runs + 1
    /\ UNCHANGED <<mapVars, shm_mmap, observed>>

\* __sanitizer_cov_trace_pc_guard: the target executes an edge.
TracePcGuard(r, edge) ==
    /\ run[r] = "running"
    /\ shm_mmap' = [shm_mmap EXCEPT ![r] = @ \cup {edge}]
    /\ own' = [own EXCEPT ![r] = @ \cup {edge}]
    /\ UNCHANGED <<mapVars, run, observed, runs>>

Finish(r) ==
    /\ run[r] = "running"
    /\ \E outcome \in Outcomes : run' = [run EXCEPT ![r] = outcome]
    /\ UNCHANGED <<mapVars, shm_mmap, own, observed, runs>>

\* run_fuzzer handles a VALID result ...
HandleValid(r) ==
    /\ run[r] = "VALID"
    /\ Add(shm_mmap[r]) \/ AddFails(shm_mmap[r])
    /\ run' = [run EXCEPT ![r] = "idle"]
    /\ observed' = observed \cup {own[r]}
    /\ UNCHANGED <<shm_mmap, own, runs>>

\* ... and leaves the coverage of any other where it is.
HandleOther(r) ==
    /\ run[r] \in {"CRASH", "TIMEOUT"}
    /\ run' = [run EXCEPT ![r] = "idle"]
    /\ UNCHANGED <<mapVars, shm_mmap, own, observed, runs>>

Next == \E r \in Runners :
    \/ Execute(r) \/ Finish(r) \/ HandleValid(r) \/ HandleOther(r)
    \/ \E edge \in Edges : TracePcGuard(r, edge)

Spec == Init /\ [][Next]_vars

-----------------------------------------------------------------------------
TypeOK ==
    /\ MapTypeOK
    /\ shm_mmap \in [Runners -> SUBSET Edges]
    /\ run \in [Runners -> {"idle", "running"} \cup Outcomes]
    /\ own \in [Runners -> SUBSET Edges]
    /\ observed \subseteq SUBSET Edges
    /\ runs \in Nat

\* What the last target of a runner executed is in the runner's bitmap.
OwnCovered == \A r \in Runners : own[r] \subseteq shm_mmap[r]

Handled(r) == run[r] = "VALID" /\ run'[r] = "idle"

\* An input that executed an edge unknown to the map gets the high priority,
\* whatever other runs left in the bitmap; it may be missed only when the hash
\* node can not be allocated.
NovelEdgesFound ==
    [][ \A r \in Runners : Handled(r) /\ ~(own[r] \subseteq bitmap)
          => priority' = "HIGH" \/ AddFails(shm_mmap[r]) ]_vars

\* Inputs that exhibit behaviour already observed are filtered out: one that
\* executed exactly the edges of an earlier VALID execution has no priority.
DuplicatesFiltered ==
    [][ \A r \in Runners : Handled(r) /\ own[r] \in observed
          => priority' = "NO" ]_vars

=============================================================================
