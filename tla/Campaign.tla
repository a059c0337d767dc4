------------------------------ MODULE Campaign ------------------------------
(***************************************************************************)
(* What run_fuzzer and its runner pool promise together: inputs are handed *)
(* out one after the other to live idle runners, at most Total of them;    *)
(* the runner's verdict about an input decides what becomes of it, once;   *)
(* and an input goes without a verdict only because its runner has died,   *)
(* so that a dead runner costs at most one input.                          *)
(***************************************************************************)
EXTENDS Naturals

CONSTANTS
    Runners,
    Total      \* inputs to hand out

NoJob == 0
Verdicts == {"VALID", "CRASH", "TIMEOUT"}

VARIABLES
    sent, received,
    job,       \* the input each runner has been given, until it is received
    verdict,   \* what the runner has found out about it
    dead,      \* runners that have exited
    kept,      \* inputs given to the queue
    dropped,   \* inputs freed
    crashes    \* inputs printed

outcomes == <<kept, dropped, crashes>>
vars == <<sent, received, job, verdict, dead, outcomes>>

Init ==
    /\ sent = 0 /\ received = 0
    /\ job = [r \in Runners |-> NoJob]
    /\ verdict = [r \in Runners |-> "none"]
    /\ dead = {} /\ kept = {} /\ dropped = {} /\ crashes = {}

Send(r) ==
    /\ r \notin dead /\ job[r] = NoJob /\ sent < Total
    /\ sent' = sent + 1
    /\ job' = [job EXCEPT ![r] = sent + 1]
    /\ UNCHANGED <<received, verdict, dead, outcomes>>

Judge(r) ==
    /\ r \notin dead /\ job[r] # NoJob /\ verdict[r] = "none"
    /\ \E v \in Verdicts : verdict' = [verdict EXCEPT ![r] = v]
    /\ UNCHANGED <<sent, received, job, dead, outcomes>>

Release(r) ==
    /\ job' = [job EXCEPT ![r] = NoJob]
    /\ verdict' = [verdict EXCEPT ![r] = "none"]
    /\ UNCHANGED <<sent, dead>>

Keep(r) == verdict[r] = "VALID" /\ kept' = kept \cup {job[r]} /\ UNCHANGED <<dropped, crashes>>
Drop(r) == /\ verdict[r] \in {"VALID", "TIMEOUT"} /\ dropped' = dropped \cup {job[r]}
           /\ UNCHANGED <<kept, crashes>>
Report(r) == /\ verdict[r] = "CRASH" /\ dropped' = dropped \cup {job[r]}
            /\ crashes' = crashes \cup {job[r]} /\ UNCHANGED kept

Receive(r) ==
    /\ job[r] # NoJob
    /\ Keep(r) \/ Drop(r) \/ Report(r)
    /\ received' = received + 1
    /\ Release(r)

Die(r) ==
    /\ r \notin dead
    /\ dead' = dead \cup {r}
    /\ UNCHANGED <<sent, received, job, verdict, outcomes>>

\* The input of a dead runner is given up, sometimes counted as received.
Lose(r) ==
    /\ r \in dead /\ job[r] # NoJob
    /\ received' \in {received, received + 1}
    /\ Release(r)
    /\ UNCHANGED outcomes

Next == \E r \in Runners : Send(r) \/ Judge(r) \/ Receive(r) \/ Die(r) \/ Lose(r)

Spec == Init /\ [][Next]_vars
=============================================================================
