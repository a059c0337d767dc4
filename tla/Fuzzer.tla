------------------------------- MODULE Fuzzer -------------------------------
(***************************************************************************)
(* The main fuzzer process (run_fuzzer, src/fuzzer/src/fuzzer.c) together  *)
(* with its runner job processes (runner.c), the two pipes that connect it *)
(* to each of them, and the signals that drive them.                       *)
(*                                                                         *)
(* One action is one system call of the fuzzer or of a runner with the     *)
(* local code around it; fuzzer and runners interleave freely.  Inputs are *)
(* numbered in the order in which they are dispatched: input k is the k-th *)
(* INPUT object handed to a runner.  What mutate() makes of an input, the  *)
(* coverage bitmap and the order inside the input queue are left to the    *)
(* modules about them: here a VALID result keeps or frees its input.       *)
(***************************************************************************)
EXTENDS Naturals, Sequences

CONSTANTS
    job_count,    \* -j: number of runner jobs
    input_count,  \* -n: number of mutated inputs
    num_seeds,    \* lines of the seed file
    UserStops,    \* may a terminating signal reach the fuzzer?
    StaleSignals, \* may a finished target leave a SIGALRM or SIGCHLD pending?
    MaxKills      \* bound: terminating signals sent to runners from outside

ASSUME ConstantsAssumption ==
    /\ job_count \in Nat
    /\ input_count \in Nat
    /\ num_seeds \in Nat
    /\ UserStops \in BOOLEAN
    /\ StaleSignals \in BOOLEAN
    /\ MaxKills \in Nat

target_total == input_count + num_seeds

Runners == 0 .. job_count - 1
Inputs  == 1 .. target_total
NoInput == 0

Outcomes  == {"VALID", "CRASH", "TIMEOUT"}
Status    == [input : Inputs, state : Outcomes]
Signals   == {"TERM", "CHLD", "USR1"}

\* Where run_fuzzer is.
FuzzerPC  == {"startup", "top", "reap", "check", "collect", "results",
              "submit", "suspend", "fini", "finiwait", "exited"}

Cleanup == {"fini", "finiwait", "exited"}

(***************************************************************************)
(* Where a runner process is: forked but still with the fuzzer's handlers  *)
(* ("launched"), in pselect ("receive"), in sigsuspend while its target    *)
(* runs ("wait"), about to write the status ("alert"), about to send       *)
(* SIGUSR1 ("signal"), a zombie whose killed target still holds the        *)
(* inherited pipe ends ("exited"), a zombie with its pipe ends closed      *)
(* ("closed"), waited for ("reaped").                                      *)
(***************************************************************************)
RunnerPC  == {"launched", "receive", "wait", "alert", "signal",
              "exited", "closed", "reaped"}
Zombie    == {"exited", "closed"}

VARIABLES
    pc,            \* where run_fuzzer is
    scan,          \* index of the loop over a runner list
    fds,           \* read_fdescs after select()
    shutdown_req, sigchld_seen, sigusr1_seen,   \* handler flags
    pending,       \* signals pending for the fuzzer process
    pool, ready, active, done,                  \* struct runners
    jobs_sent, jobs_received,
    active_input,  \* runner->active_input (the fuzzer's copy)
    queued,        \* inputs owned by the input queue
    freed,         \* inputs passed to free_input
    reported,      \* inputs printed as ***CRASH TRIGGERED***
    rpc,           \* where each runner process is
    to_runner,     \* pipe_f_to_r: inputs written, not yet read
    from_runner,   \* pipe_r_to_f: status packets written, not yet read
    inp_str,       \* the input the runner process holds
    final_state,   \* the outcome the runner is about to report
    term,          \* SIGTERM at a runner: none, pending, seen, swallowed
    kills          \* terminating signals sent to runners from outside

fuzzerVars == <<pc, scan, fds, shutdown_req, sigchld_seen, sigusr1_seen>>
listVars   == <<pool, ready, active, done>>
countVars  == <<jobs_sent, jobs_received>>
inputVars  == <<active_input, queued, freed, reported>>
pipeVars   == <<to_runner, from_runner>>
runnerVars == <<rpc, inp_str, final_state, term>>
vars == <<fuzzerVars, pending, listVars, countVars, inputVars, pipeVars,
          runnerVars, kills>>

Elements(s) == {s[i] : i \in DOMAIN s}

(***************************************************************************)
(* The state after runners_init: every runner forked, in the pool and in   *)
(* ready, its handlers not yet installed.                                  *)
(***************************************************************************)
Init ==
    /\ pc = "startup" /\ scan = 1 /\ fds = {}
    /\ shutdown_req = FALSE /\ sigchld_seen = FALSE /\ sigusr1_seen = FALSE
    /\ pending = {}
    /\ pool = [i \in 1 .. job_count |-> i - 1]
    /\ ready = pool /\ active = <<>> /\ done = <<>>
    /\ jobs_sent = 0 /\ jobs_received = 0
    /\ active_input = [r \in Runners |-> NoInput]
    /\ queued = {} /\ freed = {} /\ reported = {}
    /\ rpc = [r \in Runners |-> "launched"]
    /\ to_runner = [r \in Runners |-> <<>>]
    /\ from_runner = [r \in Runners |-> <<>>]
    /\ inp_str = [r \in Runners |-> NoInput]
    /\ final_state = [r \in Runners |-> "VALID"]
    /\ term = [r \in Runners |-> "none"]
    /\ kills = 0

-----------------------------------------------------------------------------
(***************************************************************************)
(* Helpers.                                                                *)
(***************************************************************************)

\* Mutant: the count drops but nothing is shifted down.
RemoveLast(arr, victim) ==
    IF victim \in Elements(arr) THEN [j \in 1 .. Len(arr) - 1 |-> arr[j]] ELSE arr

\* helpr_remove_runner: close the gap left by the first occurrence of victim.
RemoveRunner(arr, victim) ==
    IF victim \in Elements(arr)
    THEN LET i == CHOOSE k \in DOMAIN arr :
                     /\ arr[k] = victim
                     /\ \A j \in 1 .. k - 1 : arr[j] # victim
         IN  [j \in 1 .. Len(arr) - 1 |-> IF j < i THEN arr[j] ELSE arr[j + 1]]
    ELSE arr

\* Mutant: the index advances over the element that moved into the gap.
SkipNext(removed) == scan + 1

\* Index of the next turn of a loop that removes elements of the list it scans.
NextIndex(removed) == IF removed THEN scan ELSE scan + 1

\* Mutant: FD_ISSET is not consulted.
AnyReadable(r) == TRUE

\* select() reports the status pipe of r: a packet, or end of file once every
\* holder of the write end is gone.
Readable(r) == from_runner[r] # <<>> \/ rpc[r] = "closed"

\* runner_launch closes the two pipe ends of the runner but keeps their numbers,
\* and the pipe() of the next runner_init gets these back: what runner_fini closes
\* as pipe_r_to_f[1] of one runner is the write end to the runner launched after
\* it.  A runner past its runner_fini is "reaped".
FuzzerEndClosed(r) == r > 0 /\ rpc[r - 1] = "reaped"

\* Runners launched later have inherited the write end, and their targets from
\* them: end of file is read once these are gone too.
EndOfInput(r) ==
    /\ FuzzerEndClosed(r)
    /\ \A k \in Runners : k > r => rpc[k] \in {"closed", "reaped"}

\* write() to the runner: EPIPE once nobody reads the pipe, EBADF once runner_fini
\* of the runner before it (or its own) has closed the fuzzer's end.
WriteFails(r) == rpc[r] \in {"closed", "reaped"} \/ FuzzerEndClosed(r)

\* Mutant: no kill before the waitpid.
SigtermForgotten(r) == UNCHANGED term

\* kill(r, SIGTERM): between fork and sigprocmask the runner still runs the
\* fuzzer's handler, which sets a flag the runner never reads.
SigtermTo(r) ==
    term' = [term EXCEPT ![r] =
                CASE rpc[r] = "launched" -> "swallowed"
                  [] rpc[r] \in Zombie \cup {"reaped"} \/ @ = "seen" -> @
                  [] OTHER -> "pending"]

\* Mutant: the loop condition forgets shutdown_req.
EndsWhenReceived == jobs_received >= target_total

\* The negated condition of run_fuzzer's loop.
LoopEnds == shutdown_req \/ jobs_received >= target_total

\* Mutant: sigsuspend without looking whether any job is active.
SuspendAnyway(act) ==
    IF jobs_received >= target_total THEN "fini"
    ELSE IF ~sigchld_seen /\ ~sigusr1_seen /\ ~shutdown_req THEN "suspend" ELSE "top"

\* Where run_fuzzer goes when it leaves the dispatch loop with these active jobs.
AfterDispatch(act) ==
    IF jobs_received >= target_total THEN "fini"
    ELSE IF ~sigchld_seen /\ ~sigusr1_seen /\ act # <<>> /\ ~shutdown_req
         THEN "suspend" ELSE "top"

\* The handlers of every pending signal run.
RunHandlers ==
    /\ shutdown_req' = (shutdown_req \/ "TERM" \in pending)
    /\ sigchld_seen' = (sigchld_seen \/ "CHLD" \in pending)
    /\ sigusr1_seen' = (sigusr1_seen \/ "USR1" \in pending)
    /\ pending' = {}

-----------------------------------------------------------------------------
(***************************************************************************)
(* run_fuzzer.                                                             *)
(***************************************************************************)

\* Until sigprocmask no signal is blocked: a handler runs at once.
HandleWhileStarting ==
    /\ pc = "startup" /\ pending # {}
    /\ RunHandlers
    /\ UNCHANGED <<pc, scan, fds, listVars, countVars, inputVars, pipeVars,
                   runnerVars, kills>>

\* Mutant: the flags are reset after the handlers have been able to run.
EnterLoopFresh ==
    /\ pc = "startup"
    /\ pc' = "top" /\ sigchld_seen' = FALSE /\ sigusr1_seen' = FALSE
    /\ UNCHANGED <<scan, fds, shutdown_req, pending, listVars, countVars,
                   inputVars, pipeVars, runnerVars, kills>>

\* The seeds are in the queue and the signals blocked.
EnterLoop ==
    /\ pc = "startup"
    /\ pc' = "top"
    /\ UNCHANGED <<scan, fds, shutdown_req, sigchld_seen, sigusr1_seen, pending,
                   listVars, countVars, inputVars, pipeVars, runnerVars, kills>>

LeaveLoop ==
    /\ pc = "top" /\ LoopEnds
    /\ pc' = "fini" /\ scan' = 1
    /\ UNCHANGED <<fds, shutdown_req, sigchld_seen, sigusr1_seen, pending,
                   listVars, countVars, inputVars, pipeVars, runnerVars, kills>>

\* Top of an iteration: go and reap if a SIGCHLD has been seen.
Iterate ==
    /\ pc = "top" /\ ~LoopEnds
    /\ pc' = (IF sigchld_seen THEN "reap" ELSE "check")
    /\ sigchld_seen' = FALSE /\ scan' = 1
    /\ UNCHANGED <<fds, shutdown_req, sigusr1_seen, pending, listVars, countVars,
                   inputVars, pipeVars, runnerVars, kills>>

\* runners_reap, waitpid(pool[i], WNOHANG) finds a zombie: out of every list,
\* runner_fini frees it and closes its pipes (see FuzzerEndClosed).
ReapZombie ==
    /\ pc = "reap" /\ scan \in DOMAIN pool
    /\ LET r == pool[scan] IN
          /\ rpc[r] \in Zombie
          /\ ready'  = RemoveRunner(ready, r)
          /\ active' = RemoveRunner(active, r)
          /\ done'   = RemoveRunner(done, r)
          /\ pool'   = RemoveRunner(pool, r)
          /\ rpc' = [rpc EXCEPT ![r] = "reaped"]
    /\ scan' = NextIndex(TRUE)
    /\ UNCHANGED <<pc, fds, shutdown_req, sigchld_seen, sigusr1_seen, pending,
                   countVars, inputVars, pipeVars, inp_str, final_state, term, kills>>

\* waitpid(pool[i], WNOHANG) finds it running.
ReapSkip ==
    /\ pc = "reap" /\ scan \in DOMAIN pool
    /\ rpc[pool[scan]] \notin Zombie
    /\ scan' = NextIndex(FALSE)
    /\ UNCHANGED <<pc, fds, shutdown_req, sigchld_seen, sigusr1_seen, pending,
                   listVars, countVars, inputVars, pipeVars, runnerVars, kills>>

\* End of runners_reap: with no runner left the fuzzer shuts itself down.
ReapEnd ==
    /\ pc = "reap" /\ scan \notin DOMAIN pool
    /\ shutdown_req' = (shutdown_req \/ pool = <<>>)
    /\ pc' = (IF pool = <<>> THEN "top" ELSE "check")
    /\ scan' = 1
    /\ UNCHANGED <<fds, sigchld_seen, sigusr1_seen, pending, listVars, countVars,
                   inputVars, pipeVars, runnerVars, kills>>

CheckNothing ==
    /\ pc = "check" /\ ~sigusr1_seen
    /\ pc' = "results"
    /\ UNCHANGED <<scan, fds, shutdown_req, sigchld_seen, sigusr1_seen, pending,
                   listVars, countVars, inputVars, pipeVars, runnerVars, kills>>

\* runners_check_if_jobs_done: one select() over the active runners' pipes.
CheckIfJobsDone ==
    /\ pc = "check" /\ sigusr1_seen
    /\ sigusr1_seen' = FALSE
    /\ fds' = {r \in Elements(active) : Readable(r)}
    /\ pc' = "collect" /\ scan' = 1
    /\ UNCHANGED <<shutdown_req, sigchld_seen, pending, listVars, countVars,
                   inputVars, pipeVars, runnerVars, kills>>

\* One turn of its loop: a readable runner moves from active to done.
Collect ==
    /\ pc = "collect" /\ scan \in DOMAIN active
    /\ LET r == active[scan] IN
          IF r \in fds
          THEN /\ active' = RemoveRunner(active, r)
               /\ done' = Append(done, r)
          ELSE UNCHANGED <<active, done>>
    /\ scan' = NextIndex(active[scan] \in fds)
    /\ UNCHANGED <<pc, fds, shutdown_req, sigchld_seen, sigusr1_seen, pending,
                   pool, ready, countVars, inputVars, pipeVars, runnerVars, kills>>

CollectEnd ==
    /\ pc = "collect" /\ scan \notin DOMAIN active
    /\ pc' = "results" /\ scan' = 1 /\ fds' = {}
    /\ UNCHANGED <<shutdown_req, sigchld_seen, sigusr1_seen, pending, listVars,
                   countVars, inputVars, pipeVars, runnerVars, kills>>

\* Mutant: a queued input is freed as well.
HandleAndFree(tested, state) ==
    /\ queued' = IF state = "VALID" THEN queued \cup {tested} ELSE queued
    /\ freed' = IF state # "NO_STATE" THEN freed \cup {tested} ELSE freed
    /\ reported' = IF state = "CRASH" THEN reported \cup {tested} ELSE reported

\* Mutant: the input of a timeout is not freed.
HandleTimeoutLeaks(tested, state) ==
    /\ queued' = IF state = "VALID" THEN queued \cup {tested} ELSE queued
    /\ freed' = IF state = "CRASH" THEN freed \cup {tested} ELSE freed
    /\ reported' = IF state = "CRASH" THEN reported \cup {tested} ELSE reported

\* What run_fuzzer does with the tested input: coverage_map_add decides whether
\* a VALID one is queued; a NO_STATE one is neither queued nor freed.
Handle(tested, state) ==
    \/ /\ state = "VALID"
       /\ queued' = queued \cup {tested}
       /\ UNCHANGED <<freed, reported>>
    \/ /\ state \in {"VALID", "TIMEOUT"}
       /\ freed' = freed \cup {tested}
       /\ UNCHANGED <<queued, reported>>
    \/ /\ state = "CRASH"
       /\ reported' = reported \cup {tested}
       /\ freed' = freed \cup {tested}
       /\ UNCHANGED queued
    \/ /\ state = "NO_STATE"
       /\ UNCHANGED <<queued, freed, reported>>

\* fuzzer_attempt_receive_status: an empty pipe at end of file is NO_STATE.
AttemptReceiveStatus(r) ==
    IF from_runner[r] = <<>> THEN "NO_STATE" ELSE Head(from_runner[r]).state

\* runners_process_result on the first done runner, then the handling of its
\* input.  A NO_STATE counts as received as well.
ProcessResult ==
    /\ pc = "results" /\ done # <<>>
    /\ LET r == Head(done) IN
          /\ done' = RemoveRunner(done, r)
          /\ ready' = Append(ready, r)
          /\ Handle(active_input[r], AttemptReceiveStatus(r))
          /\ from_runner' = [from_runner EXCEPT ![r] = IF @ = <<>> THEN @ ELSE Tail(@)]
    /\ jobs_received' = jobs_received + 1
    /\ UNCHANGED <<fuzzerVars, pending, pool, active, jobs_sent, active_input,
                   to_runner, runnerVars, kills>>

ResultsEnd ==
    /\ pc = "results" /\ done = <<>>
    /\ pc' = "submit"
    /\ UNCHANGED <<scan, fds, shutdown_req, sigchld_seen, sigusr1_seen, pending,
                   listVars, countVars, inputVars, pipeVars, runnerVars, kills>>

\* dequeue_input returns an input: only the seeds can have filled the queue
\* before the first dispatch, and no dequeue shrinks it.
QueueNonEmpty == num_seeds > 0

\* Mutant: no limit on the jobs sent.
DispatchAlways == ready # <<>> /\ QueueNonEmpty

\* Mutant: the limit forgets the seeds.
DispatchInputs == ready # <<>> /\ jobs_sent < input_count /\ QueueNonEmpty

CanDispatch == ready # <<>> /\ jobs_sent < target_total /\ QueueNonEmpty

\* fuzzer_send_runner_input
SendInput(r, k) ==
    /\ to_runner' = [to_runner EXCEPT ![r] = Append(@, k)]
    /\ active_input' = [active_input EXCEPT ![r] = k]

\* runners_submit_input, the write succeeds.
Submit ==
    /\ pc = "submit" /\ CanDispatch
    /\ LET r == Head(ready) IN
          /\ ~WriteFails(r)
          /\ ready' = RemoveRunner(ready, r)
          /\ active' = Append(active, r)
          /\ SendInput(r, jobs_sent + 1)
    /\ jobs_sent' = jobs_sent + 1
    /\ UNCHANGED <<fuzzerVars, pending, pool, done, jobs_received, queued, freed,
                   reported, from_runner, runnerVars, kills>>

\* runners_submit_input, the write fails: the runner, be it alive, is in no list
\* any more, the input is freed and the dispatch loop left.
SubmitFails ==
    /\ pc = "submit" /\ CanDispatch
    /\ WriteFails(Head(ready))
    /\ ready' = RemoveRunner(ready, Head(ready))
    /\ pc' = AfterDispatch(active) /\ scan' = 1
    /\ UNCHANGED <<fds, shutdown_req, sigchld_seen, sigusr1_seen, pending, pool,
                   active, done, countVars, inputVars, pipeVars, runnerVars, kills>>

SubmitEnd ==
    /\ pc = "submit" /\ ~CanDispatch
    /\ pc' = AfterDispatch(active) /\ scan' = 1
    /\ UNCHANGED <<fds, shutdown_req, sigchld_seen, sigusr1_seen, pending,
                   listVars, countVars, inputVars, pipeVars, runnerVars, kills>>

\* sigsuspend with the empty mask returns once a handler has run.
Wake ==
    /\ pc = "suspend" /\ pending # {}
    /\ RunHandlers
    /\ pc' = "top"
    /\ UNCHANGED <<scan, fds, listVars, countVars, inputVars, pipeVars,
                   runnerVars, kills>>

\* runners_fini, runner_fini of the next runner of the pool: SIGTERM ...
FiniKill ==
    /\ pc = "fini" /\ scan \in DOMAIN pool
    /\ SigtermTo(pool[scan])
    /\ pc' = "finiwait"
    /\ UNCHANGED <<scan, fds, shutdown_req, sigchld_seen, sigusr1_seen, pending,
                   listVars, countVars, inputVars, pipeVars, rpc, inp_str,
                   final_state, kills>>

\* ... and a waitpid that blocks until the runner has exited.
FiniWait ==
    /\ pc = "finiwait" /\ rpc[pool[scan]] \in Zombie
    /\ rpc' = [rpc EXCEPT ![pool[scan]] = "reaped"]
    /\ pc' = "fini" /\ scan' = scan + 1
    /\ UNCHANGED <<fds, shutdown_req, sigchld_seen, sigusr1_seen, pending, listVars,
                   countVars, inputVars, pipeVars, inp_str, final_state, term, kills>>

FiniEnd ==
    /\ pc = "fini" /\ scan \notin DOMAIN pool
    /\ pc' = "exited"
    /\ UNCHANGED <<scan, fds, shutdown_req, sigchld_seen, sigusr1_seen, pending,
                   listVars, countVars, inputVars, pipeVars, runnerVars, kills>>

-----------------------------------------------------------------------------
(***************************************************************************)
(* A runner process (the child branch of runner_launch).                   *)
(***************************************************************************)
runnerFrame == <<fuzzerVars, listVars, countVars, inputVars, kills>>

\* Signals blocked and the runner's own handlers installed.
InstallHandlers(r) ==
    /\ rpc[r] = "launched"
    /\ rpc' = [rpc EXCEPT ![r] = "receive"]
    /\ UNCHANGED <<runnerFrame, pending, pipeVars, inp_str, final_state, term>>

\* pselect finds data (a pending signal stays pending), the input is read and
\* the target forked.
ReceiveInput(r) ==
    /\ rpc[r] = "receive" /\ to_runner[r] # <<>> /\ term[r] # "seen"
    /\ inp_str' = [inp_str EXCEPT ![r] = Head(to_runner[r])]
    /\ to_runner' = [to_runner EXCEPT ![r] = Tail(@)]
    /\ rpc' = [rpc EXCEPT ![r] = "wait"]
    /\ UNCHANGED <<runnerFrame, pending, from_runner, final_state, term>>

\* The target exits, crashes or is killed by SIGALRM; the runner waits for it.
\* A SIGTERM may have been delivered by the same sigsuspend.
TargetEnds(r) ==
    /\ rpc[r] = "wait"
    /\ \E outcome \in Outcomes :
          final_state' = [final_state EXCEPT ![r] = outcome]
    /\ \/ UNCHANGED term
       \/ term[r] = "pending" /\ term' = [term EXCEPT ![r] = "seen"]
    /\ rpc' = [rpc EXCEPT ![r] = "alert"]
    /\ UNCHANGED <<runnerFrame, pending, pipeVars, inp_str>>

\* runner_alert_fuzzer: the packet first ...
WriteStatus(r) ==
    /\ rpc[r] = "alert"
    /\ from_runner' = [from_runner EXCEPT ![r] =
           Append(@, [input |-> inp_str[r], state |-> final_state[r]])]
    /\ rpc' = [rpc EXCEPT ![r] = "signal"]
    /\ UNCHANGED <<runnerFrame, pending, to_runner, inp_str, final_state, term>>

\* ... then kill(getppid(), SIGUSR1); back to the top of the loop.
AlertFuzzer(r) ==
    /\ rpc[r] = "signal"
    /\ pending' = pending \cup {"USR1"}
    /\ rpc' = [rpc EXCEPT ![r] = "receive"]
    /\ UNCHANGED <<runnerFrame, pipeVars, inp_str, final_state, term>>

\* A signal about an earlier target can be pending: RunnerProcess says how.
StaleSignal(r) == StaleSignals /\ inp_str[r] # NoInput

\* A pending SIGTERM reaches its handler.
TermDelivered(r) ==
    term' = [term EXCEPT ![r] = IF @ = "pending" THEN "seen" ELSE @]

\* The loop condition finds sigterm_seen.
ToldToStop(r) == term[r] = "seen" /\ UNCHANGED term

\* The read after pselect returns 0; a signal still pending stays so.
ReadsEndOfFile(r) == to_runner[r] = <<>> /\ EndOfInput(r) /\ UNCHANGED term

\* pselect with nothing to read is interrupted by a pending signal.
SignalInterrupts(r) ==
    /\ to_runner[r] = <<>> /\ ~EndOfInput(r)
    /\ term[r] = "pending" \/ StaleSignal(r)
    /\ TermDelivered(r)

\* The runner exits between two inputs, which raises SIGCHLD at the fuzzer.
ExitIdle(r) ==
    /\ rpc[r] = "receive"
    /\ ToldToStop(r) \/ ReadsEndOfFile(r) \/ SignalInterrupts(r)
    /\ rpc' = [rpc EXCEPT ![r] = "closed"]
    /\ pending' = pending \cup {"CHLD"}
    /\ UNCHANGED <<runnerFrame, pipeVars, inp_str, final_state>>

\* sigsuspend delivers it while the target runs: the handler kills the target
\* and the runner exits without a report, not waiting for the target to go.
ExitBusy(r) ==
    /\ rpc[r] = "wait" /\ term[r] = "pending"
    /\ \E zombie \in Zombie : rpc' = [rpc EXCEPT ![r] = zombie]
    /\ pending' = pending \cup {"CHLD"}
    /\ TermDelivered(r)
    /\ UNCHANGED <<runnerFrame, pipeVars, inp_str, final_state>>

\* The killed target of an exited runner dies: the last pipe ends close.
TargetGone(r) ==
    /\ rpc[r] = "exited"
    /\ rpc' = [rpc EXCEPT ![r] = "closed"]
    /\ UNCHANGED <<runnerFrame, pending, pipeVars, inp_str, final_state, term>>

-----------------------------------------------------------------------------
(***************************************************************************)
(* The user and the system.                                                *)
(***************************************************************************)

\* SIGTERM, SIGINT or SIGHUP for the fuzzer process.
Terminate ==
    /\ UserStops /\ pc \notin Cleanup
    /\ "TERM" \notin pending /\ ~shutdown_req
    /\ pending' = pending \cup {"TERM"}
    /\ UNCHANGED <<fuzzerVars, listVars, countVars, inputVars, pipeVars,
                   runnerVars, kills>>

\* A terminating signal for a runner that does not come from the fuzzer.
KillRunner(r) ==
    /\ kills < MaxKills
    /\ rpc[r] \notin Zombie \cup {"reaped"}
    /\ SigtermTo(r)
    /\ kills' = kills + 1
    /\ UNCHANGED <<fuzzerVars, pending, listVars, countVars, inputVars, pipeVars,
                   rpc, inp_str, final_state>>

Exited == pc = "exited" /\ UNCHANGED vars

FuzzerStep ==
    \/ HandleWhileStarting \/ EnterLoop \/ LeaveLoop \/ Iterate
    \/ ReapZombie \/ ReapSkip \/ ReapEnd
    \/ CheckNothing \/ CheckIfJobsDone \/ Collect \/ CollectEnd
    \/ ProcessResult \/ ResultsEnd
    \/ Submit \/ SubmitFails \/ SubmitEnd \/ Wake
    \/ FiniKill \/ FiniWait \/ FiniEnd

RunnerCode(r) ==
    \/ InstallHandlers(r) \/ ReceiveInput(r) \/ WriteStatus(r) \/ AlertFuzzer(r)
    \/ ExitIdle(r) \/ ExitBusy(r) \/ TargetGone(r)

RunnerStep(r) == RunnerCode(r) \/ TargetEnds(r)

Next ==
    \/ FuzzerStep
    \/ \E r \in Runners : RunnerStep(r) \/ KillRunner(r)
    \/ Terminate
    \/ Exited

Spec == Init /\ [][Next]_vars

\* The kernel keeps scheduling every process, and alarm(timeout) ends every
\* target that does not end by itself.
Fairness ==
    /\ WF_vars(FuzzerStep)
    /\ \A r \in Runners : WF_vars(RunnerStep(r))

FairSpec == Spec /\ Fairness

\* With -t 0 there is no alarm: a target may run for ever, and only the code of
\* the fuzzer and of the runners makes progress.
NoAlarmFairness ==
    /\ WF_vars(FuzzerStep)
    /\ \A r \in Runners : WF_vars(RunnerCode(r))

NoAlarmSpec == Spec /\ NoAlarmFairness

-----------------------------------------------------------------------------
(***************************************************************************)
(* Properties.                                                             *)
(***************************************************************************)

\* Every variable has its type; a pipe holds whole messages only.
TypeOK ==
    /\ pc \in FuzzerPC /\ scan \in Nat \ {0} /\ fds \subseteq Runners
    /\ shutdown_req \in BOOLEAN /\ sigchld_seen \in BOOLEAN
    /\ sigusr1_seen \in BOOLEAN /\ pending \subseteq Signals
    /\ pool \in Seq(Runners) /\ ready \in Seq(Runners)
    /\ active \in Seq(Runners) /\ done \in Seq(Runners)
    /\ jobs_sent \in Nat /\ jobs_received \in Nat
    /\ active_input \in [Runners -> Inputs \cup {NoInput}]
    /\ queued \subseteq Inputs /\ freed \subseteq Inputs
    /\ reported \subseteq Inputs
    /\ rpc \in [Runners -> RunnerPC]
    /\ to_runner \in [Runners -> Seq(Inputs)]
    /\ from_runner \in [Runners -> Seq(Status)]
    /\ inp_str \in [Runners -> Inputs \cup {NoInput}]
    /\ final_state \in [Runners -> Outcomes]
    /\ term \in [Runners -> {"none", "pending", "seen", "swallowed"}]
    /\ kills \in Nat

NoDuplicates(s) == \A i, j \in DOMAIN s : s[i] = s[j] => i = j
Disjoint(s, t)  == Elements(s) \cap Elements(t) = {}

ListedOrLost ==
    \A r \in Elements(pool) :
        r \in Elements(ready) \cup Elements(active) \cup Elements(done) \/ WriteFails(r)

\* The lists of struct runners hold each runner at most once between them, only
\* runners of the pool, and (before the final cleanup) none that runners_reap
\* has already finalised: no list entry is a freed RUNNER, and no array outgrows
\* the job_count slots it was allocated with.  A runner of the pool that has left
\* all three lists is one that can never be written to again.
RunnerLists ==
    /\ NoDuplicates(pool) /\ NoDuplicates(ready)
    /\ NoDuplicates(active) /\ NoDuplicates(done)
    /\ Disjoint(ready, active) /\ Disjoint(ready, done) /\ Disjoint(active, done)
    /\ Elements(ready) \cup Elements(active) \cup Elements(done) \subseteq Elements(pool)
    /\ pc \notin Cleanup
          => \A r \in Elements(pool) : rpc[r] # "reaped"
    /\ ListedOrLost

\* Runner r will yet raise a signal at the fuzzer without being told anything.
OwesSignal(r) ==
    \/ rpc[r] \in {"wait", "alert", "signal"}
    \/ rpc[r] \in {"launched", "receive"} /\ to_runner[r] # <<>>

\* No lost wakeup: whenever sigsuspend sleeps with nothing pending, every active
\* runner still owes a signal.  The flags are tested with the signals blocked, a
\* packet is written before its SIGUSR1, and a handled SIGUSR1 stands for every
\* packet written so far, so no result can wait for a signal already consumed.
NoLostWakeup ==
    pc = "suspend" /\ pending = {}
        => active # <<>> /\ \A r \in Elements(active) : OwesSignal(r)

\* A result is credited to the input that produced it: the only packet in a
\* runner's pipe is about the input the fuzzer has on record for the runner, and
\* only a runner in active or done has one.
ResultMatchesInput ==
    \A r \in Elements(pool) : from_runner[r] # <<>> =>
        /\ Len(from_runner[r]) = 1
        /\ from_runner[r][1].input = active_input[r]
        /\ r \in Elements(active) \cup Elements(done)

\* A runner taken back into ready has finished with its job: no target of it is
\* running, so its coverage map is stable while it is read, and while it lives
\* both its pipes are empty, so the next status it sends is about its next input.
ReadyIsIdle ==
    \A r \in Elements(ready) :
        /\ rpc[r] \notin {"wait", "alert", "exited"}
        /\ rpc[r] \in {"closed", "reaped"} \/ (to_runner[r] = <<>> /\ from_runner[r] = <<>>)

\* The input of a dispatched job is live until its result is handled: it is
\* neither freed nor given to the queue, and no other job shares it.  So neither
\* the printf of a crash nor coverage handling touches a freed INPUT.
InputsLive ==
    LET busy == Elements(active) \cup Elements(done)
    IN  /\ \A r \in busy : active_input[r] \in Inputs \ (freed \cup queued)
        /\ \A r, s \in busy : active_input[r] = active_input[s] => r = s
        /\ freed \cap queued = {}

\* Every dispatched job is accounted for: received, or still with a runner in
\* active or done, or lost with a reaped runner.  Nothing is received twice.
Accounting ==
    LET outstanding == Len(active) + Len(done)
    IN  /\ jobs_received + outstanding <= jobs_sent
        /\ jobs_sent <= target_total
        /\ Len(pool) = job_count => jobs_received + outstanding = jobs_sent

\* A dead runner still in the pool is going to be noticed: its SIGCHLD is
\* pending, or seen, or runners_reap is under way and has yet to come to it.
ZombieNoticed ==
    pc \notin Cleanup =>
        \A i \in DOMAIN pool : rpc[pool[i]] \in Zombie =>
            \/ "CHLD" \in pending \/ sigchld_seen
            \/ pc = "reap" /\ scan <= i

\* The job of a runner as run_fuzzer sees it, and the verdict on its way.
JobOf(r) == IF r \in Elements(active) \cup Elements(done) THEN active_input[r] ELSE NoInput

VerdictOf(r) ==
    IF r \notin Elements(active) \cup Elements(done) THEN "none"
    ELSE IF from_runner[r] # <<>> THEN from_runner[r][1].state
    ELSE IF rpc[r] = "alert" THEN final_state[r] ELSE "none"

Promise == INSTANCE Campaign WITH
    Total <- target_total, sent <- jobs_sent, received <- jobs_received,
    job <- [r \in Runners |-> JobOf(r)],
    verdict <- [r \in Runners |-> VerdictOf(r)],
    dead <- {r \in Runners : rpc[r] \in Zombie \cup {"reaped"}},
    kept <- queued, dropped <- freed, crashes <- reported

\* Loop, pool, pipes and signals keep the promise of Campaign: what becomes of
\* an input is decided once, by the verdict of the runner that had it, and an
\* input without a verdict costs the life of a runner.
ImplementsCampaign == Promise!Spec

\* Every input that was dispatched has been freed, or is in the queue that
\* input_queue_fini frees, when the program exits.
InputsCleanedUp ==
    pc = "exited" => 1 .. jobs_sent \subseteq freed \cup queued

\* Left alone, the campaign completes: every job is sent, every result received
\* and the fuzzer exits.
Completes == <>(pc = "exited" /\ jobs_received = target_total)

\* A terminating signal at the fuzzer ends the loop, even if every target hangs.
StopsOnSignal == "TERM" \in pending ~> pc \in Cleanup

\* The cleanup completes: no waitpid of runner_fini blocks for ever on a runner
\* that had its handlers installed when the cleanup began.
CleanupCompletes ==
    pc = "fini" /\ (\A r \in Elements(pool) : rpc[r] # "launched")
        ~> pc = "exited"

\* Every dispatched input comes back: a runner does not stay active for ever.
JobsComeBack == \A r \in Runners :
    r \in Elements(active) ~> r \notin Elements(active)

\* A runner process that is sent a terminating signal terminates.
RunnerStopsOnSignal == \A r \in Runners :
    term[r] # "none" ~> rpc[r] \in Zombie \cup {"reaped"}

\* A crash that a runner has reported into its pipe is printed: no packet with a
\* CRASH leaves the pipe of a live campaign without its input being reported.
CrashesReported ==
    [][ \A r \in Elements(pool) :
          (from_runner[r] # <<>> /\ from_runner[r][1].state = "CRASH"
             /\ (from_runner'[r] = <<>> \/ r \notin Elements(pool')))
          => active_input[r] \in reported' ]_vars

=============================================================================
