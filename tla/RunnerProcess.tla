---------------------------- MODULE RunnerProcess ----------------------------
(***************************************************************************)
(* One runner process (the child branch of runner_launch, runner.c), the   *)
(* target it forks for each input, its alarm and its three signals.        *)
(*                                                                         *)
(* SIGTERM, SIGALRM and SIGCHLD are blocked except inside pselect and      *)
(* sigsuspend, so they stay pending between two calls.  An action is one   *)
(* system call with the local code around it, or one run of the signal     *)
(* handler.  The fuzzer's side is reduced to what a runner sees of it:     *)
(* inputs 1, 2, ... one after the other, each sent once the last is        *)
(* answered, the end of the pipe they come by, and SIGTERM at any time.    *)
(***************************************************************************)
EXTENDS Integers, Sequences

CONSTANTS
    Jobs,      \* bound: inputs sent to the runner
    MaxTerms,  \* bound: terminating signals sent to the runner
    Timeouts,  \* values of -t to consider; 0 is no time limit
    Faults     \* what may go wrong around the runner

(***************************************************************************)
(* fork: forking a target fails.  exec: execvp fails.  slow: SIGALRM can   *)
(* reach the target before its execvp.  late: the alarm can expire between *)
(* the return of sigsuspend and alarm(0).  ignore: targets may ignore      *)
(* SIGALRM.  stop: targets may be stopped and continued.                   *)
(***************************************************************************)
FaultKinds == {"fork", "exec", "slow", "late", "ignore", "stop"}

ASSUME RunnerAssumption ==
    /\ Jobs \in Nat /\ MaxTerms \in Nat
    /\ Timeouts \subseteq Nat
    /\ Faults \subseteq FaultKinds

Inputs   == 1 .. Jobs
Outcomes == {"VALID", "CRASH", "TIMEOUT"}
Status   == [input : Inputs, state : Outcomes]
Signals  == {"TERM", "ALRM", "CHLD"}

\* How a target ended: by exit, by a signal of its own making, by a SIGALRM of
\* its own making, by the runner's SIGALRM, by the runner's SIGKILL.
WaitStatus == {"exited", "crashed", "own_alarm", "alarmed", "killed"}

(***************************************************************************)
(* Where the runner is: forked with the fuzzer's handlers ("launched"), in *)
(* pselect ("receive"), before fork ("fork"), before alarm(timeout)        *)
(* ("arm"), in the sigsuspend loop ("wait"), before alarm(0) ("disarm"),   *)
(* in waitpid ("waitpid"), before the packet ("alert"), before SIGUSR1     *)
(* ("signal"), gone ("exited").                                            *)
(***************************************************************************)
RunnerPC == {"launched", "receive", "fork", "arm", "wait", "disarm", "waitpid",
             "alert", "signal", "exited"}

\* Forked but before its execvp, running, stopped, a zombie; or no child.
TargetState == {"none", "forked", "running", "stopped", "dead"}

VARIABLES
    pc, timeout,
    sigterm_seen, sigalrm_seen, sigchld_seen,  \* handler flags
    handled,            \* a handler has run in the present sigsuspend
    pending,            \* signals pending for the runner process
    timer,              \* is the alarm armed?
    current_target_pid, \* the job whose target it is, or -1
    inp_str, final_state,
    target,             \* state of the present target process
    target_pending,     \* signals sent to it and not yet delivered
    wait_status,        \* how it ended
    to_runner, from_runner,   \* the two pipes
    fuzzer_pending,     \* signals pending for the fuzzer
    sent, terms,        \* inputs and terminating signals sent so far
    input_closed,       \* nobody holds the write end of to_runner any more
    expired,            \* history: jobs whose own alarm has expired
    happened            \* history: faults that have shown, and "lost_term"

signalVars == <<sigterm_seen, sigalrm_seen, sigchld_seen, handled, pending>>
targetVars == <<target, target_pending, wait_status>>
pipeVars   == <<to_runner, from_runner, fuzzer_pending, sent, terms, input_closed>>
jobVars    == <<timeout, current_target_pid, inp_str, final_state>>
history    == <<expired, happened>>
vars == <<pc, signalVars, timer, jobVars, targetVars, pipeVars, history>>

Init ==
    /\ pc = "launched" /\ timeout \in Timeouts
    /\ sigterm_seen = FALSE /\ sigalrm_seen = FALSE /\ sigchld_seen = FALSE
    /\ handled = FALSE /\ pending = {} /\ timer = FALSE
    /\ current_target_pid = -1 /\ inp_str = 0 /\ final_state = "VALID"
    /\ target = "none" /\ target_pending = {} /\ wait_status = "exited"
    /\ to_runner = <<>> /\ from_runner = <<>> /\ fuzzer_pending = {}
    /\ sent = 0 /\ terms = 0 /\ input_closed = FALSE /\ expired = {} /\ happened = {}

-----------------------------------------------------------------------------
(***************************************************************************)
(* The runner.                                                             *)
(***************************************************************************)

InstallHandlers ==
    /\ pc = "launched"
    /\ pc' = "receive"
    /\ UNCHANGED <<signalVars, timer, jobVars, targetVars, pipeVars, history>>

\* runner_receive_fuzzer_input: pselect with data to read returns it, and what
\* is pending stays pending.
Receive ==
    /\ pc = "receive" /\ ~sigterm_seen /\ to_runner # <<>>
    /\ inp_str' = Head(to_runner) /\ to_runner' = Tail(to_runner)
    /\ pc' = "fork"
    /\ UNCHANGED <<signalVars, timer, timeout, current_target_pid, final_state,
                   targetVars, from_runner, fuzzer_pending, sent, terms,
                   input_closed, history>>

\* Every pending signal reaches the handler; there is no target to pass it on to.
RunHandlers ==
    /\ sigterm_seen' = (sigterm_seen \/ "TERM" \in pending)
    /\ sigalrm_seen' = (sigalrm_seen \/ "ALRM" \in pending)
    /\ sigchld_seen' = (sigchld_seen \/ "CHLD" \in pending)
    /\ pending' = {}

\* pselect with nothing to read is interrupted by any pending signal, a left-over
\* SIGALRM too: no input, and the runner leaves its loop and exits.
Interrupted ==
    /\ pc = "receive" /\ ~sigterm_seen /\ to_runner = <<>> /\ ~input_closed
    /\ pending # {}
    /\ RunHandlers
    /\ pc' = "exited" /\ fuzzer_pending' = fuzzer_pending \cup {"CHLD"}
    /\ UNCHANGED <<handled, timer, jobVars, targetVars, to_runner, from_runner,
                   sent, terms, input_closed, history>>

\* At end of file pselect returns at once, whatever is pending, and read gives 0.
ReadEndOfFile ==
    /\ pc = "receive" /\ ~sigterm_seen /\ to_runner = <<>> /\ input_closed
    /\ pc' = "exited" /\ fuzzer_pending' = fuzzer_pending \cup {"CHLD"}
    /\ UNCHANGED <<signalVars, timer, jobVars, targetVars, to_runner, from_runner,
                   sent, terms, input_closed, history>>

\* The loop condition finds sigterm_seen.
Finish ==
    /\ pc = "receive" /\ sigterm_seen
    /\ pc' = "exited" /\ fuzzer_pending' = fuzzer_pending \cup {"CHLD"}
    /\ UNCHANGED <<signalVars, timer, jobVars, targetVars, to_runner, from_runner,
                   sent, terms, input_closed, history>>

ForkTarget ==
    /\ pc = "fork"
    /\ target' = "forked" /\ target_pending' = {}
    /\ pc' = "arm"
    /\ UNCHANGED <<signalVars, timer, jobVars, wait_status, pipeVars, history>>

\* fork fails and nothing looks at it: the runner will wait for a child it has
\* not.
ForkFails ==
    /\ pc = "fork" /\ "fork" \in Faults
    /\ pc' = "arm" /\ happened' = happened \cup {"fork"}
    /\ UNCHANGED <<signalVars, timer, jobVars, targetVars, pipeVars, expired>>

\* Mutant: the flags are reset with the signals unblocked.
ResetUnblocked ==
    /\ sigchld_seen' = FALSE /\ sigalrm_seen' = FALSE
    /\ pending' = pending \ {"CHLD", "ALRM"}

\* Mutant: sigchld_seen is not reset.
ResetAlarmOnly == sigalrm_seen' = FALSE /\ UNCHANGED <<sigchld_seen, pending>>

\* The flags of the last target are reset; what is pending stays pending.
ResetFlags ==
    /\ sigchld_seen' = FALSE /\ sigalrm_seen' = FALSE
    /\ UNCHANGED pending

\* Mutant: the loop ends with any signal, the alarm included.
AnySignalEndsWait == sigchld_seen \/ sigterm_seen \/ sigalrm_seen

\* Mutant: only the end of the target ends the loop.
ChildEndsWait == sigchld_seen

\* The negated condition of the sigsuspend loop.
WaitIsOver == sigchld_seen \/ sigterm_seen

\* The pid is noted, the flags reset, the alarm set, the loop entered.
Arm ==
    /\ pc = "arm"
    /\ current_target_pid' = IF target = "none" THEN -1 ELSE inp_str
    /\ ResetFlags /\ UNCHANGED sigterm_seen
    /\ timer' = (timeout > 0)
    /\ pc' = (IF WaitIsOver' THEN "disarm" ELSE "wait")
    /\ UNCHANGED <<handled, timeout, inp_str, final_state, targetVars, pipeVars,
                   history>>

\* kill(current_target_pid, sig): a zombie or an unreaped child takes no harm.
SignalTarget(sig) ==
    target_pending' = IF current_target_pid > 0 /\ target \in {"forked", "running", "stopped"}
                      THEN target_pending \cup {sig} ELSE target_pending

\* Mutant: the target is left running.
TermOnlySeen ==
    /\ sigterm_seen' = TRUE
    /\ UNCHANGED <<sigalrm_seen, sigchld_seen, target_pending>>

\* helpr_runner_sighandler(SIGTERM)
HandleTerm ==
    /\ sigterm_seen' = TRUE /\ SignalTarget("KILL")
    /\ UNCHANGED <<sigalrm_seen, sigchld_seen>>

\* Mutant: the alarm is passed on but not noted.
AlarmOnlyPassedOn ==
    /\ SignalTarget("ALRM")
    /\ UNCHANGED <<sigterm_seen, sigalrm_seen, sigchld_seen>>

\* Mutant: the time limit is noted but not enforced.
AlarmOnlySeen ==
    /\ sigalrm_seen' = TRUE
    /\ UNCHANGED <<sigterm_seen, sigchld_seen, target_pending>>

\* helpr_runner_sighandler(SIGALRM)
HandleAlarm ==
    /\ sigalrm_seen' = TRUE /\ SignalTarget("ALRM")
    /\ UNCHANGED <<sigterm_seen, sigchld_seen>>

\* helpr_runner_sighandler(SIGCHLD)
HandleChild ==
    /\ sigchld_seen' = TRUE
    /\ UNCHANGED <<sigterm_seen, sigalrm_seen, target_pending>>

\* Inside sigsuspend nothing is blocked: one pending signal is delivered.
Deliver ==
    /\ pc = "wait"
    /\ \/ "TERM" \in pending /\ HandleTerm  /\ pending' = pending \ {"TERM"}
       \/ "ALRM" \in pending /\ HandleAlarm /\ pending' = pending \ {"ALRM"}
       \/ "CHLD" \in pending /\ HandleChild /\ pending' = pending \ {"CHLD"}
    /\ handled' = TRUE
    /\ UNCHANGED <<pc, timer, jobVars, target, wait_status, pipeVars, history>>

\* sigsuspend returns after its handlers, the mask is back, the loop goes round
\* or ends.
SigsuspendReturns ==
    /\ pc = "wait" /\ handled /\ pending = {}
    /\ handled' = FALSE
    /\ pc' = (IF WaitIsOver THEN "disarm" ELSE "wait")
    /\ UNCHANGED <<sigterm_seen, sigalrm_seen, sigchld_seen, pending, timer,
                   jobVars, targetVars, pipeVars, history>>

\* alarm(0).  Without SIGCHLD there is no waitpid: back to the loop condition,
\* which finds sigterm_seen.
Disarm ==
    /\ pc = "disarm"
    /\ timer' = FALSE
    /\ \/ /\ sigchld_seen
          /\ pc' = "waitpid" /\ UNCHANGED fuzzer_pending
       \/ /\ ~sigchld_seen /\ sigterm_seen
          /\ pc' = "exited" /\ fuzzer_pending' = fuzzer_pending \cup {"CHLD"}
       \/ /\ ~sigchld_seen /\ ~sigterm_seen
          /\ pc' = "receive" /\ UNCHANGED fuzzer_pending
    /\ UNCHANGED <<signalVars, jobVars, targetVars, to_runner, from_runner, sent,
                   terms, input_closed, history>>

\* Mutant: any death by SIGALRM is a timeout.
VerdictBySignal(status) ==
    CASE status = "exited" -> "VALID"
      [] status \in {"alarmed", "own_alarm"} -> "TIMEOUT"
      [] OTHER -> "CRASH"

\* Mutant: a death by SIGKILL gets no verdict.
VerdictMissing(status) ==
    CASE status = "exited" -> "VALID"
      [] status = "killed" -> "NO_STATE"
      [] status \in {"alarmed", "own_alarm"} /\ sigalrm_seen -> "TIMEOUT"
      [] OTHER -> "CRASH"

\* WIFEXITED, WIFSIGNALED, WTERMSIG == SIGALRM.
Verdict(status) ==
    CASE status = "exited" -> "VALID"
      [] status \in {"alarmed", "own_alarm"} /\ sigalrm_seen -> "TIMEOUT"
      [] OTHER -> "CRASH"

\* Mutant: current_target_pid keeps the pid of a reaped process.
ReapKeepsPid == target' = "none" /\ UNCHANGED current_target_pid

\* The target is reaped.
Reap == target' = "none" /\ current_target_pid' = -1

\* waitpid blocks until the target is dead.  Without a child it fails at once and
\* leaves wait_status uninitialised: what it holds is the status of some earlier
\* target.
Waitpid ==
    /\ pc = "waitpid" /\ target \in {"dead", "none"}
    /\ wait_status' \in IF target = "dead" THEN {wait_status} ELSE WaitStatus
    /\ Reap /\ target_pending' = {}
    /\ final_state' = Verdict(wait_status')
    /\ pc' = "alert"
    /\ UNCHANGED <<signalVars, timer, timeout, inp_str, pipeVars, history>>

\* runner_alert_fuzzer: the packet ...
WriteStatus ==
    /\ pc = "alert"
    /\ from_runner' = Append(from_runner, [input |-> inp_str, state |-> final_state])
    /\ pc' = "signal"
    /\ UNCHANGED <<signalVars, timer, jobVars, targetVars, to_runner, fuzzer_pending,
                   sent, terms, input_closed, history>>

\* ... and SIGUSR1.
AlertFuzzer ==
    /\ pc = "signal"
    /\ fuzzer_pending' = fuzzer_pending \cup {"USR1"}
    /\ pc' = "receive"
    /\ UNCHANGED <<signalVars, timer, jobVars, targetVars, to_runner, from_runner,
                   sent, terms, input_closed, history>>

-----------------------------------------------------------------------------
(***************************************************************************)
(* The target process and the alarm clock.                                 *)
(***************************************************************************)
targetFrame == <<pc, sigterm_seen, sigalrm_seen, sigchld_seen, handled, timer,
                 jobVars, pipeVars>>

\* SIGCHLD for a living parent.
ChildChanged == pending' = IF pc = "exited" THEN pending ELSE pending \cup {"CHLD"}

Execute ==
    /\ target = "forked"
    /\ target' = "running"
    /\ UNCHANGED <<targetFrame, pending, target_pending, wait_status, history>>

\* execvp fails: exit(EXIT_FAILURE).
ExecuteFails ==
    /\ target = "forked" /\ "exec" \in Faults
    /\ target' = "dead" /\ wait_status' = "exited" /\ target_pending' = {}
    /\ ChildChanged
    /\ UNCHANGED <<targetFrame, history>>

\* Before execvp the child still has the runner's handler, and its copy of
\* current_target_pid is -1: a SIGALRM is taken and leads to nothing.
AlarmSwallowed ==
    /\ target = "forked" /\ "slow" \in Faults /\ "ALRM" \in target_pending
    /\ target_pending' = target_pending \ {"ALRM"}
    /\ happened' = happened \cup {"slow"}
    /\ UNCHANGED <<targetFrame, pending, target, wait_status, expired>>

\* The target ignores SIGALRM or has a handler of its own for it.
AlarmIgnored ==
    /\ target = "running" /\ "ignore" \in Faults /\ "ALRM" \in target_pending
    /\ target_pending' = target_pending \ {"ALRM"}
    /\ happened' = happened \cup {"ignore"}
    /\ UNCHANGED <<targetFrame, pending, target, wait_status, expired>>

\* The target comes to an end of its own.
TargetEnds ==
    /\ target = "running"
    /\ wait_status' \in {"exited", "crashed", "own_alarm"}
    /\ target' = "dead" /\ target_pending' = {}
    /\ ChildChanged
    /\ UNCHANGED <<targetFrame, history>>

\* SIGKILL ends it in any state, SIGALRM while it runs.
TargetKilled ==
    /\ \/ /\ target \in {"forked", "running", "stopped"} /\ "KILL" \in target_pending
          /\ wait_status' = "killed"
       \/ /\ target = "running" /\ "ALRM" \in target_pending
          /\ wait_status' = "alarmed"
    /\ target' = "dead" /\ target_pending' = {}
    /\ ChildChanged
    /\ UNCHANGED <<targetFrame, history>>

\* A stopped or continued child raises SIGCHLD as well: no SA_NOCLDSTOP.
TargetStops ==
    /\ target = "running" /\ "stop" \in Faults
    /\ target' = "stopped" /\ happened' = happened \cup {"stop"}
    /\ ChildChanged
    /\ UNCHANGED <<targetFrame, target_pending, wait_status, expired>>

TargetContinues ==
    /\ target = "stopped"
    /\ target' = "running"
    /\ ChildChanged
    /\ UNCHANGED <<targetFrame, target_pending, wait_status, history>>

\* The alarm clock goes off.
TimerExpires ==
    /\ timer /\ (pc = "wait" \/ "late" \in Faults)
    /\ timer' = FALSE
    /\ pending' = pending \cup {"ALRM"}
    /\ expired' = expired \cup {inp_str}
    /\ UNCHANGED <<pc, sigterm_seen, sigalrm_seen, sigchld_seen, handled, jobVars,
                   targetVars, pipeVars, happened>>

-----------------------------------------------------------------------------
(***************************************************************************)
(* The fuzzer, as the runner sees it.                                      *)
(***************************************************************************)
fuzzerFrame == <<pc, sigterm_seen, sigalrm_seen, sigchld_seen, handled, timer,
                 jobVars, targetVars>>

\* An input is out: in the first pipe, with the runner, or answered and unread.
JobOut ==
    \/ to_runner # <<>> \/ from_runner # <<>>
    \/ pc \in {"fork", "arm", "wait", "disarm", "waitpid", "alert"}

SendInput ==
    /\ sent < Jobs /\ ~JobOut /\ pc # "exited" /\ ~input_closed
    /\ to_runner' = Append(to_runner, sent + 1)
    /\ sent' = sent + 1
    /\ UNCHANGED <<fuzzerFrame, pending, from_runner, fuzzer_pending, terms,
                   input_closed, history>>

\* The last write end goes: runner_fini of the runner launched before this one has
\* closed the fuzzer's (see Fuzzer!FuzzerEndClosed), every later runner is gone.
CloseInput ==
    /\ ~input_closed /\ pc # "exited"
    /\ input_closed' = TRUE
    /\ UNCHANGED <<fuzzerFrame, pending, to_runner, from_runner, fuzzer_pending, sent,
                   terms, history>>

TakeStatus ==
    /\ from_runner # <<>>
    /\ from_runner' = Tail(from_runner)
    /\ UNCHANGED <<fuzzerFrame, pending, to_runner, fuzzer_pending, sent, terms,
                   input_closed, history>>

FuzzerHandles ==
    /\ fuzzer_pending # {}
    /\ fuzzer_pending' = {}
    /\ UNCHANGED <<fuzzerFrame, pending, to_runner, from_runner, sent, terms,
                   input_closed, history>>

\* SIGTERM, SIGINT or SIGHUP: swallowed by the inherited handler before the
\* runner has its own.
SendTerm ==
    /\ pc # "exited" /\ terms < MaxTerms
    /\ terms' = terms + 1
    /\ IF pc = "launched"
       THEN happened' = happened \cup {"lost_term"} /\ UNCHANGED pending
       ELSE pending' = pending \cup {"TERM"} /\ UNCHANGED happened
    /\ UNCHANGED <<fuzzerFrame, to_runner, from_runner, fuzzer_pending, sent,
                   input_closed, expired>>

RunnerStep ==
    \/ InstallHandlers \/ Receive \/ Interrupted \/ ReadEndOfFile \/ Finish
    \/ ForkTarget \/ ForkFails \/ Arm \/ Deliver \/ SigsuspendReturns \/ Disarm
    \/ Waitpid \/ WriteStatus \/ AlertFuzzer

TargetStarts == Execute \/ ExecuteFails

TargetStep ==
    \/ TargetStarts \/ AlarmSwallowed \/ AlarmIgnored \/ TargetEnds
    \/ TargetKilled \/ TargetStops \/ TargetContinues

FuzzerStep == SendInput \/ CloseInput \/ TakeStatus \/ FuzzerHandles \/ SendTerm

Next == RunnerStep \/ TargetStep \/ TimerExpires \/ FuzzerStep

Spec == Init /\ [][Next]_vars

\* The kernel schedules the runner, starts and kills processes and keeps time.
\* Nothing makes a target end by itself, continue, or the fuzzer send.
Fairness ==
    /\ WF_vars(RunnerStep)
    /\ WF_vars(TargetStarts)
    /\ WF_vars(TargetKilled)
    /\ WF_vars(TimerExpires)

FairSpec == Spec /\ Fairness

-----------------------------------------------------------------------------
(***************************************************************************)
(* The runner of Fuzzer: what that module lets runner 1 of two do.  Runner *)
(* 0 stands for the reason of an end of file: it has been reaped.          *)
(***************************************************************************)
Alive == target \in {"forked", "running", "stopped"}

\* Where Fuzzer sees the runner: one phase for the life of a target; a zombie's
\* pipe ends are closed once the target it has killed is gone.
FuzzerRpc ==
    CASE pc \in {"fork", "arm", "wait", "disarm", "waitpid"} -> "wait"
      [] pc = "exited" -> IF Alive THEN "exited" ELSE "closed"
      [] OTHER -> pc

\* A SIGTERM handled while a target is out shows when the target is done with.
FuzzerTerm ==
    IF sigterm_seen
    THEN IF FuzzerRpc = "wait" THEN "pending" ELSE "seen"
    ELSE IF "TERM" \in pending THEN "pending"
    ELSE IF "lost_term" \in happened THEN "swallowed" ELSE "none"

OfTwo(other, this) == [r \in {0, 1} |-> IF r = 1 THEN this ELSE other]

F == INSTANCE Fuzzer WITH
        job_count <- 2, input_count <- Jobs, num_seeds <- 0, UserStops <- FALSE,
        StaleSignals <- Faults \cap {"late", "stop"} # {}, MaxKills <- 0,
        pc <- "top", scan <- 1, fds <- {}, shutdown_req <- FALSE,
        sigchld_seen <- FALSE, sigusr1_seen <- FALSE, pending <- fuzzer_pending,
        pool <- <<1>>, ready <- <<>>, active <- <<1>>, done <- <<>>,
        jobs_sent <- 0, jobs_received <- 0,
        active_input <- OfTwo(0, 0), queued <- {}, freed <- {}, reported <- {},
        rpc <- OfTwo(IF input_closed THEN "reaped" ELSE "receive", FuzzerRpc),
        to_runner <- OfTwo(<<>>, to_runner),
        from_runner <- OfTwo(<<>>, from_runner),
        inp_str <- OfTwo(0, inp_str),
        final_state <- OfTwo("VALID", final_state),
        term <- OfTwo("none", FuzzerTerm),
        kills <- 0

-----------------------------------------------------------------------------
(***************************************************************************)
(* Properties.                                                             *)
(***************************************************************************)

\* Every variable has its type; each pipe holds at most one message.
TypeOK ==
    /\ pc \in RunnerPC /\ timeout \in Timeouts
    /\ sigterm_seen \in BOOLEAN /\ sigalrm_seen \in BOOLEAN
    /\ sigchld_seen \in BOOLEAN /\ handled \in BOOLEAN
    /\ pending \subseteq Signals /\ timer \in BOOLEAN
    /\ current_target_pid \in Inputs \cup {-1}
    /\ inp_str \in Inputs \cup {0} /\ final_state \in Outcomes
    /\ target \in TargetState /\ target_pending \subseteq {"ALRM", "KILL"}
    /\ wait_status \in WaitStatus
    /\ to_runner \in Seq(Inputs) /\ from_runner \in Seq(Status)
    /\ Len(to_runner) <= 1 /\ Len(from_runner) <= 1
    /\ fuzzer_pending \subseteq {"USR1", "CHLD"}
    /\ sent \in 0 .. Jobs /\ terms \in Nat /\ input_closed \in BOOLEAN
    /\ expired \subseteq Inputs
    /\ happened \subseteq FaultKinds \cup {"lost_term"}

\* A target lives only while the runner waits for it: no two targets share the
\* coverage map, and none is left behind when the runner takes the next input or
\* exits, unless SIGKILL is already on its way to it.
NoTargetLeftBehind ==
    Alive => \/ pc \in {"arm", "wait", "disarm", "waitpid"}
             \/ pc = "exited" /\ "KILL" \in target_pending

\* sigsuspend never sleeps over a dead target: a SIGCHLD that came while it was
\* blocked is still pending.
NoLostChild ==
    pc = "wait" /\ ~handled /\ target = "dead" => "CHLD" \in pending

\* The waitpid made with every signal blocked and no alarm returns at once,
\* except for a target that stopped or continued rather than ended.
WaitpidReturns ==
    pc = "waitpid" => ~Alive \/ "stop" \in happened

\* A handler can only kill the target of the present job: wherever one can run,
\* current_target_pid names a process that has not been reaped, or none.
KillsOnlyItsTarget ==
    pc \in {"receive", "wait"} /\ current_target_pid > 0
        => pc = "wait" /\ current_target_pid = inp_str /\ target # "none"

\* A TIMEOUT is about a target whose own alarm has expired, or the alarm of the
\* input just before it: a stale SIGALRM reaches no further than one input.
TimeoutAlmostTruthful ==
    pc \in {"alert", "signal"} /\ final_state = "TIMEOUT"
        => \E k \in expired : k \in {inp_str - 1, inp_str}

\* A TIMEOUT says that the target of this input has timed out (runner.h:21).
TimeoutTruthful ==
    pc \in {"alert", "signal"} /\ final_state = "TIMEOUT" => inp_str \in expired

\* A CRASH about a target that the runner itself killed can only be the last
\* report of a runner that has been told to terminate, unless a fork failed and
\* the verdict is about no target at all.
CrashTruthful ==
    pc \in {"alert", "signal"} /\ final_state = "CRASH"
        => \/ wait_status \in {"crashed", "own_alarm"}
           \/ sigterm_seen \/ "fork" \in happened

\* What the runner does is what Fuzzer says a runner does: every step is a step
\* of its RunnerStep, or one of the fuzzer, or invisible to the fuzzer.
IsFuzzerRunner ==
    [][ \/ F!RunnerStep(1)
        \/ SendInput \/ CloseInput \/ TakeStatus \/ FuzzerHandles
        \/ SendTerm /\ F!SigtermTo(1) ]_<<FuzzerRpc, to_runner, from_runner,
            fuzzer_pending, input_closed, inp_str, final_state, FuzzerTerm>>

\* A runner with its handlers installed terminates on a signal, with or without
\* a time limit, unless its target was stopped.
Terminates ==
    "TERM" \in pending ~> pc = "exited" \/ "stop" \in happened

\* With a time limit every input is answered, or the runner exits, unless a fault
\* took the SIGALRM from its target.
InputAnswered ==
    pc = "wait" /\ timeout > 0
        ~> \/ pc \in {"receive", "exited"}
           \/ happened \cap {"fork", "slow", "ignore", "stop"} # {}

=============================================================================
