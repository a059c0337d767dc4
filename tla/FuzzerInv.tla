----------------------------- MODULE FuzzerInv -----------------------------
(***************************************************************************)
(* The inductive invariant of Fuzzer: the strengthenings of its safety     *)
(* properties that FuzzerProofs needs, each named for what it adds.        *)
(***************************************************************************)
EXTENDS Fuzzer

Busy == Elements(active) \cup Elements(done)

\* A runner with a target has read its input; a busy runner has one on record.
InputsKnown ==
    /\ \A r \in Runners : rpc[r] \in {"wait", "alert"} => inp_str[r] \in Inputs
    /\ \A r \in Busy : active_input[r] \in Inputs

\* Where the input or the status of a runner's job is.  It is at most in one of
\* the two pipes or with the process, and no live active runner is without one.
JobPlacedAt(r) ==
    /\ to_runner[r] # <<>> =>
          /\ to_runner[r] = <<active_input[r]>> /\ from_runner[r] = <<>>
          /\ rpc[r] \in {"launched", "receive", "signal", "closed", "reaped"}
          /\ r \in Elements(active) \/ rpc[r] \in {"closed", "reaped"}
    /\ from_runner[r] # <<>> =>
          /\ \E s \in Outcomes :
                from_runner[r] = <<[input |-> active_input[r], state |-> s]>>
          /\ rpc[r] \in {"receive", "signal", "closed", "reaped"}
          /\ r \in Busy \/ r \notin Elements(pool)
    /\ rpc[r] \in {"wait", "alert", "exited"} =>
          /\ to_runner[r] = <<>> /\ from_runner[r] = <<>>
          /\ r \in Elements(active)
          /\ rpc[r] # "exited" => inp_str[r] = active_input[r]
    /\ r \in Elements(active) =>
          \/ to_runner[r] # <<>> \/ from_runner[r] # <<>>
          \/ rpc[r] \in {"wait", "alert", "exited", "closed", "reaped"}
    /\ r \in Elements(done) =>
          from_runner[r] # <<>> \/ rpc[r] \in {"closed", "reaped"}

JobPlaced == \A r \in Runners : JobPlacedAt(r)

\* InputsLive, and no input beyond the ones dispatched is in use.
InputsFresh ==
    /\ InputsLive
    /\ \A r \in Busy : active_input[r] <= jobs_sent
    /\ \A i \in freed \cup queued : i <= jobs_sent

\* Accounting, and the pool never grows.
JobsCounted == Accounting /\ Len(pool) <= job_count

\* A status whose SIGUSR1 has been sent: the signal is pending, or seen, or the
\* loop of runners_check_if_jobs_done has yet to come to its runner.
StatusNoticed ==
    \A i \in DOMAIN active :
        from_runner[active[i]] # <<>> /\ rpc[active[i]] # "signal" =>
            \/ "USR1" \in pending \/ sigusr1_seen
            \/ pc = "collect" /\ active[i] \in fds /\ scan <= i

\* What select() reported stays true while its result is used.
FdsReadable == pc = "collect" => \A r \in fds : Readable(r)

\* sigsuspend is entered with no flag set and a job to wait for.
SuspendGuard ==
    pc = "suspend" => ~sigchld_seen /\ ~sigusr1_seen /\ active # <<>>

IInv ==
    /\ TypeOK /\ InputsKnown /\ RunnerLists /\ JobPlaced /\ InputsFresh
    /\ JobsCounted /\ ZombieNoticed /\ StatusNoticed /\ FdsReadable /\ SuspendGuard

-----------------------------------------------------------------------------
(***************************************************************************)
(* The undisturbed campaign.                                               *)
(***************************************************************************)
Undisturbed == ~UserStops /\ ~StaleSignals /\ MaxKills = 0

\* Every dispatched input is freed, queued or on record for a busy runner.
NoInputLost ==
    \A k \in 1 .. jobs_sent :
        k \in freed \cup queued \/ \E r \in Busy : active_input[r] = k

\* Before the cleanup no runner is dead or told to die, nothing says one is, and the
\* fuzzer is not told to stop; the cleanup begins when every result is in.
NothingDies ==
    /\ "TERM" \notin pending /\ Len(pool) = job_count /\ pc # "reap"
    /\ pc \in Cleanup => jobs_received >= target_total
    /\ pc \notin Cleanup =>
          /\ ~shutdown_req /\ ~sigchld_seen /\ "CHLD" \notin pending
          /\ \A r \in Runners : term[r] = "none" /\ rpc[r] \notin Zombie \cup {"reaped"}

Calm == IInv /\ NoInputLost /\ NothingDies

=============================================================================
