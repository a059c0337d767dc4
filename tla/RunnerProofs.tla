---------------------------- MODULE RunnerProofs ----------------------------
(***************************************************************************)
(* Theorems about RunnerProcess, for any number of inputs and terminating  *)
(* signals, any time limits and any set of faults.                         *)
(***************************************************************************)
EXTENDS RunnerProcess, TLAPS

Waiting == {"wait", "disarm", "waitpid"}
Busy    == {"fork", "arm", "alert"} \cup Waiting

\* One input is out at a time, and the runner has read all but the last.
OneInput ==
    /\ to_runner # <<>> => pc \notin Busy /\ from_runner = <<>> /\ to_runner = <<sent>>
    /\ from_runner # <<>> => pc \notin Busy /\ Len(from_runner) = 1
    /\ sent = IF to_runner = <<>> THEN inp_str ELSE inp_str + 1
    /\ pc \in Busy \cup {"signal"} => inp_str \in Inputs
    /\ pc = "launched" => inp_str = 0 /\ pending = {}

\* There is a child only from fork to waitpid, and the handler knows it.
TargetKnown ==
    /\ target # "none" => pc \in {"arm", "exited"} \cup Waiting
    /\ pc \in Waiting
         => current_target_pid = IF target = "none" THEN -1 ELSE inp_str
    /\ pc \notin Waiting \cup {"exited"} => current_target_pid = -1 /\ target_pending = {}
    /\ target = "none" /\ pc \in {"arm"} \cup Waiting => "fork" \in happened

\* When flags may be set, and when the alarm clock runs.
FlagsFresh ==
    /\ timer => pc \in {"wait", "disarm"}
    /\ pc \in {"launched", "fork", "arm"} => ~sigterm_seen
    /\ pc = "wait" /\ ~handled => ~sigchld_seen /\ ~sigterm_seen
    /\ pc = "disarm" => sigchld_seen \/ sigterm_seen
    /\ pc = "waitpid" => sigchld_seen
    /\ handled => pc = "wait"

\* A dead target is announced once: by a pending SIGCHLD or by the flag.
ChildNoticed ==
    /\ target = "dead" /\ (pc = "arm" \/ (pc = "wait" /\ ~sigchld_seen))
         => "CHLD" \in pending
    /\ target = "stopped" => "stop" \in happened
    /\ "stop" \notin happened
         => /\ "CHLD" \in pending => target = "dead"
            /\ pc \in Waiting /\ sigchld_seen => target = "dead" /\ "CHLD" \notin pending

\* Where an alarm can come from.
ThisOrLast == \E k \in expired : k \in {inp_str - 1, inp_str}

AlarmKnown ==
    /\ "ALRM" \in pending =>
         CASE pc \in {"fork", "arm"} -> inp_str - 1 \in expired
           [] pc = "wait" -> ThisOrLast
           [] pc = "exited" -> TRUE
           [] OTHER -> inp_str \in expired
    /\ pc \in Waiting \cup {"alert", "signal"} /\ sigalrm_seen => ThisOrLast
    /\ pc \in {"alert", "signal"} /\ final_state = "TIMEOUT" => sigalrm_seen

\* Who has signalled the target.
KillKnown ==
    /\ pc \in {"wait", "disarm", "exited"} /\ sigterm_seen /\ Alive
         => "KILL" \in target_pending
    /\ pc = "exited" /\ Alive => "KILL" \in target_pending
    /\ pc \in Waiting =>
         /\ "KILL" \in target_pending => sigterm_seen
         /\ "ALRM" \in target_pending => sigalrm_seen
    /\ pc \in {"arm"} \cup Waiting /\ target = "dead" =>
         /\ wait_status = "killed" => sigterm_seen
         /\ wait_status = "alarmed" => pc # "arm" /\ sigalrm_seen

\* What a left-over signal presupposes: a fault, and an earlier target.
StaleKnown ==
    /\ happened \subseteq Faults \cup {"lost_term"}
    /\ target # "none" \/ "stop" \in happened => inp_str \in Inputs
    /\ "ALRM" \in pending /\ pc # "wait" => "late" \in Faults

RInv ==
    /\ TypeOK /\ OneInput /\ TargetKnown /\ FlagsFresh
    /\ ChildNoticed /\ AlarmKnown /\ KillKnown /\ CrashTruthful
    /\ StaleKnown

-----------------------------------------------------------------------------
LEMMA RInvInit == Init => RInv
<1> SUFFICES ASSUME Init PROVE RInv
  OBVIOUS
<1> USE RunnerAssumption DEF Init
<1>1. TypeOK
  <2>1. current_target_pid \in Inputs \cup {-1} /\ sent \in 0 .. Jobs /\ terms \in Nat
    BY DEF Inputs
  <2>2. to_runner \in Seq(Inputs) /\ from_runner \in Seq(Status)
    OBVIOUS
  <2>3. Len(to_runner) <= 1 /\ Len(from_runner) <= 1
    OBVIOUS
  <2>4. pc \in RunnerPC /\ target \in TargetState /\ final_state \in Outcomes
    BY DEF RunnerPC, TargetState, Outcomes
  <2> QED BY <2>1, <2>2, <2>3, <2>4 DEF TypeOK, WaitStatus
<1>2. OneInput /\ TargetKnown /\ FlagsFresh
  BY DEF OneInput, TargetKnown, FlagsFresh, Busy, Waiting
<1>3. ChildNoticed /\ AlarmKnown /\ KillKnown /\ CrashTruthful /\ StaleKnown
  BY DEF ChildNoticed, AlarmKnown, KillKnown, CrashTruthful, StaleKnown, Waiting, Alive
<1> QED BY <1>1, <1>2, <1>3 DEF RInv

\* Every step of the runner keeps the invariant.
LEMMA RunnerKeeps ==
  ASSUME RInv, RunnerStep
  PROVE  RInv'
<1> USE RunnerAssumption DEF RInv, signalVars, targetVars, pipeVars, jobVars,
        history, Busy, Waiting, Inputs
<1>1. CASE InstallHandlers
  <2>1. TypeOK'
    BY <1>1 DEF InstallHandlers, TypeOK, OneInput, RunnerPC, TargetState,
       WaitStatus, Outcomes, Status, Signals, FaultKinds
  <2>2. OneInput'
    BY <1>1 DEF InstallHandlers, OneInput, TargetKnown, FlagsFresh, TypeOK
  <2>3. TargetKnown' /\ FlagsFresh'
    BY <1>1 DEF InstallHandlers, TargetKnown, FlagsFresh, OneInput, TypeOK
  <2>4. ChildNoticed'
    BY <1>1 DEF InstallHandlers, ChildNoticed, TargetKnown, FlagsFresh, TypeOK
  <2>5. AlarmKnown'
    BY <1>1 DEF InstallHandlers, AlarmKnown, ThisOrLast, OneInput, FlagsFresh,
       TypeOK, RunnerPC
  <2>6. KillKnown'
    BY <1>1 DEF InstallHandlers, KillKnown, TargetKnown, FlagsFresh, OneInput,
       TypeOK, Alive
  <2>7. CrashTruthful'
    BY <1>1 DEF InstallHandlers, CrashTruthful, KillKnown, TargetKnown,
       FlagsFresh, TypeOK, WaitStatus
  <2>8. StaleKnown'
    BY <1>1 DEF InstallHandlers, StaleKnown, OneInput, TargetKnown,
       FlagsFresh, TypeOK
  <2> QED BY <2>1, <2>2, <2>3, <2>4, <2>5, <2>6, <2>7, <2>8
<1>2. CASE Receive
  <2>1. TypeOK'
    BY <1>2 DEF Receive, TypeOK, OneInput, RunnerPC, TargetState, WaitStatus,
       Outcomes, Status, Signals, FaultKinds
  <2>2. OneInput'
    BY <1>2 DEF Receive, OneInput, TargetKnown, FlagsFresh, TypeOK
  <2>3. TargetKnown' /\ FlagsFresh'
    BY <1>2 DEF Receive, TargetKnown, FlagsFresh, OneInput, TypeOK
  <2>4. ChildNoticed'
    BY <1>2 DEF Receive, ChildNoticed, TargetKnown, FlagsFresh, TypeOK
  <2>5. AlarmKnown'
    BY <1>2 DEF Receive, AlarmKnown, ThisOrLast, OneInput, FlagsFresh, TypeOK,
       RunnerPC
  <2>6. KillKnown'
    BY <1>2 DEF Receive, KillKnown, TargetKnown, FlagsFresh, OneInput, TypeOK,
       Alive
  <2>7. CrashTruthful'
    BY <1>2 DEF Receive, CrashTruthful, KillKnown, TargetKnown, FlagsFresh,
       TypeOK, WaitStatus
  <2>8. StaleKnown'
    BY <1>2 DEF Receive, StaleKnown, OneInput, TargetKnown, FlagsFresh, TypeOK
  <2> QED BY <2>1, <2>2, <2>3, <2>4, <2>5, <2>6, <2>7, <2>8
<1>3. CASE Interrupted
  <2>1. TypeOK'
    BY <1>3 DEF Interrupted, RunHandlers, TypeOK, OneInput, RunnerPC,
       TargetState, WaitStatus, Outcomes, Status, Signals, FaultKinds
  <2>2. OneInput'
    BY <1>3 DEF Interrupted, RunHandlers, OneInput, TargetKnown, FlagsFresh,
       TypeOK
  <2>3. TargetKnown' /\ FlagsFresh'
    BY <1>3 DEF Interrupted, RunHandlers, TargetKnown, FlagsFresh, OneInput,
       TypeOK
  <2>4. ChildNoticed'
    BY <1>3 DEF Interrupted, RunHandlers, ChildNoticed, TargetKnown,
       FlagsFresh, TypeOK
  <2>5. AlarmKnown'
    BY <1>3 DEF Interrupted, RunHandlers, AlarmKnown, ThisOrLast, OneInput,
       FlagsFresh, TypeOK, RunnerPC
  <2>6. KillKnown'
    BY <1>3 DEF Interrupted, RunHandlers, KillKnown, TargetKnown, FlagsFresh,
       OneInput, TypeOK, Alive
  <2>7. CrashTruthful'
    BY <1>3 DEF Interrupted, RunHandlers, CrashTruthful, KillKnown,
       TargetKnown, FlagsFresh, TypeOK, WaitStatus
  <2>8. StaleKnown'
    BY <1>3 DEF Interrupted, RunHandlers, StaleKnown, OneInput, TargetKnown,
       FlagsFresh, TypeOK
  <2> QED BY <2>1, <2>2, <2>3, <2>4, <2>5, <2>6, <2>7, <2>8
<1>4. CASE Finish
  <2>1. TypeOK'
    BY <1>4 DEF Finish, TypeOK, OneInput, RunnerPC, TargetState, WaitStatus,
       Outcomes, Status, Signals, FaultKinds
  <2>2. OneInput'
    BY <1>4 DEF Finish, OneInput, TargetKnown, FlagsFresh, TypeOK
  <2>3. TargetKnown' /\ FlagsFresh'
    BY <1>4 DEF Finish, TargetKnown, FlagsFresh, OneInput, TypeOK
  <2>4. ChildNoticed'
    BY <1>4 DEF Finish, ChildNoticed, TargetKnown, FlagsFresh, TypeOK
  <2>5. AlarmKnown'
    BY <1>4 DEF Finish, AlarmKnown, ThisOrLast, OneInput, FlagsFresh, TypeOK,
       RunnerPC
  <2>6. KillKnown'
    BY <1>4 DEF Finish, KillKnown, TargetKnown, FlagsFresh, OneInput, TypeOK,
       Alive
  <2>7. CrashTruthful'
    BY <1>4 DEF Finish, CrashTruthful, KillKnown, TargetKnown, FlagsFresh,
       TypeOK, WaitStatus
  <2>8. StaleKnown'
    BY <1>4 DEF Finish, StaleKnown, OneInput, TargetKnown, FlagsFresh, TypeOK
  <2> QED BY <2>1, <2>2, <2>3, <2>4, <2>5, <2>6, <2>7, <2>8
<1>5. CASE ForkTarget
  <2>1. TypeOK'
    BY <1>5 DEF ForkTarget, TypeOK, OneInput, RunnerPC, TargetState,
       WaitStatus, Outcomes, Status, Signals, FaultKinds
  <2>2. OneInput'
    BY <1>5 DEF ForkTarget, OneInput, TargetKnown, FlagsFresh, TypeOK
  <2>3. TargetKnown' /\ FlagsFresh'
    BY <1>5 DEF ForkTarget, TargetKnown, FlagsFresh, OneInput, TypeOK
  <2>4. ChildNoticed'
    BY <1>5 DEF ForkTarget, ChildNoticed, TargetKnown, FlagsFresh, TypeOK
  <2>5. AlarmKnown'
    BY <1>5 DEF ForkTarget, AlarmKnown, ThisOrLast, OneInput, FlagsFresh,
       TypeOK, RunnerPC
  <2>6. KillKnown'
    BY <1>5 DEF ForkTarget, KillKnown, TargetKnown, FlagsFresh, OneInput,
       TypeOK, Alive
  <2>7. CrashTruthful'
    BY <1>5 DEF ForkTarget, CrashTruthful, KillKnown, TargetKnown, FlagsFresh,
       TypeOK, WaitStatus
  <2>8. StaleKnown'
    BY <1>5 DEF ForkTarget, StaleKnown, OneInput, TargetKnown, FlagsFresh,
       TypeOK
  <2> QED BY <2>1, <2>2, <2>3, <2>4, <2>5, <2>6, <2>7, <2>8
<1>6. CASE ForkFails
  <2>1. TypeOK'
    BY <1>6 DEF ForkFails, TypeOK, OneInput, RunnerPC, TargetState,
       WaitStatus, Outcomes, Status, Signals, FaultKinds
  <2>2. OneInput'
    BY <1>6 DEF ForkFails, OneInput, TargetKnown, FlagsFresh, TypeOK
  <2>3. TargetKnown' /\ FlagsFresh'
    <3>1. TargetKnown'
        BY <1>6 DEF ForkFails, TargetKnown, TypeOK
    <3>2. FlagsFresh'
        BY <1>6 DEF ForkFails, FlagsFresh
    <3> QED BY <3>1, <3>2
  <2>4. ChildNoticed'
    BY <1>6 DEF ForkFails, ChildNoticed, TargetKnown, FlagsFresh, TypeOK
  <2>5. AlarmKnown'
    BY <1>6 DEF ForkFails, AlarmKnown, ThisOrLast, OneInput, FlagsFresh,
       TypeOK, RunnerPC
  <2>6. KillKnown'
    BY <1>6 DEF ForkFails, KillKnown, TargetKnown, FlagsFresh, OneInput,
       TypeOK, Alive
  <2>7. CrashTruthful'
    BY <1>6 DEF ForkFails, CrashTruthful, KillKnown, TargetKnown, FlagsFresh,
       TypeOK, WaitStatus
  <2>8. StaleKnown'
    BY <1>6 DEF ForkFails, StaleKnown, OneInput, TargetKnown, FlagsFresh,
       TypeOK
  <2> QED BY <2>1, <2>2, <2>3, <2>4, <2>5, <2>6, <2>7, <2>8
<1>7. CASE Arm
  <2>1. TypeOK'
    <3>1. current_target_pid' \in Inputs \cup {-1} /\ pending' \subseteq Signals
        BY <1>7 DEF Arm, ResetFlags, WaitIsOver, OneInput, TypeOK
    <3>2. pc' \in RunnerPC /\ timer' \in BOOLEAN
        BY <1>7 DEF Arm, ResetFlags, WaitIsOver, RunnerPC
    <3>3. sigchld_seen' \in BOOLEAN /\ sigalrm_seen' \in BOOLEAN
        BY <1>7 DEF Arm, ResetFlags, WaitIsOver
    <3> QED
      BY <1>7, <3>1, <3>2, <3>3 DEF Arm, TypeOK
  <2>2. OneInput'
    BY <1>7 DEF Arm, ResetFlags, WaitIsOver, OneInput, TargetKnown,
       FlagsFresh, TypeOK
  <2>3. TargetKnown' /\ FlagsFresh'
    BY <1>7 DEF Arm, ResetFlags, WaitIsOver, TargetKnown, FlagsFresh,
       OneInput, TypeOK
  <2>4. ChildNoticed'
    BY <1>7 DEF Arm, ResetFlags, WaitIsOver, ChildNoticed, TargetKnown,
       FlagsFresh, TypeOK
  <2>5. AlarmKnown'
    BY <1>7 DEF Arm, ResetFlags, WaitIsOver, AlarmKnown, ThisOrLast, OneInput,
       FlagsFresh, TypeOK, RunnerPC
  <2>6. KillKnown'
    BY <1>7 DEF Arm, ResetFlags, WaitIsOver, KillKnown, TargetKnown,
       FlagsFresh, OneInput, TypeOK, Alive
  <2>7. CrashTruthful'
    BY <1>7 DEF Arm, ResetFlags, WaitIsOver, CrashTruthful, KillKnown,
       TargetKnown, FlagsFresh, TypeOK, WaitStatus
  <2>8. StaleKnown'
    BY <1>7 DEF Arm, ResetFlags, WaitIsOver, StaleKnown, OneInput,
       TargetKnown, FlagsFresh, TypeOK
  <2> QED BY <2>1, <2>2, <2>3, <2>4, <2>5, <2>6, <2>7, <2>8
<1>8. CASE Deliver
  <2>1. TypeOK'
    <3>1. target_pending' \subseteq {"ALRM", "KILL"} /\ pending' \subseteq Signals
        BY <1>8 DEF Deliver, HandleTerm, HandleAlarm, HandleChild, SignalTarget,
       TypeOK
    <3>2. sigterm_seen' \in BOOLEAN /\ sigalrm_seen' \in BOOLEAN /\ sigchld_seen' \in BOOLEAN
        BY <1>8 DEF Deliver, HandleTerm, HandleAlarm, HandleChild, SignalTarget,
       TypeOK
    <3> QED
      BY <1>8, <3>1, <3>2 DEF Deliver, TypeOK
  <2>2. OneInput'
    BY <1>8 DEF Deliver, HandleTerm, HandleAlarm, HandleChild, SignalTarget,
       OneInput, TargetKnown, FlagsFresh, TypeOK
  <2>3. TargetKnown' /\ FlagsFresh'
    BY <1>8 DEF Deliver, HandleTerm, HandleAlarm, HandleChild, SignalTarget,
       TargetKnown, FlagsFresh, OneInput, TypeOK
  <2>4. ChildNoticed'
    BY <1>8 DEF Deliver, HandleTerm, HandleAlarm, HandleChild, SignalTarget,
       ChildNoticed, TargetKnown, FlagsFresh, TypeOK
  <2>5. AlarmKnown'
    BY <1>8 DEF Deliver, HandleTerm, HandleAlarm, HandleChild, SignalTarget,
       AlarmKnown, ThisOrLast, OneInput, FlagsFresh, TypeOK, RunnerPC
  <2>6. KillKnown'
    BY <1>8 DEF Deliver, HandleTerm, HandleAlarm, HandleChild, SignalTarget,
       KillKnown, TargetKnown, FlagsFresh, OneInput, TypeOK, Alive
  <2>7. CrashTruthful'
    BY <1>8 DEF Deliver, HandleTerm, HandleAlarm, HandleChild, SignalTarget,
       CrashTruthful, KillKnown, TargetKnown, FlagsFresh, TypeOK, WaitStatus
  <2>8. StaleKnown'
    BY <1>8 DEF Deliver, HandleTerm, HandleAlarm, HandleChild, SignalTarget,
       StaleKnown, OneInput, TargetKnown, FlagsFresh, TypeOK
  <2> QED BY <2>1, <2>2, <2>3, <2>4, <2>5, <2>6, <2>7, <2>8
<1>9. CASE SigsuspendReturns
  <2>1. TypeOK'
    <3>1. pc' \in RunnerPC
        BY <1>9 DEF SigsuspendReturns, WaitIsOver, RunnerPC
    <3> QED
      BY <1>9, <3>1 DEF SigsuspendReturns, TypeOK
  <2>2. OneInput'
    BY <1>9 DEF SigsuspendReturns, WaitIsOver, OneInput, TargetKnown,
       FlagsFresh, TypeOK
  <2>3. TargetKnown' /\ FlagsFresh'
    BY <1>9 DEF SigsuspendReturns, WaitIsOver, TargetKnown, FlagsFresh,
       OneInput, TypeOK
  <2>4. ChildNoticed'
    BY <1>9 DEF SigsuspendReturns, WaitIsOver, ChildNoticed, TargetKnown,
       FlagsFresh, TypeOK
  <2>5. AlarmKnown'
    BY <1>9 DEF SigsuspendReturns, WaitIsOver, AlarmKnown, ThisOrLast,
       OneInput, FlagsFresh, TypeOK, RunnerPC
  <2>6. KillKnown'
    BY <1>9 DEF SigsuspendReturns, WaitIsOver, KillKnown, TargetKnown,
       FlagsFresh, OneInput, TypeOK, Alive
  <2>7. CrashTruthful'
    BY <1>9 DEF SigsuspendReturns, WaitIsOver, CrashTruthful, KillKnown,
       TargetKnown, FlagsFresh, TypeOK, WaitStatus
  <2>8. StaleKnown'
    BY <1>9 DEF SigsuspendReturns, WaitIsOver, StaleKnown, OneInput,
       TargetKnown, FlagsFresh, TypeOK
  <2> QED BY <2>1, <2>2, <2>3, <2>4, <2>5, <2>6, <2>7, <2>8
<1>10. CASE Disarm
  <2>1. TypeOK'
    <3>1. pc' \in RunnerPC /\ fuzzer_pending' \subseteq {"USR1", "CHLD"}
        BY <1>10 DEF Disarm, TypeOK, RunnerPC
    <3> QED
      BY <1>10, <3>1 DEF Disarm, TypeOK
  <2>2. OneInput'
    BY <1>10 DEF Disarm, OneInput, TargetKnown, FlagsFresh, TypeOK
  <2>3. TargetKnown' /\ FlagsFresh'
    BY <1>10 DEF Disarm, TargetKnown, FlagsFresh, OneInput, TypeOK
  <2>4. ChildNoticed'
    BY <1>10 DEF Disarm, ChildNoticed, TargetKnown, FlagsFresh, TypeOK
  <2>5. AlarmKnown'
    BY <1>10 DEF Disarm, AlarmKnown, ThisOrLast, OneInput, FlagsFresh, TypeOK,
       RunnerPC
  <2>6. KillKnown'
    BY <1>10 DEF Disarm, KillKnown, TargetKnown, FlagsFresh, OneInput, TypeOK,
       Alive
  <2>7. CrashTruthful'
    BY <1>10 DEF Disarm, CrashTruthful, KillKnown, TargetKnown, FlagsFresh,
       TypeOK, WaitStatus
  <2>8. StaleKnown'
    BY <1>10 DEF Disarm, StaleKnown, OneInput, TargetKnown, FlagsFresh, TypeOK
  <2> QED BY <2>1, <2>2, <2>3, <2>4, <2>5, <2>6, <2>7, <2>8
<1>11. CASE Waitpid
  <2>1. TypeOK'
    <3>1. final_state' \in Outcomes
        BY <1>11 DEF Waitpid, Reap, Verdict, Outcomes
    <3>2. wait_status' \in WaitStatus
        BY <1>11 DEF Waitpid, Reap, Verdict, TypeOK
    <3>3. pc' \in RunnerPC /\ target' \in TargetState
        BY <1>11 DEF Waitpid, Reap, Verdict, RunnerPC, TargetState
    <3> QED
      BY <1>11, <3>1, <3>2, <3>3 DEF Waitpid, Reap, TypeOK
  <2>2. OneInput'
    BY <1>11 DEF Waitpid, Reap, Verdict, OneInput, TargetKnown, FlagsFresh,
       TypeOK
  <2>3. TargetKnown' /\ FlagsFresh'
    BY <1>11 DEF Waitpid, Reap, Verdict, TargetKnown, FlagsFresh, OneInput,
       TypeOK
  <2>4. ChildNoticed'
    BY <1>11 DEF Waitpid, Reap, Verdict, ChildNoticed, TargetKnown,
       FlagsFresh, TypeOK
  <2>5. AlarmKnown'
    BY <1>11 DEF Waitpid, Reap, Verdict, AlarmKnown, ThisOrLast, OneInput,
       FlagsFresh, TypeOK, RunnerPC
  <2>6. KillKnown'
    BY <1>11 DEF Waitpid, Reap, Verdict, KillKnown, TargetKnown, FlagsFresh,
       OneInput, TypeOK, Alive
  <2>7. CrashTruthful'
    BY <1>11 DEF Waitpid, Reap, Verdict, CrashTruthful, KillKnown,
       TargetKnown, FlagsFresh, TypeOK, WaitStatus
  <2>8. StaleKnown'
    BY <1>11 DEF Waitpid, Reap, Verdict, StaleKnown, OneInput, TargetKnown,
       FlagsFresh, TypeOK
  <2> QED BY <2>1, <2>2, <2>3, <2>4, <2>5, <2>6, <2>7, <2>8
<1>12. CASE WriteStatus
  <2>1. TypeOK'
    BY <1>12 DEF WriteStatus, TypeOK, OneInput, RunnerPC, TargetState,
       WaitStatus, Outcomes, Status, Signals, FaultKinds
  <2>2. OneInput'
    BY <1>12 DEF WriteStatus, OneInput, TargetKnown, FlagsFresh, TypeOK
  <2>3. TargetKnown' /\ FlagsFresh'
    BY <1>12 DEF WriteStatus, TargetKnown, FlagsFresh, OneInput, TypeOK
  <2>4. ChildNoticed'
    BY <1>12 DEF WriteStatus, ChildNoticed, TargetKnown, FlagsFresh, TypeOK
  <2>5. AlarmKnown'
    BY <1>12 DEF WriteStatus, AlarmKnown, ThisOrLast, OneInput, FlagsFresh,
       TypeOK, RunnerPC
  <2>6. KillKnown'
    BY <1>12 DEF WriteStatus, KillKnown, TargetKnown, FlagsFresh, OneInput,
       TypeOK, Alive
  <2>7. CrashTruthful'
    BY <1>12 DEF WriteStatus, CrashTruthful, KillKnown, TargetKnown,
       FlagsFresh, TypeOK, WaitStatus
  <2>8. StaleKnown'
    BY <1>12 DEF WriteStatus, StaleKnown, OneInput, TargetKnown, FlagsFresh,
       TypeOK
  <2> QED BY <2>1, <2>2, <2>3, <2>4, <2>5, <2>6, <2>7, <2>8
<1>13. CASE AlertFuzzer
  <2>1. TypeOK'
    BY <1>13 DEF AlertFuzzer, TypeOK, OneInput, RunnerPC, TargetState,
       WaitStatus, Outcomes, Status, Signals, FaultKinds
  <2>2. OneInput'
    BY <1>13 DEF AlertFuzzer, OneInput, TargetKnown, FlagsFresh, TypeOK
  <2>3. TargetKnown' /\ FlagsFresh'
    BY <1>13 DEF AlertFuzzer, TargetKnown, FlagsFresh, OneInput, TypeOK
  <2>4. ChildNoticed'
    BY <1>13 DEF AlertFuzzer, ChildNoticed, TargetKnown, FlagsFresh, TypeOK
  <2>5. AlarmKnown'
    BY <1>13 DEF AlertFuzzer, AlarmKnown, ThisOrLast, OneInput, FlagsFresh,
       TypeOK, RunnerPC
  <2>6. KillKnown'
    BY <1>13 DEF AlertFuzzer, KillKnown, TargetKnown, FlagsFresh, OneInput,
       TypeOK, Alive
  <2>7. CrashTruthful'
    BY <1>13 DEF AlertFuzzer, CrashTruthful, KillKnown, TargetKnown,
       FlagsFresh, TypeOK, WaitStatus
  <2>8. StaleKnown'
    BY <1>13 DEF AlertFuzzer, StaleKnown, OneInput, TargetKnown, FlagsFresh,
       TypeOK
  <2> QED BY <2>1, <2>2, <2>3, <2>4, <2>5, <2>6, <2>7, <2>8
<1>14. CASE ReadEndOfFile
  <2>1. TypeOK'
    BY <1>14 DEF ReadEndOfFile, TypeOK, OneInput, RunnerPC, TargetState, WaitStatus,
       Outcomes, Status, Signals, FaultKinds
  <2>2. OneInput'
    BY <1>14 DEF ReadEndOfFile, OneInput, TargetKnown, FlagsFresh, TypeOK
  <2>3. TargetKnown' /\ FlagsFresh'
    BY <1>14 DEF ReadEndOfFile, TargetKnown, FlagsFresh, OneInput, TypeOK
  <2>4. ChildNoticed'
    BY <1>14 DEF ReadEndOfFile, ChildNoticed, TargetKnown, FlagsFresh, TypeOK
  <2>5. AlarmKnown'
    BY <1>14 DEF ReadEndOfFile, AlarmKnown, ThisOrLast, OneInput, FlagsFresh, TypeOK,
       RunnerPC
  <2>6. KillKnown'
    BY <1>14 DEF ReadEndOfFile, KillKnown, TargetKnown, FlagsFresh, OneInput, TypeOK,
       Alive
  <2>7. CrashTruthful'
    BY <1>14 DEF ReadEndOfFile, CrashTruthful, KillKnown, TargetKnown, FlagsFresh,
       TypeOK, WaitStatus
  <2>8. StaleKnown'
    BY <1>14 DEF ReadEndOfFile, StaleKnown, OneInput, TargetKnown, FlagsFresh, TypeOK
  <2> QED BY <2>1, <2>2, <2>3, <2>4, <2>5, <2>6, <2>7, <2>8
<1> QED BY <1>1, <1>2, <1>3, <1>4, <1>5, <1>6, <1>7, <1>8, <1>9, <1>10,
       <1>11, <1>12, <1>13, <1>14 DEF RunnerStep

\* Every step of the target keeps the invariant.
LEMMA TargetKeeps ==
  ASSUME RInv, TargetStep
  PROVE  RInv'
<1> USE RunnerAssumption DEF RInv, signalVars, targetVars, pipeVars, jobVars,
        history, Busy, Waiting, Inputs
<1>1. CASE Execute
  <2>1. TypeOK'
    BY <1>1 DEF Execute, targetFrame, TypeOK, OneInput, RunnerPC, TargetState,
       WaitStatus, Outcomes, Status, Signals, FaultKinds
  <2>2. OneInput'
    BY <1>1 DEF Execute, targetFrame, OneInput, TargetKnown, FlagsFresh,
       TypeOK
  <2>3. TargetKnown' /\ FlagsFresh'
    BY <1>1 DEF Execute, targetFrame, TargetKnown, FlagsFresh, OneInput,
       TypeOK
  <2>4. ChildNoticed'
    BY <1>1 DEF Execute, targetFrame, ChildNoticed, TargetKnown, FlagsFresh,
       TypeOK
  <2>5. AlarmKnown'
    BY <1>1 DEF Execute, targetFrame, AlarmKnown, ThisOrLast, OneInput,
       FlagsFresh, TypeOK, RunnerPC
  <2>6. KillKnown'
    BY <1>1 DEF Execute, targetFrame, KillKnown, TargetKnown, FlagsFresh,
       OneInput, TypeOK, Alive
  <2>7. CrashTruthful'
    BY <1>1 DEF Execute, targetFrame, CrashTruthful, KillKnown, TargetKnown,
       FlagsFresh, TypeOK, WaitStatus
  <2>8. StaleKnown'
    BY <1>1 DEF Execute, targetFrame, StaleKnown, OneInput, TargetKnown,
       FlagsFresh, TypeOK
  <2> QED BY <2>1, <2>2, <2>3, <2>4, <2>5, <2>6, <2>7, <2>8
<1>2. CASE ExecuteFails
  <2>1. TypeOK'
    BY <1>2 DEF ExecuteFails, targetFrame, ChildChanged, TypeOK, OneInput,
       RunnerPC, TargetState, WaitStatus, Outcomes, Status, Signals,
       FaultKinds
  <2>2. OneInput'
    BY <1>2 DEF ExecuteFails, targetFrame, ChildChanged, OneInput,
       TargetKnown, FlagsFresh, TypeOK
  <2>3. TargetKnown' /\ FlagsFresh'
    BY <1>2 DEF ExecuteFails, targetFrame, ChildChanged, TargetKnown,
       FlagsFresh, OneInput, TypeOK
  <2>4. ChildNoticed'
    BY <1>2 DEF ExecuteFails, targetFrame, ChildChanged, ChildNoticed,
       TargetKnown, FlagsFresh, TypeOK
  <2>5. AlarmKnown'
    BY <1>2 DEF ExecuteFails, targetFrame, ChildChanged, AlarmKnown,
       ThisOrLast, OneInput, FlagsFresh, TypeOK, RunnerPC
  <2>6. KillKnown'
    BY <1>2 DEF ExecuteFails, targetFrame, ChildChanged, KillKnown,
       TargetKnown, FlagsFresh, OneInput, TypeOK, Alive
  <2>7. CrashTruthful'
    BY <1>2 DEF ExecuteFails, targetFrame, ChildChanged, CrashTruthful,
       KillKnown, TargetKnown, FlagsFresh, TypeOK, WaitStatus
  <2>8. StaleKnown'
    BY <1>2 DEF ExecuteFails, targetFrame, ChildChanged, StaleKnown, OneInput,
       TargetKnown, FlagsFresh, TypeOK
  <2> QED BY <2>1, <2>2, <2>3, <2>4, <2>5, <2>6, <2>7, <2>8
<1>3. CASE AlarmSwallowed
  <2>1. TypeOK'
    BY <1>3 DEF AlarmSwallowed, targetFrame, TypeOK, OneInput, RunnerPC,
       TargetState, WaitStatus, Outcomes, Status, Signals, FaultKinds
  <2>2. OneInput'
    BY <1>3 DEF AlarmSwallowed, targetFrame, OneInput, TargetKnown,
       FlagsFresh, TypeOK
  <2>3. TargetKnown' /\ FlagsFresh'
    BY <1>3 DEF AlarmSwallowed, targetFrame, TargetKnown, FlagsFresh,
       OneInput, TypeOK
  <2>4. ChildNoticed'
    BY <1>3 DEF AlarmSwallowed, targetFrame, ChildNoticed, TargetKnown,
       FlagsFresh, TypeOK
  <2>5. AlarmKnown'
    BY <1>3 DEF AlarmSwallowed, targetFrame, AlarmKnown, ThisOrLast, OneInput,
       FlagsFresh, TypeOK, RunnerPC
  <2>6. KillKnown'
    BY <1>3 DEF AlarmSwallowed, targetFrame, KillKnown, TargetKnown,
       FlagsFresh, OneInput, TypeOK, Alive
  <2>7. CrashTruthful'
    BY <1>3 DEF AlarmSwallowed, targetFrame, CrashTruthful, KillKnown,
       TargetKnown, FlagsFresh, TypeOK, WaitStatus
  <2>8. StaleKnown'
    BY <1>3 DEF AlarmSwallowed, targetFrame, StaleKnown, OneInput,
       TargetKnown, FlagsFresh, TypeOK
  <2> QED BY <2>1, <2>2, <2>3, <2>4, <2>5, <2>6, <2>7, <2>8
<1>4. CASE AlarmIgnored
  <2>1. TypeOK'
    BY <1>4 DEF AlarmIgnored, targetFrame, TypeOK, OneInput, RunnerPC,
       TargetState, WaitStatus, Outcomes, Status, Signals, FaultKinds
  <2>2. OneInput'
    BY <1>4 DEF AlarmIgnored, targetFrame, OneInput, TargetKnown, FlagsFresh,
       TypeOK
  <2>3. TargetKnown' /\ FlagsFresh'
    BY <1>4 DEF AlarmIgnored, targetFrame, TargetKnown, FlagsFresh, OneInput,
       TypeOK
  <2>4. ChildNoticed'
    BY <1>4 DEF AlarmIgnored, targetFrame, ChildNoticed, TargetKnown,
       FlagsFresh, TypeOK
  <2>5. AlarmKnown'
    BY <1>4 DEF AlarmIgnored, targetFrame, AlarmKnown, ThisOrLast, OneInput,
       FlagsFresh, TypeOK, RunnerPC
  <2>6. KillKnown'
    BY <1>4 DEF AlarmIgnored, targetFrame, KillKnown, TargetKnown, FlagsFresh,
       OneInput, TypeOK, Alive
  <2>7. CrashTruthful'
    BY <1>4 DEF AlarmIgnored, targetFrame, CrashTruthful, KillKnown,
       TargetKnown, FlagsFresh, TypeOK, WaitStatus
  <2>8. StaleKnown'
    BY <1>4 DEF AlarmIgnored, targetFrame, StaleKnown, OneInput, TargetKnown,
       FlagsFresh, TypeOK
  <2> QED BY <2>1, <2>2, <2>3, <2>4, <2>5, <2>6, <2>7, <2>8
<1>5. CASE TargetEnds
  <2>1. TypeOK'
    BY <1>5 DEF TargetEnds, targetFrame, ChildChanged, TypeOK, OneInput,
       RunnerPC, TargetState, WaitStatus, Outcomes, Status, Signals,
       FaultKinds
  <2>2. OneInput'
    BY <1>5 DEF TargetEnds, targetFrame, ChildChanged, OneInput, TargetKnown,
       FlagsFresh, TypeOK
  <2>3. TargetKnown' /\ FlagsFresh'
    BY <1>5 DEF TargetEnds, targetFrame, ChildChanged, TargetKnown,
       FlagsFresh, OneInput, TypeOK
  <2>4. ChildNoticed'
    BY <1>5 DEF TargetEnds, targetFrame, ChildChanged, ChildNoticed,
       TargetKnown, FlagsFresh, TypeOK
  <2>5. AlarmKnown'
    BY <1>5 DEF TargetEnds, targetFrame, ChildChanged, AlarmKnown, ThisOrLast,
       OneInput, FlagsFresh, TypeOK, RunnerPC
  <2>6. KillKnown'
    BY <1>5 DEF TargetEnds, targetFrame, ChildChanged, KillKnown, TargetKnown,
       FlagsFresh, OneInput, TypeOK, Alive
  <2>7. CrashTruthful'
    BY <1>5 DEF TargetEnds, targetFrame, ChildChanged, CrashTruthful,
       KillKnown, TargetKnown, FlagsFresh, TypeOK, WaitStatus
  <2>8. StaleKnown'
    BY <1>5 DEF TargetEnds, targetFrame, ChildChanged, StaleKnown, OneInput,
       TargetKnown, FlagsFresh, TypeOK
  <2> QED BY <2>1, <2>2, <2>3, <2>4, <2>5, <2>6, <2>7, <2>8
<1>6. CASE TargetKilled
  <2>1. TypeOK'
    BY <1>6 DEF TargetKilled, targetFrame, ChildChanged, TypeOK, OneInput,
       RunnerPC, TargetState, WaitStatus, Outcomes, Status, Signals,
       FaultKinds
  <2>2. OneInput'
    BY <1>6 DEF TargetKilled, targetFrame, ChildChanged, OneInput,
       TargetKnown, FlagsFresh, TypeOK
  <2>3. TargetKnown' /\ FlagsFresh'
    BY <1>6 DEF TargetKilled, targetFrame, ChildChanged, TargetKnown,
       FlagsFresh, OneInput, TypeOK
  <2>4. ChildNoticed'
    BY <1>6 DEF TargetKilled, targetFrame, ChildChanged, ChildNoticed,
       TargetKnown, FlagsFresh, TypeOK
  <2>5. AlarmKnown'
    BY <1>6 DEF TargetKilled, targetFrame, ChildChanged, AlarmKnown,
       ThisOrLast, OneInput, FlagsFresh, TypeOK, RunnerPC
  <2>6. KillKnown'
    BY <1>6 DEF TargetKilled, targetFrame, ChildChanged, KillKnown,
       TargetKnown, FlagsFresh, OneInput, TypeOK, Alive
  <2>7. CrashTruthful'
    BY <1>6 DEF TargetKilled, targetFrame, ChildChanged, CrashTruthful,
       KillKnown, TargetKnown, FlagsFresh, TypeOK, WaitStatus
  <2>8. StaleKnown'
    BY <1>6 DEF TargetKilled, targetFrame, ChildChanged, StaleKnown, OneInput,
       TargetKnown, FlagsFresh, TypeOK
  <2> QED BY <2>1, <2>2, <2>3, <2>4, <2>5, <2>6, <2>7, <2>8
<1>7. CASE TargetStops
  <2>1. TypeOK'
    BY <1>7 DEF TargetStops, targetFrame, ChildChanged, TypeOK, OneInput,
       RunnerPC, TargetState, WaitStatus, Outcomes, Status, Signals,
       FaultKinds
  <2>2. OneInput'
    BY <1>7 DEF TargetStops, targetFrame, ChildChanged, OneInput, TargetKnown,
       FlagsFresh, TypeOK
  <2>3. TargetKnown' /\ FlagsFresh'
    BY <1>7 DEF TargetStops, targetFrame, ChildChanged, TargetKnown,
       FlagsFresh, OneInput, TypeOK
  <2>4. ChildNoticed'
    BY <1>7 DEF TargetStops, targetFrame, ChildChanged, ChildNoticed,
       TargetKnown, FlagsFresh, TypeOK
  <2>5. AlarmKnown'
    BY <1>7 DEF TargetStops, targetFrame, ChildChanged, AlarmKnown,
       ThisOrLast, OneInput, FlagsFresh, TypeOK, RunnerPC
  <2>6. KillKnown'
    BY <1>7 DEF TargetStops, targetFrame, ChildChanged, KillKnown,
       TargetKnown, FlagsFresh, OneInput, TypeOK, Alive
  <2>7. CrashTruthful'
    BY <1>7 DEF TargetStops, targetFrame, ChildChanged, CrashTruthful,
       KillKnown, TargetKnown, FlagsFresh, TypeOK, WaitStatus
  <2>8. StaleKnown'
    BY <1>7 DEF TargetStops, targetFrame, ChildChanged, StaleKnown, OneInput,
       TargetKnown, FlagsFresh, TypeOK
  <2> QED BY <2>1, <2>2, <2>3, <2>4, <2>5, <2>6, <2>7, <2>8
<1>8. CASE TargetContinues
  <2>1. TypeOK'
    BY <1>8 DEF TargetContinues, targetFrame, ChildChanged, TypeOK, OneInput,
       RunnerPC, TargetState, WaitStatus, Outcomes, Status, Signals,
       FaultKinds
  <2>2. OneInput'
    BY <1>8 DEF TargetContinues, targetFrame, ChildChanged, OneInput,
       TargetKnown, FlagsFresh, TypeOK
  <2>3. TargetKnown' /\ FlagsFresh'
    BY <1>8 DEF TargetContinues, targetFrame, ChildChanged, TargetKnown,
       FlagsFresh, OneInput, TypeOK
  <2>4. ChildNoticed'
    BY <1>8 DEF TargetContinues, targetFrame, ChildChanged, ChildNoticed,
       TargetKnown, FlagsFresh, TypeOK, Alive
  <2>5. AlarmKnown'
    BY <1>8 DEF TargetContinues, targetFrame, ChildChanged, AlarmKnown,
       ThisOrLast, OneInput, FlagsFresh, TypeOK, RunnerPC
  <2>6. KillKnown'
    BY <1>8 DEF TargetContinues, targetFrame, ChildChanged, KillKnown,
       TargetKnown, FlagsFresh, OneInput, TypeOK, Alive
  <2>7. CrashTruthful'
    BY <1>8 DEF TargetContinues, targetFrame, ChildChanged, CrashTruthful,
       KillKnown, TargetKnown, FlagsFresh, TypeOK, WaitStatus
  <2>8. StaleKnown'
    BY <1>8 DEF TargetContinues, targetFrame, ChildChanged, StaleKnown,
       OneInput, TargetKnown, FlagsFresh, TypeOK
  <2> QED BY <2>1, <2>2, <2>3, <2>4, <2>5, <2>6, <2>7, <2>8
<1> QED BY <1>1, <1>2, <1>3, <1>4, <1>5, <1>6, <1>7, <1>8 DEF TargetStep,
       TargetStarts

\* The alarm clock and the fuzzer keep the invariant.
LEMMA OthersKeep ==
  ASSUME RInv, (TimerExpires \/ FuzzerStep)
  PROVE  RInv'
<1> USE RunnerAssumption DEF RInv, signalVars, targetVars, pipeVars, jobVars,
        history, Busy, Waiting, Inputs
<1>1. CASE TimerExpires
  <2>1. TypeOK'
    <3>1. expired' \subseteq Inputs
        BY <1>1 DEF TimerExpires, OneInput, FlagsFresh, TypeOK
    <3>2. pending' \subseteq Signals
        BY <1>1 DEF TimerExpires, TypeOK, Signals
    <3> QED
      BY <1>1, <3>1, <3>2 DEF TimerExpires, TypeOK
  <2>2. OneInput'
    BY <1>1 DEF TimerExpires, OneInput, TargetKnown, FlagsFresh, TypeOK
  <2>3. TargetKnown' /\ FlagsFresh'
    BY <1>1 DEF TimerExpires, TargetKnown, FlagsFresh, OneInput, TypeOK
  <2>4. ChildNoticed'
    BY <1>1 DEF TimerExpires, ChildNoticed, TargetKnown, FlagsFresh, TypeOK
  <2>5. AlarmKnown'
    BY <1>1 DEF TimerExpires, AlarmKnown, ThisOrLast, OneInput, FlagsFresh,
       TypeOK, RunnerPC
  <2>6. KillKnown'
    BY <1>1 DEF TimerExpires, KillKnown, TargetKnown, FlagsFresh, OneInput,
       TypeOK, Alive
  <2>7. CrashTruthful'
    BY <1>1 DEF TimerExpires, CrashTruthful, KillKnown, TargetKnown,
       FlagsFresh, TypeOK, WaitStatus
  <2>8. StaleKnown'
    BY <1>1 DEF TimerExpires, StaleKnown, OneInput, TargetKnown, FlagsFresh,
       TypeOK
  <2> QED BY <2>1, <2>2, <2>3, <2>4, <2>5, <2>6, <2>7, <2>8
<1>2. CASE SendInput
  <2>1. TypeOK'
    BY <1>2 DEF SendInput, JobOut, fuzzerFrame, TypeOK, OneInput, RunnerPC,
       TargetState, WaitStatus, Outcomes, Status, Signals, FaultKinds
  <2>2. OneInput'
    <3>1. to_runner = <<>> /\ from_runner = <<>> /\ pc \notin Busy
      BY <1>2 DEF SendInput, JobOut
    <3>2. to_runner' = <<sent'>> /\ to_runner' # <<>>
      <4>1. \A x : Append(<<>>, x) = <<x>> /\ <<x>> # <<>>
        OBVIOUS
      <4> QED BY <1>2, <3>1, <4>1 DEF SendInput
    <3>3. sent' = inp_str + 1 /\ UNCHANGED <<pc, inp_str, pending, from_runner>>
      BY <1>2, <3>1 DEF SendInput, OneInput, fuzzerFrame
    <3> QED BY <3>1, <3>2, <3>3 DEF OneInput
  <2>3. TargetKnown' /\ FlagsFresh'
    BY <1>2 DEF SendInput, JobOut, fuzzerFrame, TargetKnown, FlagsFresh,
       OneInput, TypeOK
  <2>4. ChildNoticed'
    BY <1>2 DEF SendInput, JobOut, fuzzerFrame, ChildNoticed, TargetKnown,
       FlagsFresh, TypeOK
  <2>5. AlarmKnown'
    BY <1>2 DEF SendInput, JobOut, fuzzerFrame, AlarmKnown, ThisOrLast,
       OneInput, FlagsFresh, TypeOK, RunnerPC
  <2>6. KillKnown'
    BY <1>2 DEF SendInput, JobOut, fuzzerFrame, KillKnown, TargetKnown,
       FlagsFresh, OneInput, TypeOK, Alive
  <2>7. CrashTruthful'
    BY <1>2 DEF SendInput, JobOut, fuzzerFrame, CrashTruthful, KillKnown,
       TargetKnown, FlagsFresh, TypeOK, WaitStatus
  <2>8. StaleKnown'
    BY <1>2 DEF SendInput, JobOut, fuzzerFrame, StaleKnown, OneInput,
       TargetKnown, FlagsFresh, TypeOK
  <2> QED BY <2>1, <2>2, <2>3, <2>4, <2>5, <2>6, <2>7, <2>8
<1>3. CASE TakeStatus
  <2>1. TypeOK'
    BY <1>3 DEF TakeStatus, fuzzerFrame, TypeOK, OneInput, RunnerPC,
       TargetState, WaitStatus, Outcomes, Status, Signals, FaultKinds
  <2>2. OneInput'
    BY <1>3 DEF TakeStatus, fuzzerFrame, OneInput, TargetKnown, FlagsFresh,
       TypeOK
  <2>3. TargetKnown' /\ FlagsFresh'
    BY <1>3 DEF TakeStatus, fuzzerFrame, TargetKnown, FlagsFresh, OneInput,
       TypeOK
  <2>4. ChildNoticed'
    BY <1>3 DEF TakeStatus, fuzzerFrame, ChildNoticed, TargetKnown,
       FlagsFresh, TypeOK
  <2>5. AlarmKnown'
    BY <1>3 DEF TakeStatus, fuzzerFrame, AlarmKnown, ThisOrLast, OneInput,
       FlagsFresh, TypeOK, RunnerPC
  <2>6. KillKnown'
    BY <1>3 DEF TakeStatus, fuzzerFrame, KillKnown, TargetKnown, FlagsFresh,
       OneInput, TypeOK, Alive
  <2>7. CrashTruthful'
    BY <1>3 DEF TakeStatus, fuzzerFrame, CrashTruthful, KillKnown,
       TargetKnown, FlagsFresh, TypeOK, WaitStatus
  <2>8. StaleKnown'
    BY <1>3 DEF TakeStatus, fuzzerFrame, StaleKnown, OneInput, TargetKnown,
       FlagsFresh, TypeOK
  <2> QED BY <2>1, <2>2, <2>3, <2>4, <2>5, <2>6, <2>7, <2>8
<1>4. CASE FuzzerHandles
  <2>1. TypeOK'
    BY <1>4 DEF FuzzerHandles, fuzzerFrame, TypeOK, OneInput, RunnerPC,
       TargetState, WaitStatus, Outcomes, Status, Signals, FaultKinds
  <2>2. OneInput'
    BY <1>4 DEF FuzzerHandles, fuzzerFrame, OneInput, TargetKnown, FlagsFresh,
       TypeOK
  <2>3. TargetKnown' /\ FlagsFresh'
    BY <1>4 DEF FuzzerHandles, fuzzerFrame, TargetKnown, FlagsFresh, OneInput,
       TypeOK
  <2>4. ChildNoticed'
    BY <1>4 DEF FuzzerHandles, fuzzerFrame, ChildNoticed, TargetKnown,
       FlagsFresh, TypeOK
  <2>5. AlarmKnown'
    BY <1>4 DEF FuzzerHandles, fuzzerFrame, AlarmKnown, ThisOrLast, OneInput,
       FlagsFresh, TypeOK, RunnerPC
  <2>6. KillKnown'
    BY <1>4 DEF FuzzerHandles, fuzzerFrame, KillKnown, TargetKnown,
       FlagsFresh, OneInput, TypeOK, Alive
  <2>7. CrashTruthful'
    BY <1>4 DEF FuzzerHandles, fuzzerFrame, CrashTruthful, KillKnown,
       TargetKnown, FlagsFresh, TypeOK, WaitStatus
  <2>8. StaleKnown'
    BY <1>4 DEF FuzzerHandles, fuzzerFrame, StaleKnown, OneInput, TargetKnown,
       FlagsFresh, TypeOK
  <2> QED BY <2>1, <2>2, <2>3, <2>4, <2>5, <2>6, <2>7, <2>8
<1>5. CASE SendTerm
  <2>1. TypeOK'
    <3>1. pending' \subseteq Signals /\ happened' \subseteq FaultKinds \cup {"lost_term"}
        BY <1>5 DEF SendTerm, fuzzerFrame, TypeOK, Signals
    <3>2. terms' \in Nat
        BY <1>5 DEF SendTerm, fuzzerFrame, TypeOK
    <3> QED
      BY <1>5, <3>1, <3>2 DEF SendTerm, fuzzerFrame, TypeOK
  <2>2. OneInput'
    BY <1>5 DEF SendTerm, fuzzerFrame, OneInput, TargetKnown, FlagsFresh,
       TypeOK
  <2>3. TargetKnown' /\ FlagsFresh'
    BY <1>5 DEF SendTerm, fuzzerFrame, TargetKnown, FlagsFresh, OneInput,
       TypeOK
  <2>4. ChildNoticed'
    BY <1>5 DEF SendTerm, fuzzerFrame, ChildNoticed, TargetKnown, FlagsFresh,
       TypeOK
  <2>5. AlarmKnown'
    BY <1>5 DEF SendTerm, fuzzerFrame, AlarmKnown, ThisOrLast, OneInput,
       FlagsFresh, TypeOK, RunnerPC
  <2>6. KillKnown'
    BY <1>5 DEF SendTerm, fuzzerFrame, KillKnown, TargetKnown, FlagsFresh,
       OneInput, TypeOK, Alive
  <2>7. CrashTruthful'
    BY <1>5 DEF SendTerm, fuzzerFrame, CrashTruthful, KillKnown, TargetKnown,
       FlagsFresh, TypeOK, WaitStatus
  <2>8. StaleKnown'
    BY <1>5 DEF SendTerm, fuzzerFrame, StaleKnown, OneInput, TargetKnown,
       FlagsFresh, TypeOK
  <2> QED BY <2>1, <2>2, <2>3, <2>4, <2>5, <2>6, <2>7, <2>8
<1>6. CASE CloseInput
  <2>1. TypeOK'
    BY <1>6 DEF CloseInput, fuzzerFrame, TypeOK, OneInput, RunnerPC,
       TargetState, WaitStatus, Outcomes, Status, Signals, FaultKinds
  <2>2. OneInput'
    BY <1>6 DEF CloseInput, fuzzerFrame, OneInput, TargetKnown, FlagsFresh,
       TypeOK
  <2>3. TargetKnown' /\ FlagsFresh'
    BY <1>6 DEF CloseInput, fuzzerFrame, TargetKnown, FlagsFresh, OneInput,
       TypeOK
  <2>4. ChildNoticed'
    BY <1>6 DEF CloseInput, fuzzerFrame, ChildNoticed, TargetKnown,
       FlagsFresh, TypeOK
  <2>5. AlarmKnown'
    BY <1>6 DEF CloseInput, fuzzerFrame, AlarmKnown, ThisOrLast, OneInput,
       FlagsFresh, TypeOK, RunnerPC
  <2>6. KillKnown'
    BY <1>6 DEF CloseInput, fuzzerFrame, KillKnown, TargetKnown,
       FlagsFresh, OneInput, TypeOK, Alive
  <2>7. CrashTruthful'
    BY <1>6 DEF CloseInput, fuzzerFrame, CrashTruthful, KillKnown,
       TargetKnown, FlagsFresh, TypeOK, WaitStatus
  <2>8. StaleKnown'
    BY <1>6 DEF CloseInput, fuzzerFrame, StaleKnown, OneInput, TargetKnown,
       FlagsFresh, TypeOK
  <2> QED BY <2>1, <2>2, <2>3, <2>4, <2>5, <2>6, <2>7, <2>8
<1> QED BY <1>1, <1>2, <1>3, <1>4, <1>5, <1>6 DEF FuzzerStep

-----------------------------------------------------------------------------
LEMMA RInvNext == RInv /\ [Next]_vars => RInv'
<1> SUFFICES ASSUME RInv, [Next]_vars PROVE RInv'
  OBVIOUS
<1>1. CASE Next
  BY <1>1, RunnerKeeps, TargetKeeps, OthersKeep DEF Next
<1>2. CASE UNCHANGED vars
  <2> USE <1>2 DEF vars, RInv, signalVars, targetVars, pipeVars, jobVars, history
  <2>1. TypeOK' /\ OneInput' /\ CrashTruthful' /\ StaleKnown'
    BY DEF TypeOK, OneInput, CrashTruthful, StaleKnown
  <2>2. TargetKnown' /\ FlagsFresh' /\ ChildNoticed'
    BY DEF TargetKnown, FlagsFresh, ChildNoticed
  <2>3. AlarmKnown' /\ KillKnown'
    BY DEF AlarmKnown, ThisOrLast, KillKnown, Alive
  <2> QED BY <2>1, <2>2, <2>3
<1> QED BY <1>1, <1>2

\* The inductive invariant holds in every reachable state.
THEOREM RunnerInvariance == Spec => []RInv
<1> QED BY RInvInit, RInvNext, PTL DEF Spec

\* The variables keep their types and a pipe never holds two messages.
THEOREM RunnerTypeCorrect == Spec => []TypeOK
<1>1. RInv => TypeOK
  BY DEF RInv
<1> QED BY <1>1, RunnerInvariance, PTL

\* A target lives only while its runner waits for it, or with SIGKILL under way.
THEOREM TargetsAreNotLeft == Spec => []NoTargetLeftBehind
<1>1. RInv => NoTargetLeftBehind
  BY DEF RInv, NoTargetLeftBehind, TargetKnown, KillKnown, Alive, Waiting
<1> QED BY <1>1, RunnerInvariance, PTL

\* sigsuspend never sleeps over a dead target.
THEOREM ChildrenAreNoticed == Spec => []NoLostChild
<1>1. RInv => NoLostChild
  BY DEF RInv, NoLostChild, ChildNoticed, FlagsFresh
<1> QED BY <1>1, RunnerInvariance, PTL

\* Without stopped targets the waitpid under blocked signals returns at once.
THEOREM WaitpidDoesNotBlock == Spec => []WaitpidReturns
<1>1. RInv => WaitpidReturns
  BY DEF RInv, WaitpidReturns, ChildNoticed, FlagsFresh, Alive, Waiting
<1> QED BY <1>1, RunnerInvariance, PTL

\* The handler kills nothing but the unreaped target of the present job.
THEOREM KillsAreAimed == Spec => []KillsOnlyItsTarget
<1>1. RInv => KillsOnlyItsTarget
  BY DEF RInv, KillsOnlyItsTarget, TargetKnown, Waiting
<1> QED BY <1>1, RunnerInvariance, PTL

\* A stale SIGALRM can make a TIMEOUT of the next input, and of no later one.
THEOREM StaleAlarmsAreBounded == Spec => []TimeoutAlmostTruthful
<1>1. RInv => TimeoutAlmostTruthful
  BY DEF RInv, TimeoutAlmostTruthful, AlarmKnown, ThisOrLast
<1> QED BY <1>1, RunnerInvariance, PTL

\* A CRASH that the runner made itself is its last word.
THEOREM CrashesAreTrue == Spec => []CrashTruthful
<1>1. RInv => CrashTruthful
  BY DEF RInv
<1> QED BY <1>1, RunnerInvariance, PTL

-----------------------------------------------------------------------------
(***************************************************************************)
(* RunnerProcess implements the runner of Fuzzer.                          *)
(***************************************************************************)
FuzzerView == <<FuzzerRpc, to_runner, from_runner, fuzzer_pending, input_closed,
                inp_str, final_state, FuzzerTerm>>

\* Every step of the runner is one of Fuzzer's runner, or invisible.
LEMMA RunnerImplements ==
  ASSUME RInv, RunnerStep
  PROVE  F!RunnerStep(1) \/ UNCHANGED FuzzerView
<1> USE DEF RInv, FuzzerView, FuzzerRpc, FuzzerTerm, F!RunnerStep, F!RunnerCode,
        F!runnerFrame, F!fuzzerVars, F!listVars, F!countVars, F!inputVars, F!pipeVars,
        signalVars, targetVars, pipeVars, jobVars, history, OfTwo
<1>1. CASE InstallHandlers
  BY <1>1 DEF InstallHandlers, F!InstallHandlers, Alive
<1>2. CASE Receive
  BY <1>2 DEF Receive, F!ReceiveInput, Alive
<1>3. CASE Interrupted
  <2>1. target = "none" /\ ~Alive'
    BY <1>3 DEF Interrupted, TargetKnown, Waiting, Alive
  <2>2. "TERM" \in pending
        \/ (inp_str # 0 /\ Faults \cap {"late", "stop"} # {})
    BY <1>3, <2>1, RunnerAssumption DEF Interrupted, StaleKnown, ChildNoticed, AlarmKnown,
       TypeOK, Signals, Inputs
  <2>3. F!TermDelivered(1)
    BY <1>3, <2>1 DEF Interrupted, RunHandlers, F!TermDelivered
  <2>4. F!SignalInterrupts(1)
    BY <1>3, <2>1, <2>2, <2>3 DEF Interrupted, F!SignalInterrupts, F!EndOfInput,
       F!FuzzerEndClosed, F!StaleSignal, F!NoInput
  <2>5. F!ExitIdle(1)
    BY <1>3, <2>1, <2>4 DEF Interrupted, F!ExitIdle
  <2> QED BY <2>5
<1>4. CASE Finish
  <2>1. ~Alive'
    BY <1>4 DEF Finish, TargetKnown, Waiting, Alive
  <2>2. F!ToldToStop(1)
    BY <1>4 DEF Finish, F!ToldToStop
  <2>3. F!ExitIdle(1)
    BY <1>4, <2>1, <2>2 DEF Finish, F!ExitIdle
  <2> QED BY <2>3
<1>5. CASE ForkTarget \/ ForkFails
  BY <1>5 DEF ForkTarget, ForkFails, Alive
<1>6. CASE Arm
  BY <1>6 DEF Arm, ResetFlags, Alive
<1>7. CASE Deliver
  BY <1>7 DEF Deliver, HandleTerm, HandleAlarm, HandleChild, Alive
<1>8. CASE SigsuspendReturns
  BY <1>8 DEF SigsuspendReturns, Alive
<1>9. CASE Disarm
  <2>1. CASE sigchld_seen
    BY <1>9, <2>1 DEF Disarm, Alive
  <2>2. CASE ~sigchld_seen
    <3>1. sigterm_seen
      BY <1>9, <2>2 DEF Disarm, FlagsFresh
    <3>2. F!ExitBusy(1)
      BY <1>9, <2>2, <3>1 DEF Disarm, F!ExitBusy, F!Zombie, F!TermDelivered
    <3> QED BY <3>2
  <2> QED BY <2>1, <2>2
<1>10. CASE Waitpid
  <2>1. final_state' \in F!Outcomes
    BY <1>10 DEF Waitpid, Verdict, F!Outcomes
  <2>2. F!TargetEnds(1)
    BY <1>10, <2>1 DEF Waitpid, Reap, F!TargetEnds
  <2> QED BY <2>2
<1>11. CASE WriteStatus
  BY <1>11 DEF WriteStatus, F!WriteStatus, Alive
<1>12. CASE AlertFuzzer
  BY <1>12 DEF AlertFuzzer, F!AlertFuzzer, Alive
<1>13. CASE ReadEndOfFile
  <2>1. ~Alive'
    BY <1>13 DEF ReadEndOfFile, TargetKnown, Waiting, Alive
  <2>2. F!ReadsEndOfFile(1)
    BY <1>13 DEF ReadEndOfFile, F!ReadsEndOfFile, F!EndOfInput, F!FuzzerEndClosed,
       F!Runners
  <2>3. F!ExitIdle(1)
    BY <1>13, <2>1, <2>2 DEF ReadEndOfFile, F!ExitIdle
  <2> QED BY <2>3
<1> QED
  BY <1>1, <1>2, <1>3, <1>4, <1>5, <1>6, <1>7, <1>8, <1>9, <1>10, <1>11, <1>12, <1>13
  DEF RunnerStep

\* The end of a target whose runner is gone closes the pipe ends; nothing else
\* that a target does is visible to the fuzzer.
LEMMA TargetImplements ==
  ASSUME RInv, TargetStep
  PROVE  F!RunnerStep(1) \/ UNCHANGED FuzzerView
<1> USE DEF RInv, FuzzerView, FuzzerRpc, FuzzerTerm, F!RunnerStep, F!RunnerCode,
        F!runnerFrame, F!fuzzerVars, F!listVars, F!countVars, F!inputVars, F!pipeVars,
        signalVars, targetVars, pipeVars, jobVars, history, targetFrame, OfTwo
<1>1. pc' = pc /\ FuzzerTerm' = FuzzerTerm
      /\ UNCHANGED <<to_runner, from_runner, fuzzer_pending, input_closed, inp_str, final_state>>
  <2>1. CASE TargetStarts \/ AlarmSwallowed \/ AlarmIgnored
    BY <2>1 DEF TargetStarts, Execute, ExecuteFails, AlarmSwallowed, AlarmIgnored,
       ChildChanged
  <2>2. CASE TargetEnds \/ TargetKilled \/ TargetStops \/ TargetContinues
    BY <2>2 DEF TargetEnds, TargetKilled, TargetStops, TargetContinues, ChildChanged
  <2> QED BY <2>1, <2>2 DEF TargetStep
<1>2. Alive' => Alive
  BY DEF TargetStep, TargetStarts, Execute, ExecuteFails, AlarmSwallowed, AlarmIgnored,
     TargetEnds, TargetKilled, TargetStops, TargetContinues, Alive
<1>3. CASE pc = "exited" /\ Alive /\ ~Alive'
  BY <1>1, <1>3 DEF F!TargetGone
<1>4. CASE ~(pc = "exited" /\ Alive /\ ~Alive')
  BY <1>1, <1>2, <1>4
<1> QED BY <1>3, <1>4

\* A signal from outside is what Fuzzer's SigtermTo makes of it.
LEMMA TermImplements ==
  ASSUME RInv, SendTerm
  PROVE  F!SigtermTo(1)
BY DEF RInv, SendTerm, F!SigtermTo, F!Zombie, FuzzerRpc, FuzzerTerm, OneInput,
   FlagsFresh, fuzzerFrame, targetVars, Alive, OfTwo

\* Every step of RunnerProcess is one that Fuzzer gives its runner or the fuzzer.
THEOREM ImplementsFuzzerRunner == Spec => IsFuzzerRunner
<1>1. RInv /\ [Next]_vars
      => [ \/ F!RunnerStep(1)
           \/ SendInput \/ CloseInput \/ TakeStatus \/ FuzzerHandles
           \/ SendTerm /\ F!SigtermTo(1) ]_<<FuzzerRpc, to_runner, from_runner,
                 fuzzer_pending, input_closed, inp_str, final_state, FuzzerTerm>>
  <2> SUFFICES ASSUME RInv, [Next]_vars
               PROVE  \/ F!RunnerStep(1)
                      \/ SendInput \/ CloseInput \/ TakeStatus \/ FuzzerHandles
                      \/ SendTerm /\ F!SigtermTo(1)
                      \/ UNCHANGED FuzzerView
    BY DEF FuzzerView
  <2>1. CASE TimerExpires \/ UNCHANGED vars
    BY <2>1 DEF TimerExpires, vars, FuzzerView, FuzzerRpc, FuzzerTerm, Alive,
       signalVars, targetVars, pipeVars, jobVars, history
  <2> QED
    BY <2>1, RunnerImplements, TargetImplements, TermImplements DEF Next, FuzzerStep
<1> QED BY <1>1, RunnerInvariance, PTL DEF Spec, IsFuzzerRunner

=============================================================================
