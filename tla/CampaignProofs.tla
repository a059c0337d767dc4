--------------------------- MODULE CampaignProofs ---------------------------
(***************************************************************************)
(* Fuzzer implements Campaign, for any number of jobs, inputs, seeds and   *)
(* outside kills: every step is a step of Campaign or changes nothing of   *)
(* it, because of the invariant that FuzzerProofs proves.                  *)
(***************************************************************************)
EXTENDS FuzzerProofs

Gone == Zombie \cup {"reaped"}

\* A step that changes the job and the verdict of no runner but r.
OnlyOf(r) == \A q \in Runners : q # r => JobOf(q)' = JobOf(q) /\ VerdictOf(q)' = VerdictOf(q)

\* A step that neither counts nor handles anything.
NothingHandled == UNCHANGED <<countVars, queued, freed, reported>>

\* The mapped job and verdict functions after a step about runner r alone.
LEMMA OneRunner ==
  ASSUME NEW r \in Runners, OnlyOf(r)
  PROVE  /\ [q \in Runners |-> JobOf(q)]' = [[q \in Runners |-> JobOf(q)] EXCEPT ![r] = JobOf(r)']
         /\ [q \in Runners |-> VerdictOf(q)]'
              = [[q \in Runners |-> VerdictOf(q)] EXCEPT ![r] = VerdictOf(r)']
BY DEF OnlyOf

\* The set of dead runners after a step in which none dies.
LEMMA NoneDies ==
  ASSUME \A q \in Runners : rpc'[q] \in Gone <=> rpc[q] \in Gone
  PROVE  {q \in Runners : rpc[q] \in Zombie \cup {"reaped"}}'
           = {q \in Runners : rpc[q] \in Zombie \cup {"reaped"}}
BY DEF Gone

\* A step that changes no job, verdict, death or outcome is a stuttering step.
LEMMA Stutters ==
  ASSUME NothingHandled,
         \A q \in Runners : JobOf(q)' = JobOf(q) /\ VerdictOf(q)' = VerdictOf(q),
         \A q \in Runners : rpc'[q] \in Gone <=> rpc[q] \in Gone
  PROVE  UNCHANGED Promise!vars
<1>1. /\ [q \in Runners |-> JobOf(q)]' = [q \in Runners |-> JobOf(q)]
      /\ [q \in Runners |-> VerdictOf(q)]' = [q \in Runners |-> VerdictOf(q)]
  OBVIOUS
<1> QED BY <1>1, NoneDies DEF Promise!vars, Promise!outcomes, NothingHandled, countVars

\* The pool starts as the campaign does.
LEMMA InitialMap == Init => Promise!Init
<1> SUFFICES ASSUME Init PROVE Promise!Init
  OBVIOUS
<1>1. active = <<>> /\ done = <<>>
  BY DEF Init
<1>2. Elements(active) \cup Elements(done) = {}
  BY <1>1, ElementsEmpty
<1>3. \A r \in Runners : JobOf(r) = NoInput /\ VerdictOf(r) = "none"
  BY <1>2 DEF JobOf, VerdictOf
<1>4. \A r \in Runners : rpc[r] \notin Zombie \cup {"reaped"}
  BY DEF Init, Zombie
<1>5. [r \in Runners |-> JobOf(r)] = [r \in Runners |-> NoInput]
      /\ [r \in Runners |-> VerdictOf(r)] = [r \in Runners |-> "none"]
  BY <1>3
<1>6. {r \in Runners : rpc[r] \in Zombie \cup {"reaped"}} = {}
  BY <1>4
<1> QED BY <1>5, <1>6 DEF Init, Promise!Init, Promise!NoJob, NoInput

(***************************************************************************)
(* The steps of run_fuzzer.                                                *)
(***************************************************************************)
\* Steps that leave the lists of busy runners, their records and processes alone.
LEMMA QuietStep ==
  ASSUME IInv, NothingHandled,
         UNCHANGED <<active, done, active_input, from_runner, final_state>>,
         \A q \in Runners : rpc'[q] = rpc[q] \/ (rpc[q] \in Gone /\ rpc'[q] \in Gone)
  PROVE  UNCHANGED Promise!vars
<1>1. \A q \in Runners : JobOf(q)' = JobOf(q)
  BY DEF JobOf
<1>2. \A q \in Runners : rpc'[q] = "alert" <=> rpc[q] = "alert"
  BY DEF Gone, Zombie
<1>3. \A q \in Runners : VerdictOf(q)' = VerdictOf(q)
  BY <1>2 DEF VerdictOf
<1> QED BY <1>1, <1>3, Stutters

\* runners_check_if_jobs_done moves a runner between two lists of busy ones.
LEMMA CollectStep ==
  ASSUME IInv, Collect
  PROVE  UNCHANGED Promise!vars
<1> USE DEF IInv
<1>1. /\ active[scan] \in Runners /\ active[scan] \in Elements(active)
      /\ active \in Seq(Runners) /\ done \in Seq(Runners) /\ NoDuplicates(active)
  BY DEF Collect, TypeOK, Elements, RunnerLists
<1>2. Elements(active') \cup Elements(done') = Elements(active) \cup Elements(done)
  <2>1. CASE active[scan] \in fds
    <3>1. active' = RemoveRunner(active, active[scan]) /\ done' = Append(done, active[scan])
      BY <2>1 DEF Collect
    <3>2. /\ Elements(active') = Elements(active) \ {active[scan]}
          /\ Elements(done') = Elements(done) \cup {active[scan]}
      BY <1>1, <3>1, RemoveElements, AppendElements
    <3> QED BY <1>1, <3>2
  <2>2. CASE active[scan] \notin fds
    BY <2>2 DEF Collect
  <2> QED BY <2>1, <2>2
<1>3. /\ NothingHandled
      /\ UNCHANGED <<active_input, from_runner, final_state, rpc>>
  BY DEF Collect, NothingHandled, inputVars, pipeVars, runnerVars
<1>4. \A q \in Runners : JobOf(q)' = JobOf(q) /\ VerdictOf(q)' = VerdictOf(q)
  BY <1>2, <1>3 DEF JobOf, VerdictOf
<1> QED BY <1>3, <1>4, Stutters

\* A dispatch hands the next input to an idle live runner.
LEMMA SubmitSends ==
  ASSUME IInv, Submit
  PROVE  \E r \in Runners : Promise!Send(r)
<1> USE DEF IInv
<1>1. /\ ready \in Seq(Runners) /\ ready # <<>> /\ active \in Seq(Runners)
      /\ NoDuplicates(ready) /\ jobs_sent \in Nat /\ jobs_sent < target_total
  BY DEF Submit, CanDispatch, TypeOK, RunnerLists
<1>2. PICK r \in Runners :
      /\ r \in Elements(ready) /\ pc = "submit" /\ rpc[r] # "closed"
      /\ active' = Append(active, r)
      /\ active_input' = [active_input EXCEPT ![r] = jobs_sent + 1]
      /\ jobs_sent' = jobs_sent + 1
      /\ UNCHANGED <<done, jobs_received, queued, freed, reported, from_runner, runnerVars>>
  BY <1>1, HeadElement DEF Submit, SendInput, WriteFails
<1>3. r \notin Elements(active) /\ r \notin Elements(done) /\ r \in Elements(pool)
  BY <1>2 DEF RunnerLists, Disjoint
<1>4. rpc[r] \notin Gone /\ rpc[r] # "alert"
  <2>1. rpc[r] # "reaped"
    BY <1>2, <1>3 DEF RunnerLists, Cleanup
  <2>2. rpc[r] \notin {"wait", "alert", "exited"}
    BY <1>3 DEF JobPlaced, JobPlacedAt
  <2> QED BY <1>2, <2>1, <2>2 DEF Gone, Zombie
<1>5. from_runner[r] = <<>>
  BY <1>3, <1>4 DEF JobPlaced, JobPlacedAt, Busy
<1>6. Elements(active') = Elements(active) \cup {r}
  BY <1>1, <1>2, <1>3, AppendElements
<1>7. active_input'[r] = jobs_sent + 1 /\ \A q \in Runners : q # r => active_input'[q] = active_input[q]
  BY <1>2 DEF TypeOK
<1>8. OnlyOf(r)
  BY <1>2, <1>6, <1>7 DEF OnlyOf, JobOf, VerdictOf, runnerVars
<1>9. JobOf(r) = NoInput /\ JobOf(r)' = jobs_sent + 1
  BY <1>2, <1>3, <1>6, <1>7 DEF JobOf
<1>10. VerdictOf(r) = "none" /\ VerdictOf(r)' = "none"
  BY <1>2, <1>3, <1>4, <1>5, <1>6 DEF VerdictOf, runnerVars
<1>11. [q \in Runners |-> VerdictOf(q)]' = [q \in Runners |-> VerdictOf(q)]
  BY <1>8, <1>10 DEF OnlyOf
<1>12. {q \in Runners : rpc[q] \in Zombie \cup {"reaped"}}'
         = {q \in Runners : rpc[q] \in Zombie \cup {"reaped"}}
  BY <1>2, NoneDies DEF runnerVars
<1>13. Promise!Send(r)
  BY <1>1, <1>2, <1>4, <1>8, <1>9, <1>11, <1>12, OneRunner
     DEF Promise!Send, Promise!NoJob, Promise!outcomes, NoInput, Gone
<1> QED BY <1>13

\* A result is received with the verdict of its runner, or, without a verdict,
\* the job of a dead runner is given up.
LEMMA ProcessResultReceives ==
  ASSUME IInv, ProcessResult
  PROVE  \E r \in Runners : Promise!Receive(r) \/ Promise!Lose(r)
<1> USE DEF IInv
<1>1. /\ done \in Seq(Runners) /\ done # <<>> /\ NoDuplicates(done)
      /\ jobs_received \in Nat /\ from_runner \in [Runners -> Seq(Status)]
  BY DEF ProcessResult, TypeOK, RunnerLists
<1>2. PICK r \in Runners :
      /\ r = Head(done) /\ r \in Elements(done) /\ done' = RemoveRunner(done, r)
      /\ Handle(active_input[r], AttemptReceiveStatus(r))
      /\ from_runner' = [from_runner EXCEPT ![r] = IF @ = <<>> THEN @ ELSE Tail(@)]
      /\ jobs_received' = jobs_received + 1
      /\ UNCHANGED <<active, jobs_sent, active_input, runnerVars>>
  BY <1>1, HeadElement DEF ProcessResult
<1>3. r \notin Elements(active)
  BY <1>2 DEF RunnerLists, Disjoint
<1>4. Elements(done') = Elements(done) \ {r}
  BY <1>1, <1>2, RemoveElements
<1>5. \A q \in Runners : q # r => from_runner'[q] = from_runner[q]
  BY <1>1, <1>2
<1>6. OnlyOf(r)
  BY <1>2, <1>4, <1>5 DEF OnlyOf, JobOf, VerdictOf, runnerVars
<1>7. /\ JobOf(r) = active_input[r] /\ JobOf(r)' = NoInput /\ VerdictOf(r)' = "none"
      /\ active_input[r] # NoInput
  <2>1. active_input[r] \in Inputs
    BY <1>2 DEF InputsKnown, Busy
  <2> QED BY <1>2, <1>3, <1>4, <2>1 DEF JobOf, VerdictOf, NoInput, Inputs
<1>8. {q \in Runners : rpc[q] \in Zombie \cup {"reaped"}}'
        = {q \in Runners : rpc[q] \in Zombie \cup {"reaped"}}
  BY <1>2, NoneDies DEF runnerVars
<1>9. Promise!Release(r)
  BY <1>2, <1>6, <1>7, <1>8, OneRunner DEF Promise!Release, Promise!NoJob, NoInput
<1>10. CASE from_runner[r] # <<>>
  <2>1. PICK s \in Outcomes : from_runner[r] = <<[input |-> active_input[r], state |-> s]>>
    BY <1>10 DEF JobPlaced, JobPlacedAt
  <2>2. AttemptReceiveStatus(r) = s /\ VerdictOf(r) = s
    BY <1>2, <1>10, <2>1 DEF AttemptReceiveStatus, VerdictOf
  <2>3. Promise!Keep(r) \/ Promise!Drop(r) \/ Promise!Report(r)
    BY <1>2, <1>7, <2>2 DEF Handle, Outcomes, Promise!Keep, Promise!Drop, Promise!Report
  <2> QED BY <1>2, <1>7, <1>9, <2>3 DEF Promise!Receive, Promise!NoJob, NoInput
<1>11. CASE from_runner[r] = <<>>
  <2>1. rpc[r] \in {"closed", "reaped"}
    BY <1>2, <1>11 DEF JobPlaced, JobPlacedAt
  <2>2. UNCHANGED <<queued, freed, reported>>
    BY <1>2, <1>11 DEF AttemptReceiveStatus, Handle
  <2> QED BY <1>2, <1>7, <1>9, <2>1, <2>2
       DEF Promise!Lose, Promise!NoJob, Promise!outcomes, NoInput, Zombie
<1> QED BY <1>10, <1>11

\* runners_reap gives up the job of a dead runner, if it has one.
LEMMA ReapLoses ==
  ASSUME IInv, ReapZombie
  PROVE  (\E r \in Runners : Promise!Lose(r)) \/ UNCHANGED Promise!vars
<1> USE DEF IInv
<1>1. /\ active \in Seq(Runners) /\ NoDuplicates(active)
      /\ done \in Seq(Runners) /\ NoDuplicates(done)
      /\ pool[scan] \in Runners /\ rpc \in [Runners -> RunnerPC]
  BY DEF ReapZombie, TypeOK, RunnerLists
<1>2. PICK r \in Runners :
      /\ rpc[r] \in Zombie
      /\ active' = RemoveRunner(active, r) /\ done' = RemoveRunner(done, r)
      /\ rpc' = [rpc EXCEPT ![r] = "reaped"]
      /\ UNCHANGED <<countVars, inputVars, pipeVars, final_state>>
  BY <1>1 DEF ReapZombie
<1>3. /\ Elements(active') = Elements(active) \ {r}
      /\ Elements(done') = Elements(done) \ {r}
  BY <1>1, <1>2, RemoveElements
<1>4. \A q \in Runners : (q # r => rpc'[q] = rpc[q]) /\ (rpc'[q] \in Gone <=> rpc[q] \in Gone)
  BY <1>1, <1>2 DEF Gone
<1>5. OnlyOf(r)
  BY <1>2, <1>3, <1>4 DEF OnlyOf, JobOf, VerdictOf, inputVars, pipeVars
<1>6. JobOf(r)' = NoInput /\ VerdictOf(r)' = "none"
  BY <1>3 DEF JobOf, VerdictOf
<1>7. NothingHandled
  BY <1>2 DEF NothingHandled, inputVars
<1>8. CASE r \in Busy
  <2>1. JobOf(r) = active_input[r] /\ active_input[r] \in Inputs
    BY <1>8 DEF JobOf, Busy, InputsKnown
  <2>2. JobOf(r) # NoInput
    BY <2>1 DEF Inputs, NoInput
  <2>3. Promise!Release(r)
    BY <1>4, <1>5, <1>6, <1>7, OneRunner, NoneDies
       DEF Promise!Release, Promise!NoJob, NoInput, NothingHandled, countVars
  <2> QED BY <1>2, <1>7, <2>2, <2>3
       DEF Promise!Lose, Promise!NoJob, Promise!outcomes, NoInput, NothingHandled, countVars
<1>9. CASE r \notin Busy
  <2>1. JobOf(r) = NoInput /\ VerdictOf(r) = "none"
    BY <1>9 DEF JobOf, VerdictOf, Busy
  <2> QED BY <1>4, <1>5, <1>6, <1>7, <2>1, Stutters DEF OnlyOf
<1> QED BY <1>8, <1>9

\* Every step of run_fuzzer.
LEMMA FuzzerStepImplements ==
  ASSUME IInv, FuzzerStep
  PROVE  [Promise!Next]_(Promise!vars)
<1> USE DEF fuzzerVars, listVars, countVars, inputVars, pipeVars, runnerVars
<1>1. CASE \/ HandleWhileStarting \/ EnterLoop \/ LeaveLoop \/ Iterate
           \/ ReapSkip \/ ReapEnd \/ CheckNothing \/ CheckIfJobsDone
           \/ CollectEnd \/ ResultsEnd \/ SubmitFails \/ SubmitEnd \/ Wake
           \/ FiniKill \/ FiniEnd
  <2>1. /\ NothingHandled
        /\ UNCHANGED <<active, done, active_input, from_runner, final_state, rpc>>
    BY <1>1 DEF HandleWhileStarting, EnterLoop, LeaveLoop, Iterate, ReapSkip, ReapEnd,
       CheckNothing, CheckIfJobsDone, CollectEnd, ResultsEnd, SubmitFails, SubmitEnd, Wake,
       FiniKill, FiniEnd, NothingHandled
  <2> QED BY <2>1, QuietStep
<1>2. CASE FiniWait
  <2>1. /\ NothingHandled
        /\ UNCHANGED <<active, done, active_input, from_runner, final_state>>
        /\ rpc[pool[scan]] \in Zombie /\ rpc' = [rpc EXCEPT ![pool[scan]] = "reaped"]
    BY <1>2 DEF FiniWait, NothingHandled
  <2>2. \A q \in Runners : rpc'[q] = rpc[q] \/ (rpc[q] \in Gone /\ rpc'[q] \in Gone)
    BY <2>1 DEF IInv, TypeOK, Gone
  <2> QED BY <2>1, <2>2, QuietStep
<1> QED
  BY <1>1, <1>2, CollectStep, SubmitSends, ProcessResultReceives, ReapLoses
     DEF FuzzerStep, Promise!Next

(***************************************************************************)
(* The steps of the runners.                                               *)
(***************************************************************************)
\* A runner that only moves on, alive and with no verdict gained or lost.
LEMMA RunnerMoves ==
  ASSUME IInv, NEW r \in Runners, NothingHandled,
         UNCHANGED <<active, done, active_input>>,
         \A q \in Runners : q # r => /\ rpc'[q] = rpc[q] /\ from_runner'[q] = from_runner[q]
                                     /\ final_state'[q] = final_state[q],
         VerdictOf(r)' = VerdictOf(r)
  PROVE  IF rpc[r] \notin Gone /\ rpc'[r] \in Gone THEN Promise!Die(r)
         ELSE (rpc[r] \in Gone => rpc'[r] \in Gone) => UNCHANGED Promise!vars
<1>1. \A q \in Runners : JobOf(q)' = JobOf(q)
  BY DEF JobOf
<1>2. \A q \in Runners : VerdictOf(q)' = VerdictOf(q)
  BY DEF VerdictOf
<1>3. CASE rpc[r] \notin Gone /\ rpc'[r] \in Gone
  <2>1. {q \in Runners : rpc[q] \in Zombie \cup {"reaped"}}'
          = {q \in Runners : rpc[q] \in Zombie \cup {"reaped"}} \cup {r}
    BY <1>3 DEF Gone
  <2>2. /\ [q \in Runners |-> JobOf(q)]' = [q \in Runners |-> JobOf(q)]
        /\ [q \in Runners |-> VerdictOf(q)]' = [q \in Runners |-> VerdictOf(q)]
    BY <1>1, <1>2
  <2> QED BY <1>3, <2>1, <2>2
       DEF Promise!Die, Promise!outcomes, NothingHandled, countVars, Gone
<1> QED BY <1>1, <1>2, <1>3, Stutters

\* The target of a runner ends: the verdict on its input is there.
LEMMA TargetEndsJudges ==
  ASSUME IInv, NEW r \in Runners, TargetEnds(r)
  PROVE  Promise!Judge(r)
<1> USE DEF IInv
<1>1. PICK v \in Outcomes :
      /\ rpc[r] = "wait" /\ final_state' = [final_state EXCEPT ![r] = v]
      /\ rpc' = [rpc EXCEPT ![r] = "alert"]
      /\ UNCHANGED <<runnerFrame, pipeVars>>
  BY DEF TargetEnds
<1>2. r \in Elements(active) /\ from_runner[r] = <<>>
  BY <1>1 DEF JobPlaced, JobPlacedAt
<1>3. /\ rpc'[r] = "alert" /\ final_state'[r] = v
      /\ \A q \in Runners : q # r => rpc'[q] = rpc[q] /\ final_state'[q] = final_state[q]
  BY <1>1 DEF TypeOK
<1>4. /\ \A q \in Runners : JobOf(q)' = JobOf(q)
      /\ UNCHANGED <<jobs_sent, jobs_received, queued, freed, reported, from_runner, active, done>>
  BY <1>1 DEF JobOf, runnerFrame, listVars, inputVars, countVars, pipeVars
<1>5. OnlyOf(r)
  BY <1>3, <1>4 DEF OnlyOf, VerdictOf
<1>6. VerdictOf(r) = "none" /\ VerdictOf(r)' = v
  BY <1>1, <1>2, <1>3, <1>4 DEF VerdictOf
<1>7. JobOf(r) # NoInput
  <2>1. JobOf(r) = active_input[r] /\ active_input[r] \in Inputs
    BY <1>2 DEF JobOf, InputsKnown, Busy
  <2> QED BY <2>1 DEF Inputs, NoInput
<1>8. {q \in Runners : rpc[q] \in Zombie \cup {"reaped"}}'
        = {q \in Runners : rpc[q] \in Zombie \cup {"reaped"}}
  BY <1>1, <1>3, NoneDies DEF Gone, Zombie
<1>9. [q \in Runners |-> JobOf(q)]' = [q \in Runners |-> JobOf(q)]
  BY <1>4
<1> QED BY <1>1, <1>4, <1>5, <1>6, <1>7, <1>8, <1>9, OneRunner
       DEF Promise!Judge, Promise!NoJob, Promise!Verdicts, Promise!outcomes, NoInput,
           Outcomes, Zombie

\* Every step of a runner.
LEMMA RunnerStepImplements ==
  ASSUME IInv, NEW r \in Runners, RunnerStep(r)
  PROVE  [Promise!Next]_(Promise!vars)
<1> USE DEF IInv
<1>1. UNCHANGED <<active, done, active_input>> /\ NothingHandled
  BY DEF RunnerStep, RunnerCode, InstallHandlers, ReceiveInput, WriteStatus, AlertFuzzer,
     ExitIdle, ExitBusy, TargetGone, TargetEnds, runnerFrame, listVars, inputVars, countVars,
     NothingHandled
<1>2. rpc \in [Runners -> RunnerPC] /\ from_runner \in [Runners -> Seq(Status)]
  BY DEF TypeOK
<1>3. CASE InstallHandlers(r) \/ ReceiveInput(r) \/ AlertFuzzer(r)
  <2>1. /\ UNCHANGED <<from_runner, final_state>> /\ rpc[r] \notin Gone \cup {"alert"}
        /\ rpc'[r] \notin Gone \cup {"alert"} /\ \A q \in Runners : q # r => rpc'[q] = rpc[q]
    BY <1>2, <1>3 DEF InstallHandlers, ReceiveInput, AlertFuzzer, pipeVars, Gone, Zombie
  <2>2. VerdictOf(r)' = VerdictOf(r)
    BY <1>1, <2>1 DEF VerdictOf
  <2> QED BY <1>1, <2>1, <2>2, RunnerMoves
<1>4. CASE ExitIdle(r) \/ ExitBusy(r) \/ TargetGone(r)
  <2>1. /\ UNCHANGED <<from_runner, final_state>> /\ rpc[r] # "alert" /\ rpc'[r] \in Gone
        /\ \A q \in Runners : q # r => rpc'[q] = rpc[q]
    BY <1>2, <1>4 DEF ExitIdle, ExitBusy, TargetGone, pipeVars, Gone, Zombie
  <2>2. VerdictOf(r)' = VerdictOf(r)
    <3>1. rpc'[r] # "alert"
      BY <2>1 DEF Gone, Zombie
    <3> QED BY <1>1, <2>1, <3>1 DEF VerdictOf
  <2>3. Promise!Die(r) \/ UNCHANGED Promise!vars
    BY <1>1, <2>1, <2>2, RunnerMoves
  <2> QED BY <2>3 DEF Promise!Next
<1>5. CASE WriteStatus(r)
  <2>1. /\ rpc[r] = "alert" /\ rpc' = [rpc EXCEPT ![r] = "signal"] /\ UNCHANGED final_state
        /\ from_runner' = [from_runner EXCEPT ![r] =
              Append(@, [input |-> inp_str[r], state |-> final_state[r]])]
    BY <1>5 DEF WriteStatus
  <2>2. from_runner[r] = <<>>
    BY <2>1 DEF JobPlaced, JobPlacedAt
  <2>3. /\ from_runner'[r] = <<[input |-> inp_str[r], state |-> final_state[r]]>>
        /\ \A q \in Runners : q # r => from_runner'[q] = from_runner[q] /\ rpc'[q] = rpc[q]
        /\ rpc'[r] = "signal"
    BY <1>2, <2>1, <2>2
  <2>4. from_runner'[r] # <<>> /\ from_runner'[r][1].state = final_state[r]
    BY <2>3
  <2>5. VerdictOf(r)' = VerdictOf(r)
    BY <1>1, <2>1, <2>2, <2>4 DEF VerdictOf
  <2>6. rpc[r] \notin Gone /\ rpc'[r] \notin Gone
    BY <2>1, <2>3 DEF Gone, Zombie
  <2> QED BY <1>1, <2>1, <2>3, <2>5, <2>6, RunnerMoves
<1>6. CASE TargetEnds(r)
  BY <1>6, TargetEndsJudges DEF Promise!Next
<1> QED BY <1>3, <1>4, <1>5, <1>6 DEF RunnerStep, RunnerCode

(* Whatever the interleaving of loop, runners and signals, the verdict on   *)
(* an input decides what becomes of it, once, and an input goes without    *)
(* one only when its runner has died.                                      *)
THEOREM CampaignKept == Spec => ImplementsCampaign
<1>1. IInv /\ [Next]_vars => [Promise!Next]_(Promise!vars)
  <2> SUFFICES ASSUME IInv, [Next]_vars PROVE [Promise!Next]_(Promise!vars)
    OBVIOUS
  <2>1. CASE Terminate \/ Exited \/ UNCHANGED vars \/ \E r \in Runners : KillRunner(r)
    <3>1. /\ NothingHandled
          /\ UNCHANGED <<active, done, active_input, from_runner, final_state, rpc>>
      BY <2>1 DEF Terminate, Exited, KillRunner, vars, fuzzerVars, listVars, countVars,
         inputVars, pipeVars, runnerVars, NothingHandled
    <3> QED BY <3>1, QuietStep
  <2> QED BY <2>1, FuzzerStepImplements, RunnerStepImplements DEF Next
<1> QED BY <1>1, InitialMap, Invariance, PTL DEF Spec, ImplementsCampaign, Promise!Spec

=============================================================================
