---------------------------- MODULE FuzzerProofs ----------------------------
(***************************************************************************)
(* The safety properties of Fuzzer hold for any number of jobs, inputs,    *)
(* seeds and outside kills.  Lemmas about the lists come first, then one   *)
(* lemma per group of actions that the action preserves IInv, then the     *)
(* theorems.                                                               *)
(***************************************************************************)
EXTENDS FuzzerInv, TLAPS

\* An empty runner list holds no runner.
LEMMA ElementsEmpty == Elements(<<>>) = {}
BY DEF Elements

\* The runners of a list are in the set the list is over.
LEMMA ElementsIn ==
  ASSUME NEW S, NEW s \in Seq(S)
  PROVE  Elements(s) \subseteq S
BY DEF Elements

\* What storing a runner behind the last one does to a list.
LEMMA AppendElements ==
  ASSUME NEW S, NEW s \in Seq(S), NEW x \in S
  PROVE  /\ Append(s, x) \in Seq(S)
         /\ Elements(Append(s, x)) = Elements(s) \cup {x}
         /\ NoDuplicates(s) /\ x \notin Elements(s) => NoDuplicates(Append(s, x))
<1> DEFINE t == Append(s, x)
<1>1. /\ t \in Seq(S) /\ DOMAIN t = 1 .. Len(s) + 1 /\ DOMAIN s = 1 .. Len(s)
      /\ t[Len(s) + 1] = x /\ \A i \in 1 .. Len(s) : t[i] = s[i]
      /\ Len(s) \in Nat
  OBVIOUS
<1> HIDE DEF t
<1>2. Elements(t) \subseteq Elements(s) \cup {x}
  <2>1. ASSUME NEW i \in 1 .. Len(s) + 1
        PROVE  t[i] \in Elements(s) \cup {x}
    BY <1>1 DEF Elements
  <2> QED BY <1>1, <2>1 DEF Elements
<1>3. Elements(s) \cup {x} \subseteq Elements(t)
  <2>1. ASSUME NEW i \in 1 .. Len(s)
        PROVE  s[i] \in Elements(t)
    BY <1>1 DEF Elements
  <2>2. x \in Elements(t)
    BY <1>1 DEF Elements
  <2> QED BY <1>1, <2>1, <2>2 DEF Elements
<1>4. NoDuplicates(s) /\ x \notin Elements(s) => NoDuplicates(t)
  BY <1>1 DEF Elements, NoDuplicates
<1> QED BY <1>1, <1>2, <1>3, <1>4 DEF t

\* arr[0] of a non-empty list is in the list.
LEMMA HeadElement ==
  ASSUME NEW S, NEW s \in Seq(S), s # <<>>
  PROVE  /\ Head(s) = s[1] /\ Head(s) \in S /\ Head(s) \in Elements(s)
         /\ 1 \in DOMAIN s /\ Len(s) > 0
BY DEF Elements

(* Absent: nothing changes.  Present: the first occurrence, at i, is gone.  *)
LEMMA RemoveAbsent ==
  ASSUME NEW s, NEW x, x \notin Elements(s)
  PROVE  RemoveRunner(s, x) = s
BY DEF RemoveRunner

\* helpr_remove_runner on a list that holds the victim.
LEMMA RemovePresent ==
  ASSUME NEW S, NEW s \in Seq(S), NoDuplicates(s), NEW i \in 1 .. Len(s)
  PROVE  RemoveRunner(s, s[i]) =
            [j \in 1 .. Len(s) - 1 |-> IF j < i THEN s[j] ELSE s[j + 1]]
<1>1. s[i] \in Elements(s)
  BY DEF Elements
<1>2. (CHOOSE k \in DOMAIN s : s[k] = s[i] /\ \A j \in 1 .. k - 1 : s[j] # s[i]) = i
  BY DEF NoDuplicates
<1> QED BY <1>1, <1>2 DEF RemoveRunner

(* What a removal does to a list without duplicates.                       *)
LEMMA RemoveElements ==
  ASSUME NEW S, NEW s \in Seq(S), NoDuplicates(s), NEW x
  PROVE  /\ RemoveRunner(s, x) \in Seq(S)
         /\ NoDuplicates(RemoveRunner(s, x))
         /\ Elements(RemoveRunner(s, x)) = Elements(s) \ {x}
         /\ Len(RemoveRunner(s, x)) = IF x \in Elements(s) THEN Len(s) - 1 ELSE Len(s)
         /\ Len(RemoveRunner(s, x)) \in Nat /\ Len(RemoveRunner(s, x)) <= Len(s)
<1>1. CASE x \notin Elements(s)
  BY <1>1, RemoveAbsent
<1>2. CASE x \in Elements(s)
  <2>1. PICK i \in 1 .. Len(s) : s[i] = x
    BY <1>2 DEF Elements
  <2> DEFINE t == [j \in 1 .. Len(s) - 1 |-> IF j < i THEN s[j] ELSE s[j + 1]]
  <2>2. RemoveRunner(s, x) = t
    BY <2>1, RemovePresent
  <2>3. t \in Seq(S) /\ Len(t) = Len(s) - 1 /\ DOMAIN t = 1 .. Len(s) - 1
    BY <2>1
  <2>4. NoDuplicates(t)
    BY <2>1 DEF NoDuplicates
  <2>5. Elements(t) \subseteq Elements(s) \ {x}
    BY <2>1 DEF NoDuplicates, Elements
  <2>6. ASSUME NEW y \in Elements(s), y # x
        PROVE  y \in Elements(t)
    <3>1. PICK k \in 1 .. Len(s) : s[k] = y
      BY DEF Elements
    <3>2. CASE k < i
      <4>1. k \in DOMAIN t /\ t[k] = y
        BY <2>1, <3>1, <3>2
      <4> QED BY <4>1 DEF Elements
    <3>3. CASE k > i
      <4>1. k - 1 \in DOMAIN t /\ t[k - 1] = y
        BY <2>1, <3>1, <3>3
      <4> QED BY <4>1 DEF Elements
    <3> QED BY <2>1, <2>6, <3>1, <3>2, <3>3
  <2> HIDE DEF t
  <2> QED BY <1>2, <2>2, <2>3, <2>4, <2>5, <2>6
<1> QED BY <1>1, <1>2

\* A runner that can not be written to stays so: none is launched again.
LEMMA WritesKeepFailing ==
  ASSUME NEW r \in Runners, WriteFails(r),
         \A q \in Runners : rpc[q] \in {"closed", "reaped"} => rpc'[q] \in {"closed", "reaped"},
         \A q \in Runners : rpc[q] = "reaped" => rpc'[q] = "reaped"
  PROVE  WriteFails(r)'
<1>1. CASE rpc[r] \in {"closed", "reaped"}
  BY <1>1 DEF WriteFails
<1>2. CASE FuzzerEndClosed(r)
  <2>1. r - 1 \in Runners /\ rpc[r - 1] = "reaped" /\ r > 0
    BY <1>2, ConstantsAssumption DEF FuzzerEndClosed, Runners
  <2>2. rpc'[r - 1] = "reaped"
    BY <2>1
  <2> QED BY <2>1, <2>2 DEF WriteFails, FuzzerEndClosed
<1> QED BY <1>1, <1>2 DEF WriteFails

\* No runner gets lost: one that leaves the lists can not be written to.
LEMMA NoneGetsLost ==
  ASSUME ListedOrLost, Elements(pool) \subseteq Runners,
         \A q \in Runners : rpc[q] \in {"closed", "reaped"} => rpc'[q] \in {"closed", "reaped"},
         \A q \in Runners : rpc[q] = "reaped" => rpc'[q] = "reaped",
         \A q \in Elements(pool') :
             /\ q \in Elements(pool)
             /\ q \in Elements(ready) \cup Elements(active) \cup Elements(done)
                  => \/ q \in Elements(ready') \cup Elements(active') \cup Elements(done')
                     \/ WriteFails(q)
  PROVE  ListedOrLost'
<1>1. ASSUME NEW q \in Elements(pool'), WriteFails(q)
      PROVE  WriteFails(q)'
  <2>1. q \in Runners
    OBVIOUS
  <2> QED BY <1>1, <2>1, WritesKeepFailing
<1> QED BY <1>1 DEF ListedOrLost

-----------------------------------------------------------------------------
\* The state that runners_init leaves satisfies the invariant.
LEMMA Initial == Init => IInv
<1> SUFFICES ASSUME Init PROVE IInv
  OBVIOUS
<1> USE ConstantsAssumption
<1>1. /\ pool \in Seq(Runners) /\ NoDuplicates(pool) /\ Len(pool) = job_count
      /\ Elements(pool) = Runners
  <2>1. pool \in Seq(Runners) /\ Len(pool) = job_count
    BY DEF Init, Runners
  <2>2. NoDuplicates(pool)
    BY DEF Init, NoDuplicates
  <2>3. Elements(pool) \subseteq Runners
    BY DEF Init, Elements, Runners
  <2>4. ASSUME NEW r \in Runners PROVE r \in Elements(pool)
    <3>1. r + 1 \in 1 .. job_count /\ pool[r + 1] = r
      BY DEF Init, Runners
    <3> QED BY <3>1 DEF Elements, Init
  <2> QED BY <2>1, <2>2, <2>3, <2>4
<1>2. Elements(<<>>) = {} /\ NoDuplicates(<<>>)
  BY ElementsEmpty DEF NoDuplicates
<1>3. TypeOK
  <2>1. <<>> \in Seq(Runners) /\ <<>> \in Seq(Inputs) /\ <<>> \in Seq(Status)
    OBVIOUS
  <2>2. /\ to_runner \in [Runners -> Seq(Inputs)]
        /\ from_runner \in [Runners -> Seq(Status)]
    BY <2>1 DEF Init
  <2>3. /\ active_input \in [Runners -> Inputs \cup {NoInput}]
        /\ rpc \in [Runners -> RunnerPC]
        /\ inp_str \in [Runners -> Inputs \cup {NoInput}]
        /\ final_state \in [Runners -> Outcomes]
        /\ term \in [Runners -> {"none", "pending", "seen", "swallowed"}]
    BY DEF Init, RunnerPC, Outcomes
  <2>4. shutdown_req \in BOOLEAN /\ sigchld_seen \in BOOLEAN /\ sigusr1_seen \in BOOLEAN
    BY DEF Init
  <2>5. pc \in FuzzerPC /\ scan \in Nat \ {0} /\ fds \subseteq Runners
    BY DEF Init, FuzzerPC
  <2>6. pending \subseteq Signals /\ jobs_sent \in Nat /\ jobs_received \in Nat /\ kills \in Nat
        /\ queued \subseteq Inputs /\ freed \subseteq Inputs /\ reported \subseteq Inputs
    BY DEF Init
  <2>7. ready \in Seq(Runners) /\ active \in Seq(Runners) /\ done \in Seq(Runners)
    BY <1>1, <2>1 DEF Init
  <2> QED BY <1>1, <2>1, <2>2, <2>3, <2>4, <2>5, <2>6, <2>7 DEF TypeOK
<1>4. InputsKnown
  BY <1>2 DEF Init, InputsKnown, Busy
<1>5. RunnerLists
  <2>1. ListedOrLost
    BY <1>1 DEF Init, ListedOrLost
  <2> QED BY <1>1, <1>2, <2>1 DEF Init, RunnerLists, Disjoint
<1>6. JobPlaced
  BY <1>2 DEF Init, JobPlaced, JobPlacedAt
<1>7. InputsFresh
  BY <1>2 DEF Init, InputsFresh, InputsLive, Busy
<1>8. JobsCounted
  BY <1>1 DEF Init, JobsCounted, Accounting, target_total
<1>9. ZombieNoticed /\ StatusNoticed /\ FdsReadable /\ SuspendGuard
  BY <1>1 DEF Init, ZombieNoticed, StatusNoticed, FdsReadable, SuspendGuard, Zombie, Runners
<1> QED BY <1>3, <1>4, <1>5, <1>6, <1>7, <1>8, <1>9 DEF IInv

-----------------------------------------------------------------------------
(***************************************************************************)
(* Steps of run_fuzzer and of the environment that touch neither the lists *)
(* nor the counters nor the inputs nor the pipes nor any process.          *)
(***************************************************************************)
Control ==
  /\ UNCHANGED <<listVars, countVars, inputVars, pipeVars, rpc, inp_str, final_state>>
  /\ pc' \in FuzzerPC /\ scan' \in Nat \ {0} /\ fds' \subseteq Runners
  /\ shutdown_req' \in BOOLEAN /\ sigchld_seen' \in BOOLEAN /\ sigusr1_seen' \in BOOLEAN
  /\ pending' \subseteq Signals /\ kills' \in Nat
  /\ term' \in [Runners -> {"none", "pending", "seen", "swallowed"}]
  /\ pc \in Cleanup => pc' \in Cleanup

\* A step that only moves the program counter, flags and signals keeps
\* everything that is about the lists, the pipes and the inputs.
LEMMA ControlKeeps ==
  ASSUME IInv, Control
  PROVE  TypeOK' /\ InputsKnown' /\ RunnerLists' /\ JobPlaced' /\ InputsFresh' /\ JobsCounted'
<1> USE DEF IInv, Control, listVars, countVars, inputVars, pipeVars
<1>1. TypeOK'
  BY DEF TypeOK
<1>2. InputsKnown'
  BY DEF InputsKnown, Busy, Elements
<1>3. RunnerLists'
  <2>1. pc' \notin Cleanup => pc \notin Cleanup
    OBVIOUS
  <2>2. ListedOrLost'
    BY DEF RunnerLists, ListedOrLost, WriteFails, FuzzerEndClosed
  <2> QED BY <2>1, <2>2 DEF RunnerLists
<1>4. JobPlaced'
  BY DEF JobPlaced, JobPlacedAt, Busy
<1>5. InputsFresh'
  BY DEF InputsFresh, InputsLive, Busy, Elements
<1>6. JobsCounted'
  BY DEF JobsCounted, Accounting
<1> QED BY <1>1, <1>2, <1>3, <1>4, <1>5, <1>6

(***************************************************************************)
(* What is left to show for those steps: the signals and flags.            *)
(***************************************************************************)
LEMMA ControlStep ==
  ASSUME IInv, Control, ZombieNoticed', StatusNoticed', FdsReadable', SuspendGuard'
  PROVE  IInv'
BY ControlKeeps DEF IInv

\* Sending SIGTERM to a runner keeps the type of term.
LEMMA SigtermType ==
  ASSUME TypeOK, NEW r \in Runners, SigtermTo(r)
  PROVE  term' \in [Runners -> {"none", "pending", "seen", "swallowed"}]
BY DEF TypeOK, SigtermTo

\* The steps of the loop of run_fuzzer that move no runner keep the invariant.
LEMMA LoopControl ==
  ASSUME IInv,
         \/ HandleWhileStarting \/ EnterLoop \/ LeaveLoop \/ Iterate
         \/ ReapSkip \/ ReapEnd \/ CheckNothing \/ CheckIfJobsDone
         \/ CollectEnd \/ ResultsEnd \/ SubmitEnd \/ Wake
  PROVE  IInv'
<1> USE DEF IInv, fuzzerVars, listVars, countVars, inputVars, pipeVars, runnerVars
<1>1. CASE HandleWhileStarting
  <2>1. Control
    BY <1>1 DEF HandleWhileStarting, Control, TypeOK, FuzzerPC, Cleanup, RunHandlers, Signals
  <2>2. ZombieNoticed'
    BY <1>1 DEF HandleWhileStarting, ZombieNoticed, TypeOK, Cleanup, Zombie, RunHandlers, Signals
  <2>3. StatusNoticed'
    BY <1>1 DEF HandleWhileStarting, StatusNoticed, TypeOK, RunHandlers, Signals
  <2>4. FdsReadable' /\ SuspendGuard'
    BY <1>1 DEF HandleWhileStarting, FdsReadable, SuspendGuard, Readable, RunHandlers, Signals
  <2> QED BY <2>1, <2>2, <2>3, <2>4, ControlStep
<1>2. CASE EnterLoop
  <2>1. Control
    BY <1>2 DEF EnterLoop, Control, TypeOK, FuzzerPC, Cleanup
  <2>2. ZombieNoticed'
    BY <1>2 DEF EnterLoop, ZombieNoticed, TypeOK, Cleanup, Zombie
  <2>3. StatusNoticed'
    BY <1>2 DEF EnterLoop, StatusNoticed, TypeOK
  <2>4. FdsReadable' /\ SuspendGuard'
    BY <1>2 DEF EnterLoop, FdsReadable, SuspendGuard, Readable
  <2> QED BY <2>1, <2>2, <2>3, <2>4, ControlStep
<1>3. CASE LeaveLoop
  <2>1. Control
    BY <1>3 DEF LeaveLoop, Control, TypeOK, FuzzerPC, Cleanup, LoopEnds
  <2>2. ZombieNoticed'
    BY <1>3 DEF LeaveLoop, ZombieNoticed, TypeOK, Cleanup, Zombie, LoopEnds
  <2>3. StatusNoticed'
    BY <1>3 DEF LeaveLoop, StatusNoticed, TypeOK, LoopEnds
  <2>4. FdsReadable' /\ SuspendGuard'
    BY <1>3 DEF LeaveLoop, FdsReadable, SuspendGuard, Readable, LoopEnds
  <2> QED BY <2>1, <2>2, <2>3, <2>4, ControlStep
<1>4. CASE Iterate
  <2>1. Control
    <3>1. pc' \in FuzzerPC /\ (pc \in Cleanup => pc' \in Cleanup)
      BY <1>4 DEF Iterate, FuzzerPC, Cleanup
    <3>2. sigchld_seen' \in BOOLEAN
      BY <1>4, Zenon DEF Iterate
    <3>3. scan' \in Nat \ {0}
      BY <1>4 DEF Iterate
    <3> QED BY <1>4, <3>1, <3>2, <3>3 DEF Iterate, Control, TypeOK
  <2>2. ZombieNoticed'
    BY <1>4 DEF Iterate, ZombieNoticed, TypeOK, Cleanup, Zombie, LoopEnds
  <2>3. StatusNoticed'
    BY <1>4 DEF Iterate, StatusNoticed, TypeOK, LoopEnds
  <2>4. FdsReadable' /\ SuspendGuard'
    BY <1>4 DEF Iterate, FdsReadable, SuspendGuard, Readable, LoopEnds
  <2> QED BY <2>1, <2>2, <2>3, <2>4, ControlStep
<1>5. CASE ReapSkip
  <2>1. Control
    BY <1>5 DEF ReapSkip, Control, TypeOK, FuzzerPC, Cleanup, NextIndex
  <2>2. ZombieNoticed'
    BY <1>5 DEF ReapSkip, ZombieNoticed, TypeOK, Cleanup, Zombie, NextIndex
  <2>3. StatusNoticed'
    BY <1>5 DEF ReapSkip, StatusNoticed, TypeOK, NextIndex
  <2>4. FdsReadable' /\ SuspendGuard'
    BY <1>5 DEF ReapSkip, FdsReadable, SuspendGuard, Readable, NextIndex
  <2> QED BY <2>1, <2>2, <2>3, <2>4, ControlStep
<1>6. CASE ReapEnd
  <2>1. Control
    BY <1>6 DEF ReapEnd, Control, TypeOK, FuzzerPC, Cleanup
  <2>2. ZombieNoticed'
    BY <1>6 DEF ReapEnd, ZombieNoticed, TypeOK, Cleanup, Zombie
  <2>3. StatusNoticed'
    BY <1>6 DEF ReapEnd, StatusNoticed, TypeOK
  <2>4. FdsReadable' /\ SuspendGuard'
    BY <1>6 DEF ReapEnd, FdsReadable, SuspendGuard, Readable
  <2> QED BY <2>1, <2>2, <2>3, <2>4, ControlStep
<1>7. CASE CheckNothing
  <2>1. Control
    BY <1>7 DEF CheckNothing, Control, TypeOK, FuzzerPC, Cleanup
  <2>2. ZombieNoticed'
    BY <1>7 DEF CheckNothing, ZombieNoticed, TypeOK, Cleanup, Zombie
  <2>3. StatusNoticed'
    BY <1>7 DEF CheckNothing, StatusNoticed, TypeOK
  <2>4. FdsReadable' /\ SuspendGuard'
    BY <1>7 DEF CheckNothing, FdsReadable, SuspendGuard, Readable
  <2> QED BY <2>1, <2>2, <2>3, <2>4, ControlStep
<1>8. CASE CheckIfJobsDone
  <2>1. Control
    <3>1. fds' \subseteq Runners
      BY <1>8, ElementsIn DEF CheckIfJobsDone, TypeOK
    <3>2. sigusr1_seen' \in BOOLEAN
      BY <1>8, Zenon DEF CheckIfJobsDone
    <3>3. scan' \in Nat \ {0}
      BY <1>8 DEF CheckIfJobsDone
    <3> QED BY <1>8, <3>1, <3>2, <3>3 DEF CheckIfJobsDone, Control, TypeOK, FuzzerPC, Cleanup
  <2>2. ZombieNoticed'
    BY <1>8 DEF CheckIfJobsDone, ZombieNoticed, TypeOK, Cleanup, Zombie, Readable, Elements
  <2>3. StatusNoticed'
    BY <1>8 DEF CheckIfJobsDone, StatusNoticed, TypeOK, Readable, Elements
  <2>4. FdsReadable' /\ SuspendGuard'
    BY <1>8 DEF CheckIfJobsDone, FdsReadable, SuspendGuard, Readable
  <2> QED BY <2>1, <2>2, <2>3, <2>4, ControlStep
<1>9. CASE CollectEnd
  <2>1. Control
    BY <1>9 DEF CollectEnd, Control, TypeOK, FuzzerPC, Cleanup
  <2>2. ZombieNoticed'
    BY <1>9 DEF CollectEnd, ZombieNoticed, TypeOK, Cleanup, Zombie
  <2>3. StatusNoticed'
    BY <1>9 DEF CollectEnd, StatusNoticed, TypeOK
  <2>4. FdsReadable' /\ SuspendGuard'
    BY <1>9 DEF CollectEnd, FdsReadable, SuspendGuard, Readable
  <2> QED BY <2>1, <2>2, <2>3, <2>4, ControlStep
<1>10. CASE ResultsEnd
  <2>1. Control
    BY <1>10 DEF ResultsEnd, Control, TypeOK, FuzzerPC, Cleanup
  <2>2. ZombieNoticed'
    BY <1>10 DEF ResultsEnd, ZombieNoticed, TypeOK, Cleanup, Zombie
  <2>3. StatusNoticed'
    BY <1>10 DEF ResultsEnd, StatusNoticed, TypeOK
  <2>4. FdsReadable' /\ SuspendGuard'
    BY <1>10 DEF ResultsEnd, FdsReadable, SuspendGuard, Readable
  <2> QED BY <2>1, <2>2, <2>3, <2>4, ControlStep
<1>11. CASE SubmitEnd
  <2>1. Control
    BY <1>11 DEF SubmitEnd, Control, TypeOK, FuzzerPC, Cleanup, AfterDispatch
  <2>2. ZombieNoticed'
    BY <1>11 DEF SubmitEnd, ZombieNoticed, TypeOK, Cleanup, Zombie, AfterDispatch
  <2>3. StatusNoticed'
    BY <1>11 DEF SubmitEnd, StatusNoticed, TypeOK, AfterDispatch
  <2>4. FdsReadable' /\ SuspendGuard'
    BY <1>11 DEF SubmitEnd, FdsReadable, SuspendGuard, Readable, AfterDispatch
  <2> QED BY <2>1, <2>2, <2>3, <2>4, ControlStep
<1>12. CASE Wake
  <2>1. Control
    BY <1>12 DEF Wake, Control, TypeOK, FuzzerPC, Cleanup, RunHandlers, Signals
  <2>2. ZombieNoticed'
    BY <1>12 DEF Wake, ZombieNoticed, TypeOK, Cleanup, Zombie, RunHandlers, Signals
  <2>3. StatusNoticed'
    BY <1>12 DEF Wake, StatusNoticed, TypeOK, RunHandlers, Signals
  <2>4. FdsReadable' /\ SuspendGuard'
    BY <1>12 DEF Wake, FdsReadable, SuspendGuard, Readable, RunHandlers, Signals
  <2> QED BY <2>1, <2>2, <2>3, <2>4, ControlStep
<1> QED BY <1>1, <1>2, <1>3, <1>4, <1>5, <1>6, <1>7, <1>8, <1>9, <1>10, <1>11, <1>12

(***************************************************************************)
(* The cleanup, and the signals that come from outside.                    *)
(***************************************************************************)
LEMMA CleanupStep ==
  ASSUME IInv, FiniKill \/ FiniWait \/ FiniEnd
  PROVE  IInv'
<1> USE DEF IInv, fuzzerVars, listVars, countVars, inputVars, pipeVars, runnerVars
<1>1. CASE FiniKill
  <2>1. pool[scan] \in Runners
    BY <1>1 DEF FiniKill, TypeOK
  <2>2. term' \in [Runners -> {"none", "pending", "seen", "swallowed"}]
    BY <1>1, <2>1, SigtermType DEF FiniKill
  <2>3. Control
    BY <1>1, <2>2 DEF FiniKill, Control, TypeOK, FuzzerPC, Cleanup
  <2>4. ZombieNoticed' /\ StatusNoticed' /\ FdsReadable' /\ SuspendGuard'
    BY <1>1 DEF FiniKill, ZombieNoticed, StatusNoticed, FdsReadable, SuspendGuard, Cleanup
  <2> QED BY <2>3, <2>4, ControlStep
<1>2. CASE FiniWait
  <2>1. /\ pc \in Cleanup /\ pc' = "fini" /\ scan' \in Nat \ {0}
        /\ UNCHANGED <<fds, shutdown_req, sigchld_seen, sigusr1_seen, pending,
                       listVars, countVars, inputVars, pipeVars, inp_str,
                       final_state, term, kills>>
    BY <1>2 DEF FiniWait, Cleanup, TypeOK
  <2>2. /\ rpc' \in [Runners -> RunnerPC]
        /\ \A r \in Runners : rpc'[r] = rpc[r] \/ (rpc[r] \in Zombie /\ rpc'[r] = "reaped")
    <3>1. rpc \in [Runners -> RunnerPC] /\ rpc' = [rpc EXCEPT ![pool[scan]] = "reaped"]
          /\ rpc[pool[scan]] \in Zombie
      BY <1>2 DEF FiniWait, TypeOK
    <3>2. rpc' \in [Runners -> RunnerPC]
      BY <3>1 DEF RunnerPC
    <3>3. \A r \in Runners : rpc'[r] = IF r = pool[scan] THEN "reaped" ELSE rpc[r]
      BY <3>1
    <3> QED BY <3>1, <3>2, <3>3
  <2>3. TypeOK'
    BY <2>1, <2>2 DEF TypeOK, FuzzerPC
  <2>4. InputsKnown'
    BY <2>1, <2>2 DEF InputsKnown, Busy
  <2>5. RunnerLists'
    <3>1. Elements(pool) \subseteq Runners
      BY ElementsIn DEF TypeOK
    <3>2. ListedOrLost'
      <4>1. /\ \A q \in Runners : rpc[q] \in {"closed", "reaped"} => rpc'[q] \in {"closed", "reaped"}
            /\ \A q \in Runners : rpc[q] = "reaped" => rpc'[q] = "reaped"
        BY <2>2
      <4> QED BY <2>1, <3>1, <4>1, NoneGetsLost DEF RunnerLists
    <3> QED BY <2>1, <3>2 DEF RunnerLists, Cleanup
  <2>6. JobPlaced'
    BY <2>1, <2>2 DEF JobPlaced, JobPlacedAt, Busy, Zombie
  <2>7. InputsFresh' /\ JobsCounted'
    BY <2>1 DEF InputsFresh, InputsLive, Busy, JobsCounted, Accounting
  <2>8. ZombieNoticed' /\ StatusNoticed' /\ FdsReadable' /\ SuspendGuard'
    <3>1. \A i \in DOMAIN active : active[i] \in Runners
      BY DEF TypeOK
    <3>2. StatusNoticed'
      BY <2>1, <2>2, <3>1 DEF StatusNoticed, Cleanup, Zombie
    <3> QED BY <2>1, <3>2 DEF ZombieNoticed, FdsReadable, SuspendGuard, Cleanup
  <2> QED BY <2>3, <2>4, <2>5, <2>6, <2>7, <2>8
<1>3. CASE FiniEnd
  <2>1. Control
    BY <1>3 DEF FiniEnd, Control, TypeOK, FuzzerPC, Cleanup
  <2>2. ZombieNoticed' /\ StatusNoticed' /\ FdsReadable' /\ SuspendGuard'
    BY <1>3 DEF FiniEnd, ZombieNoticed, StatusNoticed, FdsReadable, SuspendGuard, Cleanup
  <2> QED BY <2>1, <2>2, ControlStep
<1> QED BY <1>1, <1>2, <1>3

\* Signals from the user keep the invariant.
LEMMA EnvironmentStep ==
  ASSUME IInv, Terminate \/ \E r \in Runners : KillRunner(r)
  PROVE  IInv'
<1> USE DEF IInv, fuzzerVars, listVars, countVars, inputVars, pipeVars, runnerVars
<1>1. CASE Terminate
  <2>1. Control
    BY <1>1 DEF Terminate, Control, TypeOK, Signals
  <2>2. ZombieNoticed' /\ StatusNoticed' /\ FdsReadable' /\ SuspendGuard'
    BY <1>1 DEF Terminate, ZombieNoticed, StatusNoticed, FdsReadable, Readable, SuspendGuard
  <2> QED BY <2>1, <2>2, ControlStep
<1>2. ASSUME NEW r \in Runners, KillRunner(r) PROVE IInv'
  <2>1. term' \in [Runners -> {"none", "pending", "seen", "swallowed"}]
    BY <1>2, SigtermType DEF KillRunner
  <2>2. Control
    BY <1>2, <2>1 DEF KillRunner, Control, TypeOK
  <2>3. ZombieNoticed' /\ StatusNoticed' /\ FdsReadable' /\ SuspendGuard'
    BY <1>2 DEF KillRunner, ZombieNoticed, StatusNoticed, FdsReadable, Readable, SuspendGuard
  <2> QED BY <2>2, <2>3, ControlStep
<1> QED BY <1>1, <1>2

-----------------------------------------------------------------------------
(***************************************************************************)
(* Steps of a runner process.                                              *)
(***************************************************************************)
LEMMA RunnerFrame ==
  ASSUME IInv, UNCHANGED runnerFrame,
         \A q \in Runners : rpc'[q] = "reaped" <=> rpc[q] = "reaped",
         \A q \in Runners : rpc[q] = "closed" => rpc'[q] = "closed"
  PROVE  RunnerLists' /\ InputsFresh' /\ JobsCounted' /\ SuspendGuard'
<1> USE DEF IInv, runnerFrame, fuzzerVars, listVars, countVars, inputVars
<1>1. RunnerLists'
  <2>1. Elements(pool) \subseteq Runners
    BY ElementsIn DEF TypeOK
  <2>2. ListedOrLost'
    <3>1. \A q \in Runners : rpc[q] \in {"closed", "reaped"} => rpc'[q] \in {"closed", "reaped"}
      OBVIOUS
    <3> QED BY <2>1, <3>1, NoneGetsLost DEF RunnerLists
  <2> QED BY <2>1, <2>2 DEF RunnerLists
<1>2. InputsFresh'
  BY DEF InputsFresh, InputsLive, Busy
<1>3. JobsCounted' /\ SuspendGuard'
  BY DEF JobsCounted, Accounting, SuspendGuard
<1> QED BY <1>1, <1>2, <1>3

\* Every step of a runner process keeps the invariant.
LEMMA RunnerKeeps ==
  ASSUME IInv, NEW r \in Runners, RunnerStep(r)
  PROVE  IInv'
<1> USE DEF IInv, runnerFrame, fuzzerVars, listVars, countVars, inputVars, pipeVars
<1>1. /\ \A i \in DOMAIN active : active[i] \in Runners /\ active[i] \in Elements(active)
      /\ \A i \in DOMAIN pool : pool[i] \in Runners
      /\ Elements(active) \subseteq Runners /\ Elements(done) \subseteq Runners
  BY ElementsIn DEF TypeOK, Elements
<1>2. CASE InstallHandlers(r)
  <2>1. TypeOK'
    <3>1. rpc' \in [Runners -> RunnerPC]
      BY <1>2 DEF InstallHandlers, TypeOK, RunnerPC
    <3> QED BY <1>2, <3>1 DEF InstallHandlers, TypeOK
  <2>2. InputsKnown'
    BY <1>2, <1>1 DEF InstallHandlers, InputsKnown, Busy, TypeOK
  <2>3. JobPlaced'
    BY <1>2, <1>1 DEF InstallHandlers, JobPlaced, JobPlacedAt, Busy, TypeOK
  <2>4. ZombieNoticed' /\ StatusNoticed'
    BY <1>2, <1>1 DEF InstallHandlers, ZombieNoticed, StatusNoticed, TypeOK, Zombie
  <2>5. FdsReadable'
    BY <1>2 DEF InstallHandlers, FdsReadable, Readable, TypeOK
  <2>6. RunnerLists' /\ InputsFresh' /\ JobsCounted' /\ SuspendGuard'
    BY <1>2, RunnerFrame DEF InstallHandlers, TypeOK
  <2> QED BY <2>1, <2>2, <2>3, <2>4, <2>5, <2>6
<1>3. CASE ReceiveInput(r)
  <2>1. TypeOK'
    <3>1. rpc' \in [Runners -> RunnerPC]
      BY <1>3 DEF ReceiveInput, TypeOK, RunnerPC
    <3>2. Head(to_runner[r]) \in Inputs /\ Tail(to_runner[r]) \in Seq(Inputs)
      BY <1>3 DEF ReceiveInput, TypeOK
    <3>3. /\ inp_str' \in [Runners -> Inputs \cup {NoInput}]
          /\ to_runner' \in [Runners -> Seq(Inputs)]
      BY <1>3, <3>2 DEF ReceiveInput, TypeOK
    <3> QED BY <1>3, <3>1, <3>3 DEF ReceiveInput, TypeOK
  <2>2. InputsKnown'
    BY <1>3, <1>1 DEF ReceiveInput, InputsKnown, Busy, TypeOK
  <2>3. JobPlaced'
    <3>1. ASSUME NEW q \in Runners, q # r PROVE JobPlacedAt(q)'
      BY <1>3, <3>1 DEF ReceiveInput, JobPlaced, JobPlacedAt, Busy, TypeOK
    <3>2. /\ to_runner[r] = <<active_input[r]>> /\ from_runner[r] = <<>>
          /\ r \in Elements(active)
      BY <1>3 DEF ReceiveInput, JobPlaced, JobPlacedAt
    <3>3. to_runner'[r] = <<>> /\ inp_str'[r] = active_input[r] /\ rpc'[r] = "wait"
      BY <1>3, <3>2 DEF ReceiveInput, TypeOK
    <3>4. r \notin Elements(done)
      BY <3>2 DEF RunnerLists, Disjoint
    <3>5. JobPlacedAt(r)'
      BY <1>3, <3>2, <3>3, <3>4 DEF ReceiveInput, JobPlacedAt, Busy
    <3> QED BY <3>1, <3>5 DEF JobPlaced
  <2>4. ZombieNoticed' /\ StatusNoticed'
    BY <1>3, <1>1 DEF ReceiveInput, ZombieNoticed, StatusNoticed, TypeOK, Zombie
  <2>5. FdsReadable'
    BY <1>3 DEF ReceiveInput, FdsReadable, Readable, TypeOK
  <2>6. RunnerLists' /\ InputsFresh' /\ JobsCounted' /\ SuspendGuard'
    BY <1>3, RunnerFrame DEF ReceiveInput, TypeOK
  <2> QED BY <2>1, <2>2, <2>3, <2>4, <2>5, <2>6
<1>4. CASE TargetEnds(r)
  <2>1. TypeOK'
    <3>1. rpc' \in [Runners -> RunnerPC]
      BY <1>4 DEF TargetEnds, TypeOK, RunnerPC
    <3>2. final_state' \in [Runners -> Outcomes]
      BY <1>4 DEF TargetEnds, TypeOK
    <3>3. term' \in [Runners -> {"none", "pending", "seen", "swallowed"}]
      BY <1>4 DEF TargetEnds, TypeOK
    <3> QED BY <1>4, <3>1, <3>2, <3>3 DEF TargetEnds, TypeOK
  <2>2. InputsKnown'
    BY <1>4, <1>1 DEF TargetEnds, InputsKnown, Busy, TypeOK
  <2>3. JobPlaced'
    BY <1>4, <1>1 DEF TargetEnds, JobPlaced, JobPlacedAt, Busy, TypeOK
  <2>4. ZombieNoticed' /\ StatusNoticed'
    BY <1>4, <1>1 DEF TargetEnds, ZombieNoticed, StatusNoticed, TypeOK, Zombie
  <2>5. FdsReadable'
    BY <1>4 DEF TargetEnds, FdsReadable, Readable, TypeOK
  <2>6. RunnerLists' /\ InputsFresh' /\ JobsCounted' /\ SuspendGuard'
    BY <1>4, RunnerFrame DEF TargetEnds, TypeOK
  <2> QED BY <2>1, <2>2, <2>3, <2>4, <2>5, <2>6
<1>5. CASE WriteStatus(r)
  <2>1. TypeOK'
    <3>1. rpc' \in [Runners -> RunnerPC]
      BY <1>5 DEF WriteStatus, TypeOK, RunnerPC
    <3>2. [input |-> inp_str[r], state |-> final_state[r]] \in Status
      BY <1>5 DEF WriteStatus, TypeOK, InputsKnown, Status
    <3>3. from_runner' \in [Runners -> Seq(Status)]
      <4> DEFINE pkt == [input |-> inp_str[r], state |-> final_state[r]]
      <4>1. from_runner' = [from_runner EXCEPT ![r] = Append(@, pkt)]
        BY <1>5 DEF WriteStatus
      <4> HIDE DEF pkt
      <4>2. from_runner \in [Runners -> Seq(Status)]
        BY DEF TypeOK
      <4>3. Append(from_runner[r], pkt) \in Seq(Status)
        BY <3>2, <4>2 DEF pkt
      <4> QED BY <4>1, <4>2, <4>3
    <3> QED BY <1>5, <3>1, <3>3 DEF WriteStatus, TypeOK
  <2>2. InputsKnown'
    BY <1>5, <1>1 DEF WriteStatus, InputsKnown, Busy, TypeOK
  <2>3. JobPlaced'
    <3>1. ASSUME NEW q \in Runners, q # r PROVE JobPlacedAt(q)'
      BY <1>5, <3>1 DEF WriteStatus, JobPlaced, JobPlacedAt, Busy, TypeOK
    <3>2. /\ to_runner[r] = <<>> /\ from_runner[r] = <<>>
          /\ r \in Elements(active) /\ inp_str[r] = active_input[r]
      BY <1>5 DEF WriteStatus, JobPlaced, JobPlacedAt
    <3>3. /\ from_runner'[r] = <<[input |-> active_input[r], state |-> final_state[r]]>>
          /\ final_state[r] \in Outcomes /\ rpc'[r] = "signal"
      BY <1>5, <3>2 DEF WriteStatus, TypeOK
    <3>4. from_runner'[r] # <<>>
      BY <3>3
    <3>5. JobPlacedAt(r)'
      BY <1>5, <3>2, <3>3, <3>4 DEF WriteStatus, JobPlacedAt, Busy
    <3> QED BY <3>1, <3>5 DEF JobPlaced
  <2>4. ZombieNoticed' /\ StatusNoticed'
    BY <1>5, <1>1 DEF WriteStatus, ZombieNoticed, StatusNoticed, TypeOK, Zombie
  <2>5. FdsReadable'
    <3>1. from_runner \in [Runners -> Seq(Status)] /\ fds \subseteq Runners
      BY DEF TypeOK
    <3>2. from_runner'[r] # <<>> /\ \A q \in Runners : q # r => from_runner'[q] = from_runner[q]
      BY <1>5, <3>1 DEF WriteStatus
    <3>3. \A q \in Runners : rpc[q] = "closed" => rpc'[q] = "closed"
      BY <1>5 DEF WriteStatus, TypeOK
    <3> QED BY <1>5, <3>1, <3>2, <3>3 DEF WriteStatus, FdsReadable, Readable
  <2>6. RunnerLists' /\ InputsFresh' /\ JobsCounted' /\ SuspendGuard'
    BY <1>5, RunnerFrame DEF WriteStatus, TypeOK
  <2> QED BY <2>1, <2>2, <2>3, <2>4, <2>5, <2>6
<1>6. CASE AlertFuzzer(r)
  <2>1. TypeOK'
    <3>1. rpc' \in [Runners -> RunnerPC]
      BY <1>6 DEF AlertFuzzer, TypeOK, RunnerPC
    <3>2. pending' \subseteq Signals
      BY <1>6 DEF AlertFuzzer, TypeOK, Signals
    <3> QED BY <1>6, <3>1, <3>2 DEF AlertFuzzer, TypeOK
  <2>2. InputsKnown'
    BY <1>6, <1>1 DEF AlertFuzzer, InputsKnown, Busy, TypeOK
  <2>3. JobPlaced'
    BY <1>6, <1>1 DEF AlertFuzzer, JobPlaced, JobPlacedAt, Busy, TypeOK
  <2>4. ZombieNoticed' /\ StatusNoticed'
    BY <1>6, <1>1 DEF AlertFuzzer, ZombieNoticed, StatusNoticed, TypeOK, Zombie
  <2>5. FdsReadable'
    BY <1>6 DEF AlertFuzzer, FdsReadable, Readable, TypeOK
  <2>6. RunnerLists' /\ InputsFresh' /\ JobsCounted' /\ SuspendGuard'
    BY <1>6, RunnerFrame DEF AlertFuzzer, TypeOK
  <2> QED BY <2>1, <2>2, <2>3, <2>4, <2>5, <2>6
<1>7. CASE ExitIdle(r)
  <2>1. TypeOK'
    <3>1. rpc' \in [Runners -> RunnerPC]
      BY <1>7 DEF ExitIdle, TypeOK, RunnerPC
    <3>2. pending' \subseteq Signals
      BY <1>7 DEF ExitIdle, TypeOK, Signals
    <3>3. term' \in [Runners -> {"none", "pending", "seen", "swallowed"}]
      <4>1. term' = term \/ TermDelivered(r)
        BY <1>7 DEF ExitIdle, ToldToStop, ReadsEndOfFile, SignalInterrupts
      <4> QED BY <4>1 DEF TermDelivered, TypeOK
    <3> QED BY <1>7, <3>1, <3>2, <3>3 DEF ExitIdle, TypeOK
  <2>2. InputsKnown'
    BY <1>7, <1>1 DEF ExitIdle, InputsKnown, Busy, TypeOK
  <2>3. JobPlaced'
    BY <1>7, <1>1 DEF ExitIdle, JobPlaced, JobPlacedAt, Busy, TypeOK
  <2>4. ZombieNoticed' /\ StatusNoticed'
    BY <1>7, <1>1 DEF ExitIdle, ZombieNoticed, StatusNoticed, TypeOK, Zombie
  <2>5. FdsReadable'
    BY <1>7 DEF ExitIdle, FdsReadable, Readable, TypeOK
  <2>6. RunnerLists' /\ InputsFresh' /\ JobsCounted' /\ SuspendGuard'
    BY <1>7, RunnerFrame DEF ExitIdle, TypeOK
  <2> QED BY <2>1, <2>2, <2>3, <2>4, <2>5, <2>6
<1>8. CASE ExitBusy(r)
  <2>0. PICK zombie \in Zombie : rpc' = [rpc EXCEPT ![r] = zombie]
    BY <1>8 DEF ExitBusy
  <2>1. TypeOK'
    <3>1. rpc' \in [Runners -> RunnerPC]
      BY <2>0 DEF TypeOK, RunnerPC, Zombie
    <3>2. pending' \subseteq Signals
      BY <1>8 DEF ExitBusy, TypeOK, Signals
    <3>3. term' \in [Runners -> {"none", "pending", "seen", "swallowed"}]
      BY <1>8 DEF ExitBusy, TermDelivered, TypeOK
    <3> QED BY <1>8, <3>1, <3>2, <3>3 DEF ExitBusy, TypeOK
  <2>2. InputsKnown'
    BY <1>8, <2>0, <1>1 DEF ExitBusy, InputsKnown, Busy, TypeOK, Zombie
  <2>3. JobPlaced'
    BY <1>8, <2>0, <1>1 DEF ExitBusy, JobPlaced, JobPlacedAt, Busy, TypeOK, Zombie
  <2>4. ZombieNoticed' /\ StatusNoticed'
    BY <1>8, <2>0, <1>1 DEF ExitBusy, ZombieNoticed, StatusNoticed, TypeOK, Zombie
  <2>5. FdsReadable'
    BY <1>8, <2>0 DEF ExitBusy, FdsReadable, Readable, TypeOK, Zombie
  <2>6. RunnerLists' /\ InputsFresh' /\ JobsCounted' /\ SuspendGuard'
    <3>1. \A q \in Runners : rpc'[q] = "reaped" => rpc[q] = "reaped"
      BY <2>0 DEF TypeOK, Zombie
    <3> QED BY <1>8, <3>1, RunnerFrame DEF ExitBusy
  <2> QED BY <2>1, <2>2, <2>3, <2>4, <2>5, <2>6
<1>9. CASE TargetGone(r)
  <2>1. TypeOK'
    <3>1. rpc' \in [Runners -> RunnerPC]
      BY <1>9 DEF TargetGone, TypeOK, RunnerPC
    <3>2. pending' \subseteq Signals
      BY <1>9 DEF TargetGone, TypeOK, Signals
    <3> QED BY <1>9, <3>1, <3>2 DEF TargetGone, TypeOK
  <2>2. InputsKnown'
    BY <1>9, <1>1 DEF TargetGone, InputsKnown, Busy, TypeOK
  <2>3. JobPlaced'
    BY <1>9, <1>1 DEF TargetGone, JobPlaced, JobPlacedAt, Busy, TypeOK
  <2>4. ZombieNoticed' /\ StatusNoticed'
    <3>1. /\ \A q \in Runners : rpc'[q] \in Zombie => rpc[q] \in Zombie
          /\ \A q \in Runners : rpc'[q] # "signal" => rpc[q] # "signal"
      BY <1>9 DEF TargetGone, TypeOK, Zombie
    <3>2. ZombieNoticed'
      BY <1>9, <1>1, <3>1 DEF TargetGone, ZombieNoticed
    <3>3. StatusNoticed'
      BY <1>9, <1>1, <3>1 DEF TargetGone, StatusNoticed
    <3> QED BY <3>2, <3>3
  <2>5. FdsReadable'
    BY <1>9 DEF TargetGone, FdsReadable, Readable, TypeOK
  <2>6. RunnerLists' /\ InputsFresh' /\ JobsCounted' /\ SuspendGuard'
    BY <1>9, RunnerFrame DEF TargetGone, TypeOK
  <2> QED BY <2>1, <2>2, <2>3, <2>4, <2>5, <2>6
<1> QED BY <1>2, <1>3, <1>4, <1>5, <1>6, <1>7, <1>8, <1>9 DEF RunnerStep, RunnerCode

-----------------------------------------------------------------------------
(***************************************************************************)
(* Steps of run_fuzzer that move runners between the lists.                *)
(***************************************************************************)
LEMMA ReapZombieKeeps ==
  ASSUME IInv, ReapZombie
  PROVE  IInv'
<1> USE DEF IInv, fuzzerVars, countVars, inputVars, pipeVars
<1>0. pool[scan] \in Runners /\ pool[scan] \in Elements(pool) /\ scan \in 1 .. Len(pool)
  BY DEF ReapZombie, TypeOK, Elements
<1>1. PICK r \in Runners :
      /\ r = pool[scan] /\ r \in Elements(pool) /\ rpc[r] \in Zombie /\ pc = "reap"
      /\ scan \in 1 .. Len(pool)
      /\ ready' = RemoveRunner(ready, r) /\ active' = RemoveRunner(active, r)
      /\ done' = RemoveRunner(done, r) /\ pool' = RemoveRunner(pool, r)
      /\ rpc' = [rpc EXCEPT ![r] = "reaped"]
      /\ UNCHANGED <<fuzzerVars, pending, countVars, inputVars, pipeVars,
                     inp_str, final_state, term, kills>>
  BY <1>0 DEF ReapZombie, NextIndex
<1>2. /\ pool \in Seq(Runners) /\ NoDuplicates(pool)
      /\ ready \in Seq(Runners) /\ NoDuplicates(ready)
      /\ active \in Seq(Runners) /\ NoDuplicates(active)
      /\ done \in Seq(Runners) /\ NoDuplicates(done)
  BY DEF TypeOK, RunnerLists
<1>3. /\ pool' \in Seq(Runners) /\ NoDuplicates(pool') /\ Elements(pool') = Elements(pool) \ {r}
      /\ Len(pool') = Len(pool) - 1
  BY <1>1, <1>2, RemoveElements
<1>4. ready' \in Seq(Runners) /\ NoDuplicates(ready') /\ Elements(ready') = Elements(ready) \ {r}
  BY <1>1, <1>2, RemoveElements
<1>5. /\ active' \in Seq(Runners) /\ NoDuplicates(active')
      /\ Elements(active') = Elements(active) \ {r} /\ Len(active') <= Len(active)
  BY <1>1, <1>2, RemoveElements
<1>6. /\ done' \in Seq(Runners) /\ NoDuplicates(done')
      /\ Elements(done') = Elements(done) \ {r} /\ Len(done') <= Len(done)
  BY <1>1, <1>2, RemoveElements
<1>7. /\ rpc' \in [Runners -> RunnerPC] /\ rpc'[r] = "reaped"
      /\ \A q \in Runners : q # r => rpc'[q] = rpc[q]
  BY <1>1 DEF TypeOK, RunnerPC
<1>8. \A i \in 1 .. Len(pool) - 1 : pool'[i] = IF i < scan THEN pool[i] ELSE pool[i + 1]
  BY <1>1, <1>2, RemovePresent
<1>9. Elements(active) \subseteq Runners /\ Elements(done) \subseteq Runners
      /\ Elements(pool) \subseteq Runners
  BY <1>2, ElementsIn
<1>10. TypeOK'
  BY <1>1, <1>3, <1>4, <1>5, <1>6, <1>7 DEF TypeOK
<1>11. InputsKnown'
  BY <1>1, <1>5, <1>6, <1>7 DEF InputsKnown, Busy, TypeOK
<1>12. RunnerLists'
  <2>1. ListedOrLost'
    <3>1. /\ \A q \in Runners : rpc[q] \in {"closed", "reaped"} => rpc'[q] \in {"closed", "reaped"}
          /\ \A q \in Runners : rpc[q] = "reaped" => rpc'[q] = "reaped"
      BY <1>7
    <3> QED BY <1>3, <1>4, <1>5, <1>6, <1>9, <3>1, NoneGetsLost DEF RunnerLists
  <2> QED BY <1>1, <1>3, <1>4, <1>5, <1>6, <1>7, <1>9, <2>1 DEF RunnerLists, Disjoint
<1>13. JobPlaced'
  <2>1. ASSUME NEW q \in Runners, q # r PROVE JobPlacedAt(q)'
    BY <1>1, <1>3, <1>5, <1>6, <1>7, <2>1 DEF JobPlaced, JobPlacedAt, Busy
  <2>2. JobPlacedAt(r)'
    BY <1>1, <1>3, <1>5, <1>6, <1>7 DEF JobPlaced, JobPlacedAt, Busy, Zombie
  <2> QED BY <2>1, <2>2 DEF JobPlaced
<1>14. InputsFresh'
  BY <1>1, <1>5, <1>6 DEF InputsFresh, InputsLive, Busy
<1>15. JobsCounted'
  <2>1. /\ jobs_received \in Nat /\ jobs_sent \in Nat /\ job_count \in Nat
        /\ Len(active) \in Nat /\ Len(done) \in Nat /\ Len(pool) \in Nat
        /\ Len(active') \in Nat /\ Len(done') \in Nat
    BY <1>2, <1>5, <1>6, ConstantsAssumption DEF TypeOK
  <2>2. Len(pool') < job_count
    BY <1>3, <2>1 DEF JobsCounted
  <2>3. jobs_received + (Len(active') + Len(done')) <= jobs_sent
    BY <1>5, <1>6, <2>1 DEF JobsCounted, Accounting
  <2> QED BY <1>1, <2>1, <2>2, <2>3 DEF JobsCounted, Accounting
<1>16. ZombieNoticed'
  <2>1. ASSUME NEW i \in DOMAIN pool', rpc'[pool'[i]] \in Zombie, i < scan
        PROVE  "CHLD" \in pending \/ sigchld_seen
    <3>1. i \in 1 .. Len(pool) - 1
      BY <1>2, <1>3
    <3>1a. i \in DOMAIN pool /\ pool'[i] = pool[i] /\ pool[i] \in Runners
      BY <1>2, <1>8, <2>1, <3>1
    <3>2. rpc[pool[i]] \in Zombie
      BY <1>7, <2>1, <3>1a DEF Zombie
    <3> QED BY <1>1, <2>1, <3>1a, <3>2 DEF ZombieNoticed, Cleanup, TypeOK
  <2> QED BY <1>1, <1>3, <2>1 DEF ZombieNoticed, TypeOK
<1>17. StatusNoticed'
  <2>1. ASSUME NEW i \in DOMAIN active'
        PROVE  active'[i] \in Runners /\ active'[i] # r
                 /\ \E j \in DOMAIN active : active[j] = active'[i]
    BY <1>5, <1>9 DEF Elements
  <2> QED BY <1>1, <1>7, <2>1 DEF StatusNoticed
<1>18. FdsReadable' /\ SuspendGuard'
  BY <1>1 DEF FdsReadable, SuspendGuard
<1> QED BY <1>10, <1>11, <1>12, <1>13, <1>14, <1>15, <1>16, <1>17, <1>18

\* A turn of the loop of runners_check_if_jobs_done keeps the invariant.
LEMMA CollectKeeps ==
  ASSUME IInv, Collect
  PROVE  IInv'
<1> USE DEF IInv, fuzzerVars, listVars, countVars, inputVars, pipeVars, runnerVars
<1>0. /\ active[scan] \in Runners /\ active[scan] \in Elements(active)
      /\ scan \in 1 .. Len(active)
  BY DEF Collect, TypeOK, Elements
<1>1. CASE active[scan] \notin fds
  <2>1. /\ pc = "collect" /\ scan' = scan + 1
        /\ UNCHANGED <<pc, fds, shutdown_req, sigchld_seen, sigusr1_seen, pending,
                       listVars, countVars, inputVars, pipeVars, runnerVars, kills>>
    BY <1>1 DEF Collect, NextIndex
  <2>2. Control
    BY <2>1 DEF Control, TypeOK
  <2>3. ZombieNoticed' /\ FdsReadable' /\ SuspendGuard'
    BY <2>1 DEF ZombieNoticed, FdsReadable, Readable, SuspendGuard
  <2>4. StatusNoticed'
    BY <1>1, <2>1 DEF StatusNoticed, TypeOK
  <2> QED BY <2>2, <2>3, <2>4, ControlStep
<1>2. CASE active[scan] \in fds
  <2>1. PICK r \in Runners :
        /\ r = active[scan] /\ r \in Elements(active) /\ r \in fds /\ pc = "collect"
        /\ active' = RemoveRunner(active, r) /\ done' = Append(done, r)
        /\ scan' = scan
        /\ UNCHANGED <<pc, fds, shutdown_req, sigchld_seen, sigusr1_seen, pending,
                       pool, ready, countVars, inputVars, pipeVars, runnerVars, kills>>
    BY <1>0, <1>2 DEF Collect, NextIndex
  <2>2. /\ active \in Seq(Runners) /\ NoDuplicates(active)
        /\ done \in Seq(Runners) /\ NoDuplicates(done)
        /\ r \notin Elements(done) /\ r \notin Elements(ready)
    BY <2>1 DEF TypeOK, RunnerLists, Disjoint
  <2>3. /\ active' \in Seq(Runners) /\ NoDuplicates(active')
        /\ Elements(active') = Elements(active) \ {r}
        /\ Len(active') = Len(active) - 1
    BY <2>1, <2>2, RemoveElements
  <2>4. /\ done' \in Seq(Runners) /\ NoDuplicates(done')
        /\ Elements(done') = Elements(done) \cup {r} /\ Len(done') = Len(done) + 1
    BY <2>1, <2>2, AppendElements
  <2>5. \A i \in 1 .. Len(active) - 1 :
            active'[i] = IF i < scan THEN active[i] ELSE active[i + 1]
    BY <1>0, <2>1, <2>2, RemovePresent
  <2>6. TypeOK'
    BY <2>1, <2>3, <2>4 DEF TypeOK
  <2>7. InputsKnown'
    BY <2>1, <2>3, <2>4 DEF InputsKnown, Busy
  <2>8. RunnerLists'
    <3>1. ListedOrLost'
      BY <2>1, <2>3, <2>4 DEF RunnerLists, ListedOrLost, WriteFails, FuzzerEndClosed
    <3> QED BY <2>1, <2>2, <2>3, <2>4, <3>1 DEF RunnerLists, Disjoint
  <2>9. JobPlaced'
    <3>1. ASSUME NEW q \in Runners, q # r PROVE JobPlacedAt(q)'
      BY <2>1, <2>3, <2>4, <3>1 DEF JobPlaced, JobPlacedAt, Busy
    <3>2. from_runner[r] # <<>> \/ rpc[r] = "closed"
      BY <2>1 DEF FdsReadable, Readable
    <3>3. JobPlacedAt(r)'
      BY <2>1, <2>3, <2>4, <3>2 DEF JobPlaced, JobPlacedAt, Busy
    <3> QED BY <3>1, <3>3 DEF JobPlaced
  <2>10. InputsFresh'
    BY <2>1, <2>3, <2>4 DEF InputsFresh, InputsLive, Busy
  <2>11. JobsCounted'
    <3>1. /\ jobs_received \in Nat /\ jobs_sent \in Nat
          /\ Len(active) \in Nat /\ Len(done) \in Nat
      BY <2>2 DEF TypeOK
    <3>2. Len(active') + Len(done') = Len(active) + Len(done)
      BY <2>3, <2>4, <3>1
    <3> QED BY <2>1, <3>2 DEF JobsCounted, Accounting
  <2>12. ZombieNoticed' /\ FdsReadable' /\ SuspendGuard'
    BY <2>1 DEF ZombieNoticed, FdsReadable, Readable, SuspendGuard
  <2>13. StatusNoticed'
    <3>1. ASSUME NEW i \in DOMAIN active', from_runner[active'[i]] # <<>>,
                 rpc[active'[i]] # "signal"
          PROVE  \/ "USR1" \in pending \/ sigusr1_seen
                 \/ active'[i] \in fds /\ scan <= i
      <4>1. i \in 1 .. Len(active) - 1 /\ Len(active) \in Nat
        BY <2>2, <2>3
      <4>2. CASE i < scan
        <5>1. i \in DOMAIN active /\ active'[i] = active[i]
          BY <2>2, <2>5, <4>1, <4>2
        <5> QED BY <3>1, <4>2, <5>1, <1>0, <4>1 DEF StatusNoticed
      <4>3. CASE ~(i < scan)
        <5>1. i + 1 \in DOMAIN active /\ active'[i] = active[i + 1] /\ scan <= i
          BY <1>0, <2>2, <2>5, <4>1, <4>3
        <5> QED BY <3>1, <5>1 DEF StatusNoticed
      <4> QED BY <4>2, <4>3
    <3> QED BY <2>1, <3>1 DEF StatusNoticed
  <2> QED BY <2>6, <2>7, <2>8, <2>9, <2>10, <2>11, <2>12, <2>13
<1> QED BY <1>1, <1>2

\* A dispatch whose write fails keeps the invariant.
LEMMA SubmitFailsKeeps ==
  ASSUME IInv, SubmitFails
  PROVE  IInv'
<1> USE DEF IInv, fuzzerVars, countVars, inputVars, pipeVars, runnerVars
<1>1. ready \in Seq(Runners) /\ ready # <<>> /\ NoDuplicates(ready)
  BY DEF SubmitFails, CanDispatch, TypeOK, RunnerLists
<1>2. PICK r \in Runners :
      /\ r \in Elements(ready) /\ ready' = RemoveRunner(ready, r) /\ pc = "submit"
      /\ WriteFails(r) /\ pc' = AfterDispatch(active) /\ scan' = 1
      /\ UNCHANGED <<fds, shutdown_req, sigchld_seen, sigusr1_seen, pending, pool,
                     active, done, countVars, inputVars, pipeVars, runnerVars, kills>>
  BY <1>1, HeadElement DEF SubmitFails
<1>3. ready' \in Seq(Runners) /\ NoDuplicates(ready') /\ Elements(ready') = Elements(ready) \ {r}
  BY <1>1, <1>2, RemoveElements
<1>4. pc' \in {"fini", "suspend", "top"}
  BY <1>2 DEF AfterDispatch
<1>5. TypeOK'
  BY <1>2, <1>3, <1>4 DEF TypeOK, FuzzerPC
<1>6. InputsKnown' /\ InputsFresh' /\ JobsCounted'
  BY <1>2 DEF InputsKnown, InputsFresh, InputsLive, JobsCounted, Accounting, Busy
<1>7. RunnerLists'
  <2>1. pc \notin Cleanup
    BY <1>2 DEF Cleanup
  <2>2. ListedOrLost'
    <3>1. \A q \in Elements(pool) :
              \/ q \in Elements(ready') \cup Elements(active) \cup Elements(done)
              \/ WriteFails(q)
      BY <1>2, <1>3 DEF RunnerLists, ListedOrLost
    <3> QED BY <1>2, <3>1 DEF ListedOrLost, WriteFails, FuzzerEndClosed
  <2> QED BY <1>2, <1>3, <2>1, <2>2 DEF RunnerLists, Disjoint
<1>8. JobPlaced'
  BY <1>2 DEF JobPlaced, JobPlacedAt, Busy
<1>9. ZombieNoticed' /\ FdsReadable'
  BY <1>2, <1>4 DEF ZombieNoticed, FdsReadable, Cleanup
<1>10. StatusNoticed'
  BY <1>2 DEF StatusNoticed
<1>11. SuspendGuard'
  BY <1>2 DEF SuspendGuard, AfterDispatch
<1> QED BY <1>5, <1>6, <1>7, <1>8, <1>9, <1>10, <1>11

\* A dispatch keeps the invariant.
LEMMA SubmitKeeps ==
  ASSUME IInv, Submit
  PROVE  IInv'
<1> USE DEF IInv, fuzzerVars, countVars, inputVars, pipeVars, runnerVars
<1>1. /\ ready \in Seq(Runners) /\ ready # <<>> /\ NoDuplicates(ready)
      /\ active \in Seq(Runners) /\ NoDuplicates(active)
      /\ jobs_sent \in Nat /\ jobs_received \in Nat /\ target_total \in Nat
      /\ jobs_sent < target_total
  BY ConstantsAssumption DEF Submit, CanDispatch, TypeOK, RunnerLists, target_total
<1> DEFINE n == jobs_sent + 1
<1>2. n \in Inputs /\ n \in Nat
  BY <1>1 DEF Inputs
<1>3. PICK r \in Runners :
      /\ r \in Elements(ready) /\ ready' = RemoveRunner(ready, r) /\ pc = "submit"
      /\ rpc[r] # "closed" /\ active' = Append(active, r)
      /\ to_runner' = [to_runner EXCEPT ![r] = Append(@, n)]
      /\ active_input' = [active_input EXCEPT ![r] = n]
      /\ jobs_sent' = n
      /\ UNCHANGED <<fuzzerVars, pending, pool, done, jobs_received, queued, freed,
                     reported, from_runner, runnerVars, kills>>
  BY <1>1, HeadElement DEF Submit, SendInput, WriteFails, n
<1> HIDE DEF n
<1>4. r \notin Elements(active) /\ r \notin Elements(done) /\ r \in Elements(pool)
  BY <1>3 DEF RunnerLists, Disjoint
<1>5. rpc[r] \in {"launched", "receive", "signal"}
  <2>1. rpc[r] # "reaped"
    BY <1>3, <1>4 DEF RunnerLists, Cleanup
  <2>2. rpc[r] \notin {"wait", "alert", "exited"}
    BY <1>3, <1>4 DEF JobPlaced, JobPlacedAt
  <2> QED BY <1>3, <2>1, <2>2 DEF TypeOK, RunnerPC
<1>6. to_runner[r] = <<>> /\ from_runner[r] = <<>>
  BY <1>3, <1>4, <1>5 DEF JobPlaced, JobPlacedAt, Busy
<1>7. ready' \in Seq(Runners) /\ NoDuplicates(ready') /\ Elements(ready') = Elements(ready) \ {r}
  BY <1>1, <1>3, RemoveElements
<1>8. /\ active' \in Seq(Runners) /\ NoDuplicates(active')
      /\ Elements(active') = Elements(active) \cup {r} /\ Len(active') = Len(active) + 1
  BY <1>1, <1>3, <1>4, AppendElements
<1>9. /\ to_runner' \in [Runners -> Seq(Inputs)] /\ to_runner'[r] = <<n>>
      /\ \A q \in Runners : q # r => to_runner'[q] = to_runner[q]
  <2>1. to_runner \in [Runners -> Seq(Inputs)] /\ Append(to_runner[r], n) = <<n>>
        /\ <<n>> \in Seq(Inputs)
    BY <1>2, <1>6 DEF TypeOK
  <2> QED BY <1>3, <2>1
<1>10. /\ active_input' \in [Runners -> Inputs \cup {NoInput}] /\ active_input'[r] = n
       /\ \A q \in Runners : q # r => active_input'[q] = active_input[q]
  BY <1>2, <1>3 DEF TypeOK
<1>11. Elements(active) \subseteq Runners /\ Elements(done) \subseteq Runners
  BY <1>1, ElementsIn DEF TypeOK
<1>12. TypeOK'
  BY <1>2, <1>3, <1>7, <1>8, <1>9, <1>10 DEF TypeOK
<1>13. InputsKnown'
  BY <1>2, <1>3, <1>8, <1>10, <1>11 DEF InputsKnown, Busy
<1>14. RunnerLists'
  <2>1. ListedOrLost'
    BY <1>3, <1>7, <1>8 DEF RunnerLists, ListedOrLost, WriteFails, FuzzerEndClosed
  <2> QED BY <1>3, <1>4, <1>7, <1>8, <2>1 DEF RunnerLists, Disjoint
<1>15. JobPlaced'
  <2>1. ASSUME NEW q \in Runners, q # r PROVE JobPlacedAt(q)'
    BY <1>3, <1>8, <1>9, <1>10, <2>1 DEF JobPlaced, JobPlacedAt, Busy
  <2>2. JobPlacedAt(r)'
    BY <1>3, <1>4, <1>5, <1>6, <1>8, <1>9, <1>10 DEF JobPlacedAt, Busy
  <2> QED BY <2>1, <2>2 DEF JobPlaced
<1>16. InputsFresh'
  <2>1. \A q \in Busy : q # r /\ active_input[q] <= jobs_sent /\ active_input[q] \in Nat
    BY <1>4, <1>11 DEF Busy, InputsFresh, InputsKnown, Inputs
  <2>2. Busy' = Busy \cup {r}
    BY <1>3, <1>8 DEF Busy
  <2>3. \A q \in Busy : active_input'[q] = active_input[q] /\ active_input[q] # n
    BY <1>1, <1>10, <1>11, <2>1 DEF Busy, n
  <2>4. n \notin freed \cup queued
    BY <1>1 DEF InputsFresh, n
  <2>5. InputsLive'
    BY <1>2, <1>3, <1>10, <2>2, <2>3, <2>4 DEF InputsFresh, InputsLive, Busy
  <2>6. \A q \in Busy' : active_input'[q] <= jobs_sent'
    BY <1>1, <1>3, <1>10, <2>1, <2>2, <2>3 DEF n
  <2>7. \A i \in freed' \cup queued' : i <= jobs_sent'
    <3>1. \A i \in freed \cup queued : i \in Nat /\ i <= jobs_sent
      BY DEF InputsFresh, TypeOK, Inputs
    <3> QED BY <1>1, <1>3, <3>1 DEF n
  <2> QED BY <2>5, <2>6, <2>7 DEF InputsFresh
<1>17. JobsCounted'
  <2>1. Len(active) \in Nat /\ Len(done) \in Nat
    BY DEF TypeOK
  <2>2. jobs_received + (Len(active') + Len(done)) = jobs_received + (Len(active) + Len(done)) + 1
    BY <1>1, <1>8, <2>1
  <2>3. jobs_sent' <= target_total
    BY <1>1, <1>3 DEF n
  <2>4. jobs_received + (Len(active) + Len(done)) <= jobs_sent
        /\ (Len(pool) = job_count => jobs_received + (Len(active) + Len(done)) = jobs_sent)
        /\ Len(pool) <= job_count
    BY DEF JobsCounted, Accounting
  <2>5. jobs_received' = jobs_received /\ done' = done /\ pool' = pool /\ jobs_sent' = jobs_sent + 1
    BY <1>3 DEF n
  <2>6. jobs_received + (Len(active') + Len(done)) <= jobs_sent + 1
        /\ (Len(pool) = job_count => jobs_received + (Len(active') + Len(done)) = jobs_sent + 1)
    BY <1>1, <2>1, <2>2, <2>4
  <2> QED BY <2>3, <2>4, <2>5, <2>6 DEF JobsCounted, Accounting
<1>18. ZombieNoticed' /\ FdsReadable' /\ SuspendGuard'
  BY <1>3 DEF ZombieNoticed, FdsReadable, SuspendGuard
<1>19. StatusNoticed'
  <2>1. ASSUME NEW i \in DOMAIN active'
        PROVE  active'[i] = r \/ \E j \in DOMAIN active : active[j] = active'[i]
    BY <1>8 DEF Elements
  <2> QED BY <1>3, <1>6, <2>1 DEF StatusNoticed
<1> QED BY <1>12, <1>13, <1>14, <1>15, <1>16, <1>17, <1>18, <1>19

\* Handling one result keeps the invariant.
LEMMA ProcessResultKeeps ==
  ASSUME IInv, ProcessResult
  PROVE  IInv'
<1> USE DEF IInv, fuzzerVars, inputVars, pipeVars, runnerVars
<1>1. /\ done \in Seq(Runners) /\ done # <<>> /\ NoDuplicates(done)
      /\ ready \in Seq(Runners) /\ NoDuplicates(ready)
      /\ jobs_sent \in Nat /\ jobs_received \in Nat
  BY DEF ProcessResult, TypeOK, RunnerLists
<1>2. PICK r \in Runners :
      /\ r = Head(done) /\ r \in Elements(done) /\ done' = RemoveRunner(done, r)
      /\ ready' = Append(ready, r) /\ pc = "results"
      /\ jobs_received' = jobs_received + 1
      /\ UNCHANGED <<fuzzerVars, pending, pool, active, jobs_sent, active_input,
                     to_runner, runnerVars, kills>>
  BY <1>1, HeadElement DEF ProcessResult
<1>3. r \notin Elements(active) /\ r \notin Elements(ready) /\ r \in Elements(pool)
  BY <1>2 DEF RunnerLists, Disjoint
<1> DEFINE k == active_input[r]
<1>4. k \in Inputs /\ k <= jobs_sent
  BY <1>2 DEF InputsKnown, InputsFresh, Busy
<1>5. \/ from_runner[r] = <<>> /\ UNCHANGED from_runner /\ UNCHANGED <<queued, freed, reported>>
      \/ /\ from_runner[r] # <<>> /\ from_runner' = [from_runner EXCEPT ![r] = Tail(@)]
         /\ \E s \in {"VALID", "CRASH", "TIMEOUT", "NO_STATE"} : Handle(k, s)
  <2>1. /\ Handle(k, AttemptReceiveStatus(r))
        /\ from_runner' = [from_runner EXCEPT ![r] = IF @ = <<>> THEN @ ELSE Tail(@)]
    BY <1>2 DEF ProcessResult
  <2>2. CASE from_runner[r] = <<>>
    BY <2>1, <2>2 DEF AttemptReceiveStatus, Handle, TypeOK
  <2>3. CASE from_runner[r] # <<>>
    <3>1. AttemptReceiveStatus(r) \in {"VALID", "CRASH", "TIMEOUT"}
      <4>1. PICK s \in Outcomes : from_runner[r] = <<[input |-> active_input[r], state |-> s]>>
        BY <2>3 DEF JobPlaced, JobPlacedAt
      <4>2. AttemptReceiveStatus(r) = s
        BY <2>3, <4>1 DEF AttemptReceiveStatus
      <4> QED BY <4>2 DEF Outcomes
    <3>2. from_runner' = [from_runner EXCEPT ![r] = Tail(@)]
      BY <2>1, <2>3 DEF TypeOK
    <3> QED BY <2>1, <2>3, <3>1, <3>2
  <2> QED BY <2>2, <2>3
<1>6. /\ queued' \subseteq queued \cup {k} /\ freed' \subseteq freed \cup {k}
      /\ reported' \subseteq reported \cup {k}
      /\ queued' = queued \/ freed' = freed
  BY <1>5 DEF Handle
<1>7. /\ from_runner' \in [Runners -> Seq(Status)] /\ from_runner'[r] = <<>>
      /\ \A q \in Runners : q # r => from_runner'[q] = from_runner[q]
  <2>1. from_runner \in [Runners -> Seq(Status)]
    BY DEF TypeOK
  <2>2. from_runner[r] # <<>> => \E s : from_runner[r] = <<s>>
    BY DEF JobPlaced, JobPlacedAt
  <2>3. from_runner[r] # <<>> => Tail(from_runner[r]) = <<>>
    <3>1. SUFFICES ASSUME from_runner[r] # <<>> PROVE Tail(from_runner[r]) = <<>>
      OBVIOUS
    <3>2. PICK s : from_runner[r] = <<s>>
      BY <2>2, <3>1
    <3>3. Tail(<<s>>) = <<>>
      OBVIOUS
    <3> QED BY <3>2, <3>3
  <2>4. <<>> \in Seq(Status)
    OBVIOUS
  <2> QED BY <1>5, <2>1, <2>3, <2>4
<1> HIDE DEF k
<1>8. done' \in Seq(Runners) /\ NoDuplicates(done') /\ Elements(done') = Elements(done) \ {r}
      /\ Len(done') = Len(done) - 1
  BY <1>1, <1>2, RemoveElements
<1>9. ready' \in Seq(Runners) /\ NoDuplicates(ready') /\ Elements(ready') = Elements(ready) \cup {r}
  BY <1>1, <1>2, <1>3, AppendElements
<1>10. Elements(active) \subseteq Runners /\ Elements(done) \subseteq Runners
  BY <1>1, ElementsIn DEF TypeOK
<1>11. Busy' = Busy \ {r} /\ Busy \subseteq Runners /\ r \in Busy
  BY <1>2, <1>3, <1>8, <1>10 DEF Busy
<1>12. TypeOK'
  <2>1. queued' \subseteq Inputs /\ freed' \subseteq Inputs /\ reported' \subseteq Inputs
    BY <1>4, <1>6 DEF TypeOK
  <2>2. jobs_received' \in Nat
    BY <1>1, <1>2
  <2> QED BY <1>2, <1>7, <1>8, <1>9, <2>1, <2>2 DEF TypeOK
<1>13. InputsKnown'
  BY <1>2, <1>11 DEF InputsKnown
<1>14. RunnerLists'
  <2>1. ListedOrLost'
    BY <1>2, <1>8, <1>9 DEF RunnerLists, ListedOrLost, WriteFails, FuzzerEndClosed
  <2> QED BY <1>2, <1>3, <1>8, <1>9, <2>1 DEF RunnerLists, Disjoint
<1>15. JobPlaced'
  <2>1. ASSUME NEW q \in Runners, q # r PROVE JobPlacedAt(q)'
    BY <1>2, <1>7, <1>8, <1>11, <2>1 DEF JobPlaced, JobPlacedAt
  <2>2. JobPlacedAt(r)'
    BY <1>2, <1>3, <1>7, <1>8, <1>11 DEF JobPlaced, JobPlacedAt
  <2> QED BY <2>1, <2>2 DEF JobPlaced
<1>16. InputsFresh'
  <2>1. \A q \in Busy' : active_input[q] \in Inputs \ (freed \cup queued) /\ active_input[q] # k
    BY <1>11 DEF InputsFresh, InputsLive, Busy, k
  <2>2. k \notin freed \cup queued
    BY <1>11 DEF InputsFresh, InputsLive, Busy, k
  <2>3. InputsLive'
    BY <1>2, <1>6, <1>11, <2>1, <2>2 DEF InputsFresh, InputsLive, Busy
  <2> QED BY <1>2, <1>4, <1>6, <1>11, <2>3 DEF InputsFresh
<1>17. JobsCounted'
  <2>1. Len(active) \in Nat /\ Len(done) \in Nat
    BY <1>1 DEF TypeOK
  <2>2. jobs_received' + (Len(active) + Len(done')) = jobs_received + (Len(active) + Len(done))
    <3>1. jobs_received' = jobs_received + 1 /\ Len(done') = Len(done) - 1
      BY <1>2, <1>8
    <3> QED BY <1>1, <2>1, <3>1
  <2> QED BY <1>2, <2>2 DEF JobsCounted, Accounting
<1>18. ZombieNoticed' /\ FdsReadable' /\ SuspendGuard'
  BY <1>2 DEF ZombieNoticed, FdsReadable, SuspendGuard
<1>19. StatusNoticed'
  <2>1. \A i \in DOMAIN active : active[i] \in Runners /\ active[i] # r
    BY <1>3 DEF Elements, TypeOK
  <2> QED BY <1>2, <1>7, <2>1 DEF StatusNoticed
<1> QED BY <1>12, <1>13, <1>14, <1>15, <1>16, <1>17, <1>18, <1>19

-----------------------------------------------------------------------------
\* A step that changes nothing keeps the invariant.
LEMMA Stutter ==
  ASSUME IInv, UNCHANGED vars
  PROVE  IInv'
<1> USE DEF IInv, vars, fuzzerVars, listVars, countVars, inputVars, pipeVars, runnerVars
<1>1. Control
  BY DEF Control, TypeOK
<1>2. ZombieNoticed' /\ StatusNoticed' /\ FdsReadable' /\ SuspendGuard'
  BY DEF ZombieNoticed, StatusNoticed, FdsReadable, Readable, SuspendGuard
<1> QED BY <1>1, <1>2, ControlStep

\* Every step keeps the invariant.
LEMMA Inductive == IInv /\ [Next]_vars => IInv'
<1> SUFFICES ASSUME IInv, [Next]_vars PROVE IInv'
  OBVIOUS
<1>1. CASE FuzzerStep
  BY <1>1, LoopControl, ReapZombieKeeps, CollectKeeps, ProcessResultKeeps, SubmitKeeps,
     SubmitFailsKeeps, CleanupStep DEF FuzzerStep
<1>2. ASSUME NEW r \in Runners, RunnerStep(r) PROVE IInv'
  BY <1>2, RunnerKeeps
<1>3. CASE Terminate \/ \E r \in Runners : KillRunner(r)
  BY <1>3, EnvironmentStep
<1>4. CASE UNCHANGED vars
  BY <1>4, Stutter
<1> QED BY <1>1, <1>2, <1>3, <1>4 DEF Next, Exited

(* IInv holds in every state of every behaviour of the program.            *)
THEOREM Invariance == Spec => []IInv
<1> QED BY Initial, Inductive, PTL DEF Spec

-----------------------------------------------------------------------------
(* Every variable keeps its type: what runner.c and fuzzer.c store in the  *)
(* lists, the pipes and the records of a runner is of the right kind.      *)
THEOREM TypeCorrect == Spec => []TypeOK
<1>1. IInv => TypeOK
  BY DEF IInv
<1> QED BY <1>1, Invariance, PTL

(* The three lists of struct runners partition a part of the pool and never *)
(* hold a runner that runners_reap has freed.                              *)
THEOREM ListsCorrect == Spec => []RunnerLists
<1>1. IInv => RunnerLists
  BY DEF IInv
<1> QED BY <1>1, Invariance, PTL

(* No INPUT is freed or queued while a job with it is outstanding.         *)
THEOREM InputsStayLive == Spec => []InputsLive
<1>1. IInv => InputsLive
  BY DEF IInv, InputsFresh
<1> QED BY <1>1, Invariance, PTL

(* jobs_sent and jobs_received agree with the lists.                       *)
THEOREM JobsAccounted == Spec => []Accounting
<1>1. IInv => Accounting
  BY DEF IInv, JobsCounted
<1> QED BY <1>1, Invariance, PTL

(* No dead runner of the pool escapes the next runners_reap.               *)
THEOREM ZombiesAreNoticed == Spec => []ZombieNoticed
<1>1. IInv => ZombieNoticed
  BY DEF IInv
<1> QED BY <1>1, Invariance, PTL

(* A status packet in a pipe is about the input its runner has on record.  *)
THEOREM ResultsAreAttributed == Spec => []ResultMatchesInput
<1>1. ASSUME IInv PROVE ResultMatchesInput
  <2> SUFFICES ASSUME NEW r \in Elements(pool), from_runner[r] # <<>>
               PROVE  /\ Len(from_runner[r]) = 1
                      /\ from_runner[r][1].input = active_input[r]
                      /\ r \in Elements(active) \cup Elements(done)
    BY DEF ResultMatchesInput
  <2>1. r \in Runners
    BY <1>1, ElementsIn DEF IInv, TypeOK
  <2>2. PICK s \in Outcomes : from_runner[r] = <<[input |-> active_input[r], state |-> s]>>
    BY <1>1, <2>1 DEF IInv, JobPlaced, JobPlacedAt
  <2>3. r \in Busy
    BY <1>1, <2>1 DEF IInv, JobPlaced, JobPlacedAt
  <2> QED BY <2>2, <2>3 DEF Busy
<1> QED BY <1>1, Invariance, PTL

(* A runner in ready runs no target, and a live one has empty pipes.       *)
THEOREM ReadyRunnersIdle == Spec => []ReadyIsIdle
<1>1. ASSUME IInv PROVE ReadyIsIdle
  <2> SUFFICES ASSUME NEW r \in Elements(ready)
               PROVE  /\ rpc[r] \notin {"wait", "alert", "exited"}
                      /\ rpc[r] \in {"closed", "reaped"}
                           \/ (to_runner[r] = <<>> /\ from_runner[r] = <<>>)
    BY DEF ReadyIsIdle
  <2>1. r \in Runners /\ r \in Elements(pool) /\ r \notin Busy
    BY <1>1, ElementsIn DEF IInv, TypeOK, RunnerLists, Disjoint, Busy
  <2> QED BY <1>1, <2>1 DEF IInv, JobPlaced, JobPlacedAt, Busy
<1> QED BY <1>1, Invariance, PTL

(* sigsuspend never sleeps on a result whose signal has been consumed.     *)
THEOREM WakeupsAreNotLost == Spec => []NoLostWakeup
<1>1. ASSUME IInv PROVE NoLostWakeup
  <2> SUFFICES ASSUME pc = "suspend", pending = {}
               PROVE  active # <<>> /\ \A r \in Elements(active) : OwesSignal(r)
    BY DEF NoLostWakeup
  <2>1. ~sigchld_seen /\ ~sigusr1_seen /\ active # <<>>
    BY <1>1 DEF IInv, SuspendGuard
  <2>2. ASSUME NEW r \in Elements(active) PROVE OwesSignal(r)
    <3>1. r \in Runners /\ r \in Elements(pool)
      BY <1>1, ElementsIn DEF IInv, TypeOK, RunnerLists
    <3>2. PICK i \in DOMAIN pool : pool[i] = r
      BY <3>1 DEF Elements
    <3>3. rpc[r] \notin Zombie
      BY <1>1, <2>1, <3>2 DEF IInv, ZombieNoticed, Cleanup
    <3>4. rpc[r] # "reaped"
      BY <1>1, <3>1 DEF IInv, RunnerLists, Cleanup
    <3>5. PICK j \in DOMAIN active : active[j] = r
      BY DEF Elements
    <3>6. from_runner[r] # <<>> => rpc[r] = "signal"
      BY <1>1, <2>1, <3>5 DEF IInv, StatusNoticed
    <3>7. \/ to_runner[r] # <<>> /\ rpc[r] \in {"launched", "receive", "signal", "closed", "reaped"}
          \/ from_runner[r] # <<>>
          \/ rpc[r] \in {"wait", "alert", "exited", "closed", "reaped"}
      BY <1>1, <3>1 DEF IInv, JobPlaced, JobPlacedAt
    <3> QED BY <3>3, <3>4, <3>6, <3>7 DEF OwesSignal, Zombie
  <2> QED BY <2>1, <2>2
<1> QED BY <1>1, Invariance, PTL

-----------------------------------------------------------------------------
(***************************************************************************)
(* The undisturbed campaign: no signal from outside, none left behind.     *)
(***************************************************************************)
LEMMA CalmInit ==
  ASSUME Undisturbed, Init
  PROVE  Calm
<1>1. IInv
  BY Initial
<1>2. NoInputLost
  BY DEF Init, NoInputLost
<1>3. Len(pool) = job_count
  BY ConstantsAssumption DEF Init
<1>4. NothingDies
  BY <1>3 DEF Init, NothingDies, Cleanup, Zombie
<1> QED BY <1>1, <1>2, <1>4 DEF Calm

\* A step that leaves the inputs of the busy runners alone loses none.
LEMMA NoneLost ==
  ASSUME NoInputLost, UNCHANGED <<active, done, jobs_sent, active_input, queued, freed>>
  PROVE  NoInputLost'
BY DEF NoInputLost, Busy

\* Nor does one that moves a busy runner between active and done.
LEMMA SameBusy ==
  ASSUME NoInputLost, Busy' = Busy, UNCHANGED <<jobs_sent, active_input, queued, freed>>
  PROVE  NoInputLost'
<1> SUFFICES ASSUME NEW k \in 1 .. jobs_sent
             PROVE  k \in freed \cup queued \/ \E r \in Busy' : active_input[r] = k
  BY DEF NoInputLost
<1> QED BY DEF NoInputLost

\* Turns of the loop of run_fuzzer that move no runner from list to list.
LEMMA CalmControl ==
  ASSUME Calm,
         \/ HandleWhileStarting \/ EnterLoop \/ LeaveLoop \/ Iterate
         \/ ReapSkip \/ ReapEnd \/ CheckNothing \/ CheckIfJobsDone
         \/ CollectEnd \/ ResultsEnd \/ SubmitEnd \/ Wake
  PROVE  NoInputLost' /\ NothingDies'
<1>1. /\ UNCHANGED <<pool, active, done, jobs_sent, jobs_received, active_input, queued,
                     freed, rpc, term>>
  BY DEF HandleWhileStarting, EnterLoop, LeaveLoop, Iterate, ReapSkip, ReapEnd, CheckNothing,
     CheckIfJobsDone, CollectEnd, ResultsEnd, SubmitEnd, Wake, listVars, countVars, inputVars,
     runnerVars
<1>2. pending' \subseteq pending
  BY DEF HandleWhileStarting, EnterLoop, LeaveLoop, Iterate, ReapSkip, ReapEnd, CheckNothing,
     CheckIfJobsDone, CollectEnd, ResultsEnd, SubmitEnd, Wake, RunHandlers
<1>3. pc \notin Cleanup /\ pc # "reap"
  BY DEF HandleWhileStarting, EnterLoop, LeaveLoop, Iterate, ReapSkip, ReapEnd, CheckNothing,
     CheckIfJobsDone, CollectEnd, ResultsEnd, SubmitEnd, Wake, Cleanup, Calm, NothingDies
<1>4. /\ ~shutdown_req /\ ~sigchld_seen /\ "CHLD" \notin pending /\ "TERM" \notin pending
      /\ jobs_received \in Nat /\ target_total \in Nat
  BY <1>3, ConstantsAssumption DEF Calm, NothingDies, IInv, TypeOK, target_total
<1>5. /\ ~shutdown_req' /\ ~sigchld_seen'
      /\ pc' # "reap" /\ (pc' \in Cleanup => jobs_received >= target_total)
  <2>1. CASE LeaveLoop \/ SubmitEnd
    BY <1>4, <2>1 DEF LeaveLoop, SubmitEnd, AfterDispatch, LoopEnds, Cleanup
  <2>2. CASE HandleWhileStarting \/ Wake
    BY <1>3, <1>4, <2>2 DEF HandleWhileStarting, Wake, RunHandlers, Cleanup
  <2>3. CASE \/ EnterLoop \/ Iterate \/ CheckNothing \/ CheckIfJobsDone \/ CollectEnd
             \/ ResultsEnd
    BY <1>4, <2>3 DEF EnterLoop, Iterate, CheckNothing, CheckIfJobsDone, CollectEnd, ResultsEnd,
       Cleanup
  <2>4. ~ReapSkip /\ ~ReapEnd
    BY <1>3 DEF ReapSkip, ReapEnd
  <2> QED BY <2>1, <2>2, <2>3, <2>4
<1>6. NothingDies'
  BY <1>1, <1>2, <1>3, <1>5 DEF Calm, NothingDies
<1> QED BY <1>1, <1>6, NoneLost DEF Calm

\* While no runner is dead, every runner can be written to and none reads end of file.
LEMMA NoWriteFails ==
  ASSUME NothingDies, pc \notin Cleanup, NEW r \in Runners
  PROVE  ~WriteFails(r) /\ ~FuzzerEndClosed(r)
<1>1. \A q \in Runners : rpc[q] \notin {"exited", "closed", "reaped"}
  BY DEF NothingDies, Zombie
<1>2. r > 0 => r - 1 \in Runners
  BY ConstantsAssumption DEF Runners
<1> QED BY <1>1, <1>2 DEF WriteFails, FuzzerEndClosed

\* The loops that move runners.
LEMMA CalmLists ==
  ASSUME Calm, ReapZombie \/ Collect \/ ProcessResult \/ Submit \/ SubmitFails
  PROVE  NoInputLost' /\ NothingDies'
<1>1. /\ UNCHANGED <<pool, pending, shutdown_req, sigchld_seen, rpc, term>>
      /\ pc' = pc /\ pc \notin Cleanup /\ pc # "reap"
      /\ Collect \/ ProcessResult \/ Submit
  <2>1. ~ReapZombie
    BY DEF Calm, NothingDies, ReapZombie
  <2>2. ~SubmitFails
    <3>1. ASSUME SubmitFails PROVE FALSE
      <4>1. Head(ready) \in Runners
        BY <3>1, HeadElement DEF SubmitFails, CanDispatch, Calm, IInv, TypeOK
      <4>2. WriteFails(Head(ready)) /\ pc \notin Cleanup
        BY <3>1 DEF SubmitFails, Cleanup
      <4> QED BY <4>1, <4>2, NoWriteFails DEF Calm
    <3> QED BY <3>1
  <2>3. Collect \/ ProcessResult \/ Submit
    BY <2>1, <2>2
  <2> QED BY <2>3 DEF Collect, ProcessResult, Submit, fuzzerVars, listVars, runnerVars, Cleanup
<1>2. NothingDies'
  BY <1>1 DEF Calm, NothingDies
<1>3. /\ active \in Seq(Runners) /\ NoDuplicates(active) /\ done \in Seq(Runners)
      /\ NoDuplicates(done) /\ ready \in Seq(Runners) /\ NoDuplicates(ready)
      /\ Disjoint(ready, active) /\ Disjoint(ready, done)
      /\ jobs_sent \in Nat
  BY DEF Calm, IInv, TypeOK, RunnerLists
<1>4. CASE Collect
  <2>1. UNCHANGED <<jobs_sent, active_input, queued, freed>>
    BY <1>4 DEF Collect, countVars, inputVars
  <2>2. CASE UNCHANGED <<active, done>>
    <3>1. UNCHANGED <<active, done, jobs_sent, active_input, queued, freed>>
      BY <2>1, <2>2
    <3> QED BY <1>2, <3>1, NoneLost DEF Calm
  <2>3. CASE ~UNCHANGED <<active, done>>
    <3>1. PICK r : /\ r \in Runners /\ r \in Elements(active)
                   /\ active' = RemoveRunner(active, r) /\ done' = Append(done, r)
      BY <1>3, <1>4, <2>3 DEF Collect, Elements
    <3>2. Elements(active') = Elements(active) \ {r}
      BY <1>3, <3>1, RemoveElements
    <3>3. Elements(done') = Elements(done) \cup {r}
      BY <1>3, <3>1, AppendElements
    <3>4. Busy' = Busy
      BY <3>1, <3>2, <3>3 DEF Busy
    <3> QED BY <1>2, <2>1, <3>4, SameBusy DEF Calm
  <2> QED BY <2>2, <2>3
<1>5. CASE ProcessResult
  <2>1. PICK r \in Runners :
           /\ r = Head(done) /\ r \in Elements(done) /\ done' = RemoveRunner(done, r)
           /\ Handle(active_input[r], AttemptReceiveStatus(r))
           /\ UNCHANGED <<active, jobs_sent, active_input>>
    BY <1>3, <1>5, HeadElement DEF ProcessResult
  <2>2. from_runner[r] # <<>> /\ AttemptReceiveStatus(r) \in Outcomes
    <3>1. rpc[r] \notin {"closed", "reaped"}
      BY <1>1 DEF Calm, NothingDies, Zombie
    <3>2. from_runner[r] # <<>>
      BY <2>1, <3>1 DEF Calm, IInv, JobPlaced, JobPlacedAt
    <3>3. PICK s \in Outcomes : from_runner[r] = <<[input |-> active_input[r], state |-> s]>>
      BY <3>2 DEF Calm, IInv, JobPlaced, JobPlacedAt
    <3>4. Head(from_runner[r]).state = s
      BY <3>3
    <3> QED BY <3>2, <3>4 DEF AttemptReceiveStatus
  <2>3. freed' \cup queued' = freed \cup queued \cup {active_input[r]}
    BY <2>1, <2>2 DEF Handle, Outcomes
  <2>4. Busy \subseteq Busy' \cup {r}
    <3>1. Elements(done') = Elements(done) \ {r}
      BY <1>3, <2>1, RemoveElements
    <3> QED BY <2>1, <3>1 DEF Busy
  <2> SUFFICES ASSUME NEW k \in 1 .. jobs_sent
               PROVE  k \in freed' \cup queued' \/ \E q \in Busy' : active_input[q] = k
    BY <1>2, <2>1 DEF NoInputLost
  <2>5. k \in freed \cup queued \/ \E q \in Busy : active_input[q] = k
    BY DEF Calm, NoInputLost
  <2> QED BY <2>3, <2>4, <2>5
<1>6. CASE Submit
  <2>1. PICK r \in Runners :
           /\ r \in Elements(ready) /\ active' = Append(active, r) /\ SendInput(r, jobs_sent + 1)
           /\ jobs_sent' = jobs_sent + 1 /\ UNCHANGED <<done, queued, freed>>
    BY <1>3, <1>6, HeadElement DEF Submit, CanDispatch
  <2>2. r \notin Busy /\ Busy' = Busy \cup {r}
    <3>1. Elements(active') = Elements(active) \cup {r}
      BY <1>3, <2>1, AppendElements
    <3> QED BY <1>3, <2>1, <3>1 DEF Busy, Disjoint
  <2>3. /\ active_input'[r] = jobs_sent + 1
        /\ \A q \in Busy : active_input'[q] = active_input[q]
    <3>1. active_input \in [Runners -> Inputs \cup {NoInput}] /\ Busy \subseteq Runners
      BY <1>3, ElementsIn DEF Calm, IInv, TypeOK, Busy
    <3> QED BY <2>1, <2>2, <3>1 DEF SendInput
  <2>4. \A k \in 1 .. jobs_sent' : k = jobs_sent + 1 \/ k \in 1 .. jobs_sent
    BY <1>3, <2>1
  <2> SUFFICES ASSUME NEW k \in 1 .. jobs_sent'
               PROVE  k \in freed \cup queued \/ \E q \in Busy' : active_input'[q] = k
    BY <1>2, <2>1 DEF NoInputLost
  <2>5. CASE k = jobs_sent + 1
    BY <2>2, <2>3, <2>5
  <2>6. CASE k \in 1 .. jobs_sent
    <3>1. k \in freed \cup queued \/ \E q \in Busy : active_input[q] = k
      BY <2>6 DEF Calm, NoInputLost
    <3> QED BY <2>2, <2>3, <3>1
  <2> QED BY <2>4, <2>5, <2>6
<1> QED BY <1>1, <1>2, <1>4, <1>5, <1>6

\* A runner that nothing disturbs keeps going round its loop.
LEMMA CalmRunner ==
  ASSUME Undisturbed, Calm, NEW r \in Runners, RunnerStep(r)
  PROVE  NoInputLost' /\ NothingDies'
<1>1. /\ UNCHANGED <<pc, pool, active, done, shutdown_req, sigchld_seen, jobs_sent,
                     jobs_received, active_input, queued, freed>>
      /\ pending' \subseteq pending \cup {"CHLD", "USR1"}
  BY DEF RunnerStep, RunnerCode, InstallHandlers, ReceiveInput, TargetEnds, WriteStatus,
     AlertFuzzer, ExitIdle, ExitBusy, TargetGone, runnerFrame, fuzzerVars, listVars, countVars,
     inputVars
<1>2. NoInputLost'
  BY <1>1, NoneLost DEF Calm
<1>3. CASE pc \in Cleanup
  <2>1. "TERM" \notin pending' /\ pc' = pc /\ UNCHANGED <<pool, jobs_received>>
    BY <1>1 DEF Calm, NothingDies
  <2>2. NothingDies'
    BY <1>3, <2>1 DEF Calm, NothingDies
  <2> QED BY <1>2, <2>2
<1>4. CASE pc \notin Cleanup
  <2>1. /\ \A q \in Runners : term[q] = "none" /\ rpc[q] \notin Zombie \cup {"reaped"}
        /\ "CHLD" \notin pending /\ ~StaleSignals
        /\ rpc \in [Runners -> RunnerPC]
    BY <1>4 DEF Calm, NothingDies, Undisturbed, IInv, TypeOK
  <2>2. ~ExitIdle(r) /\ ~ExitBusy(r) /\ ~TargetGone(r)
    <3>1. ~FuzzerEndClosed(r)
      BY <1>4, NoWriteFails DEF Calm
    <3> QED BY <2>1, <3>1 DEF ExitIdle, ToldToStop, ReadsEndOfFile, EndOfInput, SignalInterrupts,
               ExitBusy, TargetGone, StaleSignal, Zombie
  <2>3. /\ term' = term /\ pending' \subseteq pending \cup {"USR1"}
        /\ \E s \in {"receive", "wait", "alert", "signal"} : rpc' = [rpc EXCEPT ![r] = s]
    BY <2>1, <2>2 DEF RunnerStep, RunnerCode, InstallHandlers, ReceiveInput, TargetEnds,
       WriteStatus, AlertFuzzer
  <2>4. \A q \in Runners : rpc'[q] \notin Zombie \cup {"reaped"}
    BY <2>1, <2>3 DEF Zombie
  <2>5. /\ UNCHANGED <<pc, pool, jobs_received, shutdown_req, sigchld_seen, term>>
        /\ "TERM" \notin pending' /\ "CHLD" \notin pending'
    BY <1>1, <2>1, <2>3 DEF Calm, NothingDies
  <2>6. NothingDies'
    BY <1>4, <2>1, <2>4, <2>5 DEF Calm, NothingDies
  <2> QED BY <1>2, <2>6
<1> QED BY <1>2, <1>3, <1>4

LEMMA CalmNext == Undisturbed /\ Calm /\ [Next]_vars => Calm'
<1> SUFFICES ASSUME Undisturbed, Calm, [Next]_vars PROVE Calm'
  OBVIOUS
<1>1. IInv'
  BY Inductive DEF Calm
<1>2. NoInputLost' /\ NothingDies'
  <2>1. CASE FuzzerStep
    <3>1. CASE FiniKill \/ FiniWait \/ FiniEnd
      <4>1. /\ UNCHANGED <<pool, active, done, pending, jobs_sent, jobs_received,
                           active_input, queued, freed>>
            /\ pc \in Cleanup /\ pc' \in Cleanup
        BY <3>1 DEF FiniKill, FiniWait, FiniEnd, listVars, countVars, inputVars, Cleanup
      <4>2. NothingDies'
        BY <4>1 DEF Calm, NothingDies, Cleanup
      <4> QED BY <4>1, <4>2, NoneLost DEF Calm
    <3> QED BY <2>1, <3>1, CalmControl, CalmLists DEF FuzzerStep
  <2>2. ASSUME NEW r \in Runners, RunnerStep(r) PROVE NoInputLost' /\ NothingDies'
    BY <2>2, CalmRunner
  <2>3. ~Terminate /\ \A r \in Runners : ~KillRunner(r)
    BY DEF Undisturbed, Terminate, KillRunner, Calm, IInv, TypeOK
  <2>4. CASE UNCHANGED vars
    <3>1. UNCHANGED <<pc, pool, active, done, pending, shutdown_req, sigchld_seen, jobs_sent,
                      jobs_received, active_input, queued, freed, rpc, term>>
      BY <2>4 DEF vars, fuzzerVars, listVars, countVars, inputVars, runnerVars
    <3> QED BY <3>1, NoneLost DEF Calm, NothingDies
  <2> QED BY <2>1, <2>2, <2>3, <2>4 DEF Next, Exited
<1> QED BY <1>1, <1>2 DEF Calm

(* When nothing disturbs the campaign, every dispatched input has been freed,   *)
(* or is in the queue that input_queue_fini frees, when the program exits.      *)
THEOREM InputsAreCleanedUp ==
  ASSUME Undisturbed
  PROVE  Spec => []InputsCleanedUp
<1>1. ASSUME Calm PROVE InputsCleanedUp
  <2> SUFFICES ASSUME pc = "exited" PROVE 1 .. jobs_sent \subseteq freed \cup queued
    BY DEF InputsCleanedUp
  <2>1. /\ jobs_received >= target_total /\ Len(pool) = job_count
        /\ jobs_received + (Len(active) + Len(done)) = jobs_sent /\ jobs_sent <= target_total
        /\ jobs_received \in Nat /\ target_total \in Nat /\ jobs_sent \in Nat
        /\ active \in Seq(Runners) /\ done \in Seq(Runners)
    BY <1>1, ConstantsAssumption DEF Calm, NothingDies, IInv, JobsCounted, Accounting, Cleanup,
       TypeOK, target_total
  <2>2. Len(active) = 0 /\ Len(done) = 0
    BY <2>1
  <2>3. Busy = {}
    BY <2>1, <2>2 DEF Busy, Elements
  <2> QED BY <1>1, <2>3 DEF Calm, NoInputLost
<1>2. Init => Calm
  BY CalmInit
<1>3. Calm /\ [Next]_vars => Calm'
  BY CalmNext
<1> QED BY <1>1, <1>2, <1>3, PTL DEF Spec

=============================================================================
