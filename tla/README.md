# Verification of the coverage-guided fuzzer

TLA+ models of the fuzzer in `src/fuzzer`, the TLC runs that check them and the theorems that
TLAPS proves about them.  Line numbers are those of the repository; `fuzzer.c` stands for
`src/fuzzer/src/fuzzer.c`, and so on.

## 1. The system

A campaign (`run_fuzzer`, fuzzer.c) forks `-j` *runner jobs*.  Each runner is connected to the
fuzzer by two pipes (inputs out, status packets back) and shares one coverage bitmap with it.  A
runner waits for an input, forks and executes the target on it under an alarm, waits for the
target, writes a status packet and sends SIGUSR1 to the fuzzer.  The fuzzer sleeps in `sigsuspend`,
and when woken reaps dead runners (SIGCHLD), collects readable status pipes (SIGUSR1), ranks the
coverage of VALID results, queues the input or frees it, and dispatches the next inputs to the
ready runners, until `input_count + num_seeds` results have been received or a terminating signal
has arrived.

| component | state | operations | interacts by | what makes it correct |
|---|---|---|---|---|
| main loop (fuzzer.c) | `shutdown_req`, `sigchld_seen`, `sigusr1_seen`, `jobs_sent`, `jobs_received` | `run_fuzzer`, its signal handler | calls everything; blocked signals | no lost wakeup; every job accounted for; ends when done or told to stop |
| runner pool (runner.c, `struct runners`) | arrays `pool`, `ready`, `active`, `done` | submit, check, process, reap, fini | pipes, `select`, `waitpid` | every runner in at most one list; no reaped runner in any; results credited to the right input |
| runner process (runner.c, child of `runner_launch`) | signal flags, current target, alarm | receive, execute, alert, exit | pipes, signals, fork/exec | truthful status; exits on a terminating signal; kills a hanging target |
| coverage map (coverage_map.c) | `bitmap`, chained `hashset` | init, add, fini | called with the shared bitmap | new edge HIGH, new path LOW, else NO, whatever the hash |
| input queue (input_queue.c) | two linked lists, `deq_cycle_ind` | enqueue high/low, dequeue, fini | owns the inputs | pointers sound, no duplicate string, nine-to-one, no starvation, each input freed once |
| input (input.c) | string, length, mutator state | make, free, step | passed by reference | freed exactly once, never used after |
| mutator (mutator.c) | none (state in the input) | 37 mutations out of eleven strategies | called by the loop | lengths stay within the buffer, result is a string |
| command line (main.c, utils.c, global.c) | globals | parse | sets constants | every option validated |
| target runtime (programs/coverage.c) | shared bitmap | guard init, guard | writes shared memory | bit of an edge on iff executed |
| fzl log, Makefiles, tests, sample targets | - | - | - | not part of the logic |

**Hard behaviours.**  Signals that are blocked, pending, coalesced or delivered between two system
calls; descriptor numbers that are closed twice; a runner that dies idle, busy, or just after reporting; a `select` result used while the
list it is about is edited; shutdown while jobs are out; a queue that rotates for ever; state
shared with targets that crash; an alarm that races the end of its target; buffers mutated in
place.  `PROJECT.json` lists 40 such hazards at their lines with the properties that cover them.
Three have none: a failed launch (runner.c:486), the seed budget (fuzzer.c:69) and the inputs left
out when the loop ends early (runner.c:104), see section 5.

## 2. The modules

| module | models | state and actions |
|---|---|---|
| `Fuzzer` | fuzzer.c and runner.c: the loop, the pool, the runner processes, pipes, signals | below |
| `FuzzerInv` | - | the inductive invariants of `Fuzzer`: `IInv`, and `Calm` for the undisturbed campaign |
| `FuzzerProofs` | - | theorems about `Fuzzer` |
| `Campaign` | fuzzer.h, runner.h | abstract: inputs handed out, verdicts, outcomes; `Send`, `Judge`, `Receive`, `Die`, `Lose` |
| `CampaignProofs` | - | `Fuzzer` implements `Campaign` |
| `RunnerProcess` | runner.c:212-456: the child of `runner_launch` and its target | below |
| `RunnerProofs` | - | theorems about `RunnerProcess` |
| `CoverageSpec` | coverage_map.h | abstract: branches and behaviours shown so far, the rank of the last |
| `CoverageMap` | coverage_map.c | bitmap, one chain per bucket; `Add`, `AddFails` |
| `CoverageFeedback` | `CoverageMap` composed with the shared bitmaps (runner.c:65-85, programs/coverage.c, fuzzer.c:107-130) | `Execute`, `TracePcGuard`, `Finish`, `HandleValid`, `HandleOther` |
| `CoverageProofs` | - | theorems about `CoverageFeedback` |
| `InputQueueSpec` | input_queue.h | abstract: two sequences and a turn |
| `InputQueue` | input_queue.c | heap of nodes, `head`/`tail`/`len`; `Enqueue`, `Dequeue`, `Fini` |
| `InputQueueProofs` | - | theorems about `InputQueue`, and that it implements `InputQueueSpec` |
| `MutationSpec` | Mutation.md | abstract: the character at each position of a mutated string |
| `Mutator` | mutator.c, input.c | one input, the buffer of `mutate`, the result; an action per strategy, `SendItself`, `Requeue` |
| `MutatorProofs` | - | theorems about `Mutator`: strings, buffers and the rounds of the loops |
| `MutationProofs` | - | `Mutator` does what `MutationSpec` says |
| `Induction` | - | induction and recursion over naturals in the form these proofs use |
| `MCFuzzer`, `MCRunner`, `MCCoverage`, `MCInputQueue`, `MCMutator` | - | instances for TLC |

Each module carries, in front of a definition that has one, the *mutants* of it: forms a plausible
bug would give it.  They are not part of any specification; replacing the definition by its mutant
must make TLC report the property that `PROJECT.json` names.

### Fuzzer

The fuzzer's program counter `pc` names the places between two system calls (or between two turns
of a loop) of `run_fuzzer`: `startup` (handlers installed, nothing blocked yet), `top`, `reap`,
`check`, `collect`, `results`, `submit`, `suspend`, `fini`, `finiwait`, `exited`.  A runner's `rpc`
does the same for the child: `launched` (forked, the fuzzer's handlers still installed),
`receive` (in `pselect`), `wait` (in `sigsuspend`, target running), `alert` and `signal` (before the
packet and before the SIGUSR1 of `runner_alert_fuzzer`), then the zombie states: `exited` while a
killed target still holds the inherited pipe ends, `closed` afterwards, and `reaped`.

* *Lists* are sequences edited exactly as `helpr_remove_runner` and the appends do; loops that
  remove while scanning (`runners_reap`, `runners_check_if_jobs_done`) are one action per turn with
  the index in `scan`, so a runner can die or report between two turns.
* *Signals* of the fuzzer are a set of pending kinds: standard signals coalesce, and handlers run
  only in `sigsuspend` (`Wake`) or before the mask is set (`HandleWhileStarting`).  A SIGTERM at a
  runner is `pending`, then `seen`, or `swallowed` if it arrives before the runner has its own
  handlers.
* *Pipes* are sequences of whole messages (both are shorter than PIPE_BUF, written at once).  The
  status pipe of a runner reads as end of file (`NO_STATE`) once the runner is `closed`.
* *The double close.*  After the fork, `runner_launch` closes two of the four pipe ends in the fuzzer
  (runner.c:327-328) but keeps their numbers, and the `pipe()` of the next `runner_init`
  (runner.c:46) gets these back: the stale `pipe_r_to_f[1]` of a runner is the `pipe_f_to_r[1]` of
  the runner launched after it.  When `runner_fini` closes all four numbers (runner.c:114-117) it
  therefore closes the fuzzer's write end to that neighbour (`FuzzerEndClosed`: the runner before
  is `reaped`, by `ReapZombie` or `FiniWait`).  A write to the neighbour then fails with EBADF
  although it lives, as it does with EPIPE to a `closed` runner (`WriteFails`, the guard of `Submit`
  and `SubmitFails`), and the neighbour is then in no list.  The neighbour reads end of file and
  exits without any signal (`ReadsEndOfFile` in `ExitIdle`) as soon as nobody else holds the write
  end: the runners launched after it inherited it, and so did their targets, hence `EndOfInput`
  waits for all of these to be gone.
* *Inputs* are numbered in dispatch order; `queued`, `freed` and `reported` say what became of each.
  Which VALID input is queued is a free choice of `Handle`: that decision is `CoverageFeedback`'s
  and `InputQueue`'s subject.
* *Target runs* are folded into `TargetEnds`, which yields any outcome.  How the alarm and SIGCHLD
  race inside a runner is the subject of `RunnerProcess`; all that shows of it here is
  `StaleSignal`: after its first target a runner that waits for input may be interrupted by a
  signal that an earlier target left behind, and exit.
* `Terminate` and `KillRunner` are the environment: a terminating signal for the fuzzer, and at
  most `MaxKills` for runners.

A failing `fork`, `pipe`, `select` or allocation during initialisation ends the program before the
model starts, except for a failed fork of a runner (section 5).

### Campaign

What loop and pool together promise, without lists, pipes or signals: `Send` hands the next input
to a live runner that has none, `Judge` is the runner's verdict, `Receive` turns the verdict into
one outcome (kept, dropped, printed), `Lose` gives up the input of a dead runner, which the code
does in two ways: it reaps the runner, or reads end of file and counts the input as received.  `Die`
is any end of a runner: killed, told to terminate, confused by a stale signal, or at end of file
after its neighbour was reaped.
The refinement mapping (`Promise` in `Fuzzer`) calls an input a runner's job while the runner is in
`active` or `done`, and takes as its verdict the packet in the pipe, or `final_state` once the
runner is about to write it.  It is what a reader of fuzzer.h expects, and no step of the code can
report an input twice, keep an input without a VALID verdict, or lose one with a living runner.

### Runner process

One action is one system call of the child with the local code around it, or one run of
`helpr_runner_sighandler`.  `pc` names the places between them (`launched`, `receive` for
`pselect` and the reads behind it, `fork`, `arm` before `alarm(timeout)`, `wait` for the `sigsuspend` loop, `disarm` before
`alarm(0)`, `waitpid`, `alert` and `signal` for the two halves of `runner_alert_fuzzer`, `exited`).
SIGTERM, SIGALRM and SIGCHLD are blocked except in `pselect` and `sigsuspend`, so they collect in
`pending`; `Deliver` runs the handler for one of them, in any order, and `SigsuspendReturns` goes
round the loop.  The target is a process of its own: forked with its parent's handlers, running,
stopped, a zombie; `target_pending` are the signals on their way to it, and `current_target_pid` is
the job whose process has that pid.

`Faults` says what may go wrong around the runner: `fork` or `execvp` fails, the alarm expires after
`sigsuspend` has returned (`late`), SIGALRM reaches the target before its `execvp` (`slow`), the
target ignores SIGALRM, or is stopped and continued.  `expired` and `happened` are history
variables; the liveness properties name the fault that excuses the runner.  A `waitpid` without a
child leaves `wait_status` uninitialised: any earlier status can be in it.

The fuzzer's side (inputs one at a time, SIGTERM at any moment, `CloseInput` when the runner before
this one is finalised) is what `Fuzzer` does with one runner; after `CloseInput` the runner's next
read finds end of file (`ReadEndOfFile`).  `F` maps the module to `Fuzzer` with two runners, of which
this is the second, runner 1, and active; the first is `reaped` exactly when `input_closed`.  The phases from `fork` to `waitpid`
are one `wait`, a zombie's pipe ends count as open while a target it killed lives, and
a SIGTERM already handled is still `pending` for `Fuzzer` until the target is done with.
`IsFuzzerRunner` then says that every step is one of `Fuzzer`'s `RunnerStep(1)`, or of the fuzzer,
or not visible to it: what `Fuzzer` folds into one action is folded rightly.

### Mutator

A char array is a function on its indices; a write outside adds an index, so that an overrun is
seen.  A loop of a strategy is a recursive function `done`, whose value at `i` is the buffer after
`i` rounds of the C loop; `Inject`, `FlipFrom` and `Shift` are the loops that two or more strategies
share.  `mutate` is sequential, so a call is one step: an action for each strategy, chosen by the table `Cycle` (the
switch of 37), one for the empty input, `SendItself` for the first dispatch of an input, which
run_fuzzer sends as it is and steps to mutator state 1 (mutation 0 of the cycle is never applied
in the first round), and `Requeue` for a result that comes back.  `HASH` is any function, `BITS` the
width of a character, and the literals are texts of the length the code's have.  
An input starts as a line of the seed file (`SeedLines`), which `getline` reads at any length, while
`mutate` copies at most `MAX_INP_LEN` characters of it and goes on with the full length.  A strategy
may then write outside: `HoldsString` says of a buffer that it has its own indices only, characters
in them and a NUL among them.  When it does not hold, the call returns `UNDEFINED` and the model stops there
(`AfterUndefined`): what an overrun stack does is not the code's to say.  In strategy 3 `new_len - N`
is a `size_t`, which wraps round when the line is longer than the buffer; the loop then runs off the stack,
and the model keeps its first write, which is outside already.  `Pow2` is a
recursive function because the provers know nothing of `^`.  `MutationSpec` says the same per position of the result, as Mutation.md does: where the code overwrites, the last
place that covers a position wins; where it flips, the number of covers counts.

### Coverage

A buffer of coverage data is the set of edges whose bits are on.  FNV-1a modulo `TABLE_SIZE` is an
arbitrary function `hash_ind` from buffers to buckets: nothing may depend on it.  `AddFails` is the
early return when the node can not be allocated, after the bitmap has been updated.  In
`CoverageFeedback` every runner has its shared bitmap, which targets only add bits to and nothing
clears after `runner_init`; `own` (what the last target really executed) and `observed` are history
variables the code does not have.

### Input queue

`Walk(q)` follows `next` from `head` as the `while(cur)` loops do, `Link` and `Rotate` are the
pointer assignments of enqueue and dequeue.  `owner` says who is to free each input; an input that
is refused as a duplicate is freed, one whose node can not be allocated is `lost`.  The refinement
mapping reads each list into a sequence and `InputQueueSpec` must see it behave as two queues.
`Layout` says the same of the heap without walking it: there is a sequence of distinct nodes for
each list that `head`, `next` and `tail` spell out.
Callers hand in inputs of their own only: `run_fuzzer` enqueues the copies it made for a runner,
never an input it got from the queue.  `gap` is a history variable for the nine-to-one pattern.

## 3. The runs

| run | checks | instance |
|---|---|---|
| `safety` | `TypeOK`, `RunnerLists`, `NoLostWakeup`, `ResultMatchesInput`, `ReadyIsIdle`, `InputsLive`, `Accounting`, `ZombieNoticed`, `IInv`, `ImplementsCampaign` | 3 runners, 1 input and 1 seed, one signal for the fuzzer, one kill of a runner, stale signals: 739,462 states |
| `completes` | `InputsCleanedUp`, `Completes`, `JobsComeBack`, and no deadlock | 2 runners, 2 inputs and 1 seed, undisturbed: 15,472 states |
| `stops` | `IInv`, `StopsOnSignal`, `CleanupCompletes` | 2 runners, 1 input and 2 seeds, `-t 0`: targets may hang for ever; the signal may come at any time: 52,216 states |
| `runner` | `TypeOK`, `NoTargetLeftBehind`, `NoLostChild`, `WaitpidReturns`, `KillsOnlyItsTarget`, `TimeoutAlmostTruthful`, `CrashTruthful`, `IsFuzzerRunner`, `Terminates`, `InputAnswered` | 3 inputs, a SIGTERM, the end of the pipe, with and without a time limit, all faults: 718,586 states |
| `coverage` | `TypeOK`, `HashsetSound`, `ImplementsCoverageSpec`, `NovelEdgesFound` | 2 runners, 3 edges, 2 buckets with collisions, 4 executions, malloc may fail: 231,012 states |
| `queue` | `TypeOK`, `ListsSound`, `NoDuplicates`, `Ownership`, `NineToOne`, `ImplementsQueueSpec`, `NoStarvation` | 4 inputs (2 with one string), 3 nodes, malloc may fail: 74,864 states |
| `mutator` | `TypeOK`, `StaysInBuffer`, `AsSpecified` | buffer of 6 characters of 2 bits, every seed line that fits and some of 7 and 8 characters, mutator states up to 223: 244,860 states |

Why the bounds are enough.  Two runners give every relation between two list entries (before,
behind, in another list), and a runner that dies while the other reports.  Three are needed for what
a reaped runner does to its neighbour: with two, the neighbour is the last runner launched and
soon reads end of file; with three, the third holds the second one's write end open, and the second lives
on, unwritable and, once tried, in no list.  The run `safety` therefore has three runners, with two jobs.
Three jobs on two runners make at least one runner work twice, so stale packets, wrong
attributions and second dispatches can happen; a longer campaign repeats these.  They are in
`completes` and in `stops`, which checks `IInv` over them, and `IInv` implies every invariant of
`safety` (section 4).  One kill combines with every point of the loop, and the deaths that follow
from it (end of file in the neighbour, stale signals) empty the pool in every order; that further
kills bring nothing new is not argued from the runs: the theorems hold for any number.  Three edges distinguish a new edge, a new
combination of old ones and a repetition; two buckets distinguish collision and none, and a chain of
up to four buffers has a head, a middle and an end; four executions on two runners let one
runner's left-overs meet the other's.  In the queue, lists of up to three nodes have a head, a
middle and a tail, and every split over the two lists occurs with every position in the cycle.
A stale signal of a runner reaches the input after the one it belongs to; the third input shows
that it reaches no further.  The SIGTERM may be lost before the handlers are installed
or arrive at any later point; the theorems hold for any number.  In the mutator
seed lines one and two characters too long are sent as they are, survive or overrun at the first
mutation (strategy 5, whose places may miss or hit the end) and overrun at the second (strategy 3);
223 states are six rounds of the cycle: `K` runs from 1 to 7, so that lengths double past the
buffer and up to four places overlap; six characters are shorter than some literals
and longer than others, and with two bits the wrap of increment and decrement and the NUL that
ends a string early happen all the time.

Five runs exhibit disagreements between the code and its documentation; each is a finding:

* `stop_after_kill`: once a runner dies while active, `jobs_sent` reaches `target_total` and
  `jobs_received` can not; with no job active fuzzer.c:160 skips `sigsuspend`, the only place where
  signals are unblocked, and the loop spins deaf to SIGTERM.  (`fuzzer.h:17-19` promises it ends.)
  An empty seed file or `-j 0` leads to the same spin.  No kill from outside is needed: a stale
  SIGALRM or SIGCHLD makes a runner exit by itself (`StaleSignal`),
  and its last packet is dropped with it if it is still unread.  The death of one runner can take
  its neighbour with it, by end of file.
* `runner_stop_signal`: a SIGTERM that reaches a runner between fork and `sigprocmask` (runner.c:351)
  runs the inherited handler and is lost; `runner_fini` then waits for ever.
* `lost_crash_report`: `runners_reap` comes before the pipes are read, so a CRASH packet of a runner
  that then died is dropped unread.
* `runner_timeout`: `alarm(0)` (runner.c:412) does not take back a SIGALRM that is already pending;
  it is delivered in the `sigsuspend` for the next input, whose target is killed and reported as a
  TIMEOUT without having used its time.  `TimeoutAlmostTruthful` says how far this reaches.
* `coverage_duplicates`: the shared bitmap accumulates over all executions of a runner, so an input
  that repeats known behaviour can be ranked HIGH because of what a crashed run left behind.

**Fairness.**  `FairSpec` is weak fairness of the fuzzer and of each runner: each is an independent
process the kernel keeps scheduling, and a target that does not end is killed by its alarm, which
is why `TargetEnds` is among the fair steps (`RunnerProcess` shows what that rests on).  `NoAlarmSpec` withdraws that for `-t 0`: only the code
of fuzzer and runners is fair, never a target.  No fairness is asked of signals from outside.
In `RunnerProcess` the runner, the start and the death of a signalled target, and the clock are
weakly fair: the kernel's doing.  Nothing makes a target end by itself, ignore a signal or continue
after a stop, nor the fuzzer send, so `InputAnswered` rests on the alarm alone.
`NoStarvation` assumes a caller that keeps dequeuing: run_fuzzer does so as long as it has budget
and ready runners.  Safety needs no fairness.  Liveness runs use no symmetry; `coverage`, which has
none, permutes edges and runners, which no definition tells apart (`MCHash` included).

## 4. What is proved

`FuzzerProofs` proves, for any number of runners, inputs, seeds, kills, `Spec => []IInv`, and from
it `TypeOK`, `RunnerLists`, `InputsLive`, `Accounting`, `ZombieNoticed`, `ResultMatchesInput`,
`ReadyIsIdle` and `NoLostWakeup`.  The only assumption is `ConstantsAssumption` (the counts are
naturals).

*The argument.*  None of the properties is inductive.  `ResultMatchesInput` needs to know where a
job can be at all: `JobPlaced` says that the one message of a runner's job is in the first pipe, or
with the process, or in the second pipe, never in two of these, and which `rpc` and list go with
each.  `InputsLive` needs that the next input number is unused (`InputsFresh`).  `NoLostWakeup` is
about the moment of sleeping, but its reason lies earlier: `StatusNoticed` says that a packet whose
SIGUSR1 has been sent is announced by a pending signal, a set flag, or the part of the collecting
loop still to come, and with `SuspendGuard` (no flag set when `sigsuspend` is entered) and
`JobPlaced` it yields the property.  `FdsReadable` says that a runner `select` found readable stays
so while the loop runs.  `ZombieNoticed` is inductive with the lists and is the same argument for
SIGCHLD and `runners_reap`.

`RunnerLists` also says where a runner of the pool can be that is in none of the three lists
(`ListedOrLost`): only where every write to it fails.  `SubmitFails` is the one action that takes a
runner out of the lists and leaves it in the pool (`NoneGetsLost`), and a write that fails keeps
failing, because neither a closed pipe end nor a reaped neighbour comes back (`WritesKeepFailing`).
A dead one of these is found by `runners_reap` (`ZombieNoticed`); a live one stays until it reads end
of file or the cleanup begins.  The proof has one lemma per action that edits lists or pipes, and
frames (`ControlKeeps`, `RunnerKeeps`) for those that do not.

`InputsCleanedUp` is proved under `Undisturbed`, the constants of the run `completes`: no terminating
signal for the fuzzer or a runner, no stale signal.  Otherwise it is false: when the loop ends early
the inputs that are still out are nobody's (section 5).  `Calm` adds to `IInv` that every dispatched input is freed, queued or
on record for a busy runner (`NoInputLost`), and that before the cleanup nobody is dead or told to
die, so that no write fails (`NoWriteFails`) and the loop can only end because all results are in (`NothingDies`).  Then `Accounting`
leaves no runner busy.  (TLC checks `Calm` on the instance of `completes` in a few seconds; it is not
an invariant of the run because it only matters to the proof.)

`CoverageProofs` proves `TypeOK`, `HashsetSound`, `NovelEdgesFound` and `ImplementsCoverageSpec`
for every hash function, any set of edges, buckets, runners and executions.  `HashsetSound` (each
stored buffer sits once, in its own bucket) makes the lookup in one chain a lookup in the whole
table (`LookupFinds`); `InsertStores` shows what prepending a node adds; so every call of
`coverage_map_add` is a `Record` or a `Forget` of `CoverageSpec`.  `OwnCovered` (what a target
executed is in its bitmap) gives `NovelEdgesFound`.

`CampaignProofs` proves `ImplementsCampaign` for any number of runners, inputs, seeds and kills, with
reaped runners closing their neighbours' pipes.  A
step is sorted by what it changes of the mapped state: one lemma says that a step which touches no
job, verdict, death or outcome stutters, others that a step about one runner changes the mapped
functions at that runner only.  Each visible action is then one of `Campaign`; `IInv` supplies that
a dispatched runner is idle and has no verdict (`JobPlaced`), and that a packet in the pipe is about
the input that `Receive` settles (`ResultMatchesInput`).

`RunnerProofs` proves all seven invariants of the run `runner` and `IsFuzzerRunner`, for any number
of inputs and signals, any time limits and faults.  Only `TypeOK` and `CrashTruthful` are part of the
inductive invariant `RInv` as they stand.  The rest needs where an input can be (`OneInput`), what the target
and `current_target_pid` may be at each `pc` (`TargetKnown`), that the flags at the start of the
wait are those of this target (`FlagsFresh`), that a dead target is announced by a pending or noted
SIGCHLD (`ChildNoticed`), and whose alarm a pending or noted SIGALRM, or one on its way to the
target, can be (`AlarmKnown`, `StaleKnown`, `KillKnown`).  The refinement theorem takes each action
of the runner, the exit at end of file among them, to the action of `Fuzzer` it is, or shows that `FuzzerRpc`, `FuzzerTerm` and the
pipes stay.

`InputQueueProofs` proves, for any number of inputs and nodes, any assignment of strings and any
failing malloc, `Spec => []QueueInv` and from it `TypeOK`, `ListsSound`, `NoDuplicates`, `Ownership`,
`NineToOne` and `ImplementsQueueSpec`.  `QueueInv` is `TypeOK`, a layout and `NoDuplicates` with the
bookkeeping that makes them inductive; the run `queue` checks what follows from it and not itself.  `ListsSound` speaks of walks along `next`, and one assignment to a pointer changes a walk
from there on; nor does it say what the nodes hold.  `QueueInv` says the same of a layout: a
sequence of distinct nodes for each list that `head`, `next` and `tail` spell out.  `Found` is the
layout that the walks yield.  One induction along a list shows that any layout is `Found`, so an
action keeps `Layout(Found)` when some layout of the new heap can be named: the old one with a node
appended for an enqueue, rotated for a dequeue.  That the lists are apart is then a fact about two
sequences, and the refinement one about appending to and rotating a sequence.

`MutatorProofs` proves `TypeOK` and `StaysInBuffer` for seed lines of any length, any length of the
buffer, any width of a character, any hash function and any number of mutations.  `StringInv` is
inductive: their conjunction, that a buffer which holds no string has made the result `UNDEFINED`,
and that a result is fresh (state 0).  A line longer than the buffer gets no further than
its second mutation, because strategy 3 always writes outside for it (`LengthenOverruns`), and strategy 3
is harmless for all others (`LengthenFits`); what is mutated out of what fits is proved to fit.  The
rest of the work is in the loops.  Each has a sequence of buffers, one for every round
(`InjectRuns`, `ShiftRuns`, `DuplicateRuns`, `FlipFromRuns`, `FlipsRun`), all of which keep the domain and the NUL
behind the string: the lemmas about `Put` and `Copy` need that the place and the number of
characters copied fit, which comes from `H` staying below its modulus (`HRange`) and from the
clippings in the code.  That flipping a bit of a character gives a character (`FlipBitType`) rests
on `Pow2Sum`.

`MutationProofs` proves `AsSpecified`, for the same parameters: of every input that fits the buffer,
whatever it was mutated out of, `mutate` returns the string that Mutation.md gives for it.  A loop of the code and its description
have nothing in common but their end, so each loop gets a description of the buffer after `i`
rounds, which one round takes from `i - 1` to `i`: `Repeats` (the copies made so far), `InjectedUpTo`
(the last of the first `i` places to cover a character wins), `ShiftedUpTo` and `FlippedUpTo` (how
many of the first `i` places met a character or a bit, by `CountRound`).  Its value for the last
round is the specification's.  For the sums this needs that remainders in between do not change a
sum (`RemainderOfSum`), for the bits that `FlipBit` changes the one it is given (`FlipBitFlips`) and
that a character is known by its bits (`BitsDetermine`), all from the uniqueness of quotient and
remainder (`QuotientIs`).  `CutIs` says that `make_input` stops where the specification cuts, at the
first NUL.

`Induction` proves from the well-foundedness of `<` (`WFMin`) what the three need: a set of naturals that
contains zero and with each number its successor contains them all, recursion defines a function,
and a loop of `n` rounds has its sequence of intermediate values.  These are statements about sets
and functions, not about operators, so that the provers can use them.

Only model-checked: every liveness property and `NoStarvation` (the prover has no rules for
fairness), and the absence of deadlock (a statement about ENABLED).

## 5. Not modelled

* The command line: main.c parses argv once, in order, into constants of the models.
* The fzl log: a binary without source; its calls change no state of the fuzzer.
* The programs under test: processes that set bits and end with any outcome.
* A failed fork of a runner (runner.c:486): the pool then holds the pid -1, and `waitpid(-1)` of
  `runners_reap` reaps some other child.  `RunnerLists` and `ZombieNoticed` would need another
  meaning for such an entry.
* The death of the fuzzer itself: every runner then reads end of file.  End of file that comes from a
  reaped neighbour is modelled.
* What follows a write outside the buffer of `mutate`.  The write itself is modelled, up to the call that
  makes it; after it the model of the mutator stops.
* That a killed target of an exited runner can outlive the reaping of the runner: it holds inherited
  pipe ends a little longer, and `EndOfInput` takes them as gone with the runner, so end of file may come
  slightly early in the model.
* Failing allocations of inputs, lists and the queue itself.

`coverage_map_fini` and the other deallocations without a decision in them are left out.  Known
facts that no property states yet:

* end of file on a dead active runner counts as received; the runner goes back to `ready`, where a
  later write fails with EPIPE, and its input is not freed (modelled, no property of its own);
* a live runner whose write end went with its reaped neighbour is, after the failed write, in no
  list, although runner.h calls these three categories of every runner, and with three or more
  runners the pool then never empties while a runner launched later lives; with no job active the
  loop spins as in `stop_after_kill` (`RunnerLists` says exactly which runners this can befall);
* a seed line of more than 1024 characters is sent as it is, and its second mutation at the latest
  writes outside the buffer of `mutate` (`StaysInBuffer` and `WritesInBounds` state it);
* `runner_get_active_input` never becomes NULL again, contrary to runner.h; no reader depends on it;
* when the loop ends with jobs out, their inputs are neither in the queue nor freed by
  `runner_fini`: they are left to the end of the process (fuzzer.h:19-20 says all is cleaned up);
* `num_seeds` counts duplicate seed lines, and each queued mutated input is first re-sent unmutated,
  so the number of mutated inputs is not exactly the `-n` of the repository's README.md:45;
* a target whose `execvp` failed exits with EXIT_FAILURE, which is a VALID run;
* a fixed name for each shared memory object: two fuzzers at once would share bitmaps;
* descriptors 767 and FD_SETSIZE bound the useful `-j`.

## 6. Plan

Done so far: the loop, the pool, the runner process and the composition of the two, the abstract
campaign, coverage, input queue and mutator, and a theorem for every safety property, action
property and refinement that the runs check.  Left, in this order:

1. The seed budget as a variant of `Campaign`, and failing launches as a variant of `Fuzzer`.
2. What the liveness properties rest on, as far as it is safety: for each place where the loop waits,
   that something it waits for is under way.
