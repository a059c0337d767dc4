--------------------------- MODULE InputQueueSpec ---------------------------
(***************************************************************************)
(* What the input queue promises (include/input_queue.h): two queues of    *)
(* inputs; a dequeued input goes to the end of the queue it came from; of  *)
(* ten turns nine belong to the high queue and one to the low queue, and   *)
(* an empty queue leaves its turn to the other.                            *)
(***************************************************************************)
EXTENDS Naturals, Sequences

CONSTANTS
    Inputs,    \* input objects
    NULL

VARIABLES
    high, low,   \* the two queues
    turn,        \* position in the cycle of ten
    returned     \* what the last dequeue returned

Init == high = <<>> /\ low = <<>> /\ turn = 0 /\ returned = NULL

Add(i) ==
    /\ \/ high' = Append(high, i) /\ UNCHANGED low
       \/ low' = Append(low, i) /\ UNCHANGED high
    /\ UNCHANGED <<turn, returned>>

Rotated(queue) == Append(Tail(queue), Head(queue))

FromHigh ==
    /\ high # <<>> /\ (turn < 9 \/ low = <<>>)
    /\ returned' = Head(high)
    /\ high' = Rotated(high)
    /\ UNCHANGED low

FromLow ==
    /\ low # <<>> /\ (turn = 9 \/ high = <<>>)
    /\ returned' = Head(low)
    /\ low' = Rotated(low)
    /\ UNCHANGED high

Take == (FromHigh \/ FromLow) /\ turn' = (turn + 1) % 10

TakeNothing ==
    /\ high = <<>> /\ low = <<>> /\ returned' = NULL
    /\ UNCHANGED <<high, low, turn>>

Close ==
    /\ high' = <<>> /\ low' = <<>> /\ returned' = NULL
    /\ UNCHANGED turn

Next == (\E i \in Inputs : Add(i)) \/ Take \/ TakeNothing \/ Close

Spec == Init /\ [][Next]_<<high, low, turn, returned>>

=============================================================================
