------------------------------- MODULE TickDeadline -------------------------------
(***************************************************************************)
(* The waiting loops of LteConnectionManager.cpp: a deadline is computed   *)
(* from xTaskGetTickCount(), and the loop repeats what it waits for while  *)
(* the tick count is below it.  TickType_t is an unsigned 32-bit counter   *)
(* that starts at 0 with the chip and wraps; uptime is the time that does  *)
(* not wrap.  An iteration (an AT command, a read of the UART, a poll and  *)
(* its delay) takes at least a tick and is not cut off by the deadline.    *)
(***************************************************************************)
EXTENDS Integers

CONSTANTS
    TickValues,    \* the number of values of a TickType_t, 2^32 in the build
    Window,        \* how long the loop may wait, in ticks
    MaxIteration,  \* the longest iteration, in ticks
    MaxUptime      \* bound: when the model's time ends

ASSUME DeadlineAssumption ==
    /\ TickValues \in Nat \ {0}
    /\ Window \in Nat \ {0}
    /\ MaxIteration \in Nat \ {0}
    /\ MaxUptime \in Nat

VARIABLES
    uptime,    \* ticks since the chip was started
    waiting,   \* is the task in the loop?
    deadline,  \* the loop's deadline, a TickType_t
    begun      \* history: the uptime at which the loop was entered

waitVars == <<uptime, waiting, deadline, begun>>

WaitTypeOK ==
    /\ uptime \in 0 .. MaxUptime
    /\ waiting \in BOOLEAN
    /\ deadline \in 0 .. TickValues - 1
    /\ begun \in 0 .. MaxUptime

WaitInit ==
    /\ uptime = 0
    /\ waiting = FALSE
    /\ deadline = 0
    /\ begun = 0

\* What xTaskGetTickCount() returns.
TickCount == uptime % TickValues

\* Broken variant: one more iteration in the tick of the deadline.
UpToDeadline == TickCount <= deadline

\* The condition of the loop.
BeforeDeadline == TickCount < deadline

Pass(ticks) ==
    /\ uptime + ticks <= MaxUptime
    /\ uptime' = uptime + ticks

\* The task does something else.
DoOtherWork ==
    /\ ~waiting
    /\ Pass(1)
    /\ UNCHANGED <<waiting, deadline, begun>>

\* Broken variant: a tick too few.
EnterLoopShort ==
    /\ ~waiting
    /\ waiting' = TRUE
    /\ deadline' = (TickCount + Window - 1) % TickValues
    /\ begun' = uptime
    /\ UNCHANGED uptime

EnterLoop ==
    /\ ~waiting
    /\ waiting' = TRUE
    /\ deadline' = (TickCount + Window) % TickValues
    /\ begun' = uptime
    /\ UNCHANGED uptime

\* An iteration that does not find what the loop waits for.
Iterate ==
    /\ waiting
    /\ BeforeDeadline
    /\ \E ticks \in 1 .. MaxIteration : Pass(ticks)
    /\ UNCHANGED <<waiting, deadline, begun>>

LeaveLoop ==
    /\ waiting
    /\ ~BeforeDeadline
    /\ waiting' = FALSE
    /\ UNCHANGED <<uptime, deadline, begun>>

WaitNext == DoOtherWork \/ EnterLoop \/ Iterate \/ LeaveLoop

WaitSpec == WaitInit /\ [][WaitNext]_waitVars

-----------------------------------------------------------------------------------
\* The loop waits "for up to" its window (LteConnectionManager.cpp:578), and
\* for one iteration more at the most.
WaitIsBounded ==
    waiting => uptime - begun < Window + MaxIteration

\* A loop that times out has waited for its whole window: a modem that is
\* slow within its limits is not given up early.
WaitIsNotCutShort ==
    [][waiting /\ ~waiting' => uptime - begun >= Window]_waitVars
===================================================================================
