--------------------------------- MODULE Timer ---------------------------------
(***************************************************************************)
(* The Timer objects of a program (util/timer.cc) and the kernel timers    *)
(* behind them.  start() and stop() are several statements without a lock, *)
(* and each is an operator here: the threads that run them are those of    *)
(* the module that uses this one, and may meet between any two statements. *)
(*                                                                         *)
(* A kernel timer is named by the number of the start() that created it.   *)
(* Handler and parameter are the same at every start of an object and are  *)
(* left out.                                                               *)
(***************************************************************************)
EXTENDS Naturals

CONSTANTS
    Timers,          \* the Timer objects
    MaxStarts        \* bound: kernel timers created for each of them

ASSUME TimerAssumption == MaxStarts \in Nat \ {0}

VARIABLES
    stopped,         \* the flag of each object
    timer,           \* timer_: the kernel timer created last, 0 for none
    kernel,          \* the state of each kernel timer
    fault            \* a kernel timer was used that was deleted, or none

timerVars == <<stopped, timer, kernel, fault>>

TimerInit ==
    /\ stopped = [t \in Timers |-> TRUE]
    /\ timer = [t \in Timers |-> 0]
    /\ kernel = [t \in Timers |-> [i \in 1 .. MaxStarts |-> "none"]]
    /\ fault = FALSE

TimerTypeOK ==
    /\ stopped \in [Timers -> BOOLEAN]
    /\ timer \in [Timers -> 0 .. MaxStarts]
    /\ kernel \in [Timers -> [1 .. MaxStarts -> {"none", "created", "armed", "deleted"}]]
    /\ fault \in BOOLEAN

\* The kernel timers of object t that expire.
Armed(t) == {i \in 1 .. MaxStarts : kernel[t][i] = "armed"}

\* timer_ names a kernel timer that was created and not deleted.
Usable(t) == timer[t] > 0 /\ kernel[t][timer[t]] # "deleted"

\* timer_create, over the kernel timer that the object had.
Create(t) ==
    /\ timer[t] < MaxStarts
    /\ timer' = [timer EXCEPT ![t] = @ + 1]
    /\ kernel' = [kernel EXCEPT ![t][timer[t] + 1] = "created"]
    /\ UNCHANGED <<stopped, fault>>

\* timer_settime of the kernel timer that timer_ names now.
Arm(t) ==
    /\ IF Usable(t)
       THEN kernel' = [kernel EXCEPT ![t][timer[t]] = "armed"] /\ UNCHANGED fault
       ELSE fault' = TRUE /\ UNCHANGED kernel
    /\ UNCHANGED <<stopped, timer>>

\* stopped = false and stopped = true
SetStopped(t, b) ==
    /\ stopped' = [stopped EXCEPT ![t] = b]
    /\ UNCHANGED <<timer, kernel, fault>>

\* timer_delete of the kernel timer that timer_ names now.
Delete(t) ==
    /\ IF Usable(t)
       THEN kernel' = [kernel EXCEPT ![t][timer[t]] = "deleted"] /\ UNCHANGED fault
       ELSE fault' = TRUE /\ UNCHANGED kernel
    /\ UNCHANGED <<stopped, timer>>

=============================================================================
