------------------------------ MODULE BlockQueue ------------------------------
(***************************************************************************)
(* The monitor BlockQueue<T> of include/util/block_queue.h: a std::queue   *)
(* guarded by one mutex, with one condition variable.  Every member        *)
(* function holds the mutex from its first to its last statement, so each  *)
(* is one atomic operation here, except take(): its wait releases the      *)
(* mutex, and the thread that waits runs again only after a notification   *)
(* and after it has locked the mutex a second time.                        *)
(*                                                                         *)
(* A channel of the Controller has any number of threads that put and one  *)
(* thread, its send thread, that takes; `taker' is that thread's state     *)
(* inside take().                                                          *)
(***************************************************************************)
EXTENDS Integers, Sequences

CONSTANTS
    FrontOfEmpty,    \* what front() of an empty queue may read: see FrontSlot
    SpuriousWakeups  \* whether cond_.wait may return without a notification

Null == 0            \* a shared_ptr that compares equal to nullptr
Junk == -1           \* a shared_ptr made of the bytes a destroyed one left

\* Messages are the positive numbers, Null and Junk are not messages.
ASSUME QueueAssumption ==
    /\ FrontOfEmpty \subseteq {Null, Junk}
    /\ FrontOfEmpty # {}
    /\ SpuriousWakeups \in BOOLEAN

VARIABLES
    queue,           \* the elements, the front first
    taker            \* "out" of take(), "waiting" in it, or "woken" and about
                     \* to lock the mutex again

queueVars == <<queue, taker>>

QueueInit == queue = <<>> /\ taker = "out"

-----------------------------------------------------------------------------

\* cond_.notify_all(): a thread that waits may go on.
NotifyAll == taker' = IF taker = "waiting" THEN "woken" ELSE taker

\* Mutant of Put: a stack.
PutOnTop(m) ==
    /\ queue' = <<m>> \o queue
    /\ NotifyAll

\* Mutant of Put: nobody is notified.
PutSilently(m) ==
    /\ queue' = Append(queue, m)
    /\ UNCHANGED taker

\* put(): push, then notify_all, under the mutex.
Put(m) ==
    /\ queue' = Append(queue, m)
    /\ NotifyAll

\* take() on a queue that is not empty returns at once.
TakeFront ==
    /\ taker = "out"
    /\ queue # <<>>
    /\ UNCHANGED queueVars

\* take() on an empty queue: the test and the wait are one atomic step, the
\* mutex is released by the wait itself.
TakeWait ==
    /\ taker = "out"
    /\ queue = <<>>
    /\ taker' = "waiting"
    /\ UNCHANGED queue

\* The wait of take() returns.  The size is tested with `if', once: it is not
\* tested again here, whatever the queue now holds.
TakeWoken ==
    /\ taker = "woken"
    /\ taker' = "out"
    /\ UNCHANGED queue

\* A condition variable may wake up a thread nobody notified.
SpuriousWakeup ==
    /\ SpuriousWakeups
    /\ taker = "waiting"
    /\ taker' = "woken"
    /\ UNCHANGED queue

\* What the reference that take() returns designates when it is read, which the
\* caller does after take() has released the mutex: the front element, which
\* may have been put after take() returned, or the slot where it would be.
FrontSlot == IF queue = <<>> THEN FrontOfEmpty ELSE {Head(queue)}

\* pull(): drops the front element, if there is one.
Pull ==
    /\ queue' = IF queue = <<>> THEN queue ELSE Tail(queue)
    /\ UNCHANGED taker

\* notify(): wakes up the thread that waits and puts nothing.
Notify ==
    /\ NotifyAll
    /\ UNCHANGED queue

=============================================================================
