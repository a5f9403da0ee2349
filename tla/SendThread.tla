------------------------------ MODULE SendThread ------------------------------
(***************************************************************************)
(* The loop of a channel's send thread (up_socket_send_thread and          *)
(* down_socket_send_thread of controller.cc, which differ only in their    *)
(* names), over the channel's BlockQueue:                                  *)
(*                                                                         *)
(*   while (!stopped_) { auto p = queue.take();                            *)
(*                       if (nullptr == p) continue;                       *)
(*                       socket.send(p->data, p->size); queue.pull(); }    *)
(*                                                                         *)
(* The flag is a plain bool that another thread writes.  The build sets no *)
(* optimisation level, so each test reads the memory: a test sees the last *)
(* value written.                                                          *)
(***************************************************************************)
EXTENDS BlockQueue

VARIABLES
    stopped,         \* up_stopped_ or down_stopped_
    spc,             \* where the send thread is; "none" when there is none
    item             \* p, the element the thread works on

threadVars == <<stopped, spc, item>>

SendPcs == {"none", "loop", "take", "copy", "send", "pull", "done"}

ThreadInit ==
    /\ stopped = TRUE
    /\ spc = "none"
    /\ item = Null

-----------------------------------------------------------------------------

\* while (!stopped_)
LoopTest ==
    /\ spc = "loop"
    /\ spc' = IF stopped THEN "done" ELSE "take"
    /\ UNCHANGED <<queue, taker, stopped, item>>

\* take() finds an element, and returns a reference to it.
TakeReady ==
    /\ spc = "take"
    /\ TakeFront
    /\ spc' = "copy"
    /\ UNCHANGED <<stopped, item>>

\* take() finds the queue empty, and waits.
TakeBlocks ==
    /\ spc = "take"
    /\ TakeWait
    /\ UNCHANGED <<stopped, spc, item>>

\* take() was notified, and returns a reference to what is now the front.
TakeReturns ==
    /\ spc = "take"
    /\ TakeWoken
    /\ spc' = "copy"
    /\ UNCHANGED <<stopped, item>>

\* Mutant of CopySlot: the test for a null pointer is missing.
CopySlotUnchecked ==
    /\ spc = "copy"
    /\ item' \in FrontSlot
    /\ spc' = "send"
    /\ UNCHANGED <<queue, taker, stopped>>

\* auto p = ...: the reference is read here, out of the mutex.  A null pointer
\* starts the loop over and leaves the queue alone.
CopySlot ==
    /\ spc = "copy"
    /\ \E e \in FrontSlot :
          /\ item' = e
          /\ spc' = IF e = Null THEN "loop" ELSE "send"
    /\ UNCHANGED <<queue, taker, stopped>>

\* socket.send(): the result is ignored.
SendItem ==
    /\ spc = "send"
    /\ spc' = "pull"
    /\ UNCHANGED <<queue, taker, stopped, item>>

\* Mutant of PullItem: a pull that is skipped when the channel is stopping.
PullUnlessStopped ==
    /\ spc = "pull"
    /\ IF stopped THEN UNCHANGED queueVars ELSE Pull
    /\ spc' = "loop"
    /\ UNCHANGED <<stopped, item>>

\* queue.pull()
PullItem ==
    /\ spc = "pull"
    /\ Pull
    /\ spc' = "loop"
    /\ UNCHANGED <<stopped, item>>

=============================================================================
