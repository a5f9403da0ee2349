------------------------------- MODULE SendPath -------------------------------
(***************************************************************************)
(* The outgoing path of one channel of the Controller: the threads that    *)
(* call send, the channel's queue, its send thread, and a Controller that  *)
(* is stopped and started again any number of times.  The socket is left   *)
(* to module Channel: here `wire' records what reaches socket.send.        *)
(*                                                                         *)
(* The messages are numbered by the order in which they are put.           *)
(***************************************************************************)
EXTENDS SendThread

CONSTANT MaxPut      \* how many messages the behaviour may put

ASSUME PathAssumption == MaxPut \in Nat

VARIABLES
    ctl,             \* where the thread that starts and stops the channel is
    nput,            \* the number of messages put so far
    wire             \* the last message handed to socket.send, 0 before any

vars == <<queue, taker, stopped, spc, item, ctl, nput, wire>>

Lossless == Junk \notin FrontOfEmpty

\* The types, and the states in which there is a send thread: it exists from
\* StartThread to StopJoin, and only in take() is it blocked on the queue.
TypeOK ==
    /\ queue \in Seq(Nat \ {0})
    /\ taker \in {"out", "waiting", "woken"}
    /\ stopped \in BOOLEAN
    /\ spc \in SendPcs
    /\ item \in Nat \cup {Junk}
    /\ ctl \in {"idle", "starting", "running", "flagged", "joining"}
    /\ nput \in 0 .. MaxPut
    /\ wire \in Nat
    /\ taker # "out" => spc = "take"
    /\ spc = "none" <=> ctl \in {"idle", "starting"}

Init ==
    /\ QueueInit
    /\ ThreadInit
    /\ ctl = "idle"
    /\ nput = 0
    /\ wire = 0

-----------------------------------------------------------------------------

\* Controller::send, from any thread and whatever the state of the channel.
Send ==
    /\ nput < MaxPut
    /\ Put(nput + 1)
    /\ nput' = nput + 1
    /\ UNCHANGED <<stopped, spc, item, ctl, wire>>

\* start(): after the open, the flag is cleared ...
StartFlag ==
    /\ ctl = "idle"
    /\ stopped' = FALSE
    /\ ctl' = "starting"
    /\ UNCHANGED <<queue, taker, spc, item, nput, wire>>

\* ... and then the send thread is created.
StartThread ==
    /\ ctl = "starting"
    /\ spc' = "loop"
    /\ ctl' = "running"
    /\ UNCHANGED <<queue, taker, stopped, item, nput, wire>>

\* Mutant of StopFlag: the flag is left as it is.
StopFlagForgotten ==
    /\ ctl = "running"
    /\ ctl' = "flagged"
    /\ UNCHANGED <<queue, taker, stopped, spc, item, nput, wire>>

\* stop(): the flag is set, out of the queue's mutex ...
StopFlag ==
    /\ ctl = "running"
    /\ stopped' = TRUE
    /\ ctl' = "flagged"
    /\ UNCHANGED <<queue, taker, spc, item, nput, wire>>

\* ... the receive thread has been joined and the queue is notified ...
StopNotify ==
    /\ ctl = "flagged"
    /\ Notify
    /\ ctl' = "joining"
    /\ UNCHANGED <<stopped, spc, item, nput, wire>>

\* Mutant of StopJoin: the thread is detached, not joined.
StopDetaches ==
    /\ ctl = "joining"
    /\ spc' = "none"
    /\ ctl' = "idle"
    /\ UNCHANGED <<queue, taker, stopped, item, nput, wire>>

\* ... and the send thread is joined.
StopJoin ==
    /\ ctl = "joining"
    /\ spc = "done"
    /\ spc' = "none"
    /\ ctl' = "idle"
    /\ UNCHANGED <<queue, taker, stopped, item, nput, wire>>

\* One step of the send thread.
ThreadStep ==
    \/ /\ \/ LoopTest \/ TakeReady \/ TakeBlocks \/ TakeReturns
          \/ CopySlot \/ PullItem
       /\ UNCHANGED <<ctl, nput, wire>>
    \/ /\ SendItem
       /\ wire' = IF item = Junk THEN wire ELSE item
       /\ UNCHANGED <<ctl, nput>>

WakeSpuriously ==
    /\ SpuriousWakeup
    /\ UNCHANGED <<stopped, spc, item, ctl, nput, wire>>

Next ==
    \/ Send
    \/ StartFlag \/ StartThread \/ StopFlag \/ StopNotify \/ StopJoin
    \/ ThreadStep
    \/ WakeSpuriously

Spec == Init /\ [][Next]_vars

\* The operating system runs the send thread as long as it is not blocked.
FairSpec == Spec /\ WF_vars(ThreadStep)

-----------------------------------------------------------------------------

\* The number of the first message that was not pulled.
First == nput - Len(queue) + 1

\* The queue holds consecutive messages that end with the last one put, so a
\* message leaves it only at the front, after all the earlier ones.
QueueIsSuffix ==
    \A i \in 1 .. Len(queue) : queue[i] = First + i - 1

\* The send thread works on the front of the queue: nothing pulls it, and the
\* thread does not see another element, between the copy and the pull.
ThreadHoldsFront ==
    spc \in {"send", "pull"} /\ item # Junk => queue # <<>> /\ item = First

\* How far the wire is: the front was handed over exactly while its pull is
\* pending, and without junk reads every message before it was.
WireFollowsQueue ==
    IF spc = "pull" /\ item # Junk
    THEN wire = First
    ELSE wire < First /\ (Lossless => wire = First - 1)

\* A junk pointer comes only from an empty queue.
JunkHasCause ==
    spc \in {"send", "pull"} => item # Null /\ (item = Junk => ~Lossless)

\* The messages not yet handed over are in the queue, in the order they were
\* put, across every stop and restart of the channel (block_queue.h with the
\* loop of controller.cc 241-257).
SendPathInv ==
    /\ QueueIsSuffix
    /\ ThreadHoldsFront
    /\ WireFollowsQueue
    /\ JunkHasCause

\* Without spurious wakeups only the notify() of stop() lets the send thread
\* read an empty queue, so junk is read and sent only while stop() waits for the
\* thread (block_queue.h 30-35 with controller.cc 107-110).
StopExplains ==
    /\ ctl \in {"flagged", "joining"} => stopped
    /\ ~SpuriousWakeups =>
          /\ taker = "woken" /\ queue = <<>> => ctl = "joining"
          /\ spc = "copy" /\ queue = <<>> => ctl = "joining"
          /\ spc \in {"send", "pull"} /\ item = Junk => ctl = "joining"

\* No message is handed to the socket twice or after a later one, though the
\* element stays in the queue while it is sent and the thread may be stopped
\* and replaced at any step (controller.cc 245-255).
InOrder == [][SendItem /\ item # Junk => item > wire]_vars

\* If a read of an empty queue gives a null pointer, no message is skipped:
\* what is handed over next is the successor of what was handed over last.
NothingSkipped == [][Lossless /\ SendItem => item = wire + 1]_vars

\* Without spurious wakeups, an unsent message is dropped from the queue only
\* by a pull that follows the notify() of stop(): while the channel is not
\* being stopped, what is pulled is what was just sent.
LossOnlyWhileStopping ==
    [][(~SpuriousWakeups /\ queue # <<>> /\ queue' = Tail(queue)
           /\ wire # Head(queue))
        => stopped /\ ctl = "joining"]_vars

\* A channel that is running for good hands over every message that was put,
\* the ones that were queued before it was (re)started included, if reads of an
\* empty queue are null: no wakeup is lost between put() and take().
EventuallySent ==
    Lossless /\ <>[](ctl = "running")
        => \A m \in 1 .. MaxPut : (nput >= m) ~> (wire >= m)

\* The path is a link that hands messages over in order.
Link == INSTANCE FifoLink WITH accepted <- nput, handed <- wire

\* Every step of the queue, the send thread and stop/start is a step of the
\* abstract link or leaves it unchanged.
ImplementsLink == Link!Spec

\* "Blocking queue, thread safety." (block_queue.h 10): an element taken from
\* the queue is one that was put in it, so no junk pointer is ever sent.
NoPhantomSend == spc = "send" => item # Junk

=============================================================================
