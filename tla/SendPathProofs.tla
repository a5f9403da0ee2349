---------------------------- MODULE SendPathProofs ----------------------------
(***************************************************************************)
(* Proofs about the outgoing path of a channel, for any number of          *)
(* messages, stops and restarts, whatever a read of an empty queue gives   *)
(* and whether or not wakeups may be spurious.                             *)
(***************************************************************************)
EXTENDS SendPath, SequenceTheorems, TLAPS

\* What the operations of the queue do to a queue of messages: the facts about
\* sequences that the steps below use.
LEMMA PutFacts ==
    ASSUME NEW q \in Seq(Nat \ {0}), NEW m \in Nat \ {0}
    PROVE  /\ Append(q, m) \in Seq(Nat \ {0})
           /\ Len(Append(q, m)) = Len(q) + 1
           /\ Append(q, m)[Len(q) + 1] = m
           /\ \A i \in 1 .. Len(q) : Append(q, m)[i] = q[i]
           /\ Len(q) \in Nat
  BY AppendProperties, LenProperties

\* What pull() leaves in a queue that is not empty: the elements behind the front
\* one, each one place nearer to it.
LEMMA PullFacts ==
    ASSUME NEW q \in Seq(Nat \ {0}), q # <<>>
    PROVE  /\ Tail(q) \in Seq(Nat \ {0})
           /\ Len(Tail(q)) = Len(q) - 1
           /\ \A i \in 1 .. Len(q) - 1 : Tail(q)[i] = q[i + 1]
           /\ Head(q) = q[1]
           /\ Head(q) \in Nat \ {0}
           /\ Len(q) \in Nat \ {0}
  BY HeadTailProperties, LenProperties, EmptySeq

\* What the send thread may read through the reference take() returned: an
\* element of the queue if there is one, and no message otherwise.
LEMMA FrontFacts ==
    ASSUME queue \in Seq(Nat \ {0}), NEW e \in FrontSlot
    PROVE  /\ e \in Nat \cup {Junk}
           /\ queue # <<>> => e = queue[1] /\ e \in Nat \ {0}
           /\ queue = <<>> => e \in FrontOfEmpty /\ e \in {Null, Junk}
<1>1. CASE queue = <<>>
  BY <1>1, QueueAssumption DEF QueueAssumption, FrontSlot, Null
<1>2. CASE queue # <<>>
  BY <1>2, PullFacts DEF FrontSlot
<1> QED
  BY <1>1, <1>2

\* The variables keep their types, and the send thread exists exactly from its
\* creation to its join (block_queue.h, controller.cc 241-257).
THEOREM TypeCorrect == Spec => []TypeOK
<1>1. Init => TypeOK
  BY PathAssumption, EmptySeq
  DEF PathAssumption, Init, QueueInit, ThreadInit, TypeOK, SendPcs, Null
<1>2. TypeOK /\ [Next]_vars => TypeOK'
  <2> SUFFICES ASSUME TypeOK, [Next]_vars
               PROVE  TypeOK'
    OBVIOUS
  <2> USE QueueAssumption, PathAssumption
      DEF QueueAssumption, PathAssumption, TypeOK, SendPcs, Null, Junk
  <2>1. CASE Send
    <3>1. nput + 1 \in Nat \ {0}
      OBVIOUS
    <3>2. queue' \in Seq(Nat \ {0})
      BY <2>1, <3>1, PutFacts DEF Send, Put
    <3> QED
      BY <2>1, <3>2 DEF Send, Put, NotifyAll
  <2>2. CASE StartFlag
    BY <2>2 DEF StartFlag
  <2>3. CASE StartThread
    BY <2>3 DEF StartThread
  <2>4. CASE StopFlag
    BY <2>4 DEF StopFlag
  <2>5. CASE StopNotify
    BY <2>5 DEF StopNotify, Notify, NotifyAll
  <2>6. CASE StopJoin
    BY <2>6 DEF StopJoin
  <2>7. CASE ThreadStep
    <3>1. CASE LoopTest /\ UNCHANGED <<ctl, nput, wire>>
      BY <3>1 DEF LoopTest
    <3>2. CASE TakeReady /\ UNCHANGED <<ctl, nput, wire>>
      BY <3>2 DEF TakeReady, TakeFront, queueVars
    <3>3. CASE TakeBlocks /\ UNCHANGED <<ctl, nput, wire>>
      BY <3>3 DEF TakeBlocks, TakeWait
    <3>4. CASE TakeReturns /\ UNCHANGED <<ctl, nput, wire>>
      BY <3>4 DEF TakeReturns, TakeWoken
    <3>5. CASE CopySlot /\ UNCHANGED <<ctl, nput, wire>>
      BY <3>5, FrontFacts DEF CopySlot
    <3>6. CASE PullItem /\ UNCHANGED <<ctl, nput, wire>>
      <4>1. queue' \in Seq(Nat \ {0})
        BY <3>6, PullFacts DEF PullItem, Pull
      <4> QED
        BY <3>6, <4>1 DEF PullItem, Pull
    <3>7. CASE SendItem /\ wire' = (IF item = Junk THEN wire ELSE item) /\ UNCHANGED <<ctl, nput>>
      BY <3>7 DEF SendItem
    <3> QED
      BY <2>7, <3>1, <3>2, <3>3, <3>4, <3>5, <3>6, <3>7 DEF ThreadStep
  <2>8. CASE WakeSpuriously
    BY <2>8 DEF WakeSpuriously, SpuriousWakeup
  <2>9. CASE UNCHANGED vars
    BY <2>9 DEF vars
  <2> QED
    BY <2>1, <2>2, <2>3, <2>4, <2>5, <2>6, <2>7, <2>8, <2>9 DEF Next
<1> QED
  BY <1>1, <1>2, PTL DEF Spec

\* The inductive invariant of the path holds, so the queue is always the suffix
\* of the messages that were not pulled, and the send thread works on its front
\* (controller.cc 241-257).
THEOREM PathInvariant == Spec => []SendPathInv
<1>1. Init => SendPathInv
  <2> SUFFICES ASSUME Init PROVE SendPathInv
    OBVIOUS
  <2>1. queue = <<>> /\ spc = "none" /\ nput = 0 /\ wire = 0
    BY DEF Init, QueueInit, ThreadInit
  <2>2. Len(queue) = 0
    BY <2>1
  <2>3. First = 1
    BY <2>1, <2>2 DEF First
  <2> QED
    BY <2>1, <2>2, <2>3 DEF SendPathInv, QueueIsSuffix, ThreadHoldsFront,
       WireFollowsQueue, JunkHasCause
<1>2. TypeOK /\ SendPathInv /\ [Next]_vars => SendPathInv'
  <2> SUFFICES ASSUME TypeOK, SendPathInv, [Next]_vars
               PROVE  SendPathInv'
    OBVIOUS
  <2> USE DEF SendPathInv, First, Lossless
  <2>0. /\ queue \in Seq(Nat \ {0}) /\ Len(queue) \in Nat
        /\ queue # <<>> => Len(queue) \in Nat \ {0}
        /\ nput \in Nat /\ wire \in Nat /\ item \in Nat \cup {Junk}
    BY LenProperties, EmptySeq, PathAssumption DEF TypeOK, PathAssumption
  <2>1. CASE Send
    <3>1. /\ queue' \in Seq(Nat \ {0})
          /\ Len(queue') = Len(queue) + 1
          /\ queue'[Len(queue) + 1] = nput + 1
          /\ \A i \in 1 .. Len(queue) : queue'[i] = queue[i]
          /\ nput' = nput + 1
          /\ UNCHANGED <<spc, item, wire>>
      BY <2>0, <2>1, PutFacts DEF Send, Put
    <3>2. First' = First
      BY <2>0, <3>1
    <3>3. QueueIsSuffix'
      <4> SUFFICES ASSUME NEW i \in 1 .. Len(queue')
                   PROVE  queue'[i] = First' + i - 1
        BY DEF QueueIsSuffix
      <4>1. CASE i \in 1 .. Len(queue)
        <5>1. queue[i] = First + i - 1
          BY <4>1 DEF QueueIsSuffix
        <5> QED
          BY <3>1, <3>2, <4>1, <5>1
      <4>2. CASE i = Len(queue) + 1
        BY <2>0, <3>1, <3>2, <4>2
      <4> QED
        BY <2>0, <3>1, <4>1, <4>2
    <3>4. ThreadHoldsFront'
      BY <2>0, <3>1, EmptySeq DEF ThreadHoldsFront
    <3>5. WireFollowsQueue'
      BY <2>0, <3>1 DEF WireFollowsQueue
    <3>6. JunkHasCause'
      BY <3>1 DEF JunkHasCause
    <3> QED
      BY <3>3, <3>4, <3>5, <3>6
  <2>2. ASSUME UNCHANGED <<queue, nput, wire, item>>,
               spc' = spc \/ (spc \notin {"send", "pull"} /\ spc' \notin {"send", "pull"})
        PROVE  SendPathInv'
    BY <2>2 DEF QueueIsSuffix, ThreadHoldsFront, WireFollowsQueue, JunkHasCause
  <2>3. CASE CopySlot /\ UNCHANGED <<ctl, nput, wire>>
    <3>1. PICK e \in FrontSlot :
            item' = e /\ spc' = IF e = Null THEN "loop" ELSE "send"
      BY <2>3 DEF CopySlot
    <3>2. /\ UNCHANGED <<queue, nput, wire>> /\ spc = "copy"
          /\ e \in Nat \cup {Junk}
          /\ queue # <<>> => e = queue[1] /\ e \in Nat \ {0}
          /\ queue = <<>> => e \in FrontOfEmpty /\ e \in {Null, Junk}
      BY <2>0, <2>3, FrontFacts DEF CopySlot
    <3>3. queue # <<>> => queue[1] = First
      BY <2>0 DEF QueueIsSuffix
    <3>4. QueueIsSuffix'
      BY <3>2 DEF QueueIsSuffix
    <3>5. ThreadHoldsFront'
      BY <2>0, <3>1, <3>2, <3>3 DEF ThreadHoldsFront, Null, Junk
    <3>6. WireFollowsQueue'
      BY <2>0, <3>1, <3>2 DEF WireFollowsQueue
    <3>7. JunkHasCause'
      BY <2>0, <3>1, <3>2 DEF JunkHasCause, Null, Junk
    <3> QED
      BY <3>4, <3>5, <3>6, <3>7
  <2>4. CASE SendItem /\ wire' = (IF item = Junk THEN wire ELSE item)
             /\ UNCHANGED <<ctl, nput>>
    <3>1. /\ UNCHANGED <<queue, nput, item>> /\ spc = "send" /\ spc' = "pull"
          /\ wire' = IF item = Junk THEN wire ELSE item
      BY <2>4 DEF SendItem
    <3>2. QueueIsSuffix'
      BY <3>1 DEF QueueIsSuffix
    <3>3. ThreadHoldsFront'
      BY <3>1 DEF ThreadHoldsFront
    <3>4. WireFollowsQueue'
      BY <3>1 DEF WireFollowsQueue, ThreadHoldsFront
    <3>5. JunkHasCause'
      BY <3>1 DEF JunkHasCause
    <3> QED
      BY <3>2, <3>3, <3>4, <3>5
  <2>5. CASE PullItem /\ UNCHANGED <<ctl, nput, wire>>
    <3>1. /\ UNCHANGED <<nput, item, wire>> /\ spc = "pull" /\ spc' = "loop"
          /\ queue' = IF queue = <<>> THEN queue ELSE Tail(queue)
      BY <2>5 DEF PullItem, Pull
    <3>2. CASE queue = <<>>
      BY <3>1, <3>2 DEF QueueIsSuffix, ThreadHoldsFront, WireFollowsQueue,
         JunkHasCause
    <3>3. CASE queue # <<>>
      <4>1. /\ Len(queue') = Len(queue) - 1
            /\ \A i \in 1 .. Len(queue) - 1 : queue'[i] = queue[i + 1]
        BY <2>0, <3>1, <3>3, PullFacts
      <4>2. First' = First + 1
        <5>1. nput' = nput
          BY <3>1
        <5>2. First' = nput' - Len(queue') + 1
          OBVIOUS
        <5> QED
          BY <2>0, <4>1, <5>1, <5>2
      <4>3. QueueIsSuffix'
        <5> SUFFICES ASSUME NEW i \in 1 .. Len(queue')
                     PROVE  queue'[i] = First' + i - 1
          BY DEF QueueIsSuffix
        <5>1. i \in 1 .. Len(queue) - 1 /\ i + 1 \in 1 .. Len(queue)
          BY <2>0, <4>1
        <5>2. queue[i + 1] = First + (i + 1) - 1
          BY <5>1 DEF QueueIsSuffix
        <5>3. First \in Int
          BY <2>0
        <5> QED
          BY <4>1, <4>2, <5>1, <5>2, <5>3
      <4>4. ThreadHoldsFront' /\ JunkHasCause'
        BY <3>1 DEF ThreadHoldsFront, JunkHasCause
      <4>5. WireFollowsQueue'
        BY <2>0, <3>1, <3>3, <4>2 DEF WireFollowsQueue, JunkHasCause
      <4> QED
        BY <4>3, <4>4, <4>5
    <3> QED
      BY <3>2, <3>3
  <2>6. CASE StartFlag \/ StartThread \/ StopFlag \/ StopNotify \/ StopJoin
             \/ WakeSpuriously \/ UNCHANGED vars
    <3>1. StartThread => spc = "none"
      BY DEF StartThread, TypeOK
    <3> QED
      BY <2>2, <2>6, <3>1 DEF StartFlag, StartThread, StopFlag, StopNotify,
         Notify, StopJoin, WakeSpuriously, SpuriousWakeup, vars
  <2>7. CASE /\ LoopTest \/ TakeReady \/ TakeBlocks \/ TakeReturns
             /\ UNCHANGED <<ctl, nput, wire>>
    BY <2>2, <2>7 DEF LoopTest, TakeReady, TakeFront, queueVars, TakeBlocks,
       TakeWait, TakeReturns, TakeWoken
  <2> QED
    BY <2>1, <2>3, <2>4, <2>5, <2>6, <2>7 DEF Next, ThreadStep
<1> QED
  BY <1>1, <1>2, TypeCorrect, PTL DEF Spec

-----------------------------------------------------------------------------

\* The messages are handed to the socket in the order in which they were put,
\* each at most once, across stops and restarts (controller.cc 245-255).
THEOREM HandedInOrder == Spec => InOrder
<1>1. TypeOK /\ SendPathInv => [SendItem /\ item # Junk => item > wire]_vars
  <2> SUFFICES ASSUME TypeOK, SendPathInv, SendItem, item # Junk
               PROVE  item > wire
    OBVIOUS
  <2>1. spc = "send"
    BY DEF SendItem
  <2>2. item = First
    BY <2>1 DEF SendPathInv, ThreadHoldsFront
  <2>3. wire < First
    BY <2>1 DEF SendPathInv, WireFollowsQueue
  <2>4. wire \in Nat /\ item \in Int
    BY DEF TypeOK, Junk
  <2> QED
    BY <2>2, <2>3, <2>4
<1> QED
  BY <1>1, TypeCorrect, PathInvariant, PTL DEF InOrder

\* If a read of an empty queue gives a null pointer then no message is skipped,
\* whether or not wakeups may be spurious (controller.cc 245-255).
THEOREM HandedWithoutGap == Spec => NothingSkipped
<1>1. TypeOK /\ SendPathInv => [Lossless /\ SendItem => item = wire + 1]_vars
  <2> SUFFICES ASSUME TypeOK, SendPathInv, Lossless, SendItem
               PROVE  item = wire + 1
    OBVIOUS
  <2>1. spc = "send"
    BY DEF SendItem
  <2>2. item # Junk
    BY <2>1 DEF SendPathInv, JunkHasCause
  <2>3. item = First
    BY <2>1, <2>2 DEF SendPathInv, ThreadHoldsFront
  <2>4. wire = First - 1
    BY <2>1 DEF SendPathInv, WireFollowsQueue
  <2>5. item \in Int
    BY DEF TypeOK, Junk
  <2> QED
    BY <2>3, <2>4, <2>5
<1> QED
  BY <1>1, TypeCorrect, PathInvariant, PTL DEF NothingSkipped

\* The send thread reads an empty queue only because of stop(), if no wakeup is
\* spurious (block_queue.h 30-35).
THEOREM StopExplainsJunk == Spec => []StopExplains
<1>1. Init => StopExplains
  BY DEF Init, QueueInit, ThreadInit, StopExplains
<1>2. TypeOK /\ StopExplains /\ [Next]_vars => StopExplains'
  <2> SUFFICES ASSUME TypeOK, StopExplains, [Next]_vars
               PROVE  StopExplains'
    OBVIOUS
  <2> USE DEF StopExplains
  <2>1. CASE Send
    <3>1. queue' # <<>>
      <4>1. nput + 1 \in Nat \ {0} /\ queue \in Seq(Nat \ {0})
        BY PathAssumption DEF TypeOK, PathAssumption
      <4>2. queue' = Append(queue, nput + 1)
        BY <2>1 DEF Send, Put
      <4> QED
        BY <4>1, <4>2, PutFacts, EmptySeq
    <3> QED
      BY <2>1, <3>1 DEF Send
  <2>2. CASE StartFlag
    BY <2>2 DEF StartFlag, TypeOK
  <2>3. CASE StartThread
    BY <2>3 DEF StartThread, TypeOK
  <2>4. CASE StopFlag
    BY <2>4 DEF StopFlag
  <2>5. CASE StopNotify
    BY <2>5 DEF StopNotify, Notify
  <2>6. CASE StopJoin
    BY <2>6 DEF StopJoin, TypeOK
  <2>7. CASE ThreadStep
    <3>1. CASE LoopTest /\ UNCHANGED <<ctl, nput, wire>>
      BY <3>1 DEF LoopTest, TypeOK
    <3>2. CASE TakeReady /\ UNCHANGED <<ctl, nput, wire>>
      BY <3>2 DEF TakeReady, TakeFront, queueVars
    <3>3. CASE TakeBlocks /\ UNCHANGED <<ctl, nput, wire>>
      BY <3>3 DEF TakeBlocks, TakeWait
    <3>4. CASE TakeReturns /\ UNCHANGED <<ctl, nput, wire>>
      BY <3>4 DEF TakeReturns, TakeWoken
    <3>5. CASE CopySlot /\ UNCHANGED <<ctl, nput, wire>>
      <4>1. PICK e \in FrontSlot :
              item' = e /\ spc' = IF e = Null THEN "loop" ELSE "send"
        BY <3>5 DEF CopySlot
      <4>2. queue # <<>> => e \in Nat \ {0}
        BY FrontFacts DEF TypeOK
      <4>3. queue # <<>> => item' # Junk
        BY <4>1, <4>2 DEF Junk
      <4> QED
        BY <3>5, <4>1, <4>3 DEF CopySlot, TypeOK
    <3>6. CASE PullItem /\ UNCHANGED <<ctl, nput, wire>>
      BY <3>6 DEF PullItem, Pull, TypeOK
    <3>7. CASE SendItem /\ UNCHANGED <<ctl, nput>>
      BY <3>7 DEF SendItem
    <3> QED
      BY <2>7, <3>1, <3>2, <3>3, <3>4, <3>5, <3>6, <3>7 DEF ThreadStep
  <2>8. CASE WakeSpuriously
    BY <2>8 DEF WakeSpuriously, SpuriousWakeup
  <2>9. CASE UNCHANGED vars
    BY <2>9 DEF vars
  <2> QED
    BY <2>1, <2>2, <2>3, <2>4, <2>5, <2>6, <2>7, <2>8, <2>9 DEF Next
<1> QED
  BY <1>1, <1>2, TypeCorrect, PTL DEF Spec

\* Without spurious wakeups, what is pulled was just sent, except while stop()
\* waits for the send thread (block_queue.h 38-48, controller.cc 245-255).
THEOREM LossNeedsStop == Spec => LossOnlyWhileStopping
<1>1. TypeOK /\ SendPathInv /\ StopExplains /\ [Next]_vars
        => [(~SpuriousWakeups /\ queue # <<>> /\ queue' = Tail(queue)
                /\ wire # Head(queue))
             => stopped /\ ctl = "joining"]_vars
  <2> SUFFICES ASSUME TypeOK, SendPathInv, StopExplains, [Next]_vars,
                      ~SpuriousWakeups, queue # <<>>, queue' = Tail(queue),
                      wire # Head(queue)
               PROVE  stopped /\ ctl = "joining"
    OBVIOUS
  <2>1. /\ queue \in Seq(Nat \ {0}) /\ Len(queue) \in Nat \ {0}
        /\ Len(queue') = Len(queue) - 1 /\ Head(queue) = queue[1]
    BY PullFacts DEF TypeOK
  <2>2. queue' # queue
    <3> SUFFICES ASSUME queue' = queue PROVE FALSE
      OBVIOUS
    <3>1. Len(queue') = Len(queue)
      OBVIOUS
    <3> QED
      BY <2>1, <3>1
  <2>3. ~Send
    <3> SUFFICES ASSUME Send PROVE FALSE
      OBVIOUS
    <3>1. nput + 1 \in Nat \ {0}
      BY PathAssumption DEF TypeOK, PathAssumption
    <3>2. queue' = Append(queue, nput + 1)
      BY DEF Send, Put
    <3>3. Len(queue') = Len(queue) + 1
      BY <2>1, <3>1, <3>2, PutFacts
    <3> QED
      BY <2>1, <3>3
  <2>4. PullItem
    BY <2>2, <2>3 DEF Next, StartFlag, StartThread, StopFlag, StopNotify,
       Notify, StopJoin, ThreadStep, LoopTest, TakeReady, TakeFront, queueVars,
       TakeBlocks, TakeWait, TakeReturns, TakeWoken, CopySlot, SendItem,
       WakeSpuriously, SpuriousWakeup, vars
  <2>5. spc = "pull"
    BY <2>4 DEF PullItem
  <2>6. queue[1] = First
    BY <2>1, PathAssumption
    DEF SendPathInv, QueueIsSuffix, First, TypeOK, PathAssumption
  <2>7. item = Junk
    BY <2>1, <2>5, <2>6 DEF SendPathInv, WireFollowsQueue
  <2> QED
    BY <2>5, <2>7 DEF StopExplains
<1> QED
  BY <1>1, TypeCorrect, PathInvariant, StopExplainsJunk, PTL
  DEF Spec, LossOnlyWhileStopping

\* The path implements the abstract link: a put is Accept, a send of a message
\* is Hand, and every other step leaves the link unchanged.
THEOREM PathImplementsLink == Spec => ImplementsLink
<1>1. Init => Link!Init
  BY DEF Init, Link!Init
<1>2. TypeOK /\ SendPathInv /\ [Next]_vars => [Link!Next]_Link!vars
  <2> SUFFICES ASSUME TypeOK, SendPathInv, [Next]_vars
               PROVE  [Link!Next]_Link!vars
    OBVIOUS
  <2>1. CASE Send
    BY <2>1 DEF Send, Link!Next, Link!Accept
  <2>2. CASE SendItem /\ wire' = (IF item = Junk THEN wire ELSE item)
             /\ UNCHANGED <<ctl, nput>>
    <3>1. CASE item = Junk
      BY <2>2, <3>1 DEF Link!vars
    <3>2. CASE item # Junk
      <4>1. queue # <<>> /\ item = First
        BY <2>2, <3>2 DEF SendItem, SendPathInv, ThreadHoldsFront
      <4>2. wire < First /\ (Lossless => wire = First - 1)
        BY <2>2 DEF SendItem, SendPathInv, WireFollowsQueue
      <4>3. First \in Int /\ First <= nput /\ nput \in Nat /\ wire \in Nat
        <5>1. queue \in Seq(Nat \ {0}) /\ nput \in Nat /\ wire \in Nat
          BY PathAssumption DEF TypeOK, PathAssumption
        <5>2. Len(queue) \in Nat \ {0}
          BY <4>1, <5>1, PullFacts
        <5> QED
          BY <5>1, <5>2 DEF First
      <4>4. First \in wire + 1 .. nput /\ (Lossless => First = wire + 1)
        BY <4>2, <4>3
      <4>5. wire' = First /\ nput' = nput
        BY <2>2, <3>2, <4>1
      <4> QED
        BY <4>4, <4>5 DEF Link!Next, Link!Hand
    <3> QED
      BY <3>1, <3>2
  <2>3. CASE UNCHANGED <<nput, wire>>
    BY <2>3 DEF Link!vars
  <2> QED
    BY <2>1, <2>2, <2>3 DEF Next, StartFlag, StartThread, StopFlag, StopNotify,
       StopJoin, ThreadStep, WakeSpuriously, vars
<1> QED
  BY <1>1, <1>2, TypeCorrect, PathInvariant, PTL
  DEF Spec, ImplementsLink, Link!Spec

=============================================================================
