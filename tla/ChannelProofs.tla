---------------------------- MODULE ChannelProofs ----------------------------
(***************************************************************************)
(* Proofs about module Channel, for every number of sockets and detached   *)
(* threads, any length of the send queue, and both channels.               *)
(*                                                                         *)
(* TypeInv says where each agent may be and what the local variables hold. *)
(* ThreadsOwned is inductive on top of it, and SocketOwned, StateReported  *)
(* and BeatFollowsState are together; the properties that the runs check   *)
(* follow.  What is said of a channel that no stop() overlaps needs        *)
(* OneListener, and what is said of its socket a User that does not stop.  *)
(***************************************************************************)
EXTENDS Channel, SequenceTheorems, TLAPS

\* A notification has ended before the next one starts: the listen timer
\* expires every 5 s.
OneListener == \A l, m \in Listeners : l = m

-----------------------------------------------------------------------------
(* Types, and the places of the four kinds of thread                       *)

Pcs == {"idle", "over"} \cup StartPcs \cup StopPcs \cup ListenPcs

WellPlaced ==
    /\ at \in [Agents -> Pcs]
    /\ at[User] \notin ListenPcs
    /\ ~UserStops => at[User] \notin StopPcs
    /\ \A r \in Retriers : at[r] \in {"idle"} \cup StartPcs
    /\ \A l \in Listeners : at[l] \in {"idle"} \cup ListenPcs \cup StopPcs

\* Somebody who waits on the condition variable is the send thread in take().
WaitInTake == taker # "out" => spc = "take"

\* `stopped' of the Timer is false only after a kernel timer was created.
BeatStopped == bstopped \/ beats > 0

\* connect() and the listen timer are reached with a socket.
OpenHasSocket == \A a \in Agents : at[a] \in {"connect", "timer"} => fd > 0

\* Past the test for an invalid state a listener holds a ConnectState.
SeenIsState ==
    \A l \in Listeners : at[l] \in {"idle", "get", "invalid"} \/ seen[l] # "INVALID"

TypeInv ==
    /\ TypeOK
    /\ WellPlaced
    /\ WaitInTake
    /\ BeatStopped
    /\ OpenHasSocket
    /\ SeenIsState

\* start(), stop() and listen() are made of different statements.
LEMMA Disjoint ==
    /\ StartPcs \cap StopPcs = {}
    /\ StartPcs \cap ListenPcs = {}
    /\ StopPcs \cap ListenPcs = {}
    /\ {"idle", "over"} \cap (StartPcs \cup StopPcs \cup ListenPcs) = {}
  BY DEF StartPcs, StopPcs, ListenPcs

\* Which agents run start(), stop() and listen().
LEMMA Roles ==
    ASSUME WellPlaced, NEW a \in Agents
    PROVE  /\ at[a] \in StartPcs => a \notin Listeners
           /\ at[a] \in StopPcs => a \notin Retriers /\ (a = User => UserStops)
           /\ at[a] \in ListenPcs => a \in Listeners
  BY Disjoint DEF WellPlaced, Agents

\* An agent that goes to a statement of its own code keeps everybody in place.
LEMMA Moves ==
    ASSUME WellPlaced, NEW a \in Agents, NEW pc \in Pcs, Goto(a, pc),
           a = User => pc \notin ListenPcs /\ (pc \in StopPcs => UserStops),
           a \in Retriers => pc \in {"idle"} \cup StartPcs,
           a \in Listeners => pc \in {"idle"} \cup ListenPcs \cup StopPcs
    PROVE  WellPlaced'
  BY ChannelAssumption DEF WellPlaced, Agents, Goto, ChannelAssumption

\* So does the return of stop() to its caller.
LEMMA Returns ==
    ASSUME WellPlaced, NEW a \in Agents, at[a] \in StopPcs, Return(a)
    PROVE  WellPlaced'
<1>1. CASE a = User
  <2>1. Goto(a, "over")
    BY <1>1 DEF Return
  <2> QED
    BY <1>1, <2>1, Moves, ChannelAssumption
    DEF Pcs, StopPcs, ListenPcs, ChannelAssumption
<1>2. CASE a # User
  <2>1. Goto(a, "spawn") /\ a \notin Retriers
    BY <1>2, Roles DEF Return
  <2> QED
    BY <1>2, <2>1, Moves DEF Pcs, ListenPcs
<1> QED
  BY <1>1, <1>2

\* Every step keeps every agent in its own code.
LEMMA Placement == TypeInv /\ [Next]_vars => WellPlaced'
<1> SUFFICES ASSUME TypeInv, [Next]_vars PROVE WellPlaced'
  OBVIOUS
<1> USE ChannelAssumption
    DEF TypeInv, Agents, Pcs, StartPcs, StopPcs, ListenPcs, ChannelAssumption
<1>1. ASSUME NEW a \in Agents, OpenSocket(a) PROVE WellPlaced'
  BY <1>1, Roles, Moves, Returns DEF OpenSocket
<1>2. ASSUME NEW a \in Agents, OpenConnect(a) PROVE WellPlaced'
  BY <1>2, Roles, Moves, Returns DEF OpenConnect
<1>3. ASSUME NEW a \in Agents, OpenTimer(a) PROVE WellPlaced'
  BY <1>3, Roles, Moves, Returns DEF OpenTimer
<1>4. ASSUME NEW a \in Agents, StartClear(a) PROVE WellPlaced'
  BY <1>4, Roles, Moves, Returns DEF StartClear
<1>5. ASSUME NEW a \in Agents, StartRecv(a) PROVE WellPlaced'
  BY <1>5, Roles, Moves, Returns DEF StartRecv
<1>6. ASSUME NEW a \in Agents, StartSend(a) PROVE WellPlaced'
  BY <1>6, Roles, Moves, Returns DEF StartSend
<1>7. ASSUME NEW a \in Agents, StopCheck(a) PROVE WellPlaced'
  BY <1>7, Roles, Moves, Returns DEF StopCheck
<1>8. ASSUME NEW a \in Agents, StopBeat(a) PROVE WellPlaced'
  BY <1>8, Roles, Moves, Returns DEF StopBeat
<1>9. ASSUME NEW a \in Agents, StopFlag(a) PROVE WellPlaced'
  BY <1>9, Roles, Moves, Returns DEF StopFlag
<1>10. ASSUME NEW a \in Agents, StopJoinRecv(a) PROVE WellPlaced'
  BY <1>10, Roles, Moves, Returns DEF StopJoinRecv
<1>11. ASSUME NEW a \in Agents, StopNotify(a) PROVE WellPlaced'
  BY <1>11, Roles, Moves, Returns DEF StopNotify
<1>12. ASSUME NEW a \in Agents, StopJoinSend(a) PROVE WellPlaced'
  BY <1>12, Roles, Moves, Returns DEF StopJoinSend
<1>13. ASSUME NEW a \in Agents, StopClose(a) PROVE WellPlaced'
  BY <1>13, Roles, Moves, Returns DEF StopClose
<1>14. ASSUME NEW a \in Agents, StopCloseFd(a) PROVE WellPlaced'
  BY <1>14, Roles, Moves, Returns DEF StopCloseFd
<1>15. ASSUME NEW a \in Agents, StopReset(a) PROVE WellPlaced'
  BY <1>15, Roles, Moves, Returns DEF StopReset
<1>16. ASSUME NEW l \in Listeners, Fire(l) PROVE WellPlaced'
  BY <1>16, Roles, Moves DEF Fire
<1>17. ASSUME NEW l \in Listeners, ListenGet(l) PROVE WellPlaced'
  BY <1>17, Roles, Moves DEF ListenGet
<1>18. ASSUME NEW l \in Listeners, ListenInvalid(l) PROVE WellPlaced'
  BY <1>18, Roles, Moves DEF ListenInvalid
<1>19. ASSUME NEW l \in Listeners, ListenCompare(l) PROVE WellPlaced'
  BY <1>19, Roles, Moves DEF ListenCompare
<1>20. ASSUME NEW l \in Listeners, ListenSet(l) PROVE WellPlaced'
  BY <1>20, Roles, Moves DEF ListenSet
<1>21. ASSUME NEW l \in Listeners, ListenCall(l) PROVE WellPlaced'
  BY <1>21, Roles, Moves DEF ListenCall
<1>22. ASSUME NEW l \in Listeners, BeatStart(l) PROVE WellPlaced'
  BY <1>22, Roles, Moves DEF BeatStart
<1>23. ASSUME NEW l \in Listeners, Spawn(l) PROVE WellPlaced'
  BY <1>23 DEF Spawn, WellPlaced
<1>24. ASSUME NEW l \in Listeners, Tell(l) PROVE WellPlaced'
  BY <1>24, Roles, Moves DEF Tell
<1>25. CASE UserStop
  BY <1>25, Roles, Moves DEF UserStop
<1>26. CASE UNCHANGED at
  BY <1>26 DEF WellPlaced
<1> QED
  BY <1>1, <1>2, <1>3, <1>4, <1>5, <1>6, <1>7, <1>8, <1>9, <1>10, <1>11,
     <1>12, <1>13, <1>14, <1>15, <1>16, <1>17, <1>18, <1>19, <1>20, <1>21,
     <1>22, <1>23, <1>24, <1>25, <1>26
  DEF Next, AgentStep, Start, Stop, Listen, RecvTest, RecvData, RecvEnd,
      SendThreadStep, Produce, GiveUp, Drop, vars

\* The types, where each agent is and what it holds there, for every run.
THEOREM TypeInvariant == Spec => []TypeInv
<1>1. Init => TypeInv
  <2> SUFFICES ASSUME Init PROVE TypeInv
    OBVIOUS
  <2>1. WellPlaced /\ OpenHasSocket /\ SeenIsState
    BY ChannelAssumption
    DEF Init, WellPlaced, OpenHasSocket, SeenIsState, Agents, Pcs, StartPcs,
        StopPcs, ListenPcs, ChannelAssumption
  <2>2. queue \in Seq({Msg}) /\ Len(queue) <= MaxQueue
    BY EmptySeq, ChannelAssumption DEF Init, QueueInit, ChannelAssumption
  <2>3. WaitInTake /\ BeatStopped
    BY DEF Init, QueueInit, WaitInTake, BeatStopped
  <2>4. sock \in [1 .. MaxConn -> {"unused", "fresh", "estab", "lost", "closed"}]
    BY DEF Init
  <2>5. fd \in 0 .. MaxConn /\ tmr \in 0 .. MaxConn /\ rsock \in 0 .. MaxConn
    BY ChannelAssumption DEF Init, ChannelAssumption
  <2>6. item \in {Null, Junk, Msg} /\ taker \in {"out", "waiting", "woken"}
        /\ stopped \in BOOLEAN /\ spc \in SendPcs
    BY DEF Init, QueueInit, ThreadInit, SendPcs
  <2> QED
    BY <2>1, <2>2, <2>3, <2>4, <2>5, <2>6
    DEF Init, TypeInv, TypeOK, WellPlaced, Pcs, ConnectState
<1>2. TypeInv /\ [Next]_vars => TypeInv'
  <2> SUFFICES ASSUME TypeInv, [Next]_vars PROVE TypeInv'
    OBVIOUS
  <2>0. /\ WellPlaced'
        /\ at \in [Agents -> Pcs] /\ at' \in [Agents -> Pcs]
    BY Placement DEF TypeInv, WellPlaced
  <2> USE ChannelAssumption
      DEF ChannelAssumption, TypeInv, TypeOK, WaitInTake, BeatStopped,
          OpenHasSocket, SeenIsState, Pcs, Agents, Goto, Return, netVars, recvVars,
          sendVars, queueVars, threadVars, reportVars, beatVars, ghostVars
  <2>1. ASSUME NEW a \in Agents, OpenSocket(a) PROVE TypeInv'
    BY <2>0, <2>1 DEF OpenSocket
  <2>2. ASSUME NEW a \in Agents, OpenConnect(a) PROVE TypeInv'
    BY <2>0, <2>2 DEF OpenConnect
  <2>3. ASSUME NEW a \in Agents, OpenTimer(a) PROVE TypeInv'
    <3>1. fd \in 1 .. MaxConn
      BY <2>3 DEF OpenTimer
    <3>2. armed' \subseteq 1 .. MaxConn /\ tmr' \in 0 .. MaxConn
      BY <2>3, <3>1 DEF OpenTimer
    <3> QED
      BY <2>0, <2>3, <3>2 DEF OpenTimer
  <2>4. ASSUME NEW a \in Agents, StartClear(a) PROVE TypeInv'
    BY <2>0, <2>4 DEF StartClear
  <2>5. ASSUME NEW a \in Agents, StartRecv(a) PROVE TypeInv'
    <3>1. TypeOK'
      BY <2>0, <2>5 DEF StartRecv
    <3>2. OpenHasSocket' /\ SeenIsState'
      BY <2>0, <2>5 DEF StartRecv
    <3> QED
      BY <2>0, <2>5, <3>1, <3>2 DEF StartRecv
  <2>6. ASSUME NEW a \in Agents, StartSend(a) PROVE TypeInv'
    <3>0. spc' \in SendPcs /\ crashed' \in BOOLEAN
      BY <2>6 DEF StartSend, SendPcs
    <3>1. TypeOK'
      BY <2>0, <2>6, <3>0 DEF StartSend
    <3>2. OpenHasSocket' /\ SeenIsState'
      BY <2>0, <2>6 DEF StartSend
    <3> QED
      BY <2>0, <2>6, <3>1, <3>2 DEF StartSend
  <2>7. ASSUME NEW a \in Agents, StopCheck(a) PROVE TypeInv'
    BY <2>0, <2>7 DEF StopCheck
  <2>8. ASSUME NEW a \in Agents, StopBeat(a) PROVE TypeInv'
    BY <2>0, <2>8 DEF StopBeat
  <2>9. ASSUME NEW a \in Agents, StopFlag(a) PROVE TypeInv'
    BY <2>0, <2>9 DEF StopFlag
  <2>10. ASSUME NEW a \in Agents, StopJoinRecv(a) PROVE TypeInv'
    BY <2>0, <2>10 DEF StopJoinRecv
  <2>11. ASSUME NEW a \in Agents, StopNotify(a) PROVE TypeInv'
    BY <2>0, <2>11 DEF StopNotify, Notify, NotifyAll
  <2>12. ASSUME NEW a \in Agents, StopJoinSend(a) PROVE TypeInv'
    <3>1. TypeOK'
      BY <2>0, <2>12 DEF StopJoinSend, SendPcs
    <3>2. OpenHasSocket' /\ SeenIsState'
      BY <2>0, <2>12 DEF StopJoinSend
    <3> QED
      BY <2>0, <2>12, <3>1, <3>2 DEF StopJoinSend
  <2>13. ASSUME NEW a \in Agents, StopClose(a) PROVE TypeInv'
    <3>1. armed' \subseteq 1 .. MaxConn /\ at' = [at EXCEPT ![a] = at'[a]]
      BY <2>0, <2>13 DEF StopClose
    <3>2. at'[a] \in {"over", "spawn", "closefd"}
      BY <2>0, <2>13 DEF StopClose
    <3> QED
      BY <2>0, <2>13, <3>1, <3>2 DEF StopClose
  <2>14. ASSUME NEW a \in Agents, StopCloseFd(a) PROVE TypeInv'
    <3>1. TypeOK'
      BY <2>0, <2>14 DEF StopCloseFd
    <3>2. OpenHasSocket' /\ SeenIsState'
      BY <2>0, <2>14 DEF StopCloseFd
    <3> QED
      BY <2>0, <2>14, <3>1, <3>2 DEF StopCloseFd
  <2>15. ASSUME NEW a \in Agents, StopReset(a) PROVE TypeInv'
    BY <2>0, <2>15 DEF StopReset, ConnectState
  <2>16. ASSUME NEW l \in Listeners, Fire(l) PROVE TypeInv'
    BY <2>0, <2>16 DEF Fire
  <2>17. ASSUME NEW l \in Listeners, ListenGet(l) PROVE TypeInv'
    BY <2>0, <2>17 DEF ListenGet, TcpInfo, ConnectState
  <2>18. ASSUME NEW l \in Listeners, ListenInvalid(l) PROVE TypeInv'
    BY <2>0, <2>18 DEF ListenInvalid, ConnectState
  <2>19. ASSUME NEW l \in Listeners, ListenCompare(l) PROVE TypeInv'
    BY <2>0, <2>19 DEF ListenCompare
  <2>20. ASSUME NEW l \in Listeners, ListenSet(l) PROVE TypeInv'
    BY <2>0, <2>20 DEF ListenSet, ConnectState
  <2>21. ASSUME NEW l \in Listeners, ListenCall(l) PROVE TypeInv'
    BY <2>0, <2>21 DEF ListenCall, ConnectState
  <2>22. ASSUME NEW l \in Listeners, BeatStart(l) PROVE TypeInv'
    <3>1. CASE beats' = beats + 1 /\ bstopped' = FALSE
      <4>1. beats' \in Nat /\ beats' > 0
        BY <3>1
      <4> QED
        BY <2>0, <2>22, <3>1, <4>1 DEF BeatStart
    <3>2. CASE UNCHANGED <<beats, bstopped>>
      BY <2>0, <2>22, <3>2 DEF BeatStart
    <3> QED
      BY <2>22, <3>1, <3>2 DEF BeatStart
  <2>23. ASSUME NEW l \in Listeners, Spawn(l) PROVE TypeInv'
    <3>1. TypeOK'
      BY <2>0, <2>23 DEF Spawn
    <3>2. OpenHasSocket' /\ SeenIsState'
      BY <2>0, <2>23 DEF Spawn
    <3> QED
      BY <2>0, <2>23, <3>1, <3>2 DEF Spawn
  <2>24. ASSUME NEW l \in Listeners, Tell(l) PROVE TypeInv'
    <3>1. ticks' \in BOOLEAN
      BY <2>24 DEF Tell
    <3> QED
      BY <2>0, <2>24, <3>1 DEF Tell, ConnectState
  <2>25. CASE UserStop
    BY <2>0, <2>25 DEF UserStop
  <2>26. CASE RecvTest
    BY <2>0, <2>26 DEF RecvTest
  <2>27. CASE RecvData
    BY <2>0, <2>27 DEF RecvData
  <2>28. CASE RecvEnd
    BY <2>0, <2>28 DEF RecvEnd
  <2>29. CASE Drop
    BY <2>0, <2>29 DEF Drop
  <2>30. CASE Produce
    <3>1. /\ queue' \in Seq({Msg})
          /\ Len(queue') = Len(queue) + 1 /\ Len(queue) < MaxQueue
      BY <2>30, AppendProperties DEF Produce, Put
    <3> QED
      BY <2>0, <2>30, <3>1, LenProperties DEF Produce, Put, NotifyAll
  <2>31. CASE SendThreadStep
    <3> USE <2>31 DEF SendThreadStep, SendPcs
    <3>1. CASE LoopTest
      BY <2>0, <3>1 DEF LoopTest
    <3>2. CASE TakeReady
      BY <2>0, <3>2 DEF TakeReady, TakeFront
    <3>3. CASE TakeBlocks
      BY <2>0, <3>3 DEF TakeBlocks, TakeWait
    <3>4. CASE TakeReturns
      BY <2>0, <3>4 DEF TakeReturns, TakeWoken
    <3>5. CASE CopySlot
      <4>1. FrontSlot \subseteq {Null, Junk, Msg}
        BY HeadTailProperties, QueueAssumption DEF FrontSlot, QueueAssumption
      <4> QED
        BY <2>0, <3>5, <4>1 DEF CopySlot
    <3>6. CASE SendItem
      BY <2>0, <3>6 DEF SendItem
    <3>7. CASE PullItem
      <4>1. queue' \in Seq({Msg}) /\ Len(queue') <= MaxQueue
        BY <3>7, HeadTailProperties, LenProperties DEF PullItem, Pull
      <4> QED
        BY <2>0, <3>7, <4>1 DEF PullItem, Pull
    <3> QED
      BY <3>1, <3>2, <3>3, <3>4, <3>5, <3>6, <3>7
  <2>32. CASE UNCHANGED vars
    BY <2>0, <2>32 DEF vars
  <2>33. CASE GiveUp
    BY <2>0, <2>33 DEF GiveUp
  <2> QED
    BY <2>1, <2>2, <2>3, <2>4, <2>5, <2>6, <2>7, <2>8, <2>9, <2>10, <2>11,
       <2>12, <2>13, <2>14, <2>15, <2>16, <2>17, <2>18, <2>19, <2>20, <2>21,
       <2>22, <2>23, <2>24, <2>25, <2>26, <2>27, <2>28, <2>29, <2>30, <2>31,
       <2>32, <2>33
    DEF Next, AgentStep, Start, Stop, Listen
<1> QED
  BY <1>1, <1>2, PTL DEF Spec

\* The type invariant of the model, for any bound on sockets and queue.
THEOREM TypeCorrect == Spec => []TypeOK
<1>1. TypeInv => TypeOK
  BY DEF TypeInv
<1> QED
  BY <1>1, TypeInvariant, PTL

-----------------------------------------------------------------------------
(* The threads of the channel                                              *)

\* The send thread changes nothing but the queue and itself, and neither ends
\* by being joined nor begins without start().
LEMMA SendThreadFrame ==
    ASSUME TypeInv, SendThreadStep
    PROVE  /\ UNCHANGED <<netVars, recvVars, at, reportVars, beatVars,
                          ghostVars, stopped>>
           /\ spc' = "none" <=> spc = "none"
  BY DEF SendThreadStep, LoopTest, TakeReady, TakeFront, TakeBlocks, TakeWait,
         TakeReturns, TakeWoken, CopySlot, SendItem, PullItem

\* ThreadsOwned needs nothing but the places of the agents to be inductive.
LEMMA ThreadsStep ==
    ASSUME OneListener, TypeInv, ThreadsOwned, [Next]_vars
    PROVE  ThreadsOwned'
<1> SUFFICES ASSUME ~overlap' PROVE ThreadsOwned'
  BY DEF ThreadsOwned
<1> USE ChannelAssumption
    DEF OneListener, ChannelAssumption, TypeInv, TypeOK, WellPlaced, Pcs,
        Agents, Goto, Return, netVars, recvVars, sendVars, queueVars,
        threadVars, reportVars, beatVars, ghostVars, ThreadsOwned, SomeAt,
        Busy, Halted, StartPcs, StopPcs, ListenPcs
<1>1. ASSUME NEW a \in Agents, OpenSocket(a) PROVE ThreadsOwned'
  BY <1>1 DEF OpenSocket
<1>2. ASSUME NEW a \in Agents, OpenConnect(a) PROVE ThreadsOwned'
  BY <1>2 DEF OpenConnect
<1>3. ASSUME NEW a \in Agents, OpenTimer(a) PROVE ThreadsOwned'
  BY <1>3 DEF OpenTimer
<1>4. ASSUME NEW a \in Agents, StartClear(a) PROVE ThreadsOwned'
  BY <1>4 DEF StartClear
<1>5. ASSUME NEW a \in Agents, StartRecv(a) PROVE ThreadsOwned'
  BY <1>5 DEF StartRecv
<1>6. ASSUME NEW a \in Agents, StartSend(a) PROVE ThreadsOwned'
  BY <1>6 DEF StartSend
<1>7. ASSUME NEW a \in Agents, StopCheck(a) PROVE ThreadsOwned'
  <2>1. ~overlap /\ \A b \in Agents : ~Busy(b)
    BY <1>7 DEF StopCheck
  <2>2. a \notin Retriers
    BY <1>7, Roles DEF StopCheck
  <2>3. CASE stopped /\ a = User
    BY <1>7, <2>1, <2>3 DEF StopCheck
  <2>4. CASE stopped /\ a # User
    BY <1>7, <2>1, <2>2, <2>4 DEF StopCheck
  <2>5. CASE ~stopped
    BY <1>7, <2>1, <2>5 DEF StopCheck
  <2> QED
    BY <2>3, <2>4, <2>5
<1>8. ASSUME NEW a \in Agents, StopBeat(a) PROVE ThreadsOwned'
  BY <1>8 DEF StopBeat
<1>9. ASSUME NEW a \in Agents, StopFlag(a) PROVE ThreadsOwned'
  BY <1>9 DEF StopFlag
<1>10. ASSUME NEW a \in Agents, StopJoinRecv(a) PROVE ThreadsOwned'
  BY <1>10 DEF StopJoinRecv
<1>11. ASSUME NEW a \in Agents, StopNotify(a) PROVE ThreadsOwned'
  BY <1>11 DEF StopNotify
<1>12. ASSUME NEW a \in Agents, StopJoinSend(a) PROVE ThreadsOwned'
  BY <1>12 DEF StopJoinSend
<1>13. ASSUME NEW a \in Agents, StopClose(a) PROVE ThreadsOwned'
  BY <1>13 DEF StopClose
<1>14. ASSUME NEW a \in Agents, StopCloseFd(a) PROVE ThreadsOwned'
  BY <1>14 DEF StopCloseFd
<1>15. ASSUME NEW a \in Agents, StopReset(a) PROVE ThreadsOwned'
  BY <1>15 DEF StopReset
<1>16. ASSUME NEW l \in Listeners, Fire(l) PROVE ThreadsOwned'
  BY <1>16 DEF Fire
<1>17. ASSUME NEW l \in Listeners, ListenGet(l) PROVE ThreadsOwned'
  BY <1>17 DEF ListenGet
<1>18. ASSUME NEW l \in Listeners, ListenInvalid(l) PROVE ThreadsOwned'
  BY <1>18 DEF ListenInvalid
<1>19. ASSUME NEW l \in Listeners, ListenCompare(l) PROVE ThreadsOwned'
  BY <1>19 DEF ListenCompare
<1>20. ASSUME NEW l \in Listeners, ListenSet(l) PROVE ThreadsOwned'
  BY <1>20 DEF ListenSet
<1>21. ASSUME NEW l \in Listeners, ListenCall(l) PROVE ThreadsOwned'
  BY <1>21 DEF ListenCall
<1>22. ASSUME NEW l \in Listeners, BeatStart(l) PROVE ThreadsOwned'
  BY <1>22 DEF BeatStart
<1>23. ASSUME NEW l \in Listeners, Spawn(l) PROVE ThreadsOwned'
  BY <1>23 DEF Spawn
<1>24. ASSUME NEW l \in Listeners, Tell(l) PROVE ThreadsOwned'
  BY <1>24 DEF Tell
<1>25. CASE UserStop
  BY <1>25 DEF UserStop
<1>26. CASE RecvTest
  BY <1>26 DEF RecvTest
<1>27. CASE RecvData
  BY <1>27 DEF RecvData
<1>28. CASE RecvEnd
  BY <1>28 DEF RecvEnd
<1>29. CASE Drop
  BY <1>29 DEF Drop
<1>30. CASE Produce
  BY <1>30 DEF Produce
<1>31. CASE SendThreadStep
  BY <1>31, SendThreadFrame
<1>32. CASE UNCHANGED vars
  BY <1>32 DEF vars
<1>33. CASE GiveUp
  BY <1>33 DEF GiveUp
<1> QED
  BY <1>1, <1>2, <1>3, <1>4, <1>5, <1>6, <1>7, <1>8, <1>9, <1>10, <1>11,
     <1>12, <1>13, <1>14, <1>15, <1>16, <1>17, <1>18, <1>19, <1>20, <1>21,
     <1>22, <1>23, <1>24, <1>25, <1>26, <1>27, <1>28, <1>29, <1>30, <1>31,
     <1>32, <1>33
  DEF Next, AgentStep, Start, Stop, Listen

\* The threads of a channel have one owner each, whoever stops the channel.
THEOREM ThreadsInvariant == ASSUME OneListener PROVE Spec => []ThreadsOwned
<1>1. Init => ThreadsOwned
  BY ChannelAssumption
  DEF Init, ThreadInit, ThreadsOwned, SomeAt, Agents, Busy, StartPcs, StopPcs,
      Halted, ChannelAssumption
<1>2. TypeInv /\ ThreadsOwned /\ [Next]_vars => ThreadsOwned'
  BY OneListener, ThreadsStep
<1> QED
  BY <1>1, <1>2, TypeInvariant, PTL DEF Spec

\* CrashOnlyIfOverlap: std::terminate needs a stop() that overlaps a start() or
\* another stop(), over any number of reconnections and also if the application
\* stops the channel (controller.cc 44-57, 108-110, 270-278).
THEOREM CrashNeedsOverlap == ASSUME OneListener PROVE Spec => []CrashOnlyIfOverlap
<1>1. ThreadsOwned /\ TypeInv => CrashOnlyIfOverlap
  BY DEF ThreadsOwned, CrashOnlyIfOverlap, TypeInv, TypeOK
<1> QED
  BY <1>1, TypeInvariant, ThreadsInvariant, PTL

\* StopLeavesNoThread: a stop() of the application that overlaps no other call
\* has joined both threads when it returns (controller.cc 100-112).
THEOREM StopJoinsAll == ASSUME OneListener PROVE Spec => StopLeavesNoThread
<1> DEFINE Joined == at[User] \in StopPcs /\ at'[User] = "over" /\ ~overlap'
                       => rpc' = "none" /\ spc' = "none" /\ taker' = "out"
<1>1. TypeInv /\ TypeInv' /\ ThreadsOwned /\ ThreadsOwned' /\ [Next]_vars
        => [Joined]_vars
  <2> SUFFICES ASSUME TypeInv, TypeInv', ThreadsOwned, ThreadsOwned', [Next]_vars,
                      at[User] \in StopPcs, at'[User] = "over", ~overlap'
               PROVE  rpc' = "none" /\ spc' = "none" /\ taker' = "out"
    OBVIOUS
  <2>1. /\ User \in Agents /\ User \notin Listeners \cup Retriers
        /\ at \in [Agents -> Pcs] /\ at'[User] # at[User]
    BY ChannelAssumption
    DEF TypeInv, WellPlaced, Agents, ChannelAssumption, StopPcs
  <2>2. \E a \in Agents : AgentStep(a)
    BY <2>1
    DEF Next, UserStop, StopPcs, RecvTest, RecvData, RecvEnd, SendThreadStep,
        Produce, GiveUp, Drop, vars
  <2>3. PICK a \in Agents : AgentStep(a)
    BY <2>2
  <2>4. a = User
    BY <2>1, <2>3
    DEF AgentStep, Start, Stop, Listen, Goto, Return, OpenSocket, OpenConnect,
        OpenTimer, StartClear, StartRecv, StartSend, StopCheck, StopBeat,
        StopFlag, StopJoinRecv, StopNotify, StopJoinSend, StopClose,
        StopCloseFd, StopReset, Fire, ListenGet, ListenInvalid, ListenCompare,
        ListenSet, ListenCall, BeatStart, Spawn, Tell
  <2>5. /\ \/ StopCheck(User) /\ stopped
           \/ StopClose(User)
           \/ StopReset(User)
        /\ at' = [at EXCEPT ![User] = "over"]
    BY <2>1, <2>3, <2>4
    DEF AgentStep, Start, Stop, Goto, Return, OpenSocket, OpenConnect,
        OpenTimer, StartClear, StartRecv, StartSend, StopCheck, StopBeat,
        StopFlag, StopJoinRecv, StopNotify, StopJoinSend, StopClose,
        StopCloseFd, StopReset, StopPcs
  <2>6. stopped' /\ \A b \in Agents : ~Busy(b)'
    <3> USE <2>1 DEF Busy, StartPcs, StopPcs
    <3>1. CASE StopCheck(User) /\ stopped
      BY <2>5, <3>1 DEF StopCheck, sendVars
    <3>2. CASE StopClose(User)
      BY <2>5, <3>2 DEF StopClose, ThreadsOwned, SomeAt, Halted, sendVars, ghostVars
    <3>3. CASE StopReset(User)
      BY <2>5, <3>3 DEF StopReset, ThreadsOwned, SomeAt, Halted, sendVars, ghostVars
    <3> QED
      BY <2>5, <3>1, <3>2, <3>3
  <2>7. rpc' = "none" /\ spc' = "none"
    BY <2>6 DEF ThreadsOwned, SomeAt, Busy, StartPcs, StopPcs
  <2> QED
    BY <2>7 DEF TypeInv, WaitInTake, TypeOK
<1> QED
  BY <1>1, TypeInvariant, ThreadsInvariant, PTL DEF Spec, StopLeavesNoThread


-----------------------------------------------------------------------------
(* The socket, the state that is reported and the heartbeat                *)

\* What the three invariants below are inductive with.
Owned == TypeInv /\ ThreadsOwned /\ SocketOwned /\ StateReported /\ BeatFollowsState

\* Every step keeps the socket and its timer in the hands of one agent.
LEMMA SocketOwnedStep ==
    ASSUME OneListener, ~UserStops, Owned, [Next]_vars
    PROVE  SocketOwned'
<1> SUFFICES ASSUME ~overlap' PROVE SocketOwned'
  BY DEF SocketOwned
<1> USE ChannelAssumption
    DEF OneListener, ChannelAssumption, Owned, TypeInv, TypeOK, WellPlaced,
        SeenIsState, Pcs, Agents, Goto, Return, ConnectState, netVars,
        recvVars, sendVars, queueVars, threadVars, reportVars, beatVars,
        ghostVars, ThreadsOwned, SocketOwned, StateReported,
        BeatFollowsState, SomeAt, Busy, Halted, StartPcs, StopPcs, ListenPcs,
        Watching, Unwatched, Connected, FdState
<1>1. ASSUME NEW a \in Agents, OpenSocket(a) PROVE SocketOwned'
  BY <1>1 DEF OpenSocket
<1>2. ASSUME NEW a \in Agents, OpenConnect(a) PROVE SocketOwned'
  BY <1>2 DEF OpenConnect
<1>3. ASSUME NEW a \in Agents, OpenTimer(a) PROVE SocketOwned'
  BY <1>3 DEF OpenTimer
<1>4. ASSUME NEW a \in Agents, StartClear(a) PROVE SocketOwned'
  BY <1>4 DEF StartClear
<1>5. ASSUME NEW a \in Agents, StartRecv(a) PROVE SocketOwned'
  BY <1>5 DEF StartRecv
<1>6. ASSUME NEW a \in Agents, StartSend(a) PROVE SocketOwned'
  BY <1>6 DEF StartSend
<1>7. ASSUME NEW a \in Agents, StopCheck(a) PROVE SocketOwned'
  BY <1>7 DEF StopCheck
<1>8. ASSUME NEW a \in Agents, StopBeat(a) PROVE SocketOwned'
  BY <1>8 DEF StopBeat
<1>9. ASSUME NEW a \in Agents, StopFlag(a) PROVE SocketOwned'
  BY <1>9 DEF StopFlag
<1>10. ASSUME NEW a \in Agents, StopJoinRecv(a) PROVE SocketOwned'
  BY <1>10 DEF StopJoinRecv
<1>11. ASSUME NEW a \in Agents, StopNotify(a) PROVE SocketOwned'
  BY <1>11 DEF StopNotify
<1>12. ASSUME NEW a \in Agents, StopJoinSend(a) PROVE SocketOwned'
  BY <1>12 DEF StopJoinSend
<1>13. ASSUME NEW a \in Agents, StopClose(a) PROVE SocketOwned'
  BY <1>13 DEF StopClose
<1>14. ASSUME NEW a \in Agents, StopCloseFd(a) PROVE SocketOwned'
  BY <1>14 DEF StopCloseFd
<1>15. ASSUME NEW a \in Agents, StopReset(a) PROVE SocketOwned'
  BY <1>15 DEF StopReset
<1>16. ASSUME NEW l \in Listeners, Fire(l) PROVE SocketOwned'
  BY <1>16 DEF Fire
<1>17. ASSUME NEW l \in Listeners, ListenGet(l) PROVE SocketOwned'
  BY <1>17 DEF ListenGet, TcpInfo
<1>18. ASSUME NEW l \in Listeners, ListenInvalid(l) PROVE SocketOwned'
  BY <1>18 DEF ListenInvalid
<1>19. ASSUME NEW l \in Listeners, ListenCompare(l) PROVE SocketOwned'
  BY <1>19 DEF ListenCompare
<1>20. ASSUME NEW l \in Listeners, ListenSet(l) PROVE SocketOwned'
  BY <1>20 DEF ListenSet
<1>21. ASSUME NEW l \in Listeners, ListenCall(l) PROVE SocketOwned'
  BY <1>21 DEF ListenCall
<1>22. ASSUME NEW l \in Listeners, BeatStart(l) PROVE SocketOwned'
  BY <1>22 DEF BeatStart
<1>23. ASSUME NEW l \in Listeners, Spawn(l) PROVE SocketOwned'
  BY <1>23 DEF Spawn
<1>24. ASSUME NEW l \in Listeners, Tell(l) PROVE SocketOwned'
  BY <1>24 DEF Tell
<1>25. CASE UserStop
  BY <1>25 DEF UserStop
<1>26. CASE RecvTest
  BY <1>26 DEF RecvTest
<1>27. CASE RecvData
  BY <1>27 DEF RecvData
<1>28. CASE RecvEnd
  BY <1>28 DEF RecvEnd
<1>29. CASE Drop
  BY <1>29 DEF Drop
<1>30. CASE Produce
  BY <1>30 DEF Produce
<1>31. CASE SendThreadStep
  BY <1>31, SendThreadFrame
<1>32. CASE UNCHANGED vars
  BY <1>32 DEF vars
<1>33. CASE GiveUp
  BY <1>33 DEF GiveUp
<1> QED
  BY <1>1, <1>2, <1>3, <1>4, <1>5, <1>6, <1>7, <1>8, <1>9, <1>10, <1>11,
     <1>12, <1>13, <1>14, <1>15, <1>16, <1>17, <1>18, <1>19, <1>20, <1>21,
     <1>22, <1>23, <1>24, <1>25, <1>26, <1>27, <1>28, <1>29, <1>30, <1>31,
     <1>32, <1>33
  DEF Next, AgentStep, Start, Stop, Listen

\* Every step keeps state_, the listener and the application in agreement.
LEMMA StateReportedStep ==
    ASSUME OneListener, ~UserStops, Owned, [Next]_vars
    PROVE  StateReported'
<1> SUFFICES ASSUME ~overlap' PROVE StateReported'
  BY DEF StateReported
<1> USE ChannelAssumption
    DEF OneListener, ChannelAssumption, Owned, TypeInv, TypeOK, WellPlaced,
        SeenIsState, Pcs, Agents, Goto, Return, ConnectState, netVars,
        recvVars, sendVars, queueVars, threadVars, reportVars, beatVars,
        ghostVars, ThreadsOwned, SocketOwned, StateReported,
        BeatFollowsState, SomeAt, Busy, Halted, StartPcs, StopPcs, ListenPcs,
        Watching, Unwatched, Connected, FdState
<1>1. ASSUME NEW a \in Agents, OpenSocket(a) PROVE StateReported'
  BY <1>1 DEF OpenSocket
<1>2. ASSUME NEW a \in Agents, OpenConnect(a) PROVE StateReported'
  BY <1>2 DEF OpenConnect
<1>3. ASSUME NEW a \in Agents, OpenTimer(a) PROVE StateReported'
  BY <1>3 DEF OpenTimer
<1>4. ASSUME NEW a \in Agents, StartClear(a) PROVE StateReported'
  BY <1>4 DEF StartClear
<1>5. ASSUME NEW a \in Agents, StartRecv(a) PROVE StateReported'
  BY <1>5 DEF StartRecv
<1>6. ASSUME NEW a \in Agents, StartSend(a) PROVE StateReported'
  BY <1>6 DEF StartSend
<1>7. ASSUME NEW a \in Agents, StopCheck(a) PROVE StateReported'
  BY <1>7 DEF StopCheck
<1>8. ASSUME NEW a \in Agents, StopBeat(a) PROVE StateReported'
  BY <1>8 DEF StopBeat
<1>9. ASSUME NEW a \in Agents, StopFlag(a) PROVE StateReported'
  BY <1>9 DEF StopFlag
<1>10. ASSUME NEW a \in Agents, StopJoinRecv(a) PROVE StateReported'
  BY <1>10 DEF StopJoinRecv
<1>11. ASSUME NEW a \in Agents, StopNotify(a) PROVE StateReported'
  BY <1>11 DEF StopNotify
<1>12. ASSUME NEW a \in Agents, StopJoinSend(a) PROVE StateReported'
  BY <1>12 DEF StopJoinSend
<1>13. ASSUME NEW a \in Agents, StopClose(a) PROVE StateReported'
  BY <1>13 DEF StopClose
<1>14. ASSUME NEW a \in Agents, StopCloseFd(a) PROVE StateReported'
  BY <1>14 DEF StopCloseFd
<1>15. ASSUME NEW a \in Agents, StopReset(a) PROVE StateReported'
  BY <1>15 DEF StopReset
<1>16. ASSUME NEW l \in Listeners, Fire(l) PROVE StateReported'
  BY <1>16 DEF Fire
<1>17. ASSUME NEW l \in Listeners, ListenGet(l) PROVE StateReported'
  BY <1>17 DEF ListenGet, TcpInfo
<1>18. ASSUME NEW l \in Listeners, ListenInvalid(l) PROVE StateReported'
  BY <1>18 DEF ListenInvalid
<1>19. ASSUME NEW l \in Listeners, ListenCompare(l) PROVE StateReported'
  BY <1>19 DEF ListenCompare
<1>20. ASSUME NEW l \in Listeners, ListenSet(l) PROVE StateReported'
  BY <1>20 DEF ListenSet
<1>21. ASSUME NEW l \in Listeners, ListenCall(l) PROVE StateReported'
  BY <1>21 DEF ListenCall
<1>22. ASSUME NEW l \in Listeners, BeatStart(l) PROVE StateReported'
  BY <1>22 DEF BeatStart
<1>23. ASSUME NEW l \in Listeners, Spawn(l) PROVE StateReported'
  BY <1>23 DEF Spawn
<1>24. ASSUME NEW l \in Listeners, Tell(l) PROVE StateReported'
  BY <1>24 DEF Tell
<1>25. CASE UserStop
  BY <1>25 DEF UserStop
<1>26. CASE RecvTest
  BY <1>26 DEF RecvTest
<1>27. CASE RecvData
  BY <1>27 DEF RecvData
<1>28. CASE RecvEnd
  BY <1>28 DEF RecvEnd
<1>29. CASE Drop
  BY <1>29 DEF Drop
<1>30. CASE Produce
  BY <1>30 DEF Produce
<1>31. CASE SendThreadStep
  BY <1>31, SendThreadFrame
<1>32. CASE UNCHANGED vars
  BY <1>32 DEF vars
<1>33. CASE GiveUp
  BY <1>33 DEF GiveUp
<1> QED
  BY <1>1, <1>2, <1>3, <1>4, <1>5, <1>6, <1>7, <1>8, <1>9, <1>10, <1>11,
     <1>12, <1>13, <1>14, <1>15, <1>16, <1>17, <1>18, <1>19, <1>20, <1>21,
     <1>22, <1>23, <1>24, <1>25, <1>26, <1>27, <1>28, <1>29, <1>30, <1>31,
     <1>32, <1>33
  DEF Next, AgentStep, Start, Stop, Listen

\* Every step keeps the heartbeat between the report of a connection and its
\* loss.
LEMMA BeatFollowsStateStep ==
    ASSUME OneListener, ~UserStops, Owned, [Next]_vars
    PROVE  BeatFollowsState'
<1> SUFFICES ASSUME ~overlap' PROVE BeatFollowsState'
  BY DEF BeatFollowsState
<1> USE ChannelAssumption
    DEF OneListener, ChannelAssumption, Owned, TypeInv, TypeOK, WellPlaced,
        SeenIsState, Pcs, Agents, Goto, Return, ConnectState, netVars,
        recvVars, sendVars, queueVars, threadVars, reportVars, beatVars,
        ghostVars, ThreadsOwned, SocketOwned, StateReported,
        BeatFollowsState, SomeAt, Busy, Halted, StartPcs, StopPcs, ListenPcs,
        Watching, Unwatched, Connected, FdState
<1>1. ASSUME NEW a \in Agents, OpenSocket(a) PROVE BeatFollowsState'
  BY <1>1 DEF OpenSocket
<1>2. ASSUME NEW a \in Agents, OpenConnect(a) PROVE BeatFollowsState'
  BY <1>2 DEF OpenConnect
<1>3. ASSUME NEW a \in Agents, OpenTimer(a) PROVE BeatFollowsState'
  BY <1>3 DEF OpenTimer
<1>4. ASSUME NEW a \in Agents, StartClear(a) PROVE BeatFollowsState'
  BY <1>4 DEF StartClear
<1>5. ASSUME NEW a \in Agents, StartRecv(a) PROVE BeatFollowsState'
  BY <1>5 DEF StartRecv
<1>6. ASSUME NEW a \in Agents, StartSend(a) PROVE BeatFollowsState'
  BY <1>6 DEF StartSend
<1>7. ASSUME NEW a \in Agents, StopCheck(a) PROVE BeatFollowsState'
  BY <1>7 DEF StopCheck
<1>8. ASSUME NEW a \in Agents, StopBeat(a) PROVE BeatFollowsState'
  BY <1>8 DEF StopBeat
<1>9. ASSUME NEW a \in Agents, StopFlag(a) PROVE BeatFollowsState'
  BY <1>9 DEF StopFlag
<1>10. ASSUME NEW a \in Agents, StopJoinRecv(a) PROVE BeatFollowsState'
  BY <1>10 DEF StopJoinRecv
<1>11. ASSUME NEW a \in Agents, StopNotify(a) PROVE BeatFollowsState'
  BY <1>11 DEF StopNotify
<1>12. ASSUME NEW a \in Agents, StopJoinSend(a) PROVE BeatFollowsState'
  BY <1>12 DEF StopJoinSend
<1>13. ASSUME NEW a \in Agents, StopClose(a) PROVE BeatFollowsState'
  BY <1>13 DEF StopClose
<1>14. ASSUME NEW a \in Agents, StopCloseFd(a) PROVE BeatFollowsState'
  BY <1>14 DEF StopCloseFd
<1>15. ASSUME NEW a \in Agents, StopReset(a) PROVE BeatFollowsState'
  BY <1>15 DEF StopReset
<1>16. ASSUME NEW l \in Listeners, Fire(l) PROVE BeatFollowsState'
  BY <1>16 DEF Fire
<1>17. ASSUME NEW l \in Listeners, ListenGet(l) PROVE BeatFollowsState'
  BY <1>17 DEF ListenGet, TcpInfo
<1>18. ASSUME NEW l \in Listeners, ListenInvalid(l) PROVE BeatFollowsState'
  BY <1>18 DEF ListenInvalid
<1>19. ASSUME NEW l \in Listeners, ListenCompare(l) PROVE BeatFollowsState'
  BY <1>19 DEF ListenCompare
<1>20. ASSUME NEW l \in Listeners, ListenSet(l) PROVE BeatFollowsState'
  BY <1>20 DEF ListenSet
<1>21. ASSUME NEW l \in Listeners, ListenCall(l) PROVE BeatFollowsState'
  BY <1>21 DEF ListenCall
<1>22. ASSUME NEW l \in Listeners, BeatStart(l) PROVE BeatFollowsState'
  <2>1. CASE beats' = beats + 1 /\ bstopped' = FALSE
    BY <1>22, <2>1 DEF BeatStart
  <2>2. CASE UNCHANGED <<beats, bstopped>>
    BY <1>22, <2>2 DEF BeatStart
  <2> QED
    BY <1>22, <2>1, <2>2 DEF BeatStart
<1>23. ASSUME NEW l \in Listeners, Spawn(l) PROVE BeatFollowsState'
  BY <1>23 DEF Spawn
<1>24. ASSUME NEW l \in Listeners, Tell(l) PROVE BeatFollowsState'
  BY <1>24 DEF Tell
<1>25. CASE UserStop
  BY <1>25 DEF UserStop
<1>26. CASE RecvTest
  BY <1>26 DEF RecvTest
<1>27. CASE RecvData
  BY <1>27 DEF RecvData
<1>28. CASE RecvEnd
  BY <1>28 DEF RecvEnd
<1>29. CASE Drop
  BY <1>29 DEF Drop
<1>30. CASE Produce
  BY <1>30 DEF Produce
<1>31. CASE SendThreadStep
  BY <1>31, SendThreadFrame
<1>32. CASE UNCHANGED vars
  BY <1>32 DEF vars
<1>33. CASE GiveUp
  BY <1>33 DEF GiveUp
<1> QED
  BY <1>1, <1>2, <1>3, <1>4, <1>5, <1>6, <1>7, <1>8, <1>9, <1>10, <1>11,
     <1>12, <1>13, <1>14, <1>15, <1>16, <1>17, <1>18, <1>19, <1>20, <1>21,
     <1>22, <1>23, <1>24, <1>25, <1>26, <1>27, <1>28, <1>29, <1>30, <1>31,
     <1>32, <1>33
  DEF Next, AgentStep, Start, Stop, Listen

\* Initially the User is about to open the first socket.
LEMMA OwnedInit == Init /\ TypeInv => SocketOwned /\ StateReported /\ BeatFollowsState
<1> SUFFICES ASSUME Init PROVE SocketOwned /\ StateReported /\ BeatFollowsState
  OBVIOUS
<1>1. User \in Agents /\ at[User] = "socket" /\ fd = 0
  BY DEF Init, Agents
<1>2. \A a \in Agents \ {User} : at[a] = "idle"
  BY DEF Init
<1>3. User \notin Listeners
  BY ChannelAssumption DEF ChannelAssumption
<1>4. armed = {} /\ rpc = "none" /\ cstate = "CLOSED" /\ told = "CLOSED"
      /\ beats = 0 /\ bstopped
  BY DEF Init
<1>5. SocketOwned
  BY <1>1, <1>2, <1>4
  DEF SocketOwned, SomeAt, Halted, Watching, Unwatched, Connected, FdState
<1>6. StateReported
  BY <1>2, <1>3, <1>4 DEF StateReported, Agents, StopPcs
<1>7. BeatFollowsState
  BY <1>2, <1>3, <1>4 DEF BeatFollowsState, Agents
<1> QED
  BY <1>5, <1>6, <1>7

\* ChannelInv, the inductive invariant of a channel (controller.cc 24-127,
\* 259-285, 341-375): with one notification at a time each thread has one owner,
\* and if only the handler stops the channel so have the socket, state_ and the
\* heartbeat.
THEOREM ChannelInvariant == ASSUME OneListener PROVE Spec => []ChannelInv
<1>1. CASE UserStops
  <2>1. ThreadsOwned => ChannelInv
    BY <1>1 DEF ChannelInv
  <2> QED
    BY <2>1, ThreadsInvariant, PTL
<1>2. CASE ~UserStops
  <2> DEFINE Rest == SocketOwned /\ StateReported /\ BeatFollowsState
  <2>1. Init /\ TypeInv => Rest
    BY OwnedInit
  <2>2. TypeInv /\ ThreadsOwned /\ Rest /\ [Next]_vars => Rest'
    BY <1>2, OneListener, SocketOwnedStep, StateReportedStep, BeatFollowsStateStep
    DEF Owned
  <2>3. ThreadsOwned /\ Rest => ChannelInv
    BY DEF ChannelInv
  <2> HIDE DEF Rest
  <2> QED
    BY <2>1, <2>2, <2>3, TypeInvariant, ThreadsInvariant, PTL DEF Spec
<1> QED
  BY <1>1, <1>2


\* All of it, of a channel whose application does not stop it.
THEOREM OwnedInvariant == ASSUME OneListener, ~UserStops PROVE Spec => []Owned
<1>1. TypeInv /\ ThreadsOwned /\ ChannelInv => Owned
  BY ~UserStops DEF Owned, ChannelInv
<1> QED
  BY <1>1, TypeInvariant, ThreadsInvariant, ChannelInvariant, PTL

\* OneLiveSocket: a channel that reconnects for ever leaks neither a socket nor
\* a timer (socketlib.cc 159-191).
THEOREM NoSocketLeak == ASSUME OneListener, ~UserStops PROVE Spec => []OneLiveSocket
<1>1. Owned => OneLiveSocket
  <2> SUFFICES ASSUME Owned, ~overlap PROVE OneLiveSocket
    BY DEF OneLiveSocket
  <2> QED
    BY DEF Owned, SocketOwned, OneLiveSocket, Connected
<1> QED
  BY <1>1, OwnedInvariant, PTL

\* NoUseAfterClose: no thread of the channel uses the descriptor that close()
\* has closed (controller.cc 107-111).
THEOREM ClosedSocketUnused ==
    ASSUME OneListener, ~UserStops PROVE Spec => []NoUseAfterClose
<1>1. Owned => NoUseAfterClose
  <2> SUFFICES ASSUME Owned, ~overlap PROVE NoUseAfterClose
    BY DEF NoUseAfterClose
  <2>1. FdState = "closed" => rpc = "none" /\ spc = "none"
    <3> SUFFICES ASSUME FdState = "closed" PROVE rpc = "none" /\ spc = "none"
      OBVIOUS
    <3>1. PICK a \in Agents : at[a] \in {"reset", "spawn", "socket"}
      BY DEF Owned, SocketOwned, SomeAt
    <3>2. stopped /\ ~SomeAt({"joinr", "notify", "joins"})
      <4>1. CASE at[a] = "spawn"
        <5>1. a \in Listeners
          BY <4>1, Roles DEF Owned, TypeInv, ListenPcs
        <5> QED
          BY <4>1, <5>1 DEF Owned, ThreadsOwned, SomeAt, Busy, StopPcs
      <4>2. CASE at[a] \in {"reset", "socket"}
        BY <4>2 DEF Owned, ThreadsOwned, SomeAt, Busy, StartPcs, StopPcs, Halted
      <4> QED
        BY <3>1, <4>1, <4>2
    <3> QED
      BY <3>2 DEF Owned, ThreadsOwned, SomeAt
  <2>2. \A l \in Listeners : at[l] = "get" => FdState # "closed"
    BY DEF Owned, SocketOwned, SomeAt, Watching, Connected, Agents
  <2> QED
    BY <2>1, <2>2 DEF Owned, SocketOwned, NoUseAfterClose
<1> QED
  BY <1>1, OwnedInvariant, PTL

\* ReportsAlternate: the application is never told CLOSED, nor CONNECTED twice in
\* a row (socketlib.cc 232-235).
THEOREM NoReportTwice ==
    ASSUME OneListener, ~UserStops PROVE Spec => []ReportsAlternate
<1>1. Owned => ReportsAlternate
  BY DEF Owned, StateReported, ReportsAlternate
<1> QED
  BY <1>1, OwnedInvariant, PTL

\* OneHeartbeat: there is at most one heartbeat timer, and between notifications
\* only of a connection that the application was told of (controller.cc 120,
\* 349-355).
THEOREM HeartbeatFollowsState ==
    ASSUME OneListener, ~UserStops PROVE Spec => []OneHeartbeat
<1>1. Owned => OneHeartbeat
  BY DEF Owned, StateReported, BeatFollowsState, OneHeartbeat
<1> QED
  BY <1>1, OwnedInvariant, PTL

-----------------------------------------------------------------------------
(* The channel implements ConnReport                                       *)

Live == FdState \in {"fresh", "estab", "lost"}
Owed == \E l \in Listeners :
           \/ at[l] = "reset"
           \/ at[l] \in {"spawn", "tell"} /\ seen[l] # "CONNECTED"

\* The socket that is opened, closed or told of is a step of ConnReport; every
\* other step of the channel leaves its variables alone.
LEMMA ReportStep ==
    ASSUME OneListener, ~UserStops, Owned, Owned', [Next]_vars, ~overlap'
    PROVE  [Report!ReportNext]_(Report!reportVars)
<1> DEFINE Same == UNCHANGED <<Live, Owed, told>>
<1>0. Same => UNCHANGED Report!reportVars
  BY DEF Report!reportVars, Live, Owed
<1> DEFINE Goal == [Report!ReportNext]_(Report!reportVars)
<1> HIDE DEF Same

<1> USE ChannelAssumption
    DEF OneListener, ChannelAssumption, Owned, TypeInv, TypeOK, WellPlaced,
        Pcs, Agents, Goto, Return, ConnectState, netVars,
        recvVars, sendVars, queueVars, threadVars, reportVars, beatVars,
        ghostVars, ThreadsOwned, SocketOwned, StateReported,
        SomeAt, Busy, Halted, StartPcs, StopPcs, ListenPcs,
        Watching, Unwatched, Connected, FdState, Same, Live, Owed
<1>1. ASSUME NEW a \in Agents, OpenSocket(a) PROVE Goal
  <2>1. Report!Open
    BY <1>1 DEF OpenSocket, Report!Open
  <2> QED
    BY <2>1 DEF Report!ReportNext
<1>2. ASSUME NEW a \in Agents, OpenConnect(a) PROVE Goal
  BY <1>0, <1>2 DEF OpenConnect
<1>3. ASSUME NEW a \in Agents, OpenTimer(a) PROVE Goal
  BY <1>0, <1>3 DEF OpenTimer
<1>4. ASSUME NEW a \in Agents, StartClear(a) PROVE Goal
  BY <1>0, <1>4 DEF StartClear
<1>5. ASSUME NEW a \in Agents, StartRecv(a) PROVE Goal
  BY <1>0, <1>5 DEF StartRecv
<1>6. ASSUME NEW a \in Agents, StartSend(a) PROVE Goal
  BY <1>0, <1>6 DEF StartSend
<1>7. ASSUME NEW a \in Agents, StopCheck(a) PROVE Goal
  BY <1>0, <1>7 DEF StopCheck
<1>8. ASSUME NEW a \in Agents, StopBeat(a) PROVE Goal
  BY <1>0, <1>8 DEF StopBeat
<1>9. ASSUME NEW a \in Agents, StopFlag(a) PROVE Goal
  BY <1>0, <1>9 DEF StopFlag
<1>10. ASSUME NEW a \in Agents, StopJoinRecv(a) PROVE Goal
  BY <1>0, <1>10 DEF StopJoinRecv
<1>11. ASSUME NEW a \in Agents, StopNotify(a) PROVE Goal
  BY <1>0, <1>11 DEF StopNotify
<1>12. ASSUME NEW a \in Agents, StopJoinSend(a) PROVE Goal
  BY <1>0, <1>12 DEF StopJoinSend
<1>13. ASSUME NEW a \in Agents, StopClose(a) PROVE Goal
  BY <1>0, <1>13 DEF StopClose
<1>14. ASSUME NEW a \in Agents, StopCloseFd(a) PROVE Goal
  <2>1. Report!Close
    BY <1>14 DEF StopCloseFd, Report!Close
  <2> QED
    BY <2>1 DEF Report!ReportNext
<1>15. ASSUME NEW a \in Agents, StopReset(a) PROVE Goal
  BY <1>0, <1>15 DEF StopReset
<1>16. ASSUME NEW l \in Listeners, Fire(l) PROVE Goal
  BY <1>0, <1>16 DEF Fire
<1>17. ASSUME NEW l \in Listeners, ListenGet(l) PROVE Goal
  BY <1>0, <1>17 DEF ListenGet, TcpInfo
<1>18. ASSUME NEW l \in Listeners, ListenInvalid(l) PROVE Goal
  BY <1>0, <1>18 DEF ListenInvalid
<1>19. ASSUME NEW l \in Listeners, ListenCompare(l) PROVE Goal
  BY <1>0, <1>19 DEF ListenCompare
<1>20. ASSUME NEW l \in Listeners, ListenSet(l) PROVE Goal
  BY <1>0, <1>20 DEF ListenSet
<1>21. ASSUME NEW l \in Listeners, ListenCall(l) PROVE Goal
  BY <1>0, <1>21 DEF ListenCall
<1>22. ASSUME NEW l \in Listeners, BeatStart(l) PROVE Goal
  BY <1>0, <1>22 DEF BeatStart
<1>23. ASSUME NEW l \in Listeners, Spawn(l) PROVE Goal
  BY <1>0, <1>23 DEF Spawn
<1>24. ASSUME NEW l \in Listeners, Tell(l) PROVE Goal
  <2>1. CASE seen[l] = "CONNECTED"
    <3>1. Report!TellConnected
      BY <1>24, <2>1 DEF Tell, Report!TellConnected
    <3> QED
      BY <3>1 DEF Report!ReportNext
  <2>2. CASE seen[l] = "LOST"
    <3>1. Report!TellLost
      BY <1>24, <2>2 DEF Tell, Report!TellLost
    <3> QED
      BY <3>1 DEF Report!ReportNext
  <2> QED
    BY <1>24, <2>1, <2>2 DEF Tell
<1>25. CASE UserStop
  BY <1>0, <1>25 DEF UserStop
<1>26. CASE RecvTest
  BY <1>0, <1>26 DEF RecvTest
<1>27. CASE RecvData
  BY <1>0, <1>27 DEF RecvData
<1>28. CASE RecvEnd
  BY <1>0, <1>28 DEF RecvEnd
<1>29. CASE Drop
  BY <1>0, <1>29 DEF Drop
<1>30. CASE Produce
  BY <1>0, <1>30 DEF Produce
<1>31. CASE SendThreadStep
  BY <1>0, <1>31, SendThreadFrame
<1>32. CASE UNCHANGED vars
  BY <1>0, <1>32 DEF vars
<1>33. CASE GiveUp
  BY <1>0, <1>33 DEF GiveUp
<1> QED
  BY <1>1, <1>2, <1>3, <1>4, <1>5, <1>6, <1>7, <1>8, <1>9, <1>10, <1>11,
     <1>12, <1>13, <1>14, <1>15, <1>16, <1>17, <1>18, <1>19, <1>20, <1>21,
     <1>22, <1>23, <1>24, <1>25, <1>26, <1>27, <1>28, <1>29, <1>30, <1>31,
     <1>32, <1>33
  DEF Next, AgentStep, Start, Stop, Listen

\* ImplementsReport: what the application is told follows ConnReport until a stop()
\* overlaps another call: CONNECTED only of a socket that is open and once per
\* socket, LOST exactly once for each socket that was closed (controller.cc
\* 259-279, socketlib.cc 198-238).
THEOREM ChannelImplementsReport ==
    ASSUME OneListener, ~UserStops PROVE Spec => ImplementsReport
<1>1. Init => Report!ReportInit
  BY ChannelAssumption
  DEF Init, Report!ReportInit, FdState, Agents, ChannelAssumption
<1>2. Owned /\ Owned' /\ [Next]_vars
        => [Report!ReportNext \/ overlap']_(Report!reportVars)
  BY OneListener, ~UserStops, ReportStep
<1> QED
  BY <1>1, <1>2, OwnedInvariant, PTL DEF Spec, ImplementsReport
=============================================================================
