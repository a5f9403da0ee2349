--------------------------- MODULE InhSessionProofs ---------------------------
(***************************************************************************)
(* Proofs about module InhSession, for any number of starts of a Timer and *)
(* any number of handlers of the INH timer that run at a time.             *)
(*                                                                         *)
(* WellPlaced says which thread may be in which of its calls, with the     *)
(* types of the variables it is inductive.  TimersInv is, on top of it: as *)
(* long as no two threads met in the calls of a Timer, one that is in a    *)
(* call of it owns it.  CountInv is, on top of both, if handlers run one   *)
(* at a time.  The properties that the run checks follow.                  *)
(***************************************************************************)
EXTENDS InhSession, SequenceTheorems, TLAPS

-----------------------------------------------------------------------------
(* Where the threads are                                                   *)

\* What is left of the lists of calls after their first ones.
ConnectedRest == <<StartOf("state")>>
Last          == <<ResetCount>>
GiveUpRest    == <<ResetCount, StopOf("state")>>
GiveUpLast    == <<StopOf("state")>>
Counting      == <<CountAndSend>>

\* Thread p has a list of calls to make and is in the first: a start, a stop, the
\* reset of the count, or the handler's work on it; or it has none to make.
Starts(p, calls) == todo[p] = calls /\ pc[p] \in {"create", "arm", "clear"}
Stops(p, calls)  == todo[p] = calls /\ pc[p] \in {"test", "flag", "delete"}
Zeroes(p, calls) == todo[p] = calls /\ pc[p] = "zero"
Counts(p)        == todo[p] = Counting /\ pc[p] \in {"compare", "put", "load", "store"}
Rests(p)         == todo[p] = <<>> /\ pc[p] = "idle"

\* The notification thread makes the calls of on_up_connect_state, the receive
\* thread those of on_message and a handler those of on_inh (main.cc 29-96).
Placed(p) ==
    \/ Rests(p)
    \/ /\ p = Reporter
       /\ \/ Starts(p, OnConnected) \/ Starts(p, ConnectedRest)
          \/ Stops(p, OnLost) \/ Stops(p, OnMessage) \/ Zeroes(p, Last)
    \/ /\ p = Receiver
       /\ Stops(p, OnMessage) \/ Zeroes(p, Last)
    \/ /\ p \in Handlers
       /\ Counts(p) \/ Stops(p, GiveUp) \/ Zeroes(p, GiveUpRest) \/ Stops(p, GiveUpLast)

WellPlaced == \A p \in Threads : Placed(p)

\* The types: TypeOK without the bound of the count.
Typed ==
    /\ TimerTypeOK
    /\ live \in BOOLEAN /\ owed \in BOOLEAN
    /\ told \in {"CLOSED", "CONNECTED", "LOST"}
    /\ count \in Nat
    /\ todo \in [Threads -> Seq(Calls)]
    /\ pc \in [Threads -> Labels]
    /\ reg \in [Handlers -> Nat]
    /\ asked \in BOOLEAN
    /\ sent \in 0 .. 3
    /\ old \subseteq Handlers
    /\ carried \in BOOLEAN /\ answered \in BOOLEAN /\ raced \in BOOLEAN

-----------------------------------------------------------------------------
(* The kernel timers                                                       *)

\* What a thread in a call of Timer t relies on: start() has created the kernel
\* timer that it arms, and stop() deletes the one that is armed.
Uses(p, t) ==
    /\ At(p, "arm", t) => /\ stopped[t] /\ Armed(t) = {} /\ timer[t] > 0
                          /\ kernel[t][timer[t]] = "created"
    /\ At(p, "clear", t) => stopped[t] /\ Armed(t) = {timer[t]}
    /\ At(p, "flag", t) => ~stopped[t] /\ Armed(t) = {timer[t]}
    /\ At(p, "delete", t) => stopped[t] /\ Armed(t) = {timer[t]}

\* One thread at a time is in a call of Timer t, and finds it as it left it; between
\* calls `stopped' is true to the kernel; and only the last kernel timer is armed.
TimerOwned(t) ==
    /\ \A p, q \in Threads : Inside(p, t) /\ Inside(q, t) => p = q
    /\ \A p \in Threads : Uses(p, t)
    /\ (\A p \in Threads : ~Inside(p, t)) => (stopped[t] <=> Armed(t) = {})
    /\ Armed(t) \subseteq {timer[t]}

\* What the notification thread has done to the timers so far.
Reported ==
    /\ todo[Reporter] \in {OnConnected, ConnectedRest} => told = "CONNECTED"
    /\ todo[Reporter] \in {OnLost, OnMessage, Last} => told = "LOST"
    /\ todo[Reporter] = OnConnected =>
          /\ Armed("state") = {}
          /\ pc[Reporter] = "create" => Armed("inh") = {}
    /\ todo[Reporter] = ConnectedRest /\ pc[Reporter] = "create" => Armed("state") = {}
    /\ todo[Reporter] = OnMessage => Armed("state") = {}
    /\ todo[Reporter] = Last => \A t \in Timers : Armed(t) = {}
    /\ Idle(Reporter) /\ told # "CONNECTED" => \A t \in Timers : Armed(t) = {}

\* After the answer the INH timer does not expire and nobody is starting it.
Answered ==
    answered => Armed("inh") = {} /\ ~At(Reporter, "arm", "inh")

\* All this, up to the first time that two threads meet in the calls of a Timer.
TimersInv ==
    ~raced =>
        /\ ~fault
        /\ \A t \in Timers : TimerOwned(t)
        /\ Reported
        /\ Answered

-----------------------------------------------------------------------------
(* The count                                                               *)

\* A handler has ended before the next one starts: the INH timer expires every
\* second, and its handler puts one message in a queue (main.cc 29-50).
OneHandler == \A g, h \in Handlers : g = h

\* The count is no more than 3 and no more than the INHs put since it was zero,
\* but for an increment that a reset overtook; and it is zero where the handler
\* compares it after on_message has answered.
CountInv ==
    /\ count <= 3
    /\ ~carried => count <= sent
    /\ \A h \in Handlers :
          /\ pc[h] \in {"put", "load"} => count <= 2
          /\ pc[h] = "store" => reg[h] <= 2
          /\ ~carried /\ h \notin old =>
                /\ pc[h] = "load" => count < sent
                /\ pc[h] = "store" => reg[h] < sent
          /\ ~raced /\ answered /\ pc[Receiver] # "zero" /\ pc[h] = "compare" => count = 0

-----------------------------------------------------------------------------

\* What is left of each list after its first call.
LEMMA Lists ==
    /\ Tail(OnConnected) = ConnectedRest /\ Tail(ConnectedRest) = <<>>
    /\ Tail(OnLost) = OnMessage /\ Tail(OnMessage) = Last /\ Tail(Last) = <<>>
    /\ Tail(GiveUp) = GiveUpRest /\ Tail(GiveUpRest) = GiveUpLast
    /\ Tail(GiveUpLast) = <<>> /\ Tail(Counting) = <<>>
  BY DEF OnConnected, ConnectedRest, OnLost, OnMessage, Last, GiveUp, GiveUpRest,
       GiveUpLast, Counting

\* The first call of each list.
LEMMA Heads ==
    /\ Head(OnConnected) = StartOf("inh") /\ Head(ConnectedRest) = StartOf("state")
    /\ Head(OnLost) = StopOf("state") /\ Head(OnMessage) = StopOf("inh")
    /\ Head(Last) = ResetCount /\ Head(GiveUp) = StopOf("inh")
    /\ Head(GiveUpRest) = ResetCount /\ Head(GiveUpLast) = StopOf("state")
    /\ Head(Counting) = CountAndSend
  BY DEF OnConnected, ConnectedRest, OnLost, OnMessage, Last, GiveUp, GiveUpRest,
       GiveUpLast, Counting

\* The lists of the notification thread tell where it is in them, and none of the
\* lists is empty.
LEMMA Distinct ==
    /\ OnConnected # ConnectedRest /\ OnConnected # OnLost /\ OnConnected # OnMessage
    /\ OnConnected # Last /\ ConnectedRest # OnLost /\ ConnectedRest # OnMessage
    /\ ConnectedRest # Last /\ OnLost # OnMessage /\ OnLost # Last /\ OnMessage # Last
    /\ <<>> \notin {OnConnected, ConnectedRest, OnLost, OnMessage, Last, GiveUp,
                    GiveUpRest, GiveUpLast, Counting}
  BY DEF OnConnected, ConnectedRest, OnLost, OnMessage, Last, GiveUp, GiveUpRest,
       GiveUpLast, Counting,
    StartOf, StopOf, ResetCount

\* They are lists of calls.
LEMMA ListTypes ==
    {<<>>, OnConnected, ConnectedRest, OnLost, OnMessage, Last, GiveUp, GiveUpRest,
     GiveUpLast, Counting} \subseteq Seq(Calls)
  BY SessionAssumption
  DEF SessionAssumption, OnConnected, ConnectedRest, OnLost, OnMessage, Last,
       GiveUp, GiveUpRest,
      GiveUpLast, Counting, Calls

\* Which thread may be in which call: only the notification thread starts timers.
LEMMA Callers ==
    ASSUME WellPlaced, NEW p \in Threads, NEW t \in Timers
    PROVE  /\ \A label \in {"create", "arm", "clear"} : At(p, label, t) =>
                 \/ p = Reporter /\ todo[p] = OnConnected /\ t = "inh"
                 \/ p = Reporter /\ todo[p] = ConnectedRest /\ t = "state"
           /\ \A label \in {"test", "flag", "delete"} : At(p, label, t) =>
                 \/ p = Reporter /\ todo[p] = OnLost /\ t = "state"
                 \/ p = Reporter /\ todo[p] = OnMessage /\ t = "inh"
                 \/ p = Receiver /\ todo[p] = OnMessage /\ t = "inh"
                 \/ p \in Handlers /\ todo[p] = GiveUp /\ t = "inh"
                 \/ p \in Handlers /\ todo[p] = GiveUpLast /\ t = "state"
  BY Heads
  DEF WellPlaced, Placed, Starts, Stops, Zeroes, Counts, Rests, At, StartOf,
       StopOf

\* The statement that a list of calls begins with.
Opening(calls) == IF calls = <<>> THEN "idle" ELSE Entry[Head(calls).op]

\* The first statement of each list.
LEMMA Openings ==
    /\ Opening(<<>>) = "idle"
    /\ \A calls \in {OnConnected, ConnectedRest} : Opening(calls) = "create"
    /\ \A calls \in {OnLost, OnMessage, GiveUp, GiveUpLast} : Opening(calls) = "test"
    /\ \A calls \in {Last, GiveUpRest} : Opening(calls) = "zero"
    /\ Opening(Counting) = "compare"
<1>1. /\ \A t : Entry[StartOf(t).op] = "create" /\ Entry[StopOf(t).op] = "test"
      /\ Entry[ResetCount.op] = "zero" /\ Entry[CountAndSend.op] = "compare"
  BY DEF Entry, StartOf, StopOf, ResetCount, CountAndSend
<1> QED
  BY <1>1, Heads, Distinct DEF Opening

\* What is known of a thread after it returned, went on or began.
Steps(p) ==
    /\ WellPlaced'
    /\ todo' \in [Threads -> Seq(Calls)]
    /\ pc' \in [Threads -> Labels]
    /\ \A q \in Threads \ {p} : todo'[q] = todo[q] /\ pc'[q] = pc[q]

\* A thread that is given one of its own lists is at the list's first statement.
LEMMA Runs ==
    ASSUME Typed, WellPlaced, NEW p \in Threads, NEW calls, Run(p, calls),
           \/ calls = <<>>
           \/ p = Reporter /\ calls \in {OnConnected, ConnectedRest, OnLost, OnMessage, Last}
           \/ p = Receiver /\ calls \in {OnMessage, Last}
           \/ p \in Handlers /\ calls \in {Counting, GiveUp, GiveUpRest, GiveUpLast}
    PROVE  Steps(p) /\ todo'[p] = calls /\ pc'[p] = Opening(calls)
<1>1. calls \in Seq(Calls) /\ Opening(calls) \in Labels
  BY ListTypes, Openings DEF Labels
<1>2. /\ todo' = [todo EXCEPT ![p] = calls]
      /\ pc' = [pc EXCEPT ![p] = Opening(calls)]
  BY DEF Run, Opening
<1>3. /\ todo' \in [Threads -> Seq(Calls)] /\ pc' \in [Threads -> Labels]
      /\ \A q \in Threads \ {p} : todo'[q] = todo[q] /\ pc'[q] = pc[q]
      /\ todo'[p] = calls /\ pc'[p] = Opening(calls)
  BY <1>1, <1>2 DEF Typed
<1>4. Placed(p)'
  BY <1>3, Openings DEF Placed, Starts, Stops, Zeroes, Counts, Rests
<1>5. \A q \in Threads \ {p} : Placed(q)'
  BY <1>3 DEF WellPlaced, Placed, Starts, Stops, Zeroes, Counts, Rests
<1> QED
  BY <1>3, <1>4, <1>5 DEF Steps, WellPlaced

\* A call that returns leaves the rest of its list.
LEMMA Returns ==
    ASSUME Typed, WellPlaced, NEW p \in Threads, pc[p] # "idle", Return(p)
    PROVE  Steps(p) /\ todo'[p] = Tail(todo[p]) /\ pc'[p] = Opening(Tail(todo[p]))
  BY Runs, Lists
  DEF Return, WellPlaced, Placed, Starts, Stops, Zeroes, Counts, Rests

\* A thread that goes on to another statement stays in its call.
LEMMA Moves ==
    ASSUME Typed, WellPlaced, NEW p \in Threads, NEW label, Goto(p, label),
           \/ pc[p] \in {"create", "arm", "clear"} /\ label \in {"create", "arm", "clear"}
           \/ pc[p] \in {"test", "flag", "delete"} /\ label \in {"test", "flag", "delete"}
           \/ /\ pc[p] \in {"compare", "put", "load", "store"}
              /\ label \in {"compare", "put", "load", "store"}
    PROVE  Steps(p) /\ todo' = todo /\ pc'[p] = label
<1>1. /\ pc' \in [Threads -> Labels] /\ todo' = todo
      /\ \A q \in Threads \ {p} : pc'[q] = pc[q]
      /\ pc'[p] = label
  BY DEF Goto, Typed, Labels
<1>2. Placed(p)'
  BY <1>1 DEF WellPlaced, Placed, Starts, Stops, Zeroes, Counts, Rests
<1>3. \A q \in Threads \ {p} : Placed(q)'
  BY <1>1 DEF WellPlaced, Placed, Starts, Stops, Zeroes, Counts, Rests
<1> QED
  BY <1>1, <1>2, <1>3 DEF Steps, WellPlaced, Typed

\* The statements of Timer keep the types of its variables.
LEMMA TimerTypes ==
    ASSUME TimerTypeOK, NEW t \in Timers, NEW b \in BOOLEAN,
           \/ Create(t) \/ Arm(t) \/ Delete(t)
           \/ SetStopped(t, b) \/ UNCHANGED timerVars
    PROVE  TimerTypeOK'
<1>1. CASE Create(t)
  BY <1>1, TimerAssumption DEF Create, TimerTypeOK, TimerAssumption
<1>2. CASE Arm(t)
  <2>1. CASE Usable(t)
    <3>1. timer[t] \in 1 .. MaxStarts
      BY <2>1 DEF Usable, TimerTypeOK
    <3>2. [kernel[t] EXCEPT ![timer[t]] = "armed"]
             \in [1 .. MaxStarts -> {"none", "created", "armed", "deleted"}]
      BY <3>1 DEF TimerTypeOK
    <3> QED
      BY <1>2, <2>1, <3>2 DEF Arm, TimerTypeOK
  <2>2. CASE ~Usable(t)
    BY <1>2, <2>2 DEF Arm, TimerTypeOK
  <2> QED
    BY <2>1, <2>2
<1>3. CASE Delete(t)
  <2>1. CASE Usable(t)
    <3>1. timer[t] \in 1 .. MaxStarts
      BY <2>1 DEF Usable, TimerTypeOK
    <3>2. [kernel[t] EXCEPT ![timer[t]] = "deleted"]
             \in [1 .. MaxStarts -> {"none", "created", "armed", "deleted"}]
      BY <3>1 DEF TimerTypeOK
    <3> QED
      BY <1>3, <2>1, <3>2 DEF Delete, TimerTypeOK
  <2>2. CASE ~Usable(t)
    BY <1>3, <2>2 DEF Delete, TimerTypeOK
  <2> QED
    BY <2>1, <2>2
<1>4. CASE SetStopped(t, b) \/ UNCHANGED timerVars
  BY <1>4 DEF SetStopped, TimerTypeOK, timerVars
<1> QED
  BY <1>1, <1>2, <1>3, <1>4

\* Every step keeps the types and the places of the threads: whatever the threads
\* do to each other's timers, none leaves the list of calls it is to make.
LEMMA TypedStep ==
    ASSUME Typed, WellPlaced, [Next]_vars
    PROVE  Typed' /\ WellPlaced'
<1> USE SessionAssumption, TimerAssumption
    DEF SessionAssumption, TimerAssumption, Typed, Threads, Steps
<1> DEFINE Goal == Typed' /\ WellPlaced'
<1>1. ASSUME NEW p \in Threads, NEW t \in Timers, StartCreate(p, t) PROVE Goal
  BY <1>1, TimerTypes, Returns, Moves
  DEF StartCreate, At, Meets, reportVars, sessionVars, historyVars
<1>2. ASSUME NEW p \in Threads, NEW t \in Timers, StartArm(p, t) PROVE Goal
  BY <1>2, TimerTypes, Returns, Moves
  DEF StartArm, At, Meets, reportVars, sessionVars, historyVars
<1>3. ASSUME NEW p \in Threads, NEW t \in Timers, StartClear(p, t) PROVE Goal
  BY <1>3, TimerTypes, Returns, Moves
  DEF StartClear, At, Meets, reportVars, sessionVars, historyVars
<1>4. ASSUME NEW p \in Threads, NEW t \in Timers, StopTest(p, t) PROVE Goal
  BY <1>4, TimerTypes, Returns, Moves
  DEF StopTest, At, Meets, reportVars, sessionVars, historyVars
<1>5. ASSUME NEW p \in Threads, NEW t \in Timers, StopFlag(p, t) PROVE Goal
  BY <1>5, TimerTypes, Returns, Moves
  DEF StopFlag, At, Meets, reportVars, sessionVars, historyVars
<1>6. ASSUME NEW p \in Threads, NEW t \in Timers, StopDelete(p, t) PROVE Goal
  BY <1>6, TimerTypes, Returns, Moves
  DEF StopDelete, At, Meets, reportVars, sessionVars, historyVars
<1>7. ASSUME NEW p \in Threads, Zero(p) PROVE Goal
  <2>1. old' \subseteq Handlers /\ count' = 0 /\ sent' = 0 /\ carried' \in BOOLEAN
    BY <1>7 DEF Zero
  <2>2. Steps(p)
    BY <1>7, Returns DEF Zero
  <2>3. TimerTypeOK'
    BY <1>7, TimerTypes DEF Zero
  <2>4. UNCHANGED <<reportVars, reg, asked, answered, raced>>
    BY <1>7 DEF Zero
  <2> QED
    BY <2>1, <2>2, <2>3, <2>4 DEF reportVars
<1>8. ASSUME NEW h \in Handlers, Expire(h) PROVE Goal
  BY <1>8, TimerTypes, Returns, Runs, Moves
  DEF Expire, Idle, Counting, timerVars, reportVars, sessionVars, historyVars
<1>9. ASSUME NEW h \in Handlers, Compare(h) PROVE Goal
  BY <1>9, TimerTypes, Returns, Runs, Moves
  DEF Compare, Idle, Counting, timerVars, reportVars, sessionVars, historyVars
<1>10. ASSUME NEW h \in Handlers, PutInh(h) PROVE Goal
  BY <1>10, TimerTypes, Returns, Runs, Moves
  DEF PutInh, Idle, Counting, timerVars, reportVars, sessionVars, historyVars
<1>11. ASSUME NEW h \in Handlers, Load(h) PROVE Goal
  BY <1>11, TimerTypes, Returns, Runs, Moves
  DEF Load, Idle, Counting, timerVars, reportVars, sessionVars, historyVars
<1>12. ASSUME NEW h \in Handlers, Store(h) PROVE Goal
  BY <1>12, TimerTypes, Returns, Runs, Moves
  DEF Store, Idle, Counting, timerVars, reportVars, sessionVars, historyVars
<1>13. CASE Connected
  BY <1>13, TimerTypes, Runs
  DEF Connected, TellConnected, timerVars, reportVars, sessionVars,
       historyVars, threadVars
<1>14. CASE Lost
  BY <1>14, TimerTypes, Runs
  DEF Lost, TellLost, timerVars, reportVars, sessionVars, historyVars, threadVars
<1>15. CASE OpenChannel
  BY <1>15, TimerTypes
  DEF OpenChannel, Open, WellPlaced, Placed, Rests, Starts, Stops, Zeroes,
       Counts, timerVars, reportVars, sessionVars, historyVars, threadVars
<1>16. CASE CloseChannel
  BY <1>16, TimerTypes
  DEF CloseChannel, Close, WellPlaced, Placed, Rests, Starts, Stops, Zeroes,
       Counts, timerVars, reportVars, sessionVars, historyVars, threadVars
<1>17. CASE Answer
  BY <1>17, TimerTypes, Runs
  DEF Answer, timerVars, reportVars, sessionVars, historyVars, threadVars
<1>18. CASE UNCHANGED vars
  BY <1>18, TimerTypes
  DEF vars, WellPlaced, Placed, Rests, Starts, Stops, Zeroes, Counts,
       timerVars, reportVars, sessionVars, historyVars, threadVars
<1> QED
  BY <1>1, <1>2, <1>3, <1>4, <1>5, <1>6, <1>7, <1>8, <1>9, <1>10, <1>11,
     <1>12, <1>13, <1>14, <1>15, <1>16, <1>17, <1>18
  DEF Next, ThreadStep, TimerCall, HandlerStep

-----------------------------------------------------------------------------
(* Why a Timer is owned by the thread in a call of it                      *)

\* timer_create makes a kernel timer that does not expire yet (timer.cc 38).
LEMMA CreateArmsNothing ==
    ASSUME Typed, NEW t \in Timers, Create(t), Armed(t) = {}
    PROVE  /\ Armed(t)' = {} /\ timer'[t] > 0 /\ kernel'[t][timer'[t]] = "created"
           /\ stopped' = stopped /\ fault' = fault
           /\ \A u \in Timers \ {t} : timer'[u] = timer[u] /\ kernel'[u] = kernel[u]
<1>1. timer[t] \in 0 .. MaxStarts /\ timer[t] + 1 \in 1 .. MaxStarts
  BY TimerAssumption DEF Typed, TimerTypeOK, Create, TimerAssumption
<1>2. /\ timer'[t] = timer[t] + 1
      /\ kernel'[t] = [kernel[t] EXCEPT ![timer[t] + 1] = "created"]
      /\ \A u \in Timers \ {t} : timer'[u] = timer[u] /\ kernel'[u] = kernel[u]
  BY DEF Typed, TimerTypeOK, Create
<1>3. kernel[t] \in [1 .. MaxStarts -> {"none", "created", "armed", "deleted"}]
  BY DEF Typed, TimerTypeOK
<1>4. \A i \in 1 .. MaxStarts : kernel'[t][i] # "armed"
  BY <1>1, <1>2, <1>3 DEF Armed
<1>5. kernel'[t][timer[t] + 1] = "created"
  BY <1>1, <1>2, <1>3
<1> QED
  BY <1>1, <1>2, <1>4, <1>5 DEF Armed, Create

\* timer_settime makes it the only one that does (timer.cc 52).
LEMMA ArmArmsLast ==
    ASSUME Typed, NEW t \in Timers, Arm(t), Armed(t) = {},
           timer[t] > 0, kernel[t][timer[t]] = "created"
    PROVE  /\ Armed(t)' = {timer[t]}
           /\ stopped' = stopped /\ timer' = timer /\ fault' = fault
           /\ \A u \in Timers \ {t} : kernel'[u] = kernel[u]
<1>1. Usable(t) /\ timer[t] \in 1 .. MaxStarts
  BY DEF Typed, TimerTypeOK, Usable
<1>2. /\ kernel'[t] = [kernel[t] EXCEPT ![timer[t]] = "armed"]
      /\ \A u \in Timers \ {t} : kernel'[u] = kernel[u]
  BY <1>1 DEF Typed, TimerTypeOK, Arm
<1>3. kernel[t] \in [1 .. MaxStarts -> {"none", "created", "armed", "deleted"}]
  BY DEF Typed, TimerTypeOK
<1> QED
  BY <1>1, <1>2, <1>3 DEF Armed, Arm

\* timer_delete of the only one that expires leaves none (timer.cc 73).
LEMMA DeleteDisarmsLast ==
    ASSUME Typed, NEW t \in Timers, Delete(t), Armed(t) = {timer[t]}
    PROVE  /\ Armed(t)' = {}
           /\ stopped' = stopped /\ timer' = timer /\ fault' = fault
           /\ \A u \in Timers \ {t} : kernel'[u] = kernel[u]
<1>1. Usable(t) /\ timer[t] \in 1 .. MaxStarts
  BY DEF Typed, TimerTypeOK, Usable, Armed
<1>2. /\ kernel'[t] = [kernel[t] EXCEPT ![timer[t]] = "deleted"]
      /\ \A u \in Timers \ {t} : kernel'[u] = kernel[u]
  BY <1>1 DEF Typed, TimerTypeOK, Delete
<1>3. kernel[t] \in [1 .. MaxStarts -> {"none", "created", "armed", "deleted"}]
  BY DEF Typed, TimerTypeOK
<1> QED
  BY <1>1, <1>2, <1>3 DEF Armed, Delete

\* Where a thread is in no call of a Timer.
LEMMA Outside ==
    ASSUME NEW p, NEW u, pc[p] \notin {"arm", "clear", "flag", "delete"}
    PROVE  ~Inside(p, u)
  BY DEF At, Inside

\* A Timer is owned as before if a thread that has no call of it takes a step.
LEMMA OwnedKept ==
    ASSUME NEW p \in Threads, Steps(p), NEW u \in Timers, TimerOwned(u),
           stopped'[u] = stopped[u], timer'[u] = timer[u], kernel'[u] = kernel[u],
           ~Inside(p, u), ~Inside(p, u)'
    PROVE  TimerOwned(u)'
<1>1. Armed(u)' = Armed(u)
  BY DEF Armed
<1>2. \A q \in Threads, label \in {"arm", "clear", "flag", "delete"} :
         At(q, label, u)' <=> At(q, label, u)
  BY DEF Steps, At, Inside
<1> QED
  BY <1>1, <1>2 DEF TimerOwned, Uses, Inside

\* What the notification thread has done so far stays done if another thread steps
\* and arms nothing.
LEMMA ReportedKept ==
    ASSUME Reported, told' = told,
           todo'[Reporter] = todo[Reporter], pc'[Reporter] = pc[Reporter],
           \A u \in Timers : Armed(u)' \subseteq Armed(u)
    PROVE  Reported'
  BY SessionAssumption DEF Reported, Idle, SessionAssumption

\* The call that follows in the list, or none.
LEMMA NextCall ==
    ASSUME Typed, WellPlaced, NEW p \in Threads, pc[p] # "idle", Return(p)
    PROVE  /\ Steps(p) /\ todo'[p] = Tail(todo[p])
           /\ pc'[p] = Opening(Tail(todo[p]))
           /\ pc[p] \in {"create", "arm", "clear"} => pc'[p] \in {"create", "idle"}
           /\ pc[p] \in {"test", "flag", "delete"} => pc'[p] \in {"test", "zero", "idle"}
           /\ pc[p] = "zero" => pc'[p] \in {"test", "idle"}
           /\ pc[p] = "store" => pc'[p] = "idle"
<1>1. /\ Steps(p) /\ todo'[p] = Tail(todo[p])
      /\ pc'[p] = Opening(Tail(todo[p]))
  BY Returns
<1>2. Placed(p)
  BY DEF WellPlaced
<1> QED
  BY <1>1, <1>2, Lists, Openings DEF Placed, Rests, Starts, Stops, Zeroes, Counts

\* A Timer is owned by the only thread that is in a call of it.
LEMMA OwnedNext ==
    ASSUME NEW p \in Threads, Steps(p), NEW t \in Timers,
           \A q \in Threads \ {p} : ~Inside(q, t),
           Uses(p, t)', Armed(t)' \subseteq {timer'[t]},
           Inside(p, t)' \/ (stopped'[t] <=> Armed(t)' = {})
    PROVE  TimerOwned(t)'
<1>1. \A q \in Threads \ {p}, label \in {"arm", "clear", "flag", "delete"} :
         ~At(q, label, t)'
  BY DEF Steps, Inside, At
<1>2. \A q \in Threads \ {p} : ~Inside(q, t)' /\ Uses(q, t)'
  BY <1>1 DEF Inside, Uses
<1> QED
  BY <1>2 DEF TimerOwned

\* A step of the receive thread or a handler that calls no timer.
LEMMA QuietStep ==
    ASSUME NEW p \in Threads, Steps(p), p # Reporter, UNCHANGED <<timerVars, reportVars>>,
           answered' = answered,
           pc[p] \notin {"arm", "clear", "flag", "delete"},
           pc'[p] \notin {"arm", "clear", "flag", "delete"},
           ~fault, \A u \in Timers : TimerOwned(u), Reported, Answered
    PROVE  ~fault' /\ (\A u \in Timers : TimerOwned(u)') /\ Reported' /\ Answered'
<1>1. \A u \in Timers : TimerOwned(u)'
  BY OwnedKept DEF timerVars, Inside, At
<1>2. \A u \in Timers : Armed(u)' = Armed(u)
  BY DEF timerVars, Armed
<1>3. Reporter \in Threads \ {p}
  BY DEF Threads
<1>4. Reported'
  BY <1>2, <1>3, ReportedKept DEF Steps, reportVars
<1>5. Answered'
  BY <1>2, <1>3, SessionAssumption DEF Answered, Steps, At, SessionAssumption
<1> QED
  BY <1>1, <1>4, <1>5 DEF timerVars

\* Every step keeps TimersInv.  start() arms a timer that no other thread is in a
\* call of, so what it arms is the only one; stop() finds `stopped' true to the
\* kernel, so it deletes the one that expires, or there is none (timer.cc 20-80).
LEMMA TimersStep ==
    ASSUME Typed, WellPlaced, TimersInv, [Next]_vars
    PROVE  TimersInv'
<1> DEFINE Goal == ~fault' /\ (\A u \in Timers : TimerOwned(u)') /\ Reported' /\ Answered'
<1> SUFFICES ASSUME ~raced' PROVE Goal
  BY DEF TimersInv
<1>0. ~raced
  BY DEF Typed, Next, ThreadStep, TimerCall, HandlerStep, StartCreate, StartArm,
       StartClear,
     StopTest, StopFlag, StopDelete, Meets, Zero, Expire, Compare, PutInh,
     Load, Store,
     Connected, Lost, OpenChannel, CloseChannel, Answer, vars, historyVars
<1>a. ~fault /\ (\A u \in Timers : TimerOwned(u)) /\ Reported /\ Answered
  BY <1>0 DEF TimersInv
<1> USE SessionAssumption DEF SessionAssumption
<1>1. ASSUME NEW p \in Threads, NEW t \in Timers, StartCreate(p, t) PROVE Goal
  <2>1. /\ p = Reporter /\ pc[p] = "create" /\ At(p, "create", t)
        /\ \/ todo[p] = OnConnected /\ t = "inh"
           \/ todo[p] = ConnectedRest /\ t = "state"
    BY <1>1, Callers DEF StartCreate, At
  <2>2. \A q \in Threads : ~Inside(q, t)
    BY <1>1, <2>1, Outside DEF StartCreate, Meets
  <2>3. Armed(t) = {} /\ stopped[t]
    BY <1>a, <2>1, <2>2 DEF Reported, TimerOwned
  <2>4. told' = told /\ (answered' => answered /\ t = "state")
    BY <1>1, <2>1, Distinct DEF StartCreate, reportVars
  <2>5. CASE Create(t) /\ Goto(p, "arm")
    <3>1. Steps(p) /\ todo' = todo /\ pc'[p] = "arm"
      BY <2>1, <2>5, Moves
    <3>2. /\ Armed(t)' = {} /\ timer'[t] > 0 /\ kernel'[t][timer'[t]] = "created"
          /\ stopped' = stopped /\ fault' = fault
          /\ \A u \in Timers \ {t} : timer'[u] = timer[u] /\ kernel'[u] = kernel[u]
      BY <2>3, <2>5, CreateArmsNothing
    <3>3. TimerOwned(t)'
      <4>1. At(p, "arm", t)' /\ Inside(p, t)'
        BY <2>1, <3>1 DEF At, Inside
      <4>2. Uses(p, t)'
        BY <2>1, <2>3, <3>1, <3>2 DEF Uses, At
      <4> QED
        BY <2>2, <3>1, <3>2, <4>1, <4>2, OwnedNext
    <3>4. \A u \in Timers \ {t} : TimerOwned(u)'
      BY <1>a, <2>1, <3>1, <3>2, OwnedKept DEF Inside, At
    <3>5. \A u \in Timers : Armed(u)' = Armed(u)
      BY <2>3, <3>2 DEF Armed
    <3>6. Reported' /\ Answered'
      BY <1>a, <2>1, <2>3, <2>4, <3>1, <3>5, Distinct, Heads
      DEF Reported, Answered, Idle, At, StartOf
    <3> QED
      BY <1>a, <3>2, <3>3, <3>4, <3>6
  <2>6. CASE Return(p) /\ UNCHANGED timerVars
    <3>1. /\ Steps(p) /\ todo'[p] = Tail(todo[p])
          /\ pc'[p] = Opening(Tail(todo[p])) /\ pc'[p] \in {"create", "idle"}
      BY <2>1, <2>6, Returns, Lists, Openings
    <3>2. \A u \in Timers : TimerOwned(u)'
      BY <1>a, <2>1, <2>6, <3>1, OwnedKept DEF timerVars, Inside, At
    <3>3. \A u \in Timers : Armed(u)' = Armed(u)
      BY <2>6 DEF timerVars, Armed
    <3>4. Reported' /\ Answered'
      BY <1>a, <2>1, <2>4, <3>1, <3>3, Distinct, Lists
      DEF Reported, Answered, Idle, At
    <3> QED
      BY <1>a, <2>6, <3>2, <3>4 DEF timerVars
  <2> QED
    BY <1>1, <2>5, <2>6 DEF StartCreate
<1>2. ASSUME NEW p \in Threads, NEW t \in Timers, StartArm(p, t) PROVE Goal
  <2>1. /\ p = Reporter /\ pc[p] = "arm" /\ At(p, "arm", t) /\ Inside(p, t)
        /\ \/ todo[p] = OnConnected /\ t = "inh"
           \/ todo[p] = ConnectedRest /\ t = "state"
    BY <1>2, Callers DEF StartArm, At, Inside
  <2>2. \A q \in Threads \ {p} : ~Inside(q, t)
    BY <1>a, <2>1 DEF TimerOwned
  <2>3. Armed(t) = {} /\ stopped[t] /\ timer[t] > 0 /\ kernel[t][timer[t]] = "created"
    BY <1>a, <2>1 DEF TimerOwned, Uses
  <2>4. told' = told /\ answered' = answered /\ (answered => t = "state")
    BY <1>2, <1>a, <2>1 DEF StartArm, reportVars, historyVars, Answered
  <2>5. CASE Arm(t) /\ Goto(p, "clear")
    <3>1. Steps(p) /\ todo' = todo /\ pc'[p] = "clear"
      BY <2>1, <2>5, Moves
    <3>2. /\ Armed(t)' = {timer[t]} /\ stopped' = stopped /\ timer' = timer /\ fault' = fault
          /\ \A u \in Timers \ {t} : kernel'[u] = kernel[u]
      BY <2>3, <2>5, ArmArmsLast
    <3>3. TimerOwned(t)'
      <4>1. At(p, "clear", t)' /\ Inside(p, t)'
        BY <2>1, <3>1 DEF At, Inside
      <4>2. Uses(p, t)'
        BY <2>1, <2>3, <3>1, <3>2 DEF Uses, At
      <4> QED
        BY <2>2, <3>1, <3>2, <4>1, <4>2, OwnedNext
    <3>4. \A u \in Timers \ {t} : ~Inside(p, u) /\ ~Inside(p, u)'
      BY <2>1, <3>1 DEF Inside, At
    <3>5. \A u \in Timers \ {t} : TimerOwned(u)' /\ Armed(u)' = Armed(u)
      BY <1>a, <3>1, <3>2, <3>4, OwnedKept DEF Armed
    <3>6. Reported' /\ Answered'
      BY <1>a, <2>1, <2>3, <2>4, <3>1, <3>2, <3>5, Distinct
      DEF Reported, Answered, Idle, At
    <3> QED
      BY <1>a, <3>2, <3>3, <3>5, <3>6
  <2>6. CASE Return(p) /\ UNCHANGED timerVars
    <3>1. /\ Steps(p) /\ todo'[p] = Tail(todo[p])
          /\ pc'[p] = Opening(Tail(todo[p])) /\ pc'[p] \in {"create", "idle"}
      BY <2>1, <2>6, Returns, Lists, Openings
    <3>2. \A u \in Timers : Armed(u)' = Armed(u)
      BY <2>6 DEF timerVars, Armed
    <3>3. TimerOwned(t)'
      <4>1. Uses(p, t)'
        BY <3>1 DEF Uses, At
      <4> QED
        BY <2>2, <2>3, <2>6, <3>1, <3>2, <4>1, OwnedNext DEF timerVars
    <3>4. \A u \in Timers \ {t} : TimerOwned(u)'
      BY <1>a, <2>1, <2>6, <3>1, OwnedKept DEF timerVars, Inside, At
    <3>5. Reported' /\ Answered'
      BY <1>a, <2>1, <2>3, <2>4, <3>1, <3>2, Distinct, Lists
      DEF Reported, Answered, Idle, At
    <3> QED
      BY <1>a, <2>6, <3>3, <3>4, <3>5 DEF timerVars
  <2> QED
    BY <1>2, <2>5, <2>6 DEF StartArm
<1>3. ASSUME NEW p \in Threads, NEW t \in Timers, StartClear(p, t) PROVE Goal
  <2>1. /\ p = Reporter /\ pc[p] = "clear" /\ At(p, "clear", t) /\ Inside(p, t)
        /\ \/ todo[p] = OnConnected /\ t = "inh"
           \/ todo[p] = ConnectedRest /\ t = "state"
    BY <1>3, Callers DEF StartClear, At, Inside
  <2>2. \A q \in Threads \ {p} : ~Inside(q, t)
    BY <1>a, <2>1 DEF TimerOwned
  <2>3. Armed(t) = {timer[t]}
    BY <1>a, <2>1 DEF TimerOwned, Uses
  <2>4. /\ Steps(p) /\ todo'[p] = Tail(todo[p])
        /\ pc'[p] = Opening(Tail(todo[p])) /\ pc'[p] \in {"create", "idle"}
    BY <1>3, <2>1, Returns, Lists, Openings DEF StartClear
  <2>5. /\ stopped' = [stopped EXCEPT ![t] = FALSE] /\ UNCHANGED <<timer, kernel, fault>>
        /\ told' = told /\ answered' = answered
    BY <1>3 DEF StartClear, SetStopped, reportVars, historyVars
  <2>6. \A u \in Timers : Armed(u)' = Armed(u)
    BY <2>5 DEF Armed
  <2>7. TimerOwned(t)'
    <3>1. Uses(p, t)' /\ ~stopped'[t]
      BY <2>4, <2>5 DEF Uses, At, Typed, TimerTypeOK
    <3>2. Armed(t)' = {timer[t]}
      BY <2>3, <2>6
    <3> QED
      BY <2>2, <2>4, <2>5, <3>1, <3>2, OwnedNext
  <2>8. \A u \in Timers \ {t} : TimerOwned(u)'
    BY <1>a, <2>1, <2>4, <2>5, OwnedKept DEF Inside, At, Typed, TimerTypeOK
  <2>9. Reported' /\ Answered'
    BY <1>a, <2>1, <2>4, <2>5, <2>6, Distinct, Lists
    DEF Reported, Answered, Idle, At
  <2> QED
    BY <1>a, <2>5, <2>7, <2>8, <2>9
<1>4. ASSUME NEW p \in Threads, NEW t \in Timers, StopTest(p, t) PROVE Goal
  <2>1. /\ pc[p] = "test" /\ At(p, "test", t)
        /\ \/ p = Reporter /\ todo[p] = OnLost /\ t = "state"
           \/ p = Reporter /\ todo[p] = OnMessage /\ t = "inh"
           \/ p # Reporter /\ (p = Receiver => t = "inh")
    BY <1>4, Callers DEF StopTest, At
  <2>2. \A q \in Threads : ~Inside(q, t)
    BY <1>4, <2>1, Outside DEF StopTest, Meets
  <2>3. (stopped[t] <=> Armed(t) = {}) /\ Armed(t) \subseteq {timer[t]}
    BY <1>a, <2>2 DEF TimerOwned
  <2>4. /\ UNCHANGED timerVars /\ told' = told
        /\ answered' = (answered \/ (p = Receiver /\ stopped[t]))
    BY <1>4 DEF StopTest, reportVars
  <2>5. \A u \in Timers : Armed(u)' = Armed(u)
    BY <2>4 DEF timerVars, Armed
  <2>6. CASE stopped[t]
    <3>1. Return(p)
      BY <1>4, <2>6 DEF StopTest
    <3>2. /\ Steps(p) /\ todo'[p] = Tail(todo[p])
          /\ pc'[p] = Opening(Tail(todo[p])) /\ pc'[p] \in {"test", "zero", "idle"}
      BY <2>1, <3>1, NextCall
    <3>3. \A u \in Timers : TimerOwned(u)'
      BY <1>a, <2>1, <2>4, <3>2, OwnedKept DEF timerVars, Inside, At
    <3>4. Reported'
      <4>1. CASE p # Reporter
        BY <1>a, <2>4, <2>5, <3>2, <4>1, ReportedKept DEF Steps, Threads
      <4>2. CASE p = Reporter
        BY <1>a, <2>1, <2>3, <2>4, <2>5, <2>6, <3>2, <4>2, Lists, Distinct,
            Openings
        DEF Reported, Idle
      <4> QED
        BY <4>1, <4>2
    <3>5. Answered'
      BY <1>a, <2>1, <2>2, <2>3, <2>4, <2>5, <2>6, <3>2
      DEF Answered, At, Inside, Steps, Threads
    <3> QED
      BY <1>a, <2>4, <3>3, <3>4, <3>5 DEF timerVars
  <2>7. CASE ~stopped[t]
    <3>1. Steps(p) /\ todo' = todo /\ pc'[p] = "flag"
      BY <1>4, <2>1, <2>7, Moves DEF StopTest
    <3>2. TimerOwned(t)'
      <4>1. At(p, "flag", t)' /\ Inside(p, t)'
        BY <2>1, <3>1 DEF At, Inside
      <4>2. Uses(p, t)'
        BY <2>3, <2>4, <2>5, <2>7, <3>1 DEF Uses, At, timerVars
      <4> QED
        BY <2>2, <2>3, <2>4, <2>5, <3>1, <4>1, <4>2, OwnedNext DEF timerVars
    <3>3. \A u \in Timers \ {t} : TimerOwned(u)'
      BY <1>a, <2>1, <2>4, <3>1, OwnedKept DEF timerVars, Inside, At
    <3>4. Reported' /\ Answered'
      BY <1>a, <2>1, <2>4, <2>5, <2>7, <3>1, Distinct
      DEF Reported, Answered, Idle, At, Steps, Threads
    <3> QED
      BY <1>a, <2>4, <3>2, <3>3, <3>4 DEF timerVars
  <2> QED
    BY <2>6, <2>7
<1>5. ASSUME NEW p \in Threads, NEW t \in Timers, StopFlag(p, t) PROVE Goal
  <2>1. /\ pc[p] = "flag" /\ At(p, "flag", t) /\ Inside(p, t)
        /\ \/ p = Reporter /\ todo[p] = OnLost /\ t = "state"
           \/ p = Reporter /\ todo[p] = OnMessage /\ t = "inh"
           \/ p # Reporter /\ (p = Receiver => t = "inh")
    BY <1>5, Callers DEF StopFlag, At, Inside
  <2>2. \A q \in Threads \ {p} : ~Inside(q, t)
    BY <1>a, <2>1 DEF TimerOwned
  <2>3. Armed(t) = {timer[t]}
    BY <1>a, <2>1 DEF TimerOwned, Uses
  <2>4. /\ stopped' = [stopped EXCEPT ![t] = TRUE] /\ UNCHANGED <<timer, kernel, fault>>
        /\ told' = told /\ answered' = answered
    BY <1>5 DEF StopFlag, SetStopped, reportVars, historyVars
  <2>5. \A u \in Timers : Armed(u)' = Armed(u)
    BY <2>4 DEF Armed
  <2>6. Steps(p) /\ todo' = todo /\ pc'[p] = "delete"
    BY <1>5, <2>1, Moves DEF StopFlag
  <2>7. TimerOwned(t)'
    <3>1. At(p, "delete", t)' /\ Inside(p, t)'
      BY <2>1, <2>6 DEF At, Inside
    <3>2. stopped'[t] /\ timer'[t] = timer[t]
      BY <2>4 DEF Typed, TimerTypeOK
    <3>3. Uses(p, t)'
      BY <2>3, <2>5, <2>6, <3>2 DEF Uses, At
    <3> QED
      BY <2>2, <2>3, <2>4, <2>5, <2>6, <3>1, <3>3, OwnedNext
  <2>8. \A u \in Timers \ {t} : TimerOwned(u)'
    <3>1. \A u \in Timers \ {t} : ~Inside(p, u) /\ ~Inside(p, u)' /\ stopped'[u] = stopped[u]
      BY <2>1, <2>4, <2>6 DEF Inside, At, Typed, TimerTypeOK
    <3> QED
      BY <1>a, <2>4, <2>6, <3>1, OwnedKept
  <2>9. Reported' /\ Answered'
    BY <1>a, <2>1, <2>4, <2>5, <2>6, Distinct
    DEF Reported, Answered, Idle, At, Steps, Threads
  <2> QED
    BY <1>a, <2>4, <2>7, <2>8, <2>9
<1>6. ASSUME NEW p \in Threads, NEW t \in Timers, StopDelete(p, t) PROVE Goal
  <2>1. /\ pc[p] = "delete" /\ At(p, "delete", t) /\ Inside(p, t)
        /\ \/ p = Reporter /\ todo[p] = OnLost /\ t = "state"
           \/ p = Reporter /\ todo[p] = OnMessage /\ t = "inh"
           \/ p # Reporter /\ (p = Receiver => t = "inh")
    BY <1>6, Callers DEF StopDelete, At, Inside
  <2>2. \A q \in Threads \ {p} : ~Inside(q, t)
    BY <1>a, <2>1 DEF TimerOwned
  <2>3. Armed(t) = {timer[t]} /\ stopped[t]
    BY <1>a, <2>1 DEF TimerOwned, Uses
  <2>4. /\ Armed(t)' = {} /\ stopped' = stopped /\ timer' = timer /\ fault' = fault
        /\ \A u \in Timers \ {t} : kernel'[u] = kernel[u]
    BY <1>6, <2>3, DeleteDisarmsLast DEF StopDelete
  <2>5. told' = told /\ answered' = (answered \/ p = Receiver)
    BY <1>6 DEF StopDelete, reportVars
  <2>6. /\ Steps(p) /\ todo'[p] = Tail(todo[p])
        /\ pc'[p] = Opening(Tail(todo[p])) /\ pc'[p] \in {"test", "zero", "idle"}
    BY <1>6, <2>1, NextCall DEF StopDelete
  <2>7. TimerOwned(t)'
    <3>1. Uses(p, t)'
      BY <2>6 DEF Uses, At
    <3> QED
      BY <2>2, <2>3, <2>4, <2>6, <3>1, OwnedNext
  <2>8. \A u \in Timers \ {t} : TimerOwned(u)' /\ Armed(u)' = Armed(u)
    <3>1. \A u \in Timers \ {t} : ~Inside(p, u) /\ ~Inside(p, u)'
      BY <2>1, <2>6 DEF Inside, At
    <3> QED
      BY <1>a, <2>4, <2>6, <3>1, OwnedKept DEF Armed
  <2>9. Reported'
    <3>1. CASE p # Reporter
      <4>1. \A u \in Timers : Armed(u)' \subseteq Armed(u)
        BY <2>4, <2>8
      <4> QED
        BY <1>a, <2>5, <2>6, <3>1, <4>1, ReportedKept DEF Steps, Threads
    <3>2. CASE p = Reporter
      <4>1. CASE todo[p] = OnLost /\ t = "state"
        <5>1. todo'[Reporter] = OnMessage /\ pc'[Reporter] = "test" /\ told' = "LOST"
          BY <1>a, <2>5, <2>6, <3>2, <4>1, Lists, Openings DEF Reported
        <5> QED
          BY <2>4, <4>1, <5>1, Distinct DEF Reported, Idle
      <4>2. CASE todo[p] = OnMessage /\ t = "inh"
        <5>1. todo'[Reporter] = Last /\ pc'[Reporter] = "zero" /\ told' = "LOST"
          BY <1>a, <2>5, <2>6, <3>2, <4>2, Lists, Openings DEF Reported
        <5>2. \A u \in Timers : Armed(u)' = {}
          BY <1>a, <2>4, <2>8, <3>2, <4>2 DEF Reported
        <5> QED
          BY <5>1, <5>2, Distinct DEF Reported, Idle
      <4> QED
        BY <2>1, <3>2, <4>1, <4>2
    <3> QED
      BY <3>1, <3>2
  <2>10. Answered'
    BY <1>a, <2>1, <2>2, <2>4, <2>5, <2>6, <2>8
    DEF Answered, At, Inside, Steps, Threads
  <2> QED
    BY <1>a, <2>4, <2>7, <2>8, <2>9, <2>10
<1>7. ASSUME NEW p \in Threads, Zero(p) PROVE Goal
  <2>1. /\ Steps(p) /\ pc[p] = "zero" /\ todo'[p] = Tail(todo[p])
        /\ pc'[p] = Opening(Tail(todo[p])) /\ UNCHANGED timerVars
    BY <1>7, Returns DEF Zero
  <2>2. /\ (p = Reporter /\ todo[p] = Last) \/ p # Reporter
        /\ pc'[p] \in {"idle", "test"}
    BY <2>1, Lists, Openings
    DEF WellPlaced, Placed, Rests, Starts, Stops, Zeroes, Counts
  <2>3. \A u \in Timers : TimerOwned(u)'
    BY <1>a, <2>1, <2>2, OwnedKept, Outside DEF timerVars, Inside, At
  <2>4. \A u \in Timers : Armed(u)' = Armed(u)
    BY <2>1 DEF timerVars, Armed
  <2>5. Reported'
    <3>1. CASE p # Reporter
      BY <1>7, <1>a, <2>1, <2>4, <3>1, ReportedKept
      DEF Steps, Zero, reportVars, Threads
    <3>2. CASE p = Reporter
      BY <1>7, <1>a, <2>1, <2>2, <2>4, <3>2, Lists, Distinct
      DEF Reported, Zero, reportVars
    <3> QED
      BY <3>1, <3>2
  <2>6. Answered'
    BY <1>7, <1>a, <2>1, <2>2, <2>4 DEF Answered, Zero, At, Steps, Threads
  <2> QED
    BY <1>a, <2>1, <2>3, <2>5, <2>6 DEF timerVars
<1>8. ASSUME NEW h \in Handlers, Expire(h) PROVE Goal
  <2>1. /\ UNCHANGED <<timerVars, reportVars>> /\ answered' = answered
        /\ h \in Threads /\ h # Reporter
    BY <1>8 DEF Expire, Threads, historyVars
  <2>2. /\ Steps(h)
        /\ pc[h] \notin {"arm", "clear", "flag", "delete"}
        /\ pc'[h] \notin {"arm", "clear", "flag", "delete"}
    <3>1. h \in Threads
      BY DEF Threads
    <3> QED
      BY <1>8, <3>1, Runs, Openings
      DEF Expire, Idle, Counting
  <2> QED
    BY <1>a, <2>1, <2>2, QuietStep
<1>9. ASSUME NEW h \in Handlers, Compare(h) PROVE Goal
  <2>1. /\ UNCHANGED <<timerVars, reportVars>> /\ answered' = answered
        /\ h \in Threads /\ h # Reporter
    BY <1>9 DEF Compare, Threads, historyVars
  <2>2. /\ Steps(h)
        /\ pc[h] \notin {"arm", "clear", "flag", "delete"}
        /\ pc'[h] \notin {"arm", "clear", "flag", "delete"}
    <3>1. h \in Threads
      BY DEF Threads
    <3> QED
      BY <1>9, <3>1, Runs, Moves, Openings
      DEF Compare, Threads
  <2> QED
    BY <1>a, <2>1, <2>2, QuietStep
<1>10. ASSUME NEW h \in Handlers, PutInh(h) PROVE Goal
  <2>1. /\ UNCHANGED <<timerVars, reportVars>> /\ answered' = answered
        /\ h \in Threads /\ h # Reporter
    BY <1>10 DEF PutInh, Threads, historyVars
  <2>2. /\ Steps(h)
        /\ pc[h] \notin {"arm", "clear", "flag", "delete"}
        /\ pc'[h] \notin {"arm", "clear", "flag", "delete"}
    <3>1. h \in Threads
      BY DEF Threads
    <3> QED
      BY <1>10, <3>1, Moves, Openings
      DEF PutInh, Threads
  <2> QED
    BY <1>a, <2>1, <2>2, QuietStep
<1>11. ASSUME NEW h \in Handlers, Load(h) PROVE Goal
  <2>1. /\ UNCHANGED <<timerVars, reportVars>> /\ answered' = answered
        /\ h \in Threads /\ h # Reporter
    BY <1>11 DEF Load, Threads, historyVars
  <2>2. /\ Steps(h)
        /\ pc[h] \notin {"arm", "clear", "flag", "delete"}
        /\ pc'[h] \notin {"arm", "clear", "flag", "delete"}
    <3>1. h \in Threads
      BY DEF Threads
    <3> QED
      BY <1>11, <3>1, Moves, Openings
      DEF Load, Threads
  <2> QED
    BY <1>a, <2>1, <2>2, QuietStep
<1>12. ASSUME NEW h \in Handlers, Store(h) PROVE Goal
  <2>1. /\ UNCHANGED <<timerVars, reportVars>> /\ answered' = answered
        /\ h \in Threads /\ h # Reporter
    BY <1>12 DEF Store, Threads, historyVars
  <2>2. /\ Steps(h)
        /\ pc[h] \notin {"arm", "clear", "flag", "delete"}
        /\ pc'[h] \notin {"arm", "clear", "flag", "delete"}
    <3>1. h \in Threads
      BY DEF Threads
    <3> QED
      BY <1>12, <3>1, Returns, Lists, Openings
      DEF Store, WellPlaced, Placed, Rests, Starts, Stops, Zeroes, Counts
  <2> QED
    BY <1>a, <2>1, <2>2, QuietStep
<1>13. CASE Connected
  <2>1. /\ Steps(Reporter) /\ Reporter \in Threads
        /\ todo'[Reporter] = OnConnected /\ pc'[Reporter] = "create"
    BY <1>13, Runs, Openings DEF Connected, Threads
  <2>2. pc[Reporter] = "idle" /\ told # "CONNECTED" /\ told' = "CONNECTED"
        /\ UNCHANGED timerVars /\ answered' = answered
    BY <1>13 DEF Connected, Idle, TellConnected, historyVars
  <2>3. \A u \in Timers : TimerOwned(u)'
    BY <1>a, <2>1, <2>2, OwnedKept DEF timerVars, Inside, At
  <2>4. \A u \in Timers : Armed(u)' = Armed(u) /\ Armed(u) = {}
    BY <1>a, <2>2 DEF timerVars, Armed, Reported, Idle
  <2>5. Reported' /\ Answered'
    BY <1>a, <2>1, <2>2, <2>4, Distinct DEF Reported, Answered, Idle, At
  <2> QED
    BY <1>a, <2>2, <2>3, <2>5 DEF timerVars
<1>14. CASE Lost
  <2>1. /\ Steps(Reporter) /\ Reporter \in Threads
        /\ todo'[Reporter] = OnLost /\ pc'[Reporter] = "test"
    BY <1>14, Runs, Openings DEF Lost, Threads
  <2>2. pc[Reporter] = "idle" /\ told' = "LOST"
        /\ UNCHANGED timerVars /\ answered' = answered
    BY <1>14 DEF Lost, Idle, TellLost, historyVars
  <2>3. \A u \in Timers : TimerOwned(u)'
    BY <1>a, <2>1, <2>2, OwnedKept DEF timerVars, Inside, At
  <2>4. \A u \in Timers : Armed(u)' = Armed(u)
    BY <2>2 DEF timerVars, Armed
  <2>5. Reported' /\ Answered'
    BY <1>a, <2>1, <2>2, <2>4, Distinct DEF Reported, Answered, Idle, At
  <2> QED
    BY <1>a, <2>2, <2>3, <2>5 DEF timerVars
<1>15. CASE OpenChannel
  BY <1>15, <1>a
  DEF OpenChannel, Open, timerVars, threadVars, sessionVars, historyVars,
       TimerOwned, Uses, Inside,
      At, Reported, Answered, Armed, Idle
<1>16. CASE CloseChannel
  BY <1>16, <1>a
  DEF CloseChannel, Close, timerVars, threadVars, sessionVars, historyVars,
       TimerOwned, Uses, Inside,
      At, Reported, Answered, Armed, Idle
<1>17. CASE Answer
  <2>1. /\ Steps(Receiver) /\ Receiver \in Threads /\ Receiver # Reporter
        /\ pc[Receiver] = "idle" /\ pc'[Receiver] = "test"
        /\ UNCHANGED <<timerVars, reportVars>> /\ answered' = answered
    BY <1>17, Runs, Openings DEF Answer, Threads, Idle, historyVars
  <2> QED
    BY <1>a, <2>1, QuietStep
<1>18. CASE UNCHANGED vars
  BY <1>18, <1>a
  DEF vars, timerVars, reportVars, threadVars, historyVars, TimerOwned, Uses,
       Inside, At, Reported,
      Answered, Armed, Idle
<1> QED
  BY <1>1, <1>2, <1>3, <1>4, <1>5, <1>6, <1>7, <1>8, <1>9, <1>10, <1>11,
     <1>12, <1>13, <1>14, <1>15, <1>16, <1>17, <1>18
  DEF Next, ThreadStep, TimerCall, HandlerStep

-----------------------------------------------------------------------------
(* The theorems about the timers                                           *)

\* In every behaviour each thread is in one of the calls of its own callback, and a
\* Timer belongs to the thread in a call of it until two of them meet there
\* (main.cc 29-96, timer.cc 20-80).
THEOREM TimersInvariant == Spec => [](Typed /\ WellPlaced /\ TimersInv)
<1> DEFINE Inv == Typed /\ WellPlaced /\ TimersInv
<1>1. Init => Inv
  <2> SUFFICES ASSUME Init PROVE Inv
    OBVIOUS
  <2> USE TimerAssumption, SessionAssumption
      DEF Init, TimerInit, ReportInit, TimerAssumption, SessionAssumption
  <2>1. Typed
    <3>1. TimerTypeOK
      <4>1. stopped \in [Timers -> BOOLEAN] /\ fault \in BOOLEAN
        OBVIOUS
      <4>2. timer \in [Timers -> 0 .. MaxStarts]
        OBVIOUS
      <4>3. kernel \in [Timers ->
                          [1 .. MaxStarts -> {"none", "created", "armed", "deleted"}]]
        OBVIOUS
      <4> QED
        BY <4>1, <4>2, <4>3 DEF TimerTypeOK
    <3>2. todo \in [Threads -> Seq(Calls)] /\ pc \in [Threads -> Labels]
      BY ListTypes DEF Labels
    <3>3. reg \in [Handlers -> Nat] /\ old \subseteq Handlers
      OBVIOUS
    <3>4. /\ live \in BOOLEAN /\ owed \in BOOLEAN /\ asked \in BOOLEAN
          /\ carried \in BOOLEAN /\ answered \in BOOLEAN /\ raced \in BOOLEAN
      OBVIOUS
    <3>5. told \in {"CLOSED", "CONNECTED", "LOST"} /\ count \in Nat /\ sent \in 0 .. 3
      OBVIOUS
    <3> QED
      BY <3>1, <3>2, <3>3, <3>4, <3>5 DEF Typed
  <2>2. WellPlaced
    BY DEF WellPlaced, Placed, Rests
  <2>3. /\ \A p \in Threads, t \in Timers, label \in Labels \ {"idle"} : ~At(p, label, t)
        /\ \A t \in Timers : Armed(t) = {}
    BY DEF At, Armed
  <2>4. TimersInv
    BY <2>3, Distinct
    DEF TimersInv, TimerOwned, Uses, Inside, Reported, Answered, Labels, Threads
  <2> QED
    BY <2>1, <2>2, <2>4
<1>2. Inv /\ [Next]_vars => Inv'
  BY TypedStep, TimersStep
<1> QED
  BY <1>1, <1>2, PTL DEF Spec

\* Once on_message has stopped the INH timer no kernel timer of it expires until the
\* next CONNECTED, unless calls of one Timer met (main.cc 89-94, timer.cc 59, 66).
THEOREM AnswerStopsTimer == Spec => []AnswerEndsRetries
<1>1. Typed /\ TimersInv => AnswerEndsRetries
  BY DEF TimersInv, Answered, AnswerEndsRetries
<1> QED
  BY <1>1, TimersInvariant, PTL

\* No start() leaves an older kernel timer behind, `stopped' is true to the kernel
\* between calls, and between reports a timer expires only while the application is
\* told CONNECTED, unless calls of one Timer met (main.cc 65-72, timer.cc 20-80).
THEOREM TimersFollowReports == Spec => []TimersMatchReports
<1>1. TimersInv => TimersMatchReports
  BY DEF TimersInv, TimerOwned, Reported, TimersMatchReports
<1> QED
  BY <1>1, TimersInvariant, PTL

\* No kernel timer is armed or deleted after its deletion, whoever calls stop() and
\* how often, unless calls of one Timer met (timer.cc 66-73).
THEOREM FaultNeedsRace == Spec => []DeleteTwiceNeedsRace
<1>1. TimersInv => DeleteTwiceNeedsRace
  BY DEF TimersInv, DeleteTwiceNeedsRace
<1> QED
  BY <1>1, TimersInvariant, PTL

-----------------------------------------------------------------------------
(* Why the count is right, and the theorems about it                       *)

\* The statements of a handler's work on the count.
Counted == {"compare", "put", "load", "store"}

\* A step that leaves the count alone, and does not make the cloud's answer older.
LEMMA CountKept ==
    ASSUME NEW p \in Threads, Steps(p), CountInv, pc'[p] \notin Counted,
           UNCHANGED <<count, sent, old, carried, reg>>,
           ~raced' /\ answered' /\ pc'[Receiver] # "zero"
             => ~raced /\ answered /\ pc[Receiver] # "zero"
    PROVE  CountInv'
<1>1. \A h \in Handlers : pc'[h] \in Counted => pc[h] = pc'[h]
  BY DEF Steps, Threads
<1> QED
  BY <1>1 DEF CountInv, Counted

\* Every step keeps CountInv: with one handler at a time the load and the store of
\* an increment are parted only by a reset, which `carried' then tells.
LEMMA CountStep ==
    ASSUME OneHandler, Typed, WellPlaced, TimersInv, CountInv, [Next]_vars
    PROVE  CountInv'
<1> USE SessionAssumption DEF SessionAssumption, OneHandler, Typed, CountInv
<1>1. ASSUME NEW p \in Threads, NEW t \in Timers, StartCreate(p, t) PROVE CountInv'
  <2>1. /\ UNCHANGED <<count, sent, old, carried, reg>> /\ (raced => raced')
        /\ (answered' => answered)
    BY <1>1 DEF StartCreate, sessionVars, historyVars, Meets
  <2>2. Steps(p) /\ pc'[p] \in {"create", "arm", "clear", "idle"} /\ pc[p] # "zero"
    BY <1>1, NextCall, Moves DEF StartCreate, At
  <2> QED
    BY <2>1, <2>2, CountKept DEF Steps, Threads, Counted
<1>2. ASSUME NEW p \in Threads, NEW t \in Timers, StartArm(p, t) PROVE CountInv'
  <2>1. /\ UNCHANGED <<count, sent, old, carried, reg>> /\ (raced => raced')
        /\ (answered' = answered)
    BY <1>2 DEF StartArm, sessionVars, historyVars, Meets
  <2>2. Steps(p) /\ pc'[p] \in {"create", "arm", "clear", "idle"} /\ pc[p] # "zero"
    BY <1>2, NextCall, Moves DEF StartArm, At
  <2> QED
    BY <2>1, <2>2, CountKept DEF Steps, Threads, Counted
<1>3. ASSUME NEW p \in Threads, NEW t \in Timers, StartClear(p, t) PROVE CountInv'
  <2>1. /\ UNCHANGED <<count, sent, old, carried, reg>> /\ (raced => raced')
        /\ (answered' = answered)
    BY <1>3 DEF StartClear, sessionVars, historyVars, Meets
  <2>2. Steps(p) /\ pc'[p] \in {"create", "arm", "clear", "idle"} /\ pc[p] # "zero"
    BY <1>3, NextCall, Moves DEF StartClear, At
  <2> QED
    BY <2>1, <2>2, CountKept DEF Steps, Threads, Counted
<1>4. ASSUME NEW p \in Threads, NEW t \in Timers, StopTest(p, t) PROVE CountInv'
  <2>1. /\ UNCHANGED <<count, sent, old, carried, reg>> /\ (raced => raced')
        /\ (answered' => answered \/ (p = Receiver /\ stopped[t]))
    BY <1>4 DEF StopTest, sessionVars, historyVars, Meets
  <2>2. Steps(p) /\ pc'[p] \in {"test", "flag", "delete", "zero", "idle"} /\ pc[p] # "zero"
    BY <1>4, NextCall, Moves DEF StopTest, At
  <2>3. p = Receiver /\ stopped[t] => pc'[Receiver] = "zero"
    BY <1>4, <2>1, Callers, NextCall, Lists, Openings DEF StopTest, At
  <2> QED
    BY <2>1, <2>2, <2>3, CountKept DEF Steps, Threads, Counted
<1>5. ASSUME NEW p \in Threads, NEW t \in Timers, StopFlag(p, t) PROVE CountInv'
  <2>1. /\ UNCHANGED <<count, sent, old, carried, reg>> /\ (raced => raced')
        /\ (answered' = answered)
    BY <1>5 DEF StopFlag, sessionVars, historyVars, Meets
  <2>2. Steps(p) /\ pc'[p] \in {"test", "flag", "delete", "zero", "idle"} /\ pc[p] # "zero"
    BY <1>5, Moves DEF StopFlag, At
  <2> QED
    BY <2>1, <2>2, CountKept DEF Steps, Threads, Counted
<1>6. ASSUME NEW p \in Threads, NEW t \in Timers, StopDelete(p, t) PROVE CountInv'
  <2>1. /\ UNCHANGED <<count, sent, old, carried, reg>> /\ (raced => raced')
        /\ (answered' => answered \/ p = Receiver)
    BY <1>6 DEF StopDelete, sessionVars, historyVars, Meets
  <2>2. Steps(p) /\ pc'[p] \in {"test", "flag", "delete", "zero", "idle"} /\ pc[p] # "zero"
    BY <1>6, NextCall DEF StopDelete, At
  <2>3. p = Receiver => pc'[Receiver] = "zero"
    BY <1>6, <2>1, Callers, NextCall, Lists, Openings DEF StopDelete, At
  <2> QED
    BY <2>1, <2>2, <2>3, CountKept DEF Steps, Threads, Counted
<1>7. ASSUME NEW p \in Threads, Zero(p) PROVE CountInv'
  <2>1. /\ count' = 0 /\ sent' = 0 /\ carried' = FALSE /\ reg' = reg /\ raced' = raced
        /\ old' = {h \in Handlers \ {p} : ~Idle(h)}
    BY <1>7 DEF Zero
  <2>2. Steps(p) /\ pc'[p] \notin Counted
    BY <1>7, NextCall DEF Zero, Counted
  <2>3. \A h \in Handlers : pc'[h] \in Counted => pc[h] = pc'[h] /\ h \in old'
    BY <2>1, <2>2 DEF Steps, Threads, Idle, Counted
  <2> QED
    BY <2>1, <2>3 DEF Counted
<1>8. ASSUME NEW h \in Handlers, Expire(h) PROVE CountInv'
  <2>1. /\ count' = count /\ sent' = sent /\ carried' = carried /\ raced' = raced
        /\ answered' = answered /\ h \in Threads
    BY <1>8 DEF Expire, sessionVars, Threads
  <2>2. Steps(h) /\ pc'[h] = "compare"
    BY <1>8, <2>1, Runs, Openings DEF Expire, Counting
  <2>3. ~(~raced /\ answered)
    BY <1>8 DEF Expire, TimersInv, Answered
  <2>4. \A g \in Handlers : g = h
    OBVIOUS
  <2> QED
    BY <2>1, <2>2, <2>3, <2>4
<1>9. ASSUME NEW h \in Handlers, Compare(h) PROVE CountInv'
  BY <1>9, Returns, Runs, Moves, Lists, Openings
  DEF Compare, Idle, Counting, timerVars, reportVars, sessionVars, historyVars,
       Steps, Threads
<1>10. ASSUME NEW h \in Handlers, PutInh(h) PROVE CountInv'
  BY <1>10, Returns, Runs, Moves, Lists, Openings
  DEF PutInh, Idle, Counting, timerVars, reportVars, sessionVars, historyVars,
       Steps, Threads
<1>11. ASSUME NEW h \in Handlers, Load(h) PROVE CountInv'
  BY <1>11, Returns, Runs, Moves, Lists, Openings
  DEF Load, Idle, Counting, timerVars, reportVars, sessionVars, historyVars,
       Steps, Threads
<1>12. ASSUME NEW h \in Handlers, Store(h) PROVE CountInv'
  <2>1. /\ count' = reg[h] + 1 /\ sent' = sent /\ carried' = (carried \/ h \in old)
        /\ h \in Threads /\ pc[h] = "store"
    BY <1>12 DEF Store, Threads
  <2>2. Steps(h) /\ pc'[h] = "idle"
    BY <1>12, <2>1, NextCall DEF Store
  <2>3. reg[h] \in Nat /\ sent \in Nat
    OBVIOUS
  <2>4. reg[h] <= 2 /\ (~carried' => reg[h] < sent)
    BY <2>1
  <2>6. count' <= 3 /\ (~carried' => count' <= sent')
    BY <2>1, <2>3, <2>4
  <2>5. \A g \in Handlers : pc'[g] = "idle"
    BY <2>2
  <2> QED
    BY <2>5, <2>6
<1>13. CASE Connected
  <2>1. /\ UNCHANGED <<count, sent, old, carried, reg>> /\ (raced => raced')
        /\ answered' = answered
    BY <1>13 DEF Connected, sessionVars, historyVars
  <2>2. /\ Steps(Reporter) /\ Reporter \in Threads
        /\ pc'[Reporter] \notin Counted /\ pc[Reporter] # "zero"
    BY <1>13, Runs, Openings DEF Connected, Threads, Idle, Counted
  <2> QED
    BY <2>1, <2>2, CountKept DEF Steps, Threads
<1>14. CASE Lost
  <2>1. /\ UNCHANGED <<count, sent, old, carried, reg>> /\ (raced => raced')
        /\ answered' = answered
    BY <1>14 DEF Lost, sessionVars, historyVars
  <2>2. /\ Steps(Reporter) /\ Reporter \in Threads
        /\ pc'[Reporter] \notin Counted /\ pc[Reporter] # "zero"
    BY <1>14, Runs, Openings DEF Lost, Threads, Idle, Counted
  <2> QED
    BY <2>1, <2>2, CountKept DEF Steps, Threads
<1>15. CASE OpenChannel
  BY <1>15, Runs, Openings
  DEF OpenChannel, Idle, threadVars, timerVars, reportVars, sessionVars,
       historyVars, Steps, Threads
<1>16. CASE CloseChannel
  BY <1>16, Runs, Openings
  DEF CloseChannel, Idle, threadVars, timerVars, reportVars, sessionVars,
       historyVars, Steps, Threads
<1>17. CASE Answer
  <2>1. /\ UNCHANGED <<count, sent, old, carried, reg>> /\ (raced => raced')
        /\ answered' = answered
    BY <1>17 DEF Answer, sessionVars, historyVars
  <2>2. /\ Steps(Receiver) /\ Receiver \in Threads
        /\ pc'[Receiver] \notin Counted /\ pc[Receiver] # "zero"
    BY <1>17, Runs, Openings DEF Answer, Threads, Idle, Counted
  <2> QED
    BY <2>1, <2>2, CountKept DEF Steps, Threads
<1>18. CASE UNCHANGED vars
  BY <1>18
  DEF vars, threadVars, timerVars, reportVars, sessionVars, historyVars, Steps,
       Threads
<1> QED
  BY <1>1, <1>2, <1>3, <1>4, <1>5, <1>6, <1>7, <1>8, <1>9, <1>10, <1>11,
     <1>12, <1>13, <1>14, <1>15, <1>16, <1>17, <1>18
  DEF Next, ThreadStep, TimerCall, HandlerStep

\* If handlers run one at a time inh_count_ is at most 3, and at most the number of
\* INHs put since its last reset unless the reset overtook an increment
\* (main.cc 36-43).
THEOREM CountInvariant == ASSUME OneHandler PROVE Spec => []CountInv
<1>1. Init => CountInv
  BY SessionAssumption DEF Init, CountInv, Threads, SessionAssumption
<1>2. Typed /\ WellPlaced /\ TimersInv /\ CountInv /\ [Next]_vars => CountInv'
  BY OneHandler, CountStep
<1> QED
  BY <1>1, <1>2, TimersInvariant, PTL DEF Spec

\* Every variable has its type, and with one handler at a time the count stays
\* within 3 (main.cc 36-43).
THEOREM TypeCorrect == Spec => []TypeOK
<1>1. CASE OneHandler
  <2>1. Typed /\ CountInv => TypeOK
    BY DEF Typed, CountInv, TypeOK
  <2> QED
    BY <1>1, <2>1, TimersInvariant, CountInvariant, PTL
<1>2. CASE ~OneHandler
  <2>1. Typed => TypeOK
    BY <1>2 DEF Typed, TypeOK, OneHandler
  <2> QED
    BY <2>1, TimersInvariant, PTL
<1> QED
  BY <1>1, <1>2

\* If handlers run one at a time, the application gives up a connection only after
\* three INHs, unless a reset overtook an increment; and after an answer only
\* between the stop and the reset of on_message, unless calls of one Timer met
\* (main.cc 36-43, 49, 70, 92-93).
THEOREM GiveUpNeedsThree == ASSUME OneHandler PROVE Spec => GiveUpAfterThree
<1> DEFINE Three ==
      \A h \in Handlers : pc[h] = "compare" /\ pc'[h] = "test" =>
          /\ ~carried => sent = 3
          /\ ~raced /\ answered => pc[Receiver] = "zero"
<1>1. Typed /\ WellPlaced /\ CountInv /\ [Next]_vars => [Three]_vars
  <2> SUFFICES ASSUME Typed, WellPlaced, CountInv, [Next]_vars,
                      NEW h \in Handlers, pc[h] = "compare", pc'[h] = "test"
               PROVE  /\ ~carried => sent = 3
                      /\ ~raced /\ answered => pc[Receiver] = "zero"
    OBVIOUS
  <2>1. Compare(h)
    <3> USE SessionAssumption
        DEF SessionAssumption, Typed, Threads, Run, Return, Goto, At, Idle
    <3>1. ASSUME NEW p \in Threads, TimerCall(p) PROVE FALSE
      BY <3>1
      DEF TimerCall, StartCreate, StartArm, StartClear, StopTest, StopFlag,
           StopDelete
    <3>2. ASSUME NEW p \in Threads, Zero(p) PROVE FALSE
      BY <3>2 DEF Zero
    <3>3. ASSUME NEW g \in Handlers, HandlerStep(g) \/ Expire(g) PROVE Compare(h)
      BY <3>3 DEF HandlerStep, Expire, Compare, PutInh, Load, Store
    <3>4. ASSUME Connected \/ Lost \/ OpenChannel \/ CloseChannel \/ Answer \/ UNCHANGED vars
          PROVE  FALSE
      BY <3>4
      DEF Connected, Lost, OpenChannel, CloseChannel, Answer, threadVars, vars
    <3> QED
      BY <3>1, <3>2, <3>3, <3>4 DEF Next, ThreadStep
  <2>2. 3 <= count
    BY <2>1 DEF Compare, Goto, Typed, Threads
  <2> QED
    BY <2>2 DEF CountInv, Typed
<1> QED
  BY <1>1, TimersInvariant, CountInvariant, PTL DEF Spec, GiveUpAfterThree

=============================================================================
