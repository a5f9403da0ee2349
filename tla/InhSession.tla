------------------------------- MODULE InhSession -------------------------------
(***************************************************************************)
(* The session of the example application (examples/main.cc) over the up   *)
(* channel: when it is told CONNECTED it starts a timer that sends a       *)
(* VEH2CLOUD_INH every second, until the cloud answers or three of them    *)
(* were sent, and a timer that sends the state of the vehicle.             *)
(*                                                                         *)
(* Three kinds of thread call the two Timer objects and write inh_count_,  *)
(* without a lock: the channel's notification thread, which runs           *)
(* on_up_connect_state; the threads that the kernel starts for the INH     *)
(* timer; and the channel's receive thread, which runs on_message.  The    *)
(* handler of the state timer only puts a message and is left out.  The    *)
(* channel is the one that ConnReport describes; the cloud answers an INH  *)
(* on the channel that brought it.                                         *)
(*                                                                         *)
(* A thread is a list of calls still to be made and the statement of the   *)
(* first one that it is about to run.                                      *)
(***************************************************************************)
EXTENDS Timer, ConnReport, Sequences

CONSTANTS
    Reporter,        \* the notification thread of the up channel
    Receiver,        \* its receive thread
    Handlers         \* handlers of the INH timer that may run at a time

ASSUME SessionAssumption ==
    /\ Timers = {"inh", "state"}
    /\ Reporter # Receiver
    /\ {Reporter, Receiver} \cap Handlers = {}

VARIABLES
    count,           \* inh_count_
    todo,            \* the calls that each thread has still to make
    pc,              \* the statement that it is about to run
    reg,             \* what the increment of a handler has loaded
    asked,           \* an INH was put, which the cloud may answer
    \* History, read by the properties only:
    sent,            \* the INHs put since inh_count_ was last set to 0, up to 3
    old,             \* the handlers that were under way when it was
    carried,         \* one of these has then stored its increment
    answered,        \* on_message has stopped the INH timer since it was started
    raced            \* two threads were in calls of the same Timer

sessionVars == <<count, reg, asked>>
threadVars == <<todo, pc>>
historyVars == <<sent, old, carried, answered, raced>>
vars == <<timerVars, reportVars, sessionVars, threadVars, historyVars>>

Threads == {Reporter, Receiver} \cup Handlers

\* The calls, and the statement that each begins with.
StartOf(t) == [op |-> "start", of |-> t]
StopOf(t)  == [op |-> "stop", of |-> t]
ResetCount == [op |-> "reset", of |-> "inh"]
CountAndSend == [op |-> "count", of |-> "inh"]

Entry == [start |-> "create", stop |-> "test", reset |-> "zero", count |-> "compare"]

OnConnected == <<StartOf("inh"), StartOf("state")>>
OnLost      == <<StopOf("state"), StopOf("inh"), ResetCount>>
OnMessage   == <<StopOf("inh"), ResetCount>>
GiveUp      == <<StopOf("inh"), ResetCount, StopOf("state")>>

\* Thread p is to make the calls of the list.
Run(p, calls) ==
    /\ todo' = [todo EXCEPT ![p] = calls]
    /\ pc' = [pc EXCEPT ![p] = IF calls = <<>> THEN "idle" ELSE Entry[Head(calls).op]]

Return(p) == Run(p, Tail(todo[p]))

Goto(p, label) == pc' = [pc EXCEPT ![p] = label] /\ UNCHANGED todo

Idle(p) == pc[p] = "idle"

\* Thread p is at statement `label', in a call of Timer t.
At(p, label, t) == pc[p] = label /\ Head(todo[p]).of = t

\* It has begun a call of Timer t and not finished it.
Inside(p, t) == \E label \in {"arm", "clear", "flag", "delete"} : At(p, label, t)

\* What a thread that begins a call of Timer t does to `raced'.
Meets(p, t) == raced' = (raced \/ \E q \in Threads \ {p} : Inside(q, t))

Init ==
    /\ TimerInit
    /\ ReportInit
    /\ count = 0
    /\ todo = [p \in Threads |-> <<>>]
    /\ pc = [p \in Threads |-> "idle"]
    /\ reg = [h \in Handlers |-> 0]
    /\ asked = FALSE
    /\ sent = 0
    /\ old = {}
    /\ carried = FALSE
    /\ answered = FALSE
    /\ raced = FALSE

-----------------------------------------------------------------------------
(* Timer::start and Timer::stop                                            *)

\* timer_create; or it fails, and start returns.
StartCreate(p, t) ==
    /\ At(p, "create", t)
    /\ \/ Create(t) /\ Goto(p, "arm")
       \/ Return(p) /\ UNCHANGED timerVars
    /\ Meets(p, t)
    /\ answered' = (answered /\ t # "inh")
    /\ UNCHANGED <<reportVars, sessionVars, sent, old, carried>>

\* timer_settime; or it fails, and start returns.
StartArm(p, t) ==
    /\ At(p, "arm", t)
    /\ \/ Arm(t) /\ Goto(p, "clear")
       \/ Return(p) /\ UNCHANGED timerVars
    /\ UNCHANGED <<reportVars, sessionVars, historyVars>>

\* stopped = false
StartClear(p, t) ==
    /\ At(p, "clear", t)
    /\ SetStopped(t, FALSE)
    /\ Return(p)
    /\ UNCHANGED <<reportVars, sessionVars, historyVars>>

\* Mutant of StopTest: the flag is not tested.
StopAlways(p, t) ==
    /\ At(p, "test", t)
    /\ Goto(p, "flag")
    /\ Meets(p, t)
    /\ UNCHANGED <<timerVars, reportVars, sessionVars, sent, old, carried, answered>>

\* if (stopped) return
StopTest(p, t) ==
    /\ At(p, "test", t)
    /\ IF stopped[t] THEN Return(p) ELSE Goto(p, "flag")
    /\ Meets(p, t)
    /\ answered' = (answered \/ (p = Receiver /\ stopped[t]))
    /\ UNCHANGED <<timerVars, reportVars, sessionVars, sent, old, carried>>

\* stopped = true
StopFlag(p, t) ==
    /\ At(p, "flag", t)
    /\ SetStopped(t, TRUE)
    /\ Goto(p, "delete")
    /\ UNCHANGED <<reportVars, sessionVars, historyVars>>

\* Mutant of StopDelete: the flag is all that changes.
StopKeepsTimer(p, t) ==
    /\ At(p, "delete", t)
    /\ Return(p)
    /\ answered' = (answered \/ p = Receiver)
    /\ UNCHANGED <<timerVars, reportVars, sessionVars, sent, old, carried, raced>>

\* timer_delete
StopDelete(p, t) ==
    /\ At(p, "delete", t)
    /\ Delete(t)
    /\ Return(p)
    /\ answered' = (answered \/ p = Receiver)
    /\ UNCHANGED <<reportVars, sessionVars, sent, old, carried, raced>>

TimerCall(p) ==
    \E t \in Timers :
        \/ StartCreate(p, t) \/ StartArm(p, t) \/ StartClear(p, t)
        \/ StopTest(p, t) \/ StopFlag(p, t) \/ StopDelete(p, t)

\* inh_count_ = 0
Zero(p) ==
    /\ pc[p] = "zero"
    /\ count' = 0
    /\ Return(p)
    /\ sent' = 0
    /\ old' = {h \in Handlers \ {p} : ~Idle(h)}
    /\ carried' = FALSE
    /\ UNCHANGED <<timerVars, reportVars, reg, asked, answered, raced>>

-----------------------------------------------------------------------------
(* The handler of the INH timer                                            *)

\* The kernel starts a thread for an expiry of the INH timer.
Expire(h) ==
    /\ Idle(h)
    /\ Armed("inh") # {}
    /\ Run(h, <<CountAndSend>>)
    /\ old' = old \ {h}
    /\ UNCHANGED <<timerVars, reportVars, sessionVars, sent, carried, answered, raced>>

\* Mutant of Compare: one INH too few.
CompareTwo(h) ==
    /\ pc[h] = "compare"
    /\ IF 2 <= count THEN Run(h, GiveUp) ELSE Goto(h, "put")
    /\ UNCHANGED <<timerVars, reportVars, sessionVars, historyVars>>

\* Mutant of Compare: one INH too many.
CompareFour(h) ==
    /\ pc[h] = "compare"
    /\ IF 4 <= count THEN Run(h, GiveUp) ELSE Goto(h, "put")
    /\ UNCHANGED <<timerVars, reportVars, sessionVars, historyVars>>

\* if (3 <= inh_count_), and what to do then
Compare(h) ==
    /\ pc[h] = "compare"
    /\ IF 3 <= count THEN Run(h, GiveUp) ELSE Goto(h, "put")
    /\ UNCHANGED <<timerVars, reportVars, sessionVars, historyVars>>

\* controller_.send(msg, UP_CHANNEL)
PutInh(h) ==
    /\ pc[h] = "put"
    /\ asked' = TRUE
    /\ sent' = IF sent < 3 THEN sent + 1 ELSE sent
    /\ Goto(h, "load")
    /\ UNCHANGED <<timerVars, reportVars, count, reg, old, carried, answered, raced>>

\* inh_count_++ is a load ...
Load(h) ==
    /\ pc[h] = "load"
    /\ reg' = [reg EXCEPT ![h] = count]
    /\ Goto(h, "store")
    /\ UNCHANGED <<timerVars, reportVars, count, asked, historyVars>>

\* Mutant of Store: no INH is ever counted.
StoreNothing(h) ==
    /\ pc[h] = "store"
    /\ reg' = [reg EXCEPT ![h] = 0]
    /\ Return(h)
    /\ carried' = (carried \/ h \in old)
    /\ UNCHANGED <<timerVars, reportVars, count, asked, sent, old, answered, raced>>

\* ... and a store.
Store(h) ==
    /\ pc[h] = "store"
    /\ count' = reg[h] + 1
    /\ reg' = [reg EXCEPT ![h] = 0]
    /\ Return(h)
    /\ carried' = (carried \/ h \in old)
    /\ UNCHANGED <<timerVars, reportVars, asked, sent, old, answered, raced>>

-----------------------------------------------------------------------------
(* The channel                                                             *)

\* on_up_connect_state(CONNECTED).  The retry thread sleeps 5 s before it opens
\* the socket: handlers that were under way when the channel closed the last one
\* have ended.
Connected ==
    /\ Idle(Reporter)
    /\ \A h \in Handlers : Idle(h)
    /\ \A t \in Timers : timer[t] < MaxStarts
    /\ TellConnected
    /\ Run(Reporter, OnConnected)
    /\ UNCHANGED <<timerVars, sessionVars, historyVars>>

\* Mutant of Lost: the INH timer is left to its own handler.
LostStopsState ==
    /\ Idle(Reporter)
    /\ TellLost
    /\ Run(Reporter, <<StopOf("state"), ResetCount>>)
    /\ UNCHANGED <<timerVars, sessionVars, historyVars>>

\* on_up_connect_state(LOST)
Lost ==
    /\ Idle(Reporter)
    /\ TellLost
    /\ Run(Reporter, OnLost)
    /\ UNCHANGED <<timerVars, sessionVars, historyVars>>

\* start(), in the retry thread
OpenChannel ==
    /\ Open
    /\ UNCHANGED <<timerVars, sessionVars, threadVars, historyVars>>

\* stop(), in the notification thread, joins the receive thread first.
CloseChannel ==
    /\ Idle(Reporter)
    /\ Idle(Receiver)
    /\ Close
    /\ UNCHANGED <<timerVars, sessionVars, threadVars, historyVars>>

\* The receive thread unpacks an answer, to an INH of this connection or one
\* that waited in the send queue since the last; the cloud may answer each one.
Answer ==
    /\ live
    /\ asked
    /\ Idle(Receiver)
    /\ Run(Receiver, OnMessage)
    /\ UNCHANGED <<timerVars, reportVars, sessionVars, historyVars>>

-----------------------------------------------------------------------------

HandlerStep(h) == Compare(h) \/ PutInh(h) \/ Load(h) \/ Store(h)

ThreadStep(p) ==
    \/ TimerCall(p)
    \/ Zero(p)
    \/ p \in Handlers /\ HandlerStep(p)

Defined == ~fault

Next ==
    /\ Defined
    /\ \/ \E p \in Threads : ThreadStep(p)
       \/ \E h \in Handlers : Expire(h)
       \/ Connected \/ Lost \/ OpenChannel \/ CloseChannel \/ Answer

Spec == Init /\ [][Next]_vars

\* Threads that can run do, and an armed timer expires; nothing makes the cloud
\* answer or the channel lose its connection.
Fairness ==
    /\ \A p \in Threads : WF_vars(Defined /\ ThreadStep(p))
    /\ WF_vars(Defined /\ \E h \in Handlers : Expire(h))

FairSpec == Spec /\ Fairness

-----------------------------------------------------------------------------

Labels == {"idle", "create", "arm", "clear", "test", "flag", "delete", "zero",
           "compare", "put", "load", "store"}

Calls == {StartOf(t) : t \in Timers} \cup {StopOf(t) : t \in Timers}
            \cup {ResetCount, CountAndSend}

\* The types of the variables, and that the count stays within 3 if the handlers
\* run one at a time.
TypeOK ==
    /\ TimerTypeOK
    /\ live \in BOOLEAN /\ owed \in BOOLEAN
    /\ told \in {"CLOSED", "CONNECTED", "LOST"}
    /\ count \in Nat /\ ((\A g, h \in Handlers : g = h) => count <= 3)
    /\ todo \in [Threads -> Seq(Calls)]
    /\ pc \in [Threads -> Labels]
    /\ reg \in [Handlers -> Nat]
    /\ asked \in BOOLEAN
    /\ sent \in 0 .. 3
    /\ old \subseteq Handlers
    /\ carried \in BOOLEAN /\ answered \in BOOLEAN /\ raced \in BOOLEAN

\* The application gives a connection up only after three INHs that nobody
\* answered.  Only the increment of a handler that was under way when the count
\* was set to 0 can make it fewer; and without calls that met in a timer it gives
\* up after an answer only if it compares the count in the moment between the
\* stop and the reset of on_message (main.cc 36-43, 49, 70, 92-93).
GiveUpAfterThree ==
    [][\A h \in Handlers : pc[h] = "compare" /\ pc'[h] = "test" =>
          /\ ~carried => sent = 3
          /\ ~raced /\ answered => pc[Receiver] = "zero"]_vars

\* Once on_message has stopped it, no INH timer expires until the next CONNECTED,
\* unless calls met in a timer (main.cc 89-94, timer.cc 59, 66).
AnswerEndsRetries == ~raced /\ answered => Armed("inh") = {}

\* While no two threads met in the calls of a timer: no start() leaves an older
\* kernel timer behind, however starts fail; between calls `stopped' says whether
\* there is one that expires; and between reports it expires only while the
\* application is connected (main.cc 29-72, timer.cc 20-80).
TimersMatchReports ==
    ~raced =>
        /\ \A t \in Timers : Armed(t) \subseteq {timer[t]}
        /\ \A t \in Timers : (\A p \in Threads : ~Inside(p, t)) =>
              (stopped[t] <=> Armed(t) = {})
        /\ Idle(Reporter) => \A t \in Timers : Armed(t) # {} => told = "CONNECTED"

\* A kernel timer is armed or deleted after its deletion only if two threads met
\* in the calls of its Timer: nothing else makes stop() delete it twice, whoever
\* of the three kinds of thread calls it, in any order (timer.cc 66-73).
DeleteTwiceNeedsRace == fault => raced

\* The INHs of a connection end: they are answered, given up, or the connection is
\* lost, whatever increments a reset overtakes, unless calls met in a timer
\* (main.cc 30-50).
RetriesEnd ==
    told = "CONNECTED" ~> raced \/ told = "LOST" \/ (Idle(Reporter) /\ Armed("inh") = {})

=============================================================================
