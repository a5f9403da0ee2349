-------------------------------- MODULE Channel --------------------------------
(***************************************************************************)
(* One channel of the Controller (controller.cc) with its socket           *)
(* (socketlib::Client): the threads that start and stop it, the kernel     *)
(* timer whose notifications run Client::listen, the receive thread, the   *)
(* send thread of module SendThread, and the network.                      *)
(*                                                                         *)
(* Four kinds of thread run the code of start() and stop(), at the same    *)
(* time if the timing is unlucky, and nothing but plain fields relates     *)
(* them: the application's thread, the notification threads of the listen  *)
(* timer, whose handler of a lost connection stops the channel, and the    *)
(* detached threads which that handler leaves behind to start it again 5   *)
(* seconds later.  at[a] is the statement that thread a is about to run.   *)
(*                                                                         *)
(* The descriptor is the number of the connection: the numbers the kernel  *)
(* gives out again after a close are not modelled, nor is a failure of     *)
(* socket() itself.                                                        *)
(***************************************************************************)
EXTENDS SendThread

CONSTANTS
    Down,            \* TRUE for the down channel, which has the heartbeat
    User,            \* the application's thread
    Listeners,       \* notification threads that may run at the same time
    Retriers,        \* detached threads that may run at the same time
    UserStops,       \* whether the application ever calls stop()
    DropInStart,     \* whether a connection may be lost before the start()
                     \* that opened it returns
    MaxConn,         \* bound: sockets opened; the last one is never dropped
    MaxQueue         \* bound: length of the send queue

ASSUME ChannelAssumption ==
    /\ Down \in BOOLEAN
    /\ UserStops \in BOOLEAN
    /\ DropInStart \in BOOLEAN
    /\ MaxConn \in Nat \ {0}
    /\ MaxQueue \in Nat \ {0}
    /\ User \notin Listeners \cup Retriers
    /\ Listeners \cap Retriers = {}

VARIABLES
    sock,            \* the state of each socket
    fd,              \* sockfd_: the last socket opened, 0 before the first
    armed,           \* the listen timers that exist, named by their socket
    tmr,             \* timer_: the last timer created
    cstate,          \* state_ of the Client
    rpc,             \* where the receive thread is; "none" when there is none
    rsock,           \* the descriptor its recv was called with
    at,              \* where each agent is
    seen,            \* the state each listener holds in its local variable
    told,            \* the last state the application's callback was given
    beats,           \* the heartbeat timers that expire every 10 s
    bstopped,        \* `stopped' of the heartbeat Timer
    ticks,           \* the state timer of the application expires, every 3 s:
                     \* on the up channel, from a CONNECTED to a LOST
    overlap,         \* history: a stop() began before an earlier start() or
                     \* stop() of the channel was finished
    crashed          \* std::terminate was called

netVars   == <<sock, fd, armed, tmr, cstate>>
recvVars  == <<rpc, rsock>>
sendVars  == <<queue, taker, stopped, spc, item>>
reportVars == <<seen, told>>
beatVars  == <<beats, bstopped, ticks>>
ghostVars == <<overlap, crashed>>
vars == <<netVars, recvVars, sendVars, at, reportVars, beatVars, ghostVars>>

\* The state of the socket that sockfd_ names.
FdState == IF fd = 0 THEN "unused" ELSE sock[fd]

Agents == {User} \cup Listeners \cup Retriers

\* ConnectState of socketlib.h, and "INVALID" for a tcpi_state out of range.
ConnectState == {"CLOSED", "CONNECTED", "LOST"}

\* The message all the producers put: which one it is does not matter here.
Msg == 1

StartPcs == {"socket", "connect", "timer", "clear", "recv", "send"}
StopPcs == {"check", "beat", "flag", "joinr", "notify", "joins", "close",
            "closefd", "reset"}
ListenPcs == {"get", "invalid", "cmp", "set", "call", "start", "spawn", "tell"}

\* Agent a is in start(), asleep before it, or in stop() past its first test.
Busy(a) == at[a] \in StartPcs \cup (StopPcs \ {"check"})

Goto(a, pc) == at' = [at EXCEPT ![a] = pc]

Init ==
    /\ QueueInit
    /\ ThreadInit
    /\ sock = [i \in 1 .. MaxConn |-> "unused"]
    /\ fd = 0
    /\ armed = {}
    /\ tmr = 0
    /\ cstate = "CLOSED"
    /\ rpc = "none"
    /\ rsock = 0
    /\ at = [a \in Agents |-> IF a = User THEN "socket" ELSE "idle"]
    /\ seen = [l \in Listeners |-> "CLOSED"]
    /\ told = "CLOSED"
    /\ beats = 0
    /\ bstopped = TRUE
    /\ ticks = FALSE
    /\ overlap = FALSE
    /\ crashed = FALSE

-----------------------------------------------------------------------------
(* start(), by the application or by a detached thread                     *)

\* Client::open creates a socket over the descriptor it had.
OpenSocket(a) ==
    /\ at[a] = "socket"
    /\ fd < MaxConn
    /\ fd' = fd + 1
    /\ sock' = [sock EXCEPT ![fd + 1] = "fresh"]
    /\ Goto(a, "connect")
    /\ UNCHANGED <<armed, tmr, cstate, recvVars, sendVars, reportVars,
                   beatVars, ghostVars>>

\* connect succeeds, or open returns -1 with the socket still there; start()
\* goes on as if nothing had happened.
OpenConnect(a) ==
    /\ at[a] = "connect"
    /\ \/ /\ sock' = [sock EXCEPT ![fd] = "estab"]
          /\ Goto(a, "timer")
       \/ /\ UNCHANGED sock
          /\ Goto(a, "clear")
    /\ UNCHANGED <<fd, armed, tmr, cstate, recvVars, sendVars, reportVars,
                   beatVars, ghostVars>>

\* The listen timer is created and armed, for 1 ns and then every 5 s; or
\* timer_create fails, or timer_settime does and leaves a timer that never
\* expires.
OpenTimer(a) ==
    /\ at[a] = "timer"
    /\ \/ armed' = armed \cup {fd} /\ tmr' = fd
       \/ tmr' \in {tmr, fd} /\ UNCHANGED armed
    /\ Goto(a, "clear")
    /\ UNCHANGED <<sock, fd, cstate, recvVars, sendVars, reportVars, beatVars,
                   ghostVars>>

\* Mutant of StartClear: the flag of the stopped channel stays set.
StartKeepsFlag(a) ==
    /\ at[a] = "clear"
    /\ Goto(a, "recv")
    /\ UNCHANGED <<netVars, recvVars, sendVars, reportVars, beatVars, ghostVars>>

\* stopped_ = false
StartClear(a) ==
    /\ at[a] = "clear"
    /\ stopped' = FALSE
    /\ Goto(a, "recv")
    /\ UNCHANGED <<netVars, recvVars, queueVars, spc, item, reportVars,
                   beatVars, ghostVars>>

\* A std::thread that is assigned over a joinable one terminates the program.
StartRecv(a) ==
    /\ at[a] = "recv"
    /\ IF rpc = "none" THEN rpc' = "test" /\ UNCHANGED crashed
                       ELSE crashed' = TRUE /\ UNCHANGED rpc
    /\ Goto(a, "send")
    /\ UNCHANGED <<netVars, rsock, sendVars, reportVars, beatVars, overlap>>

StartSend(a) ==
    /\ at[a] = "send"
    /\ IF spc = "none" THEN spc' = "loop" /\ UNCHANGED crashed
                       ELSE crashed' = TRUE /\ UNCHANGED spc
    /\ Goto(a, "idle")
    /\ UNCHANGED <<netVars, recvVars, queueVars, stopped, item, reportVars,
                   beatVars, overlap>>

-----------------------------------------------------------------------------
(* stop(), by the application or by the handler of a lost connection       *)

\* Where the thread goes on after stop() returns.
Return(a) == Goto(a, IF a = User THEN "over" ELSE "spawn")

\* if (stopped_) return; the caller is not told.
StopCheck(a) ==
    /\ at[a] = "check"
    /\ IF stopped THEN Return(a) ELSE Goto(a, IF Down THEN "beat" ELSE "flag")
    /\ overlap' = (overlap \/ \E b \in Agents : Busy(b))
    /\ UNCHANGED <<netVars, recvVars, sendVars, reportVars, beatVars, crashed>>

\* Mutant of StopBeat: the flag of the Timer is not tested.
StopBeatTwice(a) ==
    /\ at[a] = "beat"
    /\ beats' = beats - 1
    /\ bstopped' = TRUE
    /\ Goto(a, "flag")
    /\ UNCHANGED <<netVars, recvVars, sendVars, reportVars, ticks, ghostVars>>

\* Mutant of StopBeat: the kernel timer is not deleted.
StopBeatFlagOnly(a) ==
    /\ at[a] = "beat"
    /\ bstopped' = TRUE
    /\ Goto(a, "flag")
    /\ UNCHANGED <<netVars, recvVars, sendVars, reportVars, beats, ticks,
                   ghostVars>>

\* heartbeat_timer_.stop(), on the down channel
StopBeat(a) ==
    /\ at[a] = "beat"
    /\ beats' = IF bstopped THEN beats ELSE beats - 1
    /\ bstopped' = TRUE
    /\ Goto(a, "flag")
    /\ UNCHANGED <<netVars, recvVars, sendVars, reportVars, ticks, ghostVars>>

\* stopped_ = true, out of any mutex
StopFlag(a) ==
    /\ at[a] = "flag"
    /\ stopped' = TRUE
    /\ Goto(a, "joinr")
    /\ UNCHANGED <<netVars, recvVars, queueVars, spc, item, reportVars,
                   beatVars, ghostVars>>

\* Mutant of StopJoinRecv: nothing is joined.
StopSkipsRecv(a) ==
    /\ at[a] = "joinr"
    /\ Goto(a, "notify")
    /\ UNCHANGED <<netVars, recvVars, sendVars, reportVars, beatVars, ghostVars>>

\* recv_thread_.join(); the join of a thread that is not joinable throws.
StopJoinRecv(a) ==
    /\ at[a] = "joinr"
    /\ \/ /\ rpc = "done"
          /\ rpc' = "none"
          /\ UNCHANGED crashed
       \/ /\ rpc = "none"
          /\ crashed' = TRUE
          /\ UNCHANGED rpc
    /\ Goto(a, "notify")
    /\ UNCHANGED <<netVars, rsock, sendVars, reportVars, beatVars, overlap>>

\* send_queue_.notify()
StopNotify(a) ==
    /\ at[a] = "notify"
    /\ Notify
    /\ Goto(a, "joins")
    /\ UNCHANGED <<netVars, recvVars, threadVars, reportVars, beatVars,
                   ghostVars>>

\* Mutant of StopJoinSend: nothing is joined.
StopSkipsSend(a) ==
    /\ at[a] = "joins"
    /\ Goto(a, "close")
    /\ UNCHANGED <<netVars, recvVars, sendVars, reportVars, beatVars, ghostVars>>

\* send_thread_.join()
StopJoinSend(a) ==
    /\ at[a] = "joins"
    /\ \/ /\ spc = "done"
          /\ spc' = "none"
          /\ UNCHANGED crashed
       \/ /\ spc = "none"
          /\ crashed' = TRUE
          /\ UNCHANGED spc
    /\ Goto(a, "close")
    /\ UNCHANGED <<netVars, recvVars, queueVars, stopped, item, reportVars,
                   beatVars, overlap>>

\* Mutant of StopClose: only a connected client is closed.
StopCloseConnected(a) ==
    /\ at[a] = "close"
    /\ IF cstate # "CONNECTED"
       THEN Return(a) /\ UNCHANGED armed
       ELSE Goto(a, "closefd") /\ armed' = armed \ {tmr}
    /\ UNCHANGED <<sock, fd, tmr, cstate, recvVars, sendVars, reportVars,
                   beatVars, ghostVars>>

\* Client::close does nothing when no listen has reported a state yet;
\* otherwise it deletes the timer ...
StopClose(a) ==
    /\ at[a] = "close"
    /\ IF cstate = "CLOSED"
       THEN Return(a) /\ UNCHANGED armed
       ELSE Goto(a, "closefd") /\ armed' = armed \ {tmr}
    /\ UNCHANGED <<sock, fd, tmr, cstate, recvVars, sendVars, reportVars,
                   beatVars, ghostVars>>

\* ... shuts the socket down and closes it ...
StopCloseFd(a) ==
    /\ at[a] = "closefd"
    /\ sock' = [sock EXCEPT ![fd] = "closed"]
    /\ Goto(a, "reset")
    /\ UNCHANGED <<fd, armed, tmr, cstate, recvVars, sendVars, reportVars,
                   beatVars, ghostVars>>

\* ... and state_ = CLOSED.
StopReset(a) ==
    /\ at[a] = "reset"
    /\ cstate' = "CLOSED"
    /\ Return(a)
    /\ UNCHANGED <<sock, fd, armed, tmr, recvVars, sendVars, reportVars,
                   beatVars, ghostVars>>

\* The application calls stop() once, after its start() has returned.
UserStop ==
    /\ UserStops
    /\ at[User] = "idle"
    /\ Goto(User, "check")
    /\ UNCHANGED <<netVars, recvVars, sendVars, reportVars, beatVars,
                   ghostVars>>

-----------------------------------------------------------------------------
(* Client::listen in a notification thread, and on_..._connect_state       *)

\* An armed timer expires: the kernel starts a thread for the notification.
Fire(l) ==
    /\ at[l] = "idle"
    /\ armed # {}
    /\ Goto(l, "get")
    /\ UNCHANGED <<netVars, recvVars, sendVars, reportVars, beatVars,
                   ghostVars>>

\* What getsockopt(TCP_INFO) leaves in the local variable `info'.  On a closed
\* descriptor it fails and `info' keeps the bytes that were on the stack.
TcpInfo ==
    CASE FdState = "estab"  -> {"CONNECTED"}
      [] FdState = "closed" -> {"CONNECTED", "LOST", "INVALID"}
      [] OTHER              -> {"LOST"}

ListenGet(l) ==
    /\ at[l] = "get"
    /\ \E s \in TcpInfo :
          /\ seen' = [seen EXCEPT ![l] = s]
          /\ Goto(l, IF s = "INVALID" THEN "invalid" ELSE "cmp")
    /\ UNCHANGED <<netVars, recvVars, sendVars, told, beatVars, ghostVars>>

\* An invalid state counts as connected if state_ is CLOSED, "first time after
\* open", and is ignored otherwise.
ListenInvalid(l) ==
    /\ at[l] = "invalid"
    /\ IF cstate = "CLOSED"
       THEN seen' = [seen EXCEPT ![l] = "CONNECTED"] /\ Goto(l, "cmp")
       ELSE Goto(l, "idle") /\ UNCHANGED seen
    /\ UNCHANGED <<netVars, recvVars, sendVars, told, beatVars, ghostVars>>

\* Mutant of ListenCompare: every state is reported, changed or not.
ListenAlways(l) ==
    /\ at[l] = "cmp"
    /\ Goto(l, "set")
    /\ UNCHANGED <<netVars, recvVars, sendVars, reportVars, beatVars,
                   ghostVars>>

\* if (state != state_)
ListenCompare(l) ==
    /\ at[l] = "cmp"
    /\ Goto(l, IF seen[l] = cstate THEN "idle" ELSE "set")
    /\ UNCHANGED <<netVars, recvVars, sendVars, reportVars, beatVars,
                   ghostVars>>

\* state_ = state
ListenSet(l) ==
    /\ at[l] = "set"
    /\ cstate' = seen[l]
    /\ Goto(l, "call")
    /\ UNCHANGED <<sock, fd, armed, tmr, recvVars, sendVars, reportVars,
                   beatVars, ghostVars>>

\* callback_(state_, param_) reads state_ again; what is not CONNECTED is a
\* lost connection.
ListenCall(l) ==
    /\ at[l] = "call"
    /\ seen' = [seen EXCEPT ![l] = cstate]
    /\ Goto(l, IF cstate # "CONNECTED" THEN "check"
               ELSE IF Down THEN "start" ELSE "tell")
    /\ UNCHANGED <<netVars, recvVars, sendVars, told, beatVars, ghostVars>>

\* heartbeat_timer_.start(), on the down channel: a new kernel timer; or
\* timer_create or timer_settime fails, which nobody looks at.
BeatStart(l) ==
    /\ at[l] = "start"
    /\ \/ beats' = beats + 1 /\ bstopped' = FALSE
       \/ UNCHANGED <<beats, bstopped>>
    /\ Goto(l, "tell")
    /\ UNCHANGED <<netVars, recvVars, sendVars, reportVars, ticks, ghostVars>>

\* Mutant of Spawn: no thread is left behind.
SpawnNothing(l) ==
    /\ at[l] = "spawn"
    /\ Goto(l, "tell")
    /\ UNCHANGED <<netVars, recvVars, sendVars, reportVars, beatVars,
                   ghostVars>>

\* After stop(): the detached thread that sleeps and starts the channel.
Spawn(l) ==
    /\ at[l] = "spawn"
    /\ \E r \in Retriers :
          /\ at[r] = "idle"
          /\ at' = [at EXCEPT ![l] = "tell", ![r] = "socket"]
    /\ UNCHANGED <<netVars, recvVars, sendVars, reportVars, beatVars,
                   ghostVars>>

\* The application's callback; the notification thread ends.  That of the up
\* channel starts the state timer, which may fail, or stops it.
Tell(l) ==
    /\ at[l] = "tell"
    /\ told' = seen[l]
    /\ ticks' \in IF seen[l] = "CONNECTED" /\ ~Down THEN BOOLEAN ELSE {FALSE}
    /\ Goto(l, "idle")
    /\ UNCHANGED <<netVars, recvVars, sendVars, seen, beats, bstopped, ghostVars>>

\* The fourth VEH2CLOUD_INH in a row without an answer: the application stops
\* the state timer, of a connection that nobody has told it is lost.
GiveUp ==
    /\ ticks
    /\ ticks' = FALSE
    /\ UNCHANGED <<netVars, recvVars, sendVars, at, reportVars, beats, bstopped,
                   ghostVars>>

-----------------------------------------------------------------------------
(* The receive thread, the producers and the network                       *)

\* while (!stopped_) size = socket.recv(...)
RecvTest ==
    /\ rpc = "test"
    /\ IF stopped
       THEN rpc' = "done" /\ UNCHANGED rsock
       ELSE rpc' = "recv" /\ rsock' = fd
    /\ UNCHANGED <<netVars, sendVars, at, reportVars, beatVars, ghostVars>>

\* Data, or an interrupted call: the loop goes on.
RecvData ==
    /\ rpc = "recv"
    /\ sock[rsock] = "estab"
    /\ rpc' = "test"
    /\ UNCHANGED <<netVars, rsock, sendVars, at, reportVars, beatVars,
                   ghostVars>>

\* The end of the stream, or an error: the thread returns.
RecvEnd ==
    /\ rpc = "recv"
    /\ sock[rsock] # "estab"
    /\ rpc' = "done"
    /\ UNCHANGED <<netVars, rsock, sendVars, at, reportVars, beatVars,
                   ghostVars>>

SendThreadStep ==
    /\ \/ LoopTest \/ TakeReady \/ TakeBlocks \/ TakeReturns
       \/ CopySlot \/ SendItem \/ PullItem
    /\ UNCHANGED <<netVars, recvVars, at, reportVars, beatVars, ghostVars>>

\* Controller::send, which any thread may call whatever the channel does.
Produce ==
    /\ Len(queue) < MaxQueue
    /\ Put(Msg)
    /\ UNCHANGED <<netVars, recvVars, threadVars, at, reportVars, beatVars,
                   ghostVars>>

\* The peer or the network ends a connection, at any time or, without
\* DropInStart, once no thread is in start().
Drop ==
    /\ DropInStart \/ \A a \in Agents : at[a] \notin StartPcs
    /\ \E i \in 1 .. MaxConn - 1 :
          /\ sock[i] = "estab"
          /\ sock' = [sock EXCEPT ![i] = "lost"]
    /\ UNCHANGED <<fd, armed, tmr, cstate, recvVars, sendVars, at, reportVars,
                   beatVars, ghostVars>>

-----------------------------------------------------------------------------

Start(a) ==
    \/ OpenSocket(a) \/ OpenConnect(a) \/ OpenTimer(a)
    \/ StartClear(a) \/ StartRecv(a) \/ StartSend(a)

Stop(a) ==
    \/ StopCheck(a) \/ StopBeat(a) \/ StopFlag(a) \/ StopJoinRecv(a)
    \/ StopNotify(a) \/ StopJoinSend(a)
    \/ StopClose(a) \/ StopCloseFd(a) \/ StopReset(a)

Listen(l) ==
    \/ Fire(l) \/ ListenGet(l) \/ ListenInvalid(l) \/ ListenCompare(l)
    \/ ListenSet(l) \/ ListenCall(l) \/ BeatStart(l) \/ Spawn(l) \/ Tell(l)

\* The statements that agent a may run.
AgentStep(a) ==
    \/ Start(a)
    \/ Stop(a)
    \/ a \in Listeners /\ Listen(a)

Running == ~crashed

Next ==
    /\ Running
    /\ \/ \E a \in Agents : AgentStep(a)
       \/ UserStop
       \/ RecvTest \/ RecvData \/ RecvEnd
       \/ SendThreadStep
       \/ Produce
       \/ GiveUp
       \/ Drop

Spec == Init /\ [][Next]_vars

\* Somebody goes on sending: the heartbeat timer, or on the up channel the state
\* timer of the application, as long as it expires.
Producing == IF Down THEN beats > 0 ELSE ticks

\* The operating system runs every thread that is not blocked and delivers
\* every timer; a recv on an established connection may block for ever, and
\* nothing makes the network drop a connection, the application stop, or its
\* state timer go on.
Fairness ==
    /\ \A a \in Agents : WF_vars(Running /\ AgentStep(a))
    /\ WF_vars(Running /\ (RecvTest \/ RecvEnd))
    /\ WF_vars(Running /\ SendThreadStep)
    /\ WF_vars(Running /\ Producing /\ Produce)

FairSpec == Spec /\ Fairness

-----------------------------------------------------------------------------

\* The types of the variables.
TypeOK ==
    /\ sock \in [1 .. MaxConn -> {"unused", "fresh", "estab", "lost", "closed"}]
    /\ fd \in 0 .. MaxConn
    /\ armed \subseteq 1 .. MaxConn
    /\ tmr \in 0 .. MaxConn
    /\ cstate \in ConnectState
    /\ rpc \in {"none", "test", "recv", "done"}
    /\ rsock \in 0 .. MaxConn
    /\ at \in [Agents -> {"idle", "over"} \cup StartPcs \cup StopPcs \cup ListenPcs]
    /\ seen \in [Listeners -> ConnectState \cup {"INVALID"}]
    /\ told \in ConnectState
    /\ beats \in Nat
    /\ bstopped \in BOOLEAN
    /\ ticks \in BOOLEAN
    /\ overlap \in BOOLEAN
    /\ crashed \in BOOLEAN
    /\ queue \in Seq({Msg}) /\ Len(queue) <= MaxQueue
    /\ taker \in {"out", "waiting", "woken"}
    /\ stopped \in BOOLEAN
    /\ spc \in SendPcs
    /\ item \in {Null, Junk, Msg}

\* std::terminate needs a stop() that overlaps a start() or another stop():
\* while each loss is noticed after the start() that opened the connection has
\* returned, and the application stops a channel that nobody else is stopping,
\* no thread is assigned over a joinable one and none is joined twice, over any
\* number of reconnections (controller.cc 44-57, 108-110, 270-278).
CrashOnlyIfOverlap == crashed => overlap

\* A stop() of the application that overlaps no other leaves no thread of the
\* channel behind, and nobody inside take() (controller.cc 100-112).
StopLeavesNoThread ==
    [][at[User] \in StopPcs /\ at'[User] = "over" /\ ~overlap'
         => rpc' = "none" /\ spc' = "none" /\ taker' = "out"]_vars

\* When a socket is opened every earlier one is closed and its timer deleted,
\* so a channel that reconnects for ever leaks neither: close() always follows
\* the first report (socketlib.cc 159-191).
OneLiveSocket ==
    ~overlap =>
        /\ \A i \in 1 .. fd - 1 : sock[i] = "closed"
        /\ armed \subseteq {fd}
        /\ FdState = "closed" => armed = {}

\* No thread uses a descriptor after close(): the receive and send threads that
\* exist work on the socket that is open, and the listen of a channel that only
\* its own handler stops never probes a closed one (controller.cc 107-111).
NoUseAfterClose ==
    ~overlap =>
        /\ rpc = "recv" => rsock = fd /\ FdState # "closed"
        /\ spc = "send" => FdState # "closed"
        /\ \A l \in Listeners : at[l] = "get" => FdState # "closed"

\* The application is told CONNECTED at most once per connection, never CLOSED,
\* and never CONNECTED twice in a row: its callback starts timers that only a
\* LOST stops (socketlib.cc 232-235, examples/main.cc 26-71).
ReportsAlternate ==
    ~overlap =>
        \A l \in Listeners : at[l] = "tell" =>
            /\ seen[l] # "CLOSED"
            /\ seen[l] = "CONNECTED" => told # "CONNECTED"

\* There is at most one heartbeat timer, and `stopped' says whether there is
\* one: between notifications it expires only while the application was told
\* that the channel is connected, and no connection that was lost leaves one
\* behind (controller.cc 120, 349-355).
OneHeartbeat ==
    ~overlap =>
        /\ beats = IF bstopped THEN 0 ELSE 1
        /\ (\A l \in Listeners : at[l] = "idle") =>
              (beats = 1 => Down /\ told = "CONNECTED")

\* What the application is told follows ConnReport until a stop() overlaps
\* another call: CONNECTED only of a socket that is open and once per socket,
\* LOST exactly once for each socket closed, before anything is told of the next
\* one, although the retry thread may have opened it (controller.cc 259-279,
\* 341-375, socketlib.cc 198-238).
Report == INSTANCE ConnReport WITH
    live <- FdState \in {"fresh", "estab", "lost"},
    owed <- \E l \in Listeners :
               \/ at[l] = "reset"
               \/ at[l] \in {"spawn", "tell"} /\ seen[l] # "CONNECTED"

ImplementsReport ==
    Report!ReportInit /\ [][Report!ReportNext \/ overlap']_(Report!reportVars)

\* "The connection is lost, and retry in 5 seconds!" (controller.cc 269, 359):
\* once the handler says so of a connection the application was told of, a
\* thread opens a socket again.
RetryFollowsLoss ==
    \A l \in Listeners :
        at[l] = "check" /\ told = "CONNECTED"
            ~> crashed \/ \E r \in Retriers : at[r] = "connect"

\* stop() joins a send thread that missed the notification and waits for an
\* element, and there is no timer left to put one.
Stuck ==
    /\ \E a \in Agents : at[a] = "joins"
    /\ taker = "waiting"
    /\ ~Producing

\* The same where it can hold: what the handler does for a lost connection ends
\* in a new socket, whatever the threads it joins are doing, or stays for ever in
\* the one join that can block, and there only if the timer that sends on the
\* channel has stopped or never started (controller.cc 103-112, 269-279, 359-369).
RetryUnlessSilent ==
    \A l \in Listeners :
        at[l] = "check" /\ told = "CONNECTED"
            ~> []Stuck \/ \E r \in Retriers : at[r] = "connect"

\* The channel no longer has a listen timer and nobody is about to open: what
\* is left by an open() whose failure start() ignored.
Abandoned == armed = {} /\ \A a \in Agents : at[a] \notin StartPcs \cup StopPcs \cup {"spawn"}

\* A connection that was reported and is lost is reported as lost, and then
\* another one as connected, also if it is lost before it is reported: the
\* channel comes back from any number of losses unless an open() fails, which
\* start() ignores, or a stop() waits for a message that nobody sends
\* (controller.cc 40, 259-279, 341-375).
ReconnectedUnlessOpenFails ==
    /\ FdState = "lost" /\ fd \in armed /\ told = "CONNECTED"
          ~> []Stuck \/ told = "LOST"
    /\ told = "LOST"
          ~> []Stuck \/ []Abandoned \/ told = "CONNECTED"

\* "first time after open" (socketlib.cc 221): the invalid state that listen()
\* takes for a connection comes from a socket that is open.
InvalidOnlyAfterOpen ==
    \A l \in Listeners :
        at[l] = "invalid" /\ cstate = "CLOSED" => FdState # "closed"

-----------------------------------------------------------------------------
(* Why these hold: the inductive invariant of a channel                    *)

SomeAt(pcs) == \E a \in Agents : at[a] \in pcs

\* The statements of start() and stop() at which the flag is set.
Halted == {"socket", "connect", "timer", "clear",
           "joinr", "notify", "joins", "close", "closefd", "reset"}

\* The statements at which a notification thread relies on the listen timer that
\* started it, and those at which there is no such timer.
Watching == {"get", "cmp", "set", "call", "start", "check", "beat", "flag",
             "joinr", "notify", "joins", "close"}
Unwatched == {"socket", "connect", "timer", "closefd", "reset", "spawn"}

Connected == FdState \in {"estab", "lost"}

\* One agent at a time is in start() or stop(); the flag tells how far it is; and
\* the receive and the send thread exist exactly between their creation and their
\* join.  A handler that has stopped the channel spawns the next start() while
\* nobody else is at it (controller.cc 40-57, 98-127).
ThreadsOwned ==
    ~overlap =>
        /\ ~crashed
        /\ \A a, b \in Agents : Busy(a) /\ Busy(b) => a = b
        /\ \A l \in Listeners : at[l] = "spawn" => stopped /\ \A a \in Agents : ~Busy(a)
        /\ SomeAt(Halted) => stopped
        /\ SomeAt({"recv", "send", "beat", "flag"}) => ~stopped
        /\ rpc # "none" <=> \/ ~stopped /\ ~SomeAt({"recv"})
                            \/ SomeAt({"joinr"})
        /\ spc # "none" <=> \/ ~stopped /\ ~SomeAt({"recv", "send"})
                            \/ SomeAt({"joinr", "notify", "joins"})

\* The socket and its listen timer follow the one agent that opens or closes them:
\* the last socket is open while there is a timer, and closed only until the next
\* start() opens another (socketlib.cc 30-122, 159-191).
SocketOwned ==
    ~overlap =>
        /\ \A i \in 1 .. fd - 1 : sock[i] = "closed"
        /\ armed # {} => armed = {fd} /\ tmr = fd /\ Connected
        /\ FdState = "closed" => SomeAt({"reset", "spawn", "socket"})
        /\ SomeAt({"socket"}) => fd = 0 \/ FdState = "closed"
        /\ SomeAt({"connect"}) => FdState = "fresh"
        /\ SomeAt({"timer", "closefd"}) => Connected
        /\ SomeAt({"reset", "spawn"}) => FdState = "closed"
        /\ SomeAt(Unwatched) => armed = {}
        /\ SomeAt(Watching) => armed # {}
        /\ stopped => SomeAt(Halted \cup {"spawn"})
        /\ rpc = "recv" => rsock = fd

\* state_, the local variables of a notification thread and what the application
\* was told agree, each change of state_ being on its way to the application in
\* one thread (socketlib.cc 193-238, controller.cc 259-285).
StateReported ==
    ~overlap => \A l \in Listeners :
        /\ at[l] # "invalid"
        /\ at[l] \in {"idle", "get", "cmp", "set"} =>
              /\ cstate # "LOST"
              /\ cstate = "CONNECTED" <=> told = "CONNECTED"
        /\ at[l] \in {"cmp", "set", "call", "tell"} => seen[l] \in {"CONNECTED", "LOST"}
        /\ at[l] = "set" => seen[l] # cstate
        /\ at[l] = "call" => seen[l] = cstate
        /\ at[l] = "start" => seen[l] = "CONNECTED"
        /\ at[l] \in {"call", "start", "tell"} /\ seen[l] = "CONNECTED" =>
              cstate = "CONNECTED" /\ told # "CONNECTED"
        /\ at[l] \in StopPcs => seen[l] = "LOST" /\ cstate = "LOST"
        /\ at[l] = "spawn" \/ (at[l] = "tell" /\ seen[l] = "LOST") =>
              seen[l] = "LOST" /\ cstate = "CLOSED"
        /\ cstate = "CONNECTED" => armed # {}

\* The heartbeat is there from the report of a connection to the stop() that its
\* loss leads to (controller.cc 120, 349).
BeatFollowsState ==
    ~overlap =>
        /\ beats = IF bstopped THEN 0 ELSE 1
        /\ beats = 1 => Down /\ Listeners # {}
        /\ \A l \in Listeners : at[l] = "start" => Down
        /\ \A l \in Listeners : beats = 1 =>
              \/ at[l] \in {"idle", "get", "cmp", "set"} /\ cstate = "CONNECTED"
              \/ at[l] \in {"call", "check", "beat"} /\ seen[l] = "LOST"
              \/ at[l] = "tell" /\ seen[l] = "CONNECTED"

\* With one notification at a time each thread of the channel has one owner, and,
\* if the application does not call stop(), so has the socket, state_ and the
\* heartbeat (controller.cc 24-127, 259-285, 341-375).
ChannelInv ==
    /\ ThreadsOwned
    /\ ~UserStops => SocketOwned /\ StateReported /\ BeatFollowsState

=============================================================================
