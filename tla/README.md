# TLA+ models of CSAE295

This directory holds a model of the vehicle-to-cloud client in this repository
(CSAE 295, protocol between a vehicle and a cloud): TLA+ modules, TLC
configurations that check them on small instances, and proofs that TLAPS checks
for every instance. Source paths are relative to the root of the repository.

## The system

A `Controller` owns two independent *channels*, up and down. Each channel is a
TCP client with a receive thread, a send thread and a queue of packed messages
between the callers of `send` and the send thread. A kernel timer watches the
connection and reports its loss; the channel then stops itself and a detached
thread starts it again five seconds later.

| part | source | state | operations |
|---|---|---|---|
| send queue | `include/util/block_queue.h` | the elements, one mutex, one condition variable | `put`, `take`, `pull`, `notify` |
| send and receive threads | `src/controller.cc` 207-257, 289-339 | the element being sent; the descriptor in `recv` | the two loops |
| channel | `src/controller.cc` 24-127, 259-285, 341-375 | `stopped_`, two `std::thread`s, the address | `start`, `stop`, `send`, `batch`, `on_*_connect_state` |
| socket client | `src/util/socketlib.cc` | `sockfd_`, `state_`, `timer_` | `open`, `close`, `recv`, `send`, `listen` |
| timer | `src/util/timer.cc` | `stopped`, `timer_`, the handler | `start`, `stop` |
| messages | `include/protocol/message/*.h` | their fields | constructors, `length`, `to_bytes`, `from_bytes` |
| packer | `include/protocol/packer.h`, `src/protocol/packer.cc` | none | `pack`, `unpack` |
| example application | `examples/main.cc` | `inh_count_`, two timers | the callbacks of the Controller, two timer handlers |
| converter, geodesy, printing | `src/util/converter.c`, `include/util/util.h`, `operator<<` | none | pure functions |

How they interact: the application and timer handlers call `Controller::send`,
which puts a packed message in a queue; the send thread takes it, hands it to
the socket and pulls it. The kernel starts a thread for each expiry of the
listen timer; it runs `Client::listen`, which calls the channel's
`on_*_connect_state`, which calls `stop`, spawns the retry thread, or starts the
heartbeat timer, and then calls the application. What `recv` returns is given to
`Packer::unpack`, which calls `on_message`.

What is hard: nothing but plain fields relates the threads that run `start`,
`stop` and `listen`. The `stopped_` flags are `bool`s set outside the queue's
mutex; `take` waits once and returns a reference that is read after the mutex is
released; `stop` is called from notification threads and from the application;
timer handlers may be in flight when their timer is deleted; results of `open`,
`send` and of the timer calls are ignored. The codec computes each message's
size three times, in three places. `PROJECT.json` lists these as hazards, each
at its line. One `recv` is taken for one message, in a buffer that keeps old
bytes. `Timer::start` and `stop` are several statements that three kinds of thread
of the application run on the same object, with a counter that none of them locks.

What makes each part correct: messages leave in the order they were put, each
once, and none is given up while the channel runs (queue, send thread); every
connection has one receive and one send thread, they are gone when `stop`
returns, nothing is leaked by a reconnection, and a loss is followed by a retry
(channel); reports alternate and describe a socket that is open (socket client);
a message is unpacked as it was packed (codec), and one that arrives in parts is
never mixed with another (framing); the application asks the cloud three times
and stops when it is answered or disconnected (example application); conversions
agree with their definitions (converter).

## Modules

| module | models |
|---|---|
| `BlockQueue` | the queue as a monitor: one action per critical section, `take` split at its wait |
| `SendThread` | EXTENDS `BlockQueue`: the statements of the send loop and the flag it tests |
| `SendPath` | EXTENDS `SendThread`: producers, the loop, and a channel that stops and starts, with numbered messages |
| `FifoLink` | the abstract specification: what the path promises in terms of messages alone |
| `SendPathProofs` | theorems about `SendPath` and their proofs |
| `Channel` | EXTENDS `SendThread`: one channel with its socket, listen timer, heartbeat timer, receive and send threads, retry threads, the application and the network |
| `ChannelProofs` | theorems about `Channel` and their proofs |
| `Codec` | messages, `to_bytes`, `from_bytes`, `pack`, `unpack` as operators |
| `ConnReport` | the abstract specification of a channel for the application: what it is told of the socket |
| `CodecProofs` | lemmas about the operators of `Codec` |
| `PackUnpack` | EXTENDS `Codec`: a message is built, packed and unpacked |
| `PackUnpackProofs` | theorems about `PackUnpack` and their proofs |
| `Framing` | EXTENDS `PackUnpack`: the receive thread, its buffer and a stream that `recv` cuts anywhere |
| `FramingProofs` | theorems about `Framing` and their proofs |
| `Timer` | `Timer::start` and `stop` statement by statement, and the kernel timers behind them |
| `InhSession` | EXTENDS `Timer` and `ConnReport`: the example application with its retry counter and its two timers |
| `InhSessionProofs` | theorems about `InhSession` and their proofs |
| `Calendar` | `bcd_time_to_utc_milliseconds`, and the calendar of a century counted day by day |
| `Converter` | EXTENDS `Calendar`: the other conversions of `converter.c` |
| `ConverterProofs` | theorems about `Converter` and `Calendar` and their proofs |
| `FoldProofs` | lemmas about the library's `FlattenSeq` and `FoldLeft`, and induction |
| `MCSendPath`, `MCChannel`, `MCPackUnpack`, `MCFraming`, `MCInhSession`, `MCConverter` | values of constants that a configuration cannot write |

How they compose: `Channel` and `SendPath` share the send thread and the queue;
`SendPath` implements `FifoLink`; `Channel` implements `ConnReport`, on which
`InhSession` lives instead of on the whole channel; `Framing` feeds the codec.

### BlockQueue, SendThread, SendPath

`put`, `pull` and `notify` hold the mutex from their first to their last
statement and are one action each. `take` is `TakeFront` when there is an
element, and `TakeWait` followed, after a notification, by `TakeWoken` when there
is none; the size is not tested a second time, as in the code. The reference
that `take` returns is read by the caller: `CopySlot`, out of the mutex, where an
empty queue gives a member of `FrontOfEmpty`. `front()` of an empty queue is
undefined; the two outcomes that matter are a slot that compares equal to
`nullptr` (`Null`: memory that was never used) and one that holds the pointer of
an element already destroyed (`Junk`). Sending junk puts no message on the wire.

`SendPath` numbers the messages in the order they are put. The thread that
stops and starts the channel does the statements of `stop` and `start` that
concern the queue, any number of times. `batch` is a sequence of `Send`.
`stopped_` is a plain `bool` that two threads access: the repository's build
files set no optimisation level, so every test is a read of memory, and it is
modelled as one.

### Channel

`at[a]` is the statement which agent `a` is about to run, where the agents are
the application's thread, the notification threads and the detached retry
threads; `rpc` and `spc` are the receive and the send thread. Every call that
changes shared state is an action of its own, so `stop` is nine steps and `listen`
five. `Down` chooses between `on_up_connect_state` and `on_down_connect_state`,
which differ in the heartbeat. A socket is named by the number of its opening.
A thread that is assigned over a joinable one, and a join of a thread that is
not joinable, set `crashed`, after which nothing runs. `overlap` is a history
variable: some `stop` began while another agent was inside `start` or `stop` of
the channel. Failures of `connect`, `timer_create` and `timer_settime` are
choices; `getsockopt` on a closed descriptor fails and leaves an uninitialised
`info`, so any state can be read, an invalid one included. A thread whose `stop`
returned early continues like one whose `stop` did the work, as in the code.
`ticks` says whether the state timer of the application puts messages on the up
channel: the callback starts it, which may fail, and stops it, and the INH timer's
handler stops it after three unanswered INHs (`GiveUp`), with no loss reported.

Not in `Channel`: a failure of `socket()`, the reuse of a descriptor number after
`close`, junk elements (they are in `SendPath`), a `send` that blocks for ever, a
change of address, the interplay of the two channels (which share no state but
the application's callback object), and the end of the Controller's life.

### ConnReport

Three facts about a channel as its callback sees it: `live` (it has a socket),
`owed` (a socket was closed and nobody told yet) and `told`. `Channel` maps `live`
to the state of the socket that `sockfd_` names and `owed` to the places of a
notification thread between the close and the callback (`Report` in
`Channel`). The property `ImplementsReport` says that every step of the channel is
one of `ConnReport` or leaves these three alone, up to the first `stop` that
overlaps another call. A loss is told after the retry thread was spawned, so
`Open` does not wait for `TellLost`.

### Timer, InhSession

A kernel timer is named by the number of the `start` that created it, since
`timer_` is overwritten. In `InhSession` a thread has a list of calls still to make
and the statement of the first that it is about to run. The reporter is the
notification thread of the up channel, the receiver its receive thread, and a
handler is a thread the kernel starts for an expiry of the INH timer; they meet
in `Timer::start`, in `Timer::stop` and at `inh_count_`, whose increment is a load
and a store. A use of a deleted kernel timer sets `fault` and ends the behaviour.
Two history variables state what the properties except: `raced` (two threads were
in calls of one Timer) and `carried` (an increment that had begun before a reset
was stored after it).

What the code does, and the properties therefore except: two stops that meet may
delete a timer twice; a `stop` that comes between `timer_settime` and
`stopped = false`, or meets a `start` otherwise, is lost; an increment that
overtakes the reset of a lost connection makes the next one give up after fewer
than three INHs; and an INH that waited in the queue is answered on the next
connection.

`Connected` waits for handlers of the last connection to have ended: the retry
thread sleeps five seconds and the handlers do not block. `stop` of the channel
joins the receive thread, so `CloseChannel` waits for it. Both are assumptions on
time or facts of the channel that `ConnReport` leaves out. `Answer` follows an INH that
was put: before the first one the cloud has nothing to say on the up channel, and
what `Framing` finds read as an answer behind an answer comes after it. The handler of
the state timer has no effect on the session and is `Produce` in `Channel`, where
giving up ends it.

### Codec, PackUnpack

A byte is a number below 256 and a message is a record of sequences of bytes.
The fixed-width fields are tables of name, width and whether `_big_endian`
reverses them, in the order of the code. `Encode` and `Decode` reverse the
bytes of a number and leave others. Lengths, size tests (`TooShort`, including
the wrap-around of `size_t`) and the order of what is written are those of the
code, with the copies of `sw_ver` in `Veh2CloudInh::to_bytes`. A `pack` that
writes more than it reserved ends the behaviour as `undefined`, as does a
`from_bytes` that stores into an empty vector. Bytes behind the ones received
have an arbitrary value, a member of `Stale`. When the header is refused, `data_len`
is uninitialised and the outcomes of comparing with it are a set: `Unpack` gives
every message that the handler may be called with.

### Framing

A behaviour is one of `PackUnpack`, or a receive thread from its beginning on. The
peer sends heartbeat answers and INH answers with any timestamp of `Stamps` and any
vehicle and result of `Bodies`; `Recv` returns any bytes up to the next message's
beginning, to one of the `Cuts` of any message, or to the end of what was sent,
writes them at the beginning of the buffer and unpacks them. What is behind them are
the bytes of earlier calls, so the type at byte 5 of a short `recv` is an old one. A
message that is cut, or that begins behind another, is lost by the code as it is. The
properties say what is not: a message that begins a `recv` and is whole is
delivered, no delivered message mixes bytes of two, and no answer is delivered
but for the type of one. An earlier answer may be delivered again with an empty header.

Timestamps and vehicles are bytes of any value, and the code takes two of them for what
they are not. A `recv` that begins at a datum 0xF2 is unpacked as a message. A datum
0x35 that is the sixth byte of a `recv` stays where a shorter one reads its type: one
byte 0xF2 is then an answer that nobody sent, and stops the INH timer.
`GotIsGenuine` and `AnswerHasCause` name these two cases (`IsDatum`) and say that there
is no other: what is delivered is otherwise the message that begins with the `recv`,
and an answer otherwise has the type of an answer of this connection. `typeAt` is a
history variable, the byte of the stream that the sixth byte of the buffer is.
`WholeIsDelivered` has no exception. `MCStamps` and `MCBodies` have both bytes in a
timestamp and 0x35 in a vehicle's name, and `Cuts` have the `recv`s that meet them.

### Calendar, Converter

The conversion of a time and the calendar it is compared with are a module of their
own; in `Converter` the calendar is one of the inputs that a behaviour may grow
(`CountDays`). The loops over a text are folds of one step per character, and `|=` of
an `int` into a byte is the arithmetic of its eight bits (`OrByte`). Characters are strings of length one. A behaviour grows one input, a text or a
day of the calendar, and the properties compare the conversion with a definition
of its own kind: a byte string that a prefix of the text spells, digits from the
right, the number of the day counted one by one. `atoi(&c)` reads what is behind
a local variable: `Behind` are the characters that may be there.

## Runs

| run | expects | shows |
|---|---|---|
| `SendPathNull` | pass | order, no gap, no lost wakeup, refinement of a lossless link, with spurious wakeups, when an empty queue reads as null |
| `SendPathJunk` | pass | order and refinement of a lossy link when it may read as junk; junk and losses only while `stop` waits for the send thread |
| `SendPathPhantom` | violation | "Blocking queue, thread safety.": the send thread takes an element nobody put |
| `ChannelUp` | pass | every reported loss is followed by a retry, and by a new report unless `open` fails, or unless a send thread waits for ever because nobody sends; refinement of `ConnReport`, on the channel that `InhSession` uses |
| `ChannelDown` | pass | no crash without overlap, one live socket, no use after close, alternating reports, one heartbeat, refinement of `ConnReport`; the inductive invariant `ChannelInv` behind them |
| `ChannelUser` | pass | the application's `stop` at any moment: no crash without overlap, and no thread left behind |
| `ChannelRetry` | violation | "retry in 5 seconds!": on the down channel `stop` can wait for ever |
| `ChannelStale` | violation | "first time after open": an invalid state of a closed socket is taken for a connection |
| `PackUnpack` | pass | sizes agree, a message with a text too long is cut to its header, what is unpacked is what was packed; over a stream cut anywhere, whole messages are delivered, and none is made up but of a datum that is taken for an identifier or a type |
| `InhVersions` | violation | the versions of `test/test.h` do not come back |
| `InhSession` | pass | an answer or a loss ends the retries, three INHs before giving up, timers match the reports, each unless calls of one Timer meet; the retries end |
| `Converter` | pass | hexadecimal text, BCD and time agree with their definitions |

### The four disagreements

* `take` tests the size with `if`. `stop` calls `notify` to end the wait, so the
  normal way to stop an idle channel makes the send thread read an empty queue.
  When a producer puts between that read and the `pull`, the `pull` drops the
  new message, which was not sent.
* `stop` sets `stopped_` outside the mutex. A send thread that has tested the flag
  but not yet entered `take` misses the only `notify`. On the down channel `stop`
  has just deleted the heartbeat timer, nobody puts anything, and the join of the
  send thread blocks the notification thread for ever: no retry, and the
  application is not told. On the up channel the application's state timer puts a
  message every 3 s until the application is told of the loss, so the wait
  ends; but where that timer did not start, or was stopped after three unanswered
  INHs, or the connection is lost before it was reported, the same join blocks.
  `RetryUnlessSilent` and `ReconnectedUnlessOpenFails` (`ChannelUp`) name that state
  (`Stuck`) and say that nothing else keeps a retry from coming.
* `listen` treats `CLOSED` as "just opened". `close` also sets it.
* `Veh2CloudInh::to_bytes` writes `sw_ver` three times.

### Bounds

* `MaxPut = 5` (`SendPath`): a message can be in the queue, on its way, dropped,
  overtaken by none, with two more behind it, across several restarts; the
  theorems hold for every bound.
* `MaxConn` (`Channel`): 2 to 4 sockets. The last one is never dropped, so the
  bound cuts off no reconnection that a property waits for: an agent that would
  open another socket waits at `OpenSocket`. Three connections give two full
  reconnections with a leftover of the first one possible in the third.
* `MaxQueue` 1 or 2: only whether the queue is empty matters in `Channel`, order
  is the matter of `SendPath`.
* `Listeners = {l1}`: one notification is under way at a time. Its period is 5 s
  and a handler that does not block ends well within it. `Retriers = {r1, r2}`:
  two retry threads can be under way.
* `DropInStart` is FALSE where a liveness property is checked, so that what it
  finds is not the overlap of `start` with a loss, and TRUE where safety is.
* `PackUnpack`: texts of length 0, 2, 3, 254, 255 (and 256 for user data), 0, 1 or 3
  pass points, 0 or 4 wheels, stale bytes 0, 1 and 255; the theorems hold for all.
* `MaxStream = 3` (`Framing`): a message before the one that is cut and one behind
  it, on each connection; the theorems hold for any number. `Cuts` are behind the
  identifier (1), the type (6) and the header (16), behind the version (7), where the
  sixth byte to come is the 0x35 of the second timestamp, and before its 0xF2 (11),
  where it is the 0x35 of the vehicle. `Stamps` and `Bodies`: a timestamp without and
  one with the two bytes that matter, and a vehicle whose name begins with 0x35; the
  theorems hold for all.
* `MaxStarts = 2` (`InhSession`): a timer of the first connection that outlives the
  start of the second one is the longest that a stop can be late; three were checked
  once (2.8 million states) and show nothing else. `Handlers = {h1}`: the timer
  expires every second and its handler does not block. With two handlers at a time,
  stores that overtake each other make the count unbounded.
* `Converter`: all texts up to `MaxText = 6` characters, against buffers of 1 to 3
  bytes, so both shorter, equal and longer than the buffer, with even and odd
  length; every day from 2000 to 2099, all that two digits can name.

`CHECK_DEADLOCK FALSE` is set everywhere because these systems may stop: a
channel whose `open` failed has nothing left to do, the lost wakeup above blocks
`stop` for ever, the bound on messages or sockets is reached, `crashed` ends the
program, a message is packed and unpacked once, a use of a deleted timer ends the
session, the timers were started `MaxStarts` times, and a text is full.

### Fairness

`SendPath` assumes weak fairness of the send thread alone: the operating system
runs a thread that is not blocked. `Channel` assumes it of each agent, the
receive thread's test and end, the send thread and of the producers while their
timer expires: the heartbeat timer, and on the up channel the application's state
timer (`examples/main.cc` 51-63). That one may end at any time (`GiveUp`) or not start
at all, and nothing is assumed of either, so no property rests on the cloud's
answers; what depends on it is in `Stuck`. No fairness is
assumed of spurious wakeups, of the network dropping a connection, of data
arriving, of `stop` by the application, or of spare calls of `send`. `InhSession` assumes
it of each thread that is not idle and of the expiry of an armed timer; none of
an answer, a report or a reconnection.

## Proofs

`SendPathProofs` proves, for every `MaxPut`, every non-empty `FrontOfEmpty` within
{`Null`, `Junk`} and with or without spurious wakeups:

* `TypeCorrect`: `Spec => []TypeOK`;
* `PathInvariant`: `Spec => []SendPathInv`;
* `HandedInOrder`, `HandedWithoutGap`: the action properties `InOrder` and
  `NothingSkipped`;
* `StopExplainsJunk`, `LossNeedsStop`: junk and losses only while `stop` waits;
* `PathImplementsLink`: `Spec => Link!Spec`.

They rest on `QueueAssumption` and `PathAssumption` and on the facts about
sequences of the library. The argument: `TypeOK` says besides the types that a
send thread exists exactly from `StartThread` to `StopJoin` and that only it can be
in `take`; without that, a second thread could start while the first one is
between its copy and its pull. On top of it `SendPathInv` is inductive. Its parts
need each other: that the queue is a suffix of what was put makes its front the
number `First`; that the thread works on the front (`ThreadHoldsFront`) makes a
`pull` drop what was just sent; that the wire is at `First` exactly while a pull is
pending, and behind it otherwise (`WireFollowsQueue`), gives order and, where junk
cannot be read, no gap. The step properties and the refinement then follow from
the invariant action by action.

`ChannelProofs` proves, for every `MaxConn` and `MaxQueue`, any number of retry
threads, both channels, and with or without a loss inside `start`:

| theorem | states | needs |
|---|---|---|
| `TypeCorrect` | `Spec => []TypeOK` | |
| `CrashNeedsOverlap`, `StopJoinsAll` | `CrashOnlyIfOverlap`, `StopLeavesNoThread` | `OneListener` |
| `ChannelInvariant` | `Spec => []ChannelInv` | `OneListener` |
| `NoSocketLeak`, `ClosedSocketUnused` | `OneLiveSocket`, `NoUseAfterClose` | `OneListener`, `~UserStops` |
| `NoReportTwice`, `HeartbeatFollowsState` | `ReportsAlternate`, `OneHeartbeat` | `OneListener`, `~UserStops` |
| `ChannelImplementsReport` | the refinement of `ConnReport` | `OneListener`, `~UserStops` |

`OneListener` says that `Listeners` has at most one member: a notification has
ended before the listen timer expires again, 5 s later. It is not a convenience.
With two notifications at a time two threads may handle the same loss; the second
`stop` finds `stopped_` set and returns, both spawn a retry thread, and two `start`s
assign over joinable threads: a crash without any `stop` that met another call.
`~UserStops` is the setting of the runs that check these properties: the application
does not call `stop`, whose steps would close a socket that nobody reports.

The argument has two layers. `TypeInv` says, besides the types, which statements each
kind of agent can be at (`WellPlaced`: the application never runs `listen`, a
retry thread only `start`, a notification thread only `listen` and `stop`) and holds
without a hypothesis. `ThreadsOwned` is inductive on it: until a `stop` overlaps
another call, the channel's threads exist exactly where an owner of them is between
their creation and their join, so that no thread is assigned over or joined twice.
`SocketOwned` (which agent, if any, holds a socket that is not open in the normal
sense), `StateReported` (what `state_` says of that socket, and what of it the
application was told) and `BeatFollowsState` (where the heartbeat timer may be
armed) are inductive together on top of both: a report is justified by the state,
the state by the socket, and the socket's closing by the threads. `ChannelInv` is
the conjunction, and TLC checked it in `ChannelDown` (5.5 million states) before the
proof was tried.

`InhSessionProofs` proves, for any number of starts of a Timer and any number of
handlers that run at a time:

* `TypeCorrect`: `Spec => []TypeOK`;
* `TimersInvariant`: the types, the places of all threads (`WellPlaced`) and
  `TimersInv` are an invariant;
* `AnswerStopsTimer`, `TimersFollowReports`, `FaultNeedsRace`: `AnswerEndsRetries`,
  `TimersMatchReports` and `DeleteTwiceNeedsRace`;
* `GiveUpNeedsThree`, where handlers run one at a time (`OneHandler`): the action
  property `GiveUpAfterThree`.

As long as no two threads met in the calls of a Timer (`~raced`), the thread that is
in a call of it owns it, and a Timer that nobody is in has an armed kernel timer
exactly if it says so (`TimerOwned`); `Reported` and `Answered` relate the Timers
to what the application was told. The count of INHs needs `CountInv`, where the
loads and stores of a handler are related to the INHs it put. With two handlers an
increment may overtake the other's and three INHs be counted as two, so `OneHandler`
is needed: the timer expires every second, and its handler puts one message.

`FoldProofs` has what the proofs about sequences rest on. `FlattenSeq` and `FoldLeft`
are recursive functions of the library, each a `CHOOSE` of a function that satisfies
its equation: `FlatExists` and `FoldExists` show that there is one, `FlatAgree` that a
flattened prefix depends on nothing else, and `FoldRun` that the values of a fold for
the prefixes of a text are a run of its step, so that an invariant of the step holds
at the end of the loop (`RunTo`). All go by induction over the length. The library's
induction theorem takes an operator; `Induct` states it for a set of numbers instead
and is proved from the well-foundedness of `<`.

`ConverterProofs` proves, for any characters, any bytes behind the variable that `atoi`
reads, texts of any length and buffers of any size but 0:

| theorem | states |
|---|---|
| `InputTyped` | a text consists of the characters of its job |
| `LongestPrefixFound` | `HexIsLongestPrefix` |
| `PrintedIsRead` | `HexRoundTrip` |
| `DigitsAtTheRight` | `BcdIsRightAligned` |
| `EveryTimeConverted` | `TimeMatchesCalendar` |
| `EveryDayCounted` | the number that the conversion computes for a date is the number of days counted one by one from 2000-01-01 |

The last two are for every `LastYear` up to 99 and every set of `Times`, so for all
86,400 seconds of a day where the run samples a few.

Numbers are unbounded in the model; the code keeps the index of `string_to_bcd` in an
`int`, so what is proved of it is about buffers whose size fits there.

`string_to_bytes`: the invariant `LoopInv` says, behind each character, which pairs of
digits the bytes found so far are, that all else up to there is blank, and, when the
loop has stopped, why: a foreign character, an odd digit, or a buffer that is full.
So what is found is spelled by a prefix (`FoundSpells`). That there is no longer one is
the harder half: a prefix that spells one byte more has its first pairs where the
loop found them, since both skip blanks only (`OneMore`, `FindsPrefix`), and so its
last pair would be where the loop stopped. For `HexRoundTrip` the invariant is simpler
(`ReadBack`): behind 2n characters of a printed text the first n bytes are found, or as
many as fit. `string_to_bcd`: `Aligned` says that behind each digit the halves of the
bytes up to it are the digits and all others zero, which needs that `|=` never meets a
half that was written before (`OrHalf`); `PaddingUntouched` is what is left of that when
`atoi` reads two digits.

The calendar: `(153 * m + 2) / 5` is evaluated for the twelve months; the terms for
eras and centuries are shown to be constant for the years 1999 to 2099; what is left
(`LateNumber`, `EarlyNumber`) is linear but for one division by four, and a case each
for the next day, month and year closes the induction over the calendar's steps.

`CodecProofs` has the lemmas about messages as bytes, for tables of any number of
fields and texts of any length: the type and length of an encoded table
(`EncodeType`), where each field is in it (`FieldHeld`) and `DecodeHeld`: `Decode` finds
in a buffer, from any offset on and whatever is behind, what `Encode` wrote there.

`PackUnpackProofs` proves, for version texts and user data of any content and
length, any numbers of pass points and wheels, and any bytes behind those received:

| theorem | states |
|---|---|
| `PackInvariant` | `Spec => []PackInv` |
| `BufferFilled` | `WireFillsBuffer`: constructor, `length()` and `to_bytes` agree on every size, and only lists are written past the buffer |
| `InhNeverInPart` | `InhWholeOrHeader` |
| `CutDownIsHeader` | `CutDownStaysEmpty` |
| `PackedComesBack` | `RoundTrip` |

`PackInv` says what is on the wire and what was read, as functions of the message;
the rest is about the message. `MessageSort` divides the messages into five sorts;
for each a lemma gives the bytes that `to_bytes` makes of it (`InhToBytes`,
`State2ToBytes` ...), one what `pack` reserves compared with them (`InhPacked` ...) and
one what `unpack` makes of a buffer that begins with them (`InhUnpacked` ...).

`FramingProofs` proves, for any number of messages, timestamps of any eight bytes,
answers of any content, all `Cuts` and whatever was built and packed before (what
`FramingAssumption` says of the constants is their types and widths):

| theorem | states |
|---|---|
| `FramingInvariant` | `FramingSpec => []FramingInv` |
| `AnswerCaused` | `AnswerHasCause` |
| `WholeDelivered` | `WholeIsDelivered` |
| `GotGenuine` | `GotIsGenuine` |
| `PackedAsBefore` | the four invariants of `PackUnpack`, beside a receive thread |

`AnswerHasCause` is not inductive: the type that a short `recv` is read with came
with an earlier one. `StreamInv` adds that the sixth byte of the buffer is the byte of
the stream at `typeAt`, and that an answer was delivered because that byte is
0x35; a `recv` keeps it (`TypeArrived`), and a message that is sent later changes no
byte before it (`OneMore`). Every byte of the stream is located in the message it is of
(`Located`); of the bytes of a message before its timestamp only the first can be
the identifier and only the sixth of an answer the type of an answer (`CloudBytes`),
whatever its data are, so a byte that is one of these and stands elsewhere is a datum
(`DatumIs`, `TypeHasCause`). For `GotIsGenuine`, what is delivered begins with an
identifier: either it is a datum, or a message begins there, whose header or type
then arrived too (`HeaderArrives`, `GenuineArrives`).

### Only model-checked

* Liveness: `EventuallySent`, `RetryUnlessSilent`, `ReconnectedUnlessOpenFails`,
  `RetriesEnd`. Fairness and ENABLED are beyond the prover.
* What the four violation runs show: one behaviour is enough.
* What the hypotheses above exclude: the application's `stop` at any moment is in
  `ChannelUser`, without a theorem for the socket's properties.

## Plan

Every invariant and action property that a passing run checks, and both refinements,
are theorems; the models are complete but for what the next section lists. What could
be added:

* the socket's properties of `Channel` with an application that calls `stop` itself,
  once it is settled what the callback should be told of a loss that `stop` makes;
* the two channels side by side, if the callback object comes to keep state that both
  of them change.

## Not modelled

* The two channels side by side: they share no state but the callback object. The
  two-channel `start` and `stop` run one channel after the other.
* The end of the `Controller`'s life: its destructor calls `stop`, and a detached
  retry thread that is asleep then uses an object that is gone.
* A failing `socket()`, the reuse of descriptor numbers, a `send` that blocks for ever.
* `from_bytes` into an object that already has a body, and wheels from elsewhere:
  stores into empty vectors, which nothing defines.
* `code_convert`, `utf8_to_gbk`, `gbk_to_utf8`: the work is iconv's.
* Geodesy and clocks (`util.h`): floating point, beyond TLC.
* Logging, `print_buffer` and the `operator<<` of the messages: they only format.
