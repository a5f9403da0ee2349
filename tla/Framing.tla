-------------------------------- MODULE Framing --------------------------------
(***************************************************************************)
(* The receive thread of a channel and the stream it reads (controller.cc  *)
(* 207-239).  TCP keeps the bytes and their order and nothing else: what   *)
(* one recv returns may be a part of a message, or the end of one and the  *)
(* beginning of the next.  The thread unpacks it as one message, in a      *)
(* buffer that keeps behind it what earlier calls left there.              *)
(*                                                                         *)
(* The peer sends HEARTBEAT_RES and CLOUD2VEH_INH_RES, the messages that   *)
(* the cloud has for a vehicle, with any timestamp and any answer.  Their  *)
(* bytes may be 0xF2, which begins a message, and 0x35, the type of an     *)
(* answer: a recv that ends before such a datum makes the thread take it   *)
(* for what it is not.  A behaviour of this module is one of PackUnpack,   *)
(* or a receive thread from its beginning on.                              *)
(***************************************************************************)
EXTENDS PackUnpack

CONSTANTS
    Stamps,          \* the timestamps of the peer's messages
    Bodies,          \* what its answers say: a vehicle and a result
    MaxStream,       \* bound: messages the peer sends on a connection
    Cuts             \* bound: where, within a message, a recv may end

ASSUME FramingAssumption ==
    /\ \A t \in Stamps : t \in Seq(0 .. 255) /\ Len(t) = 8
    /\ \A b \in Bodies :
          /\ b \in Seq(Seq(0 .. 255)) /\ Len(b) = Len(ResFields)
          /\ \A i \in DOMAIN b : Len(b[i]) = ResFields[i].width
    /\ MaxStream \in Nat \ {0}
    /\ Cuts \subseteq Nat

VARIABLES
    stream,          \* the messages sent on this connection
    off,             \* how many of their bytes were received
    buf,             \* the buffer; behind what is kept here it holds zeros
    typeAt           \* history: the byte of the stream that the sixth byte of
                     \* the buffer is, 0 before there is one

streamVars == <<stream, off, buf, typeAt>>
allVars == <<vars, streamVars>>

FramingInit ==
    /\ Init
    /\ stream = <<>>
    /\ off = 0
    /\ buf = <<>>
    /\ typeAt = 0

\* A heartbeat's answer and an INH's; the timestamp is field 5 of the header.
HeartbeatRes(t) == [NewHeader(HEARTBEAT_RES) EXCEPT !.hdr[5] = t]
InhRes(t, b) == [NewRes EXCEPT !.hdr[5] = t, !.body = b]

CloudMessages ==
    {HeartbeatRes(t) : t \in Stamps} \cup {InhRes(t, b) : t \in Stamps, b \in Bodies}

BytesOf(m) == ToBytes(m, PackSize(m))

\* The bytes of the first n messages.
First(n) == FlattenSeq([i \in 1 .. n |-> BytesOf(stream[i])])

Line == First(Len(stream))

\* Where the i-th message begins in the stream.
Begin(i) == Len(First(i - 1))

\* Where a recv may end.
Ends == {Len(Line)} \cup {Begin(i) : i \in DOMAIN stream}
            \cup {Begin(i) + c : i \in DOMAIN stream, c \in Cuts}

\* Mutant of Received: new bytes are put behind the old ones.
ReceivedBehind(data) == buf \o data

\* The buffer after recv wrote the data at its beginning.
Received(data) == data \o SubSeq(buf, Len(data) + 1, Len(buf))

\* Where the type that unpack reads comes from when recv has returned n bytes.
TypeRead(n) == IF n >= 6 THEN off + 6 ELSE typeAt

-----------------------------------------------------------------------------

\* The receive thread is started, with a buffer of zeros.
StartThread ==
    /\ step = "build"
    /\ step' = "stream"
    /\ UNCHANGED <<msg, wire, got, streamVars>>

\* The peer packs one more message and sends it.
PeerSends ==
    /\ step = "stream"
    /\ Len(stream) < MaxStream
    /\ \E m \in CloudMessages : stream' = Append(stream, m)
    /\ UNCHANGED <<vars, off, buf, typeAt>>

\* Mutant of Recv: the whole buffer is unpacked.
RecvUnpacksAll(n) ==
    /\ step = "stream"
    /\ off + n <= Len(Line)
    /\ off' = off + n
    /\ buf' = Received(SubSeq(Line, off + 1, off + n))
    /\ typeAt' = TypeRead(n)
    /\ got' \in Unpack(buf', 0, 4096)
    /\ UNCHANGED <<step, msg, wire, stream>>

\* recv returns n bytes, and unpack calls on_message for what it makes of them.
Recv(n) ==
    /\ step = "stream"
    /\ off + n <= Len(Line)
    /\ off' = off + n
    /\ buf' = Received(SubSeq(Line, off + 1, off + n))
    /\ typeAt' = TypeRead(n)
    /\ got' \in Unpack(buf', 0, n)
    /\ UNCHANGED <<step, msg, wire, stream>>

\* Mutant of Reconnect: the buffer outlives the thread.
ReconnectKeepsBuffer ==
    /\ step = "stream"
    /\ stream' = <<>>
    /\ off' = 0
    /\ typeAt' = 0
    /\ got' = Nothing
    /\ UNCHANGED <<step, msg, wire, buf>>

\* The connection is lost, with what was not received, and another thread is
\* started for the next one.
Reconnect ==
    /\ step = "stream"
    /\ stream' = <<>>
    /\ off' = 0
    /\ typeAt' = 0
    /\ buf' = <<>>
    /\ got' = Nothing
    /\ UNCHANGED <<step, msg, wire>>

FramingNext ==
    \/ Next /\ UNCHANGED streamVars
    \/ StartThread
    \/ PeerSends
    \/ \E n \in {e - off : e \in {x \in Ends : x > off}} : Recv(n)
    \/ Reconnect

FramingSpec == FramingInit /\ [][FramingNext]_allVars

-----------------------------------------------------------------------------

\* A message that a recv returns from its first byte to its last is delivered as
\* it was sent, whatever is behind it in the same recv and whatever the buffer
\* held before (controller.cc 214-238, packer.cc 7-65).
WholeIsDelivered ==
    [][\A i \in DOMAIN stream :
          off' > off /\ Begin(i) = off /\ off' >= off + Len(BytesOf(stream[i]))
             => got' = stream[i]]_allVars

\* Byte x of the stream is v, and belongs to the data of a message: its timestamp,
\* its control byte or its body.
IsDatum(x, v) ==
    /\ \E i \in DOMAIN stream :
          Begin(i) + 8 <= x /\ x <= Begin(i) + Len(BytesOf(stream[i]))
    /\ Line[x] = v

\* Whatever is delivered is the message that begins with this recv: with a header,
\* its own and with its own body or none; without one, only if not even the header
\* has arrived, and of its kind if the type has.  Never one that was delivered
\* before, a message that begins in the middle of a recv, or a mixture of new and
\* old bytes; unless the recv begins with a datum that is 0xF2, which is then taken
\* for the beginning of a message (packer.cc 14-23, message.h 122-158,
\* veh2cloud_inh.h 408-427).
GotIsGenuine ==
    [][off' > off /\ got' # Nothing =>
          \/ IsDatum(off + 1, 242)
          \/ \E i \in DOMAIN stream :
                /\ Begin(i) = off
                /\ got'.hdr # <<>> =>
                      got' \in {stream[i], [stream[i] EXCEPT !.body = <<>>]}
                /\ got'.hdr = <<>> =>
                      /\ off' - off < HeaderLen
                      /\ off' - off >= 6 => got'.kind = stream[i].kind]_allVars

\* The application is told of an answer to its INH, upon which it stops asking,
\* only because of the type of an answer that was sent on this connection, or of a
\* datum that is 0x35 and came to stand in its place: no byte of an earlier
\* connection or of another message's header is taken for one, however recv cuts
\* the stream; though one byte of a later message is enough for either to be read
\* again (packer.cc 23, examples/main.cc 89-94).
AnswerHasCause ==
    step = "stream" /\ got.kind = "res" =>
        \/ \E i \in DOMAIN stream : stream[i].kind = "res" /\ typeAt = Begin(i) + 6
        \/ IsDatum(typeAt, CLOUD2VEH_INH_RES)

=============================================================================
