------------------------------ MODULE PackUnpack ------------------------------
(***************************************************************************)
(* A message is built, packed and unpacked, as Test::run does (test.h) and *)
(* as a channel does when each recv returns one message: the buffer the    *)
(* bytes arrive in is larger than they are and keeps what it held before.  *)
(***************************************************************************)
EXTENDS Codec

VARIABLES
    step,            \* "build", "pack", "unpack" or "done"; "undefined" after
                     \* a pack() that wrote behind its buffer
    msg,             \* the message built
    wire,            \* the bytes packed
    got              \* the message unpacked

vars == <<step, msg, wire, got>>

Init ==
    /\ step = "build"
    /\ msg = Blank
    /\ wire = <<>>
    /\ got = Nothing

\* A constructor.
Build ==
    /\ step = "build"
    /\ msg' \in Messages
    /\ step' = "pack"
    /\ UNCHANGED <<wire, got>>

\* Packer::pack, with an array of PackSize(msg) bytes on the stack; nothing is
\* said of a program that wrote more into it.
DoPack ==
    /\ step = "pack"
    /\ wire' = ToBytes(msg, PackSize(msg))
    /\ step' = IF Len(wire') > PackSize(msg) THEN "undefined" ELSE "unpack"
    /\ UNCHANGED <<msg, got>>

\* Packer::unpack
DoUnpack ==
    /\ step = "unpack"
    /\ \E stale \in Stale : got' \in Unpack(wire, stale, Len(wire))
    /\ step' = "done"
    /\ UNCHANGED <<msg, wire>>

Next == Build \/ DoPack \/ DoUnpack

Spec == Init /\ [][Next]_vars

-----------------------------------------------------------------------------

\* No text is as long as its length byte cannot say.
ShortTexts(m) ==
    /\ \A t \in {m.sw, m.hw, m.ad} : Len(t) < 255
    /\ Len(m.user) < IF m.kind = "state2" THEN 256 ELSE 255

NoLists(m) == m.pass = <<>> /\ m.wheels = <<>>

\* What pack() reserves, what the header declares and what to_bytes writes is the
\* same number of bytes for every message without pass points, wheels or texts of
\* 255 bytes, though it is computed three times, in the constructor, in length()
\* and in to_bytes; and only pass points or wheels, whose elements are counted
\* and not their bytes, make to_bytes write behind the buffer (packer.h 43-48).
WireFillsBuffer ==
    /\ step = "undefined" => ~NoLists(msg)
    /\ step \in {"unpack", "done"} /\ ShortTexts(msg) /\ NoLists(msg)
          => Len(wire) = PackSize(msg)

\* A Veh2CloudInh is written whole or not at all behind its header, whatever its
\* texts are: never past the buffer and never in part (veh2cloud_inh.h 190-257).
InhWholeOrHeader ==
    step \in {"unpack", "done"} /\ msg.kind = "inh"
        => Len(wire) = IF ShortTexts(msg) THEN PackSize(msg) ELSE HeaderLen

\* A message is unpacked as it was packed and none of its fields depends on what
\* the receive buffer held before, if to_bytes writes it as it is: every message
\* without pass points, wheels or long texts whose three version texts are equal
\* (packer.cc 7-96 with the to_bytes of every message).
RoundTrip ==
    step = "done" /\ ShortTexts(msg) /\ NoLists(msg) /\ msg.sw = msg.hw /\ msg.hw = msg.ad
        => got = msg

\* A Veh2CloudInh that a text of 255 bytes cut down to its header is unpacked as
\* that header and nothing else: no text or field is made up of what the receive
\* buffer held before, though the header declares a longer message
\* (veh2cloud_inh.h 125-136 with 201-204).
CutDownStaysEmpty ==
    step = "done" /\ msg.kind = "inh" /\ ~ShortTexts(msg)
        => got = [Blank EXCEPT !.kind = "inh", !.hdr = msg.hdr]

\* Test::test<Veh2CloudInh> (test.h 52-58) builds a message with the versions
\* "sw_v1.0", "hw_v1.0" and "ad_v1.0" and Test::run "// unpack"s what it packed
\* (test.h 23-30): the three versions come back.
VersionsSurvive ==
    step = "done" /\ msg.kind = "inh" /\ ShortTexts(msg)
        => got.sw = msg.sw /\ got.hw = msg.hw /\ got.ad = msg.ad

=============================================================================
