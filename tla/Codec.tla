--------------------------------- MODULE Codec ---------------------------------
(***************************************************************************)
(* The messages of protocol/message/*.h, the bytes that to_bytes writes,   *)
(* what from_bytes makes of them, and Packer::pack and unpack              *)
(* (packer.h, packer.cc).  One behaviour builds a message, packs it and    *)
(* unpacks the bytes, as the programs of test/ do and as one channel does  *)
(* at each end.                                                            *)
(*                                                                         *)
(* A byte is a number below 256.  The fields of fixed width are given by   *)
(* tables, in the order in which they are written; the value of a field is *)
(* the sequence of bytes it has in memory.  pack and unpack leave          *)
(* _big_endian at its default, so multi-byte numbers, and message_id, are  *)
(* reversed on the way (the host is little-endian).                        *)
(***************************************************************************)
EXTENDS Integers, Sequences, SequencesExt

CONSTANTS
    VersionTexts,    \* the version strings of the Veh2CloudInh messages
    UserTexts,       \* their user data, and that of the Veh2CloudState2
    PassCounts,      \* how many pass points a state may have
    WheelCounts,     \* how many wheels a Veh2CloudState2 may have
    Stale            \* what the bytes behind the ones received may hold

ASSUME CodecAssumption ==
    /\ \A t \in VersionTexts \cup UserTexts : t \in Seq(0 .. 255)
    /\ PassCounts \subseteq 0 .. 255
    /\ WheelCounts \subseteq 0 .. 255
    /\ Stale \subseteq 0 .. 255

-----------------------------------------------------------------------------
(* Tables of fields                                                        *)

Raw(names, w) == [i \in DOMAIN names |-> [name |-> names[i], width |-> w, swap |-> FALSE]]
Num(names, w) == [i \in DOMAIN names |-> [name |-> names[i], width |-> w, swap |-> TRUE]]

HeaderFields ==
    Raw(<<"id">>, 1) \o Num(<<"data_len">>, 4) \o Raw(<<"data_type", "version">>, 1)
      \o Num(<<"timestamp">>, 8) \o Raw(<<"ctrl">>, 1)

VehicleField == Raw(<<"vehicle_id">>, 8)

InhFields == Raw(<<"com_type", "pos_confidence", "time_sync", "gnss_type">>, 1)

ResFields == VehicleField \o Raw(<<"res">>, 1)

PointFields == Num(<<"longitude", "latitude">>, 4)

StateFields ==
    VehicleField \o Num(<<"message_id", "gnss_timestamp">>, 8)
      \o Num(<<"gnss_velocity">>, 2)
      \o Num(<<"pos.longitude", "pos.latitude", "pos.elevation", "heading">>, 4)
      \o Raw(<<"gear">>, 1) \o Num(<<"steering_angle">>, 4)
      \o Num(<<"velocity", "acc_lon", "acc_lat", "acc_ver", "yaw_rate",
               "accel_pos", "engine_speed">>, 2)
      \o Num(<<"engine_torque">>, 4) \o Raw(<<"break_flag">>, 1)
      \o Num(<<"break_pos", "break_pressure", "fuel_consume">>, 2)
      \o Raw(<<"drive_mode">>, 1) \o Num(<<"dest.longitude", "dest.latitude">>, 4)

State2Fields ==
    Raw(<<"abs_flag", "tcs_flag", "esp_flag", "lka_flag", "acc_flag", "fcw_flag",
          "ldw_flag", "aeb_flag", "lca_flag", "dms_flag">>, 1)
      \o Num(<<"mileage">>, 4) \o Num(<<"fuel_gauge", "soc">>, 2)
      \o Raw(<<"temperature">>, 1) \o Num(<<"endurance">>, 4)
      \o Num(<<"vehfault", "motorspeed">>, 2) \o Num(<<"motortorque">>, 4)
      \o Raw(<<"veh_mode", "charge_state">>, 1)
      \o Num(<<"batt_vol", "batt_cur">>, 2) \o Raw(<<"horn_state">>, 1)

DoorFields == Num(<<"lights", "doors">>, 2)

\* The length of a table: FoldLeft(+) over the widths.
Width(fields) == FoldLeft(LAMBDA n, f : n + f.width, 0, fields)

\* Bytes off + 1 .. off + n of a buffer; what is behind them is stale.
Slice(buf, stale, off, n) ==
    [k \in 1 .. n |-> IF off + k <= Len(buf) THEN buf[off + k] ELSE stale]

InOrder(f, bytes) == IF f.swap THEN Reverse(bytes) ELSE bytes

Encode(fields, v) == FlattenSeq([i \in DOMAIN fields |-> InOrder(fields[i], v[i])])

\* Mutant of Decode: numbers are read in the order in which they arrive.
DecodeUnswapped(fields, buf, stale, off) ==
    [i \in DOMAIN fields |->
        Slice(buf, stale, off + Width(SubSeq(fields, 1, i - 1)), fields[i].width)]

Decode(fields, buf, stale, off) ==
    [i \in DOMAIN fields |->
        InOrder(fields[i], Slice(buf, stale, off + Width(SubSeq(fields, 1, i - 1)),
                                 fields[i].width))]

\* A value for the fields of a table in which no two neighbouring bytes agree.
Sample(fields) ==
    [i \in DOMAIN fields |-> [k \in 1 .. fields[i].width |-> (8 * i + k) % 256]]

HeaderLen == Width(HeaderFields)

\* A uint32_t in memory, and its value.
Memory(n) == <<n % 256, (n \div 256) % 256, (n \div 65536) % 256, n \div 16777216>>
Number(b) == b[1] + 256 * b[2] + 65536 * b[3] + 16777216 * b[4]

-----------------------------------------------------------------------------
(* The messages, as their constructors leave them                          *)

\* The members a message may have; a message type uses some of them.
Blank == [kind |-> "header", hdr |-> <<>>, body |-> <<>>, sw |-> <<>>,
          hw |-> <<>>, ad |-> <<>>, ext |-> <<>>, pass |-> <<>>, wheels |-> <<>>,
          tires |-> <<>>, doors |-> <<>>, user |-> <<>>]

HEARTBEAT == 12
HEARTBEAT_RES == 13
VEH2CLOUD_INH == 52
CLOUD2VEH_INH_RES == 53
VEH2CLOUD_STATE == 21

Header(len, type, version) ==
    <<<<242>>, Memory(len), <<type>>, <<version>>, <<1, 2, 3, 4, 5, 6, 7, 8>>, <<28>>>>

DataLen(m) == Number(m.hdr[2])

\* Mutant of TextLen: the length is cut to a uint8_t.
TextLenWrapped(text) == Len(text) % 256

\* The uint8_t that the constructor of Veh2CloudInh keeps as a text's length.
TextLen(text) == IF Len(text) >= 255 THEN 0 ELSE Len(text)

NewHeader(type) == [Blank EXCEPT !.hdr = Header(0, type, 1)]

NewInh(sw, hw, ad, user) ==
    [Blank EXCEPT
        !.kind = "inh", !.sw = sw, !.hw = hw, !.ad = ad, !.user = user,
        !.body = Sample(VehicleField) \o Sample(InhFields),
        !.hdr = Header(Width(VehicleField \o InhFields) + 4 + TextLen(sw) + TextLen(hw)
                           + TextLen(ad) + TextLen(user), VEH2CLOUD_INH, 1)]

NewRes ==
    [Blank EXCEPT !.kind = "res", !.body = Sample(ResFields),
                  !.hdr = Header(Width(ResFields), CLOUD2VEH_INH_RES, 1)]

\* The constructors of the states count the elements of each vector, and not
\* the bytes that the elements take.
NewState(pass) ==
    [Blank EXCEPT
        !.kind = "state", !.body = Sample(StateFields), !.pass = pass,
        !.hdr = Header(Width(StateFields) + 1 + Len(pass), VEH2CLOUD_STATE, 1)]

NewState2(pass, wheels, user) ==
    [Blank EXCEPT
        !.kind = "state2", !.body = Sample(StateFields), !.pass = pass,
        !.ext = Sample(State2Fields), !.wheels = wheels, !.tires = wheels,
        !.doors = Sample(DoorFields), !.user = user,
        !.hdr = Header(Width(StateFields) + 1 + Len(pass) + Width(State2Fields) + 1
                           + 2 * Len(wheels) + Width(DoorFields) + 1 + Len(user),
                       VEH2CLOUD_STATE, 2)]

Points(n) == [i \in 1 .. n |-> [j \in 1 .. 2 |-> <<i, j, i + j, 9>>]]
Wheels(n) == [i \in 1 .. n |-> <<i, 200>>]

Messages ==
    {NewHeader(HEARTBEAT), NewHeader(HEARTBEAT_RES), NewRes}
      \cup {NewInh(sw, hw, ad, user) : sw \in VersionTexts, hw \in VersionTexts,
                                       ad \in VersionTexts, user \in UserTexts}
      \cup {NewState(Points(n)) : n \in PassCounts}
      \cup {NewState2(Points(n), Wheels(w), user) :
                n \in PassCounts, w \in WheelCounts, user \in UserTexts}

-----------------------------------------------------------------------------
(* to_bytes                                                                *)

\* `_size - offset < len', in size_t: a negative difference wraps around.
TooShort(size, offset, len) == size >= offset /\ size - offset < len

\* What length() adds to the header's.
BodyLen(m) ==
    CASE m.kind = "header" -> 0
      [] m.kind = "inh"    -> Width(VehicleField \o InhFields) + 4 + Len(m.sw) + Len(m.hw)
                                + Len(m.ad) + Len(m.user)
      [] m.kind = "res"    -> DataLen(m)
      [] OTHER             -> Width(StateFields) + 1 + Len(m.pass)

Ext2Len(m) == Width(State2Fields) + 1 + 2 * Len(m.wheels) + Width(DoorFields) + 1 + Len(m.user)

\* memcpy of n bytes from c_str(): behind the text is its NUL.  What is behind that,
\* and read when the hardware version is longer than the software version by two,
\* is not the text's; 0 stands for it.
Chars(text, n) == [k \in 1 .. n |-> IF k <= Len(text) THEN text[k] ELSE 0]

Text(text, n) == <<n>> \o Chars(text, n)

\* Mutant of InhBody: the driving system version is left out.
InhBodyShort(m) ==
    Encode(VehicleField, m.body) \o Text(m.sw, TextLen(m.sw))
      \o Text(m.hw, TextLen(m.hw))
      \o Encode(InhFields, Tail(m.body)) \o Text(m.user, TextLen(m.user))

\* Veh2CloudInh: the hardware version's length is written as sw_ver_len, and the
\* bytes of the hardware and the driving system version are those of sw_ver.
InhBody(m) ==
    Encode(VehicleField, m.body) \o Text(m.sw, TextLen(m.sw))
      \o <<TextLen(m.sw)>> \o Chars(m.sw, TextLen(m.hw))
      \o <<TextLen(m.ad)>> \o Chars(m.sw, TextLen(m.ad))
      \o Encode(InhFields, Tail(m.body)) \o Text(m.user, TextLen(m.user))

StateBody(m) ==
    Encode(StateFields, m.body) \o <<Len(m.pass)>>
      \o FlattenSeq([i \in DOMAIN m.pass |-> Encode(PointFields, m.pass[i])])

\* user_data_len is a uint8_t: it keeps the length modulo 256.
State2Body(m) ==
    Encode(State2Fields, m.ext) \o <<Len(m.wheels)>>
      \o FlattenSeq([i \in DOMAIN m.wheels |-> Reverse(m.wheels[i])])
      \o FlattenSeq([i \in DOMAIN m.tires |-> Reverse(m.tires[i])])
      \o Encode(DoorFields, m.doors) \o Text(m.user, Len(m.user) % 256)

\* The bytes that to_bytes(buf, size) writes: the part that came before a test
\* of the size that failed.
ToBytes(m, size) ==
    LET hdr  == Encode(HeaderFields, m.hdr)
        body == CASE m.kind = "header" -> <<>>
                  [] m.kind = "inh"    -> InhBody(m)
                  [] m.kind = "res"    -> Encode(ResFields, m.body)
                  [] OTHER             -> StateBody(m)
        base == IF TooShort(size, HeaderLen, BodyLen(m)) THEN hdr ELSE hdr \o body
    IN  IF m.kind = "state2" /\ ~TooShort(size, Len(base), Ext2Len(m))
        THEN base \o State2Body(m)
        ELSE base

-----------------------------------------------------------------------------
(* from_bytes, into a message whose texts and vectors are empty            *)

\* MessageHeader: nothing is read, and the members stay as they are, when there
\* are not enough bytes.
ReadHeader(buf, stale, size) ==
    IF size < HeaderLen THEN <<>> ELSE Decode(HeaderFields, buf, stale, 0)

\* The other messages test the size again behind the header.  Without one the
\* offset is 0, and what they want is longer than the header.
Truncated(size, offset, len) == size < HeaderLen \/ TooShort(size, offset, len)

\* A text and where it ends.  The versions take a length of 255 for "no text".
ReadText(buf, stale, off, version) ==
    LET n == Slice(buf, stale, off, 1)[1]
        len == IF version /\ n = 255 THEN 0 ELSE n
    IN  [text |-> Slice(buf, stale, off + 1, len), next |-> off + 1 + len]

\* Mutant of ReadInh: the size is not tested.
ReadInhUnchecked(buf, stale, size) ==
    LET sw   == ReadText(buf, stale, HeaderLen + Width(VehicleField), TRUE)
        hw   == ReadText(buf, stale, sw.next, TRUE)
        ad   == ReadText(buf, stale, hw.next, TRUE)
        user == ReadText(buf, stale, ad.next + Width(InhFields), FALSE)
    IN  [Blank EXCEPT
            !.kind = "inh", !.hdr = ReadHeader(buf, stale, size),
            !.body = Decode(VehicleField, buf, stale, HeaderLen)
                        \o Decode(InhFields, buf, stale, ad.next),
            !.sw = sw.text, !.hw = hw.text, !.ad = ad.text, !.user = user.text]

\* Veh2CloudInh: the size is tested once, for a message with empty texts.
ReadInh(buf, stale, size) ==
    LET sw   == ReadText(buf, stale, HeaderLen + Width(VehicleField), TRUE)
        hw   == ReadText(buf, stale, sw.next, TRUE)
        ad   == ReadText(buf, stale, hw.next, TRUE)
        user == ReadText(buf, stale, ad.next + Width(InhFields), FALSE)
        msg  == [Blank EXCEPT !.kind = "inh", !.hdr = ReadHeader(buf, stale, size)]
    IN  IF Truncated(size, HeaderLen, Width(VehicleField \o InhFields) + 4)
        THEN msg
        ELSE [msg EXCEPT
                !.body = Decode(VehicleField, buf, stale, HeaderLen)
                            \o Decode(InhFields, buf, stale, ad.next),
                !.sw = sw.text, !.hw = hw.text, !.ad = ad.text, !.user = user.text]

\* Cloud2VehInhRes compares the size with the length the header declares: two
\* outcomes, when there is no header and data_len is what was in the memory.
ReadRes(buf, stale, size) ==
    LET msg == [Blank EXCEPT !.kind = "res", !.hdr = ReadHeader(buf, stale, size)]
        Whole(offset) == [msg EXCEPT !.body = Decode(ResFields, buf, stale, offset)]
    IN  CASE msg.hdr = <<>> -> {msg, Whole(0)}
          [] msg.hdr # <<>> /\ TooShort(size, HeaderLen, DataLen(msg)) -> {msg}
          [] OTHER -> {Whole(HeaderLen)}

ReadState(buf, stale, size) ==
    LET off  == HeaderLen + Width(StateFields)
        n    == Slice(buf, stale, off, 1)[1]
        msg  == [Blank EXCEPT !.kind = "state", !.hdr = ReadHeader(buf, stale, size)]
    IN  IF Truncated(size, HeaderLen, Width(StateFields) + 1)
        THEN msg
        ELSE [msg EXCEPT
                !.body = Decode(StateFields, buf, stale, HeaderLen),
                !.pass = [i \in 1 .. n |->
                            Decode(PointFields, buf, stale,
                                   off + 1 + (i - 1) * Width(PointFields))]]

\* The wheels are stored into vectors that are still empty: what follows is
\* undefined as soon as there is a wheel.
ReadState2(buf, stale, size) ==
    LET base == [ReadState(buf, stale, size) EXCEPT !.kind = "state2"]
        off  == IF base.body = <<>> THEN HeaderLen
                ELSE HeaderLen + Width(StateFields) + 1 + Len(base.pass) * Width(PointFields)
        nofs == off + Width(State2Fields)
        n    == Slice(buf, stale, nofs, 1)[1]
        user == ReadText(buf, stale, nofs + 1 + Width(DoorFields), FALSE)
    IN  CASE Truncated(size, off, Ext2Len(Blank)) -> base
          [] ~Truncated(size, off, Ext2Len(Blank)) /\ n > 0 ->
                [base EXCEPT !.kind = "undefined"]
          [] OTHER ->
                [base EXCEPT !.ext = Decode(State2Fields, buf, stale, off),
                             !.doors = Decode(DoorFields, buf, stale, nofs + 1),
                             !.user = user.text]

-----------------------------------------------------------------------------
(* Packer                                                                  *)

\* The size of the buffer that pack() gives to_bytes.
PackSize(m) == HeaderLen + DataLen(m)

Nothing == [Blank EXCEPT !.kind = "nothing"]

\* unpack(): the message type is byte 5 and its version byte 6, whether or not
\* so many bytes were received.  The set of what may come out.
Unpack(buf, stale, size) ==
    LET type    == Slice(buf, stale, 5, 1)[1]
        version == Slice(buf, stale, 6, 1)[1]
    IN  CASE size = 0 \/ Slice(buf, stale, 0, 1)[1] # 242 -> {Nothing}
          [] OTHER ->
               CASE type \in {HEARTBEAT, HEARTBEAT_RES} ->
                       {[Blank EXCEPT !.hdr = ReadHeader(buf, stale, size)]}
                 [] type = VEH2CLOUD_INH     -> {ReadInh(buf, stale, size)}
                 [] type = CLOUD2VEH_INH_RES -> ReadRes(buf, stale, size)
                 [] type = VEH2CLOUD_STATE /\ version = 1 -> {ReadState(buf, stale, size)}
                 [] type = VEH2CLOUD_STATE /\ version = 2 -> {ReadState2(buf, stale, size)}
                 [] OTHER -> {Nothing}

=============================================================================
