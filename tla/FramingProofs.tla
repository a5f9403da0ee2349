----------------------------- MODULE FramingProofs -----------------------------
(***************************************************************************)
(* Proofs about module Framing, for every number of messages, whatever     *)
(* their timestamps and answers are, and for every way in which recv cuts  *)
(* the stream.  The bytes of the stream are located in the messages they   *)
(* belong to: before its data, only the first byte of a message is an      *)
(* identifier, and only the sixth of an answer is the type of an answer.   *)
(***************************************************************************)
EXTENDS Framing, PackUnpackProofs

-----------------------------------------------------------------------------
(* The messages of the cloud *)

\* Bytes that neither begin a message nor are the type of an answer.
Quiet == Byte \ {242, CLOUD2VEH_INH_RES}

\* The header of a message of the cloud.
CloudHeader(h) ==
  /\ IsHeader(h) /\ h[1] = << 242 >> /\ h[2] \in Seq(Quiet) /\ h[4] = << 1 >>

\* A message of the cloud.
Cloud(m) ==
  /\ CloudHeader(m.hdr)
  /\ \/ IsPlain(m) /\ m.kind = "header" /\ m.hdr[3] = <<HEARTBEAT_RES>>
     \/ IsRes(m) /\ m.kind = "res"

\* Six elements as a sequence.
LEMMA SixOf ==
  ASSUME NEW S, NEW a \in S, NEW b \in S, NEW c \in S, NEW d \in S, NEW e \in S, NEW f \in S
  PROVE  <<a, b, c, d, e, f>> \in Seq(S) /\ Len(<<a, b, c, d, e, f>>) = 6
  OBVIOUS

\* One with this type and this length.
Declares(h, type, len) ==
  CloudHeader(h) /\ h[3] = <<type>> /\ Number(h[2]) = len

\* A timestamp.
Stamp(t) == t \in Seq(Byte) /\ Len(t) = 8

\* A header built with a length below 53 is one, whatever its timestamp.
LEMMA CloudHeaderIs ==
  ASSUME NEW len \in 0 .. 52, NEW type \in Byte, NEW t, Stamp(t), NEW h,
         h = [Header(len, type, 1) EXCEPT ![5] = t]
  PROVE  Declares(h, type, len)
<1> DEFINE H == Header(len, type, 1)
<1>1. len % 256 = len /\ len \div 256 = 0 /\ len \div 65536 = 0 /\ len \div 16777216 = 0
  OBVIOUS
<1>2. 0 % 256 = 0
  OBVIOUS
<1>3. Memory(len) = <<len, 0, 0, 0>>
  BY <1>1, <1>2 DEF Memory
<1>4. H = <<<<242>>, <<len, 0, 0, 0>>, <<type>>, << 1 >>, <<1, 2, 3, 4, 5, 6, 7, 8>>, << 28 >>>>
  BY <1>3, Zenon DEF Header
<1>5. /\ IsHeader(H) /\ Number(H[2]) = len
  <2>1. len \in Nat /\ 1 \in Byte
    BY DEF Byte
  <2> QED BY <2>1, HeaderIs
<1>6. h = <<<<242>>, <<len, 0, 0, 0>>, <<type>>, << 1 >>, t, << 28 >>>>
  <2> HIDE DEF H
  <2>1. h = [H EXCEPT ![5] = t]
    BY DEF H
  <2> QED BY <2>1, <1>4
<1>7. t \in Seq(Byte) /\ Len(t) = 8
  BY DEF Stamp
<1>8. <<len, 0, 0, 0>> \in Seq(Quiet)
  <2>1. \A k \in 0 .. 52 : k \in Quiet
    BY DEF Quiet, Byte, CLOUD2VEH_INH_RES
  <2>2. 0 \in Quiet /\ len \in Quiet
    BY <2>1
  <2> HIDE DEF Quiet
  <2> QED BY <2>2
<1>9. /\ h[1] = << 242 >> /\ h[2] = <<len, 0, 0, 0>> /\ h[3] = <<type>> /\ h[4] = << 1 >>
      /\ h[5] = t /\ h[6] = << 28 >>
  BY <1>6
<1>10. IsHeader(h)
  <2>1. Fits(HeaderFields, H) /\ DOMAIN HeaderFields = 1 .. 6
    BY <1>5, HeaderShape, TableTypes DEF IsHeader
  <2>2. \A i \in 1 .. 6 : H[i] \in Seq(Byte) /\ Len(H[i]) = HeaderFields[i].width
    BY <2>1 DEF Fits
  <2>3. /\ H[1] = << 242 >> /\ H[2] = <<len, 0, 0, 0>> /\ H[3] = <<type>> /\ H[4] = << 1 >>
        /\ H[6] = << 28 >>
    BY <1>4
  <2> HIDE DEF H
  <2>4. /\ << 242 >> \in Seq(Byte) /\ <<len, 0, 0, 0>> \in Seq(Byte) /\ <<type>> \in Seq(Byte)
        /\ << 1 >> \in Seq(Byte) /\ << 28 >> \in Seq(Byte)
    BY DEF Byte
  <2>5. h \in Seq(Seq(Byte)) /\ Len(h) = 6
    <3> DEFINE mem == <<len, 0, 0, 0>>
    <3>1. h = <<<<242>>, mem, <<type>>, << 1 >>, t, << 28 >>>> /\ mem \in Seq(Byte)
      BY <1>6, <2>4
    <3> HIDE DEF mem
    <3>2. <<<<242>>, mem, <<type>>, << 1 >>, t, << 28 >>>> \in Seq(Seq(Byte))
          /\ Len(<<<<242>>, mem, <<type>>, << 1 >>, t, << 28 >>>>) = 6
      BY <3>1, <1>7, <2>4, SixOf
    <3> QED BY <3>1, <3>2
  <2>6. ASSUME NEW i \in 1 .. 6
        PROVE  h[i] \in Seq(Byte) /\ Len(h[i]) = HeaderFields[i].width
    <3>1. CASE i = 5
      BY <1>7, <1>9, <3>1, HeaderShape
    <3>2. CASE i # 5
      <4>1. i = 1 \/ i = 2 \/ i = 3 \/ i = 4 \/ i = 6
        BY <3>2
      <4>2. h[i] = H[i]
        BY <4>1, <1>9, <2>3
      <4> QED BY <2>2, <4>2
    <3> QED BY <3>1, <3>2
  <2> QED BY <2>1, <2>5, <2>6 DEF IsHeader, Fits
<1>11. Number(h[2]) = len
  BY <1>9 DEF Number
<1> QED BY <1>8, <1>9, <1>10, <1>11, Zenon DEF CloudHeader, Declares

\* The answer's table has two fields, of nine bytes in all.
LEMMA ResShape ==
  /\ Len(ResFields) = 2 /\ DOMAIN ResFields = 1 .. 2
  /\ ResFields[1].width = 8 /\ ResFields[2].width = 1
  /\ ~ResFields[1].swap /\ ~ResFields[2].swap
  /\ Width(ResFields) = 9
<1> DEFINE f == ResFields
           W(k) == Width(SubSeq(f, 1, k))
<1>1. /\ Len(f) = 2 /\ f[1].width = 8 /\ f[2].width = 1 /\ ~f[1].swap /\ ~f[2].swap
  BY DEF ResFields, VehicleField, Raw
<1>2. f \in Seq(Field)
  BY TableTypes
<1> HIDE DEF f
<1>3. W(0) = 0
  <2>1. SubSeq(f, 1, 0) = <<>>
    BY <1>2
  <2> QED BY <2>1, WidthEmpty, Zenon
<1>4. \A k, j \in 0 .. 2 : j = k + 1 => W(j) = W(k) + f[j].width
  <2> SUFFICES ASSUME NEW k \in 0 .. 2, k + 1 \in 0 .. 2
               PROVE  W(k + 1) = W(k) + f[k + 1].width
    OBVIOUS
  <2>1. k \in Nat /\ k + 1 <= Len(f)
    BY <1>1
  <2> QED BY <1>2, <2>1, WidthPrefix
<1>5. SubSeq(f, 1, 2) = f /\ DOMAIN f = 1 .. 2
  BY <1>1, <1>2
<1> HIDE DEF W
<1>6. W(1) = 8
  BY <1>1, <1>3, <1>4
<1>7. W(2) = 9
  BY <1>1, <1>4, <1>6
<1> QED BY <1>1, <1>5, <1>7 DEF f, W

\* The constants are made of bytes.
LEMMA ConstantsAreBytes ==
  /\ \A t \in Stamps : t \in Seq(Byte) /\ Len(t) = 8
  /\ \A b \in Bodies :
        /\ b \in Seq(Seq(Byte)) /\ Len(b) = Len(ResFields)
        /\ \A i \in DOMAIN b : Len(b[i]) = ResFields[i].width
<1> DEFINE D == 0 .. 255
<1>1. D \subseteq Byte
  BY DEF Byte
<1>2. /\ \A t \in Stamps : t \in Seq(D) /\ Len(t) = 8
      /\ \A b \in Bodies :
            /\ b \in Seq(Seq(D)) /\ Len(b) = Len(ResFields)
            /\ \A i \in DOMAIN b : Len(b[i]) = ResFields[i].width
  BY FramingAssumption, Zenon DEF FramingAssumption
<1> HIDE DEF D
<1>3. Seq(D) \subseteq Seq(Byte)
  BY <1>1, SeqMonotonic
<1>4. Seq(Seq(D)) \subseteq Seq(Seq(Byte))
  <2> DEFINE A == Seq(D)
             B == Seq(Byte)
  <2>1. A \subseteq B
    BY <1>3
  <2> HIDE DEF A, B
  <2>2. Seq(A) \subseteq Seq(B)
    BY <2>1, SeqMonotonic
  <2> QED BY <2>2 DEF A, B
<1> QED BY <1>2, <1>3, <1>4, Zenon

\* What the peer sends is such a message.
LEMMA CloudIs ==
  ASSUME NEW m \in CloudMessages
  PROVE  Cloud(m)
<1> DEFINE w == Width(ResFields)
           P == Header(0, HEARTBEAT_RES, 1)
           R == Header(w, CLOUD2VEH_INH_RES, 1)
<1>1. w = 9
  BY ResShape
<1>2. HEARTBEAT_RES \in Byte /\ CLOUD2VEH_INH_RES \in Byte /\ 0 \in 0 .. 52 /\ w \in 0 .. 52
  BY <1>1 DEF Byte, HEARTBEAT_RES, CLOUD2VEH_INH_RES
<1>3. ASSUME NEW t \in Stamps PROVE Stamp(t)
  BY ConstantsAreBytes DEF Stamp
<1>4. ASSUME NEW b \in Bodies PROVE AnswerBody(b)
  <2>1. b \in Seq(Seq(Byte)) /\ Len(b) = Len(ResFields)
        /\ \A i \in DOMAIN b : Len(b[i]) = ResFields[i].width
    BY ConstantsAreBytes
  <2>2. DOMAIN ResFields = DOMAIN b
    BY <2>1, ResShape
  <2>3. \A i \in DOMAIN b : b[i] \in Seq(Byte)
    BY <2>1
  <2> QED BY <2>1, <2>2, <2>3, Zenon DEF AnswerBody, Fits
<1>5. (\E t \in Stamps : m = HeartbeatRes(t)) \/ (\E t \in Stamps, b \in Bodies : m = InhRes(t, b))
  BY DEF CloudMessages
<1>6. ASSUME NEW t \in Stamps, m = HeartbeatRes(t) PROVE Cloud(m)
  <2> DEFINE G == [P EXCEPT ![5] = t]
  <2>1. m = [NewHeader(HEARTBEAT_RES) EXCEPT !.hdr[5] = t]
        /\ NewHeader(HEARTBEAT_RES) = [Blank EXCEPT !.hdr = P]
    BY <1>6, Zenon DEF NewHeader, HeartbeatRes
  <2>2. CloudHeader(G) /\ G[3] = <<HEARTBEAT_RES>> /\ Number(G[2]) = 0
    <3>1. Declares(G, HEARTBEAT_RES, 0)
      BY <1>2, <1>3, CloudHeaderIs, Zenon
    <3> QED BY <3>1, Zenon DEF Declares
  <2> HIDE DEF P
  <2>3. m = [Blank EXCEPT !.hdr = G]
    BY <2>1 DEF Blank
  <2> HIDE DEF G
  <2>4. m.hdr = G /\ m.kind = "header"
    BY <2>3 DEF Blank
  <2>5. m = [Blank EXCEPT !.hdr = m.hdr]
    BY <2>3, <2>4
  <2>6. IsPlain(m)
    BY <2>2, <2>4, <2>5, Zenon DEF IsPlain, CloudHeader, DataLen
  <2> QED BY <2>2, <2>4, <2>6, Zenon DEF Cloud
<1>7. ASSUME NEW t \in Stamps, NEW b \in Bodies, m = InhRes(t, b) PROVE Cloud(m)
  <2> DEFINE G == [R EXCEPT ![5] = t]
             S == Sample(ResFields)
  <2>1. m = [NewRes EXCEPT !.hdr[5] = t, !.body = b]
        /\ NewRes = [Blank EXCEPT !.kind = "res", !.body = S, !.hdr = R]
    BY <1>7, Zenon DEF NewRes, InhRes
  <2>2. CloudHeader(G) /\ G[3] = <<CLOUD2VEH_INH_RES>> /\ Number(G[2]) = w
    <3>1. Declares(G, CLOUD2VEH_INH_RES, w)
      BY <1>2, <1>3, CloudHeaderIs, Zenon
    <3> QED BY <3>1, Zenon DEF Declares
  <2> HIDE DEF R, S
  <2>3. m = [Blank EXCEPT !.kind = "res", !.hdr = G, !.body = b]
    BY <2>1 DEF Blank
  <2> HIDE DEF G
  <2>4. m.hdr = G /\ m.kind = "res" /\ m.body = b
    BY <2>3 DEF Blank
  <2>5. m = [Blank EXCEPT !.kind = "res", !.hdr = m.hdr, !.body = m.body]
    BY <2>3, <2>4
  <2>6. IsRes(m)
    BY <1>4, <2>2, <2>4, <2>5, Zenon DEF IsRes, CloudHeader, DataLen
  <2> QED BY <2>2, <2>4, <2>6, Zenon DEF Cloud
<1> QED BY <1>5, <1>6, <1>7, Zenon

-----------------------------------------------------------------------------
(* The bytes of a message of the cloud *)

\* Swapping the bytes of a field adds none.
LEMMA InOrderIn ==
  ASSUME NEW S, NEW s \in Seq(S), NEW f
  PROVE  InOrder(f, s) \in Seq(S)
<1>1. Reverse(s) \in Seq(S)
  BY DEF Reverse
<1> QED BY <1>1 DEF InOrder

\* A prefix is made of the same elements.
LEMMA PrefixIn ==
  ASSUME NEW S, NEW s \in Seq(S), NEW k \in 0 .. Len(s)
  PROVE  SubSeq(s, 1, k) \in Seq(S) /\ Len(SubSeq(s, 1, k)) = k
  OBVIOUS

\* All bytes of a buffer from the a-th to the z-th are in a set.
AllIn(b, a, z, S) == \A j \in a .. z : b[j] \in S

\* Bytes that a buffer holds are there.
LEMMA HeldIn ==
  ASSUME NEW b, NEW S, NEW place \in Nat, NEW held \in Seq(S), Holds(b, place, held)
  PROVE  AllIn(b, place + 1, place + Len(held), S)
<1> SUFFICES ASSUME NEW j \in place + 1 .. place + Len(held)
             PROVE  b[j] \in S
  BY DEF AllIn
<1>1. j - place \in 1 .. Len(held) /\ place + (j - place) = j
  OBVIOUS
<1>2. b[place + (j - place)] = held[j - place]
  BY <1>1 DEF Holds
<1> QED BY <1>1, <1>2

\* Where the fields of a header begin.
LEMMA HeaderPlaces ==
  /\ Width(SubSeq(HeaderFields, 1, 0)) = 0 /\ Width(SubSeq(HeaderFields, 1, 1)) = 1
  /\ Width(SubSeq(HeaderFields, 1, 2)) = 5 /\ Width(SubSeq(HeaderFields, 1, 3)) = 6
  /\ Width(SubSeq(HeaderFields, 1, 4)) = 7 /\ Width(SubSeq(HeaderFields, 1, 5)) = 15
<1> DEFINE f == HeaderFields
           W(k) == Width(SubSeq(f, 1, k))
<1>1. /\ Len(f) = 6 /\ f \in Seq(Field)
      /\ f[1].width = 1 /\ f[4].width = 1 /\ f[5].width = 8
      /\ W(0) = 0 /\ W(2) = 5 /\ W(3) = 6
  BY HeaderShape, TableTypes
<1> HIDE DEF f
<1>2. \A k, j \in 0 .. 6 : j = k + 1 => W(j) = W(k) + f[j].width
  <2> SUFFICES ASSUME NEW k \in 0 .. 6, k + 1 \in 0 .. 6
               PROVE  W(k + 1) = W(k) + f[k + 1].width
    OBVIOUS
  <2>1. k \in Nat /\ k + 1 <= Len(f)
    BY <1>1
  <2> QED BY <1>1, <2>1, WidthPrefix
<1> HIDE DEF W
<1>3. W(1) = 1
  BY <1>1, <1>2
<1>4. W(4) = 7
  BY <1>1, <1>2
<1>5. W(5) = 15
  BY <1>1, <1>2, <1>4
<1> QED BY <1>1, <1>3, <1>4, <1>5 DEF f, W

\* The i-th field of a header is at its place among the header's bytes.
FieldIn(h, i, place) ==
  /\ Holds(Encode(HeaderFields, h), place, InOrder(HeaderFields[i], h[i]))
  /\ Len(InOrder(HeaderFields[i], h[i])) = HeaderFields[i].width

\* Every field of a header stands in its place.
LEMMA HeaderFieldIn ==
  ASSUME NEW h, IsHeader(h), NEW i \in 1 .. 6
  PROVE  FieldIn(h, i, Width(SubSeq(HeaderFields, 1, i - 1)))
<1> DEFINE e == Encode(HeaderFields, h)
           o == Width(SubSeq(HeaderFields, 1, i - 1))
           b == InOrder(HeaderFields[i], h[i])
<1>1. /\ HeaderFields \in Seq(Field) /\ Fits(HeaderFields, h) /\ Len(HeaderFields) = 6
  BY TableTypes, HeaderShape DEF IsHeader
<1>2. e \in Seq(Byte)
  BY HeaderBytes
<1>3. Holds(e, 0, e)
  <2> HIDE DEF e
  <2> QED BY <1>2 DEF Holds
<1>4. 0 \in Nat /\ i \in 1 .. Len(HeaderFields)
  BY <1>1
<1>5. Len(b) = HeaderFields[i].width /\ Holds(e, 0 + o, b) /\ 0 + o \in Nat
  BY <1>1, <1>2, <1>3, <1>4, FieldHeld, ZenonT(30)
<1>6. o \in Nat
  <2>1. i - 1 \in 0 .. Len(HeaderFields)
    BY <1>1
  <2>2. SubSeq(HeaderFields, 1, i - 1) \in Seq(Field)
    BY <1>1, <2>1, PrefixIn, Zenon
  <2> QED BY <2>2, WidthType
<1>7. 0 + o = o
  <2> HIDE DEF o
  <2> QED BY <1>6
<1> QED BY <1>5, <1>7, Zenon DEF FieldIn

\* All six fields of a header are where the table has them.
HeaderHolds(h) ==
  /\ FieldIn(h, 1, 0) /\ FieldIn(h, 2, 1) /\ FieldIn(h, 3, 5)
  /\ FieldIn(h, 4, 6) /\ FieldIn(h, 5, 7) /\ FieldIn(h, 6, 15)

\* All six of them.
LEMMA HeaderFieldsIn ==
  ASSUME NEW h, IsHeader(h) PROVE HeaderHolds(h)
<1>1. ASSUME NEW i \in 1 .. 6, NEW k, k = i - 1, NEW place, Width(SubSeq(HeaderFields, 1, k)) = place
      PROVE  FieldIn(h, i, place)
  BY <1>1, HeaderFieldIn
<1>2. FieldIn(h, 1, 0)
  BY <1>1, HeaderPlaces
<1>3. FieldIn(h, 2, 1)
  BY <1>1, HeaderPlaces
<1>4. FieldIn(h, 3, 5)
  BY <1>1, HeaderPlaces
<1>5. FieldIn(h, 4, 6)
  BY <1>1, HeaderPlaces
<1>6. FieldIn(h, 5, 7)
  BY <1>1, HeaderPlaces
<1>7. FieldIn(h, 6, 15)
  BY <1>1, HeaderPlaces
<1> QED BY <1>2, <1>3, <1>4, <1>5, <1>6, <1>7, Zenon DEF HeaderHolds

\* Before the timestamp only the first byte of a header is the identifier, and only
\* the type, the sixth, is the type of an answer.
HeaderQuiet(e, type) ==
  /\ e \in Seq(Byte) /\ Len(e) = 16 /\ e[1] = 242 /\ e[6] = type
  /\ \A j \in 2 .. 7 : j # 6 => e[j] \in Quiet

\* A header that the peer sends is one.
LEMMA CloudHeaderQuiet ==
  ASSUME NEW h, CloudHeader(h), NEW type \in Byte, h[3] = <<type>>
  PROVE  HeaderQuiet(Encode(HeaderFields, h), type)
<1> DEFINE e == Encode(HeaderFields, h)
           b(i) == InOrder(HeaderFields[i], h[i])
<1>1. IsHeader(h)
  BY DEF CloudHeader
<1>2. /\ Holds(e, 0, b(1)) /\ Holds(e, 1, b(2)) /\ Holds(e, 5, b(3)) /\ Holds(e, 6, b(4))
      /\ Len(b(2)) = 4
  <2>1. HeaderHolds(h)
    BY <1>1, HeaderFieldsIn
  <2> QED BY <2>1, HeaderShape, Zenon DEF HeaderHolds, FieldIn
<1>3. b(1) = << 242 >> /\ b(3) = <<type>> /\ b(4) = << 1 >>
  BY HeaderShape DEF CloudHeader, InOrder
<1>4. b(2) \in Seq(Quiet)
  BY InOrderIn DEF CloudHeader
<1>5. e \in Seq(Byte) /\ Len(e) = 16
  BY <1>1, HeaderBytes
<1> HIDE DEF e, b
<1>6. e[1] = 242 /\ e[6] = type /\ e[7] = 1
  BY <1>2, <1>3, SMTT(30) DEF Holds
<1>7. 1 \in Quiet
  BY DEF Quiet, Byte, CLOUD2VEH_INH_RES
<1>8. \A j \in 2 .. 5 : e[j] \in Quiet
  <2>1. AllIn(e, 1 + 1, 1 + 4, Quiet)
    BY <1>2, <1>4, HeldIn, Zenon
  <2>2. 1 + 1 = 2 /\ 1 + 4 = 5
    OBVIOUS
  <2> QED BY <2>1, <2>2, Zenon DEF AllIn
<1>9. \A j \in 2 .. 7 : j # 6 => e[j] \in Quiet
  <2> SUFFICES ASSUME NEW j \in 2 .. 7, j # 6 PROVE e[j] \in Quiet
    OBVIOUS
  <2>1. j \in 2 .. 5 \/ j = 7
    OBVIOUS
  <2> QED BY <2>1, <1>6, <1>7, <1>8
<1> QED BY <1>5, <1>6, <1>9, Zenon DEF HeaderQuiet, e

\* What the bytes of a message of the cloud tell of it, and what those before its
\* data are.
CloudShape(m, b) ==
  /\ b \in Seq(Byte) /\ Len(b) \in Nat /\ Len(b) >= 16 /\ Len(b) = PackSize(m)
  /\ Holds(b, 0, Encode(HeaderFields, m.hdr))
  /\ \/ m.kind = "header" /\ b[6] = HEARTBEAT_RES
     \/ m.kind = "res" /\ b[6] = CLOUD2VEH_INH_RES
  /\ \A j \in 1 .. 7 : /\ b[j] = 242 => j = 1
                       /\ b[j] = CLOUD2VEH_INH_RES => j = 6

\* One sequence behind another.
Joined(c, a, b) ==
  /\ Len(a) \in Nat /\ Len(b) \in Nat /\ Len(c) = Len(a) + Len(b)
  /\ \A k \in 1 .. Len(a) : c[k] = a[k]
  /\ \A k \in Len(a) + 1 .. Len(a) + Len(b) : c[k] = b[k - Len(a)]

\* Two sequences, one behind the other.
LEMMA JoinedAre ==
  ASSUME NEW S, NEW a \in Seq(S), NEW b \in Seq(S)
  PROVE  a \o b \in Seq(S) /\ Joined(a \o b, a, b)
<1> DEFINE c == a \o b
<1>1. /\ c \in Seq(S) /\ Len(c) = Len(a) + Len(b)
      /\ \A k \in 1 .. Len(a) : c[k] = a[k]
      /\ \A k \in 1 .. Len(b) : c[Len(a) + k] = b[k]
  OBVIOUS
<1>2. Len(a) \in Nat /\ Len(b) \in Nat
  OBVIOUS
<1> HIDE DEF c
<1>3. ASSUME NEW k \in Len(a) + 1 .. Len(a) + Len(b) PROVE c[k] = b[k - Len(a)]
  <2>1. k - Len(a) \in 1 .. Len(b) /\ Len(a) + (k - Len(a)) = k
    BY <1>2
  <2> QED BY <1>1, <2>1
<1>4. Joined(c, a, b)
  BY <1>1, <1>2, <1>3 DEF Joined
<1> QED BY <1>1, <1>4, Zenon DEF c

\* Every message the peer sends has these bytes.
LEMMA CloudBytes ==
  ASSUME NEW m, Cloud(m) PROVE CloudShape(m, BytesOf(m))
<1> DEFINE e == Encode(HeaderFields, m.hdr)
<1>1. CloudHeader(m.hdr) /\ IsHeader(m.hdr)
  BY Zenon DEF Cloud, CloudHeader
<1>2. e \in Seq(Byte) /\ Len(e) = 16
  BY <1>1, HeaderBytes
<1>3. Holds(e, 0, e)
  <2> HIDE DEF e
  <2> QED BY <1>2 DEF Holds
<1>4. 242 \notin Quiet /\ CLOUD2VEH_INH_RES \notin Quiet /\ CLOUD2VEH_INH_RES = 53
      /\ HEARTBEAT_RES = 13 /\ HEARTBEAT_RES \in Byte /\ CLOUD2VEH_INH_RES \in Byte
  BY DEF Quiet, Byte, CLOUD2VEH_INH_RES, HEARTBEAT_RES
<1>5. ASSUME NEW type \in {HEARTBEAT_RES, CLOUD2VEH_INH_RES}, HeaderQuiet(e, type),
             NEW j \in 1 .. 7
      PROVE  (e[j] = 242 => j = 1) /\ (e[j] = CLOUD2VEH_INH_RES => j = 6)
  <2> HIDE DEF e
  <2>1. j = 1 \/ j = 6 \/ (j \in 2 .. 7 /\ j # 6)
    OBVIOUS
  <2>2. CASE j = 1
    BY <1>4, <1>5, <2>2 DEF HeaderQuiet
  <2>3. CASE j = 6
    BY <1>4, <1>5, <2>3 DEF HeaderQuiet
  <2>4. CASE j \in 2 .. 7 /\ j # 6
    BY <1>4, <1>5, <2>4 DEF HeaderQuiet
  <2> QED BY <2>1, <2>2, <2>3, <2>4
<1>6. ASSUME IsPlain(m), m.kind = "header", m.hdr[3] = <<HEARTBEAT_RES>>
      PROVE  CloudShape(m, BytesOf(m))
  <2>1. BytesOf(m) = e /\ PackSize(m) = 16
    BY <1>6, PlainToBytes, Zenon DEF BytesOf
  <2>2. HeaderQuiet(e, HEARTBEAT_RES)
    BY <1>1, <1>4, <1>6, CloudHeaderQuiet
  <2>3. e[6] = HEARTBEAT_RES
    BY <2>2, Zenon DEF HeaderQuiet
  <2>4. \A j \in 1 .. 7 : (e[j] = 242 => j = 1) /\ (e[j] = CLOUD2VEH_INH_RES => j = 6)
    BY <1>5, <2>2, Zenon
  <2> HIDE DEF e
  <2>5. Len(e) \in Nat /\ Len(e) >= 16 /\ Len(e) = PackSize(m)
    BY <1>2, <2>1
  <2>6. CloudShape(m, e)
    BY <1>2, <1>3, <1>6, <2>3, <2>4, <2>5, Zenon DEF CloudShape, e
  <2> QED BY <2>1, <2>6, Zenon
<1>7. ASSUME IsRes(m), m.kind = "res"
      PROVE  CloudShape(m, BytesOf(m))
  <2> DEFINE r == Encode(ResFields, m.body)
             b == e \o r
  <2>1. BytesOf(m) = b /\ PackSize(m) = 16 + Len(r) /\ r \in Seq(Byte)
    BY <1>7, ResToBytes, Zenon DEF BytesOf
  <2>2. HeaderQuiet(e, CLOUD2VEH_INH_RES)
    <3>1. m.hdr[3] = <<CLOUD2VEH_INH_RES>>
      BY <1>7, Zenon DEF IsRes
    <3> QED BY <1>1, <1>4, <3>1, CloudHeaderQuiet
  <2>3. \A j \in 1 .. 7 : (e[j] = 242 => j = 1) /\ (e[j] = CLOUD2VEH_INH_RES => j = 6)
    BY <1>5, <2>2, Zenon
  <2> HIDE DEF e, r
  <2>4. b \in Seq(Byte) /\ Len(b) = 16 + Len(r) /\ Len(r) \in Nat
        /\ \A j \in 1 .. 16 : b[j] = e[j]
    <3>1. b \in Seq(Byte) /\ Joined(b, e, r)
      BY <1>2, <2>1, JoinedAre
    <3> HIDE DEF b
    <3> QED BY <1>2, <3>1, Zenon DEF Joined
  <2> HIDE DEF b
  <2>5. Holds(b, 0, e)
    BY <1>2, <2>4, SMTT(30) DEF Holds
  <2>6. b[6] = CLOUD2VEH_INH_RES
    BY <2>2, <2>4 DEF HeaderQuiet
  <2>7. \A j \in 1 .. 7 : (b[j] = 242 => j = 1) /\ (b[j] = CLOUD2VEH_INH_RES => j = 6)
    BY <2>3, <2>4
  <2>8. Len(b) \in Nat /\ Len(b) >= 16 /\ Len(b) = PackSize(m)
    BY <2>1, <2>4 DEF b
  <2>9. CloudShape(m, b)
    BY <1>7, <2>4, <2>5, <2>6, <2>7, <2>8, Zenon DEF CloudShape, e
  <2> QED BY <2>1, <2>9, Zenon
<1> QED BY <1>6, <1>7, Zenon DEF Cloud

-----------------------------------------------------------------------------
(* The stream *)

\* A sequence of messages of the cloud, and their bytes.
Sent(s) == s \in Seq(CloudMessages)
\* The bytes of each.
BytesSeq(s) == [i \in 1 .. Len(s) |-> BytesOf(s[i])]

\* The messages sent and their bytes.
LEMMA SentIs ==
  ASSUME NEW s, Sent(s)
  PROVE  /\ Len(s) \in Nat /\ DOMAIN s = 1 .. Len(s)
         /\ \A i \in 1 .. Len(s) : Cloud(s[i]) /\ CloudShape(s[i], BytesOf(s[i]))
         /\ BytesSeq(s) \in Seq(Seq(Byte)) /\ Len(BytesSeq(s)) = Len(s)
<1>1. Len(s) \in Nat /\ DOMAIN s = 1 .. Len(s)
  BY DEF Sent
<1>2. ASSUME NEW i \in 1 .. Len(s) PROVE Cloud(s[i]) /\ CloudShape(s[i], BytesOf(s[i]))
  <2>1. s[i] \in CloudMessages
    BY DEF Sent
  <2> QED BY <2>1, CloudIs, CloudBytes
<1>3. \A i \in 1 .. Len(s) : BytesOf(s[i]) \in Seq(Byte)
  BY <1>2, Zenon DEF CloudShape
<1>4. BytesSeq(s) \in Seq(Seq(Byte)) /\ Len(BytesSeq(s)) = Len(s)
  BY <1>1, <1>3 DEF BytesSeq
<1> QED BY <1>1, <1>2, <1>4

\* The bytes of the first n messages sent.
LEMMA FirstIs ==
  ASSUME Sent(stream), NEW n \in 0 .. Len(stream)
  PROVE  /\ First(n) = FlattenSeq(SubSeq(BytesSeq(stream), 1, n))
         /\ First(n) \in Seq(Byte) /\ Len(First(n)) \in Nat
<1> DEFINE s == BytesSeq(stream)
<1>1. s \in Seq(Seq(Byte)) /\ Len(s) = Len(stream) /\ Len(stream) \in Nat
  BY SentIs
<1>2. [i \in 1 .. n |-> BytesOf(stream[i])] = SubSeq(s, 1, n)
  <2>1. SubSeq(s, 1, n) = [i \in 1 .. n |-> s[i]]
    <3> HIDE DEF s
    <3> QED BY <1>1
  <2>2. \A i \in 1 .. n : s[i] = BytesOf(stream[i])
    BY <1>1 DEF BytesSeq
  <2> HIDE DEF s
  <2> QED BY <2>1, <2>2
<1>3. SubSeq(s, 1, n) \in Seq(Seq(Byte))
  <2> HIDE DEF s
  <2>1. n \in 0 .. Len(s)
    BY <1>1
  <2> QED BY <1>1, <2>1, PrefixIn
<1>4. First(n) = FlattenSeq(SubSeq(s, 1, n))
  BY <1>2, Zenon DEF First
<1>5. First(n) \in Seq(Byte)
  BY <1>3, <1>4, FlattenType
<1> QED BY <1>4, <1>5

\* Every message is in the stream, from its beginning on.
MessageIn(i) ==
  /\ Begin(i) \in Nat
  /\ Holds(Line, Begin(i), BytesOf(stream[i]))

\* See MessageIn.
LEMMA MessageHeld ==
  ASSUME Sent(stream), NEW i \in 1 .. Len(stream)
  PROVE  MessageIn(i)
<1> DEFINE s == BytesSeq(stream)
           n == Len(stream)
<1>1. s \in Seq(Seq(Byte)) /\ Len(s) = n /\ n \in Nat
  BY SentIs
<1>2. Line = FlattenSeq(SubSeq(s, 1, n)) /\ Line \in Seq(Byte)
  <2>1. n \in 0 .. Len(stream)
    BY <1>1
  <2> QED BY <2>1, FirstIs, Zenon DEF Line
<1>3. i - 1 \in 0 .. Len(stream)
  BY <1>1
<1>4. Begin(i) = Len(FlattenSeq(SubSeq(s, 1, i - 1))) /\ Begin(i) \in Nat
  BY <1>3, FirstIs, Zenon DEF Begin
<1>5. s[i] = BytesOf(stream[i])
  BY DEF BytesSeq
<1>6. SubSeq(s, 1, n) = s
  <2> HIDE DEF s
  <2> QED BY <1>1, SubSeqFull
<1> HIDE DEF s, n
<1>7. Holds(Line, 0, FlattenSeq(s))
  <2>1. Line = FlattenSeq(s)
    BY <1>2, <1>6
  <2>2. Holds(Line, 0, Line)
    BY <1>2 DEF Holds
  <2> QED BY <2>1, <2>2
<1>8. i \in 1 .. Len(s) /\ 0 \in Nat
  BY <1>1 DEF n
<1>9. Holds(Line, 0 + Len(FlattenSeq(SubSeq(s, 1, i - 1))), s[i])
  BY <1>1, <1>2, <1>7, <1>8, FlattenHeld
<1>10. 0 + Begin(i) = Begin(i)
  BY <1>4
<1> QED BY <1>4, <1>5, <1>9, <1>10, Zenon DEF MessageIn

\* Every byte of the stream belongs to a message.
At(i, x) ==
  /\ x - Begin(i) \in 1 .. Len(BytesOf(stream[i]))
  /\ Line[x] = BytesOf(stream[i])[x - Begin(i)]

\* Every byte of a flattened sequence belongs to an element.
FlatAt(s, k, x) ==
  \E i \in 1 .. k :
     LET o == x - Len(FlattenSeq(SubSeq(s, 1, i - 1)))
     IN  o \in 1 .. Len(s[i]) /\ FlattenSeq(SubSeq(s, 1, k))[x] = s[i][o]

\* By induction over the prefixes.
LEMMA FlatLocated ==
  ASSUME NEW s \in Seq(Seq(Byte)), NEW k \in 0 .. Len(s),
         NEW x \in 1 .. Len(FlattenSeq(SubSeq(s, 1, k)))
  PROVE  FlatAt(s, k, x)
<1> DEFINE Part(j) == FlattenSeq(SubSeq(s, 1, j))
           P(j) == \A y \in 1 .. Len(Part(j)) : FlatAt(s, j, y)
           T == {j \in Nat : j <= Len(s) => P(j)}
<1>1. Len(s) \in Nat
  OBVIOUS
<1>2. P(0)
  <2>1. SubSeq(s, 1, 0) = <<>>
    OBVIOUS
  <2>2. Part(0) = <<>>
    BY <2>1, FlattenEmpty, Zenon
  <2>3. Len(Part(0)) = 0
    BY <2>2
  <2> HIDE DEF Part
  <2> QED BY <2>3
<1>3. ASSUME NEW j \in Nat, j + 1 <= Len(s), P(j) PROVE P(j + 1)
  <2> DEFINE z == j + 1
             e == s[j + 1]
  <2>1. SubSeq(s, 1, j) \in Seq(Seq(Byte)) /\ e \in Seq(Byte)
        /\ SubSeq(s, 1, z) = Append(SubSeq(s, 1, j), e)
    BY <1>3, PrefixAppend
  <2>2. Part(z) = Part(j) \o e
    BY <2>1, FlattenAppend, Zenon
  <2>3. Part(j) \in Seq(Byte)
    BY <2>1, FlattenType
  <2>4. Joined(Part(z), Part(j), e)
    <3>1. Joined(Part(j) \o e, Part(j), e)
      BY <2>1, <2>3, JoinedAre, Zenon
    <3> QED BY <2>2, <3>1, Zenon
  <2>5. z \in 1 .. z /\ z - 1 = j /\ j \in Nat /\ (\A i \in 1 .. j : i \in 1 .. z)
    OBVIOUS
  <2> HIDE DEF e, z
  <2> SUFFICES ASSUME NEW y \in 1 .. Len(Part(z)) PROVE FlatAt(s, z, y)
    BY DEF z
  <2>6. CASE y \in 1 .. Len(Part(j))
    <3>1. FlatAt(s, j, y)
      BY <1>3, <2>6, Zenon
    <3>2. Part(z)[y] = Part(j)[y]
      BY <2>4, <2>6, Zenon DEF Joined
    <3>3. PICK i \in 1 .. j :
            y - Len(FlattenSeq(SubSeq(s, 1, i - 1))) \in 1 .. Len(s[i])
            /\ Part(j)[y] = s[i][y - Len(FlattenSeq(SubSeq(s, 1, i - 1)))]
      BY <3>1, Zenon DEF FlatAt
    <3> QED BY <2>5, <3>2, <3>3, Zenon DEF FlatAt
  <2>7. CASE y \in Len(Part(j)) + 1 .. Len(Part(j)) + Len(e)
    <3>1. Part(z)[y] = e[y - Len(Part(j))]
      BY <2>4, <2>7, Zenon DEF Joined
    <3>2. y - Len(Part(j)) \in 1 .. Len(e)
      <4> HIDE DEF Part
      <4> QED BY <2>4, <2>7 DEF Joined
    <3>3. e = s[z]
      BY DEF e, z
    <3> QED BY <2>5, <3>1, <3>2, <3>3, Zenon DEF FlatAt
  <2> HIDE DEF Part
  <2> QED BY <2>4, <2>6, <2>7 DEF Joined
<1> HIDE DEF P
<1>4. T = Nat
  <2>1. 0 \in T
    BY <1>2
  <2>2. ASSUME NEW j \in T PROVE j + 1 \in T
    BY <1>1, <1>3
  <2> HIDE DEF T
  <2>3. T \in SUBSET Nat
    BY DEF T
  <2> QED BY <2>1, <2>2, <2>3, Induct
<1>5. P(k)
  BY <1>1, <1>4, SMTT(30)
<1> QED BY <1>5, Zenon DEF P

\* Every byte of the stream is one of a message's.
LEMMA Located ==
  ASSUME Sent(stream), NEW x \in 1 .. Len(Line)
  PROVE  \E i \in 1 .. Len(stream) : At(i, x)
<1> DEFINE s == BytesSeq(stream)
           n == Len(stream)
<1>1. s \in Seq(Seq(Byte)) /\ Len(s) = n /\ n \in Nat
  BY SentIs
<1>2. Line = FlattenSeq(SubSeq(s, 1, n))
  <2>1. n \in 0 .. Len(stream)
    BY <1>1
  <2> QED BY <2>1, FirstIs, Zenon DEF Line
<1>3. \A i \in 1 .. n : Begin(i) = Len(FlattenSeq(SubSeq(s, 1, i - 1))) /\ s[i] = BytesOf(stream[i])
  <2> TAKE i \in 1 .. n
  <2>1. i - 1 \in 0 .. Len(stream)
    BY <1>1
  <2>2. Begin(i) = Len(FlattenSeq(SubSeq(s, 1, i - 1)))
    BY <2>1, FirstIs, Zenon DEF Begin
  <2>3. s[i] = BytesOf(stream[i])
    BY DEF BytesSeq
  <2> QED BY <2>2, <2>3
<1> HIDE DEF s, n
<1>4. FlatAt(s, n, x)
  <2>1. n \in 0 .. Len(s)
    BY <1>1
  <2>2. x \in 1 .. Len(FlattenSeq(SubSeq(s, 1, n)))
    BY <1>2
  <2> QED BY <1>1, <2>1, <2>2, FlatLocated
<1>5. PICK i \in 1 .. n :
        x - Len(FlattenSeq(SubSeq(s, 1, i - 1))) \in 1 .. Len(s[i])
        /\ FlattenSeq(SubSeq(s, 1, n))[x] = s[i][x - Len(FlattenSeq(SubSeq(s, 1, i - 1)))]
  BY <1>4, Zenon DEF FlatAt
<1>6. At(i, x)
  BY <1>2, <1>3, <1>5, Zenon DEF At
<1> QED BY <1>6, Zenon DEF n

-----------------------------------------------------------------------------
(* What unpack() makes of any bytes                                        *)

\* A message read has this kind, and what ReadHeader made of the header.
ReadAs(g, hdr, kinds) == g.hdr = hdr /\ g.kind \in kinds

\* from_bytes of a Veh2CloudInh keeps the header and the kind.
LEMMA InhReadAs ==
  ASSUME NEW bytes, NEW stale, NEW size
  PROVE  ReadAs(ReadInh(bytes, stale, size), ReadHeader(bytes, stale, size), {"inh"})
<1> DEFINE sw   == ReadText(bytes, stale, HeaderLen + Width(VehicleField), TRUE)
           hw   == ReadText(bytes, stale, sw.next, TRUE)
           ad   == ReadText(bytes, stale, hw.next, TRUE)
           user == ReadText(bytes, stale, ad.next + Width(InhFields), FALSE)
           H    == ReadHeader(bytes, stale, size)
           got0  == [Blank EXCEPT !.kind = "inh", !.hdr = H]
           B    == Decode(VehicleField, bytes, stale, HeaderLen)
                      \o Decode(InhFields, bytes, stale, ad.next)
           s    == sw.text
           h    == hw.text
           a    == ad.text
           u    == user.text
           C    == Truncated(size, HeaderLen, Width(VehicleField \o InhFields) + 4)
           g    == ReadInh(bytes, stale, size)
<1>1. g = IF C THEN got0
          ELSE [got0 EXCEPT !.body = B, !.sw = s, !.hw = h, !.ad = a, !.user = u]
  BY Zenon DEF ReadInh
<1> HIDE DEF H, B, s, h, a, u, C, g
<1>2. g.hdr = H /\ g.kind = "inh"
  BY <1>1 DEF Blank
<1> QED BY <1>2, Zenon DEF ReadAs, g, H

\* from_bytes of a Veh2CloudState keeps the header and the kind.
LEMMA StateReadAs ==
  ASSUME NEW bytes, NEW stale, NEW size
  PROVE  /\ ReadAs(ReadState(bytes, stale, size), ReadHeader(bytes, stale, size), {"state"})
         /\ DOMAIN ReadState(bytes, stale, size) = DOMAIN Blank
<1> DEFINE place == HeaderLen + Width(StateFields)
           n   == Slice(bytes, stale, place, 1)[1]
           H   == ReadHeader(bytes, stale, size)
           got0 == [Blank EXCEPT !.kind = "state", !.hdr = H]
           B   == Decode(StateFields, bytes, stale, HeaderLen)
           p   == [i \in 1 .. n |->
                     Decode(PointFields, bytes, stale, place + 1 + (i - 1) * Width(PointFields))]
           C   == Truncated(size, HeaderLen, Width(StateFields) + 1)
           g   == ReadState(bytes, stale, size)
<1>1. g = IF C THEN got0 ELSE [got0 EXCEPT !.body = B, !.pass = p]
  BY Zenon DEF ReadState
<1> HIDE DEF H, B, p, C, g
<1>2. g.hdr = H /\ g.kind = "state"
  BY <1>1 DEF Blank
<1>3. DOMAIN g = DOMAIN Blank
  BY <1>1 DEF Blank
<1> QED BY <1>2, <1>3, Zenon DEF ReadAs, g, H

\* from_bytes of a Veh2CloudState2 keeps the header, and the kind unless it fails.
LEMMA State2ReadAs ==
  ASSUME NEW bytes, NEW stale, NEW size
  PROVE  ReadAs(ReadState2(bytes, stale, size), ReadHeader(bytes, stale, size),
                {"state2", "undefined"})
<1> DEFINE st   == ReadState(bytes, stale, size)
           base == [st EXCEPT !.kind = "state2"]
           place  == IF base.body = <<>> THEN HeaderLen
                   ELSE HeaderLen + Width(StateFields) + 1 + Len(base.pass) * Width(PointFields)
           nofs == place + Width(State2Fields)
           n    == Slice(bytes, stale, nofs, 1)[1]
           user == ReadText(bytes, stale, nofs + 1 + Width(DoorFields), FALSE)
           X    == Decode(State2Fields, bytes, stale, place)
           D    == Decode(DoorFields, bytes, stale, nofs + 1)
           u    == user.text
           C    == Truncated(size, place, Ext2Len(Blank))
           N    == n > 0
           H    == ReadHeader(bytes, stale, size)
           g    == ReadState2(bytes, stale, size)
<1>1. g = CASE C -> base
            [] ~C /\ N -> [base EXCEPT !.kind = "undefined"]
            [] OTHER -> [base EXCEPT !.ext = X, !.doors = D, !.user = u]
  BY Zenon DEF ReadState2
<1>2. st.hdr = H /\ DOMAIN st = DOMAIN Blank
  BY StateReadAs, Zenon DEF ReadAs
<1> HIDE DEF st, X, D, u, C, N, H, g
<1>3. base.hdr = H /\ base.kind = "state2" /\ DOMAIN base = DOMAIN st
  BY <1>2 DEF Blank
<1> HIDE DEF base
<1>4. g = base \/ g = [base EXCEPT !.kind = "undefined"]
      \/ g = [base EXCEPT !.ext = X, !.doors = D, !.user = u]
  BY <1>1, Zenon
<1>5. DOMAIN base = DOMAIN Blank
  BY <1>2, <1>3
<1>6. g.hdr = H /\ g.kind \in {"state2", "undefined"}
  <2>1. CASE g = base
    BY <1>3, <2>1
  <2>2. CASE g = [base EXCEPT !.kind = "undefined"]
    BY <1>3, <1>5, <2>2 DEF Blank
  <2>3. CASE g = [base EXCEPT !.ext = X, !.doors = D, !.user = u]
    BY <1>3, <1>5, <2>3 DEF Blank
  <2> QED BY <1>4, <2>1, <2>2, <2>3
<1> QED BY <1>6, Zenon DEF ReadAs, g, H

\* from_bytes of a Cloud2VehInhRes keeps the header and the kind.
LEMMA ResReadAs ==
  ASSUME NEW bytes, NEW stale, NEW size, NEW g \in ReadRes(bytes, stale, size)
  PROVE  ReadAs(g, ReadHeader(bytes, stale, size), {"res"})
<1> DEFINE H   == ReadHeader(bytes, stale, size)
           got0 == [Blank EXCEPT !.kind = "res", !.hdr = H]
           Y   == Decode(ResFields, bytes, stale, 0)
           Z   == Decode(ResFields, bytes, stale, HeaderLen)
           A   == got0.hdr = <<>>
           C   == got0.hdr # <<>> /\ TooShort(size, HeaderLen, DataLen(got0))
<1>1. ReadRes(bytes, stale, size) = CASE A -> {got0, [got0 EXCEPT !.body = Y]}
                                    [] C -> {got0}
                                    [] OTHER -> {[got0 EXCEPT !.body = Z]}
  BY Zenon DEF ReadRes
<1> HIDE DEF H, Y, Z, A, C
<1>2. g = got0 \/ g = [got0 EXCEPT !.body = Y] \/ g = [got0 EXCEPT !.body = Z]
  BY <1>1
<1>3. g.hdr = H /\ g.kind = "res"
  BY <1>2 DEF Blank
<1> QED BY <1>3, Zenon DEF ReadAs, H

\* What the caller of unpack() learns: an identifier came first, the header is what
\* could be read of it, and the kind is that of the type.
Tells(g, bytes, stale, size) ==
  /\ g # Nothing => /\ g.hdr = ReadHeader(bytes, stale, size)
                    /\ Slice(bytes, stale, 0, 1)[1] = 242
  /\ g # Nothing /\ Slice(bytes, stale, 5, 1)[1] = HEARTBEAT_RES => g.kind = "header"
  /\ g # Nothing /\ Slice(bytes, stale, 5, 1)[1] = CLOUD2VEH_INH_RES => g.kind = "res"
  /\ g.kind = "res" => Slice(bytes, stale, 5, 1)[1] = CLOUD2VEH_INH_RES

\* See Tells.
LEMMA UnpackTells ==
  ASSUME NEW bytes, NEW stale, NEW size, NEW g \in Unpack(bytes, stale, size)
  PROVE  Tells(g, bytes, stale, size)
<1> DEFINE H == ReadHeader(bytes, stale, size)
           id == Slice(bytes, stale, 0, 1)[1]
           type == Slice(bytes, stale, 5, 1)[1]
           version == Slice(bytes, stale, 6, 1)[1]
           P == [Blank EXCEPT !.hdr = H]
           I == ReadInh(bytes, stale, size)
           R == ReadRes(bytes, stale, size)
           S == ReadState(bytes, stale, size)
           X == ReadState2(bytes, stale, size)
           V(v) == type = VEH2CLOUD_STATE /\ version = v
           B == size = 0 \/ id # 242
<1>1. Unpack(bytes, stale, size) =
        CASE B -> {Nothing}
          [] OTHER -> CASE type \in {HEARTBEAT, HEARTBEAT_RES} -> {P}
                        [] type = VEH2CLOUD_INH -> {I}
                        [] type = CLOUD2VEH_INH_RES -> R
                        [] V(1) -> {S}
                        [] V(2) -> {X}
                        [] OTHER -> {Nothing}
  BY Zenon DEF Unpack
<1>2. I.hdr = H /\ I.kind = "inh"
  BY InhReadAs, Zenon DEF ReadAs
<1>3. S.hdr = H /\ S.kind = "state"
  BY StateReadAs, Zenon DEF ReadAs
<1>4. X.hdr = H /\ X.kind \in {"state2", "undefined"}
  BY State2ReadAs, Zenon DEF ReadAs
<1>5. g \in R => g.hdr = H /\ g.kind = "res"
  BY ResReadAs, Zenon DEF ReadAs
<1>6. Nothing.hdr = <<>> /\ Nothing.kind = "nothing"
  BY DEF Nothing, Blank
<1> HIDE DEF H, id, type, version, I, R, S, X, V
<1>7. P.hdr = H /\ P.kind = "header"
  BY DEF Blank
<1> HIDE DEF P, B
<1>8. \/ g = Nothing
      \/ ~B /\ g = P /\ type # CLOUD2VEH_INH_RES
      \/ ~B /\ g \in {I, S, X} /\ type # HEARTBEAT_RES /\ type # CLOUD2VEH_INH_RES
      \/ ~B /\ type = CLOUD2VEH_INH_RES /\ type # HEARTBEAT_RES /\ g \in R
  BY <1>1 DEF HEARTBEAT, HEARTBEAT_RES, VEH2CLOUD_INH, CLOUD2VEH_INH_RES, VEH2CLOUD_STATE, V
<1>9. g # Nothing => g.hdr = H /\ id = 242
  BY <1>2, <1>3, <1>4, <1>5, <1>7, <1>8, Zenon DEF B
<1>10. g.kind = "res" => type = CLOUD2VEH_INH_RES
  BY <1>2, <1>3, <1>4, <1>5, <1>6, <1>7, <1>8
<1>11. g # Nothing /\ type = HEARTBEAT_RES => g.kind = "header"
  BY <1>7, <1>8
<1>12. g # Nothing /\ type = CLOUD2VEH_INH_RES => g.kind = "res"
  BY <1>5, <1>8, Zenon
<1> QED BY <1>9, <1>10, <1>11, <1>12, Zenon DEF Tells, H, id, type

-----------------------------------------------------------------------------
(* One recv *)

\* What a buffer holds after n bytes arrived: those, and behind them what it held.
Arrived(b, n) ==
  /\ b \in Seq(Byte)
  /\ \A k \in 1 .. n : k \in 1 .. Len(b) /\ b[k] = Line[off + k]
  /\ \A k \in 1 .. Len(b) : k > n => k \in 1 .. Len(buf) /\ b[k] = buf[k]
  /\ \A k \in 1 .. Len(buf) : k > n => k \in 1 .. Len(b)

\* A sequence without its first n elements.
LEMMA Rest ==
  ASSUME NEW S, NEW s \in Seq(S), NEW n \in Nat
  PROVE  /\ SubSeq(s, n + 1, Len(s)) \in Seq(S)
         /\ \A k \in 1 .. Len(SubSeq(s, n + 1, Len(s))) :
               n + k \in 1 .. Len(s) /\ SubSeq(s, n + 1, Len(s))[k] = s[n + k]
<1> DEFINE r == SubSeq(s, n + 1, Len(s))
<1>1. CASE n <= Len(s)
  <2>1. n + 1 \in 1 .. Len(s) + 1 /\ Len(s) \in n .. Len(s)
    BY <1>1
  <2> QED BY <2>1
<1>2. CASE n > Len(s)
  <2>1. r = <<>>
    BY <1>2
  <2> HIDE DEF r
  <2>2. r \in Seq(S) /\ Len(r) = 0
    BY <2>1
  <2> QED BY <2>2 DEF r
<1> QED BY <1>1, <1>2

\* n elements of a sequence.
LEMMA Middle ==
  ASSUME NEW S, NEW s \in Seq(S), NEW o \in Nat, NEW n \in Nat, o + n <= Len(s)
  PROVE  /\ SubSeq(s, o + 1, o + n) \in Seq(S) /\ Len(SubSeq(s, o + 1, o + n)) = n
         /\ \A k \in 1 .. n : SubSeq(s, o + 1, o + n)[k] = s[o + k]
  OBVIOUS

\* recv writes at the beginning of the buffer and leaves the rest.
LEMMA ReceivedArrived ==
  ASSUME Line \in Seq(Byte), off \in Nat, NEW n \in Nat, off + n <= Len(Line), buf \in Seq(Byte)
  PROVE  Arrived(Received(SubSeq(Line, off + 1, off + n)), n)
<1> DEFINE d == SubSeq(Line, off + 1, off + n)
           r == SubSeq(buf, n + 1, Len(buf))
           b == d \o r
<1>1. d \in Seq(Byte) /\ Len(d) = n /\ \A k \in 1 .. n : d[k] = Line[off + k]
  BY Middle
<1>2. Received(d) = b
  BY <1>1, Zenon DEF Received
<1>3. r \in Seq(Byte) /\ \A k \in 1 .. Len(r) : n + k \in 1 .. Len(buf) /\ r[k] = buf[n + k]
  BY Rest
<1> HIDE DEF d, r
<1>4. b \in Seq(Byte) /\ Joined(b, d, r)
  BY <1>1, <1>3, JoinedAre
<1> HIDE DEF b
<1>5. ASSUME NEW k \in 1 .. n PROVE k \in 1 .. Len(b) /\ b[k] = Line[off + k]
  BY <1>1, <1>4 DEF Joined
<1>6. ASSUME NEW k \in 1 .. Len(b), k > n PROVE k \in 1 .. Len(buf) /\ b[k] = buf[k]
  <2>1. k \in Len(d) + 1 .. Len(d) + Len(r) /\ k - n \in 1 .. Len(r) /\ n + (k - n) = k
    BY <1>1, <1>4, <1>6 DEF Joined
  <2>2. b[k] = r[k - n]
    BY <1>1, <1>4, <2>1 DEF Joined
  <2> QED BY <1>3, <2>1, <2>2
<1>7. ASSUME NEW k \in 1 .. Len(buf), k > n PROVE k \in 1 .. Len(b)
  <2>1. Len(r) = Len(buf) - n
    <3>1. n + 1 \in 1 .. Len(buf) /\ Len(buf) \in 1 .. Len(buf)
      BY <1>7
    <3> QED BY <3>1 DEF r
  <2> QED BY <1>1, <1>4, <1>7, <2>1 DEF Joined
<1>8. Arrived(b, n)
  BY <1>4, <1>5, <1>6, <1>7, Zenon DEF Arrived
<1> QED BY <1>2, <1>8, Zenon DEF d

\* A recv that begins with a message puts as much of it as arrives at the
\* beginning of the buffer.
LEMMA BeginsInBuffer ==
  ASSUME Sent(stream), off \in Nat, NEW n \in Nat, NEW b, Arrived(b, n),
         NEW i \in 1 .. Len(stream), Begin(i) = off,
         NEW part \in Seq(Byte), Len(part) <= n, Holds(BytesOf(stream[i]), 0, part)
  PROVE  Holds(b, 0, part)
<1> DEFINE m == BytesOf(stream[i])
<1>1. MessageIn(i) /\ CloudShape(stream[i], m)
  BY MessageHeld, SentIs, Zenon
<1>2. m \in Seq(Byte) /\ Holds(Line, off, m)
  BY <1>1, Zenon DEF MessageIn, CloudShape
<1> HIDE DEF m
<1>3. b \in Seq(Byte) /\ \A k \in 1 .. n : k \in 1 .. Len(b) /\ b[k] = Line[off + k]
  BY Zenon DEF Arrived
<1>4. ASSUME NEW k \in 1 .. Len(part) PROVE b[0 + k] = part[k] /\ k \in 1 .. Len(b)
  <2>1. k \in 1 .. n /\ 0 + k = k
    OBVIOUS
  <2>2. b[k] = Line[off + k] /\ k \in 1 .. Len(b)
    BY <1>3, <2>1
  <2>3. k \in 1 .. Len(m) /\ m[0 + k] = part[k]
    BY <1>2 DEF Holds, m
  <2>4. Line[off + k] = m[k]
    BY <1>2, <2>3 DEF Holds
  <2> QED BY <2>1, <2>2, <2>3, <2>4
<1>5. 0 + Len(part) <= Len(b)
  <2>1. Len(part) \in Nat /\ Len(b) \in Nat
    BY <1>3
  <2>2. CASE Len(part) = 0
    BY <2>1, <2>2
  <2>3. CASE Len(part) # 0
    <3>1. Len(part) \in 1 .. Len(part)
      BY <2>1, <2>3
    <3>2. Len(part) \in 1 .. Len(b)
      BY <1>4, <3>1
    <3> QED BY <2>1, <3>2
  <2> QED BY <2>2, <2>3
<1> QED BY <1>4, <1>5 DEF Holds

\* A message that arrives whole at the beginning of a recv is unpacked as it was sent.
LEMMA WholeArrives ==
  ASSUME Sent(stream), off \in Nat, NEW n \in Nat, NEW b, Arrived(b, n),
         NEW i \in 1 .. Len(stream), Begin(i) = off, n >= Len(BytesOf(stream[i]))
  PROVE  Unpack(b, 0, n) = {stream[i]}
<1> DEFINE m == stream[i]
           w == BytesOf(m)
<1>1. Cloud(m) /\ CloudShape(m, w)
  BY SentIs
<1>2. w \in Seq(Byte) /\ Len(w) \in Nat /\ Len(w) = PackSize(m) /\ Len(w) >= 16
  BY <1>1, Zenon DEF CloudShape
<1>3. Holds(w, 0, w)
  <2> HIDE DEF w
  <2> QED BY <1>2 DEF Holds
<1>4. Holds(b, 0, w)
  BY <1>2, <1>3, BeginsInBuffer
<1>5. b \in Seq(Byte)
  BY Zenon DEF Arrived
<1>6. n >= PackSize(m) /\ n >= 16
  <2> HIDE DEF m
  <2> QED BY <1>2 DEF m
<1>7. ToBytes(m, PackSize(m)) = w
  BY Zenon DEF BytesOf
<1> HIDE DEF m, w
<1>8. CASE IsPlain(m)
  <2>1. w = Encode(HeaderFields, m.hdr)
    BY <1>7, <1>8, PlainToBytes
  <2> QED BY <1>4, <1>5, <1>6, <1>8, <2>1, PlainUnpacked DEF m
<1>9. CASE IsRes(m)
  <2>1. Holds(b, 0, ToBytes(m, PackSize(m)))
    BY <1>4, <1>7
  <2> QED BY <1>5, <1>6, <1>9, <2>1, ResUnpacked DEF m
<1> QED BY <1>1, <1>8, <1>9, Zenon DEF Cloud, m

\* g is the message that begins with this recv, with its own body or with none; or
\* not even its header arrived.
Begins(g, n) ==
  \E i \in 1 .. Len(stream) :
     /\ Begin(i) = off
     /\ g.hdr # <<>> => g \in {stream[i], [stream[i] EXCEPT !.body = <<>>]}
     /\ g.hdr = <<>> => n < HeaderLen /\ (n >= 6 => g.kind = stream[i].kind)

\* A header has bytes.
LEMMA NotEmpty ==
  ASSUME NEW h, IsHeader(h) PROVE h # <<>>
  BY DEF IsHeader

\* An answer of which the body did not arrive.
LEMMA WithoutBody ==
  ASSUME NEW h, NEW body, NEW m, m = [Blank EXCEPT !.kind = "res", !.hdr = h, !.body = body]
  PROVE  [Blank EXCEPT !.kind = "res", !.hdr = h] = [m EXCEPT !.body = <<>>]
<1>1. [Blank EXCEPT !.body = Blank.body] = Blank /\ Blank.body = <<>>
  BY DEF Blank
<1>2. ASSUME NEW a
      PROVE  [m EXCEPT !.body = a] = [[Blank EXCEPT !.body = a] EXCEPT !.kind = "res", !.hdr = h]
  BY DEF Blank
<1>3. [m EXCEPT !.body = Blank.body]
        = [[Blank EXCEPT !.body = Blank.body] EXCEPT !.kind = "res", !.hdr = h]
  BY <1>2
<1> QED BY <1>1, <1>3, Zenon

\* A byte of a message's data, by its place in the message.
LEMMA DatumIs ==
  ASSUME Sent(stream), NEW i \in 1 .. Len(stream), NEW x \in Nat, At(i, x), x - Begin(i) >= 8
  PROVE  IsDatum(x, Line[x])
<1> DEFINE w == BytesOf(stream[i])
<1>1. MessageIn(i) /\ i \in DOMAIN stream /\ CloudShape(stream[i], w)
  BY MessageHeld, SentIs
<1>2. Begin(i) \in Nat /\ Len(w) \in Nat
  BY <1>1, Zenon DEF MessageIn, CloudShape
<1>3. x - Begin(i) \in 1 .. Len(w)
  BY Zenon DEF At
<1> HIDE DEF w
<1>4. Begin(i) + 8 <= x /\ x <= Begin(i) + Len(w)
  BY <1>2, <1>3
<1> QED BY <1>1, <1>4, Zenon DEF IsDatum, w

\* A message of 16 bytes or more that begins with this recv is delivered with its
\* header, and nothing else is.
LEMMA HeaderArrives ==
  ASSUME Sent(stream), off \in Nat, NEW n \in Nat, n >= 16, NEW b, Arrived(b, n),
         NEW g \in Unpack(b, 0, n), NEW i \in 1 .. Len(stream), Begin(i) = off
  PROVE  g.hdr # <<>> /\ g \in {stream[i], [stream[i] EXCEPT !.body = <<>>]}
<1> DEFINE m == stream[i]
           w == BytesOf(m)
<1>1. Cloud(m) /\ CloudShape(m, w)
  BY SentIs
<1>2. b \in Seq(Byte)
  BY Zenon DEF Arrived
<1>3. IsHeader(m.hdr) /\ m.hdr[1] = << 242 >> /\ m.hdr[4] = << 1 >> /\ m.hdr # <<>>
  <2>1. IsHeader(m.hdr) /\ m.hdr[1] = << 242 >> /\ m.hdr[4] = << 1 >>
    BY <1>1, Zenon DEF Cloud, CloudHeader
  <2> HIDE DEF m
  <2> QED BY <2>1, NotEmpty
<1>4. Holds(b, 0, Encode(HeaderFields, m.hdr))
  <2>1. Encode(HeaderFields, m.hdr) \in Seq(Byte) /\ Len(Encode(HeaderFields, m.hdr)) = 16
    BY <1>3, HeaderBytes
  <2>2. Holds(w, 0, Encode(HeaderFields, m.hdr))
    BY <1>1, Zenon DEF CloudShape
  <2>3. Len(Encode(HeaderFields, m.hdr)) <= n
    BY <2>1
  <2> QED BY <2>1, <2>2, <2>3, BeginsInBuffer
<1>5. CASE IsPlain(m)
  <2>1. Unpack(b, 0, n) = {m}
    <3> HIDE DEF m
    <3> QED BY <1>2, <1>4, <1>5, PlainUnpacked
  <2>2. g = m
    BY <2>1
  <2> QED BY <1>3, <2>2, Zenon
<1>6. CASE IsRes(m)
  <2> DEFINE H == m.hdr
             S == m.body
             x == [Blank EXCEPT !.kind = "res", !.hdr = H]
             C == TooShort(n, HeaderLen, DataLen(x))
             Y == Decode(ResFields, b, 0, 0)
             Z == Decode(ResFields, b, 0, HeaderLen)
  <2>1. m.hdr[3] = <<CLOUD2VEH_INH_RES>> /\ DataLen(m) = Width(ResFields)
        /\ m = [Blank EXCEPT !.kind = "res", !.hdr = H, !.body = S]
    BY <1>6, Zenon DEF IsRes
  <2>2. ReadHeader(b, 0, n) = m.hdr /\ Dispatch(b, 0, n, CLOUD2VEH_INH_RES, 1)
    <3> HIDE DEF m
    <3> QED BY <1>2, <1>3, <1>4, <2>1, UnpackHeld
  <2>3. Unpack(b, 0, n) = ReadRes(b, 0, n)
    BY <2>2, Zenon DEF Dispatch
  <2>4. H # <<>> /\ x.hdr = H
    <3>1. H # <<>>
      BY <1>3
    <3> HIDE DEF H
    <3>2. x.hdr = H
      BY DEF Blank
    <3> QED BY <3>1, <3>2
  <2>5. ReadRes(b, 0, n) = CASE x.hdr = <<>> -> {x, [x EXCEPT !.body = Y]}
                             [] x.hdr # <<>> /\ C -> {x}
                             [] OTHER -> {[x EXCEPT !.body = Z]}
    BY <2>2, Zenon DEF ReadRes
  <2>6. CASE C
    <3>1. g = x
      <4> HIDE DEF x, C, Y, Z
      <4> QED BY <2>3, <2>4, <2>5, <2>6
    <3>2. x = [m EXCEPT !.body = <<>>]
      <4>1. m = [Blank EXCEPT !.kind = "res", !.hdr = H, !.body = S]
        BY <2>1, Zenon
      <4> HIDE DEF m, H, S
      <4> QED BY <4>1, WithoutBody
    <3>3. g.hdr # <<>>
      <4> HIDE DEF x, H
      <4> QED BY <2>4, <3>1
    <3>4. g \in {m, [m EXCEPT !.body = <<>>]}
      <4> HIDE DEF x, m
      <4> QED BY <3>1, <3>2
    <3> QED BY <3>3, <3>4
  <2>7. CASE ~C
    <3>1. DataLen(x) = Width(ResFields)
      BY <2>1, <2>4, Zenon DEF DataLen
    <3>2. Len(w) = 16 + Width(ResFields) /\ Width(ResFields) \in Nat
      <4>1. Len(w) = PackSize(m)
        BY <1>1, Zenon DEF CloudShape
      <4>2. PackSize(m) = 16 + Width(ResFields)
        BY <1>6, ResToBytes
      <4> QED BY <4>1, <4>2, WidthTypes
    <3>3. n >= Len(w)
      <4> DEFINE W == Width(ResFields)
      <4>1. ~TooShort(n, HeaderLen, W)
        BY <2>7, <3>1, Zenon
      <4>2. Len(w) = 16 + W /\ W \in Nat
        BY <3>2
      <4> HIDE DEF W, w
      <4> QED BY <4>1, <4>2, HeaderShape DEF TooShort
    <3>4. Unpack(b, 0, n) = {m}
      BY <3>3, WholeArrives
    <3>5. g = m
      BY <3>4
    <3> QED BY <1>3, <3>5, Zenon
  <2> QED BY <2>6, <2>7
<1> QED BY <1>1, <1>5, <1>6, Zenon DEF Cloud, m

\* What is delivered is the message that begins with this recv, unless the recv
\* begins with a datum that is an identifier.
LEMMA GenuineArrives ==
  ASSUME Sent(stream), off \in Nat, NEW n \in Nat \ {0}, off + n <= Len(Line),
         NEW b, Arrived(b, n), NEW g \in Unpack(b, 0, n), g # Nothing
  PROVE  IsDatum(off + 1, 242) \/ Begins(g, n)
<1>1. Tells(g, b, 0, n)
  BY UnpackTells
<1>2. b \in Seq(Byte) /\ \A k \in 1 .. n : k \in 1 .. Len(b) /\ b[k] = Line[off + k]
  BY Zenon DEF Arrived
<1>3. Line[off + 1] = 242
  <2>1. 1 \in 1 .. n
    OBVIOUS
  <2>2. 1 \in 1 .. Len(b) /\ b[1] = Line[off + 1]
    BY <1>2, <2>1
  <2>3. Slice(b, 0, 0, 1)[1] = b[1]
    BY <1>2, <2>2 DEF Slice
  <2>4. Slice(b, 0, 0, 1)[1] = 242
    BY <1>1, Zenon DEF Tells
  <2> QED BY <2>2, <2>3, <2>4
<1>4. off + 1 \in 1 .. Len(Line) /\ off + 1 \in Nat
  <2>1. Len(stream) \in 0 .. Len(stream)
    BY SentIs
  <2>2. Len(Line) \in Nat
    BY <2>1, FirstIs DEF Line
  <2> QED BY <2>2
<1>5. PICK i \in 1 .. Len(stream) : At(i, off + 1)
  BY <1>4, Located
<1> DEFINE m == stream[i]
           w == BytesOf(m)
           x == off + 1
           j == x - Begin(i)
<1>6. Cloud(m) /\ CloudShape(m, w) /\ MessageIn(i) /\ Begin(i) \in Nat
  BY SentIs, MessageHeld DEF MessageIn
<1>7. j \in 1 .. Len(w) /\ w[j] = 242
  BY <1>3, <1>5, Zenon DEF At
<1>8. CASE j >= 8
  <2>1. IsDatum(x, Line[x])
    BY <1>4, <1>5, <1>8, DatumIs
  <2> QED BY <1>3, <2>1
<1>9. CASE j < 8
  <2>1. Begin(i) = off
    <3>1. j = 1
      <4> HIDE DEF j, w, m
      <4>1. \A k \in 1 .. 7 : w[k] = 242 => k = 1
        BY <1>6, Zenon DEF CloudShape
      <4>2. j \in 1 .. 7
        BY <1>7, <1>9
      <4> QED BY <1>7, <4>1, <4>2
    <3> QED BY <1>6, <3>1
  <2>2. CASE n >= 16
    <3>1. g.hdr # <<>> /\ g \in {m, [m EXCEPT !.body = <<>>]}
      BY <2>1, <2>2, HeaderArrives
    <3> QED BY <2>1, <3>1, Zenon DEF Begins
  <2>3. CASE n < 16
    <3>1. g.hdr = <<>> /\ n < HeaderLen
      <4>1. n < HeaderLen
        BY <2>3, HeaderShape
      <4>2. g.hdr = ReadHeader(b, 0, n)
        BY <1>1, Zenon DEF Tells
      <4> QED BY <4>1, <4>2, Zenon DEF ReadHeader
    <3>2. ASSUME n >= 6 PROVE g.kind = m.kind
      <4>1. b[6] = Line[off + 6] /\ Slice(b, 0, 5, 1)[1] = b[6]
        <5>1. 6 \in 1 .. n
          BY <3>2
        <5>2. 6 \in 1 .. Len(b) /\ b[6] = Line[off + 6]
          BY <1>2, <5>1
        <5> QED BY <1>2, <5>2 DEF Slice
      <4>2. Line[off + 6] = w[6]
        <5>1. Holds(Line, off, w) /\ Len(w) \in Nat /\ Len(w) >= 16
          BY <1>6, <2>1, Zenon DEF MessageIn, CloudShape
        <5> HIDE DEF w
        <5>2. 6 \in 1 .. Len(w)
          BY <5>1
        <5> QED BY <5>1, <5>2 DEF Holds
      <4>3. \/ m.kind = "header" /\ w[6] = HEARTBEAT_RES
            \/ m.kind = "res" /\ w[6] = CLOUD2VEH_INH_RES
        BY <1>6, Zenon DEF CloudShape
      <4>4. Slice(b, 0, 5, 1)[1] = w[6]
        BY <4>1, <4>2
      <4>5. /\ Slice(b, 0, 5, 1)[1] = HEARTBEAT_RES => g.kind = "header"
            /\ Slice(b, 0, 5, 1)[1] = CLOUD2VEH_INH_RES => g.kind = "res"
        BY <1>1, Zenon DEF Tells
      <4> HIDE DEF w, m
      <4> QED BY <4>3, <4>4, <4>5
    <3> QED BY <2>1, <3>1, <3>2, Zenon DEF Begins
  <2> QED BY <2>2, <2>3
<1>10. j >= 8 \/ j < 8
  BY <1>7
<1> QED BY <1>8, <1>9, <1>10

\* The type of an answer before a message's data is that of an answer.
LEMMA TypeHasCause ==
  ASSUME Sent(stream), NEW x \in 1 .. Len(Line), Line[x] = CLOUD2VEH_INH_RES
  PROVE  \/ \E i \in DOMAIN stream : stream[i].kind = "res" /\ x = Begin(i) + 6
         \/ IsDatum(x, CLOUD2VEH_INH_RES)
<1>1. PICK i \in 1 .. Len(stream) : At(i, x)
  BY Located
<1> DEFINE m == stream[i]
           w == BytesOf(m)
           j == x - Begin(i)
<1>2. CloudShape(m, w) /\ MessageIn(i) /\ i \in DOMAIN stream
  BY SentIs, MessageHeld
<1>3. j \in 1 .. Len(w) /\ w[j] = CLOUD2VEH_INH_RES
  BY <1>1, Zenon DEF At
<1>4. Begin(i) \in Nat
  BY <1>2, Zenon DEF MessageIn
<1>5. CASE j >= 8
  <2>1. IsDatum(x, Line[x])
    BY <1>1, <1>5, DatumIs
  <2> QED BY <2>1
<1>6. CASE j < 8
  <2>1. \A k \in 1 .. 7 : w[k] = CLOUD2VEH_INH_RES => k = 6
    BY <1>2, Zenon DEF CloudShape
  <2>2. \/ m.kind = "header" /\ w[6] = HEARTBEAT_RES
        \/ m.kind = "res" /\ w[6] = CLOUD2VEH_INH_RES
    BY <1>2, Zenon DEF CloudShape
  <2> HIDE DEF w, m
  <2>3. j = 6
    <3> HIDE DEF j
    <3>1. j \in 1 .. 7
      BY <1>3, <1>6
    <3> QED BY <1>3, <2>1, <3>1
  <2>4. m.kind = "res"
    BY <1>3, <2>2, <2>3 DEF HEARTBEAT_RES, CLOUD2VEH_INH_RES
  <2>5. x = Begin(i) + 6
    BY <1>4, <2>3
  <2> QED BY <1>2, <2>4, <2>5, Zenon DEF m
<1>7. j >= 8 \/ j < 8
  BY <1>3
<1> QED BY <1>5, <1>6, <1>7

-----------------------------------------------------------------------------
(* The invariant                                                           *)

\* The bytes of a sequence of messages, as functions of the sequence.
FirstOf(s, n) == FlattenSeq([i \in 1 .. n |-> BytesOf(s[i])])
LineOf(s) == FirstOf(s, Len(s))
BeginOf(s, i) == Len(FirstOf(s, i - 1))

\* The sixth byte of buffer b is byte p of the stream, if it has one.
TypePlace(s, b, p) ==
  /\ p \in Nat
  /\ p = 0 => Len(b) < 6
  /\ p # 0 => p \in 1 .. Len(LineOf(s)) /\ Len(b) >= 6 /\ b[6] = LineOf(s)[p]

\* An answer was taken for one because of byte p of the stream.
TypeIsAt(s, p) == p \in 1 .. Len(LineOf(s)) /\ LineOf(s)[p] = CLOUD2VEH_INH_RES

\* The bytes received are bytes of the stream, the type in the buffer is the byte of
\* the stream at typeAt, and an answer was delivered only because of that byte.
StreamInv ==
  /\ Sent(stream) /\ Len(stream) <= MaxStream
  /\ off \in Nat /\ off <= Len(LineOf(stream))
  /\ buf \in Seq(Byte)
  /\ TypePlace(stream, buf, typeAt)
  /\ step = "build" => got = Nothing
  /\ step = "stream" /\ got.kind = "res" => TypeIsAt(stream, typeAt)

\* The inductive invariant.
FramingInv == PackInv /\ StreamInv

\* They are the operators of the module, for the messages sent.
LEMMA StreamIs ==
  /\ Line = LineOf(stream)
  /\ \A i : Begin(i) = BeginOf(stream, i)
<1>1. \A n : First(n) = FirstOf(stream, n)
  BY Zenon DEF First, FirstOf
<1>2. Line = LineOf(stream)
  BY <1>1, Zenon DEF Line, LineOf
<1>3. \A i : Begin(i) = BeginOf(stream, i)
  BY <1>1, Zenon DEF Begin, BeginOf
<1> QED BY <1>2, <1>3

\* Nothing sent.
LEMMA EmptyStream ==
  /\ Sent(<<>>) /\ Len(<<>>) = 0 /\ Len(<<>>) <= MaxStream
  /\ 0 <= Len(LineOf(<<>>)) /\ TypePlace(<<>>, <<>>, 0) /\ <<>> \in Seq(Byte)
<1>1. <<>> \in Seq(CloudMessages) /\ <<>> \in Seq(Byte)
  BY EmptySeq
<1>2. Len(<<>>) = 0 /\ 0 <= MaxStream
  BY FramingAssumption DEF FramingAssumption
<1>3. LineOf(<<>>) = <<>>
  <2>1. [i \in 1 .. 0 |-> BytesOf(<<>>[i])] = <<>>
    OBVIOUS
  <2> QED BY <1>2, <2>1, FlattenEmpty, Zenon DEF LineOf, FirstOf
<1>4. 0 <= Len(LineOf(<<>>))
  BY <1>2, <1>3
<1>5. TypePlace(<<>>, <<>>, 0)
  BY <1>2 DEF TypePlace
<1> QED BY <1>1, <1>2, <1>4, <1>5, Zenon DEF Sent

\* One more message sent leaves what was sent where it is.
Extends(t, s) ==
  /\ Len(LineOf(t)) \in Nat /\ Len(LineOf(s)) \in Nat /\ Len(LineOf(s)) <= Len(LineOf(t))
  /\ \A x \in 1 .. Len(LineOf(s)) : x \in 1 .. Len(LineOf(t)) /\ LineOf(t)[x] = LineOf(s)[x]

\* See Extends.
LEMMA OneMore ==
  ASSUME NEW s, Sent(s), NEW m, NEW t, t = Append(s, m), Sent(t)
  PROVE  Extends(t, s)
<1> DEFINE n == Len(s)
<1>1. n \in Nat /\ DOMAIN s = 1 .. n /\ BytesSeq(s) \in Seq(Seq(Byte)) /\ Len(BytesSeq(s)) = n
  BY SentIs
<1>2. Len(t) = n + 1 /\ DOMAIN t = 1 .. n + 1 /\ t[n + 1] = m /\ \A i \in 1 .. n : t[i] = s[i]
  BY <1>1 DEF Sent
<1>3. BytesOf(m) \in Seq(Byte)
  <2>1. n + 1 \in 1 .. Len(t)
    BY <1>1, <1>2
  <2>2. CloudShape(t[n + 1], BytesOf(t[n + 1]))
    BY <2>1, SentIs
  <2> QED BY <1>2, <2>2, Zenon DEF CloudShape
<1> HIDE DEF n
<1>4. LineOf(s) = FlattenSeq(BytesSeq(s)) /\ LineOf(t) = FlattenSeq(BytesSeq(t))
  BY Zenon DEF LineOf, FirstOf, BytesSeq
<1>5. BytesSeq(t) = Append(BytesSeq(s), BytesOf(m))
  <2>1. BytesSeq(t) \in Seq(Seq(Byte)) /\ Len(BytesSeq(t)) = n + 1
    BY <1>2, SentIs
  <2>2. /\ Append(BytesSeq(s), BytesOf(m)) \in Seq(Seq(Byte))
        /\ Len(Append(BytesSeq(s), BytesOf(m))) = n + 1
        /\ \A i \in 1 .. n : Append(BytesSeq(s), BytesOf(m))[i] = BytesSeq(s)[i]
        /\ Append(BytesSeq(s), BytesOf(m))[n + 1] = BytesOf(m)
    BY <1>1, <1>3, AppendProperties
  <2>3. \A i \in 1 .. n : BytesSeq(s)[i] = BytesOf(s[i])
    BY <1>1 DEF BytesSeq, n
  <2>4. \A i \in 1 .. n + 1 : BytesSeq(t)[i] = BytesOf(t[i])
    BY <1>2 DEF BytesSeq
  <2>5. ASSUME NEW i \in 1 .. n + 1
        PROVE  BytesSeq(t)[i] = Append(BytesSeq(s), BytesOf(m))[i]
    <3>1. CASE i = n + 1
      BY <1>2, <2>2, <2>4, <3>1
    <3>2. CASE i # n + 1
      <4>1. i \in 1 .. n
        BY <1>1, <3>2
      <4> QED BY <1>2, <2>2, <2>3, <2>4, <4>1
    <3> QED BY <3>1, <3>2
  <2> QED BY <2>1, <2>2, <2>5, SeqEqual
<1>6. LineOf(t) = LineOf(s) \o BytesOf(m) /\ LineOf(s) \in Seq(Byte)
  BY <1>1, <1>3, <1>4, <1>5, FlattenAppend, FlattenType
<1> DEFINE a == LineOf(s)
           z == LineOf(t)
<1>7. Joined(z, a, BytesOf(m))
  <2>1. Joined(a \o BytesOf(m), a, BytesOf(m))
    BY <1>3, <1>6, JoinedAre, Zenon
  <2> QED BY <1>6, <2>1, Zenon
<1> HIDE DEF a, z
<1>8. Len(z) \in Nat /\ Len(a) \in Nat /\ Len(a) <= Len(z)
  BY <1>7 DEF Joined
<1>9. \A x \in 1 .. Len(a) : x \in 1 .. Len(z) /\ z[x] = a[x]
  BY <1>7, <1>8 DEF Joined
<1> QED BY <1>8, <1>9, Zenon DEF Extends, a, z

\* What was said of a byte of the stream is still so when more is sent.
LEMMA ExtendsKeeps ==
  ASSUME NEW t, NEW s, Extends(t, s), NEW b, NEW p
  PROVE  /\ TypePlace(s, b, p) => TypePlace(t, b, p)
         /\ TypeIsAt(s, p) => TypeIsAt(t, p)
<1>1. ASSUME TypePlace(s, b, p) PROVE TypePlace(t, b, p)
  BY <1>1, Zenon DEF TypePlace, Extends
<1>2. ASSUME TypeIsAt(s, p) PROVE TypeIsAt(t, p)
  BY <1>2, Zenon DEF TypeIsAt, Extends
<1> QED BY <1>1, <1>2

\* Initially nothing is sent and nothing was received.
LEMMA FramingInvInit ==
  FramingInit => FramingInv
<1> SUFFICES ASSUME FramingInit PROVE FramingInv
  OBVIOUS
<1>1. PackInv
  BY PackInvInit DEF FramingInit
<1>2. stream = <<>> /\ off = 0 /\ buf = <<>> /\ typeAt = 0 /\ step = "build" /\ got = Nothing
  BY DEF FramingInit, Init
<1>3. StreamInv
  BY <1>2, EmptyStream, Zenon DEF StreamInv
<1> QED BY <1>1, <1>3 DEF FramingInv

\* The steps of PackUnpack leave the stream alone, and come before it.
LEMMA NextKeepsInv ==
  ASSUME FramingInv, Next, UNCHANGED streamVars
  PROVE  FramingInv'
<1>1. PackInv'
  BY PackInvStep DEF FramingInv
<1>2. stream' = stream /\ off' = off /\ buf' = buf /\ typeAt' = typeAt
  BY DEF streamVars
<1>3. step' # "build" /\ step' # "stream"
  BY DEF Next, Build, DoPack, DoUnpack
<1>4. StreamInv'
  BY <1>2, <1>3 DEF FramingInv, StreamInv
<1> QED BY <1>1, <1>4 DEF FramingInv

\* While the stream is read, nothing is said of msg and wire.
LEMMA StreamHasPackInv ==
  ASSUME step' = "stream" PROVE PackInv'
BY DEF PackInv

\* A receive thread starts with a buffer of zeros.
LEMMA StartKeepsInv ==
  ASSUME FramingInv, StartThread
  PROVE  FramingInv'
<1>1. PackInv'
  BY StreamHasPackInv DEF StartThread
<1>2. /\ stream' = stream /\ off' = off /\ buf' = buf /\ typeAt' = typeAt
      /\ got' = Nothing /\ step' = "stream"
  BY DEF StartThread, streamVars, FramingInv, StreamInv
<1>3. Nothing.kind # "res"
  BY DEF Nothing, Blank
<1>4. StreamInv'
  BY <1>2, <1>3 DEF FramingInv, StreamInv
<1> QED BY <1>1, <1>4 DEF FramingInv

\* The peer adds a message to what was sent.
LEMMA PeerSendsKeepsInv ==
  ASSUME FramingInv, PeerSends
  PROVE  FramingInv'
<1>1. /\ step' = step /\ off' = off /\ buf' = buf /\ typeAt' = typeAt /\ got' = got
      /\ step = "stream"
  BY DEF PeerSends, vars
<1>2. PackInv'
  BY <1>1, StreamHasPackInv
<1>3. PICK m \in CloudMessages : stream' = Append(stream, m)
  BY DEF PeerSends
<1>4. StreamInv /\ Sent(stream) /\ Len(stream) \in Nat /\ Len(stream) < MaxStream
  BY SentIs DEF FramingInv, StreamInv, PeerSends
<1>5. Sent(stream') /\ Len(stream') = Len(stream) + 1
  BY <1>3, <1>4, AppendProperties DEF Sent
<1>6. Len(stream') <= MaxStream
  BY <1>4, <1>5, FramingAssumption DEF FramingAssumption
<1>7. Extends(stream', stream)
  BY <1>3, <1>4, <1>5, OneMore
<1>8. off' \in Nat /\ off' <= Len(LineOf(stream'))
  BY <1>1, <1>4, <1>7 DEF Extends, StreamInv
<1>9. /\ TypePlace(stream', buf', typeAt')
      /\ TypeIsAt(stream, typeAt) => TypeIsAt(stream', typeAt')
  BY <1>1, <1>4, <1>7, ExtendsKeeps, Zenon DEF StreamInv
<1>10. StreamInv'
  BY <1>1, <1>4, <1>5, <1>6, <1>8, <1>9, Zenon DEF StreamInv
<1> QED BY <1>2, <1>10 DEF FramingInv

\* Another connection starts with nothing sent and a buffer of zeros.
LEMMA ReconnectKeepsInv ==
  ASSUME FramingInv, Reconnect
  PROVE  FramingInv'
<1>1. /\ step' = "stream" /\ stream' = <<>> /\ off' = 0 /\ buf' = <<>> /\ typeAt' = 0
      /\ got' = Nothing
  BY DEF Reconnect
<1>2. PackInv'
  BY <1>1, StreamHasPackInv
<1>3. Nothing.kind # "res"
  BY DEF Nothing, Blank
<1>4. StreamInv'
  BY <1>1, <1>3, EmptyStream, Zenon DEF StreamInv
<1> QED BY <1>2, <1>4 DEF FramingInv

\* What was sent is bytes.
LEMMA LineIs ==
  ASSUME Sent(stream)
  PROVE  Line \in Seq(Byte) /\ Len(Line) \in Nat
<1>1. Len(stream) \in 0 .. Len(stream)
  BY SentIs
<1> QED BY <1>1, FirstIs, Zenon DEF Line

\* A message begins somewhere.
LEMMA BeginIsNumber ==
  ASSUME Sent(stream), NEW i \in DOMAIN stream
  PROVE  Begin(i) \in Nat
<1>1. i \in 1 .. Len(stream)
  BY SentIs
<1> QED BY <1>1, MessageHeld, Zenon DEF MessageIn

\* What a recv may return: some bytes of what was sent and not received.
Returned(n) ==
  /\ n \in Nat \ {0} /\ off + n <= Len(Line) /\ Line \in Seq(Byte)
  /\ Arrived(Received(SubSeq(Line, off + 1, off + n)), n)

\* So does what a recv ends with.
LEMMA EndsAreNumbers ==
  ASSUME StreamInv, NEW e \in Ends
  PROVE  e \in Nat
<1>1. Sent(stream) /\ Len(Line) \in Nat
  BY LineIs DEF StreamInv
<1>2. \A i \in DOMAIN stream : Begin(i) \in Nat
  BY <1>1, BeginIsNumber
<1>3. Cuts \subseteq Nat
  BY FramingAssumption
<1>4. \A i \in DOMAIN stream, c \in Cuts : Begin(i) + c \in Nat
  BY <1>2, <1>3
<1>5. \/ e \in {Len(Line)} \/ e \in {Begin(i) : i \in DOMAIN stream}
      \/ e \in {Begin(i) + c : i \in DOMAIN stream, c \in Cuts}
  BY DEF Ends
<1>6. ASSUME e \in {Begin(i) + c : i \in DOMAIN stream, c \in Cuts} PROVE e \in Nat
  BY <1>4, <1>6
<1> QED BY <1>1, <1>2, <1>5, <1>6

\* See Returned.
LEMMA RecvReturns ==
  ASSUME StreamInv, NEW n \in {e - off : e \in {x \in Ends : x > off}}, Recv(n)
  PROVE  Returned(n)
<1>1. PICK e \in Ends : e > off /\ n = e - off
  OBVIOUS
<1>2. e \in Nat /\ off \in Nat /\ off + n <= Len(Line) /\ buf \in Seq(Byte)
  BY EndsAreNumbers DEF StreamInv, Recv
<1>3. n \in Nat \ {0}
  BY <1>1, <1>2
<1>4. Line \in Seq(Byte)
  BY LineIs DEF StreamInv
<1> QED BY <1>2, <1>3, <1>4, ReceivedArrived DEF Returned

\* The sixth byte of the buffer is the one of the stream that the history says.
LEMMA TypeArrived ==
  ASSUME StreamInv, NEW n, Returned(n), NEW b, Arrived(b, n)
  PROVE  TypePlace(stream, b, TypeRead(n))
<1>1. off \in Nat /\ n \in Nat /\ off + n <= Len(Line) /\ Len(Line) \in Nat
  BY LineIs DEF StreamInv, Returned
<1>2. /\ b \in Seq(Byte) /\ \A k \in 1 .. n : k \in 1 .. Len(b) /\ b[k] = Line[off + k]
      /\ \A k \in 1 .. Len(b) : k > n => k \in 1 .. Len(buf) /\ b[k] = buf[k]
      /\ \A k \in 1 .. Len(buf) : k > n => k \in 1 .. Len(b)
  BY Zenon DEF Arrived
<1>3. TypePlace(stream, buf, typeAt) /\ buf \in Seq(Byte) /\ Line = LineOf(stream)
  BY StreamIs DEF StreamInv
<1>4. CASE n >= 6
  <2>1. 6 \in 1 .. n /\ off + 6 \in 1 .. Len(Line) /\ off + 6 \in Nat /\ off + 6 # 0
    BY <1>1, <1>4
  <2>2. TypeRead(n) = off + 6
    BY <1>4 DEF TypeRead
  <2>3. 6 \in 1 .. Len(b) /\ b[6] = Line[off + 6]
    BY <1>2, <2>1
  <2>4. Len(b) >= 6
    BY <1>2, <2>3
  <2> QED BY <1>3, <2>1, <2>2, <2>3, <2>4, Zenon DEF TypePlace
<1>5. CASE n < 6
  <2>1. TypeRead(n) = typeAt
    BY <1>1, <1>5 DEF TypeRead
  <2>2. Len(b) \in Nat /\ Len(buf) \in Nat
    BY <1>2, <1>3
  <2>3. CASE typeAt = 0
    <3>1. ~(Len(buf) >= 6)
      BY <1>3, <2>2, <2>3 DEF TypePlace
    <3>2. ASSUME Len(b) >= 6 PROVE FALSE
      <4>1. 6 \in 1 .. Len(b) /\ 6 > n
        BY <1>1, <1>5, <2>2, <3>2
      <4>2. 6 \in 1 .. Len(buf)
        BY <1>2, <4>1
      <4> QED BY <2>2, <3>1, <4>2
    <3>3. Len(b) < 6 /\ typeAt \in Nat
      BY <2>2, <2>3, <3>2
    <3> QED BY <2>1, <2>3, <3>3, Zenon DEF TypePlace
  <2>4. CASE typeAt # 0
    <3>1. /\ typeAt \in Nat /\ typeAt \in 1 .. Len(LineOf(stream)) /\ Len(buf) >= 6
          /\ buf[6] = LineOf(stream)[typeAt]
      BY <1>3, <2>4, Zenon DEF TypePlace
    <3>2. 6 \in 1 .. Len(buf) /\ 6 > n
      BY <1>1, <1>5, <2>2, <3>1
    <3>3. 6 \in 1 .. Len(b)
      BY <1>2, <3>2
    <3>4. b[6] = buf[6] /\ Len(b) >= 6
      BY <1>2, <2>2, <3>2, <3>3
    <3> QED BY <2>1, <2>4, <3>1, <3>4, Zenon DEF TypePlace
  <2> QED BY <2>3, <2>4
<1> QED BY <1>1, <1>4, <1>5

\* Behind what is kept of it, the buffer holds zeros.
LEMMA SixthByte ==
  ASSUME NEW b \in Seq(Byte), Slice(b, 0, 5, 1)[1] = CLOUD2VEH_INH_RES
  PROVE  Len(b) \in Nat /\ Len(b) >= 6 /\ b[6] = CLOUD2VEH_INH_RES
  BY DEF Slice, CLOUD2VEH_INH_RES

\* recv and unpack: whatever is delivered as an answer has the type of one at
\* byte 5 of the buffer.
LEMMA RecvKeepsInv ==
  ASSUME FramingInv, NEW n \in {e - off : e \in {x \in Ends : x > off}}, Recv(n)
  PROVE  FramingInv'
<1>1. StreamInv /\ Returned(n)
  BY RecvReturns DEF FramingInv
<1>2. /\ step' = "stream" /\ stream' = stream /\ off' = off + n /\ typeAt' = TypeRead(n)
      /\ buf' = Received(SubSeq(Line, off + 1, off + n)) /\ got' \in Unpack(buf', 0, n)
  BY DEF Recv
<1>3. Arrived(buf', n) /\ buf' \in Seq(Byte)
  BY <1>1, <1>2 DEF Returned, Arrived
<1>4. PackInv'
  BY <1>2, StreamHasPackInv
<1>5. off' \in Nat /\ off' <= Len(LineOf(stream))
  BY <1>1, <1>2, StreamIs DEF Returned, StreamInv
<1>6. TypePlace(stream, buf', typeAt')
  BY <1>1, <1>2, <1>3, TypeArrived
<1>7. ASSUME got'.kind = "res" PROVE TypeIsAt(stream, typeAt')
  <2>1. Slice(buf', 0, 5, 1)[1] = CLOUD2VEH_INH_RES
    BY <1>2, <1>7, UnpackTells DEF Tells
  <2>2. Len(buf') \in Nat /\ Len(buf') >= 6 /\ buf'[6] = CLOUD2VEH_INH_RES
    BY <1>3, <2>1, SixthByte
  <2>3. typeAt' # 0
    BY <1>6, <2>2 DEF TypePlace
  <2> QED BY <1>6, <2>2, <2>3, Zenon DEF TypePlace, TypeIsAt
<1>8. StreamInv'
  <2>1. /\ Sent(stream) /\ Len(stream) <= MaxStream
    BY <1>1, Zenon DEF StreamInv
  <2>2. step' # "build"
    BY <1>2
  <2> QED BY <1>2, <1>3, <1>5, <1>6, <1>7, <2>1, <2>2, Zenon DEF StreamInv
<1> QED BY <1>4, <1>8, Zenon DEF FramingInv

\* Every step keeps the invariant.
LEMMA FramingInvStep ==
  ASSUME FramingInv, [FramingNext]_allVars PROVE FramingInv'
<1>1. CASE Next /\ UNCHANGED streamVars
  BY <1>1, NextKeepsInv
<1>2. CASE StartThread
  BY <1>2, StartKeepsInv
<1>3. CASE PeerSends
  BY <1>3, PeerSendsKeepsInv
<1>4. CASE \E n \in {e - off : e \in {x \in Ends : x > off}} : Recv(n)
  BY <1>4, RecvKeepsInv
<1>5. CASE Reconnect
  BY <1>5, ReconnectKeepsInv
<1>6. CASE UNCHANGED allVars
  BY <1>6 DEF allVars, vars, streamVars, FramingInv, PackInv, StreamInv
<1> QED BY <1>1, <1>2, <1>3, <1>4, <1>5, <1>6, Zenon DEF FramingNext

\* The inductive invariant of the receive thread: the type in its buffer is a byte of
\* this connection, the one the history names, and what is delivered as an answer is
\* so because of it; whatever the timestamps and the answers are (controller.cc
\* 214-238).
THEOREM FramingInvariant ==
  FramingSpec => []FramingInv
<1> QED BY FramingInvInit, FramingInvStep, PTL DEF FramingSpec

\* AnswerHasCause: the application is told of an answer only because of the type of an
\* answer of this connection, or of a datum that is 0x35 and came to stand in its
\* place, however recv cuts up the stream (controller.cc 214-238, packer.cc 23).
THEOREM AnswerCaused ==
  FramingSpec => []AnswerHasCause
<1>1. FramingInv => AnswerHasCause
  <2> SUFFICES ASSUME StreamInv, step = "stream", got.kind = "res"
               PROVE  AnswerHasCause
    BY DEF FramingInv, AnswerHasCause
  <2>1. Sent(stream) /\ typeAt \in 1 .. Len(Line) /\ Line[typeAt] = CLOUD2VEH_INH_RES
    BY StreamIs, Zenon DEF StreamInv, TypeIsAt
  <2>2. \/ \E i \in DOMAIN stream : stream[i].kind = "res" /\ typeAt = Begin(i) + 6
        \/ IsDatum(typeAt, CLOUD2VEH_INH_RES)
    BY <2>1, TypeHasCause
  <2> QED BY <2>2, Zenon DEF AnswerHasCause
<1> QED BY <1>1, FramingInvariant, PTL

\* Only a recv moves on in the stream.
LEMMA MovedOn ==
  ASSUME FramingInv, [FramingNext]_allVars, off' > off
  PROVE  \E n \in Nat \ {0} : Returned(n) /\ Recv(n)
<1>1. off \in Nat
  BY DEF FramingInv, StreamInv
<1>2. off' # off /\ off' # 0
  BY <1>1
<1>3. ~(Next /\ UNCHANGED streamVars) /\ ~StartThread /\ ~PeerSends /\ ~UNCHANGED allVars
  BY <1>2 DEF streamVars, allVars, StartThread, PeerSends
<1>4. ~Reconnect
  BY <1>2 DEF Reconnect
<1>5. PICK n \in {e - off : e \in {x \in Ends : x > off}} : Recv(n)
  BY <1>3, <1>4, Zenon DEF FramingNext
<1>6. Returned(n)
  BY <1>5, RecvReturns DEF FramingInv
<1> QED BY <1>5, <1>6 DEF Returned

\* What a recv makes of what it returned.
LEMMA Delivered ==
  ASSUME FramingInv, NEW n \in Nat \ {0}, Returned(n), Recv(n)
  PROVE  /\ Sent(stream) /\ off \in Nat /\ off' = off + n /\ off + n <= Len(Line)
         /\ Arrived(buf', n) /\ got' \in Unpack(buf', 0, n)
BY DEF FramingInv, StreamInv, Returned, Recv

\* WholeIsDelivered: a message that one recv returns from its first byte to its
\* last is delivered as it was sent, whatever else the buffer holds (controller.cc
\* 214-238).
THEOREM WholeDelivered ==
  FramingSpec => WholeIsDelivered
<1>1. ASSUME FramingInv, [FramingNext]_allVars, off' > off, NEW i \in DOMAIN stream,
             Begin(i) = off, off' >= off + Len(BytesOf(stream[i]))
      PROVE  got' = stream[i]
  <2>1. PICK n \in Nat \ {0} : Returned(n) /\ Recv(n)
    BY <1>1, MovedOn
  <2>2. /\ Sent(stream) /\ off \in Nat /\ off' = off + n
        /\ Arrived(buf', n) /\ got' \in Unpack(buf', 0, n)
    BY <1>1, <2>1, Delivered
  <2>3. i \in 1 .. Len(stream) /\ CloudShape(stream[i], BytesOf(stream[i]))
    BY <2>2, SentIs
  <2>4. Len(BytesOf(stream[i])) \in Nat
    BY <2>3, Zenon DEF CloudShape
  <2>5. n >= Len(BytesOf(stream[i]))
    BY <1>1, <2>2, <2>4
  <2>6. Unpack(buf', 0, n) = {stream[i]}
    BY <1>1, <2>2, <2>3, <2>5, WholeArrives
  <2> QED BY <2>2, <2>6
<1>2. ASSUME FramingInv, [FramingNext]_allVars
      PROVE  \A i \in DOMAIN stream :
               off' > off /\ Begin(i) = off /\ off' >= off + Len(BytesOf(stream[i]))
                  => got' = stream[i]
  BY <1>1, <1>2
<1> QED BY <1>2, FramingInvariant, PTL DEF FramingSpec, WholeIsDelivered

\* GotIsGenuine: what is delivered is the message that begins with this recv, with its
\* own body or none, or without a header if that has not arrived; unless the recv
\* begins with a datum that is 0xF2 (packer.cc 14-23, message.h 122-158,
\* veh2cloud_inh.h 408-427).
THEOREM GotGenuine ==
  FramingSpec => GotIsGenuine
<1>1. ASSUME FramingInv, [FramingNext]_allVars, off' > off, got' # Nothing
      PROVE  \/ IsDatum(off + 1, 242)
             \/ \E i \in DOMAIN stream :
                   /\ Begin(i) = off
                   /\ got'.hdr # <<>> =>
                         got' \in {stream[i], [stream[i] EXCEPT !.body = <<>>]}
                   /\ got'.hdr = <<>> =>
                         /\ off' - off < HeaderLen
                         /\ off' - off >= 6 => got'.kind = stream[i].kind
  <2>1. PICK n \in Nat \ {0} : Returned(n) /\ Recv(n)
    BY <1>1, MovedOn
  <2>2. /\ Sent(stream) /\ off \in Nat /\ off' = off + n /\ off + n <= Len(Line)
        /\ Arrived(buf', n) /\ got' \in Unpack(buf', 0, n)
    BY <1>1, <2>1, Delivered
  <2>3. IsDatum(off + 1, 242) \/ Begins(got', n)
    BY <1>1, <2>2, GenuineArrives
  <2>4. DOMAIN stream = 1 .. Len(stream) /\ off' - off = n
    BY <2>2, SentIs
  <2> QED BY <2>3, <2>4, Zenon DEF Begins
<1> QED BY <1>1, FramingInvariant, PTL DEF FramingSpec, GotIsGenuine

\* What is said of pack and unpack holds beside a receive thread too (packer.h
\* 35-57).
THEOREM PackedAsBefore ==
  FramingSpec => [](WireFillsBuffer /\ InhWholeOrHeader /\ CutDownStaysEmpty /\ RoundTrip)
<1>1. FramingInv => PackInv
  BY DEF FramingInv
<1> QED BY <1>1, FramingInvariant, FillsBuffer, WholeOrHeader, HeaderOnly, ComesBack, PTL

=============================================================================
