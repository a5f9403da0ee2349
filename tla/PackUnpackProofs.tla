---------------------------- MODULE PackUnpackProofs ----------------------------
(***************************************************************************)
(* Proofs about module PackUnpack, for version texts and user data of any  *)
(* content and length, any numbers of pass points and wheels, and whatever *)
(* the buffer holds behind the bytes received.                             *)
(***************************************************************************)
EXTENDS PackUnpack, CodecProofs

-----------------------------------------------------------------------------
(* The messages                                                            *)

\* The texts of the messages.
Texts == VersionTexts \cup UserTexts

\* The constants are sequences of bytes.
LEMMA TextsAreBytes == Texts \subseteq Seq(Byte)
<1> SUFFICES ASSUME NEW t \in Texts PROVE t \in Seq(Byte)
  OBVIOUS
<1>1. t \in Seq(0 .. 255) /\ 0 .. 255 \subseteq Byte
  BY CodecAssumption DEF CodecAssumption, Texts, Byte
<1> QED BY <1>1, SeqMonotonic

\* A length byte does not tell 255 bytes and more from fewer (util.h).
LEMMA TextLenIs ==
  ASSUME NEW t \in Seq(Byte)
  PROVE  TextLen(t) \in Nat /\ TextLen(t) <= Len(t)
         /\ (Len(t) < 255 => TextLen(t) = Len(t))
         /\ (Len(t) >= 255 => TextLen(t) < Len(t))
  BY DEF TextLen

\* The widths of the tables.
LEMMA WidthTypes ==
  /\ Width(VehicleField) \in Nat /\ Width(InhFields) \in Nat
  /\ Width(ResFields) \in Nat /\ Width(StateFields) \in Nat
  /\ Width(State2Fields) \in Nat /\ Width(DoorFields) \in Nat
  /\ Width(VehicleField \o InhFields) = Width(VehicleField) + Width(InhFields)
  BY TableTypes, WidthType, WidthConcat

\* The length a Veh2CloudInh declares.
InhLen(sw, hw, ad, user) ==
  Width(VehicleField) + Width(InhFields) + 4 + TextLen(sw) + TextLen(hw)
    + TextLen(ad) + TextLen(user)

\* A Veh2CloudInh with these texts.
IsInh(m, sw, hw, ad, user) ==
  /\ sw \in Seq(Byte) /\ hw \in Seq(Byte) /\ ad \in Seq(Byte) /\ user \in Seq(Byte)
  /\ m.kind = "inh" /\ m.sw = sw /\ m.hw = hw /\ m.ad = ad /\ m.user = user
  /\ m.pass = <<>> /\ m.wheels = <<>>
  /\ m.body = Sample(VehicleField) \o Sample(InhFields)
  /\ IsHeader(m.hdr) /\ m.hdr[1] = << 242 >> /\ m.hdr[3] = <<VEH2CLOUD_INH>>
  /\ m.hdr[4] = << 1 >>
  /\ PackSize(m) = 16 + InhLen(sw, hw, ad, user)

\* The length as the constructor adds it up.
LEMMA InhLenType ==
  ASSUME NEW sw \in Seq(Byte), NEW hw \in Seq(Byte), NEW ad \in Seq(Byte), NEW user \in Seq(Byte)
  PROVE  /\ InhLen(sw, hw, ad, user) \in Nat
         /\ Width(VehicleField \o InhFields) + 4 + TextLen(sw) + TextLen(hw)
                 + TextLen(ad) + TextLen(user) = InhLen(sw, hw, ad, user)
<1>1. TextLen(sw) \in Nat /\ TextLen(hw) \in Nat /\ TextLen(ad) \in Nat /\ TextLen(user) \in Nat
  BY TextLenIs
<1> DEFINE v == Width(VehicleField)
           i == Width(InhFields)
           vi == Width(VehicleField \o InhFields)
<1>2. v \in Nat /\ i \in Nat /\ vi = v + i
  BY WidthTypes
<1>3. InhLen(sw, hw, ad, user)
        = v + i + 4 + TextLen(sw) + TextLen(hw) + TextLen(ad) + TextLen(user)
  BY DEF InhLen
<1> HIDE DEF v, i, vi
<1>4. InhLen(sw, hw, ad, user) \in Nat
  BY <1>1, <1>2, <1>3
<1>5. vi + 4 + TextLen(sw) + TextLen(hw) + TextLen(ad) + TextLen(user)
        = InhLen(sw, hw, ad, user)
  BY <1>1, <1>2, <1>3
<1> QED BY <1>4, <1>5 DEF vi

\* All of it.
InhMade(m, sw, hw, ad, user) ==
  /\ IsInh(m, sw, hw, ad, user)
  /\ m = [Blank EXCEPT !.kind = "inh", !.hdr = m.hdr, !.body = m.body, !.sw = sw,
                       !.hw = hw, !.ad = ad, !.user = user]

\* The constructor makes such a message.
LEMMA InhIs ==
  ASSUME NEW sw \in Seq(Byte), NEW hw \in Seq(Byte), NEW ad \in Seq(Byte), NEW user \in Seq(Byte)
  PROVE  InhMade(NewInh(sw, hw, ad, user), sw, hw, ad, user)
<1> DEFINE len == InhLen(sw, hw, ad, user)
           H == Header(len, VEH2CLOUD_INH, 1)
           B == Sample(VehicleField) \o Sample(InhFields)
           m == NewInh(sw, hw, ad, user)
<1>1. len \in Nat /\ Width(VehicleField \o InhFields) + 4 + TextLen(sw) + TextLen(hw)
                 + TextLen(ad) + TextLen(user) = len
  BY InhLenType
<1> HIDE DEF len
<1>2. m = [Blank EXCEPT !.kind = "inh", !.sw = sw, !.hw = hw, !.ad = ad, !.user = user,
                        !.body = B, !.hdr = H]
  BY <1>1, Zenon DEF NewInh
<1>3. IsHeader(H) /\ Number(H[2]) = len /\ H[1] = << 242 >> /\ H[3] = <<VEH2CLOUD_INH>>
      /\ H[4] = << 1 >>
  <2>1. VEH2CLOUD_INH \in Byte /\ 1 \in Byte
    BY DEF VEH2CLOUD_INH, Byte
  <2> HIDE DEF m
  <2> QED BY <1>1, <2>1, HeaderIs
<1> HIDE DEF H, B, m
<1>4. /\ m.kind = "inh" /\ m.sw = sw /\ m.hw = hw /\ m.ad = ad /\ m.user = user
      /\ m.pass = <<>> /\ m.wheels = <<>> /\ m.body = B /\ m.hdr = H
  BY <1>2 DEF Blank
<1>5. m = [Blank EXCEPT !.kind = "inh", !.hdr = H, !.body = B, !.sw = sw,
                        !.hw = hw, !.ad = ad, !.user = user]
  BY <1>2 DEF Blank
<1>6. PackSize(m) = 16 + len
  BY <1>3, <1>4, HeaderShape DEF PackSize, DataLen
<1>7. IsInh(m, sw, hw, ad, user)
  BY <1>3, <1>4, <1>6 DEF B, len, IsInh
<1> QED BY <1>4, <1>5, <1>7, Zenon DEF m, InhMade

\* A sequence behind one element.
LEMMA TailOfConcat ==
  ASSUME NEW X, NEW a \in Seq(X), Len(a) = 1, NEW b \in Seq(X)
  PROVE  (a \o b)[1] = a[1] /\ Tail(a \o b) = b
<1> DEFINE c == a \o b
<1>1. c \in Seq(X) /\ Len(c) = 1 + Len(b) /\ c[1] = a[1] /\ Len(b) \in Nat
  <2>1. c \in Seq(X) /\ Len(c) = Len(a) + Len(b) /\ Len(b) \in Nat
    BY ConcatProperties
  <2>2. c[1] = a[1]
    <3>1. 1 \in 1 .. Len(a) + Len(b) /\ 1 <= Len(a)
      BY <2>1
    <3>2. c[1] = IF 1 <= Len(a) THEN a[1] ELSE b[1 - Len(a)]
      BY <3>1, ConcatProperties
    <3> QED BY <3>1, <3>2
  <2> QED BY <2>1, <2>2
<1>2. ASSUME NEW i \in 1 .. Len(b) PROVE c[i + 1] = b[i]
  <2>1. i + 1 \in 1 .. Len(a) + Len(b) /\ i + 1 > Len(a) /\ (i + 1) - Len(a) = i
    BY <1>1
  <2>2. c[i + 1] = b[(i + 1) - Len(a)]
    BY <2>1, ConcatProperties
  <2> QED BY <2>1, <2>2
<1> HIDE DEF c
<1>3. Tail(c) \in Seq(X) /\ Len(Tail(c)) = Len(b) /\ \A i \in 1 .. Len(b) : Tail(c)[i] = c[i + 1]
  BY <1>1
<1>4. Tail(c) = b
  BY <1>1, <1>2, <1>3, SeqEqual
<1> QED BY <1>1, <1>4 DEF c

\* The parts of a Veh2CloudInh behind its header.
InhParts(m) ==
  << Encode(VehicleField, m.body), Text(m.sw, TextLen(m.sw)),
     <<TextLen(m.sw)>> \o Chars(m.sw, TextLen(m.hw)),
     <<TextLen(m.ad)>> \o Chars(m.sw, TextLen(m.ad)),
     Encode(InhFields, Tail(m.body)), Text(m.user, TextLen(m.user)) >>

\* What they are, and how long.
InhShape(m, p) ==
  /\ p[1] = Encode(VehicleField, Sample(VehicleField))
  /\ p[5] = Encode(InhFields, Sample(InhFields))
  /\ p[1] \in Seq(Byte) /\ Len(p[1]) = Width(VehicleField)
  /\ p[2] \in Seq(Byte) /\ Len(p[2]) = 1 + TextLen(m.sw)
  /\ p[3] \in Seq(Byte) /\ Len(p[3]) = 1 + TextLen(m.hw)
  /\ p[4] \in Seq(Byte) /\ Len(p[4]) = 1 + TextLen(m.ad)
  /\ p[5] \in Seq(Byte) /\ Len(p[5]) = Width(InhFields)
  /\ p[6] \in Seq(Byte) /\ Len(p[6]) = 1 + TextLen(m.user)
  /\ InhBody(m) = p[1] \o p[2] \o p[3] \o p[4] \o p[5] \o p[6]

\* Their lengths and contents.
LEMMA InhPartsAre ==
  ASSUME NEW sw, NEW hw, NEW ad, NEW user, NEW m, IsInh(m, sw, hw, ad, user)
  PROVE  InhShape(m, InhParts(m))
<1> DEFINE SV == Sample(VehicleField)
           SI == Sample(InhFields)
           p == InhParts(m)
<1>1. /\ m.sw = sw /\ m.hw = hw /\ m.ad = ad /\ m.user = user /\ m.body = SV \o SI
      /\ sw \in Seq(Byte) /\ hw \in Seq(Byte) /\ ad \in Seq(Byte) /\ user \in Seq(Byte)
  BY DEF IsInh
<1>2. /\ SV \in Seq(Seq(Byte)) /\ Fits(VehicleField, SV) /\ DOMAIN VehicleField = {1}
      /\ Len(SV) = 1 /\ SI \in Seq(Seq(Byte)) /\ Fits(InhFields, SI)
  <2>1. Len(VehicleField) = 1
    BY DEF VehicleField, Raw
  <2>2. VehicleField \in Seq(Field) /\ InhFields \in Seq(Field)
    BY TableTypes
  <2>3. DOMAIN VehicleField = {1}
    BY <2>1, <2>2
  <2> QED BY <2>1, <2>2, <2>3, SampleFits
<1> HIDE DEF SV, SI
<1>3. m.body[1] = SV[1] /\ Tail(m.body) = SI
  <2>1. (SV \o SI)[1] = SV[1] /\ Tail(SV \o SI) = SI
    BY <1>2, TailOfConcat
  <2> QED BY <1>1, <2>1, Zenon
<1>4. Encode(VehicleField, m.body) = Encode(VehicleField, SV)
  <2>1. [i \in DOMAIN VehicleField |-> InOrder(VehicleField[i], m.body[i])]
          = [i \in DOMAIN VehicleField |-> InOrder(VehicleField[i], SV[i])]
    BY <1>2, <1>3
  <2> QED BY <2>1, Zenon DEF Encode
<1> DEFINE a == <<TextLen(sw)>>
           b == Chars(sw, TextLen(hw))
           c == <<TextLen(ad)>>
           d == Chars(sw, TextLen(ad))
           p1 == Encode(VehicleField, SV)
           p2 == Text(sw, TextLen(sw))
           p5 == Encode(InhFields, SI)
           p6 == Text(user, TextLen(user))
<1>5. p = <<p1, p2, a \o b, c \o d, p5, p6>>
  BY <1>1, <1>3, <1>4, Zenon DEF InhParts
<1>6. InhBody(m) = p1 \o p2 \o a \o b \o c \o d \o p5 \o p6
  BY <1>1, <1>3, <1>4, Zenon DEF InhBody
<1>7. TextLen(sw) \in Nat /\ TextLen(hw) \in Nat /\ TextLen(ad) \in Nat /\ TextLen(user) \in Nat
  BY <1>1, TextLenIs
<1>8. /\ p1 \in Seq(Byte) /\ Len(p1) = Width(VehicleField)
      /\ p5 \in Seq(Byte) /\ Len(p5) = Width(InhFields)
  BY <1>2, EncodeType, TableTypes
<1>9. /\ a \in Seq(Byte) /\ Len(a) = 1 /\ c \in Seq(Byte) /\ Len(c) = 1
  BY <1>7 DEF Byte
<1>10. /\ b \in Seq(Byte) /\ Len(b) = TextLen(hw) /\ d \in Seq(Byte) /\ Len(d) = TextLen(ad)
  BY <1>1, <1>7, CharsType
<1>11. /\ p2 \in Seq(Byte) /\ Len(p2) = 1 + TextLen(sw)
       /\ p6 \in Seq(Byte) /\ Len(p6) = 1 + TextLen(user)
  BY <1>1, <1>7, TextType
<1> HIDE DEF a, b, c, d, p, p1, p2, p5, p6
<1>12. /\ a \o b \in Seq(Byte) /\ Len(a \o b) = 1 + TextLen(hw)
       /\ c \o d \in Seq(Byte) /\ Len(c \o d) = 1 + TextLen(ad)
  <2>1. a \o b \in Seq(Byte) /\ Len(a \o b) = Len(a) + Len(b)
    BY <1>9, <1>10, ConcatProperties
  <2>2. c \o d \in Seq(Byte) /\ Len(c \o d) = Len(c) + Len(d)
    BY <1>9, <1>10, ConcatProperties
  <2> QED BY <1>9, <1>10, <2>1, <2>2, Zenon
<1>13. p1 \o p2 \in Seq(Byte)
  BY <1>8, <1>11, ConcatProperties
<1>14. p1 \o p2 \o a \o b \o c \o d = p1 \o p2 \o (a \o b) \o (c \o d)
  <2> DEFINE x == p1 \o p2
  <2>0. x \in Seq(Byte)
    BY <1>13
  <2> HIDE DEF x
  <2>1. a \in Seq(Byte)
    BY <1>9
  <2>2. b \in Seq(Byte)
    BY <1>10
  <2>3. c \in Seq(Byte)
    BY <1>9
  <2>4. d \in Seq(Byte)
    BY <1>10
  <2>5. x \o a \o b = x \o (a \o b)
    BY <2>0, <2>1, <2>2, ConcatAssociative
  <2> DEFINE y == x \o (a \o b)
  <2>6. y \in Seq(Byte)
    BY <2>0, <1>12, ConcatProperties
  <2> HIDE DEF y
  <2>7. y \o c \o d = y \o (c \o d)
    BY <2>6, <2>3, <2>4, ConcatAssociative
  <2> QED BY <2>5, <2>7, Zenon DEF x, y
<1>15. InhBody(m) = p1 \o p2 \o (a \o b) \o (c \o d) \o p5 \o p6
  BY <1>6, <1>14, Zenon
<1> DEFINE ab == a \o b
           cd == c \o d
<1>16. /\ p[1] = p1 /\ p[2] = p2 /\ p[3] = ab /\ p[4] = cd /\ p[5] = p5 /\ p[6] = p6
  <2> HIDE DEF ab, cd
  <2>1. p = <<p1, p2, ab, cd, p5, p6>>
    BY <1>5 DEF ab, cd
  <2> QED BY <2>1
<1>17. InhBody(m) = p[1] \o p[2] \o p[3] \o p[4] \o p[5] \o p[6]
  BY <1>15, <1>16, Zenon DEF ab, cd
<1>18. /\ p[1] \in Seq(Byte) /\ Len(p[1]) = Width(VehicleField)
       /\ p[2] \in Seq(Byte) /\ Len(p[2]) = 1 + TextLen(sw)
       /\ p[3] \in Seq(Byte) /\ Len(p[3]) = 1 + TextLen(hw)
       /\ p[4] \in Seq(Byte) /\ Len(p[4]) = 1 + TextLen(ad)
       /\ p[5] \in Seq(Byte) /\ Len(p[5]) = Width(InhFields)
       /\ p[6] \in Seq(Byte) /\ Len(p[6]) = 1 + TextLen(user)
  BY <1>8, <1>11, <1>12, <1>16, Zenon DEF ab, cd
<1>19. InhShape(m, p)
  BY <1>1, <1>16, <1>17, <1>18, Zenon DEF InhShape, p1, p5, SV, SI
<1> QED BY <1>19 DEF p

\* A header takes 16 bytes.
LEMMA HeaderBytes ==
  ASSUME NEW h, IsHeader(h)
  PROVE  Encode(HeaderFields, h) \in Seq(Byte) /\ Len(Encode(HeaderFields, h)) = 16
<1>1. HeaderFields \in Seq(Field) /\ Fits(HeaderFields, h)
  BY TableTypes DEF IsHeader
<1> QED BY <1>1, EncodeType, HeaderShape DEF HeaderLen

\* The length in full, of which a text of 255 bytes or more leaves something out.
FullLen(sw, hw, ad, user) ==
  Width(VehicleField) + Width(InhFields) + 4 + Len(sw) + Len(hw) + Len(ad) + Len(user)

\* The length declared is short of the length in full if and only if a text is too
\* long: what Veh2CloudInh::to_bytes compares before it writes its body.
LEMMA InhLenIsFull ==
  ASSUME NEW sw \in Seq(Byte), NEW hw \in Seq(Byte), NEW ad \in Seq(Byte), NEW user \in Seq(Byte)
  PROVE  /\ InhLen(sw, hw, ad, user) \in Nat /\ FullLen(sw, hw, ad, user) \in Nat
         /\ InhLen(sw, hw, ad, user) < FullLen(sw, hw, ad, user)
              <=> ~(Len(sw) < 255 /\ Len(hw) < 255 /\ Len(ad) < 255 /\ Len(user) < 255)
<1> DEFINE v == Width(VehicleField)
           i == Width(InhFields)
<1>1. v \in Nat /\ i \in Nat
  BY WidthTypes
<1> HIDE DEF v, i
<1>2. \A t \in Seq(Byte) : /\ TextLen(t) \in Nat /\ Len(t) \in Nat /\ TextLen(t) <= Len(t)
                           /\ TextLen(t) < Len(t) <=> ~(Len(t) < 255)
  BY TextLenIs
<1> DEFINE a == TextLen(sw)
           b == TextLen(hw)
           c == TextLen(ad)
           d == TextLen(user)
           A == Len(sw)
           B == Len(hw)
           C == Len(ad)
           D == Len(user)
<1>3. /\ a \in Nat /\ A \in Nat /\ a <= A /\ (a < A <=> ~(A < 255))
      /\ b \in Nat /\ B \in Nat /\ b <= B /\ (b < B <=> ~(B < 255))
      /\ c \in Nat /\ C \in Nat /\ c <= C /\ (c < C <=> ~(C < 255))
      /\ d \in Nat /\ D \in Nat /\ d <= D /\ (d < D <=> ~(D < 255))
  BY <1>2
<1>4. /\ InhLen(sw, hw, ad, user) = v + i + 4 + a + b + c + d
      /\ FullLen(sw, hw, ad, user) = v + i + 4 + A + B + C + D
  BY DEF InhLen, FullLen, v, i
<1> HIDE DEF a, b, c, d, A, B, C, D
<1>5. /\ v + i + 4 + a + b + c + d \in Nat /\ v + i + 4 + A + B + C + D \in Nat
      /\ v + i + 4 + a + b + c + d < v + i + 4 + A + B + C + D
           <=> ~(A < 255 /\ B < 255 /\ C < 255 /\ D < 255)
  BY <1>1, <1>3
<1> QED BY <1>4, <1>5 DEF A, B, C, D

\* A Veh2CloudInh is written with its body if and only if no text is too long, and
\* has the length that pack() reserves then.
LEMMA InhToBytes ==
  ASSUME NEW sw, NEW hw, NEW ad, NEW user, NEW m, IsInh(m, sw, hw, ad, user)
  PROVE  /\ PackSize(m) \in Nat /\ PackSize(m) >= 16
         /\ InhBody(m) \in Seq(Byte) /\ Len(InhBody(m)) = PackSize(m) - 16
         /\ ToBytes(m, PackSize(m)) = IF ShortTexts(m)
                                      THEN Encode(HeaderFields, m.hdr) \o InhBody(m)
                                      ELSE Encode(HeaderFields, m.hdr)
<1> DEFINE len == InhLen(sw, hw, ad, user)
           L == FullLen(sw, hw, ad, user)
           hdr == Encode(HeaderFields, m.hdr)
           p == InhParts(m)
<1>1. /\ m.kind = "inh" /\ m.sw = sw /\ m.hw = hw /\ m.ad = ad /\ m.user = user
      /\ PackSize(m) = 16 + len
  BY DEF IsInh
<1>0. sw \in Seq(Byte) /\ hw \in Seq(Byte) /\ ad \in Seq(Byte) /\ user \in Seq(Byte)
  BY DEF IsInh
<1>2. len \in Nat /\ L \in Nat
      /\ (len < L <=> ~(Len(sw) < 255 /\ Len(hw) < 255 /\ Len(ad) < 255 /\ Len(user) < 255))
  BY <1>0, InhLenIsFull
<1>3. InhBody(m) \in Seq(Byte) /\ Len(InhBody(m)) = len
  <2>1. InhShape(m, p)
    BY InhPartsAre
  <2> HIDE DEF p
  <2>2. SixParts(InhBody(m), p[1], p[2], p[3], p[4], p[5], p[6])
    BY <2>1, SixPartsOf, Zenon DEF InhShape
  <2>3. /\ TextLen(sw) \in Nat /\ TextLen(hw) \in Nat /\ TextLen(ad) \in Nat /\ TextLen(user) \in Nat
        /\ Width(VehicleField) \in Nat /\ Width(InhFields) \in Nat
    BY <1>0, TextLenIs, WidthTypes
  <2>4. len = Width(VehicleField) + Width(InhFields) + 4 + TextLen(sw) + TextLen(hw)
                + TextLen(ad) + TextLen(user)
    BY DEF InhLen
  <2>5. /\ Len(p[1]) = Width(VehicleField) /\ Len(p[5]) = Width(InhFields)
        /\ Len(p[2]) = 1 + TextLen(sw) /\ Len(p[3]) = 1 + TextLen(hw)
        /\ Len(p[4]) = 1 + TextLen(ad) /\ Len(p[6]) = 1 + TextLen(user)
    BY <2>1, <1>1 DEF InhShape
  <2>6. /\ InhBody(m) \in Seq(Byte)
        /\ Len(InhBody(m)) = Len(p[1]) + Len(p[2]) + Len(p[3]) + Len(p[4]) + Len(p[5]) + Len(p[6])
    BY <2>2, Zenon DEF SixParts
  <2> DEFINE v == Width(VehicleField)
             i == Width(InhFields)
             t1 == TextLen(sw)
             t2 == TextLen(hw)
             t3 == TextLen(ad)
             t4 == TextLen(user)
  <2>7. Len(InhBody(m)) = v + (1 + t1) + (1 + t2) + (1 + t3) + i + (1 + t4)
    BY <2>5, <2>6, Zenon
  <2>8. /\ v \in Nat /\ i \in Nat /\ t1 \in Nat /\ t2 \in Nat /\ t3 \in Nat /\ t4 \in Nat
        /\ len = v + i + 4 + t1 + t2 + t3 + t4
    BY <2>3, <2>4
  <2> HIDE DEF v, i, t1, t2, t3, t4, len
  <2>9. v + (1 + t1) + (1 + t2) + (1 + t3) + i + (1 + t4) = len
    BY <2>8
  <2> QED BY <2>6, <2>7, <2>9, Zenon
<1> HIDE DEF len, L, p
<1>4. TooShort(PackSize(m), HeaderLen, BodyLen(m)) <=> ~ShortTexts(m)
  <2>1. BodyLen(m) = L
    <3>1. BodyLen(m) = Width(VehicleField \o InhFields) + 4 + Len(m.sw) + Len(m.hw)
                                + Len(m.ad) + Len(m.user)
      BY <1>1 DEF BodyLen
    <3> QED BY <3>1, <1>1, WidthTypes DEF L, FullLen
  <2>2. ShortTexts(m) <=> Len(sw) < 255 /\ Len(hw) < 255 /\ Len(ad) < 255 /\ Len(user) < 255
    BY <1>1 DEF ShortTexts
  <2>3. TooShort(16 + len, 16, L) <=> len < L
    BY <1>2 DEF TooShort
  <2>4. HeaderLen = 16
    BY HeaderShape
  <2> QED BY <1>1, <1>2, <2>1, <2>2, <2>3, <2>4, Zenon
<1>5. ToBytes(m, PackSize(m)) = IF ShortTexts(m) THEN hdr \o InhBody(m) ELSE hdr
  <2>1. m.kind = "inh" /\ m.kind # "state2" /\ m.kind # "header"
    BY <1>1
  <2> HIDE DEF hdr
  <2> QED BY <2>1, <1>4 DEF ToBytes, hdr
<1> QED BY <1>1, <1>2, <1>3, <1>5

-----------------------------------------------------------------------------
(* unpack *)

\* What unpack() does with a message of this type and version.
Dispatch(buf, stale, size, type, version) ==
  /\ type \in {HEARTBEAT, HEARTBEAT_RES} =>
       Unpack(buf, stale, size) = {[Blank EXCEPT !.hdr = ReadHeader(buf, stale, size)]}
  /\ type = VEH2CLOUD_INH => Unpack(buf, stale, size) = {ReadInh(buf, stale, size)}
  /\ type = CLOUD2VEH_INH_RES => Unpack(buf, stale, size) = ReadRes(buf, stale, size)
  /\ type = VEH2CLOUD_STATE /\ version = 1 =>
       Unpack(buf, stale, size) = {ReadState(buf, stale, size)}
  /\ type = VEH2CLOUD_STATE /\ version = 2 =>
       Unpack(buf, stale, size) = {ReadState2(buf, stale, size)}

\* See Dispatch.
LEMMA UnpackIs ==
  ASSUME NEW buf, NEW stale, NEW size \in Nat \ {0}, NEW type, NEW version,
         Slice(buf, stale, 0, 1) = << 242 >>,
         Slice(buf, stale, 5, 1) = <<type>>,
         Slice(buf, stale, 6, 1) = <<version>>
  PROVE  Dispatch(buf, stale, size, type, version)
<1> DEFINE U(t, v) ==
             CASE t \in {HEARTBEAT, HEARTBEAT_RES} ->
                     {[Blank EXCEPT !.hdr = ReadHeader(buf, stale, size)]}
               [] t = VEH2CLOUD_INH     -> {ReadInh(buf, stale, size)}
               [] t = CLOUD2VEH_INH_RES -> ReadRes(buf, stale, size)
               [] t = VEH2CLOUD_STATE /\ v = 1 -> {ReadState(buf, stale, size)}
               [] t = VEH2CLOUD_STATE /\ v = 2 -> {ReadState2(buf, stale, size)}
               [] OTHER -> {Nothing}
<1>1. Slice(buf, stale, 0, 1)[1] = 242
  OBVIOUS
<1>2. Slice(buf, stale, 5, 1)[1] = type /\ Slice(buf, stale, 6, 1)[1] = version
  OBVIOUS
<1>3. Unpack(buf, stale, size)
        = CASE size = 0 \/ Slice(buf, stale, 0, 1)[1] # 242 -> {Nothing}
            [] OTHER -> U(type, version)
  BY <1>2, Zenon DEF Unpack
<1>4. Unpack(buf, stale, size) = U(type, version)
  <2> HIDE DEF U
  <2>1. ~(size = 0 \/ Slice(buf, stale, 0, 1)[1] # 242)
    BY <1>1
  <2> QED BY <1>3, <2>1
<1> DEFINE h == {[Blank EXCEPT !.hdr = ReadHeader(buf, stale, size)]}
<1>5. U(type, version) =
             CASE type \in {12, 13} -> h
               [] type = 52     -> {ReadInh(buf, stale, size)}
               [] type = 53 -> ReadRes(buf, stale, size)
               [] type = 21 /\ version = 1 -> {ReadState(buf, stale, size)}
               [] type = 21 /\ version = 2 -> {ReadState2(buf, stale, size)}
               [] OTHER -> {Nothing}
  BY Zenon DEF HEARTBEAT, HEARTBEAT_RES, VEH2CLOUD_INH, CLOUD2VEH_INH_RES, VEH2CLOUD_STATE
<1> HIDE DEF U, h
<1>6. /\ type \in {12, 13} => U(type, version) = h
      /\ type = 52 => U(type, version) = {ReadInh(buf, stale, size)}
      /\ type = 53 => U(type, version) = ReadRes(buf, stale, size)
      /\ type = 21 /\ version = 1 => U(type, version) = {ReadState(buf, stale, size)}
      /\ type = 21 /\ version = 2 => U(type, version) = {ReadState2(buf, stale, size)}
  BY <1>5
<1> QED BY <1>4, <1>6, Zenon DEF Dispatch, h, HEARTBEAT, HEARTBEAT_RES, VEH2CLOUD_INH,
           CLOUD2VEH_INH_RES, VEH2CLOUD_STATE

\* A header with this type and version, at the beginning of a buffer.
LEMMA UnpackHeld ==
  ASSUME NEW h, IsHeader(h), h[1] = << 242 >>, NEW type, h[3] = <<type>>,
         NEW version, h[4] = <<version>>,
         NEW buf \in Seq(Byte), NEW stale, NEW size \in Nat, size >= 16,
         Holds(buf, 0, Encode(HeaderFields, h))
  PROVE  ReadHeader(buf, stale, size) = h /\ Dispatch(buf, stale, size, type, version)
<1>1. HeaderRead(buf, stale, h)
  BY HeaderHeld
<1>2. /\ Slice(buf, stale, 0, 1) = << 242 >> /\ Slice(buf, stale, 5, 1) = <<type>>
      /\ Slice(buf, stale, 6, 1) = <<version>> /\ ReadHeader(buf, stale, size) = h
  BY <1>1, Zenon DEF HeaderRead
<1>3. size \in Nat \ {0}
  OBVIOUS
<1>4. Dispatch(buf, stale, size, type, version)
  BY <1>2, <1>3, UnpackIs
<1> QED BY <1>2, <1>4

-----------------------------------------------------------------------------
(* The Veh2CloudInh *)

\* The sample values of a table are read as they were written.
LEMMA SampleHeld ==
  ASSUME NEW fields \in Seq(Field), NEW buf \in Seq(Byte), NEW off \in Nat, NEW stale,
         Holds(buf, off, Encode(fields, Sample(fields)))
  PROVE  Decode(fields, buf, stale, off) = Sample(fields)
<1>1. Fits(fields, Sample(fields))
  BY SampleFits
<1>2. Decode(fields, buf, stale, off) = [i \in DOMAIN fields |-> Sample(fields)[i]]
  BY <1>1, DecodeHeld
<1> QED BY <1>2 DEF Sample

\* Cut down to its header, it is unpacked as that header.
LEMMA InhHeaderUnpacked ==
  ASSUME NEW sw, NEW hw, NEW ad, NEW user, NEW m, IsInh(m, sw, hw, ad, user), NEW stale
  PROVE  LET buf == Encode(HeaderFields, m.hdr)
         IN  Unpack(buf, stale, Len(buf)) = {[Blank EXCEPT !.kind = "inh", !.hdr = m.hdr]}
<1> DEFINE h == m.hdr
           buf == Encode(HeaderFields, h)
<1>1. /\ IsHeader(h) /\ h[1] = << 242 >> /\ h[3] = <<VEH2CLOUD_INH>> /\ h[4] = << 1 >>
  BY DEF IsInh
<1>2. buf \in Seq(Byte) /\ Len(buf) = 16
  BY <1>1, HeaderBytes
<1> HIDE DEF h
<1>3. Holds(buf, 0, Encode(HeaderFields, h))
  <2> HIDE DEF buf
  <2>1. Holds(buf, 0, buf)
    BY <1>2 DEF Holds
  <2> QED BY <2>1 DEF buf
<1> HIDE DEF buf
<1>4. ReadHeader(buf, stale, 16) = h /\ Dispatch(buf, stale, 16, VEH2CLOUD_INH, 1)
  <2>1. 16 \in Nat /\ 16 >= 16
    OBVIOUS
  <2> QED BY <1>1, <1>2, <1>3, <2>1, UnpackHeld, ZenonT(30)
<1>5. Unpack(buf, stale, 16) = {ReadInh(buf, stale, 16)}
  BY <1>4 DEF Dispatch
<1>6. Truncated(16, HeaderLen, Width(VehicleField \o InhFields) + 4)
  <2> DEFINE w == Width(VehicleField \o InhFields)
  <2>1. w \in Nat
    BY WidthTypes
  <2> HIDE DEF w
  <2>2. TooShort(16, 16, w + 4)
    BY <2>1 DEF TooShort
  <2> QED BY <2>2, HeaderShape, Zenon DEF Truncated, w
<1>7. ReadInh(buf, stale, 16) = [Blank EXCEPT !.kind = "inh", !.hdr = h]
  BY <1>4, <1>6, Zenon DEF ReadInh
<1> QED BY <1>2, <1>5, <1>7, Zenon DEF buf, h

\* A version text that its length byte can count is read as it was written.
LEMMA VersionHeld ==
  ASSUME NEW t \in Seq(Byte), Len(t) < 255, NEW buf \in Seq(Byte), NEW off \in Nat, NEW stale,
         Holds(buf, off, <<Len(t)>> \o t)
  PROVE  ReadText(buf, stale, off, TRUE) = [text |-> t, next |-> off + 1 + Len(t)]
<1>1. TRUE \in BOOLEAN
  OBVIOUS
<1> QED BY <1>1, TextHeld, Zenon

\* Whole and with three equal versions, it is unpacked as it was.
LEMMA InhUnpacked ==
  ASSUME NEW t \in Seq(Byte), NEW user \in Seq(Byte), Len(t) < 255, Len(user) < 255,
         NEW m, m = NewInh(t, t, t, user), NEW stale,
         NEW buf \in Seq(Byte), NEW size \in Nat, size >= PackSize(m),
         Holds(buf, 0, Encode(HeaderFields, m.hdr) \o InhBody(m))
  PROVE  Unpack(buf, stale, size) = {m}
<1> DEFINE h == m.hdr
           p == InhParts(m)
           n == Len(t)
           k == Len(user)
           V == Width(VehicleField)
           I == Width(InhFields)
<1>1. /\ IsInh(m, t, t, t, user)
      /\ m = [Blank EXCEPT !.kind = "inh", !.hdr = m.hdr, !.body = m.body, !.sw = t,
                           !.hw = t, !.ad = t, !.user = user]
  <2>1. InhMade(m, t, t, t, user)
    BY InhIs
  <2> QED BY <2>1, Zenon DEF InhMade
<1>2. /\ IsHeader(h) /\ h[1] = << 242 >> /\ h[3] = <<VEH2CLOUD_INH>> /\ h[4] = << 1 >>
      /\ m.sw = t /\ m.hw = t /\ m.ad = t /\ m.user = user
      /\ m.body = Sample(VehicleField) \o Sample(InhFields)
      /\ PackSize(m) = 16 + InhLen(t, t, t, user)
  BY <1>1 DEF IsInh
<1> HIDE DEF h
<1>3. Encode(HeaderFields, h) \in Seq(Byte) /\ Len(Encode(HeaderFields, h)) = 16
  BY <1>2, HeaderBytes
<1>4. InhBody(m) \in Seq(Byte) /\ PackSize(m) \in Nat
  BY <1>1, InhToBytes
<1>5. Holds(buf, 0, Encode(HeaderFields, h)) /\ Holds(buf, 16, InhBody(m))
  <2> DEFINE e == Encode(HeaderFields, h)
             b == InhBody(m)
  <2>1. Holds(buf, 0, e \o b)
    BY DEF h
  <2>2. e \in Seq(Byte)
    BY <1>3
  <2>3. b \in Seq(Byte)
    BY <1>4
  <2>4. 0 + Len(e) = 16
    BY <1>3
  <2> HIDE DEF e, b
  <2>5. Holds(buf, 0, e) /\ Holds(buf, 0 + Len(e), b)
    BY <2>1, <2>2, <2>3, HoldsConcat
  <2> QED BY <2>4, <2>5, Zenon DEF e, b
<1>6. V \in Nat /\ I \in Nat /\ n \in Nat /\ k \in Nat /\ TextLen(t) = n /\ TextLen(user) = k
  BY WidthTypes, TextLenIs
<1>7. /\ p[1] = Encode(VehicleField, Sample(VehicleField)) /\ Len(p[1]) = V
      /\ p[5] = Encode(InhFields, Sample(InhFields)) /\ Len(p[5]) = I
      /\ Len(p[2]) = 1 + n /\ Len(p[3]) = 1 + n /\ Len(p[4]) = 1 + n
      /\ SixParts(InhBody(m), p[1], p[2], p[3], p[4], p[5], p[6])
  <2>1. InhShape(m, p)
    BY <1>1, InhPartsAre
  <2> HIDE DEF p
  <2>2. SixParts(InhBody(m), p[1], p[2], p[3], p[4], p[5], p[6])
    BY <2>1, SixPartsOf, Zenon DEF InhShape
  <2> QED BY <1>2, <1>6, <2>1, <2>2, Zenon DEF InhShape
<1>8. /\ p[2] = <<n>> \o t /\ p[3] = <<n>> \o t /\ p[4] = <<n>> \o t /\ p[6] = <<k>> \o user
  <2>1. Chars(t, n) = t /\ Chars(user, k) = user
    BY <1>6, CharsType
  <2>2. p = << Encode(VehicleField, m.body), <<n>> \o t, <<n>> \o t, <<n>> \o t,
               Encode(InhFields, Tail(m.body)), <<k>> \o user >>
    BY <1>2, <1>6, <2>1 DEF InhParts, Text
  <2> HIDE DEF p
  <2>3. \A a1, a2, a3, a4, a5, a6 : p = <<a1, a2, a3, a4, a5, a6>> =>
          p[2] = a2 /\ p[3] = a3 /\ p[4] = a4 /\ p[6] = a6
    OBVIOUS
  <2> QED BY <2>2, <2>3, Zenon
<1> HIDE DEF p
<1> DEFINE o1 == 16 + V
           o2 == o1 + 1 + n
           o3 == o2 + 1 + n
           o4 == o3 + 1 + n
           o5 == o4 + I
<1>9. /\ Holds(buf, 16, p[1]) /\ Holds(buf, o1, p[2]) /\ Holds(buf, o2, p[3])
      /\ Holds(buf, o3, p[4]) /\ Holds(buf, o4, p[5]) /\ Holds(buf, o5, p[6])
  <2>1. /\ Holds(buf, 16, p[1])
        /\ Holds(buf, 16 + Len(p[1]), p[2])
        /\ Holds(buf, 16 + Len(p[1]) + Len(p[2]), p[3])
        /\ Holds(buf, 16 + Len(p[1]) + Len(p[2]) + Len(p[3]), p[4])
        /\ Holds(buf, 16 + Len(p[1]) + Len(p[2]) + Len(p[3]) + Len(p[4]), p[5])
        /\ Holds(buf, 16 + Len(p[1]) + Len(p[2]) + Len(p[3]) + Len(p[4]) + Len(p[5]), p[6])
    <3>1. 16 \in Nat
      OBVIOUS
    <3> QED BY <1>5, <1>7, <3>1, Zenon DEF SixParts
  <2>2. /\ 16 + V + (1 + n) = o2 /\ 16 + V + (1 + n) + (1 + n) = o3
        /\ 16 + V + (1 + n) + (1 + n) + (1 + n) = o4
    <3> HIDE DEF V, I, n, k
    <3> QED BY <1>6
  <2> HIDE DEF V, I, n
  <2> QED BY <2>1, <2>2, <1>7, Zenon
<1>10. o1 \in Nat /\ o2 \in Nat /\ o3 \in Nat /\ o4 \in Nat /\ o5 \in Nat
  <2> HIDE DEF V, I, n, k
  <2> QED BY <1>6
<1>11. o1 = HeaderLen + Width(VehicleField) /\ o5 = o4 + Width(InhFields) /\ HeaderLen = 16
  BY HeaderShape
<1> HIDE DEF o1, o2, o3, o4, o5, V, I
<1>12. /\ ReadText(buf, stale, o1, TRUE) = [text |-> t, next |-> o2]
       /\ ReadText(buf, stale, o2, TRUE) = [text |-> t, next |-> o3]
       /\ ReadText(buf, stale, o3, TRUE) = [text |-> t, next |-> o4]
  <2>1. Holds(buf, o1, <<Len(t)>> \o t) /\ Holds(buf, o2, <<Len(t)>> \o t)
        /\ Holds(buf, o3, <<Len(t)>> \o t)
    BY <1>8, <1>9, Zenon
  <2>3. ReadText(buf, stale, o1, TRUE) = [text |-> t, next |-> o1 + 1 + Len(t)]
    BY <1>10, <2>1, VersionHeld
  <2>4. ReadText(buf, stale, o2, TRUE) = [text |-> t, next |-> o2 + 1 + Len(t)]
    BY <1>10, <2>1, VersionHeld
  <2>5. ReadText(buf, stale, o3, TRUE) = [text |-> t, next |-> o3 + 1 + Len(t)]
    BY <1>10, <2>1, VersionHeld
  <2> QED BY <2>3, <2>4, <2>5, Zenon DEF o2, o3, o4
<1>13. ReadText(buf, stale, o5, FALSE).text = user
  <2>1. Holds(buf, o5, <<Len(user)>> \o user) /\ FALSE \in BOOLEAN
    BY <1>8, <1>9, Zenon
  <2> DEFINE r == ReadText(buf, stale, o5, FALSE)
  <2>2. r = [text |-> user, next |-> o5 + 1 + Len(user)]
    BY <1>10, <2>1, TextHeld, ZenonT(30)
  <2>3. r.text = user
    <3> HIDE DEF r
    <3> QED BY <2>2
  <2> QED BY <2>3, Zenon
<1>14. /\ Decode(VehicleField, buf, stale, HeaderLen) = Sample(VehicleField)
       /\ Decode(InhFields, buf, stale, o4) = Sample(InhFields)
  <2>1. VehicleField \in Seq(Field) /\ InhFields \in Seq(Field)
    BY TableTypes
  <2>2. Holds(buf, 16, Encode(VehicleField, Sample(VehicleField)))
        /\ Holds(buf, o4, Encode(InhFields, Sample(InhFields)))
    BY <1>7, <1>9
  <2> QED BY <1>10, <1>11, <2>1, <2>2, SampleHeld
<1>15. size >= 16 /\ ~Truncated(size, HeaderLen, Width(VehicleField \o InhFields) + 4)
  <2> DEFINE w == Width(VehicleField \o InhFields)
             len == InhLen(t, t, t, user)
  <2>1. w \in Nat /\ len \in Nat /\ len = w + 4 + n + n + n + k
    <3>1. len \in Nat /\ w + 4 + TextLen(t) + TextLen(t) + TextLen(t) + TextLen(user) = len
      BY InhLenType
    <3>2. w \in Nat
      BY WidthTypes
    <3> QED BY <1>6, <3>1, <3>2, Zenon
  <2>2. size >= 16 + len
    BY <1>2
  <2> HIDE DEF w, len, n, k
  <2>3. size >= 16 /\ ~(size < 16) /\ ~(size - 16 < w + 4)
    BY <1>6, <2>1, <2>2
  <2>4. ~TooShort(size, 16, w + 4)
    BY <2>3 DEF TooShort
  <2> QED BY <1>11, <2>3, <2>4, Zenon DEF Truncated, w
<1>16. ReadHeader(buf, stale, size) = h /\ Dispatch(buf, stale, size, VEH2CLOUD_INH, 1)
  BY <1>2, <1>5, <1>15, UnpackHeld
<1>17. Unpack(buf, stale, size) = {ReadInh(buf, stale, size)}
  BY <1>16 DEF Dispatch
<1>18. ReadInh(buf, stale, size) = m
  <2> DEFINE s == ReadText(buf, stale, HeaderLen + Width(VehicleField), TRUE)
             x == ReadText(buf, stale, s.next, TRUE)
             y == ReadText(buf, stale, x.next, TRUE)
             u == ReadText(buf, stale, y.next + Width(InhFields), FALSE)
  <2>1. s = [text |-> t, next |-> o2]
    BY <1>11, <1>12, Zenon
  <2>2. s.text = t /\ s.next = o2
    <3> HIDE DEF s
    <3> QED BY <2>1
  <2>3. x = [text |-> t, next |-> o3]
    BY <1>12, <2>2, Zenon
  <2>4. x.text = t /\ x.next = o3
    <3> HIDE DEF x
    <3> QED BY <2>3
  <2>5. y = [text |-> t, next |-> o4]
    BY <1>12, <2>4, Zenon
  <2>6. y.text = t /\ y.next = o4
    <3> HIDE DEF y
    <3> QED BY <2>5
  <2>7. u.text = user
    BY <1>11, <1>13, <2>6, Zenon
  <2>8. ReadInh(buf, stale, size)
          = [[Blank EXCEPT !.kind = "inh", !.hdr = ReadHeader(buf, stale, size)] EXCEPT
                !.body = Decode(VehicleField, buf, stale, HeaderLen)
                            \o Decode(InhFields, buf, stale, y.next),
                !.sw = s.text, !.hw = x.text, !.ad = y.text, !.user = u.text]
    BY <1>15, Zenon DEF ReadInh
  <2>9. ReadInh(buf, stale, size)
          = [Blank EXCEPT !.kind = "inh", !.hdr = h, !.body = m.body, !.sw = t,
                          !.hw = t, !.ad = t, !.user = user]
    BY <1>2, <1>14, <1>16, <2>2, <2>4, <2>6, <2>7, <2>8, Zenon
  <2> QED BY <1>1, <2>9, Zenon DEF h
<1> QED BY <1>17, <1>18

-----------------------------------------------------------------------------
(* The heartbeat, its answer, and the answer to a Veh2CloudInh *)

\* A message that is a header, whatever its timestamp.
IsPlain(m) ==
  /\ IsHeader(m.hdr) /\ m.hdr[1] = << 242 >> /\ m.hdr[4] = << 1 >>
  /\ m.hdr[3] \in {<<HEARTBEAT>>, <<HEARTBEAT_RES>>}
  /\ DataLen(m) = 0
  /\ m = [Blank EXCEPT !.hdr = m.hdr]

\* What a Cloud2VehInhRes may say.
AnswerBody(b) == b \in Seq(Seq(Byte)) /\ Len(b) = Len(ResFields) /\ Fits(ResFields, b)

\* A Cloud2VehInhRes, whatever its timestamp and whatever it says.
IsRes(m) ==
  /\ IsHeader(m.hdr) /\ m.hdr[1] = << 242 >> /\ m.hdr[4] = << 1 >>
  /\ m.hdr[3] = <<CLOUD2VEH_INH_RES>>
  /\ DataLen(m) = Width(ResFields)
  /\ AnswerBody(m.body)
  /\ m = [Blank EXCEPT !.kind = "res", !.hdr = m.hdr, !.body = m.body]

\* The header of a heartbeat and of its answer.
LEMMA PlainIs ==
  ASSUME NEW type \in {HEARTBEAT, HEARTBEAT_RES}
  PROVE  IsPlain(NewHeader(type))
<1> DEFINE H == Header(0, type, 1)
           m == NewHeader(type)
<1>1. m = [Blank EXCEPT !.hdr = H]
  BY Zenon DEF NewHeader
<1>2. /\ IsHeader(H) /\ H[1] = << 242 >> /\ H[3] = <<type>> /\ H[4] = << 1 >> /\ Number(H[2]) = 0
  <2>1. 0 \in Nat /\ type \in Byte /\ 1 \in Byte
    BY DEF Byte, HEARTBEAT, HEARTBEAT_RES
  <2> HIDE DEF m
  <2> QED BY <2>1, HeaderIs
<1> HIDE DEF H, m
<1>3. m.hdr = H
  BY <1>1 DEF Blank
<1> QED BY <1>1, <1>2, <1>3, Zenon DEF IsPlain, DataLen, m

\* The constructor of Cloud2VehInhRes.
LEMMA ResIs == IsRes(NewRes)
<1> DEFINE w == Width(ResFields)
           H == Header(w, CLOUD2VEH_INH_RES, 1)
           S == Sample(ResFields)
           m == NewRes
<1>1. m = [Blank EXCEPT !.kind = "res", !.body = S, !.hdr = H]
  BY Zenon DEF NewRes
<1>2. /\ IsHeader(H) /\ H[1] = << 242 >> /\ H[3] = <<CLOUD2VEH_INH_RES>> /\ H[4] = << 1 >>
      /\ Number(H[2]) = w
  <2>1. w \in Nat
    BY WidthTypes
  <2>2. CLOUD2VEH_INH_RES \in Byte /\ 1 \in Byte
    BY DEF Byte, CLOUD2VEH_INH_RES
  <2> HIDE DEF m, w
  <2> QED BY <2>1, <2>2, HeaderIs
<1> HIDE DEF H, m, S
<1>3. m.hdr = H /\ m.body = S /\ m = [Blank EXCEPT !.kind = "res", !.hdr = H, !.body = S]
  BY <1>1 DEF Blank
<1>4. AnswerBody(S)
  BY TableTypes, SampleFits, Zenon DEF AnswerBody, S
<1> QED BY <1>2, <1>3, <1>4, Zenon DEF IsRes, DataLen, m

\* What an answer says is read as it was written.
LEMMA AnswerHeld ==
  ASSUME NEW v, AnswerBody(v), NEW buf \in Seq(Byte), NEW off \in Nat, NEW stale,
         Holds(buf, off, Encode(ResFields, v))
  PROVE  Decode(ResFields, buf, stale, off) = v
<1>1. ResFields \in Seq(Field) /\ Fits(ResFields, v)
  BY TableTypes DEF AnswerBody
<1>2. Decode(ResFields, buf, stale, off) = [i \in DOMAIN ResFields |-> v[i]]
  BY <1>1, DecodeHeld
<1>3. v = [i \in DOMAIN ResFields |-> v[i]]
  BY <1>1 DEF AnswerBody
<1> QED BY <1>2, <1>3

\* The offset behind a header at the beginning of a buffer.
LEMMA BehindHeader ==
  ASSUME NEW h, IsHeader(h), NEW b \in Seq(Byte), NEW buf \in Seq(Byte),
         Holds(buf, 0, Encode(HeaderFields, h) \o b)
  PROVE  Holds(buf, 0, Encode(HeaderFields, h)) /\ Holds(buf, 16, b)
<1> DEFINE e == Encode(HeaderFields, h)
<1>1. e \in Seq(Byte)
  BY HeaderBytes
<1>2. 0 + Len(e) = 16
  BY HeaderBytes
<1> HIDE DEF e
<1>3. Holds(buf, 0, e) /\ Holds(buf, 0 + Len(e), b)
  BY <1>1, HoldsConcat DEF e
<1> QED BY <1>2, <1>3, Zenon DEF e

\* The bytes of a message that is a header.
LEMMA PlainToBytes ==
  ASSUME NEW m, IsPlain(m)
  PROVE  /\ PackSize(m) = 16
         /\ ToBytes(m, PackSize(m)) = Encode(HeaderFields, m.hdr)
<1> DEFINE e == Encode(HeaderFields, m.hdr)
<1>1. IsHeader(m.hdr) /\ DataLen(m) = 0 /\ m.kind = "header" /\ m.pass = <<>> /\ m.wheels = <<>>
  BY DEF IsPlain, Blank
<1>2. e \in Seq(Byte)
  BY <1>1, HeaderBytes
<1>3. PackSize(m) = 16
  BY <1>1, HeaderShape DEF PackSize
<1> HIDE DEF e
<1>4. e \o <<>> = e
  BY <1>2, ConcatEmptySeq
<1>5. ToBytes(m, PackSize(m)) = e
  BY <1>1, <1>4 DEF ToBytes, e
<1> QED BY <1>3, <1>5 DEF e

\* The bytes of a Cloud2VehInhRes.
LEMMA ResToBytes ==
  ASSUME NEW m, IsRes(m)
  PROVE  LET b == Encode(ResFields, m.body)
         IN  /\ PackSize(m) = 16 + Width(ResFields)
             /\ b \in Seq(Byte) /\ Len(b) = Width(ResFields)
             /\ ToBytes(m, PackSize(m)) = Encode(HeaderFields, m.hdr) \o b
<1> DEFINE e == Encode(HeaderFields, m.hdr)
           S == m.body
           b == Encode(ResFields, S)
           w == Width(ResFields)
<1>1. w \in Nat /\ b \in Seq(Byte) /\ Len(b) = w
  <2>1. ResFields \in Seq(Field) /\ Fits(ResFields, S)
    BY TableTypes, Zenon DEF IsRes, AnswerBody
  <2> QED BY <2>1, EncodeType, WidthTypes
<1> HIDE DEF S
<1>2. DataLen(m) = w /\ m.kind = "res" /\ m.body = S
  BY ZenonT(30) DEF IsRes, Blank, S
<1>3. PackSize(m) = 16 + w
  BY <1>2, HeaderShape DEF PackSize
<1>4. ~TooShort(16 + w, 16, w)
  <2> HIDE DEF w
  <2> QED BY <1>1 DEF TooShort
<1>5. ~TooShort(PackSize(m), HeaderLen, BodyLen(m))
  <2>1. BodyLen(m) = w
    BY <1>2 DEF BodyLen
  <2> QED BY <1>3, <1>4, <2>1, HeaderShape, Zenon
<1> HIDE DEF e, b
<1>6. ToBytes(m, PackSize(m)) = e \o b
  BY <1>2, <1>5 DEF ToBytes, e, b
<1> QED BY <1>1, <1>3, <1>6, Zenon DEF e, b, S

\* A message that is a header is unpacked as itself.
LEMMA PlainUnpacked ==
  ASSUME NEW m, IsPlain(m), NEW stale, NEW buf \in Seq(Byte), NEW size \in Nat, size >= 16,
         Holds(buf, 0, Encode(HeaderFields, m.hdr))
  PROVE  Unpack(buf, stale, size) = {m}
<1> PICK type \in {HEARTBEAT, HEARTBEAT_RES} : m.hdr[3] = <<type>>
  BY DEF IsPlain
<1> DEFINE h == m.hdr
<1>1. IsHeader(h) /\ h[1] = << 242 >> /\ h[3] = <<type>> /\ h[4] = << 1 >>
      /\ m = [Blank EXCEPT !.hdr = h]
  BY Zenon DEF IsPlain
<1>2. Holds(buf, 0, Encode(HeaderFields, h))
  OBVIOUS
<1> HIDE DEF h
<1>3. ReadHeader(buf, stale, size) = h /\ Dispatch(buf, stale, size, type, 1)
  BY <1>1, <1>2, UnpackHeld
<1>4. Unpack(buf, stale, size) = {[Blank EXCEPT !.hdr = h]}
  BY <1>3, Zenon DEF Dispatch
<1> QED BY <1>1, <1>4, Zenon

\* A Cloud2VehInhRes is unpacked as itself.
LEMMA ResUnpacked ==
  ASSUME NEW m, IsRes(m), NEW stale, NEW buf \in Seq(Byte),
         NEW size \in Nat, size >= PackSize(m), Holds(buf, 0, ToBytes(m, PackSize(m)))
  PROVE  Unpack(buf, stale, size) = {m}
<1> DEFINE h == m.hdr
           S == m.body
           b == Encode(ResFields, S)
           w == Width(ResFields)
<1>1. IsHeader(h) /\ h[1] = << 242 >> /\ h[3] = <<CLOUD2VEH_INH_RES>> /\ h[4] = << 1 >>
      /\ m = [Blank EXCEPT !.kind = "res", !.hdr = h, !.body = S] /\ DataLen(m) = w /\ AnswerBody(S)
  BY Zenon DEF IsRes
<1>2. PackSize(m) = 16 + w /\ b \in Seq(Byte) /\ w \in Nat
      /\ ToBytes(m, PackSize(m)) = Encode(HeaderFields, h) \o b
  BY ResToBytes, WidthTypes
<1> HIDE DEF h, b, S
<1>3. Holds(buf, 0, Encode(HeaderFields, h)) /\ Holds(buf, 16, b)
  <2>1. Holds(buf, 0, Encode(HeaderFields, h) \o b)
    BY <1>2
  <2> QED BY <1>1, <1>2, <2>1, BehindHeader
<1>4. size >= 16 /\ ~TooShort(size, 16, w)
  <2> HIDE DEF w
  <2> QED BY <1>2 DEF TooShort
<1>5. ReadHeader(buf, stale, size) = h /\ Dispatch(buf, stale, size, CLOUD2VEH_INH_RES, 1)
  BY <1>1, <1>3, <1>4, UnpackHeld
<1>6. Unpack(buf, stale, size) = ReadRes(buf, stale, size)
  BY <1>5 DEF Dispatch
<1>7. Decode(ResFields, buf, stale, HeaderLen) = S
  <2>1. 16 \in Nat
    OBVIOUS
  <2>2. Decode(ResFields, buf, stale, 16) = S
    BY <1>1, <1>3, <2>1, AnswerHeld DEF b
  <2> QED BY <2>2, HeaderShape
<1>8. h # <<>>
  BY <1>1 DEF IsHeader
<1>9. ReadRes(buf, stale, size) = {m}
  <2> DEFINE msg0 == [Blank EXCEPT !.kind = "res", !.hdr = ReadHeader(buf, stale, size)]
             W(o) == [msg0 EXCEPT !.body = Decode(ResFields, buf, stale, o)]
  <2>1. msg0 = [Blank EXCEPT !.kind = "res", !.hdr = h]
    BY <1>5, Zenon
  <2> HIDE DEF msg0
  <2>2. msg0.hdr = h
    BY <2>1 DEF Blank
  <2>3. DataLen(msg0) = DataLen(m)
    <3>1. m.hdr = h
      BY DEF h
    <3> QED BY <2>2, <3>1 DEF DataLen
  <2>4. W(HeaderLen) = m
    <3>1. W(HeaderLen) = [msg0 EXCEPT !.body = S]
      BY <1>7, Zenon
    <3> QED BY <1>1, <2>1, <3>1, Zenon
  <2> HIDE DEF W
  <2>5. ReadRes(buf, stale, size) =
          CASE msg0.hdr = <<>> -> {msg0, W(0)}
            [] msg0.hdr # <<>> /\ TooShort(size, HeaderLen, DataLen(msg0)) -> {msg0}
            [] OTHER -> {W(HeaderLen)}
    BY Zenon DEF ReadRes, msg0, W
  <2>6. msg0.hdr # <<>> /\ ~TooShort(size, HeaderLen, DataLen(msg0))
    BY <1>1, <1>4, <1>8, <2>2, <2>3, HeaderShape, Zenon
  <2> QED BY <2>4, <2>5, <2>6
<1> QED BY <1>6, <1>9

-----------------------------------------------------------------------------
(* The states, without pass points and wheels *)

\* A list without elements takes no bytes.
LEMMA NothingFlat ==
  ASSUME NEW F(_)
  PROVE  FlattenSeq([i \in DOMAIN <<>> |-> F(i)]) = <<>>
<1>1. [i \in DOMAIN <<>> |-> F(i)] = <<>>
  OBVIOUS
<1> QED BY <1>1, FlattenEmpty, Zenon

\* The bytes of a state behind its header.
StateBytes == Encode(StateFields, Sample(StateFields)) \o << 0 >>

StateLen == Width(StateFields) + 1

\* Their number.
LEMMA StateBytesType ==
  /\ StateLen \in Nat /\ StateLen >= 1
  /\ StateBytes \in Seq(Byte) /\ Len(StateBytes) = StateLen
  /\ Encode(StateFields, Sample(StateFields)) \in Seq(Byte)
  /\ Len(Encode(StateFields, Sample(StateFields))) = Width(StateFields)
  /\ << 0 >> \in Seq(Byte) /\ Len(<< 0 >>) = 1 /\ Width(StateFields) \in Nat
<1> DEFINE e == Encode(StateFields, Sample(StateFields))
           w == Width(StateFields)
<1>1. e \in Seq(Byte) /\ Len(e) = w /\ w \in Nat
  <2>1. StateFields \in Seq(Field) /\ Fits(StateFields, Sample(StateFields))
    BY TableTypes, SampleFits
  <2> QED BY <2>1, EncodeType, WidthTypes
<1>2. << 0 >> \in Seq(Byte) /\ Len(<< 0 >>) = 1
  BY DEF Byte
<1> HIDE DEF e, w
<1>3. e \o << 0 >> \in Seq(Byte) /\ Len(e \o << 0 >>) = w + 1
  BY <1>1, <1>2, ConcatProperties
<1>4. w + 1 \in Nat /\ w + 1 >= 1
  BY <1>1
<1> QED BY <1>1, <1>2, <1>3, <1>4, Zenon DEF StateBytes, StateLen, e, w

\* A state without pass points writes these bytes.
LEMMA StateBodyIs ==
  ASSUME NEW m, m.body = Sample(StateFields), m.pass = <<>>
  PROVE  StateBody(m) = StateBytes
<1> DEFINE e == Encode(StateFields, Sample(StateFields))
           f == FlattenSeq([i \in DOMAIN m.pass |-> Encode(PointFields, m.pass[i])])
<1>1. f = <<>>
  <2> DEFINE F(i) == Encode(PointFields, m.pass[i])
  <2>1. FlattenSeq([i \in DOMAIN <<>> |-> F(i)]) = <<>>
    <3> HIDE DEF F
    <3> QED BY NothingFlat
  <2>2. f = FlattenSeq([i \in DOMAIN <<>> |-> F(i)])
    BY Zenon
  <2> QED BY <2>1, <2>2, Zenon
<1>2. Len(m.pass) = 0
  OBVIOUS
<1>3. StateBody(m) = e \o << 0 >> \o <<>>
  BY <1>1, <1>2, Zenon DEF StateBody
<1>4. e \o << 0 >> \in Seq(Byte)
  BY StateBytesType DEF StateBytes
<1> HIDE DEF e
<1>5. e \o << 0 >> \o <<>> = e \o << 0 >>
  BY <1>4, ConcatEmptySeq, Zenon
<1> QED BY <1>3, <1>5, Zenon DEF StateBytes, e

\* A Veh2CloudState without pass points.
IsState(m) ==
  /\ IsHeader(m.hdr) /\ m.hdr[1] = << 242 >> /\ m.hdr[4] = << 1 >>
  /\ m.hdr[3] = <<VEH2CLOUD_STATE>>
  /\ DataLen(m) = StateLen
  /\ m = [Blank EXCEPT !.kind = "state", !.hdr = m.hdr, !.body = Sample(StateFields)]

\* What a Veh2CloudState2 adds.
Ext2Bytes(user) ==
  Encode(State2Fields, Sample(State2Fields)) \o << 0 >> \o <<>> \o <<>>
    \o Encode(DoorFields, Sample(DoorFields)) \o Text(user, Len(user) % 256)

ExtLen(user) == Width(State2Fields) + 1 + Width(DoorFields) + 1 + Len(user)

\* A Veh2CloudState2 without pass points and wheels.
IsState2(m, user) ==
  /\ user \in Seq(Byte)
  /\ IsHeader(m.hdr) /\ m.hdr[1] = << 242 >> /\ m.hdr[4] = << 2 >>
  /\ m.hdr[3] = <<VEH2CLOUD_STATE>>
  /\ DataLen(m) = StateLen + ExtLen(user)
  /\ m = [Blank EXCEPT !.kind = "state2", !.hdr = m.hdr, !.body = Sample(StateFields),
                       !.ext = Sample(State2Fields), !.doors = Sample(DoorFields),
                       !.user = user]

\* Members set to what they are already.
StateMembers(H, S) ==
  LET r == [Blank EXCEPT !.kind = "state", !.hdr = H, !.body = S]
  IN  /\ [Blank EXCEPT !.kind = "state", !.body = S, !.pass = Blank.pass, !.hdr = H] = r
      /\ r.hdr = H

State2Members(H, S, X, D, user) ==
  LET r == [Blank EXCEPT !.kind = "state2", !.hdr = H, !.body = S, !.ext = X,
                         !.doors = D, !.user = user]
  IN  /\ [Blank EXCEPT !.kind = "state2", !.body = S, !.pass = Blank.pass, !.ext = X,
                       !.wheels = Blank.wheels, !.tires = Blank.tires, !.doors = D,
                       !.user = user, !.hdr = H] = r
      /\ r.hdr = H

\* The members that a message is built with, one EXCEPT after another.
LEMMA BlankMembers ==
  ASSUME NEW H, NEW S, NEW X, NEW D, NEW user
  PROVE  StateMembers(H, S) /\ State2Members(H, S, X, D, user)
<1>1. /\ [Blank EXCEPT !.pass = Blank.pass] = Blank
      /\ [Blank EXCEPT !.wheels = Blank.wheels] = Blank
      /\ [Blank EXCEPT !.tires = Blank.tires] = Blank
  BY DEF Blank
<1>2. ASSUME NEW a, NEW b, NEW c
      PROVE  /\ [Blank EXCEPT !.kind = "state", !.body = S, !.pass = a, !.hdr = H]
                  = [[Blank EXCEPT !.pass = a] EXCEPT !.kind = "state", !.hdr = H, !.body = S]
             /\ [Blank EXCEPT !.kind = "state2", !.body = S, !.pass = a, !.ext = X,
                              !.wheels = b, !.tires = c, !.doors = D,
                              !.user = user, !.hdr = H]
                  = [[[[Blank EXCEPT !.pass = a] EXCEPT !.wheels = b] EXCEPT !.tires = c] EXCEPT
                        !.kind = "state2", !.hdr = H, !.body = S, !.ext = X,
                        !.doors = D, !.user = user]
  BY ZenonT(30) DEF Blank
<1>3. /\ [Blank EXCEPT !.kind = "state", !.hdr = H, !.body = S].hdr = H
      /\ [Blank EXCEPT !.kind = "state2", !.hdr = H, !.body = S, !.ext = X,
                       !.doors = D, !.user = user].hdr = H
  BY DEF Blank
<1> QED BY <1>1, <1>2, <1>3, ZenonT(30) DEF StateMembers, State2Members

\* The constructor of Veh2CloudState, without pass points.
LEMMA StateIs == IsState(NewState(<<>>))
<1> DEFINE S == Sample(StateFields)
           len == Width(StateFields) + 1 + Len(<<>>)
           H == Header(len, VEH2CLOUD_STATE, 1)
           m == NewState(<<>>)
<1>1. m = [Blank EXCEPT !.kind = "state", !.body = S, !.pass = Blank.pass, !.hdr = H]
  <2>1. m = [Blank EXCEPT !.kind = "state", !.body = S, !.pass = <<>>, !.hdr = H]
    BY Zenon DEF NewState
  <2>2. Blank.pass = <<>>
    BY DEF Blank
  <2> QED BY <2>1, <2>2, Zenon
<1>2. len = StateLen /\ len \in Nat
  <2>1. Len(<<>>) = 0
    OBVIOUS
  <2> QED BY <2>1, WidthTypes DEF StateLen
<1>3. /\ IsHeader(H) /\ H[1] = << 242 >> /\ H[3] = <<VEH2CLOUD_STATE>> /\ H[4] = << 1 >>
      /\ Number(H[2]) = len
  <2>1. VEH2CLOUD_STATE \in Byte /\ 1 \in Byte
    BY DEF Byte, VEH2CLOUD_STATE
  <2> HIDE DEF m, len
  <2> QED BY <1>2, <2>1, HeaderIs
<1> HIDE DEF H, m, S, len
<1>4. m.hdr = H /\ m = [Blank EXCEPT !.kind = "state", !.hdr = H, !.body = S]
  <2>1. StateMembers(H, S)
    BY BlankMembers
  <2> QED BY <1>1, <2>1, Zenon DEF StateMembers
<1> QED BY <1>2, <1>3, <1>4, Zenon DEF IsState, DataLen, m, S

\* What a Veh2CloudState2 adds is counted by a number.
LEMMA ExtLenType ==
  ASSUME NEW user \in Seq(Byte)
  PROVE  ExtLen(user) \in Nat
<1>1. Len(user) \in Nat
  OBVIOUS
<1> QED BY <1>1, WidthTypes DEF ExtLen

\* The constructor of Veh2CloudState2, without pass points and wheels.
LEMMA State2Is ==
  ASSUME NEW user \in Seq(Byte)
  PROVE  IsState2(NewState2(<<>>, <<>>, user), user)
<1> DEFINE S == Sample(StateFields)
           X == Sample(State2Fields)
           D == Sample(DoorFields)
           len == Width(StateFields) + 1 + Len(<<>>) + Width(State2Fields) + 1
                    + 2 * Len(<<>>) + Width(DoorFields) + 1 + Len(user)
           H == Header(len, VEH2CLOUD_STATE, 2)
           m == NewState2(<<>>, <<>>, user)
<1>1. m = [Blank EXCEPT !.kind = "state2", !.body = S, !.pass = Blank.pass, !.ext = X,
                        !.wheels = Blank.wheels, !.tires = Blank.tires, !.doors = D,
                        !.user = user, !.hdr = H]
  <2>1. m = [Blank EXCEPT !.kind = "state2", !.body = S, !.pass = <<>>, !.ext = X,
                          !.wheels = <<>>, !.tires = <<>>, !.doors = D, !.user = user, !.hdr = H]
    BY Zenon DEF NewState2
  <2>2. Blank.pass = <<>> /\ Blank.wheels = <<>> /\ Blank.tires = <<>>
    BY DEF Blank
  <2> QED BY <2>1, <2>2, Zenon
<1>2. len = StateLen + ExtLen(user) /\ len \in Nat
  <2> DEFINE a == Width(StateFields)
             b == Width(State2Fields)
             c == Width(DoorFields)
             z == Len(<<>>)
             k == Len(user)
  <2>1. z = 0 /\ a \in Nat /\ b \in Nat /\ c \in Nat /\ k \in Nat
    BY WidthTypes
  <2> HIDE DEF a, b, c, k, z
  <2>2. a + 1 + z + b + 1 + 2 * z + c + 1 + k = (a + 1) + (b + 1 + c + 1 + k)
        /\ a + 1 + z + b + 1 + 2 * z + c + 1 + k \in Nat
    BY <2>1
  <2> QED BY <2>2, Zenon DEF StateLen, ExtLen, a, b, c, k, z
<1>3. /\ IsHeader(H) /\ H[1] = << 242 >> /\ H[3] = <<VEH2CLOUD_STATE>> /\ H[4] = << 2 >>
      /\ Number(H[2]) = len
  <2>1. VEH2CLOUD_STATE \in Byte /\ 2 \in Byte
    BY DEF Byte, VEH2CLOUD_STATE
  <2> HIDE DEF m, len
  <2> QED BY <1>2, <2>1, HeaderIs
<1> HIDE DEF H, m, S, X, D, len
<1>4. /\ m.hdr = H
      /\ m = [Blank EXCEPT !.kind = "state2", !.hdr = H, !.body = S, !.ext = X,
                           !.doors = D, !.user = user]
  <2>1. State2Members(H, S, X, D, user)
    BY BlankMembers
  <2> QED BY <1>1, <2>1, Zenon DEF State2Members
<1> QED BY <1>2, <1>3, <1>4, Zenon DEF IsState2, DataLen, m, S, X, D

\* The bytes of a state without pass points.
LEMMA StateToBytes ==
  ASSUME NEW m, IsState(m)
  PROVE  /\ PackSize(m) = 16 + StateLen
         /\ ToBytes(m, PackSize(m)) = Encode(HeaderFields, m.hdr) \o StateBytes
<1> DEFINE e == Encode(HeaderFields, m.hdr)
<1>1. /\ m.kind = "state" /\ m.body = Sample(StateFields) /\ m.pass = <<>>
      /\ DataLen(m) = StateLen
  <2>1. DataLen(m) = StateLen
    BY Zenon DEF IsState
  <2> DEFINE S == Sample(StateFields)
  <2>2. m = [Blank EXCEPT !.kind = "state", !.hdr = m.hdr, !.body = S]
    BY Zenon DEF IsState
  <2> HIDE DEF S
  <2>3. m.kind = "state" /\ m.body = S /\ m.pass = <<>>
    BY <2>2 DEF Blank
  <2> QED BY <2>1, <2>3 DEF S
<1>2. PackSize(m) = 16 + StateLen
  BY <1>1, HeaderShape DEF PackSize
<1>3. StateBody(m) = StateBytes
  BY <1>1, StateBodyIs
<1>4. ~TooShort(PackSize(m), HeaderLen, BodyLen(m))
  <2>1. BodyLen(m) = Width(StateFields) + 1 + Len(m.pass)
    BY <1>1 DEF BodyLen
  <2>2. Len(m.pass) = 0
    BY <1>1
  <2>3. BodyLen(m) = StateLen
    BY <2>1, <2>2, StateBytesType DEF StateLen
  <2>4. ~TooShort(16 + StateLen, 16, StateLen)
    BY StateBytesType DEF TooShort
  <2> QED BY <1>2, <2>3, <2>4, HeaderShape, Zenon
<1> HIDE DEF e
<1>5. ToBytes(m, PackSize(m)) = e \o StateBytes
  BY <1>1, <1>3, <1>4 DEF ToBytes, e
<1> QED BY <1>2, <1>5 DEF e

\* The user data's length byte keeps the length modulo 256.
LEMMA Ext2BytesType ==
  ASSUME NEW user \in Seq(Byte)
  PROVE  /\ Ext2Bytes(user) \in Seq(Byte)
         /\ Len(Ext2Bytes(user)) <= ExtLen(user)
         /\ Len(user) < 256 => Len(Ext2Bytes(user)) = ExtLen(user)
         /\ SixParts(Ext2Bytes(user), Encode(State2Fields, Sample(State2Fields)), << 0 >>, <<>>, <<>>,
                     Encode(DoorFields, Sample(DoorFields)), Text(user, Len(user) % 256))
         /\ Len(Encode(State2Fields, Sample(State2Fields))) = Width(State2Fields)
         /\ Len(Encode(DoorFields, Sample(DoorFields))) = Width(DoorFields)
<1> DEFINE a == Encode(State2Fields, Sample(State2Fields))
           z == << 0 >>
           n == <<>>
           d == Encode(DoorFields, Sample(DoorFields))
           k == Len(user) % 256
           u == Text(user, k)
           s == Ext2Bytes(user)
           A == Width(State2Fields)
           D == Width(DoorFields)
           l == Len(user)
<1>1. a \in Seq(Byte) /\ Len(a) = A /\ d \in Seq(Byte) /\ Len(d) = D
  <2>1. /\ State2Fields \in Seq(Field) /\ Fits(State2Fields, Sample(State2Fields))
        /\ DoorFields \in Seq(Field) /\ Fits(DoorFields, Sample(DoorFields))
    BY TableTypes, SampleFits
  <2> QED BY <2>1, EncodeType
<1>2. z \in Seq(Byte) /\ Len(z) = 1 /\ n \in Seq(Byte) /\ Len(n) = 0
  BY DEF Byte
<1>3. l \in Nat /\ k \in Nat /\ k <= l /\ (l < 256 => k = l)
  <2>1. l \in Nat
    OBVIOUS
  <2> HIDE DEF l
  <2>2. l % 256 \in Nat /\ l % 256 <= l /\ (l < 256 => l % 256 = l)
    BY <2>1
  <2> QED BY <2>1, <2>2 DEF l
<1>4. u \in Seq(Byte) /\ Len(u) = 1 + k
  BY <1>3, TextType
<1>5. s = a \o z \o n \o n \o d \o u
  BY Zenon DEF Ext2Bytes
<1> HIDE DEF a, z, n, d, u, s, k
<1>6. SixParts(s, a, z, n, n, d, u)
  BY <1>1, <1>2, <1>4, <1>5, SixPartsOf
<1>7. A \in Nat /\ D \in Nat /\ ExtLen(user) = A + 1 + D + 1 + l
  BY WidthTypes DEF ExtLen
<1>8. s \in Seq(Byte) /\ Len(s) = A + 1 + 0 + 0 + D + (1 + k)
  <2>1. s \in Seq(Byte) /\ Len(s) = Len(a) + Len(z) + Len(n) + Len(n) + Len(d) + Len(u)
    BY <1>6, Zenon DEF SixParts
  <2> QED BY <1>1, <1>2, <1>4, <2>1, Zenon
<1> HIDE DEF A, D, l
<1>9. Len(s) <= ExtLen(user) /\ (l < 256 => Len(s) = ExtLen(user))
  BY <1>3, <1>7, <1>8
<1> QED BY <1>1, <1>6, <1>8, <1>9, Zenon DEF a, z, n, d, u, s, A, D, k, l

\* The members of such a message.
LEMMA State2Has ==
  ASSUME NEW m, NEW user, IsState2(m, user)
  PROVE  /\ m.kind = "state2" /\ m.body = Sample(StateFields) /\ m.pass = <<>>
         /\ m.ext = Sample(State2Fields) /\ m.wheels = <<>> /\ m.tires = <<>>
         /\ m.doors = Sample(DoorFields) /\ m.user = user
         /\ DataLen(m) = StateLen + ExtLen(user)
<1> DEFINE S == Sample(StateFields)
           X == Sample(State2Fields)
           D == Sample(DoorFields)
<1>1. DataLen(m) = StateLen + ExtLen(user)
  BY Zenon DEF IsState2
<1>2. m = [Blank EXCEPT !.kind = "state2", !.hdr = m.hdr, !.body = S, !.ext = X,
                        !.doors = D, !.user = user]
  BY Zenon DEF IsState2
<1> HIDE DEF S, X, D
<1>3. /\ m.kind = "state2" /\ m.body = S /\ m.pass = <<>> /\ m.ext = X /\ m.wheels = <<>>
      /\ m.tires = <<>> /\ m.doors = D /\ m.user = user
  BY <1>2 DEF Blank
<1> QED BY <1>1, <1>3 DEF S, X, D

\* The bytes of a Veh2CloudState2 without pass points and wheels.
LEMMA State2ToBytes ==
  ASSUME NEW m, NEW user, IsState2(m, user)
  PROVE  /\ PackSize(m) = 16 + StateLen + ExtLen(user)
         /\ ToBytes(m, PackSize(m))
              = (Encode(HeaderFields, m.hdr) \o StateBytes) \o Ext2Bytes(user)
<1> DEFINE e == Encode(HeaderFields, m.hdr)
           x == ExtLen(user)
           L == StateLen
<1>1. user \in Seq(Byte) /\ IsHeader(m.hdr)
  BY Zenon DEF IsState2
<1>2. L \in Nat /\ x \in Nat
  BY <1>1, ExtLenType, StateBytesType
<1>3. e \in Seq(Byte) /\ Len(e) = 16
  BY <1>1, HeaderBytes
<1>4. Len(e \o StateBytes) = 16 + L
  <2> HIDE DEF e
  <2>1. Len(e \o StateBytes) = Len(e) + Len(StateBytes)
    BY <1>3, StateBytesType, ConcatProperties
  <2> QED BY <1>3, <2>1, StateBytesType, Zenon
<1> HIDE DEF x, L
<1>5. PackSize(m) = 16 + L + x
  <2>1. DataLen(m) = L + x
    BY State2Has DEF L, x
  <2>2. PackSize(m) = 16 + (L + x)
    BY <2>1, HeaderShape, Zenon DEF PackSize
  <2> QED BY <1>2, <2>2
<1>6. BodyLen(m) = L
  <2>1. m.kind = "state2" /\ Len(m.pass) = 0
    BY State2Has
  <2>2. BodyLen(m) = Width(StateFields) + 1 + Len(m.pass)
    BY <2>1 DEF BodyLen
  <2> QED BY <2>1, <2>2, StateBytesType DEF L, StateLen
<1>7. Ext2Len(m) = x
  <2>1. Len(m.wheels) = 0 /\ m.user = user
    BY State2Has
  <2>2. Ext2Len(m) = Width(State2Fields) + 1 + 2 * 0 + Width(DoorFields) + 1 + Len(user)
    BY <2>1, Zenon DEF Ext2Len
  <2>3. \A a, b, c \in Nat : a + 1 + 2 * 0 + b + 1 + c = a + 1 + b + 1 + c
    OBVIOUS
  <2>4. Len(user) \in Nat
    BY <1>1
  <2> QED BY <2>2, <2>3, <2>4, WidthTypes DEF x, ExtLen
<1>8. ~TooShort(16 + L + x, 16, L) /\ ~TooShort(16 + L + x, 16 + L, x)
  BY <1>2 DEF TooShort
<1>9. StateBody(m) = StateBytes
  BY State2Has, StateBodyIs
<1>10. State2Body(m) = Ext2Bytes(user)
  <2> DEFINE f == FlattenSeq([i \in DOMAIN m.wheels |-> Reverse(m.wheels[i])])
             g == FlattenSeq([i \in DOMAIN m.tires |-> Reverse(m.tires[i])])
  <2>1. f = <<>> /\ g = <<>>
    <3>1. m.wheels = <<>> /\ m.tires = <<>>
      BY State2Has
    <3> DEFINE F(i) == Reverse(<<>>[i])
    <3>2. FlattenSeq([i \in DOMAIN <<>> |-> F(i)]) = <<>>
      <4> HIDE DEF F
      <4> QED BY NothingFlat
    <3> QED BY <3>1, <3>2, Zenon
  <2>2. m.ext = Sample(State2Fields) /\ m.doors = Sample(DoorFields) /\ m.user = user
        /\ Len(m.wheels) = 0
    BY State2Has
  <2> QED BY <2>1, <2>2, Zenon DEF State2Body, Ext2Bytes
<1>11. m.kind = "state2"
  BY State2Has
<1> DEFINE base == IF TooShort(PackSize(m), HeaderLen, BodyLen(m)) THEN e ELSE e \o StateBytes
<1>12. base = e \o StateBytes
  BY <1>5, <1>6, <1>8, HeaderShape, Zenon
<1>13. ToBytes(m, PackSize(m))
         = IF m.kind = "state2" /\ ~TooShort(PackSize(m), Len(base), Ext2Len(m))
           THEN base \o State2Body(m) ELSE base
  <2> DEFINE body == CASE m.kind = "header" -> <<>>
                       [] m.kind = "inh"    -> InhBody(m)
                       [] m.kind = "res"    -> Encode(ResFields, m.body)
                       [] OTHER             -> StateBody(m)
  <2>1. body = StateBytes
    BY <1>9, <1>11
  <2> HIDE DEF body
  <2> QED BY <2>1, Zenon DEF ToBytes, body
<1> HIDE DEF base, e
<1>14. ToBytes(m, PackSize(m)) = (e \o StateBytes) \o Ext2Bytes(user)
  BY <1>4, <1>5, <1>7, <1>8, <1>10, <1>11, <1>12, <1>13, Zenon
<1> QED BY <1>5, <1>14, Zenon DEF e, x, L

\* The state with this header.
StateOf(h) == [Blank EXCEPT !.kind = "state", !.hdr = h, !.body = Sample(StateFields)]

\* A state is read as it was written.
LEMMA StateRead ==
  ASSUME NEW h, NEW stale, NEW buf \in Seq(Byte), NEW size \in Nat, size >= 16 + StateLen,
         ReadHeader(buf, stale, size) = h, Holds(buf, 16, StateBytes)
  PROVE  ReadState(buf, stale, size) = StateOf(h)
<1> DEFINE S == Sample(StateFields)
           e == Encode(StateFields, S)
           w == Width(StateFields)
           off == HeaderLen + w
           n == Slice(buf, stale, off, 1)[1]
           msg0 == [Blank EXCEPT !.kind = "state", !.hdr = ReadHeader(buf, stale, size)]
           P(i) == Decode(PointFields, buf, stale, off + 1 + (i - 1) * Width(PointFields))
<1>1. w \in Nat /\ StateLen = w + 1 /\ off = 16 + w
  BY WidthTypes, HeaderShape DEF StateLen
<1>2. Holds(buf, 16, e) /\ Holds(buf, 16 + w, << 0 >>)
  <2>1. e \in Seq(Byte) /\ Len(e) = w /\ << 0 >> \in Seq(Byte)
    BY StateBytesType
  <2> HIDE DEF e, w
  <2>2. Holds(buf, 16, e \o << 0 >>)
    BY DEF StateBytes, e
  <2>3. Holds(buf, 16, e) /\ Holds(buf, 16 + Len(e), << 0 >>)
    BY <2>1, <2>2, HoldsConcat
  <2> QED BY <2>1, <2>3
<1>3. Decode(StateFields, buf, stale, HeaderLen) = S
  <2>1. StateFields \in Seq(Field) /\ 16 \in Nat
    BY TableTypes
  <2>2. Decode(StateFields, buf, stale, 16) = S
    BY <1>2, <2>1, SampleHeld
  <2> QED BY <2>2, HeaderShape
<1>4. n = 0
  <2>1. 16 + w \in Nat
    BY <1>1
  <2>2. Slice(buf, stale, 16 + w, Len(<< 0 >>)) = << 0 >>
    BY <1>2, <2>1, StateBytesType, SliceHeld
  <2>3. Slice(buf, stale, off, 1) = << 0 >>
    BY <1>1, <2>2, StateBytesType, Zenon
  <2> HIDE DEF off
  <2> QED BY <2>3
<1>5. ~Truncated(size, HeaderLen, w + 1)
  <2>1. ~(size < 16) /\ ~TooShort(size, 16, w + 1)
    <3> HIDE DEF w
    <3> QED BY <1>1 DEF TooShort
  <2> QED BY <2>1, HeaderShape, Zenon DEF Truncated
<1>6. [i \in 1 .. n |-> P(i)] = Blank.pass
  <2> HIDE DEF n, P
  <2>1. [i \in 1 .. n |-> P(i)] = <<>>
    BY <1>4
  <2>2. Blank.pass = <<>>
    BY DEF Blank
  <2> QED BY <2>1, <2>2, Zenon
<1>7. ReadState(buf, stale, size) = [msg0 EXCEPT !.body = S, !.pass = [i \in 1 .. n |-> P(i)]]
  <2> HIDE DEF S
  <2> QED BY <1>3, <1>5, Zenon DEF ReadState
<1> HIDE DEF n, P, S
<1>8. ReadState(buf, stale, size)
        = [[Blank EXCEPT !.kind = "state", !.hdr = h] EXCEPT !.body = S, !.pass = Blank.pass]
  BY <1>6, <1>7, Zenon
<1>9. [[Blank EXCEPT !.kind = "state", !.hdr = h] EXCEPT !.body = S, !.pass = Blank.pass]
        = [Blank EXCEPT !.kind = "state", !.hdr = h, !.body = S]
  <2>1. [Blank EXCEPT !.pass = Blank.pass] = Blank
    BY DEF Blank
  <2>2. ASSUME NEW a
        PROVE  [[Blank EXCEPT !.kind = "state", !.hdr = h] EXCEPT !.body = S, !.pass = a]
                 = [[Blank EXCEPT !.pass = a] EXCEPT !.kind = "state", !.hdr = h, !.body = S]
    BY DEF Blank
  <2> QED BY <2>1, <2>2, Zenon
<1> QED BY <1>8, <1>9, Zenon DEF S, StateOf

\* A Veh2CloudState without pass points is unpacked as itself.
LEMMA StateUnpacked ==
  ASSUME NEW m, IsState(m), NEW stale, NEW buf \in Seq(Byte),
         NEW size \in Nat, size >= PackSize(m), Holds(buf, 0, ToBytes(m, PackSize(m)))
  PROVE  Unpack(buf, stale, size) = {m}
<1> DEFINE h == m.hdr
           S == Sample(StateFields)
<1>1. IsHeader(h) /\ h[1] = << 242 >> /\ h[3] = <<VEH2CLOUD_STATE>> /\ h[4] = << 1 >>
      /\ m = [Blank EXCEPT !.kind = "state", !.hdr = h, !.body = S]
  BY Zenon DEF IsState
<1>2. PackSize(m) = 16 + StateLen
      /\ ToBytes(m, PackSize(m)) = Encode(HeaderFields, h) \o StateBytes
  BY StateToBytes
<1> HIDE DEF h, S
<1>3. Holds(buf, 0, Encode(HeaderFields, h)) /\ Holds(buf, 16, StateBytes)
  <2>1. Holds(buf, 0, Encode(HeaderFields, h) \o StateBytes)
    BY <1>2
  <2>2. StateBytes \in Seq(Byte)
    BY StateBytesType
  <2> QED BY <1>1, <2>1, <2>2, BehindHeader
<1>4. size >= 16 /\ size >= 16 + StateLen
  <2>1. StateLen \in Nat
    BY StateBytesType
  <2> QED BY <1>2, <2>1
<1>5. ReadHeader(buf, stale, size) = h /\ Dispatch(buf, stale, size, VEH2CLOUD_STATE, 1)
  BY <1>1, <1>3, <1>4, UnpackHeld
<1>6. Unpack(buf, stale, size) = {ReadState(buf, stale, size)}
  BY <1>5, Zenon DEF Dispatch
<1>7. ReadState(buf, stale, size) = [Blank EXCEPT !.kind = "state", !.hdr = h, !.body = S]
  <2>1. ReadState(buf, stale, size) = StateOf(h)
    BY <1>3, <1>4, <1>5, StateRead
  <2> QED BY <2>1, Zenon DEF S, StateOf
<1> QED BY <1>1, <1>6, <1>7, Zenon

\* A Veh2CloudState2 without lists, whose user data its length byte can count, is
\* unpacked as itself.
LEMMA State2Unpacked ==
  ASSUME NEW m, NEW user, IsState2(m, user), Len(user) < 256, NEW stale, NEW buf \in Seq(Byte),
         NEW size \in Nat, size >= PackSize(m), Holds(buf, 0, ToBytes(m, PackSize(m)))
  PROVE  Unpack(buf, stale, size) = {m}
<1> DEFINE h == m.hdr
           S == Sample(StateFields)
           X == Sample(State2Fields)
           D == Sample(DoorFields)
           A == Width(State2Fields)
           B == Width(DoorFields)
           l == Len(user)
           L == StateLen
           a == Encode(State2Fields, X)
           d == Encode(DoorFields, D)
           z == << 0 >>
           u == Text(user, l % 256)
           x == Ext2Bytes(user)
<1>1. IsHeader(h) /\ h[1] = << 242 >> /\ h[3] = <<VEH2CLOUD_STATE>> /\ h[4] = << 2 >>
      /\ m = [Blank EXCEPT !.kind = "state2", !.hdr = h, !.body = S, !.ext = X, !.doors = D,
                           !.user = user]
  BY Zenon DEF IsState2
<1>2. user \in Seq(Byte)
  BY Zenon DEF IsState2
<1>3. PackSize(m) = 16 + L + ExtLen(user)
      /\ ToBytes(m, PackSize(m)) = (Encode(HeaderFields, h) \o StateBytes) \o x
  BY State2ToBytes
<1>4. /\ x \in Seq(Byte) /\ Len(a) = A /\ Len(d) = B
      /\ SixParts(x, a, z, <<>>, <<>>, d, u)
  BY <1>2, Ext2BytesType
<1>5. /\ A \in Nat /\ B \in Nat /\ l \in Nat /\ L \in Nat /\ L >= 1
      /\ ExtLen(user) = A + 1 + B + 1 + l /\ L = Width(StateFields) + 1
  BY <1>2, WidthTypes, StateBytesType DEF ExtLen, StateLen
<1>6. u = <<l>> \o user
  <2>1. l % 256 = l
    <3> HIDE DEF l
    <3>1. l < 256
      BY DEF l
    <3> QED BY <1>5, <3>1, SMTT(30)
  <2>2. Chars(user, l) = user
    BY <1>2, <1>5, CharsType
  <2> QED BY <2>1, <2>2, Zenon DEF Text
<1> HIDE DEF h, x
<1>7. /\ Holds(buf, 0, Encode(HeaderFields, h)) /\ Holds(buf, 16, StateBytes)
      /\ Holds(buf, 16 + L, x)
  <2> DEFINE e == Encode(HeaderFields, h)
             eb == e \o StateBytes
  <2>1. e \in Seq(Byte) /\ Len(e) = 16
    BY <1>1, HeaderBytes
  <2>2. StateBytes \in Seq(Byte) /\ Len(StateBytes) = L
    BY StateBytesType
  <2> HIDE DEF e
  <2>3. eb \in Seq(Byte) /\ Len(eb) = Len(e) + Len(StateBytes)
    BY <2>1, <2>2, ConcatProperties
  <2>4. Holds(buf, 0, eb \o x)
    BY <1>3 DEF e
  <2> HIDE DEF eb
  <2>5. Holds(buf, 0, eb) /\ Holds(buf, 0 + Len(eb), x)
    BY <1>4, <2>3, <2>4, HoldsConcat
  <2>6. 0 + Len(eb) = 16 + L
    BY <2>1, <2>2, <2>3, <1>5
  <2>7. Holds(buf, 0, Encode(HeaderFields, h) \o StateBytes)
    BY <2>5 DEF eb, e
  <2>8. Holds(buf, 0, Encode(HeaderFields, h)) /\ Holds(buf, 16, StateBytes)
    BY <1>1, <2>2, <2>7, BehindHeader
  <2> QED BY <2>5, <2>6, <2>8
<1> DEFINE o1 == 16 + L
           o2 == o1 + A
           o3 == o2 + 1
           o4 == o3 + B
<1>8. o1 \in Nat /\ o2 \in Nat /\ o3 \in Nat /\ o4 \in Nat
  <2> HIDE DEF L, A, B
  <2> QED BY <1>5, SMTT(30)
<1>9. Holds(buf, o1, a) /\ Holds(buf, o2, z) /\ Holds(buf, o3, d) /\ Holds(buf, o4, u)
  <2> DEFINE n == <<>>
  <2>1. /\ Holds(buf, o1, a)
        /\ Holds(buf, o1 + Len(a), z)
        /\ Holds(buf, o1 + Len(a) + Len(z) + Len(n) + Len(n), d)
        /\ Holds(buf, o1 + Len(a) + Len(z) + Len(n) + Len(n) + Len(d), u)
    <3> HIDE DEF a, z, d, u, o1
    <3>1. SixParts(x, a, z, n, n, d, u) /\ Holds(buf, o1, x)
      BY <1>4, <1>7 DEF o1
    <3> HIDE DEF n
    <3> QED BY <1>8, <3>1, Zenon DEF SixParts
  <2>2. Len(z) = 1 /\ Len(n) = 0
    OBVIOUS
  <2>3. o1 + A + 1 + 0 + 0 = o3 /\ o1 + A + 1 + 0 + 0 + B = o4
    <3> HIDE DEF A, B, o1
    <3> QED BY <1>5, <1>8
  <2> HIDE DEF z, n
  <2> QED BY <1>4, <2>1, <2>2, <2>3, Zenon
<1>10. HeaderLen = 16 /\ o1 = HeaderLen + Width(StateFields) + 1 /\ o2 = o1 + Width(State2Fields)
       /\ o3 = o2 + 1 /\ o4 = o3 + Width(DoorFields)
  BY <1>5, HeaderShape, WidthTypes, SMTT(30)
<1> HIDE DEF o1, o2, o3, o4
<1>11. /\ Decode(State2Fields, buf, stale, o1) = X
       /\ Decode(DoorFields, buf, stale, o3) = D
  <2>1. State2Fields \in Seq(Field) /\ DoorFields \in Seq(Field)
    BY TableTypes
  <2> QED BY <1>8, <1>9, <2>1, SampleHeld
<1>12. Slice(buf, stale, o2, 1)[1] = 0
  <2>1. Slice(buf, stale, o2, Len(z)) = z
    BY <1>8, <1>9, StateBytesType, SliceHeld
  <2> QED BY <2>1
<1>13. ReadText(buf, stale, o4, FALSE).text = user
  <2> DEFINE r == ReadText(buf, stale, o4, FALSE)
  <2>1. Holds(buf, o4, <<Len(user)>> \o user) /\ FALSE \in BOOLEAN
    BY <1>6, <1>9, Zenon
  <2>2. r = [text |-> user, next |-> o4 + 1 + Len(user)]
    BY <1>2, <1>8, <2>1, TextHeld
  <2>3. r.text = user
    <3> HIDE DEF r
    <3> QED BY <2>2
  <2> QED BY <2>3, Zenon
<1>14. size >= 16 /\ size >= 16 + L /\ ~(size < 16) /\ size >= o1 /\ ~(size - o1 < A + 1 + 0 + B + 1 + 0)
  <2> HIDE DEF L, A, B, l
  <2> QED BY <1>3, <1>5 DEF o1
<1>15. ReadHeader(buf, stale, size) = h /\ Dispatch(buf, stale, size, VEH2CLOUD_STATE, 2)
  BY <1>1, <1>7, <1>14, UnpackHeld, ZenonT(30)
<1>16. Unpack(buf, stale, size) = {ReadState2(buf, stale, size)}
  BY <1>15, Zenon DEF Dispatch
<1> DEFINE st == [Blank EXCEPT !.kind = "state", !.hdr = h, !.body = S]
           base == [ReadState(buf, stale, size) EXCEPT !.kind = "state2"]
<1>17. ReadState(buf, stale, size) = st
  <2>1. ReadState(buf, stale, size) = StateOf(h)
    BY <1>7, <1>14, <1>15, StateRead
  <2> QED BY <2>1, Zenon DEF StateOf
<1>18. base = [Blank EXCEPT !.kind = "state2", !.hdr = h, !.body = S]
  <2> HIDE DEF S
  <2>1. [st EXCEPT !.kind = "state2"] = [Blank EXCEPT !.kind = "state2", !.hdr = h, !.body = S]
    BY DEF Blank
  <2> QED BY <1>17, <2>1, Zenon
<1> HIDE DEF base
<1>19. base.body = S /\ base.pass = <<>>
  <2> HIDE DEF S
  <2> QED BY <1>18 DEF Blank
<1>20. S # <<>>
  <2>1. StateFields \in Seq(Field) /\ Len(StateFields) # 0
    <3>1. StateFields \in Seq(Field)
      BY TableTypes
    <3>2. Len(StateFields) # 0
      BY <3>1 DEF StateFields, VehicleField, Raw, Num
    <3> QED BY <3>1, <3>2
  <2>2. Len(S) = Len(StateFields)
    BY <2>1, SampleFits
  <2> HIDE DEF S
  <2>3. S = <<>> => Len(S) = 0
    OBVIOUS
  <2> QED BY <2>1, <2>2, <2>3, Zenon
<1> DEFINE off == IF base.body = <<>> THEN HeaderLen
                  ELSE HeaderLen + Width(StateFields) + 1 + Len(base.pass) * Width(PointFields)
<1>21. off = o1
  <2>1. Width(PointFields) \in Nat
    BY TableTypes, WidthType
  <2>2. Len(base.pass) * Width(PointFields) = 0
    BY <1>19, <2>1
  <2>3. base.body # <<>>
    BY <1>19, <1>20
  <2>4. off = HeaderLen + Width(StateFields) + 1 + 0
    BY <2>2, <2>3, Zenon
  <2>5. o1 + 0 = o1
    BY <1>8
  <2> QED BY <1>10, <2>4, <2>5, Zenon
<1>22. ~Truncated(size, off, Ext2Len(Blank))
  <2>1. Ext2Len(Blank) = A + 1 + 0 + B + 1 + 0
    <3>1. Len(Blank.wheels) = 0 /\ Len(Blank.user) = 0
      BY DEF Blank
    <3>2. 2 * 0 = 0
      OBVIOUS
    <3> QED BY <3>1, <3>2, Zenon DEF Ext2Len
  <2>2. ~TooShort(size, o1, A + 1 + 0 + B + 1 + 0)
    BY <1>14 DEF TooShort
  <2>3. ~(size < HeaderLen)
    BY <1>10, <1>14
  <2> HIDE DEF off
  <2> QED BY <1>21, <2>1, <2>2, <2>3, Zenon DEF Truncated
<1> HIDE DEF off
<1>23. ReadState2(buf, stale, size)
         = CASE Truncated(size, off, Ext2Len(Blank)) -> base
             [] ~Truncated(size, off, Ext2Len(Blank))
                 /\ Slice(buf, stale, off + Width(State2Fields), 1)[1] > 0 ->
                   [base EXCEPT !.kind = "undefined"]
             [] OTHER ->
                   [base EXCEPT
                       !.ext = Decode(State2Fields, buf, stale, off),
                       !.doors = Decode(DoorFields, buf, stale, off + Width(State2Fields) + 1),
                       !.user = ReadText(buf, stale,
                                  off + Width(State2Fields) + 1 + Width(DoorFields), FALSE).text]
  BY Zenon DEF ReadState2, base, off
<1>24. ~(Slice(buf, stale, off + Width(State2Fields), 1)[1] > 0)
  <2>1. Slice(buf, stale, off + Width(State2Fields), 1)[1] = 0
    BY <1>10, <1>12, <1>21, Zenon
  <2> QED BY <2>1
<1> DEFINE e1 == Decode(State2Fields, buf, stale, off)
           e2 == Decode(DoorFields, buf, stale, off + Width(State2Fields) + 1)
           e3 == ReadText(buf, stale, off + Width(State2Fields) + 1 + Width(DoorFields), FALSE).text
           r2 == [base EXCEPT !.ext = e1, !.doors = e2, !.user = e3]
<1>25. ReadState2(buf, stale, size) = r2
  <2> HIDE DEF r2
  <2>1. ReadState2(buf, stale, size)
          = CASE Truncated(size, off, Ext2Len(Blank)) -> base
              [] ~Truncated(size, off, Ext2Len(Blank))
                  /\ Slice(buf, stale, off + Width(State2Fields), 1)[1] > 0 ->
                    [base EXCEPT !.kind = "undefined"]
              [] OTHER -> r2
    BY <1>23, Zenon DEF r2
  <2> QED BY <1>22, <1>24, <2>1
<1>26. e1 = X /\ e2 = D /\ e3 = user
  BY <1>10, <1>11, <1>13, <1>21, Zenon
<1> HIDE DEF e1, e2, e3, S, X, D
<1>27. r2 = [[Blank EXCEPT !.kind = "state2", !.hdr = h, !.body = S] EXCEPT
               !.ext = X, !.doors = D, !.user = user]
  BY <1>18, <1>26, Zenon
<1> QED BY <1>1, <1>16, <1>25, <1>27, Zenon

-----------------------------------------------------------------------------
(* All messages *)

\* What a message is, as far as the theorems tell messages apart.
Sort(m) ==
  \/ IsPlain(m)
  \/ IsRes(m)
  \/ \E sw, hw, ad, user \in Seq(Byte) : m = NewInh(sw, hw, ad, user)
  \/ m.kind = "state" /\ (NoLists(m) => IsState(m))
  \/ m.kind = "state2" /\ (NoLists(m) => \E user \in Seq(Byte) : IsState2(m, user))

\* The constructor of Veh2CloudState keeps its list.
LEMMA StateMade ==
  ASSUME NEW pass
  PROVE  NewState(pass).kind = "state" /\ NewState(pass).pass = pass
<1> DEFINE S == Sample(StateFields)
           H == Header(Width(StateFields) + 1 + Len(pass), VEH2CLOUD_STATE, 1)
           m == NewState(pass)
<1>1. m = [Blank EXCEPT !.kind = "state", !.body = S, !.pass = pass, !.hdr = H]
  BY Zenon DEF NewState
<1> HIDE DEF S, H, m
<1>2. m.kind = "state" /\ m.pass = pass
  BY <1>1 DEF Blank
<1> QED BY <1>2 DEF m

\* A Veh2CloudState2 with these lists.
HasLists(m, pass, wheels) == m.kind = "state2" /\ m.pass = pass /\ m.wheels = wheels

\* The constructor of Veh2CloudState2 keeps its lists.
LEMMA State2Made ==
  ASSUME NEW pass, NEW wheels, NEW user
  PROVE  HasLists(NewState2(pass, wheels, user), pass, wheels)
<1> DEFINE S == Sample(StateFields)
           X == Sample(State2Fields)
           D == Sample(DoorFields)
           H == Header(Width(StateFields) + 1 + Len(pass) + Width(State2Fields) + 1
                           + 2 * Len(wheels) + Width(DoorFields) + 1 + Len(user),
                       VEH2CLOUD_STATE, 2)
           m == NewState2(pass, wheels, user)
<1>1. m = [Blank EXCEPT !.kind = "state2", !.body = S, !.pass = pass, !.ext = X,
                        !.wheels = wheels, !.tires = wheels, !.doors = D, !.user = user, !.hdr = H]
  BY Zenon DEF NewState2
<1> HIDE DEF S, X, D, H, m
<1>2. m.kind = "state2" /\ m.pass = pass /\ m.wheels = wheels
  BY <1>1 DEF Blank
<1> QED BY <1>2, Zenon DEF m, HasLists

\* Every message that is built is of one of these sorts.
LEMMA MessageSort ==
  ASSUME NEW m \in Messages
  PROVE  Sort(m)
<1>1. CASE m \in {NewHeader(HEARTBEAT), NewHeader(HEARTBEAT_RES), NewRes}
  <2>1. \A type \in {HEARTBEAT, HEARTBEAT_RES} : IsPlain(NewHeader(type))
    BY PlainIs
  <2> QED BY <1>1, <2>1, ResIs, Zenon DEF Sort
<1>2. CASE m \in {NewInh(sw, hw, ad, user) : sw \in VersionTexts, hw \in VersionTexts,
                                             ad \in VersionTexts, user \in UserTexts}
  <2>1. PICK sw \in VersionTexts, hw \in VersionTexts, ad \in VersionTexts, user \in UserTexts :
          m = NewInh(sw, hw, ad, user)
    BY <1>2
  <2>2. sw \in Seq(Byte) /\ hw \in Seq(Byte) /\ ad \in Seq(Byte) /\ user \in Seq(Byte)
    BY TextsAreBytes DEF Texts
  <2> QED BY <2>1, <2>2, Zenon DEF Sort
<1>3. CASE m \in {NewState(Points(n)) : n \in PassCounts}
  <2>1. PICK n \in PassCounts : m = NewState(Points(n))
    BY <1>3, Zenon
  <2>2. m.kind = "state" /\ m.pass = Points(n)
    BY <2>1, StateMade, Zenon
  <2>3. NoLists(m) => IsState(m)
    BY <2>1, <2>2, StateIs, Zenon DEF NoLists
  <2> QED BY <2>2, <2>3, Zenon DEF Sort
<1>4. CASE m \in {NewState2(Points(n), Wheels(w), user) :
                    n \in PassCounts, w \in WheelCounts, user \in UserTexts}
  <2>1. PICK n \in PassCounts, w \in WheelCounts, user \in UserTexts :
          m = NewState2(Points(n), Wheels(w), user)
    BY <1>4
  <2>2. m.kind = "state2" /\ m.pass = Points(n) /\ m.wheels = Wheels(w)
    <3>1. HasLists(NewState2(Points(n), Wheels(w), user), Points(n), Wheels(w))
      BY State2Made, Zenon
    <3>2. HasLists(m, Points(n), Wheels(w))
      BY <2>1, <3>1, Zenon
    <3> QED BY <3>2, Zenon DEF HasLists
  <2>3. user \in Seq(Byte)
    BY TextsAreBytes DEF Texts
  <2>4. NoLists(m) => IsState2(m, user)
    BY <2>1, <2>2, <2>3, State2Is, Zenon DEF NoLists
  <2> QED BY <2>2, <2>3, <2>4, Zenon DEF Sort
<1> QED BY <1>1, <1>2, <1>3, <1>4 DEF Messages

\* What to_bytes makes of a message, compared with what pack() reserves.
Packed(m) ==
  /\ PackSize(m) \in Nat
  /\ ToBytes(m, PackSize(m)) \in Seq(Byte)
  /\ Len(ToBytes(m, PackSize(m))) \in Nat
  /\ Len(ToBytes(m, PackSize(m))) <= PackSize(m)
  /\ ShortTexts(m) => Len(ToBytes(m, PackSize(m))) = PackSize(m)

\* A header fills its buffer.
LEMMA PlainPacked ==
  ASSUME NEW m, IsPlain(m) PROVE Packed(m)
<1>1. PackSize(m) = 16 /\ ToBytes(m, PackSize(m)) = Encode(HeaderFields, m.hdr)
  BY PlainToBytes
<1>2. IsHeader(m.hdr)
  BY Zenon DEF IsPlain
<1>3. ToBytes(m, PackSize(m)) \in Seq(Byte) /\ Len(ToBytes(m, PackSize(m))) = 16
  BY <1>1, <1>2, HeaderBytes, Zenon
<1>4. 16 \in Nat /\ 16 <= 16
  OBVIOUS
<1> QED BY <1>1, <1>3, <1>4, Zenon DEF Packed

\* A Cloud2VehInhRes fills its buffer.
LEMMA ResPacked ==
  ASSUME NEW m, IsRes(m) PROVE Packed(m)
<1> DEFINE e == Encode(HeaderFields, m.hdr)
           b == Encode(ResFields, m.body)
           w == Width(ResFields)
<1>1. /\ PackSize(m) = 16 + w /\ b \in Seq(Byte) /\ Len(b) = w
      /\ ToBytes(m, PackSize(m)) = e \o b
  BY ResToBytes, Zenon
<1>2. e \in Seq(Byte) /\ Len(e) = 16
  <2>1. IsHeader(m.hdr)
    BY Zenon DEF IsRes
  <2> QED BY <2>1, HeaderBytes
<1> HIDE DEF e, b
<1>3. e \o b \in Seq(Byte) /\ Len(e \o b) = Len(e) + Len(b)
  BY <1>1, <1>2, ConcatProperties
<1>4. 16 + w \in Nat /\ 16 + w <= 16 + w
  BY WidthTypes
<1> QED BY <1>1, <1>2, <1>3, <1>4, Zenon DEF Packed

\* A Veh2CloudInh fills its buffer, or is cut down to its header.
LEMMA InhPacked ==
  ASSUME NEW m, NEW sw, NEW hw, NEW ad, NEW user, IsInh(m, sw, hw, ad, user)
  PROVE  /\ Packed(m)
         /\ Len(ToBytes(m, PackSize(m))) = IF ShortTexts(m) THEN PackSize(m) ELSE HeaderLen
<1> DEFINE e == Encode(HeaderFields, m.hdr)
           b == InhBody(m)
           n == PackSize(m)
<1>1. /\ n \in Nat /\ n >= 16 /\ b \in Seq(Byte) /\ Len(b) = n - 16
      /\ ToBytes(m, n) = IF ShortTexts(m) THEN e \o b ELSE e
  BY InhToBytes, Zenon
<1>2. e \in Seq(Byte) /\ Len(e) = 16
  <2>1. IsHeader(m.hdr)
    BY Zenon DEF IsInh
  <2> QED BY <2>1, HeaderBytes
<1> HIDE DEF e, b, n
<1>3. e \o b \in Seq(Byte) /\ Len(e \o b) = n
  <2>1. e \o b \in Seq(Byte) /\ Len(e \o b) = Len(e) + Len(b)
    BY <1>1, <1>2, ConcatProperties
  <2>2. 16 + (n - 16) = n
    BY <1>1
  <2> QED BY <1>1, <1>2, <2>1, <2>2, Zenon
<1>4. CASE ShortTexts(m)
  <2>1. ToBytes(m, n) = e \o b
    BY <1>1, <1>4
  <2>2. n <= n
    BY <1>1
  <2> QED BY <1>1, <1>3, <1>4, <2>1, <2>2, Zenon DEF Packed, n
<1>5. CASE ~ShortTexts(m)
  <2>1. ToBytes(m, n) = e
    BY <1>1, <1>5
  <2>2. 16 \in Nat /\ 16 <= n
    BY <1>1
  <2> QED BY <1>1, <1>2, <1>5, <2>1, <2>2, HeaderShape, Zenon DEF Packed, n
<1> QED BY <1>4, <1>5

\* A Veh2CloudState without pass points fills its buffer.
LEMMA StatePacked ==
  ASSUME NEW m, IsState(m) PROVE Packed(m)
<1> DEFINE e == Encode(HeaderFields, m.hdr)
           b == StateBytes
           w == StateLen
<1>1. PackSize(m) = 16 + w /\ ToBytes(m, PackSize(m)) = e \o b
  BY StateToBytes
<1>2. e \in Seq(Byte) /\ Len(e) = 16
  <2>1. IsHeader(m.hdr)
    BY Zenon DEF IsState
  <2> QED BY <2>1, HeaderBytes
<1>3. b \in Seq(Byte) /\ Len(b) = w
  BY StateBytesType
<1> HIDE DEF e, b
<1>4. e \o b \in Seq(Byte) /\ Len(e \o b) = Len(e) + Len(b)
  BY <1>2, <1>3, ConcatProperties
<1>5. 16 + w \in Nat /\ 16 + w <= 16 + w
  BY StateBytesType
<1> QED BY <1>1, <1>2, <1>3, <1>4, <1>5, Zenon DEF Packed

\* A Veh2CloudState2 without lists fills its buffer.
LEMMA State2Packed ==
  ASSUME NEW m, NEW user, IsState2(m, user) PROVE Packed(m)
<1> DEFINE e == Encode(HeaderFields, m.hdr)
           b == StateBytes
           w == StateLen
           x == Ext2Bytes(user)
           y == ExtLen(user)
           eb == e \o b
<1>1. PackSize(m) = 16 + w + y /\ ToBytes(m, PackSize(m)) = eb \o x
  BY State2ToBytes
<1>2. e \in Seq(Byte) /\ Len(e) = 16 /\ user \in Seq(Byte)
  <2>1. IsHeader(m.hdr) /\ user \in Seq(Byte)
    BY Zenon DEF IsState2
  <2> QED BY <2>1, HeaderBytes
<1>3. b \in Seq(Byte) /\ Len(b) = w /\ w \in Nat
  BY StateBytesType
<1>4. /\ x \in Seq(Byte) /\ Len(x) <= y /\ y \in Nat
      /\ (Len(user) < 256 => Len(x) = y)
  BY <1>2, Ext2BytesType, ExtLenType, Zenon
<1> HIDE DEF e, b, x, y
<1>5. eb \in Seq(Byte) /\ Len(eb) = Len(e) + Len(b)
  BY <1>2, <1>3, ConcatProperties
<1> HIDE DEF eb
<1>6. eb \o x \in Seq(Byte) /\ Len(eb \o x) = Len(eb) + Len(x)
  BY <1>4, <1>5, ConcatProperties
<1>7. Len(x) \in Nat
  BY <1>4
<1>8. Len(eb) = 16 + w
  BY <1>2, <1>3, <1>5
<1>9. /\ 16 + w + y \in Nat /\ 16 + w + Len(x) \in Nat
      /\ 16 + w + Len(x) <= 16 + w + y
      /\ (Len(x) = y => 16 + w + Len(x) = 16 + w + y)
  <2> HIDE DEF w
  <2> QED BY <1>3, <1>4, <1>7
<1>10. ShortTexts(m) => Len(x) = y
  <2>1. m.kind = "state2" /\ m.user = user
    BY State2Has
  <2> QED BY <1>4, <2>1 DEF ShortTexts
<1> QED BY <1>1, <1>6, <1>8, <1>9, <1>10, Zenon DEF Packed

\* No message without lists is written past the buffer that pack() reserves.
LEMMA MessagePacked ==
  ASSUME NEW m, Sort(m), NoLists(m) PROVE Packed(m)
<1>1. ASSUME \E sw, hw, ad, user \in Seq(Byte) : m = NewInh(sw, hw, ad, user)
      PROVE  Packed(m)
  <2>1. PICK sw \in Seq(Byte), hw \in Seq(Byte), ad \in Seq(Byte), user \in Seq(Byte) :
          m = NewInh(sw, hw, ad, user)
    BY <1>1, Zenon
  <2>2. InhMade(NewInh(sw, hw, ad, user), sw, hw, ad, user)
    BY InhIs
  <2>3. IsInh(m, sw, hw, ad, user)
    BY <2>1, <2>2, Zenon DEF InhMade
  <2> QED BY <2>3, InhPacked
<1> QED BY <1>1, PlainPacked, ResPacked, StatePacked, State2Packed, Zenon DEF Sort

\* The messages to_bytes writes as they are.
AsTheyAre(m) == ShortTexts(m) /\ NoLists(m) /\ m.sw = m.hw /\ m.hw = m.ad

\* Every message that to_bytes writes as it is is unpacked as itself, whatever
\* stands behind it in the buffer, and whatever the buffer held before.
LEMMA WholeUnpacked ==
  ASSUME NEW m, Sort(m), AsTheyAre(m), NEW stale, NEW buf \in Seq(Byte),
         NEW size \in Nat, size >= PackSize(m), Holds(buf, 0, ToBytes(m, PackSize(m)))
  PROVE  Unpack(buf, stale, size) = {m}
<1>1. CASE IsPlain(m)
  <2>1. PackSize(m) = 16 /\ ToBytes(m, PackSize(m)) = Encode(HeaderFields, m.hdr)
    BY <1>1, PlainToBytes
  <2>2. size >= 16 /\ Holds(buf, 0, Encode(HeaderFields, m.hdr))
    BY <2>1
  <2> QED BY <1>1, <2>2, PlainUnpacked
<1>2. CASE IsRes(m)
  BY <1>2, ResUnpacked
<1>3. ASSUME \E sw, hw, ad, user \in Seq(Byte) : m = NewInh(sw, hw, ad, user)
      PROVE  Unpack(buf, stale, size) = {m}
  <2>1. PICK sw \in Seq(Byte), hw \in Seq(Byte), ad \in Seq(Byte), user \in Seq(Byte) :
          m = NewInh(sw, hw, ad, user)
    BY <1>3, Zenon
  <2>2. InhMade(NewInh(sw, hw, ad, user), sw, hw, ad, user)
    BY InhIs
  <2>3. IsInh(m, sw, hw, ad, user)
    BY <2>1, <2>2, Zenon DEF InhMade
  <2>4. m.sw = sw /\ m.hw = hw /\ m.ad = ad /\ m.user = user /\ m.kind = "inh"
    BY <2>3, Zenon DEF IsInh
  <2>5. sw = hw /\ hw = ad /\ Len(sw) < 255 /\ Len(user) < 255
    BY <2>4 DEF AsTheyAre, ShortTexts
  <2>6. m = NewInh(sw, sw, sw, user)
    BY <2>1, <2>5
  <2>7. ToBytes(m, PackSize(m)) = IF ShortTexts(m)
                                  THEN Encode(HeaderFields, m.hdr) \o InhBody(m)
                                  ELSE Encode(HeaderFields, m.hdr)
    BY <2>3, InhToBytes
  <2>8. Holds(buf, 0, Encode(HeaderFields, m.hdr) \o InhBody(m))
    BY <2>7, Zenon DEF AsTheyAre
  <2> QED BY <2>5, <2>6, <2>8, InhUnpacked
<1>4. ASSUME m.kind = "state", NoLists(m) => IsState(m)
      PROVE  Unpack(buf, stale, size) = {m}
  BY <1>4, StateUnpacked DEF AsTheyAre
<1>5. ASSUME m.kind = "state2", NoLists(m) => \E user \in Seq(Byte) : IsState2(m, user)
      PROVE  Unpack(buf, stale, size) = {m}
  <2>1. PICK user \in Seq(Byte) : IsState2(m, user)
    BY <1>5, Zenon DEF AsTheyAre
  <2>2. m.user = user
    BY <2>1, State2Has
  <2>3. Len(user) < 256
    BY <1>5, <2>2 DEF AsTheyAre, ShortTexts
  <2> QED BY <2>1, <2>3, State2Unpacked
<1> QED BY <1>1, <1>2, <1>3, <1>4, <1>5, Zenon DEF Sort

-----------------------------------------------------------------------------
(* The specification *)

\* What the bytes packed and the message unpacked are, at every step: the
\* inductive invariant.
PackInv ==
  /\ step \in {"pack", "unpack", "done", "undefined"} => msg \in Messages
  /\ step \in {"unpack", "done", "undefined"} => wire = ToBytes(msg, PackSize(msg))
  /\ step = "undefined" => Len(wire) > PackSize(msg)
  /\ step \in {"unpack", "done"} => ~(Len(wire) > PackSize(msg))
  /\ step = "done" => \E stale \in Stale : got \in Unpack(wire, stale, Len(wire))

\* Initially nothing is built.
LEMMA PackInvInit ==
  Init => PackInv
BY DEF Init, PackInv

\* Each of the three calls leaves what the invariant says of its result.
LEMMA PackInvStep ==
  ASSUME PackInv, [Next]_vars PROVE PackInv'
<1>1. CASE Build
  BY <1>1 DEF Build, PackInv
<1>2. CASE DoPack
  BY <1>2 DEF DoPack, PackInv
<1>3. CASE DoUnpack
  BY <1>3 DEF DoUnpack, PackInv
<1>4. CASE UNCHANGED vars
  BY <1>4 DEF vars, PackInv
<1> QED BY <1>1, <1>2, <1>3, <1>4 DEF Next

\* At every step of packing and unpacking (packer.h 35-57), what is packed is what
\* to_bytes makes of the message built, and what is unpacked is what unpack makes
\* of that.
THEOREM PackInvariant ==
  Spec => []PackInv
<1> QED BY PackInvInit, PackInvStep, PTL DEF Spec

\* The invariant implies WireFillsBuffer.
LEMMA FillsBuffer ==
  PackInv => WireFillsBuffer
<1> SUFFICES ASSUME PackInv PROVE WireFillsBuffer
  OBVIOUS
<1>1. ASSUME msg \in Messages, NoLists(msg) PROVE Packed(msg)
  BY <1>1, MessageSort, MessagePacked, Zenon
<1>2. ASSUME step = "undefined" PROVE ~NoLists(msg)
  <2>1. msg \in Messages /\ wire = ToBytes(msg, PackSize(msg)) /\ Len(wire) > PackSize(msg)
    BY <1>2 DEF PackInv
  <2> QED BY <1>1, <2>1 DEF Packed
<1>3. ASSUME step \in {"unpack", "done"}, ShortTexts(msg), NoLists(msg)
      PROVE  Len(wire) = PackSize(msg)
  <2>1. msg \in Messages /\ wire = ToBytes(msg, PackSize(msg))
    BY <1>3 DEF PackInv
  <2>2. Packed(msg)
    BY <1>1, <1>3, <2>1
  <2> QED BY <1>3, <2>1, <2>2, Zenon DEF Packed
<1> QED BY <1>2, <1>3, Zenon DEF WireFillsBuffer

\* What makes a message a Veh2CloudInh.
BuiltInh(m) == \E sw, hw, ad, user \in Seq(Byte) : IsInh(m, sw, hw, ad, user)

\* What has the kind of a Veh2CloudInh is one.
LEMMA InhSort ==
  ASSUME NEW m, Sort(m), m.kind = "inh" PROVE BuiltInh(m)
<1>1. ~IsPlain(m)
  <2> SUFFICES ASSUME IsPlain(m) PROVE FALSE
    OBVIOUS
  <2> DEFINE h == m.hdr
  <2>1. m = [Blank EXCEPT !.hdr = h]
    BY Zenon DEF IsPlain
  <2> HIDE DEF h
  <2>2. m.kind = "header"
    BY <2>1 DEF Blank
  <2> QED BY <2>2
<1>2. ~IsRes(m)
  <2> SUFFICES ASSUME IsRes(m) PROVE FALSE
    OBVIOUS
  <2> DEFINE h == m.hdr
             S == m.body
  <2>1. m = [Blank EXCEPT !.kind = "res", !.hdr = h, !.body = S]
    BY Zenon DEF IsRes
  <2> HIDE DEF h, S
  <2>2. m.kind = "res"
    BY <2>1 DEF Blank
  <2> QED BY <2>2
<1>3. m.kind # "state" /\ m.kind # "state2"
  OBVIOUS
<1>4. \E sw, hw, ad, user \in Seq(Byte) : m = NewInh(sw, hw, ad, user)
  BY <1>1, <1>2, <1>3, Zenon DEF Sort
<1>5. PICK sw \in Seq(Byte), hw \in Seq(Byte), ad \in Seq(Byte), user \in Seq(Byte) :
        m = NewInh(sw, hw, ad, user)
  BY <1>4, Zenon
<1>6. InhMade(NewInh(sw, hw, ad, user), sw, hw, ad, user)
  BY InhIs
<1>7. IsInh(m, sw, hw, ad, user)
  BY <1>5, <1>6, Zenon DEF InhMade
<1> QED BY <1>7, Zenon DEF BuiltInh

\* The invariant implies InhWholeOrHeader.
LEMMA WholeOrHeader ==
  PackInv => InhWholeOrHeader
<1> SUFFICES ASSUME PackInv, step \in {"unpack", "done"}, msg.kind = "inh"
             PROVE  Len(wire) = IF ShortTexts(msg) THEN PackSize(msg) ELSE HeaderLen
  BY DEF InhWholeOrHeader
<1>1. msg \in Messages /\ wire = ToBytes(msg, PackSize(msg))
  BY DEF PackInv
<1>2. PICK sw \in Seq(Byte), hw \in Seq(Byte), ad \in Seq(Byte), user \in Seq(Byte) :
        IsInh(msg, sw, hw, ad, user)
  BY <1>1, MessageSort, InhSort, Zenon DEF BuiltInh
<1>3. Len(ToBytes(msg, PackSize(msg))) = IF ShortTexts(msg) THEN PackSize(msg) ELSE HeaderLen
  BY <1>2, InhPacked
<1> QED BY <1>1, <1>3, Zenon

\* The invariant implies CutDownStaysEmpty.
LEMMA HeaderOnly ==
  PackInv => CutDownStaysEmpty
<1> SUFFICES ASSUME PackInv, step = "done", msg.kind = "inh", ~ShortTexts(msg)
             PROVE  got = [Blank EXCEPT !.kind = "inh", !.hdr = msg.hdr]
  BY DEF CutDownStaysEmpty
<1>1. msg \in Messages /\ wire = ToBytes(msg, PackSize(msg))
  BY DEF PackInv
<1>2. PICK stale \in Stale : got \in Unpack(wire, stale, Len(wire))
  BY DEF PackInv
<1>3. PICK sw \in Seq(Byte), hw \in Seq(Byte), ad \in Seq(Byte), user \in Seq(Byte) :
        IsInh(msg, sw, hw, ad, user)
  BY <1>1, MessageSort, InhSort, Zenon DEF BuiltInh
<1>4. ToBytes(msg, PackSize(msg)) = IF ShortTexts(msg)
                                    THEN Encode(HeaderFields, msg.hdr) \o InhBody(msg)
                                    ELSE Encode(HeaderFields, msg.hdr)
  BY <1>3, InhToBytes
<1>5. wire = Encode(HeaderFields, msg.hdr)
  BY <1>1, <1>4, Zenon
<1>6. Unpack(wire, stale, Len(wire)) = {[Blank EXCEPT !.kind = "inh", !.hdr = msg.hdr]}
  BY <1>3, <1>5, InhHeaderUnpacked, Zenon
<1> QED BY <1>2, <1>6, Zenon

\* The invariant implies RoundTrip.
LEMMA ComesBack ==
  PackInv => RoundTrip
<1> SUFFICES ASSUME PackInv, step = "done", AsTheyAre(msg)
             PROVE  got = msg
  BY Zenon DEF RoundTrip, AsTheyAre
<1>1. msg \in Messages /\ wire = ToBytes(msg, PackSize(msg))
  BY DEF PackInv
<1>2. PICK stale \in Stale : got \in Unpack(wire, stale, Len(wire))
  BY DEF PackInv
<1>3. Sort(msg)
  BY <1>1, MessageSort
<1>4. Packed(msg)
  BY <1>3, MessagePacked, Zenon DEF AsTheyAre
<1>5. wire \in Seq(Byte) /\ Len(wire) = PackSize(msg) /\ PackSize(msg) \in Nat
  BY <1>1, <1>4, Zenon DEF Packed, AsTheyAre
<1>6. Holds(wire, 0, wire)
  BY <1>5 DEF Holds
<1>7. Len(wire) \in Nat /\ Len(wire) >= PackSize(msg)
  BY <1>5
<1>8. Holds(wire, 0, ToBytes(msg, PackSize(msg)))
  BY <1>1, <1>6, Zenon
<1>9. Unpack(wire, stale, Len(wire)) = {msg}
  BY <1>3, <1>5, <1>7, <1>8, WholeUnpacked
<1> QED BY <1>2, <1>9, Zenon

\* WireFillsBuffer: the constructor, length() and to_bytes agree on the size of
\* every message, for all texts, and nothing but the lists writes past the buffer.
THEOREM BufferFilled ==
  Spec => []WireFillsBuffer
<1> QED BY PackInvariant, FillsBuffer, PTL

\* InhWholeOrHeader, for version texts and user texts of every length.
THEOREM InhNeverInPart ==
  Spec => []InhWholeOrHeader
<1> QED BY PackInvariant, WholeOrHeader, PTL

\* CutDownStaysEmpty, for version texts and user texts of every length and
\* whatever the buffer held before.
THEOREM CutDownIsHeader ==
  Spec => []CutDownStaysEmpty
<1> QED BY PackInvariant, HeaderOnly, PTL

\* RoundTrip, for every text that fits its length byte and whatever the receive
\* buffer held before.
THEOREM PackedComesBack ==
  Spec => []RoundTrip
<1> QED BY PackInvariant, ComesBack, PTL

=============================================================================
