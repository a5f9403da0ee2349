------------------------------ MODULE CodecProofs ------------------------------
(***************************************************************************)
(* Lemmas about the operators of module Codec, for tables of any number of *)
(* fields and texts of any length: what Width and Encode make of a table,  *)
(* and that Decode finds in a buffer what Encode wrote there.              *)
(***************************************************************************)
EXTENDS Codec, FoldProofs

-----------------------------------------------------------------------------
(* Width *)

\* g[s] is the sum of the widths of the fields with indices in s.
Sums(g, w, n) ==
  g = [s \in SUBSET (1 .. n) |-> IF s = {} THEN 0 ELSE g[s \ {Max(s)}] + w[Max(s)].width]

\* There is a function of sets of indices that FoldLeft adds the widths with.
LEMMA SumsExists ==
  ASSUME NEW N \in Nat, NEW w, \A i \in 1 .. N : w[i].width \in Nat, NEW n \in 0 .. N
  PROVE \E g \in [SUBSET (1 .. n) -> Nat] : Sums(g, w, n)
<1> DEFINE f == [p \in Nat \X (1 .. N) |-> p[1] + w[p[2]].width]
<1>1. f \in [Nat \X (1 .. N) -> Nat]
  OBVIOUS
<1>2. \A x \in Nat, i \in 1 .. N : f[<<x, i>>] = x + w[i].width
  OBVIOUS
<1> HIDE DEF f
<1>3. PICK g \in [SUBSET (1 .. n) -> Nat] : Folded(g, f, 0, n)
  BY <1>1, FoldExists
<1>4. ASSUME NEW s \in SUBSET (1 .. n), s # {}
      PROVE  g[s \ {Max(s)}] \in Nat /\ Max(s) \in 1 .. N
  <2>1. n \in Nat /\ \A i \in 1 .. n : i \in 1 .. N
    OBVIOUS
  <2>2. Max(s) \in s
    BY <1>4, <2>1, MaxIn
  <2>3. s \ {Max(s)} \in SUBSET (1 .. n)
    OBVIOUS
  <2> QED BY <2>1, <2>2, <2>3
<1>5. ASSUME NEW s \in SUBSET (1 .. n)
      PROVE  g[s] = IF s = {} THEN 0 ELSE g[s \ {Max(s)}] + w[Max(s)].width
  <2>1. g[s] = IF s = {} THEN 0 ELSE f[<<g[s \ {Max(s)}], Max(s)>>]
    BY <1>3 DEF Folded
  <2> QED BY <2>1, <1>2, <1>4
<1>6. g = [s \in SUBSET (1 .. n) |-> IF s = {} THEN 0 ELSE g[s \ {Max(s)}] + w[Max(s)].width]
  BY <1>5
<1> QED BY <1>6 DEF Sums

\* It depends on the widths of these indices only.
LEMMA SumsAgree ==
  ASSUME NEW v, NEW w, NEW n \in Nat, NEW m \in Nat, m <= n, Agree(v, w, m),
         NEW g, Sums(g, v, n), NEW h, Sums(h, w, m)
  PROVE g[1 .. m] = h[1 .. m]
<1> DEFINE T == {i \in Nat : i <= m => \A s \in SUBSET (1 .. i) : g[s] = h[s]}
<1>0. \A i \in 1 .. m : v[i] = w[i]
  BY DEF Agree
<1>1. \A s \in SUBSET (1 .. n) : g[s] = IF s = {} THEN 0 ELSE g[s \ {Max(s)}] + v[Max(s)].width
  BY DEF Sums
<1>2. \A s \in SUBSET (1 .. m) : h[s] = IF s = {} THEN 0 ELSE h[s \ {Max(s)}] + w[Max(s)].width
  BY DEF Sums
<1>3. 0 \in T
  <2>1. \A s \in SUBSET (1 .. 0) : s = {}
    OBVIOUS
  <2>2. {} \in SUBSET (1 .. n) /\ {} \in SUBSET (1 .. m)
    OBVIOUS
  <2>3. g[{}] = 0 /\ h[{}] = 0
    BY <1>1, <1>2, <2>2
  <2> QED BY <2>1, <2>3
<1>4. ASSUME NEW i \in T PROVE i + 1 \in T
  <2> DEFINE k == i + 1
  <2>1. i \in Nat /\ (i <= m => \A s \in SUBSET (1 .. i) : g[s] = h[s])
    OBVIOUS
  <2> HIDE DEF T
  <2>2. SUFFICES ASSUME k <= m, NEW s \in SUBSET (1 .. k) PROVE g[s] = h[s]
    BY <2>1 DEF T
  <2>3. \A r \in SUBSET (1 .. i) : g[r] = h[r]
    BY <2>1, <2>2
  <2>4. CASE k \notin s
    <3>1. s \in SUBSET (1 .. i)
      BY <2>1, <2>4
    <3> QED BY <2>3, <3>1
  <2>5. CASE k \in s
    <3>1. s \in SUBSET (1 .. n) /\ s \in SUBSET (1 .. m) /\ s # {} /\ k \in 1 .. m
      BY <2>1, <2>2, <2>5
    <3>2. Max(s) = k
      BY <2>1, <2>5, MaxIs
    <3>3. s \ {k} \in SUBSET (1 .. i)
      <4>1. \A x \in 1 .. k : x = k \/ x \in 1 .. i
        BY <2>1
      <4> HIDE DEF k
      <4> QED BY <4>1
    <3>4. g[s \ {k}] = h[s \ {k}] /\ v[k] = w[k]
      BY <2>3, <3>1, <3>3, <1>0
    <3> HIDE DEF k
    <3> QED BY <3>1, <3>2, <3>4, <1>1, <1>2
  <2> QED BY <2>4, <2>5
<1>5. T = Nat
  <2> HIDE DEF T
  <2>1. T \in SUBSET Nat
    BY DEF T
  <2> QED BY <1>3, <1>4, <2>1, Induct
<1> QED BY <1>5

\* What Width is: the value of that function for all of the fields.
LEMMA WidthIs ==
  ASSUME NEW n, NEW f, DOMAIN f = 1 .. n
  PROVE Width(f) = (CHOOSE g : Sums(g, f, n))[1 .. n]
<1>1. Width(f) = (CHOOSE g : g = [s \in SUBSET (DOMAIN f) |-> IF s = {} THEN 0 ELSE g[s \ {Max(s)}] + f[Max(s)].width])[DOMAIN f]
  BY Zenon DEF Width, FoldLeft, MapThenFoldSet
<1> QED BY <1>1, Zenon DEF Sums

\* A table is a sequence of fields; these are the names of all of them.
FieldNames ==
    {"id", "data_len", "data_type", "version", "timestamp", "ctrl", "vehicle_id",
     "com_type", "pos_confidence", "time_sync", "gnss_type", "res", "longitude",
     "latitude", "message_id", "gnss_timestamp", "gnss_velocity", "pos.longitude",
     "pos.latitude", "pos.elevation", "heading", "gear", "steering_angle",
     "velocity", "acc_lon", "acc_lat", "acc_ver", "yaw_rate", "accel_pos",
     "engine_speed", "engine_torque", "break_flag", "break_pos", "break_pressure",
     "fuel_consume", "drive_mode", "dest.longitude", "dest.latitude", "abs_flag",
     "tcs_flag", "esp_flag", "lka_flag", "acc_flag", "fcw_flag", "ldw_flag",
     "aeb_flag", "lca_flag", "dms_flag", "mileage", "fuel_gauge", "soc",
     "temperature", "endurance", "vehfault", "motorspeed", "motortorque", "veh_mode",
     "charge_state", "batt_vol", "batt_cur", "horn_state", "lights", "doors"}

\* A field of a table.
Field == [name : FieldNames, width : Nat, swap : BOOLEAN]

\* The members of a field of a table.
LEMMA FieldAt ==
  ASSUME NEW f \in Seq(Field), NEW i \in 1 .. Len(f)
  PROVE  f[i] \in Field /\ f[i].width \in Nat /\ f[i].swap \in BOOLEAN
<1>1. f[i] \in Field
  OBVIOUS
<1> QED BY <1>1 DEF Field

\* Any such function will do.
LEMMA WidthLast ==
  ASSUME NEW n \in Nat, NEW f, DOMAIN f = 1 .. n, NEW g, Sums(g, f, n)
  PROVE Width(f) = g[1 .. n]
<1> DEFINE h == CHOOSE k : Sums(k, f, n)
<1>1. Sums(h, f, n)
  OBVIOUS
<1>2. Width(f) = h[1 .. n]
  BY WidthIs
<1> HIDE DEF h
<1>3. Agree(f, f, n) /\ n <= n
  BY DEF Agree
<1>4. h[1 .. n] = g[1 .. n]
  BY <1>1, <1>3, SumsAgree
<1> QED BY <1>2, <1>4

\* A table without fields.
LEMMA WidthEmpty == Width(<<>>) = 0
<1>1. DOMAIN <<>> = 1 .. 0
  OBVIOUS
<1>2. PICK g \in [SUBSET (1 .. 0) -> Nat] : Sums(g, <<>>, 0)
  <2>1. 0 \in Nat /\ 0 \in 0 .. 0 /\ \A i \in 1 .. 0 : <<>>[i].width \in Nat
    OBVIOUS
  <2> QED BY <2>1, SumsExists
<1>3. Width(<<>>) = g[1 .. 0]
  BY <1>1, <1>2, WidthLast
<1>4. 1 .. 0 = {} /\ {} \in SUBSET (1 .. 0)
  OBVIOUS
<1>5. g[{}] = 0
  BY <1>2, <1>4 DEF Sums
<1> QED BY <1>3, <1>4, <1>5

\* The width of a table is a number.
LEMMA WidthType ==
  ASSUME NEW f \in Seq(Field) PROVE Width(f) \in Nat
<1> DEFINE n == Len(f)
<1>1. n \in Nat /\ n \in 0 .. n /\ DOMAIN f = 1 .. n /\ \A i \in 1 .. n : f[i].width \in Nat
  BY FieldAt
<1> HIDE DEF n
<1>2. PICK g \in [SUBSET (1 .. n) -> Nat] : Sums(g, f, n)
  BY <1>1, SumsExists
<1>3. Width(f) = g[1 .. n]
  BY <1>1, <1>2, WidthLast
<1> QED BY <1>3

\* The width of a table with one field more.
LEMMA WidthAppend ==
  ASSUME NEW f \in Seq(Field), NEW e \in Field
  PROVE Width(Append(f, e)) = Width(f) + e.width
<1> DEFINE t == Append(f, e)
           n == Len(f)
           m == n + 1
<1>1. /\ n \in Nat /\ m \in Nat /\ n \in 0 .. n /\ m \in 0 .. m
      /\ DOMAIN f = 1 .. n /\ DOMAIN t = 1 .. m
      /\ t[m] = e /\ \A i \in 1 .. n : t[i] = f[i]
  OBVIOUS
<1>2. (\A i \in 1 .. n : f[i].width \in Nat) /\ \A i \in 1 .. m : t[i].width \in Nat
  <2>1. t \in Seq(Field) /\ Len(t) = m
    OBVIOUS
  <2> HIDE DEF t, m
  <2> QED BY <2>1, FieldAt
<1>3. m \in 1 .. m /\ 1 .. m # {} /\ (1 .. m) \ {m} = 1 .. n /\ n <= m
  <2>1. \A x \in 1 .. m : x = m \/ x \in 1 .. n
    OBVIOUS
  <2>2. \A x \in 1 .. n : x \in 1 .. m /\ x # m
    OBVIOUS
  <2>3. m \in 1 .. m /\ n <= m
    OBVIOUS
  <2> HIDE DEF m, n
  <2> QED BY <2>1, <2>2, <2>3
<1> HIDE DEF t, n, m
<1>4. PICK g \in [SUBSET (1 .. n) -> Nat] : Sums(g, f, n)
  BY <1>1, <1>2, SumsExists
<1>5. PICK h \in [SUBSET (1 .. m) -> Nat] : Sums(h, t, m)
  BY <1>1, <1>2, SumsExists
<1>6. Width(f) = g[1 .. n] /\ Width(t) = h[1 .. m]
  BY <1>1, <1>4, <1>5, WidthLast
<1>7. h[1 .. m] = h[1 .. n] + e.width
  <2>1. Max(1 .. m) = m
    <3>1. 1 .. m \in SUBSET (1 .. m)
      OBVIOUS
    <3> QED BY <1>1, <1>3, <3>1, MaxIs
  <2>2. h[1 .. m] = h[(1 .. m) \ {Max(1 .. m)}] + t[Max(1 .. m)].width
    BY <1>3, <1>5 DEF Sums
  <2> QED BY <1>1, <1>3, <2>1, <2>2
<1>8. h[1 .. n] = g[1 .. n]
  <2>1. Agree(t, f, n)
    BY <1>1 DEF Agree
  <2> QED BY <1>1, <1>3, <1>4, <1>5, <2>1, SumsAgree
<1> QED BY <1>6, <1>7, <1>8 DEF t

\* A longer prefix of a sequence is a shorter one and an element.
LEMMA PrefixAppend ==
  ASSUME NEW X, NEW s \in Seq(X), NEW k \in Nat, k + 1 <= Len(s)
  PROVE  /\ SubSeq(s, 1, k) \in Seq(X) /\ Len(SubSeq(s, 1, k)) = k
         /\ s[k + 1] \in X
         /\ SubSeq(s, 1, k + 1) = Append(SubSeq(s, 1, k), s[k + 1])
  OBVIOUS

\* The width of two tables, one behind the other.
LEMMA WidthConcat ==
  ASSUME NEW f \in Seq(Field), NEW g \in Seq(Field)
  PROVE  Width(f \o g) = Width(f) + Width(g)
<1> DEFINE P(k) == Width(f \o SubSeq(g, 1, k)) = Width(f) + Width(SubSeq(g, 1, k))
           T == {k \in Nat : k <= Len(g) => P(k)}
<1>1. P(0)
  <2>1. SubSeq(g, 1, 0) = <<>> /\ f \o <<>> = f
    OBVIOUS
  <2>2. Width(f) \in Nat
    BY WidthType
  <2>3. Width(f \o SubSeq(g, 1, 0)) = Width(f) /\ Width(SubSeq(g, 1, 0)) = 0
    BY <2>1, WidthEmpty, Zenon
  <2> QED BY <2>2, <2>3
<1>2. ASSUME NEW k \in Nat, P(k), k + 1 <= Len(g) PROVE P(k + 1)
  <2> DEFINE p == SubSeq(g, 1, k)
             e == g[k + 1]
  <2>1. p \in Seq(Field) /\ e \in Field /\ SubSeq(g, 1, k + 1) = Append(p, e)
    BY <1>2, PrefixAppend
  <2>2. Width(f \o p) = Width(f) + Width(p)
    BY <1>2
  <2> HIDE DEF p, e
  <2>3. f \o Append(p, e) = Append(f \o p, e) /\ f \o p \in Seq(Field)
    BY <2>1
  <2>4. Width(Append(f \o p, e)) = Width(f \o p) + e.width
    BY <2>1, <2>3, WidthAppend
  <2>5. Width(Append(p, e)) = Width(p) + e.width
    BY <2>1, WidthAppend
  <2>6. Width(f) \in Nat /\ Width(p) \in Nat /\ e.width \in Nat
    BY <2>1, WidthType DEF Field
  <2>7. /\ Width(f \o SubSeq(g, 1, k + 1)) = Width(Append(f \o p, e))
        /\ Width(SubSeq(g, 1, k + 1)) = Width(Append(p, e))
    BY <2>1, <2>3, Zenon
  <2>8. Width(Append(f \o p, e)) = Width(f) + Width(Append(p, e))
    BY <2>2, <2>4, <2>5, <2>6
  <2> QED BY <2>7, <2>8, Zenon
<1> HIDE DEF P
<1>3. T = Nat
  <2>1. T \in SUBSET Nat /\ 0 \in T
    BY <1>1
  <2>2. ASSUME NEW m \in T PROVE m + 1 \in T
    BY <1>2
  <2> HIDE DEF T
  <2> QED BY <2>1, <2>2, Induct
<1>4. P(Len(g))
  BY <1>3
<1>5. SubSeq(g, 1, Len(g)) = g
  OBVIOUS
<1> QED BY <1>4, <1>5 DEF P

-----------------------------------------------------------------------------
(* Bytes in a buffer                                                       *)

\* A byte, of which the lemmas need nothing but that it is a number.
Byte == Nat

\* The buffer holds these bytes from this offset on.
Holds(buf, off, bytes) ==
    /\ off + Len(bytes) <= Len(buf)
    /\ \A k \in 1 .. Len(bytes) : buf[off + k] = bytes[k]

\* A buffer holds two sequences, one behind the other, where it holds both.
LEMMA HoldsConcat ==
  ASSUME NEW buf \in Seq(Byte), NEW off \in Nat, NEW a \in Seq(Byte), NEW b \in Seq(Byte)
  PROVE  Holds(buf, off, a \o b) <=> Holds(buf, off, a) /\ Holds(buf, off + Len(a), b)
<1> DEFINE c == a \o b
<1>1. /\ c \in Seq(Byte) /\ Len(c) = Len(a) + Len(b)
      /\ \A k \in 1 .. Len(a) : c[k] = a[k]
      /\ \A k \in 1 .. Len(b) : c[Len(a) + k] = b[k]
  OBVIOUS
<1>2. Len(a) \in Nat /\ Len(b) \in Nat /\ Len(buf) \in Nat
  OBVIOUS
<1> HIDE DEF c
<1>3. ASSUME Holds(buf, off, c) PROVE Holds(buf, off, a) /\ Holds(buf, off + Len(a), b)
  <2>1. off + Len(a) <= Len(buf) /\ (off + Len(a)) + Len(b) <= Len(buf)
    BY <1>1, <1>2, <1>3 DEF Holds
  <2>2. ASSUME NEW k \in 1 .. Len(a) PROVE buf[off + k] = a[k]
    <3>1. k \in 1 .. Len(c)
      BY <1>1, <1>2
    <3> QED BY <3>1, <1>1, <1>3 DEF Holds
  <2>3. ASSUME NEW k \in 1 .. Len(b) PROVE buf[(off + Len(a)) + k] = b[k]
    <3>1. Len(a) + k \in 1 .. Len(c) /\ off + (Len(a) + k) = (off + Len(a)) + k
      BY <1>1, <1>2
    <3>2. buf[off + (Len(a) + k)] = c[Len(a) + k]
      BY <3>1, <1>3 DEF Holds
    <3> QED BY <3>1, <3>2, <1>1
  <2> QED BY <2>1, <2>2, <2>3 DEF Holds
<1>4. ASSUME Holds(buf, off, a), Holds(buf, off + Len(a), b) PROVE Holds(buf, off, c)
  <2>1. off + Len(c) <= Len(buf)
    BY <1>1, <1>2, <1>4 DEF Holds
  <2>2. ASSUME NEW k \in 1 .. Len(c) PROVE buf[off + k] = c[k]
    <3>1. CASE k <= Len(a)
      BY <3>1, <1>1, <1>2, <1>4 DEF Holds
    <3>2. CASE k > Len(a)
      <4> DEFINE j == k - Len(a)
      <4>1. j \in 1 .. Len(b) /\ k = Len(a) + j /\ off + k = (off + Len(a)) + j
        BY <3>2, <1>1, <1>2
      <4> HIDE DEF j
      <4>2. buf[(off + Len(a)) + j] = b[j] /\ c[Len(a) + j] = b[j]
        BY <4>1, <1>1, <1>4 DEF Holds
      <4> QED BY <4>1, <4>2
    <3> QED BY <3>1, <3>2, <1>1, <1>2
  <2> QED BY <2>1, <2>2 DEF Holds
<1> QED BY <1>3, <1>4 DEF c

\* The same for the parts that a body is made of.
SixParts(s, a, b, c, d, e, f) ==
  /\ s \in Seq(Byte)
  /\ Len(s) = Len(a) + Len(b) + Len(c) + Len(d) + Len(e) + Len(f)
  /\ \A buf \in Seq(Byte), off \in Nat : Holds(buf, off, s) =>
        /\ Holds(buf, off, a)
        /\ Holds(buf, off + Len(a), b)
        /\ Holds(buf, off + Len(a) + Len(b), c)
        /\ Holds(buf, off + Len(a) + Len(b) + Len(c), d)
        /\ Holds(buf, off + Len(a) + Len(b) + Len(c) + Len(d), e)
        /\ Holds(buf, off + Len(a) + Len(b) + Len(c) + Len(d) + Len(e), f)

\* Where the parts are.
LEMMA SixPartsOf ==
  ASSUME NEW a \in Seq(Byte), NEW b \in Seq(Byte), NEW c \in Seq(Byte),
         NEW d \in Seq(Byte), NEW e \in Seq(Byte), NEW f \in Seq(Byte),
         NEW s, s = a \o b \o c \o d \o e \o f
  PROVE  SixParts(s, a, b, c, d, e, f)
<1> DEFINE s2 == a \o b
           s3 == s2 \o c
           s4 == s3 \o d
           s5 == s4 \o e
<1>1. s2 \in Seq(Byte) /\ Len(s2) = Len(a) + Len(b)
  BY ConcatProperties
<1>2. s3 \in Seq(Byte) /\ Len(s3) = Len(s2) + Len(c)
  <2> HIDE DEF s2
  <2> QED BY <1>1, ConcatProperties
<1>3. s4 \in Seq(Byte) /\ Len(s4) = Len(s3) + Len(d)
  <2> HIDE DEF s3
  <2> QED BY <1>2, ConcatProperties
<1>4. s5 \in Seq(Byte) /\ Len(s5) = Len(s4) + Len(e)
  <2> HIDE DEF s4
  <2> QED BY <1>3, ConcatProperties
<1>5. s = s5 \o f /\ s \in Seq(Byte) /\ Len(s) = Len(s5) + Len(f)
  <2>1. s = s5 \o f
    OBVIOUS
  <2> HIDE DEF s5
  <2> QED BY <2>1, <1>4, ConcatProperties
<1>6. /\ Len(a) \in Nat /\ Len(b) \in Nat /\ Len(c) \in Nat
      /\ Len(d) \in Nat /\ Len(e) \in Nat /\ Len(f) \in Nat
  OBVIOUS
<1>7. ASSUME NEW buf \in Seq(Byte), NEW off \in Nat
      PROVE  /\ Holds(buf, off, s2) <=> Holds(buf, off, a) /\ Holds(buf, off + Len(a), b)
             /\ Holds(buf, off, s3) <=> Holds(buf, off, s2) /\ Holds(buf, off + Len(s2), c)
             /\ Holds(buf, off, s4) <=> Holds(buf, off, s3) /\ Holds(buf, off + Len(s3), d)
             /\ Holds(buf, off, s5) <=> Holds(buf, off, s4) /\ Holds(buf, off + Len(s4), e)
             /\ Holds(buf, off, s) <=> Holds(buf, off, s5) /\ Holds(buf, off + Len(s5), f)
  <2>1. Holds(buf, off, s2) <=> Holds(buf, off, a) /\ Holds(buf, off + Len(a), b)
    BY HoldsConcat
  <2> HIDE DEF s2
  <2>2. Holds(buf, off, s3) <=> Holds(buf, off, s2) /\ Holds(buf, off + Len(s2), c)
    BY <1>1, HoldsConcat
  <2> HIDE DEF s3
  <2>3. Holds(buf, off, s4) <=> Holds(buf, off, s3) /\ Holds(buf, off + Len(s3), d)
    BY <1>2, HoldsConcat
  <2> HIDE DEF s4
  <2>4. Holds(buf, off, s5) <=> Holds(buf, off, s4) /\ Holds(buf, off + Len(s4), e)
    BY <1>3, HoldsConcat
  <2> HIDE DEF s5
  <2>5. Holds(buf, off, s) <=> Holds(buf, off, s5) /\ Holds(buf, off + Len(s5), f)
    <3>1. Holds(buf, off, s5 \o f) <=> Holds(buf, off, s5) /\ Holds(buf, off + Len(s5), f)
      BY <1>4, HoldsConcat
    <3> QED BY <3>1, <1>5, Zenon
  <2> QED BY <2>1, <2>2, <2>3, <2>4, <2>5
<1> HIDE DEF s2, s3, s4, s5
<1>8. /\ Len(s2) = Len(a) + Len(b) /\ Len(s3) = Len(a) + Len(b) + Len(c)
      /\ Len(s4) = Len(a) + Len(b) + Len(c) + Len(d)
      /\ Len(s5) = Len(a) + Len(b) + Len(c) + Len(d) + Len(e)
      /\ Len(s) = Len(a) + Len(b) + Len(c) + Len(d) + Len(e) + Len(f)
  BY <1>1, <1>2, <1>3, <1>4, <1>5, <1>6
<1>9. ASSUME NEW buf \in Seq(Byte), NEW off \in Nat, Holds(buf, off, s)
      PROVE  /\ Holds(buf, off, a)
             /\ Holds(buf, off + Len(a), b)
             /\ Holds(buf, off + Len(a) + Len(b), c)
             /\ Holds(buf, off + Len(a) + Len(b) + Len(c), d)
             /\ Holds(buf, off + Len(a) + Len(b) + Len(c) + Len(d), e)
             /\ Holds(buf, off + Len(a) + Len(b) + Len(c) + Len(d) + Len(e), f)
  <2>1. /\ Holds(buf, off, a) /\ Holds(buf, off + Len(a), b)
        /\ Holds(buf, off + Len(s2), c) /\ Holds(buf, off + Len(s3), d)
        /\ Holds(buf, off + Len(s4), e) /\ Holds(buf, off + Len(s5), f)
    BY <1>7, <1>9
  <2>2. /\ off + Len(s2) = off + Len(a) + Len(b)
        /\ off + Len(s3) = off + Len(a) + Len(b) + Len(c)
        /\ off + Len(s4) = off + Len(a) + Len(b) + Len(c) + Len(d)
        /\ off + Len(s5) = off + Len(a) + Len(b) + Len(c) + Len(d) + Len(e)
    BY <1>6, <1>8
  <2> QED BY <2>1, <2>2
<1> QED BY <1>5, <1>8, <1>9 DEF SixParts

\* Slice finds what the buffer holds, whatever is behind it.
LEMMA SliceHeld ==
  ASSUME NEW buf \in Seq(Byte), NEW stale, NEW off \in Nat, NEW bytes \in Seq(Byte),
         Holds(buf, off, bytes)
  PROVE  Slice(buf, stale, off, Len(bytes)) = bytes
<1> DEFINE n == Len(bytes)
<1>1. n \in Nat /\ Len(buf) \in Nat /\ bytes = [k \in 1 .. n |-> bytes[k]]
  OBVIOUS
<1>2. \A k \in 1 .. n : off + k <= Len(buf) /\ buf[off + k] = bytes[k]
  BY <1>1 DEF Holds
<1> HIDE DEF n
<1>3. Slice(buf, stale, off, n) = [k \in 1 .. n |-> bytes[k]]
  BY <1>2 DEF Slice
<1> QED BY <1>1, <1>3 DEF n

-----------------------------------------------------------------------------
(* What Encode writes, Decode finds                                        *)

\* Every field has a value of its width.
Fits(fields, v) == \A i \in DOMAIN fields : v[i] \in Seq(Byte) /\ Len(v[i]) = fields[i].width

\* The values of the fields as they are written.
Written(fields, v) == [i \in DOMAIN fields |-> InOrder(fields[i], v[i])]

\* Swapping the bytes of a field twice leaves them as they were.
LEMMA InOrderTwice ==
  ASSUME NEW f, NEW bytes \in Seq(Byte)
  PROVE  /\ InOrder(f, bytes) \in Seq(Byte)
         /\ Len(InOrder(f, bytes)) = Len(bytes)
         /\ InOrder(f, InOrder(f, bytes)) = bytes
<1> DEFINE r == Reverse(bytes)
<1>1. r \in Seq(Byte) /\ Len(r) = Len(bytes)
  BY DEF Reverse
<1>2. Reverse(r) = bytes
  <2>1. Len(bytes) \in Nat /\ bytes = [i \in 1 .. Len(bytes) |-> bytes[i]]
    OBVIOUS
  <2>2. ASSUME NEW i \in 1 .. Len(bytes) PROVE r[(Len(bytes) - i) + 1] = bytes[i]
    <3> DEFINE j == (Len(bytes) - i) + 1
    <3>1. j \in 1 .. Len(bytes) /\ (Len(bytes) - j) + 1 = i
      BY <2>1
    <3> HIDE DEF j
    <3>2. r[j] = bytes[i]
      BY <3>1 DEF Reverse
    <3> QED BY <3>2 DEF j
  <2> HIDE DEF r
  <2>3. Reverse(r) = [i \in 1 .. Len(bytes) |-> bytes[i]]
    BY <1>1, <2>2 DEF Reverse
  <2> QED BY <2>1, <2>3
<1> QED BY <1>1, <1>2, Zenon DEF InOrder

\* The fields as they are written keep their widths.
LEMMA WrittenType ==
  ASSUME NEW fields \in Seq(Field), NEW v, Fits(fields, v)
  PROVE  /\ Written(fields, v) \in Seq(Seq(Byte))
         /\ Len(Written(fields, v)) = Len(fields)
         /\ \A i \in 1 .. Len(fields) :
               /\ Written(fields, v)[i] = InOrder(fields[i], v[i])
               /\ Len(Written(fields, v)[i]) = fields[i].width
               /\ v[i] \in Seq(Byte) /\ Len(v[i]) = fields[i].width
               /\ Written(fields, v)[i] \in Seq(Byte)
<1>1. DOMAIN fields = 1 .. Len(fields) /\ Len(fields) \in Nat
  OBVIOUS
<1>2. ASSUME NEW i \in 1 .. Len(fields)
      PROVE  /\ v[i] \in Seq(Byte) /\ Len(v[i]) = fields[i].width
             /\ InOrder(fields[i], v[i]) \in Seq(Byte)
             /\ Len(InOrder(fields[i], v[i])) = fields[i].width
  <2>1. v[i] \in Seq(Byte) /\ Len(v[i]) = fields[i].width
    BY <1>1 DEF Fits
  <2> QED BY <2>1, InOrderTwice
<1> DEFINE w == [i \in 1 .. Len(fields) |-> InOrder(fields[i], v[i])]
<1>3. w \in [1 .. Len(fields) -> Seq(Byte)]
  BY <1>2
<1>4. w \in Seq(Seq(Byte)) /\ Len(w) = Len(fields)
  BY <1>1, <1>3
<1>5. Written(fields, v) = w
  BY <1>1 DEF Written
<1> QED BY <1>2, <1>4, <1>5

\* The first n fields take as many bytes as their widths say.
LEMMA EncodePrefix ==
  ASSUME NEW fields \in Seq(Field), NEW s \in Seq(Seq(Byte)), Len(s) = Len(fields),
         \A i \in 1 .. Len(fields) : Len(s[i]) = fields[i].width,
         NEW n \in 0 .. Len(fields)
  PROVE  Len(FlattenSeq(SubSeq(s, 1, n))) = Width(SubSeq(fields, 1, n))
<1> DEFINE P(k) == Len(FlattenSeq(SubSeq(s, 1, k))) = Width(SubSeq(fields, 1, k))
           T == {k \in Nat : k <= Len(fields) => P(k)}
<1>1. P(0)
  <2>1. SubSeq(s, 1, 0) = <<>> /\ SubSeq(fields, 1, 0) = <<>>
    OBVIOUS
  <2>2. Len(FlattenSeq(SubSeq(s, 1, 0))) = Len(<<>>) /\ Width(SubSeq(fields, 1, 0)) = 0
    BY <2>1, WidthEmpty, FlattenEmpty, Zenon
  <2> QED BY <2>2
<1>2. ASSUME NEW k \in Nat, P(k), k + 1 <= Len(fields) PROVE P(k + 1)
  <2> DEFINE p == SubSeq(fields, 1, k)
             e == fields[k + 1]
             q == SubSeq(s, 1, k)
             b == s[k + 1]
  <2>1. p \in Seq(Field) /\ e \in Field /\ SubSeq(fields, 1, k + 1) = Append(p, e)
    BY <1>2, PrefixAppend
  <2>2. q \in Seq(Seq(Byte)) /\ b \in Seq(Byte) /\ SubSeq(s, 1, k + 1) = Append(q, b)
    BY <1>2, PrefixAppend
  <2>3. Len(FlattenSeq(q)) = Width(p)
    BY <1>2
  <2>4. Len(b) = e.width
    <3>1. k + 1 \in 1 .. Len(fields)
      BY <1>2
    <3> QED BY <3>1
  <2> HIDE DEF p, e, q, b
  <2>5. Width(Append(p, e)) = Width(p) + e.width
    BY <2>1, WidthAppend
  <2>6. FlattenSeq(Append(q, b)) = FlattenSeq(q) \o b /\ FlattenSeq(q) \in Seq(Byte)
    BY <2>2, FlattenAppend, FlattenType
  <2>7. Len(FlattenSeq(q) \o b) = Len(FlattenSeq(q)) + Len(b)
    BY <2>2, <2>6
  <2>8. Len(FlattenSeq(Append(q, b))) = Width(Append(p, e))
    BY <2>3, <2>4, <2>5, <2>6, <2>7
  <2> QED BY <2>1, <2>2, <2>8, Zenon
<1> HIDE DEF P
<1>3. T = Nat
  <2>1. T \in SUBSET Nat /\ 0 \in T
    BY <1>1
  <2>2. ASSUME NEW m \in T PROVE m + 1 \in T
    BY <1>2
  <2> HIDE DEF T
  <2> QED BY <2>1, <2>2, Induct
<1>4. P(n)
  <2>1. n \in Nat /\ n <= Len(fields)
    OBVIOUS
  <2> QED BY <2>1, <1>3
<1> QED BY <1>4 DEF P

\* An encoded table has the bytes that its width says.
LEMMA EncodeType ==
  ASSUME NEW fields \in Seq(Field), NEW v, Fits(fields, v)
  PROVE  Encode(fields, v) \in Seq(Byte) /\ Len(Encode(fields, v)) = Width(fields)
<1> DEFINE s == Written(fields, v)
<1>1. /\ s \in Seq(Seq(Byte)) /\ Len(s) = Len(fields)
      /\ \A i \in 1 .. Len(fields) : Len(s[i]) = fields[i].width
      /\ Encode(fields, v) = FlattenSeq(s)
  <2>1. Encode(fields, v) = FlattenSeq(s)
    BY Zenon DEF Encode, Written
  <2> HIDE DEF s
  <2>2. s = Written(fields, v)
    BY DEF s
  <2> QED BY <2>1, <2>2, WrittenType
<1> HIDE DEF s
<1>2. Len(fields) \in 0 .. Len(fields)
  OBVIOUS
<1>3. Len(FlattenSeq(SubSeq(s, 1, Len(fields)))) = Width(SubSeq(fields, 1, Len(fields)))
  BY <1>1, <1>2, EncodePrefix
<1>4. SubSeq(s, 1, Len(fields)) = s /\ SubSeq(fields, 1, Len(fields)) = fields
  BY <1>1, SubSeqFull
<1> QED BY <1>1, <1>3, <1>4, FlattenType, Zenon

\* A buffer that holds a flattened sequence holds each element in its place.
LEMMA FlattenHeld ==
  ASSUME NEW buf \in Seq(Byte), NEW off \in Nat, NEW s \in Seq(Seq(Byte)),
         Holds(buf, off, FlattenSeq(s)), NEW i \in 1 .. Len(s)
  PROVE  Holds(buf, off + Len(FlattenSeq(SubSeq(s, 1, i - 1))), s[i])
<1> DEFINE Part(k) == FlattenSeq(SubSeq(s, 1, k))
           Q(k) == \A j \in 1 .. k : Holds(buf, off + Len(Part(j - 1)), s[j])
           P(k) == Holds(buf, off, Part(k)) => Q(k)
           T == {k \in Nat : k <= Len(s) => P(k)}
<1>1. P(0)
  OBVIOUS
<1>2. ASSUME NEW k \in Nat, P(k), k + 1 <= Len(s) PROVE P(k + 1)
  <2> SUFFICES ASSUME Holds(buf, off, Part(k + 1)) PROVE Q(k + 1)
    OBVIOUS
  <2> DEFINE q == SubSeq(s, 1, k)
             b == s[k + 1]
  <2>1. q \in Seq(Seq(Byte)) /\ b \in Seq(Byte) /\ SubSeq(s, 1, k + 1) = Append(q, b)
    BY <1>2, PrefixAppend
  <2> HIDE DEF q, b
  <2>2. Part(k + 1) = FlattenSeq(q) \o b /\ FlattenSeq(q) \in Seq(Byte)
    BY <2>1, FlattenAppend, FlattenType
  <2>3. Holds(buf, off, FlattenSeq(q) \o b)
    BY <2>2
  <2>4. Holds(buf, off, FlattenSeq(q)) /\ Holds(buf, off + Len(FlattenSeq(q)), b)
    BY <2>1, <2>2, <2>3, HoldsConcat
  <2>5. Q(k)
    BY <1>2, <2>4 DEF q
  <2>6. Holds(buf, off + Len(Part((k + 1) - 1)), s[k + 1])
    <3>1. (k + 1) - 1 = k
      OBVIOUS
    <3> QED BY <2>4, <3>1 DEF q, b
  <2>7. \A j \in 1 .. k + 1 : j = k + 1 \/ j \in 1 .. k
    OBVIOUS
  <2> HIDE DEF Part
  <2> QED BY <2>5, <2>6, <2>7
<1> HIDE DEF P
<1>3. T = Nat
  <2>1. T \in SUBSET Nat /\ 0 \in T
    BY <1>1
  <2>2. ASSUME NEW m \in T PROVE m + 1 \in T
    BY <1>2
  <2> HIDE DEF T
  <2> QED BY <2>1, <2>2, Induct
<1>4. P(Len(s))
  <2>1. Len(s) \in Nat
    OBVIOUS
  <2> QED BY <2>1, <1>3
<1>5. Part(Len(s)) = FlattenSeq(s)
  <2>1. SubSeq(s, 1, Len(s)) = s
    BY SubSeqFull
  <2> QED BY <2>1
<1>6. Q(Len(s))
  BY <1>4, <1>5 DEF P
<1> QED BY <1>6

\* A buffer that holds an encoded table holds each field at its offset.
LEMMA FieldHeld ==
  ASSUME NEW fields \in Seq(Field), NEW v, Fits(fields, v),
         NEW buf \in Seq(Byte), NEW off \in Nat, Holds(buf, off, Encode(fields, v)),
         NEW i \in 1 .. Len(fields)
  PROVE  /\ off + Width(SubSeq(fields, 1, i - 1)) \in Nat
         /\ v[i] \in Seq(Byte) /\ Len(v[i]) = fields[i].width
         /\ InOrder(fields[i], v[i]) \in Seq(Byte)
         /\ Len(InOrder(fields[i], v[i])) = fields[i].width
         /\ Holds(buf, off + Width(SubSeq(fields, 1, i - 1)), InOrder(fields[i], v[i]))
<1> DEFINE s == Written(fields, v)
           O == Width(SubSeq(fields, 1, i - 1))
<1>1. /\ s \in Seq(Seq(Byte)) /\ Len(s) = Len(fields)
      /\ \A j \in 1 .. Len(fields) : Len(s[j]) = fields[j].width
      /\ v[i] \in Seq(Byte) /\ Len(v[i]) = fields[i].width
      /\ s[i] = InOrder(fields[i], v[i]) /\ s[i] \in Seq(Byte)
      /\ Encode(fields, v) = FlattenSeq(s)
  <2>1. Encode(fields, v) = FlattenSeq(s)
    BY Zenon DEF Encode, Written
  <2> HIDE DEF s
  <2>2. s = Written(fields, v)
    BY DEF s
  <2> QED BY <2>1, <2>2, WrittenType
<1> HIDE DEF s
<1>2. i - 1 \in 0 .. Len(fields) /\ SubSeq(fields, 1, i - 1) \in Seq(Field)
  OBVIOUS
<1>3. O \in Nat
  BY <1>2, WidthType
<1>4. Holds(buf, off + Len(FlattenSeq(SubSeq(s, 1, i - 1))), s[i])
  BY <1>1, FlattenHeld
<1>5. Len(FlattenSeq(SubSeq(s, 1, i - 1))) = O
  BY <1>1, <1>2, EncodePrefix
<1> QED BY <1>1, <1>3, <1>4, <1>5, SMTT(30)

\* Decode is the inverse of Encode, wherever in a buffer its bytes are.
LEMMA DecodeHeld ==
  ASSUME NEW fields \in Seq(Field), NEW v, Fits(fields, v),
         NEW buf \in Seq(Byte), NEW off \in Nat, NEW stale,
         Holds(buf, off, Encode(fields, v))
  PROVE  Decode(fields, buf, stale, off) = [i \in DOMAIN fields |-> v[i]]
<1> DEFINE O(i) == Width(SubSeq(fields, 1, i - 1))
<1>1. DOMAIN fields = 1 .. Len(fields)
  OBVIOUS
<1>2. ASSUME NEW i \in 1 .. Len(fields)
      PROVE  InOrder(fields[i], Slice(buf, stale, off + O(i), fields[i].width)) = v[i]
  <2>1. /\ off + O(i) \in Nat /\ v[i] \in Seq(Byte)
        /\ InOrder(fields[i], v[i]) \in Seq(Byte)
        /\ Len(InOrder(fields[i], v[i])) = fields[i].width
        /\ Holds(buf, off + O(i), InOrder(fields[i], v[i]))
    BY FieldHeld
  <2> HIDE DEF O
  <2>2. Slice(buf, stale, off + O(i), fields[i].width) = InOrder(fields[i], v[i])
    BY <2>1, SliceHeld
  <2> QED BY <2>1, <2>2, InOrderTwice
<1> QED BY <1>1, <1>2, Zenon DEF Decode

-----------------------------------------------------------------------------
(* The tables                                                              *)

\* The tables are made of fields of one width.
LEMMA Tables ==
  ASSUME NEW names \in Seq(FieldNames), NEW w \in Nat
  PROVE  /\ Raw(names, w) \in Seq(Field) /\ Num(names, w) \in Seq(Field)
         /\ Len(Raw(names, w)) = Len(names) /\ Len(Num(names, w)) = Len(names)
         /\ \A i \in 1 .. Len(names) : /\ Raw(names, w)[i].width = w
                                       /\ Num(names, w)[i].width = w
<1>1. DOMAIN names = 1 .. Len(names) /\ Len(names) \in Nat
  OBVIOUS
<1>2. \A b \in BOOLEAN : \A i \in 1 .. Len(names) :
        [name |-> names[i], width |-> w, swap |-> b] \in Field
  BY DEF Field
<1>3. /\ Raw(names, w) \in [1 .. Len(names) -> Field]
      /\ Num(names, w) \in [1 .. Len(names) -> Field]
  BY <1>1, <1>2 DEF Raw, Num
<1>4. \A i \in 1 .. Len(names) : Raw(names, w)[i].width = w /\ Num(names, w)[i].width = w
  BY <1>1 DEF Raw, Num
<1>5. \A f \in [1 .. Len(names) -> Field] : f \in Seq(Field) /\ Len(f) = Len(names)
  BY <1>1
<1> QED BY <1>3, <1>4, <1>5

\* The tables of the messages are tables.
LEMMA TableTypes ==
  /\ HeaderFields \in Seq(Field) /\ VehicleField \in Seq(Field)
  /\ InhFields \in Seq(Field) /\ ResFields \in Seq(Field)
  /\ StateFields \in Seq(Field) /\ State2Fields \in Seq(Field)
  /\ DoorFields \in Seq(Field) /\ PointFields \in Seq(Field)
<1>1. ASSUME NEW names \in Seq(FieldNames), NEW w \in Nat
      PROVE  Raw(names, w) \in Seq(Field) /\ Num(names, w) \in Seq(Field)
  BY Tables
<1>2. \A f, g \in Seq(Field) : f \o g \in Seq(Field)
  OBVIOUS
<1>3. HeaderFields \in Seq(Field)
  <2>1. {<<"id">>,
         <<"data_len">>,
         <<"data_type", "version">>,
         <<"timestamp">>,
         <<"ctrl">>} \subseteq Seq(FieldNames)
    BY DEF FieldNames
  <2> QED BY <1>1, <1>2, <2>1 DEF HeaderFields
<1>4. VehicleField \in Seq(Field)
  <2>1. {<<"vehicle_id">>} \subseteq Seq(FieldNames)
    BY DEF FieldNames
  <2> QED BY <1>1, <2>1 DEF VehicleField
<1>5. InhFields \in Seq(Field)
  <2>1. {<<"com_type", "pos_confidence", "time_sync", "gnss_type">>} \subseteq Seq(FieldNames)
    BY DEF FieldNames
  <2> QED BY <1>1, <2>1 DEF InhFields
<1>6. ResFields \in Seq(Field)
  <2>1. {<<"res">>} \subseteq Seq(FieldNames)
    BY DEF FieldNames
  <2> QED BY <1>1, <1>2, <1>4, <2>1 DEF ResFields
<1>7. StateFields \in Seq(Field)
  <2>1. {<<"message_id", "gnss_timestamp">>,
         <<"gnss_velocity">>,
         <<"pos.longitude", "pos.latitude", "pos.elevation", "heading">>,
         <<"gear">>,
         <<"steering_angle">>,
         <<"velocity", "acc_lon", "acc_lat", "acc_ver", "yaw_rate", "accel_pos",
          "engine_speed">>,
         <<"engine_torque">>,
         <<"break_flag">>,
         <<"break_pos", "break_pressure", "fuel_consume">>,
         <<"drive_mode">>,
         <<"dest.longitude", "dest.latitude">>} \subseteq Seq(FieldNames)
    BY DEF FieldNames
  <2> QED BY <1>1, <1>2, <1>4, <2>1, ZenonT(30) DEF StateFields
<1>8. State2Fields \in Seq(Field)
  <2>1. {<<"abs_flag", "tcs_flag", "esp_flag", "lka_flag", "acc_flag",
          "fcw_flag", "ldw_flag", "aeb_flag", "lca_flag", "dms_flag">>,
         <<"mileage">>,
         <<"fuel_gauge", "soc">>,
         <<"temperature">>,
         <<"endurance">>,
         <<"vehfault", "motorspeed">>,
         <<"motortorque">>,
         <<"veh_mode", "charge_state">>,
         <<"batt_vol", "batt_cur">>,
         <<"horn_state">>} \subseteq Seq(FieldNames)
    BY DEF FieldNames
  <2> QED BY <1>1, <1>2, <2>1 DEF State2Fields
<1>9. DoorFields \in Seq(Field)
  <2>1. {<<"lights", "doors">>} \subseteq Seq(FieldNames)
    BY DEF FieldNames
  <2> QED BY <1>1, <2>1 DEF DoorFields
<1>10. PointFields \in Seq(Field)
  <2>1. {<<"longitude", "latitude">>} \subseteq Seq(FieldNames)
    BY DEF FieldNames
  <2> QED BY <1>1, <2>1 DEF PointFields
<1> QED BY <1>3, <1>4, <1>5, <1>6, <1>7, <1>8, <1>9, <1>10

\* One field more of a table.
LEMMA WidthPrefix ==
  ASSUME NEW f \in Seq(Field), NEW k \in Nat, k + 1 <= Len(f)
  PROVE  Width(SubSeq(f, 1, k + 1)) = Width(SubSeq(f, 1, k)) + f[k + 1].width
<1>1. /\ SubSeq(f, 1, k) \in Seq(Field) /\ f[k + 1] \in Field
      /\ SubSeq(f, 1, k + 1) = Append(SubSeq(f, 1, k), f[k + 1])
  BY PrefixAppend
<1> QED BY <1>1, WidthAppend

\* The header is 16 bytes: the identifier, the length, the type at byte 5, the
\* version at byte 6.
LEMMA HeaderShape ==
  /\ Len(HeaderFields) = 6 /\ HeaderLen = 16
  /\ HeaderFields[1].width = 1 /\ HeaderFields[2].width = 4
  /\ HeaderFields[3].width = 1 /\ HeaderFields[4].width = 1
  /\ HeaderFields[5].width = 8 /\ HeaderFields[6].width = 1
  /\ ~HeaderFields[1].swap /\ ~HeaderFields[3].swap /\ ~HeaderFields[4].swap
  /\ Width(SubSeq(HeaderFields, 1, 0)) = 0
  /\ Width(SubSeq(HeaderFields, 1, 2)) = 5
  /\ Width(SubSeq(HeaderFields, 1, 3)) = 6
<1> DEFINE f == HeaderFields
<1>1. /\ Len(f) = 6
      /\ f[1].width = 1 /\ f[2].width = 4 /\ f[3].width = 1
      /\ f[4].width = 1 /\ f[5].width = 8 /\ f[6].width = 1
      /\ ~f[1].swap /\ ~f[3].swap /\ ~f[4].swap
  BY DEF HeaderFields, Raw, Num
<1>2. f \in Seq(Field)
  BY TableTypes
<1> HIDE DEF f
<1>3. Width(SubSeq(f, 1, 0)) = 0
  <2>1. SubSeq(f, 1, 0) = <<>>
    BY <1>2
  <2> QED BY <2>1, WidthEmpty, Zenon
<1> DEFINE W(k) == Width(SubSeq(f, 1, k))
<1>4. \A k, j \in 0 .. 6 : j = k + 1 => W(j) = W(k) + f[j].width
  <2> SUFFICES ASSUME NEW k \in 0 .. 6, k + 1 \in 0 .. 6
               PROVE  W(k + 1) = W(k) + f[k + 1].width
    OBVIOUS
  <2>1. k \in Nat /\ k + 1 <= Len(f)
    BY <1>1
  <2> QED BY <1>2, <2>1, WidthPrefix
<1>5. W(0) = 0
  BY <1>3
<1> HIDE DEF W
<1>6. W(1) = 1
  BY <1>1, <1>4, <1>5
<1>7. W(2) = 5
  BY <1>1, <1>4, <1>6
<1>8. W(3) = 6
  BY <1>1, <1>4, <1>7
<1>9. W(6) = 16
  <2>1. W(4) = 7
    BY <1>1, <1>4, <1>8
  <2>2. W(5) = 15
    BY <1>1, <1>4, <2>1
  <2> QED BY <1>1, <1>4, <2>2
<1>10. SubSeq(f, 1, 6) = f
  BY <1>1, <1>2, SubSeqFull
<1>11. Width(f) = 16
  BY <1>9, <1>10, Zenon DEF W
<1> QED BY <1>1, <1>3, <1>7, <1>8, <1>11 DEF f, W, HeaderLen

\* The constructors fill a field with as many bytes as it has.
LEMMA SampleFits ==
  ASSUME NEW fields \in Seq(Field)
  PROVE  Fits(fields, Sample(fields)) /\ DOMAIN Sample(fields) = DOMAIN fields
         /\ Sample(fields) \in Seq(Seq(Byte)) /\ Len(Sample(fields)) = Len(fields)
<1>1. DOMAIN fields = 1 .. Len(fields) /\ Len(fields) \in Nat
  OBVIOUS
<1>2. ASSUME NEW i \in 1 .. Len(fields)
      PROVE  Sample(fields)[i] \in Seq(Byte) /\ Len(Sample(fields)[i]) = fields[i].width
  <2> DEFINE w == fields[i].width
             b == [k \in 1 .. w |-> (8 * i + k) % 256]
  <2>1. w \in Nat
    BY FieldAt
  <2>2. Sample(fields)[i] = b
    BY <1>1 DEF Sample
  <2> HIDE DEF w
  <2>3. b \in [1 .. w -> Byte]
    BY <2>1 DEF Byte
  <2>4. b \in Seq(Byte) /\ Len(b) = w
    BY <2>1, <2>3, SMTT(30)
  <2> QED BY <2>2, <2>4 DEF w
<1>3. Sample(fields) = [i \in 1 .. Len(fields) |-> Sample(fields)[i]]
  BY <1>1 DEF Sample
<1>4. Sample(fields) \in [1 .. Len(fields) -> Seq(Byte)]
  BY <1>2, <1>3
<1> QED BY <1>1, <1>2, <1>4 DEF Fits

\* A 32-bit number is read from the bytes it is kept in (without the wrap at
\* 2^32: no message is as long).
LEMMA NumberOfMemory ==
  ASSUME NEW n \in Nat
  PROVE  /\ Number(Memory(n)) = n
         /\ Memory(n) \in Seq(Byte) /\ Len(Memory(n)) = 4
<1> DEFINE a == n \div 256
           b == n \div 65536
           c == n \div 16777216
<1>1. n = 256 * a + (n % 256) /\ a = 256 * b + (a % 256) /\ b = 256 * c + (b % 256)
  OBVIOUS
<1>2. a \in Nat /\ b \in Nat /\ c \in Nat
  OBVIOUS
<1>3. Memory(n) = <<n % 256, a % 256, b % 256, c>>
  BY DEF Memory
<1>4. n % 256 \in Nat /\ a % 256 \in Nat /\ b % 256 \in Nat
  BY <1>2
<1> HIDE DEF a, b, c
<1> QED BY <1>1, <1>2, <1>3, <1>4 DEF Number, Byte

-----------------------------------------------------------------------------
(* Headers and texts                                                       *)

\* A header as it is built, or with another value in one of its fields.
IsHeader(h) == h \in Seq(Seq(Byte)) /\ Len(h) = 6 /\ Fits(HeaderFields, h)

\* What the constructors make of a header.
LEMMA HeaderIs ==
  ASSUME NEW len \in Nat, NEW type \in Byte, NEW version \in Byte
  PROVE  /\ IsHeader(Header(len, type, version))
         /\ Header(len, type, version)[1] = << 242 >>
         /\ Number(Header(len, type, version)[2]) = len
         /\ Header(len, type, version)[3] = <<type>>
         /\ Header(len, type, version)[4] = <<version>>
<1> DEFINE h == Header(len, type, version)
           mem == Memory(len)
<1>1. mem \in Seq(Byte) /\ Len(mem) = 4 /\ Number(mem) = len
  BY NumberOfMemory
<1> HIDE DEF mem
<1>2. h = <<<<242>>, mem, <<type>>, <<version>>, <<1, 2, 3, 4, 5, 6, 7, 8>>, << 28 >>>>
  BY DEF Header, mem
<1>3. /\ << 242 >> \in Seq(Byte) /\ <<type>> \in Seq(Byte) /\ <<version>> \in Seq(Byte)
      /\ <<1, 2, 3, 4, 5, 6, 7, 8>> \in Seq(Byte) /\ << 28 >> \in Seq(Byte)
  BY DEF Byte
<1> HIDE DEF h
<1>4. h \in Seq(Seq(Byte)) /\ Len(h) = 6
  BY <1>1, <1>2, <1>3
<1>5. Fits(HeaderFields, h)
  <2>1. DOMAIN HeaderFields = 1 .. 6
    BY HeaderShape, TableTypes
  <2>2. /\ Len(h[1]) = 1 /\ Len(h[2]) = 4 /\ Len(h[3]) = 1
        /\ Len(h[4]) = 1 /\ Len(h[5]) = 8 /\ Len(h[6]) = 1
    BY <1>1, <1>2
  <2>3. ASSUME NEW i \in 1 .. 6 PROVE h[i] \in Seq(Byte) /\ Len(h[i]) = HeaderFields[i].width
    <3>1. i = 1 \/ i = 2 \/ i = 3 \/ i = 4 \/ i = 5 \/ i = 6
      OBVIOUS
    <3>2. h[i] \in Seq(Byte)
      <4>1. i \in 1 .. Len(h)
        BY <1>4
      <4> QED BY <4>1, <1>4, ElementOfSeq
    <3> QED BY <2>2, <3>1, <3>2, HeaderShape
  <2> QED BY <2>1, <2>3, Zenon DEF Fits
<1> QED BY <1>1, <1>2, <1>4, <1>5 DEF h, IsHeader

\* What unpack() reads of a header that the buffer holds: the identifier, the type,
\* the version, and all of it if enough bytes were received.
HeaderRead(buf, stale, h) ==
  /\ Slice(buf, stale, 0, 1) = h[1]
  /\ Slice(buf, stale, 5, 1) = h[3]
  /\ Slice(buf, stale, 6, 1) = h[4]
  /\ \A size \in Nat : size >= 16 => ReadHeader(buf, stale, size) = h

\* See HeaderRead.
LEMMA HeaderHeld ==
  ASSUME NEW h, IsHeader(h), NEW buf \in Seq(Byte), NEW stale,
         Holds(buf, 0, Encode(HeaderFields, h))
  PROVE  HeaderRead(buf, stale, h)
<1> DEFINE f == HeaderFields
<1>1. f \in Seq(Field) /\ Fits(f, h) /\ DOMAIN f = 1 .. 6
  BY HeaderShape, TableTypes DEF IsHeader
<1>2. /\ Len(f) = 6 /\ f[1].width = 1 /\ f[3].width = 1 /\ f[4].width = 1
      /\ ~f[1].swap /\ ~f[3].swap /\ ~f[4].swap
      /\ Width(SubSeq(f, 1, 1 - 1)) = 0 /\ Width(SubSeq(f, 1, 3 - 1)) = 5
      /\ Width(SubSeq(f, 1, 4 - 1)) = 6 /\ HeaderLen = 16
  BY HeaderShape
<1> HIDE DEF f
<1>3. ASSUME NEW i \in {1, 3, 4}
      PROVE  Slice(buf, stale, Width(SubSeq(f, 1, i - 1)), 1) = h[i]
  <2>1. i \in 1 .. Len(f) /\ ~f[i].swap /\ f[i].width = 1
    BY <1>2
  <2>2. /\ 0 + Width(SubSeq(f, 1, i - 1)) \in Nat
        /\ h[i] \in Seq(Byte) /\ Len(h[i]) = 1
        /\ Holds(buf, 0 + Width(SubSeq(f, 1, i - 1)), InOrder(f[i], h[i]))
    BY <1>1, <2>1, FieldHeld DEF f
  <2>3. InOrder(f[i], h[i]) = h[i]
    BY <2>1 DEF InOrder
  <2> DEFINE O == Width(SubSeq(f, 1, i - 1))
  <2>4. O \in Nat /\ 0 + O = O
    BY <1>2
  <2>5. Holds(buf, 0 + O, h[i])
    BY <2>2, <2>3
  <2> HIDE DEF O
  <2>6. Slice(buf, stale, O, Len(h[i])) = h[i]
    BY <2>2, <2>4, <2>5, SliceHeld
  <2> QED BY <2>2, <2>6 DEF O
<1>4. Slice(buf, stale, 0, 1) = h[1]
  BY <1>2, <1>3
<1>5. Slice(buf, stale, 5, 1) = h[3]
  BY <1>2, <1>3
<1>6. Slice(buf, stale, 6, 1) = h[4]
  BY <1>2, <1>3
<1>7. Decode(HeaderFields, buf, stale, 0) = h
  <2>1. h = [i \in 1 .. 6 |-> h[i]]
    BY DEF IsHeader
  <2>2. Decode(HeaderFields, buf, stale, 0) = [i \in 1 .. 6 |-> h[i]]
    BY <1>1, DecodeHeld DEF f
  <2> QED BY <2>1, <2>2
<1>8. \A size \in Nat : size >= 16 => ReadHeader(buf, stale, size) = h
  BY <1>2, <1>7 DEF ReadHeader
<1> QED BY <1>4, <1>5, <1>6, <1>8, Zenon DEF HeaderRead

\* A text is cut or padded to n characters.
LEMMA CharsType ==
  ASSUME NEW text \in Seq(Byte), NEW n \in Nat
  PROVE  /\ Chars(text, n) \in Seq(Byte) /\ Len(Chars(text, n)) = n
         /\ n = Len(text) => Chars(text, n) = text
<1>1. Chars(text, n) \in [1 .. n -> Byte]
  BY DEF Chars, Byte
<1>2. Chars(text, n) \in Seq(Byte) /\ Len(Chars(text, n)) = n
  BY <1>1
<1>3. ASSUME n = Len(text) PROVE Chars(text, n) = text
  <2>1. text = [k \in 1 .. n |-> text[k]] /\ \A k \in 1 .. n : k <= Len(text)
    BY <1>3
  <2> QED BY <2>1 DEF Chars
<1> QED BY <1>2, <1>3

\* A text takes its characters and a length byte.
LEMMA TextType ==
  ASSUME NEW text \in Seq(Byte), NEW n \in Nat
  PROVE  Text(text, n) \in Seq(Byte) /\ Len(Text(text, n)) = 1 + n
<1>1. <<n>> \in Seq(Byte) /\ Len(<<n>>) = 1
  BY DEF Byte
<1> QED BY <1>1, CharsType DEF Text

\* A text is read as it was written.
LEMMA TextHeld ==
  ASSUME NEW text \in Seq(Byte), NEW version \in BOOLEAN, version => Len(text) < 255,
         NEW buf \in Seq(Byte), NEW off \in Nat, NEW stale,
         Holds(buf, off, <<Len(text)>> \o text)
  PROVE  ReadText(buf, stale, off, version) = [text |-> text, next |-> off + 1 + Len(text)]
<1> DEFINE n == <<Len(text)>>
<1>1. n \in Seq(Byte) /\ Len(n) = 1 /\ Len(text) \in Nat /\ n[1] = Len(text)
  BY DEF Byte
<1>2. Holds(buf, off, n) /\ Holds(buf, off + 1, text)
  BY <1>1, HoldsConcat
<1> HIDE DEF n
<1>3. Slice(buf, stale, off, 1)[1] = Len(text)
  BY <1>1, <1>2, SliceHeld, Zenon
<1>4. Slice(buf, stale, off + 1, Len(text)) = text
  BY <1>2, SliceHeld
<1> QED BY <1>1, <1>3, <1>4 DEF ReadText

=============================================================================
