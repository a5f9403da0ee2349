---------------------------- MODULE ConverterProofs ----------------------------
(***************************************************************************)
(* Proofs about module Converter, for texts of any length and buffers of   *)
(* any size: string_to_bytes finds the longest prefix that is a list of    *)
(* bytes, it reads what bytes_to_string prints, and string_to_bcd puts the *)
(* digits at the right; and about module Calendar:                         *)
(* bcd_time_to_utc_milliseconds is right for every second of every day     *)
(* from 2000-01-01 to 2099-12-31.                                          *)
(*                                                                         *)
(* The calendar comes first.  The two halves of the conversion's formula   *)
(* for a date, for the months from March on and for January and February,  *)
(* which it counts with the year before, are put in a form without eras;   *)
(* the next day's number is then one more, month by month and year by      *)
(* year.  The loops over a text are folds: what they have done behind each *)
(* character is an invariant of the loop, proved by induction.             *)
(***************************************************************************)
EXTENDS Converter, FoldProofs

\* The days from the first of March to the first of a month: 306 to January,
\* 337 to February.
Before == <<306, 337, 0, 31, 61, 92, 122, 153, 184, 214, 245, 275>>

\* The number that the conversion gives a date of this century.
NumberOf(y, month, d) == DaysSinceEpoch(2000 + y, month, d)

\* That number without eras: for a day from March on, and for one in January or
\* February, which belongs to the year before.
LateNumber(y, month, d) == 11016 + 365 * y + y \div 4 + Before[month] + d
EarlyNumber(y, month, d) == 10650 + 365 * y + (y + 3) \div 4 + Before[month] + d

\* The date is a day of the calendar ...
DateOK ==
    /\ date = <<date[1], date[2], date[3]>>
    /\ date[1] \in 0 .. LastYear
    /\ date[2] \in 1 .. 12
    /\ date[3] \in 1 .. MonthLength(date[1], date[2])

\* ... and the conversion gives its number.
DayInv == DateOK /\ day = NumberOf(date[1], date[2], date[3])

-----------------------------------------------------------------------------
(* The parts of the formula                                                *)

\* (153 * (m + (m > 2 ? -3 : 9)) + 2) / 5 counts the days of the months from March
\* on (converter.c 204).
LEMMA DaysBefore ==
    ASSUME NEW month \in 1 .. 12
    PROVE  /\ (153 * (month + (IF month > 2 THEN -3 ELSE 9)) + 2) \div 5 = Before[month]
           /\ Before[month] \in Nat
<1>1. month \in {1, 2, 3, 4, 5, 6, 7, 8, 9, 10, 11, 12}
  OBVIOUS
<1> QED
  BY <1>1 DEF Before

\* The quarters of a year and of the years next to it, for the leap days.
LEMMA Quarters ==
    ASSUME NEW y \in 0 .. 99
    PROVE  /\ y \div 4 \in Nat /\ (y + 3) \div 4 \in Nat
           /\ y % 4 = 0 => (y + 3) \div 4 = y \div 4
           /\ y % 4 # 0 => (y + 3) \div 4 = y \div 4 + 1
           /\ ((y + 1) + 3) \div 4 = y \div 4 + 1
           /\ y > 0 => (y - 1) \div 4 + 1 = (y + 3) \div 4
  OBVIOUS

\* A day from March on, without eras.
LEMMA LateDays ==
    ASSUME NEW y \in 0 .. 99, NEW month \in 1 .. 12, month > 2, NEW d \in Int
    PROVE  /\ NumberOf(y, month, d) = LateNumber(y, month, d)
           /\ NumberOf(y, month, d) \in Int
<1>1. (2000 + y) \div 400 = 5 /\ (2000 + y) % 400 = y /\ y \div 100 = 0
  OBVIOUS
<1>2. ~(month <= 2)
  OBVIOUS
<1>3. NumberOf(y, month, d)
        = 5 * 146097 + y * 365 + y \div 4 - 0 + (Before[month] + d - 1) - 719468
  BY <1>1, <1>2, DaysBefore DEF NumberOf, DaysSinceEpoch
<1> QED
  BY <1>2, <1>3, DaysBefore, Quarters DEF LateNumber

\* A day in January or February, which belongs to the year before; that of the first
\* year is in another era.
LEMMA EarlyDays ==
    ASSUME NEW y \in 0 .. 99, NEW month \in 1 .. 12, month <= 2, NEW d \in Int
    PROVE  /\ NumberOf(y, month, d) = EarlyNumber(y, month, d)
           /\ NumberOf(y, month, d) \in Int
<1>1. CASE y > 0
  <2>1. /\ (2000 + y - 1) \div 400 = 5 /\ (2000 + y - 1) % 400 = y - 1
        /\ (y - 1) \div 100 = 0
    BY <1>1
  <2>2. NumberOf(y, month, d)
          = 5 * 146097 + (y - 1) * 365 + (y - 1) \div 4 - 0
              + (Before[month] + d - 1) - 719468
    BY <2>1, DaysBefore DEF NumberOf, DaysSinceEpoch
  <2> QED
    BY <1>1, <2>2, DaysBefore, Quarters DEF EarlyNumber
<1>2. CASE y = 0
  <2>1. 2000 + y - 1 = 1999 /\ (y + 3) \div 4 = 0
    BY <1>2
  <2>2. 1999 \div 400 = 4 /\ 1999 % 400 = 399 /\ 399 \div 4 = 99 /\ 399 \div 100 = 3
    OBVIOUS
  <2>3. NumberOf(y, month, d)
          = 4 * 146097 + 399 * 365 + 99 - 3 + (Before[month] + d - 1) - 719468
    BY <2>1, <2>2, DaysBefore DEF NumberOf, DaysSinceEpoch
  <2> QED
    BY <1>2, <2>1, <2>3, DaysBefore DEF EarlyNumber
<1> QED
  BY <1>1, <1>2

-----------------------------------------------------------------------------
(* The calendar                                                            *)

\* The next day of a month.
LEMMA NextDay ==
    ASSUME NEW y \in 0 .. 99, NEW month \in 1 .. 12, NEW d \in Int
    PROVE  NumberOf(y, month, d + 1) = NumberOf(y, month, d) + 1
<1>1. /\ d + 1 \in Int /\ Before[month] \in Nat
      /\ y \div 4 \in Nat /\ (y + 3) \div 4 \in Nat
  BY DaysBefore, Quarters
<1>2. CASE month > 2
  <2>1. /\ NumberOf(y, month, d) = LateNumber(y, month, d)
        /\ NumberOf(y, month, d + 1) = LateNumber(y, month, d + 1)
    BY <1>1, <1>2, LateDays
  <2> QED
    BY <1>1, <2>1 DEF LateNumber
<1>3. CASE month <= 2
  <2>1. /\ NumberOf(y, month, d) = EarlyNumber(y, month, d)
        /\ NumberOf(y, month, d + 1) = EarlyNumber(y, month, d + 1)
    BY <1>1, <1>3, EarlyDays
  <2> QED
    BY <1>1, <2>1 DEF EarlyNumber
<1> QED
  BY <1>2, <1>3

\* The first of the next month, over a leap day if there is one.
LEMMA NextMonth ==
    ASSUME NEW y \in 0 .. 99, NEW month \in 1 .. 11
    PROVE  NumberOf(y, month + 1, 1) = NumberOf(y, month, MonthLength(y, month)) + 1
<1>1. /\ month \in 1 .. 12 /\ month + 1 \in 1 .. 12 /\ 1 \in Int
      /\ MonthLength(y, month) \in Int
  BY DEF MonthLength
<1>2. /\ Before[month] \in Nat /\ y \div 4 \in Nat /\ (y + 3) \div 4 \in Nat
  BY <1>1, DaysBefore, Quarters
<1>3. CASE month > 2
  <2>1. month + 1 > 2
    BY <1>3
  <2>2. Before[month + 1] = Before[month] + MonthLength(y, month)
    <3>1. month \in {3, 4, 5, 6, 7, 8, 9, 10, 11}
      BY <1>3
    <3> QED
      BY <3>1 DEF Before, MonthLength
  <2>3. NumberOf(y, month + 1, 1) = LateNumber(y, month + 1, 1)
    BY <1>1, <2>1, LateDays, Zenon
  <2>4. NumberOf(y, month, MonthLength(y, month)) = LateNumber(y, month, MonthLength(y, month))
    BY <1>1, <1>3, LateDays, Zenon
  <2> QED
    BY <1>1, <1>2, <2>2, <2>3, <2>4 DEF LateNumber
<1>4. CASE month = 1
  <2>1. Before[1] = 306 /\ Before[2] = 337 /\ MonthLength(y, 1) = 31
    BY DEF Before, MonthLength
  <2>2. 1 \in 1 .. 12 /\ 1 <= 2 /\ 2 \in 1 .. 12 /\ 2 <= 2 /\ 31 \in Int /\ 1 + 1 = 2
    OBVIOUS
  <2>3. NumberOf(y, 2, 1) = EarlyNumber(y, 2, 1) /\ NumberOf(y, 1, 31) = EarlyNumber(y, 1, 31)
    BY <1>1, <2>2, EarlyDays, Zenon
  <2> QED
    BY <1>2, <1>4, <2>1, <2>2, <2>3 DEF EarlyNumber
<1>5. CASE month = 2
  <2> DEFINE last == MonthLength(y, 2)
  <2>1. /\ Before[2] = 337 /\ Before[3] = 0 /\ last \in Int
        /\ last = IF y % 4 = 0 THEN 29 ELSE 28
    BY DEF Before, MonthLength
  <2> HIDE DEF last
  <2>0. last \in Int
    BY <2>1
  <2>2. 2 \in 1 .. 12 /\ 2 <= 2 /\ 3 \in 1 .. 12 /\ 3 > 2 /\ 2 + 1 = 3
    OBVIOUS
  <2>3. NumberOf(y, 3, 1) = LateNumber(y, 3, 1)
    BY <1>1, <2>2, LateDays, Zenon
  <2>4. NumberOf(y, 2, last) = EarlyNumber(y, 2, last)
    BY <2>0, <2>2, EarlyDays, Zenon
  <2>5. /\ y % 4 = 0 => (y + 3) \div 4 = y \div 4
        /\ y % 4 # 0 => (y + 3) \div 4 = y \div 4 + 1
    BY Quarters
  <2> QED
    BY <1>2, <1>5, <2>1, <2>2, <2>3, <2>4, <2>5 DEF LateNumber, EarlyNumber, last
<1> QED
  BY <1>3, <1>4, <1>5

\* The first day of the next year.
LEMMA NextYear ==
    ASSUME NEW y \in 0 .. 98
    PROVE  NumberOf(y + 1, 1, 1) = NumberOf(y, 12, 31) + 1
<1>1. /\ y \in 0 .. 99 /\ y + 1 \in 0 .. 99
      /\ 1 \in 1 .. 12 /\ 1 <= 2 /\ 12 \in 1 .. 12 /\ 12 > 2 /\ 1 \in Int /\ 31 \in Int
  OBVIOUS
<1>2. Before[1] = 306 /\ Before[12] = 275
  BY DEF Before
<1>3. NumberOf(y + 1, 1, 1) = EarlyNumber(y + 1, 1, 1)
  BY <1>1, EarlyDays, Zenon
<1>4. NumberOf(y, 12, 31) = LateNumber(y, 12, 31)
  BY <1>1, LateDays, Zenon
<1>5. y \div 4 \in Nat /\ ((y + 1) + 3) \div 4 = y \div 4 + 1
  BY <1>1, Quarters
<1> QED
  BY <1>2, <1>3, <1>4, <1>5 DEF LateNumber, EarlyNumber

\* Whatever tomorrow is, its number is one more.
LEMMA DayStep ==
    ASSUME DayInv, Tomorrow
    PROVE  DayInv'
<1> DEFINE y == date[1]
           m == date[2]
           d == date[3]
<1>1. /\ y \in 0 .. 99 /\ y <= LastYear /\ m \in 1 .. 12 /\ d \in Int /\ d >= 1
      /\ d <= MonthLength(y, m)
  BY CalendarAssumption DEF DayInv, DateOK, MonthLength, CalendarAssumption
<1>2. day' = day + 1 /\ day = NumberOf(y, m, d)
  BY DEF Tomorrow, DayInv
<1>3. CASE d < MonthLength(y, m)
  <2>1. date' = <<y, m, d + 1>>
    BY <1>1, <1>3 DEF Tomorrow, MonthLength
  <2>2. d + 1 \in 1 .. MonthLength(y, m)
    BY <1>1, <1>3 DEF MonthLength
  <2>3. NumberOf(y, m, d + 1) = NumberOf(y, m, d) + 1
    BY <1>1, NextDay
  <2> QED
    BY <1>1, <1>2, <2>1, <2>2, <2>3 DEF DayInv, DateOK
<1>4. CASE d = MonthLength(y, m) /\ m < 12
  <2>1. date' = <<y, m + 1, 1>>
    BY <1>1, <1>4 DEF Tomorrow
  <2>2. m + 1 \in 1 .. 12 /\ 1 \in 1 .. MonthLength(y, m + 1) /\ m \in 1 .. 11
    BY <1>1, <1>4 DEF MonthLength
  <2>3. NumberOf(y, m + 1, 1) = NumberOf(y, m, d) + 1
    BY <1>1, <1>4, <2>2, NextMonth
  <2> QED
    BY <1>1, <1>2, <2>1, <2>2, <2>3 DEF DayInv, DateOK
<1>5. CASE d = MonthLength(y, m) /\ m = 12
  <2>1. date' = <<y + 1, 1, 1>> /\ y < LastYear /\ d = 31
    BY <1>1, <1>5, CalendarAssumption
    DEF Tomorrow, DayInv, DateOK, MonthLength, CalendarAssumption
  <2>2. y \in 0 .. 98 /\ y + 1 \in 0 .. LastYear /\ 1 \in 1 .. MonthLength(y + 1, 1)
    BY <1>1, <2>1, CalendarAssumption DEF MonthLength, CalendarAssumption
  <2>3. NumberOf(y + 1, 1, 1) = NumberOf(y, m, d) + 1
    BY <1>5, <2>1, <2>2, NextYear
  <2> QED
    BY <1>2, <2>1, <2>2, <2>3 DEF DayInv, DateOK
<1> QED
  BY <1>1, <1>3, <1>4, <1>5 DEF MonthLength

\* The conversion gives the number of every day, counted one by one from
\* 2000-01-01, over every end of a month, leap day and end of a year
\* (converter.c 197-206).
THEOREM EveryDayCounted == CalendarSpec => []DayInv
<1>1. CalendarInit => DayInv
  <2> SUFFICES ASSUME CalendarInit PROVE DayInv
    OBVIOUS
  <2>1. Before[1] = 306 /\ (0 + 3) \div 4 = 0
    BY DEF Before
  <2>2. NumberOf(0, 1, 1) = EarlyNumber(0, 1, 1)
    BY EarlyDays
  <2>3. date = <<0, 1, 1>> /\ day = 10957
    BY DEF CalendarInit
  <2>4. 0 \in 0 .. LastYear /\ 1 \in 1 .. MonthLength(0, 1)
    BY CalendarAssumption DEF CalendarAssumption, MonthLength
  <2> QED
    BY <2>1, <2>2, <2>3, <2>4 DEF DayInv, DateOK, EarlyNumber
<1>2. DayInv /\ [Tomorrow]_calendarVars => DayInv'
  <2>1. DayInv /\ UNCHANGED calendarVars => DayInv'
    BY DEF DayInv, DateOK, calendarVars
  <2> QED
    BY <2>1, DayStep
<1> QED
  BY <1>1, <1>2, PTL DEF CalendarSpec

-----------------------------------------------------------------------------
(* The time of the day                                                     *)

\* Two BCD digits are read as the number they were written for.
LEMMA Bcd ==
    ASSUME NEW n \in 0 .. 99
    PROVE  FromBcd(ToBcd(n)) = n
  BY DEF FromBcd, ToBcd

\* Eight hours back, into the day before if need be (converter.c 208-210).
LEMMA BackToUtc ==
    ASSUME NEW secs \in Int, 0 <= secs, secs < 86400
    PROVE  /\ secs >= 28800 => /\ (secs - 28800) \div 86400 = 0
                               /\ (secs - 28800) % 86400 = secs - 28800
           /\ secs < 28800 => /\ (secs - 28800) \div 86400 = -1
                              /\ (secs - 28800) % 86400 = secs + 57600
  BY SMT

\* A time of the day in seconds.
SecondsOf(h, m, s) == h * 3600 + m * 60 + s

\* Every second of every day that two digits of a year can name is converted to
\* its number in UTC (converter.c 173-214).
THEOREM EveryTimeConverted == Spec => []TimeMatchesCalendar
<1>1. DayInv => TimeMatchesCalendar
  <2> SUFFICES ASSUME DayInv, NEW t \in Times
               PROVE  LET secs == t[1] * 3600 + t[2] * 60 + t[3]
                      IN  BcdTimeToUtc([i \in 1 .. 6 |->
                                            ToBcd(IF i <= 3 THEN date[i] ELSE t[i - 3])])
                            = IF t[1] >= 8 THEN <<day, secs - 28800>>
                              ELSE <<day - 1, secs + 57600>>
    BY DEF TimeMatchesCalendar
  <2> DEFINE bcd == [i \in 1 .. 6 |-> ToBcd(IF i <= 3 THEN date[i] ELSE t[i - 3])]
  <2>1. PICK h \in 0 .. 23, m \in 0 .. 59, s \in 0 .. 59 : t[1] = h /\ t[2] = m /\ t[3] = s
    <3>1. t[1] \in 0 .. 23 /\ t[2] \in 0 .. 59 /\ t[3] \in 0 .. 59
      BY CalendarAssumption DEF CalendarAssumption
    <3> QED
      BY <3>1, Zenon
  <2>2. /\ date[1] \in 0 .. 99 /\ date[2] \in 1 .. 12 /\ date[3] \in 1 .. 31
        /\ day = NumberOf(date[1], date[2], date[3])
    BY CalendarAssumption DEF DayInv, DateOK, MonthLength, CalendarAssumption
  <2>3. day \in Int
    <3>1. date[3] \in Int
      BY <2>2
    <3>2. CASE date[2] > 2
      BY <2>2, <3>1, <3>2, LateDays
    <3>3. CASE date[2] <= 2
      BY <2>2, <3>1, <3>3, EarlyDays
    <3> QED
      BY <2>2, <3>2, <3>3
  <2>4. /\ bcd[1] = ToBcd(date[1]) /\ bcd[2] = ToBcd(date[2]) /\ bcd[3] = ToBcd(date[3])
        /\ bcd[4] = ToBcd(h) /\ bcd[5] = ToBcd(m) /\ bcd[6] = ToBcd(s)
    BY <2>1
  <2>5. /\ date[1] \in 0 .. 99 /\ date[2] \in 0 .. 99 /\ date[3] \in 0 .. 99
        /\ h \in 0 .. 99 /\ m \in 0 .. 99 /\ s \in 0 .. 99
    BY <2>2
  <2>6. /\ FromBcd(bcd[1]) = date[1] /\ FromBcd(bcd[2]) = date[2]
        /\ FromBcd(bcd[3]) = date[3] /\ FromBcd(bcd[4]) = h
        /\ FromBcd(bcd[5]) = m /\ FromBcd(bcd[6]) = s
    BY <2>4, <2>5, Bcd
  <2> HIDE DEF bcd
  <2> DEFINE secs == SecondsOf(h, m, s)
  <2>7. BcdTimeToUtc(bcd) = <<day + (secs - 8 * 3600) \div 86400, (secs - 8 * 3600) % 86400>>
    <3>1. NumberOf(FromBcd(bcd[1]), FromBcd(bcd[2]), FromBcd(bcd[3])) = day
      BY <2>2, <2>6
    <3> QED
      BY <2>6, <3>1 DEF BcdTimeToUtc, NumberOf, SecondsOf
  <2>8. /\ secs \in Int /\ 0 <= secs /\ secs < 86400
        /\ h >= 8 => secs >= 28800
        /\ h < 8 => secs < 28800
    BY SMT DEF SecondsOf
  <2> HIDE DEF secs
  <2>9. BcdTimeToUtc(bcd) = IF h >= 8 THEN <<day, secs - 28800>>
                            ELSE <<day - 1, secs + 57600>>
    <3>1. 8 * 3600 = 28800
      OBVIOUS
    <3>2. CASE h >= 8
      BY <2>3, <2>7, <2>8, <3>1, <3>2, BackToUtc
    <3>3. CASE h < 8
      BY <2>3, <2>7, <2>8, <3>1, <3>3, BackToUtc
    <3> QED
      BY <3>2, <3>3
  <2> QED
    BY <2>1, <2>9 DEF bcd, secs, SecondsOf
<1>2. Init => CalendarInit
  BY DEF Init
<1>3. [Next]_vars => [Tomorrow]_calendarVars
  BY DEF Next, Type, CountDays, vars, calendarVars
<1>4. Spec => CalendarSpec
  BY <1>2, <1>3, PTL DEF Spec, CalendarSpec
<1> QED
  BY <1>1, <1>4, EveryDayCounted, PTL

-----------------------------------------------------------------------------
(* Characters                                                              *)

\* The lower-case digits, written out.
LEMMA LowerIs ==
    Lower = <<"0", "1", "2", "3", "4", "5", "6", "7", "8", "9", "a", "b", "c", "d", "e", "f">>
<1> DEFINE s == SubSeq(Upper, 1, 10)
           t == <<"a", "b", "c", "d", "e", "f">>
           u == <<"0", "1", "2", "3", "4", "5", "6", "7", "8", "9", "a", "b", "c", "d", "e", "f">>
<1>1. s = [i \in 1 .. 10 |-> Upper[i]]
  BY DEF Upper
<1>2. Len(s) = 10 /\ Len(t) = 6
  BY <1>1
<1>3. s \o t = [i \in 1 .. 16 |-> IF i <= 10 THEN s[i] ELSE t[i - 10]]
  BY <1>2
<1>4. ASSUME NEW i \in 1 .. 16 PROVE u[i] = IF i <= 10 THEN s[i] ELSE t[i - 10]
  BY <1>1 DEF Upper
<1>5. u = [i \in 1 .. 16 |-> u[i]]
  OBVIOUS
<1> HIDE DEF s, t, u
<1>6. u = s \o t
  BY <1>3, <1>4, <1>5
<1> QED BY <1>6 DEF Lower, s, t, u

\* A digit stands for its place among the digits, from 0.
LEMMA DigitValue ==
    ASSUME NEW b \in 0 .. 15
    PROVE  IsHex(Upper[b + 1]) /\ HexVal(Upper[b + 1]) = b
<1> DEFINE i == b + 1
<1>1. i \in 1 .. 16
  OBVIOUS
<1>2. ASSUME NEW j \in 1 .. 16, Upper[i] \in {Upper[j], Lower[j]} PROVE j = i
  BY <1>1, <1>2, LowerIs DEF Upper
<1>3. (CHOOSE j \in 1 .. 16 : Upper[i] \in {Upper[j], Lower[j]}) = i
  BY <1>1, <1>2
<1>4. IsHex(Upper[i])
  BY <1>1 DEF IsHex
<1>5. HexVal(Upper[i]) = i - 1
  BY <1>3 DEF HexVal
<1> QED BY <1>4, <1>5

\* isspace, of which the texts have the blank.
IsBlank(c) == c = " "

\* A blank is no digit.
LEMMA BlankIsNone ==
    ASSUME NEW c, IsHex(c)
    PROVE  ~IsBlank(c)
<1>1. ~IsHex(" ")
  BY LowerIs DEF IsHex, Upper
<1> QED BY <1>1, Zenon DEF IsBlank

\* The value of a digit is below 16.
LEMMA HexRange ==
    ASSUME NEW c, IsHex(c)
    PROVE  HexVal(c) \in 0 .. 15
  BY DEF IsHex, HexVal

-----------------------------------------------------------------------------
(* The loop of string_to_bytes                                             *)

\* What the loop has: where it is in a byte, its first digit, the bytes so far.
LoopState == [at : {"hi", "lo", "stop"}, hi : 0 .. 15, out : Seq(0 .. 255)]
Start == [at |-> "hi", hi |-> 0, out |-> <<>>]

\* r[k] is what the loop has behind k characters.
Runs(r, str, size) ==
    /\ r \in [0 .. Len(str) -> LoopState]
    /\ r[0] = Start
    /\ \A k \in 1 .. Len(str) : r[k] = ParseStep(r[k - 1], str[k], size)

\* A character takes the loop from one of its states to another.
LEMMA StepType ==
    ASSUME NEW s \in LoopState, NEW c, NEW size
    PROVE  ParseStep(s, c, size) \in LoopState
<1>1. s.hi \in 0 .. 15 /\ s.out \in Seq(0 .. 255) /\ s.at \in {"hi", "lo", "stop"}
  BY DEF LoopState
<1>2. CASE s.at = "stop" \/ (s.at = "hi" /\ IsBlank(c))
  BY <1>2, BlankIsNone DEF ParseStep, IsBlank
<1>3. CASE s.at = "hi" /\ ~IsBlank(c) /\ IsHex(c)
  <2>1. ParseStep(s, c, size) = [s EXCEPT !.at = "lo", !.hi = HexVal(c)]
    BY <1>3 DEF ParseStep, IsBlank
  <2>2. HexVal(c) \in 0 .. 15
    BY <1>3, HexRange
  <2> QED BY <2>1, <2>2 DEF LoopState
<1>4. CASE s.at = "lo" /\ IsHex(c) /\ Len(s.out) < size
  <2>1. ParseStep(s, c, size)
          = [s EXCEPT !.at = "hi", !.out = Append(s.out, 16 * s.hi + HexVal(c))]
    BY <1>4 DEF ParseStep, LoopState
  <2>2. 16 * s.hi + HexVal(c) \in 0 .. 255
    <3>1. HexVal(c) \in 0 .. 15
      BY <1>4, HexRange
    <3>2. \A a \in 0 .. 15, b \in 0 .. 15 : 16 * a + b \in 0 .. 255
      OBVIOUS
    <3> QED BY <1>1, <3>1, <3>2
  <2>3. Append(s.out, 16 * s.hi + HexVal(c)) \in Seq(0 .. 255)
    BY <1>1, <2>2
  <2> QED BY <2>1, <2>3 DEF LoopState
<1>5. CASE /\ ~(s.at = "stop" \/ (s.at = "hi" /\ IsBlank(c)))
           /\ ~(s.at = "hi" /\ IsHex(c))
           /\ ~(s.at = "lo" /\ IsHex(c) /\ Len(s.out) < size)
  <2>1. ParseStep(s, c, size) = [s EXCEPT !.at = "stop"]
    BY <1>5 DEF ParseStep, IsBlank
  <2> QED BY <2>1 DEF LoopState
<1> QED BY <1>2, <1>3, <1>4, <1>5

\* The fold that string_to_bytes is takes the characters one by one.
LEMMA ParseRuns ==
    ASSUME NEW C, NEW str \in Seq(C), NEW size
    PROVE  \E r : Runs(r, str, size) /\ StringToBytes(str, size) = r[Len(str)].out
<1> DEFINE n == Len(str)
           f == [p \in LoopState \X (1 .. n) |-> ParseStep(p[1], str[p[2]], size)]
           Pars(g) == g = [s \in SUBSET (1 .. n) |->
                              IF s = {} THEN Start
                              ELSE ParseStep(g[s \ {Max(s)}], str[Max(s)], size)]
           h == CHOOSE g : Pars(g)
<1>1. n \in Nat /\ DOMAIN str = 1 .. n
  OBVIOUS
<1>2. Start \in LoopState
  <2>1. <<>> \in Seq(0 .. 255)
    OBVIOUS
  <2> QED BY <2>1 DEF Start, LoopState
<1> HIDE DEF n
<1>3. f \in [LoopState \X (1 .. n) -> LoopState]
  <2>1. \A p \in LoopState \X (1 .. n) : ParseStep(p[1], str[p[2]], size) \in LoopState
    BY StepType
  <2> QED BY <2>1
<1>4. \A x \in LoopState, i \in 1 .. n : f[<<x, i>>] = ParseStep(x, str[i], size)
  OBVIOUS
<1>5. \E g : Pars(g)
  <2> HIDE DEF f
  <2>1. PICK g \in [SUBSET (1 .. n) -> LoopState] : Folded(g, f, Start, n)
    <3>1. n \in 0 .. n
      BY <1>1
    <3> QED BY <1>1, <1>2, <1>3, <3>1, FoldExists
  <2>2. ASSUME NEW s \in SUBSET (1 .. n), s # {}
        PROVE  g[s \ {Max(s)}] \in LoopState /\ Max(s) \in 1 .. n
    <3>1. Max(s) \in s
      BY <1>1, <2>2, MaxIn
    <3>2. s \ {Max(s)} \in SUBSET (1 .. n)
      OBVIOUS
    <3> QED BY <3>1, <3>2
  <2>3. ASSUME NEW s \in SUBSET (1 .. n)
        PROVE  g[s] = IF s = {} THEN Start
                      ELSE ParseStep(g[s \ {Max(s)}], str[Max(s)], size)
    <3>1. g[s] = IF s = {} THEN Start ELSE f[<<g[s \ {Max(s)}], Max(s)>>]
      BY <2>1 DEF Folded
    <3> QED BY <3>1, <1>4, <2>2
  <2>4. Pars(g)
    BY <2>3
  <2> QED BY <2>4
<1>6. Pars(h)
  <2> HIDE DEF Pars
  <2> QED BY <1>5
<1>7. StringToBytes(str, size) = h[1 .. n].out
  <2>1. StringToBytes(str, size)
          = (CHOOSE g : g = [s \in SUBSET (DOMAIN str) |->
                                IF s = {} THEN [at |-> "hi", hi |-> 0, out |-> <<>>]
                                ELSE ParseStep(g[s \ {Max(s)}], str[Max(s)], size)])[DOMAIN str].out
    BY Zenon DEF StringToBytes, FoldLeft, MapThenFoldSet
  <2> QED BY <1>1, <2>1, Zenon DEF Start
<1> HIDE DEF h
<1>8. h[{}] = Start
  <2>1. {} \in SUBSET (1 .. n)
    OBVIOUS
  <2> QED BY <2>1, <1>6
<1>9. ASSUME NEW k \in 1 .. n PROVE h[1 .. k] = ParseStep(h[1 .. k - 1], str[k], size)
  <2>1. /\ 1 .. k \in SUBSET (1 .. n) /\ 1 .. k # {} /\ Max(1 .. k) = k
        /\ (1 .. k) \ {Max(1 .. k)} = 1 .. k - 1
    BY <1>1, PrefixStep
  <2>2. h[1 .. k] = ParseStep(h[(1 .. k) \ {Max(1 .. k)}], str[Max(1 .. k)], size)
    BY <1>6, <2>1
  <2> QED BY <2>1, <2>2
<1>a. Steps(h, f, LoopState, n)
  BY <1>4, <1>9 DEF Steps
<1>10. PICK r : RunTo(r, f, Start, LoopState, n, h[1 .. n])
  <2> HIDE DEF f
  <2> QED BY <1>1, <1>2, <1>3, <1>8, <1>a, FoldRun, Zenon
<1>11. \A k \in 1 .. n : r[k] = ParseStep(r[k - 1], str[k], size)
  <2>1. \A k \in 1 .. n : r[k - 1] \in LoopState
    <3>1. \A k \in 1 .. n : k - 1 \in 0 .. n
      BY <1>1
    <3> QED BY <3>1, <1>10 DEF RunTo
  <2> HIDE DEF f
  <2> QED BY <1>4, <1>10, <2>1 DEF RunTo
<1>12. Runs(r, str, size)
  BY <1>10, <1>11 DEF Runs, RunTo, n
<1> QED BY <1>7, <1>10, <1>12 DEF RunTo, n

\* What a character does, field by field.
LEMMA StepCases ==
    ASSUME NEW s \in LoopState, NEW c, NEW size, NEW t, t = ParseStep(s, c, size)
    PROVE  /\ s.at = "stop" \/ (s.at = "hi" /\ IsBlank(c)) => t = s
           /\ s.at = "hi" /\ ~IsBlank(c) /\ IsHex(c)
                => t.at = "lo" /\ t.hi = HexVal(c) /\ t.out = s.out
           /\ s.at = "lo" /\ IsHex(c) /\ Len(s.out) < size
                => t.at = "hi" /\ t.out = Append(s.out, 16 * s.hi + HexVal(c))
           /\ s.at = "hi" /\ ~IsBlank(c) /\ ~IsHex(c) => t.at = "stop" /\ t.out = s.out
           /\ s.at = "lo" /\ ~(IsHex(c) /\ Len(s.out) < size)
                => t.at = "stop" /\ t.out = s.out
<1>1. CASE s.at = "stop" \/ (s.at = "hi" /\ IsBlank(c))
  BY <1>1, BlankIsNone DEF ParseStep, IsBlank
<1>2. CASE s.at = "hi" /\ ~IsBlank(c) /\ IsHex(c)
  <2>1. t = [s EXCEPT !.at = "lo", !.hi = HexVal(c)]
    BY <1>2 DEF ParseStep, IsBlank
  <2> QED BY <2>1, <1>2 DEF LoopState
<1>3. CASE s.at = "lo" /\ IsHex(c) /\ Len(s.out) < size
  <2>1. t = [s EXCEPT !.at = "hi", !.out = Append(s.out, 16 * s.hi + HexVal(c))]
    BY <1>3 DEF ParseStep, LoopState
  <2> QED BY <2>1, <1>3 DEF LoopState
<1>4. CASE \/ s.at = "hi" /\ ~IsBlank(c) /\ ~IsHex(c)
           \/ s.at = "lo" /\ ~(IsHex(c) /\ Len(s.out) < size)
  <2>1. t = [s EXCEPT !.at = "stop"]
    BY <1>4 DEF ParseStep, IsBlank
  <2> QED BY <2>1, <1>4 DEF LoopState
<1>5. s.at \in {"hi", "lo", "stop"}
  BY DEF LoopState
<1> QED BY <1>1, <1>2, <1>3, <1>4, <1>5

-----------------------------------------------------------------------------
(* The longest prefix                                                      *)

\* There is a blank at p.
Blank(str, p) == IsBlank(str[p])

\* In front of position q the text consists of the pairs of these bytes, in their
\* order, and of blanks.
Found(str, out, q) ==
    \E at \in [1 .. Len(out) -> 1 .. q - 2] :
        /\ \A i \in 1 .. Len(out) : PairAt(str, at[i], out[i])
        /\ \A i, j \in 1 .. Len(out) : i < j => at[i] + 1 < at[j]
        /\ \A p \in 1 .. q - 1 :
              Blank(str, p) \/ \E i \in 1 .. Len(out) : p \in {at[i], at[i] + 1}

\* The invariant of the loop: up to q, everything is found; between two bytes
\* nothing is left, behind a first digit that one, and where the loop has ended
\* there is neither a blank nor, unless the buffer is full, a pair.
LoopInv(s, str, size, k) ==
    \E q \in 1 .. k + 1 :
        /\ Found(str, s.out, q)
        /\ Len(s.out) <= size
        /\ s.at = "hi" => q = k + 1
        /\ s.at = "lo" => q = k /\ IsHex(str[k]) /\ s.hi = HexVal(str[k])
        /\ s.at = "stop" => /\ q <= k /\ ~Blank(str, q)
                            /\ IsHex(str[q]) => /\ q < k
                                                /\ IsHex(str[q + 1]) => Len(s.out) = size

\* At the beginning, nothing is found.
LEMMA FoundNone ==
    ASSUME NEW str
    PROVE  Found(str, <<>>, 1)
<1> DEFINE at == [i \in 1 .. 0 |-> 1]
<1>1. Len(<<>>) = 0 /\ 1 .. 0 = {} /\ 1 .. 1 - 1 = {}
  OBVIOUS
<1>2. at \in [1 .. 0 -> 1 .. 1 - 2]
  OBVIOUS
<1> HIDE DEF at
<1> QED BY <1>1, <1>2 DEF Found

\* A blank is passed.
LEMMA FoundBlank ==
    ASSUME NEW str, NEW out \in Seq(0 .. 255), NEW q \in Nat \ {0}, Found(str, out, q),
           Blank(str, q)
    PROVE  Found(str, out, q + 1)
<1>a. /\ \A x \in 1 .. q - 2 : x \in 1 .. (q + 1) - 2
      /\ \A p \in 1 .. (q + 1) - 1 : p = q \/ p \in 1 .. q - 1
  OBVIOUS
<1>1. PICK at \in [1 .. Len(out) -> 1 .. q - 2] :
        /\ \A i \in 1 .. Len(out) : PairAt(str, at[i], out[i])
        /\ \A i, j \in 1 .. Len(out) : i < j => at[i] + 1 < at[j]
        /\ \A p \in 1 .. q - 1 :
              Blank(str, p) \/ \E i \in 1 .. Len(out) : p \in {at[i], at[i] + 1}
  BY DEF Found
<1>2. at \in [1 .. Len(out) -> 1 .. (q + 1) - 2]
  BY <1>a
<1>3. ASSUME NEW p \in 1 .. (q + 1) - 1
      PROVE  Blank(str, p) \/ \E i \in 1 .. Len(out) : p \in {at[i], at[i] + 1}
  BY <1>1, <1>a
<1> QED BY <1>1, <1>2, <1>3 DEF Found

\* A pair is found.
LEMMA FoundPair ==
    ASSUME NEW str, NEW out \in Seq(0 .. 255), NEW q \in Nat \ {0}, Found(str, out, q),
           NEW b \in 0 .. 255, PairAt(str, q, b)
    PROVE  Found(str, Append(out, b), q + 2)
<1>1. PICK at \in [1 .. Len(out) -> 1 .. q - 2] :
        /\ \A i \in 1 .. Len(out) : PairAt(str, at[i], out[i])
        /\ \A i, j \in 1 .. Len(out) : i < j => at[i] + 1 < at[j]
        /\ \A p \in 1 .. q - 1 :
              Blank(str, p) \/ \E i \in 1 .. Len(out) : p \in {at[i], at[i] + 1}
  BY DEF Found
<1> DEFINE m == Len(out)
           new == Append(out, b)
           to == [i \in 1 .. m + 1 |-> IF i = m + 1 THEN q ELSE at[i]]
<1>2. m \in Nat /\ Len(new) = m + 1 /\ new[m + 1] = b /\ \A i \in 1 .. m : new[i] = out[i]
  OBVIOUS
<1> HIDE DEF m, new
<1>3. to[m + 1] = q /\ \A i \in 1 .. m : to[i] = at[i] /\ at[i] \in 1 .. q - 2
  <2>1. m + 1 \in 1 .. m + 1 /\ \A i \in 1 .. m : i \in 1 .. m + 1 /\ i # m + 1
    BY <1>2
  <2>2. \A i \in 1 .. m : at[i] \in 1 .. q - 2
    BY DEF m
  <2> QED BY <2>1, <2>2
<1>4. to \in [1 .. m + 1 -> 1 .. (q + 2) - 2]
  <2>1. \A i \in 1 .. m + 1 : i = m + 1 \/ i \in 1 .. m
    BY <1>2
  <2>2. \A i \in 1 .. m + 1 : to[i] \in 1 .. q
    <3> HIDE DEF to
    <3> QED BY <1>3, <2>1
  <2>3. (q + 2) - 2 = q
    OBVIOUS
  <2> QED BY <2>2, <2>3
<1> HIDE DEF to
<1>5. \A i \in 1 .. m + 1 : PairAt(str, to[i], new[i])
  <2>1. \A i \in 1 .. m + 1 : i = m + 1 \/ i \in 1 .. m
    BY <1>2
  <2> QED BY <2>1, <1>1, <1>2, <1>3 DEF m
<1>6. ASSUME NEW i \in 1 .. m + 1, NEW j \in 1 .. m + 1, i < j PROVE to[i] + 1 < to[j]
  <2>1. i \in 1 .. m
    BY <1>2, <1>6
  <2>2. CASE j = m + 1
    BY <2>1, <2>2, <1>3
  <2>3. CASE j \in 1 .. m
    BY <2>1, <2>3, <1>1, <1>3, <1>6 DEF m
  <2> QED BY <1>2, <2>2, <2>3
<1>7. ASSUME NEW p \in 1 .. (q + 2) - 1
      PROVE  Blank(str, p) \/ \E i \in 1 .. m + 1 : p \in {to[i], to[i] + 1}
  <2>1. CASE p \in {q, q + 1}
    <3>1. m + 1 \in 1 .. m + 1
      BY <1>2
    <3> QED BY <2>1, <3>1, <1>3
  <2>2. CASE p \in 1 .. q - 1
    <3>1. \A i \in 1 .. m : i \in 1 .. m + 1
      BY <1>2
    <3>2. Blank(str, p) \/ \E i \in 1 .. m : p \in {at[i], at[i] + 1}
      BY <2>2, <1>1 DEF m
    <3>3. CASE Blank(str, p)
      BY <3>3
    <3>4. ASSUME NEW i \in 1 .. m, p \in {at[i], at[i] + 1}
          PROVE  i \in 1 .. m + 1 /\ p \in {to[i], to[i] + 1}
      BY <3>1, <3>4, <1>3
    <3>5. CASE \E i \in 1 .. m : p \in {at[i], at[i] + 1}
      BY <3>4, <3>5
    <3> QED BY <3>2, <3>3, <3>5
  <2> QED BY <2>1, <2>2
<1> QED BY <1>2, <1>4, <1>5, <1>6, <1>7 DEF Found, new

\* Each character keeps the invariant.
LEMMA LoopStep ==
    ASSUME NEW str, NEW size \in Nat, NEW k \in Nat, NEW s \in LoopState,
           LoopInv(s, str, size, k), NEW t, t = ParseStep(s, str[k + 1], size)
    PROVE  LoopInv(t, str, size, k + 1)
<1> DEFINE c == str[k + 1]
<1>1. PICK q \in 1 .. k + 1 :
        /\ Found(str, s.out, q)
        /\ Len(s.out) <= size
        /\ s.at = "hi" => q = k + 1
        /\ s.at = "lo" => q = k /\ IsHex(str[k]) /\ s.hi = HexVal(str[k])
        /\ s.at = "stop" => /\ q <= k /\ ~Blank(str, q)
                            /\ IsHex(str[q]) => /\ q < k
                                                /\ IsHex(str[q + 1]) => Len(s.out) = size
  BY DEF LoopInv
<1>2. s.at \in {"hi", "lo", "stop"} /\ s.out \in Seq(0 .. 255)
  BY DEF LoopState
<1>3. q \in Nat \ {0} /\ q \in 1 .. (k + 1) + 1
  OBVIOUS
<1>4. Blank(str, k + 1) <=> IsBlank(c)
  BY DEF Blank
<1>5. t = ParseStep(s, c, size)
  OBVIOUS
<1>6. \A p : IsHex(str[p]) => ~Blank(str, p)
  BY BlankIsNone DEF Blank
<1>c. IsHex(c) <=> IsHex(str[k + 1])
  OBVIOUS
<1>d. HexVal(c) = HexVal(str[k + 1])
  OBVIOUS
<1> HIDE DEF c
<1>e. /\ s.at = "stop" \/ (s.at = "hi" /\ IsBlank(c)) => t = s
      /\ s.at = "hi" /\ ~IsBlank(c) /\ IsHex(c)
           => t.at = "lo" /\ t.hi = HexVal(c) /\ t.out = s.out
      /\ s.at = "lo" /\ IsHex(c) /\ Len(s.out) < size
           => t.at = "hi" /\ t.out = Append(s.out, 16 * s.hi + HexVal(c))
      /\ s.at = "hi" /\ ~IsBlank(c) /\ ~IsHex(c) => t.at = "stop" /\ t.out = s.out
      /\ s.at = "lo" /\ ~(IsHex(c) /\ Len(s.out) < size)
           => t.at = "stop" /\ t.out = s.out
  BY <1>5, StepCases
<1>7. CASE s.at = "stop"
  <2>1. t = s
    BY <1>e, <1>7
  <2> QED BY <2>1, <1>1, <1>3, <1>7 DEF LoopInv
<1>8. CASE s.at = "hi" /\ IsBlank(c)
  <2>1. t = s
    BY <1>e, <1>8
  <2>2. q = k + 1 /\ q + 1 \in 1 .. (k + 1) + 1 /\ q + 1 = (k + 1) + 1
    <3>1. q = k + 1
      BY <1>1, <1>8
    <3> QED BY <3>1
  <2>3. Found(str, s.out, q + 1)
    BY <1>1, <1>2, <1>3, <1>4, <1>8, <2>2, FoundBlank
  <2> QED BY <2>1, <2>2, <2>3, <1>1, <1>8 DEF LoopInv
<1>9. CASE s.at = "hi" /\ ~IsBlank(c) /\ IsHex(c)
  <2>1. t.at = "lo" /\ t.hi = HexVal(c) /\ t.out = s.out
    BY <1>e, <1>9
  <2>2. q = k + 1
    BY <1>1, <1>9
  <2> QED BY <2>1, <2>2, <1>1, <1>3, <1>9, <1>c, <1>d DEF LoopInv
<1>10. CASE s.at = "hi" /\ ~IsBlank(c) /\ ~IsHex(c)
  <2>1. t.at = "stop" /\ t.out = s.out
    BY <1>e, <1>10
  <2>2. q = k + 1 /\ ~Blank(str, q) /\ ~IsHex(str[q])
    BY <1>1, <1>4, <1>10, <1>c
  <2> QED BY <2>1, <2>2, <1>1, <1>3 DEF LoopInv
<1>11. CASE s.at = "lo" /\ IsHex(c) /\ Len(s.out) < size
  <2> DEFINE b == 16 * s.hi + HexVal(c)
  <2>1. t.at = "hi" /\ t.out = Append(s.out, b)
    BY <1>e, <1>11
  <2>2. q = k /\ IsHex(str[k]) /\ s.hi = HexVal(str[k])
    BY <1>1, <1>11
  <2>3. b \in 0 .. 255
    <3>1. HexVal(c) \in 0 .. 15 /\ s.hi \in 0 .. 15
      BY <1>11, HexRange DEF LoopState
    <3>2. \A x \in 0 .. 15, y \in 0 .. 15 : 16 * x + y \in 0 .. 255
      OBVIOUS
    <3> QED BY <3>1, <3>2
  <2>4. PairAt(str, q, b)
    BY <2>2, <1>11, <1>c, <1>d DEF PairAt
  <2> HIDE DEF b
  <2>5. Found(str, t.out, q + 2)
    <3>1. Found(str, s.out, q) /\ s.out \in Seq(0 .. 255) /\ q \in Nat \ {0}
      BY <1>1, <1>2, <1>3
    <3>2. Found(str, Append(s.out, b), q + 2)
      BY <3>1, <2>3, <2>4, FoundPair, Zenon
    <3> QED BY <3>2, <2>1, Zenon
  <2>6. Len(t.out) <= size
    <3>1. Len(t.out) = Len(s.out) + 1 /\ Len(s.out) \in Nat
      BY <1>2, <2>1, <2>3
    <3> QED BY <3>1, <1>11
  <2>7. q + 2 \in 1 .. (k + 1) + 1 /\ q + 2 = (k + 1) + 1
    BY <2>2, <1>3
  <2> QED BY <2>1, <2>5, <2>6, <2>7 DEF LoopInv
<1>12. CASE s.at = "lo" /\ ~(IsHex(c) /\ Len(s.out) < size)
  <2>1. t.at = "stop" /\ t.out = s.out
    BY <1>e, <1>12
  <2>2. q = k /\ IsHex(str[k]) /\ ~Blank(str, q) /\ q <= k + 1 /\ q < k + 1
    BY <1>1, <1>6, <1>12
  <2>3. IsHex(str[q + 1]) => Len(s.out) = size
    <3>1. Len(s.out) \in Nat
      BY <1>2
    <3> QED BY <3>1, <2>2, <1>1, <1>12, <1>c
  <2> QED BY <2>1, <2>2, <2>3, <1>1, <1>3 DEF LoopInv
<1> QED BY <1>2, <1>7, <1>8, <1>9, <1>10, <1>11, <1>12

\* At the end of the text the invariant holds.
LEMMA LoopEnd ==
    ASSUME NEW str, Len(str) \in Nat, NEW size \in Nat, NEW r, Runs(r, str, size)
    PROVE  LoopInv(r[Len(str)], str, size, Len(str))
<1> DEFINE n == Len(str)
           T == {k \in Nat : k <= n => LoopInv(r[k], str, size, k)}
<1>1. 0 \in T
  <2>1. r[0].at = "hi" /\ r[0].out = <<>> /\ 1 \in 1 .. 0 + 1 /\ 1 = 0 + 1 /\ Len(<<>>) = 0
    BY DEF Runs, Start
  <2>2. LoopInv(r[0], str, size, 0)
    BY <2>1, FoundNone DEF LoopInv
  <2> QED BY <2>2
<1>2. ASSUME NEW k \in T PROVE k + 1 \in T
  <2>1. k \in Nat
    OBVIOUS
  <2> SUFFICES ASSUME k + 1 <= n PROVE LoopInv(r[k + 1], str, size, k + 1)
    BY <2>1
  <2>2. k + 1 \in 1 .. n /\ k \in 0 .. n /\ (k + 1) - 1 = k /\ LoopInv(r[k], str, size, k)
    BY <2>1
  <2> HIDE DEF T
  <2>3. r[k] \in LoopState /\ r[k + 1] = ParseStep(r[k], str[k + 1], size)
    BY <2>2 DEF Runs
  <2> QED BY <2>1, <2>2, <2>3, LoopStep
<1>3. T = Nat
  <2>1. T \in SUBSET Nat
    OBVIOUS
  <2> HIDE DEF T
  <2> QED BY <1>1, <1>2, <2>1, Induct
<1> QED BY <1>3

\* Bytes that a prefix spells, with the places of their pairs.
SpelledAt(str, bytes, at) ==
    /\ \A i \in DOMAIN bytes : PairAt(str, at[i], bytes[i])
    /\ \A i \in 1 .. Len(bytes) - 1 : at[i] + 1 < at[i + 1]
    /\ \A p \in DOMAIN str :
          \/ Blank(str, p)
          \/ \E i \in DOMAIN bytes : p \in {at[i], at[i] + 1}
          \/ \A i \in DOMAIN bytes : p > at[i] + 1

\* Spells is the existence of such places.
LEMMA SpellsIs ==
    ASSUME NEW str, NEW bytes
    PROVE  Spells(str, bytes)
             <=> \E at \in [1 .. Len(bytes) -> 1 .. Len(str) - 1] : SpelledAt(str, bytes, at)
  BY Zenon DEF Spells, SpelledAt, Blank, IsBlank

\* What is found is a prefix.
LEMMA FoundSpells ==
    ASSUME NEW str, NEW n \in Nat, Len(str) = n, DOMAIN str = 1 .. n,
           NEW out \in Seq(0 .. 255), NEW q \in 1 .. n + 1, Found(str, out, q)
    PROVE  Spells(str, out)
<1> DEFINE m == Len(out)
<1>1. m \in Nat /\ DOMAIN out = 1 .. m
  OBVIOUS
<1>2. PICK at \in [1 .. m -> 1 .. q - 2] :
        /\ \A i \in 1 .. m : PairAt(str, at[i], out[i])
        /\ \A i, j \in 1 .. m : i < j => at[i] + 1 < at[j]
        /\ \A p \in 1 .. q - 1 :
              Blank(str, p) \/ \E i \in 1 .. m : p \in {at[i], at[i] + 1}
  BY DEF Found
<1> HIDE DEF m
<1>3. at \in [1 .. m -> 1 .. n - 1]
  <2>1. \A x \in 1 .. q - 2 : x \in 1 .. n - 1
    OBVIOUS
  <2> QED BY <2>1
<1>4. ASSUME NEW i \in 1 .. m - 1 PROVE at[i] + 1 < at[i + 1]
  <2>1. i \in 1 .. m /\ i + 1 \in 1 .. m /\ i < i + 1
    BY <1>1
  <2> QED BY <2>1, <1>2
<1>5. ASSUME NEW p \in 1 .. n
      PROVE  \/ Blank(str, p)
             \/ \E i \in 1 .. m : p \in {at[i], at[i] + 1}
             \/ \A i \in 1 .. m : p > at[i] + 1
  <2>1. CASE p \in 1 .. q - 1
    BY <2>1, <1>2
  <2>2. CASE p \notin 1 .. q - 1
    <3>1. ASSUME NEW i \in 1 .. m PROVE p > at[i] + 1
      <4>1. at[i] \in 1 .. q - 2 /\ p >= q
        BY <2>2
      <4> QED BY <4>1
    <3> QED BY <3>1
  <2> QED BY <2>1, <2>2
<1>6. SpelledAt(str, out, at)
  BY <1>1, <1>2, <1>4, <1>5 DEF SpelledAt, m
<1> QED BY <1>3, <1>6, SpellsIs DEF m

\* The places of the pairs increase.
LEMMA PlacesIncrease ==
    ASSUME NEW m \in Nat, NEW at \in [1 .. m -> Int],
           \A i \in 1 .. m - 1 : at[i] + 1 < at[i + 1],
           NEW i \in 1 .. m, NEW j \in 1 .. m, i < j
    PROVE  at[i] + 1 < at[j]
<1> DEFINE T == {d \in Nat : i + 1 + d <= m => at[i] + 1 < at[i + 1 + d]}
<1>1. 0 \in T
  <2> SUFFICES ASSUME i + 1 <= m PROVE at[i] + 1 < at[i + 1]
    OBVIOUS
  <2>1. i \in 1 .. m - 1
    OBVIOUS
  <2> QED BY <2>1
<1>2. ASSUME NEW d \in T PROVE d + 1 \in T
  <2>1. d \in Nat /\ (i + 1 + d <= m => at[i] + 1 < at[i + 1 + d])
    OBVIOUS
  <2> DEFINE k == i + 1 + d
  <2>2. k + 1 = i + 1 + (d + 1)
    BY <2>1
  <2> SUFFICES ASSUME k + 1 <= m PROVE at[i] + 1 < at[k + 1]
    BY <2>1, <2>2
  <2>3. k \in 1 .. m - 1 /\ k \in 1 .. m /\ k + 1 \in 1 .. m
    BY <2>1
  <2>4. at[i] + 1 < at[k]
    BY <2>1, <2>3
  <2>5. at[k] + 1 < at[k + 1]
    BY <2>3
  <2>6. at[i] \in Int /\ at[k] \in Int /\ at[k + 1] \in Int
    BY <2>3
  <2> HIDE DEF k
  <2> QED BY <2>4, <2>5, <2>6
<1>3. T = Nat
  <2>1. T \in SUBSET Nat
    OBVIOUS
  <2> HIDE DEF T
  <2> QED BY <1>1, <1>2, <2>1, Induct
<1>4. j - (i + 1) \in Nat /\ i + 1 + (j - (i + 1)) = j /\ j <= m
  OBVIOUS
<1>5. j - (i + 1) \in T
  BY <1>3, <1>4
<1> QED BY <1>4, <1>5

\* A prefix that spells the bytes found and one more has its last pair where the
\* search goes on, unless there is a blank: the other pairs are those found.
LEMMA OneMore ==
    ASSUME NEW str, NEW n \in Nat, Len(str) = n, DOMAIN str = 1 .. n,
           NEW out \in Seq(0 .. 255), NEW q \in 1 .. n + 1, Found(str, out, q),
           NEW b \in 0 .. 255, Spells(str, Append(out, b))
    PROVE  q <= n - 1 /\ (Blank(str, q) \/ (IsHex(str[q]) /\ IsHex(str[q + 1])))
<1> DEFINE m == Len(out)
           new == Append(out, b)
<1>1. /\ m \in Nat /\ Len(new) = m + 1 /\ DOMAIN new = 1 .. m + 1
      /\ Len(new) - 1 = m /\ m + 1 \in 1 .. m + 1 /\ \A i \in 1 .. m : i \in 1 .. m + 1
  OBVIOUS
<1>2. PICK at \in [1 .. m -> 1 .. q - 2] :
        /\ \A i \in 1 .. m : PairAt(str, at[i], out[i])
        /\ \A i, j \in 1 .. m : i < j => at[i] + 1 < at[j]
        /\ \A p \in 1 .. q - 1 :
              Blank(str, p) \/ \E i \in 1 .. m : p \in {at[i], at[i] + 1}
  BY DEF Found
<1>3. PICK to \in [1 .. m + 1 -> 1 .. n - 1] : SpelledAt(str, new, to)
  BY <1>1, SpellsIs
<1> HIDE DEF m, new
<1>4. /\ \A i \in 1 .. m + 1 : PairAt(str, to[i], new[i])
      /\ \A i \in 1 .. m : to[i] + 1 < to[i + 1]
      /\ \A p \in 1 .. n :
            \/ Blank(str, p)
            \/ \E i \in 1 .. m + 1 : p \in {to[i], to[i] + 1}
            \/ \A i \in 1 .. m + 1 : p > to[i] + 1
  BY <1>1, <1>3 DEF SpelledAt
<1>5. /\ \A i \in 1 .. m : IsHex(str[at[i]]) /\ ~Blank(str, at[i])
      /\ \A i \in 1 .. m + 1 : /\ IsHex(str[to[i]]) /\ IsHex(str[to[i] + 1])
                               /\ ~Blank(str, to[i])
  BY <1>2, <1>4, BlankIsNone DEF PairAt, Blank
<1>6. /\ \A i \in 1 .. m : at[i] \in Int /\ 1 <= at[i] /\ at[i] <= q - 2 /\ at[i] <= n - 1
      /\ \A i \in 1 .. m + 1 : to[i] \in Int /\ 1 <= to[i] /\ to[i] <= n - 1
  <2>1. \A i \in 1 .. m : at[i] \in 1 .. q - 2
    OBVIOUS
  <2>2. \A i \in 1 .. m + 1 : to[i] \in 1 .. n - 1
    OBVIOUS
  <2> QED BY <2>1, <2>2
<1>7. ASSUME NEW i \in 1 .. m + 1, NEW j \in 1 .. m + 1, i < j PROVE to[i] + 1 < to[j]
  <2>1. m + 1 \in Nat /\ to \in [1 .. m + 1 -> Int] /\ (m + 1) - 1 = m
    BY <1>1, <1>6
  <2>2. \A k \in 1 .. (m + 1) - 1 : to[k] + 1 < to[k + 1]
    BY <2>1, <1>4
  <2> QED BY <2>1, <2>2, <1>7, PlacesIncrease
<1>8. ASSUME NEW i \in Nat, i + 1 <= m, \A j \in 1 .. i : to[j] = at[j]
      PROVE  to[i + 1] = at[i + 1]
  <2> DEFINE k == i + 1
  <2>1. k \in 1 .. m /\ k \in 1 .. m + 1 /\ \A j \in 1 .. m + 1 : j < k => j \in 1 .. i
    BY <1>1, <1>8
  <2>2. at[k] \in 1 .. n /\ to[k] \in Int /\ at[k] \in Int
    BY <1>6, <2>1
  <2> HIDE DEF k
  <2>3. to[k] <= at[k]
    <3>1. CASE \E j \in 1 .. m + 1 : at[k] \in {to[j], to[j] + 1}
      <4>1. PICK j \in 1 .. m + 1 : at[k] \in {to[j], to[j] + 1}
        BY <3>1
      <4>2. CASE j < k
        <5>1. j \in 1 .. i /\ to[j] = at[j] /\ j \in 1 .. m
          <6>1. j \in 1 .. i
            BY <2>1, <4>2
          <6>2. \A h \in 1 .. i : h \in 1 .. m
            BY <1>1, <1>8
          <6> QED BY <6>1, <6>2, <1>8
        <5>2. at[j] + 1 < at[k] /\ at[j] \in Int
          BY <5>1, <4>2, <2>1, <1>2, <1>6
        <5> QED BY <4>1, <5>1, <5>2, <2>2
      <4>3. CASE j = k
        BY <4>1, <4>3, <1>6, <2>2
      <4>4. CASE k < j
        <5>1. to[k] + 1 < to[j] /\ to[j] \in Int
          BY <4>4, <2>1, <1>7, <1>6
        <5> QED BY <4>1, <5>1, <2>2
      <4> QED BY <4>2, <4>3, <4>4, <2>1
    <3>2. CASE \A j \in 1 .. m + 1 : at[k] > to[j] + 1
      BY <3>2, <2>1, <2>2, <1>6
    <3> QED BY <3>1, <3>2, <2>1, <2>2, <1>4, <1>5
  <2>4. at[k] <= to[k]
    <3>1. to[k] \in 1 .. q - 1
      BY <2>1, <2>2, <2>3, <1>6
    <3>2. PICK j \in 1 .. m : to[k] \in {at[j], at[j] + 1}
      BY <3>1, <2>1, <1>2, <1>5
    <3>3. CASE j < k
      <4>1. to[j] = at[j] /\ to[j] + 1 < to[k] /\ j \in 1 .. m + 1
        BY <3>3, <2>1, <1>1, <1>7, <1>8
      <4> QED BY <4>1, <3>2, <1>6, <2>2
    <3>4. CASE j = k
      BY <3>2, <3>4, <1>6, <2>2
    <3>5. CASE k < j
      <4>1. at[k] + 1 < at[j] /\ at[j] \in Int
        BY <3>5, <2>1, <1>2, <1>6
      <4> QED BY <4>1, <3>2, <2>2
    <3> QED BY <3>3, <3>4, <3>5, <2>1
  <2> QED BY <2>2, <2>3, <2>4 DEF k
<1>9. \A j \in 1 .. m : to[j] = at[j]
  <2> DEFINE T == {i \in Nat : i <= m => \A j \in 1 .. i : to[j] = at[j]}
  <2>1. 0 \in T
    OBVIOUS
  <2>2. ASSUME NEW i \in T PROVE i + 1 \in T
    <3>1. i \in Nat
      OBVIOUS
    <3> SUFFICES ASSUME i + 1 <= m, NEW j \in 1 .. i + 1 PROVE to[j] = at[j]
      BY <3>1
    <3>2. \A h \in 1 .. i : to[h] = at[h]
      BY <3>1, <1>1
    <3> HIDE DEF T
    <3>3. to[i + 1] = at[i + 1]
      BY <3>1, <3>2, <1>8
    <3>4. j = i + 1 \/ j \in 1 .. i
      BY <3>1
    <3> QED BY <3>2, <3>3, <3>4
  <2>3. T = Nat
    <3>1. T \in SUBSET Nat
      OBVIOUS
    <3> HIDE DEF T
    <3> QED BY <2>1, <2>2, <3>1, Induct
  <2>4. m \in T
    BY <2>3, <1>1
  <2> QED BY <2>4
<1> DEFINE e == to[m + 1]
<1>10. e \in Int /\ 1 <= e /\ e <= n - 1 /\ \A j \in 1 .. m : to[j] + 1 < e
  BY <1>1, <1>6, <1>7
<1>11. q <= e
  <2> SUFFICES ASSUME e < q PROVE FALSE
    BY <1>10
  <2>1. e \in 1 .. q - 1 /\ ~Blank(str, e)
    BY <1>1, <1>5, <1>10
  <2>2. PICK j \in 1 .. m : e \in {at[j], at[j] + 1}
    BY <2>1, <1>2
  <2>3. to[j] = at[j] /\ at[j] \in Int /\ to[j] + 1 < e
    BY <1>6, <1>9, <1>10
  <2> QED BY <2>2, <2>3, <1>10
<1>12. ASSUME ~Blank(str, q) PROVE q = e
  <2>1. q \in 1 .. n
    BY <1>10, <1>11
  <2>2. CASE \E i \in 1 .. m + 1 : q \in {to[i], to[i] + 1}
    <3>1. PICK i \in 1 .. m + 1 : q \in {to[i], to[i] + 1}
      BY <2>2
    <3>2. CASE i \in 1 .. m
      <4>1. to[i] = at[i] /\ at[i] \in Int /\ at[i] <= q - 2
        BY <3>2, <1>6, <1>9
      <4> QED BY <3>1, <4>1
    <3>3. CASE i = m + 1
      BY <3>1, <3>3, <1>10, <1>11
    <3> QED BY <3>2, <3>3, <1>1
  <2>3. CASE \A i \in 1 .. m + 1 : q > to[i] + 1
    BY <2>3, <1>1, <1>10, <1>11
  <2> QED BY <2>1, <2>2, <2>3, <1>4, <1>12
<1>13. IsHex(str[e]) /\ IsHex(str[e + 1])
  BY <1>1, <1>5
<1> QED BY <1>10, <1>11, <1>12, <1>13

\* string_to_bytes finds a prefix, and there is none of one byte more unless the
\* buffer is full.
LEMMA FindsPrefix ==
    ASSUME NEW C, NEW str \in Seq(C), NEW size \in Nat
    PROVE  /\ StringToBytes(str, size) \in Seq(0 .. 255)
           /\ Len(StringToBytes(str, size)) <= size
           /\ Spells(str, StringToBytes(str, size))
           /\ Len(StringToBytes(str, size)) < size =>
                 \A b \in 0 .. 255 : ~Spells(str, Append(StringToBytes(str, size), b))
<1> DEFINE n == Len(str)
           out == StringToBytes(str, size)
<1>1. n \in Nat /\ DOMAIN str = 1 .. n /\ n \in 0 .. n
  OBVIOUS
<1>2. PICK r : Runs(r, str, size) /\ out = r[n].out
  BY ParseRuns
<1> DEFINE s == r[n]
<1>3. s \in LoopState /\ s.out = out
  BY <1>1, <1>2 DEF Runs
<1>4. LoopInv(s, str, size, n)
  BY <1>1, <1>2, LoopEnd
<1> HIDE DEF s, out
<1>5. out \in Seq(0 .. 255) /\ s.at \in {"hi", "lo", "stop"}
  BY <1>3 DEF LoopState
<1>6. PICK q \in 1 .. n + 1 :
        /\ Found(str, s.out, q)
        /\ Len(s.out) <= size
        /\ s.at = "hi" => q = n + 1
        /\ s.at = "lo" => q = n /\ IsHex(str[n]) /\ s.hi = HexVal(str[n])
        /\ s.at = "stop" => /\ q <= n /\ ~Blank(str, q)
                            /\ IsHex(str[q]) => /\ q < n
                                                /\ IsHex(str[q + 1]) => Len(s.out) = size
  BY <1>4 DEF LoopInv
<1>7. Found(str, out, q) /\ Len(out) <= size
  BY <1>3, <1>6
<1>8. Spells(str, out)
  BY <1>1, <1>5, <1>7, FoundSpells
<1>9. ASSUME Len(out) < size, NEW b \in 0 .. 255, Spells(str, Append(out, b)) PROVE FALSE
  <2>1. q <= n - 1 /\ (Blank(str, q) \/ (IsHex(str[q]) /\ IsHex(str[q + 1])))
    BY <1>1, <1>5, <1>7, <1>9, OneMore
  <2>2. s.at = "stop"
    <3>0. n \in Int /\ q <= n - 1
      BY <1>1, <2>1
    <3> HIDE DEF n
    <3>1. q # n + 1 /\ q # n
      BY <3>0
    <3> QED BY <1>5, <1>6, <3>1
  <2>3. Len(s.out) = size
    BY <1>6, <2>1, <2>2
  <2>4. Len(out) \in Nat
    BY <1>5
  <2> QED BY <1>3, <1>9, <2>3, <2>4
<1> QED BY <1>5, <1>7, <1>8, <1>9 DEF out

\* What is typed is a sequence of the characters, or bytes, of its job.
InputOK ==
    /\ job = "hex" => input \in Seq(HexChars)
    /\ job = "bytes" => input \in Seq(ByteValues)
    /\ job = "bcd" => input \in Seq(DecChars)

\* Every behaviour keeps to the inputs of its job.
THEOREM InputTyped == Spec => []InputOK
<1>1. Init => InputOK
  BY DEF Init, InputOK
<1>2. InputOK /\ [Next]_vars => InputOK'
  <2> SUFFICES ASSUME InputOK, [Next]_vars PROVE InputOK'
    OBVIOUS
  <2>1. CASE Type("hex", HexChars)
    BY <2>1 DEF Type, InputOK
  <2>2. CASE Type("bytes", ByteValues)
    BY <2>2 DEF Type, InputOK
  <2>3. CASE Type("bcd", DecChars)
    BY <2>3 DEF Type, InputOK
  <2>4. CASE CountDays \/ UNCHANGED vars
    BY <2>4 DEF CountDays, vars, InputOK
  <2> QED BY <2>1, <2>2, <2>3, <2>4 DEF Next
<1> QED BY <1>1, <1>2, PTL DEF Spec

\* string_to_bytes finds the bytes of the longest prefix that is a list of bytes, or
\* as many of them as the buffer has room for (converter.c 95-139), in texts of any
\* characters and any length and for buffers of any size.
THEOREM LongestPrefixFound == Spec => []HexIsLongestPrefix
<1>1. InputOK => HexIsLongestPrefix
  <2> SUFFICES ASSUME InputOK, job = "hex", NEW size \in Sizes
               PROVE  LET out == StringToBytes(input, size)
                      IN  /\ Len(out) <= size /\ Spells(input, out)
                          /\ Len(out) < size => \A p \in 1 .. Len(input) - 1 :
                                IsHex(input[p]) /\ IsHex(input[p + 1])
                                  => ~Spells(input, Append(out, 16 * HexVal(input[p])
                                                                 + HexVal(input[p + 1])))
    BY DEF HexIsLongestPrefix
  <2> DEFINE out == StringToBytes(input, size)
  <2>1. input \in Seq(HexChars) /\ size \in Nat
    BY ConverterAssumption DEF InputOK, ConverterAssumption
  <2>2. /\ Len(out) <= size /\ Spells(input, out)
        /\ Len(out) < size => \A b \in 0 .. 255 : ~Spells(input, Append(out, b))
    BY <2>1, FindsPrefix
  <2> HIDE DEF out
  <2>3. ASSUME NEW p \in 1 .. Len(input) - 1, IsHex(input[p]), IsHex(input[p + 1])
        PROVE  16 * HexVal(input[p]) + HexVal(input[p + 1]) \in 0 .. 255
    <3>1. HexVal(input[p]) \in 0 .. 15 /\ HexVal(input[p + 1]) \in 0 .. 15
      BY <2>3, HexRange
    <3>2. \A x \in 0 .. 15, y \in 0 .. 15 : 16 * x + y \in 0 .. 255
      OBVIOUS
    <3> QED BY <3>1, <3>2
  <2>4. Len(out) < size => \A p \in 1 .. Len(input) - 1 :
            IsHex(input[p]) /\ IsHex(input[p + 1])
              => ~Spells(input, Append(out, 16 * HexVal(input[p]) + HexVal(input[p + 1])))
    BY <2>2, <2>3
  <2> QED BY <2>2, <2>4 DEF out
<1> QED BY <1>1, InputTyped, PTL

-----------------------------------------------------------------------------
(* What bytes_to_string prints, string_to_bytes reads                      *)

\* The two digits of a byte.
HighDigit(b) == Upper[b \div 16 + 1]
LowDigit(b) == Upper[(b % 16) + 1]

\* Character p of the text of these bytes.
Printed(bytes, p) == IF p % 2 = 1 THEN HighDigit(bytes[(p + 1) \div 2]) ELSE LowDigit(bytes[p \div 2])

\* The digits are those that the parts of the byte are read from.
LEMMA DigitsOfByte ==
    ASSUME NEW b \in 0 .. 255
    PROVE  /\ IsHex(HighDigit(b)) /\ IsHex(LowDigit(b))
           /\ 16 * HexVal(HighDigit(b)) + HexVal(LowDigit(b)) = b
<1>1. b \div 16 \in 0 .. 15 /\ b % 16 \in 0 .. 15 /\ 16 * (b \div 16) + (b % 16) = b
  OBVIOUS
<1>2. /\ IsHex(HighDigit(b)) /\ HexVal(HighDigit(b)) = b \div 16
      /\ IsHex(LowDigit(b)) /\ HexVal(LowDigit(b)) = b % 16
  BY <1>1, DigitValue DEF HighDigit, LowDigit
<1> QED BY <1>1, <1>2

\* The text is made of the printed characters, two for each byte.
LEMMA TextIs ==
    ASSUME NEW bytes \in Seq(0 .. 255)
    PROVE  BytesToString(bytes) = [p \in 1 .. 2 * Len(bytes) |-> Printed(bytes, p)]
<1> DEFINE n == Len(bytes)
           pairs == [i \in 1 .. n |-> <<HighDigit(bytes[i]), LowDigit(bytes[i])>>]
           g == [i \in 1 .. n |-> [p \in 1 .. 2 * i |-> Printed(bytes, p)]]
<1>1. n \in Nat /\ DOMAIN bytes = 1 .. n
  OBVIOUS
<1>2. BytesToString(bytes) = FlattenSeq(pairs)
  BY <1>1, Zenon DEF BytesToString, HighDigit, LowDigit
<1> HIDE DEF n
<1>3. Len(pairs) = n
  BY <1>1
<1>4. CASE n = 0
  <2>1. pairs = <<>>
    BY <1>4
  <2>2. [p \in 1 .. 2 * n |-> Printed(bytes, p)] = <<>>
    BY <1>4
  <2> HIDE DEF pairs
  <2> QED BY <1>2, <2>1, <2>2, FlattenEmpty DEF n
<1>5. CASE n # 0
  <2>1. ASSUME NEW i \in 1 .. n
        PROVE  pairs[i] = <<Printed(bytes, 2 * i - 1), Printed(bytes, 2 * i)>>
    <3>1. i \in Int /\ (2 * i - 1) % 2 = 1 /\ ((2 * i - 1) + 1) \div 2 = i
      OBVIOUS
    <3>2. (2 * i) % 2 # 1 /\ (2 * i) \div 2 = i
      OBVIOUS
    <3>3. Printed(bytes, 2 * i - 1) = HighDigit(bytes[i])
      BY <3>1, Zenon DEF Printed
    <3>4. Printed(bytes, 2 * i) = LowDigit(bytes[i])
      BY <3>2, Zenon DEF Printed
    <3> QED BY <3>3, <3>4
  <2> HIDE DEF pairs
  <2>2. ASSUME NEW i \in 1 .. n, i # 1 PROVE g[i] = g[i - 1] \o pairs[i]
    <3> DEFINE a == [p \in 1 .. 2 * (i - 1) |-> Printed(bytes, p)]
               b == <<Printed(bytes, 2 * i - 1), Printed(bytes, 2 * i)>>
               m == 2 * (i - 1)
    <3>1. i \in Int /\ i - 1 \in 1 .. n /\ m \in Nat /\ 2 * i = m + 2
      BY <1>1, <2>2
    <3>2. g[i - 1] = a /\ pairs[i] = b
      BY <3>1, <2>1
    <3>3. Len(a) = m /\ Len(b) = 2
      BY <3>1
    <3>4. a \o b = [p \in 1 .. m + 2 |-> IF p <= m THEN a[p] ELSE b[p - m]]
      BY <3>3
    <3>5. ASSUME NEW p \in 1 .. m + 2
          PROVE  (IF p <= m THEN a[p] ELSE b[p - m]) = Printed(bytes, p)
      <4>1. CASE p <= m
        <5>1. p \in 1 .. m
          BY <3>1, <4>1
        <5> QED BY <4>1, <5>1
      <4>2. CASE p = m + 1
        <5>1. ~(p <= m) /\ p - m = 1 /\ p = 2 * i - 1
          BY <3>1, <4>2
        <5> HIDE DEF m
        <5> QED BY <5>1
      <4>3. CASE p = m + 2
        <5>1. ~(p <= m) /\ p - m = 2 /\ p = 2 * i
          BY <3>1, <4>3
        <5> HIDE DEF m
        <5> QED BY <5>1
      <4> QED BY <3>1, <4>1, <4>2, <4>3
    <3> HIDE DEF a, b, m
    <3>6. a \o b = [p \in 1 .. 2 * i |-> Printed(bytes, p)]
      BY <3>1, <3>4, <3>5
    <3>7. g[i] = [p \in 1 .. 2 * i |-> Printed(bytes, p)]
      OBVIOUS
    <3> QED BY <3>2, <3>6, <3>7
  <2>3. g[1] = pairs[1]
    <3>1. 1 \in 1 .. n
      BY <1>1, <1>5
    <3>2. pairs[1] = <<Printed(bytes, 1), Printed(bytes, 2)>>
      BY <2>1, <3>1
    <3>3. g[1] = [p \in 1 .. 2 |-> Printed(bytes, p)]
      BY <3>1
    <3> HIDE DEF g
    <3> QED BY <3>2, <3>3
  <2>4. g = [i \in 1 .. n |-> g[i]]
    OBVIOUS
  <2>5. g[n] = [p \in 1 .. 2 * n |-> Printed(bytes, p)]
    BY <1>1, <1>5
  <2> HIDE DEF g
  <2>6. ASSUME NEW i \in 1 .. n PROVE g[i] = IF i = 1 THEN pairs[i] ELSE g[i - 1] \o pairs[i]
    BY <2>2, <2>3
  <2>7. Flat(g, pairs, n)
    BY <2>4, <2>6, Zenon DEF Flat
  <2>8. FlattenSeq(pairs) = g[n]
    BY <1>1, <1>3, <1>5, <2>7, FlattenLast
  <2> QED BY <1>2, <2>5, <2>8 DEF n
<1> QED BY <1>4, <1>5

\* What the loop has behind i printed bytes: these, or as many as there is room for.
ReadBack(s, bytes, size, i) ==
    /\ i <= size => s.at = "hi" /\ s.out = SubSeq(bytes, 1, i)
    /\ i > size => s.at = "stop" /\ s.out = SubSeq(bytes, 1, size)

\* Two characters more are one byte more.
LEMMA ReadByte ==
    ASSUME NEW bytes \in Seq(0 .. 255), NEW size \in Nat, NEW i \in Nat, i + 1 <= Len(bytes),
           NEW s \in LoopState, ReadBack(s, bytes, size, i),
           NEW t \in LoopState, t = ParseStep(s, HighDigit(bytes[i + 1]), size),
           NEW u \in LoopState, u = ParseStep(t, LowDigit(bytes[i + 1]), size)
    PROVE  ReadBack(u, bytes, size, i + 1)
<1> DEFINE b == bytes[i + 1]
           h == HighDigit(b)
           l == LowDigit(b)
<1>1. b \in 0 .. 255
  <2>1. i + 1 \in 1 .. Len(bytes)
    OBVIOUS
  <2> QED BY <2>1, ElementOfSeq, Zenon
<1>2. IsHex(h) /\ IsHex(l) /\ ~IsBlank(h) /\ 16 * HexVal(h) + HexVal(l) = b
  BY <1>1, DigitsOfByte, BlankIsNone
<1>3. t = ParseStep(s, h, size) /\ u = ParseStep(t, l, size)
  OBVIOUS
<1> HIDE DEF b, h, l
<1>4. /\ s.at = "stop" => t = s
      /\ s.at = "hi" => t.at = "lo" /\ t.hi = HexVal(h) /\ t.out = s.out
  BY <1>2, <1>3, StepCases
<1>5. /\ t.at = "stop" => u = t
      /\ t.at = "lo" /\ Len(t.out) < size
           => u.at = "hi" /\ u.out = Append(t.out, 16 * t.hi + HexVal(l))
      /\ t.at = "lo" /\ ~(Len(t.out) < size) => u.at = "stop" /\ u.out = t.out
  BY <1>2, <1>3, StepCases
<1>6. CASE i > size
  <2>1. u.at = "stop" /\ u.out = SubSeq(bytes, 1, size)
    BY <1>4, <1>5, <1>6 DEF ReadBack
  <2> QED BY <2>1, <1>6 DEF ReadBack
<1>7. CASE i <= size
  <2>1. t.at = "lo" /\ t.hi = HexVal(h) /\ t.out = SubSeq(bytes, 1, i)
    BY <1>4, <1>7 DEF ReadBack
  <2>2. Len(SubSeq(bytes, 1, i)) = i
    OBVIOUS
  <2>3. CASE i + 1 <= size
    <3>1. u.at = "hi" /\ u.out = Append(SubSeq(bytes, 1, i), b)
      BY <1>2, <1>5, <2>1, <2>2, <2>3
    <3>2. Append(SubSeq(bytes, 1, i), b) = SubSeq(bytes, 1, i + 1)
      BY DEF b
    <3> QED BY <3>1, <3>2, <2>3 DEF ReadBack
  <2>4. CASE i = size
    <3>1. u.at = "stop" /\ u.out = SubSeq(bytes, 1, size)
      BY <1>5, <2>1, <2>2, <2>4
    <3> QED BY <3>1, <2>4 DEF ReadBack
  <2> QED BY <1>7, <2>3, <2>4
<1> QED BY <1>6, <1>7

\* The bytes of a text that was printed, into a buffer of any size.
LEMMA ReadsWhatIsPrinted ==
    ASSUME NEW bytes \in Seq(0 .. 255), NEW size \in Nat
    PROVE  StringToBytes(BytesToString(bytes), size)
             = SubSeq(bytes, 1, IF Len(bytes) < size THEN Len(bytes) ELSE size)
<1> DEFINE n == Len(bytes)
           str == BytesToString(bytes)
           C == {Printed(bytes, p) : p \in 1 .. 2 * n}
<1>1. n \in Nat
  OBVIOUS
<1>2. str = [p \in 1 .. 2 * n |-> Printed(bytes, p)]
  BY TextIs
<1> HIDE DEF str, n
<1>3. str \in Seq(C) /\ Len(str) = 2 * n /\ \A p \in 1 .. 2 * n : str[p] = Printed(bytes, p)
  <2>1. 2 * n \in Nat
    BY <1>1
  <2>2. \A p \in 1 .. 2 * n : Printed(bytes, p) \in C
    OBVIOUS
  <2> HIDE DEF C
  <2> QED BY <1>2, <2>1, <2>2
<1>4. PICK r : Runs(r, str, size) /\ StringToBytes(str, size) = r[Len(str)].out
  BY <1>3, ParseRuns
<1>5. /\ \A k \in 0 .. 2 * n : r[k] \in LoopState
      /\ r[0] = Start
      /\ \A k \in 1 .. 2 * n : r[k] = ParseStep(r[k - 1], str[k], size)
  BY <1>3, <1>4 DEF Runs
<1> DEFINE T == {i \in Nat : i <= n => ReadBack(r[2 * i], bytes, size, i)}
<1>6. 0 \in T
  <2>1. SubSeq(bytes, 1, 0) = <<>> /\ 2 * 0 = 0 /\ 0 <= size /\ ~(0 > size)
    OBVIOUS
  <2>2. ReadBack(r[0], bytes, size, 0)
    BY <1>5, <2>1 DEF ReadBack, Start
  <2> QED BY <2>1, <2>2
<1>7. ASSUME NEW i \in T PROVE i + 1 \in T
  <2>1. i \in Nat
    OBVIOUS
  <2> SUFFICES ASSUME i + 1 <= n PROVE ReadBack(r[2 * (i + 1)], bytes, size, i + 1)
    BY <2>1
  <2> DEFINE k == 2 * i
  <2>2. ReadBack(r[k], bytes, size, i)
    BY <1>1, <2>1
  <2> HIDE DEF T
  <2>3. /\ k \in 0 .. 2 * n /\ k + 1 \in 1 .. 2 * n /\ k + 2 \in 1 .. 2 * n
        /\ k + 1 \in 0 .. 2 * n /\ k + 2 \in 0 .. 2 * n
        /\ (k + 1) - 1 = k /\ (k + 2) - 1 = k + 1 /\ 2 * (i + 1) = k + 2
    BY <1>1, <2>1
  <2>4. str[k + 1] = HighDigit(bytes[i + 1])
    <3>1. (k + 1) % 2 = 1 /\ ((k + 1) + 1) \div 2 = i + 1
      BY <2>1
    <3>2. str[k + 1] = Printed(bytes, k + 1)
      BY <1>3, <2>3
    <3> QED BY <3>1, <3>2, Zenon DEF Printed
  <2>5. str[k + 2] = LowDigit(bytes[i + 1])
    <3>1. (k + 2) % 2 # 1 /\ (k + 2) \div 2 = i + 1
      BY <2>1
    <3>2. str[k + 2] = Printed(bytes, k + 2)
      BY <1>3, <2>3
    <3> QED BY <3>1, <3>2, Zenon DEF Printed
  <2> HIDE DEF k
  <2>6. /\ r[k] \in LoopState /\ r[k + 1] \in LoopState /\ r[k + 2] \in LoopState
        /\ r[k + 1] = ParseStep(r[k], HighDigit(bytes[i + 1]), size)
        /\ r[k + 2] = ParseStep(r[k + 1], LowDigit(bytes[i + 1]), size)
    BY <1>5, <2>3, <2>4, <2>5
  <2>7. ReadBack(r[k + 2], bytes, size, i + 1)
    BY <2>1, <2>2, <2>6, ReadByte DEF n
  <2> QED BY <2>3, <2>7
<1>8. T = Nat
  <2>1. T \in SUBSET Nat
    OBVIOUS
  <2> HIDE DEF T
  <2> QED BY <1>6, <1>7, <2>1, Induct
<1>9. ReadBack(r[2 * n], bytes, size, n)
  <2>1. n <= n
    BY <1>1
  <2>2. n \in T
    <3> HIDE DEF T
    <3> QED BY <1>1, <1>8
  <2> QED BY <2>1, <2>2
<1>10. StringToBytes(str, size) = r[2 * n].out
  BY <1>3, <1>4
<1>11. r[2 * n].out = SubSeq(bytes, 1, IF n < size THEN n ELSE size)
  <2>1. CASE n < size
    BY <1>1, <1>9, <2>1 DEF ReadBack
  <2>2. CASE n = size
    BY <1>1, <1>9, <2>2 DEF ReadBack
  <2>3. CASE n > size
    BY <1>1, <1>9, <2>3 DEF ReadBack
  <2> QED BY <1>1, <2>1, <2>2, <2>3
<1> QED BY <1>10, <1>11 DEF str, n

\* A text of bytes to print is a sequence of bytes.
LEMMA TextsOfBytes == Seq(ByteValues) \subseteq Seq(0 .. 255)
<1> DEFINE All == 0 .. 255
<1>1. ByteValues \subseteq All
  BY ConverterAssumption DEF ConverterAssumption
<1> HIDE DEF All
<1>2. ASSUME NEW s \in Seq(ByteValues) PROVE s \in Seq(All)
  BY <1>1, SeqMonotonic
<1> QED BY <1>2 DEF All

\* What bytes_to_string prints, string_to_bytes reads, as many bytes of it as the
\* buffer has room for (converter.c 59-142): any bytes, any number of them.
THEOREM PrintedIsRead == Spec => []HexRoundTrip
<1>1. InputOK => HexRoundTrip
  <2> SUFFICES ASSUME InputOK, job = "bytes", NEW size \in Sizes
               PROVE  StringToBytes(BytesToString(input), size)
                        = SubSeq(input, 1, IF Len(input) < size THEN Len(input) ELSE size)
    BY DEF HexRoundTrip
  <2>1. input \in Seq(0 .. 255) /\ size \in Nat
    <3>1. input \in Seq(ByteValues)
      BY Zenon DEF InputOK
    <3>2. Sizes \subseteq Nat
      BY ConverterAssumption DEF ConverterAssumption
    <3> QED BY <3>1, <3>2, TextsOfBytes
  <2> QED BY <2>1, ReadsWhatIsPrinted
<1> QED BY <1>1, InputTyped, PTL

-----------------------------------------------------------------------------
(* The digits of string_to_bcd                                             *)

\* The bytes after one digit.
OrOne(bytes, d) == [bytes EXCEPT ![d.index + 1] = OrByte(@, d.value)]

\* A byte remains a number.
LEMMA OrNumber ==
    ASSUME NEW x, NEW y
    PROVE  OrByte(x, y) \in Nat
<1> DEFINE Bit(w) == IF (x \div w) % 2 = 0 /\ (y \div w) % 2 = 0 THEN 0 ELSE w
<1>1. \A w \in Nat : Bit(w) \in Nat
  OBVIOUS
<1> HIDE DEF Bit
<1>2. /\ Bit(1) \in Nat /\ Bit(2) \in Nat /\ Bit(4) \in Nat /\ Bit(8) \in Nat
      /\ Bit(16) \in Nat /\ Bit(32) \in Nat /\ Bit(64) \in Nat /\ Bit(128) \in Nat
  BY <1>1
<1>3. Bit(1) + Bit(2) + Bit(4) + Bit(8) + Bit(16) + Bit(32) + Bit(64) + Bit(128) \in Nat
  BY <1>2
<1> QED BY <1>3 DEF OrByte, Bit

\* The bytes remain bytes.
LEMMA OrOneType ==
    ASSUME NEW size \in Nat, NEW bytes \in [1 .. size -> Nat], NEW d
    PROVE  OrOne(bytes, d) \in [1 .. size -> Nat]
<1>1. OrOne(bytes, d) = [k \in 1 .. size |-> IF k = d.index + 1 THEN OrByte(bytes[k], d.value)
                                             ELSE bytes[k]]
  BY DEF OrOne
<1> QED BY <1>1, OrNumber

\* r[k] is the buffer behind k digits.
Fills(r, d, n, size) ==
    /\ r \in [0 .. n -> [1 .. size -> Nat]]
    /\ r[0] = Zeros(size)
    /\ \A k \in 1 .. n : r[k] = OrOne(r[k - 1], d[k])

\* The fold of OrInto takes the digits one by one.
LEMMA OrRuns ==
    ASSUME NEW size \in Nat, NEW n \in Nat, NEW d, DOMAIN d = 1 .. n
    PROVE  \E r : Fills(r, d, n, size) /\ OrInto(Zeros(size), d) = r[n]
<1> DEFINE S == [1 .. size -> Nat]
           zeros == Zeros(size)
           f == [p \in S \X (1 .. n) |-> OrOne(p[1], d[p[2]])]
           Ors(g) == g = [s \in SUBSET (1 .. n) |->
                             IF s = {} THEN zeros ELSE OrOne(g[s \ {Max(s)}], d[Max(s)])]
           h == CHOOSE g : Ors(g)
<1>1. zeros \in S
  BY DEF Zeros
<1>2. f \in [S \X (1 .. n) -> S]
  <2>1. \A p \in S \X (1 .. n) : OrOne(p[1], d[p[2]]) \in S
    BY OrOneType
  <2> HIDE DEF S
  <2> QED BY <2>1
<1>3. \A x \in S, i \in 1 .. n : f[<<x, i>>] = OrOne(x, d[i])
  OBVIOUS
<1> HIDE DEF S, zeros
<1>4. \E g : Ors(g)
  <2> HIDE DEF f
  <2>1. PICK g \in [SUBSET (1 .. n) -> S] : Folded(g, f, zeros, n)
    <3>1. n \in 0 .. n
      OBVIOUS
    <3> QED BY <1>1, <1>2, <3>1, FoldExists
  <2>2. ASSUME NEW s \in SUBSET (1 .. n), s # {}
        PROVE  g[s \ {Max(s)}] \in S /\ Max(s) \in 1 .. n
    <3>1. Max(s) \in s
      BY <2>2, MaxIn
    <3>2. s \ {Max(s)} \in SUBSET (1 .. n)
      OBVIOUS
    <3> QED BY <3>1, <3>2
  <2>3. ASSUME NEW s \in SUBSET (1 .. n)
        PROVE  g[s] = IF s = {} THEN zeros ELSE OrOne(g[s \ {Max(s)}], d[Max(s)])
    <3>1. g[s] = IF s = {} THEN zeros ELSE f[<<g[s \ {Max(s)}], Max(s)>>]
      BY <2>1 DEF Folded
    <3> QED BY <3>1, <1>3, <2>2
  <2>4. Ors(g)
    BY <2>3
  <2> QED BY <2>4
<1>5. Ors(h)
  <2> HIDE DEF Ors
  <2> QED BY <1>4
<1>6. OrInto(zeros, d) = h[1 .. n]
  <2>1. OrInto(zeros, d)
          = (CHOOSE g : g = [s \in SUBSET (DOMAIN d) |->
                                IF s = {} THEN zeros
                                ELSE [g[s \ {Max(s)}] EXCEPT ![d[Max(s)].index + 1]
                                         = OrByte(@, d[Max(s)].value)]])[DOMAIN d]
    BY Zenon DEF OrInto, FoldLeft, MapThenFoldSet
  <2> QED BY <2>1, Zenon DEF OrOne
<1> HIDE DEF h
<1>7. h[{}] = zeros
  <2>1. {} \in SUBSET (1 .. n)
    OBVIOUS
  <2> QED BY <2>1, <1>5
<1>8. ASSUME NEW k \in 1 .. n PROVE h[1 .. k] = OrOne(h[1 .. k - 1], d[k])
  <2>1. /\ 1 .. k \in SUBSET (1 .. n) /\ 1 .. k # {} /\ Max(1 .. k) = k
        /\ (1 .. k) \ {Max(1 .. k)} = 1 .. k - 1
    BY PrefixStep
  <2>2. h[1 .. k] = OrOne(h[(1 .. k) \ {Max(1 .. k)}], d[Max(1 .. k)])
    BY <1>5, <2>1
  <2> QED BY <2>1, <2>2
<1>9. Steps(h, f, S, n)
  BY <1>3, <1>8 DEF Steps
<1>10. PICK r : RunTo(r, f, zeros, S, n, h[1 .. n])
  <2> HIDE DEF f
  <2> QED BY <1>1, <1>2, <1>7, <1>9, FoldRun, Zenon
<1>11. \A k \in 1 .. n : r[k] = OrOne(r[k - 1], d[k])
  <2>1. \A k \in 1 .. n : r[k - 1] \in S
    <3>1. \A k \in 1 .. n : k - 1 \in 0 .. n
      OBVIOUS
    <3> QED BY <3>1, <1>10 DEF RunTo
  <2> HIDE DEF f
  <2> QED BY <1>3, <1>10, <2>1 DEF RunTo
<1>12. Fills(r, d, n, size)
  BY <1>10, <1>11 DEF Fills, RunTo, S, zeros
<1> QED BY <1>6, <1>10, <1>12 DEF RunTo, zeros

\* `|=' into a half of a byte that is zero.
LEMMA OrHalf ==
    ASSUME NEW h \in 0 .. 15, NEW l \in 0 .. 15
    PROVE  /\ OrByte(0, 16 * h) = 16 * h
           /\ OrByte(16 * h, l) = 16 * h + l
<1>1. /\ (16 * h) \div 1 = 16 * h /\ (16 * h) \div 2 = 8 * h /\ (16 * h) \div 4 = 4 * h
      /\ (16 * h) \div 8 = 2 * h /\ (16 * h) \div 16 = h /\ (16 * h) \div 32 = h \div 2
      /\ (16 * h) \div 64 = h \div 4 /\ (16 * h) \div 128 = h \div 8
  OBVIOUS
<1>2. (16 * h) % 2 = 0 /\ (8 * h) % 2 = 0 /\ (4 * h) % 2 = 0 /\ (2 * h) % 2 = 0
  OBVIOUS
<1>3. ASSUME NEW n \in 0 .. 15
      PROVE  n = (n % 2) + 2 * ((n \div 2) % 2) + 4 * ((n \div 4) % 2) + 8 * ((n \div 8) % 2)
  OBVIOUS
<1>4. l \div 1 = l /\ l \div 16 = 0 /\ l \div 32 = 0 /\ l \div 64 = 0 /\ l \div 128 = 0
  OBVIOUS
<1>5. 0 \div 1 = 0 /\ 0 \div 2 = 0 /\ 0 \div 4 = 0 /\ 0 \div 8 = 0 /\ 0 \div 16 = 0
      /\ 0 \div 32 = 0 /\ 0 \div 64 = 0 /\ 0 \div 128 = 0 /\ 0 % 2 = 0
  OBVIOUS
<1>6. ASSUME NEW n \in 0 .. 15
      PROVE  /\ n % 2 \in {0, 1} /\ (n \div 2) % 2 \in {0, 1}
             /\ (n \div 4) % 2 \in {0, 1} /\ (n \div 8) % 2 \in {0, 1}
  OBVIOUS
<1>7. OrByte(0, 16 * h) = 16 * h
  <2>1. OrByte(0, 16 * h) = 16 * (h % 2) + 32 * ((h \div 2) % 2) + 64 * ((h \div 4) % 2)
                              + 128 * ((h \div 8) % 2)
    BY <1>1, <1>2, <1>5, <1>6 DEF OrByte
  <2> QED BY <2>1, <1>3
<1>8. OrByte(16 * h, l) = 16 * h + l
  <2>1. OrByte(16 * h, l) = (l % 2) + 2 * ((l \div 2) % 2) + 4 * ((l \div 4) % 2)
                              + 8 * ((l \div 8) % 2) + 16 * (h % 2) + 32 * ((h \div 2) % 2)
                              + 64 * ((h \div 4) % 2) + 128 * ((h \div 8) % 2)
    BY <1>1, <1>2, <1>4, <1>5, <1>6 DEF OrByte
  <2> QED BY <2>1, <1>3
<1> QED BY <1>7, <1>8

\* A character counts for a digit, if none is behind it in memory.
LEMMA AtoiDigit ==
    ASSUME NEW c, NEW behind, ~IsDigit(behind)
    PROVE  Atoi(c, behind) \in 0 .. 9
<1>1. CASE IsDigit(c)
  <2>1. Atoi(c, behind) = HexVal(c)
    BY <1>1 DEF Atoi
  <2>2. PICK i \in 1 .. 10 : c = Upper[i]
    BY <1>1 DEF IsDigit
  <2>3. i - 1 \in 0 .. 15 /\ (i - 1) + 1 = i
    OBVIOUS
  <2>4. HexVal(c) = i - 1
    BY <2>2, <2>3, DigitValue
  <2> QED BY <2>1, <2>4
<1>2. CASE ~IsDigit(c)
  BY <1>2 DEF Atoi
<1> QED BY <1>1, <1>2

\* The digit that character p, from 1, is.
DigitOf(str, size, behind, p) ==
    [index |-> (2 * size - Len(str) + p - 1) \div 2,
     value |-> Atoi(str[p], behind) * (IF (2 * size - Len(str) + p) % 2 = 1 THEN 16 ELSE 1)]

\* A text that is not too long is ored in, digit by digit: the half that a character
\* goes to is given by its distance from the end.
LEMMA BcdIs ==
    ASSUME NEW C, NEW str \in Seq(C), NEW size \in Nat, Len(str) <= 2 * size, NEW behind
    PROVE  StringToBcd(str, size, behind)
             = OrInto(Zeros(size), [p \in 1 .. Len(str) |-> DigitOf(str, size, behind, p)])
<1> DEFINE n == Len(str)
           even == n % 2 = 0
           Digit(i) == [index |-> (2 * size - n + i) \div 2,
                        value |-> Atoi(str[i + 1], behind)
                                    * (IF (IF even THEN i + 1 ELSE i) % 2 = 1 THEN 16 ELSE 1)]
<1>1. n \in Nat /\ DOMAIN str = 1 .. n /\ ~(n > 2 * size)
  OBVIOUS
<1> HIDE DEF n
<1>2. ASSUME NEW p \in 1 .. n PROVE Digit(p - 1) = DigitOf(str, size, behind, p)
  <2>1. (p - 1) + 1 = p /\ 2 * size - n + (p - 1) = 2 * size - n + p - 1
    BY <1>1
  <2>2. (IF even THEN p ELSE p - 1) % 2 = 1 <=> (2 * size - n + p) % 2 = 1
    BY <1>1
  <2> QED BY <2>1, <2>2 DEF DigitOf, n
<1>3. StringToBcd(str, size, behind) = OrInto(Zeros(size), [p \in 1 .. n |-> Digit(p - 1)])
  BY <1>1, Zenon DEF StringToBcd, n
<1> HIDE DEF Digit
<1>4. [p \in 1 .. n |-> Digit(p - 1)] = [p \in 1 .. n |-> DigitOf(str, size, behind, p)]
  BY <1>2
<1> QED BY <1>3, <1>4 DEF n

\* Half p of the bytes, the halves counted from the left.
Half(bytes, p) == IF p % 2 = 1 THEN bytes[(p + 1) \div 2] \div 16 ELSE bytes[p \div 2] % 16

\* Behind k characters, these are in the halves behind the padding, and the others
\* are zero.
Aligned(bytes, str, size, behind, k) ==
    LET pad == 2 * size - Len(str)
    IN  \A p \in 1 .. 2 * size :
            Half(bytes, p) = IF p > pad /\ p <= pad + k THEN Atoi(str[p - pad], behind) ELSE 0

\* One character more, if it counts for a digit, goes to the next half.
LEMMA AlignedStep ==
    ASSUME NEW str, NEW n \in Nat, Len(str) = n, NEW size \in Nat, n <= 2 * size,
           NEW behind, ~IsDigit(behind), NEW k \in Nat, k + 1 <= n,
           NEW bytes \in [1 .. size -> Nat], Aligned(bytes, str, size, behind, k)
    PROVE  Aligned(OrOne(bytes, DigitOf(str, size, behind, k + 1)), str, size, behind, k + 1)
<1> DEFINE pad == 2 * size - n
           e == pad + k + 1
           v == Atoi(str[k + 1], behind)
           b == (e + 1) \div 2
           d == DigitOf(str, size, behind, k + 1)
           new == OrOne(bytes, d)
<1>1. /\ pad \in Nat /\ e \in 1 .. 2 * size /\ e > pad /\ e - pad = k + 1
      /\ b \in 1 .. size
  OBVIOUS
<1>2. v \in 0 .. 9
  BY AtoiDigit
<1>3. d.index + 1 = b
  <2>1. d.index = (pad + k) \div 2
    <3>1. 2 * size - Len(str) + (k + 1) - 1 = pad + k
      OBVIOUS
    <3> QED BY <3>1 DEF DigitOf
  <2>2. (pad + k) \div 2 + 1 = b
    BY <1>1
  <2> QED BY <2>1, <2>2
<1>4. d.value = v * (IF e % 2 = 1 THEN 16 ELSE 1)
  <2>1. 2 * size - Len(str) + (k + 1) = e
    OBVIOUS
  <2> QED BY <2>1 DEF DigitOf
<1>5. \A p \in 1 .. 2 * size :
          Half(bytes, p) = IF p > pad /\ p <= pad + k THEN Atoi(str[p - pad], behind) ELSE 0
  BY DEF Aligned
<1> HIDE DEF d
<1>6. new = [j \in 1 .. size |-> IF j = b THEN OrByte(bytes[b], d.value) ELSE bytes[j]]
  BY <1>3 DEF OrOne
<1>7. Half(bytes, e) = 0
  BY <1>1, <1>5
<1> HIDE DEF v, new, b
<1>8. ASSUME NEW p \in 1 .. 2 * size, p # e, (p + 1) \div 2 # b
      PROVE  Half(new, p) = Half(bytes, p)
  <2>1. (p + 1) \div 2 \in 1 .. size /\ (p % 2 # 1 => p \div 2 = (p + 1) \div 2)
    OBVIOUS
  <2>2. new[(p + 1) \div 2] = bytes[(p + 1) \div 2]
    BY <1>6, <1>8, <2>1
  <2> QED BY <2>1, <2>2 DEF Half
<1>9. CASE e % 2 = 1
  <2>1. e + 1 \in 1 .. 2 * size /\ (e + 1) % 2 # 1 /\ (e + 1) \div 2 = b
    BY <1>1, <1>9 DEF b
  <2>2. Half(bytes, e + 1) = 0
    BY <1>1, <1>5, <2>1
  <2>3. bytes[b] = 0
    <3>1. bytes[b] \in Nat
      BY <1>1
    <3>2. bytes[b] \div 16 = 0 /\ bytes[b] % 16 = 0
      BY <1>7, <1>9, <2>1, <2>2 DEF Half
    <3> HIDE DEF e
    <3> QED BY <3>1, <3>2
  <2>4. new[b] = 16 * v
    <3>1. d.value = 16 * v /\ v \in 0 .. 15 /\ 0 \in 0 .. 15
      BY <1>2, <1>4, <1>9
    <3>2. OrByte(0, 16 * v) = 16 * v
      BY <3>1, OrHalf
    <3> QED BY <1>1, <1>6, <2>3, <3>1, <3>2
  <2>5. Half(new, e) = v /\ Half(new, e + 1) = 0
    <3>1. (16 * v) \div 16 = v /\ (16 * v) % 16 = 0
      BY <1>2
    <3> QED BY <1>9, <2>1, <2>4, <3>1 DEF Half
  <2>6. ASSUME NEW p \in 1 .. 2 * size
        PROVE  Half(new, p) = IF p > pad /\ p <= pad + (k + 1)
                              THEN Atoi(str[p - pad], behind) ELSE 0
    <3>1. CASE p = e
      BY <3>1, <1>1, <2>5 DEF v
    <3>2. CASE p = e + 1
      BY <3>2, <1>1, <2>5
    <3>3. CASE p # e /\ p # e + 1
      <4>1. (p + 1) \div 2 # b
        BY <3>3, <1>1, <1>9 DEF b
      <4>2. Half(new, p) = Half(bytes, p)
        BY <3>3, <4>1, <1>8
      <4>3. p > pad /\ p <= pad + (k + 1) <=> p > pad /\ p <= pad + k
        BY <3>3
      <4> QED BY <4>2, <4>3, <1>5
    <3> QED BY <3>1, <3>2, <3>3
  <2> QED BY <2>6 DEF Aligned, new, d
<1>10. CASE e % 2 = 0
  <2>1. e \div 2 = b /\ e - 1 \in 1 .. 2 * size /\ (e - 1) % 2 = 1 /\ e % 2 # 1
        /\ ((e - 1) + 1) \div 2 = b
    BY <1>1, <1>10 DEF b
  <2> DEFINE h == Half(bytes, e - 1)
  <2>2. h \in 0 .. 15
    <3>1. h = IF e - 1 > pad /\ e - 1 <= pad + k THEN Atoi(str[e - 1 - pad], behind) ELSE 0
      BY <1>5, <2>1
    <3> HIDE DEF h
    <3>2. Atoi(str[e - 1 - pad], behind) \in 0 .. 9
      BY AtoiDigit
    <3> QED BY <3>1, <3>2
  <2>3. bytes[b] = 16 * h
    <3>1. bytes[b] \in Nat
      BY <1>1
    <3>2. bytes[b] \div 16 = h /\ bytes[b] % 16 = 0
      BY <1>7, <2>1 DEF Half
    <3> HIDE DEF e, h
    <3> QED BY <3>1, <3>2
  <2> HIDE DEF h
  <2>4. new[b] = 16 * h + v
    <3>1. d.value = v /\ v \in 0 .. 15
      BY <1>2, <1>4, <2>1
    <3>2. OrByte(16 * h, v) = 16 * h + v
      BY <2>2, <3>1, OrHalf
    <3> QED BY <1>1, <1>6, <2>3, <3>1, <3>2
  <2>5. Half(new, e) = v /\ Half(new, e - 1) = h
    <3>1. (16 * h + v) \div 16 = h /\ (16 * h + v) % 16 = v
      BY <1>2, <2>2
    <3> QED BY <2>1, <2>4, <3>1 DEF Half
  <2>6. ASSUME NEW p \in 1 .. 2 * size
        PROVE  Half(new, p) = IF p > pad /\ p <= pad + (k + 1)
                              THEN Atoi(str[p - pad], behind) ELSE 0
    <3>1. CASE p = e
      BY <3>1, <1>1, <2>5 DEF v
    <3>2. CASE p # e
      <4>1. ASSUME p = e - 1 PROVE Half(new, p) = Half(bytes, p)
        BY <4>1, <2>5 DEF h
      <4>2. ASSUME p # e - 1 PROVE Half(new, p) = Half(bytes, p)
        <5>1. (p + 1) \div 2 # b
          BY <3>2, <4>2, <1>1, <1>10 DEF b
        <5> HIDE DEF e
        <5> QED BY <3>2, <5>1, <1>8
      <4>3. Half(new, p) = Half(bytes, p)
        BY <4>1, <4>2
      <4>4. p > pad /\ p <= pad + (k + 1) <=> p > pad /\ p <= pad + k
        BY <3>2
      <4> QED BY <4>3, <4>4, <1>5
    <3> QED BY <3>1, <3>2
  <2> QED BY <2>6 DEF Aligned, new, d
<1> QED BY <1>1, <1>9, <1>10

\* Without a digit behind the variable in memory, every digit is at its place.
LEMMA DigitsAligned ==
    ASSUME NEW C, NEW str \in Seq(C), NEW size \in Nat, Len(str) <= 2 * size,
           NEW behind, ~IsDigit(behind)
    PROVE  Aligned(StringToBcd(str, size, behind), str, size, behind, Len(str))
<1> DEFINE n == Len(str)
           d == [p \in 1 .. n |-> DigitOf(str, size, behind, p)]
<1>1. n \in Nat /\ n \in 0 .. n /\ n <= n /\ DOMAIN d = 1 .. n
  OBVIOUS
<1>2. StringToBcd(str, size, behind) = OrInto(Zeros(size), d)
  BY BcdIs
<1>3. \A k \in 1 .. n : d[k] = DigitOf(str, size, behind, k)
  OBVIOUS
<1> HIDE DEF d, n
<1>4. PICK r : Fills(r, d, n, size) /\ OrInto(Zeros(size), d) = r[n]
  BY <1>1, OrRuns
<1> DEFINE T == {k \in Nat : k <= n => Aligned(r[k], str, size, behind, k)}
<1>5. 0 \in T
  <2>1. r[0] = [k \in 1 .. size |-> 0]
    BY <1>4 DEF Fills, Zeros
  <2>2. ASSUME NEW p \in 1 .. 2 * size PROVE Half(r[0], p) = 0
    <3>1. p % 2 = 1 => (p + 1) \div 2 \in 1 .. size
      OBVIOUS
    <3>2. p % 2 # 1 => p \div 2 \in 1 .. size
      OBVIOUS
    <3>3. 0 \div 16 = 0 /\ 0 % 16 = 0
      OBVIOUS
    <3> QED BY <2>1, <3>1, <3>2, <3>3 DEF Half
  <2>3. \A p \in 1 .. 2 * size : ~(p > 2 * size - n /\ p <= 2 * size - n + 0)
    BY <1>1
  <2>4. Aligned(r[0], str, size, behind, 0)
    BY <2>2, <2>3 DEF Aligned, n
  <2> QED BY <2>4
<1>6. ASSUME NEW k \in T PROVE k + 1 \in T
  <2>1. k \in Nat
    OBVIOUS
  <2> SUFFICES ASSUME k + 1 <= n PROVE Aligned(r[k + 1], str, size, behind, k + 1)
    BY <2>1
  <2>2. Aligned(r[k], str, size, behind, k)
    BY <1>1, <2>1
  <2> HIDE DEF T
  <2>3. k \in 0 .. n /\ k + 1 \in 1 .. n /\ (k + 1) - 1 = k
    BY <1>1, <2>1
  <2>4. r[k] \in [1 .. size -> Nat] /\ r[k + 1] = OrOne(r[k], DigitOf(str, size, behind, k + 1))
    BY <1>3, <1>4, <2>3 DEF Fills
  <2>5. Aligned(OrOne(r[k], DigitOf(str, size, behind, k + 1)), str, size, behind, k + 1)
    BY <1>1, <2>1, <2>2, <2>4, AlignedStep DEF n
  <2> QED BY <2>4, <2>5
<1>7. T = Nat
  <2>1. T \in SUBSET Nat
    OBVIOUS
  <2> HIDE DEF T
  <2> QED BY <1>5, <1>6, <2>1, Induct
<1>8. Aligned(r[n], str, size, behind, n)
  <2>1. n \in T
    <3> HIDE DEF T
    <3> QED BY <1>1, <1>7
  <2> QED BY <1>1, <2>1
<1> QED BY <1>2, <1>4, <1>8 DEF n

\* With one, no byte in front of the digits is touched.
LEMMA PaddingUntouched ==
    ASSUME NEW C, NEW str \in Seq(C), NEW size \in Nat, Len(str) <= 2 * size, NEW behind,
           NEW j \in 1 .. (2 * size - Len(str)) \div 2
    PROVE  StringToBcd(str, size, behind)[j] = 0
<1> DEFINE n == Len(str)
           d == [p \in 1 .. n |-> DigitOf(str, size, behind, p)]
<1>1. n \in Nat /\ n \in 0 .. n /\ n <= n /\ DOMAIN d = 1 .. n /\ j \in 1 .. size
  OBVIOUS
<1>2. StringToBcd(str, size, behind) = OrInto(Zeros(size), d)
  BY BcdIs
<1>3. ASSUME NEW k \in 1 .. n PROVE d[k].index + 1 # j
  <2>1. d[k].index = (2 * size - n + k - 1) \div 2
    BY DEF DigitOf
  <2>2. (2 * size - n + k - 1) \div 2 >= (2 * size - n) \div 2
    OBVIOUS
  <2>3. (2 * size - n) \div 2 \in Int /\ (2 * size - n + k - 1) \div 2 \in Int
    OBVIOUS
  <2> HIDE DEF d
  <2> QED BY <2>1, <2>2, <2>3
<1> HIDE DEF d, n
<1>4. PICK r : Fills(r, d, n, size) /\ OrInto(Zeros(size), d) = r[n]
  BY <1>1, OrRuns
<1> DEFINE T == {k \in Nat : k <= n => r[k][j] = 0}
<1>5. 0 \in T
  BY <1>1, <1>4 DEF Fills, Zeros
<1>6. ASSUME NEW k \in T PROVE k + 1 \in T
  <2>1. k \in Nat
    OBVIOUS
  <2> SUFFICES ASSUME k + 1 <= n PROVE r[k + 1][j] = 0
    BY <2>1
  <2>2. r[k][j] = 0
    BY <1>1, <2>1
  <2> HIDE DEF T
  <2>3. k \in 0 .. n /\ k + 1 \in 1 .. n /\ (k + 1) - 1 = k
    BY <1>1, <2>1
  <2>4. r[k] \in [1 .. size -> Nat] /\ r[k + 1] = OrOne(r[k], d[k + 1])
    BY <1>4, <2>3 DEF Fills
  <2> QED BY <1>1, <1>3, <2>2, <2>3, <2>4 DEF OrOne
<1>7. T = Nat
  <2>1. T \in SUBSET Nat
    OBVIOUS
  <2> HIDE DEF T
  <2> QED BY <1>5, <1>6, <2>1, Induct
<1>8. r[n][j] = 0
  <2>1. n \in T
    <3> HIDE DEF T
    <3> QED BY <1>1, <1>7
  <2> QED BY <1>1, <2>1
<1> QED BY <1>2, <1>4, <1>8

\* string_to_bcd puts the digits of a text of any length at the right of a buffer of
\* any size, if no digit is behind the variable that atoi reads; if there is one, it
\* still touches no byte in front of them, and a text too long leaves zeros
\* (converter.c 144-171).
THEOREM DigitsAtTheRight == Spec => []BcdIsRightAligned
<1>1. InputOK => BcdIsRightAligned
  <2> SUFFICES ASSUME InputOK, job = "bcd", NEW size \in Sizes, NEW behind \in Behind
               PROVE  LET bcd == StringToBcd(input, size, behind)
                          pad == 2 * size - Len(input)
                      IN  \A p \in 1 .. 2 * size :
                             ~IsDigit(behind) \/ pad < 0 \/ p <= 2 * (pad \div 2) =>
                                (IF p % 2 = 1 THEN bcd[(p + 1) \div 2] \div 16
                                 ELSE bcd[p \div 2] % 16)
                                 = IF pad >= 0 /\ p > pad THEN Atoi(input[p - pad], behind) ELSE 0
    BY DEF BcdIsRightAligned
  <2> DEFINE bcd == StringToBcd(input, size, behind)
             n == Len(input)
             pad == 2 * size - n
  <2>1. input \in Seq(DecChars) /\ size \in Nat /\ n \in Nat
    BY ConverterAssumption DEF InputOK, ConverterAssumption
  <2> HIDE DEF bcd, n
  <2>2. SUFFICES ASSUME NEW p \in 1 .. 2 * size,
                        ~IsDigit(behind) \/ pad < 0 \/ p <= 2 * (pad \div 2)
                 PROVE  Half(bcd, p)
                          = IF pad >= 0 /\ p > pad THEN Atoi(input[p - pad], behind) ELSE 0
    BY DEF Half, bcd, n
  <2>3. /\ p % 2 = 1 => (p + 1) \div 2 \in 1 .. size
        /\ p % 2 # 1 => p \div 2 \in 1 .. size
    BY <2>1
  <2>4. 0 \div 16 = 0 /\ 0 % 16 = 0
    OBVIOUS
  <2>5. CASE pad < 0
    <3>1. n > 2 * size
      BY <2>1, <2>5
    <3>2. bcd = Zeros(size)
      BY <3>1, Zenon DEF bcd, StringToBcd, n
    <3>3. Half(bcd, p) = 0
      BY <2>3, <2>4, <3>2 DEF Half, Zeros
    <3> QED BY <2>1, <2>5, <3>3
  <2>6. CASE pad >= 0 /\ ~IsDigit(behind)
    <3>1. n <= 2 * size
      BY <2>1, <2>6
    <3>2. Aligned(bcd, input, size, behind, n)
      BY <2>1, <2>6, <3>1, DigitsAligned DEF bcd, n
    <3>3. Half(bcd, p) = IF p > pad /\ p <= pad + n THEN Atoi(input[p - pad], behind) ELSE 0
      BY <3>2 DEF Aligned, n
    <3>4. p <= pad + n
      BY <2>1
    <3> QED BY <2>6, <3>3, <3>4
  <2>7. CASE pad >= 0 /\ p <= 2 * (pad \div 2)
    <3>1. n <= 2 * size /\ ~(p > pad)
      BY <2>1, <2>7
    <3>2. /\ p % 2 = 1 => (p + 1) \div 2 \in 1 .. pad \div 2
          /\ p % 2 # 1 => p \div 2 \in 1 .. pad \div 2
      BY <2>1, <2>7
    <3>3. \A j \in 1 .. pad \div 2 : bcd[j] = 0
      BY <2>1, <3>1, PaddingUntouched DEF bcd, n
    <3>4. Half(bcd, p) = 0
      BY <2>4, <3>2, <3>3 DEF Half
    <3> QED BY <3>1, <3>4
  <2> QED BY <2>1, <2>2, <2>5, <2>6, <2>7
<1> QED BY <1>1, InputTyped, PTL

=============================================================================
