-------------------------------- MODULE Calendar --------------------------------
(***************************************************************************)
(* The time of a message as six BCD bytes, year to second, and the         *)
(* milliseconds in UTC that util/converter.c makes of it.  A behaviour     *)
(* counts the days of the century that two digits of a year can name.  The *)
(* milliseconds are kept as whole days and the seconds of the rest.        *)
(***************************************************************************)
EXTENDS Integers

CONSTANTS
    LastYear,        \* bound: the year, two digits, in which the calendar ends
    Times            \* times of the day, hour, minute and second

ASSUME CalendarAssumption ==
    /\ LastYear \in 0 .. 99
    /\ Times \subseteq (0 .. 23) \X (0 .. 59) \X (0 .. 59)

VARIABLES
    date,            \* the day: year, two digits, month and day
    day              \* its number, counted from 1970-01-01

calendarVars == <<date, day>>

-----------------------------------------------------------------------------
(* The conversion                                                          *)

ToBcd(n) == 16 * (n \div 10) + (n % 10)
FromBcd(b) == (b \div 16) * 10 + (b % 16)

\* Mutant of DaysSinceEpoch: a year begins in January.
DaysFromJanuary(year, month, d) ==
    LET yoe == year % 400
        doy == (153 * (month + (IF month > 2 THEN -3 ELSE 9)) + 2) \div 5 + d - 1
    IN  (year \div 400) * 146097 + yoe * 365 + yoe \div 4 - yoe \div 100 + doy - 719468

\* Days from 1970-01-01; a year is counted from March, so that a leap day is its
\* last one.
DaysSinceEpoch(year, month, d) ==
    LET y   == IF month <= 2 THEN year - 1 ELSE year
        yoe == y % 400
        doy == (153 * (month + (IF month > 2 THEN -3 ELSE 9)) + 2) \div 5 + d - 1
    IN  (y \div 400) * 146097 + yoe * 365 + yoe \div 4 - yoe \div 100 + doy - 719468

\* bcd_time_to_utc_milliseconds of six bytes: whole days, and the seconds of the
\* rest; Beijing is 8 hours ahead.
BcdTimeToUtc(bcd) ==
    LET days == DaysSinceEpoch(2000 + FromBcd(bcd[1]), FromBcd(bcd[2]), FromBcd(bcd[3]))
        secs == FromBcd(bcd[4]) * 3600 + FromBcd(bcd[5]) * 60 + FromBcd(bcd[6]) - 8 * 3600
    IN  <<days + secs \div 86400, secs % 86400>>

-----------------------------------------------------------------------------
(* The calendar: every fourth year of 2000 .. 2099 is a leap year          *)

CalendarInit ==
    /\ date = <<0, 1, 1>>
    /\ day = 10957

MonthLength(year, month) ==
    CASE month \in {4, 6, 9, 11} -> 30
      [] month = 2 -> IF year % 4 = 0 THEN 29 ELSE 28
      [] OTHER -> 31

Tomorrow ==
    /\ date # <<LastYear, 12, 31>>
    /\ date' = CASE date[3] < MonthLength(date[1], date[2]) -> <<date[1], date[2], date[3] + 1>>
                 [] date[3] = MonthLength(date[1], date[2]) /\ date[2] < 12 ->
                        <<date[1], date[2] + 1, 1>>
                 [] OTHER -> <<date[1] + 1, 1, 1>>
    /\ day' = day + 1

CalendarSpec == CalendarInit /\ [][Tomorrow]_calendarVars

-----------------------------------------------------------------------------

\* Every second of the sampled ones, on every day that two digits of a year can
\* name, is converted to its number in UTC, over leap years, ends of years and the
\* 8 hours that move it to the day before (converter.c 173-214).
TimeMatchesCalendar ==
    \A t \in Times :
        LET secs == t[1] * 3600 + t[2] * 60 + t[3]
        IN  BcdTimeToUtc([i \in 1 .. 6 |-> ToBcd(IF i <= 3 THEN date[i] ELSE t[i - 3])])
                = IF t[1] >= 8 THEN <<day, secs - 28800>> ELSE <<day - 1, secs + 57600>>

=============================================================================
