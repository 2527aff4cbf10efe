------------------------------ MODULE Calendar ------------------------------
(* Dates as JavaScript's Date keeps them in UTC, and what the datepicker   *)
(* does with them: bootstrap-datepicker.js, moveMonth, parseDate and       *)
(* formatDate.  A date is the number of days since 1 January of year 0, a  *)
(* month is a number from 0 to 11.  A text is either numbers between       *)
(* punctuation or relative moves such as +1d and -2m.                      *)
EXTENDS Integers, Sequences

None == 0       \* no date

isLeapYear(year) == (year % 4 = 0 /\ year % 100 # 0) \/ year % 400 = 0

getDaysInMonth(year, month) ==
    IF month = 1 THEN IF isLeapYear(year) THEN 29 ELSE 28
    ELSE IF month \in {3, 5, 8, 10} THEN 30 ELSE 31

(* The first days of a year and of month k, counted from year 0.           *)
NewYear(y) == 365 * y + (y + 3) \div 4 - (y + 99) \div 100 + (y + 399) \div 400

DaysBefore == <<0, 31, 59, 90, 120, 151, 181, 212, 243, 273, 304, 334>>

MonthStart(k) ==
    NewYear(k \div 12) + DaysBefore[(k % 12) + 1]
      + (IF k % 12 > 1 /\ isLeapYear(k \div 12) THEN 1 ELSE 0)

(* The year and the month of day n, by an estimate that is at most one     *)
(* off: 146097 days are 400 years.                                         *)
YearNear(y, n) ==
    IF n < NewYear(y) THEN y - 1 ELSE IF n < NewYear(y + 1) THEN y ELSE y + 1

YearOf(n) == YearNear((400 * n) \div 146097, n)

MonthNear(k, n) == IF n < MonthStart(k + 1) THEN k ELSE k + 1

MonthOf(n) == MonthNear(12 * YearOf(n) + (n - NewYear(YearOf(n))) \div 31, n)

(* Date.UTC: months and days out of range run over into years and months.  *)
UTCDate(year, month, day) == MonthStart(12 * year + month) + day - 1

Year(n) == MonthOf(n) \div 12
Month(n) == MonthOf(n) % 12
Day(n) == n - MonthStart(MonthOf(n)) + 1
Weekday(n) == (n + 6) % 7

SetDay(n, day) == UTCDate(Year(n), Month(n), day)
SetMonth(n, month) == UTCDate(Year(n), month, Day(n))
SetYear(n, year) == UTCDate(year, Month(n), Day(n))

------------------------------------------------------------------------------
(* moveMonth.  A day that the month has not runs over into the next one,   *)
(* and the loop steps back from day until the date is no longer in a bad   *)
(* month.                                                                  *)
FirstNotIn(bad, turns) ==
    turns[CHOOSE j \in DOMAIN turns : /\ Month(turns[j]) \notin bad
                                      /\ \A i \in 0 .. j - 1 : Month(turns[i]) \in bad]

Settled(n, day, month, bad) ==
    LET after[j \in 0 .. day - 1] ==
            IF j = 0 THEN n ELSE SetMonth(SetDay(after[j - 1], day - j), month)
    IN FirstNotIn(bad, after)

MoveOneUnsettled(n, dir) == SetMonth(n, Month(n) + dir)

MoveOne(n, dir) ==
    LET month == Month(n)
        target == (month + dir) % 12
    IN Settled(SetMonth(n, month + dir), Day(n), target,
               IF dir = -1 THEN {month} ELSE (0 .. 11) \ {target})

SettledOn(n, day) == Settled(SetDay(n, day), day, Month(n), (0 .. 11) \ {Month(n)})

MoveMonths(n, dir, mag) ==
    LET after[i \in 0 .. mag] == IF i = 0 THEN n ELSE MoveOne(after[i - 1], dir)
    IN after[mag]

(* The loop over the months is cut into years, and a year begins with a    *)
(* date that is known (the set of one date), for TLC's stack: 120 months   *)
(* in one recursion are too deep for it.                                   *)
MoveTwelve(n, dir) == CHOOSE moved \in {MoveMonths(date, dir, 12) : date \in {n}} : TRUE

MoveMany(n, dir, mag) ==
    LET year[i \in 0 .. mag \div 12] == IF i = 0 THEN n ELSE MoveTwelve(year[i - 1], dir)
    IN SettledOn(MoveMonths(year[mag \div 12], dir, mag % 12), Day(n))

moveMonth(n, dir) ==
    LET way == IF dir < 0 THEN -1 ELSE 1
        mag == IF dir < 0 THEN -dir ELSE dir
    IN IF n = None \/ mag = 0 THEN n
       ELSE IF mag = 1 THEN MoveOne(n, way) ELSE MoveMany(n, way, mag)

moveYear(n, dir) == moveMonth(n, 12 * dir)

------------------------------------------------------------------------------
(* parseDate of a text that is not empty: moves start from today; three    *)
(* numbers are month, day and year, which are set from the year down; any  *)
(* other count of numbers gives today.                                     *)
Moved(n, moves) ==
    LET after[i \in 0 .. Len(moves)] ==
            IF i = 0 THEN n
            ELSE LET dir == moves[i][1]
                     unit == moves[i][2]
                 IN CASE unit = "d" -> after[i - 1] + dir
                      [] unit = "w" -> after[i - 1] + 7 * dir
                      [] unit = "m" -> moveMonth(after[i - 1], dir)
                      [] unit = "y" -> moveYear(after[i - 1], dir)
    IN after[Len(moves)]

BackInto(n, month) ==
    n - CHOOSE j \in 0 .. 366 :
           Month(n - j) = month /\ \A i \in 0 .. j - 1 : Month(n - i) # month

PutMonth(n, v) == BackInto(SetMonth(n, (v - 1) % 12), (v - 1) % 12)

parseDate(text, today) ==
    IF text.moves # <<>> THEN Moved(today, text.moves)
    ELSE IF Len(text.numbers) # 3 THEN today
    ELSE SetDay(PutMonth(SetYear(today, text.numbers[3]), text.numbers[1]), text.numbers[2])

Text(numbers, moves) == [numbers |-> numbers, moves |-> moves]
Blank == Text(<<>>, <<>>)

(* mm/dd/yyyy, the format that api.js makes the default.                   *)
formatDate(n) == Text(<<Month(n) + 1, Day(n), Year(n)>>, <<>>)
=============================================================================
