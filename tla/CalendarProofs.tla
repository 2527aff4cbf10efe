---------------------------- MODULE CalendarProofs ----------------------------
(* The calendar's arithmetic for every date: NewYear and MonthOf are       *)
(* inverse to each other, moveMonth moves by any number of months, and     *)
(* parseDate reads what formatDate writes.  No induction theorem of the    *)
(* library is cited: a loop is followed by the least turn where it would   *)
(* go wrong.                                                               *)
EXTENDS Calendar, WellFoundedInduction, TLAPS

LEMMA LeastElement ==
    ASSUME NEW T \in SUBSET Nat, T # {}
    PROVE  \E m \in T : \A n \in T : m =< n
<1>1. PICK m \in T : \A n \in T : <<n, m>> \notin OpToRel(<, Nat)
  BY NatLessThanWellFounded, WFMin
<1>2. \A n \in T : ~(n < m)
  BY <1>1 DEF OpToRel
<1> QED
  BY <1>2

(* Years. *)
LEMMA NewYearNext ==
    ASSUME NEW y \in Int
    PROVE  NewYear(y) \in Int
           /\ NewYear(y + 1) = NewYear(y) + (IF isLeapYear(y) THEN 366 ELSE 365)
BY DEF NewYear, isLeapYear

LEMMA NewYearBounds ==
    ASSUME NEW y \in Int
    PROVE  /\ 146097 * y - 800 =< 400 * NewYear(y) 
           /\ 400 * NewYear(y) =< 146097 * y + 800
BY SMTT(30) DEF NewYear

LEMMA YearOfDay ==
    ASSUME NEW n \in Int
    PROVE  YearOf(n) \in Int /\ NewYear(YearOf(n)) =< n /\ n < NewYear(YearOf(n) + 1)
<1> DEFINE about == (400 * n) \div 146097
<1>1. about \in Int /\ 146097 * about =< 400 * n /\ 400 * n < 146097 * (about + 1)
  BY SMT
<1> HIDE DEF about
<1>2. /\ 146097 * (about - 1) - 800 =< 400 * NewYear(about - 1) 
      /\ 400 * NewYear(about - 1) =< 146097 * (about - 1) + 800
  BY <1>1, NewYearBounds
<1>3. /\ 146097 * (about + 2) - 800 =< 400 * NewYear(about + 2) 
      /\ 400 * NewYear(about + 2) =< 146097 * (about + 2) + 800
  BY <1>1, NewYearBounds
<1>4. \A y \in {about - 1, about, about + 1, about + 2} : NewYear(y) \in Int
  BY <1>1, NewYearNext
<1>5. NewYear(about - 1) =< n /\ n < NewYear(about + 2)
  BY <1>1, <1>2, <1>3, <1>4
<1>6. YearOf(n) = IF n < NewYear(about) THEN about - 1
                  ELSE IF n < NewYear(about + 1) THEN about ELSE about + 1
  BY DEF YearOf, YearNear, about
<1>7. (about - 1) + 1 = about /\ (about + 1) + 1 = about + 2
  BY <1>1
<1> QED
  BY <1>1, <1>4, <1>5, <1>6, <1>7

(* A month by its number. *)
DaysIn(k) == getDaysInMonth(k \div 12, k % 12)

LEMMA DaysInMonth ==
    ASSUME NEW k \in Int
    PROVE  DaysIn(k) \in 28 .. 31
BY DEF DaysIn, getDaysInMonth

LEMMA YearAndMonth ==
    ASSUME NEW k \in Int, NEW y \in Int, NEW m \in 0 .. 11, k = 12 * y + m
    PROVE  k \div 12 = y /\ k % 12 = m
OBVIOUS

LEMMA MonthNumber ==
    ASSUME NEW k \in Int
    PROVE  k \div 12 \in Int /\ k % 12 \in 0 .. 11 /\ k = 12 * (k \div 12) + (k % 12)
OBVIOUS

LEMMA MonthStartNext ==
    ASSUME NEW k \in Int
    PROVE  MonthStart(k) \in Int /\ MonthStart(k + 1) = MonthStart(k) + DaysIn(k)
<1> DEFINE y == k \div 12
           m == k % 12
           leap == IF isLeapYear(y) THEN 1 ELSE 0
<1>1. y \in Int /\ m \in 0 .. 11 /\ k = 12 * y + m
  BY MonthNumber
<1>2. /\ DaysBefore[1] = 0 /\ DaysBefore[2] = 31 /\ DaysBefore[3] = 59 /\ DaysBefore[4] = 90
      /\ DaysBefore[5] = 120 /\ DaysBefore[6] = 151 /\ DaysBefore[7] = 181 /\ DaysBefore[8] = 212
      /\ DaysBefore[9] = 243 /\ DaysBefore[10] = 273 /\ DaysBefore[11] = 304 /\ DaysBefore[12] = 334
  BY DEF DaysBefore
<1>3. NewYear(y) \in Int /\ leap \in 0 .. 1 /\ NewYear(y + 1) = NewYear(y) + 365 + leap
  BY <1>1, NewYearNext
<1>4. MonthStart(k) = NewYear(y) + DaysBefore[m + 1] + (IF m > 1 THEN leap ELSE 0)
  BY <1>1 DEF MonthStart
<1>5. DaysIn(k) = IF m = 1 THEN 28 + leap ELSE IF m \in {3, 5, 8, 10} THEN 30 ELSE 31
  BY <1>1 DEF DaysIn, getDaysInMonth
<1>6. CASE m < 11
  <2>1. (k + 1) \div 12 = y /\ (k + 1) % 12 = m + 1
    BY <1>1, <1>6
  <2>2. MonthStart(k + 1) = NewYear(y) + DaysBefore[(m + 1) + 1] + (IF m + 1 > 1 THEN leap ELSE 0)
    BY <1>1, <2>1 DEF MonthStart
  <2> HIDE DEF y, m, leap
  <2>3. \/ m = 0 \/ m = 1 \/ m = 2 \/ m = 3 \/ m = 4 \/ m = 5
        \/ m = 6 \/ m = 7 \/ m = 8 \/ m = 9 \/ m = 10
    BY <1>1, <1>6
  <2> QED
    BY <1>2, <1>3, <1>4, <1>5, <2>2, <2>3
<1>7. CASE m = 11
  <2>1. (k + 1) \div 12 = y + 1 /\ (k + 1) % 12 = 0
    BY <1>1, <1>7
  <2>2. MonthStart(k + 1) = NewYear(y + 1) + DaysBefore[0 + 1] + 0
    BY <1>1, <2>1 DEF MonthStart
  <2> HIDE DEF y, m, leap
  <2> QED
    BY <1>2, <1>3, <1>4, <1>5, <1>7, <2>2
<1> QED
  BY <1>1, <1>6, <1>7

(* Months do not overlap. *)
LEMMA MonthBounds ==
    ASSUME NEW k \in Int
    PROVE  /\ NewYear(k \div 12) =< MonthStart(k)
           /\ MonthStart(k) + 28 =< NewYear((k \div 12) + 1)
<1> DEFINE y == k \div 12
           m == k % 12
           leap == IF isLeapYear(y) THEN 1 ELSE 0
<1>1. y \in Int /\ m \in 0 .. 11 /\ k = 12 * y + m
  BY MonthNumber
<1>2. /\ DaysBefore[1] = 0 /\ DaysBefore[2] = 31 /\ DaysBefore[3] = 59 /\ DaysBefore[4] = 90
      /\ DaysBefore[5] = 120 /\ DaysBefore[6] = 151 /\ DaysBefore[7] = 181 /\ DaysBefore[8] = 212
      /\ DaysBefore[9] = 243 /\ DaysBefore[10] = 273 /\ DaysBefore[11] = 304 /\ DaysBefore[12] = 334
  BY DEF DaysBefore
<1>3. NewYear(y) \in Int /\ leap \in 0 .. 1 /\ NewYear(y + 1) = NewYear(y) + 365 + leap
  BY <1>1, NewYearNext
<1>4. MonthStart(k) = NewYear(y) + DaysBefore[m + 1] + (IF m > 1 THEN leap ELSE 0)
  BY <1>1 DEF MonthStart
<1> HIDE DEF y, m, leap
<1>5. \/ m = 0 \/ m = 1 \/ m = 2 \/ m = 3 \/ m = 4 \/ m = 5
      \/ m = 6 \/ m = 7 \/ m = 8 \/ m = 9 \/ m = 10 \/ m = 11
  BY <1>1
<1>6. NewYear(y) =< MonthStart(k) /\ MonthStart(k) + 28 =< NewYear(y + 1)
  BY <1>2, <1>3, <1>4, <1>5
<1> QED
  BY <1>6 DEF y

LEMMA NewYearGrows ==
    ASSUME NEW y \in Int, NEW z \in Int, y =< z
    PROVE  NewYear(y) =< NewYear(z)
BY SMTT(30) DEF NewYear

LEMMA MonthsApart ==
    ASSUME NEW k \in Int, NEW l \in Int, k < l
    PROVE  MonthStart(k) + DaysIn(k) =< MonthStart(l)
<1> DEFINE y == k \div 12
           z == l \div 12
<1>1. /\ y \in Int /\ k % 12 \in 0 .. 11 /\ k = 12 * y + (k % 12)
      /\ z \in Int /\ l % 12 \in 0 .. 11 /\ l = 12 * z + (l % 12)
  BY MonthNumber
<1>2. y =< z
  BY <1>1
<1>3. /\ MonthStart(k) \in Int /\ MonthStart(k + 1) = MonthStart(k) + DaysIn(k)
      /\ MonthStart(l) \in Int
  BY MonthStartNext
<1>4. CASE y < z
  <2>1. MonthStart(k + 1) =< NewYear(y + 1)
    <3>1. CASE k % 12 < 11
      <4>1. (k + 1) \div 12 = y
        BY <1>1, <3>1
      <4>2. k + 1 \in Int
        OBVIOUS
      <4>3. MonthStart(k + 1) + 28 =< NewYear(y + 1) /\ MonthStart(k + 1) \in Int
        BY <4>1, <4>2, MonthBounds, MonthStartNext
      <4> QED
        BY <4>3, <1>1, NewYearNext
    <3>2. CASE k % 12 = 11
      <4>1. (k + 1) \div 12 = y + 1 /\ (k + 1) % 12 = 0
        BY <1>1, <3>2
      <4>2. MonthStart(k + 1) = NewYear(y + 1) + DaysBefore[0 + 1] + 0
        BY <1>1, <4>1 DEF MonthStart
      <4>3. DaysBefore[1] = 0
        BY DEF DaysBefore
      <4> QED
        BY <4>2, <4>3, <1>1, NewYearNext
    <3> QED
      BY <1>1, <3>1, <3>2
  <2>2. NewYear(y + 1) =< NewYear(z)
    BY <1>1, <1>4, NewYearGrows
  <2>3. NewYear(z) =< MonthStart(l)
    BY MonthBounds
  <2>4. NewYear(y + 1) \in Int /\ NewYear(z) \in Int
    BY <1>1, NewYearNext
  <2>5. DaysIn(k) \in Int
    BY DaysInMonth
  <2> HIDE DEF y, z
  <2> QED
    BY <1>3, <2>1, <2>2, <2>3, <2>4, <2>5
<1>5. CASE y = z
  <2> DEFINE leap == IF isLeapYear(y) THEN 1 ELSE 0
             m == k % 12
             i == l % 12
  <2>1. /\ DaysBefore[1] = 0 /\ DaysBefore[2] = 31 /\ DaysBefore[3] = 59 /\ DaysBefore[4] = 90
        /\ DaysBefore[5] = 120 /\ DaysBefore[6] = 151 /\ DaysBefore[7] = 181 /\ DaysBefore[8] = 212
        /\ DaysBefore[9] = 243 /\ DaysBefore[10] = 273 /\ DaysBefore[11] = 304 /\ DaysBefore[12] = 334
    BY DEF DaysBefore
  <2>2. NewYear(y) \in Int /\ leap \in 0 .. 1
    BY <1>1, NewYearNext
  <2>3. MonthStart(k) = NewYear(y) + DaysBefore[m + 1] + (IF m > 1 THEN leap ELSE 0)
    BY <1>1 DEF MonthStart
  <2>4. MonthStart(l) = NewYear(y) + DaysBefore[i + 1] + (IF i > 1 THEN leap ELSE 0)
    BY <1>1, <1>5 DEF MonthStart
  <2>5. DaysIn(k) = IF m = 1 THEN 28 + leap ELSE IF m \in {3, 5, 8, 10} THEN 30 ELSE 31
    BY <1>1 DEF DaysIn, getDaysInMonth
  <2>6. m \in 0 .. 11 /\ i \in 0 .. 11 /\ m < i
    BY <1>1, <1>5
  <2> HIDE DEF m, i, leap, y
  <2>7. \/ m = 0 \/ m = 1 \/ m = 2 \/ m = 3 \/ m = 4 \/ m = 5
        \/ m = 6 \/ m = 7 \/ m = 8 \/ m = 9 \/ m = 10
    BY <2>6
  <2>8. \/ i = 11 \/ i = 1 \/ i = 2 \/ i = 3 \/ i = 4 \/ i = 5
        \/ i = 6 \/ i = 7 \/ i = 8 \/ i = 9 \/ i = 10
    BY <2>6
  <2> QED
    BY <2>1, <2>2, <2>3, <2>4, <2>5, <2>6, <2>7, <2>8
<1> QED
  BY <1>1, <1>2, <1>4, <1>5

LEMMA MonthOfDay ==
    ASSUME NEW n \in Int
    PROVE  /\ MonthOf(n) \in Int
           /\ MonthStart(MonthOf(n)) =< n /\ n < MonthStart(MonthOf(n)) + DaysIn(MonthOf(n))
<1> DEFINE y == YearOf(n)
           d == (n - NewYear(y)) \div 31
           about == 12 * y + d
           leap == IF isLeapYear(y) THEN 1 ELSE 0
<1>1. y \in Int /\ NewYear(y) \in Int /\ NewYear(y) =< n /\ n < NewYear(y) + 365 + leap
  BY YearOfDay, NewYearNext
<1>2. d \in 0 .. 11 /\ NewYear(y) + 31 * d =< n /\ n < NewYear(y) + 31 * d + 31
  <2>1. leap \in 0 .. 1
    OBVIOUS
  <2> DEFINE into == n - NewYear(y)
  <2>2. into \in 0 .. 365
    BY <1>1, <2>1
  <2>3. into \div 31 \in 0 .. 11 /\ 31 * (into \div 31) =< into /\ into < 31 * (into \div 31) + 31
    <3> HIDE DEF into
    <3> QED
      BY <2>2
  <2>4. d = into \div 31
    OBVIOUS
  <2> HIDE DEF d
  <2>5. n = NewYear(y) + into
    BY <1>1
  <2> HIDE DEF y, into
  <2> QED
    BY <1>1, <2>2, <2>3, <2>4, <2>5
<1>3. about \in Int /\ about \div 12 = y /\ about % 12 = d
  <2> HIDE DEF y, d
  <2> QED
    BY <1>1, <1>2
<1>4. MonthOf(n) = IF n < MonthStart(about + 1) THEN about ELSE about + 1
  BY DEF MonthOf, MonthNear
<1>5. /\ DaysBefore[1] = 0 /\ DaysBefore[2] = 31 /\ DaysBefore[3] = 59 /\ DaysBefore[4] = 90
      /\ DaysBefore[5] = 120 /\ DaysBefore[6] = 151 /\ DaysBefore[7] = 181 /\ DaysBefore[8] = 212
      /\ DaysBefore[9] = 243 /\ DaysBefore[10] = 273 /\ DaysBefore[11] = 304 /\ DaysBefore[12] = 334
  BY DEF DaysBefore
<1>6. MonthStart(about) = NewYear(y) + DaysBefore[d + 1] + (IF d > 1 THEN leap ELSE 0)
  BY <1>3 DEF MonthStart
<1> HIDE DEF y, d, about
<1>7. \/ d = 0 \/ d = 1 \/ d = 2 \/ d = 3 \/ d = 4 \/ d = 5
      \/ d = 6 \/ d = 7 \/ d = 8 \/ d = 9 \/ d = 10 \/ d = 11
  BY <1>2
<1>8. MonthStart(about + 1) = MonthStart(about) + DaysIn(about) /\ MonthStart(about) \in Int
      /\ MonthStart((about + 1) + 1) = MonthStart(about + 1) + DaysIn(about + 1)
      /\ MonthStart(about + 1) \in Int
  BY <1>3, MonthStartNext
<1>9. DaysIn(about) = IF d = 1 THEN 28 + leap ELSE IF d \in {3, 5, 8, 10} THEN 30 ELSE 31
  BY <1>3 DEF DaysIn, getDaysInMonth
<1>10. DaysIn(about + 1) \in 28 .. 31
  BY <1>3, DaysInMonth
<1>11. MonthStart(about) =< n
  BY <1>1, <1>2, <1>5, <1>6, <1>7
<1>12. n < MonthStart(about + 1) + 28 /\ (d = 11 => n < MonthStart(about + 1))
  BY <1>1, <1>2, <1>5, <1>6, <1>7, <1>8, <1>9
<1> QED
  BY <1>3, <1>4, <1>8, <1>10, <1>11, <1>12

LEMMA OnlyMonth ==
    ASSUME NEW n \in Int, NEW k \in Int, MonthStart(k) =< n, n < MonthStart(k) + DaysIn(k)
    PROVE  MonthOf(n) = k
<1>1. /\ MonthOf(n) \in Int /\ MonthStart(MonthOf(n)) =< n
      /\ n < MonthStart(MonthOf(n)) + DaysIn(MonthOf(n))
  BY MonthOfDay
<1>2. /\ MonthOf(n) < k => MonthStart(MonthOf(n)) + DaysIn(MonthOf(n)) =< MonthStart(k)
      /\ k < MonthOf(n) => MonthStart(k) + DaysIn(k) =< MonthStart(MonthOf(n))
  BY <1>1, MonthsApart
<1>3. /\ MonthStart(k) \in Int /\ MonthStart(MonthOf(n)) \in Int
      /\ DaysIn(k) \in Int /\ DaysIn(MonthOf(n)) \in Int
  BY <1>1, MonthStartNext, DaysInMonth
<1> QED
  BY <1>1, <1>2, <1>3

------------------------------------------------------------------------------
(* Dates by their parts. *)
LEMMA DateParts ==
    ASSUME NEW n \in Int
    PROVE  /\ MonthOf(n) \in Int /\ Year(n) \in Int /\ Month(n) \in 0 .. 11
           /\ MonthOf(n) = 12 * Year(n) + Month(n)
           /\ MonthStart(MonthOf(n)) \in Int
           /\ Day(n) \in 1 .. DaysIn(MonthOf(n)) /\ Day(n) \in 1 .. 31
           /\ n = MonthStart(MonthOf(n)) + Day(n) - 1
<1>1. /\ MonthOf(n) \in Int
      /\ MonthStart(MonthOf(n)) =< n /\ n < MonthStart(MonthOf(n)) + DaysIn(MonthOf(n))
  BY MonthOfDay
<1>2. MonthStart(MonthOf(n)) \in Int /\ DaysIn(MonthOf(n)) \in 28 .. 31
  BY <1>1, MonthStartNext, DaysInMonth
<1>3. Year(n) \in Int /\ Month(n) \in 0 .. 11 /\ MonthOf(n) = 12 * Year(n) + Month(n)
  BY <1>1, MonthNumber DEF Year, Month
<1>4. Day(n) \in 1 .. DaysIn(MonthOf(n)) /\ n = MonthStart(MonthOf(n)) + Day(n) - 1
  BY <1>1, <1>2 DEF Day
<1> QED
  BY <1>1, <1>2, <1>3, <1>4

LEMMA DateOf ==
    ASSUME NEW k \in Int, NEW d \in 1 .. DaysIn(k), NEW n, n = MonthStart(k) + d - 1
    PROVE  n \in Int /\ MonthOf(n) = k /\ Year(n) = k \div 12 /\ Month(n) = k % 12 /\ Day(n) = d
<1>1. MonthStart(k) \in Int /\ DaysIn(k) \in 28 .. 31
  BY MonthStartNext, DaysInMonth
<1>2. n \in Int /\ MonthStart(k) =< n /\ n < MonthStart(k) + DaysIn(k)
  BY <1>1
<1>3. MonthOf(n) = k
  BY <1>2, OnlyMonth
<1> QED
  BY <1>1, <1>2, <1>3 DEF Year, Month, Day

(* A day the month has not. *)
LEMMA RunsOver ==
    ASSUME NEW k \in Int, NEW d \in DaysIn(k) + 1 .. 31, NEW n, n = MonthStart(k) + d - 1
    PROVE  n \in Int /\ MonthOf(n) = k + 1
<1>1. MonthStart(k) \in Int /\ DaysIn(k) \in 28 .. 31 /\ DaysIn(k + 1) \in 28 .. 31
  BY MonthStartNext, DaysInMonth
<1>2. MonthStart(k + 1) = MonthStart(k) + DaysIn(k)
  BY MonthStartNext
<1>3. d - DaysIn(k) \in 1 .. DaysIn(k + 1) /\ n = MonthStart(k + 1) + (d - DaysIn(k)) - 1
  BY <1>1, <1>2
<1> QED
  BY <1>3, DateOf

(* A month that is short has a long one after it, in the same year. *)
LEMMA ShortMonth ==
    ASSUME NEW k \in Int, DaysIn(k) < 31
    PROVE  DaysIn(k + 1) = 31 /\ (k + 1) \div 12 = k \div 12 /\ (k + 1) % 12 = (k % 12) + 1
<1>1. k \div 12 \in Int /\ k % 12 \in 0 .. 11 /\ k = 12 * (k \div 12) + (k % 12)
  BY MonthNumber
<1>2. k % 12 \in {1, 3, 5, 8, 10}
  BY <1>1 DEF DaysIn, getDaysInMonth
<1>3. (k + 1) \div 12 = k \div 12 /\ (k + 1) % 12 = (k % 12) + 1
  BY <1>1, <1>2
<1> QED
  BY <1>1, <1>2, <1>3 DEF DaysIn, getDaysInMonth

LEMMA SetDayOf ==
    ASSUME NEW n \in Int, NEW d
    PROVE  SetDay(n, d) = MonthStart(MonthOf(n)) + d - 1
BY DateParts DEF SetDay, UTCDate

LEMMA SetMonthOf ==
    ASSUME NEW n \in Int, NEW m
    PROVE  SetMonth(n, m) = MonthStart(12 * Year(n) + m) + Day(n) - 1
BY DEF SetMonth, UTCDate

------------------------------------------------------------------------------
(* The loop of moveMonth. *)
Lands(k, d) == MonthStart(k) + (IF d < DaysIn(k) THEN d ELSE DaysIn(k)) - 1

LEMMA LoopStep ==
    ASSUME NEW k \in Int, NEW d \in 1 .. 30, NEW n, n = MonthStart(k) + d
    PROVE  SetMonth(SetDay(n, d), k % 12) = MonthStart(k) + d - 1
<1>1. k \div 12 \in Int /\ k % 12 \in 0 .. 11 /\ k = 12 * (k \div 12) + (k % 12)
      /\ DaysIn(k) \in 28 .. 31
  BY MonthNumber, DaysInMonth
<1>2. n = MonthStart(k) + (d + 1) - 1 /\ MonthStart(k) \in Int
  BY MonthStartNext
<1>3. CASE d + 1 =< DaysIn(k)
  <2>1. n \in Int /\ MonthOf(n) = k
    <3>1. d + 1 \in 1 .. DaysIn(k)
      BY <1>1, <1>3
    <3> QED
      BY <1>2, <3>1, DateOf
  <2>2. SetDay(n, d) = MonthStart(k) + d - 1
    BY <2>1, SetDayOf
  <2>3. d \in 1 .. DaysIn(k)
    BY <1>1, <1>3
  <2>4. SetDay(n, d) \in Int /\ Year(SetDay(n, d)) = k \div 12 /\ Day(SetDay(n, d)) = d
    BY <2>2, <2>3, DateOf
  <2> QED
    BY <1>1, <2>4, SetMonthOf
<1>4. CASE d + 1 > DaysIn(k)
  <2>1. n \in Int /\ MonthOf(n) = k + 1
    <3>1. d + 1 \in DaysIn(k) + 1 .. 31
      BY <1>1, <1>4
    <3> QED
      BY <1>2, <3>1, RunsOver
  <2>2. DaysIn(k + 1) = 31 /\ (k + 1) \div 12 = k \div 12
    <3>1. DaysIn(k) < 31
      BY <1>1, <1>4
    <3> QED
      BY <3>1, ShortMonth
  <2>3. SetDay(n, d) = MonthStart(k + 1) + d - 1
    BY <2>1, SetDayOf
  <2>4. d \in 1 .. DaysIn(k + 1)
    BY <2>2
  <2>5. SetDay(n, d) \in Int /\ Year(SetDay(n, d)) = k \div 12 /\ Day(SetDay(n, d)) = d
    BY <2>2, <2>3, <2>4, DateOf
  <2> QED
    BY <1>1, <2>5, SetMonthOf
<1> QED
  BY <1>1, <1>3, <1>4

LEMMA SettledLands ==
    ASSUME NEW k \in Int, NEW day \in 1 .. 31, NEW n, n = MonthStart(k) + day - 1,
           NEW bad, k % 12 \notin bad, (k + 1) % 12 \in bad
    PROVE  Settled(n, day, k % 12, bad) = Lands(k, day)
<1> DEFINE month == k % 12
           after[j \in 0 .. day - 1] ==
               IF j = 0 THEN n ELSE SetMonth(SetDay(after[j - 1], day - j), month)
           g == [j \in 0 .. day - 1 |-> MonthStart(k) + (day - j) - 1]
           Stop(j) == Month(after[j]) \notin bad /\ \A i \in 0 .. j - 1 : Month(after[i]) \in bad
           turns == CHOOSE j \in 0 .. day - 1 : Stop(j)
<1>1. Settled(n, day, month, bad) = FirstNotIn(bad, after)
  BY DEF Settled
<1>2. MonthStart(k) \in Int /\ DaysIn(k) \in 28 .. 31
  BY MonthStartNext, DaysInMonth
<1>3. g = [j \in 0 .. day - 1 |-> IF j = 0 THEN n ELSE SetMonth(SetDay(g[j - 1], day - j), month)]
  <2>1. ASSUME NEW j \in 0 .. day - 1, j # 0
        PROVE  g[j] = SetMonth(SetDay(g[j - 1], day - j), month)
    <3>1. j - 1 \in 0 .. day - 1 /\ day - j \in 1 .. 30 /\ day - (j - 1) = (day - j) + 1
      BY <2>1
    <3>2. g[j] = MonthStart(k) + (day - j) - 1 /\ g[j - 1] = MonthStart(k) + (day - j)
      BY <1>2, <3>1
    <3> HIDE DEF g
    <3> QED
      BY <3>1, <3>2, LoopStep
  <2>2. g[0] = n
    BY <1>2
  <2>3. g = [j \in 0 .. day - 1 |-> g[j]]
    OBVIOUS
  <2>4. \A j \in 0 .. day - 1 : g[j] = IF j = 0 THEN n ELSE SetMonth(SetDay(g[j - 1], day - j), month)
    <3> HIDE DEF g
    <3> QED
      BY <2>1, <2>2
  <2> HIDE DEF g
  <2> QED
    BY <2>3, <2>4
<1>4. after = [j \in 0 .. day - 1 |-> IF j = 0 THEN n ELSE SetMonth(SetDay(after[j - 1], day - j), month)]
  <2> HIDE DEF g
  <2> QED
    BY <1>3
<1> HIDE DEF after
<1>5. Settled(n, day, month, bad) = after[turns]
  <2>1. DOMAIN after = 0 .. day - 1
    BY <1>4
  <2> QED
    BY <1>1, <2>1 DEF FirstNotIn
<1> HIDE DEF turns
<1>6. \A j \in 0 .. day - 1 : after[j] = MonthStart(k) + (day - j) - 1
  <2> DEFINE T == {j \in 0 .. day - 1 : after[j] # MonthStart(k) + (day - j) - 1}
  <2>1. CASE T = {}
    BY <2>1
  <2>2. CASE T # {}
    <3>1. T \in SUBSET Nat
      OBVIOUS
    <3>2. PICK j \in T : \A i \in T : j =< i
      <4> HIDE DEF T
      <4> QED
        BY <2>2, <3>1, LeastElement
    <3>3. j \in 0 .. day - 1 /\ after[j] # MonthStart(k) + (day - j) - 1
      OBVIOUS
    <3>4. j # 0
      BY <1>2, <1>4, <3>3
    <3>5. j - 1 \in 0 .. day - 1 /\ j - 1 \notin T /\ day - j \in 1 .. 30
      BY <3>2, <3>3, <3>4
    <3>6. after[j - 1] = MonthStart(k) + (day - (j - 1)) - 1
      BY <3>5
    <3>7. after[j - 1] = MonthStart(k) + (day - j)
      BY <1>2, <3>3, <3>6
    <3>8. after[j] = SetMonth(SetDay(after[j - 1], day - j), month)
      BY <1>4, <3>3, <3>4
    <3> QED
      BY <3>3, <3>5, <3>7, <3>8, LoopStep
  <2> QED
    BY <2>1, <2>2
<1>7. CASE day =< DaysIn(k)
  <2>1. Month(after[0]) = month
    <3>1. day \in 1 .. DaysIn(k) /\ after[0] = MonthStart(k) + day - 1
      BY <1>2, <1>6, <1>7
    <3> QED
      BY <3>1, DateOf
  <2>2. 0 \in 0 .. day - 1 /\ Stop(0)
    BY <2>1
  <2>3. turns \in 0 .. day - 1 /\ Stop(turns)
    BY <2>2 DEF turns
  <2>4. turns = 0
    <3>1. turns > 0 => 0 \in 0 .. turns - 1
      BY <2>3
    <3>2. turns > 0 => Month(after[0]) \in bad
      BY <2>3, <3>1
    <3> QED
      BY <2>1, <2>3, <3>2
  <2> QED
    BY <1>2, <1>5, <1>6, <1>7, <2>4 DEF Lands
<1>8. CASE day > DaysIn(k)
  <2> DEFINE over == day - DaysIn(k)
  <2>1. over \in 1 .. day - 1 /\ after[over] = MonthStart(k) + DaysIn(k) - 1
    BY <1>2, <1>6, <1>8
  <2>2. ASSUME NEW i \in 0 .. over - 1 PROVE Month(after[i]) \in bad
    <3>1. i \in 0 .. day - 1 /\ day - i \in DaysIn(k) + 1 .. 31
      BY <1>2, <1>8
    <3>2. after[i] = MonthStart(k) + (day - i) - 1
      BY <1>6, <3>1
    <3>3. MonthOf(after[i]) = k + 1
      BY <3>1, <3>2, RunsOver
    <3> QED
      BY <3>3 DEF Month
  <2>3. Month(after[over]) = month
    <3>1. DaysIn(k) \in 1 .. DaysIn(k)
      BY <1>2
    <3> QED
      BY <2>1, <3>1, DateOf
  <2> HIDE DEF over
  <2>4. over \in 0 .. day - 1 /\ Stop(over)
    BY <2>1, <2>2, <2>3
  <2>5. turns \in 0 .. day - 1 /\ Stop(turns)
    BY <2>4 DEF turns
  <2>6. turns = over
    <3>1. over < turns => over \in 0 .. turns - 1
      BY <2>4, <2>5
    <3>2. turns < over => turns \in 0 .. over - 1
      BY <2>4, <2>5
    <3> QED
      BY <2>2, <2>3, <2>4, <2>5, <3>1, <3>2
  <2> QED
    BY <1>5, <1>2, <1>8, <2>1, <2>6 DEF Lands
<1> QED
  BY <1>2, <1>7, <1>8

LEMMA LandsIn ==
    ASSUME NEW k \in Int, NEW d \in 1 .. 31
    PROVE  /\ Lands(k, d) \in Int /\ MonthOf(Lands(k, d)) = k
           /\ Day(Lands(k, d)) = IF d < DaysIn(k) THEN d ELSE DaysIn(k)
<1>1. DaysIn(k) \in 28 .. 31
  BY DaysInMonth
<1>2. (IF d < DaysIn(k) THEN d ELSE DaysIn(k)) \in 1 .. DaysIn(k)
  BY <1>1
<1> QED
  BY <1>2, DateOf DEF Lands

LEMMA MoveOneLands ==
    ASSUME NEW n \in Int, NEW dir \in {-1, 1}
    PROVE  MoveOne(n, dir) = Lands(MonthOf(n) + dir, Day(n))
<1> DEFINE k == MonthOf(n) + dir
           month == Month(n)
           target == (month + dir) % 12
           bad == IF dir = -1 THEN {month} ELSE (0 .. 11) \ {target}
<1>1. /\ k \in Int /\ MonthOf(n) = 12 * Year(n) + month /\ Year(n) \in Int /\ month \in 0 .. 11
      /\ Day(n) \in 1 .. 31
  BY DateParts
<1>2. target = k % 12
  <2>1. k = 12 * Year(n) + (month + dir) /\ month + dir \in -1 .. 12
    BY <1>1
  <2> HIDE DEF k, month
  <2> QED
    BY <1>1, <2>1
<1>3. target \notin bad /\ (k + 1) % 12 \in bad
  <2>1. CASE dir = -1
    <3>1. (k + 1) % 12 = month /\ target # month
      BY <1>1, <2>1
    <3> QED
      BY <2>1, <3>1
  <2>2. CASE dir = 1
    <3>1. \A l \in Int : (l + 1) % 12 # l % 12 /\ (l + 1) % 12 \in 0 .. 11
      OBVIOUS
    <3>2. (k + 1) % 12 # target /\ (k + 1) % 12 \in 0 .. 11
      <4> HIDE DEF k, target
      <4> QED
        BY <1>1, <1>2, <3>1
    <3> QED
      BY <2>2, <3>2
  <2> QED
    BY <2>1, <2>2
<1>4. SetMonth(n, month + dir) = MonthStart(k) + Day(n) - 1
  <2>1. 12 * Year(n) + (month + dir) = k
    BY <1>1
  <2> QED
    BY <2>1, SetMonthOf
<1>5. MoveOne(n, dir) = Settled(SetMonth(n, month + dir), Day(n), target, bad)
  BY DEF MoveOne
<1> HIDE DEF k, month, target, bad
<1>6. Settled(SetMonth(n, month + dir), Day(n), k % 12, bad) = Lands(k, Day(n))
  BY <1>1, <1>2, <1>3, <1>4, SettledLands
<1> QED
  BY <1>2, <1>5, <1>6 DEF k

(* A loop of mag steps, each of which moves a date by months: its dates, one *)
(* by one.                                                                  *)
LEMMA LoopExists ==
    ASSUME NEW n \in Int, NEW months \in Int, NEW g \in [Int -> Int],
           \A d \in Int : MonthOf(g[d]) = MonthOf(d) + months
    PROVE  \A m \in Nat : \E f \in [0 .. m -> Int] :
               /\ f[0] = n
               /\ \A i \in 1 .. m : f[i] = g[f[i - 1]]
               /\ \A i \in 0 .. m : MonthOf(f[i]) = MonthOf(n) + months * i
<1> DEFINE Run(m, f) ==
               /\ f[0] = n
               /\ \A i \in 1 .. m : f[i] = g[f[i - 1]]
               /\ \A i \in 0 .. m : MonthOf(f[i]) = MonthOf(n) + months * i
           T == {m \in Nat : ~\E f \in [0 .. m -> Int] : Run(m, f)}
<1>1. MonthOf(n) \in Int
  BY DateParts
<1>2. CASE T = {}
  BY <1>2
<1>3. CASE T # {}
  <2>1. PICK m \in T : \A i \in T : m =< i
    <3>1. T \in SUBSET Nat
      OBVIOUS
    <3> HIDE DEF T
    <3> QED
      BY <1>3, <3>1, LeastElement
  <2>2. m \in Nat /\ ~\E f \in [0 .. m -> Int] : Run(m, f)
    OBVIOUS
  <2>3. CASE m = 0
    <3> DEFINE f == [i \in 0 .. 0 |-> n]
    <3>1. f \in [0 .. 0 -> Int] /\ Run(0, f)
      BY <1>1
    <3> QED
      BY <2>2, <2>3, <3>1
  <2>4. CASE m # 0
    <3>1. m - 1 \in Nat /\ m - 1 \notin T
      <4>1. m - 1 \in Nat /\ ~(m =< m - 1)
        BY <2>2, <2>4
      <4> HIDE DEF T
      <4> QED
        BY <2>1, <4>1
    <3>2. PICK e \in [0 .. m - 1 -> Int] : Run(m - 1, e)
      BY <3>1
    <3> DEFINE last == g[e[m - 1]]
               f == [i \in 0 .. m |-> IF i = m THEN last ELSE e[i]]
    <3> HIDE DEF T
    <3>3. /\ m \in Nat \ {0} /\ e[0] = n
          /\ \A i \in 1 .. m - 1 : e[i] = g[e[i - 1]]
          /\ \A i \in 0 .. m - 1 : e[i] \in Int /\ MonthOf(e[i]) = MonthOf(n) + months * i
      BY <2>2, <2>4, <3>2
    <3>4. e[m - 1] \in Int /\ MonthOf(e[m - 1]) = MonthOf(n) + months * (m - 1)
      BY <3>3
    <3>5. last \in Int /\ MonthOf(last) = MonthOf(n) + months * m
      <4>1. last \in Int /\ MonthOf(last) = MonthOf(e[m - 1]) + months
        BY <3>4
      <4>2. MonthOf(n) + months * (m - 1) + months = MonthOf(n) + months * m
        BY <1>1, <3>3
      <4> QED
        BY <3>4, <4>1, <4>2
    <3> HIDE DEF last
    <3>6. f[m] = last /\ \A i \in 0 .. m - 1 : f[i] = e[i]
      BY <3>3
    <3>7. f \in [0 .. m -> Int]
      <4>1. \A i \in 0 .. m : i # m => e[i] \in Int
        BY <3>3
      <4> QED
        BY <3>5, <4>1
    <3> HIDE DEF f
    <3>8. f[0] = n
      BY <3>3, <3>6, <3>7
    <3>9. ASSUME NEW i \in 1 .. m PROVE f[i] = g[f[i - 1]]
      <4>1. f[i - 1] = e[i - 1]
        BY <3>3, <3>6, <3>7
      <4>2. CASE i = m
        BY <3>6, <4>1, <4>2 DEF last
      <4>3. CASE i # m
        <5>1. i \in 1 .. m - 1 /\ i \in 0 .. m - 1
          BY <3>3, <4>3
        <5> QED
          BY <3>3, <3>6, <4>1, <5>1
      <4> QED
        BY <4>2, <4>3
    <3>10. ASSUME NEW i \in 0 .. m PROVE MonthOf(f[i]) = MonthOf(n) + months * i
      <4>1. CASE i = m
        BY <3>5, <3>6, <4>1
      <4>2. CASE i # m
        BY <3>3, <3>6, <3>7, <4>2
      <4> QED
        BY <4>1, <4>2
    <3> QED
      BY <2>2, <3>7, <3>8, <3>9, <3>10
  <2> QED
    BY <2>3, <2>4
<1> QED
  BY <1>2, <1>3

(* Two runs of a loop that agree at the start and go on alike are the same. *)
LEMMA LoopUnique ==
    ASSUME NEW mag \in Nat, NEW f, NEW e, f[0] = e[0],
           \A i \in 1 .. mag : e[i - 1] = f[i - 1] => e[i] = f[i]
    PROVE  \A i \in 0 .. mag : e[i] = f[i]
<1> DEFINE T == {i \in 0 .. mag : e[i] # f[i]}
<1>1. CASE T = {}
  BY <1>1
<1>2. CASE T # {}
  <2>1. T \in SUBSET Nat
    OBVIOUS
  <2>2. PICK m \in T : \A i \in T : m =< i
    <3> HIDE DEF T
    <3> QED
      BY <1>2, <2>1, LeastElement
  <2>3. m \in 0 .. mag /\ e[m] # f[m] /\ m # 0
    OBVIOUS
  <2>4. m \in 1 .. mag /\ m - 1 \in 0 .. mag /\ m - 1 \notin T
    BY <2>2, <2>3
  <2> QED
    BY <2>3, <2>4
<1> QED
  BY <1>1, <1>2

(* Month by month, for any number of them. *)
LEMMA MoveMonthsLands ==
    ASSUME NEW n \in Int, NEW dir \in {-1, 1}, NEW mag \in Nat
    PROVE  MoveMonths(n, dir, mag) \in Int /\ MonthOf(MoveMonths(n, dir, mag)) = MonthOf(n) + dir * mag
<1> DEFINE g == [d \in Int |-> MoveOne(d, dir)]
           after[i \in 0 .. mag] == IF i = 0 THEN n ELSE MoveOne(after[i - 1], dir)
<1>1. ASSUME NEW d \in Int PROVE MoveOne(d, dir) \in Int /\ MonthOf(MoveOne(d, dir)) = MonthOf(d) + dir
  <2>1. MonthOf(d) \in Int /\ Day(d) \in 1 .. 31
    BY DateParts
  <2>2. MoveOne(d, dir) = Lands(MonthOf(d) + dir, Day(d))
    BY MoveOneLands
  <2>3. MonthOf(d) + dir \in Int
    BY <2>1
  <2> QED
    BY <2>1, <2>2, <2>3, LandsIn
<1>2. g \in [Int -> Int] /\ \A d \in Int : MonthOf(g[d]) = MonthOf(d) + dir
  BY <1>1
<1>3. \A d \in Int : g[d] = MoveOne(d, dir)
  OBVIOUS
<1> HIDE DEF g
<1>4. PICK f \in [0 .. mag -> Int] :
          /\ f[0] = n
          /\ \A i \in 1 .. mag : f[i] = g[f[i - 1]]
          /\ \A i \in 0 .. mag : MonthOf(f[i]) = MonthOf(n) + dir * i
  <2>1. \A m \in Nat : \E f \in [0 .. m -> Int] :
            /\ f[0] = n
            /\ \A i \in 1 .. m : f[i] = g[f[i - 1]]
            /\ \A i \in 0 .. m : MonthOf(f[i]) = MonthOf(n) + dir * i
    <3>1. dir \in Int
      OBVIOUS
    <3> QED
      BY <1>2, <3>1, LoopExists
  <2> QED
    BY <2>1
<1>5. f = [i \in 0 .. mag |-> IF i = 0 THEN n ELSE MoveOne(f[i - 1], dir)]
  <2>1. \A i \in 1 .. mag : f[i - 1] \in Int
    OBVIOUS
  <2>2. \A i \in 1 .. mag : f[i] = MoveOne(f[i - 1], dir)
    BY <1>3, <1>4, <2>1
  <2>3. \A i \in 0 .. mag : f[i] = IF i = 0 THEN n ELSE MoveOne(f[i - 1], dir)
    BY <1>4, <2>2
  <2> QED
    BY <2>3
<1>6. after = [i \in 0 .. mag |-> IF i = 0 THEN n ELSE MoveOne(after[i - 1], dir)]
  BY <1>5
<1>7. MoveMonths(n, dir, mag) = after[mag]
  BY DEF MoveMonths
<1> HIDE DEF after
<1>8. after[0] = f[0] /\ \A i \in 1 .. mag : after[i - 1] = f[i - 1] => after[i] = f[i]
  BY <1>4, <1>5, <1>6
<1>9. after[mag] = f[mag]
  <2>1. \A i \in 0 .. mag : after[i] = f[i]
    BY <1>8, LoopUnique, Zenon
  <2> QED
    BY <2>1
<1> QED
  BY <1>4, <1>7, <1>9

(* The loop over the months, for any number of them: cut into years, and    *)
(* the months that are left, it ends in the same month.                     *)
LEMMA MoveManyLands ==
    ASSUME NEW n \in Int, NEW dir \in {-1, 1}, NEW mag \in Nat
    PROVE  MoveMany(n, dir, mag) = Lands(MonthOf(n) + dir * mag, Day(n))
<1> DEFINE g == [d \in Int |-> MoveTwelve(d, dir)]
           years == mag \div 12
           year[i \in 0 .. years] == IF i = 0 THEN n ELSE MoveTwelve(year[i - 1], dir)
           there == MoveMonths(year[years], dir, mag % 12)
           month == Month(there)
<1>1. MonthOf(n) \in Int /\ Day(n) \in 1 .. 31
  BY DateParts
<1>2. years \in Nat /\ mag % 12 \in Nat /\ 12 * years + (mag % 12) = mag
  OBVIOUS
<1>3. ASSUME NEW d \in Int
      PROVE  MoveTwelve(d, dir) \in Int /\ MonthOf(MoveTwelve(d, dir)) = MonthOf(d) + 12 * dir
  <2>1. {MoveMonths(date, dir, 12) : date \in {d}} = {MoveMonths(d, dir, 12)}
    OBVIOUS
  <2>2. MoveTwelve(d, dir) = MoveMonths(d, dir, 12)
    BY <2>1 DEF MoveTwelve
  <2> QED
    BY <2>2, MoveMonthsLands
<1>4. g \in [Int -> Int] /\ \A d \in Int : MonthOf(g[d]) = MonthOf(d) + 12 * dir
  BY <1>3
<1>5. \A d \in Int : g[d] = MoveTwelve(d, dir)
  OBVIOUS
<1>6. MoveMany(n, dir, mag) = Settled(SetDay(there, Day(n)), Day(n), month, (0 .. 11) \ {month})
  BY DEF MoveMany, SettledOn
<1> HIDE DEF g, years
<1>7. PICK f \in [0 .. years -> Int] :
          /\ f[0] = n
          /\ \A i \in 1 .. years : f[i] = g[f[i - 1]]
          /\ \A i \in 0 .. years : MonthOf(f[i]) = MonthOf(n) + (12 * dir) * i
  <2>1. 12 * dir \in Int
    OBVIOUS
  <2>2. \A m \in Nat : \E f \in [0 .. m -> Int] :
            /\ f[0] = n
            /\ \A i \in 1 .. m : f[i] = g[f[i - 1]]
            /\ \A i \in 0 .. m : MonthOf(f[i]) = MonthOf(n) + (12 * dir) * i
    BY <1>4, <2>1, LoopExists
  <2> QED
    BY <1>2, <2>2
<1>8. f = [i \in 0 .. years |-> IF i = 0 THEN n ELSE MoveTwelve(f[i - 1], dir)]
  <2>1. \A i \in 1 .. years : f[i - 1] \in Int
    BY <1>2
  <2>2. \A i \in 1 .. years : f[i] = MoveTwelve(f[i - 1], dir)
    BY <1>5, <1>7, <2>1
  <2>3. \A i \in 0 .. years : f[i] = IF i = 0 THEN n ELSE MoveTwelve(f[i - 1], dir)
    BY <1>2, <1>7, <2>2
  <2> QED
    BY <2>3
<1>9. year = [i \in 0 .. years |-> IF i = 0 THEN n ELSE MoveTwelve(year[i - 1], dir)]
  BY <1>8
<1> HIDE DEF year
<1>10. year[0] = f[0] /\ \A i \in 1 .. years : year[i - 1] = f[i - 1] => year[i] = f[i]
  BY <1>2, <1>7, <1>8, <1>9
<1>11. year[years] \in Int /\ MonthOf(year[years]) = MonthOf(n) + (12 * dir) * years
  <2>1. year[years] = f[years]
    <3>1. \A i \in 0 .. years : year[i] = f[i]
      BY <1>2, <1>10, LoopUnique, Zenon
    <3> QED
      BY <1>2, <3>1
  <2> QED
    BY <1>2, <1>7, <2>1
<1>12. there \in Int /\ MonthOf(there) = MonthOf(n) + dir * mag
  <2>1. there \in Int /\ MonthOf(there) = MonthOf(n) + (12 * dir) * years + dir * (mag % 12)
    BY <1>2, <1>11, MoveMonthsLands
  <2>2. (12 * dir) * years + dir * (mag % 12) = dir * mag
    <3>1. CASE dir = 1
      BY <1>2, <3>1
    <3>2. CASE dir = -1
      BY <1>2, <3>2
    <3> QED
      BY <3>1, <3>2
  <2> QED
    BY <1>1, <1>2, <2>1, <2>2
<1> DEFINE k == MonthOf(n) + dir * mag
<1>13. k \in Int /\ month = k % 12
  BY <1>1, <1>12 DEF Month
<1>14. SetDay(there, Day(n)) = MonthStart(k) + Day(n) - 1
  BY <1>12, SetDayOf
<1> HIDE DEF there, month, k
<1>15. k % 12 \notin (0 .. 11) \ {k % 12} /\ (k + 1) % 12 \in (0 .. 11) \ {k % 12}
  BY <1>13
<1>16. Settled(SetDay(there, Day(n)), Day(n), k % 12, (0 .. 11) \ {k % 12}) = Lands(k, Day(n))
  BY <1>1, <1>13, <1>14, <1>15, SettledLands
<1> QED
  BY <1>6, <1>13, <1>16 DEF k

(* moveMonth moves by any number of months, back or forth, to the same day *)
(* or to the last of a month that has it not; its loops always end there.  *)
THEOREM MoveMonthLands ==
    ASSUME NEW n \in Int \ {None}, NEW dir \in Int
    PROVE  moveMonth(n, dir) = Lands(MonthOf(n) + dir, Day(n))
<1> DEFINE way == IF dir < 0 THEN -1 ELSE 1
           mag == IF dir < 0 THEN -dir ELSE dir
<1>1. mag \in Nat /\ way \in {-1, 1} /\ way * mag = dir
  OBVIOUS
<1>2. moveMonth(n, dir) = IF mag = 0 THEN n ELSE IF mag = 1 THEN MoveOne(n, way) ELSE MoveMany(n, way, mag)
  BY DEF moveMonth
<1> HIDE DEF way, mag
<1>3. CASE mag = 0
  <2>1. dir = 0 /\ MonthOf(n) + dir = MonthOf(n)
    BY <1>1, <1>3, DateParts
  <2>2. Day(n) \in 1 .. DaysIn(MonthOf(n)) /\ n = MonthStart(MonthOf(n)) + Day(n) - 1
        /\ DaysIn(MonthOf(n)) \in 28 .. 31
    BY DateParts, DaysInMonth
  <2> QED
    BY <1>2, <1>3, <2>1, <2>2 DEF Lands
<1>4. CASE mag = 1
  BY <1>1, <1>2, <1>4, MoveOneLands
<1>5. CASE mag \notin {0, 1}
  BY <1>1, <1>2, <1>5, MoveManyLands
<1> QED
  BY <1>3, <1>4, <1>5

------------------------------------------------------------------------------
(* What formatDate writes parseDate reads. *)
LEMMA BackIntoMonth ==
    ASSUME NEW k \in Int, NEW d \in 1 .. 31
    PROVE  BackInto(MonthStart(k) + d - 1, k % 12) \in Int
           /\ MonthOf(BackInto(MonthStart(k) + d - 1, k % 12)) = k
<1> DEFINE n == MonthStart(k) + d - 1
           Stop(j) == Month(n - j) = k % 12 /\ \A i \in 0 .. j - 1 : Month(n - i) # k % 12
           back == CHOOSE j \in 0 .. 366 : Stop(j)
           over == IF d =< DaysIn(k) THEN 0 ELSE d - DaysIn(k)
<1>1. BackInto(n, k % 12) = n - back
  BY DEF BackInto
<1>2. MonthStart(k) \in Int /\ DaysIn(k) \in 28 .. 31
  BY MonthStartNext, DaysInMonth
<1>3. over \in 0 .. 3 /\ n \in Int
  BY <1>2
<1>4. n - over \in Int /\ MonthOf(n - over) = k
  <2>1. d - over \in 1 .. DaysIn(k) /\ n - over = MonthStart(k) + (d - over) - 1
    BY <1>2
  <2> HIDE DEF n, over
  <2> QED
    BY <2>1, DateOf
<1>5. ASSUME NEW i \in 0 .. over - 1 PROVE Month(n - i) # k % 12
  <2>1. d - i \in DaysIn(k) + 1 .. 31 /\ n - i = MonthStart(k) + (d - i) - 1
    BY <1>2, <1>3
  <2>2. MonthOf(n - i) = k + 1
    <3> HIDE DEF n, over
    <3> QED
      BY <2>1, RunsOver
  <2>3. (k + 1) % 12 # k % 12
    OBVIOUS
  <2> QED
    BY <2>2, <2>3 DEF Month
<1> HIDE DEF n, over
<1>6. over \in 0 .. 366 /\ Stop(over)
  BY <1>3, <1>4, <1>5 DEF Month
<1>7. back \in 0 .. 366 /\ Stop(back)
  <2> HIDE DEF Stop
  <2> QED
    BY <1>6
<1> HIDE DEF back
<1>8. back = over
  <2>1. over < back => over \in 0 .. back - 1
    BY <1>6, <1>7
  <2>2. back < over => back \in 0 .. over - 1
    BY <1>6, <1>7
  <2> QED
    BY <1>6, <1>7, <2>1, <2>2
<1>9. BackInto(n, k % 12) \in Int /\ MonthOf(BackInto(n, k % 12)) = k
  BY <1>1, <1>4, <1>8
<1> QED
  BY <1>9 DEF n

(* A 29 February becomes 1 March; every other date keeps its month.        *)
LEMMA SetYearIn ==
    ASSUME NEW n \in Int, NEW y \in Int
    PROVE  SetYear(n, y) \in Int /\ Year(SetYear(n, y)) = y
<1> DEFINE k == 12 * y + Month(n)
<1>1. /\ Month(n) \in 0 .. 11 /\ Day(n) \in 1 .. DaysIn(MonthOf(n)) /\ Day(n) \in 1 .. 31
      /\ MonthOf(n) \in Int /\ DaysIn(MonthOf(n)) \in 28 .. 31
  BY DateParts, DaysInMonth
<1>2. k \in Int /\ k \div 12 = y /\ k % 12 = Month(n) /\ DaysIn(k) \in 28 .. 31
  <2>1. k \in Int
    BY <1>1
  <2>2. k \div 12 = y /\ k % 12 = Month(n)
    BY <1>1, <2>1, YearAndMonth
  <2> HIDE DEF k
  <2> QED
    BY <2>1, <2>2, DaysInMonth
<1>3. SetYear(n, y) = MonthStart(k) + Day(n) - 1
  BY DEF SetYear, UTCDate
<1> HIDE DEF k
<1>4. CASE Day(n) =< DaysIn(k)
  <2>1. Day(n) \in 1 .. DaysIn(k)
    BY <1>1, <1>2, <1>4
  <2> QED
    BY <1>2, <1>3, <2>1, DateOf
<1>5. CASE Day(n) > DaysIn(k)
  <2>1. Day(n) \in DaysIn(k) + 1 .. 31 /\ DaysIn(k) < 31
    BY <1>1, <1>2, <1>5
  <2>2. SetYear(n, y) \in Int /\ MonthOf(SetYear(n, y)) = k + 1
    BY <1>2, <1>3, <2>1, RunsOver
  <2>3. (k + 1) \div 12 = y
    BY <1>2, <2>1, ShortMonth
  <2> QED
    BY <2>2, <2>3 DEF Year
<1> QED
  BY <1>1, <1>2, <1>4, <1>5

(* The text that formatDate writes is read by parseDate as the same date,  *)
(* whatever today is: the year is set on today, then the month, with the   *)
(* steps back into it, then the day.                                       *)
THEOREM WritesWhatItReads ==
    ASSUME NEW n \in Int, NEW today \in Int
    PROVE  parseDate(formatDate(n), today) = n
<1> DEFINE k == MonthOf(n)
           x == SetYear(today, Year(n))
           z == SetMonth(x, Month(n))
           p == BackInto(z, Month(n))
<1>1. /\ k \in Int /\ Month(n) \in 0 .. 11 /\ Year(n) \in Int /\ k = 12 * Year(n) + Month(n)
      /\ Month(n) = k % 12 /\ n = MonthStart(k) + Day(n) - 1
  BY DateParts DEF Month
<1>2. x \in Int /\ Year(x) = Year(n)
  BY <1>1, SetYearIn
<1>3. z = MonthStart(k) + Day(x) - 1 /\ Day(x) \in 1 .. 31
  <2> HIDE DEF x
  <2> QED
    BY <1>1, <1>2, SetMonthOf, DateParts
<1>4. p \in Int /\ MonthOf(p) = k
  <2> HIDE DEF x, z, k
  <2> QED
    BY <1>1, <1>3, BackIntoMonth
<1>5. SetDay(p, Day(n)) = n
  <2> HIDE DEF p
  <2> QED
    BY <1>1, <1>4, SetDayOf
<1>6. ((Month(n) + 1) - 1) % 12 = Month(n)
  BY <1>1
<1>7. PutMonth(x, Month(n) + 1) = p
  BY <1>6 DEF PutMonth
<1>8. parseDate(formatDate(n), today) = SetDay(PutMonth(SetYear(today, Year(n)), Month(n) + 1), Day(n))
  BY DEF parseDate, formatDate, Text
<1> QED
  BY <1>5, <1>7, <1>8

===============================================================================
