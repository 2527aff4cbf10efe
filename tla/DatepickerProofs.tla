--------------------------- MODULE DatepickerProofs ---------------------------
(* What the date field of the report page keeps, from every day of every   *)
(* year in range, for every text and every number of inputs.               *)
EXTENDS Datepicker, CalendarProofs

(* A date is never None.                                                   *)
LEMMA DatesArePositive ==
    /\ Dates \subseteq Nat \ {None}
    /\ \A d \in Dates : d > 0
<1>1. /\ 146097 * FirstYear - 800 =< 400 * NewYear(FirstYear)
      /\ NewYear(FirstYear) \in Int /\ NewYear(LastYear + 1) \in Int
      /\ FirstYear \in Int /\ FirstYear > 100
  <2>1. FirstYear \in Int /\ LastYear + 1 \in Int /\ FirstYear > 100
    BY YearsAssumption
  <2>2. 146097 * FirstYear - 800 =< 400 * NewYear(FirstYear)
    BY <2>1, NewYearBounds
  <2>3. NewYear(FirstYear) \in Int
    BY <2>1, NewYearNext
  <2>4. NewYear(LastYear + 1) \in Int
    BY <2>1, NewYearNext
  <2> QED
    BY <2>1, <2>2, <2>3, <2>4
<1>2. NewYear(FirstYear) > 0
  BY <1>1
<1> QED
  BY <1>1, <1>2 DEF Dates, None

(* The inductive invariant: the variables that may be the same object have *)
(* the same date, and all dates are in range.                              *)
DateInv ==
    /\ today \in Dates /\ endDate = today
    /\ visible \in BOOLEAN /\ viewMode \in 0 .. 2 /\ left \in 0 .. MaxInputs
    /\ viewDate \in Dates /\ dates \in Dates \cup {None} /\ focusDate \in Dates \cup {None}
    /\ alias \subseteq {"dates", "focusDate"}
    /\ "dates" \in alias => dates = viewDate
    /\ "focusDate" \in alias => focusDate = viewDate
    /\ ~visible => focusDate = None /\ viewMode = 0

LEMMA DateInit ==
    ASSUME Init
    PROVE  DateInv
<1>1. today \in Dates /\ today \in Int
  BY PageAssumption, DatesArePositive DEF Init
<1>2. parseDate(formatDate(today), today) = today
  BY <1>1, WritesWhatItReads
<1>3. endDate = today
  BY <1>2 DEF Init
<1>4. /\ visible = FALSE /\ viewMode = 0 /\ dates = None /\ focusDate = None
      /\ viewDate = today /\ alias = {} /\ left = MaxInputs
  BY DEF Init
<1>5. left \in 0 .. MaxInputs
  BY <1>4, PageAssumption
<1>6. visible \in BOOLEAN /\ (~visible => focusDate = None /\ viewMode = 0)
  BY <1>4
<1>7. viewMode \in 0 .. 2 /\ alias = {}
  BY <1>4
<1> QED
  BY <1>1, <1>3, <1>4, <1>5, <1>6, <1>7 DEF DateInv

(* The invariant's parts that are left when the dates are known to be in   *)
(* range.                                                                  *)
LEMMA DateParted ==
    ASSUME DateInv, Next,
           visible' \in BOOLEAN, viewMode' \in 0 .. 2,
           alias' \subseteq {"dates", "focusDate"},
           "dates" \in alias' => dates' = viewDate',
           "focusDate" \in alias' => focusDate' = viewDate',
           ~visible' => focusDate' = None /\ viewMode' = 0
    PROVE  DateInv'
<1>1. /\ viewDate' \in Dates
      /\ dates' \in Dates \cup {None} /\ focusDate' \in Dates \cup {None}
  BY DEF Next, InRange
<1>2. Input
  BY DEF Next
<1>3. today \in Dates /\ endDate = today /\ left \in 0 .. MaxInputs
  BY DEF DateInv
<1>4. today' \in Dates /\ endDate' = today' /\ left' \in 0 .. MaxInputs
  BY <1>2, <1>3, PageAssumption DEF Input
<1> QED
  BY <1>1, <1>4 DEF DateInv

LEMMA DateStep ==
    ASSUME DateInv, [Next]_vars
    PROVE  DateInv'
<1>1. CASE UNCHANGED vars
  BY <1>1 DEF vars, state, DateInv
<1>2. ASSUME Next PROVE DateInv'
  <2>1. /\ visible \in BOOLEAN /\ viewMode \in 0 .. 2
        /\ alias \subseteq {"dates", "focusDate"}
        /\ "dates" \in alias => dates = viewDate
        /\ "focusDate" \in alias => focusDate = viewDate
        /\ ~visible => focusDate = None /\ viewMode = 0
    BY DEF DateInv
  <2>2. ASSUME Hide PROVE DateInv'
    <3>1. visible' \in BOOLEAN /\ viewMode' = 0 /\ focusDate' = None
      BY <2>2 DEF Hide, Hidden
    <3>2. dates' = dates /\ viewDate' = viewDate /\ alias' = alias \ {"focusDate"}
      BY <2>2 DEF Hide
    <3> QED
      BY <1>2, <2>1, <3>1, <3>2, DateParted
  <2>3. CASE Show
    BY <1>2, <2>1, <2>3, DateParted DEF Show
  <2>4. CASE Type
    <3>1. PICK text \in Texts : Typed(text)
      BY <2>4 DEF Type
    <3>2. /\ visible' = visible /\ viewMode' = viewMode /\ focusDate' = focusDate
          /\ alias' = {} \/ (alias' = alias \ {"dates"} /\ viewDate' = viewDate)
      BY <3>1 DEF Typed
    <3> QED
      BY <1>2, <2>1, <3>2, DateParted
  <2>5. CASE Paste
    BY <1>2, <2>1, <2>5, DateParted DEF Paste
  <2>6. CASE Arrow(-1) \/ Arrow(1)
    <3>1. /\ visible' = visible /\ viewMode' = viewMode /\ focusDate' = focusDate
          /\ alias' = {}
      BY <2>6 DEF Arrow
    <3> QED
      BY <1>2, <2>1, <3>1, DateParted
  <2>7. CASE Switch
    <3>1. /\ visible /\ viewMode < 2 /\ viewMode' = viewMode + 1
          /\ UNCHANGED <<visible, dates, viewDate, focusDate, alias>>
      BY <2>7 DEF Switch
    <3>2. viewMode' \in 0 .. 2
      BY <2>1, <3>1
    <3> QED
      BY <1>2, <2>1, <3>1, <3>2, DateParted
  <2>8. ASSUME visible, viewMode \in 1 .. 2, NEW d, ChangeView(d) PROVE DateInv'
    <3>1. /\ viewDate' = d /\ viewMode' = viewMode - 1
          /\ "dates" \in alias => dates' = d
          /\ "focusDate" \in alias => focusDate' = d
          /\ visible' = visible /\ alias' = alias
      BY <2>8 DEF ChangeView
    <3>2. viewMode' \in 0 .. 2
      BY <2>8, <3>1
    <3> QED
      BY <1>2, <2>1, <2>8, <3>1, <3>2, DateParted
  <2>9. CASE PickMonth
    BY <2>8, <2>9 DEF PickMonth
  <2>10. CASE PickYear
    BY <2>8, <2>10 DEF PickYear
  <2>11. CASE PickDay
    <3>1. /\ visible' = visible /\ viewMode' = viewMode /\ focusDate' = focusDate
          /\ alias' = {}
      BY <2>11 DEF PickDay
    <3> QED
      BY <1>2, <2>1, <3>1, DateParted
  <2>12. CASE KeyArrow
    <3>1. /\ visible /\ visible' = visible /\ viewMode' = viewMode
          /\ viewDate' = focusDate' /\ alias' = {"focusDate"}
      BY <2>12 DEF KeyArrow
    <3> QED
      BY <1>2, <2>1, <3>1, DateParted
  <2>13. CASE KeyEnter
    <3>1. /\ visible /\ visible' = visible /\ viewMode' = viewMode
          /\ alias' = {} \/ (alias' = {"dates"} /\ viewDate' = dates')
      BY <2>13 DEF KeyEnter, Or
    <3> QED
      BY <1>2, <2>1, <3>1, DateParted
  <2>14. ASSUME BackToSelected
         PROVE  /\ alias' \subseteq {"dates"}
                /\ "dates" \in alias' => dates' = viewDate'
    BY <2>14 DEF BackToSelected, Or
  <2>15. CASE KeyEscape
    <3>1. CASE focusDate = None
      BY <2>2, <2>15, <3>1 DEF KeyEscape
    <3>2. CASE focusDate # None
      <4>1. /\ visible /\ visible' = visible /\ viewMode' = viewMode /\ BackToSelected
        BY <2>15, <3>2 DEF KeyEscape
      <4>2. "focusDate" \notin alias' /\ alias' \subseteq {"dates", "focusDate"}
        BY <2>14, <4>1
      <4> QED
        BY <1>2, <2>1, <2>14, <4>1, <4>2, DateParted
    <3> QED
      BY <3>1, <3>2
  <2>16. CASE KeyTab
    <3>1. visible' \in BOOLEAN /\ viewMode' = 0 /\ focusDate' = None /\ BackToSelected
      BY <2>16 DEF KeyTab, Hidden
    <3>2. "focusDate" \notin alias' /\ alias' \subseteq {"dates", "focusDate"}
      BY <2>14, <3>1
    <3> QED
      BY <1>2, <2>1, <2>14, <3>1, <3>2, DateParted
  <2> QED
    BY <1>2, <2>2, <2>3, <2>4, <2>5, <2>6, <2>7, <2>9, <2>10, <2>11, <2>12,
       <2>13, <2>15, <2>16 DEF Next
<1> QED
  BY <1>1, <1>2

(* The invariant holds: no input makes two variables that are one object   *)
(* differ, or leaves the focus or the view of months to a hidden calendar. *)
THEOREM DateInvariant == Spec => []DateInv
<1> QED
  BY DateInit, DateStep, PTL DEF Spec

(* The picker's variables keep their types, what is one object has one     *)
(* date, and a picker that is hidden has forgotten the keyboard's focus    *)
(* and shows days when it is opened again.                                 *)
THEOREM TypeCorrect == Spec => []TypeOK
<1>1. DateInv => TypeOK
  BY DatesArePositive DEF DateInv, TypeOK, None
<1> QED
  BY <1>1, DateInvariant, PTL

------------------------------------------------------------------------------
(* The month that is shown.                                                *)
LEMMA UTCDateOf ==
    ASSUME NEW y \in Int, NEW m \in Int, NEW day, NEW k, k = 12 * y + m
    PROVE  UTCDate(y, m, day) = MonthStart(k) + day - 1
BY DEF UTCDate

LEMMA CellPicksItself ==
    ASSUME viewDate \in Int, NEW i \in 0 .. 41
    PROVE  Cell(i) \in Int /\ Picked(Cell(i)) = Cell(i)
<1> DEFINE k == MonthOf(viewDate)
           year == Year(viewDate)
           month == Month(viewDate)
           first == UTCDate(year, month, 1)
           d == Cell(i)
<1> SUFFICES d \in Int /\ Picked(d) = d
  OBVIOUS
<1>1. k \in Int /\ year \in Int /\ month \in 0 .. 11 /\ k = 12 * year + month
  BY DateParts
<1>2. first = MonthStart(k) /\ MonthStart(k) \in Int
  <2>1. first = MonthStart(k) + 1 - 1
    BY <1>1 DEF UTCDate
  <2> QED
    BY <1>1, <2>1, MonthStartNext
<1>3. d \in Int /\ d >= first - 7 /\ d =< first + 40
  <2> DEFINE last == first - 1
  <2>1. d = last - Weekday(last) + i
    BY DEF Cell
  <2>2. last \in Int /\ Weekday(last) \in 0 .. 6
    BY <1>2 DEF Weekday
  <2> HIDE DEF last, d
  <2>3. last = first - 1
    BY DEF last
  <2> HIDE DEF first
  <2> QED
    BY <1>2, <2>1, <2>2, <2>3
<1>4. /\ getDaysInMonth(year, month) = DaysIn(k)
      /\ DaysIn(k) \in 28 .. 31 /\ DaysIn(k - 1) \in 28 .. 31 /\ DaysIn(k + 1) \in 28 .. 31
  <2>1. k \in Int /\ k - 1 \in Int /\ k + 1 \in Int
    BY <1>1
  <2>2. getDaysInMonth(year, month) = DaysIn(k)
    BY DEF DaysIn, Year, Month
  <2> HIDE DEF k, year, month
  <2>3. DaysIn(k) \in 28 .. 31
    BY <2>1, DaysInMonth
  <2>4. DaysIn(k - 1) \in 28 .. 31
    BY <2>1, DaysInMonth
  <2>5. DaysIn(k + 1) \in 28 .. 31
    BY <2>1, DaysInMonth
  <2> QED
    BY <2>2, <2>3, <2>4, <2>5
<1>5. /\ MonthStart(k) = MonthStart(k - 1) + DaysIn(k - 1) /\ MonthStart(k - 1) \in Int
      /\ MonthStart(k + 1) = MonthStart(k) + DaysIn(k) /\ MonthStart(k + 1) \in Int
  <2>1. k \in Int /\ k - 1 \in Int /\ k + 1 \in Int /\ (k - 1) + 1 = k
    BY <1>1
  <2> HIDE DEF k
  <2>2. MonthStart((k - 1) + 1) = MonthStart(k - 1) + DaysIn(k - 1) /\ MonthStart(k - 1) \in Int
    BY <2>1, MonthStartNext
  <2>3. MonthStart(k + 1) = MonthStart(k) + DaysIn(k)
    BY <2>1, MonthStartNext
  <2>4. MonthStart(k + 1) \in Int
    BY <2>1, MonthStartNext
  <2> QED
    BY <2>1, <2>2, <2>3, <2>4
<1> DEFINE old == d < first
           new == d >= first + getDaysInMonth(year, month)
<1>6. Picked(d) = CASE old /\ month = 0 -> UTCDate(year - 1, 11, Day(d))
                    [] old /\ month # 0 -> UTCDate(year, month - 1, Day(d))
                    [] new /\ month = 11 -> UTCDate(year + 1, 0, Day(d))
                    [] new /\ month # 11 -> UTCDate(year, month + 1, Day(d))
                    [] OTHER -> UTCDate(year, month, Day(d))
  BY DEF Picked
<1> HIDE DEF d, first, k, year, month
<1>7. /\ old => MonthOf(d) = k - 1
      /\ new => MonthOf(d) = k + 1
      /\ ~old /\ ~new => MonthOf(d) = k
  <2>1. /\ old => MonthStart(k - 1) =< d /\ d < MonthStart(k - 1) + DaysIn(k - 1)
        /\ new => MonthStart(k + 1) =< d /\ d < MonthStart(k + 1) + DaysIn(k + 1)
        /\ ~old /\ ~new => MonthStart(k) =< d /\ d < MonthStart(k) + DaysIn(k)
    BY <1>2, <1>3, <1>4, <1>5
  <2>2. k - 1 \in Int /\ k + 1 \in Int
    BY <1>1
  <2> QED
    BY <1>1, <1>3, <2>1, <2>2, OnlyMonth
<1>8. d = MonthStart(MonthOf(d)) + Day(d) - 1
  BY <1>3, DateParts
<1>9. ~(old /\ new)
  BY <1>2, <1>3, <1>4
<1>10. CASE old /\ month = 0
  <2>1. Picked(d) = UTCDate(year - 1, 11, Day(d))
    BY <1>6, <1>9, <1>10
  <2>2. year - 1 \in Int /\ 11 \in Int /\ k - 1 = 12 * (year - 1) + 11
    BY <1>1, <1>10
  <2>3. UTCDate(year - 1, 11, Day(d)) = MonthStart(k - 1) + Day(d) - 1
    BY <2>2, UTCDateOf
  <2>4. MonthOf(d) = k - 1
    BY <1>7, <1>10
  <2> QED
    BY <1>3, <1>8, <2>1, <2>3, <2>4
<1>11. CASE old /\ month # 0
  <2>1. Picked(d) = UTCDate(year, month - 1, Day(d))
    BY <1>6, <1>9, <1>11
  <2>2. year \in Int /\ month - 1 \in Int /\ k - 1 = 12 * year + (month - 1)
    BY <1>1
  <2>3. UTCDate(year, month - 1, Day(d)) = MonthStart(k - 1) + Day(d) - 1
    BY <2>2, UTCDateOf
  <2>4. MonthOf(d) = k - 1
    BY <1>7, <1>11
  <2> QED
    BY <1>3, <1>8, <2>1, <2>3, <2>4
<1>12. CASE new /\ month = 11
  <2>1. Picked(d) = UTCDate(year + 1, 0, Day(d))
    BY <1>6, <1>9, <1>12
  <2>2. year + 1 \in Int /\ 0 \in Int /\ k + 1 = 12 * (year + 1) + 0
    BY <1>1, <1>12
  <2>3. UTCDate(year + 1, 0, Day(d)) = MonthStart(k + 1) + Day(d) - 1
    BY <2>2, UTCDateOf
  <2>4. MonthOf(d) = k + 1
    BY <1>7, <1>12
  <2> QED
    BY <1>3, <1>8, <2>1, <2>3, <2>4
<1>13. CASE new /\ month # 11
  <2>1. Picked(d) = UTCDate(year, month + 1, Day(d))
    BY <1>6, <1>9, <1>13
  <2>2. year \in Int /\ month + 1 \in Int /\ k + 1 = 12 * year + (month + 1)
    BY <1>1
  <2>3. UTCDate(year, month + 1, Day(d)) = MonthStart(k + 1) + Day(d) - 1
    BY <2>2, UTCDateOf
  <2>4. MonthOf(d) = k + 1
    BY <1>7, <1>13
  <2> QED
    BY <1>3, <1>8, <2>1, <2>3, <2>4
<1>14. CASE ~old /\ ~new
  <2>1. Picked(d) = UTCDate(year, month, Day(d))
    BY <1>6, <1>9, <1>14
  <2>2. year \in Int /\ month \in Int /\ k = 12 * year + month
    BY <1>1
  <2>3. UTCDate(year, month, Day(d)) = MonthStart(k) + Day(d) - 1
    BY <2>2, UTCDateOf
  <2>4. MonthOf(d) = k
    BY <1>7, <1>14
  <2> QED
    BY <1>3, <1>8, <2>1, <2>3, <2>4
<1> QED
  BY <1>10, <1>11, <1>12, <1>13, <1>14

(* Every cell of the month that is shown, those of the months around it    *)
(* too, selects its own day, and no day of the month is without a cell:    *)
(* fill and the click on a day, for every month of every year.             *)
THEOREM CellsPick == Spec => []CellsPickThemselves
<1>1. ASSUME DateInv PROVE CellsPickThemselves
  <2> DEFINE k == MonthOf(viewDate)
             first == UTCDate(Year(viewDate), Month(viewDate), 1)
             last == first - 1
  <2>1. viewDate \in Int
    BY <1>1, DatesArePositive DEF DateInv
  <2>2. /\ k \in Int /\ Year(viewDate) \in Int /\ Month(viewDate) \in Int
        /\ k = 12 * Year(viewDate) + Month(viewDate)
    <3>1. /\ k \in Int /\ Year(viewDate) \in Int /\ Month(viewDate) \in 0 .. 11
          /\ k = 12 * Year(viewDate) + Month(viewDate)
      BY <2>1, DateParts
    <3> QED
      BY <3>1
  <2>3. first = MonthStart(k) + 1 - 1
    BY <2>2, UTCDateOf
  <2>4. Month(viewDate) + 1 \in Int /\ k + 1 = 12 * Year(viewDate) + (Month(viewDate) + 1)
    BY <2>2
  <2>5. UTCDate(Year(viewDate), Month(viewDate) + 1, 1) = MonthStart(k + 1) + 1 - 1
    BY <2>2, <2>4, UTCDateOf
  <2>6. Cell(0) = last - Weekday(last) + 0 /\ Cell(41) = last - Weekday(last) + 41
    BY DEF Cell
  <2> HIDE DEF k, first
  <2>7. MonthStart(k) \in Int /\ MonthStart(k + 1) = MonthStart(k) + DaysIn(k)
    BY <2>2, MonthStartNext
  <2>8. DaysIn(k) \in 28 .. 31
    BY <2>2, DaysInMonth
  <2>9. last \in Int /\ Weekday(last) \in 0 .. 6
    BY <2>3, <2>7 DEF Weekday
  <2>10. Cell(0) < first
    BY <2>3, <2>6, <2>7, <2>9
  <2>11. Cell(41) >= UTCDate(Year(viewDate), Month(viewDate) + 1, 1) - 1
    BY <2>3, <2>5, <2>6, <2>7, <2>8, <2>9
  <2>12. \A i \in 0 .. 41 : Picked(Cell(i)) = Cell(i)
    BY <2>1, CellPicksItself
  <2> QED
    BY <2>10, <2>11, <2>12 DEF CellsPickThemselves, first
<1> QED
  BY <1>1, DateInvariant, PTL

(* What the picker writes into the field is what it reads there, and an    *)
(* arrow moves the month that is shown by a month, a year or ten: to the   *)
(* same day or to the last day of a shorter month (moveMonth, formatDate   *)
(* and parseDate as the picker's steps use them).                          *)
THEOREM DatesReal == Spec => []DatesAreReal
<1>1. ASSUME DateInv PROVE DatesAreReal
  <2>1. /\ viewDate \in Int \ {None} /\ today \in Int
        /\ dates \in Int
    BY <1>1, DatesArePositive DEF DateInv, None
  <2>2. dates # None => parseDate(Shown(dates), today) = dates
    BY <2>1, WritesWhatItReads DEF Shown
  <2>3. parseDate(formatDate(viewDate), today) = viewDate
    BY <2>1, WritesWhatItReads
  <2>4. ASSUME NEW dir \in Int
        PROVE  LET first == UTCDate(Year(viewDate), Month(viewDate) + dir, 1)
                   days == getDaysInMonth(Year(first), Month(first))
               IN moveMonth(viewDate, dir)
                    = first - 1 + (IF Day(viewDate) < days THEN Day(viewDate) ELSE days)
    <3> DEFINE k == MonthOf(viewDate) + dir
               first == UTCDate(Year(viewDate), Month(viewDate) + dir, 1)
               days == getDaysInMonth(Year(first), Month(first))
    <3>1. /\ MonthOf(viewDate) \in Int /\ Year(viewDate) \in Int /\ Month(viewDate) \in Int
          /\ MonthOf(viewDate) = 12 * Year(viewDate) + Month(viewDate)
          /\ Day(viewDate) \in 1 .. 31
      <4>1. /\ MonthOf(viewDate) \in Int /\ Year(viewDate) \in Int
            /\ Month(viewDate) \in 0 .. 11 /\ Day(viewDate) \in 1 .. 31
            /\ MonthOf(viewDate) = 12 * Year(viewDate) + Month(viewDate)
        BY <2>1, DateParts
      <4> QED
        BY <4>1
    <3>2. k \in Int /\ Month(viewDate) + dir \in Int
          /\ k = 12 * Year(viewDate) + (Month(viewDate) + dir)
      BY <2>4, <3>1
    <3>3. moveMonth(viewDate, dir) = Lands(k, Day(viewDate))
      BY <2>1, <2>4, MoveMonthLands
    <3> HIDE DEF k
    <3>4. first = MonthStart(k) + 1 - 1
      BY <3>1, <3>2, UTCDateOf
    <3> HIDE DEF first
    <3>5. DaysIn(k) \in 28 .. 31 /\ MonthStart(k) \in Int
      BY <3>2, DaysInMonth, MonthStartNext
    <3>6. 1 \in 1 .. DaysIn(k)
      BY <3>5
    <3>7. Year(first) = k \div 12 /\ Month(first) = k % 12
      BY <3>2, <3>4, <3>6, DateOf
    <3>8. days = DaysIn(k)
      BY <3>7 DEF DaysIn
    <3> HIDE DEF days
    <3>9. moveMonth(viewDate, dir)
            = first - 1 + (IF Day(viewDate) < days THEN Day(viewDate) ELSE days)
      BY <3>1, <3>3, <3>4, <3>5, <3>8 DEF Lands
    <3> QED
      BY <3>9 DEF first, days
  <2>5. {-1, 1, -12, 12} \cup (IF viewMode = 2 THEN {-120, 120} ELSE {}) \subseteq Int
    OBVIOUS
  <2> QED
    BY <2>2, <2>3, <2>4, <2>5 DEF DatesAreReal
<1> QED
  BY <1>1, DateInvariant, PTL

------------------------------------------------------------------------------
(* The selected date and the end.                                          *)
LEMMA EarlierMonth ==
    ASSUME NEW end \in Int, NEW k \in Int, k =< MonthOf(end)
    PROVE  MonthStart(k) =< end
<1>1. /\ MonthOf(end) \in Int /\ MonthStart(MonthOf(end)) \in Int
      /\ Day(end) \in 1 .. 31 /\ end = MonthStart(MonthOf(end)) + Day(end) - 1
  BY DateParts
<1>2. MonthStart(k) \in Int /\ DaysIn(k) \in 28 .. 31
  BY MonthStartNext, DaysInMonth
<1>3. MonthStart(MonthOf(end)) =< end
  BY <1>1
<1>4. CASE k = MonthOf(end)
  BY <1>3, <1>4
<1>5. CASE k < MonthOf(end)
  <2>1. MonthStart(k) + DaysIn(k) =< MonthStart(MonthOf(end))
    BY <1>1, <1>5, MonthsApart
  <2> QED
    BY <1>1, <1>2, <1>3, <2>1
<1> QED
  BY <1>1, <1>4, <1>5

(* What is picked is the first day of a month.                             *)
LEMMA FirstOfMonth ==
    ASSUME NEW d \in Int
    PROVE  /\ SetDay(d, 1) \in Int /\ MonthOf(SetDay(d, 1)) = MonthOf(d)
           /\ Year(SetDay(d, 1)) = Year(d) /\ Month(SetDay(d, 1)) = Month(d)
           /\ Day(SetDay(d, 1)) = 1
<1>1. MonthOf(d) \in Int /\ DaysIn(MonthOf(d)) \in 28 .. 31
  BY DateParts, DaysInMonth
<1>2. 1 \in 1 .. DaysIn(MonthOf(d))
  BY <1>1
<1>3. SetDay(d, 1) = MonthStart(MonthOf(d)) + 1 - 1
  BY SetDayOf
<1>4. SetDay(d, 1) \in Int /\ MonthOf(SetDay(d, 1)) = MonthOf(d) /\ Day(SetDay(d, 1)) = 1
  BY <1>1, <1>2, <1>3, DateOf
<1> QED
  BY <1>4 DEF Year, Month

LEMMA PickedMonth ==
    ASSUME NEW m \in 0 .. 11, viewDate \in Int, endDate \in Int, ~MonthDisabled(m)
    PROVE  SetMonth(SetDay(viewDate, 1), m) =< endDate
<1> DEFINE x == SetDay(viewDate, 1)
           k == 12 * Year(viewDate) + m
<1>1. x \in Int /\ Year(x) = Year(viewDate) /\ Day(x) = 1
  BY FirstOfMonth
<1>2. Year(viewDate) \in Int
  BY DateParts
<1>3. /\ Year(endDate) \in Int /\ Month(endDate) \in 0 .. 11
      /\ MonthOf(endDate) = 12 * Year(endDate) + Month(endDate)
  BY DateParts
<1> HIDE DEF x
<1>4. SetMonth(x, m) = MonthStart(k) + 1 - 1
  BY <1>1, SetMonthOf
<1>5. k \in Int /\ k =< MonthOf(endDate)
  BY <1>2, <1>3 DEF MonthDisabled
<1> HIDE DEF k
<1>6. MonthStart(k) \in Int /\ MonthStart(k) =< endDate
  BY <1>5, EarlierMonth, MonthStartNext
<1> QED
  BY <1>4, <1>6 DEF x

LEMMA PickedYear ==
    ASSUME NEW y \in Int, viewDate \in Int, endDate \in Int
    PROVE  LET d == SetYear(SetDay(viewDate, 1), y)
           IN d \in Int /\ Year(d) = y /\ (y < Year(endDate) => d =< endDate)
<1> DEFINE x == SetDay(viewDate, 1)
           k == 12 * y + Month(viewDate)
           d == SetYear(x, y)
<1>1. x \in Int /\ Month(x) = Month(viewDate) /\ Day(x) = 1
  BY FirstOfMonth
<1>2. Month(viewDate) \in 0 .. 11
  BY DateParts
<1>3. /\ Year(endDate) \in Int /\ Month(endDate) \in 0 .. 11
      /\ MonthOf(endDate) = 12 * Year(endDate) + Month(endDate)
  BY DateParts
<1> HIDE DEF x
<1>4. d = MonthStart(k) + 1 - 1
  BY <1>1 DEF SetYear, UTCDate
<1>5. d \in Int /\ Year(d) = y
  BY <1>1, SetYearIn
<1>6. k \in Int /\ (y < Year(endDate) => k =< MonthOf(endDate))
  BY <1>2, <1>3
<1> HIDE DEF k
<1>7. MonthStart(k) \in Int /\ (y < Year(endDate) => MonthStart(k) =< endDate)
  BY <1>6, EarlierMonth, MonthStartNext
<1>8. y < Year(endDate) => d =< endDate
  BY <1>4, <1>7
<1> QED
  BY <1>5, <1>8 DEF x

LEMMA LateStep ==
    ASSUME DateInv, Next, dates' > endDate, dates' # dates
    PROVE  KeyEnter \/ ("dates" \in alias /\ Year(viewDate') = Year(endDate) /\ PickYear)
<1>1. viewDate \in Int /\ endDate \in Int /\ endDate > 0
  BY DatesArePositive DEF DateInv
<1>2. dates' \in Int
  <2>1. dates' = None \/ dates' \in Dates
    BY DEF Next, InRange
  <2>2. CASE dates' \in Dates
    BY <2>2, DatesArePositive
  <2>3. CASE dates' = None
    BY <2>3 DEF None
  <2> QED
    BY <2>1, <2>2, <2>3
<1>3. ~(dates' = None) /\ ~(dates' = dates) /\ ~(dates' =< endDate)
  BY <1>1, <1>2 DEF None
<1>4. /\ ~Show /\ ~Hide /\ ~Paste /\ ~Arrow(-1) /\ ~Arrow(1) /\ ~Switch /\ ~KeyArrow
  BY <1>3 DEF Show, Hide, Paste, Arrow, Switch, KeyArrow
<1>5. ~KeyEscape /\ ~KeyTab
  BY <1>3, <1>4 DEF KeyEscape, KeyTab, BackToSelected
<1>6. ~Type
  <2>1. ASSUME NEW text \in Texts, Typed(text) PROVE FALSE
    <3>1. PICK parsed : dates' = IF parsed > endDate THEN None ELSE parsed
      BY <2>1 DEF Typed
    <3>2. ~(parsed > endDate) /\ dates' = parsed
      BY <1>3, <3>1
    <3> QED
      BY <1>1, <1>2, <1>3, <3>2
  <2> QED
    BY <2>1 DEF Type
<1>7. ~PickDay
  <2>1. ASSUME NEW i \in Cells, ~Disabled(Cell(i)), viewDate' = Picked(Cell(i)),
               dates' = Toggled(viewDate')
        PROVE  FALSE
    <3>1. i \in 0 .. 41
      BY PageAssumption
    <3>2. Cell(i) \in Int /\ Picked(Cell(i)) = Cell(i)
      BY <1>1, <3>1, CellPicksItself
    <3>3. Cell(i) =< endDate
      BY <1>1, <2>1, <3>2 DEF Disabled
    <3>4. dates' = Cell(i)
      BY <1>3, <2>1, <3>2 DEF Toggled
    <3> QED
      BY <1>3, <3>3, <3>4
  <2> QED
    BY <2>1 DEF PickDay
<1>8. ASSUME NEW d, ChangeView(d)
      PROVE  "dates" \in alias /\ dates' = d /\ viewDate' = d
  BY <1>3, <1>8 DEF ChangeView
<1>9. ~PickMonth
  <2>1. ASSUME NEW m \in 0 .. 11, ~MonthDisabled(m),
               ChangeView(SetMonth(SetDay(viewDate, 1), m))
        PROVE  FALSE
    <3>1. SetMonth(SetDay(viewDate, 1), m) =< endDate
      BY <1>1, <2>1, PickedMonth
    <3> QED
      BY <1>3, <1>8, <2>1, <3>1
  <2> QED
    BY <2>1 DEF PickMonth
<1>10. CASE PickYear
  <2>1. PICK y \in Years : /\ y =< Year(endDate)
                           /\ ChangeView(SetYear(SetDay(viewDate, 1), y))
    BY <1>10 DEF PickYear
  <2>2. Year(viewDate) \in Int /\ Year(endDate) \in Int
    BY <1>1, DateParts
  <2>3. y \in Int
    BY <2>1, <2>2 DEF Years
  <2> DEFINE d == SetYear(SetDay(viewDate, 1), y)
  <2>4. Year(d) = y /\ (y < Year(endDate) => d =< endDate)
    BY <1>1, <2>3, PickedYear
  <2>5. "dates" \in alias /\ dates' = d /\ viewDate' = d
    BY <1>8, <2>1
  <2> HIDE DEF d
  <2>6. y = Year(endDate)
    BY <1>3, <2>1, <2>2, <2>3, <2>4, <2>5
  <2> QED
    BY <1>10, <2>4, <2>5, <2>6
<1> QED
  BY <1>4, <1>5, <1>6, <1>7, <1>9, <1>10 DEF Next

(* No click on a day or on a month, no text and no move of the calendar    *)
(* selects a date after today.  Only two steps do: Enter, which tests no   *)
(* range, and a pick of this year while the month that is shown and the    *)
(* selected date are one object.                                           *)
THEOREM LateDates == Spec => OnlyEnterAndYearPickLate
<1>1. ASSUME DateInv, [Next]_vars
      PROVE  [dates' > endDate /\ dates' # dates
                => KeyEnter \/ ("dates" \in alias /\ Year(viewDate') = Year(endDate) /\ PickYear)]_vars
  BY <1>1, LateStep
<1> QED
  BY <1>1, DateInvariant, PTL DEF Spec, OnlyEnterAndYearPickLate
===============================================================================
