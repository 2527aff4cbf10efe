----------------------------- MODULE Datepicker -----------------------------
(* A date field of the report page with its calendar: the Datepicker of    *)
(* bootstrap-datepicker.js as admin.html makes it, with today as its       *)
(* endDate.  Its dates are objects that are changed in place: alias names  *)
(* what is the same object as viewDate.                                    *)
EXTENDS Calendar

CONSTANTS
    Todays,     \* the days on which the page may be loaded
    Texts,      \* what a user may type or paste
    Cells,      \* the cells of the month that are clicked, from 0 to 41
    FirstYear, LastYear,    \* bound the dates
    MaxInputs   \* bounds the inputs

(* Date.UTC takes a year below 100 for one of the 20th century.            *)
Dates == NewYear(FirstYear) .. NewYear(LastYear + 1) - 1
ASSUME YearsAssumption == FirstYear \in Nat /\ LastYear \in Nat /\ FirstYear > 100
ASSUME PageAssumption == Todays \subseteq Dates /\ Cells \subseteq 0 .. 41 /\ MaxInputs \in Nat

VARIABLES
    today,
    endDate,    \* the option, a text that is parsed like one
    visible,    \* the calendar is shown
    viewMode,   \* 0 days, 1 months, 2 years
    dates,      \* the selected date or None
    viewDate,   \* in the month shown
    focusDate,  \* the date focused by the keyboard or None
    alias,      \* those of dates and focusDate that are viewDate's object
    field,      \* the text of the input
    left        \* inputs to come

state == <<visible, viewMode, dates, viewDate, focusDate, alias, field>>
vars == <<today, endDate, state, left>>

Shown(d) == IF d = None THEN Blank ELSE formatDate(d)
Or(d, e) == IF d = None THEN e ELSE d
dateWithinRange(d) == d =< endDate

(* A day with the class disabled: a click on it does nothing. *)
Disabled(d) == d > endDate

Init ==
    /\ today \in Todays
    /\ endDate = parseDate(formatDate(today), today)
    /\ visible = FALSE /\ viewMode = 0
    /\ dates = None /\ focusDate = None /\ viewDate = today
    /\ alias = {} /\ field = Blank
    /\ left = MaxInputs

Input == left > 0 /\ left' = left - 1 /\ UNCHANGED <<today, endDate>>

------------------------------------------------------------------------------
(* fill: 42 cells, from the last Sunday of the month before.               *)
Cell(i) ==
    LET last == UTCDate(Year(viewDate), Month(viewDate), 1) - 1
    IN last - Weekday(last) + i

(* Spans and cells after the end are disabled, and the next arrow is       *)
(* hidden there.                                                           *)
NextHidden ==
    /\ Year(viewDate) >= Year(endDate)
    /\ viewMode = 0 => Month(viewDate) >= Month(endDate)

MonthDisabled(m) ==
    \/ Year(viewDate) > Year(endDate)
    \/ Year(viewDate) = Year(endDate) /\ m > Month(endDate)

Years == (Year(viewDate) \div 10) * 10 - 1 .. (Year(viewDate) \div 10) * 10 + 10

PickedSameYear(d) ==
    LET year == Year(viewDate)
        month == Month(viewDate)
        first == UTCDate(year, month, 1)
    IN CASE d < first -> UTCDate(year, (month - 1) % 12, Day(d))
         [] d >= first + getDaysInMonth(year, month) -> UTCDate(year, (month + 1) % 12, Day(d))
         [] OTHER -> UTCDate(year, month, Day(d))

(* A click on the cell of a day reads its number, and the month from its   *)
(* class.                                                                  *)
Picked(d) ==
    LET year == Year(viewDate)
        month == Month(viewDate)
        first == UTCDate(year, month, 1)
        old == d < first
        new == d >= first + getDaysInMonth(year, month)
    IN CASE old /\ month = 0 -> UTCDate(year - 1, 11, Day(d))
         [] old /\ month # 0 -> UTCDate(year, month - 1, Day(d))
         [] new /\ month = 11 -> UTCDate(year + 1, 0, Day(d))
         [] new /\ month # 11 -> UTCDate(year, month + 1, Day(d))
         [] OTHER -> UTCDate(year, month, Day(d))

------------------------------------------------------------------------------
(* _toggle_multidate for one date.                                         *)
Toggled(d) == IF dates = d THEN None ELSE d

Show ==
    /\ ~visible /\ visible' = TRUE
    /\ UNCHANGED <<viewMode, dates, viewDate, focusDate, alias, field>>

HiddenKeepsFocus ==
    /\ visible' = FALSE /\ viewMode' = 0 /\ focusDate' = focusDate
    /\ field' = IF field = Blank THEN Blank ELSE Shown(dates)

(* hide: what is in the field gives way to the selected date.              *)
Hidden ==
    /\ visible' = FALSE /\ viewMode' = 0 /\ focusDate' = None
    /\ field' = IF field = Blank THEN Blank ELSE Shown(dates)

Hide ==
    /\ visible /\ Hidden
    /\ alias' = alias \ {"focusDate"}
    /\ UNCHANGED <<dates, viewDate>>

TypedUnchecked(text) ==
    /\ field' = text
    /\ dates' = IF text = Blank THEN None ELSE parseDate(text, today)
    /\ viewDate' = IF dates' # None THEN dates'
                   ELSE IF viewDate > endDate THEN endDate ELSE viewDate
    /\ alias' = {}
    /\ UNCHANGED <<visible, viewMode, focusDate>>

(* update, at the keyup that follows a typed text, of a text without the   *)
(* multidateSeparator ',': update splits at it, also when one date is all  *)
(* the picker takes, and parses what is between the commas one by one.     *)
Typed(text) ==
    /\ field' = text
    /\ \E parsed \in {IF text = Blank THEN None ELSE parseDate(text, today)} :
           dates' = IF parsed > endDate THEN None ELSE parsed
    /\ viewDate' = IF dates' # None THEN dates'
                   ELSE IF viewDate > endDate THEN endDate ELSE viewDate
    /\ alias' = IF dates' # None \/ viewDate > endDate THEN {} ELSE alias \ {"dates"}
    /\ UNCHANGED <<visible, viewMode, focusDate>>

Type == \E text \in Texts : Typed(text)

(* A text that comes without a keyup changes the field alone.              *)
Paste ==
    /\ field' \in Texts
    /\ UNCHANGED <<visible, viewMode, dates, viewDate, focusDate, alias>>

------------------------------------------------------------------------------
(* click.                                                                  *)
Arrow(dir) ==
    /\ visible /\ (dir = 1 => ~NextHidden)
    /\ viewDate' = CASE viewMode = 0 -> moveMonth(viewDate, dir)
                     [] viewMode = 1 -> moveYear(viewDate, dir)
                     [] viewMode = 2 -> moveYear(viewDate, 10 * dir)
    /\ alias' = {}
    /\ UNCHANGED <<visible, viewMode, dates, focusDate, field>>

Switch ==
    /\ visible /\ viewMode < 2
    /\ viewMode' = viewMode + 1
    /\ UNCHANGED <<visible, dates, viewDate, focusDate, alias, field>>

(* A month or year changes viewDate in place, and with it what is the same *)
(* object.                                                                 *)
ChangeView(d) ==
    /\ viewDate' = d
    /\ dates' = IF "dates" \in alias THEN d ELSE dates
    /\ focusDate' = IF "focusDate" \in alias THEN d ELSE focusDate
    /\ viewMode' = viewMode - 1
    /\ UNCHANGED <<visible, alias, field>>

PickMonth ==
    /\ visible /\ viewMode = 1
    /\ \E m \in 0 .. 11 : ~MonthDisabled(m) /\ ChangeView(SetMonth(SetDay(viewDate, 1), m))

PickYear ==
    /\ visible /\ viewMode = 2
    /\ \E y \in Years : y =< Year(endDate) /\ ChangeView(SetYear(SetDay(viewDate, 1), y))

(* _setDate.                                                               *)
PickDay ==
    /\ visible /\ viewMode = 0
    /\ \E i \in Cells :
          /\ ~Disabled(Cell(i))
          /\ viewDate' = Picked(Cell(i))
          /\ dates' = Toggled(viewDate')
    /\ field' = Shown(dates') /\ alias' = {}
    /\ UNCHANGED <<visible, viewMode, focusDate>>

------------------------------------------------------------------------------
(* keydown.  The range is tested on the selected date, moved; what moves   *)
(* is the focused one.                                                     *)
Moves == {<<"d", -1>>, <<"d", 1>>, <<"d", -7>>, <<"d", 7>>,
          <<"m", -1>>, <<"m", 1>>, <<"y", -1>>, <<"y", 1>>}

MovedBy(d, move) ==
    CASE move[1] = "d" -> d + move[2]
      [] move[1] = "m" -> moveMonth(d, move[2])
      [] move[1] = "y" -> moveYear(d, move[2])

KeyArrow ==
    /\ visible
    /\ \E move \in Moves :
          /\ dateWithinRange(MovedBy(Or(dates, today), move))
          /\ focusDate' = MovedBy(Or(focusDate, viewDate), move)
    /\ viewDate' = focusDate' /\ alias' = {"focusDate"}
    /\ field' = Shown(dates)
    /\ UNCHANGED <<visible, viewMode, dates>>

KeyEnter ==
    /\ visible
    /\ dates' = Toggled(Or(focusDate, Or(dates, viewDate)))
    /\ focusDate' = None
    /\ viewDate' = Or(dates', viewDate)
    /\ alias' = IF dates' = None THEN {} ELSE {"dates"}
    /\ field' = Shown(dates')
    /\ UNCHANGED <<visible, viewMode>>

(* The selected date becomes viewDate.                                     *)
BackToSelected ==
    /\ viewDate' = Or(dates, viewDate)
    /\ alias' = IF dates = None THEN {} ELSE {"dates"}
    /\ UNCHANGED dates

KeyEscape ==
    /\ visible
    /\ IF focusDate = None THEN Hide
       ELSE focusDate' = None /\ BackToSelected /\ UNCHANGED <<visible, viewMode, field>>

KeyTab == visible /\ Hidden /\ BackToSelected

InRange == {viewDate} \cup ({dates, focusDate} \ {None}) \subseteq Dates

Next ==
    /\ \/ Input /\ Show
       \/ Input /\ Hide
       \/ Input /\ Type
       \/ Input /\ Paste
       \/ Input /\ Arrow(-1)
       \/ Input /\ Arrow(1)
       \/ Input /\ Switch
       \/ Input /\ PickMonth
       \/ Input /\ PickYear
       \/ Input /\ PickDay
       \/ Input /\ KeyArrow
       \/ Input /\ KeyEnter
       \/ Input /\ KeyEscape
       \/ Input /\ KeyTab
    /\ InRange'

Spec == Init /\ [][Next]_vars

------------------------------------------------------------------------------
TypeOK ==
    /\ visible \in BOOLEAN /\ viewMode \in 0 .. 2 /\ left \in 0 .. MaxInputs
    /\ {dates, focusDate, endDate} \subseteq Nat /\ viewDate \in Nat \ {None}
    /\ alias \subseteq {"dates", "focusDate"}
    /\ "dates" \in alias => dates = viewDate
    /\ "focusDate" \in alias => focusDate = viewDate
    /\ ~visible => focusDate = None /\ viewMode = 0

(* The calendar shows the whole month, and a click on any of its cells,    *)
(* those of the months around it too, selects the day that is shown there. *)
CellsPickThemselves ==
    visible /\ viewMode = 0 =>
        /\ \A i \in 0 .. 41 : Picked(Cell(i)) = Cell(i)
        /\ Cell(0) < UTCDate(Year(viewDate), Month(viewDate), 1)
        /\ Cell(41) >= UTCDate(Year(viewDate), Month(viewDate) + 1, 1) - 1

(* The date shown moves by a month, a year or ten as a calendar does: to   *)
(* the same day, or to the last of a month that does not have it.  What it *)
(* writes into the field is what it reads there at the next keyup.         *)
DatesAreReal ==
    /\ dates # None => parseDate(Shown(dates), today) = dates
    /\ parseDate(formatDate(viewDate), today) = viewDate
    /\ \A dir \in {-1, 1, -12, 12} \cup (IF viewMode = 2 THEN {-120, 120} ELSE {}) :
        LET first == UTCDate(Year(viewDate), Month(viewDate) + dir, 1)
            days == getDaysInMonth(Year(first), Month(first))
        IN moveMonth(viewDate, dir) = first - 1 + (IF Day(viewDate) < days THEN Day(viewDate) ELSE days)

(* A date after today is selected by the keyboard's Enter, which tests no  *)
(* range, and by picking this year while the month shown is the selected   *)
(* date's own object; never by a click on a day or a month, by a text, or  *)
(* when the calendar moves or hides.                                       *)
OnlyEnterAndYearPickLate ==
    [][dates' > endDate /\ dates' # dates
        => KeyEnter \/ ("dates" \in alias /\ Year(viewDate') = Year(endDate) /\ PickYear)]_vars
=============================================================================
