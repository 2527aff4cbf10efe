---------------------------- MODULE MCDatepicker ----------------------------
(* A day on which the months around are too short for its date; texts with *)
(* a day the month has not, relative and after the end date; and the first *)
(* and last cell of the grid.                                              *)
EXTENDS Datepicker

MCTodays == {UTCDate(2014, 0, 31)}
MCTexts == {Text(<<2, 30, 2012>>, <<>>), Text(<<>>, <<<<1, "m">>, <<-1, "w">>>>)}
=============================================================================
