------------------------------- MODULE Screen --------------------------------
(***************************************************************************)
(* Text on the screen: put_char() of device/print.c and console_write() of *)
(* device/console.c, as functions on the video memory and the cursor.      *)
(* Characters are strings: "ESC" is \x1b, which makes the next character   *)
(* the colour, "FF" is \f, "CR" \r, "LF" \n, "BS" \b and "HT" \t.         *)
(***************************************************************************)
EXTENDS Integers, SequencesExt

CONSTANTS
    Columns,  \* 80
    Rows,     \* 25
    TabWidth  \* 8

ASSUME ScreenAssumption == {Columns, Rows, TabWidth} \subseteq Nat \ {0}

Blank == " "
Cells == 0..Columns * (Rows + 1) - 1  \* the row below the last one is copied, too

\* set_cur(): behind the last place the text moves up a row.
set_cur(s, cur) ==
    IF cur < Columns * Rows THEN [s EXCEPT !.cur = cur]
    ELSE [s EXCEPT !.cur = cur - Columns,
                   !.cell = [i \in Cells |-> IF i < Columns * Rows THEN s.cell[i + Columns]
                                             ELSE s.cell[i]]]

cls_screen(s) ==
    set_cur([s EXCEPT !.cell = [i \in Cells |-> IF i < Columns * Rows THEN Blank
                                                ELSE s.cell[i]]], 0)

\* Mutant: the place that backspace goes back to is not cleared.
put_at_keep(s, i, c) == IF c = Blank THEN s ELSE [s EXCEPT !.cell[i] = c]

put_at(s, i, c) == [s EXCEPT !.cell[i] = c]

\* The cursor has 16 bits.  A tab clears the place that it goes to as well.
put_char(s, c) ==
    LET back == (s.cur - 1) % 65536
        stop == (s.cur \div TabWidth + 1) * TabWidth
    IN
    CASE s.change_property -> [s EXCEPT !.change_property = FALSE]
      [] ~s.change_property ->
         CASE c = "ESC" -> [s EXCEPT !.change_property = TRUE]
           [] c = "FF" -> cls_screen(s)
           [] c = "CR" -> set_cur(s, (s.cur \div Columns) * Columns)
           [] c = "LF" -> set_cur(s, (s.cur \div Columns + 1) * Columns)
           [] c = "BS" -> put_at(set_cur(s, back), back, Blank)
           [] c = "HT" -> set_cur([s EXCEPT !.cell = [i \in Cells |->
                              IF s.cur <= i /\ i <= stop THEN Blank ELSE s.cell[i]]], stop)
           [] OTHER -> set_cur(put_at(s, s.cur, c), s.cur + 1)

\* console_write() holds console_lock from the first character to the last, so
\* that a string is written in one piece.
console_write(s, str) == FoldLeft(put_char, s, str)

ScreenInit ==
    [cell |-> [i \in Cells |-> Blank], cur |-> 0, change_property |-> FALSE]
=============================================================================
