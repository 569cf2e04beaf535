------------------------------ MODULE Screen ------------------------------
(***************************************************************************)
(* What lcd.c promises its callers: a screen of four rows, each of which   *)
(* shows what was last asked for, changed by one call at a time.           *)
(***************************************************************************)
EXTENDS Integers, Sequences

CONSTANTS
  LCD_COLS,       \* characters in a row
  Rows,           \* the rows that single texts and bars are put on
  Texts,          \* sequences of character codes
  Values,         \* of bars
  Messages        \* functions from some rows to texts

LCD_ROWS == 0 .. 3
Space == 32

VARIABLE rows     \* the characters in each row

Line == [1 .. LCD_COLS -> 0 .. 255]
Blank == [c \in 1 .. LCD_COLS |-> Space]

\* A text on a row: from the left, or in the middle, its end cut off if it is too long.
AtLeft(text) == [c \in 1 .. LCD_COLS |-> IF c \in DOMAIN text THEN text[c] ELSE Space]
Centred(text) ==
  LET shown == IF Len(text) < LCD_COLS THEN Len(text) ELSE LCD_COLS
      left == CHOOSE m \in 0 .. LCD_COLS :
                LET right == LCD_COLS - shown - m IN right \in {m, m + 1}
  IN  [c \in 1 .. LCD_COLS |-> IF c - left \in 1 .. shown THEN text[c - left] ELSE Space]

\* A bar: a cell stands for five per cent (of a row of twenty), and shows how many of
\* its own five are reached.
Bar(value) ==
  [c \in 1 .. LCD_COLS |->
     LET reached == value - 5 * (c - 1)
     IN  IF reached <= 0 THEN Space ELSE IF reached >= 5 THEN 5 ELSE reached]

TypeOK == rows \in [LCD_ROWS -> Line]

Init == rows = [r \in LCD_ROWS |-> Blank]

Text == \E r \in Rows, text \in Texts : rows' = [rows EXCEPT ![r] = AtLeft(text)]
Gauge == \E r \in Rows, value \in Values : rows' = [rows EXCEPT ![r] = Bar(value)]

\* Rows that are not given are blanked, or kept.
Message ==
  \E lines \in Messages :
    rows' = [r \in LCD_ROWS |-> IF r \in DOMAIN lines THEN Centred(lines[r]) ELSE Blank]
Update ==
  \E lines \in Messages :
    rows' = [r \in LCD_ROWS |-> IF r \in DOMAIN lines THEN Centred(lines[r]) ELSE rows[r]]

\* By a call, or because the server starts again.
Clear == rows' = [r \in LCD_ROWS |-> Blank]

Next == Text \/ Gauge \/ Message \/ Update \/ Clear

Spec == Init /\ [][Next]_rows
=============================================================================
