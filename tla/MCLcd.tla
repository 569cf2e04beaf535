------------------------------- MODULE MCLcd -------------------------------
EXTENDS Lcd, TLC

\* A, B: a text that does not fill a row, and one that is too long.
SmallTexts == {<<65>>, <<66, 66, 65>>}

\* Below the scale, a part of a cell, a full and a part of a cell, above the scale.
SmallValues == {-1, 3, 7, 12}

SmallMessages == {(0 :> <<65>>) @@ (3 :> <<66, 66, 65>>), 2 :> <<65>>}
=============================================================================
