-------------------------------- MODULE Lcd --------------------------------
(***************************************************************************)
(* The driver of the display (lcd.c) and the display, an HD44780 that is   *)
(* sent half a byte at a time.  Threads of the server write to it under    *)
(* lcd_mutex.  The server may end at any moment and be started again by    *)
(* systemd; the display has then kept its power and whatever half a byte   *)
(* it was sent.                                                            *)
(*                                                                         *)
(* The pulse on EN that latches a nibble is one step: what is cut off in   *)
(* the middle of it is not latched.                                        *)
(***************************************************************************)
EXTENDS Integers, Sequences

CONSTANTS
  Threads, Main,  \* the threads that write, among them that of main
  Nobody,         \* no thread
  LCD_COLS, Rows, Texts, Values, Messages,   \* see Screen
  MAX_RESTARTS    \* the server ends at most so often

ASSUME ThreadsAssumption == Main \in Threads /\ Nobody \notin Threads
ASSUME ColsAssumption == LCD_COLS \in 1 .. 20
ASSUME RowsAssumption == Rows \subseteq 0 .. 3
ASSUME TextsAssumption == Texts \subseteq Seq(1 .. 255)
ASSUME ValuesAssumption == Values \subseteq Int
ASSUME MessagesAssumption ==
  \A lines \in Messages :
    DOMAIN lines \subseteq 0 .. 3 /\ \A r \in DOMAIN lines : lines[r] \in Texts
ASSUME RestartsAssumption == MAX_RESTARTS \in Nat

VARIABLES
  lcd_mutex,      \* the thread that holds it, or Nobody
  sending,        \* for each thread, the nibbles it has still to send
  server,         \* "down", "init" while lcd_init is run, or "up"
  restarts,
  display         \* see PowerOn

vars == <<lcd_mutex, sending, server, restarts, display>>

-----------------------------------------------------------------------------
\* The display.

LCD_ROWS == 0 .. 3
Space == 32
\* Faulty variant of line_offsets: they are commands, and are made commands again.
line_commands == [r \in LCD_ROWS |-> 128 + (r % 2) * 64 + (r \div 2) * LCD_COLS]

line_offsets == [r \in LCD_ROWS |-> (r % 2) * 64 + (r \div 2) * LCD_COLS]

Cells == {line_offsets[r] + c : r \in LCD_ROWS, c \in 0 .. LCD_COLS - 1}
Blank == [a \in Cells |-> Space]

\* Custom characters, eight bytes each from address 8 on; bit 16 is the left column.
bargraph_chars == <<16, 24, 28, 30, 31>>
GlyphBytes == 8 .. 47
Glyphs == [a \in GlyphBytes |-> bargraph_chars[a \div 8]]

NoHalf == [rs |-> 0, n |-> -1]

\* Eight wires, of which four are connected, until it is told otherwise.
PowerOn ==
  [width |-> 8, half |-> NoHalf, ram |-> "text", at |-> 0, cells |-> Blank,
   glyphs |-> [a \in GlyphBytes |-> 0]]

\* The two lines of the display's memory follow each other.
After(a) ==
  IF a = 2 * LCD_COLS - 1 THEN 64
  ELSE IF a = 64 + 2 * LCD_COLS - 1 THEN 0 ELSE (a + 1) % 128

\* What a byte does: a character, or a command.
Executed(d, rs, byte) ==
  CASE rs = 1 /\ d.ram = "text" ->
         [d EXCEPT !.cells = [a \in Cells |-> IF a = d.at THEN byte ELSE @[a]],
                   !.at = After(@)]
    [] rs = 1 /\ d.ram = "glyphs" ->
         [d EXCEPT !.glyphs = [a \in GlyphBytes |-> IF a = d.at THEN byte ELSE @[a]],
                   !.at = (@ + 1) % 64]
    [] rs = 0 /\ byte >= 128 -> [d EXCEPT !.ram = "text", !.at = byte - 128]
    [] rs = 0 /\ byte \in 64 .. 127 -> [d EXCEPT !.ram = "glyphs", !.at = byte - 64]
    [] rs = 0 /\ byte \in 32 .. 63 -> [d EXCEPT !.width = IF byte >= 48 THEN 8 ELSE 4]
    [] rs = 0 /\ byte \in 2 .. 3 -> [d EXCEPT !.ram = "text", !.at = 0]
    [] rs = 0 /\ byte = 1 -> [d EXCEPT !.ram = "text", !.at = 0, !.cells = Blank]
    [] OTHER -> d

\* What the display may be when a nibble is latched: if those of a byte differ in rs,
\* either may count.
Latched(d, nibble) ==
  IF d.width = 8 THEN {Executed(d, nibble.rs, 16 * nibble.n)}
  ELSE IF d.half = NoHalf THEN {[d EXCEPT !.half = nibble]}
  ELSE {Executed([d EXCEPT !.half = NoHalf], rs, 16 * d.half.n + nibble.n) :
          rs \in {d.half.rs, nibble.rs}}

-----------------------------------------------------------------------------
\* What the calls send.

lcd_send_nibble(n) == <<[rs |-> 0, n |-> n]>>
lcd_send_bytes(bytes, rs) ==
  [i \in 1 .. 2 * Len(bytes) |->
     [rs |-> rs, n |-> IF i % 2 = 1 THEN bytes[(i + 1) \div 2] \div 16
                       ELSE bytes[i \div 2] % 16]]

Command(byte) == lcd_send_bytes(<<byte>>, 0)
SetAddress(line) == Command(128 + line_offsets[line])
LCD_CLEAR == 1
LCD_ENTRY_MODE == 6
LCD_DISPLAY_ON == 12
LCD_FUNCTION_SET == 40
LCD_SET_CGRAM == 64

lcd_write_string_no_lock(str, line) ==
  SetAddress(line)
    \o lcd_send_bytes([c \in 1 .. LCD_COLS |-> IF c <= Len(str) THEN str[c] ELSE Space], 1)

\* A line of a message, as it is put into the buffer.
centred(str) ==
  LET len == IF Len(str) > LCD_COLS THEN LCD_COLS ELSE Len(str)
      padding == (LCD_COLS - len) \div 2
  IN  [c \in 1 .. LCD_COLS |->
         IF c > padding /\ c <= padding + len THEN str[c - padding] ELSE Space]

lcd_write_centred_lines(lines) ==
  LET line(r) == IF r \in DOMAIN lines THEN lcd_write_string_no_lock(centred(lines[r]), r) ELSE <<>>
  IN  line(0) \o line(1) \o line(2) \o line(3)

bar(value) ==
  LET shown == IF value < 0 THEN 0 ELSE IF value > 5 * LCD_COLS THEN 5 * LCD_COLS ELSE value
      full_blocks == shown \div 5
      partial == shown % 5
  IN  [c \in 1 .. LCD_COLS |->
         IF c <= full_blocks THEN 5
         ELSE IF partial > 0 /\ c = full_blocks + 1 THEN partial ELSE Space]

\* Faulty variant of wake_up: the display is taken to be at the start of a byte.
wake_up_short == lcd_send_nibble(2)

wake_up ==
  lcd_send_nibble(3) \o lcd_send_nibble(3) \o lcd_send_nibble(3) \o lcd_send_nibble(2)

init_sequence ==
  wake_up \o Command(LCD_FUNCTION_SET)
    \o Command(LCD_SET_CGRAM + 8)
    \o lcd_send_bytes([i \in 1 .. 40 |-> bargraph_chars[(i + 7) \div 8]], 1)
    \o Command(128) \o Command(LCD_DISPLAY_ON) \o Command(LCD_CLEAR) \o Command(LCD_ENTRY_MODE)

-----------------------------------------------------------------------------
Init ==
  /\ lcd_mutex = Nobody
  /\ sending = [t \in Threads |-> <<>>]
  /\ server = "down" /\ restarts = 0
  /\ display = PowerOn

\* lcd_init, which does not lock: nobody else writes yet.
StartServer ==
  /\ server = "down"
  /\ server' = "init"
  /\ sending' = [sending EXCEPT ![Main] = init_sequence]
  /\ UNCHANGED <<lcd_mutex, restarts, display>>

Initialised ==
  /\ server = "init" /\ sending[Main] = <<>>
  /\ server' = "up"
  /\ UNCHANGED <<lcd_mutex, sending, restarts, display>>

\* Faulty variant of Locked: the lock is not waited for.
NotWaited(t, nibbles) ==
  /\ server = "up" /\ sending[t] = <<>>
  /\ lcd_mutex' = t
  /\ sending' = [sending EXCEPT ![t] = nibbles]
  /\ UNCHANGED <<server, restarts, display>>

\* A call takes the lock; what it sends follows from its arguments.  Rows are always
\* given in range.
Locked(t, nibbles) ==
  /\ server = "up" /\ lcd_mutex = Nobody
  /\ lcd_mutex' = t
  /\ sending' = [sending EXCEPT ![t] = nibbles]
  /\ UNCHANGED <<server, restarts, display>>

lcd_write_string(t) ==
  \E line \in Rows, str \in Texts : Locked(t, lcd_write_string_no_lock(str, line))

lcd_display_bargraph(t) ==
  \E row \in Rows, value \in Values : Locked(t, SetAddress(row) \o lcd_send_bytes(bar(value), 1))

lcd_display_message(t) ==
  \E lines \in Messages : Locked(t, Command(LCD_CLEAR) \o lcd_write_centred_lines(lines))

lcd_display_message_no_flash(t) ==
  \E lines \in Messages : Locked(t, lcd_write_centred_lines(lines))

lcd_clear(t) == Locked(t, Command(LCD_CLEAR))

\* The next nibble that t sends.
Send(t) ==
  /\ sending[t] # <<>>
  /\ display' \in Latched(display, Head(sending[t]))
  /\ sending' = [sending EXCEPT ![t] = Tail(@)]
  /\ UNCHANGED <<lcd_mutex, server, restarts>>

Unlock(t) ==
  /\ lcd_mutex = t /\ sending[t] = <<>>
  /\ lcd_mutex' = Nobody
  /\ UNCHANGED <<sending, server, restarts, display>>

\* exit in any thread, from the menu or for an error, or a crash.
EndServer ==
  /\ server # "down" /\ restarts < MAX_RESTARTS
  /\ server' = "down" /\ restarts' = restarts + 1
  /\ lcd_mutex' = Nobody
  /\ sending' = [t \in Threads |-> <<>>]
  /\ UNCHANGED display

Next ==
  \/ StartServer \/ Initialised \/ EndServer
  \/ \E t \in Threads :
       \/ lcd_write_string(t) \/ lcd_display_bargraph(t) \/ lcd_display_message(t)
       \/ lcd_display_message_no_flash(t) \/ lcd_clear(t) \/ Send(t) \/ Unlock(t)

Spec == Init /\ [][Next]_vars

-----------------------------------------------------------------------------
TypeOK ==
  /\ lcd_mutex \in Threads \cup {Nobody}
  /\ \A t \in Threads : \A i \in DOMAIN sending[t] :
       sending[t][i].rs \in {0, 1} /\ sending[t][i].n \in 0 .. 15
  /\ server \in {"down", "init", "up"} /\ restarts \in 0 .. MAX_RESTARTS
  /\ display.width \in {4, 8} /\ display.ram \in {"text", "glyphs"} /\ display.at \in 0 .. 127
  /\ display.cells \in [Cells -> 0 .. 255] /\ display.glyphs \in [GlyphBytes -> 0 .. 255]

\* Whatever the display was in the middle of when the server ended, after lcd_init it
\* has the characters that bars are made of.
GlyphsLoaded == server = "up" => display.glyphs = Glyphs

\* What the display may be when the nibbles are sent, if it may be any of D before.
Outcomes(D, nibbles) ==
  LET after[k \in 0 .. Len(nibbles)] ==
        IF k = 0 THEN D ELSE UNION {Latched(d, nibbles[k]) : d \in after[k - 1]}
  IN  after[Len(nibbles)]

\* What the rows show when the thread that holds the lock has sent the rest.
Rest == IF lcd_mutex = Nobody THEN <<>> ELSE sending[lcd_mutex]
Shown ==
  LET last == CHOOSE d \in Outcomes({display}, Rest) : TRUE
  IN  [r \in LCD_ROWS |-> [c \in 1 .. LCD_COLS |->
         IF server = "up" THEN last.cells[line_offsets[r] + c - 1] ELSE Space]]

\* "The lock is held for the entire operation ... otherwise a bargraph write landing
\* between the clear and the writes would corrupt the display": half bytes, addresses
\* and restarts make a screen whose rows are changed by one whole call at a time.
AsScreen == INSTANCE Screen WITH rows <- Shown

ScreenIsKept == AsScreen!Spec
=============================================================================
