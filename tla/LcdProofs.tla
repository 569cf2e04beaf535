----------------------------- MODULE LcdProofs -----------------------------
(***************************************************************************)
(* Proofs about Lcd: what the calls compute is what Screen says, for every *)
(* text and value; one thread at a time is on the wires; and the display,  *)
(* wherever the server was cut off, keeps to its bytes, has its glyphs and *)
(* shows a screen that one whole call at a time changes.                   *)
(***************************************************************************)
EXTENDS Lcd, SequenceTheorems, WellFoundedInduction, TLAPS

\* A bar shows its value to the cell and the fifth of a cell, below and above the scale
\* too, as the definition by cells says that does not count blocks.
THEOREM BarIsExact == \A value \in Int : bar(value) = AsScreen!Bar(value)
<1> SUFFICES ASSUME NEW value \in Int, NEW c \in 1 .. LCD_COLS
             PROVE  bar(value)[c] = AsScreen!Bar(value)[c]
  BY DEF bar, AsScreen!Bar
<1>1. LCD_COLS \in 1 .. 20
  BY ColsAssumption
<1> DEFINE shown == IF value < 0 THEN 0 ELSE IF value > 5 * LCD_COLS THEN 5 * LCD_COLS ELSE value
           q == shown \div 5
           r == shown % 5
<1>2. /\ shown \in 0 .. 5 * LCD_COLS /\ q \in Int /\ r \in 0 .. 4 /\ shown = 5 * q + r
  BY <1>1
<1>3. bar(value)[c] = IF c <= q THEN 5 ELSE IF r > 0 /\ c = q + 1 THEN r ELSE 32
  BY DEF bar, Space
<1>4. AsScreen!Bar(value)[c] = IF value - 5 * (c - 1) <= 0 THEN 32
                               ELSE IF value - 5 * (c - 1) >= 5 THEN 5 ELSE value - 5 * (c - 1)
  BY DEF AsScreen!Bar, AsScreen!Space
<1> HIDE DEF q, r
<1> QED
  BY <1>1, <1>2, <1>3, <1>4

\* A line of a message is in the middle of its row, and cut if it is too long.
THEOREM LinesAreCentred ==
  \A str \in Seq(1 .. 255) : centred(str) = AsScreen!Centred(str)
<1> SUFFICES ASSUME NEW str \in Seq(1 .. 255)
             PROVE  centred(str) = AsScreen!Centred(str)
  OBVIOUS
<1> DEFINE len == IF Len(str) > LCD_COLS THEN LCD_COLS ELSE Len(str)
           shown == IF Len(str) < LCD_COLS THEN Len(str) ELSE LCD_COLS
           spare == LCD_COLS - shown
           P(m) == LET right == LCD_COLS - shown - m IN right \in {m, m + 1}
           padding == (LCD_COLS - len) \div 2
           left == CHOOSE m \in 0 .. LCD_COLS : P(m)
<1>1. LCD_COLS \in 1 .. 20 /\ Len(str) \in Nat
  BY ColsAssumption
<1>2. len = shown /\ shown \in 0 .. LCD_COLS
  BY <1>1
<1>3. padding \in 0 .. LCD_COLS /\ P(padding)
  <2>1. spare \in 0 .. LCD_COLS /\ LCD_COLS - len = spare
    BY <1>1, <1>2
  <2> HIDE DEF spare, len
  <2>2. padding = spare \div 2
    BY <2>1
  <2> HIDE DEF padding
  <2>3. \A n \in 0 .. 20 : /\ n \div 2 \in 0 .. n
                           /\ n = 2 * (n \div 2) \/ n = 2 * (n \div 2) + 1
    OBVIOUS
  <2>4. padding \in 0 .. spare /\ (spare = 2 * padding \/ spare = 2 * padding + 1)
    BY <1>1, <2>1, <2>2, <2>3
  <2>5. spare - padding \in {padding, padding + 1}
    BY <1>1, <2>1, <2>4
  <2> QED
    BY <1>1, <2>1, <2>4, <2>5 DEF spare
<1>4. left \in 0 .. LCD_COLS /\ P(left)
  BY <1>3
<1>5. left = padding
  <2>1. \A m, n \in 0 .. LCD_COLS : P(m) /\ P(n) => m = n
    BY <1>1, <1>2
  <2> HIDE DEF P, left, padding
  <2> QED
    BY <1>3, <1>4, <2>1
<1>6. centred(str) = [c \in 1 .. LCD_COLS |->
         IF c > padding /\ c <= padding + len THEN str[c - padding] ELSE 32]
  BY DEF centred, Space
<1>7. AsScreen!Centred(str) =
        [c \in 1 .. LCD_COLS |-> IF c - left \in 1 .. shown THEN str[c - left] ELSE 32]
  BY DEF AsScreen!Centred, AsScreen!Space
<1> HIDE DEF left, padding, len, shown
<1>8. \A c \in 1 .. LCD_COLS :
        (c > padding /\ c <= padding + len) <=> c - left \in 1 .. shown
  BY <1>1, <1>2, <1>3, <1>5
<1> QED
  BY <1>5, <1>6, <1>7, <1>8

-----------------------------------------------------------------------------
\* Only the thread that holds lcd_mutex has anything left to send; during lcd_init,
\* which does not take it, only main has.
OneSender ==
  \A t \in Threads : sending[t] # <<>> => t = lcd_mutex \/ (server = "init" /\ t = Main)

\* Nobody holds the lock while the server is not up, so that what main has left of
\* lcd_init cannot meet a call.
SenderInv ==
  /\ sending = [t \in Threads |-> sending[t]]
  /\ OneSender
  /\ server # "up" => lcd_mutex = Nobody
  /\ server = "up" => \A t \in Threads : sending[t] # <<>> => t = lcd_mutex

LEMMA SenderInit == Init => SenderInv
  BY DEF Init, SenderInv, OneSender

LEMMA LockedSender ==
  ASSUME SenderInv, NEW t \in Threads, NEW nibbles, Locked(t, nibbles)
  PROVE  SenderInv'
<1>1. \A u \in Threads : u # t => sending'[u] = sending[u]
  BY DEF Locked, SenderInv
<1>2. \A u \in Threads : sending[u] = <<>>
  BY ThreadsAssumption DEF Locked, SenderInv
<1>3. sending' = [u \in Threads |-> sending'[u]]
  BY DEF Locked, SenderInv
<1> QED
  BY <1>1, <1>2, <1>3 DEF Locked, SenderInv, OneSender

LEMMA SenderStep == SenderInv /\ [Next]_vars => SenderInv'
<1> SUFFICES ASSUME SenderInv, [Next]_vars
             PROVE  SenderInv'
  OBVIOUS
<1>1. CASE StartServer
  BY <1>1 DEF StartServer, SenderInv, OneSender
<1>2. CASE Initialised
  BY <1>2 DEF Initialised, SenderInv, OneSender
<1>3. CASE EndServer
  BY <1>3 DEF EndServer, SenderInv, OneSender
<1>4. ASSUME NEW t \in Threads,
             \/ lcd_write_string(t) \/ lcd_display_bargraph(t) \/ lcd_display_message(t)
             \/ lcd_display_message_no_flash(t) \/ lcd_clear(t)
      PROVE  SenderInv'
  <2>1. \E nibbles : Locked(t, nibbles)
    BY <1>4 DEF lcd_write_string, lcd_display_bargraph, lcd_display_message,
                lcd_display_message_no_flash, lcd_clear
  <2> QED
    BY <2>1, LockedSender
<1>5. ASSUME NEW t \in Threads, Send(t)
      PROVE  SenderInv'
  <2>1. sending[t] # <<>> /\ UNCHANGED <<lcd_mutex, server>>
    BY <1>5 DEF Send
  <2>2. \A u \in Threads : sending'[u] # <<>> => sending[u] # <<>>
    BY <1>5, <2>1 DEF Send, SenderInv
  <2>3. sending' = [u \in Threads |-> sending'[u]]
    BY <1>5 DEF Send, SenderInv
  <2> QED
    BY <2>1, <2>2, <2>3 DEF SenderInv, OneSender
<1>6. ASSUME NEW t \in Threads, Unlock(t)
      PROVE  SenderInv'
  BY <1>6 DEF Unlock, SenderInv, OneSender
<1>7. CASE UNCHANGED vars
  BY <1>7 DEF vars, SenderInv, OneSender
<1> QED
  BY <1>1, <1>2, <1>3, <1>4, <1>5, <1>6, <1>7 DEF Next

\* However many threads there are and whatever they write, the wires carry the nibbles
\* of one call at a time.
THEOREM OneOnTheWires == Spec => []OneSender
<1>1. SenderInv => OneSender
  BY DEF SenderInv
<1> QED
  BY <1>1, SenderInit, SenderStep, PTL DEF Spec

-----------------------------------------------------------------------------
(* The display is at the start of a byte whenever a call begins, and loses *)
(* its glyphs to none: what TypeOK and GlyphsLoaded rest on.               *)

Bit == {0, 1}
Byte == 0 .. 255
Nibble == [rs : Bit, n : 0 .. 15]

Display ==
  [width : {4, 8}, half : Nibble \cup {NoHalf}, ram : {"text", "glyphs"}, at : 0 .. 127,
   cells : [Cells -> 0 .. 255], glyphs : [GlyphBytes -> 0 .. 255]]

\* TypeOK, with the half byte; a display with eight wires never waits for one.
TypeInv ==
  /\ lcd_mutex \in Threads \cup {Nobody}
  /\ sending \in [Threads -> Seq(Nibble)]
  /\ server \in {"down", "init", "up"} /\ restarts \in 0 .. MAX_RESTARTS
  /\ display \in Display
  /\ display.width = 8 => display.half = NoHalf

\* Two halves of a byte that is no command, or one of those that calls send.
Harmless(hi, lo) ==
  /\ hi.rs = lo.rs
  /\ hi.rs = 1 \/ 16 * hi.n + lo.n >= 128 \/ 16 * hi.n + lo.n = LCD_CLEAR

\* Every nibble with an odd number behind it is the first of such a byte.
InPairs(s) == \A i \in 1 .. Len(s) : (Len(s) - i) % 2 = 1 => Harmless(s[i], s[i + 1])

\* The display waits for the other half exactly while an odd number is left.
InStep(d, s) ==
  IF Len(s) % 2 = 0 THEN d.half = NoHalf ELSE d.half \in Nibble /\ Harmless(d.half, s[1])

UpInv ==
  server = "up" =>
    /\ display.width = 4 /\ display.ram = "text" /\ display.glyphs = Glyphs
    /\ IF lcd_mutex = Nobody THEN display.half = NoHalf
       ELSE InPairs(sending[lcd_mutex]) /\ InStep(display, sending[lcd_mutex])

\* lcd_init, by the number of nibbles sent: four to get in step, then 44 bytes.
InitLen == 96
Sent == InitLen - Len(sending[Main])

\* The first two nibbles end whatever byte was begun, and with the third the display
\* takes the three for one command, or the last two, or the last.
WakingUp(k, d) ==
  /\ k = 1 => d.width = 8 \/ d.half \in {NoHalf, [rs |-> 0, n |-> 3]}
  /\ k = 2 => d.width = 8 \/ d.half = [rs |-> 0, n |-> 3]
  /\ k = 3 => d.width = 8

\* Of b bytes, those from the fifth on are glyphs and go to address 8 and after; with
\* the 47th what the display may have shown is gone.
Loading(b, d) ==
  /\ b \in 4 .. 44 => d.ram = "glyphs" /\ d.at = b + 4
  /\ b >= 45 => d.ram = "text"
  /\ b >= 4 => \A a \in GlyphBytes : a < b + 4 => d.glyphs[a] = Glyphs[a]
  /\ b >= 47 => d.cells = Blank

Prepared(k, d) ==
  /\ WakingUp(k, d)
  /\ k >= 4 => /\ d.width = 4
               /\ d.half = IF k % 2 = 0 THEN NoHalf ELSE init_sequence[k]
               /\ Loading(k \div 2, d)

InitInv ==
  server = "init" =>
    /\ Sent \in 0 .. InitLen
    /\ \A i \in 1 .. Len(sending[Main]) : sending[Main][i] = init_sequence[Sent + i]
    /\ Prepared(Sent, display)

LcdInv == UpInv /\ InitInv

LEMMA InvInit == Init => TypeInv /\ LcdInv
<1> SUFFICES ASSUME Init PROVE TypeInv /\ LcdInv
  OBVIOUS
<1>1. <<>> \in Seq(Nibble) /\ Blank \in [Cells -> 0 .. 255]
  BY DEF Blank, Space
<1>2. PowerOn \in Display /\ PowerOn.half = NoHalf
  BY <1>1 DEF PowerOn, Display
<1> QED
  BY <1>1, <1>2, RestartsAssumption DEF Init, TypeInv, LcdInv, UpInv, InitInv

-----------------------------------------------------------------------------
\* What a byte does, whatever the display is.
LEMMA Execution ==
  ASSUME NEW d \in Display, NEW rs \in Bit, NEW byte \in Byte
  PROVE  /\ Executed(d, rs, byte) \in Display
         /\ Executed(d, rs, byte).half = d.half
         /\ Executed(d, rs, byte).width =
              IF rs = 0 /\ byte \in 32 .. 63 THEN (IF byte >= 48 THEN 8 ELSE 4) ELSE d.width
         /\ rs = 1 \/ byte \notin 2 .. 127 => 
              Executed(d, rs, byte).ram = (IF rs = 1 \/ byte = 0 THEN d.ram ELSE "text")
         /\ rs = 0 \/ d.ram = "text" => Executed(d, rs, byte).glyphs = d.glyphs
<1>0. rs \in {0, 1} /\ byte \in 0 .. 255
  BY DEF Bit, Byte
<1>1. \A a \in 0 .. 127 : After(a) \in 0 .. 127
  BY ColsAssumption DEF After
<1> DEFINE e == Executed(d, rs, byte)
<1>2. CASE rs = 1 /\ d.ram = "text"
  <2> DEFINE new == [a \in Cells |-> IF a = d.at THEN byte ELSE d.cells[a]]
  <2>1. e = [d EXCEPT !.cells = new, !.at = After(d.at)]
    BY <1>2 DEF Executed
  <2>2. new \in [Cells -> 0 .. 255] /\ d.at \in 0 .. 127
    BY <1>0 DEF Display
  <2> HIDE DEF new, e
  <2>3. After(d.at) \in 0 .. 127
    BY <1>1, <2>2
  <2>4. e \in Display
    BY <2>1, <2>2, <2>3 DEF Display
  <2>5. e.half = d.half /\ e.width = d.width /\ e.ram = d.ram /\ e.glyphs = d.glyphs
    BY <2>1 DEF Display
  <2> QED
    BY <1>2, <2>4, <2>5 DEF e
<1>3. CASE rs = 1 /\ d.ram = "glyphs"
  <2> DEFINE new == [a \in GlyphBytes |-> IF a = d.at THEN byte ELSE d.glyphs[a]]
  <2>1. e = [d EXCEPT !.glyphs = new, !.at = (d.at + 1) % 64]
    BY <1>3 DEF Executed
  <2>2. new \in [GlyphBytes -> 0 .. 255] /\ (d.at + 1) % 64 \in 0 .. 127
    BY <1>0 DEF Display
  <2> HIDE DEF new, e
  <2>3. e \in Display
    BY <2>1, <2>2 DEF Display
  <2>4. e.half = d.half /\ e.width = d.width /\ e.ram = d.ram
    BY <2>1 DEF Display
  <2> QED
    BY <1>3, <2>3, <2>4 DEF e
<1>4. CASE rs = 0 /\ byte >= 128
  <2>1. e = [d EXCEPT !.ram = "text", !.at = byte - 128]
    BY <1>4 DEF Executed
  <2>2. byte - 128 \in 0 .. 127
    BY <1>0, <1>4
  <2> HIDE DEF e
  <2>3. e \in Display
    BY <2>1, <2>2 DEF Display
  <2>4. e.half = d.half /\ e.width = d.width /\ e.ram = "text" /\ e.glyphs = d.glyphs
    BY <2>1 DEF Display
  <2> QED
    BY <1>4, <2>3, <2>4 DEF e
<1>5. CASE rs = 0 /\ byte \in 64 .. 127
  <2>1. e = [d EXCEPT !.ram = "glyphs", !.at = byte - 64]
    BY <1>5 DEF Executed
  <2>2. byte - 64 \in 0 .. 127
    BY <1>0, <1>5
  <2> HIDE DEF e
  <2>3. e \in Display
    BY <2>1, <2>2 DEF Display
  <2>4. e.half = d.half /\ e.width = d.width /\ e.glyphs = d.glyphs
    BY <2>1 DEF Display
  <2> QED
    BY <1>5, <2>3, <2>4 DEF e
<1>6. CASE rs = 0 /\ byte \in 32 .. 63
  <2>1. e = [d EXCEPT !.width = IF byte >= 48 THEN 8 ELSE 4]
    BY <1>6 DEF Executed
  <2>2. (IF byte >= 48 THEN 8 ELSE 4) \in {4, 8}
    BY <1>0, <1>6
  <2> HIDE DEF e
  <2>3. e \in Display
    BY <2>1, <2>2 DEF Display
  <2>4. e.half = d.half /\ e.width = (IF byte >= 48 THEN 8 ELSE 4) /\ e.glyphs = d.glyphs
    BY <2>1 DEF Display
  <2> QED
    BY <1>6, <2>3, <2>4 DEF e
<1>7. CASE rs = 0 /\ byte \in 2 .. 3
  <2>1. e = [d EXCEPT !.ram = "text", !.at = 0]
    BY <1>7 DEF Executed
  <2>2. 0 \in 0 .. 127
    BY <1>0, <1>7
  <2> HIDE DEF e
  <2>3. e \in Display
    BY <2>1, <2>2 DEF Display
  <2>4. e.half = d.half /\ e.width = d.width /\ e.glyphs = d.glyphs
    BY <2>1 DEF Display
  <2> QED
    BY <1>7, <2>3, <2>4 DEF e
<1>8. CASE rs = 0 /\ byte = 1
  <2>1. e = [d EXCEPT !.ram = "text", !.at = 0, !.cells = Blank]
    BY <1>8 DEF Executed
  <2>2. Blank \in [Cells -> 0 .. 255]
    BY DEF Blank, Space
  <2> HIDE DEF e
  <2>3. /\ e.half = d.half /\ e.width = d.width /\ e.ram = "text" /\ e.glyphs = d.glyphs
        /\ e.at = 0 /\ e.cells = Blank
        /\ e = [width |-> e.width, half |-> e.half, ram |-> e.ram, at |-> e.at, cells |-> e.cells,
                glyphs |-> e.glyphs]
    BY <2>1 DEF Display
  <2>4. e \in Display
    BY <2>2, <2>3 DEF Display
  <2> QED
    BY <1>8, <2>3, <2>4 DEF e
<1>9. CASE rs = 0 /\ byte \in {0} \cup 4 .. 31
  <2>1. /\ ~(byte >= 128) /\ byte \notin 64 .. 127 /\ byte \notin 32 .. 63 /\ byte \notin 2 .. 3
        /\ byte # 1 /\ rs # 1
    BY <1>9
  <2>2. e = d
    BY <2>1 DEF Executed
  <2> HIDE DEF e
  <2> QED
    BY <1>9, <2>1, <2>2 DEF e
<1>10. d.ram \in {"text", "glyphs"}
  BY DEF Display
<1> HIDE DEF e
<1> QED
  BY <1>0, <1>2, <1>3, <1>4, <1>5, <1>6, <1>7, <1>8, <1>9, <1>10

\* What a nibble does: with eight wires it is a command, with four half of a byte.
LEMMA Latching ==
  ASSUME NEW d \in Display, d.width = 8 => d.half = NoHalf, NEW nibble \in Nibble,
         NEW e \in Latched(d, nibble)
  PROVE  /\ e \in Display
         /\ e.width = 8 => e.half = NoHalf
         /\ d.width = 8 => e = Executed(d, nibble.rs, 16 * nibble.n)
         /\ d.width = 4 /\ d.half = NoHalf => e = [d EXCEPT !.half = nibble]
         /\ d.width = 4 /\ d.half # NoHalf =>
              /\ d.half \in Nibble
              /\ \E rs \in {d.half.rs, nibble.rs} :
                   e = Executed([d EXCEPT !.half = NoHalf], rs, 16 * d.half.n + nibble.n)
<1>1. nibble.rs \in Bit /\ nibble.n \in 0 .. 15 /\ d.width \in {4, 8} /\ d.half \in Nibble \cup {NoHalf}
  BY DEF Nibble, Display
<1>2. CASE d.width = 8
  <2> DEFINE byte == 16 * nibble.n
  <2>1. e = Executed(d, nibble.rs, byte)
    BY <1>2 DEF Latched
  <2>2. byte \in Byte
    BY <1>1 DEF Byte
  <2> HIDE DEF byte
  <2>3. e \in Display /\ e.half = d.half
    BY <1>1, <2>1, <2>2, Execution
  <2> USE DEF byte
  <2> QED
    BY <1>2, <2>1, <2>3
<1>3. CASE d.width = 4 /\ d.half = NoHalf
  BY <1>1, <1>3 DEF Latched, Display
<1>4. CASE d.width = 4 /\ d.half # NoHalf
  <2> DEFINE c == [d EXCEPT !.half = NoHalf]
  <2>1. c \in Display /\ c.half = NoHalf
    BY DEF Display
  <2>2. d.half \in Nibble /\ d.half.rs \in Bit /\ d.half.n \in 0 .. 15
    BY <1>1, <1>4 DEF Nibble
  <2> DEFINE byte == 16 * d.half.n + nibble.n
  <2>3. PICK rs \in {d.half.rs, nibble.rs} : e = Executed(c, rs, byte)
    BY <1>4 DEF Latched
  <2>4. byte \in Byte /\ rs \in Bit
    BY <1>1, <2>2 DEF Byte
  <2>5. e \in Display /\ e.half = NoHalf
    <3> HIDE DEF c, byte
    <3> QED
      BY <2>1, <2>3, <2>4, Execution
  <2> QED
    BY <1>4, <2>2, <2>3, <2>5
<1> QED
  BY <1>1, <1>2, <1>3, <1>4

-----------------------------------------------------------------------------
\* The two halves of each byte.
LEMMA Halves ==
  ASSUME NEW bytes \in Seq(Byte), NEW rs \in Bit
  PROVE  /\ lcd_send_bytes(bytes, rs) \in Seq(Nibble)
         /\ Len(lcd_send_bytes(bytes, rs)) = 2 * Len(bytes)
         /\ \A j \in 1 .. Len(bytes) :
              /\ lcd_send_bytes(bytes, rs)[2 * j - 1] = [rs |-> rs, n |-> bytes[j] \div 16]
              /\ lcd_send_bytes(bytes, rs)[2 * j] = [rs |-> rs, n |-> bytes[j] % 16]
<1> DEFINE L == 2 * Len(bytes)
           f(i) == [rs |-> rs, n |-> IF i % 2 = 1 THEN bytes[(i + 1) \div 2] \div 16
                                     ELSE bytes[i \div 2] % 16]
           s == [i \in 1 .. L |-> f(i)]
<1>1. Len(bytes) \in Nat /\ L \in Nat
  OBVIOUS
<1>2. \A j \in 1 .. Len(bytes) : bytes[j] \in 0 .. 255
  BY ElementOfSeq DEF Byte
<1>3. \A b \in 0 .. 255 : b \div 16 \in 0 .. 15 /\ b % 16 \in 0 .. 15
  OBVIOUS
<1>4. \A i \in 1 .. L : f(i) \in Nibble
  <2> SUFFICES ASSUME NEW i \in 1 .. L PROVE f(i) \in Nibble
    OBVIOUS
  <2>1. CASE i % 2 = 1
    <3> DEFINE k == (i + 1) \div 2
    <3>1. k \in 1 .. Len(bytes) /\ f(i) = [rs |-> rs, n |-> bytes[k] \div 16]
      BY <1>1, <2>1
    <3> HIDE DEF k, f
    <3>2. bytes[k] \in 0 .. 255
      BY <1>2, <3>1
    <3>3. bytes[k] \div 16 \in 0 .. 15
      BY <1>3, <3>2
    <3> QED
      BY <3>1, <3>3 DEF Nibble
  <2>2. CASE i % 2 = 0
    <3> DEFINE k == i \div 2
    <3>1. k \in 1 .. Len(bytes) /\ f(i) = [rs |-> rs, n |-> bytes[k] % 16]
      BY <1>1, <2>2
    <3> HIDE DEF k, f
    <3>2. bytes[k] \in 0 .. 255
      BY <1>2, <3>1
    <3>3. bytes[k] % 16 \in 0 .. 15
      BY <1>3, <3>2
    <3> QED
      BY <3>1, <3>3 DEF Nibble
  <2> QED
    BY <1>1, <2>1, <2>2
<1>5. lcd_send_bytes(bytes, rs) = s
  BY DEF lcd_send_bytes
<1>6. \A j \in 1 .. Len(bytes) :
        /\ 2 * j - 1 \in 1 .. L /\ (2 * j - 1) % 2 = 1 /\ (2 * j - 1 + 1) \div 2 = j
        /\ 2 * j \in 1 .. L /\ (2 * j) % 2 = 0 /\ (2 * j) \div 2 = j
  BY <1>1
<1>7. \A j \in 1 .. Len(bytes) :
        /\ f(2 * j - 1) = [rs |-> rs, n |-> bytes[j] \div 16]
        /\ f(2 * j) = [rs |-> rs, n |-> bytes[j] % 16]
  BY <1>6
<1> HIDE DEF L, f
<1>8. s \in Seq(Nibble) /\ Len(s) = L
  BY <1>1, <1>4, IsASeq
<1> QED
  BY <1>5, <1>6, <1>7, <1>8 DEF L

\* A sequence of nibbles sends the byte as its b-th; it makes m bytes; it is sent on
\* after m bytes.
Sends(s, b, rs, byte) ==
  /\ s[2 * b - 1] = [rs |-> rs, n |-> byte \div 16]
  /\ s[2 * b] = [rs |-> rs, n |-> byte % 16]
Makes(s, m) == s \in Seq(Nibble) /\ Len(s) = 2 * m
Begins(s, t, m) == \A i \in 1 .. 2 * m : t[i] = s[i]

LEMMA Joined ==
  ASSUME NEW s \in Seq(Nibble), NEW r \in Seq(Nibble)
  PROVE  /\ s \o r \in Seq(Nibble)
         /\ Len(s \o r) = Len(s) + Len(r)
         /\ \A i \in 1 .. Len(s) + Len(r) : (s \o r)[i] = IF i <= Len(s) THEN s[i] ELSE r[i - Len(s)]
BY ConcatProperties

\* Bytes sent after m others.
LEMMA Following ==
  ASSUME NEW s, NEW m \in Nat, Makes(s, m), NEW bytes \in Seq(Byte), NEW rs \in Bit
  PROVE  LET t == s \o lcd_send_bytes(bytes, rs)
         IN  /\ Makes(t, m + Len(bytes))
             /\ Begins(s, t, m)
             /\ \A j \in 1 .. Len(bytes) : Sends(t, m + j, rs, bytes[j])
<1> DEFINE r == lcd_send_bytes(bytes, rs)
           t == s \o r
           L == Len(bytes)
<1>1. /\ r \in Seq(Nibble) /\ Len(r) = 2 * L
      /\ \A j \in 1 .. L : r[2 * j - 1] = [rs |-> rs, n |-> bytes[j] \div 16]
                           /\ r[2 * j] = [rs |-> rs, n |-> bytes[j] % 16]
  BY Halves
<1>2. L \in Nat /\ s \in Seq(Nibble) /\ Len(s) = 2 * m
  BY DEF Makes
<1> HIDE DEF r, L
<1>3. /\ t \in Seq(Nibble) /\ Len(t) = 2 * m + 2 * L
      /\ \A i \in 1 .. 2 * m + 2 * L : t[i] = IF i <= 2 * m THEN s[i] ELSE r[i - 2 * m]
  <2>1. /\ t \in Seq(Nibble) /\ Len(t) = Len(s) + Len(r)
        /\ \A i \in 1 .. Len(s) + Len(r) : t[i] = IF i <= Len(s) THEN s[i] ELSE r[i - Len(s)]
    BY <1>1, <1>2, Joined
  <2> HIDE DEF t
  <2> QED
    BY <1>1, <1>2, <2>1
<1> HIDE DEF t
<1>4. Begins(s, t, m)
  BY <1>2, <1>3 DEF Begins
<1>5. ASSUME NEW j \in 1 .. L
      PROVE  Sends(t, m + j, rs, bytes[j])
  <2>1. /\ 2 * (m + j) - 1 \in 1 .. 2 * m + 2 * L /\ ~(2 * (m + j) - 1 <= 2 * m)
        /\ 2 * (m + j) \in 1 .. 2 * m + 2 * L /\ ~(2 * (m + j) <= 2 * m)
    BY <1>2
  <2>2. 2 * (m + j) - 1 - 2 * m = 2 * j - 1 /\ 2 * (m + j) - 2 * m = 2 * j
    BY <1>2
  <2>3. t[2 * (m + j) - 1] = r[2 * j - 1] /\ t[2 * (m + j)] = r[2 * j]
    BY <1>3, <2>1, <2>2
  <2> QED
    BY <1>1, <2>3 DEF Sends
<1>6. Makes(t, m + L)
  BY <1>2, <1>3 DEF Makes
<1> QED
  BY <1>4, <1>5, <1>6 DEF t, r, L

LEMMA OneMore ==
  ASSUME NEW s, NEW m \in Nat, Makes(s, m), NEW byte \in Byte, NEW rs \in Bit,
         NEW n, n = m + 1
  PROVE  LET t == s \o lcd_send_bytes(<<byte>>, rs)
         IN  Makes(t, n) /\ Begins(s, t, m) /\ Sends(t, n, rs, byte)
<1> DEFINE bytes == <<byte>>
           t == s \o lcd_send_bytes(bytes, rs)
<1>1. bytes \in Seq(Byte) /\ Len(bytes) = 1 /\ bytes[1] = byte
  OBVIOUS
<1> HIDE DEF bytes
<1>2. /\ Makes(t, m + Len(bytes)) /\ Begins(s, t, m)
      /\ \A j \in 1 .. Len(bytes) : Sends(t, m + j, rs, bytes[j])
  BY <1>1, Following
<1> HIDE DEF t
<1>3. Makes(t, n) /\ Begins(s, t, m) /\ Sends(t, n, rs, byte)
  BY <1>1, <1>2
<1> QED
  BY <1>3 DEF t, bytes

LEMMA Kept ==
  ASSUME NEW m \in Nat, NEW s, NEW t, Begins(s, t, m)
  PROVE  /\ \A b \in 1 .. m : \A rs, byte : Sends(s, b, rs, byte) => Sends(t, b, rs, byte)
         /\ \A u : \A k \in 0 .. m : Begins(u, s, k) => Begins(u, t, k)
<1>1. \A b \in 1 .. m : 2 * b - 1 \in 1 .. 2 * m /\ 2 * b \in 1 .. 2 * m
  OBVIOUS
<1>2. \A b \in 1 .. m : \A rs, byte : Sends(s, b, rs, byte) => Sends(t, b, rs, byte)
  BY <1>1 DEF Sends, Begins
<1>3. \A u : \A k \in 0 .. m : Begins(u, s, k) => Begins(u, t, k)
  BY DEF Begins
<1> QED
  BY <1>2, <1>3

\* What lcd_init sends: four nibbles, and 46 bytes.
LEMMA InitSequence ==
  /\ Makes(init_sequence, 48)
  /\ \A i \in 1 .. 3 : init_sequence[i] = [rs |-> 0, n |-> 3]
  /\ init_sequence[4] = [rs |-> 0, n |-> 2]
  /\ Sends(init_sequence, 3, 0, 40) /\ Sends(init_sequence, 4, 0, 72)
  /\ \A a \in GlyphBytes : Sends(init_sequence, a - 3, 1, Glyphs[a])
  /\ Sends(init_sequence, 45, 0, 128) /\ Sends(init_sequence, 46, 0, 12)
  /\ Sends(init_sequence, 47, 0, 1) /\ Sends(init_sequence, 48, 0, 6)
<1> DEFINE rows == [i \in 1 .. 40 |-> bargraph_chars[(i + 7) \div 8]]
           s1 == wake_up
           s2 == s1 \o lcd_send_bytes(<<40>>, 0)
           s3 == s2 \o lcd_send_bytes(<<72>>, 0)
           s4 == s3 \o lcd_send_bytes(rows, 1)
           s5 == s4 \o lcd_send_bytes(<<128>>, 0)
           s6 == s5 \o lcd_send_bytes(<<12>>, 0)
           s7 == s6 \o lcd_send_bytes(<<1>>, 0)
           s8 == s7 \o lcd_send_bytes(<<6>>, 0)
<1>1. init_sequence = s8
  BY DEF init_sequence, Command, LCD_FUNCTION_SET, LCD_SET_CGRAM, LCD_DISPLAY_ON, LCD_CLEAR, LCD_ENTRY_MODE
<1>2. 0 \in Bit /\ 1 \in Bit
  BY DEF Bit
<1>4. rows \in Seq(Byte) /\ Len(rows) = 40
  <2>1. \A i \in 1 .. 40 : (i + 7) \div 8 \in 1 .. 5
    OBVIOUS
  <2>2. \A k \in 1 .. 5 : bargraph_chars[k] \in Byte
    BY DEF bargraph_chars, Byte
  <2>3. \A i \in 1 .. 40 : bargraph_chars[(i + 7) \div 8] \in Byte
    BY <2>1, <2>2
  <2> QED
    BY <2>3, IsASeq
<1>5. \A a \in GlyphBytes : a - 7 \in 1 .. 40 /\ rows[a - 7] = Glyphs[a]
  BY DEF GlyphBytes, Glyphs
<1>6. 40 \in Byte /\ 72 \in Byte /\ 128 \in Byte /\ 12 \in Byte /\ 1 \in Byte /\ 6 \in Byte
  BY DEF Byte
<1>7. /\ Makes(s1, 2)
      /\ \A i \in 1 .. 3 : s1[i] = [rs |-> 0, n |-> 3]
      /\ s1[4] = [rs |-> 0, n |-> 2]
  <2> DEFINE x == [rs |-> 0, n |-> 3]
             y == [rs |-> 0, n |-> 2]
  <2>1. x \in Nibble /\ y \in Nibble
    BY <1>2 DEF Nibble
  <2>2. s1 = <<x>> \o <<x>> \o <<x>> \o <<y>>
    BY DEF wake_up, lcd_send_nibble
  <2> HIDE DEF x, y, s1
  <2>3. <<x>> \in Seq(Nibble) /\ <<y>> \in Seq(Nibble) /\ Len(<<x>>) = 1 /\ Len(<<y>>) = 1
        /\ <<x>>[1] = x /\ <<y>>[1] = y
    BY <2>1
  <2> DEFINE p == <<x>> \o <<x>>
             q == p \o <<x>>
  <2>4. p \in Seq(Nibble) /\ Len(p) = 2 /\ p[1] = x /\ p[2] = x
    BY <2>3, Joined
  <2> HIDE DEF p
  <2>5. q \in Seq(Nibble) /\ Len(q) = 3 /\ q[1] = x /\ q[2] = x /\ q[3] = x
    <3>1. /\ q \in Seq(Nibble) /\ Len(q) = Len(p) + Len(<<x>>)
          /\ \A i \in 1 .. Len(p) + Len(<<x>>) : q[i] = IF i <= Len(p) THEN p[i] ELSE <<x>>[i - Len(p)]
      BY <2>3, <2>4, Joined
    <3> HIDE DEF q
    <3> QED
      BY <2>3, <2>4, <3>1
  <2>6. s1 = q \o <<y>>
    BY <2>2 DEF p
  <2> HIDE DEF q
  <2>7. s1 \in Seq(Nibble) /\ Len(s1) = 4 /\ s1[1] = x /\ s1[2] = x /\ s1[3] = x /\ s1[4] = y
    <3>1. /\ s1 \in Seq(Nibble) /\ Len(s1) = Len(q) + Len(<<y>>)
          /\ \A i \in 1 .. Len(q) + Len(<<y>>) : s1[i] = IF i <= Len(q) THEN q[i] ELSE <<y>>[i - Len(q)]
      BY <2>3, <2>5, <2>6, Joined
    <3> QED
      BY <2>3, <2>5, <3>1
  <2> QED
    BY <2>7 DEF x, y, Makes
<1> HIDE DEF rows, s1
<1>8. Makes(s2, 3) /\ Begins(s1, s2, 2) /\ Sends(s2, 3, 0, 40)
  BY <1>2, <1>6, <1>7, OneMore
<1> HIDE DEF s2
<1>9. Makes(s3, 4) /\ Begins(s2, s3, 3) /\ Sends(s3, 4, 0, 72)
  BY <1>2, <1>6, <1>8, OneMore
<1> HIDE DEF s3
<1>10. Makes(s4, 44) /\ Begins(s3, s4, 4) /\ \A a \in GlyphBytes : Sends(s4, a - 3, 1, Glyphs[a])
  <2>1. Makes(s4, 4 + 40) /\ Begins(s3, s4, 4) /\ \A j \in 1 .. 40 : Sends(s4, 4 + j, 1, rows[j])
    BY <1>2, <1>4, <1>9, Following
  <2> HIDE DEF s4
  <2>2. ASSUME NEW a \in GlyphBytes PROVE Sends(s4, a - 3, 1, Glyphs[a])
    <3>1. a - 7 \in 1 .. 40 /\ 4 + (a - 7) = a - 3
      BY DEF GlyphBytes
    <3>2. Sends(s4, 4 + (a - 7), 1, rows[a - 7])
      BY <2>1, <3>1
    <3> QED
      BY <1>5, <3>1, <3>2
  <2> QED
    BY <2>1, <2>2
<1> HIDE DEF s4
<1>11. Makes(s5, 45) /\ Begins(s4, s5, 44) /\ Sends(s5, 45, 0, 128)
  BY <1>2, <1>6, <1>10, OneMore
<1> HIDE DEF s5
<1>12. Makes(s6, 46) /\ Begins(s5, s6, 45) /\ Sends(s6, 46, 0, 12)
  BY <1>2, <1>6, <1>11, OneMore
<1> HIDE DEF s6
<1>13. Makes(s7, 47) /\ Begins(s6, s7, 46) /\ Sends(s7, 47, 0, 1)
  BY <1>2, <1>6, <1>12, OneMore
<1> HIDE DEF s7
<1>14. Makes(s8, 48) /\ Begins(s7, s8, 47) /\ Sends(s8, 48, 0, 6)
  BY <1>2, <1>6, <1>13, OneMore
<1> HIDE DEF s8
<1>15. Begins(s6, s8, 46)
  BY <1>13, <1>14, Kept
<1>16. Begins(s5, s8, 45)
  BY <1>12, <1>15, Kept
<1>17. Begins(s4, s8, 44)
  BY <1>11, <1>16, Kept
<1>18. Begins(s3, s8, 4)
  BY <1>10, <1>17, Kept
<1>19. Begins(s2, s8, 3)
  BY <1>9, <1>18, Kept
<1>20. Begins(s1, s8, 2)
  BY <1>8, <1>19, Kept
<1>21. Sends(s8, 3, 0, 40)
  BY <1>8, <1>19, Kept
<1>22. Sends(s8, 4, 0, 72)
  BY <1>9, <1>18, Kept
<1>23. \A a \in GlyphBytes : Sends(s8, a - 3, 1, Glyphs[a])
  <2>1. \A a \in GlyphBytes : a - 3 \in 1 .. 44
    BY DEF GlyphBytes
  <2> QED
    BY <1>10, <1>17, <2>1, Kept
<1>24. Sends(s8, 45, 0, 128)
  BY <1>11, <1>16, Kept
<1>25. Sends(s8, 46, 0, 12)
  BY <1>12, <1>15, Kept
<1>26. Sends(s8, 47, 0, 1)
  BY <1>13, <1>14, Kept
<1>27. (\A i \in 1 .. 3 : s8[i] = [rs |-> 0, n |-> 3]) /\ s8[4] = [rs |-> 0, n |-> 2]
  BY <1>7, <1>20 DEF Begins
<1> QED
  BY <1>1, <1>14, <1>21, <1>22, <1>23, <1>24, <1>25, <1>26, <1>27

-----------------------------------------------------------------------------
\* The calls send whole bytes that are harmless.
Whole(s) == s \in Seq(Nibble) /\ Len(s) % 2 = 0 /\ InPairs(s)

LEMMA WholeBytes ==
  ASSUME NEW bytes \in Seq(Byte), NEW rs \in Bit,
         rs = 1 \/ \A j \in 1 .. Len(bytes) : bytes[j] >= 128 \/ bytes[j] = LCD_CLEAR
  PROVE  Whole(lcd_send_bytes(bytes, rs))
<1> DEFINE s == lcd_send_bytes(bytes, rs)
           L == Len(bytes)
<1>1. /\ s \in Seq(Nibble) /\ Len(s) = 2 * L
      /\ \A j \in 1 .. L : s[2 * j - 1] = [rs |-> rs, n |-> bytes[j] \div 16]
                           /\ s[2 * j] = [rs |-> rs, n |-> bytes[j] % 16]
  BY Halves
<1>2. L \in Nat /\ \A j \in 1 .. L : bytes[j] \in 0 .. 255
  <2>1. \A j \in 1 .. Len(bytes) : bytes[j] \in Byte
    BY ElementOfSeq
  <2> QED
    BY <2>1 DEF Byte
<1>3. \A b \in 0 .. 255 : 16 * (b \div 16) + (b % 16) = b
  OBVIOUS
<1>4. \A j \in 1 .. L : bytes[j] >= 128 \/ bytes[j] = LCD_CLEAR \/ rs = 1
  OBVIOUS
<1> HIDE DEF s, L
<1>5. ASSUME NEW i \in 1 .. Len(s), (Len(s) - i) % 2 = 1
      PROVE  Harmless(s[i], s[i + 1])
  <2>1. PICK j \in 1 .. L : i = 2 * j - 1
    <3>1. i \in 1 .. 2 * L /\ (2 * L - i) % 2 = 1
      BY <1>1, <1>5
    <3>2. i % 2 = 1
      BY <1>2, <3>1
    <3>3. (i + 1) \div 2 \in 1 .. L /\ i = 2 * ((i + 1) \div 2) - 1
      BY <1>2, <3>1, <3>2
    <3> QED
      BY <3>3
  <2>2. i + 1 = 2 * j
    BY <1>2, <2>1
  <2> DEFINE b == bytes[j]
  <2>3. s[i] = [rs |-> rs, n |-> b \div 16] /\ s[i + 1] = [rs |-> rs, n |-> b % 16]
    BY <1>1, <2>1, <2>2
  <2>4. b \in 0 .. 255 /\ (b >= 128 \/ b = LCD_CLEAR \/ rs = 1)
    BY <1>2, <1>4
  <2> HIDE DEF b
  <2>5. 16 * (b \div 16) + (b % 16) = b
    BY <1>3, <2>4
  <2> QED
    BY <2>3, <2>4, <2>5 DEF Harmless
<1>6. Len(s) % 2 = 0
  BY <1>1, <1>2
<1> QED
  BY <1>1, <1>5, <1>6 DEF Whole, InPairs, s

LEMMA WholeJoined ==
  ASSUME NEW s, NEW r, Whole(s), Whole(r)
  PROVE  Whole(s \o r)
<1> DEFINE t == s \o r
           m == Len(s)
           n == Len(r)
<1>1. s \in Seq(Nibble) /\ r \in Seq(Nibble) /\ m \in Nat /\ n \in Nat /\ m % 2 = 0 /\ n % 2 = 0
  BY DEF Whole
<1>2. t \in Seq(Nibble) /\ Len(t) = m + n /\ \A i \in 1 .. m + n : t[i] = IF i <= m THEN s[i] ELSE r[i - m]
  BY <1>1, Joined
<1> HIDE DEF t
<1>3. \A i \in 1 .. m : (m - i) % 2 = 1 => Harmless(s[i], s[i + 1])
  BY DEF Whole, InPairs
<1>4. \A i \in 1 .. n : (n - i) % 2 = 1 => Harmless(r[i], r[i + 1])
  BY DEF Whole, InPairs
<1> HIDE DEF m, n
<1>5. ASSUME NEW i \in 1 .. m + n, (m + n - i) % 2 = 1
      PROVE  Harmless(t[i], t[i + 1])
  <2>1. CASE i <= m
    <3>1. (m - i) % 2 = 1 /\ i + 1 <= m /\ i + 1 \in 1 .. m + n
      BY <1>1, <1>5, <2>1
    <3>2. i \in 1 .. m /\ i <= m
      BY <1>1, <2>1
    <3>3. t[i] = s[i]
      BY <1>2, <3>2
    <3> DEFINE k == i + 1
    <3>4. k <= m /\ k \in 1 .. m + n
      BY <3>1
    <3> HIDE DEF k
    <3>5. t[k] = s[k]
      BY <1>2, <3>4
    <3>6. Harmless(s[i], s[i + 1])
      BY <1>3, <3>1, <3>2
    <3> QED
      BY <3>3, <3>5, <3>6 DEF k
  <2>2. CASE i > m
    <3>1. /\ i - m \in 1 .. n /\ (n - (i - m)) % 2 = 1 /\ i + 1 \in 1 .. m + n /\ ~(i + 1 <= m) /\ ~(i <= m)
          /\ i + 1 - m = (i - m) + 1
      BY <1>1, <1>5, <2>2
    <3>2. \A k \in 1 .. m + n : ~(k <= m) => t[k] = r[k - m]
      BY <1>2
    <3>3. t[i] = r[i - m]
      BY <3>1, <3>2
    <3> DEFINE k == i + 1
    <3>4. k \in 1 .. m + n /\ ~(k <= m) /\ k - m = (i - m) + 1
      BY <1>1, <3>1
    <3> HIDE DEF k
    <3>5. t[k] = r[(i - m) + 1]
      BY <3>2, <3>4
    <3> QED
      BY <1>4, <3>1, <3>3, <3>5 DEF k
  <2> QED
    BY <1>1, <2>1, <2>2
<1>6. (m + n) % 2 = 0
  BY <1>1
<1>7. Len(t) % 2 = 0
  BY <1>2, <1>6
<1>8. InPairs(t)
  <2> SUFFICES ASSUME NEW i \in 1 .. Len(t), (Len(t) - i) % 2 = 1 PROVE Harmless(t[i], t[i + 1])
    BY DEF InPairs
  <2>1. i \in 1 .. m + n /\ (m + n - i) % 2 = 1
    BY <1>1, <1>2
  <2> QED
    BY <1>5, <2>1
<1> QED
  BY <1>2, <1>7, <1>8 DEF Whole, t

LEMMA WholeCommand ==
  ASSUME NEW byte \in Byte, byte >= 128 \/ byte = LCD_CLEAR
  PROVE  Whole(Command(byte))
<1> DEFINE bytes == <<byte>>
<1>1. bytes \in Seq(Byte) /\ Len(bytes) = 1 /\ bytes[1] = byte
  OBVIOUS
<1> HIDE DEF bytes
<1>2. 0 \in Bit /\ \A j \in 1 .. Len(bytes) : bytes[j] >= 128 \/ bytes[j] = LCD_CLEAR
  BY <1>1 DEF Bit
<1> QED
  BY <1>1, <1>2, WholeBytes DEF Command, bytes

LEMMA Addresses ==
  ASSUME NEW line \in LCD_ROWS
  PROVE  128 + line_offsets[line] \in Byte /\ 128 + line_offsets[line] >= 128
<1> DEFINE p == line % 2
           q == line \div 2
           offset == line_offsets[line]
<1>1. p \in {0, 1} /\ q \in {0, 1}
  BY DEF LCD_ROWS
<1>2. offset = p * 64 + q * LCD_COLS
  BY DEF line_offsets
<1>3. LCD_COLS \in 1 .. 20
  BY ColsAssumption
<1> HIDE DEF p, q, offset
<1>4. offset \in 0 .. 84
  <2>1. p * 64 \in {0, 64}
    BY <1>1
  <2>2. q * LCD_COLS \in 0 .. 20
    BY <1>1, <1>3
  <2> QED
    BY <1>2, <2>1, <2>2
<1>5. 128 + offset \in Byte /\ 128 + offset >= 128
  BY <1>4 DEF Byte
<1> QED
  BY <1>5 DEF offset

LEMMA WholeLine ==
  ASSUME NEW line \in LCD_ROWS, NEW row, row = [c \in 1 .. LCD_COLS |-> row[c]],
         \A c \in 1 .. LCD_COLS : row[c] \in Byte
  PROVE  Whole(SetAddress(line) \o lcd_send_bytes(row, 1))
<1>1. LCD_COLS \in 1 .. 20
  BY ColsAssumption
<1>2. row \in Seq(Byte)
  BY <1>1, IsASeq
<1>3. 1 \in Bit
  BY DEF Bit
<1>4. Whole(lcd_send_bytes(row, 1))
  BY <1>2, <1>3, WholeBytes
<1> DEFINE byte == 128 + line_offsets[line]
<1>6. byte \in Byte /\ byte >= 128
  BY Addresses
<1>7. SetAddress(line) = Command(byte)
  BY DEF SetAddress
<1> HIDE DEF byte
<1>8. Whole(SetAddress(line))
  BY <1>6, <1>7, WholeCommand
<1> QED
  BY <1>4, <1>8, WholeJoined

LEMMA WholeText ==
  ASSUME NEW str, \A c \in 1 .. Len(str) : str[c] \in Byte, Len(str) \in Nat, NEW line \in LCD_ROWS
  PROVE  Whole(lcd_write_string_no_lock(str, line))
<1> DEFINE f(c) == IF c <= Len(str) THEN str[c] ELSE Space
           row == [c \in 1 .. LCD_COLS |-> f(c)]
<1>1. \A c \in 1 .. LCD_COLS : f(c) \in Byte
  BY DEF Byte, Space
<1>2. lcd_write_string_no_lock(str, line) = SetAddress(line) \o lcd_send_bytes(row, 1)
  BY DEF lcd_write_string_no_lock
<1> HIDE DEF f
<1>3. row = [c \in 1 .. LCD_COLS |-> row[c]] /\ \A c \in 1 .. LCD_COLS : row[c] \in Byte
  BY <1>1
<1> HIDE DEF row
<1>4. Whole(SetAddress(line) \o lcd_send_bytes(row, 1))
  BY <1>3, WholeLine
<1> QED
  BY <1>2, <1>4 DEF row

LEMMA TextBytes ==
  ASSUME NEW str \in Texts
  PROVE  str \in Seq(1 .. 255) /\ Len(str) \in Nat /\ \A c \in 1 .. Len(str) : str[c] \in Byte
<1>1. str \in Seq(1 .. 255)
  BY TextsAssumption
<1>2. \A c \in 1 .. Len(str) : str[c] \in 1 .. 255
  BY <1>1, ElementOfSeq
<1> QED
  BY <1>1, <1>2 DEF Byte

LEMMA CentredType ==
  ASSUME NEW str \in Seq(1 .. 255)
  PROVE  centred(str) \in [1 .. LCD_COLS -> Byte]
<1> DEFINE len == IF Len(str) > LCD_COLS THEN LCD_COLS ELSE Len(str)
           padding == (LCD_COLS - len) \div 2
           f(c) == IF c > padding /\ c <= padding + len THEN str[c - padding] ELSE Space
<1>1. LCD_COLS \in 1 .. 20 /\ Len(str) \in Nat
  BY ColsAssumption
<1>2. len \in Nat /\ padding \in Int /\ len <= Len(str)
  BY <1>1
<1>3. \A c \in 1 .. Len(str) : str[c] \in Byte
  <2>1. \A c \in 1 .. Len(str) : str[c] \in 1 .. 255
    BY ElementOfSeq
  <2> QED
    BY <2>1 DEF Byte
<1> HIDE DEF len, padding
<1>4. ASSUME NEW c \in 1 .. LCD_COLS PROVE f(c) \in Byte
  <2>1. CASE c > padding /\ c <= padding + len
    <3>1. c - padding \in 1 .. Len(str)
      BY <1>1, <1>2, <2>1
    <3> QED
      BY <1>3, <2>1, <3>1
  <2>2. CASE ~(c > padding /\ c <= padding + len)
    BY <2>2 DEF Byte, Space
  <2> QED
    BY <2>1, <2>2
<1>5. centred(str) = [c \in 1 .. LCD_COLS |-> f(c)]
  BY DEF centred, len, padding
<1> HIDE DEF f
<1> QED
  BY <1>4, <1>5

LEMMA WholeMessage ==
  ASSUME NEW lines \in Messages
  PROVE  Whole(lcd_write_centred_lines(lines))
<1> DEFINE line(r) == IF r \in DOMAIN lines THEN lcd_write_string_no_lock(centred(lines[r]), r) ELSE <<>>
<1>1. ASSUME NEW r \in LCD_ROWS PROVE Whole(line(r))
  <2>1. CASE r \in DOMAIN lines
    <3> DEFINE row == centred(lines[r])
    <3>1. lines[r] \in Seq(1 .. 255)
      BY <2>1, MessagesAssumption, TextsAssumption
    <3>2. row \in [1 .. LCD_COLS -> Byte]
      BY <3>1, CentredType
    <3> HIDE DEF row
    <3>3. Len(row) = LCD_COLS /\ LCD_COLS \in Nat
      BY <3>2, ColsAssumption
    <3>4. Len(row) \in Nat /\ \A c \in 1 .. Len(row) : row[c] \in Byte
      BY <3>2, <3>3
    <3>5. Whole(lcd_write_string_no_lock(row, r))
      BY <3>4, WholeText
    <3> QED
      BY <2>1, <3>5 DEF row
  <2>2. CASE r \notin DOMAIN lines
    BY <2>2 DEF Whole, InPairs
  <2> QED
    BY <2>1, <2>2
<1>2. lcd_write_centred_lines(lines) = line(0) \o line(1) \o line(2) \o line(3)
  BY DEF lcd_write_centred_lines
<1>3. Whole(line(0)) /\ Whole(line(1)) /\ Whole(line(2)) /\ Whole(line(3))
  BY <1>1 DEF LCD_ROWS
<1> HIDE DEF line
<1> QED
  BY <1>2, <1>3, WholeJoined

LEMMA BarType ==
  ASSUME NEW value \in Int
  PROVE  bar(value) \in [1 .. LCD_COLS -> Byte]
<1> DEFINE shown == IF value < 0 THEN 0 ELSE IF value > 5 * LCD_COLS THEN 5 * LCD_COLS ELSE value
           full_blocks == shown \div 5
           partial == shown % 5
           f(c) == IF c <= full_blocks THEN 5
                   ELSE IF partial > 0 /\ c = full_blocks + 1 THEN partial ELSE Space
<1>1. partial \in 0 .. 4
  BY ColsAssumption
<1>2. bar(value) = [c \in 1 .. LCD_COLS |-> f(c)]
  BY DEF bar
<1> HIDE DEF partial, full_blocks
<1>3. \A c \in 1 .. LCD_COLS : f(c) \in Byte
  BY <1>1 DEF Byte, Space
<1> HIDE DEF f
<1> QED
  BY <1>2, <1>3

\* A call of a thread takes the lock, and what it sends is whole.
LEMMA CallsAreWhole ==
  ASSUME NEW t \in Threads,
         \/ lcd_write_string(t) \/ lcd_display_bargraph(t) \/ lcd_display_message(t)
         \/ lcd_display_message_no_flash(t) \/ lcd_clear(t)
  PROVE  \E nibbles : Whole(nibbles) /\ Locked(t, nibbles)
<1>1. \A row \in Rows : row \in LCD_ROWS
  BY RowsAssumption DEF LCD_ROWS
<1>2. Whole(Command(LCD_CLEAR))
  <2>1. LCD_CLEAR \in Byte
    BY DEF LCD_CLEAR, Byte
  <2> QED
    BY <2>1, WholeCommand
<1>3. CASE lcd_write_string(t)
  <2>1. PICK line \in Rows, str \in Texts : Locked(t, lcd_write_string_no_lock(str, line))
    BY <1>3 DEF lcd_write_string
  <2> QED
    BY <1>1, <2>1, TextBytes, WholeText
<1>4. CASE lcd_display_bargraph(t)
  <2>1. PICK row \in Rows, value \in Values : Locked(t, SetAddress(row) \o lcd_send_bytes(bar(value), 1))
    BY <1>4 DEF lcd_display_bargraph
  <2>2. bar(value) \in [1 .. LCD_COLS -> Byte]
    BY ValuesAssumption, BarType
  <2>3. bar(value) = [c \in 1 .. LCD_COLS |-> bar(value)[c]] /\ \A c \in 1 .. LCD_COLS : bar(value)[c] \in Byte
    BY <2>2
  <2>4. Whole(SetAddress(row) \o lcd_send_bytes(bar(value), 1))
    BY <1>1, <2>3, WholeLine
  <2> QED
    BY <2>1, <2>4
<1>5. CASE lcd_display_message(t)
  BY <1>2, <1>5, WholeMessage, WholeJoined DEF lcd_display_message
<1>6. CASE lcd_display_message_no_flash(t)
  BY <1>6, WholeMessage DEF lcd_display_message_no_flash
<1>7. CASE lcd_clear(t)
  BY <1>2, <1>7 DEF lcd_clear
<1> QED
  BY <1>3, <1>4, <1>5, <1>6, <1>7

-----------------------------------------------------------------------------
\* Only the lock-holder has nibbles left, and before the server is up only main.
LEMMA OthersAreSilent ==
  ASSUME SenderInv, NEW t \in Threads, sending[t] # <<>>
  PROVE  /\ server = "up" => t = lcd_mutex
         /\ server # "up" => server = "init" /\ t = Main
BY ThreadsAssumption DEF SenderInv, OneSender

\* The start, the end and the calls.
LEMMA InvCall ==
  ASSUME TypeInv, LcdInv, SenderInv, NEW t \in Threads, NEW nibbles, Whole(nibbles), Locked(t, nibbles)
  PROVE  TypeInv' /\ LcdInv'
<1>1. /\ server = "up" /\ lcd_mutex = Nobody /\ lcd_mutex' = t
      /\ sending' = [sending EXCEPT ![t] = nibbles]
      /\ UNCHANGED <<server, restarts, display>>
  BY DEF Locked
<1>2. nibbles \in Seq(Nibble) /\ Len(nibbles) % 2 = 0 /\ InPairs(nibbles)
  BY DEF Whole
<1>3. sending' \in [Threads -> Seq(Nibble)] /\ sending'[t] = nibbles
  BY <1>1, <1>2 DEF TypeInv
<1>4. TypeInv'
  BY <1>1, <1>3 DEF TypeInv
<1>5. UpInv'
  BY <1>1, <1>2, <1>3, ThreadsAssumption DEF LcdInv, UpInv, InStep
<1>6. InitInv'
  BY <1>1 DEF InitInv
<1> QED
  BY <1>4, <1>5, <1>6 DEF LcdInv

LEMMA InvStart ==
  ASSUME TypeInv, LcdInv, StartServer
  PROVE  TypeInv' /\ LcdInv'
<1>1. /\ server' = "init" /\ sending' = [sending EXCEPT ![Main] = init_sequence]
      /\ UNCHANGED <<lcd_mutex, restarts, display>>
  BY DEF StartServer
<1>2. init_sequence \in Seq(Nibble) /\ Len(init_sequence) = 96
  BY InitSequence DEF Makes
<1>3. sending' \in [Threads -> Seq(Nibble)] /\ sending'[Main] = init_sequence
  BY <1>1, <1>2, ThreadsAssumption DEF TypeInv
<1>4. TypeInv'
  BY <1>1, <1>3 DEF TypeInv
<1>5. Sent' = 0
  BY <1>2, <1>3 DEF Sent, InitLen
<1>6. InitInv'
  BY <1>1, <1>2, <1>3, <1>5 DEF InitInv, Prepared, WakingUp, InitLen
<1>7. UpInv'
  BY <1>1 DEF UpInv
<1> QED
  BY <1>4, <1>6, <1>7 DEF LcdInv

LEMMA InvEnd ==
  ASSUME TypeInv, LcdInv, EndServer
  PROVE  TypeInv' /\ LcdInv'
<1>1. /\ restarts < MAX_RESTARTS /\ server' = "down" /\ restarts' = restarts + 1
      /\ lcd_mutex' = Nobody /\ sending' = [t \in Threads |-> <<>>] /\ UNCHANGED display
  BY DEF EndServer
<1>2. sending' \in [Threads -> Seq(Nibble)]
  BY <1>1
<1>3. restarts' \in 0 .. MAX_RESTARTS
  BY <1>1, RestartsAssumption DEF TypeInv
<1>4. TypeInv'
  BY <1>1, <1>2, <1>3 DEF TypeInv
<1> QED
  BY <1>1, <1>4 DEF LcdInv, UpInv, InitInv

\* After the last nibble of lcd_init all glyphs are loaded.
LEMMA InvInitialised ==
  ASSUME TypeInv, LcdInv, SenderInv, Initialised
  PROVE  TypeInv' /\ LcdInv'
<1>1. /\ server = "init" /\ server' = "up" /\ sending[Main] = <<>>
      /\ UNCHANGED <<lcd_mutex, sending, restarts, display>>
  BY DEF Initialised
<1>2. Sent = 96
  BY <1>1 DEF Sent, InitLen
<1>3. display.width = 4 /\ display.half = NoHalf /\ Loading(48, display)
  <2>1. 96 % 2 = 0 /\ 96 \div 2 = 48
    OBVIOUS
  <2> QED
    BY <1>1, <1>2, <2>1 DEF LcdInv, InitInv, Prepared
<1>4. display.ram = "text" /\ \A a \in GlyphBytes : display.glyphs[a] = Glyphs[a]
  BY <1>3 DEF Loading, GlyphBytes
<1>5. display.glyphs = Glyphs
  BY <1>4 DEF TypeInv, Display, Glyphs
<1>6. lcd_mutex' = Nobody
  BY <1>1 DEF SenderInv
<1>7. UpInv'
  BY <1>1, <1>3, <1>4, <1>5, <1>6 DEF UpInv
<1>8. InitInv'
  BY <1>1 DEF InitInv
<1>9. TypeInv'
  BY <1>1 DEF TypeInv
<1> QED
  BY <1>7, <1>8, <1>9 DEF LcdInv

LEMMA InvUnlock ==
  ASSUME TypeInv, LcdInv, SenderInv, NEW t \in Threads, Unlock(t)
  PROVE  TypeInv' /\ LcdInv'
<1>1. /\ lcd_mutex = t /\ sending[t] = <<>> /\ lcd_mutex' = Nobody
      /\ UNCHANGED <<sending, server, restarts, display>>
  BY DEF Unlock
<1>2. server = "up"
  BY <1>1, ThreadsAssumption DEF SenderInv
<1>3. display.half = NoHalf
  <2>1. InStep(display, <<>>)
    BY <1>1, <1>2, ThreadsAssumption DEF LcdInv, UpInv
  <2>2. Len(<<>>) % 2 = 0
    OBVIOUS
  <2> QED
    BY <2>1, <2>2 DEF InStep
<1>4. TypeInv'
  BY <1>1 DEF TypeInv
<1>5. UpInv'
  BY <1>1, <1>2, <1>3 DEF LcdInv, UpInv
<1>6. InitInv'
  BY <1>1, <1>2 DEF InitInv
<1> QED
  BY <1>4, <1>5, <1>6 DEF LcdInv

-----------------------------------------------------------------------------
\* A nibble sent.
LEMMA SendType ==
  ASSUME TypeInv, NEW t \in Threads, Send(t)
  PROVE  /\ TypeInv'
         /\ Head(sending[t]) \in Nibble /\ Head(sending[t]) = sending[t][1]
         /\ Len(sending[t]) \in Nat \ {0}
         /\ sending' = [sending EXCEPT ![t] = Tail(sending[t])]
         /\ sending'[t] = Tail(sending[t]) /\ Len(sending'[t]) = Len(sending[t]) - 1
         /\ \A i \in 1 .. Len(sending'[t]) : sending'[t][i] = sending[t][i + 1]
         /\ display' \in Latched(display, Head(sending[t]))
         /\ UNCHANGED <<lcd_mutex, server, restarts>>
<1>1. /\ sending[t] # <<>> /\ display' \in Latched(display, Head(sending[t]))
      /\ sending' = [sending EXCEPT ![t] = Tail(sending[t])]
      /\ UNCHANGED <<lcd_mutex, server, restarts>>
  BY DEF Send
<1> DEFINE s == sending[t]
<1>2. s \in Seq(Nibble) /\ s # <<>>
  BY <1>1 DEF TypeInv
<1>3. sending'[t] = Tail(s) /\ (Tail(s) \in Seq(Nibble) => sending' \in [Threads -> Seq(Nibble)])
  BY <1>1 DEF TypeInv
<1> HIDE DEF s
<1>4. /\ Head(s) \in Nibble /\ Head(s) = s[1] /\ Len(s) \in Nat \ {0}
      /\ Tail(s) \in Seq(Nibble) /\ Len(Tail(s)) = Len(s) - 1
      /\ \A i \in 1 .. Len(Tail(s)) : Tail(s)[i] = s[i + 1]
  BY <1>2
<1>5. display' \in Display /\ (display'.width = 8 => display'.half = NoHalf)
  <2>1. display \in Display /\ (display.width = 8 => display.half = NoHalf)
    BY DEF TypeInv
  <2> QED
    BY <1>1, <1>4, <2>1, Latching DEF s
<1>6. TypeInv'
  BY <1>1, <1>3, <1>4, <1>5 DEF TypeInv
<1> QED
  BY <1>1, <1>3, <1>4, <1>6 DEF s

\* In a call: a first half is kept, and with a second half a harmless byte is executed.
LEMMA UpSend ==
  ASSUME TypeInv, LcdInv, SenderInv, NEW t \in Threads, Send(t), server = "up"
  PROVE  LcdInv'
<1> DEFINE s == sending[t]
           x == Head(s)
<1>1. /\ s \in Seq(Nibble) /\ x \in Nibble /\ x = s[1] /\ Len(s) \in Nat \ {0}
      /\ Len(sending'[t]) = Len(s) - 1
      /\ \A i \in 1 .. Len(s) - 1 : sending'[t][i] = s[i + 1]
      /\ display' \in Latched(display, x)
      /\ UNCHANGED <<lcd_mutex, server>>
  <2>1. s \in Seq(Nibble)
    BY DEF TypeInv
  <2> QED
    BY <2>1, SendType
<1>2. t = lcd_mutex
  BY OthersAreSilent DEF Send
<1>3. /\ display \in Display /\ display.width = 4 /\ display.ram = "text" /\ display.glyphs = Glyphs
      /\ InPairs(s) /\ InStep(display, s)
  BY <1>2, ThreadsAssumption DEF TypeInv, LcdInv, UpInv
<1> HIDE DEF s, x
<1> DEFINE m == Len(s)
           r == sending'[t]
<1>m. m \in Nat \ {0} /\ Len(r) = m - 1 /\ \A i \in 1 .. m - 1 : r[i] = s[i + 1]
  BY <1>1
<1>p. \A n \in Nat : (n % 2 = 0 => (n - 1) % 2 = 1) /\ (n % 2 = 1 => (n - 1) % 2 = 0)
  OBVIOUS
<1>q. InPairs(s) = \A i \in 1 .. m : (m - i) % 2 = 1 => Harmless(s[i], s[i + 1])
  BY DEF InPairs
<1>r. InPairs(r) = \A i \in 1 .. Len(r) : (Len(r) - i) % 2 = 1 => Harmless(r[i], r[i + 1])
  BY DEF InPairs
<1>s. InStep(display, s) = IF m % 2 = 0 THEN display.half = NoHalf
                           ELSE display.half \in Nibble /\ Harmless(display.half, s[1])
  BY DEF InStep
<1>t. InStep(display', r) = IF Len(r) % 2 = 0 THEN display'.half = NoHalf
                            ELSE display'.half \in Nibble /\ Harmless(display'.half, r[1])
  BY DEF InStep
<1> HIDE DEF m, r
<1>4. InPairs(r)
  <2> SUFFICES ASSUME NEW i \in 1 .. m - 1, (m - 1 - i) % 2 = 1
               PROVE  Harmless(r[i], r[i + 1])
    BY <1>m, <1>r
  <2>1. i + 1 \in 1 .. m - 1 /\ i + 1 \in 1 .. m /\ (m - (i + 1)) % 2 = 1
    BY <1>m
  <2>2. Harmless(s[i + 1], s[(i + 1) + 1])
    BY <1>3, <1>q, <2>1
  <2>3. r[i] = s[i + 1] /\ r[i + 1] = s[(i + 1) + 1]
    BY <1>m, <2>1
  <2> QED
    BY <2>2, <2>3
<1>5. display'.width = 4 /\ display'.ram = "text" /\ display'.glyphs = Glyphs /\ InStep(display', r)
  <2>1. CASE m % 2 = 0
    <3>1. display.half = NoHalf
      BY <1>3, <1>s, <2>1
    <3>2. display' = [display EXCEPT !.half = x]
      BY <1>1, <1>3, <3>1, Latching
    <3>3. display'.width = 4 /\ display'.ram = "text" /\ display'.glyphs = Glyphs /\ display'.half = x
      BY <1>3, <3>2 DEF Display
    <3>4. (m - 1) % 2 = 1
      BY <1>m, <1>p, <2>1
    <3>5. 1 \in 1 .. m /\ 1 \in 1 .. m - 1
      BY <1>m, <3>4
    <3>6. Harmless(s[1], s[1 + 1]) /\ r[1] = s[1 + 1]
      BY <1>3, <1>m, <1>q, <3>4, <3>5
    <3>7. ~(Len(r) % 2 = 0)
      BY <1>m, <3>4
    <3>8. display'.half \in Nibble /\ Harmless(display'.half, r[1])
      BY <1>1, <3>3, <3>6
    <3>9. InStep(display', r)
      BY <1>t, <3>7, <3>8
    <3> QED
      BY <3>3, <3>9
  <2>2. CASE m % 2 = 1
    <3>0. ~(m % 2 = 0)
      BY <2>2
    <3>1. display.half \in Nibble /\ Harmless(display.half, x)
      BY <1>1, <1>3, <1>s, <3>0
    <3>2. display.half # NoHalf
      BY <3>1 DEF Nibble, NoHalf
    <3> DEFINE c == [display EXCEPT !.half = NoHalf]
               byte == 16 * display.half.n + x.n
    <3>3. PICK rs \in {display.half.rs, x.rs} : display' = Executed(c, rs, byte)
      BY <1>1, <1>3, <3>2, Latching
    <3>4. c \in Display /\ c.half = NoHalf /\ c.width = 4 /\ c.ram = "text" /\ c.glyphs = Glyphs
      BY <1>3 DEF Display
    <3>5. rs \in Bit /\ byte \in Byte /\ (rs = 1 \/ byte >= 128 \/ byte = 1)
      <4> DEFINE h == display.half
      <4>1. h.rs \in Bit /\ x.rs \in Bit /\ h.n \in 0 .. 15 /\ x.n \in 0 .. 15
        BY <1>1, <3>1 DEF Nibble
      <4>2. byte \in Byte
        BY <4>1 DEF Byte
      <4>3. h.rs = x.rs /\ (h.rs = 1 \/ byte >= 128 \/ byte = 1)
        BY <3>1 DEF Harmless, LCD_CLEAR
      <4>4. rs = h.rs
        BY <3>3, <4>3
      <4> HIDE DEF byte, h
      <4> QED
        BY <4>1, <4>2, <4>3, <4>4
    <3> HIDE DEF c, byte
    <3>6. rs \in {0, 1} /\ byte \in 0 .. 255
      BY <3>5 DEF Bit, Byte
    <3>7. /\ Executed(c, rs, byte).half = c.half
          /\ Executed(c, rs, byte).width =
               IF rs = 0 /\ byte \in 32 .. 63 THEN (IF byte >= 48 THEN 8 ELSE 4) ELSE c.width
          /\ rs = 1 \/ byte \notin 2 .. 127 =>
               Executed(c, rs, byte).ram = (IF rs = 1 \/ byte = 0 THEN c.ram ELSE "text")
          /\ rs = 0 \/ c.ram = "text" => Executed(c, rs, byte).glyphs = c.glyphs
      BY <3>4, <3>5, Execution
    <3>8. display'.half = NoHalf /\ display'.width = 4 /\ display'.ram = "text" /\ display'.glyphs = Glyphs
      BY <3>3, <3>4, <3>5, <3>6, <3>7
    <3>9. Len(r) % 2 = 0
      BY <1>m, <1>p, <2>2
    <3> QED
      BY <1>t, <3>8, <3>9
  <2> QED
    BY <1>m, <2>1, <2>2
<1>6. UpInv'
  BY <1>1, <1>2, <1>4, <1>5, ThreadsAssumption DEF UpInv, r
<1>7. InitInv'
  BY <1>1 DEF InitInv
<1> QED
  BY <1>6, <1>7 DEF LcdInv

-----------------------------------------------------------------------------
\* A byte of lcd_init executed.
LEMMA GlyphsAreBytes == \A a \in GlyphBytes : Glyphs[a] \in Byte
<1> SUFFICES ASSUME NEW a \in GlyphBytes PROVE Glyphs[a] \in Byte
  OBVIOUS
<1>1. a \div 8 \in 1 .. 5 /\ Glyphs[a] = bargraph_chars[a \div 8]
  BY DEF GlyphBytes, Glyphs
<1>2. \A i \in 1 .. 5 : bargraph_chars[i] \in Byte
  BY DEF bargraph_chars, Byte
<1> QED
  BY <1>1, <1>2

LEMMA InitByte ==
  ASSUME NEW c \in Display, c.half = NoHalf, c.width = 4, NEW b \in 3 .. 48, Loading(b - 1, c)
  PROVE  \E rs \in Bit, byte \in Byte :
           /\ Sends(init_sequence, b, rs, byte)
           /\ Executed(c, rs, byte).width = 4 /\ Executed(c, rs, byte).half = NoHalf
           /\ Loading(b, Executed(c, rs, byte))
<1>0. /\ 0 \in Bit /\ 1 \in Bit /\ 40 \in Byte /\ 72 \in Byte /\ 128 \in Byte /\ 12 \in Byte
      /\ 1 \in Byte /\ 6 \in Byte
  BY DEF Bit, Byte
<1>x. \A rs \in Bit, byte \in Byte :
        /\ Executed(c, rs, byte).half = c.half
        /\ Executed(c, rs, byte).width =
             IF rs = 0 /\ byte \in 32 .. 63 THEN (IF byte >= 48 THEN 8 ELSE 4) ELSE c.width
        /\ rs = 1 \/ byte \notin 2 .. 127 =>
             Executed(c, rs, byte).ram = (IF rs = 1 \/ byte = 0 THEN c.ram ELSE "text")
        /\ rs = 0 \/ c.ram = "text" => Executed(c, rs, byte).glyphs = c.glyphs
  BY Execution
<1>y. \A rs \in Bit, byte \in Byte :
        byte \notin 48 .. 63 => Executed(c, rs, byte).half = NoHalf /\ Executed(c, rs, byte).width = 4
  BY <1>x DEF Byte
<1>z. \A byte \in Byte : Executed(c, 0, byte).glyphs = c.glyphs
  BY <1>0, <1>x
<1>1. CASE b = 3
  <2>1. Executed(c, 0, 40).width = 4 /\ Executed(c, 0, 40).half = NoHalf
    BY <1>0, <1>y
  <2>2. Loading(b, Executed(c, 0, 40))
    BY <1>1 DEF Loading
  <2>3. Sends(init_sequence, b, 0, 40)
    BY <1>1, InitSequence
  <2> QED
    BY <1>0, <2>1, <2>2, <2>3
<1>2. CASE b = 4
  <2> DEFINE e == Executed(c, 0, 72)
  <2>1. e.width = 4 /\ e.half = NoHalf
    BY <1>0, <1>y
  <2>2. e.ram = "glyphs" /\ e.at = 8
    <3>1. e = [c EXCEPT !.ram = "glyphs", !.at = 8]
      BY DEF Executed
    <3> HIDE DEF e
    <3> QED
      BY <3>1 DEF Display
  <2> HIDE DEF e
  <2>3. Loading(b, e)
    BY <1>2, <2>2 DEF Loading, GlyphBytes
  <2>4. Sends(init_sequence, b, 0, 72)
    BY <1>2, InitSequence
  <2> QED
    BY <1>0, <2>1, <2>3, <2>4 DEF e
<1>3. CASE b \in 5 .. 44
  <2> DEFINE g == b + 3
             byte == Glyphs[g]
             e == Executed(c, 1, byte)
  <2>1. g \in GlyphBytes /\ g \in 8 .. 47 /\ g - 3 = b
    BY <1>3 DEF GlyphBytes
  <2>2. byte \in Byte /\ byte \notin 48 .. 63
    <3>1. \A a \in 1 .. 5 : bargraph_chars[a] \notin 48 .. 63
      BY DEF bargraph_chars
    <3>2. byte = bargraph_chars[g \div 8] /\ g \div 8 \in 1 .. 5
      BY <2>1 DEF Glyphs
    <3> QED
      BY <2>1, <3>1, <3>2, GlyphsAreBytes
  <2>3. Sends(init_sequence, b, 1, byte)
    <3>1. Sends(init_sequence, g - 3, 1, Glyphs[g])
      BY <2>1, InitSequence
    <3> QED
      BY <2>1, <3>1
  <2>4. c.ram = "glyphs" /\ c.at = g /\ \A a \in GlyphBytes : a < g => c.glyphs[a] = Glyphs[a]
    <3>1. b - 1 \in 4 .. 44 /\ b - 1 >= 4 /\ b - 1 + 4 = g
      BY <1>3
    <3> HIDE DEF g
    <3> QED
      BY <3>1 DEF Loading
  <2> HIDE DEF byte
  <2>5. e.width = 4 /\ e.half = NoHalf
    BY <1>0, <1>y, <2>2
  <2> DEFINE new == [a \in GlyphBytes |-> IF a = c.at THEN byte ELSE c.glyphs[a]]
  <2>6. e = [c EXCEPT !.glyphs = new, !.at = (c.at + 1) % 64]
    BY <2>4 DEF Executed
  <2>7. new = [a \in GlyphBytes |-> IF a = g THEN byte ELSE c.glyphs[a]]
    BY <2>4
  <2> HIDE DEF e, new, g
  <2>8. e.ram = "glyphs" /\ e.glyphs = new /\ e.at = (g + 1) % 64
    BY <2>4, <2>6 DEF Display
  <2>9. (g + 1) % 64 = g + 1
    BY <2>1
  <2>10. e.at = b + 4 /\ g + 1 = b + 4
    BY <2>1, <2>8, <2>9
  <2>11. ASSUME NEW a \in GlyphBytes, a < g + 1 PROVE e.glyphs[a] = Glyphs[a]
    <3>1. a = g \/ a < g
      BY <2>1, <2>11 DEF GlyphBytes
    <3>2. CASE a = g
      BY <2>7, <2>8, <3>2 DEF byte
    <3>3. CASE a < g
      <4>1. a # g
        BY <2>1, <3>3 DEF GlyphBytes
      <4> QED
        BY <2>4, <2>7, <2>8, <3>3, <4>1
    <3> QED
      BY <3>1, <3>2, <3>3
  <2>12. Loading(b, e)
    BY <1>3, <2>8, <2>10, <2>11 DEF Loading
  <2> QED
    BY <1>0, <2>2, <2>3, <2>5, <2>12 DEF e
<1>4. CASE b = 45
  <2> DEFINE e == Executed(c, 0, 128)
  <2>1. e.width = 4 /\ e.half = NoHalf /\ e.ram = "text" /\ e.glyphs = c.glyphs
    <3>1. e.width = 4 /\ e.half = NoHalf
      BY <1>0, <1>y
    <3>2. e.ram = "text"
      BY <1>0, <1>x
    <3> QED
      BY <1>0, <1>z, <3>1, <3>2
  <2> HIDE DEF e
  <2>2. Loading(b, e)
    BY <1>4, <2>1 DEF Loading, GlyphBytes
  <2>3. Sends(init_sequence, b, 0, 128)
    BY <1>4, InitSequence
  <2> QED
    BY <1>0, <2>1, <2>2, <2>3 DEF e
<1>5. CASE b \in 46 .. 48
  <2> DEFINE byte == IF b = 46 THEN 12 ELSE IF b = 47 THEN 1 ELSE 6
             e == Executed(c, 0, byte)
  <2>1. byte \in Byte /\ byte \notin 32 .. 63 /\ byte \in {12, 1, 6}
    BY <1>0
  <2>2. Sends(init_sequence, b, 0, byte)
    BY <1>5, InitSequence
  <2>3. c.ram = "text" /\ \A a \in GlyphBytes : c.glyphs[a] = Glyphs[a]
    BY <1>5 DEF Loading, GlyphBytes
  <2>c. b >= 47 => e.cells = Blank
    <3>1. CASE b = 47
      <4>1. e = [c EXCEPT !.ram = "text", !.at = 0, !.cells = Blank]
        BY <3>1 DEF Executed
      <4> HIDE DEF e
      <4> QED
        BY <4>1 DEF Display
    <3>2. CASE b = 48
      <4>1. e = c
        BY <3>2 DEF Executed
      <4>2. c.cells = Blank
        BY <3>2 DEF Loading
      <4> HIDE DEF e
      <4> QED
        BY <4>1, <4>2
    <3> QED
      BY <1>5, <3>1, <3>2
  <2> HIDE DEF byte
  <2>4. e.width = 4 /\ e.half = NoHalf /\ e.glyphs = c.glyphs
    BY <1>0, <1>y, <1>z, <2>1
  <2>5. e.ram = "text"
    <3>1. CASE byte = 1
      BY <1>0, <1>x, <2>1, <3>1
    <3>2. CASE byte \in {12, 6}
      BY <2>3, <3>2 DEF Executed
    <3> QED
      BY <2>1, <3>1, <3>2
  <2> HIDE DEF e
  <2>6. Loading(b, e)
    BY <1>5, <2>3, <2>4, <2>5, <2>c DEF Loading
  <2> QED
    BY <1>0, <2>1, <2>2, <2>4, <2>6 DEF e
<1> QED
  BY <1>1, <1>2, <1>3, <1>4, <1>5

\* A nibble of lcd_init: from whatever the display was in the middle of, it is ready
\* for the next.
LEMMA InitNibble ==
  ASSUME NEW d \in Display, d.width = 8 => d.half = NoHalf, NEW k \in 0 .. 95, Prepared(k, d),
         NEW e \in Latched(d, init_sequence[k + 1])
  PROVE  Prepared(k + 1, e)
<1> DEFINE x == init_sequence[k + 1]
           three == [rs |-> 0, n |-> 3]
<1>1. x \in Nibble
  <2>1. init_sequence \in Seq(Nibble) /\ Len(init_sequence) = 96 /\ k + 1 \in 1 .. 96
    BY InitSequence DEF Makes
  <2> QED
    BY <2>1, ElementOfSeq
<1>2. three \in Nibble /\ three # NoHalf
  BY DEF Nibble, NoHalf, Bit
<1>3. d.width \in {4, 8} /\ d.half \in Nibble \cup {NoHalf}
  BY DEF Display
<1>4. 0 \in Bit /\ 48 \in Byte /\ 51 \in Byte /\ 32 \in Byte
  BY DEF Bit, Byte
<1>5. \A c \in Display : /\ Executed(c, 0, 48).width = 8 /\ Executed(c, 0, 51).width = 8
                         /\ Executed(c, 0, 32).width = 4 /\ Executed(c, 0, 32).half = c.half
  <2> SUFFICES ASSUME NEW c \in Display
               PROVE  /\ Executed(c, 0, 48).width = 8 /\ Executed(c, 0, 51).width = 8
                      /\ Executed(c, 0, 32).width = 4 /\ Executed(c, 0, 32).half = c.half
    OBVIOUS
  <2>1. \A byte \in Byte :
          /\ Executed(c, 0, byte).half = c.half
          /\ Executed(c, 0, byte).width =
               IF byte \in 32 .. 63 THEN (IF byte >= 48 THEN 8 ELSE 4) ELSE c.width
    BY <1>4, Execution
  <2> QED
    BY <1>4, <2>1
<1>6. /\ e \in Display
      /\ d.width = 8 => e = Executed(d, x.rs, 16 * x.n)
      /\ d.width = 4 /\ d.half = NoHalf => e = [d EXCEPT !.half = x]
      /\ d.width = 4 /\ d.half # NoHalf =>
           /\ d.half \in Nibble
           /\ \E rs \in {d.half.rs, x.rs} :
                e = Executed([d EXCEPT !.half = NoHalf], rs, 16 * d.half.n + x.n)
  <2> HIDE DEF x
  <2> QED
    BY <1>1, Latching DEF x
<1> HIDE DEF x, three
<1>7. ASSUME x = three, d.width = 8
      PROVE  e.width = 8
  <2>1. x.rs = 0 /\ 16 * x.n = 48
    BY <1>7 DEF three
  <2> QED
    BY <1>5, <1>6, <1>7, <2>1
<1>8. ASSUME x = three, d.width = 4, d.half = three
      PROVE  e.width = 8
  <2>1. d.half.rs = 0 /\ x.rs = 0 /\ 16 * d.half.n + x.n = 51
    BY <1>8 DEF three
  <2>2. [d EXCEPT !.half = NoHalf] \in Display
    BY DEF Display
  <2>3. e = Executed([d EXCEPT !.half = NoHalf], 0, 51)
    BY <1>2, <1>6, <1>8, <2>1
  <2> QED
    BY <1>5, <2>2, <2>3
<1>9. ASSUME d.width = 4, d.half = NoHalf
      PROVE  /\ e.half = x /\ e.width = 4 /\ e.ram = d.ram /\ e.at = d.at /\ e.glyphs = d.glyphs
             /\ e.cells = d.cells
  BY <1>6, <1>9 DEF Display
<1>10. CASE k = 0
  <2>1. x = three
    BY <1>10, InitSequence DEF x, three
  <2>2. e.width = 8 \/ e.half \in {NoHalf, three}
    <3>1. CASE d.width = 8
      BY <1>7, <2>1, <3>1
    <3>2. CASE d.width = 4 /\ d.half = NoHalf
      BY <1>9, <2>1, <3>2
    <3>3. CASE d.width = 4 /\ d.half # NoHalf
      <4> DEFINE c == [d EXCEPT !.half = NoHalf]
                 byte == 16 * d.half.n + x.n
      <4>1. c \in Display /\ c.half = NoHalf
        BY DEF Display
      <4>2. PICK rs \in {d.half.rs, x.rs} : e = Executed(c, rs, byte)
        BY <1>6, <3>3
      <4>3. rs \in Bit /\ byte \in Byte
        <5>1. d.half.rs \in Bit /\ x.rs \in Bit /\ d.half.n \in 0 .. 15 /\ x.n \in 0 .. 15
          BY <1>1, <1>6, <3>3 DEF Nibble
        <5> QED
          BY <4>2, <5>1 DEF Byte
      <4> HIDE DEF c, byte
      <4> QED
        BY <4>1, <4>2, <4>3, Execution
    <3> QED
      BY <1>3, <3>1, <3>2, <3>3
  <2> QED
    BY <1>10, <2>2 DEF Prepared, WakingUp, three
<1>11. CASE k = 1
  <2>1. x = three
    BY <1>11, InitSequence DEF x, three
  <2>2. d.width = 8 \/ d.half \in {NoHalf, three}
    BY <1>11 DEF Prepared, WakingUp, three
  <2>3. e.width = 8 \/ e.half = three
    BY <1>3, <1>7, <1>8, <1>9, <2>1, <2>2
  <2> QED
    BY <1>11, <2>3 DEF Prepared, WakingUp, three
<1>12. CASE k = 2
  <2>1. x = three
    BY <1>12, InitSequence DEF x, three
  <2>2. d.width = 8 \/ d.half = three
    BY <1>12 DEF Prepared, WakingUp, three
  <2>3. e.width = 8
    BY <1>3, <1>7, <1>8, <2>1, <2>2
  <2> QED
    BY <1>12, <2>3 DEF Prepared, WakingUp
<1>13. CASE k = 3
  <2>1. x = [rs |-> 0, n |-> 2]
    BY <1>13, InitSequence DEF x
  <2>2. d.width = 8 /\ d.half = NoHalf
    BY <1>13 DEF Prepared, WakingUp
  <2>3. x.rs = 0 /\ 16 * x.n = 32
    BY <2>1
  <2>4. e.width = 4 /\ e.half = NoHalf
    BY <1>5, <1>6, <2>2, <2>3
  <2>5. (k + 1) % 2 = 0 /\ (k + 1) \div 2 = 2
    BY <1>13
  <2> QED
    BY <1>13, <2>4, <2>5 DEF Prepared, WakingUp, Loading
<1>14. CASE k >= 4 /\ k % 2 = 0
  <2>1. d.width = 4 /\ d.half = NoHalf /\ Loading(k \div 2, d)
    BY <1>14 DEF Prepared
  <2>2. /\ e.half = x /\ e.width = 4 /\ e.ram = d.ram /\ e.at = d.at /\ e.glyphs = d.glyphs
        /\ e.cells = d.cells
    BY <1>9, <2>1
  <2>3. ~((k + 1) % 2 = 0) /\ (k + 1) \div 2 = k \div 2 /\ k + 1 > 4
    BY <1>14
  <2>4. Loading((k + 1) \div 2, e)
    BY <2>1, <2>2, <2>3 DEF Loading
  <2> QED
    BY <2>2, <2>3, <2>4 DEF Prepared, WakingUp, x
<1>15. CASE k >= 4 /\ k % 2 = 1
  <2> DEFINE b == (k + 1) \div 2
             h == d.half
             c == [d EXCEPT !.half = NoHalf]
  <2>1. b \in 3 .. 48 /\ k = 2 * b - 1 /\ k + 1 = 2 * b /\ k \div 2 = b - 1 /\ (k + 1) % 2 = 0
    BY <1>15
  <2> HIDE DEF b
  <2>2. d.width = 4 /\ h = init_sequence[2 * b - 1] /\ x = init_sequence[2 * b] /\ Loading(b - 1, d)
    BY <1>15, <2>1 DEF Prepared, x
  <2>3. /\ c \in Display /\ c.half = NoHalf /\ c.width = 4 /\ c.ram = d.ram /\ c.at = d.at
        /\ c.glyphs = d.glyphs /\ c.cells = d.cells
    BY <2>2 DEF Display
  <2> HIDE DEF c
  <2>4. Loading(b - 1, c)
    BY <2>2, <2>3 DEF Loading
  <2>5. PICK rs \in Bit, byte \in Byte :
           /\ Sends(init_sequence, b, rs, byte)
           /\ Executed(c, rs, byte).width = 4 /\ Executed(c, rs, byte).half = NoHalf
           /\ Loading(b, Executed(c, rs, byte))
    BY <2>1, <2>3, <2>4, InitByte
  <2>6. h.rs = rs /\ x.rs = rs /\ h.n = byte \div 16 /\ x.n = byte % 16
    BY <2>2, <2>5 DEF Sends
  <2>7. 16 * h.n + x.n = byte
    <3>1. 16 * (byte \div 16) + (byte % 16) = byte
      BY DEF Byte
    <3> QED
      BY <2>6, <3>1
  <2>8. h # NoHalf
    <3>1. h.n # -1
      <4>1. byte \div 16 \in 0 .. 15
        BY DEF Byte
      <4> QED
        BY <2>6, <4>1
    <3> QED
      BY <3>1 DEF NoHalf
  <2>9. e = Executed(c, rs, byte)
    BY <1>6, <2>2, <2>6, <2>7, <2>8 DEF c
  <2>10. k + 1 > 4
    BY <1>15
  <2> QED
    BY <2>1, <2>5, <2>9, <2>10 DEF Prepared, WakingUp, b
<1> QED
  BY <1>10, <1>11, <1>12, <1>13, <1>14, <1>15

LEMMA InitSend ==
  ASSUME TypeInv, LcdInv, SenderInv, NEW t \in Threads, Send(t), server = "init"
  PROVE  LcdInv'
<1>1. t = Main
  BY OthersAreSilent DEF Send
<1> DEFINE s == sending[Main]
           r == sending'[Main]
           m == Len(s)
           k == Sent
<1>2. /\ Head(s) = s[1] /\ m \in Nat \ {0} /\ Len(r) = m - 1
      /\ \A i \in 1 .. Len(r) : r[i] = s[i + 1]
      /\ display' \in Latched(display, Head(s))
      /\ UNCHANGED <<lcd_mutex, server>>
  BY <1>1, SendType
<1>3. /\ k = 96 - m /\ k \in 0 .. 96
      /\ \A i \in 1 .. m : s[i] = init_sequence[k + i]
      /\ Prepared(k, display)
  BY DEF LcdInv, InitInv, Sent, InitLen
<1>4. Sent' = 96 - Len(r)
  BY DEF Sent, InitLen
<1>5. display \in Display /\ (display.width = 8 => display.half = NoHalf)
  BY DEF TypeInv
<1> HIDE DEF s, r, m, k
<1>6. k \in 0 .. 95 /\ Sent' = k + 1 /\ Sent' \in 0 .. InitLen
  BY <1>2, <1>3, <1>4 DEF InitLen
<1>7. Head(s) = init_sequence[k + 1]
  BY <1>2, <1>3
<1>8. Prepared(k + 1, display')
  BY <1>2, <1>3, <1>5, <1>6, <1>7, InitNibble
<1>9. ASSUME NEW i \in 1 .. Len(r) PROVE r[i] = init_sequence[(k + 1) + i]
  <2>1. i + 1 \in 1 .. m /\ k + (i + 1) = (k + 1) + i
    BY <1>2, <1>3
  <2>2. s[i + 1] = init_sequence[k + (i + 1)]
    BY <1>3, <2>1
  <2> QED
    BY <1>2, <2>1, <2>2
<1>10. InitInv'
  BY <1>6, <1>8, <1>9 DEF InitInv, r
<1>11. UpInv'
  BY <1>2 DEF UpInv
<1> QED
  BY <1>10, <1>11 DEF LcdInv

-----------------------------------------------------------------------------
LEMMA InvStep == TypeInv /\ LcdInv /\ SenderInv /\ [Next]_vars => TypeInv' /\ LcdInv'
<1> SUFFICES ASSUME TypeInv, LcdInv, SenderInv, [Next]_vars
             PROVE  TypeInv' /\ LcdInv'
  OBVIOUS
<1>1. CASE StartServer
  BY <1>1, InvStart
<1>2. CASE Initialised
  BY <1>2, InvInitialised
<1>3. CASE EndServer
  BY <1>3, InvEnd
<1>4. ASSUME NEW t \in Threads,
             \/ lcd_write_string(t) \/ lcd_display_bargraph(t) \/ lcd_display_message(t)
             \/ lcd_display_message_no_flash(t) \/ lcd_clear(t)
      PROVE  TypeInv' /\ LcdInv'
  <2>1. \E nibbles : Whole(nibbles) /\ Locked(t, nibbles)
    BY <1>4, CallsAreWhole DEF lcd_write_string, lcd_display_bargraph, lcd_display_message,
                lcd_display_message_no_flash, lcd_clear
  <2> QED
    BY <2>1, InvCall
<1>5. ASSUME NEW t \in Threads, Send(t)
      PROVE  TypeInv' /\ LcdInv'
  <2>1. server \in {"init", "up"}
    BY <1>5, OthersAreSilent DEF Send
  <2>2. TypeInv'
    BY <1>5, SendType
  <2>3. LcdInv'
    BY <1>5, <2>1, UpSend, InitSend
  <2> QED
    BY <2>2, <2>3
<1>6. ASSUME NEW t \in Threads, Unlock(t)
      PROVE  TypeInv' /\ LcdInv'
  BY <1>6, InvUnlock
<1>7. CASE UNCHANGED vars
  <2>1. TypeInv'
    BY <1>7 DEF vars, TypeInv
  <2>2. UpInv'
    BY <1>7 DEF vars, LcdInv, UpInv
  <2>3. InitInv'
    BY <1>7 DEF vars, LcdInv, InitInv, Sent
  <2> QED
    BY <2>1, <2>2, <2>3 DEF LcdInv
<1> QED
  BY <1>1, <1>2, <1>3, <1>4, <1>5, <1>6, <1>7 DEF Next

\* Whatever bytes the halves of an interrupted call and of lcd_init make, the display's
\* address and memory stay in range; and what is sent are nibbles.
THEOREM LcdTyping == Spec => []TypeOK
<1>1. Init => TypeInv /\ LcdInv /\ SenderInv
  BY InvInit, SenderInit
<1>2. TypeInv /\ LcdInv /\ SenderInv /\ [Next]_vars => (TypeInv /\ LcdInv /\ SenderInv)'
  BY InvStep, SenderStep
<1>3. TypeInv => TypeOK
  <2> SUFFICES ASSUME TypeInv PROVE TypeOK
    OBVIOUS
  <2>1. ASSUME NEW t \in Threads, NEW i \in DOMAIN sending[t]
        PROVE  sending[t][i].rs \in {0, 1} /\ sending[t][i].n \in 0 .. 15
    <3>1. sending[t] \in Seq(Nibble)
      BY DEF TypeInv
    <3>2. i \in 1 .. Len(sending[t])
      BY <3>1
    <3>3. sending[t][i] \in Nibble
      BY <3>1, <3>2, ElementOfSeq
    <3> QED
      BY <3>3 DEF Nibble, Bit
  <2> QED
    BY <2>1 DEF TypeInv, TypeOK, Display
<1> QED
  BY <1>1, <1>2, <1>3, PTL DEF Spec

\* Wherever the server was cut off, and however often: once lcd_init is through the
\* display has the characters that bars are made of, and no call writes over them.
THEOREM GlyphsAreLoaded == Spec => []GlyphsLoaded
<1>1. Init => TypeInv /\ LcdInv /\ SenderInv
  BY InvInit, SenderInit
<1>2. TypeInv /\ LcdInv /\ SenderInv /\ [Next]_vars => (TypeInv /\ LcdInv /\ SenderInv)'
  BY InvStep, SenderStep
<1>3. LcdInv => GlyphsLoaded
  BY DEF LcdInv, UpInv, GlyphsLoaded
<1> QED
  BY <1>1, <1>2, <1>3, PTL DEF Spec

-----------------------------------------------------------------------------
(* What is shown: the display, after each call is through, is the screen   *)
(* that Screen promises.  First what becomes of it when nibbles are sent   *)
(* one after another.                                                      *)

LEMMA SetInduction ==
  ASSUME NEW S, 0 \in S, \A n \in Nat : n \in S => n + 1 \in S
  PROVE  Nat \subseteq S
<1> SUFFICES ASSUME NEW z \in Nat, z \notin S PROVE FALSE
  OBVIOUS
<1> DEFINE T == Nat \ S
           Less == {ss \in Nat \X Nat : ss[1] < ss[2]}
<1>1. IsWellFoundedOn(Less, Nat)
  BY NatLessThanWellFounded DEF OpToRel
<1>2. T \subseteq Nat /\ T # {}
  OBVIOUS
<1> HIDE DEF T, Less
<1>3. PICK n \in T : \A m \in T : <<m, n>> \notin Less
  BY <1>1, <1>2, WFMin
<1>4. n # 0 /\ n \in Nat
  BY <1>3 DEF T
<1>5. n - 1 \in Nat /\ <<n - 1, n>> \in Less
  BY <1>4 DEF Less
<1>6. n - 1 \notin T
  BY <1>3, <1>5
<1>7. n - 1 \in S
  BY <1>5, <1>6 DEF T
<1>8. (n - 1) + 1 \in S
  BY <1>5, <1>7
<1> QED
  BY <1>3, <1>4, <1>8 DEF T

\* A nibble may make any of D into any of these.
Step(D, nibble) == UNION {Latched(d, nibble) : d \in D}

\* h: what the display may be after each of the first n nibbles of s.
IsRun(h, D, s, n) == h[0] = D /\ \A k \in 1 .. n : h[k] = Step(h[k - 1], s[k])

LEMMA RunsAgree ==
  ASSUME NEW D, NEW s, NEW n \in Nat, NEW g, NEW h, IsRun(g, D, s, n), IsRun(h, D, s, n)
  PROVE  \A k \in 0 .. n : g[k] = h[k]
<1> DEFINE S == {k \in Nat : k <= n => g[k] = h[k]}
<1>1. 0 \in S
  BY DEF IsRun
<1>2. ASSUME NEW k \in Nat, k \in S PROVE k + 1 \in S
  <2>1. CASE k + 1 <= n
    <3>1. k + 1 \in 1 .. n /\ (k + 1) - 1 = k /\ g[k] = h[k]
      BY <1>2, <2>1
    <3>2. g[k + 1] = Step(g[(k + 1) - 1], s[k + 1]) /\ h[k + 1] = Step(h[(k + 1) - 1], s[k + 1])
      BY <3>1 DEF IsRun
    <3> QED
      BY <3>1, <3>2
  <2>2. CASE ~(k + 1 <= n)
    BY <2>2
  <2> QED
    BY <2>1, <2>2
<1>3. Nat \subseteq S
  <2> HIDE DEF S
  <2> QED
    BY <1>1, <1>2, SetInduction
<1> QED
  BY <1>3

\* What the recursion of Outcomes defines.
Recursion(h, D, s, n) == h = [k \in 0 .. n |-> IF k = 0 THEN D ELSE Step(h[k - 1], s[k])]

LEMMA RunExists ==
  ASSUME NEW D, NEW s, NEW n \in Nat
  PROVE  \E h : Recursion(h, D, s, n)
<1> DEFINE Is(h, m) == h = [k \in 0 .. m |-> IF k = 0 THEN D ELSE Step(h[k - 1], s[k])]
           S == {m \in Nat : \E h : Is(h, m)}
<1>1. 0 \in S
  <2> DEFINE h == [k \in 0 .. 0 |-> D]
  <2>1. Is(h, 0)
    OBVIOUS
  <2> HIDE DEF h, Is
  <2> QED
    BY <2>1
<1>2. ASSUME NEW m \in Nat, m \in S PROVE m + 1 \in S
  <2>1. PICK h : Is(h, m)
    BY <1>2
  <2> DEFINE x == Step(h[m], s[m + 1])
             g == [k \in 0 .. m + 1 |-> IF k <= m THEN h[k] ELSE x]
  <2>2. ASSUME NEW k \in 0 .. m + 1
        PROVE  g[k] = IF k = 0 THEN D ELSE Step(g[k - 1], s[k])
    <3>1. CASE k <= m
      <4>1. k \in 0 .. m /\ (k # 0 => k - 1 \in 0 .. m + 1 /\ k - 1 <= m)
        BY <3>1
      <4>2. g[k] = h[k] /\ (k # 0 => g[k - 1] = h[k - 1])
        BY <4>1
      <4>3. h[k] = IF k = 0 THEN D ELSE Step(h[k - 1], s[k])
        BY <2>1, <4>1
      <4> HIDE DEF g, Is
      <4> QED
        BY <4>2, <4>3
    <3>2. CASE ~(k <= m)
      <4>1. k = m + 1 /\ k # 0 /\ k - 1 = m
        BY <3>2
      <4>2. g[k] = x /\ g[m] = h[m]
        BY <3>2
      <4> HIDE DEF g, Is
      <4> QED
        BY <4>1, <4>2 DEF x
    <3> QED
      BY <3>1, <3>2
  <2>3. g = [k \in 0 .. m + 1 |-> g[k]]
    OBVIOUS
  <2> HIDE DEF g, x
  <2>4. Is(g, m + 1)
    BY <2>2, <2>3
  <2> HIDE DEF Is
  <2> QED
    BY <2>4
<1>3. Nat \subseteq S
  <2> HIDE DEF S
  <2> QED
    BY <1>1, <1>2, SetInduction
<1> QED
  BY <1>3 DEF Recursion

\* Outcomes is the end of any run.
LEMMA OutcomesRun ==
  ASSUME NEW D, NEW s, Len(s) \in Nat
  PROVE  \E h : IsRun(h, D, s, Len(s)) /\ Outcomes(D, s) = h[Len(s)]
<1> DEFINE Is(h) == Recursion(h, D, s, Len(s))
           h == CHOOSE i : Is(i)
<1>1. \E i : Is(i)
  BY RunExists
<1>2. Is(h)
  BY <1>1
<1>3. Outcomes(D, s) = h[Len(s)]
  BY DEF Outcomes, Step, Recursion
<1> HIDE DEF h
<1>4. IsRun(h, D, s, Len(s))
  BY <1>2 DEF IsRun, Recursion
<1> QED
  BY <1>3, <1>4

LEMMA RunEnds ==
  ASSUME NEW D, NEW s, Len(s) \in Nat, NEW g, IsRun(g, D, s, Len(s))
  PROVE  Outcomes(D, s) = g[Len(s)]
<1>1. PICK h : IsRun(h, D, s, Len(s)) /\ Outcomes(D, s) = h[Len(s)]
  BY OutcomesRun
<1> QED
  BY <1>1, RunsAgree

LEMMA OutcomesNone ==
  ASSUME NEW D PROVE Outcomes(D, <<>>) = D
<1>1. Len(<<>>) = 0 /\ Len(<<>>) \in Nat
  OBVIOUS
<1>2. PICK h : IsRun(h, D, <<>>, Len(<<>>)) /\ Outcomes(D, <<>>) = h[Len(<<>>)]
  BY <1>1, OutcomesRun
<1> QED
  BY <1>1, <1>2 DEF IsRun

\* One sequence after another.
LEMMA OutcomesJoined ==
  ASSUME NEW D, NEW s \in Seq(Nibble), NEW r \in Seq(Nibble)
  PROVE  Outcomes(D, s \o r) = Outcomes(Outcomes(D, s), r)
<1> DEFINE t == s \o r
           m == Len(s)
           n == Len(r)
<1>1. m \in Nat /\ n \in Nat
  OBVIOUS
<1>2. Len(t) = m + n /\ \A i \in 1 .. m + n : t[i] = IF i <= m THEN s[i] ELSE r[i - m]
  BY Joined
<1> HIDE DEF t
<1>3. PICK h : IsRun(h, D, t, m + n) /\ Outcomes(D, t) = h[m + n]
  BY <1>1, <1>2, OutcomesRun
<1>4. IsRun(h, D, s, m)
  <2>1. \A k \in 1 .. m : k \in 1 .. m + n /\ t[k] = s[k]
    BY <1>1, <1>2
  <2> QED
    BY <1>3, <2>1 DEF IsRun
<1>5. Outcomes(D, s) = h[m]
  BY <1>1, <1>4, RunEnds
<1> DEFINE g == [k \in 0 .. n |-> h[m + k]]
<1> HIDE DEF m, n
<1>6. g[0] = h[m] /\ g[n] = h[m + n]
  BY <1>1
<1>7. ASSUME NEW k \in 1 .. n PROVE g[k] = Step(g[k - 1], r[k])
  <2>1. m + k \in 1 .. m + n /\ ~(m + k <= m) /\ (m + k) - m = k /\ k - 1 \in 0 .. n /\ k \in 0 .. n
        /\ (m + k) - 1 = m + (k - 1)
    BY <1>1
  <2>2. h[m + k] = Step(h[(m + k) - 1], t[m + k])
    BY <1>3, <2>1 DEF IsRun
  <2>3. t[m + k] = r[k]
    BY <1>2, <2>1
  <2>4. g[k] = h[m + k] /\ g[k - 1] = h[m + (k - 1)]
    BY <2>1
  <2> HIDE DEF g
  <2> QED
    BY <2>1, <2>2, <2>3, <2>4
<1> HIDE DEF g
<1>8. IsRun(g, h[m], r, n)
  BY <1>6, <1>7 DEF IsRun
<1>9. Outcomes(h[m], r) = g[n]
  BY <1>1, <1>8, RunEnds DEF n
<1> QED
  BY <1>3, <1>5, <1>6, <1>9 DEF t

\* The first of a sequence.
LEMMA OutcomesFirst ==
  ASSUME NEW D, NEW s \in Seq(Nibble), s # <<>>
  PROVE  Outcomes(D, s) = Outcomes(Step(D, Head(s)), Tail(s))
<1> DEFINE n == Len(s)
           r == Tail(s)
<1>1. n \in Nat \ {0} /\ Len(r) = n - 1 /\ Head(s) = s[1] /\ \A i \in 1 .. n - 1 : r[i] = s[i + 1]
  OBVIOUS
<1>2. PICK h : IsRun(h, D, s, n) /\ Outcomes(D, s) = h[n]
  BY <1>1, OutcomesRun
<1> DEFINE g == [k \in 0 .. n - 1 |-> h[k + 1]]
<1> HIDE DEF n, r
<1>3. h[1] = Step(D, Head(s))
  <2>1. 1 \in 1 .. n /\ 1 - 1 = 0
    BY <1>1
  <2>2. h[1] = Step(h[1 - 1], s[1])
    BY <1>2, <2>1 DEF IsRun
  <2>3. h[1 - 1] = D
    BY <1>2, <2>1 DEF IsRun
  <2> QED
    BY <1>1, <2>2, <2>3
<1>4. g[0] = h[1] /\ g[n - 1] = h[n]
  BY <1>1
<1>5. ASSUME NEW k \in 1 .. n - 1 PROVE g[k] = Step(g[k - 1], r[k])
  <2>1. k + 1 \in 1 .. n /\ (k + 1) - 1 = (k - 1) + 1 /\ k \in 0 .. n - 1 /\ k - 1 \in 0 .. n - 1
    BY <1>1
  <2>2. h[k + 1] = Step(h[(k + 1) - 1], s[k + 1])
    BY <1>2, <2>1 DEF IsRun
  <2>3. g[k] = h[k + 1] /\ g[k - 1] = h[(k - 1) + 1]
    BY <2>1
  <2> HIDE DEF g
  <2> QED
    BY <1>1, <2>1, <2>2, <2>3
<1> HIDE DEF g
<1>6. IsRun(g, Step(D, Head(s)), r, Len(r))
  BY <1>1, <1>3, <1>4, <1>5 DEF IsRun
<1>7. Len(r) \in Nat
  BY <1>1
<1>8. Outcomes(Step(D, Head(s)), r) = g[Len(r)]
  BY <1>6, <1>7, RunEnds
<1> QED
  BY <1>1, <1>2, <1>4, <1>8 DEF r

-----------------------------------------------------------------------------
\* Bytes and rows.

\* Between two calls; and a sequence that leads from there to there.
Ready(d) == d \in Display /\ d.width = 4 /\ d.half = NoHalf /\ d.ram = "text"
Final(d, s, e) == Ready(e) /\ Outcomes({d}, s) = {e}

LEMMA StepByte ==
  ASSUME NEW d \in Display, d.width = 4, d.half = NoHalf, NEW rs \in Bit, NEW byte \in Byte,
         NEW hi, NEW lo, hi = [rs |-> rs, n |-> byte \div 16], lo = [rs |-> rs, n |-> byte % 16]
  PROVE  Step(Step({d}, hi), lo) = {Executed(d, rs, byte)}
<1> DEFINE c == [d EXCEPT !.half = hi]
<1>1. byte \div 16 \in 0 .. 15 /\ 16 * (byte \div 16) + (byte % 16) = byte
  BY DEF Byte
<1>2. hi.n # -1 /\ hi.rs = rs /\ lo.rs = rs /\ 16 * hi.n + lo.n = byte
  BY <1>1
<1>3. hi # NoHalf
  BY <1>2 DEF NoHalf
<1>4. Step({d}, hi) = {c}
  BY DEF Step, Latched
<1>5. c.width = 4 /\ c.half = hi
  BY DEF Display
<1>6. [c EXCEPT !.half = NoHalf] = d
  BY DEF Display
<1> HIDE DEF c
<1>7. Step({c}, lo) = Latched(c, lo)
  BY DEF Step
<1>8. Latched(c, lo) = {Executed([c EXCEPT !.half = NoHalf], r, 16 * c.half.n + lo.n) : r \in {c.half.rs, lo.rs}}
  BY <1>3, <1>5 DEF Latched
<1>9. Latched(c, lo) = {Executed(d, r, byte) : r \in {rs}}
  BY <1>2, <1>5, <1>6, <1>8
<1> QED
  BY <1>4, <1>7, <1>9

\* In a run.
LEMMA RunByte ==
  ASSUME NEW n \in Nat, NEW h, NEW D, NEW s, IsRun(h, D, s, n), NEW b \in Nat \ {0}, 2 * b <= n,
         NEW rs \in Bit, NEW byte \in Byte, Sends(s, b, rs, byte),
         NEW d \in Display, d.width = 4, d.half = NoHalf, h[2 * (b - 1)] = {d}
  PROVE  h[2 * b] = {Executed(d, rs, byte)}
<1> DEFINE i == 2 * b - 1
<1>1. i \in 1 .. n /\ i + 1 \in 1 .. n /\ i - 1 = 2 * (b - 1) /\ (i + 1) - 1 = i /\ i + 1 = 2 * b
  OBVIOUS
<1>2. s[i] = [rs |-> rs, n |-> byte \div 16] /\ s[i + 1] = [rs |-> rs, n |-> byte % 16]
  BY <1>1 DEF Sends
<1> HIDE DEF i
<1>3. h[i] = Step(h[i - 1], s[i]) /\ h[i + 1] = Step(h[(i + 1) - 1], s[i + 1])
  BY <1>1 DEF IsRun
<1>4. h[i + 1] = Step(Step({d}, s[i]), s[i + 1])
  BY <1>1, <1>3
<1>5. Step(Step({d}, s[i]), s[i + 1]) = {Executed(d, rs, byte)}
  BY <1>2, StepByte
<1> QED
  BY <1>1, <1>4, <1>5

\* A character is put into the cell that is its turn.
LEMMA PutCharacter ==
  ASSUME NEW d, Ready(d), NEW byte \in Byte
  PROVE  LET e == Executed(d, 1, byte)
         IN  /\ Ready(e) /\ e.at = After(d.at)
             /\ e.cells = [a \in Cells |-> IF a = d.at THEN byte ELSE d.cells[a]]
<1> DEFINE e == Executed(d, 1, byte)
           new == [a \in Cells |-> IF a = d.at THEN byte ELSE d.cells[a]]
<1>1. d \in Display /\ d.width = 4 /\ d.half = NoHalf /\ d.ram = "text" /\ 1 \in Bit
  BY DEF Ready, Bit
<1>2. e = [d EXCEPT !.cells = new, !.at = After(d.at)]
  BY <1>1 DEF Executed
<1>3. e \in Display
  BY <1>1, Execution
<1> HIDE DEF e, new
<1>4. e.width = 4 /\ e.half = NoHalf /\ e.ram = "text" /\ e.at = After(d.at) /\ e.cells = new
  BY <1>1, <1>2 DEF Display
<1> QED
  BY <1>3, <1>4 DEF e, new, Ready

\* An address, and clearing the display.
LEMMA PutCommand ==
  ASSUME NEW d, Ready(d), NEW byte \in Byte, byte >= 128 \/ byte = LCD_CLEAR
  PROVE  LET e == Executed(d, 0, byte)
         IN  /\ Ready(e)
             /\ byte >= 128 => e.at = byte - 128 /\ e.cells = d.cells
             /\ byte = LCD_CLEAR => e.cells = Blank
<1> DEFINE e == Executed(d, 0, byte)
<1>1. d \in Display /\ d.width = 4 /\ d.half = NoHalf /\ d.ram = "text" /\ 0 \in Bit
  BY DEF Ready, Bit
<1>2. e \in Display
  BY <1>1, Execution
<1>3. CASE byte >= 128
  <2>1. e = [d EXCEPT !.ram = "text", !.at = byte - 128]
    BY <1>3 DEF Executed
  <2> HIDE DEF e
  <2>2. e.width = 4 /\ e.half = NoHalf /\ e.ram = "text" /\ e.at = byte - 128 /\ e.cells = d.cells
    BY <1>1, <2>1 DEF Display
  <2>3. byte # LCD_CLEAR
    BY <1>3 DEF LCD_CLEAR
  <2> QED
    BY <1>2, <2>2, <2>3 DEF e, Ready
<1>4. CASE byte = 1
  <2>1. e = [d EXCEPT !.ram = "text", !.at = 0, !.cells = Blank]
    BY <1>4 DEF Executed
  <2> HIDE DEF e
  <2>2. e.width = 4 /\ e.half = NoHalf /\ e.ram = "text" /\ e.cells = Blank
    BY <1>1, <2>1 DEF Display
  <2> QED
    BY <1>2, <1>4, <2>2 DEF e, Ready
<1> QED
  BY <1>3, <1>4 DEF LCD_CLEAR

LEMMA CommandIsFinal ==
  ASSUME NEW d, Ready(d), NEW byte \in Byte, byte >= 128 \/ byte = LCD_CLEAR
  PROVE  Final(d, Command(byte), Executed(d, 0, byte))
<1> DEFINE bytes == <<byte>>
           s == lcd_send_bytes(bytes, 0)
<1>1. bytes \in Seq(Byte) /\ Len(bytes) = 1 /\ bytes[1] = byte /\ 0 \in Bit
  BY DEF Bit
<1>2. Command(byte) = s
  BY DEF Command
<1> HIDE DEF bytes
<1>3. /\ Len(s) = 2 * Len(bytes)
      /\ \A j \in 1 .. Len(bytes) : /\ s[2 * j - 1] = [rs |-> 0, n |-> bytes[j] \div 16]
                                    /\ s[2 * j] = [rs |-> 0, n |-> bytes[j] % 16]
  BY <1>1, Halves
<1> HIDE DEF s
<1>4. Len(s) = 2 /\ Sends(s, 1, 0, byte)
  BY <1>1, <1>3 DEF Sends
<1> DEFINE D == {d}
<1> HIDE DEF D
<1>5. PICK h : IsRun(h, D, s, Len(s)) /\ Outcomes(D, s) = h[Len(s)]
  <2>1. Len(s) \in Nat
    BY <1>4
  <2> QED
    BY <2>1, OutcomesRun
<1>6. h[2 * (1 - 1)] = {d}
  BY <1>5 DEF IsRun, D
<1>7. d \in Display /\ d.width = 4 /\ d.half = NoHalf
  BY DEF Ready
<1>8. 2 \in Nat /\ 1 \in Nat \ {0} /\ 2 * 1 <= 2 /\ IsRun(h, D, s, 2)
  BY <1>4, <1>5
<1>9. h[2 * 1] = {Executed(d, 0, byte)}
  <2>1. Sends(s, 1, 0, byte)
    BY <1>4
  <2> QED
    BY <1>1, <1>6, <1>7, <1>8, <2>1, RunByte
<1>10. Ready(Executed(d, 0, byte))
  BY PutCommand
<1> QED
  BY <1>2, <1>4, <1>5, <1>9, <1>10 DEF Final, D

LEMMA FinalNone ==
  ASSUME NEW d, Ready(d) PROVE Final(d, <<>>, d)
BY OutcomesNone DEF Final

LEMMA FinalJoined ==
  ASSUME NEW s \in Seq(Nibble), NEW r \in Seq(Nibble), NEW d, NEW e, NEW f,
         Final(d, s, e), Final(e, r, f)
  PROVE  Final(d, s \o r, f)
<1> DEFINE A == {d}
           B == {e}
<1>1. Outcomes(A, s) = B /\ Outcomes(B, r) = {f} /\ Ready(f)
  BY DEF Final
<1>2. Final(d, s \o r, f) <=> (Ready(f) /\ Outcomes(A, s \o r) = {f})
  BY DEF Final
<1> HIDE DEF A, B
<1>3. Outcomes(A, s \o r) = Outcomes(Outcomes(A, s), r)
  BY OutcomesJoined
<1> QED
  BY <1>1, <1>2, <1>3

\* Rows lie apart in the memory of the display, and a row does not go over its ends.
Cell(r, c) == line_offsets[r] + c - 1

LEMMA Offsets ==
  /\ line_offsets[0] = 0 /\ line_offsets[1] = 64
  /\ line_offsets[2] = LCD_COLS /\ line_offsets[3] = 64 + LCD_COLS
  /\ \A r \in LCD_ROWS : line_offsets[r] \in 0 .. 84
<1>1. LCD_COLS \in 1 .. 20
  BY ColsAssumption
<1>2. \A r \in LCD_ROWS : line_offsets[r] = (r % 2) * 64 + (r \div 2) * LCD_COLS
  BY DEF line_offsets
<1>3. /\ 0 % 2 = 0 /\ 0 \div 2 = 0 /\ 1 % 2 = 1 /\ 1 \div 2 = 0
      /\ 2 % 2 = 0 /\ 2 \div 2 = 1 /\ 3 % 2 = 1 /\ 3 \div 2 = 1
  OBVIOUS
<1>4. 0 \in LCD_ROWS /\ 1 \in LCD_ROWS /\ 2 \in LCD_ROWS /\ 3 \in LCD_ROWS
  BY DEF LCD_ROWS
<1>5. line_offsets[0] = 0 /\ line_offsets[1] = 64
  BY <1>1, <1>2, <1>3, <1>4
<1>6. line_offsets[2] = LCD_COLS /\ line_offsets[3] = 64 + LCD_COLS
  BY <1>1, <1>2, <1>3, <1>4
<1>7. ASSUME NEW r \in LCD_ROWS PROVE line_offsets[r] \in 0 .. 84
  <2>1. r \in {0, 1, 2, 3}
    BY DEF LCD_ROWS
  <2> QED
    BY <1>1, <1>5, <1>6, <2>1
<1> QED
  BY <1>5, <1>6, <1>7

LEMMA CellsAreInt == \A a \in Cells : a \in Int
BY ColsAssumption, Offsets DEF Cells

LEMMA CellsOfRows ==
  ASSUME NEW r \in LCD_ROWS, NEW q \in LCD_ROWS, NEW c \in 1 .. LCD_COLS
  PROVE  /\ Cell(r, c) \in Cells /\ Cell(r, c) \in Int
         /\ r # q => Cell(r, c) - line_offsets[q] \notin 0 .. LCD_COLS - 1
         /\ Cell(r, c) - line_offsets[r] = c - 1
<1>1. LCD_COLS \in 1 .. 20
  BY ColsAssumption
<1>2. line_offsets[r] \in 0 .. 84 /\ line_offsets[q] \in 0 .. 84
  BY Offsets
<1>3. Cell(r, c) = line_offsets[r] + (c - 1) /\ c - 1 \in 0 .. LCD_COLS - 1
  BY <1>1, <1>2 DEF Cell
<1>4. Cell(r, c) \in Cells
  BY <1>3 DEF Cells
<1>5. r \in {0, 1, 2, 3} /\ q \in {0, 1, 2, 3}
  BY DEF LCD_ROWS
<1>6. ASSUME r # q PROVE Cell(r, c) - line_offsets[q] \notin 0 .. LCD_COLS - 1
  <2>1. CASE r = 0
    BY <1>1, <1>3, <1>5, <1>6, <2>1, Offsets
  <2>2. CASE r = 1
    BY <1>1, <1>3, <1>5, <1>6, <2>2, Offsets
  <2>3. CASE r = 2
    BY <1>1, <1>3, <1>5, <1>6, <2>3, Offsets
  <2>4. CASE r = 3
    BY <1>1, <1>3, <1>5, <1>6, <2>4, Offsets
  <2> QED
    BY <1>5, <2>1, <2>2, <2>3, <2>4
<1> QED
  BY <1>1, <1>2, <1>3, <1>4, <1>6

LEMMA NextCell ==
  ASSUME NEW r \in LCD_ROWS, NEW j \in 0 .. LCD_COLS - 2
  PROVE  After(line_offsets[r] + j) = line_offsets[r] + (j + 1)
<1>1. LCD_COLS \in 1 .. 20
  BY ColsAssumption
<1>2. r \in {0, 1, 2, 3}
  BY DEF LCD_ROWS
<1> DEFINE a == line_offsets[r] + j
<1>3. a \in 0 .. 126 /\ a # 2 * LCD_COLS - 1 /\ a # 64 + 2 * LCD_COLS - 1
      /\ line_offsets[r] + (j + 1) = a + 1
  <2>1. CASE r = 0
    BY <1>1, <2>1, Offsets
  <2>2. CASE r = 1
    BY <1>1, <2>2, Offsets
  <2>3. CASE r = 2
    BY <1>1, <2>3, Offsets
  <2>4. CASE r = 3
    BY <1>1, <2>4, Offsets
  <2> QED
    BY <1>2, <2>1, <2>2, <2>3, <2>4
<1> HIDE DEF a
<1>4. (a + 1) % 128 = a + 1
  BY <1>3
<1>5. After(a) = a + 1
  BY <1>3, <1>4 DEF After
<1> QED
  BY <1>3, <1>5 DEF a

\* What the rows of a display show.
Picture(d) == [r \in LCD_ROWS |-> [c \in 1 .. LCD_COLS |-> d.cells[Cell(r, c)]]]

\* After an address and j characters of a row.
Written(d, line, row, j, e) ==
  /\ Ready(e)
  /\ j < LCD_COLS => e.at = line_offsets[line] + j
  /\ \A a \in Cells : e.cells[a] = IF a - line_offsets[line] \in 0 .. j - 1
                                   THEN row[a - line_offsets[line] + 1] ELSE d.cells[a]

LEMMA WriteNext ==
  ASSUME NEW d, NEW line \in LCD_ROWS, NEW row, NEW j \in 0 .. LCD_COLS - 1, NEW e,
         Written(d, line, row, j, e), row[j + 1] \in Byte
  PROVE  Written(d, line, row, j + 1, Executed(e, 1, row[j + 1]))
<1> DEFINE byte == row[j + 1]
           f == Executed(e, 1, byte)
           off == line_offsets[line]
<1>1. LCD_COLS \in 1 .. 20 /\ off \in 0 .. 84
  BY ColsAssumption, Offsets
<1>2. Ready(e) /\ e.at = off + j
  BY <1>1 DEF Written
<1>3. Ready(f) /\ f.at = After(e.at) /\ f.cells = [a \in Cells |-> IF a = e.at THEN byte ELSE e.cells[a]]
  BY <1>2, PutCharacter
<1>4. ASSUME j + 1 < LCD_COLS PROVE f.at = off + (j + 1)
  <2>1. j \in 0 .. LCD_COLS - 2
    BY <1>1, <1>4
  <2> QED
    BY <1>2, <1>3, <2>1, NextCell
<1>5. \A a \in Cells : a \in Int
  BY CellsAreInt
<1>6. \A a \in Cells : e.cells[a] = IF a - off \in 0 .. j - 1 THEN row[a - off + 1] ELSE d.cells[a]
  BY DEF Written
<1>7. \A a \in Cells : f.cells[a] = IF a = off + j THEN byte ELSE e.cells[a]
  BY <1>2, <1>3
<1> HIDE DEF f, off
<1>8. ASSUME NEW a \in Cells
      PROVE  f.cells[a] = IF a - off \in 0 .. (j + 1) - 1 THEN row[a - off + 1] ELSE d.cells[a]
  <2>1. CASE a = off + j
    <3>1. a - off \in 0 .. (j + 1) - 1 /\ a - off + 1 = j + 1
      BY <1>1, <2>1
    <3> QED
      BY <1>7, <2>1, <3>1
  <2>2. CASE a # off + j
    <3>1. (a - off \in 0 .. (j + 1) - 1) <=> (a - off \in 0 .. j - 1)
      BY <1>1, <1>5, <2>2
    <3> QED
      BY <1>6, <1>7, <2>2, <3>1
  <2> QED
    BY <2>1, <2>2
<1> QED
  BY <1>3, <1>4, <1>8 DEF Written, f, off

LEMMA RowWritten ==
  ASSUME NEW d, Ready(d), NEW line \in LCD_ROWS, NEW row \in [1 .. LCD_COLS -> Byte]
  PROVE  \E e : /\ Final(d, SetAddress(line) \o lcd_send_bytes(row, 1), e)
                /\ Picture(e) = [Picture(d) EXCEPT ![line] = row]
<1> DEFINE off == line_offsets[line]
           s == Command(128 + off)
           t == s \o lcd_send_bytes(row, 1)
           n == Len(t)
           D == {d}
<1>1. LCD_COLS \in 1 .. 20 /\ off \in 0 .. 84 /\ 0 \in Bit /\ 1 \in Bit
  BY ColsAssumption, Offsets DEF Bit
<1>2. 128 + off \in Byte /\ 128 + off >= 128
  BY Addresses
<1>3. row \in Seq(Byte) /\ Len(row) = LCD_COLS
  <2>1. row = [c \in 1 .. LCD_COLS |-> row[c]] /\ \A c \in 1 .. LCD_COLS : row[c] \in Byte
    OBVIOUS
  <2> QED
    BY <1>1, <2>1, IsASeq
<1>4. Makes(s, 1) /\ Sends(s, 1, 0, 128 + off)
  <2> DEFINE byte == 128 + off
             bytes == <<byte>>
             u == lcd_send_bytes(bytes, 0)
  <2>1. bytes \in Seq(Byte) /\ Len(bytes) = 1 /\ bytes[1] = byte
    BY <1>2
  <2>2. s = u
    BY DEF Command
  <2> HIDE DEF bytes, byte
  <2>3. /\ u \in Seq(Nibble) /\ Len(u) = 2 * Len(bytes)
        /\ \A j \in 1 .. Len(bytes) : /\ u[2 * j - 1] = [rs |-> 0, n |-> bytes[j] \div 16]
                                      /\ u[2 * j] = [rs |-> 0, n |-> bytes[j] % 16]
    BY <1>1, <2>1, Halves
  <2> HIDE DEF u, s
  <2>4. Makes(u, 1) /\ Sends(u, 1, 0, byte)
    BY <2>1, <2>3 DEF Makes, Sends
  <2> QED
    BY <2>2, <2>4 DEF byte
<1> HIDE DEF s
<1>5. /\ Makes(t, 1 + LCD_COLS) /\ Begins(s, t, 1)
      /\ \A j \in 1 .. LCD_COLS : Sends(t, 1 + j, 1, row[j])
  <2>1. /\ Makes(t, 1 + Len(row)) /\ Begins(s, t, 1)
        /\ \A j \in 1 .. Len(row) : Sends(t, 1 + j, 1, row[j])
    BY <1>1, <1>3, <1>4, Following
  <2> QED
    BY <1>3, <2>1
<1>6. Sends(t, 1, 0, 128 + off)
  <2>1. \A rs, byte : Sends(s, 1, rs, byte) => Sends(t, 1, rs, byte)
    BY <1>5, Kept
  <2> QED
    BY <1>4, <2>1
<1> HIDE DEF t, D
<1>7. n = 2 * (1 + LCD_COLS) /\ n \in Nat
  BY <1>1, <1>5 DEF Makes
<1>8. PICK h : IsRun(h, D, t, n) /\ Outcomes(D, t) = h[n]
  BY <1>7, OutcomesRun
<1> HIDE DEF n, off
<1> DEFINE S == {j \in Nat : j <= LCD_COLS =>
                   \E e : h[2 * (1 + j)] = {e} /\ Written(d, line, row, j, e)}
<1>9. 0 \in S
  <2> DEFINE byte == 128 + off
             e == Executed(d, 0, byte)
  <2>1. Ready(e) /\ e.at = byte - 128 /\ e.cells = d.cells
    BY <1>2, PutCommand
  <2>2. h[2 * (1 - 1)] = {d}
    BY <1>8 DEF IsRun, D
  <2>3. d \in Display /\ d.width = 4 /\ d.half = NoHalf
    BY DEF Ready
  <2>4. 1 \in Nat \ {0} /\ 2 * 1 <= n /\ 2 * (1 + 0) = 2 * 1
    BY <1>1, <1>7
  <2>5. byte \in Byte /\ Sends(t, 1, 0, byte)
    BY <1>2, <1>6
  <2> HIDE DEF e, byte
  <2>6. h[2 * 1] = {e}
    BY <1>1, <1>7, <1>8, <2>2, <2>3, <2>4, <2>5, RunByte DEF e
  <2>7. e.at = off + 0
    BY <1>1, <2>1 DEF byte
  <2>8. Written(d, line, row, 0, e)
    <3>1. \A a \in Cells : a \in Int
      BY CellsAreInt
    <3>2. \A x \in Int : x \notin 0 .. 0 - 1
      OBVIOUS
    <3>3. \A a \in Cells : a - line_offsets[line] \notin 0 .. 0 - 1
      BY <1>1, <3>1, <3>2 DEF off
    <3> QED
      BY <2>1, <2>7, <3>3 DEF Written, off
  <2> QED
    BY <2>4, <2>6, <2>8
<1>10. ASSUME NEW j \in Nat, j \in S PROVE j + 1 \in S
  <2>1. CASE j + 1 <= LCD_COLS
    <3>1. j <= LCD_COLS /\ j \in 0 .. LCD_COLS - 1 /\ j + 1 \in 1 .. LCD_COLS
      BY <1>1, <2>1
    <3>2. PICK e : h[2 * (1 + j)] = {e} /\ Written(d, line, row, j, e)
      BY <1>10, <3>1
    <3> DEFINE b == 1 + (j + 1)
               byte == row[j + 1]
               f == Executed(e, 1, byte)
    <3>3. b \in Nat \ {0} /\ 2 * b <= n /\ 2 * (b - 1) = 2 * (1 + j)
      BY <1>1, <1>7, <3>1
    <3>4. byte \in Byte /\ Sends(t, b, 1, byte)
      BY <1>5, <3>1
    <3>5. Written(d, line, row, j + 1, f)
      BY <3>1, <3>2, <3>4, WriteNext
    <3>6. e \in Display /\ e.width = 4 /\ e.half = NoHalf
      BY <3>2 DEF Written, Ready
    <3> HIDE DEF b, byte
    <3>7. h[2 * (b - 1)] = {e}
      BY <3>2, <3>3
    <3>8. h[2 * b] = {f}
      BY <1>1, <1>7, <1>8, <3>3, <3>4, <3>6, <3>7, RunByte
    <3> HIDE DEF f
    <3> QED
      BY <3>5, <3>8 DEF b
  <2>2. CASE ~(j + 1 <= LCD_COLS)
    BY <2>2
  <2> QED
    BY <2>1, <2>2
<1>11. PICK e : h[2 * (1 + LCD_COLS)] = {e} /\ Written(d, line, row, LCD_COLS, e)
  <2>1. Nat \subseteq S
    <3> HIDE DEF S
    <3> QED
      BY <1>9, <1>10, SetInduction
  <2>2. LCD_COLS \in S /\ LCD_COLS <= LCD_COLS
    BY <1>1, <2>1
  <2> QED
    BY <2>2
<1>12. Final(d, t, e)
  BY <1>7, <1>8, <1>11 DEF Final, Written, D
<1>13. Picture(e) = [Picture(d) EXCEPT ![line] = row]
  <2>1. ASSUME NEW r \in LCD_ROWS, NEW c \in 1 .. LCD_COLS
        PROVE  e.cells[Cell(r, c)] = IF r = line THEN row[c] ELSE d.cells[Cell(r, c)]
    <3> DEFINE a == Cell(r, c)
    <3>1. /\ a \in Cells /\ a \in Int
          /\ r # line => a - line_offsets[line] \notin 0 .. LCD_COLS - 1
          /\ r = line => a - line_offsets[line] = c - 1
      BY CellsOfRows
    <3> HIDE DEF a
    <3>2. e.cells[a] = IF a - line_offsets[line] \in 0 .. LCD_COLS - 1
                       THEN row[a - line_offsets[line] + 1] ELSE d.cells[a]
      BY <1>11, <3>1 DEF Written
    <3>3. c - 1 \in 0 .. LCD_COLS - 1 /\ (c - 1) + 1 = c
      BY <1>1
    <3> QED
      BY <3>1, <3>2, <3>3 DEF a
  <2>2. \A r \in LCD_ROWS : [c \in 1 .. LCD_COLS |-> e.cells[Cell(r, c)]]
                             = IF r = line THEN row ELSE [c \in 1 .. LCD_COLS |-> d.cells[Cell(r, c)]]
    BY <2>1
  <2> QED
    BY <2>2 DEF Picture
<1>14. SetAddress(line) = s
  BY DEF SetAddress, s, off
<1> QED
  BY <1>12, <1>13, <1>14 DEF t

-----------------------------------------------------------------------------
\* What each call leaves behind.
LEMMA TextDone ==
  ASSUME NEW d, Ready(d), NEW str \in Seq(1 .. 255), NEW line \in LCD_ROWS
  PROVE  \E e : /\ Final(d, lcd_write_string_no_lock(str, line), e)
                /\ Picture(e) = [Picture(d) EXCEPT ![line] = AsScreen!AtLeft(str)]
<1> DEFINE row == [c \in 1 .. LCD_COLS |-> IF c <= Len(str) THEN str[c] ELSE Space]
<1>1. lcd_write_string_no_lock(str, line) = SetAddress(line) \o lcd_send_bytes(row, 1)
  BY DEF lcd_write_string_no_lock
<1>2. LCD_COLS \in 1 .. 20 /\ Len(str) \in Nat /\ DOMAIN str = 1 .. Len(str)
  BY ColsAssumption
<1>3. row \in [1 .. LCD_COLS -> Byte]
  <2>1. \A c \in 1 .. Len(str) : str[c] \in 1 .. 255
    BY ElementOfSeq
  <2>2. \A c \in 1 .. LCD_COLS : (IF c <= Len(str) THEN str[c] ELSE Space) \in Byte
    BY <1>2, <2>1 DEF Byte, Space
  <2> QED
    BY <2>2
<1>4. row = AsScreen!AtLeft(str)
  <2>1. \A c \in 1 .. LCD_COLS : c <= Len(str) <=> c \in DOMAIN str
    BY <1>2
  <2> QED
    BY <2>1 DEF AsScreen!AtLeft, AsScreen!Space, Space
<1> HIDE DEF row
<1> QED
  BY <1>1, <1>3, <1>4, RowWritten

LEMMA CentredDone ==
  ASSUME NEW d, Ready(d), NEW str \in Seq(1 .. 255), NEW line \in LCD_ROWS
  PROVE  \E e : /\ Final(d, lcd_write_string_no_lock(centred(str), line), e)
                /\ Picture(e) = [Picture(d) EXCEPT ![line] = AsScreen!Centred(str)]
<1> DEFINE text == centred(str)
           row == [c \in 1 .. LCD_COLS |-> IF c <= Len(text) THEN text[c] ELSE Space]
<1>1. lcd_write_string_no_lock(text, line) = SetAddress(line) \o lcd_send_bytes(row, 1)
  BY DEF lcd_write_string_no_lock
<1>2. LCD_COLS \in 1 .. 20
  BY ColsAssumption
<1>3. text \in [1 .. LCD_COLS -> Byte]
  BY CentredType
<1>4. text = AsScreen!Centred(str)
  BY LinesAreCentred
<1> HIDE DEF text
<1>5. Len(text) = LCD_COLS
  BY <1>2, <1>3
<1>6. row = text
  BY <1>2, <1>3, <1>5
<1> HIDE DEF row
<1>7. \E e : /\ Final(d, SetAddress(line) \o lcd_send_bytes(text, 1), e)
            /\ Picture(e) = [Picture(d) EXCEPT ![line] = text]
  BY <1>3, RowWritten
<1>8. \E e : /\ Final(d, lcd_write_string_no_lock(text, line), e)
            /\ Picture(e) = [Picture(d) EXCEPT ![line] = AsScreen!Centred(str)]
  BY <1>1, <1>4, <1>6, <1>7
<1> QED
  BY <1>8 DEF text

LEMMA BarDone ==
  ASSUME NEW d, Ready(d), NEW value \in Int, NEW line \in LCD_ROWS
  PROVE  \E e : /\ Final(d, SetAddress(line) \o lcd_send_bytes(bar(value), 1), e)
                /\ Picture(e) = [Picture(d) EXCEPT ![line] = AsScreen!Bar(value)]
<1>1. bar(value) \in [1 .. LCD_COLS -> Byte] /\ bar(value) = AsScreen!Bar(value)
  BY BarType, BarIsExact
<1> QED
  BY <1>1, RowWritten

LEMMA ClearDone ==
  ASSUME NEW d, Ready(d)
  PROVE  \E e : /\ Final(d, Command(LCD_CLEAR), e)
                /\ Picture(e) = [r \in LCD_ROWS |-> AsScreen!Blank]
<1> DEFINE e == Executed(d, 0, LCD_CLEAR)
<1>1. LCD_CLEAR \in Byte
  BY DEF LCD_CLEAR, Byte
<1>2. e.cells = Blank
  BY <1>1, PutCommand
<1>3. Final(d, Command(LCD_CLEAR), e)
  BY <1>1, CommandIsFinal
<1> HIDE DEF e
<1>4. \A r \in LCD_ROWS, c \in 1 .. LCD_COLS : Cell(r, c) \in Cells
  BY CellsOfRows
<1>5. Picture(e) = [r \in LCD_ROWS |-> AsScreen!Blank]
  BY <1>2, <1>4 DEF Picture, Blank, AsScreen!Blank, AsScreen!Space, Space
<1> QED
  BY <1>3, <1>5

\* The rows of a message, one after another.
LEMMA MessageDone ==
  ASSUME NEW d, Ready(d), NEW lines \in Messages
  PROVE  \E e : /\ Final(d, lcd_write_centred_lines(lines), e)
                /\ Picture(e) = [r \in LCD_ROWS |-> IF r \in DOMAIN lines
                                                    THEN AsScreen!Centred(lines[r]) ELSE Picture(d)[r]]
<1> DEFINE line(r) == IF r \in DOMAIN lines THEN lcd_write_string_no_lock(centred(lines[r]), r) ELSE <<>>
           new(r) == AsScreen!Centred(lines[r])
           Given(r) == r \in DOMAIN lines
<1>1. ASSUME NEW r \in LCD_ROWS PROVE line(r) \in Seq(Nibble)
  <2>1. CASE r \in DOMAIN lines
    <3> DEFINE text == centred(lines[r])
    <3>1. lines[r] \in Seq(1 .. 255)
      BY <2>1, MessagesAssumption, TextsAssumption
    <3>2. text \in [1 .. LCD_COLS -> Byte]
      BY <3>1, CentredType
    <3> HIDE DEF text
    <3>3. Len(text) = LCD_COLS /\ LCD_COLS \in Nat
      BY <3>2, ColsAssumption
    <3>4. Len(text) \in Nat /\ \A c \in 1 .. Len(text) : text[c] \in Byte
      BY <3>2, <3>3
    <3>5. Whole(lcd_write_string_no_lock(text, r))
      BY <3>4, WholeText
    <3> QED
      BY <2>1, <3>5 DEF Whole, text
  <2>2. CASE r \notin DOMAIN lines
    BY <2>2
  <2> QED
    BY <2>1, <2>2
<1>2. ASSUME NEW x, Ready(x), NEW r \in LCD_ROWS
      PROVE  \E y : /\ Final(x, line(r), y)
                    /\ Picture(y) = IF Given(r) THEN [Picture(x) EXCEPT ![r] = new(r)] ELSE Picture(x)
  <2>1. CASE Given(r)
    <3>1. lines[r] \in Seq(1 .. 255)
      BY <2>1, MessagesAssumption, TextsAssumption
    <3>2. line(r) = lcd_write_string_no_lock(centred(lines[r]), r)
      BY <2>1
    <3> HIDE DEF line
    <3> QED
      BY <1>2, <2>1, <3>1, <3>2, CentredDone
  <2>2. CASE ~Given(r)
    <3>1. line(r) = <<>>
      BY <2>2
    <3>2. Final(x, <<>>, x)
      BY <1>2, FinalNone
    <3> HIDE DEF line, Given
    <3> QED
      BY <2>2, <3>1, <3>2
  <2> QED
    BY <2>1, <2>2
<1>3. lcd_write_centred_lines(lines) = line(0) \o line(1) \o line(2) \o line(3)
  BY DEF lcd_write_centred_lines
<1>4. 0 \in LCD_ROWS /\ 1 \in LCD_ROWS /\ 2 \in LCD_ROWS /\ 3 \in LCD_ROWS
      /\ LCD_ROWS = {0, 1, 2, 3}
  BY DEF LCD_ROWS
<1> HIDE DEF line, new, Given
<1>5. PICK d0 : /\ Final(d, line(0), d0)
               /\ Picture(d0) = IF Given(0) THEN [Picture(d) EXCEPT ![0] = new(0)] ELSE Picture(d)
  BY <1>2, <1>4
<1>6. PICK d1 : /\ Final(d0, line(1), d1)
               /\ Picture(d1) = IF Given(1) THEN [Picture(d0) EXCEPT ![1] = new(1)] ELSE Picture(d0)
  BY <1>2, <1>4, <1>5 DEF Final
<1>7. PICK d2 : /\ Final(d1, line(2), d2)
               /\ Picture(d2) = IF Given(2) THEN [Picture(d1) EXCEPT ![2] = new(2)] ELSE Picture(d1)
  BY <1>2, <1>4, <1>6 DEF Final
<1>8. PICK d3 : /\ Final(d2, line(3), d3)
               /\ Picture(d3) = IF Given(3) THEN [Picture(d2) EXCEPT ![3] = new(3)] ELSE Picture(d2)
  BY <1>2, <1>4, <1>7 DEF Final
<1>9. Final(d, line(0) \o line(1) \o line(2) \o line(3), d3)
  <2>1. line(0) \in Seq(Nibble) /\ line(1) \in Seq(Nibble) /\ line(2) \in Seq(Nibble) /\ line(3) \in Seq(Nibble)
    BY <1>1, <1>4
  <2>2. Final(d, line(0) \o line(1), d1)
    BY <1>5, <1>6, <2>1, FinalJoined
  <2>3. line(0) \o line(1) \in Seq(Nibble)
    BY <2>1
  <2> DEFINE s == line(0) \o line(1)
  <2> HIDE DEF s
  <2>4. Final(d, s \o line(2), d2)
    BY <1>7, <2>1, <2>2, <2>3, FinalJoined DEF s
  <2>5. s \o line(2) \in Seq(Nibble)
    BY <2>1, <2>3 DEF s
  <2> DEFINE u == s \o line(2)
  <2> HIDE DEF u
  <2>6. Final(d, u \o line(3), d3)
    BY <1>8, <2>1, <2>4, <2>5, FinalJoined DEF u
  <2> QED
    BY <2>6 DEF u, s
<1>10. \A x : Picture(x) = [r \in LCD_ROWS |-> Picture(x)[r]]
  BY DEF Picture
<1>11. ASSUME NEW r \in LCD_ROWS
       PROVE  Picture(d3)[r] = IF Given(r) THEN new(r) ELSE Picture(d)[r]
  <2> DEFINE p == Picture(d)
             p0 == Picture(d0)
             p1 == Picture(d1)
             p2 == Picture(d2)
             p3 == Picture(d3)
  <2>1. DOMAIN p = LCD_ROWS /\ DOMAIN p0 = LCD_ROWS /\ DOMAIN p1 = LCD_ROWS /\ DOMAIN p2 = LCD_ROWS
    BY DEF Picture
  <2>2. p0 = IF Given(0) THEN [p EXCEPT ![0] = new(0)] ELSE p
    BY <1>5
  <2>3. p1 = IF Given(1) THEN [p0 EXCEPT ![1] = new(1)] ELSE p0
    BY <1>6
  <2>4. p2 = IF Given(2) THEN [p1 EXCEPT ![2] = new(2)] ELSE p1
    BY <1>7
  <2>5. p3 = IF Given(3) THEN [p2 EXCEPT ![3] = new(3)] ELSE p2
    BY <1>8
  <2> HIDE DEF p, p0, p1, p2, p3
  <2>6. p0[r] = IF r = 0 /\ Given(0) THEN new(0) ELSE p[r]
    BY <2>1, <2>2
  <2>7. p1[r] = IF r = 1 /\ Given(1) THEN new(1) ELSE p0[r]
    BY <2>1, <2>3
  <2>8. p2[r] = IF r = 2 /\ Given(2) THEN new(2) ELSE p1[r]
    BY <2>1, <2>4
  <2>9. p3[r] = IF r = 3 /\ Given(3) THEN new(3) ELSE p2[r]
    BY <2>1, <2>5
  <2>10. p3[r] = IF Given(r) THEN new(r) ELSE p[r]
    BY <1>4, <2>6, <2>7, <2>8, <2>9
  <2> QED
    BY <2>10 DEF p, p3
<1>12. Picture(d3) = [r \in LCD_ROWS |-> IF Given(r) THEN new(r) ELSE Picture(d)[r]]
  BY <1>10, <1>11
<1> QED
  BY <1>3, <1>9, <1>12 DEF Given, new

-----------------------------------------------------------------------------
\* What the rows show when the thread that holds the lock has sent the rest.
LEMMA ShownUp ==
  ASSUME NEW e, server = "up", Outcomes({display}, Rest) = {e}
  PROVE  Shown = Picture(e)
<1>1. (CHOOSE d \in Outcomes({display}, Rest) : TRUE) = e
  OBVIOUS
<1> QED
  BY <1>1 DEF Shown, Picture, Cell

LEMMA ShownUpNext ==
  ASSUME NEW e, server' = "up", Outcomes({display'}, Rest') = {e}
  PROVE  Shown' = Picture(e)
<1>1. (CHOOSE d \in Outcomes({display'}, Rest') : TRUE) = e
  OBVIOUS
<1> QED
  BY <1>1 DEF Shown, Picture, Cell

LEMMA ShownDown ==
  /\ server # "up" => Shown = [r \in LCD_ROWS |-> AsScreen!Blank]
  /\ server' # "up" => Shown' = [r \in LCD_ROWS |-> AsScreen!Blank]
<1>1. server # "up" => Shown = [r \in LCD_ROWS |-> AsScreen!Blank]
  BY DEF Shown, AsScreen!Blank, AsScreen!Space, Space
<1>2. server' # "up" => Shown' = [r \in LCD_ROWS |-> AsScreen!Blank]
  BY DEF Shown, AsScreen!Blank, AsScreen!Space, Space
<1> QED
  BY <1>1, <1>2

LEMMA ShownFree ==
  ASSUME TypeInv, LcdInv, server = "up", lcd_mutex = Nobody
  PROVE  Ready(display) /\ Rest = <<>> /\ Shown = Picture(display)
<1>1. Ready(display)
  BY DEF TypeInv, LcdInv, UpInv, Ready
<1>2. Rest = <<>>
  BY DEF Rest
<1> DEFINE D == {display}
<1> HIDE DEF D
<1>3. Outcomes(D, <<>>) = D
  BY OutcomesNone
<1>4. Outcomes({display}, Rest) = {display}
  BY <1>2, <1>3 DEF D
<1>5. Shown = Picture(display)
  BY <1>4, ShownUp
<1> QED
  BY <1>1, <1>2, <1>5

\* A call promises what the rows show from then on.
LEMMA ShownCall ==
  ASSUME TypeInv, LcdInv, SenderInv, NEW t \in Threads, NEW nibbles, Locked(t, nibbles),
         NEW e, Final(display, nibbles, e)
  PROVE  Shown = Picture(display) /\ Shown' = Picture(e)
<1>1. /\ server = "up" /\ lcd_mutex = Nobody /\ lcd_mutex' = t
      /\ sending' = [sending EXCEPT ![t] = nibbles] /\ server' = server /\ display' = display
  BY DEF Locked
<1>2. sending'[t] = nibbles
  BY <1>1 DEF TypeInv
<1>3. Rest' = nibbles
  BY <1>1, <1>2, ThreadsAssumption DEF Rest
<1>4. Outcomes({display'}, Rest') = {e}
  BY <1>1, <1>3 DEF Final
<1>5. Shown' = Picture(e)
  BY <1>1, <1>4, ShownUpNext
<1> QED
  BY <1>1, <1>5, ShownFree

\* And keeps the promise with every nibble.
LEMMA ShownSend ==
  ASSUME TypeInv, LcdInv, SenderInv, NEW t \in Threads, Send(t), server = "up"
  PROVE  Shown' = Shown
<1> DEFINE s == sending[t]
           x == Head(s)
<1>1. /\ s \in Seq(Nibble) /\ s # <<>> /\ x = s[1] /\ x \in Nibble
      /\ sending'[t] = Tail(s) /\ display' \in Latched(display, x)
      /\ lcd_mutex' = lcd_mutex /\ server' = server
  <2>1. s \in Seq(Nibble) /\ s # <<>>
    BY DEF TypeInv, Send
  <2> QED
    BY <2>1, SendType
<1>2. t = lcd_mutex /\ lcd_mutex # Nobody
  BY <1>1, OthersAreSilent, ThreadsAssumption
<1>3. display \in Display /\ display.width = 4 /\ InStep(display, s)
  BY <1>2 DEF TypeInv, LcdInv, UpInv
<1>4. Rest = s /\ Rest' = Tail(s)
  BY <1>1, <1>2 DEF Rest
<1> HIDE DEF s, x
<1>5. \E d : Latched(display, x) = {d}
  <2>1. CASE display.half = NoHalf
    BY <1>3, <2>1 DEF Latched
  <2>2. CASE display.half # NoHalf
    <3>1. Harmless(display.half, x)
      BY <1>1, <1>3, <2>2 DEF InStep
    <3> DEFINE c == [display EXCEPT !.half = NoHalf]
               byte == 16 * display.half.n + x.n
               rs == x.rs
    <3>2. display.half.rs = rs
      BY <3>1 DEF Harmless
    <3>3. Latched(display, x) = {Executed(c, r, byte) : r \in {display.half.rs, x.rs}}
      BY <1>3, <2>2 DEF Latched
    <3> HIDE DEF c, byte
    <3>4. Latched(display, x) = {Executed(c, r, byte) : r \in {rs}}
      BY <3>2, <3>3
    <3>5. Latched(display, x) = {Executed(c, rs, byte)}
      BY <3>4
    <3> QED
      BY <3>5
  <2> QED
    BY <2>1, <2>2
<1>6. Latched(display, x) = {display'}
  BY <1>1, <1>5
<1> DEFINE D == {display}
           E == {display'}
<1>7. Step(D, x) = E
  <2>1. Step(D, x) = Latched(display, x)
    BY DEF Step
  <2> QED
    BY <1>6, <2>1
<1> HIDE DEF D, E
<1>8. Outcomes(D, s) = Outcomes(Step(D, x), Tail(s))
  BY <1>1, OutcomesFirst DEF x
<1>9. Outcomes({display}, Rest) = Outcomes({display'}, Rest')
  BY <1>4, <1>7, <1>8 DEF D, E
<1> DEFINE F(O, up) == LET last == CHOOSE d \in O : TRUE
                       IN  [r \in LCD_ROWS |-> [c \in 1 .. LCD_COLS |->
                              IF up = "up" THEN last.cells[line_offsets[r] + c - 1] ELSE Space]]
<1>10. Shown = F(Outcomes({display}, Rest), server) /\ Shown' = F(Outcomes({display'}, Rest'), server')
  BY DEF Shown
<1> HIDE DEF F
<1> QED
  BY <1>1, <1>9, <1>10

\* When lcd_init is through nothing is shown.
LEMMA ShownInitialised ==
  ASSUME TypeInv, LcdInv, SenderInv, Initialised
  PROVE  Shown' = Shown
<1>1. /\ server = "init" /\ server' = "up" /\ sending[Main] = <<>>
      /\ lcd_mutex' = lcd_mutex /\ display' = display
  BY DEF Initialised
<1>2. Sent = 96
  BY <1>1 DEF Sent, InitLen
<1>3. display.cells = Blank
  <2>1. 96 \div 2 = 48 /\ 96 >= 4 /\ 48 >= 47
    OBVIOUS
  <2>2. Loading(48, display)
    BY <1>1, <1>2, <2>1 DEF LcdInv, InitInv, Prepared
  <2> QED
    BY <2>1, <2>2 DEF Loading
<1>4. TypeInv' /\ LcdInv'
  BY InvInitialised
<1>5. Rest' = <<>>
  BY <1>1 DEF Rest, SenderInv
<1> DEFINE D == {display}
<1> HIDE DEF D
<1>6. Outcomes(D, <<>>) = D
  BY OutcomesNone
<1>7. Outcomes({display'}, Rest') = {display}
  BY <1>1, <1>5, <1>6 DEF D
<1>8. Shown' = Picture(display)
  BY <1>1, <1>7, ShownUpNext
<1>9. \A r \in LCD_ROWS, c \in 1 .. LCD_COLS : Cell(r, c) \in Cells
  BY CellsOfRows
<1>10. Picture(display) = [r \in LCD_ROWS |-> AsScreen!Blank]
  BY <1>3, <1>9 DEF Picture, Blank, AsScreen!Blank, AsScreen!Space, Space
<1> QED
  BY <1>1, <1>8, <1>10, ShownDown

\* What each call sends makes the step of the screen that it stands for.
LEMMA ScreenCall ==
  ASSUME TypeInv, LcdInv, SenderInv, NEW t \in Threads,
         \/ lcd_write_string(t) \/ lcd_display_bargraph(t) \/ lcd_display_message(t)
         \/ lcd_display_message_no_flash(t) \/ lcd_clear(t)
  PROVE  AsScreen!Next
<1>1. server = "up" /\ lcd_mutex = Nobody
  BY DEF lcd_write_string, lcd_display_bargraph, lcd_display_message,
         lcd_display_message_no_flash, lcd_clear, Locked
<1>2. Ready(display) /\ Shown = Picture(display)
  BY <1>1, ShownFree
<1>3. \A row \in Rows : row \in LCD_ROWS
  BY RowsAssumption DEF LCD_ROWS
<1>4. LCD_ROWS = AsScreen!LCD_ROWS
  BY DEF LCD_ROWS, AsScreen!LCD_ROWS
<1>5. CASE lcd_write_string(t)
  <2>1. PICK line \in Rows, str \in Texts : Locked(t, lcd_write_string_no_lock(str, line))
    BY <1>5 DEF lcd_write_string
  <2>2. PICK e : /\ Final(display, lcd_write_string_no_lock(str, line), e)
                /\ Picture(e) = [Picture(display) EXCEPT ![line] = AsScreen!AtLeft(str)]
    BY <1>2, <1>3, TextsAssumption, TextDone
  <2>3. Shown' = Picture(e)
    BY <2>1, <2>2, ShownCall
  <2>4. Shown' = [Shown EXCEPT ![line] = AsScreen!AtLeft(str)]
    BY <1>2, <2>2, <2>3
  <2> QED
    BY <2>4 DEF AsScreen!Next, AsScreen!Text
<1>6. CASE lcd_display_bargraph(t)
  <2>1. PICK row \in Rows, value \in Values : Locked(t, SetAddress(row) \o lcd_send_bytes(bar(value), 1))
    BY <1>6 DEF lcd_display_bargraph
  <2>2. PICK e : /\ Final(display, SetAddress(row) \o lcd_send_bytes(bar(value), 1), e)
                /\ Picture(e) = [Picture(display) EXCEPT ![row] = AsScreen!Bar(value)]
    BY <1>2, <1>3, ValuesAssumption, BarDone
  <2>3. Shown' = Picture(e)
    BY <2>1, <2>2, ShownCall
  <2>4. Shown' = [Shown EXCEPT ![row] = AsScreen!Bar(value)]
    BY <1>2, <2>2, <2>3
  <2> QED
    BY <2>4 DEF AsScreen!Next, AsScreen!Gauge
<1>7. CASE lcd_display_message(t)
  <2>1. PICK lines \in Messages : Locked(t, Command(LCD_CLEAR) \o lcd_write_centred_lines(lines))
    BY <1>7 DEF lcd_display_message
  <2>2. PICK d : /\ Final(display, Command(LCD_CLEAR), d)
                /\ Picture(d) = [r \in LCD_ROWS |-> AsScreen!Blank]
    BY <1>2, ClearDone
  <2>3. PICK e : /\ Final(d, lcd_write_centred_lines(lines), e)
                /\ Picture(e) = [r \in LCD_ROWS |-> IF r \in DOMAIN lines
                                                   THEN AsScreen!Centred(lines[r]) ELSE Picture(d)[r]]
    <3>1. Ready(d)
      BY <2>2 DEF Final
    <3> QED
      BY <3>1, MessageDone
  <2>4. Command(LCD_CLEAR) \in Seq(Nibble) /\ lcd_write_centred_lines(lines) \in Seq(Nibble)
    <3>1. LCD_CLEAR \in Byte
      BY DEF LCD_CLEAR, Byte
    <3> QED
      BY <3>1, WholeCommand, WholeMessage DEF Whole
  <2>5. Final(display, Command(LCD_CLEAR) \o lcd_write_centred_lines(lines), e)
    BY <2>2, <2>3, <2>4, FinalJoined
  <2>6. Shown' = Picture(e)
    BY <2>1, <2>5, ShownCall
  <2>7. Shown' = [r \in AsScreen!LCD_ROWS |->
                    IF r \in DOMAIN lines THEN AsScreen!Centred(lines[r]) ELSE AsScreen!Blank]
    BY <1>4, <2>2, <2>3, <2>6
  <2> QED
    BY <2>7 DEF AsScreen!Next, AsScreen!Message
<1>8. CASE lcd_display_message_no_flash(t)
  <2>1. PICK lines \in Messages : Locked(t, lcd_write_centred_lines(lines))
    BY <1>8 DEF lcd_display_message_no_flash
  <2>2. PICK e : /\ Final(display, lcd_write_centred_lines(lines), e)
                /\ Picture(e) = [r \in LCD_ROWS |-> IF r \in DOMAIN lines
                                                   THEN AsScreen!Centred(lines[r]) ELSE Picture(display)[r]]
    BY <1>2, MessageDone
  <2>3. Shown' = Picture(e)
    BY <2>1, <2>2, ShownCall
  <2>4. Shown' = [r \in AsScreen!LCD_ROWS |->
                    IF r \in DOMAIN lines THEN AsScreen!Centred(lines[r]) ELSE Shown[r]]
    BY <1>2, <1>4, <2>2, <2>3
  <2> QED
    BY <2>4 DEF AsScreen!Next, AsScreen!Update
<1>9. CASE lcd_clear(t)
  <2>1. Locked(t, Command(LCD_CLEAR))
    BY <1>9 DEF lcd_clear
  <2>2. PICK e : /\ Final(display, Command(LCD_CLEAR), e)
                /\ Picture(e) = [r \in LCD_ROWS |-> AsScreen!Blank]
    BY <1>2, ClearDone
  <2>3. Shown' = Picture(e)
    BY <2>1, <2>2, ShownCall
  <2> QED
    BY <1>4, <2>2, <2>3 DEF AsScreen!Next, AsScreen!Clear
<1> QED
  BY <1>5, <1>6, <1>7, <1>8, <1>9

LEMMA ScreenStep ==
  TypeInv /\ LcdInv /\ SenderInv /\ [Next]_vars => [AsScreen!Next]_Shown
<1> SUFFICES ASSUME TypeInv, LcdInv, SenderInv, [Next]_vars
             PROVE  AsScreen!Next \/ Shown' = Shown
  OBVIOUS
<1>1. CASE StartServer
  BY <1>1, ShownDown DEF StartServer
<1>2. CASE Initialised
  BY <1>2, ShownInitialised
<1>3. CASE EndServer
  <2>1. Shown' = [r \in AsScreen!LCD_ROWS |-> AsScreen!Blank]
    BY <1>3, ShownDown DEF EndServer, LCD_ROWS, AsScreen!LCD_ROWS
  <2> QED
    BY <2>1 DEF AsScreen!Next, AsScreen!Clear
<1>4. ASSUME NEW t \in Threads,
             \/ lcd_write_string(t) \/ lcd_display_bargraph(t) \/ lcd_display_message(t)
             \/ lcd_display_message_no_flash(t) \/ lcd_clear(t)
      PROVE  AsScreen!Next
  BY <1>4, ScreenCall
<1>5. ASSUME NEW t \in Threads, Send(t)
      PROVE  Shown' = Shown
  <2>1. CASE server = "up"
    BY <1>5, <2>1, ShownSend
  <2>2. CASE server # "up"
    BY <1>5, <2>2, ShownDown DEF Send
  <2> QED
    BY <2>1, <2>2
<1>6. ASSUME NEW t \in Threads, Unlock(t)
      PROVE  Shown' = Shown
  <2>1. /\ lcd_mutex = t /\ sending[t] = <<>> /\ lcd_mutex' = Nobody
        /\ server' = server /\ display' = display
    BY <1>6 DEF Unlock
  <2>2. Rest = <<>> /\ Rest' = <<>>
    BY <2>1, ThreadsAssumption DEF Rest
  <2> QED
    BY <2>1, <2>2 DEF Shown
<1>7. CASE UNCHANGED vars
  <2>1. Rest' = Rest /\ server' = server /\ display' = display
    BY <1>7 DEF vars, Rest
  <2> QED
    BY <2>1 DEF Shown
<1> QED
  BY <1>1, <1>2, <1>3, <1>4, <1>5, <1>6, <1>7 DEF Next

\* "The lock is held for the entire operation": whatever the threads write, wherever
\* the server is cut off and however often, what the display shows when the call in
\* progress is through is the screen that lcd.c promises, changed by a whole call at a
\* time.
THEOREM ScreenIsWhole == Spec => ScreenIsKept
<1>1. Init => TypeInv /\ LcdInv /\ SenderInv
  BY InvInit, SenderInit
<1>2. TypeInv /\ LcdInv /\ SenderInv /\ [Next]_vars => (TypeInv /\ LcdInv /\ SenderInv)'
  BY InvStep, SenderStep
<1>3. Init => AsScreen!Init
  BY ShownDown DEF Init, AsScreen!Init, LCD_ROWS, AsScreen!LCD_ROWS
<1>4. ScreenIsKept <=> AsScreen!Init /\ [][AsScreen!Next]_Shown
  BY DEF ScreenIsKept, AsScreen!Spec
<1> QED
  BY <1>1, <1>2, <1>3, <1>4, ScreenStep, PTL DEF Spec
=============================================================================
