CONSTANTS
  Threads = {server, gpio}
  Main = server
  Nobody = nobody
  LCD_COLS = 2
  Rows = {0, 2}
  Texts <- SmallTexts
  Values <- SmallValues
  Messages <- SmallMessages
  MAX_RESTARTS = 1

SPECIFICATION Spec

INVARIANTS
  TypeOK
  GlyphsLoaded

PROPERTY
  ScreenIsKept
