\* Two processes, a ring buffer of two characters, a screen of one written row.
CONSTANTS
  Procs = {p1, p2}
  INPUT_BUF = 2
  UintMod = 4
  COLS = 2
  ROWS = 2
  MaxRead = 2
  Keys = {"lshift", "rctl", "lctl"}
  None = none
SPECIFICATION Spec
INVARIANTS NoReaderForgotten DevicesExact
PROPERTIES ImplementsLineInput EndOfFileSeen
SYMMETRY Symmetric
