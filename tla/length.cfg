\* Every pair of headers, kept whole, cut at every byte, damaged at every byte.
SPECIFICATION Spec
CONSTANTS
  Words <- MCWords
  Ints <- MCInts
  MaxItems = 2
INVARIANTS TypeOK ReadsBack AllRead CutIsShort RoomAgrees
PROPERTY Advances
\* the reader stops at the end of the stream or at an error
CHECK_DEADLOCK FALSE
