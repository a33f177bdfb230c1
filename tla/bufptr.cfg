\* The cursor, driven by callers that look() after every string.
SPECIFICATION Spec
CONSTANTS
  Size = 9
  MaxHdr = 3
  MaxLen = 4
  RawAfterBlob = FALSE
INVARIANTS TypeOK Accounted OffsetTracks
PROPERTIES StaysLive FlatSpec
\* a decoder stops at the first error
CHECK_DEADLOCK FALSE
