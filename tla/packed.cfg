\* Lists of every pair and triple of elements, whole or with one byte damaged.
SPECIFICATION Spec
CONSTANTS
  Elements <- MCElements
  Damages <- MCDamages
  MaxElements = 3
  MaxDamaged = 160
  Payload = 245
INVARIANTS TypeOK ReadsBack AllRead RoomAgrees LinksBack Inside
PROPERTY Advances
\* the walk stops at the end of the list
CHECK_DEADLOCK FALSE
