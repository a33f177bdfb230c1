\* Integers of 13 bits, as Redis writes them.
SPECIFICATION Spec
CONSTANTS
  Elements <- MCSigned13
  Damages = {}
  MaxElements = 1
  MaxDamaged = 0
  Payload = 245
INVARIANT ReadsBack
CHECK_DEADLOCK FALSE
