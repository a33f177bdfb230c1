SPECIFICATION Spec
CONSTANTS BufSize = 12  TMP_SIZE = 3  NAME_SIZE = 2
CONSTANT Inputs <- MCStreamCounts
INVARIANTS StreamCounts
