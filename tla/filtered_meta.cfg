SPECIFICATION Spec
CONSTANTS BufSize = 8  TMP_SIZE = 3  NAME_SIZE = 2
CONSTANT Inputs <- MCFilteredMeta
INVARIANTS OwnMeta
