SPECIFICATION Spec
CONSTANTS BufSize = 12  TMP_SIZE = 3  NAME_SIZE = 2
CONSTANT Inputs <- MCInputs
INVARIANTS TypeOK NoneWrong  MetaInPlace OwnMeta Numbered RestoredInWindow LiveBlocks CrcGuards WindowTracks JsonDocument
PROPERTIES Terminates Progress CutFromInput
