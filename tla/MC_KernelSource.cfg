\* Every path holds a readable file, an unreadable one, or nothing.
CONSTANTS
  Filenames <- MC_Filenames
  Kinds = {"file", "unreadable", "absent"}
  None = None

SPECIFICATION Spec
INVARIANT LoadsFirstExistingFile
CHECK_DEADLOCK FALSE
