\* A directory may sit where the file is looked for.
CONSTANTS
  Filenames <- MC_Filenames
  Kinds = {"file", "dir", "absent"}
  None = None

SPECIFICATION Spec
INVARIANT LoadsFirstExistingFile
CHECK_DEADLOCK FALSE
