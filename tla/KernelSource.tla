---------------------------- MODULE KernelSource ----------------------------
(***************************************************************************)
(* readKernelSource (src/opencl_utils.cpp): the kernel source file is     *)
(* looked up along a fixed list of relative paths, and the contents of the *)
(* first path an std::ifstream opens are returned; if none opens, it       *)
(* throws.  A path is a sequence of segments.  What sits at a path is one  *)
(* of: a regular file, a directory, a file the process may not read, or    *)
(* nothing.  std::ifstream opens a directory on Linux (open(2) with        *)
(* O_RDONLY succeeds), and reading it yields no characters.                *)
(***************************************************************************)
EXTENDS Naturals, Sequences, SequencesExt

CONSTANTS
  Filenames,   \* the names callers pass, e.g. <<"kernels", "matrix_ops.cl">>
  Kinds,       \* what may sit at a path: "file", "dir", "unreadable", "absent"
  None         \* no value

VARIABLES
  file,   \* the filename argument
  fs,     \* what sits at each path the search may try
  idx,    \* index of the next path of searchPaths to try
  ret,    \* the returned string: the source of a file, or Empty
  pc      \* "search", "done" or "threw"

vars == <<file, fs, idx, ret, pc>>

\* The contents of a readable file are that file's source; a directory
\* streams no characters.
Empty == <<>>
Contents(p) == IF fs[p] = "file" THEN p ELSE Empty

\* filename.substr(filename.find_last_of('/') + 1): the last segment; for a
\* name with no '/', npos + 1 wraps to 0 and the whole name is kept.
Basename(f) == <<f[Len(f)]>>

\* Mutant: the "../../" entry of the list is missing.
SearchPathsNoGrandparent(f) ==
  << f, <<"..">> \o f, <<"kernels">> \o Basename(f), <<"..", "kernels">> \o Basename(f) >>

\* The searchPaths vector, in order.
SearchPaths(f) ==
  << f, <<"..">> \o f, <<"..", "..">> \o f,
     <<"kernels">> \o Basename(f), <<"..", "kernels">> \o Basename(f) >>

\* std::ifstream file(path); file.is_open()
Opens(p) == fs[p] \in {"file", "dir"}

\* The places, relative to the working directory, where a copy of the file
\* may lie: under its own name here, one or two levels up, or by its base
\* name in a kernels directory here or one level up.
Locations(f) ==
       {pre \o f : pre \in {<<>>, <<"..">>, <<"..", "..">>}}
  \cup {pre \o Basename(f) : pre \in {<<"kernels">>, <<"..", "kernels">>}}

Init ==
  /\ file \in Filenames
  /\ fs \in [Locations(file) -> Kinds]
  /\ idx = 1
  /\ ret = None
  /\ pc = "search"

\* One iteration of the for loop: return the stream's contents if the path
\* opens, else go on to the next path.
TryPath ==
  LET p == SearchPaths(file)[idx] IN
  /\ pc = "search"
  /\ idx <= Len(SearchPaths(file))
  /\ \/ Opens(p) /\ ret' = Contents(p) /\ pc' = "done" /\ UNCHANGED idx
     \/ ~Opens(p) /\ idx' = idx + 1 /\ UNCHANGED <<ret, pc>>
  /\ UNCHANGED <<file, fs>>

\* throw std::runtime_error("Could not open kernel file: ..."): the message
\* is not modelled.
Throw ==
  /\ pc = "search"
  /\ idx > Len(SearchPaths(file))
  /\ pc' = "threw"
  /\ UNCHANGED <<file, fs, idx, ret>>

Next == TryPath \/ Throw

Spec == Init /\ [][Next]_vars /\ WF_vars(Next)

-----------------------------------------------------------------------------
\* The lookup order of spec section 4.2: the literal path, one and two
\* parent levels up, and kernels/ relative to the current and the parent
\* directory.
SpecPaths(f) ==
  << f, <<"..">> \o f, <<"..", "..">> \o f,
     <<"kernels">> \o Basename(f), <<"..", "kernels">> \o Basename(f) >>

\* The first path of SpecPaths(file) at which a readable file exists.
FirstFile ==
  LET files == SelectSeq(SpecPaths(file), LAMBDA p : fs[p] = "file") IN
  IF files = <<>> THEN None ELSE Head(files)

(* readKernelSource returns the source of the first readable file along   *)
(* the lookup order, skipping paths that are missing or unreadable, and    *)
(* throws only when no path of the order holds one (spec sections 4.2 and  *)
(* 8: a file present only two directories up is found).                    *)
LoadsFirstExistingFile ==
  /\ pc = "done" => FirstFile # None /\ ret = Contents(FirstFile)
  /\ pc = "threw" => FirstFile = None
=============================================================================
