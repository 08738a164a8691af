------------------------------ MODULE FilePath ------------------------------
(***************************************************************************)
(* Paths and the report file (gtest-filepath.cc and GetAbsolutePathToOutput-*)
(* File of gtest.cc) where the separator is a slash.  A path is a sequence  *)
(* of characters.  A file system is a record of the directories and of the  *)
(* other files in it, each named by its components below the root.          *)
(***************************************************************************)
LOCAL INSTANCE Naturals
LOCAL INSTANCE Sequences
LOCAL INSTANCE SequencesExt
LOCAL INSTANCE Filter

Separator == "/"
CurrentDirectory == <<".", Separator>>
original_working_dir == <<Separator, "w">>

(***************************************************************************)
(* The operating system: what a path names.                                 *)
(***************************************************************************)
IsAbsolutePath(p) == p # <<>> /\ Head(p) = Separator

Resolve(p) ==
  SelectSeq(SplitString(IF IsAbsolutePath(p) THEN p
                        ELSE original_working_dir \o <<Separator>> \o p, Separator),
            LAMBDA name : name # <<>> /\ name # <<".">>)

FileOrDirectoryExists(fs, p) == p # <<>> /\ Resolve(p) \in fs.dirs \cup fs.files
DirectoryExists(fs, p) == p # <<>> /\ Resolve(p) \in fs.dirs

(***************************************************************************)
(* FilePath.  Its constructor normalizes.                                   *)
(***************************************************************************)
\* Fault: a separator goes out only behind a name.
DropRoot(p) ==
  FoldLeft(LAMBDA out, c : IF c = Separator /\ (out = <<>> \/ Last(out) = Separator) THEN out
                           ELSE Append(out, c), <<>>, p)
Normalize(p) ==
  FoldLeft(LAMBDA out, c : IF c = Separator /\ out # <<>> /\ Last(out) = Separator THEN out
                           ELSE Append(out, c), <<>>, p)

IsDirectory(p) == p # <<>> /\ Last(p) = Separator
RemoveTrailingPathSeparator(p) == IF IsDirectory(p) THEN Front(p) ELSE p

LastSeparator(p) == SelectLastInSeq(p, LAMBDA c : c = Separator)
RemoveDirectoryName(p) == SubSeq(p, LastSeparator(p) + 1, Len(p))
RemoveFileName(p) ==
  IF LastSeparator(p) = 0 THEN CurrentDirectory ELSE SubSeq(p, 1, LastSeparator(p))

ConcatPaths(directory, relative_path) ==
  IF directory = <<>> THEN relative_path
  ELSE Normalize(RemoveTrailingPathSeparator(directory) \o <<Separator>> \o relative_path)

MakeFileName(directory, base_name, number, extension) ==
  ConcatPaths(directory,
    base_name \o (IF number = 0 THEN <<>> ELSE <<"_", ToString(number)>>) \o <<".">> \o extension)

RECURSIVE GenerateFrom(_, _, _, _, _)
GenerateFrom(fs, directory, base_name, extension, number) ==
  LET full == MakeFileName(directory, base_name, number, extension)
  IN  IF FileOrDirectoryExists(fs, full)
      THEN GenerateFrom(fs, directory, base_name, extension, number + 1) ELSE full
GenerateUniqueFileName(fs, directory, base_name, extension) ==
  GenerateFrom(fs, directory, base_name, extension, 0)

\* mkdir, and CreateFolder, for which a directory that is there is no error.
CreateFolder(fs, p) ==
  LET name == Resolve(p)
  IN  IF name \notin fs.dirs \cup fs.files /\ Front(name) \in fs.dirs
      THEN [ok |-> TRUE, fs |-> [fs EXCEPT !.dirs = @ \cup {name}]]
      ELSE [ok |-> DirectoryExists(fs, p), fs |-> fs]

RECURSIVE CreateDirectoriesRecursively(_, _)
CreateDirectoriesRecursively(fs, p) ==
  IF ~IsDirectory(p) THEN [ok |-> FALSE, fs |-> fs]
  ELSE IF DirectoryExists(fs, p) THEN [ok |-> TRUE, fs |-> fs]
  ELSE LET parent == CreateDirectoriesRecursively(fs, RemoveFileName(RemoveTrailingPathSeparator(p)))
       IN  IF parent.ok THEN CreateFolder(parent.fs, p) ELSE parent

(***************************************************************************)
(* The report that --gtest_output=<format>:<p> asks for: its name, and the  *)
(* directory made for it when it is opened (OpenFileForWriting).            *)
(***************************************************************************)
GetAbsolutePathToOutputFile(fs, p, executable, format) ==
  LET output_name == IF IsAbsolutePath(Normalize(p)) THEN Normalize(p)
                     ELSE ConcatPaths(original_working_dir, Normalize(p))
  IN  IF IsDirectory(output_name)
      THEN GenerateUniqueFileName(fs, output_name, RemoveDirectoryName(executable), format)
      ELSE output_name

OpenFileForWriting(fs, output_file) ==
  LET made == CreateDirectoriesRecursively(fs, RemoveFileName(output_file))
      name == Resolve(output_file)
      opened == made.ok /\ name \notin made.fs.dirs /\ Front(name) \in made.fs.dirs
  IN  [ok |-> opened, name |-> name,
       fs |-> IF opened THEN [made.fs EXCEPT !.files = @ \cup {name}] ELSE made.fs]

WriteReport(fs, p, executable, format) ==
  OpenFileForWriting(fs, GetAbsolutePathToOutputFile(fs, p, executable, format))
=============================================================================
