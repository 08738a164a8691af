-------------------------------- MODULE Flags --------------------------------
(***************************************************************************)
(* InitGoogleTest: the flags of the command line (gtest.cc, gtest-port.cc). *)
(* An argument is <<prefix, name, value>>, as in "--gtest_", "shuffle" and  *)
(* "0", where the value may be Absent, together with its equals sign.  Any  *)
(* other argument has an empty prefix, as have the environment variables    *)
(* that are not named after a flag.  Some flags of each type stand for all. *)
(***************************************************************************)
LOCAL INSTANCE Integers
LOCAL INSTANCE Sequences
LOCAL INSTANCE SequencesExt

CONSTANT FlagFiles   \* what is in the files that a flag may name: their lines

Absent == "absent"
Null == "null"

BoolFlags == {"shuffle"}
IntFlags == {"repeat"}
StringFlags == {"filter", "output", "internal_run_death_test"}

(***************************************************************************)
(* The value of a flag in a string.                                         *)
(***************************************************************************)
ParseFlagValue(arg, flag, def_optional) ==
  IF arg[1] # "--gtest_" \/ arg[2] # flag THEN Null
  ELSE IF arg[3] # Absent THEN arg[3]
  ELSE IF def_optional THEN "" ELSE Null

\* strtol takes the empty string for zero.  None, or one number.
ParseInt32(str) ==
  CASE str \in {"", "0"} -> {0} [] str = "1" -> {1} [] OTHER -> {}

\* What ParseGoogleTestFlag sets: <<flag, value>>, or Null.
Setting(arg) ==
  LET flag == arg[2]
      text == ParseFlagValue(arg, flag, flag \in BoolFlags)
  IN  CASE text = Null -> <<Null>>
        [] text # Null /\ flag \in BoolFlags -> <<flag, text \notin {"0", "f", "F"}>>
        [] text # Null /\ flag \in IntFlags /\ ParseInt32(text) # {} ->
             <<flag, CHOOSE value \in ParseInt32(text) : TRUE>>
        [] text # Null /\ flag \in StringFlags -> <<flag, text>>
        [] OTHER -> <<Null>>

Parsed(arg) == Len(Setting(arg)) = 2

HasGoogleTestFlagPrefix(arg) ==
  /\ arg[1] \in {"--gtest_", "-gtest_", "/gtest_", "--gtest-"}
  /\ arg[1] # "--gtest-" => arg[2] \notin {"internal_run_death_test", "internal_other"}

(***************************************************************************)
(* The environment, where each variable that is set has a value, gives the  *)
(* flags their values before the command line does.                         *)
(***************************************************************************)
GetEnv(env, prefix, name) ==
  LET k == SelectLastInSeq(env, LAMBDA e : e[1] = prefix /\ e[2] = name)
  IN  IF k = 0 THEN Absent ELSE env[k][3]

\* Unlike on the command line, only one value is no.
BoolFromGTestEnv(env, flag, default) ==
  IF GetEnv(env, "GTEST_", flag) = Absent THEN default ELSE GetEnv(env, "GTEST_", flag) # "0"

Int32FromGTestEnv(env, flag, default) ==
  LET text == GetEnv(env, "GTEST_", flag)
  IN  IF text = Absent \/ ParseInt32(text) = {} THEN default
      ELSE CHOOSE value \in ParseInt32(text) : TRUE

StringFromGTestEnv(env, flag, default) ==
  IF GetEnv(env, "GTEST_", flag) = Absent THEN default ELSE GetEnv(env, "GTEST_", flag)

\* Bazel has variables of its own.
OutputFlagAlsoCheckEnvVar(env) ==
  LET file == GetEnv(env, "", "XML_OUTPUT_FILE") IN IF file = Absent THEN "" ELSE "xml:" \o file

GetDefaultFilter(env) ==
  LET only == GetEnv(env, "", "TESTBRIDGE_TEST_ONLY") IN IF only = Absent THEN "*" ELSE only

Defaults(env) ==
  [shuffle |-> BoolFromGTestEnv(env, "shuffle", FALSE), repeat |-> Int32FromGTestEnv(env, "repeat", 1),
   filter |-> StringFromGTestEnv(env, "filter", GetDefaultFilter(env)),
   output |-> StringFromGTestEnv(env, "output", OutputFlagAlsoCheckEnvVar(env)),
   internal_run_death_test |-> ""]

(***************************************************************************)
(* The flags, the help flag, and the arguments that are left.               *)
(***************************************************************************)
Set(flags, arg) == [flags EXCEPT ![Setting(arg)[1]] = Setting(arg)[2]]

\* LoadFlagsFromFile: what no flag of Google Test is, in a line, asks for help.
LoadFlagsFromFile(s, path) ==
  LET Line(acc, line) ==
        IF Parsed(line) THEN [acc EXCEPT !.flags = Set(@, line)] ELSE [acc EXCEPT !.help = TRUE]
  IN  IF path \notin DOMAIN FlagFiles THEN [s EXCEPT !.abort = TRUE]
      ELSE FoldLeft(Line, s, FlagFiles[path])

\* Fault: the argument that moves up is not looked at.
SkipsNext(s) == [s EXCEPT !.argv = RemoveAt(@, s.i), !.i = @ + 1]
Shift(s) == [s EXCEPT !.argv = RemoveAt(@, s.i)]

RECURSIVE ParseFlagsFrom(_)
ParseFlagsFrom(s) ==
  LET arg  == s.argv[s.i]
      file == ParseFlagValue(arg, "flagfile", FALSE)
  IN  CASE s.i > Len(s.argv) \/ s.abort -> s
        [] s.i <= Len(s.argv) /\ ~s.abort /\ Parsed(arg) ->
             ParseFlagsFrom(Shift([s EXCEPT !.flags = Set(@, arg)]))
        [] s.i <= Len(s.argv) /\ ~s.abort /\ ~Parsed(arg) /\ file # Null ->
             ParseFlagsFrom(Shift(LoadFlagsFromFile(s, file)))
        [] OTHER ->
             ParseFlagsFrom([s EXCEPT !.i = @ + 1,
               !.help = @ \/ arg = <<"", "--help", Absent>> \/ HasGoogleTestFlagPrefix(arg)])

\* The name of the program is no argument; a second call finds g_argvs set.
InitGoogleTest(s) ==
  IF s.initialized THEN s
  ELSE [ParseFlagsFrom([s EXCEPT !.i = 2]) EXCEPT !.initialized = TRUE]

(***************************************************************************)
(* What the command line asks for.                                          *)
(***************************************************************************)
IsFile(arg) == ~Parsed(arg) /\ ParseFlagValue(arg, "flagfile", FALSE) # Null

\* The arguments with the lines of files in their place.
Spread(args) ==
  FoldLeft(LAMBDA acc, arg : acc \o (IF IsFile(arg) THEN FlagFiles[arg[3]] ELSE <<arg>>), <<>>, args)

\* The last argument that sets a flag counts.
LastSetting(args, flag, default) ==
  LET k == SelectLastInSeq(args, LAMBDA arg : Parsed(arg) /\ arg[2] = flag)
  IN  IF k = 0 THEN default ELSE Setting(args[k])[2]
=============================================================================
