------------------------------- MODULE Values -------------------------------
(***************************************************************************)
(* How values of any type are shown (gtest-printers.h, gtest-printers.cc):  *)
(* a text is a sequence of characters and of words.  A value is a record    *)
(* whose kind says which overload of PrintTo the compiler picks, or else    *)
(* "object", with the traits that the fallback printers ask for.  What is   *)
(* in it is in "of", and "at" is an address, or NULL.                       *)
(***************************************************************************)
EXTENDS Printing

LOCAL INSTANCE Integers
LOCAL INSTANCE Sequences
LOCAL INSTANCE SequencesExt
LOCAL INSTANCE TLC

Comma == <<",", " ">>
Dots  == <<"...">>

(***************************************************************************)
(* Sequences of elements, given as they are printed.                        *)
(***************************************************************************)
PrintRawArray(texts) ==
  FlattenSeq([k \in DOMAIN texts |-> (IF k = 1 THEN <<>> ELSE Comma) \o texts[k]])

UniversalPrintArray(texts) ==
  LET len == Len(texts)  kThreshold == 18  kChunkSize == 8
      some == PrintRawArray(SubSeq(texts, 1, kChunkSize)) \o Comma \o Dots \o Comma
                \o PrintRawArray(SubSeq(texts, len - kChunkSize + 1, len))
  IN  IF len = 0 THEN <<"{", "}">>
      ELSE <<"{", " ">> \o (IF len <= kThreshold THEN PrintRawArray(texts) ELSE some) \o <<" ", "}">>

kMaxCount == 32
ContainerPrinter(texts) ==
  LET first == IF Len(texts) > kMaxCount THEN SubSeq(texts, 1, kMaxCount) ELSE texts
  IN  <<"{">> \o FlattenSeq([k \in DOMAIN first |-> (IF k = 1 THEN <<>> ELSE <<",">>) \o <<" ">> \o first[k]])
        \o (IF Len(texts) > kMaxCount THEN <<",", " ">> \o Dots ELSE <<>>)
        \o (IF texts # <<>> THEN <<" ">> ELSE <<>>) \o <<"}">>

PrintTuple(texts) == <<"(">> \o PrintRawArray(texts) \o <<")">>

\* Bytes from a position, counted from zero, in groups of two.
PrintByteSegmentInObjectTo(obj_bytes, start, count) ==
  FlattenSeq([i \in 1 .. count |->
    LET j == start + i - 1
    IN  (IF i = 1 THEN <<>> ELSE IF j % 2 = 0 THEN <<" ">> ELSE <<"-">>) \o <<obj_bytes[j + 1]>>])

kBytesThreshold == 132
kChunkSize == 64
\* Fault: not rounded up to the boundary of a group.
ResumeInGroup(count) == count - kChunkSize
ResumePos(count) == ((count - kChunkSize + 1) \div 2) * 2

PrintBytesInObject(obj_bytes) ==
  LET count == Len(obj_bytes)
      resume_pos == ResumePos(count)
  IN  <<ToString(count), "-byte object", "<">>
        \o (IF count < kBytesThreshold THEN PrintByteSegmentInObjectTo(obj_bytes, 0, count)
            ELSE PrintByteSegmentInObjectTo(obj_bytes, 0, kChunkSize) \o <<" ">> \o Dots \o <<" ">>
                   \o PrintByteSegmentInObjectTo(obj_bytes, resume_pos, count - resume_pos))
        \o <<">">>

(***************************************************************************)
(* The printer of a type without a PrintTo of its own.                      *)
(***************************************************************************)
PrinterList ==
  <<"Container", "FunctionPointer", "Pointer", "Stream", "Protobuf", "ConvertibleToInteger",
    "ConvertibleToStringView", "RawBytes", "Fallback">>

Works(printer, traits) ==
  CASE printer = "Container"               -> "container" \in traits /\ "recursive" \notin traits
    [] printer = "FunctionPointer"         -> "function pointer" \in traits
    [] printer = "Pointer"                 -> "pointer" \in traits
    [] printer = "Stream"                  -> "streamable" \in traits /\ "member pointer" \notin traits
    [] printer = "Protobuf"                -> "protobuf" \in traits
    [] printer = "ConvertibleToInteger"    -> "integer" \in traits
    [] printer = "ConvertibleToStringView" -> "string view" \in traits
    [] printer = "RawBytes"                -> "complete" \in traits
    [] OTHER                               -> TRUE

FindFirstPrinter(traits) ==
  PrinterList[SelectInSeq(PrinterList, LAMBDA printer : Works(printer, traits))]

\* PointerPrinter and FunctionPointerPrinter.
PrintPointer(at) == <<at>>

kProtobufOneLinerMaxLength == 50
ProtobufPrinter(short) ==
  <<"<">> \o (IF Len(short) > kProtobufOneLinerMaxLength THEN <<Newline>> \o short ELSE short) \o <<">">>

\* texts are the elements of a container, printed.
PrintWithFallback(value, texts) ==
  LET printer == FindFirstPrinter(value.traits)
  IN  CASE printer = "Container"                    -> ContainerPrinter(texts)
        [] printer \in {"FunctionPointer", "Pointer"} -> PrintPointer(value.at)
        [] printer \in {"Stream", "ConvertibleToInteger"} -> value.of
        [] printer = "Protobuf"                     -> ProtobufPrinter(value.of)
        [] printer = "ConvertibleToStringView"      -> PrintCharsAsString(value.of)
        [] printer = "RawBytes"                     -> PrintBytesInObject(value.of)
        [] OTHER                                    -> <<"(incomplete type)">>

(***************************************************************************)
(* UniversalPrint.                                                          *)
(***************************************************************************)
PrintCString(value) ==
  IF value.at = "NULL" THEN <<"NULL">>
  ELSE <<value.at, " pointing to ">> \o PrintCharsAsString(value.of)

\* Of a pointer to void or to an array only the address is known.
PrintSmartPointer(value, texts) ==
  CASE value.at = "NULL" -> <<"(", "nullptr", ")">>
    [] value.at # "NULL" /\ texts = <<>> -> <<"(", value.at, ")">>
    [] OTHER -> <<"(", "ptr = ", value.at>> \o Comma \o <<"value = ">> \o texts[1] \o <<")">>

PrintOptional(texts) ==
  <<"(">> \o (IF texts = <<>> THEN <<"nullopt">> ELSE texts[1]) \o <<")">>

PrintVariant(value, texts) ==
  <<"(", "'", value.type, "(index = ", value.index, ")", "'", " with value ">> \o texts[1] \o <<")">>

PrintReference(value, texts) == <<"@", value.at, " ">> \o texts[1]

IsComposed(value) ==
  \/ value.kind \in {"array", "tuple", "smart pointer", "optional", "variant", "reference"}
  \/ value.kind = "object" /\ "container" \in value.traits

RECURSIVE UniversalPrint(_)
UniversalPrint(value) ==
  LET texts == IF IsComposed(value) THEN [k \in DOMAIN value.of |-> UniversalPrint(value.of[k])] ELSE <<>>
  IN  CASE value.kind = "string"        -> PrintCharsAsString(value.of)
        [] value.kind = "C string"      -> PrintCString(value)
        [] value.kind = "array"         -> UniversalPrintArray(texts)
        [] value.kind = "tuple"         -> PrintTuple(texts)
        [] value.kind = "smart pointer" -> PrintSmartPointer(value, texts)
        [] value.kind = "optional"      -> PrintOptional(texts)
        [] value.kind = "variant"       -> PrintVariant(value, texts)
        [] value.kind = "reference"     -> PrintReference(value, texts)
        [] OTHER                        -> PrintWithFallback(value, texts)

\* UniversalTersePrinter: the text of a C string, the value of a reference.
PrintToString(value) ==
  CASE value.kind = "C string" /\ value.at # "NULL" -> PrintCharsAsString(value.of)
    [] value.kind = "reference" -> UniversalPrint(value.of[1])
    [] OTHER -> UniversalPrint(value)

\* An operand of a comparison.  An array of characters is a C string to this.
\* Fault: a C string is always a pointer.
AlwaysPointer(value, other) == IF value.kind = "C string" THEN PrintPointer(value.at) ELSE PrintToString(value)
FormatForComparison(value, other) ==
  IF value.kind = "C string" /\ other.kind # "string" THEN PrintPointer(value.at)
  ELSE PrintToString(value)

(***************************************************************************)
(* The text of a string of bytes, behind its literal.                       *)
(***************************************************************************)
\* std::iscntrl.
IsControl(ch) == ch < 32 \/ ch = 127
ContainsUnprintableControlCodes(str) == \E ch \in ToSet(str) : IsControl(ch) /\ ch \notin {9, 10, 13}
IsHexEscape(ch) == ~(ch \in 32 .. 126) /\ ch \notin {0} \cup 7 .. 13

ConditionalPrintAsText(str) == ~ContainsUnprintableControlCodes(str) /\ IsValidUTF8(str)
\* Does PrintStringTo show the text?
PrintStringTo(str, print_utf8) ==
  (\E ch \in ToSet(str) : IsHexEscape(ch)) /\ print_utf8 /\ ConditionalPrintAsText(str)
=============================================================================
