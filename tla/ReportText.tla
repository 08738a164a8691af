---------------------------- MODULE ReportText -----------------------------
(***************************************************************************)
(* What a report does to the texts in it (gtest.cc): the escapes of XML, of *)
(* JSON and of the streaming protocol, and the properties that tests        *)
(* record.  An escaped text is a sequence of characters and references.     *)
(***************************************************************************)
EXTENDS Printing

LOCAL INSTANCE Integers
LOCAL INSTANCE Sequences
LOCAL INSTANCE SequencesExt

Mapped(str, Of(_)) == FlattenSeq([k \in DOMAIN str |-> Of(str[k])])

\* Of the characters here, the control characters but the newline are invalid.
IsValidXmlCharacter(c) == c \notin {NUL, SOH}

RemoveInvalidXmlCharacters(str) == SelectSeq(str, IsValidXmlCharacter)

EscapeXmlAttribute(str) ==
  Mapped(str, LAMBDA c :
    CASE c = "<" -> <<"&lt;">> [] c = ">" -> <<"&gt;">> [] c = "&" -> <<"&amp;">>
      [] c = Quote -> <<"&quot;">> [] c = Newline -> <<"&#x0A;">>
      [] OTHER -> IF IsValidXmlCharacter(c) THEN <<c>> ELSE <<>>)

EndOfCData == <<"]", "]", ">">>
EndsAt(str, k) == k + 2 <= Len(str) /\ SubSeq(str, k, k + 2) = EndOfCData

\* Fault: the search goes on behind the first bracket, and finds it again.
BehindBracket(k) == k + 1
BehindEnd(k) == k + 3

\* The segments of data, from here on, each with "]]&gt;" behind its section.
Segments[data \in Seq(STRING)] ==
  LET ends == {k \in DOMAIN data : EndsAt(data, k)}
  IN  IF ends = {} THEN data \o EndOfCData
      ELSE LET k == CHOOSE j \in ends : \A other \in ends : j <= other
           IN  SubSeq(data, 1, k - 1) \o EndOfCData \o <<"]", "]", "&gt;", "<![CDATA[">>
                 \o Segments[SubSeq(data, BehindEnd(k), Len(data))]

OutputXmlCDataSection(data) == <<"<![CDATA[">> \o Segments[data]

\* A char is signed on x86-64 and on Apple's targets, which is what is modelled:
\* ch < ' ' holds for the bytes from 0x80 on, too.
BelowBlank(c) == c \in {NUL, SOH, Lead, Trail}

FormatByte(c) ==
  CASE c = NUL -> "00" [] c = SOH -> "01" [] c = Lead -> "C3" [] c = Trail -> "A9"

EscapeJson(str) ==
  Mapped(str, LAMBDA c :
    CASE c \in {Escape, Quote, "/"} -> <<Escape, c>> [] c = Newline -> <<Escape, "n">>
      [] BelowBlank(c) -> <<Escape, "u00", FormatByte(c)>>
      [] OTHER -> <<c>>)

\* A message of the streaming protocol is one line of name=value&name=value.
UrlEncode(str) ==
  Mapped(str, LAMBDA c :
    CASE c = "%" -> <<"%", "25">> [] c = "=" -> <<"%", "3D">> [] c = "&" -> <<"%", "26">>
      [] c = Newline -> <<"%", "0A">> [] OTHER -> <<c>>)

(***************************************************************************)
(* Properties: the keys are names that the element does not have itself.    *)
(***************************************************************************)
GetReservedAttributes(element) ==
  CASE element = "testsuites" -> {"disabled", "errors", "failures", "name", "random_seed", "tests",
                                  "time", "timestamp"}
    [] element = "testsuite"  -> {"disabled", "errors", "failures", "name", "tests", "time",
                                  "timestamp", "skipped"}
    [] element = "testcase"   -> {"classname", "name", "status", "time", "type_param",
                                  "value_param", "file", "line"}

\* Fault: the property is appended whether or not there is one of this name.
AppendProperty(properties, p) == Append(properties, p)
PutProperty(properties, p) ==
  IF \E k \in DOMAIN properties : properties[k][1] = p[1]
  THEN [k \in DOMAIN properties |-> IF properties[k][1] = p[1] THEN p ELSE properties[k]]
  ELSE Append(properties, p)

\* TestResult::RecordProperty: a reserved name is a failure of the test.
RecordProperty(r, element, p) ==
  IF p[1] \in GetReservedAttributes(element) THEN [r EXCEPT !.failed = TRUE]
  ELSE [r EXCEPT !.properties = PutProperty(@, p)]

\* UnitTestImpl::RecordProperty: the element that is open takes the property.
CurrentElement(current) ==
  IF current.test THEN "testcase" ELSE IF current.suite THEN "testsuite" ELSE "testsuites"

RecordWhere(results, current, p) ==
  [results EXCEPT ![CurrentElement(current)] = RecordProperty(@, CurrentElement(current), p)]

GetReservedOutputAttributes(element) ==
  GetReservedAttributes(element) \cup (IF element = "testcase" THEN {"result", "timestamp"} ELSE {})

\* Another name ends the program.
OutputXmlAttribute(element, name) ==
  IF name \in GetReservedOutputAttributes(element) THEN name ELSE "abort"
OutputJsonKey(element, name) ==
  IF name \in GetReservedOutputAttributes(element) THEN name ELSE "abort"

TestPropertiesAsXmlAttributes(properties) == [k \in DOMAIN properties |-> properties[k][1]]
TestPropertiesAsJson(properties) == [k \in DOMAIN properties |-> properties[k][1]]

\* The names of an element's attributes; seed: those of a shuffled program.
XmlAttributes(element, seed, properties) ==
  LET own(names) == [k \in DOMAIN names |-> OutputXmlAttribute(element, names[k])]
  IN  CASE element = "testsuites" ->
             own(<<"tests", "failures", "disabled", "errors", "time", "timestamp">> \o seed)
               \o TestPropertiesAsXmlAttributes(properties) \o own(<<"name">>)
        [] element = "testsuite" ->
             own(<<"name", "tests", "failures", "disabled", "skipped", "errors", "time", "timestamp">>)
               \o TestPropertiesAsXmlAttributes(properties)
        [] element = "testcase" ->
             own(<<"name", "value_param", "type_param", "file", "line", "status", "result", "time",
                   "timestamp", "classname">>)

\* The properties of a test are elements within its element.
OutputXmlTestProperties(properties) == [k \in DOMAIN properties |-> properties[k][1]]

\* The names of the members of an object, those of the arrays in it last.
JsonKeys(element, seed, properties) ==
  LET own(names) == [k \in DOMAIN names |-> OutputJsonKey(element, names[k])]
  IN  CASE element = "testsuites" ->
             own(<<"tests", "failures", "disabled", "errors">> \o seed \o <<"timestamp", "time">>)
               \o TestPropertiesAsJson(properties) \o own(<<"name">>) \o <<"testsuites">>
        [] element = "testsuite" ->
             own(<<"name", "tests", "failures", "disabled", "errors", "timestamp", "time">>)
               \o TestPropertiesAsJson(properties) \o <<"testsuite">>
        [] element = "testcase" ->
             own(<<"name", "value_param", "type_param", "file", "line", "status", "result",
                   "timestamp", "time", "classname">>)
               \o TestPropertiesAsJson(properties) \o <<"failures">>

(***************************************************************************)
(* How the texts are read back, by the rules of XML 1.0, of JSON and of URL *)
(* encoding.  An error yields "error".                                      *)
(***************************************************************************)
Reference(token) ==
  CASE token = "&lt;" -> "<" [] token = "&gt;" -> ">" [] token = "&amp;" -> "&"
    [] token = "&quot;" -> Quote [] token = "&#x0A;" -> Newline [] OTHER -> token

\* A newline in an attribute is read as a blank.
ReadAttribute(text) ==
  [k \in DOMAIN text |->
     IF text[k] \in {"<", "&", Quote, NUL, SOH} THEN "error"
     ELSE IF text[k] = Newline THEN " " ELSE Reference(text[k])]

\* Character data with sections in it, inside or outside of a section.
ReadContent[text \in Seq(STRING), inside \in BOOLEAN] ==
  IF text = <<>> THEN IF inside THEN <<"error">> ELSE <<>>
  ELSE CASE inside /\ EndsAt(text, 1) -> ReadContent[SubSeq(text, 4, Len(text)), FALSE]
         [] inside /\ ~EndsAt(text, 1) -> <<Head(text)>> \o ReadContent[Tail(text), TRUE]
         [] ~inside /\ Head(text) = "<![CDATA[" -> ReadContent[Tail(text), TRUE]
         [] ~inside /\ (EndsAt(text, 1) \/ Head(text) \in {"<", "&"}) -> <<"error">>
         [] OTHER -> <<Reference(Head(text))>> \o ReadContent[Tail(text), FALSE]

\* The UTF-8 of the character that has this number below 256.
Utf8Of(hex) ==
  CASE hex = "00" -> <<NUL>> [] hex = "01" -> <<SOH>>
    [] hex = "C3" -> <<Lead, "0x83">> [] hex = "A9" -> <<"0xC2", Trail>>

ReadJson[text \in Seq(STRING)] ==
  IF text = <<>> THEN <<>>
  ELSE IF Head(text) \in {Quote, Newline, NUL, SOH} THEN <<"error">>
  ELSE IF Head(text) # Escape THEN <<Head(text)>> \o ReadJson[Tail(text)]
  ELSE CASE text[2] = "u00" -> Utf8Of(text[3]) \o ReadJson[SubSeq(text, 4, Len(text))]
         [] text[2] = "n" -> <<Newline>> \o ReadJson[SubSeq(text, 3, Len(text))]
         [] OTHER -> <<text[2]>> \o ReadJson[SubSeq(text, 3, Len(text))]

ReadUrl[text \in Seq(STRING)] ==
  IF text = <<>> THEN <<>>
  ELSE IF Head(text) \in {"=", "&", Newline} THEN <<"error">>
  ELSE IF Head(text) # "%" THEN <<Head(text)>> \o ReadUrl[Tail(text)]
  ELSE <<CASE text[2] = "25" -> "%" [] text[2] = "3D" -> "=" [] text[2] = "26" -> "&"
           [] text[2] = "0A" -> Newline>> \o ReadUrl[SubSeq(text, 3, Len(text))]
=============================================================================
