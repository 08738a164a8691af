----------------------------- MODULE Listeners -----------------------------
(***************************************************************************)
(* TestEventListeners and the TestEventRepeater behind it (gtest.cc): the   *)
(* list of listeners, the two default ones, and the loops that tell each    *)
(* listener of the start or the end of something while listeners come and   *)
(* go.  Discipline of the listeners: none leaves the list while the list is *)
(* told of a start, and in the course of an end each one takes out only     *)
(* itself.                                                                  *)
(***************************************************************************)
EXTENDS Integers, SequencesExt

CONSTANTS
  Users,       \* the listeners that the program may append
  MaxNesting,  \* bound: events that are open at once
  MaxEvents    \* bound: starts and ends

NoListener == "nullptr"
Printer == "PrettyUnitTestResultPrinter"
Brief == "BriefUnitTestResultPrinter"
Xml == "XmlUnitTestResultPrinter"
Streaming == "StreamingListener"
Everyone == Users \cup {Printer, Brief, Xml, Streaming}

\* The framework makes its own listeners.
ASSUME UsersAssumption == Users \cap {NoListener, Printer, Brief, Xml, Streaming} = {}

VARIABLES
  listeners_,     \* of the repeater
  default_result_printer_, default_xml_generator_,
  deleted,        \* listeners that the framework has deleted
  forwarding_enabled_, post_flag_parse_init_performed_,
  event,          \* what the list is being told of: "none", "start" or "end"
  index,          \* the loop variable i
  nesting,        \* the starts without an end
  told,           \* history: those told of this event so far
  log,            \* history: all events
  heard, joined   \* history: of each listener, what it heard, and its first event

defaults == <<default_result_printer_, default_xml_generator_, deleted>>
modes == <<forwarding_enabled_, post_flag_parse_init_performed_>>
dispatch == <<event, index, nesting, told, log>>
lisVars == <<listeners_, defaults, modes, dispatch, heard, joined>>

LisInit ==
  /\ listeners_ = <<Printer>> /\ default_result_printer_ = Printer
  /\ default_xml_generator_ = NoListener /\ deleted = {}
  /\ forwarding_enabled_ = TRUE /\ post_flag_parse_init_performed_ = FALSE
  /\ event = "none" /\ index = 0 /\ nesting = 0 /\ told = <<>> /\ log = <<>>
  /\ heard = [l \in Everyone |-> <<>>] /\ joined = [l \in Everyone |-> 1]

\* The first event that a listener hears which is appended now: the loop over
\* a start comes to it, the loop over an end is past it.
FirstFromNow == IF event = "start" THEN Len(log) ELSE Len(log) + 1

Appended(list, l) == IF l = NoListener THEN list ELSE Append(list, l)
Released(list, l) ==
  IF l \in ToSet(list)
  THEN RemoveAt(list, CHOOSE i \in DOMAIN list : list[i] = l /\ \A j \in 1 .. i - 1 : list[j] # l)
  ELSE list

Join(l) ==
  /\ listeners_' = Append(listeners_, l)
  /\ joined' = [joined EXCEPT ![l] = FirstFromNow]
  /\ heard' = [heard EXCEPT ![l] = <<>>]

Release(l) ==
  /\ listeners_' = Released(listeners_, l)
  /\ default_result_printer_' =
       IF l = default_result_printer_ THEN NoListener ELSE default_result_printer_
  /\ default_xml_generator_' =
       IF l # default_result_printer_ /\ l = default_xml_generator_ THEN NoListener
       ELSE default_xml_generator_

\* Fault: the old default is deleted where it is.
OnlyDeleted(list, old, new) == Appended(list, new)
Replaced(list, old, new) == IF old = new THEN list ELSE Appended(Released(list, old), new)

\* A target that has no port in it is ignored, like none at all.
ConfigureStreamingOutput(list, streaming) == Appended(list, streaming)

\* What the flags ask for, once: silence in the child of a death test, an XML
\* or JSON report, the brief printer, which takes the place of the default one
\* unless the program has taken that out, and a client of the stream behind all.
PostFlagParsingInit ==
  /\ event = "none" /\ ~post_flag_parse_init_performed_
  /\ post_flag_parse_init_performed_' = TRUE
  /\ forwarding_enabled_' \in BOOLEAN
  /\ \E xml \in {NoListener, Xml}, brief \in BOOLEAN, streaming \in {NoListener, Streaming} :
       LET printer == IF brief THEN Brief ELSE default_result_printer_
       IN  /\ listeners_' = ConfigureStreamingOutput(
                                Replaced(Replaced(listeners_, default_xml_generator_, xml),
                                         default_result_printer_, printer), streaming)
           /\ default_xml_generator_' = xml /\ default_result_printer_' = printer
           /\ deleted' = deleted \cup ({default_result_printer_} \ {printer, NoListener})
           /\ joined' = [l \in Everyone |-> IF l \in {xml, Brief, streaming} THEN Len(log) + 1 ELSE joined[l]]
  /\ UNCHANGED <<dispatch, heard>>

\* The program changes the list between two events.
Change ==
  /\ event = "none" /\ Len(log) < MaxEvents
  /\ \/ /\ \E l \in Users \ ToSet(listeners_) : Join(l)
        /\ UNCHANGED defaults
     \/ /\ \E l \in ToSet(listeners_) : Release(l)
        /\ UNCHANGED <<deleted, joined, heard>>
  /\ UNCHANGED <<modes, dispatch>>

\* Fault: ends are told in the order of the starts.
AlwaysForward(kind) == TRUE
IsForward(kind) == kind = "start"

\* An event begins: the tests start behind PostFlagParsingInit.
Occur(kind) ==
  /\ event = "none" /\ post_flag_parse_init_performed_ /\ Len(log) < MaxEvents
  /\ nesting' = IF kind = "start" THEN nesting + 1 ELSE nesting - 1
  /\ nesting' \in 0 .. MaxNesting
  /\ event' = kind /\ told' = <<>> /\ log' = Append(log, kind)
  /\ index' = IF IsForward(kind) THEN 1 ELSE Len(listeners_)
  /\ UNCHANGED <<listeners_, defaults, modes, heard, joined>>

More == forwarding_enabled_ /\ index \in DOMAIN listeners_

\* The listener hears of it and may append another or take itself out.
Tell ==
  /\ event # "none" /\ More
  /\ LET l == listeners_[index]
         h == [heard EXCEPT ![l] = Append(@, event)]
     IN  /\ told' = Append(told, l)
         /\ \/ heard' = h /\ UNCHANGED <<listeners_, defaults, joined>>
            \/ \E u \in Users \ ToSet(listeners_) :
                 /\ l \in Users
                 /\ listeners_' = Append(listeners_, u)
                 /\ joined' = [joined EXCEPT ![u] = FirstFromNow]
                 /\ heard' = [h EXCEPT ![u] = <<>>]
                 /\ UNCHANGED defaults
            \/ /\ event = "end" /\ l \in Users
               /\ Release(l) /\ heard' = h /\ UNCHANGED <<deleted, joined>>
  /\ index' = IF IsForward(event) THEN index + 1 ELSE index - 1
  /\ UNCHANGED <<modes, event, nesting, log>>

AllTold ==
  /\ event # "none" /\ ~More /\ event' = "none"
  /\ UNCHANGED <<listeners_, defaults, modes, index, nesting, told, log, heard, joined>>

LisStopped == event = "none" /\ Len(log) = MaxEvents /\ UNCHANGED lisVars

LisNext ==
  \/ PostFlagParsingInit \/ Change \/ Occur("start") \/ Occur("end") \/ Tell \/ AllTold \/ LisStopped
LisSpec == LisInit /\ [][LisNext]_lisVars /\ WF_lisVars(AllTold) /\ WF_lisVars(Tell)

(***************************************************************************)
\* Whoever comes and goes, in between or in the middle of an event: a listener
\* hears each event from its first one on, once, starts in the order of the list
\* and ends in reverse, and nobody calls one that was deleted.
EventsReachAll ==
  /\ ToSet(listeners_) \cap deleted = {}
  /\ event = "none" /\ forwarding_enabled_ =>
       \A l \in ToSet(listeners_) : heard[l] = SubSeq(log, joined[l], Len(log))
  /\ event # "none" =>
       \A i, j \in DOMAIN told, a, b \in DOMAIN listeners_ :
         /\ i < j /\ listeners_[a] = told[i] /\ listeners_[b] = told[j]
         /\ joined[told[i]] <= Len(log) /\ joined[told[j]] <= Len(log)
         => IF event = "start" THEN a < b ELSE b < a
=============================================================================
