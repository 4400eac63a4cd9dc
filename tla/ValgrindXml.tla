----------------------------- MODULE ValgrindXml -----------------------------
(***************************************************************************)
(* src/src/lograder/process/parsers/valgrind.py: the XML report of one run *)
(* of a program under valgrind, read one child of the root after another,  *)
(* and the verdict ValgrindTest (src/src/lograder/pipeline/test/           *)
(* valgrind.py) takes from it.                                             *)
(*                                                                         *)
(* An element has a tag, a text, its children and its parts.  The function *)
(* kids gives what the first child of each tag holds: "none" when it is    *)
(* empty, "int" for a number; all else is a text, and so for the text of   *)
(* the element.  The parts are the elements further down that have a       *)
(* parser of their own: the frames of its stacks, pairs, a suppression.    *)
(***************************************************************************)
EXTENDS Naturals, Sequences, SequencesExt

Element(tag, text, kids, parts) == [tag |-> tag, text |-> text, kids |-> kids, parts |-> parts]
has(e, tag) == tag \in DOMAIN e.kids

ProtocolVersions == {4, 5, 6}
StatusStates == {"RUNNING", "FINISHED"}
CoreFileDescriptorErrorKind == {"FdBadClose", "FdNotClosed"}
MemcheckLeaks == {"Leak_DefinitelyLost", "Leak_IndirectlyLost",
                  "Leak_PossiblyLost", "Leak_StillReachable"}

------------------------------------------------------------------------------
(***************************************************************************)
(* The models: the children an element must have that are read with        *)
(* _require_text or _require_int_text, each under one of several tags, the *)
(* first of which that is there counts; those so read when they are there; *)
(* and those that must be there and may be empty.  The other children may  *)
(* hold anything.                                                          *)
(***************************************************************************)
Model(required, optional, present) ==
  [required |-> required, optional |-> optional, present |-> present]

Numbers == {"tid", "threadid", "line", "count", "fd", "hthreadid",
            "signum", "signo", "signal", "sicode", "code"}

Frame == Model({<<"ip">>}, {<<"obj">>, <<"fn">>, <<"dir">>, <<"file">>, <<"line">>}, {})
Status == Model({<<"state">>}, {}, {"time"})
ErrorCount == Model({<<"count">>}, {}, {"unique"})
SuppressionCount == Model({<<"count">>}, {}, {"name"})
Suppression == Model({}, {<<"name">>, <<"kind">>, <<"auxkind">>}, {})
ErrorBase == Model({<<"unique">>, <<"tid">>, <<"kind">>}, {<<"what">>, <<"auxwhat">>}, {})
CoreFileDescriptorError == Model(ErrorBase.required \union {<<"fd">>}, ErrorBase.optional, {})
ClientMessage == Model({<<"tid">>}, {}, {})
AnnouncedThread == Model({<<"hthreadid">>}, {}, {"stack"})
FatalSignal == Model({<<"signum", "signo", "signal">>},
                     {<<"tid", "threadid">>, <<"sicode", "code">>}, {"stack"})

_find_first_child(e, tags) ==
  {tags[i] : i \in {k \in DOMAIN tags : has(e, tags[k]) /\ \A j \in 1..(k - 1) : ~has(e, tags[j])}}

readable(tag, content) == IF tag \in Numbers THEN content = "int" ELSE content # "none"

model_validate(model, e) ==
  /\ model.present \subseteq DOMAIN e.kids
  /\ \A tags \in model.required : _find_first_child(e, tags) # {}
  /\ \A tags \in model.required \union model.optional :
       \A tag \in _find_first_child(e, tags) : readable(tag, e.kids[tag])

------------------------------------------------------------------------------
\* The parsers of the children of the root: whether they accept an element.

_parse_error_event(e) ==
  model_validate(IF has(e, "kind") /\ e.kids["kind"] \in CoreFileDescriptorErrorKind
                   THEN CoreFileDescriptorError
                   ELSE ErrorBase, e)
_parse_status(e) == model_validate(Status, e) /\ e.kids["state"] \in StatusStates
_parse_log_file_qualifier(e) ==
  \/ has(e, "var") /\ has(e, "value")
  \/ /\ \E first, second \in DOMAIN e.kids : first # second
     /\ \A tag \in DOMAIN e.kids : e.kids[tag] # "none"

Errors == {"error", "coreerror", "core_error"}
ClientMessages == {"clientmsg", "client_message"}
Announcements == {"announcethread", "announce_thread", "announced_thread"}
Signals == {"fatal_signal", "fatalsignal"}
Events == Errors \union {"errorcounts"} \union ClientMessages \union Announcements \union Signals

\* The parts of an element; args and the summaries accept anything.
accepts_part(e, part) ==
  CASE part.tag = "frame" -> model_validate(Frame, part)
    [] part.tag = "suppression" -> model_validate(Suppression, part)
    [] part.tag = "pair" ->
         model_validate(IF e.tag = "errorcounts" THEN ErrorCount ELSE SuppressionCount, part)

accepts_child(e) ==
  /\ \A part \in Range(e.parts) : accepts_part(e, part)
  /\ CASE e.tag \in {"pid", "ppid"} -> e.text = "int"
       [] e.tag = "tool" -> e.text # "none"
       [] e.tag = "logfilequalifier" -> _parse_log_file_qualifier(e)
       [] e.tag = "status" -> _parse_status(e)
       [] e.tag \in Errors -> _parse_error_event(e)
       [] e.tag \in ClientMessages -> model_validate(ClientMessage, e)
       [] e.tag \in Announcements -> model_validate(AnnouncedThread, e)
       [] e.tag \in Signals -> model_validate(FatalSignal, e)
       [] OTHER -> TRUE

------------------------------------------------------------------------------
\* from_xml_element

NotTheTool == {"preamble", "pid", "ppid", "tool", "logfilequalifier", "usercomment", "args",
               "status", "error", "errorcounts", "suppcounts"}

\* Whether the second child is read as the protocol tool, and not again.
SkipsTool_Always(children) == Len(children) > 1
SkipsTool(children) ==
  /\ Len(children) > 1
  /\ children[2].tag \notin NotTheTool
  /\ children[2].text # "none"

Unread == [raised |-> FALSE, pid |-> FALSE, ppid |-> FALSE, tool |-> FALSE,
           start_status |-> FALSE, finish_status |-> FALSE,
           runtime_events |-> <<>>, postrun_events |-> <<>>]

RecordEvent(read, e) ==
  IF read.finish_status THEN [read EXCEPT !.postrun_events = Append(@, e)]
  ELSE [read EXCEPT !.runtime_events = Append(@, e)]

ReadChild(read, e) ==
  CASE read.raised \/ ~accepts_child(e) -> [read EXCEPT !.raised = TRUE]
    [] OTHER ->
         CASE e.tag = "pid" -> [read EXCEPT !.pid = TRUE]
           [] e.tag = "ppid" -> [read EXCEPT !.ppid = TRUE]
           [] e.tag = "tool" -> [read EXCEPT !.tool = TRUE]
           [] e.tag = "status" -> IF e.kids["state"] = "RUNNING"
                                    THEN [read EXCEPT !.start_status = TRUE]
                                    ELSE [read EXCEPT !.finish_status = TRUE]
           [] e.tag \in Events -> RecordEvent(read, e)
           [] OTHER -> read

Complete(read) ==
  read.pid /\ read.ppid /\ read.tool /\ read.start_status /\ read.finish_status

from_xml_element(children) ==
  LET versioned == /\ children # <<>>
                   /\ children[1].tag = "protocolversion" /\ children[1].text = "int"
                   /\ children[1].version \in ProtocolVersions
      first == IF SkipsTool(children) THEN 3 ELSE 2
      upTo[i \in 0..Len(children)] ==
        IF i < first THEN Unread ELSE ReadChild(upTo[i - 1], children[i])
      read == upTo[Len(children)]
  IN IF ~versioned \/ ~Complete(read) THEN [read EXCEPT !.raised = TRUE] ELSE read

\* One case of ValgrindTest: a report that cannot be read ends the step.
outcome(children) ==
  LET output == from_xml_element(children)
      of(tags) == {e \in Range(output.runtime_events) : e.tag \in tags}
  IN IF output.raised THEN "fatal"
     ELSE IF of(Errors) = {} /\ of(Signals) = {} THEN "passed" ELSE "failed"

------------------------------------------------------------------------------
\* What a reader of a report relies on.

IsStatus(e, state) == e.tag = "status" /\ has(e, "state") /\ e.kids["state"] = state

\* What has a text of its own has no element below it, and is no event.
TextOrElements(children) ==
  \A e \in Range(children) : e.text # "none" => e.parts = <<>> /\ e.tag \notin Events

\* The list has the children at these places, each once and in their order.
Lists(listed, children, places) ==
  /\ Len(listed) = Cardinality(places)
  /\ \A i \in places : listed[Cardinality({j \in places : j <= i})] = children[i]

\* A report is read exactly when it declares a protocol, says what ran and from
\* when to when, and each of its elements is whole, in whatever order they
\* come and with or without the name of the tool; then every event it holds is
\* in the output, once and in order, those before the end of the run apart.
ReportIsItsElements(children) ==
  LET output == from_xml_element(children)
      body == 2..Len(children)
      events == {i \in body : children[i].tag \in Events}
      finished == {i \in body : IsStatus(children[i], "FINISHED")}
      end == CHOOSE i \in finished : \A j \in finished : i <= j
  IN children # <<>> /\ children[1].tag = "protocolversion" /\ TextOrElements(children) =>
     /\ ~output.raised <=>
          /\ children[1].text = "int" /\ children[1].version \in ProtocolVersions
          /\ \A tag \in {"pid", "ppid", "tool"} : \E i \in body : children[i].tag = tag
          /\ \A state \in StatusStates : \E i \in body : IsStatus(children[i], state)
          /\ \A i \in body : accepts_child(children[i])
     /\ ~output.raised =>
          /\ Lists(output.runtime_events, children, {i \in events : i < end})
          /\ Lists(output.postrun_events, children, {i \in events : i > end})

\* docs/pipeline/test.md:95 and the test of leaks after the end of the run
\* (tests/parsers/test_valgrind_parser_integration.py:204): with check_leaks a
\* program that leaks fails.
LeaksFailTheCase(children) ==
  (\E e \in Range(children) : e.tag \in Errors /\ e.kids["kind"] \in MemcheckLeaks) =>
    outcome(children) # "passed"
==============================================================================
