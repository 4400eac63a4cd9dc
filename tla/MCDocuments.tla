---------------------------- MODULE MCDocuments ------------------------------
(***************************************************************************)
(* Documents, and Makefiles with them, on small alphabets: for each reader *)
(* the items that its documents are made of.                               *)
(***************************************************************************)
EXTENDS Documents

M == INSTANCE Makefiles

Names == 1..2
MCPaths == {<<n>> : n \in Names} \union {<<1, n>> : n \in Names} \union {<<1, 1, 1>>, <<2, 1>>}
MCDirectories == {<<1>>, <<2>>, <<1, 1>>}

------------------------------------------------------------------------------
\* Makefiles
a == M!Word(<<"a">>)
clean == M!Word(<<"c">>)
object == M!Word(<<"x", ".", "o">>)
nested == M!Word(<<"b", "/", "a">>)
anyObject == M!Word(<<"%", ".", "o">>)
anySource == M!Word(<<"%", ".", "c">>)
inner == M!Word(<<"c", "%", "c">>)
phony == M!Word(M!Phony)
suffixes == M!Word(<<".", "SUFFIXES">>)
v == M!Word(<<"V">>)
w == M!Word(<<"W">>)
V_ == M!Ref(<<"V">>)
W_ == M!Ref(<<"W">>)
whole(text) == M!Line(FALSE, text, FALSE)
colon == M!Op(":")

MakefileLines == {
  whole(<<a, colon, object>>),
  whole(<<nested, M!Op("::"), a, M!Op(";"), clean>>),
  whole(<<clean, colon>>),
  whole(<<phony, colon, clean>>),
  whole(<<phony, colon, a>>),
  whole(<<suffixes, colon, clean>>),
  whole(<<anyObject, colon, anySource, inner>>),
  M!Line(TRUE, <<clean, colon, a>>, TRUE),
  M!Line(FALSE, <<object>>, TRUE),
  whole(<<M!Op("#"), object, colon>>),
  whole(<<v, M!Op("="), object>>),
  whole(<<v, M!Op("+="), W_>>),
  whole(<<v, M!Op("?="), a>>),
  whole(<<w, M!Op("="), V_, M!Call(<<"subst">>, <<<<M!Word(<<"x">>)>>, <<a>>, <<V_>>>>)>>),
  whole(<<w, M!Op("+="), M!Call(<<"V">>, <<<<a>>>>), M!Call(<<"subst">>, <<<<>>, <<a>>, <<clean>>>>)>>),
  whole(<<w, M!Op(":="), M!Call(<<"filter">>, <<<<anyObject>>, <<V_, clean>>>>)>>),
  whole(<<M!Call(<<"patsubst">>, <<<<anyObject>>, <<anySource>>, <<V_>>>>), colon, W_>>),
  whole(<<M!Op("define"), v>>),
  whole(<<M!Op("endef")>>),
  whole(<<M!Op("ifeq"), a>>)}

MakefileSources == <<<<"x", ".", "c">>, <<"c">>, <<"c", "y", "c">>>>

------------------------------------------------------------------------------
\* Valgrind reports
None == <<>>
leaf(tag, text) == Element(tag, text, None, <<>>)
status(state) == Element("status", "none", [state |-> state, time |-> "text"], <<>>)
frame(kids) == Element("frame", "none", kids, <<>>)
stacked(tag, kids, top) == Element(tag, "none", kids, <<frame(top)>>)
version(n) == [tag |-> "protocolversion", text |-> "int", kids |-> None, parts |-> <<>>, version |-> n]
known == [ip |-> "text", line |-> "int"]
memory(kind) == [unique |-> "text", tid |-> "int", kind |-> kind, what |-> "text", stack |-> "none"]

MCReports == {
  <<version(4), leaf("pid", "int"), leaf("ppid", "int"), leaf("tool", "text"),
    status("RUNNING"), status("FINISHED")>>,
  <<version(5), leaf("protocoltool", "text"), leaf("tool", "text"), leaf("ppid", "int"),
    leaf("pid", "int"), status("RUNNING"),
    stacked("error", memory("InvalidRead"), known), status("FINISHED")>>}

MCReportElements == {
  version(3), leaf("protocoltool", "text"), leaf("preamble", "text"),
  leaf("pid", "text"), status("FINISHED"), status("KILLED"),
  stacked("error", memory("Leak_DefinitelyLost"), known),
  stacked("error", memory("Leak_DefinitelyLost"), [line |-> "int"]),
  stacked("error", [tid |-> "int", kind |-> "InvalidRead"], known),
  stacked("error", memory("FdNotClosed"), known),
  stacked("fatal_signal", [stack |-> "none", signo |-> "int"], known),
  stacked("fatal_signal", [stack |-> "none", signum |-> "text", signo |-> "int"], known),
  stacked("announcethread", [hthreadid |-> "int", stack |-> "none"], known),
  Element("clientmsg", "none", [tid |-> "int", text |-> "text"], <<>>),
  Element("errorcounts", "none", None,
          <<Element("pair", "none", [count |-> "int", unique |-> "none"], <<>>)>>),
  Element("error", "none", memory("InvalidRead"),
          <<Element("suppression", "none", [name |-> "none"], <<>>)>>),
  Element("suppcounts", "none", None, <<Element("pair", "none", [count |-> "int"], <<>>)>>),
  Element("logfilequalifier", "none", [var |-> "text"], <<>>)}

------------------------------------------------------------------------------
\* Flat manifests
FlatItems == MCPaths \union {<<1, Up, 2>>, <<Up, 1>>, <<1, Up>>}

\* Sources
Characters == {Slash, Star, Quote, Apostrophe, Backslash, Newline, Equals, Token}

\* Blocks of lines.  The long one leads from its first name to B in nine steps:
\* one more is what the reader has, two more is beyond it.
Chain == <<"C1", "C2", "C3", "C4", "C5", "C6", "C7", "C8", "C9", "B">>
LongAlias == [i \in 1..9 |-> DefineLine(Chain[i], <<Chain[i + 1]>>)]
SourceBlocks == {LongAlias, <<CodeLine(<<"C1">>)>>} \union {<<line>> : line \in {
  DefineLine("A", <<"B">>), DefineLine("B", <<"op">>), DefineLine("B", <<"A", "A">>),
  DefineLine("A", <<>>), CodeLine(<<"A">>), CodeLine(<<"B", "op">>)}}

self == [receiver |-> TRUE, annotated |-> FALSE]
typed == [receiver |-> FALSE, annotated |-> TRUE]
untyped == [receiver |-> FALSE, annotated |-> FALSE]
good(name) == Def(name, <<self, typed>>, TRUE)
ModuleNodes ==
  {good("f"), Def("f", <<typed, self>>, TRUE), Def("f", <<untyped>>, FALSE), Def("_f", <<>>, FALSE),
   good("D")}
  \union {Class(class, members) : class \in {"C", "D", "_C"},
            members \in {<<good("f")>>, <<Def("f", <<self, untyped>>, TRUE)>>,
                         <<Def("f", <<self>>, FALSE), good("f"), Def("_f", <<>>, FALSE)>>}}
MCRequiredNames == {<<"f">>, <<"C", "f">>, <<"_f">>}

Limits == {<<FALSE, FALSE>>, <<TRUE, FALSE>>, <<TRUE, TRUE>>}
CheckedFiles ==
  {f \in [found : BOOLEAN, cpp : BOOLEAN, clang : BOOLEAN, readable : BOOLEAN,
          exceeded : [Texts -> Limits]] :
     /\ f.exceeded["source"] = f.exceeded["naive-expand"]
     /\ \/ f.exceeded["clang++"] = <<FALSE, FALSE>>
        \/ ~f.cpp /\ f.exceeded["cpp"] = <<FALSE, FALSE>>}

\* What mypy and ty write: diagnostics of each severity, and other lines.
Severities == {"error", "warning", "note", "other"}

------------------------------------------------------------------------------
MCPyNames == {"f", "_f", "C", "D", "_C"}

MCAlphabet == [
  makefile |-> MakefileLines,
  flat     |-> FlatItems,
  text     |-> Characters,
  lines    |-> SourceBlocks,
  module   |-> ModuleNodes,
  files    |-> CheckedFiles,
  types    |-> Severities]

MCMaxItems == [makefile |-> 4, flat |-> 4, text |-> 6, lines |-> 5, module |-> 4,
               files |-> 2, types |-> 4]

------------------------------------------------------------------------------
(* Properties *)

\* Makefiles!ArtifactsAreTargets of every Makefile: the artifacts of a build
\* (makefile.py:471-520) are the targets that no .PHONY names, wherever it is.
ArtifactsAreTargets == reader = "makefile" => M!ArtifactsAreTargets(document, MakefileSources)

\* Makefiles!EagerIsLazy of every Makefile: what the parser expands at once
\* (makefile.py:406-421) is what make would expand later.
EagerIsLazy == reader = "makefile" => M!EagerIsLazy(document)

\* ValgrindXml!LeaksFailTheCase of every report that check_leaks produces
\* (docs/pipeline/test.md:95).
LeaksFail == reader = "report" => LeaksFailTheCase(document)
==============================================================================
