------------------------------ MODULE Documents ------------------------------
(***************************************************************************)
(* What the readers of valgrind reports, flat manifests and sources        *)
(* conclude from any document.  A document grows item by item from         *)
(* nothing, and every prefix is a document too; a valgrind report, which   *)
(* is long before it is a report, is edited: an element is put in, taken   *)
(* out or swapped with the next.                                           *)
(***************************************************************************)
EXTENDS Manifests, ValgrindXml, SourceChecks

CONSTANTS
  Alphabet,        \* for each reader, the items of its documents
  MaxItems,        \* and how long these grow
  Reports,         \* the valgrind reports that are edited
  ReportElements,  \* the elements that are put into them
  MaxEdits,        \* how often a report is edited
  PyNames,         \* the names of Python's functions and classes
  RequiredNames    \* those an annotation check asks for

Readers == {"makefile", "flat", "text", "lines", "module", "files", "types"}

\* The files of a SourceCheck, and the limits that each text of one exceeds.
Texts == {"cpp", "clang++", "naive-expand", "source"}
SourceFiles == [found : BOOLEAN, cpp : BOOLEAN, clang : BOOLEAN, readable : BOOLEAN,
                exceeded : [Texts -> Seq(BOOLEAN)]]

\* The definitions of a Python module, and the names under which Python finds
\* functions.
FunctionDefs(words) ==
  [def : words, params : Seq([receiver : BOOLEAN, annotated : BOOLEAN]), returns : BOOLEAN]
ClassDefs(words) == [class : words, members : Seq(FunctionDefs(words))]
Keys(words) == {Function(w) : w \in words} \union {Method(c, w) : c, w \in words}

\* The elements of reports.
XmlElements == ReportElements \union UNION {Range(report) : report \in Reports}

\* A path of a flat list that stays below the root names one of the paths.
FlatPath(path) ==
  /\ path \in Seq(Nat)
  /\ normpath(path) # Root /\ Up \notin Range(normpath(path)) => normpath(path) \in Paths

ASSUME DocumentsAssumption ==
  /\ MaxEdits \in Nat /\ MaxItems \in [Readers -> Nat]
  /\ Reports \subseteq Seq(XmlElements)
  /\ \A path \in Alphabet["flat"] : FlatPath(path)
  /\ Alphabet["files"] \subseteq SourceFiles
  /\ Alphabet["module"] \subseteq FunctionDefs(PyNames) \union ClassDefs(PyNames)
  /\ RequiredNames \subseteq Keys(PyNames)

VARIABLES reader, document, edits
pages == <<reader, document, edits>>

Open ==
  /\ reader \in Readers \union {"report"}
  /\ document \in IF reader = "report" THEN Reports ELSE {<<>>}
  /\ edits = 0

Grow ==
  /\ reader # "report"
  /\ Len(document) < MaxItems[reader]
  /\ \E item \in Alphabet[reader] : document' = Append(document, item)
  /\ UNCHANGED <<reader, edits>>

Edit ==
  /\ reader = "report"
  /\ edits < MaxEdits
  /\ \/ \E i \in 1..(Len(document) + 1), e \in ReportElements : document' = InsertAt(document, i, e)
     \/ \E i \in 1..Len(document) : document' = RemoveAt(document, i)
     \/ \E i \in 1..(Len(document) - 1) :
          document' = [document EXCEPT ![i] = document[i + 1], ![i + 1] = document[i]]
  /\ edits' = edits + 1
  /\ UNCHANGED reader

Turn == Grow \/ Edit

Reading == Open /\ [][Turn]_pages

------------------------------------------------------------------------------
(* Properties *)

\* What a document is made of: what its reader's alphabet, or a report, holds.
DocumentInv ==
  /\ reader \in Readers \union {"report"}
  /\ reader = "report" => document \in Seq(XmlElements)
  /\ reader # "report" => document \in Seq(Alphabet[reader])

\* Of every report: no order of its elements hides one or loses an event
\* (valgrind.py:663-821).
ReportsAreWhole == reader = "report" => ReportIsItsElements(document)

\* Of every flat list: it means its files, and what it describes compares as a
\* structure (parcels.py:301-516).
FlatListsMeanFiles == reader = "flat" => ManifestsMeanTheirFiles(document)

\* Of every module whose classes have names of their own: PythonAnnotationCheck
\* pays for a name that Python can call exactly when what it calls is annotated
\* (python_annotation_check.py:49-84).
GradedIsCalled == reader = "module" => GradedIsTheOneThatRuns(document, RequiredNames)

\* Of every submission and every output of mypy or ty: the documented scorer
\* pays a check exactly when all was read and nothing is over its limit
\* (source_check.py:279-356, mypy_check.py:146-226).
PaidIsClean ==
  /\ reader = "files" => CleanRunIsClean(document)
  /\ reader = "types" => TypeErrorsAreFound(document)

\* Of every text in which no literal or comment looks as if it began another, and
\* of every source that defines its aliases first and needs no more than ten
\* rounds of a reader that has no preprocessor: as many uses of a token are found
\* as C++ has, under whatever name (raw_source_check.py:88-102, _ast.py:316-336).
UsesAreCounted ==
  /\ reader = "text" => TokensAreCounted(document)
  /\ reader = "lines" => AliasesAreFollowed(FlattenSeq(document), "op")
==============================================================================
