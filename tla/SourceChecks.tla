---------------------------- MODULE SourceChecks -----------------------------
(***************************************************************************)
(* The static checks of src/src/lograder/pipeline/check/source: what they  *)
(* read in the files of a submission, the packets they yield, and what a   *)
(* CleanRunScorer, which their documentation asks for, makes of these.     *)
(*                                                                         *)
(* RawSourceCheck reads characters, SourceCheck without a preprocessor     *)
(* reads lines of names, PythonAnnotationCheck the definitions of a        *)
(* module.  Each has one token, alias or function its question is about.   *)
(***************************************************************************)
EXTENDS Naturals, Sequences, SequencesExt, Scoring

------------------------------------------------------------------------------
\* RawSourceCheck: regular expressions over the text, one after another.
\* Token is the forbidden token as it is written, a word.

Slash == "/"
Star == "*"
Quote == "\""
Apostrophe == "'"
Backslash == "\\"
Newline == "nl"
Equals == "="
Token == "T"

isAt(text, i, character) == i \in DOMAIN text /\ text[i] = character
pair(text, i, first, second) == isAt(text, i, first) /\ isAt(text, i + 1, second)
isToken(text, i) == isAt(text, i, Token) /\ ~isAt(text, i - 1, Token) /\ ~isAt(text, i + 1, Token)

\* re.sub: leftmost matches, none overlapping.  end(i) is where the match at i
\* ends, 0 when there is none.
sub(text, end(_), replacement) ==
  LET rest[i \in 1..(Len(text) + 2)] ==
        IF i > Len(text) THEN <<>>
        ELSE IF end(i) > 0 THEN replacement \o rest[end(i)]
        ELSE <<text[i]>> \o rest[i + 1]
  IN rest[1]

firstFrom(text, i, Test(_)) ==
  LET there == {j \in i..Len(text) : Test(j)} IN
  IF there = {} THEN 0 ELSE CHOOSE j \in there : \A k \in there : j <= k

_LINE_COMMENT_RE(text, i) ==
  LET newline == firstFrom(text, i, LAMBDA j : text[j] = Newline) IN
  IF ~pair(text, i, Slash, Slash) THEN 0
  ELSE IF newline = 0 THEN Len(text) + 1 ELSE newline
_BLOCK_COMMENT_RE(text, i) ==
  LET close == firstFrom(text, i + 2, LAMBDA j : pair(text, j, Star, Slash)) IN
  IF pair(text, i, Slash, Star) /\ close > 0 THEN close + 2 ELSE 0
LITERAL_RE_NoEscape(text, i, quote) ==
  LET close == firstFrom(text, i + 1, LAMBDA j : text[j] = quote)
  IN IF isAt(text, i, quote) /\ close > 0 THEN close + 1 ELSE 0
LITERAL_RE(text, i, quote) ==
  LET past[j \in 1..(Len(text) + 2)] ==
        IF j > Len(text) THEN 0
        ELSE IF text[j] = quote THEN j + 1
        ELSE IF text[j] # Backslash THEN past[j + 1]
        ELSE IF j = Len(text) \/ isAt(text, j + 1, Newline) THEN 0 ELSE past[j + 2]
  IN IF isAt(text, i, quote) THEN past[i + 1] ELSE 0
_DELETE_MEMBER_RE(text, i) ==
  LET next == firstFrom(text, i + 1, LAMBDA j : text[j] # Newline) IN
  IF isAt(text, i, Equals) /\ next > 0
    THEN (IF isAt(text, next, Token) /\ ~isAt(text, next + 1, Token) THEN next + 1 ELSE 0)
    ELSE 0

_strip_cpp_source(text) ==
  LET lines == sub(text, LAMBDA i : _LINE_COMMENT_RE(text, i), <<>>)
      blocks == sub(lines, LAMBDA i : _BLOCK_COMMENT_RE(lines, i), <<>>)
      strings == sub(blocks, LAMBDA i : LITERAL_RE(blocks, i, Quote), <<Quote, Quote>>)
      chars == sub(strings, LAMBDA i : LITERAL_RE(strings, i, Apostrophe),
                   <<Apostrophe, Apostrophe>>)
  IN sub(chars, LAMBDA i : _DELETE_MEMBER_RE(chars, i), <<Equals>>)

count(text) ==
  LET stripped == _strip_cpp_source(text)
  IN Cardinality({i \in DOMAIN stripped : isToken(stripped, i)})

------------------------------------------------------------------------------
\* SourceCheck of a C file when neither cpp nor clang++ preprocesses it: lines
\* that define a name as a sequence of names, and lines of names.

DefineLine(name, body) == [define |-> name, body |-> body]
CodeLine(names) == [code |-> names]
isDefine(line) == "define" \in DOMAIN line

Rounds == 10

\* The last definition of a name counts, before the definition as after it.
Defines(lines) ==
  LET names == {line.define : line \in {l \in Range(lines) : isDefine(l)}}
      last(name) == SelectLastInSeq(lines, LAMBDA l : isDefine(l) /\ l.define = name)
  IN [name \in names |-> lines[last(name)].body]

_naive_expand(lines) ==
  LET defines == Defines(lines)
      once(text) == FlattenSeq([i \in DOMAIN text |->
                      IF text[i] \in DOMAIN defines THEN defines[text[i]] ELSE <<text[i]>>])
      kept == SelectSeq(lines, LAMBDA l : ~isDefine(l))
      text == FlattenSeq([i \in DOMAIN kept |-> kept[i].code])
      expanded[n \in 0..Rounds] == IF n = 0 THEN text ELSE once(expanded[n - 1])
  IN expanded[Rounds]

\* Which text _preprocess answers by how the preprocessors end: one that ends
\* with an exit code, an Err or an exception counts as one that is not there.
_preprocess(file) ==
  CASE file.cpp -> {"cpp"}
    [] ~file.cpp /\ file.clang -> {"clang++"}
    [] ~file.cpp /\ ~file.clang -> IF file.readable THEN {"naive-expand"} ELSE {}

\* The includes are read in the file itself, preprocessed or not.
analyze_cpp_Preprocessed(file) == _preprocess(file)
analyze_cpp(file) == IF file.readable THEN _preprocess(file) ELSE {}

\* Python is read as it is.
analyze_python(file) == IF file.readable THEN {"source"} ELSE {}

\* C is read as C++ is.
Languages == {"cpp", "python"}
analyze(file, language) == IF language = "python" THEN analyze_python(file) ELSE analyze_cpp(file)

------------------------------------------------------------------------------
\* PythonAnnotationCheck: the functions of a module, and the methods of its
\* classes.  A parameter says whether it is self or cls, and whether it is
\* annotated.

Def(name, params, returns) == [def |-> name, params |-> params, returns |-> returns]
Class(name, members) == [class |-> name, members |-> members]
isDef(node) == "def" \in DOMAIN node
\* Private names start with an underscore; __init__, which is graded as a method
\* though not as a function, is a public name here.
Private == {"_f", "_C"}

Method(class, name) == <<class, name>>
Function(name) == <<name>>

\* A dict: an assignment replaces what a key has, setdefault keeps it.
put(defs, key, fn) == [k \in DOMAIN defs \union {key} |-> IF k = key THEN fn ELSE defs[k]]
setdefault(defs, key, fn) == IF key \in DOMAIN defs THEN defs ELSE put(defs, key, fn)

\* The bare name of a method stays with a function of the module, or with the
\* first method of that name.
EnterMethod_First(defs, class, member) ==
  setdefault(setdefault(defs, Method(class, member.def), member), Function(member.def), member)
EnterMethod(defs, class, member) ==
  setdefault(put(defs, Method(class, member.def), member), Function(member.def), member)

EnterMethods(defs, class, members) ==
  LET upTo[k \in 0..Len(members)] ==
        IF k = 0 THEN defs ELSE EnterMethod(upTo[k - 1], class, members[k])
  IN upTo[Len(members)]

_function_defs(tree) ==
  LET upTo[i \in 0..Len(tree)] ==
        IF i = 0 THEN [key \in {} |-> {}]
        ELSE IF isDef(tree[i]) THEN put(upTo[i - 1], Function(tree[i].def), tree[i])
        ELSE EnterMethods(upTo[i - 1], tree[i].class, tree[i].members)
  IN upTo[Len(tree)]

\* The public functions of the module and those of its public classes.
publicMethods(node) ==
  LET upTo[k \in 0..Len(node.members)] ==
        IF k = 0 THEN <<>>
        ELSE IF node.members[k].def \in Private THEN upTo[k - 1]
        ELSE Append(upTo[k - 1], Method(node.class, node.members[k].def))
  IN IF node.class \in Private THEN <<>> ELSE upTo[Len(node.members)]

_default_targets(tree) ==
  LET upTo[i \in 0..Len(tree)] ==
        IF i = 0 THEN <<>>
        ELSE upTo[i - 1] \o (IF ~isDef(tree[i]) THEN publicMethods(tree[i])
                             ELSE IF tree[i].def \in Private THEN <<>>
                             ELSE <<Function(tree[i].def)>>)
  IN upTo[Len(tree)]

_missing_annotations(fn) ==
  Cardinality({i \in DOMAIN fn.params : ~fn.params[i].annotated /\ ~(i = 1 /\ fn.params[i].receiver)})
    + (IF fn.returns THEN 0 ELSE 1)

------------------------------------------------------------------------------
\* The steps.  A file is there or not, and says of each limit of the check
\* whether the text it is judged by exceeds it.

Violation == [what |-> "ErrDisplay"]
Data == [what |-> "OkDisplay"]

\* One packet for each limit that is exceeded, or one Ok.
FilePackets(exceeded) ==
  LET over == Cardinality({k \in DOMAIN exceeded : exceeded[k]})
  IN IF over > 0 THEN [k \in 1..over |-> Violation] ELSE <<Data>>

\* The packets of a call and whether it returns Ok, file by file: the first that
\* is missing, or cannot be read, ends it.
CheckEach(files, Reads(_), Exceeded(_)) ==
  LET upTo[i \in 0..Len(files)] ==
        IF i = 0 THEN [packets |-> <<>>, ok |-> TRUE]
        ELSE IF ~upTo[i - 1].ok \/ ~files[i].found \/ ~Reads(files[i])
          THEN [upTo[i - 1] EXCEPT !.ok = FALSE]
        ELSE [upTo[i - 1] EXCEPT !.packets = @ \o FilePackets(Exceeded(files[i]))]
  IN upTo[Len(files)]

One(exceeded) ==
  CheckEach(<<[found |-> TRUE]>>, LAMBDA f : TRUE, LAMBDA f : exceeded)

RawSourceCheck(text, max_count) == One(<<count(text) > max_count>>)

\* A file exceeds the limits by the text that is found in it.
SourceCheck(files, language) ==
  CheckEach(files, LAMBDA f : analyze(f, language) # {},
            LAMBDA f : f.exceeded[CHOOSE text \in analyze(f, language) : TRUE])

Occurrences(names, name) == Len(SelectSeq(names, LAMBDA n : n = name))

PythonAnnotationCheck(tree, required) ==
  LET defs == _function_defs(tree)
      bad(name) == IF name \in DOMAIN defs THEN _missing_annotations(defs[name]) > 0 ELSE TRUE
  IN One([i \in DOMAIN required |-> bad(required[i])])

\* MypyCheck and TyCheck: every file is there, the program runs, and each line
\* of its output that is an error is a violation.  How it exits is not read.
TypeCheck(there, ran, output) ==
  IF ~there \/ ~ran THEN [packets |-> <<>>, ok |-> FALSE]
  ELSE [packets |-> FilePackets([i \in DOMAIN output |-> output[i] = "error"]), ok |-> TRUE]

\* Whether the scorer documented for these steps pays for a call.
Pays(call) ==
  LET cfg == CleanRunScorer(1, 0, TRUE, 0)
      seen[i \in 0..Len(call.packets)] ==
        IF i = 0 THEN Fresh ELSE on_packet(cfg, seen[i - 1], call.packets[i])
  IN contribution(cfg, on_complete(cfg, seen[Len(call.packets)], call.ok)).earned = 1

------------------------------------------------------------------------------
(***************************************************************************)
(* C++ as it is read: which region each character is in, code, a comment   *)
(* or a literal, where the region began, and whether a backslash that is   *)
(* not itself escaped is there.                                            *)
(***************************************************************************)
Regions(text) ==
  LET starts(i) ==
        CASE pair(text, i, Slash, Slash) -> "line"
          [] pair(text, i, Slash, Star) -> "block"
          [] isAt(text, i, Quote) -> "string"
          [] isAt(text, i, Apostrophe) -> "char"
          [] OTHER -> "code"
      closed(r, i) ==
        CASE r.region = "code" -> TRUE
          [] r.region = "line" -> isAt(text, i, Newline)
          [] r.region = "block" -> pair(text, i - 2, Star, Slash) /\ i - 2 >= r.from + 2
          [] r.region \in {"string", "char"} ->
               i - 1 > r.from /\ text[i - 1] = text[r.from] /\ ~r.escaped
      escapes(r, i) == isAt(text, i, Backslash) /\ ~r.escapes
      read[i \in 0..Len(text)] ==
        IF i = 0 THEN [region |-> "code", from |-> 0, escapes |-> FALSE, escaped |-> FALSE]
        ELSE IF closed(read[i - 1], i)
          THEN [region |-> starts(i), from |-> i, escapes |-> FALSE, escaped |-> FALSE]
          ELSE [read[i - 1] EXCEPT !.escapes = escapes(read[i - 1], i),
                                   !.escaped = read[i - 1].escapes]
  IN read

Literals == {"string", "char"}

\* Literals and comments end, a literal on its line, and a backslash is in one.
WellFormed(text) ==
  LET r == Regions(text)
      open == r[Len(text)].region \in Literals \union {"block"}
      ends == Regions(Append(text, Newline))[Len(text) + 1].region = "code"
  IN /\ open => ends
     /\ \A i \in DOMAIN text : /\ r[i].region \in Literals => text[i] # Newline
                               /\ text[i] = Backslash => r[i].region \in Literals

\* The uses of the token in the code, "= delete" apart.
Uses(text) ==
  LET r == Regions(text)
      code(i) == i \in DOMAIN text /\ r[i].region = "code"
      before(i) == {j \in 1..(i - 1) : r[j].region \notin {"line", "block"} /\ text[j] # Newline}
      defaulted(i) == before(i) # {} /\
        LET j == CHOOSE k \in before(i) : \A l \in before(i) : l <= k IN code(j) /\ text[j] = Equals
  IN {i \in DOMAIN text : code(i) /\ isToken(text, i) /\ ~defaulted(i)}

\* No literal and no block comment holds what looks like the start of a comment,
\* no character literal a quote, and no comment joins two words.
IsPlain(text) ==
  LET r == Regions(text)
      inside(i, regions) == r[i].region \in regions /\ r[i].from < i
  IN \A i \in DOMAIN text :
       /\ pair(text, i, Slash, Slash) => ~inside(i, Literals \union {"block"})
       /\ pair(text, i, Slash, Star) => ~inside(i, Literals)
       /\ text[i] = Quote => ~inside(i, {"char"})
       /\ r[i].region = "block" /\ r[i].from > 1 /\ isAt(text, r[i].from - 1, Token) =>
            ~(isAt(text, i + 1, Token) /\ r[i + 1].region = "code")

\* In plain text the five substitutions see what one reading of the text sees:
\* the check pays exactly when the code uses the token no more than allowed.
TokensAreCounted(text) ==
  WellFormed(text) /\ IsPlain(text) =>
    \A max \in 0..1 : Pays(RawSourceCheck(text, max)) <=> Cardinality(Uses(text)) <= max

\* C++ at line i: a name stands for what the last definition above says.
InForce(lines, i) ==
  LET above(name) == {j \in 1..(i - 1) : isDefine(lines[j]) /\ lines[j].define = name}
  IN [name \in {lines[j].define : j \in {k \in 1..(i - 1) : isDefine(lines[k])}} |->
        lines[Max(above(name))].body]

\* Whether a text is without definitions after so many steps from a name to what
\* it stands for, and how often it uses a name then.
ExpandsWithin(steps, text, meaning) ==
  LET after[n \in 0..steps] ==
        IF n = 0 THEN Range(text)
        ELSE UNION {Range(meaning[w]) : w \in after[n - 1] \intersect DOMAIN meaning}
  IN after[steps] \intersect DOMAIN meaning = {}

UsesWithin(steps, text, meaning, name) ==
  LET words == Range(text) \union UNION {Range(body) : body \in Range(meaning)}
      over(uses, names) == FoldSeq(+, 0, [k \in DOMAIN names |-> uses[names[k]]])
      uses[n \in 0..steps] ==
        [w \in words |-> IF w \notin DOMAIN meaning THEN (IF w = name THEN 1 ELSE 0)
                         ELSE IF n = 0 THEN 0 ELSE over(uses[n - 1], meaning[w])]
  IN over(uses[steps], text)

\* Where the definitions come before the code, in whatever order and however
\* often a name is defined again, a name counts in the expansion as what C++
\* makes of it in each line, as far as ten steps lead to that: a longer chain,
\* a circle too, is left where it is.
AliasesAreFollowed(lines, name) ==
  LET code == {i \in DOMAIN lines : ~isDefine(lines[i])}
      uses(i) == UsesWithin(Rounds, lines[i].code, InForce(lines, i), name)
  IN /\ \A i \in code, j \in DOMAIN lines : isDefine(lines[j]) => j < i
     /\ \A i \in code : ExpandsWithin(Rounds, lines[i].code, InForce(lines, i))
     => Occurrences(_naive_expand(lines), name) =
          FoldSeq(+, 0, [i \in DOMAIN lines |-> IF i \in code THEN uses(i) ELSE 0])

\* What Python calls under a required name once the module has run: the last
\* definition of a name is the one that holds, of a function or of a class.
NameOf(node) == IF isDef(node) THEN node.def ELSE node.class

Bound(tree, name) ==
  LET last == SelectLastInSeq(tree, LAMBDA node : NameOf(node) = name[1])
      member == SelectLastInSeq(tree[last].members, LAMBDA m : m.def = name[2])
  IN IF last = 0 \/ isDef(tree[last]) # (Len(name) = 1) THEN {}
     ELSE IF isDef(tree[last]) THEN {tree[last]}
     ELSE IF member = 0 THEN {} ELSE {tree[last].members[member]}

\* No other definition of the module has the name of a class.
NamesAreApart(tree) ==
  \A i, j \in DOMAIN tree : ~isDef(tree[i]) /\ NameOf(tree[j]) = tree[i].class => i = j

FullyAnnotated(fn) ==
  /\ fn.returns
  /\ \A i \in DOMAIN fn.params : fn.params[i].annotated \/ (i = 1 /\ fn.params[i].receiver)

\* In a module in which a class shares its name with no other definition, the
\* check of a name Python can call pays exactly when the function it calls is
\* fully annotated, however often functions and methods are defined again; and
\* when none is named, when all that are public are.  Of the bare name of a
\* method, under which Python finds nothing, it says nothing.
GradedIsTheOneThatRuns(tree, names) ==
  LET good(name) == \A fn \in Bound(tree, name) : FullyAnnotated(fn)
  IN NamesAreApart(tree) =>
     /\ \A name \in names :
          Bound(tree, name) # {} => (Pays(PythonAnnotationCheck(tree, <<name>>)) <=> good(name))
     /\ Pays(PythonAnnotationCheck(tree, _default_targets(tree))) <=>
          \A name \in Range(_default_targets(tree)) : good(name)

\* A CleanRunScorer that asks for an Ok return pays a source check exactly when
\* every file is there and can be read and the text of none exceeds a limit: of
\* C++ a preprocessor's or the expansion that stands in for one, of Python the
\* file's own.
CleanRunIsClean(files) ==
  \A language \in Languages :
    Pays(SourceCheck(files, language)) <=>
      \A i \in DOMAIN files :
        LET read == CASE language = "python" -> "source"
                      [] language = "cpp" /\ files[i].cpp -> "cpp"
                      [] language = "cpp" /\ files[i].clang /\ ~files[i].cpp -> "clang++"
                      [] OTHER -> "naive-expand"
        IN /\ files[i].found /\ files[i].readable
           /\ \A k \in DOMAIN files[i].exceeded[read] : ~files[i].exceeded[read][k]

\* It pays a type check exactly when the files are there, the program ran and
\* no line it wrote, in any place, is an error.
TypeErrorsAreFound(output) ==
  \A there, ran \in BOOLEAN :
    Pays(TypeCheck(there, ran, output)) <=> there /\ ran /\ "error" \notin Range(output)
==============================================================================
