------------------------------ MODULE Makefiles ------------------------------
(***************************************************************************)
(* src/src/lograder/process/parsers/makefile.py: which files a Makefile    *)
(* promises.  A build with make looks for its artifacts under these names. *)
(*                                                                         *)
(* A word is a sequence of letters.  A text is a sequence of tokens: words,*)
(* references to a variable, calls of a function of make, and the          *)
(* operators of the syntax.  The value of a variable is a sequence of      *)
(* words.  A line says whether a tab starts it and a backslash ends it.    *)
(***************************************************************************)
EXTENDS Naturals, Sequences, SequencesExt, TLC

Percent == "%"
Slash == "/"
Dot == "."

Word(letters) == [word |-> letters]
Ref(name) == [ref |-> name]
Call(function, args) == [call |-> function, args |-> args]
Op(operator) == [op |-> operator]
Line(tab, text, continued) == [tab |-> tab, text |-> text, continued |-> continued]

IsWord(token) == "word" \in DOMAIN token
IsOp(token, ops) == "op" \in DOMAIN token /\ token.op \in ops

\* The place of the first token that is one of ops, one past the end if none.
find(text, ops) ==
  LET at == {i \in DOMAIN text : IsOp(text[i], ops)}
  IN IF at = {} THEN Len(text) + 1 ELSE CHOOSE i \in at : \A j \in at : i <= j
upto(text, ops) == SubSeq(text, 1, find(text, ops) - 1)
after(text, ops) == SubSeq(text, find(text, ops) + 1, Len(text))

------------------------------------------------------------------------------
\* Patterns.  A match is the set of its stem, empty for none.

matches(pattern, word) ==
  LET at == SelectInSeq(pattern, LAMBDA l : l = Percent)
      suffix == SubSeq(pattern, at + 1, Len(pattern))
  IN IF at = 0 THEN (IF word = pattern THEN {<<>>} ELSE {})
     ELSE IF Len(word) < at - 1 + Len(suffix) THEN {}
     ELSE IF ~IsPrefix(SubSeq(pattern, 1, at - 1), word) \/ ~IsSuffix(suffix, word) THEN {}
     ELSE {SubSeq(word, at, Len(word) - Len(suffix))}

substituted(replacement, stem) ==
  FlattenSeq([i \in DOMAIN replacement |->
                IF replacement[i] = Percent THEN stem ELSE <<replacement[i]>>])

------------------------------------------------------------------------------
\* Functions of make, over the words of their arguments.

OfWords(op(_), words) == [i \in DOMAIN words |-> op(words[i])]

patsubst(pattern, replacement, word) ==
  IF matches(pattern, word) = {} THEN word
  ELSE substituted(replacement, CHOOSE stem \in matches(pattern, word) : TRUE)

\* Nothing is found before and after every letter.
replaced(from, to, word) ==
  LET rest[i \in 1..(Len(word) + 1)] ==
        IF i > Len(word) THEN <<>>
        ELSE IF IsPrefix(from, SubSeq(word, i, Len(word)))
          THEN to \o rest[i + Len(from)]
          ELSE <<word[i]>> \o rest[i + 1]
  IN IF from # <<>> THEN rest[1]
     ELSE to \o FlattenSeq([i \in DOMAIN word |-> <<word[i]>> \o to])

lastOf(word, letter) == SelectLastInSeq(word, LAMBDA l : l = letter)
notdir(word) == SubSeq(word, lastOf(word, Slash) + 1, Len(word))
dir(word) ==
  IF lastOf(word, Slash) = 0 THEN <<Dot, Slash>> ELSE SubSeq(word, 1, lastOf(word, Slash))
suffix(word) ==
  LET name == notdir(word) IN
  IF lastOf(name, Dot) \in {0, 1, Len(name)} THEN <<>>
  ELSE SubSeq(name, lastOf(name, Dot), Len(name))
basename(word) == SubSeq(word, 1, Len(word) - Len(suffix(word)))

_eval_ref(name, variables) == IF name \in DOMAIN variables THEN variables[name] ELSE <<>>

\* Only make can know what these are.
OnlyMake == {<<"wildcard">>, <<"shell">>, <<"eval">>, <<"call">>, <<"value">>, <<"origin">>, <<"flavor">>}

\* The name of a function is a word of one letter; a call that lacks an argument
\* returns nothing, and of what one returns the empty words are lost.
_expand_func(func, args, variables) ==
  LET words == args[Len(args)]
      first(i) == IF args[i] = <<>> THEN <<>> ELSE args[i][1]
      chosen(w) == \E i \in DOMAIN args[1] : matches(args[1][i], w) # {}
      or_nothing(ws) == IF ws = <<>> THEN << <<>> >> ELSE ws
      paired == 1..(IF Len(args[1]) < Len(words) THEN Len(args[1]) ELSE Len(words))
      arity == CASE func \in {<<"patsubst">>, <<"subst">>} -> 3
                 [] func \in {<<"addprefix">>, <<"addsuffix">>, <<"filter">>, <<"filter-out">>,
                              <<"join">>} -> 2
                 [] OTHER -> 1
      returned ==
        CASE Len(args) < arity \/ func \in OnlyMake -> <<>>
          [] func = <<"patsubst">> -> OfWords(LAMBDA w : patsubst(first(1), first(2), w), words)
          [] func = <<"subst">> ->
               OfWords(LAMBDA w : replaced(first(1), first(2), w), or_nothing(words))
          [] func = <<"addprefix">> -> OfWords(LAMBDA w : first(1) \o w, words)
          [] func = <<"addsuffix">> -> OfWords(LAMBDA w : w \o first(1), words)
          [] func = <<"notdir">> -> OfWords(notdir, words)
          [] func = <<"dir">> -> OfWords(dir, words)
          [] func = <<"basename">> -> OfWords(basename, words)
          [] func = <<"suffix">> -> OfWords(suffix, words)
          [] func = <<"sort">> -> SetToSeq(Range(words))
          [] func = <<"strip">> -> words
          [] func = <<"filter">> -> SelectSeq(words, chosen)
          [] func = <<"filter-out">> -> SelectSeq(words, LAMBDA w : ~chosen(w))
          [] func = <<"join">> -> [i \in paired |-> args[1][i] \o words[i]]
          \* A function that make does not have is taken for a variable.
          [] OTHER -> _eval_ref(func, variables)
  IN SelectSeq(returned, LAMBDA w : w # <<>>)

\* The words of a text; the arguments of a call hold no calls themselves.
_expand_vars(text, variables) ==
  LET plain(token) ==
        CASE "word" \in DOMAIN token -> <<token.word>>
          [] "ref" \in DOMAIN token -> _eval_ref(token.ref, variables)
          [] OTHER -> <<>>
      words(tokens) == FlattenSeq([i \in DOMAIN tokens |-> plain(tokens[i])])
      value(token) ==
        IF "call" \notin DOMAIN token THEN plain(token)
        ELSE _expand_func(token.call, [i \in DOMAIN token.args |-> words(token.args[i])], variables)
  IN FlattenSeq([i \in DOMAIN text |-> value(text[i])])

------------------------------------------------------------------------------
\* Lines.

\* A line ended by a backslash goes on with the next one.
_join_continuations(lines) ==
  LET add(read, line) ==
        IF read.open
          THEN [open |-> line.continued,
                lines |-> Append(Front(read.lines),
                                 [Last(read.lines) EXCEPT !.text = @ \o line.text])]
          ELSE [open |-> line.continued, lines |-> Append(read.lines, line)]
  IN FoldLeft(add, [open |-> FALSE, lines |-> <<>>], lines).lines

_strip_comment(text) == upto(text, {"#"})

Assignments == {"::=", ":=", "?=", "!=", "+=", "="}

\* The operator a line assigns with, as a set: it follows the name, one word,
\* so no bare colon comes before it.
_try_assignment(text) ==
  {op \in Assignments : /\ Len(text) > 1 /\ IsOp(text[2], {op})
                        /\ IsWord(text[1]) /\ Percent \notin Range(text[1].word)}

------------------------------------------------------------------------------
\* parse_makefile, one logical line at a time.  defining is the variable of the
\* define that is open, as a set.

Directives == {"ifeq", "ifneq", "ifdef", "ifndef", "else", "endif", "include", "-include"}
Phony == <<Dot, "PHONY">>
_SPECIAL_TARGETS == {<<Dot, name>> : name \in {
  "PHONY", "SUFFIXES", "DEFAULT", "PRECIOUS", "INTERMEDIATE", "SECONDARY", "SECONDEXPANSION",
  "DELETE_ON_ERROR", "IGNORE", "LOW_RESOLUTION_TIME", "SILENT", "EXPORT_ALL_VARIABLES",
  "NOTPARALLEL", "ONESHELL", "POSIX"}}

Unread == [variables |-> <<>>, rules |-> <<>>, phony |-> {}, defining |-> {}, body |-> <<>>]

\* The lines of a define are kept as they are written.
verbatim(text) == [i \in DOMAIN text |-> IF IsWord(text[i]) THEN text[i].word ELSE <<"$">>]
Define(read, raw, text) ==
  IF text = <<Op("endef")>>
    THEN [read EXCEPT !.variables = [v \in read.defining |-> read.body] @@ @,
                      !.defining = {}, !.body = <<>>]
    ELSE [read EXCEPT !.body = @ \o verbatim(raw)]

Assign_AppendReplaces(read, name, op, value) ==
  IF op = "?=" /\ name \in DOMAIN read.variables THEN read
  ELSE [read EXCEPT !.variables = (name :> value) @@ @]
Assign(read, name, op, value) ==
  CASE op = "+=" -> [read EXCEPT !.variables = (name :> (_eval_ref(name, @) \o value)) @@ @]
    [] op = "?=" -> [read EXCEPT !.variables = @ @@ (name :> value)]
    [] OTHER -> [read EXCEPT !.variables = (name :> value) @@ @]

Rule_LastPhony(read, targets, prerequisites) ==
  CASE targets = <<>> -> read
    [] targets # <<>> /\ Phony \in Range(targets) -> [read EXCEPT !.phony = Range(prerequisites)]
    [] OTHER -> [read EXCEPT !.rules = Append(@, [targets |-> targets, prerequisites |-> prerequisites])]
Rule(read, targets, prerequisites) ==
  CASE targets = <<>> -> read
    [] targets # <<>> /\ Phony \in Range(targets) ->
         [read EXCEPT !.phony = @ \union Range(prerequisites)]
    [] targets # <<>> /\ Phony \notin Range(targets) ->
         IF targets[1] \in _SPECIAL_TARGETS THEN read
         ELSE [read EXCEPT !.rules =
                 Append(@, [targets |-> targets, prerequisites |-> prerequisites])]

ReadLine(read, line) ==
  LET text == _strip_comment(line.text)
      words(tokens) == _expand_vars(tokens, read.variables)
  IN CASE line.tab \/ text = <<>> -> read
       [] ~line.tab /\ text # <<>> /\ read.defining # {} -> Define(read, line.text, text)
       [] ~line.tab /\ text # <<>> /\ read.defining = {} ->
            CASE IsOp(text[1], {"define"}) -> [read EXCEPT !.defining = {text[2].word}]
              [] IsOp(text[1], Directives) -> read
              [] ~IsOp(text[1], Directives \union {"define"}) ->
                   IF _try_assignment(text) # {}
                     THEN Assign(read, text[1].word, text[2].op,
                                 words(SubSeq(text, 3, Len(text))))
                   ELSE IF find(text, {":", "::"}) > Len(text) THEN read
                   ELSE Rule(read, words(upto(text, {":", "::"})),
                             words(upto(after(text, {":", "::"}), {";"})))

parse_makefile(lines) == FoldLeft(ReadLine, Unread, _join_continuations(lines))

------------------------------------------------------------------------------
\* The artifacts: a name for each target, and the path below the Makefile that
\* it has.  The first target of a name keeps it.

Skipped(parsed, target) ==
  target \in parsed.phony \/ target \in _SPECIAL_TARGETS \/ target[1] = Dot

Candidates(parsed, sources) ==
  LET of(rule, target) ==
        IF Percent \in Range(target)
          THEN FlattenSeq([i \in DOMAIN rule.prerequisites |-> FlattenSeq([s \in DOMAIN sources |->
                 LET prerequisite == rule.prerequisites[i]
                     stems == IF Percent \in Range(prerequisite)
                                THEN matches(prerequisite, sources[s]) ELSE {}
                 IN SetToSeq({substituted(target, stem) : stem \in stems})])])
          ELSE <<target>>
      named(rule, target) ==
        LET paths == of(rule, target) IN
        [i \in DOMAIN paths |-> [path |-> paths[i],
           name |-> IF Percent \in Range(target) THEN paths[i] ELSE notdir(paths[i])]]
      kept(rule) == SelectSeq(rule.targets, LAMBDA t : ~Skipped(parsed, t))
  IN FlattenSeq([r \in DOMAIN parsed.rules |-> FlattenSeq(
       [t \in DOMAIN kept(parsed.rules[r]) |-> named(parsed.rules[r], kept(parsed.rules[r])[t])])])

artifacts_from_makefile(lines, sources) ==
  LET found == Candidates(parse_makefile(lines), sources)
      add(result, c) == result @@ (c.name :> c.path)
  IN FoldLeft(add, <<>>, found)

------------------------------------------------------------------------------
\* What a reader of a Makefile relies on.

\* The logical lines, by where they start: the text each has without its
\* comment, recipes left out.
LogicalLines(lines) ==
  LET starts == {i \in DOMAIN lines : i = 1 \/ ~lines[i - 1].continued}
      past(i) == {j \in starts : j > i} \union {Len(lines) + 1}
      end(i) == CHOOSE j \in past(i) : \A k \in past(i) : j <= k
      text(i) == FlattenSeq([k \in 1..(end(i) - i) |-> lines[i + k - 1].text])
  IN [i \in {j \in starts : ~lines[j].tab} |-> _strip_comment(text(i))]

Uses(lines, ops) ==
  \E i \in DOMAIN lines : \E k \in DOMAIN lines[i].text : IsOp(lines[i].text[k], ops)
UsesVariables(lines) ==
  \E i \in DOMAIN lines : \E k \in DOMAIN lines[i].text :
    DOMAIN lines[i].text[k] \intersect {"ref", "call"} # {}

\* The stems that make a pattern the word, by trying every part of the word.
StemsOf(pattern, word) ==
  LET at == CHOOSE i \in DOMAIN pattern : pattern[i] = Percent /\ \A j \in 1..(i - 1) : pattern[j] # Percent
  IN {stem \in SubSeqs(word) :
        word = SubSeq(pattern, 1, at - 1) \o stem \o SubSeq(pattern, at + 1, Len(pattern))}

\* The names of the artifacts of a Makefile without variables are its targets,
\* those of pattern rules made from each source, but for what is phony or
\* special: .PHONY may come before or after the targets it names, once or often,
\* and no order of the lines, no recipe, comment or continuation adds or hides a
\* name.  No target but a special one, which has a rule to itself, begins with a
\* dot here: the code takes it for no artifact, and its documentation does not
\* say so.
ArtifactsAreTargets(lines, sources) ==
  LET rules == {text \in Range(LogicalLines(lines)) : find(text, {":", "::"}) <= Len(text)}
      heads(text) == {t.word : t \in Range(upto(text, {":", "::"}))}
      tails(text) == {t.word : t \in Range(upto(after(text, {":", "::"}), {";"}))}
      special(text) == heads(text) \subseteq _SPECIAL_TARGETS
      phony == UNION {tails(text) : text \in {r \in rules : Phony \in heads(r)}}
      names(text, target) ==
        IF Percent \notin Range(target) THEN {notdir(target)}
        ELSE UNION {{substituted(target, stem) : stem \in StemsOf(p, s)} :
                      p \in {q \in tails(text) : Percent \in Range(q)}, s \in Range(sources)}
  IN /\ ~UsesVariables(lines) /\ ~Uses(lines, Assignments \union Directives \union {"define"})
     /\ \A text \in rules : special(text) \/ \A target \in heads(text) : target[1] # Dot
     => DOMAIN artifacts_from_makefile(lines, sources) =
          UNION {UNION {names(text, t) : t \in heads(text) \ phony} :
                   text \in {r \in rules : ~special(r)}}

\* make expands a variable when it is used, the parser when it is assigned: the
\* values agree in a Makefile that assigns no variable again after a value that
\* uses it.
EagerIsLazy(lines) ==
  LET text == LogicalLines(lines)
      assigns == {i \in DOMAIN text : text[i] # <<>> /\ _try_assignment(text[i]) # {}}
      name(i) == text[i][1].word
      op(i) == text[i][2].op
      value(i) == SubSeq(text[i], 3, Len(text[i]))
      refs(tokens) == {t.ref : t \in {u \in Range(tokens) : "ref" \in DOMAIN u}}
      used(i) == refs(value(i)) \union
        UNION {{t.call} \union UNION {refs(arg) : arg \in Range(t.args)} :
                 t \in {u \in Range(value(i)) : "call" \in DOMAIN u}}
      names == {name(i) : i \in assigns}
      sets(i) == op(i) # "?=" \/ \A j \in assigns : j < i => name(j) # name(i)
      raw[v \in names, n \in 0..Len(lines)] ==
        IF n = 0 THEN <<>>
        ELSE IF n \notin assigns THEN raw[v, n - 1]
        ELSE IF name(n) # v \/ ~sets(n) THEN raw[v, n - 1]
        ELSE IF op(n) = "+=" THEN raw[v, n - 1] \o value(n) ELSE value(n)
      lazily[n \in 0..Len(lines)] ==
        [v \in names |-> IF n = 0 THEN <<>> ELSE _expand_vars(raw[v, Len(lines)], lazily[n - 1])]
      settled == \A i, j \in assigns : name(j) \in used(i) => j < i
  IN settled /\ ~Uses(lines, {"define"}) => parse_makefile(lines).variables = lazily[Len(lines)]
==============================================================================
