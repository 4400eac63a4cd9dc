------------------------------ MODULE Manifests ------------------------------
(***************************************************************************)
(* Manifest of src/src/lograder/pipeline/types/parcels.py: the shape of a  *)
(* directory tree, read from a directory or from a flat list of paths, and *)
(* the comparisons the checks of a submission are made of.                 *)
(*                                                                         *)
(* A path is the sequence of its names.  A name is a number: its place in  *)
(* the order the code sorts names by.  A structure gives every path below  *)
(* its root what lies there; two entries of one name in one directory,     *)
(* which only a TOML file can hold, are left out.                          *)
(***************************************************************************)
EXTENDS Naturals, SequencesExt

CONSTANTS
  Paths,       \* the paths there are, as sequences of positive names
  Directories  \* those of them that may be directories

ASSUME PathsAssumption ==
  /\ IsFiniteSet(Paths)
  /\ Paths \subseteq Seq(Nat \ {0}) \ {<<>>}
  /\ \A p \in Paths : Len(p) > 1 => Front(p) \in Directories
  /\ Directories \subseteq Paths

Up == 0        \* the component ".." of a path as written
Root == <<>>

Kinds == {"absent", "file", "dir"}

IsDirectory(mapping, d) == d = Root \/ mapping[d] = "dir"
Parents(p) == {SubSeq(p, 1, i) : i \in 1..(Len(p) - 1)}
Children(d) == {p \in Paths : Front(p) = d}

IsMapping(mapping) ==
  \A p \in Paths :
    /\ mapping[p] = "dir" => p \in Directories
    /\ mapping[p] # "absent" => \A d \in Parents(p) : mapping[d] = "dir"

Mappings == {m \in [Paths -> Kinds] : IsMapping(m)}

\* _files of the manifest: the files of a structure, directories before
\* files at each level and by name within.  Two files part where their names
\* first differ: none lies below the other.
parting(p, q) ==
  CHOOSE k \in 1..Len(p) : k <= Len(q) /\ p[k] # q[k] /\ \A i \in 1..(k - 1) : p[i] = q[i]

Before(mapping, p, q) ==
  LET i == parting(p, q)
      dir(path) == IsDirectory(mapping, SubSeq(path, 1, i))
  IN IF dir(p) # dir(q) THEN dir(p) ELSE p[i] < q[i]

file_paths(mapping) == {p \in Paths : mapping[p] = "file"}
_explore_directory(mapping) ==
  LET files == file_paths(mapping)
      rank == [p \in files |-> Cardinality({q \in files \ {p} : Before(mapping, q, p)})]
  IN [i \in 1..Cardinality(files) |-> CHOOSE p \in files : rank[p] = i - 1]

------------------------------------------------------------------------------
\* Comparison, one directory at a time.

compare(expected, received, d) ==
  LET here(e, r) == {p \in Children(d) : expected[p] \in e /\ received[p] \in r}
      some == {"file", "dir"}
  IN [missing |-> here(some, {"absent"}), extra |-> here({"absent"}, some),
      should_be_directory |-> here({"dir"}, {"file"}), should_be_file |-> here({"file"}, {"dir"})]

_mapping_cmp(expected, received, fail_attrs) ==
  \A d \in Directories \union {Root} :
    IsDirectory(expected, d) /\ IsDirectory(received, d) =>
      \A attr \in fail_attrs : compare(expected, received, d)[attr] = {}

_mapping_eq(expected, received) ==
  _mapping_cmp(expected, received, {"missing", "extra", "should_be_directory", "should_be_file"})

_mapping_le(expected, received) ==
  _mapping_cmp(expected, received, {"missing", "should_be_directory", "should_be_file"})

\* file in manifest: every component is there, and all but the last are
\* directories.  The last may be one too.
contains(mapping, p) == mapping[p] # "absent" /\ \A d \in Parents(p) : mapping[d] = "dir"

------------------------------------------------------------------------------
\* from_flat: a trie the normalised paths are put into one by one.

Nothing == [p \in Paths |-> "absent"]

\* os.path.normpath of a relative path.
normpath(raw) ==
  LET step(path, part) ==
        IF part = Up /\ path # <<>> /\ Last(path) # Up THEN Front(path) ELSE Append(path, part)
  IN FoldLeft(step, <<>>, raw)

insert_file_Careless(node, rel) ==
  IF \E d \in Parents(rel) : node.mapping[d] = "file"
    THEN [node EXCEPT !.raised = TRUE]
    ELSE [node EXCEPT !.mapping = [p \in Paths |-> IF p = rel THEN "file" ELSE
                                      IF p \in Parents(rel) THEN "dir" ELSE node.mapping[p]]]
insert_file(node, rel) ==
  IF \/ \E d \in Parents(rel) : node.mapping[d] = "file"
     \/ node.mapping[rel] = "dir"
    THEN [node EXCEPT !.raised = TRUE]
    ELSE [node EXCEPT !.mapping = [p \in Paths |-> IF p = rel THEN "file" ELSE
                                      IF p \in Parents(rel) THEN "dir" ELSE node.mapping[p]]]

\* A path that is the root or leaves it raises; what follows is not read.
add_path(node, rel) ==
  IF node.raised \/ rel = Root \/ Up \in Range(rel)
    THEN [node EXCEPT !.raised = TRUE]
    ELSE insert_file(node, rel)

from_flat(flat) ==
  LET node[i \in 0..Len(flat)] ==
        IF i = 0 THEN [raised |-> FALSE, mapping |-> Nothing]
                 ELSE add_path(node[i - 1], normpath(flat[i]))
  IN node[Len(flat)]

------------------------------------------------------------------------------
\* What a reader of a manifest relies on.

\* A flat list is refused exactly when one of its paths leaves the root, is
\* the root or lies below another of its paths, and otherwise the manifest
\* holds its files and the directories above them: no order of the list and no
\* repetition changes either.
FlatMeansItsFiles(flat) ==
  LET files == {normpath(flat[i]) : i \in DOMAIN flat}
      above == UNION {Parents(f) : f \in files}
      sound == /\ Root \notin files /\ \A f \in files : Up \notin Range(f)
               /\ files \intersect above = {}
      result == from_flat(flat)
  IN /\ result.raised <=> ~sound
     /\ sound => result.mapping = [p \in Paths |-> IF p \in files THEN "file" ELSE
                                                  IF p \in above THEN "dir" ELSE "absent"]

\* == is equality of structures, <= orders them, and an expected structure is
\* below a received one exactly when each of its files is a file there and each
\* of its directories a directory: the comparison directory by directory stops
\* early nowhere.
ComparisonIsContainment(a, b) ==
  /\ _mapping_eq(a, b) <=> a = b
  /\ _mapping_le(a, b) <=> \A p \in Paths : a[p] # "absent" => b[p] = a[p]

\* A flat list means its files, and what it describes compares, on either side,
\* as the structure it is.
ManifestsMeanTheirFiles(flat) ==
  LET described == from_flat(flat) IN
  /\ FlatMeansItsFiles(flat)
  /\ ~described.raised => \A other \in Mappings :
       /\ ComparisonIsContainment(described.mapping, other)
       /\ ComparisonIsContainment(other, described.mapping)
==============================================================================
