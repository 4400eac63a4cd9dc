------------------------------ MODULE Workspace ------------------------------
(***************************************************************************)
(* The directories a submission is graded in, over several runs of the     *)
(* autograder in one container: LocalDirectory, the two injections of      *)
(* pipeline/mixin/mixin.py, the manifest checks of pipeline/check/project  *)
(* and the builds of pipeline/build.                                       *)
(*                                                                         *)
(* Nothing is ever cleaned: what an injection or a build wrote is there    *)
(* for the next run, and a step that raises leaves what it had done.  The  *)
(* tools (make, cmake, g++, bash) are the environment: they follow the     *)
(* submission's own rules, so they may write, rename, remove or replace    *)
(* what they reach, and end as they like.                                  *)
(***************************************************************************)
EXTENDS Manifests

CONSTANTS
  StaffTree,       \* what the staff directory holds at first
  Submissions,     \* shapes of a student's directory
  Filters,         \* file lists given to an injection; {} stands for None
  Expectations,    \* mappings a ManifestCheck may expect
  Required,        \* the file each project type wants
  Reach,           \* places and paths a tool may change
  Query,           \* the file below the build directory that asks CMake for a reply
  Builds,          \* sets of paths a Makefile, a script or a file_map names
  TargetLists,     \* targets a CMake reply may list
  MaxRuns,         \* bound on runs in one container
  MaxSteps         \* bound on steps on a manifest in a run

Places == {"student", "staff"}
ProjectTypes == {"Makefile", "CMake"}

\* A tree gives each path what lies there: nothing, a directory, or a file by
\* the name of who wrote it.
Shape(tree) == [p \in Paths |-> IF tree[p] \in Kinds THEN tree[p] ELSE "file"]
Filled(mapping, author) == [p \in Paths |-> IF mapping[p] = "file" THEN author ELSE mapping[p]]

Student == <<"student 1", "student 2">>  \* the author of each run's submission
Output == <<"output 1", "output 2">>     \* the author of what a run builds

ASSUME WorkspaceAssumption ==
  /\ StaffTree \in Mappings
  /\ Submissions \subseteq Mappings /\ Expectations \subseteq Mappings
  /\ Required \in [ProjectTypes -> Paths]
  /\ Reach \subseteq Places \X Paths /\ Query \in Paths /\ Builds \subseteq SUBSET Paths
  /\ TargetLists \subseteq Seq([name : Nat, path : Paths \union {Root}])
  /\ MaxRuns \in DOMAIN Student /\ MaxSteps \in Nat

VARIABLES
  disk,       \* the tree in each place
  reply,      \* the targets of the last CMake reply in each place
  run,        \* which run this is
  at,         \* the datum the pipeline holds: "nothing", "manifest", "artifacts"; or it ended
  steps,      \* injections and checks of this run, one that raises included
  manifest,   \* the manifest: type, root and structure
  artifacts,  \* the artifacts by name, each the file it stands for, if any
  passed,     \* history: what the checks since the last injection asked for
  injected    \* history: the packet of the last injection, and how it was called

vars == <<disk, reply, run, at, steps, manifest, artifacts, passed, injected>>

NoManifest == [type |-> "none", root |-> "student", mapping |-> Nothing]
NoInjection == [from |-> "student", to |-> "student", copied |-> {}, selected |-> {}, overwrite |-> FALSE]
NoArtifacts == [n \in {} |-> [place |-> "student", path |-> Root]]
NoReply == <<>>

\* Manifest.from_directory
from_directory(tree, place) == [type |-> "Manifest", root |-> place, mapping |-> Shape(tree)]

EndRun == at' = "ended" /\ UNCHANGED <<run, steps, manifest, artifacts, passed, injected>>

------------------------------------------------------------------------------
Init ==
  /\ \E shape \in Submissions :
       disk = [p \in Places |-> IF p = "staff" THEN Filled(StaffTree, "staff")
                                              ELSE Filled(shape, Student[1])]
  /\ reply = [p \in Places |-> NoReply]
  /\ run = 1
  /\ at = "nothing"
  /\ steps = 0
  /\ manifest = NoManifest
  /\ artifacts = NoArtifacts
  /\ passed = {}
  /\ injected = NoInjection

\* The next run, of a new submission, which may bring a build directory along,
\* or of the same directory again.
NextRun ==
  /\ at = "ended" /\ run < MaxRuns
  /\ run' = run + 1
  /\ \/ /\ UNCHANGED disk
        /\ UNCHANGED reply
     \/ \E shape \in Submissions, built \in TargetLists \union {NoReply} :
          /\ disk' = [disk EXCEPT !["student"] = Filled(shape, Student[run'])]
          /\ reply' = [reply EXCEPT !["student"] = built]
  /\ at' = "nothing" /\ steps' = 0
  /\ manifest' = NoManifest /\ artifacts' = NoArtifacts
  /\ passed' = {} /\ injected' = NoInjection

\* LocalDirectory: whatever from_directory raises becomes an Err.
LoadDirectory ==
  /\ at = "nothing"
  /\ \/ /\ at' = "manifest"
        /\ manifest' = from_directory(disk["student"], "student")
        /\ UNCHANGED <<run, steps, artifacts, passed, injected>>
     \/ EndRun
  /\ UNCHANGED <<disk, reply>>

------------------------------------------------------------------------------
\* Mixin._copy_matching_files

Matches(rel, filter) == filter = {} \/ rel \in filter \/ <<Last(rel)>> \in filter

Skips_Always(tree, rel, overwrite) == tree[rel] # "absent"
Skips(tree, rel, overwrite) == tree[rel] # "absent" /\ ~overwrite

\* shutil.copy puts a file into the directory of its name.
Landing(tree, rel) == IF tree[rel] = "dir" THEN Append(rel, Last(rel)) ELSE rel

copy_Replacing(tree, rel, content) ==
  [p \in Paths |-> IF p = rel THEN content ELSE IF rel \in Parents(p) THEN "absent" ELSE
                   IF p \in Parents(rel) THEN "dir" ELSE tree[p]]
copy(tree, rel, content) ==
  LET to == Landing(tree, rel) IN
  [p \in Paths |-> IF p = to THEN content ELSE IF p \in Parents(rel) THEN "dir" ELSE tree[p]]

\* One file of the loop: it is left alone, it raises, or it is copied.
copy_one(so_far, rel, from, to, filter, overwrite) ==
  LET tree == so_far.tree
      refused == \/ from = to
                 \/ disk[from][rel] \in {"absent", "dir"}
                 \/ \E d \in Parents(rel) : tree[d] \notin {"absent", "dir"}
                 \/ Landing(tree, rel) \notin Paths \/ tree[Landing(tree, rel)] = "dir"
  IN IF so_far.raised \/ ~Matches(rel, filter) \/ Skips(tree, rel, overwrite) THEN so_far
     ELSE IF refused THEN [so_far EXCEPT !.raised = TRUE]
     ELSE [so_far EXCEPT !.tree = copy(tree, rel, disk[from][rel]), !.copied = @ \union {rel}]

_copy_matching_files(source, from, to, filter, overwrite) ==
  LET files == _explore_directory(source.mapping)
      done[i \in 0..Len(files)] ==
        IF i = 0 THEN [raised |-> FALSE, tree |-> disk[to], copied |-> {}]
                 ELSE copy_one(done[i - 1], files[i], from, to, filter, overwrite)
  IN done[Len(files)]

\* The manifest an injection returns is read from the destination anew.
Reread_Renamed(tree, to, source) == [source EXCEPT !.type = "Manifest", !.root = to]
Reread(tree, to, source) == from_directory(tree, to)

Inject(source, from, to, filter, overwrite) ==
  LET result == _copy_matching_files(source, from, to, filter, overwrite) IN
  /\ disk' = [disk EXCEPT ![to] = result.tree]
  /\ steps' = steps + 1
  /\ IF result.raised
       THEN at' = "ended" /\ UNCHANGED <<run, manifest, artifacts, passed, injected>>
       ELSE /\ manifest' = Reread(result.tree, to, source)
            /\ injected' = [from |-> from, to |-> to, copied |-> result.copied, overwrite |-> overwrite,
                            selected |-> {p \in file_paths(source.mapping) : Matches(p, filter)}]
            /\ passed' = {}
            /\ UNCHANGED <<run, at, artifacts>>

OnManifest == at = "manifest" /\ steps < MaxSteps

InjectStudentIntoStaff ==
  /\ OnManifest
  /\ \E filter \in Filters, overwrite \in BOOLEAN :
       Inject(manifest, manifest.root, "staff", filter, overwrite)
  /\ UNCHANGED reply

\* The staff's files are listed by resolved paths: when staff_source was not
\* given as one, the first of them is not relative to it.
InjectStaffIntoStudent ==
  /\ OnManifest
  /\ LET source == from_directory(disk["staff"], "staff") IN
     \/ \E filter \in Filters, overwrite \in BOOLEAN :
          Inject(source, "staff", manifest.root, filter, overwrite)
     \/ /\ file_paths(source.mapping) # {}
        /\ EndRun /\ UNCHANGED disk
  /\ UNCHANGED reply

------------------------------------------------------------------------------
\* The checks of the manifest.

Satisfied(expected, strict) ==
  \/ _mapping_eq(manifest.mapping, expected)
  \/ ~strict /\ _mapping_le(expected, manifest.mapping)

ManifestCheck ==
  /\ OnManifest
  /\ \E expected \in Expectations, strict \in BOOLEAN :
       IF Satisfied(expected, strict)
       THEN /\ passed' = passed \union {expected}
            /\ steps' = steps + 1
            /\ UNCHANGED <<run, at, manifest, artifacts, injected>>
       ELSE EndRun
  /\ UNCHANGED <<disk, reply>>

ProjectManifestCheck ==
  /\ OnManifest
  /\ \E type \in ProjectTypes :
       IF contains(manifest.mapping, Required[type])
       THEN /\ manifest' = [manifest EXCEPT !.type = type]
            /\ passed' = passed \union {[Nothing EXCEPT ![Required[type]] = manifest.mapping[Required[type]]]}
            /\ steps' = steps + 1
            /\ UNCHANGED <<run, at, artifacts, injected>>
       ELSE EndRun
  /\ UNCHANGED <<disk, reply>>

------------------------------------------------------------------------------
\* The builds.

\* However it ends, a tool may have put a file of its own or a directory on any
\* path it reaches, over what was there or not, or have taken away what was
\* there, its directory's CMake reply included.
ToolOutputs == {"not installed", "failed", "done"}

Changes == [Reach -> {"kept", "absent", "dir", Output[run]}]

Changed(before, change) ==
  [place \in Places |-> [p \in Paths |->
     IF <<place, p>> \in Reach /\ change[<<place, p>>] # "kept" THEN change[<<place, p>>]
                                                            ELSE before[place][p]]]

\* A tool that is run on these trees; one that is not installed is not run.
RunTool(before, root, output) ==
  IF output = "not installed"
    THEN disk' = before /\ UNCHANGED reply
    ELSE /\ \E change \in Changes : disk' = Changed(before, change)
         /\ \A place \in Places : IsMapping(disk'[place])
         /\ \E targets \in TargetLists \union {NoReply} : reply' = [reply EXCEPT ![root] = targets]

IsFile(tree, p) == tree[p] \notin {"absent", "dir"}

File(place, p) == [place |-> place, path |-> p]

\* make_build_output, and the same tests in the other builds: only a tool that
\* ran and returned 0 is built upon.
Failed(output) == output # "done"

HandOn(found) ==
  /\ artifacts' = found
  /\ at' = "artifacts"
  /\ UNCHANGED <<run, steps, manifest, passed, injected>>

\* One target per name of those the Makefile declares once make has run, if it
\* is still there to be read; the ones that are no file then are dropped.
Collected_Unchecked(tree, root, first) == [n \in DOMAIN first |-> File(root, first[n])]
Collected(tree, root, first) ==
  [n \in {m \in DOMAIN first : IsFile(tree, first[m])} |-> File(root, first[n])]

Named(paths) ==
  {f \in [{Last(p) : p \in paths} -> paths] : \A n \in DOMAIN f : Last(f[n]) = n}

MakefileBuild ==
  /\ at = "manifest" /\ manifest.type = "Makefile"
  /\ LET root == manifest.root IN
     \E output \in ToolOutputs :
       /\ RunTool(disk, root, output)
       /\ IF Failed(output) \/ ~IsFile(disk'[root], Required["Makefile"])
            THEN EndRun
            ELSE \E targets \in Builds : \E first \in Named(targets) :
                   HandOn(Collected(disk'[root], root, first))

\* The artifact a target gives: its file, or none for a target without one.
\* A file that was not built is refused by FileArtifact, and raises.
Target(t, root) == File(IF t.path = Root THEN "none" ELSE root, t.path)

\* Of several artifacts of one name the first file is kept, or else the first.
Merged(targets, root) ==
  [n \in {targets[i].name : i \in DOMAIN targets} |->
     LET of == {i \in DOMAIN targets : targets[i].name = n}
         files == {i \in of : targets[i].path # Root}
     IN Target(targets[Min(IF files # {} THEN files ELSE of)], root)]

\* Before cmake is searched for, its query is made and the directories that lead
\* to it, unless a file lies in the way.
Blocked(tree) == \E d \in Parents(Query) : tree[d] \notin {"absent", "dir"}
Queried(tree) == IF tree[Query] = "absent" THEN copy(tree, Query, Output[run]) ELSE tree

\* A configure step may write a reply or leave the one of an earlier run, which
\* is then read; none raises.  Configure and build are one run of the tool.
CMakeBuild ==
  /\ at = "manifest" /\ manifest.type = "CMake"
  /\ LET root == manifest.root IN
     IF Blocked(disk[root])
     THEN EndRun /\ UNCHANGED <<disk, reply>>
     ELSE \E output \in ToolOutputs :
            /\ RunTool([disk EXCEPT ![root] = Queried(@)], root, output)
            /\ IF \/ Failed(output)
                  \/ reply'[root] = NoReply
                  \/ \E i \in DOMAIN reply'[root] :
                       LET p == reply'[root][i].path IN p # Root /\ ~IsFile(disk'[root], p)
                 THEN EndRun
                 ELSE HandOn(Merged(reply'[root], root))

\* g++ compiles into a directory of its own, which is never removed.  When it
\* returns 0 without the file it was to write, FileArtifact raises.
GXXBuild ==
  /\ at = "manifest"
  /\ \E sources \in Builds, output \in ToolOutputs, name \in {Last(p) : p \in UNION Builds},
        written \in BOOLEAN :
       IF \/ Failed(output) \/ ~written
          \/ \E s \in sources : disk[manifest.root][s] = "absent"
       THEN EndRun
       ELSE HandOn([n \in {name} |-> File("temporary", <<name>>)])
  /\ UNCHANGED <<disk, reply>>

\* Every artifact the step was told of must exist once the script has run; one
\* that is a directory is refused by FileArtifact, and raises.
Produced(tree, p) == tree[p] # "absent" /\ IsFile(tree, p)

BashScriptBuild ==
  /\ at = "manifest"
  /\ LET root == manifest.root IN
     \/ /\ \E script \in Paths : disk[root][script] = "absent"
        /\ EndRun /\ UNCHANGED <<disk, reply>>
     \/ \E output \in ToolOutputs :
          /\ \E script \in Paths : disk[root][script] # "absent"
          /\ RunTool(disk, root, output)
          /\ \E wanted \in Builds, chmod \in BOOLEAN :
               IF Failed(output) \/ ~chmod \/ \E p \in wanted : ~Produced(disk'[root], p)
               THEN EndRun
               ELSE \E named \in Named(wanted) :
                      HandOn([n \in DOMAIN named |-> File(root, named[n])])

Joined(new, old) ==
  [n \in DOMAIN new \union DOMAIN old |-> IF n \in DOMAIN new THEN new[n] ELSE old[n]]

\* Relative paths need a manifest to be relative to; after a build only
\* absolute ones work, and the new artifacts join the old.
PrebuiltArtifacts ==
  /\ at \in {"manifest", "artifacts"}
  /\ \E wanted \in Builds, relative, chmod \in BOOLEAN, place \in Places :
       LET root == IF relative THEN manifest.root ELSE place IN
       IF \/ relative /\ at = "artifacts"
          \/ ~chmod
          \/ \E p \in wanted : ~Produced(disk[root], p)
       THEN EndRun
       ELSE \E named \in Named(wanted) :
              HandOn(Joined([n \in DOMAIN named |-> File(root, named[n])], artifacts))
  /\ UNCHANGED <<disk, reply>>

\* The tests take the artifacts, and the run ends.
Test == at = "artifacts" /\ EndRun /\ UNCHANGED <<disk, reply>>

------------------------------------------------------------------------------
Mixin == InjectStudentIntoStaff \/ InjectStaffIntoStudent
Check == ManifestCheck \/ ProjectManifestCheck
Build == MakefileBuild \/ CMakeBuild \/ GXXBuild \/ BashScriptBuild \/ PrebuiltArtifacts

Next == NextRun \/ LoadDirectory \/ Mixin \/ Check \/ Build \/ Test

Spec == Init /\ [][Next]_vars

------------------------------------------------------------------------------
TypeOK ==
  /\ \A place \in Places : IsMapping(Shape(disk[place]))
  /\ run \in 1..MaxRuns /\ steps \in 0..MaxSteps
  /\ at \in {"nothing", "manifest", "artifacts", "ended"}
  /\ manifest.type \in ProjectTypes \union {"Manifest", "none"}

\* While steps take a manifest, it tells what is on disk below its root, and
\* every structure a check asked for since the last injection is still there
\* for the build: the manifest is read once and relied on by every later step.
\* What was checked before an injection may have been of another directory.
ManifestIsCurrent ==
  at = "manifest" =>
    /\ manifest.mapping = Shape(disk[manifest.root])
    /\ \A expected \in passed : \A p \in Paths :
         expected[p] # "absent" => Shape(disk[manifest.root])[p] = expected[p]

\* After an injection every file that was selected lies where it belongs with
\* what its source holds, below a directory of its name if there is one, or was
\* left out because something was there and overwrite was off; whatever earlier
\* runs had left in the destination.
InjectionArrives ==
  \A p \in injected.selected :
    at = "manifest" =>
      LET source == disk[injected.from]
          target == disk[injected.to]
      IN \/ p \in injected.copied /\ target[Landing(target, p)] = source[p]
         \/ ~injected.overwrite /\ target[p] # "absent"

\* What a build hands to the tests is a file at that moment, whatever the tools
\* wrote or removed, and a name that some CMake target gives a file stands for
\* one.  Of what g++ made nothing is said: its directory is not modelled.
ArtifactsAreFiles ==
  at = "artifacts" =>
    \A n \in DOMAIN artifacts :
      LET a == artifacts[n] IN
      IF a.place = "none"
      THEN \A i \in DOMAIN reply[manifest.root] :
             reply[manifest.root][i].name = n => reply[manifest.root][i].path = Root
      ELSE a.place \in Places => IsFile(disk[a.place], a.path)

\* No step on a manifest, an injection above all, takes a file or a directory
\* away or turns one into the other, on either side, even one that raises
\* halfway; an injection that is done and was not to overwrite has left every
\* file as it was.  Of the builds nothing is said: their tools may do anything.
NothingLost ==
  [][steps' > steps =>
       \A place \in Places : \A p \in Paths :
         disk[place][p] # "absent" =>
           /\ Shape(disk'[place])[p] = Shape(disk[place])[p]
           /\ at' = "manifest" /\ ~injected'.overwrite => disk'[place][p] = disk[place][p]]_vars
==============================================================================
