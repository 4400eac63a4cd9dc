---------------------------- MODULE MCWorkspace ----------------------------
(* A library that is a file or a directory, the project's file at the top or *)
(* in the library, and a program.                                            *)
EXTENDS Workspace

lib == 1
project == 2
program == 3

MCPaths == {<<lib>>, <<lib, lib>>, <<lib, project>>, <<project>>, <<program>>}
MCDirectories == {<<lib>>}

Files(set) == [p \in MCPaths |-> IF p \in set THEN "file" ELSE
                                 IF \E q \in set : Len(q) > 1 /\ Front(q) = p THEN "dir" ELSE "absent"]

MCStaffTree == Files({<<lib, project>>, <<project>>})
MCSubmissions == {Files({<<lib, lib>>, <<lib, project>>}), Files({<<lib>>, <<project>>, <<program>>})}
MCFilters == {{}, {<<project>>}}
MCExpectations == {Files({<<lib>>}), Files({<<lib, project>>, <<project>>})}
MCRequired == [type \in {"Makefile", "CMake"} |-> <<project>>]
MCReach == {<<"student", <<lib>>>>, <<"staff", <<program>>>>}
MCQuery == <<lib, lib>>
MCBuilds == {{<<program>>}, {<<lib>>, <<lib, lib>>}}
MCTarget(name, path) == [name |-> name, path |-> path]
MCTargetLists == {<<MCTarget(program, Root), MCTarget(program, <<program>>),
                    MCTarget(lib, <<program>>), MCTarget(lib, Root), MCTarget(project, Root)>>}
=============================================================================
