---------------------------- MODULE MCFileResponse ----------------------------
(* FileAnswers for TLC: the requests of FileResponse and the bounds of     *)
(* each, and two directories for StaticFiles.                              *)
EXTENDS FileAnswers

\* Three ranges to merge, answered by the headers only.
Heads == [method : {"HEAD"}, if_range : {"absent"}, pathsend : {FALSE}, given : {TRUE},
          max_ranges : {3}, max_changes : {0}]

\* Files that stay as they are, in full, in one part or in two.
Gets == [method : {"GET"}, if_range : {"absent", "other"}, pathsend : BOOLEAN, given : {TRUE},
         max_ranges : {2}, max_changes : {0}]

\* Files that change once.
Changing == [method : {"GET"}, if_range : {"same"}, pathsend : {FALSE}, given : {FALSE},
             max_ranges : {2}, max_changes : {1}]

MCRequests == Heads \union Gets \union Changing
MCMultipart == {r \in Gets : r.if_range = "absent" /\ ~r.pathsend}

\* What may be at the path, and as its index.html.
MCPaths == {<<"missing", "missing">>, <<"file", "missing">>, <<"denied", "missing">>,
            <<"directory", "missing">>, <<"directory", "file">>, <<"directory", "denied">>}
MCDirectory(path, page) == [path |-> path[1], index |-> path[2]] @@ ("404" :> page)
MCTrees == {<<MCDirectory(one, "missing"), MCDirectory(two, page)>> :
              one \in MCPaths, two \in {<<"missing", "missing">>, <<"file", "missing">>}, page \in {"missing", "file", "denied"}}

\* The first directory changes.
MCEdits == [directory : {1}, place : {"path"}, kind : {"missing", "file", "directory"}]
           \union [directory : {1}, place : {"index"}, kind : {"file"}]

=============================================================================
