----------------------------- MODULE StaticFiles -----------------------------
(***************************************************************************)
(* StaticFiles over several directories, and a client with a cache that    *)
(* asks for one URL, with or without a slash at its end, again and again.  *)
(* Every os.stat of lookup_path() is a step of a worker thread; other      *)
(* processes change the files between any two of them, and between the     *)
(* stat that is answered for and the opening of the file.                  *)
(*                                                                         *)
(* The URL is one path below the directories; in HTML mode its index.html  *)
(* and the 404.html of the site come in, too.  Whoever makes a file sets   *)
(* its mtime and size as he likes, those of a former file, too: the ETag   *)
(* is a hash of the two and tells no more than they do, and Last-Modified  *)
(* is the mtime in whole seconds.  A path that leads out of a directory    *)
(* counts as missing there.  Ranges are left to FileResponse.              *)
(***************************************************************************)
EXTENDS Integers, Sequences

CONSTANTS
  Directories,   \* how many
  Trees,         \* what the directories may be like at first: a kind by directory and place
  Edits,         \* what other processes do: [directory, place, kind]
  MaxTime,       \* bound: the mtime of a file, in half seconds
  Sizes,         \* sizes of files
  MaxChanges,    \* bound: changes of files
  MaxRequests    \* bound: requests of the client

Places == {"path", "index", "404"}
Kinds == {"missing", "file", "directory", "denied"}

VARIABLES
  html,            \* HTML mode
  config_checked,
  tree,            \* by directory and place: kind, and version, mtime and size of a file
  changes,         \* changes so far, the version of the last one
  request,         \* the request that is served
  copies,          \* by slash: what the client keeps of an answer with a body
  asked            \* requests so far

filesVars == <<html, config_checked, tree, changes, request, copies, asked>>

Times == 0..MaxTime
ASize == CHOOSE size \in Sizes : TRUE
Entry == [kind : Kinds, version : 0..MaxChanges, mtime : Times, size : Sizes]
Nothing == [kind |-> "missing", version |-> 0, mtime |-> 0, size |-> ASize]

\* The file at a place, or a former one.
Version(d, place, entry) == <<d, place, entry.version>>
Versions == (1..Directories) \X Places \X (0..MaxChanges)
NoCopy == [body |-> <<1, "path", 0>>, of |-> <<1, "path", 0>>, stat |-> Nothing, valid |-> FALSE]
Idle == [pc |-> "idle", slash |-> FALSE, if_none_match |-> FALSE, if_modified_since |-> FALSE,
         place |-> "path", directory |-> 1, stat |-> Nothing, file |-> <<1, "path", 0>>,
         status |-> 0, quiet |-> TRUE]

\* What a client keeps: a body, and the headers of a stat, which may be that of another file.
Copy == [body : Versions, of : Versions, stat : Entry, valid : BOOLEAN]
Stages == {"idle", "call", "lookup", "body", "answered"}
Statuses == {0, 200, 304, 307, 401, 404, 405, 500}
Request == [pc : Stages, slash : BOOLEAN, if_none_match : BOOLEAN, if_modified_since : BOOLEAN,
            place : Places, directory : 1..Directories, stat : Entry, file : Versions,
            status : Statuses, quiet : BOOLEAN]

TypeOK ==
  /\ html \in BOOLEAN /\ config_checked \in BOOLEAN
  /\ tree \in [1..Directories -> [Places -> Entry]]
  /\ changes \in 0..MaxChanges /\ asked \in 0..MaxRequests
  /\ request \in Request
  /\ copies \in [BOOLEAN -> Copy]

\* An index.html is in a directory.
Sound(places) == places["index"].kind # "missing" => places["path"].kind = "directory"

TreeOf(kinds) ==
  [d \in 1..Directories |-> [place \in Places |-> [Nothing EXCEPT !.kind = kinds[d][place]]]]

Init ==
  /\ html \in BOOLEAN /\ config_checked = FALSE
  /\ tree \in {TreeOf(kinds) : kinds \in Trees}
  /\ changes = 0 /\ asked = 0
  /\ request = Idle
  /\ copies = [slash \in BOOLEAN |-> NoCopy]

-----------------------------------------------------------------------------
(* Other processes and the client (external).                              *)

\* A file or directory is made, replaced or removed.
FilesChange ==
  /\ changes < MaxChanges
  /\ changes' = changes + 1
  /\ \E edit \in Edits, mtime \in Times, size \in Sizes :
       LET d == edit.directory
           entry == [kind |-> edit.kind, version |-> changes + 1, mtime |-> mtime, size |-> size]
           places == [tree[d] EXCEPT ![edit.place] = entry]
       IN  /\ edit.kind = "file" \/ (mtime = 0 /\ size = ASize)    \* else nobody looks at them
           /\ edit.place = "index" => tree[d]["path"].kind = "directory"
           /\ tree' = [tree EXCEPT ![d] =
                IF Sound(places) THEN places ELSE [places EXCEPT !["index"] = Nothing]]
  /\ request' = [request EXCEPT !.quiet = FALSE]
  /\ UNCHANGED <<html, config_checked, copies, asked>>

\* The client asks, or asks whether its copy is still good: by its ETag, or by the time too.
Ask ==
  /\ request.pc = "idle" /\ asked < MaxRequests
  /\ asked' = asked + 1
  /\ \E slash, if_none_match, if_modified_since \in BOOLEAN :
       /\ if_none_match \/ if_modified_since => copies[slash].valid
       /\ request' = [Idle EXCEPT !.pc = "call", !.slash = slash, !.if_none_match = if_none_match,
                                  !.if_modified_since = if_modified_since]
  /\ UNCHANGED <<html, config_checked, tree, changes, copies>>

Receive ==
  /\ request.pc = "answered"
  /\ request' = Idle
  /\ UNCHANGED <<html, config_checked, tree, changes, copies, asked>>

-----------------------------------------------------------------------------
(* __call__() and get_response().                                          *)

Answers(status) == request' = [request EXCEPT !.pc = "answered", !.status = status]
Looks(place) ==
  request' = [request EXCEPT !.pc = "lookup", !.place = place, !.directory = 1]

\* The directory is checked until it was found once; a method other than GET and HEAD is
\* not allowed.
Call ==
  /\ request.pc = "call"
  /\ \/ Looks("path") /\ config_checked' = TRUE
     \/ ~config_checked /\ Answers(500) /\ UNCHANGED config_checked
     \/ Answers(405) /\ config_checked' = TRUE
  /\ UNCHANGED <<html, tree, changes, copies, asked>>

Found == tree[request.directory][request.place]

\* lookup_path(): the next directory is tried when this one has nothing there.
TryNext ==
  /\ request.pc = "lookup" /\ Found.kind = "missing" /\ request.directory < Directories
  /\ request' = [request EXCEPT !.directory = @ + 1]
  /\ UNCHANGED <<html, config_checked, tree, changes, copies, asked>>

\* set_stat_headers(): the ETag, and Last-Modified.
ETag(stat) == <<stat.mtime, stat.size>>
LastModified(stat) == stat.mtime \div 2

\* Mutant of IsNotModified: the dates are compared the other way round.
IsNotModifiedSwapped(stat) ==
  LET copy == copies[request.slash] IN
  \/ request.if_none_match /\ ETag(copy.stat) = ETag(stat)
  \/ request.if_modified_since /\ LastModified(copy.stat) <= LastModified(stat)

\* is_not_modified(): either header will do.
IsNotModified(stat) ==
  LET copy == copies[request.slash] IN
  \/ request.if_none_match /\ ETag(copy.stat) = ETag(stat)
  \/ request.if_modified_since /\ LastModified(copy.stat) >= LastModified(stat)

\* file_response(), for a file that was found.
FileResponse(status) ==
  LET file == Version(request.directory, request.place, Found)
      fresh == status = 200 /\ IsNotModified(Found)
  IN  request' = [request EXCEPT !.stat = Found, !.file = file,
                                 !.status = IF fresh THEN 304 ELSE status,
                                 !.pc = IF fresh THEN "answered" ELSE "body"]

\* Nothing to serve: the 404.html is looked for, once.
NotThere ==
  IF html /\ request.place # "404" THEN Looks("404") ELSE Answers(404)

\* What lookup_path() has come to in the directory that has something, or in the last one.
Lookup ==
  /\ request.pc = "lookup"
  /\ Found.kind # "missing" \/ request.directory = Directories
  /\ CASE Found.kind = "denied" ->
            \* PermissionError, caught for the path itself only
            Answers(IF request.place = "path" THEN 401 ELSE 500)
       [] Found.kind = "file" /\ request.place = "path" -> FileResponse(200)
       [] Found.kind = "directory" /\ request.place = "path" /\ html -> Looks("index")
       [] Found.kind = "file" /\ request.place = "index" ->
            IF request.slash THEN FileResponse(200) ELSE Answers(307)
       [] Found.kind = "file" /\ request.place = "404" -> FileResponse(404)
       [] OTHER -> NotThere
  /\ UNCHANGED <<html, config_checked, tree, changes, copies, asked>>

\* The FileResponse, of the stat_result it was given, opens the file: another one by now,
\* or none, which breaks the response off.  The client keeps a copy.
SendFile ==
  /\ request.pc = "body"
  /\ IF Found.kind = "file"
     THEN /\ Answers(request.status)
          /\ copies' = IF request.status = 200
                       THEN [copies EXCEPT ![request.slash] =
                               [body |-> Version(request.directory, request.place, Found),
                                of |-> request.file, stat |-> request.stat, valid |-> TRUE]]
                       ELSE copies
     ELSE Answers(500) /\ UNCHANGED copies
  /\ UNCHANGED <<html, config_checked, tree, changes, asked>>

Next == FilesChange \/ Ask \/ Receive \/ Call \/ TryNext \/ Lookup \/ SendFile

-----------------------------------------------------------------------------
(* Properties.                                                             *)

\* The first directory that has something at the place decides, whatever it is.
First(place) ==
  LET there == {d \in 1..Directories : tree[d][place].kind # "missing"} IN
  IF there = {} THEN "missing"
  ELSE tree[CHOOSE d \in there : \A other \in there : d <= other][place].kind

\* What a site that nobody changes has to answer: the file, the index of a directory in HTML
\* mode, under its URL with a slash, or what is missing with the page for it.
Expected ==
  LET missing == IF html /\ First("404") = "denied" THEN 500 ELSE 404 IN
  CASE First("path") = "file" -> 200
    [] First("path") = "denied" -> 401
    [] First("path") = "directory" /\ html /\ First("index") = "file" -> IF request.slash THEN 200 ELSE 307
    [] First("path") = "directory" /\ html /\ First("index") = "denied" -> 500
    [] OTHER -> missing

\* Requests that no change overlaps are answered as the directories say, with the page for
\* what is missing wherever there is one.
RightFile ==
  /\ TypeOK
  /\ request.pc = "answered" /\ request.quiet /\ config_checked /\ request.status # 405 =>
       /\ request.status = Expected \/ (request.status = 304 /\ Expected = 200)
       /\ request.status = 404 /\ html => (request.stat.kind = "file" <=> First("404") = "file")

\* A client that is told 304 has the very file that was asked for, also when files were
\* replaced between the stat and the body of its copy, or a file of another directory came
\* into view; or it asked by ETag, and the file was replaced by one with the mtime and size
\* that the ETag is a hash of; or it sent the time, and its copy is not older by that.
NotModifiedTrue ==
  request.pc = "answered" /\ request.status = 304 =>
    LET copy == copies[request.slash] IN
    \/ copy.body = request.file
    \/ request.if_none_match /\ copy.of # request.file /\ ETag(copy.stat) = ETag(request.stat)
    \/ request.if_modified_since /\ LastModified(copy.stat) >= LastModified(request.stat)

=============================================================================
