------------------------------ MODULE FileAnswers ------------------------------
(***************************************************************************)
(* The two sides of a file that is served: the FileResponse that sends it  *)
(* with its ranges, and StaticFiles, which finds it and decides whether    *)
(* the client has it already.  Either of the two is followed.              *)
(***************************************************************************)
EXTENDS FileResponse

CONSTANTS Directories, Trees, Edits, MaxTime, Sizes, MaxChanges, MaxRequests   \* of StaticFiles

VARIABLES
  finds,    \* StaticFiles is followed
  html, config_checked, tree, changes, lookup, copies, asks

lookups == <<html, config_checked, tree, changes, lookup, copies, asks>>

Static == INSTANCE StaticFiles WITH request <- lookup, asked <- asks

ASSUME DirectoriesAssumption == Directories \in Nat \ {0}
ASSUME ChangesAssumption == MaxChanges \in Nat /\ MaxRequests \in Nat
ASSUME StatsAssumption == MaxTime \in Nat /\ Sizes # {}
ASSUME TreesAssumption == Trees \subseteq [1..Directories -> [Static!Places -> Static!Kinds]]
ASSUME EditsAssumption ==
  Edits \subseteq [directory : 1..Directories, place : Static!Places, kind : Static!Kinds]

\* FileResponse when StaticFiles is followed.
NotFollowed ==
  /\ request \in Requests /\ request = CHOOSE r \in Requests : TRUE
  /\ file = [length |-> 0, there |-> TRUE, changes |-> 0]
  /\ size = 0 /\ range = "absent" /\ specs = <<>> /\ gone = FALSE /\ pc = "raised"
  /\ asked = <<>> /\ ranges = <<>> /\ resp = [kind |-> "none", length |-> 0]
  /\ part = 1 /\ start = 0 /\ body = [length |-> 0, parts |-> <<>>] /\ wire = <<>>

AnswersInit ==
  \/ /\ finds = FALSE /\ html = FALSE /\ tree = Static!TreeOf(CHOOSE kinds \in Trees : TRUE)
     /\ Static!Init /\ Init
  \/ finds = TRUE /\ NotFollowed /\ Static!Init

Sending == ~finds /\ Next /\ UNCHANGED <<finds, lookups>>
Finding == finds /\ (Static!Next \/ UNCHANGED lookups) /\ UNCHANGED <<finds, vars>>

AnswersNext == Sending \/ Finding
answersVars == <<finds, vars, lookups>>

AnswersSpec ==
  /\ AnswersInit /\ [][AnswersNext]_answersVars
  /\ WF_answersVars(~finds /\ Call /\ UNCHANGED <<finds, lookups>>)

-----------------------------------------------------------------------------
\* What StaticFiles answers is what its directories have, and a copy that the client may go
\* on with is the file, or one that the mtime and size, or the time in seconds, do not tell
\* from it.
RightFile == finds => Static!RightFile /\ Static!NotModifiedTrue

=============================================================================
