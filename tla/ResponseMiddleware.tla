-------------------------- MODULE ResponseMiddleware --------------------------
(***************************************************************************)
(* The middleware of Starlette that rewrites responses on their way out:   *)
(* GZipMiddleware, which rewrites bodies and looks at one response at a    *)
(* time, and the layers of HeaderMiddleware, which look at headers and     *)
(* keep something between requests.  Either of the two is followed.        *)
(***************************************************************************)
EXTENDS GZip

CONSTANTS Stacks, Policies, Values, Answers, Slots, MaxSent   \* of HeaderMiddleware

VARIABLES
  bodies,    \* GZipMiddleware is followed
  stack, policy, jar, left, request, sent

layers == <<stack, policy, jar, left, request, sent>>

Layered == INSTANCE HeaderMiddleware

ASSUME StacksAssumption ==
  \A s \in Stacks : /\ s \in Seq(Layered!Layers)
                     /\ \A i, j \in DOMAIN s : s[i] = s[j] => i = j
ASSUME PoliciesAssumption == Policies \subseteq [all : BOOLEAN, credentials : BOOLEAN]
ASSUME ValuesAssumption == Values \intersect {"empty", "none", "bad", "expired"} = {}
ASSUME AnswersAssumption == Answers \subseteq Layered!Given
ASSUME MaxSentAssumption == MaxSent \in Nat

FollowInit ==
  /\ Init /\ Layered!Init
  /\ bodies \in BOOLEAN
  /\ bodies => stack = CHOOSE s \in Stacks : TRUE
  /\ bodies => policy = CHOOSE p \in Policies : TRUE
  /\ ~bodies => /\ ~accept /\ app.total = None
                /\ minimum = CHOOSE m \in MinimumSizes : TRUE
                /\ headers.encoding = "none" /\ ~headers.events

FollowNext ==
  \/ bodies /\ Next /\ UNCHANGED <<bodies, layers>>
  \/ ~bodies /\ Layered!Next /\ UNCHANGED <<bodies, vars>>

FollowSpec == FollowInit /\ [][FollowNext]_<<bodies, vars, layers>>

-----------------------------------------------------------------------------
\* The session of a browser goes from one request to the next.
SessionCarried == Layered!SessionCarried

\* CORS headers tell allowed origins the truth, also to caches, whatever endpoints say.
CorsTrue == Layered!CorsTrue

=============================================================================
