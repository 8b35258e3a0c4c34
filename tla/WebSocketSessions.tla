--------------------------- MODULE WebSocketSessions ---------------------------
(***************************************************************************)
(* A connection, and what an application does with it: the endpoint of a   *)
(* WebSocket route from the connect message to the end, or several tasks   *)
(* that share one WebSocket object.  Either of the two is followed.        *)
(***************************************************************************)
EXTENDS WebSocketEndpoint

CONSTANT Tasks    \* the tasks that share a WebSocket

VARIABLES
  shares,     \* the tasks are followed
  client_state, application_state, peer, queue, task, taken, delivered, lost, raced

sharing == <<client_state, application_state, peer, queue, task, taken, delivered, lost, raced>>
endpoint == <<kind, session, client, inbox, pc, exc, close_code, ending, told>>

Shared == INSTANCE WebSocket WITH client <- peer, inbox <- queue

SessionsInit ==
  /\ Init /\ Shared!Init
  /\ shares \in BOOLEAN
  /\ shares => kind = CHOOSE k \in Kinds : TRUE   \* of no matter to the tasks

Routed(A) == ~shares /\ A /\ UNCHANGED <<shares, sharing>>
ByTasks(A) == shares /\ A /\ UNCHANGED <<shares, endpoint>>

SessionsNext == Routed(Next) \/ ByTasks(Shared!Next)
sessionsVars == <<vars, shares, sharing>>

\* The fairness of each: the client leaves one day, hooks return, and the event loop goes on.
SessionsSpec ==
  /\ SessionsInit /\ [][SessionsNext]_sessionsVars
  /\ WF_sessionsVars(Routed(\E code \in Codes : ClientLeaves(code)))
  /\ WF_sessionsVars(Routed(Dispatch))
  /\ WF_sessionsVars(Routed(Wrapper))
  /\ WF_sessionsVars(ByTasks(Shared!ClientLeaves))
  /\ \A t \in Tasks : WF_sessionsVars(ByTasks(Shared!Receive(t)))

-----------------------------------------------------------------------------
(* WireInOrder of WebSocketEndpoint speaks of both: however the tasks      *)
(* interleave their calls, the handshake is answered once, data is sent on *)
(* an open connection only, nothing follows a close.                       *)

\* The tasks lose no message of the client while one at a time does the handshake.
NothingLost == Shared!NothingLost

\* When a send of one task has failed on an accepted connection, no task sends again; where
\* accept() or a denial has failed, none answers the handshake anew.
SilentOnceLost == Shared!SilentOnceLost

\* A task never waits for ever in receive().
ReaderReturns == Shared!ReaderReturns

=============================================================================
