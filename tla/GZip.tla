--------------------------------- MODULE GZip ---------------------------------
(***************************************************************************)
(* GZipMiddleware: the responder that stands between an application and    *)
(* the server, withholds the start of a response until it has seen the     *)
(* first body, and compresses what follows (GZipResponder) or passes it on *)
(* (IdentityResponder).  The application is any that keeps to the ASGI     *)
(* protocol and to the Content-Length it announces.                        *)
(*                                                                         *)
(* Requests follow one another: the headers that the responder changes in  *)
(* place are those of the Response object, which may be sent again.  Data  *)
(* are sequences of numbered units; a compressed body is the same units    *)
(* between a Header and a Trailer, and the compressor gives out a prefix   *)
(* of what it was given until it is closed.                                *)
(***************************************************************************)
EXTENDS Integers, Sequences

CONSTANTS
  MinimumSizes,   \* the values of minimum_size
  MaxUnits,       \* bound: units of data of a response
  MaxBodies,      \* bound: body messages of a response
  MaxRequests     \* bound: requests that follow one another

ASSUME MinimumAssumption == MinimumSizes \subseteq Nat
ASSUME BoundsAssumption == MaxUnits \in Nat /\ MaxBodies \in Nat /\ MaxRequests \in Nat \ {0}

VARIABLES
  minimum,    \* minimum_size
  accept,     \* "gzip" in Accept-Encoding: GZipResponder, not IdentityResponder
  headers,    \* the raw headers of the response
  app,        \* history: what the application has sent
  pc,         \* "app" runs, or the responder "sends"; the request is "over"
  started,
  passes,     \* content_encoding_set or content_type_is_excluded
  file,       \* gzip_file and gzip_buffer
  outgoing,   \* the messages the responder is about to send
  wire,       \* the messages the server has taken
  received,   \* history: the data of all of them
  stale,      \* history: the headers were changed for an earlier response
  requests

vars == <<minimum, accept, headers, app, pc, started, passes, file, outgoing, wire, received, stale, requests>>

None == -1
Header == 0
Trailer == MaxUnits + 1
Bytes == Seq(Header..Trailer)

Headers == [encoding : {"none", "gzip", "app"}, events : BOOLEAN,
            length : None..(MaxUnits + 2), vary : BOOLEAN]

TypeOK ==
  /\ minimum \in MinimumSizes
  /\ accept \in BOOLEAN
  /\ headers \in Headers
  /\ app \in [sent : 0..(MaxBodies + 2), first : [size : 0..MaxUnits, more : BOOLEAN],
              data : Seq(1..MaxUnits), total : None..MaxUnits]
  /\ pc \in {"app", "sends", "over"}
  /\ started \in BOOLEAN /\ passes \in BOOLEAN
  /\ file \in [buffer : Bytes, waiting : Bytes, closed : BOOLEAN]
  /\ outgoing \in Seq([type : {"start"}] \union [type : {"pathsend"}]
                      \union [type : {"body"}, data : Bytes, more_body : BOOLEAN])
  /\ wire \in Seq([type : {"start"}, headers : Headers] \union [type : {"pathsend"}]
                  \union [type : {"body"}, data : Bytes, more_body : BOOLEAN])
  /\ received \in Bytes
  /\ stale \in BOOLEAN
  /\ requests \in 1..MaxRequests

\* A new responder for the next request.
Begin(total) ==
  /\ app' = [sent |-> 0, first |-> [size |-> 0, more |-> FALSE], data |-> <<>>, total |-> total]
  /\ pc' = "app" /\ started' = FALSE /\ passes' = FALSE
  /\ file' = [buffer |-> <<Header>>, waiting |-> <<>>, closed |-> FALSE]
  /\ outgoing' = <<>> /\ wire' = <<>> /\ received' = <<>>
  /\ accept' \in BOOLEAN
  /\ UNCHANGED minimum

\* The headers of an application that knows the length of its response, or does not.
Original(total) == [encoding : {"none", "app"}, events : BOOLEAN, length : {total}, vary : {FALSE}]

Init ==
  /\ minimum \in MinimumSizes
  /\ accept \in BOOLEAN
  /\ \E total \in None..MaxUnits :
       /\ headers \in Original(total)
       /\ app = [sent |-> 0, first |-> [size |-> 0, more |-> FALSE], data |-> <<>>, total |-> total]
  /\ pc = "app" /\ started = FALSE /\ passes = FALSE
  /\ file = [buffer |-> <<Header>>, waiting |-> <<>>, closed |-> FALSE]
  /\ outgoing = <<>> /\ wire = <<>> /\ received = <<>>
  /\ stale = FALSE /\ requests = 1

-----------------------------------------------------------------------------
(* The first two branches of send_with_compression(), and pathsend.        *)

Start == [type |-> "start"]
Body(data, more) == [type |-> "body", data |-> data, more_body |-> more]

\* The application has sent its start, and may send a body.
BodyDue == pc = "app" /\ app.sent > 0

\* http.response.start: withheld.
AppStart ==
  /\ pc = "app" /\ app.sent = 0
  /\ app' = [app EXCEPT !.sent = 1]
  /\ passes' = (headers.encoding # "none" \/ headers.events)
  /\ UNCHANGED <<minimum, accept, headers, pc, started, file, outgoing, wire, received, stale, requests>>

\* A body message: the next n units, the last ones unless `more`.
AppSends(n, more) ==
  /\ BodyDue
  /\ app.sent <= MaxBodies
  /\ Len(app.data) + n <= (IF app.total = None THEN MaxUnits ELSE app.total)
  /\ ~more /\ app.total # None => Len(app.data) + n = app.total
  /\ app' = [app EXCEPT !.sent = @ + 1,
                        !.data = @ \o [i \in 1..n |-> Len(@) + i],
                        !.first = IF app.sent = 1 THEN [size |-> n, more |-> more] ELSE @]
Units(n) == [i \in 1..n |-> Len(app.data) + i]

Sends(messages) == outgoing' = messages /\ pc' = "sends"

\* Mutant of PassThrough: started is not set.
PassThroughRepeat(n, more) ==
  /\ AppSends(n, more) /\ passes
  /\ Sends((IF started THEN <<>> ELSE <<Start>>) \o <<Body(Units(n), more)>>)
  /\ UNCHANGED <<started, minimum, accept, headers, passes, file, wire, received, stale, requests>>

\* A response with an encoding, or of events, is passed on as it is.
PassThrough(n, more) ==
  /\ AppSends(n, more) /\ passes
  /\ Sends((IF started THEN <<>> ELSE <<Start>>) \o <<Body(Units(n), more)>>)
  /\ started' = TRUE
  /\ UNCHANGED <<minimum, accept, headers, passes, file, wire, received, stale, requests>>

\* http.response.pathsend instead of a body: never compressed, and started is not set.
PathSend ==
  /\ BodyDue /\ app.sent = 1
  /\ app' = [app EXCEPT !.sent = 2]
  /\ Sends(<<Start, [type |-> "pathsend"]>>)
  /\ UNCHANGED <<minimum, accept, headers, started, passes, file, wire, received, stale, requests>>

-----------------------------------------------------------------------------
(* The branches that compress.                                             *)

\* Mutant of Compressed: the compressor is not closed by the last body.
CompressedUnclosed(data, more) ==
  LET all == file.waiting \o data IN
  IF ~accept THEN {[data |-> data, file |-> file]}
  ELSE {[data |-> file.buffer \o SubSeq(all, 1, k),
         file |-> [buffer |-> <<>>, waiting |-> SubSeq(all, k + 1, Len(all)), closed |-> FALSE]]
          : k \in 0..Len(all)}

\* apply_compression(): what it may return, and the compressor after it.
Compressed(data, more) ==
  LET all == file.waiting \o data IN
  IF ~accept THEN {[data |-> data, file |-> file]}
  ELSE IF ~more
  THEN {[data |-> file.buffer \o all \o <<Trailer>>,
         file |-> [buffer |-> <<>>, waiting |-> <<>>, closed |-> TRUE]]}
  ELSE {[data |-> file.buffer \o SubSeq(all, 1, k),
         file |-> [buffer |-> <<>>, waiting |-> SubSeq(all, k + 1, Len(all)), closed |-> FALSE]]
          : k \in 0..Len(all)}

TooSmall(n, more) == n < minimum /\ ~more

Small(n, more) ==
  /\ AppSends(n, more) /\ ~passes /\ ~started /\ TooSmall(n, more)
  /\ started' = TRUE
  /\ Sends(<<Start, Body(Units(n), more)>>)
  /\ UNCHANGED <<minimum, accept, headers, passes, file, wire, received, stale, requests>>

\* The headers of the Response, changed in place; None deletes Content-Length.
Adjusted(changed, length) ==
  [headers EXCEPT !.vary = TRUE,
                  !.encoding = IF changed THEN "gzip" ELSE @,
                  !.length = IF changed THEN length ELSE @]

\* A whole response, or the initial body of a streaming one.
First(n, more) ==
  /\ AppSends(n, more) /\ ~passes /\ ~started /\ ~TooSmall(n, more)
  /\ started' = TRUE
  /\ \E out \in Compressed(Units(n), more) :
       /\ file' = out.file
       /\ headers' = Adjusted(out.data # Units(n), IF more THEN None ELSE Len(out.data))
       /\ Sends(<<Start, Body(out.data, more)>>)
  /\ UNCHANGED <<minimum, accept, passes, wire, received, stale, requests>>

\* The same with a message that has no "body": a KeyError when the start was not sent yet
\* and started is already set.
FirstWithoutKey(more) ==
  /\ AppSends(0, more) /\ ~passes /\ ~started /\ ~TooSmall(0, more)
  /\ started' = TRUE
  /\ \E out \in Compressed(<<>>, more) : file' = out.file
  /\ headers' = [headers EXCEPT !.vary = TRUE]
  /\ pc' = "over"
  /\ UNCHANGED <<minimum, accept, passes, outgoing, wire, received, stale, requests>>

Remaining(n, more) ==
  /\ AppSends(n, more) /\ ~passes /\ started
  /\ \E out \in Compressed(Units(n), more) :
       file' = out.file /\ Sends(<<Body(out.data, more)>>)
  /\ UNCHANGED <<minimum, accept, headers, started, passes, wire, received, stale, requests>>

-----------------------------------------------------------------------------
(* The server, the end of the application, and the next request.           *)

Ends(message) == message.type = "pathsend" \/ (message.type = "body" /\ ~message.more_body)

\* `await self.send(message)`: the server takes it, or has lost the client.
Send ==
  /\ pc = "sends"
  /\ LET message == Head(outgoing)
         onWire == IF message.type = "start" THEN [type |-> "start", headers |-> headers] ELSE message
     IN \/ /\ wire' = Append(wire, onWire)
           /\ received' = IF message.type = "body" THEN received \o message.data ELSE received
           /\ outgoing' = Tail(outgoing)
           /\ pc' = IF Len(outgoing) > 1 THEN "sends" ELSE IF Ends(message) THEN "over" ELSE "app"
        \/ pc' = "over" /\ outgoing' = <<>> /\ UNCHANGED <<wire, received>>
  /\ UNCHANGED <<minimum, accept, headers, app, started, passes, file, stale, requests>>

\* A message of another type, as of trailers or of the debug extension, is dropped.
OtherMessage == pc = "app" /\ UNCHANGED vars

\* The application raises, before or after its start.
AppFails ==
  /\ pc = "app"
  /\ pc' = "over"
  /\ UNCHANGED <<minimum, accept, headers, app, started, passes, file, outgoing, wire, received, stale, requests>>

\* Another request is answered by a new Response, or by the same one.
NextRequest ==
  /\ pc = "over" /\ requests < MaxRequests
  /\ requests' = requests + 1
  /\ \/ \E total \in None..MaxUnits : Begin(total) /\ headers' \in Original(total) /\ stale' = FALSE
     \/ Begin(app.total) /\ UNCHANGED headers /\ stale' = (stale \/ headers.encoding = "gzip")

Next ==
  \/ AppStart \/ PathSend
  \/ \E n \in 0..MaxUnits, more \in BOOLEAN :
       PassThrough(n, more) \/ Small(n, more) \/ First(n, more) \/ Remaining(n, more)
  \/ \E more \in BOOLEAN : FirstWithoutKey(more)
  \/ Send \/ OtherMessage \/ AppFails \/ NextRequest

Spec == Init /\ [][Next]_vars

-----------------------------------------------------------------------------
Protocol == INSTANCE ResponseProtocol WITH wire <- wire

HasBody == \E i \in DOMAIN wire : wire[i].type = "body"
Told == wire[1].headers
Compressible == ~headers.events /\ headers.encoding # "app"
                /\ (app.first.more \/ app.first.size >= minimum)

\* Withholding the start and sending it with the first body never breaks the order of the
\* messages of a response.
WireInOrder == [][NextRequest \/ Protocol!Next]_wire

\* A response that was sent to its end is, decoded as its Content-Encoding says, what the
\* application sent.
Decodes ==
  Protocol!Complete /\ HasBody =>
    received = IF Told.encoding = "gzip" THEN <<Header>> \o app.data \o <<Trailer>> ELSE app.data

\* That of a Response that is sent once: no unit is left in the compressor.
Decodable == stale \/ Decodes

\* That of every response, also of a Response that is sent again, as one that is mounted as
\* an application is.  It is not so: the headers that the first answer has changed in place
\* say gzip, and the body of the next one is passed on as it is.
DecodesAgain == Decodes

\* A Content-Length that was sent is the number of bytes that follow.
LengthTrue ==
  Protocol!Complete /\ HasBody /\ ~stale /\ Told.length # None => Len(received) = Told.length

\* While the application goes on after a body, what it has sent is with the server, or in the
\* compressor, which is not flushed between two bodies: nothing is lost or out of order on
\* the way.
RestInCompressor ==
  pc = "app" /\ app.sent > 1 /\ ~stale =>
    IF Told.encoding = "gzip"
    THEN received \o file.waiting = <<Header>> \o app.data
    ELSE received = app.data

\* Middleware encodes exactly the responses that it should: for a client that accepts gzip,
\* streaming or of the minimum size, not encoded yet and not of events.
EncodedAsAsked ==
  HasBody /\ ~stale => (Told.encoding = "gzip") = (accept /\ Compressible)

\* A response that another client would get in another encoding says so in Vary, also when
\* this client gets it as it is.
VaryTold == HasBody /\ Compressible => Told.vary

\* What the client gets of a Response that is sent once is what the application has sent, but
\* for what the compressor keeps until the end, and as long as announced; Content-Encoding
\* and Vary say what was done and what would be done for another client.
BodyTrue == TypeOK /\ Decodable /\ LengthTrue /\ RestInCompressor /\ EncodedAsAsked /\ VaryTold

=============================================================================
