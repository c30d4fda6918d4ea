--------------------------- MODULE BackendReplies ---------------------------
(***************************************************************************)
(* BackendClient (src/backend_client.cpp): requests to the Python backend  *)
(* and streams of tokens from it.  A stream's lines arrive in segments;    *)
(* its signals (streamToken, streamComplete, streamError) do not say which *)
(* stream they are of.                                                     *)
(*                                                                         *)
(* QNetworkReply is taken by its contract: data is delivered before the    *)
(* end of a reply, and the end once.  Requests share no state, so that one *)
(* at a time is enough.                                                    *)
(***************************************************************************)
EXTENDS Naturals, Sequences

CONSTANTS
  Streams,    \* chatCompletion and completion calls
  NoStream,
  Kinds,      \* endpoints of requests
  MaxTokens   \* bound: tokens of a stream

VARIABLES
  serving,    \* the backend accepts connections
  stream,     \* the streams: the server's and the client's part
  asked,      \* the stream asked for last
  shown,      \* the streams whose tokens were emitted since
  mixed,      \* history: a stream was asked for while another had tokens to come
  request,    \* the request under way
  misrouted   \* history: an answer was emitted as another's

streamVars == <<stream, asked, shown, mixed>>
requestVars == <<request, misrouted>>
serverVars == <<serving>>
vars == <<serverVars, streamVars, requestVars>>

Lines == {"token", "[DONE]", "error"}

\* A stream: its tokens that have arrived and are not read yet, whether its last
\* line is among them, whether part of a line has arrived, tokens sent, whether
\* the last line ([DONE] or an error) was sent, whether the network failed, and
\* how often its end was reported.
NewStream == [state |-> "none", unread |-> 0, last |-> FALSE, partial |-> FALSE,
              sent |-> 0, ended |-> FALSE, failed |-> FALSE, reports |-> 0]

TypeOK ==
  /\ serving \in BOOLEAN /\ mixed \in BOOLEAN /\ misrouted \in BOOLEAN
  /\ stream \in [Streams ->
       [state : {"none", "open", "closed", "over"}, unread : 0 .. MaxTokens,
        last : BOOLEAN, partial : BOOLEAN, sent : 0 .. MaxTokens, ended : BOOLEAN,
        failed : BOOLEAN, reports : 0 .. 2]]
  /\ asked \in Streams \cup {NoStream}
  /\ shown \in Seq(Streams)
  /\ request \in Kinds \cup {"none"}

Init ==
  /\ serving \in BOOLEAN
  /\ stream = [s \in Streams |-> NewStream] /\ asked = NoStream
  /\ shown = <<>> /\ mixed = FALSE
  /\ request = "none" /\ misrouted = FALSE

-----------------------------------------------------------------------------
(***************************************************************************)
(* Requests.  handleResponse tries the endpoint's patterns in this order.  *)
(***************************************************************************)
Contains ==
  [loaded |-> {"/models/loaded", "/models/load", "/models"},
   load |-> {"/models/load", "/models"},
   unload |-> {"/models/unload", "/models"},
   list |-> {"/models"},
   info |-> {"/system/info"},
   health |-> {"/health"},
   chat |-> {}]

\* The knowledge calls and getSystemStats connect a handler of their own.
Direct == {"knowledge", "stats"}

ConstantsAssumption ==
  /\ NoStream \notin Streams /\ MaxTokens \in Nat
  /\ Kinds \subseteq DOMAIN Contains \cup Direct

\* Each pattern is tried if those before it are not in the endpoint.
Route(kind) ==
  LET has(p) == p \in Contains[kind] IN
  IF has("/models/loaded") THEN "loaded"
  ELSE IF has("/models/load") THEN "load"
  ELSE IF has("/models/unload") THEN "unload"
  ELSE IF has("/models") THEN "list"
  ELSE IF has("/system/info") THEN "info"
  ELSE IF has("/health") THEN "health" ELSE "none"

makeRequest ==
  /\ request = "none"
  /\ request' \in Kinds
  /\ UNCHANGED <<serverVars, streamVars, misrouted>>

\* An answer emits a signal of its kind, or none: it does not parse, or it
\* answers chatCompletion(message), which no pattern matches.
handleResponse ==
  /\ request # "none" /\ serving
  /\ request' = "none"
  /\ misrouted' = (misrouted \/ (request \notin Direct
                                /\ Route(request) \notin {request, "none"}))
  /\ UNCHANGED <<serverVars, streamVars>>

\* backendError, knowledgeError, or, for getSystemStats, nothing.
handleError ==
  /\ request # "none"
  /\ request' = "none"
  /\ UNCHANGED <<serverVars, streamVars, misrouted>>

-----------------------------------------------------------------------------
(***************************************************************************)
(* Streams.  The server sends lines, in segments that may end within one.  *)
(***************************************************************************)
MayStillShow(s) ==
  stream[s].unread > 0 \/ (stream[s].state = "open" /\ ~stream[s].ended)

chatCompletion(s) ==
  /\ stream[s].state = "none"
  /\ stream' = [stream EXCEPT ![s].state = IF serving THEN "open" ELSE "closed",
                              ![s].failed = ~serving]
  /\ asked' = s /\ shown' = <<>>
  /\ mixed' = (mixed \/ \E u \in Streams \ {s} : MayStillShow(u))
  /\ UNCHANGED <<serverVars, requestVars>>

sendPart(s) ==
  /\ serving
  /\ stream[s].state = "open" /\ ~stream[s].partial /\ ~stream[s].ended
  /\ stream' = [stream EXCEPT ![s].partial = TRUE]
  /\ UNCHANGED <<serverVars, asked, shown, mixed, requestVars>>

sendRest(s) ==
  /\ serving
  /\ stream[s].state = "open" /\ stream[s].partial
  /\ \E line \in Lines :
       /\ line = "token" => stream[s].sent < MaxTokens
       /\ stream' = [stream EXCEPT
            ![s].partial = FALSE,
            ![s].unread = IF line = "token" THEN @ + 1 ELSE @,
            ![s].sent = IF line = "token" THEN @ + 1 ELSE @,
            ![s].last = (line # "token"),
            ![s].ended = (line # "token")]
  /\ UNCHANGED <<serverVars, asked, shown, mixed, requestVars>>

\* The server closes the connection, or the network breaks it.
sendEnd(s) ==
  /\ stream[s].state = "open"
  /\ \E broken \in BOOLEAN :
       stream' = [stream EXCEPT ![s].state = "closed", ![s].failed = broken]
  /\ UNCHANGED <<serverVars, asked, shown, mixed, requestVars>>

\* Whole lines have arrived.
CanReadLine(s) == stream[s].unread > 0 \/ stream[s].last

\* What breaks off with the child.
Broken == [s \in Streams |-> IF stream[s].state = "open"
                             THEN [stream[s] EXCEPT !.state = "closed", !.failed = TRUE]
                             ELSE stream[s]]

\* The backend starts to serve, or dies.
serverChanges ==
  /\ serving' = ~serving
  /\ stream' = IF serving THEN Broken ELSE stream
  /\ UNCHANGED <<asked, shown, mixed, requestVars>>

\* Defect: whatever has arrived is taken for lines.
readyReadUnbuffered(s) ==
  /\ CanReadLine(s) \/ stream[s].partial
  /\ shown' = shown \o [i \in 1 .. stream[s].unread + (IF stream[s].partial THEN 1 ELSE 0) |-> s]
  /\ stream' = [stream EXCEPT ![s].unread = 0, ![s].last = FALSE, ![s].partial = FALSE,
                              ![s].reports = IF stream[s].last THEN @ + 1 ELSE @]
  /\ UNCHANGED <<serverVars, asked, mixed, requestVars>>

\* All whole lines are read: tokens, streamComplete, streamError.
readyRead(s) ==
  /\ CanReadLine(s)
  /\ shown' = shown \o [i \in 1 .. stream[s].unread |-> s]
  /\ stream' = [stream EXCEPT ![s].unread = 0, ![s].last = FALSE,
                              ![s].reports = IF stream[s].last THEN @ + 1 ELSE @]
  /\ UNCHANGED <<serverVars, asked, mixed, requestVars>>

\* streamError for a network error, nothing otherwise.
finished(s) ==
  /\ stream[s].state = "closed" /\ ~CanReadLine(s)
  /\ stream' = [stream EXCEPT ![s].state = "over",
                              ![s].reports = IF stream[s].failed THEN @ + 1 ELSE @]
  /\ UNCHANGED <<serverVars, asked, shown, mixed, requestVars>>

-----------------------------------------------------------------------------
Stream(s) ==
  \/ chatCompletion(s) \/ sendPart(s) \/ sendRest(s) \/ sendEnd(s)
  \/ readyRead(s) \/ finished(s)

Next ==
  \/ serverChanges \/ makeRequest \/ handleResponse \/ handleError
  \/ \E s \in Streams : Stream(s)

Spec == Init /\ [][Next]_vars

\* The event loop delivers.
Delivers(s) == WF_vars(readyRead(s)) /\ WF_vars(finished(s))
Fairness == \A s \in Streams : Delivers(s)

-----------------------------------------------------------------------------
(***************************************************************************)
(* Properties.                                                             *)
(***************************************************************************)

\* What is shown is the tokens of the stream asked for last, each once and no
\* others, however lines are cut into segments, as long as no stream was asked
\* for while another had tokens to come (backend_client.cpp:360, :384).
TextIsWhole ==
  asked # NoStream /\ ~mixed =>
    shown = [i \in 1 .. stream[asked].sent - stream[asked].unread |-> asked]

\* A stream's end is reported exactly once, except that one that closes with
\* neither [DONE] nor an error is not reported at all, and one that breaks
\* after [DONE] is reported twice (backend_client.cpp:367, :401, :405).
EndIsToldOnce ==
  \A s \in Streams : stream[s].state = "over" =>
    stream[s].reports = (IF stream[s].ended THEN 1 ELSE 0)
                          + (IF stream[s].failed THEN 1 ELSE 0)

\* No answer is emitted as the answer to another kind of request, though the
\* endpoints contain each other's patterns (backend_client.cpp:336).
RoutedRight == ~misrouted

\* Streams that have closed come to be reported, whatever else the client does.
StreamsEnd == \A s \in Streams : stream[s].state = "closed" ~> stream[s].state = "over"

=============================================================================
