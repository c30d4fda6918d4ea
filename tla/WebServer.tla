------------------------------ MODULE WebServer -----------------------------
(***************************************************************************)
(* The local HTTP server (web_server.cpp).  Whatever a socket has to read  *)
(* when it says so is taken for a whole request; a request that arrives in *)
(* two segments is therefore read as one or as two.  A request is its      *)
(* method, its path and the place where it is cut.  Texts are left out,    *)
(* and with them Content-Length, which counts UTF-16 units and not bytes;  *)
(* the body of a POST is one line of JSON.                                 *)
(***************************************************************************)
EXTENDS Naturals, Sequences

CONSTANTS Clients

VARIABLES serving,   \* m_running and the listening socket
          ephemeral, \* the port asked for was taken
          backend,   \* m_backend is set
          conn       \* each client's connection

webVars == <<serving, ephemeral, backend, conn>>

Methods == {"OPTIONS", "POST", "other"}

\* An endpoint that takes no data, one that takes the data of a POST, an unknown
\* one under /api/, any other path.
Paths == {"query", "command", "unknown", "page"}

\* Within the first word, within the path or at its ends, in the headers, before
\* the end of the body; or nowhere.
Cuts == {"method", "path", "headers", "body", "none"}

\* What can come back; "empty" is of an endpoint called without the data it takes.
Answers == Paths \union {"preflight", "empty"}

\* arrived: segments the socket has not read; read: segments it has; torn: some
\* segment was read alone; calls: backend calls made for the request.
Connection == [state : {"none", "open", "closing", "closed"},
               method : Methods, path : Paths, cut : Cuts,
               arrived : 0..2, read : 0..2, torn : BOOLEAN,
               answers : Seq(Answers), calls : 0..2]

TypeOK ==
  /\ serving \in BOOLEAN /\ ephemeral \in BOOLEAN /\ backend \in BOOLEAN
  /\ conn \in [Clients -> Connection]

Fresh == [state |-> "none", method |-> "other", path |-> "page", cut |-> "none",
          arrived |-> 0, read |-> 0, torn |-> FALSE, answers |-> <<>>, calls |-> 0]

Init == serving = FALSE /\ ephemeral = FALSE /\ backend = FALSE /\ conn = [c \in Clients |-> Fresh]

Segments(r) == IF r.cut = "none" THEN 1 ELSE 2

-----------------------------------------------------------------------------
\* A server that runs is not moved to another port.  The port asked for may be
\* taken; that no port at all is left changes nothing.
startServer ==
  /\ ~serving /\ serving' = TRUE /\ ephemeral' \in BOOLEAN
  /\ UNCHANGED <<backend, conn>>

\* Open connections are served on.
stopServer ==
  /\ serving /\ serving' = FALSE
  /\ UNCHANGED <<ephemeral, backend, conn>>

setBackend ==
  /\ ~backend /\ backend' = TRUE
  /\ UNCHANGED <<serving, ephemeral, conn>>

\* A client connects and onNewConnection takes the connection.
onNewConnection(c) ==
  /\ serving /\ conn[c].state = "none"
  /\ \E m \in Methods, p \in Paths, cut \in Cuts :
       /\ cut = "body" => m = "POST"
       /\ conn' = [conn EXCEPT ![c] = [Fresh EXCEPT !.state = "open", !.method = m,
                                                   !.path = p, !.cut = cut]]
  /\ UNCHANGED <<serving, ephemeral, backend>>

\* The network delivers the next segment, also while the socket is closing.
segmentArrives(c) ==
  /\ conn[c].state \in {"open", "closing"}
  /\ conn[c].arrived + conn[c].read < Segments(conn[c])
  /\ conn' = [conn EXCEPT ![c].arrived = @ + 1]
  /\ UNCHANGED <<serving, ephemeral, backend>>

-----------------------------------------------------------------------------
\* A text whose first line has two words at least, as handleHttpRequest takes it:
\* the first and the second word, and whether JSON is behind the last empty line.
Text(m, p, json) == [method |-> m, path |-> p, json |-> json]

\* A part of a path is that of a page, or under /api/ unknown.
PartsOf(p) == IF p = "page" THEN {"page"} ELSE {p, "unknown", "page"}

\* The segments of a request, read as one.
Whole(r) == {Text(r.method, r.path, r.method = "POST")}

\* The first of them, read alone: it lacks the end of the body, if no more.
First(r) ==
  CASE r.cut = "method" -> {}
    [] r.cut = "path" -> {Text(r.method, p, FALSE) : p \in PartsOf(r.path)}
    [] OTHER -> {Text(r.method, r.path, FALSE)}

\* The second: behind a method cut short, or a path, which the version follows;
\* or a line of the headers or of the body, whose words may be any.
Second(r) ==
  CASE r.cut = "method" -> {Text("other", r.path, r.method = "POST")}
    [] r.cut = "path" -> {Text(m, "page", r.method = "POST") : m \in Methods}
    [] OTHER -> {Text(m, p, r.cut = "headers" /\ r.method = "POST")
                   : m \in Methods, p \in Paths}

\* There may be one word only in the rest of a line, and always is in the method.
OneWord(r) == IF r.read = 0 THEN r.cut = "method" ELSE r.cut \in {"headers", "body"}

\* What handleHttpRequest answers to a text of two words.
Answer(text) ==
  IF text.method = "OPTIONS" THEN "preflight"
  ELSE IF text.path = "command" /\ ~(text.method = "POST" /\ text.json) THEN "empty"
  ELSE text.path

\* Variant with a defect: what was read before stays in front of the rest.
HandledBuffered(r) ==
  IF r.read + r.arrived = Segments(r) THEN {<<Answer(t)>> : t \in Whole(r)}
  ELSE {<<Answer(t)>> : t \in First(r)} \union (IF OneWord(r) THEN {<<>>} ELSE {})

\* The answer to what has arrived, which is read at once: one, or none.
Handled(r) ==
  IF r.read = 0 /\ r.arrived = Segments(r) THEN {<<Answer(t)>> : t \in Whole(r)}
  ELSE {<<Answer(t)>> : t \in IF r.read = 0 THEN First(r) ELSE Second(r)}
         \union (IF OneWord(r) THEN {<<>>} ELSE {})

\* The answers that stand for a call of the backend; without one they say so.
CallsBackend(answer) ==
  \E i \in DOMAIN answer : answer[i] \in {"query", "command", "empty"}

\* Everything that has arrived is read at once and handled.  An answer is
\* followed by disconnectFromHost, which lets what is written go out first.
onSocketReadyRead(c) ==
  LET r == conn[c] IN
  /\ r.state \in {"open", "closing"} /\ r.arrived > 0
  /\ \E answer \in Handled(r) :
       conn' = [conn EXCEPT ![c] =
         [r EXCEPT !.read = @ + r.arrived, !.arrived = 0,
                   !.torn = @ \/ r.arrived < Segments(r),
                   !.answers = @ \o answer,
                   !.calls = IF backend /\ CallsBackend(answer) THEN @ + 1 ELSE @,
                   !.state = IF answer = <<>> THEN @ ELSE "closing"]]
  /\ UNCHANGED <<serving, ephemeral, backend>>

\* The answer is out and the socket deletes itself; or the client hangs up.
disconnected(c) ==
  /\ conn[c].state = "closing"
  /\ conn' = [conn EXCEPT ![c].state = "closed"]
  /\ UNCHANGED <<serving, ephemeral, backend>>

clientLeaves(c) ==
  /\ conn[c].state = "open"
  /\ conn' = [conn EXCEPT ![c].state = "closed"]
  /\ UNCHANGED <<serving, ephemeral, backend>>

Next ==
  \/ startServer \/ stopServer \/ setBackend
  \/ \E c \in Clients :
       \/ onNewConnection(c) \/ segmentArrives(c) \/ onSocketReadyRead(c)
       \/ disconnected(c) \/ clientLeaves(c)

\* The event loop delivers readyRead and disconnected.
Delivers(c) == WF_webVars(onSocketReadyRead(c)) /\ WF_webVars(disconnected(c))
Fairness == \A c \in Clients : Delivers(c)

-----------------------------------------------------------------------------
\* Whatever it is cut into, a request acts with its data at most once; and one
\* that arrives whole, or is cut within its first line, calls the backend at most
\* once.  (One cut later may call it twice: the second word of the rest's first
\* line is taken for a path, web_server.cpp:109.)
ActsOnce ==
  \A c \in Clients : LET r == conn[c] IN
    /\ \A i, j \in DOMAIN r.answers :
         r.answers[i] = "command" /\ r.answers[j] = "command" => i = j
    /\ ~r.torn \/ r.cut \notin {"headers", "body"} => r.calls <= 1

\* A connection whose request has arrived as a whole is answered and closed.
ConnectionsClose ==
  \A c \in Clients :
    (conn[c].state = "open" /\ conn[c].arrived + conn[c].read = Segments(conn[c]))
      ~> conn[c].state = "closed"

=============================================================================
