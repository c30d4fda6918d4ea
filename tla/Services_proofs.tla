--------------------------- MODULE Services_proofs --------------------------
(***************************************************************************)
(* Theorems about the smaller parts, for any streams, models, files,       *)
(* clients and texts, and any bounds.  The parts share no state: each has  *)
(* an inductive invariant of its own, which the others' steps leave alone. *)
(***************************************************************************)
EXTENDS Services, FiniteSetTheorems, SequenceTheorems, TLAPS

\* A step is one of a part, as far as that part's variables are concerned.
LEMMA PartsMove ==
  ASSUME [Next]_vars
  PROVE  /\ Process!Next \/ UNCHANGED processVars
         /\ Replies!Next \/ UNCHANGED replyVars
         /\ Downloads!Next \/ UNCHANGED downloadVars
         /\ PluginList!Next \/ UNCHANGED pluginVars
         /\ Web!Next \/ UNCHANGED webVars
         /\ Chunker!Next \/ UNCHANGED chunkVars
         /\ Panel!Next \/ UNCHANGED panelVars
  BY DEF Next, vars

-----------------------------------------------------------------------------
(***************************************************************************)
(* The child process of BackendClient.  The flag agrees with the signals   *)
(* inside the calls, too; and a call that ends with a child running leaves *)
(* a mishap to explain it.                                                 *)
(***************************************************************************)
Told == "restarted early" \notin mishaps => (flag <=> told = "started")

Explained ==
  /\ child = "running" /\ ~flag /\ call # "start" => mishaps # {}
  /\ child = "running" /\ call = "ended" => mishaps # {}

ProcessInv == Process!TypeOK /\ Told /\ Explained

LEMMA ProcessInit == Init => ProcessInv
<1> SUFFICES ASSUME Init PROVE ProcessInv
  OBVIOUS
<1>1. MaxChecks \in Nat /\ MaxStarts \in Nat
  BY PartsAssumption DEF Process!ConstantsAssumption
<1>2. checks \in [Process!Waits -> 0 .. MaxChecks] /\ starts \in 0 .. MaxStarts
  BY <1>1, SMT DEF Init, Process!Init
<1> QED
  BY <1>2, Zenon DEF Init, Process!Init, ProcessInv, Process!TypeOK, Told, Explained

\* The counters keep within their bounds.
LEMMA ProcessCounts ==
  ASSUME checks \in [Process!Waits -> 0 .. MaxChecks], starts \in 0 .. MaxStarts, Process!Next
  PROVE  checks' \in [Process!Waits -> 0 .. MaxChecks] /\ starts' \in 0 .. MaxStarts
<1>1. MaxChecks \in Nat /\ MaxStarts \in Nat
  BY PartsAssumption DEF Process!ConstantsAssumption
<1>2. \/ checks' = checks
      \/ \E w \in Process!Waits :
           \/ checks' = [checks EXCEPT ![w] = 0]
           \/ checks' = [checks EXCEPT ![w] = MaxChecks]
           \/ checks[w] > 0 /\ checks' = [checks EXCEPT ![w] = checks[w] - 1]
  BY Zenon DEF Process!Next, Process!Child, Process!Starting, Process!Stopping, Process!Checking,
   Process!childStarts, Process!childStartFails, Process!childDies, Process!started,
   Process!startFails, Process!stopKills, Process!stopEnds, Process!onBackendFinished,
   Process!checkSucceeds, Process!checkFails, Process!startBackend, Process!stopBackend,
   Process!destroy, Process!destroyed, Process!waitForBackendReady, Process!Innermost
<1>3. starts' = starts \/ (starts < MaxStarts /\ starts' = starts + 1)
  BY Zenon DEF Process!Next, Process!Child, Process!Starting, Process!Stopping, Process!Checking,
   Process!childStarts, Process!childStartFails, Process!childDies, Process!started,
   Process!startFails, Process!stopKills, Process!stopEnds, Process!onBackendFinished,
   Process!Restart, Process!RestartLate, Process!processVars,
   Process!checkSucceeds, Process!checkFails, Process!startBackend, Process!stopBackend,
   Process!destroy, Process!destroyed, Process!waitForBackendReady
<1>4. ASSUME NEW w \in Process!Waits, checks[w] > 0
      PROVE  checks[w] - 1 \in 0 .. MaxChecks
  <2>1. checks[w] \in 0 .. MaxChecks
    OBVIOUS
  <2> QED
    BY <1>1, <1>4, <2>1
<1>5. checks' \in [Process!Waits -> 0 .. MaxChecks]
  <2>0. 0 \in 0 .. MaxChecks /\ MaxChecks \in 0 .. MaxChecks
    BY <1>1
  <2>1. CASE checks' = checks
    BY <2>1
  <2>2. ASSUME NEW w \in Process!Waits,
               \/ checks' = [checks EXCEPT ![w] = 0]
               \/ checks' = [checks EXCEPT ![w] = MaxChecks]
               \/ checks[w] > 0 /\ checks' = [checks EXCEPT ![w] = checks[w] - 1]
        PROVE  checks' \in [Process!Waits -> 0 .. MaxChecks]
    BY <2>0, <2>2, <1>4
  <2> QED
    BY <1>2, <2>1, <2>2
<1> QED
  BY <1>3, <1>5, <1>1

LEMMA ProcessNext == ProcessInv /\ [Next]_vars => ProcessInv'
<1> SUFFICES ASSUME ProcessInv, [Next]_vars PROVE ProcessInv'
  OBVIOUS
<1>0. Process!Next => checks' \in [Process!Waits -> 0 .. MaxChecks] /\ starts' \in 0 .. MaxStarts
  BY ProcessCounts DEF ProcessInv, Process!TypeOK
<1> USE DEF ProcessInv, Process!TypeOK, Told, Explained, Process!Mishaps,
              Process!processVars
<1>a. CASE Process!Next
  <2>0. checks' \in [Process!Waits -> 0 .. MaxChecks] /\ starts' \in 0 .. MaxStarts
    BY <1>0, <1>a
  <2>1. CASE Process!childStarts
    BY <2>0, <2>1, Zenon DEF Process!childStarts
  <2>2. CASE Process!childStartFails
    BY <2>0, <2>2, Zenon DEF Process!childStartFails
  <2>3. CASE Process!childDies
    BY <2>0, <2>3, Zenon DEF Process!childDies
  <2>4. CASE Process!started
    BY <2>0, <2>4, Zenon DEF Process!started
  <2>5. CASE Process!startFails
    BY <2>0, <2>5, Zenon DEF Process!startFails
  <2>6. CASE Process!stopKills
    BY <2>0, <2>6, Zenon DEF Process!stopKills
  <2>7. CASE Process!stopEnds
    BY <2>0, <2>7, Zenon DEF Process!stopEnds
  <2>8. CASE Process!onBackendFinished
    BY <2>0, <2>8, Zenon DEF Process!onBackendFinished, Process!Restart, Process!RestartLate
  <2>9. CASE \E w \in Process!Waits : Process!checkSucceeds(w)
    <3>1. UNCHANGED <<child, flag, call, phase, starts, told, mishaps>>
      BY <2>9, Zenon DEF Process!checkSucceeds
    <3> QED
      BY <2>0, <3>1, Zenon
  <2>10. CASE \E w \in Process!Waits : Process!checkFails(w)
    <3>1. UNCHANGED <<child, flag, call, phase, starts, told, mishaps>>
      BY <2>10, Zenon DEF Process!checkFails
    <3> QED
      BY <2>0, <3>1, Zenon
  <2>11. CASE Process!startBackend
    BY <2>0, <2>11, Zenon DEF Process!startBackend
  <2>12. CASE Process!stopBackend
    BY <2>0, <2>12, Zenon DEF Process!stopBackend
  <2>13. CASE Process!destroy
    BY <2>0, <2>13, Zenon DEF Process!destroy
  <2>14. CASE Process!destroyed
    BY <2>0, <2>14, Zenon DEF Process!destroyed
  <2>15. CASE \E w \in Process!Waits : Process!waitForBackendReady(w)
    <3>1. UNCHANGED <<child, flag, call, phase, starts, told, mishaps>>
      BY <2>15, Zenon DEF Process!waitForBackendReady
    <3> QED
      BY <2>0, <3>1, Zenon
  <2> QED
    BY <1>a, <2>1, <2>2, <2>3, <2>4, <2>5, <2>6, <2>7, <2>8, <2>9, <2>10, <2>11, <2>12, <2>13, <2>14, <2>15
       DEF Process!Next, Process!Child, Process!Starting, Process!Stopping, Process!Checking
<1>b. CASE UNCHANGED processVars
  BY <1>b DEF processVars
<1> QED
  BY <1>a, <1>b, PartsMove

LEMMA ProcessInvariance == Spec => []ProcessInv
BY ProcessInit, ProcessNext, PTL DEF Spec

\* Between calls, the client's flag says what its signals said, and a child
\* that runs unknown to it has a mishap behind it, for any number of children
\* (backend_client.cpp:98, :138, :437).
THEOREM ChildStaysKnown == Spec => []ChildIsKnown
<1>1. ProcessInv => ChildIsKnown
  BY DEF ProcessInv, Process!TypeOK, Told, Explained, Process!Mishaps, ChildIsKnown,
         Process!FlagIsTold, Process!NoStrayChild
<1> QED
  BY <1>1, ProcessInvariance, PTL

-----------------------------------------------------------------------------
(***************************************************************************)
(* Streams and requests of BackendClient.  A stream's reports are those of *)
(* its last line once that is read, and of its end; what a stream was      *)
(* asked for after is mute, unless the two were mixed.                     *)
(***************************************************************************)
Reply == [state : {"none", "open", "closed", "over"}, unread : 0 .. MaxTokens,
          last : BOOLEAN, partial : BOOLEAN, sent : 0 .. MaxTokens, ended : BOOLEAN,
          failed : BOOLEAN, reports : 0 .. 2]

Reported(r) ==
  (IF r.ended /\ ~r.last THEN 1 ELSE 0) + (IF r.state = "over" /\ r.failed THEN 1 ELSE 0)

Kept(r) ==
  /\ r.reports = Reported(r)
  /\ r.unread <= r.sent
  /\ (r.last => r.ended) /\ (r.ended => ~r.partial)
  /\ r.state \in {"none", "over"} => r.unread = 0 /\ ~r.last
  /\ r.state = "none" => r.sent = 0 /\ ~r.ended

Mute == ~mixed => \A u \in Streams \ {asked} : ~Replies!MayStillShow(u)

StreamsKept == \A s \in Streams : Kept(stream[s])

RepliesInv ==
  /\ Replies!TypeOK /\ StreamsKept /\ Mute
  /\ Replies!TextIsWhole /\ Replies!RoutedRight

\* The same sign written twice.
LEMMA Repeats ==
  ASSUME NEW s, NEW m \in Nat, NEW n \in Nat
  PROVE  [i \in 1 .. m |-> s] \o [i \in 1 .. n |-> s] = [i \in 1 .. m + n |-> s]
  OBVIOUS

\* No answer goes to another kind of request: the longest pattern is tried first.
LEMMA RouteIsRight ==
  ASSUME NEW k \in DOMAIN Replies!Contains
  PROVE  Replies!Route(k) \in {k, "none"}
<1>1. k \in {"loaded", "load", "unload", "list", "info", "health", "chat"}
  BY DEF Replies!Contains
<1>2. CASE k = "loaded"
  BY <1>2 DEF Replies!Contains, Replies!Route
<1>3. CASE k = "load"
  BY <1>3 DEF Replies!Contains, Replies!Route
<1>4. CASE k = "unload"
  BY <1>4 DEF Replies!Contains, Replies!Route
<1>5. CASE k = "list"
  BY <1>5 DEF Replies!Contains, Replies!Route
<1>6. CASE k = "info"
  BY <1>6 DEF Replies!Contains, Replies!Route
<1>7. CASE k = "health"
  BY <1>7 DEF Replies!Contains, Replies!Route
<1>8. CASE k = "chat"
  BY <1>8 DEF Replies!Contains, Replies!Route
<1> QED
  BY <1>1, <1>2, <1>3, <1>4, <1>5, <1>6, <1>7, <1>8

LEMMA RepliesInit == Init => RepliesInv
<1> SUFFICES ASSUME Init PROVE RepliesInv
  OBVIOUS
<1>1. MaxTokens \in Nat /\ NoStream \notin Streams
  BY PartsAssumption DEF Replies!ConstantsAssumption
<1>2. Replies!NewStream \in Reply /\ Kept(Replies!NewStream)
  BY <1>1 DEF Replies!NewStream, Reply, Kept, Reported
<1>3. stream = [s \in Streams |-> Replies!NewStream] /\ asked = NoStream
      /\ shown = <<>> /\ mixed = FALSE /\ request = "none" /\ misrouted = FALSE
      /\ serving \in BOOLEAN
  BY DEF Init, Replies!Init
<1>4. Replies!TypeOK
  <2>1. stream \in [Streams -> Reply] /\ shown \in Seq(Streams)
    BY <1>2, <1>3
  <2> QED
    BY <2>1, <1>3, Zenon DEF Replies!TypeOK, Reply
<1>5. StreamsKept
  BY <1>2, <1>3 DEF StreamsKept
<1>6. Mute
  BY <1>3 DEF Mute, Replies!MayStillShow, Replies!NewStream
<1> QED
  BY <1>3, <1>4, <1>5, <1>6 DEF RepliesInv, Replies!TextIsWhole, Replies!RoutedRight

May(r) == r.unread > 0 \/ (r.state = "open" /\ ~r.ended)

\* One stream changes, and keeps what its record promises.
LEMMA StreamChanges ==
  ASSUME RepliesInv, NEW s \in Streams, NEW r \in Reply, Kept(r),
         stream' = [stream EXCEPT ![s] = r]
  PROVE  stream' \in [Streams -> Reply] /\ StreamsKept' /\ stream'[s] = r
         /\ \A u \in Streams \ {s} : stream'[u] = stream[u]
<1>1. stream \in [Streams -> Reply] /\ StreamsKept
  BY Zenon DEF RepliesInv, Replies!TypeOK, Reply
<1> QED
  BY <1>1 DEF StreamsKept

\* ... and if no text is shown, and it has no more to show than before, what
\* is shown stays whole.
LEMMA StreamGoesOn ==
  ASSUME RepliesInv, NEW s \in Streams, NEW r \in Reply, Kept(r),
         stream' = [stream EXCEPT ![s] = r],
         May(r) => Replies!MayStillShow(s),
         r.sent - r.unread = stream[s].sent - stream[s].unread,
         UNCHANGED <<serving, asked, shown, mixed, request, misrouted>>
  PROVE  RepliesInv'
<1>1. stream' \in [Streams -> Reply] /\ StreamsKept' /\ stream'[s] = r
      /\ \A u \in Streams \ {s} : stream'[u] = stream[u]
  BY StreamChanges
<1>2. Replies!TypeOK'
  BY <1>1, Zenon DEF RepliesInv, Replies!TypeOK, Reply
<1>3. Mute'
  BY <1>1 DEF RepliesInv, Mute, Replies!MayStillShow, May
<1>4. Replies!TextIsWhole'
  <2> SUFFICES ASSUME asked # NoStream, ~mixed
               PROVE  shown = [i \in 1 .. stream'[asked].sent - stream'[asked].unread |-> asked]
    BY DEF Replies!TextIsWhole
  <2>1. asked \in Streams
    BY Zenon DEF RepliesInv, Replies!TypeOK
  <2>2. stream'[asked].sent - stream'[asked].unread = stream[asked].sent - stream[asked].unread
    BY <1>1, <2>1
  <2> QED
    BY <2>2, Zenon DEF RepliesInv, Replies!TextIsWhole
<1> QED
  BY <1>1, <1>2, <1>3, <1>4, Zenon DEF RepliesInv, Replies!RoutedRight

LEMMA RepliesStreams ==
  ASSUME RepliesInv, NEW s \in Streams, Replies!Stream(s)
  PROVE  RepliesInv'
<1>0. MaxTokens \in Nat /\ NoStream \notin Streams
  BY PartsAssumption DEF Replies!ConstantsAssumption
<1>1. stream \in [Streams -> Reply] /\ stream[s] \in Reply /\ Kept(stream[s])
  BY DEF RepliesInv, Replies!TypeOK, Reply, StreamsKept
<1>2. CASE Replies!sendPart(s)
  <2>1. PICK r : r = [stream[s] EXCEPT !.partial = TRUE]
    OBVIOUS
  <2>2. r \in Reply /\ Kept(r) /\ (May(r) => Replies!MayStillShow(s))
        /\ r.sent - r.unread = stream[s].sent - stream[s].unread
    BY <1>1, <1>2, <2>1 DEF Replies!sendPart, Reply, Kept, Reported, May, Replies!MayStillShow
  <2>3. stream' = [stream EXCEPT ![s] = r]
    BY <1>1, <1>2, <2>1 DEF Replies!sendPart
  <2> QED
    BY <1>2, <2>2, <2>3, StreamGoesOn DEF Replies!sendPart, Replies!serverVars, Replies!requestVars
<1>3. CASE Replies!sendRest(s)
  <2>1. PICK line \in Replies!Lines :
          /\ line = "token" => stream[s].sent < MaxTokens
          /\ stream' = [stream EXCEPT
               ![s].partial = FALSE,
               ![s].unread = IF line = "token" THEN @ + 1 ELSE @,
               ![s].sent = IF line = "token" THEN @ + 1 ELSE @,
               ![s].last = (line # "token"),
               ![s].ended = (line # "token")]
    BY <1>3 DEF Replies!sendRest
  <2>2. PICK r : r = [stream[s] EXCEPT
               !.partial = FALSE,
               !.unread = IF line = "token" THEN @ + 1 ELSE @,
               !.sent = IF line = "token" THEN @ + 1 ELSE @,
               !.last = (line # "token"),
               !.ended = (line # "token")]
    OBVIOUS
  <2>3. r \in Reply /\ Kept(r) /\ (May(r) => Replies!MayStillShow(s))
        /\ r.sent - r.unread = stream[s].sent - stream[s].unread
    BY <1>0, <1>1, <1>3, <2>1, <2>2
       DEF Replies!sendRest, Reply, Kept, Reported, May, Replies!MayStillShow
  <2>4. stream' = [stream EXCEPT ![s] = r]
    BY <1>1, <2>1, <2>2
  <2> QED
    BY <1>3, <2>3, <2>4, StreamGoesOn DEF Replies!sendRest, Replies!serverVars, Replies!requestVars
<1>4. CASE Replies!sendEnd(s)
  <2>1. PICK broken \in BOOLEAN :
          stream' = [stream EXCEPT ![s].state = "closed", ![s].failed = broken]
    BY <1>4 DEF Replies!sendEnd
  <2>2. PICK r : r = [stream[s] EXCEPT !.state = "closed", !.failed = broken]
    OBVIOUS
  <2>3. r \in Reply /\ Kept(r) /\ (May(r) => Replies!MayStillShow(s))
        /\ r.sent - r.unread = stream[s].sent - stream[s].unread
    BY <1>1, <1>4, <2>1, <2>2
       DEF Replies!sendEnd, Reply, Kept, Reported, May, Replies!MayStillShow
  <2>4. stream' = [stream EXCEPT ![s] = r]
    BY <1>1, <2>1, <2>2
  <2> QED
    BY <1>4, <2>3, <2>4, StreamGoesOn DEF Replies!sendEnd, Replies!serverVars, Replies!requestVars
<1>5. CASE Replies!finished(s)
  <2>1. PICK r : r = [stream[s] EXCEPT !.state = "over",
                        !.reports = IF stream[s].failed THEN @ + 1 ELSE @]
    OBVIOUS
  <2>2. r \in Reply /\ Kept(r) /\ (May(r) => Replies!MayStillShow(s))
        /\ r.sent - r.unread = stream[s].sent - stream[s].unread
    <3>1. stream[s].unread = 0 /\ ~stream[s].last /\ stream[s].state = "closed"
      BY <1>1, <1>5 DEF Replies!finished, Replies!CanReadLine, Reply
    <3>2. stream[s].reports = IF stream[s].ended THEN 1 ELSE 0
      BY <1>1, <3>1 DEF Kept, Reported
    <3>3. r.reports = (IF r.ended THEN 1 ELSE 0) + (IF r.failed THEN 1 ELSE 0) /\ r.state = "over"
          /\ r.unread = 0 /\ ~r.last /\ r.sent = stream[s].sent /\ r.partial = stream[s].partial
          /\ r.ended = stream[s].ended /\ r.failed = stream[s].failed
      BY <1>1, <2>1, <3>1, <3>2 DEF Reply
    <3>4. Kept(r)
      BY <1>1, <3>3, <3>1 DEF Kept, Reported, Reply
    <3>5. r \in Reply
      <4>1. r.reports \in 0 .. 2 /\ "over" \in {"none", "open", "closed", "over"}
        BY <3>3
      <4> QED
        BY <1>1, <2>1, <3>1, <3>2, <4>1 DEF Reply
    <3> QED
      BY <3>1, <3>3, <3>4, <3>5 DEF May
  <2>3. stream' = [stream EXCEPT ![s] = r]
    BY <1>1, <1>5, <2>1 DEF Replies!finished
  <2> QED
    BY <1>5, <2>2, <2>3, StreamGoesOn DEF Replies!finished, Replies!serverVars, Replies!requestVars
<1>6. CASE Replies!chatCompletion(s)
  <2>1. PICK r : r = [stream[s] EXCEPT !.state = IF serving THEN "open" ELSE "closed",
                                       !.failed = ~serving]
    OBVIOUS
  <2>2. r \in Reply /\ Kept(r) /\ r.sent - r.unread = 0
    <3>1. stream[s].unread = 0 /\ ~stream[s].last /\ stream[s].state = "none" /\ serving \in BOOLEAN
          /\ stream[s].sent = 0 /\ ~stream[s].ended /\ stream[s].reports = 0
      BY <1>1, <1>6 DEF Replies!chatCompletion, Reply, Kept, Reported, RepliesInv, Replies!TypeOK
    <3>2. r \in Reply
      BY <1>1, <2>1, <3>1 DEF Reply
    <3> QED
      BY <1>1, <2>1, <3>1, <3>2 DEF Reply, Kept, Reported
  <2>3. stream' = [stream EXCEPT ![s] = r]
    BY <1>1, <1>6, <2>1 DEF Replies!chatCompletion
  <2>4. stream' \in [Streams -> Reply] /\ StreamsKept' /\ stream'[s] = r
        /\ \A u \in Streams \ {s} : stream'[u] = stream[u]
    BY <2>2, <2>3, StreamChanges
  <2>5. asked' = s /\ shown' = <<>> /\ UNCHANGED <<serving, request, misrouted>>
        /\ mixed' = (mixed \/ \E u \in Streams \ {s} : Replies!MayStillShow(u))
    BY <1>6 DEF Replies!chatCompletion, Replies!serverVars, Replies!requestVars
  <2>6. Replies!TypeOK'
    <3>1. shown' \in Seq(Streams)
      BY <2>5
    <3>2. mixed' \in BOOLEAN
      BY <2>5, Zenon DEF RepliesInv, Replies!TypeOK
    <3> QED
      BY <2>4, <2>5, <3>1, <3>2, Zenon DEF RepliesInv, Replies!TypeOK, Reply
  <2>7. Mute'
    BY <2>4, <2>5 DEF Mute, Replies!MayStillShow
  <2>8. Replies!TextIsWhole'
    BY <2>2, <2>4, <2>5 DEF Replies!TextIsWhole
  <2> QED
    BY <2>4, <2>5, <2>6, <2>7, <2>8, Zenon DEF RepliesInv, Replies!RoutedRight
<1>7. CASE Replies!readyRead(s)
  <2>1. PICK r : r = [stream[s] EXCEPT !.unread = 0, !.last = FALSE,
                        !.reports = IF stream[s].last THEN @ + 1 ELSE @]
    OBVIOUS
  <2>2. r \in Reply /\ Kept(r) /\ (May(r) => Replies!MayStillShow(s)) /\ r.sent = stream[s].sent
        /\ r.unread = 0 /\ stream[s].unread <= stream[s].sent
    <3>1. /\ stream[s].unread \in Nat /\ stream[s].unread <= stream[s].sent
          /\ stream[s].state \in {"open", "closed"}
          /\ stream[s].last => stream[s].ended
          /\ stream[s].ended => ~stream[s].partial
      BY <1>1, <1>7 DEF Replies!readyRead, Replies!CanReadLine, Reply, Kept
    <3>2. stream[s].reports = IF stream[s].ended /\ ~stream[s].last THEN 1 ELSE 0
      BY <1>1, <3>1 DEF Kept, Reported
    <3>3. /\ r.reports = (IF r.ended THEN 1 ELSE 0) /\ r.state = stream[s].state
          /\ r.unread = 0 /\ ~r.last /\ r.sent = stream[s].sent /\ r.partial = stream[s].partial
          /\ r.ended = stream[s].ended /\ r.failed = stream[s].failed
      BY <1>1, <2>1, <3>1, <3>2 DEF Reply
    <3>4. Kept(r)
      BY <1>1, <3>3, <3>1 DEF Kept, Reported, Reply
    <3>5. r \in Reply
      <4>1. r.reports \in 0 .. 2
        BY <3>3
      <4>2. 0 \in 0 .. MaxTokens
        BY <1>0
      <4> QED
        BY <1>1, <2>1, <4>1, <4>2 DEF Reply
    <3> QED
      BY <3>1, <3>3, <3>4, <3>5 DEF May, Replies!MayStillShow
  <2>3. stream' = [stream EXCEPT ![s] = r]
    BY <1>1, <1>7, <2>1 DEF Replies!readyRead
  <2>4. stream' \in [Streams -> Reply] /\ StreamsKept' /\ stream'[s] = r
        /\ \A u \in Streams \ {s} : stream'[u] = stream[u]
    BY <2>2, <2>3, StreamChanges
  <2>5. shown' = shown \o [i \in 1 .. stream[s].unread |-> s]
        /\ UNCHANGED <<serving, asked, mixed, request, misrouted>>
    BY <1>7 DEF Replies!readyRead, Replies!serverVars, Replies!requestVars
  <2>6. Replies!TypeOK'
    <3>1. shown' \in Seq(Streams)
      <4>1. shown \in Seq(Streams)
        BY Zenon DEF RepliesInv, Replies!TypeOK
      <4>2. [i \in 1 .. stream[s].unread |-> s] \in Seq(Streams)
        BY <1>0, <1>1 DEF Reply
      <4> QED
        BY <2>5, <4>1, <4>2
    <3> QED
      BY <2>4, <2>5, <3>1, Zenon DEF RepliesInv, Replies!TypeOK, Reply
  <2>7. Mute'
    BY <2>2, <2>4, <2>5 DEF RepliesInv, Mute, Replies!MayStillShow, May
  <2>8. Replies!TextIsWhole'
    <3> SUFFICES ASSUME asked # NoStream, ~mixed
                 PROVE  shown' = [i \in 1 .. stream'[asked].sent - stream'[asked].unread |-> asked]
      BY <2>5 DEF Replies!TextIsWhole
    <3>1. asked \in Streams
      BY Zenon DEF RepliesInv, Replies!TypeOK
    <3>2. shown = [i \in 1 .. stream[asked].sent - stream[asked].unread |-> asked]
      BY Zenon DEF RepliesInv, Replies!TextIsWhole
    <3>3. CASE asked = s
      <4>1. stream[s].sent \in Nat /\ stream[s].unread \in Nat
        BY <1>0, <1>1 DEF Reply
      <4>2. stream[s].sent - stream[s].unread \in Nat
        BY <2>2, <4>1
      <4>a. [i \in 1 .. stream[s].sent - stream[s].unread |-> s] \o [i \in 1 .. stream[s].unread |-> s]
              = [i \in 1 .. (stream[s].sent - stream[s].unread) + stream[s].unread |-> s]
        <5>1. PICK m \in Nat, n \in Nat :
                m = stream[s].sent - stream[s].unread /\ n = stream[s].unread
          BY <4>1, <4>2
        <5> QED
          BY <5>1, Repeats
      <4>3. shown' = [i \in 1 .. (stream[s].sent - stream[s].unread) + stream[s].unread |-> s]
        BY <2>5, <3>2, <3>3, <4>a, Zenon
      <4>4. (stream[s].sent - stream[s].unread) + stream[s].unread
              = stream'[s].sent - stream'[s].unread
        BY <2>2, <2>4, <4>1
      <4> QED
        BY <3>3, <4>3, <4>4
    <3>4. CASE asked # s
      <4>1. ~Replies!MayStillShow(s)
        BY <3>4 DEF RepliesInv, Mute
      <4>2. stream[s].unread = 0
        BY <1>0, <1>1, <4>1 DEF Replies!MayStillShow, Reply
      <4>3. shown \in Seq(Streams)
        BY Zenon DEF RepliesInv, Replies!TypeOK
      <4>4. shown' = shown
        BY <2>5, <4>2, <4>3
      <4> QED
        BY <2>4, <3>1, <3>2, <3>4, <4>4
    <3> QED
      BY <3>3, <3>4
  <2> QED
    BY <2>4, <2>5, <2>6, <2>7, <2>8, Zenon DEF RepliesInv, Replies!RoutedRight
<1> QED
  BY <1>2, <1>3, <1>4, <1>5, <1>6, <1>7 DEF Replies!Stream

LEMMA RepliesServer ==
  ASSUME RepliesInv, Replies!serverChanges
  PROVE  RepliesInv'
<1>1. stream \in [Streams -> Reply] /\ StreamsKept
  BY Zenon DEF RepliesInv, Replies!TypeOK, Reply
<1>2. stream' = Replies!Broken \/ stream' = stream
  BY DEF Replies!serverChanges
<1>3. UNCHANGED <<asked, shown, mixed, request, misrouted>> /\ serving' \in BOOLEAN
  BY DEF Replies!serverChanges, Replies!requestVars
<1>4. ASSUME NEW s \in Streams
      PROVE  /\ stream'[s] \in Reply /\ Kept(stream'[s])
             /\ May(stream'[s]) => May(stream[s])
             /\ stream'[s].sent = stream[s].sent /\ stream'[s].unread = stream[s].unread
  <2>1. CASE stream'[s] = stream[s]
    BY <1>1, <2>1 DEF StreamsKept
  <2>2. CASE stream[s].state = "open" /\ stream'[s] = [stream[s] EXCEPT !.state = "closed", !.failed = TRUE]
    <3>1. stream[s] \in Reply /\ Kept(stream[s])
      BY <1>1 DEF StreamsKept
    <3>2. PICK r : r = stream'[s]
      OBVIOUS
    <3>3. r \in Reply /\ r.state = "closed" /\ r.unread = stream[s].unread /\ r.last = stream[s].last
          /\ r.sent = stream[s].sent /\ r.partial = stream[s].partial /\ r.ended = stream[s].ended
          /\ r.reports = stream[s].reports
      BY <3>1, <2>2, <3>2 DEF Reply
    <3>4. Kept(r) /\ (May(r) => May(stream[s]))
      BY <2>2, <3>1, <3>3 DEF Kept, Reported, May
    <3> QED
      BY <3>2, <3>3, <3>4
  <2> QED
    BY <1>2, <2>1, <2>2 DEF Replies!Broken
<1>5. stream' \in [Streams -> Reply]
  BY <1>1, <1>2, <1>4 DEF Replies!Broken
<1>6. Replies!TypeOK'
  BY <1>3, <1>5, Zenon DEF RepliesInv, Replies!TypeOK, Reply
<1>7. StreamsKept'
  BY <1>4 DEF StreamsKept
<1>8. Mute'
  BY <1>3, <1>4 DEF RepliesInv, Mute, Replies!MayStillShow, May
<1>9. Replies!TextIsWhole'
  <2>1. asked # NoStream => asked \in Streams
    BY Zenon DEF RepliesInv, Replies!TypeOK
  <2>2. asked # NoStream => stream'[asked].sent = stream[asked].sent
                            /\ stream'[asked].unread = stream[asked].unread
    BY <1>4, <2>1
  <2> QED
    BY <1>3, <2>2 DEF RepliesInv, Replies!TextIsWhole
<1> QED
  BY <1>3, <1>6, <1>7, <1>8, <1>9, Zenon DEF RepliesInv, Replies!RoutedRight

LEMMA RepliesRequests ==
  ASSUME RepliesInv, Replies!makeRequest \/ Replies!handleResponse \/ Replies!handleError
  PROVE  RepliesInv'
<1>1. UNCHANGED <<serving, stream, asked, shown, mixed>>
  BY DEF Replies!makeRequest, Replies!handleResponse, Replies!handleError,
         Replies!serverVars, Replies!streamVars
<1>2. request' \in ReplyKinds \cup {"none"}
  BY DEF Replies!makeRequest, Replies!handleResponse, Replies!handleError
<1>3. misrouted' = FALSE
  <2>1. misrouted = FALSE
    BY Zenon DEF RepliesInv, Replies!TypeOK, Replies!RoutedRight
  <2>2. CASE Replies!handleResponse
    <3>1. request \in ReplyKinds
      BY <2>2 DEF Replies!handleResponse, RepliesInv, Replies!TypeOK
    <3>2. request \notin Replies!Direct => Replies!Route(request) \in {request, "none"}
      BY <3>1, RouteIsRight, PartsAssumption DEF Replies!ConstantsAssumption
    <3> QED
      BY <2>1, <2>2, <3>2, Zenon DEF Replies!handleResponse
  <2>3. CASE Replies!makeRequest \/ Replies!handleError
    BY <2>1, <2>3 DEF Replies!makeRequest, Replies!handleError
  <2> QED
    BY <2>2, <2>3
<1>4. Replies!TypeOK'
  BY <1>1, <1>2, <1>3, Zenon DEF RepliesInv, Replies!TypeOK
<1> QED
  BY <1>1, <1>3, <1>4, Zenon
     DEF RepliesInv, StreamsKept, Mute, Replies!MayStillShow, Replies!TextIsWhole, Replies!RoutedRight

LEMMA RepliesNext == RepliesInv /\ [Next]_vars => RepliesInv'
<1> SUFFICES ASSUME RepliesInv, [Next]_vars PROVE RepliesInv'
  OBVIOUS
<1>1. CASE UNCHANGED replyVars
  BY <1>1, Zenon DEF replyVars, RepliesInv, Replies!TypeOK, StreamsKept, Mute,
     Replies!MayStillShow, Replies!TextIsWhole, Replies!RoutedRight
<1>2. CASE Replies!Next
  BY <1>2, RepliesStreams, RepliesServer, RepliesRequests DEF Replies!Next
<1> QED
  BY <1>1, <1>2, PartsMove

LEMMA RepliesInvariance == Spec => []RepliesInv
BY RepliesInit, RepliesNext, PTL DEF Spec

\* What is shown is the text of the stream asked for last, as long as no other
\* had text to come; ends are reported once for each thing that ends a stream;
\* answers go out as what was asked (backend_client.cpp:308, :357).
THEOREM RepliesStayTrue == Spec => []RepliesAreTrue
<1>1. RepliesInv => RepliesAreTrue
  BY DEF RepliesInv, StreamsKept, Kept, Reported, RepliesAreTrue, Replies!EndIsToldOnce
<1> QED
  BY <1>1, RepliesInvariance, PTL

-----------------------------------------------------------------------------
(***************************************************************************)
(* The list of downloads.  A name that is not loose has at most one timer, *)
(* which was started for the item it has now.                              *)
(***************************************************************************)
TimersFit ==
  panel = "open" => \A n \in Models : n \notin loose /\ timers[n] # <<>> =>
    /\ items[n] # NoItem
    /\ Len(timers[n]) = 1 /\ Head(timers[n]) = items[n].serial

NothingLeft == panel # "open" => \A n \in Models : items[n] = NoItem

TimerLists == timers \in [Models -> Seq(1 .. MaxAdds)]

DownloadsInv == Downloads!TypeOK /\ TimerLists /\ TimersFit /\ NothingLeft

LEMMA OneAppended ==
  ASSUME NEW S, NEW q \in Seq(S), NEW e \in S
  PROVE  Append(q, e) \in Seq(S) /\ Len(Append(q, e)) = Len(q) + 1
  OBVIOUS

LEMMA OneAlone ==
  ASSUME NEW e
  PROVE  Len(Append(<<>>, e)) = 1 /\ Head(Append(<<>>, e)) = e
  OBVIOUS

LEMMA OneTaken ==
  ASSUME NEW S, NEW q \in Seq(S), q # <<>>
  PROVE  /\ Tail(q) \in Seq(S) /\ Len(Tail(q)) = Len(q) - 1 /\ Len(q) \in Nat
         /\ Len(q) = 1 => Tail(q) = <<>>
  OBVIOUS

LEMMA DownloadsInit == Init => DownloadsInv
<1> SUFFICES ASSUME Init PROVE DownloadsInv
  OBVIOUS
<1>1. MaxAdds \in Nat /\ MaxTimers \in Nat
  BY PartsAssumption DEF Downloads!ConstantsAssumption
<1> QED
  BY <1>1 DEF Init, Downloads!Init, DownloadsInv, Downloads!TypeOK, TimerLists, TimersFit, NothingLeft

LEMMA DownloadsNext == DownloadsInv /\ [Next]_vars => DownloadsInv'
<1> SUFFICES ASSUME DownloadsInv, [Next]_vars PROVE DownloadsInv'
  OBVIOUS
<1>0. MaxAdds \in Nat /\ MaxTimers \in Nat /\ NoItem \notin Downloads!Item
  BY PartsAssumption DEF Downloads!ConstantsAssumption
<1> USE <1>0 DEF DownloadsInv, Downloads!TypeOK, TimerLists, TimersFit, NothingLeft
<1>1. ASSUME NEW n \in Models, Downloads!addDownload(n) PROVE DownloadsInv'
  BY <1>1 DEF Downloads!addDownload, Downloads!Item
<1>2. ASSUME NEW n \in Models, NEW look \in {"active", "complete", "error"},
             Downloads!Listed(n), Downloads!Shown(n, look), UNCHANGED <<made, timers, loose, panel>>
      PROVE DownloadsInv'
  BY <1>2 DEF Downloads!Listed, Downloads!Shown, Downloads!Item
<1>3. ASSUME NEW n \in Models, Downloads!completeDownload(n) PROVE DownloadsInv'
  <2>1. items[n] \in Downloads!Item /\ panel = "open" /\ items[n].serial \in 1 .. MaxAdds
    BY <1>3 DEF Downloads!completeDownload, Downloads!Listed, Downloads!Item
  <2>2. items' = [items EXCEPT ![n].look = "complete"] /\ items'[n] \in Downloads!Item
        /\ items'[n].serial = items[n].serial /\ \A m \in Models \ {n} : items'[m] = items[m]
    BY <1>3, <2>1 DEF Downloads!completeDownload, Downloads!Shown, Downloads!Item
  <2>3. items' \in [Models -> Downloads!Item \cup {NoItem}]
    BY <2>2
  <2>4. timers' = [timers EXCEPT ![n] = Append(@, items[n].serial)]
        /\ Len(timers[n]) < MaxTimers /\ UNCHANGED <<made, panel>>
        /\ loose' = loose \cup (IF timers[n] = <<>> THEN {} ELSE {n})
    BY <1>3 DEF Downloads!completeDownload
  <2>5. timers'[n] = Append(timers[n], items[n].serial) /\ timers' \in [Models -> Seq(1 .. MaxAdds)]
        /\ \A m \in Models \ {n} : timers'[m] = timers[m]
    BY <2>1, <2>4
  <2>6. \A m \in Models : timers'[m] \in Seq(1 .. MaxAdds) /\ Len(timers'[m]) <= MaxTimers
    <3>1. timers[n] \in Seq(1 .. MaxAdds)
      OBVIOUS
    <3>2. Len(timers'[n]) = Len(timers[n]) + 1 /\ Len(timers[n]) \in Nat
      BY <2>1, <2>5, <3>1, OneAppended, LenProperties
    <3> QED
      <4> SUFFICES ASSUME NEW m \in Models
                   PROVE  timers'[m] \in Seq(1 .. MaxAdds) /\ Len(timers'[m]) <= MaxTimers
        OBVIOUS
      <4>1. Len(timers'[n]) <= MaxTimers
        BY <2>4, <3>2
      <4>2. timers'[n] \in Seq(1 .. MaxAdds)
        BY <2>5
      <4>3. m # n => timers'[m] = timers[m]
        BY <2>5
      <4> QED
        BY <4>1, <4>2, <4>3, Zenon
  <2>7. Downloads!TypeOK'
    BY <2>3, <2>4, <2>6
  <2>8. TimersFit'
    <3> SUFFICES ASSUME NEW m \in Models, m \notin loose', timers'[m] # <<>>
                 PROVE  /\ items'[m] # NoItem
                        /\ Len(timers'[m]) = 1 /\ Head(timers'[m]) = items'[m].serial
      OBVIOUS
    <3>1. CASE m = n
      <4>1. timers[n] = <<>>
        BY <2>4, <3>1
      <4> QED
        <5>1. Len(timers'[n]) = 1 /\ Head(timers'[n]) = items[n].serial
          <6>1. timers'[n] = Append(<<>>, items[n].serial)
            BY <2>5, <4>1, Zenon
          <6> QED
            BY <6>1, OneAlone
        <5>2. items'[n] # NoItem
          BY <2>2
        <5> QED
          BY <2>2, <3>1, <5>1, <5>2, Zenon
    <3>2. CASE m # n
      BY <2>1, <2>2, <2>4, <2>5, <3>2
    <3> QED
      BY <3>1, <3>2
  <2> QED
    BY <2>1, <2>4, <2>5, <2>7, <2>8
<1>4. ASSUME NEW n \in Models, Downloads!removeDownload(n) PROVE DownloadsInv'
  BY <1>4 DEF Downloads!removeDownload, Downloads!Listed
<1>5. ASSUME NEW n \in Models, Downloads!timerFires(n) PROVE DownloadsInv'
  <2>1. timers'[n] = Tail(timers[n]) /\ Len(timers'[n]) = Len(timers[n]) - 1
        /\ timers' \in [Models -> Seq(1 .. MaxAdds)]
        /\ \A m \in Models \ {n} : timers'[m] = timers[m]
    BY <1>5 DEF Downloads!timerFires
  <2>2. \A m \in Models : timers'[m] \in Seq(1 .. MaxAdds) /\ Len(timers'[m]) <= MaxTimers
    <3>1. Len(timers[n]) \in Nat
      BY LenProperties
    <3> QED
      <4> SUFFICES ASSUME NEW m \in Models
                   PROVE  timers'[m] \in Seq(1 .. MaxAdds) /\ Len(timers'[m]) <= MaxTimers
        OBVIOUS
      <4>1. Len(timers[n]) <= MaxTimers
        BY Zenon
      <4>2. Len(timers'[n]) <= MaxTimers
        BY <2>1, <3>1, <4>1
      <4>3. timers'[n] \in Seq(1 .. MaxAdds)
        BY <2>1
      <4>4. m # n => timers'[m] = timers[m]
        BY <2>1
      <4> QED
        BY <4>2, <4>3, <4>4, Zenon
  <2>3. items' = [items EXCEPT ![n] = NoItem] /\ UNCHANGED <<made, loose>>
        /\ panel' = IF panel = "gone" THEN "undefined" ELSE panel
    BY <1>5 DEF Downloads!timerFires
  <2>4. Downloads!TypeOK'
    BY <2>2, <2>3
  <2>5. TimersFit'
    <3> SUFFICES ASSUME panel' = "open", NEW m \in Models, m \notin loose, timers'[m] # <<>>
                 PROVE  /\ items'[m] # NoItem
                        /\ Len(timers'[m]) = 1 /\ Head(timers'[m]) = items'[m].serial
      BY <2>3
    <3>1. m # n
      <4>1. timers[n] \in Seq(1 .. MaxAdds) /\ timers[n] # <<>> /\ panel = "open"
        BY <1>5, <2>3 DEF Downloads!timerFires
      <4>2. n \notin loose => timers'[n] = <<>>
        BY <2>1, <4>1, OneTaken
      <4> QED
        BY <4>2
    <3> QED
      BY <2>1, <2>3, <3>1
  <2>6. NothingLeft'
    BY <2>3
  <2> QED
    BY <2>1, <2>4, <2>5, <2>6
<1>6. CASE Downloads!destroyed
  BY <1>6 DEF Downloads!destroyed
<1>7. CASE UNCHANGED downloadVars
  BY <1>7 DEF downloadVars
<1> QED
  BY <1>1, <1>2, <1>3, <1>4, <1>5, <1>6, <1>7, PartsMove
     DEF Downloads!Next, Downloads!updateDownload, Downloads!errorDownload

LEMMA DownloadsInvariance == Spec => []DownloadsInv
BY DownloadsInit, DownloadsNext, PTL DEF Spec

\* A timer removes the item it was started for, unless its name was removed by
\* hand or completed again meanwhile (downloadpanel.cpp:186).
THEOREM TimersAlwaysTakeTheirOwn == Spec => TimersTakeTheirOwn
<1>1. DownloadsInv /\ [Next]_vars =>
        [\A n \in Models :
           Len(timers'[n]) < Len(timers[n]) /\ items[n] # NoItem /\ n \notin loose
             => items[n].serial = Head(timers[n])]_Downloads!downloadVars
  <2> SUFFICES ASSUME DownloadsInv, [Next]_vars, NEW n \in Models,
                      Len(timers'[n]) < Len(timers[n]), items[n] # NoItem, n \notin loose
               PROVE  items[n].serial = Head(timers[n])
    OBVIOUS
  <2>1. panel = "open"
    BY DEF DownloadsInv, NothingLeft
  <2>2. timers[n] # <<>>
    BY DEF DownloadsInv, TimerLists
  <2> QED
    BY <2>1, <2>2 DEF DownloadsInv, TimersFit
<1> QED
  BY <1>1, DownloadsInvariance, PTL DEF Spec, TimersTakeTheirOwn, Downloads!TimersTakeTheirOwn

-----------------------------------------------------------------------------
(***************************************************************************)
(* Plugins.  A file no loader of which was replaced is in memory at most   *)
(* once, and each loader is listed under the name of its file.             *)
(***************************************************************************)
LoadersFit ==
  system = "up" =>
    /\ \A p \in Plugins : loaders[p] # NoFile =>
         BaseName[loaders[p]] = p /\ resident[loaders[p]] > 0
    /\ \A f \in Files \ replaced :
         resident[f] <= 1 /\ (resident[f] > 0 => loaders[BaseName[f]] = f)

PluginsInv == PluginList!TypeOK /\ LoadersFit

LEMMA PluginsInit == Init => PluginsInv
<1> SUFFICES ASSUME Init PROVE PluginsInv
  OBVIOUS
<1>1. MaxLoads \in Nat
  BY PartsAssumption DEF PluginList!ConstantsAssumption
<1> QED
  BY <1>1 DEF Init, PluginList!Init, PluginsInv, PluginList!TypeOK, LoadersFit

LEMMA PluginsNext == PluginsInv /\ [Next]_vars => PluginsInv'
<1> SUFFICES ASSUME PluginsInv, [Next]_vars PROVE PluginsInv'
  OBVIOUS
<1>0. MaxLoads \in Nat /\ BaseName \in [Files -> Plugins] /\ NoFile \notin Files
  BY PartsAssumption DEF PluginList!ConstantsAssumption
<1> USE <1>0 DEF PluginsInv, PluginList!TypeOK, LoadersFit
<1>1. ASSUME NEW f \in Files, PluginList!fileChanges(f) PROVE PluginsInv'
  BY <1>1 DEF PluginList!fileChanges
<1>2. ASSUME NEW f \in Files, PluginList!loadPlugin(f) PROVE PluginsInv'
  <2>1. PluginList!TypeOK'
    BY <1>2 DEF PluginList!loadPlugin
  <2>2. system = "up" /\ loaders' = [loaders EXCEPT ![BaseName[f]] = f]
        /\ resident' = [resident EXCEPT ![f] = @ + 1]
        /\ replaced' = replaced \cup ({loaders[BaseName[f]]} \ {NoFile})
    BY <1>2 DEF PluginList!loadPlugin
  <2>3. ASSUME NEW p \in Plugins, loaders'[p] # NoFile
        PROVE  BaseName[loaders'[p]] = p /\ resident'[loaders'[p]] > 0
    BY <2>2, <2>3
  <2>4. ASSUME NEW g \in Files \ replaced'
        PROVE  resident'[g] <= 1 /\ (resident'[g] > 0 => loaders'[BaseName[g]] = g)
    <3>1. CASE g = f
      <4>1. resident[f] = 0
        BY <2>2, <2>4, <3>1
      <4> QED
        BY <2>2, <3>1, <4>1
    <3>2. CASE g # f
      BY <2>2, <2>4, <3>2
    <3> QED
      BY <3>1, <3>2
  <2> QED
    BY <2>1, <2>3, <2>4
<1>3. ASSUME NEW p \in Plugins, PluginList!unloadPlugin(p) PROVE PluginsInv'
  <2>1. loaders[p] \in Files /\ BaseName[loaders[p]] = p /\ resident[loaders[p]] > 0
    BY <1>3 DEF PluginList!unloadPlugin
  <2>2. PICK f \in Files : f = loaders[p] /\ BaseName[f] = p /\ resident[f] > 0
    BY <2>1
  <2>3. /\ resident' = [resident EXCEPT ![f] = @ - 1]
        /\ loaders' = [loaders EXCEPT ![p] = NoFile]
        /\ system = "up" /\ UNCHANGED <<onDisk, replaced, system>>
    BY <1>3, <2>2 DEF PluginList!unloadPlugin
  <2>4. PluginList!TypeOK'
    BY <2>2, <2>3
  <2>5. ASSUME NEW q \in Plugins, loaders'[q] # NoFile
        PROVE  BaseName[loaders'[q]] = q /\ resident'[loaders'[q]] > 0
    BY <2>2, <2>3, <2>5
  <2>6. ASSUME NEW g \in Files \ replaced'
        PROVE  resident'[g] <= 1 /\ (resident'[g] > 0 => loaders'[BaseName[g]] = g)
    BY <2>2, <2>3, <2>6
  <2> QED
    BY <2>3, <2>4, <2>5, <2>6
<1>4. CASE PluginList!destroy
  BY <1>4 DEF PluginList!destroy
<1>5. CASE UNCHANGED pluginVars
  BY <1>5 DEF pluginVars
<1> QED
  BY <1>1, <1>2, <1>3, <1>4, <1>5, PartsMove DEF PluginList!Next

LEMMA PluginsInvariance == Spec => []PluginsInv
BY PluginsInit, PluginsNext, PTL DEF Spec

\* A library in memory is that of a plugin listed, and the other way round,
\* unless another one of its name took its loader's place (plugin_system.cpp:59).
THEOREM ListedStaysResident == Spec => []ListedIsResident
<1>1. PluginsInv => ListedIsResident
  BY DEF PluginsInv, LoadersFit, ListedIsResident, PluginList!ListedIsResident
<1> QED
  BY <1>1, PluginsInvariance, PTL

-----------------------------------------------------------------------------
(***************************************************************************)
(* Requests to the HTTP server.  A piece read before the end of a request  *)
(* lacks its data, and the rest of a first line holds no path.             *)
(***************************************************************************)
CommandOnce(answers) ==
  \A i, j \in DOMAIN answers : answers[i] = "command" /\ answers[j] = "command" => i = j

AnswersFit(r) ==
  /\ r.read + r.arrived <= Web!Segments(r)
  /\ r.read = 0 => r.answers = <<>> /\ r.calls = 0 /\ ~r.torn
  /\ r.read < Web!Segments(r) =>
       /\ r.calls <= 1 /\ (r.cut = "method" => r.calls = 0)
       /\ \A i \in DOMAIN r.answers : r.answers[i] # "command"
  /\ CommandOnce(r.answers)
  /\ ~r.torn \/ r.cut \notin {"headers", "body"} => r.calls <= 1

WebInv == Web!TypeOK /\ \A c \in Clients : AnswersFit(conn[c])

LEMMA FreshHandled ==
  ASSUME NEW m \in Web!Methods, NEW p \in Web!Paths, NEW cut \in Web!Cuts,
         NEW state \in {"none", "open"}
  PROVE  /\ [Web!Fresh EXCEPT !.state = state, !.method = m, !.path = p, !.cut = cut]
              \in Web!Connection
         /\ AnswersFit([Web!Fresh EXCEPT !.state = state, !.method = m, !.path = p, !.cut = cut])
<1>1. PICK r : r = [Web!Fresh EXCEPT !.state = state, !.method = m, !.path = p, !.cut = cut]
  OBVIOUS
<1>2. r = [state |-> state, method |-> m, path |-> p, cut |-> cut, arrived |-> 0, read |-> 0,
           torn |-> FALSE, answers |-> <<>>, calls |-> 0]
  BY <1>1 DEF Web!Fresh
<1>3. r \in Web!Connection
  BY <1>2 DEF Web!Connection
<1>4. AnswersFit(r)
  BY <1>2 DEF AnswersFit, Web!Segments, CommandOnce
<1> QED
  BY <1>1, <1>3, <1>4, Zenon

LEMMA WebInit == Init => WebInv
<1> SUFFICES ASSUME Init PROVE WebInv
  OBVIOUS
<1>1. Web!Fresh \in Web!Connection /\ AnswersFit(Web!Fresh)
  BY DEF Web!Fresh, Web!Connection, AnswersFit, CommandOnce, Web!Segments, Web!Methods,
         Web!Paths, Web!Cuts
<1> QED
  BY <1>1 DEF Init, Web!Init, WebInv, Web!TypeOK

\* A text of two words gets an answer, which is a command's only with its data.
LEMMA TextAnswered ==
  ASSUME NEW m \in Web!Methods, NEW p \in Web!Paths, NEW json \in BOOLEAN
  PROVE  /\ Web!Answer(Web!Text(m, p, json)) \in Web!Answers
         /\ ~json => Web!Answer(Web!Text(m, p, json)) # "command"
         /\ p = "page" => Web!Answer(Web!Text(m, p, json)) \in {"preflight", "page"}
  BY DEF Web!Answer, Web!Text, Web!Answers, Web!Methods, Web!Paths

\* What is read of a request is such texts.
LEMMA TextsOf ==
  ASSUME NEW r \in Web!Connection
  PROVE  /\ \A t \in Web!Whole(r) : \E m \in Web!Methods, p \in Web!Paths, j \in BOOLEAN :
              t = Web!Text(m, p, j)
         /\ \A t \in Web!First(r) : \E m \in Web!Methods, p \in Web!Paths :
              t = Web!Text(m, p, FALSE)
         /\ \A t \in Web!Second(r) : \E m \in Web!Methods, p \in Web!Paths, j \in BOOLEAN :
              t = Web!Text(m, p, j) /\ (r.cut = "path" => p = "page")
<1>1. r.method \in Web!Methods /\ r.path \in Web!Paths /\ (r.method = "POST") \in BOOLEAN
  BY DEF Web!Connection
<1>2. Web!PartsOf(r.path) \subseteq Web!Paths /\ "page" \in Web!Paths
      /\ "other" \in Web!Methods
  BY <1>1 DEF Web!PartsOf, Web!Paths, Web!Methods
<1>3. \A t \in Web!Whole(r) : \E m \in Web!Methods, p \in Web!Paths, j \in BOOLEAN :
        t = Web!Text(m, p, j)
  BY <1>1, Zenon DEF Web!Whole
<1>4. \A t \in Web!First(r) : \E m \in Web!Methods, p \in Web!Paths : t = Web!Text(m, p, FALSE)
  BY <1>1, <1>2 DEF Web!First
<1>5. \A t \in Web!Second(r) : \E m \in Web!Methods, p \in Web!Paths, j \in BOOLEAN :
        t = Web!Text(m, p, j) /\ (r.cut = "path" => p = "page")
  <2> SUFFICES ASSUME NEW t \in Web!Second(r)
               PROVE  \E m \in Web!Methods, p \in Web!Paths, j \in BOOLEAN :
                        t = Web!Text(m, p, j) /\ (r.cut = "path" => p = "page")
    OBVIOUS
  <2> DEFINE j == r.method = "POST"
  <2>1. j \in BOOLEAN
    OBVIOUS
  <2> HIDE DEF j
  <2>2. CASE r.cut = "method"
    <3>1. t = Web!Text("other", r.path, j)
      BY <2>2 DEF Web!Second, j
    <3> QED
      BY <1>1, <1>2, <2>1, <2>2, <3>1
  <2>3. CASE r.cut = "path"
    <3>1. PICK m \in Web!Methods : t = Web!Text(m, "page", j)
      BY <2>3 DEF Web!Second, j
    <3> QED
      BY <1>2, <2>1, <3>1
  <2>4. CASE r.cut # "method" /\ r.cut # "path"
    <3> DEFINE k == r.cut = "headers" /\ r.method = "POST"
    <3>1. k \in BOOLEAN
      OBVIOUS
    <3> HIDE DEF k
    <3>2. PICK m \in Web!Methods, p \in Web!Paths : t = Web!Text(m, p, k)
      BY <2>4 DEF Web!Second, k
    <3> QED
      BY <2>4, <3>1, <3>2
  <2> QED
    BY <2>2, <2>3, <2>4
<1> QED
  BY <1>3, <1>4, <1>5

\* The answers a piece may get, and what they ask of the backend.
LEMMA PiecesAnswered ==
  ASSUME NEW r \in Web!Connection, NEW answer \in Web!Handled(r)
  PROVE  /\ answer = <<>> \/ \E a \in Web!Answers : answer = <<a>>
         /\ r.read = 0 /\ r.arrived < Web!Segments(r) =>
              /\ answer # <<"command">>
              /\ r.cut = "method" <=> answer = <<>>
         /\ r.read > 0 /\ r.cut = "path" => answer \in {<<"preflight">>, <<"page">>}
         /\ r.read = 0 /\ r.arrived = Web!Segments(r) => answer # <<>>
         /\ r.read > 0 /\ r.cut = "method" => answer # <<>>
<1>1. r.read \in Nat /\ r.arrived \in Nat
  BY DEF Web!Connection
<1>2. CASE r.read = 0 /\ r.arrived = Web!Segments(r)
  <2>1. PICK t \in Web!Whole(r) : answer = <<Web!Answer(t)>>
    BY <1>2 DEF Web!Handled
  <2>2. PICK m \in Web!Methods, p \in Web!Paths, j \in BOOLEAN : t = Web!Text(m, p, j)
    BY TextsOf
  <2>3. Web!Answer(t) \in Web!Answers
    BY <2>2, TextAnswered
  <2> QED
    BY <1>1, <1>2, <2>1, <2>3
<1>3. CASE r.read = 0 /\ r.arrived # Web!Segments(r)
  <2>1. CASE r.cut = "method"
    <3>1. Web!First(r) = {}
      BY <2>1 DEF Web!First
    <3>2. answer = <<>>
      BY <1>3, <3>1 DEF Web!Handled, Web!OneWord
    <3> QED
      BY <1>1, <1>3, <2>1, <3>2
  <2>2. CASE r.cut # "method"
    <3>1. PICK t \in Web!First(r) : answer = <<Web!Answer(t)>>
      BY <1>3, <2>2 DEF Web!Handled, Web!OneWord
    <3>2. PICK m \in Web!Methods, p \in Web!Paths : t = Web!Text(m, p, FALSE)
      BY TextsOf
    <3>3. Web!Answer(t) \in Web!Answers /\ Web!Answer(t) # "command"
      BY <3>2, TextAnswered
    <3> QED
      BY <1>1, <1>3, <2>2, <3>1, <3>3
  <2> QED
    BY <2>1, <2>2
<1>4. CASE r.read # 0
  <2>1. CASE answer = <<>>
    <3>1. r.cut \in {"headers", "body"}
      BY <1>4, <2>1 DEF Web!Handled, Web!OneWord
    <3> QED
      BY <1>1, <1>4, <2>1, <3>1
  <2>2. CASE answer # <<>>
    <3>1. PICK t \in Web!Second(r) : answer = <<Web!Answer(t)>>
      BY <1>4, <2>2 DEF Web!Handled
    <3>2. /\ Web!Answer(t) \in Web!Answers
          /\ r.cut = "path" => Web!Answer(t) \in {"preflight", "page"}
      <4>1. PICK m \in Web!Methods, p \in Web!Paths, j \in BOOLEAN :
              t = Web!Text(m, p, j) /\ (r.cut = "path" => p = "page")
        BY TextsOf
      <4> QED
        BY <4>1, TextAnswered
    <3> QED
      BY <1>1, <1>4, <2>2, <3>1, <3>2
  <2> QED
    BY <2>1, <2>2
<1> QED
  BY <1>2, <1>3, <1>4

\* One more answer, behind others that are no command's.
LEMMA AnswerAppended ==
  ASSUME NEW before \in Seq(Web!Answers), NEW answer,
         answer = <<>> \/ \E a \in Web!Answers : answer = <<a>>
  PROVE  /\ before \o answer \in Seq(Web!Answers)
         /\ (\A i \in DOMAIN before : before[i] # "command") => CommandOnce(before \o answer)
         /\ before = <<>> /\ answer # <<"command">> =>
              \A i \in DOMAIN (before \o answer) : (before \o answer)[i] # "command"
<1>1. CASE answer = <<>>
  BY <1>1 DEF CommandOnce
<1>2. ASSUME NEW a \in Web!Answers, answer = <<a>>
      PROVE  /\ before \o answer \in Seq(Web!Answers)
             /\ (\A i \in DOMAIN before : before[i] # "command") => CommandOnce(before \o answer)
             /\ before = <<>> /\ answer # <<"command">> =>
                  \A i \in DOMAIN (before \o answer) : (before \o answer)[i] # "command"
  <2>1. /\ before \o answer \in Seq(Web!Answers) /\ Len(before) \in Nat
        /\ Len(before \o answer) = Len(before) + 1
        /\ \A i \in 1 .. Len(before) : (before \o answer)[i] = before[i]
        /\ (before \o answer)[Len(before) + 1] = a
    BY <1>2
  <2>2. DOMAIN before = 1 .. Len(before)
        /\ DOMAIN (before \o answer) = 1 .. Len(before) + 1
    BY <2>1
  <2>3. (\A i \in DOMAIN before : before[i] # "command") => CommandOnce(before \o answer)
    BY <2>1, <2>2 DEF CommandOnce
  <2>4. ASSUME before = <<>>, answer # <<"command">>
        PROVE  \A i \in DOMAIN (before \o answer) : (before \o answer)[i] # "command"
    <3>1. Len(before) = 0 /\ a # "command"
      BY <1>2, <2>4
    <3> QED
      BY <2>1, <2>2, <3>1
  <2> QED
    BY <2>1, <2>3, <2>4
<1> QED
  BY <1>1, <1>2

LEMMA WebNext == WebInv /\ [Next]_vars => WebInv'
<1> SUFFICES ASSUME WebInv, [Next]_vars PROVE WebInv'
  OBVIOUS
<1>0. conn \in [Clients -> Web!Connection] /\ \A c \in Clients : AnswersFit(conn[c])
  BY Zenon DEF WebInv, Web!TypeOK
<1>a. ASSUME NEW c \in Clients, NEW r \in Web!Connection, AnswersFit(r),
             conn' = [conn EXCEPT ![c] = r], UNCHANGED <<listening, ephemeral, backend>>
      PROVE  WebInv'
  <2>1. conn' \in [Clients -> Web!Connection] /\ \A u \in Clients : AnswersFit(conn'[u])
    BY <1>0, <1>a
  <2> QED
    BY <1>a, <2>1, Zenon DEF WebInv, Web!TypeOK
<1>1. CASE Web!startServer \/ Web!stopServer \/ Web!setBackend
  BY <1>0, <1>1, Zenon DEF WebInv, Web!TypeOK, Web!startServer, Web!stopServer, Web!setBackend
<1>2. ASSUME NEW c \in Clients, Web!onNewConnection(c) PROVE WebInv'
  <2>1. PICK m \in Web!Methods, p \in Web!Paths, cut \in Web!Cuts :
          conn' = [conn EXCEPT ![c] = [Web!Fresh EXCEPT !.state = "open", !.method = m,
                                                      !.path = p, !.cut = cut]]
    BY <1>2 DEF Web!onNewConnection
  <2> QED
    BY <1>2, <1>a, <2>1, FreshHandled DEF Web!onNewConnection
<1>3. ASSUME NEW c \in Clients, Web!segmentArrives(c) PROVE WebInv'
  <2>1. PICK r : r = [conn[c] EXCEPT !.arrived = @ + 1]
    OBVIOUS
  <2>2. conn' = [conn EXCEPT ![c] = r]
    BY <1>0, <1>3, <2>1 DEF Web!segmentArrives
  <2>3. r \in Web!Connection /\ AnswersFit(r)
    <3>1. PICK q \in Web!Connection : q = conn[c]
      BY <1>0, Zenon
    <3>2. AnswersFit(q) /\ r = [q EXCEPT !.arrived = q.arrived + 1]
      BY <1>0, <2>1, <3>1
    <3>3. q.arrived + q.read < Web!Segments(q)
      BY <1>3, <3>1, Zenon DEF Web!segmentArrives
    <3>4. q.arrived \in 0 .. 2 /\ q.read \in 0 .. 2 /\ Web!Segments(q) \in {1, 2}
      BY DEF Web!Connection, Web!Segments
    <3>5. /\ r.arrived = q.arrived + 1 /\ r.read = q.read /\ r.cut = q.cut
          /\ r.torn = q.torn /\ r.answers = q.answers /\ r.calls = q.calls
          /\ Web!Segments(r) = Web!Segments(q)
      BY <3>2 DEF Web!Connection, Web!Segments
    <3>6. r \in Web!Connection
      BY <3>2, <3>3, <3>4 DEF Web!Connection
    <3>7. AnswersFit(r)
      BY <3>2, <3>3, <3>4, <3>5 DEF AnswersFit
    <3> QED
      BY <3>6, <3>7
  <2> QED
    BY <1>3, <1>a, <2>2, <2>3 DEF Web!segmentArrives
<1>4. ASSUME NEW c \in Clients, Web!disconnected(c) \/ Web!clientLeaves(c) PROVE WebInv'
  <2>1. PICK r : r = [conn[c] EXCEPT !.state = "closed"]
    OBVIOUS
  <2>2. conn' = [conn EXCEPT ![c] = r]
    BY <1>0, <1>4, <2>1 DEF Web!disconnected, Web!clientLeaves
  <2>3. r \in Web!Connection /\ AnswersFit(r)
    BY <1>0, <2>1 DEF Web!Connection, AnswersFit, Web!Segments
  <2> QED
    BY <1>4, <1>a, <2>2, <2>3 DEF Web!disconnected, Web!clientLeaves
<1>5. ASSUME NEW c \in Clients, Web!onSocketReadyRead(c) PROVE WebInv'
  <2>1. PICK q \in Web!Connection : q = conn[c]
    BY <1>0
  <2>2. PICK answer \in Web!Handled(q) :
          conn' = [conn EXCEPT ![c] =
            [q EXCEPT !.read = @ + q.arrived, !.arrived = 0,
                      !.torn = @ \/ q.arrived < Web!Segments(q),
                      !.answers = @ \o answer,
                      !.calls = IF backend /\ Web!CallsBackend(answer) THEN @ + 1 ELSE @,
                      !.state = IF answer = <<>> THEN @ ELSE "closing"]]
    BY <1>5, <2>1 DEF Web!onSocketReadyRead
  <2>3. PICK r : r = [q EXCEPT !.read = @ + q.arrived, !.arrived = 0,
                      !.torn = @ \/ q.arrived < Web!Segments(q),
                      !.answers = @ \o answer,
                      !.calls = IF backend /\ Web!CallsBackend(answer) THEN @ + 1 ELSE @,
                      !.state = IF answer = <<>> THEN @ ELSE "closing"]
    OBVIOUS
  <2>4. AnswersFit(q) /\ q.arrived > 0 /\ q.arrived + q.read <= Web!Segments(q)
        /\ Web!Segments(q) \in {1, 2} /\ q.arrived \in Nat /\ q.read \in Nat
        /\ q.read < Web!Segments(q) /\ q.calls \in 0 .. 1
        /\ \A i \in DOMAIN q.answers : q.answers[i] # "command"
    BY <1>0, <1>5, <2>1 DEF Web!onSocketReadyRead, AnswersFit, Web!Segments, Web!Connection
  <2>5. answer = <<>> \/ \E a \in Web!Answers : answer = <<a>>
    BY PiecesAnswered
  <2>6. q.answers \in Seq(Web!Answers)
        /\ q.answers \o answer \in Seq(Web!Answers) /\ CommandOnce(q.answers \o answer)
    BY <2>4, <2>5, AnswerAppended DEF Web!Connection
  <2>7. /\ r.cut = q.cut /\ r.read = q.read + q.arrived /\ r.arrived = 0
        /\ r.answers = q.answers \o answer /\ r.torn = (q.torn \/ q.arrived < Web!Segments(q))
        /\ r.calls = IF backend /\ Web!CallsBackend(answer) THEN q.calls + 1 ELSE q.calls
    BY <2>1, <2>3 DEF Web!Connection
  <2>8. Web!Segments(r) = Web!Segments(q)
    BY <2>7 DEF Web!Segments
  <2>9. r.calls \in 0 .. 2
    BY <2>4, <2>7
  <2>10. r \in Web!Connection
    <3>1. r.read \in 0 .. 2
      BY <2>4, <2>7
    <3>2. r.torn \in BOOLEAN
      BY <2>1, <2>7 DEF Web!Connection
    <3>3. r.state \in {"none", "open", "closing", "closed"}
      BY <2>1, <2>3 DEF Web!Connection
    <3>4. r.calls \in 0 .. 2 /\ r.arrived \in 0 .. 2 /\ r.answers \in Seq(Web!Answers)
      BY <2>6, <2>7, <2>9
    <3>5. PICK a, b, d, e, f : r = [q EXCEPT !.read = a, !.arrived = 0, !.torn = b, !.answers = d,
                                          !.calls = e, !.state = f]
      BY <2>3
    <3> QED
      BY <2>1, <3>1, <3>2, <3>3, <3>4, <3>5 DEF Web!Connection
  <2>11. ASSUME r.read < Web!Segments(r)
         PROVE  /\ r.calls <= 1 /\ (r.cut = "method" => r.calls = 0)
                /\ \A i \in DOMAIN r.answers : r.answers[i] # "command"
    <3>1. q.read = 0 /\ q.arrived < Web!Segments(q) /\ q.calls = 0 /\ q.answers = <<>>
      BY <2>4, <2>7, <2>8, <2>11 DEF AnswersFit
    <3>2. answer # <<"command">> /\ (q.cut = "method" => answer = <<>>)
      BY <3>1, PiecesAnswered
    <3>3. \A i \in DOMAIN r.answers : r.answers[i] # "command"
      BY <2>5, <2>6, <2>7, <3>1, <3>2, AnswerAppended
    <3>4. r.calls <= 1 /\ (r.cut = "method" => r.calls = 0)
      BY <2>7, <3>1, <3>2 DEF Web!CallsBackend
    <3> QED
      BY <3>3, <3>4
  <2>12. ASSUME ~r.torn \/ r.cut \notin {"headers", "body"} PROVE r.calls <= 1
    <3>1. CASE q.read = 0
      BY <2>4, <2>7, <3>1 DEF AnswersFit
    <3>2. CASE q.read > 0
      <4>1. q.arrived < Web!Segments(q)
        BY <2>4, <3>2
      <4>2. r.torn
        BY Zenon, <2>7, <4>1
      <4>3. q.cut \in {"method", "path"}
        <5>1. q.cut \in Web!Cuts /\ q.cut # "none"
          BY <2>4, <3>2 DEF Web!Connection, Web!Segments
        <5> QED
          BY <2>7, <2>12, <4>2, <5>1 DEF Web!Cuts
      <4>4. CASE q.cut = "method"
        BY <2>4, <2>7, <4>4 DEF AnswersFit
      <4>5. CASE q.cut = "path"
        <5>1. answer \in {<<"preflight">>, <<"page">>}
          BY <3>2, <4>5, PiecesAnswered
        <5>2. ~Web!CallsBackend(answer)
          BY <5>1 DEF Web!CallsBackend
        <5> QED
          BY <2>4, <2>7, <5>2
      <4> QED
        BY <4>3, <4>4, <4>5
    <3> QED
      BY <2>4, <3>1, <3>2
  <2>13. AnswersFit(r)
    BY <2>4, <2>6, <2>7, <2>8, <2>11, <2>12 DEF AnswersFit
  <2> QED
    BY <1>5, <1>a, <2>2, <2>3, <2>10, <2>13 DEF Web!onSocketReadyRead
<1>6. CASE UNCHANGED webVars
  BY <1>6, Zenon DEF WebInv, Web!TypeOK, webVars
<1> QED
  BY <1>1, <1>2, <1>3, <1>4, <1>5, <1>6, PartsMove DEF Web!Next

LEMMA WebInvariance == Spec => []WebInv
BY WebInit, WebNext, PTL DEF Spec

\* However its segments are read, the data of a request reaches the backend once
\* at most, and a request that is read whole or cut within its first line calls
\* it once at most, for any number of clients (web_server.cpp:93).
THEOREM RequestsStayAnswered == Spec => []RequestsAreAnswered
<1>1. WebInv => RequestsAreAnswered
  BY DEF WebInv, RequestsAreAnswered, Web!ActsOnce, AnswersFit, CommandOnce
<1> QED
  BY <1>1, WebInvariance, PTL

-----------------------------------------------------------------------------
(***************************************************************************)
(* Chunking.  The chunks there would be if the text ended here are packed: *)
(* what that takes of a list of chunks is stated for any list, text and    *)
(* size, so that a step is a sentence skipped, begun with or joined.       *)
(***************************************************************************)
Filled(z, c, t) ==
  /\ Len(c.sentences) > 0
  /\ \A k \in 1 .. Len(c.sentences) : c.sentences[k] \in 1 .. t
  /\ \A k, l \in 1 .. Len(c.sentences) : k < l => c.sentences[k] < c.sentences[l]
  /\ c.length <= z \/ Len(c.sentences) = 1

Packed(S, z, A, t) ==
  /\ \A i \in 1 .. Len(A) : Filled(z, A[i], t)
  /\ \A i, j \in 1 .. Len(A) : i < j =>
       \A k \in 1 .. Len(A[i].sentences), l \in 1 .. Len(A[j].sentences) :
         A[i].sentences[k] < A[j].sentences[l]
  /\ \A s \in 1 .. t : S[s] > 0 =>
       \E i \in 1 .. Len(A) : \E k \in 1 .. Len(A[i].sentences) : A[i].sentences[k] = s
  /\ \A i \in 1 .. Len(A) - 1 : A[i].length + 1 + S[A[i + 1].sentences[1]] > z

LEMMA StaysFilled ==
  ASSUME NEW z, NEW c, NEW t \in Nat, Filled(z, c, t)
  PROVE  Filled(z, c, t + 1)
<1>1. \A x \in 1 .. t : x \in 1 .. t + 1
  OBVIOUS
<1> QED
  BY <1>1, Zenon DEF Filled

\* An empty sentence is missed by nobody.
LEMMA SentenceSkipped ==
  ASSUME NEW S \in Seq(Nat), NEW z \in Nat, NEW A \in Seq(Chunker!Chunk), NEW t \in Nat,
         Packed(S, z, A, t), S[t + 1] = 0
  PROVE  Packed(S, z, A, t + 1)
<1>1. \A i \in 1 .. Len(A) : Filled(z, A[i], t + 1)
  BY StaysFilled DEF Packed
<1>2. \A s \in 1 .. t + 1 : S[s] > 0 => s \in 1 .. t
  OBVIOUS
<1> QED
  BY <1>1, <1>2, Zenon DEF Packed

\* A sentence begins a chunk if the last one has no room for it.
LEMMA SentenceBegins ==
  ASSUME NEW S \in Seq(Nat), NEW z \in Nat, NEW A \in Seq(Chunker!Chunk), NEW t \in Nat,
         Packed(S, z, A, t), NEW n \in Nat,
         A = <<>> \/ A[Len(A)].length + 1 + S[t + 1] > z
  PROVE  Packed(S, z, Append(A, [sentences |-> <<t + 1>>, length |-> n]), t + 1)
<1> DEFINE c == [sentences |-> <<t + 1>>, length |-> n]
           B == Append(A, c)
<1>1. c \in Chunker!Chunk /\ c.sentences = <<t + 1>> /\ Len(c.sentences) = 1 /\ c.sentences[1] = t + 1
  BY DEF Chunker!Chunk
<1>2. B \in Seq(Chunker!Chunk) /\ Len(B) = Len(A) + 1 /\ B[Len(A) + 1] = c
      /\ \A i \in 1 .. Len(A) : B[i] = A[i]
  BY <1>1
<1>3. Len(A) \in Nat /\ \A i \in 1 .. Len(B) : i \in 1 .. Len(A) \/ i = Len(A) + 1
  BY <1>2
<1> HIDE DEF B, c
<1>5. ASSUME NEW i \in 1 .. Len(B)
      PROVE  Filled(z, B[i], t + 1)
  <2>1. CASE i = Len(A) + 1
    <3>1. Filled(z, c, t + 1)
      BY <1>1 DEF Filled
    <3> QED
      BY <1>2, <2>1, <3>1
  <2>2. CASE i \in 1 .. Len(A)
    BY <1>2, <2>2, StaysFilled DEF Packed
  <2> QED
    BY <1>3, <2>1, <2>2
<1>6. ASSUME NEW i \in 1 .. Len(B), NEW j \in 1 .. Len(B), i < j,
             NEW k \in 1 .. Len(B[i].sentences), NEW l \in 1 .. Len(B[j].sentences)
      PROVE  B[i].sentences[k] < B[j].sentences[l]
  <2>1. i \in 1 .. Len(A) /\ B[i] = A[i]
    BY <1>2, <1>3, <1>6
  <2>2. CASE j = Len(A) + 1
    <3>1. B[i].sentences[k] \in 1 .. t
      <4>1. Filled(z, A[i], t)
        BY <2>1, Zenon DEF Packed
      <4> QED
        BY <2>1, <4>1 DEF Filled
    <3>2. B[j].sentences[l] = t + 1
      BY <1>1, <1>2, <2>2
    <3> QED
      BY <3>1, <3>2
  <2>3. CASE j \in 1 .. Len(A)
    BY <1>2, <1>6, <2>1, <2>3 DEF Packed
  <2> QED
    BY <1>3, <2>2, <2>3
<1>7. ASSUME NEW s \in 1 .. t + 1, S[s] > 0
      PROVE  \E i \in 1 .. Len(B) : \E k \in 1 .. Len(B[i].sentences) : B[i].sentences[k] = s
  <2>1. CASE s = t + 1
    <3>1. Len(A) + 1 \in 1 .. Len(B) /\ B[Len(A) + 1] = c
      BY <1>2, <1>3
    <3>2. 1 \in 1 .. Len(c.sentences) /\ c.sentences[1] = s
      BY <1>1, <2>1
    <3> QED
      BY <3>1, <3>2
  <2>2. CASE s \in 1 .. t
    <3>1. PICK i \in 1 .. Len(A) : \E k \in 1 .. Len(A[i].sentences) : A[i].sentences[k] = s
      BY <1>7, <2>2 DEF Packed
    <3>2. B[i] = A[i]
      BY <1>2, Zenon
    <3>3. i \in 1 .. Len(B)
      <4>1. Len(B) = Len(A) + 1 /\ Len(A) \in Nat
        BY <1>2, <1>3, Zenon
      <4> QED
        BY <4>1
    <3> QED
      BY <3>1, <3>2, <3>3, Zenon
  <2> QED
    BY <2>1, <2>2
<1>8. ASSUME NEW i \in 1 .. Len(B) - 1
      PROVE  B[i].length + 1 + S[B[i + 1].sentences[1]] > z
  <2>1. i \in 1 .. Len(A) /\ B[i] = A[i]
    BY <1>2, <1>3
  <2>2. CASE i = Len(A)
    <3>1. A # <<>> /\ B[i + 1].sentences[1] = t + 1
      BY <1>1, <1>2, <2>1, <2>2
    <3> QED
      BY <2>1, <2>2, <3>1
  <2>3. CASE i # Len(A)
    <3>1. i \in 1 .. Len(A) - 1 /\ B[i + 1] = A[i + 1]
      BY <1>2, <1>3, <2>1, <2>3
    <3> QED
      BY <2>1, <3>1 DEF Packed
  <2> QED
    BY <2>2, <2>3
<1>9. Packed(S, z, B, t + 1)
  BY <1>5, <1>6, <1>7, <1>8 DEF Packed
<1> QED
  BY <1>9 DEF B, c

\* A sentence joins the last chunk if that has room for it.
LEMMA SentenceJoins ==
  ASSUME NEW S \in Seq(Nat), NEW z \in Nat, NEW C \in Seq(Chunker!Chunk),
         NEW c \in Chunker!Chunk, NEW t \in Nat,
         Packed(S, z, Append(C, c), t), NEW n \in Nat, n <= z
  PROVE  Packed(S, z, Append(C, [sentences |-> Append(c.sentences, t + 1), length |-> n]), t + 1)
<1> DEFINE d == [sentences |-> Append(c.sentences, t + 1), length |-> n]
           A == Append(C, c)
           B == Append(C, d)
           q == c.sentences
           m == Len(c.sentences)
<1>1. q \in Seq(Nat) /\ m \in Nat /\ d \in Chunker!Chunk /\ d.length = n
      /\ d.sentences = Append(q, t + 1) /\ Len(d.sentences) = m + 1 /\ d.sentences[m + 1] = t + 1
      /\ \A k \in 1 .. m : d.sentences[k] = q[k]
  BY DEF Chunker!Chunk
<1>2. /\ A \in Seq(Chunker!Chunk) /\ Len(A) = Len(C) + 1 /\ A[Len(C) + 1] = c
      /\ \A i \in 1 .. Len(C) : A[i] = C[i]
  OBVIOUS
<1>3. /\ B \in Seq(Chunker!Chunk) /\ Len(B) = Len(C) + 1 /\ B[Len(C) + 1] = d
      /\ \A i \in 1 .. Len(C) : B[i] = C[i]
  BY <1>1
<1>4. Len(C) \in Nat /\ \A i \in 1 .. Len(B) : i \in 1 .. Len(A) /\ (i \in 1 .. Len(C) \/ i = Len(C) + 1)
  BY <1>2, <1>3
<1>5. /\ Packed(S, z, A, t) /\ m > 0 /\ \A k \in 1 .. m : q[k] \in 1 .. t
      /\ \A k, l \in 1 .. m : k < l => q[k] < q[l]
  <2>1. Len(C) + 1 \in 1 .. Len(A)
    BY <1>2, <1>4
  <2>2. Packed(S, z, A, t)
    OBVIOUS
  <2>3. Filled(z, c, t)
    BY <1>2, <2>1, <2>2, Zenon DEF Packed
  <2> QED
    BY <2>2, <2>3 DEF Filled
<1> HIDE DEF A, B, d, q, m
<1>6. \A i \in 1 .. Len(C) : A[i] = B[i]
  BY <1>2, <1>3, Zenon
<1>8. \A k \in 1 .. m + 1 : k \in 1 .. m \/ k = m + 1
  BY <1>1
<1>9. ASSUME NEW i \in 1 .. Len(B)
      PROVE  Filled(z, B[i], t + 1)
  <2>1. CASE i = Len(C) + 1
    <3>1. B[i] = d
      BY <1>3, <2>1
    <3>2. \A k \in 1 .. m + 1 : d.sentences[k] \in 1 .. t + 1
      BY <1>1, <1>5, <1>8
    <3>3. \A k, l \in 1 .. m + 1 : k < l => d.sentences[k] < d.sentences[l]
      BY <1>1, <1>5, <1>8
    <3>4. Filled(z, d, t + 1)
      BY <1>1, <3>2, <3>3 DEF Filled
    <3> QED
      BY <3>1, <3>4
  <2>2. CASE i \in 1 .. Len(C)
    <3>1. B[i] = A[i] /\ i \in 1 .. Len(A)
      BY <1>4, <1>6, <2>2
    <3> QED
      BY <1>5, <3>1, StaysFilled DEF Packed
  <2> QED
    BY <1>4, <2>1, <2>2
<1>10. ASSUME NEW i \in 1 .. Len(B), NEW j \in 1 .. Len(B), i < j,
              NEW k \in 1 .. Len(B[i].sentences), NEW l \in 1 .. Len(B[j].sentences)
       PROVE  B[i].sentences[k] < B[j].sentences[l]
  <2>1. i \in 1 .. Len(C) /\ i \in 1 .. Len(A) /\ B[i] = A[i] /\ j \in 1 .. Len(A)
    BY <1>3, <1>4, <1>6, <1>10
  <2>2. CASE j = Len(C) + 1
    <3>1. B[j] = d /\ A[j] = c /\ l \in 1 .. m + 1
      BY <1>1, <1>2, <1>3, <2>2
    <3>2. CASE l = m + 1
      <4>1. Filled(z, A[i], t)
        BY <1>5, <2>1, Zenon DEF Packed
      <4>2. B[i].sentences[k] \in 1 .. t
        BY <2>1, <4>1 DEF Filled
      <4> QED
        BY <1>1, <3>1, <3>2, <4>2
    <3>3. CASE l \in 1 .. m
      <4>1. d.sentences[l] = c.sentences[l] /\ l \in 1 .. Len(A[j].sentences)
        BY <1>1, <3>1, <3>3 DEF q, m
      <4> QED
        BY <1>5, <1>10, <2>1, <3>1, <4>1 DEF Packed
    <3> QED
      BY <1>8, <3>1, <3>2, <3>3
  <2>3. CASE j \in 1 .. Len(C)
    BY <1>5, <1>6, <1>10, <2>1, <2>3 DEF Packed
  <2> QED
    BY <1>4, <2>2, <2>3
<1>11. ASSUME NEW s \in 1 .. t + 1, S[s] > 0
       PROVE  \E i \in 1 .. Len(B) : \E k \in 1 .. Len(B[i].sentences) : B[i].sentences[k] = s
  <2>1. CASE s = t + 1
    <3>1. Len(C) + 1 \in 1 .. Len(B) /\ m + 1 \in 1 .. Len(B[Len(C) + 1].sentences)
          /\ B[Len(C) + 1].sentences[m + 1] = s
      BY <1>1, <1>3, <1>4, <2>1
    <3> QED
      BY <3>1
  <2>2. CASE s \in 1 .. t
    <3>1. PICK i \in 1 .. Len(A) : \E k \in 1 .. Len(A[i].sentences) : A[i].sentences[k] = s
      BY <1>5, <1>11, <2>2 DEF Packed
    <3>2. i \in 1 .. Len(B) /\ (i \in 1 .. Len(C) \/ i = Len(C) + 1)
      BY <1>2, <1>3, <1>4
    <3>3. CASE i = Len(C) + 1
      <4>1. PICK k \in 1 .. m : q[k] = s
        BY <1>2, <3>1, <3>3 DEF q, m
      <4>2. k \in 1 .. Len(B[i].sentences) /\ B[i].sentences[k] = s
        <5>1. B[i] = d
          BY <1>3, <3>3
        <5>2. k \in 1 .. m + 1 /\ d.sentences[k] = s
          BY <1>1, <4>1
        <5> QED
          BY <1>1, <5>1, <5>2
      <4> QED
        BY <3>2, <4>2
    <3>4. CASE i \in 1 .. Len(C)
      BY <1>6, <3>1, <3>2, <3>4
    <3> QED
      BY <3>2, <3>3, <3>4
  <2> QED
    BY <2>1, <2>2
<1>12. ASSUME NEW i \in 1 .. Len(B) - 1
       PROVE  B[i].length + 1 + S[B[i + 1].sentences[1]] > z
  <2>1. i \in 1 .. Len(C) /\ i \in 1 .. Len(A) - 1 /\ B[i] = A[i] /\ i + 1 \in 1 .. Len(B)
    BY <1>2, <1>3, <1>4, <1>6
  <2>2. B[i + 1].sentences[1] = A[i + 1].sentences[1]
    <3>1. CASE i = Len(C)
      <4>1. B[i + 1] = d /\ A[i + 1] = c
        BY <1>2, <1>3, <3>1
      <4>2. 1 \in 1 .. m
        BY <1>1, <1>5
      <4> QED
        BY <1>1, <4>1, <4>2 DEF q
    <3>2. CASE i # Len(C)
      <4>1. i + 1 \in 1 .. Len(C)
        BY <1>4, <2>1, <3>2
      <4> QED
        BY <1>6, <4>1
    <3> QED
      BY <3>1, <3>2
  <2> QED
    BY <1>5, <2>1, <2>2 DEF Packed
<1>13. Packed(S, z, B, t + 1)
  BY <1>9, <1>10, <1>11, <1>12 DEF Packed
<1> QED
  BY <1>13 DEF B, d

\* The chunk under way is not empty exactly when it has sentences, and before
\* the end of the text it is empty only if there is no chunk yet.
ChunkerInv ==
  /\ Chunker!TypeOK
  /\ (currentChunk.length = 0) <=> (currentChunk.sentences = <<>>)
  /\ currentChunk.length = 0 => chunks = <<>> \/ taken = Len(sentences)
  /\ Packed(sentences, chunkSize, Chunker!Flushed, taken)

LEMMA ChunkerInit == Init => ChunkerInv
<1> SUFFICES ASSUME Init PROVE ChunkerInv
  OBVIOUS
<1>0. ChunkSizes \subseteq Nat /\ MaxSentences \in Nat /\ MaxLength \in Nat
  BY PartsAssumption DEF Chunker!ConstantsAssumption
<1>1. /\ chunkSize \in ChunkSizes /\ chunks = <<>> /\ taken = 0
      /\ currentChunk = [sentences |-> <<>>, length |-> 0]
  BY DEF Init, Chunker!Init, Chunker!NoText
<1>2. sentences \in Seq(0 .. MaxLength)
  <2>1. PICK n \in 0 .. MaxSentences : sentences \in [1 .. n -> 0 .. MaxLength]
    BY DEF Init, Chunker!Init
  <2> QED
    BY <1>0, <2>1
<1>3. currentChunk \in Chunker!Chunk /\ chunks \in Seq(Chunker!Chunk)
  BY <1>1 DEF Chunker!Chunk
<1>4. Chunker!TypeOK
  BY <1>1, <1>2, <1>3 DEF Chunker!TypeOK
<1>5. Packed(sentences, chunkSize, <<>>, 0)
  BY DEF Packed
<1> QED
  BY <1>1, <1>4, <1>5 DEF ChunkerInv, Chunker!Flushed

LEMMA NumberAppended ==
  ASSUME NEW q \in Seq(Nat), NEW n \in Nat
  PROVE  Append(q, n) \in Seq(Nat) /\ Append(q, n) # <<>>
<1>1. Append(q, n) \in Seq(Nat)
  OBVIOUS
<1>2. Len(Append(q, n)) = Len(q) + 1 /\ Len(q) \in Nat
  OBVIOUS
<1> QED
  BY <1>1, <1>2

LEMMA ChunkerNext == ChunkerInv /\ [Next]_vars => ChunkerInv'
<1> SUFFICES ASSUME ChunkerInv, [Next]_vars PROVE ChunkerInv'
  OBVIOUS
<1>0. ChunkSizes \subseteq Nat /\ MaxSentences \in Nat /\ MaxLength \in Nat
  BY PartsAssumption DEF Chunker!ConstantsAssumption
<1>1. /\ chunkSize \in Nat /\ chunkSize \in ChunkSizes
      /\ sentences \in Seq(0 .. MaxLength) /\ sentences \in Seq(Nat)
      /\ chunks \in Seq(Chunker!Chunk) /\ currentChunk \in Chunker!Chunk
      /\ taken \in 0 .. Len(sentences) /\ taken \in Nat
  BY <1>0 DEF ChunkerInv, Chunker!TypeOK
<1>2. Chunker!Flushed \in Seq(Chunker!Chunk)
  BY <1>1 DEF Chunker!Flushed
<1>3. CASE Chunker!finish
  <2>1. /\ taken = Len(sentences) /\ chunks' = Chunker!Flushed
        /\ currentChunk' = [sentences |-> <<>>, length |-> 0]
        /\ UNCHANGED <<chunkSize, sentences, taken>>
    BY <1>3 DEF Chunker!finish, Chunker!NoText
  <2>2. currentChunk' \in Chunker!Chunk
    BY <2>1 DEF Chunker!Chunk
  <2>3. Chunker!TypeOK'
    BY <1>1, <1>2, <2>1, <2>2 DEF Chunker!TypeOK
  <2>4. Chunker!Flushed' = Chunker!Flushed
    BY <2>1 DEF Chunker!Flushed
  <2> QED
    BY <2>1, <2>3, <2>4 DEF ChunkerInv
<1>4. CASE Chunker!takeSentence
  <2> DEFINE i == taken + 1
  <2>1. /\ taken < Len(sentences) /\ taken' = taken + 1 /\ UNCHANGED <<chunkSize, sentences>>
        /\ taken' \in 0 .. Len(sentences) /\ sentences[i] \in Nat
    BY <1>1, <1>4 DEF Chunker!takeSentence
  <2>2. currentChunk.length \in Nat /\ currentChunk.sentences \in Seq(Nat)
    BY <1>1 DEF Chunker!Chunk
  <2>3. currentChunk.length = 0 => chunks = <<>> /\ currentChunk.sentences = <<>>
                                    /\ Chunker!Flushed = <<>>
    BY <2>1 DEF ChunkerInv, Chunker!Flushed
  <2>4. currentChunk.length # 0 =>
          /\ Chunker!Flushed = Append(chunks, currentChunk)
          /\ Chunker!Flushed # <<>>
          /\ Chunker!Flushed[Len(Chunker!Flushed)] = currentChunk
    BY <1>1 DEF Chunker!Flushed
  <2>5. Packed(sentences, chunkSize, Chunker!Flushed, taken)
    BY DEF ChunkerInv
  <2>6. CASE sentences[i] = 0 /\ UNCHANGED <<chunks, currentChunk>>
    <3>1. Chunker!Flushed' = Chunker!Flushed
      BY <2>6 DEF Chunker!Flushed
    <3>2. Packed(sentences, chunkSize, Chunker!Flushed, taken + 1)
      BY <1>1, <1>2, <2>5, <2>6, SentenceSkipped
    <3>3. Chunker!TypeOK'
      BY <1>1, <2>1, <2>6 DEF Chunker!TypeOK
    <3> QED
      BY <2>1, <2>3, <2>6, <3>1, <3>2, <3>3 DEF ChunkerInv
  <2>7. CASE sentences[i] > 0 /\ Chunker!Fits(i) /\ currentChunk' = Chunker!Joined(currentChunk, i)
             /\ UNCHANGED chunks
    <3>1. currentChunk.length + sentences[i] + 1 <= chunkSize
      BY <2>7 DEF Chunker!Fits
    <3>2. CASE currentChunk.length = 0
      <4>1. currentChunk' = [sentences |-> <<i>>, length |-> sentences[i]]
        BY <2>3, <2>7, <3>2 DEF Chunker!Joined
      <4>2. chunks' = <<>> /\ Chunker!Flushed = <<>>
        BY <2>3, <2>7, <3>2
      <4>3. Chunker!Flushed' = Append(Chunker!Flushed, [sentences |-> <<i>>, length |-> sentences[i]])
        <5>1. currentChunk'.length # 0
          BY <2>1, <2>7, <4>1
        <5> QED
          BY <4>1, <4>2, <5>1, Zenon DEF Chunker!Flushed
      <4>4. Packed(sentences, chunkSize, Chunker!Flushed', taken + 1)
        BY <1>1, <1>2, <2>1, <2>5, <4>2, <4>3, SentenceBegins
      <4>5. currentChunk' \in Chunker!Chunk
        BY <1>1, <2>1, <4>1 DEF Chunker!Chunk
      <4>6. Chunker!TypeOK'
        BY <1>1, <2>1, <2>7, <4>5 DEF Chunker!TypeOK
      <4> QED
        <5>1. currentChunk'.length = sentences[i] /\ sentences[i] # 0
          BY <2>1, <2>7, <4>1
        <5> QED
          BY <2>1, <2>7, <4>1, <4>4, <4>6, <5>1 DEF ChunkerInv
    <3>3. CASE currentChunk.length # 0
      <4>1. currentChunk' = [sentences |-> Append(currentChunk.sentences, i),
                             length |-> currentChunk.length + 1 + sentences[i]]
        BY <2>7, <3>3 DEF Chunker!Joined
      <4>2. Chunker!Flushed' = Append(chunks, currentChunk')
        BY <2>1, <2>2, <2>7, <4>1 DEF Chunker!Flushed
      <4>3. Packed(sentences, chunkSize, Append(chunks, currentChunk), taken)
        BY <2>4, <2>5, <3>3
      <4>4. currentChunk.length + 1 + sentences[i] \in Nat /\ currentChunk.length + 1 + sentences[i] <= chunkSize
        BY <1>1, <2>1, <2>2, <3>1
      <4>5. Packed(sentences, chunkSize, Chunker!Flushed', taken + 1)
        BY <1>1, <4>1, <4>2, <4>3, <4>4, SentenceJoins
      <4>6. currentChunk' \in Chunker!Chunk /\ currentChunk'.length # 0 /\ currentChunk'.sentences # <<>>
        <5>1. PICK q \in Seq(Nat), n \in Nat : q = currentChunk.sentences /\ n = i
          BY <1>1, <2>2
        <5>2. Append(q, n) \in Seq(Nat) /\ Append(q, n) # <<>>
          BY NumberAppended, Zenon
        <5>3. currentChunk.length + 1 + sentences[i] # 0
          BY <2>1, <2>2
        <5> QED
          BY <4>1, <4>4, <5>1, <5>2, <5>3 DEF Chunker!Chunk
      <4>7. Chunker!TypeOK'
        BY <1>1, <2>1, <2>7, <4>6 DEF Chunker!TypeOK
      <4> QED
        BY <2>1, <4>5, <4>6, <4>7 DEF ChunkerInv
    <3> QED
      BY <3>2, <3>3
  <2>8. CASE sentences[i] > 0 /\ ~Chunker!Fits(i) /\ chunks' = Chunker!Flushed
             /\ currentChunk' = Chunker!Joined(Chunker!NoText, i)
    <3>1. ~(currentChunk.length + sentences[i] + 1 <= chunkSize)
      BY <2>8 DEF Chunker!Fits
    <3>2. currentChunk' = [sentences |-> <<i>>, length |-> sentences[i]]
      BY <2>8 DEF Chunker!Joined, Chunker!NoText
    <3>3. Chunker!Flushed' = Append(Chunker!Flushed, [sentences |-> <<i>>, length |-> sentences[i]])
      BY <2>8, <3>2 DEF Chunker!Flushed
    <3>4. Chunker!Flushed = <<>>
          \/ Chunker!Flushed[Len(Chunker!Flushed)].length + 1 + sentences[taken + 1] > chunkSize
      <4>1. CASE currentChunk.length = 0
        BY <2>3, <4>1, Zenon
      <4>2. CASE currentChunk.length # 0
        <5>1. Chunker!Flushed[Len(Chunker!Flushed)].length = currentChunk.length
          BY <2>4, <4>2, Zenon
        <5>2. \A a, b, z \in Nat : ~(a + b + 1 <= z) => a + 1 + b > z
          OBVIOUS
        <5>3. currentChunk.length + 1 + sentences[taken + 1] > chunkSize
          BY <1>1, <2>1, <2>2, <3>1, <5>2
        <5> QED
          BY <5>1, <5>3
      <4> QED
        BY <4>1, <4>2
    <3>5. Packed(sentences, chunkSize, Chunker!Flushed', taken + 1)
      BY <1>1, <1>2, <2>1, <2>5, <3>3, <3>4, SentenceBegins
    <3>6. currentChunk' \in Chunker!Chunk /\ chunks' \in Seq(Chunker!Chunk)
      <4>1. <<i>> \in Seq(Nat)
        BY <1>1
      <4> QED
        <5>1. currentChunk' \in Chunker!Chunk
          BY <2>1, <3>2, <4>1 DEF Chunker!Chunk
        <5> QED
          BY <1>2, <2>8, <5>1, Zenon
    <3>7. Chunker!TypeOK'
      BY <1>1, <2>1, <3>6 DEF Chunker!TypeOK
    <3>8. currentChunk'.length # 0 /\ currentChunk'.sentences # <<>>
      <4>1. currentChunk'.length = sentences[i] /\ currentChunk'.sentences = <<i>>
        BY <3>2, Zenon
      <4>2. sentences[i] # 0
        BY <2>1, <2>8
      <4>3. <<i>> # <<>>
        OBVIOUS
      <4> QED
        BY <4>1, <4>2, <4>3, Zenon
    <3>9. Packed(sentences', chunkSize', Chunker!Flushed', taken')
      BY <2>1, <3>5, Zenon
    <3> QED
      BY <3>7, <3>8, <3>9, Zenon DEF ChunkerInv
  <2> QED
    BY <1>4, <2>6, <2>7, <2>8 DEF Chunker!takeSentence
<1>5. CASE UNCHANGED chunkVars
  BY <1>5 DEF chunkVars, ChunkerInv, Chunker!TypeOK, Chunker!Flushed
<1> QED
  BY <1>3, <1>4, <1>5, PartsMove DEF Chunker!Next

LEMMA ChunkerInvariance == Spec => []ChunkerInv
BY ChunkerInit, ChunkerNext, PTL DEF Spec

\* Whatever the text and the size of chunks, all sentences are kept, in their
\* order, and no two neighbouring chunks could be one (rag_system.cpp:447).
THEOREM ChunksStayRight == Spec => []ChunksAreRight
<1>1. ChunkerInv => ChunksAreRight
  <2> SUFFICES ASSUME ChunkerInv PROVE Chunker!SentencesKept /\ Chunker!ChunksAreTight
    BY DEF ChunksAreRight
  <2>0. /\ Chunker!Flushed \in Seq(Chunker!Chunk)
        /\ Packed(sentences, chunkSize, Chunker!Flushed, taken)
    BY DEF ChunkerInv, Chunker!TypeOK, Chunker!Flushed
  <2>1. PICK A \in Seq(Chunker!Chunk) : A = Chunker!Flushed
    BY <2>0
  <2>2. DOMAIN A = 1 .. Len(A) /\ Len(A) \in Nat
        /\ \A i \in 1 .. Len(A) : A[i].sentences \in Seq(Nat)
    <3>1. \A i \in 1 .. Len(A) : A[i] \in Chunker!Chunk
      OBVIOUS
    <3> QED
      BY <3>1 DEF Chunker!Chunk
  <2>3. \A i \in 1 .. Len(A) : DOMAIN A[i].sentences = 1 .. Len(A[i].sentences)
    BY <2>2
  <2>4. \A i \in 1 .. Len(A) : Filled(chunkSize, A[i], taken)
    BY <2>0, <2>1, Zenon DEF Packed
  <2>5. Chunker!SentencesKept
    <3>1. \A s \in 1 .. taken : sentences[s] > 0 => \E i \in DOMAIN A : Chunker!Has(i, s)
      BY <2>0, <2>1, <2>2, <2>3, Zenon DEF Packed, Chunker!Has, Chunker!AllChunks
    <3>2. \A i \in DOMAIN A : Chunker!InOrder(A[i])
      BY <2>2, <2>3, <2>4, Zenon DEF Filled, Chunker!InOrder
    <3>3. ASSUME NEW i \in DOMAIN A, NEW j \in DOMAIN A, i < j,
                 NEW s \in 1 .. taken, NEW u \in 1 .. taken, Chunker!Has(i, s), Chunker!Has(j, u)
          PROVE  s < u
      <4>1. PICK k \in 1 .. Len(A[i].sentences) : A[i].sentences[k] = s
        BY <2>1, <2>2, <2>3, <3>3, Zenon DEF Chunker!Has, Chunker!AllChunks
      <4>2. PICK l \in 1 .. Len(A[j].sentences) : A[j].sentences[l] = u
        BY <2>1, <2>2, <2>3, <3>3, Zenon DEF Chunker!Has, Chunker!AllChunks
      <4> QED
        BY <2>0, <2>1, <2>2, <3>3, <4>1, <4>2, Zenon DEF Packed
    <3> QED
      BY <2>1, <3>1, <3>2, <3>3, Zenon DEF Chunker!SentencesKept, Chunker!AllChunks
  <2>6. Chunker!ChunksAreTight
    <3>1. \A i \in DOMAIN A : A[i].length <= chunkSize \/ Len(A[i].sentences) = 1
      BY <2>2, <2>4, Zenon DEF Filled
    <3>2. ASSUME NEW i \in 1 .. Len(A) - 1
          PROVE  A[i].length + 1 + sentences[Head(A[i + 1].sentences)] > chunkSize
      <4>1. i + 1 \in 1 .. Len(A)
        BY <2>2
      <4>2. Head(A[i + 1].sentences) = A[i + 1].sentences[1]
        BY <2>2, <4>1
      <4> QED
        BY <2>0, <2>1, <4>2, Zenon DEF Packed
    <3> QED
      BY <2>1, <3>1, <3>2, Zenon DEF Chunker!ChunksAreTight, Chunker!AllChunks
  <2> QED
    BY <2>5, <2>6
<1> QED
  BY <1>1, ChunkerInvariance, PTL

-----------------------------------------------------------------------------
(***************************************************************************)
(* The fine-tuning tab.  The properties are inductive together, once the   *)
(* open boxes are bounded by the models announced.                         *)
(***************************************************************************)
BoxPerModel == boxes <= Cardinality(announced)

PanelInv == Panel!TypeOK /\ Panel!TrainingHasTimer /\ Panel!AnnouncedOnce /\ Panel!OneTimerUnlessStopped
       /\ BoxPerModel

-----------------------------------------------------------------------------
LEMMA PanelConstants == MaxTrainings \in Nat /\ StepsToFull \in Nat \ {0}
  BY PartsAssumption DEF Panel!ConstantsAssumption

\* The announced trainings are finitely many, and no more than there are.
LEMMA AnnouncedFinite ==
  ASSUME NEW S \in SUBSET Panel!Starts
  PROVE  /\ IsFiniteSet(S)
         /\ Cardinality(S) \in Nat
         /\ Cardinality(S) <= MaxTrainings
<1>1. IsFiniteSet(Panel!Starts) /\ Cardinality(Panel!Starts) = MaxTrainings
  <2>1. /\ IsFiniteSet(1 .. MaxTrainings)
        /\ Cardinality(1 .. MaxTrainings) =
             IF 1 > MaxTrainings THEN 0 ELSE MaxTrainings - 1 + 1
    BY PanelConstants, FS_Interval
  <2> QED
    BY <2>1, PanelConstants DEF Panel!Starts
<1>2. IsFiniteSet(S) /\ Cardinality(S) <= Cardinality(Panel!Starts)
  BY <1>1, FS_Subset
<1> QED
  BY <1>1, <1>2, FS_CardinalityType

LEMMA PanelInit == Init => PanelInv
<1> SUFFICES ASSUME Init PROVE PanelInv
  OBVIOUS
<1>1. BoxPerModel
  BY FS_EmptySet DEF Init, Panel!Init, BoxPerModel
<1>2. Panel!TypeOK
  <2>1. /\ progress \in 0 .. StepsToFull + 1
        /\ bar \in 0 .. StepsToFull
        /\ trainings \in 0 .. MaxTrainings
        /\ boxes \in 0 .. MaxTrainings
    BY PanelConstants, SMT DEF Init, Panel!Init
  <2>2. /\ isTraining \in BOOLEAN
        /\ ticking \subseteq Panel!Starts
        /\ announced \subseteq Panel!Starts
        /\ stopped \subseteq Panel!Starts
    BY DEF Init, Panel!Init
  <2> QED
    BY <2>1, <2>2 DEF Panel!TypeOK
<1>3. Panel!AnnouncedOnce
  BY DEF Init, Panel!Init, Panel!AnnouncedOnce
<1> QED
  BY <1>1, <1>2, <1>3
     DEF Init, Panel!Init, PanelInv, Panel!TrainingHasTimer, Panel!OneTimerUnlessStopped

LEMMA PanelNext == PanelInv /\ [Next]_vars => PanelInv'
<1> SUFFICES ASSUME PanelInv, [Next]_vars PROVE PanelInv'
  OBVIOUS
<1> USE PanelConstants
<1>0. /\ Panel!TypeOK /\ Panel!TrainingHasTimer /\ Panel!AnnouncedOnce
      /\ Panel!OneTimerUnlessStopped /\ BoxPerModel
  BY DEF PanelInv
<1>1. CASE Panel!onStartTraining
  <2>1. Panel!TypeOK'
    BY <1>0, <1>1 DEF Panel!onStartTraining, Panel!TypeOK, Panel!Starts
  <2>2. Panel!AnnouncedOnce'
    BY <1>0, <1>1 DEF Panel!onStartTraining, Panel!TypeOK, Panel!AnnouncedOnce, Panel!Starts
  <2>3. Panel!TrainingHasTimer' /\ Panel!OneTimerUnlessStopped'
    BY <1>0, <1>1 DEF Panel!onStartTraining, Panel!TrainingHasTimer, Panel!OneTimerUnlessStopped
  <2>4. BoxPerModel'
    BY <1>0, <1>1 DEF Panel!onStartTraining, BoxPerModel
  <2> QED
    BY <2>1, <2>2, <2>3, <2>4 DEF PanelInv
<1>2. CASE Panel!onStopTraining
  <2>1. trainings \in Panel!Starts
    BY <1>0, <1>2 DEF Panel!onStopTraining, Panel!TypeOK, Panel!TrainingHasTimer
  <2>a. stopped' \subseteq Panel!Starts
    BY <1>0, <1>2, <2>1 DEF Panel!onStopTraining, Panel!TypeOK
  <2>b. isTraining' \in BOOLEAN /\ bar' \in 0 .. StepsToFull
    <3>1. bar' = 0 /\ isTraining' = FALSE
      BY <1>2 DEF Panel!onStopTraining
    <3>2. 0 \in 0 .. StepsToFull
      BY SMT
    <3> QED
      BY <3>1, <3>2, Zenon
  <2>c. /\ progress' \in 0 .. StepsToFull + 1
        /\ trainings' \in 0 .. MaxTrainings
        /\ ticking' \subseteq Panel!Starts
        /\ boxes' \in 0 .. MaxTrainings
        /\ announced' \subseteq Panel!Starts
    BY <1>0, <1>2, Zenon DEF Panel!onStopTraining, Panel!TypeOK
  <2>2. Panel!TypeOK'
    BY <2>a, <2>b, <2>c, Zenon DEF Panel!TypeOK
  <2> QED
    BY <1>0, <1>2, <2>2
       DEF Panel!onStopTraining, PanelInv, Panel!TrainingHasTimer, Panel!AnnouncedOnce,
           Panel!OneTimerUnlessStopped, BoxPerModel
<1>3. CASE Panel!dismiss
  <2>1. Panel!TypeOK' /\ boxes' <= boxes
    BY <1>0, <1>3 DEF Panel!dismiss, Panel!TypeOK
  <2>2. Cardinality(announced) \in Nat
    BY <1>0, AnnouncedFinite DEF Panel!TypeOK
  <2>3. BoxPerModel'
    BY <1>0, <1>3, <2>1, <2>2 DEF Panel!dismiss, BoxPerModel, Panel!TypeOK
  <2> QED
    BY <1>0, <1>3, <2>1, <2>3
       DEF Panel!dismiss, PanelInv, Panel!TrainingHasTimer, Panel!AnnouncedOnce,
           Panel!OneTimerUnlessStopped
<1>4. ASSUME NEW t \in Panel!Starts, Panel!tick(t) PROVE PanelInv'
  <2>1. progress' \in 0 .. StepsToFull + 1 /\ bar' \in 0 .. StepsToFull
    BY <1>0, <1>4 DEF Panel!tick, Panel!ShowProgress, Panel!TypeOK
  <2>2. Panel!TypeOK'
    BY <1>0, <1>4, <2>1 DEF Panel!tick, Panel!TypeOK
  <2> QED
    BY <1>0, <1>4, <2>2
       DEF Panel!tick, PanelInv, Panel!TrainingHasTimer, Panel!AnnouncedOnce,
           Panel!OneTimerUnlessStopped, BoxPerModel
<1>5. ASSUME NEW t \in Panel!Starts, Panel!complete(t) PROVE PanelInv'
  <2>1. progress' \in 0 .. StepsToFull + 1 /\ bar' \in 0 .. StepsToFull
    BY <1>0, <1>5 DEF Panel!complete, Panel!ShowProgress, Panel!TypeOK
  <2>2. t \notin announced /\ t \in ticking
    BY <1>0, <1>5 DEF Panel!complete, Panel!AnnouncedOnce
  <2>3. Cardinality(announced') = Cardinality(announced) + 1
    BY <1>0, <1>5, <2>2, AnnouncedFinite, FS_AddElement DEF Panel!complete, Panel!TypeOK
  <2>4. announced' \subseteq Panel!Starts
    BY <1>0, <1>5 DEF Panel!complete, Panel!TypeOK
  <2>5. boxes' \in Nat /\ BoxPerModel'
    <3>1. Cardinality(announced) \in Nat
      BY <1>0, AnnouncedFinite DEF Panel!TypeOK
    <3>2. boxes' = boxes + 1 /\ boxes \in Nat
      BY <1>0, <1>5 DEF Panel!complete, Panel!TypeOK
    <3> QED
      BY <1>0, <2>3, <3>1, <3>2 DEF BoxPerModel
  <2>6. boxes' \in 0 .. MaxTrainings
    <3>1. Cardinality(announced') <= MaxTrainings /\ Cardinality(announced') \in Nat
      BY <2>4, AnnouncedFinite
    <3> QED
      BY <2>5, <3>1 DEF BoxPerModel
  <2>7. Panel!TypeOK'
    BY <1>0, <1>5, <2>1, <2>4, <2>6 DEF Panel!complete, Panel!TypeOK
  <2>8. Panel!AnnouncedOnce'
    BY <1>0, <1>5, <2>2 DEF Panel!complete, Panel!AnnouncedOnce
  <2>9. Panel!TrainingHasTimer' /\ Panel!OneTimerUnlessStopped'
    BY <1>0, <1>5, <2>2 DEF Panel!complete, Panel!TrainingHasTimer, Panel!OneTimerUnlessStopped
  <2> QED
    BY <2>5, <2>7, <2>8, <2>9 DEF PanelInv
<1>6. CASE UNCHANGED panelVars
  BY <1>0, <1>6 DEF panelVars, PanelInv, Panel!TypeOK, Panel!TrainingHasTimer, Panel!AnnouncedOnce,
                    Panel!OneTimerUnlessStopped, BoxPerModel
<1> QED
  BY <1>1, <1>2, <1>3, <1>4, <1>5, <1>6, PartsMove DEF Panel!Next, Panel!User, Panel!Timer


LEMMA PanelInvariance == Spec => []PanelInv
BY PanelInit, PanelNext, PTL DEF Spec

\* Start never stays disabled without a timer that enables it, each training
\* announces its model once or still ticks, and without a Stop no two timers
\* run, for any number of trainings (finetune_panel.cpp:354).
THEOREM TimersAlwaysAgree == Spec => []TimersAgree
<1>1. PanelInv => TimersAgree
  BY DEF PanelInv, TimersAgree, Panel!TimersAgree
<1> QED
  BY <1>1, PanelInvariance, PTL

-----------------------------------------------------------------------------
\* All parts keep their types: a flag without a child, a report too many, a
\* timer or a load beyond its bound would break them.
THEOREM TypeCorrect == Spec => []TypeOK
<1>1. ProcessInv /\ RepliesInv /\ DownloadsInv /\ PluginsInv /\ WebInv /\ ChunkerInv /\ PanelInv
        => TypeOK
  BY DEF TypeOK, ProcessInv, RepliesInv, DownloadsInv, PluginsInv, WebInv, ChunkerInv, PanelInv
<1> QED
  BY <1>1, ProcessInvariance, RepliesInvariance, DownloadsInvariance, PluginsInvariance,
     WebInvariance, ChunkerInvariance, PanelInvariance, PTL

-----------------------------------------------------------------------------
(***************************************************************************)
(* The calls of BackendClient return, and its child's death is noticed.    *)
(* ENABLED is opaque to the provers: that the steps fairness is asked of   *)
(* can be taken where their guards say so is the hypothesis.               *)
(***************************************************************************)
ClientCanGoOn ==
  /\ call = "start" => ENABLED <<Process!Starting>>_(Process!vars)
  /\ call \in {"terminate", "kill", "ended"} =>
       ENABLED <<Process!stopKills \/ Process!stopEnds>>_(Process!vars)
  /\ child = "dead" /\ Process!Reaping =>
       ENABLED <<Process!onBackendFinished>>_(Process!vars)
  /\ phase = "dying" /\ call = "idle" =>
       ENABLED <<phase = "dying" /\ (Process!stopBackend \/ Process!destroyed)>>_(Process!vars)

In(c) == call = c
Dead == child = "dead"
Quitting == phase = "dying"
Gone == phase = "gone"

\* Nothing is left once the client is gone.
GoneIsOver == Gone => call = "idle" /\ child = "none"

LEMMA GoneStays == Spec => []GoneIsOver
<1>1. Init => GoneIsOver
  BY DEF Init, Process!Init, GoneIsOver, Gone
<1>2. GoneIsOver /\ [Next]_vars => GoneIsOver'
  <2> SUFFICES ASSUME GoneIsOver, Process!Next PROVE GoneIsOver'
    BY PartsMove DEF processVars, GoneIsOver, Gone
  <2> QED
    BY Zenon DEF Process!Next, Process!Child, Process!Starting, Process!Stopping,
       Process!Checking, Process!childStarts, Process!childStartFails, Process!childDies,
       Process!started, Process!startFails, Process!stopKills, Process!stopEnds,
       Process!onBackendFinished, Process!Reaping, Process!Loop, Process!checkSucceeds,
       Process!checkFails, Process!startBackend, Process!stopBackend, Process!destroy,
       Process!destroyed, Process!waitForBackendReady, Process!processVars, GoneIsOver, Gone
<1> QED
  BY <1>1, <1>2, PTL DEF Spec

\* What a wait does, it does in the event loop, and to its own checks only.
LEMMA WaitsLeaveChild ==
  ASSUME NEW w \in Process!Waits, Process!waitForBackendReady(w) \/ Process!Checking(w)
  PROVE  UNCHANGED <<child, flag, call, phase>> /\ call = "idle" /\ phase = "alive"
BY DEF Process!waitForBackendReady, Process!Checking, Process!checkSucceeds,
   Process!checkFails, Process!processVars, Process!Loop

\* A call goes through its stages and no others.
LEMMA CallGoesOn ==
  ASSUME [Next]_vars
  PROVE  /\ In("start") => In("start")' \/ In("idle")'
         /\ In("terminate") => In("terminate")' \/ In("kill")' \/ In("ended")'
         /\ In("kill") => In("kill")' \/ In("ended")' \/ In("idle")'
         /\ In("ended") => In("ended")' \/ In("idle")'
         /\ In("idle") => In("idle")' \/ In("start")' \/ In("terminate")'
<1>1. \/ call' = call
      \/ call \in {"start", "kill", "ended"} /\ call' = "idle"
      \/ call = "idle" /\ call' \in {"start", "terminate"}
      \/ call = "terminate" /\ call' \in {"kill", "ended"}
      \/ call = "kill" /\ call' = "ended"
  <2>1. CASE Process!startBackend \/ Process!stopBackend \/ Process!started
             \/ Process!startFails \/ Process!stopKills \/ Process!stopEnds
    BY <2>1 DEF Process!startBackend, Process!Loop, Process!stopBackend, Process!started,
       Process!startFails, Process!stopKills, Process!stopEnds
  <2>2. CASE Process!onBackendFinished
    BY <2>2 DEF Process!onBackendFinished, Process!Reaping, Process!Loop
  <2>3. CASE Process!Child \/ Process!destroy \/ Process!destroyed \/ UNCHANGED processVars
    BY <2>3 DEF Process!Child, Process!childStarts, Process!childStartFails,
       Process!childDies, Process!destroy, Process!destroyed, processVars
  <2>4. CASE \E w \in Process!Waits : Process!waitForBackendReady(w) \/ Process!Checking(w)
    BY <2>4, WaitsLeaveChild
  <2> QED
    BY <2>1, <2>2, <2>3, <2>4, PartsMove DEF Process!Next, Process!Starting, Process!Stopping
<1> QED
  BY <1>1 DEF In

LEMMA CallIsSomewhere ==
  ProcessInv => In("idle") \/ In("start") \/ In("terminate") \/ In("kill") \/ In("ended")
BY DEF ProcessInv, Process!TypeOK, In

\* startBackend and stopBackend return, whatever their child does, and slots of
\* its end start.
THEOREM ClientReturns == Spec /\ []ClientCanGoOn => Process!CallsReturn
<1>1. [Next]_vars =>
        /\ In("start") => In("start")' \/ In("idle")'
        /\ In("terminate") => In("terminate")' \/ In("kill")' \/ In("ended")'
        /\ In("kill") => In("kill")' \/ In("ended")' \/ In("idle")'
        /\ In("ended") => In("ended")' \/ In("idle")'
  BY CallGoesOn
<1>2. <<Process!Starting>>_(Process!vars) => In("idle")'
  BY DEF Process!Starting, Process!started, Process!startFails, In
<1>3. <<Process!stopKills \/ Process!stopEnds>>_(Process!vars) =>
        (In("terminate") /\ In("kill")') \/ In("idle")'
  BY DEF Process!stopKills, Process!stopEnds, In
<1>4. ClientCanGoOn =>
        /\ In("start") => ENABLED <<Process!Starting>>_(Process!vars)
        /\ In("terminate") \/ In("kill") \/ In("ended") =>
             ENABLED <<Process!stopKills \/ Process!stopEnds>>_(Process!vars)
  BY DEF ClientCanGoOn, In
<1>5. /\ In("terminate") => ~In("kill") /\ ~In("ended")
      /\ In("idle") <=> call = "idle"
  BY DEF In
<1> QED
  BY <1>1, <1>2, <1>3, <1>4, <1>5, CallIsSomewhere, ProcessInvariance,
     PTL DEF Spec, Process!Fairness, Process!CallsReturn

\* In the destructor the client only stops its backend.
LEMMA QuittingGoesOn ==
  ASSUME [Next]_vars, Quitting
  PROVE  /\ Quitting' \/ Gone'
         /\ In("idle") => In("idle")' \/ In("terminate")'
<1>1. CASE \/ Process!startBackend \/ Process!destroy
           \/ \E w \in Process!Waits : Process!waitForBackendReady(w) \/ Process!Checking(w)
  BY <1>1, WaitsLeaveChild DEF Process!startBackend, Process!destroy, Process!Loop, Quitting
<1>2. CASE Process!stopBackend \/ Process!Starting \/ Process!stopKills \/ Process!stopEnds
           \/ Process!destroyed \/ Process!Child \/ UNCHANGED processVars
  BY <1>2 DEF Process!stopBackend, Process!Starting, Process!started, Process!startFails,
     Process!stopKills, Process!stopEnds, Process!destroyed, Process!Child,
     Process!childStarts, Process!childStartFails, Process!childDies, processVars,
     Quitting, Gone, In
<1>3. CASE Process!onBackendFinished
  BY <1>3 DEF Process!onBackendFinished, Quitting, Gone, In
<1> QED
  BY <1>1, <1>2, <1>3, PartsMove DEF Process!Next, Process!Stopping

\* A dead child is noticed, in the event loop, in the waits of a stop or by the
\* destructor, with any calls made meanwhile (backend_client.cpp:437).
THEOREM BackendDeathIsNoticed == Spec /\ []ClientCanGoOn => Process!DeathIsNoticed
<1>1. <<Process!onBackendFinished>>_(Process!vars) => ~Dead'
  BY DEF Process!onBackendFinished, Process!RestartLate, Process!Restart, Dead
<1>2. ClientCanGoOn /\ GoneIsOver /\ ProcessInv /\ Dead
        /\ (In("terminate") \/ In("kill") \/ (In("idle") /\ ~Quitting))
        => ENABLED <<Process!onBackendFinished>>_(Process!vars)
  BY DEF ClientCanGoOn, GoneIsOver, ProcessInv, Process!TypeOK, Dead, In, Quitting, Gone,
     Process!Reaping, Process!Loop
<1>3. /\ [Next]_vars /\ Quitting => Quitting' \/ Gone'
      /\ [Next]_vars /\ Quitting /\ In("idle") => In("idle")' \/ In("terminate")'
  BY QuittingGoesOn
<1>4. <<phase = "dying" /\ (Process!stopBackend \/ Process!destroyed)>>_(Process!vars)
        => In("terminate")' \/ ~Dead'
  BY DEF Process!stopBackend, Process!destroyed, In, Dead
<1>5. ClientCanGoOn /\ Quitting /\ In("idle") =>
        ENABLED <<phase = "dying" /\ (Process!stopBackend \/ Process!destroyed)>>_(Process!vars)
  BY DEF ClientCanGoOn, Quitting, In
<1>6. GoneIsOver /\ Gone => ~Dead
  BY DEF GoneIsOver, Gone, Dead
<1>7. /\ In("idle") <=> call = "idle"
      /\ Dead <=> child = "dead"
      /\ ~Dead <=> child # "dead"
  BY DEF In, Dead
<1> QED
  BY <1>1, <1>2, <1>3, <1>4, <1>5, <1>6, <1>7, ClientReturns, GoneStays,
     ProcessInvariance, PTL DEF Spec, Process!Fairness, Process!CallsReturn,
     Process!DeathIsNoticed

-----------------------------------------------------------------------------
(***************************************************************************)
(* Streams that have closed are reported: nothing arrives any more, so     *)
(* that the lines left are read once and the end comes next.               *)
(***************************************************************************)
StreamCanGoOn(s) ==
  stream[s].state = "closed" =>
    /\ Replies!CanReadLine(s) => ENABLED <<Replies!readyRead(s)>>_(Replies!vars)
    /\ ~Replies!CanReadLine(s) => ENABLED <<Replies!finished(s)>>_(Replies!vars)

StreamsCanGoOn == \A s \in Streams : StreamCanGoOn(s)

Closed(s) == stream[s].state = "closed"
Over(s) == stream[s].state = "over"
HasLines(s) == Replies!CanReadLine(s)

LEMMA ClosedGoesOn ==
  ASSUME RepliesInv, [Next]_vars, NEW s \in Streams, Closed(s)
  PROVE  /\ Closed(s)' \/ Over(s)'
         /\ ~HasLines(s) => ~HasLines(s)'
<1> USE DEF Closed, Over, HasLines, Replies!CanReadLine
<1>1. stream \in [Streams -> Reply]
  BY Zenon DEF RepliesInv, Replies!TypeOK, Reply
<1>2. ASSUME stream'[s] = stream[s] PROVE Closed(s)' /\ (~HasLines(s) => ~HasLines(s)')
  BY <1>2
<1>3. ASSUME NEW u \in Streams, Replies!Stream(u) PROVE u = s \/ stream'[s] = stream[s]
  BY <1>1, <1>3 DEF Replies!Stream, Replies!chatCompletion, Replies!sendPart,
     Replies!sendRest, Replies!sendEnd, Replies!readyRead, Replies!finished
<1>4. ~Replies!chatCompletion(s) /\ ~Replies!sendPart(s) /\ ~Replies!sendRest(s)
      /\ ~Replies!sendEnd(s)
  BY DEF Replies!chatCompletion, Replies!sendPart, Replies!sendRest, Replies!sendEnd
<1>5. CASE Replies!readyRead(s)
  <2>1. stream'[s].state = "closed" /\ stream'[s].unread = 0 /\ stream'[s].last = FALSE
    BY <1>1, <1>5 DEF Replies!readyRead, Reply
  <2> QED
    BY <2>1
<1>6. CASE Replies!finished(s)
  <2>1. /\ stream'[s].state = "over" /\ stream'[s].unread = stream[s].unread
        /\ stream'[s].last = stream[s].last
    BY <1>1, <1>6 DEF Replies!finished, Reply
  <2> QED
    BY <2>1
<1>7. CASE Replies!serverChanges
  <2>1. stream'[s] = stream[s]
    BY <1>1, <1>7 DEF Replies!serverChanges, Replies!Broken
  <2> QED
    BY <1>2, <2>1
<1>8. CASE Replies!makeRequest \/ Replies!handleResponse \/ Replies!handleError
           \/ UNCHANGED replyVars
  BY <1>2, <1>8 DEF Replies!makeRequest, Replies!handleResponse, Replies!handleError,
     Replies!streamVars, replyVars
<1> QED
  BY <1>2, <1>3, <1>4, <1>5, <1>6, <1>7, <1>8, PartsMove DEF Replies!Next, Replies!Stream

LEMMA StreamEnds ==
  ASSUME NEW s \in Streams
  PROVE  Spec /\ []StreamsCanGoOn => (Closed(s) ~> Over(s))
<1>1. RepliesInv /\ [Next]_vars /\ Closed(s) =>
        (Closed(s)' \/ Over(s)') /\ (~HasLines(s) => ~HasLines(s)')
  BY ClosedGoesOn
<1>2. RepliesInv /\ <<Replies!readyRead(s)>>_(Replies!vars) => ~HasLines(s)'
  <2>1. RepliesInv /\ Replies!readyRead(s) => stream'[s].unread = 0 /\ stream'[s].last = FALSE
    BY DEF RepliesInv, Replies!TypeOK, Replies!readyRead
  <2> QED
    BY <2>1 DEF HasLines, Replies!CanReadLine
<1>3. RepliesInv /\ <<Replies!finished(s)>>_(Replies!vars) => Over(s)'
  BY DEF RepliesInv, Replies!TypeOK, Replies!finished, Over
<1>4. StreamsCanGoOn /\ Closed(s) =>
        /\ HasLines(s) => ENABLED <<Replies!readyRead(s)>>_(Replies!vars)
        /\ ~HasLines(s) => ENABLED <<Replies!finished(s)>>_(Replies!vars)
  BY DEF StreamsCanGoOn, StreamCanGoOn, Closed, HasLines
<1>5. Replies!Fairness => Replies!Delivers(s)
  BY DEF Replies!Fairness
<1> QED
  BY <1>1, <1>2, <1>3, <1>4, <1>5, RepliesInvariance, PTL DEF Spec, Replies!Delivers

\* Every stream that has closed comes to be reported, whatever else the client
\* asks and whether the backend lives (backend_client.cpp:396).
THEOREM StreamsAreReported == Spec /\ []StreamsCanGoOn => Replies!StreamsEnd
BY StreamEnds DEF Replies!StreamsEnd, Closed, Over

-----------------------------------------------------------------------------
(***************************************************************************)
(* Connections whose requests have arrived are closed.  A socket that was  *)
(* read and is still open was read in the middle of the first word, so     *)
(* that what comes then is answered.                                       *)
(***************************************************************************)
ReadOpen(r) ==
  r.state = "open" /\ r.read > 0 => r.cut = "method" /\ r.read < Web!Segments(r)

ReadsFit == \A c \in Clients : ReadOpen(conn[c])

Whole(c) == conn[c].state = "open" /\ conn[c].arrived + conn[c].read = Web!Segments(conn[c])
Closing(c) == conn[c].state = "closing"
Shut(c) == conn[c].state = "closed"

ConnectionsCanGoOn ==
  \A c \in Clients :
    /\ Whole(c) /\ conn[c].arrived > 0 =>
         ENABLED <<Web!onSocketReadyRead(c)>>_(Web!webVars)
    /\ Closing(c) => ENABLED <<Web!disconnected(c)>>_(Web!webVars)

\* What reading a socket leaves of its connection.
LEMMA SocketRead ==
  ASSUME WebInv, NEW c \in Clients, Web!onSocketReadyRead(c)
  PROVE  \E answer \in Web!Handled(conn[c]) :
           /\ conn'[c].state = IF answer = <<>> THEN conn[c].state ELSE "closing"
           /\ conn'[c].read = conn[c].read + conn[c].arrived /\ conn'[c].arrived = 0
           /\ conn'[c].cut = conn[c].cut
           /\ \A u \in Clients \ {c} : conn'[u] = conn[u]
<1>1. conn \in [Clients -> Web!Connection]
  BY Zenon DEF WebInv, Web!TypeOK
<1>2. PICK q \in Web!Connection : q = conn[c]
  BY <1>1
<1>3. PICK answer \in Web!Handled(q) :
        conn' = [conn EXCEPT ![c] =
          [q EXCEPT !.read = @ + q.arrived, !.arrived = 0,
                    !.torn = @ \/ q.arrived < Web!Segments(q),
                    !.answers = @ \o answer,
                    !.calls = IF backend /\ Web!CallsBackend(answer) THEN @ + 1 ELSE @,
                    !.state = IF answer = <<>> THEN @ ELSE "closing"]]
  BY <1>2 DEF Web!onSocketReadyRead
<1>4. /\ conn'[c].state = IF answer = <<>> THEN q.state ELSE "closing"
      /\ conn'[c].read = q.read + q.arrived /\ conn'[c].arrived = 0
      /\ conn'[c].cut = q.cut
  BY <1>1, <1>3 DEF Web!Connection
<1>5. \A u \in Clients \ {c} : conn'[u] = conn[u]
  BY <1>1, <1>3
<1> QED
  BY <1>2, <1>4, <1>5, Zenon

\* Everything read, or the rest of a first word, is answered.
LEMMA WholeAnswered ==
  ASSUME NEW r \in Web!Connection, NEW answer \in Web!Handled(r),
         r.arrived + r.read = Web!Segments(r), r.read > 0 => r.cut = "method"
  PROVE  answer # <<>>
<1>1. r.read \in Nat /\ r.arrived \in Nat
  BY DEF Web!Connection
<1> QED
  BY <1>1, PiecesAnswered

LEMMA ReadsFitNext == WebInv /\ ReadsFit /\ [Next]_vars => ReadsFit'
<1> SUFFICES ASSUME WebInv, ReadsFit, [Next]_vars, NEW c \in Clients PROVE ReadOpen(conn'[c])
  BY DEF ReadsFit
<1>1. conn[c] \in Web!Connection /\ AnswersFit(conn[c]) /\ ReadOpen(conn[c])
      /\ conn \in [Clients -> Web!Connection]
  BY Zenon DEF WebInv, Web!TypeOK, ReadsFit
<1>2. ASSUME conn'[c] = conn[c] PROVE ReadOpen(conn'[c])
  BY <1>1, <1>2, Zenon
<1>3. ASSUME NEW u \in Clients, Web!onSocketReadyRead(u) PROVE ReadOpen(conn'[c])
  <2>1. CASE u # c
    BY <1>2, <1>3, <2>1, SocketRead
  <2>2. CASE u = c
    <3>1. PICK answer \in Web!Handled(conn[c]) :
            /\ conn'[c].state = IF answer = <<>> THEN conn[c].state ELSE "closing"
            /\ conn'[c].read = conn[c].read + conn[c].arrived /\ conn'[c].cut = conn[c].cut
      BY <1>3, <2>2, SocketRead
    <3> SUFFICES ASSUME conn'[c].state = "open"
                 PROVE  conn'[c].cut = "method" /\ conn'[c].read < Web!Segments(conn'[c])
      BY DEF ReadOpen
    <3>2. answer = <<>> /\ conn[c].state = "open"
      BY <3>1
    <3>3. conn[c].read \in Nat /\ conn[c].arrived \in Nat /\ Web!Segments(conn[c]) \in {1, 2}
          /\ conn[c].arrived > 0 /\ conn[c].arrived + conn[c].read <= Web!Segments(conn[c])
      BY <1>1, <1>3, <2>2 DEF Web!Connection, Web!Segments, AnswersFit, Web!onSocketReadyRead
    <3>4. conn[c].arrived + conn[c].read < Web!Segments(conn[c])
      <4>1. conn[c].read > 0 => conn[c].cut = "method"
        BY <1>1, <3>2 DEF ReadOpen
      <4> QED
        BY <1>1, <3>2, <3>3, <4>1, WholeAnswered
    <3>5. conn[c].cut = "method"
      <4>1. conn[c].read = 0
        BY <3>3, <3>4
      <4> QED
        BY <1>1, <3>2, <3>3, <3>4, <4>1, PiecesAnswered
    <3> QED
      BY <3>1, <3>3, <3>4, <3>5 DEF Web!Segments
  <2> QED
    BY <2>1, <2>2
<1>4. ASSUME NEW u \in Clients, Web!onNewConnection(u) PROVE ReadOpen(conn'[c])
  <2>1. CASE u # c
    BY <1>1, <1>2, <1>4, <2>1 DEF Web!onNewConnection
  <2>2. CASE u = c
    BY <1>1, <1>4, <2>2 DEF Web!onNewConnection, Web!Fresh, ReadOpen
  <2> QED
    BY <2>1, <2>2
<1>5. ASSUME NEW u \in Clients, Web!segmentArrives(u) PROVE ReadOpen(conn'[c])
  BY <1>1, <1>5 DEF Web!segmentArrives, Web!Connection, ReadOpen, Web!Segments
<1>6. ASSUME NEW u \in Clients, Web!disconnected(u) \/ Web!clientLeaves(u)
      PROVE  ReadOpen(conn'[c])
  <2>1. CASE u # c
    BY <1>1, <1>2, <1>6, <2>1 DEF Web!disconnected, Web!clientLeaves
  <2>2. CASE u = c
    <3>1. conn'[c].state = "closed"
      BY <1>1, <1>6, <2>2 DEF Web!disconnected, Web!clientLeaves, Web!Connection
    <3> QED
      BY <3>1 DEF ReadOpen
  <2> QED
    BY <2>1, <2>2
<1>7. CASE Web!startServer \/ Web!stopServer \/ Web!setBackend \/ UNCHANGED webVars
  BY <1>2, <1>7 DEF Web!startServer, Web!stopServer, Web!setBackend, webVars
<1> QED
  BY <1>3, <1>4, <1>5, <1>6, <1>7, PartsMove DEF Web!Next

LEMMA ReadsInvariance == Spec => []ReadsFit
<1>1. Init => ReadsFit
  BY DEF Init, Web!Init, Web!Fresh, ReadsFit, ReadOpen
<1> QED
  BY <1>1, ReadsFitNext, WebInvariance, PTL DEF Spec

LEMMA ConnectionGoesOn ==
  ASSUME WebInv, ReadsFit, [Next]_vars, NEW c \in Clients
  PROVE  /\ Whole(c) => Whole(c)' \/ Closing(c)' \/ Shut(c)'
         /\ Closing(c) => Closing(c)' \/ Shut(c)'
<1> USE DEF Whole, Closing, Shut
<1>1. conn[c] \in Web!Connection /\ AnswersFit(conn[c]) /\ ReadOpen(conn[c])
      /\ conn \in [Clients -> Web!Connection]
  BY Zenon DEF WebInv, Web!TypeOK, ReadsFit
<1>2. ASSUME conn'[c] = conn[c]
      PROVE  (Whole(c) => Whole(c)') /\ (Closing(c) => Closing(c)')
  BY <1>2, Zenon DEF Web!Segments
<1>3. ASSUME Web!onSocketReadyRead(c) PROVE Closing(c)' \/ (~Whole(c) /\ ~Closing(c))
  <2>1. PICK answer \in Web!Handled(conn[c]) :
          conn'[c].state = IF answer = <<>> THEN conn[c].state ELSE "closing"
    BY <1>3, SocketRead
  <2>2. CASE Closing(c)
    BY <2>1, <2>2
  <2>3. CASE Whole(c)
    <3>1. conn[c].read > 0 => conn[c].cut = "method"
      BY <1>1, <2>3 DEF ReadOpen
    <3>2. answer # <<>>
      BY <1>1, <2>3, <3>1, WholeAnswered
    <3> QED
      BY <2>1, <3>2
  <2> QED
    BY <2>2, <2>3
<1>4. ASSUME Web!disconnected(c) \/ Web!clientLeaves(c) PROVE Shut(c)'
  BY <1>1, <1>4 DEF Web!disconnected, Web!clientLeaves, Web!Connection
<1>5. ASSUME Web!segmentArrives(c) PROVE ~Whole(c) /\ conn'[c].state = conn[c].state
  BY <1>1, <1>5 DEF Web!segmentArrives, Web!Connection
<1>6. ASSUME Web!onNewConnection(c) PROVE ~Whole(c) /\ ~Closing(c)
  BY <1>6 DEF Web!onNewConnection
<1>7. ASSUME NEW u \in Clients \ {c},
             \/ Web!onNewConnection(u) \/ Web!segmentArrives(u) \/ Web!onSocketReadyRead(u)
             \/ Web!disconnected(u) \/ Web!clientLeaves(u)
      PROVE  conn'[c] = conn[c]
  <2>1. CASE Web!onSocketReadyRead(u)
    BY <2>1, SocketRead
  <2>2. CASE ~Web!onSocketReadyRead(u)
    BY <1>1, <1>7, <2>2 DEF Web!onNewConnection, Web!segmentArrives, Web!disconnected,
       Web!clientLeaves
  <2> QED
    BY <2>1, <2>2
<1>8. CASE Web!startServer \/ Web!stopServer \/ Web!setBackend \/ UNCHANGED webVars
  BY <1>2, <1>8 DEF Web!startServer, Web!stopServer, Web!setBackend, webVars
<1> QED
  BY <1>2, <1>3, <1>4, <1>5, <1>6, <1>7, <1>8, PartsMove DEF Web!Next

LEMMA ConnectionEnds ==
  ASSUME NEW c \in Clients
  PROVE  Spec /\ []ConnectionsCanGoOn => (Whole(c) ~> Shut(c))
<1>1. WebInv /\ ReadsFit /\ [Next]_vars =>
        /\ Whole(c) => Whole(c)' \/ Closing(c)' \/ Shut(c)'
        /\ Closing(c) => Closing(c)' \/ Shut(c)'
  BY ConnectionGoesOn
<1>2. <<Web!onSocketReadyRead(c)>>_(Web!webVars) /\ WebInv /\ ReadsFit /\ Whole(c)
        => ~Whole(c)'
  <2> SUFFICES ASSUME Web!onSocketReadyRead(c), WebInv, ReadsFit, Whole(c) PROVE ~Whole(c)'
    OBVIOUS
  <2>1. conn[c] \in Web!Connection /\ ReadOpen(conn[c])
    BY Zenon DEF WebInv, Web!TypeOK, ReadsFit
  <2>2. conn[c].read > 0 => conn[c].cut = "method"
    BY <2>1 DEF ReadOpen, Whole
  <2>3. conn'[c].state = "closing"
    BY <2>1, <2>2, SocketRead, WholeAnswered DEF Whole
  <2> QED
    BY <2>3 DEF Whole
<1>3. <<Web!disconnected(c)>>_(Web!webVars) /\ WebInv => Shut(c)'
  BY DEF Web!disconnected, WebInv, Web!TypeOK, Web!Connection, Shut
<1>4. WebInv /\ ReadsFit /\ ConnectionsCanGoOn =>
        /\ Whole(c) => ENABLED <<Web!onSocketReadyRead(c)>>_(Web!webVars)
        /\ Closing(c) => ENABLED <<Web!disconnected(c)>>_(Web!webVars)
  <2> SUFFICES ASSUME WebInv, ReadsFit, Whole(c) PROVE conn[c].arrived > 0
    BY DEF ConnectionsCanGoOn
  <2>1. conn[c] \in Web!Connection /\ ReadOpen(conn[c])
    BY Zenon DEF WebInv, Web!TypeOK, ReadsFit
  <2> QED
    BY <2>1 DEF ReadOpen, Whole, Web!Connection, Web!Segments
<1>5. Web!Fairness => Web!Delivers(c)
  BY DEF Web!Fairness
<1> QED
  BY <1>1, <1>2, <1>3, <1>4, <1>5, WebInvariance, ReadsInvariance,
     PTL DEF Spec, Web!Delivers

\* Every connection whose request has arrived is closed, with its answer out
\* or because the client left, also if the server is stopped or the request
\* was read in two parts (web_server.cpp:93).
THEOREM ConnectionsAreClosed == Spec /\ []ConnectionsCanGoOn => Web!ConnectionsClose
BY ConnectionEnds DEF Web!ConnectionsClose, Whole, Shut

\* Nobody waits for ever on the event loop, in any of the parts, whatever the
\* others who use it do.
THEOREM AnswersAlwaysArrive ==
  Spec /\ []ClientCanGoOn /\ []StreamsCanGoOn /\ []ConnectionsCanGoOn => AnswersArrive
BY ClientReturns, BackendDeathIsNoticed, StreamsAreReported, ConnectionsAreClosed, Zenon
DEF AnswersArrive

=============================================================================
