-------------------------- MODULE ChatEngine_proofs --------------------------
(***************************************************************************)
(* Theorems about ChatEngine, for every number of questions, pool size,    *)
(* token limit, prompt size and context size: types, that the chat is      *)
(* never stuck, that generations stay apart, that answers are whole, and   *)
(* that ChatContract is implemented.                                       *)
(***************************************************************************)
EXTENDS ChatEngine, SequenceTheorems, TLAPS

-----------------------------------------------------------------------------
(***************************************************************************)
(* Typing.                                                                 *)
(***************************************************************************)

\* Moving a generation on keeps pc a function to program counters.
LEMMA GotoTyping ==
  ASSUME TypeOK, NEW g \in Gens, NEW to \in WorkerPcs, Goto(g, to)
  PROVE  pc' \in [Gens -> WorkerPcs]
BY DEF TypeOK, Goto

\* Posting a signal keeps the queue a sequence of signals.
LEMMA EmitTyping ==
  ASSUME TypeOK, NEW g \in Gens, NEW kind \in Closing \union {"token"},
         Emit(kind, g)
  PROVE  queue' \in Seq(Signal)
<1>1. Event(kind, g) \in Signal
  BY DEF Event, Signal
<1> QED
  BY <1>1, AppendProperties DEF TypeOK, Emit

\* Delivering one keeps it so, too, and what is delivered is a signal.
LEMMA DeliverTyping ==
  ASSUME TypeOK, queue # <<>>
  PROVE  /\ Head(queue) \in Signal
         /\ Tail(queue) \in Seq(Signal)
         /\ Head(queue).gen \in Gens
<1>1. Head(queue) \in Signal /\ Tail(queue) \in Seq(Signal)
  BY HeadTailProperties DEF TypeOK
<1> QED
  BY <1>1 DEF Signal

\* The steps of the GUI thread keep every variable in its type.
LEMMA GuiTyping ==
  ASSUME TypeOK, User \/ Load \/ Deliver
  PROVE  TypeOK'
<1> USE DEF TypeOK, guiVars, engineVars, workerVars, historyVars,
            InEventLoop, Running
<1>1. CASE sendMessage
  <2>1. gen + 1 \in Gens /\ gen' \in 0 .. MaxGen
    BY <1>1, ConstantsAssumption DEF sendMessage, Gens
  <2>2. response' \in Seq(Gens)
    BY <1>1 DEF sendMessage
  <2>3. pc' \in [Gens -> WorkerPcs]
    BY <1>1, <2>1 DEF sendMessage, WorkerPcs
  <2>4. limit' \in [Gens -> Nat]
    BY <1>1, <2>1, ConstantsAssumption DEF sendMessage
  <2> QED
    BY <1>1, <2>1, <2>2, <2>3, <2>4 DEF sendMessage
<1>2. CASE onStopGeneration
  BY <1>2 DEF onStopGeneration
<1>4. ASSUME NEW n \in TokenLimits, onMaxTokensChanged(n)
      PROVE  TypeOK'
  BY <1>4 DEF onMaxTokensChanged
<1>5. CASE onUnloadModel
  BY <1>5 DEF onUnloadModel
<1>6. CASE onLoadModel
  <2>1. kv' \in 0 .. NCtx
    BY <1>6, ConstantsAssumption DEF onLoadModel, cleanup
  <2> QED
    BY <1>6, <2>1 DEF onLoadModel, cleanup
<1>7. CASE closeWindow
  <2>1. queue' \in Seq(Signal) /\ kv' \in 0 .. NCtx
    BY <1>7, ConstantsAssumption DEF closeWindow, cleanup
  <2> QED
    BY <1>7, <2>1 DEF closeWindow, cleanup
<1>8. CASE loadModelStep("file", "context", "model")
  BY <1>8 DEF loadModelStep
<1>9. CASE loadModelStep("context", "sampler", "context")
  BY <1>9 DEF loadModelStep
<1>10. CASE loadModelFails
  BY <1>10 DEF loadModelFails
<1>11. CASE loadModelSucceeds
  BY <1>11 DEF loadModelSucceeds
<1>12. CASE onTokenReceived
  <2>1. queue' \in Seq(Signal) /\ response' \in Seq(Gens)
    BY <1>12, DeliverTyping, AppendProperties DEF onTokenReceived
  <2> QED
    BY <1>12, <2>1 DEF onTokenReceived
<1>13. CASE onResponseComplete
  <2>1. queue' \in Seq(Signal) /\ response' \in Seq(Gens)
    BY <1>13, DeliverTyping DEF onResponseComplete
  <2> QED
    BY <1>13, <2>1 DEF onResponseComplete
<1>14. CASE onError
  <2>1. queue' \in Seq(Signal)
    BY <1>14, DeliverTyping DEF onError
  <2> QED
    BY <1>14, <2>1 DEF onError
<1> QED
  BY <1>1, <1>2, <1>4, <1>5, <1>6, <1>7, <1>8, <1>9, <1>10, <1>11, <1>12,
     <1>13, <1>14 DEF User, Load, Deliver

\* So do the steps of a generation's thread.
LEMMA WorkerTyping ==
  ASSUME TypeOK, NEW g \in Gens, Worker(g)
  PROVE  TypeOK'
<1> USE DEF TypeOK, guiVars, engineVars, workerVars, historyVars
<1>1. ASSUME giveUp(g)
      PROVE  TypeOK'
  <2>1. queue' \in Seq(Signal)
    BY <1>1, EmitTyping DEF giveUp, Closing
  <2>2. pc' \in [Gens -> WorkerPcs]
    BY <1>1, GotoTyping DEF giveUp, WorkerPcs
  <2> QED
    BY <1>1, <2>1, <2>2 DEF giveUp
<1>2. ASSUME finish(g)
      PROVE  TypeOK'
  <2>1. queue' \in Seq(Signal)
    BY <1>2, EmitTyping DEF finish, Closing
  <2>2. pc' \in [Gens -> WorkerPcs]
    BY <1>2, GotoTyping DEF finish, WorkerPcs
  <2> QED
    BY <1>2, <2>1, <2>2 DEF finish
<1>3. ASSUME breakWithError(g)
      PROVE  TypeOK'
  <2>1. queue' \in Seq(Signal)
    BY <1>3, EmitTyping DEF breakWithError, Closing
  <2>2. pc' \in [Gens -> WorkerPcs]
    BY <1>3, GotoTyping DEF breakWithError, WorkerPcs
  <2> QED
    BY <1>3, <2>1, <2>2 DEF breakWithError
<1>4. ASSUME NEW to \in WorkerPcs, Goto(g, to), shouldStop' \in BOOLEAN,
             kv' \in 0 .. NCtx,
             UNCHANGED <<guiVars, engine, gen, limit, made, queue, fate,
                         historyVars>>
      PROVE  TypeOK'
  <2>1. pc' \in [Gens -> WorkerPcs]
    BY <1>4, GotoTyping
  <2> QED
    BY <1>4, <2>1
<1>5. CASE startInPool(g)
  BY <1>4, <1>5 DEF startInPool, WorkerPcs
<1>6. CASE enter(g)
  BY <1>4, <1>6 DEF enter, WorkerPcs
<1>7. CASE enterWithoutModel(g)
  BY <1>1, <1>7 DEF enterWithoutModel
<1>8. CASE tokenize(g)
  BY <1>1, <1>4, <1>8 DEF tokenize, WorkerPcs
<1>9. ASSUME NEW n \in PromptSizes \ {0}, decodePrompt(g, n)
      PROVE  TypeOK'
  <2>1. CASE giveUp(g)
    BY <1>1, <2>1
  <2>2. CASE kv + n <= NCtx /\ ~giveUp(g)
    <3>1. kv + n \in 0 .. NCtx
      BY <2>2, ConstantsAssumption
    <3> QED
      BY <1>4, <1>9, <2>2, <3>1 DEF decodePrompt, WorkerPcs
  <2> QED
    BY <1>9, <2>1, <2>2 DEF decodePrompt
<1>10. ASSUME NEW n \in PromptSizes \ {0}, decodeOversizedPrompt(g, n)
       PROVE  TypeOK'
  BY <1>10 DEF decodeOversizedPrompt
<1>11. CASE continueLoop(g)
  BY <1>4, <1>11 DEF continueLoop, WorkerPcs
<1>12. CASE leaveLoop(g)
  BY <1>2, <1>12 DEF leaveLoop
<1>13. CASE sampleToken(g)
  <2>1. queue' \in Seq(Signal)
    BY <1>13, EmitTyping DEF sampleToken
  <2>2. pc' \in [Gens -> WorkerPcs]
    BY <1>13, GotoTyping DEF sampleToken, WorkerPcs
  <2>3. made' \in [Gens -> Nat]
    BY <1>13 DEF sampleToken
  <2> QED
    BY <1>13, <2>1, <2>2, <2>3 DEF sampleToken
<1>14. CASE sampleEndOfText(g)
  BY <1>2, <1>14 DEF sampleEndOfText
<1>15. CASE sampleUnprintable(g)
  BY <1>3, <1>15 DEF sampleUnprintable
<1>16. CASE decodeToken(g)
  <2>1. CASE breakWithError(g)
    BY <1>3, <2>1
  <2>2. CASE kv < NCtx /\ ~breakWithError(g)
    <3>1. kv + 1 \in 0 .. NCtx
      BY <2>2, ConstantsAssumption
    <3> QED
      BY <1>4, <1>16, <2>2, <3>1 DEF decodeToken, WorkerPcs
  <2> QED
    BY <1>16, <2>1, <2>2 DEF decodeToken
<1>17. CASE completeAfterError(g)
  BY <1>2, <1>17 DEF completeAfterError
<1>18. CASE undefinedBehaviour(g)
  BY <1>18 DEF undefinedBehaviour
<1> QED
  BY <1>5, <1>6, <1>7, <1>8, <1>9, <1>10, <1>11, <1>12, <1>13, <1>14,
     <1>15, <1>16, <1>17, <1>18 DEF Worker

\* Type correctness: every reachable state of the chat tab and the engine is
\* well typed, and the KV cache never overflows.
THEOREM TypeCorrect == Spec => []TypeOK
<1>1. Init => TypeOK
  <2> SUFFICES ASSUME Init PROVE TypeOK
    OBVIOUS
  <2>1. kv \in 0 .. NCtx /\ gen \in 0 .. MaxGen
    BY ConstantsAssumption DEF Init
  <2>2. pc \in [Gens -> WorkerPcs]
    BY DEF Init, WorkerPcs
  <2>3. limit \in [Gens -> Nat] /\ made \in [Gens -> Nat]
    BY DEF Init
  <2>4. response \in Seq(Gens) /\ queue \in Seq(Signal)
    BY DEF Init
  <2>5. label \in {"none", "loaded"} /\ engine \in {"none", "ready"}
    BY DEF Init
  <2> QED
    BY <2>1, <2>2, <2>3, <2>4, <2>5 DEF Init, TypeOK
<1>2. TypeOK /\ [Next]_vars => TypeOK'
  <2> SUFFICES ASSUME TypeOK, [Next]_vars
               PROVE  TypeOK'
    OBVIOUS
  <2>1. CASE User \/ Load \/ Deliver
    BY <2>1, GuiTyping
  <2>2. ASSUME NEW g \in Gens, Worker(g)
        PROVE  TypeOK'
    BY <2>2, WorkerTyping
  <2>3. CASE UNCHANGED vars
    BY <2>3 DEF vars, guiVars, engineVars, workerVars, historyVars, TypeOK
  <2> QED
    BY <2>1, <2>2, <2>3 DEF Next
<1> QED
  BY <1>1, <1>2, PTL DEF Spec

-----------------------------------------------------------------------------
(***************************************************************************)
(* What a step can do to the generations and to the queue.                 *)
(***************************************************************************)

\* The steps of a generation's thread, by what they do to pc and queue.
Quiet(g) ==
  /\ Live(g)
  /\ \E to \in {"entry", "tokenize", "prompt", "loop", "sample"} : Goto(g, to)
  /\ UNCHANGED <<queue, made, mishaps>>
Streams(g) ==
  /\ Live(g)
  /\ Goto(g, "decode")
  /\ Emit("token", g)
  /\ made' = [made EXCEPT ![g] = @ + 1]
  /\ UNCHANGED mishaps
Closes(g) ==
  /\ Live(g)
  /\ Goto(g, "done")
  /\ \E kind \in Closing : Emit(kind, g)
  /\ UNCHANGED <<made, mishaps>>
Breaks(g) ==
  /\ Live(g)
  /\ Goto(g, "tail")
  /\ Emit("error", g)
  /\ mishaps' = mishaps \union {"tokenError"}
  /\ UNCHANGED made
Repeats(g) ==
  /\ pc[g] = "tail"
  /\ Goto(g, "done")
  /\ Emit("complete", g)
  /\ UNCHANGED <<made, mishaps>>
Halts == UNCHANGED <<pc, queue, made, mishaps>>

\* Every step of a generation's thread is one of these, and none touches
\* what belongs to the GUI thread.
LEMMA WorkerCases ==
  ASSUME NEW g \in Gens, Worker(g)
  PROVE  /\ UNCHANGED <<guiVars, gen, stopAsked>>
         /\ \/ Quiet(g)
            \/ Streams(g)
            \/ Closes(g)
            \/ Breaks(g)
            \/ Repeats(g)
            \/ Halts
<1> USE DEF Executing, Live, historyVars, workerVars
<1>1. ASSUME giveUp(g), Live(g)
      PROVE  Closes(g) /\ UNCHANGED <<guiVars, gen, stopAsked>>
  BY <1>1 DEF giveUp, Closes, Closing
<1>2. ASSUME finish(g), Live(g)
      PROVE  Closes(g) /\ UNCHANGED <<guiVars, gen, stopAsked>>
  BY <1>2 DEF finish, Closes, Closing
<1>3. ASSUME breakWithError(g), Live(g)
      PROVE  Breaks(g) /\ UNCHANGED <<guiVars, gen, stopAsked>>
  BY <1>3 DEF breakWithError, Breaks
<1>4. CASE startInPool(g)
  BY <1>4 DEF startInPool, Quiet
<1>5. CASE enter(g)
  BY <1>5 DEF enter, Quiet
<1>6. CASE enterWithoutModel(g)
  BY <1>1, <1>6 DEF enterWithoutModel
<1>7. CASE tokenize(g)
  BY <1>1, <1>7 DEF tokenize, Quiet
<1>8. ASSUME NEW n \in PromptSizes \ {0}, decodePrompt(g, n)
      PROVE  (Quiet(g) \/ Closes(g)) /\ UNCHANGED <<guiVars, gen, stopAsked>>
  BY <1>1, <1>8 DEF decodePrompt, Quiet
<1>9. ASSUME NEW n \in PromptSizes \ {0}, decodeOversizedPrompt(g, n)
      PROVE  Halts /\ UNCHANGED <<guiVars, gen, stopAsked>>
  BY <1>9 DEF decodeOversizedPrompt, Halts
<1>10. CASE continueLoop(g)
  BY <1>10 DEF continueLoop, Quiet
<1>11. CASE leaveLoop(g)
  BY <1>2, <1>11 DEF leaveLoop
<1>12. CASE sampleToken(g)
  BY <1>12 DEF sampleToken, Streams
<1>13. CASE sampleEndOfText(g)
  BY <1>2, <1>13 DEF sampleEndOfText
<1>14. CASE sampleUnprintable(g)
  BY <1>3, <1>14 DEF sampleUnprintable
<1>15. CASE decodeToken(g)
  BY <1>3, <1>15 DEF decodeToken, Quiet
<1>16. CASE completeAfterError(g)
  BY <1>16 DEF completeAfterError, finish, Repeats
<1>17. CASE undefinedBehaviour(g)
  BY <1>17 DEF undefinedBehaviour, Halts
<1> QED
  BY <1>4, <1>5, <1>6, <1>7, <1>8, <1>9, <1>10, <1>11, <1>12, <1>13,
     <1>14, <1>15, <1>16, <1>17 DEF Worker

\* Clicks and stages of a load that leave the generations and what the user
\* sees of them alone.
StandsBy ==
  /\ UNCHANGED <<isGenerating, response, tokenCount, gen, pc, made, queue>>
  /\ mishaps \subseteq mishaps'
  /\ gui # "closed" /\ gui' # "closed"

LEMMA GuiCases ==
  ASSUME TypeOK, User \/ Load \/ Deliver
  PROVE  sendMessage \/ loadModelFails \/ closeWindow \/ Deliver \/ StandsBy
<1> USE DEF StandsBy, guiVars, engineVars, workerVars, historyVars,
            InEventLoop
<1>1. CASE onStopGeneration
  BY <1>1 DEF onStopGeneration
<1>3. ASSUME NEW n \in TokenLimits, onMaxTokensChanged(n)
      PROVE  StandsBy
  BY <1>3 DEF onMaxTokensChanged
<1>4. CASE onUnloadModel
  BY <1>4 DEF onUnloadModel
<1>5. CASE onLoadModel
  BY <1>5 DEF onLoadModel
<1>6. CASE loadModelStep("file", "context", "model")
  BY <1>6 DEF loadModelStep
<1>7. CASE loadModelStep("context", "sampler", "context")
  BY <1>7 DEF loadModelStep
<1>8. CASE loadModelSucceeds
  BY <1>8 DEF loadModelSucceeds
<1> QED
  BY <1>1, <1>3, <1>4, <1>5, <1>6, <1>7, <1>8 DEF User, Load

\* Posting a signal puts it last.
LEMMA EmitAppends ==
  ASSUME TypeOK, NEW g \in Gens, NEW kind \in Closing \union {"token"},
         Emit(kind, g)
  PROVE  /\ Len(queue') = Len(queue) + 1
         /\ \A i \in 1 .. Len(queue) : queue'[i] = queue[i]
         /\ queue'[Len(queue) + 1].kind = kind
         /\ queue'[Len(queue) + 1].gen = g
<1>1. Event(kind, g) \in Signal
  BY DEF Event, Signal
<1>2. queue'[Len(queue) + 1] = Event(kind, g)
  BY <1>1, AppendProperties DEF TypeOK, Emit
<1> QED
  BY <1>1, <1>2, AppendProperties DEF TypeOK, Emit, Event

\* Delivering a signal removes the first.
LEMMA DeliverRemoves ==
  ASSUME TypeOK, queue # <<>>, queue' = Tail(queue)
  PROVE  /\ Len(queue) \in Nat \ {0}
         /\ Len(queue') = Len(queue) - 1
         /\ \A i \in 1 .. Len(queue') : queue'[i] = queue[i + 1]
         /\ Head(queue) = queue[1]
BY HeadTailProperties, EmptySeq, LenProperties DEF TypeOK

-----------------------------------------------------------------------------
(***************************************************************************)
(* The chat never refuses questions for nothing.                           *)
(***************************************************************************)

\* A closing signal stays queued while others are posted behind it.
LEMMA ClosingStaysQueued ==
  ASSUME TypeOK, NEW g \in Gens, NEW kind \in Closing \union {"token"},
         Emit(kind, g), NEW h \in Gens, QueuedClosing(h)
  PROVE  QueuedClosing(h)'
<1>1. PICK i \in 1 .. Len(queue) : queue[i].gen = h /\ queue[i].kind \in Closing
  BY DEF QueuedClosing
<1>2. Len(queue') = Len(queue) + 1 /\ queue'[i] = queue[i]
  BY EmitAppends
<1>3. Len(queue) \in Nat
  BY LenProperties DEF TypeOK
<1>4. i \in 1 .. Len(queue')
  BY <1>2, <1>3
<1> QED
  BY <1>1, <1>2, <1>4 DEF QueuedClosing

\* A closing signal just posted is queued.
LEMMA ClosingIsQueued ==
  ASSUME TypeOK, NEW g \in Gens, NEW kind \in Closing, Emit(kind, g)
  PROVE  QueuedClosing(g)'
<1>1. /\ Len(queue') = Len(queue) + 1
      /\ queue'[Len(queue) + 1].kind = kind
      /\ queue'[Len(queue) + 1].gen = g
  BY EmitAppends
<1>2. Len(queue) \in Nat
  BY LenProperties DEF TypeOK
<1>3. Len(queue) + 1 \in 1 .. Len(queue')
  BY <1>1, <1>2
<1> QED
  BY <1>1, <1>3 DEF QueuedClosing

LEMMA NoStuckStep ==
  ASSUME TypeOK, NoStuckChat, [Next]_vars
  PROVE  NoStuckChat'
<1> SUFFICES ASSUME isGenerating', gui' # "closed"
             PROVE  gen' > 0 /\ (Live(gen)' \/ QueuedClosing(gen)')
  BY DEF NoStuckChat
<1> USE DEF NoStuckChat
<1>1. CASE sendMessage
  <2>1. gen' = gen + 1 /\ gen + 1 \in Gens /\ pc'[gen + 1] = "pool"
    BY <1>1, ConstantsAssumption DEF sendMessage, TypeOK, Gens
  <2> QED
    BY <2>1 DEF Live, TypeOK, Gens
<1>2. CASE loadModelFails \/ closeWindow
  BY <1>2 DEF loadModelFails, closeWindow
<1>3. CASE onResponseComplete \/ onError
  BY <1>3 DEF onResponseComplete, onError
<1>4. CASE onTokenReceived
  <2>1. /\ UNCHANGED <<gen, pc>>
        /\ gen > 0 /\ (Live(gen) \/ QueuedClosing(gen))
    BY <1>4 DEF onTokenReceived, InEventLoop
  <2>2. CASE Live(gen)
    BY <2>1, <2>2 DEF Live
  <2>3. CASE QueuedClosing(gen)
    <3>1. PICK i \in 1 .. Len(queue) :
            queue[i].gen = gen /\ queue[i].kind \in Closing
      BY <2>3 DEF QueuedClosing
    <3>2. /\ Len(queue) \in Nat \ {0}
          /\ Len(queue') = Len(queue) - 1
          /\ \A j \in 1 .. Len(queue') : queue'[j] = queue[j + 1]
          /\ Head(queue) = queue[1]
      BY <1>4, DeliverRemoves DEF onTokenReceived
    <3>3. i # 1
      BY <1>4, <3>1, <3>2 DEF onTokenReceived, Closing
    <3>4. i - 1 \in 1 .. Len(queue') /\ queue'[i - 1] = queue[i]
      BY <3>2, <3>3
    <3> QED
      BY <2>1, <3>1, <3>4 DEF QueuedClosing
  <2> QED
    BY <2>1, <2>2, <2>3
<1>5. CASE StandsBy
  BY <1>5 DEF StandsBy, Live, QueuedClosing
<1>6. ASSUME NEW g \in Gens, Worker(g)
      PROVE  gen' > 0 /\ (Live(gen)' \/ QueuedClosing(gen)')
  <2>1. /\ UNCHANGED <<gui, isGenerating, gen>>
        /\ gen \in Gens
        /\ Live(gen) \/ QueuedClosing(gen)
    <3>1. UNCHANGED <<gui, isGenerating, gen>>
      BY <1>6, WorkerCases DEF guiVars
    <3>2. gen > 0 /\ (Live(gen) \/ QueuedClosing(gen))
      BY <3>1
    <3>3. gen \in 0 .. MaxGen /\ MaxGen \in Nat
      BY ConstantsAssumption DEF TypeOK
    <3>4. gen \in Gens
      BY <3>2, <3>3 DEF Gens
    <3> QED
      BY <3>1, <3>2, <3>4
  <2>2. CASE Quiet(g)
    BY <2>1, <2>2 DEF Quiet, Goto, Live, QueuedClosing, TypeOK
  <2>3. CASE Streams(g)
    <3>1. QueuedClosing(gen) => QueuedClosing(gen)'
      BY <2>1, <2>3, ClosingStaysQueued DEF Streams, QueuedClosing
    <3> QED
      BY <2>1, <2>3, <3>1 DEF Streams, Goto, Live, TypeOK
  <2>4. ASSUME NEW kind \in Closing, Emit(kind, g),
               pc[g] # "tail" \/ QueuedClosing(gen),
               NEW to \in {"tail", "done"}, Goto(g, to)
        PROVE  Live(gen)' \/ QueuedClosing(gen)'
    <3>1. QueuedClosing(gen) => QueuedClosing(gen)'
      BY <2>1, <2>4, ClosingStaysQueued DEF QueuedClosing
    <3>2. g = gen => QueuedClosing(gen)'
      BY <2>1, <2>4, ClosingIsQueued DEF QueuedClosing
    <3> QED
      BY <2>1, <2>4, <3>1, <3>2 DEF Goto, Live, TypeOK
  <2>5. CASE Closes(g) \/ Breaks(g)
    BY <2>1, <2>4, <2>5 DEF Closes, Breaks, Closing, Live
  <2>6. CASE Repeats(g)
    <3>1. QueuedClosing(gen) => QueuedClosing(gen)'
      BY <2>1, <2>6, ClosingStaysQueued DEF Repeats, Closing, QueuedClosing
    <3> QED
      BY <2>1, <2>6, <3>1 DEF Repeats, Goto, Live, TypeOK
  <2>7. CASE Halts
    BY <2>1, <2>7 DEF Halts, Live, QueuedClosing
  <2> QED
    BY <1>6, <2>1, <2>2, <2>3, <2>5, <2>6, <2>7, WorkerCases DEF Gens
<1>7. CASE UNCHANGED vars
  BY <1>7 DEF vars, guiVars, workerVars, Live, QueuedClosing
<1> QED
  BY <1>1, <1>2, <1>3, <1>4, <1>5, <1>6, <1>7, GuiCases DEF Next, Deliver

\* While the chat refuses questions a closing signal is still to come, for
\* any number of questions, threads and tokens.
THEOREM ChatNeverStuck == Spec => []NoStuckChat
<1>1. Init => NoStuckChat
  BY DEF Init, NoStuckChat
<1>2. TypeOK /\ NoStuckChat /\ [Next]_vars => NoStuckChat'
  BY NoStuckStep
<1> QED
  BY <1>1, <1>2, TypeCorrect, PTL DEF Spec

-----------------------------------------------------------------------------
(***************************************************************************)
(* One generation at a time.                                               *)
(***************************************************************************)

\* A mishap is never forgotten.
LEMMA MishapsGrow ==
  ASSUME TypeOK, [Next]_vars
  PROVE  mishaps \subseteq mishaps'
<1>1. CASE User \/ Load \/ Deliver
  BY <1>1, GuiCases DEF sendMessage, loadModelFails, closeWindow, Deliver,
     onTokenReceived, onResponseComplete, onError, StandsBy, historyVars
<1>2. ASSUME NEW g \in Gens, Worker(g)
      PROVE  mishaps \subseteq mishaps'
  BY <1>2, WorkerCases DEF Quiet, Streams, Closes, Breaks, Repeats, Halts
<1>3. CASE UNCHANGED vars
  BY <1>3 DEF vars, historyVars
<1> QED
  BY <1>1, <1>2, <1>3 DEF Next

LEMMA ApartStep ==
  ASSUME TypeOK, GenerationsApart, [Next]_vars
  PROVE  GenerationsApart'
<1> SUFFICES ASSUME Faultless'
             PROVE  Apart'
  BY DEF GenerationsApart
<1> Apart /\ Faultless
  BY MishapsGrow DEF GenerationsApart, Faultless
<1> USE DEF Apart
<1>1. CASE sendMessage
  <2>1. \A g \in Gens : ~Live(g)
    BY <1>1 DEF sendMessage
  <2>2. ~(\E i \in 1 .. Len(queue) : TRUE) /\ queue' = queue
    BY <1>1 DEF sendMessage
  <2>3. \A g \in Gens : pc'[g] = IF g = gen' THEN "pool" ELSE pc[g]
    BY <1>1 DEF sendMessage, TypeOK
  <2>4. isGenerating'
    BY <1>1 DEF sendMessage
  <2> QED
    BY <2>1, <2>2, <2>3, <2>4 DEF Live
<1>2. CASE loadModelFails
  <2>1. ~isGenerating /\ ~isGenerating'
    BY <1>2 DEF loadModelFails, Faultless
  <2> QED
    BY <1>2, <2>1 DEF loadModelFails, workerVars, Live
<1>3. CASE closeWindow
  <2>1. Len(queue') = 0
    BY <1>3 DEF closeWindow
  <2> QED
    BY <1>3, <2>1 DEF closeWindow, Live
<1>4. CASE onTokenReceived
  <2>1. UNCHANGED <<gen, pc, isGenerating>>
    BY <1>4 DEF onTokenReceived
  <2>2. /\ Len(queue) \in Nat \ {0}
        /\ Len(queue') = Len(queue) - 1
        /\ \A i \in 1 .. Len(queue') : queue'[i] = queue[i + 1]
    BY <1>4, DeliverRemoves DEF onTokenReceived
  <2>3. \A i \in 1 .. Len(queue') :
          /\ i + 1 \in 1 .. Len(queue)
          /\ i + 1 = Len(queue) => i = Len(queue')
    BY <2>2
  <2> QED
    BY <2>1, <2>2, <2>3 DEF Live
<1>5. CASE onResponseComplete \/ onError
  <2>1. /\ UNCHANGED <<gen, pc>>
        /\ ~isGenerating'
        /\ queue # <<>> /\ queue' = Tail(queue)
        /\ Head(queue).kind \in Closing
    BY <1>5 DEF onResponseComplete, onError, Closing
  <2>2. /\ Len(queue) \in Nat \ {0}
        /\ Head(queue) = queue[1]
    BY <2>1, DeliverRemoves
  <2>3. 1 \in 1 .. Len(queue) /\ queue[1].kind \in Closing
    <3>1. 1 \in 1 .. Len(queue)
      BY <2>2
    <3>2. queue[1].kind \in Closing
      BY <2>1, <2>2, Zenon
    <3> QED
      BY <3>1, <3>2
  <2>4. 1 = Len(queue) /\ \A g \in Gens : ~Live(g)
    BY <2>3
  <2>5. Len(queue') = Len(queue) - 1
    BY <2>1, DeliverRemoves
  <2>6. \A i \in 1 .. Len(queue') : FALSE
    BY <2>4, <2>5
  <2> QED
    BY <2>1, <2>4, <2>6 DEF Live
<1>6. CASE StandsBy
  BY <1>6 DEF StandsBy, Live
<1>7. ASSUME NEW g \in Gens, Worker(g)
      PROVE  Apart'
  <2>1. UNCHANGED <<isGenerating, gen>>
    BY <1>7, WorkerCases DEF guiVars
  <2>2. Live(g) => /\ g = gen
                   /\ isGenerating
                   /\ \A i \in 1 .. Len(queue) : queue[i].kind \notin Closing
    OBVIOUS
  <2>3. CASE Quiet(g)
    <3>1. PICK to \in {"entry", "tokenize", "prompt", "loop", "sample"} :
            pc' = [pc EXCEPT ![g] = to]
      BY <2>3 DEF Quiet, Goto
    <3> QED
      BY <2>1, <2>2, <2>3, <3>1 DEF Quiet, Live, TypeOK
  <2>4. CASE Streams(g)
    <3>1. /\ Len(queue) \in Nat
          /\ Len(queue') = Len(queue) + 1
          /\ \A i \in 1 .. Len(queue) : queue'[i] = queue[i]
          /\ queue'[Len(queue) + 1].kind = "token"
          /\ queue'[Len(queue) + 1].gen = g
      BY <2>4, EmitAppends, LenProperties DEF Streams, TypeOK
    <3>2. \A i \in 1 .. Len(queue') :
            queue'[i].gen = gen /\ queue'[i].kind \notin Closing
      BY <2>2, <2>4, <3>1 DEF Streams, Closing
    <3>3. \A h \in Gens : pc'[h] = IF h = g THEN "decode" ELSE pc[h]
      BY <2>4 DEF Streams, Goto, TypeOK
    <3> QED
      BY <2>1, <2>2, <2>4, <3>2, <3>3 DEF Streams, Live
  <2>5. CASE Closes(g)
    <3>1. PICK kind \in Closing : Emit(kind, g)
      BY <2>5 DEF Closes
    <3>2. /\ Len(queue) \in Nat
          /\ Len(queue') = Len(queue) + 1
          /\ \A i \in 1 .. Len(queue) : queue'[i] = queue[i]
          /\ queue'[Len(queue) + 1].gen = g
      BY <3>1, EmitAppends, LenProperties DEF TypeOK
    <3>3. \A h \in Gens : pc'[h] = IF h = g THEN "done" ELSE pc[h]
      BY <2>5 DEF Closes, Goto, TypeOK
    <3>4. \A h \in Gens : ~Live(h)'
      BY <2>2, <2>5, <3>3 DEF Closes, Live
    <3>5. \A i \in 1 .. Len(queue') :
            /\ queue'[i].gen = gen
            /\ queue'[i].kind \in Closing => i = Len(queue')
      BY <2>2, <2>5, <3>2 DEF Closes
    <3> QED
      BY <2>1, <2>2, <2>5, <3>3, <3>4, <3>5 DEF Closes
  <2>6. CASE Breaks(g)
    BY <2>6 DEF Breaks, Faultless
  <2>7. CASE Repeats(g)
    BY <2>7 DEF Repeats
  <2>8. CASE Halts
    BY <2>1, <2>8 DEF Halts, Live
  <2> QED
    BY <1>7, <2>3, <2>4, <2>5, <2>6, <2>7, <2>8, WorkerCases
<1>8. CASE UNCHANGED vars
  BY <1>8 DEF vars, guiVars, workerVars, Live
<1> QED
  BY <1>1, <1>2, <1>3, <1>4, <1>5, <1>6, <1>7, <1>8, GuiCases
     DEF Next, Deliver

\* The inductive form: the flag, the threads and the queue agree about which
\* generation is under way.
THEOREM GenerationsStayApart == Spec => []GenerationsApart
<1>1. Init => GenerationsApart
  BY DEF Init, GenerationsApart, Apart, Live
<1>2. TypeOK /\ GenerationsApart /\ [Next]_vars => GenerationsApart'
  BY ApartStep
<1> QED
  BY <1>1, <1>2, TypeCorrect, PTL DEF Spec

\* Without a token error or a load failing under a generation, two threads
\* are never in the engine together.
THEOREM OneGenerationAtATime == Spec => []OneGenerationUnlessFault
<1>1. GenerationsApart => OneGenerationUnlessFault
  BY DEF GenerationsApart, Apart, OneGenerationUnlessFault
<1> QED
  BY <1>1, GenerationsStayApart, PTL

-----------------------------------------------------------------------------
(***************************************************************************)
(* Bookkeeping: three facts the remaining proofs rest on.                  *)
(***************************************************************************)

Bookkeeping ==
  /\ gui # "loop" => engine # "ready"
  /\ stopAsked # "no" => gen \in Gens
  /\ \A g \in Gens : g > gen => pc[g] = "none" /\ made[g] = 0

\* No thread runs a generation that was not asked for.
LEMMA WorkerIsAsked ==
  ASSUME TypeOK, Bookkeeping, NEW g \in Gens, pc[g] # "none"
  PROVE  ~(g > gen)
BY DEF Bookkeeping

LEMMA BookkeepingStep ==
  ASSUME TypeOK, NoStuckChat, Bookkeeping, [Next]_vars
  PROVE  Bookkeeping'
<1> USE DEF Bookkeeping, guiVars, engineVars, workerVars, historyVars,
            InEventLoop
<1>1. CASE sendMessage
  <2>1. /\ gen' = gen + 1 /\ gen \in 0 .. MaxGen /\ MaxGen \in Nat
        /\ pc' = [pc EXCEPT ![gen + 1] = "pool"]
        /\ UNCHANGED <<gui, engine, made>> /\ stopAsked' = "no"
    BY <1>1, ConstantsAssumption DEF sendMessage, TypeOK
  <2>2. \A g \in Gens : g > gen' => pc'[g] = "none" /\ made'[g] = 0
    BY <2>1 DEF TypeOK, Gens
  <2> QED
    BY <2>1, <2>2
<1>2. CASE onStopGeneration
  <2>1. gen > 0 /\ gen \in 0 .. MaxGen /\ MaxGen \in Nat
    BY <1>2, ConstantsAssumption DEF onStopGeneration, NoStuckChat, TypeOK
  <2>2. gen \in Gens
    BY <2>1 DEF Gens
  <2> QED
    BY <1>2, <2>2 DEF onStopGeneration
<1>3. CASE onUnloadModel \/ onLoadModel \/ closeWindow
  BY <1>3 DEF onUnloadModel, onLoadModel, closeWindow, cleanup
<1>4. ASSUME NEW n \in TokenLimits, onMaxTokensChanged(n)
      PROVE  Bookkeeping'
  BY <1>4 DEF onMaxTokensChanged
<1>5. CASE Load
  BY <1>5 DEF Load, loadModelStep, loadModelFails, loadModelSucceeds
<1>6. CASE Deliver
  BY <1>6 DEF Deliver, onTokenReceived, onResponseComplete, onError
<1>7. ASSUME NEW g \in Gens, Worker(g)
      PROVE  Bookkeeping'
  <2>1. UNCHANGED <<gui, gen, stopAsked>>
    BY <1>7, WorkerCases
  <2>2. engine' = engine
    BY <1>7 DEF Worker, startInPool, enter, enterWithoutModel, tokenize,
       decodePrompt, decodeOversizedPrompt, continueLoop, leaveLoop,
       sampleToken, sampleEndOfText, sampleUnprintable, decodeToken,
       completeAfterError, undefinedBehaviour, giveUp, finish, breakWithError
  <2>3. /\ UNCHANGED <<pc, made>> \/ pc[g] # "none"
        /\ \A h \in Gens \ {g} : pc'[h] = pc[h] /\ made'[h] = made[h]
    <3>1. \/ UNCHANGED <<pc, made>>
          \/ /\ pc[g] # "none"
             /\ \E to : pc' = [pc EXCEPT ![g] = to]
             /\ made' = made \/ made' = [made EXCEPT ![g] = @ + 1]
      <4>1. CASE Quiet(g) \/ Streams(g)
        BY <4>1 DEF Quiet, Streams, Goto, Live
      <4>2. CASE Closes(g) \/ Breaks(g)
        BY <4>2 DEF Closes, Breaks, Goto, Live
      <4>3. CASE Repeats(g) \/ Halts
        BY <4>3 DEF Repeats, Halts, Goto
      <4> QED
        BY <1>7, <4>1, <4>2, <4>3, WorkerCases
    <3> QED
      BY <3>1 DEF TypeOK
  <2> QED
    BY <2>1, <2>2, <2>3, WorkerIsAsked
<1>8. CASE UNCHANGED vars
  BY <1>8 DEF vars
<1> QED
  BY <1>1, <1>2, <1>3, <1>4, <1>5, <1>6, <1>7, <1>8 DEF Next, User

\* The invariants so far, together.
Groundwork == TypeOK /\ NoStuckChat /\ GenerationsApart /\ Bookkeeping

LEMMA GroundworkHolds == Spec => []Groundwork
<1>1. Init => Bookkeeping
  BY DEF Init, Bookkeeping
<1>2. TypeOK /\ NoStuckChat /\ Bookkeeping /\ [Next]_vars => Bookkeeping'
  BY BookkeepingStep
<1> QED
  BY <1>1, <1>2, TypeCorrect, ChatNeverStuck, GenerationsStayApart, PTL
     DEF Spec, Groundwork

-----------------------------------------------------------------------------
(***************************************************************************)
(* Nothing of an answer is lost.                                           *)
(***************************************************************************)

LEMMA WholeStep ==
  ASSUME Groundwork, AnswerIsWhole, [Next]_vars
  PROVE  AnswerIsWhole'
<1> SUFFICES ASSUME Faultless', isGenerating', gui' # "closed"
             PROVE  /\ \A i \in 1 .. Len(response') : response'[i] = gen'
                    /\ tokenCount' = Len(response')
                    /\ made'[gen'] = tokenCount' + Len(queue')
                         - (IF QueuedClosing(gen)' THEN 1 ELSE 0)
  BY DEF AnswerIsWhole
<1>a. TypeOK /\ Apart /\ Faultless /\ Bookkeeping
  BY MishapsGrow DEF Groundwork, GenerationsApart, Faultless
<1>b. ASSUME isGenerating, gui # "closed"
      PROVE  /\ \A i \in 1 .. Len(response) : response[i] = gen
             /\ tokenCount = Len(response)
             /\ made[gen] = tokenCount + Len(queue)
                  - (IF QueuedClosing(gen) THEN 1 ELSE 0)
             /\ gen \in Gens
  BY <1>a, <1>b, ConstantsAssumption
     DEF AnswerIsWhole, Groundwork, NoStuckChat, TypeOK, Gens
<1>1. CASE sendMessage
  <2>1. /\ gen' = gen + 1 /\ gen + 1 \in Gens /\ gen + 1 > gen
        /\ made' = made /\ response' = <<>> /\ tokenCount' = 0
        /\ queue' = queue
    BY <1>1, <1>a, ConstantsAssumption DEF sendMessage, TypeOK, Gens
  <2>2. made'[gen'] = 0
    BY <1>a, <2>1 DEF Bookkeeping
  <2>3. Len(queue) \in Nat /\ \A i \in 1 .. Len(queue) : FALSE
    BY <1>1, <1>a, LenProperties DEF sendMessage, Apart, TypeOK
  <2>4. Len(queue) = 0 /\ ~QueuedClosing(gen)'
    BY <2>1, <2>3 DEF QueuedClosing
  <2>5. Len(response') = 0 /\ \A i \in 1 .. Len(response') : FALSE
    BY <2>1
  <2>6. /\ \A i \in 1 .. Len(response') : response'[i] = gen'
        /\ tokenCount' = Len(response')
    BY <2>1, <2>5
  <2>7. made'[gen'] = tokenCount' + Len(queue')
          - (IF QueuedClosing(gen)' THEN 1 ELSE 0)
    <3>1. Len(queue') = 0 /\ tokenCount' = 0
      BY <2>1, <2>4
    <3> DEFINE closing == IF QueuedClosing(gen)' THEN 1 ELSE 0
    <3>2. closing = 0
      BY <2>4
    <3> HIDE DEF closing
    <3>3. made'[gen'] = tokenCount' + Len(queue') - closing
      BY <2>2, <3>1, <3>2
    <3> QED
      BY <3>3 DEF closing
  <2> QED
    BY <2>6, <2>7
<1>2. CASE loadModelFails \/ closeWindow \/ onResponseComplete \/ onError
  BY <1>2 DEF loadModelFails, closeWindow, onResponseComplete, onError
<1>3. CASE onTokenReceived
  <2>1. /\ queue # <<>> /\ queue' = Tail(queue)
        /\ Head(queue).kind = "token"
        /\ response' = Append(response, Head(queue).gen)
        /\ tokenCount' = tokenCount + 1
        /\ UNCHANGED <<gui, isGenerating, gen, made>>
    BY <1>3 DEF onTokenReceived
  <2>2. /\ \A i \in 1 .. Len(response) : response[i] = gen
        /\ tokenCount = Len(response)
        /\ made[gen] = tokenCount + Len(queue)
             - (IF QueuedClosing(gen) THEN 1 ELSE 0)
        /\ gen \in Gens
    BY <1>b, <2>1
  <2>3. /\ Len(queue) \in Nat \ {0}
        /\ Len(queue') = Len(queue) - 1
        /\ \A i \in 1 .. Len(queue') : queue'[i] = queue[i + 1]
    BY <1>a, <2>1, DeliverRemoves
  <2>4. queue[1].kind = "token" /\ queue[1].gen = gen /\ Head(queue).gen = gen
    <3>1. Head(queue) = queue[1]
      BY <1>a, <2>1, DeliverRemoves
    <3>2. 1 \in 1 .. Len(queue)
      BY <2>3
    <3>3. queue[1].gen = gen
      BY <1>a, <3>2 DEF Apart
    <3> QED
      BY <2>1, <3>1, <3>3, Zenon
  <2>5. QueuedClosing(gen)' <=> QueuedClosing(gen)
    <3>1. ASSUME QueuedClosing(gen)
          PROVE  QueuedClosing(gen)'
      <4>1. PICK i \in 1 .. Len(queue) :
              queue[i].gen = gen /\ queue[i].kind \in Closing
        BY <3>1 DEF QueuedClosing
      <4>2. i # 1
        BY <2>4, <4>1 DEF Closing
      <4>3. i - 1 \in 1 .. Len(queue') /\ queue'[i - 1] = queue[i]
        BY <2>3, <4>2
      <4> QED
        BY <2>1, <4>1, <4>3 DEF QueuedClosing
    <3>2. ASSUME QueuedClosing(gen)'
          PROVE  QueuedClosing(gen)
      <4>1. PICK i \in 1 .. Len(queue') :
              queue'[i].gen = gen /\ queue'[i].kind \in Closing
        BY <2>1, <3>2 DEF QueuedClosing
      <4>2. i + 1 \in 1 .. Len(queue) /\ queue'[i] = queue[i + 1]
        BY <2>3
      <4> QED
        BY <4>1, <4>2 DEF QueuedClosing
    <3> QED
      BY <3>1, <3>2
  <2>6. /\ Len(response') = Len(response) + 1
        /\ \A i \in 1 .. Len(response) : response'[i] = response[i]
        /\ response'[Len(response) + 1] = gen
        /\ Len(response) \in Nat
    BY <1>a, <2>1, <2>2, <2>4, AppendProperties, LenProperties DEF TypeOK
  <2>7. \A i \in 1 .. Len(response') : response'[i] = gen
    BY <2>2, <2>6
  <2>8. made'[gen'] = made[gen] /\ gen' = gen
    BY <2>1
  <2> QED
    BY <2>1, <2>2, <2>3, <2>5, <2>6, <2>7, <2>8
<1>4. CASE StandsBy
  BY <1>4, <1>b DEF StandsBy, QueuedClosing
<1>5. ASSUME NEW g \in Gens, Worker(g)
      PROVE  /\ \A i \in 1 .. Len(response') : response'[i] = gen'
             /\ tokenCount' = Len(response')
             /\ made'[gen'] = tokenCount' + Len(queue')
                  - (IF QueuedClosing(gen)' THEN 1 ELSE 0)
  <2>1. UNCHANGED <<gui, isGenerating, response, tokenCount, gen>>
    BY <1>5, WorkerCases DEF guiVars
  <2>2. /\ \A i \in 1 .. Len(response) : response[i] = gen
        /\ tokenCount = Len(response)
        /\ made[gen] = tokenCount + Len(queue)
             - (IF QueuedClosing(gen) THEN 1 ELSE 0)
        /\ gen \in Gens
    BY <1>b, <2>1
  <2>3. Len(queue) \in Nat /\ tokenCount \in Nat /\ made \in [Gens -> Nat]
    BY <1>a, LenProperties DEF TypeOK
  <2>4. Live(g) => g = gen /\ ~QueuedClosing(gen)
    BY <1>a DEF Apart, QueuedClosing
  <2>5. CASE Quiet(g) \/ Halts
    BY <2>1, <2>2, <2>5 DEF Quiet, Halts, QueuedClosing
  <2>6. CASE Streams(g)
    <3>1. /\ Len(queue') = Len(queue) + 1
          /\ \A i \in 1 .. Len(queue) : queue'[i] = queue[i]
          /\ queue'[Len(queue) + 1].kind = "token"
      BY <1>a, <2>6, EmitAppends DEF Streams
    <3>2. ~QueuedClosing(gen)'
      <4> SUFFICES ASSUME NEW i \in 1 .. Len(queue'),
                          queue'[i].gen = gen, queue'[i].kind \in Closing
                   PROVE  FALSE
        BY <2>1 DEF QueuedClosing
      <4>1. i # Len(queue) + 1
        BY <3>1 DEF Closing
      <4>2. i \in 1 .. Len(queue) /\ queue'[i] = queue[i]
        BY <2>3, <3>1, <4>1
      <4> QED
        BY <2>4, <2>6, <4>2 DEF Streams, QueuedClosing
    <3>3. made'[gen] = made[gen] + 1
      BY <2>2, <2>3, <2>4, <2>6 DEF Streams
    <3> QED
      BY <2>1, <2>2, <2>3, <2>4, <2>6, <3>1, <3>2, <3>3 DEF Streams
  <2>7. CASE Closes(g)
    <3>1. PICK kind \in Closing : Emit(kind, g)
      BY <2>7 DEF Closes
    <3>2. Len(queue') = Len(queue) + 1
      BY <1>a, <3>1, EmitAppends
    <3>3. QueuedClosing(gen)'
      <4>1. QueuedClosing(g)'
        BY <1>a, <3>1, ClosingIsQueued
      <4> QED
        BY <2>1, <2>4, <2>7, <4>1 DEF Closes, QueuedClosing
    <3>4. made'[gen] = made[gen] /\ ~QueuedClosing(gen)
      BY <2>4, <2>7 DEF Closes
    <3> QED
      BY <2>1, <2>2, <2>3, <3>2, <3>3, <3>4
  <2>8. CASE Breaks(g)
    BY <2>8 DEF Breaks, Faultless
  <2>9. CASE Repeats(g)
    BY <1>a, <2>9 DEF Repeats, Apart
  <2> QED
    BY <1>5, <2>5, <2>6, <2>7, <2>8, <2>9, WorkerCases
<1>6. CASE UNCHANGED vars
  BY <1>6, <1>b DEF vars, guiVars, workerVars, QueuedClosing
<1> QED
  BY <1>1, <1>2, <1>3, <1>4, <1>5, <1>6, <1>a, GuiCases DEF Next, Deliver

\* Faults aside, the answer on screen is the last question's alone, and each
\* token emitted for it is shown or queued exactly once.
THEOREM AnswersAreWhole == Spec => []AnswerIsWhole
<1>1. Init => AnswerIsWhole
  BY DEF Init, AnswerIsWhole
<1>2. Groundwork /\ AnswerIsWhole /\ [Next]_vars => AnswerIsWhole'
  BY WholeStep
<1> QED
  BY <1>1, <1>2, GroundworkHolds, PTL DEF Spec

-----------------------------------------------------------------------------
(***************************************************************************)
(* Mishaps aside: the engine stays in its defined behaviour, a Stop in the *)
(* loop is final, and the program implements ChatContract.  And the label  *)
(* of the Models tab, whatever happens.                                    *)
(***************************************************************************)

\* Without a mishap the last generation's thread is the only one.
LEMMA OnlyTheLast ==
  ASSUME GenerationsApart, mishaps = {}, NEW g \in Gens, Active(g)
  PROVE  g = gen /\ isGenerating /\ Live(g)
BY DEF GenerationsApart, Faultless, Apart, Active, Live

\* While there is no usable engine, nothing calls it.
LEMMA NobodyAtAnEmptyEngine ==
  ASSUME EngineSettled, mishaps = {}, engine # "ready", NEW g \in Gens
  PROVE  ~Active(g)
BY DEF EngineSettled

-----------------------------------------------------------------------------
(***************************************************************************)
(* The engine is settled.                                                  *)
(***************************************************************************)

LEMMA SettledGuiStep ==
  ASSUME Groundwork, EngineSettled, mishaps' = {}, mishaps = {},
         User \/ Load \/ Deliver
  PROVE  EngineSettled'
<1>0. TypeOK /\ GenerationsApart /\ Bookkeeping
  BY DEF Groundwork
<1>1. /\ fate # "undefined"
      /\ engine # "ready" => \A g \in Gens : ~Active(g)
      /\ \A g \in Gens : pc[g] \in {"loop", "sample", "decode"} => kv > 0
      /\ stopAsked = "late" /\ Active(gen) =>
           shouldStop /\ pc[gen] \notin {"pool", "entry"}
  BY DEF EngineSettled
<1>2. CASE sendMessage
  <2>1. /\ UNCHANGED <<fate, engine, kv>> /\ engine = "ready"
        /\ stopAsked' = "no"
        /\ \A g \in Gens : pc'[g] \in {pc[g], "pool"}
    BY <1>0, <1>2 DEF sendMessage, engineVars, IsLoaded, TypeOK
  <2> QED
    BY <1>1, <2>1 DEF EngineSettled
<1>3. CASE onStopGeneration
  <2>1. /\ UNCHANGED <<fate, engine, kv, pc, gen>> /\ shouldStop'
        /\ stopAsked' = "late" => pc[gen] \notin {"pool", "entry"}
    BY <1>3 DEF onStopGeneration, workerVars
  <2> QED
    BY <1>1, <2>1 DEF EngineSettled, Active
<1>4. ASSUME NEW n \in TokenLimits, onMaxTokensChanged(n)
      PROVE  EngineSettled'
  BY <1>1, <1>4 DEF onMaxTokensChanged, EngineSettled, Active, engineVars,
     workerVars, historyVars
<1>5. CASE onUnloadModel
  BY <1>1, <1>5 DEF onUnloadModel, EngineSettled, Active, engineVars,
     workerVars, historyVars
<1>6. CASE onLoadModel \/ closeWindow
  <2>1. \A g \in Gens : ~Active(g)
    <3>1. ASSUME NEW g \in Gens, Active(g) PROVE FALSE
      <4>1. Live(g)
        BY <1>0, <3>1, OnlyTheLast
      <4>2. "busyLoad" \in mishaps' \/ "busyClose" \in mishaps'
        BY <1>6, <3>1, <4>1 DEF onLoadModel, closeWindow
      <4> QED
        BY <4>2
    <3> QED
      BY <3>1
  <2>2. UNCHANGED <<fate, pc, gen, stopAsked>>
    BY <1>6 DEF onLoadModel, closeWindow, workerVars
  <2>3. stopAsked = "late" => gen \in Gens
    BY <1>0 DEF Bookkeeping
  <2> QED
    BY <1>1, <2>1, <2>2, <2>3 DEF EngineSettled, Active
<1>7. CASE Load
  <2>1. engine # "ready" /\ \A g \in Gens : ~Active(g)
    BY <1>0, <1>1, <1>7 DEF Bookkeeping, Load, loadModelStep, loadModelFails,
       loadModelSucceeds
  <2>2. UNCHANGED <<fate, pc, gen, stopAsked>>
    BY <1>7 DEF Load, loadModelStep, loadModelFails, loadModelSucceeds,
       workerVars, historyVars
  <2>3. stopAsked = "late" => gen \in Gens
    BY <1>0 DEF Bookkeeping
  <2> QED
    BY <1>1, <2>1, <2>2, <2>3 DEF EngineSettled, Active
<1>8. CASE Deliver
  BY <1>1, <1>8 DEF Deliver, onTokenReceived, onResponseComplete, onError,
     EngineSettled, Active, engineVars, historyVars
<1> QED
  BY <1>2, <1>3, <1>4, <1>5, <1>6, <1>7, <1>8 DEF User

LEMMA SettledWorkerStep ==
  ASSUME Groundwork, EngineSettled, mishaps' = {}, mishaps = {},
         NEW g \in Gens, Worker(g)
  PROVE  EngineSettled'
<1>0. TypeOK /\ GenerationsApart /\ Bookkeeping
  BY DEF Groundwork
<1>1. /\ fate # "undefined"
      /\ engine # "ready" => \A h \in Gens : ~Active(h)
      /\ \A h \in Gens : pc[h] \in {"loop", "sample", "decode"} => kv > 0
      /\ stopAsked = "late" /\ Active(gen) =>
           shouldStop /\ pc[gen] \notin {"pool", "entry"}
  BY DEF EngineSettled
<1>2. UNCHANGED <<gen, stopAsked>>
  BY WorkerCases
<1>3. ASSUME Active(g) PROVE g = gen /\ engine = "ready"
  BY <1>0, <1>1, <1>3, OnlyTheLast
<1>4. ASSUME UNCHANGED <<engine, kv, fate>>,
             NEW to \in WorkerPcs, pc' = [pc EXCEPT ![g] = to],
             Active(g),
             to \in {"loop", "sample", "decode"} => kv > 0,
             stopAsked = "late" /\ to # "done" =>
               shouldStop' /\ to \notin {"pool", "entry"}
      PROVE  EngineSettled'
  <2>1. \A h \in Gens : pc'[h] = IF h = g THEN to ELSE pc[h]
    BY <1>0, <1>4 DEF TypeOK
  <2>2. g = gen /\ engine = "ready" /\ pc'[gen'] = to
    BY <1>2, <1>3, <1>4, <2>1
  <2> QED
    BY <1>1, <1>2, <1>4, <2>1, <2>2 DEF EngineSettled, Active
<1>5. ASSUME giveUp(g), Active(g) PROVE EngineSettled'
  BY <1>4, <1>5 DEF giveUp, Goto, engineVars, WorkerPcs
<1>6. ASSUME finish(g), Active(g) PROVE EngineSettled'
  BY <1>4, <1>6 DEF finish, Goto, engineVars, WorkerPcs
<1>7. ~breakWithError(g)
  BY DEF breakWithError
<1>8. stopAsked = "late" /\ Active(g) =>
        shouldStop /\ pc[g] \notin {"pool", "entry"}
  BY <1>1, <1>3
<1>9. CASE startInPool(g)
  <2>1. Active(g) /\ stopAsked # "late"
    BY <1>8, <1>9 DEF startInPool, Executing, Active
  <2> QED
    BY <1>4, <1>9, <2>1 DEF startInPool, Goto, engineVars, WorkerPcs
<1>10. CASE enter(g)
  <2>1. Active(g) /\ stopAsked # "late"
    BY <1>8, <1>10 DEF enter, Executing, Active
  <2> QED
    BY <1>4, <1>10, <2>1 DEF enter, Goto, WorkerPcs
<1>11. CASE enterWithoutModel(g)
  BY <1>5, <1>11 DEF enterWithoutModel, Executing, Active
<1>12. CASE tokenize(g)
  <2>1. Active(g)
    BY <1>12 DEF tokenize, Executing, Active
  <2>2. CASE giveUp(g)
    BY <1>5, <2>1, <2>2
  <2>3. CASE Goto(g, "prompt") /\ UNCHANGED <<engineVars, fate>>
    BY <1>4, <1>8, <2>1, <2>3 DEF Goto, engineVars, WorkerPcs
  <2> QED
    BY <1>12, <2>2, <2>3 DEF tokenize
<1>13. ASSUME NEW n \in PromptSizes \ {0}, decodePrompt(g, n)
       PROVE  EngineSettled'
  <2>1. Active(g)
    BY <1>13 DEF decodePrompt, Executing, Active
  <2>2. CASE giveUp(g)
    BY <1>5, <2>1, <2>2
  <2>3. CASE /\ kv' = kv + n /\ Goto(g, "loop")
             /\ UNCHANGED <<engine, shouldStop, fate>>
    <3>1. kv' > 0
      <4>1. kv \in Nat /\ n \in Nat \ {0}
        BY <1>0, ConstantsAssumption DEF TypeOK
      <4> QED
        BY <2>3, <4>1
    <3>2. \A h \in Gens : pc'[h] = IF h = g THEN "loop" ELSE pc[h]
      BY <1>0, <2>3 DEF Goto, TypeOK
    <3>3. g = gen /\ engine = "ready"
      BY <1>3, <2>1
    <3> QED
      BY <1>1, <1>2, <1>8, <2>1, <2>3, <3>1, <3>2, <3>3
         DEF EngineSettled, Active
  <2> QED
    BY <1>13, <2>2, <2>3 DEF decodePrompt
<1>14. ASSUME NEW n \in PromptSizes \ {0}, decodeOversizedPrompt(g, n)
       PROVE  EngineSettled'
  BY <1>1, <1>14 DEF decodeOversizedPrompt, engineVars, workerVars,
     historyVars, EngineSettled, Active
<1>15. CASE continueLoop(g)
  <2>1. Active(g) /\ kv > 0
    BY <1>1, <1>15 DEF continueLoop, Executing, Active
  <2> QED
    BY <1>4, <1>8, <1>15, <2>1 DEF continueLoop, Goto, engineVars, WorkerPcs
<1>16. CASE leaveLoop(g)
  BY <1>6, <1>16 DEF leaveLoop, Executing, Active
<1>17. CASE sampleToken(g)
  <2>1. Active(g) /\ kv > 0
    BY <1>1, <1>17 DEF sampleToken, Executing, Active
  <2> QED
    BY <1>4, <1>8, <1>17, <2>1 DEF sampleToken, Goto, engineVars, WorkerPcs
<1>18. CASE sampleEndOfText(g)
  BY <1>6, <1>18 DEF sampleEndOfText, Executing, Active
<1>19. CASE sampleUnprintable(g)
  BY <1>7, <1>19 DEF sampleUnprintable
<1>20. CASE decodeToken(g)
  <2>1. /\ Active(g) /\ kv' = kv + 1 /\ Goto(g, "loop")
        /\ UNCHANGED <<engine, shouldStop, fate>>
    BY <1>7, <1>20 DEF decodeToken, Executing, Active
  <2>2. kv' > 0
    BY <1>0, <2>1 DEF TypeOK
  <2>3. \A h \in Gens : pc'[h] = IF h = g THEN "loop" ELSE pc[h]
    BY <1>0, <2>1 DEF Goto, TypeOK
  <2>4. g = gen /\ engine = "ready"
    BY <1>3, <2>1
  <2> QED
    BY <1>1, <1>2, <1>8, <2>1, <2>2, <2>3, <2>4 DEF EngineSettled, Active
<1>21. CASE completeAfterError(g)
  BY <1>6, <1>21 DEF completeAfterError, Executing, Active
<1>22. CASE undefinedBehaviour(g)
  <2>1. CASE gui = "closed" /\ Active(g)
    BY <1>0, <1>3, <2>1 DEF Bookkeeping
  <2>2. CASE InCall(g) /\ ~Usable(g)
    BY <1>3, <2>2 DEF InCall, Usable, Active
  <2>3. CASE pc[g] = "sample" /\ kv = 0
    BY <1>1, <2>3
  <2>4. ASSUME InCall(g), NEW h \in Gens \ {g}, InCall(h) PROVE FALSE
    <3>1. Active(g) /\ Active(h)
      BY <2>4 DEF InCall, Active
    <3>2. g = gen /\ h = gen
      BY <1>0, <3>1, OnlyTheLast
    <3> QED
      BY <3>2
  <2> QED
    BY <1>22, <2>1, <2>2, <2>3, <2>4 DEF undefinedBehaviour, IllDefined
<1> QED
  BY <1>9, <1>10, <1>11, <1>12, <1>13, <1>14, <1>15, <1>16, <1>17, <1>18,
     <1>19, <1>20, <1>21, <1>22 DEF Worker

LEMMA SettledStep ==
  ASSUME Groundwork, EngineSettled, [Next]_vars
  PROVE  EngineSettled'
<1> SUFFICES ASSUME mishaps' = {} PROVE EngineSettled'
  BY DEF EngineSettled
<1>1. mishaps = {}
  BY MishapsGrow DEF Groundwork
<1>2. CASE User \/ Load \/ Deliver
  BY <1>1, <1>2, SettledGuiStep
<1>3. ASSUME NEW g \in Gens, Worker(g) PROVE EngineSettled'
  BY <1>1, <1>3, SettledWorkerStep
<1>4. CASE UNCHANGED vars
  BY <1>4 DEF vars, engineVars, workerVars, historyVars, EngineSettled, Active
<1> QED
  BY <1>2, <1>3, <1>4 DEF Next

\* Mishaps aside, no thread is in the engine while it is replaced or gone,
\* and a Stop that found the loop entered keeps its flag up.
THEOREM EngineStaysSettled == Spec => []EngineSettled
<1>1. Init => EngineSettled
  BY DEF Init, EngineSettled, Active
<1>2. Groundwork /\ EngineSettled /\ [Next]_vars => EngineSettled'
  BY SettledStep
<1> QED
  BY <1>1, <1>2, GroundworkHolds, PTL DEF Spec

\* Undefined behaviour comes only after one of the four named mishaps.
THEOREM DefinedUntilMishap == Spec => []UndefinedOnlyAfterMishap
<1>1. EngineSettled => UndefinedOnlyAfterMishap
  BY DEF EngineSettled, UndefinedOnlyAfterMishap
<1> QED
  BY <1>1, EngineStaysSettled, PTL

-----------------------------------------------------------------------------
(***************************************************************************)
(* A Stop in the loop is final.                                            *)
(***************************************************************************)

\* The only way to sample again is through the loop's condition, which reads
\* the flag.
LEMMA SamplingNeedsNoStop ==
  ASSUME TypeOK, NEW g \in Gens, Worker(g), NEW h \in Gens,
         pc[h] # "sample", pc'[h] = "sample"
  PROVE  h = g /\ pc[g] = "loop" /\ ~shouldStop
<1>1. CASE continueLoop(g)
  BY <1>1 DEF continueLoop, Executing, Goto, TypeOK
<1>2. CASE ~continueLoop(g)
  <2>1. pc' = pc \/ \E to \in WorkerPcs \ {"sample"} : pc' = [pc EXCEPT ![g] = to]
    BY <1>2 DEF Worker, startInPool, enter, enterWithoutModel, tokenize,
       decodePrompt, decodeOversizedPrompt, leaveLoop, sampleToken,
       sampleEndOfText, sampleUnprintable, decodeToken, completeAfterError,
       undefinedBehaviour, giveUp, finish, breakWithError, Goto, workerVars,
       WorkerPcs
  <2> QED
    BY <2>1 DEF TypeOK
<1> QED
  BY <1>1, <1>2

\* No step of the GUI thread takes a generation to sampling.
LEMMA GuiNeverSamples ==
  ASSUME TypeOK, User \/ Load \/ Deliver, NEW h \in Gens, pc'[h] = "sample"
  PROVE  pc[h] = "sample"
<1>1. CASE sendMessage
  BY <1>1 DEF sendMessage, TypeOK
<1>2. pc' = pc \/ sendMessage
  BY GuiCases DEF loadModelFails, closeWindow, Deliver, onTokenReceived,
     onResponseComplete, onError, StandsBy, workerVars
<1> QED
  BY <1>1, <1>2

StopHeeded ==
  mishaps = {} /\ stopAsked = "late" /\ pc[gen] # "sample"
    => pc'[gen] # "sample"

\* Mishaps aside, once a Stop has found the thread past its own reset of
\* m_shouldStop, no further token is sampled.
THEOREM StopIsObeyed == Spec => StopIsFinal
<1>1. ASSUME Groundwork, EngineSettled, [Next]_vars
      PROVE  StopHeeded
  <2> SUFFICES ASSUME mishaps = {}, stopAsked = "late", pc[gen] # "sample",
                      pc'[gen] = "sample"
               PROVE  FALSE
    BY DEF StopHeeded
  <2>1. TypeOK /\ gen \in Gens
    BY <1>1 DEF Groundwork, Bookkeeping
  <2>2. ASSUME NEW g \in Gens, Worker(g) PROVE FALSE
    <3>1. pc[gen] = "loop" /\ ~shouldStop
      BY <2>1, <2>2, SamplingNeedsNoStop
    <3> QED
      BY <1>1, <3>1 DEF EngineSettled, Active
  <2>3. CASE User \/ Load \/ Deliver
    BY <2>1, <2>3, GuiNeverSamples
  <2>4. CASE UNCHANGED vars
    BY <2>4 DEF vars, workerVars
  <2> QED
    BY <1>1, <2>2, <2>3, <2>4 DEF Next
<1>2. StopHeeded <=> (/\ mishaps = {}
                      /\ stopAsked = "late"
                      /\ pc[gen] # "sample"
                      => pc'[gen] # "sample")
  BY DEF StopHeeded
<1> QED
  BY <1>1, <1>2, GroundworkHolds, EngineStaysSettled, PTL DEF Spec, StopIsFinal

-----------------------------------------------------------------------------
(***************************************************************************)
(* The Models tab's label.                                                 *)
(***************************************************************************)

\* Only the GUI thread's loads and the window's closing change the model.
LEMMA EngineChanges ==
  ASSUME TypeOK, [Next]_vars
  PROVE  onLoadModel \/ Load \/ closeWindow \/ onUnloadModel
         \/ UNCHANGED <<engine, label, gui>>
<1>1. ASSUME NEW g \in Gens, Worker(g)
      PROVE  UNCHANGED <<engine, label, gui>>
  BY <1>1 DEF Worker, startInPool, enter, enterWithoutModel, tokenize,
     decodePrompt, decodeOversizedPrompt, continueLoop, leaveLoop,
     sampleToken, sampleEndOfText, sampleUnprintable, decodeToken,
     completeAfterError, undefinedBehaviour, giveUp, finish, breakWithError,
     engineVars, guiVars
<1>2. CASE Deliver \/ sendMessage \/ onStopGeneration
           \/ \E n \in TokenLimits : onMaxTokensChanged(n)
  BY <1>2 DEF Deliver, onTokenReceived, onResponseComplete, onError,
     sendMessage, onStopGeneration, onMaxTokensChanged, engineVars, guiVars
<1>3. CASE UNCHANGED vars
  BY <1>3 DEF vars, engineVars, guiVars
<1> QED
  BY <1>1, <1>2, <1>3 DEF Next, User

\* While the Models tab says that a model is loaded, there is one.
THEOREM LabelTellsTheTruth == Spec => []LabelIsTrue
<1> USE DEF LabelIsTrue, IsLoaded
<1>1. Init => LabelIsTrue
  BY DEF Init
<1>2. ASSUME Groundwork, LabelIsTrue, [Next]_vars PROVE LabelIsTrue'
  <2>1. gui # "loop" => engine # "ready"
    BY <1>2 DEF Groundwork, Bookkeeping
  <2>2. CASE onLoadModel
    BY <2>2 DEF onLoadModel
  <2>3. CASE Load
    BY <1>2, <2>1, <2>3 DEF Load, loadModelStep, loadModelFails,
       loadModelSucceeds
  <2>4. CASE closeWindow \/ onUnloadModel
    BY <2>4 DEF closeWindow, onUnloadModel
  <2>5. CASE UNCHANGED <<engine, label, gui>>
    BY <1>2, <2>5
  <2> QED
    BY <1>2, <2>2, <2>3, <2>4, <2>5, EngineChanges DEF Groundwork
<1> QED
  BY <1>1, <1>2, GroundworkHolds, PTL DEF Spec

-----------------------------------------------------------------------------
(***************************************************************************)
(* Up to the first mishap the program implements ChatContract.             *)
(***************************************************************************)

LEMMA ContractInit == Init => Contract!Init
BY DEF Init, Contract!Init

\* What the contract speaks of.
Visible == <<gen, isGenerating, IF gen = 0 THEN 0 ELSE made[gen], tokenCount,
             mishaps # {}>>

\* A first question, or one more, is Ask.
LEMMA AskStep ==
  ASSUME Groundwork, mishaps = {}, sendMessage
  PROVE  Contract!Ask
<1>1. /\ ~isGenerating /\ isGenerating' /\ gen' = gen + 1
      /\ tokenCount' = 0 /\ mishaps' = mishaps /\ made' = made
      /\ gen \in Nat /\ gen + 1 \in Gens
  BY ConstantsAssumption DEF sendMessage, Groundwork, TypeOK, Gens
<1>2. made'[gen'] = 0 /\ gen' # 0
  BY <1>1 DEF Groundwork, Bookkeeping
<1> QED
  BY <1>1, <1>2 DEF Contract!Ask

\* A token shown is Show: there is one, because none was lost.
LEMMA ShowStep ==
  ASSUME Groundwork, AnswerIsWhole, mishaps = {}, onTokenReceived
  PROVE  Contract!Show
<1>1. /\ queue # <<>> /\ gui # "closed"
      /\ tokenCount' = tokenCount + 1
      /\ UNCHANGED <<isGenerating, gen, made, mishaps>>
  BY DEF onTokenReceived, InEventLoop, historyVars
<1>2. TypeOK /\ Apart /\ Faultless
  BY DEF Groundwork, GenerationsApart, Faultless
<1>3. Len(queue) \in Nat \ {0} /\ Head(queue) = queue[1]
  BY <1>1, <1>2, DeliverRemoves DEF onTokenReceived
<1>4. queue[1].kind = "token"
  BY <1>3, Zenon DEF onTokenReceived
<1>5. isGenerating
  BY <1>2, <1>3 DEF Apart
<1>6. gen \in Gens /\ gen # 0 /\ made[gen] \in Nat /\ tokenCount \in Nat
  BY <1>1, <1>2, <1>5, ConstantsAssumption
     DEF Groundwork, NoStuckChat, TypeOK, Gens
<1>7. made[gen] = tokenCount + Len(queue) - (IF QueuedClosing(gen) THEN 1 ELSE 0)
  BY <1>1, <1>2, <1>5 DEF AnswerIsWhole
<1>8. QueuedClosing(gen) => Len(queue) >= 2
  <2> SUFFICES ASSUME NEW i \in 1 .. Len(queue), queue[i].kind \in Closing
               PROVE  Len(queue) >= 2
    BY <1>3 DEF QueuedClosing
  <2>1. i # 1
    BY <1>4 DEF Closing
  <2> QED
    BY <1>3, <2>1
<1>9. tokenCount < made[gen]
  BY <1>3, <1>6, <1>7, <1>8
<1> QED
  BY <1>1, <1>5, <1>6, <1>9 DEF Contract!Show

\* A closing signal delivered is Finish: it is the last one queued, so that
\* every token was shown before it.
LEMMA FinishStep ==
  ASSUME Groundwork, AnswerIsWhole, mishaps = {},
         onResponseComplete \/ onError
  PROVE  Contract!Finish
<1>1. /\ queue # <<>> /\ queue' = Tail(queue) /\ gui # "closed"
      /\ ~isGenerating'
      /\ UNCHANGED <<tokenCount, gen, made, mishaps>>
  BY DEF onResponseComplete, onError, InEventLoop, historyVars
<1>2. TypeOK /\ Apart /\ Faultless
  BY DEF Groundwork, GenerationsApart, Faultless
<1>3. Len(queue) \in Nat \ {0} /\ Head(queue) = queue[1]
  BY <1>1, <1>2, DeliverRemoves
<1>4. queue[1].kind \in Closing
  <2>1. Head(queue).kind \in Closing
    BY DEF onResponseComplete, onError, Closing
  <2> QED
    BY <1>3, <2>1, Zenon
<1>5. 1 \in 1 .. Len(queue)
  BY <1>3
<1>6. Len(queue) = 1 /\ isGenerating /\ queue[1].gen = gen
  BY <1>2, <1>4, <1>5 DEF Apart
<1>7. QueuedClosing(gen)
  BY <1>4, <1>5, <1>6 DEF QueuedClosing
<1>8. gen \in Gens /\ gen # 0 /\ made[gen] \in Nat /\ tokenCount \in Nat
  BY <1>1, <1>2, <1>6, ConstantsAssumption
     DEF Groundwork, NoStuckChat, TypeOK, Gens
<1>9. made[gen] = tokenCount + Len(queue) - 1
  BY <1>1, <1>2, <1>6, <1>7 DEF AnswerIsWhole
<1>10. made[gen] = tokenCount
  BY <1>6, <1>8, <1>9
<1> QED
  BY <1>1, <1>6, <1>8, <1>10 DEF Contract!Finish

\* A step of a generation's thread produces a token or changes nothing.
LEMMA ProduceStep ==
  ASSUME Groundwork, mishaps = {}, mishaps' = {}, NEW g \in Gens, Worker(g)
  PROVE  Contract!Produce \/ UNCHANGED Visible
<1>1. UNCHANGED <<isGenerating, tokenCount, gen>>
  BY WorkerCases DEF guiVars
<1>2. TypeOK /\ Apart
  BY DEF Groundwork, GenerationsApart, Faultless
<1>3. CASE Streams(g)
  <2>1. g = gen /\ isGenerating /\ made' = [made EXCEPT ![g] = @ + 1]
    BY <1>2, <1>3 DEF Streams, Apart
  <2>2. gen # 0 /\ made'[gen] = made[gen] + 1
    BY <1>2, <2>1 DEF TypeOK, Gens
  <2> QED
    BY <1>1, <2>1, <2>2 DEF Contract!Produce
<1>4. CASE Quiet(g) \/ Closes(g) \/ Repeats(g) \/ Halts
  BY <1>1, <1>4 DEF Quiet, Closes, Repeats, Halts, Visible
<1>5. CASE Breaks(g)
  BY <1>5 DEF Breaks
<1> QED
  BY <1>3, <1>4, <1>5, WorkerCases

LEMMA ContractStep ==
  ASSUME Groundwork, AnswerIsWhole, [Next]_vars
  PROVE  [Contract!Next]_(Contract!contractVars)
<1>1. CASE mishaps' # {}
  BY <1>1 DEF Contract!Next, Contract!Breach
<1>2. CASE mishaps' = {}
  <2>1. mishaps = {}
    BY <1>2, MishapsGrow DEF Groundwork
  <2>2. ASSUME UNCHANGED Visible PROVE UNCHANGED Contract!contractVars
    BY <2>2 DEF Visible, Contract!contractVars
  <2>3. CASE sendMessage
    BY <2>1, <2>3, AskStep DEF Contract!Next
  <2>4. CASE onTokenReceived
    BY <2>1, <2>4, ShowStep DEF Contract!Next
  <2>5. CASE onResponseComplete \/ onError
    BY <2>1, <2>5, FinishStep DEF Contract!Next
  <2>6. CASE loadModelFails
    <3>1. /\ ~isGenerating /\ ~isGenerating'
          /\ UNCHANGED <<tokenCount, gen, made, mishaps>>
      BY <1>2, <2>1, <2>6 DEF loadModelFails, workerVars
    <3>2. isGenerating \in BOOLEAN /\ isGenerating' \in BOOLEAN
      BY <2>6 DEF loadModelFails, Groundwork, TypeOK
    <3>3. isGenerating' = isGenerating
      BY <3>1, <3>2, Zenon
    <3> QED
      BY <2>2, <3>1, <3>3 DEF Visible
  <2>7. CASE closeWindow \/ StandsBy
    BY <1>2, <2>1, <2>2, <2>7 DEF closeWindow, StandsBy, Visible
  <2>8. ASSUME NEW g \in Gens, Worker(g)
        PROVE  [Contract!Next]_(Contract!contractVars)
    BY <1>2, <2>1, <2>2, <2>8, ProduceStep DEF Contract!Next
  <2>9. CASE UNCHANGED vars
    BY <2>2, <2>9 DEF vars, guiVars, workerVars, historyVars, Visible
  <2> QED
    BY <2>3, <2>4, <2>5, <2>6, <2>7, <2>8, <2>9, GuiCases
       DEF Groundwork, Next, Deliver
<1> QED
  BY <1>1, <1>2

\* Up to the first mishap the chat answers one question at a time, shows
\* each token as it was produced, and closes a question only when all of
\* them have been shown.
THEOREM ContractIsKept == Spec => KeepsContract
<1>1. Groundwork /\ AnswerIsWhole /\ [Next]_vars
      => [Contract!Next]_(Contract!contractVars)
  BY ContractStep
<1> QED
  BY <1>1, ContractInit, GroundworkHolds, AnswersAreWhole, PTL
     DEF Spec, KeepsContract, Contract!Spec

=============================================================================
