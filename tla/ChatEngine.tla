----------------------------- MODULE ChatEngine -----------------------------
(***************************************************************************)
(* The chat tab (MainWindow) and the inference engine (LlamaEngine) of     *)
(* RunMyModel.                                                             *)
(*                                                                         *)
(* Two kinds of threads share the engine.  The GUI thread runs Qt's event  *)
(* loop: it handles the user's clicks, the signals the engine emitted, and *)
(* loads a model synchronously, during which it handles nothing else.      *)
(* Every question starts a generation on a thread of the global thread     *)
(* pool (QtConcurrent::run); it emits tokenGenerated, error and            *)
(* responseComplete, which Qt queues for the GUI thread in the order they  *)
(* were emitted.  m_model, m_ctx, m_sampler and m_shouldStop are read and  *)
(* written by all of them without a lock.                                  *)
(*                                                                         *)
(* A generation is named by the number of its question.  Steps are as      *)
(* large as the code allows: one per stretch between two accesses to what  *)
(* the threads share.                                                      *)
(***************************************************************************)
EXTENDS Naturals, Sequences, FiniteSets

CONSTANTS
  MaxGen,        \* bound: the number of questions the user asks
  PoolSize,      \* threads of the global QThreadPool
  TokenLimits,   \* values the "max tokens" spin box may take
  PromptSizes,   \* tokens a prompt may amount to; 0 stands for a failure
  NCtx           \* cells of the KV cache (n_ctx), also the largest batch

ASSUME ConstantsAssumption ==
  /\ MaxGen \in Nat /\ PoolSize \in Nat \ {0}
  /\ TokenLimits \subseteq Nat \ {0} /\ TokenLimits # {}
  /\ PromptSizes \subseteq Nat /\ NCtx \in Nat \ {0}

VARIABLES
  \* MainWindow, touched by the GUI thread only
  gui,           \* where the GUI thread is: event loop, or inside loadModel
  isGenerating,  \* m_isGenerating; Send is enabled iff FALSE, Stop iff TRUE
  response,      \* m_currentResponse: which generation each token came from
  tokenCount,    \* m_tokenCount
  maxTokens,     \* m_maxTokens
  label,         \* what m_currentModelLabel tells the user
  \* LlamaEngine, shared by all threads
  engine,        \* which of m_model, m_ctx, m_sampler exist
  shouldStop,    \* m_shouldStop
  kv,            \* cells of the context's KV cache in use
  \* the generations and their signals
  gen,           \* the number of the last question asked
  pc,            \* where each generation's thread is in generateInThread
  limit,         \* the maxTokens argument each generation was given
  made,          \* n_generated, tokens each generation has emitted
  queue,         \* signals posted to the GUI thread, oldest first
  \* the process
  fate,          \* "running", or how the program left its defined behaviour
  \* history, read by the properties only
  stopAsked,     \* whether and when Stop was pressed for the last question
  mishaps        \* events after which the contract is off

guiVars     == <<gui, isGenerating, response, tokenCount, maxTokens, label>>
engineVars  == <<engine, shouldStop, kv>>
workerVars  == <<gen, pc, limit, made, queue>>
historyVars == <<stopAsked, mishaps>>
vars == <<guiVars, engineVars, workerVars, fate, historyVars>>

-----------------------------------------------------------------------------
Gens == 1 .. MaxGen

\* pool:     handed to QtConcurrent::run, no thread yet
\* entry:    running, before the null checks and the reset of m_shouldStop
\* tokenize: in llama_tokenize or llama_sampler_reset
\* prompt:   in llama_decode of the whole prompt
\* loop:     about to test the loop condition
\* sample:   in llama_sampler_sample, up to the emission of the token
\* decode:   in llama_decode of one token
\* tail:     left the loop through an error, responseComplete still to emit
WorkerPcs == {"none", "pool", "entry", "tokenize", "prompt", "loop",
              "sample", "decode", "tail", "done"}

\* The generation has been started and has not emitted a closing signal.
Live(g) == pc[g] \notin {"none", "tail", "done"}
\* Its task exists on a thread or in the pool.
Active(g) == pc[g] \notin {"none", "done"}
\* Its thread is inside a llama.cpp call on the shared objects.
InCall(g) == pc[g] \in {"tokenize", "prompt", "sample", "decode"}

Closing == {"error", "complete"}
Signal == [kind : Closing \union {"token"}, gen : Gens]
Event(kind, g) == [kind |-> kind, gen |-> g]

\* What a call needs to find; m_model, m_ctx, m_sampler come in this order.
Usable(g) ==
  IF pc[g] \in {"prompt", "decode"} THEN engine \in {"context", "ready"}
                                    ELSE engine = "ready"

\* m_modelLoaded: set with the sampler, cleared by cleanup.
IsLoaded == engine = "ready"

Running == fate = "running"
InEventLoop == Running /\ gui = "loop"

Init ==
  /\ gui = "loop" /\ isGenerating = FALSE /\ response = <<>>
  /\ tokenCount = 0 /\ maxTokens \in TokenLimits
  \* the constructor may have found models/tinyllama.gguf and loaded it
  /\ \/ engine = "none"  /\ label = "none"
     \/ engine = "ready" /\ label = "loaded"
  /\ shouldStop = FALSE /\ kv = 0 /\ gen = 0
  /\ pc = [g \in Gens |-> "none"] /\ limit = [g \in Gens |-> 0]
  /\ made = [g \in Gens |-> 0] /\ queue = <<>> /\ fate = "running"
  /\ stopAsked = "no" /\ mishaps = {}

-----------------------------------------------------------------------------
(***************************************************************************)
(* The user's clicks, handled by the event loop.                           *)
(***************************************************************************)

\* Variant with a defect: m_tokenCount is not reset.
sendMessageKeepingCount ==
  /\ InEventLoop /\ ~isGenerating /\ IsLoaded
  /\ gen < MaxGen
  /\ isGenerating' = TRUE /\ response' = <<>> /\ gen' = gen + 1
  /\ pc' = [pc EXCEPT ![gen + 1] = "pool"]
  /\ limit' = [limit EXCEPT ![gen + 1] = maxTokens] /\ stopAsked' = "no"
  /\ UNCHANGED <<gui, tokenCount, maxTokens, label, engineVars, made, queue,
                 fate, mishaps>>

\* A generation already running is refused, and so is a missing model.
sendMessage ==
  /\ InEventLoop /\ ~isGenerating /\ IsLoaded
  /\ gen < MaxGen
  /\ isGenerating' = TRUE /\ response' = <<>> /\ tokenCount' = 0
  /\ gen' = gen + 1 /\ pc' = [pc EXCEPT ![gen + 1] = "pool"]
  /\ limit' = [limit EXCEPT ![gen + 1] = maxTokens] /\ stopAsked' = "no"
  /\ UNCHANGED <<gui, maxTokens, label, engineVars, made, queue, fate,
                 mishaps>>

\* Variant with a defect: Send is enabled again at once.
onStopGenerationReenabling ==
  /\ InEventLoop /\ isGenerating
  /\ shouldStop' = TRUE /\ isGenerating' = FALSE
  /\ UNCHANGED <<gui, response, tokenCount, maxTokens, label, engine, kv,
                 workerVars, fate, historyVars>>

\* The Stop button is enabled exactly while m_isGenerating.
onStopGeneration ==
  /\ InEventLoop /\ isGenerating
  /\ shouldStop' = TRUE
  /\ stopAsked' = IF pc[gen] \in {"pool", "entry"} THEN "early" ELSE "late"
  /\ UNCHANGED <<guiVars, engine, kv, workerVars, fate, mishaps>>

onMaxTokensChanged(n) ==
  /\ InEventLoop
  /\ maxTokens' = n
  /\ UNCHANGED <<gui, isGenerating, response, tokenCount, label, engineVars,
                 workerVars, fate, historyVars>>

\* Only the labels change: the engine keeps its model.
onUnloadModel ==
  /\ InEventLoop
  /\ label' = "none"
  /\ UNCHANGED <<gui, isGenerating, response, tokenCount, maxTokens,
                 engineVars, workerVars, fate, historyVars>>

(***************************************************************************)
(* Loading a model: cleanup, then file, context and sampler.  The GUI      *)
(* thread does it in line, the generations run on meanwhile.               *)
(***************************************************************************)

\* Frees sampler, context and model without waiting for anybody.
cleanup ==
  /\ engine' = "none" /\ kv' = 0

\* Variant with a defect: the label is left alone until the load is over.
onLoadModelKeepingLabel ==
  /\ InEventLoop
  /\ gui' = "file"
  /\ cleanup
  /\ mishaps' = mishaps \union
                  {m \in {"busyLoad"} : \E g \in Gens : Live(g)}
  /\ UNCHANGED <<isGenerating, response, tokenCount, maxTokens, label,
                 shouldStop, workerVars, fate, stopAsked>>

onLoadModel ==
  /\ InEventLoop
  /\ gui' = "file" /\ label' = "loading"
  /\ cleanup
  /\ mishaps' = mishaps \union
                  {m \in {"busyLoad"} : \E g \in Gens : Live(g)}
  /\ UNCHANGED <<isGenerating, response, tokenCount, maxTokens, shouldStop,
                 workerVars, fate, stopAsked>>

\* llama_model_load_from_file and llama_new_context_with_model.
loadModelStep(from, to, made_) ==
  /\ Running /\ gui = from
  /\ gui' = to /\ engine' = made_
  /\ UNCHANGED <<isGenerating, response, tokenCount, maxTokens, label,
                 shouldStop, kv, workerVars, fate, historyVars>>

\* Either call fails: error is emitted on the GUI thread itself, so onError
\* runs at once, whatever generation is under way.
loadModelFails ==
  /\ Running /\ gui \in {"file", "context"}
  /\ gui' = "loop" /\ engine' = "none" /\ label' = "failed"
  /\ isGenerating' = FALSE
  /\ mishaps' = mishaps \union {m \in {"failedLoad"} : isGenerating}
  /\ UNCHANGED <<response, tokenCount, maxTokens, shouldStop, kv, workerVars,
                 fate, stopAsked>>

loadModelSucceeds ==
  /\ Running /\ gui = "sampler"
  /\ gui' = "loop" /\ engine' = "ready" /\ shouldStop' = FALSE
  /\ label' = "loaded"
  /\ UNCHANGED <<isGenerating, response, tokenCount, maxTokens, kv,
                 workerVars, fate, historyVars>>

\* The window goes out of scope in main: ~LlamaEngine runs cleanup, the
\* pending signals are dropped, and no generation is waited for.
closeWindow ==
  /\ InEventLoop
  /\ gui' = "closed"
  /\ cleanup
  /\ queue' = <<>>
  /\ mishaps' = mishaps \union
                  {m \in {"busyClose"} : \E g \in Gens : Active(g)}
  /\ UNCHANGED <<isGenerating, response, tokenCount, maxTokens, label,
                 shouldStop, gen, pc, limit, made, fate, stopAsked>>

(***************************************************************************)
(* The event loop delivers the oldest posted signal.                       *)
(***************************************************************************)

\* Variant with a defect: tokens that arrive after a Stop are thrown away.
onTokenReceivedUnlessStopped ==
  /\ InEventLoop /\ queue # <<>> /\ Head(queue).kind = "token"
  /\ queue' = Tail(queue)
  /\ response' = IF shouldStop THEN response
                               ELSE Append(response, Head(queue).gen)
  /\ tokenCount' = IF shouldStop THEN tokenCount ELSE tokenCount + 1
  /\ UNCHANGED <<gui, isGenerating, maxTokens, label, engineVars, gen, pc,
                 limit, made, fate, historyVars>>

onTokenReceived ==
  /\ InEventLoop /\ queue # <<>> /\ Head(queue).kind = "token"
  /\ queue' = Tail(queue) /\ response' = Append(response, Head(queue).gen)
  /\ tokenCount' = tokenCount + 1
  /\ UNCHANGED <<gui, isGenerating, maxTokens, label, engineVars, gen, pc,
                 limit, made, fate, historyVars>>

onResponseComplete ==
  /\ InEventLoop /\ queue # <<>> /\ Head(queue).kind = "complete"
  /\ queue' = Tail(queue) /\ isGenerating' = FALSE /\ response' = <<>>
  /\ UNCHANGED <<gui, tokenCount, maxTokens, label, engineVars, gen, pc,
                 limit, made, fate, historyVars>>

\* m_currentResponse keeps what it holds.
onError ==
  /\ InEventLoop /\ queue # <<>> /\ Head(queue).kind = "error"
  /\ queue' = Tail(queue) /\ isGenerating' = FALSE
  /\ UNCHANGED <<gui, response, tokenCount, maxTokens, label, engineVars,
                 gen, pc, limit, made, fate, historyVars>>

-----------------------------------------------------------------------------
(***************************************************************************)
(* generateInThread, on a thread of the pool.                              *)
(***************************************************************************)

\* The engine object exists and the process runs.
Executing(g, at) == Running /\ gui # "closed" /\ pc[g] = at

Goto(g, to) == pc' = [pc EXCEPT ![g] = to]
Emit(kind, g) == queue' = Append(queue, Event(kind, g))

\* The pool runs tasks in the order they were submitted.
startInPool(g) ==
  /\ Executing(g, "pool")
  /\ \A h \in 1 .. (g - 1) : pc[h] # "pool"
  /\ Cardinality({h \in Gens : Active(h) /\ pc[h] # "pool"}) < PoolSize
  /\ Goto(g, "entry")
  /\ UNCHANGED <<guiVars, engineVars, gen, limit, made, queue, fate,
                 historyVars>>

\* The null checks, then m_shouldStop = false.
enter(g) ==
  /\ Executing(g, "entry") /\ engine \in {"context", "ready"}
  /\ shouldStop' = FALSE
  /\ Goto(g, "tokenize")
  /\ UNCHANGED <<guiVars, engine, kv, gen, limit, made, queue, fate,
                 historyVars>>

\* Variant with a defect: the early return emits nothing.
giveUpSilently(g) ==
  /\ Goto(g, "done")
  /\ UNCHANGED <<guiVars, engineVars, gen, limit, made, queue, fate,
                 historyVars>>

\* An error that returns before the loop: error is the only closing signal.
giveUp(g) ==
  /\ Goto(g, "done") /\ Emit("error", g)
  /\ UNCHANGED <<guiVars, engineVars, gen, limit, made, fate, historyVars>>

enterWithoutModel(g) ==
  /\ Executing(g, "entry") /\ engine \notin {"context", "ready"} /\ giveUp(g)

tokenize(g) ==
  /\ Executing(g, "tokenize") /\ Usable(g)
  /\ \/ 0 \in PromptSizes /\ giveUp(g)
     \/ /\ PromptSizes \ {0} # {}
        /\ Goto(g, "prompt")
        /\ UNCHANGED <<guiVars, engineVars, gen, limit, made, queue, fate,
                       historyVars>>

\* Variant with a defect: m_shouldStop is reset right before the loop.
decodePromptThenReset(g, n) ==
  /\ Executing(g, "prompt") /\ Usable(g) /\ n <= NCtx
  /\ \/ /\ kv + n <= NCtx
        /\ kv' = kv + n
        /\ shouldStop' = FALSE
        /\ Goto(g, "loop")
        /\ UNCHANGED <<guiVars, engine, gen, limit, made, queue, fate,
                       historyVars>>
     \/ kv + n > NCtx /\ giveUp(g)

\* llama_decode of n tokens: refused when no room is left for them.  The
\* cache still holds everything decoded since the model was loaded.
decodePrompt(g, n) ==
  /\ Executing(g, "prompt") /\ Usable(g) /\ n <= NCtx
  /\ \/ /\ kv + n <= NCtx
        /\ kv' = kv + n
        /\ Goto(g, "loop")
        /\ UNCHANGED <<guiVars, engine, shouldStop, gen, limit, made, queue,
                       fate, historyVars>>
     \/ kv + n > NCtx /\ giveUp(g)

\* A batch larger than n_batch fails llama.cpp's GGML_ASSERT.
decodeOversizedPrompt(g, n) ==
  /\ Executing(g, "prompt") /\ Usable(g) /\ n > NCtx
  /\ fate' = "aborted"
  /\ UNCHANGED <<guiVars, engineVars, workerVars, historyVars>>

continueLoop(g) ==
  /\ Executing(g, "loop") /\ made[g] < limit[g] /\ ~shouldStop
  /\ Goto(g, "sample")
  /\ UNCHANGED <<guiVars, engineVars, gen, limit, made, queue, fate,
                 historyVars>>

\* responseComplete, on every way out of the loop.
finish(g) ==
  /\ Goto(g, "done") /\ Emit("complete", g)
  /\ UNCHANGED <<guiVars, engineVars, gen, limit, made, fate, historyVars>>

leaveLoop(g) ==
  /\ Executing(g, "loop")
  /\ made[g] >= limit[g] \/ shouldStop
  /\ finish(g)

sampleToken(g) ==
  /\ Executing(g, "sample") /\ Usable(g) /\ kv > 0
  /\ Goto(g, "decode")
  /\ made' = [made EXCEPT ![g] = @ + 1]
  /\ Emit("token", g)
  /\ UNCHANGED <<guiVars, engineVars, gen, limit, fate, historyVars>>

\* Variant with a defect: return instead of break at the end of the text.
sampleEndOfTextReturning(g) ==
  /\ Executing(g, "sample") /\ Usable(g) /\ kv > 0
  /\ Goto(g, "done")
  /\ UNCHANGED <<guiVars, engineVars, gen, limit, made, queue, fate,
                 historyVars>>

sampleEndOfText(g) ==
  /\ Executing(g, "sample") /\ Usable(g) /\ kv > 0
  /\ finish(g)

\* error, then break: responseComplete follows as a second closing signal.
breakWithError(g) ==
  /\ Goto(g, "tail") /\ Emit("error", g)
  /\ mishaps' = mishaps \union {"tokenError"}
  /\ UNCHANGED <<guiVars, engineVars, gen, limit, made, fate, stopAsked>>

sampleUnprintable(g) ==
  /\ Executing(g, "sample") /\ Usable(g) /\ kv > 0
  /\ breakWithError(g)

decodeToken(g) ==
  /\ Executing(g, "decode") /\ Usable(g)
  /\ \/ /\ kv < NCtx
        /\ kv' = kv + 1
        /\ Goto(g, "loop")
        /\ UNCHANGED <<guiVars, engine, shouldStop, gen, limit, made, queue,
                       fate, historyVars>>
     \/ kv >= NCtx /\ breakWithError(g)

completeAfterError(g) ==
  /\ Executing(g, "tail") /\ finish(g)

\* What the generation's thread is about to do has no defined behaviour:
\* it touches the engine after its destruction, hands llama.cpp a freed or
\* null pointer, samples from a context nothing was decoded in, or is in a
\* llama_context together with another thread.
IllDefined(g) ==
  \/ gui = "closed" /\ Active(g)
  \/ InCall(g) /\ ~Usable(g)
  \/ pc[g] = "sample" /\ kv = 0
  \/ InCall(g) /\ \E h \in Gens \ {g} : InCall(h)

\* The model stops there; properties speak of what comes before.
undefinedBehaviour(g) ==
  /\ Running /\ IllDefined(g)
  /\ fate' = "undefined"
  /\ UNCHANGED <<guiVars, engineVars, workerVars, historyVars>>

-----------------------------------------------------------------------------
Deliver == onTokenReceived \/ onResponseComplete \/ onError

Load ==
  \/ loadModelStep("file", "context", "model")
  \/ loadModelStep("context", "sampler", "context")
  \/ loadModelFails
  \/ loadModelSucceeds

User ==
  \/ sendMessage
  \/ onStopGeneration
  \/ \E n \in TokenLimits : onMaxTokensChanged(n)
  \/ onUnloadModel
  \/ onLoadModel
  \/ closeWindow

Worker(g) ==
  \/ startInPool(g)
  \/ enter(g)
  \/ enterWithoutModel(g)
  \/ tokenize(g)
  \/ \E n \in PromptSizes \ {0} : decodePrompt(g, n)
  \/ \E n \in PromptSizes \ {0} : decodeOversizedPrompt(g, n)
  \/ continueLoop(g)
  \/ leaveLoop(g)
  \/ sampleToken(g)
  \/ sampleEndOfText(g)
  \/ sampleUnprintable(g)
  \/ decodeToken(g)
  \/ completeAfterError(g)
  \/ undefinedBehaviour(g)

Next == User \/ Load \/ Deliver \/ \E g \in Gens : Worker(g)

Spec == Init /\ [][Next]_vars

\* Every thread the system schedules makes progress, and Qt's event loop
\* delivers posted signals in each of its passes, however often the user
\* clicks in between (strong fairness: a load suspends the loop for a while).
\* Nothing is assumed of the user.
Fairness ==
  /\ SF_vars(Deliver)
  /\ WF_vars(Load)
  /\ \A g \in Gens : WF_vars(Worker(g))

FairSpec == Spec /\ Fairness

-----------------------------------------------------------------------------
(***************************************************************************)
(* Properties.                                                             *)
(***************************************************************************)

\* Every variable has its type; the KV cache never holds more than n_ctx
\* tokens, whatever sequence of prompts, tokens and loads led there.
TypeOK ==
  /\ gui \in {"loop", "file", "context", "sampler", "closed"}
  /\ isGenerating \in BOOLEAN
  /\ response \in Seq(Gens)
  /\ tokenCount \in Nat
  /\ maxTokens \in TokenLimits
  /\ label \in {"none", "loading", "loaded", "failed"}
  /\ engine \in {"none", "model", "context", "ready"}
  /\ shouldStop \in BOOLEAN
  /\ kv \in 0 .. NCtx
  /\ gen \in 0 .. MaxGen
  /\ pc \in [Gens -> WorkerPcs]
  /\ limit \in [Gens -> Nat]
  /\ made \in [Gens -> Nat]
  /\ queue \in Seq(Signal)
  /\ fate \in {"running", "undefined", "aborted"}
  /\ stopAsked \in {"no", "early", "late"}
  /\ mishaps \subseteq {"tokenError", "failedLoad", "busyLoad", "busyClose"}

\* Of generation g, the signals still to be delivered.
QueuedClosing(g) ==
  \E i \in 1 .. Len(queue) : queue[i].gen = g /\ queue[i].kind \in Closing

\* While the chat refuses questions, something will end that: the last
\* question's thread is still to emit a closing signal, or one is queued.
\* Holds through failed loads, stale signals and overlapping generations.
NoStuckChat ==
  isGenerating /\ gui # "closed" =>
    gen > 0 /\ (Live(gen) \/ QueuedClosing(gen))

\* While the Models tab says that a model is loaded there is one, so that a
\* question is not refused for want of it: at no point of a load, and after
\* no failure of one.  (After Unload there is one too, unannounced.)
LabelIsTrue == label = "loaded" /\ gui # "closed" => IsLoaded

\* Neither of the two faults that clear the flag out of turn has happened: a
\* generation broken off at a token, a load failing under a generation.
Faultless == mishaps \intersect {"tokenError", "failedLoad"} = {}

\* sendMessage's m_isGenerating guard keeps generations apart: unless one
\* broke off at a token (error followed by responseComplete) or a failed
\* load cleared the flag under one, only the last question's thread is in
\* the engine, and the chat knows it is.
OneGenerationUnlessFault ==
  Faultless => \A g \in Gens : Live(g) => g = gen /\ isGenerating

\* Why: the flag is up as long as anything of the last question is left,
\* nothing of an earlier one is, and a closing signal comes last.
Apart ==
  /\ \A g \in Gens : Live(g) => g = gen /\ isGenerating
  /\ \A g \in Gens : pc[g] # "tail"
  /\ \A i \in 1 .. Len(queue) :
       /\ queue[i].gen = gen
       /\ isGenerating
       /\ queue[i].kind \in Closing => i = Len(queue) /\ ~Live(gen)

GenerationsApart == Faultless => Apart

\* In the same circumstances the answer on screen is the last question's
\* alone, and every token emitted is shown or on its way, none twice.
AnswerIsWhole ==
  Faultless /\ isGenerating /\ gui # "closed" =>
  /\ \A i \in 1 .. Len(response) : response[i] = gen
  /\ tokenCount = Len(response)
  /\ made[gen] = tokenCount + Len(queue)
                   - (IF QueuedClosing(gen) THEN 1 ELSE 0)

\* The program leaves its defined behaviour only after one of the named
\* mishaps: a load or the window's closing under a running generation, or
\* the two faults that let generations overlap.
UndefinedOnlyAfterMishap == fate = "undefined" => mishaps # {}

\* Why: mishaps aside, no thread is in generateInThread while the engine is
\* being replaced or gone, the loop runs on a context something was decoded
\* in, and a Stop after the reset of the flag finds it up until the end.
EngineSettled ==
  mishaps = {} =>
    /\ fate # "undefined"
    /\ engine # "ready" => \A g \in Gens : ~Active(g)
    /\ \A g \in Gens : pc[g] \in {"loop", "sample", "decode"} => kv > 0
    /\ stopAsked = "late" /\ Active(gen) =>
         shouldStop /\ pc[gen] \notin {"pool", "entry"}

\* A Stop pressed once the thread has passed its own reset of m_shouldStop
\* is final, mishaps aside: no further token is sampled after the one in
\* progress.
StopIsFinal ==
  [][ /\ mishaps = {}
      /\ stopAsked = "late"
      /\ pc[gen] # "sample"
      => pc'[gen] # "sample" ]_vars

\* Every answer ends, so that the user may ask again: whatever the user
\* clicks, the flag is cleared, unless the window or the process is gone.
AnswerEnds ==
  isGenerating ~> (~isGenerating \/ gui = "closed" \/ ~Running)

\* The program implements what the chat promises, up to the first mishap.
Contract == INSTANCE ChatContract WITH
  turn <- gen,
  answering <- isGenerating,
  produced <- IF gen = 0 THEN 0 ELSE made[gen],
  shown <- tokenCount,
  broken <- mishaps # {}

KeepsContract == Contract!Spec

-----------------------------------------------------------------------------
(***************************************************************************)
(* What the documentation and the program's own messages say, and the code *)
(* does not do.                                                            *)
(***************************************************************************)

\* "Click "Stop" to interrupt long responses" (README.md:84): once Stop was
\* pressed for a question whose thread is in the loop, the flag is up.
StopInterrupts ==
  stopAsked # "no" /\ pc[gen] = "loop" /\ mishaps = {} => shouldStop

=============================================================================
