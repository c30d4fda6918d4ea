# A verification of RunMyModel in TLA+

RunMyModel is a desktop program in C++/Qt 6 that runs language models locally.
Its own code is `src/app/src-cpp/{src,include}`, about 8300 lines; the vendored
`src/app/lib/llama.cpp` is treated as a library.  The program has no tests, so
the reference is the code itself, read with `src/README.md` and `src/docs`.
This directory holds TLA+ modules translated from that code, configurations
that model-check them with TLC, and theorems checked by TLAPS.  File names below
are relative to `src/app/src-cpp/src` unless they say otherwise.

## Inventory

`src/app/build.sh` compiles eleven sources and links seven of them: main,
mainwindow, llama_engine, finetune_panel, finetune_engine, model_manager and
api_manager.  The window creates the engine and the panel only; the other
managers are complete classes that no code instantiates yet, so that their
callers, and the slots connected to their signals, are whatever a user of their
public interface does.

| Component | State it keeps | Operations | What is hard | What makes it correct |
|---|---|---|---|---|
| Chat tab (`mainwindow.cpp`) and inference engine (`llama_engine.cpp`) | the answer shown, `m_isGenerating`; model, context, sampler, `m_shouldStop`, the KV cache | ask, stop, load, unload, set the token limit, close; a generation on a pool thread | threads share the engine without a lock; signals are queued; Stop races the start of a generation; a load frees what a generation uses | one answer at a time, none mixed or lost; the chat never refuses questions for ever; a Stop stops; llama.cpp is called on live objects only |
| Model trainer (`model_trainer.cpp`) | `m_isTraining`, progress, status, a timer | start, stop, destroy; a worker on a pool thread | workers do not know which training they belong to, and nobody waits for them | the flag is cleared; a stop is obeyed; the trainer settles |
| Fine-tuning tab (`finetune_panel.cpp`) | `m_isTraining`, a counter shared by all timers | start, stop, ticks, a message box | timers outlive their training; the box runs an event loop in a timer's callback | Start is always enabled again; a training announces its model once |
| Fine-tuning engine (`finetune_engine.cpp`) | a `QProcess`, `m_config`, `m_isRunning` | start, stop, destroy, three slots | timeouts, kills, children that start late; a deleted process still reports | the flag has a child to clear it; two children never run beside each other; verdicts are true |
| Knowledge base (`rag_system.cpp`) | documents, their chunks, a file | add, remove, clear, save, load; a worker per document | chunks are appended without the mutex; a document is entered in two steps; the file is truncated before it is written | the index has no orphans; accepted documents are stored; what was stored survives |
| Remote providers (`api_manager.cpp`) | configurations, the encryption flag, `QSettings`, pending tests, request counts | set, remove, test, query, switch encryption, restart | queries nest in event loops; the flag decides how keys are read; timers act on what was removed | keys read back; stored keys are encrypted; the rate limit holds and is lifted; tests end |
| Sessions (`session_manager.cpp`) | current session, session files, a timer | save, load, delete, set, clear, autosave | autosave reads the name and the data at different times; a save truncates the file first; signals are emitted under a mutex that is not recursive | nothing older goes over something newer; a session is stored whole; calls return; autosaves arrive |
| Model library (`model_manager.cpp`) | directories, the list, the loaded model | scan, load, create GGUF, backup, restore | creations on pool threads refresh the list beside the owner; the directories have no lock; other programs change files | the list follows the disk; an output stays what it was made of; creations end |
| Download list (`downloadpanel.cpp`) | an item per name | add, update, complete, fail, remove | removal timers go by name and have no context object | an active download is not removed by an older one's timer |
| Python backend client (`backend_client.cpp`) | a `QProcess`, a flag, replies, stream buffers | start, stop, wait, requests, streams | slots run inside start, stop and wait; lines cut into segments; streams that break off | the client knows its child; every end is told; answers become the right signal |
| Plugins (`plugin_system.cpp`) | a loader per base name | load, unload, destroy | names collide; deleting a loader is no unload | the libraries in memory are those listed |
| Web server (`web_server.cpp`) | connections, the backend's address | start, stop, a request per `readyRead` | requests in several segments | a whole request gets its own answer; the backend acts at most once |
| Prompt architect, model card | blocks; flags | rebuild the preview; toggle | nothing concurrent, nothing kept | |
| Hardware detection, backend stubs, older windows | none | | | |

How they interact: the window calls the engine directly; the engine answers by
signals that Qt queues to the GUI thread (from pool threads) or delivers at once
(from the GUI thread itself, as in a failing load).  The panel simulates its
training and does not use the fine-tuning engine.  The other
managers are independent of each other.  So the only
composition with shared state is chat tab and engine, which are one module; the
others are checked on their own, the small ones (`Services`) side by side in
one run, each behaviour being one of a single part.

## Modules

| Module | Models | Its state and actions in the code |
|---|---|---|
| `ChatEngine` | `MainWindow`'s chat and Models tabs with `LlamaEngine` | one action per handler, named after it; `loadModel` is four steps (the GUI thread is inside it, the workers are not stopped); each generation has a program counter through `generateInThread`, one step per stretch between two accesses to shared state; `queue` is Qt's queue of posted signals |
| `ChatContract` | what the two promise the user, with no threads | the abstract specification `ChatEngine` implements |
| `ModelTrainer` | `ModelTrainer` and its workers | owner's calls, and the worker's stretches between mutex sections; a slot of a signal emitted under the mutex may ask for it and is `stuck` for ever |
| `FineTunePanel` | `FineTunePanel` | Start, Stop, a tick of each timer, the box's dismissal |
| `FineTuneEngine` | `FineTuneEngine` and its child | calls, slots, and what a child may do; `QProcess` by its contract; a slot of a run's end may start the next, also from within `stop` (`stopRestarted`); where it deletes the `QProcess` in the middle of its own report the model stops (`startInSlot`); each report is counted |
| `RAGSystem` | `RAGSystem`, its workers and its file | owner's calls, a save in two steps (truncated, written), a worker's appends and its final entry, crash and restart; `stuck` as in the trainer |
| `KnowledgeStore` | what `RAGSystem` promises of documents | the abstract specification of `RAGSystem` |
| `ApiManager` | `ApiManager` and `QSettings` | calls, limits that are replaced, timers (the one of the tests is started anew by each test, and a slot of a test's end may test again), `queryModel` before and after its event loop, restart with and without a save |
| `SessionManager` | `SessionManager`, its files and its autosave | calls by any thread; a save is truncate, write, emit and release; `autoSave` before and after the lock; exit, crash, restart.  A session is a name and a version |
| `SessionStore` | what `SessionManager` promises of sessions | its abstract specification |
| `ModelManager` | `ModelManager`, its directories and creations | calls; a refresh is a step per directory under the mutex; a creation copies, then refreshes; other programs damage or replace files; any signal emitted under the mutex may leave its caller `stuck` |
| `BackendClient` | the Python child and the wait for readiness | `startBackend`, `stopBackend` with the slots inside them, the child's own steps, the checks of waits that nest in each other's event loop, which any server's answer, also a late one, or the client's deletion ends |
| `BackendReplies` | requests and token streams | the server's segments, `readyRead`, `finished`, the tables of endpoint patterns in the order they are tried; a stream's unread lines are counted, since tokens of one stream are alike |
| `DownloadPanel` | the list of downloads | one action per slot, a timer per completion |
| `PluginSystem` | loaders and libraries | load, unload, destroy, with Qt's count of loads |
| `WebServer` | connections and requests | segments arrive, `onSocketReadyRead` takes what is there, the dispatch by the first two words of what was taken, whichever part of the request it is |
| `TextChunker` | `chunkText` | the loop over sentences, against definitions of what chunks must be; a chunk is the places of its sentences and the length of its string |
| `Services` | the six modules before this one and `FineTunePanel`, beside each other | which part moves is chosen at the start; `Services` states what each promises |
| `MC*` | small instances for TLC | |
| `*_proofs` | theorems | |

Variants with a defect (`...KeepingCount`, `...Unguarded` and the like) stand
before the action they differ from.  No specification uses them; they record
which plausible change of the code each property would notice.

Conventions.  A guard that the code turns into a refusal which changes nothing
is a guard of the action.  Handlers of the GUI thread are atomic, because the
event loop runs one at a time; a handler that runs an event loop of its own
(message box, `QEventLoop`, `waitForFinished`) is split there, or the slots that
may run inside are part of the action.  Where the C++ has no defined outcome
(a freed object, a data race, a null pointer) the model sets `fate` to
`"undefined"` and stops: properties speak of what comes before.  History
variables (`mishaps`, `stopAsked`, `stopped`, `verdict`, `announced`, `given`,
`garbled`, `nested`, `highest`, `mixed`, `damaged`, `hasty`, `newest`, `loose` and others) are written only,
and named as such where they are declared.  They say in which circumstances a property is claimed: the
circumstances are events of the code, and outside them the property is false of
the code.  Where that leaves a hazard uncovered, `PROJECT.json` says so in the hazard's note.

Bounds are CONSTANTS named `Max...`: numbers of questions, trainings, documents,
crashes, nested queries, switches.  They guard the action that would exceed
them and stand for no code.

## Runs

| Run | Instance | Shows |
|---|---|---|
| `chat_safety` | 3 questions, 2 pool threads, answers of one token, prompts of 0, 1 or too many tokens, a cache of 3 | 2.4 million states: `NoStuckChat`, `OneGenerationUnlessFault`, `LabelIsTrue`, `UndefinedOnlyAfterMishap`, and that `ChatContract` is implemented up to the first mishap |
| `chat_answers` | 2 questions, answers of 1 or 2 tokens, 1 thread | `AnswerIsWhole`, `StopIsFinal` and, under fairness, `AnswerEnds` |
| `trainer` | 3 trainings of 3 epochs | `FlagFollowsWorkers`, `ProgressIsTrue`, the stop's effect (`StopsWithinAnEpoch`), and that trainings end unless a slot waits for the mutex its caller holds |
| `engine` | 3 children, 2 output files, trainings of 1 epoch | flag and child agree (`FlagHasChild`), never two children (`OneChild`), what is told of a run agrees: a success once, and in the circumstances named one kind of end, under its own output path (`RunsAreToldTruly`), and a death is noticed (`DeathIsNoticed`) |
| `rag` | 2 documents of 0 or 2 chunks, 2 titles, 1 crash | the index has no orphans and holds the knowledge base (`IndexIsTrue`), an owner who waits for each document meets no race (`OnlyHasteIsUndefined`), accepted documents are stored unless a slot waits for itself, `KnowledgeStore` is implemented |
| `api` | a named provider that needs a key and the custom one, limits 0 and 1, each of which may replace the other, 2 nested queries, 2 switches | keys are neither lost nor laid open (`KeysAreSafe`), the highest limit set so far holds (`LimitIsKept`), tests end unless their timer is started anew for ever |
| `sessions` | 1 name and the autosave's own (one second), 2 threads, 3 versions, 1 exit or crash | 2.2 million states: no older version goes over a newer one (`NewestIsKept`), `SessionStore` is implemented up to the first mishap of the disk, calls return unless one waits for itself, autosaves arrive unless their timer is started anew for ever |
| `models` | a built-in and an added directory, 2 paths, 2 creations, 1 change by another program | `ListFollowsDisk`, `OutputStays`, and `CreationEnds` unless a slot waits for itself |
| `services` | 3 children, 2 nested waits of 2 checks, 2 streams, all endpoints, 2 download names with 3 items, 3 plugin files of 2 names, a client with a request cut anywhere, all texts of up to 4 sentences of up to 3 characters in chunks of 1, 3 and 5, 4 trainings of 4 ticks in the fine-tuning tab | `ChildIsKnown`, `RepliesAreTrue`, `TimersTakeTheirOwn`, `ListedIsResident`, `RequestsAreAnswered`, `ChunksAreRight`, `TimersAgree`, and that all of it ends (`EverythingEnds`) |
| `find_stop` | 1 question | violated: a Stop pressed before the thread resets `m_shouldStop` is lost |
| `find_panel_stop` | 2 trainings of 20 ticks | violated: a training that was stopped runs on and announces its model |
| `find_api_rate` | a provider of each kind, no nesting, no switches | violated: the rate limit, once reached, is never lifted |

Some properties are conjunctions of named parts, each explained where it is
defined; the theorems of a module prove its parts one by one.  Type invariants
are proved (`TypeCorrect`).

Why the bounds are enough.  Three questions are the least for a stale signal of
the first to let the third join the second; a cache of three cells is filled by
a prompt and two tokens, and makes every decode fail and succeed; two pool threads
let two generations run and a third wait.  A third training is needed for a worker to
see the flag of a training that is not the next one.  Two children suffice to
compete, a third to be started while the first is still unreaped and the second
known to be dead.  Two documents suffice to share a title and to race; two chunks to be
interrupted between them; none to be stored at once.  With a limit of one, two nested queries
exceed it.  Two limits, one of them zero, let a limit be lowered below what
is pending.  Two switches of the encryption add a layer and take the flag back, or keep it.
One name has a named and an unnamed session contend for `m_currentSession`;
two threads are the least for one to replace it under the other's autosave;
three versions let an edit fall between the two a save and an autosave hold; in one second
all autosaves of unnamed sessions meet in one file, where they can harm each other.
(The theorems about sessions hold for any of these, and any number of seconds.)  Two creations are the least
to race for an output and to have one scan a directory before the other's file
appears in it.  Three backend children cover a slot that restarts one within the stop of
another; two waits are the least to nest, and two checks let the first fail and the second
count.  Three downloads of a name outlive two timers.  Three plugin files give a
name that collides and one that does not.  Texts of four sentences whose lengths
reach over and under each chunk size fill a chunk exactly, by one too few and one too
many.  Every action of every module fires in a run that passes.

`CHECK_DEADLOCK FALSE` everywhere: a program whose user does nothing, or whose
window was closed, stops, and the bounds stop the others.

### Fairness

Each part names its fairness (`FairSpec`, or `Fairness` in the parts of
`Services`).  Properties of the form "must eventually" hold under these assumptions only, and
nothing is assumed of users, callers, networks, disks or children.

- `ChatEngine`: every worker step and every stage of a load is weakly fair (the
  system schedules threads).  Delivery of a signal is strongly fair: Qt delivers
  posted events in each pass of the loop, and a user who loads again and again
  suspends the loop without stopping it.
- `ModelTrainer`: each worker is weakly fair.  The pool is taken to have a
  thread for each.  A thread that waits for a mutex it holds itself (`stuck`) waits for
  ever: nothing is assumed to free it, and no one else gets the mutex.  The same holds
  of `RAGSystem`, `SessionManager` and `ModelManager`.
- `FineTunePanel` (in `Services`): each running timer is weakly fair: a nested event loop
  processes timers too, so that open boxes do not hold them up.
- `FineTuneEngine`: `onProcessFinished` is weakly fair: the event loop runs.
- `RAGSystem`: a save ends (weak), and a document's worker proceeds (strong: it
  competes with the owner for the mutex, which the owner may take again and
  again but not keep).
- `ApiManager`: the rate limit timers fire (weak).  The test's timer moves (weak): it
  comes nearer to firing or fires, but a test starts it anew, and when that happens again
  and again within its 10 seconds it never fires.
- `SessionManager`: a save goes on (weak: it is a thread inside a call); the
  autosave's timer and its wait for the mutex are strongly fair, since other
  threads may take the mutex again and again but not keep it.  The timer's two steps
  (the interval passes; it fires) are fair together only, since `enableAutoSave(true)` starts it anew:
  one started anew within every interval never fires.
- `ModelManager`: creations run (weak) and get the mutex (strong).
- `BackendClient`: bounded waits end (weak); the end of a child and the checks of each
  wait are delivered (strong: a blocking start or stop suspends the event loop for a
  while).  An outer wait goes on when those nested in it have returned.
- `BackendReplies`, `DownloadPanel`, `WebServer`: the event loop delivers what has
  arrived and fires what has expired (weak).

## What is proved

The theorems hold for every value of the constants that satisfies the modules'
`ConstantsAssumption`, which only types them: any number of questions, threads,
tokens, trainings, children, documents, titles, providers, keys, names or versions.  Proofs are by an inductive invariant
and one lemma per group of actions.

**Liveness.**  The temporal prover follows weak and strong fairness, but an
`ENABLED` is opaque to it.  Theorems of the form "must eventually" are therefore
stated with the one thing that is missing as a hypothesis, always of the same
kind: in a state with this guard, that step can be taken (`[]NoticeIsPossible`,
`[]SavesArePossible`, `[]TimerCanRun`, `[]ClientCanGoOn`, `[]StreamsCanGoOn`,
`[]ConnectionsCanGoOn`).  Each repeats the guard of the step it is about; it says nothing
of the code and is not listed as a property.  What the theorems then show is everything else: that
the guard stays true until the step is taken, through every interleaving, that
the step makes progress, and that the fairness assumed is enough.  Where a
property is for each stream, client or provider, its fairness is an operator of
one of them (`Delivers(c)`), and the theorem follows from a lemma about one.

**`ChatEngine_proofs`.** `TypeCorrect` is inductive as it stands.
`ChatNeverStuck` (`NoStuckChat`) needs types only: whatever clears the last
closing signal clears the flag.  `OneGenerationAtATime` is not inductive: that
nothing else runs when a question is accepted follows from what is queued, so
the invariant is `GenerationsApart`, which adds that the signals queued are the
last question's and that a closing one comes last; after it has been posted the
thread is gone, and when it is delivered the queue is empty.
`AnswersAreWhole` counts: tokens made are tokens shown plus signals queued, less
a closing one.  It rests on `Groundwork`, the conjunction of the former with
`Bookkeeping` (no thread runs a question not yet asked; while a load is in
progress there is no usable engine).  The steps of a worker are first
sorted by what they do to the counter and the queue (`WorkerCases`), so that each
preservation proof has six cases instead of fourteen.

In the same module `EngineStaysSettled` proves the inductive
`EngineSettled`; `DefinedUntilMishap` and `StopIsObeyed` follow from it.
`LabelTellsTheTruth` needs only that a load in progress has no usable engine.
`ContractIsKept` is the refinement: `AskStep`, `ShowStep`, `FinishStep` and
`ProduceStep` map the four steps of the contract, and everything else stutters;
that a token shown was produced, and that all of them were before a question is
closed, is `AnswerIsWhole`.

**`ModelTrainer_proofs`.** `TypeCorrect`, `FlagIsCleared`, `OneWorker`,
`Settles` (together `FlagAlwaysFollows`), `ProgressIsRight` and `StopIsObeyed`.  Types need `FlagHasWorker` and `InLoop` (an epoch
being trained is at most the last).  `Settles` rests on `Unsettled`: as long as
the timer runs, or the status is not "Completed", some worker is left to see to
it.  `ProgressIsRight` needs to know where the worker is (`Pace`): the progress is
an epoch behind until it is published, and a worker that leaves the loop without
a Stop is past the last epoch.

**`FineTuneEngine_proofs`.** `TypeCorrect`, `FlagAlwaysHasChild`,
`OneChildAtATime`, `RunsStayToldTruly` and `DeathsAreNoticed`.  All but the last rest on `Points`: `m_process` points
to the child of the last accepted call and all older children are reaped, because
`startFineTuning` deletes the old `QProcess`.  Reports are counted one by one, since a
failure may be told by `onProcessError` and again by `onProcessFinished` or by the start
itself; `RunsStayToldTruly` bounds them: a success at most once whatever happens, and,
as long as no circumstance it names has come up, one kind of end for a run, a failure by two signals
at most.  A child that is dead stays dead until it is noticed (`DeathsAreNoticed`).

**`SessionManager_proofs`.** `TypeCorrect`; `NothingOverwrittenByOlder`, by the
invariant `InOrder`, which holds while there is no mishap: every file bears the
name of its session, a named current session is at least as new as what was
stored under its name, and what is saved or about to be saved is the current session
under its own name.  `StoreIsKept` is the refinement of `SessionStore`: truncating
a file is a stutter, writing it is `Put`, and a crash between the two is the end
of the promise; it needs `Shape`, in particular that in the destructor no
other thread is in a call.  `CallsAlwaysReturn` and `AutosavesArrive` follow a save
through its steps to its return: other threads may keep it from the mutex
again and again, but not for ever, which is what strong fairness is for.  Both end
where a slot asks for the mutex its caller holds: that call never returns, nor does any
after it, and the theorems say nothing more.

**`RAGSystem_proofs`.** `TypeCorrect`, `NothingOrphaned`, `IndexFollows` (together
`IndexStaysTrue`), and `KnowledgeKept`: the refinement of `KnowledgeStore`, by `FileIsGood`, which says
that up to the first failure the file holds what was saved last.
`OnlyHasteIsDangerous` is about the chunks appended without the mutex: as long as
the owner was not hasty, one document is in process at most, and none when the
program leaves (`AloneUnlessHasty`), so that an append has nobody to meet; saves and
crashes need no care.

**`ModelManager_proofs`.** `TypeCorrect`, `ListAlwaysFollows` and `OutputsAlwaysStay`.
`ListFollowsDisk` speaks of states in which the mutex is free, and says nothing of
how they are reached.  `ListedAsScanned` says what is true in the middle of a
refresh, too: the list is right about the directories scanned and has nothing of
the others, except for what a creation *other than the one refreshing* has still
to refresh (`AwaitedFromOthers`), and one that refreshes has copied
(`Refreshing`).  `OutputStays` is inductive with the types (`Placed`): a creation
copies to a free path only, and a copied output is not free.

**`Services_proofs`.** `PartsMove` splits a step into the parts; each part then has
an invariant of its own, and `TypeCorrect` takes them together.

- `ChildStaysKnown`: inside start and stop, too, the flag agrees with what was
  told (`Told`), and a child that runs while a stop ends has a mishap behind it
  (`Explained`).
- `RepliesStayTrue`: a stream's reports are those of its last line, once read, and
  of its end (`Kept`); all streams but the one asked for last are mute unless two
  were mixed (`Mute`), so that what is read is appended to its own text.
  `RouteIsRight` goes through the endpoints.
- `TimersAlwaysTakeTheirOwn`, an action property: a name that is not loose has one
  timer at most, for the item it has now (`TimersFit`).
- `ListedStaysResident`: a file whose loader was never replaced is loaded at most
  once (`LoadersFit`).
- `RequestsStayAnswered`: a request acts with its own data at most once, and calls the
  backend at most once unless it is torn within its headers or its body; there the rest is
  read as a request of its own, which can be any (`AnswersFit`, `PiecesAnswered`).
- `ChunksStayRight`: what makes a list of chunks right (`Packed`) is kept when a
  sentence is skipped, begins a chunk or joins the last one; three lemmas say so
  for any list, text and size.
- `TimersAlwaysAgree`: the three parts of `TimersAgree` are inductive together once
  the open boxes are bounded by the models announced (`BoxPerModel`).
- `AnswersAlwaysArrive`: `ClientReturns` follows a call through the stages it can be
  in (`CallGoesOn`); `BackendDeathIsNoticed` adds that a client in its destructor
  does nothing but stop its backend (`QuittingGoesOn`), and that after it there is
  no child (`GoneStays`).  `StreamsAreReported`: of a closed stream nothing arrives any
  more (`ClosedGoesOn`).  `ConnectionsAreClosed`: a socket that was read and is still open
  was read within the first word (`ReadsFit`), so that the rest of it is
  answered (`WholeAnswered`).

**`ApiManager_proofs`.** `TypeCorrect`, then two separate invariants.  `KeyInv`,
for `KeysAreKept` and `KeysAreEncrypted` (together `KeysStaySafe`): a provider with a name that the user
configured has in QSettings exactly the configuration that is in memory
(`GroupIsConfig`), and a key that is not garbled has one layer iff encryption is
on (`Intact`).  Without the first nothing could be said of a restart; `Bystander`
is the lemma that a save leaves every other provider's row alone.  `LimitInv`,
for `LimitHolds` (the limit meant is the highest the provider was given so
far): a query is counted only when it returns, so the sum of counted
and pending requests is kept by every return, and a new query is admitted by the
count alone, which suffices if the provider has none pending; how the pending
ones change with the stack is `PendingAppend` and `PendingFront`.  `TestsConclude`: no
test is listed without the timer that ends it (`TestsTimed`), unless the timer is started
anew for ever.

What is only model-checked: the liveness
that counts something down, `AnswerEnds` (tokens), `TrainingEnds` of trainer and
tab (epochs, ticks), `AcceptedIsStored` (chunks), `CreationEnds` (directories to
refresh), and of `EverythingEnds` the checks of a new backend and the removal
of completed downloads.  Each needs an induction whose hypothesis is a temporal
formula, which no installed prover can do.  Every other invariant and every action property
of a passing run, and every refinement, is a theorem.  The proof system cannot reason about sums or filters
over sequences, which are recursions over data: this is why a stream's unread
lines are a count, and a chunk the places of its sentences with the length of
its string; that the length is the sum of theirs is how `Joined` makes it, and
is not stated.

## Where code and documents disagree

Checked by a run that TLC finds violated, and listed in `PROJECT.json`:

- Stop (`src/README.md:84`): `generateInThread` resets `m_shouldStop` when it
  starts (`llama_engine.cpp:112`), so that a Stop pressed before is lost.
- "Training stopped by user" (`finetune_panel.cpp:397`-`:398`): the timer of the training
  runs on, and the stopped training completes and announces its model.
- "Reset counter after 1 minute" (`api_manager.cpp:651`): `onRateLimitReset` asks
  `sender()`, which is null where it is called from (`:852`).

Seen while reading, with no run of their own:

- One response at a time (`mainwindow.cpp:527`): an error in the loop emits `error`
  and then `responseComplete` (`llama_engine.cpp:199`, `:208`), and the second lets
  a third question join the running second one.
- Loading (`src/docs/features/README.md:89`, `:114`): `loadModel` frees the engine
  without waiting for a generation (`llama_engine.cpp:34`).
- Unload (`mainwindow.cpp:653`) and Clear (`:604`) change the display only; the model
  and the KV cache stay (the model has this, and `LabelIsTrue` is stated
  accordingly).
- A prompt longer than a batch aborts the process (`decodeOversizedPrompt`).
- The temperature slider reaches nothing.
- A stopped training of the trainer ends as "Completed"; its worker stops the
  timer of the next training (`model_trainer.cpp:213`-`:216`).
- A start that times out returns false while the child may still start
  (`finetune_engine.cpp:199`); deleting a process reports its end under the next
  configuration (`:154`, `:183`), to which the circumstances of `RunsAreToldTruly` refer.
  A failure may be told twice (`:316`, then `:292` or `:200`), and
  a slot that starts the next run from within `stop` has its flag cleared (`:221`).
- A document that replaces another of the same title leaves the old chunks in the
  index (`rag_system.cpp:177`); the destructor overwrites a file that could not be
  read (`:70`).
- Switching encryption off leaves the keys encrypted (`api_manager.cpp:903`),
  against the comment at `:905`; a removed provider returns with the next start (`:993`); an answer
  never ends a connection test, because `sender()` is the network manager (`:796`); each
  test starts the timer of all anew (`:274`), and one that a slot starts while the
  timeout goes through the list (`:841`) is cleared without a report.
- Sessions: the autosave reads `m_currentSession` without the mutex
  (`session_manager.cpp:147`), so that a session set meanwhile is stored under the
  other's name; `saveSession` does not make the session current (`:39`), so that the
  next autosave puts the older current one over it; an unnamed session gets a new
  file at each interval.  `SessionManager`, `ModelManager`, `ModelTrainer`, `RAGSystem` and
  `PluginSystem` emit signals under a `QMutex` that is not recursive (`session_manager.cpp:80`,
  `model_manager.cpp:74`, `model_trainer.cpp:44`, `rag_system.cpp:92`): a slot that calls
  back waits for itself.
- Models: `setModelDirectory` does not scan, `addModelDirectory` touches the
  directories without the mutex (`model_manager.cpp:162`); a restore cannot replace
  a damaged model, since `QFile::copy` does not overwrite (`:476`).
- Backend client: a slot of `backendStopped` that starts the backend again runs
  inside `stopBackend`, whose end clears the flag of the new child
  (`backend_client.cpp:153`); a crash is told as `backendError` and `backendStopped`
  (`:444`); a stream that closes without `[DONE]` is not reported at all
  (`:357`), one that breaks after it twice; a health check still under way counts as
  ready (`:178`), and so does a late reply to an earlier one, or any other server's (`:181`).
- Downloads: the removal timer has no context object and outlives the panel
  (`downloadpanel.cpp:186`).
- Plugins: a second file of the same base name takes the loader's place
  (`plugin_system.cpp:59`), and the destructor deletes loaders without unloading.
- Web server: a request in two segments is answered twice or without its data
  (`web_server.cpp:93`), and the second word of a segment that is a body
  is taken for a path (`:109`); `startServer` on a running server ignores the port;
  `Content-Length` counts UTF-16 units.

## Not modelled

Display text, layout, logging, progress texts, cost and token statistics, request bodies and
headers, what embeddings and similarity compute, and the contents of
answers: no property here is about them.

- llama.cpp (`src/app/lib/llama.cpp`, some 295000 of the repository's lines) is vendored
  and modelled only as the engine uses it: cache, batches and errors.  It is not
  this program's logic, which is why the modelled lines are a small share of all lines.
- The prompt architect rebuilds its preview from scratch in every handler, and its
  templates, saving and loading are stubs; the model card has three flags.  No
  handler of theirs can meet a state it does not make itself.
- Hardware detection and the backend stubs keep no state.  The older windows are
  superseded and not built.
- Of modelled parts: the temperature slider and other values nothing reads
  (`m_defaultModel`, the autosave's interval, the trainer's configuration while it
  runs), the file dialogs, the per-epoch loss, usage statistics, files of the
  knowledge base other than the default one.
- Slots that call back into their class are modelled where this file says so, and not
  everywhere: the ones of `ApiManager`'s test timeout start tests and do nothing else, and
  `PluginSystem`'s emission under its mutex is left out.
- Reads torn by an unlocked write of `m_currentSession` may end the program; that is
  among the crashes of the model.

Beyond these the program has nothing left that keeps state.  What could be added is
depth: the knowledge base with several files, and abstract specifications of the
parts that have none.
