---------------------------- MODULE ModelTrainer ----------------------------
(***************************************************************************)
(* ModelTrainer: a training runs processTraining on a thread of the global *)
(* pool, through the epochs 0 .. LastEpoch, while the owner's thread may   *)
(* stop it, start another one or destroy the trainer.  m_mutex covers each *)
(* access to the shared members but one: the worker reads m_isTraining     *)
(* without it.  Nobody waits for a worker, and a worker does not know      *)
(* which training it belongs to.  Some signals are emitted with m_mutex    *)
(* held, which is not recursive: a slot connected directly that calls the  *)
(* trainer back, even for its progress, waits for itself for ever.         *)
(*                                                                         *)
(* Trainings are numbered in the order they were started.                  *)
(***************************************************************************)
EXTENDS Naturals, FiniteSets

CONSTANTS
  MaxRuns,       \* bound: how many trainings are started
  LastEpoch      \* the last epoch, 100 in the code

ASSUME ConstantsAssumption ==
  /\ MaxRuns \in Nat /\ LastEpoch \in Nat

VARIABLES
  isTraining,        \* m_isTraining
  trainingProgress,  \* m_trainingProgress
  trainingStatus,    \* m_trainingStatus
  timerActive,       \* m_progressTimer runs
  alive,             \* the object exists
  stuck,             \* who waits for ever for the m_mutex it holds, if one does
  fate,              \* "running", or "undefined" once a worker outlives it
  runs,              \* trainings started so far
  pc,                \* where each training's worker is in processTraining
  epoch,             \* its loop variable i
  stopped            \* history: trainings stopTraining was called for

vars == <<isTraining, trainingProgress, trainingStatus, timerActive, alive,
          stuck, fate, runs, pc, epoch, stopped>>

-----------------------------------------------------------------------------
Runs == 1 .. MaxRuns
Epochs == 0 .. LastEpoch

\* check:  about to read m_isTraining, or waiting for a thread of the pool
\* update: read it as true, about to publish the epoch
\* train:  in the epoch: the simulated training time and the metrics
\* finish: left the loop, about to clear m_isTraining
\* report: about to stop the timer and emit trainingFinished
WorkerPcs == {"none", "check", "update", "train", "finish", "report", "done"}

\* The worker still has its turn at m_isTraining.
Working(r) == pc[r] \in {"check", "update", "train", "finish"}
InProcess(r) == Working(r) \/ pc[r] = "report"

Init ==
  /\ isTraining = FALSE /\ trainingProgress = 0 /\ trainingStatus = "Ready"
  /\ timerActive = FALSE /\ alive = TRUE /\ stuck = "nobody" /\ fate = "running"
  /\ runs = 0 /\ pc = [r \in Runs |-> "none"] /\ epoch = [r \in Runs |-> 0]
  /\ stopped = {}

-----------------------------------------------------------------------------
MutexFree == stuck = "nobody"

\* A signal emitted with m_mutex held by `who': the slots return, or one of
\* them calls the trainer back.
EmitLocked(who) == stuck' \in {stuck, who}

(***************************************************************************)
(* The owner's thread.                                                     *)
(***************************************************************************)

\* Variant with a defect: the progress of the last training is left there.
startTrainingKeepingProgress ==
  /\ alive /\ MutexFree /\ ~isTraining /\ runs < MaxRuns
  /\ isTraining' = TRUE /\ trainingStatus' = "Starting" /\ timerActive' = TRUE
  /\ runs' = runs + 1 /\ pc' = [pc EXCEPT ![runs + 1] = "check"]
  /\ EmitLocked("owner")
  /\ UNCHANGED <<trainingProgress, alive, fate, epoch, stopped>>

\* trainingStarted is emitted last, the worker on its way already.
startTraining ==
  /\ alive /\ MutexFree /\ ~isTraining /\ runs < MaxRuns
  /\ isTraining' = TRUE /\ trainingProgress' = 0
  /\ trainingStatus' = "Starting" /\ timerActive' = TRUE /\ runs' = runs + 1
  /\ pc' = [pc EXCEPT ![runs + 1] = "check"]
  /\ EmitLocked("owner")
  /\ UNCHANGED <<alive, fate, epoch, stopped>>

\* A call refused (a training under way, an invalid file) changes nothing but
\* emits trainingError.
refuse ==
  /\ alive /\ MutexFree
  /\ EmitLocked("owner")
  /\ UNCHANGED <<isTraining, trainingProgress, trainingStatus, timerActive,
                 alive, fate, runs, pc, epoch, stopped>>

\* What stopTraining and cleanupTraining do; "Stopping" is overwritten under
\* the same lock.
stopAndCleanup ==
  /\ isTraining' = FALSE /\ trainingProgress' = 0
  /\ trainingStatus' = "Stopped" /\ timerActive' = FALSE

stopTraining ==
  /\ alive /\ MutexFree /\ isTraining /\ stopAndCleanup
  /\ stopped' = stopped \union {runs}
  /\ UNCHANGED <<alive, stuck, fate, runs, pc, epoch>>

\* ~ModelTrainer reads the flag without the mutex; a training under way is
\* stopped, its worker not waited for.
destroy ==
  /\ alive /\ stuck # "owner" /\ (isTraining => MutexFree)
  /\ alive' = FALSE
  /\ IF isTraining
       THEN stopAndCleanup /\ stopped' = stopped \union {runs}
       ELSE UNCHANGED <<isTraining, trainingProgress, trainingStatus,
                        timerActive, stopped>>
  /\ UNCHANGED <<stuck, fate, runs, pc, epoch>>

-----------------------------------------------------------------------------
(***************************************************************************)
(* processTraining, on a thread of the pool.                               *)
(***************************************************************************)

Executing(r, at) == alive /\ pc[r] = at
Goto(r, to) == pc' = [pc EXCEPT ![r] = to]

\* Variant with a defect: the flag is not looked at, the loop only ends with
\* the last epoch.
checkFlagIgnored(r) ==
  /\ Executing(r, "check")
  /\ Goto(r, IF epoch[r] <= LastEpoch THEN "update" ELSE "finish")
  /\ UNCHANGED <<isTraining, trainingProgress, trainingStatus, timerActive,
                 alive, stuck, fate, runs, epoch, stopped>>

\* The loop condition and the test of m_isTraining, which takes no lock.
checkFlag(r) ==
  /\ Executing(r, "check")
  /\ Goto(r, IF epoch[r] <= LastEpoch /\ isTraining THEN "update"
                                                    ELSE "finish")
  /\ UNCHANGED <<isTraining, trainingProgress, trainingStatus, timerActive,
                 alive, stuck, fate, runs, epoch, stopped>>

publishEpoch(r) ==
  /\ Executing(r, "update") /\ MutexFree
  /\ trainingProgress' = epoch[r] /\ trainingStatus' = "Training"
  /\ Goto(r, "train")
  /\ UNCHANGED <<isTraining, timerActive, alive, stuck, fate, runs, epoch,
                 stopped>>

\* The 100 ms of an epoch and updateMetrics, which says `epoch[r]' too.
trainEpoch(r) ==
  /\ Executing(r, "train") /\ MutexFree
  /\ epoch' = [epoch EXCEPT ![r] = @ + 1]
  /\ Goto(r, "check")
  /\ UNCHANGED <<isTraining, trainingProgress, trainingStatus, timerActive,
                 alive, stuck, fate, runs, stopped>>

\* ... whose metricsUpdated, emitted with m_mutex held, may be the worker's
\* last statement.
metricsCallBack(r) ==
  /\ Executing(r, "train") /\ MutexFree
  /\ stuck' = "worker"
  /\ UNCHANGED <<isTraining, trainingProgress, trainingStatus, timerActive,
                 alive, fate, runs, pc, epoch, stopped>>

\* Variant with a defect: the flag is left set.
finishTrainingKeepingFlag(r) ==
  /\ Executing(r, "finish") /\ MutexFree
  /\ trainingStatus' = "Completed"
  /\ Goto(r, "report")
  /\ UNCHANGED <<isTraining, trainingProgress, timerActive, alive, stuck, fate,
                 runs, epoch, stopped>>

\* Whichever training the flag belongs to by now.
finishTraining(r) ==
  /\ Executing(r, "finish") /\ MutexFree
  /\ isTraining' = FALSE /\ trainingStatus' = "Completed"
  /\ Goto(r, "report")
  /\ UNCHANGED <<trainingProgress, timerActive, alive, stuck, fate, runs,
                 epoch, stopped>>

\* The timer is stopped from a thread that does not own it: no further
\* timeout is seen.  trainingFinished(true) is emitted in any case, and with
\* no mutex held.
reportFinished(r) ==
  /\ Executing(r, "report")
  /\ timerActive' = FALSE
  /\ Goto(r, "done")
  /\ UNCHANGED <<isTraining, trainingProgress, trainingStatus, alive, stuck,
                 fate, runs, epoch, stopped>>

\* The trainer is gone and the worker is about to use it.
outliveTrainer(r) ==
  /\ ~alive /\ InProcess(r) /\ fate = "running"
  /\ fate' = "undefined"
  /\ UNCHANGED <<isTraining, trainingProgress, trainingStatus, timerActive,
                 alive, stuck, runs, pc, epoch, stopped>>

-----------------------------------------------------------------------------
Owner == startTraining \/ refuse \/ stopTraining \/ destroy

processTraining(r) ==
  \/ checkFlag(r)
  \/ publishEpoch(r)
  \/ trainEpoch(r)
  \/ metricsCallBack(r)
  \/ finishTraining(r)
  \/ reportFinished(r)
  \/ outliveTrainer(r)

Next == Owner \/ \E r \in Runs : processTraining(r)

Spec == Init /\ [][Next]_vars

\* The pool runs every task it was given; the owner need not do anything.
FairSpec == Spec /\ \A r \in Runs : WF_vars(processTraining(r))

-----------------------------------------------------------------------------
(***************************************************************************)
(* Properties.                                                             *)
(***************************************************************************)

\* Every variable has its type.
TypeOK ==
  /\ isTraining \in BOOLEAN
  /\ trainingProgress \in Epochs
  /\ trainingStatus \in {"Ready", "Starting", "Training", "Stopped",
                         "Completed"}
  /\ timerActive \in BOOLEAN
  /\ alive \in BOOLEAN
  /\ stuck \in {"nobody", "owner", "worker"}
  /\ fate \in {"running", "undefined"}
  /\ runs \in 0 .. MaxRuns
  /\ pc \in [Runs -> WorkerPcs]
  /\ epoch \in [Runs -> 0 .. LastEpoch + 1]
  /\ stopped \subseteq Runs

\* The flag never outlives the training: while startTraining is refused, the
\* worker of the last training has still to clear it, and will unless somebody
\* waits for himself.  Older workers, which clear it too, cannot leave it set.
FlagHasWorker == isTraining => runs > 0 /\ Working(runs)

\* As long as stopTraining was not called, one worker is in the loop at a
\* time, and it is the flagged one.
OneWorkerUnlessStopped ==
  stopped = {} => \A r \in Runs : Working(r) => r = runs /\ isTraining

\* The progress shown is that of the worker: it starts at 0, never goes back
\* and ends at the last epoch, as long as stopTraining was not called.
ProgressIsTrue ==
  stopped = {} /\ runs > 0 =>
    /\ Working(runs) => trainingProgress \in {epoch[runs], epoch[runs] - 1}
    /\ ~Working(runs) => trainingProgress = LastEpoch

\* Once no worker is left the trainer can be used again, and says so.
SettlesCompleted ==
  (\A r \in Runs : ~InProcess(r)) /\ runs > 0 /\ alive =>
    ~isTraining /\ trainingStatus = "Completed" /\ ~timerActive

\* The flag and the workers agree, while there are any and after.
FlagFollowsWorkers == FlagHasWorker /\ SettlesCompleted

KeepsStopped ==
  \A r \in Runs :
    r = runs /\ r \in stopped /\ pc[r] \in {"check", "finish"}
    => pc'[r] # "update"

\* A training stopped is over within one epoch: its worker enters at most
\* the epoch it was about to, unless another training was started meanwhile.
StopsWithinAnEpoch == [][KeepsStopped]_vars

\* Every training ends: whatever the owner calls and whenever, the flag is
\* cleared, unless the trainer was destroyed or a slot of a signal emitted
\* under m_mutex called it back.  That is the only way to lose the mutex.
TrainingEnds == isTraining ~> (~isTraining \/ ~alive \/ ~MutexFree)

=============================================================================
