------------------------- MODULE ModelTrainer_proofs -------------------------
(***************************************************************************)
(* Theorems about ModelTrainer, for any number of trainings and epochs.    *)
(***************************************************************************)
EXTENDS ModelTrainer, TLAPS

\* At most the mutex is lost: what a refused call does, and metricsUpdated.
callsBack ==
  /\ stuck' \in {stuck, "owner", "worker"}
  /\ UNCHANGED <<isTraining, trainingProgress, trainingStatus, timerActive,
                 alive, fate, runs, pc, epoch, stopped>>

\* The steps, one case each, for every proof that goes through them.
LEMMA Steps ==
  ASSUME [Next]_vars
  PROVE  \/ startTraining \/ stopTraining \/ destroy
         \/ \E r \in Runs : \/ checkFlag(r) \/ publishEpoch(r)
                            \/ trainEpoch(r) \/ finishTraining(r)
                            \/ reportFinished(r) \/ outliveTrainer(r)
         \/ callsBack
BY DEF Next, Owner, processTraining, callsBack, refuse, EmitLocked, metricsCallBack, vars

\* The loop variable stays within the epochs while the worker is in one.
InLoop == \A r \in Runs : pc[r] \in {"update", "train"} => epoch[r] <= LastEpoch

\* What every other proof starts from.
Groundwork == TypeOK /\ InLoop /\ FlagHasWorker

LEMMA TypeStep ==
  ASSUME Groundwork, [Next]_vars
  PROVE  TypeOK' /\ InLoop'
<1>0. TypeOK /\ InLoop /\ (isTraining => runs \in Runs)
  BY ConstantsAssumption DEF Groundwork, FlagHasWorker, TypeOK, Runs
<1> USE <1>0, ConstantsAssumption DEF TypeOK, InLoop, Runs, Epochs, WorkerPcs
<1>1. CASE startTraining
  BY <1>1 DEF startTraining, EmitLocked
<1>a. ASSUME isTraining
      PROVE  stopped \union {runs} \subseteq Runs
  BY <1>0, <1>a
<1>2. CASE stopTraining
  <2>1. stopped' \subseteq Runs /\ trainingProgress' \in Epochs
    BY <1>2, <1>a DEF stopTraining, stopAndCleanup
  <2> QED
    BY <1>2, <2>1 DEF stopTraining, stopAndCleanup
<1>3. CASE destroy
  <2>1. CASE isTraining
    <3>1. stopAndCleanup /\ stopped' = stopped \union {runs} /\ ~alive'
      BY <1>3, <2>1 DEF destroy
    <3>2. UNCHANGED <<stuck, fate, runs, pc, epoch>>
      BY <1>3 DEF destroy
    <3>3. stopped' \subseteq Runs /\ trainingProgress' \in Epochs
      BY <1>a, <2>1, <3>1 DEF stopAndCleanup
    <3>4. alive' \in BOOLEAN
      BY <1>3 DEF destroy
    <3> QED
      BY <3>1, <3>2, <3>3, <3>4 DEF stopAndCleanup
  <2>2. CASE ~isTraining
    BY <1>3, <2>2 DEF destroy
  <2> QED
    BY <2>1, <2>2
<1>4. ASSUME NEW r \in Runs, checkFlag(r)
      PROVE  TypeOK' /\ InLoop'
  BY <1>4 DEF checkFlag, Executing, Goto
<1>5. ASSUME NEW r \in Runs, publishEpoch(r)
      PROVE  TypeOK' /\ InLoop'
  BY <1>5 DEF publishEpoch, Executing, Goto
<1>6. ASSUME NEW r \in Runs, trainEpoch(r)
      PROVE  TypeOK' /\ InLoop'
  BY <1>6 DEF trainEpoch, Executing, Goto
<1>7. ASSUME NEW r \in Runs, finishTraining(r)
      PROVE  TypeOK' /\ InLoop'
  BY <1>7 DEF finishTraining, Executing, Goto
<1>8. ASSUME NEW r \in Runs, reportFinished(r)
      PROVE  TypeOK' /\ InLoop'
  BY <1>8 DEF reportFinished, Executing, Goto
<1>9. ASSUME NEW r \in Runs, outliveTrainer(r)
      PROVE  TypeOK' /\ InLoop'
  BY <1>9 DEF outliveTrainer
<1>10. CASE callsBack
  BY <1>10 DEF callsBack
<1> QED
  BY Steps, <1>1, <1>2, <1>3, <1>4, <1>5, <1>6, <1>7, <1>8, <1>9, <1>10

-----------------------------------------------------------------------------
(***************************************************************************)
(* The flag never outlives the training.  Only startTraining sets it, and  *)
(* gives it a fresh worker; of that worker's steps only finishTraining     *)
(* takes it out of the process, and that step clears the flag.             *)
(***************************************************************************)

LEMMA FlagStep ==
  ASSUME Groundwork, [Next]_vars
  PROVE  FlagHasWorker'
<1>0. TypeOK /\ FlagHasWorker /\ (isTraining => runs \in Runs)
  BY ConstantsAssumption DEF Groundwork, FlagHasWorker, TypeOK, Runs
<1> USE <1>0, ConstantsAssumption DEF FlagHasWorker, Working
<1>1. CASE startTraining
  BY <1>1 DEF startTraining, TypeOK, Runs
<1>2. CASE stopTraining \/ destroy
  BY <1>2 DEF stopTraining, destroy, stopAndCleanup
<1>3. ASSUME NEW r \in Runs, checkFlag(r) \/ publishEpoch(r) \/ trainEpoch(r)
      PROVE  FlagHasWorker'
  BY <1>3 DEF checkFlag, publishEpoch, trainEpoch, Executing, Goto, TypeOK
<1>4. ASSUME NEW r \in Runs, finishTraining(r)
      PROVE  FlagHasWorker'
  BY <1>4 DEF finishTraining
<1>5. ASSUME NEW r \in Runs, reportFinished(r) \/ outliveTrainer(r)
      PROVE  FlagHasWorker'
  BY <1>5 DEF reportFinished, outliveTrainer, Executing, Goto, TypeOK
<1>6. CASE callsBack
  BY <1>6 DEF callsBack
<1> QED
  BY Steps, <1>1, <1>2, <1>3, <1>4, <1>5, <1>6

LEMMA GroundworkHolds == Spec => []Groundwork
<1>1. Init => Groundwork
  <2> SUFFICES ASSUME Init
               PROVE  Groundwork
    OBVIOUS
  <2>1. TypeOK
    <3>1. 0 \in Epochs /\ 0 \in 0 .. MaxRuns /\ 0 \in 0 .. LastEpoch + 1
      BY ConstantsAssumption DEF Epochs
    <3>2. pc \in [Runs -> WorkerPcs] /\ epoch \in [Runs -> 0 .. LastEpoch + 1]
      BY <3>1 DEF Init, WorkerPcs
    <3>3. /\ isTraining \in BOOLEAN /\ timerActive \in BOOLEAN
          /\ alive \in BOOLEAN
      BY DEF Init
    <3>4. /\ trainingProgress \in Epochs /\ runs \in 0 .. MaxRuns
          /\ trainingStatus \in {"Ready", "Starting", "Training", "Stopped",
                                "Completed"}
          /\ fate \in {"running", "undefined"} /\ stopped \subseteq Runs
          /\ stuck \in {"nobody", "owner", "worker"}
      BY <3>1 DEF Init
    <3> QED
      BY <3>2, <3>3, <3>4 DEF TypeOK
  <2>2. InLoop /\ FlagHasWorker
    BY DEF Init, InLoop, FlagHasWorker
  <2> QED
    BY <2>1, <2>2 DEF Groundwork
<1>2. Groundwork /\ [Next]_vars => Groundwork'
  BY TypeStep, FlagStep DEF Groundwork
<1> QED
  BY <1>1, <1>2, PTL DEF Spec

\* Every reachable state of the trainer is well typed: in particular no
\* worker runs past its last epoch, however the owner's calls interleave.
THEOREM TypeCorrect == Spec => []TypeOK
BY GroundworkHolds, PTL DEF Groundwork

\* While startTraining is refused, the last training's worker has still to
\* clear the flag: the trainer cannot get stuck refusing.
THEOREM FlagIsCleared == Spec => []FlagHasWorker
BY GroundworkHolds, PTL DEF Groundwork

-----------------------------------------------------------------------------
(***************************************************************************)
(* Without stopTraining there is one worker.                               *)
(***************************************************************************)

LEMMA OneWorkerStep ==
  ASSUME Groundwork, OneWorkerUnlessStopped, [Next]_vars
  PROVE  OneWorkerUnlessStopped'
<1>0. TypeOK /\ FlagHasWorker /\ (isTraining => runs \in Runs)
  BY ConstantsAssumption DEF Groundwork, FlagHasWorker, TypeOK, Runs
<1> SUFFICES ASSUME stopped' = {}, NEW q \in Runs, Working(q)'
             PROVE  q = runs' /\ isTraining'
  BY DEF OneWorkerUnlessStopped
<1>a. ASSUME stopped = {}, Working(q)
      PROVE  q = runs /\ isTraining
  BY <1>a DEF OneWorkerUnlessStopped
<1> USE <1>0, <1>a, ConstantsAssumption DEF Working
<1>1. CASE startTraining
  BY <1>1 DEF startTraining, TypeOK, Runs
<1>2. CASE stopTraining
  BY <1>2 DEF stopTraining
<1>3. CASE destroy
  BY <1>3 DEF destroy
<1>4. ASSUME NEW r \in Runs, checkFlag(r) \/ publishEpoch(r) \/ trainEpoch(r)
      PROVE  q = runs' /\ isTraining'
  BY <1>4 DEF checkFlag, publishEpoch, trainEpoch, Executing, Goto, TypeOK
<1>5. ASSUME NEW r \in Runs, finishTraining(r)
      PROVE  q = runs' /\ isTraining'
  <2>1. Working(r) /\ stopped = {} /\ q # r /\ Working(q)
    BY <1>5 DEF finishTraining, Executing, Goto, TypeOK
  <2>2. r = runs
    BY <1>5, <2>1 DEF OneWorkerUnlessStopped
  <2> QED
    BY <2>1, <2>2
<1>6. ASSUME NEW r \in Runs, reportFinished(r) \/ outliveTrainer(r)
      PROVE  q = runs' /\ isTraining'
  BY <1>6 DEF reportFinished, outliveTrainer, Executing, Goto, TypeOK
<1>7. CASE callsBack
  BY <1>7 DEF callsBack
<1> QED
  BY Steps, <1>1, <1>2, <1>3, <1>4, <1>5, <1>6, <1>7

\* Only stopTraining (and the destructor, through it) makes trainings
\* overlap: as long as it was not called, one worker is in the loop and the
\* flag is its.
THEOREM OneWorker == Spec => []OneWorkerUnlessStopped
<1>1. Init => OneWorkerUnlessStopped
  BY DEF Init, OneWorkerUnlessStopped, Working
<1>2. Groundwork /\ OneWorkerUnlessStopped /\ [Next]_vars
      => OneWorkerUnlessStopped'
  BY OneWorkerStep
<1> QED
  BY <1>1, <1>2, GroundworkHolds, PTL DEF Spec

-----------------------------------------------------------------------------
(***************************************************************************)
(* What is left when the last worker is gone.                              *)
(***************************************************************************)

\* A status other than "Completed" and a running timer are each somebody's
\* to change: the inductive form of SettlesCompleted.
Unsettled ==
  alive =>
    /\ runs > 0 /\ trainingStatus # "Completed" => \E r \in Runs : Working(r)
    /\ timerActive => \E r \in Runs : InProcess(r)

LEMMA UnsettledStep ==
  ASSUME Groundwork, Unsettled, [Next]_vars
  PROVE  Unsettled'
<1>0. TypeOK /\ FlagHasWorker /\ (isTraining => runs \in Runs)
  BY ConstantsAssumption DEF Groundwork, FlagHasWorker, TypeOK, Runs
<1> USE <1>0, ConstantsAssumption DEF Unsettled
<1>1. CASE startTraining
  <2>1. runs + 1 \in Runs /\ pc'[runs + 1] = "check"
    BY <1>1 DEF startTraining, TypeOK, Runs
  <2> QED
    BY <2>1 DEF Working, InProcess
<1>2. CASE stopTraining
  BY <1>2 DEF stopTraining, stopAndCleanup, FlagHasWorker, Working
<1>3. CASE destroy
  BY <1>3 DEF destroy
<1>4. ASSUME NEW r \in Runs, checkFlag(r) \/ publishEpoch(r) \/ trainEpoch(r)
      PROVE  Unsettled'
  <2>1. pc'[r] \in {"check", "update", "train", "finish"}
    BY <1>4 DEF checkFlag, publishEpoch, trainEpoch, Executing, Goto, TypeOK
  <2> QED
    BY <2>1 DEF Working, InProcess
<1>5. ASSUME NEW r \in Runs, finishTraining(r)
      PROVE  Unsettled'
  <2>1. pc'[r] = "report" /\ trainingStatus' = "Completed"
    BY <1>5 DEF finishTraining, Executing, Goto, TypeOK
  <2> QED
    BY <2>1 DEF Working, InProcess
<1>6. ASSUME NEW r \in Runs, reportFinished(r)
      PROVE  Unsettled'
  <2>1. /\ ~timerActive' /\ UNCHANGED <<alive, runs, trainingStatus>>
        /\ \A q \in Runs : Working(q) => Working(q)'
    BY <1>6 DEF reportFinished, Executing, Goto, TypeOK, Working
  <2> QED
    BY <2>1
<1>7. ASSUME NEW r \in Runs, outliveTrainer(r)
      PROVE  Unsettled'
  BY <1>7 DEF outliveTrainer
<1>8. CASE callsBack
  BY <1>8 DEF callsBack, Working, InProcess
<1> QED
  BY Steps, <1>1, <1>2, <1>3, <1>4, <1>5, <1>6, <1>7, <1>8

\* Whatever was started and stopped in whatever order, once the last worker
\* is gone the trainer is idle, its timer stopped, and it says "Completed".
THEOREM Settles == Spec => []SettlesCompleted
<1>1. Init => Unsettled
  BY DEF Init, Unsettled
<1>2. Groundwork /\ Unsettled /\ [Next]_vars => Unsettled'
  BY UnsettledStep
<1>3. Groundwork /\ Unsettled => SettlesCompleted
  <2> SUFFICES ASSUME Groundwork, Unsettled, runs > 0, alive,
                      \A r \in Runs : ~InProcess(r)
               PROVE  ~isTraining /\ trainingStatus = "Completed" /\ ~timerActive
    BY DEF SettlesCompleted
  <2>1. \A r \in Runs : ~Working(r)
    BY DEF InProcess
  <2>2. ~isTraining
    <3>1. runs \in Runs
      BY ConstantsAssumption DEF Groundwork, TypeOK, Runs
    <3> QED
      BY <2>1, <3>1 DEF Groundwork, FlagHasWorker
  <2> QED
    BY <2>1, <2>2 DEF Unsettled
<1> QED
  BY <1>1, <1>2, <1>3, GroundworkHolds, PTL DEF Spec

\* While there are workers the flag is one's to clear, and after the last it
\* is down.
THEOREM FlagAlwaysFollows == Spec => []FlagFollowsWorkers
BY FlagIsCleared, Settles, PTL DEF FlagFollowsWorkers

-----------------------------------------------------------------------------
(***************************************************************************)
(* The progress shown, by where the worker is.                             *)
(***************************************************************************)

Fresh == \A r \in Runs : r > runs => epoch[r] = 0 /\ pc[r] = "none"

Pace ==
  stopped = {} /\ runs > 0 =>
    /\ pc[runs] \in {"check", "update"} =>
         \/ (epoch[runs] = 0 /\ trainingProgress = 0)
         \/ trainingProgress = epoch[runs] - 1
    /\ pc[runs] = "train" => trainingProgress = epoch[runs]
    /\ pc[runs] = "finish" => epoch[runs] = LastEpoch + 1
    /\ pc[runs] \notin {"check", "update", "train"} => trainingProgress = LastEpoch

LEMMA FreshStep ==
  ASSUME Groundwork, Fresh, [Next]_vars
  PROVE  Fresh'
<1>0. TypeOK /\ runs \in Nat /\ \A r \in Runs : r \in Nat
  BY ConstantsAssumption DEF Groundwork, TypeOK, Runs
<1>1. CASE startTraining
  BY <1>0, <1>1 DEF startTraining, Fresh, TypeOK
<1>2. CASE stopTraining \/ destroy \/ callsBack
  BY <1>2 DEF stopTraining, destroy, callsBack, Fresh
<1>3. ASSUME NEW r \in Runs, trainEpoch(r)
      PROVE  Fresh'
  <2>1. r <= runs
    BY <1>0, <1>3 DEF trainEpoch, Executing, Fresh
  <2> QED
    BY <1>0, <1>3, <2>1 DEF trainEpoch, Goto, Fresh, TypeOK
<1>4. ASSUME NEW r \in Runs,
             \/ checkFlag(r) \/ publishEpoch(r) \/ finishTraining(r)
             \/ reportFinished(r) \/ outliveTrainer(r)
      PROVE  Fresh'
  <2>1. CASE outliveTrainer(r)
    BY <2>1 DEF outliveTrainer, Fresh
  <2>2. CASE ~outliveTrainer(r)
    <3>1. pc[r] # "none"
      BY <1>4, <2>2 DEF checkFlag, publishEpoch, finishTraining, reportFinished, Executing
    <3>2. \A q \in Runs : q # r => pc'[q] = pc[q]
      BY <1>0, <1>4, <2>2 DEF checkFlag, publishEpoch, finishTraining, reportFinished,
                  Goto, TypeOK
    <3>3. UNCHANGED <<runs, epoch>>
      BY <1>4, <2>2 DEF checkFlag, publishEpoch, finishTraining, reportFinished
    <3> QED
      BY <3>1, <3>2, <3>3 DEF Fresh
  <2> QED
    BY <2>1, <2>2
<1> QED
  BY Steps, <1>1, <1>2, <1>3, <1>4

LEMMA PaceStep ==
  ASSUME Groundwork, OneWorkerUnlessStopped, Fresh, Pace, [Next]_vars
  PROVE  Pace'
<1>0. /\ TypeOK /\ runs \in Nat /\ runs \in 0 .. MaxRuns /\ LastEpoch \in Nat
      /\ \A r \in Runs : r \in Nat /\ epoch[r] \in Nat /\ epoch[r] <= LastEpoch + 1
  BY ConstantsAssumption DEF Groundwork, TypeOK, Runs
<1>1. CASE startTraining
  <2>1. runs + 1 \in Runs /\ runs + 1 > runs
    BY <1>0, <1>1, ConstantsAssumption DEF startTraining, Runs
  <2>2. epoch[runs + 1] = 0
    BY <2>1 DEF Fresh
  <2> QED
    BY <1>0, <1>1, <2>1, <2>2 DEF startTraining, Pace, TypeOK
<1>2. CASE stopTraining
  BY <1>2 DEF stopTraining, Pace
<1>3. CASE destroy
  <2>1. CASE isTraining
    BY <1>3, <2>1 DEF destroy, Pace
  <2>2. CASE ~isTraining
    BY <1>3, <2>2 DEF destroy, Pace
  <2> QED
    BY <2>1, <2>2
<1>4. ASSUME NEW r \in Runs, stopped' = {}, runs' > 0,
             \/ checkFlag(r) \/ publishEpoch(r) \/ trainEpoch(r) \/ finishTraining(r)
      PROVE  Pace'
  <2>1. /\ runs' = runs /\ stopped' = stopped
        /\ pc[r] \in {"check", "update", "train", "finish"}
    BY <1>4 DEF checkFlag, publishEpoch, trainEpoch, finishTraining, Executing
  <2>2. r = runs /\ isTraining
    BY <1>4, <2>1 DEF OneWorkerUnlessStopped, Working
  <2>3. CASE checkFlag(r)
    BY <1>0, <1>4, <2>1, <2>2, <2>3 DEF checkFlag, Executing, Goto, Pace, TypeOK
  <2>4. CASE publishEpoch(r)
    BY <1>0, <2>2, <2>4 DEF publishEpoch, Executing, Goto, Pace, TypeOK
  <2>5. CASE trainEpoch(r)
    BY <1>0, <1>4, <2>1, <2>2, <2>5 DEF trainEpoch, Executing, Goto, Pace, TypeOK
  <2>6. CASE finishTraining(r)
    BY <1>0, <1>4, <2>1, <2>2, <2>6 DEF finishTraining, Executing, Goto, Pace, TypeOK
  <2> QED
    BY <1>4, <2>3, <2>4, <2>5, <2>6
<1>5. ASSUME NEW r \in Runs, reportFinished(r)
      PROVE  Pace'
  BY <1>0, <1>5 DEF reportFinished, Executing, Goto, Pace, TypeOK, Runs
<1>6. ASSUME NEW r \in Runs, outliveTrainer(r)
      PROVE  Pace'
  BY <1>6 DEF outliveTrainer, Pace
<1>7. CASE callsBack
  BY <1>7 DEF callsBack, Pace
<1>8. ~(stopped' = {} /\ runs' > 0) => Pace'
  BY DEF Pace
<1> QED
  BY Steps, <1>1, <1>2, <1>3, <1>4, <1>5, <1>6, <1>7, <1>8

\* As long as nobody stops a training the progress shown is its worker's.
THEOREM ProgressIsRight == Spec => []ProgressIsTrue
<1>1. Init => Fresh /\ Pace
  BY DEF Init, Fresh, Pace
<1>2. Groundwork /\ OneWorkerUnlessStopped /\ Fresh /\ Pace /\ [Next]_vars => Fresh' /\ Pace'
  BY FreshStep, PaceStep
<1>3. Groundwork /\ Pace => ProgressIsTrue
  <2> SUFFICES ASSUME Groundwork, Pace, stopped = {}, runs > 0
               PROVE  /\ Working(runs) => trainingProgress \in {epoch[runs], epoch[runs] - 1}
                      /\ ~Working(runs) => trainingProgress = LastEpoch
    BY DEF ProgressIsTrue
  <2>1. epoch[runs] \in Nat /\ LastEpoch \in Nat
    BY ConstantsAssumption DEF Groundwork, TypeOK, Runs
  <2> QED
    BY <2>1 DEF Pace, Working
<1> QED
  BY <1>1, <1>2, <1>3, GroundworkHolds, OneWorker, PTL DEF Spec

-----------------------------------------------------------------------------
(***************************************************************************)
(* A training that was stopped stays stopped until another one is started. *)
(***************************************************************************)

StoppedIsOff == (\A r \in stopped : r <= runs) /\ (runs \in stopped => ~isTraining)

LEMMA StoppedIsOffStep ==
  ASSUME Groundwork, StoppedIsOff, [Next]_vars
  PROVE  StoppedIsOff'
<1>0. runs \in Nat /\ \A r \in stopped : r \in Nat
  BY ConstantsAssumption DEF Groundwork, TypeOK, Runs
<1> USE <1>0 DEF StoppedIsOff
<1>1. CASE startTraining
  BY <1>1 DEF startTraining
<1>2. CASE stopTraining
  BY <1>2 DEF stopTraining, stopAndCleanup
<1>3. CASE destroy
  <2>1. CASE isTraining
    BY <1>3, <2>1 DEF destroy, stopAndCleanup
  <2>2. CASE ~isTraining
    BY <1>3, <2>2 DEF destroy
  <2> QED
    BY <2>1, <2>2
<1>4. ASSUME NEW r \in Runs,
             \/ checkFlag(r) \/ publishEpoch(r) \/ trainEpoch(r)
             \/ finishTraining(r) \/ reportFinished(r) \/ outliveTrainer(r)
      PROVE  StoppedIsOff'
  BY <1>4 DEF checkFlag, publishEpoch, trainEpoch, finishTraining,
              reportFinished, outliveTrainer
<1>5. CASE callsBack
  BY <1>5 DEF callsBack
<1> QED
  BY Steps, <1>1, <1>2, <1>3, <1>4, <1>5

\* After stopTraining the worker publishes at most the epoch it had already
\* decided on, as long as nobody starts another training.
THEOREM StopIsObeyed == Spec => StopsWithinAnEpoch
<1>1. Init => StoppedIsOff
  BY DEF Init, StoppedIsOff
<1>2. Groundwork /\ StoppedIsOff /\ [Next]_vars => StoppedIsOff'
  BY StoppedIsOffStep
<1>3. ASSUME Groundwork, StoppedIsOff, [Next]_vars, NEW r \in Runs,
             r = runs, r \in stopped, pc[r] \in {"check", "finish"}
      PROVE  pc'[r] # "update"
  <2>0. pc \in [Runs -> WorkerPcs] /\ ~isTraining /\ runs + 1 # r
    BY <1>3, ConstantsAssumption DEF Groundwork, TypeOK, StoppedIsOff, Runs
  <2>1. CASE startTraining
    BY <1>3, <2>0, <2>1 DEF startTraining
  <2>2. CASE stopTraining \/ destroy
    BY <1>3, <2>2 DEF stopTraining, destroy
  <2>3. ASSUME NEW q \in Runs,
               \/ checkFlag(q) \/ publishEpoch(q) \/ trainEpoch(q)
               \/ finishTraining(q) \/ reportFinished(q) \/ outliveTrainer(q)
        PROVE  pc'[r] # "update"
    BY <1>3, <2>0, <2>3 DEF checkFlag, publishEpoch, trainEpoch,
       finishTraining, reportFinished, outliveTrainer, Executing, Goto
  <2>4. CASE callsBack
    BY <1>3, <2>4 DEF callsBack
  <2> QED
    BY <1>3, Steps, <2>1, <2>2, <2>3, <2>4
<1>4. Groundwork /\ StoppedIsOff /\ [Next]_vars => KeepsStopped
  BY <1>3 DEF KeepsStopped
<1> QED
  BY <1>1, <1>2, <1>4, GroundworkHolds, PTL DEF Spec, StopsWithinAnEpoch

=============================================================================
