--------------------------- MODULE FineTuneEngine ---------------------------
(***************************************************************************)
(* FineTuneEngine: runs llama-finetune as a child process (QProcess) and   *)
(* reports on it through trainingStarted, trainingCompleted and            *)
(* trainingFailed.                                                         *)
(*                                                                         *)
(* QProcess is external and modelled by its contract: start() and          *)
(* waitForStarted may fail or time out; a child's death is noticed later,  *)
(* by the event loop, by waitForFinished or by ~QProcess, which kills and  *)
(* reaps a child still there; a child that died of a signal is reported by *)
(* errorOccurred(Crashed) and then by finished(CrashExit); read and write  *)
(* errors are reported while the child lives on.  The slots run inside     *)
(* those calls, and so do the slots connected to the engine's own signals: *)
(* one of these may start the next run as soon as the last is reported.    *)
(*                                                                         *)
(* Runs are numbered by the accepted calls of startFineTuning.             *)
(***************************************************************************)
EXTENDS Integers

CONSTANTS
  MaxRuns,       \* bound: accepted calls of startFineTuning
  MaxReports,    \* bound: reports on a run after which no more reads fail
  Paths,         \* output files a configuration may name
  EpochCounts    \* numbers of epochs a configuration may ask for

ASSUME ConstantsAssumption ==
  /\ MaxRuns \in Nat /\ EpochCounts \subseteq Nat \ {0} /\ MaxReports \in Nat

VARIABLES
  process,       \* m_process: the run whose QProcess it points to, or 0
  config,        \* m_config: output path and epochs, of the last accepted call
  isRunning,     \* m_isRunning
  progress,      \* m_progress
  alive,         \* the engine exists, and nothing undefined has happened to it
  runs,          \* accepted calls of startFineTuning so far
  child,         \* the state of each run's child process
  printed,       \* epochs each child has announced, read by the engine
  order,         \* each run's configuration, as passed on its command line
  files,         \* output files that exist
  \* history
  verdict,       \* how often each run was reported completed or failed
  mishaps        \* rare events after which the reports may be wrong

vars == <<process, config, isRunning, progress, alive, runs, child, printed,
          order, files, verdict, mishaps>>

-----------------------------------------------------------------------------
Runs == 1 .. MaxRuns
Config == [path : Paths, epochs : EpochCounts]

\* starting: forked, not known to have started
\* ok, bad, crashed: dead and not yet reaped, by how it died
\* reaped: QProcess knows of its death, or it never started
Dead == {"ok", "bad", "crashed"}
ChildStates == {"none", "starting", "running", "reaped"} \union Dead

\* QProcess::state() is not NotRunning.
Unreaped(r) == child[r] \notin {"none", "reaped"}

\* The numbers read off the digits of n when the line is cut behind one.
Prefixes(n) == {n \div k : k \in {j \in {1, 10, 100} : j <= n}}

\* What parseProgress makes of r's next epoch line: the share of epochs done,
\* or the old value when the line was cut before the second number.
ProgressAfterLine(r, old) ==
  {old} \union {((printed[r] + 1) * 100) \div t : t \in Prefixes(order[r].epochs)}

\* onProcessFinished, for a child that left normally.
Judged(how, path) ==
  IF how = "ok" /\ path \in files THEN "completed" ELSE "failed"

Verdicts == [said : {"completed", "failed"}, path : Paths]
Failed(path) == [said |-> "failed", path |-> path]

\* `v' has been reported `times' times of r.
Reported(r, v, times) == [verdict EXCEPT ![r][v] = @ + times]

\* trainingFailed follows errorOccurred and finished each.
Times(how) == IF how = "crashed" THEN 2 ELSE 1

Init ==
  /\ process = 0 /\ config \in Config /\ isRunning = FALSE
  /\ progress = 0 /\ alive = TRUE /\ runs = 0
  /\ child = [r \in Runs |-> "none"] /\ printed = [r \in Runs |-> 0]
  /\ order = [r \in Runs |-> config] /\ files \in SUBSET Paths
  /\ verdict = [r \in Runs |-> [v \in Verdicts |-> 0]] /\ mishaps = {}

-----------------------------------------------------------------------------
(***************************************************************************)
(* startFineTuning, one synchronous call.  The new configuration is in     *)
(* place before the old QProcess is deleted, and ~QProcess still reports   *)
(* the end of the old child to the engine.                                 *)
(***************************************************************************)

\* What deleting the old QProcess reports of a child still there, under
\* configuration c: its end, or that it was killed.
DeletedVerdict(c) == [said |-> Judged(child[process], c.path), path |-> c.path]

\* ... and how often.  A child that starts only now may fail to.
DeletedTimes ==
  IF process = 0 \/ ~Unreaped(process) THEN {0}
  ELSE CASE child[process] \in {"ok", "bad"} -> {1}
         [] child[process] = "starting" -> {1, 2}
         [] OTHER -> {2}

\* The old child's last output is drained, and its end may set 100.
ProgressAfterDelete(c) ==
  IF process = 0 \/ ~Unreaped(process) THEN {0}
  ELSE IF DeletedVerdict(c).said = "completed" THEN {100}
  ELSE IF printed[process] < order[process].epochs THEN ProgressAfterLine(process, 0)
  ELSE {0}

\* How start() and waitForStarted(5000) end for the new child.
StartOutcomes == {"running", "reaped", "starting"}

\* A child that cannot be started is reported by errorOccurred and by the
\* caller of waitForStarted, one that takes too long by the latter.
StartTimes(outcome) ==
  CASE outcome = "running" -> 0 [] outcome = "starting" -> 1 [] outcome = "reaped" -> 2

\* All of startFineTuning but the flag.
Launch(c, outcome) ==
  /\ runs < MaxRuns
  /\ config' = c /\ runs' = runs + 1
  /\ order' = [order EXCEPT ![runs + 1] = c] /\ process' = runs + 1
  /\ child' = [r \in Runs |->
       IF r = runs + 1 THEN outcome
       ELSE IF r = process THEN "reaped" ELSE child[r]]
  /\ UNCHANGED <<printed, files>>

\* Variant with a defect: the old QProcess is forgotten instead of deleted.
startFineTuningLeakingProcess(c, outcome) ==
  /\ alive /\ ~isRunning /\ runs < MaxRuns
  /\ config' = c /\ runs' = runs + 1
  /\ order' = [order EXCEPT ![runs + 1] = c] /\ progress' = 0
  /\ process' = runs + 1 /\ child' = [child EXCEPT ![runs + 1] = outcome]
  /\ isRunning' = (outcome = "running")
  /\ verdict' = Reported(runs + 1, Failed(c.path), StartTimes(outcome))
  /\ mishaps' = mishaps \union {m \in {"startTimeout"} : outcome = "starting"}
  /\ UNCHANGED <<alive, printed, files>>

\* What it reports: of the old child, whose verdict v it is, and of the new.
LaunchTold(c, outcome, v, times) ==
  verdict' = [r \in Runs |->
    IF r = runs + 1
      THEN [verdict[r] EXCEPT ![Failed(c.path)] = @ + StartTimes(outcome)]
    ELSE IF r = process THEN [verdict[r] EXCEPT ![v] = @ + times]
    ELSE verdict[r]]

\* Variant with a defect: m_isRunning is not set.
startFineTuningUnflagged(c, outcome) ==
  /\ alive /\ ~isRunning /\ Launch(c, outcome)
  /\ progress' \in ProgressAfterDelete(c)
  /\ \E times \in DeletedTimes : LaunchTold(c, outcome, DeletedVerdict(c), times)
  /\ mishaps' = mishaps \union {m \in {"startTimeout"} : outcome = "starting"}
  /\ UNCHANGED <<isRunning, alive>>

\* The guards refuse a call without changing anything (they report a missing
\* binary, model or data file, and a run under way only to the log).
startFineTuning(c, outcome) ==
  /\ alive /\ ~isRunning /\ Launch(c, outcome)
  /\ isRunning' = (outcome = "running")
  /\ progress' \in ProgressAfterDelete(c)
  /\ \E times \in DeletedTimes : LaunchTold(c, outcome, DeletedVerdict(c), times)
  /\ mishaps' = mishaps \union {m \in {"startTimeout"} : outcome = "starting"}
  /\ UNCHANGED alive

\* A slot starts a run while a QProcess is at work and the flag is down: from
\* the first report of a start that failed, from the end that a deletion
\* reports, or, once it has stopped the run itself, from a line of output.
\* The QProcess is deleted in the middle of that.
startInSlot ==
  /\ alive /\ runs < MaxRuns
  /\ alive' = FALSE /\ isRunning' = FALSE
  /\ UNCHANGED <<process, config, progress, runs, child, printed, order, files,
                 verdict, mishaps>>

-----------------------------------------------------------------------------
(***************************************************************************)
(* The child, on its own.                                                  *)
(***************************************************************************)

\* exec succeeds after waitForStarted gave up.
childStartsLate(r) ==
  /\ child[r] = "starting"
  /\ child' = [child EXCEPT ![r] = "running"]
  /\ UNCHANGED <<process, config, isRunning, progress, alive, runs, printed,
                 order, files, verdict, mishaps>>

\* It ends, having written its output or not; a failed child may have too.
childExits(r, how) ==
  /\ child[r] = "running"
  /\ child' = [child EXCEPT ![r] = how]
  /\ files' \in {files, files \union {order[r].path}}
  /\ UNCHANGED <<process, config, isRunning, progress, alive, runs, printed,
                 order, verdict, mishaps>>

-----------------------------------------------------------------------------
(***************************************************************************)
(* The slots, called by the event loop.                                    *)
(***************************************************************************)

\* One line of output: "epoch i/n", which a read may have cut in two.  (The
\* llama-finetune vendored with the program prints no such line.)
onProcessReadyRead ==
  /\ alive /\ process # 0 /\ child[process] \in {"running"} \union Dead
  /\ printed[process] < order[process].epochs
  /\ progress' \in ProgressAfterLine(process, progress)
  /\ printed' = [printed EXCEPT ![process] = @ + 1]
  /\ UNCHANGED <<process, config, isRunning, alive, runs, child, order, files,
                 verdict, mishaps>>

\* What is said of the end of the current child, dead by `how'.
EndTold(how) ==
  LET what == Judged(how, config.path)
  IN  /\ verdict' = Reported(process, [said |-> what, path |-> config.path], Times(how))
      /\ progress' = IF what = "completed" THEN 100 ELSE progress

\* Its end has been noticed: errorOccurred if it crashed, and finished.  Both
\* slots clear m_isRunning.
Notice(how) ==
  /\ child' = [child EXCEPT ![process] = "reaped"]
  /\ EndTold(how) /\ isRunning' = FALSE

\* Variant with a defect: the flag is cleared after a failure only.
onProcessFinishedStillRunning ==
  /\ alive /\ process # 0 /\ child[process] \in Dead
  /\ child' = [child EXCEPT ![process] = "reaped"]
  /\ EndTold(child[process])
  /\ isRunning' = (isRunning /\ Judged(child[process], config.path) = "completed")
  /\ UNCHANGED <<process, config, alive, runs, printed, order, files, mishaps>>

\* A slot of its report that starts the next run does so once the child is
\* reaped and the flag is down: that is the next step.  (Qt does not touch the
\* QProcess again.)
onProcessFinished ==
  /\ alive /\ process # 0 /\ child[process] \in Dead
  /\ Notice(child[process])
  /\ UNCHANGED <<process, config, alive, runs, printed, order, files, mishaps>>

\* A read error: reported as the end of the training, while the child lives on.
onProcessError ==
  /\ alive /\ process # 0 /\ child[process] = "running"
  /\ verdict[process][Failed(config.path)] < MaxReports
  /\ verdict' = Reported(process, Failed(config.path), 1)
  /\ isRunning' = FALSE /\ mishaps' = mishaps \union {"ioError"}
  /\ UNCHANGED <<process, config, progress, alive, runs, child, printed,
                 order, files>>

-----------------------------------------------------------------------------
(***************************************************************************)
(* stop: terminate, wait five seconds, else kill.                          *)
(***************************************************************************)

\* The child is gone in time, by the signal, by an orderly exit or because it
\* was dead already.
EndsInTime == IF child[process] \in Dead THEN {child[process]} ELSE Dead

\* waitForFinished reports that.
stop ==
  /\ alive /\ process # 0 /\ isRunning
  /\ \E how \in EndsInTime : Notice(how)
  /\ UNCHANGED <<process, config, alive, runs, printed, order, files, mishaps>>

\* A slot of that report starts the next run, whose flag stop then clears.
stopRestarted(c, outcome) ==
  /\ alive /\ process # 0 /\ isRunning /\ Launch(c, outcome)
  /\ isRunning' = FALSE /\ progress' = 0
  /\ \E how \in EndsInTime :
       LaunchTold(c, outcome,
                  [said |-> Judged(how, config.path), path |-> config.path], Times(how))
  /\ mishaps' = mishaps \union {"restartInStop"}
                        \union {m \in {"startTimeout"} : outcome = "starting"}
  /\ UNCHANGED alive

\* It had to be killed, or ended by itself just before: its death is noticed
\* only later.
stopByKill ==
  /\ alive /\ process # 0 /\ isRunning
  /\ child[process] = "running"
  /\ \E how \in Dead : child' = [child EXCEPT ![process] = how]
  /\ isRunning' = FALSE /\ mishaps' = mishaps \union {"stopTimeout"}
  /\ UNCHANGED <<process, config, progress, alive, runs, printed, order,
                 files, verdict>>

\* ~FineTuneEngine stops a run under way, which still reports it; what is left
\* of the QProcess goes with the engine and reports to nobody.
destroy ==
  /\ alive
  /\ alive' = FALSE /\ isRunning' = FALSE
  /\ child' = [r \in Runs |-> IF r = process THEN "reaped" ELSE child[r]]
  /\ \/ isRunning /\ \E how \in EndsInTime : EndTold(how)
     \/ (isRunning => child[process] = "running") /\ UNCHANGED <<progress, verdict>>
  /\ UNCHANGED <<process, config, runs, printed, order, files, mishaps>>

-----------------------------------------------------------------------------
Start == \E c \in Config, outcome \in StartOutcomes : startFineTuning(c, outcome)
Restart == \E c \in Config, outcome \in StartOutcomes : stopRestarted(c, outcome)
Caller == Start \/ stop \/ Restart \/ stopByKill \/ startInSlot \/ destroy
Child == \E r \in Runs : \/ childStartsLate(r)
                         \/ \E how \in Dead : childExits(r, how)
Slots == onProcessReadyRead \/ onProcessFinished \/ onProcessError

Next == Caller \/ Child \/ Slots

Spec == Init /\ [][Next]_vars

\* The event loop runs.  Nothing is assumed of the child or of the caller.
FairSpec == Spec /\ WF_vars(onProcessFinished)

-----------------------------------------------------------------------------
(***************************************************************************)
(* Properties.                                                             *)
(***************************************************************************)

\* Every variable has its type.
TypeOK ==
  /\ process \in 0 .. MaxRuns
  /\ config \in Config
  /\ isRunning \in BOOLEAN
  /\ progress \in Nat
  /\ alive \in BOOLEAN
  /\ runs \in 0 .. MaxRuns
  /\ child \in [Runs -> ChildStates]
  /\ printed \in [Runs -> Nat]
  /\ \A r \in Runs : printed[r] <= order[r].epochs
  /\ order \in [Runs -> Config]
  /\ files \subseteq Paths
  /\ verdict \in [Runs -> [Verdicts -> Nat]]
  /\ mishaps \subseteq {"startTimeout", "ioError", "stopTimeout", "restartInStop"}

\* The flag never outlives the run: while startFineTuning is refused, there
\* is a child of the last accepted call, running or dead and unreported.
FlagHasChild ==
  isRunning => /\ process = runs /\ process # 0
               /\ child[process] \in {"running"} \union Dead

\* Whatever timed out, failed or was stopped, two trainings never compete for
\* the machine: every child but the last one has been reaped.
OneChild ==
  alive => \A r \in Runs : Unreaped(r) => r = process

\* The flag tells the truth about the child, unless a start timed out, a
\* pipe broke, a child had to be killed, or a slot started one within a stop.
FlagIsTrue == mishaps = {} /\ alive =>
  (isRunning <=> process # 0 /\ Unreaped(process))

\* In the same circumstances no run is reported both completed and failed,
\* whatever is reported of a run names its own output, a success is reported
\* once, and a failure by one signal for each of the two ways it is learnt of.
VerdictsAgree ==
  mishaps = {} => \A r \in Runs, v \in Verdicts :
    verdict[r][v] > 0 =>
      /\ v.path = order[r].path
      /\ verdict[r][v] <= IF v.said = "completed" THEN 1 ELSE 2
      /\ \A w \in Verdicts : verdict[r][w] > 0 => w = v

\* The successes among the reports on one run.
Successes(told) == {v \in Verdicts : v.said = "completed" /\ told[v] > 0}

\* Whatever happened, a run is reported completed once at most.
SuccessIsToldOnce ==
  \A r \in Runs : \A v, w \in Successes(verdict[r]) : v = w /\ verdict[r][v] = 1

\* What the engine says of its runs, while they last and afterwards.
RunsAreToldTruly == FlagIsTrue /\ VerdictsAgree /\ SuccessIsToldOnce

\* A child's death is noticed: the flag does not stay up after it.
DeathIsNoticed ==
  (isRunning /\ child[runs] \in Dead) ~> ~isRunning

=============================================================================
