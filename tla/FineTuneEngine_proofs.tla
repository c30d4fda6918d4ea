------------------------ MODULE FineTuneEngine_proofs ------------------------
(***************************************************************************)
(* Theorems about FineTuneEngine, for any number of runs, whatever their   *)
(* children do.                                                            *)
(***************************************************************************)
EXTENDS FineTuneEngine, TLAPS

-----------------------------------------------------------------------------
(***************************************************************************)
(* The inductive invariant.                                                *)
(***************************************************************************)

\* A run not yet accepted has left no trace.
Fresh ==
  \A r \in Runs : r > runs =>
    /\ child[r] = "none" /\ printed[r] = 0
    /\ \A v \in Verdicts : verdict[r][v] = 0

\* The engine points to the child of the last run, under the configuration of
\* that run; all older children are reaped.
Points ==
  /\ process = runs
  /\ process # 0 => config = order[process]
  /\ \A r \in Runs : r # process => ~Unreaped(r)

\* While all is calm a run is reported when its child is reaped, and with one
\* verdict only.
ReportedOnce ==
  mishaps = {} => \A r \in Runs :
    \/ \A v \in Verdicts : verdict[r][v] = 0
    \/ /\ child[r] = "reaped"
       /\ \E v \in Verdicts :
            /\ v.path = order[r].path
            /\ verdict[r][v] <= IF v.said = "completed" THEN 1 ELSE 2
            /\ \A w \in Verdicts : w # v => verdict[r][w] = 0

\* A success is reported when the child is reaped, whatever happened.
SuccessIsLast ==
  \A r \in Runs : Successes(verdict[r]) # {} => child[r] = "reaped"

Base == TypeOK /\ Fresh /\ Points /\ FlagHasChild

Reports == ReportedOnce /\ SuccessIsToldOnce /\ SuccessIsLast

IInv == Base /\ FlagIsTrue /\ Reports

-----------------------------------------------------------------------------
(***************************************************************************)
(* Parts of a step.                                                        *)
(***************************************************************************)

LEMMA Steps ==
  ASSUME [Next]_vars
  PROVE  \/ \E c \in Config, outcome \in StartOutcomes :
              startFineTuning(c, outcome) \/ stopRestarted(c, outcome)
         \/ \E r \in Runs : childStartsLate(r)
         \/ \E r \in Runs, how \in Dead : childExits(r, how)
         \/ stop \/ stopByKill \/ destroy \/ startInSlot
         \/ onProcessReadyRead \/ onProcessFinished \/ onProcessError
         \/ UNCHANGED vars
  BY DEF Next, Caller, Start, Restart, Child, Slots

\* A configuration asks for an epoch at least.
LEMMA ConfigFacts ==
  ASSUME NEW c \in Config
  PROVE  c.path \in Paths /\ c.epochs \in Nat \ {0}
  <1>1. c.path \in Paths /\ c.epochs \in EpochCounts
    BY DEF Config
  <1> QED
    BY <1>1, ConstantsAssumption

\* A share read off a line, however it was cut, is a number.
LEMMA ProgressIsNumber ==
  ASSUME NEW n \in Nat \ {0}, NEW m \in Nat, NEW t \in Prefixes(n)
  PROVE  (m * 100) \div t \in Nat
  <1>1. PICK k \in {1, 10, 100} : k <= n /\ t = n \div k
    BY DEF Prefixes
  <1>2. t \in Nat \ {0}
    BY <1>1
  <1> QED
    BY <1>2

LEMMA LineFacts ==
  ASSUME TypeOK, NEW r \in Runs, NEW old \in Nat, NEW p \in ProgressAfterLine(r, old)
  PROVE  p \in Nat
  <1>1. order[r].epochs \in Nat \ {0} /\ printed[r] + 1 \in Nat
    <2>1. order[r] \in Config /\ printed[r] \in Nat
      BY DEF TypeOK
    <2> QED
      BY <2>1, ConfigFacts
  <1> QED
    BY <1>1, ProgressIsNumber DEF ProgressAfterLine

\* A verdict on a child is one.
LEMMA JudgedFacts ==
  ASSUME NEW how, NEW c \in Config
  PROVE  /\ [said |-> Judged(how, c.path), path |-> c.path] \in Verdicts
         /\ Failed(c.path) \in Verdicts
  BY DEF Judged, Failed, Verdicts, Config

\* Only what is said of one run changes, by a number.
LEMMA ReportedFacts ==
  ASSUME TypeOK, NEW r \in Runs, NEW v \in Verdicts, NEW times \in Nat,
         verdict' = Reported(r, v, times)
  PROVE  /\ verdict' \in [Runs -> [Verdicts -> Nat]]
         /\ verdict'[r][v] = verdict[r][v] + times
         /\ \A w \in Verdicts : w # v => verdict'[r][w] = verdict[r][w]
         /\ \A q \in Runs : q # r => verdict'[q] = verdict[q]
  <1>1. verdict \in [Runs -> [Verdicts -> Nat]]
    BY DEF TypeOK
  <1>2. verdict' = [verdict EXCEPT ![r][v] = @ + times]
    BY DEF Reported
  <1>3. verdict[r] \in [Verdicts -> Nat]
    BY <1>1
  <1> DEFINE row == [verdict[r] EXCEPT ![v] = @ + times]
  <1>4. /\ row \in [Verdicts -> Nat] /\ row[v] = verdict[r][v] + times
        /\ \A w \in Verdicts : w # v => row[w] = verdict[r][w]
    BY <1>3
  <1>5. verdict' = [verdict EXCEPT ![r] = row]
    BY Zenon, <1>2
  <1> HIDE DEF row
  <1>6. verdict' \in [Runs -> [Verdicts -> Nat]] /\ verdict'[r] = row
    BY <1>1, <1>4, <1>5
  <1> QED
    BY <1>1, <1>4, <1>5, <1>6

\* What a launch says, of the old child and of the new.
LEMMA LaunchFacts ==
  ASSUME Base, NEW c \in Config, NEW outcome \in StartOutcomes, Launch(c, outcome),
         NEW v \in Verdicts, NEW times \in Nat, LaunchTold(c, outcome, v, times)
  PROVE  /\ runs + 1 \in Runs /\ runs + 1 # process /\ runs \in Nat
         /\ verdict' \in [Runs -> [Verdicts -> Nat]]
         /\ verdict'[runs + 1][Failed(c.path)] \in 0 .. 2
         /\ \A w \in Verdicts : w # Failed(c.path) => verdict'[runs + 1][w] = 0
         /\ outcome = "running" => \A w \in Verdicts : verdict'[runs + 1][w] = 0
         /\ process # 0 =>
              /\ verdict'[process][v] = verdict[process][v] + times
              /\ \A w \in Verdicts : w # v => verdict'[process][w] = verdict[process][w]
         /\ \A q \in Runs : q \notin {process, runs + 1} => verdict'[q] = verdict[q]
  <1>1. /\ runs + 1 \in Runs /\ runs + 1 # process /\ runs \in Nat
        /\ process # 0 => process \in Runs
    BY ConstantsAssumption DEF Base, Points, TypeOK, Launch, Runs
  <1>2. verdict \in [Runs -> [Verdicts -> Nat]]
    BY DEF Base, TypeOK
  <1>3. \A w \in Verdicts : verdict[runs + 1][w] = 0
    BY <1>1 DEF Base, Fresh
  <1> DEFINE f == Failed(c.path)
             new == [verdict[runs + 1] EXCEPT ![f] = @ + StartTimes(outcome)]
             old == [verdict[process] EXCEPT ![v] = @ + times]
  <1>4. f \in Verdicts
    BY JudgedFacts
  <1>5. StartTimes(outcome) \in 0 .. 2 /\ (outcome = "running" => StartTimes(outcome) = 0)
    BY DEF StartTimes, StartOutcomes
  <1>6. verdict' = [r \in Runs |-> IF r = runs + 1 THEN new
                                   ELSE IF r = process THEN old ELSE verdict[r]]
    BY DEF LaunchTold
  <1>7. verdict[runs + 1] \in [Verdicts -> Nat]
    BY <1>1, <1>2
  <1> HIDE DEF f
  <1>8. new \in [Verdicts -> Nat] /\ new[f] = StartTimes(outcome)
        /\ \A w \in Verdicts : w # f => new[w] = 0
    BY <1>3, <1>4, <1>5, <1>7
  <1>9. ASSUME process # 0
        PROVE  /\ old \in [Verdicts -> Nat] /\ old[v] = verdict[process][v] + times
               /\ \A w \in Verdicts : w # v => old[w] = verdict[process][w]
    <2>1. verdict[process] \in [Verdicts -> Nat]
      BY <1>1, <1>2, <1>9
    <2> QED
      BY <2>1
  <1> HIDE DEF new, old
  <1>10. /\ verdict' \in [Runs -> [Verdicts -> Nat]] /\ verdict'[runs + 1] = new
         /\ process # 0 => verdict'[process] = old
         /\ \A q \in Runs : q \notin {process, runs + 1} => verdict'[q] = verdict[q]
    <2>1. \A r \in Runs : r = process => process # 0
      BY DEF Runs
    <2> QED
      BY <1>1, <1>2, <1>6, <1>8, <1>9, <2>1
  <1>11. /\ verdict'[runs + 1][f] \in 0 .. 2
         /\ \A w \in Verdicts : w # f => verdict'[runs + 1][w] = 0
         /\ outcome = "running" => \A w \in Verdicts : verdict'[runs + 1][w] = 0
    BY <1>5, <1>8, <1>10
  <1> QED
    BY <1>1, <1>9, <1>10, <1>11 DEF f

\* The end of the current child is told.
LEMMA ToldFacts ==
  ASSUME Base, process # 0, NEW how \in Dead, EndTold(how)
  PROVE  /\ progress' \in Nat /\ process \in Runs
         /\ Times(how) \in 1 .. 2
         /\ verdict' = Reported(process, [said |-> Judged(how, config.path),
                                          path |-> config.path], Times(how))
         /\ verdict' \in [Runs -> [Verdicts -> Nat]]
         /\ \A q \in Runs : q # process => verdict'[q] = verdict[q]
  <1>1. TypeOK /\ process \in Runs
    BY ConstantsAssumption DEF Base, TypeOK, Runs
  <1>2. Times(how) \in 1 .. 2
    BY DEF Times
  <1>3. verdict' = Reported(process, [said |-> Judged(how, config.path),
                                      path |-> config.path], Times(how))
    BY DEF EndTold
  <1>4. progress' \in Nat
    BY <1>1 DEF EndTold, TypeOK
  <1>5. [said |-> Judged(how, config.path), path |-> config.path] \in Verdicts
    BY <1>1, JudgedFacts DEF TypeOK
  <1> QED
    BY <1>1, <1>2, <1>3, <1>4, <1>5, ReportedFacts

\* The end of the current child is noticed.
Noticed ==
  /\ process # 0 /\ UNCHANGED <<process, config, alive, runs, printed, order, files, mishaps>>
  /\ child[process] \in {"running"} \union Dead
  /\ \E how \in Dead : Notice(how)

LEMMA NoticedFacts ==
  ASSUME Base, onProcessFinished \/ stop
  PROVE  Noticed
  <1>1. CASE onProcessFinished
    BY <1>1 DEF onProcessFinished, Noticed
  <1>2. CASE stop
    BY <1>2 DEF stop, EndsInTime, Noticed, Base, FlagHasChild
  <1> QED
    BY <1>1, <1>2

-----------------------------------------------------------------------------
(***************************************************************************)
(* Types, and one child.                                                   *)
(***************************************************************************)

LEMMA InitBase == Init => Base
  <1> SUFFICES ASSUME Init PROVE Base
    OBVIOUS
  <1>1. 0 \in 0 .. MaxRuns
    BY ConstantsAssumption
  <1>2. \A r \in Runs : order[r] = config /\ printed[r] = 0
    BY DEF Init
  <1>3. \A r \in Runs : printed[r] <= order[r].epochs
    <2>1. config.epochs \in Nat
      BY ConfigFacts DEF Init
    <2> QED
      BY <1>2, <2>1
  <1>4. /\ child \in [Runs -> ChildStates] /\ printed \in [Runs -> Nat]
        /\ order \in [Runs -> Config] /\ verdict \in [Runs -> [Verdicts -> Nat]]
    BY DEF Init, ChildStates
  <1>5. TypeOK
    BY <1>1, <1>3, <1>4 DEF Init, TypeOK
  <1>6. Fresh /\ Points /\ FlagHasChild
    BY DEF Init, Fresh, Points, FlagHasChild, Unreaped
  <1> QED
    BY <1>5, <1>6 DEF Base

\* A start, or a restart in the slot of a stop.
LEMMA launchBase ==
  ASSUME Base, NEW c \in Config, NEW outcome \in StartOutcomes, Launch(c, outcome),
         NEW v \in Verdicts, NEW times \in Nat, LaunchTold(c, outcome, v, times),
         isRunning' \in BOOLEAN, isRunning' => outcome = "running",
         progress' \in Nat, alive' \in BOOLEAN,
         mishaps' \subseteq {"startTimeout", "ioError", "stopTimeout", "restartInStop"}
  PROVE  Base'
  <1>0. TypeOK /\ Fresh /\ Points
    BY DEF Base
  <1>1. /\ runs + 1 \in Runs /\ runs \in Nat /\ runs' = runs + 1 /\ process' = runs + 1
        /\ runs + 1 \in 0 .. MaxRuns
    BY <1>0, ConstantsAssumption DEF TypeOK, Launch, Runs
  <1>2. /\ order' = [order EXCEPT ![runs + 1] = c] /\ config' = c
        /\ UNCHANGED <<printed, files>>
    BY DEF Launch
  <1>3. order' \in [Runs -> Config]
    BY <1>0, <1>2 DEF TypeOK
  <1>4. \A r \in Runs : printed'[r] <= order'[r].epochs
    <2>1. printed[runs + 1] = 0 /\ c.epochs \in Nat
      BY <1>0, <1>1, ConfigFacts DEF Fresh
    <2> QED
      BY <1>0, <1>1, <1>2, <2>1 DEF TypeOK
  <1>5. child' = [r \in Runs |-> IF r = runs + 1 THEN outcome
                                 ELSE IF r = process THEN "reaped" ELSE child[r]]
    BY DEF Launch
  <1>6. child' \in [Runs -> ChildStates]
    BY <1>0, <1>5 DEF TypeOK, ChildStates, StartOutcomes
  <1>7. TypeOK'
    BY <1>0, <1>1, <1>2, <1>3, <1>4, <1>6, LaunchFacts DEF TypeOK
  <1>8. \A r \in Runs : r > runs + 1 => r \notin {process, runs + 1}
    BY <1>0, <1>1 DEF Points, Runs
  <1>9. Fresh'
    <2>1. \A r \in Runs : r > runs + 1 => verdict'[r] = verdict[r] /\ r > runs
      BY <1>1, <1>8, LaunchFacts DEF Runs
    <2> QED
      BY <1>0, <1>1, <1>2, <1>5, <1>8, <2>1 DEF Fresh
  <1>10. Points'
    BY <1>0, <1>1, <1>2, <1>5 DEF Points, TypeOK, Unreaped
  <1>11. FlagHasChild'
    BY <1>1, <1>5 DEF FlagHasChild
  <1> QED
    BY <1>7, <1>9, <1>10, <1>11 DEF Base

LEMMA startBase ==
  ASSUME Base, NEW c \in Config, NEW outcome \in StartOutcomes, startFineTuning(c, outcome)
  PROVE  Base'
  <1>0. TypeOK
    BY DEF Base
  <1>1. PICK times \in Nat : LaunchTold(c, outcome, DeletedVerdict(c), times)
    BY DEF startFineTuning, DeletedTimes
  <1>2. DeletedVerdict(c) \in Verdicts
    BY JudgedFacts DEF DeletedVerdict
  <1>3. progress' \in Nat
    <2>1. progress' \in ProgressAfterDelete(c)
      BY DEF startFineTuning
    <2>2. CASE process \in Runs
      BY <1>0, <2>1, <2>2, LineFacts DEF ProgressAfterDelete
    <2>3. CASE process = 0
      BY <2>1, <2>3 DEF ProgressAfterDelete
    <2>4. process \in Runs \/ process = 0
      BY <1>0, ConstantsAssumption DEF TypeOK, Runs
    <2> QED
      BY <2>2, <2>3, <2>4
  <1>4. isRunning' = (outcome = "running")
    BY DEF startFineTuning
  <1>5. isRunning' \in BOOLEAN /\ (isRunning' => outcome = "running")
    BY Zenon, <1>4
  <1>6. /\ mishaps' \subseteq {"startTimeout", "ioError", "stopTimeout", "restartInStop"}
        /\ alive' \in BOOLEAN /\ Launch(c, outcome)
    BY <1>0 DEF startFineTuning, TypeOK
  <1> QED
    BY <1>1, <1>2, <1>3, <1>5, <1>6, launchBase

LEMMA restartBase ==
  ASSUME Base, NEW c \in Config, NEW outcome \in StartOutcomes, stopRestarted(c, outcome)
  PROVE  Base'
  <1>0. TypeOK
    BY DEF Base
  <1>1. PICK how \in Dead :
          LaunchTold(c, outcome, [said |-> Judged(how, config.path), path |-> config.path],
                     Times(how))
    BY DEF stopRestarted, EndsInTime
  <1>2. /\ [said |-> Judged(how, config.path), path |-> config.path] \in Verdicts
        /\ Times(how) \in Nat
    BY <1>0, JudgedFacts DEF Times, TypeOK
  <1>3. /\ mishaps' \subseteq {"startTimeout", "ioError", "stopTimeout", "restartInStop"}
        /\ alive' \in BOOLEAN /\ Launch(c, outcome)
        /\ progress' \in Nat /\ ~isRunning' /\ isRunning' \in BOOLEAN
    BY <1>0 DEF stopRestarted, TypeOK
  <1> QED
    BY <1>1, <1>2, <1>3, launchBase

\* The child moves on by itself.
LEMMA childBase ==
  ASSUME Base, NEW r \in Runs,
         childStartsLate(r) \/ \E how \in Dead : childExits(r, how)
  PROVE  Base'
  <1>1. PICK s \in {"running"} \cup Dead :
          /\ child' = [child EXCEPT ![r] = s]
          /\ child[r] \in {"starting", "running"}
          /\ files' = files \/ files' = files \cup {order[r].path}
          /\ UNCHANGED <<process, config, isRunning, progress, alive, runs, printed, order,
                         verdict, mishaps>>
    BY DEF childStartsLate, childExits
  <1>2. r = process /\ child' \in [Runs -> ChildStates]
    BY <1>1 DEF Base, Points, TypeOK, Unreaped, ChildStates, Dead
  <1>3. files' \subseteq Paths
    BY <1>1 DEF Base, TypeOK, Config
  <1>4. TypeOK'
    BY <1>1, <1>2, <1>3 DEF Base, TypeOK
  <1>5. Fresh'
    BY <1>1 DEF Base, Fresh, TypeOK
  <1>6. Points'
    BY <1>1, <1>2 DEF Base, Points, TypeOK, Unreaped
  <1>7. FlagHasChild'
    BY <1>1, <1>2 DEF Base, FlagHasChild, TypeOK
  <1> QED
    BY <1>4, <1>5, <1>6, <1>7 DEF Base

LEMMA noticedBase ==
  ASSUME Base, Noticed
  PROVE  Base'
  <1>1. PICK how \in Dead : Notice(how)
    BY DEF Noticed
  <1>2. /\ UNCHANGED <<process, config, alive, runs, printed, order, files, mishaps>>
        /\ process # 0 /\ process = runs
    BY DEF Noticed, Base, Points
  <1>3. /\ child' = [child EXCEPT ![process] = "reaped"] /\ ~isRunning'
        /\ isRunning' \in BOOLEAN /\ EndTold(how)
    BY <1>1 DEF Notice
  <1>4. /\ progress' \in Nat /\ process \in Runs
        /\ verdict' \in [Runs -> [Verdicts -> Nat]]
        /\ \A q \in Runs : q # process => verdict'[q] = verdict[q]
    BY <1>2, <1>3, ToldFacts
  <1>5. child' \in [Runs -> ChildStates]
    BY <1>3 DEF Base, TypeOK, ChildStates
  <1>6. TypeOK'
    BY <1>2, <1>3, <1>4, <1>5 DEF Base, TypeOK
  <1>7. Fresh'
    BY <1>2, <1>3, <1>4 DEF Base, Fresh, TypeOK, Runs
  <1>8. Points' /\ FlagHasChild'
    BY <1>2, <1>3 DEF Base, Points, FlagHasChild, TypeOK, Unreaped
  <1> QED
    BY <1>6, <1>7, <1>8 DEF Base

LEMMA readBase ==
  ASSUME Base, onProcessReadyRead
  PROVE  Base'
  <1>1. /\ process \in Runs /\ process = runs
        /\ UNCHANGED <<process, config, isRunning, alive, runs, child, order, files, verdict,
                       mishaps>>
        /\ printed[process] < order[process].epochs
        /\ printed' = [printed EXCEPT ![process] = @ + 1]
    BY ConstantsAssumption DEF onProcessReadyRead, Base, Points, TypeOK, Runs
  <1>2. progress' \in Nat
    BY <1>1, LineFacts DEF onProcessReadyRead, Base, TypeOK
  <1>3. printed' \in [Runs -> Nat] /\ \A r \in Runs : printed'[r] <= order'[r].epochs
    <2>1. \A r \in Runs : order[r].epochs \in Nat /\ printed[r] \in Nat /\ printed[r] <= order[r].epochs
      BY ConfigFacts DEF Base, TypeOK
    <2>2. printed \in [Runs -> Nat]
      BY DEF Base, TypeOK
    <2> QED
      BY <1>1, <2>1, <2>2
  <1>4. TypeOK'
    BY <1>1, <1>2, <1>3 DEF Base, TypeOK
  <1>5. Fresh'
    BY <1>1 DEF Base, Fresh, TypeOK, Runs
  <1>6. Points' /\ FlagHasChild'
    BY <1>1 DEF Base, Points, FlagHasChild, Unreaped
  <1> QED
    BY <1>4, <1>5, <1>6 DEF Base

LEMMA errorBase ==
  ASSUME Base, onProcessError
  PROVE  Base'
  <1>1. process \in Runs /\ process = runs /\ TypeOK
    BY ConstantsAssumption DEF onProcessError, Base, Points, TypeOK, Runs
  <1>2. /\ ~isRunning' /\ isRunning' \in BOOLEAN
        /\ UNCHANGED <<process, config, progress, alive, runs, child, printed, order, files>>
        /\ mishaps' = mishaps \union {"ioError"}
        /\ verdict' = Reported(process, Failed(config.path), 1)
    BY DEF onProcessError
  <1>3. /\ verdict' \in [Runs -> [Verdicts -> Nat]]
        /\ \A q \in Runs : q # process => verdict'[q] = verdict[q]
    <2>1. Failed(config.path) \in Verdicts
      BY <1>1, JudgedFacts DEF TypeOK
    <2> QED
      BY <1>1, <1>2, <2>1, ReportedFacts
  <1>4. TypeOK'
    BY <1>1, <1>2, <1>3 DEF TypeOK
  <1>5. Fresh'
    BY <1>1, <1>2, <1>3 DEF Base, Fresh, TypeOK, Runs
  <1>6. Points' /\ FlagHasChild'
    BY <1>2 DEF Base, Points, FlagHasChild, Unreaped
  <1> QED
    BY <1>4, <1>5, <1>6 DEF Base

LEMMA killBase ==
  ASSUME Base, stopByKill
  PROVE  Base'
  <1>1. PICK how \in Dead : child' = [child EXCEPT ![process] = how]
    BY DEF stopByKill
  <1>2. /\ process \in Runs /\ process = runs /\ ~isRunning' /\ isRunning' \in BOOLEAN
        /\ UNCHANGED <<process, config, progress, alive, runs, printed, order, files, verdict>>
        /\ mishaps' = mishaps \cup {"stopTimeout"}
    <2>1. process \in Runs /\ process = runs
      BY ConstantsAssumption DEF stopByKill, Base, Points, TypeOK, Runs
    <2> QED
      BY <2>1 DEF stopByKill
  <1>3. child' \in [Runs -> ChildStates]
    BY <1>1 DEF Base, TypeOK, ChildStates
  <1>4. TypeOK'
    BY <1>2, <1>3 DEF Base, TypeOK
  <1>5. Fresh'
    BY <1>1, <1>2 DEF Base, Fresh, TypeOK, Runs
  <1>6. Points' /\ FlagHasChild'
    BY <1>1, <1>2 DEF Base, Points, FlagHasChild, TypeOK, Unreaped
  <1> QED
    BY <1>4, <1>5, <1>6 DEF Base

\* The engine goes, or a slot deletes the QProcess it is called by.
LEMMA destroyBase ==
  ASSUME Base, destroy \/ startInSlot
  PROVE  Base'
  <1>1. CASE startInSlot
    BY <1>1 DEF startInSlot, Base, TypeOK, Fresh, Points, FlagHasChild, Unreaped
  <1>2. CASE destroy
    <2>1. /\ ~isRunning' /\ isRunning' \in BOOLEAN /\ alive' \in BOOLEAN
          /\ UNCHANGED <<process, config, runs, printed, order, files, mishaps>>
          /\ child' = [r \in Runs |-> IF r = process THEN "reaped" ELSE child[r]]
      BY <1>2 DEF destroy
    <2>2. /\ progress' \in Nat /\ verdict' \in [Runs -> [Verdicts -> Nat]]
          /\ \A q \in Runs : q # process => verdict'[q] = verdict[q]
      <3>1. CASE isRunning /\ \E how \in EndsInTime : EndTold(how)
        <4>1. process # 0 /\ EndsInTime \subseteq Dead
          BY <3>1 DEF Base, FlagHasChild, EndsInTime
        <4> QED
          BY <3>1, <4>1, ToldFacts
      <3>2. CASE UNCHANGED <<progress, verdict>>
        BY <3>2 DEF Base, TypeOK
      <3> QED
        BY <1>2, <3>1, <3>2 DEF destroy
    <2>3. child' \in [Runs -> ChildStates]
      BY <2>1 DEF Base, TypeOK, ChildStates
    <2>4. TypeOK'
      BY <2>1, <2>2, <2>3 DEF Base, TypeOK
    <2>5. Fresh'
      BY <2>1, <2>2 DEF Base, Fresh, Points, TypeOK, Runs
    <2>6. Points' /\ FlagHasChild'
      BY <2>1 DEF Base, Points, FlagHasChild, Unreaped
    <2> QED
      BY <2>4, <2>5, <2>6 DEF Base
  <1> QED
    BY <1>1, <1>2

LEMMA NextBase ==
  ASSUME Base, [Next]_vars
  PROVE  Base'
  <1>1. CASE UNCHANGED vars
    BY <1>1 DEF vars, Base, TypeOK, Fresh, Points, FlagHasChild, Unreaped
  <1> QED
    BY Zenon, <1>1, Steps, startBase, restartBase, childBase, NoticedFacts, noticedBase,
       readBase, errorBase, killBase, destroyBase

LEMMA BaseHolds == Spec => []Base
  <1>1. Base /\ [Next]_vars => Base'
    BY NextBase
  <1> QED
    BY <1>1, InitBase, PTL DEF Spec

\* Every variable keeps its type; no child announces more epochs than asked,
\* and what is read off a line cut short is still a number.
THEOREM TypeCorrect == Spec => []TypeOK
  BY BaseHolds, PTL DEF Base

\* While startFineTuning is refused there is a child whose end will clear the
\* flag.
THEOREM FlagAlwaysHasChild == Spec => []FlagHasChild
  BY BaseHolds, PTL DEF Base

\* However starts and stops time out, every child but the last is reaped.
THEOREM OneChildAtATime == Spec => []OneChild
  <1>1. Base => OneChild
    BY DEF Base, Points, OneChild
  <1> QED
    BY <1>1, BaseHolds, PTL

-----------------------------------------------------------------------------
(***************************************************************************)
(* Runs are told of truly.                                                 *)
(***************************************************************************)

\* What was reported of other runs stands.
LEMMA RowsKept ==
  ASSUME Reports, NEW q \in Runs, verdict'[q] = verdict[q], order'[q] = order[q],
         child[q] = "reaped" => child'[q] = "reaped"
  PROVE  /\ Successes(verdict'[q]) = Successes(verdict[q])
         /\ Successes(verdict'[q]) # {} => child'[q] = "reaped"
         /\ \A v, w \in Successes(verdict'[q]) : v = w /\ verdict'[q][v] = 1
         /\ mishaps = {} =>
              \/ \A v \in Verdicts : verdict'[q][v] = 0
              \/ /\ child'[q] = "reaped"
                 /\ \E v \in Verdicts :
                      /\ v.path = order'[q].path
                      /\ verdict'[q][v] <= IF v.said = "completed" THEN 1 ELSE 2
                      /\ \A w \in Verdicts : w # v => verdict'[q][w] = 0
  <1>1. Successes(verdict'[q]) = Successes(verdict[q])
    BY DEF Successes
  <1>2. \A v, w \in Successes(verdict[q]) : v = w /\ verdict[q][v] = 1
    BY DEF Reports, SuccessIsToldOnce
  <1>3. Successes(verdict[q]) # {} => child[q] = "reaped"
    BY DEF Reports, SuccessIsLast
  <1>4. mishaps = {} =>
          \/ \A v \in Verdicts : verdict[q][v] = 0
          \/ /\ child[q] = "reaped"
             /\ \E v \in Verdicts :
                  /\ v.path = order[q].path
                  /\ verdict[q][v] <= IF v.said = "completed" THEN 1 ELSE 2
                  /\ \A w \in Verdicts : w # v => verdict[q][w] = 0
    BY DEF Reports, ReportedOnce
  <1> QED
    BY <1>1, <1>2, <1>3, <1>4

\* A step that reports nothing.
LEMMA QuietReports ==
  ASSUME Reports, UNCHANGED <<verdict, order>>, mishaps' = {} => mishaps = {},
         \A q \in Runs : child[q] = "reaped" => child'[q] = "reaped"
  PROVE  Reports'
  <1>1. ReportedOnce' /\ SuccessIsLast' /\ SuccessIsToldOnce'
    BY RowsKept DEF ReportedOnce, SuccessIsLast, SuccessIsToldOnce
  <1> QED
    BY <1>1 DEF Reports

\* The rest of one run's reports, once its only verdict is v.
LEMMA RowTold ==
  ASSUME NEW q \in Runs, NEW v \in Verdicts,
         \A w \in Verdicts : w # v => verdict'[q][w] = 0,
         v.said = "completed" => verdict'[q][v] = 1
  PROVE  \A u, w \in Successes(verdict'[q]) : u = w /\ verdict'[q][u] = 1
  BY DEF Successes

\* Of a child yet unreaped no success has been told, and nothing while all is
\* calm.
LEMMA Untold ==
  ASSUME Base, Reports, NEW q \in Runs, child[q] # "reaped"
  PROVE  /\ \A v \in Verdicts : v.said = "completed" => verdict[q][v] = 0
         /\ mishaps = {} => \A v \in Verdicts : verdict[q][v] = 0
  <1>1. \A v \in Verdicts : verdict[q][v] \in Nat
    BY DEF Base, TypeOK
  <1>2. Successes(verdict[q]) = {}
    BY DEF Reports, SuccessIsLast
  <1>3. mishaps = {} => \A v \in Verdicts : verdict[q][v] = 0
    BY DEF Reports, ReportedOnce
  <1> QED
    BY <1>1, <1>2, <1>3 DEF Successes

\* The end of the current child, unreaped until now, is told under its own
\* configuration.
LEMMA EndReports ==
  ASSUME Base, Reports, NEW how \in Dead, EndTold(how), process # 0,
         child[process] # "reaped", child'[process] = "reaped",
         \A q \in Runs : child[q] = "reaped" => child'[q] = "reaped",
         UNCHANGED <<order, mishaps>>
  PROVE  Reports'
  <1> DEFINE v == [said |-> Judged(how, config.path), path |-> config.path]
  <1>1. process \in Runs /\ config = order[process] /\ config \in Config /\ TypeOK
    BY ToldFacts DEF Base, Points, TypeOK
  <1>2. v \in Verdicts /\ v.path = order[process].path
    BY <1>1, JudgedFacts
  <1>3. /\ Times(how) \in 1 .. 2
        /\ v.said = "completed" => Times(how) = 1
    BY DEF Times, Judged
  <1>4. verdict' = Reported(process, v, Times(how))
    BY DEF EndTold
  <1> HIDE DEF v
  <1>5. /\ verdict'[process][v] = verdict[process][v] + Times(how)
        /\ \A w \in Verdicts : w # v => verdict'[process][w] = verdict[process][w]
        /\ \A q \in Runs : q # process => verdict'[q] = verdict[q]
    BY <1>1, <1>2, <1>3, <1>4, ReportedFacts
  <1>6. verdict[process][v] \in Nat
    BY <1>1, <1>2 DEF TypeOK
  <1>7. ReportedOnce'
    <2>1. ASSUME mishaps = {}
          PROVE  /\ verdict'[process][v] <= IF v.said = "completed" THEN 1 ELSE 2
                 /\ \A w \in Verdicts : w # v => verdict'[process][w] = 0
      BY <1>1, <1>2, <1>3, <1>5, <2>1, Untold
    <2> QED
      BY <1>2, <1>5, <2>1, RowsKept DEF ReportedOnce
  <1>8. \A u, w \in Successes(verdict'[process]) : u = w /\ verdict'[process][u] = 1
    <2>1. \A w \in Verdicts : w.said = "completed" => verdict[process][w] = 0
      BY <1>1, Untold
    <2> QED
      BY <1>2, <1>3, <1>5, <1>6, <2>1 DEF Successes
  <1>9. SuccessIsToldOnce'
    BY <1>5, <1>8, RowsKept DEF SuccessIsToldOnce
  <1>10. SuccessIsLast'
    BY <1>5, RowsKept DEF SuccessIsLast
  <1> QED
    BY <1>7, <1>9, <1>10 DEF Reports

\* A launch that ends the old child, if at all, with one report of it.
LEMMA LaunchReports ==
  ASSUME Base, Reports, NEW c \in Config, NEW outcome \in StartOutcomes, Launch(c, outcome),
         NEW v \in Verdicts, NEW times \in Nat, LaunchTold(c, outcome, v, times),
         times > 0 => child[process] # "reaped" /\ process # 0,
         v.said = "completed" => times \in 0 .. 1,
         mishaps' = {} => mishaps = {} /\ times = 0 /\ outcome # "starting"
  PROVE  Reports'
  <1>0. TypeOK /\ (process # 0 => process \in Runs)
    BY ConstantsAssumption DEF Base, TypeOK, Runs
  <1>1. /\ runs + 1 \in Runs /\ runs + 1 # process
        /\ order' = [order EXCEPT ![runs + 1] = c]
        /\ child' = [r \in Runs |-> IF r = runs + 1 THEN outcome
                                    ELSE IF r = process THEN "reaped" ELSE child[r]]
    BY LaunchFacts DEF Launch
  <1>2. \A q \in Runs : q # runs + 1 =>
          order'[q] = order[q] /\ (child[q] = "reaped" => child'[q] = "reaped")
    BY <1>0, <1>1 DEF TypeOK
  <1>3. \A q \in Runs : q \notin {process, runs + 1} => verdict'[q] = verdict[q]
    BY LaunchFacts
  <1> DEFINE f == Failed(c.path)
  <1>4. f \in Verdicts /\ f.said = "failed" /\ f.path = c.path
    BY JudgedFacts DEF Failed
  <1>5. /\ verdict'[runs + 1][f] \in 0 .. 2
        /\ \A w \in Verdicts : w # f => verdict'[runs + 1][w] = 0
        /\ outcome = "running" => \A w \in Verdicts : verdict'[runs + 1][w] = 0
    BY LaunchFacts
  <1> HIDE DEF f
  <1>6. Successes(verdict'[runs + 1]) = {}
    BY <1>4, <1>5 DEF Successes
  <1>7. ASSUME process # 0
        PROVE  /\ verdict'[process][v] = verdict[process][v] + times
               /\ \A w \in Verdicts : w # v => verdict'[process][w] = verdict[process][w]
    BY <1>7, LaunchFacts
  <1>8. ASSUME process # 0
        PROVE  /\ child'[process] = "reaped"
               /\ \A u, w \in Successes(verdict'[process]) : u = w /\ verdict'[process][u] = 1
    <2>1. child'[process] = "reaped" /\ process \in Runs
      BY <1>0, <1>1, <1>8
    <2>2. verdict[process][v] \in Nat
      BY <1>0, <2>1 DEF TypeOK
    <2>3. CASE times = 0
      <3>1. \A w \in Verdicts : verdict'[process][w] = verdict[process][w]
        BY <1>7, <1>8, <2>2, <2>3
      <3>2. Successes(verdict'[process]) = Successes(verdict[process])
        BY <3>1 DEF Successes
      <3>3. \A u, w \in Successes(verdict[process]) : u = w /\ verdict[process][u] = 1
        BY <2>1 DEF Reports, SuccessIsToldOnce
      <3>4. Successes(verdict[process]) \subseteq Verdicts
        BY DEF Successes
      <3> QED
        BY Zenon, <2>1, <3>1, <3>2, <3>3, <3>4
    <2>4. CASE times # 0
      <3>1. \A w \in Verdicts : w.said = "completed" => verdict[process][w] = 0
        <4>1. times > 0
          BY <2>4
        <4> QED
          BY <2>1, <4>1, Untold
      <3>2. v.said = "completed" => verdict'[process][v] = 1
        BY <1>7, <1>8, <2>4, <3>1
      <3>3. \A w \in Verdicts : w # v /\ w.said = "completed" => verdict'[process][w] = 0
        BY <1>7, <1>8, <3>1
      <3> QED
        <4>1. \A u \in Successes(verdict'[process]) : u = v /\ v.said = "completed"
          BY <3>3 DEF Successes
        <4> QED
          BY <2>1, <3>2, <4>1
    <2> QED
      BY <2>1, <2>3, <2>4
  <1>9. ASSUME NEW q \in Runs
        PROVE  /\ Successes(verdict'[q]) # {} => child'[q] = "reaped"
               /\ \A u, w \in Successes(verdict'[q]) : u = w /\ verdict'[q][u] = 1
    <2>1. CASE q = runs + 1
      BY <1>6, <2>1
    <2>2. CASE q = process
      <3>1. process # 0
        BY <2>2 DEF Runs
      <3> QED
        BY <1>8, <2>2, <3>1
    <2>3. CASE q \notin {process, runs + 1}
      BY <1>2, <1>3, <2>3, RowsKept
    <2> QED
      BY <2>1, <2>2, <2>3
  <1>10. SuccessIsLast' /\ SuccessIsToldOnce'
    BY <1>9 DEF SuccessIsLast, SuccessIsToldOnce
  <1>11. ReportedOnce'
    <2> SUFFICES ASSUME mishaps' = {}, NEW q \in Runs
                 PROVE  \/ \A w \in Verdicts : verdict'[q][w] = 0
                        \/ /\ child'[q] = "reaped"
                           /\ \E u \in Verdicts :
                                /\ u.path = order'[q].path
                                /\ verdict'[q][u] <= IF u.said = "completed" THEN 1 ELSE 2
                                /\ \A w \in Verdicts : w # u => verdict'[q][w] = 0
      BY DEF ReportedOnce
    <2>1. mishaps = {} /\ times = 0 /\ outcome # "starting"
      OBVIOUS
    <2>2. CASE q = runs + 1
      <3>1. CASE outcome = "running"
        BY <1>5, <2>2, <3>1
      <3>2. CASE outcome = "reaped"
        <4>1. child'[q] = "reaped" /\ order'[q] = c
          BY <1>0, <1>1, <2>2, <3>2 DEF TypeOK
        <4> QED
          BY <1>4, <1>5, <2>2, <4>1
      <3> QED
        BY <2>1, <3>1, <3>2 DEF StartOutcomes
    <2>3. CASE q # runs + 1 /\ q # process
      BY <1>2, <1>3, <2>1, <2>3, RowsKept
    <2>4. CASE q = process
      <3>1. process # 0 /\ q # runs + 1
        BY <1>1, <2>4 DEF Runs
      <3>2. \A w \in Verdicts : verdict'[q][w] = verdict[q][w]
        <4>1. verdict[q][v] \in Nat
          BY <1>0 DEF TypeOK
        <4> QED
          BY <1>7, <2>1, <2>4, <3>1, <4>1
      <3>3. \/ \A w \in Verdicts : verdict[q][w] = 0
            \/ \E u \in Verdicts :
                 /\ u.path = order[q].path
                 /\ verdict[q][u] <= IF u.said = "completed" THEN 1 ELSE 2
                 /\ \A w \in Verdicts : w # u => verdict[q][w] = 0
        BY <2>1 DEF Reports, ReportedOnce
      <3> QED
        BY <1>2, <1>8, <2>4, <3>1, <3>2, <3>3
    <2> QED
      BY <2>2, <2>3, <2>4
  <1> QED
    BY <1>10, <1>11 DEF Reports

LEMMA startTrue ==
  ASSUME IInv, NEW c \in Config, NEW outcome \in StartOutcomes, startFineTuning(c, outcome)
  PROVE  FlagIsTrue' /\ Reports'
  <1>0. Base /\ Reports /\ Launch(c, outcome)
    BY DEF IInv, startFineTuning
  <1>1. PICK times \in DeletedTimes : LaunchTold(c, outcome, DeletedVerdict(c), times)
    BY DEF startFineTuning
  <1>2. DeletedVerdict(c) \in Verdicts /\ times \in Nat
    BY JudgedFacts DEF DeletedVerdict, DeletedTimes
  <1>3. times > 0 => child[process] # "reaped" /\ process # 0
    BY DEF DeletedTimes, Unreaped
  <1>4. DeletedVerdict(c).said = "completed" => times \in 0 .. 1
    BY DEF DeletedVerdict, Judged, DeletedTimes
  <1>5. mishaps' = {} => mishaps = {} /\ outcome # "starting"
    <2>1. mishaps' = mishaps \union {m \in {"startTimeout"} : outcome = "starting"}
      BY DEF startFineTuning
    <2> QED
      BY <2>1
  <1>6. mishaps = {} => process = 0 \/ ~Unreaped(process)
    BY DEF IInv, FlagIsTrue, startFineTuning
  <1>7. mishaps = {} => times = 0
    BY <1>1, <1>6 DEF DeletedTimes
  <1>8. Reports'
    BY <1>0, <1>1, <1>2, <1>3, <1>4, <1>5, <1>7, LaunchReports
  <1>9. FlagIsTrue'
    <2>1. /\ runs + 1 \in Runs /\ process' = runs + 1 /\ runs + 1 # 0
          /\ child' = [r \in Runs |-> IF r = runs + 1 THEN outcome
                                      ELSE IF r = process THEN "reaped" ELSE child[r]]
      <3>1. runs + 1 \in Runs /\ runs \in Nat
        BY <1>0, ConstantsAssumption DEF Launch, Base, TypeOK, Runs
      <3> QED
        BY <1>0, <3>1 DEF Launch
    <2>2. isRunning' = (outcome = "running")
      BY DEF startFineTuning
    <2>3. outcome = "running" \/ outcome = "reaped" \/ mishaps' # {}
      BY <1>5 DEF StartOutcomes
    <2>4. child'[process'] = outcome /\ process' # 0
      BY <2>1
    <2> QED
      BY <2>2, <2>3, <2>4 DEF FlagIsTrue, Unreaped
  <1> QED
    BY <1>8, <1>9

LEMMA restartTrue ==
  ASSUME IInv, NEW c \in Config, NEW outcome \in StartOutcomes, stopRestarted(c, outcome)
  PROVE  FlagIsTrue' /\ Reports'
  <1>0. Base /\ Reports /\ Launch(c, outcome)
    BY DEF IInv, stopRestarted
  <1>1. PICK how \in Dead :
          LaunchTold(c, outcome, [said |-> Judged(how, config.path), path |-> config.path],
                     Times(how))
    BY DEF stopRestarted, EndsInTime
  <1> DEFINE v == [said |-> Judged(how, config.path), path |-> config.path]
  <1>2. v \in Verdicts /\ Times(how) \in Nat
    BY JudgedFacts DEF Times, IInv, Base, TypeOK
  <1>3. v.said = "completed" => Times(how) \in 0 .. 1
    BY DEF Judged, Times
  <1>4. child[process] # "reaped" /\ process # 0
    BY DEF stopRestarted, IInv, Base, FlagHasChild, Dead
  <1>5. mishaps' # {}
    BY DEF stopRestarted
  <1>6. LaunchTold(c, outcome, v, Times(how))
    BY <1>1
  <1> HIDE DEF v
  <1>7. Reports'
    BY <1>0, <1>2, <1>3, <1>4, <1>5, <1>6, LaunchReports
  <1> QED
    BY <1>5, <1>7 DEF FlagIsTrue

LEMMA childTrue ==
  ASSUME IInv, NEW r \in Runs,
         childStartsLate(r) \/ \E how \in Dead : childExits(r, how)
  PROVE  FlagIsTrue' /\ Reports'
  <1>1. PICK s \in {"running"} \union Dead :
          /\ child' = [child EXCEPT ![r] = s]
          /\ child[r] \in {"starting", "running"}
          /\ UNCHANGED <<process, isRunning, alive, runs, order, verdict, mishaps>>
    BY DEF childStartsLate, childExits
  <1>2. r = process
    BY <1>1 DEF IInv, Base, Points, Unreaped
  <1>3. child \in [Runs -> ChildStates]
    BY DEF IInv, Base, TypeOK
  <1>4. FlagIsTrue'
    BY <1>1, <1>2, <1>3 DEF IInv, FlagIsTrue, Unreaped, Dead
  <1>5. \A q \in Runs : child[q] = "reaped" => child'[q] = "reaped"
    BY <1>1, <1>3
  <1> QED
    BY <1>1, <1>4, <1>5, QuietReports DEF IInv

LEMMA noticedTrue ==
  ASSUME IInv, Noticed
  PROVE  FlagIsTrue' /\ Reports'
  <1>1. PICK how \in Dead : Notice(how)
    BY DEF Noticed
  <1>2. /\ UNCHANGED <<process, config, alive, runs, order, mishaps>>
        /\ process \in Runs /\ process # 0
        /\ child[process] # "reaped"
    BY ConstantsAssumption DEF Noticed, IInv, Base, Points, TypeOK, Runs, Dead
  <1>3. child' = [child EXCEPT ![process] = "reaped"] /\ ~isRunning' /\ EndTold(how)
    BY <1>1 DEF Notice
  <1>4. child \in [Runs -> ChildStates]
    BY DEF IInv, Base, TypeOK
  <1>5. FlagIsTrue'
    BY <1>2, <1>3, <1>4 DEF FlagIsTrue, Unreaped
  <1>6. child'[process] = "reaped" /\ \A q \in Runs : child[q] = "reaped" => child'[q] = "reaped"
    BY <1>2, <1>3, <1>4
  <1> QED
    BY <1>2, <1>3, <1>5, <1>6, EndReports DEF IInv

\* A failed read says nothing of success.
LEMMA errorTrue ==
  ASSUME IInv, onProcessError
  PROVE  FlagIsTrue' /\ Reports'
  <1>1. process \in Runs /\ TypeOK /\ Reports
    BY ConstantsAssumption DEF onProcessError, IInv, Base, TypeOK, Runs
  <1>2. /\ UNCHANGED <<child, order>> /\ mishaps' # {}
        /\ verdict' = Reported(process, Failed(config.path), 1)
    BY DEF onProcessError
  <1>3. Failed(config.path) \in Verdicts /\ Failed(config.path).said = "failed"
    BY <1>1, JudgedFacts DEF TypeOK, Failed
  <1>4. /\ \A w \in Verdicts : w # Failed(config.path) => verdict'[process][w] = verdict[process][w]
        /\ \A q \in Runs : q # process => verdict'[q] = verdict[q]
    BY <1>1, <1>2, <1>3, ReportedFacts
  <1>5. Successes(verdict'[process]) = Successes(verdict[process])
    BY <1>3, <1>4 DEF Successes
  <1>6. \A w \in Successes(verdict'[process]) : verdict'[process][w] = verdict[process][w]
    BY <1>3, <1>4 DEF Successes
  <1>7. /\ Successes(verdict[process]) # {} => child'[process] = "reaped"
        /\ \A u, w \in Successes(verdict'[process]) : u = w /\ verdict'[process][u] = 1
    BY <1>1, <1>2, <1>5, <1>6 DEF Reports, SuccessIsLast, SuccessIsToldOnce
  <1>8. SuccessIsLast' /\ SuccessIsToldOnce'
    BY <1>1, <1>2, <1>4, <1>5, <1>7, RowsKept DEF SuccessIsLast, SuccessIsToldOnce
  <1> QED
    BY <1>2, <1>8 DEF Reports, ReportedOnce, FlagIsTrue

LEMMA killTrue ==
  ASSUME IInv, stopByKill
  PROVE  FlagIsTrue' /\ Reports'
  <1>1. /\ UNCHANGED <<verdict, order>> /\ mishaps' # {} /\ child[process] = "running"
        /\ \E how \in Dead : child' = [child EXCEPT ![process] = how]
    BY DEF stopByKill
  <1>2. \A q \in Runs : child[q] = "reaped" => child'[q] = "reaped"
    BY <1>1 DEF IInv, Base, TypeOK
  <1> QED
    BY <1>1, <1>2, QuietReports DEF IInv, FlagIsTrue

LEMMA restTrue ==
  ASSUME IInv, destroy \/ startInSlot \/ onProcessReadyRead \/ UNCHANGED vars
  PROVE  FlagIsTrue' /\ Reports'
  <1>1. CASE destroy
    <2>1. /\ UNCHANGED <<order, mishaps>> /\ ~alive'
          /\ child' = [r \in Runs |-> IF r = process THEN "reaped" ELSE child[r]]
      BY <1>1 DEF destroy
    <2>2. \A q \in Runs : child[q] = "reaped" => child'[q] = "reaped"
      BY <2>1
    <2>3. CASE UNCHANGED verdict
      BY <2>1, <2>2, <2>3, QuietReports DEF IInv, FlagIsTrue
    <2>4. CASE isRunning /\ \E how \in EndsInTime : EndTold(how)
      <3>1. /\ process # 0 /\ process \in Runs /\ child[process] # "reaped"
            /\ EndsInTime \subseteq Dead
        BY <2>4, ConstantsAssumption
           DEF IInv, Base, TypeOK, FlagHasChild, Runs, Dead, EndsInTime
      <3>2. child'[process] = "reaped"
        BY <2>1, <3>1
      <3> QED
        BY <2>1, <2>2, <2>4, <3>1, <3>2, EndReports DEF IInv, FlagIsTrue
    <2> QED
      BY <1>1, <2>3, <2>4 DEF destroy
  <1>2. CASE startInSlot
    <2>1. UNCHANGED <<verdict, order, mishaps, child>> /\ ~alive'
      BY <1>2 DEF startInSlot
    <2> QED
      BY <2>1, QuietReports DEF IInv, FlagIsTrue
  <1>3. CASE onProcessReadyRead \/ UNCHANGED vars
    <2>1. UNCHANGED <<verdict, order, mishaps, child, process, isRunning, alive>>
      BY <1>3 DEF onProcessReadyRead, vars
    <2>2. FlagIsTrue'
      BY <2>1 DEF IInv, FlagIsTrue, Unreaped
    <2> QED
      BY <2>1, <2>2, QuietReports DEF IInv
  <1> QED
    BY <1>1, <1>2, <1>3

LEMMA NextIInv ==
  ASSUME IInv, [Next]_vars
  PROVE  IInv'
  <1>1. Base /\ Base'
    BY NextBase DEF IInv
  <1>2. FlagIsTrue' /\ Reports'
    BY Zenon, <1>1, Steps, startTrue, restartTrue, childTrue, NoticedFacts, noticedTrue,
       errorTrue, killTrue, restTrue
  <1> QED
    BY <1>1, <1>2 DEF IInv

LEMMA InitIInv == Init => IInv
  <1>1. ASSUME Init PROVE FlagIsTrue /\ Reports
    <2>1. \A r \in Runs, v \in Verdicts : verdict[r][v] = 0
      BY <1>1 DEF Init
    <2>2. \A r \in Runs : Successes(verdict[r]) = {}
      BY <2>1 DEF Successes
    <2> QED
      BY <1>1, <2>1, <2>2
         DEF Init, FlagIsTrue, Reports, ReportedOnce, SuccessIsLast, SuccessIsToldOnce
  <1> QED
    BY <1>1, InitBase DEF IInv

\* One verdict is one verdict.
LEMMA ReportsAgree == ReportedOnce /\ TypeOK => VerdictsAgree
  <1> SUFFICES ASSUME ReportedOnce, TypeOK, mishaps = {}, NEW r \in Runs, NEW v \in Verdicts,
                      verdict[r][v] > 0
               PROVE  /\ v.path = order[r].path
                      /\ verdict[r][v] <= IF v.said = "completed" THEN 1 ELSE 2
                      /\ \A w \in Verdicts : verdict[r][w] > 0 => w = v
    BY DEF VerdictsAgree
  <1>1. PICK u \in Verdicts : /\ u.path = order[r].path
                              /\ verdict[r][u] <= IF u.said = "completed" THEN 1 ELSE 2
                              /\ \A w \in Verdicts : w # u => verdict[r][w] = 0
    BY DEF ReportedOnce
  <1>2. \A w \in Verdicts : verdict[r][w] > 0 => w = u
    BY <1>1
  <1> QED
    BY <1>1, <1>2

\* Whatever timed out, broke or restarted, a run is reported completed once at
\* most.  Unless a start timed out, a pipe broke, a child had to be killed or a
\* slot restarted within a stop, the flag tells whether there is a child, and
\* what is reported of a run is one verdict under its own path, a failure by a
\* signal for each of the two ways it is learnt of.
THEOREM RunsStayToldTruly == Spec => []RunsAreToldTruly
  <1>1. IInv /\ [Next]_vars => IInv'
    BY NextIInv
  <1>2. IInv => RunsAreToldTruly
    BY ReportsAgree DEF IInv, Base, Reports, RunsAreToldTruly
  <1> QED
    BY <1>1, <1>2, InitIInv, PTL DEF Spec

-----------------------------------------------------------------------------
(***************************************************************************)
(* Deaths are noticed.  ENABLED is opaque to the provers: that the slot    *)
(* can run whenever its guard holds is the theorem's hypothesis.           *)
(***************************************************************************)

\* onProcessFinished asks for nothing but a dead child of the engine.
NoticeIsPossible ==
  alive /\ process # 0 /\ child[process] \in Dead => ENABLED <<onProcessFinished>>_vars

\* A dead engine's flag is down.
LEMMA FlaggedAlive == Spec => [](isRunning => alive)
  <1>1. Init => (isRunning => alive)
    BY DEF Init
  <1>2. (isRunning => alive) /\ [Next]_vars => (isRunning => alive)'
    BY Steps DEF startFineTuning, stopRestarted, startInSlot, childStartsLate, childExits, stop, stopByKill, destroy,
       onProcessReadyRead, onProcessFinished, onProcessError, Notice, vars
  <1> QED
    BY <1>1, <1>2, PTL DEF Spec

Unnoticed == isRunning /\ child[runs] \in Dead

\* Only the slots and the owner's calls touch a dead child, and they clear
\* the flag; while it is up no call starts another.
LEMMA UnnoticedStays ==
  ASSUME Base, Unnoticed, [Next]_vars, isRunning'
  PROVE  Unnoticed'
  <1>1. process = runs /\ process # 0 /\ child[runs] \in Dead /\ isRunning
    BY DEF Base, FlagHasChild, Unnoticed
  <1>2. CASE onProcessReadyRead \/ UNCHANGED vars
    BY <1>1, <1>2 DEF onProcessReadyRead, vars, Unnoticed
  <1>3. CASE \E r \in Runs : childStartsLate(r) \/ \E how \in Dead : childExits(r, how)
    <2>1. PICK r \in Runs : (\E s : child' = [child EXCEPT ![r] = s])
                           /\ child[r] \in {"starting", "running"} /\ UNCHANGED runs
      BY <1>3 DEF childStartsLate, childExits
    <2>2. r # runs
      BY <1>1, <2>1 DEF Dead
    <2> QED
      BY <1>1, <2>1, <2>2 DEF Unnoticed, Base, TypeOK
  <1> QED
    BY <1>1, <1>2, <1>3, Steps DEF startFineTuning, stopRestarted, startInSlot, stop, stopByKill, destroy,
       onProcessFinished, onProcessError, Notice

\* Under fairness of onProcessFinished alone the flag does not stay up after
\* the child's death, for any number of runs: nothing the caller, the child or
\* the other slots do keeps the event loop from finding it.
THEOREM DeathsAreNoticed == FairSpec /\ []NoticeIsPossible => DeathIsNoticed
  <1>1. Base /\ Unnoticed /\ [Next]_vars => Unnoticed' \/ (~isRunning)'
    BY UnnoticedStays
  <1>2. <<onProcessFinished>>_vars => (~isRunning)'
    BY DEF onProcessFinished, Notice
  <1>3. Base /\ (isRunning => alive) /\ Unnoticed /\ NoticeIsPossible
          => ENABLED <<onProcessFinished>>_vars
    BY DEF Base, FlagHasChild, Unnoticed, NoticeIsPossible
  <1>4. Unnoticed <=> isRunning /\ child[runs] \in Dead
    BY DEF Unnoticed
  <1> QED
    BY <1>1, <1>2, <1>3, <1>4, BaseHolds, FlaggedAlive, PTL DEF FairSpec, Spec, DeathIsNoticed

=============================================================================
