---------------------------- MODULE FineTunePanel ----------------------------
(***************************************************************************)
(* The fine-tuning tab (FineTunePanel).  Training is simulated: Start      *)
(* creates a timer of its own, each of whose ticks adds 5 to a counter     *)
(* that all timers share (a static local of the lambda) and that nothing   *)
(* resets.  Stop does not know the timer.  When the counter has reached    *)
(* 100 a tick ends its timer's training: it announces the model            *)
(* (modelFineTuned) and opens a message box, whose own event loop lets the *)
(* other timers tick but keeps the user from the buttons.                  *)
(*                                                                         *)
(* Trainings and their timers are numbered in the order of Start.          *)
(***************************************************************************)
EXTENDS Naturals, FiniteSets

CONSTANTS
  MaxStarts,     \* bound: how often Start is pressed
  StepsToFull    \* ticks until the counter reaches 100: 20 in the code

ConstantsAssumption ==
  /\ MaxStarts \in Nat /\ StepsToFull \in Nat \ {0}

VARIABLES
  isTraining,    \* m_isTraining; Start is enabled iff FALSE, Stop iff TRUE
  progress,      \* the static counter, in ticks
  bar,           \* m_progressBar's value, in ticks
  starts,        \* how often Start was pressed
  ticking,       \* the timers that run
  boxes,         \* message boxes open, one inside the event loop of another
  \* history
  announced,     \* trainings that ended with modelFineTuned
  stopped        \* trainings Stop was pressed for

vars == <<isTraining, progress, bar, starts, ticking, boxes, announced,
          stopped>>

-----------------------------------------------------------------------------
Starts == 1 .. MaxStarts

Init ==
  /\ isTraining = FALSE /\ progress = 0 /\ bar = 0
  /\ starts = 0 /\ ticking = {} /\ boxes = 0
  /\ announced = {} /\ stopped = {}

\* A missing file name opens a warning and changes nothing.
onStartTraining ==
  /\ boxes = 0 /\ ~isTraining /\ starts < MaxStarts
  /\ isTraining' = TRUE /\ starts' = starts + 1
  /\ ticking' = ticking \union {starts + 1}
  /\ UNCHANGED <<progress, bar, boxes, announced, stopped>>

\* Variant with a defect: the timer is deleted and Start stays disabled.
onStopTrainingHalfway ==
  /\ boxes = 0 /\ isTraining
  /\ bar' = 0 /\ ticking' = ticking \ {starts}
  /\ stopped' = stopped \union {starts}
  /\ UNCHANGED <<isTraining, progress, starts, boxes, announced>>

onStopTraining ==
  /\ boxes = 0 /\ isTraining
  /\ isTraining' = FALSE /\ bar' = 0 /\ stopped' = stopped \union {starts}
  /\ UNCHANGED <<progress, starts, ticking, boxes, announced>>

\* QProgressBar::setValue ignores a value beyond its maximum.
ShowProgress == bar' = IF progress' <= StepsToFull THEN progress' ELSE bar

\* A tick that does not complete the training.
tick(t) ==
  /\ t \in ticking /\ progress + 1 < StepsToFull
  /\ progress' = progress + 1
  /\ ShowProgress
  /\ UNCHANGED <<isTraining, starts, ticking, boxes, announced, stopped>>

\* Variant with a defect: the timer is not stopped and completes again.
completeKeepingTimer(t) ==
  /\ t \in ticking /\ progress + 1 >= StepsToFull
  /\ progress' = IF progress < StepsToFull THEN progress + 1 ELSE progress
  /\ ShowProgress
  /\ isTraining' = FALSE /\ announced' = announced \union {t}
  /\ boxes' = boxes + 1
  /\ UNCHANGED <<starts, ticking, stopped>>

\* A tick that completes its timer's training, whether or not it was stopped
\* and whether or not another one is under way.  Beyond 100 the counter's
\* value no longer matters.
complete(t) ==
  /\ t \in ticking /\ progress + 1 >= StepsToFull
  /\ progress' = IF progress <= StepsToFull THEN progress + 1 ELSE progress
  /\ ShowProgress
  /\ ticking' = ticking \ {t} /\ isTraining' = FALSE
  /\ announced' = announced \union {t} /\ boxes' = boxes + 1
  /\ UNCHANGED <<starts, stopped>>

\* The user closes the innermost message box.
dismiss ==
  /\ boxes > 0
  /\ boxes' = boxes - 1
  /\ UNCHANGED <<isTraining, progress, bar, starts, ticking, announced,
                 stopped>>

Timer == \E t \in Starts : tick(t) \/ complete(t)
User == onStartTraining \/ onStopTraining \/ dismiss

Next == User \/ Timer

\* A running timer ticks: nested event loops process timers too.
Fairness == \A t \in Starts : WF_vars(tick(t) \/ complete(t))

-----------------------------------------------------------------------------
(***************************************************************************)
(* Properties.                                                             *)
(***************************************************************************)

\* Every variable has its type; open boxes are bounded by the trainings.
TypeOK ==
  /\ isTraining \in BOOLEAN
  /\ progress \in 0 .. StepsToFull + 1
  /\ bar \in 0 .. StepsToFull
  /\ starts \in 0 .. MaxStarts
  /\ ticking \subseteq Starts
  /\ boxes \in 0 .. MaxStarts
  /\ announced \subseteq Starts
  /\ stopped \subseteq Starts

\* While Start is disabled the last training's timer runs, which will enable
\* it again; no sequence of Start, Stop and completions loses it.
TrainingHasTimer == isTraining => starts \in ticking

\* A training announces its model once, by the end of its timer, and every one
\* that was not stopped does or still ticks.
AnnouncedOnce ==
  /\ ticking \intersect announced = {}
  /\ ticking \union announced \subseteq 1 .. starts
  /\ (1 .. starts) \ stopped \subseteq ticking \union announced

\* If nobody pressed Stop, one training runs at a time, and its timer with it.
OneTimerUnlessStopped ==
  stopped = {} => ticking = IF isTraining THEN {starts} ELSE {}

\* The timers that run are those of trainings: for Start to come back, for the
\* models to be announced, and in number.
TimersAgree == TrainingHasTimer /\ AnnouncedOnce /\ OneTimerUnlessStopped

\* Stop ends a training, as the tab then says ("Training stopped by user",
\* finetune_panel.cpp:397): its model is not announced.
StopIsFinal == stopped \intersect announced = {}

\* Every training ends: however often the user stops and starts.
TrainingEnds == isTraining ~> ~isTraining

=============================================================================
