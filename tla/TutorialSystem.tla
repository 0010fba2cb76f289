--------------------------- MODULE TutorialSystem ---------------------------
(***************************************************************************)
(* The programs of the tutorial and the benchmark, which put the library's *)
(* parts together: a queue, the harbor, the park, the radar in its two     *)
(* versions, and the main programs that run experiments with them.  A      *)
(* behavior is a run of one of them; the others stay as they are, over or  *)
(* closed.                                                                 *)
(***************************************************************************)
EXTENDS Harbor

CONSTANTS
  MaxVisitors, Attraction, Line, LinesOf, Server, LineOf, BatchSize, Balking,
  Undertaker, NoLine                                          \* see Park

CONSTANTS
  Cols, Rows, Height, TargetHeight, Leg, Turn, Radius, Side, Orientation,
  Altitude, Bank, Lowest, Highest, Earth,           \* see Radar
  Target, Place, Heading, Duration, ModeTimes, DwellTime, FrameInterval, Cycles,
  RotInc, BeamWidth,                                     \* see Radar
  DwellsPerStep, StepTime, Warp, TerrainCeiling     \* see RadarGpu

CONSTANTS
  Scenarios, Levels, Terrains, Replications, Reps, Workers, MaxAbandoned,
  CriticalSizes, CriticalValues                        \* see Experiment

CONSTANTS
  Halves, Warmup, Span, NumObjects                         \* see Queueing

VARIABLES v, r, g, x, q

P == INSTANCE Park
R == INSTANCE RadarGpu
X == INSTANCE Experiment
Q == INSTANCE Queueing WITH Duration <- Halves

ASSUME RadarAssumption == R!GpuAssumption
ASSUME QueueAssumption == Q!QueueingAssumption

HarborIsOver == \E w \in World : h = [Empty(w) EXCEPT !.over = TRUE]
ParkIsClosed == v = [P!Empty EXCEPT !.open = FALSE]
RadarIsOff == r = R!Empty /\ g = R!Off

NoExperiment == x = X!Off
NoQueue == q = Q!Over

HarborRun == Init /\ ParkIsClosed /\ RadarIsOff /\ NoExperiment /\ NoQueue

ParkRun == P!Init /\ HarborIsOver /\ RadarIsOff /\ NoExperiment /\ NoQueue

RadarRun ==
  (R!CpuInit \/ R!GpuInit) /\ HarborIsOver /\ ParkIsClosed /\ NoExperiment /\ NoQueue

ExperimentRun == X!Init /\ HarborIsOver /\ ParkIsClosed /\ RadarIsOff /\ NoQueue

QueueRun == Q!Init /\ HarborIsOver /\ ParkIsClosed /\ RadarIsOff /\ NoExperiment

TutorialInit == HarborRun \/ ParkRun \/ RadarRun \/ ExperimentRun \/ QueueRun

TutorialNext ==
  \/ Next /\ UNCHANGED <<v, r, g, x, q>>
  \/ P!Next /\ UNCHANGED <<h, r, g, x, q>>
  \/ R!RadarNext /\ UNCHANGED <<h, v, x, q>>
  \/ X!Next /\ UNCHANGED <<h, v, r, g, q>>
  \/ Q!Next /\ UNCHANGED <<h, v, r, g, x>>

Spec == TutorialInit /\ [][TutorialNext]_<<h, v, r, g, x, q>> /\ Fairness

(* See Park and RadarGpu.                                                  *)
VisitorsTracked == P!VisitorsTracked
RadarTrue == R!RadarTrue
RadarSound == R!RadarSound

(* What the experiments report is what was simulated, with a zero for each *)
(* trial that was abandoned: see LevelsTrue of Experiment, and AverageTrue *)
(* of Queueing.                                                            *)
ResultsTrue == X!LevelsTrue /\ Q!AverageTrue
=============================================================================
