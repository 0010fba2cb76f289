SPECIFICATION Spec
CONSTANTS
  MaxShips = 4
  Size <- Sizes
  NumTugs = 3
  NumBerths <- Berths
  TugsNeeded <- Needed
  World = {"fair", "windy"}
  Suits <- Weather
  Nobody = Nobody
  Departures = Departures
  q1 = q1
  q2 = q2
  q3 = q3
  w1 = w1
  w2 = w2
  w3 = w3
  a1 = a1
  a2 = a2
  MaxVisitors = 3
  Attraction = {a1, a2}
  Line = {q1, q2, q3}
  LinesOf <- Lines
  Server = {w1, w2, w3}
  LineOf <- Serves
  BatchSize <- Seats
  Balking = {0, 1}
  Undertaker = Undertaker
  NoLine = NoLine
  t1 = t1
  t2 = t2
  Cols = 9
  Rows = 9
  Height <- Ridge
  TargetHeight = 1
  Leg = 3
  Turn = 8
  Radius = 2
  Side <- Right
  Orientation = 0
  Altitude = 6
  Bank <- Banked
  Lowest <- LowestEye
  Highest <- HighestEye
  Earth = 4
  Target = {t1, t2}
  Place <- Starts
  Heading <- East
  Duration = 8
  ModeTimes = {1, 3, 5}
  DwellTime = 2
  FrameInterval = 3
  Cycles = 2
  RotInc <- Quarter
  BeamWidth <- Narrow
  DwellsPerStep = 2
  StepTime = 2
  Warp = 2
  TerrainCeiling = 4
  Scenarios = 2
  Levels = 2
  Terrains = 2
  Replications = {2, 3}
  Reps = 2
  Workers = 2
  MaxAbandoned = 1
  CriticalSizes <- Sizes95
  CriticalValues <- Values95
  Halves = {1, 2, 3}
  Warmup = 3
  Span = 10
  NumObjects = 4
INVARIANTS
  HoldingsFit
  NobodyForgotten
  VisitorsTracked
  RadarTrue
  ResultsTrue
PROPERTIES
  EveryShipLeaves
  RadarSound
\* The simulation ends.
CHECK_DEADLOCK FALSE
