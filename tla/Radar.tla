------------------------------- MODULE Radar --------------------------------
(***************************************************************************)
(* The airborne radar of the tutorial (tut_5_1.c).  Targets hide, fire and *)
(* drive about; the sensor turns its beam from dwell to dwell and examines *)
(* every target; a further process writes a frame of what is known to the  *)
(* file from time to time, and one shows the progress.  Times are whole:   *)
(* dwells and frames come at their intervals.  What comes first of two     *)
(* things that are due at the same time is decided by priority, and then by*)
(* the order they were scheduled in.                                       *)
(*                                                                         *)
(* The unit of length is a cell of the terrain.  Directions and distances  *)
(* are those of a square instead of a circle: an angle is measured along it*)
(* in eighths of a turn, and a distance is |dx| + |dy|, so that every      *)
(* number is a fraction.  Refraction is the same everywhere.               *)
(***************************************************************************)
EXTENDS Integers, Ratio, FiniteSets, Sequences

CONSTANTS
  Cols, Rows, Height,     \* the terrain: cells, and their elevations
  TargetHeight,           \* above the ground
  Leg, Turn, Radius,      \* of the orbit: times flown, and size of the turns
  Side, Orientation,      \* -1 turns right; direction of the first leg
  Altitude, Bank,         \* of the platform, and how it leans in a turn
  Lowest, Highest,        \* apparent elevations that the antenna covers
  Earth                   \* twice the effective radius

GeometryAssumption ==
  /\ Cols \in Nat \ {1} /\ Cols % 2 = 1
  /\ Rows \in Nat \ {1} /\ Rows % 2 = 1
  /\ Height \in [(0 .. Cols - 1) \X (0 .. Rows - 1) -> Nat]
  /\ Leg \in Nat \ {0} /\ Turn \in Nat \ {0} /\ Side \in {-1, 1}
  /\ Orientation \in {0, 2, 4, 6} /\ Earth \in Nat \ {0}

-----------------------------------------------------------------------------
Circle == 8
Half == Frac(1, 2)

Magnitude[p \in Rational] == IF Below(p, Zero) THEN Zero -- p ELSE p
Larger(p, q) == IF Below(p, q) THEN q ELSE p
Clamp[p \in Rational, lo \in Rational, hi \in Rational] ==
  IF Below(p, lo) THEN lo ELSE IF Below(hi, p) THEN hi ELSE p

(* An angle from 0 to a full turn, and seen from straight ahead.           *)
Turned[a \in Rational] == a -- Whole(Circle * Floor(a // Whole(Circle)))
Wrapped(a) == Turned[a ++ Whole(4)] -- Whole(4)

Cosine(a) == Whole(1) -- (Magnitude[Wrapped(a)] // Whole(2))
Sine(a) == Cosine(a -- Whole(2))
Azimuth[dx \in Rational, dy \in Rational] ==
  LET q == (dy ++ dy) // (Magnitude[dx] ++ Magnitude[dy])
  IN  CASE dx = Zero /\ dy = Zero -> Zero
        [] AtMost(Zero, dx) /\ ~(dx = Zero /\ dy = Zero) -> q
        [] Below(dx, Zero) /\ AtMost(Zero, dy) -> Whole(4) -- q
        [] Below(dx, Zero) /\ Below(dy, Zero) -> Whole(-4) -- q

-----------------------------------------------------------------------------
(* The terrain lies around the origin.  What leaves it on one side returns *)
(* on the other.                                                           *)
XMax == (Cols - 1) \div 2
YMax == (Rows - 1) \div 2
Ground == (-XMax .. XMax) \X (-YMax .. YMax)

Toroidal(x, max) ==
  IF x > max THEN (x - max) - max
  ELSE IF x < -max THEN max - (-max - x)
  ELSE x

(* Between the centres of four cells, and on the nearest edge outside.     *)
Elevation[x \in Rational, y \in Rational] ==
  LET u == x ++ Whole(Cols \div 2)
      v == y ++ Whole(Rows \div 2)
      c == Clamp[Whole(Floor(u)), Zero, Whole(Cols - 2)]
      row == Clamp[Whole(Floor(v)), Zero, Whole(Rows - 2)]
      fx == Clamp[u -- c, Zero, Whole(1)]
      fy == Clamp[v -- row, Zero, Whole(1)]
      h(i, j) == Whole(Height[<<c[1] + i, row[1] + j>>])
      along(j) == h(0, j) ++ (fx ** (h(1, j) -- h(0, j)))
  IN  along(0) ++ (fy ** (along(1) -- along(0)))

-----------------------------------------------------------------------------
(* The orbit: two legs and two turns, at one cell in a unit of time.       *)
Circuit == 2 * (Leg + Turn)
Roll == Whole(-Side) ** Bank
Platform == [x : Rational, y : Rational, dir : Rational, rol : Rational]

(* Where the platform is when it has flown d units of the orbit, before    *)
(* that is turned into its orientation.                                    *)
OnOrbit[d \in 0 .. Circuit - 1] ==
  LET arc(since, phi0, from, dir0) ==
        LET phi == Frac(4 * (d - since), Turn) ++ Whole(phi0)
        IN  [x |-> Whole(from) ++ (Whole(Radius) ** Cosine(phi)),
             y |-> Whole(Side * Radius) ** (Whole(1) ++ Sine(phi)),
             dir |-> Whole(dir0) ++ (Whole(Side) ** (phi -- Whole(phi0))),
             rol |-> Roll]
  IN  CASE d < Leg ->
             [x |-> Whole(d), y |-> Zero, dir |-> Zero, rol |-> Zero]
        [] d >= Leg /\ d < Leg + Turn -> arc(Leg, -2, Leg, 0)
        [] d >= Leg + Turn /\ d < 2 * Leg + Turn ->
             [x |-> Whole(Leg - (d - (Leg + Turn))),
              y |-> Whole(2 * Side * Radius), dir |-> Whole(4), rol |-> Zero]
        [] d >= 2 * Leg + Turn -> arc(2 * Leg + Turn, 2, 0, 4)

Oriented[s \in Platform] ==
  LET c == Cosine(Whole(Orientation))
      n == Sine(Whole(Orientation))
  IN  [x |-> (s.x ** c) -- (s.y ** n), y |-> (s.x ** n) ++ (s.y ** c),
       dir |-> Turned[s.dir ++ Whole(Orientation)], rol |-> s.rol]

(* The platform at time t, from the start of the orbit.                    *)
Course == [d \in 0 .. Circuit - 1 |-> Oriented[OnOrbit[d]]]
PlatformAt(t) == Course[t % Circuit]

-----------------------------------------------------------------------------
(* A target at p as it looks from the platform, and the questions that the *)
(* detection pipeline asks about it.                                       *)
Views == [x : Rational, y : Rational, alt : Rational, d : Rational,
          bearing : Rational, from : Platform]

View[p \in Ground, s \in Platform] ==
  LET x == Whole(p[1])
      y == Whole(p[2])
      dx == x -- s.x
      dy == y -- s.y
  IN  [x |-> x, y |-> y, alt |-> Elevation[x, y] ++ Whole(TargetHeight),
       d |-> Magnitude[dx] ++ Magnitude[dy], bearing |-> Azimuth[dx, dy], from |-> s]

(* The gate is as wide as the beam, and at least as wide as its rotation   *)
(* from dwell to dwell.                                                    *)
Gate(beamwidth, rotation) == Larger(beamwidth, rotation) ** Half
InBeam(bearing, dir, half) == AtMost(Magnitude[Wrapped(bearing -- dir)], half)

(* Farther than the horizons of the sensor and of the target, which are    *)
(* the square roots of a and b, reach together.                            *)
BeyondHorizon[v \in Views] ==
  LET a == Whole(Earth * Altitude)
      b == Whole(Earth) ** Larger(Zero, v.alt)
      e == (v.d ** v.d) -- (a ++ b)
  IN  Below(Zero, e) /\ Below(Whole(4) ** (a ** b), e ** e)

OutsideVertical[v \in Views] ==
  LET relative == v.bearing -- v.from.dir
      apparent == Azimuth[v.d, v.alt -- Whole(Altitude)]
                    -- (v.from.rol ** Sine(relative))
  IN  Below(apparent, Lowest) \/ Below(Highest, apparent)

(* The ray from the target to the platform, looked at two times in every   *)
(* cell that it crosses: its height, which is below the straight line, and *)
(* that of the ground.                                                     *)
Steps(d) == Floor(d // Half)
Along(from, to, t) == from ++ ((to -- from) ** t)
RayHeight[v \in Views, t \in Rational] ==
  Along(v.alt, Whole(Altitude), t)
    -- (((t ** v.d) ** (v.d -- (t ** v.d))) // Whole(Earth))
UnderRay[v \in Views, t \in Rational] ==
  Elevation[Clamp[Along(v.x, v.from.x, t), Whole(-XMax), Whole(XMax)],
            Clamp[Along(v.y, v.from.y, t), Whole(-YMax), Whole(YMax)]]
RayTo[v \in Views] ==
  LET n == Steps(v.d)
  IN  [i \in 1 .. n - 1 |->
         [ca |-> RayHeight[v, Frac(i, n)], terr |-> UnderRay[v, Frac(i, n)]]]

-----------------------------------------------------------------------------
(* What happens above it, and when.                                        *)
CONSTANTS
  Target,                   \* the targets
  Place, Heading,           \* where they start, and how they may drive
  Duration,                 \* of the simulation
  ModeTimes,                \* when targets may change their mode
  DwellTime, FrameInterval, \* between two dwells, and two frames
  Cycles,                   \* of the progress bar
  RotInc, BeamWidth         \* of the antenna

RadarAssumption ==
  /\ GeometryAssumption
  /\ Place \in [Target -> Ground]
  /\ ModeTimes \subseteq Nat
  /\ DwellTime \in Nat \ {0} /\ FrameInterval \in Nat \ {0}
  /\ Cycles \in Nat \ {0} /\ Duration % Cycles = 0

VARIABLE
  r    \* now        the time
       \* running    the end has not come
       \* tgt        the targets
       \* plane      when the state of the platform was last computed
       \* beam       where the beam points
       \* dwell      when the next dwell is due
       \* frame      when the next frame is due
       \* bar        how many steps the progress bar has made
       \* file       what the output file holds
       \* num_found  what is reported
       \* done       it has been reported

-----------------------------------------------------------------------------
(* How every place looks, at the times when it is looked at, and what      *)
(* stands in the way of seeing it.                                         *)
Look == {t \in 0 .. Duration : t % DwellTime = 0}
Scene == [t \in Look, p \in Ground |-> View[p, PlatformAt(t)]]
Ray == [t \in Look, p \in Ground |-> RayTo[Scene[t, p]]]

TerrainShielded(ray) == \E i \in DOMAIN ray : Below(ray[i].ca, ray[i].terr)

ObstacleOf[v \in Views] ==
  IF BeyondHorizon[v] THEN "BEYOND_HORIZON"
  ELSE IF OutsideVertical[v] THEN "NADIR_HOLE"
  ELSE IF TerrainShielded(RayTo[v]) THEN "TERRAIN_SHIELDED"
  ELSE "NONE"
Obstacle == [t \in Look, p \in Ground |-> ObstacleOf[Scene[t, p]]]

-----------------------------------------------------------------------------
(* A target that starts out driving has its direction drawn at once.       *)
NewTarget(p, mode, dir) ==
  [mode |-> mode, tds |-> "UNDETERMINED", time |-> 0, pos |-> p, dir |-> dir,
   vel |-> IF mode = "DRIVING" THEN 1 ELSE 0, detected |-> FALSE]

NewFile == [steps |-> 0, rows |-> 0, starts |-> <<>>, values |-> <<>>,
            closed |-> FALSE, NSteps |-> 0]

Empty ==
  [now |-> 0, running |-> FALSE, tgt |-> <<>>, plane |-> 0, beam |-> Whole(2),
   dwell |-> 0, frame |-> 0, bar |-> 0, file |-> NewFile, num_found |-> 0,
   done |-> FALSE]

Worlds ==
  {[Empty EXCEPT
      !.running = TRUE, !.dwell = DwellTime,
      !.tgt = [i \in Target |-> NewTarget(Place[i], mode[i], dir[i])]] :
     mode \in [Target -> {"HIDING", "DRIVING"}],
     dir \in [Target -> Heading]}

Init == r \in Worlds

-----------------------------------------------------------------------------
(* The next phase of a target, which it chooses the length of.             *)
TargetStep(i) ==
  LET t == r.tgt[i]
      becomes(mode, dir, vel) ==
        r' = [r EXCEPT !.tgt[i] = [@ EXCEPT !.mode = mode, !.time = r.now,
                                            !.dir = dir, !.vel = vel]]
  IN  /\ r.running /\ r.now \in ModeTimes /\ t.time < r.now
      /\ \/ t.mode = "HIDING" /\ becomes("STAGING", t.dir, 0)
         \/ t.mode = "STAGING" /\ becomes("FIRING", t.dir, 0)
         \/ /\ t.mode = "FIRING"
            /\ \E dir \in Heading : becomes("DRIVING", dir, 1)
         \/ t.mode = "DRIVING" /\ becomes("HIDING", t.dir, 0)

(* A target that drives has come this far.                                 *)
Moved(t, now) ==
  LET way == (now - t.time) * t.vel
  IN  IF t.vel = 0 THEN t
      ELSE [t EXCEPT !.pos = <<Toroidal(@[1] + way * t.dir[1], XMax),
                               Toroidal(@[2] + way * t.dir[2], YMax)>>,
                     !.time = now]

(* Whether a visible target is detected is a matter of chance.             *)
AttemptDetection == BOOLEAN

(* What the sensor makes of a target; one that is firing is not counted.   *)
Examined(t, now, beam, hit) ==
  LET obstacle == Obstacle[now, t.pos]
  IN  IF ~InBeam(Scene[now, t.pos].bearing, beam, Gate(BeamWidth, RotInc)) THEN t
      ELSE IF obstacle # "NONE" THEN [t EXCEPT !.tds = obstacle]
      ELSE IF ~hit THEN [t EXCEPT !.tds = "MISSED"]
      ELSE [t EXCEPT !.tds = "DETECTED",
                     !.detected = @ \/ t.mode # "FIRING"]

(* The rotation since the last dwell, and how much the platform turned     *)
(* since it was last looked at.                                            *)
Yaw(since, now) == PlatformAt(now).dir -- PlatformAt(since).dir
Rotated(beam, yaw) == Turned[beam ++ (RotInc ++ yaw)]

EndIsDue == r.running /\ r.now = Duration

DwellIsDue == r.running /\ r.now = r.dwell

FrameIsDue == r.running /\ r.now = r.frame

Dwell ==
  LET beam == Rotated(r.beam, Yaw(r.plane, r.now))
  IN  /\ DwellIsDue /\ ~EndIsDue
      /\ \E hit \in [Target -> AttemptDetection] :
           r' = [r EXCEPT
                   !.plane = r.now, !.beam = beam, !.dwell = r.now + DwellTime,
                   !.tgt = [i \in Target |->
                              Examined(Moved(@[i], r.now), r.now, beam, hit[i])]]

-----------------------------------------------------------------------------
(* One row for every target and one for the platform.                      *)
PointsPerFrame(n) == n + 1

(* Faulty: the offset is read after the rows have been added.             *)
AppendedLate(f, n, time) ==
  [f EXCEPT !.rows = (f.steps + 1) * PointsPerFrame(n),
            !.starts = Append(@, (f.steps + 1) * PointsPerFrame(n)),
            !.values = Append(@, time),
            !.steps = @ + 1]

Appended(f, n, time) ==
  [f EXCEPT !.rows = (f.steps + 1) * PointsPerFrame(n),
            !.starts = Append(@, f.steps * PointsPerFrame(n)),
            !.values = Append(@, time),
            !.steps = @ + 1]

Closed(f) == [f EXCEPT !.closed = TRUE, !.NSteps = f.steps]

(* Where dwells and frames coincide, the frame has the lower priority.     *)
Frame ==
  /\ FrameIsDue /\ ~EndIsDue /\ ~DwellIsDue
  /\ r' = [r EXCEPT !.plane = r.now,
                    !.file = Appended(@, Cardinality(Target), r.now),
                    !.frame = r.now + FrameInterval]

(* The progress bar moves on, also after the end of the simulation.        *)
BarIsDue == r.bar < Cycles /\ r.now = (r.bar + 1) * (Duration \div Cycles)

Progress ==
  /\ BarIsDue /\ ~EndIsDue
  /\ r' = [r EXCEPT !.bar = @ + 1]

EndSim == EndIsDue /\ r' = [r EXCEPT !.running = FALSE]

(* The queue is empty: the targets are counted, and the file is closed.    *)
Found(tgt) == Cardinality({i \in DOMAIN tgt : tgt[i].detected})
Counted(s) == [s EXCEPT !.num_found = Found(s.tgt), !.done = TRUE]

QueueIsEmpty == ~r.running /\ r.bar = Cycles /\ ~r.done

Report ==
  /\ QueueIsEmpty
  /\ r' = [Counted(r) EXCEPT !.file = Closed(@)]

Tick ==
  /\ r.running /\ r.now < Duration
  /\ ~DwellIsDue /\ ~FrameIsDue /\ ~BarIsDue
  /\ r' = [r EXCEPT !.now = @ + 1]

Next ==
  \/ \E i \in Target : TargetStep(i)
  \/ Dwell
  \/ Frame
  \/ Progress
  \/ EndSim
  \/ Report
  \/ Tick

-----------------------------------------------------------------------------
(* The rows of every frame lie where its offset says, the frames are those *)
(* of the intervals that began before the end, and the number that the     *)
(* reader of the file goes by is theirs.                                   *)
FileTrue ==
  LET n == Cardinality(Target)
      f == r.file
      frames == {t \in 0 .. Duration - 1 : t % FrameInterval = 0}
  IN  /\ f.rows = f.steps * (n + 1)
      /\ \A k \in 1 .. f.steps :
           /\ f.starts[k] + n + 1 =
                IF k = f.steps THEN f.rows ELSE f.starts[k + 1]
           /\ f.values[k] = (k - 1) * FrameInterval
      /\ r.done => /\ f.closed /\ f.NSteps = Cardinality(frames)
                   /\ f.steps = f.NSteps

(* Two successive dwells of an orbit that turns right leave no direction   *)
(* out between them, whatever the platform has turned.                     *)
SweepCloses ==
  r'.dwell # r.dwell =>
    AtMost(Turned[r'.beam -- r.beam], Whole(2) ** Gate(BeamWidth, RotInc))

(* The line of sight, followed from the sensor to the target.              *)
Clear[v \in Views] ==
  LET ray(u) == Along(Whole(Altitude), v.alt, u)
                  -- (((v.d ** u) ** (v.d ** (Whole(1) -- u))) // Whole(Earth))
      ground(u) ==
        Elevation[Clamp[Along(v.from.x, v.x, u), Whole(-XMax), Whole(XMax)],
                  Clamp[Along(v.from.y, v.y, u), Whole(-YMax), Whole(YMax)]]
  IN  \A i \in 1 .. Steps(v.d) - 1 :
        AtMost(ground(Frac(i, Steps(v.d))), ray(Frac(i, Steps(v.d))))
LineOfSight == [t \in Look, p \in Ground |-> Clear[Scene[t, p]]]

(* A target is found only in the line of sight, and not while it fires;    *)
(* what is reported is what has been found by then, and it stays so.       *)
FoundOnSight ==
  /\ \A i \in DOMAIN r.tgt :
       r'.tgt[i].detected /\ ~r.tgt[i].detected =>
         LineOfSight[r'.plane, r'.tgt[i].pos] /\ r.tgt[i].mode # "FIRING"
  /\ r.done => UNCHANGED r
  /\ r'.done => r'.num_found = Found(r'.tgt)
=============================================================================
