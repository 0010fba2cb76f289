------------------------------ MODULE RadarGpu ------------------------------
(***************************************************************************)
(* The radar of tut_5_2 and tut_5_3, which examines the targets on a       *)
(* graphics processor; tut_5_2 writes frames and shows the progress, as    *)
(* tut_5_1 does, and tut_5_3 does neither.  The sensor takes many dwells in*)
(* one step: it copies the targets to the device, one thread looks at each *)
(* of them and queues the ones in the beam, one warp follows the ray of    *)
(* each target in the queue, and the results are copied back.  Threads and *)
(* warps run in any order, while the simulation waits.                     *)
(***************************************************************************)
EXTENDS Radar, SequencesExt

CONSTANTS
  DwellsPerStep,          \* dwells in a step of the sensor
  StepTime,               \* between two steps
  Warp,                   \* lanes of a warp, which vote together
  TerrainCeiling          \* above this there is no ground

GpuAssumption ==
  /\ RadarAssumption
  /\ DwellsPerStep \in Nat \ {0} /\ StepTime \in Nat \ {0} /\ Warp \in Nat \ {0}
  /\ StepTime % DwellTime = 0
  /\ \A c \in DOMAIN Height : Height[c] <= TerrainCeiling

VARIABLE
  g    \* phase    what the device does: "off", "idle", "triage", "raymarch"
       \* base     where the beam points at the first dwell of the step
       \* rot      its rotation per dwell
       \* tgt      the targets on the device, with the results
       \* threads  the ones of the triage that have not run
       \* queue    the targets whose rays are to be followed
       \* warps    the places in the queue that are not done

Off == [phase |-> "off", base |-> Zero, rot |-> Zero, tgt |-> <<>>,
        threads |-> {}, queue |-> <<>>, warps |-> {}]

(* With frames and a progress bar, or without.                             *)
Never == Duration + FrameInterval + 1
WithFrames == r.frame # Never
GpuInit ==
  /\ \E s \in Worlds :
       \/ r = [s EXCEPT !.dwell = StepTime]
       \/ r = [s EXCEPT !.dwell = StepTime, !.frame = Never, !.bar = Cycles]
  /\ g = [Off EXCEPT !.phase = "idle"]

-----------------------------------------------------------------------------
(* The yaw since the last step is spread over the dwells.                  *)
Launch ==
  LET yaw == Yaw(r.plane, r.now)
      perStep == RotInc ** Whole(DwellsPerStep)
  IN  /\ DwellIsDue /\ ~EndIsDue /\ g.phase = "idle"
      /\ r' = [r EXCEPT !.plane = r.now, !.dwell = r.now + StepTime,
                        !.beam = Turned[@ ++ (perStep ++ yaw)]]
      /\ g' = [phase |-> "triage", base |-> r.beam,
               rot |-> RotInc ++ (yaw // Whole(DwellsPerStep)),
               tgt |-> r.tgt, threads |-> Target, queue |-> <<>>, warps |-> {}]

(* Faulty: the first dwell is the one after the rotation.                  *)
IlluminatingLate(p) ==
  {d \in 1 .. DwellsPerStep :
     InBeam(Scene[r.plane, p].bearing, g.base ++ (Whole(d) ** g.rot),
            Gate(BeamWidth, g.rot))}

(* The dwells of the step, from 0, that have a place in the beam.          *)
Illuminating(p) ==
  {d \in 0 .. DwellsPerStep - 1 :
     InBeam(Scene[r.plane, p].bearing, g.base ++ (Whole(d) ** g.rot),
            Gate(BeamWidth, g.rot))}

(* What is known before the ray is followed.                               *)
TriageOf[v \in Views] ==
  IF BeyondHorizon[v] THEN "BEYOND_HORIZON"
  ELSE IF OutsideVertical[v] THEN "NADIR_HOLE"
  ELSE "NONE"
Triaged == [t \in Look, p \in Ground |-> TriageOf[Scene[t, p]]]

(* tut_5_2 looks at the beam first, and leaves a target that it does not   *)
(* light as it was; tut_5_3 looks at the horizon and the lobe first.       *)
Passed(lit) == WithFrames /\ lit = {}

Triage(i) ==
  LET t == Moved(g.tgt[i], r.now)
      lit == Illuminating(t.pos)
      found == IF Passed(lit) THEN "NONE" ELSE Triaged[r.plane, t.pos]
      queued == found = "NONE" /\ lit # {}
      item == [tid |-> i, n_dwells |-> Cardinality(lit)]
  IN  /\ g.phase = "triage" /\ i \in g.threads
      /\ g' = [g EXCEPT
                 !.threads = @ \ {i},
                 !.tgt[i] = IF found = "NONE" THEN t ELSE [t EXCEPT !.tds = found],
                 !.queue = IF queued THEN Append(@, item) ELSE @]
      /\ UNCHANGED r

(* The second kernel starts when the first has ended.                      *)
TriageEnds ==
  /\ g.phase = "triage" /\ g.threads = {}
  /\ g' = [g EXCEPT !.phase = "raymarch", !.warps = DOMAIN g.queue]
  /\ UNCHANGED r

-----------------------------------------------------------------------------
(* The lanes of a warp look at consecutive points of the ray, from the     *)
(* target on.  They end together when all of them are above the terrain,   *)
(* or when the ground is above one of them.                                *)
RoundsOf(ray) == {b \in DOMAIN ray : (b - 1) % Warp = 0}
Lanes(b) == b .. (b + Warp - 1)

VotesShielded(ray) ==
  LET clear(i) == i \in DOMAIN ray => Below(Whole(TerrainCeiling), ray[i].ca)
      hit(i) == ~clear(i) /\ Below(ray[i].ca, ray[i].terr)
  IN  \E b \in RoundsOf(ray) :
        /\ \E i \in Lanes(b) : hit(i)
        /\ \A a \in RoundsOf(ray) : a < b => \E i \in Lanes(a) : ~clear(i)
WarpShielded == [t \in Look, p \in Ground |-> VotesShielded(Ray[t, p])]

(* One draw for each dwell; the last one is the outcome of the step, but a *)
(* target that was detected once stays so, unless it was firing.           *)
Raymarch(w) ==
  LET i == g.queue[w].tid
      n == g.queue[w].n_dwells
      t == g.tgt[i]
      ends(tds, detected) ==
        g' = [g EXCEPT !.warps = @ \ {w}, !.tgt[i].tds = tds,
                       !.tgt[i].detected = @ \/ detected]
  IN  /\ g.phase = "raymarch" /\ w \in g.warps
      /\ UNCHANGED r
      /\ \/ /\ WarpShielded[r.plane, t.pos]
            /\ ends("TERRAIN_SHIELDED", FALSE)
         \/ /\ ~WarpShielded[r.plane, t.pos]
            /\ \E hit \in [1 .. n -> AttemptDetection] :
                 ends(IF hit[n] THEN "DETECTED" ELSE "MISSED",
                      t.mode # "FIRING" /\ \E k \in 1 .. n : hit[k])

(* The results are copied back to the targets.                             *)
Scatter ==
  /\ g.phase = "raymarch" /\ g.warps = {}
  /\ r' = [r EXCEPT !.tgt = [i \in Target |->
             [@[i] EXCEPT !.pos = g.tgt[i].pos,
                          !.time = IF r.tgt[i].vel > 0 THEN r.now ELSE @,
                          !.tds = g.tgt[i].tds,
                          !.detected = @ \/ g.tgt[i].detected]]]
  /\ g' = [Off EXCEPT !.phase = "idle"]

GpuReport ==
  /\ QueueIsEmpty
  /\ r' = [Counted(r) EXCEPT !.file = IF WithFrames THEN Closed(@) ELSE @]

(* While the device works, the thread of the simulation waits for it.      *)
GpuNext ==
  \/ /\ g.phase = "idle"
     /\ \/ \E i \in Target : TargetStep(i)
        \/ Frame
        \/ Progress
        \/ EndSim
        \/ GpuReport
        \/ Tick
     /\ UNCHANGED g
  \/ Launch
  \/ \E i \in Target : Triage(i)
  \/ TriageEnds
  \/ \E w \in DOMAIN g.queue : Raymarch(w)
  \/ Scatter

CpuInit == Init /\ g = Off

CpuNext == g.phase = "off" /\ Next /\ UNCHANGED g

RadarNext == CpuNext \/ (g.phase # "off" /\ GpuNext)

-----------------------------------------------------------------------------
(* The queue has room for every target, and no target is in it twice.      *)
QueueTrue ==
  /\ Len(g.queue) <= Cardinality(Target)
  /\ \A v, w \in DOMAIN g.queue : g.queue[v].tid = g.queue[w].tid => v = w

(* Counted back from where the beam is after the step.                     *)
Swept(p) ==
  \E d \in 1 .. DwellsPerStep :
    InBeam(Scene[r.plane, p].bearing, r.beam -- (Whole(d) ** g.rot),
           Gate(BeamWidth, g.rot))

(* Whatever the order of the threads and warps, a step makes of each target*)
(* what its tests make of it one after the other, and the votes of a warp  *)
(* what a walk along the whole ray does; what the beam does not sweep gets *)
(* no verdict in tut_5_2, and in tut_5_3 only that of horizon and lobe.    *)
GpuAgrees ==
  g.phase = "raymarch" /\ g'.phase = "idle" =>
    \A i \in Target :
      LET t == Moved(r.tgt[i], r.now)
          obstacle == Obstacle[r.plane, t.pos]
          lit == Swept(t.pos)
          after == r'.tgt[i]
          verdict ==
            CASE lit -> IF obstacle = "NONE" THEN {"MISSED", "DETECTED"} ELSE {obstacle}
              [] ~lit /\ ~WithFrames /\ obstacle \in {"BEYOND_HORIZON", "NADIR_HOLE"}
                 -> {obstacle}
              [] OTHER -> {t.tds}
      IN  /\ [after EXCEPT !.tds = t.tds, !.detected = t.detected] = t
          /\ after.tds \in verdict

RadarTrue == (WithFrames => FileTrue) /\ QueueTrue

RadarSound ==
  [][(g.phase = "off" => SweepCloses) /\ FoundOnSight /\ GpuAgrees]_<<r, g>>
=============================================================================
