----------------------------- MODULE Experiment -----------------------------
(***************************************************************************)
(* The main programs that run experiments: the tutorial's queue            *)
(* (tut_1_7.c), its harbor without and with abandoned trials (tut_4_2.c,   *)
(* tut_4_3.c), its radar on the graphics processors (tut_5_3.c), and the   *)
(* benchmark on many threads (MM1_multi.c).  Each                          *)
(* lays out an array of trials, has them executed in any order, and walks  *)
(* through the array again to write a file that is plotted by position.    *)
(* What a finished trial leaves in the array is its own index.             *)
(***************************************************************************)
EXTENDS Integers, Sequences, FiniteSets, SequencesExt

CONSTANTS
  Scenarios, Levels, Terrains,
  Replications,                \* that the user of the queue may ask for
  Reps,                        \* that the others make
  Workers,
  MaxAbandoned,
  CriticalSizes, CriticalValues  \* the table of t_crit_95

VARIABLE
  x    \* program  that is run
       \* trials   the parameters of each, as the indices of their values
       \* reps     trials of a kind
       \* next     the first trial that no worker has taken
       \* running  the trials that workers are in
       \* result   of each trial
       \* file     blocks of lines, one for each setting
       \* stage    "running", "written", "aborted" or "off"

Off ==
  [program |-> "none", trials |-> <<>>, reps |-> 0, next |-> 1, running |-> {},
   result |-> <<>>, file |-> <<>>, stage |-> "off"]

NoTime == 0            \* 0.0, with which an average starts
Sentinel == -1         \* -1.0 and -1, for a trial without a result

Replicated(settings, reps) ==
  [i \in 1 .. Len(settings) * reps |-> settings[(i - 1) \div reps + 1]]

Planned(program, trials, reps, unset) ==
  [Off EXCEPT !.program = program, !.trials = trials, !.reps = reps,
              !.result = [i \in DOMAIN trials |-> unset], !.stage = "running"]

(* One utilization after the other.                                        *)
Queue(reps) ==
  Planned("queue", Replicated([l \in 1 .. Levels |-> [rho |-> l]], reps), reps, NoTime)

(* The columns of the harbor's file; all but the first are varied.         *)
Columns == <<"arrival", "depth", "tugs", "small", "large">>
Params == 4

Baseline(sc) ==
  [arrival |-> sc, depth |-> 1, tugs |-> 1, small |-> 1, large |-> 1]

(* Faulty: the parameter that was varied last stays where it is.           *)
SettingsThatStay(sc, p) ==
  [l \in 1 .. Levels |->
     [c \in Range(Columns) |->
        IF c = Columns[p + 1] THEN l
        ELSE IF p > 1 /\ c = Columns[p] THEN Levels ELSE Baseline(sc)[c]]]

(* Each parameter goes through its levels, everything else baseline.       *)
Settings(sc, p) ==
  [l \in 1 .. Levels |-> [Baseline(sc) EXCEPT ![Columns[p + 1]] = l]]

HarborTrials ==
  FlattenSeq([b \in 1 .. Scenarios * Params |->
                Replicated(Settings((b - 1) \div Params + 1, ((b - 1) % Params) + 1), Reps)])

Harbor2 == Planned("harbor", HarborTrials, Reps, NoTime)

(* With a value out of band for a trial that is abandoned.                 *)
Harbor3 == Planned("abandoning", HarborTrials, Reps, Sentinel)

(* Every flight level over every terrain.                                  *)
Altitudes ==
  Replicated([i \in 1 .. Levels * Terrains |->
                [level |-> (i - 1) \div Terrains + 1, terrain |-> ((i - 1) % Terrains) + 1]],
             Reps)

Radar3 == Planned("radar", Altitudes, Reps, Sentinel)

(* The benchmark repeats one trial.                                        *)
Benchmark ==
  Planned("benchmark", Replicated(<<[rho |-> 1]>>, Reps * Levels), Reps * Levels, NoTime)

Init == x \in {Harbor2, Harbor3, Radar3, Benchmark} \cup {Queue(n) : n \in Replications}

-----------------------------------------------------------------------------
Trial == DOMAIN x.trials
InHarbor == x.program \in {"harbor", "abandoning"}

(* run_trial of the harbor begins by setting the averages to zero.         *)
Begin ==
  /\ x.stage = "running"
  /\ x.next \in Trial
  /\ Cardinality(x.running) < Workers
  /\ x' = [x EXCEPT !.next = @ + 1,
                    !.running = @ \cup {x.next},
                    !.result[x.next] = IF InHarbor THEN NoTime ELSE @]

End(i) ==
  /\ i \in x.running
  /\ x' = [x EXCEPT !.running = @ \ {i}, !.result[i] = i]

Abandoned == {i \in 1 .. x.next - 1 : i \notin x.running /\ x.result[i] # i}

(* A ship meets the error that has the trial abandoned; see Harbor.        *)
Abandon(i) ==
  /\ x.program = "abandoning"
  /\ i \in x.running
  /\ Cardinality(Abandoned) < MaxAbandoned
  /\ x' = [x EXCEPT !.running = @ \ {i}]

-----------------------------------------------------------------------------
(* The critical value for n samples; Failed if the assertion on what is    *)
(* interpolated fails.                                                     *)
Failed == -1

Critical(n) ==
  LET u     == CHOOSE i \in DOMAIN CriticalSizes :
                 /\ CriticalSizes[i] >= n
                 /\ i > 1 => CriticalSizes[i - 1] < n
      low   == CriticalValues[u - 1]
      high  == CriticalValues[u]
      range == CriticalSizes[u] - CriticalSizes[u - 1]
      sum   == high * range - (n - CriticalSizes[u - 1]) * (high - low)
  IN  IF CriticalSizes[u] = n THEN CriticalValues[u]
      ELSE IF low * range <= sum /\ sum <= high * range THEN sum \div range
      ELSE Failed

(* n lines, each of the results from one place of the array on.            *)
Lines(first, n, skip) ==
  [k \in 1 .. n |->
     LET at == first + (k - 1) * x.reps
     IN  [of      |-> x.trials[at],
          samples |-> SelectSeq(SubSeq(x.result, at, at + x.reps - 1),
                                LAMBDA s : s \notin skip)]]

Block(b, skip) == Lines((b - 1) * Levels * x.reps + 1, Levels, skip)

QueueFile == <<Lines(1, Levels, {})>>
Harbor2File == [b \in 1 .. Scenarios * Params |-> Block(b, {})]
Harbor3File == [b \in 1 .. Scenarios * Params |-> Block(b, {Sentinel})]

(* One line of a level has the replications over all terrains.             *)
RadarFile ==
  <<[k \in 1 .. Levels |->
       LET at == (k - 1) * Terrains * x.reps + 1
       IN  [of      |-> x.trials[at],
            samples |-> SubSeq(x.result, at, at + Terrains * x.reps - 1)]]>>

BenchmarkLine == <<Lines(1, 1, {})>>

File ==
  CASE x.program = "queue"      -> QueueFile
    [] x.program = "benchmark"  -> BenchmarkLine
    [] x.program = "harbor"     -> Harbor2File
    [] x.program = "abandoning" -> Harbor3File
    [] OTHER                    -> RadarFile

(* The queue asks for the critical value of the replications it was told   *)
(* to make, the harbor of those it counts, and the others know it.         *)
Looked ==
  CASE x.program = "queue"      -> {x.reps}
    [] x.program = "abandoning" ->
         {Len(line.samples) : line \in UNION {Range(b) : b \in Range(File)}}
    [] OTHER                    -> {}

Report ==
  /\ x.stage = "running"
  /\ x.next \notin Trial
  /\ x.running = {}
  /\ x' = IF \E n \in Looked : Critical(n) = Failed
            THEN [x EXCEPT !.stage = "aborted"]
            ELSE [x EXCEPT !.stage = "written", !.file = File]

Next == Begin \/ (\E i \in x.running : End(i)) \/ (\E i \in x.running : Abandon(i)) \/ Report

-----------------------------------------------------------------------------
(* The plots of the harbor, by scenario and parameter: which block of the  *)
(* file, and the column on the horizontal axis.                            *)
Plots ==
  [s \in 1 .. Scenarios, p \in 1 .. Params |->
     [index |-> (s - 1) * Params + p, column |-> Columns[p + 1]]]

(* Every line describes the trials whose results it was computed from, no  *)
(* result is used twice and none of a trial that ended is left out, though *)
(* the two walks through the array agree on nothing but their order. Each  *)
(* line averages as many numbers as trials were made for it: an abandoned  *)
(* one counts as 0.0, as tut_4_3.c resets (573) the sentinel that it looks *)
(* for (717, 823), and there is no such number if no trial was abandoned.  *)
(* And a plot shows the parameter it is labelled with, at every level, with*)
(* the arrivals of its scenario and everything else baseline.              *)
LevelsTrue ==
  x.stage = "written" =>
    LET lines   == FlattenSeq(x.file)
        numbers == FlattenSeq([k \in DOMAIN lines |-> lines[k].samples])
        used    == SelectSeq(numbers, LAMBDA s : s \in Trial)
        zeros   == SelectSeq(numbers, LAMBDA s : s = NoTime)
    IN  /\ IsInjective(used)
        /\ Range(used) = Trial \ Abandoned
        /\ Len(zeros) = Cardinality(Abandoned)
        /\ Len(used) + Len(zeros) = Len(numbers)
        /\ \A k \in DOMAIN lines :
             /\ Len(lines[k].samples) = IF x.program = "radar" THEN Terrains * x.reps ELSE x.reps
             /\ \A s \in Range(lines[k].samples) \cap Trial :
                  IF x.program = "radar"
                    THEN x.trials[s].level = lines[k].of.level
                    ELSE x.trials[s] = lines[k].of
        /\ InHarbor => \A s \in 1 .. Scenarios, p \in 1 .. Params :
             LET plot  == Plots[s, p]
                 block == x.file[plot.index]
             IN  /\ {line.of[plot.column] : line \in Range(block)} = 1 .. Levels
                 /\ \A line \in Range(block) : \A c \in Range(Columns) \ {plot.column} :
                      line.of[c] = Baseline(s)[c]

=============================================================================
