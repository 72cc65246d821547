------------------------------ MODULE Benchmark ------------------------------
(***************************************************************************)
(* The benchmark of the engine (src/app/benchmark.cxx and                  *)
(* benchmark_driver.cxx) on the main loop: a plan of cases, and for each   *)
(* case a run that repopulates the scene, warms up until streaming has     *)
(* settled, flies one lap of a camera path measuring every frame, and      *)
(* drains the GPU's timings.  A frame's timings come back when its slot is *)
(* used again, frames in flight later, and are matched with the row of the *)
(* frame they carry the number of.                                         *)
(*                                                                         *)
(* A frame is abstracted to what it shows: the case whose scene it draws,  *)
(* the place on the path its camera stands at, the scale it is rendered at *)
(* and whether the model the sample game downloads has arrived in it.      *)
(***************************************************************************)
EXTENDS Engine, Integers, Sequences, FiniteSets, SequencesExt

CONSTANTS
  Scenarios,     \* builtin_benchmark_scenarios(): a sequence of records
  OptionSets,    \* what the command line may ask for
  CaseWarmup,    \* minimum_case_warmup_frames
  MaxFaults,     \* bound: how often a frame is skipped, or timings are lost
  MaxFrames      \* bound: more than any benchmark needs, or it does not end

\* There is a scenario, the game's first; loads are lists of counts; and a slot
\* that was not used yet (None) is not one that was.
ASSUME BenchmarkAssumption ==
  /\ CaseWarmup \in Nat
  /\ Scenarios \in Seq(Range(Scenarios)) /\ Len(Scenarios) > 0
  /\ \A i \in DOMAIN Scenarios :
       Scenarios[i].keeps \in BOOLEAN /\ Scenarios[i].defaultLoads \in Seq(Nat)
  /\ \A asked \in OptionSets :
       /\ asked.mode \in {"single", "suite"}
       /\ {asked.frames, asked.repeats, asked.warmup, asked.maxWarmup, asked.drainLimit} \subseteq Nat
       /\ \A name \in DOMAIN asked.sweeps : asked.sweeps[name] \in Seq(Nat)
  /\ None \notin [ serial : Nat, passes : {None},
                   shows : [ of : Nat, place : Nat, scale : Nat, extra : BOOLEAN ] ]

VARIABLES
  options, plan,    \* BenchmarkOptions, BenchmarkDriver::cases_
  caseIndex, run,   \* case_index_, run_
  results,          \* results_
  frames, reports,  \* what is in frames/, and suite.json with report.md
  lastSerial,       \* last_frame_serial_
  owned,            \* scenario_materials_: at most one, named by its case
  world,            \* what the editor's scene holds
  scale,            \* the renderer's extent, in percent
  recorded,         \* recorded_frame_count_
  queries,          \* timestamp_queries_ of the slots, and what they timed
  profiled,         \* the slots' queries of the pass profiler
  timings,          \* last_frame_timings_
  inFlight,         \* frames the GPU has not finished
  download,         \* the model the game fetches
  faults,           \* frames skipped and timings lost so far
  stage             \* where the main loop stands

driverVars == << options, plan, caseIndex, run, results, frames, reports,
                 lastSerial, owned >>
rendererVars == << scale, recorded, queries, profiled, timings, inFlight >>
benchmarkVars == << driverVars, world, rendererVars, download, faults, stage >>

Slots == 0 .. FramesInFlight - 1
Suite == options.mode = "suite"
Scenario == Scenarios[plan[caseIndex].scenario]
AllDone == caseIndex > Len(plan)

----------------------------------------------------------------------------
\* plan_benchmark_cases().

\* The load levels asked for, which replace the default ones; a level given twice
\* is measured twice.
LoadsOf(s, asked) ==
  LET loads == IF s.name \in DOMAIN asked.sweeps
                 THEN asked.sweeps[s.name] ELSE s.defaultLoads
  IN  IF s.axis = None \/ loads = << >> THEN << 0 >> ELSE loads

LevelsOf(asked, i) ==
  LET loads == LoadsOf(Scenarios[i], asked)
  IN  IF asked.chosen # {} /\ Scenarios[i].name \notin asked.chosen THEN << >>
      ELSE [ k \in DOMAIN loads |-> [ scenario |-> i, load |-> loads[k] ] ]

Levels(asked) ==
  FoldLeft(LAMBDA levels, i : levels \o LevelsOf(asked, i), << >>, [ i \in DOMAIN Scenarios |-> i ])

\* Every case once, then every case again: case c is of round (c - 1) \div n of n levels.
PlanOf(asked) ==
  LET levels == Levels(asked)
      n == Len(levels)
      level(c) == levels[((c - 1) % n) + 1]
  IN  [ c \in 1 .. asked.repeats * n |->
          [ scenario |-> level(c).scenario, load |-> level(c).load, repeat |-> ((c - 1) \div n) + 1 ] ]

\* parse_benchmark_options() and BenchmarkDriver::create(): a suite without
\* cases, and what names no scenario, is refused; a single run is the game.
Accepted(asked) ==
  LET names == { Scenarios[i].name : i \in DOMAIN Scenarios }
  IN  /\ asked.frames > 0 /\ asked.repeats > 0
      /\ asked.mode = "suite" =>
           /\ asked.chosen \cup DOMAIN asked.sweeps \subseteq names
           /\ \A i \in DOMAIN Scenarios :
                Scenarios[i].name \in DOMAIN asked.sweeps
                  => \/ Scenarios[i].axis # None
                     \/ asked.chosen # {} /\ Scenarios[i].name \notin asked.chosen
           /\ Levels(asked) # << >>

BenchmarkInit ==
  /\ options \in { o \in OptionSets : Accepted(o) }
  /\ plan = IF options.mode = "single"
              THEN << [ scenario |-> 1, load |-> 0, repeat |-> 1 ] >>
              ELSE PlanOf(options)
  /\ caseIndex = 1 /\ run = None /\ lastSerial = 0
  /\ results = << >> /\ frames = << >> /\ reports = None
  /\ owned = {}
  /\ world = [ of |-> 1, game |-> TRUE, extra |-> FALSE, draws |-> {} ]
  /\ scale = 100 /\ recorded = 0
  /\ queries = [ s \in Slots |-> None ] /\ profiled = queries
  /\ timings = None
  /\ inFlight = {}
  /\ download = "running"
  /\ faults = 0
  /\ stage = "begin"

----------------------------------------------------------------------------
\* BenchmarkDriver::begin_frame().

\* release_scenario_materials(), after the scene was replaced.
Release == owned' = {}

\* The game's scene is as it was at startup, or on_populate() replaces it once
\* the GPU is idle: with the model that has arrived, or asking for it again.
PopulateGame ==
  IF Suite
    THEN /\ inFlight' = {}
         /\ Release
         /\ world' = [ of |-> caseIndex, game |-> TRUE,
                       extra |-> download = "kept", draws |-> {} ]
         /\ download' = IF download = "lost" THEN "running" ELSE download
    ELSE /\ world' = [ world EXCEPT !.game = TRUE ]
         /\ UNCHANGED << inFlight, owned, download >>

\* A synthetic scene; the instanced ones keep their material's creation
\* reference for as long as the scene is up.
PopulateScenario ==
  /\ inFlight' = {}
  /\ owned' = IF Scenario.keeps THEN {caseIndex} ELSE {}
  /\ world' = [ of |-> caseIndex, game |-> FALSE, extra |-> FALSE,
                draws |-> IF Scenario.keeps THEN {caseIndex} ELSE {} ]
  /\ UNCHANGED download

NewRun ==
  LET least == IF Suite /\ options.warmup < CaseWarmup
                 THEN CaseWarmup ELSE options.warmup
  IN  [ phase |-> "warmup", least |-> least,
        most |-> IF options.maxWarmup < least THEN least ELSE options.maxWarmup,
        warmed |-> 0, settled |-> TRUE, drained |-> 0, lastGpu |-> 0,
        rows |-> << >> ]

StartCase ==
  /\ IF Scenario.source = "game" THEN PopulateGame ELSE PopulateScenario
  /\ run' = NewRun

BeginFrame ==
  /\ stage = "begin"
  /\ IF run = None /\ ~AllDone
       THEN StartCase ELSE UNCHANGED << run, world, inFlight, owned, download >>
  /\ stage' = "draw"
  /\ UNCHANGED << options, plan, caseIndex, results, frames, reports,
                  lastSerial, scale, recorded, queries, profiled, timings, faults >>

----------------------------------------------------------------------------
\* draw(): the frame is skipped when the swapchain is recreated instead.

\* BenchmarkRun::camera() and simulated_time().
PlaceOf(r) == IF r.phase = "measuring" THEN Len(r.rows) ELSE 0

\* BasicGame::poll_helmet(), in on_ui(): only with the game's hooks on.  The
\* model joins the scene that is up, unless it did not come or does not load.
Poll ==
  IF world.game /\ download = "arrived"
    THEN \E loads \in BOOLEAN :
           /\ world' = [ world EXCEPT !.extra = loads ]
           /\ download' = IF loads THEN "kept" ELSE "lost"
    ELSE /\ download' = IF world.game /\ download = "failed" THEN "lost"
                                                            ELSE download
         /\ UNCHANGED world

\* What prepare_frame() reads back for the slot: lost when it is not ready.
ReadBack(s) ==
  IF queries[s] = None THEN {timings}
  ELSE IF faults < MaxFaults THEN {queries[s], None} ELSE {queries[s]}

\* PassProfiler::begin_slot(), in record_frame(): the passes of the frame before
\* in the slot, without times when these are not ready.
PassesRead(t, s) ==
  IF t = None THEN {None}
  ELSE { [ t EXCEPT !.passes = p ] :
           p \in IF faults < MaxFaults THEN {profiled[s], None} ELSE {profiled[s]} }

Draw ==
  /\ stage = "draw" /\ recorded < MaxFrames
  /\ LET slot == recorded % FramesInFlight
         shows == [ of |-> world.of, place |-> PlaceOf(run), scale |-> scale,
                    extra |-> world.extra ]
         frame == [ serial |-> recorded + 1, shows |-> shows, passes |-> None ]
     IN  /\ \E t \in ReadBack(slot) : timings' \in PassesRead(t, slot)
         /\ faults' = IF queries[slot] # None
                           /\ (timings' = None \/ timings'.passes = None)
                         THEN faults + 1 ELSE faults
         /\ recorded' = recorded + 1
         /\ queries' = [ queries EXCEPT ![slot] = frame ]
         /\ profiled' = [ profiled EXCEPT ![slot] = shows ]
         /\ inFlight' =
              { f \in inFlight : f.serial > recorded + 1 - FramesInFlight }
                \cup { [ serial |-> recorded + 1, draws |-> world.draws ] }
  /\ Poll
  /\ stage' = "end"
  /\ UNCHANGED << driverVars, scale >>

Recreate ==
  /\ stage = "draw" /\ faults < MaxFaults
  /\ faults' = faults + 1
  /\ stage' = "end"
  /\ UNCHANGED << driverVars, world, rendererVars, download >>

----------------------------------------------------------------------------
\* BenchmarkRun::on_frame_drawn().

Row(r, serial) ==
  [ serial |-> serial, gpu |-> None, passes |-> None,
    shows |-> IF serial = 0 THEN None
                ELSE queries[(serial - 1) % FramesInFlight].shows ]

\* Mutant: what comes back is taken for the frame drawn last.
LastRowFor(rows, t, lastGpu) ==
  IF t = None \/ t.serial <= lastGpu \/ rows = << >> THEN {} ELSE {Len(rows)}

\* Timings go to the latest row with their number, once.
RowFor(rows, t, lastGpu) ==
  IF t = None \/ t.serial <= lastGpu THEN {}
  ELSE { i \in DOMAIN rows : rows[i].serial = t.serial }

Attach(rows, t, lastGpu) ==
  [ i \in DOMAIN rows |-> IF i \in RowFor(rows, t, lastGpu)
                            THEN [ rows[i] EXCEPT !.gpu = t.shows, !.passes = t.passes ]
                            ELSE rows[i] ]

LaterOf(a, t) == IF t # None /\ t.serial > a THEN t.serial ELSE a

Warm(r, idle) ==
  LET warmed == r.warmed + 1
      over == (warmed >= r.least /\ idle) \/ warmed >= r.most
  IN  [ r EXCEPT !.warmed = warmed,
                 !.phase = IF over THEN "measuring" ELSE @,
                 !.settled = IF over THEN idle ELSE @,
                 !.lastGpu = LaterOf(@, timings) ]

PendingRows(rows) ==
  \E i \in DOMAIN rows : rows[i].serial # 0 /\ rows[i].gpu = None

\* Mutant: drains for as long as timings are missing.
EndlessDrain(r) ==
  LET lapped == r.phase = "draining" \/ Len(r.rows) >= options.frames
  IN  IF ~lapped THEN "measuring"
      ELSE IF PendingRows(r.rows) THEN "draining" ELSE "finished"

\* The lap has its frames, and the timings of all are in or stopped coming.
NextPhase(r) ==
  LET lapped == r.phase = "draining" \/ Len(r.rows) >= options.frames
  IN  IF ~lapped THEN "measuring"
      ELSE IF ~PendingRows(r.rows) \/ r.drained >= options.drainLimit
      THEN "finished" ELSE "draining"

Measure(r, serial) ==
  LET rows == IF r.phase = "measuring" THEN Append(r.rows, Row(r, serial))
                                       ELSE r.rows
      next == [ r EXCEPT
                  !.drained = IF r.phase = "measuring" THEN @ ELSE @ + 1,
                  !.rows = Attach(rows, timings, r.lastGpu),
                  !.lastGpu = LaterOf(@, timings) ]
  IN  [ next EXCEPT !.phase = NextPhase(next) ]

OnFrameDrawn(r, serial, idle) ==
  IF r.phase = "warmup" THEN Warm(r, idle) ELSE Measure(r, serial)

\* BenchmarkRun::analyse() and result(): what a case is said to have measured.
ResultOf(r) ==
  [ case |-> caseIndex, rows |-> r.rows, settled |-> r.settled,
    timed |-> Cardinality({ i \in DOMAIN r.rows : r.rows[i].gpu # None }) ]

\* BenchmarkCaseId::key() and file_stem().
KeyOf(c) == [ scenario |-> plan[c].scenario, load |-> plan[c].load ]
StemOf(c) == << KeyOf(c), plan[c].repeat >>

\* aggregate_cases(): the runs of one key together.
AggregatesOf(rs) ==
  { [ key |-> KeyOf(c), runs |-> { d \in DOMAIN rs : KeyOf(d) = KeyOf(c) } ] :
      c \in DOMAIN rs }

\* scaling_of(): the scenarios measured at more than one load.
ScalingOf(aggregates) ==
  LET loads(s) == { a.key.load : a \in { b \in aggregates : b.key.scenario = s } }
  IN  { [ scenario |-> s, loads |-> loads(s) ] :
          s \in { i \in DOMAIN Scenarios :
                   Scenarios[i].axis # None /\ Cardinality(loads(i)) >= 2 } }

SuiteJson(rs) ==
  [ cases |-> rs, aggregates |-> AggregatesOf(rs),
    scaling |-> ScalingOf(AggregatesOf(rs)) ]

SuiteReport(rs) ==
  [ table |-> AggregatesOf(rs), scaling |-> ScalingOf(AggregatesOf(rs)),
    unsettled |-> { c \in DOMAIN rs : ~rs[c].settled } ]

\* write_text_file(), which the disk may refuse.
Written == IF faults < MaxFaults THEN BOOLEAN ELSE {TRUE}

\* A run of the suite whose samples cannot be written is only logged.
WriteFrames(written) ==
  frames' = IF written
              THEN [ file \in DOMAIN frames \cup {StemOf(caseIndex)} |->
                       IF file = StemOf(caseIndex) THEN caseIndex ELSE frames[file] ]
              ELSE frames

WriteSuite(rs, written) ==
  /\ reports' = IF written THEN [ json |-> SuiteJson(rs), report |-> SuiteReport(rs) ]
                           ELSE None
  /\ stage' = IF written THEN "finished" ELSE "failed"

\* Mutant: the last case is not stepped over, and its report goes unwritten.
FinishWithoutCounting(r) ==
  /\ results' = Append(results, ResultOf(r))
  /\ run' = None
  /\ caseIndex' = caseIndex + 2
  /\ WriteFrames(TRUE)
  /\ stage' = "begin"
  /\ UNCHANGED << reports, faults >>

\* BenchmarkDriver::finish_case(): a single run writes its files at once, the
\* suite when the last case is done, and what cannot be written fails it.
FinishCase(r) ==
  \E written \in Written :
    /\ results' = Append(results, ResultOf(r))
    /\ run' = None
    /\ caseIndex' = caseIndex + 1
    /\ WriteFrames(written)
    /\ faults' = IF written THEN faults ELSE faults + 1
    /\ IF Suite
         THEN IF caseIndex < Len(plan) THEN stage' = "begin" /\ UNCHANGED reports
              ELSE WriteSuite(results', written)
         ELSE /\ stage' = IF written THEN "finished" ELSE "failed"
              /\ UNCHANGED reports

\* BenchmarkDriver::end_frame(), then the main loop resizes the renderer to
\* what the case wants.
EndFrame ==
  /\ stage = "end"
  /\ LET serial == IF recorded # lastSerial THEN recorded ELSE 0
     IN  \E idle \in BOOLEAN :
           LET r == OnFrameDrawn(run, serial, idle)
           IN  IF r.phase = "finished" THEN FinishCase(r)
               ELSE /\ run' = r
                    /\ stage' = "begin"
                    /\ UNCHANGED << results, frames, reports, caseIndex, faults >>
  /\ lastSerial' = recorded
  /\ scale' = IF Scenario.target = "scale" THEN plan[caseIndex].load ELSE 100
  /\ UNCHANGED << options, plan, owned, world, recorded, queries, profiled,
                  timings, inFlight, download >>

----------------------------------------------------------------------------
\* The GPU ends frames in order, and the download ends when it will.
GpuFinishes ==
  /\ inFlight # {}
  /\ inFlight' = { f \in inFlight : \E g \in inFlight : g.serial < f.serial }
  /\ UNCHANGED << driverVars, world, scale, recorded, queries, profiled,
                  timings, download, faults, stage >>

DownloadEnds ==
  /\ download = "running"
  /\ download' \in {"arrived", "failed"}
  /\ UNCHANGED << driverVars, world, rendererVars, faults, stage >>

\* The window is closed, or the device lost: results so far are not written.
Interrupt ==
  /\ stage = "draw"
  /\ stage' = "failed"
  /\ UNCHANGED << driverVars, world, rendererVars, download, faults >>

Loop == BeginFrame \/ Draw \/ Recreate \/ EndFrame
BenchmarkNext == Loop \/ Interrupt \/ GpuFinishes \/ DownloadEnds

\* The main loop comes round until it breaks out of itself.
BenchmarkSpec ==
  BenchmarkInit /\ [][BenchmarkNext]_benchmarkVars /\ WF_benchmarkVars(Loop)

----------------------------------------------------------------------------
BenchmarkTypeOK ==
  /\ caseIndex \in 1 .. Len(plan) + 1
  /\ stage \in {"begin", "draw", "end", "finished", "failed"}
  /\ lastSerial <= recorded
  /\ inFlight \subseteq [ serial : 1 .. recorded, draws : SUBSET (1 .. Len(plan)) ]
  /\ download \in {"running", "arrived", "kept", "failed", "lost"}

ScaleOf(c) == LET s == Scenarios[plan[c].scenario]
              IN  IF s.target = "scale" THEN plan[c].load ELSE 100

\* A row is about one frame: drawn in the scene of its case, at its place on
\* the path and at the size the case renders at, and what the GPU is said to
\* have taken is what it took for that frame.
RowsAreTheirFrames(c, rows) ==
  \A i \in DOMAIN rows :
    /\ rows[i].serial # 0 =>
         /\ rows[i].shows.of = c
         /\ rows[i].shows.place = i - 1
         /\ rows[i].shows.scale = ScaleOf(c)
    /\ {rows[i].gpu, rows[i].passes} \subseteq {None, rows[i].shows}

\* The reports speak of every level of the plan, each with as many runs as it
\* was to be repeated, and fit a cost to each scenario with several loads.
ReportsAreWhole ==
  LET asked(s) == { plan[c].load : c \in { d \in DOMAIN plan : plan[d].scenario = s } }
  IN  /\ { a.key : a \in reports.json.aggregates } = { KeyOf(c) : c \in DOMAIN plan }
      /\ \A a \in reports.json.aggregates : Cardinality(a.runs) = options.repeats
      /\ reports.report.table = reports.json.aggregates
      /\ \A fit \in reports.report.scaling : fit.loads = asked(fit.scenario)

\* No level was asked for twice.
CasesDiffer == \A c, d \in DOMAIN plan : plan[c] = plan[d] => c = d

\* Every measurement is the one its row says it is, in the run under way and in
\* all that ended; runs end in the order of the plan, with a row for every
\* frame of the lap, and, unless a level was asked for twice, are reported under
\* their own names; and no frame draws with a material that is gone.
MeasurementsAreTheirOwn ==
  /\ BenchmarkTypeOK
  /\ run # None => RowsAreTheirFrames(caseIndex, run.rows)
  /\ \A c \in DOMAIN results :
       /\ results[c].case = c
       /\ Len(results[c].rows) = options.frames
       /\ RowsAreTheirFrames(c, results[c].rows)
       /\ CasesDiffer /\ StemOf(c) \in DOMAIN frames => frames[StemOf(c)] = c
  /\ CasesDiffer /\ reports # None => ReportsAreWhole
  /\ world.draws \subseteq owned
  /\ \A f \in inFlight : f.draws \subseteq owned

\* A benchmark ends, whether or not streaming settles, frames are skipped or
\* timings come back.
BenchmarkEnds == <>(stage \in {"finished", "failed"})
=============================================================================
