--------------------------- MODULE MCApplication ---------------------------
(***************************************************************************)
(* The application small enough for TLC, one subject at a time:            *)
(*   - the process on machines without, with one and with two devices      *)
(*     (Startup);                                                          *)
(*   - benchmarks: the game's scene as it is and at another resolution,    *)
(*     and a synthetic scene with a material of its own, asked for as a    *)
(*     single run and as suites with sweeps and repeats (Benchmark);       *)
(*   - downloads, such as that of the game's model (HttpClient).           *)
(* They meet in main.cxx, whose loop is in each of them as far as it       *)
(* matters there.                                                          *)
(***************************************************************************)
EXTENDS Startup, Benchmark, HttpClient

\* Startup: families that can everything, or a discrete device's.
Family(graphics, compute, present, queues, timestamps) ==
  [ graphics |-> graphics, compute |-> compute, present |-> present,
    queues |-> queues, timestamps |-> timestamps ]
Universal(queues) == << Family(TRUE, TRUE, TRUE, queues, TRUE) >>
Discrete ==
  << Family(TRUE, TRUE, FALSE, 1, TRUE), Family(FALSE, TRUE, TRUE, 1, FALSE),
     Family(FALSE, TRUE, FALSE, 2, TRUE) >>
Device(families, features, enables, score) ==
  [ families |-> families, features |-> features, enables |-> enables, score |-> score ]

MCMachines ==
  { << >>,
    << Device(Universal(2), TRUE, TRUE, 1) >>,
    << Device(Universal(1), TRUE, TRUE, 1), Device(Discrete, TRUE, TRUE, 3) >>,
    << Device(Discrete, FALSE, TRUE, 3), Device(Universal(1), TRUE, FALSE, 1) >> }

\* Benchmark.
ScenarioOf(name, axis, levels, source, scales) ==
  [ name |-> name, axis |-> axis, defaultLoads |-> levels, source |-> source,
    target |-> scales, keeps |-> source = "synthetic" ]

MCScenarios ==
  << ScenarioOf("game", None, << >>, "game", "scene"),
     ScenarioOf("game_resolution", "percent", << 50 >>, "game", "scale"),
     ScenarioOf("instancing", "instances", << 1, 2 >>, "synthetic", "scene") >>

Asked(mode, warmup, chosen, repeats, sweeps) ==
  [ mode |-> mode, frames |-> 2, warmup |-> warmup, maxWarmup |-> 3,
    repeats |-> repeats, chosen |-> chosen, sweeps |-> sweeps, drainLimit |-> 3 ]

NoSweeps == [ s \in {} |-> << >> ]

MCOptions ==
  { Asked("single", 0, {}, 1, NoSweeps),
    Asked("suite", 1, {"game", "game_resolution"}, 1, NoSweeps),
    Asked("suite", 0, {"game_resolution", "instancing"}, 1,
          [ s \in {"instancing"} |-> << 1 >> ]),
    Asked("suite", 0, {"instancing"}, 1, NoSweeps),
    Asked("suite", 0, {"instancing"}, 1, [ s \in {"instancing"} |-> << 2, 2 >> ]),
    Asked("suite", 0, {"game"}, 2, NoSweeps) }

----------------------------------------------------------------------------
VARIABLE subject

applicationVars == << subject, startupVars, benchmarkVars, clientVars >>

ApplicationInit ==
  /\ subject \in {"process", "benchmark", "downloads"}
  /\ StartupInit /\ BenchmarkInit /\ ClientInit
  /\ subject # "process" =>
       machine = [ devices |-> << >>, mode |-> "auto", validation |-> FALSE ]
  /\ machine.validation <=> machine.mode = "same-family"
  /\ subject # "benchmark" => options.mode = "single"
  /\ subject # "downloads" => \A f \in Files : path.at[f] = NoFile

ApplicationNext ==
  /\ UNCHANGED subject
  /\ \/ /\ subject = "process" /\ StartupNext
        /\ UNCHANGED << benchmarkVars, clientVars >>
     \/ /\ subject = "benchmark" /\ BenchmarkNext
        /\ UNCHANGED << startupVars, clientVars >>
     \/ /\ subject = "downloads" /\ ClientNext
        /\ UNCHANGED << startupVars, benchmarkVars >>

\* Only the subject goes on.
Of(what) == subject = what
ApplicationSpec ==
  /\ ApplicationInit /\ [][ApplicationNext]_applicationVars
  /\ WF_benchmarkVars(Of("benchmark") /\ Loop)
  /\ WF_clientVars(Of("downloads") /\ Notify)
  /\ WF_clientVars(Of("downloads") /\ Join)
  /\ \A w \in Workers : /\ WF_clientVars(Of("downloads") /\ StopWorker(w))
                        /\ WF_clientVars(Of("downloads") /\ WorkerStep(w))

----------------------------------------------------------------------------
\* A benchmark, once asked for, ends, whether or not streaming settles, frames
\* are skipped or timings come back.
BenchmarkRunsEnd == Of("benchmark") => BenchmarkEnds
=============================================================================
