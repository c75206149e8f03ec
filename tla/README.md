# A verification project for carla-autoware-extension

The repository puts Autoware on CARLA through a native ROS 2 extension and measures it against
other approaches. Its own logic is in four places: the shared library loaded into the CARLA
server, the Python runner that drives the simulation, the shell scripts that bring a stack up and
take it down, and the benchmark harness that makes runs, labels them and refuses to score what it
cannot vouch for. The modules here model that logic; TLC checks them on small instances and TLAPS
proves the central properties for every value of the constants.

## 1. Inventory

Paths are relative to the repository.

| Part | State | Operations | Hard because |
|---|---|---|---|
| `benchmarks/run.sh`, `scripts/teardown.sh` | shell position, EXIT trap, `CURRENT_RUN_DIR`, per-run flags, `manifest.json`, `host_pids.env`, `launch.env`, live processes | fifteen steps per run, `on_abort`, `exclude_and_die`, teardown in seven stops | any command may fail, any process may die, an operator may signal, the clock may freeze, and state of one run may leak into the next |
| `scripts/write_manifest.py`, `analysis/manifest.py` | one manifest per run | create, exclude, validate | rewritten in place; a failing rewrite is ignored |
| `scripts/clock_watchdog.py`, `observer/`, `sampler/`, `scripts/collect_gt.py` | CSV files, a stall marker | record until stopped | buffered rows, stop order, death after the liveness check |
| `cells/*.sh` | `launch.env`, containers, pid files | plan, up | launch half done |
| `scripts/duel.sh` | pair counter, consecutive failures, load average | pace, run, count, stop early | stale load readings, a long series of outcomes |
| `injector/arm_and_goal.py` | windows of samples, mode flag, deadlines | localise, clear and set route, engage over two paths, verify | reports from before the engage, retries sharing a deadline, answers that come late or never |
| `injector/{seed_localization,republish_vector_map,dummy_perception}.py` | latched maps, seeds | retry until delivered | QoS and discovery |
| `scripts/e2e/launch_autoware.sh`, `stop_launch_tree.sh` | pid files, command-line sidecars, the process table | launch, poll, snapshot, signal ladder | forks, exits and pid reuse between any two steps |
| `scripts/e2e/run_e2e.sh`, readiness poll of `launch_autoware.sh` | CARLA's pid file, the RPC port, elapsed time of each wait, `consecutive_ready` | boot, wait for the port, launch Autoware, poll, run, clean up | a late `load_world` wipes the ego; a CARLA of a killed run may hold or take the port; a signal between a start and its pid file |
| `extension/` (`libcarla-autoware-extension.so`) | five subsystems, cached command bytes, the decimator's last time | load, observe, subscribe callbacks, unload | game thread, dispatch threads and DDS listener interleave; episodes reload |
| `runner/` | ego, sensors, saved world settings, a stop flag | connect, spawn, tick, restore, destroy | every call may fail half way or be carried out late; SIGINT at any time |
| `runner/kit.py`, attributes in `runner/spawn.py` | none | compose mounts, convert handedness, set blueprint attributes in order | two angle conventions, a pitch singularity, builds that lack some attributes |
| `scripts/{duel,sweep}_verdict.py`, `write_quality.py`, `report.py`, `analysis/` | none | admit runs, window, score | pools of runs, float statistics |
| `scripts/interop_check.py`, `interop_lib.py` | rows so far, two reports | three commands per topic, verdict, reports, status | endpoints come and go between the commands; commands time out with or without output; a kill between the reports |
| `scripts/run_g0.sh`, gates, map tools | none | one-shot checks | — |

How they interact: `duel.sh` starts `run.sh`, which calls a cell launcher (for the extension cells
`run_e2e.sh`, hence `launch_autoware.sh` and the runner), the injector and the arming script, and
hands everything to `teardown.sh`, which for Autoware's part comes down to `stop_launch_tree.sh`.
The extension lives in the CARLA server and meets Autoware only over DDS. The verdict scripts read
the manifests and CSV files the runs left.

What makes each part correct, in one line: a run's directory is complete or labelled with its true
reason, and nothing outlives the run; a duel stays interleaved and its exit status is true; ARMED
is earned after the engage; a stop strikes what was launched and says "stopped" only if it is; no
callback meets an unfinished state and no old command returns; no exit leaks actors or leaves the
world in sync mode; a sensor sees a point where Autoware's TF puts it; the interop gate passes only
what the wire offered; the end-to-end harness spawns its ego where no `load_world` is to come, and
takes down its own CARLA and no other. `PROJECT.json` lists the hazards line by line and the properties aimed at them.

## 2. Modules

| Module | Models | Proofs |
|---|---|---|
| `RunLedger` | what an invocation owes the results directory, without its steps: the abstract specification of `RunHarness` | |
| `RunHarness` (`MCRunHarness`) | `run.sh` with `teardown.sh`, manifests and recorders | `RunHarnessProofs` |
| `Duel` | `duel.sh` and the load average between it and `preflight.sh` | `DuelProofs` |
| `ArmAndGoal` | `arm_and_goal.py` beside a stack that changes mode when it likes | `ArmAndGoalProofs` |
| `LaunchTree` (`MCLaunchTree`) | pid files and sidecars of `launch_autoware.sh`, all of `stop_launch_tree.sh`, and the process table | `LaunchTreeProofs` |
| `BringUp` | `run_e2e.sh`, the readiness poll of `launch_autoware.sh`, CARLA, the stack and `carla_interface` | `BringUpProofs` |
| `Extension` | the shared library and the host's side of its interface | `ExtensionProofs` |
| `RigLease` | what the runner owes the server, without the order of its code: the abstract specification of `Runner` | |
| `Runner` | `runner/__main__.py`, `loop.py`, `spawn.py`: every call and its failures | `RunnerProofs` |
| `Kit` | `runner/kit.py`: the mount transforms, and CARLA's and TF's view of a point | `RunnerProofs` |
| `SensorRig` (`MCSensorRig`), extends `Kit` | the same runner when no call fails: arguments, preflight, pose, attributes, mounts | `RunnerProofs` |
| `InteropGate` (`MCInteropGate`) | `interop_check.py`, `interop_lib.py` and the ROS graph they look at | `InteropGateProofs` |

Variables marked *history* in a module record what happened so that a property can speak of it; no
guard reads them. Definitions introduced by `\* Mutant:` are altered copies of the definition that
follows; no specification uses them. They show what kind of slip each property would catch.

**RunHarness.** `pc` is the step of `do_run`; `trap`, `dir`, `abortReason`, `controlSilent`,
`windowShort` and `runExcluded` are the shell's variables; `manifest` is the results tree;
`launchEnv`, `hostPids`, `rows` and `marker` are files of the current run directory; `running` and
`ticking` the world. One action per step of `do_run`, one per stop of `teardown.sh`, one for the
end of `on_abort` and of `exclude_and_die`; the environment lets processes die, the simulator
freeze, the watchdog fire and an operator signal. A cell is reduced to the seven facts that `run.sh`
and its launcher branch on; one is the ablation arm, where the client writes `clock.csv` and no
observer does. A write may fail (`WriteFault`, bounded): a manifest is rewritten in place, so it is
kept or cut short (`Torn`); a first save that fails leaves a directory without a manifest or with a
torn one; the recorders start one by one, and one whose pid cannot be written runs on unrecorded.
`Contract`, what a complete run owes, is derived from the recorders that were started, not from
`run.sh`'s own list of files. A signal runs the EXIT trap with the status of the last finished command, usually 0.
`Phase`, `Book` and `Whole` map the harness to `RunLedger`: an entry is absent, fresh, torn or the
reason in the manifest, and a fault is a signal or a write that failed.

**Duel.** The pair loop, `pace_between_runs` (floor, poll, ceiling, unreadable source), the run's
outcome as `run.sh` can deliver it, and the summary. Load moves only down while the script waits,
but for the `TickUp` between its reading and preflight's.

**ArmAndGoal.** Time is in seconds. `left` is the rest of the wait in progress and `spent` what the
phase has used. Callbacks run only while the script spins, so a report published before the engage
can be delivered after the reset: `queued` holds it. Rates are sets of sample ages in a window.

**LaunchTree.** Processes fork, exec, exit, are reparented and have their pids reused at any moment.
A signal has no effect of its own (`nohup` ignores SIGINT, a process may hang in the kernel); what
it leaves is the record of whom it struck. The poll of the sidecar and the stop interleave. A poll
that finds no pid in the file reads `/proc//cmdline`, the kernel's. Fork and pid file write of a
launch are one step: no stop overlaps with a launch, so nobody can see the state between them. That
the pid file can at least be opened is assumed; a write that fails leaves it empty.

**Extension.** The load is step by step (reject, allocate, what the five Inits make in nine steps,
register, return), so that a callback between two steps is possible wherever the host's interface
allows it: a subscriber may be called as soon as it is made. Egos come and go within an episode, each
with an id of its own. The unload waits for the listener, whose endpoints
`CarlaRos2Extension.h:123-128` covers, and for nobody else: a dispatch that it overtakes is the one
exception of `CallbacksFindTheirState`, and is not followed further. A command is
represented by its number, a control by its number and the ego it was read for. `ext_on_status`
makes its four atomic loads as four steps; the decimator reads and writes `last_pub_s_` in two. The
host (episodes, clock, staging, `SetFrame`, teardown) is taken from the comments of
`CarlaRos2Extension.h` and the way the code uses it.

**BringUp.** Runs are numbered and so is the CARLA each one starts; `port` is the CARLA that holds
the RPC port, `pidfile` the one the file names, `stack` and `iface` the launches whose nodes or
whose `carla_interface` are there. Each wait is a counter with the script's bound. A run may be
signalled anywhere (the trap runs `cleanup`) or killed (it does not), and the next one meets what it
left; a second Ctrl-C, while `cleanup` runs, ends it where it is and so is a kill. The pid write may
fail, which ends the run with the file as it was or empty. `kill -9` is sent and not waited for: CARLA
binds no port any more, and dies when it dies. One CARLA at a time holds the port: the remark on
`SO_REUSEADDR` at `run_e2e.sh:236` is taken to mean that a bind succeeds once the old listener is
closed, since Linux lets no second socket listen beside it. The preflights are one choice. `past` is history: who was struck, who
left early, who was sent SIGKILL, what was missed.

**SensorRig and Kit.** An input is a command line, a pair of calibration files and a build of CARLA.
Angles are multiples of a right angle, so that sine, cosine and `atan2` are exact integers; this
includes the pitch of 90 degrees where `_rpy_from_matrix` branches. `InTf` and `InCarla` are written
independently of the code, as elementary rotations one after the other, right-handed for TF and
left-handed for Unreal. `InNamedFrame` starts from the frame that the message's header names: for the
LiDAR that is `velodyne_top`, which the VLS-128's URDF puts `ScanHeight` above
`velodyne_top_base_link`, where the runner mounts the sensor. Attributes are sequences, because the
order in which they are set decides which error a build that lacks several of them gives, and what has
been set by then (`left`). `RunnerProofs` extends both halves of the
runner, so `SensorRig` has `stage`, `RigInit`, `RigNext` and `RigSpec` where other modules have `pc`,
`Init`, `Next` and `Spec`.

**InteropGate.** `graph` is what the wire shows, and changes between any two commands. A command ends
well, fails, or is given up on in silence or with output on one stream or both: bytes and a string
cannot be added, bytes and bytes can, and then only `--discover` and the echo check, which search
nothing in them, go on. A malformed entry of the contract raises when its turn comes. The two reports are written one after the
other and a write may be cut short; an earlier run's reports are there from the start.

**Runner.** Every call to the server succeeds, fails, or is carried out after the client gave up on
it. `call` is what the spawning call holds in its own list, `sensors` and `ego` what `main()`
holds; a tick that succeeds changes nothing modelled. `--extension-check` returns before any of it
and is in `SensorRig`. `Phase` and `Held` map the runner to `RigLease`: held is what some variable
still refers to and whose destroy has not been tried.

## 3. What TLC checks

| Run | Shows | States |
|---|---|---|
| `harness` | Two runs, every kind of cell, one signal, one failing write, one death. A directory is complete or labelled unless the signal or the write gets in the way; the label names a cause this run met; nothing is left running but a recorder whose pid could not be written; ground truth reaches as far as the clock; step by step the harness implements `RunLedger`, so a run is filed once and the next begins only after one that is filed or complete; a filed run stays filed; the invocation ends. | 520 000 |
| `harness_interrupted` (violation) | A signal after bring-up leaves a run neither complete nor excluded: the trap sees status 0 and returns. | |
| `duel` | Four pairs under every outcome and load: interleaved at all times, early stop exactly after two failures in a row, a met target is never followed by a refusal for load, the wait is bounded. | 125 000 |
| `arm` | ARMED means autonomous and gated traffic since the engage; no phase outlasts its budget; the script always answers. | 21 000 |
| `launch_tree` | Two launches and two stops over two pid files: a guarded ladder strikes nothing that was running outside the recorded launch; a live root is skipped only over a leftover; "stopped" is said only if every process of both snapshots is dead. | 3 500 000 |
| `bring_up` | Two runs of the harness, signalled or killed anywhere or unable to write the pid file. No world is loaded under the ego but in three named cases; the ego is on this run's CARLA, or a warning was given, or an older CARLA bound late; teardown strikes only its own CARLA and leaves none, but for a run that leaves between the trap and its pid file and a CARLA that has yet to die of SIGKILL; every wait ends. | 450 000 |
| `extension` | Load, two episodes, egos that come and go, unload, with one dispatch thread: callbacks find a finished state, the newest control drives the present ego, reports never go back, and the decimator never leaves a stale pose. | 3 300 000 |
| `extension_reentrant` (violation) | With two dispatch threads, which the host's contract allows, two poses are published within the second. | |
| `runner` | A rig with two cameras, both modes, every failure: the runner implements `RigLease`; on every exit but a kill each actor somebody held is destroyed or its destroy was tried, the ego last; the mode is given back; SIGINT ends the runner. | 4 600 |
| `rig` | Every pair of right-angled mounts, every subset of missing attributes, all LiDAR options, spawn indices around the ends of the list: points are seen where TF puts them in the frame of the header, but for two named offsets; a build without the native publishers is refused by name, with nothing but the topic set; the rig is the one asked for. | 26 000 |
| `interop` | Two topics, two changes of the graph, any outcome of any command, a kill anywhere: a pass was offered by one publisher at one moment, both reports and the status agree, the gate ends. | 230 000 |
| `interop_timeout` (violation) | A command given up on after some output ends the gate with a `TypeError`. | |

The three violations are disagreements between the code and a line of its own documentation, quoted
under `findings` in `PROJECT.json`. Further deviations that the models make exact instead of
refuting:

- the route and engage phases of `arm_and_goal.py` last up to the fixed waits longer than
  `--timeout` promises (`PhasesAreBounded` gives the amount);
- an actor whose `spawn_actor` timed out and was carried out is held by nobody (`orphans` in
  `NeverLeaks`), and a sync mode entered by such a call is not given back, since `apply_settings`
  stands before the `try` (`kept` in `SettingsGivenBack`);
- a launch over leftover files, stopped before its poll has rewritten the sidecar, is skipped as a
  reused pid, although `stop_launch_tree.sh:78` calls the comparison exact (`SkipsOnlyLeftovers`
  says when);
- `run_e2e.sh` sets its trap before CARLA starts and writes the pid file after: a signal in between,
  or a write that fails, leaves the new CARLA and strikes what an earlier run's file names (`past.early` in
  `OnlyOwnCarlaIsStruck` and `TornDown`);
- a `carla_interface` that starts only when its stack is up, or that three node lists in a row miss,
  still loads the world under the ego (`EgoOutlivesInterface`);
- the comment at `launch_autoware.sh:261` speaks of two consecutive polls; code and model take three;
- a sensor off the centre line keeps its side where the rest of the point is mirrored
  (`SeesWhereTfSays`; `kit.py` says so itself), and the LiDAR's cloud is read 6.6 cm too high, the
  height of `velodyne_top` above its mount (the KNOWN RESIDUAL of `spawn.py:52-60`);
- a build that lacks only `ros2_extended_lidar` is refused after `ros_topic_name` has been set on the
  blueprint, where `spawn.py:190` says that it is not mutated (`left` in `NativeOrNothing`);
- a recorder whose pid cannot be written to `host_pids.env` is started before the write and outlives
  the run (`NothingLeftRunning`).

Three more come from reading and are not stated as properties: a recorder that dies with some rows
written, or a flush lost outside the calibration cells, leaves a run that counts as complete; runs that step 14 excludes exit 0, so
`duel.sh` counts them as successes and never stops on them (an argument error ends it before its
loop); and a survivor whose root died on the
ladder is out of reach of a second `--stop`, whose early return removes the files.

**Bounds.** Two runs are what a leak from one run to the next takes; one fault of each kind at any
point, since the promises are about single faults. Four pairs go through both orders twice and
leave room for a failure, a success and two failures. Two pids are a root and what takes its
place or hangs on it: a child, the other file's root, a stranger after reuse; two launches and two
stops are what leftovers take. Two runs of the bring-up are one that leaves something and one that
meets it, and five polls leave room for a count of three that was interrupted. Two topics and two
changes of the graph put a change into every gap of a topic's three commands. Two episodes, two egos
and two messages let the clock, up to `MaxTime = 3`, restart below, at and above the last pose and a
control outlive its ego, within an episode or across a reload; the run with two dispatch threads needs
neither reload nor command and has one episode and one ego. Seconds are
scaled down (`Second = 2`, `Timeout = 4`) keeping the order of the constants. `CHECK_DEADLOCK FALSE`
is used where the system really may stop: no more launches, an unloaded extension, an ended runner,
gate or harness.

**Fairness.** `RunHarness`: the shell is weakly fair, for each command it runs has its own timeout,
and so is a live watchdog, which polls every second. `ArmAndGoal`: the script is weakly fair;
nothing is assumed of the stack. `Runner`: `main()` goes on and the loop looks at its flag, since
every call returns within the client's timeout; no tick need fail and nobody need signal.
`InteropGate`: `main()` is weakly fair, since `sh()` gives each command a timeout. `BringUp`: the
scripts are weakly fair, nothing is asked of CARLA, the stack or the runner; a run may drive for ever.
One thing the code does not give is assumed: that `docker compose exec` with `ros2 node list`, which
`launch_autoware.sh:271` calls without a timeout, returns.

## 4. What TLAPS proves

For every number of runs, every set of cells, any number of faults (`RunHarnessProofs`): type
correctness, `LabelledUnlessFaulted`, `NothingLeftRunning`, `ReasonNamesItsCause`,
`FiledRunsStayFiled`, `FirstReasonStays`, `GroundTruthOutlivesClock`, and that `RunHarness` implements
`RunLedger`. None is inductive: whether a label is true at the end
depends on what the trap finds in `CURRENT_RUN_DIR`, which manifest exists at which step, what
`teardown.sh` can still read from `launch.env` and `host_pids.env`, and which fact each flag stands
for. `IInv` states these per step (`ManifestInv`, `TrapInv`, `WorldInv`, `CauseInv` and others) and
has one proof step per action. A recorder that runs without its pid on record (`Strays`) exists only
after a failed write, in a run that is already being aborted. That the ground truth reaches as far as the clock needs `CollectorInv`
beside it: unless a process died by itself, a collector whose pid is recorded runs for as long as
the observer does. The refinement takes one case per action (`LedgerStep`) and rests on two parts of
`IInv`: where a label can be written the manifest is this run's and fresh, so a label is an entry being
filed for the first time; and no command can fail between the entry and the armed trap, so a failing
command never ends the invocation on a fresh one.

For every number of pairs and every pacing with `Target + TickUp <= Gate` (`DuelProofs`): the
properties of the run `duel`, and that the exit status is true (`ExitTellsFailures`). The invariant counts: the loop's position fixes how many runs each cell has
started and how many pairs it opened.

For every timeout, pause and window (`ArmAndGoalProofs`): `ArmedIsEarned` and `PhasesAreBounded`.
The time spent plus what the wait may still take stays within the phase's budget; whatever the node
holds while it verifies was stamped or reported after the engage.

For every number of cameras (`RunnerProofs`): that `Runner` implements `RigLease`, and `NeverLeaks`, `SettingsGivenBack`, `SuccessMeansAsked`
and `SensorsBeforeEgo`. Every actor on the server is in the hands of somebody who will still
destroy it, or its destroy was tried, or nobody ever held it; only the loop and its `finally` hold
the world in the runner's mode. The refinement needs two facts more (`LeaseInv`): while the rig is
being spawned, what is held is exactly its first `next` actors, and the spawning call and `main()`
never hold the same sensor; each action is then one step of the lease or none.

For every command line, every build and every kit with right-angled mounts, whatever the offsets and
however many cameras (`RunnerProofs`, second half): `SeesWhereTfSays`, `NativeOrNothing`, `AsAsked`. The
only assumption is that of `SensorRig`, that an input is a run (`IsRun`). The invariant `BuiltInv` says
that the rig is at every moment the first actors of the ones asked for, none of which met an error; from
it the attributes of each sensor follow by what `_apply_attributes` makes of each list. For the mounts:
a product of two right-angled rotations is one again (`Product`, `RotationTurns`); the angles that
`_rpy_from_matrix` reads off such a matrix give the matrix back, also where the pitch is 90 degrees and
roll and yaw cannot be told apart (`RpyInverse`); and reversing pitch and yaw mirrors it
(`AttachedRotation`), so the point that CARLA sees is TF's point mirrored, but for the side of the
sensor's own offset (`SeenAt`) and, for the LiDAR, the lift between mount and header frame, which the
same mirrored rotation carries.

For every number of pids, pid files, launches and stops (`LaunchTreeProofs`): `OnlyTheRecordedTree`,
`SkipsOnlyLeftovers`, `StoppedIsTrue`. Three arguments meet in `IInv`. `ProcInv`: parents of live
processes live, belong to the same launch and are older, because a death hands its children to pid 1
and a free pid is nobody's parent; so whatever the scan reaches from the recorded root is of its
launch or younger than the stop (`DescendantsBelong`, which puts just that set for the `S` in the
definition of `Descendants`). `CmdInv` and `SideInv`: a command line of a root belongs to the launch
the file was last written for, and a sidecar that is neither written over, late nor read before the
exec shows it; one that shows the kernel's belongs to a file without a pid. `SweptInv`: what was snapshotted and still lives is in the tree at hand, or
`TOTAL_LEFT` is positive.

For every number of runs and every length of the waits (`BringUpProofs`): `EgoOutlivesInterface`,
`OwnServerOrWarned`, `OnlyOwnCarlaIsStruck`, `TornDown`. What cleanup strikes is fixed long before, by
whom the pid file names at each step (`PidInv`); who may hold the port once it was waited for is
`PortInv`. Why three good polls protect the ego is `PollInv`: as soon as one of them missed nobody,
no interface is there and none will come before the rest of its stack; that all three missed somebody
is one of the named exceptions.

For every contract, set of graphs and number of changes (`InteropGateProofs`): `PassIsEarned` and
`ReportsAgree`. The invariant says of each row, finished (`RowsInv`) or under way (`RowInv`), which
checks it holds and, if none failed, what the wire has shown; `OneBlock` is the fact about
`parse_publisher_qos` that makes the offer one publisher's.

For every number of episodes, commands and dispatch threads and every length of a second
(`ExtensionProofs`): `CallbacksFindTheirState` and `NewestCommandDrives`, and that what one thread
reads of a cache never goes back (`ThreadsReadForward`). `LoadInv` ties what is made to the phase and
a working thread to a registered observer; `EgoInv` keeps a control of an older ego from being taken
for one of the present ego. `ReportsNeverGoBack` and `PoseIsFresh` are proved for a host with one
dispatch thread (`Threads = {e}`): `PoseInv` says that what the decimator decided upon is still so
when it publishes, which a second thread can spoil. `OnePoseASecond` is no theorem: on one thread it
repeats the decimator's test, and on two the run `extension_reentrant` refutes it.

Every `IInv` was first checked by TLC on the instance of its run, then proved. The proofs use only the
`ASSUME`s of the modules, which TLC evaluates on every run. `TypeOK` is part of every `IInv` and a
theorem of its own (`TypeCorrect`) or of the invariant.

Checked by TLC alone: liveness (`EveryInvocationEnds`, `AlwaysAnswers`, `SigintEnds`, `GateEnds`,
`BringUpEnds`), since reasoning about fairness and `ENABLED` is outside the prover. Every other property
of a passing run is also a theorem.

## 5. Plan

1. `Campaign`: the tree of runs that `RunLedger` allows, and the pools that `duel_verdict.py` and
   `sweep_verdict.py` admit from it; two invocations for one cell at a time.
2. A timed `ClockWatchdog` with the observer's clock file; the vector-map delivery gate and its
   retries; the launchers' differences; `BenchCloudPublisher`'s cadence.
3. Pure algorithms against reference definitions over bounded inputs: steering lookup, spatial
   window, load ceiling, drop reconciliation.

## 6. Not modelled

Message layouts and type hashes, mounts at other than right angles (real arithmetic), the bootstrap
statistics and fits, the figures, downloads and artifact hashes, RViz, the recorded results and
evidence. `run_g0.sh` and the gate scripts are linear and keep no state. Inside what is modelled:
the contents of CSV rows, pid reuse in `teardown.sh` and of CARLA's pid in `run_e2e.sh`, two
concurrent `run.sh`, and a kill (not a failure) in the middle of one manifest write. `SIGTERM` to the runner runs no
`finally`; `Runner` has it as a kill, for which nothing is promised, and in the end-to-end harness
what it leaves goes with the CARLA that `cleanup` takes down (`TornDown`).
