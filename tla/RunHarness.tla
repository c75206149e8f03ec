------------------------------ MODULE RunHarness ------------------------------
(***************************************************************************)
(* benchmarks/run.sh: one invocation of the measurement harness, which     *)
(* makes Runs runs of one cell, one after the other.  A run boots the      *)
(* stack, starts the recorders, arms the vehicle, waits for the scoring    *)
(* window, tears everything down and labels what it recorded.              *)
(*                                                                         *)
(* The shell is one process (pc, trap, dir and the flags); beside it run   *)
(* the processes it started (running), any of which may die, and a         *)
(* simulator whose clock may stop.  The results directory is manifest plus *)
(* the files of the current run directory.  An operator may interrupt the  *)
(* shell (SIGINT, SIGTERM or SIGHUP) at most MaxInterrupts times.          *)
(***************************************************************************)
EXTENDS Naturals, FiniteSets

CONSTANTS
  Runs,           \* --runs N
  Cells,          \* the cell/arm combinations an invocation may be given
  MaxInterrupts,  \* signals the operator sends
  MaxWriteFaults, \* writes into the run directory that fail (a full disk)
  MaxDeaths       \* processes that die by themselves

(* A cell and arm, reduced to the facts run.sh branches on: a simulator    *)
(* ticks; GT_ENABLED; INJECTOR_ENABLED; ARM_ENABLED; the arm is not        *)
(* static; --unpaced; the ablation arm, where nothing publishes /clock and *)
(* the launcher's own client writes clock.csv, without ground truth.       *)
CellType ==
  {c \in [simClock : BOOLEAN, gt : BOOLEAN, injector : BOOLEAN, arm : BOOLEAN,
          closedLoop : BOOLEAN, unpaced : BOOLEAN, ablation : BOOLEAN] :
     c.ablation => c.simClock /\ ~c.gt}

ASSUME ConstantsAssumption ==
  /\ Runs \in Nat \ {0}
  /\ Cells \subseteq CellType
  /\ MaxInterrupts \in Nat
  /\ MaxWriteFaults \in Nat
  /\ MaxDeaths \in Nat

Recorders == {"watchdog", "gt", "sampler"}
Procs == Recorders \cup {"observer", "injector", "stack"}

(* The exclusion reasons run.sh files, all registered in EXCLUSION_REASONS *)
(* or by a registered prefix.                                              *)
Reasons == {"harness", "crash:cell-launch", "crash:observer", "crash:sampler",
            "crash:collect_gt", "crash:clock_watchdog", "gate:injector-failed",
            "gate:arm-failed", "gate:control_cmd-silent", "stall:clock",
            "stall:unpaced-window-cap"}

(* No run directory; a manifest as created; and a directory whose manifest *)
(* is missing or cut short, which write_manifest can no longer load.       *)
Absent == [exists |-> FALSE, excluded |-> FALSE, reason |-> "absent"]
Fresh == [exists |-> TRUE, excluded |-> FALSE, reason |-> "fresh"]
Torn == [exists |-> TRUE, excluded |-> FALSE, reason |-> "torn"]
Manifests == {Absent, Fresh, Torn} \cup
             {[exists |-> TRUE, excluded |-> TRUE, reason |-> r] : r \in Reasons}

VARIABLES
  cell,          \* the cell and arm this invocation was given
  pc,            \* where the shell is
  run,           \* run_no of the current do_run
  ret,           \* what follows the teardown in progress
  trap,          \* "trap on_abort EXIT" is armed
  dir,           \* CURRENT_RUN_DIR: a run number, 0 for ""
  abortReason,   \* ABORT_REASON
  dieReason,     \* the reason exclude_and_die was called with
  controlSilent, \* CONTROL_SILENT
  windowShort,   \* WINDOW_SHORT
  runExcluded,   \* RUN_EXCLUDED
  manifest,      \* manifest.json of every run directory
  launchEnv,     \* the current run's launch.env is written
  hostPids,      \* the recorders named in the current run's host_pids.env
  rows,          \* the current run's CSV files with at least one row
  marker,        \* the current run's clock_stall.marker exists
  running,       \* the processes that are alive
  ticking,       \* the simulator's clock advances
  seen,          \* history: what really happened in each run
  interrupts,    \* history: signals delivered
  writeFaults,   \* history: writes that failed
  deaths         \* history: processes that died by themselves

flags == <<abortReason, dieReason, controlSilent, windowShort, runExcluded>>
files == <<launchEnv, hostPids, rows, marker>>
world == <<running, ticking>>
faults == <<interrupts, writeFaults, deaths>>
vars == <<cell, pc, run, ret, trap, dir, flags, manifest, files, world, seen, faults>>

TeardownSteps == {"td_watchdog", "td_observer", "td_gt", "td_sampler",
                  "td_injector", "td_stack"}
Labels == {"next", "resolve", "preflight", "write_manifest", "arm_trap",
           "launch", "boot", "ready", "observer", "recorders", "liveness",
           "inject", "arm", "probe", "window", "finalize", "exclusions",
           "smoke", "on_abort", "exclude_and_die", "exit"} \cup TeardownSteps
Returns == {"finalize", "on_abort", "exclude_and_die"}
Facts == {"up", "silent", "short", "stalled", "uncounted", "complete"}

TypeOK ==
  /\ cell \in Cells
  /\ pc \in Labels
  /\ run \in 0..Runs
  /\ ret \in Returns
  /\ trap \in BOOLEAN
  /\ dir \in 0..Runs
  /\ abortReason \in {"harness", "crash:cell-launch"}
  /\ dieReason \in Reasons
  /\ controlSilent \in BOOLEAN
  /\ windowShort \in BOOLEAN
  /\ runExcluded \in BOOLEAN
  /\ manifest \in [1..Runs -> Manifests]
  /\ launchEnv \in BOOLEAN
  /\ hostPids \subseteq Recorders
  /\ rows \subseteq {"clock", "observer", "gt", "resources"}
  /\ marker \in BOOLEAN
  /\ running \subseteq Procs
  /\ ticking \in BOOLEAN
  /\ seen \in [1..Runs -> SUBSET Facts]
  /\ interrupts \in Nat
  /\ writeFaults \in Nat
  /\ deaths \in Nat

Init ==
  /\ cell \in Cells
  /\ pc = "next"
  /\ run = 0
  /\ ret = "finalize"
  /\ trap = FALSE
  /\ dir = 0
  /\ abortReason = "harness"
  /\ dieReason = "harness"
  /\ controlSilent = FALSE
  /\ windowShort = FALSE
  /\ runExcluded = FALSE
  /\ manifest = [r \in 1..Runs |-> Absent]
  /\ launchEnv = FALSE
  /\ hostPids = {}
  /\ rows = {}
  /\ marker = FALSE
  /\ running = {}
  /\ ticking = FALSE
  /\ seen = [r \in 1..Runs |-> {}]
  /\ interrupts = 0
  /\ writeFaults = 0
  /\ deaths = 0

-------------------------------------------------------------------------------
(* How the shell ends.                                                     *)

(* The EXIT trap: on_abort disarms itself, does nothing when the status is *)
(* 0 or no run directory exists, and otherwise tears the world down before *)
(* it labels the run.                                                      *)
OnAbort(rc) ==
  /\ trap' = FALSE
  /\ IF rc # 0 /\ dir # 0
     THEN pc' = "td_watchdog" /\ ret' = "on_abort"
     ELSE pc' = "exit" /\ ret' = ret

(* The shell exits with status rc: "exit", "die", or a command that fails  *)
(* under "set -e".                                                         *)
Exit(rc) ==
  IF trap THEN OnAbort(rc)
          ELSE pc' = "exit" /\ UNCHANGED <<ret, trap>>

(* exclude_and_die disarms the trap first; teardown and label follow.      *)
ExcludeAndDie(reason) ==
  /\ trap' = FALSE
  /\ pc' = "td_watchdog"
  /\ ret' = "exclude_and_die"
  /\ dieReason' = reason
  /\ UNCHANGED <<abortReason, controlSilent, windowShort, runExcluded>>

(* write_manifest --exclude: everything else in the manifest is kept, an   *)
(* earlier reason is replaced.                                             *)
ExcludeManifest(r, reason) ==
  manifest' = [manifest EXCEPT ![r] = [exists |-> TRUE, excluded |-> TRUE,
                                       reason |-> reason]]

WriteFault ==
  /\ writeFaults < MaxWriteFaults
  /\ writeFaults' = writeFaults + 1
  /\ UNCHANGED <<interrupts, deaths>>

Tear(r) == manifest' = [manifest EXCEPT ![r] = Torn]

(* The rewrite fails: before the file is opened, or after, for it is       *)
(* rewritten in place; and it always fails on a manifest cut short before. *)
RewriteFails(r) ==
  \/ manifest[r] # Torn /\ WriteFault /\ (Tear(r) \/ UNCHANGED manifest)
  \/ manifest[r] = Torn /\ UNCHANGED <<manifest, faults>>

Rewrite(r, reason) ==
  /\ manifest[r] # Torn
  /\ ExcludeManifest(r, reason)
  /\ UNCHANGED faults

Goto(label) == pc' = label /\ UNCHANGED <<ret, trap>>

-------------------------------------------------------------------------------
(* Steps 1-4: nothing is on disk before write_manifest creates the run     *)
(* directory.                                                              *)

\* Mutant: CURRENT_RUN_DIR still names the run before.
BeginRunKeepsDir ==
  /\ pc = "next"
  /\ run < Runs
  /\ run' = run + 1
  /\ abortReason' = "harness"
  /\ controlSilent' = FALSE
  /\ windowShort' = FALSE
  /\ launchEnv' = FALSE
  /\ hostPids' = {}
  /\ rows' = {}
  /\ marker' = FALSE
  /\ Goto("resolve")
  /\ UNCHANGED <<cell, dir, dieReason, runExcluded, manifest, world, seen, faults>>

(* do_run: the per-run reset; the new run's directory holds no file yet.   *)
BeginRun ==
  /\ pc = "next"
  /\ run < Runs
  /\ run' = run + 1
  /\ dir' = 0
  /\ abortReason' = "harness"
  /\ controlSilent' = FALSE
  /\ windowShort' = FALSE
  /\ launchEnv' = FALSE
  /\ hostPids' = {}
  /\ rows' = {}
  /\ marker' = FALSE
  /\ Goto("resolve")
  /\ UNCHANGED <<cell, dieReason, runExcluded, manifest, world, seen, faults>>

(* The loop over the runs is over: exit 0.                                 *)
AllRunsDone ==
  /\ pc = "next"
  /\ run = Runs
  /\ Exit(0)
  /\ UNCHANGED <<cell, run, dir, flags, manifest, files, world, seen, faults>>

(* Steps 1 and 2: cell_info, the arm and flag refusals, the config files,  *)
(* the next free index.                                                    *)
Resolve ==
  /\ pc = "resolve"
  /\ Goto("preflight") \/ Exit(1)
  /\ UNCHANGED <<cell, run, dir, flags, manifest, files, world, seen, faults>>

(* Step 3: a simulator that still holds the RPC port is always refused.    *)
Preflight ==
  /\ pc = "preflight"
  /\ \/ Goto("write_manifest") /\ ~("stack" \in running /\ cell.simClock)
     \/ Exit(1)
  /\ UNCHANGED <<cell, run, dir, flags, manifest, files, world, seen, faults>>

(* Step 4: validate, then create the run directory, then its manifest,     *)
(* which may fail when the directory is there.                             *)
WriteManifest ==
  /\ pc = "write_manifest"
  /\ \/ Goto("arm_trap") /\ manifest' = [manifest EXCEPT ![run] = Fresh] /\ UNCHANGED faults
     \/ Exit(1) /\ UNCHANGED <<manifest, faults>>
     \/ Exit(1) /\ Tear(run) /\ WriteFault
  /\ UNCHANGED <<cell, run, dir, flags, files, world, seen>>

\* Mutant: the index is bumped before it is stored.
ArmTrapNextIndex ==
  /\ pc = "arm_trap"
  /\ dir' = run + 1
  /\ trap' = TRUE
  /\ pc' = "launch"
  /\ UNCHANGED <<cell, run, ret, flags, manifest, files, world, seen, faults>>

(* Step 4, after the manifest: CURRENT_RUN_DIR and the EXIT trap.          *)
ArmTrap ==
  /\ pc = "arm_trap"
  /\ dir' = run
  /\ trap' = TRUE
  /\ pc' = "launch"
  /\ UNCHANGED <<cell, run, ret, flags, manifest, files, world, seen, faults>>

-------------------------------------------------------------------------------
(* Step 5: cells/<approach>.sh up.                                         *)

\* Mutant: the stack is started with no launch.env for teardown to read.
LaunchWithoutEnv ==
  /\ pc = "launch"
  /\ abortReason' = "crash:cell-launch"
  /\ Goto("boot") \/ Exit(2)
  /\ UNCHANGED <<cell, run, dir, dieReason, controlSilent, windowShort, runExcluded,
                 manifest, files, world, seen, faults>>

(* The launcher checks its prerequisites and writes launch.env before it   *)
(* starts anything.                                                        *)
Launch ==
  /\ pc = "launch"
  /\ abortReason' = "crash:cell-launch"
  /\ \/ Goto("boot") /\ launchEnv' = TRUE
     \/ Exit(2) /\ UNCHANGED launchEnv
  /\ UNCHANGED <<cell, run, dir, dieReason, controlSilent, windowShort, runExcluded,
                 manifest, hostPids, rows, marker, world, seen, faults>>

(* The simulator and the stack are started.                                *)
Boot ==
  /\ pc = "boot"
  /\ running' = running \cup {"stack"}
  /\ ticking' = cell.simClock
  /\ Goto("ready")
  /\ UNCHANGED <<cell, run, dir, flags, manifest, files, seen, faults>>

\* Mutant: ABORT_REASON stays crash:cell-launch once the cell is up.
ReadyKeepsReason ==
  /\ pc = "ready"
  /\ \/ /\ "stack" \in running
        /\ cell.ablation => "clock" \in rows
        /\ Goto("observer")
        /\ seen' = [seen EXCEPT ![run] = @ \cup {"up"}]
     \/ Exit(2) /\ UNCHANGED seen
  /\ UNCHANGED <<cell, run, dir, flags, manifest, files, world, faults>>

(* The readiness loop ends: ready, timed out, or the simulator is gone.    *)
(* The ablation client is ready when clock.csv has rows.                   *)
Ready ==
  /\ pc = "ready"
  /\ \/ /\ "stack" \in running
        /\ cell.ablation => "clock" \in rows
        /\ Goto("observer")
        /\ abortReason' = "harness"
        /\ seen' = [seen EXCEPT ![run] = @ \cup {"up"}]
     \/ Exit(2) /\ UNCHANGED <<abortReason, seen>>
  /\ UNCHANGED <<cell, run, dir, dieReason, controlSilent, windowShort, runExcluded,
                 manifest, files, world, faults>>

-------------------------------------------------------------------------------
(* Steps 6-10: the recorders, the arming and the window.                   *)

(* Step 6: the topics file, which may fail under "set -e", and the         *)
(* observer container, which truncates clock.csv when it opens it.         *)
StartObserver ==
  /\ pc = "observer"
  /\ \/ /\ Goto("recorders")
        /\ running' = running \cup {"observer"}
        /\ rows' = rows \ {"clock"}
        /\ UNCHANGED flags
     \/ ExcludeAndDie("crash:observer") /\ UNCHANGED <<running, rows>>
     \/ Exit(1) /\ UNCHANGED <<flags, running, rows>>
  /\ UNCHANGED <<cell, run, dir, manifest, launchEnv, hostPids, marker, ticking, seen,
                 faults>>

(* The recorders this cell runs, and those started before each.            *)
Expected == {"sampler"} \cup {p \in {"gt"} : cell.gt}
                        \cup {p \in {"watchdog"} : cell.simClock}
Earlier == [sampler |-> {}, gt |-> {"sampler"}, watchdog |-> {"sampler", "gt"}]

(* Step 7: a recorder is started in the background, then its pid is added  *)
(* to host_pids.env, which may fail under "set -e".                        *)
StartRecorder(p) ==
  /\ pc = "recorders"
  /\ p \in Expected \ hostPids
  /\ Earlier[p] \cap Expected \subseteq hostPids
  /\ running' = running \cup {p}
  /\ \/ hostPids' = hostPids \cup {p} /\ Goto("recorders") /\ UNCHANGED faults
     \/ WriteFault /\ Exit(1) /\ UNCHANGED hostPids
  /\ UNCHANGED <<cell, run, dir, flags, manifest, launchEnv, rows, marker, ticking, seen>>

RecordersStarted ==
  /\ pc = "recorders"
  /\ Expected \subseteq hostPids
  /\ Goto("liveness")
  /\ UNCHANGED <<cell, run, dir, flags, manifest, files, world, seen, faults>>

(* Step 7, three seconds later: kill -0 on every recorder, in this order.  *)
Liveness ==
  /\ pc = "liveness"
  /\ LET dead(p) == p \in hostPids \ running
     IN  \/ dead("sampler") /\ ExcludeAndDie("crash:sampler")
         \/ ~dead("sampler") /\ dead("gt") /\ ExcludeAndDie("crash:collect_gt")
         \/ /\ ~dead("sampler") /\ ~dead("gt") /\ dead("watchdog")
            /\ ExcludeAndDie("crash:clock_watchdog")
         \/ hostPids \subseteq running /\ Goto("inject") /\ UNCHANGED flags
  /\ UNCHANGED <<cell, run, dir, manifest, files, world, seen, faults>>

(* Step 8: the perception injector; route_grid may fail under "set -e".    *)
Inject ==
  /\ pc = "inject"
  /\ \/ Goto("arm") /\ UNCHANGED <<flags, running>> /\ ~cell.injector
     \/ Goto("arm") /\ running' = running \cup {"injector"} /\ UNCHANGED flags
                    /\ cell.injector
     \/ ExcludeAndDie("gate:injector-failed") /\ UNCHANGED running /\ cell.injector
     \/ Exit(1) /\ UNCHANGED <<flags, running>> /\ cell.injector
  /\ UNCHANGED <<cell, run, dir, manifest, files, ticking, seen, faults>>

(* Step 9: arm_and_goal.py; reading the goal may fail under "set -e".      *)
Arm ==
  /\ pc = "arm"
  /\ \/ Goto("probe") /\ UNCHANGED flags
     \/ ExcludeAndDie("gate:arm-failed") /\ cell.arm
     \/ Exit(1) /\ UNCHANGED flags /\ cell.simClock
  /\ UNCHANGED <<cell, run, dir, manifest, files, world, seen, faults>>

(* Step 9, closed loop only: is the gated control command flowing?         *)
Probe ==
  /\ pc = "probe"
  /\ Goto("window")
  /\ \/ UNCHANGED <<controlSilent, seen>>
     \/ /\ cell.closedLoop /\ cell.arm
        /\ controlSilent' = TRUE
        /\ seen' = [seen EXCEPT ![run] = @ \cup {"silent"}]
  /\ UNCHANGED <<cell, run, dir, abortReason, dieReason, windowShort, runExcluded,
                 manifest, files, world, faults>>

(* clock.csv grows: by the observer, or by the ablation client.            *)
ClockAdvances ==
  ticking /\ "stack" \in running /\ ("observer" \in running \/ cell.ablation)

StartTeardown(after) == pc' = "td_watchdog" /\ ret' = after /\ UNCHANGED trap

(* Step 10: a paced window is a sleep; an unpaced one ends when clock.csv  *)
(* spans the window, which takes an advancing clock.                       *)
WindowReached ==
  /\ pc = "window"
  /\ cell.unpaced => ClockAdvances
  /\ abortReason' = "harness"
  /\ StartTeardown("finalize")
  /\ UNCHANGED <<cell, run, dir, dieReason, controlSilent, windowShort, runExcluded,
                 manifest, files, world, seen, faults>>

\* Mutant: the unpaced window has no wall cap.
NoWallCap == FALSE

(* Step 10, unpaced: the wall cap, six windows long.  A watchdog that is   *)
(* alive has by then reported a clock that stopped.                        *)
WindowCapped ==
  /\ pc = "window"
  /\ cell.unpaced
  /\ ClockAdvances \/ "watchdog" \notin running
  /\ windowShort' = TRUE
  /\ seen' = [seen EXCEPT ![run] = @ \cup {"short"}]
  /\ abortReason' = "harness"
  /\ StartTeardown("finalize")
  /\ UNCHANGED <<cell, run, dir, dieReason, controlSilent, runExcluded, manifest, files,
                 world, faults>>

-------------------------------------------------------------------------------
(* teardown.sh, called from step 11, from on_abort and from                *)
(* exclude_and_die.  A stop escalates to SIGKILL or removes the container, *)
(* so it ends its process; a process that is already gone is skipped.      *)

Stop(p) == running' = running \ {p}

TeardownStep(at, then) ==
  /\ pc = at
  /\ Goto(then)
  /\ UNCHANGED <<cell, run, dir, flags, manifest, launchEnv, hostPids, marker, ticking,
                 seen, faults>>

\* Mutant: the GT collector is stopped with the watchdog, before the observer.
StopWatchdogAndGt ==
  /\ TeardownStep("td_watchdog", "td_observer")
  /\ running' = running \ (hostPids \cap {"watchdog", "gt"})
  /\ UNCHANGED rows

(* The clock watchdog goes first, by the pid in host_pids.env.             *)
StopWatchdog ==
  /\ TeardownStep("td_watchdog", "td_observer")
  /\ IF "watchdog" \in hostPids THEN Stop("watchdog") ELSE UNCHANGED running
  /\ UNCHANGED rows

(* SIGINT to the observer container, by name; its buffered CSVs are        *)
(* flushed unless it is still flushing after 15 s and is removed.          *)
StopObserver ==
  /\ TeardownStep("td_observer", "td_gt")
  /\ Stop("observer")
  /\ \/ rows' = rows
     \/ "observer" \in running /\ rows' = rows \cup {"observer"}

StopGt ==
  /\ TeardownStep("td_gt", "td_sampler")
  /\ IF "gt" \in hostPids THEN Stop("gt") ELSE UNCHANGED running
  /\ UNCHANGED rows

(* Without a launch.env the launcher started nothing: exit here.           *)
StopSampler ==
  /\ TeardownStep("td_sampler", IF launchEnv THEN "td_injector" ELSE ret)
  /\ IF "sampler" \in hostPids THEN Stop("sampler") ELSE UNCHANGED running
  /\ UNCHANGED rows

(* One SIGTERM inside the stack's container, and no wait.                  *)
StopInjector ==
  /\ TeardownStep("td_injector", "td_stack")
  /\ Stop("injector") \/ UNCHANGED running
  /\ UNCHANGED rows

(* The ablation client, the stack and the simulator, per approach; the     *)
(* containers are removed last.                                            *)
StopStack ==
  /\ TeardownStep("td_stack", ret)
  /\ running' = running \ {"stack", "injector"}
  /\ UNCHANGED rows

Teardown == StopWatchdog \/ StopObserver \/ StopGt \/ StopSampler \/ StopInjector
            \/ StopStack

-------------------------------------------------------------------------------
(* Steps 12-15 and the two labelling exits.                                *)

(* Steps 12 and 13 fill the rtf column and score the run; neither is fatal *)
(* and neither touches the manifest.                                       *)
Finalize ==
  /\ pc = "finalize"
  /\ Goto("exclusions")
  /\ UNCHANGED <<cell, run, dir, flags, manifest, files, world, seen, faults>>

(* Step 14: the reason this run is excluded for, "none" if it is not; a    *)
(* frozen clock wins over its symptoms.                                    *)
ExclusionReason ==
  CASE cell.simClock /\ marker -> "stall:clock"
    [] ~(cell.simClock /\ marker) /\ windowShort -> "stall:unpaced-window-cap"
    [] ~(cell.simClock /\ marker) /\ ~windowShort /\ controlSilent ->
         "gate:control_cmd-silent"
    [] OTHER -> "none"

(* exclude_run labels and carries on; a failing rewrite ends the shell     *)
(* under "set -e".                                                         *)
Exclusions ==
  /\ pc = "exclusions"
  /\ \/ /\ ExclusionReason = "none"
        /\ runExcluded' = FALSE
        /\ Goto("smoke")
        /\ UNCHANGED <<manifest, faults>>
     \/ /\ ExclusionReason # "none"
        /\ Rewrite(run, ExclusionReason)
        /\ runExcluded' = TRUE
        /\ Goto("smoke")
     \/ /\ ExclusionReason # "none"
        /\ RewriteFails(run)
        /\ runExcluded' = FALSE
        /\ Exit(1)
  /\ UNCHANGED <<cell, run, dir, abortReason, dieReason, controlSilent, windowShort,
                 files, world, seen>>

(* History: a complete run directory has rows of every recorder that was   *)
(* started for it, the clock that its watchdog judged included, and what   *)
(* the observer heard where there is no clock.                             *)
Contract == {[sampler |-> "resources", gt |-> "gt", watchdog |-> "clock"][p] : p \in hostPids}
            \cup {f \in {"observer"} : "watchdog" \notin hostPids}

\* Mutant: only what summarize_run reads, not gt.csv.
ExpectedRowsWithoutGt == {"resources", IF cell.simClock THEN "clock" ELSE "observer"}

(* What the smoke insists on: a resource sample, ground truth where it is  *)
(* collected, a clock to fit where there is one, observer rows otherwise.  *)
ExpectedRows == {"resources"} \cup {f \in {"gt"} : cell.gt}
                \cup {IF cell.simClock THEN "clock" ELSE "observer"}

\* Mutant: a smoke that fails on an excluded run excludes it again.
SmokeRelabels ==
  /\ pc = "smoke"
  /\ \/ Goto("next") /\ UNCHANGED flags /\ ExpectedRows \subseteq rows
     \/ ExcludeAndDie("harness")
  /\ seen' = [seen EXCEPT ![run] = @ \cup {f \in {"complete"} : Contract \subseteq rows}]
  /\ UNCHANGED <<cell, run, dir, manifest, files, world, faults>>

(* Step 15: the run renders, is excluded already, or is excluded now.      *)
Smoke ==
  /\ pc = "smoke"
  /\ \/ Goto("next") /\ UNCHANGED flags /\ ExpectedRows \subseteq rows
     \/ Goto("next") /\ UNCHANGED flags /\ runExcluded
     \/ ExcludeAndDie("harness") /\ ~runExcluded
  /\ seen' = [seen EXCEPT ![run] = @ \cup {f \in {"complete"} : Contract \subseteq rows}]
  /\ UNCHANGED <<cell, run, dir, manifest, files, world, faults>>

(* The end of on_abort: label the run, ignore a failing rewrite, exit.     *)
AbortLabel ==
  /\ pc = "on_abort"
  /\ IF manifest[dir].exists
     THEN Rewrite(dir, abortReason) \/ RewriteFails(dir)
     ELSE UNCHANGED <<manifest, faults>>
  /\ Goto("exit")
  /\ UNCHANGED <<cell, run, dir, flags, files, world, seen>>

(* The end of exclude_and_die: the same, with its own reason.              *)
DieLabel ==
  /\ pc = "exclude_and_die"
  /\ Rewrite(run, dieReason) \/ RewriteFails(run)
  /\ Goto("exit")
  /\ UNCHANGED <<cell, run, dir, flags, files, world, seen>>

-------------------------------------------------------------------------------
(* The processes beside the shell.                                         *)

(* A tick of the simulator reaches the observer or the ablation client,    *)
(* which flush clock.csv row by row, and the GT collector.  A tick the observer records after    *)
(* teardown ended a live collector is one the collector never counted.     *)
SimTick ==
  /\ pc # "exit"
  /\ "stack" \in running /\ ticking
  /\ rows' = rows \cup {f \in {"clock"} : "observer" \in running \/ cell.ablation}
                  \cup {f \in {"gt"} : "gt" \in running}
  /\ seen' = IF pc \in TeardownSteps /\ "observer" \in running
                 /\ "gt" \in hostPids \ running
             THEN [seen EXCEPT ![run] = @ \cup {"uncounted"}] ELSE seen
  /\ <<rows, seen>>' # <<rows, seen>>
  /\ UNCHANGED <<cell, pc, run, ret, trap, dir, flags, manifest, launchEnv, hostPids,
                 marker, world, faults>>

(* The sampler writes one row of resources.csv per interval.               *)
Sample ==
  /\ pc # "exit"
  /\ "sampler" \in running
  /\ "resources" \notin rows
  /\ rows' = rows \cup {"resources"}
  /\ UNCHANGED <<cell, pc, run, ret, trap, dir, flags, manifest, launchEnv, hostPids,
                 marker, world, seen, faults>>

(* The simulator freezes, or a process dies by itself.  Without the        *)
(* simulator or the one who writes it clock.csv stops growing.             *)
Dies(p) ==
  /\ pc # "exit"
  /\ deaths < MaxDeaths
  /\ deaths' = deaths + 1
  /\ \/ p = "stack" /\ ticking /\ ticking' = FALSE /\ UNCHANGED running
     \/ p \in running /\ running' = running \ {p} /\ UNCHANGED ticking
  /\ seen' = IF (p = "stack" \/ (p = "observer" /\ ~cell.ablation)) /\ run # 0
             THEN [seen EXCEPT ![run] = @ \cup {"stalled"}] ELSE seen
  /\ UNCHANGED <<cell, pc, run, ret, trap, dir, flags, manifest, files, interrupts,
                 writeFaults>>

(* The watchdog finds the newest /clock row too old, leaves the marker and *)
(* exits.  Its start-up grace outlasts the liveness check.                 *)
WatchdogFires ==
  /\ pc \notin {"exit", "recorders", "liveness"}
  /\ "watchdog" \in running
  /\ ~ClockAdvances
  /\ marker' = TRUE
  /\ running' = running \ {"watchdog"}
  /\ UNCHANGED <<cell, pc, run, ret, trap, dir, flags, manifest, launchEnv, hostPids,
                 rows, ticking, seen, faults>>

(* A signal ends the shell.  bash runs the EXIT trap with the status of    *)
(* the last command that finished, which under "set -e" is 0; the          *)
(* background recorders ignore SIGINT and keep running.                    *)
Interrupt ==
  /\ pc # "exit"
  /\ interrupts < MaxInterrupts
  /\ interrupts' = interrupts + 1
  /\ Exit(0)
  /\ UNCHANGED <<cell, run, dir, flags, manifest, files, world, seen, writeFaults, deaths>>

-------------------------------------------------------------------------------
Shell ==
  \/ BeginRun \/ AllRunsDone \/ Resolve \/ Preflight \/ WriteManifest \/ ArmTrap
  \/ Launch \/ Boot \/ Ready \/ StartObserver \/ RecordersStarted \/ Liveness
  \/ Inject \/ Arm \/ Probe \/ WindowReached \/ WindowCapped \/ Teardown
  \/ Finalize \/ Exclusions \/ Smoke \/ AbortLabel \/ DieLabel
  \/ \E p \in Recorders : StartRecorder(p)

Environment ==
  \/ SimTick \/ Sample \/ WatchdogFires \/ Interrupt
  \/ \E p \in Procs : Dies(p)

(* The invocation is over.                                                 *)
Done == pc = "exit" /\ UNCHANGED vars

Next == Shell \/ Environment \/ Done

Spec == Init /\ [][Next]_vars

(* Every command the shell runs is bounded by a timeout of its own, so the *)
(* shell never stops between two steps; a live watchdog polls every second.*)
FairSpec == Spec /\ WF_vars(Shell) /\ WF_vars(WatchdogFires)

-------------------------------------------------------------------------------
(* Properties.                                                             *)

Over(r) == r < run \/ (r = run /\ pc \in {"next", "exit"})

(* run.sh:10-15 and 1199-1202: once a run is over its directory does not   *)
(* exist, is excluded under a registered reason, or is complete -- in      *)
(* whatever way the shell came to its end.                                 *)
NoThirdOutcome ==
  \A r \in 1..Runs :
    Over(r) /\ manifest[r].exists => manifest[r].excluded \/ "complete" \in seen[r]

(* run.sh:736-742, of the same promise: once the cell is up, an abort that *)
(* no specific site handles -- "an operator Ctrl-C during the window" is   *)
(* one -- is filed under harness:<commit>.                                 *)
AbortAfterBringUpIsFiled ==
  \A r \in 1..Runs :
    Over(r) /\ "up" \in seen[r] => manifest[r].excluded \/ "complete" \in seen[r]

(* The same promise, as far as the code keeps it: failing commands, dead   *)
(* recorders and a frozen clock never break it; an operator's signal and a *)
(* write that fails are the two ways out of it.                            *)
LabelledUnlessFaulted == interrupts = 0 /\ writeFaults = 0 => NoThirdOutcome

(* teardown.sh reaches everything the run started, from whichever step it  *)
(* is called: no process outlives the run, so none disturbs the next one.  *)
(* The one exception is a recorder whose pid could not be written          *)
(* (run.sh:816): nothing names it, and then no further run is begun.       *)
NothingLeftRunning ==
  interrupts = 0 /\ pc \in {"next", "exit"} =>
    \/ running = {}
    \/ pc = "exit" /\ writeFaults > 0 /\ running \subseteq Recorders \ hostPids

(* config/exclusions.md: a run is excluded only for a criterion that it    *)
(* met itself.  A cell that came up is never filed as a launch crash       *)
(* (run.sh:736-743), a flag of the run before never excludes this one      *)
(* (run.sh:200-205), and a clock is stalled only if the simulator or the   *)
(* clock's writer failed -- never because teardown stopped the observer while    *)
(* the watchdog was still judging clock.csv (teardown.sh:6-10).            *)
ReasonNamesItsCause ==
  \A r \in 1..Runs :
    /\ manifest[r].reason = "crash:cell-launch" => "up" \notin seen[r]
    /\ manifest[r].reason = "gate:control_cmd-silent" => "silent" \in seen[r]
    /\ manifest[r].reason = "stall:unpaced-window-cap" => "short" \in seen[r]
    /\ manifest[r].reason = "stall:clock" => "stalled" \in seen[r]

(* teardown.sh:17-48: the ground-truth series reaches as far as the clock  *)
(* series, so no publisher is charged with drops the teardown fabricated,  *)
(* unless the collector died by itself.                                    *)
GroundTruthOutlivesClock ==
  deaths = 0 => \A r \in 1..Runs : "uncounted" \notin seen[r]

(* A run that is over keeps the manifest it was filed with: an abort in a  *)
(* later run of the same invocation labels that run, never this one, for   *)
(* do_run clears CURRENT_RUN_DIR before anything can fail (run.sh:204).    *)
FiledRunsStayFiled ==
  [][\A r \in 1..Runs : Over(r) => manifest'[r] = manifest[r]]_vars

(* The first reason filed is the one that stays: exclude_manifest would    *)
(* replace it, and a smoke that fails on an excluded run must not ask it   *)
(* to (run.sh:1180-1185).                                                  *)
FirstReasonStays ==
  [][\A r \in 1..Runs : manifest[r].excluded => manifest'[r] = manifest[r]]_vars

(* The manifests as the entries of RunLedger.                              *)
Phase == CASE pc = "next" -> "between" [] pc = "exit" -> "over" [] OTHER -> "during"
Book == [r \in 1..Runs |-> manifest[r].reason]
Whole == {r \in 1..Runs : "complete" \in seen[r]}

Ledger == INSTANCE RunLedger
            WITH Size <- Runs, current <- run, phase <- Phase, book <- Book, whole <- Whole,
                 fault <- interrupts + writeFaults > 0

(* run.sh:10-15, 200-205, 1180-1185: step by step the harness keeps the    *)
(* ledger.  A run's entry is made once and filed once, in that run; the    *)
(* next run begins only after one that is filed or complete, and whatever  *)
(* command or process fails, only a signal or a write that fails ends the  *)
(* invocation on an entry that is neither.                                 *)
ImplementsLedger == Ledger!Spec

(* Every invocation ends, a frozen simulator and dead processes included:  *)
(* the unpaced window has its wall cap.                                    *)
EveryInvocationEnds == <>(pc = "exit")
===============================================================================
