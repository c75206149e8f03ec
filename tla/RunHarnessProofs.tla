--------------------------- MODULE RunHarnessProofs ---------------------------
(***************************************************************************)
(* What RunHarness guarantees for every number of runs, every set of cells *)
(* and every number of faults.  Each theorem follows from IInv, which adds *)
(* to a property what has to be known at the places in between: which      *)
(* manifest exists where, what the trap would find, what teardown can      *)
(* still see, and which fact each flag stands for.                         *)
(***************************************************************************)
EXTENDS RunHarness, TLAPS

(* Before write_manifest has created this run's directory.                 *)
Before == {"resolve", "preflight", "write_manifest"}

(* From write_manifest to the label: the run directory exists, unlabelled. *)
Unlabelled == {"arm_trap", "launch", "boot", "ready", "observer", "recorders",
               "liveness", "inject", "arm", "probe", "window", "finalize",
               "exclusions", "on_abort", "exclude_and_die"} \cup TeardownSteps

(* Where a failing command is caught by the trap alone.                    *)
Trapped == {"launch", "boot", "ready", "observer", "recorders", "liveness",
            "inject", "arm", "probe", "window", "finalize", "exclusions", "smoke"}

(* on_abort is at work.                                                    *)
Aborting == ret = "on_abort" /\ pc \in TeardownSteps \cup {"on_abort"}

(* Which manifests exist, whether they carry a label, and where one cut    *)
(* short can be: an exclusion that tears it goes straight to on_abort.     *)
ManifestInv ==
  /\ run = 0 => pc \in {"next", "exit"}
  /\ \A r \in 1..Runs : r > run => manifest[r] = Absent
  /\ \A r \in 1..Runs : manifest[r] = Torn => writeFaults > 0
  /\ pc \in Before => manifest[run] = Absent
  /\ pc \in Unlabelled => manifest[run] = Fresh \/ (manifest[run] = Torn /\ Aborting)
  /\ pc = "on_abort" => ret = "on_abort"
  /\ pc = "smoke" => /\ manifest[run].exists /\ manifest[run] # Torn
                     /\ runExcluded <=> manifest[run].excluded

(* What on_abort finds in CURRENT_RUN_DIR.                                 *)
TrapInv ==
  /\ pc \in Before \cup {"arm_trap"} => dir = 0
  /\ pc \in Trapped => trap /\ dir = run
  /\ pc \in TeardownSteps /\ ret = "finalize" => trap /\ dir = run
  /\ pc \in TeardownSteps /\ ret = "on_abort" => dir = run
  /\ pc = "on_abort" => dir = run

(* Every run that is over has an outcome.                                  *)
OutcomeInv == LabelledUnlessFaulted

Idle == Before \cup {"next", "arm_trap", "launch", "boot", "finalize", "exclusions",
                     "smoke", "on_abort", "exclude_and_die"}

(* Before the first pid is written to host_pids.env, and after the last.   *)
Unrecorded == Before \cup {"arm_trap", "launch", "boot", "ready", "observer"}
Recorded == {"liveness", "inject", "arm", "probe", "window", "finalize", "exclusions",
             "smoke"}

(* The recorders whose pid nobody wrote down.                              *)
Strays == (running \cap Recorders) \ hostPids

(* Of these processes, only recorders that nobody wrote down are alive.    *)
Cleared(ps) == \A p \in ps \cap running : p \in Recorders \ hostPids

(* What can be alive where, and how teardown will find it.                 *)
WorldInv ==
  /\ pc \in Idle \/ (pc = "exit" /\ interrupts = 0) => Cleared(Procs)
  /\ pc \in {"boot", "ready", "observer", "recorders", "liveness", "inject"} => launchEnv
  /\ running \cap {"stack", "injector"} # {} => launchEnv
  /\ pc \in Unrecorded => hostPids = {}
  /\ Strays = {} \/ (writeFaults > 0 /\ (Aborting \/ pc = "exit"))
  /\ pc \in {"ready", "observer"} => running \subseteq {"stack"}
  /\ pc = "recorders" => running \subseteq {"stack", "observer"} \cup hostPids
                         /\ hostPids \subseteq Expected
  /\ pc \in Recorded \/ (pc \in TeardownSteps /\ ret = "finalize") => hostPids = Expected
  /\ pc = "td_observer" => Cleared({"watchdog"})
  /\ pc = "td_gt" => Cleared({"watchdog", "observer"})
  /\ pc = "td_sampler" => Cleared({"watchdog", "observer", "gt"})
  /\ pc \in {"td_injector", "td_stack"} => Cleared({"watchdog", "observer", "gt", "sampler"})

BeforeUp == Before \cup {"arm_trap", "launch", "boot", "ready"}

(* What each flag and each label stands for.                               *)
CauseInv ==
  /\ ReasonNamesItsCause
  /\ dieReason \notin {"crash:cell-launch", "gate:control_cmd-silent", "stall:clock",
                       "stall:unpaced-window-cap"}
  /\ \A r \in 1..Runs : r > run => seen[r] = {}
  /\ pc \in BeforeUp => "up" \notin seen[run]
  /\ pc \in Unlabelled \cup {"smoke"} /\ abortReason = "crash:cell-launch" =>
       "up" \notin seen[run]
  /\ pc \notin {"next", "exit"} /\ controlSilent => "silent" \in seen[run]
  /\ pc \notin {"next", "exit"} /\ windowShort => "short" \in seen[run]
  /\ pc \notin {"next", "exit"} /\ ~Aborting /\ marker => "stalled" \in seen[run]
  /\ pc \in {"ready", "observer"} /\ cell.simClock =>
       (ticking /\ "stack" \in running) \/ "stalled" \in seen[run]
  /\ pc = "recorders" /\ cell.simClock => ClockAdvances \/ "stalled" \in seen[run]
  /\ pc # "exit" /\ "watchdog" \in running \cap hostPids => ClockAdvances \/ "stalled" \in seen[run]

IInv == ManifestInv /\ TrapInv /\ OutcomeInv /\ WorldInv /\ CauseInv

-------------------------------------------------------------------------------
(* Types.                                                                  *)

(* Every label the shell writes lies in Manifests: write_manifest --exclude *)
(* of any registered reason.                                               *)
LEMMA ExcludeType ==
  ASSUME manifest \in [1..Runs -> Manifests], NEW r, NEW reason \in Reasons,
         ExcludeManifest(r, reason)
  PROVE  manifest' \in [1..Runs -> Manifests]
BY DEF ExcludeManifest, Manifests

(* Every way the shell can leave a step keeps its registers typed.         *)
LEMMA ExitType ==
  ASSUME NEW rc, Exit(rc), ret \in Returns, trap \in BOOLEAN
  PROVE  pc' \in Labels /\ ret' \in Returns /\ trap' \in BOOLEAN
BY DEF Exit, OnAbort, Labels, Returns, TeardownSteps

(* exclude_and_die: the shell's registers and flags stay typed.            *)
LEMMA DieType ==
  ASSUME TypeOK, NEW reason \in Reasons, ExcludeAndDie(reason)
  PROVE  /\ pc' \in Labels /\ ret' \in Returns /\ trap' \in BOOLEAN
         /\ abortReason' \in {"harness", "crash:cell-launch"}
         /\ dieReason' \in Reasons
         /\ controlSilent' \in BOOLEAN /\ windowShort' \in BOOLEAN
         /\ runExcluded' \in BOOLEAN
BY DEF TypeOK, ExcludeAndDie, Labels, TeardownSteps, Returns

(* The reasons run.sh calls exclude_and_die with are registered.           *)
LEMMA DieReasons ==
  {"crash:observer", "crash:sampler", "crash:collect_gt", "crash:clock_watchdog",
   "gate:injector-failed", "gate:arm-failed", "harness"} \subseteq Reasons
BY DEF Reasons

(* Each step of run.sh, of teardown.sh and of the processes beside them    *)
(* leaves every variable in its type.                                      *)
LEMMA TypeStep == TypeOK /\ [Next]_vars => TypeOK'
<1> SUFFICES ASSUME TypeOK, [Next]_vars PROVE TypeOK'
  OBVIOUS
<1> USE ConstantsAssumption
<1> USE DEF TypeOK, flags, files, world, faults, Goto
<1>1. CASE BeginRun
  <2>1. run' \in 0..Runs /\ dir' \in 0..Runs
    BY <1>1 DEF BeginRun
  <2>2. pc' \in Labels /\ hostPids' \subseteq Recorders
    BY <1>1 DEF BeginRun, Labels
  <2> QED
    BY <1>1, <2>1, <2>2 DEF BeginRun
<1>2. CASE AllRunsDone
  BY <1>2, ExitType DEF AllRunsDone
<1>3. CASE Resolve
  BY <1>3, ExitType DEF Resolve, Labels
<1>4. CASE Preflight
  BY <1>4, ExitType DEF Preflight, Labels
<1>5. CASE WriteManifest
  <2>1. manifest' \in [1..Runs -> Manifests]
    BY <1>5 DEF WriteManifest, Tear, Manifests
  <2>2. interrupts' \in Nat /\ writeFaults' \in Nat /\ deaths' \in Nat
    BY <1>5 DEF WriteManifest, WriteFault
  <2>3. pc' \in Labels /\ ret' \in Returns /\ trap' \in BOOLEAN
    BY <1>5, ExitType DEF WriteManifest, Labels
  <2> QED
    BY <1>5, <2>1, <2>2, <2>3 DEF WriteManifest
<1>6. CASE ArmTrap
  BY <1>6 DEF ArmTrap, Labels
<1>7. CASE Launch
  BY <1>7, ExitType DEF Launch, Labels
<1>8. CASE Boot
  <2>1. ticking' \in BOOLEAN
    BY <1>8 DEF Boot, CellType
  <2> QED
    BY <1>8, <2>1 DEF Boot, Labels, Procs
<1>9. CASE Ready
  BY <1>9, ExitType DEF Ready, Labels, Facts
<1>10. CASE StartObserver
  <2>1. CASE ExcludeAndDie("crash:observer") /\ UNCHANGED <<running, rows>>
    BY <1>10, <2>1, DieType, DieReasons DEF StartObserver
  <2>2. CASE Goto("recorders") /\ UNCHANGED flags /\ running' = running \cup {"observer"}
             /\ rows' = rows \ {"clock"}
    BY <1>10, <2>2 DEF StartObserver, Labels, Procs
  <2>3. CASE Exit(1) /\ UNCHANGED <<flags, running, rows>>
    BY <1>10, <2>3, ExitType DEF StartObserver
  <2> QED
    BY <1>10, <2>1, <2>2, <2>3 DEF StartObserver
<1>11. ASSUME NEW p \in Recorders, StartRecorder(p) PROVE TypeOK'
  <2>1. running' \subseteq Procs /\ hostPids' \subseteq Recorders
    BY <1>11 DEF StartRecorder, Procs
  <2>2. pc' \in Labels /\ ret' \in Returns /\ trap' \in BOOLEAN
    BY <1>11, ExitType DEF StartRecorder, Labels
  <2>3. interrupts' \in Nat /\ writeFaults' \in Nat /\ deaths' \in Nat
    BY <1>11 DEF StartRecorder, WriteFault
  <2> QED
    BY <1>11, <2>1, <2>2, <2>3 DEF StartRecorder
<1>30. CASE RecordersStarted
  BY <1>30 DEF RecordersStarted, Labels
<1>12. CASE Liveness
  BY <1>12, DieType, DieReasons DEF Liveness, Labels
<1>13. CASE Inject
  BY <1>13, ExitType, DieType, DieReasons DEF Inject, Labels, Procs
<1>14. CASE Arm
  BY <1>14, ExitType, DieType, DieReasons DEF Arm, Labels
<1>15. CASE Probe
  BY <1>15 DEF Probe, Labels, Facts
<1>16. CASE WindowReached
  BY <1>16 DEF WindowReached, StartTeardown, Labels, TeardownSteps, Returns
<1>17. CASE WindowCapped
  BY <1>17 DEF WindowCapped, StartTeardown, Labels, TeardownSteps, Returns, Facts
<1>18. CASE Teardown
  <2>1. running' \subseteq Procs
    BY <1>18 DEF Teardown, StopWatchdog, StopObserver, StopGt, StopSampler, StopInjector,
                 StopStack, Stop
  <2>2. rows' \subseteq {"clock", "observer", "gt", "resources"}
    BY <1>18 DEF Teardown, StopWatchdog, StopObserver, StopGt, StopSampler, StopInjector,
                 StopStack
  <2>3. PICK at, then \in TeardownSteps \cup Returns : TeardownStep(at, then)
    BY <1>18 DEF Teardown, StopWatchdog, StopObserver, StopGt, StopSampler, StopInjector,
                 StopStack, TeardownSteps
  <2>4. then \in Labels
    BY <2>3 DEF TeardownSteps, Returns, Labels
  <2> QED
    BY <2>1, <2>2, <2>3, <2>4 DEF TeardownStep
<1>19. CASE Finalize
  BY <1>19 DEF Finalize, Labels
<1>20. CASE Exclusions
  <2>1. ExclusionReason # "none" => ExclusionReason \in Reasons
    BY DEF ExclusionReason, Reasons
  <2>2. manifest' \in [1..Runs -> Manifests]
    BY <1>20, <2>1, ExcludeType DEF Exclusions, Rewrite, RewriteFails, Tear, Manifests
  <2>3. pc' \in Labels /\ ret' \in Returns /\ trap' \in BOOLEAN
    BY <1>20, ExitType DEF Exclusions, Labels
  <2>4. runExcluded' \in BOOLEAN
    BY <1>20 DEF Exclusions
  <2>5. interrupts' \in Nat /\ writeFaults' \in Nat /\ deaths' \in Nat
    BY <1>20 DEF Exclusions, Rewrite, RewriteFails, WriteFault
  <2> QED
    BY <1>20, <2>2, <2>3, <2>4, <2>5 DEF Exclusions
<1>21. CASE Smoke
  <2>1. seen' \in [1..Runs -> SUBSET Facts]
    <3> DEFINE new == {f \in {"complete"} : Contract \subseteq rows}
    <3>1. new \subseteq Facts
      BY DEF Facts
    <3>2. seen' = [seen EXCEPT ![run] = @ \cup new]
      BY <1>21 DEF Smoke
    <3> HIDE DEF new
    <3> QED
      BY <3>1, <3>2
  <2>2. CASE ExcludeAndDie("harness")
    BY <1>21, <2>1, <2>2, DieType, DieReasons DEF Smoke
  <2>3. CASE Goto("next") /\ UNCHANGED flags
    BY <1>21, <2>1, <2>3 DEF Smoke, Labels
  <2> QED
    BY <1>21, <2>2, <2>3 DEF Smoke
<1>22. CASE AbortLabel
  <2>1. manifest' \in [1..Runs -> Manifests]
    BY <1>22, ExcludeType DEF AbortLabel, Rewrite, RewriteFails, Tear, Manifests, Reasons
  <2>2. interrupts' \in Nat /\ writeFaults' \in Nat /\ deaths' \in Nat
    BY <1>22 DEF AbortLabel, Rewrite, RewriteFails, WriteFault
  <2> QED
    BY <1>22, <2>1, <2>2 DEF AbortLabel, Labels
<1>23. CASE DieLabel
  <2>1. manifest' \in [1..Runs -> Manifests]
    BY <1>23, ExcludeType DEF DieLabel, Rewrite, RewriteFails, Tear, Manifests
  <2>2. interrupts' \in Nat /\ writeFaults' \in Nat /\ deaths' \in Nat
    BY <1>23 DEF DieLabel, Rewrite, RewriteFails, WriteFault
  <2> QED
    BY <1>23, <2>1, <2>2 DEF DieLabel, Labels
<1>24. CASE SimTick
  BY <1>24 DEF SimTick, Facts
<1>25. CASE Sample
  BY <1>25 DEF Sample
<1>26. CASE WatchdogFires
  BY <1>26 DEF WatchdogFires
<1>27. CASE Interrupt
  BY <1>27, ExitType DEF Interrupt
<1>28. ASSUME NEW p \in Procs, Dies(p) PROVE TypeOK'
  <2>1. seen' \in [1..Runs -> SUBSET Facts]
    BY <1>28 DEF Dies, Facts
  <2>2. running' \subseteq Procs /\ ticking' \in BOOLEAN
    BY <1>28 DEF Dies
  <2> QED
    BY <1>28, <2>1, <2>2 DEF Dies
<1>29. CASE UNCHANGED vars
  BY <1>29 DEF vars
<1> QED
  BY <1>1, <1>2, <1>3, <1>4, <1>5, <1>6, <1>7, <1>8, <1>9, <1>10, <1>11, <1>12, <1>13,
     <1>14, <1>15, <1>16, <1>17, <1>18, <1>19, <1>20, <1>21, <1>22, <1>23, <1>24, <1>25,
     <1>26, <1>27, <1>28, <1>29, <1>30 DEF Next, Shell, Environment, Done

(* Type correctness: a results directory never holds a manifest outside    *)
(* the shapes write_manifest.py produces and the one a failing write       *)
(* leaves, and CURRENT_RUN_DIR always names a run of this invocation.      *)
THEOREM TypeCorrect == Spec => []TypeOK
<1>1. Init => TypeOK
  <2> SUFFICES ASSUME Init PROVE TypeOK
    OBVIOUS
  <2>1. run \in 0..Runs /\ dir \in 0..Runs
    BY ConstantsAssumption DEF Init
  <2>2. pc \in Labels /\ ret \in Returns /\ dieReason \in Reasons
    BY DEF Init, Labels, Returns, Reasons
  <2>3. manifest \in [1..Runs -> Manifests] /\ seen \in [1..Runs -> SUBSET Facts]
    BY DEF Init, Manifests
  <2>4. hostPids \subseteq Recorders /\ running \subseteq Procs
    BY DEF Init
  <2> QED
    BY <2>1, <2>2, <2>3, <2>4 DEF Init, TypeOK
<1> QED
  BY <1>1, TypeStep, PTL DEF Spec

-------------------------------------------------------------------------------
(* The inductive invariant, part by part.                                  *)

(* An exit either ends the shell at once or, with a status other than 0    *)
(* and a run directory, goes through on_abort's teardown.                  *)
LEMMA ExitShape ==
  ASSUME NEW rc, Exit(rc)
  PROVE  \/ pc' = "exit"
         \/ pc' = "td_watchdog" /\ ret' = "on_abort" /\ trap /\ rc # 0 /\ dir # 0
BY DEF Exit, OnAbort

(* A rewrite touches one manifest, and only a failed one cuts it short.    *)
LEMMA FaultFrame ==
  ASSUME TypeOK, NEW q, NEW reason, Rewrite(q, reason) \/ RewriteFails(q)
  PROVE  /\ \A r \in 1..Runs : r # q => manifest'[r] = manifest[r]
         /\ \A r \in 1..Runs : manifest'[r] = Torn => manifest[r] = Torn \/ writeFaults' > 0
         /\ interrupts' = interrupts /\ (writeFaults > 0 => writeFaults' > 0)
<1>1. CASE Rewrite(q, reason)
  BY <1>1 DEF Rewrite, ExcludeManifest, TypeOK, Torn, faults
<1>2. CASE WriteFault /\ (Tear(q) \/ UNCHANGED manifest)
  <2>1. writeFaults' > 0 /\ interrupts' = interrupts
    BY <1>2 DEF WriteFault, TypeOK
  <2>2. \A r \in 1..Runs : r # q => manifest'[r] = manifest[r]
    BY <1>2 DEF Tear, TypeOK
  <2> QED
    BY <2>1, <2>2
<1>3. CASE UNCHANGED <<manifest, faults>>
  BY <1>3 DEF faults
<1> QED
  BY <1>1, <1>2, <1>3 DEF RewriteFails

(* write_manifest creates this run's manifest and nothing else touches it  *)
(* before one of the three labelling sites does.                           *)
LEMMA ManifestStep ==
  TypeOK /\ ManifestInv /\ TrapInv /\ [Next]_vars => ManifestInv'
<1> SUFFICES ASSUME TypeOK, ManifestInv, TrapInv, [Next]_vars PROVE ManifestInv'
  OBVIOUS
<1> USE ConstantsAssumption
<1> USE DEF TypeOK, ManifestInv, Aborting, flags, files, world, faults, Goto, Before, Unlabelled, TeardownSteps
<1>1. CASE BeginRun
  BY <1>1 DEF BeginRun
<1>2. CASE AllRunsDone
  BY <1>2, ExitShape DEF AllRunsDone
<1>3. CASE Resolve
  BY <1>3, ExitShape DEF Resolve, TrapInv
<1>4. CASE Preflight
  BY <1>4, ExitShape DEF Preflight, TrapInv
<1>5. CASE WriteManifest
  <2>1. run \in 1..Runs /\ run' = run
    BY <1>5 DEF WriteManifest
  <2>2. CASE Goto("arm_trap") /\ manifest' = [manifest EXCEPT ![run] = Fresh]
             /\ UNCHANGED faults
    BY <2>1, <2>2 DEF Fresh, Torn
  <2>3. CASE Exit(1) /\ UNCHANGED <<manifest, faults>>
    <3>1. pc' = "exit"
      BY <1>5, <2>3, ExitShape DEF WriteManifest, TrapInv
    <3> QED
      BY <2>1, <2>3, <3>1
  <2>4. CASE Exit(1) /\ Tear(run) /\ WriteFault
    <3>1. pc' = "exit"
      BY <1>5, <2>4, ExitShape DEF WriteManifest, TrapInv
    <3>2. writeFaults' > 0
      BY <2>4 DEF WriteFault
    <3> QED
      BY <2>1, <2>4, <3>1, <3>2 DEF Tear
  <2> QED
    BY <1>5, <2>2, <2>3, <2>4 DEF WriteManifest
<1>6. CASE ArmTrap
  BY <1>6 DEF ArmTrap
<1>7. CASE Launch
  BY <1>7, ExitShape DEF Launch
<1>8. CASE Boot
  BY <1>8 DEF Boot
<1>9. CASE Ready
  BY <1>9, ExitShape DEF Ready
<1>10. CASE StartObserver
  BY <1>10, ExitShape DEF StartObserver, ExcludeAndDie
<1>11. ASSUME NEW p \in Recorders, StartRecorder(p) PROVE ManifestInv'
  <2>1. UNCHANGED <<run, manifest, runExcluded>> /\ (writeFaults > 0 => writeFaults' > 0)
    BY <1>11 DEF StartRecorder, WriteFault
  <2>2. pc = "recorders" /\ pc' \in {"recorders", "exit", "td_watchdog"}
    BY <1>11, ExitShape DEF StartRecorder
  <2> QED
    BY <2>1, <2>2
<1>30. CASE RecordersStarted
  BY <1>30 DEF RecordersStarted
<1>12. CASE Liveness
  BY <1>12 DEF Liveness, ExcludeAndDie
<1>13. CASE Inject
  BY <1>13, ExitShape DEF Inject, ExcludeAndDie
<1>14. CASE Arm
  BY <1>14, ExitShape DEF Arm, ExcludeAndDie
<1>15. CASE Probe
  BY <1>15 DEF Probe
<1>16. CASE WindowReached
  BY <1>16 DEF WindowReached, StartTeardown
<1>17. CASE WindowCapped
  BY <1>17 DEF WindowCapped, StartTeardown
<1>18. CASE Teardown
  BY <1>18 DEF Teardown, StopWatchdog, StopObserver, StopGt, StopSampler, StopInjector, StopStack, TeardownStep, Stop, Returns
<1>19. CASE Finalize
  BY <1>19 DEF Finalize
<1>20. CASE Exclusions
  <2>1. run \in 1..Runs /\ run' = run /\ manifest[run] = Fresh
    BY <1>20 DEF Exclusions
  <2>2. CASE ExclusionReason = "none"
    BY <1>20, <2>1, <2>2 DEF Exclusions, Fresh, Torn
  <2>3. CASE Rewrite(run, ExclusionReason) /\ runExcluded' = TRUE /\ pc' = "smoke"
    <3>1. manifest'[run].exists /\ manifest'[run].excluded /\ manifest'[run] # Torn
      BY <2>1, <2>3 DEF Rewrite, ExcludeManifest, Torn
    <3>2. \A r \in 1..Runs : r # run => manifest'[r] = manifest[r]
      BY <2>1, <2>3 DEF Rewrite, ExcludeManifest
    <3> QED
      BY <2>1, <2>3, <3>1, <3>2 DEF Rewrite
  <2>4. CASE RewriteFails(run) /\ Exit(1)
    <3>1. pc' = "exit" \/ (pc' = "td_watchdog" /\ ret' = "on_abort")
      BY <2>4, ExitShape
    <3>2. writeFaults' > 0 /\ manifest'[run] \in {Fresh, Torn}
      BY <2>1, <2>4 DEF RewriteFails, WriteFault, Tear, Fresh, Torn
    <3>3. \A r \in 1..Runs : r # run => manifest'[r] = manifest[r]
      BY <2>1, <2>4 DEF RewriteFails, Tear
    <3> QED
      BY <2>1, <3>1, <3>2, <3>3
  <2> QED
    BY <1>20, <2>2, <2>3, <2>4 DEF Exclusions
<1>21. CASE Smoke
  <2>1. run \in 1..Runs /\ run' = run /\ UNCHANGED manifest
    BY <1>21 DEF Smoke
  <2>2. CASE pc' = "next"
    BY <1>21, <2>1, <2>2 DEF Smoke
  <2>3. CASE pc' = "td_watchdog" /\ ~runExcluded
    <3>1. manifest[run].exists /\ ~manifest[run].excluded
      BY <1>21, <2>3 DEF Smoke
    <3>2. manifest[run] = Fresh
      BY <1>21, <2>1, <3>1 DEF Smoke, Manifests, Absent, Fresh
    <3> QED
      BY <1>21, <2>1, <2>3, <3>2 DEF Smoke
  <2> QED
    BY <1>21, <2>2, <2>3 DEF Smoke, ExcludeAndDie
<1>22. CASE AbortLabel
  BY <1>22, FaultFrame, SMTT(30) DEF AbortLabel, TrapInv
<1>23. CASE DieLabel
  BY <1>23, FaultFrame DEF DieLabel
<1>24. CASE SimTick
  BY <1>24 DEF SimTick
<1>25. CASE Sample
  BY <1>25 DEF Sample
<1>26. CASE WatchdogFires
  BY <1>26 DEF WatchdogFires
<1>27. CASE Interrupt
  BY <1>27, ExitShape DEF Interrupt
<1>28. ASSUME NEW p \in Procs, Dies(p) PROVE ManifestInv'
  BY <1>28 DEF Dies
<1>29. CASE UNCHANGED vars
  BY <1>29 DEF vars
<1> QED
  BY <1>1, <1>2, <1>3, <1>4, <1>5, <1>6, <1>7, <1>8, <1>9, <1>10, <1>11, <1>12, <1>13,
     <1>14, <1>15, <1>16, <1>17, <1>18, <1>19, <1>20, <1>21, <1>22, <1>23, <1>24, <1>25,
     <1>26, <1>27, <1>28, <1>29, <1>30 DEF Next, Shell, Environment, Done

(* do_run clears CURRENT_RUN_DIR, ArmTrap sets it with the trap, and       *)
(* nothing between the two and the label changes either.                   *)
LEMMA TrapStep ==
  TypeOK /\ TrapInv /\ [Next]_vars => TrapInv'
<1> SUFFICES ASSUME TypeOK, TrapInv, [Next]_vars PROVE TrapInv'
  OBVIOUS
<1> USE ConstantsAssumption
<1> USE DEF TypeOK, TrapInv, flags, files, world, faults, Goto, Before, Trapped, TeardownSteps
<1>1. CASE BeginRun
  BY <1>1 DEF BeginRun
<1>2. CASE AllRunsDone
  BY <1>2, ExitShape DEF AllRunsDone
<1>3. CASE Resolve
  BY <1>3, ExitShape DEF Resolve
<1>4. CASE Preflight
  BY <1>4, ExitShape DEF Preflight
<1>5. CASE WriteManifest
  BY <1>5, ExitShape DEF WriteManifest
<1>6. CASE ArmTrap
  BY <1>6 DEF ArmTrap
<1>7. CASE Launch
  BY <1>7, ExitShape DEF Launch
<1>8. CASE Boot
  BY <1>8 DEF Boot
<1>9. CASE Ready
  BY <1>9, ExitShape DEF Ready
<1>10. CASE StartObserver
  BY <1>10, ExitShape DEF StartObserver, ExcludeAndDie
<1>11. ASSUME NEW p \in Recorders, StartRecorder(p) PROVE TrapInv'
  <2>1. dir' = dir /\ run' = run /\ pc = "recorders"
    BY <1>11 DEF StartRecorder
  <2>2. UNCHANGED <<pc, ret, trap>> \/ pc' = "exit" \/ (pc' = "td_watchdog" /\ ret' = "on_abort")
    BY <1>11, ExitShape DEF StartRecorder
  <2> QED
    BY <2>1, <2>2
<1>30. CASE RecordersStarted
  BY <1>30 DEF RecordersStarted
<1>12. CASE Liveness
  BY <1>12 DEF Liveness, ExcludeAndDie
<1>13. CASE Inject
  BY <1>13, ExitShape DEF Inject, ExcludeAndDie
<1>14. CASE Arm
  BY <1>14, ExitShape DEF Arm, ExcludeAndDie
<1>15. CASE Probe
  BY <1>15 DEF Probe
<1>16. CASE WindowReached
  BY <1>16 DEF WindowReached, StartTeardown
<1>17. CASE WindowCapped
  BY <1>17 DEF WindowCapped, StartTeardown
<1>18. CASE Teardown
  BY <1>18 DEF Teardown, StopWatchdog, StopObserver, StopGt, StopSampler, StopInjector, StopStack, TeardownStep, Stop, Returns
<1>19. CASE Finalize
  BY <1>19 DEF Finalize
<1>20. CASE Exclusions
  BY <1>20, ExitShape DEF Exclusions
<1>21. CASE Smoke
  BY <1>21 DEF Smoke, ExcludeAndDie
<1>22. CASE AbortLabel
  BY <1>22 DEF AbortLabel
<1>23. CASE DieLabel
  BY <1>23 DEF DieLabel
<1>24. CASE SimTick
  BY <1>24 DEF SimTick
<1>25. CASE Sample
  BY <1>25 DEF Sample
<1>26. CASE WatchdogFires
  BY <1>26 DEF WatchdogFires
<1>27. CASE Interrupt
  BY <1>27, ExitShape DEF Interrupt
<1>28. ASSUME NEW p \in Procs, Dies(p) PROVE TrapInv'
  BY <1>28 DEF Dies
<1>29. CASE UNCHANGED vars
  BY <1>29 DEF vars
<1> QED
  BY <1>1, <1>2, <1>3, <1>4, <1>5, <1>6, <1>7, <1>8, <1>9, <1>10, <1>11, <1>12, <1>13,
     <1>14, <1>15, <1>16, <1>17, <1>18, <1>19, <1>20, <1>21, <1>22, <1>23, <1>24, <1>25,
     <1>26, <1>27, <1>28, <1>29, <1>30 DEF Next, Shell, Environment, Done

(* Where the trap is armed, a failing command always reaches the teardown. *)
LEMMA TrappedExit ==
  ASSUME TypeOK, ManifestInv, TrapInv, pc \in Trapped, Exit(1) \/ Exit(2)
  PROVE  pc' = "td_watchdog" /\ ret' = "on_abort"
<1>1. trap /\ dir = run
  BY DEF TrapInv
<1>2. dir # 0
  BY <1>1 DEF ManifestInv, Trapped
<1> QED
  BY <1>1, <1>2 DEF Exit, OnAbort

(* A label that is due is written, or there was a fault.                   *)
LEMMA RewriteOutcome ==
  ASSUME TypeOK, ManifestInv, NEW q \in 1..Runs, NEW reason,
         Rewrite(q, reason) \/ RewriteFails(q)
  PROVE  /\ manifest'[q].excluded \/ writeFaults' > 0
         /\ \A r \in 1..Runs : r # q => manifest'[r] = manifest[r]
         /\ interrupts' = interrupts /\ (writeFaults' = 0 => writeFaults = 0)
<1>1. CASE Rewrite(q, reason)
  BY <1>1 DEF Rewrite, ExcludeManifest, TypeOK, faults
<1>2. CASE RewriteFails(q)
  <2>1. writeFaults' > 0
    BY <1>2 DEF RewriteFails, WriteFault, TypeOK, ManifestInv, faults
  <2> QED
    BY <1>2, <2>1, FaultFrame
<1> QED
  BY <1>1, <1>2

(* What the smoke insists on is what the recorders that were started owe.  *)
LEMMA SmokeEnough ==
  ASSUME WorldInv, pc = "smoke"
  PROVE  Contract = ExpectedRows
<1>1. hostPids = Expected
  BY DEF WorldInv, Recorded
<1> QED
  BY <1>1 DEF Contract, ExpectedRows, Expected

(* Every way a run ends labels it or has checked its files.                *)
LEMMA OutcomeStep ==
  TypeOK /\ ManifestInv /\ TrapInv /\ WorldInv /\ OutcomeInv /\ [Next]_vars => OutcomeInv'
<1> SUFFICES ASSUME TypeOK, ManifestInv, TrapInv, WorldInv, OutcomeInv, [Next]_vars PROVE OutcomeInv'
  OBVIOUS
<1> USE ConstantsAssumption
<1> USE DEF TypeOK, OutcomeInv, LabelledUnlessFaulted, NoThirdOutcome, Over, flags, files, world, faults, Goto, TeardownSteps
<1>1. CASE BeginRun
  BY <1>1 DEF BeginRun
<1>2. CASE AllRunsDone
  BY <1>2, ExitShape DEF AllRunsDone
<1>3. CASE Resolve
  BY <1>3, ExitShape DEF Resolve, ManifestInv, Before, Absent
<1>4. CASE Preflight
  BY <1>4, ExitShape DEF Preflight, ManifestInv, Before, Absent
<1>5. CASE WriteManifest
  <2>1. CASE Goto("arm_trap") /\ manifest' = [manifest EXCEPT ![run] = Fresh]
             /\ UNCHANGED faults
    BY <1>5, <2>1 DEF WriteManifest, ManifestInv, Before
  <2>2. CASE Exit(1) /\ UNCHANGED <<manifest, faults>>
    BY <1>5, <2>2, ExitShape DEF WriteManifest, TrapInv, ManifestInv, Before, Absent
  <2>3. CASE WriteFault
    BY <2>3 DEF WriteFault
  <2> QED
    BY <1>5, <2>1, <2>2, <2>3 DEF WriteManifest
<1>6. CASE ArmTrap
  BY <1>6 DEF ArmTrap
<1>7. CASE Launch
  BY <1>7, TrappedExit DEF Launch, Trapped
<1>8. CASE Boot
  BY <1>8 DEF Boot
<1>9. CASE Ready
  BY <1>9, TrappedExit DEF Ready, Trapped
<1>10. CASE StartObserver
  BY <1>10, TrappedExit DEF StartObserver, ExcludeAndDie, Trapped
<1>11. ASSUME NEW p \in Recorders, StartRecorder(p) PROVE OutcomeInv'
  <2>1. pc' \notin {"next", "exit"} /\ UNCHANGED <<run, manifest, seen, interrupts>>
    BY <1>11, TrappedExit DEF StartRecorder, Trapped, WriteFault
  <2>2. writeFaults' = 0 => writeFaults = 0
    BY <1>11 DEF StartRecorder, WriteFault
  <2> QED
    BY <2>1, <2>2
<1>30. CASE RecordersStarted
  BY <1>30 DEF RecordersStarted
<1>12. CASE Liveness
  BY <1>12 DEF Liveness, ExcludeAndDie
<1>13. CASE Inject
  BY <1>13, TrappedExit DEF Inject, ExcludeAndDie, Trapped
<1>14. CASE Arm
  BY <1>14, TrappedExit DEF Arm, ExcludeAndDie, Trapped
<1>15. CASE Probe
  BY <1>15 DEF Probe
<1>16. CASE WindowReached
  BY <1>16 DEF WindowReached, StartTeardown
<1>17. CASE WindowCapped
  BY <1>17 DEF WindowCapped, StartTeardown
<1>18. CASE Teardown
  BY <1>18 DEF Teardown, StopWatchdog, StopObserver, StopGt, StopSampler, StopInjector, StopStack, TeardownStep, Stop, Returns
<1>19. CASE Finalize
  BY <1>19 DEF Finalize
<1>20. CASE Exclusions
  <2>1. pc' \notin {"next", "exit"} /\ run' = run /\ UNCHANGED seen
    BY <1>20, TrappedExit DEF Exclusions, Trapped
  <2>2. \A r \in 1..Runs : r < run => manifest'[r] = manifest[r]
    BY <1>20, FaultFrame, SMTT(30) DEF Exclusions
  <2>3. interrupts' = interrupts /\ (writeFaults' = 0 => writeFaults = 0)
    BY <1>20, FaultFrame DEF Exclusions
  <2> QED
    BY <2>1, <2>2, <2>3
<1>21. CASE Smoke
  BY <1>21, SmokeEnough DEF Smoke, ExcludeAndDie, ManifestInv
<1>22. CASE AbortLabel
  <2>1. dir = run /\ run \in 1..Runs /\ manifest[run].exists
    BY <1>22 DEF AbortLabel, TrapInv, ManifestInv, Unlabelled, Fresh, Torn
  <2> QED
    <3>1. Rewrite(run, abortReason) \/ RewriteFails(run)
      BY <1>22, <2>1 DEF AbortLabel
    <3>2. /\ manifest'[run].excluded \/ writeFaults' > 0
          /\ \A r \in 1..Runs : r # run => manifest'[r] = manifest[r]
          /\ interrupts' = interrupts /\ (writeFaults' = 0 => writeFaults = 0)
      BY <2>1, <3>1, RewriteOutcome
    <3> QED
      BY <1>22, <3>2 DEF AbortLabel
<1>23. CASE DieLabel
  <2>1. run \in 1..Runs
    BY <1>23 DEF DieLabel, ManifestInv
  <2> QED
    BY <1>23, <2>1, RewriteOutcome DEF DieLabel
<1>24. CASE SimTick
  BY <1>24 DEF SimTick
<1>25. CASE Sample
  BY <1>25 DEF Sample
<1>26. CASE WatchdogFires
  BY <1>26 DEF WatchdogFires
<1>27. CASE Interrupt
  BY <1>27, ExitShape DEF Interrupt
<1>28. ASSUME NEW p \in Procs, Dies(p) PROVE OutcomeInv'
  BY <1>28 DEF Dies
<1>29. CASE UNCHANGED vars
  BY <1>29 DEF vars
<1> QED
  BY <1>1, <1>2, <1>3, <1>4, <1>5, <1>6, <1>7, <1>8, <1>9, <1>10, <1>11, <1>12, <1>13,
     <1>14, <1>15, <1>16, <1>17, <1>18, <1>19, <1>20, <1>21, <1>22, <1>23, <1>24, <1>25,
     <1>26, <1>27, <1>28, <1>29, <1>30 DEF Next, Shell, Environment, Done

(* An invocation keeps its cell, and so the recorders it expects.          *)
LEMMA SameRecorders ==
  ASSUME [Next]_vars
  PROVE  Expected' = Expected
<1>1. cell' = cell
  <2>1. Teardown => UNCHANGED cell
    BY DEF Teardown, StopWatchdog, StopObserver, StopGt, StopSampler, StopInjector,
           StopStack, TeardownStep
  <2>2. Environment => UNCHANGED cell
    BY DEF Environment, SimTick, Sample, WatchdogFires, Interrupt, Dies
  <2>3. BeginRun \/ AllRunsDone \/ Resolve \/ Preflight \/ WriteManifest \/ ArmTrap
          \/ Launch \/ Boot \/ Ready \/ (\E p \in Recorders : StartRecorder(p))
          => UNCHANGED cell
    BY DEF BeginRun, AllRunsDone, Resolve, Preflight, WriteManifest, ArmTrap, Launch, Boot,
           Ready, StartRecorder
  <2>4. StartObserver \/ RecordersStarted \/ Liveness \/ Inject \/ Arm \/ Probe
          \/ WindowReached \/ WindowCapped \/ Finalize \/ Exclusions \/ Smoke
          \/ AbortLabel \/ DieLabel => UNCHANGED cell
    BY DEF StartObserver, RecordersStarted, Liveness, Inject, Arm, Probe, WindowReached,
           WindowCapped, Finalize, Exclusions, Smoke, AbortLabel, DieLabel
  <2> QED
    BY <2>1, <2>2, <2>3, <2>4 DEF Next, Shell, Done, vars
<1> QED
  BY <1>1 DEF Expected

(* Processes that end leave WorldInv as it is.                             *)
LEMMA WorldFrame ==
  ASSUME TypeOK, WorldInv, running' \subseteq running, writeFaults' = writeFaults,
         UNCHANGED <<cell, pc, ret, launchEnv, hostPids, interrupts>>
  PROVE  WorldInv'
<1>1. \A ps : Cleared(ps) => Cleared(ps)'
  BY DEF Cleared
<1>2. Strays' \subseteq Strays /\ (Aborting => Aborting') /\ Expected' = Expected
  BY DEF Strays, Aborting, Expected
<1> QED
  BY <1>1, <1>2 DEF WorldInv

(* What a step starts, teardown will find; what teardown stops, stays      *)
(* stopped.                                                                *)
LEMMA WorldStep ==
  TypeOK /\ ManifestInv /\ TrapInv /\ WorldInv /\ [Next]_vars => WorldInv'
<1> SUFFICES ASSUME TypeOK, ManifestInv, TrapInv, WorldInv, [Next]_vars PROVE WorldInv'
  OBVIOUS
<1>0. Expected' = Expected
  BY SameRecorders
<1> USE ConstantsAssumption, <1>0
<1> USE DEF TypeOK, WorldInv, Strays, Cleared, Aborting, Unrecorded, Recorded, flags, files, world,
            faults, Goto, Before, Idle, TeardownSteps
<1>1. CASE BeginRun
  BY <1>1 DEF BeginRun
<1>2. CASE AllRunsDone
  BY <1>2, ExitShape DEF AllRunsDone
<1>3. CASE Resolve
  BY <1>3, ExitShape DEF Resolve
<1>4. CASE Preflight
  BY <1>4, ExitShape DEF Preflight
<1>5. CASE WriteManifest
  BY <1>5, ExitShape DEF WriteManifest
<1>6. CASE ArmTrap
  BY <1>6 DEF ArmTrap
<1>7. CASE Launch
  BY <1>7, TrappedExit DEF Launch, Trapped
<1>8. CASE Boot
  BY <1>8 DEF Boot, Recorders
<1>9. CASE Ready
  BY <1>9, TrappedExit DEF Ready, Trapped
<1>10. CASE StartObserver
  BY <1>10, TrappedExit DEF StartObserver, ExcludeAndDie, Recorders, Trapped
<1>11. ASSUME NEW p \in Recorders, StartRecorder(p) PROVE WorldInv'
  <2>1. CASE hostPids' = hostPids \cup {p} /\ pc' = "recorders"
    BY <1>11, <2>1 DEF StartRecorder, Recorders
  <2>2. CASE WriteFault /\ Exit(1) /\ UNCHANGED hostPids
    <3>1. pc' = "td_watchdog" /\ ret' = "on_abort" /\ writeFaults' > 0
      BY <1>11, <2>2, TrappedExit DEF StartRecorder, Trapped, WriteFault
    <3> QED
      BY <1>11, <2>2, <3>1 DEF StartRecorder, Recorders
  <2> QED
    BY <1>11, <2>1, <2>2 DEF StartRecorder
<1>30. CASE RecordersStarted
  BY <1>30 DEF RecordersStarted
<1>12. CASE Liveness
  BY <1>12 DEF Liveness, ExcludeAndDie
<1>13. CASE Inject
  BY <1>13, TrappedExit DEF Inject, ExcludeAndDie, Trapped, Recorders
<1>14. CASE Arm
  BY <1>14, TrappedExit DEF Arm, ExcludeAndDie, Trapped
<1>15. CASE Probe
  BY <1>15 DEF Probe
<1>16. CASE WindowReached
  BY <1>16 DEF WindowReached, StartTeardown
<1>17. CASE WindowCapped
  BY <1>17 DEF WindowCapped, StartTeardown
<1>18. CASE Teardown
  <2>1. CASE StopWatchdog
    BY <2>1 DEF StopWatchdog, TeardownStep, Stop, Recorders, Procs, Returns
  <2>2. CASE StopObserver
    BY <2>2 DEF StopObserver, TeardownStep, Stop, Recorders, Procs, Returns
  <2>3. CASE StopGt
    BY <2>3 DEF StopGt, TeardownStep, Stop, Recorders, Procs, Returns
  <2>4. CASE StopSampler
    <3>1. Cleared(Recorders \cup {"observer"})' /\ Strays' \subseteq Strays
      BY <2>4 DEF StopSampler, TeardownStep, Stop, Recorders
    <3>2. UNCHANGED <<cell, ret, launchEnv, hostPids, interrupts, writeFaults>>
      BY <2>4 DEF StopSampler, TeardownStep
    <3>3. CASE launchEnv
      BY <2>4, <3>1, <3>2, <3>3 DEF StopSampler, TeardownStep, Recorders
    <3>4. CASE ~launchEnv
      <4>1. Cleared(Procs)'
        BY <2>4, <3>1, <3>4 DEF StopSampler, TeardownStep, Stop, Procs, Recorders
      <4>2. pc' \in Returns /\ pc' = ret
        BY <2>4, <3>4 DEF StopSampler, TeardownStep
      <4>3. pc \in TeardownSteps /\ running' \subseteq running
        BY <2>4 DEF StopSampler, TeardownStep, Stop
      <4>4. Strays' = {} \/ (writeFaults' > 0 /\ Aborting')
        BY <3>1, <3>2, <4>2, <4>3
      <4>5. pc' = "finalize" => hostPids' = Expected'
        BY <3>2, <4>2, <4>3
      <4>6. running' \cap {"stack", "injector"} # {} => launchEnv'
        BY <3>2, <4>3
      <4> HIDE DEF Cleared, Strays, Aborting
      <4> QED
        BY <3>2, <4>1, <4>2, <4>4, <4>5, <4>6 DEF Returns
    <3> QED
      BY <3>3, <3>4
  <2>5. CASE StopInjector
    BY <2>5 DEF StopInjector, TeardownStep, Stop, Recorders, Procs, Returns
  <2>6. CASE StopStack
    BY <2>6 DEF StopStack, TeardownStep, Stop, Recorders, Procs, Returns
  <2> QED
    BY <1>18, <2>1, <2>2, <2>3, <2>4, <2>5, <2>6 DEF Teardown
<1>19. CASE Finalize
  BY <1>19 DEF Finalize
<1>20. CASE Exclusions
  BY <1>20, TrappedExit, FaultFrame DEF Exclusions, Trapped
<1>21. CASE Smoke
  BY <1>21 DEF Smoke, ExcludeAndDie
<1>22. CASE AbortLabel
  <2>1. interrupts' = interrupts /\ (writeFaults > 0 => writeFaults' > 0)
    BY <1>22, FaultFrame DEF AbortLabel
  <2>2. UNCHANGED <<running, hostPids, launchEnv>> /\ pc = "on_abort" /\ pc' = "exit"
    BY <1>22 DEF AbortLabel
  <2> QED
    BY <2>1, <2>2
<1>23. CASE DieLabel
  BY <1>23, FaultFrame DEF DieLabel
<1>24. CASE SimTick
  BY <1>24, WorldFrame DEF SimTick
<1>25. CASE Sample
  BY <1>25, WorldFrame DEF Sample
<1>26. CASE WatchdogFires
  BY <1>26, WorldFrame DEF WatchdogFires
<1>27. CASE Interrupt
  BY <1>27, ExitShape DEF Interrupt
<1>28. ASSUME NEW p \in Procs, Dies(p) PROVE WorldInv'
  BY <1>28, WorldFrame DEF Dies
<1>29. CASE UNCHANGED vars
  BY <1>29, WorldFrame DEF vars
<1> QED
  BY <1>1, <1>2, <1>3, <1>4, <1>5, <1>6, <1>7, <1>8, <1>9, <1>10, <1>11, <1>12, <1>13,
     <1>14, <1>15, <1>16, <1>17, <1>18, <1>19, <1>20, <1>21, <1>22, <1>23, <1>24, <1>25,
     <1>26, <1>27, <1>28, <1>29, <1>30 DEF Next, Shell, Environment, Done

(* Between do_run's first line and its return there is a current run.      *)
LEMMA RunInRange ==
  ASSUME TypeOK, ManifestInv, pc \notin {"next", "exit"}
  PROVE  run \in 1..Runs
BY ConstantsAssumption DEF TypeOK, ManifestInv

(* A flag is raised only with its cause, and cleared before the next run.  *)
LEMMA CauseStep ==
  TypeOK /\ ManifestInv /\ TrapInv /\ WorldInv /\ CauseInv /\ [Next]_vars => CauseInv'
<1> SUFFICES ASSUME TypeOK, ManifestInv, TrapInv, WorldInv, CauseInv, [Next]_vars PROVE CauseInv'
  OBVIOUS
<1> USE ConstantsAssumption
<1> USE DEF TypeOK, CauseInv, ReasonNamesItsCause, flags, files, world, faults, Goto, Before, BeforeUp, Unlabelled,
            TeardownSteps, ClockAdvances, Aborting
<1>1. CASE BeginRun
  <2>1. run' \in 1..Runs /\ run' > run /\ pc' = "resolve"
    BY <1>1 DEF BeginRun
  <2>2. running' = {} /\ UNCHANGED <<seen, manifest, dieReason>>
    BY <1>1 DEF BeginRun, WorldInv, Idle, Cleared, Strays
  <2>3. seen'[run'] = {} /\ ~controlSilent' /\ ~windowShort' /\ ~marker'
    BY <1>1, <2>1, <2>2 DEF BeginRun
  <2> QED
    BY <2>1, <2>2, <2>3
<1>2. CASE AllRunsDone
  BY <1>2, ExitShape DEF AllRunsDone
<1>3. CASE Resolve
  BY <1>3, ExitShape DEF Resolve
<1>4. CASE Preflight
  BY <1>4, ExitShape DEF Preflight
<1>5. CASE WriteManifest
  BY <1>5, ExitShape DEF WriteManifest, Tear, Fresh, Torn
<1>6. CASE ArmTrap
  BY <1>6 DEF ArmTrap
<1>7. CASE Launch
  BY <1>7, TrappedExit DEF Launch, Trapped
<1>8. CASE Boot
  BY <1>8 DEF Boot, WorldInv, Idle, Unrecorded
<1>9. CASE Ready
  <2>1. run \in 1..Runs /\ manifest[run] = Fresh
    BY <1>9, RunInRange DEF Ready, ManifestInv
  <2>2. CASE pc' = "observer" /\ abortReason' = "harness"
             /\ seen' = [seen EXCEPT ![run] = @ \cup {"up"}]
    <3>1. \A r \in 1..Runs : r # run => seen'[r] = seen[r]
      BY <2>2
    <3>2. seen'[run] = seen[run] \cup {"up"}
      BY <2>1, <2>2
    <3> QED
      BY <1>9, <2>1, <2>2, <3>1, <3>2 DEF Ready, Fresh
  <2>3. CASE Exit(2) /\ UNCHANGED <<abortReason, seen>>
    BY <1>9, <2>3, TrappedExit DEF Ready, Trapped, WorldInv
  <2> QED
    BY <1>9, <2>2, <2>3 DEF Ready
<1>10. CASE StartObserver
  BY <1>10, TrappedExit DEF StartObserver, ExcludeAndDie, Trapped
<1>11. ASSUME NEW p \in Recorders, StartRecorder(p) PROVE CauseInv'
  BY <1>11, TrappedExit DEF StartRecorder, Expected, Trapped
<1>30. CASE RecordersStarted
  BY <1>30 DEF RecordersStarted
<1>12. CASE Liveness
  BY <1>12 DEF Liveness, ExcludeAndDie
<1>13. CASE Inject
  BY <1>13, TrappedExit DEF Inject, ExcludeAndDie, Trapped
<1>14. CASE Arm
  BY <1>14, TrappedExit DEF Arm, ExcludeAndDie, Trapped
<1>15. CASE Probe
  BY <1>15, RunInRange DEF Probe
<1>16. CASE WindowReached
  BY <1>16 DEF WindowReached, StartTeardown
<1>17. CASE WindowCapped
  BY <1>17, RunInRange DEF WindowCapped, StartTeardown
<1>18. CASE Teardown
  <2>1. CASE StopWatchdog
    BY <2>1 DEF StopWatchdog, TeardownStep, Stop, Recorders, Returns, WorldInv, Cleared, Strays
  <2>2. CASE StopObserver
    BY <2>2 DEF StopObserver, TeardownStep, Stop, Recorders, Returns, WorldInv, Cleared, Strays
  <2>3. CASE StopGt
    BY <2>3 DEF StopGt, TeardownStep, Stop, Recorders, Returns, WorldInv, Cleared, Strays
  <2>4. CASE StopSampler
    BY <2>4 DEF StopSampler, TeardownStep, Stop, Recorders, Returns, WorldInv, Cleared, Strays
  <2>5. CASE StopInjector
    BY <2>5 DEF StopInjector, TeardownStep, Stop, Recorders, Returns, WorldInv, Cleared, Strays
  <2>6. CASE StopStack
    BY <2>6 DEF StopStack, TeardownStep, Stop, Recorders, Returns, WorldInv, Cleared, Strays
  <2> QED
    BY <1>18, <2>1, <2>2, <2>3, <2>4, <2>5, <2>6 DEF Teardown
<1>19. CASE Finalize
  BY <1>19 DEF Finalize
<1>20. CASE Exclusions
  <2>1. run \in 1..Runs
    BY <1>20, RunInRange DEF Exclusions
  <2>2. UNCHANGED <<cell, run, abortReason, dieReason, controlSilent, windowShort, marker,
                    running, ticking, seen>>
    BY <1>20 DEF Exclusions
  <2>3. pc' = "smoke" \/ (pc' = "td_watchdog" /\ ret' = "on_abort")
    BY <1>20, TrappedExit DEF Exclusions, Trapped
  <2>4. UNCHANGED manifest \/ Tear(run) \/ ExcludeManifest(run, ExclusionReason)
    BY <1>20 DEF Exclusions, Rewrite, RewriteFails
  <2>5. ReasonNamesItsCause'
    BY <1>20, <2>1, <2>2, <2>4, SMTT(30) DEF Exclusions, ExcludeManifest, ExclusionReason, Tear, Torn
  <2> QED
    BY <1>20, <2>2, <2>3, <2>5 DEF Exclusions, WorldInv, Idle
<1>21. CASE Smoke
  BY <1>21, RunInRange DEF Smoke, ExcludeAndDie
<1>22. CASE AbortLabel
  BY <1>22, RunInRange DEF AbortLabel, Rewrite, RewriteFails, ExcludeManifest, Tear, Torn, TrapInv
<1>23. CASE DieLabel
  BY <1>23 DEF DieLabel, Rewrite, RewriteFails, ExcludeManifest, Tear, Torn
<1>24. CASE SimTick
  BY <1>24 DEF SimTick
<1>25. CASE Sample
  BY <1>25 DEF Sample
<1>26. CASE WatchdogFires
  BY <1>26 DEF WatchdogFires, WorldInv, Strays, Recorders
<1>27. CASE Interrupt
  BY <1>27, ExitShape DEF Interrupt
<1>28. ASSUME NEW p \in Procs, Dies(p) PROVE CauseInv'
  <2>1. UNCHANGED <<cell, pc, run, ret, flags, marker, manifest>> /\ pc # "exit"
    BY <1>28 DEF Dies
  <2>2. \A r \in 1..Runs : seen'[r] = seen[r] \/ (r = run /\ seen'[r] = seen[r] \cup {"stalled"})
    BY <1>28 DEF Dies
  <2>3. CASE (p = "stack" \/ (p = "observer" /\ ~cell.ablation)) /\ run # 0
    <3>1. seen'[run] = seen[run] \cup {"stalled"}
      BY <1>28, <2>3 DEF Dies
    <3> QED
      BY <2>1, <2>2, <3>1
  <2>4. CASE ~((p = "stack" \/ (p = "observer" /\ ~cell.ablation)) /\ run # 0)
    <3>1. UNCHANGED seen /\ running' \subseteq running
      BY <1>28, <2>4 DEF Dies
    <3>2. ClockAdvances /\ run # 0 => ClockAdvances'
      BY <1>28, <2>4 DEF Dies
    <3> QED
      BY <1>28, <2>1, <2>4, <3>1, <3>2 DEF ManifestInv, WorldInv, Idle, Cleared, Strays, Dies
  <2> QED
    BY <2>3, <2>4
<1>29. CASE UNCHANGED vars
  BY <1>29 DEF vars
<1> QED
  BY <1>1, <1>2, <1>3, <1>4, <1>5, <1>6, <1>7, <1>8, <1>9, <1>10, <1>11, <1>12, <1>13,
     <1>14, <1>15, <1>16, <1>17, <1>18, <1>19, <1>20, <1>21, <1>22, <1>23, <1>24, <1>25,
     <1>26, <1>27, <1>28, <1>29, <1>30 DEF Next, Shell, Environment, Done

-------------------------------------------------------------------------------
(* The theorems.                                                           *)

(* IInv holds initially and every step keeps it, for any number of runs,   *)
(* any cells and any number of interrupts, failed rewrites and deaths.     *)
THEOREM InductiveInvariant == Spec => [](TypeOK /\ IInv)
<1>1. Init => IInv
  <2> SUFFICES ASSUME Init PROVE IInv
    OBVIOUS
  <2>1. ManifestInv
    BY DEF Init, ManifestInv, Before, Unlabelled, TeardownSteps, Absent, Torn
  <2>2. TrapInv
    BY DEF Init, TrapInv, Before, Trapped, TeardownSteps
  <2>3. OutcomeInv
    BY DEF Init, OutcomeInv, LabelledUnlessFaulted, NoThirdOutcome, Absent
  <2>4. WorldInv
    BY DEF Init, WorldInv, Strays, Cleared, Unrecorded, Recorded, TeardownSteps, Before
  <2>5. CauseInv
    BY DEF Init, CauseInv, ReasonNamesItsCause, Absent, BeforeUp, Before, Unlabelled,
           TeardownSteps
  <2> QED
    BY <2>1, <2>2, <2>3, <2>4, <2>5 DEF IInv
<1>2. TypeOK /\ IInv /\ [Next]_vars => IInv'
  BY ManifestStep, TrapStep, OutcomeStep, WorldStep, CauseStep DEF IInv
<1> QED
  BY <1>1, <1>2, TypeCorrect, PTL DEF Spec

(* run.sh:10-15: without an operator's signal and a failing write, a run   *)
(* directory is complete or excluded once its run is over, whichever other *)
(* command failed and whichever process died.                              *)
THEOREM Labelled == Spec => []LabelledUnlessFaulted
<1>1. IInv => LabelledUnlessFaulted
  BY DEF IInv, OutcomeInv
<1> QED
  BY <1>1, InductiveInvariant, PTL

(* teardown.sh: whichever step it is called from, no process of a run      *)
(* survives the run, but a recorder whose pid could not be written.        *)
THEOREM NothingSurvives == Spec => []NothingLeftRunning
<1>1. TypeOK /\ IInv => NothingLeftRunning
  BY DEF IInv, WorldInv, Idle, Strays, Cleared, Aborting, TeardownSteps, NothingLeftRunning, TypeOK
<1> QED
  BY <1>1, InductiveInvariant, PTL

(* config/exclusions.md: the reason a run is filed under names something   *)
(* that happened in that run.                                              *)
THEOREM ReasonsAreTrue == Spec => []ReasonNamesItsCause
<1>1. IInv => ReasonNamesItsCause
  BY DEF IInv, CauseInv
<1> QED
  BY <1>1, InductiveInvariant, PTL

(* A step changes the manifest only where the run directory is unlabelled: *)
(* the two action properties rest on it.                                   *)
LEMMA ManifestFrame ==
  ASSUME TypeOK, ManifestInv, TrapInv, [Next]_vars, NEW r \in 1..Runs,
         manifest'[r] # manifest[r]
  PROVE  r = run /\ pc \notin {"next", "exit"} /\ ~manifest[r].excluded
<1> USE DEF flags, files, world, faults, Goto
<1>1. WriteManifest \/ Exclusions \/ AbortLabel \/ DieLabel
  <2>1. ~UNCHANGED manifest
    OBVIOUS
  <2>2. Teardown => UNCHANGED manifest
    BY DEF Teardown, StopWatchdog, StopObserver, StopGt, StopSampler, StopInjector,
           StopStack, TeardownStep
  <2>3. Environment => UNCHANGED manifest
    BY DEF Environment, SimTick, Sample, WatchdogFires, Interrupt, Dies
  <2>4. BeginRun \/ AllRunsDone \/ Resolve \/ Preflight \/ ArmTrap \/ Launch \/ Boot
          \/ Ready => UNCHANGED manifest
    BY DEF BeginRun, AllRunsDone, Resolve, Preflight, ArmTrap, Launch, Boot, Ready
  <2>5. StartObserver \/ RecordersStarted \/ Liveness \/ Inject \/ Arm \/ Probe
          \/ WindowReached \/ WindowCapped \/ Finalize \/ Smoke => UNCHANGED manifest
    BY DEF StartObserver, RecordersStarted, Liveness, Inject, Arm, Probe, WindowReached,
           WindowCapped, Finalize, Smoke
  <2>6. (\E p \in Recorders : StartRecorder(p)) => UNCHANGED manifest
    BY DEF StartRecorder
  <2> QED
    BY <2>1, <2>2, <2>3, <2>4, <2>5, <2>6 DEF Next, Shell, Done, vars
<1>2. pc \in Before \cup Unlabelled /\ pc \notin {"next", "exit"}
  BY <1>1 DEF WriteManifest, Exclusions, AbortLabel, DieLabel, Before, Unlabelled
<1>3. \E m : manifest' = [manifest EXCEPT ![run] = m]
  <2>1. CASE WriteManifest
    BY <2>1 DEF WriteManifest, Tear
  <2>2. CASE Exclusions
    BY <2>2 DEF Exclusions, Rewrite, RewriteFails, ExcludeManifest, Tear
  <2>3. CASE AbortLabel
    BY <2>3 DEF AbortLabel, Rewrite, RewriteFails, ExcludeManifest, Tear, TrapInv
  <2>4. CASE DieLabel
    BY <2>4 DEF DieLabel, Rewrite, RewriteFails, ExcludeManifest, Tear
  <2> QED
    BY <1>1, <2>1, <2>2, <2>3, <2>4
<1>4. r = run
  BY <1>3 DEF TypeOK
<1>5. ~manifest[run].excluded
  BY <1>2 DEF ManifestInv, Absent, Fresh, Torn
<1> QED
  BY <1>2, <1>4, <1>5

(* A run that is over keeps its manifest, whatever happens to the runs     *)
(* after it: an abort never labels a finished run.                         *)
THEOREM FiledStaysFiled == Spec => FiledRunsStayFiled
<1>1. TypeOK /\ IInv /\ [Next]_vars =>
        [\A r \in 1..Runs : Over(r) => manifest'[r] = manifest[r]]_vars
  BY ManifestFrame, ConstantsAssumption DEF IInv, Over, TypeOK
<1> QED
  BY <1>1, InductiveInvariant, PTL DEF Spec, FiledRunsStayFiled

(* A label, once filed, is never replaced by a second one.                 *)
THEOREM FirstReasonKept == Spec => FirstReasonStays
<1>1. TypeOK /\ IInv /\ [Next]_vars =>
        [\A r \in 1..Runs : manifest[r].excluded => manifest'[r] = manifest[r]]_vars
  BY ManifestFrame DEF IInv
<1> QED
  BY <1>1, InductiveInvariant, PTL DEF Spec, FirstReasonStays
-------------------------------------------------------------------------------
(* The ground-truth collector and the observer.                            *)

(* While the observer records, a collector that was started and has not    *)
(* died by itself counts along: it is started after it and stopped after   *)
(* it.                                                                     *)
CollectorInv ==
  /\ deaths = 0 /\ "gt" \in hostPids /\ "observer" \in running => "gt" \in running
  /\ GroundTruthOutlivesClock

(* teardown.sh stops the observer first; StopGt comes when it is gone.     *)
LEMMA CollectorStep ==
  ASSUME TypeOK, ManifestInv, WorldInv, CollectorInv, [Next]_vars
  PROVE  CollectorInv'
<1> USE ConstantsAssumption
<1> USE DEF TypeOK, CollectorInv, GroundTruthOutlivesClock, TeardownSteps,
            flags, files, world, faults, Goto
<1>1. CASE BeginRun
  BY <1>1 DEF BeginRun
<1>2. CASE AllRunsDone
  BY <1>2, ExitShape DEF AllRunsDone
<1>3. CASE Resolve
  BY <1>3, ExitShape DEF Resolve
<1>4. CASE Preflight
  BY <1>4, ExitShape DEF Preflight
<1>5. CASE WriteManifest
  BY <1>5, ExitShape DEF WriteManifest, WriteFault
<1>6. CASE ArmTrap
  BY <1>6 DEF ArmTrap
<1>7. CASE Launch
  BY <1>7, ExitShape DEF Launch
<1>8. CASE Boot
  BY <1>8 DEF Boot
<1>9. CASE Ready
  BY <1>9, ExitShape DEF Ready
<1>10. CASE StartObserver
  BY <1>10, ExitShape DEF StartObserver, ExcludeAndDie, WorldInv, Unrecorded
<1>11. ASSUME NEW p \in Recorders, StartRecorder(p) PROVE CollectorInv'
  <2>1. seen' = seen /\ deaths' = deaths /\ running \subseteq running'
    BY <1>11 DEF StartRecorder, WriteFault
  <2>2. "gt" \in hostPids' => "gt" \in hostPids \/ "gt" \in running'
    BY <1>11 DEF StartRecorder
  <2>3. "observer" \in running' => "observer" \in running
    BY <1>11 DEF StartRecorder, Recorders
  <2> QED
    BY <2>1, <2>2, <2>3
<1>35. CASE RecordersStarted
  BY <1>35 DEF RecordersStarted
<1>12. CASE Liveness
  BY <1>12 DEF Liveness, ExcludeAndDie
<1>13. CASE Inject
  BY <1>13, ExitShape DEF Inject, ExcludeAndDie
<1>14. CASE Arm
  BY <1>14, ExitShape DEF Arm, ExcludeAndDie
<1>15. CASE Probe
  BY <1>15 DEF Probe
<1>16. CASE WindowReached
  BY <1>16 DEF WindowReached, StartTeardown
<1>17. CASE WindowCapped
  BY <1>17 DEF WindowCapped, StartTeardown
<1>18. CASE StopWatchdog
  BY <1>18 DEF StopWatchdog, TeardownStep, Stop
<1>19. CASE StopObserver
  BY <1>19 DEF StopObserver, TeardownStep, Stop
<1>20. CASE StopGt
  BY <1>20 DEF StopGt, TeardownStep, Stop, WorldInv, Cleared, Recorders
<1>21. CASE StopSampler
  BY <1>21 DEF StopSampler, TeardownStep, Stop, Returns
<1>22. CASE StopInjector
  BY <1>22 DEF StopInjector, TeardownStep, Stop
<1>23. CASE StopStack
  BY <1>23 DEF StopStack, TeardownStep, Stop, Returns
<1>24. CASE Finalize
  BY <1>24 DEF Finalize
<1>25. CASE Exclusions
  BY <1>25, ExitShape DEF Exclusions, Rewrite, RewriteFails, WriteFault
<1>26. CASE Smoke
  BY <1>26 DEF Smoke, ExcludeAndDie
<1>27. CASE AbortLabel
  BY <1>27 DEF AbortLabel, Rewrite, RewriteFails, WriteFault
<1>28. CASE DieLabel
  BY <1>28 DEF DieLabel, Rewrite, RewriteFails, WriteFault
<1>29. CASE SimTick
  BY <1>29 DEF SimTick
<1>30. CASE Sample
  BY <1>30 DEF Sample
<1>31. CASE WatchdogFires
  BY <1>31 DEF WatchdogFires
<1>32. CASE Interrupt
  BY <1>32, ExitShape DEF Interrupt
<1>33. ASSUME NEW p \in Procs, Dies(p) PROVE CollectorInv'
  BY <1>33 DEF Dies
<1>34. CASE UNCHANGED vars
  BY <1>34 DEF vars
<1> QED
  BY <1>1, <1>2, <1>3, <1>4, <1>5, <1>6, <1>7, <1>8, <1>9, <1>10, <1>11, <1>12, <1>13,
     <1>14, <1>15, <1>16, <1>17, <1>18, <1>19, <1>20, <1>21, <1>22, <1>23, <1>24, <1>25,
     <1>26, <1>27, <1>28, <1>29, <1>30, <1>31, <1>32, <1>33, <1>34, <1>35
  DEF Next, Shell, Environment, Done, Teardown

(* teardown.sh:17-48: the ground truth reaches as far as the clock series, *)
(* from whichever step the teardown was called and however often it was    *)
(* interrupted, unless a process died by itself.                           *)
THEOREM GroundTruthReaches == Spec => []GroundTruthOutlivesClock
<1>1. Init => CollectorInv
  BY DEF Init, CollectorInv, GroundTruthOutlivesClock
<1>2. ASSUME TypeOK /\ IInv, CollectorInv, [Next]_vars PROVE CollectorInv'
  BY <1>2, CollectorStep DEF IInv
<1>3. CollectorInv => GroundTruthOutlivesClock
  BY DEF CollectorInv
<1> QED
  BY <1>1, <1>2, <1>3, InductiveInvariant, PTL DEF Spec
-------------------------------------------------------------------------------
(* The harness keeps the ledger of RunLedger.                              *)

(* A step that neither writes a manifest nor begins or ends a run nor      *)
(* finds one complete is none of the ledger's.                             *)
LEMMA Unnoticed ==
  ASSUME UNCHANGED <<run, manifest, interrupts, writeFaults>>, Whole' = Whole, Phase' = Phase
  PROVE  UNCHANGED Ledger!ledger
BY DEF Ledger!ledger, Book

(* Whatever else a run is seen to do, it is not thereby complete.          *)
LEMMA WholeKept ==
  ASSUME TypeOK, NEW facts, "complete" \notin facts,
         seen' = [seen EXCEPT ![run] = @ \cup facts]
  PROVE  Whole' = Whole
BY DEF TypeOK, Whole

(* What the entries of the book are.                                       *)
LEMMA Entries ==
  ASSUME TypeOK, NEW r \in 1..Runs
  PROVE  /\ manifest[r] = Absent => Book[r] = "absent"
         /\ manifest[r] = Fresh => Book[r] = "fresh"
         /\ manifest[r] = Torn => Book[r] = "torn"
         /\ manifest[r].excluded => Book[r] \in Reasons
<1>1. manifest[r] \in Manifests
  BY DEF TypeOK
<1> QED
  BY <1>1 DEF Book, Manifests, Absent, Fresh, Torn

(* The label that one of the three sites writes is an entry being filed.   *)
LEMMA LabelFiles ==
  ASSUME TypeOK, ManifestInv, pc \in Unlabelled, NEW reason \in Reasons,
         Rewrite(run, reason), run' = run, Whole' = Whole,
         Phase' \in {"during", "over"}
  PROVE  Ledger!File(reason)
<1>1. run \in 1..Runs /\ manifest[run] = Fresh /\ Phase = "during"
  BY RunInRange DEF Rewrite, ManifestInv, Unlabelled, TeardownSteps, Phase
<1>2. Book[run] = "fresh"
  BY <1>1, Entries
<1>3. Book' = [Book EXCEPT ![run] = reason]
  <2>1. \A r \in 1..Runs : Book'[r] = IF r = run THEN reason ELSE Book[r]
    BY <1>1 DEF Rewrite, ExcludeManifest, Book, TypeOK, Absent, Fresh
  <2> QED
    BY <1>1, <2>1 DEF Book
<1> QED
  BY <1>1, <1>2, <1>3 DEF Rewrite, faults, Ledger!File

(* An entry spoilt.                                                        *)
LEMMA TornEntry ==
  ASSUME TypeOK, run \in 1..Runs, Tear(run)
  PROVE  Book' = [Book EXCEPT ![run] = "torn"]
<1>1. \A r \in 1..Runs : Book'[r] = IF r = run THEN "torn" ELSE Book[r]
  BY DEF Tear, Book, TypeOK, Absent, Fresh, Torn
<1> QED
  BY <1>1 DEF Book

(* A rewrite that fails is a fault.                                        *)
LEMMA FaultFails ==
  ASSUME TypeOK, ManifestInv, RewriteFails(run), pc \in Unlabelled, pc' # "next", run' = run,
         Whole' = Whole
  PROVE  Ledger!Fail
<1>1. Phase = "during" /\ Phase' \in {"during", "over"} /\ run \in 1..Runs
  BY RunInRange DEF Phase, Unlabelled, TeardownSteps
<1>2. interrupts' + writeFaults' > 0
  BY <1>1 DEF TypeOK, RewriteFails, WriteFault, ManifestInv, faults
<1>3. CASE UNCHANGED manifest
  <2>1. Book' = Book
    BY <1>3 DEF Book
  <2> QED
    BY <1>1, <1>2, <2>1 DEF Ledger!Fail
<1>4. CASE manifest[run] # Torn /\ Tear(run)
  <2>1. Book[run] = "fresh"
    BY <1>1, <1>4, Entries DEF ManifestInv
  <2> QED
    BY <1>1, <1>2, <1>4, <2>1, TornEntry DEF Ledger!Fail
<1> QED
  BY <1>3, <1>4 DEF RewriteFails

(* A command that fails before the run directory is there ends the         *)
(* invocation in a run that has left nothing.                              *)
LEMMA EndsEmpty ==
  ASSUME TypeOK, ManifestInv, pc \in Before, pc' = "exit",
         UNCHANGED <<run, manifest, seen, interrupts, writeFaults>>
  PROVE  Ledger!End
<1>1. run \in 1..Runs /\ manifest[run] = Absent
  BY RunInRange DEF ManifestInv, Before
<1>2. Book[run] = "absent" /\ Phase = "during" /\ Phase' = "over"
  BY <1>1, Entries DEF Phase, Before
<1> QED
  BY <1>2 DEF Ledger!End, Book, Whole

(* Each step of the harness is a step of the ledger, or none of its.       *)
LEMMA LedgerStep ==
  ASSUME TypeOK, ManifestInv, TrapInv, WorldInv, [Next]_vars
  PROVE  [Ledger!Next]_(Ledger!ledger)
<1> USE DEF flags, files, world, faults, Goto
<1>1. CASE BeginRun
  <2>1. Phase = "between" /\ Phase' = "during" /\ UNCHANGED <<Book, Whole>>
    BY <1>1 DEF BeginRun, Phase, Book, Whole
  <2> QED
    BY <1>1, <2>1 DEF BeginRun, Ledger!Begin, Ledger!Next
<1>2. CASE AllRunsDone
  <2>1. Phase = "between" /\ Phase' = "over" /\ UNCHANGED <<Book, Whole>>
    BY <1>2, ExitShape DEF AllRunsDone, Phase, Book, Whole
  <2> QED
    BY <1>2, <2>1 DEF AllRunsDone, Ledger!End, Ledger!Next
<1>3. CASE Resolve
  <2>1. CASE pc' = "preflight"
    BY <1>3, <2>1, Unnoticed DEF Resolve, Phase, Whole
  <2>2. CASE pc' = "exit"
    BY <1>3, <2>2, EndsEmpty DEF Resolve, Before, Ledger!Next
  <2> QED
    BY <1>3, <2>1, <2>2, ExitShape DEF Resolve, TrapInv, Before
<1>4. CASE Preflight
  <2>1. CASE pc' = "write_manifest"
    BY <1>4, <2>1, Unnoticed DEF Preflight, Phase, Whole
  <2>2. CASE pc' = "exit"
    BY <1>4, <2>2, EndsEmpty DEF Preflight, Before, Ledger!Next
  <2> QED
    BY <1>4, <2>1, <2>2, ExitShape DEF Preflight, TrapInv, Before
<1>5. CASE WriteManifest
  <2>1. run \in 1..Runs /\ manifest[run] = Absent /\ run' = run
    BY <1>5, RunInRange DEF WriteManifest, ManifestInv, Before
  <2>2. CASE Goto("arm_trap") /\ manifest' = [manifest EXCEPT ![run] = Fresh]
             /\ UNCHANGED faults
    <3>1. \A r \in 1..Runs : Book'[r] = IF r = run THEN "fresh" ELSE Book[r]
      BY <2>1, <2>2 DEF Book, TypeOK, Absent, Fresh
    <3>2. Book' = [Book EXCEPT ![run] = "fresh"]
      BY <2>1, <3>1 DEF Book
    <3>3. Book[run] = "absent" /\ Phase = "during" /\ Phase' = "during"
      BY <1>5, <2>1, <2>2, Entries DEF WriteManifest, Phase
    <3> QED
      BY <1>5, <2>1, <2>2, <3>2, <3>3 DEF WriteManifest, Whole, Ledger!Enter, Ledger!Next
  <2>3. CASE Exit(1) /\ UNCHANGED <<manifest, faults>>
    <3>1. pc' = "exit"
      BY <1>5, <2>3, ExitShape DEF WriteManifest, TrapInv, Before
    <3> QED
      BY <1>5, <2>3, <3>1, EndsEmpty DEF WriteManifest, Before, Ledger!Next
  <2>4. CASE Exit(1) /\ Tear(run) /\ WriteFault
    <3>1. pc' = "exit" /\ interrupts' + writeFaults' > 0
      BY <1>5, <2>4, ExitShape DEF WriteManifest, TrapInv, Before, WriteFault, TypeOK
    <3>2. Phase = "during" /\ Phase' = "over" /\ Book[run] = "absent"
      BY <1>5, <2>1, <3>1, Entries DEF WriteManifest, Phase
    <3> QED
      BY <1>5, <2>1, <2>4, <3>1, <3>2, TornEntry DEF WriteManifest, Whole, Ledger!Fail, Ledger!Next
  <2> QED
    BY <1>5, <2>2, <2>3, <2>4 DEF WriteManifest
<1>6. CASE ArmTrap
  BY <1>6, Unnoticed DEF ArmTrap, Phase, Whole
<1>7. CASE Launch
  BY <1>7, Unnoticed, TrappedExit DEF Launch, Phase, Whole, Trapped
<1>8. CASE Boot
  BY <1>8, Unnoticed DEF Boot, Phase, Whole
<1>9. CASE Ready
  <2>1. Whole' = Whole
    BY <1>9, WholeKept DEF Ready, Whole
  <2> QED
    BY <1>9, <2>1, Unnoticed, TrappedExit DEF Ready, Phase, Trapped
<1>10. CASE StartObserver
  BY <1>10, Unnoticed, TrappedExit DEF StartObserver, Phase, Whole, ExcludeAndDie, Trapped
<1>11. ASSUME NEW p \in Recorders, StartRecorder(p) PROVE [Ledger!Next]_(Ledger!ledger)
  <2>1. UNCHANGED <<run, manifest, Whole, Book>> /\ Phase = "during"
    BY <1>11 DEF StartRecorder, Whole, Phase, Book
  <2>2. Phase' = "during"
    BY <1>11, TrappedExit DEF StartRecorder, Phase, Trapped
  <2>3. CASE UNCHANGED faults
    BY <2>1, <2>2, <2>3, Unnoticed
  <2>4. CASE WriteFault
    <3>1. interrupts' + writeFaults' > 0
      BY <2>4 DEF WriteFault, TypeOK
    <3> QED
      BY <2>1, <2>2, <3>1 DEF Ledger!Fail, Ledger!Next
  <2> QED
    BY <1>11, <2>3, <2>4 DEF StartRecorder
<1>30. CASE RecordersStarted
  BY <1>30, Unnoticed DEF RecordersStarted, Phase, Whole
<1>12. CASE Liveness
  BY <1>12, Unnoticed DEF Liveness, Phase, Whole, ExcludeAndDie
<1>13. CASE Inject
  BY <1>13, Unnoticed, TrappedExit DEF Inject, Phase, Whole, ExcludeAndDie, Trapped
<1>14. CASE Arm
  BY <1>14, Unnoticed, TrappedExit DEF Arm, Phase, Whole, ExcludeAndDie, Trapped
<1>15. CASE Probe
  <2>1. Whole' = Whole
    BY <1>15, WholeKept DEF Probe, Whole
  <2> QED
    BY <1>15, <2>1, Unnoticed DEF Probe, Phase
<1>16. CASE WindowReached
  BY <1>16, Unnoticed DEF WindowReached, Phase, Whole, StartTeardown
<1>17. CASE WindowCapped
  <2>1. Whole' = Whole
    BY <1>17, WholeKept DEF WindowCapped
  <2> QED
    BY <1>17, <2>1, Unnoticed DEF WindowCapped, Phase, StartTeardown
<1>18. CASE Teardown
  <2>1. PICK at \in TeardownSteps, then \in TeardownSteps \cup Returns : TeardownStep(at, then)
    BY <1>18 DEF Teardown, StopWatchdog, StopObserver, StopGt, StopSampler, StopInjector,
                 StopStack, TeardownSteps, TypeOK
  <2>2. Phase = "during" /\ Phase' = "during"
    BY <2>1 DEF TeardownStep, TeardownSteps, Returns, Phase
  <2> QED
    BY <2>1, <2>2, Unnoticed DEF TeardownStep, Whole
<1>19. CASE Finalize
  BY <1>19, Unnoticed DEF Finalize, Phase, Whole
<1>20. CASE Exclusions
  <2>1. Whole' = Whole /\ run' = run
    BY <1>20 DEF Exclusions, Whole
  <2>2. CASE ExclusionReason = "none"
    BY <1>20, <2>1, <2>2, Unnoticed DEF Exclusions, Phase
  <2>3. CASE ExclusionReason # "none" /\ Rewrite(run, ExclusionReason) /\ Goto("smoke")
    <3>1. ExclusionReason \in Reasons
      BY <2>3 DEF ExclusionReason, Reasons
    <3>2. Ledger!File(ExclusionReason)
      BY <1>20, <2>1, <2>3, <3>1, LabelFiles DEF Exclusions, Unlabelled, Phase
    <3> QED
      BY <3>1, <3>2 DEF Ledger!Next
  <2>4. CASE RewriteFails(run) /\ Exit(1)
    <3>1. pc' = "td_watchdog"
      BY <1>20, <2>4, TrappedExit DEF Exclusions, Trapped
    <3> QED
      BY <1>20, <2>1, <2>4, <3>1, FaultFails DEF Exclusions, Unlabelled, Ledger!Next
  <2> QED
    BY <1>20, <2>2, <2>3, <2>4 DEF Exclusions
<1>21. CASE Smoke
  <2> DEFINE new == {f \in {"complete"} : Contract \subseteq rows}
  <2>1. /\ run \in 1..Runs /\ run' = run /\ Phase = "during"
        /\ manifest[run].exists /\ manifest[run] # Torn
        /\ (runExcluded <=> manifest[run].excluded)
    BY <1>21, RunInRange DEF Smoke, ManifestInv, Phase
  <2>2. seen' = [seen EXCEPT ![run] = @ \cup new]
    BY <1>21 DEF Smoke
  <2>3. UNCHANGED <<Book, interrupts, writeFaults>>
    BY <1>21 DEF Smoke, Book
  <2>4. Whole' = IF Contract \subseteq rows THEN Whole \cup {run} ELSE Whole
    BY <2>1, <2>2 DEF Whole, TypeOK
  <2>5. CASE pc' = "next"
    <3>1. manifest[run].excluded \/ Contract \subseteq rows
      BY <1>21, <2>1, <2>5, SmokeEnough DEF Smoke, ExcludeAndDie
    <3>2. Book[run] \in Reasons \/ (Book[run] = "fresh" /\ run \in Whole')
      <4>1. CASE manifest[run].excluded
        BY <2>1, <4>1, Entries
      <4>2. CASE ~manifest[run].excluded
        <5>1. manifest[run] = Fresh
          BY <2>1, <4>2 DEF TypeOK, Manifests, Absent, Fresh
        <5> QED
          BY <2>1, <2>4, <3>1, <4>2, <5>1, Entries
      <4> QED
        BY <4>1, <4>2
    <3> QED
      BY <2>1, <2>3, <2>4, <2>5, <3>2 DEF Phase, Ledger!Pass, Ledger!Next
  <2>6. CASE pc' = "td_watchdog"
    <3>1. Phase' = "during"
      BY <2>6 DEF Phase
    <3> QED
      BY <2>1, <2>3, <2>4, <3>1 DEF Ledger!Complete, Ledger!Next, Ledger!ledger
  <2> QED
    BY <1>21, <2>5, <2>6 DEF Smoke, ExcludeAndDie
<1>22. CASE AbortLabel
  <2>1. run' = run /\ Whole' = Whole /\ pc' = "exit" /\ Phase' = "over"
    BY <1>22 DEF AbortLabel, Whole, Phase
  <2>2. dir = run /\ manifest[run].exists /\ abortReason \in Reasons
    BY <1>22 DEF AbortLabel, TrapInv, ManifestInv, Unlabelled, Fresh, Torn, TypeOK, Reasons
  <2>3. CASE Rewrite(run, abortReason)
    <3>1. Ledger!File(abortReason)
      BY <1>22, <2>1, <2>2, <2>3, LabelFiles DEF AbortLabel, Unlabelled
    <3> QED
      BY <2>2, <3>1 DEF Ledger!Next
  <2>4. CASE RewriteFails(run)
    BY <1>22, <2>1, <2>4, FaultFails DEF AbortLabel, Unlabelled, Ledger!Next
  <2> QED
    BY <1>22, <2>2, <2>3, <2>4 DEF AbortLabel
<1>23. CASE DieLabel
  <2>1. run' = run /\ Whole' = Whole /\ pc' = "exit" /\ Phase' = "over"
    BY <1>23 DEF DieLabel, Whole, Phase
  <2>2. dieReason \in Reasons
    BY DEF TypeOK
  <2>3. CASE Rewrite(run, dieReason)
    <3>1. Ledger!File(dieReason)
      BY <1>23, <2>1, <2>2, <2>3, LabelFiles DEF DieLabel, Unlabelled
    <3> QED
      BY <2>2, <3>1 DEF Ledger!Next
  <2>4. CASE RewriteFails(run)
    BY <1>23, <2>1, <2>4, FaultFails DEF DieLabel, Unlabelled, Ledger!Next
  <2> QED
    BY <1>23, <2>3, <2>4 DEF DieLabel
<1>24. CASE SimTick
  <2>1. Whole' = Whole
    BY <1>24, WholeKept DEF SimTick, Whole
  <2> QED
    BY <1>24, <2>1, Unnoticed DEF SimTick, Phase
<1>25. CASE Sample
  BY <1>25, Unnoticed DEF Sample, Phase, Whole
<1>26. CASE WatchdogFires
  BY <1>26, Unnoticed DEF WatchdogFires, Phase, Whole
<1>27. CASE Interrupt
  <2>1. pc' = "exit" /\ Phase # "over" /\ Phase' = "over"
    BY <1>27, ExitShape DEF Interrupt, Phase
  <2>2. interrupts' + writeFaults' > 0
    BY <1>27 DEF Interrupt, TypeOK
  <2> QED
    BY <1>27, <2>1, <2>2 DEF Interrupt, Book, Whole, Ledger!Fail, Ledger!Next
<1>28. ASSUME NEW p \in Procs, Dies(p) PROVE [Ledger!Next]_(Ledger!ledger)
  <2>1. Whole' = Whole
    BY <1>28, WholeKept DEF Dies, Whole
  <2> QED
    BY <1>28, <2>1, Unnoticed DEF Dies, Phase
<1>29. CASE UNCHANGED vars
  BY <1>29, Unnoticed DEF vars, Phase, Whole
<1> QED
  BY <1>1, <1>2, <1>3, <1>4, <1>5, <1>6, <1>7, <1>8, <1>9, <1>10, <1>11, <1>12, <1>13,
     <1>14, <1>15, <1>16, <1>17, <1>18, <1>19, <1>20, <1>21, <1>22, <1>23, <1>24, <1>25,
     <1>26, <1>27, <1>28, <1>29, <1>30
  DEF Next, Shell, Environment, Done

(* run.sh:10-15: for any number of runs, cells and faults, the harness     *)
(* keeps the ledger: one entry a run, filed at most once and only while    *)
(* that run lasts, no next run before this one is filed or complete, and   *)
(* an end with neither only by a signal or a write that fails.             *)
THEOREM HarnessKeepsLedger == Spec => ImplementsLedger
<1>1. Init => Ledger!Init
  <2> SUFFICES ASSUME Init PROVE Ledger!Init
    OBVIOUS
  <2>1. Book = [r \in 1..Runs |-> "absent"] /\ Whole = {}
    BY DEF Init, Book, Whole, Absent
  <2>2. Phase = "between" /\ run = 0 /\ ~(interrupts + writeFaults > 0)
    BY DEF Init, Phase
  <2> QED
    BY <2>1, <2>2 DEF Ledger!Init
<1>2. (TypeOK /\ IInv) /\ [Next]_vars => [Ledger!Next]_(Ledger!ledger)
  BY LedgerStep DEF IInv
<1> QED
  BY <1>1, <1>2, InductiveInvariant, PTL DEF Spec, ImplementsLedger, Ledger!Spec
===============================================================================
