-------------------------------- MODULE Runner --------------------------------
(***************************************************************************)
(* runner/__main__.py: the client that spawns the ego and its sensors and  *)
(* ticks the world.  Every step that matters is a call to the CARLA        *)
(* server, which may fail (the client raises), and every exit but a kill   *)
(* goes through main()'s finally.                                          *)
(*                                                                         *)
(* The client gives up on a call after thirty seconds, and a call that it  *)
(* gave up on may still be carried out by the server: its outcome is late. *)
(* Actor 0 is the ego, 1 and 2 are the LiDAR and the IMU, the rest are     *)
(* cameras.  A tick that succeeds changes nothing that is modelled here.   *)
(***************************************************************************)
EXTENDS Integers

CONSTANT Cameras \* --cameras

ASSUME RunnerConstants == Cameras \in Nat

Last == 2 + Cameras
Actors == 0..Last
Outcomes == {"ok", "failed", "late"}

VARIABLES
  pc,       \* where main() is
  next,     \* the actor to spawn next
  call,     \* what spawn_sensors or spawn_cameras has spawned so far
  ego,      \* is main()'s ego bound?
  sensors,  \* main()'s sensors
  raised,   \* an exception is under way
  go,       \* stop["go"]
  exit,     \* none, 0, 1, interrupted, killed
  async,    \* --async
  actors,   \* the server: the runner's actors
  tf,       \* the server: publishes tf
  settings, \* the server: its mode and delta: prior, ours or async
  substeps, \* the server: its physics substepping: prior or ours
  refused,  \* history: actors whose destroy failed
  orphans,  \* history: actors made after the client gave up on them
  kept      \* history: the mode was entered late, or giving it back failed

server == <<actors, tf, settings, substeps>>
past == <<refused, orphans, kept>>
vars == <<pc, next, call, ego, sensors, raised, go, async, exit, server, past>>

Starting == {"connect", "tf", "substeps", "handler"}
Steps == Starting \cup {"spawn", "unwind", "setup", "loop", "restore", "brake", "sensors", "ego",
                        "done"}

TypeOK ==
  /\ pc \in Steps
  /\ next \in 0..(Last + 1)
  /\ call \subseteq Actors \ {0}
  /\ ego \in BOOLEAN
  /\ sensors \subseteq Actors \ {0}
  /\ raised \in BOOLEAN
  /\ go \in BOOLEAN
  /\ exit \in {"none", "0", "1", "interrupted", "killed"}
  /\ actors \subseteq Actors
  /\ tf \in BOOLEAN
  /\ async \in BOOLEAN
  /\ settings \in {"prior", "ours", "async"}
  /\ substeps \in {"prior", "ours"}
  /\ refused \subseteq Actors
  /\ orphans \subseteq Actors
  /\ kept \in BOOLEAN

Init ==
  /\ pc = "connect"
  /\ next = 0
  /\ call = {}
  /\ ego = FALSE
  /\ sensors = {}
  /\ raised = FALSE
  /\ go = TRUE
  /\ exit = "none"
  /\ actors = {}
  /\ tf = TRUE
  /\ async \in BOOLEAN
  /\ settings = "prior"
  /\ substeps = "prior"
  /\ refused = {}
  /\ orphans = {}
  /\ kept = FALSE

-------------------------------------------------------------------------------
(* Up to the try.                                                          *)

locals == <<next, call, ego, sensors, raised, go, async>>

(* The calibration files, the connection or the map fail, or further on tf *)
(* (this call may have a late effect, and so may the substepping's) or the *)
(* spawn point.  --extension-check, which only looks at the library and    *)
(* returns, is left out.                                                   *)
PreflightFails ==
  /\ pc \in Starting
  /\ pc' = "done"
  /\ exit' = "1"
  /\ tf' \in IF pc = "tf" THEN BOOLEAN ELSE {tf}
  /\ substeps' \in IF pc = "substeps" THEN {substeps, "ours"} ELSE {substeps}
  /\ UNCHANGED <<locals, actors, settings, past>>

(* Connected, with the map loaded.                                         *)
Connect ==
  /\ pc = "connect"
  /\ pc' = "tf"
  /\ UNCHANGED <<locals, exit, server, past>>

(* world.set_publish_tf(False).                                            *)
SuppressTf ==
  /\ pc = "tf"
  /\ tf' = FALSE
  /\ pc' = "substeps"
  /\ UNCHANGED <<locals, exit, actors, settings, substeps, past>>

(* --substep-config, if given; nobody gives these settings back.           *)
ApplySubsteps ==
  /\ pc = "substeps"
  /\ substeps' \in {substeps, "ours"}
  /\ pc' = "handler"
  /\ UNCHANGED <<locals, exit, actors, tf, settings, past>>

(* The pose has been chosen; from here on SIGINT only clears go.           *)
InstallHandler ==
  /\ pc = "handler"
  /\ pc' = "spawn"
  /\ UNCHANGED <<locals, exit, server, past>>

-------------------------------------------------------------------------------
(* spawn_ego, spawn_sensors and spawn_cameras.                             *)

\* Mutant: the sensors of a call are known to main() only when it returns.
SpawnedListLiteral ==
  /\ ego' = (ego \/ next = 0)
  /\ sensors' = IF next \in {2, Last} /\ next > 0 THEN sensors \cup 1..next ELSE sensors
  /\ call' = {}

(* The actor is bound: the ego by main(), a sensor by the call's own list, *)
(* which main() gets when the call returns.                                *)
Spawned ==
  /\ ego' = (ego \/ next = 0)
  /\ sensors' = IF next \in {2, Last} /\ next > 0 THEN sensors \cup call \cup {next} ELSE sensors
  /\ call' = IF next = 0 \/ next \in {2, Last} THEN {} ELSE call \cup {next}

\* Mutant: range(count + 1).
SpawnOkOneMore ==
  /\ pc = "spawn"
  /\ actors' = actors \cup {next}
  /\ Spawned
  /\ next' = next + 1
  /\ pc' = IF next > Last THEN "setup" ELSE "spawn"
  /\ UNCHANGED <<raised, go, async, exit, tf, settings, substeps, past>>

(* The actor is there and bound.                                           *)
SpawnOk ==
  /\ pc = "spawn"
  /\ actors' = actors \cup {next}
  /\ Spawned
  /\ next' = next + 1
  /\ pc' = IF next = Last THEN "setup" ELSE "spawn"
  /\ UNCHANGED <<raised, go, async, exit, tf, settings, substeps, past>>

\* Mutant: a spawn that fails is skipped and the rig goes on without it.
SpawnFailsGoesOn(o) ==
  /\ pc = "spawn"
  /\ o # "ok"
  /\ next < Last
  /\ actors' = IF o = "late" THEN actors \cup {next} ELSE actors
  /\ orphans' = IF o = "late" THEN orphans \cup {next} ELSE orphans
  /\ next' = next + 1
  /\ UNCHANGED <<pc, call, ego, sensors, raised, go, async, exit, tf, settings, substeps, refused,
                 kept>>

(* The blueprint lacks an attribute, or spawn_actor raises; nobody holds   *)
(* an actor that the server made after the client gave up.                 *)
SpawnFails(o) ==
  /\ pc = "spawn"
  /\ o # "ok"
  /\ actors' = IF o = "late" THEN actors \cup {next} ELSE actors
  /\ orphans' = IF o = "late" THEN orphans \cup {next} ELSE orphans
  /\ raised' = TRUE
  /\ pc' = "unwind"
  /\ UNCHANGED <<next, call, ego, sensors, go, async, exit, tf, settings, substeps, refused, kept>>

(* destroy() on a: an exception is swallowed.                              *)
Destroy(a, o) ==
  /\ actors' = IF o = "failed" THEN actors ELSE actors \ {a}
  /\ refused' = IF o = "failed" THEN refused \cup {a} ELSE refused
  /\ UNCHANGED <<tf, settings, substeps, orphans, kept>>

(* The call destroys what it had spawned, oldest first, and re-raises.     *)
Unwind(a, o) ==
  /\ pc = "unwind"
  /\ a \in call
  /\ \A b \in call : a <= b
  /\ Destroy(a, o)
  /\ call' = call \ {a}
  /\ UNCHANGED <<pc, next, ego, sensors, raised, go, async, exit>>

(* With nothing left of the call, the exception goes on to main().         *)
Reraise ==
  /\ pc = "unwind"
  /\ call = {}
  /\ pc' = "brake"
  /\ UNCHANGED <<locals, exit, server, past>>

-------------------------------------------------------------------------------
(* run_sync_loop and run_async_loop.                                       *)

(* The settings are applied: before the try.                               *)
Setup(o) ==
  /\ pc = "setup"
  /\ settings' = IF o = "failed" THEN settings ELSE IF async THEN "async" ELSE "ours"
  /\ kept' = (kept \/ o = "late")
  /\ raised' = (o # "ok")
  /\ pc' = IF o = "ok" THEN "loop" ELSE "brake"
  /\ UNCHANGED <<next, call, ego, sensors, go, async, exit, actors, tf, substeps, refused, orphans>>

\* Mutant: no finally around the sync loop.
LeaveAtOnce == pc' = "brake"

Leave == pc' = IF async THEN "brake" ELSE "restore"

(* tick() or wait_for_tick() raises.                                       *)
TickFails ==
  /\ pc = "loop"
  /\ raised' = TRUE
  /\ Leave
  /\ UNCHANGED <<next, call, ego, sensors, go, async, exit, server, past>>

\* Mutant: a loop that never looks at should_continue().
LoopForever ==
  /\ pc = "loop"
  /\ UNCHANGED vars

(* should_continue() is False.                                             *)
LoopEnds ==
  /\ pc = "loop"
  /\ ~go
  /\ Leave
  /\ UNCHANGED <<locals, exit, server, past>>

(* The finally of run_sync_loop.                                           *)
Restore(o) ==
  /\ pc = "restore"
  /\ settings' = IF o = "failed" THEN settings ELSE "prior"
  /\ kept' = (kept \/ o = "failed")
  /\ raised' = (raised \/ o # "ok")
  /\ pc' = "brake"
  /\ UNCHANGED <<next, call, ego, sensors, go, async, exit, actors, tf, substeps, refused, orphans>>

-------------------------------------------------------------------------------
(* The finally of main().                                                  *)

\* Mutant: the ego is destroyed where it stands, before its sensors.
BrakeAndDestroy ==
  /\ pc = "brake"
  /\ pc' = "sensors"
  /\ actors' = actors \ {0}
  /\ UNCHANGED <<locals, exit, tf, settings, substeps, past>>

(* _brake_to_stop, if there is an ego; its exceptions are swallowed.       *)
Brake ==
  /\ pc = "brake"
  /\ pc' = "sensors"
  /\ UNCHANGED <<locals, exit, server, past>>

(* The sensors, each in its own try.                                       *)
DestroySensor(a, o) ==
  /\ pc = "sensors"
  /\ a \in sensors
  /\ \A b \in sensors : a <= b
  /\ Destroy(a, o)
  /\ sensors' = sensors \ {a}
  /\ UNCHANGED <<pc, next, call, ego, raised, go, async, exit>>

SensorsGone ==
  /\ pc = "sensors"
  /\ sensors = {}
  /\ pc' = "ego"
  /\ UNCHANGED <<locals, exit, server, past>>

(* The ego last; then the status, or the exception.                        *)
DestroyEgo(o) ==
  /\ pc = "ego"
  /\ IF ego THEN Destroy(0, o) ELSE UNCHANGED <<server, past>>
  /\ exit' = IF raised THEN "1" ELSE "0"
  /\ pc' = "done"
  /\ UNCHANGED locals

-------------------------------------------------------------------------------
(* Signals.                                                                *)

(* SIGINT once the handler is there.                                       *)
Sigint ==
  /\ pc \notin Starting \cup {"done"}
  /\ go
  /\ go' = FALSE
  /\ UNCHANGED <<pc, next, call, ego, sensors, raised, async, exit, server, past>>

(* SIGINT before that: KeyboardInterrupt, outside the try.                 *)
Interrupted ==
  /\ pc \in Starting
  /\ pc' = "done"
  /\ exit' = "interrupted"
  /\ UNCHANGED <<locals, server, past>>

(* SIGTERM, which nothing handles, or SIGKILL: no finally runs.            *)
Killed ==
  /\ pc # "done"
  /\ pc' = "done"
  /\ exit' = "killed"
  /\ UNCHANGED <<locals, server, past>>

-------------------------------------------------------------------------------
Main ==
  \/ PreflightFails \/ Connect \/ SuppressTf \/ ApplySubsteps \/ InstallHandler
  \/ SpawnOk \/ Reraise \/ TickFails \/ LoopEnds \/ Brake \/ SensorsGone
  \/ \E o \in Outcomes : \/ SpawnFails(o) \/ Setup(o) \/ Restore(o) \/ DestroyEgo(o)
                         \/ \E a \in Actors : Unwind(a, o) \/ DestroySensor(a, o)

Next == Main \/ Sigint \/ Interrupted \/ Killed

Spec == Init /\ [][Next]_vars

(* Python runs on and every call returns within the client's timeout, so   *)
(* main() does not stand still; no tick need fail, nobody need signal.     *)
FairSpec == Spec /\ WF_vars(Main /\ pc # "loop") /\ WF_vars(LoopEnds)

-------------------------------------------------------------------------------
(* Properties.                                                             *)

Unwound == pc = "done" /\ exit # "killed"

(* __main__.py:304-312, 341-346, spawn.py:363-373: whatever failed, and    *)
(* whenever SIGINT came, no actor is left on the server but one whose      *)
(* destroy was tried and failed, or which the server made after the client *)
(* had given up on it -- nobody ever holds that one.                       *)
NeverLeaks == Unwound => actors \subseteq refused \cup orphans

(* __main__.py:341-346, "Teardown order is load-bearing": when the ego is  *)
(* destroyed, every sensor that was attached to it has gone before, or its *)
(* destroy has been tried, or nobody holds it.                             *)
SensorsBeforeEgo ==
  [][0 \in actors /\ 0 \notin actors' => actors' \subseteq refused \cup orphans]_vars

(* loop.py:66-69: no exit but a kill leaves the world in the runner's sync *)
(* mode, unless the call that gives the settings back failed, or the one   *)
(* that entered the mode, before the try, was carried out late.            *)
SettingsGivenBack == Unwound /\ settings = "ours" => kept

(* __main__.py:339: status 0 means that the whole rig was up and that a    *)
(* SIGINT, nothing else, ended the loop.                                   *)
SuccessMeansAsked == exit = "0" => ~go /\ next = Last + 1

(* The lease of the rig as main() and the spawning calls have it: held is  *)
(* what some variable still refers to and whose destroy has not been       *)
(* tried.                                                                  *)
Phase ==
  CASE pc \in Starting \cup {"spawn", "setup"} -> "taking"
    [] pc \in {"loop", "restore"} -> "using"
    [] pc \in {"unwind", "brake", "sensors", "ego"} -> "giving"
    [] OTHER -> IF exit = "killed" THEN "abandoned" ELSE "closed"

Held == call \cup sensors \cup IF ego /\ ~Unwound THEN {0} ELSE {}

Lease == INSTANCE RigLease
  WITH Root <- 0, phase <- Phase, held <- Held, world <- actors, mine <- settings = "ours"

(* __main__.py:304-358, loop.py:66-97, spawn.py:363-376: whatever call     *)
(* fails or comes late, and whenever SIGINT comes, the runner implements   *)
(* the lease of RigLease: the mode is given back before an actor is, each  *)
(* actor taken is tried once more before the end, the ego last.            *)
ImplementsLease == Lease!Spec

(* __main__.py:301-302, loop.py:66: once SIGINT has been taken, the runner *)
(* ends.                                                                   *)
SigintEnds == ~go ~> pc = "done"
===============================================================================
