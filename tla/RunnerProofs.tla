----------------------------- MODULE RunnerProofs -----------------------------
(***************************************************************************)
(* What the runner guarantees for any number of cameras.  The argument for *)
(* the actors: each one on the server is in the hands of somebody who will *)
(* still destroy it -- the spawning call, main()'s sensors, main()'s ego   *)
(* -- or its destroy has been tried, or nobody ever held it.               *)
(***************************************************************************)
EXTENDS Runner, SensorRig, TLAPS

Finally == {"brake", "sensors", "ego"}

EgoHeld == IF ego THEN {0} ELSE {}

(* Who holds what.                                                         *)
HeldInv ==
  /\ actors \subseteq refused \cup orphans \cup call \cup sensors \cup EgoHeld
  /\ pc \in Starting => actors = {}
  /\ pc \in {"setup", "loop", "restore"} \cup Finally => call = {}
  /\ pc = "ego" => sensors = {}
  /\ next = 0 => call = {}
  /\ NeverLeaks

(* How far the rig is, and what ended the loop.                            *)
RigInv ==
  /\ pc \in Starting => next = 0
  /\ pc = "spawn" => next <= Last
  /\ pc \in Starting \cup {"spawn", "setup", "loop"} => ~raised
  /\ pc \in {"setup", "loop"} => next = Last + 1
  /\ pc = "unwind" => raised
  /\ pc \in {"restore"} \cup Finally /\ ~raised => ~go /\ next = Last + 1
  /\ SuccessMeansAsked

(* Whose settings the world has.                                           *)
ModeInv ==
  /\ pc \notin {"loop", "restore", "done"} /\ settings = "ours" => kept
  /\ pc = "loop" /\ async => settings # "ours"
  /\ SettingsGivenBack

IInv == TypeOK /\ HeldInv /\ RigInv /\ ModeInv

-------------------------------------------------------------------------------
(* The rig has at least its LiDAR and its IMU.                             *)
LEMMA RigSize == Last \in Nat /\ Last >= 2 /\ Actors = 0..Last /\ 0 \in Actors
BY RunnerConstants DEF Last, Actors

(* Init.                                                                   *)
LEMMA InitInv == Init => IInv
<1> SUFFICES ASSUME Init PROVE IInv
  OBVIOUS
<1> USE DEF Init
<1>1. TypeOK
  <2>1. next \in 0..(Last + 1) /\ pc \in Steps
    BY RigSize DEF Steps, Starting
  <2> QED
    BY <2>1 DEF TypeOK
<1>2. HeldInv
  BY DEF HeldInv, NeverLeaks, Unwound, Finally
<1>3. RigInv
  BY DEF RigInv, SuccessMeansAsked, Finally
<1>4. ModeInv
  BY DEF ModeInv, SettingsGivenBack, Unwound
<1> QED
  BY <1>1, <1>2, <1>3, <1>4 DEF IInv

(* What an attempt to destroy an actor leaves, tried and counted or gone.  *)
LEMMA DestroyStep ==
  ASSUME TypeOK, NEW a \in Actors, NEW o \in Outcomes, Destroy(a, o)
  PROVE  /\ actors' \subseteq actors /\ refused \subseteq refused' /\ refused' \subseteq Actors
         /\ a \in actors' => a \in refused'
         /\ tf' = tf /\ settings' = settings /\ substeps' = substeps /\ kept' = kept /\ orphans' = orphans
BY DEF TypeOK, Destroy

(* An actor that has been spawned is in somebody's hands, and nobody lets  *)
(* go of one.                                                              *)
LEMMA SpawnStep ==
  ASSUME TypeOK, HeldInv, RigInv, SpawnOk
  PROVE  /\ next \in Actors /\ next + 1 \in 1..(Last + 1)
         /\ ego' \in BOOLEAN
         /\ sensors' \subseteq Actors \ {0}
         /\ call' \subseteq Actors \ {0}
         /\ next = Last => call' = {}
         /\ call \cup sensors \cup EgoHeld \cup {next} \subseteq call' \cup sensors' \cup EgoHeld'
<1> USE DEF SpawnOk, Spawned
<1>1. next \in Actors /\ next + 1 \in 1..(Last + 1)
  BY RigSize DEF RigInv, TypeOK
<1>2. CASE next = 0
  <2>1. sensors' = sensors /\ call' = {} /\ call = {} /\ next # Last
    BY <1>2, RigSize DEF HeldInv
  <2>2. ego' = TRUE
    BY <1>2, Zenon
  <2> QED
    BY <1>1, <1>2, <2>1, <2>2 DEF EgoHeld, TypeOK
<1>3. CASE next # 0
  <2>1. ego' = ego /\ next > 0 /\ next \in Actors \ {0}
    BY <1>1, <1>3, RigSize DEF TypeOK
  <2>2. CASE next \in {2, Last}
    <3>1. sensors' = sensors \cup call \cup {next} /\ call' = {}
      BY <2>1, <2>2
    <3> QED
      BY <1>1, <2>1, <3>1 DEF EgoHeld, TypeOK
  <2>3. CASE next \notin {2, Last}
    <3>1. sensors' = sensors /\ call' = call \cup {next} /\ next # Last
      BY <1>3, <2>1, <2>3
    <3> QED
      BY <1>1, <2>1, <3>1 DEF EgoHeld, TypeOK
  <2> QED
    BY <2>2, <2>3
<1> QED
  BY <1>2, <1>3

(* The steps that change nothing but pc, exit, raised or go.               *)
Quiet ==
  /\ pc' \in Steps
  /\ exit' \in {"none", "0", "1", "interrupted", "killed"}
  /\ raised' \in BOOLEAN
  /\ go' \in BOOLEAN
  /\ UNCHANGED <<next, call, ego, sensors, async, server, past>>

LEMMA QuietSteps ==
  ASSUME TypeOK,
         Connect \/ InstallHandler \/ Reraise \/ LoopEnds \/ TickFails \/ Brake
         \/ SensorsGone \/ Sigint \/ Interrupted \/ Killed \/ UNCHANGED vars
  PROVE  Quiet
<1> USE DEF Quiet, TypeOK, locals, Steps, Starting
<1>1. CASE Connect \/ InstallHandler
  BY <1>1 DEF Connect, InstallHandler
<1>2. CASE Reraise \/ Brake \/ SensorsGone
  BY <1>2 DEF Reraise, Brake, SensorsGone
<1>3. CASE LoopEnds \/ TickFails
  <2>1. pc' \in Steps
    BY <1>3 DEF LoopEnds, TickFails, Leave
  <2> QED
    BY <1>3, <2>1 DEF LoopEnds, TickFails
<1>4. CASE Sigint \/ Interrupted \/ Killed
  BY <1>4 DEF Sigint, Interrupted, Killed
<1>5. CASE UNCHANGED vars
  BY <1>5 DEF vars
<1> QED
  BY <1>1, <1>2, <1>3, <1>4, <1>5

LEMMA TypeStep == ASSUME TypeOK, HeldInv, RigInv, [Next]_vars PROVE TypeOK'
<1>1. CASE Quiet
  BY <1>1 DEF Quiet, TypeOK, server, past
<1>2. CASE SuppressTf
  BY <1>2 DEF SuppressTf, TypeOK, Steps, Starting, locals, past
<1>3. CASE ApplySubsteps
  BY <1>3 DEF ApplySubsteps, TypeOK, Steps, Starting, locals, past
<1>4. CASE SpawnOk
  <2>1. pc' \in Steps /\ next' \in 0..(Last + 1) /\ actors' \subseteq Actors
    BY <1>4, SpawnStep, RigSize DEF SpawnOk, TypeOK, Steps
  <2> QED
    BY <1>4, <2>1, SpawnStep DEF SpawnOk, TypeOK, past
<1>5. ASSUME NEW o \in Outcomes, SpawnFails(o) PROVE TypeOK'
  <2>1. next \in Actors
    BY <1>5, RigSize DEF SpawnFails, RigInv, TypeOK
  <2>2. actors' \subseteq Actors
    BY <1>5, <2>1 DEF SpawnFails, TypeOK
  <2> QED
    BY <1>5, <2>2 DEF SpawnFails, TypeOK, Steps, past
<1>6. ASSUME NEW o \in Outcomes, Setup(o) PROVE TypeOK'
  <2>1. pc' \in Steps /\ settings' \in {"prior", "ours", "async"} /\ raised' \in BOOLEAN
    BY <1>6 DEF Setup, TypeOK, Steps
  <2> QED
    BY <1>6, <2>1 DEF Setup, TypeOK, past
<1>7. ASSUME NEW o \in Outcomes, Restore(o) PROVE TypeOK'
  <2>1. pc' \in Steps /\ settings' \in {"prior", "ours", "async"} /\ raised' \in BOOLEAN
        /\ kept' \in BOOLEAN
    BY <1>7 DEF Restore, TypeOK, Steps
  <2> QED
    BY <1>7, <2>1 DEF Restore, TypeOK
<1>8. ASSUME NEW o \in Outcomes, DestroyEgo(o) PROVE TypeOK'
  <2>1. actors' \subseteq Actors /\ refused' \subseteq Actors /\ tf' = tf /\ settings' = settings
        /\ substeps' = substeps /\ kept' = kept /\ orphans' = orphans
    BY <1>8, RigSize, DestroyStep DEF DestroyEgo, server, past, TypeOK
  <2>2. pc' \in Steps /\ exit' \in {"0", "1"}
    BY <1>8 DEF DestroyEgo, Steps
  <2> QED
    BY <1>8, <2>1, <2>2 DEF DestroyEgo, locals, TypeOK
<1>9. ASSUME NEW o \in Outcomes, NEW a \in Actors, Unwind(a, o) PROVE TypeOK'
  <2>1. actors' \subseteq Actors /\ refused' \subseteq Actors /\ tf' = tf /\ settings' = settings
        /\ substeps' = substeps /\ kept' = kept /\ orphans' = orphans
    BY <1>9, DestroyStep DEF Unwind, TypeOK
  <2> QED
    BY <1>9, <2>1 DEF Unwind, TypeOK
<1>10. ASSUME NEW o \in Outcomes, NEW a \in Actors, DestroySensor(a, o) PROVE TypeOK'
  <2>1. actors' \subseteq Actors /\ refused' \subseteq Actors /\ tf' = tf /\ settings' = settings
        /\ substeps' = substeps /\ kept' = kept /\ orphans' = orphans
    BY <1>10, DestroyStep DEF DestroySensor, TypeOK
  <2> QED
    BY <1>10, <2>1 DEF DestroySensor, TypeOK
<1>11. CASE PreflightFails
  <2>1. pc' \in Steps /\ exit' = "1" /\ tf' \in BOOLEAN /\ substeps' \in {"prior", "ours"}
    BY <1>11 DEF PreflightFails, TypeOK, Steps
  <2> QED
    BY <1>11, <2>1 DEF PreflightFails, TypeOK, locals, past
<1> QED
  BY <1>1, <1>2, <1>3, <1>4, <1>5, <1>6, <1>7, <1>8, <1>9, <1>10, <1>11, QuietSteps DEF Next, Main

(* Every actor stays in somebody's hands until its destroy is tried.       *)
LEMMA HeldStep ==
  ASSUME TypeOK, HeldInv, RigInv, [Next]_vars
  PROVE  HeldInv'
<1> USE DEF HeldInv, NeverLeaks, Unwound, EgoHeld, Starting, Finally
<1>1. CASE PreflightFails \/ Interrupted
  BY <1>1 DEF PreflightFails, Interrupted, locals, server, past
<1>2. CASE Connect \/ InstallHandler
  BY <1>2 DEF Connect, InstallHandler, locals, server, past
<1>3. CASE SuppressTf \/ ApplySubsteps
  BY <1>3 DEF SuppressTf, ApplySubsteps, locals, past
<1>4. CASE SpawnOk
  <2>1. actors' \subseteq refused' \cup orphans' \cup call' \cup sensors' \cup EgoHeld'
    <3>1. actors' \subseteq refused \cup orphans \cup call \cup sensors \cup EgoHeld \cup {next} /\ refused' = refused /\ orphans' = orphans
      BY <1>4 DEF SpawnOk, past
    <3> QED
      BY <1>4, <3>1, SpawnStep
  <2>2. next' # 0 /\ pc' \in {"spawn", "setup"} /\ (pc' = "setup" => call' = {})
    BY <1>4, SpawnStep DEF SpawnOk, TypeOK
  <2> QED
    BY <2>1, <2>2
<1>5. ASSUME NEW o \in Outcomes, SpawnFails(o) PROVE HeldInv'
  BY <1>5 DEF SpawnFails, past
<1>6. CASE Reraise
  BY <1>6 DEF Reraise, locals, server, past
<1>7. ASSUME NEW o \in Outcomes, Setup(o) PROVE HeldInv'
  <2>1. pc' \in {"loop", "brake"} /\ call = {}
    BY <1>7 DEF Setup
  <2> QED
    BY <1>7, <2>1 DEF Setup, past
<1>8. CASE LoopEnds \/ TickFails
  <2>1. pc' \in {"restore", "brake"} /\ call = {}
    BY <1>8 DEF LoopEnds, TickFails, Leave
  <2> QED
    BY <1>8, <2>1 DEF LoopEnds, TickFails, locals, server, past
<1>9. ASSUME NEW o \in Outcomes, Restore(o) PROVE HeldInv'
  BY <1>9 DEF Restore
<1>10. CASE Brake \/ SensorsGone
  BY <1>10 DEF Brake, SensorsGone, locals, server, past
<1>11. ASSUME NEW o \in Outcomes, DestroyEgo(o) PROVE HeldInv'
  <2>1. actors \subseteq refused \cup orphans \cup EgoHeld /\ pc' = "done" /\ call' = call /\ call = {}
        /\ sensors' = sensors /\ ego' = ego /\ next' = next
    BY <1>11 DEF DestroyEgo, locals
  <2>2. CASE ego
    <3>1. actors' \subseteq refused' \cup orphans'
      BY <1>11, <2>1, <2>2, RigSize, DestroyStep DEF DestroyEgo
    <3> QED
      BY <2>1, <3>1
  <2>3. CASE ~ego
    BY <1>11, <2>1, <2>3 DEF DestroyEgo, server, past
  <2> QED
    BY <2>2, <2>3
<1>12. ASSUME NEW o \in Outcomes, NEW a \in Actors, Unwind(a, o) PROVE HeldInv'
  <2>1. /\ actors' \subseteq actors /\ refused \subseteq refused' /\ orphans' = orphans
        /\ a \in actors' => a \in refused'
    BY <1>12, DestroyStep DEF Unwind
  <2> QED
    BY <1>12, <2>1 DEF Unwind
<1>13. ASSUME NEW o \in Outcomes, NEW a \in Actors, DestroySensor(a, o) PROVE HeldInv'
  <2>1. /\ actors' \subseteq actors /\ refused \subseteq refused' /\ orphans' = orphans
        /\ a \in actors' => a \in refused'
    BY <1>13, DestroyStep DEF DestroySensor
  <2> QED
    BY <1>13, <2>1 DEF DestroySensor
<1>14. CASE Sigint
  BY <1>14 DEF Sigint, server, past
<1>15. CASE Killed
  BY <1>15 DEF Killed, locals, server, past
<1>16. CASE UNCHANGED vars
  BY <1>16 DEF vars, server, past
<1> QED
  BY <1>1, <1>2, <1>3, <1>4, <1>5, <1>6, <1>7, <1>8, <1>9, <1>10, <1>11, <1>12, <1>13, <1>14, <1>15,
     <1>16 DEF Next, Main

(* The rig is complete when the loop starts, and only SIGINT ends it well. *)
LEMMA RigStep == ASSUME TypeOK, HeldInv, RigInv, [Next]_vars PROVE RigInv'
<1> USE DEF RigInv, SuccessMeansAsked, Starting, Finally
<1>1. CASE PreflightFails \/ Interrupted \/ Killed
  BY <1>1 DEF PreflightFails, Interrupted, Killed, locals, TypeOK
<1>2. CASE Connect \/ InstallHandler \/ SuppressTf \/ ApplySubsteps
  BY <1>2, RigSize DEF Connect, InstallHandler, SuppressTf, ApplySubsteps, locals, TypeOK
<1>3. CASE SpawnOk
  <2>1. next <= Last /\ next' = next + 1 /\ raised' = raised /\ exit' = exit /\ go' = go /\ ~raised
    BY <1>3 DEF SpawnOk
  <2>2. pc' \in {"spawn", "setup"} /\ (pc' = "setup" <=> next = Last)
    BY <1>3 DEF SpawnOk
  <2> QED
    BY <1>3, <2>1, <2>2, RigSize DEF TypeOK, SpawnOk
<1>4. ASSUME NEW o \in Outcomes, SpawnFails(o) PROVE RigInv'
  BY <1>4 DEF SpawnFails
<1>5. CASE Reraise
  BY <1>5 DEF Reraise, locals
<1>6. ASSUME NEW o \in Outcomes, Setup(o) PROVE RigInv'
  <2>1. next = Last + 1 /\ next' = next /\ exit' = exit /\ go' = go
    BY <1>6 DEF Setup
  <2>2. (pc' = "loop" /\ ~raised') \/ (pc' = "brake" /\ raised')
    BY <1>6 DEF Setup
  <2> QED
    BY <2>1, <2>2
<1>7. CASE LoopEnds \/ TickFails
  <2>1. pc' \in {"restore", "brake"} /\ next = Last + 1
    BY <1>7 DEF LoopEnds, TickFails, Leave
  <2> QED
    BY <1>7, <2>1 DEF LoopEnds, TickFails, locals
<1>8. ASSUME NEW o \in Outcomes, Restore(o) PROVE RigInv'
  BY <1>8 DEF Restore
<1>9. CASE Brake \/ SensorsGone
  BY <1>9 DEF Brake, SensorsGone, locals
<1>10. ASSUME NEW o \in Outcomes, DestroyEgo(o) PROVE RigInv'
  BY <1>10 DEF DestroyEgo, locals
<1>11. ASSUME NEW o \in Outcomes, NEW a \in Actors, Unwind(a, o) \/ DestroySensor(a, o) PROVE RigInv'
  BY <1>11 DEF Unwind, DestroySensor
<1>12. CASE Sigint
  BY <1>12 DEF Sigint
<1>13. CASE UNCHANGED vars
  BY <1>13 DEF vars
<1> QED
  BY <1>1, <1>2, <1>3, <1>4, <1>5, <1>6, <1>7, <1>8, <1>9, <1>10, <1>11, <1>12, <1>13 DEF Next, Main

(* Only the sync loop and its finally hold the world in the runner's mode. *)
LEMMA ModeStep ==
  ASSUME TypeOK, ModeInv, [Next]_vars
  PROVE  ModeInv'
<1> USE DEF ModeInv, SettingsGivenBack, Unwound
<1>1. CASE PreflightFails \/ Interrupted \/ Killed
  BY <1>1 DEF PreflightFails, Interrupted, Killed, locals, server, past, Starting
<1>2. CASE Connect \/ InstallHandler \/ SuppressTf \/ ApplySubsteps
  BY <1>2 DEF Connect, InstallHandler, SuppressTf, ApplySubsteps, locals, server, past
<1>3. CASE SpawnOk
  BY <1>3 DEF SpawnOk, past
<1>4. ASSUME NEW o \in Outcomes, SpawnFails(o) PROVE ModeInv'
  BY <1>4 DEF SpawnFails, past
<1>5. CASE Reraise \/ Brake \/ SensorsGone
  BY <1>5 DEF Reraise, Brake, SensorsGone, locals, server, past
<1>6. ASSUME NEW o \in Outcomes, Setup(o) PROVE ModeInv'
  <2>1. CASE o = "ok"
    BY <1>6, <2>1 DEF Setup, past
  <2>2. CASE o = "failed"
    <3>1. pc' = "brake" /\ settings' = settings /\ kept' = kept
      BY <1>6, <2>2 DEF Setup, TypeOK
    <3> QED
      BY <1>6, <3>1 DEF Setup
  <2>3. CASE o = "late"
    <3>1. pc' = "brake" /\ kept' = TRUE
      BY <1>6, <2>3 DEF Setup
    <3> QED
      BY <3>1
  <2> QED
    BY <1>6, <2>1, <2>2, <2>3 DEF Outcomes
<1>7. CASE LoopEnds \/ TickFails
  BY <1>7 DEF LoopEnds, TickFails, Leave, locals, server, past
<1>8. ASSUME NEW o \in Outcomes, Restore(o) PROVE ModeInv'
  BY <1>8 DEF Restore
<1>9. ASSUME NEW o \in Outcomes, DestroyEgo(o) PROVE ModeInv'
  <2>1. settings' = settings /\ kept' = kept /\ orphans' = orphans /\ pc = "ego" /\ pc' = "done"
    BY <1>9, RigSize, DestroyStep DEF DestroyEgo, server, past
  <2> QED
    BY <2>1
<1>10. ASSUME NEW o \in Outcomes, NEW a \in Actors, Unwind(a, o) \/ DestroySensor(a, o) PROVE ModeInv'
  <2>1. settings' = settings /\ kept' = kept /\ orphans' = orphans /\ pc' = pc /\ async' = async /\ pc \in {"unwind", "sensors"}
    BY <1>10, DestroyStep DEF Unwind, DestroySensor
  <2> QED
    BY <2>1
<1>11. CASE Sigint
  BY <1>11 DEF Sigint, server, past
<1>12. CASE UNCHANGED vars
  BY <1>12 DEF vars, server, past
<1> QED
  BY <1>1, <1>2, <1>3, <1>4, <1>5, <1>6, <1>7, <1>8, <1>9, <1>10, <1>11, <1>12 DEF Next, Main

-------------------------------------------------------------------------------
(* The inductive invariant holds of the runner, whatever the number of     *)
(* cameras, and whether or not a call that failed was carried out.         *)
THEOREM Invariance == Spec => []IInv
<1>1. IInv /\ [Next]_vars => IInv'
  BY TypeStep, HeldStep, RigStep, ModeStep DEF IInv
<1> QED
  BY <1>1, InitInv, PTL DEF Spec

(* main() and the loops keep the types of their state (runner/__main__.py, *)
(* loop.py, spawn.py).                                                     *)
THEOREM TypeCorrect == Spec => []TypeOK
BY Invariance, PTL DEF IInv

(* runner/__main__.py:341-358: the finally leaves no actor on the server   *)
(* but those whose destroy was tried and failed, or that nobody ever held. *)
THEOREM NoActorLeaks == Spec => []NeverLeaks
BY Invariance, PTL DEF IInv, HeldInv

(* runner/loop.py:94-97: the world gets its settings back on every exit    *)
(* but a kill, unless giving them back is what failed, or the mode was     *)
(* entered late.                                                           *)
THEOREM WorldRestored == Spec => []SettingsGivenBack
BY Invariance, PTL DEF IInv, ModeInv

(* runner/__main__.py:339: status 0 is a full rig and a SIGINT.            *)
THEOREM StatusZero == Spec => []SuccessMeansAsked
BY Invariance, PTL DEF IInv, RigInv

(* runner/__main__.py:349-358: the ego goes after its sensors.             *)
THEOREM EgoGoesLast == Spec => SensorsBeforeEgo
<1> DEFINE LastOfAll == 0 \in actors /\ 0 \notin actors' => actors' \subseteq refused \cup orphans
<1>1. ASSUME IInv, Next PROVE LastOfAll
  <2> SUFFICES ASSUME 0 \in actors, 0 \notin actors' PROVE actors' \subseteq refused \cup orphans
    OBVIOUS
  <2>1. PICK o \in Outcomes :
          DestroyEgo(o) \/ \E a \in Actors : Unwind(a, o) \/ DestroySensor(a, o)
    BY <1>1 DEF Next, Main, PreflightFails, Connect, SuppressTf, ApplySubsteps, InstallHandler,
       SpawnOk, Reraise, TickFails, LoopEnds, Brake, SensorsGone, SpawnFails, Setup, Restore, Sigint,
       Interrupted, Killed, server
  <2>2. ASSUME NEW a \in Actors, Unwind(a, o) \/ DestroySensor(a, o) PROVE FALSE
    <3>1. a # 0
      BY <1>1, <2>2 DEF Unwind, DestroySensor, IInv, TypeOK
    <3> QED
      BY <2>2, <3>1 DEF Unwind, DestroySensor, Destroy
  <2>3. DestroyEgo(o)
    BY <2>1, <2>2
  <2>4. actors \subseteq refused \cup orphans \cup {0}
    BY <1>1, <2>3 DEF DestroyEgo, IInv, HeldInv, EgoHeld, Finally
  <2> QED
    BY <1>1, <2>3, <2>4 DEF DestroyEgo, Destroy, server
<1>2. IInv /\ [Next]_vars => [LastOfAll]_vars
  BY <1>1
<1> QED
  BY <1>2, Invariance, PTL DEF SensorsBeforeEgo, Spec

-------------------------------------------------------------------------------
(* The refinement of RigLease.  Its Take, Enter and Give need that what is *)
(* held is a prefix of the rig while it is being spawned, and that the     *)
(* spawning call and main() never hold the same sensor.                    *)
LeaseInv ==
  /\ pc \in Starting \cup {"spawn", "setup"} => call \cup sensors \cup EgoHeld = 0..(next - 1)
  /\ call \cap sensors = {}

LEMMA SpawnKeepsPrefix ==
  ASSUME TypeOK, HeldInv, RigInv, LeaseInv, SpawnOk
  PROVE  /\ call \cup sensors \cup EgoHeld = 0..(next - 1)
         /\ call' \cup sensors' \cup EgoHeld' = 0..next
         /\ call' \cap sensors' = {}
<1> USE DEF SpawnOk, Spawned
<1>1. next \in Nat /\ call \cup sensors \cup EgoHeld = 0..(next - 1) /\ next \notin call
      /\ next \notin sensors
  BY DEF LeaseInv, TypeOK
<1>2. 0..next = 0..(next - 1) \cup {next}
  BY <1>1
<1>3. CASE next = 0
  <2>1. sensors' = sensors /\ call' = {} /\ call = {}
    BY <1>3, RigSize DEF HeldInv
  <2>2. ego' = TRUE
    BY <1>3, Zenon
  <2>3. sensors = {} /\ EgoHeld = {} /\ EgoHeld' = {0}
    BY <1>1, <1>3, <2>2 DEF EgoHeld
  <2> QED
    BY <1>1, <1>3, <2>1, <2>3
<1>4. CASE next # 0
  <2>1. ego' = ego /\ next > 0 /\ EgoHeld' = EgoHeld
    BY <1>1, <1>4 DEF TypeOK, EgoHeld
  <2>2. CASE next \in {2, Last}
    BY <1>1, <1>2, <2>1, <2>2
  <2>3. CASE next \notin {2, Last}
    <3>1. sensors' = sensors /\ call' = call \cup {next}
      BY <1>4, <2>3
    <3> QED
      BY <1>1, <1>2, <2>1, <3>1 DEF LeaseInv
  <2> QED
    BY <2>2, <2>3
<1> QED
  BY <1>1, <1>3, <1>4

LEMMA LeaseStep == ASSUME TypeOK, HeldInv, RigInv, LeaseInv, [Next]_vars PROVE LeaseInv'
<1> USE DEF LeaseInv, EgoHeld, Starting
<1>1. CASE PreflightFails \/ Interrupted \/ Killed
  BY <1>1 DEF PreflightFails, Interrupted, Killed, locals
<1>2. CASE Connect \/ InstallHandler \/ SuppressTf \/ ApplySubsteps
  BY <1>2 DEF Connect, InstallHandler, SuppressTf, ApplySubsteps, locals
<1>3. CASE SpawnOk
  <2>1. next' - 1 = next
    BY <1>3 DEF SpawnOk, TypeOK
  <2> QED
    BY <1>3, <2>1, SpawnKeepsPrefix
<1>4. ASSUME NEW o \in Outcomes, SpawnFails(o) PROVE LeaseInv'
  BY <1>4 DEF SpawnFails
<1>5. CASE Reraise \/ Brake \/ SensorsGone
  BY <1>5 DEF Reraise, Brake, SensorsGone, locals
<1>6. ASSUME NEW o \in Outcomes, Setup(o) PROVE LeaseInv'
  <2>1. pc' \in {"loop", "brake"}
    BY <1>6 DEF Setup
  <2> QED
    BY <1>6, <2>1 DEF Setup
<1>7. CASE LoopEnds \/ TickFails
  <2>1. pc' \in {"restore", "brake"}
    BY <1>7 DEF LoopEnds, TickFails, Leave
  <2> QED
    BY <1>7, <2>1 DEF LoopEnds, TickFails, locals
<1>8. ASSUME NEW o \in Outcomes, Restore(o) PROVE LeaseInv'
  BY <1>8 DEF Restore
<1>9. ASSUME NEW o \in Outcomes, DestroyEgo(o) PROVE LeaseInv'
  BY <1>9 DEF DestroyEgo, locals
<1>10. ASSUME NEW o \in Outcomes, NEW a \in Actors, Unwind(a, o) \/ DestroySensor(a, o)
       PROVE  LeaseInv'
  BY <1>10 DEF Unwind, DestroySensor
<1>11. CASE Sigint
  BY <1>11 DEF Sigint
<1>12. CASE UNCHANGED vars
  BY <1>12 DEF vars
<1> QED
  BY <1>1, <1>2, <1>3, <1>4, <1>5, <1>6, <1>7, <1>8, <1>9, <1>10, <1>11, <1>12 DEF Next, Main

(* The phases of the lease, and what is held, by pc: before and after a    *)
(* step.                                                                   *)
LEMMA LeaseView ==
  ASSUME pc \in Steps, pc' \in Steps
  PROVE  /\ /\ Phase = "taking" <=> pc \in Starting \cup {"spawn", "setup"}
            /\ Phase = "using" <=> pc \in {"loop", "restore"}
            /\ Phase = "giving" <=> pc \in {"unwind", "brake", "sensors", "ego"}
            /\ pc = "done" => Phase \in {"closed", "abandoned"}
         /\ /\ Phase' = "taking" <=> pc' \in Starting \cup {"spawn", "setup"}
            /\ Phase' = "using" <=> pc' \in {"loop", "restore"}
            /\ Phase' = "giving" <=> pc' \in {"unwind", "brake", "sensors", "ego"}
            /\ Phase' = "closed" <=> pc' = "done" /\ exit' # "killed"
            /\ Phase' = "abandoned" <=> pc' = "done" /\ exit' = "killed"
         /\ pc # "done" => Held = call \cup sensors \cup EgoHeld
         /\ ~(pc' = "done" /\ exit' # "killed") => Held' = call' \cup sensors' \cup EgoHeld'
         /\ pc' = "done" /\ exit' # "killed" => Held' = call' \cup sensors'
BY DEF Phase, Held, EgoHeld, Unwound, Steps, Starting

(* Every step of the runner is a step of the lease, or none.               *)
LEMMA StepIsLeased ==
  ASSUME IInv, LeaseInv, IInv', [Next]_vars
  PROVE  [Lease!Next]_(Lease!lease)
<1> USE LeaseView DEF Starting
<1>0. TypeOK /\ HeldInv /\ RigInv /\ ModeInv /\ pc \in Steps /\ pc' \in Steps
  BY DEF IInv, TypeOK
<1> DEFINE Mine == settings = "ours"
<1>1. CASE PreflightFails \/ Interrupted
  <2>1. Lease!Decline
    <3>1. Held = {} /\ call = {} /\ sensors = {}
      BY <1>0, <1>1 DEF PreflightFails, Interrupted, LeaseInv, RigInv
    <3> QED
      BY <1>0, <1>1, <3>1 DEF PreflightFails, Interrupted, locals, server, past, Lease!Decline
  <2> QED
    BY <2>1 DEF Lease!Next
<1>2. CASE Connect \/ InstallHandler \/ SuppressTf \/ ApplySubsteps
  BY <1>0, <1>2 DEF Connect, InstallHandler, SuppressTf, ApplySubsteps, locals, server, past,
     EgoHeld, Lease!lease
<1>3. CASE SpawnOk
  <2>1. next \in Actors
    BY <1>0, <1>3, SpawnStep
  <2>2. pc' \in {"spawn", "setup"} /\ actors' = actors \cup {next} /\ settings' = settings
        /\ kept' = kept
    BY <1>3 DEF SpawnOk, past
  <2>3. Held = 0..(next - 1) /\ Held' = 0..next
    BY <1>0, <1>3, <2>2, SpawnKeepsPrefix DEF SpawnOk
  <2>4. Held' = Held \cup {next} /\ (next = 0 <=> Held = {})
    BY <1>0, <2>3 DEF TypeOK
  <2>5. Lease!Take(next)
    BY <1>0, <1>3, <2>2, <2>4 DEF SpawnOk, Lease!Take
  <2> QED
    BY <2>1, <2>5 DEF Lease!Next
<1>4. ASSUME NEW o \in Outcomes, SpawnFails(o) PROVE Lease!Next
  <2>1. next \in Actors
    BY <1>0, <1>4, RigSize DEF SpawnFails, RigInv, TypeOK
  <2>2. Lease!Miss(next)
    BY <1>0, <1>4 DEF SpawnFails, EgoHeld, Lease!Miss
  <2> QED
    BY <2>1, <2>2 DEF Lease!Next
<1>5. CASE Reraise \/ Brake \/ SensorsGone
  BY <1>0, <1>5 DEF Reraise, Brake, SensorsGone, locals, server, past, EgoHeld, Lease!lease
<1>6. ASSUME NEW o \in Outcomes, Setup(o) PROVE Lease!Next
  <2>1. Held = Actors /\ Held' = Held
    <3>1. pc' \in {"loop", "brake"} /\ next = Last + 1
      BY <1>0, <1>6 DEF Setup, RigInv
    <3>2. next - 1 = Last
      BY <3>1, RigSize
    <3> QED
      BY <1>0, <1>6, <3>1, <3>2, RigSize DEF Setup, LeaseInv, EgoHeld
  <2>2. pc' = "brake" /\ settings' = "ours" => kept'
    BY <1>0, <1>6 DEF Setup, ModeInv, Outcomes
  <2>3. kept' \in BOOLEAN /\ pc' \in {"loop", "brake"} /\ Mine' \in BOOLEAN
    BY <1>6 DEF Setup, IInv, TypeOK
  <2>4. Lease!Enter
    BY <1>0, <1>6, <2>1, <2>2, <2>3 DEF Setup, Lease!Enter
  <2> QED
    BY <2>4 DEF Lease!Next
<1>7. CASE LoopEnds \/ TickFails
  <2>1. Held' = Held /\ UNCHANGED <<actors, settings, kept>>
    <3>1. pc' \in {"restore", "brake"}
      BY <1>7 DEF LoopEnds, TickFails, Leave
    <3> QED
      BY <1>0, <1>7, <3>1 DEF LoopEnds, TickFails, locals, server, past, EgoHeld
  <2>2. CASE async
    <3>1. Lease!Leave
      BY <1>0, <1>7, <2>1, <2>2 DEF LoopEnds, TickFails, Leave, ModeInv, TypeOK, Lease!Leave
    <3> QED
      BY <3>1 DEF Lease!Next
  <2>3. CASE ~async
    BY <1>0, <1>7, <2>1, <2>3 DEF LoopEnds, TickFails, Leave, Lease!lease
  <2> QED
    BY <2>2, <2>3
<1>8. ASSUME NEW o \in Outcomes, Restore(o) PROVE Lease!Next
  <2>1. kept' \in BOOLEAN /\ Mine' \in {FALSE, Mine} /\ (Mine' => kept')
    BY <1>8 DEF Restore, IInv, TypeOK
  <2>2. Lease!Leave
    BY <1>0, <1>8, <2>1 DEF Restore, EgoHeld, Lease!Leave
  <2> QED
    BY <2>2 DEF Lease!Next
<1>9. ASSUME NEW o \in Outcomes, DestroyEgo(o) PROVE Lease!Next
  <2>1. /\ Held = EgoHeld /\ Held' = {}
        /\ Phase = "giving" /\ Phase' = "closed"
    BY <1>0, <1>9 DEF DestroyEgo, locals, HeldInv, Finally
  <2>2. actors' \in {actors, actors \ EgoHeld} /\ UNCHANGED <<settings, kept>>
    BY <1>9 DEF DestroyEgo, Destroy, EgoHeld, server, past
  <2>3. Lease!Close
    BY <2>1, <2>2 DEF EgoHeld, Lease!Close
  <2> QED
    BY <2>3 DEF Lease!Next
<1>10. ASSUME NEW o \in Outcomes, NEW a \in Actors, Unwind(a, o) \/ DestroySensor(a, o)
       PROVE  Lease!Next
  <2>1. /\ actors' \in {actors, actors \ {a}} /\ UNCHANGED <<settings, kept>>
        /\ Phase = "giving" /\ Phase' = "giving"
    BY <1>0, <1>10 DEF Unwind, DestroySensor, Destroy
  <2>2. a # 0 /\ EgoHeld' = EgoHeld /\ a \notin EgoHeld
    BY <1>0, <1>10 DEF Unwind, DestroySensor, TypeOK, EgoHeld
  <2>3. Held' = Held \ {a} /\ a \in Held
    BY <1>0, <1>10, <2>2 DEF Unwind, DestroySensor, HeldInv, Finally, LeaseInv
  <2>4. Lease!Give(a)
    BY <2>1, <2>2, <2>3 DEF Lease!Give
  <2> QED
    BY <2>4 DEF Lease!Next
<1>11. CASE Sigint
  BY <1>0, <1>11 DEF Sigint, Phase, Held, Unwound, server, past, Lease!lease
<1>12. CASE Killed
  <2>1. Lease!Abandon
    BY <1>0, <1>12 DEF Killed, locals, server, past, EgoHeld, Steps, Lease!Abandon
  <2> QED
    BY <2>1 DEF Lease!Next
<1>13. CASE UNCHANGED vars
  BY <1>13 DEF vars, Phase, Held, Unwound, server, past, Lease!lease
<1> QED
  BY <1>1, <1>2, <1>3, <1>4, <1>5, <1>6, <1>7, <1>8, <1>9, <1>10, <1>11, <1>12, <1>13 DEF Next, Main

(* runner/__main__.py:304-358, loop.py:66-97, spawn.py:363-376: for any    *)
(* number of cameras the runner implements the lease, step by step.        *)
THEOREM RunnerImplementsLease == Spec => ImplementsLease
<1>1. Init => LeaseInv /\ Lease!Init
  BY DEF Init, LeaseInv, EgoHeld, Lease!Init, Phase, Held, Starting
<1>2. IInv /\ LeaseInv /\ [Next]_vars => LeaseInv'
  BY LeaseStep DEF IInv
<1>3. IInv /\ LeaseInv /\ IInv' /\ [Next]_vars => [Lease!Next]_(Lease!lease)
  BY StepIsLeased
<1> QED
  BY <1>1, <1>2, <1>3, Invariance, PTL DEF Spec, ImplementsLease, Lease!Spec

-------------------------------------------------------------------------------
(***************************************************************************)
(* kit.py, for every offset and every pair of mountings.  The composed     *)
(* matrix is a rotation by right angles; the angles that are taken from it *)
(* give it back, and with pitch and yaw reversed they make its mirror      *)
(* image.                                                                  *)
(***************************************************************************)

(* Cosine and sine of a multiple of a right angle.                         *)
OnCircle(c, s) == \/ c = 1 /\ s = 0
                  \/ c = 0 /\ s = 1
                  \/ c = -1 /\ s = 0
                  \/ c = 0 /\ s = -1

(* A rotation by right angles: every row is an axis, forwards or           *)
(* backwards, and the three of them are right-handed.                      *)
OnAxis(a1, a2, a3) == \/ OnCircle(a1, a2) /\ a3 = 0
                      \/ a1 = 0 /\ a2 = 0 /\ a3 \in {-1, 1}
Cross(a1, a2, a3, b1, b2, b3, c1, c2, c3) ==
  /\ c1 = a2 * b3 - a3 * b2
  /\ c2 = a3 * b1 - a1 * b3
  /\ c3 = a1 * b2 - a2 * b1
Turn(a1, a2, a3, b1, b2, b3, c1, c2, c3) ==
  /\ OnAxis(a1, a2, a3) /\ OnAxis(b1, b2, b3) /\ OnAxis(c1, c2, c3)
  /\ Cross(a1, a2, a3, b1, b2, b3, c1, c2, c3)
  /\ Cross(b1, b2, b3, c1, c2, c3, a1, a2, a3)
  /\ Cross(c1, c2, c3, a1, a2, a3, b1, b2, b3)
IsTurn(m) == Turn(m[1][1], m[1][2], m[1][3], m[2][1], m[2][2], m[2][3], m[3][1], m[3][2], m[3][3])

(* Cosine and sine at a multiple of a right angle, and of the opposite one.*)
LEMMA Trig ==
  ASSUME NEW a \in Int
  PROVE  /\ Cos(a) \in Int /\ Sin(a) \in Int /\ OnCircle(Cos(a), Sin(a))
         /\ Cos(-a) = Cos(a) /\ Sin(-a) = -Sin(a)
BY DEF Cos, Sin, OnCircle

(* The cross product of two vectors in the other order.                    *)
LEMMA CrossSwap ==
  ASSUME NEW a1 \in Int, NEW a2 \in Int, NEW a3 \in Int, NEW b1 \in Int, NEW b2 \in Int,
         NEW b3 \in Int, NEW c1 \in Int, NEW c2 \in Int, NEW c3 \in Int,
         Cross(a1, a2, a3, b1, b2, b3, c1, c2, c3)
  PROVE  /\ Cross(b1, b2, b3, -a1, -a2, -a3, c1, c2, c3)
         /\ Cross(-b1, -b2, -b3, a1, a2, a3, c1, c2, c3)
         /\ Cross(b1, b2, b3, a1, a2, a3, -c1, -c2, -c3)
BY DEF Cross

(* An axis backwards is an axis.                                           *)
LEMMA AxisBack ==
  ASSUME NEW a1 \in Int, NEW a2 \in Int, NEW a3 \in Int, OnAxis(a1, a2, a3)
  PROVE  OnAxis(-a1, -a2, -a3)
BY DEF OnAxis, OnCircle

(* A quarter turn about the first axis.                                    *)
LEMMA Quarter ==
  ASSUME NEW a1 \in Int, NEW a2 \in Int, NEW a3 \in Int, NEW b1 \in Int, NEW b2 \in Int,
         NEW b3 \in Int, NEW c1 \in Int, NEW c2 \in Int, NEW c3 \in Int,
         Turn(a1, a2, a3, b1, b2, b3, c1, c2, c3)
  PROVE  Turn(a1, a2, a3, -c1, -c2, -c3, b1, b2, b3)
<1>1. OnAxis(a1, a2, a3) /\ OnAxis(b1, b2, b3) /\ OnAxis(-c1, -c2, -c3)
  BY AxisBack DEF Turn
<1>2. Cross(b1, b2, b3, a1, a2, a3, -c1, -c2, -c3)
  BY CrossSwap DEF Turn
<1>3. Cross(-c1, -c2, -c3, b1, b2, b3, a1, a2, a3)
  BY CrossSwap DEF Turn
<1>4. Cross(a1, a2, a3, -c1, -c2, -c3, b1, b2, b3)
  BY CrossSwap DEF Turn
<1> QED
  BY <1>1, <1>2, <1>3, <1>4 DEF Turn

(* Any turn about the first axis.                                          *)
LEMMA TurnOn ==
  ASSUME NEW a1 \in Int, NEW a2 \in Int, NEW a3 \in Int, NEW b1 \in Int, NEW b2 \in Int,
         NEW b3 \in Int, NEW c1 \in Int, NEW c2 \in Int, NEW c3 \in Int,
         Turn(a1, a2, a3, b1, b2, b3, c1, c2, c3),
         NEW c \in Int, NEW s \in Int, OnCircle(c, s)
  PROVE  Turn(a1, a2, a3, c * b1 - s * c1, c * b2 - s * c2, c * b3 - s * c3,
              s * b1 + c * c1, s * b2 + c * c2, s * b3 + c * c3)
<1>1. PICK d1 \in Int, d2 \in Int, d3 \in Int, n1 \in Int, n2 \in Int, n3 \in Int :
        d1 = -b1 /\ d2 = -b2 /\ d3 = -b3 /\ n1 = -c1 /\ n2 = -c2 /\ n3 = -c3
  OBVIOUS
<1>2. Turn(a1, a2, a3, n1, n2, n3, b1, b2, b3)
  BY <1>1, Quarter
<1>3. Turn(a1, a2, a3, d1, d2, d3, n1, n2, n3)
  BY <1>1, <1>2, Quarter
<1>4. Turn(a1, a2, a3, c1, c2, c3, d1, d2, d3)
  <2>1. Turn(a1, a2, a3, -n1, -n2, -n3, d1, d2, d3)
    BY <1>3, Quarter
  <2>2. -n1 = c1 /\ -n2 = c2 /\ -n3 = c3
    BY <1>1
  <2> QED
    BY <2>1, <2>2
<1> QED
  BY <1>1, <1>2, <1>3, <1>4 DEF OnCircle

(* A turn about each axis, and then their product.                         *)
LEMMA TurnAbout ==
  ASSUME NEW m, IsTurn(m), NEW c \in Int, NEW s \in Int, OnCircle(c, s)
  PROVE  /\ IsTurn(<<[j \in Axes |-> m[1][j]],
                     [j \in Axes |-> c * m[2][j] - s * m[3][j]],
                     [j \in Axes |-> s * m[2][j] + c * m[3][j]]>>)
         /\ IsTurn(<<[j \in Axes |-> c * m[1][j] + s * m[3][j]],
                     [j \in Axes |-> m[2][j]],
                     [j \in Axes |-> c * m[3][j] - s * m[1][j]]>>)
         /\ IsTurn(<<[j \in Axes |-> c * m[1][j] - s * m[2][j]],
                     [j \in Axes |-> s * m[1][j] + c * m[2][j]],
                     [j \in Axes |-> m[3][j]]>>)
<1>1. PICK a1 \in Int, a2 \in Int, a3 \in Int, b1 \in Int, b2 \in Int, b3 \in Int,
           c1 \in Int, c2 \in Int, c3 \in Int :
        /\ a1 = m[1][1] /\ a2 = m[1][2] /\ a3 = m[1][3] /\ b1 = m[2][1] /\ b2 = m[2][2]
        /\ b3 = m[2][3] /\ c1 = m[3][1] /\ c2 = m[3][2] /\ c3 = m[3][3]
  <2>1. /\ m[1][1] \in Int /\ m[1][2] \in Int /\ m[1][3] \in Int
        /\ m[2][1] \in Int /\ m[2][2] \in Int /\ m[2][3] \in Int
        /\ m[3][1] \in Int /\ m[3][2] \in Int /\ m[3][3] \in Int
    BY DEF IsTurn, Turn, OnAxis, OnCircle
  <2> QED
    BY <2>1
<1>2. Turn(a1, a2, a3, b1, b2, b3, c1, c2, c3)
  BY <1>1 DEF IsTurn
<1>3. /\ Turn(b1, b2, b3, c1, c2, c3, a1, a2, a3)
      /\ Turn(c1, c2, c3, a1, a2, a3, b1, b2, b3)
  BY <1>2 DEF Turn
<1>4. Turn(a1, a2, a3, c * b1 - s * c1, c * b2 - s * c2, c * b3 - s * c3,
           s * b1 + c * c1, s * b2 + c * c2, s * b3 + c * c3)
  BY <1>2, TurnOn
<1>5. Turn(s * c1 + c * a1, s * c2 + c * a2, s * c3 + c * a3, b1, b2, b3,
           c * c1 - s * a1, c * c2 - s * a2, c * c3 - s * a3)
  <2>1. Turn(b1, b2, b3, c * c1 - s * a1, c * c2 - s * a2, c * c3 - s * a3,
             s * c1 + c * a1, s * c2 + c * a2, s * c3 + c * a3)
    BY <1>3, TurnOn
  <2> QED
    BY <2>1 DEF Turn
<1>6. Turn(c * a1 - s * b1, c * a2 - s * b2, c * a3 - s * b3,
           s * a1 + c * b1, s * a2 + c * b2, s * a3 + c * b3, c1, c2, c3)
  <2>1. Turn(c1, c2, c3, c * a1 - s * b1, c * a2 - s * b2, c * a3 - s * b3,
             s * a1 + c * b1, s * a2 + c * b2, s * a3 + c * b3)
    BY <1>3, TurnOn
  <2> QED
    BY <2>1 DEF Turn
<1>7. s * c1 + c * a1 = c * a1 + s * c1 /\ s * c2 + c * a2 = c * a2 + s * c2
      /\ s * c3 + c * a3 = c * a3 + s * c3
  OBVIOUS
<1> QED
  BY <1>1, <1>4, <1>5, <1>6, <1>7 DEF IsTurn, Axes

(* _matmul of two rotations is a rotation.                                 *)
LEMMA Product ==
  ASSUME NEW m, IsTurn(m),
         NEW cr \in Int, NEW sr \in Int, NEW cp \in Int, NEW sp \in Int, NEW cy \in Int,
         NEW sy \in Int, OnCircle(cr, sr), OnCircle(cp, sp), OnCircle(cy, sy)
  PROVE  IsTurn(MatMul(Rotation(cr, sr, cp, sp, cy, sy), m))
<1> DEFINE x == <<[j \in Axes |-> m[1][j]],
                  [j \in Axes |-> cr * m[2][j] - sr * m[3][j]],
                  [j \in Axes |-> sr * m[2][j] + cr * m[3][j]]>>
           y == <<[j \in Axes |-> cp * x[1][j] + sp * x[3][j]],
                  [j \in Axes |-> x[2][j]],
                  [j \in Axes |-> cp * x[3][j] - sp * x[1][j]]>>
           z == <<[j \in Axes |-> cy * y[1][j] - sy * y[2][j]],
                  [j \in Axes |-> sy * y[1][j] + cy * y[2][j]],
                  [j \in Axes |-> y[3][j]]>>
           n == MatMul(Rotation(cr, sr, cp, sp, cy, sy), m)
<1>1. /\ m[1][1] \in Int /\ m[1][2] \in Int /\ m[1][3] \in Int
      /\ m[2][1] \in Int /\ m[2][2] \in Int /\ m[2][3] \in Int
      /\ m[3][1] \in Int /\ m[3][2] \in Int /\ m[3][3] \in Int
  BY DEF IsTurn, Turn, OnAxis, OnCircle
<1>2. IsTurn(x)
  BY TurnAbout
<1> HIDE DEF x
<1>3. IsTurn(y)
  BY <1>2, TurnAbout
<1> HIDE DEF y
<1>4. IsTurn(z)
  BY <1>3, TurnAbout
<1> HIDE DEF z
<1>5. ASSUME NEW j \in Axes
      PROVE  z[1][j] = n[1][j] /\ z[2][j] = n[2][j] /\ z[3][j] = n[3][j]
  <2>1. PICK u \in Int, v \in Int, w \in Int : u = m[1][j] /\ v = m[2][j] /\ w = m[3][j]
    BY <1>1 DEF Axes
  <2>2. x[1][j] = u /\ x[2][j] = cr * v - sr * w /\ x[3][j] = sr * v + cr * w
    BY <2>1 DEF x
  <2>3. /\ y[1][j] = cp * u + sp * (sr * v + cr * w) /\ y[2][j] = cr * v - sr * w
        /\ y[3][j] = cp * (sr * v + cr * w) - sp * u
    BY <2>2 DEF y
  <2>4. /\ z[1][j] = cy * (cp * u + sp * (sr * v + cr * w)) - sy * (cr * v - sr * w)
        /\ z[2][j] = sy * (cp * u + sp * (sr * v + cr * w)) + cy * (cr * v - sr * w)
        /\ z[3][j] = cp * (sr * v + cr * w) - sp * u
    BY <2>3 DEF z
  <2>5. /\ n[1][j] = cy * cp * u + (cy * sp * sr - sy * cr) * v + (cy * sp * cr + sy * sr) * w
        /\ n[2][j] = sy * cp * u + (sy * sp * sr + cy * cr) * v + (sy * sp * cr - cy * sr) * w
        /\ n[3][j] = (-sp) * u + cp * sr * v + cp * cr * w
    BY <2>1 DEF MatMul, Rotation, Axes
  <2> QED
    BY <2>4, <2>5
<1> HIDE DEF n
<1>6. \A j \in {1, 2, 3} : z[1][j] = n[1][j] /\ z[2][j] = n[2][j] /\ z[3][j] = n[3][j]
  BY <1>5 DEF Axes
<1>7. IsTurn(n)
  BY <1>4, <1>6 DEF IsTurn
<1> QED
  BY <1>7 DEF n

(* So is _rotation_matrix.                                                 *)
LEMMA RotationTurns ==
  ASSUME NEW cr \in Int, NEW sr \in Int, NEW cp \in Int, NEW sp \in Int, NEW cy \in Int,
         NEW sy \in Int, OnCircle(cr, sr), OnCircle(cp, sp), OnCircle(cy, sy)
  PROVE  IsTurn(Rotation(cr, sr, cp, sp, cy, sy))
<1> DEFINE one == <<<<1, 0, 0>>, <<0, 1, 0>>, <<0, 0, 1>>>>
           r == Rotation(cr, sr, cp, sp, cy, sy)
           n == MatMul(r, one)
<1>1. IsTurn(one)
  BY DEF IsTurn, Turn, OnAxis, OnCircle, Cross
<1>2. IsTurn(n)
  BY <1>1, Product
<1>3. /\ n[1][1] = r[1][1] /\ n[1][2] = r[1][2] /\ n[1][3] = r[1][3]
      /\ n[2][1] = r[2][1] /\ n[2][2] = r[2][2] /\ n[2][3] = r[2][3]
      /\ n[3][1] = r[3][1] /\ n[3][2] = r[3][2] /\ n[3][3] = r[3][3]
  BY DEF MatMul, Rotation, Axes
<1> HIDE DEF n, r
<1>4. IsTurn(r)
  BY <1>2, <1>3 DEF IsTurn
<1> QED
  BY <1>4 DEF r

(* math.atan2 gives the angle back.                                        *)
LEMMA Angle ==
  ASSUME NEW x \in Int, NEW y \in Int, OnCircle(x, y)
  PROVE  Atan2(y, x) \in Int /\ Cos(Atan2(y, x)) = x /\ Sin(Atan2(y, x)) = y
BY DEF Atan2, OnCircle, Cos, Sin

(* Two matrices agree in their entries.                                    *)
Same(n, m) ==
  /\ n[1][1] = m[1][1] /\ n[1][2] = m[1][2] /\ n[1][3] = m[1][3]
  /\ n[2][1] = m[2][1] /\ n[2][2] = m[2][2] /\ n[2][3] = m[2][3]
  /\ n[3][1] = m[3][1] /\ n[3][2] = m[3][2] /\ n[3][3] = m[3][3]

(* _rpy_from_matrix gives the angles of the matrix, at the singularity too.*)
LEMMA RpyInverse ==
  ASSUME NEW m, IsTurn(m), NEW q, q = RpyFromMatrix(m)
  PROVE  /\ q[1] \in Int /\ q[2] \in Int /\ q[3] \in Int
         /\ Same(RotationMatrix(q[1], q[2], q[3]), m)
<1>1. PICK a1 \in Int, a2 \in Int, a3 \in Int, b1 \in Int, b2 \in Int, b3 \in Int,
           c1 \in Int, c2 \in Int, c3 \in Int :
        /\ a1 = m[1][1] /\ a2 = m[1][2] /\ a3 = m[1][3] /\ b1 = m[2][1] /\ b2 = m[2][2]
        /\ b3 = m[2][3] /\ c1 = m[3][1] /\ c2 = m[3][2] /\ c3 = m[3][3]
  <2>1. /\ m[1][1] \in Int /\ m[1][2] \in Int /\ m[1][3] \in Int
        /\ m[2][1] \in Int /\ m[2][2] \in Int /\ m[2][3] \in Int
        /\ m[3][1] \in Int /\ m[3][2] \in Int /\ m[3][3] \in Int
    BY DEF IsTurn, Turn, OnAxis, OnCircle
  <2> QED
    BY <2>1
<1>2. Turn(a1, a2, a3, b1, b2, b3, c1, c2, c3)
  BY <1>1 DEF IsTurn
<1>3. OnAxis(a1, a2, a3) /\ OnAxis(b1, b2, b3) /\ OnAxis(c1, c2, c3)
  BY <1>2 DEF Turn
<1>4. a1 = b2 * c3 - b3 * c2 /\ a2 = b3 * c1 - b1 * c3 /\ a3 = b1 * c2 - b2 * c1
  BY <1>2 DEF Turn, Cross
<1>5. b1 = c2 * a3 - c3 * a2 /\ b2 = c3 * a1 - c1 * a3 /\ b3 = c1 * a2 - c2 * a1
  BY <1>2 DEF Turn, Cross
<1>6. c1 = a2 * b3 - a3 * b2 /\ c2 = a3 * b1 - a1 * b3 /\ c3 = a1 * b2 - a2 * b1
  BY <1>2 DEF Turn, Cross
<1>7. CASE ~(a1 = 0 /\ b1 = 0)
  <2>1. q = <<Atan2(c2, c3), Atan2(-c1, 1), Atan2(b1, a1)>>
    BY <1>1, <1>7 DEF RpyFromMatrix
  <2>2. c1 = 0 /\ OnCircle(a1, b1)
    <3>1. CASE a1 # 0
      <4>1. a2 = 0 /\ a3 = 0 /\ a1 \in {-1, 1}
        BY <1>3, <3>1 DEF OnAxis, OnCircle
      <4>2. b1 = 0 /\ c1 = 0
        BY <1>5, <1>6, <4>1
      <4> QED
        BY <4>1, <4>2 DEF OnCircle
    <3>2. CASE b1 # 0
      <4>1. b2 = 0 /\ b3 = 0 /\ b1 \in {-1, 1}
        BY <1>3, <3>2 DEF OnAxis, OnCircle
      <4>2. a1 = 0 /\ c1 = 0
        BY <1>4, <1>6, <4>1
      <4> QED
        BY <4>1, <4>2 DEF OnCircle
    <3> QED
      BY <1>7, <3>1, <3>2
  <2>3. OnCircle(c3, c2)
    BY <1>3, <2>2 DEF OnAxis, OnCircle
  <2>4. a2 = -(b1 * c3) /\ a3 = b1 * c2 /\ b2 = a1 * c3 /\ b3 = -(a1 * c2)
    BY <1>4, <1>5, <2>2
  <2>5. Atan2(-c1, 1) = 0 /\ Cos(0) = 1 /\ Sin(0) = c1
    BY <2>2 DEF Atan2, Cos, Sin
  <2>6. RotationMatrix(q[1], q[2], q[3]) = Rotation(c3, c2, 1, c1, a1, b1)
    BY <2>1, <2>2, <2>3, <2>5, Angle DEF RotationMatrix
  <2>7. q[1] \in Int /\ q[2] \in Int /\ q[3] \in Int
    BY <2>1, <2>2, <2>3, <2>5, Angle
  <2>8. Same(Rotation(c3, c2, 1, c1, a1, b1), m)
    <3>1. /\ a1 * 1 = a1 /\ a1 * c1 * c2 - b1 * c3 = a2 /\ a1 * c1 * c3 + b1 * c2 = a3
          /\ b1 * 1 = b1 /\ b1 * c1 * c2 + a1 * c3 = b2 /\ b1 * c1 * c3 - a1 * c2 = b3
          /\ -c1 = c1 /\ 1 * c2 = c2 /\ 1 * c3 = c3
      <4>1. a1 * c1 * c2 = 0 /\ a1 * c1 * c3 = 0 /\ b1 * c1 * c2 = 0 /\ b1 * c1 * c3 = 0
        BY <2>2
      <4>2. c1 <= 0 /\ 0 <= c1
        BY <2>2
      <4>3. -c1 = c1
        BY <4>2
      <4> QED
        BY <2>4, <4>1, <4>3
    <3> QED
      BY <1>1, <3>1 DEF Rotation, Same
  <2> QED
    BY <2>6, <2>7, <2>8
<1>8. CASE a1 = 0 /\ b1 = 0
  <2>1. q = <<Atan2(-b3, b2), Atan2(-c1, 0), 0>>
    BY <1>1, <1>8 DEF RpyFromMatrix
  <2>2. c1 \in {-1, 1} /\ c2 = 0 /\ c3 = 0
    <3>1. c2 = 0 /\ c3 = 0
      BY <1>6, <1>8
    <3> QED
      BY <1>3, <3>1 DEF OnAxis, OnCircle
  <2>3. OnCircle(b2, -b3) /\ OnCircle(0, -c1)
    BY <1>3, <1>8, <2>2 DEF OnAxis, OnCircle
  <2>4. a2 = b3 * c1 /\ a3 = -(b2 * c1)
    BY <1>4, <1>8
  <2>5. Cos(0) = 1 /\ Sin(0) = 0
    BY DEF Cos, Sin
  <2>6. Cos(q[2]) = 0 /\ Sin(q[2]) = -c1 /\ q[2] \in Int
    <3>1. PICK x \in Int, y \in Int : x = 0 /\ y = -c1
      OBVIOUS
    <3> QED
      BY <2>1, <2>3, <3>1, Angle
  <2>7. Cos(q[1]) = b2 /\ Sin(q[1]) = -b3 /\ q[1] \in Int
    BY <2>1, <2>3, Angle
  <2>8. RotationMatrix(q[1], q[2], q[3]) = Rotation(b2, -b3, 0, -c1, 1, 0)
    BY <2>1, <2>5, <2>6, <2>7 DEF RotationMatrix
  <2>9. Same(Rotation(b2, -b3, 0, -c1, 1, 0), m)
    <3>1. /\ 1 * 0 = a1 /\ 1 * (-c1) * (-b3) - 0 * b2 = a2 /\ 1 * (-c1) * b2 + 0 * (-b3) = a3
          /\ 0 * 0 = b1 /\ 0 * (-c1) * (-b3) + 1 * b2 = b2 /\ 0 * (-c1) * b2 - 1 * (-b3) = b3
          /\ -(-c1) = c1 /\ 0 * (-b3) = c2 /\ 0 * b2 = c3
      BY <1>8, <2>2, <2>4
    <3> QED
      BY <1>1, <3>1 DEF Rotation, Same
  <2> QED
    BY <2>1, <2>6, <2>7, <2>8, <2>9
<1> QED
  BY <1>7, <1>8

(* The three turns about the fixed axes are _apply of _rotation_matrix.    *)
LEMMA AboutFixedAxes ==
  ASSUME NEW r \in Int, NEW p \in Int, NEW w \in Int, NEW v1 \in Int, NEW v2 \in Int,
         NEW v3 \in Int
  PROVE  LET t == AboutZ(w, AboutY(p, AboutX(r, <<v1, v2, v3>>)))
             u == Apply(RotationMatrix(r, p, w), <<v1, v2, v3>>)
         IN  t[1] = u[1] /\ t[2] = u[2] /\ t[3] = u[3]
<1> DEFINE t == AboutZ(w, AboutY(p, AboutX(r, <<v1, v2, v3>>)))
           u == Apply(RotationMatrix(r, p, w), <<v1, v2, v3>>)
<1>1. /\ Cos(r) \in Int /\ Sin(r) \in Int /\ Cos(p) \in Int /\ Sin(p) \in Int
      /\ Cos(w) \in Int /\ Sin(w) \in Int
  BY Trig
<1>2. PICK cr \in Int, sr \in Int, cp \in Int, sp \in Int, cw \in Int, sw \in Int :
        cr = Cos(r) /\ sr = Sin(r) /\ cp = Cos(p) /\ sp = Sin(p) /\ cw = Cos(w) /\ sw = Sin(w)
  BY <1>1
<1>3. PICK x2 \in Int, x3 \in Int :
        /\ AboutX(r, <<v1, v2, v3>>) = <<v1, x2, x3>>
        /\ x2 = cr * v2 - sr * v3 /\ x3 = sr * v2 + cr * v3
  BY <1>2 DEF AboutX
<1>4. PICK y1 \in Int, y3 \in Int :
        /\ AboutY(p, <<v1, x2, x3>>) = <<y1, x2, y3>>
        /\ y1 = cp * v1 + sp * x3 /\ y3 = cp * x3 - sp * v1
  BY <1>2 DEF AboutY
<1>5. t = <<cw * y1 - sw * x2, sw * y1 + cw * x2, y3>>
  BY <1>2, <1>3, <1>4 DEF AboutZ
<1>6. /\ u[1] = cw * cp * v1 + (cw * sp * sr - sw * cr) * v2 + (cw * sp * cr + sw * sr) * v3
      /\ u[2] = sw * cp * v1 + (sw * sp * sr + cw * cr) * v2 + (sw * sp * cr - cw * sr) * v3
      /\ u[3] = (-sp) * v1 + cp * sr * v2 + cp * cr * v3
  BY <1>2 DEF Apply, RotationMatrix, Rotation, Axes
<1> HIDE DEF t, u
<1>7. t[1] = u[1] /\ t[2] = u[2] /\ t[3] = u[3]
  BY <1>3, <1>4, <1>5, <1>6
<1> QED
  BY <1>7 DEF t, u

(* carla_attach_rotation: the Rotator mirrors the composed rotation.       *)
LEMMA AttachedRotation ==
  ASSUME NEW bk \in Transform6(Int), NEW s \in Transform6(Int)
  PROVE  LET m == MatMul(RotationMatrix(bk.roll, bk.pitch, bk.yaw),
                         RotationMatrix(s.roll, s.pitch, s.yaw))
             n == RotatorMatrix(CarlaAttachRotation(bk, s))
         IN  /\ n[1][1] = m[1][1] /\ n[1][2] = -m[1][2] /\ n[1][3] = m[1][3]
             /\ n[2][1] = -m[2][1] /\ n[2][2] = m[2][2] /\ n[2][3] = -m[2][3]
             /\ n[3][1] = m[3][1] /\ n[3][2] = -m[3][2] /\ n[3][3] = m[3][3]
             /\ \A i, j \in 1..3 : n[i][j] \in Int
<1> DEFINE m == MatMul(RotationMatrix(bk.roll, bk.pitch, bk.yaw),
                       RotationMatrix(s.roll, s.pitch, s.yaw))
           q == RpyFromMatrix(m)
           n == RotatorMatrix(CarlaAttachRotation(bk, s))
<1>1. /\ bk.roll \in Int /\ bk.pitch \in Int /\ bk.yaw \in Int
      /\ s.roll \in Int /\ s.pitch \in Int /\ s.yaw \in Int
  BY DEF Transform6, Quarters
<1>2. IsTurn(RotationMatrix(s.roll, s.pitch, s.yaw))
  BY <1>1, Trig, RotationTurns DEF RotationMatrix
<1>3. IsTurn(m)
  BY <1>1, <1>2, Trig, Product DEF RotationMatrix
<1>4. n = RotatorMatrix(RosRpyToCarlaRotation(q))
  BY DEF CarlaAttachRotation, SensorRotationInBaseLink
<1> HIDE DEF m, q, n
<1>5. q[1] \in Int /\ q[2] \in Int /\ q[3] \in Int /\ Same(RotationMatrix(q[1], q[2], q[3]), m)
  BY <1>3, RpyInverse DEF q
<1>6. PICK r \in Int, p \in Int, w \in Int : r = q[1] /\ p = q[2] /\ w = q[3]
  BY <1>5
<1>7. /\ (90 * r) \div 90 = r /\ (-90 * p) \div 90 = -p /\ (-90 * w) \div 90 = -w
  OBVIOUS
<1>8. RosRpyToCarlaRotation(q) = <<90 * r, -90 * p, -90 * w>>
  BY <1>6 DEF RosRpyToCarlaRotation
<1>9. n = Rotator(Cos(r), Sin(r), Cos(-p), Sin(-p), Cos(-w), Sin(-w))
  BY <1>4, <1>7, <1>8 DEF RotatorMatrix, Axes
<1>10. n = Rotator(Cos(r), Sin(r), Cos(p), -Sin(p), Cos(w), -Sin(w))
  BY <1>9, Trig
<1>11. /\ Cos(r) \in Int /\ Sin(r) \in Int /\ Cos(p) \in Int /\ Sin(p) \in Int
       /\ Cos(w) \in Int /\ Sin(w) \in Int
  BY Trig
<1>12. PICK cr \in Int, sr \in Int, cp \in Int, sp \in Int, cy \in Int, sy \in Int :
         cr = Cos(r) /\ sr = Sin(r) /\ cp = Cos(p) /\ sp = Sin(p) /\ cy = Cos(w) /\ sy = Sin(w)
  BY <1>11
<1> DEFINE k == Rotation(cr, sr, cp, sp, cy, sy)
<1>13. Same(k, m)
  BY <1>5, <1>6, <1>12 DEF RotationMatrix
<1>14. n = Rotator(cr, sr, cp, -sp, cy, -sy)
  BY <1>10, <1>12
<1>15. /\ n[1][1] = k[1][1] /\ n[1][2] = -k[1][2] /\ n[1][3] = k[1][3]
       /\ n[2][1] = -k[2][1] /\ n[2][2] = k[2][2] /\ n[2][3] = -k[2][3]
       /\ n[3][1] = k[3][1] /\ n[3][2] = -k[3][2] /\ n[3][3] = k[3][3]
  BY <1>14 DEF Rotator, Rotation
<1> HIDE DEF k
<1>16. /\ n[1][1] = m[1][1] /\ n[1][2] = -m[1][2] /\ n[1][3] = m[1][3]
       /\ n[2][1] = -m[2][1] /\ n[2][2] = m[2][2] /\ n[2][3] = -m[2][3]
       /\ n[3][1] = m[3][1] /\ n[3][2] = -m[3][2] /\ n[3][3] = m[3][3]
  BY <1>13, <1>15 DEF Same
<1>17. \A i, j \in 1..3 : m[i][j] \in Int
  BY <1>3 DEF IsTurn, Turn, OnAxis, OnCircle
<1>18. \A i, j \in 1..3 : n[i][j] \in Int
  <2>1. \A i \in 1..3 : i = 1 \/ i = 2 \/ i = 3
    OBVIOUS
  <2> QED
    BY <1>16, <1>17, <2>1
<1> QED
  BY <1>16, <1>18 DEF m, n

(* The entries of _rotation_matrix are integers.                           *)
LEMMA Entries ==
  ASSUME NEW t \in Transform6(Int)
  PROVE  LET r == RotationMatrix(t.roll, t.pitch, t.yaw)
         IN  /\ r[1][1] \in Int /\ r[1][2] \in Int /\ r[1][3] \in Int
             /\ r[2][1] \in Int /\ r[2][2] \in Int /\ r[2][3] \in Int
             /\ r[3][1] \in Int /\ r[3][2] \in Int /\ r[3][3] \in Int
<1>1. t.roll \in Int /\ t.pitch \in Int /\ t.yaw \in Int
  BY DEF Transform6, Quarters
<1>2. IsTurn(RotationMatrix(t.roll, t.pitch, t.yaw))
  BY <1>1, Trig, RotationTurns DEF RotationMatrix
<1> DEFINE r == RotationMatrix(t.roll, t.pitch, t.yaw)
<1> HIDE DEF r
<1>3. /\ r[1][1] \in Int /\ r[1][2] \in Int /\ r[1][3] \in Int
      /\ r[2][1] \in Int /\ r[2][2] \in Int /\ r[2][3] \in Int
      /\ r[3][1] \in Int /\ r[3][2] \in Int /\ r[3][3] \in Int
  <2>1. IsTurn(r)
    BY <1>2 DEF r
  <2> QED
    BY <2>1 DEF IsTurn, Turn, OnAxis, OnCircle
<1> QED
  BY <1>3 DEF r

(* One transform of TF, with its matrix.                                   *)
LEMMA ThroughMatrix ==
  ASSUME NEW t \in Transform6(Int), NEW v1 \in Int, NEW v2 \in Int, NEW v3 \in Int,
         NEW r, r = RotationMatrix(t.roll, t.pitch, t.yaw)
  PROVE  Through(t, <<v1, v2, v3>>) = <<t.x + (r[1][1] * v1 + r[1][2] * v2 + r[1][3] * v3),
                                        t.y + (r[2][1] * v1 + r[2][2] * v2 + r[2][3] * v3),
                                        t.z + (r[3][1] * v1 + r[3][2] * v2 + r[3][3] * v3)>>
<1> DEFINE a == AboutZ(t.yaw, AboutY(t.pitch, AboutX(t.roll, <<v1, v2, v3>>)))
           u == Apply(r, <<v1, v2, v3>>)
<1>1. t.roll \in Int /\ t.pitch \in Int /\ t.yaw \in Int
  BY DEF Transform6, Quarters
<1>2. a[1] = u[1] /\ a[2] = u[2] /\ a[3] = u[3]
  BY <1>1, AboutFixedAxes
<1>3. /\ u[1] = r[1][1] * v1 + r[1][2] * v2 + r[1][3] * v3
      /\ u[2] = r[2][1] * v1 + r[2][2] * v2 + r[2][3] * v3
      /\ u[3] = r[3][1] * v1 + r[3][2] * v2 + r[3][3] * v3
  BY DEF Apply, Axes
<1>4. Through(t, <<v1, v2, v3>>) = <<t.x + a[1], t.y + a[2], t.z + a[3]>>
  BY DEF Through
<1> HIDE DEF a, u
<1> QED
  BY <1>2, <1>3, <1>4

(* A coordinate, one transform after the other and all at once.            *)
LEMMA Coordinate ==
  ASSUME NEW x \in Int, NEW b1 \in Int, NEW b2 \in Int, NEW b3 \in Int,
         NEW sx \in Int, NEW sy \in Int, NEW sz \in Int,
         NEW r11 \in Int, NEW r12 \in Int, NEW r13 \in Int, NEW r21 \in Int, NEW r22 \in Int,
         NEW r23 \in Int, NEW r31 \in Int, NEW r32 \in Int, NEW r33 \in Int,
         NEW p1 \in Int, NEW p2 \in Int, NEW p3 \in Int
  PROVE  x + (b1 * (sx + (r11 * p1 + r12 * p2 + r13 * p3))
              + b2 * (sy + (r21 * p1 + r22 * p2 + r23 * p3))
              + b3 * (sz + (r31 * p1 + r32 * p2 + r33 * p3)))
         = x + (b1 * sx + b2 * sy + b3 * sz)
             + ((b1 * r11 + b2 * r21 + b3 * r31) * p1 + (b1 * r12 + b2 * r22 + b3 * r32) * p2
                + (b1 * r13 + b2 * r23 + b3 * r33) * p3)
OBVIOUS

(* A point of the sensor's frame, by way of CARLA and by way of TF.        *)
(* It is any point; at the sensor's own offset the side is not mirrored.   *)
LEMMA SeenAt ==
  ASSUME NEW bk \in Transform6(Int), NEW s \in Transform6(Int),
         NEW p1 \in Int, NEW p2 \in Int, NEW p3 \in Int
  PROVE  LET p == <<p1, p2, p3>>
             at == CarlaAttachLocation(bk, s)
             there == Flip(InTf(bk, s, p))
         IN  InCarla(at, CarlaAttachRotation(bk, s), p) = <<there[1], there[2] + 2 * at[2], there[3]>>
<1> DEFINE p == <<p1, p2, p3>>
           at == CarlaAttachLocation(bk, s)
           b == RotationMatrix(bk.roll, bk.pitch, bk.yaw)
           r == RotationMatrix(s.roll, s.pitch, s.yaw)
           m == MatMul(b, r)
           n == RotatorMatrix(CarlaAttachRotation(bk, s))
           u == Through(s, p)
           w == InTf(bk, s, p)
<1>1. PICK bx \in Int, by \in Int, bz \in Int, sx \in Int, sy \in Int, sz \in Int :
        bx = bk.x /\ by = bk.y /\ bz = bk.z /\ sx = s.x /\ sy = s.y /\ sz = s.z
  <2>1. bk.x \in Int /\ bk.y \in Int /\ bk.z \in Int /\ s.x \in Int /\ s.y \in Int /\ s.z \in Int
    BY DEF Transform6
  <2> QED
    BY <2>1
<1>2. PICK b11 \in Int, b12 \in Int, b13 \in Int, b21 \in Int, b22 \in Int, b23 \in Int,
           b31 \in Int, b32 \in Int, b33 \in Int :
        /\ b11 = b[1][1] /\ b12 = b[1][2] /\ b13 = b[1][3]
        /\ b21 = b[2][1] /\ b22 = b[2][2] /\ b23 = b[2][3]
        /\ b31 = b[3][1] /\ b32 = b[3][2] /\ b33 = b[3][3]
  <2> HIDE DEF b
  <2>1. /\ b[1][1] \in Int /\ b[1][2] \in Int /\ b[1][3] \in Int
        /\ b[2][1] \in Int /\ b[2][2] \in Int /\ b[2][3] \in Int
        /\ b[3][1] \in Int /\ b[3][2] \in Int /\ b[3][3] \in Int
    BY Entries DEF b
  <2> QED
    BY <2>1
<1>3. PICK r11 \in Int, r12 \in Int, r13 \in Int, r21 \in Int, r22 \in Int, r23 \in Int,
           r31 \in Int, r32 \in Int, r33 \in Int :
        /\ r11 = r[1][1] /\ r12 = r[1][2] /\ r13 = r[1][3]
        /\ r21 = r[2][1] /\ r22 = r[2][2] /\ r23 = r[2][3]
        /\ r31 = r[3][1] /\ r32 = r[3][2] /\ r33 = r[3][3]
  <2> HIDE DEF r
  <2>1. /\ r[1][1] \in Int /\ r[1][2] \in Int /\ r[1][3] \in Int
        /\ r[2][1] \in Int /\ r[2][2] \in Int /\ r[2][3] \in Int
        /\ r[3][1] \in Int /\ r[3][2] \in Int /\ r[3][3] \in Int
    BY Entries DEF r
  <2> QED
    BY <2>1
<1>4. PICK u1 \in Int, u2 \in Int, u3 \in Int :
        /\ u = <<u1, u2, u3>>
        /\ u1 = sx + (r11 * p1 + r12 * p2 + r13 * p3)
        /\ u2 = sy + (r21 * p1 + r22 * p2 + r23 * p3)
        /\ u3 = sz + (r31 * p1 + r32 * p2 + r33 * p3)
  <2>1. u = <<sx + (r11 * p1 + r12 * p2 + r13 * p3), sy + (r21 * p1 + r22 * p2 + r23 * p3),
              sz + (r31 * p1 + r32 * p2 + r33 * p3)>>
    <3> HIDE DEF r
    <3> QED
      BY <1>1, <1>3, ThroughMatrix DEF r
  <2> HIDE DEF u
  <2> QED
    BY <2>1
<1>5. w = <<bx + (b11 * u1 + b12 * u2 + b13 * u3), by + (b21 * u1 + b22 * u2 + b23 * u3),
            bz + (b31 * u1 + b32 * u2 + b33 * u3)>>
  <2>1. w = Through(bk, <<u1, u2, u3>>)
    BY <1>4 DEF InTf
  <2> HIDE DEF b, w
  <2> QED
    BY <1>1, <1>2, <2>1, ThroughMatrix DEF b
<1>6. at = <<bx + (b11 * sx + b12 * sy + b13 * sz), by + (b21 * sx + b22 * sy + b23 * sz),
             bz + (b31 * sx + b32 * sy + b33 * sz)>>
  <2>1. at = LET e == Apply(b, <<s.x, s.y, s.z>>) IN <<bk.x + e[1], bk.y + e[2], bk.z + e[3]>>
    BY DEF CarlaAttachLocation, SensorInBaseLink
  <2> HIDE DEF b, at
  <2> QED
    BY <1>1, <1>2, <2>1 DEF Apply, Axes
<1>7. /\ m[1][1] = b11 * r11 + b12 * r21 + b13 * r31 /\ m[1][2] = b11 * r12 + b12 * r22 + b13 * r32
      /\ m[1][3] = b11 * r13 + b12 * r23 + b13 * r33
      /\ m[2][1] = b21 * r11 + b22 * r21 + b23 * r31 /\ m[2][2] = b21 * r12 + b22 * r22 + b23 * r32
      /\ m[2][3] = b21 * r13 + b22 * r23 + b23 * r33
      /\ m[3][1] = b31 * r11 + b32 * r21 + b33 * r31 /\ m[3][2] = b31 * r12 + b32 * r22 + b33 * r32
      /\ m[3][3] = b31 * r13 + b32 * r23 + b33 * r33
  <2> HIDE DEF b, r
  <2> QED
    BY <1>2, <1>3 DEF MatMul, Axes
<1>8. /\ n[1][1] = m[1][1] /\ n[1][2] = -m[1][2] /\ n[1][3] = m[1][3]
      /\ n[2][1] = -m[2][1] /\ n[2][2] = m[2][2] /\ n[2][3] = -m[2][3]
      /\ n[3][1] = m[3][1] /\ n[3][2] = -m[3][2] /\ n[3][3] = m[3][3]
  BY AttachedRotation
<1> DEFINE seen == InCarla(at, CarlaAttachRotation(bk, s), p)
<1>9. seen = <<at[1] + (n[1][1] * p1 + n[1][2] * (-p2) + n[1][3] * p3),
               at[2] + (n[2][1] * p1 + n[2][2] * (-p2) + n[2][3] * p3),
               at[3] + (n[3][1] * p1 + n[3][2] * (-p2) + n[3][3] * p3)>>
  <2> HIDE DEF at, n
  <2> QED
    BY DEF InCarla, Apply, Axes, Flip, n
<1> HIDE DEF at, b, r, m, n, u, w, seen
<1>10. PICK l1 \in Int, l2 \in Int, l3 \in Int :
         /\ at = <<l1, l2, l3>>
         /\ l1 = bx + (b11 * sx + b12 * sy + b13 * sz)
         /\ l2 = by + (b21 * sx + b22 * sy + b23 * sz)
         /\ l3 = bz + (b31 * sx + b32 * sy + b33 * sz)
  BY <1>6
<1>11. seen[1] = w[1]
  <2>1. w[1] = l1 + ((b11 * r11 + b12 * r21 + b13 * r31) * p1
                     + (b11 * r12 + b12 * r22 + b13 * r32) * p2
                     + (b11 * r13 + b12 * r23 + b13 * r33) * p3)
    BY <1>4, <1>5, <1>10, Coordinate
  <2>2. PICK k1 \in Int, k2 \in Int, k3 \in Int :
          k1 = m[1][1] /\ k2 = m[1][2] /\ k3 = m[1][3]
    BY <1>7
  <2>3. w[1] = l1 + (k1 * p1 + k2 * p2 + k3 * p3)
    BY <1>7, <2>1, <2>2
  <2>4. seen[1] = l1 + (k1 * p1 + (-k2) * (-p2) + k3 * p3)
    BY <1>8, <1>9, <1>10, <2>2
  <2> QED
    BY <2>3, <2>4
<1>12. seen[2] = -w[2] + 2 * l2
  <2>1. w[2] = l2 + ((b21 * r11 + b22 * r21 + b23 * r31) * p1
                     + (b21 * r12 + b22 * r22 + b23 * r32) * p2
                     + (b21 * r13 + b22 * r23 + b23 * r33) * p3)
    BY <1>4, <1>5, <1>10, Coordinate
  <2>2. PICK k1 \in Int, k2 \in Int, k3 \in Int :
          k1 = m[2][1] /\ k2 = m[2][2] /\ k3 = m[2][3]
    BY <1>7
  <2>3. w[2] = l2 + (k1 * p1 + k2 * p2 + k3 * p3)
    BY <1>7, <2>1, <2>2
  <2>4. seen[2] = l2 + ((-k1) * p1 + k2 * (-p2) + (-k3) * p3)
    BY <1>8, <1>9, <1>10, <2>2
  <2> QED
    BY <2>3, <2>4
<1>13. seen[3] = w[3]
  <2>1. w[3] = l3 + ((b31 * r11 + b32 * r21 + b33 * r31) * p1
                     + (b31 * r12 + b32 * r22 + b33 * r32) * p2
                     + (b31 * r13 + b32 * r23 + b33 * r33) * p3)
    BY <1>4, <1>5, <1>10, Coordinate
  <2>2. PICK k1 \in Int, k2 \in Int, k3 \in Int :
          k1 = m[3][1] /\ k2 = m[3][2] /\ k3 = m[3][3]
    BY <1>7
  <2>3. w[3] = l3 + (k1 * p1 + k2 * p2 + k3 * p3)
    BY <1>7, <2>1, <2>2
  <2>4. seen[3] = l3 + (k1 * p1 + (-k2) * (-p2) + k3 * p3)
    BY <1>8, <1>9, <1>10, <2>2
  <2> QED
    BY <2>3, <2>4
<1>14. seen = <<w[1], -w[2] + 2 * l2, w[3]>>
  BY <1>9, <1>11, <1>12, <1>13
<1> QED
  BY <1>10, <1>14 DEF seen, at, w, Flip, p

(* Places are whole numbers.                                               *)
LEMMA WholeNumbers ==
  ASSUME NEW bk \in Transform6(Int), NEW s \in Transform6(Int),
         NEW p1 \in Int, NEW p2 \in Int, NEW p3 \in Int
  PROVE  /\ \E t1, t2, t3 \in Int : Flip(InTf(bk, s, <<p1, p2, p3>>)) = <<t1, t2, t3>>
         /\ \E a1, a2, a3 \in Int : CarlaAttachLocation(bk, s) = <<a1, a2, a3>>
<1>1. ASSUME NEW t \in Transform6(Int), NEW v1 \in Int, NEW v2 \in Int, NEW v3 \in Int
      PROVE  /\ \E u1, u2, u3 \in Int : Through(t, <<v1, v2, v3>>) = <<u1, u2, u3>>
             /\ \E u1, u2, u3 \in Int :
                  Apply(RotationMatrix(t.roll, t.pitch, t.yaw), <<v1, v2, v3>>) = <<u1, u2, u3>>
  <2> DEFINE r == RotationMatrix(t.roll, t.pitch, t.yaw)
  <2>1. /\ r[1][1] \in Int /\ r[1][2] \in Int /\ r[1][3] \in Int
        /\ r[2][1] \in Int /\ r[2][2] \in Int /\ r[2][3] \in Int
        /\ r[3][1] \in Int /\ r[3][2] \in Int /\ r[3][3] \in Int
    <3> HIDE DEF r
    <3> QED
      BY Entries DEF r
  <2>2. t.x \in Int /\ t.y \in Int /\ t.z \in Int
    BY DEF Transform6
  <2>3. Through(t, <<v1, v2, v3>>)
          = <<t.x + (r[1][1] * v1 + r[1][2] * v2 + r[1][3] * v3),
              t.y + (r[2][1] * v1 + r[2][2] * v2 + r[2][3] * v3),
              t.z + (r[3][1] * v1 + r[3][2] * v2 + r[3][3] * v3)>>
    <3>1. PICK q : q = r
      OBVIOUS
    <3> HIDE DEF r
    <3>2. q = RotationMatrix(t.roll, t.pitch, t.yaw)
      BY <3>1 DEF r
    <3>3. Through(t, <<v1, v2, v3>>)
            = <<t.x + (q[1][1] * v1 + q[1][2] * v2 + q[1][3] * v3),
                t.y + (q[2][1] * v1 + q[2][2] * v2 + q[2][3] * v3),
                t.z + (q[3][1] * v1 + q[3][2] * v2 + q[3][3] * v3)>>
      BY <3>2, ThroughMatrix
    <3> QED
      BY <3>1, <3>3, Zenon
  <2> HIDE DEF r
  <2>4. Apply(r, <<v1, v2, v3>>) = <<r[1][1] * v1 + r[1][2] * v2 + r[1][3] * v3,
                                     r[2][1] * v1 + r[2][2] * v2 + r[2][3] * v3,
                                     r[3][1] * v1 + r[3][2] * v2 + r[3][3] * v3>>
    BY DEF Apply, Axes
  <2>5. PICK e1 \in Int, e2 \in Int, e3 \in Int :
          /\ e1 = r[1][1] * v1 + r[1][2] * v2 + r[1][3] * v3
          /\ e2 = r[2][1] * v1 + r[2][2] * v2 + r[2][3] * v3
          /\ e3 = r[3][1] * v1 + r[3][2] * v2 + r[3][3] * v3
    <3>1. \A k \in Int, l \in Int : k * l \in Int
      OBVIOUS
    <3>2. /\ r[1][1] * v1 + r[1][2] * v2 + r[1][3] * v3 \in Int
          /\ r[2][1] * v1 + r[2][2] * v2 + r[2][3] * v3 \in Int
          /\ r[3][1] * v1 + r[3][2] * v2 + r[3][3] * v3 \in Int
      BY <2>1, <3>1
    <3> QED
      BY <3>2, Zenon
  <2>6. Apply(r, <<v1, v2, v3>>) = <<e1, e2, e3>>
    BY <2>4, <2>5
  <2>7. PICK d1 \in Int, d2 \in Int, d3 \in Int : d1 = t.x + e1 /\ d2 = t.y + e2 /\ d3 = t.z + e3
    BY <2>2
  <2>8. Through(t, <<v1, v2, v3>>) = <<d1, d2, d3>>
    BY <2>3, <2>5, <2>7
  <2> QED
    BY <2>6, <2>8 DEF r
<1>2. \E t1, t2, t3 \in Int : Flip(InTf(bk, s, <<p1, p2, p3>>)) = <<t1, t2, t3>>
  <2>1. PICK u1 \in Int, u2 \in Int, u3 \in Int : Through(s, <<p1, p2, p3>>) = <<u1, u2, u3>>
    BY <1>1
  <2>2. PICK w1 \in Int, w2 \in Int, w3 \in Int : Through(bk, <<u1, u2, u3>>) = <<w1, w2, w3>>
    BY <1>1
  <2>3. InTf(bk, s, <<p1, p2, p3>>) = <<w1, w2, w3>>
    BY <2>1, <2>2 DEF InTf
  <2> QED
    BY <2>3 DEF Flip
<1>3. \E a1, a2, a3 \in Int : CarlaAttachLocation(bk, s) = <<a1, a2, a3>>
  <2>1. /\ bk.x \in Int /\ bk.y \in Int /\ bk.z \in Int
        /\ s.x \in Int /\ s.y \in Int /\ s.z \in Int
    BY DEF Transform6
  <2>2. PICK u1 \in Int, u2 \in Int, u3 \in Int :
          Apply(RotationMatrix(bk.roll, bk.pitch, bk.yaw), <<s.x, s.y, s.z>>) = <<u1, u2, u3>>
    BY <1>1, <2>1, SMTT(30)
  <2>3. CarlaAttachLocation(bk, s) = <<bk.x + u1, bk.y + u2, bk.z + u3>>
    BY <2>2 DEF CarlaAttachLocation, SensorInBaseLink
  <2> QED
    BY <2>1, <2>3
<1> QED
  BY <1>2, <1>3

-------------------------------------------------------------------------------
(***************************************************************************)
(* The rig that main() builds, for any number of cameras, any build and    *)
(* any kit: Inputs is any set of runs.                                     *)
(***************************************************************************)
(* What a list is that is the LiDAR's under the overrides o.               *)
LidarListed(t, o) ==
  /\ DOMAIN t = 1..11
  /\ t[1][1] = "ros_topic_name" /\ t[2][1] = "ros2_extended_lidar"
  /\ t[3][1] = "ros_name" /\ t[4][1] = "ros2_qos_reliability"
  /\ t[5][1] = "ros2_qos_durability" /\ t[6][1] = "ros2_qos_history_depth"
  /\ t[7][1] = "channels" /\ t[8][1] = "rotation_frequency"
  /\ t[9][1] = "range" /\ t[10][1] = "points_per_second" /\ t[11][1] = "sensor_tick"
  /\ "ros_topic_name" \notin DOMAIN o => t[1][2] = <<"pointcloud_raw_ex">>
  /\ "ros2_extended_lidar" \notin DOMAIN o => t[2][2] = "true"
  /\ "ros_name" \notin DOMAIN o => t[3][2] = "velodyne_top"
  /\ "channels" \in DOMAIN o => t[7][2] = o["channels"]
  /\ "channels" \notin DOMAIN o => t[7][2] = "128"
  /\ "rotation_frequency" \in DOMAIN o => t[8][2] = o["rotation_frequency"]
  /\ "rotation_frequency" \notin DOMAIN o => t[8][2] = "10"
  /\ "range" \in DOMAIN o => t[9][2] = o["range"]
  /\ "range" \notin DOMAIN o => t[9][2] = "120.0"
  /\ "points_per_second" \in DOMAIN o => t[10][2] = o["points_per_second"]
  /\ "points_per_second" \notin DOMAIN o => t[10][2] = "600000"

(* top_lidar_attributes.                                                   *)
LEMMA LidarList ==
  ASSUME NEW o
  PROVE  LidarListed(TopLidarAttributes(o), o)
<1> DEFINE p1 == <<"ros_topic_name", <<"pointcloud_raw_ex">>>>
           p2 == <<"ros2_extended_lidar", "true">>
           p3 == <<"ros_name", "velodyne_top">>
           p4 == <<"ros2_qos_reliability", "best_effort">>
           p5 == <<"ros2_qos_durability", "volatile">>
           p6 == <<"ros2_qos_history_depth", "5">>
           p7 == <<"channels", "128">>
           p8 == <<"rotation_frequency", "10">>
           p9 == <<"range", "120.0">>
           p10 == <<"points_per_second", "600000">>
           p11 == <<"sensor_tick", "0.05">>
           s == <<p1, p2, p3>> \o <<p4, p5, p6>> \o <<p7, p8, p9, p10, p11>>
           t == TopLidarAttributes(o)
<1> HIDE DEF p1, p2, p3, p4, p5, p6, p7, p8, p9, p10, p11
<1>1. /\ DOMAIN s = 1..11
      /\ s[1] = p1 /\ s[2] = p2 /\ s[3] = p3 /\ s[4] = p4 /\ s[5] = p5 /\ s[6] = p6
      /\ s[7] = p7 /\ s[8] = p8 /\ s[9] = p9 /\ s[10] = p10 /\ s[11] = p11
  OBVIOUS
<1> HIDE DEF s
<1>2. t = WithOverrides(s, o)
  BY Zenon
  DEF TopLidarAttributes, QosProfile, s, p1, p2, p3, p4, p5, p6, p7, p8, p9, p10, p11
<1> HIDE DEF t
<1>3. DOMAIN t = 1..11
  BY <1>1, <1>2 DEF WithOverrides
<1>4. \A i \in 1..11 : t[i] = IF s[i][1] \in DOMAIN o THEN <<s[i][1], o[s[i][1]]>> ELSE s[i]
  BY <1>1, <1>2 DEF WithOverrides
<1>5. \A i \in 1..11 : /\ t[i][1] = s[i][1]
                       /\ t[i][2] = IF s[i][1] \in DOMAIN o THEN o[s[i][1]] ELSE s[i][2]
  BY <1>4
<1>6. /\ t[1][1] = p1[1] /\ t[2][1] = p2[1] /\ t[3][1] = p3[1] /\ t[4][1] = p4[1]
      /\ t[5][1] = p5[1] /\ t[6][1] = p6[1] /\ t[7][1] = p7[1] /\ t[8][1] = p8[1]
      /\ t[9][1] = p9[1] /\ t[10][1] = p10[1] /\ t[11][1] = p11[1]
      /\ t[1][2] = IF p1[1] \in DOMAIN o THEN o[p1[1]] ELSE p1[2]
      /\ t[2][2] = IF p2[1] \in DOMAIN o THEN o[p2[1]] ELSE p2[2]
      /\ t[3][2] = IF p3[1] \in DOMAIN o THEN o[p3[1]] ELSE p3[2]
      /\ t[7][2] = IF p7[1] \in DOMAIN o THEN o[p7[1]] ELSE p7[2]
      /\ t[8][2] = IF p8[1] \in DOMAIN o THEN o[p8[1]] ELSE p8[2]
      /\ t[9][2] = IF p9[1] \in DOMAIN o THEN o[p9[1]] ELSE p9[2]
      /\ t[10][2] = IF p10[1] \in DOMAIN o THEN o[p10[1]] ELSE p10[2]
  BY <1>1, <1>5
<1>7. /\ p1[1] = "ros_topic_name" /\ p1[2] = <<"pointcloud_raw_ex">>
      /\ p2[1] = "ros2_extended_lidar" /\ p2[2] = "true"
      /\ p3[1] = "ros_name" /\ p3[2] = "velodyne_top"
      /\ p4[1] = "ros2_qos_reliability" /\ p5[1] = "ros2_qos_durability"
      /\ p6[1] = "ros2_qos_history_depth" /\ p7[1] = "channels" /\ p7[2] = "128"
      /\ p8[1] = "rotation_frequency" /\ p8[2] = "10" /\ p9[1] = "range" /\ p9[2] = "120.0"
      /\ p10[1] = "points_per_second" /\ p10[2] = "600000" /\ p11[1] = "sensor_tick"
  BY DEF p1, p2, p3, p4, p5, p6, p7, p8, p9, p10, p11
<1> QED
  BY <1>3, <1>6, <1>7 DEF t, LidarListed

(* The list of a camera.                                                   *)
LEMMA CameraList ==
  ASSUME NEW index
  PROVE  LET t == CameraAttributes(index) IN
         /\ DOMAIN t = 1..8
         /\ t[1][1] = "ros_topic_name" /\ t[1][2] = CameraTopic(index)
         /\ t[2][1] = "ros_name"
         /\ t[3][1] = "ros2_qos_reliability" /\ t[4][1] = "ros2_qos_durability"
         /\ t[5][1] = "ros2_qos_history_depth" /\ t[6][1] = "image_size_x"
         /\ t[7][1] = "image_size_y" /\ t[8][1] = "sensor_tick"
<1> DEFINE p1 == <<"ros_topic_name", CameraTopic(index)>>
           p2 == <<"ros_name", CameraTopic(index)>>
           p3 == <<"ros2_qos_reliability", "best_effort">>
           p4 == <<"ros2_qos_durability", "volatile">>
           p5 == <<"ros2_qos_history_depth", "5">>
           p6 == <<"image_size_x", "1600">>
           p7 == <<"image_size_y", "900">>
           p8 == <<"sensor_tick", "0.05">>
           s == <<p1, p2>> \o <<p3, p4, p5>> \o <<p6, p7, p8>>
<1> HIDE DEF p1, p2, p3, p4, p5, p6, p7, p8
<1>1. /\ DOMAIN s = 1..8
      /\ s[1] = p1 /\ s[2] = p2 /\ s[3] = p3 /\ s[4] = p4 /\ s[5] = p5 /\ s[6] = p6
      /\ s[7] = p7 /\ s[8] = p8
  OBVIOUS
<1> HIDE DEF s
<1>2. CameraAttributes(index) = s
  BY Zenon DEF CameraAttributes, QosProfile, s, p1, p2, p3, p4, p5, p6, p7, p8
<1>3. /\ p1[1] = "ros_topic_name" /\ p1[2] = CameraTopic(index) /\ p2[1] = "ros_name"
      /\ p3[1] = "ros2_qos_reliability" /\ p4[1] = "ros2_qos_durability"
      /\ p5[1] = "ros2_qos_history_depth" /\ p6[1] = "image_size_x"
      /\ p7[1] = "image_size_y" /\ p8[1] = "sensor_tick"
  BY DEF p1, p2, p3, p4, p5, p6, p7, p8
<1> QED
  BY <1>1, <1>2, <1>3

(* The list of the IMU.                                                    *)
LEMMA ImuList ==
  /\ DOMAIN ImuAttributes = 1..3
  /\ ImuAttributes[1][1] = "ros_topic_name" /\ ImuAttributes[1][2] = <<"imu_raw">>
  /\ ImuAttributes[2][1] = "ros_name" /\ ImuAttributes[3][1] = "sensor_tick"
  /\ ImuAttributes[2][2] = "tamagawa/imu_link"
BY DEF ImuAttributes

(* The options reach the attribute they name.                              *)
LEMMA Overrides ==
  ASSUME NEW flags, flags \subseteq DOMAIN AttributeOf
  PROVE  /\ DOMAIN BuildLidarOverrides(flags) = {AttributeOf[f] : f \in flags}
         /\ \A f \in flags : BuildLidarOverrides(flags)[AttributeOf[f]] = f
<1> DEFINE o == BuildLidarOverrides(flags)
<1>1. DOMAIN o = {AttributeOf[f] : f \in flags}
  BY DEF BuildLidarOverrides
<1>2. ASSUME NEW f \in flags PROVE o[AttributeOf[f]] = f
  <2>1. \A g \in flags : AttributeOf[g] = AttributeOf[f] => g = f
    BY DEF AttributeOf
  <2>2. o[AttributeOf[f]] = CHOOSE g \in flags : AttributeOf[g] = AttributeOf[f]
    BY DEF BuildLidarOverrides
  <2> QED
    BY <2>1, <2>2
<1> QED
  BY <1>1, <1>2

(* An attribute that the list names once and that is set has its value.    *)
LEMMA AppliedValue ==
  ASSUME NEW a, NEW j \in DOMAIN Attributes(a), NEW key,
         key = Attributes(a)[j][1],
         \A i \in DOMAIN Attributes(a) : Attributes(a)[i][1] = key => i = j,
         Raises(a) = {}, key \notin Optional(a)
  PROVE  key \in DOMAIN Applied(a) /\ Applied(a)[key] = Attributes(a)[j][2]
<1> DEFINE set == {i \in DOMAIN Attributes(a) : Declares(a, Attributes(a)[i][1])}
           Value(k) == Attributes(a)[CHOOSE i \in set : Attributes(a)[i][1] = k][2]
<1>1. j \in set
  BY DEF Raises
<1>2. \A i \in set : Attributes(a)[i][1] = key => i = j
  OBVIOUS
<1>3. Value(key) = Attributes(a)[j][2]
  <2>1. (CHOOSE i \in set : Attributes(a)[i][1] = key) = j
    BY <1>1, <1>2
  <2> QED
    BY <2>1
<1>4. Applied(a) = [k \in {Attributes(a)[i][1] : i \in set} |-> Value(k)]
  BY DEF Applied
<1> HIDE DEF set, Value
<1>5. key \in {Attributes(a)[i][1] : i \in set}
  BY <1>1
<1> QED
  BY <1>3, <1>4, <1>5

(* Nothing else is set.                                                    *)
LEMMA AppliedKeys ==
  ASSUME NEW a, NEW key \in DOMAIN Applied(a)
  PROVE  \E i \in DOMAIN Attributes(a) : Attributes(a)[i][1] = key
BY DEF Applied

(* The LiDAR that is spawned.                                              *)
LEMMA LidarAsBuilt ==
  ASSUME IsRun(in), Raises(1) = {}
  PROVE  /\ {"ros_topic_name", "ros2_extended_lidar"} \subseteq DOMAIN Applied(1)
         /\ Applied(1)["ros_topic_name"] = <<"pointcloud_raw_ex">>
         /\ Applied(1)["ros2_extended_lidar"] = "true"
         /\ Applied(1)["ros_name"] = "velodyne_top"
         /\ \A f \in DOMAIN AttributeOf : f \in in.flags => Applied(1)[AttributeOf[f]] = f
         /\ "lidar_channels" \notin in.flags => Applied(1)["channels"] = "128"
         /\ "lidar_pps" \notin in.flags => Applied(1)["points_per_second"] = "600000"
         /\ "lidar_rotation_hz" \notin in.flags => Applied(1)["rotation_frequency"] = "10"
         /\ "lidar_range" \notin in.flags => Applied(1)["range"] = "120.0"
<1> DEFINE o == BuildLidarOverrides(in.flags)
           t == TopLidarAttributes(o)
<1>1. in.flags \subseteq {"lidar_channels", "lidar_pps", "lidar_rotation_hz", "lidar_range"}
  BY DEF IsRun, AttributeOf
<1>2. /\ DOMAIN o = {AttributeOf[f] : f \in in.flags}
      /\ \A f \in in.flags : o[AttributeOf[f]] = f
  BY Overrides DEF IsRun
<1>3. Attributes(1) = t
  BY DEF Attributes
<1> HIDE DEF o, t
<1>4. LidarListed(t, o)
  BY LidarList DEF t
<1>5. DOMAIN t = 1..11
  BY <1>4 DEF LidarListed
<1>6. \A i, j \in 1..11 : t[i][1] = t[j][1] => i = j
  BY <1>4 DEF LidarListed
<1>7. ASSUME NEW j \in 1..11, t[j][1] # "ros2_ackermann_control"
      PROVE  t[j][1] \in DOMAIN Applied(1) /\ Applied(1)[t[j][1]] = t[j][2]
  <2>1. Optional(1) = {"ros2_ackermann_control"}
    BY DEF Optional
  <2>2. PICK a : a = 1
    OBVIOUS
  <2>3. /\ Attributes(a) = t /\ j \in DOMAIN Attributes(a) /\ Raises(a) = {}
        /\ t[j][1] \notin Optional(a)
        /\ \A i \in DOMAIN Attributes(a) : Attributes(a)[i][1] = t[j][1] => i = j
    BY <1>3, <1>5, <1>6, <1>7, <2>1, <2>2
  <2> QED
    BY <2>2, <2>3, AppliedValue
<1>8. /\ "ros_topic_name" \in DOMAIN Applied(1)
      /\ "ros2_extended_lidar" \in DOMAIN Applied(1)
      /\ Applied(1)["ros_topic_name"] = t[1][2]
      /\ Applied(1)["ros2_extended_lidar"] = t[2][2]
      /\ Applied(1)["ros_name"] = t[3][2]
      /\ Applied(1)["channels"] = t[7][2] /\ Applied(1)["rotation_frequency"] = t[8][2]
      /\ Applied(1)["range"] = t[9][2] /\ Applied(1)["points_per_second"] = t[10][2]
  BY <1>4, <1>7 DEF LidarListed
<1>9. /\ "ros_topic_name" \notin DOMAIN o /\ "ros2_extended_lidar" \notin DOMAIN o
      /\ "ros_name" \notin DOMAIN o
      /\ "channels" \in DOMAIN o <=> "lidar_channels" \in in.flags
      /\ "points_per_second" \in DOMAIN o <=> "lidar_pps" \in in.flags
      /\ "rotation_frequency" \in DOMAIN o <=> "lidar_rotation_hz" \in in.flags
      /\ "range" \in DOMAIN o <=> "lidar_range" \in in.flags
  BY <1>1, <1>2 DEF AttributeOf
<1>10. /\ "lidar_channels" \in in.flags => o["channels"] = "lidar_channels"
       /\ "lidar_pps" \in in.flags => o["points_per_second"] = "lidar_pps"
       /\ "lidar_rotation_hz" \in in.flags => o["rotation_frequency"] = "lidar_rotation_hz"
       /\ "lidar_range" \in in.flags => o["range"] = "lidar_range"
  BY <1>2 DEF AttributeOf
<1>11. \A f \in DOMAIN AttributeOf : f \in in.flags => Applied(1)[AttributeOf[f]] = f
  BY <1>4, <1>8, <1>9, <1>10 DEF AttributeOf, LidarListed
<1>12. /\ "lidar_channels" \notin in.flags => Applied(1)["channels"] = "128"
       /\ "lidar_pps" \notin in.flags => Applied(1)["points_per_second"] = "600000"
       /\ "lidar_rotation_hz" \notin in.flags => Applied(1)["rotation_frequency"] = "10"
       /\ "lidar_range" \notin in.flags => Applied(1)["range"] = "120.0"
  BY <1>4, <1>8, <1>9 DEF LidarListed
<1>13. t[1][2] = <<"pointcloud_raw_ex">> /\ t[2][2] = "true" /\ t[3][2] = "velodyne_top"
  BY <1>4, <1>9 DEF LidarListed
<1> QED
  BY <1>8, <1>11, <1>12, <1>13

(* The IMU that is spawned.                                                *)
LEMMA ImuAsBuilt ==
  ASSUME Raises(2) = {}
  PROVE  /\ "ros_topic_name" \in DOMAIN Applied(2)
         /\ Applied(2)["ros_topic_name"] = <<"imu_raw">>
         /\ Applied(2)["ros_name"] = "tamagawa/imu_link"
         /\ DOMAIN Applied(2) \subseteq {"ros_topic_name", "ros_name", "sensor_tick"}
<1>1. PICK a : a = 2
  OBVIOUS
<1>2. Attributes(a) = ImuAttributes /\ Optional(a) = {"ros2_ackermann_control"}
  BY <1>1 DEF Attributes, Optional
<1>3. ASSUME NEW j \in {1, 2}
      PROVE  /\ ImuAttributes[j][1] \in DOMAIN Applied(a)
             /\ Applied(a)[ImuAttributes[j][1]] = ImuAttributes[j][2]
  <2>1. /\ j \in DOMAIN Attributes(a) /\ ImuAttributes[j][1] \notin Optional(a)
        /\ \A i \in DOMAIN Attributes(a) : Attributes(a)[i][1] = ImuAttributes[j][1] => i = j
    BY <1>2, ImuList
  <2> QED
    BY <1>1, <1>2, <2>1, AppliedValue
<1>4. /\ "ros_topic_name" \in DOMAIN Applied(a) /\ Applied(a)["ros_topic_name"] = <<"imu_raw">>
      /\ Applied(a)["ros_name"] = "tamagawa/imu_link"
  BY <1>3, ImuList
<1>5. DOMAIN Applied(a) \subseteq {"ros_topic_name", "ros_name", "sensor_tick"}
  BY <1>2, ImuList, AppliedKeys
<1> QED
  BY <1>1, <1>4, <1>5

(* A camera that is spawned.                                               *)
LEMMA CameraAsBuilt ==
  ASSUME NEW a \in Nat, a > 2, Raises(a) = {}
  PROVE  /\ "ros_topic_name" \in DOMAIN Applied(a)
         /\ Applied(a)["ros_topic_name"] = CameraTopic(a - 3)
         /\ DOMAIN Applied(a) \subseteq Qos \cup {"ros_topic_name", "ros_name", "image_size_x",
                                                  "image_size_y", "sensor_tick"}
<1>1. PICK j : j = 1
  OBVIOUS
<1>2. Attributes(a) = CameraAttributes(a - 3) /\ Optional(a) = Qos
  BY DEF Attributes, Optional
<1>3. /\ j \in DOMAIN Attributes(a) /\ "ros_topic_name" = Attributes(a)[j][1]
      /\ \A i \in DOMAIN Attributes(a) : Attributes(a)[i][1] = "ros_topic_name" => i = j
      /\ Attributes(a)[j][2] = CameraTopic(a - 3)
  BY <1>1, <1>2, CameraList
<1>4. "ros_topic_name" \notin Optional(a)
  BY <1>2 DEF Qos
<1>5. /\ "ros_topic_name" \in DOMAIN Applied(a)
      /\ Applied(a)["ros_topic_name"] = CameraTopic(a - 3)
  BY <1>3, <1>4, AppliedValue
<1>6. DOMAIN Applied(a) \subseteq Qos \cup {"ros_topic_name", "ros_name", "image_size_x",
                                           "image_size_y", "sensor_tick"}
  BY <1>2, CameraList, AppliedKeys DEF Qos
<1> QED
  BY <1>5, <1>6

(* The first error on a build without the native LiDAR names it.           *)
LEMMA NamedFirst ==
  ASSUME IsRun(in), in.lacks \cap {"ros_topic_name", "ros2_extended_lidar"} # {}
  PROVE  /\ Raises(1) # {} /\ FirstRaise(1) \in Required(1)
         /\ SetBefore(1) \subseteq {"ros_topic_name"} \ in.lacks
<1> DEFINE t == TopLidarAttributes(BuildLidarOverrides(in.flags))
<1>1. Attributes(1) = t
  BY DEF Attributes
<1>2. /\ DOMAIN t = 1..11
      /\ t[1][1] = "ros_topic_name" /\ t[2][1] = "ros2_extended_lidar"
  BY LidarList DEF LidarListed
<1> HIDE DEF t
<1>3. \A i \in 1..11 : i \in Raises(1) <=> t[i][1] \in in.lacks
                                            /\ t[i][1] # "ros2_ackermann_control"
  BY <1>1, <1>2 DEF Raises, Declares, Optional
<1>4. Raises(1) \subseteq 1..11
  BY <1>1, <1>2 DEF Raises
<1>5. Required(1) = {"ros_topic_name", "ros2_extended_lidar"}
  BY DEF Required
<1>6. FirstRaise(1) = t[CHOOSE i \in Raises(1) : \A j \in Raises(1) : i <= j][1]
  BY <1>1 DEF FirstRaise
<1>7. \A key \in SetBefore(1) : \E k \in 1..11 : /\ key = t[k][1] /\ key \notin in.lacks
                                                 /\ \A j \in Raises(1) : k < j
  BY <1>1, <1>2 DEF SetBefore, Declares
<1>8. CASE "ros_topic_name" \in in.lacks
  <2>1. 1 \in Raises(1)
    BY <1>2, <1>3, <1>8
  <2>2. (CHOOSE i \in Raises(1) : \A j \in Raises(1) : i <= j) = 1
    BY <1>4, <2>1
  <2>3. SetBefore(1) = {}
    BY <1>7, <2>1
  <2> QED
    BY <1>2, <1>5, <1>6, <2>1, <2>2, <2>3
<1>9. CASE "ros_topic_name" \notin in.lacks
  <2>1. 2 \in Raises(1) /\ 1 \notin Raises(1)
    BY <1>2, <1>3, <1>9
  <2>2. (CHOOSE i \in Raises(1) : \A j \in Raises(1) : i <= j) = 2
    BY <1>4, <2>1
  <2>3. SetBefore(1) \subseteq {"ros_topic_name"} \ in.lacks
    <3>1. \A k \in 1..11 : k < 2 => t[k][1] = "ros_topic_name"
      BY <1>2
    <3> QED
      BY <1>7, <2>1, <3>1
  <2> QED
    BY <1>2, <1>5, <1>6, <2>1, <2>2, <2>3
<1> QED
  BY <1>8, <1>9

(* Nothing that is not native comes before an attribute that is missing.   *)
LEMMA OnlyNativeBefore ==
  ASSUME IsRun(in), NEW a \in Nat, Raises(a) # {}
  PROVE  SetBefore(a) \subseteq Native
<1> DEFINE t == Attributes(a)
<1>1. PICK j \in DOMAIN t : j \in Raises(a) /\ t[j][1] \in Native
  BY DEF Raises, Declares, IsRun, Qos, Native
<1>2. \A key \in SetBefore(a) : \E k \in DOMAIN t : key = t[k][1] /\ k < j
  BY <1>1 DEF SetBefore
<1>3. CASE a = 0
  <2>1. t = EgoAttributes /\ Optional(a) = {"ros2_ackermann_control"}
    BY <1>3 DEF Attributes, Optional
  <2>2. DOMAIN t = 1..2 /\ t[1][1] = "role_name" /\ t[2][1] = "ros2_ackermann_control"
    BY <2>1 DEF EgoAttributes
  <2> QED
    BY <1>1, <2>1, <2>2 DEF Raises, Native
<1>4. CASE a = 1
  <2>1. LidarListed(t, BuildLidarOverrides(in.flags))
    BY <1>4, LidarList DEF Attributes
  <2> HIDE DEF t
  <2> QED
    BY <1>1, <1>2, <2>1 DEF LidarListed, Native
<1>5. CASE a = 2
  <2>1. t = ImuAttributes
    BY <1>5 DEF Attributes
  <2> HIDE DEF t
  <2> QED
    BY <1>1, <1>2, <2>1, ImuList DEF Native
<1>6. CASE a > 2
  <2>1. t = CameraAttributes(a - 3)
    BY <1>6 DEF Attributes
  <2>2. /\ DOMAIN t = 1..8
        /\ t[1][1] = "ros_topic_name" /\ t[2][1] = "ros_name"
        /\ t[3][1] = "ros2_qos_reliability" /\ t[4][1] = "ros2_qos_durability"
        /\ t[5][1] = "ros2_qos_history_depth" /\ t[6][1] = "image_size_x"
        /\ t[7][1] = "image_size_y" /\ t[8][1] = "sensor_tick"
    BY <2>1, CameraList
  <2> HIDE DEF t
  <2> QED
    BY <1>1, <1>2, <2>2 DEF Native
<1> QED
  BY <1>3, <1>4, <1>5, <1>6

-------------------------------------------------------------------------------
(* Where the ego was asked to stand.                                       *)
AskedPose == IF in.initialPose THEN <<"asked">> ELSE <<"point", in.spawnIndex>>

(* The rig so far is made of the actors in their order, none of which met  *)
(* an error, for the run that was asked for.                               *)
BuiltInv ==
  /\ IsRun(in)
  /\ rig \in Seq({Actor(a) : a \in Nat})
  /\ Len(rig) <= 3 + in.cameras
  /\ \A i \in 1..Len(rig) :
       /\ rig[i] = Actor(i - 1)
       /\ Raises(i - 1) = {}
       /\ i \in {2, 3} => Frame(i - 1) \in DOMAIN in.kit
  /\ stage \in {"start", "pose"} => rig = <<>> /\ pose = <<>>
  /\ stage = "spawn" => Len(rig) <= 2 + in.cameras
  /\ stage = "spawn" \/ rig # <<>> => pose = AskedPose
  /\ stage = "end" /\ Len(rig) = 1 /\ status # "frame"
       /\ in.lacks \cap {"ros_topic_name", "ros2_extended_lidar"} # {} =>
         status = "named" /\ left \subseteq {"ros_topic_name"} \ in.lacks

(* An actor is added.                                                      *)
LEMMA Grown ==
  ASSUME NEW S, NEW r \in Seq(S), NEW e, NEW T, S \subseteq T, e \in T
  PROVE  /\ Append(r, e) \in Seq(T)
         /\ Len(Append(r, e)) = Len(r) + 1
         /\ \A i \in 1..Len(r) : Append(r, e)[i] = r[i]
         /\ Append(r, e)[Len(r) + 1] = e
         /\ Append(r, e) # <<>>
<1>1. r \in Seq(T)
  OBVIOUS
<1> QED
  BY <1>1

(* There is no rig yet.                                                    *)
LEMMA BuiltInit ==
  ASSUME RigInit
  PROVE  BuiltInv
<1>1. rig = <<>> /\ IsRun(in) /\ stage = "start" /\ pose = <<>>
  BY InputsAreRuns DEF RigInit
<1>2. Len(rig) = 0 /\ rig \in Seq({Actor(a) : a \in Nat})
  BY <1>1
<1>3. in.cameras \in Nat
  BY <1>1 DEF IsRun
<1> QED
  BY <1>1, <1>2, <1>3 DEF BuiltInv

(* What an actor would be depends on the input and the pose alone.         *)
LEMMA SameActors ==
  ASSUME in' = in, pose' = pose
  PROVE  \A a : Actor(a)' = Actor(a) /\ Raises(a)' = Raises(a)
BY DEF Actor, Applied, Attributes, Declares, Location, RotationOf,
       Raises, Optional

(* A step that ends the run leaves the rig.                                *)
LEMMA BuiltEnd ==
  ASSUME BuiltInv, NEW s, NEW set, End(s, set),
         stage = "spawn" /\ Len(rig) = 1 /\ s # "frame"
           /\ in.lacks \cap {"ros_topic_name", "ros2_extended_lidar"} # {} =>
             s = "named" /\ set \subseteq {"ros_topic_name"} \ in.lacks,
         stage \in {"start", "pose", "spawn"}
  PROVE  BuiltInv'
<1>1. UNCHANGED <<in, pose, rig>> /\ stage' = "end" /\ status' = s /\ left' = set
  BY DEF End
<1>2. \A a : Actor(a)' = Actor(a) /\ Raises(a)' = Raises(a)
  BY <1>1, SameActors
<1>3. AskedPose' = AskedPose
  BY <1>1 DEF AskedPose
<1>4. stage # "spawn" => Len(rig) # 1
  <2>1. stage # "spawn" => rig = <<>>
    BY DEF BuiltInv
  <2>2. Len(<<>>) # 1
    OBVIOUS
  <2> QED
    BY <2>1, <2>2
<1> QED
  BY <1>1, <1>2, <1>3, <1>4 DEF BuiltInv

(* An actor is spawned.                                                    *)
LEMMA BuiltSpawn ==
  ASSUME BuiltInv, Spawn
  PROVE  BuiltInv'
<1> DEFINE a == Len(rig)
           S == {Actor(b) : b \in Nat}
<1>1. a \in Nat /\ a <= 2 + in.cameras /\ in.cameras \in Nat /\ rig \in Seq(S) /\ stage = "spawn"
  BY DEF BuiltInv, Spawn, IsRun
<1>2. CASE a \in {1, 2} /\ Frame(a) \notin DOMAIN in.kit
  <2>1. End("frame", {})
    BY <1>2 DEF Spawn
  <2> QED
    BY <1>1, <2>1, BuiltEnd
<1>3. CASE ~(a \in {1, 2} /\ Frame(a) \notin DOMAIN in.kit) /\ Raises(a) # {}
  <2>1. PICK s : s = (IF FirstRaise(a) \in Required(a) THEN "named" ELSE "attribute")
    OBVIOUS
  <2>2. End(s, SetBefore(a))
    BY <1>3, <2>1 DEF Spawn
  <2>3. ASSUME a = 1, in.lacks \cap {"ros_topic_name", "ros2_extended_lidar"} # {}
        PROVE  s = "named" /\ SetBefore(a) \subseteq {"ros_topic_name"} \ in.lacks
    <3>1. IsRun(in)
      BY DEF BuiltInv
    <3>2. FirstRaise(1) \in Required(1) /\ SetBefore(1) \subseteq {"ros_topic_name"} \ in.lacks
      BY <2>3, <3>1, NamedFirst
    <3> QED
      BY <2>1, <2>3, <3>2
  <2> QED
    BY <1>1, <2>2, <2>3, BuiltEnd
<1>4. CASE ~(a \in {1, 2} /\ Frame(a) \notin DOMAIN in.kit) /\ Raises(a) = {}
  <2>1. /\ rig' = Append(rig, Actor(a))
        /\ stage' = IF a = 2 + in.cameras THEN "loop" ELSE "spawn"
        /\ UNCHANGED <<in, pose, left, status>>
    BY <1>4 DEF Spawn
  <2>2. \A b : Actor(b)' = Actor(b) /\ Raises(b)' = Raises(b)
    BY <2>1, SameActors
  <2>3. AskedPose' = AskedPose
    BY <2>1 DEF AskedPose
  <2>4. /\ rig' \in Seq(S) /\ Len(rig') = a + 1 /\ rig' # <<>>
        /\ \A i \in 1..a : rig'[i] = rig[i]
        /\ rig'[a + 1] = Actor(a)
    BY <1>1, <2>1, Grown
  <2>5. Seq(S)' = Seq(S)
    BY <2>2
  <2>6. ASSUME NEW i \in 1..Len(rig')
        PROVE  /\ rig'[i] = Actor(i - 1)' /\ Raises(i - 1)' = {}
               /\ i \in {2, 3} => Frame(i - 1)' \in DOMAIN in'.kit
    <3>1. CASE i \in 1..a
      BY <2>1, <2>2, <2>4, <3>1 DEF BuiltInv, Frame
    <3>2. CASE i = a + 1
      <4>1. i - 1 = a
        BY <1>1, <3>2
      <4>2. rig'[i] = Actor(i - 1)' /\ Raises(i - 1)' = {}
        BY <1>4, <2>2, <2>4, <3>2, <4>1
      <4>3. i \in {2, 3} => Frame(i - 1) \in DOMAIN in.kit
        BY <1>1, <1>4, <3>2, <4>1
      <4> QED
        BY <2>1, <4>2, <4>3 DEF Frame
    <3> QED
      BY <1>1, <2>4, <3>1, <3>2
  <2>7. Len(rig') <= 3 + in.cameras /\ (stage' = "spawn" => Len(rig') <= 2 + in.cameras)
    BY <1>1, <2>1, <2>4
  <2>8. stage' \in {"loop", "spawn"} /\ pose = AskedPose /\ IsRun(in)
    BY <1>1, <2>1 DEF BuiltInv
  <2> QED
    BY <2>1, <2>3, <2>4, <2>5, <2>6, <2>7, <2>8 DEF BuiltInv
<1> QED
  BY <1>2, <1>3, <1>4

(* The pose is chosen.                                                     *)
LEMMA BuiltPose ==
  ASSUME BuiltInv, ChoosePose
  PROVE  BuiltInv'
<1> DEFINE chosen == IF in.initialPose THEN {<<"asked">>}
               ELSE {<<"point", i>> : i \in SelectSpawnPoint(in.spawnIndex, in.points)}
<1>1. stage = "pose" /\ rig = <<>> /\ Len(rig) = 0 /\ in.cameras \in Nat
  BY DEF BuiltInv, ChoosePose, IsRun
<1>2. CASE chosen = {}
  <2>1. End("1", {})
    BY <1>2 DEF ChoosePose
  <2> QED
    BY <1>1, <2>1, BuiltEnd
<1>3. CASE chosen # {}
  <2>1. pose' \in chosen /\ stage' = "spawn" /\ UNCHANGED <<in, rig, left, status>>
    BY <1>3 DEF ChoosePose
  <2>2. pose' = AskedPose
    BY <2>1 DEF AskedPose, SelectSpawnPoint
  <2>3. AskedPose' = AskedPose
    BY <2>1 DEF AskedPose
  <2>4. rig' = <<>> /\ Len(rig') = 0 /\ rig' \in Seq({Actor(a) : a \in Nat})'
    BY <1>1, <2>1
  <2>5. IsRun(in')
    BY <2>1 DEF BuiltInv
  <2> QED
    BY <1>1, <2>1, <2>2, <2>3, <2>4, <2>5 DEF BuiltInv
<1> QED
  BY <1>2, <1>3

(* Every step of main() keeps the invariant.                               *)
LEMMA BuiltNext ==
  ASSUME BuiltInv, [RigNext]_rigVars
  PROVE  BuiltInv'
<1>1. CASE ExtensionCheck
  <2>1. PICK s : End(s, {}) /\ stage = "start"
    BY <1>1 DEF ExtensionCheck
  <2> QED
    BY <2>1, BuiltEnd
<1>2. CASE Preflight
  <2>1. CASE in.files = "ok"
    <3>1. stage = "start" /\ stage' = "pose" /\ UNCHANGED <<in, pose, rig, left, status>>
      BY <1>2, <2>1 DEF Preflight
    <3>2. \A a : Actor(a)' = Actor(a) /\ Raises(a)' = Raises(a)
      BY <3>1, SameActors
    <3> QED
      BY <3>1, <3>2 DEF BuiltInv, AskedPose
  <2>2. CASE in.files # "ok"
    <3>1. PICK s : End(s, {}) /\ stage = "start"
      BY <1>2, <2>2 DEF Preflight
    <3> QED
      BY <3>1, BuiltEnd
  <2> QED
    BY <2>1, <2>2
<1>3. CASE UNCHANGED rigVars
  <2>1. \A a : Actor(a)' = Actor(a) /\ Raises(a)' = Raises(a)
    BY <1>3, SameActors DEF rigVars
  <2> QED
    BY <1>3, <2>1 DEF rigVars, BuiltInv, AskedPose
<1> QED
  BY <1>1, <1>2, <1>3, BuiltPose, BuiltSpawn DEF RigNext

(* spawn.py:247-283, 363-376, __main__.py:288-299: whatever the input, the *)
(* rig is at every moment the first actors of the ones asked for, in their *)
(* order, none of which met an error.                                      *)
THEOREM RigIsBuilt == RigSpec => []BuiltInv
<1>1. RigInit => BuiltInv
  BY BuiltInit
<1>2. BuiltInv /\ [RigNext]_rigVars => BuiltInv'
  BY BuiltNext
<1> QED
  BY <1>1, <1>2, PTL DEF RigSpec

(* What the rig holds, sensor by sensor.                                   *)
LEMMA SensorsAsBuilt ==
  ASSUME BuiltInv, NEW i \in Sensors
  PROVE  /\ i \in 2..Len(rig)
         /\ rig[i].attrs = Applied(i - 1) /\ Raises(i - 1) = {}
         /\ rig[i].at = Location(i - 1) /\ rig[i].rotation = RotationOf(i - 1)
         /\ "ros_topic_name" \in DOMAIN Applied(i - 1)
<1>1. i \in 2..Len(rig)
  BY DEF BuiltInv, Sensors
<1>2. rig[i] = Actor(i - 1) /\ Raises(i - 1) = {}
  BY <1>1 DEF BuiltInv
<1>3. i - 1 \in Nat /\ i - 1 # 0
  BY <1>1
<1>4. Actor(i - 1) = [attrs |-> Applied(i - 1), at |-> Location(i - 1),
                      rotation |-> RotationOf(i - 1)]
  BY <1>3 DEF Actor
<1>5. "ros_topic_name" \in DOMAIN Applied(i - 1)
  <2>1. CASE i = 2
    <3>1. i - 1 = 1 /\ IsRun(in)
      BY <2>1 DEF BuiltInv
    <3> QED
      BY <1>2, <3>1, LidarAsBuilt
  <2>2. CASE i = 3
    <3>1. i - 1 = 2
      BY <2>2
    <3> QED
      BY <1>2, <3>1, ImuAsBuilt
  <2>3. CASE i > 3
    <3>1. i - 1 > 2
      BY <1>1, <2>3
    <3> QED
      BY <1>2, <1>3, <3>1, CameraAsBuilt
  <2> QED
    BY <1>1, <2>1, <2>2, <2>3
<1> QED
  BY <1>1, <1>2, <1>4, <1>5

(* The topics of the three kinds of sensor.                                *)
LEMMA TopicsAsBuilt ==
  ASSUME BuiltInv, NEW i \in Sensors
  PROVE  rig[i].attrs["ros_topic_name"] =
           CASE i = 2 -> <<"pointcloud_raw_ex">>
             [] i = 3 -> <<"imu_raw">>
             [] OTHER -> CameraTopic(i - 4)
<1>1. i \in 2..Len(rig) /\ rig[i].attrs = Applied(i - 1) /\ Raises(i - 1) = {}
  BY SensorsAsBuilt
<1>2. CASE i = 2
  <2>1. i - 1 = 1 /\ IsRun(in)
    BY <1>2 DEF BuiltInv
  <2> QED
    BY <1>1, <1>2, <2>1, LidarAsBuilt
<1>3. CASE i = 3
  <2>1. i - 1 = 2
    BY <1>3
  <2> QED
    BY <1>1, <1>3, <2>1, ImuAsBuilt
<1>4. CASE i > 3
  <2>1. i - 1 \in Nat /\ i - 1 > 2 /\ (i - 1) - 3 = i - 4
    BY <1>1, <1>4
  <2> QED
    BY <1>1, <1>4, <2>1, CameraAsBuilt
<1> QED
  BY <1>1, <1>2, <1>3, <1>4

(* spawn.py:189-193, 221-225: for any build and any number of cameras, no  *)
(* sensor is spawned without the native topic, no LiDAR with the stock     *)
(* layout, and a build that lacks either is refused by name.               *)
THEOREM RigIsNativeOrNothing == RigSpec => []NativeOrNothing
<1>1. BuiltInv => NativeOrNothing
  <2> SUFFICES ASSUME BuiltInv PROVE NativeOrNothing
    OBVIOUS
  <2>1. \A i \in Sensors : "ros_topic_name" \in DOMAIN rig[i].attrs
    BY SensorsAsBuilt
  <2>2. ASSUME Len(rig) > 1 PROVE rig[2].attrs["ros2_extended_lidar"] = "true"
    <3>1. 2 \in Sensors /\ 2 - 1 = 1 /\ IsRun(in)
      BY <2>2 DEF Sensors, BuiltInv
    <3>2. rig[2].attrs = Applied(1) /\ Raises(1) = {}
      BY <3>1, SensorsAsBuilt
    <3> QED
      BY <3>1, <3>2, LidarAsBuilt
  <2> QED
    BY <2>1, <2>2 DEF NativeOrNothing, BuiltInv
<1> QED
  BY <1>1, RigIsBuilt, PTL

(* __main__.py:54-77, 129-140, 289-299, spawn.py:178-187, 353-369: for any *)
(* options and any number of cameras, each option reaches its attribute of *)
(* the LiDAR and nothing else, no two sensors share a topic, and the ego   *)
(* stands where it was asked to.                                           *)
THEOREM RigIsAsAsked == RigSpec => []AsAsked
<1>1. BuiltInv => AsAsked
  <2> SUFFICES ASSUME BuiltInv PROVE AsAsked
    OBVIOUS
  <2> DEFINE pinned == [channels |-> "128", points_per_second |-> "600000",
                        rotation_frequency |-> "10", range |-> "120.0"]
  <2>1. ASSUME Len(rig) > 1, NEW f \in DOMAIN AttributeOf
        PROVE  rig[2].attrs[AttributeOf[f]] = IF f \in in.flags THEN f ELSE pinned[AttributeOf[f]]
    <3>1. 2 \in Sensors /\ 2 - 1 = 1 /\ IsRun(in)
      BY <2>1 DEF Sensors, BuiltInv
    <3>2. rig[2].attrs = Applied(1) /\ Raises(1) = {}
      BY <3>1, SensorsAsBuilt
    <3>3. CASE f \in in.flags
      BY <3>1, <3>2, <3>3, LidarAsBuilt
    <3>4. CASE f \notin in.flags
      <4>1. Applied(1)[AttributeOf[f]] = pinned[AttributeOf[f]]
        BY <3>1, <3>2, <3>4, LidarAsBuilt DEF AttributeOf
      <4> QED
        BY <3>2, <3>4, <4>1
    <3> QED
      BY <3>3, <3>4
  <2>2. ASSUME NEW i \in Sensors \ {2} PROVE DOMAIN rig[i].attrs \cap DOMAIN pinned = {}
    <3>1. i \in 2..Len(rig) /\ rig[i].attrs = Applied(i - 1) /\ Raises(i - 1) = {}
      BY SensorsAsBuilt
    <3>2. DOMAIN pinned = {"channels", "points_per_second", "rotation_frequency", "range"}
      OBVIOUS
    <3>3. CASE i = 3
      <4>1. i - 1 = 2
        BY <3>3
      <4> QED
        BY <3>1, <3>2, <4>1, ImuAsBuilt
    <3>4. CASE i > 3
      <4>1. i - 1 \in Nat /\ i - 1 > 2
        BY <3>1, <3>4
      <4> QED
        BY <3>1, <3>2, <4>1, CameraAsBuilt DEF Qos
    <3> QED
      BY <3>1, <3>3, <3>4
  <2>3. ASSUME NEW i \in Sensors, NEW j \in Sensors, i # j
        PROVE  rig[i].attrs["ros_topic_name"] # rig[j].attrs["ros_topic_name"]
    <3>1. i \in Nat /\ j \in Nat
      BY DEF BuiltInv, Sensors
    <3>2. \A m, n \in Nat : m # n => CameraTopic(m - 4) # CameraTopic(n - 4)
      BY DEF CameraTopic
    <3>3. \A m \in Nat : /\ CameraTopic(m - 4) # <<"pointcloud_raw_ex">>
                         /\ CameraTopic(m - 4) # <<"imu_raw">>
      BY DEF CameraTopic
    <3>4. <<"pointcloud_raw_ex">> # <<"imu_raw">>
      OBVIOUS
    <3> QED
      BY <2>3, <3>1, <3>2, <3>3, <3>4, TopicsAsBuilt
  <2>4. ASSUME rig # <<>>
        PROVE  rig[1].at = IF in.initialPose THEN <<"asked">> ELSE <<"point", in.spawnIndex>>
    <3>1. 1 \in 1..Len(rig) /\ 1 - 1 = 0
      BY <2>4 DEF BuiltInv
    <3>2. rig[1] = Actor(0) /\ pose = AskedPose
      BY <2>4, <3>1 DEF BuiltInv
    <3>3. Actor(0).at = pose
      BY DEF Actor
    <3> QED
      BY <3>2, <3>3 DEF AskedPose
  <2> QED
    BY <2>1, <2>2, <2>3, <2>4 DEF AsAsked
<1> QED
  BY <1>1, RigIsBuilt, PTL

(* Every entry of a matrix is whole.                                       *)
Whole(n) == \A i, j \in 1..3 : n[i][j] \in Int

(* The point q is the point p raised by j; at is a place, o the origin.    *)
Stacked(at, p, q, o, j) ==
  /\ \E a1, a2, a3 \in Int : at = <<a1, a2, a3>>
  /\ \E p1, p2, p3, w, h \in Int : /\ p = <<p1, p2, p3>> /\ q = <<p1, p2, w>>
                                    /\ w = p3 + h /\ j = <<0, 0, h>>
  /\ o = <<0, 0, 0>>

(* A sensor that stands below the frame it names by the vector j sees      *)
(* every point lower by that vector.                                       *)
LEMMA Lifted ==
  ASSUME NEW at, NEW p, NEW q, NEW o, NEW j, NEW deg,
         Whole(RotatorMatrix(deg)), Stacked(at, p, q, o, j)
  PROVE  LET lift == InCarla(o, deg, j)
             whole == InCarla(at, deg, q)
         IN  /\ InCarla(at, deg, p)
                  = <<whole[1] - lift[1], whole[2] - lift[2], whole[3] - lift[3]>>
             /\ lift[1] \in Int /\ lift[2] \in Int /\ lift[3] \in Int
<1>1. PICK at1 \in Int, at2 \in Int, at3 \in Int : at = <<at1, at2, at3>>
  BY DEF Stacked
<1>2. PICK p1 \in Int, p2 \in Int, p3 \in Int, w \in Int, h \in Int :
        p = <<p1, p2, p3>> /\ q = <<p1, p2, w>> /\ w = p3 + h /\ j = <<0, 0, h>>
  BY DEF Stacked
<1>3. o = <<0, 0, 0>>
  BY DEF Stacked
<1> DEFINE n == RotatorMatrix(deg)
<1>4. PICK n11 \in Int, n12 \in Int, n13 \in Int, n21 \in Int, n22 \in Int, n23 \in Int,
           n31 \in Int, n32 \in Int, n33 \in Int :
        /\ n11 = n[1][1] /\ n12 = n[1][2] /\ n13 = n[1][3]
        /\ n21 = n[2][1] /\ n22 = n[2][2] /\ n23 = n[2][3]
        /\ n31 = n[3][1] /\ n32 = n[3][2] /\ n33 = n[3][3]
  <2> HIDE DEF n
  <2>1. /\ n[1][1] \in Int /\ n[1][2] \in Int /\ n[1][3] \in Int
        /\ n[2][1] \in Int /\ n[2][2] \in Int /\ n[2][3] \in Int
        /\ n[3][1] \in Int /\ n[3][2] \in Int /\ n[3][3] \in Int
    BY DEF n, Whole
  <2> QED
    BY <2>1
<1> HIDE DEF n
<1>5. ASSUME NEW a1 \in Int, NEW a2 \in Int, NEW a3 \in Int,
             NEW q1 \in Int, NEW q2 \in Int, NEW q3 \in Int
      PROVE  InCarla(<<a1, a2, a3>>, deg, <<q1, q2, q3>>)
               = <<a1 + (n11 * q1 + n12 * (-q2) + n13 * q3),
                   a2 + (n21 * q1 + n22 * (-q2) + n23 * q3),
                   a3 + (n31 * q1 + n32 * (-q2) + n33 * q3)>>
  BY <1>4 DEF InCarla, Apply, Axes, Flip, n
<1>6. PICK z \in Int : z = 0
  OBVIOUS
<1>7. InCarla(<<0, 0, 0>>, deg, <<0, 0, h>>)
        = <<z + (n11 * z + n12 * (-z) + n13 * h), z + (n21 * z + n22 * (-z) + n23 * h),
            z + (n31 * z + n32 * (-z) + n33 * h)>>
  <2>1. InCarla(<<z, z, z>>, deg, <<z, z, h>>)
          = <<z + (n11 * z + n12 * (-z) + n13 * h), z + (n21 * z + n22 * (-z) + n23 * h),
              z + (n31 * z + n32 * (-z) + n33 * h)>>
    BY <1>5
  <2> QED
    BY <1>6, <2>1
<1>8. InCarla(<<0, 0, 0>>, deg, <<0, 0, h>>) = <<n13 * h, n23 * h, n33 * h>>
  BY <1>6, <1>7
<1>9. InCarla(<<at1, at2, at3>>, deg, <<p1, p2, w>>)
        = <<at1 + (n11 * p1 + n12 * (-p2) + n13 * w), at2 + (n21 * p1 + n22 * (-p2) + n23 * w),
            at3 + (n31 * p1 + n32 * (-p2) + n33 * w)>>
  BY <1>5
<1>10. n13 * w = n13 * p3 + n13 * h /\ n23 * w = n23 * p3 + n23 * h /\ n33 * w = n33 * p3 + n33 * h
  BY <1>2
<1>11. InCarla(<<at1, at2, at3>>, deg, <<p1, p2, p3>>)
        = <<at1 + (n11 * p1 + n12 * (-p2) + n13 * p3), at2 + (n21 * p1 + n22 * (-p2) + n23 * p3),
            at3 + (n31 * p1 + n32 * (-p2) + n33 * p3)>>
  BY <1>5
<1> DEFINE lift == InCarla(<<0, 0, 0>>, deg, <<0, 0, h>>)
           whole == InCarla(<<at1, at2, at3>>, deg, <<p1, p2, w>>)
           seen == InCarla(<<at1, at2, at3>>, deg, <<p1, p2, p3>>)
<1>12. lift = <<n13 * h, n23 * h, n33 * h>> /\ lift[1] \in Int /\ lift[2] \in Int /\ lift[3] \in Int
  <2> HIDE DEF lift
  <2>1. lift = <<n13 * h, n23 * h, n33 * h>>
    BY <1>8 DEF lift
  <2> QED
    BY <2>1
<1> HIDE DEF lift, whole, seen
<1>13. /\ whole[1] - lift[1] = at1 + (n11 * p1 + n12 * (-p2) + n13 * p3)
       /\ whole[2] - lift[2] = at2 + (n21 * p1 + n22 * (-p2) + n23 * p3)
       /\ whole[3] - lift[3] = at3 + (n31 * p1 + n32 * (-p2) + n33 * p3)
  <2>1. PICK l1 \in Int, l2 \in Int, l3 \in Int :
          l1 = n13 * h /\ l2 = n23 * h /\ l3 = n33 * h /\ lift = <<l1, l2, l3>>
    BY <1>12
  <2>2. PICK k1 \in Int, k2 \in Int, k3 \in Int :
          /\ k1 = n11 * p1 + n12 * (-p2) /\ k2 = n21 * p1 + n22 * (-p2)
          /\ k3 = n31 * p1 + n32 * (-p2)
    OBVIOUS
  <2>3. PICK m1 \in Int, m2 \in Int, m3 \in Int : m1 = n13 * p3 /\ m2 = n23 * p3 /\ m3 = n33 * p3
    OBVIOUS
  <2>4. whole = <<at1 + (k1 + (m1 + l1)), at2 + (k2 + (m2 + l2)), at3 + (k3 + (m3 + l3))>>
    BY <1>9, <1>10, <2>1, <2>2, <2>3 DEF whole
  <2>5. /\ whole[1] - lift[1] = at1 + (k1 + m1) /\ whole[2] - lift[2] = at2 + (k2 + m2)
        /\ whole[3] - lift[3] = at3 + (k3 + m3)
    BY <2>1, <2>4
  <2> QED
    BY <2>2, <2>3, <2>5
<1>14. seen = <<whole[1] - lift[1], whole[2] - lift[2], whole[3] - lift[3]>>
  BY <1>11, <1>13 DEF seen
<1> QED
  BY <1>1, <1>2, <1>3, <1>12, <1>14 DEF lift, whole, seen

(* kit.py:8-17, 38-53, spawn.py:52-60, 342-345: for every kit, whatever    *)
(* the offsets and the mountings in it, the LiDAR and the IMU see a point  *)
(* where Autoware's TF puts that point of the frame their messages name,   *)
(* but for the side of their own offset and, for the LiDAR alone, the      *)
(* height of the scanner above the frame it is mounted at.                 *)
THEOREM RigSeesWhereTfSays == RigSpec => []SeesWhereTfSays
<1>1. BuiltInv => SeesWhereTfSays
  <2> SUFFICES ASSUME BuiltInv, NEW i \in Sensors \cap {2, 3},
                      NEW p \in {<<0, 0, 0>>, <<1, 0, 0>>, <<0, 1, 0>>, <<0, 0, 1>>}
               PROVE  LET name == rig[i].attrs["ros_name"]
                          there == Flip(InNamedFrame(in.kit, name, p))
                          lift == InCarla(<<0, 0, 0>>, rig[i].rotation,
                                          IF i = 2 THEN <<0, 0, ScanHeight>> ELSE <<0, 0, 0>>)
                      IN  InCarla(rig[i].at, rig[i].rotation, p)
                            = <<there[1] - lift[1], there[2] - lift[2] + 2 * rig[i].at[2],
                                there[3] - lift[3]>>
    BY DEF SeesWhereTfSays
  <2> DEFINE bk == in.kit["base"]
             s == in.kit[Frame(i - 1)]
             at == CarlaAttachLocation(bk, s)
             deg == CarlaAttachRotation(bk, s)
             name == rig[i].attrs["ros_name"]
  <2>1. /\ i \in 2..Len(rig)
        /\ rig[i].attrs = Applied(i - 1) /\ Raises(i - 1) = {}
        /\ rig[i].at = Location(i - 1) /\ rig[i].rotation = RotationOf(i - 1)
    BY SensorsAsBuilt
  <2>2. Frame(i - 1) \in DOMAIN in.kit
    BY <2>1 DEF BuiltInv
  <2>3. bk \in Transform6(Int) /\ s \in Transform6(Int)
    <3>1. PICK frames \in SUBSET Frames : in.kit \in [frames \cup {"base"} -> Transform6(Int)]
      BY DEF BuiltInv, IsRun
    <3> QED
      BY <2>2, <3>1
  <2>4. i - 1 \in {1, 2}
    OBVIOUS
  <2>5. rig[i].at = at /\ rig[i].rotation = deg
    BY <2>1, <2>4 DEF Location, RotationOf
  <2>6. PICK p1 \in Int, p2 \in Int, p3 \in Int : p = <<p1, p2, p3>>
    OBVIOUS
  <2>7. PICK h \in Int : h = IF i = 2 THEN ScanHeight ELSE 0
    BY ScanHeightIsALength
  <2>8. TfParent(name) = Frame(i - 1) /\ Joint(name) = <<0, 0, h>>
    <3>1. CASE i = 2
      <4>1. name = "velodyne_top"
        BY <2>1, <3>1, LidarAsBuilt DEF BuiltInv
      <4> QED
        BY <2>7, <3>1, <4>1 DEF TfParent, Joint, Frame
    <3>2. CASE i = 3
      <4>1. name = "tamagawa/imu_link"
        BY <2>1, <3>2, ImuAsBuilt
      <4> QED
        BY <2>7, <3>2, <4>1 DEF TfParent, Joint, Frame
    <3> QED
      BY <3>1, <3>2
  <2> HIDE DEF bk, s, at, deg, name
  <2>9. PICK q3 \in Int : q3 = p3 + h
    OBVIOUS
  <2>10. [k \in Axes |-> p[k] + Joint(name)[k]] = <<p1, p2, q3>>
    BY <2>6, <2>8, <2>9 DEF Axes
  <2>11. InNamedFrame(in.kit, name, p) = InTf(bk, s, <<p1, p2, q3>>)
    BY <2>8, <2>10 DEF InNamedFrame, bk, s
  <2> DEFINE there == Flip(InTf(bk, s, <<p1, p2, q3>>))
             whole == InCarla(at, deg, <<p1, p2, q3>>)
             lift == InCarla(<<0, 0, 0>>, deg, <<0, 0, h>>)
  <2>12. whole = <<there[1], there[2] + 2 * at[2], there[3]>>
    BY <2>3, SeenAt DEF at, deg
  <2>13. PICK t1 \in Int, t2 \in Int, t3 \in Int, a1 \in Int, a2 \in Int, a3 \in Int :
           there = <<t1, t2, t3>> /\ at = <<a1, a2, a3>>
    <3> HIDE DEF there
    <3>1. PICK t1 \in Int, t2 \in Int, t3 \in Int : there = <<t1, t2, t3>>
      BY <2>3, WholeNumbers DEF there
    <3>2. PICK a1 \in Int, a2 \in Int, a3 \in Int : at = <<a1, a2, a3>>
      BY <2>3, WholeNumbers DEF at
    <3> QED
      BY <3>1, <3>2
  <2>14. Whole(RotatorMatrix(deg))
    BY <2>3, AttachedRotation DEF deg, Whole
  <2>15. /\ InCarla(at, deg, p) = <<whole[1] - lift[1], whole[2] - lift[2], whole[3] - lift[3]>>
         /\ lift[1] \in Int /\ lift[2] \in Int /\ lift[3] \in Int
    <3>1. PICK q, o, j : q = <<p1, p2, q3>> /\ o = <<0, 0, 0>> /\ j = <<0, 0, h>>
      OBVIOUS
    <3>2. Stacked(at, p, q, o, j)
      BY <2>6, <2>9, <2>13, <3>1 DEF Stacked
    <3>3. LET d == InCarla(o, deg, j)
              e == InCarla(at, deg, q)
          IN  /\ InCarla(at, deg, p) = <<e[1] - d[1], e[2] - d[2], e[3] - d[3]>>
              /\ d[1] \in Int /\ d[2] \in Int /\ d[3] \in Int
      BY <2>14, <3>2, Lifted
    <3> QED
      BY <3>1, <3>3
  <2> HIDE DEF whole, lift, there
  <2>16. InCarla(at, deg, p) = <<there[1] - lift[1], there[2] - lift[2] + 2 * at[2],
                                there[3] - lift[3]>>
    BY <2>12, <2>13, <2>15
  <2>17. lift = InCarla(<<0, 0, 0>>, deg, IF i = 2 THEN <<0, 0, ScanHeight>> ELSE <<0, 0, 0>>)
    BY <2>7 DEF lift
  <2> QED
    BY <2>5, <2>11, <2>16, <2>17 DEF there, name
<1> QED
  BY <1>1, RigIsBuilt, PTL

(* Every variable of the rig keeps to its type: in particular the pose is  *)
(* a spawn point that the map has, and no actor is spawned past the last   *)
(* camera asked for.                                                       *)
THEOREM RigTypeCorrect == RigSpec => []RigTypeOK
<1> DEFINE Places == {"start", "pose", "spawn", "loop", "end"}
           Ends == {"none", "0", "1", "named", "attribute", "frame", "parse"}
           Poses == {<<>>, <<"asked">>} \cup {<<"point", i>> : i \in 0..(in.points - 1)}
           Typed == stage \in Places /\ pose \in Poses /\ status \in Ends /\ left \subseteq Native
<1>1. RigInit => Typed
  BY DEF RigInit
<1>2. ASSUME BuiltInv, Typed, [RigNext]_rigVars PROVE Typed'
  <2>1. ASSUME NEW e \in Ends, NEW set \in SUBSET Native, End(e, set) PROVE Typed'
    BY <1>2, <2>1 DEF End
  <2>2. CASE ExtensionCheck
    BY <2>1, <2>2 DEF ExtensionCheck
  <2>3. CASE Preflight
    <3>1. CASE in.files = "ok"
      BY <1>2, <2>3, <3>1 DEF Preflight
    <3>2. CASE in.files # "ok"
      BY <2>1, <2>3, <3>2 DEF Preflight
    <3> QED
      BY <3>1, <3>2
  <2>4. CASE ChoosePose
    <3> DEFINE chosen == IF in.initialPose THEN {<<"asked">>}
                 ELSE {<<"point", i>> : i \in SelectSpawnPoint(in.spawnIndex, in.points)}
    <3>1. CASE chosen = {}
      BY <2>1, <2>4, <3>1 DEF ChoosePose
    <3>2. CASE chosen # {}
      <4>1. pose' \in chosen /\ stage' = "spawn" /\ in' = in /\ status' = status /\ left' = left
        BY <2>4, <3>2 DEF ChoosePose
      <4>2. in.spawnIndex \in Int /\ in.points \in Nat
        BY <1>2 DEF BuiltInv, IsRun
      <4>3. chosen \subseteq Poses
        BY <4>2 DEF SelectSpawnPoint
      <4> QED
        BY <1>2, <4>1, <4>3
    <3> QED
      BY <3>1, <3>2
  <2>5. CASE Spawn
    <3>1. Len(rig) \in Nat /\ IsRun(in)
      BY <1>2 DEF BuiltInv
    <3>2. Raises(Len(rig)) # {} => SetBefore(Len(rig)) \in SUBSET Native
      BY <3>1, OnlyNativeBefore
    <3>3. \/ \E e \in Ends, set \in SUBSET Native : End(e, set)
          \/ stage' \in {"loop", "spawn"} /\ UNCHANGED <<in, pose, left, status>>
      BY <2>5, <3>2 DEF Spawn
    <3> QED
      BY <1>2, <2>1, <3>3
  <2>6. CASE UNCHANGED rigVars
    BY <1>2, <2>6 DEF rigVars
  <2> QED
    BY <1>2, <2>2, <2>3, <2>4, <2>5, <2>6 DEF RigNext
<1>3. BuiltInv /\ Typed => RigTypeOK
  BY DEF BuiltInv, RigTypeOK
<1> HIDE DEF Typed
<1> QED
  BY <1>1, <1>2, <1>3, RigIsBuilt, PTL DEF RigSpec

===============================================================================
