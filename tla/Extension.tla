------------------------------- MODULE Extension -------------------------------
(***************************************************************************)
(* libcarla-autoware-extension.so inside the CARLA server: its load by     *)
(* carla_ros2_extension_init, the status observer that the sensor-dispatch *)
(* threads call, the subscriber callbacks of the DDS listener thread, and  *)
(* the unload.  Four parties interleave: the game thread, which loads,     *)
(* reloads the episode, drains staged control and unloads; the dispatch    *)
(* threads; the listener thread; and Autoware, which sends commands.       *)
(*                                                                         *)
(* A cached command byte is represented by the number of the command that  *)
(* it came from, 0 being the idle default; a control by its number.  Sim   *)
(* time is in units of which Second make a second.  The host (CARLA core)  *)
(* is modelled from CarlaRos2Extension.h and is marked external.           *)
(***************************************************************************)
EXTENDS Integers

CONSTANTS
  Threads,     \* the host's sensor-dispatch threads
  Second,      \* units of sim time to the second
  MaxTime,     \* bound: sim time of an episode
  MaxEpisodes, \* bound: episodes
  MaxEgos,     \* bound: registrations of an ego, all episodes together
  MaxCommands  \* bound: messages from Autoware, all topics together

ASSUME ExtensionConstants ==
  /\ Second \in Nat \ {0}
  /\ MaxTime \in Nat
  /\ MaxEpisodes \in Nat
  /\ MaxEgos \in Nat
  /\ MaxCommands \in Nat

(* What the five Inits of the subsystems make, one after the other.  Of    *)
(* ControlSubscribers that is its copy of the host's vtable, which the     *)
(* control callback calls through, and its four subscribers.               *)
Inits == {"status", "gnss", "host_", "control_cmd", "gear", "turn", "hazard", "engage", "bench"}

(* The cached bytes that ext_on_status reads, in its order, and who reads  *)
(* what after whom.                                                        *)
Caches == {"mode", "gear", "turn", "hazard"}
Reads == Caches \cup {"gnss"}
NextRead(r) == CASE r = "mode" -> "gear" [] r = "gear" -> "turn" [] r = "turn" -> "hazard"
                 [] OTHER -> "gnss"

(* The subscriber that fills a cache.                                      *)
Reader(c) == IF c = "mode" THEN "engage" ELSE c

NoControl == [n |-> 0, ego |-> 0]
Controls == [n : 0..MaxCommands, ego : 0..MaxEgos]
NoPose == [t |-> -Second, ep |-> 0]

VARIABLES
  phase,     \* the load: unloaded, create, register, loaded, rejected, down, gone
  versionOk, \* the host's api_version matches
  mapKnown,  \* $CARLA_AUTOWARE_MAP has an offset, or is unset
  allocated, \* ExtensionState is there
  made,      \* what the Inits have made
  observer,  \* the status observer is registered
  vtable,    \* the out-vtable is filled
  sent,      \* messages from Autoware
  cache,     \* the atomics: mode_, gear_, turn_, hazard_
  listener,  \* the control whose callback has asked for the ego
  ego,       \* the host's ego actor, 0 for none
  lastEgo,   \* the last actor that was one
  episode,   \* the host's episode
  clock,     \* the ROS 2 sim clock
  staged,    \* the control that the host has staged
  driving,   \* the control that the ego was last given
  at,        \* per thread: the read of ext_on_status that is next, or "idle"
  frame,     \* per thread: time and episode of its sample
  inputs,    \* per thread: StatusInputs
  lastPub,   \* GnssPosePublisher::last_pub_s_
  arrived,   \* history: the control being handled, with the ego when it arrived
  due,       \* history: the last control handled while one ego was there throughout
  shown,     \* history: the commands that the last status reports showed
  pose,      \* history: the last GNSS pose published
  poses,     \* history: how many were
  seen       \* history: episode, first and last sample that the decimator saw

load == <<phase, versionOk, mapKnown, allocated, made, observer, vtable>>
host == <<ego, lastEgo, episode, clock, staged, driving>>
dds == <<sent, cache, listener, arrived, due>>
dispatch == <<at, frame, inputs, shown>>
gnss == <<lastPub, pose, poses, seen>>
vars == <<load, host, dds, dispatch, gnss>>

Phases == {"unloaded", "create", "register", "loaded", "rejected", "down", "gone"}
Times == 0..MaxTime

TypeOK ==
  /\ phase \in Phases
  /\ versionOk \in BOOLEAN
  /\ mapKnown \in BOOLEAN
  /\ allocated \in BOOLEAN
  /\ made \subseteq Inits
  /\ observer \in BOOLEAN
  /\ vtable \in BOOLEAN
  /\ sent \in 0..MaxCommands
  /\ cache \in [Caches -> 0..MaxCommands]
  /\ listener \in Controls
  /\ ego \in 0..MaxEgos
  /\ lastEgo \in 0..MaxEgos
  /\ episode \in 0..MaxEpisodes
  /\ clock \in Times
  /\ staged \in Controls
  /\ driving \in Controls
  /\ at \in [Threads -> Reads \cup {"idle", "publish"}]
  /\ frame \in [Threads -> [t : Times, ep : 0..MaxEpisodes]]
  /\ inputs \in [Threads -> [Caches -> 0..MaxCommands]]
  /\ lastPub \in Times \cup {-Second}
  /\ arrived \in Controls
  /\ due \in Controls
  /\ shown \in [Caches -> 0..MaxCommands]
  /\ pose \in [t : Times \cup {-Second}, ep : 0..MaxEpisodes]
  /\ poses \in Nat
  /\ seen \in [ep : 0..MaxEpisodes, first : Times, last : Times]

Init ==
  /\ phase = "unloaded"
  /\ versionOk \in BOOLEAN
  /\ mapKnown \in BOOLEAN
  /\ allocated = FALSE
  /\ made = {}
  /\ observer = FALSE
  /\ vtable = FALSE
  /\ sent = 0
  /\ cache = [c \in Caches |-> 0]
  /\ listener = NoControl
  /\ ego = 0
  /\ lastEgo = 0
  /\ episode = 0
  /\ clock = 0
  /\ staged = NoControl
  /\ driving = NoControl
  /\ at = [d \in Threads |-> "idle"]
  /\ frame = [d \in Threads |-> [t |-> 0, ep |-> 0]]
  /\ inputs = [d \in Threads |-> [c \in Caches |-> 0]]
  /\ lastPub = -Second
  /\ arrived = NoControl
  /\ due = NoControl
  /\ shown = [c \in Caches |-> 0]
  /\ pose = NoPose
  /\ poses = 0
  /\ seen = [ep |-> 0, first |-> 0, last |-> 0]

-------------------------------------------------------------------------------
(* carla_ros2_extension_init, on the loader thread.                        *)

running == <<host, dds, dispatch, gnss>>

(* A version or a map that does not fit.                                   *)
Reject ==
  /\ phase = "unloaded"
  /\ ~versionOk \/ ~mapKnown
  /\ phase' = "rejected"
  /\ UNCHANGED <<versionOk, mapKnown, allocated, made, observer, vtable, running>>

(* new (std::nothrow) fails.                                               *)
AllocFails ==
  /\ phase = "unloaded"
  /\ versionOk /\ mapKnown
  /\ phase' = "rejected"
  /\ UNCHANGED <<versionOk, mapKnown, allocated, made, observer, vtable, running>>

(* new (std::nothrow) ExtensionState().                                    *)
Alloc ==
  /\ phase = "unloaded"
  /\ versionOk /\ mapKnown
  /\ allocated' = TRUE
  /\ phase' = "create"
  /\ UNCHANGED <<versionOk, mapKnown, made, observer, vtable, running>>

Order == <<"status", "gnss", "host_", "control_cmd", "gear", "turn", "hazard", "engage", "bench">>
Before(s) == {Order[i] : i \in {j \in 1..9 : \A k \in 1..9 : Order[k] = s => j < k}}

(* The five Inits, one after the other: a subscriber is called back from   *)
(* the moment it is there, while the later ones are still to be made.      *)
Create(s) ==
  /\ phase = "create"
  /\ made = Before(s)
  /\ made' = made \cup {s}
  /\ phase' = IF made' = Inits THEN "register" ELSE "create"
  /\ UNCHANGED <<versionOk, mapKnown, allocated, observer, vtable, running>>

\* Mutant: the observer is registered by the first Init.
RegisterFirst ==
  /\ phase = "create"
  /\ ~observer
  /\ observer' = TRUE
  /\ UNCHANGED <<phase, versionOk, mapKnown, allocated, made, vtable, running>>

(* register_sensor_observer, last of all.                                  *)
Register ==
  /\ phase = "register"
  /\ ~observer
  /\ observer' = TRUE
  /\ UNCHANGED <<phase, versionOk, mapKnown, allocated, made, vtable, running>>

(* The out-vtable, and return kOk.                                         *)
Return ==
  /\ phase = "register"
  /\ observer
  /\ vtable' = TRUE
  /\ phase' = "loaded"
  /\ UNCHANGED <<versionOk, mapKnown, allocated, made, observer, running>>

(* TeardownExtensionEndpoints: the subscribers are gone and no callback of *)
(* theirs is under way; samples are no longer dispatched.  For a dispatch  *)
(* under way the host promises nothing.                                    *)
Teardown ==
  /\ phase = "loaded"
  /\ listener = NoControl
  /\ phase' = "down"
  /\ made' = {}
  /\ observer' = FALSE
  /\ UNCHANGED <<versionOk, mapKnown, allocated, vtable, running>>

(* on_shutdown: delete the state.                                          *)
OnShutdown ==
  /\ phase = "down"
  /\ allocated' = FALSE
  /\ vtable' = FALSE
  /\ phase' = "gone"
  /\ UNCHANGED <<versionOk, mapKnown, made, observer, running>>

-------------------------------------------------------------------------------
(* The host's game thread.                                                 *)

(* An ego registers, the first of the episode or in the place of another;  *)
(* actor ids are not used twice.                                           *)
RegisterEgo ==
  /\ episode > 0
  /\ lastEgo < MaxEgos
  /\ lastEgo' = lastEgo + 1
  /\ ego' = lastEgo'
  /\ UNCHANGED <<load, episode, clock, staged, driving, dds, dispatch, gnss>>

(* The ego is destroyed, by a runner that ends within the episode.         *)
UnregisterEgo ==
  /\ ego # 0
  /\ ego' = 0
  /\ UNCHANGED <<load, lastEgo, episode, clock, staged, driving, dds, dispatch, gnss>>

(* An episode begins, the first or by load_world: the ego is gone and the  *)
(* sim clock starts again, though not every sample of it is dispatched.    *)
NewEpisode(t) ==
  /\ episode < MaxEpisodes
  /\ episode' = episode + 1
  /\ ego' = 0
  /\ clock' = t
  /\ UNCHANGED <<load, lastEgo, staged, driving, dds, dispatch, gnss>>

(* The sim clock advances.                                                 *)
Tick(t) ==
  /\ episode > 0
  /\ t > clock
  /\ clock' = t
  /\ UNCHANGED <<load, ego, lastEgo, episode, staged, driving, dds, dispatch, gnss>>

(* SetFrame drains what has been staged, for an actor that is still there. *)
SetFrame ==
  /\ staged # NoControl
  /\ driving' = IF staged.ego = ego THEN staged ELSE driving
  /\ staged' = NoControl
  /\ UNCHANGED <<load, ego, lastEgo, episode, clock, dds, dispatch, gnss>>

(* apply_ackermann_control: last wins; a stale actor id is dropped.        *)
Stages(ctl) == staged' = IF ctl.ego = ego THEN ctl ELSE staged

-------------------------------------------------------------------------------
(* The DDS listener thread, once the subscriber is there.                  *)

\* Mutant: a command that does not parse stores the idle default.
CommandArrivesOrIdle(c, parses) ==
  /\ Reader(c) \in made
  /\ listener = NoControl
  /\ sent < MaxCommands
  /\ sent' = sent + 1
  /\ cache' = [cache EXCEPT ![c] = IF parses THEN sent' ELSE 0]
  /\ UNCHANGED <<load, host, listener, arrived, due, dispatch, gnss>>

(* A byte command or an engage: stored if it parses, the cached value      *)
(* otherwise.                                                              *)
CommandArrives(c, parses) ==
  /\ Reader(c) \in made
  /\ listener = NoControl
  /\ sent < MaxCommands
  /\ sent' = sent + 1
  /\ cache' = [cache EXCEPT ![c] = IF parses THEN sent' ELSE @]
  /\ UNCHANGED <<load, host, listener, arrived, due, dispatch, gnss>>

(* A control arrives: dropped if it does not parse or there is no ego.     *)
ControlDropped ==
  /\ "control_cmd" \in made
  /\ listener = NoControl
  /\ sent < MaxCommands
  /\ sent' = sent + 1
  /\ UNCHANGED <<load, host, cache, listener, arrived, due, dispatch, gnss>>

\* Mutant: the ego's id is asked for once and kept.
ControlArrivesCachedEgo ==
  /\ "control_cmd" \in made
  /\ listener = NoControl
  /\ sent < MaxCommands
  /\ ego # 0
  /\ sent' = sent + 1
  /\ listener' = [n |-> sent', ego |-> IF due.ego # 0 THEN due.ego ELSE ego]
  /\ arrived' = [n |-> sent', ego |-> ego]
  /\ UNCHANGED <<load, host, cache, due, dispatch, gnss>>

(* get_ego_actor_id.                                                       *)
ControlArrives ==
  /\ "control_cmd" \in made
  /\ listener = NoControl
  /\ sent < MaxCommands
  /\ ego # 0
  /\ sent' = sent + 1
  /\ listener' = [n |-> sent', ego |-> ego]
  /\ arrived' = listener'
  /\ UNCHANGED <<load, host, cache, due, dispatch, gnss>>

(* apply_ackermann_control with the id just read.                          *)
ControlApplied ==
  /\ listener # NoControl
  /\ Stages(listener)
  /\ due' = IF arrived.ego = ego THEN arrived ELSE due
  /\ listener' = NoControl
  /\ arrived' = NoControl
  /\ UNCHANGED <<load, ego, lastEgo, episode, clock, driving, sent, cache, dispatch, gnss>>

-------------------------------------------------------------------------------
(* ext_on_status on a dispatch thread.                                     *)

(* The host hands the ego's sample to the observer.                        *)
Dispatch(d) ==
  /\ observer
  /\ at[d] = "idle"
  /\ ego # 0
  /\ [t |-> clock, ep |-> episode] \notin {frame[e] : e \in Threads}
  /\ at' = [at EXCEPT ![d] = "mode"]
  /\ frame' = [frame EXCEPT ![d] = [t |-> clock, ep |-> episode]]
  /\ UNCHANGED <<load, host, dds, inputs, shown, gnss>>

(* One atomic load into StatusInputs; after the last, the six reports.     *)
ReadCache(d) ==
  /\ at[d] \in Caches
  /\ inputs' = [inputs EXCEPT ![d][at[d]] = cache[at[d]]]
  /\ at' = [at EXCEPT ![d] = NextRead(at[d])]
  /\ shown' = IF at[d] = "hazard" THEN inputs'[d] ELSE shown
  /\ UNCHANGED <<load, host, dds, frame, gnss>>

\* Mutant: a clock that ran backwards is not looked for.
ShouldPublishForwards(t) == t - lastPub >= Second

(* The decimator's test.                                                   *)
ShouldPublish(t) == t < lastPub \/ t - lastPub >= Second

Saw(f) == seen' = [ep |-> f.ep, first |-> IF f.ep = seen.ep THEN seen.first ELSE f.t, last |-> f.t]

(* Too early: return.                                                      *)
Decimated(d) ==
  /\ at[d] = "gnss"
  /\ ~ShouldPublish(frame[d].t)
  /\ Saw(frame[d])
  /\ at' = [at EXCEPT ![d] = "idle"]
  /\ UNCHANGED <<load, host, dds, frame, inputs, shown, lastPub, pose, poses>>

(* last_pub_s_ has been read and is neither atomic nor locked: another     *)
(* thread may read it before this one has written it.                      *)
PoseDue(d) ==
  /\ at[d] = "gnss"
  /\ ShouldPublish(frame[d].t)
  /\ at' = [at EXCEPT ![d] = "publish"]
  /\ UNCHANGED <<load, host, dds, frame, inputs, shown, gnss>>

(* last_pub_s_ = t, and both poses.                                        *)
PublishPose(d) ==
  /\ at[d] = "publish"
  /\ lastPub' = frame[d].t
  /\ pose' = frame[d]
  /\ poses' = poses + 1
  /\ Saw(frame[d])
  /\ at' = [at EXCEPT ![d] = "idle"]
  /\ UNCHANGED <<load, host, dds, frame, inputs, shown>>

-------------------------------------------------------------------------------
Loader ==
  \/ Reject \/ AllocFails \/ Alloc \/ Register \/ Return \/ Teardown \/ OnShutdown
  \/ \E s \in Inits : Create(s)

GameThread ==
  \/ RegisterEgo \/ UnregisterEgo \/ SetFrame
  \/ \E t \in Times : NewEpisode(t) \/ Tick(t)

Listener ==
  \/ \E c \in Caches, parses \in BOOLEAN : CommandArrives(c, parses)
  \/ ControlDropped \/ ControlArrives \/ ControlApplied

(* What a dispatch that the unload overtook does with a state that is      *)
(* deleted under it is undefined, and is not followed.                     *)
Observer(d) ==
  /\ phase \notin {"down", "gone"}
  /\ Dispatch(d) \/ ReadCache(d) \/ Decimated(d) \/ PoseDue(d) \/ PublishPose(d)

Next == Loader \/ GameThread \/ Listener \/ \E d \in Threads : Observer(d)

Spec == Init /\ [][Next]_vars

-------------------------------------------------------------------------------
(* Properties.                                                             *)

(* ExtensionInit.cpp:115-118, 156-172: whenever the listener's callback is *)
(* under way, between two Inits and through the unload too, the state is   *)
(* there and so is the vtable that it calls through; and whenever a sample *)
(* is being dispatched every subsystem has been initialised.  The one      *)
(* exception is a dispatch that the unload overtakes: the contract of      *)
(* CarlaRos2Extension.h:123-128 covers the endpoints and not the observer. *)
CallbacksFindTheirState ==
  /\ phase \notin {"down", "gone"} /\ (\E d \in Threads : at[d] # "idle") =>
       allocated /\ made = Inits
  /\ listener # NoControl => allocated /\ "host_" \in made

(* ControlSubscribers.cpp:95-103 with CarlaRos2Extension.h:150-152: after  *)
(* any number of reloads and of egos in one episode, a control that was    *)
(* handled while the present ego was there is what that ego is driven by,  *)
(* or is about to be.                                                      *)
NewestCommandDrives ==
  ego # 0 /\ due.ego = ego => staged = due \/ (staged = NoControl /\ driving = due)

(* ExtensionInit.cpp:88-97: whatever the listener stores between two reads *)
(* of one sample, no status report ever shows an older command than the    *)
(* report before it.                                                       *)
ReportsNeverGoBack == [][\A c \in Caches : shown'[c] >= shown[c]]_vars

(* GnssPosePublisher.h:33-34: one pose a second at most, unless the sim    *)
(* clock ran backwards.                                                    *)
OnePoseASecond ==
  [][poses' # poses => pose'.t < pose.t \/ pose'.t - pose.t >= Second]_vars

(* GnssPosePublisher.cpp:39-45: the decimator is reload-safe.  Whatever    *)
(* the clock shows after a reload, once samples of an episode have come    *)
(* for a second there is a pose of that episode, less than a second old.   *)
PoseIsFresh ==
  seen.last - seen.first >= Second =>
    pose.ep = seen.ep /\ seen.last - pose.t < Second
===============================================================================
