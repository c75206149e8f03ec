------------------------------- MODULE SensorRig -------------------------------
(***************************************************************************)
(* What runner/__main__.py builds when no call to the server fails: its    *)
(* arguments and preflight, the pose of the ego, and for every actor the   *)
(* attributes that spawn.py puts on its blueprint and the place that       *)
(* kit.py gives it.  Runner has the same calls with their failures.        *)
(*                                                                         *)
(* Actor 0 is the ego, 1 the top LiDAR, 2 the IMU, the rest are cameras.   *)
(* A build of CARLA is known by the native attributes it does not declare; *)
(* the value of an attribute is a name for it.                             *)
(***************************************************************************)
EXTENDS Kit, Sequences, FiniteSets

CONSTANTS
  Inputs,    \* command lines, files and builds: see IsRun
  ScanHeight \* of the scanner in the LiDAR's housing, by its URDF: see Joint

ASSUME ScanHeightIsALength == ScanHeight \in Int

Native == {"ros_topic_name", "ros_name", "ros2_extended_lidar", "ros2_ackermann_control",
           "ros2_qos_reliability", "ros2_qos_durability", "ros2_qos_history_depth"}
Qos == {"ros2_qos_reliability", "ros2_qos_durability", "ros2_qos_history_depth"}
Frames == {"velodyne_top_base_link", "tamagawa/imu_link"}

(* The option of the command line and the attribute it overrides.          *)
AttributeOf == [lidar_channels |-> "channels", lidar_pps |-> "points_per_second",
                lidar_rotation_hz |-> "rotation_frequency", lidar_range |-> "range"]

(* A command line, the files it names and the build it meets.              *)
IsRun(run) ==
  /\ run.check \in {"none", "exports", "absent"}  \* --extension-check, and what nm says
  /\ run.files \in {"ok", "missing", "malformed"} \* the two calibration files
  /\ \E frames \in SUBSET Frames :                \* as far as they go
       run.kit \in [frames \cup {"base"} -> Transform6(Int)]
  /\ run.lacks \subseteq Native                   \* what the build does not declare
  /\ run.flags \subseteq DOMAIN AttributeOf       \* --lidar-*
  /\ run.cameras \in Nat                          \* --cameras
  /\ run.initialPose \in BOOLEAN                  \* --initial-pose
  /\ run.spawnIndex \in Int                       \* --spawn-index
  /\ run.points \in Nat                           \* spawn points of the map

ASSUME InputsAreRuns == \A run \in Inputs : IsRun(run)

VARIABLES
  in,     \* the input of this run
  stage,  \* start, pose, spawn, loop or end
  pose,   \* where the ego goes: <<>>, <<"asked">> or <<"point", i>>
  rig,    \* every actor spawned, in order; that they are destroyed is Runner's
  left,   \* the attributes already set on the blueprint at which it raised
  status  \* none; 0 or 1; named, attribute, frame, parse: the exception

rigVars == <<in, stage, pose, rig, left, status>>

-------------------------------------------------------------------------------
(* spawn.py: the attributes, in the order of the dictionaries.             *)

(* build_lidar_overrides: the value given stands for itself.               *)
BuildLidarOverrides(flags) ==
  [k \in {AttributeOf[f] : f \in flags} |-> CHOOSE f \in flags : AttributeOf[f] = k]

\* Mutant: the default wins over the override.
WithoutOverrides(attrs, overrides) == attrs

(* _with_overrides; every key of an override is one of attrs.              *)
WithOverrides(attrs, overrides) ==
  [i \in DOMAIN attrs |-> IF attrs[i][1] \in DOMAIN overrides
                          THEN <<attrs[i][1], overrides[attrs[i][1]]>> ELSE attrs[i]]

EgoAttributes == <<<<"role_name", "ego">>, <<"ros2_ackermann_control", "true">>>>

QosProfile == <<<<"ros2_qos_reliability", "best_effort">>, <<"ros2_qos_durability", "volatile">>,
                <<"ros2_qos_history_depth", "5">>>>

\* Mutant: the name before the discriminators.
TopLidarNameFirst(overrides) ==
  WithOverrides(
    <<<<"ros_name", "velodyne_top">>, <<"ros_topic_name", <<"pointcloud_raw_ex">>>>,
      <<"ros2_extended_lidar", "true">>>> \o QosProfile \o
    <<<<"channels", "128">>, <<"rotation_frequency", "10">>, <<"range", "120.0">>,
      <<"points_per_second", "600000">>, <<"sensor_tick", "0.05">>>>, overrides)

(* top_lidar_attributes.                                                   *)
TopLidarAttributes(overrides) ==
  WithOverrides(
    <<<<"ros_topic_name", <<"pointcloud_raw_ex">>>>, <<"ros2_extended_lidar", "true">>,
      <<"ros_name", "velodyne_top">>>> \o QosProfile \o
    <<<<"channels", "128">>, <<"rotation_frequency", "10">>, <<"range", "120.0">>,
      <<"points_per_second", "600000">>, <<"sensor_tick", "0.05">>>>, overrides)

(* imu_attributes.                                                         *)
ImuAttributes == <<<<"ros_topic_name", <<"imu_raw">>>>, <<"ros_name", "tamagawa/imu_link">>,
                   <<"sensor_tick", "0.05">>>>

CameraTopic(index) == <<"image_raw", index>>

(* camera_attributes.                                                      *)
CameraAttributes(index) ==
  <<<<"ros_topic_name", CameraTopic(index)>>, <<"ros_name", CameraTopic(index)>>>> \o QosProfile \o
  <<<<"image_size_x", "1600">>, <<"image_size_y", "900">>, <<"sensor_tick", "0.05">>>>

Attributes(a) ==
  CASE a = 0 -> EgoAttributes
    [] a = 1 -> TopLidarAttributes(BuildLidarOverrides(in.flags))
    [] a = 2 -> ImuAttributes
    [] OTHER -> CameraAttributes(a - 3)

(* sensor.camera.rgb declares no ros2_qos_* in any build.                  *)
Declares(a, key) == key \notin in.lacks /\ ~(a > 2 /\ key \in Qos)

(* The policies that the callers of _apply_attributes choose.              *)
Required(a) == IF a > 2 THEN {"ros_topic_name"} ELSE {"ros_topic_name", "ros2_extended_lidar"}
Optional(a) == IF a > 2 THEN Qos ELSE {"ros2_ackermann_control"}

(* _apply_attributes: the keys at which it raises, the first one counts,   *)
(* and what has been set until then; otherwise all that has been set.      *)
Raises(a) == {i \in DOMAIN Attributes(a) : /\ ~Declares(a, Attributes(a)[i][1])
                                           /\ Attributes(a)[i][1] \notin Optional(a)}
FirstRaise(a) == Attributes(a)[CHOOSE i \in Raises(a) : \A j \in Raises(a) : i <= j][1]
SetBefore(a) == {Attributes(a)[i][1] : i \in {k \in DOMAIN Attributes(a) :
                   Declares(a, Attributes(a)[k][1]) /\ \A j \in Raises(a) : k < j}}
Applied(a) ==
  LET set == {i \in DOMAIN Attributes(a) : Declares(a, Attributes(a)[i][1])}
  IN  [key \in {Attributes(a)[i][1] : i \in set} |->
         Attributes(a)[CHOOSE i \in set : Attributes(a)[i][1] = key][2]]

-------------------------------------------------------------------------------
(* main().                                                                 *)

RigInit ==
  /\ in \in Inputs
  /\ stage = "start"
  /\ pose = <<>>
  /\ rig = <<>>
  /\ left = {}
  /\ status = "none"

End(s, set) == /\ stage' = "end"
               /\ status' = s
               /\ left' = set
               /\ UNCHANGED <<in, pose, rig>>

(* --extension-check: extension_exports_init, and nothing else.            *)
ExtensionCheck ==
  /\ stage = "start"
  /\ in.check # "none"
  /\ End(IF in.check = "exports" THEN "0" ELSE "1", {})

(* The files are looked for; load_kit reads every transform they hold.     *)
Preflight ==
  /\ stage = "start"
  /\ in.check = "none"
  /\ IF in.files = "ok" THEN stage' = "pose" /\ UNCHANGED <<in, pose, rig, left, status>>
                        ELSE End(IF in.files = "missing" THEN "1" ELSE "parse", {})

(* select_spawn_point: the point, or none.                                 *)
SelectSpawnPoint(index, points) == IF 0 <= index /\ index < points THEN {index} ELSE {}

(* --initial-pose, or else the spawn point; connecting, the map and the    *)
(* world's settings lie before this and are Runner's.                      *)
ChoosePose ==
  /\ stage = "pose"
  /\ LET chosen == IF in.initialPose THEN {<<"asked">>}
               ELSE {<<"point", i>> : i \in SelectSpawnPoint(in.spawnIndex, in.points)}
     IN  IF chosen = {} THEN End("1", {})
                        ELSE /\ pose' \in chosen
                             /\ stage' = "spawn"
                             /\ UNCHANGED <<in, rig, left, status>>

(* Where spawn_top_lidar and spawn_imu attach their sensor; the cameras    *)
(* sit at the ego's origin.                                                *)
Frame(a) == IF a = 1 THEN "velodyne_top_base_link" ELSE "tamagawa/imu_link"
Location(a) == IF a > 2 THEN <<0, 0, 0>> ELSE CarlaAttachLocation(in.kit["base"], in.kit[Frame(a)])
RotationOf(a) == IF a > 2 THEN <<0, 0, 0>> ELSE CarlaAttachRotation(in.kit["base"], in.kit[Frame(a)])

(* What the server is asked for.                                           *)
Actor(a) == IF a = 0 THEN [attrs |-> Applied(0), at |-> pose]
            ELSE [attrs |-> Applied(a), at |-> Location(a), rotation |-> RotationOf(a)]

(* spawn_ego, spawn_top_lidar, spawn_imu and spawn_camera: the next actor. *)
(* A frame that the kit does not have is missed only here.                 *)
Spawn ==
  /\ stage = "spawn"
  /\ LET a == Len(rig) IN
     CASE a \in {1, 2} /\ Frame(a) \notin DOMAIN in.kit -> End("frame", {})
       [] ~(a \in {1, 2} /\ Frame(a) \notin DOMAIN in.kit) /\ Raises(a) # {} ->
            End(IF FirstRaise(a) \in Required(a) THEN "named" ELSE "attribute", SetBefore(a))
       [] OTHER ->
            /\ rig' = Append(rig, Actor(a))
            /\ stage' = IF a = 2 + in.cameras THEN "loop" ELSE "spawn"
            /\ UNCHANGED <<in, pose, left, status>>

RigNext == ExtensionCheck \/ Preflight \/ ChoosePose \/ Spawn

RigSpec == RigInit /\ [][RigNext]_rigVars

-------------------------------------------------------------------------------
(* Properties.                                                             *)

Sensors == {i \in DOMAIN rig : i > 1} \* rig[i] is actor i - 1

RigTypeOK ==
  /\ stage \in {"start", "pose", "spawn", "loop", "end"}
  /\ pose \in {<<>>, <<"asked">>} \cup {<<"point", i>> : i \in 0..(in.points - 1)}
  /\ Len(rig) <= 3 + in.cameras
  /\ left \subseteq Native
  /\ status \in {"none", "0", "1", "named", "attribute", "frame", "parse"}

(* The frame of Autoware's TF that ros_name, the header's frame_id, names: *)
(* velodyne_top sits on a frame of the kit by base_scan_joint of the       *)
(* VLS-128's URDF, tamagawa/imu_link is itself a frame of the kit.         *)
TfParent(name) == IF name = "velodyne_top" THEN "velodyne_top_base_link" ELSE name
Joint(name) == IF name = "velodyne_top" THEN <<0, 0, ScanHeight>> ELSE <<0, 0, 0>>
InNamedFrame(kit, name, p) ==
  InTf(kit["base"], kit[TfParent(name)], [k \in Axes |-> p[k] + Joint(name)[k]])

(* kit.py:8-17, 38-53, spawn.py:52-60, 342-345: whatever the mounting      *)
(* angles, the singular ones included, a point that a sensor of the kit    *)
(* sees lies in CARLA's ego frame where Autoware's TF puts a point of the  *)
(* frame that the message names, but for two offsets and no other.  The    *)
(* side of the sensor's own place off the centre line is kept and not      *)
(* mirrored: twice that offset, along Y.  And the LiDAR is mounted at      *)
(* velodyne_top_base_link while its cloud is stamped velodyne_top: TF      *)
(* puts it higher by ScanHeight, along the sensor's own upright axis (the  *)
(* KNOWN RESIDUAL of spawn.py:52-60); the IMU is not lifted.               *)
SeesWhereTfSays ==
  \A i \in Sensors \cap {2, 3}, p \in {<<0, 0, 0>>, <<1, 0, 0>>, <<0, 1, 0>>, <<0, 0, 1>>} :
    LET name == rig[i].attrs["ros_name"]
        tf == Flip(InNamedFrame(in.kit, name, p))
        lift == InCarla(<<0, 0, 0>>, rig[i].rotation, IF i = 2 THEN <<0, 0, ScanHeight>>
                                                               ELSE <<0, 0, 0>>)
    IN  InCarla(rig[i].at, rig[i].rotation, p)
          = <<tf[1] - lift[1], tf[2] - lift[2] + 2 * rig[i].at[2], tf[3] - lift[3]>>

(* spawn.py:189-193, 221-225: no sensor is spawned on a build whose        *)
(* blueprints lack the native topic, no LiDAR with the stock layout, and a *)
(* build that lacks either is refused by the error that names it, whatever *)
(* else it lacks, and before anything but the topic has been set on the    *)
(* blueprint.  (The topic has been, when only ros2_extended_lidar is       *)
(* missing, where spawn.py:190 says that the blueprint is not mutated.)    *)
NativeOrNothing ==
  /\ \A i \in Sensors : "ros_topic_name" \in DOMAIN rig[i].attrs
  /\ Len(rig) > 1 => rig[2].attrs["ros2_extended_lidar"] = "true"
  /\ stage = "end" /\ Len(rig) = 1 /\ status # "frame"
       /\ in.lacks \cap {"ros_topic_name", "ros2_extended_lidar"} # {} =>
         status = "named" /\ left \subseteq {"ros_topic_name"} \ in.lacks

(* __main__.py:54-77, 129-140, 289-299, spawn.py:178-187, 353-369: an      *)
(* option given reaches its own attribute of the LiDAR, one left out       *)
(* leaves the pinned default, none reaches another sensor; no two sensors  *)
(* share a topic; and the ego stands at the pose or the spawn point that   *)
(* was asked for, or there is no ego.                                      *)
AsAsked ==
  LET pinned == [channels |-> "128", points_per_second |-> "600000",
                 rotation_frequency |-> "10", range |-> "120.0"]
  IN  /\ Len(rig) > 1 => \A f \in DOMAIN AttributeOf :
           rig[2].attrs[AttributeOf[f]] = IF f \in in.flags THEN f ELSE pinned[AttributeOf[f]]
      /\ \A i \in Sensors \ {2} : DOMAIN rig[i].attrs \cap DOMAIN pinned = {}
      /\ \A i, j \in Sensors : i # j =>
           rig[i].attrs["ros_topic_name"] # rig[j].attrs["ros_topic_name"]
      /\ rig # <<>> => rig[1].at = IF in.initialPose THEN <<"asked">>
                                   ELSE <<"point", in.spawnIndex>>
===============================================================================
