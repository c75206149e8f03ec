------------------------------ MODULE MCSensorRig ------------------------------
EXTENDS SensorRig

At(x, y, z, r, p, w) == [x |-> x, y |-> y, z |-> z, roll |-> r, pitch |-> p, yaw |-> w]

(* The committed kit, its angles rounded to right angles: the LiDAR turned *)
(* to the left, the IMU upside down, both at the origin of the kit.        *)
Committed == [f \in Frames \cup {"base"} |->
  CASE f = "base" -> At(1, 0, 2, 0, 0, 0)
    [] f = "tamagawa/imu_link" -> At(0, 0, 0, 2, 0, 2)
    [] OTHER -> At(0, 0, 0, 0, 0, 1)]

Usual == [check |-> "none", files |-> "ok", kit |-> Committed, lacks |-> {}, flags |-> {},
          cameras |-> 0, initialPose |-> FALSE, spawnIndex |-> 0, points |-> 1]

(* Every mounting of the kit with every mounting of a sensor in it, ahead *)
(* and to the left of the kit's origin.                                    *)
Kits ==
  {[Usual EXCEPT !.kit["base"] = b, !.kit["velodyne_top_base_link"] = s] :
     b \in {At(1, 0, 2, r, p, w) : r, p, w \in Quarters},
     s \in {At(1, 2, 0, r, p, w) : r, p, w \in Quarters}}

(* Every build, with and without cameras, and every choice of options.     *)
Builds == {[Usual EXCEPT !.lacks = l, !.cameras = c] : l \in SUBSET Native, c \in {0, 2}}
Options == {[Usual EXCEPT !.flags = f, !.cameras = 1] : f \in SUBSET DOMAIN AttributeOf}

(* The rest of the command line and of the files.                          *)
Lines ==
  {[Usual EXCEPT !.check = c, !.files = f, !.initialPose = g, !.spawnIndex = i, !.points = n] :
     c \in {"none", "exports", "absent"}, f \in {"ok", "missing", "malformed"}, g \in BOOLEAN,
     i \in -1..2, n \in 0..2}
Partial == {[Usual EXCEPT !.kit = [f \in fs \cup {"base"} |-> Committed[f]]] : fs \in SUBSET Frames}

MCInputs == Kits \cup Builds \cup Options \cup Lines \cup Partial
===============================================================================
