---------------------------------- MODULE Kit ----------------------------------
(***************************************************************************)
(* runner/kit.py: where a sensor of the kit is attached to the ego.  The   *)
(* two calibration files give base_link -> kit and kit -> sensor; the      *)
(* runner composes them and hands the result to CARLA, and Autoware builds *)
(* its TF tree from the same files.                                        *)
(*                                                                         *)
(* Angles are counted in right angles, so that sines and cosines are       *)
(* exact; lengths are integers.  The algebra is that of the code: nothing  *)
(* in it depends on the angles being small, and the right angles hold      *)
(* every singular case.  Angles are compared modulo a full turn.           *)
(***************************************************************************)
EXTENDS Integers

Axes == 1..3
Quarters == {-1, 0, 1, 2} \* the range of atan2

(* Transform6; a KitConfig is one for base_to_kit and one per sensor frame.*)
Transform6(Lengths) ==
  [x : Lengths, y : Lengths, z : Lengths, roll : Quarters, pitch : Quarters, yaw : Quarters]

Cos(a) == IF a % 2 = 1 THEN 0 ELSE IF a % 4 = 0 THEN 1 ELSE -1
Sin(a) == IF a % 2 = 0 THEN 0 ELSE IF a % 4 = 1 THEN 1 ELSE -1

(* math.atan2, for a point on an axis or at the origin.                    *)
Atan2(y, x) ==
  CASE y > 0 -> 1
    [] y < 0 -> -1
    [] y = 0 /\ x < 0 -> 2
    [] OTHER -> 0

(* _rotation_matrix, of the cosines and sines of its angles.               *)
Rotation(cr, sr, cp, sp, cy, sy) ==
  <<<<cy * cp, cy * sp * sr - sy * cr, cy * sp * cr + sy * sr>>,
    <<sy * cp, sy * sp * sr + cy * cr, sy * sp * cr - cy * sr>>,
    <<-sp, cp * sr, cp * cr>>>>

RotationMatrix(roll, pitch, yaw) ==
  Rotation(Cos(roll), Sin(roll), Cos(pitch), Sin(pitch), Cos(yaw), Sin(yaw))

(* _apply and _matmul.                                                     *)
Apply(m, v) == [i \in Axes |-> m[i][1] * v[1] + m[i][2] * v[2] + m[i][3] * v[3]]
MatMul(a, b) ==
  [i \in Axes |-> [j \in Axes |-> a[i][1] * b[1][j] + a[i][2] * b[2][j] + a[i][3] * b[3][j]]]

(* sensor_in_base_link.                                                    *)
SensorInBaseLink(bk, s) ==
  LET r == Apply(RotationMatrix(bk.roll, bk.pitch, bk.yaw), <<s.x, s.y, s.z>>)
  IN  <<bk.x + r[1], bk.y + r[2], bk.z + r[3]>>

\* Mutant: no branch for the gimbal singularity.
RpyUnguarded(m) == <<Atan2(m[3][2], m[3][3]),
                     Atan2(-m[3][1], IF m[1][1] = 0 /\ m[2][1] = 0 THEN 0 ELSE 1),
                     Atan2(m[2][1], m[1][1])>>

(* _rpy_from_matrix: away from the singularity, and at it, where the yaw   *)
(* is pinned.                                                              *)
RpyFromMatrix(m) ==
  LET cosPitch == IF m[1][1] = 0 /\ m[2][1] = 0 THEN 0 ELSE 1
      pitch == Atan2(-m[3][1], cosPitch)
  IN  IF cosPitch > 0 THEN <<Atan2(m[3][2], m[3][3]), pitch, Atan2(m[2][1], m[1][1])>>
                      ELSE <<Atan2(-m[2][3], m[2][2]), pitch, 0>>

(* sensor_rotation_in_base_link.                                           *)
SensorRotationInBaseLink(bk, s) ==
  RpyFromMatrix(MatMul(RotationMatrix(bk.roll, bk.pitch, bk.yaw),
                       RotationMatrix(s.roll, s.pitch, s.yaw)))

(* ros_rpy_to_carla_rotation: degrees, and the net change of handedness.   *)
RosRpyToCarlaRotation(rpy) == <<90 * rpy[1], -90 * rpy[2], -90 * rpy[3]>>

(* carla_attach_rotation and carla_attach_location.                        *)
CarlaAttachRotation(bk, s) == RosRpyToCarlaRotation(SensorRotationInBaseLink(bk, s))
CarlaAttachLocation(bk, s) == SensorInBaseLink(bk, s)

-------------------------------------------------------------------------------
(* What the two consumers make of it.                                      *)

(* The frame of an Unreal Rotator, axes as columns, of the cosines and     *)
(* sines of its left-handed roll, pitch and yaw.                           *)
Rotator(cr, sr, cp, sp, cy, sy) ==
  <<<<cp * cy, sr * sp * cy - cr * sy, -(cr * sp * cy + sr * sy)>>,
    <<cp * sy, sr * sp * sy + cr * cy, cy * sr - cr * sp * sy>>,
    <<sp, -(sr * cp), cr * cp>>>>

RotatorMatrix(deg) ==
  LET q == [i \in Axes |-> deg[i] \div 90]
  IN  Rotator(Cos(q[1]), Sin(q[1]), Cos(q[2]), Sin(q[2]), Cos(q[3]), Sin(q[3]))

(* M = diag(1, -1, 1), which leads from base_link's axes to CARLA's.       *)
Flip(v) == <<v[1], -v[2], v[3]>>

(* URDF: a point turned about the fixed X, then Y, then Z axis.            *)
AboutX(a, v) == <<v[1], Cos(a) * v[2] - Sin(a) * v[3], Sin(a) * v[2] + Cos(a) * v[3]>>
AboutY(a, v) == <<Cos(a) * v[1] + Sin(a) * v[3], v[2], Cos(a) * v[3] - Sin(a) * v[1]>>
AboutZ(a, v) == <<Cos(a) * v[1] - Sin(a) * v[2], Sin(a) * v[1] + Cos(a) * v[2], v[3]>>

(* TF: the position of a point p of the sensor's frame in base_link, one   *)
(* transform after the other.                                              *)
Through(t, p) ==
  LET r == AboutZ(t.yaw, AboutY(t.pitch, AboutX(t.roll, p)))
  IN  <<t.x + r[1], t.y + r[2], t.z + r[3]>>
InTf(bk, s, p) == Through(bk, Through(s, p))

(* CARLA: the same point in the ego's axes, of a sensor attached at at     *)
(* with the Rotator rotation.  The sensor's own axes are left-handed.      *)
InCarla(at, rotation, p) ==
  LET r == Apply(RotatorMatrix(rotation), Flip(p))
  IN  <<at[1] + r[1], at[2] + r[2], at[3] + r[3]>>
===============================================================================
