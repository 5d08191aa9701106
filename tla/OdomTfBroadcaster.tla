------------------------- MODULE OdomTfBroadcaster -------------------------
(***************************************************************************)
(* odom_tf_broadcaster.cpp: odom->base_link from the leg odometry, and     *)
(* base_link->base_stabilized, the frame the lidar is flattened in, from   *)
(* the odometry or from the IMU.                                           *)
(*                                                                         *)
(* Attitudes are integers per axis, fixed-point angles; the filter rounds  *)
(* down where the code computes in doubles.  Stamps are integers; a sample *)
(* may be lost, overtaken or late (SensorDataQoS).  What a sample says is  *)
(* chosen when it is received: nothing looks at it earlier.                *)
(***************************************************************************)
EXTENDS Integers, FiniteSets

CONSTANTS
  Tilts,        \* what the gravity vector, or a quaternion, may say of an axis
  Rates,        \* what the gyro may say of an axis
  MaxTilt,      \* bound on the absolute value of a tilt
  MaxRate,      \* bound on the absolute value of a rate
  cf_tau_,      \* time constant of the filter
  MaxDt,        \* the gap beyond which the filter starts over (0.1 s)
  Offset,       \* roll_offset_, pitch_offset_
  MaxInFlight,  \* bound on samples under way
  MaxStamp      \* bound on stamps

Axes == {"roll", "pitch"}
Attitude == [Axes -> Tilts]

ASSUME FilterAssumption ==
  /\ MaxTilt \in Nat /\ MaxRate \in Nat
  /\ Tilts \subseteq -MaxTilt .. MaxTilt /\ Rates \subseteq -MaxRate .. MaxRate
  /\ cf_tau_ \in Nat \ {0} /\ MaxDt \in Nat \ {0} /\ Offset \in [Axes -> Int]
  /\ MaxInFlight \in Nat /\ MaxStamp \in Nat

VARIABLES
  publish_stabilized_, use_imu_tilt_,   \* fixed by the parameters
  imu_mode_, resolved_mode_,
  have_cf_state_, est,                  \* roll_ and pitch_
  last_imu_time_,
  base, stabilized,                     \* the last broadcast of each transform
  firmware,                             \* does the IMU declare an orientation, by
                                        \* its covariance, and does it fill one in?
  clock, inflight,                      \* the sensors' stamps, and those under way
  samples, broadcasts,                  \* history: IMU samples in, transforms out
  seeded, integrated                    \* history: stamp of the last start of the
                                        \* filter, time integrated since

params == <<publish_stabilized_, use_imu_tilt_, imu_mode_, firmware>>
filter == <<have_cf_state_, est, last_imu_time_, seeded, integrated>>
vars == <<params, resolved_mode_, filter, base, stabilized, clock, inflight,
          samples, broadcasts>>

NoTransform == [stamp |-> -1]
Level == [a \in Axes |-> 0]

Modes == {"auto", "quaternion", "complementary"}

Init ==
  /\ publish_stabilized_ \in BOOLEAN
  /\ \E tilt_source_ \in {"odom", "imu"} :
       use_imu_tilt_ = (publish_stabilized_ /\ tilt_source_ = "imu")
  /\ firmware \in [declares : BOOLEAN, fills : BOOLEAN]
  /\ imu_mode_ \in Modes /\ resolved_mode_ = imu_mode_
  /\ have_cf_state_ = FALSE /\ est = Level /\ last_imu_time_ = 0
  /\ base = NoTransform /\ stabilized = NoTransform
  /\ clock = 0 /\ inflight = {}
  /\ samples = 0 /\ broadcasts = 0 /\ seeded = 0 /\ integrated = 0

-----------------------------------------------------------------------------
\* The sensors and the transport.
Send ==
  /\ Cardinality(inflight) < MaxInFlight
  /\ \E stamp \in clock + 1 .. MaxStamp :
       clock' = stamp /\ inflight' = inflight \cup {stamp}
  /\ UNCHANGED <<params, resolved_mode_, filter, base, stabilized, samples, broadcasts>>

Lost ==
  /\ \E stamp \in inflight : inflight' = inflight \ {stamp}
  /\ UNCHANGED <<params, resolved_mode_, filter, base, stabilized, clock,
                 samples, broadcasts>>

Take(stamp) == stamp \in inflight /\ inflight' = inflight \ {stamp} /\ UNCHANGED clock

\* Mutant: a late sample is broadcast with the stamp of the one before.
SendStabilizedEarlier(stamp, tilt) ==
  stabilized' = [stamp |-> stamp - 1, tilt |-> [a \in Axes |-> tilt[a] - Offset[a]]]

SendStabilized(stamp, tilt) ==
  stabilized' = [stamp |-> stamp, tilt |-> [a \in Axes |-> tilt[a] - Offset[a]]]

-----------------------------------------------------------------------------
\* on_odom; from_odom is publish_stabilized_from_odom, which gives up on an
\* all-zero quaternion (the transform of base_link is sent all the same).
OnOdom(stamp) ==
  /\ Take(stamp)
  /\ \E q \in Attitude, zero_quat \in BOOLEAN :
       LET from_odom == publish_stabilized_ /\ ~use_imu_tilt_ /\ ~zero_quat
       IN  /\ base' = [stamp |-> stamp, tilt |-> q]
           /\ stabilized' = IF from_odom THEN [stamp |-> stamp, tilt |-> q]
                                         ELSE stabilized
  /\ UNCHANGED <<params, resolved_mode_, filter, samples, broadcasts>>

-----------------------------------------------------------------------------
\* Mutant: the covariance flag is read the wrong way round.
ModeSwapped(have_orientation) ==
  IF resolved_mode_ # "auto" THEN resolved_mode_
  ELSE IF have_orientation THEN "complementary" ELSE "quaternion"

\* on_imu.  "auto" is resolved by the first sample, for good.
Mode(have_orientation) ==
  IF resolved_mode_ # "auto" THEN resolved_mode_
  ELSE IF have_orientation THEN "quaternion" ELSE "complementary"

Received(stamp, mode) ==
  /\ use_imu_tilt_ /\ Take(stamp)
  /\ mode = Mode(firmware.declares) /\ resolved_mode_' = mode
  /\ samples' = samples + 1
  /\ UNCHANGED <<params, base>>

Broadcast(stamp, tilt) ==
  SendStabilized(stamp, tilt) /\ broadcasts' = broadcasts + 1

\* The firmware's quaternion is taken as it is, an all-zero one dropped.
OnImuQuaternion(stamp) ==
  /\ Received(stamp, "quaternion") /\ UNCHANGED filter
  /\ IF firmware.fills
       THEN \E q \in Attitude : Broadcast(stamp, q)
       ELSE UNCHANGED <<stabilized, broadcasts>>

\* Mutant: starting over forgets the stamp.
RestartValueOnly(stamp, acc) ==
  /\ est' = acc /\ UNCHANGED last_imu_time_
  /\ seeded' = stamp /\ integrated' = 0

\* The filter starts from gravity: at the first sample, which it does not
\* broadcast, and after a sample that is late or follows a gap, which it does.
Restart(stamp, acc) ==
  /\ est' = acc /\ last_imu_time_' = stamp
  /\ seeded' = stamp /\ integrated' = 0

OnImuSeed(stamp) ==
  /\ Received(stamp, "complementary") /\ ~have_cf_state_
  /\ have_cf_state_' = TRUE
  /\ \E acc \in Attitude : Restart(stamp, acc)
  /\ UNCHANGED <<stabilized, broadcasts>>

\* Mutant: the gap is looked for, but not the sample that was overtaken.
InStepForward(dt) == dt <= MaxDt /\ cf_tau_ + dt > 0
InStep(dt) == dt > 0 /\ dt <= MaxDt

OnImuResync(stamp) ==
  /\ Received(stamp, "complementary") /\ have_cf_state_
  /\ ~InStep(stamp - last_imu_time_)
  /\ \E acc \in Attitude : Restart(stamp, acc) /\ Broadcast(stamp, acc)
  /\ UNCHANGED have_cf_state_

\* alpha * (e + rate * dt) + (1 - alpha) * acc, with alpha = tau / (tau + dt).
Blend(e, rate, acc, dt) ==
  (cf_tau_ * (e + rate * dt) + dt * acc) \div (cf_tau_ + dt)

OnImuBlend(stamp) ==
  /\ Received(stamp, "complementary") /\ have_cf_state_
  /\ LET dt == stamp - last_imu_time_
     IN  /\ InStep(dt)
         /\ \E acc \in Attitude, gyro \in [Axes -> Rates] :
              est' = [a \in Axes |-> Blend(est[a], gyro[a], acc[a], dt)]
         /\ integrated' = integrated + dt
  /\ last_imu_time_' = stamp
  /\ Broadcast(stamp, est')
  /\ UNCHANGED <<have_cf_state_, seeded>>

OnImu(stamp) ==
  OnImuQuaternion(stamp) \/ OnImuSeed(stamp) \/ OnImuResync(stamp) \/ OnImuBlend(stamp)

Next == Send \/ Lost \/ \E stamp \in inflight : OnOdom(stamp) \/ OnImu(stamp)

Spec == Init /\ [][Next]_vars

-----------------------------------------------------------------------------
Transforms(tilts) == {NoTransform} \cup [stamp : 1..MaxStamp, tilt : [Axes -> tilts]]

TypeOK ==
  /\ publish_stabilized_ \in BOOLEAN /\ use_imu_tilt_ \in BOOLEAN
  /\ firmware \in [declares : BOOLEAN, fills : BOOLEAN]
  /\ imu_mode_ \in Modes /\ resolved_mode_ \in Modes
  /\ have_cf_state_ \in BOOLEAN /\ est \in [Axes -> Int]
  /\ last_imu_time_ \in 0..MaxStamp /\ seeded \in 0..MaxStamp
  /\ base \in Transforms(Tilts) /\ stabilized \in Transforms(Int)
  /\ clock \in 0..MaxStamp /\ inflight \subseteq 1..clock
  /\ samples \in Nat /\ broadcasts \in Nat /\ integrated \in Nat

\* DriftBounded: "gravity-referenced (drift-bounded)" (on_imu): however long the
\* gyro errs in one direction, the estimate stays within cf_tau times the
\* largest rate of what gravity can say, whatever order samples come in.
DriftBounded ==
  \A a \in Axes : est[a] \in -(MaxTilt + cf_tau_ * MaxRate) .. MaxTilt + cf_tau_ * MaxRate

\* IntegrationExact: the rate is integrated over exactly the time between the
\* filter's start and its last sample: no interval is skipped, and none is
\* counted twice after a sample that was overtaken (last_imu_time_ in on_imu).
IntegrationExact == integrated = last_imu_time_ - seeded

\* StabilizedFed: with the IMU as source every sample but the first yields a
\* base_stabilized, in either mode, whatever is lost or late; without one
\* pointcloud_to_laserscan starves.  Two settings starve it, and are excluded: a
\* quaternion asked of a firmware without one, and a firmware that leaves both
\* the covariance and the quaternion zero, which "auto" takes for one that has
\* an orientation (resolved_mode_ in on_imu).
Truthful ==
  IF imu_mode_ = "auto" THEN firmware.declares => firmware.fills
                        ELSE imu_mode_ = "quaternion" => firmware.fills

StabilizedFed ==
  use_imu_tilt_ /\ Truthful => broadcasts + (IF have_cf_state_ THEN 1 ELSE 0) = samples

=============================================================================
