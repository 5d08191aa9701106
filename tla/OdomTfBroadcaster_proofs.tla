--------------------- MODULE OdomTfBroadcaster_proofs ---------------------
(***************************************************************************)
(* The complementary filter of OdomTfBroadcaster for every time constant,  *)
(* every range of tilts and rates, and every order of samples.             *)
(***************************************************************************)
EXTENDS OdomTfBroadcaster, TLAPS

Drift == MaxTilt + cf_tau_ * MaxRate

\* The drift bound is a natural number, and no less than gravity may say.
LEMMA DriftIsNat == Drift \in Nat /\ MaxTilt <= Drift
<1>1. cf_tau_ * MaxRate \in Nat
  BY FilterAssumption
<1>2. QED
  BY <1>1, FilterAssumption DEF Drift

\* Multiplication by a positive number keeps and reflects the order.
LEMMA ScaleKeepsOrder ==
  \A k \in Nat : \A x, y \in Int : x <= y => k * x <= k * y
  BY SMT

\* ... and what is in order after the multiplication was so before.
LEMMA ScaleReflectsOrder ==
  \A k \in Nat \ {0} : \A x, y \in Int : k * x < k * y => x < y
<1>1. SUFFICES ASSUME NEW k \in Nat \ {0}, NEW x \in Int, NEW y \in Int, k * x < k * y, y <= x
               PROVE  FALSE
  OBVIOUS
<1>2. k * y <= k * x
  BY <1>1, ScaleKeepsOrder
<1>3. k * x \in Int /\ k * y \in Int
  OBVIOUS
<1>4. QED
  BY <1>1, <1>2, <1>3

\* A quotient lies between the bounds the dividend lies between.
LEMMA QuotientBounded ==
  ASSUME NEW n \in Int, NEW d \in Nat \ {0}, NEW B \in Nat,
         -(d * B) <= n, n <= d * B
  PROVE  n \div d \in -B .. B
<1> DEFINE q == n \div d
<1>1. q \in Int /\ d * q <= n /\ n < d * q + d
  BY SMT
<1> HIDE DEF q
<1>2. d * (-B) = -(d * B) /\ d * B \in Int /\ d * q \in Int
  BY <1>1
<1>3. d * (B + 1) = d * B + d /\ d * (q + 1) = d * q + d
  BY <1>1
<1>4. q < B + 1
  <2>1. d * q < d * (B + 1)
    BY <1>1, <1>2, <1>3
  <2>2. QED
    BY <2>1, <1>1, ScaleReflectsOrder
<1>5. -B < q + 1
  <2>1. d * (-B) < d * (q + 1)
    BY <1>1, <1>2, <1>3
  <2>2. QED
    BY <2>1, <1>1, ScaleReflectsOrder
<1>6. q \in -B .. B
  BY <1>1, <1>4, <1>5
<1>7. QED
  BY <1>6 DEF q

\* One step of the filter keeps the estimate within the drift bound: with
\* B = MaxTilt + tau * MaxRate, tau * (B + MaxRate * dt) + dt * MaxTilt is
\* (tau + dt) * B.
LEMMA BlendBounded ==
  ASSUME NEW e \in -Drift .. Drift, NEW rate \in Rates, NEW acc \in Tilts,
         NEW dt \in Nat \ {0}
  PROVE  Blend(e, rate, acc, dt) \in -Drift .. Drift
<1> DEFINE step  == rate * dt
           limit == MaxRate * dt
           n     == cf_tau_ * (e + step) + dt * acc
           d     == cf_tau_ + dt
<1>1. /\ Drift \in Nat /\ MaxTilt \in Nat /\ MaxRate \in Nat /\ cf_tau_ \in Nat \ {0}
      /\ e \in Int /\ -Drift <= e /\ e <= Drift
      /\ rate \in Int /\ -MaxRate <= rate /\ rate <= MaxRate
      /\ acc \in Int /\ -MaxTilt <= acc /\ acc <= MaxTilt
  BY DriftIsNat, FilterAssumption
<1>2. /\ step \in Int /\ limit \in Nat
      /\ -limit <= step /\ step <= limit
  <2>1. dt * (-MaxRate) <= dt * rate /\ dt * rate <= dt * MaxRate
    BY <1>1, ScaleKeepsOrder
  <2>2. dt * (-MaxRate) = -limit /\ dt * MaxRate = limit /\ dt * rate = step
    BY <1>1
  <2>3. step \in Int /\ limit \in Nat
    BY <1>1
  <2>4. QED
    BY <2>1, <2>2, <2>3
<1> HIDE DEF step
<1>3. cf_tau_ * (-(Drift + limit)) <= cf_tau_ * (e + step)
      /\ cf_tau_ * (e + step) <= cf_tau_ * (Drift + limit)
  <2> HIDE DEF limit
  <2>1. e + step \in Int /\ Drift + limit \in Int /\ -(Drift + limit) \in Int
        /\ -(Drift + limit) <= e + step /\ e + step <= Drift + limit
    BY <1>1, <1>2
  <2>2. QED
    BY <1>1, <2>1, ScaleKeepsOrder
<1>4. dt * (-MaxTilt) <= dt * acc /\ dt * acc <= dt * MaxTilt
  BY <1>1, ScaleKeepsOrder
<1>5. /\ cf_tau_ * (Drift + limit) + dt * MaxTilt = d * Drift
      /\ cf_tau_ * (-(Drift + limit)) + dt * (-MaxTilt) = -(d * Drift)
  <2>1. cf_tau_ * limit = dt * (cf_tau_ * MaxRate)
    BY <1>1
  <2>2. cf_tau_ * (Drift + limit) = cf_tau_ * Drift + cf_tau_ * limit
    BY <1>1
  <2>3. dt * Drift = dt * MaxTilt + dt * (cf_tau_ * MaxRate)
    BY <1>1 DEF Drift
  <2>4. d * Drift = cf_tau_ * Drift + dt * Drift
    BY <1>1
  <2>5. cf_tau_ * (-(Drift + limit)) = -(cf_tau_ * (Drift + limit))
        /\ dt * (-MaxTilt) = -(dt * MaxTilt)
    BY <1>1
  <2>6. /\ cf_tau_ * limit \in Int /\ cf_tau_ * Drift \in Int /\ dt * MaxTilt \in Int
        /\ dt * (cf_tau_ * MaxRate) \in Int /\ dt * Drift \in Int /\ d * Drift \in Int
    BY <1>1
  <2> HIDE DEF limit, d
  <2>7. QED
    BY <2>1, <2>2, <2>3, <2>4, <2>5, <2>6
<1>6. n \in Int /\ d \in Nat \ {0} /\ -(d * Drift) <= n /\ n <= d * Drift
  <2>1. n \in Int /\ d \in Nat \ {0}
    BY <1>1, <1>2
  <2>2. /\ cf_tau_ * (e + step) \in Int /\ dt * acc \in Int
        /\ cf_tau_ * (Drift + limit) \in Int /\ dt * MaxTilt \in Int
        /\ cf_tau_ * (-(Drift + limit)) \in Int /\ dt * (-MaxTilt) \in Int
        /\ d * Drift \in Int
    BY <1>1, <1>2
  <2> HIDE DEF limit, d
  <2>3. QED
    BY <1>3, <1>4, <1>5, <2>1, <2>2 DEF n
<1>7. n \div d \in -Drift .. Drift
  <2> HIDE DEF n, d
  <2>1. QED
    BY <1>1, <1>6, QuotientBounded
<1>8. QED
  BY <1>7 DEF Blend, step

-----------------------------------------------------------------------------
\* TypeCorrect: every variable keeps its type; stamps stay within those sent.
LEMMA InitTypeOK == Init => TypeOK
<1> SUFFICES ASSUME Init
             PROVE  TypeOK
  OBVIOUS
<1>1. base \in Transforms(Tilts) /\ stabilized \in Transforms(Int)
  BY DEF Init, Transforms
<1>2. est \in [Axes -> Int]
  BY DEF Init, Level
<1>3. use_imu_tilt_ \in BOOLEAN
  BY DEF Init
<1>4. inflight \subseteq 1 .. clock /\ clock \in 0 .. MaxStamp
      /\ last_imu_time_ \in 0 .. MaxStamp /\ seeded \in 0 .. MaxStamp
  BY FilterAssumption DEF Init
<1>5. samples \in Nat /\ broadcasts \in Nat /\ integrated \in Nat
  BY DEF Init
<1>6. QED
  BY <1>1, <1>2, <1>3, <1>4, <1>5 DEF Init, TypeOK

\* What is under way was sent, and has a stamp.
LEMMA StampsInFlight ==
  ASSUME TypeOK, NEW stamp \in inflight
  PROVE  stamp \in 1 .. MaxStamp /\ stamp \in Nat /\ clock \in Nat
  BY FilterAssumption DEF TypeOK

\* What send_stabilized broadcasts is a transform.
LEMMA SentTransform ==
  ASSUME NEW stamp \in 1 .. MaxStamp, NEW tilt \in [Axes -> Int]
  PROVE  /\ [stamp |-> stamp, tilt |-> tilt] \in Transforms(Int)
         /\ TypeOK /\ Broadcast(stamp, tilt)
              => stabilized' \in Transforms(Int) /\ broadcasts' \in Nat
<1>1. [a \in Axes |-> tilt[a] - Offset[a]] \in [Axes -> Int]
  BY FilterAssumption
<1>2. \A level \in [Axes -> Int] : [stamp |-> stamp, tilt |-> level] \in Transforms(Int)
  BY DEF Transforms
<1>3. ASSUME TypeOK, Broadcast(stamp, tilt)
      PROVE  stabilized' \in Transforms(Int) /\ broadcasts' \in Nat
  <2>1. stabilized' \in Transforms(Int)
    BY <1>1, <1>2, <1>3 DEF Broadcast, SendStabilized
  <2>2. QED
    BY <1>3, <2>1 DEF Broadcast, TypeOK
<1>4. QED
  BY <1>2, <1>3

\* Tilts and rates are integers.
LEMMA TiltsAreIntegers == Attitude \subseteq [Axes -> Int] /\ Rates \subseteq Int
<1>1. Tilts \subseteq Int /\ Rates \subseteq Int
  BY FilterAssumption
<1>2. QED
  BY <1>1 DEF Attitude

\* Taking a sample leaves the transport well-typed ...
LEMMA TakeTyped ==
  ASSUME TypeOK, NEW stamp \in inflight, Take(stamp)
  PROVE  clock' \in 0 .. MaxStamp /\ inflight' \subseteq 1 .. clock'
  BY DEF TypeOK, Take

\* ... and so does the head of on_imu, with the mode it resolves.
LEMMA ReceivedTyped ==
  ASSUME TypeOK, NEW stamp \in inflight, NEW mode, Received(stamp, mode)
  PROVE  /\ publish_stabilized_' \in BOOLEAN /\ use_imu_tilt_' \in BOOLEAN
         /\ firmware' \in [declares : BOOLEAN, fills : BOOLEAN]
         /\ imu_mode_' \in Modes /\ resolved_mode_' \in Modes
         /\ base' \in Transforms(Tilts) /\ samples' \in Nat
         /\ clock' \in 0 .. MaxStamp /\ inflight' \subseteq 1 .. clock'
<1>1. clock' \in 0 .. MaxStamp /\ inflight' \subseteq 1 .. clock'
  BY TakeTyped DEF Received
<1>2. resolved_mode_' \in Modes
  BY DEF Received, Mode, TypeOK, Modes
<1>3. QED
  BY <1>1, <1>2 DEF Received, TypeOK, params

\* Every action keeps the types.
LEMMA NextTypeOK == TypeOK /\ [Next]_vars => TypeOK'
<1> SUFFICES ASSUME TypeOK, [Next]_vars
             PROVE  TypeOK'
  OBVIOUS
<1>1. CASE Send
  <2>1. clock' \in 0 .. MaxStamp /\ inflight' \subseteq 1 .. clock'
    BY <1>1, FilterAssumption DEF Send, TypeOK
  <2>2. QED
    BY <1>1, <2>1 DEF Send, TypeOK, params, filter
<1>2. CASE Lost
  <2>1. clock' \in 0 .. MaxStamp /\ inflight' \subseteq 1 .. clock'
    BY <1>2 DEF Lost, TypeOK
  <2>2. QED
    BY <1>2, <2>1 DEF Lost, TypeOK, params, filter
<1>3. ASSUME NEW stamp \in inflight, OnOdom(stamp)
      PROVE  TypeOK'
  <2>1. clock' \in 0 .. MaxStamp /\ inflight' \subseteq 1 .. clock'
    BY <1>3, TakeTyped DEF OnOdom
  <2>2. base' \in Transforms(Tilts)
    BY <1>3, StampsInFlight DEF OnOdom, Transforms, Attitude
  <2>3. stabilized' \in Transforms(Int)
    <3>1. PICK q \in Attitude, zero_quat \in BOOLEAN :
            stabilized' \in {stabilized, [stamp |-> stamp, tilt |-> q]}
      BY <1>3 DEF OnOdom
    <3>2. [stamp |-> stamp, tilt |-> q] \in Transforms(Int)
      BY StampsInFlight, SentTransform, TiltsAreIntegers
    <3>3. QED
      BY <3>1, <3>2 DEF TypeOK
  <2>4. QED
    BY <1>3, <2>1, <2>2, <2>3 DEF OnOdom, TypeOK, params, filter
<1>4. ASSUME NEW stamp \in inflight, OnImuQuaternion(stamp)
      PROVE  TypeOK'
  <2>1. Received(stamp, "quaternion")
    BY <1>4 DEF OnImuQuaternion
  <2>2. stabilized' \in Transforms(Int) /\ broadcasts' \in Nat
    <3>1. CASE UNCHANGED <<stabilized, broadcasts>>
      BY <3>1 DEF TypeOK
    <3>2. CASE \E q \in Attitude : Broadcast(stamp, q)
      <4>1. PICK q \in Attitude : Broadcast(stamp, q)
        BY <3>2
      <4>2. q \in [Axes -> Int] /\ stamp \in 1 .. MaxStamp
        BY TiltsAreIntegers, StampsInFlight
      <4>3. QED
        BY <4>1, <4>2, SentTransform
    <3>3. QED
      BY <1>4, <3>1, <3>2 DEF OnImuQuaternion
  <2>3. QED
    BY <1>4, <2>1, <2>2, ReceivedTyped DEF OnImuQuaternion, TypeOK, filter
<1>5. ASSUME NEW stamp \in inflight, OnImuSeed(stamp)
      PROVE  TypeOK'
  <2>1. Received(stamp, "complementary")
    BY <1>5 DEF OnImuSeed
  <2>2. PICK acc \in Attitude : Restart(stamp, acc)
    BY <1>5 DEF OnImuSeed
  <2>3. est' \in [Axes -> Int] /\ last_imu_time_' \in 0 .. MaxStamp
        /\ seeded' \in 0 .. MaxStamp /\ integrated' \in Nat
    BY <2>2, StampsInFlight, TiltsAreIntegers DEF Restart
  <2>4. QED
    BY <1>5, <2>1, <2>3, ReceivedTyped DEF OnImuSeed, TypeOK
<1>6. ASSUME NEW stamp \in inflight, OnImuResync(stamp)
      PROVE  TypeOK'
  <2>1. Received(stamp, "complementary")
    BY <1>6 DEF OnImuResync
  <2>2. PICK acc \in Attitude : Restart(stamp, acc) /\ Broadcast(stamp, acc)
    BY <1>6 DEF OnImuResync
  <2>3. est' \in [Axes -> Int] /\ last_imu_time_' \in 0 .. MaxStamp
        /\ seeded' \in 0 .. MaxStamp /\ integrated' \in Nat
    BY <2>2, StampsInFlight, TiltsAreIntegers DEF Restart
  <2>4. stabilized' \in Transforms(Int) /\ broadcasts' \in Nat
    <3>1. acc \in [Axes -> Int] /\ stamp \in 1 .. MaxStamp
      BY TiltsAreIntegers, StampsInFlight
    <3>2. QED
      BY <2>2, <3>1, SentTransform
  <2>5. QED
    BY <1>6, <2>1, <2>3, <2>4, ReceivedTyped DEF OnImuResync, TypeOK
<1>7. ASSUME NEW stamp \in inflight, OnImuBlend(stamp)
      PROVE  TypeOK'
  <2>1. Received(stamp, "complementary")
    BY <1>7 DEF OnImuBlend
  <2>2. stamp - last_imu_time_ \in Nat \ {0}
        /\ integrated' = integrated + (stamp - last_imu_time_)
    BY <1>7, StampsInFlight DEF OnImuBlend, InStep, TypeOK
  <2>3. PICK acc \in Attitude, gyro \in [Axes -> Rates] :
          est' = [a \in Axes |-> Blend(est[a], gyro[a], acc[a], stamp - last_imu_time_)]
    BY <1>7 DEF OnImuBlend
  <2>4. \A a \in Axes : Blend(est[a], gyro[a], acc[a], stamp - last_imu_time_) \in Int
    <3>1. SUFFICES ASSUME NEW a \in Axes
                   PROVE  Blend(est[a], gyro[a], acc[a], stamp - last_imu_time_) \in Int
      OBVIOUS
    <3>2. est[a] \in Int /\ gyro[a] \in Int /\ acc[a] \in Int /\ cf_tau_ \in Nat \ {0}
      BY <2>3, TiltsAreIntegers, FilterAssumption DEF TypeOK, Attitude
    <3>3. \A e, rate, x \in Int, dt \in Nat \ {0} : Blend(e, rate, x, dt) \in Int
      <4>1. SUFFICES ASSUME NEW e \in Int, NEW rate \in Int, NEW x \in Int, NEW dt \in Nat \ {0}
                     PROVE  (cf_tau_ * (e + rate * dt) + dt * x) \div (cf_tau_ + dt) \in Int
        BY DEF Blend
      <4>2. cf_tau_ * (e + rate * dt) + dt * x \in Int /\ cf_tau_ + dt \in Nat \ {0}
        BY <3>2
      <4>3. QED
        BY <4>2
    <3>4. QED
      BY <2>2, <3>2, <3>3
  <2>5. est' \in [Axes -> Int] /\ stamp \in 1 .. MaxStamp
    BY <2>3, <2>4, StampsInFlight
  <2>6. last_imu_time_' \in 0 .. MaxStamp /\ integrated' \in Nat
        /\ seeded' \in 0 .. MaxStamp /\ have_cf_state_' \in BOOLEAN
    BY <1>7, <2>2, <2>5 DEF OnImuBlend, TypeOK
  <2>7. stabilized' \in Transforms(Int) /\ broadcasts' \in Nat
    BY <1>7, <2>5, SentTransform DEF OnImuBlend
  <2>8. QED
    BY <2>1, <2>5, <2>6, <2>7, ReceivedTyped DEF TypeOK
<1>8. CASE UNCHANGED vars
  BY <1>8 DEF vars, params, filter, TypeOK
<1>9. QED
  BY <1>1, <1>2, <1>3, <1>4, <1>5, <1>6, <1>7, <1>8 DEF Next, OnImu

\* TypeCorrect: the variables of the broadcaster have their types.
THEOREM TypeCorrect == Spec => []TypeOK
  BY InitTypeOK, NextTypeOK, PTL DEF Spec

-----------------------------------------------------------------------------
\* The filter is started or stepped by two actions; all the others leave it.
\* Both invariants are inductive together with the types.
\* Each step leaves the filter, starts it, or blends one sample in.
LEMMA FilterSteps ==
  ASSUME TypeOK, [Next]_vars
  PROVE  \/ UNCHANGED <<est, last_imu_time_, seeded, integrated>>
         \/ \E stamp \in inflight, acc \in Attitude : Restart(stamp, acc)
         \/ \E stamp \in inflight : OnImuBlend(stamp)
  BY DEF Next, vars, filter, Send, Lost, OnOdom, OnImu, OnImuQuaternion, OnImuSeed, OnImuResync

\* Drift is bounded: whatever the gyro says and whatever order samples come in.
LEMMA NextDriftBounded == TypeOK /\ DriftBounded /\ [Next]_vars => DriftBounded'
<1> SUFFICES ASSUME TypeOK, DriftBounded, [Next]_vars
             PROVE  DriftBounded'
  OBVIOUS
<1>1. CASE UNCHANGED <<est, last_imu_time_, seeded, integrated>>
  BY <1>1 DEF DriftBounded
<1>2. ASSUME NEW stamp \in inflight, NEW acc \in Attitude, Restart(stamp, acc)
      PROVE  DriftBounded'
  <2>1. \A a \in Axes : acc[a] \in -MaxTilt .. MaxTilt
    BY FilterAssumption DEF Attitude
  <2>2. \A a \in Axes : acc[a] \in -Drift .. Drift
    BY <2>1, DriftIsNat, FilterAssumption
  <2>3. QED
    BY <1>2, <2>2 DEF Restart, DriftBounded, Drift
<1>3. ASSUME NEW stamp \in inflight, OnImuBlend(stamp)
      PROVE  DriftBounded'
  <2>1. stamp - last_imu_time_ \in Nat \ {0}
    BY <1>3, StampsInFlight DEF OnImuBlend, InStep, TypeOK
  <2>2. PICK acc \in Attitude, gyro \in [Axes -> Rates] :
          est' = [a \in Axes |-> Blend(est[a], gyro[a], acc[a], stamp - last_imu_time_)]
    BY <1>3 DEF OnImuBlend
  <2>3. \A a \in Axes : est[a] \in -Drift .. Drift /\ gyro[a] \in Rates /\ acc[a] \in Tilts
    BY <2>2 DEF DriftBounded, Drift, Attitude
  <2>4. \A a \in Axes : est'[a] \in -Drift .. Drift
    BY <2>1, <2>2, <2>3, BlendBounded
  <2>5. QED
    BY <2>4 DEF DriftBounded, Drift
<1>4. QED
  BY <1>1, <1>2, <1>3, FilterSteps

\* DriftStaysBounded: for every filter and however many samples come in, the estimate
\* of on_imu stays within what the gyro says in cf_tau of what gravity says.
THEOREM DriftStaysBounded == Spec => []DriftBounded
<1>1. Init => DriftBounded
  <2>1. \A a \in Axes : Level[a] \in -Drift .. Drift
    BY DriftIsNat DEF Level
  <2>2. QED
    BY <2>1 DEF Init, DriftBounded, Drift
<1>2. QED
  BY <1>1, NextDriftBounded, TypeCorrect, PTL DEF Spec

\* The rate is integrated over the time since the filter's last start, exactly.
THEOREM IntegrationIsExact == Spec => []IntegrationExact
<1>1. Init => IntegrationExact
  BY DEF Init, IntegrationExact
<1>2. TypeOK /\ IntegrationExact /\ [Next]_vars => IntegrationExact'
  <2> SUFFICES ASSUME TypeOK, IntegrationExact, [Next]_vars
               PROVE  IntegrationExact'
    OBVIOUS
  <2>1. CASE UNCHANGED <<est, last_imu_time_, seeded, integrated>>
    BY <2>1 DEF IntegrationExact
  <2>2. ASSUME NEW stamp \in inflight, NEW acc \in Attitude, Restart(stamp, acc)
        PROVE  IntegrationExact'
    BY <2>2, StampsInFlight DEF Restart, IntegrationExact
  <2>3. ASSUME NEW stamp \in inflight, OnImuBlend(stamp)
        PROVE  IntegrationExact'
    BY <2>3, StampsInFlight DEF OnImuBlend, IntegrationExact, TypeOK
  <2>4. QED
    BY <2>1, <2>2, <2>3, FilterSteps
<1>3. QED
  BY <1>1, <1>2, TypeCorrect, PTL DEF Spec

-----------------------------------------------------------------------------
\* The mode in use is the one asked for, or what the covariance declared.
ModeInv ==
  /\ imu_mode_ # "auto" => resolved_mode_ = imu_mode_
  /\ imu_mode_ = "auto" /\ resolved_mode_ = "quaternion" => firmware.declares

\* No sample is swallowed but the one the filter starts from: every branch of
\* on_imu ends in send_stabilized.
LEMMA NextStabilizedFed ==
  TypeOK /\ ModeInv /\ StabilizedFed /\ [Next]_vars => ModeInv' /\ StabilizedFed'
<1> SUFFICES ASSUME TypeOK, ModeInv, StabilizedFed, [Next]_vars
             PROVE  ModeInv' /\ StabilizedFed'
  OBVIOUS
<1> USE DEF ModeInv, StabilizedFed, Truthful, params
<1>1. CASE UNCHANGED <<params, resolved_mode_, have_cf_state_, samples, broadcasts>>
  BY <1>1
<1>2. ASSUME NEW stamp, NEW mode, Received(stamp, mode)
      PROVE  ModeInv' /\ mode = resolved_mode_' /\ samples' = samples + 1
             /\ UNCHANGED params
  BY <1>2 DEF Received, Mode
<1>3. ASSUME NEW stamp \in inflight, OnImuQuaternion(stamp)
      PROVE  ModeInv' /\ StabilizedFed'
  <2>1. Received(stamp, "quaternion") /\ UNCHANGED have_cf_state_
    BY <1>3 DEF OnImuQuaternion, filter
  <2>2. Truthful => firmware.fills
    BY <1>2, <2>1
  <2>3. firmware.fills => broadcasts' = broadcasts + 1
    BY <1>3 DEF OnImuQuaternion, Broadcast
  <2>4. QED
    BY <1>2, <2>1, <2>2, <2>3 DEF TypeOK
<1>4. ASSUME NEW stamp \in inflight, OnImuSeed(stamp)
      PROVE  ModeInv' /\ StabilizedFed'
  BY <1>2, <1>4 DEF OnImuSeed, TypeOK
<1>5. ASSUME NEW stamp \in inflight, OnImuResync(stamp)
      PROVE  ModeInv' /\ StabilizedFed'
  BY <1>2, <1>5 DEF OnImuResync, Broadcast, TypeOK
<1>6. ASSUME NEW stamp \in inflight, OnImuBlend(stamp)
      PROVE  ModeInv' /\ StabilizedFed'
  BY <1>2, <1>6 DEF OnImuBlend, Broadcast, TypeOK
<1>7. QED
  BY <1>1, <1>3, <1>4, <1>5, <1>6 DEF Next, OnImu, vars, filter, Send, Lost, OnOdom

\* The level frame is fed by every sample after the first.
THEOREM LevelFrameFed == Spec => []StabilizedFed
<1>1. Init => ModeInv /\ StabilizedFed
  BY DEF Init, ModeInv, StabilizedFed
<1>2. QED
  BY <1>1, NextStabilizedFed, TypeCorrect, PTL DEF Spec

=============================================================================
