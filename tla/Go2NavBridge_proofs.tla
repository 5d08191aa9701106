----------------------- MODULE Go2NavBridge_proofs -----------------------
(***************************************************************************)
(* What holds of Go2NavBridge for every value of its constants.            *)
(***************************************************************************)
EXTENDS Go2NavBridge, TLAPS

\* The validated parameters are usable whatever was given, and the timer's
\* period is positive (constructor, validate_positive_parameter).
LEMMA ParametersUsable ==
  /\ watchdog_timeout_ms_ \in Nat \ {0}
  /\ linear_max_ \in Nat \ {0} /\ angular_max_ \in Nat \ {0}
  /\ Period \in Nat \ {0}
  /\ Cap \in Nat
<1>1. watchdog_timeout_ms_ \in Nat \ {0}
  BY NonFiniteAssumption, TimeAssumption, ParamAssumption
  DEF watchdog_timeout_ms_, validate_positive_or_fallback, Double, IsFinite
<1>2. linear_max_ \in Nat \ {0}
  BY NonFiniteAssumption, ParamAssumption
  DEF linear_max_, validate_positive_or_fallback, Double, IsFinite
<1>3. angular_max_ \in Nat \ {0}
  BY NonFiniteAssumption, ParamAssumption
  DEF angular_max_, validate_positive_or_fallback, Double, IsFinite
<1>4. Period \in Nat \ {0}
  <2>1. watchdog_timeout_ms_ \div 2 \in Int
    BY <1>1
  <2>2. QED
    BY <2>1, MaxPeriodAssumption DEF Period, watchdog_period_from_timeout, ClampTo
<1>5. (MaxFaults + 2) * (Period + Lag + Exec) \in Nat
  BY <1>4, TimeAssumption, BudgetAssumption
<1>6. Cap \in Nat
  BY <1>1, <1>5, TimeAssumption, BudgetAssumption DEF Cap
<1>7. QED
  BY <1>1, <1>2, <1>3, <1>4, <1>6

\* clamp_symmetric(sanitize_finite_or_zero(v), limit) is finite and within the
\* limit for every double v, NaN and the infinities included.
LEMMA ClampedWithinLimit ==
  ASSUME NEW v \in Double, NEW limit \in Nat
  PROVE  clamp_symmetric(sanitize_finite_or_zero(v), limit) \in -limit .. limit
<1>1. sanitize_finite_or_zero(v) \in Int
  BY NonFiniteAssumption DEF Double, sanitize_finite_or_zero, IsFinite
<1>2. QED
  BY <1>1 DEF clamp_symmetric, ClampTo

\* After a call the timer is due again within one period, and not before now.
LEMMA TimerRearmed ==
  ASSUME timer \in Int
  PROVE  TimerAfterCall \in 0 .. Period
<1>1. Period \in Nat \ {0}
  BY ParametersUsable
<1>2. (-timer) % Period \in 0 .. Period - 1
  BY <1>1
<1>3. QED
  BY <1>1, <1>2 DEF TimerAfterCall

\* What the callback sends is a command within the limits.
LEMMA VelocityWithinLimits ==
  ASSUME NEW m \in Twists
  PROVE  /\ VelocityFor(m) \in Commands
         /\ \A i \in {1, 2} : VelocityFor(m).velocity[i] \in -linear_max_ .. linear_max_
         /\ VelocityFor(m).yaw_speed \in -angular_max_ .. angular_max_
<1> DEFINE x == clamp_symmetric(sanitize_finite_or_zero(m.linear_x), linear_max_)
           y == clamp_symmetric(sanitize_finite_or_zero(m.linear_y), linear_max_)
           w == clamp_symmetric(sanitize_finite_or_zero(m.angular_z), angular_max_)
<1>1. /\ m.linear_x \in Double /\ m.linear_y \in Double /\ m.angular_z \in Double
  BY InputAssumption DEF Twist
<1>2. linear_max_ \in Nat /\ angular_max_ \in Nat
  BY ParametersUsable
<1>3. x \in -linear_max_ .. linear_max_ /\ y \in -linear_max_ .. linear_max_
  BY <1>1, <1>2, ClampedWithinLimit
<1>4. w \in -angular_max_ .. angular_max_
  BY <1>1, <1>2, ClampedWithinLimit
<1>5. VelocityFor(m) = [velocity |-> <<x, y>>, yaw_speed |-> w]
  BY DEF VelocityFor, make_velocity_command
<1> HIDE DEF x, y, w
<1>6. x \in Int /\ y \in Int /\ w \in Int
  BY <1>2, <1>3, <1>4
<1>7. QED
  BY <1>3, <1>4, <1>5, <1>6 DEF Commands

\* The stop command is a command, of no velocity.
LEMMA StopCmdIsCommand ==
  /\ StopCmd \in Commands
  /\ StopCmd.velocity = <<0, 0>> /\ StopCmd.yaw_speed = 0
BY DEF StopCmd, make_velocity_command, Commands

-----------------------------------------------------------------------------
\* Moving the clock or time on keeps an age an integer, at most Cap.
LEMMA OlderTyped ==
  \A a \in Int, d \in Nat :
    a <= Cap => /\ Older(a, d) \in Int /\ Older(a, d) <= Cap
                /\ a >= 0 => Older(a, d) \in 0 .. Cap
BY ParametersUsable DEF Older

\* At first the types are right.
LEMMA TypeOKInit == Init => TypeOK
<1> SUFFICES ASSUME Init PROVE TypeOK
  OBVIOUS
<1>1. /\ Cap \in Nat /\ Period \in Nat
  BY ParametersUsable
<1>2. cmd_vel \in Seq(Twists) /\ Len(cmd_vel) <= CmdVelDepth
  BY InputAssumption DEF Init
<1>3. wire \in Commands
  BY StopCmdIsCommand DEF Init
<1>4. /\ elapsed \in Int /\ since_stop \in Int /\ timer \in Int
      /\ elapsed <= Cap /\ since_stop <= Cap /\ timer <= Period
      /\ silence \in 0 .. Cap /\ quiet \in 0 .. Cap
  BY <1>1 DEF Init
<1>5. /\ busy \in 0 .. Exec /\ flushed \in 0 .. FlushMs
      /\ back \in 0 .. MaxJump /\ fwd \in 0 .. MaxJump /\ faults \in 0 .. MaxFaults
  BY TimeAssumption, BudgetAssumption DEF Init
<1>6. IF InCmd THEN msg \in Twists ELSE msg = NoMsg \/ Gone
  BY DEF Init, InCmd
<1>7. QED
  BY <1>2, <1>3, <1>4, <1>5, <1>6 DEF Init, TypeOK

\* One step: the types are kept.
LEMMA TypeOKStep == TypeOK /\ [Next]_vars => TypeOK'
<1> SUFFICES ASSUME TypeOK, [Next]_vars
             PROVE  TypeOK'
  OBVIOUS
<1> USE DEF TypeOK, flagVars, clockVars, histVars, Goto, InCmd, Gone
<1> USE TimeAssumption, BudgetAssumption
<1>0. /\ Cap \in Nat /\ Period \in Nat
  BY ParametersUsable
<1>1. CASE CtorPublish
  BY <1>0, <1>1, StopCmdIsCommand DEF CtorPublish, StopPublish, Publish
<1>2. CASE CtorStamp
  BY <1>0, <1>2 DEF CtorStamp, StopStamp
<1>3. CASE CtorThrows
  BY <1>0, <1>3 DEF CtorThrows, StopThrows, PublishThrows
<1>4. CASE CmdBegin
  <2>1. /\ Head(cmd_vel) \in Twists /\ Tail(cmd_vel) \in Seq(Twists)
        /\ Len(Tail(cmd_vel)) <= CmdVelDepth
    BY <1>4, InputAssumption DEF CmdBegin
  <2>2. QED
    <3>1. /\ msg' \in Twists /\ InCmd'
          /\ cmd_vel' \in Seq(Twists) /\ Len(cmd_vel') <= CmdVelDepth
      BY <1>4, <2>1 DEF CmdBegin
    <3>2. /\ pc' = "cmd_stamp" /\ cmd_vel_received_' = TRUE
          /\ timeout_stop_sent_' = FALSE /\ busy' = 0
          /\ UNCHANGED <<sig, state_mutex_, elapsed, since_stop, timer, flushed,
                         wire, silence, quiet, back, fwd, faults>>
      BY <1>4 DEF CmdBegin
    <3>3. IF InCmd' THEN msg' \in Twists ELSE msg' = NoMsg' \/ Gone'
      BY <3>1
    <3>4. busy' \in 0 .. Exec
      BY <3>2
    <3>5. QED
      BY <1>0, <3>1, <3>2, <3>3, <3>4
<1>5. CASE CmdStamp
  BY <1>0, <1>5 DEF CmdStamp
<1>6. CASE CmdPublish
  <2>1. VelocityFor(msg) \in Commands
    BY <1>6, VelocityWithinLimits DEF CmdPublish
  <2>2. QED
    BY <1>0, <1>6, <2>1 DEF CmdPublish, Publish
<1>7. CASE CmdThrows
  BY <1>0, <1>7 DEF CmdThrows, PublishThrows
<1>8. CASE WdBegin
  <2>1. TimerAfterCall \in Int /\ TimerAfterCall <= Period
    BY <1>0, TimerRearmed
  <2>2. QED
    <3>1. CASE WdFresh
      BY <1>0, <2>1, <3>1 DEF WdFresh, WdDue
    <3>2. CASE WdStopSent
      BY <1>0, <2>1, <3>2 DEF WdStopSent, WdDue
    <3>3. CASE WdTimeout
      BY <1>0, <2>1, <3>3 DEF WdTimeout, WdDue
    <3>4. QED
      BY <1>8, <3>1, <3>2, <3>3 DEF WdBegin
<1>9. CASE WdPublish
  BY <1>0, <1>9, StopCmdIsCommand DEF WdPublish, StopPublish, Publish
<1>10. CASE WdStamp
  BY <1>0, <1>10 DEF WdStamp, StopStamp
<1>11. CASE WdThrows
  BY <1>0, <1>11 DEF WdThrows, StopThrows, PublishThrows
<1>12. CASE SendStopPublish
  BY <1>0, <1>12, StopCmdIsCommand DEF SendStopPublish, StopPublish, Publish
<1>13. CASE SendStopStamp
  BY <1>0, <1>13 DEF SendStopStamp, StopStamp
<1>14. CASE FlushDone
  BY <1>0, <1>14 DEF FlushDone
<1>15. CASE SpinReturns
  BY <1>0, <1>15 DEF SpinReturns
<1>16. CASE DtorPublish
  BY <1>0, <1>16, StopCmdIsCommand DEF DtorPublish, StopPublish, Publish
<1>17. CASE DtorStamp
  BY <1>0, <1>17 DEF DtorStamp, StopStamp
<1>18. CASE Sigint
  BY <1>0, <1>18 DEF Sigint
<1>19. CASE Tick
  <2>1. /\ Older(elapsed, 1) \in Int /\ Older(elapsed, 1) <= Cap
        /\ Older(since_stop, 1) \in Int /\ Older(since_stop, 1) <= Cap
        /\ Older(silence, 1) \in 0 .. Cap /\ Older(quiet, 1) \in 0 .. Cap
    BY <1>0, OlderTyped, 1 \in Nat
  <2>2. busy' \in 0 .. Exec /\ flushed' \in 0 .. FlushMs
    BY <1>19 DEF Tick
  <2>3. timer' \in Int /\ timer' <= Period
    BY <1>0, <1>19 DEF Tick
  <2>4. QED
    BY <1>0, <1>19, <2>1, <2>2, <2>3 DEF Tick
<1>20. ASSUME NEW m \in Twists, CmdVelArrives(m) PROVE TypeOK'
  <2>1. cmd_vel' \in Seq(Twists) /\ Len(cmd_vel') <= CmdVelDepth
    BY <1>20, InputAssumption DEF CmdVelArrives
  <2>2. QED
    BY <1>0, <1>20, <2>1 DEF CmdVelArrives
<1>21. ASSUME NEW d \in 1 .. MaxJump, ClockBack(d) PROVE TypeOK'
  BY <1>0, <1>21 DEF ClockBack
<1>22. ASSUME NEW d \in 1 .. MaxJump, ClockForward(d) PROVE TypeOK'
  <2>1. /\ Older(elapsed, d) \in Int /\ Older(elapsed, d) <= Cap
        /\ Older(since_stop, d) \in Int /\ Older(since_stop, d) <= Cap
    BY <1>0, OlderTyped, d \in Nat
  <2>2. QED
    BY <1>0, <1>22, <2>1 DEF ClockForward
<1>23. CASE UNCHANGED vars
  BY <1>23 DEF vars
<1>24. QED
  BY <1>1, <1>2, <1>3, <1>4, <1>5, <1>6, <1>7, <1>8, <1>9, <1>10, <1>11, <1>12,
     <1>13, <1>14, <1>15, <1>16, <1>17, <1>18, <1>19, <1>20, <1>21,
     <1>22, <1>23
  DEF Next, Constructor, CmdCallback, Watchdog, Shutdown, Destructor

\* Every variable keeps its type, and every bound its meaning.
THEOREM TypeCorrect == Spec => []TypeOK
BY TypeOKInit, TypeOKStep, PTL DEF Spec

-----------------------------------------------------------------------------
\* Nothing outside the limits ever leaves on sport_mode_cmd (cmd_vel_callback:
\* sanitize_finite_input, then clamp_symmetric; every other publish is a stop).
THEOREM LimitsKept == Spec => []WithinLimits
<1> USE DEF WithinLimits
<1>0. linear_max_ \in Nat /\ angular_max_ \in Nat
  BY ParametersUsable
<1>1. ASSUME wire = StopCmd PROVE WithinLimits
  <2>1. wire.velocity[1] = 0 /\ wire.velocity[2] = 0 /\ wire.yaw_speed = 0
    BY <1>1, StopCmdIsCommand
  <2>2. QED
    BY <1>0, <2>1
<1>2. Init => WithinLimits
  BY <1>1 DEF Init
<1>3. TypeOK /\ WithinLimits /\ [Next]_vars => WithinLimits'
  <2> SUFFICES ASSUME TypeOK, WithinLimits, [Next]_vars
               PROVE  WithinLimits'
    OBVIOUS
  <2> USE DEF histVars
  <2>1. ASSUME wire' = wire PROVE WithinLimits'
    BY <2>1
  <2>2. ASSUME wire' = StopCmd PROVE WithinLimits'
    <3>1. /\ StopCmd.velocity[1] = 0 /\ StopCmd.velocity[2] = 0
          /\ StopCmd.yaw_speed = 0
      BY StopCmdIsCommand
    <3>2. QED
      BY <1>0, <2>2, <3>1
  <2>3. ASSUME NEW thread, StopPublish(thread) PROVE WithinLimits'
    BY <2>1, <2>2, <2>3 DEF StopPublish, Publish
  <2>4. CASE CmdPublish
    <3>1. msg \in Twists
      BY <2>4 DEF CmdPublish, Goto, TypeOK, InCmd
    <3>2. CASE wire' = VelocityFor(msg)
      <4>1. /\ \A i \in {1, 2} :
                 VelocityFor(msg).velocity[i] \in -linear_max_ .. linear_max_
            /\ VelocityFor(msg).yaw_speed \in -angular_max_ .. angular_max_
        BY <3>1, VelocityWithinLimits
      <4> HIDE DEF WithinLimits
      <4>2. QED
        BY <3>2, <4>1 DEF WithinLimits
    <3>3. QED
      BY <2>1, <2>4, <3>2 DEF CmdPublish, Publish
  <2>5. CASE Constructor
    BY <2>1, <2>3, <2>5
    DEF Constructor, CtorPublish, CtorStamp, CtorThrows, StopThrows, PublishThrows
  <2>6. CASE CmdCallback
    BY <2>1, <2>4, <2>6
    DEF CmdCallback, CmdBegin, CmdStamp, CmdThrows, PublishThrows
  <2>7. CASE Watchdog
    BY <2>1, <2>3, <2>7
    DEF Watchdog, WdBegin, WdFresh, WdStopSent, WdTimeout, WdPublish, WdStamp,
        WdThrows, StopThrows, PublishThrows
  <2>8. CASE Shutdown
    BY <2>1, <2>3, <2>8
    DEF Shutdown, SendStopPublish, SendStopStamp, FlushDone,
        StopThrows, PublishThrows
  <2>9. CASE Destructor
    BY <2>1, <2>3, <2>9 DEF Destructor, SpinReturns, DtorPublish, DtorStamp
  <2>10. CASE Sigint
    BY <2>1, <2>10 DEF Sigint
  <2>11. CASE Tick
    BY <2>1, <2>11 DEF Tick
  <2>12. ASSUME NEW m \in Twists, CmdVelArrives(m) PROVE WithinLimits'
    BY <2>1, <2>12 DEF CmdVelArrives
  <2>13. ASSUME NEW d \in 1 .. MaxJump, ClockBack(d) \/ ClockForward(d)
         PROVE  WithinLimits'
    BY <2>1, <2>13 DEF ClockBack, ClockForward
  <2>14. CASE UNCHANGED vars
    BY <2>1, <2>14 DEF vars
  <2>15. QED
    BY <2>5, <2>6, <2>7, <2>8, <2>9, <2>10, <2>11, <2>12, <2>13, <2>14 DEF Next
<1>4. QED
  BY <1>2, <1>3, TypeCorrect, PTL DEF Spec

-----------------------------------------------------------------------------
\* A context that has become invalid, and a failure, are never undone.
LEMMA GoodBefore == TypeOK /\ [Next]_vars /\ Good' => Good
<1> SUFFICES ASSUME TypeOK, [Next]_vars, Good'
             PROVE  Good
  OBVIOUS
<1>1. faults' = 0 => faults = 0
  <2> USE DEF TypeOK, histVars, StopThrows, PublishThrows, Publish, StopPublish
  <2> USE BudgetAssumption
  <2>1. CASE Constructor
    BY <2>1 DEF Constructor, CtorPublish, CtorStamp, CtorThrows
  <2>2. CASE CmdCallback
    BY <2>2 DEF CmdCallback, CmdBegin, CmdStamp, CmdPublish, CmdThrows
  <2>3. CASE Watchdog
    BY <2>3 DEF Watchdog, WdBegin, WdFresh, WdStopSent, WdTimeout, WdPublish,
                WdStamp, WdThrows
  <2>4. CASE Shutdown
    BY <2>4 DEF Shutdown, SendStopPublish, SendStopStamp, FlushDone
  <2>5. CASE Destructor
    BY <2>5 DEF Destructor, SpinReturns, DtorPublish, DtorStamp
  <2>6. QED
    BY <2>1, <2>2, <2>3, <2>4, <2>5
    DEF Next, Sigint, Tick, CmdVelArrives, ClockBack, ClockForward, vars
<1>2. ContextOk' => ContextOk
  <2> USE DEF ContextOk
  <2>1. CASE Constructor
    BY <2>1 DEF Constructor, CtorPublish, CtorStamp, CtorThrows
  <2>2. CASE CmdCallback
    BY <2>2 DEF CmdCallback, CmdBegin, CmdStamp, CmdPublish, CmdThrows
  <2>3. CASE Watchdog
    BY <2>3 DEF Watchdog, WdBegin, WdFresh, WdStopSent, WdTimeout, WdPublish,
                WdStamp, WdThrows
  <2>4. CASE Shutdown
    BY <2>4 DEF Shutdown, SendStopPublish, SendStopStamp, FlushDone
  <2>5. CASE Destructor
    BY <2>5 DEF Destructor, SpinReturns, DtorPublish, DtorStamp
  <2>6. QED
    BY <2>1, <2>2, <2>3, <2>4, <2>5
    DEF Next, Sigint, Tick, CmdVelArrives, ClockBack, ClockForward, vars
<1>3. QED
  BY <1>1, <1>2 DEF Good

\* Read from a clock that may be set, a command looks younger than it is by no
\* more than the clock was set back.
LEMMA ClockInvStep == TypeOK /\ ClockInv /\ [Next]_vars => ClockInv'
<1> SUFFICES ASSUME TypeOK, ClockInv, [Next]_vars
             PROVE  ClockInv'
  OBVIOUS
<1> USE DEF ClockInv, clockVars, histVars
<1>0. /\ Cap \in Nat /\ elapsed \in Int /\ silence \in 0 .. Cap /\ back \in Nat
      /\ elapsed <= Cap
  BY ParametersUsable, BudgetAssumption DEF TypeOK
<1>1. ASSUME UNCHANGED <<elapsed, silence, back>> PROVE ClockInv'
  BY <1>1
<1>2. CASE CmdStamp
  BY <1>0, <1>2 DEF CmdStamp
<1>3. CASE Tick
  BY <1>0, <1>3 DEF Tick, Older
<1>4. ASSUME NEW d \in 1 .. MaxJump, ClockBack(d) PROVE ClockInv'
  BY <1>0, <1>4, BudgetAssumption DEF ClockBack
<1>5. ASSUME NEW d \in 1 .. MaxJump, ClockForward(d) PROVE ClockInv'
  BY <1>0, <1>5, BudgetAssumption DEF ClockForward, Older
<1>6. CASE Constructor
  BY <1>1, <1>6
  DEF Constructor, CtorPublish, CtorStamp, CtorThrows, StopThrows, PublishThrows,
      StopPublish, Publish
<1>7. CASE CmdBegin \/ CmdPublish \/ CmdThrows
  BY <1>1, <1>7 DEF CmdBegin, CmdPublish, CmdThrows, PublishThrows, Publish
<1>8. CASE Watchdog
  BY <1>1, <1>8
  DEF Watchdog, WdBegin, WdFresh, WdStopSent, WdTimeout, WdPublish, WdStamp,
      WdThrows, StopThrows, PublishThrows, StopPublish, Publish
<1>9. CASE Shutdown
  BY <1>1, <1>9
  DEF Shutdown, SendStopPublish, SendStopStamp, FlushDone,
      StopThrows, PublishThrows, StopPublish, Publish
<1>10. CASE Destructor
  BY <1>1, <1>10
  DEF Destructor, SpinReturns, DtorPublish, DtorStamp, StopPublish, Publish
<1>11. CASE Sigint \/ UNCHANGED vars
  BY <1>1, <1>11 DEF Sigint, vars
<1>12. ASSUME NEW m \in Twists, CmdVelArrives(m) PROVE ClockInv'
  BY <1>1, <1>12 DEF CmdVelArrives
<1>13. QED
  BY <1>2, <1>3, <1>4, <1>5, <1>6, <1>7, <1>8, <1>9, <1>10, <1>11, <1>12
  DEF Next, CmdCallback

\* The heart of it, one step per action: what a step does to the flags and to
\* the age of the command that keeps the robot moving.
LEMMA StopInvStep == TypeOK /\ StopInv /\ [Next]_vars => StopInv'
<1>1. TypeOK /\ StopInv /\ [Next]_vars => ClockInv'
  BY ClockInvStep DEF StopInv
<1>2. ASSUME TypeOK, StopInv, [Next]_vars, Good'
      PROVE  FlagInv' /\ AgeInv'
  <2>0. /\ Good /\ ClockInv /\ FlagInv /\ AgeInv /\ TypeOK'
        /\ Period \in Nat \ {0} /\ watchdog_timeout_ms_ \in Nat \ {0} /\ Cap \in Nat
        /\ Lag \in Nat /\ Exec \in Nat /\ MaxJump \in Nat
    BY <1>2, GoodBefore, TypeOKStep, ParametersUsable, TimeAssumption,
       BudgetAssumption DEF StopInv
  <2>1. /\ ContextOk /\ ContextOk' /\ faults = 0 /\ faults' = 0
        /\ silence \in Nat /\ back \in Nat /\ busy \in Nat
        /\ timer \in Int /\ timer <= Period /\ elapsed \in Int
    BY <1>2, <2>0 DEF Good, TypeOK
  <2> USE <2>0, <2>1
  <2> USE DEF FlagInv, AgeInv, Serving, InCmd, InWd, Moving, Goto, clockVars,
              histVars, flagVars
  <2>2. CASE CtorPublish
    BY <2>2 DEF CtorPublish, StopPublish, Publish
  <2>3. CASE CtorStamp
    BY <2>3 DEF CtorStamp, StopStamp
  <2>4. CASE CmdBegin
    BY <2>4 DEF CmdBegin
  <2>5. CASE CmdStamp
    BY <2>5 DEF CmdStamp
  <2>6. CASE CmdPublish
    BY <2>6 DEF CmdPublish, Publish
  <2>7. CASE CtorThrows \/ CmdThrows \/ WdThrows
    BY <2>7 DEF CtorThrows, CmdThrows, WdThrows, StopThrows,
                PublishThrows
  <2>8. CASE WdFresh
    <3>1. TimerAfterCall \in 0 .. Period
      BY TimerRearmed
    <3>2. elapsed <= watchdog_timeout_ms_
      BY <2>8 DEF WdFresh, TimedOut, watchdog_timeout_elapsed
    <3>3. silence <= watchdog_timeout_ms_ + back
      BY <3>2 DEF ClockInv
    <3>4. QED
      BY <2>8, <3>1, <3>3 DEF WdFresh, WdDue
  <2>9. CASE WdStopSent
    BY <2>9 DEF WdStopSent, WdDue
  <2>10. CASE WdTimeout
    BY <2>10 DEF WdTimeout, WdDue
  <2>11. CASE WdPublish
    BY <2>11 DEF WdPublish, StopPublish, Publish
  <2>12. CASE WdStamp
    BY <2>12 DEF WdStamp, StopStamp
  <2>13. CASE Sigint
    BY <2>13 DEF Sigint
  <2>14. CASE SendStopPublish
    BY <2>14 DEF SendStopPublish, StopPublish, Publish
  <2>15. CASE SendStopStamp \/ FlushDone
    BY <2>15 DEF SendStopStamp, StopStamp, FlushDone
  <2>16. CASE Destructor
    BY <2>16 DEF Destructor, SpinReturns, DtorPublish, DtorStamp, StopPublish,
                 Publish, StopStamp, ContextOk
  <2>17. CASE Tick
    <3>1. silence' \in Nat /\ silence' <= silence + 1
      BY <2>17 DEF Tick, Older, TypeOK
    <3>2. FlagInv'
      BY <2>17 DEF Tick
    <3>3. AgeInv'
      BY <2>17, <3>1 DEF Tick, InCallback, Gone
    <3>4. QED
      BY <3>2, <3>3
  <2>18. ASSUME NEW m \in Twists, CmdVelArrives(m) PROVE FlagInv' /\ AgeInv'
    BY <2>18 DEF CmdVelArrives
  <2>19. ASSUME NEW d \in 1 .. MaxJump, ClockBack(d) \/ ClockForward(d)
         PROVE  FlagInv' /\ AgeInv'
    BY <2>19 DEF ClockBack, ClockForward
  <2>20. CASE UNCHANGED vars
    BY <2>20 DEF vars
  <2>21. QED
    BY <1>2, <2>2, <2>3, <2>4, <2>5, <2>6, <2>7, <2>8, <2>9, <2>10, <2>11, <2>12,
       <2>13, <2>14, <2>15, <2>16, <2>17, <2>18, <2>19, <2>20
    DEF Next, Constructor, CmdCallback, Watchdog, WdBegin, Shutdown
<1>3. QED
  BY <1>1, <1>2 DEF StopInv

\* StopInvariant: in every state the invariant holds from which the bounds on
\* stopping follow.
THEOREM StopInvariant == Spec => []StopInv
<1>1. Init => StopInv
  BY ParametersUsable
  DEF Init, StopInv, ClockInv, FlagInv, AgeInv, Serving, InCmd, InWd, Moving
<1>2. QED
  BY <1>1, StopInvStep, TypeCorrect, PTL DEF Spec

-----------------------------------------------------------------------------
\* A robot that Nav2 has stopped commanding is told to stop within the timeout,
\* one timer period and the executor's delays (watchdog_callback, create_wall_timer),
\* whatever the parameters, the messages and the interleaving with the shutdown.
THEOREM StopLatencyHolds == Spec => []StopLatency
<1>1. TypeOK /\ StopInv => StopLatency
  <2> SUFFICES ASSUME TypeOK, StopInv, Serving, faults = 0, Moving
               PROVE  silence <= StopBound + back
    BY DEF StopLatency
  <2>1. FlagInv /\ AgeInv
    BY DEF StopInv, Good, Serving
  <2>2. /\ watchdog_timeout_ms_ \in Nat /\ Period \in Nat /\ Lag \in Nat
        /\ Exec \in Nat /\ back \in Nat /\ silence \in Nat /\ busy \in 0 .. Exec
    BY ParametersUsable, TimeAssumption, BudgetAssumption DEF TypeOK
  <2>3. QED
    BY <2>1, <2>2 DEF FlagInv, AgeInv, Serving, InCmd, InWd, StopBound
<1>2. QED
  BY <1>1, TypeCorrect, StopInvariant, PTL

\* timeout_stop_sent_ never claims a stop that was not published and is not
\* about to be (the exchange in watchdog_callback, the reset in cmd_vel_callback).
THEOREM StopFlagHolds == Spec => []StopFlagTruthful
<1>1. StopInv => StopFlagTruthful
  BY DEF StopInv, Good, FlagInv, StopFlagTruthful, Serving
<1>2. QED
  BY <1>1, StopInvariant, PTL

\* Before the constructor has published its stop nothing is moving yet.
LEMMA QuietStart == Spec => [](pc = "ctor_stop" => ~Moving)
<1> DEFINE Q == pc = "ctor_stop" => ~Moving
<1>1. Init => Q
  BY DEF Init, Moving
<1>2. Q /\ [Next]_vars => Q'
  <2> SUFFICES ASSUME Q, [Next]_vars, pc' = "ctor_stop"
               PROVE  wire' = StopCmd
    BY DEF Moving
  <2> USE DEF Goto, Moving, histVars
  <2>1. CASE Constructor \/ CmdCallback \/ Destructor
    BY <2>1 DEF Constructor, CtorPublish, CtorStamp, CtorThrows, CmdCallback,
                CmdBegin, CmdStamp, CmdPublish, CmdThrows, Destructor,
                SpinReturns, DtorPublish, DtorStamp
  <2>2. CASE Watchdog
    BY <2>2 DEF Watchdog, WdBegin, WdFresh, WdStopSent, WdTimeout, WdDue,
                WdPublish, WdStamp, WdThrows
  <2>3. CASE Shutdown
    BY <2>3 DEF Shutdown, SendStopPublish, SendStopStamp, FlushDone, StopPublish, Publish
  <2>4. QED
    BY <2>1, <2>2, <2>3
    DEF Next, Sigint, Tick, CmdVelArrives, ClockBack, ClockForward, vars
<1>3. QED
  BY <1>1, <1>2, PTL DEF Spec

-----------------------------------------------------------------------------
\* What the mapping calls live.
GateLive == Good /\ ~InDtor /\ ~Gone

\* Once the promise has ended it stays ended: no step leads back from the
\* destructor or from the end of the process.
LEMMA LiveBefore == TypeOK /\ [Next]_vars /\ GateLive' => GateLive
<1> SUFFICES ASSUME TypeOK, [Next]_vars, GateLive'
             PROVE  ~InDtor /\ ~Gone
  BY GoodBefore DEF GateLive
<1> USE DEF GateLive, InDtor, Gone, Goto
<1>1. CASE Constructor \/ CmdCallback \/ Destructor
  BY <1>1 DEF Constructor, CtorPublish, CtorStamp, CtorThrows, CmdCallback,
              CmdBegin, CmdStamp, CmdPublish, CmdThrows, Destructor,
              SpinReturns, DtorPublish, DtorStamp
<1>2. CASE Watchdog
  BY <1>2 DEF Watchdog, WdBegin, WdFresh, WdStopSent, WdTimeout, WdDue,
              WdPublish, WdStamp, WdThrows
<1>3. CASE Shutdown
  BY <1>3 DEF Shutdown, SendStopPublish, SendStopStamp, FlushDone
<1>4. QED
  BY <1>1, <1>2, <1>3
  DEF Next, Sigint, Tick, CmdVelArrives, ClockBack, ClockForward, vars

\* Every step of the bridge is a step of the gate or leaves it unchanged.
LEMMA GateStep ==
  /\ TypeOK /\ TypeOK' /\ StopInv /\ (pc = "ctor_stop" => ~Moving)
  /\ [Next]_vars
  => [Gate!GateNext]_(Gate!gateVars)
<1> SUFFICES ASSUME TypeOK, TypeOK', StopInv, pc = "ctor_stop" => ~Moving,
                    [Next]_vars
             PROVE  Gate!GateNext \/ UNCHANGED <<wire, silence, GateLive>>
  BY DEF Gate!gateVars, GateLive
<1>1. CASE ~GateLive'
  <2>1. wire' \in Commands /\ silence' \in 0 .. Cap
    BY DEF TypeOK
  <2>2. Gate!End
    BY <1>1, <2>1 DEF Gate!End, GateLive
  <2>3. QED
    BY <2>2 DEF Gate!GateNext
<1>2. CASE GateLive'
  <2>0. /\ GateLive /\ Good /\ Good' /\ FlagInv /\ AgeInv /\ GateLive' = GateLive
    BY <1>2, LiveBefore DEF GateLive, StopInv
  <2>1. /\ ContextOk /\ faults = 0 /\ faults' = 0 /\ silence \in 0 .. Cap
        /\ busy \in 0 .. Exec /\ back \in 0 .. MaxJump /\ timer \in Int
        /\ Lag \in Nat /\ Exec \in Nat /\ MaxJump \in Nat /\ Cap \in Nat
        /\ watchdog_timeout_ms_ \in Nat /\ Period \in Nat
    BY <2>0, TimeAssumption, BudgetAssumption, ParametersUsable DEF Good, TypeOK
  <2> USE <2>0, <2>1
  <2> USE DEF histVars, Goto, InCmd
  <2>2. ASSUME UNCHANGED <<wire, silence>>
        PROVE  UNCHANGED <<wire, silence, GateLive>>
    BY <2>2
  <2>3. ASSUME NEW thread, StopPublish(thread) PROVE Gate!GateNext
    <3>1. wire' = StopCmd /\ silence' = silence
      BY <2>3 DEF StopPublish, Publish
    <3>2. QED
      BY <3>1 DEF Gate!GateNext, Gate!SendStop, GateLive
  <2>4. CASE CmdStamp
    BY <2>4 DEF CmdStamp, Gate!GateNext, Gate!Receive, GateLive
  <2>5. CASE CmdPublish
    <3>1. wire' \in Commands /\ silence' = silence /\ silence <= Exec
      BY <2>5 DEF CmdPublish, Publish, AgeInv, TypeOK
    <3>2. QED
      BY <3>1 DEF Gate!GateNext, Gate!Send, GateLive
  <2>6. CASE Tick
    <3>1. Moving => silence < StopBound + MaxJump
      <4>1. CASE pc = "spin" \/ InCmd
        <5>1. timer > -Lag
          BY <2>6, <4>1 DEF Tick
        <5>2. CASE pc = "cmd_pub" \/ (Moving /\ pc \in {"spin", "cmd_stamp"})
          BY <5>1, <5>2 DEF AgeInv, StopBound
        <5>3. QED
          BY <4>1, <5>2
      <4>2. CASE pc = "wd_stop"
        BY <2>6, <4>2 DEF Tick, InCallback, InWd, AgeInv, StopBound
      <4>3. CASE pc \in {"ctor_stop", "ctor_stamp", "wd_stamp"}
        BY <4>3 DEF FlagInv
      <4>4. QED
        BY <4>1, <4>2, <4>3 DEF GateLive, InDtor, Gone, TypeOK
    <3>2. wire' = wire /\ silence' = IF silence < Cap THEN silence + 1 ELSE silence
      BY <2>6 DEF Tick, Older
    <3>3. QED
      BY <3>1, <3>2 DEF Gate!GateNext, Gate!PassTime, GateLive, Moving
  <2>7. CASE CtorPublish \/ WdPublish \/ SendStopPublish \/ DtorPublish
    BY <2>3, <2>7 DEF CtorPublish, WdPublish, SendStopPublish, DtorPublish
  <2>8. CASE CtorStamp \/ CtorThrows \/ CmdBegin \/ CmdThrows
    BY <2>2, <2>8 DEF CtorStamp, CtorThrows, CmdBegin, CmdThrows, StopThrows,
                      PublishThrows
  <2>9. CASE WdBegin \/ WdStamp \/ WdThrows
    BY <2>2, <2>9 DEF WdBegin, WdFresh, WdStopSent, WdTimeout, WdStamp, WdThrows,
                      StopThrows, PublishThrows
  <2>10. CASE SendStopStamp \/ FlushDone \/ Sigint
    BY <2>2, <2>10 DEF SendStopStamp, FlushDone, Sigint,
                       StopThrows, PublishThrows
  <2>11. CASE SpinReturns \/ DtorStamp
    BY <2>2, <2>11 DEF SpinReturns, DtorStamp
  <2>12. ASSUME NEW m \in Twists, CmdVelArrives(m)
         PROVE  UNCHANGED <<wire, silence>>
    BY <2>12 DEF CmdVelArrives
  <2>13. ASSUME NEW d \in 1 .. MaxJump, ClockBack(d) \/ ClockForward(d)
         PROVE  UNCHANGED <<wire, silence>>
    BY <2>13 DEF ClockBack, ClockForward
  <2>14. CASE UNCHANGED vars
    BY <2>2, <2>14 DEF vars
  <2>15. QED
    BY <2>2, <2>4, <2>5, <2>6, <2>7, <2>8, <2>9, <2>10, <2>11, <2>12, <2>13, <2>14
    DEF Next, Constructor, CmdCallback, Watchdog, Shutdown, Destructor
<1>3. QED
  BY <1>1, <1>2

\* The bridge, with its two threads, flags and timer, implements the promise of
\* VelocityGate: fresh commands pass, and motion does not outlive its command.
THEOREM BridgeKeepsGate == Spec => KeepsGate
<1>1. Init => Gate!GateInit
  BY BudgetAssumption
  DEF Init, Gate!GateInit, Good, ContextOk, InDtor, Gone
<1>2. QED
  BY <1>1, GateStep, TypeCorrect, StopInvariant, QuietStart, PTL
  DEF Spec, KeepsGate, Gate!GateSpec

-----------------------------------------------------------------------------
\* Nothing moves before the first command, whatever fails and whatever is left of
\* the context.
NeverMovedInv ==
  /\ ~cmd_vel_received_ => ~Moving
  /\ InCmd => cmd_vel_received_

\* One step: a node that has received no command has sent none.
LEMMA NeverMovedStep == TypeOK /\ NeverMovedInv /\ [Next]_vars => NeverMovedInv'
<1> SUFFICES ASSUME TypeOK, NeverMovedInv, [Next]_vars
             PROVE  NeverMovedInv'
  OBVIOUS
<1> USE DEF NeverMovedInv, InCmd, Moving, Goto, flagVars, clockVars, histVars
<1>1. ASSUME NEW thread, StopPublish(thread) PROVE wire' = wire \/ wire' = StopCmd
  BY <1>1 DEF StopPublish, Publish
<1>2. StopThrows \/ PublishThrows => wire' = wire
  BY DEF StopThrows, PublishThrows
<1>3. CASE Constructor
  BY <1>1, <1>2, <1>3 DEF Constructor, CtorPublish, CtorStamp, CtorThrows
<1>4. CASE CmdCallback
  BY <1>2, <1>4 DEF CmdCallback, CmdBegin, CmdStamp, CmdPublish, CmdThrows
<1>5. CASE Watchdog
  BY <1>1, <1>2, <1>5
  DEF Watchdog, WdBegin, WdFresh, WdStopSent, WdTimeout, WdDue, WdPublish, WdStamp, WdThrows
<1>6. CASE Shutdown
  BY <1>1, <1>2, <1>6 DEF Shutdown, SendStopPublish, SendStopStamp, FlushDone
<1>7. CASE Destructor
  BY <1>1, <1>7 DEF Destructor, SpinReturns, DtorPublish, DtorStamp
<1>8. CASE Sigint \/ Tick \/ UNCHANGED vars
  BY <1>8 DEF Sigint, Tick, vars
<1>9. ASSUME NEW m \in Twists, CmdVelArrives(m) PROVE NeverMovedInv'
  BY <1>9 DEF CmdVelArrives
<1>10. ASSUME NEW d \in 1 .. MaxJump, ClockBack(d) \/ ClockForward(d) PROVE NeverMovedInv'
  BY <1>10 DEF ClockBack, ClockForward
<1> QED
  BY <1>3, <1>4, <1>5, <1>6, <1>7, <1>8, <1>9, <1>10 DEF Next

-----------------------------------------------------------------------------
\* SpuriousInv: a command looks older than it is by no more than the clock was
\* set forward; so where a moving robot is about to be stopped, it is time.
SpuriousInv ==
  /\ elapsed <= silence + fwd
  /\ pc = "wd_stop" /\ Moving => silence > watchdog_timeout_ms_ - fwd

\* One step: a stop is under way only after a silence.
LEMMA SpuriousStep ==
  TypeOK /\ NeverMovedInv /\ SpuriousInv /\ [Next]_vars => SpuriousInv'
<1> SUFFICES ASSUME TypeOK, NeverMovedInv, SpuriousInv, [Next]_vars
             PROVE  SpuriousInv'
  OBVIOUS
<1>0. /\ Cap \in Nat /\ elapsed \in Int /\ elapsed <= Cap /\ silence \in 0 .. Cap
      /\ fwd \in Nat /\ watchdog_timeout_ms_ \in Nat
  BY ParametersUsable, BudgetAssumption DEF TypeOK
<1> USE <1>0
<1> USE DEF SpuriousInv, Moving, Goto, flagVars, clockVars, histVars
<1>1. ASSUME NEW thread, StopPublish(thread)
      PROVE  (wire' = wire \/ wire' = StopCmd) /\ UNCHANGED <<silence, fwd>>
  BY <1>1 DEF StopPublish, Publish
<1>2. StopThrows \/ PublishThrows => UNCHANGED <<wire, silence, fwd>>
  BY DEF StopThrows, PublishThrows
<1>3. CASE Constructor
  BY <1>1, <1>2, <1>3 DEF Constructor, CtorPublish, CtorStamp, CtorThrows
<1>4. CASE CmdCallback
  BY <1>2, <1>4 DEF CmdCallback, CmdBegin, CmdStamp, CmdPublish, CmdThrows, Publish
<1>5. CASE WdFresh \/ WdStopSent \/ WdPublish \/ WdStamp \/ WdThrows
  BY <1>1, <1>2, <1>5 DEF WdFresh, WdStopSent, WdDue, WdPublish, WdStamp, WdThrows
<1>6. CASE WdTimeout
  <2>1. Moving => elapsed > watchdog_timeout_ms_
    BY <1>6 DEF WdTimeout, TimedOut, NeverMovedInv, watchdog_timeout_elapsed
  <2> QED
    BY <1>6, <2>1 DEF WdTimeout
<1>7. CASE Shutdown
  BY <1>1, <1>2, <1>7 DEF Shutdown, SendStopPublish, SendStopStamp, FlushDone
<1>8. CASE Destructor
  BY <1>1, <1>8 DEF Destructor, SpinReturns, DtorPublish, DtorStamp
<1>9. CASE Tick
  BY <1>9 DEF Tick, Older
<1>10. CASE Sigint \/ UNCHANGED vars
  BY <1>10 DEF Sigint, vars
<1>11. ASSUME NEW m \in Twists, CmdVelArrives(m) PROVE SpuriousInv'
  BY <1>11 DEF CmdVelArrives
<1>12. ASSUME NEW d \in 1 .. MaxJump, ClockBack(d) PROVE SpuriousInv'
  BY <1>12, BudgetAssumption DEF ClockBack
<1>13. ASSUME NEW d \in 1 .. MaxJump, ClockForward(d) PROVE SpuriousInv'
  BY <1>13, BudgetAssumption DEF ClockForward, Older
<1> QED
  BY <1>3, <1>4, <1>5, <1>6, <1>7, <1>8, <1>9, <1>10, <1>11, <1>12, <1>13
  DEF Next, Watchdog, WdBegin

\* A robot that is being commanded is not cut off: the watchdog stops it only if
\* the last command really is older than the timeout, less what the clock was
\* set forward, and whatever else has failed.
THEOREM NoSpuriousStopHolds == Spec => NoSpuriousStop
<1>1. Init => NeverMovedInv /\ SpuriousInv
  BY BudgetAssumption DEF Init, NeverMovedInv, SpuriousInv, InCmd, Moving
<1>2. SpuriousInv /\ [Next]_vars =>
        [(pc = "wd_stop" /\ pc' = "wd_stamp" /\ Moving)
           => silence > watchdog_timeout_ms_ - fwd]_vars
  BY DEF SpuriousInv
<1> QED
  BY <1>1, <1>2, NeverMovedStep, SpuriousStep, TypeCorrect, PTL DEF Spec, NoSpuriousStop

-----------------------------------------------------------------------------
\* StampInv: no stop was stamped later than now, but for the clock; and main
\* leaves spin() for good only when the context is gone.
StampInv ==
  /\ since_stop + back >= 0
  /\ InDtor \/ Gone => sig \in {"done", "dead"}

\* One step: the time stamps are no later than what they stamp.
LEMMA StampStep == TypeOK /\ StampInv /\ [Next]_vars => StampInv'
<1> SUFFICES ASSUME TypeOK, StampInv, [Next]_vars
             PROVE  StampInv'
  OBVIOUS
<1>0. Cap \in Nat /\ since_stop \in Int /\ since_stop <= Cap /\ back \in Nat
  BY ParametersUsable, BudgetAssumption DEF TypeOK
<1> USE <1>0
<1> USE DEF StampInv, InDtor, Gone, Goto, flagVars, clockVars, histVars, StopThrows,
            PublishThrows, StopPublish, Publish, StopStamp
<1>1. CASE Constructor
  BY <1>1 DEF Constructor, CtorPublish, CtorStamp, CtorThrows
<1>2. CASE CmdCallback
  BY <1>2 DEF CmdCallback, CmdBegin, CmdStamp, CmdPublish, CmdThrows
<1>3. CASE Watchdog
  BY <1>3 DEF Watchdog, WdBegin, WdFresh, WdStopSent, WdTimeout, WdDue, WdPublish, WdStamp,
              WdThrows
<1>4. CASE Shutdown
  BY <1>4 DEF Shutdown, SendStopPublish, SendStopStamp, FlushDone
<1>5. CASE Destructor
  BY <1>5 DEF Destructor, SpinReturns, DtorPublish, DtorStamp
<1>6. CASE Sigint \/ Tick \/ UNCHANGED vars
  BY <1>6 DEF Sigint, Tick, Older, vars
<1>7. ASSUME NEW m \in Twists, CmdVelArrives(m) PROVE StampInv'
  BY <1>7 DEF CmdVelArrives
<1>8. ASSUME NEW d \in 1 .. MaxJump, ClockBack(d) \/ ClockForward(d) PROVE StampInv'
  BY <1>8, BudgetAssumption DEF ClockBack, ClockForward, Older
<1> QED
  BY <1>1, <1>2, <1>3, <1>4, <1>5, <1>6, <1>7, <1>8 DEF Next

-----------------------------------------------------------------------------
\* HeartInv: what Heartbeat needs to be kept.  Whatever goes out was stamped
\* before, a command by itself and a stop within Exec; so a call of the
\* watchdog that publishes nothing finds the link quiet for no longer than the
\* older of its two reasons, and the next call is a period away.
Interval == Larger(watchdog_timeout_ms_, kStopRepublishMs)

QuietInv ==
  /\ pc # "cmd_pub" => quiet <= silence
  /\ quiet <= since_stop + back + Exec

\* Between a stop and its stamp a callback takes Exec.
StampingInv == pc \in {"ctor_stop", "ctor_stamp", "wd_stamp"} => quiet <= busy

DueInv ==
  /\ pc = "spin" \/ InCmd =>
       /\ quiet + timer <= Interval + Period + Exec + back
       /\ quiet <= Interval + Period + Lag + Exec + back
  /\ pc = "wd_stop" => quiet <= Interval + Period + Lag + Exec + back + busy

HeartInv == Good => QuietInv /\ StampingInv /\ DueInv

\* One step: a stop command is due before the heartbeat is late.
LEMMA HeartStep ==
  TypeOK /\ StopInv /\ StampInv /\ HeartInv /\ [Next]_vars => HeartInv'
<1> SUFFICES ASSUME TypeOK, StopInv, StampInv, HeartInv, [Next]_vars, Good'
             PROVE  QuietInv' /\ StampingInv' /\ DueInv'
  BY DEF HeartInv
<1>0. Good /\ ClockInv /\ QuietInv /\ StampingInv /\ DueInv /\ TypeOK'
  BY GoodBefore, TypeOKStep DEF HeartInv, StopInv
<1>1. /\ ContextOk /\ ContextOk' /\ faults = 0 /\ faults' = 0
      /\ silence \in Nat /\ quiet \in Nat /\ quiet <= Cap /\ back \in Nat
      /\ busy \in Nat /\ busy <= Exec /\ since_stop \in Int /\ since_stop <= Cap
      /\ timer \in Int /\ timer <= Period /\ elapsed \in Int
  BY <1>0, TimeAssumption, BudgetAssumption DEF Good, TypeOK
<1>2. /\ Period \in Nat /\ watchdog_timeout_ms_ \in Nat /\ Cap \in Nat
      /\ Lag \in Nat /\ Exec \in Nat /\ MaxJump \in Nat /\ kStopRepublishMs \in Nat
  BY ParametersUsable, TimeAssumption, BudgetAssumption
<1>3. Interval \in Nat /\ Interval >= watchdog_timeout_ms_ /\ Interval >= kStopRepublishMs
  BY <1>2 DEF Interval, Larger
<1> USE <1>0, <1>1, <1>2, <1>3
<1> USE DEF QuietInv, StampingInv, DueInv, StampInv, InCmd, Goto, clockVars,
            histVars, flagVars
<1>pc. pc \in {"ctor_stop", "ctor_stamp", "wd_stop", "wd_stamp", "spin"} \/ InCmd
  BY DEF TypeOK, InDtor, Gone, Good, ContextOk
<1>4. CASE CtorPublish
  BY <1>4 DEF CtorPublish, StopPublish, Publish
<1>5. CASE CtorStamp
  BY <1>5 DEF CtorStamp, StopStamp
<1>6. CASE CmdBegin \/ CmdStamp
  BY <1>6 DEF CmdBegin, CmdStamp
<1>7. CASE CmdPublish
  BY <1>7 DEF CmdPublish, Publish
<1>8. CASE CtorThrows \/ CmdThrows \/ WdThrows
  BY <1>8 DEF CtorThrows, CmdThrows, WdThrows, StopThrows, PublishThrows
<1>9. CASE WdFresh
  <2>1. TimerAfterCall \in 0 .. Period
    BY TimerRearmed
  <2>2. silence <= watchdog_timeout_ms_ + back
    BY <1>9 DEF WdFresh, TimedOut, watchdog_timeout_elapsed, ClockInv
  <2> QED
    BY <1>9, <2>1, <2>2 DEF WdFresh, WdDue
<1>10. CASE WdStopSent
  <2>1. TimerAfterCall \in 0 .. Period
    BY TimerRearmed
  <2>2. since_stop < kStopRepublishMs
    BY <1>10 DEF WdStopSent, PeriodicRepublish
  <2> QED
    BY <1>10, <2>1, <2>2 DEF WdStopSent, WdDue
<1>11. CASE WdTimeout
  BY <1>11 DEF WdTimeout, WdDue
<1>12. CASE WdPublish
  BY <1>12 DEF WdPublish, StopPublish, Publish
<1>13. CASE WdStamp
  BY <1>13 DEF WdStamp, StopStamp
<1>14. CASE Sigint \/ Shutdown \/ Destructor
  <2>1. ~ContextOk \/ ~ContextOk'
    BY <1>14 DEF Sigint, Shutdown, SendStopPublish, SendStopStamp, FlushDone, Destructor,
                 SpinReturns, DtorPublish, DtorStamp, ContextOk, InDtor
  <2> QED
    BY <2>1
<1>15. CASE Tick
  <2>1. /\ quiet' = Older(quiet, 1) /\ silence' = Older(silence, 1)
        /\ since_stop' = Older(since_stop, 1)
        /\ pc' = pc /\ sig' = sig /\ back' = back
    BY <1>15 DEF Tick
  <2>2. timer' = timer - 1
    BY <1>15, <1>pc DEF Tick, Gone
  <2>3. /\ pc = "spin" \/ InCmd => timer > -Lag
        /\ pc # "spin" => busy' = busy + 1
    BY <1>15, <1>pc DEF Tick, InCallback, InCtor, InWd
  <2>4. quiet' \in Nat /\ quiet' <= quiet + 1
    BY <2>1 DEF Older
  <2>5. QuietInv'
    BY <2>1 DEF Older
  <2>6. StampingInv'
    BY <2>1, <2>2, <2>3, <2>4
  <2>7. DueInv'
    BY <2>1, <2>2, <2>3, <2>4
  <2> QED
    BY <2>5, <2>6, <2>7
<1>16. ASSUME NEW m \in Twists, CmdVelArrives(m)
       PROVE  QuietInv' /\ StampingInv' /\ DueInv'
  BY <1>16 DEF CmdVelArrives
<1>17. ASSUME NEW d \in 1 .. MaxJump, ClockBack(d) \/ ClockForward(d)
       PROVE  QuietInv' /\ StampingInv' /\ DueInv'
  BY <1>17 DEF ClockBack, ClockForward, Older
<1>18. CASE UNCHANGED vars
  BY <1>18 DEF vars
<1> QED
  BY <1>4, <1>5, <1>6, <1>7, <1>8, <1>9, <1>10, <1>11, <1>12, <1>13, <1>14, <1>15, <1>16,
     <1>17, <1>18
  DEF Next, Constructor, CmdCallback, Watchdog, WdBegin

\* However the messages of the link are lost, the next stop is on its way within
\* the republishing interval and its delays, for every value of the parameters.
THEOREM HeartbeatHolds == Spec => []Heartbeat
<1>1. Init => StampInv /\ HeartInv
  <2> SUFFICES ASSUME Init PROVE StampInv /\ HeartInv
    OBVIOUS
  <2>1. Cap \in Nat /\ Period \in Nat /\ Exec \in Nat
    BY ParametersUsable, TimeAssumption
  <2> QED
    BY <2>1
    DEF Init, StampInv, HeartInv, QuietInv, StampingInv, DueInv, InCmd, InDtor, Gone
<1>2. TypeOK /\ HeartInv => Heartbeat
  <2> SUFFICES ASSUME TypeOK, HeartInv, Serving, faults = 0
               PROVE  quiet <= Interval + Period + Lag + 2 * Exec + back
    BY DEF Heartbeat, Interval
  <2>1. StampingInv /\ DueInv
    BY DEF HeartInv, Good, Serving
  <2>2. /\ Period \in Nat /\ Lag \in Nat /\ Exec \in Nat /\ back \in Nat /\ Interval \in Nat
        /\ quiet \in Nat /\ busy \in 0 .. Exec 
    BY ParametersUsable, TimeAssumption, BudgetAssumption
    DEF TypeOK, Interval, Larger
  <2> QED
    BY <2>1, <2>2 DEF StampingInv, DueInv, Serving, InWd
<1> QED
  BY <1>1, <1>2, StampStep, HeartStep, TypeCorrect, StopInvariant, PTL DEF Spec

-----------------------------------------------------------------------------
\* RetryInv: what RetryLatency needs to be kept, as long as the context is valid.
\* A robot that moves though timeout_stop_sent_ is set has been
\* failed by a publish(); its last stop is no younger than its command.
Delays == Period + Lag + Exec
RetryBase == Larger(watchdog_timeout_ms_ + Period, kStopRepublishMs) + faults * Delays + back

UnstoppedInv ==
  /\ InCmd => ~timeout_stop_sent_
  /\ pc \in {"ctor_stamp", "wd_stamp"} => ~Moving
  /\ pc = "wd_stop" => timeout_stop_sent_
  /\ Moving /\ timeout_stop_sent_ => pc = "wd_stop" \/ faults >= 1
  /\ Moving \/ pc = "cmd_pub" => since_stop >= silence - back

\* A fresh command is sampled in time, and after each failure the next attempt is.
AttemptInv ==
  /\ pc = "cmd_pub" \/ (Moving /\ pc = "spin" /\ ~timeout_stop_sent_) =>
       silence + timer <= watchdog_timeout_ms_ + Period + back
  /\ pc = "cmd_pub" \/ (Moving /\ pc \in {"spin", "cmd_stamp"}) =>
       silence + timer <= RetryBase /\ silence <= RetryBase + Lag
  /\ pc = "wd_stop" /\ Moving =>
       silence + timer <= RetryBase + Lag + Period /\ silence <= RetryBase + Lag + busy

RetryInv == ContextOk => UnstoppedInv /\ AttemptInv

\* One step: a stop command that was not sent is sent again in time.
LEMMA RetryStep ==
  TypeOK /\ NeverMovedInv /\ StopInv /\ StampInv /\ RetryInv /\ [Next]_vars => RetryInv'
<1> SUFFICES ASSUME TypeOK, NeverMovedInv, StopInv, StampInv, RetryInv, [Next]_vars, ContextOk'
             PROVE  UnstoppedInv' /\ AttemptInv'
  BY DEF RetryInv
<1>0. sig = "none"
  BY DEF ContextOk, Next, Constructor, CtorPublish, CtorStamp, CtorThrows, CmdCallback, CmdBegin,
         CmdStamp, CmdPublish, CmdThrows, Watchdog, WdBegin, WdFresh, WdStopSent, WdTimeout,
         WdPublish, WdStamp, WdThrows, Shutdown, SendStopPublish, SendStopStamp,
         FlushDone, Destructor, SpinReturns, DtorPublish, DtorStamp, Sigint,
         Tick, CmdVelArrives, ClockBack, ClockForward, vars
<1>1. /\ ContextOk /\ ClockInv /\ UnstoppedInv /\ AttemptInv
      /\ silence \in Nat /\ silence <= Cap /\ back \in Nat /\ faults \in Nat
      /\ busy \in Nat /\ busy <= Exec /\ since_stop \in Int /\ since_stop <= Cap
      /\ timer \in Int /\ timer <= Period /\ elapsed \in Int
  BY <1>0, TimeAssumption, BudgetAssumption DEF ContextOk, RetryInv, StopInv, TypeOK
<1>2. /\ Period \in Nat /\ watchdog_timeout_ms_ \in Nat /\ Cap \in Nat
      /\ Lag \in Nat /\ Exec \in Nat /\ kStopRepublishMs \in Nat
  BY ParametersUsable, TimeAssumption
<1> DEFINE base == Larger(watchdog_timeout_ms_ + Period, kStopRepublishMs)
<1>3. base \in Nat /\ base >= watchdog_timeout_ms_ + Period /\ base >= kStopRepublishMs
  BY <1>2 DEF Larger
<1> HIDE DEF base
<1>4. Delays \in Nat /\ Delays >= Period + Lag + Exec
  BY <1>2 DEF Delays
<1>5. /\ faults * Delays \in Nat /\ (faults + 1) * Delays = faults * Delays + Delays
      /\ faults >= 1 => faults * Delays >= Delays
  BY <1>1, <1>4
<1>6. /\ RetryBase = base + faults * Delays + back
      /\ RetryBase' = base + faults' * Delays + back'
  BY DEF RetryBase, base
<1> USE <1>0, <1>1, <1>2, <1>3, <1>4, <1>5, <1>6
<1> USE DEF UnstoppedInv, AttemptInv, StampInv, InCmd, Moving, Goto, clockVars, histVars,
            flagVars
<1>7. CASE CtorPublish
  BY <1>7 DEF CtorPublish, StopPublish, Publish
<1>8. CASE CtorStamp
  BY <1>8 DEF CtorStamp, StopStamp
<1>9. CASE CmdBegin
  BY <1>9 DEF CmdBegin
<1>10. CASE CmdStamp
  BY <1>10 DEF CmdStamp
<1>11. CASE CmdPublish
  BY <1>11 DEF CmdPublish, Publish
<1>12. CASE CmdThrows
  BY <1>12 DEF CmdThrows, PublishThrows
<1>13. CASE CtorThrows \/ Shutdown \/ Sigint \/ Destructor
  BY <1>13 DEF CtorThrows, Shutdown, SendStopPublish, SendStopStamp, FlushDone,
               Sigint, Destructor, SpinReturns, DtorPublish, DtorStamp, InDtor, ContextOk
<1>14. CASE WdFresh
  <2>1. TimerAfterCall \in 0 .. Period
    BY TimerRearmed
  <2>2. silence <= watchdog_timeout_ms_ + back
    BY <1>14 DEF WdFresh, TimedOut, watchdog_timeout_elapsed, ClockInv
  <2> QED
    BY <1>14, <2>1, <2>2 DEF WdFresh, WdDue
<1>15. CASE WdStopSent
  <2>1. TimerAfterCall \in 0 .. Period
    BY TimerRearmed
  <2>2. since_stop < kStopRepublishMs
    BY <1>15 DEF WdStopSent, PeriodicRepublish
  <2> QED
    BY <1>15, <2>1, <2>2 DEF WdStopSent, WdDue
<1>16. CASE WdTimeout
  <2>1. TimerAfterCall \in 0 .. Period
    BY TimerRearmed
  <2> QED
    BY <1>16, <2>1 DEF WdTimeout, WdDue
<1>17. CASE WdPublish
  BY <1>17 DEF WdPublish, StopPublish, Publish
<1>18. CASE WdStamp
  BY <1>18 DEF WdStamp, StopStamp
<1>19. CASE WdThrows
  <2>1. /\ pc = "wd_stop" /\ pc' = "spin" /\ faults' = faults + 1
        /\ timeout_stop_sent_' = timeout_stop_sent_ /\ wire' = wire /\ silence' = silence
        /\ since_stop' = since_stop /\ timer' = timer /\ back' = back
    BY <1>19 DEF WdThrows, StopThrows, PublishThrows
  <2>2. RetryBase' = RetryBase + Delays
    BY <2>1
  <2>3. RetryBase \in Int /\ timeout_stop_sent_
    BY <2>1
  <2>4. UnstoppedInv'
    BY <2>1, <2>3
  <2>5. AttemptInv'
    BY <2>1, <2>2, <2>3
  <2> QED
    BY <2>4, <2>5
<1>20. CASE Tick
  <2>1. /\ silence' = Older(silence, 1) /\ since_stop' = Older(since_stop, 1)
        /\ pc' = pc /\ back' = back /\ faults' = faults /\ wire' = wire
        /\ timeout_stop_sent_' = timeout_stop_sent_
    BY <1>20 DEF Tick
  <2>2. ~Gone => timer' = timer - 1
    BY <1>20 DEF Tick
  <2>3. /\ pc = "spin" \/ InCmd => timer > -Lag
        /\ pc = "wd_stop" => busy' = busy + 1
    BY <1>20 DEF Tick, InCallback, InWd
  <2>4. silence' \in Nat /\ silence' <= silence + 1
    BY <2>1 DEF Older
  <2>5. UnstoppedInv'
    BY <2>1 DEF Older
  <2>6. AttemptInv'
    BY <2>1, <2>2, <2>3, <2>4 DEF Gone
  <2> QED
    BY <2>5, <2>6
<1>21. ASSUME NEW m \in Twists, CmdVelArrives(m) PROVE UnstoppedInv' /\ AttemptInv'
  BY <1>21 DEF CmdVelArrives
<1>22. ASSUME NEW d \in 1 .. MaxJump, ClockBack(d) \/ ClockForward(d)
       PROVE  UnstoppedInv' /\ AttemptInv'
  BY <1>22, BudgetAssumption DEF ClockBack, ClockForward, Older
<1>23. CASE UNCHANGED vars
  BY <1>23 DEF vars
<1> QED
  BY <1>7, <1>8, <1>9, <1>10, <1>11, <1>12, <1>13, <1>14, <1>15, <1>16, <1>17, <1>18, <1>19,
     <1>20, <1>21, <1>22, <1>23
  DEF Next, Constructor, CmdCallback, Watchdog, WdBegin

\* Even where publish() fails the robot is stopped: within the older of the
\* watchdog's two reasons and its delays, plus a period and its delays for each
\* failure, whatever the parameters.
THEOREM RetryLatencyHolds == Spec => []RetryLatency
<1>1. Init => NeverMovedInv /\ StampInv /\ RetryInv
  <2> SUFFICES ASSUME Init PROVE NeverMovedInv /\ StampInv /\ RetryInv
    OBVIOUS
  <2>1. Cap \in Nat
    BY ParametersUsable
  <2> QED
    BY <2>1 DEF Init, NeverMovedInv, StampInv, RetryInv, UnstoppedInv, AttemptInv, InCmd, Moving,
                InDtor, Gone
<1>2. TypeOK /\ RetryInv => RetryLatency
  <2> SUFFICES ASSUME TypeOK, RetryInv, Serving, Moving
               PROVE  silence <= Larger(watchdog_timeout_ms_ + Period, kStopRepublishMs)
                                   + Lag + Exec + faults * Delays + back
    BY ParametersUsable, TimeAssumption DEF RetryLatency, Delays
  <2>1. UnstoppedInv /\ AttemptInv
    BY DEF RetryInv, Serving
  <2>2. /\ Period \in Nat /\ Lag \in Nat /\ Exec \in Nat /\ watchdog_timeout_ms_ \in Nat
        /\ kStopRepublishMs \in Nat /\ faults \in Nat /\ back \in Nat
        /\ silence \in Nat /\ busy \in 0 .. Exec
    BY ParametersUsable, TimeAssumption, BudgetAssumption DEF TypeOK
  <2>3. Delays \in Nat
    BY <2>2 DEF Delays
  <2>4. faults * Delays \in Nat
    BY <2>2, <2>3
  <2>5. Larger(watchdog_timeout_ms_ + Period, kStopRepublishMs) \in Nat
    BY <2>2 DEF Larger
  <2>6. silence <= RetryBase + Lag + Exec
    BY <2>1, <2>2, <2>4, <2>5 DEF RetryBase, UnstoppedInv, AttemptInv, Serving, InCmd, InWd
  <2> QED
    BY <2>2, <2>4, <2>5, <2>6 DEF RetryBase
<1> QED
  BY <1>1, <1>2, NeverMovedStep, StampStep, RetryStep, TypeCorrect, StopInvariant, PTL DEF Spec

=============================================================================
