--------------------------- MODULE Go2NavBridge ---------------------------
(***************************************************************************)
(* The velocity bridge (bridge_node.cpp): one process that turns cmd_vel   *)
(* into sport_mode_cmd and stops the robot when cmd_vel falls silent.      *)
(*                                                                         *)
(* Two threads: main runs the constructor, the single-threaded executor    *)
(* (one callback at a time) and the destructor; sig is the thread in which *)
(* rclcpp runs the on_shutdown callback.  A callback is one action per     *)
(* point at which the other thread can get in between.                     *)
(*                                                                         *)
(* Timestamps are kept as ages: elapsed is now() - last_cmd_vel_time_ and  *)
(* since_stop is now() - last_stop_publish_time_, the only way the code    *)
(* reads either.  now() is the ROS clock, which can be set; the wall timer *)
(* runs on the steady clock, which cannot.                                 *)
(***************************************************************************)
EXTENDS BridgeUtils, Sequences

CONSTANTS
  linear_max_param, angular_max_param, watchdog_timeout_param,
                   \* the parameters as given, valid or not
  kLinearMax, kAngularMax, kDefaultWatchdogMs, kStopRepublishMs,
                   \* the constants of bridge_utils.hpp
  Twists,          \* the messages that may arrive on cmd_vel
  CmdVelDepth,     \* history depth of the cmd_vel subscription
  FlushMs,         \* how long the shutdown callback sleeps
  Lag,             \* how long a due timer may wait for the executor
  Exec,            \* how long one callback may take
  MaxFaults,       \* bound on publish() calls that throw
  MaxJump,         \* bound on the clock's total steps, per direction
  Horizon          \* how much further than its own bounds the ages are kept

Twist == [linear_x : Double, linear_y : Double, angular_z : Double]

ASSUME TimeAssumption ==
  /\ kDefaultWatchdogMs \in Nat \ {0} /\ kStopRepublishMs \in Nat \ {0}
  /\ FlushMs \in Nat /\ Lag \in Nat /\ Exec \in Nat
ASSUME ParamAssumption ==
  /\ linear_max_param \in Double /\ angular_max_param \in Double
  /\ watchdog_timeout_param \in Double
  /\ kLinearMax \in Nat \ {0} /\ kAngularMax \in Nat \ {0}
ASSUME InputAssumption == Twists \subseteq Twist /\ CmdVelDepth \in Nat \ {0}
ASSUME BudgetAssumption ==
  MaxFaults \in Nat /\ MaxJump \in Nat /\ Horizon \in Nat

linear_max_ == validate_positive_or_fallback(linear_max_param, kLinearMax)
angular_max_ == validate_positive_or_fallback(angular_max_param, kAngularMax)
watchdog_timeout_ms_ ==
  validate_positive_or_fallback(watchdog_timeout_param, kDefaultWatchdogMs)
Period == watchdog_period_from_timeout(watchdog_timeout_ms_)

\* Ages stop growing at Cap, which is above everything they are compared with
\* even after the clock has been set back by MaxJump.
Cap == watchdog_timeout_ms_ + kStopRepublishMs
         + (MaxFaults + 2) * (Period + Lag + Exec) + 2 * MaxJump + Horizon + 1
Older(age, d) == IF age + d > Cap THEN Cap ELSE age + d

make_velocity_command(x, y, yaw) == [velocity |-> <<x, y>>, yaw_speed |-> yaw]
StopCmd == make_velocity_command(0, 0, 0)

\* Mutant: linear_y is sanitised but not clamped.
VelocityForUnclamped(m) ==
  make_velocity_command(
    clamp_symmetric(sanitize_finite_or_zero(m.linear_x), linear_max_),
    sanitize_finite_or_zero(m.linear_y),
    clamp_symmetric(sanitize_finite_or_zero(m.angular_z), angular_max_))

\* What cmd_vel_callback sends for the Twist m.
VelocityFor(m) ==
  make_velocity_command(
    clamp_symmetric(sanitize_finite_or_zero(m.linear_x), linear_max_),
    clamp_symmetric(sanitize_finite_or_zero(m.linear_y), linear_max_),
    clamp_symmetric(sanitize_finite_or_zero(m.angular_z), angular_max_))

VARIABLES
  pc,                  \* where main is
  sig,                 \* where the on_shutdown callback is
  state_mutex_,        \* "free", or the thread that holds it
  cmd_vel_received_, timeout_stop_sent_,
  elapsed,             \* now() - last_cmd_vel_time_
  since_stop,          \* now() - last_stop_publish_time_
  timer,               \* time until the watchdog timer is due, < 0 if overdue
  busy,                \* how long the current callback has been running
  flushed,             \* how long the shutdown callback has been sleeping
  cmd_vel,             \* the queue of the cmd_vel subscription
  msg,                 \* the Twist in the callback's hands, if any
  wire,                \* the last command that went out on sport_mode_cmd
  silence, quiet,      \* history, in steady time: since the last command was
                       \* stamped, and since anything went out on the wire
  back, fwd, faults    \* history: steps of the clock, publish() calls failed

clockVars == <<elapsed, since_stop>>
histVars  == <<silence, quiet, back, fwd, faults>>
flagVars  == <<cmd_vel_received_, timeout_stop_sent_>>
vars == <<pc, sig, state_mutex_, flagVars, clockVars, timer, busy, flushed,
          cmd_vel, msg, wire, histVars>>

InCtor == pc \in {"ctor_stop", "ctor_stamp"}
InCmd  == pc \in {"cmd_stamp", "cmd_pub"}
InWd   == pc \in {"wd_stop", "wd_stamp"}
InDtor == pc \in {"dtor_stop", "dtor_stamp"}
Gone   == pc \in {"exited", "dead"}

\* rclcpp::ok(): the context is valid, so publish() reaches the transport and
\* spin() goes on.  A shutdown invalidates the context first and runs the
\* on_shutdown callbacks after.
ContextOk == sig = "none"

NoMsg == [none |-> TRUE]

Init ==
  /\ pc = "ctor_stop" /\ sig = "none" /\ state_mutex_ = "free"
  /\ cmd_vel_received_ = FALSE /\ timeout_stop_sent_ = FALSE
  /\ elapsed = 0 /\ since_stop = Cap
  /\ timer = Period /\ busy = 0 /\ flushed = 0
  /\ cmd_vel = <<>> /\ msg = NoMsg /\ wire = StopCmd
  /\ silence = 0 /\ quiet = 0 /\ back = 0 /\ fwd = 0 /\ faults = 0

-----------------------------------------------------------------------------
\* sdk_pub_->publish(c).  It can throw; once the context is invalid it does
\* nothing at all.
Publish(c) ==
  /\ wire' = IF ContextOk THEN c ELSE wire
  /\ quiet' = IF ContextOk THEN 0 ELSE quiet
  /\ UNCHANGED <<silence, back, fwd, faults>>

PublishThrows ==
  /\ ContextOk /\ faults < MaxFaults
  /\ faults' = faults + 1
  /\ UNCHANGED <<wire, silence, quiet, back, fwd>>

Goto(from, to) == pc = from /\ pc' = to

\* publish_stop_unlocked(), first half: under the mutex, the zero command.
StopPublish(thread) ==
  /\ state_mutex_ = "free" /\ state_mutex_' = thread
  /\ Publish(StopCmd)

\* Mutant: the mutex is not released.
StopStampHolding(thread) ==
  state_mutex_ = thread /\ UNCHANGED state_mutex_ /\ since_stop' = 0

\* Second half: last_stop_publish_time_ = now(), and the mutex is released.
StopStamp(thread) ==
  /\ state_mutex_ = thread /\ state_mutex_' = "free"
  /\ since_stop' = 0

\* The lock_guard releases the mutex while the exception passes.
StopThrows == state_mutex_ = "free" /\ UNCHANGED state_mutex_ /\ PublishThrows

-----------------------------------------------------------------------------
\* Mutant: the constructor forgets its stop.
CtorPublishNothing ==
  /\ Goto("ctor_stop", "ctor_stamp")
  /\ state_mutex_ = "free" /\ state_mutex_' = "main"
  /\ UNCHANGED <<sig, flagVars, clockVars, timer, busy, flushed, cmd_vel, msg,
                 wire, histVars>>

\* The constructor: timer armed, then publish_stop_command().  An exception
\* leaves main and terminates the process.
CtorPublish ==
  /\ Goto("ctor_stop", "ctor_stamp") /\ StopPublish("main")
  /\ UNCHANGED <<sig, flagVars, clockVars, timer, busy, flushed, cmd_vel, msg>>

CtorStamp ==
  /\ Goto("ctor_stamp", "spin") /\ StopStamp("main") /\ busy' = 0
  /\ UNCHANGED <<sig, flagVars, elapsed, timer, flushed, cmd_vel, msg, wire, histVars>>

CtorThrows ==
  /\ Goto("ctor_stop", "dead") /\ sig' = "dead" /\ StopThrows
  /\ UNCHANGED <<flagVars, clockVars, timer, busy, flushed, cmd_vel, msg>>

-----------------------------------------------------------------------------
\* Mutant: the queue is not bounded by the history depth but one above it.
CmdVelArrivesOneMore(m) ==
  /\ ~Gone
  /\ cmd_vel' = IF Len(cmd_vel) <= CmdVelDepth THEN Append(cmd_vel, m)
                                               ELSE Append(Tail(cmd_vel), m)
  /\ UNCHANGED <<pc, sig, state_mutex_, flagVars, clockVars, timer, busy,
                 flushed, msg, wire, histVars>>

\* The middleware: a Twist reaches the subscription; a full history drops its
\* oldest message.
CmdVelArrives(m) ==
  /\ ~Gone
  /\ cmd_vel' = IF Len(cmd_vel) < CmdVelDepth THEN Append(cmd_vel, m)
                                              ELSE Append(Tail(cmd_vel), m)
  /\ UNCHANGED <<pc, sig, state_mutex_, flagVars, clockVars, timer, busy,
                 flushed, msg, wire, histVars>>

\* Mutant: a command does not reset timeout_stop_sent_.
CmdBeginKeepingFlag ==
  /\ Goto("spin", "cmd_stamp") /\ ContextOk /\ cmd_vel # <<>>
  /\ msg' = Head(cmd_vel) /\ cmd_vel' = Tail(cmd_vel) /\ busy' = 0
  /\ cmd_vel_received_' = TRUE
  /\ UNCHANGED <<sig, state_mutex_, timeout_stop_sent_, clockVars, timer,
                 flushed, wire, histVars>>

\* cmd_vel_callback: the flags, then the stamp under the mutex, then the
\* command, published without it.
CmdBegin ==
  /\ Goto("spin", "cmd_stamp") /\ ContextOk /\ cmd_vel # <<>>
  /\ msg' = Head(cmd_vel) /\ cmd_vel' = Tail(cmd_vel) /\ busy' = 0
  /\ cmd_vel_received_' = TRUE /\ timeout_stop_sent_' = FALSE
  /\ UNCHANGED <<sig, state_mutex_, clockVars, timer, flushed, wire, histVars>>

CmdStamp ==
  /\ Goto("cmd_stamp", "cmd_pub") /\ state_mutex_ = "free"
  /\ elapsed' = 0 /\ silence' = 0
  /\ UNCHANGED <<sig, state_mutex_, flagVars, since_stop, timer, busy, flushed,
                 cmd_vel, msg, wire, quiet, back, fwd, faults>>

CmdPublish ==
  /\ Goto("cmd_pub", "spin") /\ Publish(VelocityFor(msg))
  /\ msg' = NoMsg /\ busy' = 0
  /\ UNCHANGED <<sig, state_mutex_, flagVars, clockVars, timer, flushed, cmd_vel>>

CmdThrows ==
  /\ Goto("cmd_pub", "spin") /\ PublishThrows
  /\ msg' = NoMsg /\ busy' = 0
  /\ UNCHANGED <<sig, state_mutex_, flagVars, clockVars, timer, flushed, cmd_vel>>

-----------------------------------------------------------------------------
\* The wall timer re-arms from the time it was due, and skips the periods that
\* have already passed.
TimerAfterCall ==
  LET late == (-timer) % Period
  IN  IF timer < 0 /\ late = 0 THEN 0 ELSE Period - late

WdDue == pc = "spin" /\ ContextOk /\ timer <= 0 /\ state_mutex_ = "free"

\* Mutant: the age of the last stop is taken for that of the last command.
TimedOutSinceStop == \/ ~cmd_vel_received_
                     \/ watchdog_timeout_elapsed(since_stop, watchdog_timeout_ms_)

\* Mutant: the republishing interval is taken for the timeout.
TimedOutLate == \/ ~cmd_vel_received_
                \/ watchdog_timeout_elapsed(elapsed, kStopRepublishMs)

TimedOut == \/ ~cmd_vel_received_
            \/ watchdog_timeout_elapsed(elapsed, watchdog_timeout_ms_)

\* Mutant: a stop is published once and never again.
NeverRepublish == FALSE

PeriodicRepublish == since_stop >= kStopRepublishMs

\* Mutant: a fresh command sets timeout_stop_sent_ instead of resetting it.
WdFreshSettingFlag ==
  /\ WdDue /\ ~TimedOut
  /\ timer' = TimerAfterCall /\ timeout_stop_sent_' = TRUE
  /\ UNCHANGED <<pc, sig, state_mutex_, cmd_vel_received_, clockVars, busy,
                 flushed, cmd_vel, msg, wire, histVars>>

\* watchdog_callback up to its decision: now, the two stamps under the mutex
\* and the flags, which only main touches.
WdFresh ==
  /\ WdDue /\ ~TimedOut
  /\ timer' = TimerAfterCall /\ timeout_stop_sent_' = FALSE
  /\ UNCHANGED <<pc, sig, state_mutex_, cmd_vel_received_, clockVars, busy,
                 flushed, cmd_vel, msg, wire, histVars>>

WdStopSent ==
  /\ WdDue /\ TimedOut /\ timeout_stop_sent_ /\ ~PeriodicRepublish
  /\ timer' = TimerAfterCall
  /\ UNCHANGED <<pc, sig, state_mutex_, flagVars, clockVars, busy, flushed,
                 cmd_vel, msg, wire, histVars>>

WdTimeout ==
  /\ WdDue /\ TimedOut /\ (~timeout_stop_sent_ \/ PeriodicRepublish)
  /\ timer' = TimerAfterCall /\ timeout_stop_sent_' = TRUE
  /\ pc' = "wd_stop" /\ busy' = 0
  /\ UNCHANGED <<sig, state_mutex_, cmd_vel_received_, clockVars, flushed,
                 cmd_vel, msg, wire, histVars>>

WdBegin == WdFresh \/ WdStopSent \/ WdTimeout

WdPublish ==
  /\ Goto("wd_stop", "wd_stamp") /\ StopPublish("main")
  /\ UNCHANGED <<sig, flagVars, clockVars, timer, busy, flushed, cmd_vel, msg>>

WdStamp ==
  /\ Goto("wd_stamp", "spin") /\ StopStamp("main") /\ busy' = 0
  /\ UNCHANGED <<sig, flagVars, elapsed, timer, flushed, cmd_vel, msg, wire, histVars>>

\* The exception is caught and logged; timeout_stop_sent_ stays set.
WdThrows ==
  /\ Goto("wd_stop", "spin") /\ StopThrows /\ busy' = 0
  /\ UNCHANGED <<sig, flagVars, clockVars, timer, flushed, cmd_vel, msg>>

-----------------------------------------------------------------------------
\* SIGINT: in a thread of its own rclcpp shuts the context down and then runs
\* the on_shutdown callback; during the constructor there is none yet.
Sigint ==
  /\ sig = "none" /\ ~Gone
  /\ sig' = IF InCtor THEN "done" ELSE "stop"
  /\ UNCHANGED <<pc, state_mutex_, flagVars, clockVars, timer, busy, flushed,
                 cmd_vel, msg, wire, histVars>>

\* send_stop(): it takes the mutex and calls publish(), which sends nothing.
SendStopPublish ==
  /\ sig = "stop" /\ sig' = "stamp" /\ StopPublish("sig")
  /\ UNCHANGED <<pc, flagVars, clockVars, timer, busy, flushed, cmd_vel, msg>>

SendStopStamp ==
  /\ sig = "stamp" /\ sig' = "flush" /\ StopStamp("sig")
  /\ UNCHANGED <<pc, flagVars, elapsed, timer, busy, flushed, cmd_vel, msg, wire, histVars>>

\* The sleep is over and the callback returns.
FlushDone ==
  /\ sig = "flush" /\ flushed >= FlushMs /\ sig' = "done"
  /\ UNCHANGED <<pc, state_mutex_, flagVars, clockVars, timer, busy, flushed,
                 cmd_vel, msg, wire, histVars>>

\* spin() returns once the context is invalid; rclcpp::shutdown() in main waits
\* for the shutdown in progress, and the node is destroyed.
SpinReturns ==
  /\ Goto("spin", "dtor_stop") /\ sig = "done" /\ busy' = 0
  /\ UNCHANGED <<sig, state_mutex_, flagVars, clockVars, timer, flushed,
                 cmd_vel, msg, wire, histVars>>

DtorPublish ==
  /\ Goto("dtor_stop", "dtor_stamp") /\ StopPublish("main")
  /\ UNCHANGED <<sig, flagVars, clockVars, timer, busy, flushed, cmd_vel, msg>>

DtorStamp ==
  /\ Goto("dtor_stamp", "exited") /\ StopStamp("main") /\ busy' = 0
  /\ UNCHANGED <<sig, flagVars, elapsed, timer, flushed, cmd_vel, msg, wire, histVars>>

-----------------------------------------------------------------------------
\* One unit of time.  It cannot pass while a callback has used up Exec, nor
\* while the executor owes the watchdog a call for longer than Lag.
InCallback == InCtor \/ InCmd \/ InWd \/ InDtor

Tick ==
  /\ InCallback => busy < Exec
  /\ (ContextOk /\ (pc = "spin" \/ InCmd)) => timer > -Lag
  /\ elapsed' = Older(elapsed, 1) /\ since_stop' = Older(since_stop, 1)
  /\ silence' = Older(silence, 1) /\ quiet' = Older(quiet, 1)
  /\ timer' = IF ContextOk /\ ~Gone THEN timer - 1 ELSE timer
  /\ busy' = IF InCallback THEN busy + 1 ELSE busy
  /\ flushed' = IF sig = "flush" /\ flushed < FlushMs THEN flushed + 1 ELSE flushed
  /\ UNCHANGED <<pc, sig, state_mutex_, flagVars, cmd_vel, msg, wire, back, fwd, faults>>

\* The ROS clock is set (NTP, or by hand): every age read from it moves.
ClockBack(d) ==
  /\ back + d <= MaxJump /\ back' = back + d
  /\ elapsed' = elapsed - d /\ since_stop' = since_stop - d
  /\ UNCHANGED <<pc, sig, state_mutex_, flagVars, timer, busy, flushed, cmd_vel,
                 msg, wire, silence, quiet, fwd, faults>>

ClockForward(d) ==
  /\ fwd + d <= MaxJump /\ fwd' = fwd + d
  /\ elapsed' = Older(elapsed, d) /\ since_stop' = Older(since_stop, d)
  /\ UNCHANGED <<pc, sig, state_mutex_, flagVars, timer, busy, flushed, cmd_vel,
                 msg, wire, silence, quiet, back, faults>>

-----------------------------------------------------------------------------
Constructor == CtorPublish \/ CtorStamp \/ CtorThrows
CmdCallback == CmdBegin \/ CmdStamp \/ CmdPublish \/ CmdThrows
Watchdog    == WdBegin \/ WdPublish \/ WdStamp \/ WdThrows
Shutdown    == SendStopPublish \/ SendStopStamp \/ FlushDone
Destructor  == SpinReturns \/ DtorPublish \/ DtorStamp

Next ==
  \/ Constructor \/ CmdCallback \/ Watchdog \/ Shutdown \/ Destructor
  \/ Sigint \/ Tick
  \/ \E m \in Twists : CmdVelArrives(m)
  \/ \E d \in 1..MaxJump : ClockBack(d) \/ ClockForward(d)

Spec == Init /\ [][Next]_vars

\* The operating system runs both threads, time passes, and the executor, which
\* looks at timers before subscriptions, does not starve the timer.
Fairness ==
  /\ WF_vars(Constructor) /\ WF_vars(CmdStamp \/ CmdPublish \/ CmdThrows)
  /\ WF_vars(WdPublish \/ WdStamp \/ WdThrows) /\ WF_vars(Destructor)
  /\ SF_vars(WdBegin) /\ SF_vars(CmdBegin) /\ SF_vars(Tick)
  /\ SF_vars(SendStopPublish) /\ WF_vars(SendStopStamp) /\ WF_vars(FlushDone)

FairSpec == Spec /\ Fairness

-----------------------------------------------------------------------------
Commands == [velocity : Int \X Int, yaw_speed : Int]

TypeOK ==
  /\ pc \in {"ctor_stop", "ctor_stamp", "spin", "cmd_stamp", "cmd_pub",
             "wd_stop", "wd_stamp", "dtor_stop", "dtor_stamp", "exited", "dead"}
  /\ sig \in {"none", "stop", "stamp", "flush", "done", "dead"}
  /\ state_mutex_ \in {"free", "main", "sig"}
  /\ cmd_vel_received_ \in BOOLEAN /\ timeout_stop_sent_ \in BOOLEAN
  /\ elapsed \in Int /\ since_stop \in Int /\ timer \in Int
  /\ elapsed <= Cap /\ since_stop <= Cap /\ timer <= Period
  /\ busy \in 0..Exec /\ flushed \in 0..FlushMs
  /\ cmd_vel \in Seq(Twists) /\ Len(cmd_vel) <= CmdVelDepth
  /\ IF InCmd THEN msg \in Twists ELSE msg = NoMsg \/ Gone
  /\ wire \in Commands
  /\ silence \in 0..Cap /\ quiet \in 0..Cap
  /\ back \in 0..MaxJump /\ fwd \in 0..MaxJump /\ faults \in 0..MaxFaults

Moving == wire # StopCmd
Serving == ContextOk /\ (pc = "spin" \/ InCmd \/ InWd)

Larger(a, b) == IF a > b THEN a ELSE b

\* What the code guarantees: the timeout, one timer period, the executor's delays.
StopBound == watchdog_timeout_ms_ + Period + Lag + Exec

\* StopLatency: as long as no publish() has failed, a non-zero command on the
\* wire is at most StopBound old, plus whatever the clock was set back.
\* (watchdog_callback: the timer samples the age, so the timeout alone is not
\* the bound.)
StopLatency ==
  (Serving /\ faults = 0 /\ Moving) => silence <= StopBound + back

\* RetryLatency: a stop whose publish() threw is not tried again at the next
\* timer call (timeout_stop_sent_ is already set) but only when the last stop
\* is kStopRepublishMs old; each failure costs one period and its delays.
RetryLatency ==
  (Serving /\ Moving) =>
    silence <= Larger(watchdog_timeout_ms_ + Period, kStopRepublishMs)
                 + Lag + Exec + faults * (Period + Lag + Exec) + back

\* Heartbeat: sport_mode_cmd is never quiet for longer than the republishing
\* interval and its delays: a stop the best-effort link lost is sent again.
\* (Exec counts twice: the interval runs from the stamp of a stop, which may be
\* made Exec after the stop went out, and the next one may take as long.)
Heartbeat ==
  (Serving /\ faults = 0) =>
    quiet <= Larger(watchdog_timeout_ms_, kStopRepublishMs)
               + Period + Lag + 2 * Exec + back

\* StopFlagTruthful: when timeout_stop_sent_ is set the robot has been told to
\* stop, or the watchdog is about to do so, unless a publish() has failed.
\* (the exchange in watchdog_callback against the reset in cmd_vel_callback)
StopFlagTruthful ==
  (Serving /\ faults = 0 /\ timeout_stop_sent_) => (~Moving \/ pc = "wd_stop")

\* WithinLimits: whatever arrives on cmd_vel, NaN and infinities included, and
\* whatever the parameters, what leaves on sport_mode_cmd is within the limits.
WithinLimits ==
  /\ \A i \in {1, 2} : wire.velocity[i] \in -linear_max_ .. linear_max_
  /\ wire.yaw_speed \in -angular_max_ .. angular_max_

\* NoSpuriousStop: the watchdog cuts a moving robot off only if the last command
\* really is older than the timeout, less what the clock was set forward.
NoSpuriousStop ==
  [][(pc = "wd_stop" /\ pc' = "wd_stamp" /\ Moving)
       => silence > watchdog_timeout_ms_ - fwd]_vars

\* StopInv: the inductive strengthening of StopLatency and StopFlagTruthful.
\* While the context is valid and no publish() has failed:
Good == ContextOk /\ faults = 0

\* the watchdog never sees a command as younger than it is, but for the clock;
ClockInv == elapsed >= silence - back

\* nothing moves before the first command, after a stop, or behind a stop flag;
FlagInv ==
  /\ pc \in {"ctor_stamp", "wd_stamp"} => ~Moving
  /\ (Serving \/ pc = "ctor_stamp") /\ ~cmd_vel_received_ => ~Moving
  /\ InCmd => cmd_vel_received_ /\ ~timeout_stop_sent_
  /\ Serving /\ timeout_stop_sent_ => ~Moving \/ pc = "wd_stop"

\* and while it moves, or is about to, the timer falls due early enough that
\* its callback finds the command no older than it may be.
AgeInv ==
  /\ pc = "cmd_pub" \/ (Moving /\ pc \in {"spin", "cmd_stamp"}) =>
       /\ silence + timer <= watchdog_timeout_ms_ + Period + back
       /\ silence <= watchdog_timeout_ms_ + Period + Lag + back
  /\ pc = "wd_stop" /\ Moving =>
       silence <= watchdog_timeout_ms_ + Period + Lag + back + busy
  /\ pc = "cmd_pub" => silence <= busy

StopInv == ClockInv /\ (Good => FlagInv /\ AgeInv)

\* EventuallyStopped: if commands cease for good, so does motion, even when
\* some publish() of the watchdog throws.
EventuallyStopped ==
  <>[](cmd_vel = <<>> /\ ~InCmd) => <>[](~Moving \/ ~Serving)

\* ShutdownCompletes: once SIGINT has started the shutdown callback the process
\* ends: neither thread is stuck on state_mutex_, in spin() or in the sleep.
ShutdownCompletes == sig = "stop" ~> Gone

\* FinalStop: an orderly exit leaves a robot that has been told to stop, "Allow
\* time for DDS to flush the stop command before transport teardown" (the
\* comment in main's on_shutdown callback).
FinalStop == pc = "exited" => ~Moving

\* Gate: the bridge keeps the promise of VelocityGate for as long as it serves
\* and no publish() has failed, the clock's steps back being allowed for.
Gate == INSTANCE VelocityGate WITH
  Command <- Commands, Stop <- StopCmd, Fresh <- Exec,
  Bound <- StopBound + MaxJump, AgeMax <- Cap,
  sent <- wire, age <- silence,
  live <- Good /\ ~InDtor /\ ~Gone

KeepsGate == Gate!GateSpec

=============================================================================
