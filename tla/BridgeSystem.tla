--------------------------- MODULE BridgeSystem ---------------------------
(***************************************************************************)
(* The bridge in its surroundings: the best-effort sport_mode_cmd link of  *)
(* depth 1, the robot's controller, which executes the last command that   *)
(* reached it, and the launch system, which restarts the process.          *)
(***************************************************************************)
EXTENDS Go2NavBridge

CONSTANTS
  RespawnDelay,  \* respawn_delay of the launch file
  MaxLossBurst,  \* how many messages in a row the link may lose
  MaxCrashes     \* bound on crashes of the process

ASSUME SystemAssumption ==
  RespawnDelay \in Nat /\ MaxLossBurst \in Nat /\ MaxCrashes \in Nat

VARIABLES
  link,     \* the message in flight on sport_mode_cmd, if any
  mcu,      \* the command the robot's controller executes
  lost,     \* how many messages the link has lost since it last delivered one
  down,     \* how long the process has been dead
  crashes   \* history: how often it has died of anything but an orderly exit

linkVars == <<link, mcu, lost>>
sysVars == <<vars, linkVars, down, crashes>>

SysInit ==
  /\ Init
  /\ link = <<>> /\ mcu = StopCmd /\ lost = 0 /\ down = 0 /\ crashes = 0

-----------------------------------------------------------------------------
\* A command that is published replaces one that is still in flight.
Publishing ==
  /\ CtorPublish \/ CmdPublish \/ WdPublish \/ SendStopPublish \/ DtorPublish
  /\ link' = IF ContextOk THEN <<wire'>> ELSE link
  /\ UNCHANGED <<mcu, lost, down, crashes>>

\* Every other step of the bridge that leaves it running.
NotPublishing ==
  /\ \/ CtorStamp \/ CmdBegin \/ CmdStamp \/ CmdThrows
     \/ WdBegin \/ WdStamp \/ WdThrows
     \/ Sigint \/ SendStopStamp \/ FlushDone \/ SpinReturns \/ DtorStamp
     \/ \E m \in Twists : CmdVelArrives(m)
     \/ \E d \in 1..MaxJump : ClockBack(d) \/ ClockForward(d)
  /\ UNCHANGED <<linkVars, down, crashes>>

\* A message is under way for less than one unit of time, and the launch system
\* restarts a dead process as soon as respawn_delay is over.
SysTick ==
  /\ Tick /\ link = <<>>
  /\ pc = "dead" => down < RespawnDelay
  /\ down' = IF pc = "dead" THEN down + 1 ELSE 0
  /\ UNCHANGED <<linkVars, crashes>>

-----------------------------------------------------------------------------
Deliver ==
  /\ link # <<>>
  /\ mcu' = Head(link) /\ link' = <<>> /\ lost' = 0
  /\ UNCHANGED <<vars, down, crashes>>

Lose ==
  /\ link # <<>> /\ lost < MaxLossBurst
  /\ link' = <<>> /\ lost' = lost + 1
  /\ UNCHANGED <<vars, mcu, down, crashes>>

-----------------------------------------------------------------------------
\* The process dies of itself: an exception nobody catches ...
Terminate ==
  /\ CtorThrows
  /\ down' = 0 /\ crashes' = crashes + 1
  /\ UNCHANGED linkVars

\* ... or at any point for any other reason, with nothing left to run the watchdog.
\* A launch system that shuts down restarts nothing: a death after SIGINT is the
\* end, like an exit.
Crash ==
  /\ ~Gone /\ sig = "none" /\ crashes < MaxCrashes
  /\ pc' = "dead" /\ sig' = "dead" /\ down' = 0 /\ crashes' = crashes + 1
  /\ UNCHANGED <<state_mutex_, flagVars, clockVars, timer, busy, flushed,
                 cmd_vel, msg, wire, histVars, linkVars>>

\* respawn: a new process, all of its state new; what is on the wire and what
\* the robot does are not the process's to reset.
Respawn ==
  /\ pc = "dead" /\ down >= RespawnDelay
  /\ pc' = "ctor_stop" /\ sig' = "none" /\ state_mutex_' = "free"
  /\ cmd_vel_received_' = FALSE /\ timeout_stop_sent_' = FALSE
  /\ elapsed' = 0 /\ since_stop' = Cap
  /\ timer' = Period /\ busy' = 0 /\ flushed' = 0
  /\ cmd_vel' = <<>> /\ msg' = NoMsg /\ down' = 0
  /\ UNCHANGED <<wire, histVars, linkVars, crashes>>

SysNext ==
  \/ Publishing \/ NotPublishing \/ SysTick
  \/ Deliver \/ Lose
  \/ Terminate \/ Crash \/ Respawn

SysSpec == SysInit /\ [][SysNext]_sysVars

-----------------------------------------------------------------------------
\* What a stop that was lost, or that publish() did not send, costs: the
\* republishing interval, and the delays of its own stamp and of the next call;
\* and what a death of the process does: the respawn delay and a constructor.
LossCost == kStopRepublishMs + Period + Lag + 2 * Exec
CrashCost == RespawnDelay + Exec

\* RunawayBound: how long the robot can go on moving without a command, counting
\* lost messages and downtime, until somebody shuts the bridge down: no process
\* that has been sent SIGINT says anything more (see FinalStop).
RunawayBound ==
  (sig \in {"none", "dead"} /\ mcu # StopCmd) =>
    silence <= StopBound + back + (MaxLossBurst + faults) * LossCost + crashes * CrashCost

\* RespawnStops: a new process does not start to serve before a stop has gone
\* out, whatever its predecessor left on the wire (the constructor's
\* publish_stop_command, and cmd_vel_received_ starting out false).
RespawnStops ==
  (Serving /\ ~cmd_vel_received_) => (wire = StopCmd /\ (link = <<>> \/ link = <<StopCmd>>))

\* WatchdogCoversDowntime: "respawn=True with 1 s delay; watchdog (200 ms)
\* publishes zero velocity during downtime, preventing runaway motion"
\* (docs/superpowers/specs/2026-04-09-single-command-startup-design.md).
WatchdogCoversDowntime ==
  (pc = "dead" /\ mcu # StopCmd) => silence <= StopBound

=============================================================================
